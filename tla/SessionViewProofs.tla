------------------------- MODULE SessionViewProofs -------------------------
(***************************************************************************)
(* The page of SessionView stays typed, shows of the stored history only   *)
(* what belongs to the session on screen, and no event reopens a tool that *)
(* has a result: for any number of sessions, selections, messages, tasks   *)
(* and scripts of any length.                                              *)
(***************************************************************************)
EXTENDS SessionView, SequenceLemmas

ToolMaps == UNION {[S -> ToolStatus] : S \in SUBSET Tools}
Buffers == UNION {[S -> Settled] : S \in SUBSET Tools}

Store == [current : Ids(Sessions), version : 0 .. Selects, messages : Seq(Message),
          runs : Ids(Sessions), turn : Ids(Tasks), buffered : Buffers, source : Ids(Openers),
          plan : Ids(Sessions), preview : Ids(Sessions)]

Loading == {"detail", "plan", "preview", "task"}
Fetched == {"plan", "preview", "task"}

ServerTyped ==
    /\ task \in [Tasks -> [session : Ids(Sessions), script : Seq(Event), ready : Nat]]
    /\ turns \in [Sessions -> Seq(Tasks)]
    /\ \A t \in Tasks :
        /\ task[t].ready <= Len(task[t].script)
        /\ task[t].script = <<>> \/ task[t].script \in Scripts[t]
        /\ task[t].session = None => task[t].ready = 0 /\ task[t].script = <<>>

CallsTyped ==
    /\ sel \in [Versions -> [pc : Loading \cup {"none", "done"}, session : Ids(Sessions),
                             messages : Seq(Message), seen : Ids(Tasks)]]
    /\ \A v \in Versions : sel[v].pc \in Loading => sel[v].session \in Sessions
    /\ send \in [Sends -> [pc : {"none", "upload", "submit", "accepted", "done"},
                           session : Ids(Sessions)]]
    /\ \A k \in Sends : send[k].pc \in {"upload", "submit", "accepted"} => send[k].session \in Sessions
    /\ stopping \in Ids(Sessions)
    /\ loads \in [plan : SUBSET Sessions, preview : SUBSET Sessions]

StreamOK(o) ==
    stream[o].live => /\ stream[o].task \in Tasks /\ stream[o].session \in Sessions
                      /\ stream[o].at <= task[stream[o].task].ready

StreamsTyped ==
    /\ stream \in [Openers -> [live : BOOLEAN, task : Ids(Tasks), session : Ids(Sessions),
                               at : Nat]]
    /\ \A o \in Openers : StreamOK(o)

Typed == ServerTyped /\ ui \in Store /\ CallsTyped /\ StreamsTyped

-----------------------------------------------------------------------------
(* The projection.                                                         *)

\* A message that is still the same one, with no settled tool reopened.
Kept(m, n) ==
    /\ n.of = m.of /\ n.turn = m.turn
    /\ \A c \in DOMAIN m.tools : m.tools[c] \in Settled =>
          c \in DOMAIN n.tools /\ n.tools[c] \in Settled

\* Messages of which all are kept, and new ones that are no history.
Grows(ms, ns) ==
    /\ Len(ms) <= Len(ns)
    /\ \A i \in 1 .. Len(ms) : Kept(ms[i], ns[i])
    /\ \A i \in 1 .. Len(ns) : i > Len(ms) => ns[i].turn # History

LEMMA Constants ==
    /\ None \notin Sessions /\ None \notin Tasks /\ None \notin Tools
    /\ History \notin Tasks /\ History # None
    /\ Sends \subseteq Tasks /\ Elsewhere \subseteq Tasks
    /\ \A v \in Versions : <<"select", v>> \in Openers
    /\ \A k \in Sends : <<"send", k>> \in Openers
    /\ NoTools \in ToolMaps /\ NoTools \in Buffers
    /\ \A m \in Message : m.tools \in ToolMaps
<1>1. NoTools \in [{} -> ToolStatus] /\ NoTools \in [{} -> Settled] /\ {} \in SUBSET Tools
  BY DEF NoTools
<1>2. NoTools \in ToolMaps /\ NoTools \in Buffers
  BY <1>1 DEF ToolMaps, Buffers
<1>3. \A m \in Message : m.tools \in ToolMaps
  BY DEF Message, ToolMaps
<1>4. /\ \A v \in Versions : <<"select", v>> \in Openers
      /\ \A k \in Sends : <<"send", k>> \in Openers
  BY DEF Openers
<1>5. /\ None \notin Sessions /\ None \notin Tasks /\ None \notin Tools
      /\ History \notin Tasks /\ History # None
      /\ Sends \subseteq Tasks /\ Elsewhere \subseteq Tasks
  BY ViewAssumption DEF Tasks
<1> QED BY <1>2, <1>3, <1>4, <1>5

LEMMA MessageParts ==
    ASSUME NEW role \in {"user", "assistant"}, NEW s \in Sessions,
           NEW t \in Tasks \cup {History, None}, NEW status \in ToolStatus, NEW tools \in ToolMaps
    PROVE  [role |-> role, of |-> s, turn |-> t, status |-> status, tools |-> tools] \in Message
BY DEF Message, ToolMaps

LEMMA NewMessages ==
    ASSUME NEW s \in Sessions
    PROVE  /\ User(s) \in Message /\ User(s).turn = None
           /\ \A t \in Tasks \cup {History, None} : \A status \in ToolStatus : \A tools \in ToolMaps :
                 Turn(s, t, status, tools) \in Message
<1>1. "completed" \in ToolStatus
  BY DEF ToolStatus, Settled
<1> QED BY <1>1, Constants, MessageParts DEF User, Turn

LEMMA ToolMapParts ==
    ASSUME NEW f \in ToolMaps
    PROVE  /\ DOMAIN f \subseteq Tools /\ \A c \in DOMAIN f : f[c] \in ToolStatus
           /\ f = [c \in DOMAIN f |-> f[c]]
BY DEF ToolMaps

LEMMA PutTyped ==
    ASSUME NEW f \in ToolMaps, NEW c \in Tools, NEW x \in ToolStatus
    PROVE  /\ Put(f, c, x) \in ToolMaps
           /\ DOMAIN Put(f, c, x) = DOMAIN f \cup {c}
           /\ \A d \in DOMAIN f \cup {c} : Put(f, c, x)[d] = IF d = c THEN x ELSE f[d]
<1>1. DOMAIN f \cup {c} \in SUBSET Tools
  BY ToolMapParts
<1>2. Put(f, c, x) \in [DOMAIN f \cup {c} -> ToolStatus]
  BY ToolMapParts DEF Put
<1> QED BY <1>1, <1>2 DEF ToolMaps, Put

LEMMA BufferParts ==
    ASSUME NEW f \in Buffers
    PROVE  DOMAIN f \subseteq Tools /\ \A c \in DOMAIN f : f[c] \in Settled
BY DEF Buffers

LEMMA BufferPut ==
    ASSUME NEW f \in Buffers, NEW c \in Tools, NEW x \in Settled
    PROVE  Put(f, c, x) \in Buffers
<1>1. DOMAIN f \cup {c} \in SUBSET Tools
  BY BufferParts
<1>2. Put(f, c, x) \in [DOMAIN f \cup {c} -> Settled]
  BY BufferParts DEF Put
<1> QED BY <1>1, <1>2 DEF Buffers

LEMMA BufferDrop ==
    ASSUME NEW f \in Buffers, NEW c
    PROVE  Drop(f, c) \in Buffers
<1>1. DOMAIN f \ {c} \in SUBSET Tools
  BY BufferParts
<1>2. Drop(f, c) \in [DOMAIN f \ {c} -> Settled]
  BY BufferParts DEF Drop
<1> QED BY <1>1, <1>2 DEF Buffers

\* The message that updateTurn chooses is an answer.
LEMMA TurnAtTyped ==
    ASSUME NEW ms \in Seq(Message), NEW t
    PROVE  TurnAt(ms, t) = 0 \/ (TurnAt(ms, t) \in 1 .. Len(ms)
                                 /\ ms[TurnAt(ms, t)].role = "assistant")
<1> DEFINE mine == {i \in Assistants(ms) : t # None /\ ms[i].turn = t}
<1> DEFINE tail == {i \in Assistants(ms) : \A j \in i .. Len(ms) : ms[j].role # "user"}
<1>1. Assistants(ms) \subseteq 1 .. Len(ms) /\ Len(ms) \in Nat
  BY DEF Assistants
<1>2. mine \subseteq 1 .. Len(ms) /\ tail \subseteq 1 .. Len(ms) /\ mine \subseteq Nat
  BY <1>1
<1>3. mine # {} => Min(mine) \in mine
  BY <1>2, MinOf
<1>4. tail # {} => Max(tail) \in tail
  BY <1>1, <1>2, MaxOf
<1>5. TurnAt(ms, t) = IF mine # {} THEN Min(mine) ELSE IF tail # {} THEN Max(tail) ELSE 0
  BY DEF TurnAt
<1>6. \A i \in mine \cup tail : i \in 1 .. Len(ms) /\ ms[i].role = "assistant"
  BY <1>2 DEF Assistants
<1> HIDE DEF mine, tail
<1> QED BY <1>3, <1>4, <1>5, <1>6

LEMMA TurnMessageTyped ==
    ASSUME NEW u \in Store, NEW s \in Sessions
    PROVE  /\ TurnMessage(u, s) \in Message
           /\ TurnAt(u.messages, u.turn) # 0
                 => TurnMessage(u, s) = u.messages[TurnAt(u.messages, u.turn)]
           /\ TurnAt(u.messages, u.turn) = 0
                 => TurnMessage(u, s).turn = u.turn
<1>1. u.messages \in Seq(Message) /\ u.turn \in Tasks \cup {History, None}
  BY DEF Store, Ids
<1>2. Turn(s, u.turn, "running", NoTools) \in Message
  BY <1>1, NewMessages, Constants DEF ToolStatus
<1>3. Turn(s, u.turn, "running", NoTools).turn = u.turn
  BY DEF Turn
<1> QED BY <1>1, <1>2, <1>3, TurnAtTyped DEF TurnMessage

LEMMA KeptByItself == \A m : Kept(m, m)
BY DEF Kept

LEMMA GrowsByItself ==
    ASSUME NEW ms \in Seq(Message)
    PROVE  Grows(ms, ms)
BY KeptByItself DEF Grows

\* updateTurn with an answer that keeps the old one.
LEMMA UpdateGrows ==
    ASSUME NEW u \in Store, NEW s \in Sessions, NEW m \in Message, Kept(TurnMessage(u, s), m)
    PROVE  /\ UpdateTurn(u, m).messages \in Seq(Message)
           /\ UpdateTurn(u, m) = [u EXCEPT !.messages = UpdateTurn(u, m).messages]
           /\ UpdateTurn(u, m) \in Store
           /\ Grows(u.messages, UpdateTurn(u, m).messages)
<1> DEFINE i == TurnAt(u.messages, u.turn)
<1> DEFINE ns == IF i = 0 THEN Append(u.messages, m) ELSE [u.messages EXCEPT ![i] = m]
<1>1. u.messages \in Seq(Message) /\ u.turn # History
  BY Constants DEF Store, Ids
<1>2. UpdateTurn(u, m) = [u EXCEPT !.messages = ns]
  BY DEF UpdateTurn
<1>3. ns \in Seq(Message) /\ Grows(u.messages, ns)
  <2>1. CASE i = 0
    <3>1. m.turn # History
      BY <1>1, <2>1, TurnMessageTyped DEF Kept
    <3> QED BY <1>1, <2>1, <3>1, KeptByItself DEF Grows
  <2>2. CASE i # 0
    <3>1. i \in 1 .. Len(u.messages) /\ Kept(u.messages[i], m)
      BY <1>1, <2>2, TurnAtTyped, TurnMessageTyped
    <3> HIDE DEF i
    <3> QED BY <1>1, <2>2, <3>1, KeptByItself DEF Grows
  <2> QED BY <2>1, <2>2
<1> HIDE DEF ns
<1>4. UpdateTurn(u, m).messages = ns
  BY <1>2 DEF Store
<1>5. [u EXCEPT !.messages = ns] \in Store
  BY <1>3 DEF Store
<1> QED BY <1>2, <1>3, <1>4, <1>5

LEMMA GrowsOn ==
    ASSUME NEW ms \in Seq(Message), NEW ns \in Seq(Message), NEW ks \in Seq(Message),
           Grows(ms, ns), Grows(ns, ks)
    PROVE  Grows(ms, ks)
<1>1. Len(ms) <= Len(ns) /\ Len(ns) <= Len(ks) /\ Len(ms) \in Nat /\ Len(ns) \in Nat /\ Len(ks) \in Nat
  BY DEF Grows
<1>2. ASSUME NEW i \in 1 .. Len(ms) PROVE Kept(ms[i], ks[i])
  <2>1. i \in 1 .. Len(ns)
    BY <1>1
  <2>2. Kept(ms[i], ns[i]) /\ Kept(ns[i], ks[i])
    BY <2>1 DEF Grows
  <2> QED BY <2>2 DEF Kept
<1>3. ASSUME NEW i \in 1 .. Len(ks), i > Len(ms) PROVE ks[i].turn # History
  <2>1. CASE i > Len(ns)
    BY <2>1 DEF Grows
  <2>2. CASE i <= Len(ns)
    <3>1. i \in 1 .. Len(ns) /\ ns[i].turn # History /\ Kept(ns[i], ks[i])
      BY <1>3, <2>2 DEF Grows
    <3> QED BY <3>1 DEF Kept
  <2> QED BY <1>1, <2>1, <2>2
<1> QED BY <1>1, <1>2, <1>3 DEF Grows

-----------------------------------------------------------------------------
(* Events.                                                                 *)

\* What an event may do to the store of a page.
Handled(u, w) ==
    /\ w \in Store /\ Grows(u.messages, w.messages)
    /\ w.current = u.current /\ w.version = u.version

LEMMA HandledItself == ASSUME NEW u \in Store PROVE Handled(u, u)
BY GrowsByItself DEF Handled, Store

LEMMA HandledUpdate ==
    ASSUME NEW u \in Store, NEW s \in Sessions, NEW m \in Message, Kept(TurnMessage(u, s), m)
    PROVE  Handled(u, UpdateTurn(u, m))
<1>1. PICK ns \in Seq(Message) : /\ UpdateTurn(u, m) = [u EXCEPT !.messages = ns]
                                /\ Grows(u.messages, ns)
  BY UpdateGrows
<1> QED BY <1>1 DEF Handled, Store

LEMMA RunningKept ==
    ASSUME NEW m \in Message
    PROVE  /\ Running(m) \in Message /\ Kept(m, Running(m))
           /\ Running(m).tools = m.tools /\ Running(m).of = m.of /\ Running(m).turn = m.turn
BY DEF Running, Message, Kept, ToolStatus

\* One tool of an answer is given a status.
LEMMA ToolsPut ==
    ASSUME NEW m \in Message, NEW tools \in ToolMaps,
           \A c \in DOMAIN m.tools : m.tools[c] \in Settled =>
              c \in DOMAIN tools /\ tools[c] \in Settled
    PROVE  [m EXCEPT !.tools = tools] \in Message /\ Kept(m, [m EXCEPT !.tools = tools])
<1>1. [m EXCEPT !.tools = tools] \in Message
  BY DEF Message, ToolMaps
<1>2. /\ [m EXCEPT !.tools = tools].tools = tools
      /\ [m EXCEPT !.tools = tools].of = m.of /\ [m EXCEPT !.tools = tools].turn = m.turn
  BY DEF Message
<1> QED BY <1>1, <1>2 DEF Kept

LEMMA CallHandled ==
    ASSUME NEW u \in Store, NEW s \in Sessions, NEW c \in Tools
    PROVE  Handled(u, Call(u, s, c))
<1> DEFINE m == TurnMessage(u, s)
<1> DEFINE status == IF c \in DOMAIN u.buffered THEN u.buffered[c]
                     ELSE IF c \in DOMAIN m.tools /\ m.tools[c] \in Settled THEN m.tools[c]
                     ELSE "running"
<1> DEFINE tools == Put(m.tools, c, status)
<1> DEFINE n == [Running(m) EXCEPT !.tools = Put(@, c, status)]
<1>1. m \in Message /\ u.buffered \in Buffers
  BY TurnMessageTyped DEF Store
<1>2. status \in ToolStatus /\ (c \in DOMAIN m.tools /\ m.tools[c] \in Settled => status \in Settled)
  BY <1>1, BufferParts DEF ToolStatus
<1>3. Call(u, s, c) = [UpdateTurn(u, n) EXCEPT !.buffered = Drop(@, c)]
  BY DEF Call
<1> HIDE DEF m, status
<1>4. Running(m) \in Message /\ Kept(m, Running(m)) /\ Running(m).tools = m.tools
  BY <1>1, RunningKept
<1>5. m.tools \in ToolMaps
  BY <1>1, Constants
<1>6. /\ tools \in ToolMaps
      /\ \A d \in DOMAIN m.tools : m.tools[d] \in Settled => d \in DOMAIN tools /\ tools[d] \in Settled
  <2>1. /\ Put(m.tools, c, status) \in ToolMaps
        /\ DOMAIN Put(m.tools, c, status) = DOMAIN m.tools \cup {c}
        /\ \A d \in DOMAIN m.tools \cup {c} :
              Put(m.tools, c, status)[d] = IF d = c THEN status ELSE m.tools[d]
    BY <1>2, <1>5, PutTyped
  <2> QED BY <1>2, <2>1
<1>n. n = [Running(m) EXCEPT !.tools = tools]
  BY <1>4
<1> HIDE DEF tools, n
<1>7. n \in Message /\ Kept(Running(m), n)
  BY <1>4, <1>6, <1>n, ToolsPut
<1>8. Kept(m, n)
  BY <1>4, <1>7 DEF Kept
<1>9. Handled(u, UpdateTurn(u, n))
  BY <1>7, <1>8, HandledUpdate DEF m
<1>10. UpdateTurn(u, n) \in Store /\ Drop(UpdateTurn(u, n).buffered, c) \in Buffers
  BY <1>9, BufferDrop DEF Handled, Store
<1> HIDE DEF Handled
<1>11. Handled(u, [UpdateTurn(u, n) EXCEPT !.buffered = Drop(@, c)])
  BY <1>9, <1>10 DEF Handled, Store
<1> QED BY <1>3, <1>11

LEMMA ResultHandled ==
    ASSUME NEW u \in Store, NEW s \in Sessions, NEW c \in Tools, NEW as \in Settled
    PROVE  Handled(u, Result(u, s, c, as))
<1> DEFINE m == TurnMessage(u, s)
<1> DEFINE n == IF c \in DOMAIN m.tools THEN [m EXCEPT !.tools[c] = as] ELSE m
<1> DEFINE known == \E i \in Assistants(u.messages) : c \in DOMAIN u.messages[i].tools
<1>1. m \in Message /\ u.buffered \in Buffers
  BY TurnMessageTyped DEF Store
<1>2. Result(u, s, c, as) = [UpdateTurn(u, n) EXCEPT
                               !.buffered = IF known THEN @ ELSE Put(@, c, as)]
  BY DEF Result
<1> HIDE DEF m, known
<1>3. n \in Message /\ Kept(m, n)
  <2>1. CASE c \notin DOMAIN m.tools
    BY <1>1, <2>1, KeptByItself
  <2>2. CASE c \in DOMAIN m.tools
    <3> DEFINE tools == [m.tools EXCEPT ![c] = as]
    <3>1. m.tools \in ToolMaps
      BY <1>1, Constants
    <3>2. tools \in [DOMAIN m.tools -> ToolStatus] /\ DOMAIN m.tools \in SUBSET Tools
      BY <3>1, ToolMapParts DEF ToolStatus
    <3>3. tools \in ToolMaps
      BY <3>2 DEF ToolMaps
    <3>4. \A d \in DOMAIN m.tools : m.tools[d] \in Settled => d \in DOMAIN tools /\ tools[d] \in Settled
      BY <3>1, ToolMapParts
    <3>5. n = [m EXCEPT !.tools = tools]
      BY <1>1, <2>2
    <3> HIDE DEF tools, n
    <3> QED BY <1>1, <3>3, <3>4, <3>5, ToolsPut
  <2> QED BY <2>1, <2>2
<1> HIDE DEF n
<1>4. Handled(u, UpdateTurn(u, n))
  BY <1>3, HandledUpdate DEF m
<1> DEFINE w == UpdateTurn(u, n)
<1>5. w \in Store /\ (IF known THEN w.buffered ELSE Put(w.buffered, c, as)) \in Buffers
  BY <1>4, BufferPut DEF Handled, Store
<1> HIDE DEF w
<1>6. Handled(u, [w EXCEPT !.buffered = IF known THEN @ ELSE Put(@, c, as)])
  BY <1>4, <1>5 DEF Handled, Store, w
<1> QED BY <1>2, <1>6 DEF w

\* finalizeTurnMessages closes open tools and leaves the settled ones.
LEMMA FinalizeKeeps ==
    ASSUME NEW ms \in Seq(Message), NEW t, NEW status \in Settled
    PROVE  Finalize(ms, t, status) \in Seq(Message) /\ Grows(ms, Finalize(ms, t, status))
<1> DEFINE closed == IF status = "completed" THEN "failed" ELSE status
<1> DEFINE Shut(f) == [c \in DOMAIN f |-> IF f[c] = "running" THEN closed ELSE f[c]]
<1> DEFINE fs == Finalize(ms, t, status)
<1>1. closed \in Settled /\ closed \in ToolStatus /\ "running" \notin Settled /\ status \in ToolStatus
  BY DEF Settled, ToolStatus
<1>2. DOMAIN fs = 1 .. Len(ms)
  BY DEF Finalize
<1>3. \A i \in 1 .. Len(ms) :
        \/ fs[i] = ms[i]
        \/ fs[i] = [ms[i] EXCEPT !.status = status, !.tools = Shut(ms[i].tools)]
  BY DOMAIN ms = 1 .. Len(ms), Zenon DEF Finalize
<1> HIDE DEF fs, closed
<1>4. ASSUME NEW f \in ToolMaps
      PROVE  /\ Shut(f) \in ToolMaps
             /\ \A c \in DOMAIN f : f[c] \in Settled => c \in DOMAIN Shut(f) /\ Shut(f)[c] \in Settled
  <2>1. Shut(f) \in [DOMAIN f -> ToolStatus] /\ DOMAIN f \in SUBSET Tools
    BY <1>1, ToolMapParts
  <2> QED BY <1>1, <2>1 DEF ToolMaps
<1>5. ASSUME NEW m \in Message, NEW tools \in ToolMaps, tools = Shut(m.tools)
      PROVE  LET n == [m EXCEPT !.status = status, !.tools = tools] IN n \in Message /\ Kept(m, n)
  <2>1. m.tools \in ToolMaps
    BY Constants
  <2>2. \A c \in DOMAIN m.tools : m.tools[c] \in Settled => c \in DOMAIN tools /\ tools[c] \in Settled
    BY <1>4, <1>5, <2>1
  <2> DEFINE n == [m EXCEPT !.status = status, !.tools = tools]
  <2>3. n.of = m.of /\ n.turn = m.turn /\ n.tools = tools
    BY DEF Message
  <2>4. n \in Message
    BY <1>1 DEF Message, ToolMaps
  <2> QED BY <2>2, <2>3, <2>4 DEF Kept
<1>6. ASSUME NEW i \in 1 .. Len(ms) PROVE fs[i] \in Message /\ Kept(ms[i], fs[i])
  <2>1. ms[i] \in Message /\ Shut(ms[i].tools) \in ToolMaps
    BY <1>4, Constants
  <2> HIDE DEF Shut
  <2> QED BY <1>3, <1>5, <2>1, KeptByItself
<1>7. fs = [i \in 1 .. Len(ms) |-> fs[i]]
  BY DEF fs, Finalize
<1>8. fs \in Seq(Message) /\ Len(fs) = Len(ms)
  BY <1>6, <1>7
<1> QED BY <1>6, <1>8 DEF Grows, fs

LEMMA OverHandled ==
    ASSUME NEW u \in Store, NEW status \in Settled
    PROVE  Handled(u, Over(u, status)) /\ Over(u, status).source = None
<1>1. u.messages \in Seq(Message)
  BY DEF Store
<1>2. PICK ns \in Seq(Message) : ns = Finalize(u.messages, u.turn, status) /\ Grows(u.messages, ns)
  BY <1>1, FinalizeKeeps
<1>3. Over(u, status) = [u EXCEPT !.runs = None, !.source = None, !.turn = None, !.messages = ns]
  BY <1>2 DEF Over
<1> QED BY <1>2, <1>3 DEF Handled, Store, Ids

\* Every event of a log.
Fits(e) ==
    /\ e.type \in EventTypes
    /\ e.type \in {"call", "progress", "result"} => e.tool \in Tools
    /\ e.type = "result" => e.as \in Settled

LEMMA HandleHandled ==
    ASSUME NEW u \in Store, NEW s \in Sessions, NEW e, Fits(e)
    PROVE  Handled(u, Handle(u, s, e))
<1>1. CASE e.type = "text"
  <2>1. Handled(u, UpdateTurn(u, Running(TurnMessage(u, s))))
    BY TurnMessageTyped, RunningKept, HandledUpdate
  <2> QED BY <1>1, <2>1 DEF Handle
<1>2. CASE e.type = "call"
  BY <1>2, CallHandled DEF Handle, Fits
<1>3. CASE e.type = "progress"
  <2>1. Handled(u, UpdateTurn(u, TurnMessage(u, s)))
    BY TurnMessageTyped, KeptByItself, HandledUpdate
  <2> QED BY <1>3, <2>1 DEF Handle, Progress
<1>4. CASE e.type = "result"
  BY <1>4, ResultHandled DEF Handle, Fits
<1>5. CASE e.type \in {"plan", "preview", "confirmed"}
  <2>1. Grows(u.messages, u.messages)
    BY GrowsByItself DEF Store
  <2>2. /\ [u EXCEPT !.plan = s] \in Store /\ [u EXCEPT !.plan = s, !.preview = s] \in Store
        /\ [u EXCEPT !.preview = IF @ = s THEN None ELSE @] \in Store
    BY DEF Store, Ids
  <2>3. Handle(u, s, e) \in {[u EXCEPT !.plan = s], [u EXCEPT !.plan = s, !.preview = s],
                             [u EXCEPT !.preview = IF @ = s THEN None ELSE @]}
    BY <1>5 DEF Handle
  <2> QED BY <2>1, <2>2, <2>3 DEF Handled, Store
<1>6. CASE e.type \in {"interrupted", "error", "end"}
  <2>1. PICK status \in Settled : Handle(u, s, e) = Over(u, status)
    BY <1>6 DEF Handle, Settled
  <2> QED BY <2>1, OverHandled
<1> QED BY <1>1, <1>2, <1>3, <1>4, <1>5, <1>6 DEF Fits, EventTypes

-----------------------------------------------------------------------------
(* The stored history.                                                     *)

LEMMA ScriptFits ==
    ASSUME ServerTyped, NEW t \in Tasks
    PROVE  /\ Len(task[t].script) \in Nat /\ task[t].ready \in Nat
           /\ task[t].script \in Seq(Event)
           /\ \A i \in 1 .. Len(task[t].script) : Fits(task[t].script[i])
<1>1. task[t].script \in Seq(Event) /\ task[t].ready \in Nat
  BY DEF ServerTyped
<1>2. CASE task[t].script = <<>>
  BY <1>1, <1>2
<1>3. CASE task[t].script \in Scripts[t]
  <2> DEFINE es == task[t].script
  <2>1. \A i \in 1 .. Len(es) : /\ es[i] \in Event
                                /\ es[i].type \in {"call", "progress", "result"} => es[i].tool \in Tools
                                /\ es[i].type = "result" => es[i].as \in Settled
    BY <1>1, <1>3, ViewAssumption
  <2>2. \A e \in Event : e.type \in EventTypes
    BY DEF Event
  <2> QED BY <1>1, <2>1, <2>2 DEF Fits
<1> QED BY <1>2, <1>3 DEF ServerTyped

LEMMA ToolsOfTyped ==
    ASSUME ServerTyped, NEW t \in Tasks
    PROVE  ToolsOf(t) \in ToolMaps
<1> DEFINE log == Log(t)
<1> DEFINE Are(type) == {i \in DOMAIN log : log[i].type = type}
<1> DEFINE Results(c) == {i \in Are("result") : log[i].tool = c}
<1> DEFINE called == {log[i].tool : i \in Are("call")}
<1>1. task[t].ready <= Len(task[t].script)
  BY DEF ServerTyped
<1>2. /\ DOMAIN log = 1 .. task[t].ready /\ task[t].ready \in Nat
      /\ \A i \in 1 .. task[t].ready : log[i] = task[t].script[i]
  BY <1>1, ScriptFits DEF Log
<1>3. \A i \in 1 .. task[t].ready : Fits(log[i])
  BY <1>1, <1>2, ScriptFits
<1>4. ToolsOf(t) = [c \in called |-> IF Results(c) = {} THEN "running" ELSE log[Max(Results(c))].as]
  BY DEF ToolsOf
<1> HIDE DEF log
<1>5. called \in SUBSET Tools
  BY <1>2, <1>3 DEF Fits
<1>6. ASSUME NEW c \in called, Results(c) # {} PROVE log[Max(Results(c))].as \in Settled
  <2>1. Results(c) \subseteq 1 .. task[t].ready
    BY <1>2
  <2>2. Max(Results(c)) \in Results(c)
    <3> HIDE DEF Results
    <3> QED BY <1>2, <1>6, <2>1, MaxOf
  <2> QED BY <1>3, <2>1, <2>2 DEF Fits
<1>7. ToolsOf(t) \in [called -> ToolStatus]
  BY <1>4, <1>6 DEF ToolStatus
<1> QED BY <1>5, <1>7 DEF ToolMaps

\* What getSession answers of a session are messages of that session.
LEMMA StoredTyped ==
    ASSUME ServerTyped, NEW s \in Sessions
    PROVE  /\ Stored(s) \in Seq(Message)
           /\ \A i \in 1 .. Len(Stored(s)) : Stored(s)[i].of = s
<1> DEFINE Own == {m \in Message : m.of = s}
<1> DEFINE Of(t) == (IF task[t].ready > 0 THEN <<User(s)>> ELSE <<>>)
                    \o (IF Answered(t) THEN <<Turn(s, History, "completed", ToolsOf(t))>> ELSE <<>>)
<1> DEFINE parts == [n \in DOMAIN turns[s] |-> Of(turns[s][n])]
<1>1. ASSUME NEW t \in Tasks PROVE Of(t) \in Seq(Own)
  <2>1. User(s) \in Own
    BY NewMessages DEF User
  <2>2. Turn(s, History, "completed", ToolsOf(t)) \in Own
    <3>1. Turn(s, History, "completed", ToolsOf(t)).of = s
      BY DEF Turn
    <3> QED BY <3>1, ToolsOfTyped, NewMessages DEF ToolStatus, Settled
  <2> DEFINE question == IF task[t].ready > 0 THEN <<User(s)>> ELSE <<>>
  <2> DEFINE answer == IF Answered(t) THEN <<Turn(s, History, "completed", ToolsOf(t))>> ELSE <<>>
  <2> HIDE DEF Own
  <2>3. question \in Seq(Own) /\ answer \in Seq(Own)
    BY <2>1, <2>2
  <2>4. Of(t) = question \o answer
    OBVIOUS
  <2> HIDE DEF question, answer, Of
  <2> QED BY <2>3, <2>4
<1>2. turns[s] \in Seq(Tasks)
  BY DEF ServerTyped
<1>3. parts \in Seq(Seq(Own))
  <2> HIDE DEF Own, Of
  <2>1. \A n \in 1 .. Len(turns[s]) : turns[s][n] \in Tasks
    BY <1>2
  <2>2. parts = [n \in 1 .. Len(turns[s]) |-> Of(turns[s][n])] /\ Len(turns[s]) \in Nat
    BY <1>2
  <2> QED BY <1>1, <2>1, <2>2
<1>4. Stored(s) = FlattenSeq(parts)
  BY DEF Stored
<1> HIDE DEF parts
<1>5. Stored(s) \in Seq(Own)
  <2> HIDE DEF Own
  <2> QED BY <1>3, <1>4, FlattenTyped
<1>6. \A i \in 1 .. Len(Stored(s)) : Stored(s)[i] \in Own
  BY <1>5
<1>7. Stored(s) \in Seq(Message)
  BY <1>5
<1> QED BY <1>6, <1>7

-----------------------------------------------------------------------------
(* The steps.                                                              *)

\* The history among these messages is of session s.
HistoryOf(ms, s) == \A i \in 1 .. Len(ms) : ms[i].turn = History => ms[i].of = s

\* A selection that is still the newest is of the session on screen, and what any selection
\* was answered is of its own session.
HistInv ==
    /\ ui.current # None => HistoryOf(ui.messages, ui.current)
    /\ \A v \in Versions :
        /\ sel[v].pc \in Fetched => HistoryOf(sel[v].messages, sel[v].session)
        /\ sel[v].pc \in Loading /\ v = ui.version => ui.current \in {None, sel[v].session}
        /\ v > ui.version => sel[v].pc = "none"

\* The step of SettledTools.
SettledStep ==
    UNCHANGED sel =>
        \A i \in DOMAIN ui.messages \cap DOMAIN ui'.messages :
            \A c \in DOMAIN ui.messages[i].tools :
              ui.messages[i].tools[c] \in Settled =>
                /\ c \in DOMAIN ui'.messages[i].tools
                /\ ui'.messages[i].tools[c] \in Settled

\* Selections go on without a new answer, or end.
SelKeeps ==
    \A v \in Versions :
        /\ sel'[v].pc \in Fetched => /\ sel[v].pc \in Fetched
                                     /\ sel'[v].messages = sel[v].messages
        /\ sel'[v].pc \in Loading => sel[v].pc \in Loading /\ sel'[v].session = sel[v].session
        /\ sel[v].pc = "none" => sel'[v].pc = "none"

LEMMA Onward ==
    ASSUME Typed, HistInv, SelKeeps, Handled(ui, ui')
    PROVE  HistInv' /\ SettledStep
<1>1. ui.messages \in Seq(Message) /\ ui'.messages \in Seq(Message)
  BY DEF Typed, Store, Handled
<1>2. ASSUME NEW s, HistoryOf(ui.messages, s) PROVE HistoryOf(ui'.messages, s)
  <2>1. ASSUME NEW i \in 1 .. Len(ui'.messages), ui'.messages[i].turn = History
        PROVE  ui'.messages[i].of = s
    <3>1. i \in 1 .. Len(ui.messages)
      BY <1>1, <2>1 DEF Handled, Grows
    <3>2. Kept(ui.messages[i], ui'.messages[i])
      BY <3>1 DEF Handled, Grows
    <3> QED BY <1>2, <2>1, <3>1, <3>2 DEF Kept, HistoryOf
  <2> QED BY <2>1 DEF HistoryOf
<1>3. ui'.current = ui.current /\ ui'.version = ui.version
  BY DEF Handled
<1>4. (ui.current # None => HistoryOf(ui.messages, ui.current))'
  <2>1. CASE ui.current # None
    <3>1. HistoryOf(ui.messages, ui.current)
      BY <2>1 DEF HistInv
    <3>2. HistoryOf(ui'.messages, ui.current)
      BY <1>2, <3>1
    <3> QED BY <1>3, <3>2
  <2> QED BY <1>3, <2>1
<1>5. ASSUME NEW v \in Versions
      PROVE  /\ sel'[v].pc \in Fetched => HistoryOf(sel'[v].messages, sel'[v].session)
             /\ sel'[v].pc \in Loading /\ v = ui'.version => ui'.current \in {None, sel'[v].session}
             /\ v > ui'.version => sel'[v].pc = "none"
  <2>1. sel'[v].pc \in Fetched => sel'[v].pc \in Loading
    BY DEF Fetched, Loading
  <2> QED BY <1>3, <2>1 DEF HistInv, SelKeeps
<1>6. HistInv'
  BY <1>4, <1>5 DEF HistInv
<1>7. SettledStep
  <2>1. DOMAIN ui.messages = 1 .. Len(ui.messages)
    BY <1>1
  <2>2. \A i \in 1 .. Len(ui.messages) : Kept(ui.messages[i], ui'.messages[i])
    BY DEF Handled, Grows
  <2> QED BY <2>1, <2>2 DEF SettledStep, Kept
<1> QED BY <1>6, <1>7

\* Steps that do not touch the page, or change only its other fields.
LEMMA StandsStill ==
    ASSUME Typed, ui' \in Store, ui'.messages = ui.messages, ui'.current = ui.current,
           ui'.version = ui.version
    PROVE  Handled(ui, ui')
BY GrowsByItself DEF Typed, Store, Handled

LEMMA SameSel == UNCHANGED sel => SelKeeps
BY DEF SelKeeps, Fetched, Loading

LEMMA InitGood == Init => Typed /\ HistInv
<1> SUFFICES ASSUME Init PROVE Typed /\ HistInv
  OBVIOUS
<1>1. ui \in Store
  BY Constants, ViewAssumption DEF Init, Store, Ids, ViewAssumption
<1>2. ServerTyped
  BY DEF Init, ServerTyped, NewTask, Ids
<1>3. CallsTyped
  BY DEF Init, CallsTyped, NoCall, Loading, Ids
<1>4. StreamsTyped
  BY DEF Init, StreamsTyped, StreamOK, NoStream, Ids
<1>5. HistInv
  BY DEF Init, HistInv, NoCall, Fetched, Loading
<1> QED BY <1>1, <1>2, <1>3, <1>4, <1>5 DEF Typed

LEMMA StartTyped ==
    ASSUME ServerTyped, NEW t \in Tasks, NEW s \in Sessions, Start(t, s)
    PROVE  ServerTyped' /\ \A x \in Tasks : task[x].ready <= task'[x].ready
<1>1. PICK script \in Scripts[t] :
          task' = [task EXCEPT ![t] = [session |-> s, script |-> script, ready |-> 0]]
  BY DEF Start
<1>2. script \in Seq(Event) /\ s # None
  BY ViewAssumption, Constants
<1>3. turns' \in [Sessions -> Seq(Tasks)]
  BY DEF Start, ServerTyped
<1>4. task[t].ready = 0
  BY DEF Start, ServerTyped
<1>5. task' \in [Tasks -> [session : Ids(Sessions), script : Seq(Event), ready : Nat]]
  BY <1>1, <1>2 DEF ServerTyped, Ids
<1>6. ASSUME NEW x \in Tasks
      PROVE  /\ task'[x].ready <= Len(task'[x].script)
             /\ task'[x].script = <<>> \/ task'[x].script \in Scripts[x]
             /\ task'[x].session = None => task'[x].ready = 0 /\ task'[x].script = <<>>
             /\ task[x].ready <= task'[x].ready
  BY <1>1, <1>2, <1>4 DEF ServerTyped
<1> QED BY <1>3, <1>5, <1>6 DEF ServerTyped

LEMMA WriteTyped ==
    ASSUME ServerTyped, NEW t \in Tasks, Write(t)
    PROVE  ServerTyped' /\ \A x \in Tasks : task[x].ready <= task'[x].ready
<1>1. /\ task' = [task EXCEPT ![t].ready = @ + 1] /\ task[t].ready \in Nat
      /\ Len(task[t].script) \in Nat /\ task[t].ready < Len(task[t].script)
  BY ScriptFits DEF Write
<1>2. task' \in [Tasks -> [session : Ids(Sessions), script : Seq(Event), ready : Nat]]
  BY <1>1 DEF ServerTyped
<1>3. task[t].session # None
  BY DEF ServerTyped, Write, Active
<1>4. ASSUME NEW x \in Tasks
      PROVE  /\ task'[x].ready <= Len(task'[x].script)
             /\ task'[x].script = <<>> \/ task'[x].script \in Scripts[x]
             /\ task'[x].session = None => task'[x].ready = 0 /\ task'[x].script = <<>>
             /\ task[x].ready <= task'[x].ready
  <2>1. CASE x = t
    BY <1>1, <1>3, <2>1 DEF ServerTyped
  <2>2. CASE x # t
    BY <1>1, <2>2 DEF ServerTyped
  <2> QED BY <2>1, <2>2
<1> QED BY <1>2, <1>4 DEF ServerTyped, Write

\* Streams that are left alone stay behind their tasks.
LEMMA StreamsLast ==
    ASSUME StreamsTyped, ServerTyped, ServerTyped',
           \A t \in Tasks : task[t].ready <= task'[t].ready, UNCHANGED stream
    PROVE  StreamsTyped'
<1>1. ASSUME NEW o \in Openers PROVE StreamOK(o)'
  <2>1. StreamOK(o) /\ stream[o].at \in Nat
    BY DEF StreamsTyped
  <2> QED BY <2>1 DEF StreamOK, ServerTyped
<1> QED BY <1>1 DEF StreamsTyped

\* The server.
LEMMA ServerSteps ==
    ASSUME Typed, HistInv,
           (\E t \in Elsewhere : StartElsewhere(t)) \/ (\E t \in Tasks : Write(t))
    PROVE  Typed' /\ HistInv' /\ SettledStep
<1>1. UNCHANGED <<ui, stream, calls>>
  BY DEF StartElsewhere, Write
<1>2. Handled(ui, ui') /\ SelKeeps
  BY <1>1, StandsStill, SameSel DEF calls, Typed
<1>3. ServerTyped' /\ \A t \in Tasks : task[t].ready <= task'[t].ready
  <2>1. CASE \E t \in Elsewhere : StartElsewhere(t)
    <3>1. PICK t \in Elsewhere : StartElsewhere(t)
      BY <2>1
    <3>2. t \in Tasks /\ Home[t] \in Sessions
      BY Constants, ViewAssumption
    <3> QED BY <3>1, <3>2, StartTyped DEF StartElsewhere, Typed
  <2>2. CASE \E t \in Tasks : Write(t)
    BY <2>2, WriteTyped DEF Typed
  <2> QED BY <2>1, <2>2
<1>4. CallsTyped' /\ StreamsTyped' /\ ui' \in Store
  BY <1>1, <1>3, StreamsLast DEF Typed, CallsTyped, calls
<1> QED BY <1>2, <1>3, <1>4, Onward DEF Typed

\* Streams that are opened or closed.
LEMMA StreamsChange ==
    ASSUME StreamsTyped, ServerTyped, UNCHANGED task
    PROVE  /\ UNCHANGED stream => StreamsTyped'
           /\ \A src \in Ids(Openers) : stream' = Closed(stream, src) => StreamsTyped'
           /\ \A o \in Openers, t \in Tasks, s \in Sessions :
                 stream' = [stream EXCEPT ![o] = Opened(t, s)] => StreamsTyped'
           /\ \A o \in Openers, src \in Ids(Openers) :
                 stream' \in {[stream EXCEPT ![o] = NoStream], Closed([stream EXCEPT ![o] = NoStream], src)}
                    => StreamsTyped'
<1> DEFINE Shape == [live : BOOLEAN, task : Ids(Tasks), session : Ids(Sessions), at : Nat]
<1>1. NoStream \in Shape /\ \A t \in Tasks, s \in Sessions : Opened(t, s) \in Shape
  BY DEF NoStream, Opened, Ids
<1>2. stream \in [Openers -> Shape] /\ \A o \in Openers : StreamOK(o)
  BY DEF StreamsTyped
<1>3. ASSUME stream' \in [Openers -> Shape],
             \A x \in Openers : \/ stream'[x] \in {stream[x], NoStream}
                               \/ \E t \in Tasks, s \in Sessions : stream'[x] = Opened(t, s)
                                                                  /\ task[t].ready >= 0
      PROVE  StreamsTyped'
  <2>1. ASSUME NEW x \in Openers PROVE StreamOK(x)'
    <3>1. CASE stream'[x] = stream[x]
      BY <1>2, <3>1 DEF StreamOK
    <3>2. CASE stream'[x] = NoStream
      BY <3>2 DEF StreamOK, NoStream
    <3>3. CASE \E t \in Tasks, s \in Sessions : stream'[x] = Opened(t, s) /\ task[t].ready >= 0
      BY <3>3 DEF StreamOK, Opened
    <3> QED BY <1>3, <3>1, <3>2, <3>3
  <2> QED BY <1>3, <2>1 DEF StreamsTyped
<1> HIDE DEF Shape
<1>4. UNCHANGED stream => StreamsTyped'
  BY <1>2, <1>3
<1>5. ASSUME NEW o \in Openers, stream' = [stream EXCEPT ![o] = NoStream] PROVE StreamsTyped'
  BY <1>1, <1>2, <1>3, <1>5
<1>6. ASSUME NEW o \in Openers, NEW src \in Openers,
             stream' = [[stream EXCEPT ![o] = NoStream] EXCEPT ![src] = NoStream]
      PROVE  StreamsTyped'
  BY <1>1, <1>2, <1>3, <1>6
<1>7. ASSUME NEW o \in Openers, NEW t \in Tasks, NEW s \in Sessions,
             stream' = [stream EXCEPT ![o] = Opened(t, s)], task[t].ready >= 0
      PROVE  StreamsTyped'
  <2>1. stream' \in [Openers -> Shape]
    BY <1>1, <1>2, <1>7
  <2>2. \A x \in Openers : stream'[x] = IF x = o THEN Opened(t, s) ELSE stream[x]
    BY <1>2, <1>7
  <2> QED BY <1>3, <1>7, <2>1, <2>2
<1>8. \A t \in Tasks : task[t].ready >= 0
  BY DEF ServerTyped
<1> QED BY <1>4, <1>5, <1>6, <1>7, <1>8 DEF Closed, Ids

\* selectSession up to its first await.
LEMMA SelectGood ==
    ASSUME Typed, HistInv, NEW s \in Sessions, Select(s)
    PROVE  Typed' /\ HistInv' /\ SettledStep
<1> DEFINE v == ui.version + 1
<1>1. v \in Versions /\ v \in 0 .. Selects /\ ui.version \in 0 .. Selects
  BY ViewAssumption DEF Select, Versions, Typed, Store
<1>2. /\ ui' \in Store /\ ui'.version = v /\ ui'.current = s /\ ui'.messages = <<>>
  <2>1. ui' = [current |-> s, version |-> v, messages |-> <<>>, runs |-> None, turn |-> None,
              buffered |-> NoTools, source |-> None, plan |-> None, preview |-> None]
    BY DEF Select, Disconnect, Typed, Store
  <2>2. <<>> \in Seq(Message)
    OBVIOUS
  <2> QED BY <1>1, <2>1, <2>2, Constants DEF Store, Ids
<1>3. UNCHANGED server /\ ServerTyped'
  BY DEF Select, server, Typed, ServerTyped
<1>4. StreamsTyped'
  BY <1>3, StreamsChange DEF Select, Typed, Store, server
<1>5. /\ sel'[v].pc = "detail" /\ sel'[v].session = s /\ sel[v].pc = "none"
      /\ \A x \in Versions \ {v} : sel'[x] = sel[x]
  BY <1>1 DEF Select, Typed, CallsTyped, HistInv, Versions
<1>6. CallsTyped'
  <2>1. sel' = [sel EXCEPT ![v].pc = "detail", ![v].session = s] /\ UNCHANGED <<send, stopping, loads>>
    BY DEF Select
  <2>2. sel' \in [Versions -> [pc : Loading \cup {"none", "done"}, session : Ids(Sessions),
                              messages : Seq(Message), seen : Ids(Tasks)]]
    <3>1. sel' = [sel EXCEPT ![v] = [sel[v] EXCEPT !.pc = "detail", !.session = s]]
      BY <1>1, <2>1 DEF Typed, CallsTyped
    <3>2. [sel[v] EXCEPT !.pc = "detail", !.session = s] \in
             [pc : Loading \cup {"none", "done"}, session : Ids(Sessions),
              messages : Seq(Message), seen : Ids(Tasks)]
      BY <1>1 DEF Typed, CallsTyped, Loading, Ids
    <3> HIDE DEF v
    <3> QED BY <1>1, <3>1, <3>2 DEF Typed, CallsTyped
  <2> QED BY <1>5, <2>1, <2>2 DEF Typed, CallsTyped
<1>7. HistInv'
  <2>1. ASSUME NEW x \in Versions
        PROVE  /\ sel'[x].pc \in Fetched => HistoryOf(sel'[x].messages, sel'[x].session)
               /\ sel'[x].pc \in Loading /\ x = ui'.version => ui'.current \in {None, sel'[x].session}
               /\ x > ui'.version => sel'[x].pc = "none"
    <3>1. CASE x = v
      BY <1>1, <1>2, <1>5, <3>1 DEF Fetched
    <3>2. CASE x # v
      <4>1. x > v => x > ui.version
        BY <1>1, <3>2 DEF Versions
      <4> QED BY <1>1, <1>2, <1>5, <3>2, <4>1 DEF HistInv
    <3> QED BY <3>1, <3>2
  <2> QED BY <1>2, <2>1 DEF HistInv, HistoryOf
<1>8. SettledStep
  BY <1>5 DEF SettledStep
<1> QED BY <1>2, <1>3, <1>4, <1>6, <1>7, <1>8 DEF Typed

\* One selection goes on: to another continuation or to its end.
LEMMA SelMoves ==
    ASSUME Typed, HistInv, NEW v \in Versions, NEW row, sel' = [sel EXCEPT ![v] = row],
           UNCHANGED <<server, send, stopping, loads>>, sel[v].pc \in Loading,
           \/ row = Ended
           \/ /\ row \in [pc : Loading, session : {sel[v].session}, messages : Seq(Message),
                          seen : Ids(Tasks)]
              /\ row.pc \in Fetched => HistoryOf(row.messages, sel[v].session)
    PROVE  /\ ServerTyped' /\ CallsTyped'
           /\ \A x \in Versions :
                /\ sel'[x].pc \in Fetched => HistoryOf(sel'[x].messages, sel'[x].session)
                /\ sel'[x].pc \in Loading => sel[x].pc \in Loading /\ sel'[x].session = sel[x].session
                /\ sel[x].pc = "none" => sel'[x].pc = "none"
<1>1. Ended \in [pc : {"done"}, session : {None}, messages : {<<>>}, seen : {None}]
  BY DEF Ended, NoCall
<1>2. sel[v].session \in Sessions
  BY DEF Typed, CallsTyped
<1>3. row \in [pc : Loading \cup {"none", "done"}, session : Ids(Sessions),
               messages : Seq(Message), seen : Ids(Tasks)]
  <2>1. CASE row = Ended
    <3>1. row = [pc |-> "done", session |-> None, messages |-> <<>>, seen |-> None]
      BY <2>1 DEF Ended, NoCall
    <3>2. <<>> \in Seq(Message)
      OBVIOUS
    <3> QED BY <3>1, <3>2 DEF Ids
  <2>2. CASE row \in [pc : Loading, session : {sel[v].session}, messages : Seq(Message),
                      seen : Ids(Tasks)]
    BY <1>2, <2>2 DEF Ids
  <2> QED BY <2>1, <2>2
<1>4. sel' \in [Versions -> [pc : Loading \cup {"none", "done"}, session : Ids(Sessions),
                            messages : Seq(Message), seen : Ids(Tasks)]]
  BY <1>3 DEF Typed, CallsTyped
<1>5. \A x \in Versions : sel'[x] = IF x = v THEN row ELSE sel[x]
  BY DEF Typed, CallsTyped
<1>6. CallsTyped'
  BY <1>1, <1>2, <1>4, <1>5 DEF Typed, CallsTyped, Loading
<1>7. ServerTyped'
  BY DEF Typed, ServerTyped, server
<1>8. row.pc \in Loading => row.session = sel[v].session
  BY <1>1 DEF Loading
<1>9. row.pc \in Fetched => HistoryOf(row.messages, sel[v].session) /\ row.session = sel[v].session
  BY <1>1, <1>8 DEF Fetched, Loading
<1>10. sel[v].pc # "none"
  BY DEF Loading
<1> QED BY <1>5, <1>6, <1>7, <1>8, <1>9, <1>10 DEF HistInv

\* Steps of a selection that leave the messages on screen.
LEMMA SelQuiet ==
    ASSUME Typed, HistInv, NEW v \in Versions, NEW row, sel' = [sel EXCEPT ![v] = row],
           UNCHANGED <<server, stream, send, stopping, loads>>, sel[v].pc \in Loading,
           \/ row = Ended
           \/ /\ row \in [pc : Loading, session : {sel[v].session}, messages : Seq(Message),
                          seen : Ids(Tasks)]
              /\ row.pc \in Fetched => HistoryOf(row.messages, sel[v].session),
           ui' \in Store, ui'.messages = ui.messages, ui'.current = ui.current,
           ui'.version = ui.version
    PROVE  Typed' /\ HistInv' /\ SettledStep
<1>1. /\ ServerTyped' /\ CallsTyped'
      /\ \A x \in Versions :
           /\ sel'[x].pc \in Fetched => HistoryOf(sel'[x].messages, sel'[x].session)
           /\ sel'[x].pc \in Loading => sel[x].pc \in Loading /\ sel'[x].session = sel[x].session
           /\ sel[x].pc = "none" => sel'[x].pc = "none"
  BY SelMoves
<1>2. StreamsTyped'
  BY StreamsChange DEF Typed, server
<1>3. HistInv'
  BY <1>1 DEF HistInv
<1>4. SettledStep
  BY DEF SettledStep, Typed, Store
<1> QED BY <1>1, <1>2, <1>3, <1>4 DEF Typed

\* A selection that is still the newest shows what it was answered.
LEMMA SelShows ==
    ASSUME Typed, HistInv, NEW v \in Versions, NEW row, sel' = [sel EXCEPT ![v] = row],
           UNCHANGED <<server, send, stopping, loads>>, sel[v].pc \in Loading, row # sel[v],
           \/ row = Ended
           \/ /\ row \in [pc : Loading, session : {sel[v].session}, messages : Seq(Message),
                          seen : Ids(Tasks)]
              /\ row.pc \in Fetched => HistoryOf(row.messages, sel[v].session),
           StreamsTyped', ui.version = v,
           ui' \in Store, HistoryOf(ui'.messages, sel[v].session), ui'.current = ui.current,
           ui'.version = ui.version
    PROVE  Typed' /\ HistInv' /\ SettledStep
<1>1. /\ ServerTyped' /\ CallsTyped'
      /\ \A x \in Versions :
           /\ sel'[x].pc \in Fetched => HistoryOf(sel'[x].messages, sel'[x].session)
           /\ sel'[x].pc \in Loading => sel[x].pc \in Loading /\ sel'[x].session = sel[x].session
           /\ sel[x].pc = "none" => sel'[x].pc = "none"
  BY SelMoves
<1>2. ui.current \in {None, sel[v].session}
  BY DEF HistInv
<1>3. HistInv'
  BY <1>1, <1>2 DEF HistInv
<1>4. sel'[v] = row
  BY DEF Typed, CallsTyped
<1>5. SettledStep
  BY <1>4 DEF SettledStep
<1> QED BY <1>1, <1>3, <1>5 DEF Typed

LEMMA SelRow ==
    ASSUME Typed, NEW v \in Versions, sel[v].pc \in Loading
    PROVE  /\ sel[v].session \in Sessions /\ sel[v].messages \in Seq(Message)
           /\ sel[v].seen \in Ids(Tasks)
BY DEF Typed, CallsTyped

LEMMA SelectDetailGood ==
    ASSUME Typed, HistInv, NEW v \in Versions, SelectDetail(v)
    PROVE  Typed' /\ HistInv' /\ SettledStep
<1> DEFINE ms == Stored(sel[v].session)
<1>1. sel[v].pc = "detail" /\ UNCHANGED <<server, stream, send, stopping, loads>>
  BY DEF SelectDetail
<1>2. sel[v].pc \in Loading
  BY <1>1 DEF Loading
<1>3. sel[v].session \in Sessions
  BY <1>2, SelRow
<1>4. ms \in Seq(Message) /\ HistoryOf(ms, sel[v].session)
  BY <1>3, StoredTyped DEF Typed, HistoryOf
<1>5. CASE ui.version = v
  <2> DEFINE row == [sel[v] EXCEPT !.pc = "plan", !.messages = ms]
  <2>1. /\ ui' = [ui EXCEPT !.messages = ms]
        /\ sel' = [sel EXCEPT ![v].pc = "plan", ![v].messages = ms]
    BY <1>5 DEF SelectDetail
  <2> HIDE DEF ms
  <2>2. sel' = [sel EXCEPT ![v] = row]
    BY <2>1 DEF Typed, CallsTyped
  <2>3. row \in [pc : Loading, session : {sel[v].session}, messages : Seq(Message), seen : Ids(Tasks)]
    BY <1>2, <1>4 DEF Typed, CallsTyped, Loading
  <2>4. row.messages = ms /\ row.pc = "plan"
    BY DEF Typed, CallsTyped
  <2>5. /\ ui' \in Store /\ ui'.messages = ms /\ ui'.current = ui.current
        /\ ui'.version = ui.version
    BY <1>4, <2>1 DEF Typed, Store
  <2>6. StreamsTyped'
    BY <1>1, StreamsChange DEF Typed, server
  <2>7. row # sel[v]
    BY <1>1, <2>4
  <2> HIDE DEF row
  <2> QED BY <1>1, <1>2, <1>4, <1>5, <2>2, <2>3, <2>4, <2>5, <2>6, <2>7, SelShows
<1>6. CASE ui.version # v
  <2>1. sel' = [sel EXCEPT ![v] = Ended] /\ UNCHANGED ui
    BY <1>6 DEF SelectDetail
  <2> QED BY <1>1, <1>2, <2>1, SelQuiet DEF Typed
<1> QED BY <1>5, <1>6

LEMMA SelectPlanGood ==
    ASSUME Typed, HistInv, NEW v \in Versions, SelectPlan(v) \/ SelectPreview(v) \/ SelectFails(v)
    PROVE  Typed' /\ HistInv' /\ SettledStep
<1>1. sel[v].pc \in Loading /\ UNCHANGED <<server, stream, send, stopping, loads>>
  BY DEF SelectPlan, SelectPreview, SelectFails, Loading
<1>2. sel[v].session \in Sessions
  BY <1>1, SelRow
<1>3. /\ ui' \in Store /\ ui'.messages = ui.messages /\ ui'.current = ui.current
      /\ ui'.version = ui.version
  <2>1. CASE UNCHANGED ui
    BY <2>1 DEF Typed
  <2>2. CASE \E x \in Ids(Sessions) : ui' = [ui EXCEPT !.plan = x] \/ ui' = [ui EXCEPT !.preview = x]
    BY <2>2 DEF Typed, Store
  <2>3. \A p \in Previews(sel[v].session) : p \in Ids(Sessions)
    BY <1>2 DEF Previews, Typed, Store, Ids
  <2> QED BY <1>2, <2>1, <2>2, <2>3 DEF SelectPlan, PlanLoaded, SelectPreview, SelectFails, Ids
<1>4. CASE SelectPlan(v)
  <2> DEFINE row == [sel[v] EXCEPT !.pc = "preview"]
  <2>1. sel' = [sel EXCEPT ![v] = row] /\ sel[v].pc = "plan"
    BY <1>4 DEF SelectPlan, Typed, CallsTyped
  <2>2. row \in [pc : Loading, session : {sel[v].session}, messages : Seq(Message), seen : Ids(Tasks)]
    BY <1>1 DEF Typed, CallsTyped, Loading
  <2>3. HistoryOf(row.messages, sel[v].session)
    BY <2>1 DEF HistInv, Fetched, Typed, CallsTyped
  <2> HIDE DEF row
  <2> QED BY <1>1, <1>3, <2>1, <2>2, <2>3, SelQuiet
<1>5. CASE SelectPreview(v)
  <2>1. PICK a \in Ids(Tasks) : sel' = [sel EXCEPT ![v].pc = "task", ![v].seen = a]
    BY <1>5 DEF SelectPreview, ActiveNow, Active, Ids
  <2> DEFINE row == [sel[v] EXCEPT !.pc = "task", !.seen = a]
  <2>2. sel' = [sel EXCEPT ![v] = row] /\ sel[v].pc = "preview"
    BY <1>5, <2>1 DEF SelectPreview, Typed, CallsTyped
  <2>3. row \in [pc : Loading, session : {sel[v].session}, messages : Seq(Message), seen : Ids(Tasks)]
    BY <1>1 DEF Typed, CallsTyped, Loading
  <2>4. HistoryOf(row.messages, sel[v].session)
    BY <2>2 DEF HistInv, Fetched, Typed, CallsTyped
  <2> HIDE DEF row
  <2> QED BY <1>1, <1>3, <2>2, <2>3, <2>4, SelQuiet
<1>6. CASE SelectFails(v)
  BY <1>1, <1>3, <1>6, SelQuiet DEF SelectFails
<1> QED BY <1>4, <1>5, <1>6

\* A resumed task takes an answer of the history for its own.
LEMMA ResumedTyped ==
    ASSUME NEW ms \in Seq(Message), NEW s \in Sessions, NEW t \in Tasks, HistoryOf(ms, s)
    PROVE  Resumed(ms, s, t) \in Seq(Message) /\ HistoryOf(Resumed(ms, s, t), s)
<1> DEFINE as == Assistants(ms)
<1>1. CASE as = {}
  <2> DEFINE m == Turn(s, t, "running", NoTools)
  <2>1. m \in Message /\ m.turn # History
    BY NewMessages, Constants DEF ToolStatus, Turn
  <2>2. Resumed(ms, s, t) = Append(ms, m)
    BY <1>1 DEF Resumed
  <2> HIDE DEF m
  <2> QED BY <2>1, <2>2 DEF HistoryOf
<1>2. CASE as # {}
  <2>1. as \subseteq 1 .. Len(ms) /\ Len(ms) \in Nat
    BY DEF Assistants
  <2>2. PICK i \in 1 .. Len(ms) : i = Max(as)
    BY <1>2, <2>1, MaxOf
  <2> DEFINE n == [ms[i] EXCEPT !.turn = t, !.status = "running"]
  <2>3. Resumed(ms, s, t) = [ms EXCEPT ![i].turn = t, ![i].status = "running"]
    BY <1>2, <2>2 DEF Resumed
  <2>4. Resumed(ms, s, t) = [ms EXCEPT ![i] = n]
    BY <2>3
  <2>5. n \in Message /\ n.turn = t /\ t # History
    <3>1. ms[i] \in Message
      OBVIOUS
    <3> QED BY <3>1, Constants DEF Message, ToolStatus
  <2> HIDE DEF n
  <2> QED BY <2>4, <2>5 DEF HistoryOf
<1> QED BY <1>1, <1>2

LEMMA SelectTaskGood ==
    ASSUME Typed, HistInv, NEW v \in Versions, SelectTask(v)
    PROVE  Typed' /\ HistInv' /\ SettledStep
<1> DEFINE s == sel[v].session
<1> DEFINE ms == sel[v].messages
<1>1. /\ sel[v].pc = "task" /\ sel' = [sel EXCEPT ![v] = Ended]
      /\ UNCHANGED <<server, send, stopping, loads>>
  BY DEF SelectTask
<1>2. sel[v].pc \in Loading /\ sel[v].pc \in Fetched /\ Ended # sel[v]
  BY <1>1 DEF Loading, Fetched, Ended, NoCall
<1>3. s \in Sessions /\ ms \in Seq(Message) /\ sel[v].seen \in Ids(Tasks)
  BY <1>2, SelRow
<1>4. HistoryOf(ms, s)
  BY <1>2 DEF HistInv
<1>5. CASE ui.version # v
  <2>1. UNCHANGED <<ui, stream>>
    BY <1>5 DEF SelectTask
  <2> QED BY <1>1, <1>2, <2>1, SelQuiet DEF Typed
<1>6. CASE ui.version = v
  <2>1. PICK a \in {sel[v].seen} \cup ActiveNow(s) :
            IF a = None
            THEN /\ ui' = [ui EXCEPT !.messages = Finalize(ms, None, "failed")]
                 /\ UNCHANGED <<stream>>
            ELSE /\ ui' = [ui EXCEPT !.messages = Resumed(ms, s, a), !.runs = s,
                                     !.turn = a, !.source = <<"select", v>>]
                 /\ stream' = [stream EXCEPT ![<<"select", v>>] = Opened(a, s)]
    BY <1>6 DEF SelectTask
  <2>2. a \in Ids(Tasks)
    BY <1>3 DEF ActiveNow, Active, Ids
  <2>3. PICK ns : IF a = None THEN ns = Finalize(ms, None, "failed") ELSE ns = Resumed(ms, s, a)
    OBVIOUS
  <2>4. ns \in Seq(Message) /\ HistoryOf(ns, s)
    <3>1. CASE a = None
      <4>1. ns \in Seq(Message) /\ Grows(ms, ns)
        BY <1>3, <2>3, <3>1, FinalizeKeeps DEF Settled
      <4>2. ASSUME NEW i \in 1 .. Len(ns), ns[i].turn = History PROVE ns[i].of = s
        <5>1. i \in 1 .. Len(ms) /\ Kept(ms[i], ns[i])
          BY <1>3, <4>1, <4>2 DEF Grows
        <5> QED BY <1>4, <4>2, <5>1 DEF Kept, HistoryOf
      <4> QED BY <4>1, <4>2 DEF HistoryOf
    <3>2. CASE a # None
      BY <1>3, <1>4, <2>2, <2>3, <3>2, ResumedTyped DEF Ids
    <3> QED BY <3>1, <3>2
  <2>5. /\ ui' \in Store /\ ui'.messages = ns /\ ui'.current = ui.current
        /\ ui'.version = ui.version
    <3>1. CASE a = None
      <4>1. ui' = [ui EXCEPT !.messages = ns]
        BY <2>1, <2>3, <3>1
      <4> QED BY <2>4, <4>1 DEF Typed, Store
    <3>2. CASE a # None
      <4>1. ui' = [ui EXCEPT !.messages = ns, !.runs = s, !.turn = a, !.source = <<"select", v>>]
        BY <2>1, <2>3, <3>2
      <4>2. <<"select", v>> \in Ids(Openers) /\ s \in Ids(Sessions)
        BY <1>3, Constants DEF Ids
      <4> HIDE DEF s
      <4> QED BY <2>2, <2>4, <4>1, <4>2 DEF Typed, Store
    <3> QED BY <3>1, <3>2
  <2>6. StreamsTyped'
    BY <1>1, <1>3, <2>1, <2>2, StreamsChange, Constants DEF Typed, server, Ids
  <2> QED BY <1>1, <1>2, <1>6, <2>4, <2>5, <2>6, SelShows
<1> QED BY <1>5, <1>6

LEMMA TwoMore ==
    ASSUME NEW S, NEW ms \in Seq(S), NEW more \in Seq(S), Len(more) = 2
    PROVE  /\ ms \o more \in Seq(S) /\ Len(ms \o more) = Len(ms) + 2 /\ Len(ms) \in Nat
           /\ \A i \in 1 .. Len(ms) : (ms \o more)[i] = ms[i]
           /\ \A i \in 1 .. Len(ms) + 2 : i > Len(ms) => (ms \o more)[i] = more[i - Len(ms)]
<1>1. /\ ms \o more \in Seq(S) /\ Len(ms \o more) = Len(ms) + Len(more)
      /\ \A i \in 1 .. Len(ms) + Len(more) :
            (ms \o more)[i] = IF i <= Len(ms) THEN ms[i] ELSE more[i - Len(ms)]
  BY ConcatProperties, Zenon
<1>2. Len(ms) \in Nat
  OBVIOUS
<1> QED BY <1>1, <1>2

\* sendMessage.
LEMMA SendGood ==
    ASSUME Typed, HistInv, NEW k \in Sends, Send(k) \/ SendStep(k) \/ SendFails(k)
    PROVE  Typed' /\ HistInv' /\ SettledStep
<1>1. UNCHANGED <<sel, stopping, loads>> /\ k \in Tasks
  BY Constants DEF Send, SendStep, SendUploaded, SendAccepted, SendSubmitted, SendFails
<1>2. send[k].pc \in {"upload", "submit", "accepted"} => send[k].session \in Sessions
  BY DEF Typed, CallsTyped
<1>3. CallsTyped'
  <2> DEFINE Shape == [pc : {"none", "upload", "submit", "accepted", "done"}, session : Ids(Sessions)]
  <2>1. send \in [Sends -> Shape]
    BY DEF Typed, CallsTyped
  <2>2. PICK row \in Shape : /\ send' = [send EXCEPT ![k] = row]
                             /\ row.pc \in {"upload", "submit", "accepted"} => row.session \in Sessions
    <3>1. CASE \E s \in Sessions : \E pc \in {"upload", "submit"} :
                  send' = [send EXCEPT ![k] = [pc |-> pc, session |-> s]]
      <4>1. PICK s \in Sessions, pc \in {"upload", "submit"} :
                send' = [send EXCEPT ![k] = [pc |-> pc, session |-> s]]
        BY <3>1
      <4>2. [pc |-> pc, session |-> s] \in Shape
        BY DEF Ids
      <4> HIDE DEF Shape
      <4> QED BY <4>1, <4>2
    <3>2. CASE send' = [send EXCEPT ![k].pc = "accepted"] /\ send[k].pc = "submit"
      <4>1. send' = [send EXCEPT ![k] = [send[k] EXCEPT !.pc = "accepted"]]
        BY <3>2
      <4> QED BY <1>2, <2>1, <3>2, <4>1
    <3>3. CASE send' = [send EXCEPT ![k].pc = "done"]
      <4>1. send' = [send EXCEPT ![k] = [send[k] EXCEPT !.pc = "done"]]
        BY <3>3
      <4>2. [send[k] EXCEPT !.pc = "done"] \in Shape /\ [send[k] EXCEPT !.pc = "done"].pc = "done"
        BY <2>1
      <4> HIDE DEF Shape
      <4> QED BY <4>1, <4>2
    <3>4. ui.current # None => ui.current \in Sessions
      BY DEF Typed, Store, Ids
    <3> HIDE DEF Shape
    <3> QED BY <1>2, <3>1, <3>2, <3>3, <3>4
         DEF Send, SendStep, SendUploaded, SendAccepted, SendSubmitted, SendFails, Submit
  <2> HIDE DEF Shape
  <2>3. send' \in [Sends -> Shape] /\ \A x \in Sends : send'[x] = IF x = k THEN row ELSE send[x]
    BY <2>1, <2>2
  <2> QED BY <1>1, <2>2, <2>3 DEF Typed, CallsTyped, Shape
<1>4. ServerTyped' /\ StreamsTyped'
  <2>1. CASE UNCHANGED <<server, stream>>
    BY <2>1, StreamsChange DEF Typed, server, ServerTyped
  <2>2. CASE SendAccepted(k)
    <3>1. ServerTyped' /\ \A x \in Tasks : task[x].ready <= task'[x].ready
      BY <1>1, <1>2, <2>2, StartTyped DEF SendAccepted, Typed
    <3> QED BY <2>2, <3>1, StreamsLast DEF SendAccepted, Typed
  <2>3. CASE SendSubmitted(k)
    <3>1. /\ <<"send", k>> \in Openers /\ send[k].session \in Sessions
          /\ stream' = [stream EXCEPT ![<<"send", k>>] = Opened(k, send[k].session)]
          /\ UNCHANGED server
      BY <1>2, <2>3, Constants DEF SendSubmitted
    <3> QED BY <1>1, <3>1, StreamsChange DEF Typed, server, ServerTyped
  <2> QED BY <2>1, <2>2, <2>3 DEF Send, SendStep, SendUploaded, SendFails
<1>5. Handled(ui, ui')
  <2>1. CASE SendSubmitted(k)
    <3> DEFINE s == send[k].session
    <3> DEFINE more == <<User(s), Turn(s, k, "running", NoTools)>>
    <3>1. /\ s \in Sessions
          /\ ui' = [ui EXCEPT !.messages = @ \o more, !.turn = k, !.buffered = NoTools, !.plan = None,
                              !.source = <<"send", k>>]
      BY <1>2, <2>1 DEF SendSubmitted
    <3>2. User(s) \in Message /\ User(s).turn = None
      BY <3>1, NewMessages
    <3>3. Turn(s, k, "running", NoTools) \in Message /\ Turn(s, k, "running", NoTools).turn = k
      BY <1>1, <3>1, NewMessages, Constants DEF ToolStatus, Turn
    <3>4. more \in Seq(Message) /\ Len(more) = 2 /\ \A i \in 1 .. 2 : more[i].turn # History
      BY <1>1, <3>2, <3>3, Constants
    <3> HIDE DEF more, s
    <3>5. ui.messages \in Seq(Message)
      BY DEF Typed, Store
    <3>6. /\ ui.messages \o more \in Seq(Message) /\ Grows(ui.messages, ui.messages \o more)
      <4> DEFINE ms == ui.messages
      <4>1. ms \in Seq(Message)
        BY <3>5
      <4> HIDE DEF ms
      <4>2. /\ ms \o more \in Seq(Message) /\ Len(ms \o more) = Len(ms) + 2 /\ Len(ms) \in Nat
            /\ \A i \in 1 .. Len(ms) : (ms \o more)[i] = ms[i]
            /\ \A i \in 1 .. Len(ms) + 2 : i > Len(ms) => (ms \o more)[i] = more[i - Len(ms)]
        BY <3>4, <4>1, TwoMore
      <4>3. \A i \in 1 .. Len(ms) : Kept(ms[i], (ms \o more)[i])
        BY <4>2, KeptByItself
      <4>4. ASSUME NEW i \in 1 .. Len(ms) + 2, i > Len(ms) PROVE (ms \o more)[i].turn # History
        <5>1. i - Len(ms) \in 1 .. 2
          BY <4>2, <4>4
        <5> QED BY <3>4, <4>2, <4>4, <5>1
      <4>5. Grows(ms, ms \o more)
        BY <4>2, <4>3, <4>4 DEF Grows
      <4> QED BY <4>2, <4>5 DEF ms
    <3>7. <<"send", k>> \in Openers /\ NoTools \in Buffers
      BY Constants
    <3>8. PICK ns \in Seq(Message) : ns = ui.messages \o more /\ Grows(ui.messages, ns)
      BY <3>6
    <3>9. ui' = [ui EXCEPT !.messages = ns, !.turn = k, !.buffered = NoTools, !.plan = None,
                           !.source = <<"send", k>>]
      BY <3>1, <3>8
    <3> QED BY <1>1, <3>7, <3>8, <3>9 DEF Handled, Typed, Store, Ids
  <2>2. CASE ~SendSubmitted(k)
    <3>1. UNCHANGED ui \/ \E x \in Ids(Sessions) : ui' = [ui EXCEPT !.runs = x]
      <4>1. ui.current # None => ui.current \in Ids(Sessions)
        BY DEF Typed, Store
      <4>2. ui' = [ui EXCEPT !.runs = @] => UNCHANGED ui
        BY DEF Typed, Store
      <4> QED BY <1>2, <2>2, <4>1, <4>2
           DEF Send, SendStep, SendUploaded, SendAccepted, SendFails, Submit, Ids
    <3> QED BY <3>1, StandsStill DEF Typed, Store
  <2> QED BY <2>1, <2>2
<1> QED BY <1>1, <1>3, <1>4, <1>5, SameSel, Onward DEF Typed, Handled

\* Streams.
LEMMA HandledOn ==
    ASSUME NEW u \in Store, NEW w, NEW x, Handled(u, w), Handled(w, x)
    PROVE  Handled(u, x)
BY GrowsOn DEF Handled, Store

LEMMA FinishGood ==
    ASSUME Typed, HistInv, NEW o \in Openers, NEW e, Fits(e), NEW u, Handled(ui, u),
           stream[o].session \in Sessions, Finish(o, u, e), UNCHANGED task
    PROVE  StreamsTyped' /\ Handled(ui, ui')
<1> DEFINE w == Done(o, u, e)
<1> DEFINE over == [stream EXCEPT ![o] = NoStream]
<1>1. Handled(ui, w)
  <2>1. u \in Store /\ ui \in Store
    BY DEF Handled, Typed
  <2>2. w = u \/ w = Handle(u, stream[o].session, e)
    BY DEF Done
  <2> HIDE DEF w
  <2> QED BY <2>1, <2>2, HandleHandled, HandledOn
<1>2. w \in Store /\ w.source \in Ids(Openers)
  BY <1>1 DEF Handled, Store
<1>3. /\ ui' \in {w, Disconnect(w)}
      /\ stream' \in {over, Closed(over, w.source)}
  BY DEF Finish
<1> HIDE DEF w
<1>4. StreamsTyped'
  BY <1>2, <1>3, StreamsChange DEF Typed
<1>5. Handled(w, Disconnect(w))
  BY <1>2, GrowsByItself DEF Disconnect, Handled, Store, Ids
<1> QED BY <1>1, <1>3, <1>4, <1>5, HandledOn DEF Typed

LEMMA DeliverGood ==
    ASSUME Typed, HistInv, NEW o \in Openers, Deliver(o) \/ GiveUp(o)
    PROVE  Typed' /\ HistInv' /\ SettledStep
<1>1. stream[o].live /\ UNCHANGED <<server, sel, send, stopping>>
  BY DEF Deliver, GiveUp
<1> DEFINE s == stream[o].session
<1> DEFINE t == stream[o].task
<1>2. s \in Sessions /\ t \in Tasks /\ stream[o].at \in Nat
  BY <1>1 DEF Typed, StreamsTyped, StreamOK
<1>3. ServerTyped' /\ UNCHANGED task
  BY <1>1 DEF Typed, server, ServerTyped
<1>4. CallsTyped'
  <2>1. loads' \in [plan : SUBSET Sessions, preview : SUBSET Sessions]
    BY <1>2 DEF Deliver, GiveUp, Fetch, Typed, CallsTyped
  <2> QED BY <1>1, <2>1 DEF Typed, CallsTyped
<1>5. Handled(ui, ui)
  BY HandledItself DEF Typed
<1>6. StreamsTyped' /\ Handled(ui, ui')
  <2>1. CASE GiveUp(o)
    <3> DEFINE e == [type |-> "error", tool |-> None, as |-> None]
    <3>1. Fits(e) /\ Finish(o, ui, e)
      BY <2>1 DEF GiveUp, Fits, EventTypes
    <3> HIDE DEF e
    <3> QED BY <1>2, <1>3, <1>5, <3>1, FinishGood
  <2>2. CASE Deliver(o)
    <3> DEFINE e == task[t].script[stream[o].at + 1]
    <3> DEFINE u == IF Heard(o) THEN Handle(ui, s, e) ELSE ui
    <3>1. /\ stream[o].at < task[t].ready /\ task[t].ready <= Len(task[t].script)
          /\ task[t].ready \in Nat /\ Len(task[t].script) \in Nat
      BY <1>2, <2>2, ScriptFits DEF Deliver, Typed, ServerTyped
    <3>2. Fits(e)
      BY <1>2, <3>1, ScriptFits DEF Typed
    <3>3. IF e.type \in {"end", "error"} THEN Finish(o, u, e)
          ELSE ui' = u /\ stream' = [stream EXCEPT ![o].at = @ + 1]
      BY <2>2 DEF Deliver
    <3> HIDE DEF e
    <3>4. Handled(ui, u)
      BY <1>2, <1>5, <3>2, HandleHandled DEF Typed
    <3> HIDE DEF u, s, t
    <3>5. CASE e.type \in {"end", "error"}
      BY <1>2, <1>3, <3>2, <3>3, <3>4, <3>5, FinishGood DEF s
    <3>6. CASE e.type \notin {"end", "error"}
      <4>1. stream' = [stream EXCEPT ![o].at = @ + 1] /\ ui' = u
        BY <3>3, <3>6
      <4>2. stream' \in [Openers -> [live : BOOLEAN, task : Ids(Tasks), session : Ids(Sessions),
                                    at : Nat]]
        BY <1>2, <4>1 DEF Typed, StreamsTyped
      <4>3. ASSUME NEW x \in Openers PROVE StreamOK(x)'
        <5>1. StreamOK(x)
          BY DEF Typed, StreamsTyped
        <5>2. CASE x # o
          BY <1>3, <4>1, <5>1, <5>2 DEF StreamOK, Typed, StreamsTyped
        <5>3. CASE x = o
          <6>1. /\ stream'[o].live = stream[o].live /\ stream'[o].task = t
                /\ stream'[o].session = stream[o].session /\ stream'[o].at = stream[o].at + 1
            BY <4>1 DEF Typed, StreamsTyped, t
          <6> QED BY <1>2, <1>3, <3>1, <5>3, <6>1 DEF StreamOK, s
        <5> QED BY <5>2, <5>3
      <4> QED BY <3>4, <4>1, <4>2, <4>3 DEF StreamsTyped
    <3> QED BY <3>5, <3>6
  <2> QED BY <2>1, <2>2
<1> QED BY <1>1, <1>3, <1>4, <1>6, SameSel, Onward DEF Typed, Handled

\* What else happens on the page.
LEMMA RestGood ==
    ASSUME Typed, HistInv,
           Interrupt \/ InterruptConfirmed \/ InterruptFails \/ Answer \/ Poll
              \/ (\E s \in Sessions : Loaded(s)) \/ Delete
    PROVE  Typed' /\ HistInv' /\ SettledStep
<1>1. UNCHANGED <<server, sel, send>>
  BY DEF Interrupt, InterruptConfirmed, InterruptFails, Answer, Poll, Loaded, Delete, calls
<1>2. ServerTyped' /\ UNCHANGED task
  BY <1>1 DEF Typed, server, ServerTyped
<1>3. ui.current \in Ids(Sessions) /\ ui.messages \in Seq(Message) /\ ui \in Store
  BY DEF Typed, Store
<1>4. CallsTyped'
  <2>1. stopping' \in Ids(Sessions)
    BY <1>3 DEF Interrupt, InterruptConfirmed, InterruptFails, Answer, Poll, Loaded, Delete, calls,
           Typed, CallsTyped, Ids
  <2>2. loads' \in [plan : SUBSET Sessions, preview : SUBSET Sessions]
    BY <1>3 DEF Interrupt, InterruptConfirmed, InterruptFails, Answer, Poll, Loaded, Delete, calls,
           Typed, CallsTyped, Ids, Fetch
  <2> QED BY <1>1, <2>1, <2>2 DEF Typed, CallsTyped
<1>5. CASE UNCHANGED <<ui, stream>>
  <2>1. Handled(ui, ui')
    BY <1>3, <1>5, StandsStill DEF Typed
  <2>2. StreamsTyped'
    BY <1>2, <1>5, StreamsChange DEF Typed
  <2> QED BY <1>1, <1>2, <1>4, <2>1, <2>2, SameSel, Onward DEF Typed, Handled
<1>6. CASE InterruptConfirmed
  <2> DEFINE u == IF Streaming(ui) THEN Over(ui, "cancelled") ELSE ui
  <2>1. Handled(ui, u)
    BY <1>3, OverHandled, HandledItself DEF Settled
  <2>2. ui' = Disconnect(u) /\ stream' = Closed(stream, u.source)
    BY <1>6 DEF InterruptConfirmed
  <2> HIDE DEF u
  <2>3. u \in Store /\ u.source \in Ids(Openers)
    BY <2>1 DEF Handled, Store
  <2>4. Handled(u, Disconnect(u))
    BY <2>3, GrowsByItself DEF Disconnect, Handled, Store, Ids
  <2>5. Handled(ui, ui')
    BY <1>3, <2>1, <2>2, <2>4, HandledOn
  <2>6. StreamsTyped'
    BY <1>2, <2>2, <2>3, StreamsChange DEF Typed
  <2> QED BY <1>1, <1>2, <1>4, <2>5, <2>6, SameSel, Onward DEF Typed, Handled
<1>7. CASE Answer \/ \E s \in Sessions : Loaded(s)
  <2>1. UNCHANGED ui \/ \E x \in Ids(Sessions) : ui' = [ui EXCEPT !.plan = x] \/ ui' = [ui EXCEPT !.preview = x]
    <3>1. \A s \in Sessions : \A p \in Previews(s) : p \in Ids(Sessions)
      BY DEF Previews, Typed, Store, Ids
    <3> QED BY <1>7, <3>1 DEF Answer, Loaded, PlanLoaded, Ids
  <2>2. Handled(ui, ui')
    <3>1. CASE UNCHANGED ui
      BY <1>3, <3>1, StandsStill
    <3>2. PICK x \in Ids(Sessions) : ui' = [ui EXCEPT !.plan = x] \/ ui' = [ui EXCEPT !.preview = x]
                                  \/ UNCHANGED ui
      BY <2>1 DEF Ids
    <3>3. /\ ui' \in Store /\ ui'.messages = ui.messages /\ ui'.current = ui.current
          /\ ui'.version = ui.version /\ ui'.source = ui.source
      BY <1>3, <3>2 DEF Store
    <3> QED BY <3>3, StandsStill
  <2>3. StreamsTyped'
    BY <1>2, <1>7, StreamsChange DEF Typed, Answer, Loaded
  <2> QED BY <1>1, <1>2, <1>4, <2>2, <2>3, SameSel, Onward DEF Typed, Handled
<1>8. CASE Delete
  <2>1. ui' = [ui EXCEPT !.current = None, !.messages = <<>>, !.plan = None] /\ UNCHANGED stream
    BY <1>8 DEF Delete
  <2>2. /\ ui' \in Store /\ ui'.current = None /\ ui'.messages = <<>> /\ ui'.version = ui.version
    <3>1. <<>> \in Seq(Message)
      OBVIOUS
    <3>2. PICK none \in Seq(Message) : none = <<>>
      BY <3>1
    <3>3. ui' = [ui EXCEPT !.current = None, !.messages = none, !.plan = None]
      BY <2>1, <3>2
    <3> QED BY <1>3, <3>2, <3>3 DEF Store, Ids
  <2>3. StreamsTyped'
    BY <1>2, <2>1, StreamsChange DEF Typed
  <2>4. HistInv'
    BY <1>1, <2>2 DEF HistInv
  <2>5. SettledStep
    BY <2>2 DEF SettledStep
  <2> QED BY <1>2, <1>4, <2>2, <2>3, <2>4, <2>5 DEF Typed
<1> QED BY <1>5, <1>6, <1>7, <1>8 DEF Interrupt, InterruptFails, Poll

LEMMA StepGood ==
    ASSUME Typed, HistInv, Next
    PROVE  Typed' /\ HistInv' /\ SettledStep
BY ServerSteps, SelectGood, SelectDetailGood, SelectPlanGood, SelectTaskGood, SendGood,
   DeliverGood, RestGood DEF Next, SelectStep

LEMMA StutterGood ==
    ASSUME Typed, HistInv, UNCHANGED vars
    PROVE  Typed' /\ HistInv' /\ SettledStep
BY DEF Typed, HistInv, vars, server, calls, ServerTyped, CallsTyped, StreamsTyped, StreamOK,
   SettledStep

LEMMA TypedImplies == Typed => TypeOK
<1> SUFFICES ASSUME Typed PROVE TypeOK
  OBVIOUS
<1>1. \A t \in Tasks : task[t].session \in Ids(Sessions) /\ task[t].ready \in 0 .. Len(task[t].script)
  BY ScriptFits DEF Typed, ServerTyped
<1>2. \A o \in Openers : stream[o].live => stream[o].at <= task[stream[o].task].ready
  BY DEF Typed, StreamsTyped, StreamOK
<1> QED BY <1>1, <1>2 DEF Typed, TypeOK, Store, CallsTyped

LEMMA Invariance == Spec => [](Typed /\ HistInv)
<1>1. Init => Typed /\ HistInv
  BY InitGood
<1>2. Typed /\ HistInv /\ [Next]_vars => (Typed /\ HistInv)'
  BY StepGood, StutterGood
<1> QED BY <1>1, <1>2, PTL DEF Spec

-----------------------------------------------------------------------------
\* A page and the server it talks to stay typed: no stream is ever ahead of its task's log,
\* and what a page shows are messages, whichever awaits and events overtake each other.
THEOREM TypeCorrect == Spec => []TypeOK
BY Invariance, TypedImplies, PTL

\* Stored answers on screen are those of the session on screen (the version check of
\* selectSession), for any number of selections under way.
THEOREM HistoryIsOfCurrent == Spec => []HistoryOfCurrent
<1>1. Typed /\ HistInv => HistoryOfCurrent
  BY DEF Typed, Store, HistInv, HistoryOf, HistoryOfCurrent
<1> QED BY <1>1, Invariance, PTL

\* No event, replayed, late or of another turn's stream, reopens a tool that has a result
\* (handleStreamData), for scripts of any length.
THEOREM SettledStaysSettled == Spec => SettledTools
<1>1. Typed /\ HistInv /\ [Next]_vars => [SettledStep]_vars
  BY StepGood
<1>2. [][SettledStep]_vars => SettledTools
  BY PTL DEF SettledStep, SettledTools
<1> QED BY <1>1, <1>2, Invariance, PTL DEF Spec
=============================================================================
