----------------------------- MODULE SessionView -----------------------------
(***************************************************************************)
(* A page of the chat: the session store (frontend stores/session.ts) with *)
(* the projection of stream events and of the stored history onto messages *)
(* (stores/conversationProjection.ts).                                     *)
(*                                                                         *)
(* The page is one thread.  What interleaves is its continuations: after   *)
(* each await of selectSession, sendMessage and interruptCurrentTask the   *)
(* user may have done something else, an older call may still be under     *)
(* way, and streams hand over events at any time.  A stream hands over the *)
(* log of its task as TaskFeed promises; the log itself is one of Scripts. *)
(***************************************************************************)
EXTENDS Naturals, Sequences, SequencesExt

CONSTANTS
    Sessions,
    Selects,      \* calls of selectSession; a call's number is its version
    Sends,        \* calls of sendMessage
    Elsewhere,    \* tasks that another page or auto-continue submits
    Home,         \* Home[t]: the session of such a task
    Tools,        \* tool ids; a task's script has its own
    Scripts,      \* Scripts[t]: the logs task t may write
    Planned,      \* sessions with a plan and previews to load
    MaxClicks,    \* how often the user does something
    MaxFaults,    \* requests that fail, streams given up
    None

Tasks == Sends \cup Elsewhere
History == "history"

EventTypes == {"text", "call", "progress", "result", "plan", "preview", "confirmed",
               "interrupted", "error", "end"}
Settled == {"completed", "failed", "cancelled"}
ToolStatus == {"running"} \cup Settled
Event == [type : EventTypes, tool : Tools \cup {None}, as : Settled \cup {None}]

ASSUME ViewAssumption ==
    /\ Selects \in Nat
    /\ MaxClicks \in Nat
    /\ MaxFaults \in Nat
    /\ None \notin Sessions \cup Tasks \cup Tools
    /\ Sends \cap Elsewhere = {}
    /\ Home \in [Elsewhere -> Sessions]
    /\ Planned \subseteq Sessions
    /\ History \notin Tasks \cup {None}
    /\ \A t \in Tasks : Scripts[t] \subseteq Seq(Event)
    \* every log ends (TaskStream), at its first "end"
    /\ \A t \in Tasks : \A s \in Scripts[t] :
          Len(s) > 0 /\ \A i \in 1 .. Len(s) : s[i].type = "end" <=> i = Len(s)
    \* an event about a tool names it, a result says how it ended
    /\ \A t \in Tasks : \A s \in Scripts[t] : \A i \in 1 .. Len(s) :
          /\ s[i].type \in {"call", "progress", "result"} => s[i].tool \in Tools
          /\ s[i].type = "result" => s[i].as \in Settled

VARIABLES
    task,      \* the server: task[t] belongs to a session, wrote `ready` events of its script
    turns,     \* the server: the tasks of a session, in order
    ui,        \* the store
    stream,    \* the EventSources, one per call that opens one
    sel,       \* the calls of selectSession
    send,      \* the calls of sendMessage
    stopping,  \* the call of interruptCurrentTask: the session it interrupts
    clicks,    \* how many of MaxClicks and MaxFaults there were
    faults,
    loads      \* sessions whose plan or pending preview is being fetched

server == <<task, turns>>
calls == <<sel, send, stopping, loads>>
budgets == <<clicks, faults>>
vars == <<server, ui, stream, calls, budgets>>

-----------------------------------------------------------------------------
Versions == 1 .. Selects
Openers == ({"select"} \X Versions) \cup ({"send"} \X Sends)

\* An assistant turn or a user's message. `of` is history: the session it came from.
Message == [role : {"user", "assistant"}, of : Sessions,
            turn : Tasks \cup {History, None}, status : ToolStatus,
            tools : UNION {[S -> ToolStatus] : S \in SUBSET Tools}]
NoTools == [c \in {} |-> "running"]
User(s) == [role |-> "user", of |-> s, turn |-> None, status |-> "completed", tools |-> NoTools]
Turn(s, t, status, tools) ==
    [role |-> "assistant", of |-> s, turn |-> t, status |-> status, tools |-> tools]

NoStream == [live |-> FALSE, task |-> None, session |-> None, at |-> 0]
\* A stream that resumes after an event it never saw.
OpenedPastFirst(t, s) == [live |-> TRUE, task |-> t, session |-> s, at |-> 1]

Opened(t, s) == [live |-> TRUE, task |-> t, session |-> s, at |-> 0]

NoCall == [pc |-> "none", session |-> None, messages |-> <<>>, seen |-> None]
Ended == [NoCall EXCEPT !.pc = "done"]
NewTask == [session |-> None, script |-> <<>>, ready |-> 0]
Active(s) == {t \in Tasks : task[t].session = s /\ task[t].ready < Len(task[t].script)}

Init ==
    /\ task = [t \in Tasks |-> NewTask]
    /\ turns = [s \in Sessions |-> <<>>]
    /\ ui = [current |-> None, version |-> 0, messages |-> <<>>, runs |-> None,
             turn |-> None, buffered |-> NoTools, source |-> None, plan |-> None,
             preview |-> None]
    /\ stream = [o \in Openers |-> NoStream]
    /\ sel = [v \in Versions |-> NoCall]
    /\ send = [k \in Sends |-> [pc |-> "none", session |-> None]]
    /\ stopping = None
    /\ loads = [plan |-> {}, preview |-> {}]
    /\ clicks = 0
    /\ faults = 0

-----------------------------------------------------------------------------
(* Projection: pure functions of the store.                                *)

Put(f, c, x) == [d \in DOMAIN f \cup {c} |-> IF d = c THEN x ELSE f[d]]
Drop(f, c) == [d \in DOMAIN f \ {c} |-> f[d]]
Assistants(ms) == {i \in DOMAIN ms : ms[i].role = "assistant"}

\* updateTurn: the message of the turn, else the last answer if no question follows it,
\* else a new message.
TurnAt(ms, t) ==
    LET mine == {i \in Assistants(ms) : t # None /\ ms[i].turn = t}
        tail == {i \in Assistants(ms) : \A j \in i .. Len(ms) : ms[j].role # "user"}
    IN  IF mine # {} THEN Min(mine) ELSE IF tail # {} THEN Max(tail) ELSE 0

TurnMessage(u, s) ==
    LET i == TurnAt(u.messages, u.turn)
    IN  IF i = 0 THEN Turn(s, u.turn, "running", NoTools) ELSE u.messages[i]

\* updateTurn: answer m takes its place among the messages, or a new one at their end.
UpdateTurn(u, m) ==
    LET i == TurnAt(u.messages, u.turn)
    IN  [u EXCEPT !.messages = IF i = 0 THEN Append(@, m) ELSE [@ EXCEPT ![i] = m]]

\* finalizeTurnMessages: the turn's messages, or without a turn all that have a tool open.
Finalize(ms, t, status) ==
    LET closed == IF status = "completed" THEN "failed" ELSE status
        Open(m) == \E c \in DOMAIN m.tools : m.tools[c] = "running"
        Meant(m) == m.role = "assistant" /\ IF t = None THEN Open(m) ELSE m.turn = t
    IN  [i \in DOMAIN ms |->
            IF Meant(ms[i])
            THEN [ms[i] EXCEPT !.status = status,
                               !.tools = [c \in DOMAIN @ |->
                                            IF @[c] = "running" THEN closed ELSE @[c]]]
            ELSE ms[i]]

\* isStreaming; `runs` also remembers for which session it was set, which is history.
Streaming(u) == u.runs # None

Running(m) == [m EXCEPT !.status = "running"]

\* A replayed call that is taken for a new one.
CallReopens(u, s, c) ==
    UpdateTurn(u, [Running(TurnMessage(u, s)) EXCEPT !.tools = Put(@, c, "running")])

\* A call that already has a result, or whose result is waiting for it, is not reopened.
Call(u, s, c) ==
    LET m == TurnMessage(u, s)
        status == IF c \in DOMAIN u.buffered THEN u.buffered[c]
                  ELSE IF c \in DOMAIN m.tools /\ m.tools[c] \in Settled THEN m.tools[c]
                  ELSE "running"
    IN  [UpdateTurn(u, [Running(m) EXCEPT !.tools = Put(@, c, status)])
         EXCEPT !.buffered = Drop(@, c)]

\* A settled tool keeps its status, another runs already: only the answer may be new.
Progress(u, s, c) == UpdateTurn(u, TurnMessage(u, s))

Result(u, s, c, as) ==
    LET known == \E i \in Assistants(u.messages) : c \in DOMAIN u.messages[i].tools
        m == TurnMessage(u, s)
    IN  [UpdateTurn(u, IF c \in DOMAIN m.tools THEN [m EXCEPT !.tools[c] = as] ELSE m)
         EXCEPT !.buffered = IF known THEN @ ELSE Put(@, c, as)]

Over(u, status) ==
    [u EXCEPT !.runs = None, !.source = None, !.turn = None,
              !.messages = Finalize(@, u.turn, status)]

\* handleStreamData: what an event of a task of session s does to the store.
Handle(u, s, e) ==
    CASE e.type = "text"        -> UpdateTurn(u, Running(TurnMessage(u, s)))
      [] e.type = "call"        -> Call(u, s, e.tool)
      [] e.type = "progress"    -> Progress(u, s, e.tool)
      [] e.type = "result"      -> Result(u, s, e.tool, e.as)
      [] e.type = "plan"        -> [u EXCEPT !.plan = s]
      [] e.type = "preview"     -> [u EXCEPT !.plan = s, !.preview = s]
      [] e.type = "confirmed"   -> [u EXCEPT !.preview = IF @ = s THEN None ELSE @]
      [] e.type = "interrupted" -> Over(u, "cancelled")
      [] e.type = "error"       -> Over(u, "failed")
      [] e.type = "end"         -> Over(u, "completed")

\* disconnectStream: the streams that are left and the store without its source.
Closed(streams, src) ==
    IF src = None THEN streams
    ELSE [streams EXCEPT ![src] = NoStream]
Disconnect(u) == [u EXCEPT !.source = None]

Click == clicks < MaxClicks /\ clicks' = clicks + 1 /\ UNCHANGED faults
Fault == faults < MaxFaults /\ faults' = faults + 1 /\ UNCHANGED clicks

-----------------------------------------------------------------------------
(* The server.                                                             *)

Start(t, s) ==
    /\ task[t].session = None
    /\ \E script \in Scripts[t] :
        task' = [task EXCEPT ![t] = [session |-> s, script |-> script, ready |-> 0]]
    /\ turns' = [turns EXCEPT ![s] = Append(@, t)]

StartElsewhere(t) ==
    /\ Start(t, Home[t])
    /\ UNCHANGED <<ui, stream, calls, budgets>>

Write(t) ==
    /\ task[t].ready < Len(task[t].script)
    /\ task' = [task EXCEPT ![t].ready = @ + 1]
    /\ UNCHANGED <<turns, ui, stream, calls, budgets>>

\* projectHistoryMessages of what is stored of a session: of each turn that wrote
\* anything the question and, when there is text or a tool call, one answer.
Log(t) == SubSeq(task[t].script, 1, task[t].ready)
Answered(t) == \E i \in 1 .. task[t].ready : task[t].script[i].type \in {"text", "call"}
ToolsOf(t) ==
    LET log == Log(t)
        Are(type) == {i \in DOMAIN log : log[i].type = type}
        Results(c) == {i \in Are("result") : log[i].tool = c}
    IN  [c \in {log[i].tool : i \in Are("call")} |->
            IF Results(c) = {} THEN "running" ELSE log[Max(Results(c))].as]
Stored(s) ==
    LET Of(t) == (IF task[t].ready > 0 THEN <<User(s)>> ELSE <<>>)
                 \o (IF Answered(t) THEN <<Turn(s, History, "completed", ToolsOf(t))>> ELSE <<>>)
    IN  FlattenSeq([n \in DOMAIN turns[s] |-> Of(turns[s][n])])

-----------------------------------------------------------------------------
(* selectSession: a call and the continuations after its awaits.           *)

Select(s) ==
    LET v == ui.version + 1 IN
    /\ v \in Versions
    /\ ui' = [Disconnect(ui) EXCEPT
                !.version = v, !.current = s, !.messages = <<>>, !.runs = None,
                !.preview = None, !.plan = None, !.turn = None, !.buffered = NoTools]
    /\ stream' = Closed(stream, ui.source)
    /\ sel' = [sel EXCEPT ![v].pc = "detail", ![v].session = s]
    /\ Click
    /\ UNCHANGED <<server, send, stopping, loads>>

\* The slower load is not discarded.
SelectDetailUnchecked(v) ==
    LET ms == Stored(sel[v].session) IN
    /\ sel[v].pc = "detail"
    /\ ui' = [ui EXCEPT !.messages = ms]
    /\ sel' = [sel EXCEPT ![v].pc = "plan", ![v].messages = ms]
    /\ UNCHANGED <<server, stream, send, stopping, loads, budgets>>

\* The answer of getSession, unless a newer call took over.
SelectDetail(v) ==
    LET ms == Stored(sel[v].session) IN
    /\ sel[v].pc = "detail"
    /\ IF ui.version = v
       THEN /\ ui' = [ui EXCEPT !.messages = ms]
            /\ sel' = [sel EXCEPT ![v].pc = "plan", ![v].messages = ms]
       ELSE sel' = [sel EXCEPT ![v] = Ended] /\ UNCHANGED ui
    /\ UNCHANGED <<server, stream, send, stopping, loads, budgets>>

\* loadPlan and loadPendingPreview set what they were answered, whoever is looking: the plan,
\* which may be none, unless the request fails; a preview, when there is one by then.
PlanLoaded(s) ==
    \/ /\ ui' = [ui EXCEPT !.plan = IF s \in Planned THEN s ELSE None]
       /\ UNCHANGED budgets
    \/ UNCHANGED ui /\ Fault
Previews(s) == {ui.preview} \cup ({s} \cap Planned)

\* Requests whose answer may change the store.
Fetch(what, s) == [loads EXCEPT ![what] = @ \cup ({s} \cap Planned)]

SelectPlan(v) ==
    /\ sel[v].pc = "plan"
    /\ PlanLoaded(sel[v].session)
    /\ sel' = [sel EXCEPT ![v].pc = "preview"]
    /\ UNCHANGED <<server, stream, send, stopping, loads>>

\* A request whose answer takes a while says what was so when it was asked or is so now.
ActiveNow(s) == IF Active(s) = {} THEN {None} ELSE Active(s)

SelectPreview(v) ==
    LET s == sel[v].session IN
    /\ sel[v].pc = "preview"
    /\ \E p \in Previews(s) :
        ui' = [ui EXCEPT !.preview = p]
    /\ \E a \in ActiveNow(s) : sel' = [sel EXCEPT ![v].pc = "task", ![v].seen = a]
    /\ UNCHANGED <<server, stream, send, stopping, loads, budgets>>

\* The answer of getSessionTask: the running task is taken for the last answer's, or every
\* tool still open is closed.
Resumed(ms, s, t) ==
    LET as == Assistants(ms)
    IN  IF as = {} THEN Append(ms, Turn(s, t, "running", NoTools))
        ELSE [ms EXCEPT ![Max(as)].turn = t, ![Max(as)].status = "running"]

SelectTask(v) ==
    LET s == sel[v].session
        o == <<"select", v>>
        ms == sel[v].messages
    IN
    /\ sel[v].pc = "task"
    /\ sel' = [sel EXCEPT ![v] = Ended]
    /\ IF ui.version # v THEN UNCHANGED <<ui, stream>>
       ELSE \E a \in {sel[v].seen} \cup ActiveNow(s) :
            IF a = None
            THEN /\ ui' = [ui EXCEPT !.messages = Finalize(ms, None, "failed")]
                 /\ UNCHANGED <<stream>>
            ELSE /\ ui' = [ui EXCEPT !.messages = Resumed(ms, s, a), !.runs = s,
                                     !.turn = a, !.source = o]
                 /\ stream' = [stream EXCEPT ![o] = Opened(a, s)]
    /\ UNCHANGED <<server, send, stopping, loads, budgets>>

SelectFails(v) ==
    /\ sel[v].pc \in {"detail", "task"}
    /\ sel' = [sel EXCEPT ![v] = Ended]
    /\ Fault
    /\ UNCHANGED <<server, ui, stream, send, stopping, loads>>

SelectStep(v) == SelectDetail(v) \/ SelectPlan(v) \/ SelectPreview(v) \/ SelectTask(v)

-----------------------------------------------------------------------------
(* sendMessage, with or without files to upload first.                     *)

\* set({isStreaming: true}) and the call of submitTask.
Submit(k, s) ==
    /\ ui' = [ui EXCEPT !.runs = s]
    /\ send' = [send EXCEPT ![k] = [pc |-> "submit", session |-> s]]

Send(k) ==
    /\ send[k].pc = "none"
    /\ ui.current # None
    /\ ~Streaming(ui)
    /\ \/ Submit(k, ui.current)
       \/ /\ send' = [send EXCEPT ![k] = [pc |-> "upload", session |-> ui.current]]
          /\ UNCHANGED <<ui>>
    /\ Click
    /\ UNCHANGED <<server, stream, sel, stopping, loads>>

SendUploaded(k) ==
    /\ send[k].pc = "upload"
    /\ Submit(k, send[k].session)
    /\ UNCHANGED <<server, stream, sel, stopping, loads, budgets>>

\* The server accepts the submission; the answer is on its way.
SendAccepted(k) ==
    /\ send[k].pc = "submit"
    /\ Start(k, send[k].session)
    /\ send' = [send EXCEPT ![k].pc = "accepted"]
    /\ UNCHANGED <<ui, stream, sel, stopping, loads, budgets>>

SendSubmitted(k) ==
    LET s == send[k].session
        o == <<"send", k>>
    IN
    /\ send[k].pc = "accepted"
    /\ send' = [send EXCEPT ![k].pc = "done"]
    /\ ui' = [ui EXCEPT !.messages = @ \o <<User(s), Turn(s, k, "running", NoTools)>>,
                        !.turn = k, !.buffered = NoTools, !.plan = None, !.source = o]
    /\ stream' = [stream EXCEPT ![o] = Opened(k, s)]
    /\ UNCHANGED <<server, sel, stopping, loads, budgets>>

\* An upload or a submission fails, also one the server had accepted.
SendFails(k) ==
    /\ send[k].pc \in {"upload", "submit", "accepted"}
    /\ send' = [send EXCEPT ![k].pc = "done"]
    /\ ui' = [ui EXCEPT !.runs = IF send[k].pc = "upload" THEN @ ELSE None]
    /\ Fault
    /\ UNCHANGED <<server, stream, sel, stopping, loads>>

SendStep(k) == SendUploaded(k) \/ SendAccepted(k) \/ SendSubmitted(k)

-----------------------------------------------------------------------------
(* Streams.                                                                *)

\* The guards of onMessage.
Heard(o) ==
    /\ ui.current = stream[o].session
    /\ o[1] = "select" => ui.version = o[2]

\* A stream given up goes unnoticed.
DoneSilent(o, u, e) == u

\* onDone: an error the page has not shown is shown; a stream of selectSession closes.
Done(o, u, e) ==
    LET mine == IF o[1] = "select" THEN ui.version = o[2] ELSE ui.current = stream[o].session
    IN  IF mine /\ e.type = "error" /\ Streaming(u) THEN Handle(u, stream[o].session, e) ELSE u

Closes(o) == o[1] = "select" /\ ui.version = o[2]

\* The stream is over; `u` is the store after the event, if the page heard it.
Finish(o, u, e) ==
    LET w == Done(o, u, e)
        over == [stream EXCEPT ![o] = NoStream]
    IN  IF Closes(o) THEN ui' = Disconnect(w) /\ stream' = Closed(over, w.source)
        ELSE ui' = w /\ stream' = over

Deliver(o) ==
    LET s == stream[o].session
        t == stream[o].task
        e == task[t].script[stream[o].at + 1]
        u == IF Heard(o) THEN Handle(ui, s, e) ELSE ui
    IN
    /\ stream[o].live
    /\ stream[o].at < task[t].ready
    /\ IF e.type \in {"end", "error"} THEN Finish(o, u, e)
       ELSE ui' = u /\ stream' = [stream EXCEPT ![o].at = @ + 1]
    /\ loads' = IF Heard(o) /\ e.type = "end" THEN Fetch("plan", s) ELSE loads
    /\ UNCHANGED <<server, sel, send, stopping, budgets>>

\* The client gave up reconnecting.
GiveUp(o) ==
    /\ stream[o].live
    /\ Finish(o, ui, [type |-> "error", tool |-> None, as |-> None])
    /\ Fault
    /\ UNCHANGED <<server, sel, send, stopping, loads>>

-----------------------------------------------------------------------------
(* The rest: interrupt, previews, polling, deletion.                       *)

Interrupt ==
    /\ stopping = None
    /\ ui.current # None
    /\ Streaming(ui)
    /\ stopping' = ui.current
    /\ Click
    /\ UNCHANGED <<server, ui, stream, sel, send, loads>>

InterruptConfirmed ==
    LET u == IF Streaming(ui) THEN Over(ui, "cancelled") ELSE ui IN
    /\ stopping # None
    /\ stopping' = None
    /\ ui' = Disconnect(u)
    /\ stream' = Closed(stream, u.source)
    /\ UNCHANGED <<server, sel, send, loads, budgets>>

InterruptFails ==
    /\ stopping # None
    /\ stopping' = None
    /\ Fault
    /\ UNCHANGED <<server, ui, stream, sel, send, loads>>

\* The user answers the preview on screen.
Answer ==
    /\ ui.preview # None
    /\ ui.current # None
    /\ ui' = [ui EXCEPT !.preview = None]
    /\ loads' = Fetch("plan", ui.current)
    /\ Click
    /\ UNCHANGED <<server, stream, sel, send, stopping>>

\* The timer of startPendingPreviewPolling, of which every place that starts or stops it lets
\* at most run: it polls for the session on screen while the page streams and shows no preview.
Poll ==
    /\ ui.current # None
    /\ ui.preview = None
    /\ Streaming(ui)
    /\ loads' = Fetch("preview", ui.current)
    /\ UNCHANGED <<server, ui, stream, sel, send, stopping, budgets>>

Loaded(s) ==
    /\ \/ /\ s \in loads.plan
          /\ loads' = [loads EXCEPT !.plan = @ \ {s}]
          /\ PlanLoaded(s)
       \/ /\ s \in loads.preview
          /\ loads' = [loads EXCEPT !.preview = @ \ {s}]
          /\ \E p \in Previews(s) : ui' = [ui EXCEPT !.preview = p]
          /\ UNCHANGED budgets
    /\ UNCHANGED <<server, stream, sel, send, stopping>>

\* deleteSession of the session on screen, once the server has deleted it.
Delete ==
    /\ ui.current # None
    /\ ui' = [ui EXCEPT !.current = None, !.messages = <<>>, !.plan = None]
    /\ Click
    /\ UNCHANGED <<server, stream, calls>>

-----------------------------------------------------------------------------
Next ==
    \/ \E t \in Elsewhere : StartElsewhere(t)
    \/ \E t \in Tasks : Write(t)
    \/ \E s \in Sessions : Select(s)
    \/ \E v \in Versions : SelectStep(v)
    \/ \E v \in Versions : SelectFails(v)
    \/ \E k \in Sends : Send(k)
    \/ \E k \in Sends : SendStep(k)
    \/ \E k \in Sends : SendFails(k)
    \/ \E o \in Openers : Deliver(o)
    \/ \E o \in Openers : GiveUp(o)
    \/ Interrupt
    \/ InterruptConfirmed
    \/ InterruptFails
    \/ Answer
    \/ Poll
    \/ \E s \in Sessions : Loaded(s)
    \/ Delete

Spec == Init /\ [][Next]_vars

\* The worker goes on, the page's event loop too, and requests are answered or fail.
Fairness ==
    /\ \A t \in Tasks : WF_vars(Write(t))
    /\ \A k \in Sends : WF_vars(SendStep(k))
    /\ \A o \in Openers : WF_vars(Deliver(o))

FairSpec == Spec /\ Fairness

-----------------------------------------------------------------------------
(* Properties                                                              *)

Ids(S) == S \cup {None}
TypeOK ==
    /\ \A t \in Tasks : task[t].session \in Ids(Sessions) /\ task[t].ready \in 0 .. Len(task[t].script)
    /\ ui.current \in Ids(Sessions)
    /\ ui.version \in 0 .. Selects
    /\ ui.messages \in Seq(Message)
    /\ ui.turn \in Ids(Tasks)
    /\ ui.source \in Ids(Openers)
    /\ {ui.plan, ui.preview, ui.runs, stopping} \subseteq Ids(Sessions)
    \* no stream is ahead of its task's log
    /\ \A o \in Openers : stream[o].live => stream[o].at <= task[stream[o].task].ready

\* selectSession: the stored answers on screen are those of the session on screen, however
\* many loads overtook each other.
HistoryOfCurrent ==
    ui.current # None =>
        \A i \in DOMAIN ui.messages :
            ui.messages[i].turn = History => ui.messages[i].of = ui.current

\* handleStreamData ("Never downgrade those back to running"): no event, replayed, late or
\* of another turn's stream, reopens a tool that has a result. (A reload may.)
SettledTools ==
    [][ UNCHANGED sel =>
          \A i \in DOMAIN ui.messages \cap DOMAIN ui'.messages :
            \A c \in DOMAIN ui.messages[i].tools :
              ui.messages[i].tools[c] \in Settled =>
                /\ c \in DOMAIN ui'.messages[i].tools
                /\ ui'.messages[i].tools[c] \in Settled ]_vars

\* The page does not wait for ever: as long as the session on screen is the one whose task
\* it waits for, isStreaming ends, whichever events, errors and interrupts end it.
StreamingEnds ==
    \A s \in Sessions :
        (ui.runs = s /\ ui.current = s) ~> (ui.runs # s \/ ui.current # s)

\* The comment in selectSession: "A slower session load or a stale EventSource must never
\* project into the session the user has switched to."
ViewIsCurrent ==
    ui.current # None =>
        /\ {ui.plan, ui.preview} \subseteq {None, ui.current}
        /\ \A i \in DOMAIN ui.messages : ui.messages[i].of = ui.current
=============================================================================
