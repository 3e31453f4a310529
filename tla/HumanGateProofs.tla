--------------------------- MODULE HumanGateProofs ---------------------------
(***************************************************************************)
(* Proofs about HumanGate: every reachable state is typed, and a plan is   *)
(* created only on a user's consent, once per consent, for any number of   *)
(* turns, clients and previews and however locks lapse and turns fail.     *)
(*                                                                         *)
(* The argument follows the consent on its way: an answer in Redis was     *)
(* accepted from a client; what a waiter took was such an answer; what a   *)
(* gate holds is such an answer to a preview of its own turn whose consent *)
(* was not used yet.  Preview ids are created once and by one turn, so no  *)
(* two gates hold the same consent.                                        *)
(***************************************************************************)
EXTENDS HumanGate, TLAPS

\* An agent that is not thinking is busy with a preview of its own turn.
Busy(t) == agent[t].pc \notin {"off", "think"}

AgentPlaced ==
    \A t \in Turns : Busy(t) =>
        /\ agent[t].id \in Previews
        /\ asked[agent[t].id].turn = t
        /\ Kind[agent[t].id] = "plan" =>
              /\ agent[t].plan \in Plans
              /\ asked[agent[t].id].plan = agent[t].plan

TakePlaced == \A t \in Turns : agent[t].pc = "take" => agent[t].got \in Answer

ReqPlaced ==
    \A c \in Clients :
        /\ req[c].pc \in {"listed?", "pending?", "set_status", "set_answer"}
              => req[c].op = "answer"
        /\ req[c].op = "answer" => req[c].id \in Previews /\ req[c].ans \in Answer
        /\ req[c].pc \in {"read", "write"} => req[c].id \in Previews

GatePlaced == \A t \in Turns : gate[t].plan # None => gate[t].id \in Previews

\* The state is typed and every local variable is set where it is used.
Typed == TypeOK /\ AgentPlaced /\ TakePlaced /\ ReqPlaced /\ GatePlaced

\* Used throughout: the assumption on the constants and three abbreviations.
USE GateAssumption DEF Kinds, keys, history

\* The initial state is typed.
LEMMA InitTyped == Init => Typed
<1> SUFFICES ASSUME Init PROVE Typed
  OBVIOUS
<1>1. pending \in [Kinds -> Previews \cup {None}] /\ preview \in [Previews -> Statuses]
      /\ lock \subseteq Previews /\ stop \in BOOLEAN /\ chat \in [Turns -> ChatPcs]
  BY DEF Init, Statuses, ChatPcs
<1>2. answer \in [Previews -> Answer \cup {NoAnswer}] /\ accepted \in [Previews -> SUBSET Answer]
  BY DEF Init
<1>3. agent \in [Turns -> Agent] /\ gate \in [Turns -> Gate]
  BY DEF Init, Agent, NoAgent, AgentPcs, WaitPcs, Gate, NewGate
<1>4. cache \in [Turns -> [Plans -> Replies]]
  BY DEF Init, Replies, NoReply
<1>5. req \in [Clients -> Req]
  BY DEF Init, Req, NoReq, ReqPcs
<1>6. asked \in [Previews -> [turn : Turns \cup {None}, plan : Plans \cup {None}]]
      /\ outcome \in [Previews -> {"none", "confirm", "cancel", "interrupted", "gone",
                                 "auto_confirm", "timeout"}]
  BY DEF Init
<1>7. made \in [Previews -> Seq(Plans)]
  BY DEF Init
<1>8. TypeOK
  BY <1>1, <1>2, <1>3, <1>4, <1>5, <1>6, <1>7 DEF TypeOK
<1>9. AgentPlaced /\ TakePlaced /\ ReqPlaced /\ GatePlaced
  BY DEF Init, AgentPlaced, TakePlaced, ReqPlaced, GatePlaced, Busy, NoAgent, NoReq, NewGate
<1> QED BY <1>8, <1>9 DEF Typed

\* An agent may move on to any record that is itself well placed.
LEMMA AgentMoves ==
  ASSUME Typed, NEW t \in Turns, NEW a \in Agent, AgentTo(t, a), UNCHANGED asked,
         a.pc \notin {"off", "think"} =>
            /\ a.id \in Previews /\ asked[a.id].turn = t
            /\ Kind[a.id] = "plan" => a.plan \in Plans /\ asked[a.id].plan = a.plan,
         a.pc = "take" => a.got \in Answer
  PROVE  agent' \in [Turns -> Agent] /\ AgentPlaced' /\ TakePlaced'
<1>1. agent' \in [Turns -> Agent] /\ \A u \in Turns : agent'[u] = IF u = t THEN a ELSE agent[u]
  BY DEF Typed, TypeOK, AgentTo
<1>2. AgentPlaced'
  BY <1>1 DEF Typed, AgentPlaced, Busy
<1>3. TakePlaced'
  BY <1>1 DEF Typed, TakePlaced
<1> QED BY <1>1, <1>2, <1>3

\* In particular it may go on to another place in its wait,
LEMMA AgentGoesOn ==
  ASSUME Typed, NEW t \in Turns, UNCHANGED asked,
         NEW l \in AgentPcs, Busy(t), l # "take", AgentGoto(t, l)
  PROVE  agent' \in [Turns -> Agent] /\ AgentPlaced' /\ TakePlaced'
<1> DEFINE a == [agent[t] EXCEPT !.pc = l]
<1>1. a \in Agent /\ a.pc = l /\ a.id = agent[t].id /\ a.plan = agent[t].plan
  <2>1. agent[t] \in Agent
    BY DEF Typed, TypeOK
  <2> QED BY <2>1 DEF Agent
<1>2. /\ a.id \in Previews /\ asked[a.id].turn = t
      /\ Kind[a.id] = "plan" => a.plan \in Plans /\ asked[a.id].plan = a.plan
  BY <1>1 DEF Typed, AgentPlaced
<1>3. AgentTo(t, a)
  BY DEF AgentGoto
<1> HIDE DEF a
<1> QED BY <1>1, <1>2, <1>3, AgentMoves

\* think about a reply,
LEMMA AgentThinks ==
  ASSUME Typed, NEW t \in Turns, UNCHANGED asked,
         NEW d \in Plans \cup {None}, AgentTo(t, Thinking(d))
  PROVE  agent' \in [Turns -> Agent] /\ AgentPlaced' /\ TakePlaced'
<1>1. Thinking(d) \in Agent /\ Thinking(d).pc = "think"
  BY DEF Thinking, NoAgent, NoAnswer, Agent, AgentPcs
<1> QED BY <1>1, AgentMoves

\* or stop.
LEMMA AgentStops ==
  ASSUME Typed, NEW t \in Turns, UNCHANGED asked, AgentTo(t, NoAgent)
  PROVE  agent' \in [Turns -> Agent] /\ AgentPlaced' /\ TakePlaced'
<1>1. NoAgent \in Agent /\ NoAgent.pc = "off"
  BY DEF NoAgent, NoAnswer, Agent, AgentPcs
<1> QED BY <1>1, AgentMoves

Outcomes == {"none", "confirm", "cancel", "interrupted", "gone", "auto_confirm", "timeout"}

\* The end of a wait keeps the state typed.
LEMMA ReturnsTyped ==
  ASSUME Typed, NEW t \in Turns, NEW what \in Outcomes, NEW ans \in Answer \cup {NoAnswer},
         ans \in Answer \/ what # "confirm", Busy(t), Returns(t, what, ans)
  PROVE  /\ agent' \in [Turns -> Agent] /\ gate' \in [Turns -> Gate]
         /\ cache' \in [Turns -> [Plans -> Replies]]
         /\ outcome' \in [Previews -> Outcomes]
         /\ AgentPlaced' /\ TakePlaced' /\ GatePlaced'
<1> DEFINE p == agent[t].id
<1>1. p \in Previews /\ outcome' = [outcome EXCEPT ![p] = what] /\ UNCHANGED asked
  BY DEF Typed, AgentPlaced, Returns
<1>2. outcome' \in [Previews -> Outcomes]
  BY <1>1 DEF Typed, TypeOK, Outcomes
<1>3. CASE Kind[p] = "kuncode"
  <2>1. UNCHANGED <<gate, cache>> /\ AgentTo(t, Thinking(None))
    BY <1>3 DEF Returns
  <2>2. agent' \in [Turns -> Agent] /\ AgentPlaced' /\ TakePlaced'
    BY <1>1, <2>1, AgentThinks
  <2> QED BY <1>2, <2>1, <2>2 DEF Typed, TypeOK, GatePlaced
<1>4. CASE Kind[p] # "kuncode"
  <2> DEFINE c == agent[t].plan
             d == Approved(t, ans)
             g == IF what = "confirm"
                  THEN [plan |-> d, id |-> p, cancelled |-> FALSE] ELSE Cancelled
             r == IF what = "confirm" THEN [said |-> "confirmed", plan |-> d]
                  ELSE [said |-> "cancelled", plan |-> None]
  <2>1. c \in Plans
    BY <1>1, <1>4 DEF Typed, AgentPlaced
  <2>2. what = "confirm" => d \in Plans
    BY <2>1 DEF Approved, Answer
  <2>3. g \in Gate /\ (g.plan # None => g.id \in Previews)
    BY <1>1, <2>2 DEF Gate, Cancelled, NewGate
  <2>4. r \in Replies /\ r.plan \in Plans \cup {None}
    BY <2>2 DEF Replies
  <2>5. /\ gate' = [gate EXCEPT ![t] = g] /\ cache' = [cache EXCEPT ![t][c] = r]
        /\ AgentTo(t, Thinking(r.plan))
    BY <1>4 DEF Returns
  <2> HIDE DEF g, r, c, d, p
  <2>6. agent' \in [Turns -> Agent] /\ AgentPlaced' /\ TakePlaced'
    BY <1>1, <2>4, <2>5, AgentThinks
  <2>7. gate' \in [Turns -> Gate] /\ GatePlaced'
    BY <2>3, <2>5 DEF Typed, TypeOK, GatePlaced
  <2>8. cache' \in [Turns -> [Plans -> Replies]]
    BY <2>1, <2>4, <2>5 DEF Typed, TypeOK
  <2> QED BY <1>2, <2>6, <2>7, <2>8
<1> QED BY <1>3, <1>4

\* Every step of a waiting agent keeps the state typed.
LEMMA AgentStepTyped ==
  ASSUME Typed, NEW t \in Turns, AgentStep(t)
  PROVE  Typed'
<1> DEFINE p == agent[t].id
<1>p. Busy(t) => p \in Previews /\ Kind[p] \in Kinds
  BY DEF Typed, AgentPlaced
<1>0. NoAnswer \in Answer \cup {NoAnswer} /\ UNCHANGED <<chat, req, asked, accepted, made>>
  BY DEF AgentStep, Show, SeeStop, SeeAnswer, TakeAnswer, SeePreview, Reread, AutoConfirm,
         GoAhead, UnlistPlan, Expire, Returns
<1>r. ReqPlaced'
  BY <1>0 DEF Typed, ReqPlaced
<1>1. CASE Show(t)
  <2>1. AgentGoto(t, "stop?") /\ Busy(t)
    BY <1>1 DEF Show, At, Busy
  <2>2. agent' \in [Turns -> Agent] /\ AgentPlaced' /\ TakePlaced'
    BY <1>1, <2>1, AgentGoesOn DEF Show, AgentPcs, WaitPcs
  <2>3. pending' \in [Kinds -> Previews \cup {None}]
    BY <1>1, <1>p, <2>1 DEF Show, Typed, TypeOK
  <2> QED BY <1>1, <1>r, <2>2, <2>3 DEF Show, Typed, TypeOK, GatePlaced
<1>2. CASE SeeStop(t)
  <2>1. Busy(t)
    BY <1>2 DEF SeeStop, At, Busy
  <2>2. CASE stop
    <3>1. Returns(t, "interrupted", NoAnswer)
      BY <1>2, <2>2 DEF SeeStop
    <3> QED BY <1>2, <1>0, <1>r, <2>1, <3>1, ReturnsTyped DEF SeeStop, Typed, TypeOK, Outcomes
  <2>3. CASE ~stop
    <3>1. AgentGoto(t, "answer?")
      BY <1>2, <2>3 DEF SeeStop
    <3>2. agent' \in [Turns -> Agent] /\ AgentPlaced' /\ TakePlaced'
      BY <1>0, <2>1, <3>1, AgentGoesOn DEF AgentPcs, WaitPcs
    <3> QED BY <1>2, <1>r, <2>3, <3>2 DEF SeeStop, Typed, TypeOK, GatePlaced
  <2> QED BY <2>2, <2>3
<1>3. CASE SeeAnswer(t)
  <2>1. Busy(t)
    BY <1>3 DEF SeeAnswer, At, Busy
  <2>2. CASE answer[p] # NoAnswer
    <3> DEFINE a == [agent[t] EXCEPT !.pc = "take", !.got = answer[p]]
    <3>1. agent[t] \in Agent /\ answer[p] \in Answer
      BY <1>p, <2>1, <2>2 DEF Typed, TypeOK
    <3>2. /\ a \in Agent /\ a.got \in Answer /\ a.id = p /\ a.plan = agent[t].plan
      BY <3>1 DEF Agent, AgentPcs, WaitPcs
    <3>3. AgentTo(t, a)
      BY <1>3, <2>2 DEF SeeAnswer
    <3>4. a.id \in Previews /\ asked[a.id].turn = t
          /\ (Kind[a.id] = "plan" => a.plan \in Plans /\ asked[a.id].plan = a.plan)
      BY <2>1, <3>2 DEF Typed, AgentPlaced
    <3> HIDE DEF a
    <3>5. agent' \in [Turns -> Agent] /\ AgentPlaced' /\ TakePlaced'
      BY <1>0, <3>2, <3>3, <3>4, AgentMoves
    <3> QED BY <1>3, <1>r, <3>5 DEF SeeAnswer, Typed, TypeOK, GatePlaced
  <2>3. CASE answer[p] = NoAnswer
    <3>1. AgentGoto(t, "preview?")
      BY <1>3, <2>3 DEF SeeAnswer
    <3>2. agent' \in [Turns -> Agent] /\ AgentPlaced' /\ TakePlaced'
      BY <1>0, <2>1, <3>1, AgentGoesOn DEF AgentPcs, WaitPcs
    <3> QED BY <1>3, <1>r, <3>2 DEF SeeAnswer, Typed, TypeOK, GatePlaced
  <2> QED BY <2>2, <2>3
<1>4. CASE TakeAnswer(t)
  <2>1. Busy(t) /\ agent[t].got \in Answer /\ Returns(t, agent[t].got.act, agent[t].got)
    BY <1>4 DEF TakeAnswer, At, Busy, Typed, TakePlaced
  <2>2. agent[t].got.act \in Outcomes
    BY <2>1 DEF Answer, Outcomes
  <2>3. answer' \in [Previews -> Answer \cup {NoAnswer}]
    BY <1>4 DEF TakeAnswer, Typed, TypeOK
  <2> HIDE DEF p
  <2> QED BY <1>4, <1>0, <1>r, <2>1, <2>2, <2>3, ReturnsTyped
          DEF TakeAnswer, Typed, TypeOK, Outcomes
<1>5. CASE SeePreview(t)
  <2>1. Busy(t)
    BY <1>5 DEF SeePreview, At, Busy
  <2>2. CASE Returns(t, "gone", NoAnswer)
    BY <1>5, <1>0, <1>r, <2>1, <2>2, ReturnsTyped DEF SeePreview, Typed, TypeOK, Outcomes
  <2>3. ASSUME NEW l \in {"stop?", "unlist_plan", "reread"}, AgentGoto(t, l),
               UNCHANGED <<chat, gate, cache, req, history>>
        PROVE  Typed'
    <3>1. agent' \in [Turns -> Agent] /\ AgentPlaced' /\ TakePlaced'
      BY <1>0, <2>1, <2>3, AgentGoesOn DEF AgentPcs, WaitPcs
    <3> QED BY <1>5, <1>r, <2>3, <3>1 DEF SeePreview, Typed, TypeOK, GatePlaced
  <2> QED BY <1>5, <2>2, <2>3 DEF SeePreview
<1>6. CASE Reread(t)
  <2>1. Busy(t)
    BY <1>6 DEF Reread, At, Busy
  <2>2. PICK l \in {"unlist_kuncode", "auto_confirm"} : AgentGoto(t, l)
    BY <1>6 DEF Reread
  <2>3. agent' \in [Turns -> Agent] /\ AgentPlaced' /\ TakePlaced'
    BY <1>0, <2>1, <2>2, AgentGoesOn DEF AgentPcs, WaitPcs
  <2> QED BY <1>6, <1>r, <2>3 DEF Reread, Typed, TypeOK, GatePlaced
<1>7. CASE AutoConfirm(t)
  <2>1. AgentGoto(t, "unlist_kuncode") /\ Busy(t)
    BY <1>7 DEF AutoConfirm, At, Busy
  <2>2. agent' \in [Turns -> Agent] /\ AgentPlaced' /\ TakePlaced'
    BY <1>7, <2>1, AgentGoesOn DEF AutoConfirm, AgentPcs, WaitPcs
  <2>3. preview' \in [Previews -> Statuses]
    BY <1>7 DEF AutoConfirm, Write, Statuses, Typed, TypeOK
  <2> QED BY <1>7, <1>r, <2>2, <2>3 DEF AutoConfirm, Typed, TypeOK, GatePlaced
<1>8. CASE GoAhead(t)
  <2>1. Busy(t) /\ Returns(t, "auto_confirm", NoAnswer)
    BY <1>8 DEF GoAhead, At, Busy
  <2>2. pending' \in [Kinds -> Previews \cup {None}]
    BY <1>8 DEF GoAhead, Unlist, Typed, TypeOK
  <2> QED BY <1>8, <1>0, <1>r, <2>1, <2>2, ReturnsTyped DEF GoAhead, Typed, TypeOK, Outcomes
<1>9. CASE UnlistPlan(t)
  <2>1. AgentGoto(t, "expire") /\ Busy(t)
    BY <1>9 DEF UnlistPlan, At, Busy
  <2>2. agent' \in [Turns -> Agent] /\ AgentPlaced' /\ TakePlaced'
    BY <1>9, <2>1, AgentGoesOn DEF UnlistPlan, AgentPcs, WaitPcs
  <2>3. pending' \in [Kinds -> Previews \cup {None}]
    BY <1>9 DEF UnlistPlan, Unlist, Typed, TypeOK
  <2> QED BY <1>9, <1>r, <2>2, <2>3 DEF UnlistPlan, Typed, TypeOK, GatePlaced
<1>10. CASE Expire(t)
  <2>1. Busy(t) /\ Returns(t, "timeout", NoAnswer)
    BY <1>10 DEF Expire, At, Busy
  <2>2. preview' \in [Previews -> Statuses]
    BY <1>10 DEF Expire, Write, Statuses, Typed, TypeOK
  <2> QED BY <1>10, <1>0, <1>r, <2>1, <2>2, ReturnsTyped DEF Expire, Typed, TypeOK, Outcomes
<1> QED BY <1>1, <1>2, <1>3, <1>4, <1>5, <1>6, <1>7, <1>8, <1>9, <1>10 DEF AgentStep

\* Creating a preview keeps the state typed: its id is new.
LEMMA AskTyped ==
  ASSUME Typed, NEW t \in Turns, NEW p \in Previews, NEW c \in Plans \cup {None},
         Kind[p] = "plan" => c \in Plans, Ask(t, p, c)
  PROVE  /\ agent' \in [Turns -> Agent] /\ AgentPlaced' /\ TakePlaced'
         /\ asked' \in [Previews -> [turn : Turns \cup {None}, plan : Plans \cup {None}]]
         /\ preview' \in [Previews -> Statuses]
<1> DEFINE a == [NoAgent EXCEPT !.pc = "show", !.id = p, !.plan = c]
<1>1. a \in Agent /\ a.pc = "show" /\ a.id = p /\ a.plan = c
  BY DEF Agent, NoAgent, NoAnswer, AgentPcs
<1>2. AgentTo(t, a) /\ asked[p].turn = None
      /\ asked' = [asked EXCEPT ![p] = [turn |-> t, plan |-> c]]
  BY DEF Ask
<1> HIDE DEF a
<1>3. agent' \in [Turns -> Agent] /\ \A u \in Turns : agent'[u] = IF u = t THEN a ELSE agent[u]
  BY <1>1, <1>2 DEF Typed, TypeOK, AgentTo
<1>4. /\ asked' \in [Previews -> [turn : Turns \cup {None}, plan : Plans \cup {None}]]
      /\ \A q \in Previews : asked'[q] = IF q = p THEN [turn |-> t, plan |-> c] ELSE asked[q]
  BY <1>2 DEF Typed, TypeOK
<1>5. preview' \in [Previews -> Statuses]
  BY DEF Ask, Write, Statuses, Typed, TypeOK
<1>6. AgentPlaced'
  <2> SUFFICES ASSUME NEW u \in Turns, Busy(u)'
               PROVE  /\ agent'[u].id \in Previews /\ asked'[agent'[u].id].turn = u
                      /\ Kind[agent'[u].id] = "plan" =>
                            /\ agent'[u].plan \in Plans
                            /\ asked'[agent'[u].id].plan = agent'[u].plan
    BY DEF AgentPlaced
  <2>1. CASE u = t
    BY <1>1, <1>3, <1>4, <2>1
  <2>2. CASE u # t
    <3>1. Busy(u) /\ agent'[u] = agent[u]
      BY <1>3, <2>2 DEF Busy
    <3>2. agent[u].id # p
      BY <1>2, <3>1 DEF Typed, AgentPlaced
    <3> QED BY <1>4, <3>1, <3>2 DEF Typed, AgentPlaced
  <2> QED BY <2>1, <2>2
<1>7. TakePlaced'
  BY <1>1, <1>3 DEF Typed, TakePlaced
<1> QED BY <1>3, <1>4, <1>5, <1>6, <1>7

\* Every tool the model calls keeps the state typed.
LEMMA ModelStepTyped ==
  ASSUME Typed, NEW t \in Turns, ModelStep(t)
  PROVE  Typed'
<1>r. ReqPlaced'
  BY DEF Typed, ReqPlaced, ModelStep, AskPlan, AskPlanAgain, CreatePlan, AskPrompt
<1>1. ASSUME NEW c \in Plans, AskPlan(t, c) PROVE Typed'
  <2>1. PICK q \in Previews : Ask(t, q, c)
    BY <1>1 DEF AskPlan
  <2>2. gate' \in [Turns -> Gate] /\ GatePlaced'
    BY <1>1 DEF AskPlan, Gate, NewGate, Typed, TypeOK, GatePlaced
  <2> QED BY <1>1, <1>r, <2>1, <2>2, AskTyped DEF AskPlan, Typed, TypeOK
<1>2. ASSUME NEW c \in Plans, AskPlanAgain(t, c) PROVE Typed'
  <2>1. cache[t][c].plan \in Plans \cup {None}
    BY DEF Typed, TypeOK, Replies
  <2>2. agent' \in [Turns -> Agent] /\ AgentPlaced' /\ TakePlaced'
    BY <1>2, <2>1, AgentThinks DEF AskPlanAgain
  <2> QED BY <1>2, <1>r, <2>2 DEF AskPlanAgain, Typed, TypeOK, GatePlaced
<1>3. ASSUME NEW c \in Plans, CreatePlan(t, c) PROVE Typed'
  <2>1. agent' \in [Turns -> Agent] /\ AgentPlaced' /\ TakePlaced'
    BY <1>3, AgentThinks DEF CreatePlan
  <2>2. gate' \in [Turns -> Gate] /\ GatePlaced' /\ made' \in [Previews -> Seq(Plans)]
    <3>1. CASE ~Consents(gate[t], c)
      BY <1>3, <3>1 DEF CreatePlan, Typed, TypeOK, GatePlaced
    <3>2. CASE Consents(gate[t], c)
      <4>1. gate[t].plan = c /\ gate[t].id \in Previews /\ gate[t] \in Gate
        BY <3>2 DEF Consents, Typed, TypeOK, GatePlaced
      <4>2. Consumed(gate[t]) \in Gate /\ Consumed(gate[t]).plan = None
        BY <4>1 DEF Consumed, Gate
      <4>3. /\ gate' = [gate EXCEPT ![t] = Consumed(gate[t])]
            /\ made' = [made EXCEPT ![gate[t].id] = Append(made[gate[t].id], c)]
        BY <1>3, <3>2 DEF CreatePlan
      <4>4. gate' \in [Turns -> Gate] /\ GatePlaced'
        BY <4>2, <4>3 DEF Typed, TypeOK, GatePlaced
      <4>5. made[gate[t].id] \in Seq(Plans)
        BY <4>1 DEF Typed, TypeOK
      <4>6. Append(made[gate[t].id], c) \in Seq(Plans)
        BY <4>5
      <4> QED BY <4>3, <4>4, <4>6 DEF Typed, TypeOK
    <3> QED BY <3>1, <3>2
  <2> QED BY <1>3, <1>r, <2>1, <2>2 DEF CreatePlan, Typed, TypeOK
<1>4. CASE AskPrompt(t)
  <2>1. PICK q \in Previews : Kind[q] = "kuncode" /\ Ask(t, q, None)
    BY <1>4 DEF AskPrompt
  <2> QED BY <1>4, <1>r, <2>1, AskTyped DEF AskPrompt, Typed, TypeOK, GatePlaced
<1> QED BY <1>1, <1>2, <1>3, <1>4 DEF ModelStep

\* Every step of a chat loop keeps the state typed.
LEMMA ChatStepTyped ==
  ASSUME Typed, NEW t \in Turns, ChatStep(t)
  PROVE  Typed'
<1>r. ReqPlaced' /\ GatePlaced'
  BY DEF Typed, ReqPlaced, GatePlaced, ChatStep, StartTurn, FinishTurn, SeeInterrupt,
         SeeCancelledPlan, CleanTurn, FailTurn, StopAgent
<1>1. CASE StartTurn(t)
  <2>1. agent' \in [Turns -> Agent] /\ AgentPlaced' /\ TakePlaced'
    BY <1>1, AgentThinks DEF StartTurn
  <2> QED BY <1>1, <1>r, <2>1 DEF StartTurn, ChatTo, ChatPcs, Typed, TypeOK
<1>2. CASE FinishTurn(t)
  <2>1. agent' \in [Turns -> Agent] /\ AgentPlaced' /\ TakePlaced'
    BY <1>2, AgentStops DEF FinishTurn
  <2> QED BY <1>2, <1>r, <2>1 DEF FinishTurn, ChatTo, ChatPcs, Typed, TypeOK
<1>3. CASE StopAgent(t)
  <2>1. agent' \in [Turns -> Agent] /\ AgentPlaced' /\ TakePlaced'
    BY <1>3, AgentStops DEF StopAgent
  <2> QED BY <1>3, <1>r, <2>1 DEF StopAgent, Typed, TypeOK
<1>4. CASE SeeInterrupt(t) \/ SeeCancelledPlan(t) \/ FailTurn(t)
  <2>1. AgentPlaced' /\ TakePlaced'
    BY <1>4 DEF SeeInterrupt, SeeCancelledPlan, FailTurn, Typed, AgentPlaced, TakePlaced, Busy
  <2> QED BY <1>4, <1>r, <2>1 DEF SeeInterrupt, SeeCancelledPlan, FailTurn, ChatTo, ChatPcs,
                                Typed, TypeOK
<1>5. CASE CleanTurn(t)
  <2>1. AgentPlaced' /\ TakePlaced'
    BY <1>5 DEF CleanTurn, Typed, AgentPlaced, TakePlaced, Busy
  <2>2. pending' \in [Kinds -> Previews \cup {None}] /\ preview' \in [Previews -> Statuses]
    BY <1>5 DEF CleanTurn, CleanKeys, Unlist, Statuses, Typed, TypeOK
  <2>3. chat' \in [Turns -> ChatPcs]
    BY <1>5 DEF CleanTurn, ChatTo, AfterClean, ChatPcs, Typed, TypeOK
  <2> QED BY <1>5, <1>r, <2>1, <2>2, <2>3 DEF CleanTurn, Typed, TypeOK
<1> QED BY <1>1, <1>2, <1>3, <1>4, <1>5 DEF ChatStep

\* A request may move on to any record that is itself well placed.
LEMMA ReqMoves ==
  ASSUME Typed, NEW c \in Clients, NEW r \in Req, ReqTo(c, r),
         r.pc \in {"listed?", "pending?", "set_status", "set_answer"} => r.op = "answer",
         r.op = "answer" => r.id \in Previews /\ r.ans \in Answer,
         r.pc \in {"read", "write"} => r.id \in Previews
  PROVE  req' \in [Clients -> Req] /\ ReqPlaced'
<1>1. req' \in [Clients -> Req] /\ \A d \in Clients : req'[d] = IF d = c THEN r ELSE req[d]
  BY DEF Typed, TypeOK, ReqTo
<1>2. ReqPlaced'
  BY <1>1 DEF Typed, ReqPlaced
<1> QED BY <1>1, <1>2

\* In particular on to another place, or to its end.
LEMMA ReqGoesOn ==
  ASSUME Typed, NEW c \in Clients, NEW l \in ReqPcs, ReqGoto(c, l),
         l \in {"listed?", "pending?", "set_status", "set_answer"} => req[c].op = "answer",
         l \in {"read", "write"} => req[c].id \in Previews
  PROVE  req' \in [Clients -> Req] /\ ReqPlaced'
<1> DEFINE r == [req[c] EXCEPT !.pc = l]
<1>1. req[c] \in Req
  BY DEF Typed, TypeOK
<1>2. r \in Req /\ r.pc = l /\ r.op = req[c].op /\ r.id = req[c].id /\ r.ans = req[c].ans
  BY <1>1 DEF Req
<1>3. ReqTo(c, r)
  BY DEF ReqGoto
<1>4. req[c].op = "answer" => req[c].id \in Previews /\ req[c].ans \in Answer
  BY DEF Typed, ReqPlaced
<1> HIDE DEF r
<1> QED BY <1>2, <1>3, <1>4, ReqMoves

\* A request that has its reply is forgotten.
LEMMA ReqEnds ==
  ASSUME Typed, NEW c \in Clients, Reply(c)
  PROVE  req' \in [Clients -> Req] /\ ReqPlaced'
<1>1. NoReq \in Req /\ NoReq.pc = "idle" /\ NoReq.op = "none"
  BY DEF NoReq, Req, ReqPcs, NoAnswer
<1> QED BY <1>1, ReqMoves DEF Reply

\* A request that begins has nothing to remember.
LEMMA ReqBegins ==
  ASSUME Typed, NEW c \in Clients, NEW op \in Operations \ {"answer"},
         NEW l \in {"find_kuncode", "find_plan", "clean_kuncode"}, Request(c, op, l)
  PROVE  req' \in [Clients -> Req] /\ ReqPlaced'
<1> DEFINE r == [NoReq EXCEPT !.pc = l, !.op = op]
<1>1. r \in Req /\ r.pc = l /\ r.op = op
  BY DEF NoReq, Req, ReqPcs, NoAnswer
<1>2. ReqTo(c, r)
  BY DEF Request
<1> HIDE DEF r
<1> QED BY <1>1, <1>2, ReqMoves

\* Every step of a request keeps the state typed.
LEMMA ClientTyped ==
  ASSUME Typed, NEW c \in Clients, ClientStart(c) \/ ClientStep(c)
  PROVE  Typed'
<1> DEFINE p == req[c].id
<1>1. ASSUME NEW q \in Previews, NEW ans \in AnswersTo(q), StartAnswer(c, q, ans)
      PROVE  Typed'
  <2> DEFINE r == [pc |-> IF Kind[q] = "plan" THEN "listed?" ELSE "pending?",
                   op |-> "answer", id |-> q, ans |-> ans]
  <2>1. ans \in Answer
    BY DEF AnswersTo, Answer
  <2>2. r \in Req /\ r.id = q /\ r.ans = ans /\ r.pc \notin {"read", "write"} /\ r.op = "answer"
    BY <2>1 DEF Req, ReqPcs, Operations
  <2>3. ReqTo(c, r) /\ UNCHANGED <<agent, gate, asked>> /\ lock' \subseteq Previews
    BY <1>1 DEF StartAnswer, AcquireLock, Typed, TypeOK
  <2> HIDE DEF r
  <2>4. req' \in [Clients -> Req] /\ ReqPlaced'
    BY <2>1, <2>2, <2>3, ReqMoves
  <2>5. AgentPlaced' /\ TakePlaced' /\ GatePlaced'
    BY <2>3 DEF Typed, AgentPlaced, TakePlaced, GatePlaced, Busy
  <2> QED BY <1>1, <2>3, <2>4, <2>5 DEF StartAnswer, Typed, TypeOK
<1>2. ASSUME UNCHANGED <<agent, gate, asked>> PROVE AgentPlaced' /\ TakePlaced' /\ GatePlaced'
  BY <1>2 DEF Typed, AgentPlaced, TakePlaced, GatePlaced, Busy
<1>3. ASSUME NEW op \in Requests, StartLook(c, op) PROVE Typed'
  <2>1. req' \in [Clients -> Req] /\ ReqPlaced'
    BY <1>3, ReqBegins DEF StartLook, Operations
  <2> QED BY <1>2, <1>3, <2>1 DEF StartLook, Typed, TypeOK
<1>4. CASE StartInterrupt(c)
  <2>1. req' \in [Clients -> Req] /\ ReqPlaced'
    BY <1>4, ReqBegins DEF StartInterrupt, Operations
  <2>2. NoAgent \in Agent /\ NoAgent.pc = "off"
    BY DEF NoAgent, NoAnswer, Agent, AgentPcs
  <2>3. PICK here \in SUBSET {t \in Turns : chat[t] = "live"} :
            agent' = [t \in Turns |-> IF t \in here THEN NoAgent ELSE agent[t]]
    BY <1>4 DEF StartInterrupt
  <2>4. agent' \in [Turns -> Agent]
        /\ \A t \in Turns : agent'[t] = NoAgent \/ agent'[t] = agent[t]
    BY <2>2, <2>3 DEF Typed, TypeOK
  <2>5. AgentPlaced' /\ TakePlaced' /\ GatePlaced'
    BY <1>4, <2>2, <2>4 DEF StartInterrupt, Typed, AgentPlaced, TakePlaced, GatePlaced, Busy
  <2> QED BY <1>4, <2>1, <2>4, <2>5 DEF StartInterrupt, Typed, TypeOK
<1>5. CASE CheckListed(c)
  <2>1. req' \in [Clients -> Req] /\ ReqPlaced'
    <3>1. CASE IsListed(p)
      <4>1. ReqGoto(c, "pending?") /\ req[c].op = "answer"
        BY <1>5, <3>1 DEF CheckListed, Typed, ReqPlaced
      <4> QED BY <4>1, ReqGoesOn DEF ReqPcs
    <3>2. CASE ~IsListed(p)
      BY <1>5, <3>2, ReqEnds DEF CheckListed
    <3> QED BY <3>1, <3>2
  <2> QED BY <1>2, <1>5, <2>1 DEF CheckListed, Typed, TypeOK
<1>6. CASE CheckPending(c)
  <2>1. req' \in [Clients -> Req] /\ ReqPlaced'
    <3>1. CASE preview[p] = "pending"
      <4>1. PICK l \in {"set_answer", "set_status"} : ReqGoto(c, l)
        BY <1>6, <3>1 DEF CheckPending
      <4>2. req[c].op = "answer"
        BY <1>6 DEF CheckPending, Typed, ReqPlaced
      <4> QED BY <4>1, <4>2, ReqGoesOn DEF ReqPcs
    <3>2. CASE preview[p] # "pending"
      BY <1>6, <3>2, ReqEnds DEF CheckPending
    <3> QED BY <3>1, <3>2
  <2> QED BY <1>2, <1>6, <2>1 DEF CheckPending, Typed, TypeOK
<1>7. CASE SetStatus(c)
  <2>1. req' \in [Clients -> Req] /\ ReqPlaced'
    <3>1. CASE Kind[p] # "plan"
      <4>1. ReqGoto(c, "set_answer") /\ req[c].op = "answer"
        BY <1>7, <3>1 DEF SetStatus, Typed, ReqPlaced
      <4> QED BY <4>1, ReqGoesOn DEF ReqPcs
    <3>2. CASE Kind[p] = "plan"
      BY <1>7, <3>2, ReqEnds DEF SetStatus
    <3> QED BY <3>1, <3>2
  <2>2. preview' \in [Previews -> Statuses]
    BY <1>7 DEF SetStatus, Write, Statuses, Typed, TypeOK
  <2> QED BY <1>2, <1>7, <2>1, <2>2 DEF SetStatus, Typed, TypeOK
<1>8. CASE SetAnswer(c)
  <2>1. req[c].op = "answer" /\ p \in Previews /\ req[c].ans \in Answer
    BY <1>8 DEF SetAnswer, Typed, ReqPlaced
  <2>2. PICK l \in {"drop_plan", "drop_kuncode"} : ReqGoto(c, l)
    BY <1>8 DEF SetAnswer
  <2>3. req' \in [Clients -> Req] /\ ReqPlaced'
    BY <2>2, ReqGoesOn DEF ReqPcs
  <2>4. answer' \in [Previews -> Answer \cup {NoAnswer}]
    BY <1>8, <2>1 DEF SetAnswer, Typed, TypeOK
  <2>5. accepted' \in [Previews -> SUBSET Answer]
    BY <1>8, <2>1 DEF SetAnswer, Typed, TypeOK
  <2> QED BY <1>2, <1>8, <2>3, <2>4, <2>5 DEF SetAnswer, Typed, TypeOK
<1>9. CASE DropKuncode(c)
  <2>1. req' \in [Clients -> Req] /\ ReqPlaced'
    BY <1>9, ReqGoesOn DEF DropKuncode, ReqPcs
  <2>2. pending' \in [Kinds -> Previews \cup {None}]
    BY <1>9 DEF DropKuncode, Unlist, Typed, TypeOK
  <2> QED BY <1>2, <1>9, <2>1, <2>2 DEF DropKuncode, Typed, TypeOK
<1>10. CASE DropPlan(c)
  <2>1. req' \in [Clients -> Req] /\ ReqPlaced'
    <3>1. CASE req[c].op = "answer" /\ Kind[p] = "plan"
      <4>1. ReqGoto(c, "set_status")
        BY <1>10, <3>1 DEF DropPlan
      <4> QED BY <3>1, <4>1, ReqGoesOn DEF ReqPcs
    <3>2. CASE ~(req[c].op = "answer" /\ Kind[p] = "plan")
      <4>1. Reply(c)
        BY <1>10, <3>2 DEF DropPlan
      <4> QED BY <4>1, ReqEnds
    <3> QED BY <3>1, <3>2
  <2>2. pending' \in [Kinds -> Previews \cup {None}]
    BY <1>10 DEF DropPlan, Unlist, Typed, TypeOK
  <2> QED BY <1>2, <1>10, <2>1, <2>2 DEF DropPlan, Typed, TypeOK
<1>11. CASE Find(c)
  <2>1. req' \in [Clients -> Req] /\ ReqPlaced'
    <3>1. ASSUME NEW k \in Kinds, pending[k] # None,
                 ReqTo(c, [req[c] EXCEPT !.pc = "read", !.id = pending[k]])
          PROVE  req' \in [Clients -> Req] /\ ReqPlaced'
      <4> DEFINE r == [req[c] EXCEPT !.pc = "read", !.id = pending[k]]
      <4>1. req[c] \in Req /\ pending[k] \in Previews
        BY <3>1 DEF Typed, TypeOK
      <4>2. r \in Req /\ r.pc = "read" /\ r.id = pending[k]
            /\ r.op = req[c].op /\ r.ans = req[c].ans
        BY <4>1 DEF Req, ReqPcs
      <4>3. r.op = "answer" => r.ans \in Answer
        BY <4>2 DEF Typed, ReqPlaced
      <4>4. ReqTo(c, r)
        BY <3>1
      <4> HIDE DEF r
      <4> QED BY <4>1, <4>2, <4>3, <4>4, ReqMoves
    <3>2. CASE ReqGoto(c, "find_plan")
      BY <3>2, ReqGoesOn DEF ReqPcs
    <3>3. CASE Reply(c)
      BY <3>3, ReqEnds
    <3> QED BY <1>11, <3>1, <3>2, <3>3 DEF Find
  <2> QED BY <1>2, <1>11, <2>1 DEF Find, Typed, TypeOK
<1>12. CASE Look(c)
  <2>1. p \in Previews
    BY <1>12 DEF Look, Typed, ReqPlaced
  <2>2. req' \in [Clients -> Req] /\ ReqPlaced'
    <3>1. ASSUME NEW l \in {"drop_kuncode", "write"}, ReqGoto(c, l)
          PROVE  req' \in [Clients -> Req] /\ ReqPlaced'
      BY <2>1, <3>1, ReqGoesOn DEF ReqPcs
    <3>2. CASE Reply(c)
      BY <3>2, ReqEnds
    <3> QED BY <1>12, <3>1, <3>2 DEF Look
  <2> QED BY <1>2, <1>12, <2>2 DEF Look, Typed, TypeOK
<1>13. CASE WriteBack(c)
  <2>1. req' \in [Clients -> Req] /\ ReqPlaced'
    BY <1>13, ReqEnds DEF WriteBack
  <2>2. preview' \in [Previews -> Statuses]
    BY <1>13 DEF WriteBack, Write, Statuses, Typed, TypeOK
  <2> QED BY <1>2, <1>13, <2>1, <2>2 DEF WriteBack, Typed, TypeOK
<1>14. CASE CleanInterrupted(c)
  <2>1. req' \in [Clients -> Req] /\ ReqPlaced'
    <3>1. req[c].pc \in {"clean_kuncode", "clean_plan", "clean_previews"}
      BY <1>14 DEF CleanInterrupted, CleanKeys
    <3>2. CASE Reply(c)
      BY <3>2, ReqEnds
    <3>3. ASSUME NEW l \in {"clean_plan", "clean_previews"}, ReqGoto(c, l)
          PROVE  req' \in [Clients -> Req] /\ ReqPlaced'
      BY <3>3, ReqGoesOn DEF ReqPcs
    <3> QED BY <1>14, <3>1, <3>2, <3>3 DEF CleanInterrupted, AfterClean
  <2>2. pending' \in [Kinds -> Previews \cup {None}] /\ preview' \in [Previews -> Statuses]
    BY <1>14 DEF CleanInterrupted, CleanKeys, Unlist, Statuses, Typed, TypeOK
  <2> QED BY <1>2, <1>14, <2>1, <2>2 DEF CleanInterrupted, Typed, TypeOK
<1> QED BY <1>1, <1>3, <1>4, <1>5, <1>6, <1>7, <1>8, <1>9, <1>10, <1>11, <1>12, <1>13, <1>14
        DEF ClientStart, ClientStep

\* A step that moves no agent, no request, no gate and creates no preview keeps
\* every local variable where it was.
LEMMA PlacedKept ==
  ASSUME Typed, UNCHANGED <<agent, gate, asked, req>>
  PROVE  AgentPlaced' /\ TakePlaced' /\ ReqPlaced' /\ GatePlaced'
<1>1. AgentPlaced' /\ TakePlaced'
  BY DEF Typed, AgentPlaced, TakePlaced, Busy
<1>2. ReqPlaced' /\ GatePlaced'
  BY DEF Typed, ReqPlaced, GatePlaced
<1> QED BY <1>1, <1>2

\* Every step keeps the state typed.
LEMMA TypedKept == Typed /\ [Next]_vars => Typed'
<1> SUFFICES ASSUME Typed, [Next]_vars PROVE Typed'
  OBVIOUS
<1>1. ASSUME NEW t \in Turns, AgentStep(t) \/ ModelStep(t) \/ ChatStep(t) PROVE Typed'
  BY <1>1, AgentStepTyped, ModelStepTyped, ChatStepTyped
<1>2. ASSUME NEW c \in Clients, ClientStart(c) \/ ClientStep(c) PROVE Typed'
  BY <1>2, ClientTyped
<1>3. CASE (\E p \in Previews : LockLapses(p)) \/ StopLapses
  <2>1. UNCHANGED <<pending, preview, answer, chat, agent, gate, cache, req>> /\ UNCHANGED history
    BY <1>3 DEF LockLapses, StopLapses
  <2>2. lock' \subseteq Previews /\ stop' \in BOOLEAN
    BY <1>3 DEF LockLapses, StopLapses, Typed, TypeOK
  <2>3. TypeOK'
    BY <2>1, <2>2 DEF Typed, TypeOK
  <2>4. AgentPlaced' /\ TakePlaced' /\ ReqPlaced' /\ GatePlaced'
    BY <2>1, PlacedKept
  <2> QED BY <2>3, <2>4 DEF Typed
<1>4. CASE UNCHANGED vars
  <2>1. TypeOK'
    BY <1>4 DEF vars, Typed, TypeOK
  <2>2. AgentPlaced' /\ TakePlaced' /\ ReqPlaced' /\ GatePlaced'
    BY <1>4, PlacedKept DEF vars
  <2> QED BY <2>1, <2>2 DEF Typed
<1> QED BY <1>1, <1>2, <1>3, <1>4 DEF Next

\* Every reachable state is typed, whatever the number of turns, clients,
\* previews and plans.
THEOREM TypeCorrect == Spec => []TypeOK
<1>1. Typed => TypeOK
  BY DEF Typed
<1> QED BY InitTyped, TypedKept, <1>1, PTL DEF Spec

-----------------------------------------------------------------------------
(* Consent                                                                 *)

\* What waits in Redis was accepted from a client, and so was what a waiter took.
AnswersAccepted == \A p \in Previews : answer[p] # NoAnswer => answer[p] \in accepted[p]
TakenAccepted == \A t \in Turns : agent[t].pc = "take" => agent[t].got \in accepted[agent[t].id]

\* While a plan is shown its turn's gate is shut and its consent is not used.
ShownUnused ==
    \A t \in Turns : Busy(t) /\ Kind[agent[t].id] = "plan" =>
        gate[t].plan = None /\ made[agent[t].id] = <<>>

\* An open gate holds the unused consent to a preview of its own turn.
GateHoldsConsent ==
    \A t \in Turns : gate[t].plan # None =>
        /\ asked[gate[t].id].turn = t
        /\ made[gate[t].id] = <<>>
        /\ ConsentTo(gate[t].id, gate[t].plan)

MadeAsked == \A p \in Previews : made[p] # <<>> => asked[p].turn # None

Consent ==
    /\ AnswersAccepted /\ TakenAccepted /\ ShownUnused /\ GateHoldsConsent /\ MadeAsked
    /\ PlanNeedsConsent

\* Nobody has consented to anything yet, and nothing is made.
LEMMA InitConsent == Init => Consent
BY DEF Init, Consent, AnswersAccepted, TakenAccepted, ShownUnused, GateHoldsConsent, MadeAsked,
       PlanNeedsConsent, Busy, NoAgent, NewGate

\* An agent that moves on without taking an answer, thinks or stops carries no
\* consent that it did not carry before.
LEMMA ConsentCarried ==
  ASSUME Consent, UNCHANGED <<answer, accepted, gate, asked, made>>,
         \A t \in Turns :
            \/ agent'[t] = agent[t]
            \/ agent'[t].pc \in {"off", "think"}
            \/ Busy(t) /\ agent'[t].id = agent[t].id /\ agent'[t].pc # "take"
  PROVE  Consent'
<1>1. AnswersAccepted' /\ MadeAsked' /\ GateHoldsConsent' /\ PlanNeedsConsent'
  BY DEF Consent, AnswersAccepted, MadeAsked, GateHoldsConsent, PlanNeedsConsent, ConsentTo
<1>2. TakenAccepted'
  BY DEF Consent, TakenAccepted
<1>3. ShownUnused'
  BY DEF Consent, ShownUnused, Busy
<1> QED BY <1>1, <1>2, <1>3 DEF Consent

\* A step that moves no agent in particular.
LEMMA ConsentKept ==
  ASSUME Consent, UNCHANGED <<answer, accepted, agent, gate, asked, made>>
  PROVE  Consent'
BY ConsentCarried

\* In particular an agent that goes on to another place in its wait,
LEMMA ConsentGoesOn ==
  ASSUME Typed, Consent, NEW t \in Turns, NEW l, l # "take", Busy(t), AgentGoto(t, l),
         UNCHANGED <<answer, accepted, gate, asked, made>>
  PROVE  Consent'
<1>1. agent[t] \in Agent /\ agent' = [agent EXCEPT ![t] = [agent[t] EXCEPT !.pc = l]]
  BY DEF Typed, TypeOK, AgentGoto, AgentTo
<1>2. agent'[t].id = agent[t].id /\ agent'[t].pc = l
  BY <1>1 DEF Agent, Typed, TypeOK
<1>3. \A u \in Turns : u # t => agent'[u] = agent[u]
  BY <1>1 DEF Typed, TypeOK
<1> QED BY <1>2, <1>3, ConsentCarried

\* and one that thinks or stops.
LEMMA ConsentDropped ==
  ASSUME Typed, Consent, NEW t \in Turns, NEW a, a.pc \in {"off", "think"}, AgentTo(t, a),
         UNCHANGED <<answer, accepted, gate, asked, made>>
  PROVE  Consent'
<1>1. agent'[t] = a /\ \A u \in Turns : u # t => agent'[u] = agent[u]
  BY DEF Typed, TypeOK, AgentTo
<1> QED BY <1>1, ConsentCarried

\* A wait that ends opens its gate only with an answer that was accepted.
LEMMA ReturnsKeepsConsent ==
  ASSUME Typed, Consent, NEW t \in Turns, NEW what, NEW ans, Busy(t), Returns(t, what, ans),
         what = "confirm" =>
            ans \in Answer /\ ans.act = "confirm" /\ ans \in accepted[agent[t].id],
         \A q \in Previews : answer'[q] \in {answer[q], NoAnswer}
  PROVE  Consent'
<1> DEFINE p == agent[t].id
<1>0. p \in Previews /\ asked[p].turn = t
      /\ UNCHANGED <<asked, accepted, made>>
  BY DEF Typed, AgentPlaced, Returns
<1>1. PICK d \in Plans \cup {None} : AgentTo(t, Thinking(d))
  <2>1. CASE Kind[p] = "kuncode"
    BY <2>1 DEF Returns
  <2>2. CASE Kind[p] # "kuncode" /\ what = "confirm"
    <3>1. agent[t].plan \in Plans
      BY <1>0, <2>2 DEF Typed, AgentPlaced
    <3>2. Approved(t, ans) \in Plans
      BY <2>2, <3>1 DEF Approved, Answer
    <3> QED BY <2>2, <3>2 DEF Returns
  <2>3. CASE Kind[p] # "kuncode" /\ what # "confirm"
    BY <2>3 DEF Returns
  <2> QED BY <2>1, <2>2, <2>3
<1>2. agent'[t].pc = "think" /\ \A u \in Turns : u # t => agent'[u] = agent[u]
  BY <1>1 DEF Typed, TypeOK, AgentTo, Thinking, NoAgent
<1>3. /\ \A u \in Turns : u # t => gate'[u] = gate[u]
      /\ \/ gate'[t] = gate[t]
         \/ gate'[t].plan = None
         \/ /\ Kind[p] = "plan" /\ what = "confirm"
            /\ gate'[t].id = p /\ gate'[t].plan = Approved(t, ans)
  <2>1. CASE Kind[p] = "kuncode"
    BY <2>1 DEF Returns
  <2>2. CASE Kind[p] # "kuncode" /\ what = "confirm"
    <3>1. gate' = [gate EXCEPT ![t] = [plan |-> Approved(t, ans), id |-> p, cancelled |-> FALSE]]
      BY <2>2 DEF Returns
    <3> QED BY <1>0, <2>2, <3>1 DEF Typed, TypeOK
  <2>3. CASE Kind[p] # "kuncode" /\ what # "confirm"
    <3>1. gate' = [gate EXCEPT ![t] = Cancelled]
      BY <2>3 DEF Returns
    <3> QED BY <3>1 DEF Typed, TypeOK, Cancelled, NewGate
  <2> QED BY <2>1, <2>2, <2>3
<1>4. AnswersAccepted'
  BY <1>0 DEF Consent, AnswersAccepted
<1>5. TakenAccepted' /\ MadeAsked' /\ PlanNeedsConsent'
  BY <1>0, <1>2 DEF Consent, TakenAccepted, MadeAsked, PlanNeedsConsent, ConsentTo
<1>6. ShownUnused'
  BY <1>0, <1>2, <1>3 DEF Consent, ShownUnused, Busy
<1>7. GateHoldsConsent'
  <2> SUFFICES ASSUME NEW u \in Turns, gate'[u].plan # None
               PROVE  /\ asked[gate'[u].id].turn = u /\ made[gate'[u].id] = <<>>
                      /\ ConsentTo(gate'[u].id, gate'[u].plan)
    BY <1>0 DEF GateHoldsConsent, ConsentTo
  <2>1. CASE gate'[u] = gate[u]
    BY <2>1 DEF Consent, GateHoldsConsent
  <2>2. CASE u = t /\ Kind[p] = "plan" /\ what = "confirm" /\ gate'[t].id = p
             /\ gate'[t].plan = Approved(t, ans)
    <3>1. made[p] = <<>>
      BY <2>2 DEF Consent, ShownUnused
    <3>2. ans \in accepted[p] /\ ans = [act |-> "confirm", plan |-> ans.plan]
      BY <2>2 DEF Answer
    <3>3. asked[p].plan = agent[t].plan
      BY <2>2 DEF Typed, AgentPlaced
    <3>4. ConsentTo(p, Approved(t, ans))
      BY <3>2, <3>3 DEF ConsentTo, Approved
    <3> QED BY <1>0, <2>2, <3>1, <3>4
  <2> QED BY <1>3, <2>1, <2>2
<1> QED BY <1>4, <1>5, <1>6, <1>7 DEF Consent

\* Every step of a waiting agent keeps the consent where it belongs.
LEMMA AgentStepConsent ==
  ASSUME Typed, Consent, NEW t \in Turns, AgentStep(t)
  PROVE  Consent'
<1> DEFINE p == agent[t].id
<1>1. CASE Show(t)
  BY <1>1, ConsentGoesOn DEF Show, At, Busy
<1>2. CASE SeeStop(t)
  <2>1. Busy(t) /\ UNCHANGED answer
    BY <1>2 DEF SeeStop, At, Busy
  <2>2. CASE Returns(t, "interrupted", NoAnswer)
    BY <2>1, <2>2, ReturnsKeepsConsent
  <2>3. CASE AgentGoto(t, "answer?") /\ UNCHANGED <<chat, gate, cache, req, history>>
    BY <2>1, <2>3, ConsentGoesOn
  <2> QED BY <1>2, <2>2, <2>3 DEF SeeStop
<1>3. CASE SeeAnswer(t)
  <2>1. Busy(t) /\ UNCHANGED <<answer, accepted, gate, asked, made>>
    BY <1>3 DEF SeeAnswer, At, Busy
  <2>2. CASE answer[p] # NoAnswer
    <3> DEFINE a == [agent[t] EXCEPT !.pc = "take", !.got = answer[p]]
    <3>1. agent[t] \in Agent /\ agent' = [agent EXCEPT ![t] = a]
      BY <1>3, <2>2 DEF SeeAnswer, AgentTo, Typed, TypeOK
    <3>2. p \in Previews /\ answer[p] \in accepted[p]
      BY <2>1, <2>2 DEF Typed, AgentPlaced, Consent, AnswersAccepted
    <3>3. a.id = p /\ a.got = answer[p] /\ a.pc = "take"
      BY <3>1 DEF Agent
    <3> HIDE DEF a
    <3>4. agent'[t] = a /\ \A u \in Turns : u # t => agent'[u] = agent[u]
      BY <3>1 DEF Typed, TypeOK
    <3>5. TakenAccepted'
      BY <2>1, <3>2, <3>3, <3>4 DEF Consent, TakenAccepted
    <3>6. ShownUnused'
      BY <2>1, <3>3, <3>4 DEF Consent, ShownUnused, Busy
    <3>7. AnswersAccepted' /\ MadeAsked' /\ GateHoldsConsent' /\ PlanNeedsConsent'
      BY <2>1 DEF Consent, AnswersAccepted, MadeAsked, GateHoldsConsent, PlanNeedsConsent,
                  ConsentTo
    <3> QED BY <3>5, <3>6, <3>7 DEF Consent
  <2>3. CASE answer[p] = NoAnswer
    <3>1. AgentGoto(t, "preview?")
      BY <1>3, <2>3 DEF SeeAnswer
    <3> QED BY <2>1, <3>1, ConsentGoesOn
  <2> QED BY <2>2, <2>3
<1>4. CASE TakeAnswer(t)
  <2>1. /\ Busy(t) /\ p \in Previews /\ Returns(t, agent[t].got.act, agent[t].got)
        /\ agent[t].got \in Answer /\ agent[t].got \in accepted[p]
    BY <1>4 DEF TakeAnswer, At, Busy, Typed, AgentPlaced, TakePlaced, Consent, TakenAccepted
  <2>2. \A q \in Previews : answer'[q] \in {answer[q], NoAnswer}
    BY <1>4 DEF TakeAnswer, Typed, TypeOK
  <2> QED BY <2>1, <2>2, ReturnsKeepsConsent
<1>5. CASE SeePreview(t)
  <2>1. Busy(t) /\ UNCHANGED answer
    BY <1>5 DEF SeePreview, At, Busy
  <2>2. CASE Returns(t, "gone", NoAnswer)
    BY <2>1, <2>2, ReturnsKeepsConsent
  <2>3. ASSUME NEW l \in {"stop?", "unlist_plan", "reread"}, AgentGoto(t, l),
               UNCHANGED <<chat, gate, cache, req, history>>
        PROVE  Consent'
    BY <2>1, <2>3, ConsentGoesOn
  <2> QED BY <1>5, <2>2, <2>3 DEF SeePreview
<1>6. CASE Reread(t)
  <2>1. PICK l \in {"unlist_kuncode", "auto_confirm"} : AgentGoto(t, l)
    BY <1>6 DEF Reread
  <2> QED BY <1>6, <2>1, ConsentGoesOn DEF Reread, At, Busy
<1>7. CASE AutoConfirm(t)
  BY <1>7, ConsentGoesOn DEF AutoConfirm, At, Busy
<1>8. CASE GoAhead(t)
  BY <1>8, ReturnsKeepsConsent DEF GoAhead, At, Busy
<1>9. CASE UnlistPlan(t)
  BY <1>9, ConsentGoesOn DEF UnlistPlan, At, Busy
<1>10. CASE Expire(t)
  BY <1>10, ReturnsKeepsConsent DEF Expire, At, Busy
<1> QED BY <1>1, <1>2, <1>3, <1>4, <1>5, <1>6, <1>7, <1>8, <1>9, <1>10 DEF AgentStep

\* A new preview has no consent, and asking about a plan shuts the gate.
LEMMA AskConsent ==
  ASSUME Typed, Consent, NEW t \in Turns, NEW p \in Previews, NEW c, Ask(t, p, c),
         UNCHANGED <<answer, accepted, made>>,
         \A u \in Turns : u # t => gate'[u] = gate[u],
         gate'[t].plan = None \/ (Kind[p] # "plan" /\ gate'[t] = gate[t])
  PROVE  Consent'
<1> DEFINE a == [NoAgent EXCEPT !.pc = "show", !.id = p, !.plan = c]
<1>1. /\ asked[p].turn = None /\ a.id = p /\ a.pc = "show"
      /\ agent'[t] = a /\ \A u \in Turns : u # t => agent'[u] = agent[u]
  BY DEF Ask, AgentTo, NoAgent, Typed, TypeOK
<1>2. \A q \in Previews : q # p => asked'[q] = asked[q]
  BY DEF Ask, Typed, TypeOK
<1> HIDE DEF a
<1>3. asked'[p].turn = t
  BY DEF Ask, Typed, TypeOK
<1>4. AnswersAccepted' /\ TakenAccepted'
  BY <1>1 DEF Consent, AnswersAccepted, TakenAccepted
<1>5. ShownUnused'
  <2> SUFFICES ASSUME NEW u \in Turns, Busy(u)', Kind[agent'[u].id] = "plan"
               PROVE  gate'[u].plan = None /\ made[agent'[u].id] = <<>>
    BY DEF ShownUnused
  <2>1. CASE u = t
    BY <1>1, <2>1 DEF Consent, MadeAsked
  <2>2. CASE u # t
    BY <1>1, <2>2 DEF Consent, ShownUnused, Busy
  <2> QED BY <2>1, <2>2
<1>6. MadeAsked' /\ PlanNeedsConsent'
  <2>1. \A q \in Previews : made[q] # <<>> => q # p
    BY <1>1 DEF Consent, MadeAsked
  <2> QED BY <1>2, <2>1 DEF Consent, MadeAsked, PlanNeedsConsent, ConsentTo
<1>7. GateHoldsConsent'
  <2> SUFFICES ASSUME NEW u \in Turns, gate'[u].plan # None
               PROVE  /\ asked'[gate'[u].id].turn = u /\ made[gate'[u].id] = <<>>
                      /\ ConsentTo(gate[u].id, gate[u].plan)'
    BY DEF GateHoldsConsent
  <2>1. gate'[u] = gate[u] /\ gate[u].id \in Previews /\ gate[u].id # p
    BY <1>1 DEF Typed, GatePlaced, Consent, GateHoldsConsent
  <2> QED BY <1>2, <2>1 DEF Consent, GateHoldsConsent, ConsentTo
<1> QED BY <1>4, <1>5, <1>6, <1>7 DEF Consent

\* create_plan uses the consent its gate holds, which no other gate holds.
LEMMA CreateConsent ==
  ASSUME Typed, Consent, NEW t \in Turns, NEW c \in Plans, CreatePlan(t, c)
  PROVE  Consent'
<1>1. Thinking(None).pc = "think" /\ UNCHANGED <<answer, accepted, asked>>
      /\ AgentTo(t, Thinking(None))
  BY DEF CreatePlan, Thinking, NoAgent
<1>2. CASE ~Consents(gate[t], c)
  <2>1. UNCHANGED <<gate, made>>
    BY <1>2 DEF CreatePlan
  <2> QED BY <1>1, <2>1, ConsentDropped
<1>3. CASE Consents(gate[t], c)
  <2> DEFINE p == gate[t].id
  <2>1. /\ p \in Previews /\ gate[t].plan = c /\ c # None
        /\ asked[p].turn = t /\ made[p] = <<>> /\ ConsentTo(p, c)
    BY <1>3 DEF Consents, Typed, GatePlaced, Consent, GateHoldsConsent
  <2>2. /\ gate'[t].plan = None /\ \A u \in Turns : u # t => gate'[u] = gate[u]
    BY <1>3 DEF CreatePlan, Consumed, Typed, TypeOK, Gate
  <2>3. made'[p] = <<c>> /\ \A q \in Previews : q # p => made'[q] = made[q]
    BY <1>3, <2>1 DEF CreatePlan, Typed, TypeOK
  <2>4. /\ agent'[t].pc = "think" /\ \A u \in Turns : u # t => agent'[u] = agent[u]
    BY <1>1 DEF AgentTo, Typed, TypeOK
  <2> HIDE DEF p
  <2>5. AnswersAccepted' /\ TakenAccepted'
    BY <1>1, <2>4 DEF Consent, AnswersAccepted, TakenAccepted
  <2>6. ShownUnused'
    <3> SUFFICES ASSUME NEW u \in Turns, Busy(u)', Kind[agent'[u].id] = "plan"
                 PROVE  gate'[u].plan = None /\ made'[agent'[u].id] = <<>>
      BY DEF ShownUnused
    <3>1. u # t /\ agent'[u] = agent[u] /\ Busy(u)
      BY <2>4 DEF Busy
    <3>2. agent[u].id \in Previews /\ agent[u].id # p
      BY <2>1, <3>1 DEF Typed, AgentPlaced
    <3> QED BY <2>2, <2>3, <3>1, <3>2 DEF Consent, ShownUnused
  <2>7. GateHoldsConsent'
    <3> SUFFICES ASSUME NEW u \in Turns, gate'[u].plan # None
                 PROVE  /\ asked[gate'[u].id].turn = u /\ made'[gate'[u].id] = <<>>
                        /\ ConsentTo(gate'[u].id, gate'[u].plan)
      BY <1>1 DEF GateHoldsConsent, ConsentTo
    <3>1. u # t /\ gate'[u] = gate[u] /\ gate[u].id \in Previews
      BY <2>2 DEF Typed, GatePlaced
    <3>2. gate[u].id # p
      BY <2>1, <3>1 DEF Consent, GateHoldsConsent
    <3> QED BY <2>3, <3>1, <3>2 DEF Consent, GateHoldsConsent
  <2>8. MadeAsked'
    BY <1>1, <2>1, <2>3 DEF Consent, MadeAsked
  <2>9. PlanNeedsConsent'
    <3> SUFFICES ASSUME NEW q \in Previews, made'[q] # <<>>
                 PROVE  Len(made'[q]) = 1 /\ ConsentTo(q, made'[q][1])
      BY <1>1 DEF PlanNeedsConsent, ConsentTo
    <3>1. CASE q = p
      <4>1. Len(<<c>>) = 1 /\ <<c>>[1] = c
        OBVIOUS
      <4> QED BY <2>1, <2>3, <3>1, <4>1
    <3>2. CASE q # p
      BY <2>3, <3>2 DEF Consent, PlanNeedsConsent
    <3> QED BY <3>1, <3>2
  <2> QED BY <2>5, <2>6, <2>7, <2>8, <2>9 DEF Consent
<1> QED BY <1>2, <1>3

\* Every tool call of the model keeps the consent where it belongs.
LEMMA ModelStepConsent ==
  ASSUME Typed, Consent, NEW t \in Turns, ModelStep(t)
  PROVE  Consent'
<1>1. ASSUME NEW c \in Plans, AskPlan(t, c) PROVE Consent'
  <2>1. PICK p \in Previews : Kind[p] = "plan" /\ Ask(t, p, c)
    BY <1>1 DEF AskPlan
  <2>2. gate'[t].plan = None /\ \A u \in Turns : u # t => gate'[u] = gate[u]
    BY <1>1 DEF AskPlan, NewGate, Typed, TypeOK
  <2> QED BY <1>1, <2>1, <2>2, AskConsent DEF AskPlan
<1>2. ASSUME NEW c \in Plans, AskPlanAgain(t, c) PROVE Consent'
  <2> DEFINE a == Thinking(cache[t][c].plan)
  <2>1. a.pc = "think" /\ AgentTo(t, a)
    BY <1>2 DEF AskPlanAgain, Thinking, NoAgent
  <2> HIDE DEF a
  <2> QED BY <1>2, <2>1, ConsentDropped DEF AskPlanAgain
<1>3. ASSUME NEW c \in Plans, CreatePlan(t, c) PROVE Consent'
  BY <1>3, CreateConsent
<1>4. CASE AskPrompt(t)
  <2>1. PICK p \in Previews : Kind[p] = "kuncode" /\ Ask(t, p, None)
    BY <1>4 DEF AskPrompt
  <2> QED BY <1>4, <2>1, AskConsent DEF AskPrompt
<1> QED BY <1>1, <1>2, <1>3, <1>4 DEF ModelStep

\* The chat loop decides when an agent starts and stops, never what it consents to.
LEMMA ChatStepConsent ==
  ASSUME Typed, Consent, NEW t \in Turns, ChatStep(t)
  PROVE  Consent'
<1>1. CASE StartTurn(t)
  <2>1. Thinking(None).pc = "think"
    BY DEF Thinking, NoAgent
  <2> QED BY <1>1, <2>1, ConsentDropped DEF StartTurn
<1>2. CASE FinishTurn(t) \/ StopAgent(t)
  <2>1. NoAgent.pc = "off"
    BY DEF NoAgent
  <2> QED BY <1>2, <2>1, ConsentDropped DEF FinishTurn, StopAgent
<1>3. CASE SeeInterrupt(t) \/ SeeCancelledPlan(t) \/ CleanTurn(t) \/ FailTurn(t)
  BY <1>3, ConsentKept DEF SeeInterrupt, SeeCancelledPlan, CleanTurn, FailTurn
<1> QED BY <1>1, <1>2, <1>3 DEF ChatStep

\* A client's request adds to what was accepted and takes nothing away.
LEMMA ClientConsent ==
  ASSUME Typed, Consent, NEW c \in Clients, ClientStart(c) \/ ClientStep(c)
  PROVE  Consent'
<1>1. CASE SetAnswer(c)
  <2> DEFINE p == req[c].id
  <2>1. req[c].op = "answer" /\ p \in Previews
    BY <1>1 DEF SetAnswer, Typed, ReqPlaced
  <2>2. /\ \A q \in Previews : accepted[q] \subseteq accepted'[q]
        /\ req[c].ans \in accepted'[p]
    BY <1>1, <2>1 DEF SetAnswer, Typed, TypeOK
  <2>3. \A q \in Previews : answer'[q] = IF q = p THEN req[c].ans ELSE answer[q]
    BY <1>1 DEF SetAnswer, Typed, TypeOK
  <2>4. UNCHANGED <<agent, gate, asked, made>>
    BY <1>1 DEF SetAnswer
  <2> HIDE DEF p
  <2>5. AnswersAccepted'
    BY <2>2, <2>3 DEF Consent, AnswersAccepted
  <2>6. TakenAccepted'
    BY <2>2, <2>4 DEF Consent, TakenAccepted, Typed, AgentPlaced, Busy
  <2>7. ShownUnused' /\ MadeAsked'
    BY <2>4 DEF Consent, ShownUnused, MadeAsked, Busy
  <2>8. ASSUME NEW q \in Previews, NEW d, ConsentTo(q, d) PROVE ConsentTo(q, d)'
    BY <2>2, <2>4, <2>8 DEF ConsentTo
  <2>9. GateHoldsConsent'
    BY <2>4, <2>8 DEF Consent, GateHoldsConsent, Typed, GatePlaced
  <2>10. PlanNeedsConsent'
    BY <2>4, <2>8 DEF Consent, PlanNeedsConsent
  <2> QED BY <2>5, <2>6, <2>7, <2>9, <2>10 DEF Consent
<1>2. CASE StartInterrupt(c)
  <2>1. PICK here \in SUBSET {t \in Turns : chat[t] = "live"} :
            agent' = [t \in Turns |-> IF t \in here THEN NoAgent ELSE agent[t]]
    BY <1>2 DEF StartInterrupt
  <2>2. \A t \in Turns : agent'[t] = agent[t] \/ agent'[t].pc \in {"off", "think"}
    BY <2>1 DEF NoAgent
  <2> QED BY <1>2, <2>2, ConsentCarried DEF StartInterrupt
<1>3. ASSUME UNCHANGED <<answer, accepted, agent, gate, asked, made>> PROVE Consent'
  BY <1>3, ConsentKept
<1>4. ClientStart(c) => \/ UNCHANGED <<answer, accepted, agent, gate, asked, made>>
                        \/ StartInterrupt(c)
  BY DEF ClientStart, StartAnswer, StartLook
<1>5. ClientStep(c) => \/ UNCHANGED <<answer, accepted, agent, gate, asked, made>>
                       \/ SetAnswer(c)
  BY DEF ClientStep, CheckListed, CheckPending, SetStatus, DropKuncode, DropPlan, Find, Look,
         WriteBack, CleanInterrupted
<1> QED BY <1>1, <1>2, <1>3, <1>4, <1>5

\* Every step keeps the consent where it belongs.
LEMMA ConsentInductive == Typed /\ Consent /\ [Next]_vars => Consent'
<1> SUFFICES ASSUME Typed, Consent, [Next]_vars PROVE Consent'
  OBVIOUS
<1>1. ASSUME NEW t \in Turns, AgentStep(t) \/ ModelStep(t) \/ ChatStep(t) PROVE Consent'
  BY <1>1, AgentStepConsent, ModelStepConsent, ChatStepConsent
<1>2. ASSUME NEW c \in Clients, ClientStart(c) \/ ClientStep(c) PROVE Consent'
  BY <1>2, ClientConsent
<1>3. CASE (\E p \in Previews : LockLapses(p)) \/ StopLapses \/ UNCHANGED vars
  BY <1>3, ConsentKept DEF LockLapses, StopLapses, vars
<1> QED BY <1>1, <1>2, <1>3 DEF Next

\* create_plan creates only plans a user confirmed, each confirmation once, for
\* any number of turns, clients and previews, with locks that lapse while a
\* request runs, with edits, resets and interrupts in between, with turns that
\* die and with agents that outlive their turn.
THEOREM ConsentIsUsedOnce == Spec => []PlanNeedsConsent
<1>1. Init => Typed /\ Consent
  BY InitTyped, InitConsent
<1>2. Typed /\ Consent /\ [Next]_vars => (Typed /\ Consent)'
  BY TypedKept, ConsentInductive
<1>3. Typed /\ Consent => PlanNeedsConsent
  BY DEF Consent
<1> QED BY <1>1, <1>2, <1>3, PTL DEF Spec

-----------------------------------------------------------------------------
(* Answers                                                                 *)

\* Nothing but the end of a wait tells an outcome, and only TakeAnswer tells
\* "confirm" or "cancel".
LEMMA AuthorKept == Typed /\ Consent /\ AnswerHasAuthor /\ [Next]_vars => AnswerHasAuthor'
<1> SUFFICES ASSUME Typed, Consent, AnswerHasAuthor, [Next]_vars PROVE AnswerHasAuthor'
  OBVIOUS
<1>1. ASSUME UNCHANGED outcome, \A q \in Previews : accepted[q] \subseteq accepted'[q]
      PROVE  AnswerHasAuthor'
  BY <1>1 DEF AnswerHasAuthor
<1>2. ASSUME NEW t \in Turns, NEW what, NEW ans, Busy(t), Returns(t, what, ans),
             what \in {"confirm", "cancel"} => ans \in accepted[agent[t].id] /\ ans.act = what
      PROVE  AnswerHasAuthor'
  <2>1. outcome' = [outcome EXCEPT ![agent[t].id] = what] /\ UNCHANGED accepted
    BY <1>2 DEF Returns
  <2>2. \A q \in Previews : outcome'[q] = IF q = agent[t].id THEN what ELSE outcome[q]
    BY <2>1 DEF Typed, TypeOK
  <2> QED BY <1>2, <2>1, <2>2 DEF AnswerHasAuthor
<1>3. ASSUME NEW t \in Turns, AgentStep(t) PROVE AnswerHasAuthor'
  <2>1. CASE TakeAnswer(t)
    <3>1. /\ Busy(t) /\ Returns(t, agent[t].got.act, agent[t].got)
          /\ agent[t].got \in accepted[agent[t].id]
      BY <2>1 DEF TakeAnswer, At, Busy, Consent, TakenAccepted
    <3> QED BY <1>2, <3>1
  <2>2. CASE \/ SeeStop(t) /\ Returns(t, "interrupted", NoAnswer)
             \/ SeePreview(t) /\ Returns(t, "gone", NoAnswer)
             \/ GoAhead(t) /\ Returns(t, "auto_confirm", NoAnswer)
             \/ Expire(t) /\ Returns(t, "timeout", NoAnswer)
    BY <1>2, <2>2 DEF SeeStop, SeePreview, GoAhead, Expire, At, Busy
  <2>3. CASE UNCHANGED <<outcome, accepted>>
    BY <1>1, <2>3
  <2>4. \/ TakeAnswer(t) \/ UNCHANGED <<outcome, accepted>>
        \/ SeeStop(t) /\ Returns(t, "interrupted", NoAnswer)
        \/ SeePreview(t) /\ Returns(t, "gone", NoAnswer)
        \/ GoAhead(t) /\ Returns(t, "auto_confirm", NoAnswer)
        \/ Expire(t) /\ Returns(t, "timeout", NoAnswer)
    BY <1>3 DEF AgentStep, Show, SeeStop, SeeAnswer, SeePreview, Reread, AutoConfirm, GoAhead,
                UnlistPlan, Expire
  <2> QED BY <2>1, <2>2, <2>3, <2>4
<1>4. ASSUME NEW t \in Turns, ModelStep(t) \/ ChatStep(t) PROVE AnswerHasAuthor'
  BY <1>1, <1>4 DEF ModelStep, ChatStep, AskPlan, AskPlanAgain, CreatePlan, AskPrompt, StartTurn,
                    FinishTurn, SeeInterrupt, SeeCancelledPlan, CleanTurn, FailTurn, StopAgent
<1>5. ASSUME NEW c \in Clients, SetAnswer(c) PROVE AnswerHasAuthor'
  <2>1. UNCHANGED outcome /\ \A q \in Previews : accepted[q] \subseteq accepted'[q]
    BY <1>5 DEF SetAnswer, Typed, TypeOK
  <2> QED BY <1>1, <2>1
<1>6. ASSUME NEW c \in Clients, ClientStart(c) \/ ClientStep(c), ~SetAnswer(c)
      PROVE  AnswerHasAuthor'
  <2>1. UNCHANGED <<outcome, accepted>>
    BY <1>6 DEF ClientStart, StartAnswer, StartLook, StartInterrupt, ClientStep, CheckListed,
                CheckPending, SetStatus, DropKuncode, DropPlan, Find, Look, WriteBack,
                CleanInterrupted
  <2> QED BY <1>1, <2>1
<1>7. CASE (\E p \in Previews : LockLapses(p)) \/ StopLapses \/ UNCHANGED vars
  BY <1>1, <1>7 DEF LockLapses, StopLapses, vars
<1> QED BY <1>3, <1>4, <1>5, <1>6, <1>7 DEF Next

\* A tool never reports to the model an answer that no client gave to the
\* preview it waited on.
THEOREM AnswersAreAuthored == Spec => []AnswerHasAuthor
<1>1. Init => Typed /\ Consent /\ AnswerHasAuthor
  BY InitTyped, InitConsent DEF Init, AnswerHasAuthor
<1>2. Typed /\ Consent /\ AnswerHasAuthor /\ [Next]_vars => (Typed /\ Consent /\ AnswerHasAuthor)'
  BY TypedKept, ConsentInductive, AuthorKept
<1> QED BY <1>1, <1>2, PTL DEF Spec
-----------------------------------------------------------------------------
(* Decisions                                                               *)

Answers(c, p) == req[c].op = "answer" /\ req[c].id = p

\* Where an answer may be with its lock held: confirm_plan_preview drops one key
\* and confirm_kuncode both.
PlanAnswerPcs == {"listed?", "pending?", "set_answer", "drop_plan", "set_status"}
AnswerPcs == PlanAnswerPcs \cup {"drop_kuncode"}

\* A confirm lock that outlasts its request lets one request at a time answer.
LockGuards ==
    \A c \in Clients, p \in Previews : Answers(c, p) =>
        /\ p \in lock
        /\ \A d \in Clients : Answers(d, p) => d = c
        /\ req[c].pc \in IF Kind[p] = "plan" THEN PlanAnswerPcs ELSE AnswerPcs

\* The agent has not listed p under its pending key yet, so no client knows it.
NotShown(p) ==
    \/ asked[p].turn = None
    \/ \E t \in Turns : agent[t].pc = "show" /\ agent[t].id = p

AnsweredWhenShown ==
    \A p \in Previews : NotShown(p) => accepted[p] = {} /\ \A c \in Clients : ~Answers(c, p)

\* An accepted answer is on its way to drop plan_pending, or p is no longer
\* listed; either way no other request gets past the two checks.
DecidedUnlisted ==
    \A p \in Previews : Kind[p] = "plan" /\ accepted[p] # {} =>
        /\ \A c \in Clients : Answers(c, p) => req[c].pc \in {"listed?", "drop_plan", "set_status"}
        /\ pending["plan"] = p => \E c \in Clients : Answers(c, p) /\ req[c].pc = "drop_plan"

Decided == LockGuards /\ AnsweredWhenShown /\ DecidedUnlisted /\ PlanDecidedOnce

LEMMA InitDecided == Init => Decided
BY DEF Init, Decided, LockGuards, AnsweredWhenShown, DecidedUnlisted, PlanDecidedOnce, Answers,
       NoReq

\* A preview that was shown is never created again, and shown only once.
LEMMA ShownForGood ==
  ASSUME Typed, [Next]_vars, NEW p \in Previews, NotShown(p)'
  PROVE  NotShown(p)
<1>1. ASSUME UNCHANGED asked,
             \A t \in Turns : agent'[t] = agent[t] \/ agent'[t].pc # "show"
      PROVE  NotShown(p)
  BY <1>1 DEF NotShown
<1>2. ASSUME NEW t \in Turns, NEW a, AgentTo(t, a), a.pc # "show", UNCHANGED asked
      PROVE  NotShown(p)
  <2>1. \A u \in Turns : agent'[u] = IF u = t THEN a ELSE agent[u]
    BY <1>2 DEF AgentTo, Typed, TypeOK
  <2> QED BY <1>1, <1>2, <2>1
<1>3. ASSUME NEW t \in Turns, NEW l \in AgentPcs \ {"show"}, AgentGoto(t, l), UNCHANGED asked
      PROVE  NotShown(p)
  <2>1. agent[t] \in Agent
    BY DEF Typed, TypeOK
  <2>2. [agent[t] EXCEPT !.pc = l].pc # "show"
    BY <2>1, <1>3 DEF Agent
  <2> QED BY <1>2, <1>3, <2>2 DEF AgentGoto
<1>4. ASSUME NEW t \in Turns, NEW d, AgentTo(t, Thinking(d)), UNCHANGED asked
      PROVE  NotShown(p)
  BY <1>2, <1>4 DEF Thinking, NoAgent
<1>5. ASSUME NEW t \in Turns, NEW what, NEW ans, Returns(t, what, ans) PROVE NotShown(p)
  BY <1>4, <1>5 DEF Returns
<1>6. ASSUME NEW t \in Turns, AgentStep(t) PROVE NotShown(p)
  <2>1. CASE Show(t) \/ SeeAnswer(t) \/ Reread(t) \/ AutoConfirm(t) \/ UnlistPlan(t)
    <3>1. ASSUME NEW q, AgentTo(t, [agent[t] EXCEPT !.pc = "take", !.got = q]), UNCHANGED asked
          PROVE  NotShown(p)
      <4>1. agent[t] \in Agent
        BY DEF Typed, TypeOK
      <4>2. [agent[t] EXCEPT !.pc = "take", !.got = q].pc # "show"
        BY <4>1 DEF Agent
      <4> QED BY <1>2, <3>1, <4>2
    <3> QED BY <1>3, <2>1, <3>1 DEF Show, SeeAnswer, Reread, AutoConfirm, UnlistPlan, AgentPcs,
                                    WaitPcs
  <2>2. CASE SeeStop(t) \/ TakeAnswer(t) \/ SeePreview(t) \/ GoAhead(t) \/ Expire(t)
    BY <1>3, <1>5, <2>2 DEF SeeStop, TakeAnswer, SeePreview, GoAhead, Expire, AgentPcs, WaitPcs
  <2> QED BY <1>6, <2>1, <2>2 DEF AgentStep
<1>7. ASSUME NEW t \in Turns, NEW q \in Previews, NEW d, Ask(t, q, d) PROVE NotShown(p)
  <2>1. asked[q].turn = None /\ asked' = [asked EXCEPT ![q] = [turn |-> t, plan |-> d]]
    BY <1>7 DEF Ask
  <2>2. \A u \in Turns : u # t => agent'[u] = agent[u]
    BY <1>7 DEF Ask, AgentTo, Typed, TypeOK
  <2>3. agent'[t].id = q
    BY <1>7 DEF Ask, AgentTo, NoAgent, Typed, TypeOK
  <2>4. CASE p = q
    BY <2>1, <2>4 DEF NotShown
  <2>5. CASE p # q
    <3>1. asked'[p] = asked[p]
      BY <2>1, <2>5 DEF Typed, TypeOK
    <3> QED BY <2>2, <2>3, <2>5, <3>1 DEF NotShown
  <2> QED BY <2>4, <2>5
<1>8. ASSUME NEW t \in Turns, ModelStep(t) PROVE NotShown(p)
  BY <1>4, <1>7, <1>8 DEF ModelStep, AskPlan, AskPlanAgain, CreatePlan, AskPrompt
<1>9. ASSUME NEW t \in Turns, ChatStep(t) PROVE NotShown(p)
  <2>1. NoAgent.pc # "show"
    BY DEF NoAgent
  <2> QED BY <1>1, <1>2, <1>4, <1>9, <2>1 DEF ChatStep, StartTurn, FinishTurn, SeeInterrupt,
             SeeCancelledPlan, CleanTurn, FailTurn, StopAgent
<1>10. ASSUME NEW c \in Clients, StartInterrupt(c) PROVE NotShown(p)
  BY <1>1, <1>10 DEF StartInterrupt, NoAgent
<1>11. ASSUME NEW c \in Clients, ClientStart(c) \/ ClientStep(c), ~StartInterrupt(c)
       PROVE  NotShown(p)
  BY <1>1, <1>11 DEF ClientStart, StartAnswer, StartLook, ClientStep, CheckListed, CheckPending,
         SetStatus, SetAnswer, DropKuncode, DropPlan, Find, Look, WriteBack, CleanInterrupted
<1>12. CASE (\E q \in Previews : LockLapses(q)) \/ StopLapses \/ UNCHANGED vars
  BY <1>1, <1>12 DEF LockLapses, StopLapses, vars
<1> QED BY <1>6, <1>8, <1>9, <1>10, <1>11, <1>12 DEF Next

\* A step that moves no answering request and takes no lock from under one, that
\* records no answer and lists only what has none.
LEMMA DecidedKept ==
  ASSUME Typed, Decided, [Next]_vars, UNCHANGED accepted,
         \A c \in Clients : req'[c] = req[c] \/ (req[c].op # "answer" /\ req'[c].op # "answer"),
         \A p \in Previews : p \in lock /\ (\E c \in Clients : Answers(c, p)) => p \in lock',
         \A p \in Previews : pending'["plan"] = p => pending["plan"] = p \/ accepted[p] = {}
  PROVE  Decided'
<1>1. \A c \in Clients, p \in Previews :
         /\ Answers(c, p)' <=> Answers(c, p)
         /\ Answers(c, p) => req'[c] = req[c]
  BY DEF Answers
<1>2. LockGuards'
  BY <1>1 DEF Decided, LockGuards
<1>3. AnsweredWhenShown'
  BY <1>1, ShownForGood DEF Decided, AnsweredWhenShown
<1>4. DecidedUnlisted'
  BY <1>1 DEF Decided, DecidedUnlisted
<1> QED BY <1>2, <1>3, <1>4 DEF Decided, PlanDecidedOnce

\* A confirm lock that is held while its request runs leaves only one at a time.
LEMMA StartAnswerDecided ==
  ASSUME Typed, Decided, [Next]_vars, NEW c \in Clients, NEW p \in Previews, NEW ans,
         StartAnswer(c, p, ans)
  PROVE  Decided'
<1>1. /\ p \notin lock /\ lock' = lock \cup {p} /\ UNCHANGED <<accepted, pending, agent, asked>>
      /\ req[c].pc = "idle" /\ ~NotShown(p)
  BY DEF StartAnswer, AcquireLock, Free, NotShown, At, Typed, TypeOK
<1>2. /\ \A d \in Clients : d # c => req'[d] = req[d]
      /\ req'[c].op = "answer" /\ req'[c].id = p
      /\ req'[c].pc = IF Kind[p] = "plan" THEN "listed?" ELSE "pending?"
  BY DEF StartAnswer, ReqTo, Typed, TypeOK
<1>3. \A d \in Clients : ~Answers(d, p)
  BY <1>1 DEF Decided, LockGuards
<1>4. \A d \in Clients, q \in Previews :
         Answers(d, q)' <=> IF d = c THEN q = p ELSE Answers(d, q)
  BY <1>2 DEF Answers
<1>5. \A q \in Previews : ~Answers(c, q)
  BY <1>1 DEF Decided, LockGuards, PlanAnswerPcs, AnswerPcs
<1>6. LockGuards'
  BY <1>1, <1>2, <1>3, <1>4 DEF Decided, LockGuards, PlanAnswerPcs, AnswerPcs
<1>7. AnsweredWhenShown'
  BY <1>1, <1>4, ShownForGood DEF Decided, AnsweredWhenShown
<1>8. DecidedUnlisted'
  BY <1>1, <1>2, <1>4, <1>5 DEF Decided, DecidedUnlisted
<1> QED BY <1>1, <1>6, <1>7, <1>8 DEF Decided, PlanDecidedOnce

\* An answering request goes on from one place to the next, or ends: the plan it
\* answers may be listed afterwards only if it has no answer, or is about to be
\* dropped by this request.
LEMMA AnswerGoesOn ==
  ASSUME Typed, Decided, [Next]_vars, NEW c \in Clients, NEW l \in AnswerPcs, req[c].op = "answer",
         ReqGoto(c, l), UNCHANGED <<lock, accepted>>,
         \A p \in Previews : pending'["plan"] = p => pending["plan"] = p,
         Kind[req[c].id] = "plan" =>
            /\ l \in PlanAnswerPcs
            /\ accepted[req[c].id] # {} => l \in {"listed?", "drop_plan", "set_status"}
            /\ req[c].pc = "drop_plan" => pending'["plan"] # req[c].id
  PROVE  Decided'
<1> DEFINE p == req[c].id
<1>1. req[c] \in Req /\ p \in Previews
  BY DEF Typed, TypeOK, ReqPlaced
<1>2. /\ \A d \in Clients : d # c => req'[d] = req[d]
      /\ req'[c].op = "answer" /\ req'[c].id = p /\ req'[c].pc = l
  BY <1>1 DEF ReqGoto, ReqTo, Req, Typed, TypeOK
<1>3. \A d \in Clients, q \in Previews : Answers(d, q)' <=> Answers(d, q)
  BY <1>2 DEF Answers
<1>4. Answers(c, p) /\ \A q \in Previews : Answers(c, q) => q = p
  BY DEF Answers
<1> HIDE DEF p
<1>5. LockGuards'
  BY <1>2, <1>3, <1>4 DEF Decided, LockGuards, p
<1>6. AnsweredWhenShown'
  BY <1>3, ShownForGood DEF Decided, AnsweredWhenShown
<1>7. ASSUME NEW q \in Previews, Kind[q] = "plan", accepted[q] # {}
      PROVE  /\ \A d \in Clients : Answers(d, q)' =>
                   req'[d].pc \in {"listed?", "drop_plan", "set_status"}
             /\ pending'["plan"] = q =>
                   \E d \in Clients : Answers(d, q)' /\ req'[d].pc = "drop_plan"
  <2>1. \A d \in Clients : Answers(d, q)' =>
                   req'[d].pc \in {"listed?", "drop_plan", "set_status"}
    BY <1>2, <1>3, <1>4, <1>7 DEF Decided, DecidedUnlisted, p
  <2>2. ASSUME pending'["plan"] = q
        PROVE  \E d \in Clients : Answers(d, q)' /\ req'[d].pc = "drop_plan"
    <3>1. PICK d \in Clients : Answers(d, q) /\ req[d].pc = "drop_plan"
      BY <1>7, <2>2 DEF Decided, DecidedUnlisted
    <3>2. d # c
      BY <1>4, <1>7, <2>2, <3>1 DEF p
    <3> QED BY <1>2, <1>3, <3>1, <3>2
  <2> QED BY <2>1, <2>2
<1>8. DecidedUnlisted'
  BY <1>7 DEF DecidedUnlisted
<1> QED BY <1>5, <1>6, <1>8 DEF Decided, PlanDecidedOnce

\* A request that ends, answering or not, answers no more.
LEMMA AnswerEnds ==
  ASSUME Typed, Decided, [Next]_vars, NEW c \in Clients, Reply(c), UNCHANGED <<lock, accepted>>,
         \A p \in Previews : pending'["plan"] = p => pending["plan"] = p,
         req[c].op = "answer" /\ Kind[req[c].id] = "plan" => req[c].pc # "drop_plan"
  PROVE  Decided'
<1>1. /\ \A d \in Clients : d # c => req'[d] = req[d]
      /\ req'[c].op = "none"
  BY DEF Reply, ReqTo, NoReq, Typed, TypeOK
<1>2. \A d \in Clients, q \in Previews : Answers(d, q)' <=> d # c /\ Answers(d, q)
  BY <1>1 DEF Answers
<1>3. LockGuards'
  BY <1>1, <1>2 DEF Decided, LockGuards
<1>4. AnsweredWhenShown'
  BY <1>2, ShownForGood DEF Decided, AnsweredWhenShown
<1>5. \A q \in Previews : Kind[q] = "plan" => ~(Answers(c, q) /\ req[c].pc = "drop_plan")
  BY DEF Answers
<1>6. DecidedUnlisted'
  BY <1>1, <1>2, <1>5 DEF Decided, DecidedUnlisted
<1> QED BY <1>3, <1>4, <1>6 DEF Decided, PlanDecidedOnce

\* The one step that accepts an answer finds none accepted before.
LEMMA SetAnswerDecided ==
  ASSUME Typed, Decided, [Next]_vars, NEW c \in Clients, SetAnswer(c)
  PROVE  Decided'
<1> DEFINE p == req[c].id
<1>1. req[c] \in Req /\ p \in Previews /\ Answers(c, p) /\ UNCHANGED <<lock, pending>>
  BY DEF SetAnswer, Typed, TypeOK, ReqPlaced, Answers
<1>2. /\ \A d \in Clients : d # c => req'[d] = req[d]
      /\ req'[c].op = "answer" /\ req'[c].id = p
      /\ req'[c].pc = IF Kind[p] = "plan" THEN "drop_plan" ELSE "drop_kuncode"
  BY <1>1 DEF SetAnswer, ReqGoto, ReqTo, Req, Typed, TypeOK, Answers
<1>3. \A q \in Previews : accepted'[q] = IF q = p THEN accepted[p] \cup {req[c].ans} ELSE accepted[q]
  BY <1>1 DEF SetAnswer, Typed, TypeOK
<1>4. Kind[p] = "plan" => accepted[p] = {}
  BY <1>1 DEF SetAnswer, Decided, DecidedUnlisted
<1>5. \A d \in Clients, q \in Previews : Answers(d, q)' <=> Answers(d, q)
  BY <1>1, <1>2 DEF Answers
<1>6. \A q \in Previews : Answers(c, q) => q = p
  BY DEF Answers
<1>7. \A d \in Clients : Answers(d, p) => d = c
  BY <1>1 DEF Decided, LockGuards
<1> HIDE DEF p
<1>8. LockGuards'
  BY <1>1, <1>2, <1>5, <1>6 DEF Decided, LockGuards, PlanAnswerPcs, AnswerPcs
<1>9. AnsweredWhenShown'
  BY <1>1, <1>3, <1>5, ShownForGood DEF Decided, AnsweredWhenShown
<1>10. DecidedUnlisted'
  BY <1>1, <1>2, <1>3, <1>5, <1>6, <1>7 DEF Decided, DecidedUnlisted
<1>11. PlanDecidedOnce'
  BY <1>3, <1>4 DEF Decided, PlanDecidedOnce
<1> QED BY <1>8, <1>9, <1>10, <1>11 DEF Decided

\* Every step decides a plan at most once, provided that a confirmation never
\* outlasts its lock: the 15 s of SET NX EX against a handful of Redis calls.
LEMMA DecidedInductive == ~LockMayLapse /\ Typed /\ Decided /\ [Next]_vars => Decided'
<1> SUFFICES ASSUME ~LockMayLapse, Typed, Decided, [Next]_vars PROVE Decided'
  OBVIOUS
<1>1. ASSUME UNCHANGED <<req, lock, accepted>>,
             \A p \in Previews : pending'["plan"] = p => pending["plan"] = p \/ accepted[p] = {}
      PROVE  Decided'
  BY <1>1, DecidedKept
<1>2. ASSUME NEW t \in Turns, Show(t) PROVE Decided'
  <2> DEFINE q == agent[t].id
  <2>1. q \in Previews /\ NotShown(q) /\ UNCHANGED <<req, lock, accepted>>
    BY <1>2 DEF Show, At, NotShown, Typed, AgentPlaced, Busy
  <2>2. accepted[q] = {}
    BY <2>1 DEF Decided, AnsweredWhenShown
  <2>3. pending'["plan"] \in {pending["plan"], q}
    BY <1>2 DEF Show, Typed, TypeOK
  <2> QED BY <1>1, <2>1, <2>2, <2>3
<1>3. ASSUME NEW k, Unlist(k) PROVE \A p \in Previews : pending'["plan"] = p => pending["plan"] = p
  BY <1>3 DEF Unlist, Typed, TypeOK
<1>4. ASSUME NEW t \in Turns, AgentStep(t) PROVE Decided'
  <2>1. CASE SeeStop(t) \/ SeeAnswer(t) \/ TakeAnswer(t) \/ SeePreview(t) \/ Reread(t)
             \/ AutoConfirm(t) \/ Expire(t)
    <3>1. UNCHANGED <<req, lock, accepted, pending>>
      BY <2>1 DEF SeeStop, SeeAnswer, TakeAnswer, SeePreview, Reread, AutoConfirm, Expire, Returns
    <3> QED BY <1>1, <3>1
  <2>2. CASE GoAhead(t) \/ UnlistPlan(t)
    <3>1. UNCHANGED <<req, lock, accepted>> /\ \E k \in Kinds : Unlist(k)
      BY <2>2 DEF GoAhead, UnlistPlan, Returns
    <3> QED BY <1>1, <1>3, <3>1
  <2> QED BY <1>2, <1>4, <2>1, <2>2 DEF AgentStep
<1>5. ASSUME NEW t \in Turns, ModelStep(t) PROVE Decided'
  <2>1. UNCHANGED <<req, lock, accepted, pending>>
    BY <1>5 DEF ModelStep, AskPlan, AskPlanAgain, CreatePlan, AskPrompt
  <2> QED BY <1>1, <2>1
<1>6. ASSUME NEW step, CleanKeys(step)
      PROVE  \A p \in Previews : pending'["plan"] = p => pending["plan"] = p
  BY <1>3, <1>6 DEF CleanKeys
<1>7. ASSUME NEW t \in Turns, ChatStep(t) PROVE Decided'
  <2>1. CASE CleanTurn(t)
    <3>1. UNCHANGED <<req, lock, accepted>>
      BY <2>1 DEF CleanTurn
    <3> QED BY <1>1, <1>6, <2>1, <3>1 DEF CleanTurn
  <2>2. CASE ~CleanTurn(t)
    <3>1. UNCHANGED <<req, lock, accepted, pending>>
      BY <1>7, <2>2 DEF ChatStep, StartTurn, FinishTurn, SeeInterrupt, SeeCancelledPlan, FailTurn,
                        StopAgent
    <3> QED BY <1>1, <3>1
  <2> QED BY <2>1, <2>2
<1>8. ASSUME NEW c \in Clients, ClientStart(c) PROVE Decided'
  <2>1. ASSUME NEW op, op # "answer", NEW l, Request(c, op, l), req[c].pc = "idle",
               UNCHANGED <<pending, lock, accepted>>
        PROVE  Decided'
    <3>1. \A d \in Clients : req'[d] = IF d = c THEN [NoReq EXCEPT !.pc = l, !.op = op] ELSE req[d]
      BY <2>1 DEF Request, ReqTo, Typed, TypeOK
    <3>2. [NoReq EXCEPT !.pc = l, !.op = op].op = op
      BY DEF NoReq
    <3>3. req[c].op # "answer"
      BY <2>1 DEF Decided, LockGuards, Answers, PlanAnswerPcs, AnswerPcs, Typed, ReqPlaced
    <3> QED BY <2>1, <3>1, <3>2, <3>3, DecidedKept
  <2> QED BY <1>8, <2>1, StartAnswerDecided DEF ClientStart, StartLook, StartInterrupt, Free
<1>9. ASSUME NEW c \in Clients, ClientStep(c), req[c].op = "answer" PROVE Decided'
  <2> DEFINE p == req[c].id
  <2>1. p \in Previews /\ Answers(c, p)
        /\ req[c].pc \in IF Kind[p] = "plan" THEN PlanAnswerPcs ELSE AnswerPcs
    BY <1>9 DEF Typed, ReqPlaced, Answers, Decided, LockGuards
  <2>2. CASE CheckListed(c)
    <3>1. UNCHANGED <<pending, lock, accepted>> /\ req[c].pc = "listed?"
      BY <2>2 DEF CheckListed
    <3>2. CASE IsListed(p) /\ ReqGoto(c, "pending?")
      <4>1. Kind[p] = "plan" => accepted[p] = {}
        BY <1>9, <2>1, <3>1, <3>2 DEF Decided, DecidedUnlisted, LockGuards, IsListed
      <4> QED BY <1>9, <3>1, <3>2, <4>1, AnswerGoesOn DEF PlanAnswerPcs, AnswerPcs
    <3>3. CASE Reply(c)
      BY <3>1, <3>3, AnswerEnds
    <3> QED BY <2>2, <3>2, <3>3 DEF CheckListed
  <2>3. CASE CheckPending(c)
    <3>1. UNCHANGED <<pending, lock, accepted>> /\ req[c].pc = "pending?"
      BY <2>3 DEF CheckPending
    <3>2. Kind[p] = "plan" => accepted[p] = {}
      BY <2>1, <3>1 DEF Decided, DecidedUnlisted
    <3>3. ASSUME ReqGoto(c, IF Kind[p] = "plan" THEN "set_answer" ELSE "set_status")
          PROVE  Decided'
      BY <1>9, <3>1, <3>2, <3>3, AnswerGoesOn DEF PlanAnswerPcs, AnswerPcs
    <3>4. CASE Reply(c)
      BY <3>1, <3>4, AnswerEnds
    <3> QED BY <2>3, <3>3, <3>4 DEF CheckPending
  <2>4. CASE SetStatus(c)
    <3>1. UNCHANGED <<pending, lock, accepted>> /\ req[c].pc = "set_status"
      BY <2>4 DEF SetStatus
    <3>2. CASE Kind[p] = "plan"
      BY <2>4, <3>1, <3>2, AnswerEnds DEF SetStatus
    <3>3. CASE Kind[p] # "plan"
      <4>1. ReqGoto(c, "set_answer")
        BY <2>4, <3>3 DEF SetStatus
      <4> QED BY <1>9, <3>1, <3>3, <4>1, AnswerGoesOn DEF PlanAnswerPcs, AnswerPcs
    <3> QED BY <3>2, <3>3
  <2>5. CASE DropKuncode(c)
    <3>1. UNCHANGED <<lock, accepted>> /\ ReqGoto(c, "drop_plan") /\ Kind[p] # "plan"
      BY <2>1, <2>5 DEF DropKuncode, PlanAnswerPcs
    <3>2. \A q \in Previews : pending'["plan"] = q => pending["plan"] = q
      BY <1>3, <2>5 DEF DropKuncode
    <3> QED BY <1>9, <3>1, <3>2, AnswerGoesOn DEF PlanAnswerPcs, AnswerPcs
  <2>6. CASE DropPlan(c)
    <3>1. UNCHANGED <<lock, accepted>> /\ pending'["plan"] = None
      BY <2>6 DEF DropPlan, Unlist, Typed, TypeOK
    <3>2. \A q \in Previews : pending'["plan"] # q
      BY <3>1
    <3>3. CASE Kind[p] = "plan"
      <4>1. ReqGoto(c, "set_status")
        BY <1>9, <2>6, <3>3 DEF DropPlan
      <4> QED BY <1>9, <2>1, <3>1, <3>2, <3>3, <4>1, AnswerGoesOn DEF PlanAnswerPcs, AnswerPcs
    <3>4. CASE Kind[p] # "plan"
      BY <2>6, <3>1, <3>2, <3>4, AnswerEnds DEF DropPlan
    <3> QED BY <3>3, <3>4
  <2>7. ~Find(c) /\ ~Look(c) /\ ~WriteBack(c) /\ ~CleanInterrupted(c)
    BY <2>1 DEF Find, Look, WriteBack, CleanInterrupted, CleanKeys, PlanAnswerPcs, AnswerPcs
  <2> QED BY <1>9, <2>2, <2>3, <2>4, <2>5, <2>6, <2>7, SetAnswerDecided DEF ClientStep
<1>11. ASSUME NEW c \in Clients, ClientStep(c), req[c].op # "answer" PROVE Decided'
  <2>1. UNCHANGED <<lock, accepted>>
    BY <1>11 DEF ClientStep, CheckListed, CheckPending, SetStatus, SetAnswer, DropKuncode,
                 DropPlan, Find, Look, WriteBack, CleanInterrupted, Typed, ReqPlaced
  <2>2. \A p \in Previews : pending'["plan"] = p => pending["plan"] = p
    BY <1>3, <1>6, <1>11 DEF ClientStep, CheckListed, CheckPending, SetStatus, SetAnswer,
                 DropKuncode, DropPlan, Find, Look, WriteBack, CleanInterrupted
  <2>3. ASSUME NEW r, ReqTo(c, r), r.op # "answer" PROVE Decided'
    <3>1. \A d \in Clients : req'[d] = IF d = c THEN r ELSE req[d]
      BY <2>3 DEF ReqTo, Typed, TypeOK
    <3> QED BY <1>11, <2>1, <2>2, <2>3, <3>1, DecidedKept
  <2>4. req[c] \in Req
    BY DEF Typed, TypeOK
  <2>5. ASSUME NEW l, ReqGoto(c, l) PROVE Decided'
    <3>1. [req[c] EXCEPT !.pc = l].op = req[c].op
      BY <2>4 DEF Req
    <3> QED BY <1>11, <2>3, <2>5, <3>1 DEF ReqGoto
  <2>6. Reply(c) => Decided'
    BY <2>3 DEF Reply, NoReq
  <2>7. ASSUME NEW q, ReqTo(c, [req[c] EXCEPT !.pc = "read", !.id = q]) PROVE Decided'
    <3>1. [req[c] EXCEPT !.pc = "read", !.id = q].op = req[c].op
      BY <2>4 DEF Req
    <3> QED BY <1>11, <2>3, <2>7, <3>1
  <2> QED BY <1>11, <2>5, <2>6, <2>7 DEF ClientStep, CheckListed, CheckPending, SetStatus,
             SetAnswer, DropKuncode, DropPlan, Find, Look, WriteBack, CleanInterrupted
<1>10. CASE (\E p \in Previews : LockLapses(p)) \/ StopLapses \/ UNCHANGED vars
  <2>1. UNCHANGED <<req, pending, accepted>>
        /\ \A p \in Previews : p \in lock /\ (\E c \in Clients : Answers(c, p)) => p \in lock'
    BY <1>10 DEF LockLapses, StopLapses, vars, Answers
  <2> QED BY <2>1, DecidedKept
<1> QED BY <1>4, <1>5, <1>7, <1>8, <1>9, <1>10, <1>11 DEF Next

\* A plan preview is decided once: however many clients click, edit, reset and
\* poll, whatever turns die and whatever agents outlive them, all answers that
\* were accepted for it are the same, as long as no confirmation outlasts the
\* 15 s of its lock.
THEOREM PlansAreDecidedOnce == ~LockMayLapse => (Spec => []PlanDecidedOnce)
<1> SUFFICES ASSUME ~LockMayLapse PROVE Spec => []PlanDecidedOnce
  OBVIOUS
<1>1. Init => Typed /\ Decided
  BY InitTyped, InitDecided
<1>2. Typed /\ Decided /\ [Next]_vars => (Typed /\ Decided)'
  BY TypedKept, DecidedInductive
<1>3. Typed /\ Decided => PlanDecidedOnce
  BY DEF Decided
<1> QED BY <1>1, <1>2, <1>3, PTL DEF Spec
=============================================================================
