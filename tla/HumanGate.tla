------------------------------ MODULE HumanGate ------------------------------
(***************************************************************************)
(* Asking the user: the previews of app/api/kuncode.py, the tools of       *)
(* app/services/agent_service.py that create them and wait for an answer,  *)
(* and the gate that lets the agent create a plan only with consent.       *)
(*                                                                         *)
(* One session.  A turn's chat loop runs beside its agent, which may       *)
(* outlive it; clients answer, edit, poll and interrupt.  Every Redis call *)
(* is a step, so a preview is read in one step and written back in a later *)
(* one by whoever read it.                                                 *)
(***************************************************************************)
EXTENDS Naturals, Sequences

CONSTANTS
    Turns,           \* chat turns of the session, each runs once
    Clients,         \* HTTP requests under way at a time
    Previews,        \* preview ids (uuid4: never reused)
    Kind,            \* Kind[p]: "kuncode" (a prompt or a question) or "plan"
    Plans,           \* plans as the gate tells them apart
    None,            \* "no value"
    Requests,        \* the requests clients may make
    LockMayLapse,    \* a confirmation may outlast the 15 s of its lock
    TurnsMayFail     \* a turn may end by its deadline, an exception or a crash

Operations == {"answer", "reset", "edit", "poll", "interrupt"}

ASSUME GateAssumption ==
    /\ Kind \in [Previews -> {"kuncode", "plan"}]
    /\ None \notin Turns \cup Previews \cup Plans
    /\ Requests \subseteq Operations
    /\ {LockMayLapse, TurnsMayFail} \subseteq BOOLEAN

VARIABLES
    pending,    \* kuncode_pending and plan_pending: the preview shown
    preview,    \* status in kuncode_preview / plan_preview, "absent" if no key
    answer,     \* kuncode_confirm / plan_confirm of each preview
    lock,       \* previews whose confirm lock is set
    stop,       \* agent_interrupt
    chat,       \* the chat loop of each turn
    agent,      \* the agent of each turn
    gate,       \* PlanConfirmationGate of each turn
    cache,      \* resolved_previews of each turn
    req,        \* the request each client has under way
    asked,      \* the turn that created a preview and the plan it proposed
    \* history, read by no action
    accepted,   \* answers for which a client was told success
    outcome,    \* what the waiting tool returned
    made        \* plans created on the consent to a preview

keys == <<pending, preview, answer, lock, stop>>
history == <<asked, accepted, outcome, made>>
vars == <<keys, chat, agent, gate, cache, req, history>>

-----------------------------------------------------------------------------
Kinds == {"kuncode", "plan"}
Statuses == {"absent", "pending", "confirmed", "cancelled", "auto_confirmed", "expired"}

\* An answer; a plan of None is an empty list of subtasks (or a prompt's answer).
Answer == [act : {"confirm", "cancel"}, plan : Plans \cup {None}]
AnswersTo(p) ==
    [act : {"confirm"}, plan : IF Kind[p] = "plan" THEN Plans \cup {None} ELSE {None}]
        \cup [act : {"cancel"}, plan : {None}]
NoAnswer == [act |-> "none", plan |-> None]

ChatPcs == {"new", "live", "clean_kuncode", "clean_plan", "clean_previews", "over"}
WaitPcs == {"stop?", "answer?", "take", "preview?", "reread", "auto_confirm",
            "unlist_kuncode", "unlist_plan", "expire"}
AgentPcs == {"off", "think", "show"} \cup WaitPcs
Agent == [pc : AgentPcs, id : Previews \cup {None}, plan : Plans \cup {None},
          got : Answer \cup {NoAnswer}, told : Plans \cup {None}]
NoAgent == [pc |-> "off", id |-> None, plan |-> None, got |-> NoAnswer, told |-> None]

Gate == [plan : Plans \cup {None}, id : Previews \cup {None}, cancelled : BOOLEAN]
NewGate == [plan |-> None, id |-> None, cancelled |-> FALSE]
Cancelled == [NewGate EXCEPT !.cancelled = TRUE]

\* A cached reply of preview_plan: the confirmed plan, or cancelled.
Replies == [said : {"confirmed"}, plan : Plans]
               \cup {[said |-> s, plan |-> None] : s \in {"nothing", "cancelled"}}
NoReply == [said |-> "nothing", plan |-> None]

ReqPcs == {"idle", "listed?", "pending?", "set_status", "set_answer",
           "drop_kuncode", "drop_plan", "find_kuncode", "find_plan", "read", "write",
           "clean_kuncode", "clean_plan", "clean_previews"}
Req == [pc : ReqPcs, op : Operations \cup {"none"}, id : Previews \cup {None},
        ans : Answer \cup {NoAnswer}]
NoReq == [pc |-> "idle", op |-> "none", id |-> None, ans |-> NoAnswer]

Init ==
    /\ pending = [k \in Kinds |-> None]
    /\ preview = [p \in Previews |-> "absent"]
    /\ answer = [p \in Previews |-> NoAnswer]
    /\ lock = {} /\ stop = FALSE
    /\ chat = [t \in Turns |-> "new"]
    /\ agent = [t \in Turns |-> NoAgent]
    /\ gate = [t \in Turns |-> NewGate]
    /\ cache = [t \in Turns |-> [c \in Plans |-> NoReply]]
    /\ req = [c \in Clients |-> NoReq]
    /\ asked = [p \in Previews |-> [turn |-> None, plan |-> None]]
    /\ accepted = [p \in Previews |-> {}]
    /\ outcome = [p \in Previews |-> "none"]
    /\ made = [p \in Previews |-> <<>>]

-----------------------------------------------------------------------------
(* Redis                                                                   *)

Unlist(k) == pending' = [pending EXCEPT ![k] = None]
Write(p, status) == preview' = [preview EXCEPT ![p] = status]

\* _cleanup_session_pending_state, one key pattern after the other.
CleanKeys(step) ==
    \/ step = "clean_kuncode" /\ Unlist("kuncode") /\ UNCHANGED preview
    \/ step = "clean_plan" /\ Unlist("plan") /\ UNCHANGED preview
    \/ /\ step = "clean_previews"
       /\ preview' = [p \in Previews |-> "absent"]
       /\ UNCHANGED pending

AfterClean(step, last) ==
    CASE step = "clean_kuncode" -> "clean_plan"
      [] step = "clean_plan" -> "clean_previews"
      [] OTHER -> last

-----------------------------------------------------------------------------
(* The agent: its tools preview_plan, create_plan, ask_user and            *)
(* kuncode_prd_update, one at a time                                       *)

AgentTo(t, a) == agent' = [agent EXCEPT ![t] = a]
AgentGoto(t, l) == AgentTo(t, [agent[t] EXCEPT !.pc = l])
At(t, l) == agent[t].pc = l

\* A tool returned and the model reads its reply.
Thinking(told) == [NoAgent EXCEPT !.pc = "think", !.told = told]

Ask(t, p, c) ==
    /\ asked[p].turn = None
    /\ asked' = [asked EXCEPT ![p] = [turn |-> t, plan |-> c]]
    /\ Write(p, "pending")
    /\ AgentTo(t, [NoAgent EXCEPT !.pc = "show", !.id = p, !.plan = c])

\* preview_plan of a plan this turn has not asked about.
AskPlan(t, c) ==
    /\ At(t, "think") /\ cache[t][c] = NoReply
    /\ gate' = [gate EXCEPT ![t] = NewGate]
    /\ \E p \in Previews : Kind[p] = "plan" /\ Ask(t, p, c)
    /\ UNCHANGED <<pending, answer, lock, stop, chat, cache, req,
                   accepted, outcome, made>>

\* preview_plan of a plan already resolved: the cached reply, nothing else.
AskPlanAgain(t, c) ==
    /\ At(t, "think") /\ cache[t][c] # NoReply
    /\ AgentTo(t, Thinking(cache[t][c].plan))
    /\ UNCHANGED <<keys, chat, gate, cache, req, history>>

AskPrompt(t) ==
    /\ At(t, "think")
    /\ \E p \in Previews : Kind[p] = "kuncode" /\ Ask(t, p, None)
    /\ UNCHANGED <<pending, answer, lock, stop, chat, gate, cache, req,
                   accepted, outcome, made>>

Show(t) ==
    /\ At(t, "show")
    /\ pending' = [pending EXCEPT ![Kind[agent[t].id]] = agent[t].id]
    /\ AgentGoto(t, "stop?")
    /\ UNCHANGED <<preview, answer, lock, stop, chat, gate, cache, req, history>>

\* Mutant: the approval survives its use.
ConsumedKept(g) == g

\* PlanConfirmationGate.consume: an approval is used once.
Consumed(g) == [g EXCEPT !.plan = None]

Consents(g, c) == ~g.cancelled /\ g.plan = c

\* create_plan; a plan that does not match the approval is refused.
CreatePlan(t, c) ==
    /\ At(t, "think")
    /\ IF Consents(gate[t], c)
       THEN /\ gate' = [gate EXCEPT ![t] = Consumed(gate[t])]
            /\ made' = [made EXCEPT ![gate[t].id] = Append(made[gate[t].id], c)]
       ELSE UNCHANGED <<gate, made>>
    /\ AgentTo(t, Thinking(None))
    /\ UNCHANGED <<keys, chat, cache, req, asked, accepted, outcome>>

-----------------------------------------------------------------------------
(* wait_for_kuncode_confirm and wait_for_plan_confirm                      *)

\* Mutant: no fallback for an answer without subtasks.
ApprovedAsNamed(t, ans) == ans.plan

\* "subtasks" of the answer, or the plan proposed when it names none.
Approved(t, ans) == IF ans.plan = None THEN agent[t].plan ELSE ans.plan

\* The wait ends, and the tool that waited acts on it.
Returns(t, what, ans) ==
    LET p == agent[t].id IN
    /\ outcome' = [outcome EXCEPT ![p] = what]
    /\ IF Kind[p] = "kuncode"
       THEN UNCHANGED <<gate, cache>> /\ AgentTo(t, Thinking(None))
       ELSE LET d == Approved(t, ans)
                g == IF what = "confirm"
                     THEN [plan |-> d, id |-> p, cancelled |-> FALSE] ELSE Cancelled
                r == IF what = "confirm" THEN [said |-> "confirmed", plan |-> d]
                     ELSE [said |-> "cancelled", plan |-> None]
            IN  /\ gate' = [gate EXCEPT ![t] = g]
                /\ cache' = [cache EXCEPT ![t][agent[t].plan] = r]
                /\ AgentTo(t, Thinking(r.plan))
    /\ UNCHANGED <<chat, req, asked, accepted, made>>

SeeStop(t) ==
    /\ At(t, "stop?")
    /\ IF stop THEN Returns(t, "interrupted", NoAnswer)
       ELSE AgentGoto(t, "answer?") /\ UNCHANGED <<chat, gate, cache, req, history>>
    /\ UNCHANGED keys

\* Mutant: only the preview listed as pending is looked up.
SeeAnswerListed(t) ==
    LET p == agent[t].id IN
    /\ At(t, "answer?")
    /\ IF answer[p] # NoAnswer /\ pending[Kind[p]] = p
       THEN AgentTo(t, [agent[t] EXCEPT !.pc = "take", !.got = answer[p]])
       ELSE AgentGoto(t, "preview?")
    /\ UNCHANGED <<keys, chat, gate, cache, req, history>>

SeeAnswer(t) ==
    LET p == agent[t].id IN
    /\ At(t, "answer?")
    /\ IF answer[p] # NoAnswer
       THEN AgentTo(t, [agent[t] EXCEPT !.pc = "take", !.got = answer[p]])
       ELSE AgentGoto(t, "preview?")
    /\ UNCHANGED <<keys, chat, gate, cache, req, history>>

TakeAnswer(t) ==
    /\ At(t, "take")
    /\ answer' = [answer EXCEPT ![agent[t].id] = NoAnswer]
    /\ Returns(t, agent[t].got.act, agent[t].got)
    /\ UNCHANGED <<pending, preview, lock, stop>>

\* Gone means cancelled; otherwise the time may be up, whatever the status says.
SeePreview(t) ==
    LET p == agent[t].id IN
    /\ At(t, "preview?")
    /\ \/ preview[p] = "absent" /\ Returns(t, "gone", NoAnswer)
       \/ /\ preview[p] # "absent"
          /\ \/ AgentGoto(t, "stop?")
             \/ AgentGoto(t, IF Kind[p] = "plan" THEN "unlist_plan" ELSE "reread")
          /\ UNCHANGED <<chat, gate, cache, req, history>>
    /\ UNCHANGED keys

\* A prompt goes ahead unanswered.
Reread(t) ==
    /\ At(t, "reread")
    /\ AgentGoto(t, IF preview[agent[t].id] = "absent" THEN "unlist_kuncode"
                    ELSE "auto_confirm")
    /\ UNCHANGED <<keys, chat, gate, cache, req, history>>

AutoConfirm(t) ==
    /\ At(t, "auto_confirm")
    /\ Write(agent[t].id, "auto_confirmed")
    /\ AgentGoto(t, "unlist_kuncode")
    /\ UNCHANGED <<pending, answer, lock, stop, chat, gate, cache, req, history>>

GoAhead(t) ==
    /\ At(t, "unlist_kuncode")
    /\ Unlist("kuncode")
    /\ Returns(t, "auto_confirm", NoAnswer)
    /\ UNCHANGED <<preview, answer, lock, stop>>

\* A plan does not.
UnlistPlan(t) ==
    /\ At(t, "unlist_plan")
    /\ Unlist("plan")
    /\ AgentGoto(t, "expire")
    /\ UNCHANGED <<preview, answer, lock, stop, chat, gate, cache, req, history>>

\* Mutant: a plan whose time is up goes ahead as a prompt does.
ExpireGoesAhead(t) ==
    /\ At(t, "expire")
    /\ Write(agent[t].id, "expired")
    /\ Returns(t, "confirm", NoAnswer)
    /\ UNCHANGED <<pending, answer, lock, stop>>

Expire(t) ==
    /\ At(t, "expire")
    /\ Write(agent[t].id, "expired")
    /\ Returns(t, "timeout", NoAnswer)
    /\ UNCHANGED <<pending, answer, lock, stop>>

-----------------------------------------------------------------------------
(* The chat loop, InterruptMonitor and the end of a turn                   *)

ChatTo(t, l) == chat' = [chat EXCEPT ![t] = l]

StartTurn(t) ==
    /\ chat[t] = "new"
    /\ ChatTo(t, "live")
    /\ AgentTo(t, Thinking(None))
    /\ UNCHANGED <<keys, gate, cache, req, history>>

FinishTurn(t) ==
    /\ chat[t] = "live" /\ agent[t].pc \in {"think", "off"}
    /\ ChatTo(t, "clean_kuncode")
    /\ AgentTo(t, NoAgent)
    /\ UNCHANGED <<keys, gate, cache, req, history>>

\* The monitor takes the signal and cancels the producer, not the agent.
SeeInterrupt(t) ==
    /\ chat[t] = "live" /\ stop
    /\ stop' = FALSE
    /\ ChatTo(t, "clean_kuncode")
    /\ UNCHANGED <<pending, preview, answer, lock, agent, gate, cache, req, history>>

\* The loop learns from the event queue that a plan was not confirmed.
SeeCancelledPlan(t) ==
    /\ chat[t] = "live"
    /\ \E c \in Plans : cache[t][c].said = "cancelled"
    /\ ChatTo(t, "clean_kuncode")
    /\ UNCHANGED <<keys, agent, gate, cache, req, history>>

CleanTurn(t) ==
    /\ CleanKeys(chat[t])
    /\ ChatTo(t, AfterClean(chat[t], "over"))
    /\ UNCHANGED <<answer, lock, stop, agent, gate, cache, req, history>>

\* A deadline, an exception or a crash ends a turn without the clean-up.
FailTurn(t) ==
    /\ TurnsMayFail
    /\ chat[t] \notin {"new", "over"}
    /\ ChatTo(t, "over")
    /\ UNCHANGED <<keys, agent, gate, cache, req, history>>

\* The agent of a turn that is ending stops sooner or later, or never.
StopAgent(t) ==
    /\ chat[t] \notin {"new", "live"} /\ agent[t].pc # "off"
    /\ AgentTo(t, NoAgent)
    /\ UNCHANGED <<keys, chat, gate, cache, req, history>>

-----------------------------------------------------------------------------
(* Requests of the clients                                                 *)

ReqTo(c, r) == req' = [req EXCEPT ![c] = r]
ReqGoto(c, l) == ReqTo(c, [req[c] EXCEPT !.pc = l])
Reply(c) == ReqTo(c, NoReq)
Free(c, op) == op \in Requests /\ req[c].pc = "idle"
Request(c, op, l) == ReqTo(c, [NoReq EXCEPT !.pc = l, !.op = op])

\* Mutant: no lock.
LockIgnored(p) == UNCHANGED lock

\* _acquire_confirm_lock: SET NX, never deleted; a second request gets 409.
AcquireLock(p) == p \notin lock /\ lock' = lock \cup {p}

\* confirm_kuncode and confirm_plan_preview, by a client that was shown p.
StartAnswer(c, p, ans) ==
    /\ Free(c, "answer")
    /\ asked[p].turn # None
    /\ ~\E t \in Turns : At(t, "show") /\ agent[t].id = p
    /\ AcquireLock(p)
    /\ ReqTo(c, [pc |-> IF Kind[p] = "plan" THEN "listed?" ELSE "pending?",
                 op |-> "answer", id |-> p, ans |-> ans])
    /\ UNCHANGED <<pending, preview, answer, stop, chat, agent, gate, cache, history>>

\* Only the plan that plan_pending names can be answered.
IsListed(p) == pending["plan"] = p

CheckListed(c) ==
    /\ req[c].pc = "listed?"
    /\ IF IsListed(req[c].id) THEN ReqGoto(c, "pending?") ELSE Reply(c)
    /\ UNCHANGED <<keys, chat, agent, gate, cache, history>>

CheckPending(c) ==
    LET p == req[c].id IN
    /\ req[c].pc = "pending?"
    /\ IF preview[p] # "pending" THEN Reply(c)
       ELSE ReqGoto(c, IF Kind[p] = "plan" THEN "set_answer" ELSE "set_status")
    /\ UNCHANGED <<keys, chat, agent, gate, cache, history>>

SetStatus(c) ==
    LET p == req[c].id IN
    /\ req[c].pc = "set_status"
    /\ Write(p, IF req[c].ans.act = "confirm" THEN "confirmed" ELSE "cancelled")
    /\ IF Kind[p] = "plan" THEN Reply(c) ELSE ReqGoto(c, "set_answer")
    /\ UNCHANGED <<pending, answer, lock, stop, chat, agent, gate, cache, history>>

SetAnswer(c) ==
    LET p == req[c].id IN
    /\ req[c].pc = "set_answer"
    /\ answer' = [answer EXCEPT ![p] = req[c].ans]
    /\ accepted' = [accepted EXCEPT ![p] = @ \cup {req[c].ans}]
    /\ ReqGoto(c, IF Kind[p] = "plan" THEN "drop_plan" ELSE "drop_kuncode")
    /\ UNCHANGED <<pending, preview, lock, stop, chat, agent, gate, cache,
                   asked, outcome, made>>

\* A prompt's answer and a poll that met a resolved preview drop both keys.
DropKuncode(c) ==
    /\ req[c].pc = "drop_kuncode"
    /\ Unlist("kuncode")
    /\ ReqGoto(c, "drop_plan")
    /\ UNCHANGED <<preview, answer, lock, stop, chat, agent, gate, cache, history>>

DropPlan(c) ==
    /\ req[c].pc = "drop_plan"
    /\ Unlist("plan")
    /\ IF req[c].op = "answer" /\ Kind[req[c].id] = "plan"
       THEN ReqGoto(c, "set_status") ELSE Reply(c)
    /\ UNCHANGED <<preview, answer, lock, stop, chat, agent, gate, cache, history>>

\* GET /pending, reset_preview_timer and update_plan_preview_content.
StartLook(c, op) ==
    /\ Free(c, op) /\ op \in {"poll", "reset", "edit"}
    /\ Request(c, op, IF op = "edit" THEN "find_plan" ELSE "find_kuncode")
    /\ UNCHANGED <<keys, chat, agent, gate, cache, history>>

Find(c) ==
    LET k == IF req[c].pc = "find_kuncode" THEN "kuncode" ELSE "plan" IN
    /\ req[c].pc \in {"find_kuncode", "find_plan"}
    /\ \/ /\ pending[k] # None
          /\ ReqTo(c, [req[c] EXCEPT !.pc = "read", !.id = pending[k]])
       \/ pending[k] = None /\ k = "kuncode" /\ ReqGoto(c, "find_plan")
       \/ pending[k] = None /\ k = "plan" /\ Reply(c)
    /\ UNCHANGED <<keys, chat, agent, gate, cache, history>>

Look(c) ==
    LET status == preview[req[c].id] IN
    /\ req[c].pc = "read"
    /\ \/ req[c].op = "poll" /\ status \notin {"absent", "pending"}
          /\ ReqGoto(c, "drop_kuncode")
       \/ req[c].op # "poll" /\ status = "pending" /\ ReqGoto(c, "write")
       \/ status = "absent" /\ Reply(c)
       \/ (req[c].op = "poll") = (status = "pending") /\ Reply(c)
    /\ UNCHANGED <<keys, chat, agent, gate, cache, history>>

\* The preview is written back as it was read, with a new created_at.
WriteBack(c) ==
    /\ req[c].pc = "write"
    /\ Write(req[c].id, "pending")
    /\ Reply(c)
    /\ UNCHANGED <<pending, answer, lock, stop, chat, agent, gate, cache, history>>

\* interrupt_agent: the agents of its own process stop at once.
StartInterrupt(c) ==
    /\ Free(c, "interrupt")
    /\ stop' = TRUE
    /\ \E here \in SUBSET {t \in Turns : chat[t] = "live"} :
          agent' = [t \in Turns |-> IF t \in here THEN NoAgent ELSE agent[t]]
    /\ Request(c, "interrupt", "clean_kuncode")
    /\ UNCHANGED <<pending, preview, answer, lock, chat, gate, cache, history>>

CleanInterrupted(c) ==
    /\ CleanKeys(req[c].pc)
    /\ LET l == AfterClean(req[c].pc, "idle")
       IN  IF l = "idle" THEN Reply(c) ELSE ReqGoto(c, l)
    /\ UNCHANGED <<answer, lock, stop, chat, agent, gate, cache, history>>

-----------------------------------------------------------------------------
(* Keys that expire                                                        *)

LockLapses(p) ==
    /\ p \in lock
    /\ LockMayLapse \/ \A c \in Clients : req[c].op = "answer" => req[c].id # p
    /\ lock' = lock \ {p}
    /\ UNCHANGED <<pending, preview, answer, stop, chat, agent, gate, cache, req, history>>

StopLapses ==
    /\ stop /\ stop' = FALSE
    /\ UNCHANGED <<pending, preview, answer, lock, chat, agent, gate, cache, req, history>>

-----------------------------------------------------------------------------
AgentStep(t) ==
    \/ Show(t) \/ SeeStop(t) \/ SeeAnswer(t) \/ TakeAnswer(t) \/ SeePreview(t)
    \/ Reread(t) \/ AutoConfirm(t) \/ GoAhead(t) \/ UnlistPlan(t) \/ Expire(t)

ModelStep(t) ==
    \/ \E c \in Plans : AskPlan(t, c) \/ AskPlanAgain(t, c) \/ CreatePlan(t, c)
    \/ AskPrompt(t)

ChatStep(t) ==
    \/ StartTurn(t) \/ FinishTurn(t) \/ SeeInterrupt(t) \/ SeeCancelledPlan(t)
    \/ CleanTurn(t) \/ FailTurn(t) \/ StopAgent(t)

ClientStart(c) ==
    \/ \E p \in Previews : \E ans \in AnswersTo(p) : StartAnswer(c, p, ans)
    \/ \E op \in Requests : StartLook(c, op)
    \/ StartInterrupt(c)

ClientStep(c) ==
    \/ CheckListed(c) \/ CheckPending(c) \/ SetStatus(c) \/ SetAnswer(c)
    \/ DropKuncode(c) \/ DropPlan(c) \/ Find(c) \/ Look(c) \/ WriteBack(c)
    \/ CleanInterrupted(c)

Next ==
    \/ \E t \in Turns : AgentStep(t) \/ ModelStep(t) \/ ChatStep(t)
    \/ \E c \in Clients : ClientStart(c) \/ ClientStep(c)
    \/ \E p \in Previews : LockLapses(p)
    \/ StopLapses

Spec == Init /\ [][Next]_vars

-----------------------------------------------------------------------------
(* Properties                                                              *)

TypeOK ==
    /\ pending \in [Kinds -> Previews \cup {None}]
    /\ preview \in [Previews -> Statuses]
    /\ answer \in [Previews -> Answer \cup {NoAnswer}]
    /\ lock \subseteq Previews /\ stop \in BOOLEAN
    /\ chat \in [Turns -> ChatPcs]
    /\ agent \in [Turns -> Agent]
    /\ gate \in [Turns -> Gate]
    /\ cache \in [Turns -> [Plans -> Replies]]
    /\ req \in [Clients -> Req]
    /\ asked \in [Previews -> [turn : Turns \cup {None}, plan : Plans \cup {None}]]
    /\ accepted \in [Previews -> SUBSET Answer]
    /\ outcome \in [Previews -> {"none", "confirm", "cancel", "interrupted", "gone",
                                 "auto_confirm", "timeout"}]
    /\ made \in [Previews -> Seq(Plans)]

\* A user consented to plan d when p was shown: by naming it, or by naming no
\* subtasks, which leaves the plan that was proposed.
ConsentTo(p, d) ==
    \/ [act |-> "confirm", plan |-> d] \in accepted[p]
    \/ [act |-> "confirm", plan |-> None] \in accepted[p] /\ asked[p].plan = d

\* create_plan creates only what a user confirmed, once per confirmation; a
\* plan whose time is up is not created.  The consent travels through Redis, the
\* waiter, the gate and the model before it is used.
PlanNeedsConsent ==
    \A p \in Previews :
        made[p] # <<>> => Len(made[p]) = 1 /\ ConsentTo(p, made[p][1])

\* A plan preview is decided once, whoever clicks how often, whatever editors
\* and pollers write meanwhile and however the turn ends.
PlanDecidedOnce ==
    \A p \in Previews : Kind[p] = "plan" => \A a, b \in accepted[p] : a = b

\* A tool that reports the user's answer reports an answer to its own preview.
AnswerHasAuthor ==
    \A p \in Previews : outcome[p] \in {"confirm", "cancel"} =>
        \E a \in accepted[p] : a.act = outcome[p]

WaitsFor(t, p) == agent[t].id = p /\ agent[t].pc \in WaitPcs

\* An answer that was recorded ends the wait for it.
AnswerEndsWait ==
    \A t \in Turns, p \in Previews :
        WaitsFor(t, p) /\ answer[p] # NoAnswer ~> ~WaitsFor(t, p)

\* The polling loops go on; nothing else needs fairness.
FairSpec == Spec /\ \A t \in Turns : WF_vars(AgentStep(t))

-----------------------------------------------------------------------------
(* What the documents promise and the code does not keep (see README)      *)

\* "cancel: do not run": a cancelled prompt is not run as confirmed.
CancelHeeded ==
    \A p \in Previews :
        (\E a \in accepted[p] : a.act = "cancel")
            => outcome[p] \notin {"confirm", "auto_confirm"}

\* When preview_plan tells the model to call create_plan with a plan, the gate
\* holds the approval of that plan, also when the reply came from the cache.
AdviceWorks ==
    \A t \in Turns : agent[t].told # None => Consents(gate[t], agent[t].told)
=============================================================================
