----------------------------- MODULE TaskStream -----------------------------
(***************************************************************************)
(* The background task of a chat turn and those who watch it: the API that *)
(* submits and interrupts (app/api/conversation.py), the worker that runs  *)
(* the turn (app/tasks.py, the event loop of _chat_impl), the Redis stream *)
(* it writes (app/services/agent_service.py), the endpoint that reads the  *)
(* stream into Server-Sent Events and the client that receives them and    *)
(* reconnects (frontend api/client.ts).                                    *)
(*                                                                         *)
(* One session, whose tasks are submitted one after the other or at once.  *)
(* A worker that is lost gives its task back to the queue, and the task    *)
(* runs again under the same id and into the same stream.                  *)
(***************************************************************************)
EXTENDS Naturals, Sequences, FiniteSets

CONSTANTS
    Tasks,           \* task ids (uuid4: never reused)
    Tools,           \* tool calls of a run
    Viewers,         \* pages that watch a task, each once
    None,            \* "no value"
    MaxItems,        \* messages a task's agents produce
    MaxReconnects,   \* maxReconnectAttempts
    MaxFaults        \* failures, timeouts, broken connections, interrupts by the user

ASSUME StreamAssumption ==
    /\ None \notin Tasks \cup Tools
    /\ MaxItems \in Nat
    /\ MaxReconnects \in Nat
    /\ MaxFaults \in Nat

VARIABLES
    sub,        \* how far the submission of a task got
    active,     \* session_task
    stop,       \* agent_interrupt
    revoked,    \* tasks whose revocation the workers know
    run,        \* run[t]: the worker that runs t
    intr,       \* the interrupt request under way
    log,        \* task_stream of each task; an event's id is its position
    conn,       \* conn[v]: the connection of a viewer
    faults,     \* how many of MaxFaults there were
    shown       \* history: the task's events v's page was handed

vars == <<sub, active, stop, revoked, run, intr, log, conn, shown, faults>>
server == <<sub, active, stop, revoked, run, intr>>
viewing == <<conn, shown>>

-----------------------------------------------------------------------------
EventTypes == {"progress", "call", "result", "closing", "interrupted", "error", "end"}

\* A "result" is streamed by the agent; a "closing" is the tool_result that the end of a turn
\* writes for a pending call: found in the history, or made up (_build_terminal_tool_results).
\* `run` tells who wrote an event: a delivery of the task, or 0 for the interrupt
\* request. It is history.
Event == [type : EventTypes, tool : Tools \cup {None}, run : 0 .. MaxFaults + 1]
Plain(type, r) == [type |-> type, tool |-> None, run |-> r]
Of(type, c, r) == [type |-> type, tool |-> c, run |-> r]
Ends == {e \in Event : e.type = "end"}

RunPcs == {"absent", "queued", "prepare", "chat", "cancel", "after", "expire",
           "fail", "tail", "clear?", "clear!", "done", "killed", "aborted"}
Running == RunPcs \ {"absent", "queued", "done", "killed", "aborted"}
Producers == {"on", "cutting", "cut", "ended", "failed", "late"}
Run == [pc : RunPcs, nth : 0 .. MaxFaults + 1, producer : Producers, queued : 0 .. 1,
        made : 0 .. MaxItems, called : SUBSET Tools, pending : SUBSET Tools,
        looking : BOOLEAN, hit : BOOLEAN]
Fresh(pc, n) ==
    [pc |-> pc, nth |-> n, producer |-> "on", queued |-> 0, made |-> 0, called |-> {},
     pending |-> {}, looking |-> FALSE, hit |-> FALSE]

Intr == [pc : {"idle", "name", "revoke", "clear", "tell", "end"},
         task : Tasks \cup {None}]
\* A connection: its reader is behind message `at`, the client's lastEventId is `last`.
Conn == [st : {"closed", "connecting", "open", "finished"}, task : Tasks \cup {None},
         at : Nat, last : Nat, tries : 0 .. MaxReconnects]
NoConn == [st |-> "closed", task |-> None, at |-> 0, last |-> 0, tries |-> 0]
Over(t) == [st |-> "finished", task |-> t, at |-> 0, last |-> 0, tries |-> 0]

Init ==
    /\ sub = [t \in Tasks |-> "new"]
    /\ active = None
    /\ stop = FALSE
    /\ revoked = {}
    /\ run = [t \in Tasks |-> Fresh("absent", 0)]
    /\ intr = [pc |-> "idle", task |-> None]
    /\ log = [t \in Tasks |-> <<>>]
    /\ conn = [v \in Viewers |-> NoConn]
    /\ shown = [v \in Viewers |-> <<>>]
    /\ faults = 0

Fault == faults < MaxFaults /\ faults' = faults + 1

\* write_task_stream: XADD; its expirations keep the keys of a task that writes.
Write(t, e) == log' = [log EXCEPT ![t] = Append(@, e)]

-----------------------------------------------------------------------------
(* Submission: the names are written before the task is queued.            *)

SetTaskOwner(t) ==
    /\ sub[t] = "new"
    /\ sub' = [sub EXCEPT ![t] = "owned"]
    /\ UNCHANGED <<active, stop, revoked, run, intr, log, viewing, faults>>

SetSessionTask(t) ==
    /\ sub[t] = "owned"
    /\ sub' = [sub EXCEPT ![t] = "named"]
    /\ active' = t
    /\ UNCHANGED <<stop, revoked, run, intr, log, viewing, faults>>

\* A submission that queues its task first and names it once it is on its way.
ApplyAsyncFirst(t) ==
    /\ sub[t] \in {"new", "owned"}
    /\ sub' = [sub EXCEPT ![t] = "owned"]
    /\ run[t].pc = "absent"
    /\ run' = [run EXCEPT ![t] = Fresh("queued", 1)]
    /\ UNCHANGED <<active, stop, revoked, intr, log, viewing, faults>>

ApplyAsync(t) ==
    /\ sub[t] = "named"
    /\ sub' = [sub EXCEPT ![t] = "sent"]
    /\ run' = [run EXCEPT ![t] = Fresh("queued", 1)]
    /\ UNCHANGED <<active, stop, revoked, intr, log, viewing, faults>>

-----------------------------------------------------------------------------
(* The run of a task.                                                      *)

At(t, pc) == run[t].pc = pc
Go(t, pc) == run' = [run EXCEPT ![t].pc = pc]
\* Leaving the chat loop: what is left of it is the calls still open and how the
\* producer ended; leaving the chat, nothing.
Break(t, pc) ==
    run' = [run EXCEPT ![t] =
        [Fresh(pc, @.nth) EXCEPT !.producer = run[t].producer, !.pending = run[t].pending]]
Leave(t, pc) == run' = [run EXCEPT ![t] = Fresh(pc, @.nth)]
Others == <<sub, active, stop, revoked, intr, viewing>>
Beside == <<Others, faults>>

\* Before the try of _execute_analyze_task: it returns for want of a message, or init_db or
\* start() raises. No event, no end, session_task stays; the queue takes the task for done.
StartFails(t) ==
    /\ At(t, "queued")
    /\ t \notin revoked
    /\ Leave(t, "aborted")
    /\ UNCHANGED <<log, Beside>>

\* _execute_analyze_task up to the first event of the chat.
Begin(t) ==
    /\ At(t, "queued")
    /\ t \notin revoked
    /\ Go(t, "prepare")
    /\ Write(t, Plain("progress", run[t].nth))
    /\ UNCHANGED Beside

\* The sandbox and the agent are ready; the monitor and the producer start.
EnterChat(t) ==
    /\ At(t, "prepare")
    /\ Go(t, "chat")
    /\ UNCHANGED <<log, Beside>>

\* InterruptMonitor._monitor_loop: it reads the key, then deletes it and cancels the
\* producer.
MonitorReads(t) ==
    /\ At(t, "chat")
    /\ stop
    /\ ~run[t].hit
    /\ ~run[t].looking
    /\ run' = [run EXCEPT ![t].looking = TRUE]
    /\ UNCHANGED <<log, Beside>>

MonitorTakes(t) ==
    /\ At(t, "chat")
    /\ run[t].looking
    /\ stop' = FALSE
    /\ run' = [run EXCEPT ![t].looking = FALSE, ![t].hit = TRUE,
                          ![t].producer = IF @ = "on" THEN "cutting" ELSE @]
    /\ UNCHANGED <<log, sub, active, revoked, intr, viewing, faults>>

\* stream_producer: messages of the agent, until it returns, raises, runs out of time
\* or is cancelled.
Produce(t) ==
    /\ At(t, "chat")
    /\ run[t].producer = "on"
    /\ run[t].queued = 0
    /\ run[t].made < MaxItems
    /\ Tools # {}
    /\ run' = [run EXCEPT ![t].queued = 1, ![t].made = @ + 1]
    /\ UNCHANGED <<log, Beside>>

ProducerStops(t) ==
    /\ At(t, "chat")
    /\ \/ run[t].producer = "on" /\ run' = [run EXCEPT ![t].producer = "ended"]
       \/ run[t].producer = "cutting" /\ run' = [run EXCEPT ![t].producer = "cut"]
    /\ UNCHANGED <<log, Beside>>

ProducerFails(t) ==
    /\ At(t, "chat")
    /\ run[t].producer = "on"
    /\ \E how \in {"failed", "late"} : run' = [run EXCEPT ![t].producer = how]
    /\ Fault
    /\ UNCHANGED <<log, Others>>

StreamDone(t) == run[t].producer \notin {"on", "cutting"}
MoreToStream(t) == ~StreamDone(t) \/ run[t].queued > 0

\* One message of the queue becomes an event: a tool call, again while it is pending when
\* its input is final, or a last chunk of output, also of a call that has its output.
\* AgentScope reasons before it acts: no input of a call is final behind its output, and no
\* output is of a call that was not announced.  (Text, plans and progress open and close
\* nothing: Begin's event stands for them.)
Consume(t) ==
    /\ At(t, "chat")
    /\ ~run[t].hit
    /\ run[t].queued = 1
    /\ \/ \E c \in (Tools \ run[t].called) \cup run[t].pending :
            /\ Write(t, Of("call", c, run[t].nth))
            /\ run' = [run EXCEPT ![t].queued = 0, ![t].called = @ \cup {c},
                                  ![t].pending = @ \cup {c}]
       \/ \E c \in run[t].called :
            /\ Write(t, Of("result", c, run[t].nth))
            /\ run' = [run EXCEPT ![t].queued = 0, ![t].pending = @ \ {c}]
    /\ UNCHANGED Beside

\* The loop sees the interrupt at its top, if it comes round again at all.
Interrupted(t) ==
    /\ At(t, "chat")
    /\ MoreToStream(t)
    /\ run[t].hit
    /\ Break(t, "cancel")
    /\ UNCHANGED <<log, Beside>>

\* The user cancelled the plan: the tool's event ends the turn.
PlanCancelled(t) ==
    /\ At(t, "chat")
    /\ MoreToStream(t)
    /\ ~run[t].hit
    /\ Break(t, "cancel")
    /\ Write(t, Plain("progress", run[t].nth))
    /\ Fault
    /\ UNCHANGED Others

\* Where the finally of the loop leads: an exception of the producer is raised again.
Outcome(t) ==
    CASE run[t].producer = "failed" -> "fail"
      [] run[t].producer = "late"   -> "expire"
      [] OTHER                      -> "after"

LeaveLoop(t) ==
    /\ At(t, "chat")
    /\ ~MoreToStream(t)
    /\ Break(t, Outcome(t))
    /\ UNCHANGED <<log, Beside>>

\* _build_terminal_tool_results and, at a regular end, _recover_persisted_terminal_results:
\* pending calls are closed one event at a time, then the event that follows is written.
CloseOne(t) ==
    \E c \in run[t].pending :
        /\ Write(t, Of("closing", c, run[t].nth))
        /\ run' = [run EXCEPT ![t].pending = @ \ {c}]
        /\ UNCHANGED Beside

Conclude(t, type, pc) ==
    /\ run[t].pending = {}
    /\ Write(t, Plain(type, run[t].nth))
    /\ Leave(t, pc)
    /\ UNCHANGED Beside

Cancel(t) == At(t, "cancel") /\ (CloseOne(t) \/ Conclude(t, "interrupted", Outcome(t)))

\* An end that leaves calls nobody answered open.
AfterHasty(t) ==
    /\ At(t, "after")
    /\ Write(t, Plain("end", run[t].nth))
    /\ Leave(t, "clear?")
    /\ UNCHANGED Beside

\* The end of _chat_impl: results found in the history or assumed failed, the state is
\* saved, "end".
After(t) == At(t, "after") /\ (CloseOne(t) \/ Conclude(t, "end", "clear?"))

Expire(t) == At(t, "expire") /\ (CloseOne(t) \/ Conclude(t, "error", "tail"))

\* An exception anywhere in the turn.
Raise(t) ==
    /\ run[t].pc \in {"prepare", "chat", "cancel", "after", "expire"}
    /\ Leave(t, "fail")
    /\ Fault
    /\ UNCHANGED <<log, Others>>

Fail(t) ==
    /\ At(t, "fail")
    /\ Write(t, Plain("error", run[t].nth))
    /\ Leave(t, "tail")
    /\ UNCHANGED Beside

\* _execute_analyze_task ends a stream the chat did not end.
EndAnyway(t) ==
    /\ At(t, "tail")
    /\ Write(t, Plain("end", run[t].nth))
    /\ Leave(t, "clear?")
    /\ UNCHANGED Beside

\* clear_session_task(session_id, task_id): a look, then the deletion.
ClearLooks(t) ==
    /\ At(t, "clear?")
    /\ Go(t, IF active = t THEN "clear!" ELSE "done")
    /\ UNCHANGED <<log, Beside>>

ClearDeletes(t) ==
    /\ At(t, "clear!")
    /\ active' = None
    /\ Go(t, "done")
    /\ UNCHANGED <<log, sub, stop, revoked, intr, viewing, faults>>

Step(t) ==
    \/ Begin(t)
    \/ EnterChat(t)
    \/ MonitorTakes(t)
    \/ Produce(t)
    \/ ProducerStops(t)
    \/ Consume(t)
    \/ Interrupted(t)
    \/ LeaveLoop(t)
    \/ Cancel(t)
    \/ After(t)
    \/ Expire(t)
    \/ Fail(t)
    \/ EndAnyway(t)
    \/ ClearLooks(t)
    \/ ClearDeletes(t)

\* A revoked task is discarded by the queue or killed where it runs.
Kill(t) ==
    /\ t \in revoked
    /\ run[t].pc \in Running \cup {"queued"}
    /\ Leave(t, "killed")
    /\ UNCHANGED <<log, Beside>>

\* task_acks_late, task_reject_on_worker_lost: a lost worker's task is queued again.
Crash(t) ==
    /\ run[t].pc \in Running
    /\ t \notin revoked
    /\ run' = [run EXCEPT ![t] = [Fresh("queued", @.nth + 1) EXCEPT !.made = run[t].made]]
    /\ Fault
    /\ UNCHANGED <<log, Others>>

-----------------------------------------------------------------------------
(* interrupt_agent, one awaited call per step.                             *)

Interrupting(pc, to) ==
    /\ intr.pc = pc
    /\ intr' = [intr EXCEPT !.pc = to]

InterruptSets ==
    /\ Interrupting("idle", "name")
    /\ stop' = TRUE
    /\ Fault
    /\ UNCHANGED <<sub, active, revoked, run, log, viewing>>

InterruptNames ==
    /\ intr.pc = "name"
    /\ intr' = [intr EXCEPT !.pc = "revoke", !.task = active]
    /\ UNCHANGED <<sub, active, stop, revoked, run, log, viewing, faults>>

\* The broadcast reaches the workers or its failure is swallowed.
InterruptRevokes ==
    /\ Interrupting("revoke", "clear")
    /\ revoked' \in {revoked, revoked \cup (Tasks \cap {intr.task})}
    /\ UNCHANGED <<sub, active, stop, run, log, viewing, faults>>

InterruptClears ==
    /\ Interrupting("clear", IF intr.task = None THEN "idle" ELSE "tell")
    /\ active' = None
    /\ UNCHANGED <<sub, stop, revoked, run, log, viewing, faults>>

InterruptTells ==
    /\ Interrupting("tell", "end")
    /\ Write(intr.task, Plain("interrupted", 0))
    /\ UNCHANGED <<sub, active, stop, revoked, run, viewing, faults>>

\* An interrupt that tells the stream of the cancellation and leaves its end to the
\* worker it has just revoked.
InterruptEndsNot ==
    /\ Interrupting("end", "idle")
    /\ UNCHANGED <<sub, active, stop, revoked, run, log, viewing, faults>>

InterruptEnds ==
    /\ Interrupting("end", "idle")
    /\ Write(intr.task, Plain("end", 0))
    /\ UNCHANGED <<sub, active, stop, revoked, run, viewing, faults>>

Interrupt ==
    \/ InterruptNames
    \/ InterruptRevokes
    \/ InterruptClears
    \/ InterruptTells
    \/ InterruptEnds

\* agent_interrupt lives 60 s.
StopLapses ==
    /\ stop
    /\ stop' = FALSE
    /\ Fault
    /\ UNCHANGED <<sub, active, revoked, run, intr, log, viewing>>

-----------------------------------------------------------------------------
(* A viewer: stream_task and read_task_stream on the server's side of its  *)
(* connection, Api.streamTask on the other.                                *)

\* A page watches the task it submitted or the one the session is said to run.
Watch(v, t) ==
    /\ conn[v].st = "closed"
    /\ sub[t] = "sent" \/ active = t
    /\ conn' = [conn EXCEPT ![v].st = "connecting", ![v].task = t]
    /\ UNCHANGED <<server, log, shown, faults>>

\* GET /stream/{task_id}: the reader starts behind Last-Event-ID.
Connect(v) ==
    /\ conn[v].st = "connecting"
    /\ conn' = [conn EXCEPT ![v].st = "open", ![v].at = conn[v].last]
    /\ UNCHANGED <<server, log, shown, faults>>

\* The next messages, read by read_task_stream up to "end", arrive in one chunk:
\* handleEvent takes them all, also those behind the one that finishes the stream.
\* (Messages still on their way when a connection breaks are read again, so there is
\* no difference between them and messages not read yet.)
Chunk(v, n) == SubSeq(log[conn[v].task], conn[v].at + 1, n)
Types(v, n) == {log[conn[v].task][i].type : i \in conn[v].at + 1 .. n}

\* A client that forgets where it was: the next connection starts over.
ReceiveUntracked(v) ==
    /\ conn[v].st = "open"
    /\ \E n \in conn[v].at + 1 .. Len(log[conn[v].task]) :
        /\ "end" \notin Types(v, n - 1)
        /\ shown' = [shown EXCEPT ![v] = @ \o Chunk(v, n)]
        /\ conn' = [conn EXCEPT ![v] =
               IF Types(v, n) \cap {"end", "error"} # {} THEN Over(@.task)
               ELSE [@ EXCEPT !.at = n]]
    /\ UNCHANGED <<server, log, faults>>

Receive(v) ==
    /\ conn[v].st = "open"
    /\ \E n \in conn[v].at + 1 .. Len(log[conn[v].task]) :
        /\ "end" \notin Types(v, n - 1)
        /\ shown' = [shown EXCEPT ![v] = @ \o Chunk(v, n)]
        /\ conn' = [conn EXCEPT ![v] =
               IF Types(v, n) \cap {"end", "error"} # {} THEN Over(@.task)
               ELSE [@ EXCEPT !.at = n, !.last = n]]
    /\ UNCHANGED <<server, log, faults>>

\* Redis fails the reader: an error frame that is no event of the task and has no id.
ServerFails(v) ==
    /\ conn[v].st = "open"
    /\ conn' = [conn EXCEPT ![v] = Over(@.task)]
    /\ Fault
    /\ UNCHANGED <<server, log, shown>>

\* A client that counts an attempt too many.
LoseOnceMore(v) ==
    /\ conn[v].st \in {"connecting", "open"}
    /\ conn' = [conn EXCEPT ![v] =
           IF @.tries > MaxReconnects THEN Over(@.task)
           ELSE [@ EXCEPT !.st = "connecting", !.tries = conn[v].tries + 1, !.at = 0]]
    /\ Fault
    /\ UNCHANGED <<server, log, shown>>

\* The connection breaks, or the request for it fails: the client tries again a few
\* times and then reports an error of its own.
Lose(v) ==
    /\ conn[v].st \in {"connecting", "open"}
    /\ conn' = [conn EXCEPT ![v] =
           IF @.tries = MaxReconnects THEN Over(@.task)
           ELSE [@ EXCEPT !.st = "connecting", !.tries = conn[v].tries + 1, !.at = 0]]
    /\ Fault
    /\ UNCHANGED <<server, log, shown>>

-----------------------------------------------------------------------------
Next ==
    \/ \E t \in Tasks : SetTaskOwner(t)
    \/ \E t \in Tasks : SetSessionTask(t)
    \/ \E t \in Tasks : ApplyAsync(t)
    \/ \E t \in Tasks : Step(t)
    \/ \E t \in Tasks : MonitorReads(t)
    \/ \E t \in Tasks : ProducerFails(t)
    \/ \E t \in Tasks : PlanCancelled(t)
    \/ \E t \in Tasks : Raise(t)
    \/ \E t \in Tasks : StartFails(t)
    \/ \E t \in Tasks : Kill(t)
    \/ \E t \in Tasks : Crash(t)
    \/ InterruptSets
    \/ Interrupt
    \/ StopLapses
    \/ \E v \in Viewers, t \in Tasks : Watch(v, t)
    \/ \E v \in Viewers : Connect(v)
    \/ \E v \in Viewers : ServerFails(v)
    \/ \E v \in Viewers : Receive(v)
    \/ \E v \in Viewers : Lose(v)

Spec == Init /\ [][Next]_vars

\* The event loops of the API, of the worker and of the page go round; a queue delivers
\* what it was given. The agent's producer ends (TASK_DEADLINE_SECONDS). Nothing is
\* assumed of failures, of the user or of the agent's choices.
Fairness ==
    /\ \A t \in Tasks : WF_vars(ApplyAsync(t)) /\ WF_vars(Step(t))
    /\ WF_vars(Interrupt)
    /\ \A v \in Viewers :
        WF_vars(Connect(v)) /\ WF_vars(Receive(v))

FairSpec == Spec /\ Fairness

-----------------------------------------------------------------------------
(* Properties                                                              *)

TypeOK ==
    /\ sub \in [Tasks -> {"new", "owned", "named", "sent"}]
    /\ active \in Tasks \cup {None}
    /\ stop \in BOOLEAN
    /\ revoked \subseteq Tasks
    /\ run \in [Tasks -> Run]
    /\ intr \in Intr
    /\ log \in [Tasks -> Seq(Event)]
    /\ conn \in [Viewers -> Conn]
    /\ shown \in [Viewers -> Seq(Event)]
    /\ faults \in 0 .. MaxFaults
    /\ \A t \in Tasks : run[t].nth <= faults + 1

\* Whatever connections break and however often a task runs, a page is handed the events
\* of its task in order, none twice, none left out, none after the end.
Feed == INSTANCE TaskFeed WITH
    Events <- Event,
    Last <- Ends,
    watch <- [v \in Viewers |-> {conn[v].task} \ {None}]
FeedSpec == Feed!Spec

\* The comment in submit_async_task: a task that went through its try and its finally does
\* not stay the session's active task, however fast it was.  (One that ends before its try
\* does stay: ActiveIsAlive.)
NoStaleActive == \A t \in Tasks : run[t].pc = "done" => active # t

\* What the comment suggests and the code does not keep (see README): no task that came
\* to an end of its own, wherever it did, is the session's active one.
ActiveIsAlive == \A t \in Tasks : run[t].pc \in {"done", "aborted"} => active # t

\* A run that ends its stream without an error has an output behind every tool call it
\* wrote, after an interrupt, a cancelled plan, a result that was never streamed; and one
\* made for a call at the end contradicts no other: it is the only output of its tool.
ResultsPaired ==
    \A t \in Tasks : \A i \in DOMAIN log[t] :
        LET e == log[t][i]
            By(types) == {j \in 1 .. i - 1 : log[t][j].type \in types /\ log[t][j].run = e.run}
            SameTool(j, k) == log[t][j].tool = log[t][k].tool
        IN  e.type = "end" /\ e.run > 0 /\ By({"error"}) = {} =>
                /\ \A j \in By({"call"}) : \E k \in By({"result", "closing"}) :
                      k > j /\ SameTool(j, k)
                /\ \A j \in By({"closing"}), k \in By({"result", "closing"}) :
                      SameTool(j, k) => j = k

\* Who watches a task is released: the stream ends, fails or breaks for good, also when the
\* run it watches was killed or lost; unless the task stopped before its try, which writes
\* nothing, so that its viewers wait until they leave.
ViewersFinish ==
    \A v \in Viewers :
        conn[v].st \in {"connecting", "open"} ~>
            \/ conn[v].st = "finished"
            \/ \E t \in Tasks : conn[v].task = t /\ run[t].pc = "aborted"
=============================================================================
