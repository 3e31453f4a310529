----------------------------- MODULE KunCodeRun -----------------------------
(***************************************************************************)
(* The runs of KunCode in a sandbox, from the tool call of a turn to the   *)
(* last of its processes (sandbox_image/routers/kuncode_stream.py, the     *)
(* adapter in data_analysis_sandbox.py and _terminate_sandbox_execution of *)
(* agent_service.py).                                                      *)
(*                                                                         *)
(* A tool call posts a run; the router in the container starts a process,  *)
(* streams its output and at its end tells the client the result and keeps *)
(* a record of it.  The run may be stopped by its idle timeout or the      *)
(* turn's deadline, by a client that closes the connection and by          *)
(* cancel_kuncode, all at once; each terminates whatever carries the       *)
(* execution id and looks whether it is gone.  The id is that of the       *)
(* turn's deadline, so all runs of one turn share it.                      *)
(*                                                                         *)
(* The router is one event loop and no code awaits while it holds          *)
(* _executions_lock, so what lies between two awaits or yields is a step.  *)
(***************************************************************************)
EXTENDS Naturals, FiniteSets

CONSTANTS
    Turns,      \* turns of a session; each has one execution id
    Runs,       \* run_kuncode calls, numbered in the order of their turn
    TurnOf,     \* the turn of a run
    Stoppers,   \* calls of _terminate_sandbox_execution
    StopOf,     \* the turn a stopper is about
    Remote,     \* the stoppers that run in another process than the turn
    MaxFaults,  \* lost connections and answers, failed starts, processes that resist
    None

ASSUME RunsAssumption ==
    /\ Runs \subseteq Nat
    /\ TurnOf \in [Runs -> Turns]
    /\ StopOf \in [Stoppers -> Turns]
    /\ Remote \subseteq Stoppers
    /\ Runs \cap Stoppers = {}
    /\ None \notin Runs \cup Turns
    /\ None \notin {"cancelled", "timeout"}
    /\ MaxFaults \in Nat

VARIABLES
    turn,      \* per turn: "on", "stopping" (told to stop) or "off"
    late,      \* per turn: its deadline has passed
    tool,      \* per run: what the turn knows of it
    open,      \* per run: the client keeps the connection of its stream
    stream,    \* per run: where _stream_kuncode_output stands, with the result it will tell
    proc,      \* per run: the leader of its process group and the rest of its processes
    active,    \* _active_executions, per turn since its key is the execution id
    terminal,  \* _terminal_executions, with the run a record is about
    call,      \* per caller of cancel_kuncode: where it stands, the run it found
    told,      \* per caller: the answer, whether the termination is confirmed
    marked,    \* history: runs that were marked as cancelled while their leader lived
    faults

vars == <<turn, late, tool, open, stream, proc, active, terminal, call, told, marked, faults>>

\* A tool call that is cancelled calls cancel_kuncode itself, in its own name.
Callers == Runs \cup Stoppers
About == [c \in Callers |-> IF c \in Stoppers THEN StopOf[c] ELSE TurnOf[c]]

Results == {"success", "cancelled", "timeout", "failed"}

\* What run_kuncode returns: the result it was told, or that it has none.
Outcomes == Results \cup {"incomplete"}
Record == [reason : Results, confirmed : BOOLEAN, run : Runs]
Stages == {"none", "posted", "creating", "spawned", "reading", "stopping", "waiting",
           "sweeping", "telling", "cancelling", "closing", "noting", "over"}

Streams == [pc : Stages, rec : Record]
Processes == [leader : {"none", "alive", "dying", "zero", "failed"},
              kids : {"none", "alive", "dying"}]
Entries == [run : Runs, reason : {None, "cancelled", "timeout"}]
ASSUME EntriesAssumption == None \notin Entries \cup Record
Calls == [pc : {"none", "asked", "ending", "polling", "over"}, run : Runs \cup {None}]

TypeOK ==
    /\ turn \in [Turns -> {"on", "stopping", "off"}]
    /\ late \in [Turns -> BOOLEAN]
    /\ tool \in [Runs -> {"none", "running", "raised"} \cup Outcomes]
    /\ open \in [Runs -> BOOLEAN]
    /\ stream \in [Runs -> Streams]
    /\ proc \in [Runs -> Processes]
    /\ active \in [Turns -> Entries \cup {None}]
    /\ terminal \in [Turns -> Record \cup {None}]
    /\ call \in [Callers -> Calls]
    /\ told \in [Callers -> BOOLEAN \cup {None}]
    /\ marked \subseteq Runs
    /\ faults \in 0 .. MaxFaults

Blank(r) == [reason |-> "failed", confirmed |-> TRUE, run |-> r]

Init ==
    /\ turn = [e \in Turns |-> "on"]
    /\ late = [e \in Turns |-> FALSE]
    /\ tool = [r \in Runs |-> "none"]
    /\ open = [r \in Runs |-> FALSE]
    /\ stream = [r \in Runs |-> [pc |-> "none", rec |-> Blank(r)]]
    /\ proc = [r \in Runs |-> [leader |-> "none", kids |-> "none"]]
    /\ active = [e \in Turns |-> None]
    /\ terminal = [e \in Turns |-> None]
    /\ call = [c \in Callers |-> [pc |-> "none", run |-> None]]
    /\ told = [c \in Callers |-> None]
    /\ marked = {}
    /\ faults = 0

-----------------------------------------------------------------------------
(* Processes.                                                              *)

LeaderRuns(r) == proc[r].leader \in {"alive", "dying"}
Alive(r) == LeaderRuns(r) \/ proc[r].kids # "none"
Tagged(e) == {r \in Runs : TurnOf[r] = e /\ Alive(r)}

Killed(p) == [leader |-> IF p.leader \in {"alive", "dying"} THEN "failed" ELSE p.leader,
              kids |-> "none"]

\* A process in an uninterruptible wait dies of its SIGKILL only when it comes back.
Resisting(p) == [leader |-> IF p.leader = "alive" THEN "dying" ELSE p.leader,
                 kids |-> IF p.kids = "alive" THEN "dying" ELSE p.kids]

Fault == faults < MaxFaults /\ faults' = faults + 1

\* The end of _terminate_process_group for the id of turn e: SIGTERM, grace, SIGKILL, and
\* a look for what is left.
Terminate(e, stuck) ==
    /\ IF stuck = {} THEN UNCHANGED faults ELSE Fault
    /\ proc' = [r \in Runs |->
                  IF r \notin Tagged(e) THEN proc[r]
                  ELSE IF r \in stuck THEN Resisting(proc[r]) ELSE Killed(proc[r])]

\* A look at the leader alone.
ConfirmedByLeader(e, stuck) == \A r \in stuck : ~LeaderRuns(r)

\* Confirmed only if nothing that carries the id is left.
Confirmed(e, stuck) == stuck = {}

Fork(r) ==
    /\ proc[r].leader = "alive" /\ proc[r].kids = "none"
    /\ proc' = [proc EXCEPT ![r].kids = "alive"]
    /\ UNCHANGED <<turn, late, tool, open, stream, active, terminal, call, told, marked, faults>>

LeaderExits(r) ==
    /\ proc[r].leader = "alive"
    /\ \E code \in {"zero", "failed"} : proc' = [proc EXCEPT ![r].leader = code]
    /\ UNCHANGED <<turn, late, tool, open, stream, active, terminal, call, told, marked, faults>>

KidsExit(r) ==
    /\ proc[r].kids = "alive"
    /\ proc' = [proc EXCEPT ![r].kids = "none"]
    /\ UNCHANGED <<turn, late, tool, open, stream, active, terminal, call, told, marked, faults>>

\* A killed process that resisted is gone at last.
Dies(r) ==
    /\ "dying" \in {proc[r].leader, proc[r].kids}
    /\ proc' = [proc EXCEPT ![r] =
                  [leader |-> IF @.leader = "dying" THEN "failed" ELSE @.leader,
                   kids |-> IF @.kids = "dying" THEN "none" ELSE @.kids]]
    /\ UNCHANGED <<turn, late, tool, open, stream, active, terminal, call, told, marked, faults>>

-----------------------------------------------------------------------------
(* The turn and its tool calls.                                            *)

\* Tools are called one at a time.
Call(r) ==
    /\ turn[TurnOf[r]] = "on" /\ tool[r] = "none"
    /\ \A x \in Runs : TurnOf[x] = TurnOf[r] /\ x < r => tool[x] \in Outcomes
    /\ tool' = [tool EXCEPT ![r] = "running"]
    /\ open' = [open EXCEPT ![r] = TRUE]
    /\ stream' = [stream EXCEPT ![r].pc = "posted"]
    /\ UNCHANGED <<turn, late, proc, active, terminal, call, told, marked, faults>>

Deadline(e) ==
    /\ turn[e] # "off" /\ ~late[e]
    /\ late' = [late EXCEPT ![e] = TRUE]
    /\ UNCHANGED <<turn, tool, open, stream, proc, active, terminal, call, told, marked, faults>>

\* The connection breaks, or the HTTP client gives up some seconds after the deadline: the
\* outcome is "incomplete" and nobody is asked to cancel.
GiveUp(r) ==
    /\ tool[r] = "running"
    /\ IF late[TurnOf[r]] THEN UNCHANGED faults ELSE Fault
    /\ tool' = [tool EXCEPT ![r] = "incomplete"]
    /\ open' = [open EXCEPT ![r] = FALSE]
    /\ UNCHANGED <<turn, late, stream, proc, active, terminal, call, told, marked>>

\* CancelledError in run_kuncode: the connection is closed and cancel_kuncode is called.
CancelTool(r) ==
    /\ tool[r] = "running"
    /\ late[TurnOf[r]] \/ turn[TurnOf[r]] = "stopping"
    /\ tool' = [tool EXCEPT ![r] = "raised"]
    /\ open' = [open EXCEPT ![r] = FALSE]
    /\ call' = [call EXCEPT ![r].pc = "asked"]
    /\ UNCHANGED <<turn, late, stream, proc, active, terminal, told, marked, faults>>

Busy(e) ==
    \/ \E r \in Runs : TurnOf[r] = e /\ (tool[r] = "running" \/ (tool[r] = "raised" /\ told[r] = None))
    \/ \E c \in Stoppers \ Remote : StopOf[c] = e /\ call[c].pc # "none" /\ told[c] = None

\* The finally block: the turn leaves _active_sandbox_runs.
TurnEnds(e) ==
    /\ turn[e] # "off" /\ ~Busy(e)
    /\ turn' = [turn EXCEPT ![e] = "off"]
    /\ UNCHANGED <<late, tool, open, stream, proc, active, terminal, call, told, marked, faults>>

-----------------------------------------------------------------------------
(* _stream_kuncode_output in the container.                                *)

\* The stream of r goes on at pc.
At(r, pc) == stream[r].pc = pc
Goes(r, pc) == stream' = [stream EXCEPT ![r].pc = pc]

\* The generator is over, and its locals with it.
Ends(r) == stream' = [stream EXCEPT ![r] = [pc |-> "over", rec |-> Blank(r)]]

\* It will tell and record this result.
Concludes(r, pc, reason, confirmed) ==
    stream' = [stream EXCEPT ![r] =
                 [pc |-> pc, rec |-> [reason |-> reason, confirmed |-> confirmed, run |-> r]]]

\* A run that arrives behind the deadline is refused.
Admit(r) ==
    /\ At(r, "posted")
    /\ IF late[TurnOf[r]] THEN Concludes(r, "telling", "timeout", TRUE) ELSE Goes(r, "creating")
    /\ UNCHANGED <<turn, late, tool, open, proc, active, terminal, call, told, marked, faults>>

CreateFails(r) ==
    /\ At(r, "creating") /\ Fault
    /\ Concludes(r, "telling", "failed", TRUE)
    /\ UNCHANGED <<turn, late, tool, open, proc, active, terminal, call, told, marked>>

\* The process runs before create_subprocess_exec returns.
Spawn(r) ==
    /\ At(r, "creating")
    /\ proc' = [proc EXCEPT ![r].leader = "alive"]
    /\ Goes(r, "spawned")
    /\ UNCHANGED <<turn, late, tool, open, active, terminal, call, told, marked, faults>>

Register(r) ==
    /\ At(r, "spawned")
    /\ active' = [active EXCEPT ![TurnOf[r]] = [run |-> r, reason |-> None]]
    /\ Goes(r, "reading")
    /\ UNCHANGED <<turn, late, tool, open, proc, terminal, call, told, marked, faults>>

\* No output for too long, or the deadline.
TimesOut(r) ==
    /\ At(r, "reading")
    /\ Goes(r, "stopping")
    /\ UNCHANGED <<turn, late, tool, open, proc, active, terminal, call, told, marked, faults>>

Stopped(r) ==
    /\ At(r, "stopping")
    /\ \E stuck \in SUBSET Tagged(TurnOf[r]) :
        /\ Terminate(TurnOf[r], stuck)
        /\ Concludes(r, "telling", "timeout", Confirmed(TurnOf[r], stuck))
    /\ UNCHANGED <<turn, late, tool, open, active, terminal, call, told, marked>>

\* The output is closed: by the end of the processes, or by processes that go on without it.
Eof(r) ==
    /\ At(r, "reading")
    /\ Goes(r, "waiting")
    /\ UNCHANGED <<turn, late, tool, open, proc, active, terminal, call, told, marked, faults>>

Exited(r) ==
    /\ At(r, "waiting") /\ ~LeaderRuns(r)
    /\ Goes(r, "sweeping")
    /\ UNCHANGED <<turn, late, tool, open, proc, active, terminal, call, told, marked, faults>>

\* Without the record of a cancel that is through.
ReasonOfActive(r) ==
    LET e == TurnOf[r]
        cancel == IF active[e] = None THEN None ELSE active[e].reason
    IN  IF cancel # None THEN cancel
        ELSE IF proc[r].leader = "zero" THEN "success" ELSE "failed"

\* The reason for the end: that of a cancel under way, else that of a record kept under the id.
Reason(r) ==
    LET e == TurnOf[r]
        cancel == IF active[e] = None THEN None ELSE active[e].reason
        kept == IF terminal[e] = None THEN None ELSE terminal[e].reason
    IN  CASE cancel # None -> cancel
          [] cancel = None /\ kept \in {"cancelled", "timeout"} -> kept
          [] OTHER -> IF proc[r].leader = "zero" THEN "success" ELSE "failed"

\* What the leader left behind is terminated before the result is told.
Swept(r) ==
    /\ At(r, "sweeping")
    /\ \E stuck \in SUBSET Tagged(TurnOf[r]) :
        /\ Terminate(TurnOf[r], stuck)
        /\ Concludes(r, "telling", Reason(r), Confirmed(TurnOf[r], stuck))
    /\ UNCHANGED <<turn, late, tool, open, active, terminal, call, told, marked>>

\* _remember_terminal.
Remembered(e, rec) ==
    /\ active' = [active EXCEPT ![e] = None]
    /\ terminal' = [terminal EXCEPT ![e] = rec]

\* The result and [DONE] go to the client; the generator goes on in the same turn of the
\* loop and keeps the record before anything the client does next can arrive.
Tell(r) ==
    /\ At(r, "telling") /\ open[r]
    /\ tool' = [tool EXCEPT ![r] = stream[r].rec.reason]
    /\ open' = [open EXCEPT ![r] = FALSE]
    /\ Remembered(TurnOf[r], stream[r].rec)
    /\ Ends(r)
    /\ UNCHANGED <<turn, late, proc, call, told, marked, faults>>

\* The client is gone while the generator awaits: CancelledError.
Interrupted(r) ==
    /\ ~open[r]
    /\ \/ At(r, "posted") /\ Ends(r) /\ UNCHANGED <<proc, active>>
       \/ At(r, "creating") /\ Ends(r) /\ UNCHANGED <<proc, active>>
       \/ /\ At(r, "spawned") /\ Ends(r)
          /\ proc' = [proc EXCEPT ![r].leader = IF @ = "alive" THEN "failed" ELSE @]
          /\ UNCHANGED active
       \/ /\ stream[r].pc \in {"reading", "stopping", "waiting", "sweeping"}
          /\ active' = [active EXCEPT ![TurnOf[r]] =
                          IF @ = None THEN None ELSE [@ EXCEPT !.reason = "cancelled"]]
          /\ Goes(r, "cancelling") /\ UNCHANGED proc
    /\ UNCHANGED <<turn, late, tool, open, terminal, call, told, marked, faults>>

\* Without the finally block.
ClosedSilently(r) ==
    /\ ~open[r] /\ stream[r].pc \in {"reading", "telling"}
    /\ Ends(r)
    /\ UNCHANGED <<turn, late, tool, open, proc, active, terminal, call, told, marked, faults>>

\* The client is gone while the generator yields: GeneratorExit, which only the finally
\* block sees, and that acts only if the leader still runs.
Closed(r) ==
    /\ ~open[r] /\ stream[r].pc \in {"reading", "telling"}
    /\ IF LeaderRuns(r) THEN Goes(r, "closing") ELSE Ends(r)
    /\ UNCHANGED <<turn, late, tool, open, proc, active, terminal, call, told, marked, faults>>

Abandoned(r) ==
    /\ stream[r].pc \in {"cancelling", "closing"}
    /\ \E stuck \in SUBSET Tagged(TurnOf[r]) :
        /\ Terminate(TurnOf[r], stuck)
        /\ Concludes(r, "noting", "cancelled", Confirmed(TurnOf[r], stuck))
    /\ UNCHANGED <<turn, late, tool, open, active, terminal, call, told, marked>>

Note(r) ==
    /\ At(r, "noting")
    /\ Remembered(TurnOf[r], stream[r].rec)
    /\ Ends(r)
    /\ UNCHANGED <<turn, late, tool, open, proc, call, told, marked, faults>>

-----------------------------------------------------------------------------
(* cancel_kuncode and those who call it.                                   *)

Done(c) == call' = [call EXCEPT ![c] = [pc |-> "over", run |-> None]]

\* The caller has its answer, unless it has given up before; interrupt_agent then tells the
\* turn to stop.
Answer(c, yes) ==
    /\ told' = [told EXCEPT ![c] = IF @ = None THEN yes ELSE @]
    /\ turn' = IF c \in Stoppers
               THEN [turn EXCEPT ![StopOf[c]] = IF @ = "on" THEN "stopping" ELSE @]
               ELSE turn

\* The router's answer: a stopper that is told "not confirmed" asks for the status.
Reply(c, yes) ==
    IF yes \/ c \in Runs
    THEN Done(c) /\ Answer(c, yes)
    ELSE call' = [call EXCEPT ![c].pc = "polling"] /\ UNCHANGED <<told, turn>>

\* What is known of an id that no run is registered under; of an unknown one all is well.
AtRest(e) == terminal[e] = None \/ terminal[e].confirmed

\* _terminate_sandbox_execution: a process that does not run the turn has nothing to stop.
Stop(c) ==
    LET e == StopOf[c] IN
    /\ call[c].pc = "none"
    /\ IF c \in Remote \/ turn[e] = "off"
       THEN Done(c) /\ Answer(c, TRUE)
       ELSE call' = [call EXCEPT ![c].pc = "asked"] /\ UNCHANGED <<told, turn>>
    /\ UNCHANGED <<late, tool, open, stream, proc, active, terminal, marked, faults>>

\* A reason the router does not know.
WhyBroken(c) == IF late[About[c]] THEN "timeout" ELSE "failed"

\* (A stopper behind the deadline is the handler of the deadline; that an interrupt as late
\* as that says "cancelled" makes no difference here.)
Why(c) == IF late[About[c]] THEN "timeout" ELSE "cancelled"

\* cancel_kuncode finds no run under the id.
ReachNone(c) ==
    /\ call[c].pc = "asked" /\ active[About[c]] = None
    /\ Reply(c, AtRest(About[c]))
    /\ UNCHANGED <<late, tool, open, stream, proc, active, terminal, marked, faults>>

\* It finds one, marks it and goes on to terminate it.
Reach(c) ==
    LET e == About[c]
        r == active[e].run
    IN  /\ call[c].pc = "asked" /\ active[e] # None
        /\ active' = [active EXCEPT ![e].reason = Why(c)]
        /\ call' = [call EXCEPT ![c] = [pc |-> "ending", run |-> r]]
        /\ marked' = IF LeaderRuns(r) THEN marked \cup {r} ELSE marked
        /\ UNCHANGED <<turn, late, tool, open, stream, proc, terminal, told, faults>>

\* The processes are terminated, the end is recorded and answered.
Ended(c) ==
    LET e == About[c] IN
    /\ call[c].pc = "ending"
    /\ \E stuck \in SUBSET Tagged(e) :
        LET yes == Confirmed(e, stuck) IN
        /\ Terminate(e, stuck)
        /\ Remembered(e, [reason |-> Why(c), confirmed |-> yes, run |-> call[c].run])
        /\ Reply(c, yes)
    /\ UNCHANGED <<late, tool, open, stream, marked>>

\* The last kuncode_process_status within the time for the confirmation.
Poll(c) ==
    LET e == About[c] IN
    /\ call[c].pc = "polling"
    /\ Done(c)
    /\ Answer(c, active[e] = None /\ AtRest(e))
    /\ UNCHANGED <<late, tool, open, stream, proc, active, terminal, marked, faults>>

\* The request or the answer is lost: the caller takes the termination for unconfirmed.
Unanswered(c) ==
    /\ call[c].pc \in {"asked", "ending", "polling"} /\ told[c] = None /\ Fault
    /\ Answer(c, FALSE)
    /\ \/ call[c].pc = "asked" /\ Done(c)
       \/ UNCHANGED call
    /\ UNCHANGED <<late, tool, open, stream, proc, active, terminal, marked>>

-----------------------------------------------------------------------------
Router(r) ==
    \/ Admit(r) \/ Spawn(r) \/ Register(r) \/ TimesOut(r) \/ Stopped(r) \/ Exited(r) \/ Swept(r)
    \/ Tell(r) \/ Interrupted(r) \/ Closed(r) \/ Abandoned(r) \/ Note(r)

Caller(c) == Reach(c) \/ ReachNone(c) \/ Ended(c) \/ Poll(c)

Next ==
    \/ \E r \in Runs : Router(r) \/ CreateFails(r) \/ Eof(r)
    \/ \E r \in Runs : Fork(r) \/ LeaderExits(r) \/ KidsExit(r) \/ Dies(r)
    \/ \E r \in Runs : Call(r) \/ GiveUp(r) \/ CancelTool(r)
    \/ \E e \in Turns : Deadline(e) \/ TurnEnds(e)
    \/ \E c \in Stoppers : Stop(c)
    \/ \E c \in Callers : Caller(c) \/ Unanswered(c)

Spec == Init /\ [][Next]_vars

\* The router's loop runs, time passes, the HTTP client times out behind the deadline, and
\* a killed process dies in the end; nothing is assumed of KunCode itself.
\* (Each takes its steps a bounded number of times: fairness of all is fairness of each.)
Fairness ==
    /\ WF_vars(\E r \in Runs : Router(r))
    /\ WF_vars(\E r \in Runs : Dies(r))
    /\ WF_vars(\E r \in Runs : late[TurnOf[r]] /\ GiveUp(r))
    /\ WF_vars(\E e \in Turns : Deadline(e))
    /\ WF_vars(\E c \in Callers : Caller(c))

FairSpec == Spec /\ Fairness

-----------------------------------------------------------------------------
(* Properties.                                                             *)

\* A record that says "confirmed" of a run is true of it and stays true: its leader and all
\* it has forked are gone, whoever wrote the record and whoever else was terminating
\* meanwhile (kuncode_stream.py, _terminate_process_group, cancel_kuncode).
ConfirmedIsDead ==
    \A e \in Turns : terminal[e] # None /\ terminal[e].confirmed => ~Alive(terminal[e].run)

\* A run that was cancelled while it ran is not told to its client as a success, whether
\* the cancel is still under way or already recorded when the run ends
\* (kuncode_stream.py:470-475).  Only an earlier run of the turn whose client has given its
\* connection up can hide the cancel: its stream goes on behind the later run and shares the
\* id with it, and with the id the entries of _active_executions and _terminal_executions.
\* A run that was told its result, a failure included, hides nothing of the runs after it.
CancelledNotSuccess ==
    \A r \in marked : tool[r] = "success" =>
        \E x \in Runs : TurnOf[x] = TurnOf[r] /\ x < r /\ tool[x] = "incomplete"

\* Every stream that was posted comes to its end and the leader of its process group with it:
\* whether the process is silent, closes its output and goes on, or is cancelled, and whether
\* the client waits, gives up or is lost at an await or at a yield
\* (kuncode_stream.py:344-588).  What the leader forked may survive a client that is lost at
\* a yield.
StreamsEnd ==
    <>[](\A r \in Runs : stream[r].pc \in {"none", "over"} /\ ~LeaderRuns(r))

\* An interrupt that reports the termination confirmed has stopped the turn's processes
\* (agent_service.py:2625).
ConfirmedMeansStopped ==
    [][\A c \in Stoppers :
        told[c] # TRUE /\ told'[c] = TRUE =>
            \A r \in Runs : TurnOf[r] = StopOf[c] => ~Alive(r)']_vars
=============================================================================
