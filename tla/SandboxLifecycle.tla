-------------------------- MODULE SandboxLifecycle --------------------------
(***************************************************************************)
(* The lifecycle of the sandbox container a chat session works in:         *)
(* app/services/sandbox_lifecycle_service.py over the sandbox_bindings     *)
(* table, the Redis keys it consults and the AgentScope Runtime it drives. *)
(*                                                                         *)
(* Workers are asyncio tasks of the service's processes: chat turns, the   *)
(* reconcile loop, the administrator's release and the session deletion.   *)
(* Every await that reads or writes shared state is a step, so the checks  *)
(* a task makes may be stale when it acts on them.                         *)
(***************************************************************************)
EXTENDS Naturals, FiniteSets

CONSTANTS
    Sessions,          \* session ids
    Boxes,             \* container ids the Runtime may hand out
    Workers,           \* concurrent asyncio tasks
    Processes,         \* OS processes (uvicorn, Celery workers)
    None,              \* "no value"
    Left,              \* the token of a task that left its lock key behind
    Home,              \* Home[w]: the process worker w runs in
    Roles,             \* Roles[w]: the operations worker w may start
    TurnKinds,         \* "sync" = POST /chat, "async" = POST /async + task runner
    MaxActive,         \* SANDBOX_MAX_ACTIVE_CONTAINERS
    MaxAttempts,       \* SANDBOX_MAX_RELEASE_ATTEMPTS
    AttemptCap,        \* model bound: higher counts of attempts are not told apart
    RuntimeFlaky,      \* the Runtime may fail, refuse or be unverifiable
    RedisMayFail,      \* Redis calls of the guard and of the task check may raise
    LockMayExpire,     \* the 60 s lock key may lapse under a live holder
    Deadlines,         \* asyncio.timeout may cancel a turn inside acquire
    Mortal             \* processes that may die; one that restarts is a new one

ASSUME ConstantsAssumption ==
    /\ {None, Left} \cap (Sessions \cup Boxes \cup Workers) = {} /\ None # Left
    /\ Home \in [Workers -> Processes]
    /\ Roles \in [Workers -> SUBSET {"turn", "reconcile", "release", "delete", "interrupt"}]
    /\ TurnKinds \subseteq {"sync", "async"}
    /\ MaxActive \in Nat \ {0} /\ MaxAttempts \in Nat \ {0}
    /\ AttemptCap \in Nat /\ MaxAttempts <= AttemptCap
    /\ {RuntimeFlaky, RedisMayFail, LockMayExpire, Deadlines} \subseteq BOOLEAN
    /\ Mortal \subseteq Processes

VARIABLES
    binding,    \* sandbox_bindings: one row per session (NoRow when absent)
    owner,      \* Runtime: the session a registered container belongs to
    sick,       \* Runtime: registered containers whose health check fails
    ghost,      \* Runtime calls whose caller was cancelled or died
    redisLock,  \* key sandbox_lifecycle_lock:{session}
    localLock,  \* _local_locks of each process
    marker,     \* key session_task:{session}: the turn it names
    agents,     \* _active_agents of each process
    job,        \* the operation each worker is in
    call        \* the release() a worker is inside of

vars == <<binding, owner, sick, ghost, redisLock, localLock, marker, agents, job, call>>
rtVars == <<owner, sick, ghost>>
lockVars == <<redisLock, localLock>>
taskVars == <<marker, agents>>

-----------------------------------------------------------------------------
(* Rows of sandbox_bindings                                                *)

Statuses == {"NONE", "ACTIVE", "IDLE", "RELEASING", "RELEASED", "ORPHANED", "FAILED"}
Leases == {"none", "live", "expired"}
Row == [status : Statuses, box : Boxes \cup {None}, lease : Leases, attempts : Nat]
NoRow == [status |-> "NONE", box |-> None, lease |-> "none", attempts |-> 0]
NoList == [s \in Sessions |-> NoRow]

With(row, status, lease) == [status |-> status, box |-> row.box, lease |-> lease,
                             attempts |-> row.attempts]

\* Mutant: the UPDATE forgets sandbox_id.
UpdatedKeepsBox(s, row) ==
    IF binding[s].status = "NONE" THEN binding
    ELSE [binding EXCEPT ![s] = [status |-> row.status, box |-> binding[s].box,
                                 lease |-> row.lease, attempts |-> row.attempts]]

\* SandboxBindingRepository.update: an UPDATE of a missing row changes nothing.
Updated(s, row) == IF binding[s].status = "NONE" THEN binding
                   ELSE [binding EXCEPT ![s] = row]

-----------------------------------------------------------------------------
(* Workers                                                                 *)

AcquirePcs == {"acq_guard", "acq_verify", "acq_reuse", "acq_renew", "acq_mark",
               "acq_detach", "acq_capacity", "acq_evict", "acq_evicting",
               "acq_create", "acq_bind", "acq_undo", "acq_leave", "acq_leave_del"}
\* The turn has its sandbox and has not yet given it back.
HoldPcs == {"inject", "preparing", "running"}
TurnPcs == AcquirePcs \cup HoldPcs \cup {"idle_read", "idle_write", "end", "end_del"}
JobPcs == TurnPcs \cup {"idle", "rec_scan", "rec_orphan", "rec_wait",
                        "rel_wait", "del_wait", "del_row", "dead"}
CallPcs == {"off", "guard", "check", "mark", "runtime", "confirm", "fail",
            "commit", "leave", "leave_del", "done"}
Results == Statuses \cup {"ok", "error", "reread"}

Job == [pc : JobPcs, kind : {"sync", "async"}, sess : Sessions \cup {None}, snap : Row,
        box : Boxes \cup {None}, list : [Sessions -> Row], res : Results]
Call == [pc : CallPcs, sess : Sessions \cup {None}, force : BOOLEAN, retry : BOOLEAN,
         row : Row, res : Results]

JobAt(l, k, s) == [pc |-> l, kind |-> k, sess |-> s, snap |-> NoRow,
                   box |-> None, list |-> NoList, res |-> "ok"]
IdleJob == JobAt("idle", "sync", None)
DeadJob == JobAt("dead", "sync", None)
CallAt(l, s, force, retry) == [pc |-> l, sess |-> s, force |-> force, retry |-> retry,
                               row |-> NoRow, res |-> "ok"]
NoCall == CallAt("off", None, FALSE, FALSE)

Become(w, j) == job' = [job EXCEPT ![w] = j]
Idle(w) == Become(w, IdleJob)

\* w goes on at l, with these local values.
JobTo(w, l, snap, box, list, res) ==
    Become(w, [pc |-> l, kind |-> job[w].kind, sess |-> job[w].sess, snap |-> snap,
               box |-> box, list |-> list, res |-> res])
Goto(w, l) == JobTo(w, l, job[w].snap, job[w].box, job[w].list, job[w].res)
GotoWith(w, l, r) == JobTo(w, l, job[w].snap, job[w].box, job[w].list, r)
GotoBox(w, l, b) == JobTo(w, l, job[w].snap, b, job[w].list, job[w].res)
GotoList(w, l, li) == JobTo(w, l, job[w].snap, job[w].box, li, job[w].res)
Without(w, s) == [job[w].list EXCEPT ![s] = NoRow]

CallTo(w, l, row, res) ==
    call' = [call EXCEPT ![w] = [pc |-> l, sess |-> call[w].sess, force |-> call[w].force,
                                 retry |-> call[w].retry, row |-> row, res |-> res]]
CallGoto(w, l) == CallTo(w, l, call[w].row, call[w].res)
CallGotoWith(w, l, r) == CallTo(w, l, call[w].row, r)
Begin(w, s, force, retry) == call' = [call EXCEPT ![w] = CallAt("guard", s, force, retry)]
Return(w) == call' = [call EXCEPT ![w] = NoCall]

\* w is inside the guarded region of acquire, respectively of release.
AcquireHolds(w, s) == job[w].sess = s /\ job[w].pc \in AcquirePcs \ {"acq_guard"}
ReleaseHolds(w, s) == call[w].sess = s /\ call[w].pc \notin {"off", "guard", "done"}
InGuard(w, s) == AcquireHolds(w, s) \/ ReleaseHolds(w, s)

Holds(w, s) == job[w].sess = s /\ job[w].pc \in HoldPcs

Init ==
    /\ binding = NoList
    /\ owner = [b \in Boxes |-> None]
    /\ sick = {} /\ ghost = {}
    /\ redisLock = [s \in Sessions |-> None]
    /\ localLock = [p \in Processes |-> [s \in Sessions |-> None]]
    /\ marker = [s \in Sessions |-> None]
    /\ agents = [p \in Processes |-> {}]
    /\ job = [w \in Workers |-> IdleJob]
    /\ call = [w \in Workers |-> NoCall]

-----------------------------------------------------------------------------
(* _session_guard: an asyncio lock per process, then a Redis SET NX EX 60. *)
(* A waiter gives up after 60 polls; a Redis error lets it go on without.  *)

\* Mutants: the guard without its Redis key, respectively without its local lock.
EnterGuardLocal(w, s) ==
    /\ localLock[Home[w]][s] = None
    /\ redisLock' = [redisLock EXCEPT ![s] = w]
    /\ localLock' = [localLock EXCEPT ![Home[w]][s] = w]

EnterGuardRemote(w, s) ==
    /\ \/ redisLock[s] = None /\ redisLock' = [redisLock EXCEPT ![s] = w]
       \/ RedisMayFail /\ UNCHANGED redisLock
    /\ localLock' = [localLock EXCEPT ![Home[w]][s] = w]

EnterGuard(w, s) ==
    /\ localLock[Home[w]][s] = None
    /\ \/ redisLock[s] = None /\ redisLock' = [redisLock EXCEPT ![s] = w]
       \/ RedisMayFail /\ UNCHANGED redisLock
    /\ localLock' = [localLock EXCEPT ![Home[w]][s] = w]

GuardBusy(w, s) == localLock[Home[w]][s] = None /\ redisLock[s] # None

Unlocal(w, s) == localLock' = [localLock EXCEPT ![Home[w]][s] = None]

\* The finally block reads the key and, in a second call, deletes it.
TokenSeen(w, s) == redisLock[s] = w
DropKey(s) == redisLock' = [redisLock EXCEPT ![s] = None]

\* A finally block that failed or was cancelled leaves the key to its expiry.
AbandonKey(w, s) ==
    redisLock' = IF TokenSeen(w, s) THEN [redisLock EXCEPT ![s] = Left] ELSE redisLock

-----------------------------------------------------------------------------
(* The Runtime, as the service uses it                                     *)

BoxesOf(s) == {b \in Boxes : owner[b] = s}

\* Container ids are never handed out twice: a fresh one is named nowhere.
Fresh(b) ==
    /\ owner[b] = None
    /\ \A s \in Sessions : binding[s].box # b
    /\ \A w \in Workers :
          /\ b \notin {job[w].box, job[w].snap.box, call[w].row.box}
          /\ \A s \in Sessions : job[w].list[s].box # b

\* sandbox_service.connect: the session's container, created when it has none.
Connect(s, b) ==
    \/ /\ b \in BoxesOf(s)
       /\ UNCHANGED <<owner, sick>>
    \/ /\ BoxesOf(s) = {}
       /\ Fresh(b)
       /\ owner' = [owner EXCEPT ![b] = s]
       /\ sick' = sick \ {b}

\* A connect that raised, before or after it took effect.
ConnectLost(s) == UNCHANGED <<owner, sick>> \/ \E b \in Boxes : Connect(s, b)

\* sandbox_service.release: the session's mapping and its containers go.
Unregister(s) ==
    /\ owner' = [b \in Boxes |-> IF owner[b] = s THEN None ELSE owner[b]]
    /\ sick' = sick \ BoxesOf(s)

\* _verify_runtime: get_info, then check_health.
Verdicts(b) ==
    (IF b \in Boxes /\ owner[b] # None /\ b \notin sick THEN {"up"} ELSE {"missing"})
        \cup (IF RuntimeFlaky THEN {"unknown"} ELSE {})

\* docker ps -aq --filter name=data-sandbox-
ContainerCount == Cardinality({b \in Boxes : owner[b] # None})

\* Mutant: only this process's own agents count.
ActiveAnswersHere(w, s) == {s \in agents[Home[w]]}

\* _has_active_task, in the process of w; a Redis failure counts as activity.
ActiveAnswers(w, s) ==
    {marker[s] # None \/ s \in agents[Home[w]]}
        \cup (IF RedisMayFail THEN {TRUE} ELSE {})

BoxBreaks(b) ==
    /\ owner[b] # None
    /\ \/ b \notin sick /\ sick' = sick \cup {b} /\ UNCHANGED owner
       \/ owner' = [owner EXCEPT ![b] = None] /\ sick' = sick \ {b}
    /\ UNCHANGED <<binding, ghost, redisLock, localLock, marker, agents, job, call>>

\* A call whose caller is gone still runs to its end in its thread.
GhostConnect(s) ==
    /\ <<"connect", s>> \in ghost
    /\ \E b \in Boxes : Connect(s, b)
    /\ ghost' = ghost \ {<<"connect", s>>}
    /\ UNCHANGED <<binding, redisLock, localLock, marker, agents, job, call>>

GhostRelease(s) ==
    /\ <<"release", s>> \in ghost
    /\ Unregister(s)
    /\ ghost' = ghost \ {<<"release", s>>}
    /\ UNCHANGED <<binding, redisLock, localLock, marker, agents, job, call>>

-----------------------------------------------------------------------------
(* acquire, called by a chat turn before anything else                     *)

StartTurn(w, s, k) ==
    /\ "turn" \in Roles[w] /\ job[w].pc = "idle"
    /\ Become(w, JobAt("acq_guard", k, s))
    \* submit_async_task names the task before it is scheduled; /chat never does.
    /\ marker' = IF k = "async" THEN [marker EXCEPT ![s] = w] ELSE marker
    /\ UNCHANGED <<binding, rtVars, lockVars, agents, call>>

AcqEnter(w) ==
    LET s == job[w].sess
        row == binding[s]
    IN  /\ job[w].pc = "acq_guard"
        /\ EnterGuard(w, s)
        /\ \/ /\ row.status \in {"ACTIVE", "IDLE"}
              /\ JobTo(w, "acq_verify", row, None, NoList, "ok")
           \/ /\ row.status = "ORPHANED"
              /\ JobTo(w, "acq_detach", row, None, NoList, "ok")
           \/ /\ row.status \in {"RELEASING", "FAILED"}
              /\ JobTo(w, "acq_leave", row, None, NoList, "error")
           \/ /\ row.status \in {"NONE", "RELEASED"}
              /\ JobTo(w, "acq_capacity", row, None, NoList, "ok")
        /\ UNCHANGED <<binding, rtVars, taskVars, call>>

AcqBusy(w) ==
    /\ job[w].pc = "acq_guard"
    /\ GuardBusy(w, job[w].sess)
    /\ Goto(w, "end")
    /\ UNCHANGED <<binding, rtVars, lockVars, taskVars, call>>

AcqVerify(w) ==
    /\ job[w].pc = "acq_verify"
    /\ \E v \in Verdicts(job[w].snap.box) :
          \/ v = "up" /\ Goto(w, "acq_reuse")
          \/ v = "missing" /\ Goto(w, "acq_mark")
          \/ v = "unknown" /\ GotoWith(w, "acq_leave", "error")
    /\ UNCHANGED <<binding, rtVars, lockVars, taskVars, call>>

AcqReuse(w) ==
    /\ job[w].pc = "acq_reuse"
    /\ \/ \E b \in Boxes :
             /\ Connect(job[w].sess, b)
             /\ GotoBox(w, "acq_renew", b)
       \/ /\ RuntimeFlaky   \* connect returned nothing, or raised
          /\ \/ Goto(w, "acq_mark") /\ UNCHANGED <<owner, sick>>
             \/ GotoWith(w, "acq_leave", "error") /\ ConnectLost(job[w].sess)
    /\ UNCHANGED <<binding, ghost, lockVars, taskVars, call>>

\* The reuse path keeps release_attempts; the row may have been deleted.
AcqRenew(w) ==
    LET s == job[w].sess IN
    /\ job[w].pc = "acq_renew"
    /\ binding' = Updated(s, [status |-> "ACTIVE", box |-> job[w].box, lease |-> "live",
                              attempts |-> binding[s].attempts])
    /\ GotoWith(w, "acq_leave", IF binding[s].status = "NONE" THEN "error" ELSE "ok")
    /\ UNCHANGED <<rtVars, lockVars, taskVars, call>>

AcqMark(w) ==
    LET s == job[w].sess IN
    /\ job[w].pc = "acq_mark"
    /\ binding' = Updated(s, With(binding[s], "ORPHANED", "none"))
    /\ Goto(w, "acq_detach")
    /\ UNCHANGED <<rtVars, lockVars, taskVars, call>>

\* _detach_stale_runtime swallows every failure.
Detach(w, l) ==
    /\ \/ Unregister(job[w].sess)
       \/ RuntimeFlaky /\ UNCHANGED <<owner, sick>>
    /\ Goto(w, l)
    /\ UNCHANGED <<binding, ghost, lockVars, taskVars, call>>

AcqDetach(w) == job[w].pc = "acq_detach" /\ Detach(w, "acq_capacity")
AcqUndo(w) == job[w].pc = "acq_undo" /\ Detach(w, "acq_leave")

\* _ensure_capacity: count, and on a full house read the idle rows.
AcqCapacity(w) ==
    LET s == job[w].sess IN
    /\ job[w].pc = "acq_capacity"
    /\ \/ /\ ContainerCount < MaxActive
          /\ Goto(w, "acq_create")
       \/ /\ ContainerCount >= MaxActive
          /\ GotoList(w, "acq_evict",
                [x \in Sessions |-> IF x # s /\ binding[x].status = "IDLE"
                                    THEN binding[x] ELSE NoRow])
       \/ RuntimeFlaky /\ GotoWith(w, "acq_leave", "error")
    /\ UNCHANGED <<binding, rtVars, lockVars, taskVars, call>>

\* Rows come oldest activity first; which one that is, the model leaves open.
AcqEvict(w) ==
    /\ job[w].pc = "acq_evict"
    /\ \/ \E x \in Sessions :
             /\ job[w].list[x] # NoRow
             /\ \E active \in ActiveAnswers(w, x) :
                   \/ /\ active
                      /\ GotoList(w, "acq_evict", Without(w, x))
                      /\ UNCHANGED call
                   \/ /\ ~active
                      /\ GotoList(w, "acq_evicting", Without(w, x))
                      /\ Begin(w, x, FALSE, FALSE)
       \/ /\ job[w].list = NoList
          /\ GotoWith(w, "acq_leave", "error")
          /\ UNCHANGED call
    /\ UNCHANGED <<binding, rtVars, lockVars, taskVars>>

AcqEvicted(w) ==
    /\ job[w].pc = "acq_evicting" /\ call[w].pc = "done"
    /\ \/ /\ call[w].res = "RELEASED"
          /\ GotoList(w, "acq_capacity", NoList)
       \/ call[w].res = "error" /\ GotoWith(w, "acq_leave", "error")
       \/ call[w].res \notin {"RELEASED", "error"} /\ Goto(w, "acq_evict")
    /\ Return(w)
    /\ UNCHANGED <<binding, rtVars, lockVars, taskVars>>

AcqCreate(w) ==
    /\ job[w].pc = "acq_create"
    /\ \/ \E b \in Boxes :
             /\ Connect(job[w].sess, b)
             /\ GotoBox(w, "acq_bind", b)
       \/ /\ RuntimeFlaky
          /\ GotoWith(w, "acq_leave", "error")
          /\ ConnectLost(job[w].sess)
    /\ UNCHANGED <<binding, ghost, lockVars, taskVars, call>>

Bound(b) == [status |-> "ACTIVE", box |-> b, lease |-> "live", attempts |-> 0]

\* An INSERT when acquire saw no row (the session id is unique), else an UPDATE.
AcqBind(w) ==
    LET s == job[w].sess
        absent == binding[s].status = "NONE"
    IN  /\ job[w].pc = "acq_bind"
        /\ \/ /\ job[w].snap.status = "NONE" /\ absent
              /\ binding' = [binding EXCEPT ![s] = Bound(job[w].box)]
              /\ Goto(w, "acq_leave")
           \/ /\ job[w].snap.status = "NONE" /\ ~absent
              /\ GotoWith(w, "acq_undo", "error")
              /\ UNCHANGED binding
           \/ /\ job[w].snap.status # "NONE"
              /\ binding' = Updated(s, Bound(job[w].box))
              /\ GotoWith(w, "acq_leave", IF absent THEN "error" ELSE "ok")
        /\ UNCHANGED <<rtVars, lockVars, taskVars, call>>

AfterAcquire(w) ==
    Become(w, JobAt(IF job[w].res = "ok" THEN "inject" ELSE "end",
                    job[w].kind, job[w].sess))

AcqLeave(w) ==
    LET s == job[w].sess IN
    /\ \/ /\ job[w].pc = "acq_leave" /\ TokenSeen(w, s)
          /\ Goto(w, "acq_leave_del")
          /\ UNCHANGED lockVars
       \/ /\ job[w].pc = "acq_leave" /\ ~TokenSeen(w, s)
          /\ AfterAcquire(w)
          /\ Unlocal(w, s) /\ UNCHANGED redisLock
       \/ /\ job[w].pc = "acq_leave_del"
          /\ AfterAcquire(w)
          /\ Unlocal(w, s) /\ DropKey(s)
       \/ /\ job[w].pc \in {"acq_leave", "acq_leave_del"} /\ RedisMayFail
          /\ AfterAcquire(w)
          /\ Unlocal(w, s) /\ AbandonKey(w, s)
    /\ UNCHANGED <<binding, rtVars, taskVars, call>>

-----------------------------------------------------------------------------
(* The rest of a chat turn, as far as the sandbox is concerned             *)

\* Files are migrated and the configuration injected; a failure or a timeout
\* here leaves _chat_impl before its try, so mark_idle is never reached.
Injected(w) ==
    /\ job[w].pc = "inject"
    /\ Goto(w, "preparing") \/ Goto(w, "end")
    /\ UNCHANGED <<binding, rtVars, lockVars, taskVars, call>>

RegisterAgent(w) ==
    /\ job[w].pc = "preparing"
    /\ Goto(w, "running")
    /\ agents' = [agents EXCEPT ![Home[w]] = @ \cup {job[w].sess}]
    /\ UNCHANGED <<binding, rtVars, lockVars, marker, call>>

\* heartbeat writes ACTIVE and a new lease whatever the row says.
Heartbeat(w) ==
    LET s == job[w].sess IN
    /\ job[w].pc \in {"preparing", "running"}
    /\ binding' = Updated(s, With(binding[s], "ACTIVE", "live"))
    /\ UNCHANGED <<rtVars, lockVars, taskVars, job, call>>

\* The finally block of _chat_impl.
FinishTurn(w) ==
    /\ job[w].pc \in {"preparing", "running"}
    /\ Goto(w, "idle_read")
    /\ agents' = [agents EXCEPT ![Home[w]] = @ \ {job[w].sess}]
    /\ UNCHANGED <<binding, rtVars, lockVars, marker, call>>

MarkIdleRead(w) ==
    /\ job[w].pc = "idle_read"
    /\ Goto(w, IF binding[job[w].sess].status \in {"ACTIVE", "IDLE"}
               THEN "idle_write" ELSE "end")
    /\ UNCHANGED <<binding, rtVars, lockVars, taskVars, call>>

MarkIdleWrite(w) ==
    LET s == job[w].sess IN
    /\ job[w].pc = "idle_write"
    /\ binding' = Updated(s, With(binding[s], "IDLE", "none"))
    /\ Goto(w, "end")
    /\ UNCHANGED <<rtVars, lockVars, taskVars, call>>

\* The task runner clears session_task when it still names its task: a GET,
\* then a DEL of whatever the key names by then.
EndTurn(w) ==
    /\ \/ /\ job[w].pc = "end" /\ job[w].kind = "async" /\ marker[job[w].sess] = w
          /\ Goto(w, "end_del") /\ UNCHANGED marker
       \/ /\ job[w].pc = "end" /\ ~(job[w].kind = "async" /\ marker[job[w].sess] = w)
          /\ Idle(w) /\ UNCHANGED marker
       \/ /\ job[w].pc = "end_del"
          /\ Idle(w) /\ marker' = [marker EXCEPT ![job[w].sess] = None]
    /\ UNCHANGED <<binding, rtVars, lockVars, agents, call>>

-----------------------------------------------------------------------------
(* release and _release_bound_runtime, as a call made by worker w          *)

RelEnter(w) ==
    LET s == call[w].sess
        row == binding[s]
    IN  /\ call[w].pc = "guard"
        /\ EnterGuard(w, s)
        /\ \/ /\ row.status \in {"NONE", "RELEASED"}
              /\ CallGotoWith(w, "leave", row.status)
           \/ /\ row.status = "FAILED" /\ ~call[w].retry
              /\ CallGotoWith(w, "leave", "FAILED")
           \/ /\ row.status \notin {"NONE", "RELEASED"}
              /\ row.status = "FAILED" => call[w].retry
              /\ CallTo(w, "check", row, call[w].res)
        /\ UNCHANGED <<binding, rtVars, taskVars, job>>

RelBusy(w) ==
    /\ call[w].pc = "guard"
    /\ GuardBusy(w, call[w].sess)
    /\ CallGotoWith(w, "done", "error")
    /\ UNCHANGED <<binding, rtVars, lockVars, taskVars, job>>

RelCheck(w) ==
    /\ call[w].pc = "check"
    /\ \/ call[w].force /\ CallGoto(w, "mark")
       \/ /\ ~call[w].force
          /\ \E active \in ActiveAnswers(w, call[w].sess) :
                \/ active /\ CallGotoWith(w, "leave", "error")
                \/ ~active /\ CallGoto(w, "mark")
    /\ UNCHANGED <<binding, rtVars, lockVars, taskVars, job>>

\* RELEASING is written before the Runtime is touched; FAILED starts over.
RelMark(w) ==
    LET s == call[w].sess
        again == call[w].row.status = "FAILED"
        row == [status |-> "RELEASING", box |-> binding[s].box,
                lease |-> IF again THEN binding[s].lease ELSE "none",
                attempts |-> IF again THEN 0 ELSE binding[s].attempts]
    IN  /\ call[w].pc = "mark"
        /\ \/ /\ call[w].row.status = "RELEASING"
              /\ CallGoto(w, "runtime") /\ UNCHANGED binding
           \/ /\ call[w].row.status # "RELEASING" /\ binding[s].status # "NONE"
              /\ binding' = [binding EXCEPT ![s] = row]
              /\ CallTo(w, "runtime", row, call[w].res)
           \/ /\ call[w].row.status # "RELEASING" /\ binding[s].status = "NONE"
              /\ CallGotoWith(w, "leave", "error") /\ UNCHANGED binding
        /\ UNCHANGED <<rtVars, lockVars, taskVars, job>>

RelRuntime(w) ==
    /\ call[w].pc = "runtime"
    /\ \/ Unregister(call[w].sess) /\ CallGoto(w, "confirm")
       \/ /\ RuntimeFlaky   \* refused, or the answer was lost
          /\ Unregister(call[w].sess) \/ UNCHANGED <<owner, sick>>
          /\ CallGoto(w, "fail")
    /\ UNCHANGED <<binding, ghost, lockVars, taskVars, job>>

Registered(b) == b \in Boxes /\ owner[b] # None

RelConfirm(w) ==
    /\ call[w].pc = "confirm"
    /\ \/ ~Registered(call[w].row.box) /\ CallGoto(w, "commit")
       \/ Registered(call[w].row.box) /\ CallGoto(w, "fail")
       \/ RuntimeFlaky /\ CallGoto(w, "fail")
    /\ UNCHANGED <<binding, rtVars, lockVars, taskVars, job>>

\* Mutant: the counter counts the attempts that are left.
OneLess(n) == n - 1

\* release_attempts + 1, which nothing in the code bounds: a FAILED row that a late
\* heartbeat makes ACTIVE again goes past MaxAttempts at its next failure.
OneMore(n) == IF n < AttemptCap THEN n + 1 ELSE n

RelFail(w) ==
    LET s == call[w].sess
        n == OneMore(call[w].row.attempts)
    IN  /\ call[w].pc = "fail"
        /\ binding' = Updated(s,
              [status |-> IF n >= MaxAttempts THEN "FAILED" ELSE "RELEASING",
               box |-> binding[s].box, lease |-> "none", attempts |-> n])
        /\ CallGotoWith(w, "leave", "reread")
        /\ UNCHANGED <<rtVars, lockVars, taskVars, job>>

RelCommit(w) ==
    LET s == call[w].sess IN
    /\ call[w].pc = "commit"
    /\ binding' = Updated(s,
          [status |-> "RELEASED", box |-> binding[s].box, lease |-> "none",
           attempts |-> call[w].row.attempts])
    /\ CallGotoWith(w, "leave", "reread")
    /\ UNCHANGED <<rtVars, lockVars, taskVars, job>>

\* The row is read back before the guard is left; a deleted one is an error.
Outcome(w) ==
    LET status == binding[call[w].sess].status IN
    IF call[w].res # "reread" THEN call[w].res
    ELSE IF status = "NONE" THEN "error" ELSE status

RelLeave(w) ==
    LET s == call[w].sess IN
    /\ \/ /\ call[w].pc = "leave" /\ TokenSeen(w, s)
          /\ CallGotoWith(w, "leave_del", Outcome(w))
          /\ UNCHANGED lockVars
       \/ /\ call[w].pc = "leave" /\ ~TokenSeen(w, s)
          /\ CallGotoWith(w, "done", Outcome(w))
          /\ Unlocal(w, s) /\ UNCHANGED redisLock
       \/ /\ call[w].pc = "leave_del"
          /\ CallGoto(w, "done")
          /\ Unlocal(w, s) /\ DropKey(s)
       \/ /\ call[w].pc \in {"leave", "leave_del"} /\ RedisMayFail
          /\ CallGotoWith(w, "done", Outcome(w))
          /\ Unlocal(w, s) /\ AbandonKey(w, s)
    /\ UNCHANGED <<binding, rtVars, taskVars, job>>

-----------------------------------------------------------------------------
(* reconcile: one list of rows, read once, then acted on row by row        *)

RecList(w) ==
    /\ "reconcile" \in Roles[w] /\ job[w].pc = "idle"
    /\ GotoList(w, "rec_scan",
          [s \in Sessions |->
              IF binding[s].status \in {"ACTIVE", "IDLE", "RELEASING", "FAILED"}
              THEN binding[s] ELSE NoRow])
    /\ UNCHANGED <<binding, rtVars, lockVars, taskVars, call>>

\* Lease expiry is in the row; whether an idle row is old enough is left open.
ReapDue(row) ==
    \/ row.status = "ACTIVE" /\ row.lease = "expired"
    \/ row.status = "IDLE"

\* Mutant: one retry too few.
RetryDueOneLess(row) == row.status = "RELEASING" /\ row.attempts + 1 < MaxAttempts

\* _release_retry_due: the budget is not spent and the backoff has passed.
RetryDue(row) == row.status = "RELEASING" /\ row.attempts < MaxAttempts

RecSkip(w, s) ==
    LET row == job[w].list[s] IN
    /\ job[w].pc = "rec_scan" /\ row # NoRow
    /\ row.status \in {"ACTIVE", "IDLE"} =>
          \/ "unknown" \in Verdicts(row.box)
          \/ "up" \in Verdicts(row.box) /\ (row.status = "IDLE" \/ ~ReapDue(row))
          \/ "up" \in Verdicts(row.box) /\ TRUE \in ActiveAnswers(w, s)
    /\ GotoList(w, "rec_scan", Without(w, s))
    /\ UNCHANGED <<binding, rtVars, lockVars, taskVars, call>>

RecRelease(w, s) ==
    LET row == job[w].list[s] IN
    /\ job[w].pc = "rec_scan"
    /\ \/ ReapDue(row) /\ "up" \in Verdicts(row.box)
       \/ RetryDue(row)
    /\ FALSE \in ActiveAnswers(w, s)
    /\ GotoList(w, "rec_wait", Without(w, s))
    /\ Begin(w, s, FALSE, FALSE)
    /\ UNCHANGED <<binding, rtVars, lockVars, taskVars>>

Scan(w, l, s, list) ==
    Become(w, [pc |-> l, kind |-> "sync", sess |-> s, snap |-> NoRow, box |-> None,
               list |-> list, res |-> "ok"])

RecMissing(w, s) ==
    LET row == job[w].list[s] IN
    /\ job[w].pc = "rec_scan" /\ row.status \in {"ACTIVE", "IDLE"}
    /\ "missing" \in Verdicts(row.box)
    /\ Scan(w, "rec_orphan", s, Without(w, s))
    /\ UNCHANGED <<binding, rtVars, lockVars, taskVars, call>>

\* Written without the guard, on the strength of the row listed at the start.
RecOrphan(w) ==
    LET s == job[w].sess IN
    /\ job[w].pc = "rec_orphan"
    /\ binding' = Updated(s, With(binding[s], "ORPHANED", "none"))
    /\ Scan(w, "rec_scan", None, job[w].list)
    /\ UNCHANGED <<rtVars, lockVars, taskVars, call>>

\* An exception of release ends the whole scan.
RecReturn(w) ==
    /\ job[w].pc = "rec_wait" /\ call[w].pc = "done"
    /\ IF call[w].res = "error" THEN Idle(w) ELSE Goto(w, "rec_scan")
    /\ Return(w)
    /\ UNCHANGED <<binding, rtVars, lockVars, taskVars>>

RecDone(w) ==
    /\ job[w].pc = "rec_scan" /\ job[w].list = NoList
    /\ Idle(w)
    /\ UNCHANGED <<binding, rtVars, lockVars, taskVars, call>>

-----------------------------------------------------------------------------
(* The administrator's release, the user's interrupt, session deletion     *)

StartRelease(w, s) ==
    /\ "release" \in Roles[w] /\ job[w].pc = "idle"
    /\ Goto(w, "rel_wait")
    /\ Begin(w, s, FALSE, TRUE)
    /\ UNCHANGED <<binding, rtVars, lockVars, taskVars>>

\* interrupt_agent clears session_task whichever task it names.
Interrupt(w, s) ==
    /\ "interrupt" \in Roles[w] /\ job[w].pc = "idle"
    /\ marker[s] # None
    /\ marker' = [marker EXCEPT ![s] = None]
    /\ UNCHANGED <<binding, rtVars, lockVars, agents, job, call>>

StartDelete(w, s) ==
    /\ "delete" \in Roles[w] /\ job[w].pc = "idle"
    /\ \/ /\ binding[s].status # "NONE"
          /\ Become(w, JobAt("del_wait", "sync", s))
          /\ marker' = [marker EXCEPT ![s] = None]
          /\ Begin(w, s, TRUE, TRUE)
       \/ /\ binding[s].status = "NONE"
          /\ Become(w, JobAt("del_row", "sync", s))
          /\ UNCHANGED <<marker, call>>
    /\ UNCHANGED <<binding, rtVars, lockVars, agents>>

\* Nothing is deleted unless the release is confirmed.
CallReturn(w) ==
    /\ job[w].pc \in {"rel_wait", "del_wait"} /\ call[w].pc = "done"
    /\ IF job[w].pc = "del_wait" /\ call[w].res = "RELEASED"
       THEN Goto(w, "del_row") ELSE Idle(w)
    /\ Return(w)
    /\ UNCHANGED <<binding, rtVars, lockVars, taskVars>>

DeleteRow(w) ==
    LET s == job[w].sess IN
    /\ job[w].pc = "del_row"
    /\ binding' = [binding EXCEPT ![s] = NoRow]
    /\ marker' = [marker EXCEPT ![s] = None]
    /\ Idle(w)
    /\ UNCHANGED <<rtVars, lockVars, agents, call>>

-----------------------------------------------------------------------------
(* Time and failure                                                        *)

\* A lease outlasts the deadline of the turn that took it (1800 s > 1500 s).
LeaseExpires(s) ==
    /\ binding[s].lease = "live"
    /\ \A w \in Workers : job[w].sess = s => job[w].pc \notin TurnPcs
    /\ binding' = [binding EXCEPT ![s] = With(binding[s], binding[s].status, "expired")]
    /\ UNCHANGED <<rtVars, lockVars, taskVars, job, call>>

\* The key of a dead holder always lapses; that of a live one may.
LockLapses(s) ==
    /\ redisLock[s] # None
    /\ LockMayExpire \/ \A w \in Workers : redisLock[s] = w => ~InGuard(w, s)
    /\ DropKey(s)
    /\ UNCHANGED <<binding, rtVars, localLock, taskVars, job, call>>

\* session_task expires an hour after the last event of a dead task.
MarkerLapses(s) ==
    /\ marker[s] # None
    /\ ~(job[marker[s]].sess = s /\ job[marker[s]].pc \in TurnPcs)
    /\ marker' = [marker EXCEPT ![s] = None]
    /\ UNCHANGED <<binding, rtVars, lockVars, agents, job, call>>

\* Runtime calls run in threads: they outlive the task that awaits them.
Abandoned(w) ==
    (IF job[w].pc \in {"acq_reuse", "acq_create"} THEN {<<"connect", job[w].sess>>} ELSE {})
    \cup (IF job[w].pc \in {"acq_detach", "acq_undo"} THEN {<<"release", job[w].sess>>} ELSE {})
    \cup (IF call[w].pc = "runtime" THEN {<<"release", call[w].sess>>} ELSE {})

InFinally(w, s) ==
    \/ job[w].sess = s /\ job[w].pc \in {"acq_leave", "acq_leave_del"}
    \/ call[w].sess = s /\ call[w].pc \in {"leave", "leave_del"}

\* The deadline cancels acquire; the finally blocks it is not in yet free their
\* guards, one that is cancelled in turn leaves its key behind.
CancelTurn(w) ==
    LET freed == {s \in Sessions : InGuard(w, s)} IN
    /\ Deadlines
    /\ job[w].pc \in AcquirePcs
    /\ Become(w, JobAt("end", job[w].kind, job[w].sess))
    /\ Return(w)
    /\ ghost' = ghost \cup Abandoned(w)
    /\ redisLock' = [s \in Sessions |->
                        IF s \notin freed \/ redisLock[s] # w THEN redisLock[s]
                        ELSE IF InFinally(w, s) THEN Left ELSE None]
    /\ localLock' = [localLock EXCEPT ![Home[w]] =
                        [s \in Sessions |-> IF s \in freed THEN None
                                            ELSE localLock[Home[w]][s]]]
    /\ UNCHANGED <<binding, owner, sick, taskVars>>

Crash(p) ==
    LET dead == {w \in Workers : Home[w] = p} IN
    /\ p \in Mortal
    /\ \E w \in dead : job[w].pc # "dead"
    /\ job' = [w \in Workers |-> IF w \in dead THEN DeadJob ELSE job[w]]
    /\ call' = [w \in Workers |-> IF w \in dead THEN NoCall ELSE call[w]]
    /\ ghost' = ghost \cup UNION {Abandoned(w) : w \in dead}
    /\ localLock' = [localLock EXCEPT ![p] = [s \in Sessions |-> None]]
    /\ agents' = [agents EXCEPT ![p] = {}]
    /\ UNCHANGED <<binding, owner, sick, redisLock, marker>>

-----------------------------------------------------------------------------
AcquireStep(w) ==
    \/ AcqEnter(w) \/ AcqBusy(w) \/ AcqVerify(w) \/ AcqReuse(w) \/ AcqRenew(w)
    \/ AcqMark(w) \/ AcqDetach(w) \/ AcqUndo(w) \/ AcqCapacity(w) \/ AcqEvict(w)
    \/ AcqEvicted(w) \/ AcqCreate(w) \/ AcqBind(w) \/ AcqLeave(w)

TurnStep(w) ==
    \/ Injected(w) \/ RegisterAgent(w) \/ FinishTurn(w)
    \/ MarkIdleRead(w) \/ MarkIdleWrite(w) \/ EndTurn(w)

ReleaseStep(w) ==
    \/ RelEnter(w) \/ RelBusy(w) \/ RelCheck(w) \/ RelMark(w) \/ RelRuntime(w)
    \/ RelConfirm(w) \/ RelFail(w) \/ RelCommit(w) \/ RelLeave(w)

ReconcileStep(w) ==
    \/ \E s \in Sessions : RecSkip(w, s) \/ RecRelease(w, s) \/ RecMissing(w, s)
    \/ RecOrphan(w) \/ RecReturn(w) \/ RecDone(w)

\* What a task that has begun goes on to do.
Continue(w) ==
    \/ AcquireStep(w) \/ TurnStep(w) \/ ReleaseStep(w) \/ ReconcileStep(w)
    \/ CallReturn(w) \/ DeleteRow(w)

Start(w) ==
    \/ \E s \in Sessions, k \in TurnKinds : StartTurn(w, s, k)
    \/ RecList(w)
    \/ \E s \in Sessions : StartRelease(w, s) \/ StartDelete(w, s) \/ Interrupt(w, s)

Environment ==
    \/ \E b \in Boxes : BoxBreaks(b)
    \/ \E s \in Sessions :
          LeaseExpires(s) \/ LockLapses(s) \/ MarkerLapses(s)
          \/ GhostConnect(s) \/ GhostRelease(s)
    \/ \E w \in Workers : CancelTurn(w)
    \/ \E p \in Processes : Crash(p)

Next ==
    \/ \E w \in Workers : Start(w) \/ Continue(w) \/ Heartbeat(w)
    \/ Environment

Spec == Init /\ [][Next]_vars

-----------------------------------------------------------------------------
(* Properties                                                              *)

\* The types of the state; release_attempts is any number, the code does not bound it.
TypeOK ==
    /\ binding \in [Sessions -> Row]
    /\ owner \in [Boxes -> Sessions \cup {None}]
    /\ sick \subseteq Boxes
    /\ ghost \subseteq {"connect", "release"} \X Sessions
    /\ redisLock \in [Sessions -> Workers \cup {None, Left}]
    /\ localLock \in [Processes -> [Sessions -> Workers \cup {None}]]
    /\ marker \in [Sessions -> Workers \cup {None}]
    /\ agents \in [Processes -> SUBSET Sessions]
    /\ job \in [Workers -> Job]
    /\ call \in [Workers -> Call]

\* _session_guard serializes acquire and release per session: no two tasks, in
\* whatever processes, are inside the guarded code of one session together.
GuardExclusive ==
    \A s \in Sessions : \A v, w \in Workers :
        InGuard(v, s) /\ InGuard(w, s) => v = w

\* Why the guard excludes: whoever is in it owns the process's lock and, while
\* Redis answers and the key outlives its holder, the key; a task never evicts
\* the session it acquires.  This is the inductive invariant of the proofs.
Placed ==
    \A w \in Workers :
        /\ job[w].pc \notin {"idle", "dead", "rec_scan", "rec_wait", "rel_wait"}
              => job[w].sess \in Sessions
        /\ call[w].pc # "off"
              => /\ call[w].sess \in Sessions
                 /\ job[w].pc \in {"acq_evicting", "rec_wait", "rel_wait", "del_wait"}
        /\ job[w].pc \in {"acq_evict", "acq_evicting"}
              => job[w].list[job[w].sess] = NoRow
        /\ job[w].pc = "acq_evicting" => call[w].sess # job[w].sess

LocalHeld ==
    \A w \in Workers, s \in Sessions : InGuard(w, s) => localLock[Home[w]][s] = w

RedisHeld ==
    \A w \in Workers, s \in Sessions :
        ~LockMayExpire /\ ~RedisMayFail /\ InGuard(w, s) => redisLock[s] = w

GuardInv == Placed /\ LocalHeld /\ RedisHeld

\* RELEASED is only ever read off a container the Runtime no longer registers,
\* although acquire, heartbeat and mark_idle write the same row in between.
ReleasedIsGone ==
    \A s \in Sessions :
        binding[s].status = "RELEASED" => ~Registered(binding[s].box)

\* A container that no acquire or release is working on is named by a row of
\* its session, so that reconcile, the administrator or deletion can find it.
Traceable ==
    \A b \in Boxes : \A s \in Sessions :
        owner[b] = s /\ (\A w \in Workers : ~InGuard(w, s))
            => binding[s].status # "NONE"

\* ... and by a row that claims that very container and not a released one.
NoStrayContainer ==
    \A b \in Boxes : \A s \in Sessions :
        owner[b] = s /\ (\A w \in Workers : ~InGuard(w, s))
            => binding[s].box = b /\ binding[s].status \notin {"NONE", "RELEASED"}

\* release checks for a running task before it writes RELEASING, and acts on
\* the answer several steps later: still no turn that has its sandbox and
\* whose task session_task names is released under it, unless by deletion.
ProtectedTurn ==
    \A w, v \in Workers :
        /\ call[w].pc \in {"mark", "runtime", "confirm", "fail", "commit"}
        /\ ~call[w].force
        /\ job[v].kind = "async" /\ Holds(v, call[w].sess)
        => marker[call[w].sess] # v

-----------------------------------------------------------------------------
(* What the documents promise and the code does not keep (see README)      *)

\* "never reclaims a container ... holding a valid lease": only a deletion
\* may turn a row with a live lease to RELEASING.
LeaseRespected ==
    [][\A s \in Sessions :
          binding[s].lease = "live" /\ binding[s].status # "RELEASING"
              /\ binding'[s].status = "RELEASING"
          => \E w \in Workers : call[w].sess = s /\ call[w].force]_vars

\* In the state diagram RELEASING leads to RELEASED or FAILED and nowhere else;
\* a deletion takes the whole row.
ReleasingIsFinal ==
    [][\A s \in Sessions :
          binding[s].status = "RELEASING"
          => binding'[s].status \in {"RELEASING", "RELEASED", "FAILED", "NONE"}]_vars

\* A row turns ORPHANED because its container is missing.
OrphanedIsMissing ==
    [][\A s \in Sessions :
          binding[s].status \in {"ACTIVE", "IDLE"} /\ binding'[s].status = "ORPHANED"
          => ~Registered(binding[s].box) \/ binding[s].box \in sick]_vars

\* MAX_ACTIVE_CONTAINERS is a hard limit.
WithinCapacity == ContainerCount <= MaxActive

\* acquire evicts other sessions while it holds its own guard: two turns of
\* one process never wait for the local lock that the other one holds.
NoDeadlyEmbrace ==
    \A v, w \in Workers :
        /\ v # w /\ Home[v] = Home[w]
        /\ job[v].pc = "acq_evicting" /\ call[v].pc = "guard"
        /\ job[w].pc = "acq_evicting" /\ call[w].pc = "guard"
        => ~(call[v].sess = job[w].sess /\ call[w].sess = job[v].sess)

-----------------------------------------------------------------------------
(* Liveness: tasks that have begun go on, the reconcile loop keeps running *)

\* A task that has begun goes on; the reconcile loop starts scan after scan.
\* asyncio.Lock serves its waiters in order and Redis is polled until the key
\* is free, so a guard that is freed again and again is entered; a retry that
\* is not due now is due at a later scan.
Fairness ==
    /\ \A w \in Workers :
          /\ WF_vars(Continue(w))
          /\ WF_vars(RecList(w))
          /\ SF_vars(AcqEnter(w) \/ RelEnter(w))
          /\ \A s \in Sessions : SF_vars(RecRelease(w, s))
    /\ \A s \in Sessions :
          WF_vars(LockLapses(s) \/ MarkerLapses(s))

FairSpec == Spec /\ Fairness

\* Nobody chats in s.
Quiet(s) == \A w \in Workers : job[w].sess = s => job[w].pc \notin TurnPcs

\* A release that was begun is brought to an end, by its caller or by a later
\* scan: the row of a session nobody uses any more does not stay RELEASING.
ReleaseResolves ==
    \A s \in Sessions : <>[]Quiet(s) => []<>(binding[s].status # "RELEASING")

\* FAILED rows are retried by later scans.
FailedRetried ==
    \A s \in Sessions :
        binding[s].status = "FAILED" ~> binding[s].status # "FAILED"
=============================================================================
