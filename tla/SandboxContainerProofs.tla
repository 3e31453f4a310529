----------------------- MODULE SandboxContainerProofs -----------------------
(***************************************************************************)
(* What the rows of sandbox_bindings say about containers.  A row that     *)
(* says RELEASED names a container that is gone: release writes it about   *)
(* the container it looked at, because the row it read keeps naming that   *)
(* container while the guard is held.  And, as long as nothing fails and   *)
(* no session is deleted, a container nobody is working on is claimed by   *)
(* the row of its session.                                                 *)
(***************************************************************************)
EXTENDS SandboxLifecycleProofs

\* The part of release that works from the row it read on entry.
Reading == {"check", "mark", "runtime", "confirm", "fail", "commit"}

\* The inductive invariant: the row a release works from is the row's container,
\* and the one it is about to commit is gone.
GoneInv ==
    /\ ReleasedIsGone
    /\ \A w \in Workers : call[w].pc \in Reading =>
          \/ binding[call[w].sess].status = "NONE"
          \/ binding[call[w].sess].box = call[w].row.box
    /\ \A w \in Workers : call[w].pc = "commit" => ~Registered(call[w].row.box)

\* What a step may do to the Runtime, to the rows and to the calls.
NewOnesFresh == \A b \in Boxes : owner'[b] # None => owner[b] # None \/ Fresh(b)

\* The row of s goes on naming the container it named.
SameRow(s) ==
    /\ binding[s].status = "NONE" => binding'[s].status = "NONE"
    /\ binding'[s].box = binding[s].box

\* Only acquire gives a row another container, only release marks one RELEASED.
RowsHonest ==
    \A s \in Sessions :
        \/ SameRow(s) /\ (binding'[s].status = "RELEASED" => binding[s].status = "RELEASED")
        \/ binding'[s].status = "NONE"
        \/ \E w \in Workers : AcquireHolds(w, s) /\ binding'[s].status = "ACTIVE"
        \/ \E w \in Workers : SameRow(s) /\ call[w].pc = "commit" /\ call[w].sess = s

\* A release keeps the row it read, or takes the one it wrote.
CallsHonest ==
    \A w \in Workers : call'[w].pc \in Reading =>
        /\ call'[w].sess = call[w].sess
        /\ \/ call[w].pc \in Reading /\ call'[w].row = call[w].row
           \/ call'[w].row.box = binding'[call[w].sess].box /\ call'[w].pc # "commit"
        /\ call'[w].pc = "commit" /\ call[w].pc # "commit" => ~Registered(call[w].row.box)

\* What every step of the system respects.
Honest == NewOnesFresh /\ RowsHonest /\ CallsHonest

\* The Runtime never hands out an id that some row or task still names.
LEMMA ConnectsFresh ==
    ASSUME \/ UNCHANGED owner
           \/ \E s \in Sessions : \/ ConnectLost(s) \/ Unregister(s)
                                 \/ \E b \in Boxes : Connect(s, b)
    PROVE  NewOnesFresh
<1>1. CASE \E s \in Sessions : Unregister(s)
  BY <1>1 DEF NewOnesFresh, Unregister
<1>2. CASE \E b \in Boxes : Fresh(b) /\ \E s \in Sessions : owner' = [owner EXCEPT ![b] = s]
  BY <1>2 DEF NewOnesFresh
<1>3. CASE UNCHANGED owner
  BY <1>3 DEF NewOnesFresh
<1> QED BY <1>1, <1>2, <1>3 DEF ConnectLost, Connect

\* What the writers of a row may write.
LEMMA RowWritten ==
    ASSUME TypeOK, NEW s \in Sessions, NEW row,
           binding' = Updated(s, row),
           \/ row.box = binding[s].box /\ row.status # "RELEASED"
           \/ row.status = "NONE"
           \/ row.status = "ACTIVE" /\ \E w \in Workers : AcquireHolds(w, s)
           \/ /\ row.box = binding[s].box
              /\ \E w \in Workers : call[w].pc = "commit" /\ call[w].sess = s
    PROVE  RowsHonest
  BY DEF TypeOK, RowsHonest, SameRow, Updated

\* Steps that only begin or end a call change no row that is being read.
LEMMA CallsOutside ==
    ASSUME TypeOK, NEW w \in Workers,
           \/ UNCHANGED call
           \/ \E s, force, retry : Begin(w, s, force, retry)
           \/ Return(w)
    PROVE  CallsHonest
<1>1. CASE UNCHANGED call
  BY <1>1 DEF CallsHonest
<1>2. CASE \E l \in {"guard", "off"} : \E s, force, retry :
              call' = [call EXCEPT ![w] = CallAt(l, s, force, retry)]
  BY <1>2 DEF CallsHonest, TypeOK, CallAt, Reading
<1> QED BY <1>1, <1>2 DEF Begin, Return, NoCall

\* acquire respects this: it alone gives a row another container.
LEMMA AcquireHonest ==
    ASSUME Typed, NEW w \in Workers, AcquireStep(w)
    PROVE  Honest
<1> DEFINE s == job[w].sess
<1>1. s \in Sessions
  BY DEF Typed, Placed, AcquireStep, AcqEnter, AcqBusy, AcqVerify, AcqReuse, AcqRenew,
     AcqMark, AcqDetach, AcqUndo, AcqCapacity, AcqEvict, AcqEvicted, AcqCreate, AcqBind,
     AcqLeave
<1>2. NewOnesFresh
  <2>1. \/ UNCHANGED owner
        \/ ConnectLost(s) \/ Unregister(s) \/ \E b \in Boxes : Connect(s, b)
    BY DEF AcquireStep, AcqEnter, AcqBusy, AcqVerify, AcqReuse, AcqRenew, AcqMark,
       AcqDetach, AcqUndo, AcqCapacity, AcqEvict, AcqEvicted, AcqCreate, AcqBind,
       AcqLeave, Detach, rtVars
  <2> QED BY <1>1, <2>1, ConnectsFresh
<1>3. RowsHonest
  <2>1. CASE AcqRenew(w)
    <3>1. AcquireHolds(w, s)
      BY <2>1 DEF AcqRenew, AcquireHolds, AcquirePcs
    <3> QED BY <1>1, <2>1, <3>1, RowWritten DEF Typed, AcqRenew
  <2>2. CASE AcqMark(w)
    BY <1>1, <2>2, RowWritten DEF Typed, AcqMark, With
  <2>3. CASE AcqBind(w)
    <3>1. AcquireHolds(w, s)
      BY <2>3 DEF AcqBind, AcquireHolds, AcquirePcs
    <3>2. CASE binding' = [binding EXCEPT ![s] = Bound(job[w].box)]
      BY <1>1, <3>1, <3>2 DEF Typed, TypeOK, RowsHonest, SameRow, Bound
    <3>3. CASE binding' = Updated(s, Bound(job[w].box))
      BY <1>1, <3>1, <3>3, RowWritten DEF Typed, Bound
    <3>4. CASE UNCHANGED binding
      BY <3>4 DEF RowsHonest, SameRow
    <3> QED BY <2>3, <3>2, <3>3, <3>4 DEF AcqBind
  <2>4. CASE UNCHANGED binding
    BY <2>4 DEF RowsHonest, SameRow
  <2> QED
    BY <2>1, <2>2, <2>3, <2>4 DEF AcquireStep, AcqEnter, AcqBusy, AcqVerify, AcqReuse,
       AcqDetach, AcqUndo, AcqCapacity, AcqEvict, AcqEvicted, AcqCreate, AcqLeave, Detach
<1>4. CallsHonest
  <2>1. \/ UNCHANGED call
        \/ \E x, force, retry : Begin(w, x, force, retry)
        \/ Return(w)
    BY DEF AcquireStep, AcqEnter, AcqBusy, AcqVerify, AcqReuse, AcqRenew, AcqMark,
       AcqDetach, AcqUndo, AcqCapacity, AcqEvict, AcqEvicted, AcqCreate, AcqBind,
       AcqLeave, Detach
  <2> QED BY <2>1, CallsOutside DEF Typed
<1> QED BY <1>2, <1>3, <1>4 DEF Honest

\* The rest of a turn rewrites the status of the row and nothing else.
LEMMA TurnHonest ==
    ASSUME Typed, NEW w \in Workers, TurnStep(w) \/ Heartbeat(w)
    PROVE  Honest
<1>1. job[w].sess \in Sessions
  BY DEF Typed, Placed, TurnStep, Heartbeat, Injected, RegisterAgent, FinishTurn,
     MarkIdleRead, MarkIdleWrite, EndTurn
<1>2. RowsHonest
  <2>1. CASE Heartbeat(w)
    BY <1>1, <2>1, RowWritten DEF Typed, Heartbeat, With
  <2>2. CASE MarkIdleWrite(w)
    BY <1>1, <2>2, RowWritten DEF Typed, MarkIdleWrite, With
  <2>3. CASE UNCHANGED binding
    BY <2>3 DEF RowsHonest, SameRow
  <2> QED
    BY <2>1, <2>2, <2>3 DEF TurnStep, Injected, RegisterAgent, FinishTurn, MarkIdleRead,
       EndTurn
<1>3. UNCHANGED owner /\ UNCHANGED call
  BY DEF TurnStep, Heartbeat, rtVars, Injected, RegisterAgent, FinishTurn, MarkIdleRead,
     MarkIdleWrite, EndTurn
<1> QED BY <1>2, <1>3, ConnectsFresh, CallsOutside DEF Typed, Honest

\* release respects this: it commits what it found gone.
LEMMA ReleaseHonest ==
    ASSUME Typed, NEW w \in Workers, ReleaseStep(w)
    PROVE  Honest
<1> DEFINE s == call[w].sess
<1>1. s \in Sessions
  BY DEF Typed, Placed, ReleaseStep, RelEnter, RelBusy, RelCheck, RelMark, RelRuntime,
     RelConfirm, RelFail, RelCommit, RelLeave
<1>2. NewOnesFresh
  <2>1. UNCHANGED owner \/ Unregister(s)
    BY DEF ReleaseStep, rtVars, RelEnter, RelBusy, RelCheck, RelMark, RelRuntime,
       RelConfirm, RelFail, RelCommit, RelLeave
  <2> QED BY <1>1, <2>1, ConnectsFresh
<1>3. RowsHonest
  <2>1. CASE RelMark(w)
    BY <1>1, <2>1 DEF Typed, TypeOK, RelMark, RowsHonest, SameRow
  <2>2. CASE RelFail(w)
    BY <1>1, <2>2, RowWritten DEF Typed, RelFail
  <2>3. CASE RelCommit(w)
    BY <1>1, <2>3, RowWritten DEF Typed, RelCommit
  <2>4. CASE UNCHANGED binding
    BY <2>4 DEF RowsHonest, SameRow
  <2> QED
    BY <2>1, <2>2, <2>3, <2>4 DEF ReleaseStep, RelEnter, RelBusy, RelCheck, RelRuntime,
       RelConfirm, RelLeave
<1>4. CallsHonest
  <2>1. CASE RelEnter(w)
    BY <1>1, <2>1 DEF Typed, TypeOK, CallsHonest, Reading, RelEnter, CallTo, CallGoto,
       CallGotoWith
  <2>2. CASE RelBusy(w)
    BY <1>1, <2>2 DEF Typed, TypeOK, CallsHonest, Reading, RelBusy, CallTo, CallGoto,
       CallGotoWith
  <2>3. CASE RelCheck(w)
    <3>1. \E l \in {"leave", "mark"} : \E r : CallTo(w, l, call[w].row, r)
      BY <2>3 DEF RelCheck, CallGoto, CallGotoWith
    <3> QED BY <2>3, <3>1 DEF Typed, TypeOK, CallsHonest, Reading, RelCheck, CallTo
  <2>4. CASE RelMark(w)
    BY <1>1, <2>4 DEF Typed, TypeOK, CallsHonest, Reading, RelMark, CallTo, CallGoto,
       CallGotoWith
  <2>5. CASE RelRuntime(w)
    BY <1>1, <2>5 DEF Typed, TypeOK, CallsHonest, Reading, RelRuntime, CallTo, CallGoto,
       CallGotoWith
  <2>6. CASE RelConfirm(w)
    BY <1>1, <2>6 DEF Typed, TypeOK, CallsHonest, Reading, RelConfirm, CallTo, CallGoto,
       CallGotoWith
  <2>7. CASE RelFail(w)
    BY <1>1, <2>7 DEF Typed, TypeOK, CallsHonest, Reading, RelFail, CallTo, CallGoto,
       CallGotoWith
  <2>8. CASE RelCommit(w)
    BY <1>1, <2>8 DEF Typed, TypeOK, CallsHonest, Reading, RelCommit, CallTo, CallGoto,
       CallGotoWith
  <2>9. CASE RelLeave(w)
    <3>1. \E l \in {"leave_del", "done"} : \E r : CallTo(w, l, call[w].row, r)
      BY <2>9 DEF RelLeave, CallGoto, CallGotoWith
    <3> QED BY <3>1 DEF Typed, TypeOK, CallsHonest, Reading, CallTo
  <2> QED BY <2>1, <2>2, <2>3, <2>4, <2>5, <2>6, <2>7, <2>8, <2>9 DEF ReleaseStep
<1> QED BY <1>2, <1>3, <1>4 DEF Honest

\* The reconcile loop respects this, ORPHANED written without the guard included.
LEMMA ReconcileHonest ==
    ASSUME Typed, NEW w \in Workers, ReconcileStep(w)
    PROVE  Honest
<1>1. RowsHonest
  <2>1. CASE RecOrphan(w)
    <3>1. job[w].sess \in Sessions
      BY <2>1 DEF Typed, Placed, RecOrphan
    <3> QED BY <2>1, <3>1, RowWritten DEF Typed, RecOrphan, With
  <2>2. CASE UNCHANGED binding
    BY <2>2 DEF RowsHonest, SameRow
  <2> QED
    BY <2>1, <2>2 DEF ReconcileStep, RecSkip, RecRelease, RecMissing, RecReturn, RecDone
<1>2. UNCHANGED owner
  BY DEF ReconcileStep, rtVars, RecSkip, RecRelease, RecMissing, RecOrphan, RecReturn,
     RecDone
<1>3. \/ UNCHANGED call
      \/ \E s, force, retry : Begin(w, s, force, retry)
      \/ Return(w)
  BY DEF ReconcileStep, RecSkip, RecRelease, RecMissing, RecOrphan, RecReturn, RecDone
<1> QED BY <1>1, <1>2, <1>3, ConnectsFresh, CallsOutside DEF Typed, Honest

\* The other operations respect this; a deletion takes the row.
LEMMA StartHonest ==
    ASSUME Typed, NEW w \in Workers, Start(w) \/ CallReturn(w) \/ DeleteRow(w)
    PROVE  Honest
<1>1. RowsHonest
  <2>1. CASE DeleteRow(w)
    BY <2>1 DEF Typed, TypeOK, DeleteRow, NoRow, RowsHonest, SameRow
  <2>2. CASE UNCHANGED binding
    BY <2>2 DEF RowsHonest, SameRow
  <2> QED
    BY <2>1, <2>2 DEF Start, StartTurn, StartRelease, StartDelete, Interrupt, RecList,
       CallReturn
<1>2. UNCHANGED owner
  BY DEF Start, rtVars, StartTurn, StartRelease, StartDelete, Interrupt, CallReturn,
     DeleteRow, Heartbeat, RecList
<1>3. \/ UNCHANGED call
      \/ \E s, force, retry : Begin(w, s, force, retry)
      \/ Return(w)
  BY DEF Start, StartTurn, StartRelease, StartDelete, Interrupt, CallReturn, DeleteRow,
     Heartbeat, RecList
<1> QED BY <1>1, <1>2, <1>3, ConnectsFresh, CallsOutside DEF Typed, Honest

\* Failures and time respect this.
LEMMA EnvironmentHonest ==
    ASSUME Typed, Environment
    PROVE  Honest
<1>1. NewOnesFresh
  <2>1. CASE \E b \in Boxes : BoxBreaks(b)
    BY <2>1 DEF Typed, TypeOK, BoxBreaks, NewOnesFresh
  <2>2. CASE \E s \in Sessions : GhostConnect(s) \/ GhostRelease(s)
    BY <2>2, ConnectsFresh DEF GhostConnect, GhostRelease
  <2>3. CASE UNCHANGED owner
    BY <2>3, ConnectsFresh
  <2> QED
    BY <2>1, <2>2, <2>3 DEF Environment, LeaseExpires, LockLapses, MarkerLapses,
       CancelTurn, Crash, rtVars
<1>2. RowsHonest
  <2>1. CASE \E s \in Sessions : LeaseExpires(s)
    BY <2>1 DEF Typed, TypeOK, LeaseExpires, With, RowsHonest, SameRow
  <2>2. CASE UNCHANGED binding
    BY <2>2 DEF RowsHonest, SameRow
  <2> QED
    BY <2>1, <2>2 DEF Environment, BoxBreaks, GhostConnect, GhostRelease, LockLapses,
       MarkerLapses, CancelTurn, Crash
<1>3. CallsHonest
  <2>1. CASE \E w \in Workers : CancelTurn(w)
    BY <2>1, CallsOutside DEF Typed, CancelTurn
  <2>2. CASE \E p \in Processes : Crash(p)
    <3>1. \A w \in Workers : call'[w] = call[w] \/ call'[w] = NoCall
      BY <2>2 DEF Crash
    <3> QED BY <3>1 DEF CallsHonest, Reading, NoCall, CallAt
  <2>3. CASE UNCHANGED call
    BY <2>3 DEF CallsHonest
  <2> QED
    BY <2>1, <2>2, <2>3 DEF Environment, BoxBreaks, GhostConnect, GhostRelease,
       LeaseExpires, LockLapses, MarkerLapses
<1> QED BY <1>1, <1>2, <1>3 DEF Honest

\* While a release reads the row of s nobody acquires s.
LEMMA ReadersExclude ==
    ASSUME Typed, GuardExclusive, NEW w \in Workers, call[w].pc \in Reading
    PROVE  /\ call[w].sess \in Sessions
           /\ \A v \in Workers : ~AcquireHolds(v, call[w].sess)
<1> DEFINE s == call[w].sess
<1>1. s \in Sessions /\ ReleaseHolds(w, s)
  BY DEF Typed, Placed, Reading, ReleaseHolds
<1>2. ASSUME NEW v \in Workers, AcquireHolds(v, s) PROVE FALSE
  <2>1. v = w
    BY <1>1, <1>2 DEF GuardExclusive, InGuard
  <2> QED BY <1>1, <1>2, <2>1 DEF Typed, Placed, AcquireHolds, ReleaseHolds, AcquirePcs
<1> QED BY <1>1, <1>2

\* Such a step keeps the inductive invariant.
LEMMA GoneStep ==
    ASSUME Typed, GuardExclusive, GoneInv, Honest
    PROVE  GoneInv'
<1>1. \A b \in Boxes : owner[b] = None /\ ~Fresh(b) => owner'[b] = None
  BY DEF Honest, NewOnesFresh
<1>2. ASSUME NEW s \in Sessions, binding'[s].status = "RELEASED"
      PROVE  ~Registered(binding[s].box)'
  <2>1. SameRow(s) /\ ~Registered(binding[s].box)
    <3>1. CASE \E w \in Workers : SameRow(s) /\ call[w].pc = "commit" /\ call[w].sess = s
      BY <1>2, <3>1 DEF GoneInv, Reading, SameRow
    <3>2. CASE SameRow(s) /\ binding[s].status = "RELEASED"
      BY <3>2 DEF GoneInv, ReleasedIsGone
    <3> QED BY <1>2, <3>1, <3>2 DEF Honest, RowsHonest
  <2>2. ~Fresh(binding[s].box)
    BY DEF Fresh
  <2> QED BY <1>1, <2>1, <2>2 DEF SameRow, Registered
<1>3. ASSUME NEW w \in Workers, call'[w].pc \in Reading,
             call[w].pc \in Reading, call'[w].row = call[w].row
      PROVE  \/ binding'[call[w].sess].status = "NONE"
             \/ binding'[call[w].sess].box = call[w].row.box
  BY <1>3, ReadersExclude DEF GoneInv, Honest, RowsHonest, SameRow
<1>4. ASSUME NEW w \in Workers, call'[w].pc = "commit"
      PROVE  ~Registered(call[w].row.box)'
  <2>1. call'[w].row = call[w].row /\ ~Registered(call[w].row.box)
    BY <1>4 DEF GoneInv, Honest, CallsHonest, Reading
  <2>2. ~Fresh(call[w].row.box)
    BY DEF Fresh
  <2> QED BY <1>1, <2>1, <2>2 DEF Registered
<1>5. ASSUME NEW w \in Workers, call'[w].pc \in Reading
      PROVE  \/ binding'[call'[w].sess].status = "NONE"
             \/ binding'[call'[w].sess].box = call'[w].row.box
  BY <1>3, <1>5 DEF Honest, CallsHonest
<1> QED BY <1>2, <1>4, <1>5 DEF GoneInv, ReleasedIsGone

\* A row says RELEASED only of a container the Runtime no longer registers, in the face
\* of heartbeats, mark_idle and orphan marks written without the guard.
THEOREM ReleasedContainersAreGone ==
    ASSUME Reliable
    PROVE  Spec => []ReleasedIsGone
<1>1. Init => GoneInv
  BY DEF Init, GoneInv, ReleasedIsGone, NoList, NoRow, NoCall, CallAt, Reading
<1>2. ASSUME Typed, GuardExclusive, GoneInv, [Next]_vars
      PROVE  GoneInv'
  <2>1. CASE UNCHANGED vars
    BY <1>2, <2>1 DEF GoneInv, ReleasedIsGone, Registered, vars
  <2>2. ASSUME NEW w \in Workers, Start(w) \/ Continue(w) \/ Heartbeat(w)
        PROVE  Honest
    BY <1>2, <2>2, AcquireHonest, TurnHonest, ReleaseHonest, ReconcileHonest, StartHonest
       DEF Continue
  <2>3. CASE Environment
    BY <1>2, <2>3, EnvironmentHonest, GoneStep
  <2> QED BY <1>2, <2>1, <2>2, <2>3, GoneStep DEF Next
<1>3. GoneInv => ReleasedIsGone
  BY DEF GoneInv
<1>4. Spec => [](Typed /\ GuardExclusive)
  BY TypedAlways, GuardExcludes, PTL
<1> QED BY <1>1, <1>2, <1>3, <1>4, PTL DEF Spec

-----------------------------------------------------------------------------
(* No stray container                                                      *)

\* The row of s claims every container registered for s; there is none; c is
\* the only one.
Named(s) == \A b \in Boxes : owner[b] = s =>
                binding[s].box = b /\ binding[s].status \notin {"NONE", "RELEASED"}
OwnsNone(s) == \A b \in Boxes : owner[b] # s
OnlyBox(s, c) == \A b \in Boxes : owner[b] = s => b = c

GuardedPcs == AcquirePcs \ {"acq_guard"}
NamedPcs == {"acq_verify", "acq_reuse", "acq_mark", "acq_detach", "acq_leave", "acq_leave_del"}
BoxPcs == {"acq_renew", "acq_bind"}
EmptyPcs == {"acq_capacity", "acq_evict", "acq_evicting", "acq_create"}
RowPcs == {"acq_verify", "acq_reuse", "acq_renew", "acq_mark", "acq_detach"}

\* What a task inside the guard of acquire can rely on, by where it is: its
\* reads go stale only in ways that do not matter.
JobSafe(w) ==
    /\ job[w].pc \in NamedPcs => Named(job[w].sess)
    /\ job[w].pc \in BoxPcs => OnlyBox(job[w].sess, job[w].box)
    /\ job[w].pc \in EmptyPcs => OwnsNone(job[w].sess)
    /\ job[w].pc \in GuardedPcs /\ (job[w].pc \in RowPcs \/ job[w].snap.status # "NONE")
          => binding[job[w].sess].status # "NONE"
    /\ job[w].pc \notin {"del_wait", "del_row"}

\* The same for a call of release.
CallSafe(w) ==
    /\ call[w].pc \in {"check", "mark", "runtime", "leave", "leave_del"} => Named(call[w].sess)
    /\ call[w].pc \in {"confirm", "commit", "fail"} => OwnsNone(call[w].sess)

\* The inductive invariant.
Custody ==
    /\ \A w \in Workers : JobSafe(w) /\ CallSafe(w)
    /\ NoStrayContainer
    /\ ghost = {}

\* Nothing fails and nobody deletes a session.
Calm ==
    /\ ~RuntimeFlaky /\ ~Deadlines /\ Mortal = {}
    /\ \A w \in Workers : "delete" \notin Roles[w]

\* What everybody outside the guard of s may do to s: lose a container, write
\* another status into the row, never RELEASED, neither create nor delete it.
Mild(s) ==
    /\ \A b \in Boxes : owner'[b] = s => owner[b] = s
    /\ binding'[s].box = binding[s].box
    /\ binding'[s].status = "NONE" <=> binding[s].status = "NONE"
    /\ binding'[s].status = "RELEASED" => binding[s].status = "RELEASED"

\* Mild steps keep what a guarded task relies on.
LEMMA MildKeeps ==
    ASSUME NEW s, Mild(s)
    PROVE  /\ Named(s) => Named(s)'
           /\ OwnsNone(s) => OwnsNone(s)'
           /\ \A c : OnlyBox(s, c) => OnlyBox(s, c)'
           /\ binding[s].status # "NONE" => binding'[s].status # "NONE"
  BY DEF Mild, Named, OwnsNone, OnlyBox

\* A step that writes neither rows nor the Runtime is mild,
LEMMA QuietIsMild ==
    ASSUME UNCHANGED <<binding, owner>>, NEW s
    PROVE  Mild(s)
  BY DEF Mild

\* and so is a rewrite of a row that keeps its container,
LEMMA RewriteIsMild ==
    ASSUME TypeOK, UNCHANGED owner, NEW x \in Sessions, NEW row,
           row.box = binding[x].box, row.status \notin {"NONE", "RELEASED"},
           binding' = Updated(x, row), NEW s \in Sessions
    PROVE  Mild(s)
  BY DEF Mild, TypeOK, Updated

\* a row of another session,
LEMMA OtherRowIsMild ==
    ASSUME TypeOK, UNCHANGED owner, NEW x \in Sessions, NEW row,
           binding' = Updated(x, row) \/ binding' = [binding EXCEPT ![x] = row],
           NEW s \in Sessions \ {x}
    PROVE  Mild(s)
  BY DEF Mild, TypeOK, Updated

\* and a release of the Runtime, after which a session owns nothing.
LEMMA UnregisterIsMild ==
    ASSUME UNCHANGED binding, NEW x \in Sessions, Unregister(x)
    PROVE  OwnsNone(x)' /\ \A s \in Sessions : Mild(s)
<1>1. \A b \in Boxes : owner'[b] = IF owner[b] = x THEN None ELSE owner[b]
  BY DEF Unregister
<1>2. None \notin Sessions
  BY ConstantsAssumption
<1> QED BY <1>1, <1>2 DEF OwnsNone, Mild

\* connect gives a session its only container, whether it was there or not.
LEMMA ConnectsOne ==
    ASSUME TypeOK, UNCHANGED binding, NEW x \in Sessions, NEW b \in Boxes, Connect(x, b),
           Named(x)
    PROVE  OnlyBox(x, b)' /\ \A s \in Sessions \ {x} : Mild(s)
<1>1. CASE UNCHANGED owner /\ b \in BoxesOf(x)
  <2>1. OnlyBox(x, b)'
    BY <1>1 DEF Named, OnlyBox, BoxesOf
  <2> QED BY <1>1, <2>1, QuietIsMild
<1>2. CASE BoxesOf(x) = {} /\ owner' = [owner EXCEPT ![b] = x]
  <2>1. \A c \in Boxes : owner'[c] = IF c = b THEN x ELSE owner[c]
    BY <1>2 DEF TypeOK
  <2>2. OnlyBox(x, b)'
    BY <1>2, <2>1 DEF OnlyBox, BoxesOf
  <2> QED BY <2>1, <2>2 DEF Mild
<1> QED BY <1>1, <1>2 DEF Connect

\* A session that owns nothing has a row that claims all it owns.
LEMMA NothingIsNamed == \A s : OwnsNone(s) => Named(s)
  BY DEF OwnsNone, Named

\* A task that does not move relies on what it relied on, if what it guards is
\* only touched mildly.
LEMMA UnmovedSafe ==
    ASSUME Typed, NEW v \in Workers, job'[v] = job[v], call'[v] = call[v],
           \A s \in Sessions : InGuard(v, s) => Mild(s), JobSafe(v), CallSafe(v)
    PROVE  JobSafe(v)' /\ CallSafe(v)'
<1>1. JobSafe(v)'
  <2>1. CASE job[v].pc \in GuardedPcs
    <3>1. job[v].sess \in Sessions /\ InGuard(v, job[v].sess)
      BY <2>1 DEF Typed, Placed, GuardedPcs, AcquirePcs, InGuard, AcquireHolds
    <3> QED BY <2>1, <3>1, MildKeeps DEF JobSafe
  <2>2. CASE job[v].pc \notin GuardedPcs
    BY <2>2 DEF JobSafe, GuardedPcs, AcquirePcs, NamedPcs, BoxPcs, EmptyPcs
  <2> QED BY <2>1, <2>2
<1>2. CallSafe(v)'
  <2>1. CASE call[v].pc \notin {"off", "guard", "done"}
    <3>1. call[v].sess \in Sessions /\ InGuard(v, call[v].sess)
      BY <2>1 DEF Typed, Placed, InGuard, ReleaseHolds
    <3> QED BY <3>1, MildKeeps DEF CallSafe
  <2>2. CASE call[v].pc \in {"off", "guard", "done"}
    BY <2>2 DEF CallSafe
  <2> QED BY <2>1, <2>2
<1> QED BY <1>1, <1>2

\* The steps of one task keep Custody if they are mild to what others guard and
\* keep what the task itself is left to rely on.
LEMMA OthersKeepCustody ==
    ASSUME Typed, GuardExclusive, Custody, NEW w \in Workers,
           \A v \in Workers \ {w} : job'[v] = job[v] /\ call'[v] = call[v],
           \A s \in Sessions : Mild(s) \/ InGuard(w, s),
           \A s \in Sessions : InGuard(w, s) => InGuard(w, s)' \/ Named(s)',
           JobSafe(w)', CallSafe(w)', UNCHANGED ghost
    PROVE  Custody'
<1>1. ASSUME NEW v \in Workers \ {w} PROVE JobSafe(v)' /\ CallSafe(v)'
  <2>1. \A s \in Sessions : InGuard(v, s) => Mild(s)
    BY <1>1 DEF GuardExclusive
  <2> QED BY <1>1, <2>1, UnmovedSafe DEF Custody
<1>2. ASSUME NEW s \in Sessions, \A v \in Workers : ~InGuard(v, s)' PROVE Named(s)'
  <2>1. CASE InGuard(w, s)
    BY <1>2, <2>1
  <2>2. CASE ~InGuard(w, s)
    <3>1. \A v \in Workers : ~InGuard(v, s)
      BY <1>2, <2>2 DEF InGuard, AcquireHolds, ReleaseHolds
    <3>2. Named(s)
      BY <3>1 DEF Custody, NoStrayContainer, Named
    <3> QED BY <2>2, <3>2, MildKeeps
  <2> QED BY <2>1, <2>2
<1>3. NoStrayContainer'
  BY <1>2 DEF NoStrayContainer, Named
<1> QED BY <1>1, <1>3 DEF Custody

\* A step of no task at all keeps it when it is mild.
LEMMA NobodyMoves ==
    ASSUME Typed, Custody, UNCHANGED <<job, call, ghost>>, \A s \in Sessions : Mild(s)
    PROVE  Custody'
<1>1. \A v \in Workers : JobSafe(v)' /\ CallSafe(v)'
  BY UnmovedSafe DEF Custody
<1>2. ASSUME NEW s \in Sessions, \A v \in Workers : ~InGuard(v, s)' PROVE Named(s)'
  <2>1. Named(s)
    BY <1>2 DEF Custody, NoStrayContainer, Named, InGuard, AcquireHolds, ReleaseHolds
  <2> QED BY <2>1, MildKeeps
<1>3. NoStrayContainer'
  BY <1>2 DEF NoStrayContainer, Named
<1> QED BY <1>1, <1>3 DEF Custody

\* Nor does a task that stays outside every guard disturb it.
LEMMA OutsideCustody ==
    ASSUME Typed, GuardExclusive, Custody, NEW w \in Workers,
           job[w].pc \notin GuardedPcs, job'[w].pc \notin GuardedPcs \cup {"del_wait", "del_row"},
           call[w].pc \in {"off", "done"}, call'[w].pc \in {"off", "guard"},
           \A v \in Workers \ {w} : job'[v] = job[v] /\ call'[v] = call[v],
           \A s \in Sessions : Mild(s), UNCHANGED ghost
    PROVE  Custody'
<1>1. \A s \in Sessions : ~InGuard(w, s)
  BY DEF InGuard, AcquireHolds, ReleaseHolds, GuardedPcs
<1>2. JobSafe(w)' /\ CallSafe(w)'
  BY DEF JobSafe, CallSafe, GuardedPcs, AcquirePcs, NamedPcs, BoxPcs, EmptyPcs
<1> QED BY <1>1, <1>2, OthersKeepCustody

\* Whoever enters a guard finds nobody in it.
LEMMA EntersAlone ==
    ASSUME Reliable, GuardInv, NEW w \in Workers, NEW s \in Sessions, EnterGuard(w, s)
    PROVE  \A v \in Workers : ~InGuard(v, s)
<1>1. localLock[Home[w]][s] = None /\ (~RedisMayFail => redisLock[s] = None)
  BY DEF EnterGuard
<1>2. None \notin Workers
  BY ConstantsAssumption
<1> QED BY <1>1, <1>2 DEF Reliable, GuardInv, LocalHeld, RedisHeld

\* A task that goes on inside acquire, and is in no call of release.
LEMMA AcquireGoesOn ==
    ASSUME Typed, GuardExclusive, Custody, NEW w \in Workers, job[w].pc \in GuardedPcs,
           NEW s \in Sessions, s = job[w].sess, NEW l \in GuardedPcs, NEW box, NEW list, NEW res,
           JobTo(w, l, job[w].snap, box, list, res),
           call[w].pc \in {"off", "done"}, call'[w].pc \in {"off", "guard"},
           \A v \in Workers \ {w} : call'[v] = call[v],
           \A x \in Sessions \ {s} : Mild(x),
           l \in NamedPcs => Named(s)',
           l \in BoxPcs => OnlyBox(s, box)',
           l \in EmptyPcs => OwnsNone(s)',
           l \in RowPcs \/ job[w].snap.status # "NONE" => binding'[s].status # "NONE",
           UNCHANGED ghost
    PROVE  Custody'
<1>1. /\ job'[w] = [pc |-> l, kind |-> job[w].kind, sess |-> s, snap |-> job[w].snap,
                    box |-> box, list |-> list, res |-> res]
      /\ \A v \in Workers \ {w} : job'[v] = job[v]
  BY DEF JobTo, Become, Typed, TypeOK
<1>2. AcquireHolds(w, s) /\ AcquireHolds(w, s)'
  BY <1>1 DEF GuardedPcs, AcquireHolds
<1>3. \A x \in Sessions : InGuard(w, x) => x = s
  BY DEF InGuard, AcquireHolds, ReleaseHolds
<1>4. JobSafe(w)'
  BY <1>1 DEF JobSafe, GuardedPcs, AcquirePcs, Named, OnlyBox, OwnsNone
<1>5. CallSafe(w)'
  BY DEF CallSafe
<1>6. \A x \in Sessions : Mild(x) \/ InGuard(w, x)
  BY <1>2 DEF InGuard
<1>7. \A x \in Sessions : InGuard(w, x) => InGuard(w, x)' \/ Named(x)'
  BY <1>2, <1>3 DEF InGuard
<1> QED BY <1>1, <1>4, <1>5, <1>6, <1>7, OthersKeepCustody

\* The same in the short forms of going on, when no row and no container changes.
LEMMA AcquireReads ==
    ASSUME Typed, GuardExclusive, Custody, NEW w \in Workers, job[w].pc \in GuardedPcs,
           NEW s \in Sessions, s = job[w].sess, NEW l \in GuardedPcs,
           \/ Goto(w, l)
           \/ \E r : GotoWith(w, l, r)
           \/ \E list : GotoList(w, l, list),
           call[w].pc \in {"off", "done"}, call'[w].pc \in {"off", "guard"},
           \A v \in Workers \ {w} : call'[v] = call[v],
           UNCHANGED <<binding, owner, ghost>>,
           l \in NamedPcs => job[w].pc \in NamedPcs \cup EmptyPcs,
           l \notin BoxPcs, l \in EmptyPcs => job[w].pc \in EmptyPcs,
           l \in RowPcs => job[w].pc \in RowPcs
    PROVE  Custody'
<1>1. PICK list, res : JobTo(w, l, job[w].snap, job[w].box, list, res)
  BY DEF Goto, GotoWith, GotoList
<1>2. JobSafe(w)
  BY DEF Custody
<1>3. /\ l \in NamedPcs => Named(s)
      /\ l \in EmptyPcs => OwnsNone(s)
      /\ l \in RowPcs \/ job[w].snap.status # "NONE" => binding[s].status # "NONE"
  BY <1>2, NothingIsNamed DEF JobSafe
<1>4. \A x \in Sessions : Mild(x)
  BY QuietIsMild
<1>5. /\ l \in NamedPcs => Named(s)'
      /\ l \in EmptyPcs => OwnsNone(s)'
      /\ l \in RowPcs \/ job[w].snap.status # "NONE" => binding'[s].status # "NONE"
  BY <1>3, <1>4, MildKeeps
<1> QED BY <1>1, <1>4, <1>5, AcquireGoesOn

\* acquire.
LEMMA AcquireCustody ==
    ASSUME Calm, Reliable, Typed, GuardInv, GuardExclusive, Custody, NEW w \in Workers,
           AcquireStep(w)
    PROVE  Custody'
<1>s. PICK s \in Sessions : s = job[w].sess
  BY DEF Typed, Placed, AcquireStep, AcqEnter, AcqBusy, AcqVerify, AcqReuse, AcqRenew,
     AcqMark, AcqDetach, AcqUndo, AcqCapacity, AcqEvict, AcqEvicted, AcqCreate, AcqBind,
     AcqLeave
<1>j. JobSafe(w)
  BY DEF Custody
<1>c. job[w].pc # "acq_evicting" => call[w].pc = "off"
  BY DEF Typed, Placed, AcquireStep, AcqEnter, AcqBusy, AcqVerify, AcqReuse, AcqRenew,
     AcqMark, AcqDetach, AcqUndo, AcqCapacity, AcqEvict, AcqEvicted, AcqCreate, AcqBind,
     AcqLeave
<1>p. \A l : /\ l \in NamedPcs <=> l \in {"acq_verify", "acq_reuse", "acq_mark", "acq_detach",
                                          "acq_leave", "acq_leave_del"}
             /\ l \in BoxPcs <=> l \in {"acq_renew", "acq_bind"}
             /\ l \in EmptyPcs <=> l \in {"acq_capacity", "acq_evict", "acq_evicting", "acq_create"}
             /\ l \in RowPcs <=> l \in {"acq_verify", "acq_reuse", "acq_renew", "acq_mark",
                                        "acq_detach"}
             /\ l \in GuardedPcs <=> l \in NamedPcs \/ l \in BoxPcs \/ l \in EmptyPcs
                                     \/ l = "acq_undo"
  BY DEF GuardedPcs, AcquirePcs, NamedPcs, BoxPcs, EmptyPcs, RowPcs
<1>1. CASE AcqEnter(w)
  <2>1. \A v \in Workers : ~InGuard(v, s)
    BY <1>1, <1>s, EntersAlone DEF AcqEnter
  <2>2. Named(s)
    BY <1>s, <2>1 DEF Custody, NoStrayContainer, Named
  <2>3. PICK l \in {"acq_verify", "acq_detach", "acq_leave", "acq_capacity"} :
            /\ \E r : JobTo(w, l, binding[s], None, NoList, r)
            /\ l \in {"acq_verify", "acq_detach"} => binding[s].status # "NONE"
            /\ l = "acq_capacity" => binding[s].status \in {"NONE", "RELEASED"}
    BY <1>1, <1>s DEF AcqEnter
  <2>4. /\ job'[w].pc = l /\ job'[w].sess = s /\ job'[w].snap = binding[s]
        /\ \A v \in Workers \ {w} : job'[v] = job[v]
    BY <1>s, <2>3 DEF JobTo, Become, Typed, TypeOK
  <2>5. call[w].pc = "off" /\ UNCHANGED <<binding, owner, ghost, call>>
    BY <1>1, <1>c DEF AcqEnter, rtVars
  <2>6. JobSafe(w)'
    BY <1>p, <2>2, <2>3, <2>4, <2>5 DEF JobSafe, Named, OwnsNone
  <2>7. \A x \in Sessions : ~InGuard(w, x)
    BY <1>1, <2>5 DEF AcqEnter, InGuard, AcquireHolds, ReleaseHolds
  <2>8. CallSafe(w)'
    BY <2>5 DEF CallSafe
  <2> QED BY <2>4, <2>5, <2>6, <2>7, <2>8, QuietIsMild, OthersKeepCustody
<1>2. CASE AcqBusy(w)
  <2>1. call[w].pc = "off" /\ UNCHANGED <<binding, owner, ghost, call>>
    BY <1>2, <1>c DEF AcqBusy, rtVars
  <2>2. job'[w].pc = "end" /\ \A v \in Workers \ {w} : job'[v] = job[v]
    BY <1>2 DEF AcqBusy, Goto, JobTo, Become, Typed, TypeOK
  <2>3. \A x \in Sessions : ~InGuard(w, x)
    BY <1>2, <2>1 DEF AcqBusy, InGuard, AcquireHolds, ReleaseHolds
  <2>4. JobSafe(w)' /\ CallSafe(w)'
    BY <1>p, <2>1, <2>2 DEF JobSafe, CallSafe
  <2> QED BY <2>1, <2>2, <2>3, <2>4, QuietIsMild, OthersKeepCustody
<1>3. CASE AcqVerify(w)
  <2>1. call[w].pc = "off" /\ UNCHANGED <<binding, owner, ghost, call>> /\ job[w].pc = "acq_verify"
    BY <1>3, <1>c DEF AcqVerify, rtVars
  <2>2. PICK l \in {"acq_reuse", "acq_mark", "acq_leave"} : Goto(w, l) \/ \E r : GotoWith(w, l, r)
    BY <1>3 DEF AcqVerify
  <2> QED BY <1>s, <1>p, <2>1, <2>2, AcquireReads
<1>4. CASE AcqReuse(w)
  <2>1. call[w].pc = "off" /\ UNCHANGED <<binding, ghost, call>> /\ job[w].pc = "acq_reuse"
    BY <1>4, <1>c DEF AcqReuse
  <2>2. PICK b \in Boxes : /\ Connect(s, b)
                           /\ JobTo(w, "acq_renew", job[w].snap, b, job[w].list, job[w].res)
    BY <1>4, <1>s DEF AcqReuse, Calm, GotoBox
  <2>3. Named(s) /\ binding[s].status # "NONE"
    BY <1>j, <1>p, <1>s, <2>1 DEF JobSafe
  <2>4. OnlyBox(s, b)' /\ \A x \in Sessions \ {s} : Mild(x)
    BY <2>1, <2>2, <2>3, ConnectsOne DEF Typed
  <2> QED BY <1>p, <1>s, <2>1, <2>2, <2>3, <2>4, AcquireGoesOn
<1>5. CASE AcqRenew(w)
  <2>1. call[w].pc = "off" /\ UNCHANGED <<owner, ghost, call>> /\ job[w].pc = "acq_renew"
    BY <1>5, <1>c DEF AcqRenew, rtVars
  <2>2. PICK row : row.status = "ACTIVE" /\ row.box = job[w].box /\ binding' = Updated(s, row)
    BY <1>5, <1>s DEF AcqRenew
  <2>3. OnlyBox(s, job[w].box) /\ binding[s].status # "NONE"
    BY <1>j, <1>p, <1>s, <2>1 DEF JobSafe
  <2>4. binding'[s] = row
    BY <2>2, <2>3 DEF Updated, Typed, TypeOK
  <2>5. Named(s)'
    BY <2>1, <2>2, <2>3, <2>4 DEF Named, OnlyBox
  <2>6. \A x \in Sessions \ {s} : Mild(x)
    BY <2>1, <2>2, OtherRowIsMild DEF Typed
  <2>7. PICK r : JobTo(w, "acq_leave", job[w].snap, job[w].box, job[w].list, r)
    BY <1>5 DEF AcqRenew, GotoWith
  <2> QED BY <1>p, <1>s, <2>1, <2>2, <2>4, <2>5, <2>6, <2>7, AcquireGoesOn
<1>6. CASE AcqMark(w)
  <2>1. call[w].pc = "off" /\ UNCHANGED <<owner, ghost, call>> /\ job[w].pc = "acq_mark"
    BY <1>6, <1>c DEF AcqMark, rtVars
  <2>2. \A x \in Sessions : Mild(x)
    BY <1>6, <1>s, <2>1, RewriteIsMild DEF AcqMark, Typed, With
  <2>3. Named(s) /\ binding[s].status # "NONE"
    BY <1>j, <1>p, <1>s, <2>1 DEF JobSafe
  <2>4. Named(s)' /\ binding'[s].status # "NONE"
    BY <2>2, <2>3, MildKeeps
  <2>5. JobTo(w, "acq_detach", job[w].snap, job[w].box, job[w].list, job[w].res)
    BY <1>6 DEF AcqMark, Goto
  <2> QED BY <1>p, <1>s, <2>1, <2>2, <2>4, <2>5, AcquireGoesOn
<1>7. CASE AcqDetach(w) \/ AcqUndo(w)
  <2>1. /\ call[w].pc = "off" /\ UNCHANGED <<binding, ghost, call>>
        /\ job[w].pc \in {"acq_detach", "acq_undo"}
    BY <1>7, <1>c DEF AcqDetach, AcqUndo, Detach
  <2>2. Unregister(s)
    BY <1>7, <1>s DEF AcqDetach, AcqUndo, Detach, Calm
  <2>3. OwnsNone(s)' /\ \A x \in Sessions : Mild(x)
    BY <2>1, <2>2, UnregisterIsMild
  <2>4. PICK l \in {"acq_capacity", "acq_leave"} :
            JobTo(w, l, job[w].snap, job[w].box, job[w].list, job[w].res)
    BY <1>7 DEF AcqDetach, AcqUndo, Detach, Goto
  <2>5. Named(s)'
    BY <2>3 DEF Named, OwnsNone
  <2>6. job[w].snap.status # "NONE" => binding'[s].status # "NONE"
    BY <1>j, <1>p, <1>s, <2>1, <2>3, MildKeeps DEF JobSafe
  <2> QED BY <1>p, <1>s, <2>1, <2>3, <2>4, <2>5, <2>6, AcquireGoesOn
<1>8. CASE AcqCapacity(w)
  <2>1. call[w].pc = "off" /\ UNCHANGED <<binding, owner, ghost, call>> /\ job[w].pc = "acq_capacity"
    BY <1>8, <1>c DEF AcqCapacity, rtVars
  <2>2. PICK l \in {"acq_create", "acq_evict"} : Goto(w, l) \/ \E list : GotoList(w, l, list)
    BY <1>8 DEF AcqCapacity, Calm
  <2> QED BY <1>s, <1>p, <2>1, <2>2, AcquireReads
<1>9. CASE AcqEvict(w)
  <2>1. call[w].pc = "off" /\ UNCHANGED <<binding, owner, ghost>> /\ job[w].pc = "acq_evict"
    BY <1>9, <1>c DEF AcqEvict, rtVars
  <2>2. PICK l \in {"acq_evict", "acq_evicting", "acq_leave"} :
            (\E list : GotoList(w, l, list)) \/ \E r : GotoWith(w, l, r)
    BY <1>9 DEF AcqEvict
  <2>3. UNCHANGED call \/ \E x \in Sessions : Begin(w, x, FALSE, FALSE)
    BY <1>9 DEF AcqEvict
  <2>4. call'[w].pc \in {"off", "guard"} /\ \A v \in Workers \ {w} : call'[v] = call[v]
    BY <2>1, <2>3 DEF Begin, CallAt, Typed, TypeOK
  <2> QED BY <1>s, <1>p, <2>1, <2>2, <2>4, AcquireReads
<1>10. CASE AcqEvicted(w)
  <2>1. call[w].pc = "done" /\ UNCHANGED <<binding, owner, ghost>> /\ job[w].pc = "acq_evicting"
    BY <1>10 DEF AcqEvicted, rtVars
  <2>2. PICK l \in {"acq_capacity", "acq_evict", "acq_leave"} :
            Goto(w, l) \/ (\E list : GotoList(w, l, list)) \/ \E r : GotoWith(w, l, r)
    BY <1>10 DEF AcqEvicted
  <2>3. call'[w].pc = "off" /\ \A v \in Workers \ {w} : call'[v] = call[v]
    BY <1>10 DEF AcqEvicted, Return, NoCall, CallAt, Typed, TypeOK
  <2> QED BY <1>s, <1>p, <2>1, <2>2, <2>3, AcquireReads
<1>11. CASE AcqCreate(w)
  <2>1. call[w].pc = "off" /\ UNCHANGED <<binding, ghost, call>> /\ job[w].pc = "acq_create"
    BY <1>11, <1>c DEF AcqCreate
  <2>2. PICK b \in Boxes : /\ Connect(s, b)
                           /\ JobTo(w, "acq_bind", job[w].snap, b, job[w].list, job[w].res)
    BY <1>11, <1>s DEF AcqCreate, Calm, GotoBox
  <2>3. Named(s) /\ (job[w].snap.status # "NONE" => binding[s].status # "NONE")
    BY <1>j, <1>p, <1>s, <2>1, NothingIsNamed DEF JobSafe
  <2>4. OnlyBox(s, b)' /\ \A x \in Sessions \ {s} : Mild(x)
    BY <2>1, <2>2, <2>3, ConnectsOne DEF Typed
  <2> QED BY <1>p, <1>s, <2>1, <2>2, <2>3, <2>4, AcquireGoesOn
<1>12. CASE AcqBind(w)
  <2>1. call[w].pc = "off" /\ UNCHANGED <<owner, ghost, call>> /\ job[w].pc = "acq_bind"
    BY <1>12, <1>c DEF AcqBind, rtVars
  <2>2. /\ OnlyBox(s, job[w].box)
        /\ job[w].snap.status # "NONE" => binding[s].status # "NONE"
    BY <1>j, <1>p, <1>s, <2>1 DEF JobSafe
  <2>3. CASE job[w].snap.status = "NONE" /\ binding[s].status # "NONE"
    <3>1. /\ \E r : JobTo(w, "acq_undo", job[w].snap, job[w].box, job[w].list, r)
          /\ UNCHANGED binding
      BY <1>12, <1>s, <2>3 DEF AcqBind, GotoWith
    <3>2. \A x \in Sessions : Mild(x)
      BY <2>1, <3>1, QuietIsMild
    <3> QED BY <1>p, <1>s, <2>1, <2>3, <3>1, <3>2, AcquireGoesOn
  <2>4. CASE ~(job[w].snap.status = "NONE" /\ binding[s].status # "NONE")
    <3>1. PICK r : JobTo(w, "acq_leave", job[w].snap, job[w].box, job[w].list, r)
      BY <1>12, <1>s, <2>4 DEF AcqBind, Goto, GotoWith
    <3>2. \/ binding' = [binding EXCEPT ![s] = Bound(job[w].box)]
          \/ binding' = Updated(s, Bound(job[w].box)) /\ binding[s].status # "NONE"
      BY <1>12, <1>s, <2>2, <2>4 DEF AcqBind
    <3>3. binding'[s] = Bound(job[w].box)
      BY <3>2 DEF Updated, Typed, TypeOK
    <3>4. Named(s)' /\ binding'[s].status # "NONE"
      BY <2>1, <2>2, <3>3 DEF Named, OnlyBox, Bound
    <3>5. \A x \in Sessions \ {s} : Mild(x)
      BY <2>1, <3>2, OtherRowIsMild DEF Typed
    <3> QED BY <1>p, <1>s, <2>1, <3>1, <3>4, <3>5, AcquireGoesOn
  <2> QED BY <2>3, <2>4
<1>13. CASE AcqLeave(w)
  <2>1. /\ call[w].pc = "off" /\ UNCHANGED <<binding, owner, ghost, call>>
        /\ job[w].pc \in {"acq_leave", "acq_leave_del"}
    BY <1>13, <1>c DEF AcqLeave, rtVars
  <2>2. CASE Goto(w, "acq_leave_del")
    BY <1>s, <1>p, <2>1, <2>2, AcquireReads
  <2>3. CASE AfterAcquire(w)
    <3>1. job'[w].pc \in {"inject", "end"} /\ \A v \in Workers \ {w} : job'[v] = job[v]
      BY <2>3 DEF AfterAcquire, Become, JobAt, Typed, TypeOK
    <3>2. \A x \in Sessions : InGuard(w, x) => x = s
      BY <1>s, <2>1 DEF InGuard, AcquireHolds, ReleaseHolds
    <3>3. Named(s)'
      BY <1>j, <1>p, <1>s, <2>1 DEF JobSafe, Named
    <3>4. JobSafe(w)' /\ CallSafe(w)'
      BY <1>p, <2>1, <3>1 DEF JobSafe, CallSafe
    <3> QED BY <2>1, <3>1, <3>2, <3>3, <3>4, QuietIsMild, OthersKeepCustody
  <2> QED BY <1>13, <2>2, <2>3 DEF AcqLeave
<1> QED BY <1>1, <1>2, <1>3, <1>4, <1>5, <1>6, <1>7, <1>8, <1>9, <1>10, <1>11, <1>12, <1>13
        DEF AcquireStep

\* A call of release that goes on, or returns.
LEMMA ReleaseGoesOn ==
    ASSUME Typed, GuardExclusive, Custody, NEW w \in Workers, NEW s \in Sessions,
           s = call[w].sess, call[w].pc \notin {"off", "done"},
           NEW l \in CallPcs \ {"off", "guard"}, NEW row, NEW res, CallTo(w, l, row, res),
           \A x \in Sessions \ {s} : Mild(x), Mild(s) \/ call[w].pc # "guard",
           l \in {"check", "mark", "runtime", "leave", "leave_del"} => Named(s)',
           l \in {"confirm", "commit", "fail"} => OwnsNone(s)',
           l = "done" => call[w].pc = "guard" \/ Named(s)',
           UNCHANGED <<job, ghost>>
    PROVE  Custody'
<1>1. /\ call'[w].pc = l /\ call'[w].sess = s
      /\ \A v \in Workers \ {w} : call'[v] = call[v]
  BY DEF CallTo, Typed, TypeOK
<1>2. CallSafe(w)'
  BY <1>1 DEF CallSafe, Named, OwnsNone
<1>3. JobSafe(w)'
  <2>1. JobSafe(w) /\ job[w].pc \in {"acq_evicting", "rec_wait", "rel_wait", "del_wait"}
    BY DEF Custody, Typed, Placed
  <2>2. CASE job[w].pc = "acq_evicting"
    <3>1. job[w].sess \in Sessions \ {s}
      BY <2>2 DEF Typed, Placed
    <3>2. Mild(job[w].sess)
      BY <3>1
    <3> QED BY <2>1, <2>2, <3>2, MildKeeps DEF JobSafe, NamedPcs, BoxPcs
  <2>3. CASE job[w].pc # "acq_evicting"
    BY <2>1, <2>3 DEF JobSafe, GuardedPcs, AcquirePcs, NamedPcs, BoxPcs, EmptyPcs
  <2> QED BY <2>2, <2>3
<1>4. \A x \in Sessions : Mild(x) \/ InGuard(w, x)
  BY DEF InGuard, ReleaseHolds
<1>5. ASSUME NEW x \in Sessions, InGuard(w, x) PROVE InGuard(w, x)' \/ Named(x)'
  <2>1. CASE AcquireHolds(w, x)
    BY <2>1 DEF InGuard, AcquireHolds
  <2>2. CASE ReleaseHolds(w, x)
    BY <1>1, <2>2 DEF InGuard, ReleaseHolds
  <2> QED BY <1>5, <2>1, <2>2 DEF InGuard
<1> QED BY <1>1, <1>2, <1>3, <1>4, <1>5, OthersKeepCustody

\* release: it takes the containers away before it says RELEASED.
LEMMA ReleaseCustody ==
    ASSUME Calm, Reliable, Typed, GuardInv, GuardExclusive, Custody, NEW w \in Workers,
           ReleaseStep(w)
    PROVE  Custody'
<1>s. PICK s \in Sessions : s = call[w].sess
  BY DEF Typed, Placed, ReleaseStep, RelEnter, RelBusy, RelCheck, RelMark, RelRuntime,
     RelConfirm, RelFail, RelCommit, RelLeave
<1>j. UNCHANGED <<job, ghost>>
  BY DEF ReleaseStep, RelEnter, RelBusy, RelCheck, RelMark, RelRuntime, RelConfirm, RelFail,
     RelCommit, RelLeave, rtVars
<1>c. CallSafe(w)
  BY DEF Custody
<1>r. call[w].pc \in {"check", "mark", "runtime", "leave", "leave_del"} => Named(s)
  BY <1>c, <1>s DEF CallSafe
<1>e. call[w].pc \in {"confirm", "commit", "fail"} => OwnsNone(s)
  BY <1>c, <1>s DEF CallSafe
<1>1. ASSUME NEW l \in CallPcs \ {"off", "guard"}, \E row, res : CallTo(w, l, row, res),
             \A x \in Sessions : Mild(x), call[w].pc \notin {"off", "done", "guard"},
             l \in {"confirm", "commit", "fail"}
                => call[w].pc \in {"confirm", "commit", "fail"}
      PROVE  Custody'
  <2>1. Named(s) /\ (l \in {"confirm", "commit", "fail"} => OwnsNone(s))
    BY <1>1, <1>r, <1>e, NothingIsNamed, <1>s DEF Typed, TypeOK, Call, CallPcs
  <2>2. Named(s)' /\ (l \in {"confirm", "commit", "fail"} => OwnsNone(s)')
    BY <1>1, <2>1, MildKeeps
  <2> QED BY <1>1, <1>j, <1>s, <2>2, ReleaseGoesOn
<1>2. CASE RelEnter(w)
  <2>1. call[w].pc = "guard" /\ UNCHANGED <<binding, owner>>
    BY <1>2 DEF RelEnter, rtVars
  <2>2. \A v \in Workers : ~InGuard(v, s)
    BY <1>2, <1>s, EntersAlone DEF RelEnter
  <2>3. Named(s)'
    BY <2>1, <2>2 DEF Custody, NoStrayContainer, Named
  <2>4. PICK l \in {"leave", "check"} : \E row, res : CallTo(w, l, row, res)
    BY <1>2, <1>s DEF RelEnter, CallGotoWith
  <2> QED BY <1>j, <1>s, <2>1, <2>3, <2>4, QuietIsMild, ReleaseGoesOn DEF CallPcs
<1>3. CASE RelBusy(w)
  <2>1. /\ call[w].pc = "guard" /\ UNCHANGED <<binding, owner>>
        /\ \E row, res : CallTo(w, "done", row, res)
    BY <1>3 DEF RelBusy, rtVars, CallGotoWith
  <2> QED BY <1>j, <1>s, <2>1, QuietIsMild, ReleaseGoesOn DEF CallPcs
<1>4. CASE RelCheck(w) \/ RelConfirm(w) \/ RelLeave(w)
  <2>1. UNCHANGED <<binding, owner>>
    BY <1>4 DEF RelCheck, RelConfirm, RelLeave, rtVars
  <2>2. /\ call[w].pc \in {"check", "confirm", "leave", "leave_del"}
        /\ \E l \in {"mark", "leave", "leave_del", "done"} \cup
                      (IF call[w].pc = "confirm" THEN {"commit", "fail"} ELSE {}) :
              \E row, res : CallTo(w, l, row, res)
    BY <1>4 DEF RelCheck, RelConfirm, RelLeave, CallGoto, CallGotoWith
  <2> QED BY <1>1, <2>1, <2>2, QuietIsMild DEF CallPcs
<1>5. CASE RelMark(w)
  <2>1. /\ call[w].pc = "mark" /\ UNCHANGED owner
        /\ \E l \in {"runtime", "leave"} : \E row, res : CallTo(w, l, row, res)
    BY <1>5 DEF RelMark, rtVars, CallGoto, CallGotoWith
  <2>2. \/ UNCHANGED binding
        \/ \E row : /\ row.status = "RELEASING" /\ row.box = binding[s].box
                    /\ binding' = Updated(s, row)
    BY <1>5, <1>s DEF RelMark, Updated
  <2>3. \A x \in Sessions : Mild(x)
    BY <2>1, <2>2, QuietIsMild, RewriteIsMild DEF Typed
  <2> QED BY <1>1, <2>1, <2>3 DEF CallPcs
<1>6. CASE RelRuntime(w)
  <2>1. /\ call[w].pc = "runtime" /\ UNCHANGED binding /\ Unregister(s)
        /\ \E row, res : CallTo(w, "confirm", row, res)
    BY <1>6, <1>s DEF RelRuntime, Calm, CallGoto
  <2>2. OwnsNone(s)' /\ \A x \in Sessions : Mild(x)
    BY <2>1, UnregisterIsMild
  <2> QED BY <1>j, <1>s, <2>1, <2>2, ReleaseGoesOn DEF CallPcs
<1>7. CASE RelFail(w)
  <2>1. /\ call[w].pc = "fail" /\ UNCHANGED owner
        /\ \E row, res : CallTo(w, "leave", row, res)
    BY <1>7 DEF RelFail, rtVars, CallGotoWith
  <2>2. \E row : /\ row.status \in {"RELEASING", "FAILED"} /\ row.box = binding[s].box
                 /\ binding' = Updated(s, row)
    BY <1>7, <1>s DEF RelFail
  <2>3. \A x \in Sessions : Mild(x)
    BY <2>1, <2>2, RewriteIsMild DEF Typed
  <2> QED BY <1>1, <2>1, <2>3 DEF CallPcs
<1>8. CASE RelCommit(w)
  <2>1. /\ call[w].pc = "commit" /\ UNCHANGED owner
        /\ \E row, res : CallTo(w, "leave", row, res)
        /\ \E row : binding' = Updated(s, row)
    BY <1>8, <1>s DEF RelCommit, rtVars, CallGotoWith
  <2>2. Named(s)'
    BY <1>e, <2>1 DEF OwnsNone, Named
  <2>3. \A x \in Sessions \ {s} : Mild(x)
    BY <2>1, OtherRowIsMild DEF Typed
  <2> QED BY <1>j, <1>s, <2>1, <2>2, <2>3, ReleaseGoesOn DEF CallPcs
<1> QED BY <1>2, <1>3, <1>4, <1>5, <1>6, <1>7, <1>8 DEF ReleaseStep

\* The rest of a turn rewrites rows without a guard, but only their status.
LEMMA TurnCustody ==
    ASSUME Typed, GuardExclusive, Custody, NEW w \in Workers, TurnStep(w) \/ Heartbeat(w)
    PROVE  Custody'
<1>1. /\ job[w].pc \in TurnPcs \ AcquirePcs /\ job[w].sess \in Sessions /\ call[w].pc = "off"
      /\ UNCHANGED <<owner, ghost, call>>
  BY DEF Typed, Placed, TurnStep, Heartbeat, Injected, RegisterAgent, FinishTurn, MarkIdleRead,
     MarkIdleWrite, EndTurn, TurnPcs, HoldPcs, AcquirePcs, rtVars
<1>2. \A x \in Sessions : Mild(x)
  <2>1. CASE Heartbeat(w) \/ MarkIdleWrite(w)
    BY <1>1, <2>1, RewriteIsMild DEF Typed, Heartbeat, MarkIdleWrite, With
  <2>2. CASE UNCHANGED binding
    BY <1>1, <2>2, QuietIsMild
  <2> QED BY <2>1, <2>2 DEF TurnStep, Injected, RegisterAgent, FinishTurn, MarkIdleRead, EndTurn
<1>3. /\ job'[w].pc \in HoldPcs \cup {"idle_read", "idle_write", "end", "end_del", "idle"}
      /\ \A v \in Workers \ {w} : job'[v] = job[v]
  BY DEF TurnStep, Heartbeat, Injected, RegisterAgent, FinishTurn, MarkIdleRead,
     MarkIdleWrite, EndTurn, HoldPcs, Goto, JobTo, Idle, Become, IdleJob, JobAt, Typed, TypeOK
<1> QED BY <1>1, <1>2, <1>3, OutsideCustody DEF GuardedPcs, AcquirePcs, HoldPcs

\* The reconcile loop, with the ORPHANED it writes on the strength of an old row.
LEMMA ReconcileCustody ==
    ASSUME Typed, GuardExclusive, Custody, NEW w \in Workers, ReconcileStep(w)
    PROVE  Custody'
<1>1. /\ job[w].pc \in {"rec_scan", "rec_orphan", "rec_wait"}
      /\ UNCHANGED <<owner, ghost>>
  BY DEF ReconcileStep, RecSkip, RecRelease, RecMissing, RecOrphan, RecReturn, RecDone, rtVars,
     ReapDue, RetryDue
<1>2. \A x \in Sessions : Mild(x)
  <2>1. CASE RecOrphan(w)
    <3>1. job[w].sess \in Sessions
      BY <2>1 DEF Typed, Placed, RecOrphan
    <3> QED BY <1>1, <2>1, <3>1, RewriteIsMild DEF Typed, RecOrphan, With
  <2>2. CASE UNCHANGED binding
    BY <1>1, <2>2, QuietIsMild
  <2> QED BY <2>1, <2>2 DEF ReconcileStep, RecSkip, RecRelease, RecMissing, RecReturn, RecDone
<1>3. /\ job'[w].pc \in {"rec_scan", "rec_orphan", "rec_wait", "idle"}
      /\ \A v \in Workers \ {w} : job'[v] = job[v]
  <2>1. CASE \E s \in Sessions : RecSkip(w, s) \/ RecRelease(w, s)
    <3>1. PICK l \in {"rec_scan", "rec_wait"} : \E list : GotoList(w, l, list)
      BY <2>1 DEF RecSkip, RecRelease
    <3> QED BY <3>1 DEF GotoList, JobTo, Become, Typed, TypeOK
  <2>4. CASE \E s \in Sessions : RecMissing(w, s)
    <3>1. PICK s, list : Scan(w, "rec_orphan", s, list)
      BY <2>4 DEF RecMissing
    <3> QED BY <3>1 DEF Scan, Become, Typed, TypeOK
  <2>2. CASE RecOrphan(w) \/ RecDone(w)
    BY <2>2 DEF RecOrphan, RecDone, Scan, Idle, Become, IdleJob, JobAt, Typed, TypeOK
  <2>3. CASE RecReturn(w)
    <3>1. Idle(w) \/ Goto(w, "rec_scan")
      BY <2>3 DEF RecReturn
    <3> QED BY <3>1 DEF Goto, JobTo, Idle, Become, IdleJob, JobAt, Typed, TypeOK
  <2> QED BY <2>1, <2>2, <2>3, <2>4 DEF ReconcileStep
<1>4. call[w].pc \in {"off", "done"}
  BY DEF ReconcileStep, RecSkip, RecRelease, RecMissing, RecOrphan, RecReturn, RecDone, Typed,
     Placed
<1>5. call'[w].pc \in {"off", "guard"} /\ \A v \in Workers \ {w} : call'[v] = call[v]
  <2>1. CASE UNCHANGED call /\ call[w].pc = "off"
    BY <2>1
  <2>2. CASE Return(w) \/ \E s \in Sessions : Begin(w, s, FALSE, FALSE)
    BY <2>2 DEF Begin, Return, CallAt, NoCall, Typed, TypeOK
  <2>3. CASE RecReturn(w) \/ \E s \in Sessions : RecRelease(w, s)
    BY <2>2, <2>3 DEF RecReturn, RecRelease
  <2>4. CASE RecOrphan(w) \/ RecDone(w) \/ \E s \in Sessions : RecSkip(w, s) \/ RecMissing(w, s)
    <3>1. UNCHANGED call /\ job[w].pc \in {"rec_scan", "rec_orphan"}
      BY <2>4 DEF RecOrphan, RecDone, RecSkip, RecMissing
    <3> QED BY <2>1, <3>1 DEF Typed, Placed
  <2> QED BY <2>3, <2>4 DEF ReconcileStep
<1> QED BY <1>1, <1>2, <1>3, <1>4, <1>5, OutsideCustody DEF GuardedPcs, AcquirePcs

\* The operations that begin, and the administrator's release that returns.
LEMMA StartCustody ==
    ASSUME Calm, Typed, GuardExclusive, Custody, NEW w \in Workers,
           Start(w) \/ CallReturn(w) \/ DeleteRow(w)
    PROVE  Custody'
<1>1. ~DeleteRow(w) /\ (\A s \in Sessions : ~StartDelete(w, s)) /\ job[w].pc # "del_wait"
  BY DEF Custody, JobSafe, DeleteRow, StartDelete, Calm
<1>2. /\ job[w].pc \in {"idle", "rel_wait"} /\ call[w].pc \in {"off", "done"}
      /\ UNCHANGED <<binding, owner, ghost>>
  BY <1>1 DEF Start, StartTurn, StartRelease, Interrupt, RecList, CallReturn, rtVars, Typed, Placed
<1>3. /\ job'[w].pc \in {"idle", "acq_guard", "rec_scan", "rel_wait"}
      /\ \A v \in Workers \ {w} : job'[v] = job[v]
  <2>1. CASE UNCHANGED job
    BY <1>2, <2>1
  <2>2. CASE \E s \in Sessions, k \in TurnKinds : StartTurn(w, s, k)
    <3>1. PICK s, k : Become(w, JobAt("acq_guard", k, s))
      BY <2>2 DEF StartTurn
    <3> QED BY <3>1 DEF Become, JobAt, Typed, TypeOK
  <2>3. CASE RecList(w)
    <3>1. PICK list : GotoList(w, "rec_scan", list)
      BY <2>3 DEF RecList
    <3> QED BY <3>1 DEF GotoList, JobTo, Become, Typed, TypeOK
  <2>4. CASE Goto(w, "rel_wait")
    BY <2>4 DEF Goto, JobTo, Become, Typed, TypeOK
  <2>5. CASE Idle(w)
    BY <2>5 DEF Idle, Become, IdleJob, JobAt, Typed, TypeOK
  <2> QED BY <1>1, <2>1, <2>2, <2>3, <2>4, <2>5 DEF Start, StartRelease, Interrupt, CallReturn
<1>4. call'[w].pc \in {"off", "guard"} /\ \A v \in Workers \ {w} : call'[v] = call[v]
  <2>1. CASE UNCHANGED call /\ job[w].pc = "idle"
    BY <2>1 DEF Typed, Placed
  <2>2. CASE Return(w) \/ \E s \in Sessions : Begin(w, s, FALSE, TRUE)
    BY <2>2 DEF Begin, Return, CallAt, NoCall, Typed, TypeOK
  <2> QED BY <1>1, <2>1, <2>2 DEF Start, StartTurn, StartRelease, Interrupt, RecList, CallReturn
<1> QED BY <1>2, <1>3, <1>4, QuietIsMild, OutsideCustody DEF GuardedPcs, AcquirePcs

\* Containers may break and keys lapse.
LEMMA EnvironmentCustody ==
    ASSUME Calm, Typed, Custody, Environment
    PROVE  Custody'
<1>1. /\ \A w \in Workers : ~CancelTurn(w)
      /\ \A p \in Processes : ~Crash(p)
      /\ \A s \in Sessions : ~GhostConnect(s) /\ ~GhostRelease(s)
  BY DEF Calm, CancelTurn, Crash, GhostConnect, GhostRelease, Custody
<1>2. CASE \E b \in Boxes : BoxBreaks(b)
  <2>1. UNCHANGED <<binding, job, call, ghost>>
    BY <1>2 DEF BoxBreaks
  <2>2. \A b \in Boxes : owner'[b] \in {owner[b], None}
    BY <1>2 DEF BoxBreaks, Typed, TypeOK
  <2>3. \A s \in Sessions : Mild(s)
    BY <2>1, <2>2, ConstantsAssumption DEF Mild
  <2> QED BY <2>1, <2>3, NobodyMoves
<1>3. CASE \E s \in Sessions : LeaseExpires(s)
  <2>1. UNCHANGED <<owner, job, call, ghost>>
    BY <1>3 DEF LeaseExpires, rtVars
  <2>2. \A s \in Sessions : binding'[s].status = binding[s].status /\ binding'[s].box = binding[s].box
    BY <1>3 DEF LeaseExpires, With, Typed, TypeOK
  <2> QED BY <2>1, <2>2, NobodyMoves DEF Mild
<1>4. CASE \E s \in Sessions : LockLapses(s) \/ MarkerLapses(s)
  <2>1. UNCHANGED <<binding, owner, job, call, ghost>>
    BY <1>4 DEF LockLapses, MarkerLapses, rtVars
  <2> QED BY <2>1, QuietIsMild, NobodyMoves
<1> QED BY <1>1, <1>2, <1>3, <1>4 DEF Environment

\* As long as nothing fails, no turn is cut off and no session is deleted, a
\* container that no acquire or release is working on is claimed by the row of
\* its session, so that the next acquire reuses it and a release finds it:
\* whatever heartbeats, mark_idle, evictions and the reconcile loop write to
\* that row meanwhile, and however containers break.
THEOREM NothingIsStray ==
    ASSUME Calm, Reliable
    PROVE  Spec => []NoStrayContainer
<1>1. Init => Custody
  BY ConstantsAssumption DEF Init, Custody, NoStrayContainer, JobSafe, CallSafe, IdleJob, JobAt,
     NoCall, CallAt, GuardedPcs, AcquirePcs, NamedPcs, BoxPcs, EmptyPcs
<1>2. ASSUME Typed, GuardInv, GuardExclusive, Custody, [Next]_vars
      PROVE  Custody'
  <2>1. CASE UNCHANGED vars
    <3>1. UNCHANGED <<binding, owner, job, call, ghost>>
      BY <2>1 DEF vars
    <3> QED BY <1>2, <3>1, QuietIsMild, NobodyMoves
  <2>2. ASSUME NEW w \in Workers, Start(w) \/ Continue(w) \/ Heartbeat(w)
        PROVE  Custody'
    BY <1>2, <2>2, AcquireCustody, TurnCustody, ReleaseCustody, ReconcileCustody, StartCustody
       DEF Continue
  <2>3. CASE Environment
    BY <1>2, <2>3, EnvironmentCustody
  <2> QED BY <1>2, <2>1, <2>2, <2>3 DEF Next
<1>3. Custody => NoStrayContainer
  BY DEF Custody
<1>4. Spec => [](Typed /\ GuardInv /\ GuardExclusive)
  BY TypedAlways, GuardInvariant, GuardExcludes, PTL
<1> QED BY <1>1, <1>2, <1>3, <1>4, PTL DEF Spec
=============================================================================
