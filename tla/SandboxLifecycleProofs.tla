----------------------- MODULE SandboxLifecycleProofs -----------------------
(***************************************************************************)
(* Type correctness of the sandbox lifecycle, the mutual exclusion of its  *)
(* per-session guard, and that no turn whose task is named is released     *)
(* under it.  A lemma per operation shows that its steps keep the          *)
(* invariant, by the few ways in which steps write job, call, binding and  *)
(* the locks; the theorems put them together.                              *)
(***************************************************************************)
EXTENDS SandboxLifecycle, TLAPS

\* The type invariant with what its preservation needs to know of the pcs.
Typed == TypeOK /\ Placed

\* The rows the code writes are rows.
LEMMA RowsTyped ==
    /\ NoRow \in Row
    /\ NoList \in [Sessions -> Row]
    /\ \A row \in Row, status \in Statuses, lease \in Leases : With(row, status, lease) \in Row
    /\ \A b \in Boxes \cup {None} : Bound(b) \in Row
  BY ConstantsAssumption DEF NoRow, NoList, Row, Statuses, Leases, With, Bound

\* A row put together field by field is a row.
LEMMA RowTyped ==
    ASSUME NEW status \in Statuses, NEW box \in Boxes \cup {None}, NEW lease \in Leases,
           NEW attempts \in Nat
    PROVE  [status |-> status, box |-> box, lease |-> lease, attempts |-> attempts] \in Row
  BY DEF Row

\* What a row is made of.
LEMMA RowFields ==
    ASSUME NEW row \in Row
    PROVE  /\ row.status \in Statuses /\ row.box \in Boxes \cup {None}
           /\ row.lease \in Leases /\ row.attempts \in Nat
  BY DEF Row

\* Writing a row keeps the table typed.
LEMMA UpdatedTyped ==
    ASSUME TypeOK, NEW s \in Sessions, NEW row \in Row
    PROVE  /\ Updated(s, row) \in [Sessions -> Row]
           /\ [binding EXCEPT ![s] = row] \in [Sessions -> Row]
  BY DEF TypeOK, Updated

\* Entering and leaving the guard keep the two locks typed.
LEMMA LocksTyped ==
    ASSUME TypeOK, NEW w \in Workers, NEW s \in Sessions
    PROVE  /\ EnterGuard(w, s) => /\ redisLock' \in [Sessions -> Workers \cup {None, Left}]
                                  /\ localLock' \in [Processes -> [Sessions -> Workers \cup {None}]]
           /\ Unlocal(w, s) => localLock' \in [Processes -> [Sessions -> Workers \cup {None}]]
           /\ DropKey(s) \/ AbandonKey(w, s)
                 => redisLock' \in [Sessions -> Workers \cup {None, Left}]
<1>1. Home[w] \in Processes
  BY ConstantsAssumption
<1>2. EnterGuard(w, s) => localLock' \in [Processes -> [Sessions -> Workers \cup {None}]]
  BY <1>1 DEF TypeOK, EnterGuard
<1>3. EnterGuard(w, s) => redisLock' \in [Sessions -> Workers \cup {None, Left}]
  BY DEF TypeOK, EnterGuard
<1>4. Unlocal(w, s) => localLock' \in [Processes -> [Sessions -> Workers \cup {None}]]
  BY <1>1 DEF TypeOK, Unlocal
<1>5. DropKey(s) \/ AbandonKey(w, s) => redisLock' \in [Sessions -> Workers \cup {None, Left}]
  BY DEF TypeOK, DropKey, AbandonKey
<1> QED BY <1>2, <1>3, <1>4, <1>5

\* What the local state of a worker is made of.
LEMMA JobFields ==
    ASSUME TypeOK, NEW w \in Workers
    PROVE  /\ job[w] \in Job
           /\ job[w].kind \in {"sync", "async"}
           /\ job[w].sess \in Sessions \cup {None}
           /\ job[w].snap \in Row
           /\ job[w].box \in Boxes \cup {None}
           /\ job[w].list \in [Sessions -> Row]
           /\ \A s \in Sessions : Without(w, s) \in [Sessions -> Row]
           /\ job[w].res \in Results
<1>1. job[w] \in Job
  BY DEF TypeOK
<1> QED BY <1>1, RowsTyped DEF Job, Without

\* A new operation of a worker is typed.
LEMMA JobAtTyped ==
    ASSUME NEW l \in JobPcs, NEW k \in {"sync", "async"}, NEW s \in Sessions \cup {None}
    PROVE  JobAt(l, k, s) \in Job
  BY RowsTyped DEF JobAt, Job, Results

\* A worker that takes up a typed operation keeps job typed.
LEMMA BecomeTyped ==
    ASSUME TypeOK, NEW w \in Workers, NEW j \in Job, Become(w, j)
    PROVE  job' \in [Workers -> Job]
  BY DEF TypeOK, Become

\* A worker that goes on with typed local values keeps job typed.
LEMMA JobToTyped ==
    ASSUME TypeOK, NEW w \in Workers, NEW l \in JobPcs, NEW snap \in Row,
           NEW box \in Boxes \cup {None}, NEW list \in [Sessions -> Row], NEW res \in Results,
           JobTo(w, l, snap, box, list, res)
    PROVE  job' \in [Workers -> Job]
  BY JobFields DEF TypeOK, Become, JobTo, Job

\* Each of the short forms of going on keeps job typed.
LEMMA GotoTyped ==
    ASSUME TypeOK, NEW w \in Workers, NEW l \in JobPcs,
           \/ Goto(w, l)
           \/ \E r \in Results : GotoWith(w, l, r)
           \/ \E b \in Boxes : GotoBox(w, l, b)
           \/ \E list \in [Sessions -> Row] : GotoList(w, l, list)
    PROVE  job' \in [Workers -> Job]
  BY JobFields, JobToTyped DEF Goto, GotoWith, GotoBox, GotoList

\* What a call of release is made of.
LEMMA CallFields ==
    ASSUME TypeOK, NEW w \in Workers
    PROVE  /\ call[w] \in Call
           /\ call[w].sess \in Sessions \cup {None}
           /\ call[w].force \in BOOLEAN
           /\ call[w].retry \in BOOLEAN
           /\ call[w].row \in Row
           /\ call[w].res \in Results
<1>1. call[w] \in Call
  BY DEF TypeOK
<1> QED BY <1>1 DEF Call

\* A call that goes on with a typed row and result keeps call typed.
LEMMA CallToTyped ==
    ASSUME TypeOK, NEW w \in Workers, NEW l \in CallPcs, NEW row \in Row, NEW res \in Results,
           CallTo(w, l, row, res)
    PROVE  call' \in [Workers -> Call]
  BY CallFields DEF TypeOK, CallTo, Call

\* Each of the short forms of going on with a call keeps call typed.
LEMMA CallGotoTyped ==
    ASSUME TypeOK, NEW w \in Workers, NEW l \in CallPcs,
           CallGoto(w, l) \/ \E r \in Results : CallGotoWith(w, l, r)
    PROVE  call' \in [Workers -> Call]
  BY CallFields, CallToTyped DEF CallGoto, CallGotoWith

\* Beginning and ending a call keep call typed.
LEMMA BeginTyped ==
    ASSUME TypeOK, NEW w \in Workers
    PROVE  /\ \A s \in Sessions, force \in BOOLEAN, retry \in BOOLEAN :
                 Begin(w, s, force, retry) => call' \in [Workers -> Call]
           /\ Return(w) => call' \in [Workers -> Call]
<1>1. \A l \in CallPcs, s \in Sessions \cup {None}, force \in BOOLEAN, retry \in BOOLEAN :
         CallAt(l, s, force, retry) \in Call
  BY RowsTyped DEF CallAt, Call, Results
<1>2. {"guard", "off"} \subseteq CallPcs
  BY DEF CallPcs
<1>0. NoCall \in Call
  BY <1>1, <1>2 DEF NoCall
<1>3. Return(w) => call' \in [Workers -> Call]
  BY <1>0 DEF TypeOK, Return
<1>4. \A s \in Sessions, force \in BOOLEAN, retry \in BOOLEAN :
         Begin(w, s, force, retry) => call' \in [Workers -> Call]
  BY <1>1, <1>2 DEF TypeOK, Begin
<1> QED BY <1>3, <1>4

\* The Runtime calls keep the containers typed.
LEMMA ConnectTyped ==
    ASSUME TypeOK, NEW s \in Sessions
    PROVE  /\ \A b \in Boxes : Connect(s, b) => 
                 owner' \in [Boxes -> Sessions \cup {None}] /\ sick' \subseteq Boxes
           /\ ConnectLost(s) => 
                 owner' \in [Boxes -> Sessions \cup {None}] /\ sick' \subseteq Boxes
           /\ Unregister(s) => 
                 owner' \in [Boxes -> Sessions \cup {None}] /\ sick' \subseteq Boxes
  BY DEF TypeOK, Connect, ConnectLost, Unregister

\* Every step of acquire keeps the invariant.
LEMMA AcquireTyped ==
    ASSUME Typed, NEW w \in Workers, AcquireStep(w)
    PROVE  Typed'
<1>0. job[w].sess \in Sessions
    BY DEF Typed, Placed, AcquireStep, AcqEnter, AcqBusy, AcqVerify, AcqReuse, AcqRenew,
     AcqMark, AcqDetach, AcqUndo, AcqCapacity, AcqEvict, AcqEvicted, AcqCreate, AcqBind,
     AcqLeave
<1>1. CASE AcqEnter(w)
  <2>1. job' \in [Workers -> Job]
    BY <1>1, <1>0, RowsTyped, JobFields, JobToTyped DEF Typed, TypeOK, AcqEnter,
       JobPcs, TurnPcs, AcquirePcs, HoldPcs, Results
  <2>2. TypeOK'
    BY <1>1, <1>0, <2>1, ConnectTyped, LocksTyped DEF Typed, TypeOK, AcqEnter,
       rtVars, lockVars, taskVars
  <2>3. Placed'
    BY <1>1, <1>0 DEF Typed, TypeOK, Placed, AcqEnter, JobTo, Goto, GotoWith,
       GotoBox, GotoList, Become
  <2> QED BY <2>2, <2>3 DEF Typed
<1>2. CASE AcqBusy(w)
  <2>1. job' \in [Workers -> Job]
    BY <1>2, <1>0, RowsTyped, JobFields, GotoTyped DEF Typed, TypeOK, AcqBusy,
       JobPcs, TurnPcs, AcquirePcs, HoldPcs, Results
  <2>2. TypeOK'
    BY <1>2, <1>0, <2>1, ConnectTyped, LocksTyped DEF Typed, TypeOK, AcqBusy,
       rtVars, lockVars, taskVars
  <2>3. Placed'
    BY <1>2, <1>0 DEF Typed, TypeOK, Placed, AcqBusy, JobTo, Goto, GotoWith,
       GotoBox, GotoList, Become
  <2> QED BY <2>2, <2>3 DEF Typed
<1>3. CASE AcqVerify(w)
  <2>1. job' \in [Workers -> Job]
    BY <1>3, <1>0, RowsTyped, JobFields, GotoTyped DEF Typed, TypeOK, AcqVerify,
       JobPcs, TurnPcs, AcquirePcs, HoldPcs, Results
  <2>2. TypeOK'
    BY <1>3, <1>0, <2>1, ConnectTyped, LocksTyped DEF Typed, TypeOK, AcqVerify,
       rtVars, lockVars, taskVars
  <2>3. Placed'
    BY <1>3, <1>0 DEF Typed, TypeOK, Placed, AcqVerify, JobTo, Goto, GotoWith,
       GotoBox, GotoList, Become
  <2> QED BY <2>2, <2>3 DEF Typed
<1>4. CASE AcqReuse(w)
  <2>1. job' \in [Workers -> Job]
    BY <1>4, <1>0, RowsTyped, JobFields, GotoTyped DEF Typed, TypeOK, AcqReuse,
       JobPcs, TurnPcs, AcquirePcs, HoldPcs, Results
  <2>2. TypeOK'
    BY <1>4, <1>0, <2>1, ConnectTyped, LocksTyped DEF Typed, TypeOK, AcqReuse,
       rtVars, lockVars, taskVars
  <2>3. Placed'
    BY <1>4, <1>0 DEF Typed, TypeOK, Placed, AcqReuse, JobTo, Goto, GotoWith,
       GotoBox, GotoList, Become
  <2> QED BY <2>2, <2>3 DEF Typed
<1>5. CASE AcqRenew(w)
  <2>1. job' \in [Workers -> Job]
    BY <1>5, <1>0, RowsTyped, JobFields, GotoTyped DEF Typed, TypeOK, AcqRenew,
       JobPcs, TurnPcs, AcquirePcs, HoldPcs, Results
  <2>2. binding' \in [Sessions -> Row]
    BY <1>5, <1>0, RowFields, RowTyped, UpdatedTyped, JobFields DEF Typed, TypeOK,
       AcqRenew, Statuses, Leases
  <2>3. TypeOK'
    BY <1>5, <1>0, <2>1, <2>2, ConnectTyped, LocksTyped DEF Typed, TypeOK, AcqRenew,
       rtVars, lockVars, taskVars
  <2>4. Placed'
    BY <1>5, <1>0 DEF Typed, TypeOK, Placed, AcqRenew, JobTo, Goto, GotoWith,
       GotoBox, GotoList, Become
  <2> QED BY <2>3, <2>4 DEF Typed
<1>6. CASE AcqMark(w)
  <2>1. job' \in [Workers -> Job]
    BY <1>6, <1>0, RowsTyped, JobFields, GotoTyped DEF Typed, TypeOK, AcqMark,
       JobPcs, TurnPcs, AcquirePcs, HoldPcs, Results
  <2>2. binding' \in [Sessions -> Row]
    BY <1>6, <1>0, RowFields, RowTyped, UpdatedTyped, RowsTyped DEF Typed, TypeOK,
       AcqMark, Statuses, Leases
  <2>3. TypeOK'
    BY <1>6, <1>0, <2>1, <2>2, ConnectTyped, LocksTyped DEF Typed, TypeOK, AcqMark,
       rtVars, lockVars, taskVars
  <2>4. Placed'
    BY <1>6, <1>0 DEF Typed, TypeOK, Placed, AcqMark, JobTo, Goto, GotoWith,
       GotoBox, GotoList, Become
  <2> QED BY <2>3, <2>4 DEF Typed
<1>7. CASE AcqDetach(w)
  <2>1. job' \in [Workers -> Job]
    BY <1>7, <1>0, RowsTyped, JobFields, GotoTyped DEF Typed, TypeOK, AcqDetach,
       Detach, JobPcs, TurnPcs, AcquirePcs, HoldPcs, Results
  <2>2. TypeOK'
    BY <1>7, <1>0, <2>1, ConnectTyped, LocksTyped DEF Typed, TypeOK, AcqDetach,
       Detach, rtVars, lockVars, taskVars
  <2>3. Placed'
    BY <1>7, <1>0 DEF Typed, TypeOK, Placed, AcqDetach, Detach, JobTo, Goto,
       GotoWith, GotoBox, GotoList, Become
  <2> QED BY <2>2, <2>3 DEF Typed
<1>8. CASE AcqUndo(w)
  <2>1. job' \in [Workers -> Job]
    BY <1>8, <1>0, RowsTyped, JobFields, GotoTyped DEF Typed, TypeOK, AcqUndo,
       Detach, JobPcs, TurnPcs, AcquirePcs, HoldPcs, Results
  <2>2. TypeOK'
    BY <1>8, <1>0, <2>1, ConnectTyped, LocksTyped DEF Typed, TypeOK, AcqUndo,
       Detach, rtVars, lockVars, taskVars
  <2>3. Placed'
    BY <1>8, <1>0 DEF Typed, TypeOK, Placed, AcqUndo, Detach, JobTo, Goto, GotoWith,
       GotoBox, GotoList, Become
  <2> QED BY <2>2, <2>3 DEF Typed
<1>9. CASE AcqCapacity(w)
  <2>1. job' \in [Workers -> Job]
    BY <1>9, <1>0, RowsTyped, JobFields, GotoTyped DEF Typed, TypeOK, AcqCapacity,
       JobPcs, TurnPcs, AcquirePcs, HoldPcs, Results
  <2>2. TypeOK'
    BY <1>9, <1>0, <2>1, ConnectTyped, LocksTyped DEF Typed, TypeOK, AcqCapacity,
       rtVars, lockVars, taskVars
  <2>3. Placed'
    BY <1>9, <1>0 DEF Typed, TypeOK, Placed, AcqCapacity, JobTo, Goto, GotoWith,
       GotoBox, GotoList, Become
  <2> QED BY <2>2, <2>3 DEF Typed
<1>10. CASE AcqEvict(w)
  <2>1. \A x \in Sessions : job[w].list[x] # NoRow =>
           x # job[w].sess /\ Without(w, x)[job[w].sess] = NoRow
    BY <1>10, <1>0, JobFields DEF Typed, Placed, AcqEvict, Without
  <2>2. job' \in [Workers -> Job]
    BY <1>10, <1>0, <2>1, RowsTyped, JobFields, GotoTyped DEF Typed, TypeOK,
       AcqEvict, JobPcs, TurnPcs, AcquirePcs, HoldPcs, Results
  <2>3. call' \in [Workers -> Call]
    BY <1>10, <1>0, <2>1, CallFields, BeginTyped DEF Typed, TypeOK, AcqEvict,
       CallPcs, Results
  <2>4. TypeOK'
    BY <1>10, <1>0, <2>1, <2>2, <2>3, ConnectTyped, LocksTyped DEF Typed,
       TypeOK, AcqEvict, rtVars, lockVars, taskVars
  <2>5. Placed'
    BY <1>10, <1>0, <2>1 DEF Typed, TypeOK, Placed, AcqEvict, JobTo, Goto, GotoWith,
       GotoBox, GotoList, Become, JobAt, IdleJob, Begin, Return, NoCall, CallAt
  <2> QED BY <2>4, <2>5 DEF Typed
<1>11. CASE AcqEvicted(w)
  <2>1. job' \in [Workers -> Job]
    BY <1>11, <1>0, RowsTyped, JobFields, GotoTyped DEF Typed, TypeOK, AcqEvicted,
       JobPcs, TurnPcs, AcquirePcs, HoldPcs, Results
  <2>2. call' \in [Workers -> Call]
    BY <1>11, <1>0, CallFields, BeginTyped DEF Typed, TypeOK, AcqEvicted, CallPcs,
       Results
  <2>3. TypeOK'
    BY <1>11, <1>0, <2>1, <2>2, ConnectTyped, LocksTyped DEF Typed, TypeOK,
       AcqEvicted, rtVars, lockVars, taskVars
  <2>4. Placed'
    BY <1>11, <1>0 DEF Typed, TypeOK, Placed, AcqEvicted, JobTo, Goto, GotoWith,
       GotoBox, GotoList, Become, JobAt, IdleJob, Begin, Return, NoCall, CallAt
  <2> QED BY <2>3, <2>4 DEF Typed
<1>12. CASE AcqCreate(w)
  <2>1. job' \in [Workers -> Job]
    BY <1>12, <1>0, RowsTyped, JobFields, GotoTyped DEF Typed, TypeOK, AcqCreate,
       JobPcs, TurnPcs, AcquirePcs, HoldPcs, Results
  <2>2. TypeOK'
    BY <1>12, <1>0, <2>1, ConnectTyped, LocksTyped DEF Typed, TypeOK, AcqCreate,
       rtVars, lockVars, taskVars
  <2>3. Placed'
    BY <1>12, <1>0 DEF Typed, TypeOK, Placed, AcqCreate, JobTo, Goto, GotoWith,
       GotoBox, GotoList, Become
  <2> QED BY <2>2, <2>3 DEF Typed
<1>13. CASE AcqBind(w)
  <2>1. Bound(job[w].box) \in Row
    BY <1>13, <1>0, RowsTyped, JobFields DEF Typed
  <2>2. /\ Updated(job[w].sess, Bound(job[w].box)) \in [Sessions -> Row]
        /\ [binding EXCEPT ![job[w].sess] = Bound(job[w].box)] \in [Sessions -> Row]
    BY <1>13, <1>0, <2>1, UpdatedTyped DEF Typed
  <2>3. job' \in [Workers -> Job]
    BY <1>13, <1>0, <2>1, <2>2, RowsTyped, JobFields, GotoTyped DEF Typed, TypeOK,
       AcqBind, JobPcs, TurnPcs, AcquirePcs, HoldPcs, Results
  <2>4. binding' \in [Sessions -> Row]
    BY <1>13, <1>0, <2>1, <2>2, RowFields, RowTyped, UpdatedTyped DEF Typed, TypeOK,
       AcqBind, Statuses, Leases
  <2>5. TypeOK'
    BY <1>13, <1>0, <2>1, <2>2, <2>3, <2>4, ConnectTyped, LocksTyped
       DEF Typed, TypeOK, AcqBind, rtVars, lockVars, taskVars
  <2>6. Placed'
    BY <1>13, <1>0, <2>1, <2>2 DEF Typed, TypeOK, Placed, AcqBind, JobTo, Goto,
       GotoWith, GotoBox, GotoList, Become
  <2> QED BY <2>5, <2>6 DEF Typed
<1>14. CASE AcqLeave(w)
  <2>1. job' \in [Workers -> Job]
    BY <1>14, <1>0, RowsTyped, JobFields, GotoTyped, JobAtTyped, BecomeTyped
       DEF Typed, TypeOK, AcqLeave, AfterAcquire, JobPcs, TurnPcs, AcquirePcs, HoldPcs,
       Results
  <2>2. TypeOK'
    BY <1>14, <1>0, <2>1, ConnectTyped, LocksTyped DEF Typed, TypeOK, AcqLeave,
       AfterAcquire, rtVars, lockVars, taskVars
  <2>3. Placed'
    BY <1>14, <1>0 DEF Typed, TypeOK, Placed, AcqLeave, AfterAcquire, JobTo, Goto,
       GotoWith, GotoBox, GotoList, Become, JobAt
  <2> QED BY <2>2, <2>3 DEF Typed
<1> QED BY <1>1, <1>2, <1>3, <1>4, <1>5, <1>6, <1>7, <1>8, <1>9, <1>10, <1>11, <1>12,
   <1>13, <1>14 DEF AcquireStep

\* Every step of the rest of a turn keeps the invariant.
LEMMA TurnTyped ==
    ASSUME Typed, NEW w \in Workers, TurnStep(w)
    PROVE  Typed'
<1>0. job[w].sess \in Sessions
    BY DEF Typed, Placed, TurnStep, Injected, RegisterAgent, FinishTurn, MarkIdleRead,
     MarkIdleWrite, EndTurn
<1>1. CASE Injected(w)
  <2>1. job' \in [Workers -> Job]
    BY <1>1, <1>0, RowsTyped, JobFields, GotoTyped DEF Typed, TypeOK, Injected,
       JobPcs, TurnPcs, AcquirePcs, HoldPcs, Results
  <2>2. TypeOK'
    BY <1>1, <1>0, <2>1, ConnectTyped, LocksTyped DEF Typed, TypeOK, Injected,
       rtVars, lockVars, taskVars
  <2>3. Placed'
    BY <1>1, <1>0 DEF Typed, TypeOK, Placed, Injected, JobTo, Goto, GotoWith,
       GotoBox, GotoList, Become
  <2> QED BY <2>2, <2>3 DEF Typed
<1>2. CASE RegisterAgent(w)
  <2>1. job' \in [Workers -> Job]
    BY <1>2, <1>0, RowsTyped, JobFields, GotoTyped DEF Typed, TypeOK, RegisterAgent,
       JobPcs, TurnPcs, AcquirePcs, HoldPcs, Results
  <2>2. TypeOK'
    BY <1>2, <1>0, <2>1, ConnectTyped, LocksTyped DEF Typed, TypeOK, RegisterAgent,
       rtVars, lockVars, taskVars
  <2>3. Placed'
    BY <1>2, <1>0 DEF Typed, TypeOK, Placed, RegisterAgent, JobTo, Goto, GotoWith,
       GotoBox, GotoList, Become
  <2> QED BY <2>2, <2>3 DEF Typed
<1>3. CASE FinishTurn(w)
  <2>1. job' \in [Workers -> Job]
    BY <1>3, <1>0, RowsTyped, JobFields, GotoTyped DEF Typed, TypeOK, FinishTurn,
       JobPcs, TurnPcs, AcquirePcs, HoldPcs, Results
  <2>2. TypeOK'
    BY <1>3, <1>0, <2>1, ConnectTyped, LocksTyped DEF Typed, TypeOK, FinishTurn,
       rtVars, lockVars, taskVars
  <2>3. Placed'
    BY <1>3, <1>0 DEF Typed, TypeOK, Placed, FinishTurn, JobTo, Goto, GotoWith,
       GotoBox, GotoList, Become
  <2> QED BY <2>2, <2>3 DEF Typed
<1>4. CASE MarkIdleRead(w)
  <2>1. job' \in [Workers -> Job]
    BY <1>4, <1>0, RowsTyped, JobFields, GotoTyped DEF Typed, TypeOK, MarkIdleRead,
       JobPcs, TurnPcs, AcquirePcs, HoldPcs, Results
  <2>2. TypeOK'
    BY <1>4, <1>0, <2>1, ConnectTyped, LocksTyped DEF Typed, TypeOK, MarkIdleRead,
       rtVars, lockVars, taskVars
  <2>3. Placed'
    BY <1>4, <1>0 DEF Typed, TypeOK, Placed, MarkIdleRead, JobTo, Goto, GotoWith,
       GotoBox, GotoList, Become
  <2> QED BY <2>2, <2>3 DEF Typed
<1>5. CASE MarkIdleWrite(w)
  <2>1. job' \in [Workers -> Job]
    BY <1>5, <1>0, RowsTyped, JobFields, GotoTyped DEF Typed, TypeOK, MarkIdleWrite,
       JobPcs, TurnPcs, AcquirePcs, HoldPcs, Results
  <2>2. binding' \in [Sessions -> Row]
    BY <1>5, <1>0, RowFields, RowTyped, UpdatedTyped, RowsTyped DEF Typed, TypeOK,
       MarkIdleWrite, Statuses, Leases
  <2>3. TypeOK'
    BY <1>5, <1>0, <2>1, <2>2, ConnectTyped, LocksTyped DEF Typed, TypeOK,
       MarkIdleWrite, rtVars, lockVars, taskVars
  <2>4. Placed'
    BY <1>5, <1>0 DEF Typed, TypeOK, Placed, MarkIdleWrite, JobTo, Goto, GotoWith,
       GotoBox, GotoList, Become
  <2> QED BY <2>3, <2>4 DEF Typed
<1>6. CASE EndTurn(w)
  <2>1. job' \in [Workers -> Job]
    BY <1>6, <1>0, RowsTyped, JobFields, GotoTyped, JobAtTyped, BecomeTyped
       DEF Typed, TypeOK, EndTurn, Idle, IdleJob, JobPcs, TurnPcs, AcquirePcs, HoldPcs,
       Results
  <2>2. TypeOK'
    BY <1>6, <1>0, <2>1, ConnectTyped, LocksTyped DEF Typed, TypeOK, EndTurn,
       rtVars, lockVars, taskVars
  <2>3. Placed'
    BY <1>6, <1>0 DEF Typed, TypeOK, Placed, EndTurn, JobTo, Goto, GotoWith,
       GotoBox, GotoList, Become, Idle, IdleJob, JobAt
  <2> QED BY <2>2, <2>3 DEF Typed
<1> QED BY <1>1, <1>2, <1>3, <1>4, <1>5, <1>6 DEF TurnStep

\* Every step of release keeps the invariant.
LEMMA ReleaseTyped ==
    ASSUME Typed, NEW w \in Workers, ReleaseStep(w)
    PROVE  Typed'
<1>0. /\ call[w].sess \in Sessions
      /\ job[w].pc \in {"acq_evicting", "rec_wait", "rel_wait", "del_wait"}
    BY DEF Typed, Placed, ReleaseStep, RelEnter, RelBusy, RelCheck, RelMark, RelRuntime,
     RelConfirm, RelFail, RelCommit, RelLeave
<1>1. CASE RelEnter(w)
  <2>1. binding[call[w].sess] \in Row /\ binding[call[w].sess].status \in Results
    BY <1>1, <1>0 DEF Typed, TypeOK, Row, Results
  <2>2. call' \in [Workers -> Call]
    BY <1>1, <1>0, <2>1, CallFields, CallGotoTyped, CallToTyped, RowFields
       DEF Typed, TypeOK, RelEnter, Statuses, CallPcs, Results
  <2>3. TypeOK'
    BY <1>1, <1>0, <2>1, <2>2, ConnectTyped, LocksTyped DEF Typed, TypeOK,
       RelEnter, rtVars, lockVars, taskVars
  <2>4. Placed'
    BY <1>1, <1>0, <2>1 DEF Typed, TypeOK, Placed, RelEnter, CallTo, CallGoto,
       CallGotoWith
  <2> QED BY <2>3, <2>4 DEF Typed
<1>2. CASE RelBusy(w)
  <2>1. call' \in [Workers -> Call]
    BY <1>2, <1>0, CallFields, CallGotoTyped, CallToTyped DEF Typed, TypeOK,
       RelBusy, CallPcs, Results
  <2>2. TypeOK'
    BY <1>2, <1>0, <2>1, ConnectTyped, LocksTyped DEF Typed, TypeOK, RelBusy,
       rtVars, lockVars, taskVars
  <2>3. Placed'
    BY <1>2, <1>0 DEF Typed, TypeOK, Placed, RelBusy, CallTo, CallGoto, CallGotoWith
  <2> QED BY <2>2, <2>3 DEF Typed
<1>3. CASE RelCheck(w)
  <2>1. call' \in [Workers -> Call]
    BY <1>3, <1>0, CallFields, CallGotoTyped, CallToTyped DEF Typed, TypeOK,
       RelCheck, CallPcs, Results
  <2>2. TypeOK'
    BY <1>3, <1>0, <2>1, ConnectTyped, LocksTyped DEF Typed, TypeOK, RelCheck,
       rtVars, lockVars, taskVars
  <2>3. Placed'
    BY <1>3, <1>0 DEF Typed, TypeOK, Placed, RelCheck, CallTo, CallGoto,
       CallGotoWith
  <2> QED BY <2>2, <2>3 DEF Typed
<1>4. CASE RelMark(w)
  <2>1. LET again == call[w].row.status = "FAILED" IN
        [status |-> "RELEASING", box |-> binding[call[w].sess].box,
         lease |-> IF again THEN binding[call[w].sess].lease ELSE "none",
         attempts |-> IF again THEN 0 ELSE binding[call[w].sess].attempts] \in Row
    BY <1>4, <1>0, ConstantsAssumption DEF Typed, TypeOK, Row, Statuses, Leases
  <2>2. call' \in [Workers -> Call]
    BY <1>4, <1>0, <2>1, CallFields, CallGotoTyped, CallToTyped DEF Typed, TypeOK,
       RelMark, CallPcs, Results
  <2>3. binding' \in [Sessions -> Row]
    BY <1>4, <1>0, <2>1, RowFields, RowTyped, UpdatedTyped DEF Typed, TypeOK,
       RelMark, Statuses, Leases
  <2>4. TypeOK'
    BY <1>4, <1>0, <2>1, <2>2, <2>3, ConnectTyped, LocksTyped DEF Typed,
       TypeOK, RelMark, rtVars, lockVars, taskVars
  <2>5. Placed'
    BY <1>4, <1>0, <2>1 DEF Typed, TypeOK, Placed, RelMark, CallTo, CallGoto,
       CallGotoWith
  <2> QED BY <2>4, <2>5 DEF Typed
<1>5. CASE RelRuntime(w)
  <2>1. call' \in [Workers -> Call]
    BY <1>5, <1>0, CallFields, CallGotoTyped, CallToTyped DEF Typed, TypeOK,
       RelRuntime, CallPcs, Results
  <2>2. TypeOK'
    BY <1>5, <1>0, <2>1, ConnectTyped, LocksTyped DEF Typed, TypeOK, RelRuntime,
       rtVars, lockVars, taskVars
  <2>3. Placed'
    BY <1>5, <1>0 DEF Typed, TypeOK, Placed, RelRuntime, CallTo, CallGoto,
       CallGotoWith
  <2> QED BY <2>2, <2>3 DEF Typed
<1>6. CASE RelConfirm(w)
  <2>1. call' \in [Workers -> Call]
    BY <1>6, <1>0, CallFields, CallGotoTyped, CallToTyped DEF Typed, TypeOK,
       RelConfirm, CallPcs, Results
  <2>2. TypeOK'
    BY <1>6, <1>0, <2>1, ConnectTyped, LocksTyped DEF Typed, TypeOK, RelConfirm,
       rtVars, lockVars, taskVars
  <2>3. Placed'
    BY <1>6, <1>0 DEF Typed, TypeOK, Placed, RelConfirm, CallTo, CallGoto,
       CallGotoWith
  <2> QED BY <2>2, <2>3 DEF Typed
<1>7. CASE RelFail(w)
  <2>1. OneMore(call[w].row.attempts) \in Nat
    BY <1>7, <1>0, CallFields, RowFields, ConstantsAssumption DEF Typed, OneMore
  <2>2. call' \in [Workers -> Call]
    BY <1>7, <1>0, <2>1, CallFields, CallGotoTyped, CallToTyped DEF Typed, TypeOK,
       RelFail, CallPcs, Results
  <2>3. binding' \in [Sessions -> Row]
    BY <1>7, <1>0, <2>1, RowFields, RowTyped, UpdatedTyped DEF Typed, TypeOK,
       RelFail, Statuses, Leases
  <2>4. TypeOK'
    BY <1>7, <1>0, <2>1, <2>2, <2>3, ConnectTyped, LocksTyped DEF Typed,
       TypeOK, RelFail, rtVars, lockVars, taskVars
  <2>5. Placed'
    BY <1>7, <1>0, <2>1 DEF Typed, TypeOK, Placed, RelFail, CallTo, CallGoto,
       CallGotoWith
  <2> QED BY <2>4, <2>5 DEF Typed
<1>8. CASE RelCommit(w)
  <2>1. call' \in [Workers -> Call]
    BY <1>8, <1>0, CallFields, CallGotoTyped, CallToTyped DEF Typed, TypeOK,
       RelCommit, CallPcs, Results
  <2>2. binding' \in [Sessions -> Row]
    BY <1>8, <1>0, RowFields, RowTyped, UpdatedTyped, CallFields DEF Typed, TypeOK,
       RelCommit, Statuses, Leases
  <2>3. TypeOK'
    BY <1>8, <1>0, <2>1, <2>2, ConnectTyped, LocksTyped DEF Typed, TypeOK,
       RelCommit, rtVars, lockVars, taskVars
  <2>4. Placed'
    BY <1>8, <1>0 DEF Typed, TypeOK, Placed, RelCommit, CallTo, CallGoto,
       CallGotoWith
  <2> QED BY <2>3, <2>4 DEF Typed
<1>9. CASE RelLeave(w)
  <2>1. binding[call[w].sess].status \in Results
    BY <1>9, <1>0 DEF Typed, TypeOK, Row, Results
  <2>2. Outcome(w) \in Results
    BY <1>9, <1>0, <2>1, CallFields DEF Typed, Outcome, Results
  <2>3. call' \in [Workers -> Call]
    BY <1>9, <1>0, <2>1, <2>2, CallFields, CallGotoTyped DEF Typed, TypeOK,
       RelLeave, CallPcs, Results
  <2>4. TypeOK'
    BY <1>9, <1>0, <2>1, <2>2, <2>3, ConnectTyped, LocksTyped DEF Typed,
       TypeOK, RelLeave, rtVars, lockVars, taskVars
  <2>5. Placed'
    BY <1>9, <1>0, <2>1, <2>2 DEF Typed, TypeOK, Placed, RelLeave, CallTo, CallGoto,
       CallGotoWith
  <2> QED BY <2>4, <2>5 DEF Typed
<1> QED BY <1>1, <1>2, <1>3, <1>4, <1>5, <1>6, <1>7, <1>8, <1>9 DEF ReleaseStep

\* Every step of the reconcile loop keeps the invariant.
LEMMA ReconcileTyped ==
    ASSUME Typed, NEW w \in Workers, ReconcileStep(w) \/ RecList(w)
    PROVE  Typed'
<1>1. CASE \E s \in Sessions : RecSkip(w, s)
  <2>1. job' \in [Workers -> Job]
    BY <1>1, RowsTyped, JobFields, GotoTyped DEF Typed, TypeOK, RecSkip, JobPcs,
       TurnPcs, AcquirePcs, HoldPcs, Results
  <2>2. TypeOK'
    BY <1>1, <2>1, ConnectTyped, LocksTyped DEF Typed, TypeOK, RecSkip, rtVars,
       lockVars, taskVars
  <2>3. Placed'
    BY <1>1, JobFields DEF Typed, TypeOK, Placed, RecSkip, JobTo, Goto, GotoWith,
       GotoBox, GotoList, Become, JobAt, IdleJob, Begin, Return, NoCall, CallAt, Scan
  <2> QED BY <2>2, <2>3 DEF Typed
<1>2. CASE \E s \in Sessions : RecRelease(w, s)
  <2>1. job' \in [Workers -> Job]
    BY <1>2, RowsTyped, JobFields, GotoTyped DEF Typed, TypeOK, RecRelease, JobPcs,
       TurnPcs, AcquirePcs, HoldPcs, Results
  <2>2. call' \in [Workers -> Call]
    BY <1>2, CallFields, BeginTyped DEF Typed, TypeOK, RecRelease, CallPcs, Results
  <2>3. TypeOK'
    BY <1>2, <2>1, <2>2, ConnectTyped, LocksTyped DEF Typed, TypeOK, RecRelease,
       rtVars, lockVars, taskVars
  <2>4. Placed'
    BY <1>2, JobFields DEF Typed, TypeOK, Placed, RecRelease, JobTo, Goto, GotoWith,
       GotoBox, GotoList, Become, JobAt, IdleJob, Begin, Return, NoCall, CallAt, Scan
  <2> QED BY <2>3, <2>4 DEF Typed
<1>3. CASE \E s \in Sessions : RecMissing(w, s)
  <2>1. job' \in [Workers -> Job]
    BY <1>3, RowsTyped, JobFields, BecomeTyped DEF Typed, TypeOK, RecMissing, Scan,
       Job, JobPcs, TurnPcs, AcquirePcs, HoldPcs, Results
  <2>2. TypeOK'
    BY <1>3, <2>1, ConnectTyped, LocksTyped DEF Typed, TypeOK, RecMissing, rtVars,
       lockVars, taskVars
  <2>3. Placed'
    BY <1>3, JobFields DEF Typed, TypeOK, Placed, RecMissing, JobTo, Goto, GotoWith,
       GotoBox, GotoList, Become, JobAt, IdleJob, Begin, Return, NoCall, CallAt, Scan
  <2> QED BY <2>2, <2>3 DEF Typed
<1>4. CASE RecOrphan(w)
  <2>1. job[w].sess \in Sessions
    BY <1>4 DEF Typed, Placed, RecOrphan
  <2>2. job' \in [Workers -> Job]
    BY <1>4, <2>1, RowsTyped, JobFields, BecomeTyped DEF Typed, TypeOK, RecOrphan,
       Scan, Job, JobPcs, TurnPcs, AcquirePcs, HoldPcs, Results
  <2>3. binding' \in [Sessions -> Row]
    BY <1>4, <2>1, RowFields, RowTyped, UpdatedTyped, RowsTyped DEF Typed, TypeOK,
       RecOrphan, Statuses, Leases
  <2>4. TypeOK'
    BY <1>4, <2>1, <2>2, <2>3, ConnectTyped, LocksTyped DEF Typed, TypeOK,
       RecOrphan, rtVars, lockVars, taskVars
  <2>5. Placed'
    BY <1>4, <2>1, JobFields DEF Typed, TypeOK, Placed, RecOrphan, JobTo, Goto,
       GotoWith, GotoBox, GotoList, Become, JobAt, IdleJob, Begin, Return, NoCall,
       CallAt, Scan
  <2> QED BY <2>4, <2>5 DEF Typed
<1>5. CASE RecReturn(w)
  <2>1. job' \in [Workers -> Job]
    BY <1>5, RowsTyped, JobFields, GotoTyped, JobAtTyped, BecomeTyped DEF Typed,
       TypeOK, RecReturn, Idle, IdleJob, JobPcs, TurnPcs, AcquirePcs, HoldPcs, Results
  <2>2. call' \in [Workers -> Call]
    BY <1>5, CallFields, BeginTyped DEF Typed, TypeOK, RecReturn, CallPcs, Results
  <2>3. TypeOK'
    BY <1>5, <2>1, <2>2, ConnectTyped, LocksTyped DEF Typed, TypeOK, RecReturn,
       rtVars, lockVars, taskVars
  <2>4. Placed'
    BY <1>5, JobFields DEF Typed, TypeOK, Placed, RecReturn, JobTo, Goto, GotoWith,
       GotoBox, GotoList, Become, JobAt, IdleJob, Begin, Return, NoCall, CallAt, Idle
  <2> QED BY <2>3, <2>4 DEF Typed
<1>6. CASE RecDone(w)
  <2>1. job' \in [Workers -> Job]
    BY <1>6, RowsTyped, JobFields, JobAtTyped, BecomeTyped DEF Typed, TypeOK,
       RecDone, Idle, IdleJob, JobPcs, TurnPcs, AcquirePcs, HoldPcs, Results
  <2>2. TypeOK'
    BY <1>6, <2>1, ConnectTyped, LocksTyped DEF Typed, TypeOK, RecDone, rtVars,
       lockVars, taskVars
  <2>3. Placed'
    BY <1>6, JobFields DEF Typed, TypeOK, Placed, RecDone, JobTo, Goto, GotoWith,
       GotoBox, GotoList, Become, JobAt, IdleJob, Begin, Return, NoCall, CallAt, Idle
  <2> QED BY <2>2, <2>3 DEF Typed
<1>7. CASE RecList(w)
  <2>1. [s \in Sessions |->
           IF binding[s].status \in {"ACTIVE", "IDLE", "RELEASING", "FAILED"}
           THEN binding[s] ELSE NoRow] \in [Sessions -> Row]
    BY <1>7, RowsTyped DEF Typed, TypeOK
  <2>2. job' \in [Workers -> Job]
    BY <1>7, <2>1, RowsTyped, JobFields, GotoTyped DEF Typed, TypeOK, RecList,
       JobPcs, TurnPcs, AcquirePcs, HoldPcs, Results
  <2>3. TypeOK'
    BY <1>7, <2>1, <2>2, ConnectTyped, LocksTyped DEF Typed, TypeOK, RecList,
       rtVars, lockVars, taskVars
  <2>4. Placed'
    BY <1>7, <2>1, JobFields DEF Typed, TypeOK, Placed, RecList, JobTo, Goto,
       GotoWith, GotoBox, GotoList, Become, JobAt, IdleJob, Begin, Return, NoCall,
       CallAt, Scan
  <2> QED BY <2>3, <2>4 DEF Typed
<1> QED BY <1>1, <1>2, <1>3, <1>4, <1>5, <1>6, <1>7 DEF ReconcileStep

\* Beginning an operation, returning from one and the heartbeat keep the invariant.
LEMMA StartTyped ==
    ASSUME Typed, NEW w \in Workers, Start(w) \/ CallReturn(w) \/ DeleteRow(w) \/ Heartbeat(w)
    PROVE  Typed'
<1>1. CASE \E s \in Sessions, k \in TurnKinds : StartTurn(w, s, k)
  <2>1. TurnKinds \subseteq {"sync", "async"}
    BY <1>1, ConstantsAssumption
  <2>2. job' \in [Workers -> Job]
    BY <1>1, <2>1, RowsTyped, JobFields, JobAtTyped, BecomeTyped DEF Typed, TypeOK,
       StartTurn, JobPcs, TurnPcs, AcquirePcs, HoldPcs, Results
  <2>3. TypeOK'
    BY <1>1, <2>1, <2>2, ConnectTyped, LocksTyped DEF Typed, TypeOK,
       StartTurn, rtVars, lockVars, taskVars
  <2>4. Placed'
    BY <1>1, <2>1, JobFields DEF Typed, TypeOK, Placed, StartTurn, JobTo, Goto,
       GotoWith, GotoBox, GotoList, Become, JobAt, IdleJob, Begin, Return, NoCall,
       CallAt, Idle
  <2> QED BY <2>3, <2>4 DEF Typed
<1>2. CASE \E s \in Sessions : StartRelease(w, s)
  <2>1. job' \in [Workers -> Job]
    BY <1>2, RowsTyped, JobFields, GotoTyped DEF Typed, TypeOK, StartRelease,
       JobPcs, TurnPcs, AcquirePcs, HoldPcs, Results
  <2>2. call' \in [Workers -> Call]
    BY <1>2, CallFields, BeginTyped DEF Typed, TypeOK, StartRelease, CallPcs,
       Results
  <2>3. TypeOK'
    BY <1>2, <2>1, <2>2, ConnectTyped, LocksTyped DEF Typed, TypeOK, StartRelease,
       rtVars, lockVars, taskVars
  <2>4. Placed'
    BY <1>2, JobFields DEF Typed, TypeOK, Placed, StartRelease, JobTo, Goto,
       GotoWith, GotoBox, GotoList, Become, JobAt, IdleJob, Begin, Return, NoCall,
       CallAt, Idle
  <2> QED BY <2>3, <2>4 DEF Typed
<1>3. CASE \E s \in Sessions : StartDelete(w, s)
  <2>1. call[w].pc = "off"
    BY <1>3 DEF Typed, Placed, StartDelete
  <2>2. \E s \in Sessions :
           \/ /\ job' = [job EXCEPT ![w] = JobAt("del_wait", "sync", s)]
              /\ call' = [call EXCEPT ![w] = CallAt("guard", s, TRUE, TRUE)]
           \/ job' = [job EXCEPT ![w] = JobAt("del_row", "sync", s)] /\ call' = call
    BY <1>3 DEF StartDelete, Become, Begin
  <2>3. job' \in [Workers -> Job]
    BY <1>3, <2>1, <2>2, RowsTyped, JobFields, JobAtTyped, BecomeTyped DEF Typed,
       TypeOK, StartDelete, JobPcs, TurnPcs, AcquirePcs, HoldPcs, Results
  <2>4. call' \in [Workers -> Call]
    BY <1>3, <2>1, <2>2, CallFields, BeginTyped DEF Typed, TypeOK, StartDelete,
       CallPcs, Results
  <2>5. TypeOK'
    BY <1>3, <2>1, <2>2, <2>3, <2>4, ConnectTyped, LocksTyped DEF Typed,
       TypeOK, StartDelete, rtVars, lockVars, taskVars
  <2>6. Placed'
    BY <2>1, <2>2 DEF Typed, TypeOK, Placed, JobAt, CallAt
  <2> QED BY <2>5, <2>6 DEF Typed
<1>4. CASE \E s \in Sessions : Interrupt(w, s)
  <2>1. TypeOK'
    BY <1>4, ConnectTyped, LocksTyped DEF Typed, TypeOK, Interrupt, rtVars,
       lockVars, taskVars
  <2>2. Placed'
    BY <1>4, JobFields DEF Typed, TypeOK, Placed, Interrupt, JobTo, Goto, GotoWith,
       GotoBox, GotoList, Become, JobAt, IdleJob, Begin, Return, NoCall, CallAt, Idle
  <2> QED BY <2>1, <2>2 DEF Typed
<1>5. CASE CallReturn(w)
  <2>1. job' \in [Workers -> Job]
    BY <1>5, RowsTyped, JobFields, GotoTyped, JobAtTyped, BecomeTyped DEF Typed,
       TypeOK, CallReturn, Idle, IdleJob, JobPcs, TurnPcs, AcquirePcs, HoldPcs, Results
  <2>2. call' \in [Workers -> Call]
    BY <1>5, CallFields, BeginTyped DEF Typed, TypeOK, CallReturn, CallPcs, Results
  <2>3. TypeOK'
    BY <1>5, <2>1, <2>2, ConnectTyped, LocksTyped DEF Typed, TypeOK, CallReturn,
       rtVars, lockVars, taskVars
  <2>4. Placed'
    BY <1>5, JobFields DEF Typed, TypeOK, Placed, CallReturn, JobTo, Goto, GotoWith,
       GotoBox, GotoList, Become, JobAt, IdleJob, Begin, Return, NoCall, CallAt, Idle
  <2> QED BY <2>3, <2>4 DEF Typed
<1>6. CASE DeleteRow(w)
  <2>1. job[w].sess \in Sessions
    BY <1>6 DEF Typed, Placed, DeleteRow
  <2>2. job' \in [Workers -> Job]
    BY <1>6, <2>1, RowsTyped, JobFields, JobAtTyped, BecomeTyped DEF Typed, TypeOK,
       DeleteRow, Idle, IdleJob, JobPcs, TurnPcs, AcquirePcs, HoldPcs, Results
  <2>3. binding' \in [Sessions -> Row]
    BY <1>6, <2>1, RowFields, RowTyped, UpdatedTyped, RowsTyped DEF Typed, TypeOK,
       DeleteRow, Statuses, Leases
  <2>4. TypeOK'
    BY <1>6, <2>1, <2>2, <2>3, ConnectTyped, LocksTyped DEF Typed, TypeOK,
       DeleteRow, rtVars, lockVars, taskVars
  <2>5. Placed'
    BY <1>6, <2>1, JobFields DEF Typed, TypeOK, Placed, DeleteRow, JobTo, Goto,
       GotoWith, GotoBox, GotoList, Become, JobAt, IdleJob, Begin, Return, NoCall,
       CallAt, Idle
  <2> QED BY <2>4, <2>5 DEF Typed
<1>7. CASE Heartbeat(w)
  <2>1. job[w].sess \in Sessions
    BY <1>7 DEF Typed, Placed, Heartbeat
  <2>2. binding' \in [Sessions -> Row]
    BY <1>7, <2>1, RowFields, RowTyped, UpdatedTyped, RowsTyped DEF Typed, TypeOK,
       Heartbeat, Statuses, Leases
  <2>3. TypeOK'
    BY <1>7, <2>1, <2>2, ConnectTyped, LocksTyped DEF Typed, TypeOK,
       Heartbeat, rtVars, lockVars, taskVars
  <2>4. Placed'
    BY <1>7, <2>1, JobFields DEF Typed, TypeOK, Placed, Heartbeat, JobTo, Goto,
       GotoWith, GotoBox, GotoList, Become, JobAt, IdleJob, Begin, Return, NoCall,
       CallAt, Idle
  <2> QED BY <2>3, <2>4 DEF Typed
<1>8. CASE RecList(w)
  BY <1>8, ReconcileTyped
<1> QED BY <1>1, <1>2, <1>3, <1>4, <1>5, <1>6, <1>7, <1>8 DEF Start

\* A turn cancelled inside acquire keeps the invariant.
LEMMA CancelTyped ==
    ASSUME Typed, NEW w \in Workers, CancelTurn(w)
    PROVE  Typed'
<1>1. job[w].sess \in Sessions
  BY DEF Typed, Placed, CancelTurn, AcquirePcs
<1>2. job' \in [Workers -> Job]
  BY <1>1, JobFields, JobAtTyped, BecomeTyped
     DEF Typed, CancelTurn, JobPcs, TurnPcs
<1>3. call' \in [Workers -> Call]
  BY BeginTyped DEF Typed, CancelTurn
<1>4. ghost' \subseteq {"connect", "release"} \X Sessions
  <2>1. call[w].pc = "runtime" => call[w].sess \in Sessions
    BY DEF Typed, Placed
  <2> QED BY <1>1, <2>1 DEF Typed, TypeOK, CancelTurn, Abandoned
<1>5. redisLock' \in [Sessions -> Workers \cup {None, Left}]
  BY DEF Typed, TypeOK, CancelTurn
<1>6. localLock' \in [Processes -> [Sessions -> Workers \cup {None}]]
  <2>1. Home[w] \in Processes
    BY ConstantsAssumption
  <2>2. \A freed : [s \in Sessions |-> IF s \in freed THEN None ELSE localLock[Home[w]][s]]
                     \in [Sessions -> Workers \cup {None}]
    BY <2>1 DEF Typed, TypeOK
  <2> QED BY <2>1, <2>2 DEF Typed, TypeOK, CancelTurn
<1>7. TypeOK'
  BY <1>2, <1>3, <1>4, <1>5, <1>6 DEF Typed, TypeOK, CancelTurn, taskVars
<1>8. Placed'
  BY <1>1 DEF Typed, TypeOK, Placed, CancelTurn, Become, JobAt, Return, NoCall, CallAt
<1> QED BY <1>7, <1>8 DEF Typed

\* The death of a process keeps the invariant.
LEMMA CrashTyped ==
    ASSUME Typed, NEW p \in Processes, Crash(p)
    PROVE  Typed'
<1>1. DeadJob \in Job
  BY JobAtTyped DEF DeadJob, JobPcs
<1>2. NoCall \in Call
  BY RowsTyped DEF NoCall, CallAt, Call, CallPcs, Results
<1>3. job' \in [Workers -> Job] /\ call' \in [Workers -> Call]
  BY <1>1, <1>2 DEF Typed, TypeOK, Crash
<1>4. ghost' \subseteq {"connect", "release"} \X Sessions
  <2>1. ASSUME NEW w \in Workers
        PROVE  Abandoned(w) \subseteq {"connect", "release"} \X Sessions
    BY DEF Typed, Placed, Abandoned
  <2> QED BY <2>1 DEF Typed, TypeOK, Crash
<1>5. TypeOK'
  BY <1>3, <1>4 DEF Typed, TypeOK, Crash
<1>6. Placed'
  BY DEF Typed, TypeOK, Placed, Crash, DeadJob, JobAt, NoCall, CallAt
<1> QED BY <1>5, <1>6 DEF Typed

\* Time, failures and abandoned Runtime calls keep the invariant.
LEMMA EnvironmentTyped ==
    ASSUME Typed, Environment
    PROVE  Typed'
<1>1. CASE \E b \in Boxes : BoxBreaks(b)
  <2>1. TypeOK'
    BY <1>1, ConnectTyped, LocksTyped DEF Typed, TypeOK, BoxBreaks, rtVars,
       lockVars, taskVars
  <2>2. Placed'
    BY <1>1, JobFields, CallFields DEF Typed, TypeOK, Placed, BoxBreaks, JobTo,
       Goto, GotoWith, GotoBox, GotoList, Become, JobAt, IdleJob, Begin, Return, NoCall,
       CallAt
  <2> QED BY <2>1, <2>2 DEF Typed
<1>2. CASE \E s \in Sessions : GhostConnect(s)
  <2>1. TypeOK'
    BY <1>2, ConnectTyped, LocksTyped DEF Typed, TypeOK, GhostConnect, rtVars,
       lockVars, taskVars
  <2>2. Placed'
    BY <1>2, JobFields, CallFields DEF Typed, TypeOK, Placed, GhostConnect, JobTo,
       Goto, GotoWith, GotoBox, GotoList, Become, JobAt, IdleJob, Begin, Return, NoCall,
       CallAt
  <2> QED BY <2>1, <2>2 DEF Typed
<1>3. CASE \E s \in Sessions : GhostRelease(s)
  <2>1. TypeOK'
    BY <1>3, ConnectTyped, LocksTyped DEF Typed, TypeOK, GhostRelease, rtVars,
       lockVars, taskVars
  <2>2. Placed'
    BY <1>3, JobFields, CallFields DEF Typed, TypeOK, Placed, GhostRelease, JobTo,
       Goto, GotoWith, GotoBox, GotoList, Become, JobAt, IdleJob, Begin, Return, NoCall,
       CallAt
  <2> QED BY <2>1, <2>2 DEF Typed
<1>4. CASE \E s \in Sessions : LeaseExpires(s)
  <2>1. \A s \in Sessions : With(binding[s], binding[s].status, "expired") \in Row
    BY <1>4, RowsTyped, RowFields DEF Typed, TypeOK, Leases
  <2>2. binding' \in [Sessions -> Row]
    BY <1>4, <2>1, RowFields, RowTyped, UpdatedTyped DEF Typed, TypeOK,
       LeaseExpires, Statuses, Leases
  <2>3. TypeOK'
    BY <1>4, <2>1, <2>2, ConnectTyped, LocksTyped DEF Typed, TypeOK,
       LeaseExpires, rtVars, lockVars, taskVars
  <2>4. Placed'
    BY <1>4, <2>1, JobFields, CallFields DEF Typed, TypeOK, Placed, LeaseExpires,
       JobTo, Goto, GotoWith, GotoBox, GotoList, Become, JobAt, IdleJob, Begin, Return,
       NoCall, CallAt
  <2> QED BY <2>3, <2>4 DEF Typed
<1>5. CASE \E s \in Sessions : LockLapses(s)
  <2>1. TypeOK'
    BY <1>5, ConnectTyped, LocksTyped DEF Typed, TypeOK, LockLapses, DropKey,
       rtVars, lockVars, taskVars
  <2>2. Placed'
    BY <1>5, JobFields, CallFields DEF Typed, TypeOK, Placed, LockLapses, DropKey,
       JobTo, Goto, GotoWith, GotoBox, GotoList, Become, JobAt, IdleJob, Begin, Return,
       NoCall, CallAt
  <2> QED BY <2>1, <2>2 DEF Typed
<1>6. CASE \E s \in Sessions : MarkerLapses(s)
  <2>1. TypeOK'
    BY <1>6, ConnectTyped, LocksTyped DEF Typed, TypeOK, MarkerLapses, rtVars,
       lockVars, taskVars
  <2>2. Placed'
    BY <1>6, JobFields, CallFields DEF Typed, TypeOK, Placed, MarkerLapses, JobTo,
       Goto, GotoWith, GotoBox, GotoList, Become, JobAt, IdleJob, Begin, Return, NoCall,
       CallAt
  <2> QED BY <2>1, <2>2 DEF Typed
<1>7. CASE \E w \in Workers : CancelTurn(w)
  BY <1>7, CancelTyped
<1>8. CASE \E p \in Processes : Crash(p)
  BY <1>8, CrashTyped
<1> QED BY <1>1, <1>2, <1>3, <1>4, <1>5, <1>6, <1>7, <1>8 DEF Environment

\* The invariant holds when the service starts.
LEMMA InitTyped ==
    ASSUME Init
    PROVE  Typed
  BY RowsTyped, ConstantsAssumption DEF Init, Typed, TypeOK, Placed, NoList, IdleJob,
     JobAt, NoCall, CallAt, Job, Call, JobPcs, CallPcs, Results

\* The invariant is inductive.
LEMMA TypedStep ==
    ASSUME Typed, [Next]_vars
    PROVE  Typed'
<1>1. CASE UNCHANGED vars
  <2>1. TypeOK'
    BY <1>1 DEF Typed, TypeOK, vars
  <2>2. Placed'
    BY <1>1 DEF Typed, Placed, vars
  <2> QED BY <2>1, <2>2 DEF Typed
<1>2. CASE Next
  BY <1>2, AcquireTyped, TurnTyped, ReleaseTyped, ReconcileTyped, StartTyped,
     EnvironmentTyped DEF Next, Continue
<1> QED BY <1>1, <1>2

\* The invariant holds in every behaviour.
LEMMA TypedAlways == Spec => []Typed
<1>1. Init => Typed
  BY InitTyped
<1>2. Typed /\ [Next]_vars => Typed'
  BY TypedStep
<1> QED BY <1>1, <1>2, PTL DEF Spec

\* The state of the service keeps its types, whatever fails, expires or dies: a lock key
\* is held by a worker or left over, a row names a container or none.  It says nothing
\* of the budget of attempts, which the code lets release_attempts pass.
THEOREM TypeCorrect == Spec => []TypeOK
<1>1. Typed => TypeOK
  BY DEF Typed
<1> QED BY <1>1, TypedAlways, PTL

-----------------------------------------------------------------------------
(* The guard                                                               *)

\* Nobody comes to be in a guard, and the locks stay as they are.
NoneEnters ==
    /\ UNCHANGED lockVars
    /\ \A v \in Workers, s \in Sessions : InGuard(v, s)' => InGuard(v, s)

\* Whoever is in a guard holds its locks.
Held == LocalHeld /\ RedisHeld

\* The locks are held on by steps that neither enter nor touch them.
LEMMA HeldKept ==
    ASSUME Held, NoneEnters
    PROVE  Held'
  BY DEF Held, LocalHeld, RedisHeld, NoneEnters, lockVars

\* Inside acquire no lock changes hands.
LEMMA AcquireKeeps ==
    ASSUME Typed, NEW w \in Workers, AcquireStep(w), ~AcqEnter(w), ~AcqLeave(w)
    PROVE  NoneEnters
<1> USE DEF Typed, TypeOK, Placed, NoneEnters, InGuard, AcquireHolds, ReleaseHolds,
            AcquirePcs, JobTo, Goto, GotoWith, GotoBox, GotoList, Become, lockVars
<1>1. CASE AcqBusy(w)
  BY <1>1 DEF AcqBusy
<1>2. CASE AcqVerify(w)
  BY <1>2 DEF AcqVerify
<1>3. CASE AcqReuse(w)
  BY <1>3 DEF AcqReuse
<1>4. CASE AcqRenew(w)
  BY <1>4 DEF AcqRenew
<1>5. CASE AcqMark(w)
  BY <1>5 DEF AcqMark
<1>6. CASE AcqDetach(w)
  BY <1>6 DEF AcqDetach, Detach
<1>7. CASE AcqUndo(w)
  BY <1>7 DEF AcqUndo, Detach
<1>8. CASE AcqCapacity(w)
  BY <1>8 DEF AcqCapacity
<1>9. CASE AcqEvict(w)
  <2>1. \E l \in {"acq_evict", "acq_evicting", "acq_leave"} : \E list, res :
           JobTo(w, l, job[w].snap, job[w].box, list, res)
    BY <1>9 DEF AcqEvict, GotoList, GotoWith
  <2>2. \/ call' = call
        \/ \E x : call' = [call EXCEPT ![w] = CallAt("guard", x, FALSE, FALSE)]
    BY <1>9 DEF AcqEvict, Begin
  <2>3. job[w].pc = "acq_evict" /\ UNCHANGED lockVars
    BY <1>9 DEF AcqEvict, lockVars
  <2> QED
    BY <2>1, <2>2, <2>3 DEF Typed, TypeOK, NoneEnters, InGuard, AcquireHolds,
       ReleaseHolds, AcquirePcs, JobTo, Become, CallAt
<1>10. CASE AcqEvicted(w)
  BY <1>10 DEF AcqEvicted, Return, NoCall, CallAt
<1>11. CASE AcqCreate(w)
  BY <1>11 DEF AcqCreate
<1>12. CASE AcqBind(w)
  BY <1>12 DEF AcqBind
<1> QED BY <1>1, <1>2, <1>3, <1>4, <1>5, <1>6, <1>7, <1>8, <1>9, <1>10, <1>11, <1>12
    DEF AcquireStep

\* The rest of a turn touches no lock.
LEMMA TurnKeeps ==
    ASSUME Typed, NEW w \in Workers, TurnStep(w)
    PROVE  NoneEnters
<1> USE DEF Typed, TypeOK, Placed, NoneEnters, InGuard, AcquireHolds, ReleaseHolds,
            AcquirePcs, JobTo, Goto, GotoWith, GotoBox, GotoList, Become, lockVars,
            HoldPcs
<1>1. CASE Injected(w)
  BY <1>1 DEF Injected
<1>2. CASE RegisterAgent(w)
  BY <1>2 DEF RegisterAgent
<1>3. CASE FinishTurn(w)
  BY <1>3 DEF FinishTurn
<1>4. CASE MarkIdleRead(w)
  BY <1>4 DEF MarkIdleRead
<1>5. CASE MarkIdleWrite(w)
  BY <1>5 DEF MarkIdleWrite
<1>6. CASE EndTurn(w)
  BY <1>6 DEF EndTurn, Idle, IdleJob, JobAt
<1> QED BY <1>1, <1>2, <1>3, <1>4, <1>5, <1>6 DEF TurnStep

\* Inside release no lock changes hands.
LEMMA ReleaseKeeps ==
    ASSUME Typed, NEW w \in Workers, ReleaseStep(w), ~RelEnter(w), ~RelLeave(w)
    PROVE  NoneEnters
<1> USE DEF Typed, TypeOK, Placed, NoneEnters, InGuard, AcquireHolds, ReleaseHolds,
            AcquirePcs, CallTo, CallGoto, CallGotoWith, lockVars
<1>1. CASE RelBusy(w)
  BY <1>1 DEF RelBusy
<1>2. CASE RelCheck(w)
  BY <1>2 DEF RelCheck
<1>3. CASE RelMark(w)
  BY <1>3 DEF RelMark
<1>4. CASE RelRuntime(w)
  BY <1>4 DEF RelRuntime
<1>5. CASE RelConfirm(w)
  BY <1>5 DEF RelConfirm
<1>6. CASE RelFail(w)
  BY <1>6 DEF RelFail
<1>7. CASE RelCommit(w)
  BY <1>7 DEF RelCommit
<1> QED BY <1>1, <1>2, <1>3, <1>4, <1>5, <1>6, <1>7 DEF ReleaseStep

\* The reconcile loop itself touches no lock.
LEMMA ReconcileKeeps ==
    ASSUME Typed, NEW w \in Workers, ReconcileStep(w) \/ RecList(w)
    PROVE  NoneEnters
<1> USE DEF Typed, TypeOK, Placed, NoneEnters, InGuard, AcquireHolds, ReleaseHolds,
            AcquirePcs, Become, lockVars
<1>1. CASE \E s \in Sessions : RecSkip(w, s)
  BY <1>1 DEF RecSkip, JobTo, Goto, GotoWith, GotoBox, GotoList
<1>2. CASE \E s \in Sessions : RecRelease(w, s)
  BY <1>2 DEF RecRelease, Begin, CallAt, JobTo, Goto, GotoWith, GotoBox, GotoList
<1>3. CASE \E s \in Sessions : RecMissing(w, s)
  BY <1>3 DEF RecMissing, Scan
<1>4. CASE RecOrphan(w)
  BY <1>4 DEF RecOrphan, Scan
<1>5. CASE RecReturn(w)
  BY <1>5 DEF RecReturn, Return, NoCall, CallAt, Idle, IdleJob, JobAt, JobTo, Goto,
     GotoWith, GotoBox, GotoList
<1>6. CASE RecDone(w)
  BY <1>6 DEF RecDone, Idle, IdleJob, JobAt
<1>7. CASE RecList(w)
  BY <1>7 DEF RecList, JobTo, Goto, GotoWith, GotoBox, GotoList
<1> QED BY <1>1, <1>2, <1>3, <1>4, <1>5, <1>6, <1>7 DEF ReconcileStep

\* Beginning an operation and returning from one touch no lock.
LEMMA StartKeeps ==
    ASSUME Typed, NEW w \in Workers, Start(w) \/ CallReturn(w) \/ DeleteRow(w) \/ Heartbeat(w)
    PROVE  NoneEnters
<1> USE DEF Typed, TypeOK, Placed, NoneEnters, InGuard, AcquireHolds, ReleaseHolds,
            AcquirePcs, Become, lockVars
<1>1. CASE \E s \in Sessions, k \in TurnKinds : StartTurn(w, s, k)
  BY <1>1 DEF StartTurn, JobAt
<1>2. CASE \E s \in Sessions : StartRelease(w, s)
  BY <1>2 DEF StartRelease, Begin, CallAt, JobTo, Goto, GotoWith, GotoBox, GotoList
<1>3. CASE \E s \in Sessions : StartDelete(w, s)
  BY <1>3 DEF StartDelete, Begin, CallAt, JobAt
<1>4. CASE \E s \in Sessions : Interrupt(w, s)
  BY <1>4 DEF Interrupt
<1>5. CASE CallReturn(w)
  BY <1>5 DEF CallReturn, Return, NoCall, CallAt, Idle, IdleJob, JobAt, JobTo, Goto,
     GotoWith, GotoBox, GotoList
<1>6. CASE DeleteRow(w)
  BY <1>6 DEF DeleteRow, Idle, IdleJob, JobAt
<1>7. CASE Heartbeat(w)
  BY <1>7 DEF Heartbeat
<1>8. CASE RecList(w)
  BY <1>8 DEF RecList, JobTo, Goto, GotoWith, GotoBox, GotoList
<1> QED BY <1>1, <1>2, <1>3, <1>4, <1>5, <1>6, <1>7, <1>8 DEF Start

\* Neither the Runtime nor time spent outside the guard touches a lock.
LEMMA RuntimeAndTimeKeep ==
    ASSUME \/ \E b \in Boxes : BoxBreaks(b)
           \/ \E s \in Sessions : \/ LeaseExpires(s) \/ MarkerLapses(s)
                                 \/ GhostConnect(s) \/ GhostRelease(s)
    PROVE  NoneEnters
  BY DEF NoneEnters, InGuard, AcquireHolds, ReleaseHolds, BoxBreaks, LeaseExpires,
     MarkerLapses, GhostConnect, GhostRelease, lockVars

\* acquire takes both locks as it enters.
LEMMA AcqEnterHeld ==
    ASSUME Typed, Held, NEW w \in Workers, AcqEnter(w)
    PROVE  Held'
<1> DEFINE s == job[w].sess
<1>1. s \in Sessions /\ Home[w] \in Processes /\ None \notin Workers
  BY ConstantsAssumption DEF Typed, Placed, AcqEnter
<1>2. \A v \in Workers, x \in Sessions :
         InGuard(v, x)' => InGuard(v, x) \/ (v = w /\ x = s)
  BY DEF Typed, TypeOK, Placed, AcqEnter, JobTo, Become, InGuard, AcquireHolds,
     ReleaseHolds
<1>3. EnterGuard(w, s)
  BY DEF AcqEnter
<1>4. LocalHeld'
  BY <1>1, <1>2, <1>3 DEF Held, LocalHeld, Typed, TypeOK, EnterGuard
<1>5. RedisHeld'
  BY <1>1, <1>2, <1>3 DEF Held, RedisHeld, Typed, TypeOK, EnterGuard
<1> QED BY <1>4, <1>5 DEF Held

\* release takes both locks as it enters, while the guard of an eviction stays held.
LEMMA RelEnterHeld ==
    ASSUME Typed, Held, NEW w \in Workers, RelEnter(w)
    PROVE  Held'
<1> DEFINE s == call[w].sess
<1>1. s \in Sessions /\ Home[w] \in Processes /\ None \notin Workers
  BY ConstantsAssumption DEF Typed, Placed, RelEnter
<1>2. \A v \in Workers, x \in Sessions :
         InGuard(v, x)' => InGuard(v, x) \/ (v = w /\ x = s)
  BY DEF Typed, TypeOK, RelEnter, CallTo, CallGotoWith, InGuard, AcquireHolds,
     ReleaseHolds
<1>3. EnterGuard(w, s)
  BY DEF RelEnter
<1>4. LocalHeld'
  BY <1>1, <1>2, <1>3 DEF Held, LocalHeld, Typed, TypeOK, EnterGuard
<1>5. RedisHeld'
  BY <1>1, <1>2, <1>3 DEF Held, RedisHeld, Typed, TypeOK, EnterGuard
<1> QED BY <1>4, <1>5 DEF Held

\* Whoever leaves the guard of s frees its own lock and its own key only.
Frees(w, s) ==
    /\ Unlocal(w, s)
    /\ UNCHANGED redisLock \/ DropKey(s) \/ AbandonKey(w, s)
    /\ \A v \in Workers, x \in Sessions :
          InGuard(v, x)' => InGuard(v, x) /\ ~(v = w /\ x = s)

\* Leaving a guard takes no lock from anybody else.
LEMMA FreesHeld ==
    ASSUME Typed, Held, NEW w \in Workers, NEW s \in Sessions, InGuard(w, s), Frees(w, s)
    PROVE  Held'
<1>1. Home[w] \in Processes /\ {None, Left} \cap Workers = {}
  BY ConstantsAssumption
<1>2. LocalHeld'
  BY <1>1 DEF Held, LocalHeld, Typed, TypeOK, Frees, Unlocal
<1>3. RedisHeld'
  BY <1>1 DEF Held, RedisHeld, Typed, TypeOK, Frees, DropKey, AbandonKey
<1> QED BY <1>2, <1>3 DEF Held

\* acquire leaves its guard last.
LEMMA AcqLeaveHeld ==
    ASSUME Typed, Held, NEW w \in Workers, AcqLeave(w)
    PROVE  Held'
<1> DEFINE s == job[w].sess
<1>1. s \in Sessions /\ InGuard(w, s) /\ call[w].pc = "off"
  BY DEF Typed, Placed, AcqLeave, InGuard, AcquireHolds, AcquirePcs
<1>2. \/ NoneEnters
      \/ Frees(w, s)
  <2>1. CASE Goto(w, "acq_leave_del") /\ UNCHANGED lockVars /\ UNCHANGED call
    BY <1>1, <2>1 DEF Typed, TypeOK, NoneEnters, InGuard, AcquireHolds, ReleaseHolds,
       AcquirePcs, Goto, JobTo, Become
  <2>2. CASE /\ AfterAcquire(w) /\ UNCHANGED call /\ Unlocal(w, s)
             /\ UNCHANGED redisLock \/ DropKey(s) \/ AbandonKey(w, s)
    <3>1. \A v \in Workers, x \in Sessions :
             InGuard(v, x)' => InGuard(v, x) /\ ~(v = w /\ x = s)
      BY <1>1, <2>2 DEF Typed, TypeOK, InGuard, AcquireHolds, ReleaseHolds, AcquirePcs,
         AfterAcquire, Become, JobAt
    <3> QED BY <2>2, <3>1 DEF Frees
  <2> QED BY <2>1, <2>2 DEF AcqLeave
<1> QED BY <1>1, <1>2, HeldKept, FreesHeld

\* release leaves its guard last.
LEMMA RelLeaveHeld ==
    ASSUME Typed, Held, NEW w \in Workers, RelLeave(w)
    PROVE  Held'
<1> DEFINE s == call[w].sess
<1>1. s \in Sessions /\ InGuard(w, s) /\ ~AcquireHolds(w, s)
  BY DEF Typed, Placed, RelLeave, InGuard, AcquireHolds, ReleaseHolds, AcquirePcs
<1>2. CASE CallGotoWith(w, "leave_del", Outcome(w)) /\ UNCHANGED <<lockVars, job>>
  <2>1. call[w].pc = "leave" \/ call[w].pc = "leave_del"
    BY DEF RelLeave
  <2> QED
    BY <1>1, <1>2, <2>1, HeldKept DEF CallTo, CallGotoWith, Typed, TypeOK, NoneEnters,
       InGuard, AcquireHolds, ReleaseHolds
<1>3. CASE /\ \E r : CallTo(w, "done", call[w].row, r)
           /\ UNCHANGED job /\ Unlocal(w, s)
           /\ UNCHANGED redisLock \/ DropKey(s) \/ AbandonKey(w, s)
  <2>1. \A v \in Workers, x \in Sessions :
           InGuard(v, x)' => InGuard(v, x) /\ ~(v = w /\ x = s)
    BY <1>1, <1>3 DEF CallTo, Typed, TypeOK, InGuard, AcquireHolds, ReleaseHolds
  <2> QED BY <1>1, <1>3, <2>1, FreesHeld DEF Frees
<1> QED BY <1>2, <1>3 DEF RelLeave, CallGoto, CallGotoWith

\* A key that lapses is nobody's, unless keys may lapse under their holders.
LEMMA LockLapsesHeld ==
    ASSUME Typed, Held, NEW s \in Sessions, LockLapses(s)
    PROVE  Held'
<1>1. \A v \in Workers, x \in Sessions : InGuard(v, x)' <=> InGuard(v, x)
  BY DEF LockLapses, InGuard, AcquireHolds, ReleaseHolds
<1>2. LocalHeld'
  BY <1>1 DEF Held, LocalHeld, LockLapses
<1>3. RedisHeld'
  BY <1>1 DEF Held, RedisHeld, Typed, TypeOK, LockLapses, DropKey
<1> QED BY <1>2, <1>3 DEF Held

\* A cancelled turn gives up the guards it was in, and only these.
LEMMA CancelTurnHeld ==
    ASSUME Typed, Held, NEW w \in Workers, CancelTurn(w)
    PROVE  Held'
<1> DEFINE freed == {s \in Sessions : InGuard(w, s)}
<1>1. Home[w] \in Processes /\ {None, Left} \cap Workers = {}
  BY ConstantsAssumption
<1>2. \A v \in Workers, x \in Sessions : InGuard(v, x)' => InGuard(v, x) /\ v # w
  BY DEF Typed, TypeOK, CancelTurn, Become, JobAt, Return, NoCall, CallAt, InGuard,
     AcquireHolds, ReleaseHolds, AcquirePcs
<1>3. LocalHeld'
  <2> SUFFICES ASSUME NEW v \in Workers, NEW x \in Sessions, InGuard(v, x)'
               PROVE  localLock'[Home[v]][x] = v
    BY DEF LocalHeld
  <2>1. InGuard(v, x) /\ v # w /\ localLock[Home[v]][x] = v
    BY <1>2 DEF Held, LocalHeld
  <2>2. CASE Home[v] # Home[w]
    BY <1>1, <2>1, <2>2, ConstantsAssumption DEF Typed, TypeOK, CancelTurn
  <2>3. CASE Home[v] = Home[w]
    <3>1. ~InGuard(w, x)
      BY <2>1, <2>3 DEF Held, LocalHeld
    <3>2. localLock'[Home[w]] = [y \in Sessions |-> IF y \in freed THEN None
                                                    ELSE localLock[Home[w]][y]]
      BY <1>1 DEF Typed, TypeOK, CancelTurn
    <3> QED BY <2>1, <2>3, <3>1, <3>2
  <2> QED BY <2>2, <2>3
<1>4. RedisHeld'
  BY <1>1, <1>2 DEF Held, RedisHeld, Typed, TypeOK, CancelTurn
<1> QED BY <1>3, <1>4 DEF Held

\* A process that dies takes its tasks and their local locks with it.
LEMMA CrashHeld ==
    ASSUME Typed, Held, NEW p \in Processes, Crash(p)
    PROVE  Held'
<1>1. \A v \in Workers, x \in Sessions : InGuard(v, x)' => InGuard(v, x) /\ Home[v] # p
  BY DEF Crash, DeadJob, JobAt, NoCall, CallAt, InGuard, AcquireHolds, ReleaseHolds,
     AcquirePcs
<1>2. LocalHeld'
  BY <1>1, ConstantsAssumption DEF Held, LocalHeld, Typed, TypeOK, Crash
<1>3. RedisHeld'
  BY <1>1 DEF Held, RedisHeld, Crash
<1> QED BY <1>2, <1>3 DEF Held

\* The lock invariant is inductive.
LEMMA HeldStep ==
    ASSUME Typed, Held, [Next]_vars
    PROVE  Held'
<1>1. CASE UNCHANGED vars
  BY <1>1, HeldKept DEF vars, lockVars, NoneEnters, InGuard, AcquireHolds, ReleaseHolds
<1>2. ASSUME NEW w \in Workers, Start(w) \/ Continue(w) \/ Heartbeat(w)
      PROVE  Held'
  BY <1>2, HeldKept, AcqEnterHeld, AcqLeaveHeld, RelEnterHeld, RelLeaveHeld, AcquireKeeps,
     TurnKeeps, ReleaseKeeps, ReconcileKeeps, StartKeeps DEF Continue
<1>3. CASE Environment
  BY <1>3, HeldKept, RuntimeAndTimeKeep, LockLapsesHeld, CancelTurnHeld, CrashHeld
     DEF Environment
<1> QED BY <1>1, <1>2, <1>3 DEF Next

\* Either Redis answers and no lock key lapses under its holder, or one process
\* serves every request.
Reliable ==
    \/ ~LockMayExpire /\ ~RedisMayFail
    \/ \A v, w \in Workers : Home[v] = Home[w]

\* Whoever is in the guarded code of acquire or release holds the lock of its process
\* and, as long as Redis answers and keys outlive their holders, the Redis key.
THEOREM GuardInvariant == Spec => []GuardInv
<1>1. Init => Typed /\ Held
  BY InitTyped DEF Init, Held, LocalHeld, RedisHeld, InGuard, AcquireHolds, ReleaseHolds,
     IdleJob, JobAt, NoCall, CallAt, AcquirePcs
<1>2. Typed /\ Held /\ [Next]_vars => (Typed /\ Held)'
  BY TypedStep, HeldStep
<1>3. Typed /\ Held => GuardInv
  BY DEF Typed, Held, GuardInv
<1> QED BY <1>1, <1>2, <1>3, PTL DEF Spec

\* _session_guard serializes acquire and release per session, provided Redis can be
\* relied on or one process serves every request. The proviso is needed: see section 7 of
\* the README.
THEOREM GuardExcludes ==
    ASSUME Reliable
    PROVE  Spec => []GuardExclusive
<1>1. GuardInv => GuardExclusive
  BY DEF Reliable, GuardInv, LocalHeld, RedisHeld, GuardExclusive
<1> QED BY <1>1, GuardInvariant, PTL

-----------------------------------------------------------------------------
(* Protection: a release acts on a check that stays good.                  *)

\* The part of release that acts on the check for a running task.
Acting == {"mark", "runtime", "confirm", "fail", "commit"}

\* A release acts on a check that found nothing.
CarefulCalls ==
    \A w \in Workers : call'[w].pc \in Acting =>
        /\ call'[w].sess = call[w].sess /\ call'[w].force = call[w].force
        /\ \/ call[w].pc \in Acting
           \/ /\ call[w].pc = "check"
              /\ call[w].force \/ marker[call[w].sess] = None

\* A turn comes to hold its sandbox only through the guard.
CarefulTurns ==
    \A v \in Workers, s \in Sessions : Holds(v, s)' =>
        \/ Holds(v, s) /\ job'[v].kind = job[v].kind
        \/ AcquireHolds(v, s)

\* A task is named before it enters the guard.
CarefulMarks ==
    \A v \in Workers, s \in Sessions :
        marker'[s] = v => marker[s] = v \/ job'[v].pc = "acq_guard"

\* What every step of the system respects.
Careful == CarefulCalls /\ CarefulTurns /\ CarefulMarks

\* Steps that only begin or end a call respect the check.
LEMMA CallsKept ==
    ASSUME TypeOK, NEW w \in Workers,
           \/ UNCHANGED call
           \/ \E s, force, retry : Begin(w, s, force, retry)
           \/ Return(w)
    PROVE  CarefulCalls
<1>1. CASE UNCHANGED call
  BY <1>1 DEF CarefulCalls
<1>2. CASE \E l \in {"guard", "off"} : \E s, force, retry :
              call' = [call EXCEPT ![w] = CallAt(l, s, force, retry)]
  BY <1>2 DEF CarefulCalls, TypeOK, CallAt, Acting
<1> QED BY <1>1, <1>2 DEF Begin, Return, NoCall

\* Clearing session_task names nobody.
LEMMA MarksKept ==
    ASSUME TypeOK,
           UNCHANGED marker \/ \E s \in Sessions : marker' = [marker EXCEPT ![s] = None]
    PROVE  CarefulMarks
  BY ConstantsAssumption DEF CarefulMarks, TypeOK

\* Steps that leave the workers alone bring no turn to its sandbox.
LEMMA TurnsKept ==
    ASSUME UNCHANGED job
    PROVE  CarefulTurns
  BY DEF CarefulTurns, Holds

\* acquire brings a turn to its sandbox only through the guard.
LEMMA AcquireCareful ==
    ASSUME Typed, NEW w \in Workers, AcquireStep(w)
    PROVE  Careful
<1>1. UNCHANGED call \/ (\E s, force, retry : Begin(w, s, force, retry)) \/ Return(w)
  BY DEF AcquireStep, AcqEnter, AcqBusy, AcqVerify, AcqReuse, AcqRenew, AcqMark,
     AcqDetach, AcqUndo, AcqCapacity, AcqEvict, AcqEvicted, AcqCreate, AcqBind, AcqLeave,
     Detach
<1>2. UNCHANGED marker
  BY DEF AcquireStep, AcqEnter, AcqBusy, AcqVerify, AcqReuse, AcqRenew, AcqMark,
     AcqDetach, AcqUndo, AcqCapacity, AcqEvict, AcqEvicted, AcqCreate, AcqBind, AcqLeave,
     taskVars, Detach
<1>3. CarefulTurns
  <2>1. CASE AcqEnter(w)
    BY <2>1 DEF Typed, TypeOK, CarefulTurns, Holds, HoldPcs, AcquireHolds, AcquirePcs,
       AcqEnter, JobTo, Goto, GotoWith, GotoBox, GotoList, Become
  <2>2. CASE AcqBusy(w)
    BY <2>2 DEF Typed, TypeOK, CarefulTurns, Holds, HoldPcs, AcquireHolds, AcquirePcs,
       AcqBusy, JobTo, Goto, GotoWith, GotoBox, GotoList, Become
  <2>3. CASE AcqVerify(w)
    BY <2>3 DEF Typed, TypeOK, CarefulTurns, Holds, HoldPcs, AcquireHolds, AcquirePcs,
       AcqVerify, JobTo, Goto, GotoWith, GotoBox, GotoList, Become
  <2>4. CASE AcqReuse(w)
    BY <2>4 DEF Typed, TypeOK, CarefulTurns, Holds, HoldPcs, AcquireHolds, AcquirePcs,
       AcqReuse, JobTo, Goto, GotoWith, GotoBox, GotoList, Become
  <2>5. CASE AcqRenew(w)
    BY <2>5 DEF Typed, TypeOK, CarefulTurns, Holds, HoldPcs, AcquireHolds, AcquirePcs,
       AcqRenew, JobTo, Goto, GotoWith, GotoBox, GotoList, Become
  <2>6. CASE AcqMark(w)
    BY <2>6 DEF Typed, TypeOK, CarefulTurns, Holds, HoldPcs, AcquireHolds, AcquirePcs,
       AcqMark, JobTo, Goto, GotoWith, GotoBox, GotoList, Become
  <2>7. CASE AcqDetach(w)
    BY <2>7 DEF Typed, TypeOK, CarefulTurns, Holds, HoldPcs, AcquireHolds, AcquirePcs,
       AcqDetach, Detach, JobTo, Goto, GotoWith, GotoBox, GotoList, Become
  <2>8. CASE AcqUndo(w)
    BY <2>8 DEF Typed, TypeOK, CarefulTurns, Holds, HoldPcs, AcquireHolds, AcquirePcs,
       AcqUndo, Detach, JobTo, Goto, GotoWith, GotoBox, GotoList, Become
  <2>9. CASE AcqCapacity(w)
    BY <2>9 DEF Typed, TypeOK, CarefulTurns, Holds, HoldPcs, AcquireHolds, AcquirePcs,
       AcqCapacity, JobTo, Goto, GotoWith, GotoBox, GotoList, Become
  <2>10. CASE AcqEvict(w)
    <3>1. \E l \in {"acq_evict", "acq_evicting", "acq_leave"} : \E list, res :
             JobTo(w, l, job[w].snap, job[w].box, list, res)
      BY <2>10 DEF AcqEvict, GotoList, GotoWith
    <3> QED
      BY <2>10, <3>1 DEF Typed, TypeOK, CarefulTurns, Holds, HoldPcs, AcquireHolds,
         JobTo, Become
  <2>11. CASE AcqEvicted(w)
    BY <2>11 DEF Typed, TypeOK, CarefulTurns, Holds, HoldPcs, AcquireHolds, AcquirePcs,
       AcqEvicted, JobTo, Goto, GotoWith, GotoBox, GotoList, Become
  <2>12. CASE AcqCreate(w)
    BY <2>12 DEF Typed, TypeOK, CarefulTurns, Holds, HoldPcs, AcquireHolds, AcquirePcs,
       AcqCreate, JobTo, Goto, GotoWith, GotoBox, GotoList, Become
  <2>13. CASE AcqBind(w)
    BY <2>13 DEF Typed, TypeOK, CarefulTurns, Holds, HoldPcs, AcquireHolds, AcquirePcs,
       AcqBind, JobTo, Goto, GotoWith, GotoBox, GotoList, Become
  <2>14. CASE AcqLeave(w)
    BY <2>14 DEF Typed, TypeOK, CarefulTurns, Holds, HoldPcs, AcquireHolds, AcquirePcs,
       AcqLeave, AfterAcquire, JobAt, JobTo, Goto, GotoWith, GotoBox, GotoList, Become
  <2> QED BY <1>1, <2>1, <2>2, <2>3, <2>4, <2>5, <2>6, <2>7, <2>8, <2>9, <2>10, <2>11,
     <2>12, <2>13, <2>14 DEF AcquireStep
<1> QED BY <1>1, <1>2, <1>3, CallsKept, MarksKept DEF Typed, Careful

\* The rest of a turn keeps the sandbox or gives it back.
LEMMA TurnCareful ==
    ASSUME Typed, NEW w \in Workers, TurnStep(w)
    PROVE  Careful
<1>1. UNCHANGED call \/ (\E s, force, retry : Begin(w, s, force, retry)) \/ Return(w)
  BY DEF TurnStep, Injected, RegisterAgent, FinishTurn, MarkIdleRead, MarkIdleWrite,
     EndTurn
<1>0. job[w].sess \in Sessions
  BY DEF Typed, Placed, TurnStep, Injected, RegisterAgent, FinishTurn, MarkIdleRead,
     MarkIdleWrite, EndTurn
<1>2. UNCHANGED marker \/ \E s \in Sessions : marker' = [marker EXCEPT ![s] = None]
  BY <1>0 DEF TurnStep, Injected, RegisterAgent, FinishTurn, MarkIdleRead, MarkIdleWrite,
     EndTurn, taskVars
<1>3. CarefulTurns
  <2>1. CASE Injected(w)
    BY <2>1 DEF Typed, TypeOK, CarefulTurns, Holds, HoldPcs, AcquireHolds, AcquirePcs,
       Injected, JobTo, Goto, GotoWith, GotoBox, GotoList, Become
  <2>2. CASE RegisterAgent(w)
    BY <2>2 DEF Typed, TypeOK, CarefulTurns, Holds, HoldPcs, AcquireHolds, AcquirePcs,
       RegisterAgent, JobTo, Goto, GotoWith, GotoBox, GotoList, Become
  <2>3. CASE FinishTurn(w)
    BY <2>3 DEF Typed, TypeOK, CarefulTurns, Holds, HoldPcs, AcquireHolds, AcquirePcs,
       FinishTurn, JobTo, Goto, GotoWith, GotoBox, GotoList, Become
  <2>4. CASE MarkIdleRead(w)
    BY <2>4 DEF Typed, TypeOK, CarefulTurns, Holds, HoldPcs, AcquireHolds, AcquirePcs,
       MarkIdleRead, JobTo, Goto, GotoWith, GotoBox, GotoList, Become
  <2>5. CASE MarkIdleWrite(w)
    BY <2>5 DEF Typed, TypeOK, CarefulTurns, Holds, HoldPcs, AcquireHolds, AcquirePcs,
       MarkIdleWrite, JobTo, Goto, GotoWith, GotoBox, GotoList, Become
  <2>6. CASE EndTurn(w)
    BY <2>6 DEF Typed, TypeOK, CarefulTurns, Holds, HoldPcs, AcquireHolds, AcquirePcs,
       EndTurn, JobTo, Goto, GotoWith, GotoBox, GotoList, Become, JobAt, Idle, IdleJob
  <2> QED BY <1>1, <2>1, <2>2, <2>3, <2>4, <2>5, <2>6 DEF TurnStep
<1> QED BY <1>1, <1>2, <1>3, CallsKept, MarksKept DEF Typed, Careful

\* release acts on a check that found nothing, or it was forced.
LEMMA ReleaseCareful ==
    ASSUME Typed, NEW w \in Workers, ReleaseStep(w)
    PROVE  Careful
<1>1. CarefulCalls
  <2>1. CASE RelEnter(w)
    BY <2>1 DEF Typed, TypeOK, CarefulCalls, Acting, RelEnter, CallTo, CallGoto,
       CallGotoWith
  <2>2. CASE RelBusy(w)
    BY <2>2 DEF Typed, TypeOK, CarefulCalls, Acting, RelBusy, CallTo, CallGoto,
       CallGotoWith
  <2>3. CASE RelCheck(w)
    <3>1. CASE \E r : CallTo(w, "leave", call[w].row, r)
      BY <3>1 DEF Typed, TypeOK, CarefulCalls, Acting, CallTo
    <3>2. CASE /\ call[w].force \/ marker[call[w].sess] = None
               /\ CallTo(w, "mark", call[w].row, call[w].res)
      BY <2>3, <3>2 DEF Typed, TypeOK, CarefulCalls, Acting, RelCheck, CallTo
    <3> QED
      BY <2>3, <3>1, <3>2 DEF RelCheck, ActiveAnswers, CallGoto, CallGotoWith
  <2>4. CASE RelMark(w)
    BY <2>4 DEF Typed, TypeOK, CarefulCalls, Acting, RelMark, CallTo, CallGoto,
       CallGotoWith
  <2>5. CASE RelRuntime(w)
    BY <2>5 DEF Typed, TypeOK, CarefulCalls, Acting, RelRuntime, CallTo, CallGoto,
       CallGotoWith
  <2>6. CASE RelConfirm(w)
    BY <2>6 DEF Typed, TypeOK, CarefulCalls, Acting, RelConfirm, CallTo, CallGoto,
       CallGotoWith
  <2>7. CASE RelFail(w)
    BY <2>7 DEF Typed, TypeOK, CarefulCalls, Acting, RelFail, CallTo, CallGoto,
       CallGotoWith
  <2>8. CASE RelCommit(w)
    BY <2>8 DEF Typed, TypeOK, CarefulCalls, Acting, RelCommit, CallTo, CallGoto,
       CallGotoWith
  <2>9. CASE RelLeave(w)
    <3>1. \E l \in {"leave_del", "done"} : \E r : CallTo(w, l, call[w].row, r)
      BY <2>9 DEF RelLeave, CallGoto, CallGotoWith
    <3> QED BY <3>1 DEF Typed, TypeOK, CarefulCalls, Acting, CallTo
  <2> QED BY <2>1, <2>2, <2>3, <2>4, <2>5, <2>6, <2>7, <2>8, <2>9 DEF ReleaseStep
<1>2. UNCHANGED marker /\ UNCHANGED job
  BY DEF ReleaseStep, RelEnter, RelBusy, RelCheck, RelMark, RelRuntime, RelConfirm,
     RelFail, RelCommit, RelLeave, taskVars
<1> QED BY <1>1, <1>2, MarksKept, TurnsKept DEF Typed, Careful

\* The reconcile loop only begins and ends calls of release.
LEMMA ReconcileCareful ==
    ASSUME Typed, NEW w \in Workers, ReconcileStep(w)
    PROVE  Careful
<1>1. UNCHANGED call \/ (\E s, force, retry : Begin(w, s, force, retry)) \/ Return(w)
  BY DEF ReconcileStep, RecSkip, RecRelease, RecMissing, RecOrphan, RecReturn, RecDone
<1>2. UNCHANGED marker
  BY DEF ReconcileStep, RecSkip, RecRelease, RecMissing, RecOrphan, RecReturn, RecDone,
     taskVars
<1>3. CarefulTurns
  <2>1. CASE \E s \in Sessions : RecSkip(w, s)
    BY <2>1 DEF Typed, TypeOK, CarefulTurns, Holds, HoldPcs, AcquireHolds, AcquirePcs,
       RecSkip, JobTo, Goto, GotoWith, GotoBox, GotoList, Become
  <2>2. CASE \E s \in Sessions : RecRelease(w, s)
    BY <2>2 DEF Typed, TypeOK, CarefulTurns, Holds, HoldPcs, AcquireHolds, AcquirePcs,
       RecRelease, JobTo, Goto, GotoWith, GotoBox, GotoList, Become
  <2>3. CASE \E s \in Sessions : RecMissing(w, s)
    BY <2>3 DEF Typed, TypeOK, CarefulTurns, Holds, HoldPcs, AcquireHolds, AcquirePcs,
       RecMissing, Scan, Become
  <2>4. CASE RecOrphan(w)
    BY <2>4 DEF Typed, TypeOK, CarefulTurns, Holds, HoldPcs, AcquireHolds, AcquirePcs,
       RecOrphan, Scan, Become
  <2>5. CASE RecReturn(w)
    BY <2>5 DEF Typed, TypeOK, CarefulTurns, Holds, HoldPcs, AcquireHolds, AcquirePcs,
       RecReturn, JobTo, Goto, GotoWith, GotoBox, GotoList, Become, JobAt, Idle, IdleJob
  <2>6. CASE RecDone(w)
    BY <2>6 DEF Typed, TypeOK, CarefulTurns, Holds, HoldPcs, AcquireHolds, AcquirePcs,
       RecDone, Idle, IdleJob, JobAt, Become
  <2> QED BY <1>1, <2>1, <2>2, <2>3, <2>4, <2>5, <2>6 DEF ReconcileStep
<1> QED BY <1>1, <1>2, <1>3, CallsKept, MarksKept DEF Typed, Careful

\* A task is named before it enters the guard; the others name none.
LEMMA StartCareful ==
    ASSUME Typed, NEW w \in Workers, Start(w) \/ CallReturn(w) \/ DeleteRow(w) \/ Heartbeat(w)
    PROVE  Careful
<1>1. UNCHANGED call \/ (\E s, force, retry : Begin(w, s, force, retry)) \/ Return(w)
  BY DEF Start, StartTurn, StartRelease, StartDelete, Interrupt, CallReturn, DeleteRow,
     Heartbeat, RecList, RecList
<1>2. CarefulMarks
  <2>1. CASE \E s \in Sessions, k \in TurnKinds : StartTurn(w, s, k)
    BY <2>1 DEF Typed, TypeOK, CarefulMarks, StartTurn, Become, JobAt
  <2>2. CASE UNCHANGED marker \/ \E s \in Sessions : marker' = [marker EXCEPT ![s] = None]
    BY <2>2, MarksKept DEF Typed
  <2>3. DeleteRow(w) => job[w].sess \in Sessions
    BY DEF Typed, Placed, DeleteRow
  <2> QED BY <2>1, <2>2, <2>3 DEF Start, StartTurn, StartRelease, StartDelete, Interrupt,
     CallReturn, DeleteRow, Heartbeat, RecList, RecList, taskVars
<1>3. CarefulTurns
  <2>1. CASE \E s \in Sessions, k \in TurnKinds : StartTurn(w, s, k)
    BY <2>1 DEF Typed, TypeOK, CarefulTurns, Holds, HoldPcs, AcquireHolds, AcquirePcs,
       StartTurn, Become, JobAt
  <2>2. CASE \E s \in Sessions : StartRelease(w, s)
    BY <2>2 DEF Typed, TypeOK, CarefulTurns, Holds, HoldPcs, AcquireHolds, AcquirePcs,
       StartRelease, JobTo, Goto, GotoWith, GotoBox, GotoList, Become
  <2>3. CASE \E s \in Sessions : StartDelete(w, s)
    <3>1. \E l \in {"del_wait", "del_row"}, s \in Sessions :
             job' = [job EXCEPT ![w] = JobAt(l, "sync", s)]
      BY <2>3 DEF StartDelete, Become
    <3> QED BY <3>1 DEF Typed, TypeOK, CarefulTurns, Holds, HoldPcs, JobAt
  <2>4. CASE \E s \in Sessions : Interrupt(w, s)
    BY <2>4 DEF Typed, TypeOK, CarefulTurns, Holds, HoldPcs, AcquireHolds, AcquirePcs,
       Interrupt
  <2>5. CASE CallReturn(w)
    BY <2>5 DEF Typed, TypeOK, CarefulTurns, Holds, HoldPcs, AcquireHolds, AcquirePcs,
       CallReturn, JobTo, Goto, GotoWith, GotoBox, GotoList, Become, JobAt, Idle, IdleJob
  <2>6. CASE DeleteRow(w)
    BY <2>6 DEF Typed, TypeOK, CarefulTurns, Holds, HoldPcs, AcquireHolds, AcquirePcs,
       DeleteRow, JobTo, Goto, GotoWith, GotoBox, GotoList, Become, JobAt, Idle, IdleJob
  <2>7. CASE Heartbeat(w)
    BY <2>7 DEF Typed, TypeOK, CarefulTurns, Holds, HoldPcs, AcquireHolds, AcquirePcs,
       Heartbeat
  <2>8. CASE RecList(w)
    BY <2>8 DEF Typed, TypeOK, CarefulTurns, Holds, HoldPcs, AcquireHolds, AcquirePcs,
       RecList, JobTo, Goto, GotoWith, GotoBox, GotoList, Become
  <2> QED BY <1>1, <2>1, <2>2, <2>3, <2>4, <2>5, <2>6, <2>7, <2>8 DEF Start
<1> QED BY <1>1, <1>2, <1>3, CallsKept, MarksKept DEF Typed, Careful

\* Failures and time neither name a task nor let a release go on.
LEMMA EnvironmentCareful ==
    ASSUME Typed, Environment
    PROVE  Careful
<1>1. CarefulCalls
  <2>1. CASE \E w \in Workers : CancelTurn(w)
    BY <2>1, CallsKept DEF Typed, CancelTurn
  <2>2. CASE \E p \in Processes : Crash(p)
    <3>1. \A w \in Workers : call'[w] = call[w] \/ call'[w] = NoCall
      BY <2>2 DEF Crash
    <3> QED BY <3>1 DEF CarefulCalls, Acting, NoCall, CallAt
  <2>3. CASE UNCHANGED call
    BY <2>3 DEF CarefulCalls
  <2> QED BY <2>1, <2>2, <2>3 DEF Environment, BoxBreaks, GhostConnect, GhostRelease,
             LeaseExpires, LockLapses, MarkerLapses
<1>2. UNCHANGED marker \/ \E s \in Sessions : marker' = [marker EXCEPT ![s] = None]
  BY DEF Environment, BoxBreaks, GhostConnect, GhostRelease, LeaseExpires, LockLapses,
     MarkerLapses, CancelTurn, Crash, taskVars
<1>3. CarefulTurns
  <2>1. CASE \E b \in Boxes : BoxBreaks(b)
    BY <2>1 DEF Typed, TypeOK, CarefulTurns, Holds, HoldPcs, AcquireHolds, AcquirePcs,
       BoxBreaks
  <2>2. CASE \E s \in Sessions : GhostConnect(s)
    BY <2>2 DEF Typed, TypeOK, CarefulTurns, Holds, HoldPcs, AcquireHolds, AcquirePcs,
       GhostConnect
  <2>3. CASE \E s \in Sessions : GhostRelease(s)
    BY <2>3 DEF Typed, TypeOK, CarefulTurns, Holds, HoldPcs, AcquireHolds, AcquirePcs,
       GhostRelease
  <2>4. CASE \E s \in Sessions : LeaseExpires(s)
    BY <2>4 DEF Typed, TypeOK, CarefulTurns, Holds, HoldPcs, AcquireHolds, AcquirePcs,
       LeaseExpires
  <2>5. CASE \E s \in Sessions : LockLapses(s)
    BY <2>5 DEF Typed, TypeOK, CarefulTurns, Holds, HoldPcs, AcquireHolds, AcquirePcs,
       LockLapses
  <2>6. CASE \E s \in Sessions : MarkerLapses(s)
    BY <2>6 DEF Typed, TypeOK, CarefulTurns, Holds, HoldPcs, AcquireHolds, AcquirePcs,
       MarkerLapses
  <2>7. CASE \E w \in Workers : CancelTurn(w)
    BY <2>7 DEF Typed, TypeOK, CarefulTurns, Holds, HoldPcs, AcquireHolds, AcquirePcs,
       CancelTurn, Become, JobAt
  <2>8. CASE \E p \in Processes : Crash(p)
    BY <2>8 DEF Typed, TypeOK, CarefulTurns, Holds, HoldPcs, AcquireHolds, AcquirePcs,
       Crash, DeadJob, JobAt, NoCall, CallAt
  <2> QED BY <1>1, <2>1, <2>2, <2>3, <2>4, <2>5, <2>6, <2>7, <2>8 DEF Environment
<1> QED BY <1>1, <1>2, <1>3, CallsKept, MarksKept DEF Typed, Careful

\* Such a step releases no named turn that holds its sandbox.
LEMMA ProtectedStep ==
    ASSUME Typed, GuardExclusive, ProtectedTurn, Careful
    PROVE  ProtectedTurn'
<1> SUFFICES ASSUME NEW w \in Workers, NEW v \in Workers,
                    call'[w].pc \in Acting, ~call'[w].force, job'[v].kind = "async",
                    Holds(v, call[w].sess)', call'[w].sess = call[w].sess
             PROVE  marker'[call[w].sess] # v
  BY DEF ProtectedTurn, Acting, Careful, CarefulCalls, Holds
<1> DEFINE s == call[w].sess
<1>1. ReleaseHolds(w, s) /\ s \in Sessions
  BY DEF Typed, Placed, Careful, CarefulCalls, Acting, ReleaseHolds
<1>2. ~AcquireHolds(v, s)
  <2>1. AcquireHolds(v, s) => v = w
    BY <1>1 DEF GuardExclusive, InGuard
  <2> QED BY <1>1, <2>1 DEF Typed, Placed, AcquireHolds, ReleaseHolds, AcquirePcs
<1>3. Holds(v, s) /\ job[v].kind = "async" /\ job'[v].pc # "acq_guard"
  BY <1>1, <1>2 DEF Careful, CarefulTurns, Holds, HoldPcs
<1>4. marker[s] # v
  BY <1>1, <1>3, ConstantsAssumption
     DEF Careful, CarefulCalls, ProtectedTurn, Acting
<1> QED BY <1>1, <1>3, <1>4 DEF Careful, CarefulMarks

\* No release but a deletion's acts on a session whose session_task names a turn that
\* holds the sandbox, although the check comes several awaits before the act.
THEOREM NamedTurnsAreProtected ==
    ASSUME Reliable
    PROVE  Spec => []ProtectedTurn
<1>1. Init => ProtectedTurn
  BY DEF Init, ProtectedTurn, NoCall, CallAt
<1>2. ASSUME Typed, GuardExclusive, ProtectedTurn, [Next]_vars
      PROVE  ProtectedTurn'
  <2>1. CASE UNCHANGED vars
    BY <1>2, <2>1 DEF ProtectedTurn, Holds, vars
  <2>2. ASSUME NEW w \in Workers, Start(w) \/ Continue(w) \/ Heartbeat(w)
        PROVE  Careful
    BY <1>2, <2>2, AcquireCareful, TurnCareful, ReleaseCareful, ReconcileCareful,
       StartCareful DEF Continue
  <2>3. CASE Environment
    BY <1>2, <2>3, EnvironmentCareful, ProtectedStep
  <2> QED BY <1>2, <2>1, <2>2, <2>3, ProtectedStep DEF Next
<1>3. Spec => [](Typed /\ GuardExclusive)
  BY TypedAlways, GuardExcludes, PTL
<1> QED BY <1>1, <1>2, <1>3, PTL DEF Spec
=============================================================================
