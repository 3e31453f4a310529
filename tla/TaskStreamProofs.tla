-------------------------- MODULE TaskStreamProofs ---------------------------
(***************************************************************************)
(* Proofs about TaskStream, for any number of tasks, tool calls, viewers,  *)
(* reconnections and failures: the state is typed, a task that is over is  *)
(* not the session's active task, the stream implements TaskFeed, and a run*)
(* that ends its stream without an error has closed every tool call it     *)
(* opened, once and behind the call.                                       *)
(*                                                                         *)
(* The refinement rests on what a connection knows of its place: a page    *)
(* was handed exactly the first `last` events of its task, none of them    *)
(* the end, and an open connection is behind the last of them. The pairing *)
(* of results rests on a ledger of one task: its stream so far against the *)
(* calls its current run takes for open.                                   *)
(***************************************************************************)
EXTENDS TaskStream, SequenceTheorems, TLAPS

\* Used throughout: the assumption on the constants and four abbreviations.
USE StreamAssumption DEF server, viewing, Others, Beside

-----------------------------------------------------------------------------
(* Types                                                                   *)

\* The events the code builds are events.
LEMMA EventsTyped ==
    ASSUME NEW type \in EventTypes, NEW r \in 0 .. MaxFaults + 1
    PROVE  Plain(type, r) \in Event /\ \A c \in Tools : Of(type, c, r) \in Event
  BY DEF Plain, Of, Event

\* A fresh run is typed.
LEMMA FreshTyped ==
    ASSUME NEW pc \in RunPcs, NEW n \in 0 .. MaxFaults + 1
    PROVE  Fresh(pc, n) \in Run
  BY DEF Fresh, Run, Producers

\* So is a connection that is over.
LEMMA OverTyped == \A t \in Tasks \cup {None} : Over(t) \in Conn
  BY DEF Over, Conn

\* What the actions of a run leave typed: they write at most one event, change the
\* run of t to a typed one of the same delivery and touch no viewer.
RunStep(t, r) ==
    /\ run' = [run EXCEPT ![t] = r]
    /\ r \in Run
    /\ r.nth <= faults' + 1
    /\ \/ UNCHANGED log
       \/ \E e \in Event : Write(t, e)
    /\ stop' \in BOOLEAN
    /\ active' \in {active, None}
    /\ faults' \in {faults, faults + 1} \cap 0 .. MaxFaults
    /\ UNCHANGED <<sub, revoked, intr, viewing>>

LEMMA RunStepTyped ==
    ASSUME TypeOK, NEW t \in Tasks, NEW r, RunStep(t, r)
    PROVE  TypeOK'
<1>1. log' \in [Tasks -> Seq(Event)]
  <2>1. CASE UNCHANGED log
    BY <2>1 DEF TypeOK
  <2>2. ASSUME NEW e \in Event, Write(t, e) PROVE log' \in [Tasks -> Seq(Event)]
    <3>1. Append(log[t], e) \in Seq(Event)
      BY DEF TypeOK
    <3> QED  BY <2>2, <3>1 DEF Write, TypeOK
  <2> QED  BY <2>1, <2>2 DEF RunStep
<1>2. \A u \in Tasks : run'[u].nth <= faults' + 1
  <2> SUFFICES ASSUME NEW u \in Tasks PROVE run'[u].nth <= faults' + 1
    OBVIOUS
  <2>1. run[u].nth <= faults + 1 /\ run[u].nth \in Int /\ faults \in Int /\ faults' >= faults
    BY DEF TypeOK, RunStep, Run
  <2>2. run'[u] = IF u = t THEN r ELSE run[u]
    BY DEF RunStep, TypeOK
  <2> QED  BY <2>1, <2>2 DEF RunStep
<1>3. run' \in [Tasks -> Run]
  BY DEF RunStep, TypeOK
<1> QED  BY <1>1, <1>2, <1>3 DEF RunStep, TypeOK

\* What a step of a run leaves of it.
LEMMA RunsTyped ==
    ASSUME TypeOK, NEW t \in Tasks
    PROVE  /\ run[t] \in Run
           /\ run[t].nth \in 0 .. MaxFaults + 1
           /\ run[t].nth <= faults + 1
           /\ faults \in 0 .. MaxFaults
           /\ \A pc \in RunPcs :
                /\ Fresh(pc, run[t].nth) \in Run
                /\ Fresh(pc, run[t].nth).nth = run[t].nth
                /\ [run[t] EXCEPT !.pc = pc] \in Run
                /\ [run[t] EXCEPT !.pc = pc].nth = run[t].nth
<1>1. run[t] \in Run /\ run[t].nth \in 0 .. MaxFaults + 1 /\ run[t].nth <= faults + 1
      /\ faults \in 0 .. MaxFaults
  BY DEF TypeOK, Run
<1>2. ASSUME NEW pc \in RunPcs
      PROVE  Fresh(pc, run[t].nth) \in Run /\ Fresh(pc, run[t].nth).nth = run[t].nth
  BY <1>1, FreshTyped DEF Fresh
<1>3. ASSUME NEW pc \in RunPcs
      PROVE  [run[t] EXCEPT !.pc = pc] \in Run /\ [run[t] EXCEPT !.pc = pc].nth = run[t].nth
  BY <1>1 DEF Run
<1> QED  BY <1>1, <1>2, <1>3

\* The events of a run of t.
LEMMA RunWrites ==
    ASSUME TypeOK, NEW t \in Tasks
    PROVE  \A type \in EventTypes :
              /\ Plain(type, run[t].nth) \in Event
              /\ \A c \in Tools : Of(type, c, run[t].nth) \in Event
  BY RunsTyped, EventsTyped

LEMMA GoTyped ==
    ASSUME TypeOK, NEW t \in Tasks, NEW pc \in RunPcs, Go(t, pc)
    PROVE  run' = [run EXCEPT ![t] = [run[t] EXCEPT !.pc = pc]]
  BY DEF Go, TypeOK

LEMMA LeaveTyped ==
    ASSUME TypeOK, NEW t \in Tasks, NEW pc \in RunPcs, Leave(t, pc)
    PROVE  run' = [run EXCEPT ![t] = Fresh(pc, run[t].nth)]
  BY DEF Leave, TypeOK

LEMMA BreakTyped ==
    ASSUME TypeOK, NEW t \in Tasks, NEW pc \in RunPcs, Break(t, pc)
    PROVE  \E r \in Run : r.nth = run[t].nth /\ run' = [run EXCEPT ![t] = r]
<1> DEFINE r == [Fresh(pc, run[t].nth) EXCEPT !.producer = run[t].producer,
                                              !.pending = run[t].pending]
<1>1. r \in Run /\ r.nth = run[t].nth
  BY RunsTyped DEF Fresh, Run, TypeOK
<1>2. run' = [run EXCEPT ![t] = r]
  BY DEF Break, TypeOK
<1> QED  BY <1>1, <1>2

LEMMA CloseOneTyped ==
    ASSUME TypeOK, NEW t \in Tasks, CloseOne(t)
    PROVE  \E r : RunStep(t, r)
<1> PICK c \in run[t].pending :
        /\ Write(t, Of("closing", c, run[t].nth))
        /\ run' = [run EXCEPT ![t].pending = @ \ {c}]
        /\ UNCHANGED Beside
  BY DEF CloseOne
<1> DEFINE r == [run[t] EXCEPT !.pending = @ \ {c}]
<1>1. c \in Tools /\ r \in Run /\ r.nth = run[t].nth
  BY RunsTyped DEF Run
<1>2. run' = [run EXCEPT ![t] = r]
  BY DEF TypeOK
<1>3. Of("closing", c, run[t].nth) \in Event
  BY <1>1, RunWrites DEF EventTypes
<1>4. RunStep(t, r)
  BY <1>1, <1>2, <1>3, RunsTyped DEF RunStep, TypeOK
<1> QED  BY <1>4

LEMMA ConcludeTyped ==
    ASSUME TypeOK, NEW t \in Tasks, NEW type \in EventTypes, NEW pc \in RunPcs,
           Conclude(t, type, pc)
    PROVE  \E r : RunStep(t, r)
<1>1. RunStep(t, Fresh(pc, run[t].nth))
  BY RunsTyped, RunWrites, LeaveTyped DEF Conclude, RunStep, TypeOK
<1> QED  BY <1>1

LEMMA OutcomeTyped == \A t \in Tasks : Outcome(t) \in RunPcs
  BY DEF Outcome, RunPcs

\* Every step of a run, and every accident of one, is a RunStep.
LEMMA StepTyped ==
    ASSUME TypeOK, NEW t \in Tasks,
           \/ Step(t) \/ MonitorReads(t) \/ ProducerFails(t) \/ PlanCancelled(t)
           \/ Raise(t) \/ StartFails(t) \/ Kill(t) \/ Crash(t)
    PROVE  \E r : RunStep(t, r)
<1>0. run[t] \in Run
  BY RunsTyped
<1>1. CASE Begin(t)
  <2>1. RunStep(t, [run[t] EXCEPT !.pc = "prepare"])
    BY <1>1, RunsTyped, RunWrites, GoTyped DEF Begin, RunStep, RunPcs, EventTypes, TypeOK
  <2> QED  BY <2>1
<1>2. CASE EnterChat(t)
  <2>1. RunStep(t, [run[t] EXCEPT !.pc = "chat"])
    BY <1>2, RunsTyped, GoTyped DEF EnterChat, RunStep, RunPcs, TypeOK
  <2> QED  BY <2>1
<1>3. CASE MonitorReads(t)
  <2> DEFINE r == [run[t] EXCEPT !.looking = TRUE]
  <2>1. r \in Run /\ r.nth = run[t].nth /\ run' = [run EXCEPT ![t] = r]
    BY <1>0, <1>3 DEF MonitorReads, Run, TypeOK
  <2>2. RunStep(t, r)
    BY <1>3, <2>1, RunsTyped DEF MonitorReads, RunStep, TypeOK
  <2> QED  BY <2>2
<1>4. CASE MonitorTakes(t)
  <2> DEFINE p == IF run[t].producer = "on" THEN "cutting" ELSE run[t].producer
             r1 == [run[t] EXCEPT !.looking = FALSE]
             r2 == [r1 EXCEPT !.hit = TRUE]
             r == [r2 EXCEPT !.producer = p]
  <2>1. p \in Producers
    BY <1>0 DEF Run, Producers
  <2>2. r \in Run /\ r.nth = run[t].nth
    BY <1>0, <2>1 DEF Run
  <2>3. run' = [run EXCEPT ![t] = r]
    BY <1>0, <1>4 DEF MonitorTakes, Run, TypeOK
  <2>4. RunStep(t, r)
    BY <1>4, <2>2, <2>3, RunsTyped DEF MonitorTakes, RunStep, TypeOK
  <2> QED  BY <2>4
<1>5. CASE Produce(t)
  <2> DEFINE r1 == [run[t] EXCEPT !.queued = 1]
             r == [r1 EXCEPT !.made = @ + 1]
  <2>0. r1 \in Run /\ r1.nth = run[t].nth /\ r1.made = run[t].made
    BY <1>0 DEF Run
  <2>a. run[t].made + 1 \in 0 .. MaxItems
    BY <1>0, <1>5 DEF Produce, Run
  <2>1. r \in Run /\ r.nth = run[t].nth
    BY <2>0, <2>a DEF Run
  <2>2. run' = [run EXCEPT ![t] = r]
    BY <1>0, <1>5 DEF Produce, Run, TypeOK
  <2>3. RunStep(t, r)
    BY <1>5, <2>1, <2>2, RunsTyped DEF Produce, RunStep, TypeOK
  <2> QED  BY <2>3
<1>6. CASE ProducerStops(t) \/ ProducerFails(t)
  <2>1. PICK how \in Producers : run' = [run EXCEPT ![t].producer = how]
    BY <1>6 DEF ProducerStops, ProducerFails, Producers
  <2> DEFINE r == [run[t] EXCEPT !.producer = how]
  <2>2. r \in Run /\ r.nth = run[t].nth /\ run' = [run EXCEPT ![t] = r]
    BY <1>0, <2>1 DEF Run, TypeOK
  <2>3. faults' \in {faults, faults + 1} /\ faults' \in 0 .. MaxFaults
    BY <1>6, RunsTyped DEF ProducerStops, ProducerFails, Fault
  <2>4. RunStep(t, r)
    BY <1>6, <2>2, <2>3, RunsTyped DEF ProducerStops, ProducerFails, RunStep, TypeOK
  <2> QED  BY <2>4
<1>7. CASE Consume(t)
  <2>1. ASSUME NEW c \in (Tools \ run[t].called) \cup run[t].pending, Write(t, Of("call", c, run[t].nth)),
               run' = [run EXCEPT ![t].queued = 0, ![t].called = @ \cup {c},
                                  ![t].pending = @ \cup {c}]
        PROVE  \E r : RunStep(t, r)
    <3> DEFINE r1 == [run[t] EXCEPT !.queued = 0]
               r2 == [r1 EXCEPT !.called = @ \cup {c}]
               r == [r2 EXCEPT !.pending = @ \cup {c}]
    <3>0. r1 \in Run /\ r1.nth = run[t].nth /\ c \in Tools
      BY <1>0 DEF Run
    <3>a. r2 \in Run /\ r2.nth = run[t].nth
      BY <3>0 DEF Run
    <3>1. r \in Run /\ r.nth = run[t].nth
      BY <3>a DEF Run
    <3>2. run' = [run EXCEPT ![t] = r]
      BY <1>0, <2>1 DEF Run, TypeOK
    <3>3. Of("call", c, run[t].nth) \in Event
      BY <3>0, RunWrites DEF EventTypes
    <3>4. RunStep(t, r)
      BY <1>7, <2>1, <3>1, <3>2, <3>3, RunsTyped DEF Consume, RunStep, TypeOK
    <3> QED  BY <3>4
  <2>2. ASSUME NEW c \in run[t].called, Write(t, Of("result", c, run[t].nth)),
               run' = [run EXCEPT ![t].queued = 0, ![t].pending = @ \ {c}]
        PROVE  \E r : RunStep(t, r)
    <3> DEFINE r1 == [run[t] EXCEPT !.queued = 0]
               r == [r1 EXCEPT !.pending = @ \ {c}]
    <3>0. r1 \in Run /\ r1.nth = run[t].nth
      BY <1>0 DEF Run
    <3>1. r \in Run /\ r.nth = run[t].nth /\ c \in Tools
      BY <1>0, <3>0 DEF Run
    <3>2. run' = [run EXCEPT ![t] = r]
      BY <1>0, <2>2 DEF Run, TypeOK
    <3>3. Of("result", c, run[t].nth) \in Event
      BY <3>1, RunWrites DEF EventTypes
    <3>4. RunStep(t, r)
      BY <1>7, <2>2, <3>1, <3>2, <3>3, RunsTyped DEF Consume, RunStep, TypeOK
    <3> QED  BY <3>4
  <2> QED  BY <1>7, <2>1, <2>2 DEF Consume
<1>8. CASE Interrupted(t) \/ PlanCancelled(t) \/ LeaveLoop(t)
  <2>1. PICK pc \in RunPcs : Break(t, pc)
    BY <1>8, OutcomeTyped DEF Interrupted, PlanCancelled, LeaveLoop, RunPcs
  <2>2. PICK r \in Run : r.nth = run[t].nth /\ run' = [run EXCEPT ![t] = r]
    BY <2>1, BreakTyped
  <2>3. UNCHANGED log \/ \E e \in Event : Write(t, e)
    BY <1>8, RunWrites DEF Interrupted, PlanCancelled, LeaveLoop, EventTypes
  <2>4. faults' \in {faults, faults + 1} /\ faults' \in 0 .. MaxFaults
    BY <1>8, RunsTyped DEF Interrupted, PlanCancelled, LeaveLoop, Fault
  <2>5. UNCHANGED Others
    BY <1>8 DEF Interrupted, PlanCancelled, LeaveLoop
  <2>6. RunStep(t, r)
    BY <2>2, <2>3, <2>4, <2>5, RunsTyped DEF RunStep, TypeOK
  <2> QED  BY <2>6
<1>9. CASE Cancel(t) \/ After(t) \/ Expire(t)
  <2>1. CloseOne(t) \/ \E type \in EventTypes, pc \in RunPcs : Conclude(t, type, pc)
    BY <1>9, OutcomeTyped DEF Cancel, After, Expire, EventTypes, RunPcs
  <2> QED  BY <2>1, CloseOneTyped, ConcludeTyped
<1>10. CASE Fail(t) \/ EndAnyway(t)
  <2>1. PICK pc \in RunPcs : Leave(t, pc)
    BY <1>10 DEF Fail, EndAnyway, RunPcs
  <2>2. RunStep(t, Fresh(pc, run[t].nth))
    BY <1>10, <2>1, LeaveTyped, RunsTyped, RunWrites
    DEF Fail, EndAnyway, RunStep, EventTypes, TypeOK
  <2> QED  BY <2>2
<1>11. CASE ClearLooks(t) \/ ClearDeletes(t)
  <2>1. PICK pc \in RunPcs : Go(t, pc)
    BY <1>11 DEF ClearLooks, ClearDeletes, RunPcs
  <2>2. RunStep(t, [run[t] EXCEPT !.pc = pc])
    BY <1>11, <2>1, GoTyped, RunsTyped DEF ClearLooks, ClearDeletes, RunStep, TypeOK
  <2> QED  BY <2>2
<1>12. CASE Raise(t) \/ StartFails(t) \/ Kill(t)
  <2>1. PICK pc \in RunPcs : Leave(t, pc)
    BY <1>12 DEF Raise, StartFails, Kill, RunPcs
  <2>2. faults' \in {faults, faults + 1} /\ faults' \in 0 .. MaxFaults
    BY <1>12, RunsTyped DEF Raise, StartFails, Kill, Fault
  <2>3. run' = [run EXCEPT ![t] = Fresh(pc, run[t].nth)] /\ Fresh(pc, run[t].nth) \in Run
    BY <2>1, LeaveTyped, RunsTyped
  <2>a. Fresh(pc, run[t].nth).nth = run[t].nth
    BY RunsTyped
  <2>b. run[t].nth <= faults' + 1
    BY <2>2, RunsTyped
  <2>4. Fresh(pc, run[t].nth).nth <= faults' + 1
    BY <2>a, <2>b
  <2>5. UNCHANGED <<log, Others>>
    BY <1>12 DEF Raise, StartFails, Kill
  <2>6. RunStep(t, Fresh(pc, run[t].nth))
    BY <2>2, <2>3, <2>4, <2>5 DEF RunStep, TypeOK
  <2> QED  BY <2>6
<1>13. CASE Crash(t)
  <2> DEFINE r == [Fresh("queued", run[t].nth + 1) EXCEPT !.made = run[t].made]
  <2>1. faults' = faults + 1 /\ faults' \in 0 .. MaxFaults
    BY <1>13, RunsTyped DEF Crash, Fault
  <2>2. run[t].nth + 1 \in 0 .. MaxFaults + 1 /\ run[t].nth + 1 <= faults' + 1
    BY <2>1, RunsTyped
  <2>3. Fresh("queued", run[t].nth + 1) \in Run
    BY <2>2, FreshTyped DEF RunPcs
  <2>4. r \in Run /\ r.nth = run[t].nth + 1
    BY <1>0, <2>3 DEF Run, Fresh
  <2>5. run' = [run EXCEPT ![t] = r]
    BY <1>13 DEF Crash, TypeOK
  <2>6. RunStep(t, r)
    BY <1>13, <2>1, <2>2, <2>4, <2>5 DEF Crash, RunStep, TypeOK
  <2> QED  BY <2>6
<1> QED
  BY <1>1, <1>2, <1>3, <1>4, <1>5, <1>6, <1>7, <1>8, <1>9, <1>10, <1>11, <1>12, <1>13 DEF Step

-----------------------------------------------------------------------------
(* The steps beside the runs                                               *)

\* An interrupt that found no active task has nothing to tell.
IntrPlaced == intr.pc \in {"tell", "end"} => intr.task # None

Typed == TypeOK /\ IntrPlaced

\* The steps of an interrupt write at most one event too.
LEMMA InterruptTyped ==
    ASSUME Typed, InterruptSets \/ Interrupt \/ StopLapses
    PROVE  /\ Typed'
           /\ UNCHANGED viewing
           /\ UNCHANGED log \/ \E t \in Tasks, e \in Event : Write(t, e)
<1> USE DEF Typed
<1>0. intr \in Intr /\ intr.task \in Tasks \cup {None} /\ faults \in 0 .. MaxFaults
  BY DEF TypeOK, Intr
<1>1. CASE InterruptSets \/ StopLapses
  <2>1. intr' \in Intr
    BY <1>0, <1>1 DEF InterruptSets, StopLapses, Interrupting, Intr
  <2>2. faults' \in 0 .. MaxFaults /\ faults' = faults + 1
    BY <1>0, <1>1 DEF InterruptSets, StopLapses, Fault
  <2>3. UNCHANGED run
    BY <1>1 DEF InterruptSets, StopLapses
  <2>4. \A t \in Tasks : run'[t].nth <= faults' + 1
    <3> SUFFICES ASSUME NEW t \in Tasks PROVE run'[t].nth <= faults' + 1
      OBVIOUS
    <3>1. run[t].nth <= faults + 1 /\ run[t].nth \in 0 .. MaxFaults + 1
      BY RunsTyped
    <3> QED  BY <2>2, <2>3, <3>1, <1>0
  <2>5. TypeOK'
    BY <1>1, <2>1, <2>2, <2>3, <2>4 DEF InterruptSets, StopLapses, TypeOK
  <2>6. IntrPlaced'
    BY <1>0, <1>1 DEF InterruptSets, StopLapses, Interrupting, IntrPlaced, Intr
  <2> QED  BY <1>1, <2>5, <2>6 DEF InterruptSets, StopLapses
<1>2. CASE InterruptNames \/ InterruptRevokes \/ InterruptClears
  <2>1. intr' \in Intr
    BY <1>0, <1>2 DEF InterruptNames, InterruptRevokes, InterruptClears, Interrupting, Intr, TypeOK
  <2>2. revoked' \subseteq Tasks
    BY <1>2 DEF InterruptNames, InterruptRevokes, InterruptClears, TypeOK
  <2>3. TypeOK'
    BY <1>2, <2>1, <2>2 DEF InterruptNames, InterruptRevokes, InterruptClears, TypeOK
  <2>4. IntrPlaced'
    BY <1>0, <1>2 DEF InterruptNames, InterruptRevokes, InterruptClears, Interrupting,
                      IntrPlaced, Intr
  <2> QED  BY <1>2, <2>3, <2>4 DEF InterruptNames, InterruptRevokes, InterruptClears
<1>3. ASSUME intr.task \in Tasks, NEW type \in EventTypes,
             Write(intr.task, Plain(type, 0)),
             intr' \in Intr, IntrPlaced',
             UNCHANGED <<sub, active, stop, revoked, run, viewing, faults>>
      PROVE  /\ Typed'
             /\ UNCHANGED viewing
             /\ UNCHANGED log \/ \E t \in Tasks, e \in Event : Write(t, e)
  <2>1. Plain(type, 0) \in Event
    BY EventsTyped
  <2>2. Append(log[intr.task], Plain(type, 0)) \in Seq(Event)
    BY <1>3, <2>1 DEF TypeOK
  <2>3. log' \in [Tasks -> Seq(Event)]
    BY <1>3, <2>2 DEF Write, TypeOK
  <2> QED  BY <1>3, <2>1, <2>3 DEF TypeOK
<1>4. CASE InterruptTells \/ InterruptEnds
  <2>1. intr.task \in Tasks
    BY <1>0, <1>4 DEF InterruptTells, InterruptEnds, Interrupting, IntrPlaced
  <2>2. intr' \in Intr /\ IntrPlaced'
    BY <1>0, <1>4, <2>1 DEF InterruptTells, InterruptEnds, Interrupting, IntrPlaced, Intr
  <2>3. PICK type \in EventTypes : Write(intr.task, Plain(type, 0))
    BY <1>4 DEF InterruptTells, InterruptEnds, EventTypes
  <2>4. UNCHANGED <<sub, active, stop, revoked, run, viewing, faults>>
    BY <1>4 DEF InterruptTells, InterruptEnds
  <2> QED  BY <1>3, <2>1, <2>2, <2>3, <2>4
<1> QED  BY <1>1, <1>2, <1>4 DEF Interrupt

LEMMA SubmissionTyped ==
    ASSUME Typed, NEW t \in Tasks, SetTaskOwner(t) \/ SetSessionTask(t) \/ ApplyAsync(t)
    PROVE  Typed' /\ UNCHANGED <<viewing, log>>
<1> USE DEF Typed
<1>1. CASE SetTaskOwner(t) \/ SetSessionTask(t)
  BY <1>1 DEF SetTaskOwner, SetSessionTask, TypeOK, IntrPlaced
<1>2. CASE ApplyAsync(t)
  <2>1. Fresh("queued", 1) \in Run /\ Fresh("queued", 1).nth = 1
    BY FreshTyped DEF RunPcs, Fresh
  <2>2. run' \in [Tasks -> Run]
    BY <1>2, <2>1 DEF ApplyAsync, TypeOK
  <2>3. \A u \in Tasks : run'[u].nth <= faults' + 1
    BY <1>2, <2>1 DEF ApplyAsync, TypeOK
  <2> QED  BY <1>2, <2>2, <2>3 DEF ApplyAsync, TypeOK, IntrPlaced
<1> QED  BY <1>1, <1>2

LEMMA RunKeepsTyped ==
    ASSUME Typed, NEW t \in Tasks, NEW r, RunStep(t, r)
    PROVE  /\ Typed'
           /\ UNCHANGED viewing
           /\ UNCHANGED log \/ \E e \in Event : Write(t, e)
  BY RunStepTyped DEF Typed, RunStep, IntrPlaced

-----------------------------------------------------------------------------
(* Where a connection is                                                   *)

\* A page was handed the first events of its task, up to where the client remembers to
\* be; an open connection is there too.
PlacedAt(v, c) ==
    /\ c.st = "closed" => c.task = None /\ c.last = 0 /\ shown[v] = <<>>
    /\ c.st # "closed" => c.task \in Tasks
    /\ c.st \in {"connecting", "open"} =>
          /\ c.last <= Len(log[c.task])
          /\ shown[v] = SubSeq(log[c.task], 1, c.last)
          /\ \A i \in 1 .. c.last : log[c.task][i].type # "end"
    /\ c.st = "open" => c.at = c.last

Placed == \A v \in Viewers : PlacedAt(v, conn[v])

FeedWatch == [v \in Viewers |-> {conn[v].task} \ {None}]

LEMMA ConnTyped ==
    ASSUME TypeOK, NEW v \in Viewers
    PROVE  /\ conn[v] \in Conn /\ conn[v].task \in Tasks \cup {None}
           /\ conn[v].at \in Nat /\ conn[v].last \in Nat
           /\ shown[v] \in Seq(Event)
           /\ \A t \in Tasks : log[t] \in Seq(Event) /\ Len(log[t]) \in Nat
  BY DEF TypeOK, Conn

\* A log that grows keeps its beginnings.
LEMMA Prefix ==
    ASSUME NEW s \in Seq(Event), NEW e \in Event, NEW n \in Nat, n <= Len(s)
    PROVE  /\ SubSeq(Append(s, e), 1, n) = SubSeq(s, 1, n)
           /\ Len(Append(s, e)) = Len(s) + 1
           /\ \A i \in 1 .. n : Append(s, e)[i] = s[i]
<1>1. Len(Append(s, e)) = Len(s) + 1 /\ \A i \in 1 .. n : Append(s, e)[i] = s[i]
  OBVIOUS
<1>2. Append(s, e) \in Seq(Event)
  OBVIOUS
<1>3. SubSeq(Append(s, e), 1, n) = [i \in 1 .. n |-> Append(s, e)[i]]
      /\ SubSeq(s, 1, n) = [i \in 1 .. n |-> s[i]]
  BY <1>1, <1>2, SubSeqRestrict DEF Restrict
<1> QED  BY <1>1, <1>3

LEMMA PlacedThroughWrites ==
    ASSUME TypeOK, Placed, UNCHANGED viewing,
           UNCHANGED log \/ \E t \in Tasks, e \in Event : Write(t, e)
    PROVE  Placed'
<1>1. CASE UNCHANGED log
  BY <1>1 DEF Placed, PlacedAt
<1>2. ASSUME NEW t \in Tasks, NEW e \in Event, Write(t, e) PROVE Placed'
  <2> SUFFICES ASSUME NEW v \in Viewers PROVE PlacedAt(v, conn[v])'
    BY DEF Placed
  <2>1. conn' = conn /\ shown' = shown /\ PlacedAt(v, conn[v])
    BY DEF Placed
  <2>2. CASE conn[v].st \in {"connecting", "open"} /\ conn[v].task = t
    <3>1. log'[t] = Append(log[t], e)
      BY <1>2 DEF Write, TypeOK
    <3>2. conn[v].last \in Nat /\ log[t] \in Seq(Event) /\ conn[v].last <= Len(log[t])
      BY <2>1, <2>2, ConnTyped DEF PlacedAt
    <3>3. /\ SubSeq(log'[t], 1, conn[v].last) = SubSeq(log[t], 1, conn[v].last)
          /\ Len(log'[t]) = Len(log[t]) + 1
          /\ \A i \in 1 .. conn[v].last : log'[t][i] = log[t][i]
      BY <3>1, <3>2, Prefix
    <3>4. Len(log[t]) \in Nat /\ conn[v].last <= Len(log'[t])
      BY <3>2, <3>3
    <3>5. shown[v] = SubSeq(log'[t], 1, conn[v].last)
      BY <2>1, <2>2, <3>3 DEF PlacedAt
    <3>6. \A i \in 1 .. conn[v].last : log'[t][i].type # "end"
      BY <2>1, <2>2, <3>3 DEF PlacedAt
    <3>7. conn[v].st = "open" => conn[v].at = conn[v].last
      BY <2>1 DEF PlacedAt
    <3>8. conn'[v] = conn[v] /\ shown'[v] = shown[v] /\ conn[v].st # "closed"
      BY <2>1, <2>2
    <3> QED  BY <2>2, <3>4, <3>5, <3>6, <3>7, <3>8 DEF PlacedAt
  <2>3. CASE conn[v].st \notin {"connecting", "open"}
    BY <2>1, <2>3 DEF PlacedAt
  <2>4. CASE conn[v].st \in {"connecting", "open"} /\ conn[v].task # t
    <3>1. conn[v].task \in Tasks
      BY <2>1, <2>4 DEF PlacedAt
    <3>2. log'[conn[v].task] = log[conn[v].task]
      BY <1>2, <2>4, <3>1 DEF Write, TypeOK
    <3> QED  BY <2>1, <3>2 DEF PlacedAt
  <2> QED  BY <2>2, <2>3, <2>4
<1> QED  BY <1>1, <1>2

\* A step of one viewer leaves the others where they are.
LEMMA PlacedThroughView ==
    ASSUME Placed, NEW v \in Viewers, UNCHANGED log, PlacedAt(v, conn[v])',
           \A w \in Viewers \ {v} : conn'[w] = conn[w] /\ shown'[w] = shown[w]
    PROVE  Placed'
<1> SUFFICES ASSUME NEW w \in Viewers PROVE PlacedAt(w, conn[w])'
  BY DEF Placed
<1>1. CASE w = v
  BY <1>1
<1>2. CASE w # v
  BY <1>2 DEF Placed, PlacedAt
<1> QED  BY <1>1, <1>2

\* A connection that did not hand its page anything: it opens, is lost or is over.
LEMMA QuietViewTyped ==
    ASSUME Typed, Placed, NEW v \in Viewers, Connect(v) \/ ServerFails(v) \/ Lose(v)
    PROVE  /\ Typed' /\ Placed'
           /\ UNCHANGED <<log, shown>> /\ conn'[v].task = conn[v].task
           /\ \A w \in Viewers \ {v} : conn'[w] = conn[w]
<1>0. conn[v] \in Conn /\ PlacedAt(v, conn[v]) /\ faults \in 0 .. MaxFaults
  BY DEF Typed, TypeOK, Placed
<1>1. PICK c \in Conn :
        /\ conn' = [conn EXCEPT ![v] = c]
        /\ c.task = conn[v].task
        /\ \/ c.st = "finished"
           \/ c.st = "connecting" /\ c.last = conn[v].last
           \/ c.st = "open" /\ c.last = conn[v].last /\ c.at = c.last
  <2>1. CASE Connect(v)
    <3> DEFINE c1 == [conn[v] EXCEPT !.st = "open"]
               c == [c1 EXCEPT !.at = conn[v].last]
    <3>1. c \in Conn /\ c.st = "open" /\ c.last = conn[v].last /\ c.at = c.last
          /\ c.task = conn[v].task
      BY <1>0 DEF Conn
    <3>2. conn' = [conn EXCEPT ![v] = c]
      BY <1>0, <2>1 DEF Connect, Conn, Typed, TypeOK
    <3> QED  BY <3>1, <3>2
  <2>2. CASE conn' = [conn EXCEPT ![v] = Over(conn[v].task)]
    <3>1. Over(conn[v].task) \in Conn
      BY <1>0, OverTyped DEF Conn
    <3> QED  BY <2>2, <3>1 DEF Over
  <2>3. CASE Lose(v) /\ conn[v].tries # MaxReconnects
    <3> DEFINE c1 == [conn[v] EXCEPT !.st = "connecting"]
               c2 == [c1 EXCEPT !.tries = conn[v].tries + 1]
               c == [c2 EXCEPT !.at = 0]
    <3>1. conn[v].tries + 1 \in 0 .. MaxReconnects
      BY <1>0, <2>3 DEF Conn
    <3>2. c1 \in Conn /\ c1.task = conn[v].task /\ c1.last = conn[v].last
      BY <1>0 DEF Conn
    <3>3. c2 \in Conn /\ c2.task = conn[v].task /\ c2.last = conn[v].last
      BY <3>1, <3>2 DEF Conn
    <3>4. c \in Conn /\ c.st = "connecting" /\ c.last = conn[v].last
          /\ c.task = conn[v].task
      BY <3>3 DEF Conn
    <3>5. conn' = [conn EXCEPT ![v] =
                      [conn[v] EXCEPT !.st = "connecting", !.tries = conn[v].tries + 1, !.at = 0]]
      BY <2>3 DEF Lose, Typed, TypeOK
    <3>6. [conn[v] EXCEPT !.st = "connecting", !.tries = conn[v].tries + 1, !.at = 0] = c
      BY <1>0 DEF Conn
    <3> QED  BY <3>4, <3>5, <3>6
  <2> QED  BY <2>1, <2>2, <2>3 DEF ServerFails, Lose
<1>2. conn[v].st \in {"connecting", "open"} /\ UNCHANGED <<server, log, shown>>
  BY DEF Connect, ServerFails, Lose
<1>3. faults' \in 0 .. MaxFaults /\ faults' >= faults
  BY <1>0 DEF Connect, ServerFails, Lose, Fault
<1>4. \A t \in Tasks : run'[t].nth <= faults' + 1
  <2> SUFFICES ASSUME NEW t \in Tasks PROVE run'[t].nth <= faults' + 1
    OBVIOUS
  <2>1. run[t].nth <= faults + 1 /\ run[t].nth \in 0 .. MaxFaults + 1
    BY RunsTyped DEF Typed
  <2> QED  BY <1>0, <1>2, <1>3, <2>1
<1>5. conn' \in [Viewers -> Conn]
  BY <1>1 DEF Typed, TypeOK
<1>6. Typed'
  BY <1>2, <1>3, <1>4, <1>5 DEF Typed, TypeOK, IntrPlaced
<1>8. conn'[v].task = conn[v].task /\ \A w \in Viewers \ {v} : conn'[w] = conn[w]
  BY <1>1 DEF Typed, TypeOK
<1>9. PlacedAt(v, conn[v])'
  <2>1. \/ conn'[v].st = "finished"
        \/ conn'[v].st = "connecting" /\ conn'[v].last = conn[v].last
        \/ conn'[v].st = "open" /\ conn'[v].last = conn[v].last /\ conn'[v].at = conn'[v].last
    <3>1. conn'[v] = c
      BY <1>1 DEF Typed, TypeOK
    <3> QED  BY <1>1, <3>1
  <2>2. shown' = shown /\ log' = log /\ conn'[v].task = conn[v].task
    BY <1>2, <1>8
  <2>3. conn[v].task \in Tasks /\ conn[v].last <= Len(log[conn[v].task])
        /\ shown[v] = SubSeq(log[conn[v].task], 1, conn[v].last)
        /\ \A i \in 1 .. conn[v].last : log[conn[v].task][i].type # "end"
    BY <1>0, <1>2 DEF PlacedAt
  <2>4. CASE conn'[v].st = "finished"
    BY <2>2, <2>3, <2>4 DEF PlacedAt
  <2>5. CASE conn'[v].st \in {"connecting", "open"} /\ conn'[v].last = conn[v].last
             /\ (conn'[v].st = "open" => conn'[v].at = conn'[v].last)
    BY <2>2, <2>3, <2>5 DEF PlacedAt
  <2> QED  BY <2>1, <2>4, <2>5
<1>10. Placed'
  BY <1>2, <1>8, <1>9, PlacedThroughView
<1> QED  BY <1>2, <1>6, <1>8, <1>10

LEMMA WatchTyped ==
    ASSUME Typed, Placed, NEW v \in Viewers, NEW t \in Tasks, Watch(v, t)
    PROVE  Typed' /\ Placed' /\ Feed!Open(v, t)
<1>0. conn[v] \in Conn /\ PlacedAt(v, conn[v]) /\ conn[v].st = "closed"
  BY DEF Typed, TypeOK, Placed, Watch
<1> DEFINE c1 == [conn[v] EXCEPT !.st = "connecting"]
           c == [c1 EXCEPT !.task = t]
<1>1. c \in Conn /\ c.st = "connecting" /\ c.task = t /\ c.last = conn[v].last
  BY <1>0 DEF Conn
<1>2. conn' = [conn EXCEPT ![v] = c]
  <2>1. conn' = [conn EXCEPT ![v] = [conn[v] EXCEPT !.st = "connecting", !.task = t]]
    BY DEF Watch, Typed, TypeOK
  <2>2. [conn[v] EXCEPT !.st = "connecting", !.task = t] = c
    BY <1>0 DEF Conn
  <2> QED  BY <2>1, <2>2
<1>3. conn'[v] = c /\ \A w \in Viewers \ {v} : conn'[w] = conn[w]
  BY <1>2 DEF Typed, TypeOK
<1>4. UNCHANGED <<server, log, shown, faults>>
  BY DEF Watch
<1>5. conn' \in [Viewers -> Conn]
  BY <1>1, <1>2 DEF Typed, TypeOK
<1>6. Typed'
  BY <1>4, <1>5 DEF Typed, TypeOK, IntrPlaced
<1>7. conn[v].task = None /\ conn[v].last = 0 /\ shown[v] = <<>>
  BY <1>0 DEF PlacedAt
<1>8. SubSeq(log[t], 1, 0) = <<>> /\ 0 <= Len(log[t])
  <2>1. log[t] \in Seq(Event)
    BY DEF Typed, TypeOK
  <2> QED  BY <2>1, SubSeqEmpty
<1>9. PlacedAt(v, conn[v])'
  BY <1>1, <1>3, <1>4, <1>7, <1>8 DEF PlacedAt
<1>10. Placed'
  BY <1>3, <1>4, <1>9, PlacedThroughView
<1>11. FeedWatch[v] = {} /\ FeedWatch' = [FeedWatch EXCEPT ![v] = {t}]
  <2>1. t # None
    OBVIOUS
  <2>2. FeedWatch[v] = {}
    BY <1>7 DEF FeedWatch
  <2>3. \A w \in Viewers : {conn'[w].task} \ {None} =
            IF w = v THEN {t} ELSE {conn[w].task} \ {None}
    BY <1>1, <1>3, <2>1
  <2> QED  BY <2>2, <2>3 DEF FeedWatch
<1> QED  BY <1>4, <1>6, <1>10, <1>11 DEF Feed!Open, FeedWatch

\* What arrives in one chunk continues what the page has, and nothing before its last
\* event ends the task.
LEMMA ReceiveTyped ==
    ASSUME Typed, Placed, NEW v \in Viewers, Receive(v)
    PROVE  Typed' /\ Placed' /\ \E t \in Tasks : Feed!Show(v, t)
<1> DEFINE t == conn[v].task
           k == conn[v].at
<1>0. conn[v] \in Conn /\ PlacedAt(v, conn[v]) /\ conn[v].st = "open"
  BY DEF Typed, TypeOK, Placed, Receive
<1>1. t \in Tasks /\ k \in Nat /\ k = conn[v].last /\ k <= Len(log[t])
      /\ shown[v] = SubSeq(log[t], 1, k) /\ \A i \in 1 .. k : log[t][i].type # "end"
  BY <1>0, ConnTyped DEF PlacedAt, Typed
<1>2. log[t] \in Seq(Event) /\ Len(log[t]) \in Nat
  BY <1>1 DEF Typed, TypeOK
<1>3. PICK n \in k + 1 .. Len(log[t]) :
        /\ "end" \notin Types(v, n - 1)
        /\ shown' = [shown EXCEPT ![v] = @ \o Chunk(v, n)]
        /\ conn' = [conn EXCEPT ![v] =
               IF Types(v, n) \cap {"end", "error"} # {} THEN Over(@.task)
               ELSE [@ EXCEPT !.at = n, !.last = n]]
  BY DEF Receive
<1>4. UNCHANGED <<server, log, faults>>
  BY DEF Receive
<1>5. n \in Nat /\ n >= 1 /\ n <= Len(log[t]) /\ k <= n
  BY <1>1, <1>2
<1>6. shown'[v] = SubSeq(log[t], 1, n) /\ shown' = [shown EXCEPT ![v] = SubSeq(log[t], 1, n)]
  <2>1. SubSeq(log[t], 1, k) \o SubSeq(log[t], k + 1, n) = SubSeq(log[t], 1, n)
    <3>1. 1 \in 1 .. Len(log[t]) + 1 /\ k \in 1 - 1 .. Len(log[t]) /\ n \in k .. Len(log[t])
      BY <1>1, <1>2, <1>5
    <3> QED  BY <1>2, <3>1, ConcatAdjacentSubSeq
  <2>2. shown[v] \o Chunk(v, n) = SubSeq(log[t], 1, n)
    BY <1>1, <2>1 DEF Chunk
  <2> QED  BY <1>3, <2>2 DEF Typed, TypeOK
<1>7. \A i \in 1 .. n - 1 : log[t][i].type # "end"
  <2> SUFFICES ASSUME NEW i \in 1 .. n - 1 PROVE log[t][i].type # "end"
    OBVIOUS
  <2>1. CASE i <= k
    BY <1>1, <1>5, <2>1
  <2>2. CASE i > k
    <3>1. i \in k + 1 .. n - 1
      BY <1>1, <1>5, <2>2
    <3>2. log[t][i].type \in Types(v, n - 1)
      BY <3>1 DEF Types
    <3> QED  BY <1>3, <3>2
  <2> QED  BY <1>1, <1>5, <2>1, <2>2
<1>8. SubSeq(log[t], 1, n) \in Seq(Event)
  <2>1. \A i \in 1 .. n : log[t][i] \in Event
    BY <1>2, <1>5
  <2> QED  BY <1>5, <2>1, SubSeqProperties
<1>9. /\ conn'[v].task = t
      /\ conn'[v] \in Conn
      /\ \/ conn'[v].st = "finished"
         \/ conn'[v].st = "open" /\ conn'[v].at = n /\ conn'[v].last = n
            /\ "end" \notin Types(v, n)
  <2>1. CASE Types(v, n) \cap {"end", "error"} # {}
    <3>1. conn'[v] = Over(t)
      BY <1>3, <2>1 DEF Typed, TypeOK
    <3> QED  BY <1>1, <3>1, OverTyped DEF Over
  <2>2. CASE Types(v, n) \cap {"end", "error"} = {}
    <3> DEFINE c1 == [conn[v] EXCEPT !.at = n]
               c == [c1 EXCEPT !.last = n]
    <3>1. conn'[v] = [conn[v] EXCEPT !.at = n, !.last = n]
      BY <1>3, <2>2 DEF Typed, TypeOK
    <3>2. conn'[v] = c
      BY <1>0, <3>1 DEF Conn
    <3>3. c \in Conn /\ c.task = t /\ c.st = "open" /\ c.at = n /\ c.last = n
      BY <1>0, <1>5 DEF Conn
    <3> QED  BY <2>2, <3>2, <3>3
  <2> QED  BY <2>1, <2>2
<1>10. conn' = [conn EXCEPT ![v] = conn'[v]]
  BY <1>3 DEF Typed, TypeOK
<1>11. Typed'
  <2>1. conn' \in [Viewers -> Conn] /\ shown' \in [Viewers -> Seq(Event)]
    BY <1>6, <1>8, <1>9, <1>10 DEF Typed, TypeOK
  <2> QED  BY <1>4, <2>1 DEF Typed, TypeOK, IntrPlaced
<1>12. PlacedAt(v, conn[v])'
  <2>1. CASE conn'[v].st = "finished"
    BY <1>1, <1>9, <2>1 DEF PlacedAt
  <2>2. CASE conn'[v].st = "open" /\ conn'[v].at = n /\ conn'[v].last = n
             /\ "end" \notin Types(v, n)
    <3>1. log[t][n].type \in Types(v, n)
      BY <1>1, <1>3, <1>5 DEF Types
    <3>2. \A i \in 1 .. n : log[t][i].type # "end"
      BY <1>5, <1>7, <2>2, <3>1
    <3>3. log' = log
      BY <1>4
    <3> QED  BY <1>1, <1>5, <1>6, <1>9, <2>2, <3>2, <3>3 DEF PlacedAt
  <2> QED  BY <1>9, <2>1, <2>2
<1>13. Placed'
  <2>1. \A w \in Viewers \ {v} : conn'[w] = conn[w] /\ shown'[w] = shown[w]
    BY <1>6, <1>10 DEF Typed, TypeOK
  <2> QED  BY <1>4, <1>12, <2>1, PlacedThroughView
<1>14. Feed!Show(v, t)
  <2>1. t \in FeedWatch[v] /\ FeedWatch' = FeedWatch
    <3>1. \A w \in Viewers : conn'[w].task = conn[w].task
      BY <1>9, <1>10 DEF Typed, TypeOK
    <3> QED  BY <1>1, <3>1 DEF FeedWatch
  <2>2. Len(shown[v]) = k
    <3>1. \A i \in 1 .. k : log[t][i] \in Event
      BY <1>1, <1>2
    <3> QED  BY <1>1, <3>1, SubSeqProperties
  <2>3. \A i \in 1 .. n - 1 : log[t][i] \notin Ends
    BY <1>7 DEF Ends
  <2>4. n \in (Len(shown[v]) + 1) .. Len(log[t])
    BY <1>3, <2>2
  <2> QED  BY <1>4, <1>6, <2>1, <2>3, <2>4 DEF Feed!Show, FeedWatch
<1> QED  BY <1>1, <1>11, <1>13, <1>14

-----------------------------------------------------------------------------
(* The theorems                                                            *)

LEMMA InitTyped == Init => Typed /\ Placed
<1> SUFFICES ASSUME Init PROVE Typed /\ Placed
  OBVIOUS
<1>1. run \in [Tasks -> Run] /\ \A t \in Tasks : run[t].nth = 0
  BY FreshTyped DEF Init, RunPcs, Fresh
<1>2. intr \in Intr /\ IntrPlaced
  BY DEF Init, Intr, IntrPlaced
<1>3. conn \in [Viewers -> Conn] /\ \A v \in Viewers : conn[v] = NoConn
  BY DEF Init, NoConn, Conn
<1>4. log \in [Tasks -> Seq(Event)] /\ shown \in [Viewers -> Seq(Event)]
  BY DEF Init
<1>5. faults \in 0 .. MaxFaults /\ \A t \in Tasks : run[t].nth <= faults + 1
  BY <1>1 DEF Init
<1>6. sub \in [Tasks -> {"new", "owned", "named", "sent"}] /\ active \in Tasks \cup {None}
      /\ stop \in BOOLEAN /\ revoked \subseteq Tasks
  BY DEF Init
<1>7. TypeOK
  BY <1>1, <1>2, <1>3, <1>4, <1>5, <1>6 DEF TypeOK
<1>8. Placed
  BY <1>3 DEF Init, Placed, PlacedAt, NoConn
<1> QED  BY <1>2, <1>7, <1>8 DEF Typed

\* Every step keeps the state typed and every connection in its place, and is a step of
\* the feed or none.
LEMMA StepRefines ==
    Typed /\ Placed /\ [Next]_vars => Typed' /\ Placed' /\ [Feed!Next]_Feed!feed
<1> SUFFICES ASSUME Typed, Placed, [Next]_vars
             PROVE  Typed' /\ Placed' /\ [Feed!Next]_Feed!feed
  OBVIOUS
<1>0. TypeOK
  BY DEF Typed
<1>1. ASSUME Typed', UNCHANGED viewing,
             UNCHANGED log \/ \E t \in Tasks, e \in Event : Write(t, e)
      PROVE  Typed' /\ Placed' /\ [Feed!Next]_Feed!feed
  <2>1. Placed'
    BY <1>0, <1>1, PlacedThroughWrites
  <2>2. FeedWatch' = FeedWatch /\ shown' = shown
    BY <1>1 DEF FeedWatch
  <2>3. [Feed!Next]_Feed!feed
    <3>1. CASE UNCHANGED log
      BY <2>2, <3>1 DEF Feed!feed, FeedWatch
    <3>2. ASSUME NEW t \in Tasks, NEW e \in Event, Write(t, e) PROVE Feed!Next
      BY <2>2, <3>2 DEF Feed!Next, Feed!Record, Write, FeedWatch
    <3> QED  BY <1>1, <3>1, <3>2
  <2> QED  BY <1>1, <2>1, <2>3
<1>2. CASE \E t \in Tasks : SetTaskOwner(t) \/ SetSessionTask(t) \/ ApplyAsync(t)
  BY <1>1, <1>2, SubmissionTyped
<1>3. CASE \E t \in Tasks : \/ Step(t) \/ MonitorReads(t) \/ ProducerFails(t)
                          \/ PlanCancelled(t) \/ Raise(t) \/ StartFails(t) \/ Kill(t) \/ Crash(t)
  <2>1. PICK t \in Tasks : \E r : RunStep(t, r)
    BY <1>0, <1>3, StepTyped
  <2>2. /\ Typed' /\ UNCHANGED viewing
        /\ UNCHANGED log \/ \E e \in Event : Write(t, e)
    BY <2>1, RunKeepsTyped
  <2> QED  BY <1>1, <2>2
<1>4. CASE InterruptSets \/ Interrupt \/ StopLapses
  BY <1>1, <1>4, InterruptTyped
<1>5. CASE \E v \in Viewers, t \in Tasks : Watch(v, t)
  BY <1>5, WatchTyped DEF Feed!Next
<1>6. CASE \E v \in Viewers : Connect(v) \/ ServerFails(v) \/ Lose(v)
  <2>1. PICK v \in Viewers : Connect(v) \/ ServerFails(v) \/ Lose(v)
    BY <1>6
  <2>2. /\ Typed' /\ Placed'
        /\ UNCHANGED <<log, shown>> /\ conn'[v].task = conn[v].task
        /\ \A w \in Viewers \ {v} : conn'[w] = conn[w]
    BY <2>1, QuietViewTyped
  <2>3. FeedWatch' = FeedWatch
    BY <2>2 DEF FeedWatch
  <2> QED  BY <2>2, <2>3 DEF Feed!feed, FeedWatch
<1>7. CASE \E v \in Viewers : Receive(v)
  BY <1>7, ReceiveTyped DEF Feed!Next
<1>8. CASE UNCHANGED vars
  <2>1. Typed'
    BY <1>8 DEF vars, Typed, TypeOK, IntrPlaced
  <2>2. UNCHANGED <<viewing, log>>
    BY <1>8 DEF vars
  <2> QED  BY <1>1, <2>1, <2>2
<1> QED  BY <1>2, <1>3, <1>4, <1>5, <1>6, <1>7, <1>8 DEF Next

\* Every reachable state of the task stream is typed, in particular no run, connection
\* or event escapes the bounds of its kind.
THEOREM TypeCorrect == Spec => []TypeOK
<1>1. Init => Typed /\ Placed
  BY InitTyped
<1>2. Typed /\ Placed /\ [Next]_vars => (Typed /\ Placed)'
  BY StepRefines
<1>3. Typed => TypeOK
  BY DEF Typed
<1> QED  BY <1>1, <1>2, <1>3, PTL DEF Spec

\* The task stream implements the feed: whatever connections break, however often a task
\* runs and an interrupt writes beside it, a page is handed the events of its task in
\* order, none twice, none left out, none after the end.
THEOREM StreamImplementsFeed == Spec => FeedSpec
<1>1. Init => Typed /\ Placed
  BY InitTyped
<1>2. Typed /\ Placed /\ [Next]_vars => (Typed /\ Placed)'
  BY StepRefines
<1>3. Typed /\ Placed /\ [Next]_vars => [Feed!Next]_Feed!feed
  BY StepRefines
<1>4. Init => Feed!Init
  BY DEF Init, Feed!Init, NoConn
<1> QED  BY <1>1, <1>2, <1>3, <1>4, PTL DEF Spec, FeedSpec, Feed!Spec

-----------------------------------------------------------------------------
(* The session's active task                                               *)

\* A task has a run only once it was submitted, and is not named again after that.
Submitted ==
    \A t \in Tasks : /\ sub[t] # "sent" => run[t].pc = "absent"
                     /\ run[t].pc = "done" => active # t

LEMMA PcAfter ==
    ASSUME TypeOK, NEW t \in Tasks, NEW pc
    PROVE  Go(t, pc) \/ Leave(t, pc) \/ Break(t, pc) => run'[t].pc = pc
<1>0. run[t] \in Run
  BY RunsTyped
<1>1. CASE Go(t, pc)
  BY <1>0, <1>1 DEF Go, TypeOK, Run
<1>2. CASE Leave(t, pc)
  BY <1>2 DEF Leave, Fresh, TypeOK
<1>3. CASE Break(t, pc)
  BY <1>3 DEF Break, Fresh, TypeOK
<1> QED  BY <1>1, <1>2, <1>3

LEMMA SubmittedKept == TypeOK /\ Submitted /\ [Next]_vars => Submitted'
<1> SUFFICES ASSUME TypeOK, Submitted, [Next]_vars PROVE Submitted'
  OBVIOUS
<1> USE DEF Submitted
\* A step of a run: it was submitted, stays so, and is done only when it is not named.
<1>1. ASSUME NEW t \in Tasks, run[t].pc # "absent", UNCHANGED sub,
             \A u \in Tasks \ {t} : run'[u].pc = run[u].pc,
             active' \in {active, None}, run'[t].pc = "done" => active' # t
      PROVE  Submitted'
  BY <1>1
<1>2. ASSUME NEW t \in Tasks, Step(t) \/ MonitorReads(t) \/ ProducerFails(t)
                              \/ PlanCancelled(t) \/ Raise(t) \/ StartFails(t) \/ Kill(t) \/ Crash(t)
      PROVE  Submitted'
  <2>1. run[t].pc # "absent"
    BY <1>2 DEF Step, Begin, EnterChat, MonitorTakes, Produce, ProducerStops, Consume,
                Interrupted, LeaveLoop, Cancel, After, Expire, Fail, EndAnyway, ClearLooks,
                ClearDeletes, MonitorReads, ProducerFails, PlanCancelled, Raise, StartFails, Kill, Crash,
                At, Running, RunPcs
  <2>2. PICK r : RunStep(t, r)
    BY <1>2, StepTyped
  <2>3. run'[t] = r /\ \A u \in Tasks \ {t} : run'[u] = run[u]
    BY <2>2 DEF RunStep, TypeOK
  <2>4. active' \in {active, None} /\ UNCHANGED sub
    BY <2>2 DEF RunStep
  <2>5. run'[t].pc = "done" => active' # t
    <3> SUFFICES ASSUME run'[t].pc = "done" PROVE active' # t
      OBVIOUS
    <3>0. run[t] \in Run
      BY RunsTyped
    <3>1. CASE ClearLooks(t)
      <4>1. Go(t, IF active = t THEN "clear!" ELSE "done") /\ active' = active
        BY <3>1 DEF ClearLooks
      <4>2. active # t
        BY <4>1, <3>0, PcAfter
      <4> QED  BY <4>1, <4>2
    <3>2. CASE ClearDeletes(t)
      BY <3>2 DEF ClearDeletes
    <3>3. CASE Begin(t) \/ EnterChat(t)
      <4>1. run'[t].pc \in {"prepare", "chat"}
        BY <3>3, PcAfter DEF Begin, EnterChat
      <4> QED  BY <4>1
    <3>4. CASE MonitorTakes(t) \/ MonitorReads(t) \/ Produce(t) \/ ProducerStops(t)
               \/ ProducerFails(t) \/ Consume(t)
      <4>1. run[t].pc = "chat"
        BY <3>4 DEF MonitorTakes, MonitorReads, Produce, ProducerStops, ProducerFails, Consume, At
      <4>2. run'[t].pc = run[t].pc
        <5>1. CASE MonitorTakes(t)
          BY <3>0, <5>1 DEF MonitorTakes, TypeOK, Run
        <5>2. CASE MonitorReads(t) \/ Produce(t) \/ ProducerStops(t) \/ ProducerFails(t)
          BY <3>0, <5>2 DEF MonitorReads, Produce, ProducerStops, ProducerFails, TypeOK, Run
        <5>3. CASE Consume(t)
          <6>1. ASSUME NEW c,
                       run' = [run EXCEPT ![t].queued = 0, ![t].called = @ \cup {c},
                                          ![t].pending = @ \cup {c}]
                PROVE  run'[t].pc = run[t].pc
            BY <3>0, <6>1 DEF TypeOK, Run
          <6>2. ASSUME NEW c, run' = [run EXCEPT ![t].queued = 0, ![t].pending = @ \ {c}]
                PROVE  run'[t].pc = run[t].pc
            BY <3>0, <6>2 DEF TypeOK, Run
          <6> QED  BY <5>3, <6>1, <6>2 DEF Consume
        <5> QED  BY <3>4, <5>1, <5>2, <5>3
      <4> QED  BY <4>1, <4>2
    <3>5. CASE Interrupted(t) \/ LeaveLoop(t) \/ PlanCancelled(t)
      <4>1. Break(t, "cancel") \/ Break(t, Outcome(t))
        BY <3>5 DEF Interrupted, LeaveLoop, PlanCancelled
      <4>2. run'[t].pc # "done"
        BY <4>1, PcAfter DEF Outcome
      <4> QED  BY <4>2
    <3>6. CASE Cancel(t) \/ After(t) \/ Expire(t) \/ Fail(t) \/ EndAnyway(t) \/ Raise(t)
               \/ StartFails(t) \/ Kill(t)
      <4>1. \/ \E pc \in {"tail", "clear?", "fail", "killed", "aborted"} : Leave(t, pc)
            \/ Leave(t, Outcome(t))
            \/ CloseOne(t) /\ run[t].pc \in {"cancel", "after", "expire"}
        BY <3>6 DEF Cancel, After, Expire, Fail, EndAnyway, Raise, StartFails, Kill, Conclude, At
      <4>2. CASE CloseOne(t) /\ run[t].pc \in {"cancel", "after", "expire"}
        BY <3>0, <4>2 DEF CloseOne, TypeOK, Run
      <4>3. CASE \/ Leave(t, Outcome(t))
                 \/ \E pc \in {"tail", "clear?", "fail", "killed", "aborted"} : Leave(t, pc)
        BY <4>3, PcAfter DEF Outcome
      <4> QED  BY <4>1, <4>2, <4>3
    <3>7. CASE Crash(t)
      BY <3>7 DEF Crash, Fresh, TypeOK
    <3> QED  BY <1>2, <3>1, <3>2, <3>3, <3>4, <3>5, <3>6, <3>7 DEF Step
  <2> QED  BY <1>1, <2>1, <2>3, <2>4, <2>5
<1>3. ASSUME NEW t \in Tasks, SetTaskOwner(t) \/ SetSessionTask(t) PROVE Submitted'
  BY <1>3 DEF SetTaskOwner, SetSessionTask, TypeOK
<1>4. ASSUME NEW t \in Tasks, ApplyAsync(t) PROVE Submitted'
  <2>1. \A u \in Tasks : run'[u] = IF u = t THEN Fresh("queued", 1) ELSE run[u]
    BY <1>4 DEF ApplyAsync, TypeOK
  <2>2. sub' = [sub EXCEPT ![t] = "sent"] /\ active' = active
    BY <1>4 DEF ApplyAsync
  <2> QED  BY <2>1, <2>2 DEF Fresh, TypeOK
<1>5. CASE InterruptSets \/ Interrupt \/ StopLapses
  <2>1. UNCHANGED <<sub, run>> /\ active' \in {active, None}
    BY <1>5 DEF InterruptSets, Interrupt, InterruptNames, InterruptRevokes, InterruptClears,
                InterruptTells, InterruptEnds, StopLapses
  <2> QED  BY <2>1
<1>6. CASE \E v \in Viewers : Connect(v) \/ ServerFails(v) \/ Lose(v) \/ Receive(v)
  BY <1>6 DEF Connect, ServerFails, Lose, Receive
<1>7. CASE \E v \in Viewers, t \in Tasks : Watch(v, t)
  BY <1>7 DEF Watch
<1>8. CASE UNCHANGED vars
  BY <1>8 DEF vars
<1> QED  BY <1>2, <1>3, <1>4, <1>5, <1>6, <1>7, <1>8 DEF Next

\* A task that went through its try and its finally is never the session's active task,
\* however fast it ran and however submissions, interrupts and ends of several tasks are
\* mixed. (Nothing is said of one that stopped before its try: nobody clears its name.)
THEOREM DoneIsNotActive == Spec => []NoStaleActive
<1>1. Init => Typed /\ Placed /\ Submitted
  <2>1. Init => Submitted
    BY DEF Init, Submitted, Fresh
  <2> QED  BY <2>1, InitTyped
<1>2. Typed /\ Placed /\ Submitted /\ [Next]_vars => (Typed /\ Placed /\ Submitted)'
  BY StepRefines, SubmittedKept DEF Typed
<1>3. Submitted => NoStaleActive
  BY DEF Submitted, NoStaleActive
<1> QED  BY <1>1, <1>2, <1>3, PTL DEF Spec

-----------------------------------------------------------------------------
(* Results: a ledger of one task, its stream against the calls left open.  *)

\* Where run n wrote an event of this type.
Said(es, n, type) == {j \in DOMAIN es : es[j].type = type /\ es[j].run = n}

\* What run n wrote as outputs: streamed ones and closings.
Outputs(es, n) == Said(es, n, "result") \cup Said(es, n, "closing")

\* The call at j has an output behind it.
Closed(es, n, j) == \E k \in Outputs(es, n) : k > j /\ es[k].tool = es[j].tool

\* The closing at j is the only output of its tool.
Alone(es, n, j) == \A k \in Outputs(es, n) : es[k].tool = es[j].tool => k = j

\* ResultsPaired of one stream.
PairedEnd(es, i) ==
    es[i].type = "end" /\ es[i].run > 0
        /\ (\A j \in 1 .. i - 1 : ~(es[j].type = "error" /\ es[j].run = es[i].run)) =>
    /\ \A j \in 1 .. i - 1 : es[j].type = "call" /\ es[j].run = es[i].run =>
          \E k \in 1 .. i - 1 :
              /\ es[k].type \in {"result", "closing"} /\ es[k].run = es[i].run
              /\ k > j /\ es[k].tool = es[j].tool
    /\ \A j, k \in 1 .. i - 1 :
          /\ es[j].type = "closing" /\ es[j].run = es[i].run
          /\ es[k].type \in {"result", "closing"} /\ es[k].run = es[i].run
          /\ es[k].tool = es[j].tool
          => k = j

\* Pending calls of run n have no output, those that are not pending have one, and a
\* closing is alone.
Balanced(es, n, pending) ==
    /\ \A m \in Outputs(es, n) : es[m].tool \notin pending
    /\ \A j \in Said(es, n, "call") : es[j].tool \in pending \/ Closed(es, n, j)
    /\ \A j \in Said(es, n, "closing") : Alone(es, n, j)

Untouched == {"absent", "queued", "prepare"}
Counting == {"chat", "cancel", "after", "expire"}

\* Every call and result is of a tool that the run takes for called.
Known(es, n, called) ==
    \A j \in Said(es, n, "call") \cup Outputs(es, n) : es[j].tool \in called

Ledger(es, r) ==
    /\ \A j \in DOMAIN es : es[j].run <= r.nth
    /\ r.pc = "absent" => r.nth = 0
    /\ r.pc \in Untouched => Said(es, r.nth, "call") = {} /\ Outputs(es, r.nth) = {}
    /\ r.pc \in Counting => Balanced(es, r.nth, r.pending)
    /\ r.pc \in Untouched \cup {"chat"} => r.pending \subseteq r.called
    /\ r.pc = "chat" => Known(es, r.nth, r.called) /\ Said(es, r.nth, "closing") = {}
    /\ r.pc = "tail" => Said(es, r.nth, "error") # {}

Ledgers == \A t \in Tasks : Ledger(log[t], run[t])
PairedEnds == \A t \in Tasks : \A i \in DOMAIN log[t] : PairedEnd(log[t], i)

-----------------------------------------------------------------------------
(* One more event.                                                         *)

Grown(es, e, fs) == es \in Seq(Event) /\ e \in Event /\ fs = Append(es, e)

LEMMA GrownFacts ==
    ASSUME NEW es, NEW e, NEW fs, Grown(es, e, fs)
    PROVE  /\ Len(es) \in Nat /\ DOMAIN es = 1 .. Len(es)
           /\ DOMAIN fs = 1 .. Len(es) + 1
           /\ \A j \in 1 .. Len(es) : fs[j] = es[j]
           /\ fs[Len(es) + 1] = e
  BY DEF Grown

\* What an event adds to what its run said, and to nothing else.
LEMMA SaidGrows ==
    ASSUME NEW es, NEW e, NEW fs, Grown(es, e, fs), NEW n, NEW type
    PROVE  /\ e.type = type /\ e.run = n => Said(fs, n, type) = Said(es, n, type) \cup {Len(es) + 1}
           /\ e.type # type \/ e.run # n => Said(fs, n, type) = Said(es, n, type)
  BY GrownFacts DEF Said

\* An event that is neither call nor output leaves the books as they are.
LEMMA BalancedQuietly ==
    ASSUME NEW es, NEW e, NEW fs, Grown(es, e, fs),
           e.type \notin {"call", "result", "closing"}, NEW n
    PROVE  /\ Said(fs, n, "call") = Said(es, n, "call")
           /\ Said(fs, n, "closing") = Said(es, n, "closing")
           /\ Outputs(fs, n) = Outputs(es, n)
           /\ \A pending : Balanced(es, n, pending) => Balanced(fs, n, pending)
           /\ \A called : Known(es, n, called) => Known(fs, n, called)
<1>1. /\ Said(fs, n, "call") = Said(es, n, "call")
      /\ Said(fs, n, "closing") = Said(es, n, "closing")
      /\ Outputs(fs, n) = Outputs(es, n)
  BY SaidGrows DEF Outputs
<1>2. \A j \in Said(es, n, "call") \cup Outputs(es, n) : fs[j] = es[j]
  BY GrownFacts DEF Said, Outputs
<1>3. ASSUME NEW j \in Said(es, n, "call"), Closed(es, n, j) PROVE Closed(fs, n, j)
  BY <1>1, <1>2, <1>3 DEF Closed
<1>4. ASSUME NEW pending, Balanced(es, n, pending) PROVE Balanced(fs, n, pending)
  <2>1. \A m \in Outputs(fs, n) : fs[m].tool \notin pending
    BY <1>1, <1>2, <1>4 DEF Balanced
  <2>2. ASSUME NEW j \in Said(fs, n, "call") PROVE fs[j].tool \in pending \/ Closed(fs, n, j)
    <3>1. j \in Said(es, n, "call") /\ fs[j] = es[j]
      BY <1>1, <1>2
    <3>2. es[j].tool \in pending \/ Closed(es, n, j)
      BY <1>4, <3>1 DEF Balanced
    <3> QED  BY <1>3, <3>1, <3>2
  <2>3. ASSUME NEW j \in Said(fs, n, "closing") PROVE Alone(fs, n, j)
    <3>1. j \in Said(es, n, "closing") /\ j \in Outputs(es, n)
      BY <1>1 DEF Outputs
    <3>2. Alone(es, n, j)
      BY <1>4, <3>1 DEF Balanced
    <3> QED  BY <1>1, <1>2, <3>1, <3>2 DEF Alone
  <2> QED  BY <2>1, <2>2, <2>3 DEF Balanced
<1>5. ASSUME NEW called, Known(es, n, called) PROVE Known(fs, n, called)
  BY <1>1, <1>2, <1>5 DEF Known
<1> QED  BY <1>1, <1>4, <1>5

\* The output of a call closes it: a closing of a pending one, or a streamed output while
\* nothing is closed.
LEMMA BalancedByOutput ==
    ASSUME NEW es, NEW n \in 0 .. MaxFaults + 1, NEW c \in Tools,
           NEW type \in {"result", "closing"}, NEW fs, Grown(es, Of(type, c, n), fs),
           NEW pending, Balanced(es, n, pending),
           type = "closing" => c \in pending,
           type = "result" => Said(es, n, "closing") = {}
    PROVE  Balanced(fs, n, pending \ {c})
<1> DEFINE k == Len(es) + 1
<1>1. /\ Said(fs, n, "call") = Said(es, n, "call")
      /\ Outputs(fs, n) = Outputs(es, n) \cup {k}
      /\ type = "result" => Said(fs, n, "closing") = {}
      /\ type = "closing" => Said(fs, n, "closing") = Said(es, n, "closing") \cup {k}
  <2>1. Of(type, c, n).type = type /\ Of(type, c, n).run = n
    BY DEF Of
  <2>2. Said(fs, n, "call") = Said(es, n, "call")
    BY <2>1, SaidGrows
  <2>3. CASE type = "result"
    BY <2>1, <2>2, <2>3, SaidGrows DEF Outputs
  <2>4. CASE type = "closing"
    BY <2>1, <2>2, <2>4, SaidGrows DEF Outputs
  <2> QED  BY <2>3, <2>4
<1>2. /\ \A j \in Said(es, n, "call") \cup Outputs(es, n) :
             fs[j] = es[j] /\ k > j
      /\ fs[k].tool = c
  BY GrownFacts DEF Said, Of, Outputs
<1> HIDE DEF k
<1>3. ASSUME NEW j \in Said(es, n, "call"), Closed(es, n, j) PROVE Closed(fs, n, j)
  BY <1>1, <1>2, <1>3 DEF Closed
<1>4. ASSUME NEW j \in Said(es, n, "call"), es[j].tool = c PROVE Closed(fs, n, j)
  BY <1>1, <1>2, <1>4 DEF Closed
<1>5. \A m \in Outputs(fs, n) : fs[m].tool \notin pending \ {c}
  BY <1>1, <1>2 DEF Balanced
<1>6. ASSUME NEW j \in Said(fs, n, "call")
      PROVE  fs[j].tool \in pending \ {c} \/ Closed(fs, n, j)
  <2>1. j \in Said(es, n, "call") /\ fs[j] = es[j]
    BY <1>1, <1>2
  <2>2. es[j].tool \in pending \/ Closed(es, n, j)
    BY <2>1 DEF Balanced
  <2> QED  BY <1>3, <1>4, <2>1, <2>2
<1>7. ASSUME NEW j \in Said(fs, n, "closing") PROVE Alone(fs, n, j)
  <2>1. type = "closing" /\ c \in pending
    BY <1>1
  <2>2. \A m \in Outputs(es, n) : es[m].tool # c
    BY <2>1 DEF Balanced
  <2>3. CASE j = k
    BY <1>1, <1>2, <2>2, <2>3 DEF Alone
  <2>4. CASE j \in Said(es, n, "closing")
    <3>1. j \in Outputs(es, n) /\ Alone(es, n, j)
      BY <2>4 DEF Balanced, Outputs
    <3>2. fs[j] = es[j] /\ fs[j].tool # c
      BY <1>2, <2>2, <3>1
    <3>3. ASSUME NEW m \in Outputs(fs, n), fs[m].tool = fs[j].tool PROVE m = j
      <4>1. m # k
        BY <1>2, <3>2, <3>3
      <4>2. m \in Outputs(es, n) /\ fs[m] = es[m]
        BY <1>1, <1>2, <4>1
      <4> QED  BY <3>1, <3>2, <3>3, <4>2 DEF Alone
    <3> QED  BY <3>3 DEF Alone
  <2> QED  BY <1>1, <2>1, <2>3, <2>4
<1> QED  BY <1>5, <1>6, <1>7 DEF Balanced

\* A tool that is called, for the first time or again before its output, is pending.
LEMMA BalancedByCall ==
    ASSUME NEW es, NEW n \in 0 .. MaxFaults + 1, NEW c \in Tools, NEW fs,
           Grown(es, Of("call", c, n), fs), NEW pending, NEW called,
           c \notin called \/ c \in pending, Known(es, n, called), Balanced(es, n, pending)
    PROVE  Balanced(fs, n, pending \cup {c})
<1> DEFINE k == Len(es) + 1
<1>1. /\ Said(fs, n, "call") = Said(es, n, "call") \cup {k}
      /\ Said(fs, n, "closing") = Said(es, n, "closing")
      /\ Outputs(fs, n) = Outputs(es, n)
  BY SaidGrows DEF Of, Outputs
<1>2. /\ \A j \in Said(es, n, "call") \cup Outputs(es, n) : fs[j] = es[j]
      /\ fs[k].tool = c
  BY GrownFacts DEF Said, Of, Outputs
<1> HIDE DEF k
<1>3. ASSUME NEW j \in Said(es, n, "call"), Closed(es, n, j) PROVE Closed(fs, n, j)
  BY <1>1, <1>2, <1>3 DEF Closed
<1>4. \A m \in Outputs(fs, n) : fs[m].tool \notin pending \cup {c}
  BY <1>1, <1>2 DEF Balanced, Known
<1>5. ASSUME NEW j \in Said(fs, n, "call")
      PROVE  fs[j].tool \in pending \cup {c} \/ Closed(fs, n, j)
  <2>1. CASE j = k
    BY <1>2, <2>1
  <2>2. CASE j \in Said(es, n, "call")
    <3>1. es[j].tool \in pending \/ Closed(es, n, j)
      BY <2>2 DEF Balanced
    <3> QED  BY <1>2, <1>3, <2>2, <3>1
  <2> QED  BY <1>1, <2>1, <2>2
<1>6. ASSUME NEW j \in Said(fs, n, "closing") PROVE Alone(fs, n, j)
  <2>1. j \in Outputs(es, n) /\ Alone(es, n, j)
    BY <1>1 DEF Balanced, Outputs
  <2> QED  BY <1>1, <1>2, <2>1 DEF Alone
<1> QED  BY <1>4, <1>5, <1>6 DEF Balanced

\* Ends stay paired behind what is written later.
LEMMA EndsStay ==
    ASSUME NEW es, NEW e, NEW fs, Grown(es, e, fs), NEW i \in DOMAIN es, PairedEnd(es, i)
    PROVE  PairedEnd(fs, i)
<1>1. i \in 1 .. Len(es) /\ \A j \in 1 .. i : fs[j] = es[j]
  BY GrownFacts
<1>2. fs[i] = es[i] /\ \A j \in 1 .. i - 1 : fs[j] = es[j]
  BY <1>1, GrownFacts
<1> QED  BY <1>2 DEF PairedEnd

\* A new event that ends nothing, or an end behind an error or over balanced books.
LEMMA EndsGrow ==
    ASSUME NEW es, NEW e, NEW fs, Grown(es, e, fs),
           \/ e.type # "end" \/ e.run = 0
           \/ Said(es, e.run, "error") # {} \/ Balanced(es, e.run, {})
    PROVE  PairedEnd(fs, Len(es) + 1)
<1> DEFINE k == Len(es) + 1
<1>1. fs[k] = e /\ \A j \in 1 .. k - 1 : fs[j] = es[j] /\ j \in DOMAIN es
  BY GrownFacts
<1>2. CASE e.type # "end" \/ e.run = 0
  BY <1>1, <1>2 DEF PairedEnd
<1>3. CASE Said(es, e.run, "error") # {}
  <2>1. PICK j \in 1 .. k - 1 : fs[j].type = "error" /\ fs[j].run = e.run
    BY <1>1, <1>3, GrownFacts DEF Said
  <2> QED  BY <1>1, <2>1 DEF PairedEnd
<1>4. CASE Balanced(es, e.run, {})
  <2>1. ASSUME NEW j \in 1 .. k - 1, fs[j].type = "call", fs[j].run = e.run
        PROVE  \E i \in 1 .. k - 1 :
                  /\ fs[i].type \in {"result", "closing"} /\ fs[i].run = e.run
                  /\ i > j /\ fs[i].tool = fs[j].tool
    <3>1. j \in Said(es, e.run, "call")
      BY <1>1, <2>1 DEF Said
    <3>2. PICK i \in Outputs(es, e.run) : i > j /\ es[i].tool = es[j].tool
      BY <1>4, <3>1 DEF Balanced, Closed
    <3>3. i \in 1 .. k - 1 /\ fs[i].type \in {"result", "closing"} /\ fs[i].run = e.run
      BY <1>1, <3>2, GrownFacts DEF Said, Outputs
    <3> QED  BY <1>1, <3>2, <3>3
  <2>2. ASSUME NEW j \in 1 .. k - 1, NEW i \in 1 .. k - 1,
               fs[j].type = "closing", fs[j].run = e.run,
               fs[i].type \in {"result", "closing"}, fs[i].run = e.run,
               fs[i].tool = fs[j].tool
        PROVE  i = j
    <3>1. j \in Said(es, e.run, "closing") /\ i \in Outputs(es, e.run)
      BY <1>1, <2>2 DEF Said, Outputs
    <3>2. Alone(es, e.run, j)
      BY <1>4, <3>1 DEF Balanced
    <3> QED  BY <1>1, <2>2, <3>1, <3>2 DEF Alone
  <2> HIDE DEF k
  <2> QED  BY <1>1, <2>1, <2>2 DEF PairedEnd, k
<1> QED  BY <1>2, <1>3, <1>4

-----------------------------------------------------------------------------
(* The ledger of a task through the steps of its run.                      *)

\* Writing what is neither call nor output keeps it.
LEMMA LedgerQuietly ==
    ASSUME NEW es, NEW e, NEW fs, Grown(es, e, fs),
           e.type \notin {"call", "result", "closing"}, NEW r \in Run, e.run <= r.nth, Ledger(es, r)
    PROVE  Ledger(fs, r)
<1>1. \A j \in DOMAIN fs : fs[j].run <= r.nth
  BY GrownFacts DEF Ledger
<1>2. Said(es, r.nth, "error") \subseteq Said(fs, r.nth, "error")
  BY SaidGrows
<1> QED  BY <1>1, <1>2, BalancedQuietly DEF Ledger

\* So does a run that changes neither place, nor delivery, nor calls; one that begins its
\* chat; one that leaves the loop with its calls; one that is through.
LEMMA LedgerMoves ==
    ASSUME NEW es, NEW r \in Run, NEW q \in Run, q.nth = r.nth, Ledger(es, r),
           \/ q.pc = r.pc /\ q.called = r.called /\ q.pending = r.pending
           \/ r.pc = "queued" /\ q.pc = "prepare" /\ q.called = r.called /\ q.pending = r.pending
           \/ r.pc = "prepare" /\ q.pc = "chat" /\ q.called = r.called /\ q.pending = r.pending
           \/ r.pc = "chat" /\ q.pc \in Counting \ {"chat"} /\ q.pending = r.pending
           \/ r.pc \in Counting /\ r.pending = {} /\ q.pc \in {"after", "expire"} /\ q.pending = {}
           \/ q.pc \in {"fail", "clear?", "clear!", "done", "killed", "aborted"}
           \/ q.pc = "tail" /\ Said(es, r.nth, "error") # {}
    PROVE  Ledger(es, q)
<1>1. CASE q.pc = r.pc /\ q.called = r.called /\ q.pending = r.pending
  BY <1>1 DEF Ledger
<1>2. CASE r.pc = "queued" /\ q.pc = "prepare" /\ q.called = r.called /\ q.pending = r.pending
  BY <1>2 DEF Ledger, Untouched, Counting
<1>3. CASE r.pc = "prepare" /\ q.pc = "chat" /\ q.called = r.called /\ q.pending = r.pending
  <2>1. /\ Said(es, q.nth, "call") = {} /\ Outputs(es, q.nth) = {}
        /\ Said(es, q.nth, "closing") = {}
    BY <1>3 DEF Ledger, Untouched, Outputs
  <2>2. Balanced(es, q.nth, q.pending) /\ Known(es, q.nth, q.called)
    BY <2>1 DEF Balanced, Known
  <2> QED  BY <1>3, <2>1, <2>2 DEF Ledger, Untouched, Counting
<1>4. CASE r.pc = "chat" /\ q.pc \in Counting \ {"chat"} /\ q.pending = r.pending
  BY <1>4 DEF Ledger, Untouched, Counting
<1>5. CASE r.pc \in Counting /\ r.pending = {} /\ q.pc \in {"after", "expire"} /\ q.pending = {}
  BY <1>5 DEF Ledger, Untouched, Counting
<1>6. CASE q.pc \in {"fail", "clear?", "clear!", "done", "killed", "aborted"}
  BY <1>6 DEF Ledger, Untouched, Counting
<1>7. CASE q.pc = "tail" /\ Said(es, r.nth, "error") # {}
  BY <1>7 DEF Ledger, Untouched, Counting
<1> QED  BY <1>1, <1>2, <1>3, <1>4, <1>5, <1>6, <1>7

\* A new delivery has written nothing yet.
LEMMA LedgerOpens ==
    ASSUME NEW es \in Seq(Event), NEW n \in Nat, \A j \in DOMAIN es : es[j].run <= n
    PROVE  Ledger(es, Fresh("queued", n + 1))
<1>1. ASSUME NEW j \in DOMAIN es PROVE es[j].run \in Int
  <2>1. es[j] \in Event
    OBVIOUS
  <2> QED  BY <2>1 DEF Event
<1>2. Said(es, n + 1, "call") = {} /\ Outputs(es, n + 1) = {}
  BY <1>1 DEF Said, Outputs
<1>3. \A j \in DOMAIN es : es[j].run <= n + 1
  BY <1>1
<1> DEFINE q == Fresh("queued", n + 1)
<1>5. q.pc = "queued" /\ q.nth = n + 1 /\ q.pending = {} /\ q.called = {}
  BY DEF Fresh
<1> HIDE DEF q
<1>6. Ledger(es, q)
  BY <1>2, <1>3, <1>5 DEF Ledger, Untouched, Counting
<1> QED  BY <1>6 DEF q

\* A pending call is closed, or an announced one has its output streamed.
LEMMA LedgerCloses ==
    ASSUME NEW es, NEW r \in Run, NEW c \in Tools, NEW type \in {"result", "closing"}, NEW fs,
           Grown(es, Of(type, c, r.nth), fs), Ledger(es, r),
           \/ type = "closing" /\ c \in r.pending /\ r.pc \in Counting \ {"chat"}
           \/ type = "result" /\ c \in r.called /\ r.pc = "chat",
           NEW q \in Run, q.pc = r.pc, q.nth = r.nth, q.called = r.called,
           q.pending = r.pending \ {c}
    PROVE  Ledger(fs, q)
<1>1. r.nth \in 0 .. MaxFaults + 1
  BY DEF Run
<1>2. Balanced(fs, q.nth, q.pending)
  <2>1. type = "result" => Said(es, r.nth, "closing") = {}
    BY DEF Ledger
  <2>2. Balanced(es, r.nth, r.pending)
    BY DEF Ledger, Counting
  <2>3. type = "closing" => c \in r.pending
    OBVIOUS
  <2>4. Balanced(fs, r.nth, r.pending \ {c})
    BY <1>1, <2>1, <2>2, <2>3, BalancedByOutput
  <2> QED  BY <2>4
<1>3. \A j \in DOMAIN fs : fs[j].run <= q.nth
  BY <1>1, GrownFacts DEF Ledger, Of
<1>4. ASSUME r.pc = "chat"
      PROVE  Known(fs, q.nth, q.called) /\ Said(fs, q.nth, "closing") = {}
  <2>1. ASSUME NEW j \in Said(fs, q.nth, "call") \cup Outputs(fs, q.nth)
        PROVE  fs[j].tool \in q.called
    <3>1. j \in DOMAIN fs
      BY DEF Said, Outputs
    <3>2. CASE j = Len(es) + 1
      BY <1>4, <3>2, GrownFacts DEF Of
    <3>3. CASE j \in DOMAIN es
      <4>1. fs[j] = es[j]
        BY <3>3, GrownFacts
      <4>2. j \in Said(es, r.nth, "call") \cup Outputs(es, r.nth)
        BY <2>1, <3>3, <4>1 DEF Said, Outputs
      <4> QED  BY <1>4, <4>1, <4>2 DEF Ledger, Known
    <3> QED  BY <3>1, <3>2, <3>3, GrownFacts
  <2>2. Said(fs, q.nth, "closing") = {}
    <3>1. Said(es, r.nth, "closing") = {}
      BY <1>4 DEF Ledger
    <3> QED  BY <1>4, <3>1, SaidGrows DEF Of, Counting
  <2> QED  BY <2>1, <2>2 DEF Known
<1> QED  BY <1>2, <1>3, <1>4 DEF Ledger, Untouched, Counting

\* A tool that was not called is, or a pending one is called again.
LEMMA LedgerCalls ==
    ASSUME NEW es, NEW r \in Run, NEW c \in Tools, c \notin r.called \/ c \in r.pending, NEW fs,
           Grown(es, Of("call", c, r.nth), fs), Ledger(es, r), r.pc = "chat",
           NEW q \in Run, q.pc = "chat", q.nth = r.nth, q.called = r.called \cup {c},
           q.pending = r.pending \cup {c}
    PROVE  Ledger(fs, q)
<1>1. r.nth \in 0 .. MaxFaults + 1
  BY DEF Run
<1>2. Balanced(fs, q.nth, q.pending)
  BY <1>1, BalancedByCall DEF Ledger, Counting
<1>3. \A j \in DOMAIN fs : fs[j].run <= q.nth
  BY <1>1, GrownFacts DEF Ledger, Of
<1>4. Known(fs, q.nth, q.called)
  <2> SUFFICES ASSUME NEW j \in Said(fs, q.nth, "call") \cup Outputs(fs, q.nth)
               PROVE  fs[j].tool \in q.called
    BY DEF Known
  <2>1. CASE j = Len(es) + 1
    BY <2>1, GrownFacts DEF Of
  <2>2. CASE j \in DOMAIN es
    <3>1. fs[j] = es[j]
      BY <2>2, GrownFacts
    <3>2. j \in Said(es, r.nth, "call") \cup Outputs(es, r.nth)
      BY <2>2, <3>1 DEF Said, Outputs
    <3> QED  BY <3>1, <3>2 DEF Ledger, Known
  <2> QED  BY <2>1, <2>2, GrownFacts DEF Said, Outputs
<1>5. q.pending \subseteq q.called
  BY DEF Ledger, Untouched
<1>6. Said(fs, q.nth, "closing") = {}
  <2>1. Said(es, r.nth, "closing") = {}
    BY DEF Ledger
  <2> QED  BY <2>1, SaidGrows DEF Of
<1> QED  BY <1>2, <1>3, <1>4, <1>5, <1>6 DEF Ledger, Untouched, Counting

LEMMA WriteGrows ==
    ASSUME TypeOK, NEW t \in Tasks, NEW e \in Event, Write(t, e)
    PROVE  /\ Grown(log[t], e, log'[t])
           /\ \A u \in Tasks \ {t} : log'[u] = log[u]
  BY DEF TypeOK, Write, Grown

\* What an event may be for the ends of the stream to stay paired.
Fitting(es, e) ==
    \/ e.type # "end" \/ e.run = 0
    \/ Said(es, e.run, "error") # {} \/ Balanced(es, e.run, {})

\* A task's books are kept.
Kept(t) ==
    /\ Ledger(log'[t], run'[t])
    /\ log'[t] = log[t] \/ \E e : Fitting(log[t], e) /\ Grown(log[t], e, log'[t])

LEMMA QuietlyKept ==
    ASSUME TypeOK, TypeOK', NEW t \in Tasks, Ledger(log[t], run[t]), UNCHANGED log,
           run'[t].nth = run[t].nth,
           \/ run'[t].pc = run[t].pc /\ run'[t].called = run[t].called
              /\ run'[t].pending = run[t].pending
           \/ run[t].pc = "prepare" /\ run'[t].pc = "chat" /\ run'[t].called = run[t].called
              /\ run'[t].pending = run[t].pending
           \/ run[t].pc = "chat" /\ run'[t].pc \in Counting \ {"chat"}
              /\ run'[t].pending = run[t].pending
           \/ run'[t].pc \in {"fail", "clear?", "clear!", "done", "killed", "aborted"}
    PROVE  Kept(t)
<1>1. run[t] \in Run /\ run'[t] \in Run
  BY DEF TypeOK
<1>2. Ledger(log[t], run'[t])
  BY <1>1, LedgerMoves
<1> QED  BY <1>2 DEF Kept

\* What Leave and Break make of the run.
LEMMA RunAfter ==
    ASSUME TypeOK, NEW t \in Tasks, NEW pc
    PROVE  /\ Leave(t, pc) => /\ run'[t].pc = pc /\ run'[t].nth = run[t].nth
                              /\ run'[t].called = {} /\ run'[t].pending = {}
           /\ Break(t, pc) => /\ run'[t].pc = pc /\ run'[t].nth = run[t].nth
                              /\ run'[t].pending = run[t].pending
           /\ Go(t, pc) => /\ run'[t].pc = pc /\ run'[t].nth = run[t].nth
                           /\ run'[t].called = run[t].called
                           /\ run'[t].pending = run[t].pending
<1>0. run[t] \in Run
  BY RunsTyped
<1>5. Go(t, pc) => /\ run'[t].pc = pc /\ run'[t].nth = run[t].nth
                  /\ run'[t].called = run[t].called /\ run'[t].pending = run[t].pending
  BY <1>0 DEF Go, TypeOK, Run
<1>6. Leave(t, pc) => /\ run'[t].pc = pc /\ run'[t].nth = run[t].nth
                     /\ run'[t].called = {} /\ run'[t].pending = {}
  BY DEF Leave, Fresh, TypeOK
<1>7. Break(t, pc) => /\ run'[t].pc = pc /\ run'[t].nth = run[t].nth
                     /\ run'[t].pending = run[t].pending
  BY DEF Break, Fresh, TypeOK
<1> QED  BY <1>5, <1>6, <1>7

LEMMA CloseOneKept ==
    ASSUME TypeOK, TypeOK', NEW t \in Tasks, Ledger(log[t], run[t]), 
           run[t].pc \in Counting \ {"chat"}, CloseOne(t)
    PROVE  Kept(t)
<1>0. run[t] \in Run /\ run'[t] \in Run
  BY DEF TypeOK
<1>1. PICK c \in run[t].pending :
        /\ Write(t, Of("closing", c, run[t].nth))
        /\ run' = [run EXCEPT ![t].pending = @ \ {c}]
  BY DEF CloseOne
<1>2. Of("closing", c, run[t].nth) \in Event /\ c \in Tools
  BY <1>0, RunWrites DEF EventTypes, Run
<1>3. Grown(log[t], Of("closing", c, run[t].nth), log'[t])
  BY <1>1, <1>2, WriteGrows
<1>4. /\ run'[t].pc = run[t].pc /\ run'[t].nth = run[t].nth
      /\ run'[t].called = run[t].called /\ run'[t].pending = run[t].pending \ {c}
  BY <1>0, <1>1 DEF TypeOK, Run
<1>5. Ledger(log'[t], run'[t])
  BY <1>0, <1>2, <1>3, <1>4, LedgerCloses
<1>6. Fitting(log[t], Of("closing", c, run[t].nth))
  BY DEF Fitting, Of
<1> QED  BY <1>3, <1>5, <1>6 DEF Kept

\* An event that is no call and no output, and a move of the run.
LEMMA SpokenKept ==
    ASSUME TypeOK, TypeOK', NEW t \in Tasks, Ledger(log[t], run[t]),
           NEW type \in EventTypes \ {"call", "result", "closing"}, Write(t, Plain(type, run[t].nth)),
           run'[t].nth = run[t].nth,
           \/ run[t].pc = "queued" /\ run'[t].pc = "prepare" /\ run'[t].called = run[t].called
              /\ run'[t].pending = run[t].pending
           \/ run[t].pc = "chat" /\ run'[t].pc \in Counting \ {"chat"}
              /\ run'[t].pending = run[t].pending
           \/ run[t].pc \in Counting /\ run[t].pending = {}
              /\ run'[t].pc \in {"after", "expire"} /\ run'[t].pending = {}
           \/ run'[t].pc \in {"fail", "clear?", "clear!", "done", "killed", "aborted"}
           \/ run'[t].pc = "tail" /\ type = "error",
           type = "end" => run[t].pc = "tail" \/ (run[t].pc \in Counting /\ run[t].pending = {})
    PROVE  Kept(t)
<1> DEFINE e == Plain(type, run[t].nth)
<1>0. run[t] \in Run /\ run'[t] \in Run
  BY DEF TypeOK
<1>1. e \in Event /\ e.type = type /\ e.run = run[t].nth /\ e.run <= run[t].nth
  BY <1>0, RunWrites DEF Plain, Run
<1>2. Grown(log[t], e, log'[t])
  BY <1>1, WriteGrows
<1> HIDE DEF e
<1>3. Ledger(log'[t], run[t])
  BY <1>0, <1>1, <1>2, LedgerQuietly
<1>4. ASSUME type = "error" PROVE Said(log'[t], run[t].nth, "error") # {}
  <2>1. e.type = "error" /\ e.run = run[t].nth
    BY <1>1, <1>4
  <2>2. Len(log[t]) + 1 \in Said(log'[t], run[t].nth, "error")
    BY <1>2, <2>1, GrownFacts DEF Said
  <2> QED  BY <2>2
<1>5. Ledger(log'[t], run'[t])
  BY <1>0, <1>3, <1>4, LedgerMoves
<1>6. Fitting(log[t], e)
  BY <1>1 DEF Fitting, Ledger
<1> QED  BY <1>2, <1>5, <1>6 DEF Kept

-----------------------------------------------------------------------------
(* Every step keeps the books.                                             *)

LEMMA ConsumeKept ==
    ASSUME TypeOK, TypeOK', NEW t \in Tasks, Ledger(log[t], run[t]), Consume(t)
    PROVE  Kept(t)
<1>0. run[t] \in Run /\ run'[t] \in Run /\ run[t].pc = "chat"
  BY DEF TypeOK, Consume, At
<1>1. ASSUME NEW c \in (Tools \ run[t].called) \cup run[t].pending, Write(t, Of("call", c, run[t].nth)),
             run' = [run EXCEPT ![t].queued = 0, ![t].called = @ \cup {c},
                                ![t].pending = @ \cup {c}]
      PROVE  Kept(t)
  <2>1. Of("call", c, run[t].nth) \in Event /\ c \in Tools
    BY <1>0, RunWrites DEF EventTypes, Run
  <2>2. Grown(log[t], Of("call", c, run[t].nth), log'[t])
    BY <1>1, <2>1, WriteGrows
  <2>3. /\ run'[t].pc = "chat" /\ run'[t].nth = run[t].nth
        /\ run'[t].called = run[t].called \cup {c}
        /\ run'[t].pending = run[t].pending \cup {c}
    BY <1>0, <1>1 DEF TypeOK, Run
  <2>4. Ledger(log'[t], run'[t])
    BY <1>0, <1>1, <2>1, <2>2, <2>3, LedgerCalls
  <2>5. Fitting(log[t], Of("call", c, run[t].nth))
    BY DEF Fitting, Of
  <2> QED  BY <2>2, <2>4, <2>5 DEF Kept
<1>2. ASSUME NEW c \in run[t].called, Write(t, Of("result", c, run[t].nth)),
             run' = [run EXCEPT ![t].queued = 0, ![t].pending = @ \ {c}]
      PROVE  Kept(t)
  <2>1. Of("result", c, run[t].nth) \in Event /\ c \in Tools
    BY <1>0, RunWrites DEF EventTypes, Run
  <2>2. Grown(log[t], Of("result", c, run[t].nth), log'[t])
    BY <1>2, <2>1, WriteGrows
  <2>3. /\ run'[t].pc = run[t].pc /\ run'[t].nth = run[t].nth
        /\ run'[t].called = run[t].called /\ run'[t].pending = run[t].pending \ {c}
    BY <1>0, <1>2 DEF TypeOK, Run
  <2>4. Ledger(log'[t], run'[t])
    BY <1>0, <1>2, <2>1, <2>2, <2>3, LedgerCloses
  <2>5. Fitting(log[t], Of("result", c, run[t].nth))
    BY DEF Fitting, Of
  <2> QED  BY <2>2, <2>4, <2>5 DEF Kept
<1> QED  BY <1>1, <1>2 DEF Consume

LEMMA OutcomeCounts ==
    \A t \in Tasks : Outcome(t) \in {"after", "expire", "fail"}
  BY DEF Outcome

\* An interrupted turn that failed or ran late takes the way of those with its calls closed.
LEMMA ConcludeKept ==
    ASSUME TypeOK, TypeOK', NEW t \in Tasks, Ledger(log[t], run[t]), run[t].pc \in Counting,
           \/ Conclude(t, "interrupted", Outcome(t))
           \/ Conclude(t, "end", "clear?")
           \/ Conclude(t, "error", "tail")
    PROVE  Kept(t)
<1>1. CASE Conclude(t, "end", "clear?")
  BY <1>1, RunAfter, SpokenKept DEF Conclude, EventTypes
<1>2. CASE Conclude(t, "error", "tail")
  BY <1>2, RunAfter, SpokenKept DEF Conclude, EventTypes
<1>3. CASE Conclude(t, "interrupted", Outcome(t))
  <2>1. /\ run[t].pending = {} /\ Write(t, Plain("interrupted", run[t].nth))
        /\ run'[t].pc = Outcome(t) /\ run'[t].nth = run[t].nth /\ run'[t].pending = {}
    BY <1>3, RunAfter DEF Conclude
  <2>2. "interrupted" \in EventTypes \ {"call", "result", "closing"}
    BY DEF EventTypes
  <2>3. CASE Outcome(t) \in {"after", "fail"}
    BY <2>1, <2>2, <2>3, SpokenKept
  <2>4. CASE Outcome(t) = "expire"
    BY <2>1, <2>2, <2>4, SpokenKept DEF Counting
  <2> QED  BY <2>3, <2>4, OutcomeCounts
<1> QED  BY <1>1, <1>2, <1>3

LEMMA OwnStepKept ==
    ASSUME TypeOK, TypeOK', NEW t \in Tasks, Ledger(log[t], run[t]),
           \/ Step(t) \/ MonitorReads(t) \/ ProducerFails(t) \/ PlanCancelled(t)
           \/ Raise(t) \/ StartFails(t) \/ Kill(t) \/ Crash(t)
    PROVE  Kept(t)
<1>0. run[t] \in Run
  BY RunsTyped
<1>1. CASE Begin(t)
  BY <1>1, RunAfter, SpokenKept DEF Begin, At, EventTypes
<1>2. CASE EnterChat(t)
  BY <1>2, RunAfter, QuietlyKept DEF EnterChat, At
<1>3. CASE MonitorTakes(t) \/ MonitorReads(t) \/ Produce(t) \/ ProducerStops(t) \/ ProducerFails(t)
  <2>1. UNCHANGED log
    BY <1>3 DEF MonitorTakes, MonitorReads, Produce, ProducerStops, ProducerFails
  <2>2. /\ run'[t].nth = run[t].nth /\ run'[t].pc = run[t].pc
        /\ run'[t].called = run[t].called /\ run'[t].pending = run[t].pending
    <3>1. CASE MonitorTakes(t)
      BY <1>0, <3>1 DEF MonitorTakes, TypeOK, Run
    <3>2. CASE MonitorReads(t)
      BY <1>0, <3>2 DEF MonitorReads, TypeOK, Run
    <3>3. CASE Produce(t)
      BY <1>0, <3>3 DEF Produce, TypeOK, Run
    <3>4. CASE ProducerStops(t) \/ ProducerFails(t)
      <4>1. PICK how : run' = [run EXCEPT ![t].producer = how]
        BY <3>4 DEF ProducerStops, ProducerFails
      <4> QED  BY <1>0, <4>1 DEF TypeOK, Run
    <3> QED  BY <1>3, <3>1, <3>2, <3>3, <3>4
  <2> QED  BY <2>1, <2>2, QuietlyKept
<1>4. CASE Consume(t)
  BY <1>4, ConsumeKept
<1>5. CASE Interrupted(t) \/ LeaveLoop(t)
  <2>1. PICK pc \in {"cancel", "after", "expire", "fail"} : Break(t, pc)
    BY <1>5, OutcomeCounts DEF Interrupted, LeaveLoop
  <2>2. run[t].pc = "chat" /\ UNCHANGED log
    BY <1>5 DEF Interrupted, LeaveLoop, At
  <2> QED  BY <2>1, <2>2, RunAfter, QuietlyKept DEF Counting
<1>6. CASE PlanCancelled(t)
  BY <1>6, RunAfter, SpokenKept DEF PlanCancelled, At, Counting, EventTypes
<1>7. CASE Cancel(t) \/ After(t) \/ Expire(t)
  <2>1. run[t].pc \in Counting \ {"chat"}
    BY <1>7 DEF Cancel, After, Expire, At, Counting
  <2> QED  BY <1>7, <2>1, CloseOneKept, ConcludeKept DEF Cancel, After, Expire
<1>8. CASE Fail(t)
  BY <1>8, RunAfter, SpokenKept DEF Fail, At, EventTypes
<1>9. CASE EndAnyway(t)
  BY <1>9, RunAfter, SpokenKept DEF EndAnyway, At, EventTypes
<1>10. CASE ClearLooks(t) \/ ClearDeletes(t)
  <2>1. (Go(t, "clear!") \/ Go(t, "done")) /\ UNCHANGED log
    BY <1>10 DEF ClearLooks, ClearDeletes
  <2> QED  BY <2>1, RunAfter, QuietlyKept
<1>11. CASE Raise(t) \/ StartFails(t) \/ Kill(t)
  <2>1. (Leave(t, "fail") \/ Leave(t, "killed") \/ Leave(t, "aborted")) /\ UNCHANGED log
    BY <1>11 DEF Raise, StartFails, Kill
  <2> QED  BY <2>1, RunAfter, QuietlyKept
<1>12. CASE Crash(t)
  <2> DEFINE q == Fresh("queued", run[t].nth + 1)
  <2>1. run'[t] = [q EXCEPT !.made = run[t].made] /\ UNCHANGED log
    BY <1>12 DEF Crash, TypeOK
  <2>2. run[t].nth \in Nat
    BY <1>0 DEF Run
  <2>3. Ledger(log[t], q)
    BY <2>2, LedgerOpens DEF Ledger, TypeOK
  <2>4. /\ run'[t].pc = q.pc /\ run'[t].nth = q.nth
        /\ run'[t].called = q.called /\ run'[t].pending = q.pending
    BY <2>1 DEF Fresh
  <2>5. Ledger(log[t], run'[t])
    BY <2>3, <2>4 DEF Ledger
  <2> QED  BY <2>1, <2>5 DEF Kept
<1> QED
  BY <1>1, <1>2, <1>3, <1>4, <1>5, <1>6, <1>7, <1>8, <1>9, <1>10, <1>11, <1>12 DEF Step

LEMMA BooksKept ==
    ASSUME Typed, TypeOK', Submitted, Ledgers, PairedEnds, [Next]_vars
    PROVE  Ledgers' /\ PairedEnds'
<1> USE DEF Typed
<1> SUFFICES ASSUME NEW u \in Tasks
             PROVE  Ledger(log'[u], run'[u]) /\ \A i \in DOMAIN log'[u] : PairedEnd(log'[u], i)
  BY DEF Ledgers, PairedEnds
<1>1. Ledger(log[u], run[u])
  BY DEF Ledgers
<1>2. SUFFICES Kept(u)
  <2>1. CASE log'[u] = log[u]
    BY <1>2, <2>1 DEF Kept, PairedEnds
  <2>2. ASSUME NEW e, Fitting(log[u], e), Grown(log[u], e, log'[u])
        PROVE  \A i \in DOMAIN log'[u] : PairedEnd(log'[u], i)
    <3>1. PairedEnd(log'[u], Len(log[u]) + 1)
      BY <2>2, EndsGrow DEF Fitting
    <3>2. \A i \in DOMAIN log[u] : PairedEnd(log'[u], i)
      BY <2>2, EndsStay DEF PairedEnds
    <3> QED  BY <2>2, <3>1, <3>2, GrownFacts
  <2> QED  BY <1>2, <2>1, <2>2 DEF Kept
<1>3. ASSUME log'[u] = log[u], run'[u] = run[u] PROVE Kept(u)
  BY <1>1, <1>3 DEF Kept
<1>4. ASSUME NEW t \in Tasks, \/ Step(t) \/ MonitorReads(t) \/ ProducerFails(t)
                              \/ PlanCancelled(t) \/ Raise(t) \/ StartFails(t) \/ Kill(t) \/ Crash(t)
      PROVE  Kept(u)
  <2>1. CASE u = t
    BY <1>1, <1>4, <2>1, OwnStepKept
  <2>2. CASE u # t
    <3>1. PICK r : RunStep(t, r)
      BY <1>4, StepTyped
    <3>2. run'[u] = run[u] /\ log'[u] = log[u]
      BY <2>2, <3>1 DEF RunStep, TypeOK, Write
    <3> QED  BY <1>3, <3>2
  <2> QED  BY <2>1, <2>2
<1>5. ASSUME NEW t \in Tasks, ApplyAsync(t) PROVE Kept(u)
  <2>1. CASE u = t
    <3>1. run[u].pc = "absent" /\ run[u].nth = 0
      BY <1>1, <1>5, <2>1 DEF ApplyAsync, Submitted, Ledger
    <3>2. run'[u] = Fresh("queued", 0 + 1) /\ UNCHANGED log
      BY <1>5, <2>1 DEF ApplyAsync, TypeOK
    <3>3. log[u] \in Seq(Event) /\ \A j \in DOMAIN log[u] : log[u][j].run <= 0
      BY <1>1, <3>1 DEF Ledger, TypeOK
    <3>4. 0 \in Nat
      OBVIOUS
    <3>5. Ledger(log[u], Fresh("queued", 0 + 1))
      BY <3>3, <3>4, LedgerOpens
    <3>6. run'[u] = Fresh("queued", 0 + 1)
      BY <3>2
    <3>7. Ledger(log'[u], run'[u])
      BY <3>2, <3>5, <3>6
    <3> QED  BY <3>2, <3>7 DEF Kept
  <2>2. CASE u # t
    BY <1>3, <1>5, <2>2 DEF ApplyAsync, TypeOK
  <2> QED  BY <2>1, <2>2
<1>6. CASE InterruptTells \/ InterruptEnds
  <2>1. PICK type \in {"interrupted", "end"} : Write(intr.task, Plain(type, 0)) /\ UNCHANGED run
    BY <1>6 DEF InterruptTells, InterruptEnds
  <2>2. intr.task \in Tasks
    BY <1>6 DEF IntrPlaced, InterruptTells, InterruptEnds, Interrupting, TypeOK, Intr
  <2>3. CASE u = intr.task
    <3> DEFINE e == Plain(type, 0)
    <3>1. e \in Event /\ e.type = type /\ e.run = 0
      <4>1. type \in EventTypes
        BY DEF EventTypes
      <4> QED  BY <4>1, StreamAssumption DEF Plain, Event
    <3>2. Grown(log[u], e, log'[u])
      BY <2>1, <2>3, <3>1, WriteGrows
    <3> HIDE DEF e
    <3>3. run[u] \in Run /\ 0 <= run[u].nth
      <4>1. run[u] \in Run
        BY DEF TypeOK
      <4> QED  BY <4>1 DEF Run
    <3>4. Ledger(log'[u], run[u])
      BY <1>1, <3>1, <3>2, <3>3, LedgerQuietly
    <3>5. run'[u] = run[u]
      BY <2>1
    <3> QED  BY <3>1, <3>2, <3>4, <3>5 DEF Kept, Fitting
  <2>4. CASE u # intr.task
    BY <1>3, <2>1, <2>4 DEF Write, TypeOK
  <2> QED  BY <2>3, <2>4
<1>7. CASE UNCHANGED <<log, run>>
  BY <1>3, <1>7
<1> QED
  BY <1>4, <1>5, <1>6, <1>7
  DEF Next, SetTaskOwner, SetSessionTask, InterruptSets, Interrupt, InterruptNames,
      InterruptRevokes, InterruptClears, StopLapses, Watch, Connect, ServerFails, Receive, Lose,
      vars, server

-----------------------------------------------------------------------------
\* Whenever a run ends its stream without having written an error, every tool call it wrote has
\* an output behind it, and an output made for it at the end contradicts no other, however
\* interrupts, deadlines, lost workers and repeated deliveries fall together.
THEOREM RunsPairTheirResults == Spec => []ResultsPaired
<1> DEFINE Inv == Typed /\ Placed /\ Submitted /\ Ledgers /\ PairedEnds
<1>1. Init => Inv
  <2>1. Init => Submitted
    BY DEF Init, Submitted, Fresh
  <2>2. Init => Ledgers /\ PairedEnds
    BY DEF Init, Ledgers, PairedEnds, Ledger, Fresh, Said, Outputs, Untouched, Counting
  <2> QED  BY <2>1, <2>2, InitTyped
<1>2. Inv /\ [Next]_vars => Inv'
  BY StepRefines, SubmittedKept, BooksKept DEF Typed
<1>3. Inv => ResultsPaired
  BY DEF PairedEnds, PairedEnd, ResultsPaired
<1> QED  BY <1>1, <1>2, <1>3, PTL DEF Spec
=============================================================================
