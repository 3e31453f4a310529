-------------------------- MODULE KunCodeRunProofs --------------------------
(***************************************************************************)
(* Type correctness of KunCodeRun, that a record which says "confirmed" is *)
(* true, and that a run which was cancelled while it ran is not told to    *)
(* its client as a success: for any number of turns, runs, callers and     *)
(* faults.                                                                 *)
(***************************************************************************)
EXTENDS KunCodeRun, TLAPS

-----------------------------------------------------------------------------
(* Typed pieces.                                                           *)

LEMMA Places ==
    /\ \A r \in Runs : TurnOf[r] \in Turns
    /\ \A c \in Callers : About[c] \in Turns
    /\ \A c \in Stoppers : StopOf[c] \in Turns /\ c \in Callers
    /\ \A r \in Runs : r \in Callers /\ Blank(r) \in Record
BY RunsAssumption DEF RunsAssumption, About, Callers, Blank, Record, Results

\* A stream that moves, concludes or ends stays typed.
LEMMA StreamTyped ==
    ASSUME NEW s \in [Runs -> Streams], NEW r \in Runs, NEW pc \in Stages, NEW rec \in Record
    PROVE  /\ [s EXCEPT ![r].pc = pc] \in [Runs -> Streams]
           /\ [s EXCEPT ![r] = [pc |-> pc, rec |-> rec]] \in [Runs -> Streams]
BY DEF Streams

LEMMA GoesTyped ==
    ASSUME TypeOK, NEW r \in Runs, NEW pc \in Stages, Goes(r, pc)
    PROVE  stream' \in [Runs -> Streams]
BY StreamTyped DEF TypeOK, Goes, Streams

LEMMA ConcludesTyped ==
    ASSUME TypeOK, NEW r \in Runs, NEW pc \in Stages, NEW reason \in Results,
           NEW yes \in BOOLEAN, Concludes(r, pc, reason, yes)
    PROVE  stream' \in [Runs -> Streams]
BY DEF TypeOK, Concludes, Streams, Record

LEMMA EndsTyped ==
    ASSUME TypeOK, NEW r \in Runs, Ends(r)
    PROVE  stream' \in [Runs -> Streams]
<1>1. "over" \in Stages
    BY DEF Stages
<1> QED BY <1>1, Places, StreamTyped DEF TypeOK, Ends

\* What _terminate_process_group leaves is typed.
LEMMA TerminateTyped ==
    ASSUME TypeOK, NEW e \in Turns, NEW stuck \in SUBSET Tagged(e), Terminate(e, stuck)
    PROVE  proc' \in [Runs -> Processes] /\ faults' \in 0 .. MaxFaults
<1>1. \A r \in Runs : Killed(proc[r]) \in Processes /\ Resisting(proc[r]) \in Processes
    BY DEF TypeOK, Killed, Resisting, Processes
<1>2. proc' \in [Runs -> Processes]
    BY <1>1 DEF TypeOK, Terminate
<1>3. faults' \in 0 .. MaxFaults
    BY RunsAssumption DEF RunsAssumption, TypeOK, Terminate, Fault
<1> QED BY <1>2, <1>3

LEMMA FaultTyped == TypeOK /\ Fault => faults' \in 0 .. MaxFaults
BY RunsAssumption DEF RunsAssumption, TypeOK, Fault

LEMMA DoneTyped ==
    ASSUME TypeOK, NEW c \in Callers, Done(c)
    PROVE  call' \in [Callers -> Calls]
BY DEF TypeOK, Done, Calls

LEMMA AnswerTyped ==
    ASSUME TypeOK, NEW c \in Callers, NEW yes \in BOOLEAN, Answer(c, yes)
    PROVE  /\ told' \in [Callers -> BOOLEAN \cup {None}]
           /\ turn' \in [Turns -> {"on", "stopping", "off"}]
<1>1. told' \in [Callers -> BOOLEAN \cup {None}]
    BY DEF TypeOK, Answer
<1>2. turn' \in [Turns -> {"on", "stopping", "off"}]
    BY Places DEF TypeOK, Answer
<1> QED BY <1>1, <1>2

LEMMA ReplyTyped ==
    ASSUME TypeOK, NEW c \in Callers, NEW yes \in BOOLEAN, Reply(c, yes)
    PROVE  /\ told' \in [Callers -> BOOLEAN \cup {None}]
           /\ turn' \in [Turns -> {"on", "stopping", "off"}]
           /\ call' \in [Callers -> Calls]
<1>1. CASE yes \/ c \in Runs
    BY <1>1, DoneTyped, AnswerTyped DEF Reply
<1>2. CASE ~(yes \/ c \in Runs)
    BY <1>2 DEF Reply, TypeOK, Calls
<1> QED BY <1>1, <1>2

LEMMA AtRestTyped == ASSUME TypeOK, NEW e \in Turns PROVE AtRest(e) \in BOOLEAN
BY DEF TypeOK, AtRest, Record

-----------------------------------------------------------------------------
(* Type correctness.                                                       *)

\* A caller that terminates has a run.
CallsRuns == \A c \in Callers : call[c].pc = "ending" => call[c].run \in Runs

LEMMA TypeStep == TypeOK /\ CallsRuns /\ [Next]_vars => TypeOK'
<1> SUFFICES ASSUME TypeOK, CallsRuns, [Next]_vars PROVE TypeOK'
    OBVIOUS
<1>1. ASSUME NEW r \in Runs, Fork(r) PROVE TypeOK'
    BY <1>1 DEF TypeOK, Fork, Processes
<1>2. ASSUME NEW r \in Runs, LeaderExits(r) PROVE TypeOK'
    BY <1>2 DEF TypeOK, LeaderExits, Processes
<1>3. ASSUME NEW r \in Runs, KidsExit(r) PROVE TypeOK'
    BY <1>3 DEF TypeOK, KidsExit, Processes
<1>4. ASSUME NEW r \in Runs, Dies(r) PROVE TypeOK'
    BY <1>4 DEF TypeOK, Dies, Processes
<1>5. ASSUME NEW r \in Runs, GiveUp(r) PROVE TypeOK'
    BY <1>5, FaultTyped DEF TypeOK, GiveUp, Outcomes
<1>6. ASSUME NEW e \in Turns, Deadline(e) PROVE TypeOK'
    BY <1>6 DEF TypeOK, Deadline
<1>7. ASSUME NEW e \in Turns, TurnEnds(e) PROVE TypeOK'
    BY <1>7 DEF TypeOK, TurnEnds
<1>8. ASSUME NEW r \in Runs, CreateFails(r) PROVE TypeOK'
    BY <1>8, FaultTyped, ConcludesTyped DEF TypeOK, CreateFails, Stages, Results
<1>9. ASSUME NEW r \in Runs, Spawn(r) PROVE TypeOK'
    BY <1>9, GoesTyped DEF TypeOK, Spawn, Stages, Processes
<1>10. ASSUME NEW r \in Runs, TimesOut(r) PROVE TypeOK'
    BY <1>10, GoesTyped DEF TypeOK, TimesOut, Stages
<1>11. ASSUME NEW r \in Runs, Eof(r) PROVE TypeOK'
    BY <1>11, GoesTyped DEF TypeOK, Eof, Stages
<1>12. ASSUME NEW r \in Runs, Exited(r) PROVE TypeOK'
    BY <1>12, GoesTyped DEF TypeOK, Exited, Stages
<1>13. ASSUME NEW r \in Runs, Register(r) PROVE TypeOK'
    BY <1>13, GoesTyped, Places DEF TypeOK, Register, Stages, Entries
<1>14. ASSUME NEW r \in Runs, Admit(r) PROVE TypeOK'
    BY <1>14, GoesTyped, ConcludesTyped DEF TypeOK, Admit, Stages, Results
<1>15. ASSUME NEW r \in Runs, Closed(r) PROVE TypeOK'
    BY <1>15, GoesTyped, EndsTyped DEF TypeOK, Closed, Stages
<1>16. ASSUME NEW r \in Runs, Tell(r) PROVE TypeOK'
    BY <1>16, EndsTyped, Places DEF TypeOK, Tell, Remembered, Streams, Record, Outcomes
<1>17. ASSUME NEW r \in Runs, Note(r) PROVE TypeOK'
    BY <1>17, EndsTyped, Places DEF TypeOK, Note, Remembered, Streams, Record
<1>18. ASSUME NEW r \in Runs, Call(r) PROVE TypeOK'
    <2>1. stream' \in [Runs -> Streams]
        BY <1>18, GoesTyped DEF Call, Goes, Stages
    <2> QED BY <1>18, <2>1 DEF TypeOK, Call
<1>19. ASSUME NEW r \in Runs, CancelTool(r) PROVE TypeOK'
    <2>1. call' \in [Callers -> Calls]
        BY <1>19, Places DEF TypeOK, CancelTool, Calls
    <2> QED BY <1>19, <2>1 DEF TypeOK, CancelTool
<1>20. ASSUME NEW r \in Runs, Interrupted(r) PROVE TypeOK'
    <2>1. stream' \in [Runs -> Streams]
        BY <1>20, GoesTyped, EndsTyped DEF Interrupted, Stages
    <2>2. proc' \in [Runs -> Processes]
        BY <1>20 DEF TypeOK, Interrupted, Processes
    <2>3. active' \in [Turns -> Entries \cup {None}]
        BY <1>20 DEF TypeOK, Interrupted, Entries
    <2> QED BY <1>20, <2>1, <2>2, <2>3 DEF TypeOK, Interrupted
<1>21. ASSUME NEW r \in Runs, Stopped(r) \/ Swept(r) \/ Abandoned(r) PROVE TypeOK'
    <2>1. Reason(r) \in Results
        BY Places DEF TypeOK, Reason, Results, Record, Entries
    <2>2. PICK stuck \in SUBSET Tagged(TurnOf[r]), pc \in Stages, reason \in Results :
            /\ Terminate(TurnOf[r], stuck)
            /\ Concludes(r, pc, reason, Confirmed(TurnOf[r], stuck))
        <3>1. {"telling", "noting"} \subseteq Stages /\ {"timeout", "cancelled"} \subseteq Results
            BY DEF Stages, Results
        <3> QED BY <1>21, <2>1, <3>1 DEF Stopped, Swept, Abandoned
    <2>3. proc' \in [Runs -> Processes] /\ faults' \in 0 .. MaxFaults
        BY <2>2, TerminateTyped, Places
    <2>4. stream' \in [Runs -> Streams]
        BY <2>2, ConcludesTyped DEF Confirmed
    <2>5. UNCHANGED <<turn, late, tool, open, active, terminal, call, told, marked>>
        BY <1>21 DEF Stopped, Swept, Abandoned
    <2> QED BY <2>3, <2>4, <2>5 DEF TypeOK
<1>22. ASSUME NEW c \in Stoppers, Stop(c) PROVE TypeOK'
    <2>1. CASE c \in Remote \/ turn[StopOf[c]] = "off"
        BY <1>22, <2>1, DoneTyped, AnswerTyped, Places DEF TypeOK, Stop
    <2>2. CASE ~(c \in Remote \/ turn[StopOf[c]] = "off")
        <3>1. call' \in [Callers -> Calls]
            BY <1>22, <2>2, Places DEF TypeOK, Stop, Calls
        <3> QED BY <1>22, <2>2, <3>1 DEF TypeOK, Stop
    <2> QED BY <2>1, <2>2
<1>23. ASSUME NEW c \in Callers, ReachNone(c) PROVE TypeOK'
    BY <1>23, ReplyTyped, AtRestTyped, Places DEF TypeOK, ReachNone
<1>24. ASSUME NEW c \in Callers, Poll(c) PROVE TypeOK'
    <2>1. (active[About[c]] = None /\ AtRest(About[c])) \in BOOLEAN
        BY AtRestTyped, Places
    <2>2. call' \in [Callers -> Calls]
        BY <1>24, DoneTyped DEF Poll
    <2> QED BY <1>24, <2>1, <2>2, AnswerTyped DEF TypeOK, Poll
<1>25. ASSUME NEW c \in Callers, Unanswered(c) PROVE TypeOK'
    BY <1>25, AnswerTyped, DoneTyped, FaultTyped DEF TypeOK, Unanswered
<1>26. ASSUME NEW c \in Callers, Reach(c) PROVE TypeOK'
    <2>1. active[About[c]] \in Entries
        BY <1>26, Places DEF TypeOK, Reach
    <2>2. active' \in [Turns -> Entries \cup {None}]
        BY <1>26, <2>1, Places DEF TypeOK, Reach, Why, Entries
    <2>3. call' \in [Callers -> Calls]
        BY <1>26, <2>1 DEF TypeOK, Reach, Calls, Entries
    <2>4. marked' \subseteq Runs
        BY <1>26, <2>1 DEF TypeOK, Reach, Entries
    <2> QED BY <1>26, <2>2, <2>3, <2>4 DEF TypeOK, Reach
<1>27. ASSUME NEW c \in Callers, Ended(c) PROVE TypeOK'
    <2>1. PICK stuck \in SUBSET Tagged(About[c]) :
            /\ Terminate(About[c], stuck)
            /\ Remembered(About[c], [reason |-> Why(c), confirmed |-> Confirmed(About[c], stuck),
                                     run |-> call[c].run])
            /\ Reply(c, Confirmed(About[c], stuck))
        BY <1>27 DEF Ended
    <2>2. proc' \in [Runs -> Processes] /\ faults' \in 0 .. MaxFaults
        BY <2>1, TerminateTyped, Places
    <2>3. Confirmed(About[c], stuck) \in BOOLEAN
        BY DEF Confirmed
    <2>4. [reason |-> Why(c), confirmed |-> Confirmed(About[c], stuck),
           run |-> call[c].run] \in Record
        BY <1>27, <2>3 DEF CallsRuns, Ended, Record, Results, Why
    <2>5. /\ active' \in [Turns -> Entries \cup {None}]
          /\ terminal' \in [Turns -> Record \cup {None}]
        BY <2>1, <2>4, Places DEF TypeOK, Remembered
    <2>6. UNCHANGED <<late, tool, open, stream, marked>>
        BY <1>27 DEF Ended
    <2> QED BY <2>1, <2>2, <2>3, <2>5, <2>6, ReplyTyped DEF TypeOK
<1>28. CASE UNCHANGED vars
    BY <1>28 DEF TypeOK, vars
<1> QED
    BY <1>1, <1>2, <1>3, <1>4, <1>5, <1>6, <1>7, <1>8, <1>9, <1>10,
       <1>11, <1>12, <1>13, <1>14, <1>15, <1>16, <1>17, <1>18, <1>19, <1>20,
       <1>21, <1>22, <1>23, <1>24, <1>25, <1>26, <1>27, <1>28
    DEF Next, Router, Caller

-----------------------------------------------------------------------------
(* The inductive invariant.                                                *)

Started(r) == stream[r].pc \notin {"none", "posted", "creating"}

Fresh == \A r \in Runs : tool[r] = "none" => stream[r].pc = "none"

\* No process before its run has started one.
Unborn == \A r \in Runs : ~Started(r) => ~Alive(r)

\* What a stream is about to tell is about its own run, and true.
Telling == \A r \in Runs :
    /\ stream[r].rec.run = r
    /\ stream[r].pc \in {"telling", "noting"} /\ stream[r].rec.confirmed => ~Alive(r)

\* Registered runs have started, and under the id of their turn.
Registered == \A e \in Turns :
    active[e] # None => Started(active[e].run) /\ TurnOf[active[e].run] = e

\* So have the runs that callers terminate.
Reached == \A c \in Callers : call[c].pc = "ending" =>
    call[c].run \in Runs /\ Started(call[c].run) /\ TurnOf[call[c].run] = About[c]

\* Records are about runs that have started, and true.
Recorded == \A e \in Turns : terminal[e] # None =>
    Started(terminal[e].run) /\ (terminal[e].confirmed => ~Alive(terminal[e].run))

IInv == TypeOK /\ Fresh /\ Unborn /\ Telling /\ Registered /\ Reached /\ Recorded

LEMMA InvInit == Init => IInv
<1> SUFFICES ASSUME Init PROVE IInv
    OBVIOUS
<1>1. TypeOK
    BY RunsAssumption, Places DEF RunsAssumption, Init, TypeOK, Streams, Processes, Calls, Stages
<1>2. Fresh /\ Unborn /\ Registered /\ Reached /\ Recorded
    BY DEF Init, Fresh, Unborn, Registered, Reached, Recorded, Alive, LeaderRuns
<1>3. Telling
    BY DEF Init, Telling, Blank
<1> QED BY <1>1, <1>2, <1>3 DEF IInv

\* Termination revives nothing; confirmed, it has left nothing of the turn.
LEMMA TerminateKills ==
    ASSUME TypeOK, NEW e \in Turns, NEW stuck \in SUBSET Tagged(e), Terminate(e, stuck)
    PROVE  /\ \A r \in Runs : ~Alive(r) => ~Alive(r)'
           /\ Confirmed(e, stuck) => \A r \in Runs : TurnOf[r] = e => ~Alive(r)'
<1>1. ASSUME NEW r \in Runs, ~Alive(r) PROVE ~Alive(r)'
    <2>1. proc'[r] = proc[r]
        BY <1>1 DEF Terminate, Tagged
    <2> QED BY <1>1, <2>1 DEF Alive, LeaderRuns
<1>2. ASSUME NEW r \in Runs, TurnOf[r] = e, stuck = {} PROVE ~Alive(r)'
    <2>1. CASE Alive(r)
        <3>1. proc'[r] = Killed(proc[r])
            BY <1>2, <2>1 DEF Terminate, Tagged
        <3> QED BY <3>1 DEF Killed, Alive, LeaderRuns
    <2> QED BY <1>1, <2>1
<1> QED BY <1>1, <1>2 DEF Confirmed

\* A step that is no termination, no start of a process and no move of its own revives
\* nothing.
LEMMA NoRevival ==
    ASSUME TypeOK, [Next]_vars, NEW r \in Runs, ~Alive(r), ~Spawn(r)
    PROVE  ~Alive(r)'
<1>1. ASSUME NEW x \in Runs, Fork(x) \/ LeaderExits(x) \/ KidsExit(x) PROVE ~Alive(r)'
    BY <1>1 DEF TypeOK, Processes, Fork, LeaderExits, KidsExit, Alive, LeaderRuns
<1>2. ASSUME NEW x \in Runs, Dies(x) PROVE ~Alive(r)'
    BY <1>2 DEF TypeOK, Processes, Dies, Alive, LeaderRuns
<1>3. ASSUME NEW x \in Runs, Spawn(x) PROVE ~Alive(r)'
    BY <1>3 DEF TypeOK, Spawn, Alive, LeaderRuns
<1>4. ASSUME NEW x \in Runs, Interrupted(x) PROVE ~Alive(r)'
    BY <1>4 DEF TypeOK, Processes, Interrupted, Alive, LeaderRuns
<1>5. ASSUME NEW x \in Runs, Stopped(x) \/ Swept(x) \/ Abandoned(x) PROVE ~Alive(r)'
    BY <1>5, TerminateKills, Places DEF Stopped, Swept, Abandoned
<1>6. ASSUME NEW c \in Callers, Ended(c) PROVE ~Alive(r)'
    BY <1>6, TerminateKills, Places DEF Ended
<1>7. CASE UNCHANGED proc
    BY <1>7 DEF Alive, LeaderRuns
<1> QED
    BY <1>1, <1>2, <1>3, <1>4, <1>5, <1>6, <1>7
    DEF Next, Router, Caller, Call, GiveUp, CancelTool, Deadline, TurnEnds, Admit, CreateFails,
        Register, TimesOut, Eof, Exited, Tell, Note, Closed, Stop, ReachNone, Reach, Poll,
        Unanswered, vars

\* Which steps move a stream, and which change what a turn knows of a tool.
LEMMA NoStreamStep ==
    [Next]_vars =>
        \/ UNCHANGED <<stream, tool>>
        \/ UNCHANGED stream /\ \E r \in Runs : GiveUp(r) \/ CancelTool(r)
        \/ \E r \in Runs : Call(r) \/ Router(r) \/ CreateFails(r) \/ Eof(r)
BY DEF Next, Caller, Fork, LeaderExits, KidsExit, Dies, GiveUp, CancelTool, Deadline, TurnEnds,
       Stop, ReachNone, Reach, Ended, Poll, Unanswered, vars

\* Only run r's own stream moves, and a stream that has started stays so.
LEMMA StreamStep ==
    ASSUME TypeOK, Fresh, [Next]_vars
    PROVE  /\ Fresh'
           /\ \A r \in Runs : Started(r) => Started(r)'
<1>1. ASSUME NEW x \in Runs, Call(x)
      PROVE  Fresh' /\ \A r \in Runs : Started(r) => Started(r)'
    BY <1>1 DEF TypeOK, Streams, Fresh, Call, Started
<1>2. ASSUME NEW x \in Runs, Router(x) \/ CreateFails(x) \/ Eof(x)
      PROVE  Fresh' /\ \A r \in Runs : Started(r) => Started(r)'
    <2>1. /\ \A r \in Runs \ {x} : stream'[r] = stream[r]
          /\ stream[x].pc # "none"
          /\ Started(x) => stream'[x].pc \notin {"none", "posted", "creating"}
          /\ stream'[x].pc # "none"
        BY <1>2 DEF TypeOK, Streams, Router, CreateFails, Eof, Admit, Spawn, Register, TimesOut,
                    Stopped, Exited, Swept, Tell, Interrupted, Closed, Abandoned, Note, At, Goes,
                    Ends, Concludes, Started
    <2>2. tool' = tool \/ Tell(x)
        BY <1>2 DEF Router, CreateFails, Eof, Admit, Spawn, Register, TimesOut, Stopped, Exited,
                    Swept, Interrupted, Closed, Abandoned, Note
    <2>3. \A r \in Runs : tool'[r] = "none" => tool[r] = "none"
        BY <2>2 DEF TypeOK, Tell, Streams, Record, Results
    <2>4. Fresh'
        BY <2>1, <2>3 DEF Fresh
    <2> QED BY <2>1, <2>4 DEF Started
<1>3. ASSUME UNCHANGED stream, NEW x \in Runs, GiveUp(x) \/ CancelTool(x)
      PROVE  Fresh' /\ \A r \in Runs : Started(r) => Started(r)'
    BY <1>3 DEF TypeOK, GiveUp, CancelTool, Fresh, Started
<1>4. CASE UNCHANGED <<stream, tool>>
    BY <1>4 DEF Fresh, Started
<1> QED BY <1>1, <1>2, <1>3, <1>4, NoStreamStep

LEMMA UnbornStep ==
    ASSUME TypeOK, Fresh, Unborn, [Next]_vars
    PROVE  Unborn'
<1> SUFFICES ASSUME NEW r \in Runs, ~Started(r)' PROVE ~Alive(r)'
    BY DEF Unborn
<1>1. ~Started(r) /\ ~Alive(r)
    BY StreamStep DEF Unborn
<1>2. ~Spawn(r)
    BY DEF Spawn, Goes, Started, TypeOK, Streams
<1> QED BY <1>1, <1>2, NoRevival

\* What is dead of a run that has started stays dead.
LEMMA StaysDead ==
    ASSUME TypeOK, [Next]_vars, NEW r \in Runs, Started(r), ~Alive(r)
    PROVE  ~Alive(r)'
BY NoRevival DEF Spawn, At, Started

\* A run that comes to tell a result tells the truth.
LEMMA TellingStep ==
    ASSUME TypeOK, Fresh, Unborn, Telling, [Next]_vars
    PROVE  Telling'
<1> SUFFICES ASSUME NEW r \in Runs
             PROVE  /\ stream'[r].rec.run = r
                    /\ stream'[r].pc \in {"telling", "noting"} /\ stream'[r].rec.confirmed
                         => ~Alive(r)'
    BY DEF Telling
<1>1. CASE stream'[r] = stream[r]
    BY <1>1, StaysDead DEF Telling, Started
<1>2. ASSUME Call(r) \/ Spawn(r) \/ Register(r) \/ TimesOut(r) \/ Exited(r) \/ Eof(r)
             \/ Interrupted(r) \/ Closed(r) \/ Tell(r) \/ Note(r)
      PROVE  stream'[r].pc \notin {"telling", "noting"} /\ stream'[r].rec.run = r
    BY <1>2 DEF TypeOK, Streams, Telling, Call, Spawn, Register, TimesOut, Exited, Eof, Interrupted,
                Closed, Tell, Note, Goes, Ends, Blank
<1>3. CASE Admit(r)
    <2>1. ~Alive(r)'
        BY <1>3, NoRevival DEF Admit, Unborn, Started, At, Spawn
    <2> QED BY <1>3, <2>1 DEF TypeOK, Streams, Telling, Admit, Goes, Concludes
<1>4. CASE CreateFails(r)
    <2>1. ~Alive(r)'
        BY <1>4 DEF CreateFails, Unborn, Started, At, Alive, LeaderRuns
    <2> QED BY <1>4, <2>1 DEF TypeOK, Streams, Telling, CreateFails, Concludes
<1>5. CASE Stopped(r) \/ Swept(r) \/ Abandoned(r)
    <2>1. PICK stuck \in SUBSET Tagged(TurnOf[r]) :
            /\ Terminate(TurnOf[r], stuck)
            /\ \E pc \in Stages, reason \in Results \cup {Reason(r)} :
                 Concludes(r, pc, reason, Confirmed(TurnOf[r], stuck))
        BY <1>5 DEF Stopped, Swept, Abandoned, Stages, Results
    <2>2. Confirmed(TurnOf[r], stuck) => ~Alive(r)'
        BY <2>1, TerminateKills, Places
    <2>3. stream'[r].rec.run = r /\ stream'[r].rec.confirmed = Confirmed(TurnOf[r], stuck)
        BY <2>1 DEF TypeOK, Concludes
    <2> QED BY <2>2, <2>3
<1>6. ASSUME NEW x \in Runs \ {r}, Call(x) \/ Router(x) \/ CreateFails(x) \/ Eof(x)
      PROVE  stream'[r] = stream[r]
    BY <1>6 DEF TypeOK, Call, Router, CreateFails, Eof, Admit, Spawn, Register, TimesOut,
                Stopped, Exited, Swept, Tell, Interrupted, Closed, Abandoned, Note, Goes, Ends,
                Concludes
<1> QED
    BY <1>1, <1>2, <1>3, <1>4, <1>5, <1>6, NoStreamStep DEF Router

\* Entries come from Register alone and are marked or dropped by the others.
LEMMA RegisteredStep ==
    ASSUME TypeOK, TypeOK', Fresh, Registered, [Next]_vars
    PROVE  Registered'
<1> SUFFICES ASSUME NEW e \in Turns, active'[e] # None, NEW r \in Runs, active'[e].run = r
             PROVE  Started(r)' /\ TurnOf[r] = e
    BY DEF Registered, TypeOK, Entries, Started
<1>1. ASSUME active[e] # None, active'[e].run = active[e].run
      PROVE  Started(r)' /\ TurnOf[r] = e
    BY <1>1, StreamStep DEF Registered, TypeOK, Entries
<1>2. ASSUME NEW x \in Runs, Register(x)
      PROVE  Started(r)' /\ TurnOf[r] = e
    <2>1. CASE TurnOf[x] = e
        BY <1>2, <2>1 DEF TypeOK, Streams, Register, Goes, Started
    <2>2. CASE TurnOf[x] # e
        BY <1>1, <1>2, <2>2 DEF TypeOK, Register
    <2> QED BY <2>1, <2>2
<1>3. ASSUME NEW x \in Runs, Interrupted(x)
      PROVE  active[e] # None /\ active'[e].run = active[e].run
    BY <1>3 DEF TypeOK, Entries, Interrupted
<1>4. ASSUME NEW x \in Runs, Tell(x) \/ Note(x)
      PROVE  active[e] # None /\ active'[e].run = active[e].run
    BY <1>4 DEF TypeOK, Tell, Note, Remembered
<1>5. ASSUME NEW c \in Callers, Reach(c)
      PROVE  active[e] # None /\ active'[e].run = active[e].run
    BY <1>5 DEF TypeOK, Entries, Reach
<1>6. ASSUME NEW c \in Callers, Ended(c)
      PROVE  active[e] # None /\ active'[e].run = active[e].run
    BY <1>6 DEF TypeOK, Ended, Remembered
<1>7. CASE UNCHANGED active
    BY <1>1, <1>7
<1> QED
    BY <1>1, <1>2, <1>3, <1>4, <1>5, <1>6, <1>7
    DEF Next, Router, Caller, Fork, LeaderExits, KidsExit, Dies, Call, GiveUp, CancelTool,
        Deadline, TurnEnds, Admit, CreateFails, Spawn, TimesOut, Eof, Exited, Stopped, Swept,
        Closed, Abandoned, Stop, ReachNone, Poll, Unanswered, vars

\* A caller takes its run from the entry it finds.
LEMMA ReachedStep ==
    ASSUME TypeOK, Fresh, Registered, Reached, [Next]_vars
    PROVE  Reached'
<1> SUFFICES ASSUME NEW c \in Callers, call'[c].pc = "ending"
             PROVE  \E r \in Runs : call'[c].run = r /\ Started(r)' /\ TurnOf[r] = About[c]
    BY DEF Reached, Started
<1>1. CASE call'[c] = call[c]
    BY <1>1, StreamStep DEF Reached
<1>2. CASE Reach(c)
    <2>1. active[About[c]] \in Entries /\ call'[c].run = active[About[c]].run
        BY <1>2, Places DEF TypeOK, Reach
    <2>2. PICK r \in Runs : r = active[About[c]].run /\ Started(r) /\ TurnOf[r] = About[c]
        BY <1>2, <2>1, Places DEF Registered, Reach, Entries
    <2> QED BY <2>1, <2>2, StreamStep
<1>3. ASSUME NEW x \in Callers \ {c}, Caller(x) \/ Unanswered(x) PROVE call'[c] = call[c]
    <2>1. call' \in {call, [call EXCEPT ![x] = [pc |-> "over", run |-> None]],
                     [call EXCEPT ![x] = [pc |-> "ending", run |-> active[About[x]].run]],
                     [call EXCEPT ![x].pc = "polling"]}
        BY <1>3 DEF Caller, Reach, ReachNone, Ended, Poll, Unanswered, Reply, Done
    <2> QED BY <1>3, <2>1 DEF TypeOK
<1>4. ASSUME ReachNone(c) \/ Ended(c) \/ Poll(c) PROVE FALSE
    <2>1. call' \in {[call EXCEPT ![c] = [pc |-> "over", run |-> None]],
                     [call EXCEPT ![c].pc = "polling"]}
        BY <1>4 DEF ReachNone, Ended, Poll, Reply, Done
    <2> QED BY <2>1 DEF TypeOK, Calls
<1>5. ASSUME Unanswered(c) PROVE call'[c] = call[c]
    BY <1>5 DEF TypeOK, Calls, Unanswered, Done
<1>6. ASSUME NEW x \in Stoppers, Stop(x) PROVE call'[c] = call[c]
    <2>1. x \in Callers /\ call' \in {[call EXCEPT ![x] = [pc |-> "over", run |-> None]],
                                      [call EXCEPT ![x].pc = "asked"]}
        BY <1>6 DEF Stop, Done, Callers
    <2>2. x # c
        BY <2>1 DEF TypeOK, Calls
    <2> QED BY <2>1, <2>2 DEF TypeOK
<1>7. ASSUME NEW r \in Runs, CancelTool(r) PROVE call'[c] = call[c]
    <2>1. r \in Callers /\ call' = [call EXCEPT ![r].pc = "asked"]
        BY <1>7 DEF CancelTool, Callers
    <2>2. r # c
        BY <2>1 DEF TypeOK, Calls
    <2> QED BY <2>1, <2>2 DEF TypeOK
<1>8. CASE UNCHANGED call
    BY <1>1, <1>8
<1>9. \/ UNCHANGED call
      \/ \E r \in Runs : CancelTool(r)
      \/ \E x \in Stoppers : Stop(x)
      \/ \E x \in Callers : Caller(x) \/ Unanswered(x)
    BY DEF Next, Router, Fork, LeaderExits, KidsExit, Dies, Call, GiveUp, Deadline, TurnEnds,
        Admit, CreateFails, Spawn, Register, TimesOut, Eof, Exited, Stopped, Swept, Tell, Note,
        Interrupted, Closed, Abandoned, vars
<1>10. ASSUME Caller(c) PROVE Reach(c)
    BY <1>4, <1>10 DEF Caller
<1> QED
    BY <1>1, <1>2, <1>3, <1>5, <1>6, <1>7, <1>8, <1>9, <1>10

\* A record is what a stream told, or what a caller saw.
LEMMA RecordedStep ==
    ASSUME IInv, TypeOK', [Next]_vars
    PROVE  Recorded'
<1> USE DEF IInv
<1> SUFFICES ASSUME NEW e \in Turns, terminal'[e] # None, NEW r \in Runs, terminal'[e].run = r
             PROVE  Started(r)' /\ (terminal'[e].confirmed => ~Alive(r)')
    BY DEF Recorded, TypeOK, Record, Started, Alive, LeaderRuns
<1>1. CASE terminal'[e] = terminal[e]
    BY <1>1, StreamStep, StaysDead DEF Recorded
<1>2. ASSUME NEW x \in Runs, Tell(x) \/ Note(x), terminal'[e] # terminal[e]
      PROVE  Started(r)' /\ (terminal'[e].confirmed => ~Alive(r)')
    <2>1. terminal'[e] = stream[x].rec /\ stream[x].pc \in {"telling", "noting"}
        BY <1>2 DEF TypeOK, Tell, Note, Remembered, At
    <2>2. r = x /\ (stream[x].rec.confirmed => ~Alive(r)) /\ Started(r)
        BY <2>1 DEF Telling, Started
    <2> QED BY <2>1, <2>2, StreamStep, StaysDead
<1>3. ASSUME NEW c \in Callers, Ended(c), terminal'[e] # terminal[e]
      PROVE  Started(r)' /\ (terminal'[e].confirmed => ~Alive(r)')
    <2>1. PICK stuck \in SUBSET Tagged(About[c]) :
            /\ Terminate(About[c], stuck)
            /\ Remembered(About[c], [reason |-> Why(c), confirmed |-> Confirmed(About[c], stuck),
                                     run |-> call[c].run])
        BY <1>3 DEF Ended
    <2>2. /\ r = call[c].run
          /\ terminal'[e].confirmed = Confirmed(About[c], stuck)
        BY <1>3, <2>1 DEF TypeOK, Remembered
    <2>3. Started(r) /\ TurnOf[r] = About[c]
        BY <1>3, <2>2 DEF Reached, Ended
    <2>4. Confirmed(About[c], stuck) => ~Alive(r)'
        BY <2>1, <2>3, TerminateKills, Places
    <2> QED BY <2>2, <2>3, <2>4, StreamStep
<1>4. CASE UNCHANGED terminal
    BY <1>1, <1>4
<1> QED
    BY <1>1, <1>2, <1>3, <1>4
    DEF Next, Router, Caller, Fork, LeaderExits, KidsExit, Dies, Call, GiveUp, CancelTool,
        Deadline, TurnEnds, Admit, CreateFails, Spawn, Register, TimesOut, Eof, Exited, Stopped,
        Swept, Interrupted, Closed, Abandoned, Stop, ReachNone, Reach, Poll, Unanswered, vars

LEMMA InvStep == IInv /\ [Next]_vars => IInv'
<1> SUFFICES ASSUME IInv, [Next]_vars PROVE IInv'
    OBVIOUS
<1>1. CallsRuns
    BY DEF IInv, Reached, CallsRuns
<1> QED
    BY <1>1, TypeStep, StreamStep, UnbornStep, TellingStep, RegisteredStep, ReachedStep,
       RecordedStep DEF IInv

-----------------------------------------------------------------------------
(* The theorems.                                                           *)

LEMMA Invariance == Spec => []IInv
BY InvInit, InvStep, PTL DEF Spec

\* Every reachable state is typed, however many turns, runs and callers there are.
THEOREM TypeCorrect == Spec => []TypeOK
<1>1. IInv => TypeOK
    BY DEF IInv
<1> QED BY <1>1, Invariance, PTL

\* A record that says "confirmed" of a run is true of it for ever: neither its leader nor
\* anything it forked is left.
THEOREM ConfirmedHolds == Spec => []ConfirmedIsDead
<1>1. IInv => ConfirmedIsDead
    BY DEF IInv, Recorded, ConfirmedIsDead
<1> QED BY <1>1, Invariance, PTL

-----------------------------------------------------------------------------
(* A run that was cancelled while it ran is not told to its client as a    *)
(* success.                                                                *)

\* The run has come into _active_executions.
Listed(r) == stream[r].pc \notin {"none", "posted", "creating", "spawned"}

\* The connection is the tool call's.
Calling == \A r \in Runs : (open[r] => tool[r] = "running") /\ (tool[r] = "running" => open[r])

\* The turn calls its tools one after the other.
InOrder == \A x \in Runs, r \in Runs :
    TurnOf[x] = TurnOf[r] /\ x < r /\ tool[r] # "none" => tool[x] \in Outcomes

\* Who was told a result was told it by the stream, which ended there.
Finished == \A r \in Runs : tool[r] \in Results => stream[r].pc = "over"

\* A stream ends behind its client's back only when the client is gone.
Parted == \A r \in Runs : stream[r].pc \in {"cancelling", "closing", "noting"} => ~open[r]

\* Only a leader that has exited makes a success.
Succeeded == \A r \in Runs :
    tool[r] = "success" \/ (stream[r].pc = "telling" /\ stream[r].rec.reason = "success")
        => Listed(r) /\ ~LeaderRuns(r)

Enrolled == \A e \in Turns : active[e] # None => Listed(active[e].run)

Marked == \A r \in marked : Listed(r)

\* The client of an earlier run of the same turn has given it up.
Hidden(r) == \E x \in Runs : TurnOf[x] = TurnOf[r] /\ x < r /\ tool[x] = "incomplete"

\* Under the id of turn e a cancel is under way, or its record is kept.
Cancelled(e) ==
    \/ active[e] # None /\ active[e].reason # None
    \/ terminal[e] # None /\ terminal[e].reason \in {"cancelled", "timeout"}

\* A marked run will hear of the cancel at its end, or has heard.
Heard == \A r \in marked : tool[r] = "running" /\ ~Hidden(r) =>
    IF stream[r].pc = "telling" THEN stream[r].rec.reason # "success" ELSE Cancelled(TurnOf[r])

Orderly == Calling /\ InOrder /\ Finished /\ Parted
CInv == IInv /\ Orderly /\ Succeeded /\ Enrolled /\ Marked /\ Heard /\ CancelledNotSuccess

LEMMA CInit == Init => CInv
<1> SUFFICES ASSUME Init PROVE CInv
    OBVIOUS
<1>1. Orderly
    BY DEF Init, Orderly, Calling, InOrder, Finished, Parted, Results
<1>2. Succeeded /\ Enrolled /\ Marked /\ Heard /\ CancelledNotSuccess
    BY DEF Init, Succeeded, Enrolled, Marked, Heard, CancelledNotSuccess
<1> QED BY <1>1, <1>2, InvInit DEF CInv

-----------------------------------------------------------------------------
(* What steps do to one stream.                                            *)

\* A stream is moved by its own steps; once listed, or over, it stays so.
LEMMA StreamsMove ==
    ASSUME TypeOK, Fresh, [Next]_vars, NEW r \in Runs
    PROVE  /\ Listed(r) => Listed(r)'
           /\ stream[r].pc = "over" => stream'[r] = stream[r]
           /\ stream'[r] = stream[r] \/ Call(r) \/ Router(r) \/ CreateFails(r) \/ Eof(r)
<1>1. CASE stream'[r] = stream[r]
    BY <1>1 DEF Listed
<1>2. CASE Call(r)
    BY <1>2 DEF TypeOK, Streams, Fresh, Call, Listed
<1>3. CASE Router(r) \/ CreateFails(r) \/ Eof(r)
    <2>1. stream[r].pc # "over"
        BY <1>3 DEF Router, CreateFails, Eof, Admit, Spawn, Register, TimesOut, Stopped, Exited,
                    Swept, Tell, Interrupted, Closed, Abandoned, Note, At
    <2>2. Listed(r) => Listed(r)'
        BY <1>3 DEF TypeOK, Streams, Router, CreateFails, Eof, Admit, Spawn, Register, TimesOut,
                    Stopped, Exited, Swept, Tell, Interrupted, Closed, Abandoned, Note, At, Goes,
                    Ends, Concludes, Listed
    <2> QED BY <1>3, <2>1, <2>2
<1>4. ASSUME NEW x \in Runs \ {r}, Call(x) \/ Router(x) \/ CreateFails(x) \/ Eof(x)
      PROVE  stream'[r] = stream[r]
    BY <1>4 DEF TypeOK, Call, Router, CreateFails, Eof, Admit, Spawn, Register, TimesOut,
                Stopped, Exited, Swept, Tell, Interrupted, Closed, Abandoned, Note, Goes, Ends,
                Concludes
<1> QED BY <1>1, <1>2, <1>3, <1>4, NoStreamStep

\* Leaders are not revived either.
LEMMA LeaderStays ==
    ASSUME TypeOK, [Next]_vars, NEW r \in Runs, Listed(r), ~LeaderRuns(r)
    PROVE  ~LeaderRuns(r)'
<1>1. ASSUME NEW x \in Runs, Fork(x) \/ LeaderExits(x) \/ KidsExit(x) \/ Dies(x)
      PROVE  ~LeaderRuns(r)'
    BY <1>1 DEF TypeOK, Processes, Fork, LeaderExits, KidsExit, Dies, LeaderRuns
<1>2. ASSUME NEW x \in Runs, Spawn(x) PROVE ~LeaderRuns(r)'
    BY <1>2 DEF TypeOK, Spawn, At, Listed, LeaderRuns
<1>3. ASSUME NEW x \in Runs, Interrupted(x) PROVE ~LeaderRuns(r)'
    BY <1>3 DEF TypeOK, Processes, Interrupted, LeaderRuns
<1>4. ASSUME NEW e \in Turns, NEW stuck \in SUBSET Tagged(e), Terminate(e, stuck)
      PROVE  ~LeaderRuns(r)'
    BY <1>4 DEF Terminate, Killed, Resisting, LeaderRuns
<1>5. ASSUME NEW x \in Runs, Stopped(x) \/ Swept(x) \/ Abandoned(x) PROVE ~LeaderRuns(r)'
    BY <1>4, <1>5, Places DEF Stopped, Swept, Abandoned
<1>6. ASSUME NEW c \in Callers, Ended(c) PROVE ~LeaderRuns(r)'
    BY <1>4, <1>6, Places DEF Ended
<1>7. CASE UNCHANGED proc
    BY <1>7 DEF LeaderRuns
<1> QED
    BY <1>1, <1>2, <1>3, <1>5, <1>6, <1>7
    DEF Next, Router, Caller, Call, GiveUp, CancelTool, Deadline, TurnEnds, Admit, CreateFails,
        Register, TimesOut, Eof, Exited, Tell, Note, Closed, Stop, ReachNone, Reach, Poll,
        Unanswered, vars

\* What a turn knows of a tool, and the tool's connection, change together.
LEMMA ToolStep ==
    [Next]_vars =>
        \/ UNCHANGED <<tool, open>>
        \/ \E r \in Runs : Call(r) \/ GiveUp(r) \/ CancelTool(r) \/ Tell(r)
BY DEF Next, Router, Caller, Fork, LeaderExits, KidsExit, Dies, Deadline, TurnEnds, Admit,
       CreateFails, Spawn, Register, TimesOut, Eof, Exited, Stopped, Swept, Note, Interrupted,
       Closed, Abandoned, Stop, ReachNone, Reach, Ended, Poll, Unanswered, vars

LEMMA CallingStep == TypeOK /\ Calling /\ [Next]_vars => Calling'
<1> SUFFICES ASSUME TypeOK, Calling, [Next]_vars PROVE Calling'
    OBVIOUS
<1>1. ASSUME NEW r \in Runs, Call(r) \/ GiveUp(r) \/ CancelTool(r) PROVE Calling'
    BY <1>1 DEF TypeOK, Calling, Call, GiveUp, CancelTool
<1>2. ASSUME NEW r \in Runs, Tell(r) PROVE Calling'
    BY <1>2 DEF TypeOK, Streams, Record, Results, Calling, Tell
<1>3. CASE UNCHANGED <<tool, open>>
    BY <1>3 DEF Calling
<1> QED BY <1>1, <1>2, <1>3, ToolStep

LEMMA InOrderStep == TypeOK /\ Calling /\ InOrder /\ [Next]_vars => InOrder'
<1> SUFFICES ASSUME TypeOK, Calling, InOrder, [Next]_vars PROVE InOrder'
    OBVIOUS
<1>1. ASSUME NEW r \in Runs, Call(r) PROVE InOrder'
    BY <1>1, RunsAssumption DEF RunsAssumption, TypeOK, Outcomes, Results, InOrder, Call
<1>2. ASSUME NEW r \in Runs, GiveUp(r) \/ CancelTool(r) PROVE InOrder'
    BY <1>2 DEF TypeOK, Outcomes, Results, InOrder, GiveUp, CancelTool
<1>3. ASSUME NEW r \in Runs, Tell(r) PROVE InOrder'
    BY <1>3 DEF TypeOK, Streams, Record, Outcomes, Results, InOrder, Calling, Tell
<1>4. CASE UNCHANGED <<tool, open>>
    BY <1>4 DEF InOrder
<1> QED BY <1>1, <1>2, <1>3, <1>4, ToolStep

LEMMA FinishedStep == TypeOK /\ Fresh /\ Finished /\ [Next]_vars => Finished'
<1> SUFFICES ASSUME TypeOK, Fresh, Finished, [Next]_vars,
                    NEW r \in Runs, tool'[r] \in Results
             PROVE  stream'[r].pc = "over"
    BY DEF Finished
<1>1. CASE tool'[r] = tool[r]
    BY <1>1, StreamsMove DEF Finished
<1>2. ASSUME NEW x \in Runs, Call(x) \/ GiveUp(x) \/ CancelTool(x) PROVE tool'[r] = tool[r]
    BY <1>2 DEF TypeOK, Results, Call, GiveUp, CancelTool
<1>3. ASSUME NEW x \in Runs, Tell(x), tool'[r] # tool[r] PROVE stream'[r].pc = "over"
    BY <1>3 DEF TypeOK, Tell, Ends
<1> QED BY <1>1, <1>2, <1>3, ToolStep

LEMMA PartedStep == TypeOK /\ Fresh /\ Parted /\ [Next]_vars => Parted'
<1> SUFFICES ASSUME TypeOK, Fresh, Parted, [Next]_vars, NEW r \in Runs,
                    stream'[r].pc \in {"cancelling", "closing", "noting"}
             PROVE  ~open'[r]
    BY DEF Parted
<1>1. ~open[r] /\ stream[r].pc # "none"
    <2>1. CASE stream'[r] = stream[r]
        BY <2>1 DEF Parted
    <2>2. CASE Call(r) \/ Router(r) \/ CreateFails(r) \/ Eof(r)
        BY <2>2 DEF TypeOK, Streams, Parted, Call, Router, CreateFails, Eof, Admit, Spawn, Register,
                    TimesOut, Stopped, Exited, Swept, Tell, Interrupted, Closed, Abandoned, Note,
                    At, Goes, Ends, Concludes
    <2> QED BY <2>1, <2>2, StreamsMove
<1>2. ASSUME NEW x \in Runs, Call(x) PROVE ~open'[r]
    BY <1>1, <1>2 DEF TypeOK, Fresh, Call
<1>3. ASSUME NEW x \in Runs, GiveUp(x) \/ CancelTool(x) \/ Tell(x) PROVE ~open'[r]
    BY <1>1, <1>3 DEF TypeOK, GiveUp, CancelTool, Tell
<1> QED BY <1>1, <1>2, <1>3, ToolStep

-----------------------------------------------------------------------------
\* A run with its connection open, of a turn that gave none up, is alone under its id.
LEMMA Alone ==
    ASSUME TypeOK, Fresh, Orderly, NEW r \in Runs, tool[r] = "running", ~Hidden(r),
           NEW x \in Runs \ {r}, TurnOf[x] = TurnOf[r]
    PROVE  stream[x].pc \in {"none", "over"}
<1>1. x < r \/ r < x
    BY RunsAssumption DEF RunsAssumption
<1>2. CASE x < r
    <2>1. tool[x] \in Results
        BY <1>2 DEF Orderly, InOrder, Outcomes, Hidden
    <2> QED BY <2>1 DEF Orderly, Finished
<1>3. CASE r < x
    <2>1. tool[x] = "none"
        BY <1>3 DEF Outcomes, Results, Orderly, InOrder
    <2> QED BY <2>1 DEF Fresh
<1> QED BY <1>1, <1>2, <1>3

LEMMA SucceededStep == TypeOK /\ Fresh /\ Succeeded /\ [Next]_vars => Succeeded'
<1> SUFFICES ASSUME TypeOK, Fresh, Succeeded, [Next]_vars, NEW r \in Runs,
                    \/ tool'[r] = "success"
                    \/ stream'[r].pc = "telling" /\ stream'[r].rec.reason = "success"
             PROVE  Listed(r)' /\ ~LeaderRuns(r)'
    BY DEF Succeeded, Listed, LeaderRuns
<1>1. SUFFICES Listed(r) /\ ~LeaderRuns(r)
    BY <1>1, StreamsMove, LeaderStays
<1>2. CASE tool'[r] = "success"
    <2>1. CASE tool[r] = "success"
        BY <2>1 DEF Succeeded
    <2>2. ASSUME NEW x \in Runs, Tell(x), tool[r] # "success" PROVE Listed(r) /\ ~LeaderRuns(r)
        BY <1>2, <2>2 DEF TypeOK, Tell, At, Succeeded
    <2>3. ASSUME NEW x \in Runs, Call(x) \/ GiveUp(x) \/ CancelTool(x) PROVE tool[r] = "success"
        BY <1>2, <2>3 DEF TypeOK, Call, GiveUp, CancelTool
    <2> QED BY <1>2, <2>1, <2>2, <2>3, ToolStep
<1>3. CASE stream'[r].pc = "telling" /\ stream'[r].rec.reason = "success"
    <2>1. CASE stream'[r] = stream[r]
        BY <1>3, <2>1 DEF Succeeded
    <2>2. CASE Swept(r)
        <3>1. Reason(r) = "success"
            BY <1>3, <2>2 DEF TypeOK, Swept, Concludes
        <3>2. proc[r].leader = "zero"
            BY <3>1, Places DEF TypeOK, Entries, Reason
        <3> QED BY <2>2, <3>2 DEF Swept, At, Listed, LeaderRuns
    <2>3. ASSUME Call(r) \/ CreateFails(r) \/ Eof(r) \/ (Router(r) /\ ~Swept(r))
          PROVE  FALSE
        BY <1>3, <2>3 DEF TypeOK, Streams, Call, Router, CreateFails, Eof, Admit, Spawn, Register,
                    TimesOut, Stopped, Exited, Tell, Interrupted, Closed, Abandoned, Note, Goes,
                    Ends, Concludes, Blank
    <2> QED BY <2>1, <2>2, <2>3, StreamsMove
<1> QED BY <1>2, <1>3

\* Which steps write the records that decide a reason.
LEMMA RecordStep ==
    [Next]_vars =>
        \/ UNCHANGED <<active, terminal>>
        \/ \E x \in Runs : Register(x) \/ Interrupted(x) \/ Tell(x) \/ Note(x)
        \/ \E c \in Callers : Reach(c) \/ Ended(c)
BY DEF Next, Router, Caller, Fork, LeaderExits, KidsExit, Dies, Call, GiveUp, CancelTool,
       Deadline, TurnEnds, Admit, CreateFails, Spawn, TimesOut, Eof, Exited, Stopped, Swept,
       Closed, Abandoned, Stop, ReachNone, Poll, Unanswered, vars

LEMMA EnrolledStep == TypeOK /\ TypeOK' /\ Fresh /\ Enrolled /\ [Next]_vars => Enrolled'
<1> SUFFICES ASSUME TypeOK, TypeOK', Fresh, Enrolled, [Next]_vars,
                    NEW e \in Turns, active'[e] # None, NEW r \in Runs, active'[e].run = r
             PROVE  Listed(r)'
    BY DEF Enrolled, TypeOK, Entries, Listed
<1>1. ASSUME active[e] # None, active[e].run = r PROVE Listed(r)'
    BY <1>1, StreamsMove DEF Enrolled
<1>2. ASSUME NEW x \in Runs, Register(x) PROVE Listed(r)'
    <2>1. CASE TurnOf[x] = e
        BY <1>2, <2>1 DEF TypeOK, Streams, Register, Goes, Listed
    <2>2. CASE TurnOf[x] # e
        BY <1>1, <1>2, <2>2 DEF TypeOK, Register
    <2> QED BY <2>1, <2>2
<1>3. ASSUME NEW x \in Runs, Interrupted(x) \/ Tell(x) \/ Note(x)
      PROVE  active[e] # None /\ active[e].run = r
    BY <1>3 DEF TypeOK, Entries, Interrupted, Tell, Note, Remembered
<1>4. ASSUME NEW c \in Callers, Reach(c) \/ Ended(c)
      PROVE  active[e] # None /\ active[e].run = r
    <2>1. CASE Reach(c)
        <3>1. active[About[c]] \in Entries /\ active[About[c]] # None
            BY <2>1, Places DEF TypeOK, Reach
        <3>2. active' = [active EXCEPT ![About[c]].reason = Why(c)]
            BY <2>1 DEF Reach
        <3> QED BY <3>1, <3>2 DEF TypeOK, Entries
    <2>2. CASE Ended(c)
        BY <2>2 DEF TypeOK, Ended, Remembered
    <2> QED BY <1>4, <2>1, <2>2
<1>5. CASE UNCHANGED active
    BY <1>1, <1>5
<1> QED BY <1>1, <1>2, <1>3, <1>4, <1>5, RecordStep

\* A caller that marks a run finds it registered, with its leader running.
LEMMA MarkStep ==
    ASSUME TypeOK, [Next]_vars, NEW r \in marked', r \notin marked
    PROVE  \E c \in Callers : Reach(c) /\ active[About[c]].run = r /\ LeaderRuns(r)
<1>1. PICK c \in Callers : Reach(c)
    BY DEF Next, Router, Caller, Fork, LeaderExits, KidsExit, Dies, Call, GiveUp, CancelTool,
           Deadline, TurnEnds, Admit, CreateFails, Spawn, Register, TimesOut, Eof, Exited, Stopped,
           Swept, Tell, Note, Interrupted, Closed, Abandoned, Stop, ReachNone, Ended, Poll,
           Unanswered, vars
<1> QED BY <1>1 DEF Reach

LEMMA MarkedStep == TypeOK /\ Fresh /\ Enrolled /\ Marked /\ [Next]_vars => Marked'
<1> SUFFICES ASSUME TypeOK, Fresh, Enrolled, Marked, [Next]_vars, NEW r \in marked'
             PROVE  Listed(r)'
    BY DEF Marked, Listed
<1>1. r \in Runs /\ Listed(r)
    <2>1. CASE r \in marked
        BY <2>1 DEF TypeOK, Marked
    <2>2. CASE r \notin marked
        <3>1. PICK c \in Callers : Reach(c) /\ active[About[c]].run = r
            BY <2>2, MarkStep
        <3> QED BY <3>1, Places DEF TypeOK, Entries, Reach, Enrolled
    <2> QED BY <2>1, <2>2
<1> QED BY <1>1, StreamsMove

\* What has been given up stays so.
LEMMA HiddenStays ==
    ASSUME TypeOK, Calling, [Next]_vars, NEW r \in Runs, Hidden(r)
    PROVE  Hidden(r)'
<1>1. PICK x \in Runs : TurnOf[x] = TurnOf[r] /\ x < r /\ tool[x] = "incomplete"
    BY DEF Hidden
<1>2. ASSUME NEW y \in Runs, Call(y) \/ GiveUp(y) \/ CancelTool(y) \/ Tell(y)
      PROVE  tool'[x] = "incomplete"
    BY <1>1, <1>2 DEF TypeOK, Calling, Call, GiveUp, CancelTool, Tell
<1>3. tool'[x] = "incomplete"
    BY <1>1, <1>2, ToolStep
<1> QED BY <1>1, <1>3 DEF Hidden

-----------------------------------------------------------------------------
\* While no other stream of the turn is under way, a cancel is not lost sight of.
LEMMA CancelledStays ==
    ASSUME TypeOK, Reached, Orderly, NEW r \in Runs, tool[r] = "running", Listed(r), Cancelled(TurnOf[r]),
           \A x \in Runs \ {r} : TurnOf[x] = TurnOf[r] => stream[x].pc \in {"none", "over"},
           [Next]_vars, ~Tell(r)
    PROVE  Cancelled(TurnOf[r])'
<1> DEFINE e == TurnOf[r]
<1>0. e \in Turns
    BY Places
<1>1. ASSUME NEW x \in Runs, Register(x) \/ Interrupted(x) \/ Tell(x) \/ Note(x)
      PROVE  active'[e] = active[e] /\ terminal'[e] = terminal[e]
    <2>1. CASE TurnOf[x] = e
        <3>1. x = r
            BY <1>1, <2>1 DEF Register, Interrupted, Tell, Note, At
        <3>2. open[r] /\ stream[r].pc \notin {"spawned", "noting"}
            BY DEF Orderly, Calling, Parted, Listed
        <3> QED BY <1>1, <3>1, <3>2 DEF Register, Interrupted, Note, At
    <2>2. CASE TurnOf[x] # e
        BY <1>0, <1>1, <2>2 DEF TypeOK, Register, Interrupted, Tell, Note, Remembered
    <2> QED BY <2>1, <2>2
<1>2. ASSUME NEW c \in Callers, Reach(c) PROVE Cancelled(e)'
    <2>1. CASE About[c] = e
        <3>1. active'[e] = [active[e] EXCEPT !.reason = Why(c)] /\ active[e] \in Entries
            BY <1>0, <1>2, <2>1 DEF TypeOK, Reach
        <3>2. active'[e].reason = Why(c) /\ Why(c) # None
            BY <3>1, RunsAssumption DEF RunsAssumption, Entries, Why
        <3>3. active'[e] # None
            BY <3>1, <3>2, EntriesAssumption, RunsAssumption DEF Entries, Why
        <3> QED BY <3>2, <3>3 DEF Cancelled
    <2>2. CASE About[c] # e
        BY <1>0, <1>2, <2>2 DEF TypeOK, Reach, Cancelled
    <2> QED BY <2>1, <2>2
<1>3. ASSUME NEW c \in Callers, Ended(c) PROVE Cancelled(e)'
    <2>1. PICK yes \in BOOLEAN : Remembered(About[c],
              [reason |-> Why(c), confirmed |-> yes, run |-> call[c].run])
        BY <1>3 DEF Ended, Confirmed
    <2>2. CASE About[c] = e
        <3>1. terminal'[e] = [reason |-> Why(c), confirmed |-> yes, run |-> call[c].run]
            BY <1>0, <2>1, <2>2 DEF TypeOK, Remembered
        <3>2. terminal'[e] \in Record
            BY <1>3, <3>1 DEF Reached, Ended, Record, Results, Why
        <3> QED BY <3>1, <3>2, EntriesAssumption DEF Why, Cancelled
    <2> QED BY <1>0, <2>1, <2>2 DEF TypeOK, Remembered, Cancelled
<1>4. CASE UNCHANGED <<active, terminal>>
    BY <1>4 DEF Cancelled
<1>5. CASE active'[e] = active[e] /\ terminal'[e] = terminal[e]
    BY <1>5 DEF Cancelled
<1> QED BY <1>1, <1>2, <1>3, <1>4, <1>5, RecordStep

LEMMA HeardStep ==
    ASSUME CInv, [Next]_vars
    PROVE  Heard'
<1> USE DEF CInv, IInv
<1> SUFFICES ASSUME NEW r \in Runs, r \in marked', tool'[r] = "running", ~Hidden(r)'
             PROVE  IF stream'[r].pc = "telling" THEN stream'[r].rec.reason # "success"
                                                 ELSE Cancelled(TurnOf[r])'
    <2>1. TypeOK'
        BY InvStep
    <2> QED BY <2>1 DEF Heard, TypeOK, Cancelled, Hidden
<1>1. Listed(r)
    <2>1. CASE r \in marked
        BY <2>1 DEF Marked
    <2>2. CASE r \notin marked
        <3>1. PICK c \in Callers : Reach(c) /\ active[About[c]].run = r
            BY <2>2, MarkStep
        <3> QED BY <3>1, Places DEF Reach, Enrolled
    <2> QED BY <2>1, <2>2
<1>2. tool[r] = "running"
    <2>1. tool[r] # "none"
        BY <1>1 DEF Fresh, Listed
    <2>2. ASSUME NEW x \in Runs, Call(x) \/ GiveUp(x) \/ CancelTool(x) PROVE tool[r] = "running"
        BY <2>1, <2>2 DEF TypeOK, Call, GiveUp, CancelTool
    <2>3. ASSUME NEW x \in Runs, Tell(x) PROVE tool[r] = "running"
        BY <2>3 DEF TypeOK, Streams, Record, Results, Tell
    <2> QED BY <2>2, <2>3, ToolStep
<1>3. ~Hidden(r)
    BY HiddenStays DEF Orderly
<1>4. ASSUME Tell(r) PROVE FALSE
    <2>1. tool'[r] = stream[r].rec.reason /\ stream[r].rec.reason \in Results
        BY <1>4 DEF TypeOK, Streams, Record, Tell
    <2> QED BY <2>1 DEF Results
<1>5. CASE r \notin marked
    <2>1. PICK c \in Callers : Reach(c) /\ active[About[c]].run = r /\ LeaderRuns(r)
        BY <1>5, MarkStep
    <2>2. /\ About[c] \in Turns
          /\ active[About[c]] \in Entries /\ active[About[c]] # None
          /\ TurnOf[r] = About[c]
        BY <2>1, Places DEF TypeOK, Reach, Registered
    <2>3. active'[TurnOf[r]] = [active[TurnOf[r]] EXCEPT !.reason = Why(c)]
        BY <2>1, <2>2 DEF TypeOK, Reach
    <2>4. active'[TurnOf[r]].reason = Why(c) /\ Why(c) # None
        BY <2>2, <2>3, RunsAssumption DEF RunsAssumption, Entries, Why
    <2>5. active'[TurnOf[r]] # None
        BY <2>2, <2>3, EntriesAssumption DEF Entries, Why
    <2>6. Cancelled(TurnOf[r])'
        BY <2>4, <2>5 DEF Cancelled
    <2>7. ~(stream[r].pc = "telling" /\ stream[r].rec.reason = "success")
        BY <2>1 DEF Succeeded
    <2> QED BY <2>1, <2>6, <2>7 DEF Reach
<1>6. CASE r \in marked
    <2>1. CASE stream[r].pc = "telling"
        <3>1. stream[r].rec.reason # "success"
            BY <1>2, <1>3, <1>6, <2>1 DEF Heard
        <3>2. stream'[r] = stream[r]
            BY <1>2, <1>4, <2>1, StreamsMove
            DEF Orderly, Calling, Call, Router, CreateFails, Eof, Admit, Spawn, Register, TimesOut,
                Stopped, Exited, Swept, Interrupted, Closed, Abandoned, Note, At
        <3> QED BY <2>1, <3>1, <3>2
    <2>2. CASE stream[r].pc # "telling"
        <3>1. Cancelled(TurnOf[r])
            BY <1>2, <1>3, <1>6, <2>2 DEF Heard
        <3>2. \A x \in Runs \ {r} : TurnOf[x] = TurnOf[r] => stream[x].pc \in {"none", "over"}
            BY <1>2, <1>3, Alone
        <3>3. Cancelled(TurnOf[r])'
            BY <1>1, <1>2, <1>4, <3>1, <3>2, CancelledStays
        <3>4. ASSUME stream'[r].pc = "telling" PROVE stream'[r].rec.reason # "success"
            <4>1. CASE Swept(r)
                <5>1. Reason(r) # "success"
                    BY <3>1, Places DEF TypeOK, Entries, Cancelled, Reason
                <5> QED BY <4>1, <5>1 DEF TypeOK, Swept, Concludes
            <4>2. CASE Stopped(r)
                BY <4>2 DEF TypeOK, Stopped, Concludes
            <4>3. ASSUME Call(r) \/ CreateFails(r) \/ Eof(r)
                         \/ (Router(r) /\ ~Swept(r) /\ ~Stopped(r))
                  PROVE  FALSE
                BY <1>1, <2>2, <3>4, <4>3
                DEF TypeOK, Streams, Listed, Fresh, Call, Router, CreateFails, Eof, Admit, Spawn,
                    Register, TimesOut, Exited, Tell, Interrupted, Closed, Abandoned, Note,
                    At, Goes, Ends, Concludes, Blank
            <4> QED BY <2>2, <3>4, <4>1, <4>2, <4>3, StreamsMove
        <3> QED BY <3>3, <3>4
    <2> QED BY <2>1, <2>2
<1> QED BY <1>5, <1>6

LEMMA NotSuccessStep ==
    ASSUME CInv, [Next]_vars
    PROVE  CancelledNotSuccess'
<1> USE DEF CInv, IInv
<1> SUFFICES ASSUME NEW r \in Runs, r \in marked', tool'[r] = "success" PROVE Hidden(r)'
    <2>1. TypeOK'
        BY InvStep
    <2> QED BY <2>1 DEF CancelledNotSuccess, TypeOK, Hidden
<1>1. SUFFICES Hidden(r)
    BY <1>1, HiddenStays DEF Orderly
<1>2. CASE r \notin marked
    <2>1. PICK c \in Callers : Reach(c) /\ LeaderRuns(r)
        BY <1>2, MarkStep
    <2> QED BY <2>1 DEF Reach, Succeeded
<1>3. CASE r \in marked /\ tool[r] = "success"
    BY <1>3 DEF CancelledNotSuccess, Hidden
<1>4. CASE r \in marked /\ tool[r] # "success"
    <2>1. ASSUME NEW x \in Runs, Call(x) \/ GiveUp(x) \/ CancelTool(x) PROVE FALSE
        BY <1>4, <2>1 DEF TypeOK, Call, GiveUp, CancelTool
    <2>2. ASSUME NEW x \in Runs, Tell(x) PROVE Hidden(r)
        <3>1. x = r
            BY <1>4, <2>2 DEF TypeOK, Tell
        <3>2. /\ stream[r].pc = "telling" /\ stream[r].rec.reason = "success"
              /\ tool[r] = "running"
            BY <2>2, <3>1 DEF TypeOK, Orderly, Calling, Tell, At
        <3> QED BY <1>4, <3>2 DEF Heard
    <2> QED BY <1>4, <2>1, <2>2, ToolStep
<1> QED BY <1>2, <1>3, <1>4

LEMMA CStep == CInv /\ [Next]_vars => CInv'
<1> SUFFICES ASSUME CInv, [Next]_vars PROVE CInv'
    OBVIOUS
<1>1. IInv' /\ TypeOK'
    BY InvStep DEF CInv, IInv
<1>2. Orderly'
    BY CallingStep, InOrderStep, FinishedStep, PartedStep DEF CInv, IInv, Orderly
<1>3. Succeeded' /\ Enrolled' /\ Marked'
    BY <1>1, SucceededStep, EnrolledStep, MarkedStep DEF CInv, IInv
<1> QED BY <1>1, <1>2, <1>3, HeardStep, NotSuccessStep DEF CInv

-----------------------------------------------------------------------------
\* A run that was marked as cancelled while its leader lived is not told as a success, however
\* the cancel, the natural end and the end of other runs interleave; only an earlier run of the
\* same turn whose client has given it up can hide the cancel.
THEOREM CancelledIsHeard == Spec => []CancelledNotSuccess
<1>1. CInv => CancelledNotSuccess
    BY DEF CInv
<1> QED BY <1>1, CInit, CStep, PTL DEF Spec
=============================================================================
