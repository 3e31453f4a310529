--------------------------- MODULE SessionHistory ---------------------------
(***************************************************************************)
(* The stored history of one session: its rows in the database             *)
(* (session_repo.py), the summary that stands for the oldest of them       *)
(* (api/sessions.py, agent_service.py) and the turns that read both as the *)
(* memory of their model (compressed_memory.py) and append to the rows.    *)
(*                                                                         *)
(* Nothing serialises the turns of a session, nor the compressions: the    *)
(* lock of a compression is a dictionary of one process, and a compression *)
(* is begun by the browser (API process) and by the turn's steps (worker). *)
(* A row is written by one INSERT and read by one SELECT; everything in    *)
(* between interleaves.                                                    *)
(*                                                                         *)
(* The agent runs its tool calls one after the other.  Assumed is that a   *)
(* message of the model makes one call; one that makes more stores them    *)
(* before the first of their results.                                      *)
(***************************************************************************)
EXTENDS Naturals, Sequences, SequencesExt

CONSTANTS
    Turns,        \* runs of chat in the session
    Direct,       \* those of execution mode "kuncode"
    Compressors,  \* runs of _do_preemptive_compression
    KeepRecent,   \* settings.COMPRESS_KEEP_RECENT
    Calls,        \* Calls[t]: how many tool calls turn t makes at most
    MaxFaults,    \* crashes of a worker and failures of the summariser
    None

ASSUME HistoryAssumption ==
    /\ Direct \subseteq Turns
    /\ KeepRecent \in Nat
    /\ Calls \in [Turns -> Nat]
    /\ \A t \in Direct : Calls[t] = 1
    /\ MaxFaults \in Nat
    /\ {None, "agent"} \cap Turns = {}

Numbers == {0} \cup UNION {1 .. Calls[t] : t \in Turns}
Row == [kind : {"user", "call", "output", "text"}, turn : Turns, no : Numbers,
        by : Turns \cup {"agent", None}]
User(t) == [kind |-> "user", turn |-> t, no |-> 0, by |-> None]
Text(t) == [kind |-> "text", turn |-> t, no |-> 0, by |-> None]
Call(t, n) == [kind |-> "call", turn |-> t, no |-> n, by |-> None]
\* What the tool, or AgentScope for it, answered; otherwise the filler that turn b wrote.
Output(c, b) == [c EXCEPT !.kind = "output", !.by = b]
CallOf(r) == Call(r.turn, r.no)

VARIABLES
    rows,      \* the session's messages by created_at
    summary,   \* session_summary in Redis, or None
    turn,
    compress,
    doomed,    \* rows a reader is about to delete
    faults,    \* how many of MaxFaults there were
    swept      \* history: outputs that were deleted although their call is stored

vars == <<rows, summary, turn, compress, doomed, faults, swept>>

-----------------------------------------------------------------------------
(* get_messages *)

IsOutput(r) == r.kind = "output"
OutputsAt(list, c) == {i \in DOMAIN list : IsOutput(list[i]) /\ CallOf(list[i]) = c}
Answered(list, c) == OutputsAt(list, c) # {}
LastOutput(list, c) == list[Max(OutputsAt(list, c))]

\* Mutant: the order of created_at.
AsStored(list) == list

\* A call is followed by the last of its outputs; the other outputs are left out.
WithOutput(list, r) ==
    IF IsOutput(r) THEN <<>>
    ELSE IF r.kind = "call" /\ Answered(list, r) THEN <<r, LastOutput(list, r)>> ELSE <<r>>
Reordered(list) == FlattenSeq([i \in DOMAIN list |-> WithOutput(list, list[i])])

\* Of the outputs without a call, the last one of each call id.
Orphans(list) ==
    {LastOutput(list, CallOf(r)) : r \in {q \in Range(list) :
        IsOutput(q) /\ CallOf(q) \notin Range(list)}}

Unpaired(list) == {r \in Range(list) : r.kind = "call" /\ ~Answered(list, r)}

\* What is deleted after the SELECT, by whoever reads.
Reading == doomed' = doomed \cup Orphans(rows)

\* Mutant: append_message.
InsertedLast(list, r) == {Append(list, r)}

\* insert_after_plugin_call gives every output it inserts the created_at of the call and a
\* microsecond; what an agent appends comes later.
Inserted(r) == IsOutput(r) /\ (r.by # "agent" \/ r.turn \in Direct)
InsertedAfter(list, r) ==
    LET at == CHOOSE i \in DOMAIN list : list[i] = CallOf(r)
        Tied(n) == \A i \in at + 1 .. n : Inserted(list[i]) /\ CallOf(list[i]) = CallOf(r)
    IN  {InsertAt(list, n + 1, r) : n \in {m \in at .. Len(list) : Tied(m)}}

-----------------------------------------------------------------------------
(* compressed_memory.py *)

\* How many messages to cut off so that the rest does not begin with an output.
SafeCut(list, n) ==
    IF n >= Len(list) THEN Len(list)
    ELSE CHOOSE k \in n .. Len(list) :
            /\ k = Len(list) \/ ~IsOutput(list[k + 1])
            /\ \A j \in n .. k - 1 : IsOutput(list[j + 1])

Memory(list, skip) ==
    IF skip > 0 /\ Len(list) > skip
    THEN SubSeq(list, SafeCut(list, skip) + 1, Len(list))
    ELSE list

Summary == [covered : Nat, text : SUBSET Row, gone : SUBSET Row, early : SUBSET Row]
\* text: the rows that went into the summary or the summary before it.
\* gone, early: history. What a failed summary stands for without telling it, and
\* the calls that were summarised before the agent had answered them.
NoSummary == [covered |-> 0, text |-> {}, gone |-> {}, early |-> {}]
Stored == IF summary = None THEN NoSummary ELSE summary

-----------------------------------------------------------------------------
Idle == [pc |-> "new", agent |-> "idle", calls |-> 0, has |-> NoSummary, todo |-> {},
         blind |-> FALSE, settled |-> {}]
Rest == [pc |-> "idle", list |-> <<>>, to |-> NoSummary]

Init ==
    /\ rows = <<>>
    /\ summary = None
    /\ turn = [t \in Turns |-> Idle]
    /\ compress = [k \in Compressors |-> Rest]
    /\ doomed = {}
    /\ faults = 0
    /\ swept = {}

\* pc is the consumer's side of the turn, agent the side of AgentScope. The consumer is gone
\* when the turn is over, and also when it has left an agent that nobody told to stop.
At(t, pc, agent) == turn[t].pc = pc /\ turn[t].agent = agent
Over(t) == turn[t].pc = "over"
Ended(t) == [Idle EXCEPT !.pc = "over", !.blind = turn[t].blind]
Quiet(t) == At(t, "over", "idle")
Write(r) == rows' = Append(rows, r)

\* create_agent: the turn keeps this summary to its end.
Begin(t) ==
    /\ At(t, "new", "idle")
    /\ turn' = [turn EXCEPT ![t].pc = "created", ![t].has = Stored]
    /\ UNCHANGED <<rows, summary, compress, doomed, faults, swept>>

\* _repair_unpaired_plugin_calls reads; `settled` (history) are the turns that write no
\* more: those whose consumer and whose agent are both at their end.
Repair(t) ==
    /\ At(t, "created", "idle")
    /\ turn' = [turn EXCEPT ![t].pc = "repairing", ![t].todo = Unpaired(Reordered(rows)),
                            ![t].settled = {u \in Turns : Quiet(u)}]
    /\ Reading
    /\ UNCHANGED <<rows, summary, compress, faults, swept>>

\* Mutant: a call is filled that is not taken off the list.
FillAgain(t, c) ==
    /\ turn[t].pc \in {"repairing", "stopping"}
    /\ c \in turn[t].todo
    /\ Write(Output(c, t))
    /\ UNCHANGED <<summary, turn, compress, doomed, faults, swept>>

\* _add_interrupted_tool_results, for the calls found unpaired or, after an interrupt,
\* for those the consumer waits for. It may have looked for the call before it was stored.
Fill(t, c) ==
    /\ turn[t].pc \in {"repairing", "stopping"}
    /\ c \in turn[t].todo
    /\ \/ c \in Range(rows) /\ rows' \in InsertedAfter(rows, Output(c, t))
       \/ (c \notin Range(rows) \/ turn[t].blind) /\ Write(Output(c, t))
    /\ turn' = [turn EXCEPT ![t].todo = @ \ {c}]
    /\ UNCHANGED <<summary, compress, doomed, faults, swept>>

\* The user's message is stored; the agent turns to its model.
Start(t) ==
    /\ At(t, "repairing", "idle")
    /\ turn[t].todo = {}
    /\ Write(User(t))
    /\ turn' = [turn EXCEPT ![t].pc = "running", ![t].agent = "ready"]
    /\ UNCHANGED <<summary, compress, doomed, faults, swept>>

\* The model reads its memory and answers with a call, whether or not somebody still listens.
\* A direct turn makes one, unasked.
Stream(t) ==
    /\ At(t, "running", "ready") \/ At(t, "left", "ready")
    /\ turn[t].calls < Calls[t]
    /\ turn' = [turn EXCEPT ![t].agent = "streamed", ![t].calls = @ + 1]
    /\ IF t \in Direct THEN UNCHANGED doomed ELSE Reading
    /\ UNCHANGED <<rows, summary, compress, faults, swept>>

Current(t) == Call(t, turn[t].calls)

StoreCall(t) ==
    /\ turn[t].agent = "streamed"
    /\ Write(Current(t))
    /\ turn' = [turn EXCEPT ![t].agent = "calling"]
    /\ UNCHANGED <<summary, compress, doomed, faults, swept>>

\* The tool's result; of an interrupted agent, the one that says so.
Result(t) ==
    /\ turn[t].agent = "calling"
    /\ IF t \in Direct THEN rows' \in InsertedAfter(rows, Output(Current(t), "agent"))
                       ELSE Write(Output(Current(t), "agent"))
    /\ turn' = [turn EXCEPT ![t].agent = "ready"]
    /\ UNCHANGED <<summary, compress, doomed, faults, swept>>

\* The last message of an agent, or what an interrupted one leaves.
Answer(t) ==
    /\ turn[t].agent = "ready"
    /\ t \in Direct => turn[t].calls = 1
    /\ Write(Text(t))
    /\ turn' = [turn EXCEPT ![t] = IF @.pc = "stopping" THEN [@ EXCEPT !.agent = "idle"]
                                  ELSE Ended(t)]
    /\ IF t \in Direct \/ turn[t].pc \in {"stopping", "over"} THEN UNCHANGED doomed ELSE Reading
    /\ UNCHANGED <<summary, compress, faults, swept>>

\* An interrupt or a cancelled plan: the agent is told to stop and asks its model no more.
\* The consumer fills the call whose result it has not seen, or none.
Interrupt(t) ==
    /\ t \notin Direct
    /\ turn[t].pc = "running"
    /\ \E waiting \in SUBSET (IF turn[t].calls = 0 THEN {} ELSE {Current(t)}) :
          turn' = [turn EXCEPT ![t].pc = "stopping", ![t].todo = waiting,
                               ![t].blind = turn[t].agent = "streamed"]
    /\ UNCHANGED <<rows, summary, compress, doomed, faults, swept>>

\* The consumer ends when it has filled, or has failed to. Its finally cancels the producer of
\* the stream; the task of the agent goes on to its own end.
Stop(t) ==
    /\ turn[t].pc = "stopping"
    /\ \/ turn[t].todo = {} /\ UNCHANGED faults
       \/ turn[t].todo # {} /\ faults < MaxFaults /\ faults' = faults + 1
    /\ turn' = [turn EXCEPT ![t] = [Ended(t) EXCEPT !.agent = turn[t].agent,
                                                    !.calls = turn[t].calls]]
    /\ UNCHANGED <<rows, summary, compress, doomed, swept>>

\* The deadline, an exception in the stream loop, or an interrupt that ends the producer
\* before the loop has looked for it: the consumer leaves without a word to the agent and
\* fills nothing.
Leave(t) ==
    /\ t \notin Direct
    /\ turn[t].pc = "running"
    /\ turn' = [turn EXCEPT ![t].pc = "left"]
    /\ UNCHANGED <<rows, summary, compress, doomed, faults, swept>>

\* The task of the worker is done and its event loop closed: what still runs there is gone.
\* An agent of the API process ends by itself.
LoopCloses(t) ==
    /\ turn[t].pc \in {"over", "left"} /\ turn[t].agent # "idle"
    /\ turn' = [turn EXCEPT ![t] = Ended(t)]
    /\ UNCHANGED <<rows, summary, compress, doomed, faults, swept>>

\* The worker is killed, or a turn that has no agent at work fails.
Crash(t) ==
    /\ turn[t].pc \notin {"new", "over", "left"}
    /\ faults < MaxFaults
    /\ faults' = faults + 1
    /\ turn' = [turn EXCEPT ![t] = Ended(t)]
    /\ UNCHANGED <<rows, summary, compress, doomed, swept>>

-----------------------------------------------------------------------------
(* Readers that do nothing else: the browser, the context info of a step *)

Browse ==
    /\ Orphans(rows) # {}
    /\ Reading
    /\ UNCHANGED <<rows, summary, turn, compress, faults, swept>>

\* _reorder_by_call_id deletes what had no call in the list it was given.
Delete(r) ==
    /\ r \in doomed
    /\ doomed' = doomed \ {r}
    /\ rows' \in IF r \in Range(rows)
                THEN {RemoveAt(rows, i) : i \in {j \in DOMAIN rows : rows[j] = r}} ELSE {rows}
    /\ swept' = swept \cup {q \in {r} : r \in Range(rows) /\ CallOf(r) \in Range(rows)}
    /\ UNCHANGED <<summary, turn, compress, faults>>

-----------------------------------------------------------------------------
(* _do_preemptive_compression *)

ReadRows(k) ==
    /\ compress[k].pc = "idle"
    /\ Len(Reordered(rows)) > KeepRecent
    /\ compress' = [compress EXCEPT ![k].pc = "read", ![k].list = Reordered(rows)]
    /\ Reading
    /\ UNCHANGED <<rows, summary, turn, faults, swept>>

\* Mutant: the count as it is.
CutAnywhere(list) ==
    IF Len(list) <= KeepRecent \/ KeepRecent = 0 THEN 0 ELSE Len(list) - KeepRecent

\* How many of the uncovered messages are summarised.
CutOf(list) ==
    IF Len(list) <= KeepRecent \/ KeepRecent = 0 THEN 0
    ELSE LET cut == SafeCut(list, Len(list) - KeepRecent)
         IN  IF cut >= Len(list) THEN 0 ELSE cut

\* The summary over what the stored one left uncovered; whether the tokens pass the
\* threshold is left open.
ReadSummary(k) ==
    LET list == compress[k].list
        uncovered == SubSeq(list, Stored.covered + 1, Len(list))
        cut == CutOf(uncovered)
        taken == Range(SubSeq(uncovered, 1, cut))
    IN  /\ compress[k].pc = "read"
        /\ compress' = [compress EXCEPT ![k] =
              IF cut = 0 THEN [Rest EXCEPT !.pc = "done"]
              ELSE [Rest EXCEPT !.pc = "asking",
                       !.to = [covered |-> Stored.covered + cut,
                               text |-> Stored.text \cup taken, gone |-> Stored.gone,
                               early |-> Stored.early \cup {c \in taken : c.kind = "call" /\
                                   Output(c, "agent") \notin Range(list)}]]]
        /\ UNCHANGED <<rows, summary, turn, doomed, faults, swept>>

Save(k) ==
    /\ compress[k].pc = "asking"
    /\ summary' = compress[k].to
    /\ compress' = [compress EXCEPT ![k] = [Rest EXCEPT !.pc = "done"]]
    /\ UNCHANGED <<rows, turn, doomed, faults, swept>>

\* _compress_context answers every failure with a text that says nothing.
SaveStub(k) ==
    /\ compress[k].pc = "asking"
    /\ faults < MaxFaults
    /\ faults' = faults + 1
    /\ summary' = [compress[k].to EXCEPT !.text = {}, !.gone = @ \cup compress[k].to.text]
    /\ compress' = [compress EXCEPT ![k] = [Rest EXCEPT !.pc = "done"]]
    /\ UNCHANGED <<rows, turn, doomed, swept>>

\* Below the threshold, an exception, the process restarted.
GiveUp(k) ==
    /\ compress[k].pc \in {"read", "asking"}
    /\ compress' = [compress EXCEPT ![k] = [Rest EXCEPT !.pc = "done"]]
    /\ UNCHANGED <<rows, summary, turn, doomed, faults, swept>>

\* The summary lives for a week.
Expire ==
    /\ summary # None
    /\ summary' = None
    /\ UNCHANGED <<rows, turn, compress, doomed, faults, swept>>

Next ==
    \/ \E t \in Turns : Begin(t) \/ Repair(t) \/ Start(t) \/ Stream(t) \/ StoreCall(t) \/ Result(t)
                        \/ Answer(t) \/ Interrupt(t) \/ Stop(t) \/ Leave(t) \/ LoopCloses(t)
                        \/ Crash(t)
    \/ \E t \in Turns : \E c \in turn[t].todo : Fill(t, c)
    \/ Browse \/ Expire
    \/ \E r \in doomed : Delete(r)
    \/ \E k \in Compressors : ReadRows(k) \/ ReadSummary(k) \/ Save(k) \/ SaveStub(k) \/ GiveUp(k)

Spec == Init /\ [][Next]_vars

-----------------------------------------------------------------------------
TypeOK ==
    /\ rows \in Seq(Row) /\ IsInjective(rows)
    /\ summary \in Summary \cup {None}
    /\ turn \in [Turns -> [pc : {"new", "created", "repairing", "running", "stopping", "left",
                                 "over"},
                           agent : {"idle", "ready", "streamed", "calling"},
                           calls : Numbers, has : Summary, todo : SUBSET Row,
                           blind : BOOLEAN, settled : SUBSET Turns]]
    /\ compress \in [Compressors -> [pc : {"idle", "read", "asking", "done"}, list : Seq(Row),
                                     to : Summary]]
    /\ doomed \subseteq Row
    /\ faults \in 0 .. MaxFaults
    /\ swept \subseteq Row

\* The messages the model of turn t would be given now.
MemoryOf(t) == Memory(Reordered(rows), turn[t].has.covered)

\* Whenever an agent turns to its model (or a direct turn to its tool), every call in the
\* memory is followed by its output and every output follows its call, whatever other turns
\* were interrupted, crashed, left their agent behind or are still at work: the provider
\* rejects anything else.  So it is for an agent that its own consumer has left.
\* Excused are the calls of turns of which the consumer or the agent was still at work when
\* this one repaired the history, or that began later, and calls whose output a reader deleted.
Paired ==
    \A t \in Turns : At(t, "running", "ready") \/ At(t, "left", "ready") =>
        LET memory == MemoryOf(t)
            Mine(c) == c.turn \in turn[t].settled \cup {t}
                       /\ \A r \in swept : CallOf(r) # c
        IN  \A i \in DOMAIN memory :
               /\ memory[i].kind = "call" /\ Mine(memory[i]) =>
                     i < Len(memory) /\ IsOutput(memory[i + 1])
               /\ IsOutput(memory[i]) => i > 1 /\ memory[i - 1] = CallOf(memory[i])

\* What a summary and the messages behind it tell: the whole list.
Tells(s, list) ==
    LET told == s.text \cup s.gone \cup Range(Memory(list, s.covered))
    IN  \A r \in Range(list) \ told :
            IsOutput(r) /\ (r.by # "agent" \/ CallOf(r) \in s.early)

\* No stored message is forgotten: it is in the memory of the model, or the summary the model
\* was given was made of it, also when two compressions overtook each other, rows were
\* inserted among those the summary counts, or the turn holds a summary of long ago. Excused
\* is what a failed summariser dropped, an output that came after its call was summarised, and
\* everything once a reader has deleted the output of a stored call.
NothingForgotten ==
    swept = {} =>
        LET list == Reordered(rows)
            held == {turn[t].has : t \in {u \in Turns : ~Over(u)}}
        IN  \A s \in {Stored} \cup held : Tells(s, list)

\* The result of a tool is not hidden behind the fillers that an interrupt, or the repair of a
\* turn which takes the call for abandoned, write beside it. Excused are direct turns, whose
\* result has the created_at of the filler, and interrupts before the call was stored.
ResultStands ==
    \A r \in Range(rows) :
        r.by = "agent" /\ r.turn \notin Direct /\ ~turn[r.turn].blind
            => r \in Range(Reordered(rows))
=============================================================================
