-------------------------------- MODULE Batch --------------------------------
(***************************************************************************)
(* Batch processing (utilities/batch/base.py, decorators.py and            *)
(* sqs_fifo_partial_processor.py): BatchProcessor, AsyncBatchProcessor and *)
(* SqsFifoPartialProcessor, one processor object serving invocation after  *)
(* invocation of a warm environment, together with the queue that delivers *)
(* batches to it and deletes what it does not report as failed.            *)
(*                                                                         *)
(* Messages are numbers, in the order they were sent.                      *)
(***************************************************************************)
EXTENDS Naturals, Sequences, FiniteSets

CONSTANTS
  Message,     \* the messages sent
  Group,       \* Group[m]: the MessageGroupId of m
  None,        \* Python's None
  Processors,  \* the processors to try, see Processor
  MaxKills     \* bound: environments killed in the middle of an invocation

\* kind: which class; skip: skip_group_on_error; raise:
\* raise_on_entire_batch_failure; invalid and broken: the messages on which
\* validating the processor's model raises a ValidationError of that model or
\* any other exception (none, if there is no model).
Processor == [kind : {"sync", "async", "fifo"}, skip : BOOLEAN, raise : BOOLEAN,
              invalid : SUBSET Message, broken : SUBSET Message]

ASSUME MessageAssumption == Message \subseteq Nat /\ IsFiniteSet(Message) /\ None \notin Message
ASSUME GroupAssumption == Group \in [Message -> {Group[m] : m \in Message}]
ASSUME ProcessorAssumption ==
  /\ Processors \subseteq Processor
  /\ \A p \in Processors : p.invalid \cap p.broken = {}
  /\ MaxKills \in Nat

VARIABLES
  processor,      \* the processor under test; it does not change
  queue,          \* messages not yet deleted
  phase,          \* "idle", "process", "raising" or "ended"
  records,        \* self.records
  todo,           \* the records process() has not come to yet
  running,        \* records whose handler has been called and has not returned
  success,        \* self.success_messages
  fail,           \* self.fail_messages
  failedGroups,   \* self._failed_group_ids
  result,         \* how the invocation ended, see Result
  kills,
  handled,        \* history: messages whose handler once returned
  redo            \* history: messages handled by an invocation that failed

lists == <<success, fail, failedGroups>>
vars == <<processor, queue, phase, records, todo, running, lists, result, kills, handled, redo>>

SetOf(s) == {s[i] : i \in DOMAIN s}

\* The invocation raises, or returns batch_response.
Result == [error : BOOLEAN, failures : Seq(Message)]

NoFailures == [error |-> FALSE, failures |-> <<>>]
Error == [error |-> TRUE, failures |-> <<>>]

Fifo == processor.kind = "fifo"
Malformed == processor.invalid \cup processor.broken

------------------------------------------------------------------------------
(* The queue *)

Increasing(s) == \A i, j \in DOMAIN s : i < j => s[i] < s[j]

\* The sequence, and no other, of the messages of S in the order they were sent.
InOrder(S) == {s \in [1..Cardinality(S) -> S] : SetOf(s) = S /\ Increasing(s)}

\* A FIFO queue delivers a group's messages from the oldest one on.
Deliverable(S) ==
  /\ S # {}
  /\ Fifo => \A m \in S, n \in queue : n < m /\ Group[n] = Group[m] => n \in S

\* Mutant: the failed messages of the last invocation are not cleared.
PrepareKeepsFailures ==
  /\ success' = <<>>
  /\ fail' = fail

\* _prepare
Prepare ==
  /\ success' = <<>>
  /\ fail' = <<>>

\* __call__ and __enter__
Deliver ==
  /\ phase = "idle"
  /\ \E S \in SUBSET queue :
       /\ Deliverable(S)
       /\ records' \in InOrder(S)
       /\ todo' = records'
  /\ Prepare
  /\ result' = NoFailures
  /\ phase' = "process"
  /\ UNCHANGED <<processor, queue, running, failedGroups, kills, handled, redo>>

------------------------------------------------------------------------------
(* process and async_process *)

\* failure_handler: the record x of the message m failed.
Failure(m, x) ==
  /\ fail' = Append(fail, x)
  /\ failedGroups' = IF Fifo /\ processor.skip THEN failedGroups \cup {Group[m]} ELSE failedGroups
  /\ UNCHANGED success

\* Mutant: with skip_group_on_error a later group is failed too.
ShortCircuitAll(m) == Fifo /\ fail # <<>>

\* Mutant: with skip_group_on_error nothing is short-circuited.
ShortCircuitNothing(m) == Fifo /\ fail # <<>> /\ ~processor.skip

\* SqsFifoPartialProcessor._process_record: a previous record failed.
ShortCircuit(m) ==
  /\ Fifo
  /\ IF processor.skip THEN Group[m] \in failedGroups ELSE fail # <<>>

\* The next record, up to the call of its handler. The synchronous processors
\* come to it when they are done with the previous one; asyncio.gather starts
\* one task after the other, the finished ones interleaved.
StartRecord ==
  /\ phase = "process"
  /\ todo # <<>>
  /\ processor.kind # "async" => running = {}
  /\ todo' = Tail(todo)
  /\ LET m == Head(todo)
     IN  \/ /\ ShortCircuit(m)
            /\ IF m \in Malformed
               THEN phase' = "raising" /\ UNCHANGED lists   \* outside the try
               ELSE Failure(m, m) /\ UNCHANGED phase
            /\ UNCHANGED running
         \/ /\ ~ShortCircuit(m)
            /\ m \in Malformed
            /\ Failure(m, IF m \in processor.invalid THEN m ELSE None)
            /\ UNCHANGED <<phase, running>>
         \/ /\ ~ShortCircuit(m)
            /\ m \notin Malformed
            /\ running' = running \cup {m}
            /\ UNCHANGED <<phase, lists>>
  /\ UNCHANGED <<processor, queue, records, result, kills, handled, redo>>

\* The handler of m returns.
HandlerReturns(m) ==
  /\ phase = "process"
  /\ m \in running
  /\ running' = running \ {m}
  /\ success' = Append(success, m)
  /\ handled' = handled \cup {m}
  /\ UNCHANGED <<processor, queue, phase, records, todo, fail, failedGroups, result, kills, redo>>

\* The handler of m raises an Exception.
HandlerRaises(m) ==
  /\ phase = "process"
  /\ m \in running
  /\ running' = running \ {m}
  /\ Failure(m, m)
  /\ UNCHANGED <<processor, queue, phase, records, todo, result, kills, handled, redo>>

------------------------------------------------------------------------------
(* __exit__ and the end of the invocation *)

\* Mutant: the failures are compared with the successes.
EntireBatchFailedLoose == Len(fail) >= Len(success)

EntireBatchFailed == Len(fail) = Len(records)

\* Mutants: the failed groups outlive the invocation; the whole batch is reported.
CleanKeepsGroups ==
  /\ UNCHANGED failedGroups
  /\ result' =
       IF phase = "raising" \/ (fail # <<>> /\ EntireBatchFailed /\ processor.raise)
       THEN Error
       ELSE [error |-> FALSE, failures |-> fail]

CleanReportsAll ==
  /\ failedGroups' = {}
  /\ result' =
       IF phase = "raising" \/ (fail # <<>> /\ EntireBatchFailed /\ processor.raise)
       THEN Error
       ELSE [error |-> FALSE, failures |-> IF fail = <<>> THEN <<>> ELSE records]

\* _clean. Every failure appends to fail_messages and to exceptions, so one
\* length stands for both. Collecting the identifier of None raises.
Clean ==
  /\ failedGroups' = {}
  /\ result' =
       IF \/ phase = "raising"
          \/ fail # <<>> /\ EntireBatchFailed /\ processor.raise
          \/ None \in SetOf(fail)
       THEN Error
       ELSE [error |-> FALSE, failures |-> fail]

\* Mutant: async_process does not wait for the tasks it started.
ExitEarly ==
  /\ phase = "raising" \/ (phase = "process" /\ todo = <<>>)
  /\ Clean
  /\ phase' = "ended"
  /\ UNCHANGED <<processor, queue, records, todo, running, success, fail, kills, handled, redo>>

Exit ==
  /\ phase = "raising" \/ (phase = "process" /\ todo = <<>> /\ running = {})
  /\ Clean
  /\ phase' = "ended"
  /\ UNCHANGED <<processor, queue, records, todo, running, success, fail, kills, handled, redo>>

\* A failed invocation leaves its batch in the queue; otherwise what is not
\* reported is deleted.
Settle ==
  /\ phase = "ended"
  /\ phase' = "idle"
  /\ queue' = IF result.error
              THEN queue
              ELSE queue \ (SetOf(records) \ SetOf(result.failures))
  /\ redo' = IF result.error THEN redo \cup (SetOf(records) \cap handled) ELSE redo
  /\ records' = <<>>
  /\ todo' = <<>>
  /\ UNCHANGED <<processor, running, lists, result, kills, handled>>

\* The environment dies; the next invocation gets a new processor object.
Kill ==
  /\ phase \in {"process", "raising"}
  /\ kills < MaxKills
  /\ kills' = kills + 1
  /\ phase' = "idle"
  /\ redo' = redo \cup (SetOf(records) \cap handled)
  /\ records' = <<>>
  /\ todo' = <<>>
  /\ running' = {}
  /\ success' = <<>>
  /\ fail' = <<>>
  /\ failedGroups' = {}
  /\ result' = NoFailures
  /\ UNCHANGED <<processor, queue, handled>>

------------------------------------------------------------------------------

Init ==
  /\ processor \in Processors
  /\ queue = Message
  /\ phase = "idle"
  /\ records = <<>>
  /\ todo = <<>>
  /\ running = {}
  /\ success = <<>>
  /\ fail = <<>>
  /\ failedGroups = {}
  /\ result = NoFailures
  /\ kills = 0
  /\ handled = {}
  /\ redo = {}

Finished == queue = {} /\ phase = "idle" /\ UNCHANGED vars

Next ==
  \/ Deliver
  \/ StartRecord
  \/ \E m \in Message : HandlerReturns(m) \/ HandlerRaises(m)
  \/ Exit
  \/ Settle
  \/ Kill
  \/ Finished

Spec == Init /\ [][Next]_vars

\* The queue keeps delivering, the processor keeps running, and a handler that
\* is called again and again for a message returns at some point.
Fairness ==
  /\ WF_vars(Deliver \/ StartRecord \/ Exit \/ Settle)
  /\ \A m \in Message :
       /\ WF_vars(HandlerReturns(m) \/ HandlerRaises(m))
       /\ SF_vars(HandlerReturns(m))

FairSpec == Spec /\ Fairness

------------------------------------------------------------------------------

TypeOK ==
  /\ processor \in Processors
  /\ queue \subseteq Message
  /\ phase \in {"idle", "process", "raising", "ended"}
  /\ records \in Seq(Message)
  /\ todo \in Seq(Message)
  /\ running \subseteq Message
  /\ success \in Seq(Message)
  /\ fail \in Seq(Message \cup {None})
  /\ failedGroups \subseteq {Group[m] : m \in Message}
  /\ result \in Result
  /\ kills \in 0..MaxKills
  /\ handled \subseteq Message
  /\ redo \subseteq handled
  /\ phase = "process" =>   \* every record is in one place
       Len(todo) + Cardinality(running) + Len(success) + Len(fail) = Len(records)

\* A message is deleted only after its handler has returned for it: neither a
\* failure, nor a short circuit, nor a stale list of an earlier invocation of
\* the same processor object loses a message.
NoLoss == Message \ queue \subseteq handled

\* The batch holds a record whose model raises something that is no
\* ValidationError, so that what is collected for the response is None
\* (base.py:535), or a FIFO processor comes to an invalid record after a failed
\* one and converts it outside the try (sqs_fifo_partial_processor.py:97).
Spoiled ==
  \/ SetOf(records) \cap processor.broken # {}
  \/ /\ Fifo
     /\ \E n \in SetOf(records) \ SetOf(success), m \in SetOf(records) \cap processor.invalid : n < m

\* The response names each failed record once and nothing else, and there is
\* one unless the environment was told to raise and no record succeeded. A
\* spoiled batch, which the code fails as a whole, is excluded: the FIFO half of
\* it is the subject of RemainingReported.
ReportsExactly ==
  phase = "ended" /\ ~(result.error /\ Spoiled) =>
    IF result.error
    THEN processor.raise /\ success = <<>>
    ELSE /\ SetOf(result.failures) = SetOf(records) \ SetOf(success)
         /\ Len(result.failures) + Len(success) = Len(records)

\* A FIFO processor runs the handler of a message only after the handlers of
\* all older messages of its group have returned, over all deliveries.
GroupOrder ==
  [][ \A m \in Message :
        Fifo /\ m \in running' \ running
          => \A n \in Message : n < m /\ Group[n] = Group[m] => n \in handled ]_vars

\* A handler that has returned for a message runs for it again only if an
\* invocation that held the message failed as a whole.
NoNeedlessRerun ==
  [][ \A m \in Message : m \in running' \ running /\ m \in handled => m \in redo ]_vars

\* skip_group_on_error keeps the other groups going: a well-formed message whose
\* handler is not called is failed only behind an older one of its own group that
\* the same invocation has failed.
OtherGroupsGoOn ==
  [][ \A m \in Message :
        /\ Fifo /\ processor.skip
        /\ m \notin Malformed
        /\ Len(fail') > Len(fail)
        /\ fail'[Len(fail')] = m
        /\ m \notin running
        => \E n \in SetOf(records) \ SetOf(success) : n < m /\ Group[n] = Group[m] ]_vars

\* Whatever the processor, if no message is malformed all of them get done.
Drained == Malformed = {} => <>(queue = {})

\* "Stops processing records when the first record fails. The remaining records
\* are reported as failed items."
RemainingReported ==
  phase = "ended" /\ Fifo /\ fail # <<>> /\ success # <<>>
    => /\ ~result.error
       /\ \A i, j \in DOMAIN records :
            i < j /\ ~processor.skip /\ records[i] \in SetOf(result.failures)
              => records[j] \in SetOf(result.failures)
==============================================================================
