----------------------------- MODULE Batch_proofs -----------------------------
(***************************************************************************)
(* Proofs about module Batch: no message is lost, the response names what  *)
(* failed and nothing else, a FIFO processor keeps the order of a group,   *)
(* and nothing is processed again without need; for any messages, groups   *)
(* and processors, over any number of deliveries to one processor object.  *)
(***************************************************************************)
EXTENDS Batch, FiniteSetTheorems, TLAPS

------------------------------------------------------------------------------
(* Sequences *)

LEMMA Appended ==
  ASSUME NEW S, NEW s \in Seq(S), NEW x \in S
  PROVE  /\ Append(s, x) \in Seq(S)
         /\ Len(Append(s, x)) = Len(s) + 1
         /\ Append(s, x)[Len(Append(s, x))] = x
         /\ Append(s, x) # <<>>
         /\ SetOf(Append(s, x)) = SetOf(s) \cup {x}
PROOF
<1>1. /\ Append(s, x) \in Seq(S)
      /\ Len(Append(s, x)) = Len(s) + 1
      /\ DOMAIN Append(s, x) = 1..(Len(s) + 1)
      /\ DOMAIN s = 1..Len(s)
      /\ \A i \in 1..Len(s) : Append(s, x)[i] = s[i]
      /\ Append(s, x)[Len(s) + 1] = x
      /\ Len(s) \in Nat
  OBVIOUS
<1>2. Append(s, x) # <<>>
  BY <1>1
<1>3. SetOf(Append(s, x)) \subseteq SetOf(s) \cup {x}
  BY <1>1 DEF SetOf
<1>4. SetOf(s) \subseteq SetOf(Append(s, x))
  BY <1>1 DEF SetOf
<1>5. x \in SetOf(Append(s, x))
  BY <1>1 DEF SetOf
<1>6. QED
  BY <1>1, <1>2, <1>3, <1>4, <1>5

LEMMA EmptySequence == SetOf(<<>>) = {}
PROOF
  BY DEF SetOf

------------------------------------------------------------------------------
(* The invariant. A record that was come to is with its handler, in one of the
   two lists, or, if its model raised something odd, a None among the failures. *)

Begun == Len(records) - Len(todo)

BegunRecords == {records[i] : i \in 1..Begun}

Unsuccessful == BegunRecords \ (SetOf(success) \cup running)

Order ==
  /\ Increasing(records)
  /\ Len(todo) <= Len(records)
  /\ \A i \in 1..Len(todo) : todo[i] = records[Begun + i]

Places ==
  /\ phase # "process" => running = {}
  /\ phase # "idle" =>
       /\ running \cup SetOf(success) \subseteq BegunRecords
       /\ SetOf(fail) \subseteq Unsuccessful \cup {None}
       /\ running \cap SetOf(success) = {}
       /\ None \in SetOf(fail) => SetOf(records) \cap processor.broken # {}
  /\ phase = "raising" => Spoiled
  /\ phase = "process" /\ None \notin SetOf(fail) => Unsuccessful \subseteq SetOf(fail)

\* What a FIFO processor remembers of the failures, and what the queue gave it.
Grouped ==
  /\ phase \in {"idle", "ended"} => failedGroups = {}
  /\ failedGroups \subseteq {Group[n] : n \in Unsuccessful}
  /\ phase = "process" /\ Fifo =>
       /\ \A n \in Unsuccessful : IF processor.skip THEN Group[n] \in failedGroups ELSE fail # <<>>
       /\ \A m \in SetOf(records), n \in queue :
            n < m /\ Group[n] = Group[m] => n \in SetOf(records)

Queued ==
  /\ phase # "idle" => SetOf(records) \subseteq queue /\ SetOf(success) \subseteq handled
  /\ queue \cap handled \subseteq redo \cup (IF phase = "idle" THEN {} ELSE SetOf(success))

BatchInv == TypeOK /\ Order /\ Places /\ Grouped /\ Queued /\ NoLoss /\ ReportsExactly

LEMMA Types ==
  ASSUME TypeOK
  PROVE  /\ processor \in Processor
         /\ queue \subseteq Message
         /\ phase \in {"idle", "process", "raising", "ended"}
         /\ records \in Seq(Message) /\ Len(records) \in Nat /\ DOMAIN records = 1..Len(records)
         /\ todo \in Seq(Message) /\ Len(todo) \in Nat
         /\ running \subseteq Message /\ IsFiniteSet(running) /\ Cardinality(running) \in Nat
         /\ success \in Seq(Message) /\ Len(success) \in Nat
         /\ fail \in Seq(Message \cup {None}) /\ Len(fail) \in Nat
         /\ failedGroups \subseteq {Group[m] : m \in Message}
         /\ handled \subseteq Message /\ redo \subseteq handled
PROOF
<1>1. IsFiniteSet(running) /\ Cardinality(running) \in Nat
  BY MessageAssumption, FS_Subset, FS_CardinalityType DEF TypeOK
<1>2. QED
  BY <1>1, ProcessorAssumption DEF TypeOK

LEMMA SetOfType ==
  ASSUME NEW S, NEW s \in Seq(S)
  PROVE  SetOf(s) \subseteq S
PROOF
  BY DEF SetOf

LEMMA BegunIn ==
  ASSUME TypeOK, Order
  PROVE  BegunRecords \subseteq SetOf(records)
PROOF
<1>1. /\ Len(records) \in Nat /\ DOMAIN records = 1..Len(records)
      /\ Begun \in Nat /\ Begun <= Len(records)
  BY Types DEF Order, Begun
<1>2. 1..Begun \subseteq 1..Len(records)
  BY <1>1
<1>3. QED
  BY <1>1, <1>2 DEF BegunRecords, SetOf

\* The next record is the first one not begun.
LEMMA NextRecord ==
  ASSUME TypeOK, Order, todo # <<>>, todo' = Tail(todo), records' = records,
         NEW m, m = Head(todo)
  PROVE  /\ m \in Message /\ m \in SetOf(records) /\ m \notin BegunRecords
         /\ BegunRecords' = BegunRecords \cup {m}
         /\ todo' \in Seq(Message) /\ Len(todo') = Len(todo) - 1
         /\ Order'
         /\ \A n \in SetOf(records) : n < m => n \in BegunRecords
         /\ \A n \in BegunRecords : n < m
PROOF
<1>1. /\ todo \in Seq(Message) /\ Len(todo) \in Nat /\ Len(todo) > 0
      /\ records \in Seq(Message) /\ Len(records) \in Nat /\ DOMAIN records = 1..Len(records)
      /\ \A i \in 1..Len(records) : records[i] \in Message
      /\ Message \subseteq Nat
  BY Types, MessageAssumption
<1>2. /\ todo' \in Seq(Message) /\ Len(todo') = Len(todo) - 1
      /\ \A i \in 1..Len(todo') : todo'[i] = todo[i + 1]
      /\ m = todo[1]
  BY <1>1
<1>3. /\ Begun \in Nat /\ Begun + 1 \in 1..Len(records) /\ m = records[Begun + 1]
      /\ Begun' = Begun + 1
  BY <1>1, <1>2 DEF Begun, Order
<1>4. \A i, j \in 1..Len(records) : i < j => records[i] < records[j]
  BY <1>1 DEF Order, Increasing
<1>5. Order'
  <2>1. Increasing(records') /\ Len(todo') <= Len(records')
    BY <1>1, <1>2 DEF Order
  <2>2. \A i \in 1..Len(todo') : todo'[i] = records'[Begun' + i]
    BY <1>1, <1>2, <1>3 DEF Order
  <2>3. QED
    BY <2>1, <2>2 DEF Order
<1>6. BegunRecords' = BegunRecords \cup {m}
  BY <1>3 DEF BegunRecords
<1>7. ASSUME NEW n \in BegunRecords PROVE n < m
  BY <1>3, <1>4 DEF BegunRecords
<1>8. m \in Message /\ m \in SetOf(records) /\ m \in Nat
  BY <1>1, <1>3 DEF SetOf
<1>9. ASSUME NEW n \in SetOf(records), n < m PROVE n \in BegunRecords
  <2>1. PICK i \in 1..Len(records) : n = records[i]
    BY <1>1 DEF SetOf
  <2>2. n \in Nat /\ m \in Nat
    BY <1>1, <1>8, <2>1
  <2>3. i # Begun + 1
    BY <1>3, <1>9, <2>1, <2>2
  <2>4. ~(Begun + 1 < i)
    <3>1. SUFFICES ASSUME Begun + 1 < i PROVE m < n
      BY <1>9, <2>2
    <3>2. QED
      BY <1>3, <1>4, <2>1, <3>1
  <2>5. i \in 1..Begun
    BY <1>3, <2>3, <2>4
  <2>6. QED
    BY <2>1, <2>5 DEF BegunRecords
<1>10. QED
  BY <1>2, <1>5, <1>6, <1>7, <1>8, <1>9

LEMMA FailureStep ==
  ASSUME TypeOK, NEW m \in Message, NEW x \in {m, None}, Failure(m, x)
  PROVE  /\ fail' \in Seq(Message \cup {None})
         /\ SetOf(fail') = SetOf(fail) \cup {x}
         /\ Len(fail') = Len(fail) + 1
         /\ fail'[Len(fail')] = x
         /\ fail' # <<>>
         /\ success' = success
         /\ failedGroups \subseteq failedGroups'
         /\ failedGroups' \subseteq failedGroups \cup {Group[m]}
         /\ Fifo /\ processor.skip => Group[m] \in failedGroups'
PROOF
  BY Appended, Types DEF Failure

------------------------------------------------------------------------------
(* The invariant is kept, one lemma per action *)

LEMMA DeliverKeeps ==
  ASSUME BatchInv, Deliver
  PROVE  BatchInv'
PROOF
<1>1. PICK S \in SUBSET queue : Deliverable(S) /\ records' \in InOrder(S) /\ todo' = records'
  BY DEF Deliver
<1>2. /\ phase = "idle" /\ phase' = "process" /\ success' = <<>> /\ fail' = <<>>
      /\ result' = NoFailures
      /\ UNCHANGED <<processor, queue, running, failedGroups, kills, handled, redo>>
  BY DEF Deliver, Prepare
<1>3. /\ TypeOK /\ Places /\ Grouped /\ Queued /\ NoLoss
      /\ running = {} /\ failedGroups = {}
  BY <1>2 DEF BatchInv, Places, Grouped
<1>4. S \subseteq Message /\ Cardinality(S) \in Nat
  BY <1>3, Types, MessageAssumption, FS_Subset, FS_CardinalityType
<1>5. /\ records' \in Seq(Message) /\ Len(records') = Cardinality(S)
      /\ SetOf(records') = S /\ Increasing(records')
  BY <1>1, <1>4 DEF InOrder
<1>6. Cardinality({}) = 0
  BY FS_EmptySet
<1>7. TypeOK'
  BY <1>1, <1>2, <1>3, <1>4, <1>5, <1>6 DEF TypeOK, NoFailures, Result
<1>8. /\ BegunRecords' = {}
      /\ Order'
  BY <1>1, <1>4, <1>5 DEF Begun, BegunRecords, Order
<1>9. Places' /\ Unsuccessful' = {}
  BY <1>2, <1>3, <1>8, EmptySequence DEF Places, Unsuccessful
<1>10. Grouped'
  BY <1>1, <1>2, <1>3, <1>5, <1>9 DEF Grouped, Deliverable, Fifo
<1>11. Queued' /\ NoLoss' /\ ReportsExactly'
  BY <1>2, <1>3, <1>5, EmptySequence DEF Queued, NoLoss, ReportsExactly
<1>12. QED
  BY <1>7, <1>8, <1>9, <1>10, <1>11 DEF BatchInv

LEMMA StartRecordKeeps ==
  ASSUME BatchInv, StartRecord
  PROVE  BatchInv'
PROOF
<1> PICK m : m = Head(todo)
  OBVIOUS
<1>1. /\ phase = "process" /\ todo # <<>> /\ todo' = Tail(todo)
      /\ processor.kind # "async" => running = {}
      /\ UNCHANGED <<processor, queue, records, result, kills, handled, redo>>
      /\ TypeOK /\ Order /\ Places /\ Grouped /\ Queued /\ NoLoss
  BY DEF StartRecord, BatchInv
<1>2. /\ m \in Message /\ m \in SetOf(records) /\ m \notin BegunRecords
      /\ BegunRecords' = BegunRecords \cup {m}
      /\ todo' \in Seq(Message) /\ Len(todo') = Len(todo) - 1
      /\ Order'
      /\ \A n \in BegunRecords : n < m
  BY <1>1, NextRecord
<1>3. /\ running \cup SetOf(success) \subseteq BegunRecords
      /\ SetOf(fail) \subseteq Unsuccessful \cup {None}
      /\ running \cap SetOf(success) = {}
  BY <1>1 DEF Places
<1>4. m \notin running /\ m \notin SetOf(success)
  BY <1>2, <1>3
<1>5. NoLoss'
  BY <1>1 DEF NoLoss
<1>6. CASE ShortCircuit(m) /\ m \in Malformed /\ phase' = "raising" /\ UNCHANGED <<lists, running>>
  <2>1. running = {} /\ UNCHANGED <<success, fail, failedGroups, running>>
    BY <1>1, <1>6 DEF ShortCircuit, Fifo, lists
  <2>2. TypeOK'
    BY <1>1, <1>2, <1>6, <2>1 DEF TypeOK
  <2>3. Unsuccessful \subseteq Unsuccessful'
    BY <1>2, <2>1 DEF Unsuccessful
  <2>8. Spoiled
    <3>1. PICK n \in Unsuccessful \cup {None} : n = None => SetOf(records) \cap processor.broken # {}
      <4>1. CASE None \in SetOf(fail)
        BY <1>1, <4>1 DEF Places
      <4>2. CASE None \notin SetOf(fail)
        <5>1. Unsuccessful # {}
          <6>1. CASE processor.skip
            BY <1>1, <1>6, <6>1 DEF ShortCircuit, Grouped
          <6>2. CASE ~processor.skip
            <7>1. SetOf(fail) # {}
              <8>1. fail # <<>>
                BY <1>6, <6>2 DEF ShortCircuit
              <8>2. 1 \in DOMAIN fail
                BY <1>1, <8>1, Types
              <8>3. QED
                BY <8>2 DEF SetOf
            <7>2. QED
              BY <1>3, <4>2, <7>1
          <6>3. QED
            BY <6>1, <6>2
        <5>2. None \notin Unsuccessful
          BY <1>1, Types, BegunIn, SetOfType, MessageAssumption DEF Unsuccessful
        <5>3. QED
          BY <5>1, <5>2
      <4>3. QED
        BY <4>1, <4>2
    <3>2. CASE SetOf(records) \cap processor.broken # {}
      BY <3>2 DEF Spoiled
    <3>3. CASE SetOf(records) \cap processor.broken = {}
      <4>1. n \in SetOf(records) \ SetOf(success) /\ n < m
        BY <1>1, <1>2, <3>1, <3>3, BegunIn DEF Unsuccessful
      <4>2. m \in SetOf(records) \cap processor.invalid
        BY <1>2, <1>6, <3>3 DEF Malformed
      <4>3. QED
        BY <1>6, <4>1, <4>2 DEF Spoiled, ShortCircuit
    <3>4. QED
      BY <3>2, <3>3
  <2>4. Places'
    BY <1>1, <1>2, <1>3, <1>6, <2>1, <2>3, <2>8 DEF Places, Spoiled, Fifo
  <2>5. Grouped'
    BY <1>1, <1>6, <2>1, <2>3 DEF Grouped
  <2>6. Queued' /\ ReportsExactly'
    BY <1>1, <1>6, <2>1 DEF Queued, ReportsExactly
  <2>7. QED
    BY <1>2, <1>5, <2>2, <2>4, <2>5, <2>6 DEF BatchInv
<1>7. ASSUME NEW x \in {m, None}, Failure(m, x), UNCHANGED <<phase, running>>,
             x = None => m \in processor.broken
      PROVE  BatchInv'
  <2>1. /\ fail' \in Seq(Message \cup {None})
        /\ SetOf(fail') = SetOf(fail) \cup {x}
        /\ Len(fail') = Len(fail) + 1
        /\ fail' # <<>>
        /\ success' = success
        /\ failedGroups \subseteq failedGroups'
        /\ failedGroups' \subseteq failedGroups \cup {Group[m]}
        /\ Fifo /\ processor.skip => Group[m] \in failedGroups'
    BY <1>1, <1>2, <1>7, FailureStep
  <2>2. TypeOK'
    BY <1>1, <1>2, <1>7, <2>1, Types, SMTT(30) DEF TypeOK
  <2>3. Unsuccessful' = Unsuccessful \cup {m}
    BY <1>2, <1>4, <1>7, <2>1 DEF Unsuccessful
  <2>4. Places'
    BY <1>1, <1>2, <1>3, <1>7, <2>1, <2>3 DEF Places, Spoiled, Fifo
  <2>5. failedGroups' \subseteq {Group[n] : n \in Unsuccessful'}
    BY <1>1, <2>1, <2>3 DEF Grouped
  <2>6. Grouped'
    BY <1>1, <1>7, <2>1, <2>3, <2>5 DEF Grouped, Fifo
  <2>7. Queued' /\ ReportsExactly'
    BY <1>1, <1>7, <2>1 DEF Queued, ReportsExactly
  <2>8. QED
    BY <1>2, <1>5, <2>2, <2>4, <2>6, <2>7 DEF BatchInv
<1>8. CASE ~ShortCircuit(m) /\ running' = running \cup {m} /\ UNCHANGED <<phase, lists>>
  <2>1. UNCHANGED <<phase, success, fail, failedGroups>>
    BY <1>8 DEF lists
  <2>2. Cardinality(running') = Cardinality(running) + 1
    BY <1>1, <1>4, <1>8, Types, FS_AddElement
  <2>3. TypeOK'
    BY <1>1, <1>2, <1>8, <2>1, <2>2, Types DEF TypeOK
  <2>4. Unsuccessful' = Unsuccessful
    BY <1>2, <1>8, <2>1 DEF Unsuccessful
  <2>5. Places'
    BY <1>1, <1>2, <1>3, <1>4, <1>8, <2>1, <2>4 DEF Places, Spoiled, Fifo
  <2>6. Grouped'
    BY <1>1, <2>1, <2>4 DEF Grouped, Fifo
  <2>7. Queued' /\ ReportsExactly'
    BY <1>1, <2>1 DEF Queued, ReportsExactly
  <2>8. QED
    BY <1>2, <1>5, <2>3, <2>5, <2>6, <2>7 DEF BatchInv
<1>9. CASE ShortCircuit(m) /\ m \notin Malformed /\ Failure(m, m) /\ UNCHANGED <<phase, running>>
  <2>1. m # None
    BY <1>2, MessageAssumption
  <2>2. QED
    BY <1>7, <1>9, <2>1
<1>10. CASE /\ ~ShortCircuit(m) /\ m \in Malformed /\ UNCHANGED <<phase, running>>
            /\ Failure(m, IF m \in processor.invalid THEN m ELSE None)
  <2>1. m # None
    BY <1>2, MessageAssumption
  <2>2. CASE m \in processor.invalid
    BY <1>7, <1>10, <2>1, <2>2
  <2>3. CASE m \notin processor.invalid
    BY <1>7, <1>10, <2>3 DEF Malformed
  <2>4. QED
    BY <2>2, <2>3
<1>11. QED
  BY <1>6, <1>8, <1>9, <1>10 DEF StartRecord

\* A handler ends: its record leaves running for one of the lists.
LEMMA HandlerEnds ==
  ASSUME BatchInv, NEW m \in Message, phase = "process", m \in running,
         running' = running \ {m},
         UNCHANGED <<processor, queue, phase, records, todo, result, kills, redo>>
  PROVE  /\ TypeOK /\ Order' /\ Places /\ Grouped /\ Queued /\ NoLoss /\ ReportsExactly'
         /\ Cardinality(running') = Cardinality(running) - 1
         /\ running' \subseteq Message
         /\ BegunRecords' = BegunRecords
         /\ m \in BegunRecords /\ m \notin SetOf(success) /\ m # None
PROOF
<1>1. TypeOK /\ Order /\ Places /\ Grouped /\ Queued /\ NoLoss /\ ReportsExactly
  BY DEF BatchInv
<1>2. Order' /\ ReportsExactly' /\ BegunRecords' = BegunRecords
  BY <1>1 DEF Order, ReportsExactly, BegunRecords, Begun
<1>3. Cardinality(running') = Cardinality(running) - 1
  BY <1>1, Types, FS_RemoveElement
<1>4. m \in BegunRecords /\ m \notin SetOf(success) /\ m # None /\ running' \subseteq Message
  BY <1>1, Types, MessageAssumption DEF Places
<1>5. QED
  BY <1>1, <1>2, <1>3, <1>4

LEMMA HandlerReturnsKeeps ==
  ASSUME BatchInv, NEW m \in Message, HandlerReturns(m)
  PROVE  BatchInv'
PROOF
<1>1. /\ phase = "process" /\ m \in running /\ running' = running \ {m}
      /\ success' = Append(success, m) /\ handled' = handled \cup {m}
      /\ UNCHANGED <<processor, queue, phase, records, todo, fail, failedGroups, result, kills, redo>>
  BY DEF HandlerReturns
<1>2. /\ TypeOK /\ Order' /\ Places /\ Grouped /\ Queued /\ NoLoss /\ ReportsExactly'
      /\ Cardinality(running') = Cardinality(running) - 1
      /\ running' \subseteq Message
      /\ BegunRecords' = BegunRecords
      /\ m \in BegunRecords /\ m \notin SetOf(success) /\ m # None
  BY <1>1, HandlerEnds
<1>3. /\ success' \in Seq(Message) /\ Len(success') = Len(success) + 1
      /\ SetOf(success') = SetOf(success) \cup {m}
  BY <1>1, <1>2, Types, Appended
<1>4. TypeOK'
  BY <1>1, <1>2, <1>3, Types, SMTT(30) DEF TypeOK
<1>5. Unsuccessful' = Unsuccessful
  BY <1>1, <1>2, <1>3 DEF Unsuccessful
<1>6. Places'
  BY <1>1, <1>2, <1>3, <1>5 DEF Places, Spoiled, Fifo
<1>7. Grouped'
  BY <1>1, <1>2, <1>5 DEF Grouped, Fifo
<1>8. Queued' /\ NoLoss'
  BY <1>1, <1>2, <1>3 DEF Queued, NoLoss
<1>9. QED
  BY <1>2, <1>4, <1>6, <1>7, <1>8 DEF BatchInv

LEMMA HandlerRaisesKeeps ==
  ASSUME BatchInv, NEW m \in Message, HandlerRaises(m)
  PROVE  BatchInv'
PROOF
<1>1. /\ phase = "process" /\ m \in running /\ running' = running \ {m}
      /\ Failure(m, m)
      /\ UNCHANGED <<processor, queue, phase, records, todo, result, kills, handled, redo>>
  BY DEF HandlerRaises
<1>2. /\ TypeOK /\ Order' /\ Places /\ Grouped /\ Queued /\ NoLoss /\ ReportsExactly'
      /\ Cardinality(running') = Cardinality(running) - 1
      /\ running' \subseteq Message
      /\ BegunRecords' = BegunRecords
      /\ m \in BegunRecords /\ m \notin SetOf(success) /\ m # None
  BY <1>1, HandlerEnds
<1>3. /\ fail' \in Seq(Message \cup {None})
      /\ SetOf(fail') = SetOf(fail) \cup {m}
      /\ Len(fail') = Len(fail) + 1
      /\ fail' # <<>>
      /\ success' = success
      /\ failedGroups \subseteq failedGroups'
      /\ failedGroups' \subseteq failedGroups \cup {Group[m]}
      /\ Fifo /\ processor.skip => Group[m] \in failedGroups'
  BY <1>1, <1>2, FailureStep
<1>4. TypeOK'
  BY <1>1, <1>2, <1>3, Types DEF TypeOK
<1>5. Unsuccessful' = Unsuccessful \cup {m}
  BY <1>1, <1>2, <1>3 DEF Unsuccessful
<1>6. Places'
  BY <1>1, <1>2, <1>3, <1>5 DEF Places, Spoiled, Fifo
<1>7. failedGroups' \subseteq {Group[n] : n \in Unsuccessful'}
  BY <1>2, <1>3, <1>5 DEF Grouped
<1>8. Grouped'
  BY <1>1, <1>2, <1>3, <1>5, <1>7 DEF Grouped, Fifo
<1>9. Queued' /\ NoLoss'
  BY <1>1, <1>2, <1>3 DEF Queued, NoLoss
<1>10. QED
  BY <1>2, <1>4, <1>6, <1>8, <1>9 DEF BatchInv

LEMMA ListsType ==
  ASSUME TypeOK, None \notin SetOf(fail)
  PROVE  fail \in Seq(Message)
PROOF
<1>1. fail \in Seq(Message \cup {None}) /\ Len(fail) \in Nat
  BY Types
<1>2. \A i \in 1..Len(fail) : fail[i] \in Message
  BY <1>1 DEF SetOf
<1>3. QED
  BY <1>1, <1>2

LEMMA EmptyLists ==
  ASSUME NEW S, NEW s \in Seq(S)
  PROVE  Len(s) = 0 <=> s = <<>>
PROOF
  OBVIOUS

LEMMA ExitKeeps ==
  ASSUME BatchInv, Exit
  PROVE  BatchInv'
PROOF
<1>1. /\ phase = "raising" \/ (phase = "process" /\ todo = <<>> /\ running = {})
      /\ failedGroups' = {}
      /\ phase' = "ended"
      /\ UNCHANGED <<processor, queue, records, todo, running, success, fail, kills, handled, redo>>
      /\ TypeOK /\ Order /\ Places /\ Grouped /\ Queued /\ NoLoss
  BY DEF Exit, Clean, BatchInv
<1>2. \/ result' = Error /\ phase = "raising"
      \/ result' = Error /\ fail # <<>> /\ EntireBatchFailed /\ processor.raise
      \/ result' = Error /\ None \in SetOf(fail)
      \/ /\ result' = [error |-> FALSE, failures |-> fail]
         /\ None \notin SetOf(fail) /\ phase = "process"
  BY <1>1 DEF Exit, Clean
<1>3. running = {}
  BY <1>1 DEF Places
<1>4. result' \in Result
  <2>1. Error \in Result
    BY DEF Error, Result
  <2>2. None \notin SetOf(fail) => [error |-> FALSE, failures |-> fail] \in Result
    BY <1>1, ListsType DEF Result
  <2>3. QED
    BY <1>2, <2>1, <2>2
<1>5. TypeOK'
  BY <1>1, <1>4 DEF TypeOK
<1>6. Order' /\ BegunRecords' = BegunRecords /\ Unsuccessful' = Unsuccessful
  BY <1>1 DEF Order, Begun, BegunRecords, Unsuccessful
<1>7. Places'
  BY <1>1, <1>3, <1>6 DEF Places, Spoiled, Fifo
<1>8. Grouped' /\ Queued' /\ NoLoss'
  BY <1>1 DEF Grouped, Queued, NoLoss
<1>9. phase = "process" =>
        /\ BegunRecords = SetOf(records)
        /\ Len(success) + Len(fail) = Len(records)
  <2>1. SUFFICES ASSUME phase = "process"
                 PROVE  /\ BegunRecords = SetOf(records)
                        /\ Len(success) + Len(fail) = Len(records)
    OBVIOUS
  <2>2. Len(todo) = 0 /\ Len(records) \in Nat /\ DOMAIN records = 1..Len(records)
    BY <1>1, <2>1, Types
  <2>3. Cardinality(running) = 0
    BY <1>3, FS_EmptySet
  <2>4. Len(success) + Len(fail) = Len(records)
    BY <1>1, <2>1, <2>2, <2>3, Types DEF TypeOK
  <2>5. Begun = Len(records)
    BY <2>2 DEF Begun
  <2>6. QED
    BY <2>2, <2>4, <2>5 DEF BegunRecords, SetOf
<1>10. ReportsExactly'
  <2>1. CASE result' = Error /\ (phase = "raising" \/ None \in SetOf(fail))
    <3>1. Spoiled
      BY <1>1, <2>1 DEF Places, Spoiled
    <3>2. Spoiled'
      BY <1>1, <3>1 DEF Spoiled, Fifo
    <3>3. QED
      BY <2>1, <3>2 DEF ReportsExactly, Error
  <2>2. CASE /\ result' = Error /\ phase = "process" /\ EntireBatchFailed /\ processor.raise
    <3>1. Len(success) = 0
      BY <1>1, <1>9, <2>2, Types DEF EntireBatchFailed
    <3>2. success = <<>>
      BY <1>1, <3>1, Types, EmptyLists
    <3>3. QED
      BY <1>1, <2>2, <3>2 DEF ReportsExactly, Error
  <2>3. CASE /\ result' = [error |-> FALSE, failures |-> fail]
             /\ None \notin SetOf(fail) /\ phase = "process"
    <3>1. SetOf(fail) = SetOf(records) \ SetOf(success)
      BY <1>1, <1>3, <1>9, <2>3 DEF Places, Unsuccessful
    <3>2. Len(fail) + Len(success) = Len(records)
      BY <1>1, <1>9, <2>3, Types
    <3>3. QED
      BY <1>1, <2>3, <3>1, <3>2 DEF ReportsExactly
  <2>4. QED
    BY <1>1, <1>2, <2>1, <2>2, <2>3
<1>11. QED
  BY <1>5, <1>6, <1>7, <1>8, <1>10 DEF BatchInv

\* What remains when an invocation is over.
LEMMA ResetKeeps ==
  ASSUME TypeOK', NoLoss', phase' = "idle", records' = <<>>, todo' = <<>>, running' = {},
         failedGroups' = {}, queue' \cap handled' \subseteq redo'
  PROVE  BatchInv'
PROOF
<1>1. Order' /\ BegunRecords' = {}
  BY DEF Order, Begun, BegunRecords, Increasing
<1>2. Places' /\ Grouped' /\ Queued' /\ ReportsExactly'
  BY DEF Places, Grouped, Queued, ReportsExactly
<1>3. QED
  BY <1>1, <1>2 DEF BatchInv

LEMMA SettleKeeps ==
  ASSUME BatchInv, Settle
  PROVE  BatchInv'
PROOF
<1>1. /\ phase = "ended" /\ phase' = "idle" /\ records' = <<>> /\ todo' = <<>>
      /\ UNCHANGED <<processor, running, success, fail, failedGroups, result, kills, handled>>
      /\ TypeOK /\ Order /\ Places /\ Grouped /\ Queued /\ NoLoss /\ ReportsExactly
  BY DEF Settle, lists, BatchInv
<1>2. running = {} /\ failedGroups = {} /\ SetOf(success) \subseteq handled
  BY <1>1 DEF Places, Grouped, Queued
<1>3. CASE result.error
  <2>1. queue' = queue /\ redo' = redo \cup (SetOf(records) \cap handled)
    BY <1>3 DEF Settle
  <2>2. SetOf(success) \subseteq SetOf(records)
    BY <1>1, BegunIn DEF Places
  <2>3. queue' \cap handled' \subseteq redo'
    BY <1>1, <1>2, <2>1, <2>2 DEF Queued
  <2>4. TypeOK' /\ NoLoss'
    BY <1>1, <2>1 DEF TypeOK, NoLoss
  <2>5. QED
    BY <1>1, <1>2, <2>3, <2>4, ResetKeeps
<1>4. CASE ~result.error
  <2>1. queue' = queue \ (SetOf(records) \ SetOf(result.failures)) /\ redo' = redo
    BY <1>4 DEF Settle
  <2>2. SetOf(result.failures) = SetOf(records) \ SetOf(success)
    BY <1>1, <1>4 DEF ReportsExactly
  <2>3. SetOf(success) \subseteq SetOf(records)
    BY <1>1, BegunIn DEF Places
  <2>4. queue' \cap handled' \subseteq redo'
    BY <1>1, <1>2, <2>1, <2>2, <2>3 DEF Queued
  <2>5. NoLoss'
    BY <1>1, <1>2, <2>1, <2>2 DEF NoLoss
  <2>6. TypeOK'
    BY <1>1, <2>1 DEF TypeOK
  <2>7. QED
    BY <1>1, <1>2, <2>4, <2>5, <2>6, ResetKeeps
<1>5. QED
  BY <1>3, <1>4

LEMMA KillKeeps ==
  ASSUME BatchInv, Kill
  PROVE  BatchInv'
PROOF
<1>1. /\ phase # "idle" /\ phase' = "idle" /\ records' = <<>> /\ todo' = <<>> /\ running' = {}
      /\ success' = <<>> /\ fail' = <<>> /\ failedGroups' = {} /\ result' = NoFailures
      /\ kills < MaxKills /\ kills' = kills + 1
      /\ redo' = redo \cup (SetOf(records) \cap handled)
      /\ UNCHANGED <<processor, queue, handled>>
      /\ TypeOK /\ Order /\ Places /\ Queued /\ NoLoss
  BY DEF Kill, BatchInv
<1>2. SetOf(success) \subseteq SetOf(records)
  BY <1>1, BegunIn DEF Places
<1>3. queue' \cap handled' \subseteq redo'
  BY <1>1, <1>2 DEF Queued
<1>4. TypeOK'
  BY <1>1, ProcessorAssumption DEF TypeOK, NoFailures, Result
<1>5. NoLoss'
  BY <1>1 DEF NoLoss
<1>6. QED
  BY <1>1, <1>3, <1>4, <1>5, ResetKeeps

LEMMA InitBatch == Init => BatchInv
PROOF
<1> SUFFICES ASSUME Init PROVE BatchInv
  OBVIOUS
<1>1. TypeOK
  BY ProcessorAssumption DEF Init, TypeOK, NoFailures, Result
<1>2. Order /\ BegunRecords = {}
  BY DEF Init, Order, Begun, BegunRecords, Increasing
<1>3. Places /\ Grouped /\ Queued /\ NoLoss /\ ReportsExactly
  BY DEF Init, Places, Grouped, Queued, NoLoss, ReportsExactly
<1>4. QED
  BY <1>1, <1>2, <1>3 DEF BatchInv

LEMMA NextBatch == BatchInv /\ [Next]_vars => BatchInv'
PROOF
<1> SUFFICES ASSUME BatchInv, [Next]_vars PROVE BatchInv'
  OBVIOUS
<1>1. CASE Deliver \/ StartRecord \/ Exit \/ Settle \/ Kill
  BY <1>1, DeliverKeeps, StartRecordKeeps, ExitKeeps, SettleKeeps, KillKeeps
<1>2. ASSUME NEW m \in Message, HandlerReturns(m) \/ HandlerRaises(m) PROVE BatchInv'
  BY <1>2, HandlerReturnsKeeps, HandlerRaisesKeeps
<1>3. CASE UNCHANGED vars
  <2>1. /\ UNCHANGED <<processor, queue, phase, records, todo, running>>
        /\ UNCHANGED <<success, fail, failedGroups, result, kills, handled, redo>>
    BY <1>3 DEF vars, lists
  <2>2. TypeOK' /\ NoLoss' /\ ReportsExactly'
    BY <2>1 DEF BatchInv, TypeOK, NoLoss, ReportsExactly, Spoiled, Fifo
  <2>3. Order' /\ BegunRecords' = BegunRecords /\ Unsuccessful' = Unsuccessful
    BY <2>1 DEF BatchInv, Order, Increasing, Begun, BegunRecords, Unsuccessful
  <2>4. Places' /\ Queued'
    BY <2>1, <2>3 DEF BatchInv, Places, Queued, Spoiled, Fifo
  <2>5. Grouped'
    BY <2>1, <2>3 DEF BatchInv, Grouped, Fifo
  <2>6. QED
    BY <2>2, <2>3, <2>4, <2>5 DEF BatchInv
<1>4. QED
  BY <1>1, <1>2, <1>3 DEF Next, Finished

------------------------------------------------------------------------------
(* The theorems *)

\* Every variable holds what it should, and no record is in two places: each is
\* waiting, with its handler, or in one of the two lists.
THEOREM TypeCorrect == Spec => []TypeOK
PROOF
<1>1. BatchInv => TypeOK
  BY DEF BatchInv
<1>2. QED
  BY <1>1, InitBatch, NextBatch, PTL DEF Spec

\* No message leaves the queue before its handler has returned for it, whichever
\* processor gets whichever batches and whenever environments die.
THEOREM NothingLost == Spec => []NoLoss
PROOF
<1>1. BatchInv => NoLoss
  BY DEF BatchInv
<1>2. QED
  BY <1>1, InitBatch, NextBatch, PTL DEF Spec

\* What the response names is what did not succeed, each once; an invocation
\* fails as a whole only if it is told to and nothing succeeded, or if the batch
\* holds a record that spoils it (see Spoiled).
THEOREM ReportExact == Spec => []ReportsExactly
PROOF
<1>1. BatchInv => ReportsExactly
  BY DEF BatchInv
<1>2. QED
  BY <1>1, InitBatch, NextBatch, PTL DEF Spec

\* A record whose handler is called: the next one, and not short-circuited.
LEMMA NewlyRunning ==
  ASSUME BatchInv, [Next]_vars, NEW m, m \in running' \ running
  PROVE  /\ phase = "process" /\ m \in SetOf(records) /\ m \in Message /\ ~ShortCircuit(m)
         /\ m \notin BegunRecords
         /\ \A n \in SetOf(records) : n < m => n \in BegunRecords
         /\ processor.kind # "async" => running = {}
PROOF
<1>1. StartRecord
  BY DEF Next, Deliver, HandlerReturns, HandlerRaises, Exit, Settle, Kill, Finished, vars
<1>2. /\ m = Head(todo) /\ ~ShortCircuit(m) /\ phase = "process" /\ todo # <<>>
      /\ todo' = Tail(todo) /\ records' = records
      /\ processor.kind # "async" => running = {}
  BY <1>1 DEF StartRecord
<1>3. QED
  BY <1>2, NextRecord DEF BatchInv

\* Over all deliveries, a FIFO processor calls the handler of a message only when
\* those of all older messages of its group have returned.
THEOREM GroupsInOrder == Spec => GroupOrder
PROOF
<1> DEFINE InTurn == \A m \in Message :
                       Fifo /\ m \in running' \ running
                         => \A n \in Message : n < m /\ Group[n] = Group[m] => n \in handled
<1>1. BatchInv /\ [Next]_vars => InTurn
  <2> SUFFICES ASSUME BatchInv, [Next]_vars, NEW m \in Message, Fifo, m \in running' \ running,
                      NEW n \in Message, n < m, Group[n] = Group[m]
               PROVE  n \in handled
    OBVIOUS
  <2>1. /\ phase = "process" /\ m \in SetOf(records) /\ ~ShortCircuit(m) /\ running = {}
        /\ \A i \in SetOf(records) : i < m => i \in BegunRecords
    BY NewlyRunning DEF Fifo
  <2>2. CASE n \notin queue
    BY <2>2 DEF BatchInv, NoLoss
  <2>3. CASE n \in queue
    <3>1. n \in BegunRecords
      BY <2>1, <2>3 DEF BatchInv, Grouped
    <3>2. n \notin Unsuccessful
      BY <2>1 DEF BatchInv, Grouped, ShortCircuit
    <3>3. QED
      BY <2>1, <3>1, <3>2 DEF Unsuccessful, BatchInv, Queued
  <2>4. QED
    BY <2>2, <2>3
<1>2. BatchInv /\ [Next]_vars => [InTurn]_vars
  BY <1>1
<1>3. QED
  BY <1>2, InitBatch, NextBatch, PTL DEF Spec, GroupOrder

\* A handler that has returned for a message is called for it again only if an
\* invocation that held the message failed as a whole or was killed.
THEOREM NoRerun == Spec => NoNeedlessRerun
PROOF
<1> DEFINE Needed == \A m \in Message : m \in running' \ running /\ m \in handled => m \in redo
<1>1. BatchInv /\ [Next]_vars => Needed
  <2> SUFFICES ASSUME BatchInv, [Next]_vars, NEW m \in Message,
                      m \in running' \ running, m \in handled
               PROVE  m \in redo
    OBVIOUS
  <2>1. phase = "process" /\ m \in SetOf(records) /\ m \notin BegunRecords
    BY NewlyRunning
  <2>2. m \in queue /\ m \notin SetOf(success)
    BY <2>1 DEF BatchInv, Queued, Places
  <2>3. QED
    BY <2>1, <2>2 DEF BatchInv, Queued
<1>2. BatchInv /\ [Next]_vars => [Needed]_vars
  BY <1>1
<1>3. QED
  BY <1>2, InitBatch, NextBatch, PTL DEF Spec, NoNeedlessRerun

\* With skip_group_on_error a well-formed message whose handler is not called is
\* failed only behind an older one of its own group that this invocation failed.
THEOREM OthersGoOn == Spec => OtherGroupsGoOn
PROOF
<1> DEFINE Behind == \A m \in Message :
                       /\ Fifo /\ processor.skip
                       /\ m \notin Malformed
                       /\ Len(fail') > Len(fail)
                       /\ fail'[Len(fail')] = m
                       /\ m \notin running
                       => \E n \in SetOf(records) \ SetOf(success) : n < m /\ Group[n] = Group[m]
<1>1. BatchInv /\ [Next]_vars => Behind
  <2> SUFFICES ASSUME BatchInv, [Next]_vars, NEW m \in Message, Fifo, processor.skip,
                      m \notin Malformed, Len(fail') > Len(fail), fail'[Len(fail')] = m,
                      m \notin running
               PROVE  \E n \in SetOf(records) \ SetOf(success) : n < m /\ Group[n] = Group[m]
    OBVIOUS
  <2>1. TypeOK /\ Len(fail) \in Nat
    BY Types DEF BatchInv
  <2>2. ASSUME fail' = fail \/ fail' = <<>> PROVE FALSE
    BY <2>1, <2>2
  <2>3. ASSUME NEW n \in Message, HandlerRaises(n) PROVE FALSE
    BY <2>1, <2>3, FailureStep DEF HandlerRaises
  <2>4. StartRecord /\ UNCHANGED records
    BY <2>2, <2>3 DEF Next, Deliver, Prepare, HandlerReturns, Exit, Settle, lists, Kill, Finished,
       vars, StartRecord
  <2> PICK h : h = Head(todo)
    OBVIOUS
  <2>5. /\ h \in Message /\ h \in SetOf(records)
        /\ \A n \in BegunRecords : n < h
    BY <2>1, <2>4, NextRecord DEF StartRecord, BatchInv
  <2>6. PICK x \in {h, None} :
          /\ Failure(h, x)
          /\ ShortCircuit(h) \/ h \in Malformed
    BY <2>2, <2>4 DEF StartRecord, lists
  <2>7. h = m
    BY <2>1, <2>5, <2>6, FailureStep, MessageAssumption
  <2>8. Group[m] \in failedGroups
    BY <2>6, <2>7 DEF ShortCircuit
  <2>9. PICK n \in Unsuccessful : Group[n] = Group[m]
    BY <2>8 DEF BatchInv, Grouped
  <2>10. BegunRecords \subseteq SetOf(records)
    BY BegunIn DEF BatchInv
  <2>11. QED
    BY <2>5, <2>7, <2>9, <2>10 DEF Unsuccessful
<1>2. BatchInv /\ [Next]_vars => [Behind]_vars
  BY <1>1
<1>3. QED
  BY <1>2, InitBatch, NextBatch, PTL DEF Spec, OtherGroupsGoOn
=============================================================================
