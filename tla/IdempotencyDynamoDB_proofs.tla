---------------------- MODULE IdempotencyDynamoDB_proofs ----------------------
(***************************************************************************)
(* Proofs about module IdempotencyDynamoDB: type correctness, and that no  *)
(* two invocations execute the function for one key at the same time, for  *)
(* any numbers of environments, keys, payloads, invocations and ticks.     *)
(***************************************************************************)
EXTENDS IdempotencyDynamoDB, TLAPS

------------------------------------------------------------------------------
(* Type correctness *)

Caches == [Key -> DataRecord \cup {None}]

\* A step of e leaves the other invocations where they are.
OthersSame(e) ==
  \A f \in Env \ {e} : pc'[f] = pc[f] /\ call'[f] = call[f] /\ rec'[f] = rec[f]

\* The invariant, unfolded for the provers.
LEMMA Types ==
  ASSUME TypeOK
  PROVE  /\ now \in 0..MaxTime
         /\ now \in Nat
         /\ store \in Caches
         /\ cache \in [Env -> Caches]
         /\ pc \in [Env -> Labels]
         /\ call \in [Env -> Call]
         /\ rec \in [Env -> DataRecord \cup {None}]
         /\ out \in [Env -> Outcome]
         /\ invocations \in 0..MaxInvocations
         /\ \A e \in Env : WellFormed(e)
PROOF
  BY TimeAssumption DEF TypeOK, TypeOKWith, Caches

\* It suffices to look at what a step does to the invocation it is a step of.
LEMMA StepType ==
  ASSUME TypeOK, NEW e \in Env,
         now' = now,
         store' \in Caches,
         cache' \in [Env -> Caches],
         pc' \in [Env -> Labels],
         call' \in [Env -> Call],
         rec' \in [Env -> DataRecord \cup {None}],
         out' \in [Env -> Outcome],
         invocations' \in 0..MaxInvocations,
         OthersSame(e),
         WellFormed(e)'
  PROVE  TypeOK'
PROOF
<1>1. ASSUME NEW f \in Env PROVE WellFormed(f)'
  <2>1. CASE f = e
    BY <2>1
  <2>2. CASE f # e
    BY <2>2, Types DEF OthersSame, WellFormed, Active
  <2>3. QED
    BY <2>1, <2>2
<1>2. QED
  BY <1>1, Types DEF TypeOK, TypeOKWith, Caches

Kinds == {"none", "response", "KeyError", "ValidationError", "AlreadyInProgress",
          "InconsistentState", "PersistenceLayerError", "FunctionError"}

LEMMA RaiseType ==
  ASSUME TypeOK, NEW e \in Env, NEW kind \in Kinds, Raise(e, kind)
  PROVE  /\ pc' = [pc EXCEPT ![e] = "done"]
         /\ pc' \in [Env -> Labels]
         /\ out' \in [Env -> Outcome]
PROOF
<1>1. [kind |-> kind, data |-> None] \in Outcome
  BY DEF Outcome, Kinds
<1>2. QED
  BY <1>1, Types DEF Raise, Goto, Labels

LEMMA GotoType ==
  ASSUME TypeOK, NEW e \in Env, NEW label \in Labels, Goto(e, label)
  PROVE  /\ pc' = [pc EXCEPT ![e] = label]
         /\ pc' \in [Env -> Labels]
         /\ pc'[e] = label
         /\ \A f \in Env \ {e} : pc'[f] = pc[f]
PROOF
  BY Types DEF Goto

\* The attempts never exceed MAX_RETRIES.
LEMMA RetryType ==
  ASSUME TypeOK, NEW e \in Env, Retry(e)
  PROVE  /\ pc' \in [Env -> Labels]
         /\ call' \in [Env -> Call]
         /\ out' \in [Env -> Outcome]
         /\ pc'[e] \in {"done", "save"}
         /\ call'[e].payload = call[e].payload
         /\ call'[e].key = call[e].key
         /\ call'[e].deadline = call[e].deadline
         /\ \A f \in Env \ {e} : pc'[f] = pc[f] /\ call'[f] = call[f]
PROOF
<1>1. CASE call[e].tries = MAX_RETRIES
  <2>1. Raise(e, "InconsistentState") /\ call' = call
    BY <1>1 DEF Retry
  <2>2. QED
    BY <2>1, RaiseType, Types DEF Kinds, Labels
<1>2. CASE call[e].tries # MAX_RETRIES
  <2>1. /\ call' = [call EXCEPT ![e].tries = @ + 1]
        /\ Goto(e, "save")
        /\ out' = out
    BY <1>2 DEF Retry
  <2>2. call[e] \in Call
    BY Types
  <2>3. call[e].tries + 1 \in 0..MAX_RETRIES
    BY <1>2, <2>2 DEF Call, MAX_RETRIES
  <2>4. [call[e] EXCEPT !.tries = @ + 1] \in Call
    BY <2>2, <2>3 DEF Call
  <2>5. call' \in [Env -> Call]
    BY <2>1, <2>4, Types
  <2>6. "save" \in Labels
    BY DEF Labels
  <2>7. /\ call'[e].payload = call[e].payload
        /\ call'[e].key = call[e].key
        /\ call'[e].deadline = call[e].deadline
        /\ \A f \in Env \ {e} : call'[f] = call[f]
    BY <2>1, <2>2, Types DEF Call
  <2>8. QED
    BY <2>1, <2>5, <2>6, <2>7, GotoType, Types
<1>3. QED
  BY <1>1, <1>2

LEMMA CallFields ==
  ASSUME TypeOK, NEW e \in Env
  PROVE  /\ call[e].key \in Key \cup {NoKey}
         /\ call[e].payload \in Payload \cup {None}
         /\ call[e].context \in BOOLEAN
         /\ call[e].deadline \in Nat
         /\ call[e].at \in Nat
         /\ call[e].id \in Nat
PROOF
  BY Types DEF Call

LEMMA SecondType == ASSUME NEW t \in Nat PROVE Second(t) \in Nat
PROOF
  BY TimeAssumption DEF Second

\* The two records a layer writes.
LEMMA NewInProgressType ==
  ASSUME TypeOK, NEW e \in Env
  PROVE  /\ NewInProgress(e) \in DataRecord
         /\ NewInProgress(e).status = "INPROGRESS"
         /\ NewInProgress(e).inprog \in {None, call[e].deadline}
         /\ NewInProgress(e).expiry = Second(now) + ExpiresAfter
PROOF
<1>1. Second(now) + ExpiresAfter \in Nat
  BY SecondType, Types, TimeAssumption
<1>2. HashedPayload(e) \in Payload \cup {None}
  BY CallFields DEF HashedPayload
<1>3. QED
  BY <1>1, <1>2, CallFields DEF NewInProgress, DataRecord

LEMMA NewCompletedType ==
  ASSUME TypeOK, NEW e \in Env, NEW response \in Result
  PROVE  NewCompleted(e, response) \in DataRecord
PROOF
<1>1. Second(now) + ExpiresAfter \in Nat
  BY SecondType, Types, TimeAssumption
<1>2. HashedPayload(e) \in Payload \cup {None}
  BY CallFields DEF HashedPayload
<1>3. QED
  BY <1>1, <1>2 DEF NewCompleted, DataRecord

\* Whatever entry is evicted, a cache stays a cache.
LEMMA CachePutType ==
  ASSUME NEW c \in Caches, NEW k \in Key, NEW r \in DataRecord,
         NEW c2 \in CachePut(c, k, r)
  PROVE  c2 \in Caches
PROOF
  BY DEF CachePut, Caches, Held

LEMMA PurgedType ==
  ASSUME TypeOK, NEW e \in Env, NEW k \in Key
  PROVE  Purged(e, k) \in Caches
PROOF
  BY Types DEF Purged, Caches

LEMMA SaveToCacheType ==
  ASSUME TypeOK, NEW e \in Env, NEW c \in Caches, NEW r \in DataRecord,
         call[e].key \in Key, SaveToCache(e, c, r)
  PROVE  cache' \in [Env -> Caches]
PROOF
<1>1. PICK c2 \in IF UseLocalCache /\ Status(r, now) # "INPROGRESS"
                  THEN CachePut(c, call[e].key, r)
                  ELSE {c} :
        cache' = [cache EXCEPT ![e] = c2]
  BY DEF SaveToCache
<1>2. c2 \in Caches
  BY <1>1, CachePutType
<1>3. QED
  BY <1>1, <1>2, Types

LEMMA DeleteFromCacheType ==
  ASSUME TypeOK, NEW e \in Env, DeleteFromCache(e)
  PROVE  cache' \in [Env -> Caches]
PROOF
<1>1. cache[e] \in Caches
  BY Types
<1>2. [cache[e] EXCEPT ![call[e].key] = None] \in Caches
  BY <1>1 DEF Caches
<1>3. QED
  BY <1>2, Types DEF DeleteFromCache

\* Reading a record ends the call or moves on to look at the record.
LEMMA FoundType ==
  ASSUME TypeOK, NEW e \in Env, NEW c \in Caches, NEW r \in DataRecord,
         call[e].key \in Key, call[e].payload \in Payload, Found(e, c, r),
         call' = call
  PROVE  /\ pc' \in [Env -> Labels]
         /\ out' \in [Env -> Outcome]
         /\ rec' \in [Env -> DataRecord \cup {None}]
         /\ cache' \in [Env -> Caches]
         /\ OthersSame(e)
         /\ WellFormed(e)'
         /\ pc'[e] \in {"done", "handle"}
PROOF
<1>1. CASE Mismatch(e, r)
  <2>1. /\ Raise(e, "ValidationError")
        /\ cache' = [cache EXCEPT ![e] = c]
        /\ rec' = rec
    BY <1>1 DEF Found
  <2>2. /\ pc' = [pc EXCEPT ![e] = "done"]
        /\ pc' \in [Env -> Labels]
        /\ out' \in [Env -> Outcome]
    BY <2>1, RaiseType DEF Kinds
  <2>3. QED
    BY <2>1, <2>2, Types DEF OthersSame, WellFormed, Active
<1>2. CASE ~Mismatch(e, r)
  <2>1. /\ SaveToCache(e, c, r)
        /\ rec' = [rec EXCEPT ![e] = r]
        /\ Goto(e, "handle")
        /\ out' = out
    BY <1>2 DEF Found
  <2>2. "handle" \in Labels
    BY DEF Labels
  <2>3. /\ pc' \in [Env -> Labels]
        /\ pc'[e] = "handle"
        /\ \A f \in Env \ {e} : pc'[f] = pc[f]
    BY <2>1, <2>2, GotoType
  <2>4. cache' \in [Env -> Caches]
    BY <2>1, SaveToCacheType
  <2>5. /\ rec' \in [Env -> DataRecord \cup {None}]
        /\ rec'[e] = r
        /\ \A f \in Env \ {e} : rec'[f] = rec[f]
    BY <2>1, Types
  <2>6. QED
    BY <2>1, <2>3, <2>4, <2>5, Types DEF OthersSame, WellFormed, Active
<1>3. QED
  BY <1>1, <1>2

------------------------------------------------------------------------------
(* Type correctness, one lemma per action *)

LEMMA BeginType ==
  ASSUME TypeOK, NEW e \in Env, Begin(e)
  PROVE  TypeOK'
PROOF
<1>1. PICK k \in Key \cup {NoKey}, p \in Payload, r \in Remaining, c \in Contexts :
        call' = [call EXCEPT ![e] =
                   [key |-> k, payload |-> p, context |-> c, deadline |-> now + r,
                    tries |-> 0, at |-> now, id |-> invocations + 1]]
  BY DEF Begin
<1>2. now + r \in Nat /\ invocations + 1 \in 0..MaxInvocations
  BY Types, TimeAssumption, OptionAssumption DEF Begin
<1>3. [key |-> k, payload |-> p, context |-> c, deadline |-> now + r,
       tries |-> 0, at |-> now, id |-> invocations + 1] \in Call
  BY <1>2, Types, OptionAssumption DEF Call, MAX_RETRIES
<1>4. /\ call' \in [Env -> Call]
      /\ call'[e].payload = p
      /\ \A f \in Env \ {e} : call'[f] = call[f]
  BY <1>1, <1>3, Types
<1>5. "save" \in Labels
  BY DEF Labels
<1>6. /\ Goto(e, "save")
      /\ invocations' = invocations + 1
      /\ UNCHANGED <<now, store, cache, rec, out>>
  BY DEF Begin
<1>7. /\ pc' \in [Env -> Labels]
      /\ pc'[e] = "save"
      /\ \A f \in Env \ {e} : pc'[f] = pc[f]
  BY <1>5, <1>6, GotoType
<1>8. OthersSame(e) /\ WellFormed(e)'
  BY <1>4, <1>6, <1>7 DEF OthersSame, WellFormed
<1>9. QED
  BY <1>2, <1>4, <1>6, <1>7, <1>8, Types, StepType

LEMMA SaveInProgressType ==
  ASSUME TypeOK, NEW e \in Env, SaveInProgress(e)
  PROVE  TypeOK'
PROOF
<1>1. /\ pc[e] = "save"
      /\ UNCHANGED <<now, store, invocations>>
      /\ call[e].payload \in Payload
  BY Types DEF SaveInProgress, WellFormed, Active
<1>2. CASE call[e].key = NoKey
  <2>1. UNCHANGED <<cache, call, rec>>
    BY <1>2 DEF SaveInProgress
  <2>2. CASE Raise(e, "KeyError")
    <3>1. pc' = [pc EXCEPT ![e] = "done"] /\ pc' \in [Env -> Labels] /\ out' \in [Env -> Outcome]
      BY <2>2, RaiseType DEF Kinds
    <3>2. OthersSame(e) /\ WellFormed(e)'
      BY <2>1, <3>1, Types DEF OthersSame, WellFormed, Active
    <3>3. QED
      BY <1>1, <2>1, <3>1, <3>2, Types, StepType
  <2>3. CASE Goto(e, "run") /\ out' = out
    <3>1. "run" \in Labels
      BY DEF Labels
    <3>2. pc' \in [Env -> Labels] /\ pc'[e] = "run" /\ \A f \in Env \ {e} : pc'[f] = pc[f]
      BY <2>3, <3>1, GotoType
    <3>3. OthersSame(e) /\ WellFormed(e)'
      BY <1>1, <2>1, <3>2 DEF OthersSame, WellFormed
    <3>4. QED
      BY <1>1, <2>1, <2>3, <3>2, <3>3, Types, StepType
  <2>4. QED
    BY <1>2, <2>2, <2>3 DEF SaveInProgress
<1>3. CASE call[e].key # NoKey
  <2>1. call[e].key \in Key
    BY <1>3, CallFields
  <2>2. cache' = [cache EXCEPT ![e] = Purged(e, call[e].key)] /\ out' = out
    BY <1>3 DEF SaveInProgress
  <2>3. cache' \in [Env -> Caches]
    BY <2>1, <2>2, PurgedType, Types
  <2>4. CASE Goto(e, "get") /\ UNCHANGED <<call, rec>>
    <3>1. "get" \in Labels
      BY DEF Labels
    <3>2. pc' \in [Env -> Labels] /\ pc'[e] = "get" /\ \A f \in Env \ {e} : pc'[f] = pc[f]
      BY <2>4, <3>1, GotoType
    <3>3. OthersSame(e) /\ WellFormed(e)'
      BY <1>1, <2>1, <2>4, <3>2 DEF OthersSame, WellFormed
    <3>4. QED
      BY <1>1, <2>2, <2>3, <2>4, <3>2, <3>3, Types, StepType
  <2>5. CASE /\ rec' = [rec EXCEPT ![e] = NewInProgress(e)]
             /\ call' = [call EXCEPT ![e].at = now]
             /\ Goto(e, "put")
    <3>1. "put" \in Labels
      BY DEF Labels
    <3>2. pc' \in [Env -> Labels] /\ pc'[e] = "put" /\ \A f \in Env \ {e} : pc'[f] = pc[f]
      BY <2>5, <3>1, GotoType
    <3>3. [call[e] EXCEPT !.at = now] \in Call
      BY Types DEF Call
    <3>4. /\ call' \in [Env -> Call]
          /\ call'[e] = [call[e] EXCEPT !.at = now]
          /\ \A f \in Env \ {e} : call'[f] = call[f]
      BY <2>5, <3>3, Types
    <3>5. call'[e].key = call[e].key /\ call'[e].payload = call[e].payload
      BY <3>4, Types DEF Call
    <3>6. /\ rec' \in [Env -> DataRecord \cup {None}]
          /\ rec'[e] \in DataRecord
          /\ \A f \in Env \ {e} : rec'[f] = rec[f]
      BY <2>5, NewInProgressType, Types
    <3>7. OthersSame(e) /\ WellFormed(e)'
      BY <1>1, <2>1, <3>2, <3>4, <3>5, <3>6 DEF OthersSame, WellFormed
    <3>8. QED
      BY <1>1, <2>2, <2>3, <3>2, <3>4, <3>6, <3>7, Types, StepType
  <2>6. QED
    BY <1>3, <2>4, <2>5 DEF SaveInProgress
<1>4. QED
  BY <1>2, <1>3

LEMMA GetCachedRecordType ==
  ASSUME TypeOK, NEW e \in Env, GetCachedRecord(e)
  PROVE  TypeOK'
PROOF
<1>1. /\ pc[e] = "get"
      /\ Cached(e, call[e].key) # None
      /\ UNCHANGED <<now, store, cache, call, invocations>>
  BY DEF GetCachedRecord
<1>2. call[e].payload \in Payload /\ call[e].key \in Key
  BY <1>1, Types DEF WellFormed, Active
<1>3. Cached(e, call[e].key) \in DataRecord
  BY <1>1, <1>2, Types DEF Cached, Caches
<1>4. CASE Raise(e, "ValidationError") /\ rec' = rec
  <2>1. pc' = [pc EXCEPT ![e] = "done"] /\ pc' \in [Env -> Labels] /\ out' \in [Env -> Outcome]
    BY <1>4, RaiseType DEF Kinds
  <2>2. OthersSame(e) /\ WellFormed(e)'
    BY <1>1, <1>4, <2>1, Types DEF OthersSame, WellFormed, Active
  <2>3. QED
    BY <1>1, <1>4, <2>1, <2>2, Types, StepType
<1>5. CASE /\ rec' = [rec EXCEPT ![e] = Cached(e, call[e].key)]
           /\ Goto(e, "handle")
           /\ out' = out
  <2>1. "handle" \in Labels
    BY DEF Labels
  <2>2. pc' \in [Env -> Labels] /\ pc'[e] = "handle" /\ \A f \in Env \ {e} : pc'[f] = pc[f]
    BY <1>5, <2>1, GotoType
  <2>3. /\ rec' \in [Env -> DataRecord \cup {None}]
        /\ rec'[e] \in DataRecord
        /\ \A f \in Env \ {e} : rec'[f] = rec[f]
    BY <1>3, <1>5, Types
  <2>4. OthersSame(e) /\ WellFormed(e)'
    BY <1>1, <1>2, <2>2, <2>3 DEF OthersSame, WellFormed
  <2>5. QED
    BY <1>1, <1>5, <2>2, <2>3, <2>4, Types, StepType
<1>6. QED
  BY <1>4, <1>5 DEF GetCachedRecord

LEMMA HandleForStatusType ==
  ASSUME TypeOK, NEW e \in Env, HandleForStatus(e)
  PROVE  TypeOK'
PROOF
<1>1. /\ pc[e] = "handle"
      /\ UNCHANGED <<now, store, cache, rec, invocations>>
  BY DEF HandleForStatus
<1>2. call[e].payload \in Payload /\ call[e].key \in Key /\ rec[e] \in DataRecord
  BY <1>1, Types DEF WellFormed, Active
<1>3. CASE Retry(e)
  <2>1. OthersSame(e) /\ WellFormed(e)'
    BY <1>1, <1>2, <1>3, RetryType DEF OthersSame, WellFormed
  <2>2. QED
    BY <1>1, <1>3, <2>1, RetryType, Types, StepType
<1>4. CASE Raise(e, "AlreadyInProgress") /\ call' = call
  <2>1. pc' = [pc EXCEPT ![e] = "done"] /\ pc' \in [Env -> Labels] /\ out' \in [Env -> Outcome]
    BY <1>4, RaiseType DEF Kinds
  <2>2. OthersSame(e) /\ WellFormed(e)'
    BY <1>1, <1>4, <2>1, Types DEF OthersSame, WellFormed, Active
  <2>3. QED
    BY <1>1, <1>4, <2>1, <2>2, Types, StepType
<1>5. CASE /\ out' = [out EXCEPT ![e] = [kind |-> "response", data |-> rec[e].data]]
           /\ Goto(e, "done")
           /\ call' = call
  <2>1. "done" \in Labels
    BY DEF Labels
  <2>2. pc' \in [Env -> Labels] /\ pc'[e] = "done" /\ \A f \in Env \ {e} : pc'[f] = pc[f]
    BY <1>5, <2>1, GotoType
  <2>3. [kind |-> "response", data |-> rec[e].data] \in Outcome
    BY <1>2 DEF Outcome, DataRecord
  <2>4. out' \in [Env -> Outcome]
    BY <1>5, <2>3, Types
  <2>5. OthersSame(e) /\ WellFormed(e)'
    BY <1>1, <1>5, <2>2 DEF OthersSame, WellFormed, Active
  <2>6. QED
    BY <1>1, <1>5, <2>2, <2>4, <2>5, Types, StepType
<1>6. QED
  BY <1>3, <1>4, <1>5 DEF HandleForStatus

LEMMA FunctionReturnsType ==
  ASSUME TypeOK, NEW e \in Env, FunctionReturns(e)
  PROVE  TypeOK'
PROOF
<1>1. /\ pc[e] = "run"
      /\ UNCHANGED <<now, store, cache, call, invocations>>
  BY DEF FunctionReturns
<1>2. call[e].payload \in Payload
  BY <1>1, Types DEF WellFormed, Active
<1> DEFINE response(f) == [by |-> call[e].id, payload |-> call[e].payload, falsy |-> f]
<1>3. PICK f \in Falsy :
        /\ out' = [out EXCEPT ![e] = [kind |-> "response", data |-> response(f)]]
        /\ \/ call[e].key = NoKey /\ Goto(e, "done") /\ rec' = rec
           \/ /\ call[e].key # NoKey
              /\ rec' = [rec EXCEPT ![e] = NewCompleted(e, response(f))]
              /\ Goto(e, "update")
  BY DEF FunctionReturns
<1>4. response(f) \in Result
  BY <1>2, CallFields, OptionAssumption DEF Result
<1> HIDE DEF response
<1>5. [kind |-> "response", data |-> response(f)] \in Outcome
  BY <1>4 DEF Outcome
<1>6. out' \in [Env -> Outcome]
  BY <1>3, <1>5, Types
<1>7. "done" \in Labels /\ "update" \in Labels
  BY DEF Labels
<1>8. CASE call[e].key = NoKey
  <2>1. pc' \in [Env -> Labels] /\ pc'[e] = "done" /\ \A g \in Env \ {e} : pc'[g] = pc[g]
    BY <1>3, <1>7, <1>8, GotoType
  <2>2. rec' = rec
    BY <1>3, <1>8
  <2>3. OthersSame(e) /\ WellFormed(e)'
    BY <1>1, <2>1, <2>2 DEF OthersSame, WellFormed, Active
  <2>4. QED
    BY <1>1, <1>6, <2>1, <2>2, <2>3, Types, StepType
<1>9. CASE call[e].key # NoKey
  <2>1. pc' \in [Env -> Labels] /\ pc'[e] = "update" /\ \A g \in Env \ {e} : pc'[g] = pc[g]
    BY <1>3, <1>7, <1>9, GotoType
  <2>2. NewCompleted(e, response(f)) \in DataRecord
    BY <1>4, NewCompletedType
  <2>3. /\ rec' \in [Env -> DataRecord \cup {None}]
        /\ rec'[e] \in DataRecord
        /\ \A g \in Env \ {e} : rec'[g] = rec[g]
    BY <1>3, <1>9, <2>2, Types
  <2>4. call[e].key \in Key
    BY <1>9, CallFields
  <2>5. OthersSame(e) /\ WellFormed(e)'
    BY <1>1, <1>2, <2>1, <2>3, <2>4 DEF OthersSame, WellFormed
  <2>6. QED
    BY <1>1, <1>6, <2>1, <2>3, <2>5, Types, StepType
<1>10. QED
  BY <1>8, <1>9

LEMMA FunctionRaisesType ==
  ASSUME TypeOK, NEW e \in Env, FunctionRaises(e)
  PROVE  TypeOK'
PROOF
<1>1. /\ pc[e] = "run"
      /\ UNCHANGED <<now, store, cache, call, rec, invocations>>
      /\ out' = [out EXCEPT ![e] = [kind |-> "FunctionError", data |-> None]]
  BY DEF FunctionRaises
<1>2. call[e].payload \in Payload
  BY <1>1, Types DEF WellFormed, Active
<1>3. [kind |-> "FunctionError", data |-> None] \in Outcome
  BY DEF Outcome
<1>4. out' \in [Env -> Outcome]
  BY <1>1, <1>3, Types
<1>5. PICK label \in {"done", "delete"} :
        Goto(e, label) /\ (label = "delete" => call[e].key # NoKey)
  BY DEF FunctionRaises
<1>6. "done" \in Labels /\ "delete" \in Labels
  BY DEF Labels
<1>7. pc' \in [Env -> Labels] /\ pc'[e] = label /\ \A f \in Env \ {e} : pc'[f] = pc[f]
  BY <1>5, <1>6, GotoType
<1>8. label = "delete" => call[e].key \in Key
  BY <1>5, CallFields
<1>9. OthersSame(e) /\ WellFormed(e)'
  BY <1>1, <1>2, <1>5, <1>7, <1>8 DEF OthersSame, WellFormed
<1>10. QED
  BY <1>1, <1>4, <1>7, <1>9, Types, StepType

\* The end of an invocation, the environment keeping its cache or not.
LEMMA ResetType ==
  ASSUME TypeOK, NEW e \in Env, Reset(e), cache' \in [Env -> Caches]
  PROVE  TypeOK'
PROOF
<1>1. NoCall \in Call /\ NoOutcome \in Outcome /\ "idle" \in Labels
  BY DEF NoCall, Call, MAX_RETRIES, NoOutcome, Outcome, Labels
<1>2. pc' \in [Env -> Labels] /\ pc'[e] = "idle" /\ \A f \in Env \ {e} : pc'[f] = pc[f]
  BY <1>1, GotoType DEF Reset
<1>3. /\ call' \in [Env -> Call]
      /\ rec' \in [Env -> DataRecord \cup {None}]
      /\ out' \in [Env -> Outcome]
      /\ UNCHANGED <<now, store, invocations>>
  BY <1>1, Types DEF Reset
<1>4. OthersSame(e) /\ WellFormed(e)'
  BY <1>2, Types DEF Reset, OthersSame, WellFormed, Active
<1>5. QED
  BY <1>2, <1>3, <1>4, Types, StepType

LEMMA KillType ==
  ASSUME TypeOK, NEW e \in Env, Kill(e)
  PROVE  TypeOK'
PROOF
<1>1. cache' \in [Env -> Caches]
  BY Types DEF Kill, EmptyCache, Caches
<1>2. QED
  BY <1>1, ResetType DEF Kill

LEMMA FinishType ==
  ASSUME TypeOK, NEW e \in Env, Finish(e)
  PROVE  TypeOK'
PROOF
  BY Types, ResetType DEF Finish

\* A store step that ends in a PersistenceLayerError.
LEMMA FailureType ==
  ASSUME TypeOK, NEW e \in Env, Raise(e, "PersistenceLayerError"),
         UNCHANGED <<now, call, rec, invocations>>,
         store' \in Caches, cache' \in [Env -> Caches]
  PROVE  TypeOK'
PROOF
<1>1. pc' = [pc EXCEPT ![e] = "done"] /\ pc' \in [Env -> Labels] /\ out' \in [Env -> Outcome]
  BY RaiseType DEF Kinds
<1>2. OthersSame(e) /\ WellFormed(e)'
  BY <1>1, Types DEF OthersSame, WellFormed, Active
<1>3. QED
  BY <1>1, <1>2, Types, StepType

\* A store step that ends a call or leads to its next label.
LEMMA GoesOnType ==
  ASSUME TypeOK, NEW e \in Env, NEW label \in {"get", "run", "done"}, Goto(e, label),
         UNCHANGED <<now, call, rec, out, invocations>>,
         call[e].payload \in Payload, call[e].key \in Key,
         store' \in Caches, cache' \in [Env -> Caches]
  PROVE  TypeOK'
PROOF
<1>1. label \in Labels
  BY DEF Labels
<1>2. pc' \in [Env -> Labels] /\ pc'[e] = label /\ \A f \in Env \ {e} : pc'[f] = pc[f]
  BY <1>1, GotoType
<1>3. OthersSame(e) /\ WellFormed(e)'
  BY <1>2 DEF OthersSame, WellFormed
<1>4. QED
  BY <1>2, <1>3, Types, StepType

LEMMA WriteRecType ==
  ASSUME TypeOK, NEW e \in Env, pc[e] = "put", WriteRec(e)
  PROVE  store' \in Caches
PROOF
  BY Types DEF WellFormed, WriteRec, Caches

LEMMA PutRecordType ==
  ASSUME TypeOK, NEW e \in Env, PutRecord(e)
  PROVE  TypeOK'
PROOF
<1>1. pc[e] = "put" /\ UNCHANGED <<now, call, invocations>>
  BY DEF PutRecord
<1>2. call[e].payload \in Payload /\ call[e].key \in Key
  BY <1>1, Types DEF WellFormed, Active
<1>3. CASE WriteRec(e) /\ Goto(e, "run") /\ UNCHANGED <<cache, rec, out>>
  BY <1>1, <1>2, <1>3, WriteRecType, Types, GoesOnType
<1>4. CASE /\ ~PutCondition(call[e].key, call[e].at)
           /\ Found(e, cache[e], store[call[e].key])
           /\ store' = store
  <2>1. store[call[e].key] \in DataRecord
    BY <1>2, <1>4, Types DEF PutCondition, Caches
  <2>2. /\ pc' \in [Env -> Labels]
        /\ out' \in [Env -> Outcome]
        /\ rec' \in [Env -> DataRecord \cup {None}]
        /\ cache' \in [Env -> Caches]
        /\ OthersSame(e)
        /\ WellFormed(e)'
    BY <1>1, <1>2, <1>4, <2>1, Types, FoundType
  <2>3. QED
    BY <1>1, <1>4, <2>2, Types, StepType
<1>5. CASE Goto(e, "get") /\ UNCHANGED <<store, cache, rec, out>>
  BY <1>1, <1>2, <1>5, Types, GoesOnType
<1>6. QED
  BY <1>3, <1>4, <1>5 DEF PutRecord

LEMMA PutFailsType ==
  ASSUME TypeOK, NEW e \in Env, PutFails(e)
  PROVE  TypeOK'
PROOF
  BY WriteRecType, Types, FailureType DEF PutFails

LEMMA GetRecordType ==
  ASSUME TypeOK, NEW e \in Env, GetRecord(e)
  PROVE  TypeOK'
PROOF
<1>1. pc[e] = "get" /\ UNCHANGED <<now, store, invocations>>
  BY DEF GetRecord
<1>2. call[e].payload \in Payload /\ call[e].key \in Key
  BY <1>1, Types DEF WellFormed, Active
<1>3. Purged(e, call[e].key) \in Caches
  BY <1>2, PurgedType
<1>4. CASE /\ cache' = [cache EXCEPT ![e] = Purged(e, call[e].key)]
           /\ Retry(e)
           /\ rec' = rec
  <2>1. cache' \in [Env -> Caches]
    BY <1>3, <1>4, Types
  <2>2. OthersSame(e) /\ WellFormed(e)'
    BY <1>2, <1>4, RetryType DEF OthersSame, WellFormed
  <2>3. QED
    BY <1>1, <1>4, <2>1, <2>2, RetryType, Types, StepType
<1>5. CASE /\ store[call[e].key] # None
           /\ Found(e, Purged(e, call[e].key), store[call[e].key])
           /\ call' = call
  <2>1. store[call[e].key] \in DataRecord
    BY <1>2, <1>5, Types DEF Caches
  <2>2. /\ pc' \in [Env -> Labels]
        /\ out' \in [Env -> Outcome]
        /\ rec' \in [Env -> DataRecord \cup {None}]
        /\ cache' \in [Env -> Caches]
        /\ OthersSame(e)
        /\ WellFormed(e)'
    BY <1>2, <1>3, <1>5, <2>1, FoundType
  <2>3. QED
    BY <1>1, <1>5, <2>2, Types, StepType
<1>6. QED
  BY <1>4, <1>5 DEF GetRecord

LEMMA GetFailsType ==
  ASSUME TypeOK, NEW e \in Env, GetFails(e)
  PROVE  TypeOK'
PROOF
<1>1. call[e].key \in Key
  BY Types DEF GetFails, WellFormed
<1>2. cache' \in [Env -> Caches]
  BY <1>1, PurgedType, Types DEF GetFails
<1>3. QED
  BY <1>2, Types, FailureType DEF GetFails

LEMMA UpdateType ==
  ASSUME TypeOK, NEW e \in Env, pc[e] = "update", ApplyUpdate(e)
  PROVE  store' \in Caches
PROOF
<1>1. call[e].key \in Key /\ rec[e] \in DataRecord
  BY Types DEF WellFormed
<1>2. store[call[e].key] \in DataRecord \cup {None}
  BY <1>1, Types DEF Caches
<1>3. Updated(store[call[e].key], rec[e]) \in DataRecord
  BY <1>1, <1>2 DEF Updated, DataRecord
<1>4. QED
  BY <1>1, <1>3, Types DEF ApplyUpdate, Caches

LEMMA UpdateRecordType ==
  ASSUME TypeOK, NEW e \in Env, UpdateRecord(e)
  PROVE  TypeOK'
PROOF
<1>1. /\ pc[e] = "update"
      /\ SaveToCache(e, cache[e], rec[e])
      /\ Goto(e, "done")
      /\ UNCHANGED <<now, call, rec, out, invocations>>
  BY DEF UpdateRecord
<1>2. call[e].key \in Key /\ call[e].payload \in Payload /\ rec[e] \in DataRecord
  BY <1>1, Types DEF WellFormed, Active
<1>3. cache' \in [Env -> Caches]
  BY <1>1, <1>2, Types, SaveToCacheType
<1>4. store' \in Caches
  BY <1>1, UpdateType DEF UpdateRecord
<1>5. QED
  BY <1>1, <1>2, <1>3, <1>4, GoesOnType

LEMMA UpdateFailsType ==
  ASSUME TypeOK, NEW e \in Env, UpdateFails(e)
  PROVE  TypeOK'
PROOF
  BY UpdateType, Types, FailureType DEF UpdateFails

LEMMA DeleteType ==
  ASSUME TypeOK, NEW e \in Env, ApplyDelete(e)
  PROVE  store' \in Caches
PROOF
  BY Types DEF ApplyDelete, Caches

LEMMA DeleteRecordType ==
  ASSUME TypeOK, NEW e \in Env, DeleteRecord(e)
  PROVE  TypeOK'
PROOF
<1>1. /\ pc[e] = "delete"
      /\ Goto(e, "done")
      /\ UNCHANGED <<now, call, rec, out, invocations>>
  BY DEF DeleteRecord
<1>2. call[e].key \in Key /\ call[e].payload \in Payload
  BY <1>1, Types DEF WellFormed, Active
<1>3. store' \in Caches /\ cache' \in [Env -> Caches]
  BY DeleteType, DeleteFromCacheType DEF DeleteRecord
<1>4. QED
  BY <1>1, <1>2, <1>3, GoesOnType

LEMMA DeleteFailsType ==
  ASSUME TypeOK, NEW e \in Env, DeleteFails(e)
  PROVE  TypeOK'
PROOF
  BY DeleteType, Types, FailureType DEF DeleteFails

LEMMA ExpireItemType ==
  ASSUME TypeOK, NEW k \in Key, ExpireItem(k)
  PROVE  TypeOK'
PROOF
<1>1. store' \in Caches /\ UNCHANGED <<now, cache, pc, call, rec, out, invocations>>
  BY Types DEF ExpireItem, Caches
<1>2. QED
  BY <1>1, Types DEF TypeOK, TypeOKWith, Caches, WellFormed, Active

LEMMA TickType ==
  ASSUME TypeOK, Tick
  PROVE  TypeOK'
PROOF
<1>1. now' \in 0..MaxTime /\ UNCHANGED <<store, cache, pc, call, rec, out, invocations>>
  BY Types, TimeAssumption DEF Tick, MayTick
<1>2. QED
  BY <1>1, Types DEF TypeOK, TypeOKWith, Caches, WellFormed, Active

LEMMA InitType == Init => TypeOK
PROOF
<1> SUFFICES ASSUME Init PROVE TypeOK
  OBVIOUS
<1>1. NoCall \in Call /\ NoOutcome \in Outcome /\ "idle" \in Labels
  BY DEF NoCall, Call, MAX_RETRIES, NoOutcome, Outcome, Labels
<1>2. \A e \in Env : WellFormed(e)
  BY DEF Init, WellFormed, Active
<1>3. QED
  BY <1>1, <1>2, TimeAssumption, OptionAssumption DEF Init, TypeOK, TypeOKWith, EmptyCache

LEMMA NextType == TypeOK /\ [Next]_vars => TypeOK'
PROOF
<1> SUFFICES ASSUME TypeOK, [Next]_vars PROVE TypeOK'
  OBVIOUS
<1>1. ASSUME NEW e \in Env, Begin(e) PROVE TypeOK'
  BY <1>1, BeginType
<1>2. ASSUME NEW e \in Env, LocalStep(e) PROVE TypeOK'
  BY <1>2, SaveInProgressType, GetCachedRecordType, HandleForStatusType,
     FunctionReturnsType, FunctionRaisesType, FinishType DEF LocalStep
<1>3. ASSUME NEW e \in Env, StoreStep(e) PROVE TypeOK'
  BY <1>3, PutRecordType, PutFailsType, GetRecordType, GetFailsType, UpdateRecordType,
     UpdateFailsType, DeleteRecordType, DeleteFailsType DEF StoreStep
<1>4. ASSUME NEW e \in Env, Kill(e) PROVE TypeOK'
  BY <1>4, KillType
<1>5. ASSUME NEW k \in Key, ExpireItem(k) PROVE TypeOK'
  BY <1>5, ExpireItemType
<1>6. CASE Tick
  BY <1>6, TickType
<1>7. CASE UNCHANGED vars
  BY <1>7 DEF vars, TypeOK, TypeOKWith, WellFormed, Active
<1>8. QED
  BY <1>1, <1>2, <1>3, <1>4, <1>5, <1>6, <1>7 DEF Next

\* Every variable holds what the code's annotations say it holds: no attempt
\* beyond MAX_RETRIES, no store call without a key, no replay without a record.
THEOREM TypeCorrect == Spec => []TypeOK
PROOF
  BY InitType, NextType, PTL DEF Spec

------------------------------------------------------------------------------
(* Mutual exclusion. A lock protects its owner until the owner's deadline, and
   no owner outlives its deadline. *)

\* A record lives at least as long as the invocation that puts it.
LongWindow == \A r \in Remaining : r <= ExpiresAfter * TicksPerSecond

\* No put whose clock reads t or less replaces the record r.
Guards(r, t) ==
  /\ r.status = "INPROGRESS"
  /\ r.inprog # None => t <= r.inprog
  /\ Second(t) <= r.expiry

Alive(e) ==
  Active(e) => now <= call[e].deadline /\ call[e].deadline <= now + ExpiresAfter * TicksPerSecond

Prepared(e) ==
  pc[e] = "put" => call[e].at <= now /\ Guards(rec[e], call[e].deadline)

Owns(e) ==
  Executing(e) =>
    /\ store[call[e].key] # None
    /\ Guards(store[call[e].key], call[e].deadline)

LockInv ==
  /\ TypeOK
  /\ \A e \in Env : Alive(e) /\ Prepared(e) /\ Owns(e)
  /\ MutualExclusion

\* Whole seconds keep the order of ticks, and a period of whole seconds.
LEMMA Division ==
  ASSUME NEW t \in Nat, NEW T \in Nat \ {0}
  PROVE  t \div T \in Nat /\ (t \div T) * T <= t /\ t < (t \div T) * T + T
PROOF
  OBVIOUS

LEMMA SecondMonotonic ==
  ASSUME NEW a \in Nat, NEW b \in Nat, a <= b
  PROVE  Second(a) <= Second(b)
PROOF
<1> DEFINE q == Second(a)
           r == Second(b)
           T == TicksPerSecond
<1>1. T \in Nat \ {0}
  BY TimeAssumption
<1>2. /\ q \in Nat /\ q * T <= a
      /\ r \in Nat /\ b < r * T + T
  BY <1>1, Division DEF Second
<1>3. SUFFICES ASSUME q >= r + 1 PROVE FALSE
  BY <1>2
<1> HIDE DEF q, r, T
<1>4. q * T >= (r + 1) * T
  BY <1>1, <1>2, <1>3
<1>5. (r + 1) * T = r * T + T
  BY <1>1, <1>2
<1>6. r * T \in Nat /\ q * T \in Nat
  BY <1>1, <1>2
<1>7. QED
  BY <1>1, <1>2, <1>4, <1>5, <1>6

LEMMA SecondPlus ==
  ASSUME NEW t \in Nat
  PROVE  Second(t + ExpiresAfter * TicksPerSecond) = Second(t) + ExpiresAfter
PROOF
  BY TimeAssumption DEF Second

\* The deadline of an invocation that begins or goes on falls into the life of
\* a record built now.
LEMMA RecordCovers ==
  ASSUME TypeOK, NEW e \in Env, Active(e), Alive(e)
  PROVE  Guards(NewInProgress(e), call[e].deadline)
PROOF
<1> DEFINE d == call[e].deadline
           W == ExpiresAfter * TicksPerSecond
<1>1. d \in Nat /\ now \in Nat /\ W \in Nat
  BY CallFields, Types, TimeAssumption
<1>2. d <= now + W
  BY DEF Alive
<1>3. Second(d) <= Second(now + W)
  BY <1>1, <1>2, SecondMonotonic
<1>4. Second(d) <= NewInProgress(e).expiry
  BY <1>1, <1>3, SecondPlus, NewInProgressType
<1>5. NewInProgress(e).inprog # None => d <= NewInProgress(e).inprog
  BY <1>1, NewInProgressType
<1>6. QED
  BY <1>4, <1>5, NewInProgressType DEF Guards

\* A lock cannot be taken before its owner's deadline.
LEMMA LockHolds ==
  ASSUME NEW k \in Key, store[k] \in DataRecord, NEW d \in Nat, Guards(store[k], d),
         NEW t \in Nat, t <= d
  PROVE  ~PutCondition(k, t)
PROOF
<1>1. Second(t) <= Second(d) /\ Second(t) \in Nat /\ Second(d) \in Nat
  BY SecondMonotonic, SecondType
<1>2. /\ store[k].expiry \in Nat
      /\ store[k].inprog \in Nat \cup {None}
      /\ store[k] # None
  BY RecordAssumption DEF DataRecord
<1>3. QED
  BY <1>1, <1>2 DEF Guards, PutCondition

LEMMA OwnerKey ==
  ASSUME TypeOK, NEW e \in Env, Executing(e)
  PROVE  call[e].key \in Key /\ Active(e)
PROOF
  BY CallFields DEF Executing, Active

\* A step of e that puts nothing and starts nothing: it may change the record of
\* the key e is executing for, and of no other key.
Quiet(e) ==
  /\ now' = now
  /\ OthersSame(e)
  /\ pc'[e] # "put"
  /\ Executing(e)' => Executing(e) /\ store' = store
  /\ Active(e)' =>
       /\ Active(e)
       /\ call'[e].key = call[e].key
       /\ call'[e].deadline = call[e].deadline
  /\ \A k \in Key :
       store'[k] = store[k] \/ (Executing(e) /\ call[e].key = k)

LEMMA QuietStep ==
  ASSUME LockInv, TypeOK', NEW e \in Env, Quiet(e)
  PROVE  LockInv'
PROOF
<1>1. ASSUME NEW f \in Env \ {e}, Executing(f)
      PROVE  store'[call[f].key] = store[call[f].key]
  <2>1. call[f].key \in Key
    BY <1>1, OwnerKey DEF LockInv
  <2>2. Executing(e) => call[e].key # call[f].key
    BY <1>1 DEF LockInv, MutualExclusion
  <2>3. QED
    BY <2>1, <2>2 DEF Quiet
<1>2. Active(e)' => Active(e) /\ call'[e].key = call[e].key
                              /\ call'[e].deadline = call[e].deadline
  BY DEF Quiet
<1>3. Executing(e)' => Executing(e) /\ Active(e)' /\ store' = store
  BY DEF Quiet, Executing, Active
<1>4. Alive(e)' /\ Prepared(e)' /\ Owns(e)'
  BY <1>2, <1>3 DEF LockInv, Quiet, Alive, Prepared, Owns
<1>5. ASSUME NEW f \in Env \ {e} PROVE Alive(f)' /\ Prepared(f)' /\ Owns(f)'
  <2>1. /\ pc'[f] = pc[f] /\ call'[f] = call[f] /\ rec'[f] = rec[f] /\ now' = now
        /\ Alive(f) /\ Prepared(f) /\ Owns(f)
    BY DEF LockInv, Quiet, OthersSame
  <2>2. Alive(f)' /\ Prepared(f)'
    BY <2>1 DEF Alive, Active, Prepared, Guards
  <2>3. Owns(f)'
    BY <1>1, <2>1 DEF Owns, Executing
  <2>4. QED
    BY <2>2, <2>3
<1>6. MutualExclusion'
  <2> SUFFICES ASSUME NEW f \in Env, NEW g \in Env, f # g, Executing(f)', Executing(g)'
               PROVE  call'[f].key # call'[g].key
    BY DEF MutualExclusion
  <2>1. ASSUME NEW h \in Env, Executing(h)' PROVE Executing(h) /\ call'[h].key = call[h].key
    <3>1. CASE h = e
      BY <1>2, <1>3, <2>1, <3>1
    <3>2. CASE h # e
      BY <2>1, <3>2 DEF Quiet, OthersSame, Executing
    <3>3. QED
      BY <3>1, <3>2
  <2>2. QED
    BY <2>1 DEF LockInv, MutualExclusion
<1>7. QED
  BY <1>4, <1>5, <1>6 DEF LockInv

\* A put that finds the condition true: nobody else was executing for the key.
LEMMA Acquire ==
  ASSUME LockInv, NEW e \in Env, pc[e] = "put", PutCondition(call[e].key, call[e].at),
         NEW f \in Env \ {e}, Executing(f)
  PROVE  call[f].key # call[e].key
PROOF
<1>1. TypeOK /\ Alive(f) /\ Owns(f) /\ Prepared(e)
  BY DEF LockInv
<1>2. call[f].key \in Key /\ Active(f)
  BY <1>1, OwnerKey
<1>3. now <= call[f].deadline /\ call[e].at <= now
  BY <1>1, <1>2 DEF Alive, Prepared
<1>4. call[f].deadline \in Nat /\ call[e].at \in Nat /\ now \in Nat
  BY <1>1, CallFields, Types
<1>5. store[call[f].key] \in DataRecord /\ Guards(store[call[f].key], call[f].deadline)
  BY <1>1, <1>2, Types DEF Owns, Caches
<1>6. ~PutCondition(call[f].key, call[e].at)
  BY <1>2, <1>3, <1>4, <1>5, LockHolds
<1>7. QED
  BY <1>6

------------------------------------------------------------------------------
(* The invariant is kept, one lemma per action *)

LEMMA BeginLock ==
  ASSUME LongWindow, LockInv, TypeOK', NEW e \in Env, Begin(e)
  PROVE  LockInv'
PROOF
<1>1. PICK k \in Key \cup {NoKey}, p \in Payload, r \in Remaining, c \in Contexts :
        call' = [call EXCEPT ![e] =
                   [key |-> k, payload |-> p, context |-> c, deadline |-> now + r,
                    tries |-> 0, at |-> now, id |-> invocations + 1]]
  BY DEF Begin
<1>2. /\ pc[e] = "idle"
      /\ pc' = [pc EXCEPT ![e] = "save"]
      /\ UNCHANGED <<now, store, rec>>
      /\ TypeOK
  BY DEF Begin, Goto, LockInv
<1>3. pc'[e] = "save" /\ call'[e].deadline = now + r
  BY <1>1, <1>2, Types
<1>4. r \in Nat /\ r <= ExpiresAfter * TicksPerSecond /\ now \in Nat
  BY <1>2, Types, TimeAssumption DEF LongWindow
<1>5. Alive(e)' /\ Prepared(e)' /\ Owns(e)' /\ ~Executing(e)'
  <2>1. ExpiresAfter * TicksPerSecond \in Nat
    BY TimeAssumption
  <2>2. Alive(e)'
    BY <1>2, <1>3, <1>4, <2>1 DEF Alive
  <2>3. QED
    BY <1>3, <2>2 DEF Prepared, Owns, Executing
<1>6. ASSUME NEW f \in Env \ {e}
      PROVE  /\ Alive(f)' /\ Prepared(f)' /\ Owns(f)'
             /\ Executing(f)' => Executing(f) /\ call'[f].key = call[f].key
  <2>1. pc'[f] = pc[f] /\ call'[f] = call[f] /\ Alive(f) /\ Prepared(f) /\ Owns(f)
    BY <1>1, <1>2, Types DEF LockInv
  <2>2. QED
    BY <1>2, <2>1 DEF Alive, Active, Prepared, Owns, Executing, Guards
<1>7. MutualExclusion'
  BY <1>5, <1>6 DEF LockInv, MutualExclusion
<1>8. QED
  BY <1>5, <1>6, <1>7 DEF LockInv

LEMMA SaveInProgressLock ==
  ASSUME LockInv, TypeOK', NEW e \in Env, SaveInProgress(e)
  PROVE  LockInv'
PROOF
<1>1. /\ pc[e] = "save"
      /\ UNCHANGED <<now, store, invocations>>
      /\ TypeOK /\ Alive(e) /\ Active(e) /\ ~Executing(e)
  BY DEF SaveInProgress, LockInv, Active, Executing
<1>2. CASE /\ UNCHANGED <<call, rec>>
           /\ \/ pc' = [pc EXCEPT ![e] = "done"]
              \/ pc' = [pc EXCEPT ![e] = "get"]
              \/ pc' = [pc EXCEPT ![e] = "run"] /\ call[e].key = NoKey
  <2>1. Quiet(e)
    BY <1>1, <1>2, Types DEF Quiet, OthersSame, Executing, Active
  <2>2. QED
    BY <2>1, QuietStep
<1>3. CASE /\ rec' = [rec EXCEPT ![e] = NewInProgress(e)]
           /\ call' = [call EXCEPT ![e].at = now]
           /\ pc' = [pc EXCEPT ![e] = "put"]
  <2>1. /\ pc'[e] = "put"
        /\ rec'[e] = NewInProgress(e)
        /\ call'[e] = [call[e] EXCEPT !.at = now]
        /\ OthersSame(e)
    BY <1>1, <1>3, Types DEF OthersSame
  <2>2. call'[e].deadline = call[e].deadline /\ call'[e].at = now /\ now \in Nat
    BY <1>1, <2>1, Types DEF Call
  <2>3. Guards(NewInProgress(e), call[e].deadline)
    BY <1>1, RecordCovers
  <2>4. Alive(e)' /\ ~Executing(e)' /\ Owns(e)'
    BY <1>1, <2>1, <2>2 DEF Alive, Executing, Owns, Active
  <2>5. Prepared(e)'
    BY <1>1, <2>1, <2>2, <2>3 DEF Prepared, Guards
  <2>6. ASSUME NEW f \in Env \ {e}
        PROVE  /\ Alive(f)' /\ Prepared(f)' /\ Owns(f)'
               /\ Executing(f)' => Executing(f) /\ call'[f].key = call[f].key
    <3>1. /\ pc'[f] = pc[f] /\ call'[f] = call[f] /\ rec'[f] = rec[f]
          /\ Alive(f) /\ Prepared(f) /\ Owns(f)
      BY <2>1 DEF LockInv, OthersSame
    <3>2. QED
      BY <1>1, <3>1 DEF Alive, Active, Prepared, Owns, Executing, Guards
  <2>7. MutualExclusion'
    BY <2>4, <2>6 DEF LockInv, MutualExclusion
  <2>8. QED
    BY <2>4, <2>5, <2>6, <2>7 DEF LockInv
<1>4. QED
  BY <1>2, <1>3 DEF SaveInProgress, Raise, Goto

LEMMA GetCachedRecordLock ==
  ASSUME LockInv, TypeOK', NEW e \in Env, GetCachedRecord(e)
  PROVE  LockInv'
PROOF
<1>1. /\ pc[e] = "get"
      /\ UNCHANGED <<now, store, call>>
      /\ pc' = [pc EXCEPT ![e] = "done"] \/ pc' = [pc EXCEPT ![e] = "handle"]
      /\ rec' = rec \/ rec' = [rec EXCEPT ![e] = Cached(e, call[e].key)]
      /\ TypeOK
  BY DEF GetCachedRecord, Raise, Goto, LockInv
<1>2. Quiet(e)
  BY <1>1, Types DEF Quiet, OthersSame, Executing, Active
<1>3. QED
  BY <1>2, QuietStep

\* A retry leads back to save_inprogress: nothing is put, nothing started.
LEMMA RetryQuiet ==
  ASSUME TypeOK, NEW e \in Env, Active(e), Retry(e), UNCHANGED <<now, store, rec>>
  PROVE  Quiet(e)
PROOF
  BY RetryType DEF Quiet, OthersSame, Executing, Active

LEMMA HandleForStatusLock ==
  ASSUME LockInv, TypeOK', NEW e \in Env, HandleForStatus(e)
  PROVE  LockInv'
PROOF
<1>1. /\ pc[e] = "handle" /\ Active(e)
      /\ UNCHANGED <<now, store, rec>>
      /\ TypeOK
  BY DEF HandleForStatus, LockInv, Active
<1>2. CASE Retry(e)
  BY <1>1, <1>2, RetryQuiet, QuietStep
<1>3. CASE pc' = [pc EXCEPT ![e] = "done"] /\ call' = call
  <2>1. Quiet(e)
    BY <1>1, <1>3, Types DEF Quiet, OthersSame, Executing, Active
  <2>2. QED
    BY <2>1, QuietStep
<1>4. QED
  BY <1>2, <1>3 DEF HandleForStatus, Raise, Goto

LEMMA FunctionLock ==
  ASSUME LockInv, TypeOK', NEW e \in Env, FunctionReturns(e) \/ FunctionRaises(e)
  PROVE  LockInv'
PROOF
<1>1. /\ pc[e] = "run"
      /\ UNCHANGED <<now, store, call>>
      /\ TypeOK
  BY DEF FunctionReturns, FunctionRaises, LockInv
<1>2. /\ \A f \in Env \ {e} : rec'[f] = rec[f]
      /\ \/ pc' = [pc EXCEPT ![e] = "done"]
         \/ /\ pc' = [pc EXCEPT ![e] = "update"] \/ pc' = [pc EXCEPT ![e] = "delete"]
            /\ call[e].key # NoKey
  BY <1>1, Types DEF FunctionReturns, FunctionRaises, Goto
<1>3. Quiet(e)
  BY <1>1, <1>2, Types DEF Quiet, OthersSame, Executing, Active
<1>4. QED
  BY <1>3, QuietStep

LEMMA ResetLock ==
  ASSUME LockInv, TypeOK', NEW e \in Env, Reset(e)
  PROVE  LockInv'
PROOF
<1>1. TypeOK
  BY DEF LockInv
<1>2. Quiet(e)
  BY <1>1, Types DEF Reset, Goto, Quiet, OthersSame, Executing, Active
<1>3. QED
  BY <1>2, QuietStep

\* A write of the put's record, acknowledged or not.
LEMMA PutLock ==
  ASSUME LockInv, TypeOK', NEW e \in Env, pc[e] = "put",
         PutCondition(call[e].key, call[e].at), WriteRec(e),
         UNCHANGED <<now, call, rec>>,
         pc' = [pc EXCEPT ![e] = "run"] \/ pc' = [pc EXCEPT ![e] = "done"]
  PROVE  LockInv'
PROOF
<1>1. /\ TypeOK /\ Alive(e) /\ Prepared(e)
      /\ call[e].key \in Key /\ rec[e] \in DataRecord
  BY Types DEF LockInv, WellFormed
<1>2. /\ store'[call[e].key] = rec[e]
      /\ \A k \in Key \ {call[e].key} : store'[k] = store[k]
  BY <1>1, Types DEF WriteRec, Caches
<1>3. /\ pc'[e] \in {"run", "done"}
      /\ \A f \in Env \ {e} : pc'[f] = pc[f]
  BY <1>1, Types
<1>4. Guards(rec[e], call[e].deadline) /\ rec[e] # None
  BY <1>1, RecordAssumption DEF Prepared
<1>5. Owns(e)'
  BY <1>2, <1>4 DEF Owns, Guards
<1>6. Alive(e)' /\ Prepared(e)'
  BY <1>1, <1>3 DEF Alive, Prepared, Active
<1>7. ASSUME NEW f \in Env \ {e}
      PROVE  /\ Alive(f)' /\ Prepared(f)' /\ Owns(f)'
             /\ Executing(f)' => Executing(f) /\ call[f].key # call[e].key
  <2>1. pc'[f] = pc[f] /\ Alive(f) /\ Prepared(f) /\ Owns(f)
    BY <1>3 DEF LockInv
  <2>2. Executing(f)' => Executing(f)
    BY <2>1 DEF Executing
  <2>3. Executing(f)' => call[f].key # call[e].key /\ call[f].key \in Key
    BY <1>1, <2>2, Acquire, OwnerKey
  <2>4. Owns(f)'
    BY <1>2, <2>1, <2>2, <2>3 DEF Owns, Guards
  <2>5. Alive(f)' /\ Prepared(f)'
    BY <2>1 DEF Alive, Active, Prepared, Guards
  <2>6. QED
    BY <2>2, <2>3, <2>4, <2>5
<1>8. MutualExclusion'
  <2> SUFFICES ASSUME NEW f \in Env, NEW g \in Env, f # g, Executing(f)', Executing(g)'
               PROVE  call[f].key # call[g].key
    BY DEF MutualExclusion
  <2>1. CASE f = e \/ g = e
    BY <1>7, <2>1
  <2>2. CASE f # e /\ g # e
    BY <1>7, <2>2 DEF LockInv, MutualExclusion
  <2>3. QED
    BY <2>1, <2>2
<1>9. QED
  BY <1>5, <1>6, <1>7, <1>8 DEF LockInv

LEMMA PutRecordLock ==
  ASSUME LockInv, TypeOK', NEW e \in Env, PutRecord(e)
  PROVE  LockInv'
PROOF
<1>1. pc[e] = "put" /\ UNCHANGED <<now, call>> /\ TypeOK /\ Active(e) /\ ~Executing(e)
  BY DEF PutRecord, LockInv, Active, Executing
<1>2. CASE /\ PutCondition(call[e].key, call[e].at)
           /\ WriteRec(e)
           /\ Goto(e, "run")
           /\ rec' = rec
  BY <1>1, <1>2, PutLock DEF Goto
<1>3. CASE /\ store' = store
           /\ \/ Found(e, cache[e], store[call[e].key])
              \/ Goto(e, "get") /\ rec' = rec
  <2>1. /\ \/ pc' = [pc EXCEPT ![e] = "done"]
           \/ pc' = [pc EXCEPT ![e] = "handle"]
           \/ pc' = [pc EXCEPT ![e] = "get"]
        /\ \A f \in Env \ {e} : rec'[f] = rec[f]
    BY <1>1, <1>3, Types DEF Found, Raise, Goto
  <2>2. Quiet(e)
    BY <1>1, <1>3, <2>1, Types DEF Quiet, OthersSame, Executing, Active
  <2>3. QED
    BY <2>2, QuietStep
<1>4. QED
  BY <1>2, <1>3 DEF PutRecord

LEMMA PutFailsLock ==
  ASSUME LockInv, TypeOK', NEW e \in Env, PutFails(e)
  PROVE  LockInv'
PROOF
<1>1. /\ pc[e] = "put" /\ UNCHANGED <<now, call, rec>>
      /\ pc' = [pc EXCEPT ![e] = "done"]
      /\ TypeOK
  BY DEF PutFails, Raise, Goto, LockInv
<1>2. CASE store' = store
  <2>1. Quiet(e)
    BY <1>1, <1>2, Types DEF Quiet, OthersSame, Executing, Active
  <2>2. QED
    BY <2>1, QuietStep
<1>3. CASE PutCondition(call[e].key, call[e].at) /\ WriteRec(e)
  BY <1>1, <1>3, PutLock
<1>4. QED
  BY <1>2, <1>3 DEF PutFails

LEMMA GetRecordLock ==
  ASSUME LockInv, TypeOK', NEW e \in Env, GetRecord(e)
  PROVE  LockInv'
PROOF
<1>1. pc[e] = "get" /\ UNCHANGED <<now, store>> /\ TypeOK /\ Active(e) /\ ~Executing(e)
  BY DEF GetRecord, LockInv, Active, Executing
<1>2. CASE Retry(e) /\ rec' = rec
  BY <1>1, <1>2, RetryQuiet, QuietStep
<1>3. CASE /\ Found(e, Purged(e, call[e].key), store[call[e].key])
           /\ call' = call
  <2>1. /\ pc' = [pc EXCEPT ![e] = "done"] \/ pc' = [pc EXCEPT ![e] = "handle"]
        /\ \A f \in Env \ {e} : rec'[f] = rec[f]
    BY <1>1, <1>3, Types DEF Found, Raise, Goto
  <2>2. Quiet(e)
    BY <1>1, <1>3, <2>1, Types DEF Quiet, OthersSame, Executing, Active
  <2>3. QED
    BY <2>2, QuietStep
<1>4. QED
  BY <1>2, <1>3 DEF GetRecord

\* The call ends and the store stays as it is.
LEMMA FailureLock ==
  ASSUME LockInv, TypeOK', NEW e \in Env, pc' = [pc EXCEPT ![e] = "done"],
         UNCHANGED <<now, store, call, rec>>
  PROVE  LockInv'
PROOF
<1>1. TypeOK
  BY DEF LockInv
<1>2. Quiet(e)
  BY <1>1, Types DEF Quiet, OthersSame, Executing, Active
<1>3. QED
  BY <1>2, QuietStep

\* The owner writes or deletes its record, and is done.
LEMMA ReleaseLock ==
  ASSUME LockInv, TypeOK', NEW e \in Env, pc[e] \in {"update", "delete"},
         ApplyUpdate(e) \/ ApplyDelete(e),
         pc' = [pc EXCEPT ![e] = "done"], UNCHANGED <<now, call, rec>>
  PROVE  LockInv'
PROOF
<1>1. TypeOK /\ call[e].key \in Key
  BY Types DEF LockInv, WellFormed
<1>2. Executing(e)
  BY <1>1, KeyAssumption DEF Executing
<1>3. \A k \in Key : store'[k] = store[k] \/ call[e].key = k
  BY <1>1, Types DEF ApplyUpdate, ApplyDelete, Caches
<1>4. Quiet(e)
  BY <1>1, <1>2, <1>3, Types DEF Quiet, OthersSame, Executing, Active
<1>5. QED
  BY <1>4, QuietStep

\* A record that is someone's lock has not expired.
LEMMA ExpireItemLock ==
  ASSUME LockInv, TypeOK', NEW k \in Key, ExpireItem(k)
  PROVE  LockInv'
PROOF
<1>1. /\ UNCHANGED <<now, pc, call, rec>>
      /\ Second(now) > store[k].expiry
      /\ store[k] # None
      /\ TypeOK
  BY DEF ExpireItem, IsExpired, LockInv
<1>2. \A j \in Key \ {k} : store'[j] = store[j]
  BY <1>1, Types DEF ExpireItem, Caches
<1>3. ASSUME NEW f \in Env, Executing(f) PROVE call[f].key \in Key \ {k}
  <2>1. call[f].key \in Key /\ Active(f) /\ Alive(f) /\ Owns(f)
    BY <1>1, <1>3, OwnerKey DEF LockInv
  <2>2. SUFFICES ASSUME call[f].key = k PROVE FALSE
    BY <2>1
  <2>3. Second(call[f].deadline) <= store[k].expiry
    BY <1>3, <2>1, <2>2 DEF Owns, Guards
  <2>4. now \in Nat /\ call[f].deadline \in Nat /\ now <= call[f].deadline
    BY <1>1, <2>1, CallFields, Types DEF Alive
  <2>5. /\ Second(now) <= Second(call[f].deadline)
        /\ Second(now) \in Nat /\ Second(call[f].deadline) \in Nat
    BY <2>4, SecondMonotonic, SecondType
  <2>6. store[k].expiry \in Nat
    BY <1>1, Types DEF Caches, DataRecord
  <2>7. QED
    BY <1>1, <2>3, <2>5, <2>6
<1>4. ASSUME NEW f \in Env PROVE Alive(f)' /\ Prepared(f)' /\ Owns(f)'
  <2>1. Alive(f) /\ Prepared(f) /\ Owns(f)
    BY DEF LockInv
  <2>2. Owns(f)'
    BY <1>1, <1>2, <1>3, <2>1 DEF Owns, Executing
  <2>3. Alive(f)' /\ Prepared(f)'
    BY <1>1, <2>1 DEF Alive, Active, Prepared, Guards
  <2>4. QED
    BY <2>2, <2>3
<1>5. MutualExclusion'
  BY <1>1 DEF LockInv, MutualExclusion, Executing
<1>6. QED
  BY <1>4, <1>5 DEF LockInv

\* The clock stops at the deadline of every invocation still alive.
LEMMA TickLock ==
  ASSUME LockInv, TypeOK', Tick
  PROVE  LockInv'
PROOF
<1>1. UNCHANGED <<store, pc, call, rec>> /\ now' = now + 1 /\ now \in Nat /\ TypeOK
  BY Types DEF Tick, LockInv
<1>2. ExpiresAfter * TicksPerSecond \in Nat /\ KillMargin \in Nat
  BY TimeAssumption
<1>3. ASSUME NEW f \in Env PROVE Alive(f)' /\ Prepared(f)' /\ Owns(f)'
  <2>1. Alive(f) /\ Prepared(f) /\ Owns(f) /\ call[f].deadline \in Nat /\ call[f].at \in Nat
    BY <1>1, CallFields DEF LockInv
  <2>2. Active(f) => now + 1 <= call[f].deadline
    BY <1>1, <1>2, <2>1 DEF Tick, MayTick, TimeIsUp, Active
  <2>3. Alive(f)'
    BY <1>1, <1>2, <2>1, <2>2 DEF Alive, Active
  <2>4. Prepared(f)'
    BY <1>1, <2>1 DEF Prepared, Guards
  <2>5. Owns(f)'
    BY <1>1, <2>1 DEF Owns, Executing
  <2>6. QED
    BY <2>3, <2>4, <2>5
<1>4. MutualExclusion'
  BY <1>1 DEF LockInv, MutualExclusion, Executing
<1>5. QED
  BY <1>3, <1>4 DEF LockInv

LEMMA InitLock == Init => LockInv
PROOF
  BY InitType DEF Init, LockInv, Alive, Active, Prepared, Owns, Executing, MutualExclusion

LEMMA NextLock == LongWindow /\ LockInv /\ [Next]_vars => LockInv'
PROOF
<1> SUFFICES ASSUME LongWindow, LockInv, [Next]_vars PROVE LockInv'
  OBVIOUS
<1>1. TypeOK'
  BY NextType DEF LockInv
<1>2. ASSUME NEW e \in Env, Begin(e) PROVE LockInv'
  BY <1>1, <1>2, BeginLock
<1>3. ASSUME NEW e \in Env, LocalStep(e) PROVE LockInv'
  BY <1>1, <1>3, SaveInProgressLock, GetCachedRecordLock, HandleForStatusLock,
     FunctionLock, ResetLock DEF LocalStep, Finish
<1>4. ASSUME NEW e \in Env, StoreStep(e) PROVE LockInv'
  <2>1. CASE PutRecord(e) \/ PutFails(e) \/ GetRecord(e)
    BY <1>1, <2>1, PutRecordLock, PutFailsLock, GetRecordLock
  <2>2. CASE GetFails(e)
    BY <1>1, <2>2, FailureLock DEF GetFails, Raise, Goto
  <2>3. CASE UpdateRecord(e) \/ UpdateFails(e)
    BY <1>1, <2>3, ReleaseLock, FailureLock DEF UpdateRecord, UpdateFails, Raise, Goto
  <2>4. CASE DeleteRecord(e) \/ DeleteFails(e)
    BY <1>1, <2>4, ReleaseLock, FailureLock DEF DeleteRecord, DeleteFails, Raise, Goto
  <2>5. QED
    BY <1>4, <2>1, <2>2, <2>3, <2>4 DEF StoreStep
<1>5. ASSUME NEW e \in Env, Kill(e) PROVE LockInv'
  BY <1>1, <1>5, ResetLock DEF Kill
<1>6. ASSUME NEW k \in Key, ExpireItem(k) PROVE LockInv'
  BY <1>1, <1>6, ExpireItemLock
<1>7. CASE Tick
  BY <1>1, <1>7, TickLock
<1>8. CASE UNCHANGED vars
  BY <1>1, <1>8 DEF vars, LockInv, Alive, Active, Prepared, Owns, Guards, Executing, MutualExclusion
<1>9. QED
  BY <1>2, <1>3, <1>4, <1>5, <1>6, <1>7, <1>8 DEF Next

\* If records live as long as invocations, no two invocations ever execute the
\* function for one key at the same time, however many environments call it,
\* whichever puts, updates and deletes fail or are applied unseen, and whenever
\* an environment dies.
THEOREM NoOverlap ==
  ASSUME LongWindow
  PROVE  Spec => []MutualExclusion
PROOF
<1>1. LockInv => MutualExclusion
  BY DEF LockInv
<1>2. LockInv /\ [Next]_vars => LockInv'
  BY NextLock
<1>3. QED
  BY <1>1, <1>2, InitLock, PTL DEF Spec
=====
