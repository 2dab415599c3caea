---------------------- MODULE IdempotencyRedis_proofs ----------------------
(***************************************************************************)
(* Proofs about module IdempotencyRedis, for any numbers of environments,  *)
(* keys, payloads, invocations and ticks: types; that the lock for orphans *)
(* keeps executions of one key apart and completed results in place, if    *)
(* it lasts twice as long as an invocation and Redis drops no record that  *)
(* is being taken over; and that payload validation lets no caller have a  *)
(* response computed from another payload.                                 *)
(***************************************************************************)
EXTENDS IdempotencyRedis, TLAPS

------------------------------------------------------------------------------
(* Type correctness: the steps that do not concern Redis's keys *)

RedisLabels == Labels \cup {"inspect", "lock", "overwrite"}

BaseOK == TypeOKWith(RedisLabels)

Caches == [Key -> DataRecord \cup {None}]

\* A step of e leaves the other invocations where they are.
OthersSame(e) ==
  \A f \in Env \ {e} : pc'[f] = pc[f] /\ call'[f] = call[f] /\ rec'[f] = rec[f]

\* The invariant, unfolded for the provers.
LEMMA Types ==
  ASSUME BaseOK
  PROVE  /\ now \in 0..MaxTime
         /\ now \in Nat
         /\ store \in Caches
         /\ cache \in [Env -> Caches]
         /\ pc \in [Env -> RedisLabels]
         /\ call \in [Env -> Call]
         /\ rec \in [Env -> DataRecord \cup {None}]
         /\ out \in [Env -> Outcome]
         /\ invocations \in 0..MaxInvocations
         /\ \A e \in Env : WellFormed(e)
PROOF
  BY TimeAssumption DEF BaseOK, TypeOKWith, Caches

\* It suffices to look at what a step does to the invocation it is a step of.
LEMMA StepType ==
  ASSUME BaseOK, NEW e \in Env,
         now' = now,
         store' \in Caches,
         cache' \in [Env -> Caches],
         pc' \in [Env -> RedisLabels],
         call' \in [Env -> Call],
         rec' \in [Env -> DataRecord \cup {None}],
         out' \in [Env -> Outcome],
         invocations' \in 0..MaxInvocations,
         OthersSame(e),
         WellFormed(e)'
  PROVE  BaseOK'
PROOF
<1>1. ASSUME NEW f \in Env PROVE WellFormed(f)'
  <2>1. CASE f = e
    BY <2>1
  <2>2. CASE f # e
    BY <2>2, Types DEF OthersSame, WellFormed, Active
  <2>3. QED
    BY <2>1, <2>2
<1>2. QED
  BY <1>1, Types DEF BaseOK, TypeOKWith, Caches

Kinds == {"none", "response", "KeyError", "ValidationError", "AlreadyInProgress",
          "InconsistentState", "PersistenceLayerError", "FunctionError"}

LEMMA RaiseType ==
  ASSUME BaseOK, NEW e \in Env, NEW kind \in Kinds, Raise(e, kind)
  PROVE  /\ pc' = [pc EXCEPT ![e] = "done"]
         /\ pc' \in [Env -> RedisLabels]
         /\ out' \in [Env -> Outcome]
PROOF
<1>1. [kind |-> kind, data |-> None] \in Outcome
  BY DEF Outcome, Kinds
<1>2. QED
  BY <1>1, Types DEF Raise, Goto, RedisLabels, Labels

LEMMA GotoType ==
  ASSUME BaseOK, NEW e \in Env, NEW label \in RedisLabels, Goto(e, label)
  PROVE  /\ pc' = [pc EXCEPT ![e] = label]
         /\ pc' \in [Env -> RedisLabels]
         /\ pc'[e] = label
         /\ \A f \in Env \ {e} : pc'[f] = pc[f]
PROOF
  BY Types DEF Goto

\* The attempts never exceed MAX_RETRIES.
LEMMA RetryType ==
  ASSUME BaseOK, NEW e \in Env, Retry(e)
  PROVE  /\ pc' \in [Env -> RedisLabels]
         /\ call' \in [Env -> Call]
         /\ out' \in [Env -> Outcome]
         /\ pc'[e] \in {"done", "save"}
         /\ call'[e].payload = call[e].payload
         /\ call'[e].key = call[e].key
         /\ call'[e].deadline = call[e].deadline
         /\ \A f \in Env \ {e} : pc'[f] = pc[f] /\ call'[f] = call[f]
PROOF
<1>1. CASE call[e].tries = MAX_RETRIES
  <2>1. Raise(e, "InconsistentState") /\ call' = call
    BY <1>1 DEF Retry
  <2>2. QED
    BY <2>1, RaiseType, Types DEF Kinds, RedisLabels, Labels
<1>2. CASE call[e].tries # MAX_RETRIES
  <2>1. /\ call' = [call EXCEPT ![e].tries = @ + 1]
        /\ Goto(e, "save")
        /\ out' = out
    BY <1>2 DEF Retry
  <2>2. call[e] \in Call
    BY Types
  <2>3. call[e].tries + 1 \in 0..MAX_RETRIES
    BY <1>2, <2>2 DEF Call, MAX_RETRIES
  <2>4. [call[e] EXCEPT !.tries = @ + 1] \in Call
    BY <2>2, <2>3 DEF Call
  <2>5. call' \in [Env -> Call]
    BY <2>1, <2>4, Types
  <2>6. "save" \in RedisLabels
    BY DEF RedisLabels, Labels
  <2>7. /\ call'[e].payload = call[e].payload
        /\ call'[e].key = call[e].key
        /\ call'[e].deadline = call[e].deadline
        /\ \A f \in Env \ {e} : call'[f] = call[f]
    BY <2>1, <2>2, Types DEF Call
  <2>8. QED
    BY <2>1, <2>5, <2>6, <2>7, GotoType, Types
<1>3. QED
  BY <1>1, <1>2

LEMMA CallFields ==
  ASSUME BaseOK, NEW e \in Env
  PROVE  /\ call[e].key \in Key \cup {NoKey}
         /\ call[e].payload \in Payload \cup {None}
         /\ call[e].context \in BOOLEAN
         /\ call[e].deadline \in Nat
         /\ call[e].at \in Nat
         /\ call[e].id \in Nat
PROOF
  BY Types DEF Call

LEMMA SecondType == ASSUME NEW t \in Nat PROVE Second(t) \in Nat
PROOF
  BY TimeAssumption DEF Second

\* The two records a layer writes.
LEMMA NewInProgressType ==
  ASSUME BaseOK, NEW e \in Env
  PROVE  /\ NewInProgress(e) \in DataRecord
         /\ NewInProgress(e).status = "INPROGRESS"
         /\ NewInProgress(e).inprog \in {None, call[e].deadline}
         /\ NewInProgress(e).expiry = Second(now) + ExpiresAfter
PROOF
<1>1. Second(now) + ExpiresAfter \in Nat
  BY SecondType, Types, TimeAssumption
<1>2. HashedPayload(e) \in Payload \cup {None}
  BY CallFields DEF HashedPayload
<1>3. QED
  BY <1>1, <1>2, CallFields DEF NewInProgress, DataRecord

LEMMA NewCompletedType ==
  ASSUME BaseOK, NEW e \in Env, NEW response \in Result
  PROVE  NewCompleted(e, response) \in DataRecord
PROOF
<1>1. Second(now) + ExpiresAfter \in Nat
  BY SecondType, Types, TimeAssumption
<1>2. HashedPayload(e) \in Payload \cup {None}
  BY CallFields DEF HashedPayload
<1>3. QED
  BY <1>1, <1>2 DEF NewCompleted, DataRecord

\* Whatever entry is evicted, a cache stays a cache.
LEMMA CachePutType ==
  ASSUME NEW c \in Caches, NEW k \in Key, NEW r \in DataRecord,
         NEW c2 \in CachePut(c, k, r)
  PROVE  c2 \in Caches
PROOF
  BY DEF CachePut, Caches, Held

LEMMA PurgedType ==
  ASSUME BaseOK, NEW e \in Env, NEW k \in Key
  PROVE  Purged(e, k) \in Caches
PROOF
  BY Types DEF Purged, Caches

LEMMA SaveToCacheType ==
  ASSUME BaseOK, NEW e \in Env, NEW c \in Caches, NEW r \in DataRecord,
         call[e].key \in Key, SaveToCache(e, c, r)
  PROVE  cache' \in [Env -> Caches]
PROOF
<1>1. PICK c2 \in IF UseLocalCache /\ Status(r, now) # "INPROGRESS"
                  THEN CachePut(c, call[e].key, r)
                  ELSE {c} :
        cache' = [cache EXCEPT ![e] = c2]
  BY DEF SaveToCache
<1>2. c2 \in Caches
  BY <1>1, CachePutType
<1>3. QED
  BY <1>1, <1>2, Types

LEMMA DeleteFromCacheType ==
  ASSUME BaseOK, NEW e \in Env, DeleteFromCache(e)
  PROVE  cache' \in [Env -> Caches]
PROOF
<1>1. cache[e] \in Caches
  BY Types
<1>2. [cache[e] EXCEPT ![call[e].key] = None] \in Caches
  BY <1>1 DEF Caches
<1>3. QED
  BY <1>2, Types DEF DeleteFromCache

\* Reading a record ends the call or moves on to look at the record.
LEMMA FoundType ==
  ASSUME BaseOK, NEW e \in Env, NEW c \in Caches, NEW r \in DataRecord,
         call[e].key \in Key, call[e].payload \in Payload, Found(e, c, r),
         call' = call
  PROVE  /\ pc' \in [Env -> RedisLabels]
         /\ out' \in [Env -> Outcome]
         /\ rec' \in [Env -> DataRecord \cup {None}]
         /\ cache' \in [Env -> Caches]
         /\ OthersSame(e)
         /\ WellFormed(e)'
         /\ pc'[e] \in {"done", "handle"}
PROOF
<1>1. CASE Mismatch(e, r)
  <2>1. /\ Raise(e, "ValidationError")
        /\ cache' = [cache EXCEPT ![e] = c]
        /\ rec' = rec
    BY <1>1 DEF Found
  <2>2. /\ pc' = [pc EXCEPT ![e] = "done"]
        /\ pc' \in [Env -> RedisLabels]
        /\ out' \in [Env -> Outcome]
    BY <2>1, RaiseType DEF Kinds
  <2>3. QED
    BY <2>1, <2>2, Types DEF OthersSame, WellFormed, Active
<1>2. CASE ~Mismatch(e, r)
  <2>1. /\ SaveToCache(e, c, r)
        /\ rec' = [rec EXCEPT ![e] = r]
        /\ Goto(e, "handle")
        /\ out' = out
    BY <1>2 DEF Found
  <2>2. "handle" \in RedisLabels
    BY DEF RedisLabels, Labels
  <2>3. /\ pc' \in [Env -> RedisLabels]
        /\ pc'[e] = "handle"
        /\ \A f \in Env \ {e} : pc'[f] = pc[f]
    BY <2>1, <2>2, GotoType
  <2>4. cache' \in [Env -> Caches]
    BY <2>1, SaveToCacheType
  <2>5. /\ rec' \in [Env -> DataRecord \cup {None}]
        /\ rec'[e] = r
        /\ \A f \in Env \ {e} : rec'[f] = rec[f]
    BY <2>1, Types
  <2>6. QED
    BY <2>1, <2>3, <2>4, <2>5, Types DEF OthersSame, WellFormed, Active
<1>3. QED
  BY <1>1, <1>2

------------------------------------------------------------------------------
(* Type correctness, one lemma per action *)

LEMMA BeginType ==
  ASSUME BaseOK, NEW e \in Env, Begin(e)
  PROVE  BaseOK'
PROOF
<1>1. PICK k \in Key \cup {NoKey}, p \in Payload, r \in Remaining, c \in Contexts :
        call' = [call EXCEPT ![e] =
                   [key |-> k, payload |-> p, context |-> c, deadline |-> now + r,
                    tries |-> 0, at |-> now, id |-> invocations + 1]]
  BY DEF Begin
<1>2. now + r \in Nat /\ invocations + 1 \in 0..MaxInvocations
  BY Types, TimeAssumption, OptionAssumption DEF Begin
<1>3. [key |-> k, payload |-> p, context |-> c, deadline |-> now + r,
       tries |-> 0, at |-> now, id |-> invocations + 1] \in Call
  BY <1>2, Types, OptionAssumption DEF Call, MAX_RETRIES
<1>4. /\ call' \in [Env -> Call]
      /\ call'[e].payload = p
      /\ \A f \in Env \ {e} : call'[f] = call[f]
  BY <1>1, <1>3, Types
<1>5. "save" \in RedisLabels
  BY DEF RedisLabels, Labels
<1>6. /\ Goto(e, "save")
      /\ invocations' = invocations + 1
      /\ UNCHANGED <<now, store, cache, rec, out>>
  BY DEF Begin
<1>7. /\ pc' \in [Env -> RedisLabels]
      /\ pc'[e] = "save"
      /\ \A f \in Env \ {e} : pc'[f] = pc[f]
  BY <1>5, <1>6, GotoType
<1>8. OthersSame(e) /\ WellFormed(e)'
  BY <1>4, <1>6, <1>7 DEF OthersSame, WellFormed
<1>9. QED
  BY <1>2, <1>4, <1>6, <1>7, <1>8, Types, StepType

LEMMA SaveInProgressType ==
  ASSUME BaseOK, NEW e \in Env, SaveInProgress(e)
  PROVE  BaseOK'
PROOF
<1>1. /\ pc[e] = "save"
      /\ UNCHANGED <<now, store, invocations>>
      /\ call[e].payload \in Payload
  BY Types DEF SaveInProgress, WellFormed, Active
<1>2. CASE call[e].key = NoKey
  <2>1. UNCHANGED <<cache, call, rec>>
    BY <1>2 DEF SaveInProgress
  <2>2. CASE Raise(e, "KeyError")
    <3>1. /\ pc' = [pc EXCEPT ![e] = "done"]
          /\ pc' \in [Env -> RedisLabels] /\ out' \in [Env -> Outcome]
      BY <2>2, RaiseType DEF Kinds
    <3>2. OthersSame(e) /\ WellFormed(e)'
      BY <2>1, <3>1, Types DEF OthersSame, WellFormed, Active
    <3>3. QED
      BY <1>1, <2>1, <3>1, <3>2, Types, StepType
  <2>3. CASE Goto(e, "run") /\ out' = out
    <3>1. "run" \in RedisLabels
      BY DEF RedisLabels, Labels
    <3>2. pc' \in [Env -> RedisLabels] /\ pc'[e] = "run" /\ \A f \in Env \ {e} : pc'[f] = pc[f]
      BY <2>3, <3>1, GotoType
    <3>3. OthersSame(e) /\ WellFormed(e)'
      BY <1>1, <2>1, <3>2 DEF OthersSame, WellFormed
    <3>4. QED
      BY <1>1, <2>1, <2>3, <3>2, <3>3, Types, StepType
  <2>4. QED
    BY <1>2, <2>2, <2>3 DEF SaveInProgress
<1>3. CASE call[e].key # NoKey
  <2>1. call[e].key \in Key
    BY <1>3, CallFields
  <2>2. cache' = [cache EXCEPT ![e] = Purged(e, call[e].key)] /\ out' = out
    BY <1>3 DEF SaveInProgress
  <2>3. cache' \in [Env -> Caches]
    BY <2>1, <2>2, PurgedType, Types
  <2>4. CASE Goto(e, "get") /\ UNCHANGED <<call, rec>>
    <3>1. "get" \in RedisLabels
      BY DEF RedisLabels, Labels
    <3>2. pc' \in [Env -> RedisLabels] /\ pc'[e] = "get" /\ \A f \in Env \ {e} : pc'[f] = pc[f]
      BY <2>4, <3>1, GotoType
    <3>3. OthersSame(e) /\ WellFormed(e)'
      BY <1>1, <2>1, <2>4, <3>2 DEF OthersSame, WellFormed
    <3>4. QED
      BY <1>1, <2>2, <2>3, <2>4, <3>2, <3>3, Types, StepType
  <2>5. CASE /\ rec' = [rec EXCEPT ![e] = NewInProgress(e)]
             /\ call' = [call EXCEPT ![e].at = now]
             /\ Goto(e, "put")
    <3>1. "put" \in RedisLabels
      BY DEF RedisLabels, Labels
    <3>2. pc' \in [Env -> RedisLabels] /\ pc'[e] = "put" /\ \A f \in Env \ {e} : pc'[f] = pc[f]
      BY <2>5, <3>1, GotoType
    <3>3. [call[e] EXCEPT !.at = now] \in Call
      BY Types DEF Call
    <3>4. /\ call' \in [Env -> Call]
          /\ call'[e] = [call[e] EXCEPT !.at = now]
          /\ \A f \in Env \ {e} : call'[f] = call[f]
      BY <2>5, <3>3, Types
    <3>5. call'[e].key = call[e].key /\ call'[e].payload = call[e].payload
      BY <3>4, Types DEF Call
    <3>6. /\ rec' \in [Env -> DataRecord \cup {None}]
          /\ rec'[e] \in DataRecord
          /\ \A f \in Env \ {e} : rec'[f] = rec[f]
      BY <2>5, NewInProgressType, Types
    <3>7. OthersSame(e) /\ WellFormed(e)'
      BY <1>1, <2>1, <3>2, <3>4, <3>5, <3>6 DEF OthersSame, WellFormed
    <3>8. QED
      BY <1>1, <2>2, <2>3, <3>2, <3>4, <3>6, <3>7, Types, StepType
  <2>6. QED
    BY <1>3, <2>4, <2>5 DEF SaveInProgress
<1>4. QED
  BY <1>2, <1>3

LEMMA GetCachedRecordType ==
  ASSUME BaseOK, NEW e \in Env, GetCachedRecord(e)
  PROVE  BaseOK'
PROOF
<1>1. /\ pc[e] = "get"
      /\ Cached(e, call[e].key) # None
      /\ UNCHANGED <<now, store, cache, call, invocations>>
  BY DEF GetCachedRecord
<1>2. call[e].payload \in Payload /\ call[e].key \in Key
  BY <1>1, Types DEF WellFormed, Active
<1>3. Cached(e, call[e].key) \in DataRecord
  BY <1>1, <1>2, Types DEF Cached, Caches
<1>4. CASE Raise(e, "ValidationError") /\ rec' = rec
  <2>1. pc' = [pc EXCEPT ![e] = "done"] /\ pc' \in [Env -> RedisLabels] /\ out' \in [Env -> Outcome]
    BY <1>4, RaiseType DEF Kinds
  <2>2. OthersSame(e) /\ WellFormed(e)'
    BY <1>1, <1>4, <2>1, Types DEF OthersSame, WellFormed, Active
  <2>3. QED
    BY <1>1, <1>4, <2>1, <2>2, Types, StepType
<1>5. CASE /\ rec' = [rec EXCEPT ![e] = Cached(e, call[e].key)]
           /\ Goto(e, "handle")
           /\ out' = out
  <2>1. "handle" \in RedisLabels
    BY DEF RedisLabels, Labels
  <2>2. pc' \in [Env -> RedisLabels] /\ pc'[e] = "handle" /\ \A f \in Env \ {e} : pc'[f] = pc[f]
    BY <1>5, <2>1, GotoType
  <2>3. /\ rec' \in [Env -> DataRecord \cup {None}]
        /\ rec'[e] \in DataRecord
        /\ \A f \in Env \ {e} : rec'[f] = rec[f]
    BY <1>3, <1>5, Types
  <2>4. OthersSame(e) /\ WellFormed(e)'
    BY <1>1, <1>2, <2>2, <2>3 DEF OthersSame, WellFormed
  <2>5. QED
    BY <1>1, <1>5, <2>2, <2>3, <2>4, Types, StepType
<1>6. QED
  BY <1>4, <1>5 DEF GetCachedRecord

LEMMA HandleForStatusType ==
  ASSUME BaseOK, NEW e \in Env, HandleForStatus(e)
  PROVE  BaseOK'
PROOF
<1>1. /\ pc[e] = "handle"
      /\ UNCHANGED <<now, store, cache, rec, invocations>>
  BY DEF HandleForStatus
<1>2. call[e].payload \in Payload /\ call[e].key \in Key /\ rec[e] \in DataRecord
  BY <1>1, Types DEF WellFormed, Active
<1>3. CASE Retry(e)
  <2>1. OthersSame(e) /\ WellFormed(e)'
    BY <1>1, <1>2, <1>3, RetryType DEF OthersSame, WellFormed
  <2>2. QED
    BY <1>1, <1>3, <2>1, RetryType, Types, StepType
<1>4. CASE Raise(e, "AlreadyInProgress") /\ call' = call
  <2>1. pc' = [pc EXCEPT ![e] = "done"] /\ pc' \in [Env -> RedisLabels] /\ out' \in [Env -> Outcome]
    BY <1>4, RaiseType DEF Kinds
  <2>2. OthersSame(e) /\ WellFormed(e)'
    BY <1>1, <1>4, <2>1, Types DEF OthersSame, WellFormed, Active
  <2>3. QED
    BY <1>1, <1>4, <2>1, <2>2, Types, StepType
<1>5. CASE /\ out' = [out EXCEPT ![e] = [kind |-> "response", data |-> rec[e].data]]
           /\ Goto(e, "done")
           /\ call' = call
  <2>1. "done" \in RedisLabels
    BY DEF RedisLabels, Labels
  <2>2. pc' \in [Env -> RedisLabels] /\ pc'[e] = "done" /\ \A f \in Env \ {e} : pc'[f] = pc[f]
    BY <1>5, <2>1, GotoType
  <2>3. [kind |-> "response", data |-> rec[e].data] \in Outcome
    BY <1>2 DEF Outcome, DataRecord
  <2>4. out' \in [Env -> Outcome]
    BY <1>5, <2>3, Types
  <2>5. OthersSame(e) /\ WellFormed(e)'
    BY <1>1, <1>5, <2>2 DEF OthersSame, WellFormed, Active
  <2>6. QED
    BY <1>1, <1>5, <2>2, <2>4, <2>5, Types, StepType
<1>6. QED
  BY <1>3, <1>4, <1>5 DEF HandleForStatus

LEMMA FunctionReturnsType ==
  ASSUME BaseOK, NEW e \in Env, FunctionReturns(e)
  PROVE  BaseOK'
PROOF
<1>1. /\ pc[e] = "run"
      /\ UNCHANGED <<now, store, cache, call, invocations>>
  BY DEF FunctionReturns
<1>2. call[e].payload \in Payload
  BY <1>1, Types DEF WellFormed, Active
<1> DEFINE response(f) == [by |-> call[e].id, payload |-> call[e].payload, falsy |-> f]
<1>3. PICK f \in Falsy :
        /\ out' = [out EXCEPT ![e] = [kind |-> "response", data |-> response(f)]]
        /\ \/ call[e].key = NoKey /\ Goto(e, "done") /\ rec' = rec
           \/ /\ call[e].key # NoKey
              /\ rec' = [rec EXCEPT ![e] = NewCompleted(e, response(f))]
              /\ Goto(e, "update")
  BY DEF FunctionReturns
<1>4. response(f) \in Result
  BY <1>2, CallFields, OptionAssumption DEF Result
<1> HIDE DEF response
<1>5. [kind |-> "response", data |-> response(f)] \in Outcome
  BY <1>4 DEF Outcome
<1>6. out' \in [Env -> Outcome]
  BY <1>3, <1>5, Types
<1>7. "done" \in RedisLabels /\ "update" \in RedisLabels
  BY DEF RedisLabels, Labels
<1>8. CASE call[e].key = NoKey
  <2>1. pc' \in [Env -> RedisLabels] /\ pc'[e] = "done" /\ \A g \in Env \ {e} : pc'[g] = pc[g]
    BY <1>3, <1>7, <1>8, GotoType
  <2>2. rec' = rec
    BY <1>3, <1>8
  <2>3. OthersSame(e) /\ WellFormed(e)'
    BY <1>1, <2>1, <2>2 DEF OthersSame, WellFormed, Active
  <2>4. QED
    BY <1>1, <1>6, <2>1, <2>2, <2>3, Types, StepType
<1>9. CASE call[e].key # NoKey
  <2>1. pc' \in [Env -> RedisLabels] /\ pc'[e] = "update" /\ \A g \in Env \ {e} : pc'[g] = pc[g]
    BY <1>3, <1>7, <1>9, GotoType
  <2>2. NewCompleted(e, response(f)) \in DataRecord
    BY <1>4, NewCompletedType
  <2>3. /\ rec' \in [Env -> DataRecord \cup {None}]
        /\ rec'[e] \in DataRecord
        /\ \A g \in Env \ {e} : rec'[g] = rec[g]
    BY <1>3, <1>9, <2>2, Types
  <2>4. call[e].key \in Key
    BY <1>9, CallFields
  <2>5. OthersSame(e) /\ WellFormed(e)'
    BY <1>1, <1>2, <2>1, <2>3, <2>4 DEF OthersSame, WellFormed
  <2>6. QED
    BY <1>1, <1>6, <2>1, <2>3, <2>5, Types, StepType
<1>10. QED
  BY <1>8, <1>9

LEMMA FunctionRaisesType ==
  ASSUME BaseOK, NEW e \in Env, FunctionRaises(e)
  PROVE  BaseOK'
PROOF
<1>1. /\ pc[e] = "run"
      /\ UNCHANGED <<now, store, cache, call, rec, invocations>>
      /\ out' = [out EXCEPT ![e] = [kind |-> "FunctionError", data |-> None]]
  BY DEF FunctionRaises
<1>2. call[e].payload \in Payload
  BY <1>1, Types DEF WellFormed, Active
<1>3. [kind |-> "FunctionError", data |-> None] \in Outcome
  BY DEF Outcome
<1>4. out' \in [Env -> Outcome]
  BY <1>1, <1>3, Types
<1>5. PICK label \in {"done", "delete"} :
        Goto(e, label) /\ (label = "delete" => call[e].key # NoKey)
  BY DEF FunctionRaises
<1>6. "done" \in RedisLabels /\ "delete" \in RedisLabels
  BY DEF RedisLabels, Labels
<1>7. pc' \in [Env -> RedisLabels] /\ pc'[e] = label /\ \A f \in Env \ {e} : pc'[f] = pc[f]
  BY <1>5, <1>6, GotoType
<1>8. label = "delete" => call[e].key \in Key
  BY <1>5, CallFields
<1>9. OthersSame(e) /\ WellFormed(e)'
  BY <1>1, <1>2, <1>5, <1>7, <1>8 DEF OthersSame, WellFormed
<1>10. QED
  BY <1>1, <1>4, <1>7, <1>9, Types, StepType

\* The end of an invocation, the environment keeping its cache or not.
LEMMA ResetType ==
  ASSUME BaseOK, NEW e \in Env, Reset(e), cache' \in [Env -> Caches]
  PROVE  BaseOK'
PROOF
<1>1. NoCall \in Call /\ NoOutcome \in Outcome /\ "idle" \in RedisLabels
  BY DEF NoCall, Call, MAX_RETRIES, NoOutcome, Outcome, RedisLabels, Labels
<1>2. pc' \in [Env -> RedisLabels] /\ pc'[e] = "idle" /\ \A f \in Env \ {e} : pc'[f] = pc[f]
  BY <1>1, GotoType DEF Reset
<1>3. /\ call' \in [Env -> Call]
      /\ rec' \in [Env -> DataRecord \cup {None}]
      /\ out' \in [Env -> Outcome]
      /\ UNCHANGED <<now, store, invocations>>
  BY <1>1, Types DEF Reset
<1>4. OthersSame(e) /\ WellFormed(e)'
  BY <1>2, Types DEF Reset, OthersSame, WellFormed, Active
<1>5. QED
  BY <1>2, <1>3, <1>4, Types, StepType

LEMMA KillType ==
  ASSUME BaseOK, NEW e \in Env, Kill(e)
  PROVE  BaseOK'
PROOF
<1>1. cache' \in [Env -> Caches]
  BY Types DEF Kill, EmptyCache, Caches
<1>2. QED
  BY <1>1, ResetType DEF Kill

LEMMA FinishType ==
  ASSUME BaseOK, NEW e \in Env, Finish(e)
  PROVE  BaseOK'
PROOF
  BY Types, ResetType DEF Finish

\* A store step that ends in a PersistenceLayerError.
LEMMA FailureType ==
  ASSUME BaseOK, NEW e \in Env, Raise(e, "PersistenceLayerError"),
         UNCHANGED <<now, call, rec, invocations>>,
         store' \in Caches, cache' \in [Env -> Caches]
  PROVE  BaseOK'
PROOF
<1>1. pc' = [pc EXCEPT ![e] = "done"] /\ pc' \in [Env -> RedisLabels] /\ out' \in [Env -> Outcome]
  BY RaiseType DEF Kinds
<1>2. OthersSame(e) /\ WellFormed(e)'
  BY <1>1, Types DEF OthersSame, WellFormed, Active
<1>3. QED
  BY <1>1, <1>2, Types, StepType

\* A store step that ends a call or leads to its next label.
LEMMA GoesOnType ==
  ASSUME BaseOK, NEW e \in Env,
         NEW label \in {"inspect", "lock", "overwrite", "get", "run", "done"}, Goto(e, label),
         UNCHANGED <<now, call, rec, out, invocations>>,
         call[e].payload \in Payload, call[e].key \in Key,
         store' \in Caches, cache' \in [Env -> Caches]
  PROVE  BaseOK'
PROOF
<1>1. label \in RedisLabels
  BY DEF RedisLabels, Labels
<1>2. pc' \in [Env -> RedisLabels] /\ pc'[e] = label /\ \A f \in Env \ {e} : pc'[f] = pc[f]
  BY <1>1, GotoType
<1>3. OthersSame(e) /\ WellFormed(e)'
  BY <1>2 DEF OthersSame, WellFormed
<1>4. QED
  BY <1>2, <1>3, Types, StepType

LEMMA GetRecordType ==
  ASSUME BaseOK, NEW e \in Env, GetRecord(e)
  PROVE  BaseOK'
PROOF
<1>1. pc[e] = "get" /\ UNCHANGED <<now, store, invocations>>
  BY DEF GetRecord
<1>2. call[e].payload \in Payload /\ call[e].key \in Key
  BY <1>1, Types DEF WellFormed, Active
<1>3. Purged(e, call[e].key) \in Caches
  BY <1>2, PurgedType
<1>4. CASE /\ cache' = [cache EXCEPT ![e] = Purged(e, call[e].key)]
           /\ Retry(e)
           /\ rec' = rec
  <2>1. cache' \in [Env -> Caches]
    BY <1>3, <1>4, Types
  <2>2. OthersSame(e) /\ WellFormed(e)'
    BY <1>2, <1>4, RetryType DEF OthersSame, WellFormed
  <2>3. QED
    BY <1>1, <1>4, <2>1, <2>2, RetryType, Types, StepType
<1>5. CASE /\ store[call[e].key] # None
           /\ Found(e, Purged(e, call[e].key), store[call[e].key])
           /\ call' = call
  <2>1. store[call[e].key] \in DataRecord
    BY <1>2, <1>5, Types DEF Caches
  <2>2. /\ pc' \in [Env -> RedisLabels]
        /\ out' \in [Env -> Outcome]
        /\ rec' \in [Env -> DataRecord \cup {None}]
        /\ cache' \in [Env -> Caches]
        /\ OthersSame(e)
        /\ WellFormed(e)'
    BY <1>2, <1>3, <1>5, <2>1, FoundType
  <2>3. QED
    BY <1>1, <1>5, <2>2, Types, StepType
<1>6. QED
  BY <1>4, <1>5 DEF GetRecord

------------------------------------------------------------------------------
(* Type correctness: Redis's keys, and the commands of a put. TypeOK is not     *)
(* inductive by itself: the commands after the first need the key and the       *)
(* record that the first had.                                                   *)

Putting == {"put", "inspect", "lock", "overwrite"}

\* What an invocation has at hand in the middle of a put.
Equipped(e) == pc[e] \in Putting => call[e].key \in Key /\ rec[e] \in DataRecord

Lifetimes == [Key -> Nat \cup {None}]

SameLife == \A k \in Key : store[k] = None <=> dies[k] = None

KeysOK ==
  /\ dies \in Lifetimes
  /\ lock \in Lifetimes
  /\ SameLife

TypeInv == TypeOK /\ \A e \in Env : Equipped(e)

LEMMA TypeParts == TypeOK <=> BaseOK /\ KeysOK
PROOF
  BY DEF TypeOK, BaseOK, RedisLabels, KeysOK, Lifetimes, SameLife

LEMMA TypePartsNext == TypeOK' <=> BaseOK' /\ KeysOK'
PROOF
  BY DEF TypeOK, BaseOK, RedisLabels, KeysOK, Lifetimes, SameLife

LEMMA LifeType ==
  ASSUME NEW seconds \in Nat, BaseOK
  PROVE  now + seconds * TicksPerSecond \in Nat
PROOF
  BY Types, TimeAssumption

LEMMA SetRecordType ==
  ASSUME TypeOK, NEW k \in Key, NEW r \in DataRecord, SetRecord(k, r)
  PROVE  /\ store' \in Caches /\ dies' \in Lifetimes /\ SameLife'
         /\ store'[k] = r /\ dies'[k] = now + ExpiresAfter * TicksPerSecond
         /\ \A j \in Key \ {k} : store'[j] = store[j] /\ dies'[j] = dies[j]
PROOF
<1>1. /\ BaseOK /\ store \in Caches /\ dies \in Lifetimes /\ SameLife
      /\ now + ExpiresAfter * TicksPerSecond \in Nat
  BY TypeParts, Types, LifeType, TimeAssumption DEF KeysOK
<1>2. store' \in Caches /\ dies' \in Lifetimes
  BY <1>1 DEF SetRecord, Caches, Lifetimes
<1>3. /\ store'[k] = r /\ dies'[k] = now + ExpiresAfter * TicksPerSecond
      /\ \A j \in Key \ {k} : store'[j] = store[j] /\ dies'[j] = dies[j]
  BY <1>1 DEF SetRecord, Caches, Lifetimes
<1>4. r # None /\ now + ExpiresAfter * TicksPerSecond # None
  BY <1>1, RecordAssumption, NoneAssumption
<1>5. SameLife'
  BY <1>1, <1>3, <1>4 DEF SameLife
<1>6. QED
  BY <1>2, <1>3, <1>5

LEMMA DropRecordType ==
  ASSUME TypeOK, NEW k \in Key, DropRecord(k)
  PROVE  /\ store' \in Caches /\ dies' \in Lifetimes /\ SameLife'
         /\ store'[k] = None /\ dies'[k] = None
         /\ \A j \in Key \ {k} : store'[j] = store[j] /\ dies'[j] = dies[j]
PROOF
<1>1. store \in Caches /\ dies \in Lifetimes /\ SameLife
  BY TypeParts, Types DEF KeysOK
<1>2. store' \in Caches /\ dies' \in Lifetimes
  BY <1>1 DEF DropRecord, Caches, Lifetimes
<1>3. /\ store'[k] = None /\ dies'[k] = None
      /\ \A j \in Key \ {k} : store'[j] = store[j] /\ dies'[j] = dies[j]
  BY <1>1 DEF DropRecord, Caches, Lifetimes
<1>4. SameLife'
  BY <1>1, <1>3 DEF SameLife
<1>5. QED
  BY <1>2, <1>3, <1>4

LEMMA SetLockType ==
  ASSUME TypeOK, NEW k \in Key, SetLock(k)
  PROVE  /\ lock' \in Lifetimes
         /\ lock'[k] = now + LockTimeout * TicksPerSecond
         /\ \A j \in Key \ {k} : lock'[j] = lock[j]
PROOF
  BY TypeParts, LifeType, LockTimeoutAssumption DEF SetLock, KeysOK, Lifetimes

\* A step of e that ends a put or leaves it, or takes it further.
LEMMA EquippedStep ==
  ASSUME TypeInv, NEW e \in Env, OthersSame(e),
         pc'[e] \in Putting => call'[e].key \in Key /\ rec'[e] \in DataRecord
  PROVE  \A f \in Env : Equipped(f)'
PROOF
  BY DEF TypeInv, Equipped, OthersSame

\* The facts of an invocation in the middle of a put.
LEMMA PuttingFacts ==
  ASSUME TypeInv, NEW e \in Env, pc[e] \in Putting
  PROVE  /\ call[e].key \in Key /\ call[e].payload \in Payload /\ rec[e] \in DataRecord
         /\ store[call[e].key] \in DataRecord \cup {None}
PROOF
<1>1. BaseOK /\ Equipped(e)
  BY TypeParts DEF TypeInv
<1>2. call[e].key \in Key /\ rec[e] \in DataRecord
  BY <1>1 DEF Equipped
<1>3. call[e].payload \in Payload
  BY <1>1, Types DEF WellFormed, Active, Putting
<1>4. store[call[e].key] \in DataRecord \cup {None}
  BY <1>1, <1>2, Types DEF Caches
<1>5. QED
  BY <1>2, <1>3, <1>4

\* The end of a call, its record and arguments untouched.
LEMMA RaisedSame ==
  ASSUME BaseOK, NEW e \in Env, NEW kind \in Kinds, Raise(e, kind), UNCHANGED <<call, rec>>
  PROVE  OthersSame(e) /\ pc'[e] = "done"
PROOF
  BY RaiseType, Types DEF OthersSame

LEMMA WentSame ==
  ASSUME BaseOK, NEW e \in Env, NEW label, Goto(e, label), UNCHANGED <<call, rec>>
  PROVE  OthersSame(e) /\ pc'[e] = label
PROOF
  BY Types DEF OthersSame, Goto

\* A step that leaves Redis alone and begins no put, or puts what it has.
LEMMA LocalTypeInv ==
  ASSUME TypeInv, BaseOK', NEW e \in Env, OthersSame(e), UNCHANGED <<store, dies, lock>>,
         pc'[e] \in Putting => call'[e].key \in Key /\ rec'[e] \in DataRecord
  PROVE  TypeInv'
PROOF
<1>1. KeysOK'
  BY TypeParts DEF TypeInv, KeysOK, SameLife
<1>2. \A f \in Env : Equipped(f)'
  BY EquippedStep
<1>3. TypeOK'
  BY <1>1, TypePartsNext
<1>4. QED
  BY <1>2, <1>3 DEF TypeInv

LEMMA LocalStepType ==
  ASSUME TypeInv, NEW e \in Env, Begin(e) \/ LocalStep(e) \/ Kill(e), UNCHANGED <<dies, lock>>
  PROVE  TypeInv'
PROOF
<1>1. BaseOK
  BY TypeParts DEF TypeInv
<1>2. BaseOK'
  BY <1>1, BeginType, SaveInProgressType, GetCachedRecordType, HandleForStatusType,
     FunctionReturnsType, FunctionRaisesType, FinishType, KillType DEF LocalStep
<1>3. store' = store /\ OthersSame(e)
  BY <1>1, Types
  DEF Begin, LocalStep, SaveInProgress, GetCachedRecord, HandleForStatus, FunctionReturns,
      FunctionRaises, Finish, Kill, Reset, Retry, Raise, Goto, OthersSame
<1>4. pc'[e] = "put" \/ pc'[e] \notin Putting
  BY <1>1, Types
  DEF Begin, LocalStep, SaveInProgress, GetCachedRecord, HandleForStatus, FunctionReturns,
      FunctionRaises, Finish, Kill, Reset, Retry, Raise, Goto, Putting
<1>5. pc'[e] = "put" => call'[e].key \in Key /\ rec'[e] \in DataRecord
  BY <1>2 DEF BaseOK, TypeOKWith, WellFormed
<1>6. QED
  BY <1>2, <1>3, <1>4, <1>5, LocalTypeInv

LEMMA PutRecordType ==
  ASSUME TypeInv, NEW e \in Env, PutRecord(e)
  PROVE  TypeInv'
PROOF
<1>1. /\ pc[e] = "put" /\ "put" \in Putting
      /\ UNCHANGED <<now, cache, call, rec, out, invocations, lock>>
      /\ TypeOK /\ BaseOK /\ KeysOK
  BY TypeParts DEF PutRecord, Putting, TypeInv
<1>2. call[e].key \in Key /\ call[e].payload \in Payload /\ rec[e] \in DataRecord
  BY <1>1, PuttingFacts
<1>3. PICK label \in {"run", "inspect"} : Goto(e, label)
  BY DEF PutRecord
<1>4. store' \in Caches /\ dies' \in Lifetimes /\ SameLife'
  <2>1. CASE SetRecord(call[e].key, rec[e])
    BY <1>1, <1>2, <2>1, SetRecordType
  <2>2. CASE UNCHANGED <<store, dies>>
    BY <1>1, <2>2, Types DEF KeysOK, SameLife
  <2>3. QED
    BY <2>1, <2>2 DEF PutRecord
<1>5. BaseOK'
  BY <1>1, <1>2, <1>3, <1>4, Types, GoesOnType
<1>6. OthersSame(e)
  BY <1>1, <1>3, WentSame
<1>7. \A f \in Env : Equipped(f)'
  BY <1>1, <1>2, <1>6, EquippedStep
<1>8. QED
  BY <1>1, <1>4, <1>5, <1>7, TypePartsNext DEF TypeInv, KeysOK

\* A command fails, having been applied or not.
LEMMA RaisesType ==
  ASSUME TypeInv, NEW e \in Env, Raise(e, "PersistenceLayerError"),
         UNCHANGED <<now, cache, call, rec, invocations>>,
         store' \in Caches, dies' \in Lifetimes, lock' \in Lifetimes, SameLife'
  PROVE  TypeInv'
PROOF
<1>1. BaseOK /\ "PersistenceLayerError" \in Kinds
  BY TypeParts DEF TypeInv, Kinds
<1>2. BaseOK'
  BY <1>1, Types, FailureType
<1>3. OthersSame(e) /\ pc'[e] = "done"
  BY <1>1, RaisedSame
<1>4. \A f \in Env : Equipped(f)'
  BY <1>3, EquippedStep DEF Putting
<1>5. QED
  BY <1>2, <1>4, TypePartsNext DEF TypeInv, KeysOK

\* A store step that leads on, with the record and the arguments it had.
LEMMA LeadsOnType ==
  ASSUME TypeInv, NEW e \in Env,
         NEW label \in {"inspect", "lock", "overwrite", "get", "run", "done"}, Goto(e, label),
         UNCHANGED <<now, call, rec, out, invocations>>,
         call[e].key \in Key, call[e].payload \in Payload,
         label \in Putting => rec[e] \in DataRecord,
         cache' \in [Env -> Caches], store' \in Caches,
         dies' \in Lifetimes, lock' \in Lifetimes, SameLife'
  PROVE  TypeInv'
PROOF
<1>1. BaseOK
  BY TypeParts DEF TypeInv
<1>2. BaseOK'
  BY <1>1, GoesOnType
<1>3. OthersSame(e) /\ pc'[e] = label
  BY <1>1, WentSame
<1>4. \A f \in Env : Equipped(f)'
  BY <1>3, EquippedStep
<1>5. QED
  BY <1>2, <1>4, TypePartsNext DEF TypeInv, KeysOK

LEMMA CurrentTypes ==
  ASSUME TypeInv
  PROVE  /\ TypeOK /\ BaseOK
         /\ store \in Caches /\ cache \in [Env -> Caches]
         /\ dies \in Lifetimes /\ lock \in Lifetimes /\ SameLife
PROOF
  BY TypeParts, Types DEF TypeInv, KeysOK

LEMMA SameLifeKept ==
  ASSUME SameLife, UNCHANGED <<store, dies>>
  PROVE  SameLife'
PROOF
  BY DEF SameLife

LEMMA InspectType ==
  ASSUME TypeInv, NEW e \in Env, Inspect(e)
  PROVE  TypeInv'
PROOF
<1>1. /\ pc[e] = "inspect" /\ "inspect" \in Putting
      /\ UNCHANGED <<now, store, cache, call, rec, invocations, dies, lock>>
  BY DEF Inspect, Putting
<1>2. call[e].key \in Key /\ call[e].payload \in Payload /\ rec[e] \in DataRecord
  BY <1>1, PuttingFacts
<1>3. SameLife'
  BY <1>1, CurrentTypes, SameLifeKept
<1>4. CASE Raise(e, "PersistenceLayerError")
  BY <1>1, <1>3, <1>4, CurrentTypes, RaisesType
<1>5. CASE (Goto(e, "get") \/ Goto(e, "lock")) /\ out' = out
  BY <1>1, <1>2, <1>3, <1>5, CurrentTypes, LeadsOnType
<1>6. QED
  BY <1>4, <1>5 DEF Inspect

LEMMA AcquireLockType ==
  ASSUME TypeInv, NEW e \in Env, AcquireLock(e)
  PROVE  TypeInv'
PROOF
<1>1. /\ pc[e] = "lock" /\ "lock" \in Putting
      /\ UNCHANGED <<now, store, cache, call, rec, out, invocations, dies>>
  BY DEF AcquireLock, Putting
<1>2. call[e].key \in Key /\ call[e].payload \in Payload /\ rec[e] \in DataRecord
  BY <1>1, PuttingFacts
<1>3. SameLife'
  BY <1>1, CurrentTypes, SameLifeKept
<1>4. CASE SetLock(call[e].key) /\ Goto(e, "overwrite")
  <2>1. lock' \in Lifetimes
    BY <1>2, <1>4, CurrentTypes, SetLockType
  <2>2. QED
    BY <1>1, <1>2, <1>3, <1>4, <2>1, CurrentTypes, LeadsOnType
<1>5. CASE lock' = lock /\ Goto(e, "get")
  BY <1>1, <1>2, <1>3, <1>5, CurrentTypes, LeadsOnType
<1>6. QED
  BY <1>4, <1>5 DEF AcquireLock

LEMMA OverwriteOrphanType ==
  ASSUME TypeInv, NEW e \in Env, OverwriteOrphan(e)
  PROVE  TypeInv'
PROOF
<1>1. /\ pc[e] = "overwrite" /\ "overwrite" \in Putting /\ "run" \notin Putting
      /\ SetRecord(call[e].key, rec[e]) /\ Goto(e, "run")
      /\ UNCHANGED <<now, cache, call, rec, out, invocations, lock>>
  BY DEF OverwriteOrphan, Putting
<1>2. call[e].key \in Key /\ call[e].payload \in Payload /\ rec[e] \in DataRecord
  BY <1>1, PuttingFacts
<1>3. store' \in Caches /\ dies' \in Lifetimes /\ SameLife'
  BY <1>1, <1>2, CurrentTypes, SetRecordType
<1>4. QED
  BY <1>1, <1>2, <1>3, CurrentTypes, LeadsOnType

LEMMA PutFailsType ==
  ASSUME TypeInv, NEW e \in Env, PutFails(e)
  PROVE  TypeInv'
PROOF
<1>1. /\ pc[e] = "put" /\ "put" \in Putting
      /\ Raise(e, "PersistenceLayerError")
      /\ UNCHANGED <<now, cache, call, rec, invocations, lock>>
  BY DEF PutFails, Putting
<1>2. call[e].key \in Key /\ rec[e] \in DataRecord
  BY <1>1, PuttingFacts
<1>3. store' \in Caches /\ dies' \in Lifetimes /\ SameLife'
  BY <1>2, CurrentTypes, SetRecordType, SameLifeKept DEF PutFails
<1>4. QED
  BY <1>1, <1>3, CurrentTypes, RaisesType

LEMMA CommandFailsType ==
  ASSUME TypeInv, NEW e \in Env, CommandFails(e)
  PROVE  TypeInv'
PROOF
<1>1. /\ Raise(e, "PersistenceLayerError")
      /\ UNCHANGED <<now, cache, call, rec, invocations>>
  BY DEF CommandFails
<1>2. CASE UNCHANGED <<store, dies, lock>>
  BY <1>1, <1>2, CurrentTypes, SameLifeKept, RaisesType
<1>3. CASE pc[e] = "lock" /\ SetLock(call[e].key) /\ UNCHANGED <<store, dies>>
  <2>1. call[e].key \in Key
    BY <1>3, PuttingFacts DEF Putting
  <2>2. lock' \in Lifetimes
    BY <1>3, <2>1, CurrentTypes, SetLockType
  <2>3. QED
    BY <1>1, <1>3, <2>2, CurrentTypes, SameLifeKept, RaisesType
<1>4. CASE pc[e] = "overwrite" /\ SetRecord(call[e].key, rec[e]) /\ lock' = lock
  <2>1. call[e].key \in Key /\ rec[e] \in DataRecord
    BY <1>4, PuttingFacts DEF Putting
  <2>2. store' \in Caches /\ dies' \in Lifetimes /\ SameLife'
    BY <1>4, <2>1, CurrentTypes, SetRecordType
  <2>3. QED
    BY <1>1, <1>4, <2>2, CurrentTypes, RaisesType
<1>5. QED
  BY <1>2, <1>3, <1>4 DEF CommandFails

LEMMA ReadType ==
  ASSUME TypeInv, NEW e \in Env, GetRecord(e)
  PROVE  TypeInv'
PROOF
<1>1. /\ BaseOK' /\ BaseOK /\ UNCHANGED <<store, dies, lock>>
  BY CurrentTypes, GetRecordType DEF GetRecord
<1>2. pc'[e] \notin Putting /\ OthersSame(e)
  BY <1>1, Types
  DEF GetRecord, Found, Retry, Raise, Goto, OthersSame, Putting
<1>3. QED
  BY <1>1, <1>2, LocalTypeInv

\* What an update writes is the record at hand, cut down.
LEMMA StoredType ==
  ASSUME NEW r \in DataRecord
  PROVE  /\ Stored(r) \in DataRecord
         /\ Stored(r).status = r.status /\ Stored(r).data = r.data
         /\ Stored(r).hash = None
PROOF
  BY DEF Stored, DataRecord

\* The writes of an invocation that owns its key.
OwnerWrites(e) ==
  \/ pc[e] = "update" /\ SetRecord(call[e].key, Stored(rec[e]))
  \/ pc[e] = "delete" /\ DropRecord(call[e].key)

LEMMA OwnerWritesType ==
  ASSUME TypeInv, NEW e \in Env, OwnerWrites(e)
  PROVE  /\ call[e].key \in Key /\ call[e].payload \in Payload
         /\ store' \in Caches /\ dies' \in Lifetimes /\ SameLife'
         /\ \A j \in Key \ {call[e].key} : store'[j] = store[j] /\ dies'[j] = dies[j]
PROOF
<1>1. BaseOK /\ TypeOK
  BY CurrentTypes
<1>2. call[e].key \in Key /\ call[e].payload \in Payload
  BY <1>1, Types DEF OwnerWrites, WellFormed, Active
<1>3. CASE pc[e] = "update" /\ SetRecord(call[e].key, Stored(rec[e]))
  <2>1. Stored(rec[e]) \in DataRecord
    BY <1>1, <1>3, Types, StoredType DEF WellFormed
  <2>2. QED
    BY <1>1, <1>2, <1>3, <2>1, SetRecordType
<1>4. CASE DropRecord(call[e].key)
  BY <1>1, <1>2, <1>4, DropRecordType
<1>5. QED
  BY <1>2, <1>3, <1>4 DEF OwnerWrites

LEMMA UpdateRecordType ==
  ASSUME TypeInv, NEW e \in Env, UpdateRecord(e)
  PROVE  TypeInv'
PROOF
<1>1. /\ OwnerWrites(e) /\ Goto(e, "done") /\ "done" \notin Putting
      /\ UNCHANGED <<now, call, rec, out, invocations, lock>>
  BY DEF UpdateRecord, OwnerWrites, Putting
<1>2. rec[e] \in DataRecord /\ cache[e] \in Caches /\ BaseOK
  BY CurrentTypes, Types DEF UpdateRecord, WellFormed
<1>3. cache' \in [Env -> Caches]
  BY <1>1, <1>2, OwnerWritesType, SaveToCacheType DEF UpdateRecord
<1>4. QED
  BY <1>1, <1>3, CurrentTypes, OwnerWritesType, LeadsOnType

LEMMA DeleteRecordType ==
  ASSUME TypeInv, NEW e \in Env, DeleteRecord(e)
  PROVE  TypeInv'
PROOF
<1>1. /\ OwnerWrites(e) /\ Goto(e, "done") /\ "done" \notin Putting
      /\ UNCHANGED <<now, call, rec, out, invocations, lock>>
  BY DEF DeleteRecord, OwnerWrites, Putting
<1>2. cache' \in [Env -> Caches]
  BY CurrentTypes, DeleteFromCacheType DEF DeleteRecord
<1>3. QED
  BY <1>1, <1>2, CurrentTypes, OwnerWritesType, LeadsOnType

LEMMA OwnerFailsType ==
  ASSUME TypeInv, NEW e \in Env, UpdateFails(e) \/ DeleteFails(e)
  PROVE  TypeInv'
PROOF
<1>1. /\ OwnerWrites(e) \/ UNCHANGED <<store, dies>>
      /\ Raise(e, "PersistenceLayerError")
      /\ UNCHANGED <<now, cache, call, rec, invocations, lock>>
  BY DEF UpdateFails, DeleteFails, OwnerWrites
<1>2. store' \in Caches /\ dies' \in Lifetimes /\ SameLife'
  BY <1>1, CurrentTypes, OwnerWritesType, SameLifeKept
<1>3. QED
  BY <1>1, <1>2, CurrentTypes, RaisesType

\* A tick drops records together with their lifetimes.
LEMMA TickType ==
  ASSUME TypeInv, Tick
  PROVE  TypeInv'
PROOF
<1>1. /\ BaseOK /\ store \in Caches /\ dies \in Lifetimes /\ lock \in Lifetimes /\ SameLife
  BY CurrentTypes
<1>2. /\ now' \in 0..MaxTime
      /\ UNCHANGED <<cache, pc, call, rec, out, invocations>>
  BY <1>1, Types, TimeAssumption DEF Tick, MayTick
<1> DEFINE gone == {k \in Key : dies[k] # None /\ dies[k] <= now'}
<1>3. /\ store' = [k \in Key |-> IF k \in gone THEN None ELSE store[k]]
      /\ dies' = [k \in Key |-> IF k \in gone THEN None ELSE dies[k]]
      /\ lock' = [k \in Key |-> IF lock[k] # None /\ lock[k] <= now' THEN None ELSE lock[k]]
  BY DEF Tick
<1> HIDE DEF gone
<1>4. store' \in Caches /\ dies' \in Lifetimes /\ lock' \in Lifetimes
  BY <1>1, <1>3 DEF Caches, Lifetimes
<1>5. SameLife'
  BY <1>1, <1>3 DEF SameLife
<1>6. BaseOK'
  BY <1>1, <1>2, <1>4, Types DEF BaseOK, TypeOKWith, Caches, WellFormed, Active
<1>7. \A e \in Env : Equipped(e)'
  BY <1>2 DEF TypeInv, Equipped
<1>8. QED
  BY <1>4, <1>5, <1>6, <1>7, TypePartsNext DEF TypeInv, KeysOK

LEMMA InitTypeInv == RedisInit => TypeInv
PROOF
<1> SUFFICES ASSUME RedisInit PROVE TypeInv
  OBVIOUS
<1>1. NoCall \in Call /\ NoOutcome \in Outcome /\ "idle" \in RedisLabels /\ "idle" \notin Putting
  BY DEF NoCall, Call, MAX_RETRIES, NoOutcome, Outcome, RedisLabels, Labels, Putting
<1>2. \A e \in Env : WellFormed(e) /\ Equipped(e)
  BY <1>1 DEF RedisInit, Init, WellFormed, Active, Equipped
<1>3. BaseOK
  BY <1>1, <1>2, TimeAssumption, OptionAssumption
  DEF RedisInit, Init, BaseOK, TypeOKWith, EmptyCache
<1>4. KeysOK
  BY DEF RedisInit, Init, KeysOK, Lifetimes, SameLife
<1>5. QED
  BY <1>2, <1>3, <1>4, TypeParts DEF TypeInv

LEMMA NextTypeInv == TypeInv /\ [Next]_redisVars => TypeInv'
PROOF
<1> SUFFICES ASSUME TypeInv, [Next]_redisVars PROVE TypeInv'
  OBVIOUS
<1>1. ASSUME NEW e \in Env, Begin(e) \/ LocalStep(e) \/ Kill(e), UNCHANGED <<dies, lock>>
      PROVE  TypeInv'
  BY <1>1, LocalStepType
<1>2. ASSUME NEW e \in Env, StoreStep(e) PROVE TypeInv'
  BY <1>2, PutRecordType, PutFailsType, InspectType, AcquireLockType, OverwriteOrphanType,
     ReadType, CommandFailsType, UpdateRecordType, DeleteRecordType, OwnerFailsType
  DEF StoreStep
<1>3. CASE Tick
  BY <1>3, TickType
<1>4. CASE UNCHANGED redisVars
  BY <1>4 DEF redisVars, vars, TypeInv, TypeOK, TypeOKWith, WellFormed, Active, Equipped
<1>5. QED
  BY <1>1, <1>2, <1>3, <1>4 DEF Next

LEMMA TypesHold == Spec => []TypeInv
PROOF
  BY InitTypeInv, NextTypeInv, PTL DEF Spec

\* Every variable keeps its type, and a record has a lifetime as long as it is
\* there: what the time to live of the SETs and the deletion come to.
THEOREM TypeCorrect == Spec => []TypeOK
PROOF
<1>1. TypeInv => TypeOK
  BY DEF TypeInv
<1>2. QED
  BY <1>1, TypesHold, PTL

------------------------------------------------------------------------------
(* Mutual exclusion. The first SET protects its owner until its deadline. An    *)
(* orphan protects the one who holds its lock, and the lock protects it from    *)
(* those who took its record for an orphan too: they must end before the lock   *)
(* does.                                                                        *)

\* What the settings must provide: every call has a context; the service ends it
\* before its deadline; a record lives as long as the invocation that puts it,
\* and the lock twice as long as an invocation.
LockLasts ==
  /\ KillMargin # 0
  /\ Contexts \subseteq {TRUE}
  /\ 0 \notin Remaining
  /\ \A r \in Remaining : r <= ExpiresAfter * TicksPerSecond
  /\ \A r, s \in Remaining : r + s <= LockTimeout * TicksPerSecond

\* Redis does not drop the record of a key while an invocation is about to take
\* it over: what the code leaves to chance.
KeepsOrphans ==
  now' # now =>
    \A e \in Env :
      pc[e] \in {"lock", "overwrite"} /\ store[call[e].key] # None
        => store'[call[e].key] = store[call[e].key]

\* r is the in-progress record of an invocation with the deadline t, and has not
\* expired by then.
Guards(r, t) ==
  /\ r.status = "INPROGRESS"
  /\ r.inprog = t
  /\ Second(t) <= r.expiry

\* An active invocation ends in time.
Alive(e) ==
  Active(e) =>
    /\ now < call[e].deadline
    /\ call[e].at <= now
    /\ call[e].context
    /\ \E r \in Remaining : call[e].deadline <= now + r

Prepared(e) == pc[e] \in Putting => Guards(rec[e], call[e].deadline)

\* The record of the invocation that executes is there until its deadline.
Owns(e) ==
  Executing(e) =>
    /\ store[call[e].key] # None
    /\ Guards(store[call[e].key], call[e].deadline)
    /\ call[e].deadline <= dies[call[e].key]

Orphan(k) ==
  /\ store[k] # None
  /\ \/ IsExpired(store[k], now)
     \/ store[k].status = "INPROGRESS" /\ store[k].inprog <= now

LockedFor(k, t) == lock[k] # None /\ t <= lock[k]

\* Who goes for the lock finds an orphan still, or the lock taken until it ends.
MayLock(e) == pc[e] = "lock" => Orphan(call[e].key) \/ LockedFor(call[e].key, call[e].deadline)

\* Who has the lock has it until all that are active now will have ended.
HoldsLock(e) ==
  pc[e] = "overwrite" =>
    /\ Orphan(call[e].key)
    /\ \A r \in Remaining : LockedFor(call[e].key, call[e].deadline + r)

\* What an owner writes at the end is a result.
Closes(e) == pc[e] = "update" => rec[e].status = "COMPLETED"

OneHolder ==
  \A e, f \in Env :
    e # f /\ pc[e] = "overwrite" /\ pc[f] = "overwrite" => call[e].key # call[f].key

\* With a context, every in-progress record says when it times out.
SaysWhen(k) == store[k] # None /\ store[k].status = "INPROGRESS" => store[k].inprog # None

Protected(e) ==
  Alive(e) /\ Prepared(e) /\ Owns(e) /\ MayLock(e) /\ HoldsLock(e) /\ Closes(e)

LockInv ==
  /\ TypeInv
  /\ \A k \in Key : SaysWhen(k)
  /\ \A e \in Env : Protected(e)
  /\ OneHolder
  /\ MutualExclusion

\* Whole seconds keep the order of ticks, and a period of whole seconds.
LEMMA Division ==
  ASSUME NEW t \in Nat, NEW T \in Nat \ {0}
  PROVE  t \div T \in Nat /\ (t \div T) * T <= t /\ t < (t \div T) * T + T
PROOF
  OBVIOUS

LEMMA SecondMonotonic ==
  ASSUME NEW a \in Nat, NEW b \in Nat, a <= b
  PROVE  Second(a) <= Second(b)
PROOF
<1> DEFINE q == Second(a)
           r == Second(b)
           T == TicksPerSecond
<1>1. T \in Nat \ {0}
  BY TimeAssumption
<1>2. /\ q \in Nat /\ q * T <= a
      /\ r \in Nat /\ b < r * T + T
  BY <1>1, Division DEF Second
<1>3. SUFFICES ASSUME q >= r + 1 PROVE FALSE
  BY <1>2
<1> HIDE DEF q, r, T
<1>4. q * T >= (r + 1) * T
  BY <1>1, <1>2, <1>3
<1>5. (r + 1) * T = r * T + T
  BY <1>1, <1>2
<1>6. r * T \in Nat /\ q * T \in Nat
  BY <1>1, <1>2
<1>7. QED
  BY <1>1, <1>2, <1>4, <1>5, <1>6

LEMMA SecondPlus ==
  ASSUME NEW t \in Nat
  PROVE  Second(t + ExpiresAfter * TicksPerSecond) = Second(t) + ExpiresAfter
PROOF
  BY TimeAssumption DEF Second

LEMMA OwnerKey ==
  ASSUME BaseOK, NEW e \in Env, Executing(e)
  PROVE  call[e].key \in Key /\ Active(e) /\ pc[e] \notin Putting
PROOF
  BY CallFields DEF Executing, Active, Putting

\* The record of an invocation that executes is no orphan.
LEMMA OwnedNoOrphan ==
  ASSUME LockInv, NEW e \in Env, Executing(e)
  PROVE  ~Orphan(call[e].key) /\ store[call[e].key] # None
PROOF
<1> DEFINE k == call[e].key
<1>1. BaseOK /\ k \in Key /\ Active(e) /\ Owns(e) /\ Alive(e)
  BY CurrentTypes, OwnerKey DEF LockInv, Protected
<1>2. /\ now < call[e].deadline /\ now \in Nat /\ call[e].deadline \in Nat
  BY <1>1, Types, CallFields DEF Alive
<1>3. store[k] # None /\ Guards(store[k], call[e].deadline) /\ store[k] \in DataRecord
  BY <1>1, Types DEF Owns, Caches
<1>4. /\ Second(now) <= Second(call[e].deadline)
      /\ Second(now) \in Nat /\ Second(call[e].deadline) \in Nat
  BY <1>2, SecondMonotonic, SecondType
<1>5. store[k].expiry \in Nat
  BY <1>3 DEF DataRecord
<1>6. ~IsExpired(store[k], now)
  BY <1>3, <1>4, <1>5 DEF Guards, IsExpired
<1>7. store[k].inprog > now
  BY <1>2, <1>3 DEF Guards
<1>8. QED
  BY <1>2, <1>3, <1>6, <1>7 DEF Orphan, Guards

\* Nobody but e relies on the record of k.
Clear(e, k) ==
  \A f \in Env \ {e} :
    call[f].key = k =>
      /\ ~Executing(f)
      /\ pc[f] # "overwrite"
      /\ pc[f] = "lock" => LockedFor(k, call[f].deadline)

\* A key without a record.
LEMMA AbsentClear ==
  ASSUME LockInv, NEW e \in Env, NEW k \in Key, store[k] = None
  PROVE  Clear(e, k)
PROOF
  BY OwnedNoOrphan DEF LockInv, Protected, MayLock, HoldsLock, Orphan, Clear

\* The key of an invocation that executes.
LEMMA OwnerClear ==
  ASSUME LockInv, NEW e \in Env, Executing(e)
  PROVE  Clear(e, call[e].key)
PROOF
  BY OwnedNoOrphan
  DEF LockInv, Protected, MutualExclusion, MayLock, HoldsLock, Clear

\* The key of the holder of its lock: all that are after the lock end before it
\* does.
LEMMA HolderClear ==
  ASSUME LockInv, NEW e \in Env, pc[e] = "overwrite"
  PROVE  Clear(e, call[e].key)
PROOF
<1> SUFFICES ASSUME NEW f \in Env \ {e}, call[f].key = call[e].key
             PROVE  /\ ~Executing(f)
                    /\ pc[f] # "overwrite"
                    /\ pc[f] = "lock" => LockedFor(call[e].key, call[f].deadline)
  BY DEF Clear
<1> DEFINE k == call[e].key
<1>1. /\ Orphan(k)
      /\ \A r \in Remaining : LockedFor(k, call[e].deadline + r)
      /\ Alive(e) /\ Alive(f) /\ BaseOK /\ lock \in Lifetimes /\ k \in Key
  BY CurrentTypes, PuttingFacts DEF LockInv, Protected, HoldsLock, Putting
<1>2. ~Executing(f)
  BY <1>1, OwnedNoOrphan
<1>3. pc[f] # "overwrite"
  BY DEF LockInv, OneHolder
<1>4. ASSUME pc[f] = "lock" PROVE LockedFor(k, call[f].deadline)
  <2>1. Active(e) /\ Active(f)
    BY <1>4 DEF Active
  <2>2. now < call[e].deadline
    BY <1>1, <2>1 DEF Alive
  <2>3. PICK r \in Remaining : call[f].deadline <= now + r
    BY <1>1, <2>1 DEF Alive
  <2>4. /\ now \in Nat /\ call[e].deadline \in Nat /\ call[f].deadline \in Nat /\ r \in Nat
    BY <1>1, Types, CallFields, TimeAssumption
  <2>5. lock[k] # None /\ call[e].deadline + r <= lock[k]
    BY <1>1 DEF LockedFor
  <2>6. lock[k] \in Nat
    BY <1>1, <2>5 DEF Lifetimes
  <2>7. call[f].deadline <= lock[k]
    BY <2>2, <2>3, <2>4, <2>5, <2>6
  <2>8. QED
    BY <2>5, <2>7 DEF LockedFor
<1>5. QED
  BY <1>2, <1>3, <1>4

\* What a step of e leaves to the others: the records and lifetimes nobody else
\* relies on may change, and no lock is lost.
Spares(e) ==
  /\ now' = now
  /\ OthersSame(e)
  /\ \A k \in Key :
       \/ store'[k] = store[k] /\ dies'[k] = dies[k]
       \/ k = call[e].key /\ Clear(e, k)
  /\ \A k \in Key : lock[k] # None => lock'[k] = lock[k]

LEMMA OthersProtected ==
  ASSUME LockInv, NEW e \in Env, Spares(e), NEW f \in Env \ {e}
  PROVE  Protected(f)'
PROOF
<1>1. /\ pc'[f] = pc[f] /\ call'[f] = call[f] /\ rec'[f] = rec[f] /\ now' = now
      /\ Alive(f) /\ Prepared(f) /\ Owns(f) /\ MayLock(f) /\ HoldsLock(f) /\ Closes(f)
      /\ BaseOK /\ TypeInv
  BY CurrentTypes DEF LockInv, Protected, Spares, OthersSame
<1> DEFINE k == call[f].key
<1>2. Alive(f)' /\ Prepared(f)' /\ Closes(f)'
  BY <1>1 DEF Alive, Active, Prepared, Guards, Closes
<1>3. Owns(f)'
  <2>1. SUFFICES ASSUME Executing(f)' PROVE Owns(f)'
    BY DEF Owns
  <2>2. Executing(f)
    BY <1>1, <2>1 DEF Executing
  <2>3. k \in Key
    BY <1>1, <2>2, OwnerKey
  <2>4. store'[k] = store[k] /\ dies'[k] = dies[k]
    BY <2>2, <2>3 DEF Spares, Clear
  <2>5. QED
    BY <1>1, <2>2, <2>4 DEF Owns, Guards
<1>4. MayLock(f)'
  <2>1. SUFFICES ASSUME pc[f] = "lock"
                 PROVE  Orphan(k)' \/ LockedFor(k, call[f].deadline)'
    BY <1>1 DEF MayLock, LockedFor
  <2>2. k \in Key
    BY <1>1, <2>1, PuttingFacts DEF Putting
  <2>3. CASE LockedFor(k, call[f].deadline)
    BY <1>1, <2>2, <2>3 DEF Spares, LockedFor
  <2>4. CASE Orphan(k) /\ ~LockedFor(k, call[f].deadline)
    <3>1. store'[k] = store[k]
      BY <2>1, <2>2, <2>4 DEF Spares, Clear
    <3>2. QED
      BY <1>1, <2>4, <3>1 DEF Orphan, IsExpired
  <2>5. QED
    BY <1>1, <2>1, <2>3, <2>4 DEF MayLock
<1>5. HoldsLock(f)'
  <2>1. SUFFICES ASSUME pc[f] = "overwrite"
                 PROVE  /\ Orphan(k)'
                        /\ \A r \in Remaining : LockedFor(k, call[f].deadline + r)'
    BY <1>1 DEF HoldsLock, LockedFor
  <2>2. k \in Key
    BY <1>1, <2>1, PuttingFacts DEF Putting
  <2>3. store'[k] = store[k]
    BY <2>1, <2>2 DEF Spares, Clear
  <2>4. Orphan(k)'
    BY <1>1, <2>1, <2>3 DEF HoldsLock, Orphan, IsExpired
  <2>5. \A r \in Remaining : LockedFor(k, call[f].deadline + r)'
    BY <1>1, <2>1, <2>2 DEF HoldsLock, LockedFor, Spares
  <2>6. QED
    BY <2>4, <2>5
<1>6. QED
  BY <1>2, <1>3, <1>4, <1>5 DEF Protected

\* It suffices to look at the invocation whose step it is.
LEMMA LockStep ==
  ASSUME LockInv, TypeInv', NEW e \in Env, Spares(e), Protected(e)',
         \A k \in Key : SaysWhen(k)',
         Executing(e)' => \/ Executing(e) /\ call'[e].key = call[e].key
                          \/ Clear(e, call'[e].key),
         pc'[e] = "overwrite" =>
           \A f \in Env \ {e} : pc[f] = "overwrite" => call[f].key # call'[e].key
  PROVE  LockInv'
PROOF
<1>1. \A f \in Env : Protected(f)'
  BY OthersProtected
<1>2. \A f \in Env \ {e} : pc'[f] = pc[f] /\ call'[f] = call[f]
  BY DEF Spares, OthersSame
<1>3. OneHolder'
  BY <1>2 DEF LockInv, OneHolder
<1>4. MutualExclusion'
  <2> SUFFICES ASSUME NEW f \in Env, NEW g \in Env, f # g, Executing(f)', Executing(g)'
               PROVE  call'[f].key # call'[g].key
    BY DEF MutualExclusion
  <2>1. \A h \in Env \ {e} : Executing(h)' => Executing(h)
    BY <1>2 DEF Executing
  <2>2. ASSUME NEW h \in Env \ {e}, Executing(h)', Executing(e)'
        PROVE  call'[h].key # call'[e].key
    BY <1>2, <2>1, <2>2 DEF LockInv, MutualExclusion, Clear
  <2>3. CASE f = e \/ g = e
    BY <2>2, <2>3
  <2>4. CASE f # e /\ g # e
    BY <1>2, <2>1, <2>4 DEF LockInv, MutualExclusion
  <2>5. QED
    BY <2>3, <2>4
<1>5. QED
  BY <1>1, <1>3, <1>4 DEF LockInv

\* A step of e that puts nothing and starts nothing.
Quiet(e) ==
  /\ pc'[e] \notin Putting
  /\ Active(e)' =>
       /\ Active(e)
       /\ call'[e].key = call[e].key
       /\ call'[e].deadline = call[e].deadline
       /\ call'[e].at = call[e].at
       /\ call'[e].context = call[e].context
  /\ Executing(e)' => Executing(e) /\ UNCHANGED <<store, dies>>
  /\ Closes(e)'

LEMMA QuietStep ==
  ASSUME LockInv, TypeInv', NEW e \in Env, Spares(e), Quiet(e),
         \A k \in Key : SaysWhen(k)'
  PROVE  LockInv'
PROOF
<1>1. Alive(e)'
  BY DEF LockInv, Protected, Spares, Quiet, Alive
<1>2. Owns(e)'
  <2>1. SUFFICES ASSUME Executing(e)' PROVE Owns(e)'
    BY DEF Owns
  <2>2. Active(e)'
    BY <2>1 DEF Executing, Active
  <2>3. /\ Executing(e) /\ Owns(e) /\ UNCHANGED <<store, dies>>
        /\ call'[e].key = call[e].key /\ call'[e].deadline = call[e].deadline
    BY <2>1, <2>2 DEF Quiet, LockInv, Protected
  <2>4. QED
    BY <2>3 DEF Owns, Guards
<1>3. Prepared(e)' /\ MayLock(e)' /\ HoldsLock(e)' /\ Closes(e)' /\ pc'[e] # "overwrite"
  BY DEF Quiet, Putting, Prepared, MayLock, HoldsLock
<1>4. Protected(e)'
  BY <1>1, <1>2, <1>3 DEF Protected
<1>5. Executing(e)' => Executing(e) /\ call'[e].key = call[e].key
  BY DEF Quiet, Executing, Active
<1>6. QED
  BY <1>3, <1>4, <1>5, LockStep

\* A step that leaves Redis as it is.
LEMMA LocalSpares ==
  ASSUME LockInv, NEW e \in Env, now' = now, OthersSame(e), UNCHANGED <<store, dies, lock>>
  PROVE  Spares(e) /\ \A k \in Key : SaysWhen(k)'
PROOF
  BY DEF LockInv, Spares, SaysWhen

------------------------------------------------------------------------------
(* The invariant is kept, one lemma per action *)

LEMMA BeginLock ==
  ASSUME LockLasts, LockInv, TypeInv', NEW e \in Env, Begin(e), UNCHANGED <<dies, lock>>
  PROVE  LockInv'
PROOF
<1>1. PICK k \in Key \cup {NoKey}, p \in Payload, r \in Remaining, c \in Contexts :
        call' = [call EXCEPT ![e] =
                   [key |-> k, payload |-> p, context |-> c, deadline |-> now + r,
                    tries |-> 0, at |-> now, id |-> invocations + 1]]
  BY DEF Begin
<1>2. /\ pc' = [pc EXCEPT ![e] = "save"] /\ UNCHANGED <<now, store, rec>> /\ BaseOK
  BY CurrentTypes DEF Begin, Goto, LockInv
<1>3. /\ pc'[e] = "save"
      /\ call'[e].deadline = now + r /\ call'[e].at = now /\ call'[e].context = c
      /\ OthersSame(e)
  BY <1>1, <1>2, Types DEF OthersSame
<1>4. /\ now \in Nat /\ r \in Nat \ {0} /\ c = TRUE
  BY <1>2, Types, TimeAssumption DEF LockLasts
<1>5. Alive(e)'
  BY <1>2, <1>3, <1>4 DEF Alive
<1>6. Protected(e)' /\ ~Executing(e)' /\ pc'[e] # "overwrite"
  BY <1>3, <1>5 DEF Protected, Prepared, Putting, Owns, Executing, MayLock, HoldsLock, Closes
<1>7. Spares(e) /\ \A j \in Key : SaysWhen(j)'
  BY <1>2, <1>3, LocalSpares
<1>8. QED
  BY <1>6, <1>7, LockStep

\* The record of a new put lives until the invocation must have ended.
LEMMA RecordCovers ==
  ASSUME LockLasts, BaseOK, NEW e \in Env, Active(e), Alive(e)
  PROVE  Guards(NewInProgress(e), call[e].deadline)
PROOF
<1> DEFINE d == call[e].deadline
           W == ExpiresAfter * TicksPerSecond
<1>1. d \in Nat /\ now \in Nat /\ W \in Nat
  BY CallFields, Types, TimeAssumption
<1>2. PICK r \in Remaining : d <= now + r
  BY DEF Alive
<1>3. r \in Nat /\ r <= W
  BY <1>2, TimeAssumption DEF LockLasts
<1>4. d <= now + W
  BY <1>1, <1>2, <1>3
<1>5. Second(d) <= Second(now + W)
  BY <1>1, <1>4, SecondMonotonic
<1>6. Second(d) <= NewInProgress(e).expiry
  BY <1>1, <1>5, SecondPlus, NewInProgressType
<1>7. NewInProgress(e).inprog = d
  BY DEF NewInProgress, Alive
<1>8. QED
  BY <1>6, <1>7, NewInProgressType DEF Guards

LEMMA SaveInProgressLock ==
  ASSUME LockLasts, LockInv, TypeInv', NEW e \in Env, SaveInProgress(e), UNCHANGED <<dies, lock>>
  PROVE  LockInv'
PROOF
<1>1. /\ pc[e] = "save" /\ Active(e) /\ ~Executing(e) /\ BaseOK /\ Alive(e)
      /\ UNCHANGED <<now, store, dies, lock>>
  BY CurrentTypes DEF SaveInProgress, LockInv, Protected, Active, Executing
<1>2. CASE /\ UNCHANGED <<call, rec>>
           /\ \/ pc' = [pc EXCEPT ![e] = "done"]
              \/ pc' = [pc EXCEPT ![e] = "get"]
              \/ pc' = [pc EXCEPT ![e] = "run"] /\ call[e].key = NoKey
  <2>1. OthersSame(e) /\ Quiet(e)
    BY <1>1, <1>2, Types DEF Quiet, OthersSame, Executing, Active, Putting, Closes
  <2>2. QED
    BY <1>1, <2>1, LocalSpares, QuietStep
<1>3. CASE /\ rec' = [rec EXCEPT ![e] = NewInProgress(e)]
           /\ call' = [call EXCEPT ![e].at = now]
           /\ pc' = [pc EXCEPT ![e] = "put"]
  <2>1. /\ pc'[e] = "put"
        /\ rec'[e] = NewInProgress(e)
        /\ call'[e] = [call[e] EXCEPT !.at = now]
        /\ OthersSame(e)
    BY <1>1, <1>3, Types DEF OthersSame
  <2>2. /\ call'[e].deadline = call[e].deadline /\ call'[e].at = now
        /\ call'[e].context = call[e].context /\ now \in Nat
    BY <1>1, <2>1, Types DEF Call
  <2>3. Guards(NewInProgress(e), call[e].deadline)
    BY <1>1, RecordCovers
  <2>4. Alive(e)'
    BY <1>1, <2>1, <2>2 DEF Alive
  <2>5. Prepared(e)'
    BY <2>1, <2>2, <2>3 DEF Prepared, Guards
  <2>6. Protected(e)' /\ ~Executing(e)'
    BY <2>1, <2>4, <2>5 DEF Protected, Executing, Owns, MayLock, HoldsLock, Closes
  <2>7. QED
    BY <1>1, <2>1, <2>6, LocalSpares, LockStep
<1>4. QED
  BY <1>2, <1>3 DEF SaveInProgress, Raise, Goto

\* The other steps that do not concern Redis.
LEMMA LocalLock ==
  ASSUME LockInv, TypeInv', NEW e \in Env, UNCHANGED <<dies, lock>>,
         GetCachedRecord(e) \/ HandleForStatus(e) \/ FunctionReturns(e) \/ FunctionRaises(e)
         \/ Finish(e) \/ Kill(e)
  PROVE  LockInv'
PROOF
<1>1. BaseOK /\ UNCHANGED <<now, store, dies, lock>>
  BY CurrentTypes
  DEF LockInv, GetCachedRecord, HandleForStatus, FunctionReturns, FunctionRaises, Finish,
      Kill, Reset
<1>2. OthersSame(e)
  BY <1>1, Types
  DEF GetCachedRecord, HandleForStatus, FunctionReturns, FunctionRaises, Finish, Kill, Reset,
      Retry, Raise, Goto, OthersSame
<1>3. Quiet(e)
  <2>1. CASE GetCachedRecord(e)
    BY <1>1, <2>1, Types DEF GetCachedRecord, Raise, Goto, Quiet, Active, Executing, Putting, Closes
  <2>2. CASE HandleForStatus(e)
    <3>1. pc[e] = "handle" /\ Active(e)
      BY <2>2 DEF HandleForStatus, Active
    <3>2. CASE Retry(e)
      <4>1. CASE call[e].tries = MAX_RETRIES
        BY <1>1, <3>2, <4>1, Types DEF Retry, Raise, Goto, Quiet, Active, Executing, Putting, Closes
      <4>2. CASE call[e].tries # MAX_RETRIES
        <5>1. call'[e] = [call[e] EXCEPT !.tries = @ + 1] /\ pc'[e] = "save"
          BY <1>1, <3>2, <4>2, Types DEF Retry, Goto
        <5>2. /\ call'[e].key = call[e].key /\ call'[e].deadline = call[e].deadline
              /\ call'[e].at = call[e].at /\ call'[e].context = call[e].context
          BY <1>1, <5>1, Types DEF Call
        <5>3. QED
          BY <3>1, <5>1, <5>2 DEF Quiet, Executing, Putting, Closes
      <4>3. QED
        BY <4>1, <4>2
    <3>3. CASE pc' = [pc EXCEPT ![e] = "done"]
      BY <1>1, <3>3, Types DEF Quiet, Active, Executing, Putting, Closes
    <3>4. QED
      BY <2>2, <3>2, <3>3 DEF HandleForStatus, Raise, Goto
  <2>3. CASE FunctionReturns(e) \/ FunctionRaises(e)
    <3>1. pc[e] = "run" /\ call' = call
      BY <2>3 DEF FunctionReturns, FunctionRaises
    <3>2. \/ pc'[e] = "done"
          \/ pc'[e] \in {"update", "delete"} /\ call[e].key # NoKey
      BY <1>1, <2>3, Types DEF FunctionReturns, FunctionRaises, Goto
    <3>3. pc'[e] = "update" => rec'[e].status = "COMPLETED"
      BY <1>1, <2>3, Types DEF FunctionReturns, FunctionRaises, Goto, NewCompleted
    <3>4. QED
      BY <1>1, <3>1, <3>2, <3>3 DEF Quiet, Active, Executing, Putting, Closes
  <2>4. CASE Reset(e)
    BY <1>1, <2>4, Types DEF Reset, Goto, Quiet, Active, Executing, Putting, Closes
  <2>5. QED
    BY <2>1, <2>2, <2>3, <2>4 DEF Finish, Kill
<1>4. QED
  BY <1>1, <1>2, <1>3, LocalSpares, QuietStep

\* A SET of the record at hand on a key that nobody else relies on.
LEMMA SetSpares ==
  ASSUME LockInv, NEW e \in Env, pc[e] \in Putting, Clear(e, call[e].key),
         SetRecord(call[e].key, rec[e]), OthersSame(e), UNCHANGED <<now, lock>>
  PROVE  /\ Spares(e) /\ \A k \in Key : SaysWhen(k)'
         /\ store'[call[e].key] = rec[e] /\ rec[e] # None
         /\ dies'[call[e].key] = now + ExpiresAfter * TicksPerSecond
PROOF
<1> DEFINE j == call[e].key
<1>1. /\ TypeOK /\ BaseOK /\ j \in Key /\ rec[e] \in DataRecord /\ Prepared(e)
  BY CurrentTypes, PuttingFacts DEF LockInv, Protected
<1>2. /\ store'[j] = rec[e] /\ dies'[j] = now + ExpiresAfter * TicksPerSecond
      /\ \A k \in Key \ {j} : store'[k] = store[k] /\ dies'[k] = dies[k]
  BY <1>1, SetRecordType
<1>3. Spares(e)
  BY <1>2 DEF Spares
<1>4. rec[e].inprog = call[e].deadline /\ call[e].deadline \in Nat
  BY <1>1, CallFields DEF Prepared, Guards
<1>5. \A k \in Key : SaysWhen(k)'
  BY <1>2, <1>4, NoneAssumption DEF LockInv, SaysWhen
<1>6. QED
  BY <1>1, <1>2, <1>3, <1>5, RecordAssumption

\* It puts its record and runs.
LEMMA TakeKey ==
  ASSUME LockLasts, LockInv, TypeInv', NEW e \in Env, pc[e] \in Putting,
         Clear(e, call[e].key), SetRecord(call[e].key, rec[e]),
         pc' = [pc EXCEPT ![e] = "run"], UNCHANGED <<now, call, rec, lock>>
  PROVE  LockInv'
PROOF
<1>1. /\ BaseOK /\ Alive(e) /\ Prepared(e) /\ Active(e)
      /\ pc'[e] = "run" /\ OthersSame(e)
  BY CurrentTypes, Types DEF LockInv, Protected, Active, Putting, OthersSame
<1>2. /\ Spares(e) /\ \A k \in Key : SaysWhen(k)'
      /\ store'[call[e].key] = rec[e] /\ rec[e] # None
      /\ dies'[call[e].key] = now + ExpiresAfter * TicksPerSecond
  BY <1>1, SetSpares
<1>3. call[e].deadline <= now + ExpiresAfter * TicksPerSecond
  <2>1. PICK r \in Remaining : call[e].deadline <= now + r
    BY <1>1 DEF Alive
  <2>2. /\ r \in Nat /\ r <= ExpiresAfter * TicksPerSecond /\ now \in Nat
        /\ ExpiresAfter * TicksPerSecond \in Nat /\ call[e].deadline \in Nat
    BY <1>1, Types, CallFields, TimeAssumption DEF LockLasts
  <2>3. QED
    BY <2>1, <2>2
<1>4. Owns(e)'
  BY <1>1, <1>2, <1>3 DEF Owns, Prepared, Guards
<1>5. Alive(e)'
  BY <1>1 DEF Alive
<1>6. Protected(e)' /\ pc'[e] # "overwrite"
  BY <1>1, <1>4, <1>5 DEF Protected, Prepared, MayLock, HoldsLock, Putting, Closes
<1>7. QED
  BY <1>2, <1>6, LockStep

\* A SET that was applied, and failed.
LEMMA TakeNothing ==
  ASSUME LockInv, TypeInv', NEW e \in Env, pc[e] \in Putting,
         Clear(e, call[e].key), SetRecord(call[e].key, rec[e]),
         pc' = [pc EXCEPT ![e] = "done"], UNCHANGED <<now, call, rec, lock>>
  PROVE  LockInv'
PROOF
<1>1. BaseOK /\ pc'[e] = "done" /\ OthersSame(e)
  BY CurrentTypes, Types DEF LockInv, OthersSame
<1>2. Quiet(e)
  BY <1>1 DEF Quiet, Active, Executing, Putting, Closes
<1>3. QED
  BY <1>1, <1>2, SetSpares, QuietStep

\* The call ends or moves on to read the record.
LEMMA StepsAside ==
  ASSUME LockInv, TypeInv', NEW e \in Env, ~Executing(e), OthersSame(e),
         pc'[e] \in {"done", "get", "handle"},
         pc'[e] = "done" \/ (Active(e) /\ call'[e] = call[e]),
         UNCHANGED <<now, store, dies>>,
         \A k \in Key : lock[k] # None => lock'[k] = lock[k]
  PROVE  LockInv'
PROOF
<1>1. Quiet(e)
  BY DEF Quiet, Active, Executing, Putting, Closes
<1>2. Spares(e) /\ \A k \in Key : SaysWhen(k)'
  BY DEF LockInv, Spares, SaysWhen
<1>3. QED
  BY <1>1, <1>2, QuietStep

\* The put goes on with its next command; the key and the record are the same.
LEMMA PutGoesOn ==
  ASSUME LockInv, TypeInv', NEW e \in Env, pc[e] \in Putting,
         NEW label \in {"inspect", "lock", "overwrite"},
         pc' = [pc EXCEPT ![e] = label],
         UNCHANGED <<now, store, call, rec, dies>>,
         \A k \in Key : lock[k] # None => lock'[k] = lock[k],
         label = "lock" => Orphan(call[e].key),
         label = "overwrite" =>
           /\ Orphan(call[e].key)
           /\ \A r \in Remaining : LockedFor(call[e].key, call[e].deadline + r)'
           /\ \A f \in Env \ {e} : pc[f] = "overwrite" => call[f].key # call[e].key
  PROVE  LockInv'
PROOF
<1>1. /\ BaseOK /\ Alive(e) /\ Prepared(e) /\ Active(e)
      /\ pc'[e] = label /\ OthersSame(e)
  BY CurrentTypes, Types DEF LockInv, Protected, Active, Putting, OthersSame
<1>2. Spares(e) /\ \A k \in Key : SaysWhen(k)'
  BY <1>1 DEF LockInv, Spares, SaysWhen
<1>3. Alive(e)' /\ Prepared(e)'
  BY <1>1 DEF Alive, Active, Prepared, Guards
<1>4. ~Executing(e)' /\ Owns(e)'
  BY <1>1 DEF Executing, Owns
<1>5. MayLock(e)' /\ HoldsLock(e)'
  BY <1>1 DEF MayLock, HoldsLock, Orphan, IsExpired, LockedFor
<1>6. Protected(e)'
  BY <1>1, <1>3, <1>4, <1>5 DEF Protected, Closes
<1>7. QED
  BY <1>1, <1>2, <1>4, <1>6, LockStep

LEMMA PutRecordLock ==
  ASSUME LockLasts, LockInv, TypeInv', NEW e \in Env, PutRecord(e)
  PROVE  LockInv'
PROOF
<1>1. /\ pc[e] = "put" /\ pc[e] \in Putting /\ call[e].key \in Key
      /\ UNCHANGED <<now, call, rec, lock>>
  BY PuttingFacts DEF PutRecord, Putting, LockInv
<1>2. CASE store[call[e].key] = None /\ SetRecord(call[e].key, rec[e]) /\ Goto(e, "run")
  BY <1>1, <1>2, AbsentClear, TakeKey DEF Goto
<1>3. CASE Goto(e, "inspect") /\ UNCHANGED <<store, dies>>
  BY <1>1, <1>3, PutGoesOn DEF Goto
<1>4. QED
  BY <1>2, <1>3 DEF PutRecord

LEMMA PutFailsLock ==
  ASSUME LockInv, TypeInv', NEW e \in Env, PutFails(e)
  PROVE  LockInv'
PROOF
<1>1. /\ pc[e] = "put" /\ pc[e] \in Putting /\ call[e].key \in Key /\ BaseOK
      /\ pc' = [pc EXCEPT ![e] = "done"]
      /\ UNCHANGED <<now, call, rec, lock>>
  BY PuttingFacts, CurrentTypes DEF PutFails, Putting, LockInv, Raise, Goto
<1>2. CASE store[call[e].key] = None /\ SetRecord(call[e].key, rec[e])
  BY <1>1, <1>2, AbsentClear, TakeNothing
<1>3. CASE UNCHANGED <<store, dies>>
  <2>1. OthersSame(e) /\ pc'[e] = "done" /\ ~Executing(e)
    BY <1>1, Types DEF OthersSame, Executing
  <2>2. QED
    BY <1>1, <1>3, <2>1, StepsAside
<1>4. QED
  BY <1>2, <1>3 DEF PutFails

\* What is neither completed nor validly in progress when this attempt began is
\* an orphan now.
LEMMA SeenOrphan ==
  ASSUME LockInv, NEW e \in Env, pc[e] = "inspect", store[call[e].key] # None,
         Status(store[call[e].key], now) # "COMPLETED",
         ~ValidInProgress(e, store[call[e].key])
  PROVE  Orphan(call[e].key)
PROOF
<1> DEFINE k == call[e].key
<1>1. /\ k \in Key /\ store[k] \in DataRecord /\ BaseOK /\ SaysWhen(k)
      /\ Alive(e) /\ Active(e)
  BY PuttingFacts, CurrentTypes DEF LockInv, Protected, Putting, Active
<1>2. CASE IsExpired(store[k], now)
  BY <1>2 DEF Orphan
<1>3. CASE ~IsExpired(store[k], now)
  <2>1. store[k].status = "INPROGRESS"
    BY <1>1, <1>3 DEF Status, DataRecord
  <2>2. store[k].inprog \in Nat
    BY <1>1, <2>1 DEF SaysWhen, DataRecord
  <2>3. ~(store[k].inprog > call[e].at)
    BY <1>1, <1>3, <2>1 DEF ValidInProgress, Status, SaysWhen
  <2>4. call[e].at <= now /\ call[e].at \in Nat /\ now \in Nat
    BY <1>1, CallFields, Types DEF Alive
  <2>5. QED
    BY <2>1, <2>2, <2>3, <2>4 DEF Orphan
<1>4. QED
  BY <1>2, <1>3

LEMMA InspectLock ==
  ASSUME LockInv, TypeInv', NEW e \in Env, Inspect(e)
  PROVE  LockInv'
PROOF
<1>1. /\ pc[e] = "inspect" /\ pc[e] \in Putting /\ BaseOK
      /\ ~Executing(e) /\ Active(e)
      /\ UNCHANGED <<now, store, call, rec, dies, lock>>
  BY CurrentTypes DEF Inspect, Putting, LockInv, Executing, Active
<1>2. CASE Goto(e, "lock") /\ Orphan(call[e].key)
  BY <1>1, <1>2, PutGoesOn DEF Goto
<1>3. CASE Goto(e, "done") \/ Goto(e, "get")
  <2>1. OthersSame(e) /\ pc'[e] \in {"done", "get"}
    BY <1>1, <1>3, Types DEF OthersSame, Goto
  <2>2. QED
    BY <1>1, <2>1, StepsAside
<1>4. QED
  BY <1>1, <1>2, <1>3, SeenOrphan DEF Inspect, Raise

\* The lock lasts for two of the longest invocations.
LEMMA LockCovers ==
  ASSUME LockLasts, LockInv, NEW e \in Env, pc[e] = "lock", SetLock(call[e].key),
         UNCHANGED call
  PROVE  \A r \in Remaining : LockedFor(call[e].key, call[e].deadline + r)'
PROOF
<1> DEFINE k == call[e].key
           d == call[e].deadline
<1>1. /\ TypeOK /\ BaseOK /\ k \in Key /\ Alive(e) /\ Active(e) /\ lock \in Lifetimes
      /\ d \in Nat /\ now \in Nat
  BY CurrentTypes, PuttingFacts, CallFields, Types DEF LockInv, Protected, Putting, Active
<1>2. PICK s \in Remaining : d <= now + s
  BY <1>1 DEF Alive
<1>3. lock'[k] = now + LockTimeout * TicksPerSecond
  BY <1>1, SetLockType
<1>4. LockTimeout * TicksPerSecond \in Nat
  BY LockTimeoutAssumption, TimeAssumption
<1>5. ASSUME NEW r \in Remaining PROVE d + r <= lock'[k]
  <2>1. r \in Nat /\ s \in Nat /\ s + r <= LockTimeout * TicksPerSecond
    BY <1>2, TimeAssumption DEF LockLasts
  <2>2. QED
    BY <1>1, <1>2, <1>3, <1>4, <2>1
<1>6. lock'[k] # None
  BY <1>1, <1>3, <1>4, NoneAssumption
<1>7. QED
  BY <1>5, <1>6 DEF LockedFor

\* A lock that can be taken belongs to nobody, and to an orphan that is still one.
LEMMA FreeLock ==
  ASSUME LockInv, NEW e \in Env, pc[e] = "lock", lock[call[e].key] = None
  PROVE  /\ Orphan(call[e].key)
         /\ \A f \in Env \ {e} : pc[f] = "overwrite" => call[f].key # call[e].key
         /\ \A k \in Key : lock[k] # None => k # call[e].key
PROOF
<1>1. Orphan(call[e].key)
  BY DEF LockInv, Protected, MayLock, LockedFor
<1>2. ASSUME NEW f \in Env \ {e}, pc[f] = "overwrite" PROVE call[f].key # call[e].key
  <2>1. Alive(f) /\ HoldsLock(f) /\ Active(f)
    BY <1>2 DEF LockInv, Protected, Active
  <2>2. PICK r \in Remaining : TRUE
    BY <2>1 DEF Alive
  <2>3. lock[call[f].key] # None
    BY <1>2, <2>1, <2>2 DEF HoldsLock, LockedFor
  <2>4. QED
    BY <2>3
<1>3. QED
  BY <1>1, <1>2

LEMMA AcquireLockLock ==
  ASSUME LockLasts, LockInv, TypeInv', NEW e \in Env, AcquireLock(e)
  PROVE  LockInv'
PROOF
<1>1. /\ pc[e] = "lock" /\ pc[e] \in Putting /\ BaseOK /\ TypeOK
      /\ call[e].key \in Key /\ ~Executing(e) /\ Active(e)
      /\ UNCHANGED <<now, store, call, rec, dies>>
  BY CurrentTypes, PuttingFacts DEF AcquireLock, Putting, LockInv, Executing, Active
<1>2. CASE lock[call[e].key] = None /\ SetLock(call[e].key) /\ Goto(e, "overwrite")
  <2>1. \A k \in Key : lock[k] # None => lock'[k] = lock[k]
    BY <1>1, <1>2, FreeLock, SetLockType
  <2>2. \A r \in Remaining : LockedFor(call[e].key, call[e].deadline + r)'
    BY <1>1, <1>2, LockCovers
  <2>3. QED
    BY <1>1, <1>2, <2>1, <2>2, FreeLock, PutGoesOn DEF Goto
<1>3. CASE Goto(e, "get") /\ lock' = lock
  <2>1. OthersSame(e) /\ pc'[e] = "get"
    BY <1>1, <1>3, Types DEF OthersSame, Goto
  <2>2. QED
    BY <1>1, <1>3, <2>1, StepsAside
<1>4. QED
  BY <1>2, <1>3 DEF AcquireLock

LEMMA OverwriteOrphanLock ==
  ASSUME LockLasts, LockInv, TypeInv', NEW e \in Env, OverwriteOrphan(e)
  PROVE  LockInv'
PROOF
  BY HolderClear, TakeKey DEF OverwriteOrphan, Putting, Goto

LEMMA CommandFailsLock ==
  ASSUME LockInv, TypeInv', NEW e \in Env, CommandFails(e)
  PROVE  LockInv'
PROOF
<1>1. /\ pc[e] \in {"inspect", "lock", "overwrite", "get"} /\ BaseOK /\ TypeOK
      /\ pc' = [pc EXCEPT ![e] = "done"]
      /\ UNCHANGED <<now, call, rec>>
  BY CurrentTypes DEF CommandFails, LockInv, Raise, Goto
<1>2. OthersSame(e) /\ pc'[e] = "done" /\ ~Executing(e)
  BY <1>1, Types DEF OthersSame, Executing
<1>3. CASE UNCHANGED <<store, dies, lock>>
  BY <1>1, <1>2, <1>3, StepsAside
<1>4. CASE /\ pc[e] = "lock" /\ lock[call[e].key] = None
           /\ SetLock(call[e].key) /\ UNCHANGED <<store, dies>>
  <2>1. call[e].key \in Key
    BY <1>4, PuttingFacts DEF LockInv, Putting
  <2>2. \A k \in Key : lock[k] # None => lock'[k] = lock[k]
    BY <1>1, <1>4, <2>1, FreeLock, SetLockType
  <2>3. QED
    BY <1>1, <1>2, <1>4, <2>2, StepsAside
<1>5. CASE pc[e] = "overwrite" /\ SetRecord(call[e].key, rec[e]) /\ lock' = lock
  <2>1. pc[e] \in Putting
    BY <1>5 DEF Putting
  <2>2. QED
    BY <1>1, <1>5, <2>1, HolderClear, TakeNothing
<1>6. QED
  BY <1>3, <1>4, <1>5 DEF CommandFails

LEMMA GetRecordLock ==
  ASSUME LockInv, TypeInv', NEW e \in Env, GetRecord(e)
  PROVE  LockInv'
PROOF
<1>1. /\ pc[e] = "get" /\ Active(e) /\ ~Executing(e) /\ BaseOK
      /\ UNCHANGED <<now, store, dies, lock>>
  BY CurrentTypes DEF GetRecord, LockInv, Active, Executing
<1>2. OthersSame(e)
  BY <1>1, Types DEF GetRecord, Found, Retry, Raise, Goto, OthersSame
<1>3. CASE pc'[e] = "save" /\ call' = [call EXCEPT ![e].tries = @ + 1]
  <2>1. /\ call'[e].key = call[e].key /\ call'[e].deadline = call[e].deadline
        /\ call'[e].at = call[e].at /\ call'[e].context = call[e].context
    BY <1>1, <1>3, Types DEF Call
  <2>2. Quiet(e)
    BY <1>1, <1>3, <2>1 DEF Quiet, Executing, Putting, Closes
  <2>3. QED
    BY <1>1, <1>2, <2>2, LocalSpares, QuietStep
<1>4. CASE pc'[e] = "done" \/ (pc'[e] = "handle" /\ call' = call)
  <2>1. /\ pc'[e] \in {"done", "get", "handle"}
        /\ pc'[e] = "done" \/ (Active(e) /\ call'[e] = call[e])
    BY <1>1, <1>4
  <2>2. \A k \in Key : lock[k] # None => lock'[k] = lock[k]
    BY <1>1
  <2>3. ~Executing(e) /\ UNCHANGED <<now, store, dies>>
    BY <1>1
  <2>4. QED
    BY <1>2, <2>1, <2>2, <2>3, StepsAside
<1>5. QED
  BY <1>1, <1>3, <1>4, Types DEF GetRecord, Found, Retry, Raise, Goto

\* The owner writes or deletes its record, or fails to, and is done.
LEMMA OwnerLock ==
  ASSUME LockInv, TypeInv', NEW e \in Env, pc[e] \in {"update", "delete"},
         OwnerWrites(e) \/ UNCHANGED <<store, dies>>,
         pc' = [pc EXCEPT ![e] = "done"], UNCHANGED <<now, call, rec, lock>>
  PROVE  LockInv'
PROOF
<1>1. /\ BaseOK /\ TypeOK /\ call[e].key \in Key /\ Executing(e)
      /\ pc'[e] = "done" /\ OthersSame(e)
  BY CurrentTypes, Types, KeyAssumption DEF LockInv, WellFormed, Executing, OthersSame
<1>2. Quiet(e)
  BY <1>1 DEF Quiet, Active, Executing, Putting, Closes
<1>3. CASE UNCHANGED <<store, dies>>
  BY <1>1, <1>2, <1>3, LocalSpares, QuietStep
<1>4. CASE OwnerWrites(e)
  <2>1. \A j \in Key \ {call[e].key} : store'[j] = store[j] /\ dies'[j] = dies[j]
    BY <1>4, OwnerWritesType DEF LockInv
  <2>2. Spares(e)
    BY <1>1, <2>1, OwnerClear DEF Spares
  <2>3. store'[call[e].key] = None \/ store'[call[e].key].status = "COMPLETED"
    <3>1. CASE pc[e] = "update" /\ SetRecord(call[e].key, Stored(rec[e]))
      <4>1. rec[e] \in DataRecord /\ Closes(e)
        BY <1>1, <3>1, Types DEF LockInv, Protected, WellFormed
      <4>2. Stored(rec[e]) \in DataRecord /\ Stored(rec[e]).status = "COMPLETED"
        BY <3>1, <4>1, StoredType DEF Closes
      <4>3. QED
        BY <1>1, <3>1, <4>2, SetRecordType
    <3>2. CASE DropRecord(call[e].key)
      BY <1>1, <3>2, DropRecordType
    <3>3. QED
      BY <1>4, <3>1, <3>2 DEF OwnerWrites
  <2>4. \A k \in Key : SaysWhen(k)'
    BY <2>1, <2>3 DEF LockInv, SaysWhen
  <2>5. QED
    BY <1>2, <2>2, <2>4, QuietStep
<1>5. QED
  BY <1>3, <1>4

LEMMA TickLock ==
  ASSUME LockLasts, LockInv, TypeInv', Tick, KeepsOrphans
  PROVE  LockInv'
PROOF
<1>1. /\ BaseOK /\ store \in Caches /\ dies \in Lifetimes /\ lock \in Lifetimes
      /\ now \in Nat /\ now' = now + 1 /\ now' # now
      /\ UNCHANGED <<pc, call, rec>>
  BY CurrentTypes, Types DEF LockInv, Tick
<1>2. ASSUME NEW k \in Key
      PROVE  /\ \/ store'[k] = store[k] /\ dies'[k] = dies[k]
                \/ store'[k] = None /\ dies[k] # None /\ dies[k] <= now'
             /\ lock'[k] = lock[k] \/ lock[k] <= now'
  BY <1>1, <1>2 DEF Tick, Caches, Lifetimes
<1>3. \A k \in Key : SaysWhen(k)'
  BY <1>2 DEF LockInv, SaysWhen
<1>4. ASSUME NEW e \in Env PROVE Protected(e)'
  <2>1. /\ Alive(e) /\ Prepared(e) /\ Owns(e) /\ MayLock(e) /\ HoldsLock(e) /\ Closes(e)
        /\ call[e].deadline \in Nat
    BY <1>1, CallFields DEF LockInv, Protected
  <2>2. Active(e) => now' < call[e].deadline
    <3>1. Active(e) => ~TimeIsUp(e)
      BY DEF Tick, MayTick
    <3>2. KillMargin \in Nat \ {0}
      BY TimeAssumption DEF LockLasts
    <3>3. QED
      BY <1>1, <2>1, <3>1, <3>2 DEF TimeIsUp
  <2>3. Alive(e)'
    <3>1. SUFFICES ASSUME Active(e) PROVE Alive(e)'
      BY <1>1 DEF Alive, Active
    <3>2. PICK r \in Remaining : call[e].deadline <= now + r
      BY <2>1, <3>1 DEF Alive
    <3>3. r \in Nat /\ call[e].at \in Nat
      BY <1>1, CallFields, TimeAssumption
    <3>4. call[e].deadline <= now' + r /\ call[e].at <= now'
      BY <1>1, <2>1, <3>1, <3>2, <3>3 DEF Alive
    <3>5. QED
      BY <1>1, <2>1, <2>2, <3>1, <3>4 DEF Alive
  <2>4. Prepared(e)' /\ Closes(e)'
    BY <1>1, <2>1 DEF Prepared, Guards, Closes
  <2>5. Owns(e)'
    <3>1. SUFFICES ASSUME Executing(e) PROVE Owns(e)'
      BY <1>1 DEF Owns, Executing
    <3>2. call[e].key \in Key /\ Active(e)
      BY <1>1, <3>1, OwnerKey
    <3>3. store[call[e].key] # None /\ call[e].deadline <= dies[call[e].key]
      BY <2>1, <3>1 DEF Owns
    <3>4. dies[call[e].key] \in Nat
      BY <1>1, <3>2, <3>3, CurrentTypes DEF LockInv, SameLife, Lifetimes
    <3>5. ~(dies[call[e].key] <= now')
      BY <1>1, <2>1, <2>2, <3>2, <3>3, <3>4
    <3>6. store'[call[e].key] = store[call[e].key] /\ dies'[call[e].key] = dies[call[e].key]
      BY <1>2, <3>2, <3>5
    <3>7. QED
      BY <1>1, <2>1, <3>1, <3>6 DEF Owns, Guards
  <2>6. ASSUME pc[e] \in {"lock", "overwrite"}
        PROVE  /\ Orphan(call[e].key) => Orphan(call[e].key)'
               /\ \A r \in Nat : LockedFor(call[e].key, call[e].deadline + r)
                                   => LockedFor(call[e].key, call[e].deadline + r)'
    <3> DEFINE k == call[e].key
    <3>1. k \in Key /\ Active(e) /\ store[k] \in DataRecord \cup {None}
      BY <2>6, PuttingFacts DEF LockInv, Putting, Active
    <3>2. ASSUME Orphan(k) PROVE Orphan(k)'
      <4>1. store'[k] = store[k] /\ store[k] # None
        BY <1>1, <2>6, <3>2 DEF KeepsOrphans, Orphan
      <4>2. store[k] \in DataRecord /\ SaysWhen(k)
        BY <3>1, <4>1 DEF LockInv
      <4>3. CASE IsExpired(store[k], now)
        <5>1. Second(now) <= Second(now') /\ Second(now) \in Nat /\ Second(now') \in Nat
          BY <1>1, SecondMonotonic, SecondType
        <5>2. store[k].expiry \in Nat
          BY <4>2 DEF DataRecord
        <5>3. IsExpired(store[k], now')
          BY <4>3, <5>1, <5>2 DEF IsExpired
        <5>4. QED
          BY <1>1, <4>1, <5>3 DEF Orphan, IsExpired
      <4>4. CASE store[k].status = "INPROGRESS" /\ store[k].inprog <= now
        <5>1. store[k].inprog \in Nat
          BY <4>1, <4>2, <4>4 DEF SaysWhen, DataRecord
        <5>2. store[k].inprog <= now'
          BY <1>1, <4>4, <5>1
        <5>3. QED
          BY <1>1, <4>1, <4>4, <5>2 DEF Orphan
      <4>5. QED
        BY <3>2, <4>3, <4>4 DEF Orphan
    <3>3. ASSUME NEW r \in Nat, LockedFor(k, call[e].deadline + r)
          PROVE  LockedFor(k, call[e].deadline + r)'
      <4>1. lock[k] \in Nat /\ call[e].deadline + r <= lock[k]
        BY <1>1, <3>1, <3>3 DEF LockedFor, Lifetimes
      <4>2. ~(lock[k] <= now')
        BY <1>1, <2>1, <2>2, <3>1, <4>1
      <4>3. lock'[k] = lock[k]
        BY <1>2, <3>1, <4>2
      <4>4. QED
        BY <1>1, <3>3, <4>3 DEF LockedFor
    <3>4. QED
      BY <3>2, <3>3
  <2>7. MayLock(e)'
    <3>1. SUFFICES ASSUME pc[e] = "lock"
                   PROVE  Orphan(call[e].key)' \/ LockedFor(call[e].key, call[e].deadline)'
      BY <1>1 DEF MayLock, LockedFor
    <3>2. LockedFor(call[e].key, call[e].deadline) => LockedFor(call[e].key, call[e].deadline)'
      <4>1. call[e].deadline + 0 = call[e].deadline /\ 0 \in Nat
        BY <2>1
      <4>2. (call[e].deadline + 0)' = call[e].deadline'
        BY <1>1, <2>1
      <4>3. QED
        BY <2>6, <3>1, <4>1, <4>2 DEF LockedFor
    <3>3. QED
      BY <2>1, <2>6, <3>1, <3>2 DEF MayLock
  <2>8. HoldsLock(e)'
    <3>1. SUFFICES ASSUME pc[e] = "overwrite"
                   PROVE  /\ Orphan(call[e].key)'
                          /\ \A r \in Remaining : LockedFor(call[e].key, call[e].deadline + r)'
      BY <1>1 DEF HoldsLock, LockedFor
    <3>2. \A r \in Remaining : r \in Nat
      BY TimeAssumption
    <3>3. QED
      BY <2>1, <2>6, <3>1, <3>2 DEF HoldsLock
  <2>9. QED
    BY <2>3, <2>4, <2>5, <2>7, <2>8 DEF Protected
<1>5. OneHolder' /\ MutualExclusion'
  BY <1>1 DEF LockInv, OneHolder, MutualExclusion, Executing
<1>6. QED
  BY <1>3, <1>4, <1>5 DEF LockInv

LEMMA InitLock == RedisInit => LockInv
PROOF
<1> SUFFICES ASSUME RedisInit PROVE LockInv
  OBVIOUS
<1>1. \A e \in Env : pc[e] = "idle"
  BY DEF RedisInit, Init
<1>2. \A k \in Key : SaysWhen(k)
  BY DEF RedisInit, Init, SaysWhen
<1>3. \A e \in Env : Protected(e)
  BY <1>1
  DEF Protected, Alive, Active, Prepared, Putting, Owns, Executing, MayLock, HoldsLock, Closes
<1>4. OneHolder /\ MutualExclusion
  BY <1>1 DEF OneHolder, MutualExclusion, Executing
<1>5. QED
  BY <1>2, <1>3, <1>4, InitTypeInv DEF LockInv

LEMMA NextLock ==
  LockLasts /\ LockInv /\ [Next]_redisVars /\ [KeepsOrphans]_redisVars => LockInv'
PROOF
<1> SUFFICES ASSUME LockLasts, LockInv, [Next]_redisVars, [KeepsOrphans]_redisVars
             PROVE  LockInv'
  OBVIOUS
<1>1. TypeInv'
  BY NextTypeInv DEF LockInv
<1>2. ASSUME NEW e \in Env, Begin(e) \/ LocalStep(e) \/ Kill(e), UNCHANGED <<dies, lock>>
      PROVE  LockInv'
  BY <1>1, <1>2, BeginLock, SaveInProgressLock, LocalLock DEF LocalStep
<1>3. ASSUME NEW e \in Env, StoreStep(e) PROVE LockInv'
  <2>1. CASE UpdateRecord(e) \/ UpdateFails(e) \/ DeleteRecord(e) \/ DeleteFails(e)
    <3>1. /\ pc[e] \in {"update", "delete"}
          /\ OwnerWrites(e) \/ UNCHANGED <<store, dies>>
          /\ pc' = [pc EXCEPT ![e] = "done"]
          /\ UNCHANGED <<now, call, rec, lock>>
      BY <2>1
      DEF UpdateRecord, UpdateFails, DeleteRecord, DeleteFails, OwnerWrites, Raise, Goto
    <3>2. QED
      BY <1>1, <3>1, OwnerLock
  <2>2. QED
    BY <1>1, <1>3, <2>1, PutRecordLock, PutFailsLock, InspectLock, AcquireLockLock,
       OverwriteOrphanLock, GetRecordLock, CommandFailsLock DEF StoreStep
<1>4. CASE Tick
  <2>1. now' # now
    BY <1>4, CurrentTypes, Types DEF Tick, LockInv
  <2>2. KeepsOrphans
    BY <2>1 DEF redisVars, vars
  <2>3. QED
    BY <1>1, <1>4, <2>2, TickLock
<1>5. CASE UNCHANGED redisVars
  BY <1>1, <1>5
  DEF redisVars, vars, LockInv, SaysWhen, Protected, Alive, Active, Prepared, Guards, Owns,
      Executing, MayLock, HoldsLock, Orphan, IsExpired, LockedFor, Closes, OneHolder,
      MutualExclusion
<1>6. QED
  BY <1>2, <1>3, <1>4, <1>5 DEF Next

LEMMA LockHolds ==
  ASSUME LockLasts
  PROVE  Spec /\ [][KeepsOrphans]_redisVars => []LockInv
PROOF
<1>1. RedisInit => LockInv
  BY InitLock
<1>2. LockInv /\ [Next]_redisVars /\ [KeepsOrphans]_redisVars => LockInv'
  BY NextLock
<1>3. QED
  BY <1>1, <1>2, PTL DEF Spec

\* No two invocations execute the function for one key at the same time, for
\* any number of them and whatever dies or fails, if the lock of an orphan lasts
\* for two invocations and Redis drops no orphan that is being taken over: the
\* race of the comment at redis.py:440 is the only one left.
THEOREM NoOverlap ==
  ASSUME LockLasts
  PROVE  Spec /\ [][KeepsOrphans]_redisVars => []MutualExclusion
PROOF
<1>1. LockInv => MutualExclusion
  BY DEF LockInv
<1>2. QED
  BY <1>1, LockHolds, PTL

------------------------------------------------------------------------------
(* Results stay. Nothing is written over a completed record but by the holder  *)
(* of the lock, who holds it for an orphan.                                     *)

Completed(k) == store[k] # None /\ store[k].status = "COMPLETED"

KeptResult(k) ==
  Completed(k) /\ store'[k] # store[k] => IsExpired(store[k], now) \/ dies[k] <= now'

\* A step of e that writes at most where an orphan, or nothing, or its own record
\* in progress is.
LEMMA KeptBySet ==
  ASSUME NEW e, NEW j, NEW r, NEW k \in Key,
         store' = [store EXCEPT ![j] = r],
         store \in Caches,
         Completed(j) => IsExpired(store[j], now)
  PROVE  KeptResult(k)
PROOF
  BY DEF KeptResult, Caches

LEMMA OwnerKeeps ==
  ASSUME LockInv, NEW e \in Env, pc[e] \in {"update", "delete"}, OwnerWrites(e), NEW k \in Key
  PROVE  KeptResult(k)
PROOF
<1>1. BaseOK /\ call[e].key \in Key /\ store \in Caches
  BY CurrentTypes, Types DEF LockInv, WellFormed
<1>2. Executing(e) /\ Owns(e)
  BY <1>1, KeyAssumption DEF Executing, LockInv, Protected
<1>3. ~Completed(call[e].key)
  BY <1>2 DEF Owns, Guards, Completed
<1>4. QED
  BY <1>1, <1>3, KeptBySet DEF OwnerWrites, SetRecord, DropRecord

LEMMA StepKeepsResults ==
  LockInv /\ [Next]_redisVars => \A k \in Key : KeptResult(k)
PROOF
<1> SUFFICES ASSUME LockInv, [Next]_redisVars, NEW k \in Key
             PROVE  KeptResult(k)
  OBVIOUS
<1>1. TypeOK /\ BaseOK /\ store \in Caches
  BY CurrentTypes DEF LockInv
<1>2. CASE store' = store
  BY <1>2 DEF KeptResult
<1>3. ASSUME NEW e \in Env, SetRecord(call[e].key, rec[e]), store[call[e].key] = None
      PROVE  KeptResult(k)
  BY <1>1, <1>3, KeptBySet DEF SetRecord, Completed
<1>4. ASSUME NEW e \in Env, SetRecord(call[e].key, rec[e]), pc[e] = "overwrite"
      PROVE  KeptResult(k)
  <2>1. Orphan(call[e].key)
    BY <1>4 DEF LockInv, Protected, HoldsLock
  <2>2. Completed(call[e].key) => IsExpired(store[call[e].key], now)
    BY <2>1 DEF Orphan, Completed
  <2>3. QED
    BY <1>1, <1>4, <2>2, KeptBySet DEF SetRecord
<1>5. ASSUME NEW e \in Env, Begin(e) \/ LocalStep(e) \/ Kill(e) PROVE KeptResult(k)
  BY <1>2, <1>5 DEF Begin, LocalStep, SaveInProgress, GetCachedRecord, HandleForStatus,
     FunctionReturns, FunctionRaises, Finish, Kill, Reset
<1>6. ASSUME NEW e \in Env, StoreStep(e) PROVE KeptResult(k)
  <2>1. CASE PutRecord(e) \/ PutFails(e)
    BY <1>2, <1>3, <2>1 DEF PutRecord, PutFails
  <2>2. CASE OverwriteOrphan(e) \/ CommandFails(e)
    BY <1>2, <1>4, <2>2 DEF OverwriteOrphan, CommandFails
  <2>3. CASE Inspect(e) \/ AcquireLock(e) \/ GetRecord(e)
    BY <1>2, <2>3 DEF Inspect, AcquireLock, GetRecord
  <2>4. CASE UpdateRecord(e) \/ UpdateFails(e) \/ DeleteRecord(e) \/ DeleteFails(e)
    <3>1. /\ pc[e] \in {"update", "delete"}
          /\ OwnerWrites(e) \/ UNCHANGED <<store, dies>>
      BY <2>4 DEF UpdateRecord, UpdateFails, DeleteRecord, DeleteFails, OwnerWrites
    <3>2. QED
      BY <1>2, <3>1, OwnerKeeps
  <2>5. QED
    BY <1>6, <2>1, <2>2, <2>3, <2>4 DEF StoreStep
<1>7. CASE Tick
  <2>1. store'[k] = store[k] \/ dies[k] <= now'
    BY <1>1, <1>7 DEF Tick, Caches
  <2>2. QED
    BY <2>1 DEF KeptResult
<1>8. CASE UNCHANGED redisVars
  BY <1>2, <1>8 DEF redisVars, vars
<1>9. QED
  BY <1>5, <1>6, <1>7, <1>8 DEF Next

\* Under the same assumptions a completed result is neither overwritten nor
\* deleted before it expires: those who once took its record for an orphan are
\* kept away by the lock, which nothing releases.
THEOREM ResultsKept ==
  ASSUME LockLasts
  PROVE  Spec /\ [][KeepsOrphans]_redisVars => ResultKept
PROOF
<1>1. LockInv /\ [Next]_redisVars =>
        [ \A k \in Key :
            store[k] # None /\ store[k].status = "COMPLETED" /\ store'[k] # store[k]
              => IsExpired(store[k], now) \/ dies[k] <= now' ]_redisVars
  BY StepKeepsResults DEF KeptResult, Completed
<1>2. QED
  BY <1>1, LockHolds, PTL DEF Spec, ResultKept

------------------------------------------------------------------------------
(* Payload validation. Redis keeps completed records without a hash, so a       *)
(* record with a hash, wherever it is kept, carries that of the payload from    *)
(* which its response was computed; only such records are replayed.             *)

Honest(r) == r # None /\ r.data # None /\ r.hash # None => r.data.payload = r.hash

\* What an invocation ends with was computed from its payload.
Answered(e) ==
  /\ pc[e] = "idle" => out[e].kind = "none"
  /\ out[e].kind = "response" /\ out[e].data # None => out[e].data.payload = call[e].payload

CacheHonest(e) == \A k \in Key : Honest(cache[e][k])

Sincere(e) ==
  /\ CacheHonest(e)
  /\ Honest(rec[e])
  /\ pc[e] = "handle" => rec[e].hash = call[e].payload
  /\ Answered(e)

StoreHonest == \A k \in Key : Honest(store[k])

HonestInv ==
  /\ TypeInv
  /\ StoreHonest
  /\ \A e \in Env : Sincere(e)

\* A step of e leaves what the other environments have.
OthersApart(e) ==
  /\ OthersSame(e)
  /\ \A f \in Env \ {e} : out'[f] = out[f] /\ cache'[f] = cache[f]

LEMMA HonestStep ==
  ASSUME HonestInv, TypeInv', NEW e \in Env, OthersApart(e), StoreHonest', Sincere(e)'
  PROVE  HonestInv'
PROOF
<1>1. ASSUME NEW f \in Env \ {e} PROVE Sincere(f)'
  BY DEF HonestInv, OthersApart, OthersSame, Sincere, CacheHonest, Answered
<1>2. QED
  BY <1>1 DEF HonestInv

LEMMA SameCacheHonest ==
  ASSUME HonestInv, NEW e \in Env, cache' = cache
  PROVE  CacheHonest(e)' /\ \A f \in Env \ {e} : cache'[f] = cache[f]
PROOF
  BY DEF HonestInv, Sincere, CacheHonest

LEMMA NewCacheHonest ==
  ASSUME HonestInv, NEW e \in Env, NEW c, cache' = [cache EXCEPT ![e] = c],
         \A k \in Key : Honest(c[k])
  PROVE  CacheHonest(e)' /\ \A f \in Env \ {e} : cache'[f] = cache[f]
PROOF
  BY CurrentTypes DEF HonestInv, CacheHonest

\* Entries of a cache that are purged or put stay honest.
LEMMA PurgedHonest ==
  ASSUME HonestInv, NEW e \in Env, NEW j \in Key
  PROVE  \A k \in Key : Honest(Purged(e, j)[k])
PROOF
<1>1. cache[e] \in Caches /\ \A k \in Key : Honest(cache[e][k])
  BY CurrentTypes DEF HonestInv, Sincere, CacheHonest
<1>2. Honest(None)
  BY DEF Honest
<1>3. QED
  BY <1>1, <1>2 DEF Purged, Caches

LEMMA PutHonest ==
  ASSUME NEW c \in Caches, NEW j \in Key, NEW r \in DataRecord, NEW c2 \in CachePut(c, j, r),
         Honest(r), \A k \in Key : Honest(c[k])
  PROVE  \A k \in Key : Honest(c2[k])
PROOF
<1>1. PICK v \in Key : c2 = [c EXCEPT ![j] = r] \/ c2 = [[c EXCEPT ![j] = r] EXCEPT ![v] = None]
  BY DEF CachePut, Held
<1>2. Honest(None)
  BY DEF Honest
<1>3. QED
  BY <1>1, <1>2 DEF Caches

LEMMA SaveHonest ==
  ASSUME HonestInv, NEW e \in Env, NEW c \in Caches, NEW r \in DataRecord,
         call[e].key \in Key, SaveToCache(e, c, r), Honest(r), \A k \in Key : Honest(c[k])
  PROVE  CacheHonest(e)' /\ \A f \in Env \ {e} : cache'[f] = cache[f]
PROOF
<1>1. PICK c2 \in IF UseLocalCache /\ Status(r, now) # "INPROGRESS"
                  THEN CachePut(c, call[e].key, r)
                  ELSE {c} :
        cache' = [cache EXCEPT ![e] = c2]
  BY DEF SaveToCache
<1>2. \A k \in Key : Honest(c2[k])
  BY <1>1, PutHonest
<1>3. QED
  BY <1>1, <1>2, NewCacheHonest

\* An exception says nothing about a payload.
LEMMA RaisedHonest ==
  ASSUME HonestInv, NEW e \in Env, NEW kind \in Kinds \ {"response"}, Raise(e, kind),
         UNCHANGED <<call, rec>>, CacheHonest(e)',
         \A f \in Env \ {e} : cache'[f] = cache[f]
  PROVE  OthersApart(e) /\ Sincere(e)'
PROOF
<1>1. BaseOK /\ Honest(rec[e])
  BY CurrentTypes DEF HonestInv, Sincere
<1>2. OthersSame(e) /\ pc'[e] = "done"
  BY <1>1, RaisedSame
<1>3. out'[e].kind = kind /\ \A f \in Env \ {e} : out'[f] = out[f]
  BY <1>1, Types DEF Raise
<1>4. QED
  BY <1>1, <1>2, <1>3 DEF OthersApart, Sincere, Answered

\* A step that leaves the outcome and the payload.
LEMMA OnwardHonest ==
  ASSUME HonestInv, NEW e \in Env, OthersSame(e), out' = out,
         pc[e] # "idle", pc'[e] # "idle", call'[e].payload = call[e].payload,
         Honest(rec'[e]), pc'[e] = "handle" => rec'[e].hash = call[e].payload,
         CacheHonest(e)', \A f \in Env \ {e} : cache'[f] = cache[f]
  PROVE  OthersApart(e) /\ Sincere(e)'
PROOF
  BY DEF HonestInv, OthersApart, Sincere, Answered

\* A record that passes the validation.
LEMMA FoundHonest ==
  ASSUME ValidatePayload, HonestInv, NEW e \in Env, pc[e] # "idle", call[e].key \in Key,
         NEW c \in Caches, \A k \in Key : Honest(c[k]),
         NEW r \in DataRecord, Honest(r), Found(e, c, r), call' = call
  PROVE  OthersApart(e) /\ Sincere(e)'
PROOF
<1>1. BaseOK
  BY CurrentTypes DEF HonestInv
<1>2. CASE Mismatch(e, r)
  <2>1. /\ Raise(e, "ValidationError") /\ rec' = rec
        /\ cache' = [cache EXCEPT ![e] = c]
        /\ "ValidationError" \in Kinds \ {"response"}
    BY <1>2 DEF Found, Kinds
  <2>2. QED
    BY <2>1, NewCacheHonest, RaisedHonest
<1>3. CASE ~Mismatch(e, r)
  <2>1. /\ SaveToCache(e, c, r)
        /\ rec' = [rec EXCEPT ![e] = r]
        /\ Goto(e, "handle")
        /\ out' = out
    BY <1>3 DEF Found
  <2>2. OthersSame(e) /\ pc'[e] = "handle" /\ rec'[e] = r
    BY <1>1, <2>1, Types DEF OthersSame, Goto
  <2>3. r.hash = call[e].payload
    BY <1>3 DEF Mismatch, HashedPayload
  <2>4. CacheHonest(e)' /\ \A f \in Env \ {e} : cache'[f] = cache[f]
    BY <2>1, SaveHonest
  <2>5. QED
    BY <2>1, <2>2, <2>3, <2>4, OnwardHonest
<1>4. QED
  BY <1>2, <1>3

LEMMA RetryHonest ==
  ASSUME HonestInv, NEW e \in Env, pc[e] # "idle", Retry(e), rec' = rec,
         CacheHonest(e)', \A f \in Env \ {e} : cache'[f] = cache[f]
  PROVE  OthersApart(e) /\ Sincere(e)'
PROOF
<1>1. BaseOK /\ Honest(rec[e])
  BY CurrentTypes DEF HonestInv, Sincere
<1>2. CASE call[e].tries = MAX_RETRIES
  <2>1. /\ Raise(e, "InconsistentState") /\ call' = call
        /\ "InconsistentState" \in Kinds \ {"response"}
    BY <1>2 DEF Retry, Kinds
  <2>2. QED
    BY <2>1, RaisedHonest
<1>3. CASE call[e].tries # MAX_RETRIES
  <2>1. out' = out /\ Goto(e, "save")
    BY <1>3 DEF Retry
  <2>2. /\ pc'[e] = "save" /\ call'[e].payload = call[e].payload /\ OthersSame(e)
    BY <1>1, <2>1, RetryType, Types DEF OthersSame, Goto
  <2>3. QED
    BY <1>1, <2>1, <2>2, OnwardHonest
<1>4. QED
  BY <1>2, <1>3

LEMMA SameStoreHonest ==
  ASSUME HonestInv, store' = store
  PROVE  StoreHonest'
PROOF
  BY DEF HonestInv, StoreHonest

LEMMA LocalHonest ==
  ASSUME ValidatePayload, HonestInv, NEW e \in Env, Begin(e) \/ LocalStep(e) \/ Kill(e)
  PROVE  OthersApart(e) /\ Sincere(e)' /\ StoreHonest'
PROOF
<1>1. /\ BaseOK /\ Sincere(e)
  BY CurrentTypes DEF HonestInv
<1>2. StoreHonest'
  <2>1. store' = store
    BY DEF Begin, LocalStep, SaveInProgress, GetCachedRecord, HandleForStatus,
       FunctionReturns, FunctionRaises, Finish, Kill, Reset
  <2>2. QED
    BY <2>1, SameStoreHonest
<1>3. CASE Begin(e)
  <2>1. /\ pc[e] = "idle" /\ pc' = [pc EXCEPT ![e] = "save"]
        /\ UNCHANGED <<cache, rec, out>>
        /\ \A f \in Env \ {e} : call'[f] = call[f]
    BY <1>1, <1>3, Types DEF Begin, Goto
  <2>2. pc'[e] = "save" /\ OthersSame(e)
    BY <1>1, <2>1, Types DEF OthersSame
  <2>3. Sincere(e)'
    BY <1>1, <2>1, <2>2 DEF Sincere, CacheHonest, Answered
  <2>4. QED
    BY <1>2, <2>1, <2>2, <2>3 DEF OthersApart
<1>4. CASE SaveInProgress(e)
  <2>1. pc[e] = "save"
    BY <1>4 DEF SaveInProgress
  <2>2. CASE call[e].key = NoKey
    <3>1. UNCHANGED <<cache, call, rec>>
      BY <1>4, <2>2 DEF SaveInProgress
    <3>2. CASE Raise(e, "KeyError")
      BY <1>2, <3>1, <3>2, SameCacheHonest, RaisedHonest DEF Kinds
    <3>3. CASE Goto(e, "run") /\ out' = out
      <4>1. OthersSame(e) /\ pc'[e] = "run"
        BY <1>1, <3>1, <3>3, WentSame
      <4>2. Honest(rec'[e]) /\ call'[e].payload = call[e].payload
        BY <1>1, <3>1 DEF Sincere
      <4>3. QED
        BY <1>2, <2>1, <3>1, <3>3, <4>1, <4>2, SameCacheHonest, OnwardHonest
    <3>4. QED
      BY <1>4, <2>2, <3>2, <3>3 DEF SaveInProgress
  <2>3. CASE call[e].key # NoKey
    <3>1. call[e].key \in Key
      BY <1>1, <2>3, CallFields
    <3>2. cache' = [cache EXCEPT ![e] = Purged(e, call[e].key)] /\ out' = out
      BY <1>4, <2>3 DEF SaveInProgress
    <3>3. CacheHonest(e)' /\ \A f \in Env \ {e} : cache'[f] = cache[f]
      BY <3>1, <3>2, PurgedHonest, NewCacheHonest
    <3>4. CASE Goto(e, "get") /\ UNCHANGED <<call, rec>>
      <4>1. OthersSame(e) /\ pc'[e] = "get"
        BY <1>1, <3>4, WentSame
      <4>2. Honest(rec'[e]) /\ call'[e].payload = call[e].payload
        BY <1>1, <3>4 DEF Sincere
      <4>3. QED
        BY <1>2, <2>1, <3>2, <3>3, <4>1, <4>2, OnwardHonest
    <3>5. CASE /\ rec' = [rec EXCEPT ![e] = NewInProgress(e)]
               /\ call' = [call EXCEPT ![e].at = now]
               /\ Goto(e, "put")
      <4>1. OthersSame(e) /\ pc'[e] = "put" /\ rec'[e] = NewInProgress(e)
        BY <1>1, <3>5, Types DEF OthersSame, Goto
      <4>2. call'[e].payload = call[e].payload
        BY <1>1, <3>5, Types DEF Call
      <4>3. Honest(rec'[e])
        BY <4>1 DEF Honest, NewInProgress
      <4>4. QED
        BY <1>2, <2>1, <3>2, <3>3, <4>1, <4>2, <4>3, OnwardHonest
    <3>6. QED
      BY <1>4, <2>3, <3>4, <3>5 DEF SaveInProgress
  <2>4. QED
    BY <2>2, <2>3
<1>5. CASE GetCachedRecord(e)
  <2>1. pc[e] = "get" /\ UNCHANGED <<cache, call>>
    BY <1>5 DEF GetCachedRecord
  <2>2. CASE Raise(e, "ValidationError") /\ rec' = rec
    BY <1>2, <2>1, <2>2, SameCacheHonest, RaisedHonest DEF Kinds
  <2>3. CASE /\ ~Mismatch(e, Cached(e, call[e].key))
             /\ rec' = [rec EXCEPT ![e] = Cached(e, call[e].key)]
             /\ Goto(e, "handle") /\ out' = out
    <3>1. call[e].key \in Key
      BY <1>1, <2>1, Types DEF WellFormed
    <3>2. Honest(Cached(e, call[e].key))
      BY <1>1, <3>1 DEF Sincere, CacheHonest, Cached, Honest
    <3>3. OthersSame(e) /\ pc'[e] = "handle" /\ rec'[e] = Cached(e, call[e].key)
      BY <1>1, <2>1, <2>3, Types DEF OthersSame, Goto
    <3>4. rec'[e].hash = call[e].payload
      BY <2>3, <3>3 DEF Mismatch, HashedPayload
    <3>5. Honest(rec'[e]) /\ call'[e].payload = call[e].payload
      BY <2>1, <3>2, <3>3
    <3>6. QED
      BY <1>2, <2>1, <2>3, <3>3, <3>4, <3>5, SameCacheHonest, OnwardHonest
  <2>4. QED
    BY <1>5, <2>2, <2>3 DEF GetCachedRecord
<1>6. CASE HandleForStatus(e)
  <2>1. pc[e] = "handle" /\ UNCHANGED <<cache, rec>>
    BY <1>6 DEF HandleForStatus
  <2>2. CASE Retry(e)
    BY <1>2, <2>1, <2>2, SameCacheHonest, RetryHonest
  <2>3. CASE Raise(e, "AlreadyInProgress") /\ call' = call
    BY <1>2, <2>1, <2>3, SameCacheHonest, RaisedHonest DEF Kinds
  <2>4. CASE /\ out' = [out EXCEPT ![e] = [kind |-> "response", data |-> rec[e].data]]
             /\ Goto(e, "done") /\ call' = call
    <3>1. /\ rec[e] # None /\ Honest(rec[e]) /\ rec[e].hash = call[e].payload
          /\ call[e].payload # None
      BY <1>1, <2>1, Types, RecordAssumption, NoneAssumption DEF WellFormed, Active, Sincere
    <3>2. /\ out'[e] = [kind |-> "response", data |-> rec[e].data]
          /\ \A f \in Env \ {e} : out'[f] = out[f]
      BY <1>1, <2>4, Types
    <3>3. OthersSame(e) /\ pc'[e] = "done"
      BY <1>1, <2>1, <2>4, WentSame
    <3>4. Answered(e)'
      BY <2>4, <3>1, <3>2, <3>3 DEF Answered, Honest
    <3>5. Sincere(e)'
      BY <2>1, <3>1, <3>3, <3>4, SameCacheHonest DEF Sincere
    <3>6. QED
      BY <1>2, <2>1, <3>2, <3>3, <3>5 DEF OthersApart
  <2>5. QED
    BY <1>6, <2>2, <2>3, <2>4 DEF HandleForStatus
<1>7. CASE FunctionReturns(e)
  <2>1. PICK b \in Falsy :
          LET response == [by |-> call[e].id, payload |-> call[e].payload, falsy |-> b]
          IN  /\ out' = [out EXCEPT ![e] = [kind |-> "response", data |-> response]]
              /\ \/ rec' = rec /\ Goto(e, "done")
                 \/ rec' = [rec EXCEPT ![e] = NewCompleted(e, response)] /\ Goto(e, "update")
    BY <1>7 DEF FunctionReturns
  <2>2. UNCHANGED <<cache, call>>
    BY <1>7 DEF FunctionReturns
  <2>3. /\ out'[e].data.payload = call[e].payload
        /\ \A f \in Env \ {e} : out'[f] = out[f]
    BY <1>1, <2>1, Types
  <2>4. OthersSame(e) /\ pc'[e] \in {"done", "update"}
    BY <1>1, <2>1, <2>2, Types DEF OthersSame, Goto
  <2>5. Honest(rec'[e])
    <3>1. PICK response : /\ response.payload = call[e].payload
                          /\ \/ rec' = rec
                             \/ rec' = [rec EXCEPT ![e] = NewCompleted(e, response)]
      BY <2>1
    <3>2. Honest(NewCompleted(e, response))
      BY <3>1 DEF Honest, NewCompleted, HashedPayload
    <3>3. QED
      BY <1>1, <3>1, <3>2, Types DEF Sincere
  <2>6. Answered(e)'
    BY <2>2, <2>3, <2>4 DEF Answered
  <2>7. Sincere(e)'
    BY <2>2, <2>4, <2>5, <2>6, SameCacheHonest DEF Sincere
  <2>8. QED
    BY <1>2, <2>2, <2>3, <2>4, <2>7 DEF OthersApart
<1>8. CASE FunctionRaises(e)
  <2>1. /\ UNCHANGED <<cache, call, rec>>
        /\ out' = [out EXCEPT ![e] = [kind |-> "FunctionError", data |-> None]]
        /\ Goto(e, IF call[e].key = NoKey THEN "done" ELSE "delete")
    BY <1>8 DEF FunctionRaises
  <2>2. OthersSame(e) /\ pc'[e] \in {"done", "delete"}
    BY <1>1, <2>1, Types DEF OthersSame, Goto
  <2>3. out'[e].kind = "FunctionError" /\ \A f \in Env \ {e} : out'[f] = out[f]
    BY <1>1, <2>1, Types
  <2>4. Sincere(e)'
    BY <1>1, <2>1, <2>2, <2>3, SameCacheHonest DEF Sincere, Answered
  <2>5. QED
    BY <1>2, <2>1, <2>2, <2>3, <2>4 DEF OthersApart
<1>9. CASE Reset(e) /\ (cache' = cache \/ cache' = [cache EXCEPT ![e] = EmptyCache])
  <2>1. /\ OthersSame(e) /\ pc'[e] = "idle" /\ rec'[e] = None /\ out'[e].kind = "none"
        /\ \A f \in Env \ {e} : out'[f] = out[f]
    BY <1>1, <1>9, Types DEF Reset, Goto, OthersSame, NoOutcome
  <2>2. CacheHonest(e)' /\ \A f \in Env \ {e} : cache'[f] = cache[f]
    <3>1. \A k \in Key : Honest(EmptyCache[k])
      BY DEF Honest, EmptyCache
    <3>2. QED
      BY <1>9, <3>1, SameCacheHonest, NewCacheHonest
  <2>3. Sincere(e)'
    BY <2>1, <2>2 DEF Sincere, Honest, Answered
  <2>4. QED
    BY <1>2, <2>1, <2>2, <2>3 DEF OthersApart
<1>10. QED
  BY <1>3, <1>4, <1>5, <1>6, <1>7, <1>8, <1>9 DEF LocalStep, Finish, Kill

LEMMA SetHonest ==
  ASSUME HonestInv, NEW k \in Key, NEW r \in DataRecord, SetRecord(k, r), Honest(r)
  PROVE  StoreHonest'
PROOF
<1>1. TypeOK
  BY CurrentTypes DEF HonestInv
<1>2. store'[k] = r /\ \A j \in Key \ {k} : store'[j] = store[j]
  BY <1>1, SetRecordType
<1>3. QED
  BY <1>2 DEF HonestInv, StoreHonest

LEMMA OwnerHonest ==
  ASSUME HonestInv, NEW e \in Env, OwnerWrites(e)
  PROVE  StoreHonest'
PROOF
<1>1. TypeOK /\ BaseOK /\ call[e].key \in Key
  BY CurrentTypes, OwnerWritesType DEF HonestInv
<1>2. CASE pc[e] = "update" /\ SetRecord(call[e].key, Stored(rec[e]))
  <2>1. Stored(rec[e]) \in DataRecord /\ Stored(rec[e]).hash = None
    BY <1>1, <1>2, Types, StoredType DEF WellFormed
  <2>2. Honest(Stored(rec[e]))
    BY <2>1 DEF Honest
  <2>3. QED
    BY <1>1, <1>2, <2>1, <2>2, SetHonest
<1>3. CASE DropRecord(call[e].key)
  <2>1. /\ store'[call[e].key] = None
        /\ \A j \in Key \ {call[e].key} : store'[j] = store[j]
    BY <1>1, <1>3, DropRecordType
  <2>2. QED
    BY <2>1 DEF HonestInv, StoreHonest, Honest
<1>4. QED
  BY <1>2, <1>3 DEF OwnerWrites

\* A command that was sent with the record at hand leads on, or fails.
LEMMA CommandHonest ==
  ASSUME HonestInv, NEW e \in Env, pc[e] # "idle", UNCHANGED <<cache, call, rec>>,
         Raise(e, "PersistenceLayerError")
         \/ (out' = out /\ \E label \in {"run", "inspect", "lock", "overwrite", "get"} :
                             Goto(e, label))
  PROVE  OthersApart(e) /\ Sincere(e)'
PROOF
<1>1. BaseOK /\ Honest(rec[e])
  BY CurrentTypes DEF HonestInv, Sincere
<1>2. CASE Raise(e, "PersistenceLayerError")
  BY <1>2, SameCacheHonest, RaisedHonest DEF Kinds
<1>3. CASE out' = out /\ \E label \in {"run", "inspect", "lock", "overwrite", "get"} :
                           Goto(e, label)
  <2>1. PICK label \in {"run", "inspect", "lock", "overwrite", "get"} : Goto(e, label)
    BY <1>3
  <2>2. OthersSame(e) /\ pc'[e] = label
    BY <1>1, <2>1, WentSame
  <2>3. /\ pc'[e] \notin {"idle", "handle"}
        /\ call'[e].payload = call[e].payload /\ Honest(rec'[e])
    BY <1>1, <2>2
  <2>4. QED
    BY <1>3, <2>2, <2>3, SameCacheHonest, OnwardHonest
<1>4. QED
  BY <1>2, <1>3

LEMMA StoreStepHonest ==
  ASSUME ValidatePayload, HonestInv, NEW e \in Env, StoreStep(e)
  PROVE  OthersApart(e) /\ Sincere(e)' /\ StoreHonest'
PROOF
<1>1. BaseOK /\ TypeOK /\ Sincere(e) /\ TypeInv /\ cache[e] \in Caches
  BY CurrentTypes, Types DEF HonestInv
<1>2. ASSUME pc[e] \in Putting PROVE call[e].key \in Key /\ rec[e] \in DataRecord /\ Honest(rec[e])
  BY <1>1, <1>2, PuttingFacts DEF Sincere
<1>3. CASE \/ PutRecord(e) \/ PutFails(e) \/ Inspect(e) \/ AcquireLock(e)
           \/ OverwriteOrphan(e) \/ CommandFails(e)
  <2>1. /\ pc[e] # "idle"
        /\ UNCHANGED <<cache, call, rec>>
        /\ \/ Raise(e, "PersistenceLayerError")
           \/ /\ out' = out
              /\ \E label \in {"run", "inspect", "lock", "overwrite", "get"} : Goto(e, label)
    BY <1>3
    DEF PutRecord, PutFails, Inspect, AcquireLock, OverwriteOrphan, CommandFails
  <2>2. store' = store \/ (pc[e] \in Putting /\ SetRecord(call[e].key, rec[e]))
    BY <1>3
    DEF PutRecord, PutFails, Inspect, AcquireLock, OverwriteOrphan, CommandFails, Putting
  <2>3. StoreHonest'
    BY <1>2, <2>2, SameStoreHonest, SetHonest
  <2>4. QED
    BY <2>1, <2>3, CommandHonest
<1>4. CASE GetRecord(e)
  <2>1. /\ pc[e] = "get" /\ UNCHANGED <<now, store>> /\ call[e].key \in Key
    BY <1>1, <1>4, Types DEF GetRecord, WellFormed
  <2>2. /\ Purged(e, call[e].key) \in Caches
        /\ \A k \in Key : Honest(Purged(e, call[e].key)[k])
    BY <1>1, <2>1, PurgedType, PurgedHonest
  <2>3. CASE cache' = [cache EXCEPT ![e] = Purged(e, call[e].key)] /\ Retry(e) /\ rec' = rec
    BY <2>1, <2>2, <2>3, NewCacheHonest, RetryHonest, SameStoreHonest
  <2>4. CASE /\ store[call[e].key] # None
             /\ Found(e, Purged(e, call[e].key), store[call[e].key])
             /\ call' = call
    <3>1. store[call[e].key] \in DataRecord /\ Honest(store[call[e].key])
      BY <1>1, <2>1, <2>4, Types DEF Caches, HonestInv, StoreHonest
    <3>2. QED
      BY <2>1, <2>2, <2>4, <3>1, FoundHonest, SameStoreHonest
  <2>5. QED
    BY <1>4, <2>3, <2>4 DEF GetRecord
<1>5. CASE UpdateRecord(e) \/ DeleteRecord(e)
  <2>1. /\ pc[e] \in {"update", "delete"} /\ OwnerWrites(e) /\ Goto(e, "done")
        /\ UNCHANGED <<call, rec, out>>
    BY <1>5 DEF UpdateRecord, DeleteRecord, OwnerWrites
  <2>2. call[e].key \in Key /\ Honest(rec[e])
    BY <1>1, <2>1, OwnerWritesType DEF Sincere
  <2>3. CacheHonest(e)' /\ \A f \in Env \ {e} : cache'[f] = cache[f]
    <3>1. CASE UpdateRecord(e)
      <4>1. rec[e] \in DataRecord /\ SaveToCache(e, cache[e], rec[e])
        BY <1>1, <3>1, Types DEF UpdateRecord, WellFormed
      <4>2. \A k \in Key : Honest(cache[e][k])
        BY <1>1 DEF Sincere, CacheHonest
      <4>3. QED
        BY <1>1, <2>2, <4>1, <4>2, SaveHonest
    <3>2. CASE DeleteRecord(e)
      <4>1. cache' = [cache EXCEPT ![e] = [cache[e] EXCEPT ![call[e].key] = None]]
        BY <1>1, <3>2, Types DEF DeleteRecord, DeleteFromCache
      <4>2. \A k \in Key : Honest([cache[e] EXCEPT ![call[e].key] = None][k])
        BY <1>1 DEF Sincere, CacheHonest, Caches, Honest
      <4>3. QED
        BY <4>1, <4>2, NewCacheHonest
    <3>3. QED
      BY <1>5, <3>1, <3>2
  <2>4. OthersSame(e) /\ pc'[e] = "done"
    BY <1>1, <2>1, WentSame
  <2>5. StoreHonest'
    BY <2>1, OwnerHonest
  <2>6. pc[e] # "idle" /\ Honest(rec'[e]) /\ call'[e].payload = call[e].payload
    BY <2>1, <2>2
  <2>7. QED
    BY <2>1, <2>3, <2>4, <2>5, <2>6, OnwardHonest
<1>6. CASE UpdateFails(e) \/ DeleteFails(e)
  <2>1. /\ pc[e] # "idle"
        /\ OwnerWrites(e) \/ UNCHANGED <<store, dies>>
        /\ Raise(e, "PersistenceLayerError") /\ UNCHANGED <<cache, call, rec>>
    BY <1>6 DEF UpdateFails, DeleteFails, OwnerWrites
  <2>2. StoreHonest'
    BY <2>1, OwnerHonest, SameStoreHonest
  <2>3. QED
    BY <2>1, <2>2, CommandHonest
<1>7. QED
  BY <1>3, <1>4, <1>5, <1>6 DEF StoreStep

LEMMA InitHonest == RedisInit => HonestInv
PROOF
<1> SUFFICES ASSUME RedisInit PROVE HonestInv
  OBVIOUS
<1>1. StoreHonest
  BY DEF RedisInit, Init, StoreHonest, Honest
<1>2. \A e \in Env : Sincere(e)
  BY DEF RedisInit, Init, Sincere, CacheHonest, EmptyCache, Honest, Answered, NoOutcome
<1>3. QED
  BY <1>1, <1>2, InitTypeInv DEF HonestInv

LEMMA NextHonest == ValidatePayload /\ HonestInv /\ [Next]_redisVars => HonestInv'
PROOF
<1> SUFFICES ASSUME ValidatePayload, HonestInv, [Next]_redisVars PROVE HonestInv'
  OBVIOUS
<1>1. TypeInv'
  BY NextTypeInv DEF HonestInv
<1>2. ASSUME NEW e \in Env, Begin(e) \/ LocalStep(e) \/ Kill(e) PROVE HonestInv'
  BY <1>1, <1>2, LocalHonest, HonestStep
<1>3. ASSUME NEW e \in Env, StoreStep(e) PROVE HonestInv'
  BY <1>1, <1>3, StoreStepHonest, HonestStep
<1>4. CASE Tick
  <2>1. UNCHANGED <<cache, pc, call, rec, out>>
    BY <1>4 DEF Tick
  <2>2. StoreHonest'
    BY <1>4 DEF Tick, HonestInv, StoreHonest, Honest
  <2>3. \A e \in Env : Sincere(e)'
    BY <2>1 DEF HonestInv, Sincere, CacheHonest, Answered
  <2>4. QED
    BY <1>1, <2>2, <2>3 DEF HonestInv
<1>5. CASE UNCHANGED redisVars
  BY <1>1, <1>5
  DEF redisVars, vars, HonestInv, StoreHonest, Sincere, CacheHonest, Answered
<1>6. QED
  BY <1>2, <1>3, <1>4, <1>5 DEF Next

\* With payload validation nobody receives a response computed from another
\* payload, over Redis too, where a completed record has lost its hash: such a
\* record refuses everybody. Without any assumption on time or locks.
THEOREM PayloadsProtected == Spec => []PayloadProtected
PROOF
<1>1. (ValidatePayload => HonestInv) => PayloadProtected
  BY DEF HonestInv, Sincere, Answered, PayloadProtected
<1>2. RedisInit => (ValidatePayload => HonestInv)
  BY InitHonest
<1>3. (ValidatePayload => HonestInv) /\ [Next]_redisVars => (ValidatePayload => HonestInv)'
  BY NextHonest
<1>4. QED
  BY <1>1, <1>2, <1>3, PTL DEF Spec
==============================================================================
