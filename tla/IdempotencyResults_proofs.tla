----------------------- MODULE IdempotencyResults_proofs -----------------------
(***************************************************************************)
(* Proofs about the results of module IdempotencyDynamoDB: a completed     *)
(* result stays until it expires, no local cache answers with another one, *)
(* what is replayed is the stored result and, with payload validation, the *)
(* result of the caller's payload; a refusal is just, a retry is lost only *)
(* to time, and all of it implements the contract; for any numbers of      *)
(* environments, keys, payloads, invocations and ticks, and any size of    *)
(* the local cache, evictions included.                                    *)
(***************************************************************************)
EXTENDS IdempotencyDynamoDB_proofs

------------------------------------------------------------------------------
(* A completed result stays *)

\* The ways in which a step changes the item of k.
Changes(k) ==
  \/ \E e \in Env : /\ pc[e] = "put" /\ call[e].key = k
                    /\ PutCondition(k, call[e].at)
  \/ \E e \in Env : pc[e] \in {"update", "delete"} /\ call[e].key = k
  \/ IsExpired(store[k], now)

LEMMA WriteChanges ==
  ASSUME LockInv, NEW e \in Env, pc[e] = "put",
         PutCondition(call[e].key, call[e].at), WriteRec(e), NEW k \in Key
  PROVE  store'[k] = store[k] \/ Changes(k)
PROOF
<1>1. CASE call[e].key = k
  BY <1>1 DEF Changes
<1>2. CASE call[e].key # k
  BY <1>2, Types DEF WriteRec, Caches, LockInv
<1>3. QED
  BY <1>1, <1>2

LEMMA ReleaseChanges ==
  ASSUME LockInv, NEW e \in Env, pc[e] \in {"update", "delete"},
         ApplyUpdate(e) \/ ApplyDelete(e), NEW k \in Key
  PROVE  store'[k] = store[k] \/ Changes(k)
PROOF
<1>1. CASE call[e].key = k
  BY <1>1 DEF Changes
<1>2. CASE call[e].key # k
  BY <1>2, Types DEF ApplyUpdate, ApplyDelete, Caches, LockInv
<1>3. QED
  BY <1>1, <1>2

LEMMA StepChanges ==
  ASSUME LockInv, [Next]_vars, NEW k \in Key
  PROVE  store'[k] = store[k] \/ Changes(k)
PROOF
<1>1. ASSUME NEW e \in Env, Begin(e) \/ LocalStep(e) \/ Kill(e) PROVE store' = store
  BY <1>1 DEF Begin, LocalStep, SaveInProgress, GetCachedRecord, HandleForStatus,
     FunctionReturns, FunctionRaises, Finish, Kill, Reset
<1>2. ASSUME NEW e \in Env, StoreStep(e) PROVE store'[k] = store[k] \/ Changes(k)
  <2>1. CASE PutRecord(e)
    BY <2>1, WriteChanges DEF PutRecord
  <2>2. CASE PutFails(e)
    BY <2>2, WriteChanges DEF PutFails
  <2>3. CASE GetRecord(e) \/ GetFails(e)
    BY <2>3 DEF GetRecord, GetFails
  <2>4. CASE UpdateRecord(e) \/ UpdateFails(e)
    BY <2>4, ReleaseChanges DEF UpdateRecord, UpdateFails
  <2>5. CASE DeleteRecord(e) \/ DeleteFails(e)
    BY <2>5, ReleaseChanges DEF DeleteRecord, DeleteFails
  <2>6. QED
    BY <1>2, <2>1, <2>2, <2>3, <2>4, <2>5 DEF StoreStep
<1>3. ASSUME NEW j \in Key, ExpireItem(j) PROVE store'[k] = store[k] \/ Changes(k)
  <2>1. CASE j = k
    BY <1>3, <2>1 DEF ExpireItem, Changes
  <2>2. CASE j # k
    BY <1>3, <2>2, Types DEF ExpireItem, Caches, LockInv
  <2>3. QED
    BY <2>1, <2>2
<1>4. CASE Tick \/ UNCHANGED vars
  BY <1>4 DEF Tick, vars
<1>5. QED
  BY <1>1, <1>2, <1>3, <1>4 DEF Next

\* None of them meets a completed result that has not expired: a put's clock is
\* not ahead, and an owner's item is its lock.
LEMMA ResultStays ==
  ASSUME LockInv, [Next]_vars, NEW k \in Key,
         store[k] # None, store[k].status = "COMPLETED", ~IsExpired(store[k], now)
  PROVE  store'[k] = store[k]
PROOF
<1>1. TypeOK /\ store[k] \in DataRecord
  BY Types DEF LockInv, Caches
<1>2. ASSUME NEW e \in Env, pc[e] = "put", call[e].key = k PROVE ~PutCondition(k, call[e].at)
  <2>1. call[e].at <= now /\ call[e].at \in Nat /\ now \in Nat
    BY <1>1, <1>2, CallFields, Types DEF LockInv, Prepared
  <2>2. /\ Second(call[e].at) <= Second(now)
        /\ Second(call[e].at) \in Nat /\ Second(now) \in Nat
    BY <2>1, SecondMonotonic, SecondType
  <2>3. store[k].expiry \in Nat /\ Second(now) <= store[k].expiry
    BY <1>1, <2>2 DEF IsExpired, DataRecord
  <2>4. QED
    BY <2>2, <2>3 DEF PutCondition
<1>3. ASSUME NEW e \in Env, pc[e] \in {"update", "delete"}, call[e].key = k PROVE FALSE
  <2>1. Executing(e) /\ Owns(e)
    BY <1>3, KeyAssumption DEF Executing, LockInv
  <2>2. QED
    BY <1>3, <2>1 DEF Owns, Guards
<1>4. ~Changes(k)
  BY <1>2, <1>3 DEF Changes
<1>5. QED
  BY <1>4, StepChanges

\* A completed result that has not expired stays as it is, whichever puts,
\* updates and deletes fail or are applied unseen and whoever dies.
THEOREM ResultsStay ==
  ASSUME LongWindow
  PROVE  Spec => ResultStable
PROOF
<1> DEFINE Stays == \A k \in Key :
                      store[k] # None /\ Status(store[k], now) = "COMPLETED"
                        => store'[k] = store[k]
<1>1. LockInv /\ [Next]_vars => [Stays]_vars
  BY ResultStays DEF Status
<1>2. LockInv /\ [Next]_vars => LockInv'
  BY NextLock
<1>3. QED
  BY <1>1, <1>2, InitLock, PTL DEF Spec, ResultStable

------------------------------------------------------------------------------
(* The caches and what is replayed *)

\* r is the completed result of k.
Current(k, r) ==
  /\ StoredResult(k, r)
  /\ store[k].expiry = r.expiry

CachesOK ==
  \A e \in Env, k \in Key :
    cache[e][k] # None /\ ~IsExpired(cache[e][k], now)
      => cache[e][k].status = "COMPLETED" /\ Current(k, cache[e][k])

HandlesOK ==
  \A e \in Env :
    pc[e] = "handle" /\ Status(rec[e], now) = "COMPLETED"
      => Current(call[e].key, rec[e])

ResultInv == LockInv /\ CachesOK /\ HandlesOK

\* Time passes, and what has expired stays expired.
LEMMA ExpiredStays ==
  ASSUME TypeOK, [Next]_vars, NEW r \in DataRecord, ~IsExpired(r, now')
  PROVE  ~IsExpired(r, now)
PROOF
<1>1. now' = now \/ now' = now + 1
  BY DEF Next, Begin, LocalStep, SaveInProgress, GetCachedRecord, HandleForStatus,
     FunctionReturns, FunctionRaises, Finish, Kill, Reset, StoreStep, PutRecord, PutFails,
     GetRecord, GetFails, UpdateRecord, UpdateFails, DeleteRecord, DeleteFails, ExpireItem,
     Tick, vars
<1>2. now \in Nat /\ now' \in Nat /\ now <= now'
  BY <1>1, Types
<1>3. Second(now) <= Second(now') /\ Second(now) \in Nat /\ Second(now') \in Nat
  BY <1>2, SecondMonotonic, SecondType
<1>4. r.expiry \in Nat
  BY DEF DataRecord
<1>5. QED
  BY <1>3, <1>4 DEF IsExpired

LEMMA CurrentStays ==
  ASSUME LockInv, [Next]_vars, NEW k \in Key, NEW r \in DataRecord,
         Current(k, r), ~IsExpired(r, now')
  PROVE  /\ store'[k] = store[k]
         /\ store'[k] # None /\ store'[k].status = "COMPLETED"
         /\ store'[k].data = r.data /\ store'[k].expiry = r.expiry
PROOF
<1>1. ~IsExpired(r, now)
  BY ExpiredStays DEF LockInv
<1>2. /\ store[k] # None /\ store[k].status = "COMPLETED"
      /\ store[k].data = r.data /\ store[k].expiry = r.expiry
  BY DEF Current, StoredResult
<1>3. ~IsExpired(store[k], now)
  BY <1>1, <1>2 DEF IsExpired
<1>4. QED
  BY <1>2, <1>3, ResultStays

\* A step keeps an entry, drops it (an eviction, an expiry, the end of the
\* environment), or saves the record that the store has then.
Saved(f, k) ==
  LET r == cache'[f][k] IN
  /\ r # None /\ Status(r, now) # "INPROGRESS"
  /\ now' = now
  /\ store'[k] # None
  /\ store'[k].status = r.status /\ store'[k].data = r.data /\ store'[k].expiry = r.expiry
  /\ r = rec'[f]

CacheStep(f, k) ==
  \/ cache'[f][k] = None
  \/ cache'[f][k] = cache[f][k]
  \/ Saved(f, k)

LEMMA CachePutEntries ==
  ASSUME NEW c \in Caches, NEW k \in Key, NEW r \in DataRecord, NEW c2 \in CachePut(c, k, r),
         NEW j \in Key
  PROVE  \/ c2[j] = None
         \/ c2[j] = c[j]
         \/ j = k /\ c2[j] = r
PROOF
<1>1. PICK v \in Key : c2 = [c EXCEPT ![k] = r] \/ c2 = [[c EXCEPT ![k] = r] EXCEPT ![v] = None]
  BY DEF CachePut, Held
<1>2. QED
  BY <1>1 DEF Caches

LEMMA SaveToCacheStep ==
  ASSUME TypeOK, NEW e \in Env, NEW c \in Caches, NEW r \in DataRecord,
         call[e].key \in Key, SaveToCache(e, c, r),
         \A j \in Key : c[j] = cache[e][j] \/ c[j] = None,
         now' = now,
         store'[call[e].key] # None,
         store'[call[e].key].status = r.status,
         store'[call[e].key].data = r.data,
         store'[call[e].key].expiry = r.expiry,
         rec'[e] = r,
         NEW f \in Env, NEW k \in Key
  PROVE  CacheStep(f, k)
PROOF
<1>1. PICK c2 \in IF UseLocalCache /\ Status(r, now) # "INPROGRESS"
                  THEN CachePut(c, call[e].key, r)
                  ELSE {c} :
        cache' = [cache EXCEPT ![e] = c2]
  BY DEF SaveToCache
<1>2. CASE f # e
  BY <1>1, <1>2, Types DEF CacheStep
<1>3. CASE f = e /\ UseLocalCache /\ Status(r, now) # "INPROGRESS"
  <2>1. cache'[f] = c2 /\ c2 \in CachePut(c, call[e].key, r)
    BY <1>1, <1>3, Types
  <2>2. c2[k] = None \/ c2[k] = c[k] \/ (k = call[e].key /\ c2[k] = r)
    BY <2>1, CachePutEntries
  <2>3. CASE k = call[e].key /\ c2[k] = r
    <3>1. r # None
      BY RecordAssumption
    <3>2. Saved(f, k)
      BY <1>3, <2>1, <2>3, <3>1 DEF Saved
    <3>3. QED
      BY <3>2 DEF CacheStep
  <2>4. QED
    BY <1>3, <2>1, <2>2, <2>3 DEF CacheStep
<1>4. CASE f = e /\ ~(UseLocalCache /\ Status(r, now) # "INPROGRESS")
  BY <1>1, <1>4, Types DEF CacheStep
<1>5. QED
  BY <1>2, <1>3, <1>4

\* The cache of e is replaced by one with entries dropped.
LEMMA DropStep ==
  ASSUME TypeOK, NEW e \in Env, NEW c, cache' = [cache EXCEPT ![e] = c],
         \A j \in Key : c[j] = cache[e][j] \/ c[j] = None,
         NEW f \in Env, NEW k \in Key
  PROVE  CacheStep(f, k)
PROOF
  BY Types DEF CacheStep

LEMMA PurgedEntries ==
  ASSUME TypeOK, NEW e \in Env, NEW j \in Key, NEW k \in Key
  PROVE  Purged(e, j)[k] = cache[e][k] \/ Purged(e, j)[k] = None
PROOF
<1>1. cache[e] \in Caches
  BY Types
<1>2. QED
  BY <1>1 DEF Purged, Caches

LEMMA FoundStep ==
  ASSUME TypeOK, NEW e \in Env, call[e].key \in Key, NEW c \in Caches,
         \A j \in Key : c[j] = cache[e][j] \/ c[j] = None,
         store[call[e].key] # None, Found(e, c, store[call[e].key]),
         UNCHANGED <<now, store>>,
         NEW f \in Env, NEW k \in Key
  PROVE  CacheStep(f, k)
PROOF
<1> DEFINE r == store[call[e].key]
<1>1. r \in DataRecord
  BY Types DEF Caches
<1>2. CASE Mismatch(e, r)
  BY <1>2, DropStep DEF Found
<1>3. CASE ~Mismatch(e, r)
  <2>1. SaveToCache(e, c, r)
    BY <1>3 DEF Found
  <2>2. /\ store'[call[e].key] # None
        /\ store'[call[e].key].status = r.status
        /\ store'[call[e].key].data = r.data
        /\ store'[call[e].key].expiry = r.expiry
        /\ rec'[e] = r
    BY <1>3, Types DEF Found
  <2> HIDE DEF r
  <2>3. QED
    BY <1>1, <2>1, <2>2, SaveToCacheStep
<1>4. QED
  BY <1>2, <1>3

\* An update leaves a record with what was to be written.
LEMMA UpdatedRecord ==
  ASSUME NEW old \in DataRecord \cup {None}, NEW r \in DataRecord
  PROVE  /\ Updated(old, r) \in DataRecord
         /\ Updated(old, r).status = r.status
         /\ Updated(old, r).data = r.data
         /\ Updated(old, r).expiry = r.expiry
PROOF
<1>1. r = [status |-> r.status, expiry |-> r.expiry, inprog |-> r.inprog, data |-> r.data,
           hash |-> r.hash]
  BY DEF DataRecord
<1>2. /\ old # None => old.inprog \in Nat \cup {None} /\ old.hash \in Payload \cup {None}
      /\ r.hash \in Payload \cup {None}
  BY DEF DataRecord
<1>3. QED
  BY <1>1, <1>2 DEF Updated, DataRecord

LEMMA NextCacheStep ==
  ASSUME TypeOK, [Next]_vars, NEW f \in Env, NEW k \in Key
  PROVE  CacheStep(f, k)
PROOF
<1>1. TypeOK
  OBVIOUS
<1>2. ASSUME cache' = cache PROVE CacheStep(f, k)
  BY <1>2 DEF CacheStep
<1>3. ASSUME NEW e \in Env, Begin(e) \/ LocalStep(e) \/ Kill(e) PROVE CacheStep(f, k)
  <2>1. CASE SaveInProgress(e)
    <3>1. CASE cache' = cache
      BY <1>2, <3>1
    <3>2. CASE call[e].key # NoKey /\ cache' = [cache EXCEPT ![e] = Purged(e, call[e].key)]
      <4>1. call[e].key \in Key
        BY <1>1, <3>2, CallFields
      <4>2. \A j \in Key : \/ Purged(e, call[e].key)[j] = cache[e][j]
                            \/ Purged(e, call[e].key)[j] = None
        BY <1>1, <4>1, PurgedEntries
      <4>3. QED
        BY <1>1, <3>2, <4>2, DropStep
    <3>3. QED
      BY <2>1, <3>1, <3>2 DEF SaveInProgress
  <2>2. CASE Kill(e)
    <3>1. cache' = [cache EXCEPT ![e] = EmptyCache] /\ \A j \in Key : EmptyCache[j] = None
      BY <2>2 DEF Kill, EmptyCache
    <3>2. cache'[f][k] = cache[f][k] \/ cache'[f][k] = None
      BY <1>1, <3>1, Types
    <3>3. QED
      BY <3>2 DEF CacheStep
  <2>3. CASE cache' = cache
    BY <1>2, <2>3
  <2>4. QED
    BY <1>3, <2>1, <2>2, <2>3 DEF Begin, LocalStep, GetCachedRecord, HandleForStatus,
       FunctionReturns, FunctionRaises, Finish
<1>4. ASSUME NEW e \in Env, StoreStep(e) PROVE CacheStep(f, k)
  <2>1. CASE PutRecord(e)
    <3>1. CASE cache' = cache
      BY <1>2, <3>1
    <3>2. CASE /\ ~PutCondition(call[e].key, call[e].at) /\ store' = store /\ now' = now
               /\ Found(e, cache[e], store[call[e].key])
      <4>1. call[e].key \in Key /\ cache[e] \in Caches
        BY <1>1, <2>1, Types DEF PutRecord, WellFormed
      <4>2. store[call[e].key] # None
        BY <3>2 DEF PutCondition
      <4>3. QED
        BY <1>1, <3>2, <4>1, <4>2, FoundStep
    <3>3. QED
      BY <2>1, <3>1, <3>2 DEF PutRecord
  <2>2. CASE GetRecord(e) \/ GetFails(e)
    <3>1. call[e].key \in Key
      BY <1>1, <2>2, Types DEF GetRecord, GetFails, WellFormed
    <3>2. /\ Purged(e, call[e].key) \in Caches
          /\ \A j \in Key : \/ Purged(e, call[e].key)[j] = cache[e][j]
                            \/ Purged(e, call[e].key)[j] = None
      BY <1>1, <3>1, PurgedType, PurgedEntries
    <3>3. CASE cache' = [cache EXCEPT ![e] = Purged(e, call[e].key)]
      BY <1>1, <3>2, <3>3, DropStep
    <3>4. CASE /\ store[call[e].key] # None /\ UNCHANGED <<now, store>>
               /\ Found(e, Purged(e, call[e].key), store[call[e].key])
      BY <1>1, <3>1, <3>2, <3>4, FoundStep
    <3>5. QED
      BY <2>2, <3>3, <3>4 DEF GetRecord, GetFails
  <2>3. CASE UpdateRecord(e)
    <3>1. /\ call[e].key \in Key /\ rec[e] \in DataRecord /\ cache[e] \in Caches
          /\ SaveToCache(e, cache[e], rec[e]) /\ now' = now
          /\ store' = [store EXCEPT ![call[e].key] = Updated(@, rec[e])]
      BY <1>1, <2>3, Types DEF UpdateRecord, WellFormed, ApplyUpdate
    <3>2. store'[call[e].key] = Updated(store[call[e].key], rec[e])
      BY <1>1, <3>1, Types DEF Caches
    <3>3. store'[call[e].key] # None
      BY <1>1, <3>1, UpdatedRecord, Types, RecordAssumption, <3>2 DEF Caches
    <3>4. /\ store'[call[e].key].status = rec[e].status
          /\ store'[call[e].key].data = rec[e].data
          /\ store'[call[e].key].expiry = rec[e].expiry
      BY <3>1, <3>2, UpdatedRecord, Types DEF Caches
    <3>5. rec'[e] = rec[e]
      BY <2>3 DEF UpdateRecord
    <3>6. QED
      BY <1>1, <3>1, <3>3, <3>4, <3>5, SaveToCacheStep
  <2>4. CASE DeleteRecord(e)
    <3>1. /\ cache' = [cache EXCEPT ![e] = [cache[e] EXCEPT ![call[e].key] = None]]
          /\ cache[e] \in Caches /\ call[e].key \in Key
      BY <1>1, <2>4, Types DEF DeleteRecord, DeleteFromCache, WellFormed
    <3>2. PICK c : c = [cache[e] EXCEPT ![call[e].key] = None]
      OBVIOUS
    <3>3. \A j \in Key : c[j] = cache[e][j] \/ c[j] = None
      BY <3>1, <3>2 DEF Caches
    <3>4. cache'[f][k] = cache[f][k] \/ cache'[f][k] = None
      BY <1>1, <3>1, <3>2, <3>3, Types
    <3>5. QED
      BY <3>4 DEF CacheStep
  <2>5. CASE cache' = cache
    BY <1>2, <2>5
  <2>6. QED
    BY <1>4, <2>1, <2>2, <2>3, <2>4, <2>5 DEF StoreStep, PutFails, UpdateFails, DeleteFails
<1>5. CASE Tick \/ (\E j \in Key : ExpireItem(j)) \/ UNCHANGED vars
  BY <1>2, <1>5 DEF Tick, ExpireItem, vars
<1>6. QED
  BY <1>3, <1>4, <1>5 DEF Next

LEMMA CachesStayOK ==
  ASSUME ResultInv, [Next]_vars, TypeOK'
  PROVE  CachesOK'
PROOF
<1> SUFFICES ASSUME NEW f \in Env, NEW k \in Key, cache'[f][k] # None,
                    ~IsExpired(cache'[f][k], now')
             PROVE  /\ cache'[f][k].status = "COMPLETED"
                    /\ store'[k] # None /\ store'[k].status = "COMPLETED"
                    /\ store'[k].data = cache'[f][k].data
                    /\ store'[k].expiry = cache'[f][k].expiry
  BY DEF CachesOK, Current, StoredResult
<1> DEFINE r == cache'[f][k]
<1>1. r \in DataRecord
  BY DEF TypeOK, TypeOKWith
<1>2. CASE r = cache[f][k]
  <2>1. ~IsExpired(r, now)
    BY <1>1, ExpiredStays DEF ResultInv, LockInv
  <2>2. r.status = "COMPLETED" /\ Current(k, r)
    BY <1>2, <2>1 DEF ResultInv, CachesOK
  <2>3. QED
    BY <1>1, <2>2, CurrentStays DEF ResultInv
<1>3. CASE Saved(f, k)
  <2>1. Status(r, now) = r.status
    BY <1>3 DEF Saved, Status
  <2>2. r.status = "COMPLETED"
    BY <1>1, <1>3, <2>1 DEF Saved, DataRecord
  <2>3. QED
    BY <1>3, <2>2 DEF Saved
<1>4. QED
  BY <1>2, <1>3, NextCacheStep DEF ResultInv, LockInv, CacheStep

\* A record to look at is the one that was there, one that the store has in the
\* same step, or an unexpired one of the cache.
HandleStep(f) ==
  /\ call'[f].key = call[f].key /\ call'[f].payload = call[f].payload
  /\ \/ pc[f] = "handle" /\ rec'[f] = rec[f]
     \/ /\ UNCHANGED <<now, store>>
        /\ store[call[f].key] # None
        /\ rec'[f] = store[call[f].key]
        /\ ~Mismatch(f, rec'[f])
     \/ /\ UNCHANGED <<now, store>>
        /\ Cached(f, call[f].key) # None
        /\ rec'[f] = Cached(f, call[f].key)
        /\ ~Mismatch(f, rec'[f])

LEMMA NextHandleStep ==
  ASSUME TypeOK, [Next]_vars, NEW f \in Env, pc'[f] = "handle"
  PROVE  HandleStep(f)
PROOF
<1>1. TypeOK
  OBVIOUS
<1>2. CASE /\ pc'[f] = pc[f] /\ rec'[f] = rec[f] /\ call'[f].key = call[f].key
                                /\ call'[f].payload = call[f].payload
  BY <1>2 DEF HandleStep
<1>3. ASSUME NEW e \in Env, e # f, Begin(e) \/ LocalStep(e) \/ Kill(e) \/ StoreStep(e)
      PROVE  pc'[f] = pc[f] /\ rec'[f] = rec[f] /\ call'[f].key = call[f].key
                                /\ call'[f].payload = call[f].payload
  BY <1>1, <1>3, Types
  DEF Begin, LocalStep, SaveInProgress, GetCachedRecord, HandleForStatus, FunctionReturns,
      FunctionRaises, Finish, Kill, Reset, StoreStep, PutRecord, PutFails, GetRecord, GetFails,
      UpdateRecord, UpdateFails, DeleteRecord, DeleteFails, Found, Retry, Raise, Goto
<1>4. CASE Begin(f) \/ Kill(f) \/ Finish(f) \/ SaveInProgress(f) \/ HandleForStatus(f)
           \/ FunctionReturns(f) \/ FunctionRaises(f)
  BY <1>1, <1>4, Types
  DEF Begin, SaveInProgress, HandleForStatus, FunctionReturns, FunctionRaises, Finish, Kill,
      Reset, Retry, Raise, Goto
<1>5. CASE GetCachedRecord(f)
  BY <1>1, <1>5, Types DEF GetCachedRecord, Raise, Goto, HandleStep
<1>6. CASE PutRecord(f)
  <2>1. /\ ~PutCondition(call[f].key, call[f].at)
        /\ Found(f, cache[f], store[call[f].key])
        /\ UNCHANGED <<now, store, call>>
    BY <1>1, <1>6, Types DEF PutRecord, Goto
  <2>2. /\ rec' = [rec EXCEPT ![f] = store[call[f].key]]
        /\ ~Mismatch(f, store[call[f].key])
    BY <1>1, <2>1, Types DEF Found, Raise, Goto
  <2>3. store[call[f].key] # None
    BY <2>1 DEF PutCondition
  <2>4. QED
    BY <1>1, <2>1, <2>2, <2>3, Types DEF HandleStep
<1>7. CASE GetRecord(f)
  <2>1. CASE Retry(f)
    BY <1>1, <2>1, RetryType
  <2>2. CASE /\ Found(f, Purged(f, call[f].key), store[call[f].key])
             /\ store[call[f].key] # None
             /\ UNCHANGED <<now, store, call>>
    <3>1. /\ rec' = [rec EXCEPT ![f] = store[call[f].key]]
          /\ ~Mismatch(f, store[call[f].key])
      BY <1>1, <2>2, Types DEF Found, Raise, Goto
    <3>2. QED
      BY <1>1, <2>2, <3>1, Types DEF HandleStep
  <2>3. QED
    BY <1>7, <2>1, <2>2 DEF GetRecord
<1>8. CASE PutFails(f) \/ GetFails(f) \/ UpdateRecord(f) \/ UpdateFails(f)
           \/ DeleteRecord(f) \/ DeleteFails(f)
  BY <1>1, <1>8, Types
  DEF PutFails, GetFails, UpdateRecord, UpdateFails, DeleteRecord, DeleteFails, Raise, Goto
<1>9. CASE Tick \/ (\E j \in Key : ExpireItem(j)) \/ UNCHANGED vars
  BY <1>2, <1>9 DEF Tick, ExpireItem, vars
<1>10. CASE \E e \in Env : Begin(e) \/ LocalStep(e) \/ StoreStep(e) \/ Kill(e)
  <2>1. PICK e \in Env : Begin(e) \/ LocalStep(e) \/ StoreStep(e) \/ Kill(e)
    BY <1>10
  <2>2. CASE e # f
    BY <1>2, <1>3, <2>1, <2>2
  <2>3. CASE e = f
    BY <1>4, <1>5, <1>6, <1>7, <1>8, <2>1, <2>3 DEF LocalStep, StoreStep
  <2>4. QED
    BY <2>2, <2>3
<1>11. QED
  BY <1>9, <1>10 DEF Next

LEMMA HandlesStayOK ==
  ASSUME ResultInv, [Next]_vars, TypeOK'
  PROVE  HandlesOK'
PROOF
<1> SUFFICES ASSUME NEW f \in Env, pc'[f] = "handle", Status(rec'[f], now') = "COMPLETED"
             PROVE  LET k == call'[f].key
                    IN  /\ store'[k] # None /\ store'[k].status = "COMPLETED"
                        /\ store'[k].data = rec'[f].data
                        /\ store'[k].expiry = rec'[f].expiry
  BY DEF HandlesOK, Current, StoredResult, Status, IsExpired
<1> DEFINE r == rec'[f]
           k == call'[f].key
<1>1. r \in DataRecord /\ k \in Key
  BY DEF TypeOK, TypeOKWith, WellFormed
<1>2. ~IsExpired(r, now') /\ r.status = "COMPLETED"
  BY <1>1 DEF Status, DataRecord
<1>3. ~IsExpired(r, now)
  BY <1>1, <1>2, ExpiredStays DEF ResultInv, LockInv
<1>4. SUFFICES Current(k, r)
  BY <1>1, <1>2, CurrentStays DEF ResultInv
<1>5. CASE pc[f] = "handle" /\ rec'[f] = rec[f] /\ call'[f].key = call[f].key
  BY <1>2, <1>3, <1>5 DEF ResultInv, HandlesOK, Status
<1>6. CASE /\ call'[f].key = call[f].key
           /\ store[call[f].key] # None
           /\ rec'[f] = store[call[f].key]
  BY <1>2, <1>6 DEF Current, StoredResult
<1>7. CASE /\ call'[f].key = call[f].key
           /\ Cached(f, call[f].key) # None
           /\ rec'[f] = Cached(f, call[f].key)
  <2>1. cache[f][k] # None /\ r = cache[f][k]
    BY <1>7 DEF Cached
  <2>2. QED
    BY <1>1, <1>3, <2>1 DEF ResultInv, CachesOK
<1>8. QED
  BY <1>5, <1>6, <1>7, NextHandleStep DEF ResultInv, LockInv, HandleStep

LEMMA InitResult == Init => ResultInv
PROOF
  BY InitLock DEF Init, ResultInv, CachesOK, HandlesOK, EmptyCache

LEMMA NextResult == LongWindow /\ ResultInv /\ [Next]_vars => ResultInv'
PROOF
<1> SUFFICES ASSUME LongWindow, ResultInv, [Next]_vars PROVE ResultInv'
  OBVIOUS
<1>1. LockInv' /\ TypeOK'
  BY NextLock DEF ResultInv, LockInv
<1>2. QED
  BY <1>1, CachesStayOK, HandlesStayOK DEF ResultInv

\* Whatever a local cache answers with, it is the completed result of the store,
\* whichever entries were evicted and whatever the other environments did.
THEOREM CachesCoherent ==
  ASSUME LongWindow
  PROVE  Spec => []CacheCoherent
PROOF
<1>1. ResultInv => CacheCoherent
  BY DEF ResultInv, CachesOK, CacheCoherent, Current
<1>2. ResultInv /\ [Next]_vars => ResultInv'
  BY NextResult
<1>3. QED
  BY <1>1, <1>2, InitResult, PTL DEF Spec

\* The result that is replayed is still the stored one, however long ago and
\* from wherever it was read.
THEOREM ReplaysCurrent ==
  ASSUME LongWindow
  PROVE  Spec => []ReplayIsCurrent
PROOF
<1>1. ResultInv => ReplayIsCurrent
  BY DEF ResultInv, HandlesOK, ReplayIsCurrent, Current
<1>2. ResultInv /\ [Next]_vars => ResultInv'
  BY NextResult
<1>3. QED
  BY <1>1, <1>2, InitResult, PTL DEF Spec

------------------------------------------------------------------------------
(* Payload validation. A record carries the hash of the payload from which its *)
(* response was computed, wherever it is kept.                                *)

Honest(r) == r # None /\ r.data # None => r.data.payload = r.hash

\* What the invocation of e ends with was computed from its payload.
Answered(e) ==
  /\ pc[e] = "idle" => out[e].kind = "none"
  /\ out[e].kind = "response" /\ out[e].data # None => out[e].data.payload = call[e].payload

HonestInv ==
  /\ TypeOK
  /\ \A k \in Key : Honest(store[k])
  /\ \A e \in Env, k \in Key : Honest(cache[e][k])
  /\ \A e \in Env : Honest(rec[e])
  /\ \A e \in Env : pc[e] = "handle" => rec[e].hash = call[e].payload
  /\ \A e \in Env : Answered(e)

LEMMA NewRecordsHonest ==
  ASSUME ValidatePayload, NEW e
  PROVE  /\ Honest(NewInProgress(e))
         /\ \A f : LET response == [by |-> call[e].id, payload |-> call[e].payload, falsy |-> f]
                   IN  Honest(NewCompleted(e, response))
PROOF
  BY DEF Honest, NewInProgress, NewCompleted, HashedPayload

\* The record at hand: built here, read from the store or the cache, or dropped.
LEMMA RecStaysHonest ==
  ASSUME ValidatePayload, HonestInv, [Next]_vars, NEW f \in Env
  PROVE  Honest(rec'[f])
PROOF
<1>1. TypeOK /\ Honest(rec[f]) /\ Honest(None)
  BY DEF HonestInv, Honest
<1>2. CASE rec' = rec
  BY <1>1, <1>2
<1>3. ASSUME NEW e \in Env, NEW r, rec' = [rec EXCEPT ![e] = r], Honest(r)
      PROVE  Honest(rec'[f])
  BY <1>1, <1>3, Types
<1>4. ASSUME NEW e \in Env, call[e].key \in Key, NEW c, Found(e, c, store[call[e].key])
      PROVE  Honest(rec'[f])
  BY <1>2, <1>3, <1>4 DEF HonestInv, Found
<1>5. ASSUME NEW e \in Env, LocalStep(e) \/ Begin(e) \/ Kill(e)
      PROVE  Honest(rec'[f])
  <2>1. CASE SaveInProgress(e)
    BY <1>2, <1>3, <2>1, NewRecordsHonest DEF SaveInProgress
  <2>2. CASE GetCachedRecord(e)
    <3>1. call[e].key \in Key
      BY <1>1, <2>2, Types DEF GetCachedRecord, WellFormed
    <3>2. Honest(Cached(e, call[e].key))
      BY <1>1, <3>1 DEF HonestInv, Cached
    <3>3. QED
      BY <1>2, <1>3, <2>2, <3>2 DEF GetCachedRecord
  <2>3. CASE FunctionReturns(e)
    BY <1>2, <1>3, <2>3, NewRecordsHonest DEF FunctionReturns
  <2>4. CASE Reset(e)
    BY <1>1, <1>3, <2>4 DEF Reset
  <2>5. QED
    BY <1>2, <1>5, <2>1, <2>2, <2>3, <2>4
    DEF LocalStep, HandleForStatus, FunctionRaises, Finish, Begin, Kill
<1>6. ASSUME NEW e \in Env, StoreStep(e) PROVE Honest(rec'[f])
  <2>1. CASE PutRecord(e)
    <3>1. call[e].key \in Key
      BY <1>1, <2>1, Types DEF PutRecord, WellFormed
    <3>2. QED
      BY <1>2, <1>4, <2>1, <3>1 DEF PutRecord
  <2>2. CASE GetRecord(e)
    <3>1. call[e].key \in Key
      BY <1>1, <2>2, Types DEF GetRecord, WellFormed
    <3>2. QED
      BY <1>2, <1>4, <2>2, <3>1 DEF GetRecord
  <2>3. QED
    BY <1>2, <1>6, <2>1, <2>2 DEF StoreStep, PutFails, GetFails, UpdateRecord, UpdateFails,
       DeleteRecord, DeleteFails
<1>7. CASE Tick \/ (\E j \in Key : ExpireItem(j)) \/ UNCHANGED vars
  BY <1>2, <1>7 DEF Tick, ExpireItem, vars
<1>8. QED
  BY <1>5, <1>6, <1>7 DEF Next

\* The store gets the record at hand, the update of an item, or loses one.
LEMMA StoreStaysHonest ==
  ASSUME ValidatePayload, HonestInv, [Next]_vars, NEW k \in Key
  PROVE  Honest(store'[k])
PROOF
<1>1. TypeOK /\ Honest(store[k]) /\ Honest(None)
  BY DEF HonestInv, Honest
<1>2. CASE store' = store
  BY <1>1, <1>2
<1>3. ASSUME NEW j, NEW r, store' = [store EXCEPT ![j] = r], Honest(r)
      PROVE  Honest(store'[k])
  BY <1>1, <1>3, Types DEF Caches
<1>4. ASSUME NEW e \in Env, LocalStep(e) \/ Begin(e) \/ Kill(e) PROVE Honest(store'[k])
  BY <1>2, <1>4 DEF Begin, LocalStep, SaveInProgress, GetCachedRecord, HandleForStatus,
     FunctionReturns, FunctionRaises, Finish, Kill, Reset
<1>5. ASSUME NEW e \in Env, StoreStep(e) PROVE Honest(store'[k])
  <2>1. ASSUME WriteRec(e) PROVE Honest(store'[k])
    BY <1>3, <2>1 DEF WriteRec, HonestInv
  <2>2. ASSUME ApplyDelete(e) PROVE Honest(store'[k])
    BY <1>1, <1>3, <2>2 DEF ApplyDelete
  <2>3. ASSUME pc[e] = "update", ApplyUpdate(e) PROVE Honest(store'[k])
    <3>1. call[e].key \in Key /\ rec[e] \in DataRecord /\ Honest(rec[e])
      BY <1>1, <2>3, Types DEF WellFormed, HonestInv
    <3>2. PICK old : old = store[call[e].key]
      OBVIOUS
    <3>3. old \in DataRecord \cup {None}
      BY <1>1, <3>1, <3>2, Types DEF Caches
    <3>4. /\ store' = [store EXCEPT ![call[e].key] = Updated(old, rec[e])]
          /\ Updated(old, rec[e]).data = rec[e].data
      BY <2>3, <3>1, <3>2, <3>3, UpdatedRecord DEF ApplyUpdate
    <3>5. Updated(old, rec[e]).hash = rec[e].hash
      BY <3>1 DEF Updated, DataRecord
    <3>6. rec[e] # None
      BY <3>1, RecordAssumption
    <3>7. Honest(Updated(old, rec[e]))
      BY <3>1, <3>4, <3>5, <3>6 DEF Honest
    <3>8. QED
      BY <1>3, <3>4, <3>7
  <2>4. QED
    BY <1>2, <1>5, <2>1, <2>2, <2>3 DEF StoreStep, PutRecord, PutFails, GetRecord, GetFails,
       UpdateRecord, UpdateFails, DeleteRecord, DeleteFails
<1>6. ASSUME NEW j \in Key, ExpireItem(j) PROVE Honest(store'[k])
  BY <1>1, <1>3, <1>6 DEF ExpireItem
<1>7. CASE Tick \/ UNCHANGED vars
  BY <1>2, <1>7 DEF Tick, vars
<1>8. QED
  BY <1>4, <1>5, <1>6, <1>7 DEF Next

LEMMA CachesStayHonest ==
  ASSUME ValidatePayload, HonestInv, [Next]_vars, NEW f \in Env, NEW k \in Key
  PROVE  Honest(cache'[f][k])
PROOF
<1>1. CacheStep(f, k)
  BY NextCacheStep DEF HonestInv
<1>2. Honest(None) /\ Honest(cache[f][k]) /\ Honest(rec'[f])
  BY RecStaysHonest DEF HonestInv, Honest
<1>3. cache'[f][k] = None \/ cache'[f][k] = cache[f][k] \/ cache'[f][k] = rec'[f]
  BY <1>1 DEF CacheStep, Saved
<1>4. QED
  BY <1>2, <1>3

LEMMA HandlesStayValid ==
  ASSUME ValidatePayload, HonestInv, [Next]_vars, NEW f \in Env, pc'[f] = "handle"
  PROVE  rec'[f].hash = call'[f].payload
PROOF
<1>1. HandleStep(f)
  BY NextHandleStep DEF HonestInv
<1>2. CASE ~Mismatch(f, rec'[f])
  BY <1>1, <1>2 DEF HandleStep, Mismatch, HashedPayload
<1>3. CASE pc[f] = "handle" /\ rec'[f] = rec[f]
  BY <1>1, <1>3 DEF HandleStep, HonestInv
<1>4. QED
  BY <1>1, <1>2, <1>3 DEF HandleStep

\* An outcome with data is made from the record that was looked at or from the
\* payload of the running function; a call keeps its payload until it ends.
LEMMA AnswersStay ==
  ASSUME ValidatePayload, HonestInv, [Next]_vars, NEW f \in Env
  PROVE  Answered(f)'
PROOF
<1>1. TypeOK /\ Answered(f)
  BY DEF HonestInv
<1>2. CASE /\ out'[f] = out[f]
           /\ pc'[f] = "idle" => pc[f] = "idle"
           /\ call'[f].payload = call[f].payload \/ out[f].kind = "none"
  BY <1>1, <1>2 DEF Answered
<1>3. CASE pc'[f] = "done" /\ out'[f].kind # "response"
  BY <1>3 DEF Answered
<1>4. CASE Reset(f)
  BY <1>1, <1>4, Types DEF Reset, NoOutcome, Answered
<1>5. CASE HandleForStatus(f)
  <2>1. CASE Retry(f)
    <3>1. CASE call[f].tries = MAX_RETRIES
      BY <1>1, <1>3, <2>1, <3>1, Types DEF Retry, Raise, Goto
    <3>2. CASE call[f].tries # MAX_RETRIES
      <4>1. out' = out /\ pc'[f] # "idle" /\ call'[f].payload = call[f].payload
        BY <1>1, <2>1, <3>2, RetryType DEF Retry
      <4>2. QED
        BY <1>2, <4>1
    <3>3. QED
      BY <3>1, <3>2
  <2>2. CASE Raise(f, "AlreadyInProgress")
    BY <1>1, <1>3, <2>2, Types DEF Raise, Goto
  <2>3. CASE /\ out' = [out EXCEPT ![f] = [kind |-> "response", data |-> rec[f].data]]
             /\ Goto(f, "done") /\ call' = call
    <3>1. rec[f] # None /\ Honest(rec[f]) /\ rec[f].hash = call[f].payload
      BY <1>1, <1>5, Types, RecordAssumption DEF HandleForStatus, WellFormed, HonestInv
    <3>2. out'[f] = [kind |-> "response", data |-> rec[f].data] /\ pc'[f] = "done"
      BY <1>1, <2>3, Types DEF Goto
    <3>3. QED
      BY <2>3, <3>1, <3>2 DEF Answered, Honest
  <2>4. QED
    BY <1>5, <2>1, <2>2, <2>3 DEF HandleForStatus
<1>6. CASE FunctionReturns(f)
  <2>1. PICK b \in Falsy :
          out' = [out EXCEPT ![f] =
                    [kind |-> "response",
                     data |-> [by |-> call[f].id, payload |-> call[f].payload, falsy |-> b]]]
    BY <1>6 DEF FunctionReturns
  <2>2. out'[f].data.payload = call[f].payload
    BY <1>1, <2>1, Types
  <2>3. pc'[f] # "idle" /\ call' = call
    BY <1>1, <1>6, Types DEF FunctionReturns, Goto
  <2>4. QED
    BY <2>2, <2>3 DEF Answered
<1>7. CASE FunctionRaises(f)
  BY <1>1, <1>7, Types DEF FunctionRaises, Goto, Answered
<1>8. CASE Begin(f)
  <2>1. out' = out /\ out[f].kind = "none"
    BY <1>1, <1>8 DEF Begin, Answered
  <2>2. pc'[f] = "save"
    BY <1>1, <1>8, Types DEF Begin, Goto
  <2>3. QED
    BY <1>2, <2>1, <2>2
<1>9. CASE SaveInProgress(f)
  <2>1. CASE Raise(f, "KeyError")
    BY <1>1, <1>3, <2>1, Types DEF Raise, Goto
  <2>2. CASE out' = out
    <3>1. call' = call \/ call' = [call EXCEPT ![f].at = now]
      BY <1>9 DEF SaveInProgress
    <3>2. call'[f].payload = call[f].payload
      BY <1>1, <3>1, Types DEF Call
    <3>3. pc'[f] # "idle"
      BY <1>1, <1>9, Types DEF SaveInProgress, Goto, Raise
    <3>4. QED
      BY <1>2, <2>2, <3>2, <3>3
  <2>3. QED
    BY <1>9, <2>1, <2>2 DEF SaveInProgress
<1>10. CASE GetCachedRecord(f)
  <2>1. CASE Raise(f, "ValidationError")
    BY <1>1, <1>3, <2>1, Types DEF Raise, Goto
  <2>2. CASE out' = out /\ Goto(f, "handle") /\ call' = call
    BY <1>1, <1>2, <2>2, Types DEF Goto
  <2>3. QED
    BY <1>10, <2>1, <2>2 DEF GetCachedRecord
<1>11. ASSUME StoreStep(f) PROVE Answered(f)'
  <2>1. CASE \E kind \in {"PersistenceLayerError", "ValidationError", "InconsistentState"} :
               Raise(f, kind)
    BY <1>1, <1>3, <2>1, Types DEF Raise, Goto
  <2>2. CASE /\ out' = out
             /\ \E label \in {"run", "get", "handle", "done"} : Goto(f, label)
             /\ call' = call
    BY <1>1, <1>2, <2>2, Types DEF Goto
  <2>3. CASE Retry(f) /\ call[f].tries # MAX_RETRIES
    <3>1. out' = out /\ pc'[f] # "idle" /\ call'[f].payload = call[f].payload
      BY <1>1, <2>3, RetryType DEF Retry
    <3>2. QED
      BY <1>2, <3>1
  <2>4. ASSUME NEW c, NEW r, Found(f, c, r), call' = call PROVE Answered(f)'
    BY <2>1, <2>2, <2>4 DEF Found
  <2>5. CASE PutRecord(f)
    BY <2>2, <2>4, <2>5 DEF PutRecord
  <2>6. CASE GetRecord(f)
    BY <2>1, <2>3, <2>4, <2>6 DEF GetRecord, Retry
  <2>7. CASE UpdateRecord(f) \/ DeleteRecord(f)
    BY <2>2, <2>7 DEF UpdateRecord, DeleteRecord
  <2>8. CASE PutFails(f) \/ GetFails(f) \/ UpdateFails(f) \/ DeleteFails(f)
    BY <2>1, <2>8 DEF PutFails, GetFails, UpdateFails, DeleteFails
  <2>9. QED
    BY <1>11, <2>5, <2>6, <2>7, <2>8 DEF StoreStep
<1>12. ASSUME NEW e \in Env, e # f, Begin(e) \/ LocalStep(e) \/ Kill(e) \/ StoreStep(e)
       PROVE  pc'[f] = pc[f] /\ out'[f] = out[f] /\ call'[f] = call[f]
  BY <1>1, <1>12, Types
  DEF Begin, LocalStep, SaveInProgress, GetCachedRecord, HandleForStatus, FunctionReturns,
      FunctionRaises, Finish, Kill, Reset, StoreStep, PutRecord, PutFails, GetRecord, GetFails,
      UpdateRecord, UpdateFails, DeleteRecord, DeleteFails, Found, Retry, Raise, Goto
<1>13. CASE Tick \/ (\E j \in Key : ExpireItem(j)) \/ UNCHANGED vars
  BY <1>2, <1>13 DEF Tick, ExpireItem, vars
<1>14. CASE \E e \in Env : Begin(e) \/ LocalStep(e) \/ StoreStep(e) \/ Kill(e)
  <2>1. PICK e \in Env : Begin(e) \/ LocalStep(e) \/ StoreStep(e) \/ Kill(e)
    BY <1>14
  <2>2. CASE e # f
    BY <1>2, <1>12, <2>1, <2>2
  <2>3. CASE e = f
    BY <1>4, <1>5, <1>6, <1>7, <1>8, <1>9, <1>10, <1>11, <2>1, <2>3
    DEF LocalStep, Finish, Kill
  <2>4. QED
    BY <2>2, <2>3
<1>15. QED
  BY <1>13, <1>14 DEF Next

LEMMA InitHonest == Init /\ ValidatePayload => HonestInv
PROOF
  BY InitType DEF Init, HonestInv, Honest, Answered, EmptyCache, NoOutcome

LEMMA NextHonest == ValidatePayload /\ HonestInv /\ [Next]_vars => HonestInv'
PROOF
<1> SUFFICES ASSUME ValidatePayload, HonestInv, [Next]_vars PROVE HonestInv'
  OBVIOUS
<1>1. TypeOK'
  BY NextType DEF HonestInv
<1>2. \A k \in Key : Honest(store'[k])
  BY StoreStaysHonest
<1>3. \A e \in Env, k \in Key : Honest(cache'[e][k])
  BY CachesStayHonest
<1>4. \A e \in Env : Honest(rec'[e])
  BY RecStaysHonest
<1>5. \A e \in Env : pc'[e] = "handle" => rec'[e].hash = call'[e].payload
  BY HandlesStayValid
<1>6. \A e \in Env : Answered(e)'
  BY AnswersStay
<1>7. QED
  BY <1>1, <1>2, <1>3, <1>4, <1>5, <1>6 DEF HonestInv, Honest

\* With payload validation nobody receives a response that was computed from
\* another payload, whichever way it was read and however long records live.
THEOREM PayloadsProtected == Spec => []PayloadProtected
PROOF
<1>1. (ValidatePayload => HonestInv) => PayloadProtected
  BY DEF HonestInv, Answered, PayloadProtected
<1>2. Init => (ValidatePayload => HonestInv)
  BY InitHonest
<1>3. (ValidatePayload => HonestInv) /\ [Next]_vars => (ValidatePayload => HonestInv)'
  BY NextHonest
<1>4. QED
  BY <1>1, <1>2, <1>3, PTL DEF Spec

\* How an attempt can end.
LEMMA RaisesAs ==
  ASSUME TypeOK, NEW e \in Env, NEW kind, Raise(e, kind)
  PROVE  pc'[e] = "done" /\ out'[e].kind = kind
PROOF
  BY Types DEF Raise, Goto

LEMMA RetriesAs ==
  ASSUME TypeOK, NEW e \in Env, Retry(e)
  PROVE  \/ pc'[e] = "save"
         \/ pc'[e] = "done" /\ out'[e].kind = "InconsistentState"
PROOF
  BY RaisesAs, Types DEF Retry, Goto

LEMMA EndsAs ==
  ASSUME TypeOK, NEW e \in Env
  PROVE  /\ FunctionReturns(e) => out'[e].kind = "response"
         /\ FunctionRaises(e) => out'[e].kind = "FunctionError"
         /\ Reset(e) => out'[e].kind = "none"
PROOF
<1>1. ASSUME NEW o, out' = [out EXCEPT ![e] = o] PROVE out'[e] = o
  BY <1>1, Types
<1>2. ASSUME FunctionReturns(e) PROVE out'[e].kind = "response"
  <2>1. PICK d : out' = [out EXCEPT ![e] = [kind |-> "response", data |-> d]]
    BY <1>2 DEF FunctionReturns
  <2>2. QED
    BY <1>1, <2>1
<1>3. ASSUME FunctionRaises(e) PROVE out'[e].kind = "FunctionError"
  <2>1. PICK o : o.kind = "FunctionError" /\ out' = [out EXCEPT ![e] = o]
    BY <1>3 DEF FunctionRaises
  <2>2. QED
    BY <1>1, <2>1
<1>4. ASSUME Reset(e) PROVE out'[e].kind = "none"
  <2>1. PICK o : o.kind = "none" /\ out' = [out EXCEPT ![e] = o]
    BY <1>4 DEF Reset, NoOutcome
  <2>2. QED
    BY <1>1, <2>1
<1>5. QED
  BY <1>2, <1>3, <1>4

\* An invocation is refused only at its end.
Unrefused == \A e \in Env : pc[e] # "done" => out[e].kind # "ValidationError"

LEMMA StaysUnrefused ==
  ASSUME TypeOK, Unrefused, [Next]_vars
  PROVE  Unrefused'
PROOF
<1> SUFFICES ASSUME NEW f \in Env, pc'[f] # "done" PROVE out'[f].kind # "ValidationError"
  BY DEF Unrefused
<1>1. TypeOK
  OBVIOUS
<1>2. CASE out'[f] = out[f] /\ (pc'[f] = pc[f] \/ pc[f] # "done")
  BY <1>2 DEF Unrefused
<1>3. ASSUME NEW e \in Env, e # f, Begin(e) \/ LocalStep(e) \/ Kill(e) \/ StoreStep(e)
      PROVE  pc'[f] = pc[f] /\ out'[f] = out[f]
  BY <1>1, <1>3, Types
  DEF Begin, LocalStep, SaveInProgress, GetCachedRecord, HandleForStatus, FunctionReturns,
      FunctionRaises, Finish, Kill, Reset, StoreStep, PutRecord, PutFails, GetRecord, GetFails,
      UpdateRecord, UpdateFails, DeleteRecord, DeleteFails, Found, Retry, Raise, Goto
<1>4. CASE Begin(f) \/ StoreStep(f) \/ SaveInProgress(f) \/ GetCachedRecord(f)
           \/ HandleForStatus(f)
  BY <1>1, <1>2, <1>4, Types
  DEF Begin, SaveInProgress, GetCachedRecord, HandleForStatus, StoreStep, PutRecord, PutFails,
      GetRecord, GetFails, UpdateRecord, UpdateFails, DeleteRecord, DeleteFails, Found, Retry,
      Raise, Goto
<1>5. CASE FunctionReturns(f) \/ FunctionRaises(f) \/ Reset(f)
  BY <1>1, <1>5, EndsAs
<1>6. CASE Tick \/ (\E j \in Key : ExpireItem(j)) \/ UNCHANGED vars
  BY <1>2, <1>6 DEF Tick, ExpireItem, vars
<1>7. QED
  BY <1>2, <1>3, <1>4, <1>5, <1>6 DEF Next, LocalStep, Finish, Kill

\* Only a record that was read can refuse a call.
LEMMA RefusedBy ==
  ASSUME TypeOK, Unrefused, [Next]_vars, NEW f \in Env,
         pc[f] # "done", pc'[f] = "done", out'[f].kind = "ValidationError"
  PROVE  /\ call[f].key \in Key
         /\ \/ /\ store[call[f].key] # None
               /\ Mismatch(f, store[call[f].key])
            \/ /\ Cached(f, call[f].key) # None
               /\ Mismatch(f, Cached(f, call[f].key))
PROOF
<1>1. TypeOK
  OBVIOUS
<1>2. ASSUME NEW e \in Env, e # f, Begin(e) \/ LocalStep(e) \/ Kill(e) \/ StoreStep(e)
      PROVE  pc'[f] = pc[f]
  BY <1>1, <1>2, Types
  DEF Begin, LocalStep, SaveInProgress, GetCachedRecord, HandleForStatus, FunctionReturns,
      FunctionRaises, Finish, Kill, Reset, StoreStep, PutRecord, PutFails, GetRecord, GetFails,
      UpdateRecord, UpdateFails, DeleteRecord, DeleteFails, Found, Retry, Raise, Goto
<1>3. ~(Tick \/ (\E j \in Key : ExpireItem(j)) \/ UNCHANGED vars)
  BY DEF Tick, ExpireItem, vars
<1>4. ~(Begin(f) \/ Reset(f) \/ FunctionReturns(f) \/ FunctionRaises(f))
  <2>1. ~Begin(f)
    BY <1>1, Types DEF Begin, Goto
  <2>2. QED
    BY <1>1, <2>1, EndsAs
<1>5. ~SaveInProgress(f)
  BY <1>1, RaisesAs, Types DEF SaveInProgress, Goto
<1>6. ~HandleForStatus(f)
  <2>1. ASSUME NEW d, out' = [out EXCEPT ![f] = [kind |-> "response", data |-> d]] PROVE FALSE
    BY <1>1, <2>1, Types
  <2>2. ~Retry(f) /\ ~Raise(f, "AlreadyInProgress")
    BY <1>1, RaisesAs, RetriesAs
  <2>3. QED
    BY <2>1, <2>2 DEF HandleForStatus
<1>7. ~(PutFails(f) \/ GetFails(f) \/ UpdateFails(f) \/ DeleteFails(f))
  BY <1>1, RaisesAs DEF PutFails, GetFails, UpdateFails, DeleteFails
<1>8. ~(UpdateRecord(f) \/ DeleteRecord(f))
  BY DEF UpdateRecord, DeleteRecord, Unrefused
<1>9. pc[f] \in {"put", "get"} => call[f].key \in Key
  BY <1>1, Types DEF WellFormed
<1>10. ASSUME NEW c, NEW r, Found(f, c, r) PROVE Mismatch(f, r)
  BY <1>1, <1>10, Types DEF Found, Goto
<1>11. CASE GetCachedRecord(f)
  BY <1>1, <1>9, <1>11, Types DEF GetCachedRecord, Goto
<1>12. CASE PutRecord(f)
  BY <1>1, <1>9, <1>10, <1>12, Types DEF PutRecord, PutCondition, Goto
<1>13. CASE GetRecord(f)
  <2>1. ~Retry(f)
    BY <1>1, RetriesAs
  <2>2. QED
    BY <1>9, <1>10, <1>13, <2>1 DEF GetRecord
<1>14. QED
  BY <1>2, <1>3, <1>4, <1>5, <1>6, <1>7, <1>8, <1>11, <1>12, <1>13
  DEF Next, LocalStep, StoreStep, Finish, Kill

\* With payload validation an invocation is refused only if the result that is
\* stored then was computed from another payload: a cached record that refuses
\* it is still the stored one.
THEOREM RefusalsJust ==
  ASSUME LongWindow
  PROVE  Spec => RefusalsAreJust
PROOF
<1> DEFINE Just == \A e \in Env :
                     /\ pc[e] # "done"
                     /\ pc'[e] = "done"
                     /\ out'[e].kind = "ValidationError"
                     /\ store[call[e].key] # None
                     /\ store[call[e].key].data # None
                     => store[call[e].key].data.payload # call[e].payload
           Inv == ResultInv /\ Unrefused /\ (ValidatePayload => HonestInv)
<1>1. Init => Inv
  BY InitResult, InitHonest DEF Init, Unrefused, NoOutcome
<1>2. Inv /\ [Next]_vars => Inv'
  <2> SUFFICES ASSUME Inv, [Next]_vars PROVE Inv'
    OBVIOUS
  <2>1. ResultInv'
    BY NextResult
  <2>2. Unrefused'
    BY StaysUnrefused DEF ResultInv, LockInv
  <2>3. ValidatePayload => HonestInv'
    BY NextHonest
  <2>4. QED
    BY <2>1, <2>2, <2>3
<1>3. Inv /\ [Next]_vars => Just
  <2> SUFFICES ASSUME Inv, [Next]_vars, NEW e \in Env,
                      pc[e] # "done", pc'[e] = "done", out'[e].kind = "ValidationError",
                      store[call[e].key] # None, store[call[e].key].data # None
               PROVE  store[call[e].key].data.payload # call[e].payload
    OBVIOUS
  <2> DEFINE k == call[e].key
  <2>1. TypeOK /\ k \in Key
    BY RefusedBy DEF ResultInv, LockInv
  <2>2. CASE Mismatch(e, store[k])
    BY <2>1, <2>2 DEF Mismatch, HashedPayload, HonestInv, Honest
  <2>3. CASE Cached(e, k) # None /\ Mismatch(e, Cached(e, k))
    <3>1. /\ Cached(e, k) = cache[e][k]
          /\ cache[e][k] # None /\ ~IsExpired(cache[e][k], now)
      BY <2>3 DEF Cached
    <3>2. store[k].data = cache[e][k].data
      BY <2>1, <3>1 DEF ResultInv, CachesOK, Current, StoredResult
    <3>3. QED
      BY <2>1, <2>3, <3>1, <3>2 DEF Mismatch, HashedPayload, HonestInv, Honest
  <2>4. QED
    BY <2>2, <2>3, RefusedBy DEF ResultInv, LockInv
<1>4. Inv /\ [Next]_vars => [Just]_vars
  BY <1>3
<1>5. QED
  BY <1>1, <1>2, <1>4, PTL DEF Spec, RefusalsAreJust

------------------------------------------------------------------------------
(* The contract. Responses are not falsy here: a falsy one is saved as null, and
   what is replayed is not what was returned. *)

NothingFalsy == TRUE \notin Falsy

Responses == [by : 1..MaxInvocations, payload : Payload, falsy : Falsy]

\* What the outcome of e is before it is delivered.
OutcomeOK(e) ==
  /\ Active(e) => call[e].id \in 1..MaxInvocations
  /\ pc[e] = "update" =>
       /\ rec[e].status = "COMPLETED"
       /\ rec[e].expiry <= Second(now) + ExpiresAfter
       /\ rec[e].data \in Responses
       /\ out[e] = [kind |-> "response", data |-> rec[e].data]
  /\ pc[e] = "delete" => out[e].kind # "response"

ContractInv == ResultInv /\ \A e \in Env : OutcomeOK(e)

\* The mapped state, one caller or key at a time.
SavedResult(k) ==
  IF store[k] # None /\ store[k].status = "COMPLETED"
  THEN [data |-> store[k].data, until |-> store[k].expiry]
  ELSE None

ReplyTo(e) ==
  IF pc[e] = "done" /\ out[e].kind = "response" /\ call[e].key # NoKey
  THEN out[e].data
  ELSE None

Elsewhere(e) ==
  \A f \in Env \ {e} : pc'[f] = pc[f] /\ call'[f] = call[f] /\ out'[f] = out[f]

LEMMA RepliesStep ==
  ASSUME NEW e \in Env, Elsewhere(e)
  PROVE  /\ Replies' = [Replies EXCEPT ![e] = ReplyTo(e)']
         /\ ReplyTo(e)' = ReplyTo(e) => Replies' = Replies
PROOF
<1>1. \A f \in Env \ {e} : ReplyTo(f)' = ReplyTo(f)
  BY DEF Elsewhere, ReplyTo
<1>2. Replies = [f \in Env |-> ReplyTo(f)]
  BY DEF Replies, ReplyTo
<1>3. Replies' = [f \in Env |-> ReplyTo(f)']
  BY DEF Replies, ReplyTo
<1>4. QED
  BY <1>1, <1>2, <1>3

LEMMA SavedStep ==
  ASSUME NEW k \in Key, \A j \in Key \ {k} : store'[j] = store[j]
  PROVE  /\ SavedResults' = [SavedResults EXCEPT ![k] = SavedResult(k)']
         /\ SavedResult(k)' = SavedResult(k) => SavedResults' = SavedResults
PROOF
<1>1. \A j \in Key \ {k} : SavedResult(j)' = SavedResult(j)
  BY DEF SavedResult
<1>2. SavedResults = [j \in Key |-> SavedResult(j)]
  BY DEF SavedResults, SavedResult
<1>3. SavedResults' = [j \in Key |-> SavedResult(j)']
  BY DEF SavedResults, SavedResult
<1>4. QED
  BY <1>1, <1>2, <1>3

LEMMA RunningStep ==
  ASSUME NEW e \in Env, Elsewhere(e)
  PROVE  /\ /\ Executing(e)' <=> Executing(e)
            /\ Executing(e) => call'[e].key = call[e].key
            => Running' = Running
         /\ \A k \in Key : Executing(e) /\ call[e].key = k /\ ~Executing(e)'
              => Running' = [Running EXCEPT ![k] = @ \ {e}]
         /\ \A k \in Key : ~Executing(e) /\ Executing(e)' /\ call'[e].key = k /\ Running[k] = {}
              => Running' = [Running EXCEPT ![k] = {e}]
PROOF
<1> DEFINE Holds(f, k) == Executing(f) /\ call[f].key = k
<1>1. \A f \in Env \ {e}, k \in Key : Holds(f, k)' <=> Holds(f, k)
  BY DEF Elsewhere, Executing
<1>2. Running = [k \in Key |-> {f \in Env : Holds(f, k)}]
  BY DEF Running
<1>3. Running' = [k \in Key |-> {f \in Env : Holds(f, k)'}]
  BY DEF Running
<1>4. ASSUME Executing(e)' <=> Executing(e), Executing(e) => call'[e].key = call[e].key
      PROVE  Running' = Running
  <2>1. \A k \in Key : Holds(e, k)' <=> Holds(e, k)
    BY <1>4
  <2>2. \A f \in Env, k \in Key : Holds(f, k)' <=> Holds(f, k)
    BY <1>1, <2>1
  <2> HIDE DEF Holds
  <2>3. \A k \in Key : {f \in Env : Holds(f, k)'} = {f \in Env : Holds(f, k)}
    BY <2>2
  <2>4. QED
    BY <1>2, <1>3, <2>3
<1>5. ASSUME NEW k \in Key, Executing(e), call[e].key = k, ~Executing(e)'
      PROVE  Running' = [Running EXCEPT ![k] = @ \ {e}]
  <2>1. \A j \in Key : ~Holds(e, j)' /\ (Holds(e, j) <=> j = k)
    BY <1>5
  <2> HIDE DEF Holds
  <2>2. \A j \in Key : {f \in Env : Holds(f, j)'} =
                       IF j = k THEN {f \in Env : Holds(f, j)} \ {e} ELSE {f \in Env : Holds(f, j)}
    BY <1>1, <2>1
  <2>3. QED
    BY <1>2, <1>3, <2>2
<1>6. ASSUME NEW k \in Key, ~Executing(e), Executing(e)', call'[e].key = k, Running[k] = {}
      PROVE  Running' = [Running EXCEPT ![k] = {e}]
  <2>1. \A j \in Key : ~Holds(e, j) /\ (Holds(e, j)' <=> j = k)
    BY <1>6
  <2> HIDE DEF Holds
  <2>2. {f \in Env : Holds(f, k)} = {}
    BY <1>2, <1>6
  <2>3. \A j \in Key : {f \in Env : Holds(f, j)'} =
                       IF j = k THEN {e} ELSE {f \in Env : Holds(f, j)}
    BY <1>1, <2>1, <2>2
  <2>4. QED
    BY <1>2, <1>3, <2>3
<1>7. QED
  BY <1>4, <1>5, <1>6

LEMMA InitContract == Init => Contract!Init
PROOF
  BY DEF Init, Contract!Init, Running, SavedResults, Replies, Executing

\* A step that the contract does not see.
LEMMA Unseen ==
  ASSUME NEW e \in Env, Elsewhere(e), now' = now, store' = store,
         Executing(e)' <=> Executing(e), Executing(e) => call'[e].key = call[e].key,
         ReplyTo(e)' = ReplyTo(e)
  PROVE  UNCHANGED Contract!vars
PROOF
<1>1. Running' = Running /\ Replies' = Replies /\ SavedResults' = SavedResults
  BY RunningStep, RepliesStep DEF SavedResults
<1>2. QED
  BY <1>1 DEF Contract!vars

\* A step of an environment touches no other invocation.
LEMMA StepElsewhere ==
  ASSUME TypeOK, NEW e \in Env, Begin(e) \/ LocalStep(e) \/ StoreStep(e) \/ Kill(e)
  PROVE  Elsewhere(e)
PROOF
  BY Types
  DEF Begin, LocalStep, SaveInProgress, GetCachedRecord, HandleForStatus, FunctionReturns,
      FunctionRaises, Finish, Kill, Reset, StoreStep, PutRecord, PutFails, GetRecord, GetFails,
      UpdateRecord, UpdateFails, DeleteRecord, DeleteFails, Found, Retry, Raise, Goto, Elsewhere

LEMMA StepOtherRecords ==
  ASSUME TypeOK, NEW e \in Env, Begin(e) \/ LocalStep(e) \/ StoreStep(e) \/ Kill(e)
  PROVE  now' = now /\ \A f \in Env \ {e} : rec'[f] = rec[f]
PROOF
  BY Types
  DEF Begin, LocalStep, SaveInProgress, GetCachedRecord, HandleForStatus, FunctionReturns,
      FunctionRaises, Finish, Kill, Reset, StoreStep, PutRecord, PutFails, GetRecord, GetFails,
      UpdateRecord, UpdateFails, DeleteRecord, DeleteFails, Found, Retry, Raise, Goto

LEMMA OutcomeBegins ==
  ASSUME TypeOK, NEW e \in Env, Begin(e)
  PROVE  OutcomeOK(e)'
PROOF
<1>1. /\ pc'[e] = "save"
      /\ call'[e].id = invocations + 1
  BY Types DEF Begin, Goto
<1>2. invocations + 1 \in 1..MaxInvocations
  BY Types, OptionAssumption DEF Begin
<1>3. QED
  BY <1>1, <1>2 DEF OutcomeOK

\* A step that neither begins an invocation nor leads to the end of its function.
LEMMA OutcomeElse ==
  ASSUME TypeOK, NEW e \in Env, OutcomeOK(e),
         pc'[e] \notin {"update", "delete"},
         Active(e)' => Active(e) /\ call'[e].id = call[e].id
  PROVE  OutcomeOK(e)'
PROOF
  BY DEF OutcomeOK

LEMMA OutcomeReturns ==
  ASSUME TypeOK, NothingFalsy, NEW e \in Env, OutcomeOK(e), FunctionReturns(e)
  PROVE  OutcomeOK(e)'
PROOF
<1>1. pc[e] = "run" /\ call' = call /\ now' = now /\ call[e].payload \in Payload
  BY Types DEF FunctionReturns, WellFormed, Active
<1>2. call[e].id \in 1..MaxInvocations
  BY <1>1 DEF OutcomeOK, Active
<1>3. PICK f \in Falsy :
        LET response == [by |-> call[e].id, payload |-> call[e].payload, falsy |-> f]
        IN  /\ out' = [out EXCEPT ![e] = [kind |-> "response", data |-> response]]
            /\ \/ Goto(e, "done")
               \/ /\ rec' = [rec EXCEPT ![e] = NewCompleted(e, response)]
                  /\ Goto(e, "update")
  BY DEF FunctionReturns
<1> DEFINE response == [by |-> call[e].id, payload |-> call[e].payload, falsy |-> f]
<1>4. response \in Responses /\ response.falsy = FALSE
  BY <1>1, <1>2, OptionAssumption DEF Responses, NothingFalsy
<1>5. /\ NewCompleted(e, response).status = "COMPLETED"
      /\ NewCompleted(e, response).data = response
      /\ NewCompleted(e, response).expiry = Second(now) + ExpiresAfter
  BY <1>4 DEF NewCompleted
<1>6. CASE Goto(e, "done")
  BY <1>1, <1>6, Types, OutcomeElse DEF Goto, Active
<1>7. CASE rec' = [rec EXCEPT ![e] = NewCompleted(e, response)] /\ Goto(e, "update")
  <2>1. /\ pc'[e] = "update"
        /\ rec'[e] = NewCompleted(e, response)
        /\ out'[e] = [kind |-> "response", data |-> response]
    BY <1>3, <1>7, Types DEF Goto
  <2>2. Second(now) + ExpiresAfter \in Nat
    BY SecondType, Types, TimeAssumption
  <2> HIDE DEF response
  <2>3. QED
    BY <1>1, <1>2, <1>4, <1>5, <2>1, <2>2 DEF OutcomeOK
<1>8. QED
  BY <1>3, <1>6, <1>7

LEMMA OutcomeRaises ==
  ASSUME TypeOK, NEW e \in Env, OutcomeOK(e), FunctionRaises(e)
  PROVE  OutcomeOK(e)'
PROOF
<1>1. /\ pc[e] = "run" /\ call' = call
      /\ pc'[e] \in {"done", "delete"}
      /\ out'[e].kind = "FunctionError"
  BY Types DEF FunctionRaises, Goto
<1>2. QED
  BY <1>1 DEF OutcomeOK, Active

LEMMA SaveKeepsId ==
  ASSUME TypeOK, NEW e \in Env, LocalStep(e) \/ StoreStep(e), ~Finish(e)
  PROVE  call'[e].id = call[e].id /\ Active(e)
PROOF
<1>1. ASSUME Retry(e) PROVE call'[e].id = call[e].id
  BY <1>1, Types DEF Retry, Call
<1>2. CASE SaveInProgress(e)
  BY <1>2, Types DEF SaveInProgress, Active, Call
<1>3. QED
  BY <1>1, <1>2
  DEF LocalStep, GetCachedRecord, HandleForStatus, FunctionReturns,
      FunctionRaises, StoreStep, PutRecord, PutFails, GetRecord, GetFails,
      UpdateRecord, UpdateFails, DeleteRecord, DeleteFails, Active

LEMMA SaveNeedsRun ==
  ASSUME TypeOK, NEW e \in Env, LocalStep(e) \/ StoreStep(e) \/ Kill(e),
         pc'[e] \in {"update", "delete"}
  PROVE  FunctionReturns(e) \/ FunctionRaises(e)
PROOF
  BY Types
  DEF LocalStep, SaveInProgress, GetCachedRecord, HandleForStatus,
      Finish, Kill, Reset, StoreStep, PutRecord, PutFails, GetRecord, GetFails,
      UpdateRecord, UpdateFails, DeleteRecord, DeleteFails, Found, Retry, Raise, Goto

LEMMA NextContract ==
  ASSUME LongWindow, NothingFalsy, ContractInv, [Next]_vars
  PROVE  ContractInv'
PROOF
<1>1. ResultInv' /\ TypeOK
  BY NextResult DEF ContractInv, ResultInv, LockInv
<1>2. ASSUME NEW f \in Env, pc'[f] = pc[f], call'[f] = call[f], out'[f] = out[f],
             rec'[f] = rec[f], now' = now \/ now' = now + 1
      PROVE  OutcomeOK(f)'
  <2>1. Second(now) <= Second(now') /\ Second(now) \in Nat /\ Second(now') \in Nat
    BY <1>1, <1>2, Types, SecondMonotonic, SecondType
  <2>2. OutcomeOK(f) /\ ExpiresAfter \in Nat
    BY TimeAssumption DEF ContractInv
  <2>3. pc[f] = "update" => rec[f].expiry \in Nat
    BY <1>1, Types DEF WellFormed, DataRecord
  <2>4. QED
    BY <1>2, <2>1, <2>2, <2>3 DEF OutcomeOK, Active
<1>3. ASSUME NEW e \in Env, Begin(e) \/ LocalStep(e) \/ StoreStep(e) \/ Kill(e),
             NEW f \in Env
      PROVE  OutcomeOK(f)'
  <2>1. CASE f # e
    BY <1>1, <1>2, <1>3, <2>1, StepElsewhere, StepOtherRecords DEF Elsewhere
  <2>2. CASE f = e /\ (Begin(e) \/ FunctionReturns(e) \/ FunctionRaises(e))
    BY <1>1, <2>2, OutcomeBegins, OutcomeReturns, OutcomeRaises DEF ContractInv
  <2>3. CASE f = e /\ (Finish(e) \/ Kill(e))
    <3>1. pc'[e] = "idle"
      BY <1>1, <2>3, Types DEF Finish, Kill, Reset, Goto
    <3>2. QED
      BY <1>1, <2>3, <3>1, OutcomeElse DEF ContractInv, Active
  <2>4. CASE /\ f = e /\ (LocalStep(e) \/ StoreStep(e)) /\ ~Finish(e)
             /\ ~FunctionReturns(e) /\ ~FunctionRaises(e)
    BY <1>1, <2>4, SaveKeepsId, SaveNeedsRun, OutcomeElse DEF ContractInv
  <2>5. QED
    BY <1>3, <2>1, <2>2, <2>3, <2>4
<1>4. ASSUME Tick \/ (\E j \in Key : ExpireItem(j)) \/ UNCHANGED vars, NEW f \in Env
      PROVE  OutcomeOK(f)'
  BY <1>2, <1>4 DEF Tick, ExpireItem, vars
<1>5. QED
  BY <1>1, <1>3, <1>4 DEF Next, ContractInv

\* What the store holds, as the contract sees it.
LEMMA SavedForms ==
  ASSUME NEW k \in Key
  PROVE  /\ SavedResults[k] = SavedResult(k)
         /\ store[k] # None /\ store[k].status = "COMPLETED"
              => SavedResult(k) = [data |-> store[k].data, until |-> store[k].expiry]
         /\ ~(store[k] # None /\ store[k].status = "COMPLETED") => SavedResult(k) = None
PROOF
  BY DEF SavedResults, SavedResult

\* A record that has outlived its expiry, or a lock, is no result.
LEMMA OverWhen ==
  ASSUME TypeOK, NEW k \in Key,
         store[k] = None \/ store[k].status # "COMPLETED" \/ IsExpired(store[k], now)
  PROVE  Contract!Over(k)
PROOF
  BY SavedForms DEF Contract!Over, IsExpired, Second

LEMMA PutMeansOver ==
  ASSUME LockInv, NEW e \in Env, pc[e] = "put", PutCondition(call[e].key, call[e].at)
  PROVE  /\ call[e].key \in Key
         /\ Contract!Over(call[e].key)
         /\ rec[e].status = "INPROGRESS"
PROOF
<1> DEFINE k == call[e].key
<1>1. TypeOK /\ k \in Key /\ rec[e].status = "INPROGRESS" /\ call[e].at <= now
  BY Types DEF LockInv, WellFormed, Prepared, Guards
<1>2. /\ Second(call[e].at) <= Second(now)
      /\ Second(call[e].at) \in Nat /\ Second(now) \in Nat
  BY <1>1, CallFields, Types, SecondMonotonic, SecondType
<1>3. store[k] # None => store[k].expiry \in Nat
  BY <1>1, Types DEF Caches, DataRecord
<1>4. store[k] = None \/ store[k].status # "COMPLETED" \/ IsExpired(store[k], now)
  BY <1>2, <1>3 DEF PutCondition, IsExpired
<1>5. QED
  BY <1>1, <1>4, OverWhen

\* The write of a lock, acknowledged or not.
LEMMA LockSaved ==
  ASSUME TypeOK, NEW e \in Env, call[e].key \in Key, rec[e].status = "INPROGRESS", WriteRec(e),
         call' = call
  PROVE  SavedResults' = [SavedResults EXCEPT ![call[e].key] = None]
PROOF
<1>1. /\ store'[call[e].key] = rec[e]
      /\ \A j \in Key \ {call[e].key} : store'[j] = store[j]
  BY Types DEF WriteRec, Caches
<1>2. SavedResult(call[e].key)' = None
  BY <1>1 DEF SavedResult
<1>3. QED
  BY <1>1, <1>2, SavedStep

LEMMA PutStarts ==
  ASSUME LockInv, NEW e \in Env, Elsewhere(e),
         pc[e] = "put", PutCondition(call[e].key, call[e].at), WriteRec(e),
         pc'[e] = "run", UNCHANGED <<now, call>>
  PROVE  Contract!Start(e, call[e].key)
PROOF
<1> DEFINE k == call[e].key
<1>1. TypeOK /\ k \in Key /\ Contract!Over(k) /\ rec[e].status = "INPROGRESS"
  BY PutMeansOver DEF LockInv
<1>2. Running[k] = {}
  BY <1>1, Acquire DEF Running, Executing
<1>3. Running' = [Running EXCEPT ![k] = {e}]
  BY <1>1, <1>2, RunningStep, KeyAssumption DEF Executing
<1>4. Replies' = Replies
  BY RepliesStep DEF ReplyTo
<1>5. SavedResults' = [SavedResults EXCEPT ![k] = None]
  BY <1>1, LockSaved
<1>6. QED
  BY <1>1, <1>2, <1>3, <1>4, <1>5 DEF Contract!Start

LEMMA PutUnseenForgets ==
  ASSUME LockInv, NEW e \in Env, Elsewhere(e),
         pc[e] = "put", PutCondition(call[e].key, call[e].at), WriteRec(e),
         pc'[e] = "done", out'[e].kind # "response", UNCHANGED <<now, call>>
  PROVE  Contract!Forget(call[e].key)
PROOF
<1> DEFINE k == call[e].key
<1>1. TypeOK /\ k \in Key /\ Contract!Over(k) /\ rec[e].status = "INPROGRESS"
  BY PutMeansOver DEF LockInv
<1>2. Running' = Running
  BY RunningStep DEF Executing
<1>3. Replies' = Replies
  BY RepliesStep DEF ReplyTo
<1>4. SavedResults' = [SavedResults EXCEPT ![k] = None]
  BY <1>1, LockSaved
<1>5. QED
  BY <1>1, <1>2, <1>3, <1>4 DEF Contract!Forget

\* The record of an owner is its lock, and no result.
LEMMA OwnerHasNone ==
  ASSUME LockInv, NEW e \in Env, Executing(e)
  PROVE  call[e].key \in Key /\ SavedResults[call[e].key] = None /\ e \in Running[call[e].key]
PROOF
<1>1. call[e].key \in Key /\ Owns(e)
  BY OwnerKey DEF LockInv
<1>2. store[call[e].key].status # "COMPLETED"
  BY <1>1 DEF Owns, Guards
<1>3. QED
  BY <1>1, <1>2, SavedForms DEF Running

\* An owner ends and leaves no result: its function raised, it died, or its
\* update failed and was not applied.
LEMMA OwnerAbandons ==
  ASSUME LockInv, NEW e \in Env, Elsewhere(e), Executing(e), ~Executing(e)',
         ReplyTo(e)' = ReplyTo(e), now' = now,
         store' = store \/ ApplyDelete(e)
  PROVE  Contract!Abandon(e, call[e].key)
PROOF
<1> PICK k : k = call[e].key
  OBVIOUS
<1>1. k \in Key /\ SavedResults[k] = None /\ e \in Running[k] /\ TypeOK
  BY OwnerHasNone DEF LockInv
<1>2. Running' = [Running EXCEPT ![k] = @ \ {e}]
  BY <1>1, RunningStep
<1>3. Replies' = Replies
  BY RepliesStep
<1>4. SavedResults' = SavedResults
  <2>1. CASE store' = store
    BY <2>1 DEF SavedResults
  <2>2. CASE ApplyDelete(e)
    <3>1. store'[k] = None /\ \A j \in Key \ {k} : store'[j] = store[j]
      BY <1>1, <2>2, Types DEF ApplyDelete, Caches
    <3>2. SavedResult(k)' = None /\ SavedResult(k) = None
      BY <1>1, <3>1, SavedForms DEF SavedResult
    <3>3. QED
      BY <1>1, <3>1, <3>2, SavedStep
  <2>3. QED
    BY <2>1, <2>2
<1>5. QED
  BY <1>1, <1>2, <1>3, <1>4 DEF Contract!Abandon

\* An owner's result is saved; the caller hears of it, or of a failure.
LEMMA OwnerCompletes ==
  ASSUME ContractInv, NEW e \in Env, Elsewhere(e),
         pc[e] = "update", pc'[e] = "done", ApplyUpdate(e), UNCHANGED <<now, call>>,
         out'[e] = out[e] \/ out'[e].kind # "response"
  PROVE  Contract!Complete(e, call[e].key)
PROOF
<1> DEFINE k == call[e].key
           r == rec[e].data
<1>1. LockInv /\ TypeOK /\ OutcomeOK(e)
  BY DEF ContractInv, ResultInv, LockInv
<1>2. Executing(e) /\ ~Executing(e)'
  BY <1>1, Types, KeyAssumption DEF WellFormed, Executing
<1>3. k \in Key /\ e \in Running[k]
  BY <1>1, <1>2, OwnerHasNone
<1>4. Running' = [Running EXCEPT ![k] = @ \ {e}]
  BY <1>2, <1>3, RunningStep
<1>5. /\ r \in Responses
      /\ rec[e].expiry \in 0..(Second(now) + ExpiresAfter)
      /\ rec[e].status = "COMPLETED"
      /\ out[e] = [kind |-> "response", data |-> r]
      /\ rec[e] \in DataRecord
  <2>1. rec[e] \in DataRecord /\ Second(now) \in Nat /\ ExpiresAfter \in Nat
    BY <1>1, Types, SecondType, TimeAssumption DEF WellFormed
  <2>2. rec[e].expiry \in Nat
    BY <2>1 DEF DataRecord
  <2>3. QED
    BY <1>1, <2>1, <2>2 DEF OutcomeOK
<1>6. SavedResults' = [SavedResults EXCEPT ![k] = [data |-> r, until |-> rec[e].expiry]]
  <2>1. /\ store'[k] = Updated(store[k], rec[e])
        /\ \A j \in Key \ {k} : store'[j] = store[j]
        /\ store[k] \in DataRecord \cup {None}
    BY <1>1, <1>3, Types DEF ApplyUpdate, Caches
  <2>2. /\ store'[k] \in DataRecord
        /\ store'[k].status = "COMPLETED"
        /\ store'[k].data = r
        /\ store'[k].expiry = rec[e].expiry
    BY <1>5, <2>1, UpdatedRecord
  <2>3. SavedResult(k)' = [data |-> r, until |-> rec[e].expiry]
    BY <2>2, RecordAssumption DEF SavedResult
  <2>4. QED
    BY <1>3, <2>1, <2>3, SavedStep
<1>7. Replies' \in {Replies, [Replies EXCEPT ![e] = r]}
  <2>1. CASE out'[e] = out[e]
    <3>1. ReplyTo(e)' = r
      BY <1>2, <1>5, <2>1 DEF ReplyTo, Executing
    <3>2. QED
      BY <3>1, RepliesStep
  <2>2. CASE out'[e].kind # "response"
    <3>1. ReplyTo(e)' = ReplyTo(e)
      BY <2>2 DEF ReplyTo
    <3>2. QED
      BY <3>1, RepliesStep
  <2>3. QED
    BY <2>1, <2>2
<1>8. QED
  BY <1>3, <1>4, <1>5, <1>6, <1>7 DEF Contract!Complete, Responses, Second

\* The steps of an environment, one after the other.
LEMMA BeginsUnseen ==
  ASSUME TypeOK, NEW e \in Env, Begin(e)
  PROVE  UNCHANGED Contract!vars
PROOF
<1>1. /\ pc[e] = "idle" /\ pc'[e] = "save" /\ now' = now /\ store' = store
      /\ Elsewhere(e)
  BY Types, StepElsewhere DEF Begin, Goto
<1>2. QED
  BY <1>1, Unseen DEF Executing, ReplyTo

\* Reading records and retrying, before the outcome of the call is known.
LEMMA LooksUnseen ==
  ASSUME TypeOK, NEW e \in Env, Elsewhere(e), now' = now, store' = store,
         pc[e] \in {"save", "put", "get", "handle"},
         \/ pc'[e] \in {"save", "put", "get", "handle"}
         \/ pc'[e] = "done" /\ out'[e].kind # "response"
         \/ pc'[e] = "run" /\ call'[e].key = NoKey
  PROVE  UNCHANGED Contract!vars
PROOF
  BY Unseen DEF Executing, ReplyTo

LEMMA FindsAs ==
  ASSUME TypeOK, NEW e \in Env, NEW c, NEW r, Found(e, c, r)
  PROVE  pc'[e] = "handle" \/ (pc'[e] = "done" /\ out'[e].kind # "response")
PROOF
  BY RaisesAs, Types DEF Found, Goto

LEMMA ReadsUnseen ==
  ASSUME TypeOK, NEW e \in Env,
         \/ SaveInProgress(e) \/ GetCachedRecord(e) \/ GetRecord(e) \/ GetFails(e)
         \/ PutRecord(e) /\ store' = store /\ pc'[e] # "run"
         \/ PutFails(e) /\ store' = store
         \/ HandleForStatus(e) /\ Status(rec[e], now) # "COMPLETED"
  PROVE  UNCHANGED Contract!vars
PROOF
<1>1. Elsewhere(e) /\ now' = now
  BY StepElsewhere, StepOtherRecords DEF LocalStep, StoreStep
<1>2. CASE SaveInProgress(e)
  <2>1. \/ Raise(e, "KeyError")
        \/ call[e].key = NoKey /\ Goto(e, "run") /\ call' = call
        \/ Goto(e, "get")
        \/ Goto(e, "put")
    BY <1>2 DEF SaveInProgress
  <2>2. \/ pc'[e] \in {"save", "put", "get", "handle"}
        \/ pc'[e] = "done" /\ out'[e].kind # "response"
        \/ pc'[e] = "run" /\ call'[e].key = NoKey
    BY <2>1, RaisesAs, Types DEF Goto
  <2>3. QED
    BY <1>1, <1>2, <2>2, LooksUnseen DEF SaveInProgress
<1>3. CASE GetCachedRecord(e)
  <2>1. pc'[e] = "handle" \/ (pc'[e] = "done" /\ out'[e].kind # "response")
    BY <1>3, RaisesAs, Types DEF GetCachedRecord, Goto
  <2>2. QED
    BY <1>1, <1>3, <2>1, LooksUnseen DEF GetCachedRecord
<1>4. CASE GetRecord(e)
  <2>1. pc'[e] \in {"save", "handle"} \/ (pc'[e] = "done" /\ out'[e].kind # "response")
    BY <1>4, RetriesAs, FindsAs DEF GetRecord
  <2>2. QED
    BY <1>1, <1>4, <2>1, LooksUnseen DEF GetRecord
<1>5. CASE GetFails(e)
  BY <1>1, <1>5, RaisesAs, LooksUnseen DEF GetFails
<1>6. CASE PutRecord(e) /\ store' = store /\ pc'[e] # "run"
  <2>1. pc'[e] \in {"get", "handle"} \/ (pc'[e] = "done" /\ out'[e].kind # "response")
    BY <1>6, FindsAs, Types DEF PutRecord, Goto
  <2>2. QED
    BY <1>1, <1>6, <2>1, LooksUnseen DEF PutRecord
<1>7. CASE PutFails(e) /\ store' = store
  BY <1>1, <1>7, RaisesAs, LooksUnseen DEF PutFails
<1>8. CASE HandleForStatus(e) /\ Status(rec[e], now) # "COMPLETED"
  <2>1. Retry(e) \/ Raise(e, "AlreadyInProgress")
    BY <1>8 DEF HandleForStatus
  <2>2. pc'[e] = "save" \/ (pc'[e] = "done" /\ out'[e].kind # "response")
    BY <2>1, RetriesAs, RaisesAs
  <2>3. QED
    BY <1>1, <1>8, <2>2, LooksUnseen DEF HandleForStatus
<1>9. QED
  BY <1>2, <1>3, <1>4, <1>5, <1>6, <1>7, <1>8

\* The result that is replayed is the saved one.
LEMMA HandleReplays ==
  ASSUME ResultInv, NEW e \in Env, HandleForStatus(e), Status(rec[e], now) = "COMPLETED"
  PROVE  Contract!Replay(e, call[e].key)
PROOF
<1> DEFINE k == call[e].key
<1>1. TypeOK /\ pc[e] = "handle" /\ k \in Key /\ rec[e] \in DataRecord /\ Elsewhere(e)
  BY Types, StepElsewhere DEF ResultInv, LockInv, HandleForStatus, WellFormed, LocalStep
<1>2. Current(k, rec[e]) /\ ~IsExpired(rec[e], now)
  BY <1>1 DEF ResultInv, HandlesOK, Status
<1>3. SavedResults[k] = [data |-> rec[e].data, until |-> rec[e].expiry]
  BY <1>1, <1>2, SavedForms DEF Current, StoredResult
<1>4. ~Contract!Over(k)
  <2>1. rec[e].expiry \in Nat /\ rec[e].data \in Result \cup {None}
    BY <1>1 DEF DataRecord
  <2>2. [data |-> rec[e].data, until |-> rec[e].expiry] # None
    BY <2>1, RecordAssumption
  <2>3. QED
    BY <1>2, <1>3, <2>2 DEF Contract!Over, IsExpired, Second
<1>5. /\ pc'[e] = "done" /\ out'[e] = [kind |-> "response", data |-> rec[e].data]
      /\ UNCHANGED <<now, store, call>>
  BY <1>1, Types DEF HandleForStatus, Status, Raise, Goto, Retry
<1>6. Running' = Running
  BY <1>1, <1>5, RunningStep DEF Executing
<1>7. Replies' = [Replies EXCEPT ![e] = rec[e].data]
  <2>1. ReplyTo(e)' = rec[e].data
    BY <1>1, <1>5, KeyAssumption DEF ReplyTo
  <2>2. QED
    BY <1>1, <2>1, RepliesStep
<1>8. SavedResults' = SavedResults
  BY <1>5 DEF SavedResults
<1>9. QED
  BY <1>3, <1>4, <1>5, <1>6, <1>7, <1>8 DEF Contract!Replay

LEMMA FunctionUnseen ==
  ASSUME TypeOK, NEW e \in Env, FunctionReturns(e) \/ FunctionRaises(e)
  PROVE  UNCHANGED Contract!vars
PROOF
<1>1. /\ pc[e] = "run" /\ UNCHANGED <<now, store, call>> /\ Elsewhere(e)
      /\ \/ pc'[e] = "done" /\ call[e].key = NoKey
         \/ pc'[e] \in {"update", "delete"} /\ call[e].key # NoKey
  BY Types, StepElsewhere DEF FunctionReturns, FunctionRaises, Goto, LocalStep
<1>2. QED
  BY <1>1, Unseen DEF Executing, ReplyTo

\* The end of an invocation, delivered or not.
LEMMA ResetSeen ==
  ASSUME LockInv, NEW e \in Env, Reset(e)
  PROVE  Contract!Next
PROOF
<1>1. /\ pc'[e] = "idle" /\ UNCHANGED <<now, store>> /\ TypeOK /\ Elsewhere(e)
  BY Types DEF Reset, Goto, LockInv, Elsewhere
<1>2. ReplyTo(e)' = None /\ ~Executing(e)'
  BY <1>1 DEF ReplyTo, Executing
<1>3. CASE Executing(e)
  <2>1. ReplyTo(e) = None
    BY <1>3 DEF ReplyTo, Executing
  <2>2. Contract!Abandon(e, call[e].key) /\ call[e].key \in Key
    BY <1>1, <1>2, <1>3, <2>1, OwnerAbandons, OwnerHasNone
  <2>3. QED
    BY <2>2 DEF Contract!Next
<1>4. CASE ~Executing(e)
  <2>1. /\ Running' = Running
        /\ Replies' = [Replies EXCEPT ![e] = None]
        /\ SavedResults' = SavedResults
    BY <1>1, <1>2, <1>4, RunningStep, RepliesStep DEF SavedResults
  <2>2. Contract!Collect(e)
    BY <1>1, <2>1 DEF Contract!Collect
  <2>3. QED
    BY <2>2 DEF Contract!Next
<1>5. QED
  BY <1>3, <1>4

LEMMA ReleaseSeen ==
  ASSUME ContractInv, NEW e \in Env,
         UpdateRecord(e) \/ UpdateFails(e) \/ DeleteRecord(e) \/ DeleteFails(e)
  PROVE  Contract!Next
PROOF
<1>1. LockInv /\ TypeOK /\ OutcomeOK(e) /\ Elsewhere(e)
  BY StepElsewhere DEF ContractInv, ResultInv, LockInv, StoreStep
<1>2. /\ pc[e] \in {"update", "delete"}
      /\ UNCHANGED <<now, call>>
      /\ pc'[e] = "done"
      /\ out'[e] = out[e] \/ out'[e].kind # "response"
  BY <1>1, Types, RaisesAs DEF UpdateRecord, UpdateFails, DeleteRecord, DeleteFails, Goto
<1>3. Executing(e) /\ ~Executing(e)' /\ call[e].key \in Key
  BY <1>1, <1>2, Types, KeyAssumption DEF Executing, WellFormed
<1>4. CASE pc[e] = "update" /\ ApplyUpdate(e)
  <2>1. Contract!Complete(e, call[e].key)
    BY <1>1, <1>2, <1>4, OwnerCompletes
  <2>2. QED
    BY <1>3, <2>1 DEF Contract!Next
<1>5. CASE \/ pc[e] = "update" /\ store' = store /\ out'[e].kind # "response"
           \/ pc[e] = "delete" /\ (store' = store \/ ApplyDelete(e))
  <2>1. ReplyTo(e)' = ReplyTo(e)
    BY <1>1, <1>2, <1>5 DEF ReplyTo, OutcomeOK
  <2>2. Contract!Abandon(e, call[e].key)
    BY <1>1, <1>2, <1>3, <1>5, <2>1, OwnerAbandons
  <2>3. QED
    BY <1>3, <2>2 DEF Contract!Next
<1>6. QED
  <2>1. UpdateFails(e) => out'[e].kind # "response"
    BY <1>1, RaisesAs DEF UpdateFails
  <2>2. QED
    BY <1>4, <1>5, <2>1 DEF UpdateRecord, UpdateFails, DeleteRecord, DeleteFails

LEMMA PutSeen ==
  ASSUME LockInv, NEW e \in Env, PutRecord(e) \/ PutFails(e)
  PROVE  Contract!Next \/ UNCHANGED Contract!vars
PROOF
<1>1. TypeOK /\ Elsewhere(e) /\ pc[e] = "put" /\ UNCHANGED <<now, call>>
  BY StepElsewhere DEF LockInv, StoreStep, PutRecord, PutFails
<1>2. CASE PutCondition(call[e].key, call[e].at) /\ WriteRec(e) /\ Goto(e, "run")
  <2>1. pc'[e] = "run"
    BY <1>1, <1>2, Types DEF Goto
  <2>2. Contract!Start(e, call[e].key) /\ call[e].key \in Key
    BY <1>1, <1>2, <2>1, PutStarts, PutMeansOver
  <2>3. QED
    BY <2>2 DEF Contract!Next
<1>3. CASE PutCondition(call[e].key, call[e].at) /\ WriteRec(e) /\ PutFails(e)
  <2>1. pc'[e] = "done" /\ out'[e].kind # "response"
    BY <1>1, <1>3, RaisesAs DEF PutFails
  <2>2. Contract!Forget(call[e].key) /\ call[e].key \in Key
    BY <1>1, <1>3, <2>1, PutUnseenForgets, PutMeansOver
  <2>3. QED
    BY <2>2 DEF Contract!Next
<1>4. CASE PutRecord(e) /\ ~PutCondition(call[e].key, call[e].at)
  <2>1. pc'[e] # "run" /\ store' = store
    BY <1>1, <1>4, FindsAs, Types DEF PutRecord, Goto
  <2>2. QED
    BY <1>1, <1>4, <2>1, ReadsUnseen
<1>5. CASE PutFails(e) /\ store' = store
  BY <1>1, <1>5, ReadsUnseen
<1>6. QED
  BY <1>2, <1>3, <1>4, <1>5 DEF PutRecord, PutFails

LEMMA ExpirySeen ==
  ASSUME TypeOK, NEW k \in Key, ExpireItem(k)
  PROVE  Contract!Forget(k)
PROOF
<1>1. Contract!Over(k)
  BY OverWhen DEF ExpireItem
<1>2. Running' = Running /\ Replies' = Replies
  BY DEF ExpireItem, Running, Executing, Replies
<1>3. SavedResults' = [SavedResults EXCEPT ![k] = None]
  <2>1. store'[k] = None /\ \A j \in Key \ {k} : store'[j] = store[j]
    BY Types DEF ExpireItem, Caches
  <2>2. SavedResult(k)' = None
    BY <2>1 DEF SavedResult
  <2>3. QED
    BY <2>1, <2>2, SavedStep
<1>4. QED
  BY <1>1, <1>2, <1>3 DEF Contract!Forget, ExpireItem

LEMMA StepContract ==
  ASSUME ContractInv, [Next]_vars
  PROVE  Contract!Next \/ UNCHANGED Contract!vars
PROOF
<1>1. ResultInv /\ LockInv /\ TypeOK
  BY DEF ContractInv, ResultInv, LockInv
<1>2. ASSUME NEW e \in Env, Begin(e) PROVE UNCHANGED Contract!vars
  BY <1>1, <1>2, BeginsUnseen
<1>3. ASSUME NEW e \in Env, LocalStep(e)
      PROVE  Contract!Next \/ UNCHANGED Contract!vars
  <2>1. CASE HandleForStatus(e) /\ Status(rec[e], now) = "COMPLETED"
    <3>1. Contract!Replay(e, call[e].key) /\ call[e].key \in Key
      BY <1>1, <2>1, HandleReplays, Types DEF HandleForStatus, WellFormed
    <3>2. QED
      BY <3>1 DEF Contract!Next
  <2>2. CASE Finish(e)
    BY <1>1, <2>2, ResetSeen DEF Finish
  <2>3. QED
    BY <1>1, <1>3, <2>1, <2>2, ReadsUnseen, FunctionUnseen DEF LocalStep
<1>4. ASSUME NEW e \in Env, StoreStep(e)
      PROVE  Contract!Next \/ UNCHANGED Contract!vars
  BY <1>1, <1>4, PutSeen, ReadsUnseen, ReleaseSeen DEF StoreStep
<1>5. ASSUME NEW e \in Env, Kill(e) PROVE Contract!Next
  BY <1>1, <1>5, ResetSeen DEF Kill
<1>6. ASSUME NEW k \in Key, ExpireItem(k) PROVE Contract!Next
  BY <1>1, <1>6, ExpirySeen DEF Contract!Next
<1>7. CASE Tick
  <2>1. Running' = Running /\ Replies' = Replies /\ SavedResults' = SavedResults
    BY <1>7 DEF Tick, Running, Executing, Replies, SavedResults
  <2>2. QED
    BY <1>7, <2>1 DEF Tick, Contract!Tick, Contract!Next
<1>8. CASE UNCHANGED vars
  BY <1>8 DEF vars, Contract!vars, Running, Executing, Replies, SavedResults
<1>9. QED
  BY <1>2, <1>3, <1>4, <1>5, <1>6, <1>7, <1>8 DEF Next

\* Whatever fails, dies or expires, every behaviour of handlers, caches and store
\* is one the contract allows: one execution at a time and none while a result
\* is saved, and every other caller gets the result that is saved then.
THEOREM ContractHolds ==
  ASSUME LongWindow, NothingFalsy
  PROVE  Spec => ImplementsContract
PROOF
<1>1. Init => ContractInv
  BY InitResult DEF Init, ContractInv, OutcomeOK, Active
<1>2. ContractInv /\ [Next]_vars => ContractInv'
  BY NextContract
<1>3. ContractInv /\ [Next]_vars => [Contract!Next]_(Contract!vars)
  BY StepContract
<1>4. QED
  BY <1>1, <1>2, <1>3, InitContract, PTL DEF Spec, ImplementsContract, Contract!Spec

------------------------------------------------------------------------------
(* The retries. An attempt is lost only when the clock has moved since it began. *)

CachedCompleted ==
  \A e \in Env, k \in Key :
    cache[e][k] # None /\ ~IsExpired(cache[e][k], now) => cache[e][k].status = "COMPLETED"

\* What holds of the attempt of e if its invocation began at b.
Attempt(e, b) ==
  LET t == b + call[e].tries
  IN  /\ b \in Nat
      /\ t <= now
      /\ pc[e] = "put" => t <= call[e].at
      /\ pc[e] = "get" => t < now \/ Cached(e, call[e].key) # None
      /\ pc[e] = "handle" =>
           \/ t < now
           \/ /\ Second(t) <= rec[e].expiry
              /\ rec[e].status = "INPROGRESS" /\ rec[e].inprog # None => t <= rec[e].inprog

Overrun(e, b) == b + MAX_RETRIES < now

Attempted(e) ==
  /\ pc[e] = "idle" => out[e].kind # "InconsistentState"
  /\ Active(e) => \E r \in Remaining : Attempt(e, call[e].deadline - r)
  /\ out[e].kind = "InconsistentState" => \E r \in Remaining : Overrun(e, call[e].deadline - r)

RetryInv ==
  /\ TypeOK
  /\ CachedCompleted
  /\ \A e \in Env : Attempted(e)

LEMMA CachesStayCompleted ==
  ASSUME TypeOK, CachedCompleted, [Next]_vars, TypeOK'
  PROVE  CachedCompleted'
PROOF
<1> SUFFICES ASSUME NEW f \in Env, NEW k \in Key, cache'[f][k] # None,
                    ~IsExpired(cache'[f][k], now')
             PROVE  cache'[f][k].status = "COMPLETED"
  BY DEF CachedCompleted
<1> DEFINE r == cache'[f][k]
<1>1. r \in DataRecord
  BY DEF TypeOK, TypeOKWith
<1>2. CASE r = cache[f][k]
  BY <1>1, <1>2, ExpiredStays DEF CachedCompleted
<1>3. CASE Saved(f, k)
  <2>1. Status(r, now) = r.status
    BY <1>3 DEF Saved, Status
  <2>2. QED
    BY <1>1, <1>3, <2>1 DEF Saved, DataRecord
<1>4. QED
  BY <1>2, <1>3, NextCacheStep DEF CacheStep

LEMMA Attempts ==
  ASSUME TypeOK, NEW e \in Env, NEW b, Attempt(e, b)
  PROVE  /\ b \in Nat /\ now \in Nat /\ call[e].at \in Nat
         /\ call[e].tries \in 0..2
         /\ b + call[e].tries \in Nat
         /\ b + call[e].tries <= now
PROOF
  BY Types DEF Attempt, Call, MAX_RETRIES

\* An attempt that ends after the moment it began at leads to the next one.
LEMMA RetryLater ==
  ASSUME TypeOK, NEW e \in Env, NEW b, Attempt(e, b), b + call[e].tries < now,
         Retry(e), now' = now
  PROVE  /\ Active(e)' => Attempt(e, b)'
         /\ out'[e] = out[e] \/ Overrun(e, b)'
         /\ call'[e].deadline = call[e].deadline
PROOF
<1>1. b \in Nat /\ now \in Nat /\ call[e].tries \in 0..2
  BY Attempts
<1>2. CASE call[e].tries = MAX_RETRIES
  <2>1. pc'[e] = "done" /\ call' = call
    BY <1>2, RaisesAs DEF Retry
  <2>2. QED
    BY <1>1, <1>2, <2>1 DEF Active, Overrun
<1>3. CASE call[e].tries # MAX_RETRIES
  <2>1. /\ pc'[e] = "save" /\ out' = out
        /\ call'[e].tries = call[e].tries + 1
        /\ call'[e].deadline = call[e].deadline
    BY <1>3, Types DEF Retry, Goto, Call
  <2>2. QED
    BY <1>1, <2>1 DEF Attempt
<1>4. QED
  BY <1>2, <1>3

\* A record that the handler gives up has gone stale since t.
LEMMA StaleLater ==
  ASSUME TypeOK, NEW e \in Env, NEW b, Attempt(e, b), pc[e] = "handle",
         \/ Status(rec[e], now) = "EXPIRED"
         \/ Status(rec[e], now) = "INPROGRESS" /\ TimedOut(rec[e])
  PROVE  b + call[e].tries < now
PROOF
<1> DEFINE t == b + call[e].tries
<1>1. t \in Nat /\ now \in Nat /\ t <= now /\ rec[e] \in DataRecord
  BY Attempts, Types DEF WellFormed
<1>2. Second(t) \in Nat /\ Second(now) \in Nat /\ (now <= t => Second(now) <= Second(t))
  BY <1>1, SecondType, SecondMonotonic
<1>3. rec[e].expiry \in Nat /\ rec[e].inprog \in Nat \cup {None} /\ rec[e].status # "EXPIRED"
  BY <1>1 DEF DataRecord
<1> SUFFICES ASSUME ~(t < now) PROVE FALSE
  BY <1>1
<1>4. /\ Second(t) <= rec[e].expiry
      /\ rec[e].status = "INPROGRESS" /\ rec[e].inprog # None => t <= rec[e].inprog
  BY DEF Attempt
<1>5. ~IsExpired(rec[e], now)
  BY <1>1, <1>2, <1>3, <1>4 DEF IsExpired
<1>6. QED
  BY <1>1, <1>3, <1>4, <1>5 DEF Status, TimedOut

\* The record of a put that failed is not stale yet.
LEMMA RefusedPutLater ==
  ASSUME TypeOK, NEW e \in Env, NEW b, Attempt(e, b), pc[e] = "put",
         ~PutCondition(call[e].key, call[e].at)
  PROVE  LET t == b + call[e].tries
             r == store[call[e].key]
         IN  /\ Second(t) <= r.expiry
             /\ r.status = "INPROGRESS" /\ r.inprog # None => t <= r.inprog
PROOF
<1> DEFINE t == b + call[e].tries
           r == store[call[e].key]
<1>1. t \in Nat /\ call[e].at \in Nat /\ t <= call[e].at
  BY Attempts DEF Attempt
<1>2. call[e].key \in Key /\ r # None
  BY Types DEF WellFormed, PutCondition
<1>3. r.expiry \in Nat /\ r.inprog \in Nat \cup {None}
  BY <1>2, Types DEF Caches, DataRecord
<1>4. /\ Second(t) <= Second(call[e].at)
      /\ Second(t) \in Nat /\ Second(call[e].at) \in Nat
  BY <1>1, SecondType, SecondMonotonic
<1>5. QED
  BY <1>1, <1>3, <1>4 DEF PutCondition

\* A step of an attempt: it goes on, or a retry is due to the passing of time.
Goes(e, b) ==
  /\ Active(e)' => Attempt(e, b)'
  /\ out'[e].kind = "InconsistentState" => out'[e] = out[e] \/ Overrun(e, b)'
  /\ call'[e].deadline = call[e].deadline

LEMMA EndsWell ==
  ASSUME NEW e \in Env, NEW b, pc'[e] = "done", call'[e] = call[e],
         out'[e] = out[e] \/ out'[e].kind # "InconsistentState"
  PROVE  Goes(e, b)
PROOF
  BY DEF Goes, Active

LEMMA FindsLater ==
  ASSUME TypeOK, NEW e \in Env, NEW b, Attempt(e, b), NEW c, NEW r, Found(e, c, r),
         call' = call, now' = now,
         LET t == b + call[e].tries
         IN  \/ t < now
             \/ /\ Second(t) <= r.expiry
                /\ r.status = "INPROGRESS" /\ r.inprog # None => t <= r.inprog
  PROVE  Goes(e, b)
PROOF
<1>1. CASE Raise(e, "ValidationError")
  BY <1>1, RaisesAs, EndsWell
<1>2. CASE Goto(e, "handle") /\ rec' = [rec EXCEPT ![e] = r] /\ out' = out
  <2>1. pc'[e] = "handle" /\ rec'[e] = r
    BY <1>2, Types DEF Goto
  <2>2. QED
    BY <1>2, <2>1 DEF Attempt, Goes
<1>3. QED
  BY <1>1, <1>2 DEF Found

LEMMA SaveGoes ==
  ASSUME TypeOK, NEW e \in Env, NEW b, Attempt(e, b), SaveInProgress(e)
  PROVE  Goes(e, b)
PROOF
<1>1. now' = now /\ call[e] \in Call /\ now \in Nat
  BY Types DEF SaveInProgress
<1>2. CASE Raise(e, "KeyError") /\ call' = call
  BY <1>2, RaisesAs, EndsWell
<1>3. CASE Goto(e, "run") /\ UNCHANGED <<call, out>>
  BY <1>1, <1>3, Types DEF Goto, Attempt, Goes
<1>4. CASE /\ Goto(e, "get") /\ UNCHANGED <<call, out>>
           /\ Cached(e, call[e].key) # None
           /\ cache' = [cache EXCEPT ![e] = Purged(e, call[e].key)]
  <2>1. cache'[e] = cache[e] /\ pc'[e] = "get"
    BY <1>4, Types DEF Purged, Goto
  <2>2. Cached(e, call[e].key)' # None
    BY <1>1, <1>4, <2>1 DEF Cached, IsExpired, Second
  <2>3. QED
    BY <1>1, <1>4, <2>1, <2>2 DEF Attempt, Goes
<1>5. CASE Goto(e, "put") /\ call' = [call EXCEPT ![e].at = now] /\ out' = out
  <2>1. /\ pc'[e] = "put"
        /\ call'[e].at = now /\ call'[e].tries = call[e].tries
        /\ call'[e].deadline = call[e].deadline
    BY <1>1, <1>5, Types DEF Goto, Call
  <2>2. QED
    BY <1>1, <1>5, <2>1 DEF Attempt, Goes
<1>6. QED
  BY <1>2, <1>3, <1>4, <1>5 DEF SaveInProgress

LEMMA GetCachedGoes ==
  ASSUME TypeOK, CachedCompleted, NEW e \in Env, NEW b, Attempt(e, b), GetCachedRecord(e)
  PROVE  Goes(e, b)
PROOF
<1> DEFINE r == Cached(e, call[e].key)
           t == b + call[e].tries
<1>1. now' = now /\ call' = call /\ call[e].key \in Key
  BY Types DEF GetCachedRecord, WellFormed
<1>2. CASE Raise(e, "ValidationError")
  BY <1>1, <1>2, RaisesAs, EndsWell
<1>3. CASE rec' = [rec EXCEPT ![e] = r] /\ Goto(e, "handle") /\ out' = out /\ r # None
  <2>1. r = cache[e][call[e].key] /\ ~IsExpired(r, now)
    BY <1>3 DEF Cached
  <2>2. r.status = "COMPLETED" /\ r \in DataRecord
    BY <1>1, <1>3, <2>1, Types DEF CachedCompleted, Caches
  <2>3. t \in Nat /\ now \in Nat /\ t <= now
    BY Attempts
  <2>4. Second(t) <= Second(now) /\ Second(t) \in Nat /\ Second(now) \in Nat
    BY <2>3, SecondType, SecondMonotonic
  <2>5. Second(t) <= r.expiry
    BY <2>1, <2>2, <2>4 DEF IsExpired, DataRecord
  <2>6. pc'[e] = "handle" /\ rec'[e] = r
    BY <1>3, Types DEF Goto
  <2> HIDE DEF r
  <2>7. QED
    BY <1>1, <1>3, <2>2, <2>5, <2>6 DEF Attempt, Goes
<1>4. QED
  BY <1>2, <1>3 DEF GetCachedRecord

LEMMA HandleGoes ==
  ASSUME TypeOK, NEW e \in Env, NEW b, Attempt(e, b), HandleForStatus(e)
  PROVE  Goes(e, b)
PROOF
<1>1. pc[e] = "handle" /\ now' = now
  BY DEF HandleForStatus
<1>2. CASE /\ Retry(e)
           /\ \/ Status(rec[e], now) = "EXPIRED"
              \/ Status(rec[e], now) = "INPROGRESS" /\ TimedOut(rec[e])
  BY <1>1, <1>2, StaleLater, RetryLater DEF Goes
<1>3. CASE Raise(e, "AlreadyInProgress") /\ call' = call
  BY <1>3, RaisesAs, EndsWell
<1>4. CASE /\ out' = [out EXCEPT ![e] = [kind |-> "response", data |-> rec[e].data]]
           /\ Goto(e, "done") /\ call' = call
  <2>1. pc'[e] = "done" /\ out'[e].kind = "response"
    BY <1>4, Types DEF Goto
  <2>2. QED
    BY <1>4, <2>1, EndsWell
<1>5. QED
  BY <1>2, <1>3, <1>4 DEF HandleForStatus

LEMMA FunctionGoes ==
  ASSUME TypeOK, NEW e \in Env, NEW b, Attempt(e, b), FunctionReturns(e) \/ FunctionRaises(e)
  PROVE  Goes(e, b)
PROOF
<1>1. /\ pc'[e] \in {"done", "update", "delete"} /\ UNCHANGED <<now, call>>
      /\ out'[e].kind \in {"response", "FunctionError"}
  BY EndsAs, Types DEF FunctionReturns, FunctionRaises, Goto
<1>2. QED
  BY <1>1 DEF Attempt, Goes

LEMMA StoreGoes ==
  ASSUME TypeOK, ReturnsOldRecord, NEW e \in Env, NEW b, Attempt(e, b), StoreStep(e)
  PROVE  Goes(e, b)
PROOF
<1>1. now' = now
  BY StepOtherRecords
<1>2. CASE PutRecord(e)
  <2>1. CASE Goto(e, "run") /\ out' = out
    BY <1>1, <1>2, <2>1, Types DEF PutRecord, Goto, Attempt, Goes
  <2>2. CASE ~PutCondition(call[e].key, call[e].at) /\ Found(e, cache[e], store[call[e].key])
    BY <1>1, <1>2, <2>2, RefusedPutLater, FindsLater DEF PutRecord
  <2>3. QED
    BY <1>2, <2>1, <2>2 DEF PutRecord
<1>3. CASE GetRecord(e)
  <2>1. b + call[e].tries < now
    BY <1>3 DEF GetRecord, Attempt
  <2>2. CASE Retry(e)
    BY <1>1, <2>1, <2>2, RetryLater DEF Goes
  <2>3. CASE Found(e, Purged(e, call[e].key), store[call[e].key]) /\ call' = call
    BY <1>1, <2>1, <2>3, FindsLater
  <2>4. QED
    BY <1>3, <2>2, <2>3 DEF GetRecord
<1>4. CASE PutFails(e) \/ GetFails(e) \/ UpdateFails(e) \/ DeleteFails(e)
  BY <1>4, RaisesAs, EndsWell DEF PutFails, GetFails, UpdateFails, DeleteFails
<1>5. CASE UpdateRecord(e) \/ DeleteRecord(e)
  <2>1. pc'[e] = "done" /\ UNCHANGED <<call, out>>
    BY <1>5, Types DEF UpdateRecord, DeleteRecord, Goto
  <2>2. QED
    BY <2>1, EndsWell
<1>6. QED
  BY <1>2, <1>3, <1>4, <1>5 DEF StoreStep

LEMMA BeginAttempt ==
  ASSUME TypeOK, NEW e \in Env, Begin(e), Attempted(e)
  PROVE  Attempted(e)'
PROOF
<1>1. /\ pc[e] = "idle" /\ pc'[e] = "save" /\ now' = now /\ out' = out /\ now \in Nat
  BY Types DEF Begin, Goto
<1>2. PICK r \in Remaining : call'[e].deadline = now + r /\ call'[e].tries = 0
  BY Types DEF Begin
<1>3. r \in Nat
  BY TimeAssumption
<1>4. call'[e].deadline - r = now
  BY <1>1, <1>2, <1>3
<1>5. Attempt(e, call[e].deadline - r)'
  BY <1>1, <1>2, <1>4 DEF Attempt
<1>6. QED
  BY <1>1, <1>5 DEF Attempted, Active

LEMMA GoesOn ==
  ASSUME TypeOK, NEW e \in Env, Active(e), Attempted(e), now' = now, pc'[e] # "idle",
         \A b : Attempt(e, b) => Goes(e, b)
  PROVE  Attempted(e)'
PROOF
<1>1. PICK r \in Remaining : Attempt(e, call[e].deadline - r)
  BY DEF Attempted
<1>2. Goes(e, call[e].deadline - r)
  BY <1>1
<1>3. Active(e)' => Attempt(e, call[e].deadline - r)'
  BY <1>2 DEF Goes, Attempt
<1>4. QED
  BY <1>2, <1>3 DEF Goes, Attempted, Overrun

\* The clock, and the steps of the others.
LEMMA AttemptWaits ==
  ASSUME TypeOK, NEW f \in Env, Attempted(f),
         pc'[f] = pc[f], call'[f] = call[f], out'[f] = out[f],
         \/ now' = now /\ rec'[f] = rec[f] /\ cache'[f] = cache[f]
         \/ now' = now + 1
  PROVE  Attempted(f)'
PROOF
<1>1. ASSUME NEW r \in Remaining, Attempt(f, call[f].deadline - r)
      PROVE  Attempt(f, call[f].deadline - r)'
  <2> DEFINE b == call[f].deadline - r
  <2>1. b \in Nat /\ b + call[f].tries \in Nat /\ b + call[f].tries <= now /\ now \in Nat
        /\ call[f].at \in Nat
    BY <1>1, Attempts
  <2>2. CASE now' = now + 1
    BY <1>1, <2>1, <2>2 DEF Attempt
  <2>3. CASE now' = now /\ rec'[f] = rec[f] /\ cache'[f] = cache[f]
    BY <1>1, <2>3 DEF Attempt, Cached, IsExpired, Second
  <2>4. QED
    BY <2>2, <2>3
<1>2. \A r \in Remaining : Overrun(f, call[f].deadline - r) => Overrun(f, call[f].deadline - r)'
  BY CallFields, Types, TimeAssumption DEF Overrun, MAX_RETRIES
<1>3. QED
  BY <1>1, <1>2 DEF Attempted, Active

LEMMA NextRetry ==
  ASSUME ReturnsOldRecord, RetryInv, [Next]_vars
  PROVE  RetryInv'
PROOF
<1>1. TypeOK /\ TypeOK' /\ CachedCompleted'
  BY NextType, CachesStayCompleted DEF RetryInv
<1>2. ASSUME NEW e \in Env, Begin(e) \/ LocalStep(e) \/ Kill(e) \/ StoreStep(e), NEW f \in Env
      PROVE  Attempted(f)'
  <2>1. Attempted(f)
    BY DEF RetryInv
  <2>2. CASE f # e
    <3>1. cache'[f] = cache[f]
      BY <1>1, <1>2, <2>2, Types
      DEF Begin, LocalStep, SaveInProgress, GetCachedRecord, HandleForStatus, FunctionReturns,
          FunctionRaises, Finish, Kill, StoreStep, PutRecord, PutFails, GetRecord, GetFails,
          UpdateRecord, UpdateFails, DeleteRecord, DeleteFails, Found, SaveToCache,
          DeleteFromCache
    <3>2. QED
      BY <1>1, <1>2, <2>1, <2>2, <3>1, StepElsewhere, StepOtherRecords, AttemptWaits
      DEF Elsewhere
  <2>3. CASE f = e /\ Begin(e)
    BY <1>1, <2>1, <2>3, BeginAttempt
  <2>4. CASE f = e /\ Reset(e)
    <3>1. pc'[e] = "idle" /\ out'[e].kind = "none"
      BY <1>1, <2>4, EndsAs, Types DEF Reset, Goto
    <3>2. QED
      BY <2>4, <3>1 DEF Attempted, Active
  <2>5. CASE f = e /\ (LocalStep(e) \/ StoreStep(e)) /\ ~Reset(e)
    <3>1. Active(e) /\ now' = now
      BY <1>1, <1>2, <2>5, SaveKeepsId, StepOtherRecords DEF Finish
    <3>2. pc'[e] # "idle"
      BY <1>1, <2>5, Types
      DEF LocalStep, SaveInProgress, GetCachedRecord, HandleForStatus, FunctionReturns,
          FunctionRaises, Finish, StoreStep, PutRecord, PutFails, GetRecord, GetFails,
          UpdateRecord, UpdateFails, DeleteRecord, DeleteFails, Found, Retry, Raise, Goto
    <3>3. \A b : Attempt(e, b) => Goes(e, b)
      BY <1>1, <2>5, SaveGoes, GetCachedGoes, HandleGoes, FunctionGoes, StoreGoes
      DEF LocalStep, Finish, RetryInv
    <3>4. QED
      BY <1>1, <2>1, <2>5, <3>1, <3>2, <3>3, GoesOn
  <2>6. QED
    BY <1>2, <2>2, <2>3, <2>4, <2>5 DEF Kill
<1>3. ASSUME Tick \/ (\E j \in Key : ExpireItem(j)) \/ UNCHANGED vars, NEW f \in Env
      PROVE  Attempted(f)'
  BY <1>1, <1>3, AttemptWaits DEF Tick, ExpireItem, vars, RetryInv
<1>4. QED
  BY <1>1, <1>2, <1>3 DEF Next, RetryInv

\* When a failed put returns the old item, IdempotencyInconsistentStateError ends
\* only invocations that have run for more than MAX_RETRIES ticks: each attempt
\* before was lost to a record that went stale after it began.
THEOREM RetriesLast == Spec => []RetriesSuffice
PROOF
<1>1. Init => RetryInv
  BY InitType DEF Init, RetryInv, CachedCompleted, EmptyCache, Attempted, Active, NoOutcome
<1>2. (ReturnsOldRecord => RetryInv) /\ [Next]_vars => (ReturnsOldRecord => RetryInv)'
  BY NextRetry
<1>3. (ReturnsOldRecord => RetryInv) => RetriesSuffice
  BY DEF RetryInv, Attempted, RetriesSuffice, Overrun
<1>4. QED
  BY <1>1, <1>2, <1>3, PTL DEF Spec
==============================================================================
