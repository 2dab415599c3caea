----------------------------- MODULE Idempotency -----------------------------
(***************************************************************************)
(* The part of the idempotency utility that every persistence layer        *)
(* shares: IdempotencyHandler (utilities/idempotency/base.py), the local   *)
(* cache and the record construction of BasePersistenceLayer               *)
(* (persistence/base.py) and DataRecord (persistence/datarecord.py).       *)
(*                                                                         *)
(* An execution environment of the Lambda function runs one invocation at  *)
(* a time. A call of the persistence store is one atomic step of the       *)
(* store; everything between two store calls is one step of the            *)
(* environment, so other environments interleave exactly where the code    *)
(* waits for the network. The store's own steps are in the modules that    *)
(* extend this one, IdempotencyDynamoDB and IdempotencyRedis.              *)
(*                                                                         *)
(* Time is counted in ticks, the milliseconds of the code on a coarser     *)
(* scale: TicksPerSecond of them make the second that record expiry is     *)
(* truncated to.                                                           *)
(***************************************************************************)
EXTENDS Integers, FiniteSets

CONSTANTS
  Env,              \* execution environments
  Key,              \* hashed idempotency keys
  NoKey,            \* the key of an event that holds no key data
  Payload,          \* hashes of the validated part of the event
  None,             \* Python's None, a missing attribute or a missing record
  TicksPerSecond,
  ExpiresAfter,     \* expires_after_seconds
  Remaining,        \* the remaining times an invocation may start with, in ticks
  KillMargin,       \* ticks before its deadline at which an invocation is killed
  Contexts,         \* whether a call has a registered Lambda context: truth values
  ValidatePayload,  \* payload_validation_jmespath is set
  RaiseOnNoKey,     \* raise_on_no_idempotency_key
  UseLocalCache,    \* use_local_cache
  CacheMax,         \* local_cache_max_items
  Falsy,            \* which truth values "not response" may have
  LastBegin,        \* bound: no invocation starts later
  MaxTime,          \* bound: the clock stops here
  MaxInvocations    \* bound: invocations ever started

ASSUME KeyAssumption == NoKey \notin Key
ASSUME NoneAssumption == None \notin Nat /\ None \notin Payload
ASSUME TimeAssumption ==
  /\ TicksPerSecond \in Nat \ {0}
  /\ ExpiresAfter \in Nat \ {0}
  /\ Remaining \subseteq Nat
  /\ KillMargin \in Nat
  /\ LastBegin \in Nat
  /\ MaxTime \in Nat
ASSUME OptionAssumption ==
  /\ {ValidatePayload, RaiseOnNoKey, UseLocalCache} \subseteq BOOLEAN
  /\ Contexts \subseteq BOOLEAN
  /\ Falsy \subseteq BOOLEAN
  /\ CacheMax \in Nat
  /\ MaxInvocations \in Nat

VARIABLES
  now,          \* the clock, in ticks
  store,        \* store[k]: the record of key k, None if there is none
  cache,        \* cache[e][k]: the local cache of environment e
  pc,           \* pc[e]: where e's invocation is
  call,         \* call[e]: the arguments and the attempt of e's invocation
  rec,          \* rec[e]: the DataRecord e is about to write or has read
  out,          \* out[e]: what e's invocation ends with
  invocations   \* invocations started so far

vars == <<now, store, cache, pc, call, rec, out, invocations>>

------------------------------------------------------------------------------
(* Records, calls and outcomes *)

\* The number of extra attempts handle() makes.
MAX_RETRIES == 2

\* A function's response: the invocation that computed it, the payload it was
\* computed from, and whether Python takes it for false ({}, 0, "", False).
Result == [by : Nat, payload : Payload, falsy : BOOLEAN]

DataRecord == [status : {"INPROGRESS", "COMPLETED"},
               expiry : Nat,                    \* seconds
               inprog : Nat \cup {None},        \* in_progress_expiry_timestamp
               data   : Result \cup {None},
               hash   : Payload \cup {None}]

ASSUME RecordAssumption == None \notin DataRecord \cup [data : Result \cup {None}, until : Nat]

Call == [key : Key \cup {NoKey}, payload : Payload \cup {None},
         context : BOOLEAN, deadline : Nat, tries : 0..MAX_RETRIES, at : Nat, id : Nat]

NoCall == [key |-> NoKey, payload |-> None, context |-> FALSE, deadline |-> 0, tries |-> 0,
           at |-> 0, id |-> 0]

Outcome == [kind : {"none", "response", "KeyError", "ValidationError",
                    "AlreadyInProgress", "InconsistentState",
                    "PersistenceLayerError", "FunctionError"},
            data : Result \cup {None}]

NoOutcome == [kind |-> "none", data |-> None]

Second(t) == t \div TicksPerSecond

IsExpired(r, t) == Second(t) > r.expiry

\* Mutant: the status property forgets the expiry.
StatusUnchecked(r, t) == r.status

Status(r, t) == IF IsExpired(r, t) THEN "EXPIRED" ELSE r.status

\* _get_hashed_payload: "" stands for None when validation is off.
HashedPayload(e) == IF ValidatePayload THEN call[e].payload ELSE None

\* _validate_payload would raise.
Mismatch(e, r) == ValidatePayload /\ r.hash # HashedPayload(e)

NewInProgress(e) ==
  [status |-> "INPROGRESS",
   expiry |-> Second(now) + ExpiresAfter,
   inprog |-> IF call[e].context THEN call[e].deadline ELSE None,
   data   |-> None,
   hash   |-> HashedPayload(e)]

\* Mutant: the completed record is built without the payload hash.
NewCompletedUnhashed(e, response) ==
  [status |-> "COMPLETED", expiry |-> Second(now) + ExpiresAfter, inprog |-> None,
   data |-> response, hash |-> None]

\* The response is serialised only if it is truthy, so a falsy one is saved
\* as JSON null.
NewCompleted(e, response) ==
  [status |-> "COMPLETED",
   expiry |-> Second(now) + ExpiresAfter,
   inprog |-> None,
   data   |-> IF response.falsy THEN None ELSE response,
   hash   |-> HashedPayload(e)]

------------------------------------------------------------------------------
(* The local cache: an LRUDict whose order of eviction is abstracted, any other
   entry may be the one evicted. *)

Held(c) == {k \in Key : c[k] # None}

EmptyCache == [k \in Key |-> None]

CachePut(c, k, r) ==
  LET grown   == [c EXCEPT ![k] = r]
      victims == IF Held(grown) = {k} THEN {k} ELSE Held(grown) \ {k}
  IN  IF Cardinality(Held(grown)) <= CacheMax
      THEN {grown}
      ELSE {[grown EXCEPT ![v] = None] : v \in victims}

\* _retrieve_from_cache: the unexpired record of k, and the cache without the
\* expired one.
Cached(e, k) ==
  IF UseLocalCache /\ cache[e][k] # None /\ ~IsExpired(cache[e][k], now)
  THEN cache[e][k]
  ELSE None

Purged(e, k) ==
  IF Cached(e, k) = None THEN [cache[e] EXCEPT ![k] = None] ELSE cache[e]

\* Mutant: in-progress records are cached too.
SaveAnyToCache(e, c, r) ==
  \E c2 \in IF UseLocalCache THEN CachePut(c, call[e].key, r) ELSE {c} :
     cache' = [cache EXCEPT ![e] = c2]

\* _save_to_cache into the cache c of e: every status but INPROGRESS.
SaveToCache(e, c, r) ==
  \E c2 \in IF UseLocalCache /\ Status(r, now) # "INPROGRESS"
            THEN CachePut(c, call[e].key, r)
            ELSE {c} :
     cache' = [cache EXCEPT ![e] = c2]

DeleteFromCache(e) ==
  cache' = [cache EXCEPT ![e] = [@ EXCEPT ![call[e].key] = None]]

------------------------------------------------------------------------------
(* Steps of one invocation *)

Goto(e, label) == pc' = [pc EXCEPT ![e] = label]

Raise(e, kind) ==
  /\ Goto(e, "done")
  /\ out' = [out EXCEPT ![e] = [kind |-> kind, data |-> None]]

\* handle(): the next attempt, or the exception once they are used up.
Retry(e) ==
  IF call[e].tries = MAX_RETRIES
  THEN Raise(e, "InconsistentState") /\ UNCHANGED call
  ELSE /\ call' = [call EXCEPT ![e].tries = @ + 1]
       /\ Goto(e, "save")
       /\ UNCHANGED out

\* A record was read: validate it, keep it in the local cache, look at it.
Found(e, c, r) ==
  IF Mismatch(e, r)
  THEN /\ Raise(e, "ValidationError")
       /\ cache' = [cache EXCEPT ![e] = c]
       /\ UNCHANGED rec
  ELSE /\ SaveToCache(e, c, r)
       /\ rec' = [rec EXCEPT ![e] = r]
       /\ Goto(e, "handle")
       /\ UNCHANGED out

Begin(e) ==
  /\ pc[e] = "idle"
  /\ invocations < MaxInvocations
  /\ now <= LastBegin
  /\ \E k \in Key \cup {NoKey}, p \in Payload, r \in Remaining, c \in Contexts :
       call' = [call EXCEPT ![e] =
                  [key |-> k, payload |-> p, context |-> c, deadline |-> now + r,
                   tries |-> 0, at |-> now, id |-> invocations + 1]]
  /\ invocations' = invocations + 1
  /\ Goto(e, "save")
  /\ UNCHANGED <<now, store, cache, rec, out>>

\* save_inprogress up to the call of _put_record.
SaveInProgress(e) ==
  /\ pc[e] = "save"
  /\ \/ /\ call[e].key = NoKey
        /\ \/ RaiseOnNoKey /\ Raise(e, "KeyError")
           \/ ~RaiseOnNoKey /\ Goto(e, "run") /\ UNCHANGED out
        /\ UNCHANGED <<cache, call, rec>>
     \/ /\ call[e].key # NoKey
        /\ cache' = [cache EXCEPT ![e] = Purged(e, call[e].key)]
        /\ \/ /\ Cached(e, call[e].key) # None
              /\ Goto(e, "get")
              /\ UNCHANGED <<call, rec>>
           \/ /\ Cached(e, call[e].key) = None
              /\ rec' = [rec EXCEPT ![e] = NewInProgress(e)]
              /\ call' = [call EXCEPT ![e].at = now]
              /\ Goto(e, "put")
        /\ UNCHANGED out
  /\ UNCHANGED <<now, store, invocations>>

\* Mutant: a cached record is not validated.
GetCachedUnvalidated(e) ==
  /\ pc[e] = "get"
  /\ Cached(e, call[e].key) # None
  /\ rec' = [rec EXCEPT ![e] = Cached(e, call[e].key)]
  /\ Goto(e, "handle")
  /\ UNCHANGED <<now, store, cache, call, out, invocations>>

\* get_record, served from the local cache.
GetCachedRecord(e) ==
  /\ pc[e] = "get"
  /\ Cached(e, call[e].key) # None
  /\ \/ /\ Mismatch(e, Cached(e, call[e].key))
        /\ Raise(e, "ValidationError")
        /\ UNCHANGED rec
     \/ /\ ~Mismatch(e, Cached(e, call[e].key))
        /\ rec' = [rec EXCEPT ![e] = Cached(e, call[e].key)]
        /\ Goto(e, "handle")
        /\ UNCHANGED out
  /\ UNCHANGED <<now, store, cache, call, invocations>>

\* Mutant: the handler takes a lock for timed out that the put still respects.
TimedOutEager(r) == r.inprog # None /\ r.inprog <= now

TimedOut(r) == r.inprog # None /\ r.inprog < now

HandleForStatus(e) ==
  /\ pc[e] = "handle"
  /\ LET r == rec[e]
     IN  \/ /\ Status(r, now) = "EXPIRED"
            /\ Retry(e)
         \/ /\ Status(r, now) = "INPROGRESS"
            /\ TimedOut(r)
            /\ Retry(e)
         \/ /\ Status(r, now) = "INPROGRESS"
            /\ ~TimedOut(r)
            /\ Raise(e, "AlreadyInProgress")
            /\ UNCHANGED call
         \/ /\ Status(r, now) = "COMPLETED"
            /\ out' = [out EXCEPT ![e] = [kind |-> "response", data |-> r.data]]
            /\ Goto(e, "done")
            /\ UNCHANGED call
  /\ UNCHANGED <<now, store, cache, rec, invocations>>

\* Mutant: save_success does not return early when there is no key.
FunctionReturnsUnkeyed(e) ==
  /\ pc[e] = "run"
  /\ \E f \in Falsy :
       LET response == [by |-> call[e].id, payload |-> call[e].payload, falsy |-> f]
       IN  /\ out' = [out EXCEPT ![e] = [kind |-> "response", data |-> response]]
           /\ rec' = [rec EXCEPT ![e] = NewCompleted(e, response)]
           /\ Goto(e, "update")
  /\ UNCHANGED <<now, store, cache, call, invocations>>

\* The decorated function returns; with a key, save_success builds its record.
FunctionReturns(e) ==
  /\ pc[e] = "run"
  /\ \E f \in Falsy :
       LET response == [by |-> call[e].id, payload |-> call[e].payload, falsy |-> f]
       IN  /\ out' = [out EXCEPT ![e] = [kind |-> "response", data |-> response]]
           /\ \/ /\ call[e].key = NoKey
                 /\ Goto(e, "done")
                 /\ UNCHANGED rec
              \/ /\ call[e].key # NoKey
                 /\ rec' = [rec EXCEPT ![e] = NewCompleted(e, response)]
                 /\ Goto(e, "update")
  /\ UNCHANGED <<now, store, cache, call, invocations>>

FunctionRaises(e) ==
  /\ pc[e] = "run"
  /\ out' = [out EXCEPT ![e] = [kind |-> "FunctionError", data |-> None]]
  /\ Goto(e, IF call[e].key = NoKey THEN "done" ELSE "delete")
  /\ UNCHANGED <<now, store, cache, call, rec, invocations>>

------------------------------------------------------------------------------
(* The Lambda service *)

Reset(e) ==
  /\ Goto(e, "idle")
  /\ call' = [call EXCEPT ![e] = NoCall]
  /\ rec' = [rec EXCEPT ![e] = None]
  /\ out' = [out EXCEPT ![e] = NoOutcome]
  /\ UNCHANGED <<now, store, invocations>>

\* The invocation's result is delivered; the environment is warm.
Finish(e) == pc[e] = "done" /\ Reset(e) /\ UNCHANGED cache

\* The environment dies: a crash, the kill at the deadline, or the recycling
\* of an idle environment. Its memory, and so its local cache, is lost.
Kill(e) == Reset(e) /\ cache' = [cache EXCEPT ![e] = EmptyCache]

Active(e) == pc[e] \notin {"idle", "done"}

TimeIsUp(e) == now + KillMargin >= call[e].deadline

\* An invocation never outlives its deadline.
MayTick ==
  /\ now < MaxTime
  /\ \A e \in Env : Active(e) => ~TimeIsUp(e)

\* The steps of an environment that do not wait for the store.
LocalStep(e) ==
  \/ SaveInProgress(e)
  \/ GetCachedRecord(e)
  \/ HandleForStatus(e)
  \/ FunctionReturns(e)
  \/ FunctionRaises(e)
  \/ Finish(e)

Init ==
  /\ now = 0
  /\ store = [k \in Key |-> None]
  /\ cache = [e \in Env |-> EmptyCache]
  /\ pc = [e \in Env |-> "idle"]
  /\ call = [e \in Env |-> NoCall]
  /\ rec = [e \in Env |-> None]
  /\ out = [e \in Env |-> NoOutcome]
  /\ invocations = 0

\* What an invocation has at hand at each of its program points: without a key
\* it never comes to a store call, and what it writes or looks at is a record.
WellFormed(e) ==
  /\ Active(e) => call[e].payload \in Payload
  /\ pc[e] \in {"put", "get", "handle", "update", "delete"} => call[e].key \in Key
  /\ pc[e] \in {"put", "handle", "update"} => rec[e] \in DataRecord

TypeOKWith(labels) ==
  /\ now \in 0..MaxTime
  /\ store \in [Key -> DataRecord \cup {None}]
  /\ cache \in [Env -> [Key -> DataRecord \cup {None}]]
  /\ pc \in [Env -> labels]
  /\ call \in [Env -> Call]
  /\ rec \in [Env -> DataRecord \cup {None}]
  /\ out \in [Env -> Outcome]
  /\ invocations \in 0..MaxInvocations
  /\ \A e \in Env : WellFormed(e)

Labels == {"idle", "save", "put", "get", "handle", "run", "update", "delete", "done"}

------------------------------------------------------------------------------
(* Properties that hold whatever the persistence layer *)

\* e holds the lock of its key: its record was put, its function may be running
\* or its outcome is about to be written.
Executing(e) == pc[e] \in {"run", "update", "delete"} /\ call[e].key # NoKey

\* No two invocations execute the function for one key at the same time: what
\* _put_record's conditions, the in-progress expiry and the unconditional
\* update and delete add up to.
MutualExclusion ==
  \A e, f \in Env :
    e # f /\ Executing(e) /\ Executing(f) => call[e].key # call[f].key

StoredResult(k, r) ==
  store[k] # None /\ store[k].status = "COMPLETED" /\ store[k].data = r.data

\* An unexpired entry of a local cache is the completed record of the store:
\* no environment goes on answering with a result that another environment has
\* replaced or deleted.
CacheCoherent ==
  \A e \in Env, k \in Key :
    LET c == cache[e][k]
    IN  c # None /\ ~IsExpired(c, now)
          => c.status = "COMPLETED" /\ StoredResult(k, c)

\* The result _handle_for_status replays was read some time ago, from the
\* store, the failed put or the cache; it is still the one in the store.
ReplayIsCurrent ==
  \A e \in Env :
    pc[e] = "handle" /\ Status(rec[e], now) = "COMPLETED"
      => StoredResult(call[e].key, rec[e])

\* With payload validation a caller never receives a response computed from
\* another payload, whichever of the three ways the record was read.
PayloadProtected ==
  ValidatePayload =>
    \A e \in Env :
      pc[e] = "done" /\ out[e].kind = "response" /\ out[e].data # None
        => out[e].data.payload = call[e].payload

\* With payload validation an invocation is refused only if it really differs
\* from the one whose result is stored.
RefusalsAreJust ==
  [][ \A e \in Env :
        /\ pc[e] # "done"
        /\ pc'[e] = "done"
        /\ out'[e].kind = "ValidationError"
        /\ store[call[e].key] # None
        /\ store[call[e].key].data # None
        => store[call[e].key].data.payload # call[e].payload ]_vars

\* A completed result stays as it is until it expires.
ResultStable ==
  [][ \A k \in Key :
        store[k] # None /\ Status(store[k], now) = "COMPLETED"
          => store'[k] = store[k] ]_vars

------------------------------------------------------------------------------
(* The refinement mapping into the contract *)

Running == [k \in Key |-> {e \in Env : Executing(e) /\ call[e].key = k}]

SavedResults ==
  [k \in Key |->
     IF store[k] # None /\ store[k].status = "COMPLETED"
     THEN [data |-> store[k].data, until |-> store[k].expiry]
     ELSE None]

Replies ==
  [e \in Env |->
     IF pc[e] = "done" /\ out[e].kind = "response" /\ call[e].key # NoKey
     THEN out[e].data
     ELSE None]

Contract ==
  INSTANCE IdempotencyContract
  WITH Response <- [by : 1..MaxInvocations, payload : Payload, falsy : Falsy],
       running <- Running, saved <- SavedResults, reply <- Replies

\* Every behaviour of the handlers, the caches and the store is one the
\* contract allows, for responses that are not falsy.
ImplementsContract == Contract!Spec
==============================================================================
