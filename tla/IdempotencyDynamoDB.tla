------------------------- MODULE IdempotencyDynamoDB -------------------------
(***************************************************************************)
(* The idempotency utility over DynamoDBPersistenceLayer                   *)
(* (persistence/dynamodb.py): the conditional PutItem, the consistent      *)
(* GetItem, and the unconditional UpdateItem and DeleteItem. Any of them   *)
(* may fail; a failing write may have been applied.                        *)
(***************************************************************************)
EXTENDS Idempotency

CONSTANT ReturnsOldRecord   \* boto3 >= 1.26.164: a failed put returns the item

ASSUME ReturnsOldRecordAssumption == ReturnsOldRecord \in BOOLEAN

------------------------------------------------------------------------------
(* _put_record *)

\* Mutants: the in-progress expiry compared with <=, the record expiry compared
\* with <=, and a lock without in-progress expiry taken for a timed-out one.
PutConditionEager(k, t) ==
  LET old == store[k]
  IN  old # None =>
        \/ old.expiry < Second(t)
        \/ old.status = "INPROGRESS" /\ old.inprog # None /\ old.inprog <= t

PutConditionEarly(k, t) ==
  LET old == store[k]
  IN  old # None =>
        \/ old.expiry <= Second(t)
        \/ old.status = "INPROGRESS" /\ old.inprog # None /\ old.inprog < t

PutConditionMissing(k, t) ==
  LET old == store[k]
  IN  old # None =>
        \/ old.expiry < Second(t)
        \/ old.status = "INPROGRESS" /\ (old.inprog # None => old.inprog < t)

\* Mutant: the condition lacks the clause on the expiry of the record.
PutConditionNoExpiry(k, t) ==
  LET old == store[k]
  IN  old # None => old.status = "INPROGRESS" /\ old.inprog # None /\ old.inprog < t

\* The condition expression, evaluated against the clock t read before the call.
PutCondition(k, t) ==
  LET old == store[k]
  IN  old # None =>
        \/ old.expiry < Second(t)
        \/ /\ old.status = "INPROGRESS"
           /\ old.inprog # None
           /\ old.inprog < t

WriteRec(e) == store' = [store EXCEPT ![call[e].key] = rec[e]]

PutRecord(e) ==
  /\ pc[e] = "put"
  /\ \/ /\ PutCondition(call[e].key, call[e].at)
        /\ WriteRec(e)
        /\ Goto(e, "run")
        /\ UNCHANGED <<cache, rec, out>>
     \/ /\ ~PutCondition(call[e].key, call[e].at)
        /\ \/ /\ ReturnsOldRecord
              /\ Found(e, cache[e], store[call[e].key])
           \/ /\ ~ReturnsOldRecord
              /\ Goto(e, "get")
              /\ UNCHANGED <<cache, rec, out>>
        /\ UNCHANGED store
  /\ UNCHANGED <<now, call, invocations>>

PutFails(e) ==
  /\ pc[e] = "put"
  /\ \/ UNCHANGED store
     \/ PutCondition(call[e].key, call[e].at) /\ WriteRec(e)
  /\ Raise(e, "PersistenceLayerError")
  /\ UNCHANGED <<now, cache, call, rec, invocations>>

------------------------------------------------------------------------------
(* _get_record, when the local cache does not answer *)

GetRecord(e) ==
  /\ pc[e] = "get"
  /\ Cached(e, call[e].key) = None
  /\ \/ /\ store[call[e].key] = None
        /\ cache' = [cache EXCEPT ![e] = Purged(e, call[e].key)]
        /\ Retry(e)
        /\ UNCHANGED rec
     \/ /\ store[call[e].key] # None
        /\ Found(e, Purged(e, call[e].key), store[call[e].key])
        /\ UNCHANGED call
  /\ UNCHANGED <<now, store, invocations>>

GetFails(e) ==
  /\ pc[e] = "get"
  /\ Cached(e, call[e].key) = None
  /\ cache' = [cache EXCEPT ![e] = Purged(e, call[e].key)]
  /\ Raise(e, "PersistenceLayerError")
  /\ UNCHANGED <<now, store, call, rec, invocations>>

------------------------------------------------------------------------------
(* _update_record and _delete_record: no condition *)

\* UpdateItem sets the response, the expiry, the status and, with validation,
\* the payload hash. It creates a missing item and leaves the other attributes
\* of an existing one alone.
Updated(old, r) ==
  [r EXCEPT !.inprog = IF old = None THEN None ELSE old.inprog,
            !.hash = IF ValidatePayload \/ old = None THEN @ ELSE old.hash]

ApplyUpdate(e) ==
  store' = [store EXCEPT ![call[e].key] = Updated(@, rec[e])]

UpdateRecord(e) ==
  /\ pc[e] = "update"
  /\ ApplyUpdate(e)
  /\ SaveToCache(e, cache[e], rec[e])
  /\ Goto(e, "done")
  /\ UNCHANGED <<now, call, rec, out, invocations>>

UpdateFails(e) ==
  /\ pc[e] = "update"
  /\ ApplyUpdate(e) \/ UNCHANGED store
  /\ Raise(e, "PersistenceLayerError")
  /\ UNCHANGED <<now, cache, call, rec, invocations>>

ApplyDelete(e) == store' = [store EXCEPT ![call[e].key] = None]

DeleteRecord(e) ==
  /\ pc[e] = "delete"
  /\ ApplyDelete(e)
  /\ DeleteFromCache(e)
  /\ Goto(e, "done")
  /\ UNCHANGED <<now, call, rec, out, invocations>>

DeleteFails(e) ==
  /\ pc[e] = "delete"
  /\ ApplyDelete(e) \/ UNCHANGED store
  /\ Raise(e, "PersistenceLayerError")
  /\ UNCHANGED <<now, cache, call, rec, invocations>>

\* DynamoDB's TTL removes an item some time after its expiry attribute.
ExpireItem(k) ==
  /\ store[k] # None
  /\ IsExpired(store[k], now)
  /\ store' = [store EXCEPT ![k] = None]
  /\ UNCHANGED <<now, cache, pc, call, rec, out, invocations>>

------------------------------------------------------------------------------

StoreStep(e) ==
  \/ PutRecord(e)
  \/ PutFails(e)
  \/ GetRecord(e)
  \/ GetFails(e)
  \/ UpdateRecord(e)
  \/ UpdateFails(e)
  \/ DeleteRecord(e)
  \/ DeleteFails(e)

Tick ==
  /\ MayTick
  /\ now' = now + 1
  /\ UNCHANGED <<store, cache, pc, call, rec, out, invocations>>

Next ==
  \/ \E e \in Env : Begin(e) \/ LocalStep(e) \/ StoreStep(e) \/ Kill(e)
  \/ \E k \in Key : ExpireItem(k)
  \/ Tick

Spec == Init /\ [][Next]_vars

\* The Lambda service kills an invocation at its deadline, the clock runs, and
\* a live environment keeps executing: nothing else is assumed to happen.
Fairness ==
  /\ WF_vars(Tick)
  /\ \A e \in Env : WF_vars(Active(e) /\ TimeIsUp(e) /\ Kill(e))

FairSpec == Spec /\ Fairness

------------------------------------------------------------------------------

\* When a failed put returns the old item, an attempt of handle() is spent only
\* on a lock that times out or a result that expires between the put and the look
\* at its record, and no two attempts on the same one: the invocation has run for
\* more than MAX_RETRIES ticks when IdempotencyInconsistentStateError reaches the
\* caller, so never within a remaining time as short as that.
RetriesSuffice ==
  ReturnsOldRecord =>
    \A e \in Env :
      out[e].kind = "InconsistentState"
        => \E r \in Remaining : call[e].deadline - r + MAX_RETRIES < now

Locked(k) ==
  /\ store[k] # None
  /\ store[k].status = "INPROGRESS"
  /\ ~PutCondition(k, now)

\* Whatever happens to the invocation that put it, an in-progress record does
\* not block its key for ever.
LockReleased == \A k \in Key : Locked(k) ~> ~Locked(k)

TypeOK == TypeOKWith(Labels)
==============================================================================
