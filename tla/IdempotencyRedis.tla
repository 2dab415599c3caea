--------------------------- MODULE IdempotencyRedis ---------------------------
(***************************************************************************)
(* The idempotency utility over RedisCachePersistenceLayer                 *)
(* (persistence/redis.py). There is no conditional write: saving the       *)
(* in-progress record is SET NX and, if that fails, GET, SET NX of a lock  *)
(* key with a timeout, and SET, each a step of its own. Keys live for the  *)
(* whole number of seconds they were given.                                *)
(***************************************************************************)
EXTENDS Idempotency

CONSTANT LockTimeout   \* _orphan_lock_timeout, in seconds

ASSUME LockTimeoutAssumption == LockTimeout \in Nat \ {0}

VARIABLES
  dies,   \* dies[k]: when Redis drops the record of k
  lock    \* lock[k]: when Redis drops the key "<k>:lock", None if there is none

redisVars == <<vars, dies, lock>>

------------------------------------------------------------------------------
(* Redis commands *)

\* SET k r EX ExpiresAfter. The time to live is the expiry of the record less
\* the second it was built in.
SetRecord(k, r) ==
  /\ store' = [store EXCEPT ![k] = r]
  /\ dies' = [dies EXCEPT ![k] = now + ExpiresAfter * TicksPerSecond]

\* Mutant: the time to live outlives the record.
DropRecordOnly(k) ==
  /\ store' = [store EXCEPT ![k] = None]
  /\ UNCHANGED dies

DropRecord(k) ==
  /\ store' = [store EXCEPT ![k] = None]
  /\ dies' = [dies EXCEPT ![k] = None]

------------------------------------------------------------------------------
(* _put_in_progress_record *)

\* SET NX
PutRecord(e) ==
  /\ pc[e] = "put"
  /\ \/ /\ store[call[e].key] = None
        /\ SetRecord(call[e].key, rec[e])
        /\ Goto(e, "run")
     \/ /\ store[call[e].key] # None
        /\ Goto(e, "inspect")
        /\ UNCHANGED <<store, dies>>
  /\ UNCHANGED <<now, cache, call, rec, out, invocations, lock>>

PutFails(e) ==
  /\ pc[e] = "put"
  /\ \/ UNCHANGED <<store, dies>>
     \/ store[call[e].key] = None /\ SetRecord(call[e].key, rec[e])
  /\ Raise(e, "PersistenceLayerError")
  /\ UNCHANGED <<now, cache, call, rec, invocations, lock>>

\* The in-progress record r was not timed out when this attempt began.
ValidInProgress(e, r) ==
  /\ Status(r, now) = "INPROGRESS"
  /\ r.inprog # None
  /\ r.inprog > call[e].at

\* Mutant: a completed record counts as an orphan.
InspectInProgressOnly(e) ==
  /\ pc[e] = "inspect"
  /\ LET r == store[call[e].key]
     IN  \/ /\ r = None
            /\ Raise(e, "PersistenceLayerError")
         \/ /\ r # None
            /\ Goto(e, IF ValidInProgress(e, r) THEN "get" ELSE "lock")
            /\ UNCHANGED out
  /\ UNCHANGED <<now, store, cache, call, rec, invocations, dies, lock>>

\* GET. A record that vanished since the SET is an ItemNotFound error, which
\* the handler takes for a failure of the layer. A record that is neither
\* completed nor validly in progress is an orphan.
Inspect(e) ==
  /\ pc[e] = "inspect"
  /\ LET r == store[call[e].key]
     IN  \/ /\ r = None
            /\ Raise(e, "PersistenceLayerError")
         \/ /\ r # None
            /\ Goto(e, IF Status(r, now) = "COMPLETED" \/ ValidInProgress(e, r)
                       THEN "get"
                       ELSE "lock")
            /\ UNCHANGED out
  /\ UNCHANGED <<now, store, cache, call, rec, invocations, dies, lock>>

\* SET k:lock EX LockTimeout
SetLock(k) == lock' = [lock EXCEPT ![k] = now + LockTimeout * TicksPerSecond]

\* Mutant: the lock key is set without NX.
AcquireAlways(e) ==
  /\ pc[e] = "lock"
  /\ SetLock(call[e].key)
  /\ Goto(e, "overwrite")
  /\ UNCHANGED <<now, store, cache, call, rec, out, invocations, dies>>

\* _acquire_lock: SET NX of the lock key. Nothing ever releases it.
AcquireLock(e) ==
  /\ pc[e] = "lock"
  /\ \/ /\ lock[call[e].key] = None
        /\ SetLock(call[e].key)
        /\ Goto(e, "overwrite")
     \/ /\ lock[call[e].key] # None
        /\ Goto(e, "get")
        /\ UNCHANGED lock
  /\ UNCHANGED <<now, store, cache, call, rec, out, invocations, dies>>

OverwriteOrphan(e) ==
  /\ pc[e] = "overwrite"
  /\ SetRecord(call[e].key, rec[e])
  /\ Goto(e, "run")
  /\ UNCHANGED <<now, cache, call, rec, out, invocations, lock>>

------------------------------------------------------------------------------
(* _get_record, _update_record, _delete_record *)

GetRecord(e) ==
  /\ pc[e] = "get"
  /\ Cached(e, call[e].key) = None
  /\ \/ /\ store[call[e].key] = None
        /\ cache' = [cache EXCEPT ![e] = Purged(e, call[e].key)]
        /\ Retry(e)
        /\ UNCHANGED rec
     \/ /\ store[call[e].key] # None
        /\ Found(e, Purged(e, call[e].key), store[call[e].key])
        /\ UNCHANGED call
  /\ UNCHANGED <<now, store, invocations, dies, lock>>

\* A command of the put, the lock or the get fails; if it is a SET, it may have
\* been applied.
CommandFails(e) ==
  /\ pc[e] \in {"inspect", "lock", "overwrite", "get"}
  /\ pc[e] = "get" => Cached(e, call[e].key) = None
  /\ \/ UNCHANGED <<store, dies, lock>>
     \/ /\ pc[e] = "lock" /\ lock[call[e].key] = None
        /\ SetLock(call[e].key)
        /\ UNCHANGED <<store, dies>>
     \/ /\ pc[e] = "overwrite"
        /\ SetRecord(call[e].key, rec[e])
        /\ UNCHANGED lock
  /\ Raise(e, "PersistenceLayerError")
  /\ UNCHANGED <<now, cache, call, rec, invocations>>

\* The completed record is written whole, without the payload hash and without
\* the in-progress expiry.
Stored(r) == [r EXCEPT !.hash = None, !.inprog = None]

UpdateRecord(e) ==
  /\ pc[e] = "update"
  /\ SetRecord(call[e].key, Stored(rec[e]))
  /\ SaveToCache(e, cache[e], rec[e])
  /\ Goto(e, "done")
  /\ UNCHANGED <<now, call, rec, out, invocations, lock>>

UpdateFails(e) ==
  /\ pc[e] = "update"
  /\ SetRecord(call[e].key, Stored(rec[e])) \/ UNCHANGED <<store, dies>>
  /\ Raise(e, "PersistenceLayerError")
  /\ UNCHANGED <<now, cache, call, rec, invocations, lock>>

DeleteRecord(e) ==
  /\ pc[e] = "delete"
  /\ DropRecord(call[e].key)
  /\ DeleteFromCache(e)
  /\ Goto(e, "done")
  /\ UNCHANGED <<now, call, rec, out, invocations, lock>>

DeleteFails(e) ==
  /\ pc[e] = "delete"
  /\ DropRecord(call[e].key) \/ UNCHANGED <<store, dies>>
  /\ Raise(e, "PersistenceLayerError")
  /\ UNCHANGED <<now, cache, call, rec, invocations, lock>>

------------------------------------------------------------------------------

StoreStep(e) ==
  \/ PutRecord(e)
  \/ PutFails(e)
  \/ Inspect(e)
  \/ AcquireLock(e)
  \/ OverwriteOrphan(e)
  \/ GetRecord(e)
  \/ CommandFails(e)
  \/ UpdateRecord(e)
  \/ UpdateFails(e)
  \/ DeleteRecord(e)
  \/ DeleteFails(e)

\* The clock runs, and Redis drops the keys whose time has come.
Tick ==
  /\ MayTick
  /\ now' = now + 1
  /\ LET gone == {k \in Key : dies[k] # None /\ dies[k] <= now'}
     IN  /\ store' = [k \in Key |-> IF k \in gone THEN None ELSE store[k]]
         /\ dies' = [k \in Key |-> IF k \in gone THEN None ELSE dies[k]]
  /\ lock' = [k \in Key |-> IF lock[k] # None /\ lock[k] <= now' THEN None ELSE lock[k]]
  /\ UNCHANGED <<cache, pc, call, rec, out, invocations>>

RedisInit ==
  /\ Init
  /\ dies = [k \in Key |-> None]
  /\ lock = [k \in Key |-> None]

Next ==
  \/ \E e \in Env :
       \/ (Begin(e) \/ LocalStep(e) \/ Kill(e)) /\ UNCHANGED <<dies, lock>>
       \/ StoreStep(e)
  \/ Tick

Spec == RedisInit /\ [][Next]_redisVars

------------------------------------------------------------------------------

TypeOK ==
  /\ TypeOKWith(Labels \cup {"inspect", "lock", "overwrite"})
  /\ dies \in [Key -> Nat \cup {None}]
  /\ lock \in [Key -> Nat \cup {None}]
  /\ \A k \in Key : store[k] = None <=> dies[k] = None

\* A completed result is neither overwritten nor deleted before it expires or
\* Redis drops it: nobody who once took the record for an orphan still writes
\* over what the holder of the lock has made of it.
ResultKept ==
  [][ \A k \in Key :
        store[k] # None /\ store[k].status = "COMPLETED" /\ store'[k] # store[k]
          => IsExpired(store[k], now) \/ dies[k] <= now' ]_redisVars
==============================================================================
