------------------------- MODULE IdempotencyContract -------------------------
(***************************************************************************)
(* What the idempotency utility promises, without records, conditions,     *)
(* retries or caches: per key, at most one execution at a time; no         *)
(* execution while an unexpired result is saved; a caller that does not    *)
(* execute receives the result that is saved at that moment.               *)
(*                                                                         *)
(* docs/utilities/idempotency.md: "Produces the previous successful result *)
(* when a function is called repeatedly with the same idempotency key".    *)
(***************************************************************************)
EXTENDS Integers

CONSTANTS
  Env,              \* callers
  Key,
  Response,
  None,
  TicksPerSecond,
  ExpiresAfter      \* how many seconds a result may stay

VARIABLES
  now,
  running,          \* running[k]: the callers executing the function for k
  saved,            \* saved[k]: the result of the last completed execution
  reply             \* reply[e]: the response e was given

vars == <<now, running, saved, reply>>

Saved == [data : Response, until : Nat]

Over(k) == saved[k] = None \/ now \div TicksPerSecond > saved[k].until

Start(e, k) ==
  /\ running[k] = {}
  /\ Over(k)
  /\ running' = [running EXCEPT ![k] = {e}]
  /\ saved' = [saved EXCEPT ![k] = None]
  /\ UNCHANGED <<now, reply>>

\* The caller gets its response, or an error if saving it seemed to fail.
Complete(e, k) ==
  /\ e \in running[k]
  /\ running' = [running EXCEPT ![k] = @ \ {e}]
  /\ \E r \in Response, until \in 0..(now \div TicksPerSecond + ExpiresAfter) :
       /\ saved' = [saved EXCEPT ![k] = [data |-> r, until |-> until]]
       /\ reply' \in {reply, [reply EXCEPT ![e] = r]}
  /\ UNCHANGED now

\* The function raised, its environment died or its result was not saved.
Abandon(e, k) ==
  /\ e \in running[k]
  /\ running' = [running EXCEPT ![k] = @ \ {e}]
  /\ UNCHANGED <<now, saved, reply>>

Replay(e, k) ==
  /\ ~Over(k)
  /\ reply' = [reply EXCEPT ![e] = saved[k].data]
  /\ UNCHANGED <<now, running, saved>>

Forget(k) ==
  /\ Over(k)
  /\ saved' = [saved EXCEPT ![k] = None]
  /\ UNCHANGED <<now, running, reply>>

Collect(e) ==
  /\ reply' = [reply EXCEPT ![e] = None]
  /\ UNCHANGED <<now, running, saved>>

Tick == now' = now + 1 /\ UNCHANGED <<running, saved, reply>>

Init ==
  /\ now = 0
  /\ running = [k \in Key |-> {}]
  /\ saved = [k \in Key |-> None]
  /\ reply = [e \in Env |-> None]

Next ==
  \/ \E e \in Env, k \in Key :
       Start(e, k) \/ Complete(e, k) \/ Abandon(e, k) \/ Replay(e, k)
  \/ \E k \in Key : Forget(k)
  \/ \E e \in Env : Collect(e)
  \/ Tick

Spec == Init /\ [][Next]_vars
==============================================================================
