----------------------- MODULE MCIdempotencyRedis -----------------------
(* Model-checking instances of IdempotencyRedis. *)
EXTENDS IdempotencyRedis, TLC

Symmetry == Permutations(Env) \cup Permutations(Key) \cup Permutations(Payload)
=============================================================================
