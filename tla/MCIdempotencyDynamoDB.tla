----------------------- MODULE MCIdempotencyDynamoDB -----------------------
(* Model-checking instances of IdempotencyDynamoDB. *)
EXTENDS IdempotencyDynamoDB, TLC

Symmetry == Permutations(Env) \cup Permutations(Key) \cup Permutations(Payload)
=============================================================================
