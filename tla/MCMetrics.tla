------------------------------ MODULE MCMetrics ------------------------------
(* Model-checking instances of Metrics: one configuration with a service, whose
   dimension always finds room, and one whose handlers meet the limit. *)
EXTENDS Metrics, TLC

CONSTANTS d1, d2, d3

MCDim == {d1, d2, d3}

Served == [service |-> TRUE, cold |-> TRUE, defaults |-> {d1}, uses |-> {d1}]
Crowded == [service |-> FALSE, cold |-> FALSE, defaults |-> {d1}, uses |-> {d1, d2, d3}]

MCConfigs ==
  {[disabled |-> b[1], raise |-> b[2], service |-> c.service, cold |-> c.cold,
    defaults |-> c.defaults, uses |-> c.uses] : b \in BOOLEAN \X BOOLEAN, c \in {Served, Crowded}}

Symmetry == Permutations(Name)
==============================================================================
