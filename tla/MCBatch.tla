------------------------------- MODULE MCBatch -------------------------------
(* Model-checking instances of Batch: two message groups, and every kind of
   processor with and without a model that some message does not fit. *)
EXTENDS Batch

CONSTANTS g1, g2

MCMessage == 1..3

\* 1 and 3 belong to one group, 2 to the other.
MCGroup == [m \in MCMessage |-> IF m = 2 THEN g2 ELSE g1]

Plain(kind, skip, raise) ==
  [kind |-> kind, skip |-> skip, raise |-> raise, invalid |-> {}, broken |-> {}]

Faultless ==
  {Plain(kind, FALSE, raise) : kind \in {"sync", "async"}, raise \in BOOLEAN}
    \cup {Plain("fifo", skip, TRUE) : skip \in BOOLEAN}

MCProcessors ==
  Faultless
    \cup {[p EXCEPT !.invalid = {2}] : p \in Faultless}
    \cup {[p EXCEPT !.invalid = {3}] : p \in Faultless}
    \cup {[p EXCEPT !.broken = {1}] : p \in Faultless}
    \cup {[p EXCEPT !.broken = {2}] : p \in Faultless}

\* A FIFO processor with a model the last message does not fit.
MCFifoModel == {[Plain("fifo", FALSE, TRUE) EXCEPT !.invalid = {3}]}
==============================================================================
