--------------------------- MODULE MCOutboxRelay ---------------------------
(* Small instances of OutboxRelay for TLC. *)
EXTENDS OutboxRelay, TLC

CONSTANTS i1, i2, o1, o2

NotCalm == ~calm

Symmetry == Permutations(Instance)

\* Rows 1 and 3 are events of one order.
Keys == (1 :> o1) @@ (2 :> o2) @@ (3 :> o1)
============================================================================
