---------------------------- MODULE MCObjectStore ----------------------------
(* Small instances of ObjectStore for TLC.                                   *)
EXTENDS ObjectStore, TLC

CONSTANTS small, large

MCSize == [c \in Contents |-> IF c = large THEN 2 ELSE 1]
Unconditional == {[kind |-> "none", tag |-> None]}

Symmetry == Permutations(Keys) \cup Permutations(Workers)
=============================================================================
