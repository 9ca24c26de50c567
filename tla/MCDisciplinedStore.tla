------------------------- MODULE MCDisciplinedStore -------------------------
(* Small instances of DisciplinedStore for TLC.                              *)
EXTENDS DisciplinedStore, TLC

CONSTANTS small, large

MCSize == [c \in Contents |-> IF c = large THEN 2 ELSE 1]
SomeConditions ==
  [kind : {"none", "absent", "unmodified"}, tag : {None}] \cup [kind : {"match"}, tag : {small}]
=============================================================================
