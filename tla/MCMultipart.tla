---------------------------- MODULE MCMultipart ----------------------------
(* Small instances of Multipart for TLC.                                     *)
EXTENDS Multipart, TLC

CONSTANTS large, bad

MCSize == [c \in Contents |-> IF c = large THEN 2 ELSE 1]
MCLists == UNION {[S -> Contents] : S \in {{}, {1}, {1, 2}}} \ [{1, 2} -> {bad}]
=============================================================================
