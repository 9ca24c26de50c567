---------------------------- MODULE MCProvision ----------------------------
(* A small instance of Provision for TLC.                                   *)
EXTENDS Provision, TLC

MCPorts == 1 .. Cardinality(Ids)
Symmetry == Permutations(Domains) \cup Permutations(Ids) \cup Permutations(Procs)
=============================================================================
