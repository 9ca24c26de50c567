----------------------------- MODULE MCBilling -----------------------------
(* Small instances of Billing for TLC: one subscription whose deliveries    *)
(* may fail, and two whose deliveries do not.                               *)
EXTENDS Billing

MCLimits ==
  {[subs |-> {CHOOSE s \in Subs : TRUE}, events |-> 3, failures |-> 1],
   [subs |-> Subs, events |-> 4, failures |-> 0]}
=============================================================================
