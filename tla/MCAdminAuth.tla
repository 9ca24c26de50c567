---------------------------- MODULE MCAdminAuth ----------------------------
(* A small instance of AdminAuth for TLC: behaviours without sessions and    *)
(* any number of failures, and behaviours with sessions and few failures.    *)
EXTENDS AdminAuth

MCBounds == {[tokens |-> {}, failures |-> 0, counted |-> FALSE],
             [tokens |-> Tokens, failures |-> 2, counted |-> TRUE]}
=============================================================================
