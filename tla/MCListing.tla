----------------------------- MODULE MCListing -----------------------------
(* The names a, b/, b/x and c, in that order.                               *)
EXTENDS Listing

MCPrefixOf == <<0, 2, 2, 0>>
=============================================================================
