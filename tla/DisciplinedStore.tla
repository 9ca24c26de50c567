-------------------------- MODULE DisciplinedStore --------------------------
(***************************************************************************)
(* The object store with well-behaved clients.  The handlers take no lock, *)
(* so the backend itself promises little when two requests work on one key *)
(* at a time; this module states what it does promise as long as clients   *)
(* keep their requests for a key apart: it behaves as AtomicStore.         *)
(*                                                                         *)
(* The discipline constrains only when a request may START; requests for   *)
(* different keys interleave freely.  A copy occupies its source and its   *)
(* target, and the deletion of a bucket occupies every key.                *)
(***************************************************************************)
EXTENDS ObjectStore

NoOverlap ==
  \A v, w \in Workers : v # w => Touches(v) \cap Touches(w) = {}

DisciplinedNext == Next /\ NoOverlap'

DisciplinedSpec == Init /\ [][DisciplinedNext]_vars

(* A payload becomes the content of its key when the row is written, and   *)
(* stops being it when the row goes.                                       *)
Atomic == INSTANCE AtomicStore WITH
  content <- [k \in Keys |-> rows[k].etag]

(* The disciplined store implements the atomic one.                        *)
ImplementsAtomic == Atomic!Spec
=============================================================================
