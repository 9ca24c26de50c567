------------------------------ MODULE Listing ------------------------------
(***************************************************************************)
(* Paged listings: ListObjects (V1 and V2 page alike), ListMultipartUploads*)
(* and ListParts.  A client asks for page after page, each time with the   *)
(* markers of the page before, while others add and remove entries.        *)
(*                                                                         *)
(* Names are their places 1, 2, ... in the order the database sorts them   *)
(* in; PrefixOf[k] is the place of the string up to k's first delimiter,   *)
(* or 0.  An entry is a name and an upload id; objects and parts have id 0.*)
(* The query's prefix only restricts which names there are.                *)
(***************************************************************************)
EXTENDS Integers, FiniteSets, Sequences, SequencesExt

CONSTANTS
  Names,        \* places of the names there may be
  PrefixOf,
  UploadIds,    \* upload ids a name may have uploads under
  PageSizes,    \* max-keys, max-uploads and max-parts clients ask for
  MaxWrites,    \* bound on the writes during a listing
  MaxPages      \* bound on the pages, for the listing that never ends

ASSUME ListingAssumption ==
  /\ Names \subseteq Nat \ {0} /\ IsFiniteSet(Names)
  /\ UploadIds \subseteq Nat \ {0} /\ IsFiniteSet(UploadIds)
  /\ PrefixOf \in [Names -> Nat]
  /\ \A k \in Names : PrefixOf[k] <= k
  \* what stands between a prefix and a name with it has that prefix too
  /\ \A k, m \in Names : PrefixOf[m] # 0 /\ k \in PrefixOf[m] .. m => PrefixOf[k] = PrefixOf[m]
  /\ PageSizes \subseteq Nat \ {0} /\ MaxWrites \in Nat /\ MaxPages \in Nat

VARIABLES
  query,     \* what is listed, with a delimiter or not, and the page size
  entries,   \* the rows
  always,    \* history: the rows there throughout the listing
  marker,    \* where the next page starts, NoMarker at first
  listed,    \* history: the items of the pages so far
  pages,     \* history: number of pages so far
  done,      \* the last page said it was not truncated
  writes     \* writes so far

vars == <<query, entries, always, marker, listed, pages, done, writes>>

----------------------------------------------------------------------------

Entry == Names \X ({0} \cup UploadIds)
Entries(kind) == Names \X (IF kind = "uploads" THEN UploadIds ELSE {0})
Query == [kind : {"objects", "uploads", "parts"}, delimiter : BOOLEAN, max : PageSizes]
Item == [kind : {"entry"}, at : Entry] \cup [kind : {"prefix"}, at : Nat \X {0}]
NoMarker == <<0, 0>>

Before(e, f) == e[1] < f[1] \/ (e[1] = f[1] /\ e[2] < f[2])

(* Mutant: resume at the marker.                                           *)
AfterOrAt(e) == e[1] >= marker[1]

(* Resume after the marker.  A marker without an upload id skips its name. *)
After(e) ==
  \/ e[1] > marker[1]
  \/ query.kind = "uploads" /\ e[1] = marker[1] /\ marker[2] # 0 /\ e[2] > marker[2]

ItemOf(e) ==
  IF query.delimiter /\ PrefixOf[e[1]] # 0
  THEN [kind |-> "prefix", at |-> <<PrefixOf[e[1]], 0>>]
  ELSE [kind |-> "entry", at |-> e]

(* The rows in order, each folded into the item it is listed as: names    *)
(* with one prefix stand together, so the loop's look at its last item     *)
(* finds every fold.                                                       *)
Rest == {e \in entries : After(e)}
Items == {ItemOf(e) : e \in Rest}
Place(item) == Cardinality({i \in Items : Before(i.at, item.at)}) + 1

(* Mutant: one item more than asked for.                                   *)
FitsOneMore(item) == Place(item) <= query.max + 1

Fits(item) == Place(item) <= query.max

Page ==
  LET shown == {i \in Items : Fits(i)} IN
  [items |-> [n \in 1 .. Cardinality(shown) |-> CHOOSE i \in shown : Place(i) = n],
   truncated |-> shown # Items,
   cut |-> {e \in Rest : ItemOf(e) \notin shown}]

FirstOf(S) == CHOOSE e \in S : \A f \in S \ {e} : Before(e, f)

----------------------------------------------------------------------------

(* One request and its answer; `next` is the marker it gives if truncated. *)
Answer(page, next) ==
  /\ listed' = listed \o page.items
  /\ pages' = pages + 1
  /\ done' = ~page.truncated
  /\ marker' = IF page.truncated THEN next ELSE marker
  /\ UNCHANGED <<query, entries, always, writes>>

Asking(kind) == ~done /\ pages < MaxPages /\ query.kind = kind

(* Mutant: a page resumes at the prefix it ended with.                     *)
ListObjectsByItem ==
  /\ Asking("objects")
  /\ LET page == Page IN Answer(page, Last(page.items).at)

(* Resumes after the last name the loop looked at: the first that did not  *)
(* fit.                                                                    *)
ListObjects ==
  /\ Asking("objects")
  /\ LET page == Page IN Answer(page, FirstOf(page.cut))

(* Mutant: the marker leaves out the upload id.                            *)
ListMultipartUploadsBare ==
  /\ Asking("uploads")
  /\ LET page == Page IN Answer(page, <<Last(page.items).at[1], 0>>)

(* Resumes after the last item, be it an upload or a prefix.               *)
ListMultipartUploads ==
  /\ Asking("uploads")
  /\ LET page == Page IN Answer(page, Last(page.items).at)

ListParts ==
  /\ Asking("parts")
  /\ LET page == Page IN Answer(page, Last(page.items).at)

Write ==
  /\ ~done /\ writes < MaxWrites
  /\ \E e \in Entries(query.kind) :
       /\ entries' = IF e \in entries THEN entries \ {e} ELSE entries \cup {e}
       /\ always' = always \ {e}
  /\ writes' = writes + 1
  /\ UNCHANGED <<query, marker, listed, pages, done>>

(* ListParts knows no delimiter.                                           *)
Init ==
  /\ query \in {q \in Query : q.delimiter => q.kind # "parts"}
  /\ entries \in SUBSET Entries(query.kind)
  /\ always = entries
  /\ marker = NoMarker /\ listed = <<>> /\ pages = 0
  /\ done = FALSE /\ writes = 0

NextPage == ListObjects \/ ListMultipartUploads \/ ListParts

Next == NextPage \/ Write

Spec == Init /\ [][Next]_vars
FairSpec == Spec /\ WF_vars(NextPage)

----------------------------------------------------------------------------
(* Properties.                                                             *)

(* Markers, pages and items have the shapes the code gives them.           *)
TypeOK ==
  /\ query \in Query
  /\ entries \subseteq Entries(query.kind) /\ always \subseteq entries
  /\ marker \in Nat \X ({0} \cup UploadIds)
  /\ \A n \in 1 .. Len(listed) : listed[n] \in Item
  /\ done \in BOOLEAN /\ pages \in 0 .. MaxPages /\ writes \in 0 .. MaxWrites
  /\ Len(listed) <= pages * query.max

(* A page of uploads that ends with a prefix resumes after the prefix, but *)
(* before the uploads under it, so the next page may begin with it again.  *)
FoldedUploads == query.kind = "uploads" /\ query.delimiter

(* The pages put together are in order and name nothing twice, neither a   *)
(* name nor a prefix, whatever is written between two pages; only folded   *)
(* uploads may repeat a prefix, and nothing but that.                      *)
ListedOnceInOrder ==
  \A n \in 1 .. Len(listed) - 1 :
    \/ Before(listed[n].at, listed[n + 1].at)
    \/ FoldedUploads /\ listed[n] = listed[n + 1] /\ listed[n].kind = "prefix"

Covers(item, e) ==
  IF item.kind = "prefix" THEN item.at[1] = PrefixOf[e[1]] ELSE item.at = e
Missed == {e \in always : \A n \in 1 .. Len(listed) : ~Covers(listed[n], e)}

(* A finished listing names every upload and every part that was there all *)
(* the time; a listing of objects loses at most one name at each page's    *)
(* end.                                                                    *)
MissesBounded ==
  done => IF query.kind = "objects" THEN Cardinality(Missed) <= pages - 1
                                    ELSE Missed = {}

(* Every listing comes to an end if the client goes on asking, except that *)
(* folded uploads need pages of two items.                                 *)
ListingEnds == (FoldedUploads => query.max > 1) => <>done

=============================================================================
