--------------------------- MODULE ListingProofs ---------------------------
(***************************************************************************)
(* Proofs about Listing, for any names and prefixes, upload ids, page      *)
(* sizes and writes between the pages: what the pages put together name.   *)
(***************************************************************************)
EXTENDS Listing, NaturalsInduction, WellFoundedInduction, SequenceTheorems, FiniteSetTheorems,
  TLAPS

(* The least element of a set of naturals.                                 *)
LEMMA Least ==
  ASSUME NEW S, S \subseteq Nat, S # {}
  PROVE  \E x \in S : \A y \in S : x <= y
<1> DEFINE less == {ss \in Nat \X Nat : ss[1] < ss[2]}
<1>1. less = OpToRel(<, Nat)
  BY Zenon DEF OpToRel
<1>2. IsWellFoundedOn(less, Nat)
  BY <1>1, NatLessThanWellFounded, Zenon
<1>3. \A x, y \in Nat : <<y, x>> \in less <=> y < x
  OBVIOUS
<1> HIDE DEF less
<1>4. PICK x \in S : \A y \in S : <<y, x>> \notin less
  BY <1>2, WFMin
<1>5. \A y \in S : x <= y
  <2> SUFFICES ASSUME NEW y \in S PROVE x <= y
    OBVIOUS
  <2>1. x \in Nat /\ y \in Nat /\ <<y, x>> \notin less
    BY <1>4
  <2>2. ~(y < x)
    BY <1>3, <2>1, Zenon
  <2> QED
    BY <2>1, <2>2
<1> QED
  BY <1>5

----------------------------------------------------------------------------
(* The order of positions, and of the items rows are folded into.          *)

Positions == Nat \X Nat

LEMMA Order ==
  ASSUME NEW p \in Positions, NEW q \in Positions
  PROVE  /\ ~Before(p, p)
         /\ Before(p, q) => ~Before(q, p) /\ p # q
         /\ p = q \/ Before(p, q) \/ Before(q, p)
         /\ \A r \in Positions : Before(p, q) /\ Before(q, r) => Before(p, r)
BY DEF Positions, Before

LEMMA FirstSound ==
  ASSUME NEW S, S \subseteq Positions, S # {}
  PROVE  FirstOf(S) \in S /\ \A f \in S : f = FirstOf(S) \/ Before(FirstOf(S), f)
<1>1. PICK a \in {e[1] : e \in S} : \A b \in {e[1] : e \in S} : a <= b
  <2>1. {e[1] : e \in S} \subseteq Nat /\ {e[1] : e \in S} # {}
    BY DEF Positions
  <2> QED
    BY <2>1, Least
<1> DEFINE T == {e \in S : e[1] = a}
<1>2. PICK c \in {e[2] : e \in T} : \A d \in {e[2] : e \in T} : c <= d
  <2>1. {e[2] : e \in T} \subseteq Nat /\ {e[2] : e \in T} # {}
    BY <1>1 DEF Positions
  <2> QED
    BY <2>1, Least
<1>3. PICK e \in S : e[1] = a /\ e[2] = c
  BY <1>2
<1>4. \A f \in S \ {e} : Before(e, f)
  <2> SUFFICES ASSUME NEW f \in S, f # e PROVE Before(e, f)
    OBVIOUS
  <2>1. e \in Positions /\ f \in Positions /\ a <= f[1]
    BY <1>1
  <2>2. f[1] = a => c <= f[2]
    BY <1>2
  <2> QED
    BY <1>3, <2>1, <2>2 DEF Positions, Before
<1>5. FirstOf(S) \in S /\ \A f \in S \ {FirstOf(S)} : Before(FirstOf(S), f)
  BY <1>4, Zenon DEF FirstOf
<1> QED
  BY <1>5

LEMMA EntryShape ==
  ASSUME query \in Query, NEW e \in Entries(query.kind)
  PROVE  /\ e \in Positions /\ e \in Entry /\ e = <<e[1], e[2]>>
         /\ e[1] \in Names /\ e[1] \in Nat \ {0} /\ e[2] \in Nat
         /\ query.kind = "uploads" => e[2] \in UploadIds /\ e[2] > 0
         /\ query.kind # "uploads" => e[2] = 0
<1>1. e \in Names \X UploadIds \/ e \in Names \X {0}
  BY DEF Entries
<1>2. query.kind = "uploads" => e \in Names \X UploadIds
  BY DEF Entries
<1>3. query.kind # "uploads" => e \in Names \X {0}
  BY DEF Entries
<1>4. Names \subseteq Nat \ {0} /\ UploadIds \subseteq Nat \ {0}
  BY ListingAssumption
<1> QED
  BY <1>1, <1>2, <1>3, <1>4 DEF Entry, Positions

Folds(e) == query.delimiter /\ PrefixOf[e[1]] # 0

LEMMA ItemShape ==
  ASSUME query \in Query, NEW e \in Entries(query.kind)
  PROVE  /\ ItemOf(e) \in Item /\ ItemOf(e).at \in Positions
         /\ ItemOf(e).at \in Nat \X ({0} \cup UploadIds)
         /\ ~Folds(e) => ItemOf(e).at = e /\ ItemOf(e).kind = "entry"
         /\ Folds(e) => /\ ItemOf(e).at = <<PrefixOf[e[1]], 0>> /\ ItemOf(e).kind = "prefix"
                        /\ PrefixOf[e[1]] \in Nat /\ PrefixOf[e[1]] <= e[1]
<1>1. /\ e \in Positions /\ e \in Entry /\ e[1] \in Names /\ e[2] \in {0} \cup UploadIds
      /\ e = <<e[1], e[2]>> /\ e[1] \in Nat
  BY EntryShape DEF Entries, Entry
<1>2. PrefixOf[e[1]] \in Nat /\ PrefixOf[e[1]] <= e[1]
  BY <1>1, ListingAssumption
<1>3. CASE Folds(e)
  <2>1. ItemOf(e) = [kind |-> "prefix", at |-> <<PrefixOf[e[1]], 0>>]
    BY <1>3 DEF Folds, ItemOf
  <2> QED
    BY <1>2, <1>3, <2>1 DEF Item, Positions
<1>4. CASE ~Folds(e)
  <2>1. ItemOf(e) = [kind |-> "entry", at |-> e]
    BY <1>4 DEF Folds, ItemOf
  <2>2. e \in Nat \X ({0} \cup UploadIds)
    BY <1>1
  <2> QED
    BY <1>1, <1>4, <2>1, <2>2 DEF Item
<1> QED
  BY <1>3, <1>4

(* Names with one prefix stand together, so rows are folded in order.      *)
LEMMA FoldsInOrder ==
  ASSUME query \in Query, NEW e \in Entries(query.kind), NEW f \in Entries(query.kind),
         Before(e, f)
  PROVE  ItemOf(e) = ItemOf(f) \/ Before(ItemOf(e).at, ItemOf(f).at)
<1> DEFINE p == PrefixOf[e[1]]
           q == PrefixOf[f[1]]
<1>1. /\ e \in Positions /\ f \in Positions /\ e[1] \in Names /\ f[1] \in Names
      /\ e[1] \in Nat /\ e[2] \in Nat /\ f[1] \in Nat /\ f[2] \in Nat
  BY EntryShape
<1>2. p \in Nat /\ q \in Nat /\ p <= e[1] /\ q <= f[1]
  BY <1>1, ListingAssumption
<1>3. e[1] <= f[1]
  BY <1>1 DEF Before
<1>4. q # 0 /\ q <= e[1] => p = q
  BY <1>1, <1>2, <1>3, ListingAssumption
<1>5. e[1] = f[1] => p = q
  OBVIOUS
<1> HIDE DEF p, q
<1>6. CASE ~Folds(e) /\ ~Folds(f)
  BY <1>6, ItemShape
<1>7. CASE ~Folds(e) /\ Folds(f)
  <2>1. ItemOf(e).at = e /\ ItemOf(f).at = <<q, 0>> /\ q # 0 /\ p = 0
    BY <1>7, ItemShape DEF Folds, p, q
  <2>2. e[1] < q
    BY <1>1, <1>2, <1>4, <2>1
  <2> QED
    BY <2>1, <2>2 DEF Before
<1>8. CASE Folds(e) /\ ~Folds(f)
  <2>1. ItemOf(f).at = f /\ ItemOf(e).at = <<p, 0>> /\ p # 0 /\ q = 0
    BY <1>8, ItemShape DEF Folds, p, q
  <2>2. p < f[1]
    BY <1>1, <1>2, <1>3, <1>5, <2>1
  <2> QED
    BY <2>1, <2>2 DEF Before
<1>9. CASE Folds(e) /\ Folds(f)
  <2>1. /\ ItemOf(e) = [kind |-> "prefix", at |-> <<p, 0>>] /\ p # 0
        /\ ItemOf(f) = [kind |-> "prefix", at |-> <<q, 0>>] /\ q # 0
    BY <1>9 DEF Folds, ItemOf, p, q
  <2>2. p = q \/ p < q
    BY <1>1, <1>2, <1>4, <2>1
  <2> QED
    BY <2>1, <2>2 DEF Before
<1> QED
  BY <1>6, <1>7, <1>8, <1>9

(* An item is known by its position.                                       *)
LEMMA OneItem ==
  ASSUME query \in Query, NEW e \in Entries(query.kind), NEW f \in Entries(query.kind),
         ItemOf(e).at = ItemOf(f).at
  PROVE  ItemOf(e) = ItemOf(f)
<1>1. /\ e \in Positions /\ f \in Positions
      /\ ItemOf(e).at \in Positions /\ ItemOf(f).at \in Positions
  BY EntryShape, ItemShape
<1>2. CASE e = f
  BY <1>2
<1>3. CASE Before(e, f)
  BY <1>1, <1>3, FoldsInOrder, Order
<1>4. CASE Before(f, e)
  BY <1>1, <1>4, FoldsInOrder, Order
<1> QED
  BY <1>1, <1>2, <1>3, <1>4, Order
----------------------------------------------------------------------------
(* A page.                                                                 *)

RowTypes ==
  /\ query \in Query /\ entries \subseteq Entries(query.kind) /\ always \subseteq entries
  /\ marker \in Nat \X ({0} \cup UploadIds)

LEMMA QueryShape ==
  ASSUME query \in Query
  PROVE  query.kind \in {"objects", "uploads", "parts"} /\ query.max \in Nat \ {0}
         /\ query.delimiter \in BOOLEAN
BY ListingAssumption DEF Query

LEMMA Finite ==
  ASSUME RowTypes
  PROVE  IsFiniteSet(entries) /\ IsFiniteSet(always) /\ IsFiniteSet(Rest) /\ IsFiniteSet(Items)
         /\ Rest \subseteq Entries(query.kind)
<1>1. IsFiniteSet(Entries(query.kind))
  <2>1. IsFiniteSet(Names \X UploadIds)
    BY ListingAssumption, FS_Product
  <2>2. IsFiniteSet(Names \X {0})
    BY ListingAssumption, FS_Product, FS_Singleton
  <2> QED
    BY <2>1, <2>2 DEF Entries
<1>2. IsFiniteSet(entries)
  BY <1>1, FS_Subset DEF RowTypes
<1>3. IsFiniteSet(always)
  BY <1>2, FS_Subset DEF RowTypes
<1>4. Rest \subseteq entries /\ Rest \subseteq Entries(query.kind)
  BY DEF Rest, RowTypes
<1>5. IsFiniteSet(Rest)
  BY <1>2, <1>4, FS_Subset
<1>6. IsFiniteSet(Items)
  <2> DEFINE fold == [e \in Rest |-> ItemOf(e)]
  <2>1. fold \in Surjection(Rest, Items)
    BY DEF Items, Surjection
  <2> HIDE DEF fold
  <2> QED
    BY <1>5, <2>1, FS_Surjection
<1> QED
  BY <1>2, <1>3, <1>4, <1>5, <1>6

LEMMA ItemsShape ==
  ASSUME RowTypes, NEW i \in Items, NEW j \in Items
  PROVE  /\ i \in Item /\ i.at \in Positions /\ j.at \in Positions
         /\ i = j \/ Before(i.at, j.at) \/ Before(j.at, i.at)
         /\ Before(i.at, j.at) => i # j /\ ~Before(j.at, i.at)
<1>1. PICK e \in Entries(query.kind), f \in Entries(query.kind) : i = ItemOf(e) /\ j = ItemOf(f)
  BY Finite DEF Items
<1>2. /\ i \in Item /\ i.at \in Positions /\ j.at \in Positions
      /\ i.at = j.at => i = j
  BY <1>1, ItemShape, OneItem DEF RowTypes
<1> QED
  BY <1>2, Order

(* Items are placed 1, 2, ... in their order.                              *)
LEMMA PlaceSound ==
  ASSUME RowTypes
  PROVE  /\ Cardinality(Items) \in Nat
         /\ \A i \in Items : Place(i) \in 1 .. Cardinality(Items)
         /\ \A i, j \in Items : /\ Before(i.at, j.at) <=> Place(i) < Place(j)
                                /\ Place(i) = Place(j) => i = j
         /\ \A n \in 1 .. Cardinality(Items) : \E i \in Items : Place(i) = n
<1> DEFINE N == Cardinality(Items)
           Below(i) == {j \in Items : Before(j.at, i.at)}
<1>1. IsFiniteSet(Items) /\ N \in Nat
  BY Finite, FS_CardinalityType
<1>2. ASSUME NEW i \in Items
      PROVE  /\ IsFiniteSet(Below(i)) /\ Cardinality(Below(i)) \in 0 .. N - 1
             /\ Place(i) = Cardinality(Below(i)) + 1
  <2>1. Below(i) \in SUBSET Items /\ i \notin Below(i)
    BY ItemsShape, Order
  <2>2. IsFiniteSet(Below(i)) /\ Cardinality(Below(i)) <= N /\ Cardinality(Below(i)) # N
    BY <1>1, <2>1, FS_Subset
  <2>3. Cardinality(Below(i)) \in Nat
    BY <2>2, FS_CardinalityType
  <2>4. Place(i) = Cardinality(Below(i)) + 1
    BY DEF Place
  <2> HIDE DEF Below, N
  <2> QED
    BY <1>1, <2>2, <2>3, <2>4
<1>3. ASSUME NEW i \in Items, NEW j \in Items, Before(i.at, j.at)
      PROVE  Cardinality(Below(i)) < Cardinality(Below(j))
  <2>1. Below(i) \subseteq Below(j)
    <3> SUFFICES ASSUME NEW k \in Items, Before(k.at, i.at) PROVE Before(k.at, j.at)
      OBVIOUS
    <3>1. i.at \in Positions /\ j.at \in Positions /\ k.at \in Positions
      BY ItemsShape
    <3> QED
      BY <1>3, <3>1, Order
  <2>2. i \in Below(j) /\ i \notin Below(i)
    BY <1>3, ItemsShape, Order
  <2>3. Below(i) \in SUBSET Below(j) /\ Below(i) # Below(j)
    BY <2>1, <2>2
  <2> HIDE DEF Below
  <2>4. IsFiniteSet(Below(j)) /\ Cardinality(Below(i)) \in Nat /\ Cardinality(Below(j)) \in Nat
    BY <1>1, <1>2
  <2>5. /\ Cardinality(Below(i)) <= Cardinality(Below(j))
        /\ Cardinality(Below(i)) # Cardinality(Below(j))
    BY <2>3, <2>4, FS_Subset
  <2> QED
    BY <2>4, <2>5
<1> HIDE DEF Below, N
<1>4. \A i \in Items : Place(i) \in 1 .. N
  BY <1>1, <1>2
<1>5. ASSUME NEW i \in Items, NEW j \in Items
      PROVE  (Before(i.at, j.at) <=> Place(i) < Place(j)) /\ (Place(i) = Place(j) => i = j)
  <2>1. Place(i) \in Nat /\ Place(j) \in Nat
    BY <1>4
  <2>2. ASSUME NEW k \in Items, NEW l \in Items, Before(k.at, l.at)
        PROVE  Place(k) < Place(l)
    BY <1>1, <1>2, <1>3, <2>2
  <2>3. i = j \/ Before(i.at, j.at) \/ Before(j.at, i.at)
    BY ItemsShape
  <2>4. Before(i.at, j.at) => Place(i) < Place(j)
    BY <2>2
  <2>5. Before(j.at, i.at) => Place(j) < Place(i)
    BY <2>2
  <2> QED
    BY <2>1, <2>3, <2>4, <2>5
<1>6. \A n \in 1 .. N : \E i \in Items : Place(i) = n
  <2> DEFINE place == [i \in Items |-> Place(i)]
  <2>1. place \in Injection(Items, 1 .. N)
    <3>1. place \in [Items -> 1 .. N] /\ \A i, j \in Items : place[i] = place[j] => i = j
      BY <1>4, <1>5
    <3> HIDE DEF place
    <3>2. \A i, j \in DOMAIN place : place[i] = place[j] => i = j
      BY <3>1
    <3> QED
      BY <3>1, <3>2 DEF Injection, IsInjective
  <2>2. IsFiniteSet(1 .. N) /\ Cardinality(1 .. N) = N
    BY <1>1, FS_Interval
  <2> HIDE DEF place
  <2>3. place \in Surjection(Items, 1 .. N)
    BY <2>1, <2>2, FS_Injection DEF N
  <2> QED
    BY <2>3 DEF Surjection, place
<1> QED
  BY <1>1, <1>4, <1>5, <1>6 DEF N
Shown == {i \in Items : Fits(i)}
Size == Cardinality(Shown)

LEMMA PageSound ==
  ASSUME RowTypes
  PROVE  /\ Size \in 0 .. query.max
         /\ Page.items \in Seq(Item) /\ Len(Page.items) = Size
         /\ \A n \in 1 .. Size : Page.items[n] \in Shown /\ Place(Page.items[n]) = n
         /\ \A i \in Shown : \E n \in 1 .. Size : Page.items[n] = i
         /\ Page.truncated = (Shown # Items)
         /\ Page.cut = {e \in Rest : ItemOf(e) \notin Shown}
         /\ Page.truncated => Size > 0 /\ Page.cut # {}
         /\ \A i \in Shown, e \in Page.cut : Before(i.at, ItemOf(e).at)
<1> DEFINE N == Cardinality(Items)
           m == IF N <= query.max THEN N ELSE query.max
<1>1. query.max \in Nat \ {0} /\ N \in Nat /\ m \in Nat /\ m <= N /\ m <= query.max
  BY QueryShape, PlaceSound DEF RowTypes
<1>2. /\ Page.items = [n \in 1 .. Size |-> CHOOSE i \in Shown : Place(i) = n]
      /\ Page.truncated = (Shown # Items)
      /\ Page.cut = {e \in Rest : ItemOf(e) \notin Shown}
  BY DEF Page, Shown, Size
<1>3. /\ \A i \in Items : Place(i) \in 1 .. N
      /\ \A n \in 1 .. N : \E i \in Items : Place(i) = n
      /\ \A i, j \in Items : /\ Before(i.at, j.at) <=> Place(i) < Place(j)
                             /\ Place(i) = Place(j) => i = j
  BY PlaceSound
<1> HIDE DEF N
<1>4. Shown \subseteq Items /\ \A i \in Items : i \in Shown <=> Place(i) \in 1 .. m
  BY <1>1, <1>3 DEF Shown, Fits
<1>5. \A n \in 1 .. m : \E i \in Shown : Place(i) = n
  BY <1>1, <1>3, <1>4
<1>6. Size = m
  <2> DEFINE place == [i \in Shown |-> Place(i)]
  <2>1. place \in [Shown -> 1 .. m] /\ \A i, j \in Shown : place[i] = place[j] => i = j
    BY <1>3, <1>4
  <2>2. \A n \in 1 .. m : \E i \in Shown : place[i] = n
    BY <1>5
  <2> HIDE DEF place, m
  <2>3. \A i, j \in DOMAIN place : place[i] = place[j] => i = j
    BY <2>1
  <2>4. place \in Bijection(Shown, 1 .. m)
    BY <2>1, <2>2, <2>3 DEF Bijection, Injection, Surjection, IsInjective
  <2>5. IsFiniteSet(Shown)
    BY <1>4, Finite, FS_Subset
  <2>6. Cardinality(1 .. m) = Cardinality(Shown)
    BY <2>4, <2>5, FS_Bijection DEF ExistsBijection
  <2> QED
    BY <1>1, <2>6, FS_Interval DEF Size
<1> HIDE DEF m
<1>7. \A n \in 1 .. Size : Page.items[n] \in Shown /\ Place(Page.items[n]) = n
  BY <1>2, <1>5, <1>6
<1>8. Page.items \in Seq(Item) /\ Len(Page.items) = Size
  <2>1. Shown \subseteq Item
    BY <1>4, ItemsShape
  <2>2. Page.items \in [1 .. Size -> Item]
    BY <1>2, <1>7, <2>1
  <2> QED
    BY <1>1, <1>2, <1>6, <2>2
<1>9. \A i \in Shown : \E n \in 1 .. Size : Page.items[n] = i
  <2> SUFFICES ASSUME NEW i \in Shown PROVE \E n \in 1 .. Size : Page.items[n] = i
    OBVIOUS
  <2>1. Place(i) \in 1 .. Size /\ i \in Items
    BY <1>4, <1>6
  <2>2. Page.items[Place(i)] \in Items /\ Place(Page.items[Place(i)]) = Place(i)
    BY <1>4, <1>7, <2>1
  <2> QED
    BY <1>3, <2>1, <2>2
<1>10. ASSUME Page.truncated PROVE Size > 0 /\ Page.cut # {}
  <2>0. Shown # Items
    BY <1>2, <1>10
  <2>1. PICK i \in Items : i \notin Shown
    BY <1>4, <2>0
  <2>2. PICK e \in Rest : i = ItemOf(e)
    BY <2>1 DEF Items
  <2>3. Page.cut # {}
    BY <1>2, <2>1, <2>2
  <2>4. N > 0
    BY <1>1, <1>3, <2>1
  <2> QED
    BY <1>1, <1>6, <2>3, <2>4 DEF m
<1>11. ASSUME NEW i \in Shown, NEW e \in Page.cut PROVE Before(i.at, ItemOf(e).at)
  <2>1. i \in Items /\ ItemOf(e) \in Items /\ ItemOf(e) \notin Shown
    BY <1>2, <1>4 DEF Items
  <2>2. Place(i) < Place(ItemOf(e))
    BY <1>1, <1>3, <1>4, <2>1
  <2> QED
    BY <1>3, <2>1, <2>2
<1>12. Size \in 0 .. query.max
  BY <1>1, <1>6
<1> QED
  BY <1>2, <1>7, <1>8, <1>9, <1>10, <1>11, <1>12, Zenon

(* The last item of a page that is cut short.                              *)
LEMMA LastShown ==
  ASSUME RowTypes, Page.truncated
  PROVE  /\ Last(Page.items) \in Shown /\ Last(Page.items) = Page.items[Size]
         /\ \A i \in Shown : i = Last(Page.items) \/ Before(i.at, Last(Page.items).at)
         /\ \E e \in Rest : Last(Page.items) = ItemOf(e)
<1>1. Size \in Nat /\ Size > 0 /\ Len(Page.items) = Size
  <2>1. query.max \in Nat
    BY QueryShape DEF RowTypes
  <2>2. Size \in 0 .. query.max /\ Size > 0 /\ Len(Page.items) = Size
    BY PageSound
  <2> QED
    BY <2>1, <2>2
<1>2. Last(Page.items) = Page.items[Size] /\ Size \in 1 .. Size
  BY <1>1 DEF Last
<1>3. Last(Page.items) \in Shown /\ Place(Last(Page.items)) = Size
  BY <1>2, PageSound
<1>4. ASSUME NEW i \in Shown PROVE i = Last(Page.items) \/ Before(i.at, Last(Page.items).at)
  <2>1. PICK n \in 1 .. Size : Page.items[n] = i
    BY PageSound
  <2>2. Place(i) = n
    BY <2>1, PageSound
  <2>3. i \in Items /\ Last(Page.items) \in Items
    BY <1>3 DEF Shown
  <2> QED
    BY <1>2, <1>3, <2>1, <2>2, <2>3, PlaceSound
<1> QED
  BY <1>2, <1>3, <1>4 DEF Shown, Items
----------------------------------------------------------------------------
(* The inductive invariant.                                                *)

Repeats(i, j) == FoldedUploads /\ i = j /\ i.kind = "prefix"

(* What the next page may begin with comes after what the last one ended   *)
(* with.                                                                   *)
Ahead ==
  listed # <<>> => \A e \in Entries(query.kind) : After(e) =>
    \/ Before(Last(listed).at, ItemOf(e).at)
    \/ Repeats(Last(listed), ItemOf(e))

(* What the marker has passed without its being listed.                    *)
Lost == {e \in Missed : ~After(e)}

HistoryTypes ==
  /\ query.delimiter => query.kind # "parts"
  /\ listed \in Seq(Item) /\ Len(listed) <= pages * query.max
  /\ done \in BOOLEAN /\ pages \in 0 .. MaxPages /\ writes \in 0 .. MaxWrites

ListingInv ==
  /\ RowTypes /\ HistoryTypes
  /\ ListedOnceInOrder
  /\ ~done => Ahead
  /\ ~done => IF query.kind = "objects" THEN Cardinality(Lost) <= pages ELSE Lost = {}
  /\ MissesBounded

LEMMA MissedFinite ==
  ASSUME RowTypes
  PROVE  /\ IsFiniteSet(Missed) /\ Cardinality(Missed) \in Nat
         /\ IsFiniteSet(Lost) /\ Cardinality(Lost) \in Nat /\ Missed \subseteq always
<1>1. Missed \in SUBSET always /\ Lost \in SUBSET always
  BY DEF Missed, Lost
<1> QED
  BY <1>1, Finite, FS_Subset, FS_CardinalityType

LEMMA ListingInit ==
  ASSUME Init
  PROVE  ListingInv
<1>1. /\ query \in Query /\ entries \subseteq Entries(query.kind) /\ always = entries
      /\ query.delimiter => query.kind # "parts"
      /\ marker = <<0, 0>> /\ listed = <<>> /\ pages = 0 /\ done = FALSE /\ writes = 0
  BY DEF Init, NoMarker
<1>2. RowTypes /\ query.max \in Nat
  BY <1>1, QueryShape DEF RowTypes
<1>3. HistoryTypes
  <2>1. <<>> \in Seq(Item) /\ Len(<<>>) = 0 /\ 0 * query.max = 0
    BY <1>2
  <2>2. MaxPages \in Nat /\ MaxWrites \in Nat
    BY ListingAssumption
  <2>3. listed \in Seq(Item) /\ Len(listed) <= pages * query.max
    BY <1>1, <2>1
  <2>4. pages \in 0 .. MaxPages /\ writes \in 0 .. MaxWrites
    BY <1>1, <2>2
  <2>5. done \in BOOLEAN
    BY <1>1
  <2> QED
    BY <1>1, <2>3, <2>4, <2>5 DEF HistoryTypes
<1>4. Lost = {}
  <2> SUFFICES ASSUME NEW e \in entries PROVE After(e)
    BY <1>1 DEF Lost, Missed
  <2>1. e[1] \in Nat \ {0}
    BY <1>1, EntryShape
  <2> QED
    BY <1>1, <2>1 DEF After
<1> QED
  BY <1>1, <1>2, <1>3, <1>4, FS_EmptySet
  DEF ListingInv, ListedOnceInOrder, Ahead, MissesBounded

(* A row on a page is covered by it.                                       *)
LEMMA PageCovers ==
  ASSUME RowTypes, NEW e \in Rest, ItemOf(e) \in Shown
  PROVE  \E n \in 1 .. Size : Covers(Page.items[n], e)
<1>1. e \in Entries(query.kind)
  BY Finite
<1>2. Covers(ItemOf(e), e)
  <2>1. CASE Folds(e)
    BY <1>1, <2>1, ItemShape DEF Covers, RowTypes
  <2>2. CASE ~Folds(e)
    BY <1>1, <2>2, ItemShape DEF Covers, RowTypes
  <2> QED
    BY <2>1, <2>2
<1>3. PICK n \in 1 .. Size : Page.items[n] = ItemOf(e)
  BY PageSound
<1> QED
  BY <1>2, <1>3

(* A page, if what comes after its marker comes after its last item, and   *)
(* what its marker leaves behind without its being shown is at most `lost`.*)
LEMMA PageStep ==
  ASSUME ListingInv, ~done, pages < MaxPages, NEW next, Answer(Page, next), NEW lost,
         Page.truncated =>
           /\ next \in Nat \X ({0} \cup UploadIds)
           /\ \A e \in Entries(query.kind) : After(e)' =>
                \/ Before(Last(Page.items).at, ItemOf(e).at)
                \/ Repeats(Last(Page.items), ItemOf(e))
           /\ \A e \in Page.cut : ~After(e)' => query.kind = "objects" /\ e = lost
  PROVE  ListingInv'
<1> DEFINE p == Page.items
           L == Len(listed)
<1>1. /\ listed' = listed \o p /\ pages' = pages + 1 /\ done' = ~Page.truncated
      /\ marker' = IF Page.truncated THEN next ELSE marker
      /\ UNCHANGED <<query, entries, always, writes>>
  BY DEF Answer
<1>2. RowTypes /\ HistoryTypes /\ Ahead
  BY DEF ListingInv
<1>3. RowTypes'
  BY <1>1, <1>2 DEF RowTypes
<1>4. /\ Size \in Nat /\ Size <= query.max /\ query.max \in Nat /\ p \in Seq(Item) /\ Len(p) = Size
      /\ \A n \in 1 .. Size : p[n] \in Shown /\ Place(p[n]) = n
  <2>1. query.max \in Nat
    BY <1>2, QueryShape DEF RowTypes
  <2> QED
    BY <1>2, <2>1, PageSound
<1>5. listed \in Seq(Item) /\ L \in Nat /\ L <= pages * query.max /\ pages \in 0 .. MaxPages
  BY <1>2 DEF HistoryTypes
<1> HIDE DEF p, L
<1>6. /\ listed' \in Seq(Item) /\ Len(listed') = L + Size
      /\ \A n \in 1 .. L + Size : listed'[n] = IF n <= L THEN listed[n] ELSE p[n - L]
  BY <1>1, <1>4, <1>5, ConcatProperties DEF L
<1>7. HistoryTypes'
  <2>1. L + Size <= (pages + 1) * query.max
    <3>1. pages \in Nat /\ query.max \in Nat
      BY <1>4, <1>5, ListingAssumption
    <3>2. (pages + 1) * query.max = pages * query.max + query.max /\ pages * query.max \in Nat
      BY <3>1
    <3> QED
      BY <1>4, <1>5, <3>1, <3>2
  <2>2. done' \in BOOLEAN
    <3>1. Page.truncated \in BOOLEAN
      BY <1>2, PageSound
    <3> QED
      BY <1>1, <3>1
  <2>3. pages' \in 0 .. MaxPages
    BY <1>1, <1>5, ListingAssumption
  <2> QED
    BY <1>1, <1>2, <1>6, <2>1, <2>2, <2>3 DEF HistoryTypes
<1>8. ListedOnceInOrder'
  <2> SUFFICES ASSUME NEW n \in 1 .. Len(listed') - 1
               PROVE  \/ Before(listed'[n].at, listed'[n + 1].at)
                      \/ FoldedUploads /\ listed'[n] = listed'[n + 1] /\ listed'[n].kind = "prefix"
    BY <1>1 DEF ListedOnceInOrder, FoldedUploads
  <2>1. CASE n < L
    <3>1. n \in 1 .. L - 1 /\ listed'[n] = listed[n] /\ listed'[n + 1] = listed[n + 1]
      BY <1>4, <1>5, <1>6, <2>1
    <3> QED
      BY <3>1 DEF ListingInv, ListedOnceInOrder, L
  <2>2. CASE n = L
    <3>1. 1 \in 1 .. Size /\ listed'[n] = listed[L] /\ listed'[n + 1] = p[1]
      BY <1>4, <1>5, <1>6, <2>2
    <3>2. listed # <<>> /\ Last(listed) = listed[L]
      BY <1>4, <1>5, <1>6, <2>2 DEF Last, L
    <3>3. PICK e \in Rest : p[1] = ItemOf(e)
      BY <1>4, <3>1 DEF Shown, Items
    <3>4. e \in Entries(query.kind) /\ After(e)
      BY <1>2, <3>3, Finite DEF Rest
    <3> QED
      BY <1>2, <3>1, <3>2, <3>3, <3>4 DEF Ahead, Repeats
  <2>3. CASE n > L
    <3>1. PICK m \in 1 .. Size - 1 : m = n - L
      BY <1>4, <1>5, <1>6, <2>3
    <3>2. /\ m \in 1 .. Size /\ m + 1 \in 1 .. Size
          /\ listed'[n] = p[m] /\ listed'[n + 1] = p[m + 1]
      <4>1. m + 1 = n + 1 - L /\ ~(n <= L) /\ ~(n + 1 <= L)
        BY <1>5, <1>6, <2>3, <3>1
      <4>2. n \in 1 .. L + Size /\ n + 1 \in 1 .. L + Size /\ m \in 1 .. Size /\ m + 1 \in 1 .. Size
        BY <1>4, <1>5, <1>6, <3>1
      <4>3. listed'[n] = p[n - L]
        BY <1>6, <4>1, <4>2
      <4>4. PICK k \in 1 .. L + Size : k = n + 1
        BY <4>2
      <4>5. L \in Nat /\ k > L /\ k - L = m + 1
        BY <1>5, <1>6, <4>1, <4>4
      <4>6. listed'[k] = IF k <= L THEN listed[k] ELSE p[k - L]
        BY <1>6, <4>4
      <4>7. ~(k <= L)
        BY <4>4, <4>5
      <4>8. listed'[k] = p[m + 1]
        BY <4>5, <4>6, <4>7
      <4> QED
        BY <3>1, <4>1, <4>2, <4>3, <4>4, <4>8
    <3>3. /\ p[m] \in Items /\ p[m + 1] \in Items /\ Place(p[m]) < Place(p[m + 1])
      BY <1>4, <3>1, <3>2 DEF Shown
    <3> QED
      BY <1>2, <3>2, <3>3, PlaceSound
  <2> QED
    BY <1>4, <1>5, <1>6, <2>1, <2>2, <2>3
<1>9. ASSUME ~done' PROVE Ahead'
  <2>1. Page.truncated
    BY <1>1, <1>9
  <2>2. Size > 0
    BY <1>2, <2>1, PageSound
  <2>3. Last(listed') = Last(p)
    BY <1>4, <1>5, <1>6, <2>2 DEF Last
  <2>4. \A e \in Entries(query.kind) : ItemOf(e)' = ItemOf(e)
    BY <1>1 DEF ItemOf
  <2> QED
    BY <1>1, <2>1, <2>3, <2>4 DEF Ahead, Repeats, FoldedUploads, p
<1>10. Missed' \subseteq Missed /\ \A e \in Missed' : e \in Lost \/ e \in Page.cut
  <2>1. ASSUME NEW e \in Missed', NEW n \in 1 .. L PROVE ~Covers(listed[n], e)
    <3>1. n \in 1 .. Len(listed') /\ listed'[n] = listed[n]
      BY <1>4, <1>5, <1>6
    <3> QED
      BY <3>1 DEF Missed, Covers
  <2>2. ASSUME NEW e \in Missed', NEW n \in 1 .. Size PROVE ~Covers(p[n], e)
    <3>1. PICK m \in 1 .. L + Size : m = L + n
      BY <1>4, <1>5
    <3>2. m \in 1 .. Len(listed') /\ listed'[m] = p[n]
      <4>1. ~(m <= L) /\ m - L = n
        BY <1>4, <1>5, <3>1
      <4> QED
        BY <1>6, <4>1
    <3> QED
      BY <3>2 DEF Missed, Covers
  <2>3. Missed' \subseteq always
    BY <1>1 DEF Missed
  <2>4. Missed' \subseteq Missed
    BY <2>1, <2>3 DEF Missed, L
  <2>5. ASSUME NEW e \in Missed', ~(e \in Lost) PROVE e \in Page.cut
    <3>1. e \in Rest
      BY <1>2, <2>3, <2>4, <2>5 DEF Lost, Rest, RowTypes
    <3>2. ItemOf(e) \notin Shown
      BY <1>2, <2>2, <3>1, PageCovers DEF p
    <3> QED
      BY <1>2, <3>1, <3>2, PageSound
  <2> QED
    BY <2>4, <2>5
<1>11. /\ IsFiniteSet(Lost) /\ Cardinality(Lost) \in Nat /\ IsFiniteSet(Missed')
       /\ Cardinality(Missed') \in Nat
       /\ IF query.kind = "objects" THEN Cardinality(Lost) <= pages ELSE Lost = {}
  <2>1. IsFiniteSet(Missed') /\ Cardinality(Missed') \in Nat
    BY <1>2, <1>10, MissedFinite, FS_Subset, FS_CardinalityType
  <2> QED
    BY <1>2, <2>1, MissedFinite DEF ListingInv
<1>12. MissesBounded'
  <2> SUFFICES ASSUME done'
               PROVE  IF query.kind = "objects" THEN Cardinality(Missed') <= pages ELSE Missed' = {}
    BY <1>1, <1>5, <1>11 DEF MissesBounded
  <2>1. Page.cut = {}
    <3>1. ~Page.truncated /\ Page.truncated = (Shown # Items)
      BY <1>1, <1>2, PageSound
    <3>2. Shown = Items
      BY <3>1
    <3>3. Page.cut = {e \in Rest : ItemOf(e) \notin Items}
      BY <1>2, <3>2, PageSound
    <3> QED
      BY <3>3 DEF Items
  <2>2. Missed' \in SUBSET Lost
    BY <1>10, <2>1
  <2>3. Cardinality(Missed') <= Cardinality(Lost)
    BY <1>11, <2>2, FS_Subset
  <2> QED
    BY <1>5, <1>11, <2>2, <2>3
<1>13. ASSUME ~done'
       PROVE  IF query.kind = "objects" THEN Cardinality(Lost') <= pages + 1 ELSE Lost' = {}
  <2>1. Page.truncated
    BY <1>1, <1>13
  <2>2. \A e \in Lost' : e \in Lost \/ (query.kind = "objects" /\ e = lost)
    BY <1>10, <2>1 DEF Lost
  <2>3. CASE query.kind = "objects"
    <3>1. Lost' \in SUBSET (Lost \cup {lost})
      BY <2>2
    <3>2. IsFiniteSet(Lost \cup {lost}) /\ Cardinality(Lost \cup {lost}) <= Cardinality(Lost) + 1
      <4>1. /\ IsFiniteSet(Lost \cup {lost})
            /\ Cardinality(Lost \cup {lost}) = IF lost \in Lost THEN Cardinality(Lost)
                                                           ELSE Cardinality(Lost) + 1
        BY <1>11, FS_AddElement, Zenon
      <4> QED
        BY <1>11, <4>1
    <3>3. IsFiniteSet(Lost') /\ Cardinality(Lost') <= Cardinality(Lost \cup {lost})
      BY <3>1, <3>2, FS_Subset
    <3>4. Cardinality(Lost') \in Nat /\ Cardinality(Lost \cup {lost}) \in Nat
      BY <3>2, <3>3, FS_CardinalityType
    <3> QED
      BY <1>5, <1>11, <2>3, <3>2, <3>3, <3>4
  <2>4. CASE query.kind # "objects"
    BY <1>11, <2>2, <2>4
  <2> QED
    BY <2>3, <2>4
<1> QED
  BY <1>1, <1>3, <1>7, <1>8, <1>9, <1>12, <1>13 DEF ListingInv
(* ListObjects resumes after the first row that did not fit.               *)
LEMMA ObjectsStep ==
  ASSUME ListingInv, ListObjects
  PROVE  ListingInv'
<1> DEFINE c == FirstOf(Page.cut)
<1>1. ~done /\ pages < MaxPages /\ query.kind = "objects" /\ Answer(Page, c)
  BY DEF ListObjects, Asking
<1>2. RowTypes /\ query' = query
  BY <1>1 DEF ListingInv, Answer
<1>3. ASSUME Page.truncated
      PROVE  /\ c \in Nat \X ({0} \cup UploadIds)
             /\ \A e \in Entries(query.kind) : After(e)' =>
                  \/ Before(Last(Page.items).at, ItemOf(e).at)
                  \/ Repeats(Last(Page.items), ItemOf(e))
             /\ \A e \in Page.cut : ~After(e)' => query.kind = "objects" /\ e = c
  <2>1. Page.cut # {} /\ Page.cut \subseteq Entries(query.kind)
    BY <1>2, <1>3, Finite, PageSound
  <2>2. \A e \in Entries(query.kind) : e \in Positions /\ e[1] \in Nat /\ e[2] = 0
    BY <1>1, <1>2, EntryShape DEF RowTypes
  <2>3. c \in Page.cut /\ \A f \in Page.cut : f = c \/ Before(c, f)
    BY <2>1, <2>2, FirstSound
  <2>4. c \in Entries(query.kind)
    BY <2>1, <2>3
  <2>5. marker' = c
    BY <1>1, <1>3 DEF Answer
  <2> HIDE DEF c
  <2>6. \A e : After(e)' <=> e[1] > c[1]
    BY <1>1, <1>2, <2>5 DEF After
  <2>7. c \in Nat \X ({0} \cup UploadIds)
    BY <1>1, <2>2, <2>4 DEF Entries, Positions
  <2>8. ASSUME NEW e \in Entries(query.kind), After(e)'
        PROVE  Before(Last(Page.items).at, ItemOf(e).at)
    <3>1. Before(c, e)
      BY <2>6, <2>8 DEF Before
    <3>2. ItemOf(c) = ItemOf(e) \/ Before(ItemOf(c).at, ItemOf(e).at)
      BY <1>2, <2>4, <3>1, FoldsInOrder DEF RowTypes
    <3>3. Last(Page.items) \in Shown /\ \E g \in Entries(query.kind) : Last(Page.items) = ItemOf(g)
      BY <1>2, <1>3, LastShown, Finite
    <3>4. Before(Last(Page.items).at, ItemOf(c).at)
      BY <1>2, <2>3, <3>3, PageSound
    <3>5. /\ Last(Page.items).at \in Positions /\ ItemOf(c).at \in Positions
          /\ ItemOf(e).at \in Positions
      BY <1>2, <2>4, <3>3, ItemShape DEF RowTypes
    <3> QED
      BY <3>2, <3>4, <3>5, Order
  <2>9. ASSUME NEW e \in Page.cut, ~After(e)' PROVE e = c
    <3>1. e \in Entries(query.kind) /\ ~(e[1] > c[1])
      BY <2>1, <2>6, <2>9
    <3> QED
      BY <2>2, <2>3, <2>4, <2>9, <3>1 DEF Before
  <2> QED
    BY <1>1, <2>7, <2>8, <2>9
<1> HIDE DEF c
<1> QED
  BY <1>1, <1>3, PageStep

(* The other listings resume after the last item they show.                *)
LEMMA OthersStep ==
  ASSUME ListingInv, ListMultipartUploads \/ ListParts
  PROVE  ListingInv'
<1> DEFINE l == Last(Page.items)
<1>1. /\ ~done /\ pages < MaxPages /\ query.kind \in {"uploads", "parts"} /\ Answer(Page, l.at)
      /\ query' = query
  BY DEF ListMultipartUploads, ListParts, Asking, Answer
<1>2. RowTypes /\ (query.delimiter => query.kind # "parts")
  BY DEF ListingInv, HistoryTypes
<1>3. ASSUME Page.truncated
      PROVE  /\ l.at \in Nat \X ({0} \cup UploadIds)
             /\ \A e \in Entries(query.kind) : After(e)' =>
                  \/ Before(l.at, ItemOf(e).at)
                  \/ Repeats(l, ItemOf(e))
             /\ \A e \in Page.cut : After(e)'
  <2>1. l \in Shown /\ marker' = l.at
    BY <1>1, <1>2, <1>3, LastShown DEF Answer
  <2>2. PICK g \in Entries(query.kind) : l = ItemOf(g)
    BY <1>2, <1>3, LastShown, Finite
  <2> DEFINE p == PrefixOf[g[1]]
  <2>3. /\ g \in Positions /\ g[1] \in Names /\ g[1] \in Nat /\ g[2] \in Nat
        /\ query.kind = "uploads" => g[2] > 0
        /\ l.at \in Positions /\ l.at \in Nat \X ({0} \cup UploadIds)
        /\ ~Folds(g) => l.at = g /\ l.kind = "entry"
        /\ Folds(g) => /\ l.at = <<p, 0>> /\ l.kind = "prefix" /\ p \in Nat /\ p <= g[1] /\ p # 0
                       /\ query.delimiter /\ query.kind = "uploads"
    BY <1>1, <1>2, <2>2, EntryShape, ItemShape DEF RowTypes, Folds
  <2>4. ASSUME NEW e \in Entries(query.kind)
        PROVE  /\ e \in Positions /\ e[1] \in Names /\ e[1] \in Nat /\ e[2] \in Nat
               /\ query.kind # "uploads" => e[2] = 0
               /\ ItemOf(e).at \in Positions
               /\ ~Folds(e) => ItemOf(e).at = e /\ ItemOf(e).kind = "entry"
               /\ Folds(e) => /\ ItemOf(e).at = <<PrefixOf[e[1]], 0>>
                              /\ PrefixOf[e[1]] \in Nat /\ PrefixOf[e[1]] <= e[1]
    BY <1>2, EntryShape, ItemShape DEF RowTypes
  <2>5. \A e : After(e)' <=>
          \/ e[1] > l.at[1]
          \/ query.kind = "uploads" /\ e[1] = l.at[1] /\ l.at[2] # 0 /\ e[2] > l.at[2]
    BY <1>1, <2>1 DEF After
  <2>6. ASSUME NEW e \in Entries(query.kind), Folds(g), p <= e[1], e[1] <= g[1]
        PROVE  Folds(e) /\ ItemOf(e) = l
    <3>1. PrefixOf[e[1]] = p
      <4>1. e[1] \in p .. g[1]
        BY <2>3, <2>4, <2>6
      <4>2. e[1] \in Names /\ g[1] \in Names /\ p # 0
        BY <2>3, <2>4, <2>6
      <4> QED
        BY <4>1, <4>2, ListingAssumption
    <3> QED
      BY <2>2, <2>6, <3>1 DEF Folds, ItemOf
  <2> HIDE DEF l, p
  <2>7. ASSUME NEW e \in Entries(query.kind), After(e)'
        PROVE  Before(l.at, ItemOf(e).at) \/ Repeats(l, ItemOf(e))
    <3>1. Before(g, e) => l = ItemOf(e) \/ Before(l.at, ItemOf(e).at)
      BY <1>2, <2>2, FoldsInOrder DEF RowTypes
    <3>2. CASE ~Folds(g)
      <4>1. Before(g, e)
        BY <2>3, <2>5, <2>7, <3>2 DEF Before
      <4>2. l # ItemOf(e)
        <5>1. g # e
          BY <2>3, <4>1, Order
        <5>2. Folds(e) => ItemOf(e).kind = "prefix"
          BY <1>2, ItemShape DEF RowTypes
        <5>3. l.kind = "entry" /\ l.at = g
          BY <2>3, <3>2
        <5> QED
          BY <2>4, <5>1, <5>2, <5>3
      <4> QED
        BY <3>1, <4>1, <4>2
    <3>3. CASE Folds(g)
      <4>1. FoldedUploads /\ l.kind = "prefix"
        BY <2>3, <3>3 DEF FoldedUploads
      <4>2. e[1] > p
        BY <2>3, <2>5, <2>7, <3>3
      <4>3. e[1] <= g[1] \/ Before(g, e)
        BY <2>3, <2>4 DEF Before
      <4>4. e[1] <= g[1] => ItemOf(e) = l
        BY <2>3, <2>4, <2>6, <3>3, <4>2
      <4> QED
        BY <3>1, <4>1, <4>3, <4>4 DEF Repeats
    <3> QED
      BY <3>2, <3>3
  <2>8. ASSUME NEW e \in Page.cut PROVE After(e)'
    <3>1. e \in Entries(query.kind) /\ Before(l.at, ItemOf(e).at)
      BY <1>2, <2>1, Finite, PageSound
    <3>2. CASE ~Folds(g)
      <4>1. l.at = g /\ Before(g, ItemOf(e).at)
        BY <2>3, <3>1, <3>2
      <4>2. CASE Folds(e)
        <5>1. ItemOf(e).at[1] <= e[1] /\ ItemOf(e).at[2] = 0 /\ ItemOf(e).at[1] \in Nat
          BY <2>4, <3>1, <4>2
        <5>2. g[1] < ItemOf(e).at[1]
          BY <2>3, <4>1, <5>1 DEF Before
        <5> QED
          BY <2>3, <2>4, <2>5, <3>1, <4>1, <5>1, <5>2
      <4>3. CASE ~Folds(e)
        <5>1. Before(g, e)
          BY <2>4, <3>1, <4>1, <4>3
        <5>2. query.kind = "uploads" \/ (g[2] >= 0 /\ e[2] = 0)
          BY <2>3, <2>4, <3>1
        <5> QED
          BY <2>3, <2>4, <2>5, <3>1, <4>1, <5>1, <5>2 DEF Before
      <4> QED
        BY <4>2, <4>3
    <3>3. CASE Folds(g)
      <4>1. l.at = <<p, 0>> /\ p \in Nat
        BY <2>3, <3>3
      <4>2. e[1] > p
        <5>1. CASE Folds(e)
          <6>1. ItemOf(e).at[1] <= e[1] /\ ItemOf(e).at[2] = 0 /\ ItemOf(e).at[1] \in Nat
            BY <2>4, <3>1, <5>1
          <6>2. p < ItemOf(e).at[1]
            BY <3>1, <4>1, <6>1 DEF Before
          <6> QED
            BY <2>4, <3>1, <4>1, <6>1, <6>2
        <5>2. CASE ~Folds(e)
          <6>1. p < e[1] \/ p = e[1]
            BY <2>4, <3>1, <4>1, <5>2 DEF Before
          <6>2. p = e[1] => Folds(e)
            BY <2>3, <2>4, <2>6, <3>1, <3>3
          <6> QED
            BY <2>4, <3>1, <4>1, <5>2, <6>1, <6>2
        <5> QED
          BY <5>1, <5>2
      <4> QED
        BY <2>5, <4>1, <4>2
    <3> QED
      BY <3>2, <3>3
  <2> QED
    BY <2>3, <2>7, <2>8 DEF l
<1> HIDE DEF l
<1>4. Page.truncated =>
        /\ l.at \in Nat \X ({0} \cup UploadIds)
        /\ \A e \in Entries(query.kind) : After(e)' =>
             \/ Before(Last(Page.items).at, ItemOf(e).at)
             \/ Repeats(Last(Page.items), ItemOf(e))
        /\ \A e \in Page.cut : ~After(e)' => query.kind = "objects" /\ e = NoMarker
  BY <1>3 DEF l
<1> QED
  BY <1>1, <1>4, PageStep

LEMMA WriteStep ==
  ASSUME ListingInv, Write
  PROVE  ListingInv'
<1>1. PICK e \in Entries(query.kind) :
        /\ entries' = IF e \in entries THEN entries \ {e} ELSE entries \cup {e}
        /\ always' = always \ {e}
  BY DEF Write
<1>2. /\ ~done /\ writes < MaxWrites /\ writes' = writes + 1
      /\ UNCHANGED <<query, marker, listed, pages, done>>
  BY DEF Write
<1>3. RowTypes'
  BY <1>1, <1>2 DEF ListingInv, RowTypes
<1>4. HistoryTypes'
  BY <1>2, ListingAssumption DEF ListingInv, HistoryTypes
<1>5. ListedOnceInOrder' /\ Ahead' /\ MissesBounded'
  BY <1>2 DEF ListingInv, ListedOnceInOrder, FoldedUploads, Ahead, Repeats, After, ItemOf,
     MissesBounded
<1>6. Lost' \in SUBSET Lost
  BY <1>1, <1>2 DEF Lost, Missed, After, Covers
<1>7. IF query.kind = "objects" THEN Cardinality(Lost') <= pages ELSE Lost' = {}
  <2>1. /\ IsFiniteSet(Lost) /\ Cardinality(Lost) \in Nat
        /\ IF query.kind = "objects" THEN Cardinality(Lost) <= pages ELSE Lost = {}
        /\ pages \in Nat
    BY <1>2, MissedFinite, ListingAssumption DEF ListingInv, HistoryTypes
  <2>2. IsFiniteSet(Lost') /\ Cardinality(Lost') <= Cardinality(Lost)
    BY <1>6, <2>1, FS_Subset
  <2>3. Cardinality(Lost') \in Nat
    BY <2>2, FS_CardinalityType
  <2> QED
    BY <1>6, <2>1, <2>2, <2>3
<1> QED
  BY <1>2, <1>3, <1>4, <1>5, <1>7 DEF ListingInv

LEMMA ListingUnchanged ==
  ASSUME ListingInv, UNCHANGED vars
  PROVE  ListingInv'
BY DEF vars, ListingInv, RowTypes, HistoryTypes, ListedOnceInOrder, FoldedUploads, Ahead, Repeats,
   After, ItemOf, Lost, Missed, Covers, MissesBounded

LEMMA ListingInvariant == Spec => []ListingInv
<1>1. Init => ListingInv
  BY ListingInit
<1>2. ListingInv /\ [Next]_vars => ListingInv'
  BY ObjectsStep, OthersStep, WriteStep, ListingUnchanged DEF Next, NextPage
<1> QED
  BY <1>1, <1>2, PTL DEF Spec

----------------------------------------------------------------------------
(* What the pages say.                                                     *)

(* Rows, markers and items have the shapes the listing handlers give them, *)
(* and the pages put together hold no more items than were asked for.      *)
THEOREM ListingTypeCorrect == Spec => []TypeOK
<1>1. ListingInv => TypeOK
  <2> SUFFICES ASSUME ListingInv PROVE TypeOK
    OBVIOUS
  <2>1. \A n \in 1 .. Len(listed) : listed[n] \in Item
    BY DEF ListingInv, HistoryTypes
  <2> QED
    BY <2>1 DEF ListingInv, RowTypes, HistoryTypes, TypeOK
<1> QED
  BY <1>1, ListingInvariant, PTL

(* The pages put together are in order and name nothing twice, whatever is *)
(* written between two pages; only folded uploads may repeat a prefix      *)
(* (s3.ts, the listing handlers).                                          *)
THEOREM PagesInOrder == Spec => []ListedOnceInOrder
<1>1. ListingInv => ListedOnceInOrder
  BY DEF ListingInv
<1> QED
  BY <1>1, ListingInvariant, PTL

(* A finished listing of uploads or parts names all that was there all the *)
(* time; one of objects loses at most one name at the end of each page.    *)
THEOREM FewMissed == Spec => []MissesBounded
<1>1. ListingInv => MissesBounded
  BY DEF ListingInv
<1> QED
  BY <1>1, ListingInvariant, PTL

=============================================================================
