------------------------------ MODULE Counting ------------------------------
(***************************************************************************)
(* Lemmas on sums of lengths, for the proofs about what is held against    *)
(* the quota.  A sum is counted: Total(g) is the number of bytes <<k, i>>  *)
(* with i in 1 .. g[k].  What MapThenSumSet computes, element after        *)
(* element, is that number.                                                *)
(***************************************************************************)
EXTENDS Integers, FiniteSetTheorems, WellFoundedInduction, TLAPS

Cells(g, S) == {c \in S \X Nat : c[2] \in 1 .. g[c[1]]}
Total(g) == Cardinality(Cells(g, DOMAIN g))

(* h[T] sums g over T by taking one element after the other.               *)
Sums(h, g, S) ==
  \A T \in SUBSET S : h[T] = IF T = {} THEN 0
                             ELSE LET x == CHOOSE x \in T : TRUE IN g[x] + h[T \ {x}]

LEMMA Times ==
  ASSUME NEW i \in Nat, NEW j \in Nat, i <= j, NEW M \in Nat
  PROVE  i * M <= j * M
<1>1. PICK d \in Nat : j = i + d
  <2>1. j - i \in Nat /\ j = i + (j - i)
    OBVIOUS
  <2> QED
    BY <2>1
<1>2. d * M \in Nat /\ i * M \in Nat /\ (i + d) * M = i * M + d * M
  OBVIOUS
<1> QED
  BY <1>1, <1>2

LEMMA CellsFinite ==
  ASSUME NEW S, IsFiniteSet(S), NEW M \in Nat, NEW g \in [S -> 0 .. M], NEW T \in SUBSET S
  PROVE  /\ Cells(g, T) \subseteq T \X (1 .. M)
         /\ IsFiniteSet(Cells(g, T)) /\ Cardinality(Cells(g, T)) \in Nat
<1>1. Cells(g, T) \subseteq T \X (1 .. M)
  <2> SUFFICES ASSUME NEW c \in Cells(g, T) PROVE c \in T \X (1 .. M)
    OBVIOUS
  <2>1. PICK x \in T, i \in Nat : c = <<x, i>>
    BY DEF Cells
  <2>2. i \in 1 .. g[x] /\ g[x] \in 0 .. M
    BY <2>1 DEF Cells
  <2>3. i \in 1 .. M
    BY <2>2
  <2> QED
    BY <2>1, <2>3
<1>2. IsFiniteSet(T) /\ IsFiniteSet(1 .. M)
  BY FS_Subset, FS_Interval
<1>3. IsFiniteSet(T \X (1 .. M))
  BY <1>2, FS_Product
<1> QED
  BY <1>1, <1>3, FS_Subset, FS_CardinalityType

LEMMA CellsOfOne ==
  ASSUME NEW g, NEW x, g[x] \in Nat
  PROVE  IsFiniteSet(Cells(g, {x})) /\ Cardinality(Cells(g, {x})) = g[x]
<1> DEFINE R == 1 .. g[x]
           b == [i \in R |-> <<x, i>>]
<1>1. \A c : c \in Cells(g, {x}) <=> \E i \in R : c = <<x, i>>
  BY DEF Cells
<1>2. b \in Surjection(R, Cells(g, {x}))
  BY <1>1 DEF Surjection
<1>3. b \in Injection(R, Cells(g, {x}))
  <2>1. \A i, j \in R : b[i] = b[j] => i = j
    OBVIOUS
  <2>2. b \in [R -> Cells(g, {x})]
    BY <1>1
  <2> QED
    BY <2>1, <2>2 DEF Injection, IsInjective
<1>4. IsFiniteSet(R) /\ Cardinality(R) = g[x]
  BY FS_Interval
<1> HIDE DEF R, b
<1> QED
  BY <1>2, <1>3, <1>4, FS_Surjection

LEMMA CellsOfMore ==
  ASSUME NEW S, IsFiniteSet(S), NEW M \in Nat, NEW g \in [S -> 0 .. M], NEW T \in SUBSET S,
         NEW x \in T
  PROVE  Cardinality(Cells(g, T)) = g[x] + Cardinality(Cells(g, T \ {x}))
<1> DEFINE one == Cells(g, {x})
           rest == Cells(g, T \ {x})
<1>1. Cells(g, T) = one \cup rest /\ one \cap rest = {}
  BY DEF Cells
<1>2. g[x] \in Nat /\ T \ {x} \in SUBSET S
  OBVIOUS
<1>3. IsFiniteSet(one) /\ Cardinality(one) = g[x]
  BY <1>2, CellsOfOne
<1>4. IsFiniteSet(rest) /\ Cardinality(rest) \in Nat
  BY <1>2, CellsFinite
<1> HIDE DEF one, rest
<1>5. Cardinality(one \cup rest) = Cardinality(one) + Cardinality(rest) - Cardinality(one \cap rest)
  BY <1>3, <1>4, FS_Union
<1>6. Cardinality(one \cap rest) = 0
  BY <1>1, FS_EmptySet
<1>7. Cardinality(one) + Cardinality(rest) - 0 = g[x] + Cardinality(rest)
  BY <1>2, <1>3, <1>4
<1> QED
  BY <1>1, <1>5, <1>6, <1>7 DEF rest

(* There is a function that sums, and whatever sums gives the total.       *)
LEMMA CellsSum ==
  ASSUME NEW S, IsFiniteSet(S), NEW M \in Nat, NEW g \in [S -> 0 .. M]
  PROVE  Sums([T \in SUBSET S |-> Cardinality(Cells(g, T))], g, S)
<1> DEFINE h == [T \in SUBSET S |-> Cardinality(Cells(g, T))]
<1> SUFFICES ASSUME NEW T \in SUBSET S
             PROVE  h[T] = IF T = {} THEN 0
                           ELSE LET x == CHOOSE x \in T : TRUE IN g[x] + h[T \ {x}]
  BY DEF Sums
<1>1. CASE T = {}
  <2>1. Cells(g, {}) = {}
    BY DEF Cells
  <2> QED
    BY <1>1, <2>1, FS_EmptySet
<1>2. CASE T # {}
  <2> DEFINE x == CHOOSE x \in T : TRUE
  <2>1. x \in T
    BY <1>2
  <2> HIDE DEF x
  <2>2. h[T] = g[x] + h[T \ {x}]
    BY <2>1, CellsOfMore
  <2> QED
    BY <1>2, <2>2 DEF x
<1> QED
  BY <1>1, <1>2

LEMMA SumIsTotal ==
  ASSUME NEW S, IsFiniteSet(S), NEW M \in Nat, NEW g \in [S -> 0 .. M], NEW h, Sums(h, g, S)
  PROVE  h[S] = Total(g)
<1> DEFINE c == [T \in SUBSET S |-> Cardinality(Cells(g, T))]
           Bad == {T \in SUBSET S : h[T] # c[T]}
<1>1. Sums(c, g, S)
  BY CellsSum
<1> SUFFICES ASSUME Bad # {} PROVE FALSE
  BY DEF Total
<1>2. Bad \subseteq FiniteSubsetsOf(S)
  BY FS_Subset DEF FiniteSubsetsOf
<1> HIDE DEF c
<1>3. PICK T \in Bad : \A U \in Bad : <<U, T>> \notin StrictSubsetOrdering(S)
  <2> HIDE DEF Bad
  <2> QED
    BY <1>2, FS_StrictSubsetOrderingWellFounded, WFMin
<1> DEFINE x == CHOOSE x \in T : TRUE
<1>4. T # {}
  BY <1>1, <1>3 DEF Sums
<1>5. x \in T
  BY <1>4
<1>6. h[T] = g[x] + h[T \ {x}] /\ c[T] = g[x] + c[T \ {x}]
  BY <1>1, <1>3, <1>4 DEF Sums
<1> HIDE DEF x
<1>7. T \ {x} \notin Bad
  <2> DEFINE U == T \ {x}
  <2>1. T \in SUBSET S /\ U \in SUBSET S /\ U \subseteq T /\ U # T
    BY <1>3, <1>5
  <2> HIDE DEF Bad, U
  <2>2. <<U, T>> \in StrictSubsetOrdering(S)
    BY <2>1 DEF StrictSubsetOrdering
  <2>3. U \notin Bad
    BY <1>3, <2>2
  <2> QED
    BY <2>3 DEF U
<1> QED
  BY <1>3, <1>5, <1>6, <1>7
----------------------------------------------------------------------------
(* How the total changes.                                                  *)

LEMMA TotalChanged ==
  ASSUME NEW S, IsFiniteSet(S), NEW M \in Nat,
         NEW f \in [S -> 0 .. M], NEW g \in [S -> 0 .. M],
         NEW x \in S, \A y \in S \ {x} : f[y] = g[y]
  PROVE  Total(g) \in Nat /\ Total(f) = Total(g) - g[x] + f[x]
<1> DEFINE rest == Cardinality(Cells(g, S \ {x}))
<1>1. DOMAIN f = S /\ DOMAIN g = S
  OBVIOUS
<1>2. Cells(f, S \ {x}) = Cells(g, S \ {x})
  BY DEF Cells
<1>3. Total(f) = f[x] + rest
  BY <1>1, <1>2, CellsOfMore DEF Total
<1>4. Total(g) = g[x] + rest
  BY <1>1, CellsOfMore DEF Total
<1>5. rest \in Nat /\ Total(g) \in Nat
  BY <1>1, CellsFinite DEF Total
<1>6. f[x] \in 0 .. M /\ g[x] \in 0 .. M
  OBVIOUS
<1> QED
  BY <1>3, <1>4, <1>5, <1>6

(* Places outside K hold no more in f than in g.                           *)
LEMMA TotalOwned ==
  ASSUME NEW S, IsFiniteSet(S), NEW M \in Nat,
         NEW f \in [S -> 0 .. M], NEW g \in [S -> 0 .. M],
         NEW K \in SUBSET S, \A x \in S \ K : f[x] <= g[x]
  PROVE  Total(f) <= Total(g) + Cardinality(K) * M
<1> DEFINE most == K \X (1 .. M)
<1>1. IsFiniteSet(K) /\ Cardinality(K) \in Nat
  BY FS_Subset, FS_CardinalityType
<1>2. IsFiniteSet(most) /\ Cardinality(most) = Cardinality(K) * M
  <2>1. IsFiniteSet(1 .. M) /\ Cardinality(1 .. M) = M
    BY FS_Interval
  <2> QED
    BY <1>1, <2>1, FS_Product
<1>3. Cells(f, S) \subseteq Cells(g, S) \cup Cells(f, K)
  <2> SUFFICES ASSUME NEW x \in S, NEW i \in Nat, i \in 1 .. f[x], x \notin K PROVE i \in 1 .. g[x]
    BY DEF Cells
  <2>1. f[x] \in Nat /\ g[x] \in Nat /\ f[x] <= g[x]
    OBVIOUS
  <2> QED
    BY <2>1
<1>4. Cells(f, K) \subseteq most /\ IsFiniteSet(Cells(f, K)) /\ Cardinality(Cells(f, K)) \in Nat
  BY CellsFinite
<1> HIDE DEF most
<1>5. Cardinality(Cells(f, K)) <= Cardinality(K) * M
  BY <1>2, <1>4, FS_Subset
<1>6. IsFiniteSet(Cells(g, S)) /\ Cardinality(Cells(g, S)) \in Nat /\ Cardinality(Cells(f, S)) \in Nat
  BY CellsFinite
<1>7. /\ IsFiniteSet(Cells(g, S) \cup Cells(f, K))
      /\ Cardinality(Cells(g, S) \cup Cells(f, K)) \in Nat
      /\ Cardinality(Cells(g, S) \cup Cells(f, K)) <= Cardinality(Cells(g, S)) + Cardinality(Cells(f, K))
  <2>1. /\ IsFiniteSet(Cells(g, S) \cup Cells(f, K))
        /\ Cardinality(Cells(g, S) \cup Cells(f, K))
             = Cardinality(Cells(g, S)) + Cardinality(Cells(f, K))
                 - Cardinality(Cells(g, S) \cap Cells(f, K))
    BY <1>4, <1>6, FS_Union
  <2>2. Cardinality(Cells(g, S) \cap Cells(f, K)) \in Nat
    BY <1>6, FS_Intersection, FS_CardinalityType
  <2>3. Cardinality(Cells(g, S) \cup Cells(f, K)) \in Nat
    BY <2>1, FS_CardinalityType
  <2>4. \A a, b, c \in Nat : a + b - c <= a + b
    OBVIOUS
  <2>5. Cardinality(Cells(g, S) \cup Cells(f, K)) <= Cardinality(Cells(g, S)) + Cardinality(Cells(f, K))
    BY <1>4, <1>6, <2>1, <2>2, <2>4, Zenon
  <2> QED
    BY <2>1, <2>3, <2>5
<1>8. Cardinality(Cells(f, S)) <= Cardinality(Cells(g, S) \cup Cells(f, K))
  BY <1>3, <1>7, FS_Subset
<1>9. DOMAIN f = S /\ DOMAIN g = S /\ Cardinality(K) * M \in Nat
  BY <1>1
<1>10. Cardinality(Cells(f, S)) <= Cardinality(Cells(g, S)) + Cardinality(K) * M
  BY <1>4, <1>5, <1>6, <1>7, <1>8, <1>9
<1> QED
  BY <1>9, <1>10 DEF Total

(* The same, and one place has its own limit.                              *)
LEMMA TotalRaised ==
  ASSUME NEW S, IsFiniteSet(S), NEW M \in Nat,
         NEW f \in [S -> 0 .. M], NEW g \in [S -> 0 .. M],
         NEW K \in SUBSET S, NEW y \in S, NEW n \in 0 .. M,
         f[y] <= n \/ y \in K, \A x \in S \ K : x = y \/ f[x] <= g[x]
  PROVE  Total(f) <= Total(g) - g[y] + n + Cardinality(K) * M
<1> DEFINE h == [g EXCEPT ![y] = n]
<1>1. /\ h \in [S -> 0 .. M] /\ h[y] = n
      /\ \A x \in S \ {y} : h[x] = g[x]
      /\ \A x \in S \ K : f[x] <= h[x]
  OBVIOUS
<1> HIDE DEF h
<1>2. Total(h) = Total(g) - g[y] + n
  BY <1>1, TotalChanged
<1>3. Total(f) <= Total(h) + Cardinality(K) * M
  BY <1>1, TotalOwned
<1> QED
  BY <1>2, <1>3

(* Writers have one place each.                                            *)
LEMMA Places ==
  ASSUME NEW B, IsFiniteSet(B), NEW key, NEW K, K = {key[b] : b \in B}
  PROVE  IsFiniteSet(K) /\ Cardinality(K) <= Cardinality(B)
<1> DEFINE place == [b \in B |-> key[b]]
<1>1. place \in Surjection(B, K)
  BY DEF Surjection
<1> HIDE DEF place
<1> QED
  BY <1>1, FS_Surjection

(* The writers in W test the quota against the total of g.  Those in P     *)
(* passed, f is what g becomes if the writes of some of them are done, and *)
(* w is the last to pass, with s for the length it replaces.  If all of W  *)
(* have passed, then for one of them nothing changed since it looked.      *)
Reached(f, g, S, P, key, len) ==
  \A x \in S : f[x] <= g[x] \/ \E p \in P : key[p] = x /\ f[x] <= len[p]
Unchanged(g, W, w, s, key, len, Q) ==
  \E e \in W : IF e = w THEN s = g[key[w]]
               ELSE len[e] <= g[key[e]] \/ Total(g) - g[key[e]] + len[e] <= Q

LEMMA Overshoot ==
  ASSUME NEW S, IsFiniteSet(S), NEW M \in Nat,
         NEW f \in [S -> 0 .. M], NEW g \in [S -> 0 .. M],
         NEW W, IsFiniteSet(W), NEW P \in SUBSET W,
         NEW key \in [P -> S], NEW len \in [P -> 0 .. M],
         Reached(f, g, S, P, key, len), NEW w \in P, f[key[w]] <= len[w],
         NEW s \in 0 .. M, NEW Q \in Nat, Total(g) - s + len[w] <= Q,
         P = W => Unchanged(g, W, w, s, key, len, Q)
  PROVE  Total(f) <= Q + (Cardinality(W) - 1) * M
<1> USE DEF Reached, Unchanged
<1> DEFINE n == Cardinality(W)
           k == key[w]
           Within(B, y) ==
             \A x \in S \ {y} : f[x] <= g[x] \/ \E b \in B : key[b] = x
<1>1. k \in S /\ len[w] \in 0 .. M /\ g[k] \in 0 .. M
  OBVIOUS
<1>2. Total(g) \in Nat /\ Total(f) \in Nat
  BY CellsFinite DEF Total
<1>3. n \in Nat
  BY FS_CardinalityType
(* If some slot is not among the writers, each of the others adds M.       *)
<1>4. ASSUME NEW B \in SUBSET P, NEW v \in W \ {w}, B \subseteq W \ {w, v},
             Within(B, k)
      PROVE  Total(f) <= Q + (n - 1) * M
  <2> DEFINE K == {key[b] : b \in B}
  <2>1. /\ IsFiniteSet((W \ {w}) \ {v}) /\ Cardinality((W \ {w}) \ {v}) = n - 2
        /\ n - 2 \in Nat
    <3>1. IsFiniteSet(W \ {w}) /\ Cardinality(W \ {w}) = n - 1
      BY FS_RemoveElement
    <3>2. /\ IsFiniteSet((W \ {w}) \ {v})
          /\ Cardinality((W \ {w}) \ {v}) = Cardinality(W \ {w}) - 1
      BY <3>1, FS_RemoveElement
    <3>3. Cardinality((W \ {w}) \ {v}) = n - 2
      BY <1>3, <3>1, <3>2
    <3> QED
      BY <3>2, <3>3, FS_CardinalityType
  <2>2. IsFiniteSet(B) /\ Cardinality(B) \in Nat /\ Cardinality(B) <= n - 2
    <3>1. B \subseteq (W \ {w}) \ {v}
      BY <1>4
    <3> QED
      BY <2>1, <3>1, FS_Subset, FS_CardinalityType
  <2>3. K \subseteq S /\ f[k] <= len[w] /\ \A x \in S \ K : x = k \/ f[x] <= g[x]
    BY <1>1, <1>4
  <2>4. IsFiniteSet(K) /\ Cardinality(K) \in Nat /\ Cardinality(K) <= n - 2
    <3>1. IsFiniteSet(K) /\ Cardinality(K) <= Cardinality(B)
      BY <2>2, Places
    <3> QED
      BY <2>1, <2>2, <3>1, FS_CardinalityType
  <2> HIDE DEF K, k
  <2>5. Total(f) <= Total(g) - g[k] + len[w] + Cardinality(K) * M
    BY <1>1, <2>3, TotalRaised
  <2>6. Cardinality(K) * M <= (n - 2) * M
    BY <2>1, <2>4, Times
  <2>7. /\ (n - 2) * M + M = (n - 1) * M
        /\ (n - 2) * M \in Nat /\ (n - 1) * M \in Nat /\ Cardinality(K) * M \in Nat
    BY <1>3, <2>1, <2>4
  <2> HIDE DEF n
  <2> QED
    BY <1>1, <1>2, <2>5, <2>6, <2>7
(* If nothing changed since e looked, e keeps within the quota and each of *)
(* the others adds M.                                                      *)
<1>5. ASSUME NEW e \in P, Total(g) - g[key[e]] + len[e] <= Q, f[key[e]] <= len[e],
             Within(P \ {e}, key[e])
      PROVE  Total(f) <= Q + (n - 1) * M
  <2> DEFINE K == {key[b] : b \in P \ {e}}
  <2>1. IsFiniteSet(W \ {e}) /\ Cardinality(W \ {e}) = n - 1 /\ n - 1 \in Nat
    <3>1. IsFiniteSet(W \ {e}) /\ Cardinality(W \ {e}) = n - 1
      BY FS_RemoveElement
    <3> QED
      BY <3>1, FS_CardinalityType
  <2>2. IsFiniteSet(P \ {e}) /\ Cardinality(P \ {e}) \in Nat /\ Cardinality(P \ {e}) <= n - 1
    <3>1. P \ {e} \subseteq W \ {e}
      OBVIOUS
    <3> QED
      BY <2>1, <3>1, FS_Subset, FS_CardinalityType
  <2>3. K \subseteq S /\ key[e] \in S /\ len[e] \in 0 .. M /\ g[key[e]] \in 0 .. M
    OBVIOUS
  <2>4. \A x \in S \ K : x = key[e] \/ f[x] <= g[x]
    BY <1>5
  <2>5. IsFiniteSet(K) /\ Cardinality(K) \in Nat /\ Cardinality(K) <= n - 1
    <3>1. IsFiniteSet(K) /\ Cardinality(K) <= Cardinality(P \ {e})
      BY <2>2, Places
    <3> QED
      BY <2>1, <2>2, <3>1, FS_CardinalityType
  <2> HIDE DEF K
  <2>6. Total(f) <= Total(g) - g[key[e]] + len[e] + Cardinality(K) * M
    BY <1>5, <2>3, <2>4, TotalRaised
  <2>7. Cardinality(K) * M <= (n - 1) * M
    BY <2>1, <2>5, Times
  <2>8. (n - 1) * M \in Nat /\ Cardinality(K) * M \in Nat
    BY <2>1, <2>5
  <2> HIDE DEF n
  <2> QED
    BY <1>2, <1>5, <2>3, <2>6, <2>7, <2>8
<1>6. Within(P \ {w}, k)
  OBVIOUS
<1>7. CASE P # W
  <2>1. PICK v \in W \ {w} : v \notin P
    BY <1>7
  <2>2. P \ {w} \in SUBSET P /\ P \ {w} \subseteq W \ {w, v}
    BY <2>1
  <2> HIDE DEF k, Within
  <2> QED
    BY <1>4, <1>6, <2>1, <2>2
<1>8. CASE P = W
  <2>1. PICK e \in P : IF e = w THEN s = g[k]
                       ELSE len[e] <= g[key[e]] \/ Total(g) - g[key[e]] + len[e] <= Q
    BY <1>8
  <2>2. CASE e = w
    <3>1. Total(g) - g[key[w]] + len[w] <= Q
      BY <2>1, <2>2
    <3>2. f[key[w]] <= len[w]
      BY <1>1
    <3> HIDE DEF Within
    <3> QED
      BY <1>5, <1>6, <3>1, <3>2
  <2>3. CASE e # w /\ f[key[e]] <= len[e] /\ ~(len[e] <= g[key[e]])
    <3>1. Total(g) - g[key[e]] + len[e] <= Q
      BY <2>1, <2>3
    <3>2. Within(P \ {e}, key[e])
      OBVIOUS
    <3> HIDE DEF Within
    <3> QED
      BY <1>5, <2>3, <3>1, <3>2
  <2>4. CASE e # w /\ (~(f[key[e]] <= len[e]) \/ len[e] <= g[key[e]])
    <3>1. Within(P \ {w, e}, k)
      <4> SUFFICES ASSUME NEW x \in S \ {k}, ~(f[x] <= g[x])
                   PROVE  \E p \in P \ {w, e} : key[p] = x
        OBVIOUS
      <4>1. PICK p \in P : key[p] = x /\ f[x] <= len[p]
        OBVIOUS
      <4>2. p # e
        <5>1. key[e] \in S /\ f[key[e]] \in Nat /\ g[key[e]] \in Nat /\ len[e] \in Nat
          OBVIOUS
        <5> QED
          BY <2>4, <4>1, <5>1
      <4> QED
        BY <4>1, <4>2
    <3>2. P \ {w, e} \in SUBSET P /\ P \ {w, e} \subseteq W \ {w, e} /\ e \in W \ {w}
      BY <2>4
    <3> HIDE DEF k, Within
    <3> QED
      BY <1>4, <3>1, <3>2
  <2> QED
    BY <2>2, <2>3, <2>4
<1> QED
  BY <1>7, <1>8
----------------------------------------------------------------------------
(* Writers that test a quota before they write.  A writer looks at the     *)
(* length of what it will replace, is admitted if the total stays within   *)
(* Q by what it saw, and writes later.                                     *)

Out == [stage |-> "out"]
Writers(S, M) ==
  {Out} \cup [stage : {"looked", "admitted"}, key : S, len : 0 .. M, seen : 0 .. M]

(* Admitted writers of v can make f[x] what it is.                         *)
Writes(v, W, f, x) ==
  \E w \in W : v[w].stage = "admitted" /\ v[w].key = x /\ f[x] <= v[w].len

(* Nothing was written since the writer looked, or since it was admitted.  *)
Newest(g, z, Q) ==
  IF z.stage = "admitted" THEN z.len <= g[z.key] \/ Total(g) - g[z.key] + z.len <= Q
  ELSE z.seen = g[z.key]

(* Whichever of the admitted writers write, the total has no more than one *)
(* largest value for every other writer above Q; and if all the writers    *)
(* are at work, one of them is the newest.                                 *)
Capped(g, v, S, M, W, Q) ==
  \A f \in [S -> 0 .. M] :
    (\A x \in S : f[x] <= g[x] \/ Writes(v, W, f, x))
      => Total(f) <= Q + (Cardinality(W) - 1) * M
OneNewest(g, v, W, Q) ==
  (\A w \in W : v[w].stage # "out") => \E w \in W : Newest(g, v[w], Q)

(* Writers leave; what they wrote was admitted, or they removed values.    *)
LEMMA Leaving ==
  ASSUME NEW S, NEW M \in Nat, NEW g \in [S -> 0 .. M], NEW h \in [S -> 0 .. M],
         NEW W, NEW v \in [W -> Writers(S, M)], NEW u, NEW Q,
         \A w \in W : u[w] = v[w] \/ u[w] = Out,
         \A x \in S : h[x] <= g[x] \/ Writes(v, W, h, x),
         Capped(g, v, S, M, W, Q)
  PROVE  Capped(h, u, S, M, W, Q)
<1> SUFFICES ASSUME NEW f \in [S -> 0 .. M], \A x \in S : f[x] <= h[x] \/ Writes(u, W, f, x)
             PROVE  Total(f) <= Q + (Cardinality(W) - 1) * M
  BY DEF Capped
<1>1. ASSUME NEW x \in S, ~(f[x] <= g[x])
      PROVE  Writes(v, W, f, x)
  <2>1. f[x] \in Nat /\ g[x] \in Nat /\ h[x] \in Nat
    OBVIOUS
  <2>2. CASE Writes(u, W, f, x)
    BY <2>2 DEF Writes, Out
  <2>3. CASE f[x] <= h[x]
    <3>1. PICK w \in W : v[w].stage = "admitted" /\ v[w].key = x /\ h[x] <= v[w].len
      BY <1>1, <2>1, <2>3 DEF Writes
    <3>2. v[w].len \in Nat
      BY <3>1 DEF Writers, Out
    <3> QED
      BY <2>1, <2>3, <3>1, <3>2 DEF Writes
  <2> QED
    BY <2>2, <2>3
<1> QED
  BY <1>1 DEF Capped

(* A writer looks.  It is as good as admitted if it needs no more room.    *)
LEMMA Looking ==
  ASSUME NEW S, NEW M \in Nat, NEW g \in [S -> 0 .. M],
         NEW W, NEW w \in W, NEW v \in [W -> Writers(S, M)], NEW u \in [W -> Writers(S, M)], NEW Q,
         \A y \in W \ {w} : u[y] = v[y],
         u[w].stage # "out", u[w].seen = g[u[w].key],
         u[w].stage = "admitted" => u[w].len <= u[w].seen,
         Capped(g, v, S, M, W, Q)
  PROVE  Capped(g, u, S, M, W, Q) /\ OneNewest(g, u, W, Q)
<1>1. Capped(g, u, S, M, W, Q)
  <2> SUFFICES ASSUME NEW f \in [S -> 0 .. M], \A x \in S : f[x] <= g[x] \/ Writes(u, W, f, x)
               PROVE  Total(f) <= Q + (Cardinality(W) - 1) * M
    BY DEF Capped
  <2>1. ASSUME NEW x \in S, ~(f[x] <= g[x])
        PROVE  Writes(v, W, f, x)
    <3>1. f[x] \in Nat /\ g[x] \in Nat
      OBVIOUS
    <3>2. PICK y \in W : u[y].stage = "admitted" /\ u[y].key = x /\ f[x] <= u[y].len
      BY <2>1 DEF Writes
    <3>3. u[y].len \in Nat
      BY <3>2 DEF Writers, Out
    <3>4. y # w
      BY <2>1, <3>1, <3>2, <3>3
    <3> QED
      BY <3>2, <3>4 DEF Writes
  <2> QED
    BY <2>1 DEF Capped
<1>2. Newest(g, u[w], Q)
  BY DEF Newest
<1> QED
  BY <1>1, <1>2 DEF OneNewest

(* A writer is admitted.                                                   *)
LEMMA Admission ==
  ASSUME NEW S, IsFiniteSet(S), NEW M \in Nat, NEW g \in [S -> 0 .. M],
         NEW W, IsFiniteSet(W), NEW w \in W,
         NEW v \in [W -> Writers(S, M)], NEW u \in [W -> Writers(S, M)], NEW Q \in Nat,
         \A y \in W \ {w} : u[y] = v[y],
         v[w].stage = "looked", u[w] = [v[w] EXCEPT !.stage = "admitted"],
         Total(g) - v[w].seen + v[w].len <= Q,
         Capped(g, v, S, M, W, Q), OneNewest(g, v, W, Q)
  PROVE  Capped(g, u, S, M, W, Q) /\ OneNewest(g, u, W, Q)
<1>1. /\ v[w].key \in S /\ v[w].len \in 0 .. M /\ v[w].seen \in 0 .. M
      /\ u[w].stage = "admitted" /\ u[w].key = v[w].key /\ u[w].len = v[w].len
  BY DEF Writers, Out
<1>2. (\A y \in W : u[y].stage # "out") =>
        \E e \in W : IF e = w THEN v[w].seen = g[v[w].key] ELSE Newest(g, u[e], Q)
  <2> HAVE \A y \in W : u[y].stage # "out"
  <2>1. PICK e \in W : Newest(g, v[e], Q)
    BY DEF OneNewest
  <2> QED
    BY <2>1 DEF Newest
<1>3. Capped(g, u, S, M, W, Q)
  <2> SUFFICES ASSUME NEW f \in [S -> 0 .. M], \A x \in S : f[x] <= g[x] \/ Writes(u, W, f, x)
               PROVE  Total(f) <= Q + (Cardinality(W) - 1) * M
    BY DEF Capped
  <2>1. CASE \A x \in S : f[x] <= g[x] \/ Writes(v, W, f, x)
    BY <2>1 DEF Capped
  <2>2. CASE f[v[w].key] <= v[w].len
    <3> DEFINE P == {p \in W : u[p].stage = "admitted"}
               key == [p \in P |-> u[p].key]
               len == [p \in P |-> u[p].len]
    <3>1. P \in SUBSET W /\ w \in P
      BY <1>1
    <3>2. key \in [P -> S] /\ len \in [P -> 0 .. M]
      BY DEF Writers, Out
    <3>3. Reached(f, g, S, P, key, len)
      BY DEF Writes, Reached
    <3>4. key[w] = v[w].key /\ len[w] = v[w].len
      BY <1>1, <3>1
    <3>5. P = W => Unchanged(g, W, w, v[w].seen, key, len, Q)
      BY <1>2, <3>4 DEF Newest, Unchanged
    <3>6. f[key[w]] <= len[w] /\ Total(g) - v[w].seen + len[w] <= Q /\ v[w].seen \in 0 .. M
      BY <1>1, <2>2, <3>4
    <3> HIDE DEF P, key, len
    <3> QED
      BY <3>1, <3>2, <3>3, <3>5, <3>6, Overshoot
  <2> QED
    <3> SUFFICES ASSUME ~(f[v[w].key] <= v[w].len),
                        NEW x \in S, ~(f[x] <= g[x])
                 PROVE  Writes(v, W, f, x)
      BY <2>1, <2>2
    <3>1. PICK y \in W : u[y].stage = "admitted" /\ u[y].key = x /\ f[x] <= u[y].len
      BY DEF Writes
    <3>2. y # w
      BY <1>1, <3>1
    <3> QED
      BY <3>1, <3>2 DEF Writes
<1>4. OneNewest(g, u, W, Q)
  BY <1>1, <1>2 DEF OneNewest, Newest
<1> QED
  BY <1>3, <1>4
(* Nothing is there and nobody is at work.                                 *)
LEMMA AllOut ==
  ASSUME NEW S, NEW M \in Nat, NEW g, \A x \in S : g[x] = 0,
         NEW W, IsFiniteSet(W), W # {}, NEW v, \A w \in W : v[w] = Out, NEW Q \in Nat
  PROVE  Capped(g, v, S, M, W, Q) /\ OneNewest(g, v, W, Q)
<1>1. ASSUME NEW f \in [S -> 0 .. M], \A x \in S : f[x] <= g[x] \/ Writes(v, W, f, x)
      PROVE  Total(f) <= Q + (Cardinality(W) - 1) * M
  <2>1. \A x \in S : f[x] <= 0
    BY <1>1 DEF Writes, Out
  <2>2. \A x \in S : f[x] = 0
    BY <2>1
  <2>3. Cells(f, DOMAIN f) = {}
    BY <2>2 DEF Cells
  <2>4. Total(f) = 0
    BY <2>3, FS_EmptySet DEF Total
  <2>5. Cardinality(W) \in Nat /\ Cardinality(W) # 0
    BY FS_CardinalityType, FS_EmptySet
  <2>6. (Cardinality(W) - 1) * M \in Nat
    BY <2>5
  <2> QED
    BY <2>4, <2>6
<1>2. Capped(g, v, S, M, W, Q)
  BY <1>1 DEF Capped
<1>3. OneNewest(g, v, W, Q)
  BY DEF OneNewest, Out
<1> QED
  BY <1>2, <1>3

=============================================================================
