------------------------------ MODULE AnswerProofs -----------------------------
(***************************************************************************)
(* Theorems about what an answer is made from and shown as: the context a   *)
(* model is given (ContextWindow), the citations of a draft (Citations), and *)
(* the searches of documents, the pool they share and what is selected from  *)
(* them (Retrieval); for any budget, findings, documents, searches and slots. *)
(***************************************************************************)
EXTENDS Citations, ContextWindow, Retrieval, FiniteSetTheorems, WellFoundedInduction, TLAPS

-----------------------------------------------------------------------------
(* What Sifting's operators compute.                                         *)

\* A finite set in a strict total order: every element has its place, and the
\* order of the places is the order of the elements.
LEMMA OrderIsKept ==
    ASSUME NEW T, IsFiniteSet(T), NEW ahead,
           \A x \in T : <<x, x>> \notin ahead,
           \A x, y, z \in T : <<x, y>> \in ahead /\ <<y, z>> \in ahead => <<x, z>> \in ahead,
           \A x, y \in T : x = y \/ <<x, y>> \in ahead \/ <<y, x>> \in ahead
    PROVE  /\ Cardinality(T) \in Nat
           /\ InOrder(T, ahead) \in [1..Cardinality(T) -> T]
           /\ \A x \in T : \E k \in 1..Cardinality(T) : InOrder(T, ahead)[k] = x
           /\ \A j, k \in 1..Cardinality(T) :
                 j < k => <<InOrder(T, ahead)[j], InOrder(T, ahead)[k]>> \in ahead
<1> DEFINE n == Cardinality(T)
           Before(x) == {y \in T : <<y, x>> \in ahead}
           rank(x) == Cardinality(Before(x))
           e == InOrder(T, ahead)
<1>1. n \in Nat
  BY FS_CardinalityType
<1>2. ASSUME NEW x \in T PROVE IsFiniteSet(Before(x)) /\ rank(x) \in Nat /\ rank(x) < n
  <2>1. Before(x) \in SUBSET T /\ x \notin Before(x)
    OBVIOUS
  <2> HIDE DEF Before
  <2>2. IsFiniteSet(Before(x)) /\ rank(x) <= n /\ rank(x) # n
    BY <2>1, FS_Subset
  <2>3. rank(x) \in Nat
    BY <2>2, FS_CardinalityType
  <2> QED BY <1>1, <2>2, <2>3
<1>3. ASSUME NEW x \in T, NEW y \in T, <<x, y>> \in ahead PROVE rank(x) < rank(y)
  <2>1. Before(x) \in SUBSET Before(y) /\ x \in Before(y) /\ x \notin Before(x)
    BY <1>3
  <2>2. IsFiniteSet(Before(y)) /\ rank(x) \in Nat /\ rank(y) \in Nat
    BY <1>2
  <2> HIDE DEF Before
  <2>3. rank(x) <= rank(y) /\ rank(x) # rank(y)
    BY <2>1, <2>2, FS_Subset
  <2> QED BY <2>2, <2>3
<1> DEFINE f == [x \in T |-> rank(x) + 1]
<1>4. \A x \in T : rank(x) \in Nat /\ rank(x) + 1 \in 1..n
  BY SMTT(30), <1>1, <1>2
<1>5. \A x, y \in T : rank(x) = rank(y) => x = y
  <2> HIDE DEF rank
  <2> SUFFICES ASSUME NEW x \in T, NEW y \in T, rank(x) = rank(y), x # y PROVE FALSE
    OBVIOUS
  <2>1. rank(x) < rank(y) \/ rank(y) < rank(x)
    BY <1>3
  <2>2. rank(x) \in Nat /\ rank(y) \in Nat
    BY <1>4
  <2> QED BY <2>1, <2>2
<1>6. \A k \in 1..n : \E x \in T : rank(x) = k - 1
  <2> HIDE DEF rank
  <2>1. f \in Injection(T, 1..n)
    BY <1>4, <1>5 DEF Injection, IsInjective
  <2>2. IsFiniteSet(1..n) /\ Cardinality(1..n) = n
    BY <1>1, FS_Interval
  <2> HIDE DEF f
  <2>3. f \in Surjection(T, 1..n)
    BY <2>1, <2>2, FS_Injection
  <2>4. \A k \in 1..n : \E x \in T : f[x] = k
    BY <2>3 DEF Surjection
  <2> QED BY <1>4, <2>4 DEF f
<1>7. e = [k \in 1..n |-> CHOOSE x \in T : rank(x) = k - 1]
  BY DEF InOrder
<1> HIDE DEF e, rank
<1>8. \A k \in 1..n : e[k] \in T /\ rank(e[k]) = k - 1
  BY <1>6, <1>7
<1>9. e \in [1..n -> T]
  BY <1>7, <1>8
<1>10. \A x \in T : rank(x) + 1 \in 1..n /\ e[rank(x) + 1] = x
  BY <1>4, <1>5, <1>8
<1>11. ASSUME NEW j \in 1..n, NEW k \in 1..n, j < k PROVE <<e[j], e[k]>> \in ahead
  <2>1. e[j] \in T /\ e[k] \in T /\ rank(e[j]) < rank(e[k])
    BY <1>8, <1>11
  <2>2. e[j] # e[k] /\ ~ (rank(e[k]) < rank(e[j]))
    BY <1>4, <2>1
  <2> QED BY <1>3, <2>1, <2>2
<1> QED BY <1>1, <1>9, <1>10, <1>11 DEF e

\* Some places of a list, in ascending order.
LEMMA PlacesAscend ==
    ASSUME NEW T \in SUBSET Nat, IsFiniteSet(T)
    PROVE  /\ Cardinality(T) \in Nat
           /\ Ascending(T) \in [1..Cardinality(T) -> T]
           /\ \A x \in T : \E k \in 1..Cardinality(T) : Ascending(T)[k] = x
           /\ \A j, k \in 1..Cardinality(T) : j < k => Ascending(T)[j] < Ascending(T)[k]
<1> DEFINE ahead == {p \in T \X T : p[1] < p[2]}
<1>1. \A x, y \in T : <<x, y>> \in ahead <=> x < y
  OBVIOUS
<1>2. Ascending(T) = InOrder(T, ahead)
  BY DEF Ascending
<1> HIDE DEF ahead
<1>3. /\ \A x \in T : <<x, x>> \notin ahead
      /\ \A x, y, z \in T : <<x, y>> \in ahead /\ <<y, z>> \in ahead => <<x, z>> \in ahead
      /\ \A x, y \in T : x = y \/ <<x, y>> \in ahead \/ <<y, x>> \in ahead
  BY <1>1
<1>4. /\ Cardinality(T) \in Nat
      /\ InOrder(T, ahead) \in [1..Cardinality(T) -> T]
      /\ \A x \in T : \E k \in 1..Cardinality(T) : InOrder(T, ahead)[k] = x
      /\ \A j, k \in 1..Cardinality(T) :
            j < k => <<InOrder(T, ahead)[j], InOrder(T, ahead)[k]>> \in ahead
  BY <1>3, OrderIsKept
<1> HIDE DEF Ascending
<1>5. \A j, k \in 1..Cardinality(T) : j < k => Ascending(T)[j] < Ascending(T)[k]
  <2>1. \A k \in 1..Cardinality(T) : Ascending(T)[k] \in T
    BY <1>2, <1>4
  <2> QED BY <1>1, <1>2, <1>4, <2>1
<1> QED BY <1>2, <1>4, <1>5

\* A set of numbers has a least one.
LEMMA LeastPlace ==
    ASSUME NEW T \in SUBSET Nat, T # {}
    PROVE  Min(T) \in T /\ \A n \in T : Min(T) <= n
<1> DEFINE R == OpToRel(<, Nat)
<1>1. \A x, y \in Nat : y < x => <<y, x>> \in R
  BY DEF OpToRel
<1>2. IsWellFoundedOn(R, Nat)
  BY NatLessThanWellFounded, Zenon
<1> HIDE DEF R
<1>3. PICK x \in T : \A y \in T : ~ (<<y, x>> \in R)
  BY <1>2, WFMin, Zenon
<1>4. \A y \in T : x <= y
  <2>1. \A y \in T : ~ (y < x)
    BY <1>1, <1>3
  <2> QED BY <2>1
<1> QED BY <1>4 DEF Min

\* There is one way to list a set in ascending order.
LEMMA AscentIsUnique ==
    ASSUME NEW T \in SUBSET Nat, IsFiniteSet(T), NEW n \in Nat, NEW f \in [1..n -> T],
           \A x \in T : \E k \in 1..n : f[k] = x,
           \A j, k \in 1..n : j < k => f[j] < f[k]
    PROVE  Ascending(T) = f
<1> DEFINE e == Ascending(T)
<1>1. \A j, k \in 1..n : f[j] = f[k] => j = k
  <2> SUFFICES ASSUME NEW j \in 1..n, NEW k \in 1..n, f[j] = f[k], j < k PROVE FALSE
    OBVIOUS
  <2>1. f[j] < f[k] /\ f[j] \in Nat
    OBVIOUS
  <2> QED BY <2>1
<1>2. Cardinality(T) = n
  <2>1. f \in Bijection(1..n, T)
    BY <1>1 DEF Bijection, Injection, Surjection, IsInjective
  <2>2. IsFiniteSet(1..n) /\ Cardinality(1..n) = n
    BY FS_Interval
  <2> QED BY <2>1, <2>2, FS_Bijection DEF ExistsBijection
<1>3. /\ e \in [1..n -> T]
      /\ \A x \in T : \E k \in 1..n : e[k] = x
      /\ \A j, k \in 1..n : j < k => e[j] < e[k]
  BY <1>2, PlacesAscend
<1> HIDE DEF e
<1> DEFINE D == {k \in 1..n : e[k] # f[k]}
<1>4. D = {}
  <2> SUFFICES ASSUME D # {} PROVE FALSE
    OBVIOUS
  <2>1. D \in SUBSET Nat /\ D # {}
    OBVIOUS
  <2> DEFINE m == Min(D)
  <2>2. m \in D /\ \A k \in D : m <= k
    BY <2>1, LeastPlace
  <2> HIDE DEF m
  <2>3. m \in 1..n /\ e[m] # f[m] /\ \A k \in 1..n : k < m => e[k] = f[k]
    BY <2>2
  <2>4. e[m] \in T /\ f[m] \in T /\ e[m] \in Nat /\ f[m] \in Nat
    BY <1>3, <2>3
  <2>5. PICK j \in 1..n : f[j] = e[m]
    BY <2>4
  <2>6. PICK i \in 1..n : e[i] = f[m]
    BY <1>3, <2>4
  <2>7. m < j
    <3>1. j # m
      BY <2>3, <2>5
    <3>2. ~ (j < m)
      BY <1>3, <2>3, <2>4, <2>5
    <3> QED BY <2>3, <3>1, <3>2
  <2>8. m < i
    <3>1. i # m
      BY <2>3, <2>6
    <3>2. ~ (i < m)
      BY <2>3, <2>4, <2>6
    <3> QED BY <2>3, <3>1, <3>2
  <2>9. f[m] < e[m]
    BY <2>3, <2>5, <2>7
  <2>10. e[m] < f[m]
    BY <1>3, <2>3, <2>6, <2>8
  <2> QED BY <2>4, <2>9, <2>10
<1>5. \A k \in 1..n : e[k] = f[k]
  BY <1>4
<1>6. e = f
  BY <1>3, <1>5
<1> QED BY <1>6 DEF e

LEMMA ListsAreFunctions ==
    ASSUME NEW X, NEW n \in Nat, NEW t \in [1..n -> X]
    PROVE  t \in Seq(X) /\ Len(t) = n /\ DOMAIN t = 1..n
OBVIOUS

\* A filter: the values at some places of a list.
LEMMA KeepIsPlaced ==
    ASSUME NEW X, NEW s \in Seq(X), NEW P \in SUBSET (DOMAIN s)
    PROVE  /\ P \in SUBSET Nat /\ P \subseteq DOMAIN s
           /\ IsFiniteSet(P) /\ Cardinality(P) \in Nat /\ Cardinality(P) <= Len(s)
           /\ \A k \in 1..Cardinality(P) : Keep(s, P)[k] = s[Ascending(P)[k]]
           /\ Keep(s, P) \in Seq(X) /\ Len(Keep(s, P)) = Cardinality(P)
           /\ DOMAIN Keep(s, P) = 1..Cardinality(P)
<1>1. DOMAIN s = 1..Len(s) /\ Len(s) \in Nat
  OBVIOUS
<1>2. P \in SUBSET Nat /\ P \subseteq DOMAIN s
  BY <1>1
<1>3. IsFiniteSet(P) /\ Cardinality(P) \in Nat /\ Cardinality(P) <= Len(s)
  <2> DEFINE n == Len(s)
  <2>0. n \in Nat
    BY <1>1
  <2> HIDE DEF n
  <2>1. IsFiniteSet(1..n) /\ Cardinality(1..n) = n
    BY <2>0, FS_Interval
  <2>2. P \in SUBSET (1..Len(s))
    BY <1>1
  <2> QED BY <2>1, <2>2, FS_Subset, FS_CardinalityType DEF n
<1>4. Ascending(P) \in [1..Cardinality(P) -> P]
  BY <1>2, <1>3, PlacesAscend
<1>5. Keep(s, P) = [k \in 1..Cardinality(P) |-> s[Ascending(P)[k]]]
  <2>1. Keep(s, P) = [k \in DOMAIN Ascending(P) |-> s[Ascending(P)[k]]]
    <3>1. P \cap DOMAIN s = P
      BY <1>2
    <3> QED BY <3>1 DEF Keep
  <2>2. DOMAIN Ascending(P) = 1..Cardinality(P)
    BY <1>4
  <2> QED BY <2>1, <2>2
<1>6. \A k \in 1..Cardinality(P) : s[Ascending(P)[k]] \in X
  <2>1. \A i \in DOMAIN s : s[i] \in X
    OBVIOUS
  <2> QED BY <1>2, <1>4, <2>1
<1>7. Keep(s, P) \in Seq(X) /\ Len(Keep(s, P)) = Cardinality(P)
      /\ DOMAIN Keep(s, P) = 1..Cardinality(P)
  <2> DEFINE n == Cardinality(P)
             t == [k \in 1..n |-> s[Ascending(P)[k]]]
  <2>1. t \in [1..n -> X] /\ n \in Nat
    BY <1>3, <1>6
  <2> HIDE DEF n, t
  <2>2. t \in Seq(X) /\ Len(t) = n /\ DOMAIN t = 1..n
    BY <2>1, ListsAreFunctions
  <2>3. Keep(s, P) = t
    BY <1>5 DEF t, n
  <2> QED BY <2>2, <2>3 DEF n
<1>8. \A k \in 1..Cardinality(P) : Keep(s, P)[k] = s[Ascending(P)[k]]
  BY <1>5
<1> QED BY <1>2, <1>3, <1>7, <1>8

\* A list that has the values of G at the places of A, in their order.
Placed(t, G, A) ==
    /\ DOMAIN t = 1..Cardinality(A)
    /\ \A k \in 1..Cardinality(A) : t[k] = G[Ascending(A)[k]]

\* The places in such a list of those of A that are in B.
Places(P, A, B) == \A k \in 1..Cardinality(A) : k \in P <=> Ascending(A)[k] \in B

\* A filter of what a filter left is one filter.
LEMMA KeepAgain ==
    ASSUME NEW A \in SUBSET Nat, IsFiniteSet(A), NEW B \in SUBSET A,
           NEW X, NEW t \in Seq(X), NEW G, Placed(t, G, A),
           NEW P \in SUBSET (DOMAIN t), Places(P, A, B)
    PROVE  Keep(t, P) \in Seq(X) /\ Placed(Keep(t, P), G, B)
<1> DEFINE n == Cardinality(A)
           e == Ascending(A)
           p == Cardinality(P)
           d == Ascending(P)
           f == [k \in 1..p |-> e[d[k]]]
<1>1. /\ n \in Nat /\ e \in [1..n -> A]
      /\ \A x \in A : \E k \in 1..n : e[k] = x
      /\ \A j, k \in 1..n : j < k => e[j] < e[k]
  BY PlacesAscend
<1>2. t \in Seq(X) /\ DOMAIN t = 1..n
  BY DEF Placed
<1>4. /\ P \in SUBSET Nat /\ P \subseteq 1..n /\ IsFiniteSet(P) /\ p \in Nat
      /\ Keep(t, P) \in Seq(X) /\ DOMAIN Keep(t, P) = 1..p
      /\ \A k \in 1..p : Keep(t, P)[k] = t[d[k]]
  <2>1. /\ P \in SUBSET Nat /\ P \subseteq DOMAIN t
        /\ IsFiniteSet(P) /\ Cardinality(P) \in Nat /\ Cardinality(P) <= Len(t)
        /\ \A k \in 1..Cardinality(P) : Keep(t, P)[k] = t[Ascending(P)[k]]
        /\ Keep(t, P) \in Seq(X) /\ Len(Keep(t, P)) = Cardinality(P)
        /\ DOMAIN Keep(t, P) = 1..Cardinality(P)
    BY KeepIsPlaced
  <2> HIDE DEF n
  <2> QED BY <1>2, <2>1
<1>5. /\ d \in [1..p -> P] /\ \A x \in P : \E k \in 1..p : d[k] = x
      /\ \A j, k \in 1..p : j < k => d[j] < d[k]
  BY <1>4, PlacesAscend
<1>6. \A k \in 1..n : k \in P <=> e[k] \in B
  BY DEF Places
<1>7. \A k \in 1..n : t[k] = G[e[k]]
  BY DEF Placed
<1> HIDE DEF n, e, p, d
<1>8. \A k \in 1..p : d[k] \in P /\ d[k] \in 1..n /\ e[d[k]] \in B /\ t[d[k]] = G[e[d[k]]]
  BY <1>4, <1>5, <1>6, <1>7
<1>9. f \in [1..p -> B]
  BY <1>8
<1>10. ASSUME NEW x \in B PROVE \E k \in 1..p : f[k] = x
  <2>1. PICK j \in 1..n : e[j] = x
    BY <1>1
  <2>2. PICK k \in 1..p : d[k] = j
    BY <1>5, <1>6, <2>1
  <2> QED BY <2>1, <2>2
<1>11. \A j, k \in 1..p : j < k => f[j] < f[k]
  <2> SUFFICES ASSUME NEW j \in 1..p, NEW k \in 1..p, j < k PROVE e[d[j]] < e[d[k]]
    OBVIOUS
  <2> QED BY <1>1, <1>5, <1>8
<1>12. B \in SUBSET Nat /\ IsFiniteSet(B)
  BY FS_Subset
<1> HIDE DEF f
<1>13. Ascending(B) = f
  BY <1>4, <1>9, <1>10, <1>11, <1>12, AscentIsUnique
<1>14. Ascending(B) \in [1..Cardinality(B) -> B] /\ Cardinality(B) \in Nat
  BY <1>12, PlacesAscend
<1>15. DOMAIN f = 1..p /\ DOMAIN f = 1..Cardinality(B)
  BY <1>9, <1>13, <1>14
<1>16. \A k \in 1..p : t[d[k]] = G[f[k]]
  BY <1>8 DEF f
<1> QED BY <1>4, <1>13, <1>14, <1>15, <1>16 DEF Placed

\* What is kept was there, everything that is to be kept is kept, and in its order.
LEMMA KeepInTurn ==
    ASSUME NEW X, NEW s \in Seq(X), NEW P \in SUBSET (DOMAIN s)
    PROVE  /\ \A k \in DOMAIN Keep(s, P) : \E i \in P : Keep(s, P)[k] = s[i]
           /\ \A i \in P : \E k \in DOMAIN Keep(s, P) : Keep(s, P)[k] = s[i]
           /\ \A j, k \in DOMAIN Keep(s, P) :
                 j < k => \E h, i \in P : h < i /\ Keep(s, P)[j] = s[h] /\ Keep(s, P)[k] = s[i]
<1> DEFINE t == Keep(s, P)
           n == Cardinality(P)
           e == Ascending(P)
<1>1. /\ P \in SUBSET Nat /\ P \subseteq DOMAIN s
      /\ IsFiniteSet(P) /\ Cardinality(P) \in Nat /\ Cardinality(P) <= Len(s)
      /\ \A k \in 1..Cardinality(P) : Keep(s, P)[k] = s[Ascending(P)[k]]
      /\ Keep(s, P) \in Seq(X) /\ Len(Keep(s, P)) = Cardinality(P)
      /\ DOMAIN Keep(s, P) = 1..Cardinality(P)
  BY KeepIsPlaced
<1>2. /\ e \in [1..n -> P] /\ \A x \in P : \E k \in 1..n : e[k] = x
      /\ \A j, k \in 1..n : j < k => e[j] < e[k]
  BY <1>1, PlacesAscend
<1>3. DOMAIN t = 1..n /\ \A k \in 1..n : t[k] = s[e[k]]
  BY <1>1
<1> HIDE DEF t, n, e
<1>4. \A k \in DOMAIN t : \E i \in P : t[k] = s[i]
  BY <1>2, <1>3
<1>5. \A i \in P : \E k \in DOMAIN t : t[k] = s[i]
  BY <1>2, <1>3
<1>6. \A j, k \in DOMAIN t : j < k => \E h, i \in P : h < i /\ t[j] = s[h] /\ t[k] = s[i]
  BY <1>2, <1>3
<1> QED BY <1>4, <1>5, <1>6 DEF t

-----------------------------------------------------------------------------
(* The citations of a draft.                                                *)

LEMMA DraftsAreLists ==
    ASSUME NEW draft \in Drafts
    PROVE  draft \in Seq(Writable) /\ DOMAIN draft = 1..Len(draft) /\ Len(draft) \in Nat
<1>1. PICK n \in 0..MaxReferences : draft \in [1..n -> Writable]
  BY DEF Drafts
<1>2. n \in Nat
  BY <1>1, CitationsAssumption DEF CitationsAssumption
<1> QED BY <1>1, <1>2, ListsAreFunctions

LEMMA WrittenKinds ==
    ASSUME NEW r \in Writable
    PROVE  /\ r.kind = "marker" => r = Reference("marker", r.name, 0)
           /\ r.kind \in {"marker", "pageLabel", "numberLabel", "Web", "GitHub", "page",
                          "documentPage", "url"}
BY DEF Writable, Reference

\* A list in which nothing occurs twice.
Once(s) == \A j, k \in DOMAIN s : s[j] = s[k] => j = k

\* The identities of the markers are found, each once.
LEMMA CitedOnce ==
    ASSUME NEW draft \in Drafts
    PROVE  Cited(draft) \in Seq(evidence) /\ Once(Cited(draft))
<1> DEFINE F == {i \in DOMAIN draft :
                    /\ draft[i].kind = "marker" /\ draft[i].name \in evidence
                    /\ \A j \in 1..(i - 1) : draft[j] # draft[i]}
           m == Keep(draft, F)
           c == [k \in DOMAIN m |-> m[k].name]
<1>1. draft \in Seq(Writable) /\ DOMAIN draft = 1..Len(draft) /\ Len(draft) \in Nat
  BY DraftsAreLists
<1>2. F \in SUBSET (DOMAIN draft)
  OBVIOUS
<1>3. Cited(draft) = c
  BY DEF Cited
<1>4. \A i \in F : i \in 1..Len(draft) /\ draft[i].kind = "marker" /\ draft[i].name \in evidence
                   /\ \A j \in 1..(i - 1) : draft[j] # draft[i]
  BY <1>1
<1> HIDE DEF F
<1>5. /\ \A k \in DOMAIN Keep(draft, F) : \E i \in F : Keep(draft, F)[k] = draft[i]
      /\ \A i \in F : \E k \in DOMAIN Keep(draft, F) : Keep(draft, F)[k] = draft[i]
      /\ \A j, k \in DOMAIN Keep(draft, F) :
            j < k => \E h, i \in F : h < i /\ Keep(draft, F)[j] = draft[h] /\ Keep(draft, F)[k] = draft[i]
  BY <1>1, <1>2, KeepInTurn
<1>6. m \in Seq(Writable) /\ Len(m) \in Nat /\ DOMAIN m = 1..Len(m)
  <2>1. m \in Seq(Writable)
    <3>1. /\ F \in SUBSET Nat /\ F \subseteq DOMAIN draft
          /\ IsFiniteSet(F) /\ Cardinality(F) \in Nat /\ Cardinality(F) <= Len(draft)
          /\ \A k \in 1..Cardinality(F) : Keep(draft, F)[k] = draft[Ascending(F)[k]]
          /\ Keep(draft, F) \in Seq(Writable) /\ Len(Keep(draft, F)) = Cardinality(F)
          /\ DOMAIN Keep(draft, F) = 1..Cardinality(F)
      BY <1>1, <1>2, KeepIsPlaced
    <3> QED BY <3>1
  <2> HIDE DEF m
  <2> QED BY <2>1
<1>7. ASSUME NEW j \in DOMAIN m, NEW k \in DOMAIN m, j < k PROVE m[j].name # m[k].name
  <2>1. PICK h \in F, i \in F : h < i /\ m[j] = draft[h] /\ m[k] = draft[i]
    BY <1>5, <1>7
  <2>2. draft[h] # draft[i] /\ draft[h].kind = "marker" /\ draft[i].kind = "marker"
    BY <1>4, <2>1
  <2>3. draft[h] \in Writable /\ draft[i] \in Writable
    BY <1>1, <1>4
  <2>4. draft[h] = Reference("marker", draft[h].name, 0) /\ draft[i] = Reference("marker", draft[i].name, 0)
    BY <2>2, <2>3, WrittenKinds
  <2> HIDE DEF m
  <2> QED BY <2>1, <2>2, <2>4
<1>8. \A k \in DOMAIN m : m[k].name \in evidence
  BY <1>4, <1>5
<1> HIDE DEF m
<1>9. c \in Seq(evidence)
  <2>1. c \in [1..Len(m) -> evidence]
    BY <1>6, <1>8
  <2> QED BY <1>6, <2>1, ListsAreFunctions
<1>10. Once(c)
  <2> SUFFICES ASSUME NEW j \in DOMAIN c, NEW k \in DOMAIN c, c[j] = c[k], j # k PROVE FALSE
    BY DEF Once
  <2>1. j \in DOMAIN m /\ k \in DOMAIN m /\ m[j].name = m[k].name
    OBVIOUS
  <2>2. j < k \/ k < j
    BY <1>6, <2>1
  <2> QED BY <1>7, <2>1, <2>2
<1> QED BY <1>3, <1>9, <1>10

LEMMA ValidatedOnce ==
    ASSUME NEW cited \in Seq(evidence), Once(cited)
    PROVE  /\ Validated(cited) \in Seq(evidence) /\ Once(Validated(cited))
           /\ \A k \in DOMAIN Validated(cited) : IsValid(Validated(cited)[k])
<1> DEFINE P == {k \in DOMAIN cited : IsValid(cited[k])}
           v == Keep(cited, P)
<1>1. P \in SUBSET (DOMAIN cited) /\ \A k \in P : IsValid(cited[k])
  OBVIOUS
<1>2. Validated(cited) = v
  BY DEF Validated
<1> HIDE DEF P
<1>3. /\ \A k \in DOMAIN Keep(cited, P) : \E i \in P : Keep(cited, P)[k] = cited[i]
      /\ \A i \in P : \E k \in DOMAIN Keep(cited, P) : Keep(cited, P)[k] = cited[i]
      /\ \A j, k \in DOMAIN Keep(cited, P) :
            j < k => \E h, i \in P : h < i /\ Keep(cited, P)[j] = cited[h] /\ Keep(cited, P)[k] = cited[i]
  BY <1>1, KeepInTurn
<1>4. /\ P \in SUBSET Nat /\ P \subseteq DOMAIN cited
      /\ IsFiniteSet(P) /\ Cardinality(P) \in Nat /\ Cardinality(P) <= Len(cited)
      /\ \A k \in 1..Cardinality(P) : Keep(cited, P)[k] = cited[Ascending(P)[k]]
      /\ Keep(cited, P) \in Seq(evidence) /\ Len(Keep(cited, P)) = Cardinality(P)
      /\ DOMAIN Keep(cited, P) = 1..Cardinality(P)
  BY <1>1, KeepIsPlaced
<1>5. v \in Seq(evidence) /\ DOMAIN v = 1..Cardinality(P) /\ Cardinality(P) \in Nat
  BY <1>4
<1>6. ASSUME NEW j \in DOMAIN v, NEW k \in DOMAIN v, j < k PROVE v[j] # v[k]
  <2>1. PICK h \in P, i \in P : h < i /\ v[j] = cited[h] /\ v[k] = cited[i]
    BY <1>3, <1>6
  <2>2. h # i /\ h \in DOMAIN cited /\ i \in DOMAIN cited
    BY <1>4, <2>1
  <2> HIDE DEF v
  <2> QED BY <2>1, <2>2 DEF Once
<1>7. \A k \in DOMAIN v : IsValid(v[k])
  BY <1>1, <1>3
<1> HIDE DEF v
<1>8. Once(v)
  BY <1>5, <1>6 DEF Once
<1> QED BY <1>2, <1>5, <1>7, <1>8

External(e) == ~OfDocument(e) /\ ReturnedBy[e].type # "analysis"

\* The citations of its kind up to a citation: their number is in its label.
UpToCitation(e, valid) ==
    {i \in 1..Len(valid) :
        /\ ~OfDocument(valid[i]) /\ ReturnedBy[valid[i]].type # "analysis"
        /\ Kind(valid[i]) = Kind(e)
        /\ \E j \in i..Len(valid) : valid[j] = e}

LEMMA NumbersDiffer ==
    ASSUME NEW v \in Seq(evidence), Once(v),
           NEW p \in DOMAIN v, NEW q \in DOMAIN v, p < q,
           External(v[p]), External(v[q]), Kind(v[p]) = Kind(v[q])
    PROVE  Cardinality(UpToCitation(v[p], v)) # Cardinality(UpToCitation(v[q], v))
<1> DEFINE P == UpToCitation(v[p], v)
           Q == UpToCitation(v[q], v)
<1>1. Len(v) \in Nat /\ DOMAIN v = 1..Len(v) /\ p \in Nat /\ q \in Nat
  OBVIOUS
<1>2. \A i \in DOMAIN v, j \in DOMAIN v : v[j] = v[i] => j = i
  BY DEF Once
<1>3. P \subseteq Q
  <2> SUFFICES ASSUME NEW i \in P PROVE i \in Q
    OBVIOUS
  <2>1. /\ i \in 1..Len(v) /\ ~OfDocument(v[i]) /\ ReturnedBy[v[i]].type # "analysis"
        /\ Kind(v[i]) = Kind(v[p])
    BY DEF UpToCitation
  <2>2. PICK j \in i..Len(v) : v[j] = v[p]
    BY DEF UpToCitation
  <2>3. j = p
    BY <1>1, <1>2, <2>1, <2>2
  <2>4. q \in i..Len(v)
    BY <1>1, <2>1, <2>2, <2>3
  <2> QED BY <2>1, <2>4 DEF UpToCitation
<1>4. q \in Q
  <2>1. q \in q..Len(v) /\ q \in 1..Len(v)
    BY <1>1
  <2> QED BY <2>1 DEF UpToCitation, External
<1>5. q \notin P
  <2> SUFFICES ASSUME q \in P PROVE FALSE
    OBVIOUS
  <2>1. PICK j \in q..Len(v) : v[j] = v[p]
    BY DEF UpToCitation
  <2>2. j = p
    BY <1>1, <1>2, <2>1
  <2> QED BY <1>1, <2>1, <2>2
<1>6. IsFiniteSet(Q)
  <2> DEFINE n == Len(v)
  <2>1. IsFiniteSet(1..n)
    BY <1>1, FS_Interval
  <2>2. Q \in SUBSET (1..n)
    BY DEF UpToCitation
  <2> HIDE DEF Q, n
  <2> QED BY <2>1, <2>2, FS_Subset
<1>7. P \in SUBSET Q
  BY <1>3
<1> HIDE DEF P, Q
<1>8. Cardinality(P) # Cardinality(Q)
  BY <1>4, <1>5, <1>6, <1>7, FS_Subset
<1> QED BY <1>8 DEF P, Q

\* What a label of a citation says of it.
LEMMA LabelSays ==
    ASSUME CitationsTypeOK, NEW v, NEW e \in evidence
    PROVE  /\ ReturnedBy[e].type \in {"workspace", "web", "arxiv", "analysis", "github"}
           /\ ReturnedBy[e].page \in Nat
           /\ OfDocument(e) => LabelOf(e, v) = Reference("pageLabel", NameOf(e), PageOf(e))
           /\ ReturnedBy[e].type = "analysis" => LabelOf(e, v) = Reference("Analysis", e, 0)
           /\ External(e) => LabelOf(e, v) = Reference(Kind(e), NoName, Cardinality(UpToCitation(e, v)))
           /\ External(e) => Kind(e) \in {"Web", "arXiv", "GitHub"}
           /\ External(e) => (Kind(e) = "GitHub" <=> ReturnedBy[e].type = "github")
<1>1. e \in Findings
  BY DEF CitationsTypeOK
<1>2. /\ ReturnedBy[e].type \in {"workspace", "web", "arxiv", "analysis", "github"}
      /\ ReturnedBy[e].page \in Nat
  BY <1>1, CitationsAssumption DEF CitationsAssumption
<1>3. OfDocument(e) => LabelOf(e, v) = Reference("pageLabel", NameOf(e), PageOf(e))
  BY DEF LabelOf
<1>4. ReturnedBy[e].type = "analysis" => LabelOf(e, v) = Reference("Analysis", e, 0)
  BY DEF LabelOf, OfDocument
<1>5. External(e) => LabelOf(e, v) = Reference(Kind(e), NoName, Cardinality(UpToCitation(e, v)))
  BY DEF LabelOf, External, UpToCitation
<1>6. External(e) => Kind(e) \in {"Web", "arXiv", "GitHub"}
  BY DEF Kind
<1>7. External(e) => (Kind(e) = "GitHub" <=> ReturnedBy[e].type = "github")
  BY <1>2 DEF Kind, External, OfDocument
<1> QED BY <1>2, <1>3, <1>4, <1>5, <1>6, <1>7

LEMMA ReferencesDiffer ==
    ASSUME NEW k, NEW d, NEW n, NEW l, NEW e, NEW m
    PROVE  /\ Reference(k, d, n).kind = k /\ Reference(k, d, n).name = d /\ Reference(k, d, n).n = n
           /\ Reference(k, d, n) = Reference(l, e, m) => k = l /\ d = e /\ n = m
<1>1. /\ Reference(k, d, n).kind = k /\ Reference(k, d, n).name = d /\ Reference(k, d, n).n = n
      /\ Reference(l, e, m).kind = l /\ Reference(l, e, m).name = e /\ Reference(l, e, m).n = m
  BY DEF Reference
<1> QED BY <1>1

LEMMA ApartByLabel ==
    ASSUME CitationsTypeOK, NEW v \in Seq(evidence), Once(v), \A k \in DOMAIN v : IsValid(v[k]),
           NEW e \in ToSet(v), NEW f \in ToSet(v), e # f, LabelOf(e, v) = LabelOf(f, v)
    PROVE  /\ OfDocument(e) /\ OfDocument(f) /\ NameOf(e) = NameOf(f)
           /\ ReturnedBy[e].page = ReturnedBy[f].page
<1>1. PICK p \in DOMAIN v, q \in DOMAIN v : e = v[p] /\ f = v[q]
  BY DEF ToSet
<1>2. e \in evidence /\ f \in evidence /\ IsValid(e) /\ IsValid(f) /\ p # q
  BY <1>1
<1>3. /\ ReturnedBy[e].type \in {"workspace", "web", "arxiv", "analysis", "github"}
      /\ ReturnedBy[e].page \in Nat
      /\ OfDocument(e) => LabelOf(e, v) = Reference("pageLabel", NameOf(e), PageOf(e))
      /\ ReturnedBy[e].type = "analysis" => LabelOf(e, v) = Reference("Analysis", e, 0)
      /\ External(e) => LabelOf(e, v) = Reference(Kind(e), NoName, Cardinality(UpToCitation(e, v)))
      /\ External(e) => Kind(e) \in {"Web", "arXiv", "GitHub"}
      /\ External(e) => (Kind(e) = "GitHub" <=> ReturnedBy[e].type = "github")
  BY <1>2, LabelSays
<1>4. /\ ReturnedBy[f].type \in {"workspace", "web", "arxiv", "analysis", "github"}
      /\ ReturnedBy[f].page \in Nat
      /\ OfDocument(f) => LabelOf(f, v) = Reference("pageLabel", NameOf(f), PageOf(f))
      /\ ReturnedBy[f].type = "analysis" => LabelOf(f, v) = Reference("Analysis", f, 0)
      /\ External(f) => LabelOf(f, v) = Reference(Kind(f), NoName, Cardinality(UpToCitation(f, v)))
      /\ External(f) => Kind(f) \in {"Web", "arXiv", "GitHub"}
      /\ External(f) => (Kind(f) = "GitHub" <=> ReturnedBy[f].type = "github")
  BY <1>2, LabelSays
<1>5. /\ OfDocument(e) => LabelOf(e, v).kind = "pageLabel"
      /\ ReturnedBy[e].type = "analysis" => LabelOf(e, v).kind = "Analysis"
      /\ External(e) => LabelOf(e, v).kind \in {"Web", "arXiv", "GitHub"}
      /\ OfDocument(f) => LabelOf(f, v).kind = "pageLabel"
      /\ ReturnedBy[f].type = "analysis" => LabelOf(f, v).kind = "Analysis"
      /\ External(f) => LabelOf(f, v).kind \in {"Web", "arXiv", "GitHub"}
  BY <1>3, <1>4, ReferencesDiffer
<1>6. CASE External(e)
  <2>1. External(f)
    BY <1>5, <1>6 DEF External
  <2>2. Kind(e) = Kind(f) /\ Cardinality(UpToCitation(e, v)) = Cardinality(UpToCitation(f, v))
    <3>1. Reference(Kind(e), NoName, Cardinality(UpToCitation(e, v)))
             = Reference(Kind(f), NoName, Cardinality(UpToCitation(f, v)))
      BY <1>3, <1>4, <1>6, <2>1
    <3> QED BY <3>1, ReferencesDiffer
  <2>3. p < q \/ q < p
    BY <1>2
  <2>4. CASE p < q
    BY <1>1, <1>6, <2>1, <2>2, <2>4, NumbersDiffer
  <2>5. CASE q < p
    BY <1>1, <1>6, <2>1, <2>2, <2>5, NumbersDiffer
  <2> QED BY <2>3, <2>4, <2>5
<1>7. CASE ReturnedBy[e].type = "analysis"
  <2>1. ReturnedBy[f].type = "analysis"
    BY <1>5, <1>7 DEF External
  <2> QED BY <1>3, <1>4, <1>7, <2>1, ReferencesDiffer
<1>8. CASE OfDocument(e)
  <2>1. OfDocument(f)
    BY <1>5, <1>8 DEF External
  <2>2. NameOf(e) = NameOf(f) /\ PageOf(e) = PageOf(f)
    BY <1>3, <1>4, <1>8, <2>1, ReferencesDiffer
  <2>3. PageOf(e) # 0 /\ PageOf(f) # 0
    BY <1>2, <1>8, <2>1 DEF IsValid
  <2>4. ReturnedBy[e].page = ReturnedBy[f].page
    BY <1>3, <1>4, <2>2, <2>3 DEF PageOf
  <2> QED BY <1>8, <2>1, <2>2, <2>4
<1> QED BY <1>6, <1>7, <1>8 DEF External

\* What a reference of the draft is after the passes over pages and urls, what is
\* put in its place, and which are left.
Passed(draft, i) == KnownPage(KnownOnly(draft[i]))
Put(draft, valid, i) ==
    IF Passed(draft, i).kind = "marker" THEN LabelOf(Passed(draft, i).name, valid) ELSE Passed(draft, i)
Survives(draft, valid) ==
    {i \in DOMAIN draft :
        /\ ~Fabricated(KnownOnly(draft[i]))
        /\ Passed(draft, i).kind = "marker" => Passed(draft, i).name \in ToSet(valid)}
Puts(draft, valid) == {Put(draft, valid, i) : i \in DOMAIN draft}

LEMMA ShownIsPlaced ==
    ASSUME NEW draft \in Drafts, NEW valid
    PROVE  /\ Survives(draft, valid) \in SUBSET Nat /\ IsFiniteSet(Survives(draft, valid))
           /\ Cardinality(Survives(draft, valid)) \in Nat
           /\ Shown(draft, valid) \in Seq(Puts(draft, valid))
           /\ DOMAIN Shown(draft, valid) = 1..Cardinality(Survives(draft, valid))
           /\ \A k \in 1..Cardinality(Survives(draft, valid)) :
                 Shown(draft, valid)[k] = Put(draft, valid, Ascending(Survives(draft, valid))[k])
<1> DEFINE N == Len(draft)
           m1 == KnownReferences(draft)
           X1 == {KnownOnly(draft[i]) : i \in 1..N}
           A == {i \in 1..N : ~Fabricated(m1[i])}
           s1 == Keep(m1, A)
           m2 == KnownPages(s1)
           G2 == [i \in 1..N |-> Passed(draft, i)]
           X2 == {G2[i] : i \in 1..N}
           L == {k \in DOMAIN m2 : m2[k].kind = "marker" => m2[k].name \in ToSet(valid)}
           B == Survives(draft, valid)
           left == Keep(m2, L)
           out == [k \in DOMAIN left |->
                     IF left[k].kind = "marker" THEN LabelOf(left[k].name, valid) ELSE left[k]]
<1>1. DOMAIN draft = 1..N /\ N \in Nat
  BY DraftsAreLists
<1>2. Shown(draft, valid) = out
  <2>1. Stripped(m1) = s1
    <3>1. DOMAIN m1 = 1..N
      BY <1>1 DEF KnownReferences
    <3> QED BY <3>1 DEF Stripped
  <2>2. Shown(draft, valid) = Label(m2, valid)
    BY <2>1 DEF Shown
  <2> QED BY <2>2 DEF Label
<1>3. m1 \in Seq(X1) /\ DOMAIN m1 = 1..N /\ \A i \in 1..N : m1[i] = KnownOnly(draft[i])
  <2>1. m1 \in [1..N -> X1] /\ \A i \in 1..N : m1[i] = KnownOnly(draft[i])
    BY <1>1 DEF KnownReferences
  <2> HIDE DEF m1, X1, N
  <2> QED BY <1>1, <2>1, ListsAreFunctions
<1> HIDE DEF out, N, m1, X1
<1>4. A \in SUBSET (DOMAIN m1) /\ B \in SUBSET A
  BY <1>1, <1>3 DEF Survives
<1>5. \A i \in A : i \in B <=> (G2[i].kind = "marker" => G2[i].name \in ToSet(valid))
  BY <1>1, <1>3 DEF Survives
<1>6. \A i \in 1..N : G2[i] = KnownPage(m1[i]) /\ G2[i] = Passed(draft, i) /\ G2[i] \in X2
  BY <1>3 DEF Passed
<1> HIDE DEF A, B, G2, X2
<1>7. /\ A \in SUBSET Nat /\ A \subseteq DOMAIN m1
      /\ IsFiniteSet(A) /\ Cardinality(A) \in Nat /\ Cardinality(A) <= Len(m1)
      /\ \A k \in 1..Cardinality(A) : Keep(m1, A)[k] = m1[Ascending(A)[k]]
      /\ Keep(m1, A) \in Seq(X1) /\ Len(Keep(m1, A)) = Cardinality(A)
      /\ DOMAIN Keep(m1, A) = 1..Cardinality(A)
  BY <1>3, <1>4, KeepIsPlaced
<1>8. Ascending(A) \in [1..Cardinality(A) -> A]
  BY <1>7, PlacesAscend
<1>9. /\ m2 \in Seq(X2) /\ DOMAIN m2 = 1..Cardinality(A)
      /\ \A k \in 1..Cardinality(A) : m2[k] = G2[Ascending(A)[k]]
  <2>1. DOMAIN s1 = 1..Cardinality(A) /\ \A k \in 1..Cardinality(A) : s1[k] = m1[Ascending(A)[k]]
    BY <1>7
  <2> HIDE DEF s1
  <2>2. DOMAIN m2 = 1..Cardinality(A) /\ \A k \in 1..Cardinality(A) : m2[k] = KnownPage(m1[Ascending(A)[k]])
    BY <2>1 DEF KnownPages
  <2>3. \A k \in 1..Cardinality(A) : Ascending(A)[k] \in 1..N /\ Ascending(A)[k] \in A
    BY <1>3, <1>4, <1>8
  <2>4. \A k \in 1..Cardinality(A) : m2[k] = G2[Ascending(A)[k]] /\ m2[k] \in X2
    BY <1>6, <2>2, <2>3
  <2>5. m2 = [k \in 1..Cardinality(A) |-> m2[k]]
    BY <2>1 DEF KnownPages
  <2> HIDE DEF m2
  <2>6. m2 \in [1..Cardinality(A) -> X2]
    BY <2>4, <2>5
  <2> QED BY <1>7, <2>2, <2>4, <2>6, ListsAreFunctions
<1>10. L \in SUBSET (DOMAIN m2)
  OBVIOUS
<1>11. \A k \in 1..Cardinality(A) : k \in L <=> Ascending(A)[k] \in B
  <2> HIDE DEF m2
  <2> QED BY <1>5, <1>8, <1>9
<1> HIDE DEF L, m2
<1>13. Keep(m2, L) \in Seq(X2) /\ Placed(Keep(m2, L), G2, B)
  <2>1. A \in SUBSET Nat /\ IsFiniteSet(A)
    BY <1>7
  <2>2. B \in SUBSET A
    BY <1>4
  <2>3. m2 \in Seq(X2)
    BY <1>9
  <2>4. Placed(m2, G2, A) /\ Places(L, A, B)
    BY <1>9, <1>11 DEF Placed, Places
  <2> QED BY <2>1, <2>2, <2>3, <2>4, <1>10, KeepAgain
<1>14. /\ B \in SUBSET Nat /\ IsFiniteSet(B) /\ Cardinality(B) \in Nat
       /\ Ascending(B) \in [1..Cardinality(B) -> B]
  <2>1. B \in SUBSET Nat /\ IsFiniteSet(B)
    BY <1>4, <1>7, FS_Subset
  <2> QED BY <2>1, PlacesAscend
<1>15. \A k \in 1..Cardinality(B) :
          Ascending(B)[k] \in 1..N /\ left[k] = Passed(draft, Ascending(B)[k])
  BY <1>3, <1>4, <1>6, <1>13, <1>14 DEF Placed
<1>16. /\ DOMAIN out = 1..Cardinality(B)
       /\ \A k \in 1..Cardinality(B) : /\ out[k] = Put(draft, valid, Ascending(B)[k])
                                       /\ out[k] \in Puts(draft, valid)
  <2>1. DOMAIN left = 1..Cardinality(B)
    BY <1>13 DEF Placed
  <2> HIDE DEF left
  <2>2. /\ DOMAIN out = 1..Cardinality(B)
        /\ \A k \in 1..Cardinality(B) : out[k] = Put(draft, valid, Ascending(B)[k])
    BY <1>15, <2>1 DEF out, Put
  <2> QED BY <1>1, <1>15, <2>2 DEF Puts
<1>17. out \in Seq(Puts(draft, valid))
  <2>1. out = [k \in DOMAIN left |-> out[k]]
    BY DEF out
  <2>2. DOMAIN left = 1..Cardinality(B)
    BY <1>13 DEF Placed
  <2> HIDE DEF left
  <2>3. out \in [1..Cardinality(B) -> Puts(draft, valid)]
    BY <1>16, <2>1, <2>2
  <2> QED BY <1>14, <2>3, ListsAreFunctions
<1> QED BY <1>2, <1>14, <1>16, <1>17 DEF B

LabelKinds == {"pageLabel", "Web", "arXiv", "numberLabel"}

\* The places of a draft whose marker names a valid citation of a labelled kind.
CitesAt(draft, valid) ==
    {i \in DOMAIN draft :
        /\ draft[i].kind = "marker" /\ draft[i].name \in ToSet(valid)
        /\ ReturnedBy[draft[i].name].type \in {"workspace", "web", "arxiv"}}

\* At each place: a marker of a valid citation gives its label, and nothing else
\* gives a label of these kinds or a url that is not evidence.
LEMMA PutSays ==
    ASSUME CitationsTypeOK, NEW draft \in Drafts, NEW valid \in Seq(evidence), NEW i \in DOMAIN draft
    PROVE  /\ i \in CitesAt(draft, valid) <=>
                 i \in Survives(draft, valid) /\ Put(draft, valid, i).kind \in LabelKinds
           /\ i \in CitesAt(draft, valid) => Put(draft, valid, i) = LabelOf(draft[i].name, valid)
           /\ i \in Survives(draft, valid) /\ Put(draft, valid, i).kind = "url" =>
                 Put(draft, valid, i).name \in {UrlOf(e) : e \in evidence}
<1> DEFINE r == draft[i]
<1>1. r \in Writable
  BY DraftsAreLists
<1>2. r.kind \in {"marker", "pageLabel", "numberLabel", "Web", "GitHub", "page", "documentPage", "url"}
  BY <1>1, WrittenKinds
<1>3. Unavailable.kind = "unavailable"
  BY ReferencesDiffer DEF Unavailable
<1> HIDE DEF r
<1>4. CASE r.kind = "marker"
  <2>1. KnownOnly(r) = r
    BY <1>4 DEF KnownOnly
  <2>2. KnownPage(KnownOnly(r)) = r
    BY <1>4, <2>1 DEF KnownPage
  <2>3. Passed(draft, i) = r
    BY <2>2 DEF Passed, r
  <2>4. i \in Survives(draft, valid) <=> r.name \in ToSet(valid)
    BY <1>4, <2>1, <2>3 DEF Survives, Fabricated, r
  <2>5. Put(draft, valid, i) = LabelOf(r.name, valid)
    BY <1>4, <2>3 DEF Put
  <2>6. CASE r.name \notin ToSet(valid)
    BY <2>4, <2>6 DEF CitesAt, r
  <2>7. CASE r.name \in ToSet(valid)
    <3>1. r.name \in evidence
      BY <2>7 DEF ToSet
    <3> DEFINE e == r.name
    <3>2. /\ ReturnedBy[e].type \in {"workspace", "web", "arxiv", "analysis", "github"}
          /\ ReturnedBy[e].page \in Nat
          /\ OfDocument(e) => LabelOf(e, valid) = Reference("pageLabel", NameOf(e), PageOf(e))
          /\ ReturnedBy[e].type = "analysis" => LabelOf(e, valid) = Reference("Analysis", e, 0)
          /\ External(e) => LabelOf(e, valid) = Reference(Kind(e), NoName, Cardinality(UpToCitation(e, valid)))
          /\ External(e) => Kind(e) \in {"Web", "arXiv", "GitHub"}
          /\ External(e) => (Kind(e) = "GitHub" <=> ReturnedBy[e].type = "github")
      BY <3>1, LabelSays
    <3> HIDE DEF e
    <3>3. /\ OfDocument(e) => LabelOf(e, valid).kind = "pageLabel"
          /\ ReturnedBy[e].type = "analysis" => LabelOf(e, valid).kind = "Analysis"
          /\ External(e) => LabelOf(e, valid).kind = Kind(e)
      BY <3>2, ReferencesDiffer
    <3>4. /\ LabelOf(e, valid).kind \in LabelKinds <=> ReturnedBy[e].type \in {"workspace", "web", "arxiv"}
          /\ LabelOf(e, valid).kind # "url"
      BY <3>2, <3>3 DEF External, OfDocument, LabelKinds
    <3> QED BY <1>4, <2>4, <2>5, <2>7, <3>4 DEF CitesAt, r, e
  <2> QED BY <2>6, <2>7
<1>5. CASE r.kind # "marker"
  <2> DEFINE m == KnownOnly(r)
             p == KnownPage(m)
  <2>1. m = r \/ m = Unavailable
    BY DEF KnownOnly
  <2>2. p = m \/ p = Unavailable
    BY DEF KnownPage
  <2>3. r.kind = "url" /\ m = r => r.name \in {UrlOf(e) : e \in evidence}
    <3>1. r.kind = "url" => m = IF \E e \in evidence : UrlOf(e) = r.name THEN r ELSE Unavailable
      BY DEF KnownOnly
    <3> HIDE DEF m
    <3> QED BY <1>3, <3>1
  <2>4. Passed(draft, i) = p
    BY DEF Passed, r
  <2>5. i \in Survives(draft, valid) => m.kind \notin LabelKinds
    BY DEF Survives, Fabricated, LabelKinds, r
  <2> HIDE DEF m, p
  <2>6. m.kind # "marker" /\ p.kind # "marker"
    BY <1>3, <1>5, <2>1, <2>2
  <2>7. Put(draft, valid, i) = p
    BY <2>4, <2>6 DEF Put
  <2>8. i \notin CitesAt(draft, valid)
    BY <1>5 DEF CitesAt, r
  <2>9. i \in Survives(draft, valid) => p.kind \notin LabelKinds
    BY <1>3, <2>2, <2>5 DEF LabelKinds
  <2>10. p.kind = "url" => p.name \in {UrlOf(e) : e \in evidence}
    BY <1>3, <2>1, <2>2, <2>3
  <2> QED BY <2>7, <2>8, <2>9, <2>10
<1> QED BY <1>4, <1>5

LEMMA MarkersBecomeLabels ==
    ASSUME CitationsTypeOK, NEW draft \in Drafts, NEW valid \in Seq(evidence)
    PROVE  LET shown  == Shown(draft, valid)
               citing == Keep(draft, CitesAt(draft, valid))
           IN Keep(shown, {k \in DOMAIN shown : shown[k].kind \in LabelKinds})
                  = [k \in DOMAIN citing |-> LabelOf(citing[k].name, valid)]
<1> DEFINE t == Shown(draft, valid)
           X == Puts(draft, valid)
           G == [i \in DOMAIN draft |-> Put(draft, valid, i)]
           A == Survives(draft, valid)
           B == CitesAt(draft, valid)
           P == {k \in DOMAIN t : t[k].kind \in LabelKinds}
           citing == Keep(draft, B)
<1>1. draft \in Seq(Writable) /\ DOMAIN draft = 1..Len(draft) /\ Len(draft) \in Nat
  BY DraftsAreLists
<1>2. /\ A \in SUBSET Nat /\ IsFiniteSet(A) /\ Cardinality(A) \in Nat
      /\ t \in Seq(X) /\ DOMAIN t = 1..Cardinality(A)
      /\ \A k \in 1..Cardinality(A) : t[k] = Put(draft, valid, Ascending(A)[k])
  BY ShownIsPlaced
<1>3. \A i \in DOMAIN draft :
         /\ i \in B <=> i \in A /\ Put(draft, valid, i).kind \in LabelKinds
         /\ i \in B => Put(draft, valid, i) = LabelOf(draft[i].name, valid)
  BY PutSays
<1>4. A \subseteq DOMAIN draft /\ B \subseteq DOMAIN draft
  BY DEF Survives, CitesAt
<1>5. B \in SUBSET A
  BY <1>3, <1>4
<1> HIDE DEF t, X, A, B
<1>6. Ascending(A) \in [1..Cardinality(A) -> A]
  BY <1>2, PlacesAscend
<1>7. Placed(t, G, A)
  BY <1>2, <1>4, <1>6 DEF Placed
<1>8. P \in SUBSET (DOMAIN t) /\ Places(P, A, B)
  <2>1. \A k \in 1..Cardinality(A) : k \in P <=> Ascending(A)[k] \in B
    BY <1>2, <1>3, <1>4, <1>6
  <2> QED BY <2>1 DEF Places
<1>9. G \in [DOMAIN draft -> {Put(draft, valid, i) : i \in DOMAIN draft}]
  OBVIOUS
<1> HIDE DEF P, G
<1>10. Keep(t, P) \in Seq(X) /\ Placed(Keep(t, P), G, B)
  BY <1>2, <1>5, <1>7, <1>8, KeepAgain
<1>11. /\ B \in SUBSET Nat /\ B \subseteq DOMAIN draft
       /\ IsFiniteSet(B) /\ Cardinality(B) \in Nat /\ Cardinality(B) <= Len(draft)
       /\ \A k \in 1..Cardinality(B) : Keep(draft, B)[k] = draft[Ascending(B)[k]]
       /\ Keep(draft, B) \in Seq(Writable) /\ Len(Keep(draft, B)) = Cardinality(B)
       /\ DOMAIN Keep(draft, B) = 1..Cardinality(B)
  BY <1>1, <1>4, KeepIsPlaced
<1>12. Ascending(B) \in [1..Cardinality(B) -> B]
  BY <1>11, PlacesAscend
<1>13. ASSUME NEW k \in 1..Cardinality(B)
       PROVE  Keep(t, P)[k] = LabelOf(citing[k].name, valid)
  <2>1. Ascending(B)[k] \in B /\ Ascending(B)[k] \in DOMAIN draft
    BY <1>4, <1>12
  <2>2. Keep(t, P)[k] = G[Ascending(B)[k]]
    BY <1>10 DEF Placed
  <2>3. G[Ascending(B)[k]] = Put(draft, valid, Ascending(B)[k])
    BY <2>1 DEF G
  <2>4. Put(draft, valid, Ascending(B)[k]) = LabelOf(draft[Ascending(B)[k]].name, valid)
    BY <1>3, <2>1
  <2>5. citing[k] = draft[Ascending(B)[k]]
    BY <1>11
  <2> QED BY <2>2, <2>3, <2>4, <2>5
<1>14. Keep(t, P) = [k \in 1..Cardinality(B) |-> Keep(t, P)[k]]
  <2>1. DOMAIN Keep(t, P) = 1..Cardinality(B)
    BY <1>10 DEF Placed
  <2> DEFINE u == Keep(t, P)
  <2>2. u \in Seq(X) /\ DOMAIN u = 1..Cardinality(B)
    BY <1>10, <2>1
  <2> HIDE DEF u
  <2>3. u = [k \in 1..Cardinality(B) |-> u[k]]
    BY <2>2
  <2> QED BY <2>3 DEF u
<1>15. Keep(t, P) = [k \in DOMAIN citing |-> LabelOf(citing[k].name, valid)]
  BY <1>11, <1>13, <1>14
<1> QED BY <1>15 DEF t, P, B

\* What render_citations does to any draft.
LEMMA RenderedIsReal ==
    ASSUME CitationsTypeOK, NEW draft \in Drafts, RenderCitations(draft)
    PROVE  CitationsTypeOK' /\ CitationsAreReal'
<1> DEFINE valid == Validated(Cited(draft))
<1>1. /\ reply' = [draft |-> draft, shown |-> Shown(draft, valid), citations |-> valid, done |-> TRUE]
      /\ registry' = registry /\ evidence' = evidence
  BY DEF RenderCitations
<1>2. /\ valid \in Seq(evidence) /\ Once(valid)
      /\ \A k \in DOMAIN valid : IsValid(valid[k])
  BY CitedOnce, ValidatedOnce
<1> HIDE DEF valid
<1>3. /\ reply'.draft = draft /\ reply'.shown = Shown(draft, valid)
      /\ reply'.citations = valid /\ reply'.done = TRUE
  BY <1>1
<1>4. CitationsTypeOK'
  BY <1>1, <1>2, <1>3 DEF CitationsTypeOK, ToSet
<1>5. LabelsAreMarkers'
  <2>1. Keep(Shown(draft, valid), {k \in DOMAIN Shown(draft, valid) : Shown(draft, valid)[k].kind \in LabelKinds})
           = [k \in DOMAIN Keep(draft, CitesAt(draft, valid)) |->
                 LabelOf(Keep(draft, CitesAt(draft, valid))[k].name, valid)]
    BY <1>2, MarkersBecomeLabels
  <2> QED BY <1>3, <2>1 DEF LabelsAreMarkers, ShownKinds, LabelKinds, CitesAt
<1>6. LabelsTellApart'
  <2>1. \A e, f \in ToSet(valid) :
            e # f /\ LabelOf(e, valid) = LabelOf(f, valid) =>
                /\ OfDocument(e) /\ OfDocument(f) /\ NameOf(e) = NameOf(f)
                /\ ReturnedBy[e].page = ReturnedBy[f].page
    BY <1>2, ApartByLabel
  <2> QED BY <1>3, <2>1 DEF LabelsTellApart
<1>7. CitedPagesExist'
  <2>1. ASSUME NEW e \in ToSet(valid)
        PROVE  e \in evidence /\ (OfDocument(e) => /\ DocumentOf(e) \in registry
                                                   /\ ReturnedBy[e].page < PageCounts[DocumentOf(e)])
    <3>1. e \in evidence /\ IsValid(e)
      BY <1>2 DEF ToSet
    <3>2. e \in Findings /\ registry \subseteq DOMAIN PageCounts
      BY <3>1 DEF CitationsTypeOK
    <3>3. ReturnedBy[e].page \in Nat /\ \A d \in DOMAIN PageCounts : PageCounts[d] \in Nat
      BY <3>2, CitationsAssumption DEF CitationsAssumption
    <3>4. OfDocument(e) => ReturnedBy[e].page < PageCounts[DocumentOf(e)]
      BY <3>1, <3>2, <3>3 DEF IsValid, PageOf
    <3> QED BY <3>1, <3>4 DEF IsValid
  <2> DEFINE t == Shown(draft, valid)
             P == {k \in DOMAIN t : t[k].kind \in {"url"}}
  <2>2. /\ Survives(draft, valid) \in SUBSET Nat /\ IsFiniteSet(Survives(draft, valid))
        /\ Cardinality(Survives(draft, valid)) \in Nat
        /\ Shown(draft, valid) \in Seq(Puts(draft, valid))
        /\ DOMAIN Shown(draft, valid) = 1..Cardinality(Survives(draft, valid))
        /\ \A k \in 1..Cardinality(Survives(draft, valid)) :
              Shown(draft, valid)[k] = Put(draft, valid, Ascending(Survives(draft, valid))[k])
    BY ShownIsPlaced
  <2>3. Ascending(Survives(draft, valid)) \in [1..Cardinality(Survives(draft, valid)) -> Survives(draft, valid)]
    BY <2>2, PlacesAscend
  <2>4. ASSUME NEW k \in P PROVE t[k].name \in {UrlOf(e) : e \in evidence}
    <3> DEFINE i == Ascending(Survives(draft, valid))[k]
    <3>1. k \in 1..Cardinality(Survives(draft, valid)) /\ t[k].kind = "url"
      BY <2>2
    <3>2. i \in Survives(draft, valid) /\ t[k] = Put(draft, valid, i)
      BY <2>2, <2>3, <3>1
    <3>3. i \in DOMAIN draft
      BY <3>2 DEF Survives
    <3> HIDE DEF i, t, P
    <3> QED BY <1>2, <3>1, <3>2, <3>3, PutSays
  <2>5. t \in Seq(Puts(draft, valid)) /\ P \in SUBSET (DOMAIN t)
    BY <2>2
  <2> HIDE DEF t, P
  <2>6. \A k \in DOMAIN Keep(t, P) : \E i \in P : Keep(t, P)[k] = t[i]
    <3>1. /\ \A k \in DOMAIN Keep(t, P) : \E i \in P : Keep(t, P)[k] = t[i]
          /\ \A i \in P : \E k \in DOMAIN Keep(t, P) : Keep(t, P)[k] = t[i]
          /\ \A j, k \in DOMAIN Keep(t, P) :
                j < k => \E h, i \in P : h < i /\ Keep(t, P)[j] = t[h] /\ Keep(t, P)[k] = t[i]
      BY <2>5, KeepInTurn
    <3> QED BY <3>1
  <2>7. \A r \in ToSet(Keep(t, P)) : r.name \in {UrlOf(e) : e \in evidence}
    BY <2>4, <2>6 DEF ToSet
  <2>8. ShownKinds({"url"})' = Keep(t, P)
    BY <1>3 DEF ShownKinds, t, P
  <2> QED BY <1>1, <1>3, <2>1, <2>7, <2>8 DEF CitedPagesExist
<1> QED BY <1>4, <1>5, <1>6, <1>7 DEF CitationsAreReal

LEMMA CitationsStart == CitationsInit => CitationsTypeOK /\ CitationsAreReal
<1> SUFFICES ASSUME CitationsInit PROVE CitationsTypeOK /\ CitationsAreReal
  OBVIOUS
<1>1. /\ registry \subseteq DOMAIN PageCounts /\ evidence \subseteq Findings
      /\ reply.draft = <<>> /\ reply.shown = <<>> /\ reply.citations = <<>> /\ reply.done = FALSE
  BY DEF CitationsInit, NoReply
<1>2. <<>> \in Drafts
  <2>1. 0 \in 0..MaxReferences
    BY CitationsAssumption DEF CitationsAssumption
  <2>2. <<>> \in [1..0 -> Writable]
    OBVIOUS
  <2> QED BY <2>1, <2>2 DEF Drafts
<1>3. ToSet(<<>>) = {}
  BY DEF ToSet
<1>4. CitationsTypeOK
  BY <1>1, <1>2, <1>3 DEF CitationsTypeOK
<1>5. \A P : DOMAIN Keep(<<>>, P) = {} /\ Keep(<<>>, P) = <<>>
  <2> SUFFICES ASSUME NEW P PROVE DOMAIN Keep(<<>>, P) = {} /\ Keep(<<>>, P) = <<>>
    OBVIOUS
  <2>1. P \cap DOMAIN <<>> = {}
    OBVIOUS
  <2>2. Ascending({}) \in [1..0 -> {}]
    BY PlacesAscend, FS_EmptySet
  <2>3. DOMAIN Ascending({}) = {}
    BY <2>2
  <2> QED BY <2>1, <2>3 DEF Keep
<1>6. LabelsAreMarkers
  <2>1. ShownKinds({"pageLabel", "Web", "arXiv", "numberLabel"}) = <<>>
    BY <1>1, <1>5 DEF ShownKinds
  <2> DEFINE P == {i \in DOMAIN reply.draft :
                      /\ reply.draft[i].kind = "marker" /\ reply.draft[i].name \in ToSet(reply.citations)
                      /\ ReturnedBy[reply.draft[i].name].type \in {"workspace", "web", "arxiv"}}
             citing == Keep(reply.draft, P)
             labels == [k \in DOMAIN citing |-> LabelOf(citing[k].name, reply.citations)]
  <2>2. DOMAIN citing = {}
    <3> HIDE DEF P
    <3> QED BY <1>1, <1>5
  <2> HIDE DEF citing
  <2>3. labels = <<>>
    BY <2>2
  <2> QED BY <2>1, <2>3 DEF LabelsAreMarkers, citing
<1>7. LabelsTellApart
  BY <1>1, <1>3 DEF LabelsTellApart
<1>8. CitedPagesExist
  BY <1>1, <1>3, <1>5 DEF CitedPagesExist, ShownKinds
<1> QED BY <1>4, <1>6, <1>7, <1>8 DEF CitationsAreReal

LEMMA CitationsStep ==
    ASSUME CitationsTypeOK, CitationsAreReal, [CitationsNext]_citationVars
    PROVE  CitationsTypeOK' /\ CitationsAreReal'
<1>1. CASE UNCHANGED citationVars
  BY <1>1 DEF citationVars, CitationsTypeOK, CitationsAreReal, LabelsAreMarkers, ShownKinds,
     LabelsTellApart, CitedPagesExist
<1>2. CASE \E draft \in Drafts : RenderCitations(draft)
  BY <1>2, RenderedIsReal
<1> QED BY <1>1, <1>2 DEF CitationsNext

\* Whatever a model writes, over any findings, documents and length of a draft: every
\* document, Web and arXiv label of the answer stands for the marker of a valid citation,
\* two citations have two labels unless they are of one page and document name, and a
\* cited page is in a document of the workspace (evidence.py render_citations,
\* validate_citations).
THEOREM CitationsAreRealHolds == CitationsSpec => [](CitationsTypeOK /\ CitationsAreReal)
<1>1. CitationsTypeOK /\ CitationsAreReal /\ [CitationsNext]_citationVars
         => (CitationsTypeOK /\ CitationsAreReal)'
  BY CitationsStep
<1> QED BY CitationsStart, <1>1, PTL DEF CitationsSpec

-----------------------------------------------------------------------------
(* The pool of a search: each slot is with exactly one search of a document.  *)

Answers == {<<>>} \cup UNION {DocumentRankings(d) : d \in DocumentSet}

RunRecords ==
    [pc : {"idle", "admitting", "waiting", "merging"}, records : SUBSET DocumentSet,
     targets : SUBSET DocumentSet, next : 1..(Len(WorkspaceRecords) + 1), inTime : SUBSET DocumentSet]

PoolTypeOK ==
    /\ slots \in Nat /\ late \in Nat
    /\ future \in [Searches -> [DocumentSet -> [state : FutureStates, hits : Answers]]]
    /\ search \in [Searches -> RunRecords]

\* The searches of documents that hold a slot.
Holders == {f \in Searches \X DocumentSet : future[f[1]][f[2]].state \in {"submitted", "running"}}

\* Nothing is submitted before its turn, and nothing is left from an earlier search.
SubmittedInTurn ==
    \A s \in Searches :
        /\ search[s].pc = "idle" => \A d \in DocumentSet : future[s][d].state = "none"
        /\ search[s].pc = "admitting" =>
              \A i \in DOMAIN WorkspaceRecords :
                  search[s].next <= i => future[s][WorkspaceRecords[i]].state = "none"

PoolInv == PoolTypeOK /\ IsFiniteSet(Holders) /\ SlotsComeBack /\ SubmittedInTurn

LEMMA PlacesAreDocuments ==
    /\ Len(WorkspaceRecords) \in Nat /\ DOMAIN WorkspaceRecords = 1..Len(WorkspaceRecords)
    /\ \A i \in DOMAIN WorkspaceRecords : WorkspaceRecords[i] \in DocumentSet
    /\ \A i, j \in DOMAIN WorkspaceRecords : WorkspaceRecords[i] = WorkspaceRecords[j] => i = j
<1>1. WorkspaceRecords \in Seq(ToSet(WorkspaceRecords))
  BY RetrievalAssumption DEF RetrievalAssumption
<1>2. \A i, j \in DOMAIN WorkspaceRecords : WorkspaceRecords[i] = WorkspaceRecords[j] => i = j
  BY RetrievalAssumption DEF RetrievalAssumption
<1> QED BY <1>1, <1>2 DEF DocumentSet

LEMMA FutureIsTyped ==
    ASSUME PoolInv
    PROVE  /\ future \in [Searches -> [DocumentSet -> [state : FutureStates, hits : Answers]]]
           /\ \A s \in Searches, d \in DocumentSet :
                 future[s][d] \in [state : FutureStates, hits : Answers]
<1>1. future \in [Searches -> [DocumentSet -> [state : FutureStates, hits : Answers]]]
  BY DEF PoolInv, PoolTypeOK
<1> QED BY <1>1

\* What is counted when the state of one future changes.
LEMMA HoldersChange ==
    ASSUME PoolInv, NEW s \in Searches, NEW d \in DocumentSet,
           NEW given \in [state : FutureStates, hits : Answers],
           future' = [future EXCEPT ![s][d] = given]
    PROVE  /\ future' \in [Searches -> [DocumentSet -> [state : FutureStates, hits : Answers]]]
           /\ \A u \in Searches, e \in DocumentSet :
                 future'[u][e] = IF u = s /\ e = d THEN given ELSE future[u][e]
           /\ given.state \in {"submitted", "running"} => Holders' = Holders \cup {<<s, d>>}
           /\ given.state \notin {"submitted", "running"} => Holders' = Holders \ {<<s, d>>}
           /\ <<s, d>> \in Holders <=> (future[s][d].state \in {"submitted", "running"})
<1>1. future \in [Searches -> [DocumentSet -> [state : FutureStates, hits : Answers]]]
  BY DEF PoolInv, PoolTypeOK
<1>2. /\ future' \in [Searches -> [DocumentSet -> [state : FutureStates, hits : Answers]]]
      /\ \A u \in Searches, e \in DocumentSet :
            future'[u][e] = IF u = s /\ e = d THEN given ELSE future[u][e]
  BY <1>1
<1>3. <<s, d>> \in Holders <=> (future[s][d].state \in {"submitted", "running"})
  BY DEF Holders
<1>4. \A f \in Searches \X DocumentSet :
          f \in Holders' <=> IF f = <<s, d>> THEN given.state \in {"submitted", "running"} ELSE f \in Holders
  <2>1. \A u \in Searches, e \in DocumentSet :
            <<u, e>> \in Holders' <=>
                IF u = s /\ e = d THEN given.state \in {"submitted", "running"} ELSE <<u, e>> \in Holders
    BY <1>2 DEF Holders
  <2> QED BY <2>1
<1>5. Holders \subseteq Searches \X DocumentSet /\ Holders' \subseteq Searches \X DocumentSet
  BY DEF Holders
<1>6. /\ given.state \in {"submitted", "running"} => Holders' = Holders \cup {<<s, d>>}
      /\ given.state \notin {"submitted", "running"} => Holders' = Holders \ {<<s, d>>}
  BY <1>4, <1>5
<1> QED BY <1>2, <1>3, <1>6

LEMMA SlotsAreCounted == SlotsComeBack <=> (slots + late + Cardinality(Holders) = RetrievalSlots)
BY DEF SlotsComeBack, Holders

\* What a search of a document may have found, nothing included.
LEMMA AnswersHold ==
    /\ <<>> \in Answers
    /\ \A d \in DocumentSet : \A hits \in DocumentRankings(d) : hits \in Answers
<1> DEFINE rankings == {DocumentRankings(d) : d \in DocumentSet}
<1>1. Answers = {<<>>} \cup UNION rankings
  BY DEF Answers
<1>2. \A d \in DocumentSet : DocumentRankings(d) \in rankings
  OBVIOUS
<1> HIDE DEF rankings
<1> QED BY <1>1, <1>2, Zenon

LEMMA PoolStarts == RetrievalInit => PoolInv
<1> SUFFICES ASSUME RetrievalInit PROVE PoolInv
  OBVIOUS
<1>1. RetrievalSlots \in Nat
  BY RetrievalAssumption DEF RetrievalAssumption
<1>2. PoolTypeOK
  <2>1. 1 \in 1..(Len(WorkspaceRecords) + 1)
    BY PlacesAreDocuments
  <2>2. search \in [Searches -> RunRecords]
    BY <2>1 DEF RetrievalInit, NotBegun, RunRecords
  <2>3. NoFuture \in [state : FutureStates, hits : Answers]
    BY AnswersHold DEF NoFuture, FutureStates
  <2>4. future \in [Searches -> [DocumentSet -> [state : FutureStates, hits : Answers]]]
    BY <2>3 DEF RetrievalInit
  <2> QED BY <1>1, <2>2, <2>4 DEF RetrievalInit, PoolTypeOK
<1>3. \A s \in Searches, d \in DocumentSet : future[s][d].state = "none"
  BY DEF RetrievalInit, NoFuture
<1>4. Holders = {}
  BY <1>3 DEF Holders
<1>5. SlotsComeBack
  <2>1. Cardinality(Holders) = 0
    BY <1>4, FS_EmptySet
  <2> QED BY <1>1, <2>1, SlotsAreCounted DEF RetrievalInit
<1>6. SubmittedInTurn
  BY <1>3, PlacesAreDocuments DEF SubmittedInTurn
<1> QED BY <1>2, <1>4, <1>5, <1>6, FS_EmptySet DEF PoolInv


LEMMA BeginKeepsPool ==
    ASSUME PoolInv, NEW s \in Searches, NEW records \in SUBSET DocumentSet,
           NEW targets \in SUBSET DocumentSet, BeginSearch(s, records, targets)
    PROVE  PoolInv'
<1>1. UNCHANGED <<slots, future, late>> /\ search[s].pc = "idle"
  BY DEF BeginSearch
<1>2. /\ PoolTypeOK'
      /\ \A u \in Searches : search'[u].pc = IF u = s THEN "admitting" ELSE search[u].pc
      /\ \A u \in Searches : u # s => search'[u].next = search[u].next
  <2> DEFINE given == [pc |-> "admitting", records |-> records, targets |-> targets,
                       next |-> 1, inTime |-> {}]
  <2>1. given \in RunRecords /\ given.pc = "admitting"
    <3>1. 1 \in 1..(Len(WorkspaceRecords) + 1)
      BY PlacesAreDocuments
    <3> QED BY <3>1 DEF RunRecords
  <2>2. search' = [search EXCEPT ![s] = given]
    BY DEF BeginSearch
  <2> HIDE DEF given
  <2>3. /\ search' \in [Searches -> RunRecords]
        /\ \A u \in Searches : search'[u] = IF u = s THEN given ELSE search[u]
    BY <2>1, <2>2 DEF PoolInv, PoolTypeOK
  <2> QED BY <1>1, <2>1, <2>3 DEF PoolInv, PoolTypeOK
<1>3. Holders' = Holders
  BY <1>1 DEF Holders
<1>4. SlotsComeBack'
  BY <1>1 DEF PoolInv, SlotsComeBack
<1>5. \A d \in DocumentSet : future[s][d].state = "none"
  BY <1>1 DEF PoolInv, SubmittedInTurn
<1>6. SubmittedInTurn'
  BY <1>1, <1>2, <1>5, PlacesAreDocuments DEF PoolInv, SubmittedInTurn
<1> QED BY <1>2, <1>3, <1>4, <1>6 DEF PoolInv

LEMMA AdmitKeepsPool == ASSUME PoolInv, NEW s \in Searches, Admit(s) PROVE PoolInv'
<1> DEFINE i == Min(Left(s))
           d == WorkspaceRecords[i]
           given == [future[s][d] EXCEPT !.state = "submitted"]
<1>1. /\ search[s].pc = "admitting" /\ slots > 0 /\ slots' = slots - 1 /\ UNCHANGED late
      /\ future' = [future EXCEPT ![s][d].state = "submitted"]
      /\ search' = [search EXCEPT ![s].next = i + 1]
      /\ Left(s) # {}
  BY DEF Admit
<1>2. search[s].next \in Nat /\ search[s].next >= 1
  BY PlacesAreDocuments DEF PoolInv, PoolTypeOK, RunRecords
<1>3. i \in DOMAIN WorkspaceRecords /\ search[s].next <= i
  <2>1. Left(s) \in SUBSET Nat
    BY <1>2, PlacesAreDocuments DEF Left
  <2>2. i \in Left(s)
    BY <1>1, <2>1, LeastPlace
  <2> QED BY <1>2, <2>2, PlacesAreDocuments DEF Left
<1> HIDE DEF i
<1>4. d \in DocumentSet
  BY <1>3, PlacesAreDocuments
<1>5. future[s][d].state = "none"
  BY <1>1, <1>3 DEF PoolInv, SubmittedInTurn
<1>6. given \in [state : FutureStates, hits : Answers] /\ given.state = "submitted"
  BY <1>4, FutureIsTyped DEF FutureStates
<1>7. future' = [future EXCEPT ![s][d] = given]
  BY <1>1
<1> HIDE DEF given
<1>8. /\ future' \in [Searches -> [DocumentSet -> [state : FutureStates, hits : Answers]]]
      /\ \A u \in Searches, e \in DocumentSet :
            future'[u][e] = IF u = s /\ e = d THEN given ELSE future[u][e]
      /\ Holders' = Holders \cup {<<s, d>>} /\ <<s, d>> \notin Holders
  <2>1. /\ future' \in [Searches -> [DocumentSet -> [state : FutureStates, hits : Answers]]]
        /\ \A u \in Searches, e \in DocumentSet :
              future'[u][e] = IF u = s /\ e = d THEN given ELSE future[u][e]
        /\ given.state \in {"submitted", "running"} => Holders' = Holders \cup {<<s, d>>}
        /\ given.state \notin {"submitted", "running"} => Holders' = Holders \ {<<s, d>>}
        /\ <<s, d>> \in Holders <=> (future[s][d].state \in {"submitted", "running"})
    BY <1>4, <1>6, <1>7, HoldersChange, Zenon
  <2> QED BY <1>5, <1>6, <2>1
<1>9. IsFiniteSet(Holders') /\ Cardinality(Holders') = Cardinality(Holders) + 1
  BY <1>8, FS_AddElement DEF PoolInv
<1>10. /\ PoolTypeOK'
       /\ \A u \in Searches : search'[u].pc = search[u].pc
       /\ \A u \in Searches : search'[u].next = IF u = s THEN i + 1 ELSE search[u].next
  <2> DEFINE own == [search[s] EXCEPT !.next = i + 1]
  <2>1. own \in RunRecords /\ own.pc = search[s].pc /\ own.next = i + 1
    <3>1. search[s] \in RunRecords
      BY DEF PoolInv, PoolTypeOK
    <3>2. i + 1 \in 1..(Len(WorkspaceRecords) + 1)
      BY <1>3, PlacesAreDocuments
    <3> QED BY <3>1, <3>2 DEF RunRecords
  <2>2. search' = [search EXCEPT ![s] = own]
    BY <1>1
  <2> HIDE DEF own
  <2>3. /\ search' \in [Searches -> RunRecords]
        /\ \A u \in Searches : search'[u] = IF u = s THEN own ELSE search[u]
    BY <2>1, <2>2 DEF PoolInv, PoolTypeOK
  <2>4. slots' \in Nat /\ late' \in Nat
    BY <1>1 DEF PoolInv, PoolTypeOK
  <2> QED BY <1>8, <2>1, <2>3, <2>4 DEF PoolTypeOK
<1>11. SlotsComeBack'
  <2>1. SlotsComeBack' <=> (slots' + late' + Cardinality(Holders') = RetrievalSlots)
    BY DEF SlotsComeBack, Holders
  <2>2. slots + late + Cardinality(Holders) = RetrievalSlots
    BY SlotsAreCounted DEF PoolInv
  <2>3. Cardinality(Holders) \in Nat /\ slots \in Nat /\ late \in Nat
    BY FS_CardinalityType DEF PoolInv, PoolTypeOK
  <2> QED BY <1>1, <1>9, <2>1, <2>2, <2>3
<1>12. SubmittedInTurn'
  <2>1. ASSUME NEW u \in Searches, search'[u].pc = "admitting", NEW j \in DOMAIN WorkspaceRecords,
               search'[u].next <= j
        PROVE  future'[u][WorkspaceRecords[j]].state = "none"
    <3>1. CASE u = s
      <4>1. j # i /\ search[s].next <= j
        BY <1>2, <1>3, <1>10, <2>1, <3>1, PlacesAreDocuments
      <4>2. WorkspaceRecords[j] # d /\ WorkspaceRecords[j] \in DocumentSet
        BY <1>3, <4>1, PlacesAreDocuments
      <4> QED BY <1>1, <1>8, <3>1, <4>1, <4>2 DEF PoolInv, SubmittedInTurn
    <3>2. CASE u # s
      <4>1. WorkspaceRecords[j] \in DocumentSet
        BY PlacesAreDocuments
      <4> QED BY <1>8, <1>10, <2>1, <3>2, <4>1 DEF PoolInv, SubmittedInTurn
    <3> QED BY <3>1, <3>2
  <2>2. ASSUME NEW u \in Searches, search'[u].pc = "idle", NEW e \in DocumentSet
        PROVE  future'[u][e].state = "none"
    BY <1>1, <1>8, <1>10, <2>2 DEF PoolInv, SubmittedInTurn
  <2> QED BY <2>1, <2>2 DEF SubmittedInTurn
<1> QED BY <1>9, <1>10, <1>11, <1>12 DEF PoolInv

\* A search of a document that begins or ends leaves the admission as it was.
LEMMA OthersKeepTurns ==
    ASSUME PoolInv, UNCHANGED search,
           \A u \in Searches, e \in DocumentSet :
               future[u][e].state = "none" => future'[u][e].state = "none"
    PROVE  SubmittedInTurn'
BY PlacesAreDocuments DEF PoolInv, SubmittedInTurn

LEMMA StartKeepsPool ==
    ASSUME PoolInv, NEW s \in Searches, NEW d \in DocumentSet, StartSearch(s, d)
    PROVE  PoolInv'
<1> DEFINE given == [future[s][d] EXCEPT !.state = "running"]
<1>1. /\ future[s][d].state = "submitted" /\ UNCHANGED <<slots, late, search>>
      /\ future' = [future EXCEPT ![s][d] = given]
  BY DEF StartSearch
<1>2. given \in [state : FutureStates, hits : Answers] /\ given.state = "running"
  BY FutureIsTyped DEF FutureStates
<1> HIDE DEF given
<1>3. /\ future' \in [Searches -> [DocumentSet -> [state : FutureStates, hits : Answers]]]
      /\ \A u \in Searches, e \in DocumentSet :
            future'[u][e] = IF u = s /\ e = d THEN given ELSE future[u][e]
      /\ Holders' = Holders \cup {<<s, d>>} /\ <<s, d>> \in Holders
  <2>1. /\ future' \in [Searches -> [DocumentSet -> [state : FutureStates, hits : Answers]]]
        /\ \A u \in Searches, e \in DocumentSet :
              future'[u][e] = IF u = s /\ e = d THEN given ELSE future[u][e]
        /\ given.state \in {"submitted", "running"} => Holders' = Holders \cup {<<s, d>>}
        /\ given.state \notin {"submitted", "running"} => Holders' = Holders \ {<<s, d>>}
        /\ <<s, d>> \in Holders <=> (future[s][d].state \in {"submitted", "running"})
    BY <1>1, <1>2, HoldersChange, Zenon
  <2> QED BY <1>1, <1>2, <2>1
<1>4. Holders' = Holders
  BY <1>3
<1>5. SlotsComeBack'
  <2>1. SlotsComeBack' <=> (slots' + late' + Cardinality(Holders') = RetrievalSlots)
    BY DEF SlotsComeBack, Holders
  <2> QED BY <1>1, <1>4, <2>1, SlotsAreCounted DEF PoolInv
<1>6. SubmittedInTurn'
  <2>1. \A u \in Searches, e \in DocumentSet :
            future[u][e].state = "none" => future'[u][e].state = "none"
    BY <1>1, <1>3
  <2> QED BY <1>1, <2>1, OthersKeepTurns
<1> QED BY <1>1, <1>3, <1>4, <1>5, <1>6 DEF PoolInv, PoolTypeOK

LEMMA FinishKeepsPool ==
    ASSUME PoolInv, NEW s \in Searches, NEW d \in DocumentSet, FinishSearch(s, d)
    PROVE  PoolInv'
<1>1. /\ future[s][d].state = "running" /\ slots' = slots + 1 /\ UNCHANGED <<late, search>>
  BY DEF FinishSearch
<1>2. PICK given \in [state : FutureStates, hits : Answers] :
          future' = [future EXCEPT ![s][d] = given] /\ given.state \in {"done", "failed"}
  <2>1. CASE \E hits \in DocumentRankings(d) :
                future' = [future EXCEPT ![s][d] = [state |-> "done", hits |-> hits]]
    <3>1. PICK hits \in DocumentRankings(d) :
                future' = [future EXCEPT ![s][d] = [state |-> "done", hits |-> hits]]
      BY <2>1
    <3>2. hits \in Answers
      BY AnswersHold, Zenon
    <3> DEFINE given == [state |-> "done", hits |-> hits]
    <3>3. given \in [state : FutureStates, hits : Answers] /\ given.state = "done"
      BY <3>2 DEF FutureStates
    <3>4. future' = [future EXCEPT ![s][d] = given]
      BY <3>1
    <3> HIDE DEF given
    <3> QED BY <3>3, <3>4
  <2>2. CASE future' = [future EXCEPT ![s][d].state = "failed"]
    <3> DEFINE given == [future[s][d] EXCEPT !.state = "failed"]
    <3>1. given \in [state : FutureStates, hits : Answers] /\ given.state = "failed"
      BY FutureIsTyped DEF FutureStates
    <3>2. future' = [future EXCEPT ![s][d] = given]
      BY <2>2
    <3> HIDE DEF given
    <3> QED BY <3>1, <3>2
  <2> QED BY <2>1, <2>2 DEF FinishSearch
<1>3. /\ future' \in [Searches -> [DocumentSet -> [state : FutureStates, hits : Answers]]]
      /\ \A u \in Searches, e \in DocumentSet :
            future'[u][e] = IF u = s /\ e = d THEN given ELSE future[u][e]
      /\ Holders' = Holders \ {<<s, d>>} /\ <<s, d>> \in Holders
  <2>1. /\ future' \in [Searches -> [DocumentSet -> [state : FutureStates, hits : Answers]]]
        /\ \A u \in Searches, e \in DocumentSet :
              future'[u][e] = IF u = s /\ e = d THEN given ELSE future[u][e]
        /\ given.state \in {"submitted", "running"} => Holders' = Holders \cup {<<s, d>>}
        /\ given.state \notin {"submitted", "running"} => Holders' = Holders \ {<<s, d>>}
        /\ <<s, d>> \in Holders <=> (future[s][d].state \in {"submitted", "running"})
    BY <1>1, <1>2, HoldersChange, Zenon
  <2> QED BY <1>1, <1>2, <2>1
<1>4. IsFiniteSet(Holders') /\ Cardinality(Holders') = Cardinality(Holders) - 1
  BY <1>3, FS_RemoveElement DEF PoolInv
<1>5. SlotsComeBack'
  <2>1. SlotsComeBack' <=> (slots' + late' + Cardinality(Holders') = RetrievalSlots)
    BY DEF SlotsComeBack, Holders
  <2>2. slots + late + Cardinality(Holders) = RetrievalSlots
    BY SlotsAreCounted DEF PoolInv
  <2>3. Cardinality(Holders) \in Nat /\ slots \in Nat /\ late \in Nat
    BY FS_CardinalityType DEF PoolInv, PoolTypeOK
  <2> QED BY <1>1, <1>4, <2>1, <2>2, <2>3
<1>6. SubmittedInTurn'
  <2>1. \A u \in Searches, e \in DocumentSet :
            future[u][e].state = "none" => future'[u][e].state = "none"
    BY <1>1, <1>3
  <2> QED BY <1>1, <2>1, OthersKeepTurns
<1> QED BY <1>1, <1>3, <1>4, <1>5, <1>6 DEF PoolInv, PoolTypeOK

LEMMA FinishLateKeepsPool == ASSUME PoolInv, FinishLate PROVE PoolInv'
<1>1. late > 0 /\ late' = late - 1 /\ slots' = slots + 1 /\ UNCHANGED <<future, search>>
  BY DEF FinishLate
<1>2. Holders' = Holders
  BY <1>1 DEF Holders
<1>3. PoolTypeOK' /\ SubmittedInTurn'
  BY <1>1 DEF PoolInv, PoolTypeOK, SubmittedInTurn
<1>4. SlotsComeBack'
  <2>1. SlotsComeBack' <=> (slots' + late' + Cardinality(Holders') = RetrievalSlots)
    BY DEF SlotsComeBack, Holders
  <2>2. slots + late + Cardinality(Holders) = RetrievalSlots
    BY SlotsAreCounted DEF PoolInv
  <2>3. Cardinality(Holders) \in Nat /\ slots \in Nat /\ late \in Nat
    BY FS_CardinalityType DEF PoolInv, PoolTypeOK
  <2> QED BY <1>1, <1>2, <2>1, <2>2, <2>3
<1> QED BY <1>2, <1>3, <1>4 DEF PoolInv


\* What a search holds in the pool, counted per document.
LEMMA RunsShare ==
    ASSUME NEW s \in Searches, NEW D \in SUBSET DocumentSet, IsFiniteSet({s} \X D)
    PROVE  IsFiniteSet(D) /\ Cardinality({s} \X D) = Cardinality(D)
<1> DEFINE f == [p \in {s} \X D |-> p[2]]
<1>1. f \in Bijection({s} \X D, D)
  <2>1. \A p \in {s} \X D : p = <<s, p[2]>> /\ p[2] \in D
    OBVIOUS
  <2>2. f \in [{s} \X D -> D]
    BY <2>1
  <2>3. \A p, q \in {s} \X D : f[p] = f[q] => p = q
    BY <2>1
  <2>4. \A d \in D : \E p \in {s} \X D : f[p] = d
    <3>1. TAKE d \in D
    <3>2. <<s, d>> \in {s} \X D /\ f[<<s, d>>] = d
      OBVIOUS
    <3> QED BY <3>2
  <2> QED BY <2>2, <2>3, <2>4 DEF Bijection, Injection, Surjection, IsInjective
<1> QED BY <1>1, FS_Bijection DEF ExistsBijection

LEMMA SelectKeepsPool == ASSUME PoolInv, NEW s \in Searches, Select(s) PROVE PoolInv'
<1> DEFINE waiting == {s} \X Still(s, "submitted")
           running == {s} \X Still(s, "running")
<1>1. /\ slots' = slots + Cardinality(Still(s, "submitted"))
      /\ late' = late + Cardinality(Still(s, "running"))
      /\ future' = [future EXCEPT ![s] = [d \in DocumentSet |-> NoFuture]]
      /\ search' = [search EXCEPT ![s] = NotBegun]
  BY Zenon DEF Select
<1>2. NoFuture \in [state : FutureStates, hits : Answers] /\ NoFuture.state = "none"
  BY AnswersHold DEF NoFuture, FutureStates
<1>3. /\ future' \in [Searches -> [DocumentSet -> [state : FutureStates, hits : Answers]]]
      /\ \A u \in Searches, d \in DocumentSet :
            future'[u][d] = IF u = s THEN NoFuture ELSE future[u][d]
  BY <1>1, <1>2 DEF PoolInv, PoolTypeOK
<1>4. /\ search' \in [Searches -> RunRecords]
      /\ \A u \in Searches : search'[u] = IF u = s THEN NotBegun ELSE search[u]
      /\ NotBegun.pc = "idle"
  <2>1. NotBegun \in RunRecords /\ NotBegun.pc = "idle"
    BY PlacesAreDocuments DEF NotBegun, RunRecords
  <2> QED BY <1>1, <2>1 DEF PoolInv, PoolTypeOK
<1>5. /\ Holders = Holders' \cup (waiting \cup running)
      /\ Holders' \cap (waiting \cup running) = {} /\ waiting \cap running = {}
  <2>1. /\ \A u \in Searches, d \in DocumentSet :
               <<u, d>> \in Holders' <=> u # s /\ <<u, d>> \in Holders
        /\ \A d \in DocumentSet : <<s, d>> \in waiting <=> future[s][d].state = "submitted"
        /\ \A d \in DocumentSet : <<s, d>> \in running <=> future[s][d].state = "running"
        /\ \A d \in DocumentSet :
               <<s, d>> \in Holders <=> future[s][d].state \in {"submitted", "running"}
    BY <1>2, <1>3 DEF Holders, Still
  <2>2. /\ Holders \subseteq Searches \X DocumentSet /\ Holders' \subseteq Searches \X DocumentSet
        /\ waiting \subseteq {s} \X DocumentSet /\ running \subseteq {s} \X DocumentSet
    BY DEF Holders, Still
  <2>3. \A p \in Searches \X DocumentSet :
            /\ p \in Holders <=> p \in Holders' \/ p \in waiting \/ p \in running
            /\ ~ (p \in Holders' /\ (p \in waiting \/ p \in running))
            /\ ~ (p \in waiting /\ p \in running)
    <3>1. ASSUME NEW u \in Searches, NEW d \in DocumentSet
          PROVE  LET p == <<u, d>>
                 IN /\ p \in Holders <=> p \in Holders' \/ p \in waiting \/ p \in running
                    /\ ~ (p \in Holders' /\ (p \in waiting \/ p \in running))
                    /\ ~ (p \in waiting /\ p \in running)
      <4>1. CASE u = s
        BY <2>1, <4>1
      <4>2. CASE u # s
        <5>1. <<u, d>> \notin waiting /\ <<u, d>> \notin running
          BY <4>2
        <5> QED BY <2>1, <4>2, <5>1
      <4> QED BY <4>1, <4>2
    <3> HIDE DEF waiting, running
    <3> QED BY <3>1
  <2> HIDE DEF waiting, running
  <2> QED BY <2>2, <2>3
<1>6. /\ IsFiniteSet(Holders') /\ IsFiniteSet(waiting) /\ IsFiniteSet(running)
      /\ Cardinality(Holders) = Cardinality(Holders') + Cardinality(waiting) + Cardinality(running)
  <2> HIDE DEF waiting, running
  <2>1. IsFiniteSet(Holders)
    BY DEF PoolInv
  <2>2. IsFiniteSet(Holders') /\ IsFiniteSet(waiting) /\ IsFiniteSet(running)
    BY <1>5, <2>1, FS_Subset
  <2>0. Cardinality({}) = 0
    BY FS_EmptySet
  <2>3. /\ IsFiniteSet(waiting \cup running)
        /\ Cardinality(waiting \cup running) = Cardinality(waiting) + Cardinality(running)
    <3>1. /\ IsFiniteSet(waiting \cup running)
          /\ Cardinality(waiting \cup running)
                = Cardinality(waiting) + Cardinality(running) - Cardinality(waiting \cap running)
      BY <2>2, FS_Union, Zenon
    <3>2. Cardinality(waiting) \in Nat /\ Cardinality(running) \in Nat
      BY <2>2, FS_CardinalityType
    <3>3. Cardinality(waiting \cap running) = 0
      BY <1>5, <2>0
    <3> QED BY <3>1, <3>2, <3>3
  <2>4. Cardinality(Holders) = Cardinality(Holders') + Cardinality(waiting \cup running)
    <3> DEFINE mine == waiting \cup running
    <3> HIDE DEF mine
    <3>1. Cardinality(Holders' \cup mine)
              = Cardinality(Holders') + Cardinality(mine) - Cardinality(Holders' \cap mine)
      BY <2>2, <2>3, FS_Union, Zenon DEF mine
    <3>2. Cardinality(Holders') \in Nat /\ Cardinality(mine) \in Nat
      BY <2>2, <2>3, FS_CardinalityType DEF mine
    <3>3. Cardinality(Holders' \cap mine) = 0 /\ Holders = Holders' \cup mine
      BY <1>5, <2>0 DEF mine
    <3>4. Cardinality(Holders) = Cardinality(Holders') + Cardinality(mine)
      BY <3>1, <3>2, <3>3
    <3> QED BY <3>4 DEF mine
  <2>5. Cardinality(Holders') \in Nat /\ Cardinality(waiting) \in Nat /\ Cardinality(running) \in Nat
    BY <2>2, FS_CardinalityType
  <2> QED BY <2>2, <2>3, <2>4, <2>5
<1>7. /\ Cardinality(waiting) = Cardinality(Still(s, "submitted"))
      /\ Cardinality(running) = Cardinality(Still(s, "running"))
      /\ Cardinality(waiting) \in Nat /\ Cardinality(running) \in Nat /\ Cardinality(Holders') \in Nat
  <2>1. Still(s, "submitted") \in SUBSET DocumentSet /\ Still(s, "running") \in SUBSET DocumentSet
    BY DEF Still
  <2> QED BY <1>6, <2>1, RunsShare, FS_CardinalityType
<1> HIDE DEF waiting, running
<1>8. slots' \in Nat /\ late' \in Nat
  BY <1>1, <1>7 DEF PoolInv, PoolTypeOK
<1>9. SlotsComeBack'
  <2>1. SlotsComeBack' <=> (slots' + late' + Cardinality(Holders') = RetrievalSlots)
    BY DEF SlotsComeBack, Holders
  <2>2. slots + late + Cardinality(Holders) = RetrievalSlots
    BY SlotsAreCounted DEF PoolInv
  <2>3. slots \in Nat /\ late \in Nat
    BY DEF PoolInv, PoolTypeOK
  <2> QED BY <1>1, <1>6, <1>7, <2>1, <2>2, <2>3
<1>10. SubmittedInTurn'
  <2>1. \A u \in Searches, d \in DocumentSet :
            future[u][d].state = "none" => future'[u][d].state = "none"
    BY <1>2, <1>3
  <2>2. \A d \in DocumentSet : future'[s][d].state = "none"
    BY <1>2, <1>3
  <2> QED BY <1>4, <2>1, <2>2, PlacesAreDocuments DEF PoolInv, SubmittedInTurn
<1> QED BY <1>3, <1>4, <1>6, <1>8, <1>9, <1>10 DEF PoolInv, PoolTypeOK

LEMMA PoolStep == ASSUME PoolInv, [RetrievalNext]_retrievalVars PROVE PoolInv'
<1>1. CASE \E s \in Searches : Select(s)
  BY <1>1, SelectKeepsPool
<1>2. CASE FinishLate
  BY <1>2, FinishLateKeepsPool
<1>3. ASSUME NEW s \in Searches,
             \E records \in SUBSET DocumentSet \ {{}}, targets \in SUBSET DocumentSet :
                 BeginSearch(s, records, targets)
      PROVE  PoolInv'
  BY <1>3, BeginKeepsPool
<1>4. ASSUME NEW s \in Searches, Admit(s) PROVE PoolInv'
  BY <1>4, AdmitKeepsPool
<1>5. ASSUME NEW s \in Searches, StopAdmitting(s) \/ StopWaiting(s) PROVE PoolInv'
  <2>1. UNCHANGED <<slots, future, late>>
    BY <1>5 DEF StopAdmitting, StopWaiting
  <2>2. /\ PoolTypeOK'
        /\ \A u \in Searches :
              search'[u].pc \in {"idle", "admitting"} =>
                  search'[u].pc = search[u].pc /\ search'[u].next = search[u].next
    <3>1. PICK own \in RunRecords : /\ own.pc \in {"waiting", "merging"}
                                    /\ search' = [search EXCEPT ![s] = own]
      <4>1. search[s] \in RunRecords /\ DocumentsDone(s) \in SUBSET DocumentSet
        BY DEF PoolInv, PoolTypeOK, DocumentsDone
      <4>2. CASE StopAdmitting(s)
        <5> DEFINE own == [search[s] EXCEPT !.pc = "waiting"]
        <5>1. own \in RunRecords /\ own.pc = "waiting"
          BY <4>1 DEF RunRecords
        <5>2. search' = [search EXCEPT ![s] = own]
          BY <4>2 DEF StopAdmitting
        <5> HIDE DEF own
        <5> QED BY <5>1, <5>2
      <4>3. CASE StopWaiting(s)
        <5> DEFINE done == DocumentsDone(s)
                   own == [search[s] EXCEPT !.pc = "merging", !.inTime = done]
        <5>1. search' = [search EXCEPT ![s] = own]
          BY <4>3 DEF StopWaiting
        <5>2. done \in SUBSET DocumentSet
          BY <4>1
        <5> HIDE DEF done
        <5>3. own \in RunRecords /\ own.pc = "merging"
          BY <4>1, <5>2 DEF RunRecords
        <5> HIDE DEF own
        <5> QED BY <5>1, <5>3
      <4> QED BY <1>5, <4>2, <4>3
    <3>2. /\ search' \in [Searches -> RunRecords]
          /\ \A u \in Searches : search'[u] = IF u = s THEN own ELSE search[u]
      BY <3>1 DEF PoolInv, PoolTypeOK
    <3> QED BY <2>1, <3>1, <3>2 DEF PoolInv, PoolTypeOK
  <2>3. Holders' = Holders /\ SlotsComeBack'
    BY <2>1 DEF Holders, SlotsComeBack, PoolInv
  <2>4. SubmittedInTurn'
    BY <2>1, <2>2 DEF SubmittedInTurn, PoolInv
  <2> QED BY <2>2, <2>3, <2>4 DEF PoolInv
<1>6. ASSUME NEW s \in Searches, NEW d \in DocumentSet, StartSearch(s, d) PROVE PoolInv'
  BY <1>6, StartKeepsPool
<1>7. ASSUME NEW s \in Searches, NEW d \in DocumentSet, FinishSearch(s, d) PROVE PoolInv'
  BY <1>7, FinishKeepsPool
<1>8. CASE UNCHANGED retrievalVars
  <2>1. UNCHANGED <<slots, future, late, search>>
    BY <1>8 DEF retrievalVars
  <2>2. PoolTypeOK' /\ SubmittedInTurn' /\ Holders' = Holders /\ SlotsComeBack'
    BY <2>1 DEF PoolInv, PoolTypeOK, SubmittedInTurn, Holders, SlotsComeBack
  <2> QED BY <2>2 DEF PoolInv
<1> QED BY <1>1, <1>2, <1>3, <1>4, <1>5, <1>6, <1>7, <1>8 DEF RetrievalNext

\* The invariant of the pool, for any documents, searches and number of slots.
THEOREM PoolInvariance == RetrievalSpec => []PoolInv
<1>1. PoolInv /\ [RetrievalNext]_retrievalVars => PoolInv'
  BY PoolStep
<1> QED BY <1>1, PoolStarts, PTL DEF RetrievalSpec

\* Whatever is late, fails or is cancelled (workspace_retrieval.py:103-114), every
\* slot of the session is with one search of a document or free.
THEOREM SlotsComeBackHolds == RetrievalSpec => []SlotsComeBack
<1>1. PoolInv => SlotsComeBack
  BY DEF PoolInv
<1> QED BY <1>1, PoolInvariance, PTL

\* So no more searches of documents run, begun or abandoned, than there are slots.
THEOREM SearchesAreBounded ==
    RetrievalSpec => [](late + Cardinality(Holders) <= RetrievalSlots)
<1>1. PoolInv => late + Cardinality(Holders) <= RetrievalSlots
  <2> SUFFICES ASSUME PoolInv PROVE late + Cardinality(Holders) <= RetrievalSlots
    OBVIOUS
  <2>1. slots + late + Cardinality(Holders) = RetrievalSlots
    BY SlotsAreCounted DEF PoolInv
  <2>2. slots \in Nat /\ late \in Nat /\ Cardinality(Holders) \in Nat
    BY FS_CardinalityType DEF PoolInv, PoolTypeOK
  <2> QED BY <2>1, <2>2
<1> QED BY <1>1, PoolInvariance, PTL

-----------------------------------------------------------------------------
(* The selection.                                                           *)

\* What ComparisonsAreCovered says of a ranking and what is selected from it.
IsCover(targets, ranked, given) ==
    LET found == {d \in targets : \E i \in DOMAIN ranked : ranked[i][1] = d}
        extra == {i \in DOMAIN ranked : /\ ranked[i] \in ToSet(given)
                                        /\ \/ ranked[i][1] \notin found
                                           \/ \E j \in 1..(i - 1) : ranked[j][1] = ranked[i][1]}
    IN /\ found \subseteq {given[i][1] : i \in DOMAIN given}
       /\ Len(given) <= Max({GlobalK, Cardinality(found)})
       /\ given = Keep(ranked, {i \in DOMAIN ranked : ranked[i] \in ToSet(given)})
       /\ \A i \in extra : \A j \in 1..i : ranked[j] \in ToSet(given)

LEMMA GlobalIsPositive == GlobalK \in Nat /\ PerDocument \in Nat
BY RetrievalAssumption DEF RetrievalAssumption

LEMMA LargerOfTwo ==
    ASSUME NEW a \in Nat, NEW b \in Nat
    PROVE  Max({a, b}) \in Nat /\ a <= Max({a, b}) /\ b <= Max({a, b})
<1>1. \E x \in {a, b} : \A y \in {a, b} : x >= y
  OBVIOUS
<1> QED BY <1>1 DEF Max

LEMMA SelectionCovers ==
    ASSUME NEW X, NEW ranked \in Seq(X), Once(ranked), NEW targets
    PROVE  /\ IsCover(targets, ranked, Selection(ranked, targets))
           /\ Selection(ranked, targets) \in Seq(X)
<1> DEFINE N == Len(ranked)
           best == {i \in DOMAIN ranked : /\ ranked[i][1] \in targets
                                          /\ \A j \in 1..(i - 1) : ranked[j][1] # ranked[i][1]}
           size == IF GlobalK < Cardinality(best) THEN Cardinality(best) ELSE GlobalK
           P == {i \in DOMAIN ranked : i \in best \/ Cardinality(best \cup 1..i) <= size}
           c(i) == Cardinality(best \cup 1..i)
           given == Keep(ranked, P)
           found == {d \in targets : \E i \in DOMAIN ranked : ranked[i][1] = d}
           extra == {i \in DOMAIN ranked : /\ ranked[i] \in ToSet(given)
                                           /\ \/ ranked[i][1] \notin found
                                              \/ \E j \in 1..(i - 1) : ranked[j][1] = ranked[i][1]}
<1>1. N \in Nat /\ DOMAIN ranked = 1..N
  OBVIOUS
<1>2. Selection(ranked, targets) = given
  BY DEF Selection
<1>3. P \in SUBSET (DOMAIN ranked) /\ best \subseteq P /\ best \in SUBSET (1..N)
  BY <1>1
<1>4. \A i \in best : ranked[i][1] \in targets /\ \A j \in 1..(i - 1) : ranked[j][1] # ranked[i][1]
  OBVIOUS
<1>5. ASSUME NEW i \in DOMAIN ranked, ranked[i][1] \in targets,
             \A j \in 1..(i - 1) : ranked[j][1] # ranked[i][1]
      PROVE  i \in best
  BY <1>5
<1>6. \A i \in DOMAIN ranked : i \in P <=> i \in best \/ c(i) <= size
  OBVIOUS
<1>7. \A d : d \in found <=> d \in targets /\ \E i \in DOMAIN ranked : ranked[i][1] = d
  OBVIOUS
<1>8. \A i \in extra : /\ i \in DOMAIN ranked /\ ranked[i] \in ToSet(given)
                       /\ \/ ranked[i][1] \notin found
                          \/ \E j \in 1..(i - 1) : ranked[j][1] = ranked[i][1]
  OBVIOUS
<1> HIDE DEF N, best, P, found, extra
\* The best hits are as many as the documents found.
<1>9. IsFiniteSet(best) /\ IsFiniteSet(found) /\ Cardinality(found) = Cardinality(best)
  <2>1. IsFiniteSet(best)
    <3>1. IsFiniteSet(1..N)
      BY <1>1, FS_Interval
    <3> QED BY <1>3, <3>1, FS_Subset
  <2> DEFINE f == [i \in best |-> ranked[i][1]]
  <2>2. \A i \in best : f[i] \in found
    BY <1>1, <1>3, <1>4, <1>7
  <2>3. \A i, j \in best : f[i] = f[j] => i = j
    <3> SUFFICES ASSUME NEW i \in best, NEW j \in best, f[i] = f[j], i < j PROVE FALSE
      BY <1>1, <1>3
    <3>1. i \in 1..(j - 1)
      BY <1>1, <1>3
    <3> QED BY <1>4, <3>1
  <2>4. \A d \in found : \E i \in best : f[i] = d
    <3> SUFFICES ASSUME NEW d \in found PROVE \E i \in best : ranked[i][1] = d
      OBVIOUS
    <3> DEFINE T == {i \in DOMAIN ranked : ranked[i][1] = d}
    <3>1. T \in SUBSET Nat /\ T # {}
      BY <1>1, <1>7
    <3>2. Min(T) \in T /\ \A n \in T : Min(T) <= n
      BY <3>1, LeastPlace
    <3> DEFINE i == Min(T)
    <3> HIDE DEF i
    <3>3. i \in DOMAIN ranked /\ ranked[i][1] = d /\ \A n \in DOMAIN ranked : ranked[n][1] = d => i <= n
      BY <3>2 DEF i
    <3>4. \A j \in 1..(i - 1) : j \in DOMAIN ranked /\ ~ (i <= j)
      BY <1>1, <3>3
    <3>5. i \in best
      BY <1>5, <1>7, <3>3, <3>4
    <3> QED BY <3>3, <3>5
  <2> HIDE DEF f
  <2>5. f \in Bijection(best, found)
    <3>1. f \in [best -> found]
      BY <2>2 DEF f
    <3> QED BY <2>3, <2>4, <3>1 DEF Bijection, Injection, Surjection, IsInjective
  <2> QED BY <2>1, <2>5, FS_Bijection DEF ExistsBijection
<1>10. Cardinality(best) \in Nat /\ size \in Nat /\ Cardinality(best) <= size
  BY <1>9, FS_CardinalityType, GlobalIsPositive
<1>11. size <= Max({GlobalK, Cardinality(found)})
  BY <1>9, <1>10, GlobalIsPositive, LargerOfTwo
<1> HIDE DEF size
\* A hit that is not among the best is selected with all that are ranked above it.
<1>12. ASSUME NEW i \in Nat, NEW j \in Nat, j <= i, i <= N
       PROVE  /\ IsFiniteSet(best \cup 1..i) /\ Cardinality(best \cup 1..i) \in Nat
              /\ Cardinality(best \cup 1..j) <= Cardinality(best \cup 1..i)
  <2>1. IsFiniteSet(1..i)
    BY FS_Interval
  <2>2. IsFiniteSet(best \cup 1..i)
    BY <1>9, <2>1, FS_Union
  <2>3. (best \cup 1..j) \in SUBSET (best \cup 1..i)
    BY <1>12
  <2> QED BY <2>2, <2>3, FS_Subset, FS_CardinalityType
<1>12a. /\ \A i \in 0..N : IsFiniteSet(best \cup 1..i) /\ c(i) \in Nat
        /\ \A i, j \in 0..N : j <= i => c(j) <= c(i)
  <2>1. ASSUME NEW i \in 0..N PROVE IsFiniteSet(best \cup 1..i) /\ c(i) \in Nat
    <3>1. i \in Nat /\ i <= i /\ i <= N
      BY <1>1
    <3> QED BY <1>12, <3>1
  <2>2. ASSUME NEW i \in 0..N, NEW j \in 0..N, j <= i PROVE c(j) <= c(i)
    <3>1. i \in Nat /\ j \in Nat /\ i <= N
      BY <1>1
    <3> QED BY <1>12, <2>2, <3>1
  <2> QED BY <2>1, <2>2
<1>12b. c(0) = Cardinality(best)
  <2>1. best \cup 1..0 = best
    OBVIOUS
  <2> QED BY <2>1
<1>12c. \A i : c(i) = Cardinality(best \cup 1..i)
  OBVIOUS
<1> HIDE DEF c
<1>13. Cardinality(P) <= size
  <2>1. ASSUME NEW m \in 0..N, c(m) <= size, \A i \in 1..N : c(i) <= size => i <= m
        PROVE  Cardinality(P) <= size
    <3> DEFINE U == best \cup 1..m
    <3>1. \A i \in P : i \in U
      BY <1>1, <1>3, <1>6, <2>1
    <3>2. IsFiniteSet(U) /\ Cardinality(U) \in Nat /\ P \in SUBSET U /\ Cardinality(U) <= size
      BY <1>12a, <1>12c, <2>1, <3>1
    <3> HIDE DEF U
    <3>3. IsFiniteSet(P) /\ Cardinality(P) <= Cardinality(U)
      BY <3>2, FS_Subset
    <3> QED BY <1>10, <3>2, <3>3, FS_CardinalityType
  <2> DEFINE T == {i \in 1..N : ~ (c(i) <= size)}
  <2>2. CASE T = {}
    <3>1. N \in 0..N /\ c(N) <= size
      <4>1. CASE N = 0
        BY <1>10, <1>12b, <4>1
      <4>2. CASE N # 0
        BY <1>1, <2>2, <4>2
      <4> QED BY <1>1, <4>1, <4>2
    <3> QED BY <1>1, <2>1, <3>1
  <2>3. CASE T # {}
    <3>1. T \in SUBSET Nat
      OBVIOUS
    <3>2. Min(T) \in T /\ \A n \in T : Min(T) <= n
      BY <2>3, <3>1, LeastPlace
    <3> DEFINE m == Min(T) - 1
    <3>3. /\ m \in 0..N /\ m + 1 \in 1..N /\ ~ (c(m + 1) <= size)
          /\ \A n \in 1..N : ~ (c(n) <= size) => m + 1 <= n
      <4>1. Min(T) \in 1..N /\ ~ (c(Min(T)) <= size) /\ (Min(T) - 1) + 1 = Min(T)
        BY <3>2
      <4>2. \A n \in 1..N : ~ (c(n) <= size) => Min(T) <= n
        BY <3>2
      <4> HIDE DEF T
      <4> QED BY <1>1, <4>1, <4>2
    <3> HIDE DEF m, T
    <3>4. c(m) <= size
      <4>1. CASE m = 0
        BY <1>10, <1>12b, <4>1
      <4>2. CASE m # 0
        BY <1>1, <3>3, <4>2
      <4> QED BY <4>1, <4>2
    <3>5. ASSUME NEW i \in 1..N, c(i) <= size PROVE i <= m
      <4> SUFFICES ASSUME m + 1 <= i PROVE FALSE
        BY <1>1, <3>3
      <4>1. c(m + 1) <= c(i) /\ c(i) \in Nat /\ c(m + 1) \in Nat
        <5>1. m + 1 \in 0..N /\ i \in 0..N
          BY <1>1, <3>3
        <5> QED BY <1>12a, <5>1
      <4> QED BY <1>10, <3>3, <3>5, <4>1
    <3> QED BY <2>1, <3>3, <3>4, <3>5
  <2> QED BY <2>2, <2>3
<1>14. /\ P \in SUBSET Nat /\ P \subseteq DOMAIN ranked
       /\ IsFiniteSet(P) /\ Cardinality(P) \in Nat /\ Cardinality(P) <= Len(ranked)
       /\ \A k \in 1..Cardinality(P) : Keep(ranked, P)[k] = ranked[Ascending(P)[k]]
       /\ Keep(ranked, P) \in Seq(X) /\ Len(Keep(ranked, P)) = Cardinality(P)
       /\ DOMAIN Keep(ranked, P) = 1..Cardinality(P)
  BY <1>3, KeepIsPlaced
<1>15. /\ \A k \in DOMAIN Keep(ranked, P) : \E i \in P : Keep(ranked, P)[k] = ranked[i]
       /\ \A i \in P : \E k \in DOMAIN Keep(ranked, P) : Keep(ranked, P)[k] = ranked[i]
       /\ \A j, k \in DOMAIN Keep(ranked, P) :
             j < k => \E h, i \in P : h < i /\ Keep(ranked, P)[j] = ranked[h] /\ Keep(ranked, P)[k] = ranked[i]
  BY <1>3, KeepInTurn
<1>16. /\ given \in Seq(X) /\ Len(given) = Cardinality(P)
       /\ \A k \in DOMAIN given : \E i \in P : given[k] = ranked[i]
       /\ \A i \in P : \E k \in DOMAIN given : given[k] = ranked[i]
  BY <1>14, <1>15
<1>17. given = Keep(ranked, P)
  OBVIOUS
<1> HIDE DEF given
<1>18. \A i \in DOMAIN ranked : ranked[i] \in ToSet(given) <=> i \in P
  <2>1. \A i \in P : ranked[i] \in ToSet(given)
    BY <1>16 DEF ToSet
  <2>2. ASSUME NEW i \in DOMAIN ranked, ranked[i] \in ToSet(given) PROVE i \in P
    <3>1. PICK k \in DOMAIN given : given[k] = ranked[i]
      BY <2>2 DEF ToSet
    <3>2. PICK j \in P : given[k] = ranked[j]
      BY <1>16
    <3>3. j = i
      BY <1>3, <3>1, <3>2 DEF Once
    <3> QED BY <3>2, <3>3
  <2> QED BY <2>1, <2>2
<1>19. found \subseteq {given[i][1] : i \in DOMAIN given}
  <2> SUFFICES ASSUME NEW d \in found PROVE \E k \in DOMAIN given : given[k][1] = d
    OBVIOUS
  <2> DEFINE T == {i \in DOMAIN ranked : ranked[i][1] = d}
  <2>1. T \in SUBSET Nat /\ T # {}
    BY <1>1, <1>7
  <2>2. Min(T) \in T /\ \A n \in T : Min(T) <= n
    BY <2>1, LeastPlace
  <2> DEFINE i == Min(T)
  <2> HIDE DEF i
  <2>3. i \in DOMAIN ranked /\ ranked[i][1] = d /\ \A n \in DOMAIN ranked : ranked[n][1] = d => i <= n
    BY <2>2 DEF i
  <2>4. \A j \in 1..(i - 1) : j \in DOMAIN ranked /\ ~ (i <= j)
    BY <1>1, <2>3
  <2>5. i \in P
    BY <1>3, <1>5, <1>7, <2>3, <2>4
  <2> QED BY <1>16, <2>3, <2>5
<1>20. Len(given) <= Max({GlobalK, Cardinality(found)})
  <2>1. Max({GlobalK, Cardinality(found)}) \in Nat
    BY <1>9, <1>10, GlobalIsPositive, LargerOfTwo
  <2> QED BY <1>10, <1>11, <1>13, <1>14, <1>16, <2>1
<1>21. given = Keep(ranked, {i \in DOMAIN ranked : ranked[i] \in ToSet(given)})
  <2>1. {i \in DOMAIN ranked : ranked[i] \in ToSet(given)} = P
    BY <1>3, <1>18
  <2> QED BY <1>17, <2>1
<1>22. ASSUME NEW i \in extra, NEW j \in 1..i PROVE ranked[j] \in ToSet(given)
  <2>1. i \in 1..N /\ i \in P /\ j \in 1..N /\ j <= i
    BY <1>1, <1>8, <1>18
  <2>2. i \notin best
    BY <1>1, <1>4, <1>7, <1>8, <2>1
  <2>3. c(i) <= size
    BY <1>1, <1>6, <2>1, <2>2
  <2>4. c(i) \in Nat /\ c(j) \in Nat /\ c(j) <= c(i)
    <3>1. i \in 0..N /\ j \in 0..N /\ j <= i
      BY <1>1, <2>1
    <3> QED BY <1>12a, <3>1
  <2>5. j \in P
    BY <1>1, <1>6, <1>10, <2>1, <2>3, <2>4
  <2> QED BY <1>1, <1>18, <2>1, <2>5
<1>23. IsCover(targets, ranked, given)
  BY <1>19, <1>20, <1>21, <1>22 DEF IsCover, found, extra
<1> QED BY <1>2, <1>16, <1>23

-----------------------------------------------------------------------------
(* What is ranked: nothing occurs twice in it.                              *)

LEMMA ImageIsFinite ==
    ASSUME NEW S, IsFiniteSet(S), NEW f
    PROVE  IsFiniteSet({f[x] : x \in S})
<1> DEFINE T == {f[x] : x \in S}
           g == [x \in S |-> f[x]]
<1>1. g \in [S -> T] /\ \A y \in T : \E x \in S : g[x] = y
  OBVIOUS
<1>2. g \in Surjection(S, T)
  BY <1>1 DEF Surjection
<1> HIDE DEF g, T
<1>3. IsFiniteSet(T)
  BY <1>2, FS_Surjection
<1> QED BY <1>3 DEF T

LEMMA ListsAreFinite ==
    ASSUME NEW X, NEW s \in Seq(X)
    PROVE  IsFiniteSet(ToSet(s)) /\ ToSet(s) \subseteq X
<1> DEFINE D == 1..Len(s)
<1>1. Len(s) \in Nat /\ DOMAIN s = D
  OBVIOUS
<1>2. IsFiniteSet(D)
  BY <1>1, FS_Interval
<1> HIDE DEF D
<1>3. IsFiniteSet({s[x] : x \in D})
  BY <1>2, ImageIsFinite
<1>4. ToSet(s) = {s[x] : x \in D}
  BY <1>1 DEF ToSet
<1>5. ToSet(s) \subseteq X
  BY DEF ToSet
<1> QED BY <1>3, <1>4, <1>5

\* A sorted set is a list without repetition.
LEMMA OrderedOnce ==
    ASSUME NEW T, IsFiniteSet(T), NEW ahead,
           \A x \in T : <<x, x>> \notin ahead,
           \A x, y, z \in T : <<x, y>> \in ahead /\ <<y, z>> \in ahead => <<x, z>> \in ahead,
           \A x, y \in T : x = y \/ <<x, y>> \in ahead \/ <<y, x>> \in ahead
    PROVE  InOrder(T, ahead) \in Seq(T) /\ Once(InOrder(T, ahead))
<1> DEFINE e == InOrder(T, ahead)
           n == Cardinality(T)
<1>1. /\ n \in Nat
      /\ e \in [1..n -> T]
      /\ \A x \in T : \E k \in 1..n : e[k] = x
      /\ \A j, k \in 1..n : j < k => <<e[j], e[k]>> \in ahead
  BY OrderIsKept
<1> HIDE DEF e, n
<1>2. e \in Seq(T) /\ DOMAIN e = 1..n
  BY <1>1, ListsAreFunctions
<1>3. Once(e)
  <2> SUFFICES ASSUME NEW j \in 1..n, NEW k \in 1..n, e[j] = e[k], j # k PROVE FALSE
    BY <1>2 DEF Once
  <2>1. e[j] \in T /\ e[k] \in T
    BY <1>1
  <2>2. j < k \/ k < j
    BY <1>1
  <2>3. <<e[j], e[k]>> \in ahead \/ <<e[k], e[j]>> \in ahead
    BY <1>1, <2>2
  <2> QED BY <2>1, <2>3
<1> QED BY <1>2, <1>3 DEF e

LEMMA PrefixOnce ==
    ASSUME NEW X, NEW s \in Seq(X), Once(s), NEW k \in Nat
    PROVE  Prefix(s, k) \in Seq(X) /\ Once(Prefix(s, k))
<1> DEFINE m == IF k < Len(s) THEN k ELSE Len(s)
           t == SubSeq(s, 1, m)
<1>1. Prefix(s, k) = t
  BY DEF Prefix
<1>2. m \in Nat /\ m <= Len(s) /\ DOMAIN s = 1..Len(s) /\ Len(s) \in Nat
  OBVIOUS
<1> HIDE DEF m
<1>3. t \in Seq(X) /\ DOMAIN t = 1..m /\ \A i \in 1..m : t[i] = s[i]
  BY <1>2
<1> HIDE DEF t
<1>4. Once(t)
  BY <1>2, <1>3 DEF Once
<1> QED BY <1>1, <1>3, <1>4

LEMMA ChunksAreFinite ==
    ASSUME NEW d \in DocumentSet
    PROVE  IsFiniteSet(ChunksIn(d))
<1>1. PICK i \in DOMAIN WorkspaceRecords : WorkspaceRecords[i] = d
  BY DEF DocumentSet, ToSet
<1>2. IsFiniteSet(ChunksOf[i])
  BY RetrievalAssumption DEF RetrievalAssumption
<1> DEFINE f == [c \in ChunksOf[i] |-> <<d, c>>]
           T == {f[c] : c \in ChunksOf[i]}
<1>3. IsFiniteSet(T)
  <2> HIDE DEF f
  <2> QED BY <1>2, ImageIsFinite
<1>4. ChunksIn(d) \subseteq T
  <2> SUFFICES ASSUME NEW c \in Chunks, c[1] = d PROVE c \in T
    BY DEF ChunksIn
  <2>0. PICK j \in DOMAIN WorkspaceRecords : c \in {<<WorkspaceRecords[j], x>> : x \in ChunksOf[j]}
    BY DEF Chunks
  <2>1. PICK x \in ChunksOf[j] : c = <<WorkspaceRecords[j], x>>
    BY <2>0
  <2>2. j = i
    BY <1>1, <2>1, PlacesAreDocuments
  <2>3. x \in ChunksOf[i] /\ c = f[x]
    BY <1>1, <2>1, <2>2
  <2> QED BY <2>3
<1> HIDE DEF T
<1> QED BY <1>3, <1>4, FS_Subset

LEMMA PermutationsAreLists ==
    ASSUME NEW S, IsFiniteSet(S), NEW s \in SetToSeqs(S)
    PROVE  s \in Seq(S) /\ Once(s)
<1>1. Cardinality(S) \in Nat
  BY FS_CardinalityType
<1>2. s \in [1..Cardinality(S) -> S] /\ \A i, j \in 1..Cardinality(S) : i # j => s[i] # s[j]
  BY DEF SetToSeqs
<1>3. s \in Seq(S) /\ DOMAIN s = 1..Cardinality(S)
  BY <1>1, <1>2, ListsAreFunctions
<1> QED BY <1>2, <1>3 DEF Once

LEMMA RankingsAreLists ==
    ASSUME NEW S, IsFiniteSet(S), NEW s \in Sparse(S)
    PROVE  s \in Seq(S) /\ Once(s)
<1>1. PICK some \in SUBSET S : s \in SetToSeqs(some)
  BY DEF Sparse
<1>2. IsFiniteSet(some)
  BY <1>1, FS_Subset
<1>3. s \in Seq(some) /\ Once(s)
  BY <1>1, <1>2, PermutationsAreLists
<1> QED BY <1>1, <1>3

LEMMA ScoresAreNumbers ==
    ASSUME NEW S, NEW s \in Seq(S), NEW c
    PROVE  Score(s, c) \in Nat
<1>1. Denominator \in Nat
  BY DEF Denominator
<1>2. CASE c \in ToSet(s)
  <2> DEFINE i == CHOOSE i \in DOMAIN s : s[i] = c
  <2>1. \E j \in DOMAIN s : s[j] = c
    BY <1>2 DEF ToSet
  <2>2. i \in DOMAIN s
    BY <2>1
  <2>3. i \in Nat
    BY <2>2
  <2>4. Score(s, c) = Denominator \div (60 + i)
    BY <1>2 DEF Score
  <2> HIDE DEF i
  <2> QED BY <1>1, <2>3, <2>4
<1>3. CASE c \notin ToSet(s)
  BY <1>3 DEF Score
<1> QED BY <1>2, <1>3

\* How two rankings are fused: what is listed, its score, and the order by score
\* and then by place.
Listed(dense, sparse) == dense \o Keep(sparse, {i \in DOMAIN sparse : sparse[i] \notin ToSet(dense)})
FusedScore(dense, sparse, c) == Score(dense, c) + Score(sparse, c)
PlaceIn(listed, c) == CHOOSE i \in DOMAIN listed : listed[i] = c
Above(dense, sparse) ==
    LET T == ToSet(Listed(dense, sparse))
    IN {p \in T \X T :
           \/ FusedScore(dense, sparse, p[1]) > FusedScore(dense, sparse, p[2])
           \/ /\ FusedScore(dense, sparse, p[1]) = FusedScore(dense, sparse, p[2])
              /\ PlaceIn(Listed(dense, sparse), p[1]) < PlaceIn(Listed(dense, sparse), p[2])}

\* Dense hits are listed where they are ranked.
LEMMA ListedIs ==
    ASSUME NEW S, NEW dense \in Seq(S), NEW sparse \in Seq(S)
    PROVE  /\ Listed(dense, sparse) \in Seq(S)
           /\ \A i \in DOMAIN dense : i \in DOMAIN Listed(dense, sparse) /\ Listed(dense, sparse)[i] = dense[i]
           /\ Once(dense) => \A i \in DOMAIN dense : PlaceIn(Listed(dense, sparse), dense[i]) = i
<1> DEFINE P == {i \in DOMAIN sparse : sparse[i] \notin ToSet(dense)}
           t == Keep(sparse, P)
           listed == dense \o t
           n == Len(dense)
<1>1. P \in SUBSET (DOMAIN sparse) /\ \A i \in P : sparse[i] \notin ToSet(dense)
  OBVIOUS
<1>2. Listed(dense, sparse) = listed
  BY DEF Listed
<1> HIDE DEF P
<1>3. t \in Seq(S)
  BY <1>1, KeepIsPlaced
<1>4. \A k \in DOMAIN t : \E i \in P : t[k] = sparse[i]
  BY <1>1, KeepInTurn
<1>5. \A k \in DOMAIN t : t[k] \notin ToSet(dense)
  BY <1>1, <1>4
<1> HIDE DEF t
<1>6. /\ listed \in Seq(S) /\ DOMAIN listed = 1..(n + Len(t)) /\ n \in Nat /\ Len(t) \in Nat
      /\ DOMAIN dense = 1..n /\ DOMAIN t = 1..Len(t)
      /\ \A i \in 1..n : listed[i] = dense[i]
      /\ \A i \in 1..(n + Len(t)) : ~(i <= n) => listed[i] = t[i - n]
  BY <1>3
<1> HIDE DEF listed, n
<1>7. \A i \in DOMAIN dense : i \in DOMAIN listed /\ listed[i] = dense[i]
  BY <1>6
<1>8. ASSUME Once(dense), NEW i \in DOMAIN dense PROVE PlaceIn(listed, dense[i]) = i
  <2>1. ASSUME NEW p \in DOMAIN listed, listed[p] = dense[i] PROVE p = i
    <3>1. CASE p <= n
      BY <1>6, <1>8, <2>1, <3>1 DEF Once
    <3>2. CASE ~(p <= n)
      <4>1. p - n \in DOMAIN t /\ listed[p] = t[p - n]
        BY <1>6, <3>2
      <4>2. dense[i] \in ToSet(dense)
        BY DEF ToSet
      <4> QED BY <1>5, <2>1, <4>1, <4>2
    <3> QED BY <3>1, <3>2
  <2>2. i \in DOMAIN listed /\ listed[i] = dense[i]
    BY <1>7
  <2> QED BY <2>1, <2>2 DEF PlaceIn
<1> QED BY <1>2, <1>6, <1>7, <1>8

LEMMA FusedIsOrdered ==
    ASSUME NEW S, NEW dense \in Seq(S), NEW sparse \in Seq(S)
    PROVE  LET T == ToSet(Listed(dense, sparse))
               above == Above(dense, sparse)
           IN /\ IsFiniteSet(T) /\ T \subseteq S
              /\ \A c \in T : /\ FusedScore(dense, sparse, c) \in Nat
                              /\ PlaceIn(Listed(dense, sparse), c) \in Nat
              /\ \A x, y \in T : <<x, y>> \in above <=>
                    \/ FusedScore(dense, sparse, x) > FusedScore(dense, sparse, y)
                    \/ /\ FusedScore(dense, sparse, x) = FusedScore(dense, sparse, y)
                       /\ PlaceIn(Listed(dense, sparse), x) < PlaceIn(Listed(dense, sparse), y)
              /\ \A x \in T : <<x, x>> \notin above
              /\ \A x, y, z \in T : <<x, y>> \in above /\ <<y, z>> \in above => <<x, z>> \in above
              /\ \A x, y \in T : x = y \/ <<x, y>> \in above \/ <<y, x>> \in above
              /\ \A k : Fused(dense, sparse, k) = Prefix(InOrder(T, above), k)
<1> DEFINE listed == Listed(dense, sparse)
           T == ToSet(listed)
           total(c) == FusedScore(dense, sparse, c)
           place(c) == PlaceIn(listed, c)
           above == Above(dense, sparse)
<1>1. listed \in Seq(S)
  BY ListedIs
<1>2. \A k : Fused(dense, sparse, k) = Prefix(InOrder(T, above), k)
  BY DEF Fused, Listed, FusedScore, PlaceIn, Above
<1>3. above = {p \in T \X T : \/ total(p[1]) > total(p[2])
                              \/ total(p[1]) = total(p[2]) /\ place(p[1]) < place(p[2])}
  BY DEF Above
<1> HIDE DEF listed
<1>4. IsFiniteSet(T) /\ T \subseteq S
  BY <1>1, ListsAreFinite
<1>5. \A c : total(c) \in Nat
  <2> SUFFICES ASSUME NEW c PROVE total(c) \in Nat
    OBVIOUS
  <2>1. Score(dense, c) \in Nat /\ Score(sparse, c) \in Nat
    BY ScoresAreNumbers
  <2> QED BY <2>1 DEF FusedScore
<1>6. \A c \in T : place(c) \in Nat /\ listed[place(c)] = c
  <2> SUFFICES ASSUME NEW c \in T PROVE place(c) \in Nat /\ listed[place(c)] = c
    OBVIOUS
  <2>1. \E i \in DOMAIN listed : listed[i] = c
    BY DEF ToSet
  <2>2. place(c) \in DOMAIN listed /\ listed[place(c)] = c
    BY <2>1 DEF PlaceIn
  <2>3. \A i \in DOMAIN listed : i \in Nat
    BY <1>1
  <2> QED BY <2>2, <2>3
<1> HIDE DEF T, total, place, above
<1>7. \A x, y \in T : <<x, y>> \in above <=> \/ total(x) > total(y)
                                             \/ total(x) = total(y) /\ place(x) < place(y)
  BY <1>3
<1>8. \A x \in T : <<x, x>> \notin above
  BY <1>5, <1>6, <1>7
<1>9. \A x, y, z \in T : <<x, y>> \in above /\ <<y, z>> \in above => <<x, z>> \in above
  <2> SUFFICES ASSUME NEW x \in T, NEW y \in T, NEW z \in T, <<x, y>> \in above, <<y, z>> \in above
               PROVE  <<x, z>> \in above
    OBVIOUS
  <2>1. /\ total(x) \in Nat /\ total(y) \in Nat /\ total(z) \in Nat
        /\ place(x) \in Nat /\ place(y) \in Nat /\ place(z) \in Nat
    BY <1>5, <1>6
  <2> QED BY <1>7, <2>1
<1>10. \A x, y \in T : x = y \/ <<x, y>> \in above \/ <<y, x>> \in above
  <2> SUFFICES ASSUME NEW x \in T, NEW y \in T, x # y
               PROVE  <<x, y>> \in above \/ <<y, x>> \in above
    OBVIOUS
  <2>1. /\ total(x) \in Nat /\ total(y) \in Nat /\ place(x) \in Nat /\ place(y) \in Nat
        /\ place(x) # place(y)
    BY <1>5, <1>6
  <2> QED BY <1>7, <2>1
<1> QED BY <1>2, <1>4, <1>5, <1>6, <1>7, <1>8, <1>9, <1>10 DEF listed, T, total, place, above

\* The fusion of two rankings of a document's chunks is a ranking of such chunks.
LEMMA FusedOnce ==
    ASSUME NEW S, NEW dense \in Seq(S), NEW sparse \in Seq(S), NEW k \in Nat
    PROVE  Fused(dense, sparse, k) \in Seq(S) /\ Once(Fused(dense, sparse, k))
<1> DEFINE T == ToSet(Listed(dense, sparse))
           above == Above(dense, sparse)
           e == InOrder(T, above)
<1>1. /\ IsFiniteSet(T) /\ T \subseteq S
      /\ \A x \in T : <<x, x>> \notin above
      /\ \A x, y, z \in T : <<x, y>> \in above /\ <<y, z>> \in above => <<x, z>> \in above
      /\ \A x, y \in T : x = y \/ <<x, y>> \in above \/ <<y, x>> \in above
      /\ Fused(dense, sparse, k) = Prefix(e, k)
  BY FusedIsOrdered
<1> HIDE DEF T, above
<1>2. e \in Seq(T) /\ Once(e)
  BY <1>1, OrderedOnce
<1> HIDE DEF e
<1>3. e \in Seq(S)
  BY <1>1, <1>2
<1> QED BY <1>1, <1>2, <1>3, PrefixOnce

LEMMA RankingsAreOnce ==
    ASSUME NEW d \in DocumentSet, NEW hits \in DocumentRankings(d)
    PROVE  hits \in Seq(ChunksIn(d)) /\ Once(hits)
<1> DEFINE S == ChunksIn(d)
<1>1. PICK dense \in Sparse(S), sparse \in Sparse(S) : hits = Fused(dense, sparse, PerDocument)
  BY DEF DocumentRankings, Dense
<1> HIDE DEF S
<1>2. IsFiniteSet(S)
  BY ChunksAreFinite DEF S
<1>3. dense \in Seq(S)
  BY <1>2, RankingsAreLists
<1>4. sparse \in Seq(S)
  BY <1>2, RankingsAreLists
<1>5. Fused(dense, sparse, PerDocument) \in Seq(S) /\ Once(Fused(dense, sparse, PerDocument))
  BY <1>3, <1>4, GlobalIsPositive, FusedOnce
<1> QED BY <1>1, <1>5 DEF S

\* A hit is ranked where its document and its rank put it, so once: documents
\* share no chunk, and no ranking repeats one.
LEMMA MergedOnce ==
    ASSUME NEW X, NEW rankings \in Seq(Seq(X)),
           \A d \in DOMAIN rankings : Once(rankings[d]),
           \A c, d \in DOMAIN rankings : \A i \in DOMAIN rankings[c], j \in DOMAIN rankings[d] :
               rankings[c][i] = rankings[d][j] => c = d
    PROVE  Merged(rankings) \in Seq(X) /\ Once(Merged(rankings))
<1> DEFINE D == DOMAIN rankings
           row == [d \in D |-> {<<rank, d>> : rank \in DOMAIN rankings[d]}]
           places == UNION {{<<rank, d>> : rank \in DOMAIN rankings[d]} : d \in DOMAIN rankings}
           above == {p \in places \X places : \/ p[1][1] < p[2][1]
                                              \/ p[1][1] = p[2][1] /\ p[1][2] < p[2][2]}
           order == InOrder(places, above)
           merged == [k \in DOMAIN order |-> rankings[order[k][2]][order[k][1]]]
<1>1. D = 1..Len(rankings) /\ Len(rankings) \in Nat /\ \A d \in D : rankings[d] \in Seq(X)
  OBVIOUS
<1>2. Merged(rankings) = merged
  BY DEF Merged
<1>3. \A p : p \in places <=> \E d \in D : \E rank \in DOMAIN rankings[d] : p = <<rank, d>>
  OBVIOUS
<1>4. IsFiniteSet(places)
  <2>1. IsFiniteSet(D)
    <3> HIDE DEF D
    <3> QED BY ONLY <1>1, FS_Interval
  <2>2. IsFiniteSet({row[d] : d \in D})
    <3> HIDE DEF D, row
    <3> QED BY <2>1, ImageIsFinite
  <2>3. ASSUME NEW d \in D PROVE IsFiniteSet(row[d])
    <3> DEFINE R == DOMAIN rankings[d]
               f == [rank \in R |-> <<rank, d>>]
    <3>1. R = 1..Len(rankings[d]) /\ Len(rankings[d]) \in Nat
      BY <1>1
    <3>2. IsFiniteSet(R)
      <4> HIDE DEF R
      <4> QED BY ONLY <3>1, FS_Interval
    <3>3. row[d] = {f[x] : x \in R}
      OBVIOUS
    <3>4. IsFiniteSet({f[x] : x \in R})
      <4> HIDE DEF R, f
      <4> QED BY ONLY <3>2, ImageIsFinite
    <3> QED BY <3>3, <3>4
  <2>4. places = UNION {row[d] : d \in D}
    OBVIOUS
  <2>5. \A r \in {row[d] : d \in D} : IsFiniteSet(r)
    BY <2>3
  <2> DEFINE rows == {row[d] : d \in D}
  <2> HIDE DEF row, places, D
  <2>6. IsFiniteSet(UNION rows)
    <3>1. IsFiniteSet(rows) /\ \A r \in rows : IsFiniteSet(r)
      BY <2>2, <2>5
    <3> HIDE DEF rows
    <3> QED BY <3>1, FS_UNION
  <2> QED BY <2>4, <2>6
<1> HIDE DEF places, row
<1>5. \A p \in places : /\ p = <<p[1], p[2]>> /\ p[1] \in Nat /\ p[2] \in Nat
                        /\ p[2] \in D /\ p[1] \in DOMAIN rankings[p[2]]
  <2> SUFFICES ASSUME NEW p \in places
               PROVE  /\ p = <<p[1], p[2]>> /\ p[1] \in Nat /\ p[2] \in Nat
                      /\ p[2] \in D /\ p[1] \in DOMAIN rankings[p[2]]
    OBVIOUS
  <2>1. PICK d \in D : \E rank \in DOMAIN rankings[d] : p = <<rank, d>>
    BY <1>3
  <2>2. PICK rank \in DOMAIN rankings[d] : p = <<rank, d>>
    BY <2>1
  <2>3. d \in Nat /\ rank \in Nat
    <3>1. rankings[d] \in Seq(X)
      BY <1>1
    <3>2. DOMAIN rankings[d] = 1..Len(rankings[d])
      BY <3>1
    <3> QED BY <1>1, <3>2
  <2> QED BY <2>2, <2>3
<1>6. \A x, y \in places : <<x, y>> \in above <=> x[1] < y[1] \/ (x[1] = y[1] /\ x[2] < y[2])
  OBVIOUS
<1> HIDE DEF above, D
<1>7. \A x \in places : <<x, x>> \notin above
  BY <1>5, <1>6
<1>8. \A x, y, z \in places : <<x, y>> \in above /\ <<y, z>> \in above => <<x, z>> \in above
  <2> SUFFICES ASSUME NEW x \in places, NEW y \in places, NEW z \in places,
                      <<x, y>> \in above, <<y, z>> \in above
               PROVE  <<x, z>> \in above
    OBVIOUS
  <2>1. /\ x[1] \in Nat /\ y[1] \in Nat /\ z[1] \in Nat
        /\ x[2] \in Nat /\ y[2] \in Nat /\ z[2] \in Nat
    BY <1>5
  <2> QED BY <1>6, <2>1
<1>9. \A x, y \in places : x = y \/ <<x, y>> \in above \/ <<y, x>> \in above
  <2> SUFFICES ASSUME NEW x \in places, NEW y \in places, x # y
               PROVE  <<x, y>> \in above \/ <<y, x>> \in above
    OBVIOUS
  <2>1. /\ x[1] \in Nat /\ y[1] \in Nat /\ x[2] \in Nat /\ y[2] \in Nat
        /\ x[1] # y[1] \/ x[2] # y[2]
    BY <1>5
  <2> QED BY <1>6, <2>1
<1>10. InOrder(places, above) \in Seq(places) /\ Once(InOrder(places, above))
  BY <1>4, <1>7, <1>8, <1>9, OrderedOnce
<1> HIDE DEF order
<1>11. order \in Seq(places) /\ Once(order) /\ Len(order) \in Nat /\ DOMAIN order = 1..Len(order)
  <2>1. order \in Seq(places) /\ Once(order)
    BY <1>10 DEF order
  <2> QED BY <2>1
<1>12. \A k \in DOMAIN order : order[k] \in places
  BY <1>11
<1>13. \A k \in DOMAIN order : merged[k] \in X
  <2> SUFFICES ASSUME NEW k \in DOMAIN order PROVE rankings[order[k][2]][order[k][1]] \in X
    OBVIOUS
  <2>1. order[k][2] \in D /\ order[k][1] \in DOMAIN rankings[order[k][2]]
    BY <1>5, <1>12
  <2>2. rankings[order[k][2]] \in Seq(X)
    BY <1>1, <2>1
  <2> QED BY <2>1, <2>2
<1>14. merged \in Seq(X)
  <2>1. merged \in [1..Len(order) -> X]
    BY <1>11, <1>13
  <2> HIDE DEF merged
  <2> QED BY <1>11, <2>1, ListsAreFunctions
<1>15. Once(merged)
  <2> SUFFICES ASSUME NEW j \in DOMAIN order, NEW k \in DOMAIN order, merged[j] = merged[k]
               PROVE  j = k
    BY DEF Once
  <2> DEFINE p == order[j]
             q == order[k]
  <2>1. p \in places /\ q \in places
    BY <1>12
  <2>2. rankings[p[2]][p[1]] = rankings[q[2]][q[1]]
    OBVIOUS
  <2> HIDE DEF merged
  <2>3. p[2] = q[2]
    BY <1>5, <2>1, <2>2 DEF D
  <2>4. p[1] = q[1]
    BY <1>5, <2>1, <2>2, <2>3 DEF D, Once
  <2>5. p = q
    BY <1>5, <2>1, <2>3, <2>4
  <2> QED BY <1>11, <2>5 DEF Once
<1> QED BY <1>2, <1>14, <1>15

\* Every future that is done holds a ranking of its document.
HitsAreOwn ==
    \A s \in Searches, d \in DocumentSet :
        future[s][d].state = "done" => future[s][d].hits \in DocumentRankings(d)

\* The answers in time are rankings of different documents.
LEMMA FairOnce ==
    ASSUME HitsAreOwn, NEW s \in Searches
    PROVE  Merged(InTime(s)) \in Seq(Chunks) /\ Once(Merged(InTime(s)))
<1> DEFINE P == {i \in DOMAIN WorkspaceRecords :
                    /\ WorkspaceRecords[i] \in search[s].inTime
                    /\ future[s][WorkspaceRecords[i]].state = "done"}
           answered == Keep(WorkspaceRecords, P)
           rankings == [i \in DOMAIN answered |-> future[s][answered[i]].hits]
<1>1. /\ WorkspaceRecords \in Seq(DocumentSet)
      /\ \A i, j \in DOMAIN WorkspaceRecords : WorkspaceRecords[i] = WorkspaceRecords[j] => i = j
  BY RetrievalAssumption, PlacesAreDocuments DEF RetrievalAssumption, DocumentSet
<1>2. InTime(s) = rankings
  BY DEF InTime
<1>3. P \in SUBSET (DOMAIN WorkspaceRecords)
      /\ \A i \in P : future[s][WorkspaceRecords[i]].state = "done"
  OBVIOUS
<1> HIDE DEF P
<1>4. /\ P \in SUBSET Nat /\ P \subseteq DOMAIN WorkspaceRecords
      /\ IsFiniteSet(P) /\ Cardinality(P) \in Nat /\ Cardinality(P) <= Len(WorkspaceRecords)
      /\ \A k \in 1..Cardinality(P) : Keep(WorkspaceRecords, P)[k] = WorkspaceRecords[Ascending(P)[k]]
      /\ Keep(WorkspaceRecords, P) \in Seq(DocumentSet)
      /\ Len(Keep(WorkspaceRecords, P)) = Cardinality(P)
      /\ DOMAIN Keep(WorkspaceRecords, P) = 1..Cardinality(P)
  BY <1>1, <1>3, KeepIsPlaced
<1>5. /\ \A k \in DOMAIN Keep(WorkspaceRecords, P) : \E i \in P : Keep(WorkspaceRecords, P)[k] = WorkspaceRecords[i]
      /\ \A i \in P : \E k \in DOMAIN Keep(WorkspaceRecords, P) : Keep(WorkspaceRecords, P)[k] = WorkspaceRecords[i]
      /\ \A j, k \in DOMAIN Keep(WorkspaceRecords, P) :
            j < k => \E h, i \in P : h < i /\ Keep(WorkspaceRecords, P)[j] = WorkspaceRecords[h]
                                           /\ Keep(WorkspaceRecords, P)[k] = WorkspaceRecords[i]
  BY <1>1, <1>3, KeepInTurn
<1>6. /\ DOMAIN answered = 1..Cardinality(P) /\ Cardinality(P) \in Nat
      /\ \A k \in DOMAIN answered : answered[k] \in DocumentSet /\ future[s][answered[k]].state = "done"
      /\ \A j, k \in DOMAIN answered : answered[j] = answered[k] => j = k
  <2>1. \A k \in DOMAIN answered : answered[k] \in DocumentSet /\ future[s][answered[k]].state = "done"
    BY <1>3, <1>4, <1>5
  <2>2. ASSUME NEW j \in DOMAIN answered, NEW k \in DOMAIN answered, answered[j] = answered[k], j < k
        PROVE  FALSE
    <3>1. PICK h \in P, i \in P : h < i /\ answered[j] = WorkspaceRecords[h] /\ answered[k] = WorkspaceRecords[i]
      BY <1>5, <2>2
    <3>2. h = i
      BY <1>1, <1>3, <2>2, <3>1
    <3> QED BY <1>4, <3>1, <3>2
  <2>3. DOMAIN answered = 1..Cardinality(P)
    BY <1>4
  <2> HIDE DEF answered
  <2>4. \A j, k \in DOMAIN answered : answered[j] = answered[k] => j = k
    BY <1>4, <2>2, <2>3
  <2> QED BY <1>4, <2>1, <2>3, <2>4
<1> HIDE DEF answered
<1>7. ASSUME NEW k \in DOMAIN answered
      PROVE  rankings[k] \in Seq(ChunksIn(answered[k])) /\ Once(rankings[k])
  BY <1>6, RankingsAreOnce DEF HitsAreOwn
<1>8. \A k \in DOMAIN answered : rankings[k] \in Seq(Chunks)
  <2>1. \A d : ChunksIn(d) \subseteq Chunks
    BY DEF ChunksIn
  <2> SUFFICES ASSUME NEW k \in DOMAIN answered PROVE rankings[k] \in Seq(Chunks)
    OBVIOUS
  <2>2. rankings[k] \in Seq(ChunksIn(answered[k]))
    BY <1>7
  <2> HIDE DEF rankings
  <2> QED BY <2>1, <2>2
<1>9. rankings \in Seq(Seq(Chunks)) /\ DOMAIN rankings = DOMAIN answered
  <2>1. rankings \in [1..Cardinality(P) -> Seq(Chunks)]
    BY <1>6, <1>8
  <2> HIDE DEF rankings
  <2> QED BY <1>6, <2>1, ListsAreFunctions
<1>10. \A d \in DOMAIN rankings : Once(rankings[d])
  BY <1>7, <1>9
<1> HIDE DEF rankings
<1>11. \A c, d \in DOMAIN rankings : \A i \in DOMAIN rankings[c], j \in DOMAIN rankings[d] :
           rankings[c][i] = rankings[d][j] => c = d
  <2> SUFFICES ASSUME NEW c \in DOMAIN rankings, NEW d \in DOMAIN rankings,
                      NEW i \in DOMAIN rankings[c], NEW j \in DOMAIN rankings[d],
                      rankings[c][i] = rankings[d][j]
               PROVE  c = d
    OBVIOUS
  <2>1. rankings[c] \in Seq(ChunksIn(answered[c])) /\ rankings[d] \in Seq(ChunksIn(answered[d]))
    BY <1>7, <1>9
  <2>2. rankings[c][i] \in ChunksIn(answered[c]) /\ rankings[d][j] \in ChunksIn(answered[d])
    BY <2>1
  <2>3. answered[c] = answered[d]
    BY <2>2 DEF ChunksIn
  <2> QED BY <1>6, <1>9, <2>3
<1>12. Merged(rankings) \in Seq(Chunks) /\ Once(Merged(rankings))
  BY <1>9, <1>10, <1>11, MergedOnce
<1> QED BY <1>2, <1>12


\* One future changes: the others' hits stay their own.
LEMMA OneFutureChanges ==
    ASSUME PoolInv, HitsAreOwn, NEW s \in Searches, NEW d \in DocumentSet,
           NEW given \in [state : FutureStates, hits : Answers],
           given.state = "done" => given.hits \in DocumentRankings(d),
           future' = [future EXCEPT ![s][d] = given]
    PROVE  HitsAreOwn'
<1>1. \A u \in Searches, e \in DocumentSet :
          future'[u][e] = IF u = s /\ e = d THEN given ELSE future[u][e]
  BY FutureIsTyped
<1>2. ASSUME NEW u \in Searches, NEW e \in DocumentSet, future'[u][e].state = "done"
      PROVE  future'[u][e].hits \in DocumentRankings(e)
  <2>1. CASE u = s /\ e = d
    BY <1>1, <1>2, <2>1
  <2>2. CASE ~(u = s /\ e = d)
    BY <1>1, <1>2, <2>2 DEF HitsAreOwn
  <2> QED BY <2>1, <2>2
<1>3. \A e : DocumentRankings(e)' = DocumentRankings(e)
  BY DEF DocumentRankings
<1> QED BY <1>2, <1>3 DEF HitsAreOwn

LEMMA HitsStep ==
    ASSUME PoolInv, HitsAreOwn, [RetrievalNext]_retrievalVars
    PROVE  HitsAreOwn'
<1>1. ASSUME NEW s \in Searches, Select(s) PROVE HitsAreOwn'
  <2>1. future' = [future EXCEPT ![s] = [d \in DocumentSet |-> NoFuture]]
    BY <1>1 DEF Select
  <2>2. \A u \in Searches, d \in DocumentSet : future'[u][d] = IF u = s THEN NoFuture ELSE future[u][d]
    BY <2>1, FutureIsTyped
  <2> QED BY <2>2 DEF HitsAreOwn, NoFuture
<1>2. CASE UNCHANGED future
  BY <1>2 DEF HitsAreOwn
<1>3. ASSUME NEW s \in Searches, Admit(s) PROVE HitsAreOwn'
  <2> DEFINE i == Min(Left(s))
             d == WorkspaceRecords[i]
             given == [future[s][d] EXCEPT !.state = "submitted"]
  <2>1. i \in DOMAIN WorkspaceRecords
    <3>1. Left(s) # {} /\ Left(s) \in SUBSET Nat /\ Left(s) \subseteq DOMAIN WorkspaceRecords
      <4>1. search[s].next \in 1..(Len(WorkspaceRecords) + 1)
        BY DEF PoolInv, PoolTypeOK, RunRecords
      <4> QED BY <1>3, <4>1, PlacesAreDocuments DEF Admit, Left
    <3>2. Min(Left(s)) \in Left(s)
      BY <3>1, LeastPlace
    <3> QED BY <3>1, <3>2
  <2>2. d \in DocumentSet
    BY <2>1, PlacesAreDocuments
  <2>3. future' = [future EXCEPT ![s][d].state = "submitted"]
    BY <1>3 DEF Admit
  <2> HIDE DEF d
  <2>4. given \in [state : FutureStates, hits : Answers] /\ given.state = "submitted"
    BY <2>2, FutureIsTyped DEF FutureStates
  <2>5. future' = [future EXCEPT ![s][d] = given]
    BY <2>3
  <2> HIDE DEF given
  <2> QED BY <2>2, <2>4, <2>5, OneFutureChanges
<1>4. ASSUME NEW s \in Searches, NEW d \in DocumentSet, StartSearch(s, d) PROVE HitsAreOwn'
  <2> DEFINE given == [future[s][d] EXCEPT !.state = "running"]
  <2>1. given \in [state : FutureStates, hits : Answers] /\ given.state = "running"
    BY FutureIsTyped DEF FutureStates
  <2>2. future' = [future EXCEPT ![s][d] = given]
    BY <1>4 DEF StartSearch
  <2> HIDE DEF given
  <2> QED BY <2>1, <2>2, OneFutureChanges
<1>5. ASSUME NEW s \in Searches, NEW d \in DocumentSet, FinishSearch(s, d) PROVE HitsAreOwn'
  <2>1. CASE \E hits \in DocumentRankings(d) :
                future' = [future EXCEPT ![s][d] = [state |-> "done", hits |-> hits]]
    <3>1. PICK hits \in DocumentRankings(d) :
                future' = [future EXCEPT ![s][d] = [state |-> "done", hits |-> hits]]
      BY <2>1
    <3>2. hits \in Answers
      BY AnswersHold, Zenon
    <3> DEFINE given == [state |-> "done", hits |-> hits]
    <3>3. given \in [state : FutureStates, hits : Answers] /\ given.hits \in DocumentRankings(d)
      BY <3>2 DEF FutureStates
    <3>4. future' = [future EXCEPT ![s][d] = given]
      BY <3>1
    <3> HIDE DEF given
    <3> QED BY <3>3, <3>4, OneFutureChanges
  <2>2. CASE future' = [future EXCEPT ![s][d].state = "failed"]
    <3> DEFINE given == [future[s][d] EXCEPT !.state = "failed"]
    <3>1. given \in [state : FutureStates, hits : Answers] /\ given.state = "failed"
      BY FutureIsTyped DEF FutureStates
    <3>2. future' = [future EXCEPT ![s][d] = given]
      BY <2>2
    <3> HIDE DEF given
    <3> QED BY <3>1, <3>2, OneFutureChanges
  <2> QED BY <1>5, <2>1, <2>2 DEF FinishSearch
<1>6. ASSUME NEW s \in Searches,
             \/ \E records \in SUBSET DocumentSet \ {{}}, targets \in SUBSET DocumentSet :
                   BeginSearch(s, records, targets)
             \/ StopAdmitting(s) \/ StopWaiting(s)
      PROVE  UNCHANGED future
  BY <1>6 DEF BeginSearch, StopAdmitting, StopWaiting
<1>7. FinishLate \/ UNCHANGED retrievalVars => UNCHANGED future
  BY DEF FinishLate, retrievalVars
<1> QED BY <1>1, <1>2, <1>3, <1>4, <1>5, <1>6, <1>7 DEF RetrievalNext

\* What a search returns is a cover, whatever the reranker makes of the order.
OutcomeIsCovered ==
    /\ outcome \in [targets : SUBSET DocumentSet, ranked : Seq(Chunks), selected : Seq(Chunks)]
    /\ IsCover(outcome.targets, outcome.ranked, outcome.selected)

LEMMA CoverIs == IsCover(outcome.targets, outcome.ranked, outcome.selected) <=> ComparisonsAreCovered
BY DEF IsCover, ComparisonsAreCovered

LEMMA NothingIsCovered == IsCover({}, <<>>, <<>>)
<1> DEFINE none == {i \in DOMAIN <<>> : <<>>[i] \in ToSet(<<>>)}
<1>1. <<>> \in Seq(Chunks) /\ none \in SUBSET (DOMAIN <<>>) /\ none = {}
  OBVIOUS
<1>2. Keep(<<>>, none) = <<>>
  <2>1. Keep(<<>>, none) \in Seq(Chunks) /\ Len(Keep(<<>>, none)) = Cardinality(none)
    BY <1>1, KeepIsPlaced
  <2>2. Cardinality(none) = 0
    BY <1>1, FS_EmptySet
  <2> HIDE DEF none
  <2> DEFINE t == Keep(<<>>, none)
  <2>3. t \in Seq(Chunks) /\ Len(t) = 0
    BY <2>1, <2>2
  <2> HIDE DEF t
  <2>4. t = <<>>
    BY <2>3
  <2> QED BY <2>4 DEF t
<1>3. Max({GlobalK, Cardinality({})}) \in Nat
  <2>1. Cardinality({}) = 0
    BY FS_EmptySet
  <2> QED BY <2>1, GlobalIsPositive, LargerOfTwo
<1> DEFINE found == {d \in {} : \E i \in DOMAIN <<>> : <<>>[i][1] = d}
<1>4. found = {}
  OBVIOUS
<1>5. Len(<<>>) <= Max({GlobalK, Cardinality(found)})
  <2>1. Len(<<>>) = 0
    OBVIOUS
  <2> QED BY <1>3, <1>4, <2>1
<1> QED BY <1>2, <1>4, <1>5 DEF IsCover

\* The new outcome, of nothing or of a cover.
LEMMA OutcomeBecomes ==
    ASSUME NEW targets \in SUBSET DocumentSet, NEW ranked \in Seq(Chunks), NEW given \in Seq(Chunks),
           IsCover(targets, ranked, given),
           outcome' = [targets |-> targets, ranked |-> ranked, selected |-> given]
    PROVE  OutcomeIsCovered'
<1>1. outcome'.targets = targets /\ outcome'.ranked = ranked /\ outcome'.selected = given
  OBVIOUS
<1>2. IsCover(outcome'.targets, outcome'.ranked, outcome'.selected)
  BY <1>1
<1>3. IsCover(outcome.targets, outcome.ranked, outcome.selected)'
  BY <1>2 DEF IsCover
<1>4. outcome' \in [targets : SUBSET DocumentSet, ranked : Seq(Chunks), selected : Seq(Chunks)]
  OBVIOUS
<1>5. (outcome \in [targets : SUBSET DocumentSet, ranked : Seq(Chunks), selected : Seq(Chunks)])'
  BY <1>4 DEF Chunks, DocumentSet
<1> QED BY <1>3, <1>5 DEF OutcomeIsCovered

LEMMA OutcomeStep ==
    ASSUME PoolInv, HitsAreOwn, OutcomeIsCovered, [RetrievalNext]_retrievalVars
    PROVE  OutcomeIsCovered'
<1>1. outcome' = NoOutcome => OutcomeIsCovered'
  <2> DEFINE none == <<>>
             no == {}
  <2>1. none \in Seq(Chunks) /\ no \in SUBSET DocumentSet /\ IsCover(no, none, none)
    BY NothingIsCovered
  <2>2. outcome' = NoOutcome => outcome' = [targets |-> no, ranked |-> none, selected |-> none]
    BY DEF NoOutcome
  <2> HIDE DEF none, no
  <2> QED BY <2>1, <2>2, OutcomeBecomes
<1>2. ASSUME NEW s \in Searches, Select(s) PROVE OutcomeIsCovered'
  <2> DEFINE fair == Merged(InTime(s))
             targets == search[s].targets
  <2>1. \/ \E ranked \in {fair} \cup SetToSeqs(ToSet(fair)) :
               outcome' = [targets |-> targets, ranked |-> ranked, selected |-> Selection(ranked, targets)]
        \/ outcome' = NoOutcome
    BY <1>2 DEF Select
  <2>2. targets \in SUBSET DocumentSet
    BY DEF PoolInv, PoolTypeOK, RunRecords
  <2>3. fair \in Seq(Chunks) /\ Once(fair)
    BY FairOnce
  <2> HIDE DEF fair, targets
  <2>4. ASSUME NEW ranked \in {fair} \cup SetToSeqs(ToSet(fair)),
               outcome' = [targets |-> targets, ranked |-> ranked, selected |-> Selection(ranked, targets)]
        PROVE  OutcomeIsCovered'
    <3>1. ranked \in Seq(Chunks) /\ Once(ranked)
      <4>1. CASE ranked \in SetToSeqs(ToSet(fair))
        <5>1. IsFiniteSet(ToSet(fair)) /\ ToSet(fair) \subseteq Chunks
          BY <2>3, ListsAreFinite
        <5>2. ranked \in Seq(ToSet(fair)) /\ Once(ranked)
          BY <4>1, <5>1, PermutationsAreLists
        <5> DEFINE S == ToSet(fair)
        <5>3. ranked \in Seq(S) /\ S \subseteq Chunks
          BY <5>1, <5>2
        <5> HIDE DEF S
        <5> QED BY <5>2, <5>3
      <4>2. CASE ranked = fair
        BY <2>3, <4>2
      <4> QED BY <4>1, <4>2
    <3> DEFINE given == Selection(ranked, targets)
    <3>2. IsCover(targets, ranked, given) /\ given \in Seq(Chunks)
      BY <3>1, SelectionCovers
    <3> HIDE DEF given
    <3>3. outcome' = [targets |-> targets, ranked |-> ranked, selected |-> given]
      BY <2>4 DEF given
    <3> QED BY <2>2, <3>1, <3>2, <3>3, OutcomeBecomes
  <2> QED BY <1>1, <2>1, <2>4
<1>3. CASE UNCHANGED retrievalVars
  BY <1>3 DEF retrievalVars, OutcomeIsCovered, IsCover
<1> QED BY <1>1, <1>2, <1>3 DEF RetrievalNext

RetrievalInv == PoolInv /\ HitsAreOwn /\ OutcomeIsCovered

LEMMA RetrievalIsTyped == RetrievalInv => RetrievalTypeOK
<1> SUFFICES ASSUME RetrievalInv PROVE RetrievalTypeOK
  OBVIOUS
<1>1. slots \in 0..RetrievalSlots /\ late \in 0..RetrievalSlots
  <2>1. slots + late + Cardinality(Holders) = RetrievalSlots
    BY SlotsAreCounted DEF RetrievalInv, PoolInv
  <2>2. slots \in Nat /\ late \in Nat /\ Cardinality(Holders) \in Nat
    BY FS_CardinalityType DEF RetrievalInv, PoolInv, PoolTypeOK
  <2> QED BY <2>1, <2>2
<1>2. Answers \subseteq Seq(Chunks)
  <2>1. \A d \in DocumentSet : DocumentRankings(d) \subseteq Seq(Chunks)
    <3> SUFFICES ASSUME NEW d \in DocumentSet, NEW hits \in DocumentRankings(d) PROVE hits \in Seq(Chunks)
      OBVIOUS
    <3>1. hits \in Seq(ChunksIn(d))
      BY RankingsAreOnce
    <3>2. ChunksIn(d) \subseteq Chunks
      BY DEF ChunksIn
    <3> QED BY <3>1, <3>2
  <2> DEFINE rankings == {DocumentRankings(d) : d \in DocumentSet}
  <2>2. \A r \in rankings : r \subseteq Seq(Chunks)
    BY <2>1
  <2>3. Answers = {<<>>} \cup UNION rankings /\ <<>> \in Seq(Chunks)
    BY DEF Answers
  <2> HIDE DEF rankings
  <2> QED BY <2>2, <2>3
<1>3. future \in [Searches -> [DocumentSet -> [state : FutureStates, hits : Seq(Chunks)]]]
  <2>1. future \in [Searches -> [DocumentSet -> [state : FutureStates, hits : Answers]]]
    BY DEF RetrievalInv, PoolInv, PoolTypeOK
  <2>2. [state : FutureStates, hits : Answers] \subseteq [state : FutureStates, hits : Seq(Chunks)]
    BY <1>2
  <2> DEFINE A == [state : FutureStates, hits : Answers]
             B == [state : FutureStates, hits : Seq(Chunks)]
  <2>3. future \in [Searches -> [DocumentSet -> A]] /\ A \subseteq B
    BY <2>1, <2>2
  <2> HIDE DEF A, B
  <2>4. future \in [Searches -> [DocumentSet -> B]]
    BY <2>3
  <2> QED BY <2>4 DEF B
<1>4. search \in [Searches ->
          [pc : {"idle", "admitting", "waiting", "merging"},
           records : SUBSET DocumentSet, targets : SUBSET DocumentSet, next : 1..(Len(WorkspaceRecords) + 1),
           inTime : SUBSET DocumentSet]]
  BY DEF RetrievalInv, PoolInv, PoolTypeOK, RunRecords
<1> QED BY <1>1, <1>3, <1>4 DEF RetrievalTypeOK, RetrievalInv, OutcomeIsCovered

\* A comparison sees every document it names that answered in time, whatever the
\* reranker makes of the hits (select_coverage_hits, rag/workspace_retrieval.py), and
\* whatever is late, fails or is cancelled gives its slot back.
THEOREM RetrievalIsFairHolds == RetrievalSpec => [](RetrievalTypeOK /\ RetrievalIsFair)
<1>1. RetrievalInit => RetrievalInv
  <2> SUFFICES ASSUME RetrievalInit PROVE RetrievalInv
    OBVIOUS
  <2>1. PoolInv
    BY PoolStarts
  <2>2. HitsAreOwn
    BY DEF RetrievalInit, NoFuture, HitsAreOwn
  <2>3. OutcomeIsCovered
    BY NothingIsCovered DEF RetrievalInit, NoOutcome, OutcomeIsCovered
  <2> QED BY <2>1, <2>2, <2>3 DEF RetrievalInv
<1>2. RetrievalInv /\ [RetrievalNext]_retrievalVars => RetrievalInv'
  <2> SUFFICES ASSUME PoolInv, HitsAreOwn, OutcomeIsCovered, [RetrievalNext]_retrievalVars
               PROVE  RetrievalInv'
    BY DEF RetrievalInv
  <2>1. PoolInv' /\ HitsAreOwn' /\ OutcomeIsCovered'
    BY PoolStep, HitsStep, OutcomeStep
  <2> QED BY <2>1 DEF RetrievalInv
<1>3. RetrievalInv => RetrievalTypeOK /\ RetrievalIsFair
  BY RetrievalIsTyped, CoverIs DEF RetrievalInv, PoolInv, OutcomeIsCovered, RetrievalIsFair
<1> QED BY <1>1, <1>2, <1>3, PTL DEF RetrievalSpec


-----------------------------------------------------------------------------
(* The fusion of two rankings respects what they agree on.                  *)

\* A better rank is worth no less.
LEMMA SharesFall ==
    ASSUME NEW D \in Nat, NEW a \in Nat, NEW b \in Nat, 0 < a, a <= b
    PROVE  D \div b <= D \div a
<1> DEFINE q == D \div a
           r == D \div b
<1>1. q \in Nat /\ D < a * (q + 1)
  OBVIOUS
<1>2. r \in Nat /\ b * r <= D
  OBVIOUS
<1> HIDE DEF q, r
<1>3. SUFFICES ASSUME r > q PROVE FALSE
  BY <1>1, <1>2 DEF q, r
<1>4. a * (q + 1) <= a * r
  <2>1. PICK c \in Nat : r = (q + 1) + c
    <3>1. r - (q + 1) \in Nat /\ r = (q + 1) + (r - (q + 1))
      BY <1>1, <1>2, <1>3
    <3> QED BY <3>1
  <2>2. a * r = a * (q + 1) + a * c
    BY <1>1, <2>1
  <2>3. a * c \in Nat /\ a * (q + 1) \in Nat
    BY <1>1
  <2> QED BY <2>2, <2>3
<1>5. a * r <= b * r
  <2>1. PICK c \in Nat : b = a + c
    <3>1. b - a \in Nat /\ b = a + (b - a)
      OBVIOUS
    <3> QED BY <3>1
  <2>2. b * r = a * r + c * r
    BY <1>2, <2>1
  <2>3. c * r \in Nat /\ a * r \in Nat
    BY <1>2
  <2> QED BY <2>2, <2>3
<1> DEFINE x == a * (q + 1)
           y == a * r
           z == b * r
<1>6. x \in Nat /\ y \in Nat /\ z \in Nat
  BY <1>1, <1>2
<1>7. D < x /\ z <= D /\ x <= y /\ y <= z
  BY <1>1, <1>2, <1>4, <1>5
<1> HIDE DEF x, y, z
<1> QED BY <1>6, <1>7

LEMMA BetterRankScoresMore ==
    ASSUME NEW S, NEW ranking \in Seq(S), Once(ranking),
           NEW i \in DOMAIN ranking, NEW j \in DOMAIN ranking, i < j
    PROVE  Score(ranking, ranking[j]) <= Score(ranking, ranking[i])
<1>1. \A k \in DOMAIN ranking : Score(ranking, ranking[k]) = Denominator \div (60 + k)
  <2> SUFFICES ASSUME NEW k \in DOMAIN ranking
               PROVE  Score(ranking, ranking[k]) = Denominator \div (60 + k)
    OBVIOUS
  <2>1. ranking[k] \in ToSet(ranking)
    BY DEF ToSet
  <2> DEFINE p == CHOOSE p \in DOMAIN ranking : ranking[p] = ranking[k]
  <2>2. p \in DOMAIN ranking /\ ranking[p] = ranking[k]
    OBVIOUS
  <2>3. p = k
    BY <2>2 DEF Once
  <2>4. Score(ranking, ranking[k]) = Denominator \div (60 + p)
    BY <2>1 DEF Score
  <2> QED BY <2>3, <2>4
<1>2. Denominator \in Nat
  BY DEF Denominator
<1>3. i \in Nat /\ j \in Nat
  OBVIOUS
<1> DEFINE a == 60 + i
           b == 60 + j
<1>4. a \in Nat /\ b \in Nat /\ 0 < a /\ a <= b
  BY <1>3
<1> HIDE DEF a, b
<1>5. Denominator \div b <= Denominator \div a
  BY <1>2, <1>4, SharesFall
<1> QED BY <1>1, <1>5 DEF a, b

\* In a ranking x stands somewhere before y; and y, if it is there, behind x.
Precedes(ranking, x, y) ==
    \E p, q \in DOMAIN ranking : p < q /\ ranking[p] = x /\ ranking[q] = y
Trails(ranking, x, y) ==
    \A l \in DOMAIN ranking : ranking[l] = y => \E m \in 1..(l - 1) : ranking[m] = x

\* Of two chunks the dense ranking and, where it has the second, the other
\* ranking put in one order, the second is in the fusion only after the first.
LEMMA FusionKeepsOrder ==
    ASSUME NEW S, NEW dense \in Seq(S), Once(dense), NEW sparse \in Seq(S), Once(sparse), NEW k \in Nat,
           NEW i \in DOMAIN dense, NEW j \in DOMAIN dense, i < j,
           Trails(sparse, dense[i], dense[j]), dense[j] \in ToSet(Fused(dense, sparse, k))
    PROVE  Precedes(Fused(dense, sparse, k), dense[i], dense[j])
<1> DEFINE listed == Listed(dense, sparse)
           T == ToSet(listed)
           above == Above(dense, sparse)
           e == InOrder(T, above)
           n == Cardinality(T)
           x == dense[i]
           y == dense[j]
<1>1. /\ IsFiniteSet(T) /\ T \subseteq S
      /\ \A c \in T : FusedScore(dense, sparse, c) \in Nat
      /\ \A u, v \in T : <<u, v>> \in above <=>
            \/ FusedScore(dense, sparse, u) > FusedScore(dense, sparse, v)
            \/ /\ FusedScore(dense, sparse, u) = FusedScore(dense, sparse, v)
               /\ PlaceIn(listed, u) < PlaceIn(listed, v)
      /\ \A u \in T : <<u, u>> \notin above
      /\ \A u, v, w \in T : <<u, v>> \in above /\ <<v, w>> \in above => <<u, w>> \in above
      /\ \A u, v \in T : u = v \/ <<u, v>> \in above \/ <<v, u>> \in above
      /\ Fused(dense, sparse, k) = Prefix(e, k)
  BY FusedIsOrdered
<1>2. x \in T /\ y \in T /\ PlaceIn(listed, x) = i /\ PlaceIn(listed, y) = j
  <2>1. /\ \A p \in DOMAIN dense : p \in DOMAIN listed /\ listed[p] = dense[p]
        /\ \A p \in DOMAIN dense : PlaceIn(listed, dense[p]) = p
    BY ListedIs
  <2> QED BY <2>1 DEF ToSet
<1> HIDE DEF listed, T, above, x, y
<1>3. FusedScore(dense, sparse, y) <= FusedScore(dense, sparse, x)
  <2>1. /\ Score(dense, x) \in Nat /\ Score(dense, y) \in Nat
        /\ Score(sparse, x) \in Nat /\ Score(sparse, y) \in Nat
    BY ScoresAreNumbers
  <2>2. Score(dense, y) <= Score(dense, x)
    BY BetterRankScoresMore DEF x, y
  <2>3. Score(sparse, y) <= Score(sparse, x)
    <3>1. CASE y \notin ToSet(sparse)
      <4>1. Score(sparse, y) = 0
        BY <3>1 DEF Score
      <4> QED BY <2>1, <4>1
    <3>2. CASE y \in ToSet(sparse)
      <4>1. PICK l \in DOMAIN sparse : sparse[l] = y
        BY <3>2 DEF ToSet
      <4>2. PICK m \in 1..(l - 1) : sparse[m] = x
        BY <4>1 DEF x, y, Trails
      <4>3. m \in DOMAIN sparse /\ m < l
        BY <4>1, <4>2
      <4>4. Score(sparse, sparse[l]) <= Score(sparse, sparse[m])
        BY <4>1, <4>3, BetterRankScoresMore
      <4> QED BY <4>1, <4>2, <4>4
    <3> QED BY <3>1, <3>2
  <2> QED BY <2>1, <2>2, <2>3 DEF FusedScore
<1>4. <<x, y>> \in above
  <2>1. FusedScore(dense, sparse, x) \in Nat /\ FusedScore(dense, sparse, y) \in Nat
    BY <1>1, <1>2
  <2>2. FusedScore(dense, sparse, x) > FusedScore(dense, sparse, y)
        \/ FusedScore(dense, sparse, x) = FusedScore(dense, sparse, y)
    BY <1>3, <2>1
  <2> QED BY <1>1, <1>2, <2>2
<1>5. /\ n \in Nat /\ e \in [1..n -> T]
      /\ \A z \in T : \E p \in 1..n : e[p] = z
      /\ \A p, q \in 1..n : p < q => <<e[p], e[q]>> \in above
  BY <1>1, OrderIsKept
<1> HIDE DEF n, e
<1>6. e \in Seq(T) /\ Len(e) = n /\ DOMAIN e = 1..n
  BY <1>5, ListsAreFunctions
<1> DEFINE size == IF k < n THEN k ELSE n
           fused == SubSeq(e, 1, size)
<1>7. Fused(dense, sparse, k) = fused
  BY <1>1, <1>6 DEF Prefix
<1>8. size \in Nat /\ size <= n
  BY <1>5
<1> HIDE DEF size
<1>9. DOMAIN fused = 1..size /\ \A p \in 1..size : fused[p] = e[p]
  BY <1>6, <1>8
<1> HIDE DEF fused
<1>10. PICK q \in 1..size : e[q] = y
  <2>1. y \in ToSet(fused)
    BY <1>7 DEF y
  <2> QED BY <1>9, <2>1 DEF ToSet
<1>11. PICK p \in 1..n : e[p] = x
  BY <1>2, <1>5
<1>12. p < q
  <2> SUFFICES ASSUME ~(p < q) PROVE FALSE
    OBVIOUS
  <2>1. q \in 1..n /\ (p = q \/ q < p)
    BY <1>5, <1>8, <1>10, <1>11
  <2>2. x = y \/ <<y, x>> \in above
    BY <1>5, <1>10, <1>11, <2>1
  <2>3. <<x, x>> \in above
    BY <1>1, <1>2, <1>4, <2>2
  <2> QED BY <1>1, <1>2, <2>3
<1>13. p \in 1..size /\ q \in 1..size
  BY <1>5, <1>8, <1>10, <1>11, <1>12
<1>14. fused[p] = x /\ fused[q] = y /\ p \in DOMAIN fused /\ q \in DOMAIN fused
  BY <1>9, <1>10, <1>11, <1>13
<1> QED BY <1>7, <1>12, <1>14 DEF x, y, Precedes

\* A chunk both rankings of its document put before another comes before it in
\* their fusion, with any number of chunks (reciprocal_rank_fusion, rag/retrieval.py).
THEOREM FusionIsMonotoneHolds == FusionIsMonotone
<1> SUFFICES ASSUME NEW d \in DocumentSet, NEW dense, dense \in Sparse(ChunksIn(d)),
                    NEW sparse, sparse \in Sparse(ChunksIn(d)),
                    NEW i \in DOMAIN dense, NEW j \in DOMAIN dense, i < j,
                    dense[j] \in ToSet(Fused(dense, sparse, PerDocument)),
                    ~\E k \in DOMAIN sparse : /\ sparse[k] = dense[j]
                                              /\ \A l \in 1..(k - 1) : sparse[l] # dense[i]
             PROVE  Precedes(Fused(dense, sparse, PerDocument), dense[i], dense[j])
  BY DEF FusionIsMonotone, Dense, Precedes
<1> DEFINE S == ChunksIn(d)
<1>1. dense \in Seq(S) /\ Once(dense)
  BY ChunksAreFinite, RankingsAreLists
<1>2. sparse \in Seq(S) /\ Once(sparse)
  BY ChunksAreFinite, RankingsAreLists
<1> HIDE DEF S
<1>3. Trails(sparse, dense[i], dense[j])
  BY DEF Trails
<1>4. PerDocument \in Nat
  BY GlobalIsPositive
<1>5. dense[j] \in ToSet(Fused(dense, sparse, PerDocument)) /\ i < j
  OBVIOUS
<1> QED BY ONLY <1>1, <1>2, <1>3, <1>4, <1>5, FusionKeepsOrder, i \in DOMAIN dense, j \in DOMAIN dense

-----------------------------------------------------------------------------
(* The context: sums and rounds.                                            *)

\* Induction up to a bound, over a set.
LEMMA UpTo ==
    ASSUME NEW N \in Nat, NEW S, 0 \in S,
           \A n \in Nat : n < N /\ n \in S => n + 1 \in S
    PROVE  \A n \in 0..N : n \in S
<1> SUFFICES ASSUME NEW k \in 0..N, k \notin S PROVE FALSE
  OBVIOUS
<1> DEFINE T == {n \in 0..N : n \notin S}
<1>1. T \in SUBSET Nat /\ T # {}
  OBVIOUS
<1> DEFINE m == Min(T)
<1>2. m \in T /\ \A n \in T : m <= n
  BY <1>1, LeastPlace
<1> HIDE DEF m
<1>3. m # 0 /\ m - 1 \in Nat /\ m - 1 < N /\ m - 1 \notin T
  BY <1>2
<1>4. m - 1 \in S
  BY <1>3
<1> QED BY <1>2, <1>3, <1>4

\* f begins with the base and takes a step at each number up to N.
Unrolls(f, N, base, step) == f = [n \in 0..N |-> IF n = 0 THEN base ELSE step[n][f[n - 1]]]

\* A loop of N rounds is well defined: it has a run.
LEMMA LoopsRun ==
    ASSUME NEW N \in Nat, NEW V, NEW base \in V, NEW step \in [1..N -> [V -> V]]
    PROVE  \E f \in [0..N -> V] : Unrolls(f, N, base, step)
<1> DEFINE Runs(f, k) == /\ f \in [0..k -> V] /\ f[0] = base
                         /\ \A n \in 1..k : f[n] = step[n][f[n - 1]]
           S == {k \in 0..N : \E f : Runs(f, k)}
<1>1. 0 \in S
  <2> DEFINE f == [n \in 0..0 |-> base]
  <2>1. Runs(f, 0)
    OBVIOUS
  <2> HIDE DEF Runs, f
  <2> QED BY <2>1
<1>2. ASSUME NEW k \in Nat, k < N, k \in S PROVE k + 1 \in S
  <2>1. PICK f : Runs(f, k)
    BY <1>2
  <2> DEFINE g == [n \in 0..(k + 1) |-> IF n <= k THEN f[n] ELSE step[k + 1][f[k]]]
  <2>2. f[k] \in V /\ step[k + 1] \in [V -> V]
    BY <1>2, <2>1
  <2>3. step[k + 1][f[k]] \in V
    BY <2>2
  <2>4. g \in [0..(k + 1) -> V] /\ g[0] = base
    BY <2>1, <2>3
  <2>5. ASSUME NEW n \in 1..(k + 1) PROVE g[n] = step[n][g[n - 1]]
    <3>1. CASE n = k + 1
      BY <3>1
    <3>2. CASE n # k + 1
      <4>1. n \in 1..k /\ n - 1 \in 0..k
        BY <3>2
      <4>2. g[n] = f[n] /\ g[n - 1] = f[n - 1]
        BY <4>1
      <4> HIDE DEF g
      <4> QED BY <2>1, <4>1, <4>2
    <3> QED BY <3>1, <3>2
  <2>6. Runs(g, k + 1)
    BY <2>4, <2>5
  <2> HIDE DEF Runs, g
  <2> QED BY <1>2, <2>6
<1> HIDE DEF S
<1>3. N \in S
  <2>1. \A n \in 0..N : n \in S
    BY <1>1, <1>2, UpTo
  <2> QED BY <2>1
<1>4. PICK f : Runs(f, N)
  BY <1>3 DEF S
<1>5. f = [n \in 0..N |-> IF n = 0 THEN base ELSE step[n][f[n - 1]]]
  <2> DEFINE g == [n \in 0..N |-> IF n = 0 THEN base ELSE step[n][f[n - 1]]]
  <2>1. ASSUME NEW n \in 0..N PROVE f[n] = g[n]
    <3>1. CASE n = 0
      BY <1>4, <3>1
    <3>2. CASE n # 0
      <4>1. n \in 1..N
        BY <3>2
      <4> QED BY <1>4, <4>1
    <3> QED BY <3>1, <3>2
  <2>2. DOMAIN f = 0..N /\ DOMAIN g = 0..N /\ f = [n \in DOMAIN f |-> f[n]]
    BY <1>4
  <2> QED BY <2>1, <2>2
<1> QED BY <1>4, <1>5 DEF Unrolls

\* A sum, unfolded: what the first n elements add up to.
LEMMA TotalUnfolds ==
    ASSUME NEW s \in Seq(Nat)
    PROVE  \E sum \in [0..Len(s) -> Nat] :
              /\ sum[0] = 0 /\ Total(s) = sum[Len(s)]
              /\ \A n \in 1..Len(s) : sum[n] = sum[n - 1] + s[n]
<1> DEFINE N == Len(s)
           step == [n \in 1..N |-> [t \in Nat |-> t + s[n]]]
           Def(f) == [n \in 0..N |-> IF n = 0 THEN 0 ELSE f[n - 1] + s[n]]
<1>1. N \in Nat /\ 0 \in Nat /\ step \in [1..N -> [Nat -> Nat]]
  OBVIOUS
<1>2. PICK f \in [0..N -> Nat] : f = [n \in 0..N |-> IF n = 0 THEN 0 ELSE step[n][f[n - 1]]]
  <2> HIDE DEF N, step
  <2>1. \E f \in [0..N -> Nat] : Unrolls(f, N, 0, step)
    BY <1>1, LoopsRun
  <2> QED BY <2>1 DEF Unrolls
<1>3. f = Def(f)
  <2>1. f \in [0..N -> Nat]
    OBVIOUS
  <2>2. ASSUME NEW n \in 0..N, n # 0 PROVE step[n][f[n - 1]] = f[n - 1] + s[n]
    <3>1. n \in 1..N /\ n - 1 \in 0..N
      BY <1>1, <2>2
    <3>2. f[n - 1] \in Nat
      BY <2>1, <3>1
    <3> QED BY <3>1, <3>2
  <2> HIDE DEF step
  <2>3. f = [n \in 0..N |-> IF n = 0 THEN 0 ELSE step[n][f[n - 1]]]
    BY <1>2
  <2> HIDE DEF N
  <2>4. [n \in 0..N |-> IF n = 0 THEN 0 ELSE step[n][f[n - 1]]] = Def(f)
    BY <2>2
  <2> QED BY <2>3, <2>4
<1> DEFINE sum == CHOOSE g : g = Def(g)
<1>4. sum = Def(sum)
  <2> HIDE DEF Def
  <2> QED BY <1>3
<1>5. Total(s) = sum[N]
  BY DEF Total
<1> HIDE DEF sum
<1>6. \A n \in 0..N : sum[n] = IF n = 0 THEN 0 ELSE sum[n - 1] + s[n]
  <2>1. \A n \in 0..N : Def(sum)[n] = IF n = 0 THEN 0 ELSE sum[n - 1] + s[n]
    OBVIOUS
  <2> HIDE DEF Def
  <2> QED BY <1>4, <2>1
<1>7. sum = [n \in 0..N |-> sum[n]]
  <2>1. Def(sum) = [n \in 0..N |-> Def(sum)[n]]
    OBVIOUS
  <2> HIDE DEF Def
  <2> QED BY <1>4, <2>1
<1> HIDE DEF step, Def
<1>8. \A n \in 0..N : sum[n] \in Nat
  <2> DEFINE S == {n \in 0..N : sum[n] \in Nat}
  <2>1. 0 \in S
    BY <1>1, <1>6
  <2>2. ASSUME NEW n \in Nat, n < N, n \in S PROVE n + 1 \in S
    <3>1. n + 1 \in 1..N /\ n + 1 \in 0..N /\ s[n + 1] \in Nat /\ sum[n] \in Nat /\ (n + 1) - 1 = n
      BY <2>2
    <3>2. sum[n + 1] = sum[n] + s[n + 1]
      BY <1>6, <3>1
    <3> QED BY <3>1, <3>2
  <2> HIDE DEF S
  <2>3. \A n \in 0..N : n \in S
    BY <1>1, <2>1, <2>2, UpTo
  <2> QED BY <2>3 DEF S
<1>9. sum \in [0..N -> Nat]
  BY <1>7, <1>8
<1>10. sum[0] = 0 /\ \A n \in 1..N : sum[n] = sum[n - 1] + s[n]
  BY <1>1, <1>6
<1> QED BY <1>5, <1>9, <1>10

\* A sum is a number, of one element the element, and changes with an element
\* by what the element changes.
LEMMA TotalIsNumber == ASSUME NEW s \in Seq(Nat) PROVE Total(s) \in Nat
<1>1. PICK sum \in [0..Len(s) -> Nat] : Total(s) = sum[Len(s)]
  BY TotalUnfolds
<1>2. Len(s) \in 0..Len(s)
  OBVIOUS
<1> QED BY <1>1, <1>2

LEMMA TotalOfFew ==
    ASSUME NEW s \in Seq(Nat), Len(s) \in {0, 1}
    PROVE  Total(s) = IF Len(s) = 0 THEN 0 ELSE s[1]
<1>1. PICK sum \in [0..Len(s) -> Nat] :
              /\ sum[0] = 0 /\ Total(s) = sum[Len(s)]
              /\ \A n \in 1..Len(s) : sum[n] = sum[n - 1] + s[n]
  BY TotalUnfolds
<1>2. CASE Len(s) = 1
  <2>1. sum[1] = sum[1 - 1] + s[1] /\ s[1] \in Nat
    BY <1>1, <1>2
  <2> QED BY <1>1, <1>2, <2>1
<1> QED BY <1>1, <1>2

LEMMA TotalChanges ==
    ASSUME NEW s \in Seq(Nat), NEW t \in Seq(Nat), NEW i \in DOMAIN s, Len(t) = Len(s),
           \A j \in DOMAIN s : j # i => t[j] = s[j]
    PROVE  Total(t) = Total(s) - s[i] + t[i]
<1> DEFINE N == Len(s)
<1>1. PICK f \in [0..N -> Nat] :
              /\ f[0] = 0 /\ Total(s) = f[N] /\ \A n \in 1..N : f[n] = f[n - 1] + s[n]
  BY TotalUnfolds
<1>2. PICK g \in [0..N -> Nat] :
              /\ g[0] = 0 /\ Total(t) = g[N] /\ \A n \in 1..N : g[n] = g[n - 1] + t[n]
  <2>1. \E g \in [0..Len(t) -> Nat] :
              /\ g[0] = 0 /\ Total(t) = g[Len(t)] /\ \A n \in 1..Len(t) : g[n] = g[n - 1] + t[n]
    BY TotalUnfolds
  <2>2. Len(t) = N
    OBVIOUS
  <2> HIDE DEF N
  <2> QED BY ONLY <2>1, <2>2
<1>3. N \in Nat /\ DOMAIN s = 1..N /\ i \in 1..N /\ \A n \in 1..N : s[n] \in Nat /\ t[n] \in Nat
  OBVIOUS
<1> HIDE DEF N
<1> DEFINE S == {n \in 0..N : g[n] = IF n < i THEN f[n] ELSE f[n] - s[i] + t[i]}
<1>4. 0 \in S
  BY <1>1, <1>2, <1>3
<1>5. ASSUME NEW n \in Nat, n < N, n \in S PROVE n + 1 \in S
  <2>1. /\ n + 1 \in 1..N /\ n + 1 \in 0..N /\ n \in 0..N /\ (n + 1) - 1 = n
        /\ s[n + 1] \in Nat /\ t[n + 1] \in Nat /\ s[i] \in Nat /\ t[i] \in Nat
    BY SMTT(30), <1>3, <1>5
  <2>2. f[n + 1] = f[n] + s[n + 1] /\ g[n + 1] = g[n] + t[n + 1] /\ f[n] \in Nat /\ g[n] \in Nat
    BY <1>1, <1>2, <2>1
  <2>3. n + 1 # i => t[n + 1] = s[n + 1]
    BY <1>3, <2>1
  <2>4. g[n] = IF n < i THEN f[n] ELSE f[n] - s[i] + t[i]
    BY <1>5
  <2>5. g[n + 1] = IF n + 1 < i THEN f[n + 1] ELSE f[n + 1] - s[i] + t[i]
    <3>1. CASE n + 1 = i
      <4>1. n < i /\ ~(n + 1 < i)
        BY <1>3, <3>1
      <4> QED BY <2>1, <2>2, <2>4, <3>1, <4>1
    <3>2. CASE n + 1 # i
      <4>1. n < i <=> n + 1 < i
        <5>1. i \in Nat /\ n \in Nat /\ n + 1 # i
          BY <1>3, <1>5, <3>2
        <5> QED BY ONLY <5>1
      <4>2. g[n + 1] = g[n] + s[n + 1]
        BY <2>2, <2>3, <3>2
      <4> DEFINE a == f[n]
                 b == g[n]
                 x == s[n + 1]
                 y == s[i]
                 z == t[i]
      <4>3. a \in Nat /\ b \in Nat /\ x \in Nat /\ y \in Nat /\ z \in Nat
        BY <2>1, <2>2
      <4>4. b = IF n < i THEN a ELSE a - y + z
        BY <2>4
      <4>5. g[n + 1] = b + x /\ f[n + 1] = a + x
        BY <2>2, <4>2
      <4> HIDE DEF a, b, x, y, z
      <4>6. b + x = IF n + 1 < i THEN a + x ELSE (a + x) - y + z
        BY ONLY <4>1, <4>3, <4>4
      <4>7. g[n + 1] = IF n + 1 < i THEN f[n + 1] ELSE f[n + 1] - y + z
        BY ONLY <4>5, <4>6
      <4> QED BY ONLY <4>7 DEF y, z
    <3> QED BY <3>1, <3>2
  <2> QED BY <2>1, <2>5
<1> HIDE DEF S
<1>6. N \in S
  <2>1. \A n \in 0..N : n \in S
    BY <1>3, <1>4, <1>5, UpTo
  <2> QED BY <1>3, <2>1
<1>7. g[N] = f[N] - s[i] + t[i]
  BY <1>3, <1>6 DEF S
<1> QED BY <1>1, <1>2, <1>7


\* The length a truncation leaves: 53 characters at least, and unless it is
\* those, what was too much is gone from the message.
LEMMA CutLength ==
    ASSUME NEW len \in Nat, len > Shortest, NEW excess \in Nat, excess > 0,
           NEW cut, cut = Truncated(len, Larger(24, HalfUp(len) - excess - 4))
    PROVE  /\ cut \in Nat
           /\ len = 53 => cut = 53
           /\ \/ cut = 53
              \/ \A role \in Nat : HalfUp(cut + role) + excess <= HalfUp(len + role)
<1> DEFINE half == HalfUp(len)
           tokens == Larger(24, half - excess - 4)
           target == Larger(Shortest, 2 * tokens)
           rest == target - Marker
           share == (rest * 65) \div 100
           head == Larger(6, share)
           tail == Larger(6, rest - head)
<1>1. len > 52 /\ half \in Nat /\ 2 * half >= len /\ 2 * half <= len + 1
  BY DEF HalfUp, Shortest, Marker
<1>2. cut = IF len <= target THEN len ELSE head + Marker + tail
  BY DEF Truncated
<1> HIDE DEF half
<1>3. tokens \in Nat /\ tokens >= 24 /\ (tokens = 24 \/ tokens = half - excess - 4)
  BY <1>1 DEF Larger
<1> HIDE DEF tokens
<1>4. target \in Nat /\ target >= 52 /\ (IF tokens <= 26 THEN target = 52 ELSE target = 2 * tokens)
  BY <1>3 DEF Larger, Shortest, Marker
<1> HIDE DEF target
<1>5. rest \in Nat /\ rest >= 12 /\ rest = target - 40
  BY <1>4 DEF Marker
<1>6. share \in Nat /\ 100 * share <= 65 * rest /\ 65 * rest < 100 * share + 100
  BY <1>5
<1> HIDE DEF rest, share
<1>7. share >= 7 /\ head = share
  BY <1>5, <1>6 DEF Larger
<1>8. tail \in Nat /\ (IF rest - share < 6 THEN tail = 6 ELSE tail = rest - share)
  BY <1>5, <1>6, <1>7 DEF Larger
<1> HIDE DEF head, tail
<1>9. len > target
  <2>1. CASE tokens = 24
    BY <1>1, <1>4, <2>1
  <2>2. CASE tokens = half - excess - 4
    BY <1>1, <1>3, <1>4, <2>2
  <2> QED BY <1>3, <2>1, <2>2
<1>10. cut = share + 40 + tail /\ cut \in Nat
  BY <1>2, <1>4, <1>6, <1>7, <1>8, <1>9 DEF Marker
<1>11. rest = 12 => cut = 53
  <2>1. rest = 12 => share = 7
    BY <1>6
  <2> QED BY <1>8, <1>10, <2>1
<1>12. cut <= target + 1
  BY <1>4, <1>5, <1>6, <1>7, <1>8, <1>10
<1>13. len = 53 => tokens = 24
  BY <1>1, <1>3
<1>14. CASE tokens <= 26
  <2>1. rest = 12
    BY <1>4, <1>5, <1>14
  <2> QED BY <1>10, <1>11, <2>1
<1>15. CASE tokens > 26
  <2>1. tokens = half - excess - 4 /\ target = 2 * tokens
    BY <1>3, <1>4, <1>15
  <2>2. cut + 2 * excess <= len
    BY <1>1, <1>4, <1>10, <1>12, <2>1
  <2>3. ASSUME NEW role \in Nat PROVE HalfUp(cut + role) + excess <= HalfUp(len + role)
    BY <1>10, <2>2 DEF HalfUp
  <2> QED BY <1>10, <1>13, <1>15, <2>3
<1> QED BY <1>3, <1>14, <1>15

LEMMA RolesAreCounted ==
    ASSUME NEW m \in Message
    PROVE  RoleChars(m) \in Nat /\ TokensOf(m) \in Nat
<1>1. m.kind \in MessageKinds /\ m.len \in Nat
  BY DEF Message
<1>2. RoleChars(m) \in Nat
  BY DEF RoleChars
<1>3. HalfUp(m.len + RoleChars(m)) \in Nat
  BY <1>1, <1>2 DEF HalfUp
<1> QED BY <1>2, <1>3 DEF TokensOf

Counts(messages) == [i \in DOMAIN messages |-> TokensOf(messages[i])]

LEMMA TokensAreNumbers ==
    ASSUME NEW messages \in Seq(Message)
    PROVE  /\ Counts(messages) \in Seq(Nat) /\ Len(Counts(messages)) = Len(messages)
           /\ DOMAIN Counts(messages) = DOMAIN messages
           /\ Tokens(messages) = Total(Counts(messages)) /\ Tokens(messages) \in Nat
<1> DEFINE n == Len(messages)
<1>1. n \in Nat /\ DOMAIN messages = 1..n /\ \A i \in 1..n : messages[i] \in Message
  OBVIOUS
<1>2. Counts(messages) \in [1..n -> Nat]
  BY <1>1, RolesAreCounted DEF Counts
<1>3. Counts(messages) \in Seq(Nat) /\ Len(Counts(messages)) = n /\ DOMAIN Counts(messages) = 1..n
  BY <1>1, <1>2, ListsAreFunctions
<1>4. Tokens(messages) = Total(Counts(messages))
  BY DEF Tokens, Counts
<1> QED BY <1>1, <1>3, <1>4, TotalIsNumber

LEMMA TokensOfFew ==
    ASSUME NEW messages \in Seq(Message), Len(messages) \in {0, 1}
    PROVE  Tokens(messages) = IF Len(messages) = 0 THEN 0 ELSE TokensOf(messages[1])
<1>1. /\ Counts(messages) \in Seq(Nat) /\ Len(Counts(messages)) = Len(messages)
      /\ Tokens(messages) = Total(Counts(messages))
  BY TokensAreNumbers
<1>2. Total(Counts(messages)) = IF Len(messages) = 0 THEN 0 ELSE Counts(messages)[1]
  BY <1>1, TotalOfFew
<1>3. Len(messages) = 1 => Counts(messages)[1] = TokensOf(messages[1])
  BY DEF Counts
<1> QED BY <1>1, <1>2, <1>3

\* Of the messages whose content can be cut, one is longest.
Long(messages) == {i \in DOMAIN messages : messages[i].len > Shortest}
IsLongest(messages, i) ==
    \A j \in Long(messages) :
        \/ messages[j].len < messages[i].len
        \/ messages[j].len = messages[i].len /\ j <= i

LEMMA LongestIs ==
    ASSUME NEW messages \in Seq(Message), Long(messages) # {}
    PROVE  \E i \in Long(messages) : IsLongest(messages, i)
<1> DEFINE T == Long(messages)
           n == Cardinality(T)
           ahead == {p \in T \X T : \/ messages[p[1]].len < messages[p[2]].len
                                    \/ messages[p[1]].len = messages[p[2]].len /\ p[1] < p[2]}
<1>1. DOMAIN messages = 1..Len(messages) /\ Len(messages) \in Nat
  OBVIOUS
<1>2. T \subseteq DOMAIN messages
  BY DEF Long
<1>3. \A i \in T : i \in Nat /\ messages[i].len \in Nat
  <2>1. \A i \in DOMAIN messages : messages[i] \in Message
    OBVIOUS
  <2> QED BY <1>1, <1>2, <2>1 DEF Message
<1>4. IsFiniteSet(T)
  <2> DEFINE N == Len(messages)
  <2>1. N \in Nat /\ T \subseteq 1..N
    BY <1>1, <1>2
  <2> HIDE DEF N, T
  <2>2. IsFiniteSet(1..N)
    BY <2>1, FS_Interval
  <2> QED BY <2>1, <2>2, FS_Subset
<1>5. \A i, j \in T : <<i, j>> \in ahead <=> \/ messages[i].len < messages[j].len
                                             \/ messages[i].len = messages[j].len /\ i < j
  OBVIOUS
<1>6. T # {}
  OBVIOUS
<1> HIDE DEF ahead, T
<1>7. /\ \A x \in T : <<x, x>> \notin ahead
      /\ \A x, y, z \in T : <<x, y>> \in ahead /\ <<y, z>> \in ahead => <<x, z>> \in ahead
      /\ \A x, y \in T : x = y \/ <<x, y>> \in ahead \/ <<y, x>> \in ahead
  BY <1>3, <1>5
<1>8. /\ n \in Nat
      /\ InOrder(T, ahead) \in [1..n -> T]
      /\ \A x \in T : \E k \in 1..n : InOrder(T, ahead)[k] = x
      /\ \A j, k \in 1..n : j < k => <<InOrder(T, ahead)[j], InOrder(T, ahead)[k]>> \in ahead
  BY <1>4, <1>7, OrderIsKept
<1> DEFINE e == InOrder(T, ahead)
<1>9. n \in 1..n
  BY <1>6, <1>8
<1>10. e[n] \in T
  BY <1>8, <1>9
<1>11. ASSUME NEW j \in T PROVE j = e[n] \/ <<j, e[n]>> \in ahead
  <2>1. PICK k \in 1..n : e[k] = j
    BY <1>8
  <2>2. k = n \/ k < n
    BY <1>8
  <2> QED BY <1>8, <1>9, <2>1, <2>2
<1> HIDE DEF e, n
<1>12. \A j \in T : \/ messages[j].len < messages[e[n]].len
                    \/ messages[j].len = messages[e[n]].len /\ j <= e[n]
  <2> SUFFICES ASSUME NEW j \in T
               PROVE  \/ messages[j].len < messages[e[n]].len
                      \/ messages[j].len = messages[e[n]].len /\ j <= e[n]
    OBVIOUS
  <2>1. CASE j = e[n]
    BY <1>3, <1>10, <2>1
  <2>2. CASE <<j, e[n]>> \in ahead
    BY <1>3, <1>5, <1>10, <2>2
  <2> QED BY <1>11, <2>1, <2>2
<1> QED BY <1>10, <1>12 DEF IsLongest, T


\* The messages whose content is longer than the shortest a round leaves.
Over(messages) == {i \in DOMAIN messages : messages[i].len > 53}

SameKinds(given, messages) ==
    /\ given \in Seq(Message) /\ Len(given) = Len(messages)
    /\ \A i \in 1..Len(messages) : given[i].kind = messages[i].kind

\* The content of one message is cut.
WithCut(messages, i, cut) == [messages EXCEPT ![i].len = cut]

LEMMA OneIsCut ==
    ASSUME NEW messages \in Seq(Message), NEW i \in DOMAIN messages, NEW cut \in Nat,
           NEW given, given = WithCut(messages, i, cut)
    PROVE  /\ SameKinds(given, messages)
           /\ given[i].len = cut /\ \A j \in DOMAIN messages : j # i => given[j] = messages[j]
           /\ Tokens(given) = Tokens(messages) - HalfUp(messages[i].len + RoleChars(messages[i]))
                                               + HalfUp(cut + RoleChars(messages[i]))
<1> DEFINE n == Len(messages)
           short == [messages[i] EXCEPT !.len = cut]
<1>1. /\ n \in Nat /\ DOMAIN messages = 1..n /\ i \in 1..n
      /\ messages[i] \in Message /\ \A j \in 1..n : messages[j] \in Message
  OBVIOUS
<1>2. short \in Message /\ short.len = cut /\ short.kind = messages[i].kind
  BY <1>1 DEF Message
<1>3. given = [messages EXCEPT ![i] = short]
  BY DEF WithCut
<1> HIDE DEF short
<1>4. /\ given \in [1..n -> Message] /\ given[i] = short
      /\ \A j \in 1..n : j # i => given[j] = messages[j]
  BY <1>1, <1>2, <1>3
<1>5. given \in Seq(Message) /\ Len(given) = n /\ DOMAIN given = 1..n
  BY <1>1, <1>4, ListsAreFunctions
<1>6. SameKinds(given, messages)
  <2>1. \A j \in 1..n : given[j].kind = messages[j].kind
    BY <1>2, <1>4
  <2> QED BY <1>5, <2>1 DEF SameKinds
<1>7. RoleChars(short) = RoleChars(messages[i])
  BY <1>2 DEF RoleChars
<1>8. Tokens(given) = Tokens(messages) - TokensOf(messages[i]) + TokensOf(short)
  <2> DEFINE s == Counts(messages)
             t == Counts(given)
  <2>1. /\ s \in Seq(Nat) /\ t \in Seq(Nat) /\ Len(t) = Len(s) /\ DOMAIN s = 1..n
        /\ Tokens(given) = Total(t) /\ Tokens(messages) = Total(s)
    BY <1>1, <1>5, TokensAreNumbers
  <2>2. /\ s[i] = TokensOf(messages[i]) /\ t[i] = TokensOf(short)
        /\ \A j \in DOMAIN s : j # i => t[j] = s[j]
    BY <1>1, <1>4, <1>5 DEF Counts
  <2> HIDE DEF s, t
  <2>3. i \in DOMAIN s
    BY <1>1, <2>1
  <2>4. Total(t) = Total(s) - s[i] + t[i]
    BY <2>1, <2>2, <2>3, TotalChanges
  <2> QED BY <2>1, <2>2, <2>4
<1>9. /\ Tokens(messages) \in Nat
      /\ HalfUp(messages[i].len + RoleChars(messages[i])) \in Nat
      /\ HalfUp(cut + RoleChars(messages[i])) \in Nat
  <2>1. RoleChars(messages[i]) \in Nat /\ messages[i].len \in Nat
    BY <1>1, RolesAreCounted DEF Message
  <2>2. Tokens(messages) \in Nat
    BY TokensAreNumbers
  <2> QED BY <2>1, <2>2 DEF HalfUp
<1>10. /\ TokensOf(messages[i]) = HalfUp(messages[i].len + RoleChars(messages[i])) + 3
       /\ TokensOf(short) = HalfUp(cut + RoleChars(messages[i])) + 3
  BY <1>2, <1>7 DEF TokensOf
<1>11. Tokens(given) = Tokens(messages) - HalfUp(messages[i].len + RoleChars(messages[i]))
                                        + HalfUp(cut + RoleChars(messages[i]))
  BY <1>8, <1>9, <1>10
<1> QED BY <1>1, <1>2, <1>4, <1>6, <1>11

\* A round makes the messages fit, or cuts one to the shortest, or has none to cut.
LEMMA ShortenStep ==
    ASSUME NEW messages \in Seq(Message), NEW budget \in Nat,
           NEW given, given = Shorten(messages, budget)
    PROVE  /\ SameKinds(given, messages)
           /\ Tokens(messages) <= budget => given = messages
           /\ \/ Tokens(given) <= budget
              \/ Over(given) = {}
              \/ \E i \in Over(messages) : Over(given) = Over(messages) \ {i}
<1> DEFINE excess == Tokens(messages) - budget
           long == Long(messages)
           longest == CHOOSE i \in long : IsLongest(messages, i)
           cut == Truncated(messages[longest].len,
                            Larger(24, HalfUp(messages[longest].len) - excess - 4))
<1>1. given = IF excess <= 0 \/ long = {} THEN messages ELSE [messages EXCEPT ![longest].len = cut]
  BY DEF Shorten, Long, IsLongest
<1>2. Tokens(messages) \in Nat /\ excess \in Int
  BY TokensAreNumbers
<1>3. DOMAIN messages = 1..Len(messages) /\ \A i \in DOMAIN messages : messages[i] \in Message
  OBVIOUS
<1>4. CASE excess <= 0 \/ long = {}
  <2>1. given = messages
    BY <1>1, <1>4
  <2>2. SameKinds(given, messages)
    BY <2>1 DEF SameKinds
  <2>3. CASE excess <= 0
    BY <1>2, <2>1, <2>2, <2>3
  <2>4. CASE long = {}
    <3>1. \A i \in DOMAIN messages : ~(messages[i].len > 52)
      BY <2>4 DEF Long, Shortest, Marker
    <3>2. Over(messages) = {}
      BY <1>3, <3>1 DEF Over, Message
    <3> QED BY <2>1, <2>2, <3>2
  <2> QED BY <1>4, <2>3, <2>4
<1>5. CASE excess > 0 /\ long # {}
  <2>1. longest \in long /\ IsLongest(messages, longest)
    <3>1. \E i \in long : IsLongest(messages, i)
      BY <1>5, LongestIs
    <3> QED BY <3>1
  <2>2. given = [messages EXCEPT ![longest].len = cut]
    BY <1>1, <1>2, <1>5
  <2> HIDE DEF longest
  <2> DEFINE len == messages[longest].len
             role == RoleChars(messages[longest])
  <2>3. longest \in DOMAIN messages /\ len \in Nat /\ len > Shortest /\ role \in Nat
    BY <1>3, <2>1, RolesAreCounted DEF Long, Message
  <2>4. excess \in Nat /\ excess > 0
    BY <1>2, <1>5
  <2> HIDE DEF excess, long
  <2>5. /\ cut \in Nat
        /\ len = 53 => cut = 53
        /\ \/ cut = 53
           \/ \A r \in Nat : HalfUp(cut + r) + excess <= HalfUp(len + r)
    BY <2>3, <2>4, CutLength
  <2> HIDE DEF cut
  <2>6. /\ SameKinds(given, messages)
        /\ given[longest].len = cut /\ \A j \in DOMAIN messages : j # longest => given[j] = messages[j]
        /\ Tokens(given) = Tokens(messages) - HalfUp(len + role) + HalfUp(cut + role)
    <3>1. /\ SameKinds(given, messages)
          /\ given[longest].len = cut /\ \A j \in DOMAIN messages : j # longest => given[j] = messages[j]
          /\ Tokens(given) = Tokens(messages)
                               - HalfUp(messages[longest].len + RoleChars(messages[longest]))
                               + HalfUp(cut + RoleChars(messages[longest]))
      <4>1. longest \in DOMAIN messages /\ cut \in Nat
        BY <2>3, <2>5
      <4>2. given = WithCut(messages, longest, cut)
        BY <2>2 DEF WithCut
      <4> QED BY ONLY messages \in Seq(Message), <4>1, <4>2, OneIsCut
    <3> QED BY <3>1
  <2>7. ~(Tokens(messages) <= budget)
    BY <1>2, <2>4 DEF excess
  <2>8. CASE cut # 53
    <3>1. HalfUp(cut + role) + excess <= HalfUp(len + role)
      BY <2>3, <2>5, <2>8
    <3>2. HalfUp(cut + role) \in Nat /\ HalfUp(len + role) \in Nat
      <4>1. len \in Nat /\ role \in Nat /\ cut \in Nat
        BY <2>3, <2>5
      <4> HIDE DEF len, role
      <4> QED BY ONLY <4>1 DEF HalfUp
    <3> HIDE DEF len, role
    <3>3. Tokens(given) <= budget
      BY <1>2, <2>6, <3>1, <3>2 DEF excess
    <3> QED BY <2>6, <2>7, <3>3
  <2>9. CASE cut = 53
    <3>1. DOMAIN given = DOMAIN messages
      BY <2>6 DEF SameKinds
    <3>2. Over(given) = Over(messages) \ {longest}
      BY <2>3, <2>6, <2>9, <3>1 DEF Over
    <3>3. CASE len > 53
      <4>1. longest \in Over(messages)
        BY <2>3, <3>3 DEF Over
      <4> QED BY <2>6, <2>7, <3>2, <4>1
    <3>4. CASE ~(len > 53)
      <4>1. ASSUME NEW j \in Over(messages) PROVE FALSE
        <5>1. j \in DOMAIN messages /\ messages[j].len > 53 /\ messages[j].len \in Nat
          BY <1>3, <4>1 DEF Over, Message
        <5>2. j \in Long(messages)
          BY <5>1 DEF Long, Shortest, Marker
        <5>3. messages[j].len <= len
          BY <2>1, <2>3, <5>1, <5>2 DEF IsLongest
        <5> QED BY <2>3, <3>4, <5>1, <5>3
      <4>2. Over(given) = {}
        BY <3>2, <4>1
      <4> QED BY <2>6, <2>7, <4>2
    <3> QED BY <3>3, <3>4
  <2> QED BY <2>8, <2>9
<1> QED BY <1>2, <1>4, <1>5

LEMMA FittedUnfolds ==
    ASSUME NEW messages \in Seq(Message), NEW budget \in Nat
    PROVE  LET N == Larger(1, 3 * Len(messages))
           IN \E round \in [0..N -> Seq(Message)] :
                 /\ round[0] = messages /\ Fitted(messages, budget) = round[N]
                 /\ \A n \in 1..N : round[n] = Shorten(round[n - 1], budget)
<1> DEFINE N == Larger(1, 3 * Len(messages))
           V == Seq(Message)
           step == [n \in 1..N |-> [t \in V |-> Shorten(t, budget)]]
           Def(f) == [n \in 0..N |-> IF n = 0 THEN messages ELSE Shorten(f[n - 1], budget)]
<1>1. N \in Nat
  BY DEF Larger
<1>2. \A t \in V : Shorten(t, budget) \in V
  BY ShortenStep DEF SameKinds
<1>3. messages \in V /\ step \in [1..N -> [V -> V]]
  BY <1>2
<1>4. Fitted(messages, budget) = (CHOOSE f : f = Def(f))[N]
  BY DEF Fitted
<1> HIDE DEF N, V
<1>5. PICK f \in [0..N -> V] : f = [n \in 0..N |-> IF n = 0 THEN messages ELSE step[n][f[n - 1]]]
  <2> HIDE DEF step
  <2>1. \E f \in [0..N -> V] : Unrolls(f, N, messages, step)
    BY <1>1, <1>3, LoopsRun
  <2> QED BY <2>1 DEF Unrolls
<1>6. f = Def(f)
  <2>1. f \in [0..N -> V]
    OBVIOUS
  <2>2. ASSUME NEW n \in 0..N, n # 0 PROVE step[n][f[n - 1]] = Shorten(f[n - 1], budget)
    <3>1. n \in 1..N /\ n - 1 \in 0..N
      BY <1>1, <2>2
    <3>2. f[n - 1] \in V
      BY <2>1, <3>1
    <3> QED BY <3>1, <3>2
  <2> HIDE DEF step
  <2>3. f = [n \in 0..N |-> IF n = 0 THEN messages ELSE step[n][f[n - 1]]]
    BY <1>5
  <2>4. [n \in 0..N |-> IF n = 0 THEN messages ELSE step[n][f[n - 1]]] = Def(f)
    BY <2>2
  <2> QED BY <2>3, <2>4
<1> DEFINE round == CHOOSE g : g = Def(g)
<1>7. round = Def(round)
  <2> HIDE DEF Def
  <2> QED BY <1>6
<1>8. Fitted(messages, budget) = round[N]
  BY <1>4
<1> HIDE DEF round
<1>9. \A n \in 0..N : round[n] = IF n = 0 THEN messages ELSE Shorten(round[n - 1], budget)
  <2>1. \A n \in 0..N : Def(round)[n] = IF n = 0 THEN messages ELSE Shorten(round[n - 1], budget)
    OBVIOUS
  <2> HIDE DEF Def
  <2> QED BY <1>7, <2>1
<1>10. round = [n \in 0..N |-> round[n]]
  <2>1. Def(round) = [n \in 0..N |-> Def(round)[n]]
    OBVIOUS
  <2> HIDE DEF Def
  <2> QED BY <1>7, <2>1
<1> HIDE DEF step, Def
<1>11. \A n \in 0..N : round[n] \in V
  <2> DEFINE S == {n \in 0..N : round[n] \in V}
  <2>1. 0 \in S
    BY <1>1, <1>3, <1>9
  <2>2. ASSUME NEW n \in Nat, n < N, n \in S PROVE n + 1 \in S
    <3>1. n + 1 \in 0..N /\ n + 1 # 0 /\ round[n] \in V /\ (n + 1) - 1 = n
      BY <1>1, <2>2
    <3>2. round[n + 1] = Shorten(round[n], budget)
      BY <1>9, <3>1
    <3> QED BY <1>2, <3>1, <3>2
  <2> HIDE DEF S
  <2>3. \A n \in 0..N : n \in S
    BY <1>1, <2>1, <2>2, UpTo
  <2> QED BY <2>3 DEF S
<1>12. round \in [0..N -> V]
  BY <1>10, <1>11
<1>13. round[0] = messages /\ \A n \in 1..N : round[n] = Shorten(round[n - 1], budget)
  BY <1>1, <1>9
<1> QED BY <1>8, <1>12, <1>13 DEF N, V


LEMMA OverIsFinite ==
    ASSUME NEW messages \in Seq(Message)
    PROVE  /\ IsFiniteSet(Over(messages)) /\ Cardinality(Over(messages)) \in Nat
           /\ Cardinality(Over(messages)) <= Len(messages)
<1> DEFINE n == Len(messages)
           A == Over(messages)
<1>1. n \in Nat /\ A \subseteq 1..n
  BY DEF Over
<1> HIDE DEF n, A
<1>2. IsFiniteSet(1..n) /\ Cardinality(1..n) = n
  BY <1>1, FS_Interval
<1>3. IsFiniteSet(A) /\ Cardinality(A) <= n /\ Cardinality(A) \in Nat
  BY <1>1, <1>2, FS_Subset, FS_CardinalityType
<1> QED BY <1>3 DEF n, A

\* The rounds are enough: what does not fit then cannot be cut any more.
LEMMA FittedIsDone ==
    ASSUME NEW messages \in Seq(Message), NEW budget \in Nat,
           NEW given, given = Fitted(messages, budget)
    PROVE  /\ SameKinds(given, messages)
           /\ Tokens(given) <= budget \/ Over(given) = {}
<1> DEFINE N == Larger(1, 3 * Len(messages))
           L == Len(messages)
<1>1. PICK round \in [0..N -> Seq(Message)] :
              /\ round[0] = messages /\ Fitted(messages, budget) = round[N]
              /\ \A n \in 1..N : round[n] = Shorten(round[n - 1], budget)
  BY FittedUnfolds
<1>2. N \in Nat /\ L \in Nat /\ N >= L
  BY DEF Larger
<1> HIDE DEF N
<1> DEFINE Good(m, n) == /\ SameKinds(m, messages)
                         /\ \/ Tokens(m) <= budget
                            \/ Over(m) = {}
                            \/ Cardinality(Over(m)) + n <= L
           S == {n \in 0..N : Good(round[n], n)}
<1>3. 0 \in S
  <2>1. SameKinds(messages, messages)
    BY DEF SameKinds
  <2>2. Cardinality(Over(messages)) \in Nat /\ Cardinality(Over(messages)) <= L
    BY OverIsFinite
  <2>3. Good(messages, 0)
    BY <2>1, <2>2
  <2> HIDE DEF Good
  <2> QED BY <1>1, <1>2, <2>3
<1>4. ASSUME NEW n \in Nat, n < N, n \in S PROVE n + 1 \in S
  <2> DEFINE m == round[n]
             g == round[n + 1]
  <2>1. n + 1 \in 1..N /\ n + 1 \in 0..N /\ n \in 0..N /\ (n + 1) - 1 = n
    BY <1>2, <1>4
  <2>2. m \in Seq(Message) /\ g = Shorten(m, budget) /\ Good(m, n)
    BY <1>1, <1>4, <2>1
  <2> HIDE DEF m, g
  <2>3. /\ SameKinds(g, m)
        /\ Tokens(m) <= budget => g = m
        /\ \/ Tokens(g) <= budget
           \/ Over(g) = {}
           \/ \E i \in Over(m) : Over(g) = Over(m) \ {i}
    BY <2>2, ShortenStep
  <2>4. SameKinds(g, messages)
    BY <2>2, <2>3 DEF SameKinds
  <2>5. ASSUME Tokens(m) <= budget PROVE Good(g, n + 1)
    BY <2>2, <2>3, <2>4, <2>5
  <2>6. ASSUME Tokens(g) <= budget \/ Over(g) = {} PROVE Good(g, n + 1)
    BY <2>4, <2>6
  <2>7. ASSUME ~(Tokens(m) <= budget), \E i \in Over(m) : Over(g) = Over(m) \ {i}
        PROVE  Good(g, n + 1)
    <3>1. PICK i \in Over(m) : Over(g) = Over(m) \ {i}
      BY <2>7
    <3>2. Cardinality(Over(m)) + n <= L
      BY <2>2, <2>7, <3>1
    <3>3. IsFiniteSet(Over(m)) /\ Cardinality(Over(m)) \in Nat
      BY <2>2, OverIsFinite
    <3>4. Cardinality(Over(g)) = Cardinality(Over(m)) - 1
      BY <3>1, <3>3, FS_RemoveElement
    <3>5. Cardinality(Over(g)) + (n + 1) <= L
      BY <1>2, <3>2, <3>3, <3>4
    <3> QED BY <2>4, <3>5
  <2>8. Good(g, n + 1)
    BY <2>3, <2>5, <2>6, <2>7
  <2> HIDE DEF Good
  <2> QED BY <2>1, <2>8 DEF g
<1> HIDE DEF S
<1>5. N \in S
  <2>1. \A n \in 0..N : n \in S
    BY <1>2, <1>3, <1>4, UpTo
  <2> QED BY <1>2, <2>1
<1>6. Good(given, N)
  BY <1>1, <1>5 DEF S
<1>7. CASE Cardinality(Over(given)) + N <= L
  <2>1. given \in Seq(Message)
    BY <1>6 DEF SameKinds
  <2>2. IsFiniteSet(Over(given)) /\ Cardinality(Over(given)) \in Nat
    BY <2>1, OverIsFinite
  <2> HIDE DEF L
  <2>3. Cardinality(Over(given)) = 0
    BY <1>2, <1>7, <2>2
  <2>4. Over(given) = {}
    BY <2>2, <2>3, FS_EmptySet
  <2> QED BY <1>6, <2>4
<1> QED BY <1>6, <1>7

-----------------------------------------------------------------------------
(* The context: what is kept of a conversation.                             *)

LEMMA PromptsAndDialogue ==
    ASSUME NEW messages \in Seq(Message)
    PROVE  /\ SystemsOf(messages) \in Seq(Message) /\ DialogueOf(messages) \in Seq(Message)
           /\ Len(SystemsOf(messages)) = Cardinality({i \in DOMAIN messages : messages[i].kind = "system"})
           /\ Len(DialogueOf(messages)) = Cardinality({i \in DOMAIN messages : messages[i].kind # "system"})
           /\ \A k \in DOMAIN SystemsOf(messages) : SystemsOf(messages)[k].kind = "system"
           /\ \A k \in DOMAIN DialogueOf(messages) : DialogueOf(messages)[k].kind # "system"
<1>1. ASSUME NEW P \in SUBSET (DOMAIN messages)
      PROVE  /\ Keep(messages, P) \in Seq(Message) /\ Len(Keep(messages, P)) = Cardinality(P)
             /\ \A k \in DOMAIN Keep(messages, P) : \E i \in P : Keep(messages, P)[k] = messages[i]
  <2>1. /\ P \in SUBSET Nat /\ IsFiniteSet(P)
        /\ Keep(messages, P) \in Seq(Message) /\ Len(Keep(messages, P)) = Cardinality(P)
        /\ DOMAIN Keep(messages, P) = 1..Cardinality(P)
        /\ \A k \in 1..Cardinality(P) : Keep(messages, P)[k] = messages[Ascending(P)[k]]
    BY KeepIsPlaced
  <2>2. Ascending(P) \in [1..Cardinality(P) -> P]
    BY <2>1, PlacesAscend
  <2>3. \A k \in 1..Cardinality(P) : Ascending(P)[k] \in P
    BY <2>2
  <2> QED BY <2>1, <2>3
<1> DEFINE A == {i \in DOMAIN messages : messages[i].kind = "system"}
           B == {i \in DOMAIN messages : messages[i].kind # "system"}
<1>2. A \in SUBSET (DOMAIN messages) /\ \A i \in A : messages[i].kind = "system"
  OBVIOUS
<1>3. B \in SUBSET (DOMAIN messages) /\ \A i \in B : messages[i].kind # "system"
  OBVIOUS
<1>4. SystemsOf(messages) = Keep(messages, A) /\ DialogueOf(messages) = Keep(messages, B)
  BY DEF SystemsOf, DialogueOf
<1> HIDE DEF A, B
<1>5. /\ Keep(messages, A) \in Seq(Message) /\ Len(Keep(messages, A)) = Cardinality(A)
      /\ \A k \in DOMAIN Keep(messages, A) : \E i \in A : Keep(messages, A)[k] = messages[i]
  BY <1>1, <1>2
<1>6. /\ Keep(messages, B) \in Seq(Message) /\ Len(Keep(messages, B)) = Cardinality(B)
      /\ \A k \in DOMAIN Keep(messages, B) : \E i \in B : Keep(messages, B)[k] = messages[i]
  BY <1>1, <1>3
<1>7. \A k \in DOMAIN Keep(messages, A) : Keep(messages, A)[k].kind = "system"
  BY <1>2, <1>5
<1>8. \A k \in DOMAIN Keep(messages, B) : Keep(messages, B)[k].kind # "system"
  BY <1>3, <1>6
<1>9. /\ SystemsOf(messages) \in Seq(Message) /\ DialogueOf(messages) \in Seq(Message)
      /\ Len(SystemsOf(messages)) = Cardinality(A) /\ Len(DialogueOf(messages)) = Cardinality(B)
      /\ \A k \in DOMAIN SystemsOf(messages) : SystemsOf(messages)[k].kind = "system"
      /\ \A k \in DOMAIN DialogueOf(messages) : DialogueOf(messages)[k].kind # "system"
  BY <1>4, <1>5, <1>6, <1>7, <1>8
<1> QED BY <1>9 DEF A, B

LEMMA TurnsAreCounted ==
    ASSUME source \in Seq(Message)
    PROVE  /\ Turns \in Nat /\ FirstKept \in Nat /\ FirstKept >= 1
           /\ FirstKept <= Turns \/ (Turns = 0 /\ FirstKept = 1)
           /\ \A t \in 1..Turns : StartOf(t) \in DOMAIN Dialogue
<1> DEFINE n == Len(Dialogue)
           T == TurnStarts
<1>1. n \in Nat /\ DOMAIN Dialogue = 1..n
  BY PromptsAndDialogue DEF Dialogue
<1>2. T \subseteq 1..n
  BY <1>1 DEF TurnStarts
<1> HIDE DEF n, T
<1>3. IsFiniteSet(T) /\ T \in SUBSET Nat
  <2>1. IsFiniteSet(1..n)
    BY <1>1, FS_Interval
  <2>2. T \in SUBSET (1..n) /\ T \in SUBSET Nat
    BY <1>1, <1>2
  <2> QED BY <2>1, <2>2, FS_Subset
<1>4. /\ Cardinality(T) \in Nat /\ Ascending(T) \in [1..Cardinality(T) -> T]
  BY <1>3, PlacesAscend
<1>5. Turns = Cardinality(T) /\ \A t : StartOf(t) = Ascending(T)[t]
  BY DEF Turns, StartOf, T
<1>6. \A t \in 1..Turns : StartOf(t) \in DOMAIN Dialogue
  BY <1>1, <1>2, <1>4, <1>5
<1> DEFINE recent == Larger(1, Turns - RecentTurns + 1)..Turns
           kept == {t \in recent : \A u \in t..Turns : TurnFits(u)}
<1>7. RecentTurns \in Nat /\ RecentTurns > 0
  BY ContextAssumption DEF ContextAssumption
<1>8. kept \in SUBSET Nat /\ \A t \in kept : t >= 1 /\ t <= Turns
  BY <1>4, <1>5, <1>7 DEF Larger
<1>9. FirstKept = IF kept = {} THEN Larger(1, Turns) ELSE Min(kept)
  BY DEF FirstKept
<1> HIDE DEF kept
<1>10. FirstKept \in Nat /\ FirstKept >= 1 /\ (FirstKept <= Turns \/ (Turns = 0 /\ FirstKept = 1))
  <2>1. CASE kept = {}
    BY <1>4, <1>5, <1>9, <2>1 DEF Larger
  <2>2. CASE kept # {}
    <3>1. Min(kept) \in kept
      BY <1>8, <2>2, LeastPlace
    <3> QED BY <1>8, <1>9, <2>2, <3>1
  <2> QED BY <2>1, <2>2
<1> QED BY <1>4, <1>5, <1>6, <1>10

LEMMA DialogueIsParted ==
    ASSUME source \in Seq(Message)
    PROVE  /\ TurnsFrom(FirstKept) \in Seq(Message) /\ TurnsBefore(FirstKept) \in Seq(Message)
           /\ Len(TurnsFrom(FirstKept)) + Len(TurnsBefore(FirstKept)) = Len(Dialogue)
           /\ \A k \in DOMAIN TurnsFrom(FirstKept) : TurnsFrom(FirstKept)[k].kind # "system"
<1> DEFINE d == Dialogue
           t == FirstKept
           a == StartOf(t)
<1>1. d \in Seq(Message) /\ \A k \in DOMAIN d : d[k].kind # "system"
  BY PromptsAndDialogue DEF Dialogue
<1>2. /\ Turns \in Nat /\ t \in Nat /\ t >= 1
      /\ \A u \in 1..Turns : StartOf(u) \in DOMAIN d
  BY TurnsAreCounted
<1>3. /\ TurnsFrom(t) = IF t > Turns THEN <<>> ELSE SubSeq(d, a, Len(d))
      /\ TurnsBefore(t) = IF t > Turns THEN d ELSE SubSeq(d, 1, a - 1)
  BY DEF TurnsFrom, TurnsBefore
<1> HIDE DEF d, t, a
<1>4. CASE t > Turns
  BY <1>1, <1>3, <1>4 DEF d, t
<1>5. CASE ~(t > Turns)
  <2>1. a \in DOMAIN d /\ a \in 1..Len(d) /\ Len(d) \in Nat
    <3>1. t \in 1..Turns
      BY <1>2, <1>5
    <3> QED BY <1>1, <1>2, <3>1 DEF a
  <2> DEFINE u == SubSeq(d, a, Len(d))
             v == SubSeq(d, 1, a - 1)
  <2>2. /\ u \in Seq(Message) /\ Len(u) = Len(d) - a + 1
        /\ \A k \in DOMAIN u : k + a - 1 \in DOMAIN d /\ u[k] = d[k + a - 1]
    BY <1>1, <2>1
  <2>3. v \in Seq(Message) /\ Len(v) = a - 1
    BY <1>1, <2>1
  <2>4. TurnsFrom(t) = u /\ TurnsBefore(t) = v
    BY <1>3, <1>5
  <2> HIDE DEF u, v
  <2> QED BY <1>1, <2>1, <2>2, <2>3, <2>4 DEF d, t
<1> QED BY <1>4, <1>5


\* The memory of older turns is one message, or none.
LEMMA MemoryIsOne ==
    ASSUME NEW omitted \in Seq(Message)
    PROVE  /\ MemoryOf(omitted) \in Seq(Message) /\ Len(MemoryOf(omitted)) \in {0, 1}
           /\ \A k \in DOMAIN MemoryOf(omitted) : MemoryOf(omitted)[k].kind = "system"
<1> DEFINE P == {i \in DOMAIN omitted : omitted[i].kind \in {"human", "ai"} /\ omitted[i].len > 0}
           told == Keep(omitted, P)
           line(m) == 1 + (IF m.kind = "human" THEN 8 ELSE 13) + Smaller(360, m.len)
           lines == [i \in DOMAIN told |-> line(told[i])]
           sum == Total(lines)
           m == [kind |-> "system", len |-> 54 + sum]
<1>1. MemoryOf(omitted) = IF told = <<>> THEN <<>> ELSE <<m>>
  BY DEF MemoryOf
<1>2. told \in Seq(Message)
  <2>1. P \in SUBSET (DOMAIN omitted)
    OBVIOUS
  <2> HIDE DEF P
  <2> QED BY <2>1, KeepIsPlaced
<1> HIDE DEF told
<1>3. lines \in Seq(Nat)
  <2> DEFINE n == Len(told)
  <2>1. n \in Nat /\ DOMAIN told = 1..n /\ \A i \in 1..n : told[i] \in Message
    BY <1>2
  <2>2. ASSUME NEW i \in 1..n PROVE line(told[i]) \in Nat
    <3>1. told[i].len \in Nat
      BY <2>1 DEF Message
    <3>2. Smaller(360, told[i].len) \in Nat
      BY <3>1 DEF Smaller
    <3> QED BY <3>2
  <2> HIDE DEF line
  <2>3. lines \in [1..n -> Nat]
    BY <2>1, <2>2
  <2> HIDE DEF lines, n
  <2> QED BY <2>1, <2>3, ListsAreFunctions
<1> HIDE DEF lines
<1>4. sum \in Nat
  BY <1>3, TotalIsNumber
<1> HIDE DEF sum
<1>5. m \in Message /\ m.kind = "system"
  BY <1>4 DEF Message, MessageKinds
<1> HIDE DEF m
<1>6. <<m>> \in Seq(Message) /\ Len(<<m>>) = 1 /\ \A k \in DOMAIN <<m>> : <<m>>[k] = m
  BY <1>5
<1>7. <<>> \in Seq(Message) /\ Len(<<>>) = 0 /\ DOMAIN <<>> = {}
  OBVIOUS
<1>8. CASE told = <<>>
  <2>1. MemoryOf(omitted) = <<>>
    BY <1>1, <1>8
  <2> QED BY <1>7, <2>1
<1>9. CASE told # <<>>
  <2>1. MemoryOf(omitted) = <<m>>
    BY <1>1, <1>9
  <2> QED BY <1>5, <1>6, <2>1
<1> QED BY <1>8, <1>9

LEMMA RoomIsNumber == SummaryTokens \in Nat /\ Budget \in Nat
<1>1. Budget \in Nat /\ SummaryLimit \in Nat
  BY ContextAssumption DEF ContextAssumption
<1>2. Budget \div 2 \in Nat
  BY <1>1
<1> QED BY <1>1, <1>2 DEF SummaryTokens, Smaller

\* The ends of two lists agree.
LEMMA EndsAgree ==
    ASSUME NEW X, NEW a \in Seq(X), NEW b \in Seq(X), Len(a) <= Len(b),
           \A k \in 1..Len(a) : a[k] = b[k + (Len(b) - Len(a))]
    PROVE  IsSuffix(a, b)
<1> DEFINE m == Len(a)
           n == Len(b)
           p == Reverse(a)
           q == Reverse(b)
<1>1. m \in Nat /\ n \in Nat /\ m <= n
  OBVIOUS
<1>2. /\ p = [k \in 1..m |-> a[(m - k) + 1]] /\ q = [k \in 1..n |-> b[(n - k) + 1]]
      /\ \A k \in 1..m : a[k] \in X /\ a[k] = b[k + (n - m)]
      /\ \A k \in 1..n : b[k] \in X
  BY DEF Reverse
<1> HIDE DEF m, n
<1>3. p \in [1..m -> X] /\ q \in [1..n -> X]
  <2>1. \A k \in 1..m : (m - k) + 1 \in 1..m
    BY <1>1
  <2>2. \A k \in 1..n : (n - k) + 1 \in 1..n
    BY <1>1
  <2> QED BY <1>2, <2>1, <2>2
<1>4. p \in Seq(X) /\ Len(p) = m /\ q \in Seq(X) /\ Len(q) = n
  BY <1>1, <1>3, ListsAreFunctions
<1>5. \A k \in 1..m : p[k] = q[k]
  <2> SUFFICES ASSUME NEW k \in 1..m PROVE p[k] = q[k]
    OBVIOUS
  <2>1. (m - k) + 1 \in 1..m /\ k \in 1..n /\ ((m - k) + 1) + (n - m) = (n - k) + 1
    BY <1>1
  <2>2. p[k] = a[(m - k) + 1] /\ q[k] = b[(n - k) + 1]
    BY <1>2, <2>1
  <2>3. a[(m - k) + 1] = b[((m - k) + 1) + (n - m)]
    BY <1>2, <2>1
  <2> QED BY <2>1, <2>2, <2>3
<1> HIDE DEF p, q
<1>6. SubSeq(p, 1, m) = SubSeq(q, 1, m)
  BY <1>1, <1>4, <1>5
<1> QED BY <1>1, <1>4, <1>6 DEF IsSuffix, IsPrefix, p, q

\* What a conversation that does not fit becomes.
LEMMA CompactKeeps ==
    ASSUME source \in Seq(Message), NEW compact, compact = Compact
    PROVE  /\ compact \in Prepared /\ compact.status \in {"compacted", "refused"}
           /\ compact.from = FirstKept
           /\ compact.status = "compacted" => Tokens(compact.messages) <= Budget
           /\ Over(compact.messages) = {} \/ Tokens(compact.messages) <= Budget
           /\ compact.status = "refused" => compact.squeezed \/ Tokens(compact.messages) > Budget
           /\ compact.squeezed =>
                 \/ Budget - Tokens(Systems) - Tokens(TurnsFrom(FirstKept)) \in 13..32
                 \/ SummaryTokens < 33
           /\ IsSuffix(Shape(TurnsFrom(FirstKept)), Shape(compact.messages))
           /\ Len(SystemsOf(compact.messages)) >= Len(Systems)
           /\ compact.compacted = Len(Dialogue) - Len(DialogueOf(compact.messages))
<1> DEFINE kept == TurnsFrom(FirstKept)
           omitted == TurnsBefore(FirstKept)
           left == Larger(0, Budget - Tokens(Systems) - Tokens(kept))
           room == Smaller(SummaryTokens, left)
           memory == IF omitted # <<>> /\ left > 12 THEN Fitted(MemoryOf(omitted), room) ELSE <<>>
           whole == Systems \o memory \o kept
           result == Fitted(whole, Budget)
           squeezed == Tokens(memory) > room
<1>1. compact = [status |-> IF squeezed \/ Tokens(result) > Budget THEN "refused" ELSE "compacted",
                 messages |-> result, from |-> FirstKept, compacted |-> Len(omitted),
                 squeezed |-> squeezed]
  BY DEF Compact
<1>2. /\ kept \in Seq(Message) /\ omitted \in Seq(Message)
      /\ Len(kept) + Len(omitted) = Len(Dialogue)
      /\ \A k \in DOMAIN kept : kept[k].kind # "system"
  BY DialogueIsParted
<1>3. /\ Systems \in Seq(Message) /\ Dialogue \in Seq(Message)
      /\ \A k \in DOMAIN Systems : Systems[k].kind = "system"
  BY PromptsAndDialogue DEF Systems, Dialogue
<1>4. Budget \in Nat /\ SummaryTokens \in Nat /\ FirstKept \in Nat
  BY RoomIsNumber, TurnsAreCounted
<1> HIDE DEF kept, omitted
<1>5. /\ left \in Nat /\ room \in Nat /\ room <= SummaryTokens /\ room <= left
      /\ room = SummaryTokens \/ room = left
      /\ left > 0 => left = Budget - Tokens(Systems) - Tokens(kept)
  <2>1. Tokens(Systems) \in Nat /\ Tokens(kept) \in Nat
    BY <1>2, <1>3, TokensAreNumbers
  <2>2. left \in Nat /\ (left > 0 => left = Budget - Tokens(Systems) - Tokens(kept))
    BY <1>4, <2>1 DEF Larger
  <2> HIDE DEF left
  <2> QED BY <1>4, <2>2 DEF Smaller
<1> HIDE DEF left, room
<1>6. /\ memory \in Seq(Message) /\ Len(memory) \in {0, 1}
      /\ \A k \in DOMAIN memory : memory[k].kind = "system"
      /\ Tokens(memory) <= room \/ (left > 12 /\ Over(memory) = {})
  <2>1. CASE omitted # <<>> /\ left > 12
    <3> DEFINE one == MemoryOf(omitted)
    <3>1. /\ one \in Seq(Message) /\ Len(one) \in {0, 1}
          /\ \A k \in DOMAIN one : one[k].kind = "system"
      BY <1>2, MemoryIsOne
    <3> HIDE DEF one
    <3>2. memory = Fitted(one, room)
      BY <2>1 DEF one
    <3>3. SameKinds(memory, one) /\ (Tokens(memory) <= room \/ Over(memory) = {})
      BY <1>5, <3>1, <3>2, FittedIsDone
    <3> HIDE DEF memory
    <3> QED BY <2>1, <3>1, <3>3 DEF SameKinds
  <2>2. CASE ~(omitted # <<>> /\ left > 12)
    <3>1. memory = <<>>
      BY <2>2
    <3> HIDE DEF memory
    <3>2. memory \in Seq(Message) /\ Len(memory) = 0 /\ DOMAIN memory = {}
      BY <3>1
    <3>3. Tokens(memory) = 0
      BY <3>2, TokensOfFew
    <3> QED BY <1>5, <3>2, <3>3
  <2> QED BY <2>1, <2>2
<1> HIDE DEF memory
<1>7. squeezed => left > 12 /\ room < 33
  <2> SUFFICES ASSUME squeezed PROVE left > 12 /\ room < 33
    OBVIOUS
  <2>1. Tokens(memory) \in Nat
    BY <1>6, TokensAreNumbers
  <2>2. left > 12 /\ Over(memory) = {}
    BY <1>5, <1>6, <2>1
  <2>0. /\ memory \in Seq(Message) /\ Len(memory) \in {0, 1}
        /\ \A k \in DOMAIN memory : memory[k].kind = "system"
        /\ Tokens(memory) = IF Len(memory) = 0 THEN 0 ELSE TokensOf(memory[1])
    <3>1. memory \in Seq(Message) /\ Len(memory) \in {0, 1}
      BY <1>6
    <3> QED BY <1>6, <3>1, TokensOfFew
  <2>3. Tokens(memory) <= 33
    <3>1. CASE Len(memory) = 0
      BY <2>0, <3>1
    <3>2. CASE Len(memory) = 1
      <4> DEFINE m == memory[1]
      <4>1. 1 \in DOMAIN memory /\ m \in Message /\ m.kind = "system" /\ m.len \in Nat
        <5>1. \A i \in 1..Len(memory) : memory[i] \in Message
          BY <2>0
        <5>2. 1 \in 1..Len(memory) /\ 1 \in DOMAIN memory
          BY <2>0, <3>2
        <5>3. m \in Message /\ m.kind = "system"
          BY <2>0, <5>1, <5>2
        <5> HIDE DEF m
        <5> QED BY <5>2, <5>3 DEF Message
      <4>2. ~(m.len > 53)
        BY <2>2, <4>1 DEF Over
      <4>3. RoleChars(m) = 6
        BY <4>1 DEF RoleChars
      <4>4. Tokens(memory) = TokensOf(m)
        BY <2>0, <3>2
      <4> HIDE DEF m
      <4>5. HalfUp(m.len + 6) <= 30
        BY <4>1, <4>2 DEF HalfUp
      <4>6. HalfUp(m.len + 6) \in Nat
        BY <4>1 DEF HalfUp
      <4> QED BY <4>3, <4>4, <4>5, <4>6 DEF TokensOf
    <3> QED BY <2>0, <3>1, <3>2
  <2> QED BY <1>5, <2>1, <2>2, <2>3
<1>8. squeezed => \/ Budget - Tokens(Systems) - Tokens(kept) \in 13..32
                  \/ SummaryTokens < 33
  <2>1. CASE room = SummaryTokens
    BY <1>7, <2>1
  <2>2. CASE room = left
    <3> SUFFICES ASSUME squeezed PROVE Budget - Tokens(Systems) - Tokens(kept) \in 13..32
      OBVIOUS
    <3>1. left > 12 /\ left < 33 /\ left \in Nat
      BY <1>5, <1>7, <2>2
    <3>2. left \in 13..32
      BY <3>1
    <3> QED BY SMTT(30), <1>5, <3>1, <3>2
  <2> QED BY <1>5, <2>1, <2>2
<1> DEFINE s == Len(Systems) + Len(memory)
           k0 == Len(kept)
<1>9. /\ whole \in Seq(Message) /\ Len(whole) = s + k0 /\ s \in Nat /\ k0 \in Nat /\ s >= Len(Systems)
      /\ \A i \in 1..s : whole[i].kind = "system"
      /\ \A i \in 1..k0 : whole[s + i] = kept[i]
  <2> DEFINE u == Systems
             v == memory
             uv == u \o v
  <2>1. /\ u \in Seq(Message) /\ v \in Seq(Message) /\ Len(u) \in Nat /\ Len(v) \in Nat
        /\ \A i \in 1..Len(u) : u[i].kind = "system"
        /\ \A i \in 1..Len(v) : v[i].kind = "system"
    BY <1>3, <1>6
  <2> HIDE DEF u, v
  <2>2. uv \in Seq(Message) /\ Len(uv) = Len(u) + Len(v)
    BY <2>1
  <2>3. \A i \in 1..(Len(u) + Len(v)) : uv[i] = IF i <= Len(u) THEN u[i] ELSE v[i - Len(u)]
    BY <2>1
  <2>4. \A i \in 1..(Len(u) + Len(v)) : uv[i].kind = "system"
    <3> SUFFICES ASSUME NEW i \in 1..(Len(u) + Len(v)) PROVE uv[i].kind = "system"
      OBVIOUS
    <3> HIDE DEF uv
    <3>1. CASE i <= Len(u)
      BY <2>1, <2>3, <3>1
    <3>2. CASE ~(i <= Len(u))
      <4>1. i - Len(u) \in 1..Len(v)
        BY <2>1, <3>2
      <4> QED BY <2>1, <2>3, <3>2, <4>1
    <3> QED BY <3>1, <3>2
  <2> HIDE DEF uv
  <2>5. whole = uv \o kept /\ s = Len(u) + Len(v)
    BY DEF u, v, uv
  <2>6. /\ uv \o kept \in Seq(Message) /\ Len(uv \o kept) = Len(uv) + Len(kept)
        /\ \A i \in 1..Len(uv) : (uv \o kept)[i] = uv[i]
        /\ \A i \in 1..Len(kept) : (uv \o kept)[Len(uv) + i] = kept[i]
    <3> DEFINE p == uv
               q == kept
    <3>1. p \in Seq(Message) /\ q \in Seq(Message)
      BY <1>2, <2>2
    <3> HIDE DEF p, q
    <3>2. /\ p \o q \in Seq(Message) /\ Len(p \o q) = Len(p) + Len(q)
          /\ \A i \in 1..Len(p) : (p \o q)[i] = p[i]
          /\ \A i \in 1..Len(q) : (p \o q)[Len(p) + i] = q[i]
      BY <3>1
    <3> QED BY <3>2 DEF p, q
  <2> HIDE DEF whole, s
  <2>7. k0 \in Nat /\ Len(uv) = s
    BY <1>2, <2>2, <2>5
  <2>8. s \in Nat /\ s >= Len(Systems)
    BY <2>1, <2>5 DEF u
  <2> QED BY <2>2, <2>4, <2>5, <2>6, <2>7, <2>8
<1> HIDE DEF whole, s
<1>10. SameKinds(result, whole) /\ (Tokens(result) <= Budget \/ Over(result) = {})
  BY <1>4, <1>9, FittedIsDone
<1> HIDE DEF result
<1>11. /\ result \in Seq(Message) /\ Len(result) = s + k0 /\ DOMAIN result = 1..(s + k0)
       /\ \A i \in 1..(s + k0) : result[i].kind = whole[i].kind
  BY <1>9, <1>10 DEF SameKinds
<1>12. /\ \A i \in 1..s : result[i].kind = "system"
       /\ \A i \in 1..k0 : s + i \in DOMAIN result /\ result[s + i].kind = kept[i].kind
       /\ \A i \in (s + 1)..(s + k0) : result[i].kind # "system"
  <2>1. \A i \in 1..s : i \in 1..(s + k0)
    BY <1>9
  <2>2. \A i \in 1..k0 : s + i \in 1..(s + k0)
    BY <1>9
  <2>3. ASSUME NEW i \in (s + 1)..(s + k0) PROVE result[i].kind # "system"
    <3>1. i - s \in 1..k0 /\ s + (i - s) = i /\ i \in 1..(s + k0)
      BY <1>9
    <3>2. whole[i] = kept[i - s] /\ i - s \in DOMAIN kept
      BY <1>2, <1>9, <3>1
    <3> QED BY <1>2, <1>11, <3>1, <3>2
  <2> QED BY <1>9, <1>11, <2>1, <2>2, <2>3
<1>13. IsSuffix(Shape(kept), Shape(result))
  <2> DEFINE a == Shape(kept)
             b == Shape(result)
  <2>1. /\ a \in [1..k0 -> MessageKinds] /\ \A i \in 1..k0 : a[i] = kept[i].kind
    <3>1. \A i \in 1..k0 : kept[i].kind \in MessageKinds /\ DOMAIN kept = 1..k0
      <4>1. DOMAIN kept = 1..k0 /\ \A i \in 1..k0 : kept[i] \in Message
        BY <1>2
      <4> QED BY ONLY <4>1 DEF Message
    <3> QED BY <1>2, <3>1 DEF Shape
  <2>2. /\ b \in [1..(s + k0) -> MessageKinds] /\ \A i \in 1..(s + k0) : b[i] = result[i].kind
    <3>1. \A i \in 1..(s + k0) : result[i].kind \in MessageKinds
      <4>1. \A i \in 1..(s + k0) : result[i] \in Message
        BY <1>11
      <4> QED BY ONLY <4>1 DEF Message
    <3> QED BY <1>11, <3>1 DEF Shape
  <2> HIDE DEF a, b, k0
  <2>3. a \in Seq(MessageKinds) /\ Len(a) = k0
    BY <1>9, <2>1, ListsAreFunctions
  <2>4. b \in Seq(MessageKinds) /\ Len(b) = s + k0
    BY <1>9, <2>2, ListsAreFunctions
  <2>5. ASSUME NEW i \in 1..Len(a) PROVE a[i] = b[i + (Len(b) - Len(a))]
    <3>1. i \in 1..k0 /\ i + (Len(b) - Len(a)) = s + i /\ s + i \in 1..(s + k0)
      BY <1>9, <2>3, <2>4
    <3> QED BY <1>12, <2>1, <2>2, <3>1
  <2>6. Len(a) <= Len(b)
    BY <1>9, <2>3, <2>4
  <2> QED BY <2>3, <2>4, <2>5, <2>6, EndsAgree DEF a, b
<1>14. Len(SystemsOf(result)) >= Len(Systems)
  <2> DEFINE A == {i \in DOMAIN result : result[i].kind = "system"}
             n == Len(Systems)
             N == s + k0
  <2>1. n \in Nat /\ N \in Nat /\ 1..n \subseteq A /\ A \subseteq 1..N
    <3>1. n \in Nat
      BY <1>3
    <3> HIDE DEF n
    <3>2. n <= s
      BY <1>9 DEF n
    <3> QED BY <1>9, <1>11, <1>12, <3>1, <3>2
  <2>2. Len(SystemsOf(result)) = Cardinality(A)
    BY <1>11, PromptsAndDialogue
  <2> HIDE DEF A, n, N
  <2>3. IsFiniteSet(1..N) /\ Cardinality(1..n) = n
    BY <2>1, FS_Interval
  <2>4. IsFiniteSet(A) /\ Cardinality(1..n) <= Cardinality(A)
    BY <2>1, <2>3, FS_Subset
  <2> QED BY <2>1, <2>2, <2>3, <2>4, FS_CardinalityType DEF n
<1>15. Len(omitted) = Len(Dialogue) - Len(DialogueOf(result))
  <2> DEFINE B == {i \in DOMAIN result : result[i].kind # "system"}
             a == s + 1
             b == s + k0
  <2>1. B = a..b
    <3>1. ASSUME NEW i \in B PROVE i \in a..b
      <4>1. i \in 1..(s + k0) /\ i \notin 1..s
        BY <1>11, <1>12, <3>1
      <4> QED BY <1>9, <4>1
    <3>2. ASSUME NEW i \in a..b PROVE i \in B
      <4>1. i \in 1..(s + k0)
        BY <1>9
      <4> QED BY <1>11, <1>12, <4>1
    <3> QED BY <3>1, <3>2
  <2>2. Len(DialogueOf(result)) = Cardinality(B)
    BY <1>11, PromptsAndDialogue
  <2> HIDE DEF B
  <2>3. Cardinality(a..b) = IF a > b THEN 0 ELSE b - a + 1
    <3>1. a \in Int /\ b \in Int
      BY <1>9
    <3> HIDE DEF a, b
    <3> QED BY <3>1, FS_Interval
  <2>4. Cardinality(B) = k0
    BY <1>9, <2>1, <2>3
  <2>5. Len(kept) \in Nat /\ Len(omitted) \in Nat
    BY <1>2
  <2> QED BY <1>2, <2>2, <2>4, <2>5
<1>16. Tokens(result) \in Nat
  BY <1>11, TokensAreNumbers
<1>17. Len(omitted) \in Nat
  BY <1>2
<1> HIDE DEF squeezed, k0
<1>18. squeezed \in BOOLEAN
  BY DEF squeezed
<1>19. /\ compact.messages = result /\ compact.from = FirstKept /\ compact.compacted = Len(omitted)
       /\ compact.squeezed = squeezed
       /\ compact.status = IF squeezed \/ Tokens(result) > Budget THEN "refused" ELSE "compacted"
  BY <1>1
<1>20. compact \in Prepared
  BY <1>1, <1>4, <1>11, <1>17, <1>18 DEF Prepared
<1>21. /\ compact.status \in {"compacted", "refused"}
       /\ compact.status = "compacted" => Tokens(compact.messages) <= Budget
       /\ compact.status = "refused" => compact.squeezed \/ Tokens(compact.messages) > Budget
  BY <1>4, <1>16, <1>19
<1> QED BY <1>8, <1>10, <1>13, <1>14, <1>15, <1>19, <1>20, <1>21 DEF kept


\* What prepare makes of the messages.
Answered == IF Tokens(source) <= Budget
            THEN [NotPrepared EXCEPT !.status = "full", !.messages = source, !.from = 1]
            ELSE Compact

LEMMA AnswerStays == ASSUME source' = source PROVE Answered' = Answered
<1>1. Systems' = Systems /\ Dialogue' = Dialogue
  BY DEF Systems, Dialogue
<1>2. TurnStarts' = TurnStarts
  BY <1>1 DEF TurnStarts
<1>3. Turns' = Turns
  BY <1>2 DEF Turns
<1>4. FirstKept' = FirstKept
  <2>1. \A t : TurnFits(t)' = TurnFits(t)
    BY <1>1, <1>2, <1>3 DEF TurnFits, UsedAfter, ReserveAt, TurnsFrom, StartOf
  <2> QED BY <1>3, <2>1 DEF FirstKept
<1>5. Compact' = Compact
  BY <1>1, <1>2, <1>3, <1>4 DEF Compact, TurnsFrom, TurnsBefore, StartOf
<1> QED BY <1>5 DEF Answered

ContextInv == source \in Seq(Message) /\ (prepared = NotPrepared \/ prepared = Answered)

LEMMA AnswersAreSound == ASSUME ContextInv PROVE ContextTypeOK /\ ContextIsSound
<1>1. source \in Seq(Message) /\ Budget \in Nat
  BY RoomIsNumber DEF ContextInv
<1>2. Tokens(source) \in Nat
  BY <1>1, TokensAreNumbers
<1>3. CASE prepared = NotPrepared
  BY <1>1, <1>3 DEF NotPrepared, ContextTypeOK, Prepared, ContextIsSound, HandedOutFits, RefusedWhenFull
<1>4. CASE prepared = Answered /\ Tokens(source) <= Budget
  <2>1. /\ prepared.status = "full" /\ prepared.messages = source /\ prepared.compacted = 0
        /\ prepared \in Prepared
    BY <1>1, <1>4 DEF Answered, NotPrepared, Prepared
  <2>2. /\ Len(SystemsOf(source)) \in Nat /\ Len(DialogueOf(source)) \in Nat
    BY <1>1, PromptsAndDialogue
  <2>3. HandedOutFits
    <3>1. Len(SystemsOf(source)) >= Len(SystemsOf(source))
      BY <2>2
    <3>2. 0 = Len(DialogueOf(source)) - Len(DialogueOf(source))
      BY <2>2
    <3> QED BY <1>4, <2>1, <3>1, <3>2 DEF HandedOutFits, Systems, Dialogue
  <2>4. RefusedWhenFull
    BY <2>1 DEF RefusedWhenFull
  <2> QED BY <1>1, <2>1, <2>3, <2>4 DEF ContextTypeOK, ContextIsSound
<1>5. CASE prepared = Answered /\ ~(Tokens(source) <= Budget)
  <2>1. prepared = Compact
    BY <1>5 DEF Answered
  <2>2. /\ prepared \in Prepared /\ prepared.status \in {"compacted", "refused"}
        /\ prepared.from = FirstKept
        /\ prepared.status = "compacted" => Tokens(prepared.messages) <= Budget
        /\ Over(prepared.messages) = {} \/ Tokens(prepared.messages) <= Budget
        /\ prepared.status = "refused" => prepared.squeezed \/ Tokens(prepared.messages) > Budget
        /\ prepared.squeezed =>
              \/ Budget - Tokens(Systems) - Tokens(TurnsFrom(FirstKept)) \in 13..32
              \/ SummaryTokens < 33
        /\ IsSuffix(Shape(TurnsFrom(FirstKept)), Shape(prepared.messages))
        /\ Len(SystemsOf(prepared.messages)) >= Len(Systems)
        /\ prepared.compacted = Len(Dialogue) - Len(DialogueOf(prepared.messages))
    BY <1>1, <2>1, CompactKeeps
  <2>3. Smaller(prepared.from, Larger(1, Turns)) = FirstKept
    BY <1>1, <2>2, TurnsAreCounted DEF Smaller, Larger
  <2>4. HandedOutFits
    <3>1. prepared.status = "compacted" => Tokens(prepared.messages) <= Budget
      BY <2>2
    <3>2. prepared.status # "full"
      BY <2>2
    <3>3. IsSuffix(Shape(TurnsFrom(Smaller(prepared.from, Larger(1, Turns)))), Shape(prepared.messages))
      BY <2>2, <2>3
    <3> QED BY <2>2, <3>1, <3>2, <3>3 DEF HandedOutFits
  <2>5. RefusedWhenFull
    <3> SUFFICES ASSUME prepared.status = "refused"
                 PROVE  \/ prepared.squeezed /\ Budget - Tokens(Systems) - Tokens(TurnsFrom(prepared.from)) \in 13..32
                        \/ SummaryTokens < 33
                        \/ Tokens([i \in DOMAIN prepared.messages |->
                              [prepared.messages[i] EXCEPT !.len = Smaller(@, Shortest + 1)]]) > Budget
      BY DEF RefusedWhenFull
    <3>1. CASE prepared.squeezed
      BY <2>2, <3>1
    <3>2. CASE ~prepared.squeezed
      <4> DEFINE m == prepared.messages
                 cut == [i \in DOMAIN m |-> [m[i] EXCEPT !.len = Smaller(@, Shortest + 1)]]
      <4>1. m \in Seq(Message) /\ Tokens(m) \in Nat
        <5>1. m \in Seq(Message)
          BY <2>2 DEF Prepared
        <5> QED BY <5>1, TokensAreNumbers
      <4>2. Tokens(m) > Budget
        BY <2>2, <3>2
      <4>3. Over(m) = {}
        BY <1>1, <2>2, <4>1, <4>2
      <4> HIDE DEF m
      <4>4. ASSUME NEW i \in DOMAIN m PROVE [m[i] EXCEPT !.len = Smaller(@, Shortest + 1)] = m[i]
        <5>1. m[i] \in Message /\ m[i].len \in Nat /\ ~(m[i].len > 53)
          <6>1. m[i] \in Message
            BY <4>1
          <6> QED BY <4>3, <6>1 DEF Over, Message
        <5>2. Smaller(m[i].len, Shortest + 1) = m[i].len
          BY <5>1 DEF Smaller, Shortest, Marker
        <5> QED BY <5>1, <5>2 DEF Message
      <4>5. m = [i \in DOMAIN m |-> m[i]]
        BY <4>1
      <4>6. cut = m
        BY <4>4, <4>5
      <4> QED BY <4>2, <4>6 DEF m
    <3> QED BY <3>1, <3>2
  <2> QED BY <1>1, <2>2, <2>4, <2>5 DEF ContextTypeOK, ContextIsSound
<1> QED BY <1>3, <1>4, <1>5 DEF ContextInv

\* What a model is given fits its budget, keeps every system prompt and ends with
\* whole turns, and a conversation is refused only when it does not fit cut to the
\* shortest, or for want of room for the memory (RefusedWhenFull); for any messages,
\* budget, summary limit and number of recent turns (ContextHarness.prepare,
\* server/agent/context_harness.py).
THEOREM ContextIsSoundHolds == ContextSpec => [](ContextTypeOK /\ ContextIsSound)
<1>1. ContextInit => ContextInv
  <2> SUFFICES ASSUME ContextInit PROVE ContextInv
    OBVIOUS
  <2>1. PICK l \in Lengths : source = <<[kind |-> "system", len |-> l]>>
    BY DEF ContextInit
  <2>2. l \in Nat
    BY ContextAssumption DEF ContextAssumption
  <2>3. source \in Seq(Message)
    BY <2>1, <2>2 DEF Message, MessageKinds
  <2> QED BY <2>3 DEF ContextInit, ContextInv
<1>2. ContextInv /\ [ContextNext]_contextVars => ContextInv'
  <2> SUFFICES ASSUME ContextInv, [ContextNext]_contextVars PROVE ContextInv'
    OBVIOUS
  <2>1. ASSUME NEW kind \in MessageKinds, NEW len \in Lengths, Say(kind, len) PROVE ContextInv'
    <3>1. len \in Nat
      BY ContextAssumption DEF ContextAssumption
    <3>2. source' = Append(source, [kind |-> kind, len |-> len]) /\ prepared' = NotPrepared
      BY <2>1 DEF Say
    <3>3. [kind |-> kind, len |-> len] \in Message
      BY <3>1 DEF Message
    <3>4. source' \in Seq(Message)
      BY <3>2, <3>3 DEF ContextInv
    <3>5. prepared' = NotPrepared
      BY <3>2
    <3> QED BY <3>4, <3>5 DEF ContextInv, Message, NotPrepared
  <2>2. CASE PrepareMessages
    <3>1. source' = source /\ prepared' = Answered
      BY <2>2 DEF PrepareMessages, Answered
    <3>2. Answered' = Answered
      BY <3>1, AnswerStays
    <3> QED BY <3>1, <3>2 DEF ContextInv, Message
  <2>3. CASE UNCHANGED contextVars
    <3>1. source' = source /\ prepared' = prepared
      BY <2>3 DEF contextVars
    <3>2. Answered' = Answered
      BY <3>1, AnswerStays
    <3> QED BY <3>1, <3>2 DEF ContextInv, NotPrepared
  <2> QED BY <2>1, <2>2, <2>3 DEF ContextNext
<1>3. ContextInv => ContextTypeOK /\ ContextIsSound
  BY AnswersAreSound
<1> QED BY <1>1, <1>2, <1>3, PTL DEF ContextSpec
=============================================================================
