------------------------- MODULE Collections_proofs -------------------------
(***************************************************************************)
(* Facts about lists and sums that the proofs of the contract rest on.     *)
(* Both are defined by recursion, and each fact is proved by looking at a  *)
(* smallest counterexample: the induction principles for numbers and for   *)
(* finite sets are stated as "a set with an element has a smallest one",   *)
(* of a set of numbers or of subsets.                                      *)
(***************************************************************************)
EXTENDS Lists, SequencesExt, TLAPS, FiniteSetTheorems, WellFoundedInduction

---------------------------------------------------------------------------
(* Smallest counterexamples *)

\* A set of numbers has a least one.
LEMMA LeastNumber ==
    ASSUME NEW B \in SUBSET Nat, B # {}
    PROVE  \E n \in B : \A m \in B : n <= m
<1>1. PICK n \in B : \A m \in B : ~ (<<m, n>> \in OpToRel(<, Nat))
  BY NatLessThanWellFounded, WFMin, Zenon
<1>2. \A m \in B : ~(m < n)
  BY <1>1 DEF OpToRel
<1> QED
  BY <1>2

\* A set of subsets of a finite set has a minimal one.
LEMMA MinimalSubset ==
    ASSUME NEW S, IsFiniteSet(S), NEW B, \A T \in B : T \subseteq S, B # {}
    PROVE  \E T \in B : \A U \in B : U \subseteq T => U = T
<1>1. IsWellFoundedOn(StrictSubsetOrdering(S), SUBSET S)
  BY FS_StrictSubsetOrderingWellFounded, FS_FiniteSubsetsOfFinite
<1>2. B \subseteq SUBSET S
  OBVIOUS
<1>3. PICK T \in B : \A U \in B : ~ (<<U, T>> \in StrictSubsetOrdering(S))
  BY <1>1, <1>2, WFMin, Zenon
<1> QED
  BY <1>2, <1>3 DEF StrictSubsetOrdering

---------------------------------------------------------------------------
(* Lists *)

\* kept is the list of what a scan of s has kept after 0, 1, .., n elements.
Scan(s, e, kept, n) ==
    kept = [i \in 0 .. n |->
               IF i = 0 THEN <<>>
               ELSE IF s[i] = e THEN kept[i - 1] ELSE Append(kept[i - 1], s[i])]

LEMMA ScanExists ==
    ASSUME NEW s, NEW e, NEW n \in Nat
    PROVE  \E kept : Scan(s, e, kept, n)
<1> DEFINE B == {m \in Nat : ~ \E kept : Scan(s, e, kept, m)}
<1> SUFFICES ASSUME B # {} PROVE FALSE
  OBVIOUS
<1>1. PICK m \in B : \A k \in B : m <= k
  BY LeastNumber
<1>2. CASE m = 0
  <2>1. Scan(s, e, [i \in 0 .. 0 |-> <<>>], 0)
    BY DEF Scan
  <2> QED
    BY <1>1, <1>2, <2>1
<1>3. CASE m # 0
  <2>1. m - 1 \in Nat /\ m - 1 \notin B
    BY <1>1, <1>3
  <2>2. PICK g : Scan(s, e, g, m - 1)
    BY <2>1
  <2> DEFINE h == [i \in 0 .. m |-> IF i = m THEN (IF s[m] = e THEN g[m - 1] ELSE Append(g[m - 1], s[m]))
                                             ELSE g[i]]
  <2>3. \A i \in 0 .. m - 1 : h[i] = g[i]
    BY <1>1
  <2>4. ASSUME NEW i \in 0 .. m
        PROVE  h[i] = IF i = 0 THEN <<>> ELSE IF s[i] = e THEN h[i - 1] ELSE Append(h[i - 1], s[i])
    <3>1. CASE i = m
      BY <1>1, <1>3, <2>1, <2>3, <3>1
    <3>2. CASE i # m /\ i # 0
      <4>1. i \in 0 .. m - 1 /\ i - 1 \in 0 .. m - 1
        BY <1>1, <3>2
      <4>2. g[i] = IF s[i] = e THEN g[i - 1] ELSE Append(g[i - 1], s[i])
        BY <2>2, <4>1, <3>2 DEF Scan
      <4> QED
        BY <2>3, <4>1, <4>2, <3>2
    <3>3. CASE i = 0
      BY <1>1, <1>3, <2>1, <2>2, <2>3, <3>3 DEF Scan
    <3> QED
      BY <3>1, <3>2, <3>3
  <2>5. Scan(s, e, h, m)
    <3> HIDE DEF h
    <3>1. h = [i \in 0 .. m |-> h[i]]
      BY DEF h
    <3> QED
      BY <2>4, <3>1 DEF Scan
  <2> QED
    BY <1>1, <2>5
<1> QED
  BY <1>2, <1>3

\* Without is the outcome of the scan.
LEMMA WithoutScans ==
    ASSUME NEW S, NEW s \in Seq(S), NEW e
    PROVE  \E kept : Scan(s, e, kept, Len(s)) /\ Without(s, e) = kept[Len(s)]
<1> DEFINE k0 == CHOOSE kept : Scan(s, e, kept, Len(s))
<1>1. Scan(s, e, k0, Len(s))
  BY ScanExists
<1>2. Without(s, e) = k0[Len(s)]
  BY DEF Without, Scan
<1> QED
  BY <1>1, <1>2

\* An element pushed to a list joins its members.
LEMMA AppendMembers ==
    ASSUME NEW S, NEW s \in Seq(S), NEW x \in S
    PROVE  /\ Append(s, x) \in Seq(S) /\ Len(Append(s, x)) = Len(s) + 1
           /\ ToSet(Append(s, x)) = ToSet(s) \cup {x}
           /\ IsInjective(s) /\ x \notin ToSet(s) => IsInjective(Append(s, x))
<1> DEFINE t == Append(s, x)
<1>1. /\ t \in Seq(S) /\ Len(s) \in Nat /\ Len(t) = Len(s) + 1
      /\ DOMAIN s = 1 .. Len(s) /\ DOMAIN t = 1 .. Len(s) + 1
      /\ \A i \in 1 .. Len(s) : t[i] = s[i]
      /\ t[Len(s) + 1] = x
  OBVIOUS
<1> HIDE DEF t
<1>2. ToSet(t) = ToSet(s) \cup {x}
  <2>1. \A i \in 1 .. Len(s) + 1 : i \in 1 .. Len(s) \/ i = Len(s) + 1
    BY <1>1
  <2>2. \A i \in 1 .. Len(s) : i \in DOMAIN t
    BY <1>1
  <2>3. Len(s) + 1 \in DOMAIN t
    BY <1>1
  <2> QED
    BY <1>1, <2>1, <2>2, <2>3, Zenon DEF ToSet
<1>3. ASSUME IsInjective(s), x \notin ToSet(s) PROVE IsInjective(t)
  <2>1. \A i \in 1 .. Len(s) : s[i] # x
    BY <1>1, <1>3 DEF ToSet
  <2> QED
    BY <1>1, <1>3, <2>1 DEF IsInjective
<1> QED
  BY <1>1, <1>2, <1>3 DEF t

\* What Without leaves is a list of the other members, each once if it was.
LEMMA WithoutRemoves ==
    ASSUME NEW S, NEW s \in Seq(S), NEW e
    PROVE  /\ Without(s, e) \in Seq(S)
           /\ ToSet(Without(s, e)) = ToSet(s) \ {e}
           /\ IsInjective(s) => IsInjective(Without(s, e))
<1>1. PICK kept : Scan(s, e, kept, Len(s)) /\ Without(s, e) = kept[Len(s)]
  BY WithoutScans
<1> DEFINE n == Len(s)
           Read(i) == {s[j] : j \in 1 .. i}
           Good(i) == /\ kept[i] \in Seq(S)
                      /\ ToSet(kept[i]) = Read(i) \ {e}
                      /\ IsInjective(s) => IsInjective(kept[i])
           B == {i \in 0 .. n : ~ Good(i)}
<1>2. n \in Nat /\ DOMAIN s = 1 .. n /\ \A j \in 1 .. n : s[j] \in S
  OBVIOUS
<1>3. kept[0] = <<>>
  BY <1>1, <1>2 DEF Scan
<1>4. ASSUME NEW i \in 1 .. n
      PROVE  kept[i] = IF s[i] = e THEN kept[i - 1] ELSE Append(kept[i - 1], s[i])
  <2>1. i \in 0 .. n /\ i # 0
    BY <1>2
  <2> HIDE DEF n
  <2> QED
    BY <1>1, <2>1 DEF Scan, n
<1>5. Good(0)
  BY <1>3 DEF ToSet, IsInjective
<1>6. ASSUME NEW i \in 1 .. n, Good(i - 1) PROVE Good(i)
  <2>1. s[i] \in S /\ i - 1 \in Nat
    BY <1>2
  <2>2. Read(i) = Read(i - 1) \cup {s[i]}
    <3>1. 1 .. i = 1 .. i - 1 \cup {i}
      BY <1>2
    <3> QED
      BY <3>1
  <2>3. CASE s[i] = e
    BY <1>4, <1>6, <2>2, <2>3
  <2>4. CASE s[i] # e
    <3>1. kept[i] = Append(kept[i - 1], s[i])
      BY <1>4, <2>4
    <3>2. kept[i - 1] \in Seq(S) /\ ToSet(kept[i - 1]) = Read(i - 1) \ {e}
      BY <1>6
    <3>3. IsInjective(s) => s[i] \notin Read(i - 1)
      BY <1>2, <2>1 DEF IsInjective
    <3>4. kept[i] \in Seq(S) /\ ToSet(kept[i]) = ToSet(kept[i - 1]) \cup {s[i]}
      BY <2>1, <3>1, <3>2, AppendMembers
    <3>5. ASSUME IsInjective(s) PROVE IsInjective(kept[i])
      <4>1. IsInjective(kept[i - 1]) /\ s[i] \notin ToSet(kept[i - 1])
        BY <1>6, <3>2, <3>3, <3>5
      <4> QED
        BY <2>1, <3>1, <3>2, <4>1, AppendMembers
    <3>6. ToSet(kept[i]) = Read(i) \ {e}
      BY <2>2, <2>4, <3>2, <3>4
    <3> QED
      BY <3>4, <3>5, <3>6
  <2> QED
    BY <2>3, <2>4
<1> HIDE DEF Good
<1>7. B = {}
  <2> SUFFICES ASSUME B # {} PROVE FALSE
    OBVIOUS
  <2>1. B \subseteq Nat
    OBVIOUS
  <2>2. PICK i \in B : \A k \in B : i <= k
    BY <2>1, LeastNumber
  <2>3. i \in 1 .. n
    BY <1>2, <1>5, <2>2
  <2>4. i - 1 \in 0 .. n /\ ~ (i <= i - 1)
    BY <1>2, <2>3
  <2>5. Good(i - 1)
    BY <2>2, <2>4
  <2> QED
    BY <1>6, <2>2, <2>3, <2>5
<1>8. Read(n) = ToSet(s)
  BY <1>2 DEF ToSet
<1>9. Good(n)
  BY <1>2, <1>7
<1> QED
  BY <1>1, <1>8, <1>9 DEF Good

\* A list without repetition is as long as it has members.
LEMMA ListLength ==
    ASSUME NEW S, NEW s \in Seq(S), IsInjective(s)
    PROVE  IsFiniteSet(ToSet(s)) /\ Cardinality(ToSet(s)) = Len(s) /\ Len(s) \in Nat
<1>1. s \in [1 .. Len(s) -> ToSet(s)] /\ Len(s) \in Nat /\ DOMAIN s = 1 .. Len(s)
  BY DEF ToSet
<1>2. s \in Surjection(1 .. Len(s), ToSet(s)) /\ s \in Injection(1 .. Len(s), ToSet(s))
  BY <1>1 DEF Surjection, Injection, ToSet
<1>3. \A n \in Nat : IsFiniteSet(1 .. n) /\ Cardinality(1 .. n) = n
  BY FS_Interval
<1> QED
  BY <1>1, <1>2, <1>3, FS_Surjection

\* Such a list is one shorter without a member, and no shorter without another.
LEMMA WithoutLength ==
    ASSUME NEW S, NEW s \in Seq(S), IsInjective(s), NEW e
    PROVE  Len(Without(s, e)) = IF e \in ToSet(s) THEN Len(s) - 1 ELSE Len(s)
<1> DEFINE w == Without(s, e)
<1>1. w \in Seq(S) /\ IsInjective(w) /\ ToSet(w) = ToSet(s) \ {e}
  BY WithoutRemoves
<1> HIDE DEF w
<1>2. Cardinality(ToSet(w)) = Len(w)
  BY <1>1, ListLength
<1>3. IsFiniteSet(ToSet(s)) /\ Cardinality(ToSet(s)) = Len(s)
  BY ListLength
<1>4. CASE e \in ToSet(s)
  BY <1>1, <1>2, <1>3, <1>4, FS_RemoveElement DEF w
<1>5. CASE e \notin ToSet(s)
  <2>1. ToSet(w) = ToSet(s)
    BY <1>1, <1>5
  <2> QED
    BY <1>2, <1>3, <1>5, <2>1 DEF w
<1> QED
  BY <1>4, <1>5

\* Lists that share no member are joined without repetition.
LEMMA ConcatMembers ==
    ASSUME NEW S, NEW s \in Seq(S), NEW t \in Seq(S)
    PROVE  /\ s \o t \in Seq(S) /\ Len(s \o t) = Len(s) + Len(t)
           /\ ToSet(s \o t) = ToSet(s) \cup ToSet(t)
           /\ IsInjective(s) /\ IsInjective(t) /\ ToSet(s) \cap ToSet(t) = {} => IsInjective(s \o t)
<1> DEFINE u == s \o t
           m == Len(s)
           n == Len(t)
<1>1. /\ u \in Seq(S) /\ m \in Nat /\ n \in Nat /\ Len(u) = m + n
      /\ DOMAIN s = 1 .. m /\ DOMAIN t = 1 .. n /\ DOMAIN u = 1 .. m + n
      /\ \A i \in 1 .. m : u[i] = s[i]
      /\ \A i \in m + 1 .. m + n : u[i] = t[i - m]
  OBVIOUS
<1> HIDE DEF u, m, n
<1>2. /\ \A i \in 1 .. m + n : i \in 1 .. m \/ (i \in m + 1 .. m + n /\ i - m \in 1 .. n)
      /\ \A i \in 1 .. m : i \in 1 .. m + n
      /\ \A i \in 1 .. n : m + i \in m + 1 .. m + n /\ m + i \in 1 .. m + n /\ (m + i) - m = i
  BY <1>1
<1>3. \A i \in 1 .. n : u[m + i] = t[i]
  BY <1>1, <1>2
<1>4. ToSet(u) = ToSet(s) \cup ToSet(t)
  <2>1. ASSUME NEW i \in 1 .. m + n PROVE u[i] \in ToSet(s) \cup ToSet(t)
    BY <1>1, <1>2 DEF ToSet
  <2>2. \A i \in 1 .. m : s[i] \in ToSet(u)
    BY <1>1, <1>2 DEF ToSet
  <2>3. \A i \in 1 .. n : t[i] \in ToSet(u)
    BY <1>1, <1>2, <1>3 DEF ToSet
  <2> QED
    BY <1>1, <2>1, <2>2, <2>3 DEF ToSet
<1>5. ASSUME IsInjective(s), IsInjective(t), ToSet(s) \cap ToSet(t) = {} PROVE IsInjective(u)
  <2>1. \A i \in 1 .. m, j \in 1 .. n : s[i] # t[j]
    BY <1>1, <1>5 DEF ToSet
  <2>2. SUFFICES ASSUME NEW i \in 1 .. m + n, NEW j \in 1 .. m + n, u[i] = u[j] PROVE i = j
    BY <1>1 DEF IsInjective
  <2>3. CASE i \in 1 .. m /\ j \in 1 .. m
    BY <1>1, <1>5, <2>2, <2>3 DEF IsInjective
  <2>4. CASE i \in m + 1 .. m + n /\ j \in m + 1 .. m + n
    <3>1. t[i - m] = t[j - m] /\ i - m \in 1 .. n /\ j - m \in 1 .. n
      BY <1>1, <2>2, <2>4
    <3>2. i - m = j - m
      BY <1>1, <1>5, <3>1 DEF IsInjective
    <3> QED
      BY <1>1, <3>2
  <2>5. CASE (i \in 1 .. m) # (j \in 1 .. m)
    BY <1>1, <1>2, <2>1, <2>2, <2>5
  <2> QED
    BY <1>2, <2>3, <2>4, <2>5
<1> QED
  BY <1>1, <1>4, <1>5 DEF u, m, n

---------------------------------------------------------------------------
(* Sums *)

\* The element a fold takes out first.
First(T) == CHOOSE x \in T : TRUE

\* g holds the sums of f over the subsets of S, added in the order of the fold.
Adds(f, S, g) ==
    g = [T \in SUBSET S |-> IF T = {} THEN 0 ELSE f[First(T)] + g[T \ {First(T)}]]

LEMMA FirstIn == ASSUME NEW T, T # {} PROVE First(T) \in T
BY DEF First

\* The sums over the subsets of S depend on what f is there, and on nothing else.
LEMMA AddsAgree ==
    ASSUME NEW S, IsFiniteSet(S), NEW R, NEW f, NEW k, NEW g, NEW h,
           Adds(f, R, g), Adds(k, S, h), S \subseteq R, \A x \in S : f[x] = k[x]
    PROVE  \A T \in SUBSET S : g[T] = h[T]
<1> DEFINE B == {T \in SUBSET S : g[T] # h[T]}
<1> SUFFICES ASSUME B # {} PROVE FALSE
  OBVIOUS
<1>0. \A T \in B : T \subseteq S
  OBVIOUS
<1>1. PICK T \in B : \A U \in B : U \subseteq T => U = T
  <2> HIDE DEF B
  <2> QED
    BY <1>0, MinimalSubset
<1>2. T \in SUBSET S /\ T \in SUBSET R
  OBVIOUS
<1>3. /\ g[T] = IF T = {} THEN 0 ELSE f[First(T)] + g[T \ {First(T)}]
      /\ h[T] = IF T = {} THEN 0 ELSE k[First(T)] + h[T \ {First(T)}]
  BY <1>2 DEF Adds
<1>4. CASE T = {}
  BY <1>3, <1>4
<1>5. CASE T # {}
  <2>1. First(T) \in T
    BY <1>5, FirstIn
  <2>2. g[T \ {First(T)}] = h[T \ {First(T)}]
    BY <1>1, <1>2, <2>1
  <2> QED
    BY <1>2, <1>3, <1>5, <2>1, <2>2
<1> QED
  BY <1>4, <1>5

LEMMA AddsExists ==
    ASSUME NEW S, IsFiniteSet(S), NEW f
    PROVE  \E g : Adds(f, S, g)
<1> DEFINE B == {T \in SUBSET S : ~ \E g : Adds(f, T, g)}
<1> SUFFICES ASSUME B # {} PROVE FALSE
  OBVIOUS
<1>0. \A T \in B : T \subseteq S
  OBVIOUS
<1>1. PICK T \in B : \A U \in B : U \subseteq T => U = T
  <2> HIDE DEF B
  <2> QED
    BY <1>0, MinimalSubset
<1> DEFINE G(U) == CHOOSE g : Adds(f, U, g)
           h == [U \in SUBSET T |-> IF U = {} THEN 0
                                    ELSE f[First(U)] + G(U \ {First(U)})[U \ {First(U)}]]
<1>2. ASSUME NEW U \in SUBSET T, U # T PROVE Adds(f, U, G(U))
  BY <1>1, <1>2
<1>3. ASSUME NEW U \in SUBSET T, U # T PROVE h[U] = G(U)[U]
  <2>1. Adds(f, U, G(U))
    BY <1>2, <1>3
  <2> HIDE DEF G
  <2>2. G(U)[U] = IF U = {} THEN 0 ELSE f[First(U)] + G(U)[U \ {First(U)}]
    BY <2>1 DEF Adds
  <2>3. CASE U = {}
    BY <2>2, <2>3
  <2>4. CASE U # {}
    <3> DEFINE V == U \ {First(U)}
    <3>1. V \in SUBSET T /\ V # T /\ V \subseteq U
      BY <1>3
    <3>2. Adds(f, V, G(V)) /\ IsFiniteSet(V)
      BY <1>1, <1>2, <3>1, FS_Subset
    <3>3. G(U)[V] = G(V)[V]
      BY <2>1, <3>1, <3>2, AddsAgree
    <3> QED
      BY <2>2, <2>4, <3>3
  <2> QED
    BY <2>3, <2>4
<1>4. ASSUME NEW U \in SUBSET T
      PROVE  h[U] = IF U = {} THEN 0 ELSE f[First(U)] + h[U \ {First(U)}]
  <2>1. CASE U = {}
    BY <2>1
  <2>2. CASE U # {}
    <3> DEFINE V == U \ {First(U)}
    <3>1. V \in SUBSET T /\ V # T
      BY <2>2, FirstIn
    <3>2. h[V] = G(V)[V]
      BY <1>3, <3>1
    <3> QED
      BY <2>2, <3>2
  <2> QED
    BY <2>1, <2>2
<1>5. Adds(f, T, h)
  <2>1. h = [U \in SUBSET T |-> h[U]]
    OBVIOUS
  <2> HIDE DEF h
  <2> QED
    BY <1>4, <2>1 DEF Adds
<1> QED
  BY <1>1, <1>5

LEMMA SumAdds ==
    ASSUME NEW S, IsFiniteSet(S), NEW f
    PROVE  \E g : Adds(f, S, g) /\ SumFunctionOnSet(f, S) = g[S]
<1> DEFINE g0 == CHOOSE g : Adds(f, S, g)
<1>1. Adds(f, S, g0)
  BY AddsExists
<1>2. SumFunctionOnSet(f, S) = g0[S]
  BY DEF SumFunctionOnSet, FoldFunctionOnSet, MapThenFoldSet, Adds, First
<1> QED
  BY <1>1, <1>2

\* Nothing adds up to 0.
LEMMA SumEmpty == ASSUME NEW f PROVE SumFunctionOnSet(f, {}) = 0
BY SumAdds, FS_EmptySet DEF Adds

\* Functions that agree on a set have the same sum over it.
LEMMA SumSame ==
    ASSUME NEW S, IsFiniteSet(S), NEW f, NEW k, \A x \in S : f[x] = k[x]
    PROVE  SumFunctionOnSet(f, S) = SumFunctionOnSet(k, S)
<1>1. PICK g : Adds(f, S, g) /\ SumFunctionOnSet(f, S) = g[S]
  BY SumAdds
<1>2. PICK h : Adds(k, S, h) /\ SumFunctionOnSet(k, S) = h[S]
  BY SumAdds
<1> QED
  BY <1>1, <1>2, AddsAgree

LEMMA SumFirst ==
    ASSUME NEW S, IsFiniteSet(S), S # {}, NEW f
    PROVE  SumFunctionOnSet(f, S) = f[First(S)] + SumFunctionOnSet(f, S \ {First(S)})
<1> DEFINE R == S \ {First(S)}
<1>1. PICK g : Adds(f, S, g) /\ SumFunctionOnSet(f, S) = g[S]
  BY SumAdds
<1>2. IsFiniteSet(R) /\ R \subseteq S
  BY FS_Subset
<1>3. PICK h : Adds(f, R, h) /\ SumFunctionOnSet(f, R) = h[R]
  BY <1>2, SumAdds
<1>4. g[R] = h[R]
  BY <1>1, <1>2, <1>3, AddsAgree
<1>5. g[S] = f[First(S)] + g[R]
  BY <1>1 DEF Adds
<1> QED
  BY <1>1, <1>3, <1>4, <1>5

\* The order of the additions does not matter: any element can be taken out.
LEMMA SumRemove ==
    ASSUME NEW S, IsFiniteSet(S), NEW f, \A x \in S : f[x] \in Nat
    PROVE  /\ SumFunctionOnSet(f, S) \in Nat
           /\ \A x \in S : SumFunctionOnSet(f, S) = f[x] + SumFunctionOnSet(f, S \ {x})
<1> DEFINE Sum(T) == SumFunctionOnSet(f, T)
           Good(T) == Sum(T) \in Nat /\ \A x \in T : Sum(T) = f[x] + Sum(T \ {x})
           B == {T \in SUBSET S : ~ Good(T)}
<1> SUFFICES ASSUME B # {} PROVE FALSE
  OBVIOUS
<1>0. \A T \in B : T \subseteq S
  OBVIOUS
<1>1. PICK T \in B : \A U \in B : U \subseteq T => U = T
  <2> HIDE DEF B
  <2> QED
    BY <1>0, MinimalSubset
<1>2. IsFiniteSet(T)
  BY FS_Subset
<1>3. ASSUME NEW U \in SUBSET T, U # T PROVE Good(U)
  BY <1>1, <1>3
<1>4. ~ Good(T)
  BY <1>1
<1> HIDE DEF Sum, B
<1>5. CASE T = {}
  BY <1>4, <1>5, SumEmpty DEF Sum
<1>6. CASE T # {}
  <2> DEFINE c == First(T)
  <2>1. c \in T /\ \A x \in T : f[x] \in Nat
    BY <1>1, <1>6, FirstIn DEF B
  <2>2. Sum(T) = f[c] + Sum(T \ {c})
    BY <1>2, <1>6, SumFirst DEF Sum
  <2> HIDE DEF c
  <2>3. ASSUME NEW x \in T PROVE Sum(T \ {x}) \in Nat
    BY <1>3, <2>3
  <2>4. ASSUME NEW x \in T, x # c PROVE Sum(T) = f[x] + Sum(T \ {x})
    <3> DEFINE D == (T \ {c}) \ {x}
    <3>1. D = (T \ {x}) \ {c} /\ D \subseteq T /\ D # T
      BY <2>1
    <3>2. Good(T \ {c}) /\ Good(T \ {x}) /\ Good(D)
      BY <1>3, <2>1, <3>1
    <3>3. Sum(T \ {c}) = f[x] + Sum(D)
      BY <2>4, <3>2
    <3> HIDE DEF D
    <3>4. Sum(T \ {x}) = f[c] + Sum(D)
      BY <2>1, <2>4, <3>1, <3>2
    <3>5. Sum(D) \in Nat /\ f[x] \in Nat /\ f[c] \in Nat
      BY <2>1, <3>2
    <3> QED
      BY <2>2, <3>3, <3>4, <3>5
  <2>5. Sum(T) \in Nat
    BY <2>1, <2>2, <2>3
  <2> QED
    BY <1>4, <2>1, <2>2, <2>5, <2>4
<1> QED
  BY <1>5, <1>6
\* One more element adds its value.
LEMMA SumAdd ==
    ASSUME NEW S, IsFiniteSet(S), NEW f, \A y \in S : f[y] \in Nat,
           NEW x, x \notin S, NEW k, k[x] \in Nat, \A y \in S : k[y] = f[y]
    PROVE  SumFunctionOnSet(k, S \cup {x}) = SumFunctionOnSet(f, S) + k[x]
<1> DEFINE T == S \cup {x}
<1>1. IsFiniteSet(T) /\ x \in T /\ T \ {x} = S /\ \A y \in T : k[y] \in Nat
  BY FS_AddElement
<1>2. SumFunctionOnSet(k, T) = k[x] + SumFunctionOnSet(k, T \ {x})
  BY <1>1, SumRemove
<1>3. SumFunctionOnSet(k, S) = SumFunctionOnSet(f, S)
  BY SumSame
<1>4. SumFunctionOnSet(f, S) \in Nat
  BY SumRemove
<1> QED
  BY <1>1, <1>2, <1>3, <1>4
=============================================================================
