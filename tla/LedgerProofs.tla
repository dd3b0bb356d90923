---------------------------- MODULE LedgerProofs ----------------------------
(***************************************************************************)
(* Facts about the operators of Ledger and Calendar that the proofs about  *)
(* closings and reports use: sums over finite sets do not depend on their  *)
(* order, they split and grow with their sets, and the keys of local days  *)
(* follow one another.                                                     *)
(***************************************************************************)
EXTENDS Ledger, FiniteSetTheorems, WellFoundedInduction, TLAPS

(* A set of subsets of a finite set has a smallest one.  The induction     *)
(* theorems of the library take the induction formula as a parameter; here *)
(* a formula is the set of the counterexamples, and the smallest of them   *)
(* is refuted.                                                             *)
LEMMA SmallestSubset ==
  ASSUME NEW S, IsFiniteSet(S), NEW T \in SUBSET SUBSET S, T # {}
  PROVE  \E s \in T : \A t \in T : t \subseteq s => t = s
<1>1. T \subseteq FiniteSubsetsOf(S) BY FS_Subset DEF FiniteSubsetsOf
<1>2. IsWellFoundedOn(StrictSubsetOrdering(S), FiniteSubsetsOf(S))
  BY FS_StrictSubsetOrderingWellFounded
<1>3. PICK s \in T : \A t \in T : <<t, s>> \notin StrictSubsetOrdering(S)
  BY <1>1, <1>2, WFMin, Zenon
<1> QED BY <1>3 DEF StrictSubsetOrdering

(* The same for natural numbers. *)
LEMMA SmallestNumber ==
  ASSUME NEW T \in SUBSET Nat, T # {}
  PROVE  \E n \in T : \A k \in T : n <= k
<1>1. PICK n \in T : \A k \in T : <<k, n>> \notin OpToRel(<, Nat)
   BY NatLessThanWellFounded, WFMin, Zenon
<1>2. \A k \in T : ~(k < n) BY <1>1, T \subseteq Nat DEF OpToRel
<1> QED BY <1>2

(* Induction along an interval, for the set of what has been shown. *)
LEMMA AlongInterval ==
  ASSUME NEW lo \in Int, NEW hi \in Int, NEW T, lo \in T,
         \A i \in lo + 1 .. hi : i - 1 \in T => i \in T
  PROVE  lo .. hi \subseteq T
<1> DEFINE Bad == {n \in Nat : lo + n <= hi /\ lo + n \notin T}
<1>1. ASSUME Bad # {} PROVE FALSE
  <2>1. PICK n \in Bad : \A k \in Bad : n <= k
    <3>1. Bad \in SUBSET Nat OBVIOUS
    <3> HIDE DEF Bad
    <3> QED BY <3>1, <1>1, SmallestNumber
  <2>2. n # 0 BY <2>1
  <2>3. n - 1 \in Nat /\ n - 1 \notin Bad /\ lo + (n - 1) <= hi BY <2>1, <2>2
  <2>4. lo + (n - 1) \in T BY <2>3
  <2>5. lo + (n - 1) = (lo + n) - 1 /\ lo + n \in lo + 1 .. hi BY <2>1, <2>2
  <2>6. lo + n \in T BY <2>4, <2>5
  <2> QED BY <2>1, <2>6
<1>2. ASSUME NEW i \in lo .. hi PROVE i \in T
  <2>1. i - lo \in Nat /\ lo + (i - lo) = i /\ i <= hi OBVIOUS
  <2>2. i - lo \notin Bad BY <1>1
  <2> QED BY <2>1, <2>2
<1> QED BY <1>2

(* Min, of FiniteSetsExt, of integers in an interval. *)
LEMMA MinIsLeast ==
  ASSUME NEW lo \in Int, NEW hi \in Int, NEW S \in SUBSET (lo .. hi), S # {}
  PROVE  Min(S) \in S /\ \A x \in S : Min(S) <= x
<1> DEFINE T == {n \in Nat : lo + n \in S}
<1>1. PICK x \in S : TRUE OBVIOUS
<1>2. x - lo \in Nat /\ lo + (x - lo) = x BY <1>1
<1>3. T # {} /\ T \in SUBSET Nat BY <1>1, <1>2
<1>4. PICK n \in T : \A k \in T : n <= k
  <2> HIDE DEF T
  <2> QED BY <1>3, SmallestNumber
<1>5. ASSUME NEW y \in S PROVE lo + n <= y
  <2>1. y - lo \in Nat /\ lo + (y - lo) = y OBVIOUS
  <2>2. n <= y - lo BY <2>1, <1>4
  <2> QED BY <2>1, <2>2, <1>4
<1>6. lo + n \in S BY <1>4
<1>7. \E z \in S : \A y \in S : z <= y BY <1>5, <1>6
<1> HIDE DEF T
<1> QED BY <1>7 DEF Min

(* Max likewise. *)
LEMMA MaxIsGreatest ==
  ASSUME NEW lo \in Int, NEW hi \in Int, NEW S \in SUBSET (lo .. hi), S # {}
  PROVE  Max(S) \in S /\ \A x \in S : x <= Max(S)
<1> DEFINE T == {n \in Nat : hi - n \in S}
<1>1. PICK x \in S : TRUE OBVIOUS
<1>2. hi - x \in Nat /\ hi - (hi - x) = x BY <1>1
<1>3. T # {} /\ T \in SUBSET Nat BY <1>1, <1>2
<1>4. PICK n \in T : \A k \in T : n <= k
  <2> HIDE DEF T
  <2> QED BY <1>3, SmallestNumber
<1>5. ASSUME NEW y \in S PROVE hi - n >= y
  <2>1. hi - y \in Nat /\ hi - (hi - y) = y OBVIOUS
  <2>2. n <= hi - y BY <2>1, <1>4
  <2> QED BY <2>1, <2>2, <1>4
<1>6. hi - n \in S BY <1>4
<1>7. PICK z \in S : \A y \in S : z >= y BY <1>5, <1>6
<1> HIDE DEF T
<1>8. Max(S) \in S /\ \A y \in S : Max(S) >= y BY <1>7 DEF Max
<1>9. \A y \in S : y \in Int OBVIOUS
<1> QED BY <1>8, <1>9

(* The element a sum over s takes first, and what it leaves. *)
Some(s) == CHOOSE x \in s : TRUE
Rest(s) == s \ {Some(s)}

(* The function g sums f over every subset of S. *)
Sums(f, S, g) ==
  g = [s \in SUBSET S |-> IF s = {} THEN 0 ELSE f[Some(s)] + g[Rest(s)]]

(* SumFunctionOnSet is the value at S of a function that sums every subset. *)
LEMMA SumUnfolds ==
  ASSUME NEW f, NEW S
  PROVE  SumFunctionOnSet(f, S) = (CHOOSE g : Sums(f, S, g))[S]
BY Zenon DEF SumFunctionOnSet, FoldFunctionOnSet, MapThenFoldSet, Sums, Some, Rest

LEMMA SomeRest ==
  ASSUME NEW s, s # {}
  PROVE  Some(s) \in s /\ Rest(s) \subseteq s /\ Rest(s) # s
BY DEF Some, Rest

(* Two such functions agree on the subsets they share. *)
LEMMA SumsAgree ==
  ASSUME NEW f, NEW S, NEW T, IsFiniteSet(S), NEW g, NEW h, Sums(f, S, g), Sums(f, T, h),
         NEW s \in SUBSET S, s \in SUBSET T
  PROVE  g[s] = h[s]
<1> DEFINE Bad == {u \in SUBSET S : u \in SUBSET T /\ g[u] # h[u]}
<1>1. ASSUME Bad # {} PROVE FALSE
  <2>1. PICK u \in Bad : \A t \in Bad : t \subseteq u => t = u
    <3>1. Bad \in SUBSET SUBSET S OBVIOUS
    <3> HIDE DEF Bad
    <3> QED BY <3>1, <1>1, SmallestSubset
  <2>2. g[u] = IF u = {} THEN 0 ELSE f[Some(u)] + g[Rest(u)]
    BY Zenon, u \in SUBSET S DEF Sums
  <2>3. h[u] = IF u = {} THEN 0 ELSE f[Some(u)] + h[Rest(u)]
    BY Zenon, u \in SUBSET T DEF Sums
  <2>4. u # {} BY <2>1, <2>2, <2>3
  <2>5. Rest(u) \notin Bad BY <2>1, <2>4, SomeRest
  <2>6. g[Rest(u)] = h[Rest(u)] BY <2>5, <2>4, SomeRest
  <2> QED BY <2>1, <2>2, <2>3, <2>4, <2>6
<1> QED BY <1>1

LEMMA SumsMeet ==
  ASSUME NEW f, NEW S, NEW T \in SUBSET S, IsFiniteSet(S), NEW g, NEW h, Sums(f, S, g), Sums(f, T, h)
  PROVE  g[T] = h[T]
BY SumsAgree, T \in SUBSET T

(* There is one for every finite set. *)
LEMMA SumsExist ==
  ASSUME NEW f, NEW S, IsFiniteSet(S)
  PROVE  \E g : Sums(f, S, g)
<1> DEFINE Bad == {u \in SUBSET S : ~\E g : Sums(f, u, g)}
<1>1. ASSUME Bad # {} PROVE FALSE
  <2>1. PICK u \in Bad : \A t \in Bad : t \subseteq u => t = u
    <3>1. Bad \in SUBSET SUBSET S OBVIOUS
    <3> HIDE DEF Bad
    <3> QED BY <3>1, <1>1, SmallestSubset
  <2> DEFINE G(t) == CHOOSE g : Sums(f, t, g)
             h == [s \in SUBSET u |-> IF s = {} THEN 0 ELSE f[Some(s)] + G(Rest(s))[Rest(s)]]
  <2>2. ASSUME NEW t \in SUBSET u, t # u PROVE Sums(f, t, G(t))
    <3>1. \E g : Sums(f, t, g) BY <2>1, <2>2
    <3> QED BY <3>1, Zenon
  <2>3. ASSUME NEW s \in SUBSET u, s # {} PROVE h[Rest(s)] = G(Rest(s))[Rest(s)]
    <3> DEFINE t == Rest(s)
    <3>1. t \in SUBSET u /\ t # u BY <2>3, SomeRest
    <3>2. Sums(f, t, G(t)) BY <2>2, <3>1
    <3>3. G(t)[t] = IF t = {} THEN 0 ELSE f[Some(t)] + G(t)[Rest(t)]
      BY Zenon, <3>2, t \in SUBSET t DEF Sums
    <3>4. ASSUME t # {} PROVE G(t)[Rest(t)] = G(Rest(t))[Rest(t)]
      <4>1. Rest(t) \in SUBSET u /\ Rest(t) # u /\ Rest(t) \in SUBSET t BY <3>1, <3>4, SomeRest
      <4>2. Sums(f, Rest(t), G(Rest(t))) BY <2>2, <4>1
      <4>3. IsFiniteSet(t) BY <3>1, FS_Subset, u \in SUBSET S
      <4> HIDE DEF G, t
      <4> QED BY <4>1, <4>2, <4>3, <3>2, SumsMeet
    <3>5. h[t] = IF t = {} THEN 0 ELSE f[Some(t)] + G(Rest(t))[Rest(t)] BY <3>1, Zenon
    <3> QED BY <3>3, <3>4, <3>5, Zenon
  <2>4. \A s \in SUBSET u : h[s] = IF s = {} THEN 0 ELSE f[Some(s)] + h[Rest(s)]
    <3> SUFFICES ASSUME NEW s \in SUBSET u
                 PROVE  h[s] = IF s = {} THEN 0 ELSE f[Some(s)] + h[Rest(s)]
      BY Zenon
    <3>1. h[s] = IF s = {} THEN 0 ELSE f[Some(s)] + G(Rest(s))[Rest(s)]
      BY Zenon
    <3> HIDE DEF h, G
    <3> QED BY <3>1, <2>3, Zenon
  <2>5. Sums(f, u, h)
    <3>1. h = [s \in SUBSET u |-> h[s]] OBVIOUS
    <3> HIDE DEF h
    <3> QED BY <2>4, <3>1 DEF Sums
  <2> QED BY <2>1, <2>5
<1>2. S \in SUBSET S OBVIOUS
<1> QED BY <1>1, <1>2

(* So that sums obey the equations they are written with. *)
LEMMA SumOfNone == ASSUME NEW f PROVE SumFunctionOnSet(f, {}) = 0
<1> DEFINE g == CHOOSE g : Sums(f, {}, g)
<1>1. Sums(f, {}, g) BY SumsExist, FS_EmptySet, Zenon
<1>2. g[{}] = 0 BY <1>1, Zenon DEF Sums
<1> QED BY <1>2, SumUnfolds, Zenon

LEMMA SumOfSome ==
  ASSUME NEW f, NEW S, IsFiniteSet(S), S # {}
  PROVE  SumFunctionOnSet(f, S) = f[Some(S)] + SumFunctionOnSet(f, Rest(S))
<1> DEFINE G(t) == CHOOSE g : Sums(f, t, g)
<1>1. Rest(S) \in SUBSET S BY SomeRest
<1>2. IsFiniteSet(Rest(S)) BY <1>1, FS_Subset
<1>3. Sums(f, S, G(S)) /\ Sums(f, Rest(S), G(Rest(S))) BY <1>2, SumsExist, Zenon
<1> HIDE DEF G
<1>4. G(S)[S] = f[Some(S)] + G(S)[Rest(S)] BY <1>3, S \in SUBSET S, Zenon DEF Sums
<1>5. G(S)[Rest(S)] = G(Rest(S))[Rest(S)]
  BY <1>1, <1>3, SumsMeet
<1>6. SumFunctionOnSet(f, S) = G(S)[S] /\ SumFunctionOnSet(f, Rest(S)) = G(Rest(S))[Rest(S)]
  BY SumUnfolds, Zenon DEF G
<1> QED BY <1>4, <1>5, <1>6

(* A sum of integers is one, whatever the order of the additions. *)
LEMMA SumIsInt ==
  ASSUME NEW f, NEW S, IsFiniteSet(S), \A x \in S : f[x] \in Int
  PROVE  SumFunctionOnSet(f, S) \in Int
<1> DEFINE Bad == {u \in SUBSET S : SumFunctionOnSet(f, u) \notin Int}
<1>1. ASSUME Bad # {} PROVE FALSE
  <2>1. PICK u \in Bad : \A t \in Bad : t \subseteq u => t = u
    <3>1. Bad \in SUBSET SUBSET S OBVIOUS
    <3> HIDE DEF Bad
    <3> QED BY <3>1, <1>1, SmallestSubset
  <2>2. u # {} BY SumOfNone
  <2>3. IsFiniteSet(u) BY FS_Subset
  <2>4. SumFunctionOnSet(f, u) = f[Some(u)] + SumFunctionOnSet(f, Rest(u))
    BY <2>2, <2>3, SumOfSome
  <2>5. Rest(u) \notin Bad /\ Rest(u) \in SUBSET S /\ Some(u) \in S BY <2>1, <2>2, SomeRest
  <2> QED BY <2>4, <2>5
<1> QED BY <1>1

LEMMA SumIsNat ==
  ASSUME NEW f, NEW S, IsFiniteSet(S), \A x \in S : f[x] \in Nat
  PROVE  SumFunctionOnSet(f, S) \in Nat
<1> DEFINE Bad == {u \in SUBSET S : SumFunctionOnSet(f, u) \notin Nat}
<1>1. ASSUME Bad # {} PROVE FALSE
  <2>1. PICK u \in Bad : \A t \in Bad : t \subseteq u => t = u
    <3>1. Bad \in SUBSET SUBSET S OBVIOUS
    <3> HIDE DEF Bad
    <3> QED BY <3>1, <1>1, SmallestSubset
  <2>2. u # {} BY SumOfNone
  <2>3. IsFiniteSet(u) BY FS_Subset
  <2>4. SumFunctionOnSet(f, u) = f[Some(u)] + SumFunctionOnSet(f, Rest(u))
    BY <2>2, <2>3, SumOfSome
  <2>5. Rest(u) \notin Bad /\ Rest(u) \in SUBSET S /\ Some(u) \in S BY <2>1, <2>2, SomeRest
  <2> QED BY <2>4, <2>5
<1> QED BY <1>1

(* The order of the additions does not matter: any element may come first. *)
LEMMA SumTakesAny ==
  ASSUME NEW f, NEW S, IsFiniteSet(S), \A x \in S : f[x] \in Int, NEW x \in S
  PROVE  SumFunctionOnSet(f, S) = f[x] + SumFunctionOnSet(f, S \ {x})
<1> DEFINE sum(s) == SumFunctionOnSet(f, s)
           Bad == {u \in SUBSET S : \E y \in u : sum(u) # f[y] + sum(u \ {y})}
<1>1. ASSUME Bad # {} PROVE FALSE
  <2>1. PICK u \in Bad : \A t \in Bad : t \subseteq u => t = u
    <3>1. Bad \in SUBSET SUBSET S OBVIOUS
    <3> HIDE DEF Bad
    <3> QED BY <3>1, <1>1, SmallestSubset
  <2>2. PICK y \in u : sum(u) # f[y] + sum(u \ {y}) BY <2>1
  <2> DEFINE c == Some(u)
  <2>3. IsFiniteSet(u) /\ IsFiniteSet(u \ {c}) /\ IsFiniteSet(u \ {y}) /\ IsFiniteSet((u \ {c}) \ {y})
    <3>1. u \in SUBSET S /\ u \ {c} \in SUBSET S /\ u \ {y} \in SUBSET S /\ (u \ {c}) \ {y} \in SUBSET S
      OBVIOUS
    <3> QED BY <3>1, FS_Subset
  <2>4. c \in u /\ sum(u) = f[c] + sum(u \ {c}) BY <2>2, <2>3, SumOfSome, SomeRest DEF Rest
  <2>5. c # y BY <2>2, <2>4
  <2>6. u \ {c} \notin Bad /\ u \ {y} \notin Bad
    <3>1. u \ {c} # u /\ u \ {y} # u BY <2>4, <2>2
    <3> QED BY <3>1, <2>1
  <2>7. sum(u \ {c}) = f[y] + sum((u \ {c}) \ {y}) BY <2>5, <2>6, <2>2
  <2>8. sum(u \ {y}) = f[c] + sum((u \ {y}) \ {c}) BY <2>5, <2>6, <2>4
  <2>9. sum((u \ {y}) \ {c}) = sum((u \ {c}) \ {y})
    <3>1. (u \ {y}) \ {c} = (u \ {c}) \ {y} OBVIOUS
    <3> QED BY <3>1
  <2>10. sum((u \ {c}) \ {y}) \in Int /\ f[c] \in Int /\ f[y] \in Int
    <3>1. sum((u \ {c}) \ {y}) \in Int BY <2>3, SumIsInt
    <3> QED BY <3>1, <2>4
  <2> HIDE DEF sum, c
  <2>11. f[c] + (f[y] + sum((u \ {c}) \ {y})) = f[y] + (f[c] + sum((u \ {c}) \ {y})) BY <2>10
  <2> QED BY <2>2, <2>4, <2>7, <2>8, <2>9, <2>11
<1>2. S \in SUBSET S OBVIOUS
<1> QED BY <1>1, <1>2

(* A sum depends on the values of its own elements only. *)
LEMMA SumsOfEqualsAreEqual ==
  ASSUME NEW f, NEW g, NEW S, IsFiniteSet(S), \A x \in S : f[x] = g[x]
  PROVE  SumFunctionOnSet(f, S) = SumFunctionOnSet(g, S)
<1> DEFINE Bad == {u \in SUBSET S : SumFunctionOnSet(f, u) # SumFunctionOnSet(g, u)}
<1>1. ASSUME Bad # {} PROVE FALSE
  <2>1. PICK u \in Bad : \A t \in Bad : t \subseteq u => t = u
    <3>1. Bad \in SUBSET SUBSET S OBVIOUS
    <3> HIDE DEF Bad
    <3> QED BY <3>1, <1>1, SmallestSubset
  <2>2. u # {} BY SumOfNone
  <2>3. IsFiniteSet(u) BY FS_Subset
  <2>4. /\ SumFunctionOnSet(f, u) = f[Some(u)] + SumFunctionOnSet(f, Rest(u))
        /\ SumFunctionOnSet(g, u) = g[Some(u)] + SumFunctionOnSet(g, Rest(u))
    BY <2>2, <2>3, SumOfSome
  <2>5. Rest(u) \notin Bad /\ Rest(u) \in SUBSET S /\ Some(u) \in S BY <2>1, <2>2, SomeRest
  <2> QED BY <2>1, <2>4, <2>5
<1>2. S \in SUBSET S OBVIOUS
<1> QED BY <1>1, <1>2

(* A sum over every part is what grows by the value of each element.       *)
LEMMA SumMeasures ==
  ASSUME NEW I, IsFiniteSet(I), NEW f, NEW G, \A i \in I : f[i] \in Int, G[{}] = 0,
         \A T \in SUBSET I : \A i \in I \ T : G[T \cup {i}] = G[T] + f[i]
  PROVE  SumFunctionOnSet(f, I) = G[I]
<1> DEFINE sum(t) == SumFunctionOnSet(f, t)
           Bad == {u \in SUBSET I : sum(u) # G[u]}
<1>1. ASSUME Bad # {} PROVE FALSE
  <2>1. PICK u \in Bad : \A t \in Bad : t \subseteq u => t = u
    <3>1. Bad \in SUBSET SUBSET I OBVIOUS
    <3> HIDE DEF Bad
    <3> QED BY <3>1, <1>1, SmallestSubset
  <2>2. u # {} BY SumOfNone
  <2>3. PICK y \in u : TRUE BY <2>2
  <2> DEFINE v == u \ {y}
  <2>4. v \in SUBSET I /\ v # u /\ v \subseteq u /\ y \in I \ v /\ v \cup {y} = u BY <2>3
  <2>5. IsFiniteSet(u) /\ IsFiniteSet(v) BY <2>4, FS_Subset
  <2>6. sum(u) = f[y] + sum(v)
    <3>1. \A x \in u : f[x] \in Int OBVIOUS
    <3> QED BY <2>3, <2>5, <3>1, SumTakesAny
  <2>7. sum(v) \in Int /\ f[y] \in Int
    <3>1. \A x \in v : f[x] \in Int OBVIOUS
    <3> HIDE DEF v
    <3> QED BY <2>4, <2>5, <3>1, SumIsInt
  <2>8. sum(v) = G[v] BY <2>1, <2>4
  <2>9. G[u] = G[v] + f[y]
    <3> HIDE DEF v
    <3>1. G[v \cup {y}] = G[v] + f[y] BY <2>4
    <3> QED BY <2>4, <3>1
  <2>10. sum(u) # G[u] BY <2>1
  <2> HIDE DEF sum, v, Bad
  <2> QED BY <2>6, <2>7, <2>8, <2>9, <2>10
<1>2. I \in SUBSET I OBVIOUS
<1> QED BY <1>1, <1>2


-----------------------------------------------------------------------------
(* A finite set of movements or marks, whose amounts are numbers. *)
Counted(S) == IsFiniteSet(S) /\ \A m \in S : m.amount \in Nat

LEMMA CountedSubset == ASSUME NEW S, Counted(S), NEW T \in SUBSET S PROVE Counted(T)
BY FS_Subset DEF Counted

LEMMA TotalUnfolds ==
  ASSUME NEW S PROVE Total(S) = SumFunctionOnSet([m \in S |-> m.amount], S)
BY DEF Total, SumFunction

LEMMA TotalOfNothing == Total({}) = 0
BY TotalUnfolds, SumOfNone

LEMMA TotalIsNat == ASSUME NEW S, Counted(S) PROVE Total(S) \in Nat
<1> DEFINE f == [m \in S |-> m.amount]
<1>1. \A m \in S : f[m] \in Nat BY DEF Counted
<1>2. IsFiniteSet(S) BY DEF Counted
<1>3. SumFunctionOnSet(f, S) \in Nat
  <2> HIDE DEF f
  <2> QED BY <1>1, <1>2, SumIsNat
<1> QED BY <1>3, TotalUnfolds

(* One more row adds its amount. *)
LEMMA TotalGains ==
  ASSUME NEW S, Counted(S), NEW m, m \notin S, m.amount \in Nat
  PROVE  Total(S \cup {m}) = Total(S) + m.amount
<1> DEFINE T == S \cup {m}
           f == [x \in T |-> x.amount]
           g == [x \in S |-> x.amount]
<1>1. IsFiniteSet(S) /\ IsFiniteSet(T) BY FS_AddElement DEF Counted
<1>2. \A x \in T : f[x] \in Int BY DEF Counted
<1>3. f[m] = m.amount /\ m \in T OBVIOUS
<1>4. \A x \in S : f[x] = g[x] OBVIOUS
<1>5. T \ {m} = S OBVIOUS
<1>6. SumFunctionOnSet(f, T) = f[m] + SumFunctionOnSet(f, T \ {m})
  <2> HIDE DEF f, T
  <2> QED BY <1>1, <1>2, <1>3, SumTakesAny
<1>7. SumFunctionOnSet(f, S) = SumFunctionOnSet(g, S)
  <2> HIDE DEF f, g
  <2> QED BY <1>1, <1>4, SumsOfEqualsAreEqual
<1>8. Total(T) = SumFunctionOnSet(f, T) /\ Total(S) = SumFunctionOnSet(g, S) BY TotalUnfolds
<1>9. Total(S) \in Nat BY TotalIsNat
<1> HIDE DEF f, g, T
<1>10. Total(T) = m.amount + Total(S) BY <1>3, <1>5, <1>6, <1>7, <1>8
<1> QED BY <1>9, <1>10 DEF T

(* A total is that of any part and that of what is left. *)
LEMMA TotalSplits ==
  ASSUME NEW S, Counted(S), NEW T \in SUBSET S
  PROVE  Total(S) = Total(T) + Total(S \ T)
<1> DEFINE Bad == {u \in SUBSET S : Total(S) # Total(u) + Total(S \ u)}
<1>1. ASSUME Bad # {} PROVE FALSE
  <2>1. PICK u \in Bad : \A t \in Bad : t \subseteq u => t = u
    <3>1. Bad \in SUBSET SUBSET S /\ IsFiniteSet(S) BY DEF Counted
    <3> HIDE DEF Bad
    <3> QED BY <3>1, <1>1, SmallestSubset
  <2>2. u # {}
    <3>1. ASSUME u = {} PROVE Total(S) = Total(u) + Total(S \ u)
      <4>1. S \ u = S /\ Total(u) = 0 BY <3>1, TotalOfNothing
      <4>2. Total(S) \in Nat BY TotalIsNat
      <4> QED BY <4>1, <4>2
    <3> QED BY <3>1, <2>1
  <2>3. PICK m \in u : TRUE BY <2>2
  <2> DEFINE v == u \ {m}
  <2>4. v \in SUBSET S /\ v # u /\ v \subseteq u /\ m \notin v /\ m \notin S \ u /\ m \in S
    BY <2>3
  <2>5. Counted(v) /\ Counted(S \ u) /\ m.amount \in Nat BY <2>4, CountedSubset DEF Counted
  <2>6. Total(S) = Total(v) + Total(S \ v) BY <2>1, <2>4
  <2>7. Total(u) = Total(v) + m.amount
    <3>1. v \cup {m} = u BY <2>3
    <3> HIDE DEF v
    <3> QED BY <3>1, <2>4, <2>5, TotalGains
  <2>8. Total(S \ v) = Total(S \ u) + m.amount
    <3>1. (S \ u) \cup {m} = S \ v BY <2>4
    <3> QED BY <3>1, <2>4, <2>5, TotalGains
  <2>9. Total(v) \in Nat /\ Total(S \ u) \in Nat BY <2>5, TotalIsNat
  <2>10. Total(S) # Total(u) + Total(S \ u) BY <2>1
  <2> HIDE DEF v, Bad
  <2> QED BY <2>5, <2>6, <2>7, <2>8, <2>9, <2>10
<1> QED BY <1>1

LEMMA TotalGrows ==
  ASSUME NEW S, Counted(S), NEW T \in SUBSET S
  PROVE  Total(T) <= Total(S)
<1>1. Total(T) \in Nat /\ Total(S \ T) \in Nat
  <2>1. Counted(T) /\ Counted(S \ T) BY CountedSubset
  <2> QED BY <2>1, TotalIsNat
<1> QED BY <1>1, TotalSplits

LEMMA TotalIsPositive ==
  ASSUME NEW S, Counted(S)
  PROVE  Total(S) > 0 <=> \E m \in S : m.amount > 0
<1>1. ASSUME NEW m \in S, m.amount > 0 PROVE Total(S) > 0
  <2>1. Counted({}) /\ m \notin {} /\ m.amount \in Nat BY FS_EmptySet DEF Counted
  <2>2. Total({} \cup {m}) = Total({}) + m.amount BY <2>1, TotalGains
  <2>3. Total({m}) = m.amount
    <3>1. {} \cup {m} = {m} OBVIOUS
    <3> QED BY <3>1, <2>1, <2>2, TotalOfNothing
  <2>4. Total({m}) <= Total(S) BY TotalGrows, {m} \in SUBSET S
  <2>5. Total(S) \in Nat /\ m.amount \in Nat BY <2>1, TotalIsNat
  <2> QED BY <1>1, <2>3, <2>4, <2>5
<1>2. ASSUME \A m \in S : ~(m.amount > 0) PROVE Total(S) = 0
  <2> DEFINE Bad == {u \in SUBSET S : Total(u) # 0}
  <2>1. ASSUME Bad # {} PROVE FALSE
    <3>1. PICK u \in Bad : \A t \in Bad : t \subseteq u => t = u
      <4>1. Bad \in SUBSET SUBSET S /\ IsFiniteSet(S) BY DEF Counted
      <4> HIDE DEF Bad
      <4> QED BY <4>1, <2>1, SmallestSubset
    <3>2. u # {} BY <3>1, TotalOfNothing
    <3>3. PICK m \in u : TRUE BY <3>2
    <3> DEFINE v == u \ {m}
    <3>4. v \in SUBSET S /\ v # u /\ v \subseteq u /\ m \notin v /\ m \in S BY <3>3
    <3>5. Counted(v) /\ m.amount \in Nat BY <3>4, CountedSubset DEF Counted
    <3>6. m.amount = 0 BY <3>4, <3>5, <1>2
    <3>7. Total(v) = 0 BY <3>1, <3>4
    <3>8. Total(v \cup {m}) = Total(v) + m.amount
      <4> HIDE DEF v
      <4> QED BY <3>4, <3>5, TotalGains
    <3>9. v \cup {m} = u BY <3>3
    <3>10. Total(u) = 0 + 0 BY <3>6, <3>7, <3>8, <3>9
    <3> QED BY <3>1, <3>10
  <2> QED BY <2>1
<1>3. Total(S) \in Nat BY TotalIsNat
<1> QED BY <1>1, <1>2, <1>3


-----------------------------------------------------------------------------
(* The net of a set of movements splits and adds up as its totals do. *)

LEMMA OnlyIsCounted ==
  ASSUME NEW S, Counted(S), NEW type PROVE Counted(Only(type, S)) /\ Only(type, S) \in SUBSET S
BY CountedSubset DEF Only

LEMMA OnlySplits ==
  ASSUME NEW S, Counted(S), NEW T \in SUBSET S, NEW type
  PROVE  Total(Only(type, S)) = Total(Only(type, T)) + Total(Only(type, S \ T))
<1>1. Only(type, T) \in SUBSET Only(type, S) BY DEF Only
<1>2. Only(type, S) \ Only(type, T) = Only(type, S \ T) BY DEF Only
<1>3. Total(Only(type, S)) = Total(Only(type, T)) + Total(Only(type, S) \ Only(type, T))
  BY <1>1, OnlyIsCounted, TotalSplits
<1> QED BY <1>2, <1>3

LEMMA OnlyIsNat ==
  ASSUME NEW S, Counted(S), NEW type PROVE Total(Only(type, S)) \in Nat
BY OnlyIsCounted, TotalIsNat

LEMMA NetIsInt == ASSUME NEW S, Counted(S) PROVE Net(S) \in Int
<1>1. Total(Only("income", S)) \in Nat /\ Total(Only("expense", S)) \in Nat BY OnlyIsNat
<1> QED BY <1>1 DEF Net

LEMMA NetSplits ==
  ASSUME NEW S, Counted(S), NEW T \in SUBSET S
  PROVE  Net(S) = Net(T) + Net(S \ T)
<1>1. Counted(T) /\ Counted(S \ T) BY CountedSubset
<1>2. /\ Total(Only("income", T)) \in Nat /\ Total(Only("expense", T)) \in Nat
      /\ Total(Only("income", S \ T)) \in Nat /\ Total(Only("expense", S \ T)) \in Nat
  BY <1>1, OnlyIsNat
<1>3. /\ Total(Only("income", S)) = Total(Only("income", T)) + Total(Only("income", S \ T))
      /\ Total(Only("expense", S)) = Total(Only("expense", T)) + Total(Only("expense", S \ T))
  BY OnlySplits
<1> QED BY <1>2, <1>3 DEF Net

LEMMA OnlyOfNothing == ASSUME NEW type PROVE Total(Only(type, {})) = 0
<1>1. Only(type, {}) = {} BY DEF Only
<1> QED BY <1>1, TotalOfNothing

LEMMA NetOfNothing == Net({}) = 0
BY OnlyOfNothing DEF Net

(* Up to a day there is what there was up to the day before, and that day. *)
UpTo(S, day) == {m \in S : m.day <= day}

LEMMA UpToNextDay ==
  ASSUME NEW S, \A m \in S : m.day \in Int, NEW day \in Int
  PROVE  /\ UpTo(S, day - 1) \in SUBSET UpTo(S, day)
         /\ UpTo(S, day) \ UpTo(S, day - 1) = On(S, day)
BY DEF UpTo, On

LEMMA NetUpToNextDay ==
  ASSUME NEW S, Counted(S), \A m \in S : m.day \in Int, NEW day \in Int
  PROVE  Net(UpTo(S, day)) = Net(UpTo(S, day - 1)) + Net(On(S, day))
<1>1. Counted(UpTo(S, day)) BY CountedSubset DEF UpTo
<1> QED BY <1>1, UpToNextDay, NetSplits

LEMMA OnlyUpToNextDay ==
  ASSUME NEW S, Counted(S), \A m \in S : m.day \in Int, NEW day \in Int, NEW type
  PROVE  Total(Only(type, UpTo(S, day)))
           = Total(Only(type, UpTo(S, day - 1))) + Total(Only(type, On(S, day)))
<1>1. Counted(UpTo(S, day)) BY CountedSubset DEF UpTo
<1> QED BY <1>1, UpToNextDay, OnlySplits

-----------------------------------------------------------------------------
(* A value defined from the one before it is defined all along an interval. *)
Follows(lo, hi, base, F, g) ==
  g = [i \in lo .. hi |-> IF i = lo THEN base ELSE F[<<i, g[i - 1]>>]]

LEMMA FollowsExists ==
  ASSUME NEW lo \in Int, NEW hi \in Int, NEW V, NEW base \in V,
         NEW F \in [(lo + 1 .. hi) \X V -> V]
  PROVE  \E g \in [lo .. hi -> V] : Follows(lo, hi, base, F, g)
<1> DEFINE Good(n) == \E g \in [lo .. lo + n -> V] : Follows(lo, lo + n, base, F, g)
           Bad == {n \in Nat : lo + n <= hi /\ ~Good(n)}
<1>1. ASSUME Bad # {} PROVE FALSE
  <2>1. PICK n \in Bad : \A k \in Bad : n <= k
    <3>1. Bad \in SUBSET Nat OBVIOUS
    <3> HIDE DEF Bad
    <3> QED BY <3>1, <1>1, SmallestNumber
  <2>2. Good(0)
    <3> DEFINE g == [i \in lo .. lo + 0 |-> base]
    <3>1. g \in [lo .. lo + 0 -> V] OBVIOUS
    <3>2. \A i \in lo .. lo + 0 : i = lo OBVIOUS
    <3>3. Follows(lo, lo + 0, base, F, g) BY <3>2, Zenon DEF Follows
    <3> QED BY <3>1, <3>3
  <2>3. n # 0 /\ n - 1 \in Nat /\ lo + (n - 1) <= hi /\ lo + (n - 1) = lo + n - 1
    <3>1. n # 0 BY <2>1, <2>2
    <3> QED BY <3>1, <2>1
  <2>4. Good(n - 1)
    <3>1. n - 1 \notin Bad BY <2>1, <2>3
    <3> HIDE DEF Good
    <3> QED BY <3>1, <2>3
  <2>5. PICK g \in [lo .. lo + n - 1 -> V] : Follows(lo, lo + n - 1, base, F, g) BY <2>3, <2>4
  <2> DEFINE h == [i \in lo .. lo + n |-> IF i = lo THEN base ELSE F[<<i, g[i - 1]>>]]
  <2>6. ASSUME NEW i \in lo .. lo + n, i # lo
        PROVE  i \in lo + 1 .. hi /\ i - 1 \in lo .. lo + n - 1 /\ g[i - 1] \in V
    BY <2>1, <2>3, <2>5, <2>6
  <2>7. h \in [lo .. lo + n -> V] BY <2>6
  <2>8. ASSUME NEW i \in lo .. lo + n - 1 PROVE h[i] = g[i]
    <3>1. g[i] = IF i = lo THEN base ELSE F[<<i, g[i - 1]>>] BY <2>5, Zenon DEF Follows
    <3>2. i \in lo .. lo + n BY <2>3
    <3> QED BY <3>1, <3>2
  <2>9. ASSUME NEW i \in lo .. lo + n
        PROVE  h[i] = IF i = lo THEN base ELSE F[<<i, h[i - 1]>>]
    BY <2>6, <2>8
  <2>10. Follows(lo, lo + n, base, F, h)
    <3>1. h = [i \in lo .. lo + n |-> h[i]] OBVIOUS
    <3> HIDE DEF h
    <3> QED BY <3>1, <2>9 DEF Follows
  <2> QED BY <2>1, <2>7, <2>10
<1>2. CASE lo <= hi
  <2>1. hi - lo \in Nat /\ lo + (hi - lo) = hi BY <1>2
  <2>2. Good(hi - lo)
    <3>1. hi - lo \notin Bad BY <1>1
    <3> HIDE DEF Good
    <3> QED BY <3>1, <2>1
  <2> QED BY <2>1, <2>2
<1>3. CASE hi < lo
  <2> DEFINE g == [i \in lo .. hi |-> base]
  <2>1. lo .. hi = {} BY <1>3
  <2>2. g \in [lo .. hi -> V] OBVIOUS
  <2>3. Follows(lo, hi, base, F, g) BY <2>1, Zenon DEF Follows
  <2> QED BY <2>2, <2>3
<1> QED BY <1>2, <1>3


-----------------------------------------------------------------------------
(* The keys of local days are in the order of the days.  Where local time  *)
(* keeps one side of UTC they follow one another as the days do; where it  *)
(* does not, two days in a row may share one key.  Where clocks skip a     *)
(* midnight, the hour after any midnight must be of the same UTC day too.  *)

OneSideOfUtc ==
  /\ \/ \A d \in Days : Offset[d] \in 1 .. DayTicks
     \/ \A d \in Days : Offset[d] \in -(DayTicks - 1) .. 0
  /\ Skips # {} => \A d \in Days \ Skips : UtcDay(Midnight(d) + Hour) = DateKey(d)

LEMMA DivIs ==
  ASSUME NEW n \in Nat \ {0}, NEW x \in Int, NEW q \in Int, n * q <= x, x < n * q + n
  PROVE  x \div n = q
OBVIOUS

LEMMA DivInOrder ==
  ASSUME NEW n \in Nat \ {0}, NEW x \in Int, NEW y \in Int, x <= y
  PROVE  x \div n <= y \div n
OBVIOUS

LEMMA KeyIsInt ==
  ASSUME NEW d \in Days
  PROVE  d \in Int /\ Offset[d] \in Int /\ Midnight(d) \in Int /\ DateKey(d) \in Int
<1>1. d \in Int /\ Offset[d] \in Int /\ DayTicks \in Nat \ {0} BY CalendarAssumption
<1>2. Midnight(d) \in Int BY <1>1 DEF Midnight
<1>3. DateKey(d) \in Int
  <2> DEFINE x == Midnight(d)
  <2> HIDE DEF x
  <2>1. x \in Int => x \div DayTicks \in Int BY <1>1
  <2> QED BY <2>1, <1>2 DEF x, DateKey, UtcDay
<1> QED BY <1>1, <1>2, <1>3

LEMMA MidnightsInOrder ==
  ASSUME NEW d \in Days, NEW e \in Days
  PROVE  /\ d < e => Midnight(d) < Midnight(e) /\ Midnight(d) + Hour < Midnight(e)
         /\ d <= e => Midnight(d) <= Midnight(e)
<1>1. d \in Int /\ e \in Int /\ Midnight(d) \in Int /\ Midnight(e) \in Int BY KeyIsInt
<1>2. Hour \in Nat /\ (d < e => Midnight(d) + Hour < Midnight(e)) BY CalendarAssumption
<1>3. d <= e => d < e \/ d = e BY <1>1
<1> QED BY <1>1, <1>2, <1>3

LEMMA KeysInOrder ==
  ASSUME NEW d \in Days, NEW e \in Days, d <= e
  PROVE  DateKey(d) <= DateKey(e)
<1>1. Midnight(d) <= Midnight(e) /\ DayTicks \in Nat \ {0} BY MidnightsInOrder, CalendarAssumption
<1>2. Midnight(d) \in Int /\ Midnight(e) \in Int BY KeyIsInt
<1>3. Midnight(d) \div DayTicks <= Midnight(e) \div DayTicks BY <1>1, <1>2, DivInOrder
<1> QED BY <1>3 DEF DateKey, UtcDay

LEMMA KeysFollow ==
  ASSUME OneSideOfUtc, NEW d \in Days, NEW e \in Days
  PROVE  DateKey(e) = DateKey(d) + (e - d)
<1>0. DayTicks \in Nat \ {0} BY CalendarAssumption
<1>1. CASE \A x \in Days : Offset[x] \in 1 .. DayTicks
  <2>1. ASSUME NEW x \in Days PROVE x \in Int /\ DateKey(x) = x - 1
    <3>1. x \in Int /\ Offset[x] \in 1 .. DayTicks /\ Midnight(x) \in Int BY <1>1, KeyIsInt
    <3>2. DayTicks * (x - 1) = x * DayTicks - DayTicks BY <1>0, <3>1
    <3>3. DayTicks * (x - 1) <= Midnight(x) /\ Midnight(x) < DayTicks * (x - 1) + DayTicks
      <4>1. x * DayTicks \in Int BY <1>0, <3>1
      <4> QED BY <1>0, <3>1, <3>2, <4>1 DEF Midnight
    <3>4. Midnight(x) \div DayTicks = x - 1 BY <1>0, <3>1, <3>3, DivIs
    <3> QED BY <3>1, <3>4 DEF DateKey, UtcDay
  <2> QED BY <2>1
<1>2. CASE \A x \in Days : Offset[x] \in -(DayTicks - 1) .. 0
  <2>1. ASSUME NEW x \in Days PROVE x \in Int /\ DateKey(x) = x
    <3>1. x \in Int /\ Offset[x] \in -(DayTicks - 1) .. 0 /\ Midnight(x) \in Int
      BY <1>2, KeyIsInt
    <3>2. DayTicks * x = x * DayTicks /\ x * DayTicks \in Int BY <1>0, <3>1
    <3>3. DayTicks * x <= Midnight(x) /\ Midnight(x) < DayTicks * x + DayTicks
      BY <1>0, <3>1, <3>2 DEF Midnight
    <3>4. Midnight(x) \div DayTicks = x BY <1>0, <3>1, <3>3, DivIs
    <3> QED BY <3>1, <3>4 DEF DateKey, UtcDay
  <2> QED BY <2>1
<1> QED BY <1>1, <1>2 DEF OneSideOfUtc

(* A Date stays within an hour of midnight, so that the turns of a loop    *)
(* are in order, and has the key of its day where that is one side of UTC. *)
LEMMA MovedIsNear ==
  ASSUME NEW d \in Days, NEW D
  PROVE  /\ Moved(d, D) \in Int /\ Midnight(d) \in Int
         /\ Midnight(d) <= Moved(d, D) /\ Moved(d, D) <= Midnight(d) + Hour
         /\ Moved(d, D) = Midnight(d) \/ (d \notin Skips /\ D \cap Skips # {} /\ Moved(d, D) > Midnight(d))
<1>1. Midnight(d) \in Int /\ Hour \in Nat \ {0} BY KeyIsInt, CalendarAssumption
<1>2. CASE d \notin Skips /\ D \cap Skips # {}
  <2>1. Moved(d, D) = Midnight(d) + Hour BY <1>2 DEF Moved
  <2> QED BY <1>1, <1>2, <2>1
<1>3. CASE ~(d \notin Skips /\ D \cap Skips # {})
  <2>1. Moved(d, D) = Midnight(d) + 0 BY <1>3 DEF Moved
  <2> QED BY <1>1, <2>1
<1> QED BY <1>2, <1>3

LEMMA MovedKeyIsInt == ASSUME NEW d \in Days, NEW D PROVE UtcDay(Moved(d, D)) \in Int
<1> DEFINE x == Moved(d, D)
<1>1. x \in Int BY MovedIsNear
<1>2. DayTicks \in Nat \ {0} BY CalendarAssumption
<1> HIDE DEF x
<1>3. x \div DayTicks \in Int BY <1>1, <1>2
<1> QED BY <1>3 DEF x, UtcDay

LEMMA MovedKey ==
  ASSUME OneSideOfUtc, NEW d \in Days, NEW D
  PROVE  UtcDay(Moved(d, D)) = DateKey(d)
<1>1. CASE d \notin Skips /\ D \cap Skips # {}
  <2>1. Moved(d, D) = Midnight(d) + Hour BY <1>1 DEF Moved
  <2>2. UtcDay(Midnight(d) + Hour) = DateKey(d) BY <1>1 DEF OneSideOfUtc
  <2> QED BY <2>1, <2>2
<1>2. CASE ~(d \notin Skips /\ D \cap Skips # {})
  <2>1. Moved(d, D) = Midnight(d) + 0 BY <1>2 DEF Moved
  <2>2. Moved(d, D) = Midnight(d) BY <2>1, KeyIsInt
  <2> QED BY <2>2 DEF DateKey
<1> QED BY <1>1, <1>2

(* A loop over the days from lo to hi whose cursor starts on lo ends with  *)
(* hi, or with the day before when the cursor is behind its end on hi.     *)
LEMMA LoopIsInterval ==
  ASSUME NEW lo \in Int, NEW hi \in Int, lo <= hi, lo .. hi \subseteq Days,
         NEW end \in Int, Midnight(hi) <= end
  PROVE  LET turns == {d \in lo .. hi : Cursor(lo, d) <= end} IN
         \E top \in lo .. hi :
           /\ turns = lo .. top
           /\ top = IF Cursor(lo, hi) <= end THEN hi ELSE hi - 1
<1> DEFINE turns == {d \in lo .. hi : Cursor(lo, d) <= end}
<1>1. ASSUME NEW d \in lo .. hi - 1 PROVE d \in turns
  <2>1. d \in Days /\ hi \in Days /\ d < hi BY lo .. hi \subseteq Days
  <2>2. Midnight(d) + Hour < Midnight(hi) BY <2>1, MidnightsInOrder
  <2>3. /\ Cursor(lo, d) \in Int /\ Cursor(lo, d) <= Midnight(d) + Hour
        /\ Midnight(d) \in Int /\ Midnight(hi) \in Int
    BY <2>1, MovedIsNear DEF Cursor
  <2>4. Hour \in Nat BY CalendarAssumption
  <2>5. Cursor(lo, d) <= end BY <2>2, <2>3, <2>4
  <2> QED BY <2>5
<1>2. CASE Cursor(lo, hi) <= end
  <2>1. turns = lo .. hi
    <3>1. \A d \in lo .. hi : d = hi \/ d \in lo .. hi - 1 OBVIOUS
    <3>2. hi \in turns BY <1>2
    <3> HIDE DEF turns
    <3>3. turns \subseteq lo .. hi BY DEF turns
    <3> QED BY <1>1, <3>1, <3>2, <3>3
  <2> QED BY <1>2, <2>1
<1>3. CASE ~(Cursor(lo, hi) <= end)
  <2>1. lo # hi
    <3>1. ASSUME lo = hi PROVE FALSE
      <4>1. lo .. hi = {hi} /\ hi \in Days BY <3>1
      <4>2. ~(hi \notin Skips /\ (lo .. hi) \cap Skips # {}) BY <4>1
      <4>3. Cursor(lo, hi) = Midnight(hi) BY <4>1, <4>2, MovedIsNear DEF Cursor
      <4> QED BY <4>3, <1>3
    <3> QED BY <3>1
  <2>2. turns = lo .. hi - 1
    <3>1. \A d \in lo .. hi : d = hi \/ d \in lo .. hi - 1 OBVIOUS
    <3>2. hi \notin turns BY <1>3
    <3>3. turns \subseteq lo .. hi OBVIOUS
    <3>4. hi \notin lo .. hi - 1 /\ lo .. hi - 1 \subseteq lo .. hi OBVIOUS
    <3> HIDE DEF turns
    <3> QED BY <1>1, <3>1, <3>2, <3>3, <3>4
  <2>3. hi - 1 \in lo .. hi BY <2>1
  <2> QED BY <1>3, <2>2, <2>3
<1> QED BY <1>2, <1>3

(* A day is in one month only. *)
LEMMA MonthIsOne ==
  ASSUME NEW d \in Int, NEW m \in Months, NEW n \in Months, m + 1 \in Months, n + 1 \in Months,
         MonthStart[m] <= d, d < MonthStart[m + 1], MonthStart[n] <= d, d < MonthStart[n + 1]
  PROVE  m = n
<1>1. m \in Int /\ n \in Int /\ MonthStart[m] \in Int /\ MonthStart[n] \in Int
      /\ MonthStart[m + 1] \in Int /\ MonthStart[n + 1] \in Int
  BY CalendarAssumption
<1>2. ASSUME m < n PROVE FALSE
  <2>1. m + 1 = n \/ m + 1 < n BY <1>1, <1>2
  <2>2. MonthStart[m + 1] <= MonthStart[n] BY <2>1, <1>1, CalendarAssumption
  <2> QED BY <2>2, <1>1
<1>3. ASSUME n < m PROVE FALSE
  <2>1. n + 1 = m \/ n + 1 < m BY <1>1, <1>3
  <2>2. MonthStart[n + 1] <= MonthStart[m] BY <2>1, <1>1, CalendarAssumption
  <2> QED BY <2>2, <1>1
<1> QED BY <1>1, <1>2, <1>3

-----------------------------------------------------------------------------
(* The rows: written by Create alone, which adds one. *)

LedgerTyped == movements \in SUBSET Movements /\ IsFiniteSet(movements) /\ marks \in SUBSET Marks

LEMMA MovementFacts ==
  ASSUME NEW m \in Movements
  PROVE  m.table \in Tables /\ m.amount \in Nat /\ m.day \in Int
BY LedgerAssumption

LEMMA LedgerIsCounted ==
  ASSUME LedgerTyped, NEW S \in SUBSET movements
  PROVE  Counted(S) /\ \A m \in S : m.day \in Int /\ m.table \in Tables
BY MovementFacts, FS_Subset DEF LedgerTyped, Counted

LEMMA OpeningsAreNat == ASSUME LedgerTyped, NEW t PROVE BalancesAt(t) \subseteq Nat
<1> DEFINE B == {b \in Of({"balance"}) : b.at <= t}
<1>1. B \subseteq Marks BY DEF LedgerTyped, Of
<1>2. \A r \in LatestOf(B) : r = None \/ r \in Marks BY <1>1 DEF LatestOf
<1>3. \A r \in Marks : r.amount \in Nat BY LedgerAssumption
<1>4. \A r \in LatestOf(B) : Worth(r) \in Nat BY <1>2, <1>3 DEF Worth
<1> HIDE DEF B
<1>5. {Worth(r) : r \in LatestOf(B)} \subseteq Nat BY <1>4
<1> QED BY <1>5 DEF BalancesAt, B

(* The ledger only grows, by one row at a time. *)
LEMMA CreateGrows ==
  ASSUME LedgerTyped, Create
  PROVE  /\ LedgerTyped'
         /\ movements \subseteq movements' /\ marks \subseteq marks'
<1>1. ASSUME NEW table, CreateMovement(table)
      PROVE  LedgerTyped' /\ movements \subseteq movements' /\ marks \subseteq marks'
  <2>1. PICK m \in Movements : movements' = movements \cup {m} /\ marks' = marks
    BY <1>1 DEF CreateMovement
  <2>2. IsFiniteSet(movements') BY <2>1, FS_AddElement DEF LedgerTyped
  <2> QED BY <2>1, <2>2 DEF LedgerTyped
<1>2. ASSUME NEW kinds, CreateMark(kinds)
      PROVE  LedgerTyped' /\ movements \subseteq movements' /\ marks \subseteq marks'
  <2>1. PICK r \in Marks : marks' = marks \cup {r} /\ movements' = movements
    BY <1>2 DEF CreateMark
  <2> QED BY <2>1 DEF LedgerTyped
<1> QED BY <1>1, <1>2
        DEF Create, CreateEntry, CreateProvision, CreateBalance, CreateStock, CreateReserve

=============================================================================
