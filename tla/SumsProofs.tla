------------------------------ MODULE SumsProofs ------------------------------
(***************************************************************************)
(* What SumFunctionOnSet computes: the facts about sums that the accounts  *)
(* and the fills of the order book are proved with.  The operator takes    *)
(* the elements of a set one by one, in an order of its own; the lemmas    *)
(* say that the order does not matter.  They are proved by taking the      *)
(* smallest subset for which they fail.                                    *)
(***************************************************************************)
EXTENDS Integers, FiniteSets, Functions, FiniteSetTheorems, WellFoundedInduction, TLAPS

\* The element that is taken first.
First(s) == CHOOSE x \in s : TRUE

\* Function g holds the sum for every subset of S.
IsSum(g, f, S) ==
  g = [s \in SUBSET S |-> IF s = {} THEN 0 ELSE f[First(s)] + g[s \ {First(s)}]]

LEMMA SumIs ==
  ASSUME NEW f, NEW S
  PROVE  SumFunctionOnSet(f, S) = (CHOOSE g : IsSum(g, f, S))[S]
BY DEF SumFunctionOnSet, FoldFunctionOnSet, MapThenFoldSet, IsSum, First

LEMMA FirstIn ==
  ASSUME NEW s, s # {}
  PROVE  First(s) \in s
BY DEF First

\* A set of subsets of a finite set has a smallest member.
LEMMA MinimalSubset ==
  ASSUME NEW S, IsFiniteSet(S), NEW B, B \subseteq SUBSET S, B # {}
  PROVE  \E m \in B : \A t \in B : t \subseteq m => t = m
<1>1. IsWellFoundedOn(StrictSubsetOrdering(S), SUBSET S)
  BY FS_StrictSubsetOrderingWellFounded, FS_FiniteSubsetsOfFinite
<1>2. PICK m \in B : \A t \in B : ~(<<t, m>> \in StrictSubsetOrdering(S))
  BY <1>1, WFMin
<1> QED
  BY <1>2 DEF StrictSubsetOrdering

-----------------------------------------------------------------------------
(* The recursive function is well defined.                                 *)

\* What the function holds for a subset.
LEMMA IsSumAt ==
  ASSUME NEW S, NEW f, NEW g, IsSum(g, f, S), NEW s \in SUBSET S
  PROVE  g[s] = IF s = {} THEN 0 ELSE f[First(s)] + g[s \ {First(s)}]
<1> DEFINE e(t) == IF t = {} THEN 0 ELSE f[First(t)] + g[t \ {First(t)}]
<1>1. g = [t \in SUBSET S |-> e(t)]
  BY DEF IsSum
<1> HIDE DEF e
<1>2. g[s] = e(s)
  BY <1>1
<1> QED
  BY <1>2 DEF e

\* Two such functions are the same.
LEMMA SumUnique ==
  ASSUME NEW S, IsFiniteSet(S), NEW f, NEW g, NEW h, IsSum(g, f, S), IsSum(h, f, S)
  PROVE  \A s \in SUBSET S : g[s] = h[s]
<1> DEFINE B == {s \in SUBSET S : g[s] # h[s]}
<1> SUFFICES ASSUME B # {} PROVE FALSE
  OBVIOUS
<1>1. PICK m \in B : \A t \in B : t \subseteq m => t = m
  <2>1. B \subseteq SUBSET S
    OBVIOUS
  <2> HIDE DEF B
  <2> QED
    BY <2>1, MinimalSubset
<1>2. m \in SUBSET S /\ g[m] # h[m]
  BY <1>1
<1>3. /\ g[m] = IF m = {} THEN 0 ELSE f[First(m)] + g[m \ {First(m)}]
      /\ h[m] = IF m = {} THEN 0 ELSE f[First(m)] + h[m \ {First(m)}]
  BY <1>2, IsSumAt
<1>4. m # {}
  BY <1>2, <1>3
<1>5. First(m) \in m
  BY <1>4, FirstIn
<1>6. m \ {First(m)} \notin B /\ m \ {First(m)} \in SUBSET S
  BY <1>1, <1>2, <1>5
<1>7. g[m \ {First(m)}] = h[m \ {First(m)}]
  BY <1>6
<1> QED
  BY <1>2, <1>3, <1>4, <1>7

\* Restricted to the subsets of a subset it is the function for that subset.
LEMMA SumRestricted ==
  ASSUME NEW S, NEW f, NEW g, IsSum(g, f, S), NEW T \in SUBSET S
  PROVE  IsSum([s \in SUBSET T |-> g[s]], f, T)
<1> DEFINE h == [s \in SUBSET T |-> g[s]]
           e(s) == IF s = {} THEN 0 ELSE f[First(s)] + h[s \ {First(s)}]
<1>1. ASSUME NEW s \in SUBSET T PROVE g[s] = e(s)
  <2>1. g[s] = IF s = {} THEN 0 ELSE f[First(s)] + g[s \ {First(s)}]
    BY IsSumAt
  <2>2. h[s \ {First(s)}] = g[s \ {First(s)}]
    OBVIOUS
  <2> QED
    BY <2>1, <2>2
<1> HIDE DEF e
<1>2. h = [s \in SUBSET T |-> e(s)]
  BY <1>1
<1> QED
  BY <1>2 DEF IsSum, e

\* The sums of the subsets of S are such a function.
Sums(f, S) == [s \in SUBSET S |-> SumFunctionOnSet(f, s)]

\* If that holds for every smaller set it holds for S.
LEMMA SumsStep ==
  ASSUME NEW S, IsFiniteSet(S), NEW f,
         \A T \in SUBSET S : T # S => IsSum(Sums(f, T), f, T)
  PROVE  IsSum(Sums(f, S), f, S)
<1> DEFINE V(s) == SumFunctionOnSet(f, s)
           e(s) == IF s = {} THEN 0 ELSE f[First(s)] + V(s \ {First(s)})
<1>1. ASSUME NEW s \in SUBSET S, s # S
      PROVE  V(s) = e(s)
  <2>1. IsSum(Sums(f, s), f, s)
    BY <1>1
  <2>2. Sums(f, s)[s] = IF s = {} THEN 0 ELSE f[First(s)] + Sums(f, s)[s \ {First(s)}]
    BY <2>1, IsSumAt
  <2>3. Sums(f, s)[s] = V(s) /\ Sums(f, s)[s \ {First(s)}] = V(s \ {First(s)})
    BY DEF Sums
  <2> QED
    BY <2>2, <2>3
<1> DEFINE k == [s \in SUBSET S |-> IF s = S THEN e(S) ELSE V(s)]
           d(s) == IF s = {} THEN 0 ELSE f[First(s)] + k[s \ {First(s)}]
<1>2. IsSum(k, f, S)
  <2>1. ASSUME NEW s \in SUBSET S PROVE (IF s = S THEN e(S) ELSE V(s)) = d(s)
    <3>1. (IF s = S THEN e(S) ELSE V(s)) = e(s)
      BY <1>1
    <3>2. ASSUME s # {} PROVE k[s \ {First(s)}] = V(s \ {First(s)})
      <4>1. First(s) \in s
        BY <3>2, FirstIn
      <4> HIDE DEF V, e
      <4> QED
        BY <4>1
    <3> HIDE DEF V, k
    <3> QED
      BY <3>1, <3>2
  <2> HIDE DEF V, e, d
  <2>2. k = [s \in SUBSET S |-> d(s)]
    BY <2>1
  <2> QED
    BY <2>2 DEF IsSum, d
<1>3. PICK g : g = (CHOOSE x : IsSum(x, f, S)) /\ IsSum(g, f, S)
  BY <1>2
<1>4. V(S) = g[S]
  BY <1>3, SumIs
<1>5. g[S] = IF S = {} THEN 0 ELSE f[First(S)] + g[S \ {First(S)}]
  BY <1>3, IsSumAt
<1>6. \A s \in SUBSET S : g[s] = k[s]
  <2> HIDE DEF k
  <2> QED
    BY <1>2, <1>3, SumUnique
<1>7. V(S) = e(S)
  <2> HIDE DEF V, e
  <2>1. k[S] = e(S)
    OBVIOUS
  <2> QED
    BY <1>4, <1>6, <2>1
<1>8. \A s \in SUBSET S : V(s) = e(s)
  <2> HIDE DEF V, e
  <2> QED
    BY <1>1, <1>7
<1> DEFINE c(s) == IF s = {} THEN 0 ELSE f[First(s)] + Sums(f, S)[s \ {First(s)}]
<1>9. ASSUME NEW s \in SUBSET S PROVE V(s) = c(s)
  <2>1. Sums(f, S)[s \ {First(s)}] = V(s \ {First(s)})
    BY DEF Sums
  <2> HIDE DEF V
  <2> QED
    BY <1>8, <2>1
<1> HIDE DEF c
<1>10. Sums(f, S) = [s \in SUBSET S |-> c(s)]
  BY <1>9 DEF Sums
<1> QED
  BY <1>10 DEF IsSum, c

LEMMA SumsAreSums ==
  ASSUME NEW S, IsFiniteSet(S), NEW f
  PROVE  IsSum(Sums(f, S), f, S)
<1> DEFINE B == {T \in SUBSET S : ~IsSum(Sums(f, T), f, T)}
<1>1. B = {}
  <2> SUFFICES ASSUME B # {} PROVE FALSE
    OBVIOUS
  <2>1. PICK m \in B : \A t \in B : t \subseteq m => t = m
    <3>1. B \subseteq SUBSET S
      OBVIOUS
    <3> HIDE DEF B
    <3> QED
      BY <3>1, MinimalSubset
  <2>2. m \in SUBSET S /\ ~IsSum(Sums(f, m), f, m)
    BY <2>1
  <2>3. \A T \in SUBSET m : T # m => IsSum(Sums(f, T), f, T)
    BY <2>1, <2>2
  <2>4. IsFiniteSet(m)
    BY <2>2, FS_Subset
  <2> QED
    BY <2>2, <2>3, <2>4, SumsStep
<1> QED
  BY <1>1

-----------------------------------------------------------------------------
(* Sums.                                                                   *)

\* The sum over the empty set.
LEMMA SumEmpty ==
  ASSUME NEW f
  PROVE  SumFunctionOnSet(f, {}) = 0
<1>1. IsSum(Sums(f, {}), f, {})
  BY SumsAreSums, FS_EmptySet
<1>2. Sums(f, {})[{}] = 0
  BY <1>1, IsSumAt
<1> QED
  BY <1>2 DEF Sums

\* The element taken first, and the rest.
LEMMA SumFirst ==
  ASSUME NEW f, NEW S, IsFiniteSet(S), S # {}
  PROVE  SumFunctionOnSet(f, S) = f[First(S)] + SumFunctionOnSet(f, S \ {First(S)})
<1>1. IsSum(Sums(f, S), f, S)
  BY SumsAreSums
<1>2. Sums(f, S)[S] = f[First(S)] + Sums(f, S)[S \ {First(S)}]
  BY <1>1, IsSumAt
<1> QED
  BY <1>2 DEF Sums

\* Sums of integers are integers.
LEMMA SumType ==
  ASSUME NEW f, NEW S, IsFiniteSet(S), \A x \in S : f[x] \in Int
  PROVE  SumFunctionOnSet(f, S) \in Int
<1> DEFINE B == {T \in SUBSET S : SumFunctionOnSet(f, T) \notin Int}
<1> SUFFICES ASSUME B # {} PROVE FALSE
  OBVIOUS
<1>1. PICK m \in B : \A t \in B : t \subseteq m => t = m
  <2>1. B \subseteq SUBSET S
    OBVIOUS
  <2> HIDE DEF B
  <2> QED
    BY <2>1, MinimalSubset
<1>2. m \in SUBSET S /\ SumFunctionOnSet(f, m) \notin Int
  BY <1>1
<1>3. m # {} /\ IsFiniteSet(m)
  <2> HIDE DEF B
  <2>1. m # {}
    <3> SUFFICES ASSUME m = {} PROVE FALSE
      OBVIOUS
    <3>1. SumFunctionOnSet(f, m) = 0
      BY SumEmpty
    <3> QED
      BY <1>2, <3>1
  <2>2. IsFiniteSet(m)
    BY <1>2, FS_Subset
  <2> QED
    BY <2>1, <2>2
<1>4. First(m) \in m /\ SumFunctionOnSet(f, m) = f[First(m)] + SumFunctionOnSet(f, m \ {First(m)})
  BY <1>3, FirstIn, SumFirst
<1>5. m \ {First(m)} \in SUBSET S /\ m \ {First(m)} \notin B
  BY <1>1, <1>2, <1>4
<1>6. SumFunctionOnSet(f, m \ {First(m)}) \in Int /\ f[First(m)] \in Int
  BY <1>2, <1>4, <1>5
<1> QED
  BY <1>2, <1>4, <1>6

\* Any element may be taken first.
LEMMA SumElement ==
  ASSUME NEW f, NEW S, IsFiniteSet(S), \A x \in S : f[x] \in Int, NEW a \in S
  PROVE  SumFunctionOnSet(f, S) = f[a] + SumFunctionOnSet(f, S \ {a})
<1> DEFINE V(s) == SumFunctionOnSet(f, s)
           B == {T \in SUBSET S : \E x \in T : V(T) # f[x] + V(T \ {x})}
<1> SUFFICES ASSUME B # {} PROVE FALSE
  OBVIOUS
<1>1. PICK m \in B : \A t \in B : t \subseteq m => t = m
  <2>1. B \subseteq SUBSET S
    OBVIOUS
  <2> HIDE DEF B
  <2> QED
    BY <2>1, MinimalSubset
<1>2. PICK x \in m : V(m) # f[x] + V(m \ {x})
  BY <1>1
<1> DEFINE p == First(m)
<1>3. m \in SUBSET S /\ IsFiniteSet(m) /\ p \in m
  BY <1>1, <1>2, FS_Subset, FirstIn
<1>4. V(m) = f[p] + V(m \ {p})
  BY <1>2, <1>3, SumFirst
<1>5. x # p
  BY <1>2, <1>4
<1>6. V(m \ {p}) = f[x] + V((m \ {p}) \ {x})
  <2>1. m \ {p} \in SUBSET S /\ m \ {p} \notin B /\ x \in m \ {p}
    BY <1>1, <1>3, <1>5
  <2> QED
    BY <2>1
<1>7. V(m \ {x}) = f[p] + V((m \ {x}) \ {p})
  <2>1. m \ {x} \in SUBSET S /\ m \ {x} \notin B /\ p \in m \ {x}
    BY <1>1, <1>3, <1>5
  <2> QED
    BY <2>1
<1>8. (m \ {x}) \ {p} = (m \ {p}) \ {x}
  OBVIOUS
<1>9. f[x] \in Int /\ f[p] \in Int /\ V((m \ {p}) \ {x}) \in Int
  <2>1. IsFiniteSet((m \ {p}) \ {x}) /\ (m \ {p}) \ {x} \subseteq S
    BY <1>3, FS_Subset
  <2> QED
    BY <1>3, <2>1, SumType
<1>10. V((m \ {x}) \ {p}) = V((m \ {p}) \ {x})
  BY <1>8
<1> HIDE DEF V, p, B
<1> QED
  BY <1>2, <1>4, <1>6, <1>7, <1>9, <1>10

\* Larger summands have a larger sum.
LEMMA SumMonotone ==
  ASSUME NEW f, NEW g, NEW S, IsFiniteSet(S),
         \A x \in S : f[x] \in Int /\ g[x] \in Int /\ f[x] <= g[x]
  PROVE  SumFunctionOnSet(f, S) <= SumFunctionOnSet(g, S)
<1> DEFINE B == {T \in SUBSET S : ~(SumFunctionOnSet(f, T) <= SumFunctionOnSet(g, T))}
<1> SUFFICES ASSUME B # {} PROVE FALSE
  OBVIOUS
<1>1. PICK m \in B : \A t \in B : t \subseteq m => t = m
  <2>1. B \subseteq SUBSET S
    OBVIOUS
  <2> HIDE DEF B
  <2> QED
    BY <2>1, MinimalSubset
<1>2. m \in SUBSET S /\ ~(SumFunctionOnSet(f, m) <= SumFunctionOnSet(g, m))
  BY <1>1
<1>3. m # {} /\ IsFiniteSet(m)
  <2> HIDE DEF B
  <2>1. m # {}
    <3> SUFFICES ASSUME m = {} PROVE FALSE
      OBVIOUS
    <3>1. SumFunctionOnSet(f, m) = 0 /\ SumFunctionOnSet(g, m) = 0
      BY SumEmpty
    <3> QED
      BY <1>2, <3>1
  <2>2. IsFiniteSet(m)
    BY <1>2, FS_Subset
  <2> QED
    BY <2>1, <2>2
<1> DEFINE p == First(m)
           n == m \ {p}
<1>4. /\ p \in m
      /\ SumFunctionOnSet(f, m) = f[p] + SumFunctionOnSet(f, n)
      /\ SumFunctionOnSet(g, m) = g[p] + SumFunctionOnSet(g, n)
  BY <1>3, FirstIn, SumFirst
<1>5. n \in SUBSET S /\ n \notin B /\ IsFiniteSet(n)
  BY <1>1, <1>2, <1>3, <1>4, FS_Subset
<1>6. SumFunctionOnSet(f, n) <= SumFunctionOnSet(g, n)
  BY <1>5
<1>7. SumFunctionOnSet(f, n) \in Int /\ SumFunctionOnSet(g, n) \in Int
  BY <1>5, SumType
<1>8. f[p] \in Int /\ g[p] \in Int /\ f[p] <= g[p]
  BY <1>2, <1>4
<1> HIDE DEF p, n
<1> QED
  BY <1>2, <1>4, <1>6, <1>7, <1>8

\* The sum depends on the values at the summed indices only.
LEMMA SumSame ==
  ASSUME NEW f, NEW g, NEW S, IsFiniteSet(S), \A x \in S : f[x] \in Int /\ g[x] = f[x]
  PROVE  SumFunctionOnSet(f, S) = SumFunctionOnSet(g, S)
<1>1. /\ SumFunctionOnSet(f, S) \in Int /\ SumFunctionOnSet(g, S) \in Int
  BY SumType
<1>2. SumFunctionOnSet(f, S) <= SumFunctionOnSet(g, S)
  BY SumMonotone
<1>3. SumFunctionOnSet(g, S) <= SumFunctionOnSet(f, S)
  BY SumMonotone
<1> QED
  BY <1>1, <1>2, <1>3

\* Indices that contribute nothing can be left out.
LEMMA SumZeros ==
  ASSUME NEW f, NEW S, IsFiniteSet(S), NEW T \in SUBSET S,
         \A x \in T : f[x] \in Int, \A x \in S \ T : f[x] = 0
  PROVE  SumFunctionOnSet(f, S) = SumFunctionOnSet(f, T)
<1> DEFINE W == S \ T
           B == {U \in SUBSET W : SumFunctionOnSet(f, T \cup U) # SumFunctionOnSet(f, T)}
<1>0. IsFiniteSet(W) /\ T \cup W = S /\ \A x \in S : f[x] \in Int
  BY FS_Subset
<1>1. B = {}
  <2> SUFFICES ASSUME B # {} PROVE FALSE
    OBVIOUS
  <2>1. PICK m \in B : \A t \in B : t \subseteq m => t = m
    <3>1. B \subseteq SUBSET W
      OBVIOUS
    <3> HIDE DEF B, W
    <3> QED
      BY <1>0, <3>1, MinimalSubset
  <2>2. m \in SUBSET W /\ SumFunctionOnSet(f, T \cup m) # SumFunctionOnSet(f, T)
    BY <2>1
  <2>3. m # {}
    BY <2>2
  <2>4. PICK x \in m : TRUE
    BY <2>3
  <2>5. /\ f[x] = 0
        /\ T \cup m \subseteq S /\ IsFiniteSet(T \cup m) /\ x \in T \cup m
        /\ (T \cup m) \ {x} = T \cup (m \ {x})
    BY <2>2, <2>4, FS_Subset
  <2>6. SumFunctionOnSet(f, T \cup m) = f[x] + SumFunctionOnSet(f, (T \cup m) \ {x})
    BY <1>0, <2>5, SumElement
  <2>7. SumFunctionOnSet(f, T \cup (m \ {x})) = SumFunctionOnSet(f, T)
    <3>1. m \ {x} \in SUBSET W /\ m \ {x} \notin B
      BY <2>1, <2>2, <2>4
    <3> QED
      BY <3>1
  <2>8. SumFunctionOnSet(f, T) \in Int
    BY FS_Subset, SumType
  <2>9. SumFunctionOnSet(f, (T \cup m) \ {x}) = SumFunctionOnSet(f, T \cup (m \ {x}))
    BY <2>5
  <2>10. f[x] = 0
    BY <2>5
  <2> HIDE DEF B, W
  <2> QED
    BY <2>2, <2>6, <2>7, <2>8, <2>9, <2>10
<1>2. W \notin B /\ W \in SUBSET W
  BY <1>1
<1> QED
  BY <1>0, <1>2

\* A summand that changes changes the sum by as much.
LEMMA SumChange ==
  ASSUME NEW f, NEW g, NEW S, IsFiniteSet(S), NEW a \in S,
         \A x \in S : f[x] \in Int /\ g[x] \in Int,
         \A x \in S \ {a} : g[x] = f[x]
  PROVE  SumFunctionOnSet(g, S) = SumFunctionOnSet(f, S) + (g[a] - f[a])
<1>1. /\ SumFunctionOnSet(f, S) = f[a] + SumFunctionOnSet(f, S \ {a})
      /\ SumFunctionOnSet(g, S) = g[a] + SumFunctionOnSet(g, S \ {a})
  BY SumElement
<1>2. IsFiniteSet(S \ {a})
  BY FS_Subset
<1>3. SumFunctionOnSet(f, S \ {a}) = SumFunctionOnSet(g, S \ {a})
  BY <1>2, SumSame
<1>4. SumFunctionOnSet(f, S \ {a}) \in Int
  BY <1>2, SumType
<1> QED
  BY <1>1, <1>3, <1>4

\* At most one summand changes, by d.
LEMMA SumShift ==
  ASSUME NEW f, NEW g, NEW S, IsFiniteSet(S), NEW a, NEW d \in Int,
         \A x \in S : f[x] \in Int,
         \A x \in S : g[x] = IF x = a THEN f[x] + d ELSE f[x]
  PROVE  SumFunctionOnSet(g, S) = SumFunctionOnSet(f, S) + (IF a \in S THEN d ELSE 0)
<1>0. SumFunctionOnSet(f, S) \in Int
  BY SumType
<1>1. CASE a \in S
  <2>1. /\ \A x \in S : f[x] \in Int /\ g[x] \in Int
        /\ \A x \in S \ {a} : g[x] = f[x]
        /\ f[a] \in Int /\ g[a] - f[a] = d
    BY <1>1
  <2>2. SumFunctionOnSet(g, S) = SumFunctionOnSet(f, S) + (g[a] - f[a])
    BY <1>1, <2>1, SumChange
  <2> QED
    BY <1>1, <2>1, <2>2
<1>2. CASE a \notin S
  <2>1. SumFunctionOnSet(f, S) = SumFunctionOnSet(g, S)
    BY <1>2, SumSame
  <2> QED
    BY <1>0, <1>2, <2>1
<1> QED
  BY <1>1, <1>2

\* One more index adds its summand.
LEMMA SumAdd ==
  ASSUME NEW f, NEW g, NEW S, NEW R, IsFiniteSet(S), NEW a, a \notin S, R = S \cup {a},
         \A x \in S : f[x] \in Int, \A x \in S : g[x] = f[x], g[a] \in Int
  PROVE  SumFunctionOnSet(g, R) = SumFunctionOnSet(f, S) + g[a]
<1>1. IsFiniteSet(R) /\ R \ {a} = S /\ a \in R
  BY FS_AddElement
<1>2. SumFunctionOnSet(g, R) = g[a] + SumFunctionOnSet(g, R \ {a})
  <2>1. \A x \in R : g[x] \in Int
    OBVIOUS
  <2> QED
    BY <1>1, <2>1, SumElement
<1>3. SumFunctionOnSet(g, S) = SumFunctionOnSet(f, S) /\ SumFunctionOnSet(f, S) \in Int
  BY SumSame, SumType
<1>4. SumFunctionOnSet(g, R) = g[a] + SumFunctionOnSet(g, S)
  BY <1>1, <1>2
<1> QED
  BY <1>3, <1>4

\* A sum of sums.
LEMMA SumPlus ==
  ASSUME NEW f, NEW g, NEW h, NEW S, IsFiniteSet(S),
         \A x \in S : f[x] \in Int /\ g[x] \in Int /\ h[x] = f[x] + g[x]
  PROVE  SumFunctionOnSet(h, S) = SumFunctionOnSet(f, S) + SumFunctionOnSet(g, S)
<1> DEFINE P(T) == SumFunctionOnSet(h, T) = SumFunctionOnSet(f, T) + SumFunctionOnSet(g, T)
           B == {T \in SUBSET S : ~P(T)}
<1> SUFFICES ASSUME B # {} PROVE FALSE
  OBVIOUS
<1>1. PICK m \in B : \A t \in B : t \subseteq m => t = m
  <2>1. B \subseteq SUBSET S
    OBVIOUS
  <2> HIDE DEF B
  <2> QED
    BY <2>1, MinimalSubset
<1>2. m \in SUBSET S /\ ~P(m)
  BY <1>1
<1>3. m # {} /\ IsFiniteSet(m)
  <2> HIDE DEF B
  <2>1. m # {}
    <3> SUFFICES ASSUME m = {} PROVE FALSE
      OBVIOUS
    <3>1. /\ SumFunctionOnSet(f, m) = 0 /\ SumFunctionOnSet(g, m) = 0
          /\ SumFunctionOnSet(h, m) = 0
      BY SumEmpty
    <3> QED
      BY <1>2, <3>1
  <2>2. IsFiniteSet(m)
    BY <1>2, FS_Subset
  <2> QED
    BY <2>1, <2>2
<1> DEFINE p == First(m)
           n == m \ {p}
<1>4. /\ p \in m
      /\ SumFunctionOnSet(f, m) = f[p] + SumFunctionOnSet(f, n)
      /\ SumFunctionOnSet(g, m) = g[p] + SumFunctionOnSet(g, n)
      /\ SumFunctionOnSet(h, m) = h[p] + SumFunctionOnSet(h, n)
  BY <1>3, FirstIn, SumFirst
<1>5. n \in SUBSET S /\ n \notin B /\ IsFiniteSet(n)
  BY <1>1, <1>2, <1>3, <1>4, FS_Subset
<1>6. SumFunctionOnSet(h, n) = SumFunctionOnSet(f, n) + SumFunctionOnSet(g, n)
  BY <1>5
<1>7. SumFunctionOnSet(f, n) \in Int /\ SumFunctionOnSet(g, n) \in Int
  BY <1>5, SumType
<1>8. f[p] \in Int /\ g[p] \in Int /\ h[p] = f[p] + g[p]
  BY <1>2, <1>4
<1> HIDE DEF p, n, B
<1> QED
  BY <1>2, <1>4, <1>6, <1>7, <1>8

\* A sum over one index.
LEMMA SumOne ==
  ASSUME NEW f, NEW a, f[a] \in Int
  PROVE  SumFunctionOnSet(f, {a}) = f[a]
<1>1. IsFiniteSet({a}) /\ {a} \ {a} = {}
  BY FS_Singleton
<1>2. SumFunctionOnSet(f, {a}) = f[a] + SumFunctionOnSet(f, {})
  BY <1>1, SumElement
<1> QED
  BY <1>2, SumEmpty

\* Nothing but zeros.
LEMMA SumNothing ==
  ASSUME NEW f, NEW S, IsFiniteSet(S), \A x \in S : f[x] = 0
  PROVE  SumFunctionOnSet(f, S) = 0
<1>1. SumFunctionOnSet(f, S) = SumFunctionOnSet(f, {})
  BY SumZeros
<1> QED
  BY <1>1, SumEmpty

=============================================================================
