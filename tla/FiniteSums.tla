----------------------------- MODULE FiniteSums -----------------------------
(***************************************************************************)
(* Sums over finite sets, as SumFunctionOnSet of the community modules     *)
(* computes them: what the proofs about budgets need to know of them.      *)
(*                                                                         *)
(* SumFunctionOnSet is a recursive function over the subsets of the set it *)
(* sums.  Each fact is shown by looking at a smallest subset that has no   *)
(* such function, or on which the fact fails: that needs the existence of  *)
(* a least number only, which is WFMin for the order of the naturals.      *)
(*                                                                         *)
(* The last section says the same of rows taken in the order of their      *)
(* numbers (InOrder): every finite set of numbers has one.                 *)
(***************************************************************************)
EXTENDS Integers, Sequences, FiniteSets, Ordered, Functions, FiniteSetTheorems, SequenceTheorems, WellFoundedInduction, TLAPS

LEMMA LeastElement ==
  ASSUME NEW T, T \subseteq Nat, T # {}
  PROVE  \E n \in T : \A m \in T : n <= m
<1> DEFINE R == {p \in Nat \X Nat : p[1] < p[2]}
<1>1. IsWellFoundedOn(R, Nat)
  BY NatLessThanWellFounded DEF OpToRel
<1>2. \E n \in T : \A m \in T : ~ (<<m, n>> \in R)
  BY <1>1, WFMin
<1>3. \A m, n \in Nat : ~ (<<m, n>> \in R) => n <= m
  OBVIOUS
<1> QED
  BY <1>2, <1>3

\* The element the fold takes first.
Pick(s) == CHOOSE x \in s : TRUE

LEMMA PickIsIn ==
  ASSUME NEW s, s # {}
  PROVE  Pick(s) \in s
BY DEF Pick

\* g sums w over the subsets of S of at most n elements.
SumsUpTo(g, w, S, n) ==
  \A s \in SUBSET S : Cardinality(s) <= n =>
    g[s] = IF s = {} THEN 0 ELSE w[Pick(s)] + g[s \ {Pick(s)}]

LEMMA TakeOut ==
  ASSUME NEW S, IsFiniteSet(S), NEW s \in SUBSET S
  PROVE  /\ IsFiniteSet(s) /\ Cardinality(s) \in Nat
         /\ \A x \in s : Cardinality(s \ {x}) = Cardinality(s) - 1 /\ Cardinality(s) >= 1
         /\ s # {} => Pick(s) \in s
<1>1. IsFiniteSet(s) /\ Cardinality(s) \in Nat
  BY FS_Subset, FS_CardinalityType
<1>2. ASSUME NEW x \in s PROVE Cardinality(s \ {x}) = Cardinality(s) - 1 /\ Cardinality(s) >= 1
  <2>1. Cardinality(s \ {x}) = Cardinality(s) - 1
    BY <1>1, FS_RemoveElement
  <2>2. Cardinality(s) # 0
    BY <1>1, FS_EmptySet
  <2> QED
    BY <1>1, <2>1, <2>2
<1> QED
  BY <1>1, <1>2, PickIsIn

\* Such a function exists, for every n ...
LEMMA SumsExist ==
  ASSUME NEW S, IsFiniteSet(S), NEW w
  PROVE  \A n \in Nat : \E g : SumsUpTo(g, w, S, n)
<1> DEFINE Bad == {n \in Nat : ~ \E g : SumsUpTo(g, w, S, n)}
<1>1. SUFFICES ASSUME Bad # {} PROVE FALSE
  OBVIOUS
<1>2. PICK n \in Bad : \A m \in Bad : n <= m
  BY <1>1, LeastElement
<1>3. PICK h : n > 0 => SumsUpTo(h, w, S, n - 1)
  <2>1. CASE n = 0
    BY <2>1
  <2>2. CASE n > 0
    <3>1. n - 1 \in Nat /\ n - 1 \notin Bad
      BY <1>2, <2>2
    <3> QED
      BY <3>1
  <2> QED
    BY <1>2, <2>1, <2>2
<1> DEFINE g == [s \in SUBSET S |-> IF s = {} THEN 0 ELSE w[Pick(s)] + h[s \ {Pick(s)}]]
<1>4. ASSUME NEW s \in SUBSET S, Cardinality(s) <= n, s # {}
      PROVE  g[s] = w[Pick(s)] + g[s \ {Pick(s)}]
  <2> DEFINE t == s \ {Pick(s)}
  <2>1. t \in SUBSET S /\ Cardinality(t) <= n - 1 /\ n > 0
    BY <1>4, <1>2, TakeOut
  <2>2. SumsUpTo(h, w, S, n - 1)
    BY <1>3, <2>1
  <2>3. h[t] = IF t = {} THEN 0 ELSE w[Pick(t)] + h[t \ {Pick(t)}]
    BY <2>1, <2>2 DEF SumsUpTo
  <2>4. h[t] = g[t]
    BY <2>1, <2>3
  <2> QED
    BY <1>4, <2>4
<1>5. SumsUpTo(g, w, S, n)
  <2> SUFFICES ASSUME NEW s \in SUBSET S, Cardinality(s) <= n
               PROVE  g[s] = IF s = {} THEN 0 ELSE w[Pick(s)] + g[s \ {Pick(s)}]
    BY DEF SumsUpTo
  <2>1. CASE s = {}
    BY <2>1
  <2>2. CASE s # {}
    BY <2>2, <1>4
  <2> QED
    BY <2>1, <2>2
<1> QED
  BY <1>2, <1>5

Equation(g, w, S) ==
  g = [s \in SUBSET S |-> IF s = {} THEN 0 ELSE w[Pick(s)] + g[s \ {Pick(s)}]]

LEMMA EquationSolved ==
  ASSUME NEW S, IsFiniteSet(S), NEW w
  PROVE  \E g : Equation(g, w, S)
<1> DEFINE n == Cardinality(S)
<1>1. n \in Nat
  BY FS_CardinalityType
<1>2. PICK h : SumsUpTo(h, w, S, n)
  BY <1>1, SumsExist
<1> DEFINE g == [s \in SUBSET S |-> h[s]]
<1>3. ASSUME NEW s \in SUBSET S PROVE g[s] = IF s = {} THEN 0 ELSE w[Pick(s)] + g[s \ {Pick(s)}]
  <2>1. Cardinality(s) <= n
    BY FS_Subset
  <2>2. h[s] = IF s = {} THEN 0 ELSE w[Pick(s)] + h[s \ {Pick(s)}]
    BY <1>2, <2>1 DEF SumsUpTo
  <2>3. s \ {Pick(s)} \in SUBSET S
    OBVIOUS
  <2> QED
    BY <2>2, <2>3
<1>4. g = [s \in SUBSET S |-> IF s = {} THEN 0 ELSE w[Pick(s)] + g[s \ {Pick(s)}]]
  <2> DEFINE k == [s \in SUBSET S |-> IF s = {} THEN 0 ELSE w[Pick(s)] + g[s \ {Pick(s)}]]
  <2>1. \A s \in SUBSET S : g[s] = k[s]
    BY <1>3
  <2> QED
    BY <2>1
<1>5. Equation(g, w, S)
  BY <1>4 DEF Equation
<1> QED
  BY <1>5

\* The function SumFunctionOnSet applies to the set.
Sums(w, S) == CHOOSE g : Equation(g, w, S)

LEMMA SumsEquation ==
  ASSUME NEW S, IsFiniteSet(S), NEW w
  PROVE  /\ SumFunctionOnSet(w, S) = Sums(w, S)[S]
         /\ \A s \in SUBSET S : Sums(w, S)[s] = IF s = {} THEN 0 ELSE w[Pick(s)] + Sums(w, S)[s \ {Pick(s)}]
<1>1. SumFunctionOnSet(w, S) = Sums(w, S)[S]
  BY DEF SumFunctionOnSet, FoldFunctionOnSet, MapThenFoldSet, Equation, Pick, Sums
<1>2. Equation(Sums(w, S), w, S)
  BY EquationSolved DEF Sums
<1> HIDE DEF Sums
<1>3. \A s \in SUBSET S : Sums(w, S)[s] = IF s = {} THEN 0 ELSE w[Pick(s)] + Sums(w, S)[s \ {Pick(s)}]
  BY <1>2 DEF Equation
<1> QED
  BY <1>1, <1>3

LEMMA SumsStep ==
  ASSUME NEW S, IsFiniteSet(S), NEW w, NEW s \in SUBSET S
  PROVE  Sums(w, S)[s] = IF s = {} THEN 0 ELSE w[Pick(s)] + Sums(w, S)[s \ {Pick(s)}]
<1> HIDE DEF Sums
<1> QED
  BY SumsEquation

\* From here on the sums are what SumsStep says of them.
LEMMA SumsAreNaturals ==
  ASSUME NEW S, IsFiniteSet(S), NEW w, \A x \in S : w[x] \in Nat
  PROVE  \A s \in SUBSET S : Sums(w, S)[s] \in Nat
<1> DEFINE G == Sums(w, S)
           Bad == {n \in Nat : \E s \in SUBSET S : Cardinality(s) = n /\ G[s] \notin Nat}
<1> HIDE DEF Sums
<1>1. SUFFICES ASSUME Bad # {} PROVE FALSE
  BY TakeOut
<1>2. PICK n \in Bad : \A m \in Bad : n <= m
  BY <1>1, LeastElement
<1>3. PICK s \in SUBSET S : Cardinality(s) = n /\ G[s] \notin Nat
  BY <1>2
<1>4. G[s] = IF s = {} THEN 0 ELSE w[Pick(s)] + G[s \ {Pick(s)}]
  BY SumsStep
<1>5. s # {}
  BY <1>3, <1>4
<1>6. Pick(s) \in s /\ Cardinality(s \ {Pick(s)}) = n - 1 /\ n >= 1
  BY <1>3, <1>5, TakeOut
<1>7. G[s \ {Pick(s)}] \in Nat
  BY <1>2, <1>6
<1> QED
  BY <1>3, <1>4, <1>5, <1>6, <1>7

\* The order in which the fold takes the elements does not matter.
LEMMA SumsTakeAny ==
  ASSUME NEW S, IsFiniteSet(S), NEW w, \A x \in S : w[x] \in Nat
  PROVE  \A s \in SUBSET S : \A x \in s : Sums(w, S)[s] = w[x] + Sums(w, S)[s \ {x}]
<1> DEFINE G == Sums(w, S)
           Wrong(s) == \E x \in s : G[s] # w[x] + G[s \ {x}]
           Bad == {n \in Nat : \E s \in SUBSET S : Cardinality(s) = n /\ Wrong(s)}
<1> HIDE DEF Sums
<1>1. SUFFICES ASSUME Bad # {} PROVE FALSE
  BY TakeOut
<1>2. PICK n \in Bad : \A m \in Bad : n <= m
  BY <1>1, LeastElement
<1>3. PICK s \in SUBSET S : Cardinality(s) = n /\ Wrong(s)
  BY <1>2
<1>4. PICK x \in s : G[s] # w[x] + G[s \ {x}]
  BY <1>3
<1>Less. \A t \in SUBSET S : Cardinality(t) = n - 1 /\ n - 1 \in Nat => ~ Wrong(t)
  BY <1>2
<1> DEFINE p == Pick(s)
<1>5. G[s] = w[p] + G[s \ {p}]
  <2>1. G[s] = IF s = {} THEN 0 ELSE w[Pick(s)] + G[s \ {Pick(s)}]
    BY SumsStep
  <2> QED
    BY <1>4, <2>1
<1>6. p \in s /\ p # x
  BY <1>4, <1>5, PickIsIn
<1>7. Cardinality(s \ {p}) = n - 1 /\ Cardinality(s \ {x}) = n - 1 /\ n - 1 \in Nat
  BY <1>3, <1>4, <1>6, TakeOut
<1>8. G[s \ {p}] = w[x] + G[(s \ {p}) \ {x}]
  <2>1. ~ Wrong(s \ {p})
    BY <1>Less, <1>7
  <2> QED
    BY <1>6, <2>1
<1>9. G[s \ {x}] = w[p] + G[(s \ {p}) \ {x}]
  <2>1. ~ Wrong(s \ {x})
    BY <1>Less, <1>7
  <2>2. G[s \ {x}] = w[p] + G[(s \ {x}) \ {p}]
    BY <1>6, <2>1
  <2>3. (s \ {x}) \ {p} = (s \ {p}) \ {x}
    OBVIOUS
  <2> QED
    BY <2>2, <2>3
<1>10. G[(s \ {p}) \ {x}] \in Nat /\ w[p] \in Nat /\ w[x] \in Nat
  BY <1>4, <1>6, SumsAreNaturals
<1> HIDE DEF G, p
<1> QED
  BY <1>4, <1>5, <1>8, <1>9, <1>10

LEMMA SumsGrow ==
  ASSUME NEW S, IsFiniteSet(S), NEW w, \A x \in S : w[x] \in Nat
  PROVE  \A s \in SUBSET S : \A t \in SUBSET s : Sums(w, S)[t] <= Sums(w, S)[s]
<1> DEFINE G == Sums(w, S)
           Wrong(s) == \E t \in SUBSET s : ~ (G[t] <= G[s])
           Bad == {n \in Nat : \E s \in SUBSET S : Cardinality(s) = n /\ Wrong(s)}
<1> HIDE DEF Sums
<1>1. SUFFICES ASSUME Bad # {} PROVE FALSE
  BY TakeOut
<1>2. PICK n \in Bad : \A m \in Bad : n <= m
  BY <1>1, LeastElement
<1>3. PICK s \in SUBSET S : Cardinality(s) = n /\ Wrong(s)
  BY <1>2
<1>4. PICK t \in SUBSET s : ~ (G[t] <= G[s])
  BY <1>3
<1>5. G[s] \in Nat /\ G[t] \in Nat
  BY SumsAreNaturals
<1>6. PICK x \in s : x \notin t
  BY <1>4, <1>5
<1>7. Cardinality(s \ {x}) = n - 1 /\ n - 1 \in Nat
  BY <1>3, <1>6, TakeOut
<1>8. ~ Wrong(s \ {x})
  BY <1>2, <1>7
<1>9. G[t] <= G[s \ {x}]
  BY <1>6, <1>8
<1>10. G[s] = w[x] + G[s \ {x}]
  BY <1>6, SumsTakeAny
<1>11. w[x] \in Nat /\ G[s \ {x}] \in Nat
  BY <1>6, SumsAreNaturals
<1> QED
  BY <1>4, <1>5, <1>9, <1>10, <1>11

\* The sum over a set does not depend on the set it is computed in, nor on values outside it.
LEMMA SumsAgree ==
  ASSUME NEW S, IsFiniteSet(S), NEW T \in SUBSET S, NEW w, NEW v, \A x \in T : w[x] = v[x]
  PROVE  SumFunctionOnSet(v, T) = Sums(w, S)[T]
<1>Finite. IsFiniteSet(T)
  BY FS_Subset
<1> DEFINE G == Sums(w, S)
           H == Sums(v, T)
           Bad == {n \in Nat : \E s \in SUBSET T : Cardinality(s) = n /\ G[s] # H[s]}
<1>Folded. SumFunctionOnSet(v, T) = H[T]
  BY <1>Finite, SumsEquation
<1> HIDE DEF Sums
<1>1. SUFFICES ASSUME Bad # {} PROVE FALSE
  BY <1>Folded, <1>Finite, TakeOut
<1>2. PICK n \in Bad : \A m \in Bad : n <= m
  BY <1>1, LeastElement
<1>3. PICK s \in SUBSET T : Cardinality(s) = n /\ G[s] # H[s]
  BY <1>2
<1>4. /\ G[s] = IF s = {} THEN 0 ELSE w[Pick(s)] + G[s \ {Pick(s)}]
      /\ H[s] = IF s = {} THEN 0 ELSE v[Pick(s)] + H[s \ {Pick(s)}]
  <2>1. s \in SUBSET S
    OBVIOUS
  <2>2. G[s] = IF s = {} THEN 0 ELSE w[Pick(s)] + G[s \ {Pick(s)}]
    BY <2>1, SumsStep
  <2>3. H[s] = IF s = {} THEN 0 ELSE v[Pick(s)] + H[s \ {Pick(s)}]
    BY <1>Finite, SumsStep
  <2> QED
    BY <2>2, <2>3
<1>5. s # {}
  BY <1>3, <1>4
<1>6. Pick(s) \in s /\ Cardinality(s \ {Pick(s)}) = n - 1 /\ n >= 1
  BY <1>Finite, <1>3, <1>5, TakeOut
<1>7. G[s \ {Pick(s)}] = H[s \ {Pick(s)}]
  BY <1>2, <1>6
<1> QED
  BY <1>3, <1>4, <1>5, <1>6, <1>7

-----------------------------------------------------------------------------
(* What the budgets need.                                                  *)

\* Nothing adds up to nothing, and a sum of naturals is a natural.
THEOREM SumType ==
  ASSUME NEW S, IsFiniteSet(S), NEW w, \A x \in S : w[x] \in Nat
  PROVE  SumFunctionOnSet(w, S) \in Nat /\ (S = {} => SumFunctionOnSet(w, S) = 0)
BY SumsEquation, SumsAreNaturals

\* Taking one more element in adds its value.
THEOREM SumAdd ==
  ASSUME NEW S, IsFiniteSet(S), NEW x, x \notin S, NEW w, \A y \in S \cup {x} : w[y] \in Nat
  PROVE  SumFunctionOnSet(w, S \cup {x}) = w[x] + SumFunctionOnSet(w, S)
<1> DEFINE T == S \cup {x}
<1>1. IsFiniteSet(T)
  BY FS_AddElement
<1>2. SumFunctionOnSet(w, T) = Sums(w, T)[T] /\ SumFunctionOnSet(w, S) = Sums(w, T)[S]
  BY <1>1, SumsAgree
<1>3. T \ {x} = S /\ x \in T /\ T \in SUBSET T
  OBVIOUS
<1> HIDE DEF T, Sums
<1>4. Sums(w, T)[T] = w[x] + Sums(w, T)[S]
  BY <1>1, <1>3, SumsTakeAny DEF T
<1> QED
  BY <1>2, <1>4 DEF T

\* A part of a set adds up to no more than the set.
THEOREM SumOfPart ==
  ASSUME NEW S, IsFiniteSet(S), NEW T, T \subseteq S, NEW w, \A y \in S : w[y] \in Nat
  PROVE  SumFunctionOnSet(w, T) <= SumFunctionOnSet(w, S)
<1>1. SumFunctionOnSet(w, S) = Sums(w, S)[S] /\ SumFunctionOnSet(w, T) = Sums(w, S)[T]
  BY SumsAgree
<1> HIDE DEF Sums
<1> QED
  BY <1>1, SumsGrow

\* Only the values on the set count.
THEOREM SumAgrees ==
  ASSUME NEW S, IsFiniteSet(S), NEW w, NEW v, \A x \in S : w[x] = v[x]
  PROVE  SumFunctionOnSet(w, S) = SumFunctionOnSet(v, S)
<1>1. SumFunctionOnSet(w, S) = Sums(w, S)[S]
  BY SumsAgree
<1>2. SumFunctionOnSet(v, S) = Sums(w, S)[S]
  BY SumsAgree
<1> QED
  BY <1>1, <1>2

-----------------------------------------------------------------------------
(* Numbers in their order.                                                 *)

Increasing(q, S) ==
  q \in [1 .. Cardinality(S) -> S] /\ \A i, j \in 1 .. Cardinality(S) : i < j => q[i] < q[j]

LEMMA IncreasingExists ==
  ASSUME NEW S, S \subseteq Nat, IsFiniteSet(S)
  PROVE  \E q : Increasing(q, S)
<1> DEFINE Bad == {n \in Nat : \E s \in SUBSET S : Cardinality(s) = n /\ ~ \E q : Increasing(q, s)}
<1>1. SUFFICES ASSUME Bad # {} PROVE FALSE
  BY TakeOut
<1>2. PICK n \in Bad : \A m \in Bad : n <= m
  BY <1>1, LeastElement
<1>3. PICK s \in SUBSET S : Cardinality(s) = n /\ ~ \E q : Increasing(q, s)
  BY <1>2
<1>4. s # {}
  <2> SUFFICES ASSUME s = {} PROVE \E q : Increasing(q, s)
    BY <1>3
  <2>1. Cardinality(s) = 0
    BY FS_EmptySet
  <2>2. Increasing([i \in 1 .. 0 |-> 0], s)
    BY <2>1 DEF Increasing
  <2> QED
    BY <2>2
<1>5. PICK least \in s : \A x \in s : least <= x
  BY <1>4, LeastElement
<1> DEFINE rest == s \ {least}
<1>6. Cardinality(rest) = n - 1 /\ n >= 1 /\ rest \in SUBSET S
  BY <1>3, TakeOut
<1>7. PICK h : Increasing(h, rest)
  BY <1>2, <1>6
<1>8. h \in [1 .. n - 1 -> rest] /\ \A i, j \in 1 .. n - 1 : i < j => h[i] < h[j]
  BY <1>6, <1>7 DEF Increasing
<1> DEFINE q == [i \in 1 .. n |-> IF i = 1 THEN least ELSE h[i - 1]]
<1>9. \A i \in 1 .. n : i # 1 => i - 1 \in 1 .. n - 1 /\ h[i - 1] \in rest /\ q[i] = h[i - 1]
  BY <1>6, <1>8
<1>10. q \in [1 .. n -> s]
  BY <1>9
<1>11. ASSUME NEW i \in 1 .. n, NEW j \in 1 .. n, i < j PROVE q[i] < q[j]
  <2>1. j # 1 /\ j - 1 \in 1 .. n - 1 /\ q[j] = h[j - 1] /\ h[j - 1] \in rest
    BY <1>9, <1>11
  <2>2. CASE i = 1
    <3>1. q[i] = least /\ least \in Nat /\ h[j - 1] \in Nat /\ least <= h[j - 1] /\ h[j - 1] # least
      BY <2>1, <2>2, <1>5
    <3> QED
      BY <2>1, <3>1
  <2>3. CASE i # 1
    <3>1. i - 1 \in 1 .. n - 1 /\ q[i] = h[i - 1] /\ i - 1 < j - 1
      BY <2>3, <1>9, <1>11
    <3> QED
      BY <2>1, <3>1, <1>8
  <2> QED
    BY <2>2, <2>3
<1>12. Increasing(q, s)
  BY <1>3, <1>10, <1>11 DEF Increasing
<1> QED
  BY <1>3, <1>12

\* A set of numbers in order: a sequence of all of them, each once, that increases.
THEOREM OrderIs ==
  ASSUME NEW S, S \subseteq Nat, IsFiniteSet(S)
  PROVE  /\ Cardinality(S) \in Nat
         /\ InOrder(S) \in Seq(S) /\ Len(InOrder(S)) = Cardinality(S)
         /\ \A i, j \in 1 .. Cardinality(S) : i < j => InOrder(S)[i] < InOrder(S)[j]
         /\ \A x \in S : \E i \in 1 .. Cardinality(S) : InOrder(S)[i] = x
<1> DEFINE n == Cardinality(S)
<1>1. n \in Nat
  BY FS_CardinalityType
<1>2. PICK q : Increasing(q, S)
  BY IncreasingExists
<1>3. InOrder(S) \in [1 .. n -> S] /\ \A i, j \in 1 .. n : i < j => InOrder(S)[i] < InOrder(S)[j]
  BY <1>2 DEF Increasing, InOrder
<1>4. PICK o : o = InOrder(S)
  OBVIOUS
<1>5. o \in [1 .. n -> S] /\ \A i, j \in 1 .. n : i < j => o[i] < o[j]
  BY <1>3, <1>4
<1> HIDE DEF n
<1>6. o \in Seq(S) /\ Len(o) = n
  BY <1>1, <1>5
<1>7. \A i, j \in 1 .. n : o[i] = o[j] => i = j
  <2> SUFFICES ASSUME NEW i \in 1 .. n, NEW j \in 1 .. n, o[i] = o[j], i # j PROVE FALSE
    OBVIOUS
  <2>1. o[i] \in Nat /\ o[j] \in Nat
    BY <1>5
  <2>2. i < j \/ j < i
    BY <1>1
  <2> QED
    BY <1>5, <2>1, <2>2
<1>8. o \in Injection(1 .. n, S)
  BY <1>5, <1>7 DEF Injection, IsInjective
<1>9. IsFiniteSet(1 .. n) /\ Cardinality(1 .. n) = n
  BY <1>1, FS_Interval
<1>10. o \in Surjection(1 .. n, S)
  BY <1>8, <1>9, FS_Injection DEF n
<1>11. \A x \in S : \E i \in 1 .. n : o[i] = x
  BY <1>10 DEF Surjection
<1> QED
  BY <1>1, <1>4, <1>5, <1>6, <1>11 DEF n
=============================================================================
