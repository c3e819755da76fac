------------------------------ MODULE SumProofs ------------------------------
(***************************************************************************)
(* Sums over finite sets. SumFunction of the community modules is a fold,  *)
(* defined by a recursive function that takes the elements in an order     *)
(* nobody knows. The lemmas below take any element out of a sum and change *)
(* a single term of it, which is all that the proofs about lamports need.  *)
(* The library's induction theorems take an operator as a parameter; here  *)
(* induction is a smallest counterexample, from the well-founded order of  *)
(* the finite sets.                                                        *)
(***************************************************************************)
EXTENDS Integers, Functions, FiniteSetTheorems, TLAPS

\* A set of subsets of a finite set has one that contains no other.
LEMMA SmallestSubset ==
  ASSUME NEW S, IsFiniteSet(S), NEW Bad \in SUBSET (SUBSET S), Bad # {}
  PROVE  \E T \in Bad : \A U \in SUBSET T : U # T => U \notin Bad
  <1> DEFINE R == StrictSubsetOrdering(S)
  <1>1. IsWellFoundedOn(R, FiniteSubsetsOf(S))
    BY FS_StrictSubsetOrderingWellFounded
  <1>2. Bad \subseteq FiniteSubsetsOf(S)
    BY FS_FiniteSubsetsOfFinite
  <1>3. \E T \in Bad : \A U \in Bad : <<U, T>> \notin R
    <2> HIDE DEF R
    <2> QED
      BY <1>1, <1>2, WFMin
  <1>4. PICK T \in Bad : \A U \in Bad : <<U, T>> \notin R
    BY <1>3
  <1>5. ASSUME NEW U \in SUBSET T, U # T
        PROVE  U \notin Bad
    BY <1>4, <1>5 DEF StrictSubsetOrdering
  <1> QED
    BY <1>5

-----------------------------------------------------------------------------
(***************************************************************************)
(* The recursive function behind a sum exists                              *)
(***************************************************************************)

Chosen(T) == CHOOSE x \in T : TRUE

SumStep(f, total, T) ==
  IF T = {} THEN 0 ELSE f[Chosen(T)] + total[T \ {Chosen(T)}]

\* total gives every subset of S the sum of its terms.
Totals(f, S, total) == total = [T \in SUBSET S |-> SumStep(f, total, T)]

LEMMA SumIsTotal ==
  ASSUME NEW f, NEW S, \E total : Totals(f, S, total)
  PROVE  \E total : Totals(f, S, total) /\ SumFunctionOnSet(f, S) = total[S]
  <1> DEFINE iter == CHOOSE iter : iter = [T \in SUBSET S |->
                       IF T = {}
                       THEN 0
                       ELSE LET x == CHOOSE x \in T : TRUE
                            IN  f[x] + iter[T \ {x}]]
  <1>1. SumFunctionOnSet(f, S) = iter[S]
    BY DEF SumFunctionOnSet, FoldFunctionOnSet, MapThenFoldSet
  <1>2. Totals(f, S, iter)
    BY DEF Totals, SumStep, Chosen
  <1> QED
    BY <1>1, <1>2

\* Two such functions agree wherever both are defined.
LEMMA TotalsAgree ==
  ASSUME NEW f, NEW S, NEW total, Totals(f, S, total),
         NEW T, NEW other, Totals(f, T, other),
         NEW U, IsFiniteSet(U), U \subseteq S, U \subseteq T
  PROVE  total[U] = other[U]
  <1> DEFINE Bad == {V \in SUBSET U : total[V] # other[V]}
  <1> SUFFICES ASSUME Bad # {}
               PROVE  FALSE
    OBVIOUS
  <1>1. PICK V \in Bad : \A W \in SUBSET V : W # V => W \notin Bad
    <2> HIDE DEF Bad
    <2>1. Bad \in SUBSET (SUBSET U)
      BY DEF Bad
    <2> QED
      BY <2>1, SmallestSubset
  <1>2. /\ total[V] = SumStep(f, total, V)
        /\ other[V] = SumStep(f, other, V)
    <2>1. V \in SUBSET S /\ V \in SUBSET T
      BY <1>1
    <2> QED
      BY <2>1 DEF Totals
  <1>3. V # {} => total[V \ {Chosen(V)}] = other[V \ {Chosen(V)}]
    BY <1>1 DEF Chosen
  <1> QED
    BY <1>1, <1>2, <1>3 DEF SumStep

\* A finite set has one: a smallest set without one could put its own together
\* from those of its subsets.
LEMMA TotalsExist ==
  ASSUME NEW f, NEW S, IsFiniteSet(S)
  PROVE  \E total : Totals(f, S, total)
  <1> DEFINE Bad == {T \in SUBSET S : ~ \E total : Totals(f, T, total)}
  <1> SUFFICES ASSUME Bad # {}
               PROVE  FALSE
    OBVIOUS
  <1>1. PICK T \in Bad : \A U \in SUBSET T : U # T => U \notin Bad
    <2> HIDE DEF Bad
    <2>1. Bad \in SUBSET (SUBSET S)
      BY DEF Bad
    <2> QED
      BY <2>1, SmallestSubset
  <1> DEFINE own(U)  == CHOOSE total : Totals(f, U, total)
             sums    == [U \in SUBSET T |-> own(U)[U]]
             all     == [U \in SUBSET T |-> SumStep(f, sums, U)]
  <1>2. ASSUME NEW U \in SUBSET T, U # T
        PROVE  Totals(f, U, own(U))
    BY <1>1, <1>2
  <1>3. ASSUME NEW U \in SUBSET T, U # T
        PROVE  sums[U] = SumStep(f, sums, U)
    <2>1. own(U)[U] = SumStep(f, own(U), U)
      <3>1. Totals(f, U, own(U))
        BY <1>2, <1>3
      <3> HIDE DEF own
      <3> QED
        BY <3>1 DEF Totals
    <2>2. CASE U = {}
      BY <2>1, <2>2 DEF SumStep
    <2>3. CASE U # {}
      <3> DEFINE V == U \ {Chosen(U)}
      <3>1. V \in SUBSET U /\ V # T /\ V \in SUBSET T /\ IsFiniteSet(V)
        BY <2>3, FS_Subset DEF Chosen
      <3>2. own(U)[V] = own(V)[V]
        <4>1. Totals(f, U, own(U)) /\ Totals(f, V, own(V))
          BY <1>2, <1>3, <3>1
        <4> HIDE DEF own, V
        <4> QED
          BY <4>1, <3>1, TotalsAgree
      <3>3. sums[V] = own(V)[V]
        BY <3>1
      <3>4. sums[U] = own(U)[U]
        OBVIOUS
      <3> HIDE DEF own, sums
      <3> QED
        BY <2>1, <2>3, <3>2, <3>3, <3>4 DEF SumStep
    <2> QED
      BY <2>2, <2>3
  <1>4. ASSUME NEW U \in SUBSET T
        PROVE  all[U] = SumStep(f, all, U)
    <2>1. all[U] = SumStep(f, sums, U)
      OBVIOUS
    <2>2. CASE U = {}
      BY <2>1, <2>2 DEF SumStep
    <2>3. CASE U # {}
      <3>1. /\ U \ {Chosen(U)} \in SUBSET T
            /\ U \ {Chosen(U)} # T
        BY <2>3 DEF Chosen
      <3>2. all[U \ {Chosen(U)}] = sums[U \ {Chosen(U)}]
        <4>1. all[U \ {Chosen(U)}] = SumStep(f, sums, U \ {Chosen(U)})
          BY <3>1
        <4> QED
          BY <1>3, <3>1, <4>1
      <3> HIDE DEF all, sums
      <3> QED
        BY <2>1, <2>3, <3>2 DEF SumStep
    <2> QED
      BY <2>2, <2>3
  <1>5. Totals(f, T, all)
    <2>1. all = [U \in SUBSET T |-> all[U]]
      OBVIOUS
    <2> HIDE DEF all
    <2> QED
      BY <1>4, <2>1 DEF Totals
  <1> QED
    BY <1>1, <1>5

-----------------------------------------------------------------------------
(***************************************************************************)
(* What a sum is                                                           *)
(***************************************************************************)

LEMMA SumOfNothing ==
  ASSUME NEW f
  PROVE  SumFunctionOnSet(f, {}) = 0
  <1>1. PICK total : Totals(f, {}, total) /\ SumFunctionOnSet(f, {}) = total[{}]
    BY FS_EmptySet, TotalsExist, SumIsTotal
  <1>2. total[{}] = SumStep(f, total, {})
    BY <1>1 DEF Totals
  <1> QED
    BY <1>1, <1>2 DEF SumStep

\* The fold's own equation.
LEMMA SumTakesChosen ==
  ASSUME NEW f, NEW S, IsFiniteSet(S), S # {}
  PROVE  SumFunctionOnSet(f, S)
           = f[Chosen(S)] + SumFunctionOnSet(f, S \ {Chosen(S)})
  <1> DEFINE V == S \ {Chosen(S)}
  <1>1. IsFiniteSet(V) /\ V \subseteq S
    BY FS_Subset
  <1>2. PICK total : Totals(f, S, total) /\ SumFunctionOnSet(f, S) = total[S]
    BY TotalsExist, SumIsTotal
  <1>3. PICK other : Totals(f, V, other) /\ SumFunctionOnSet(f, V) = other[V]
    BY <1>1, TotalsExist, SumIsTotal
  <1>4. total[V] = other[V]
    BY <1>1, <1>2, <1>3, TotalsAgree
  <1>5. total[S] = SumStep(f, total, S)
    BY <1>2 DEF Totals
  <1> QED
    BY <1>2, <1>3, <1>4, <1>5 DEF SumStep

\* A sum of integers is one.
LEMMA SumType ==
  ASSUME NEW f, NEW S, IsFiniteSet(S), \A x \in S : f[x] \in Int
  PROVE  SumFunctionOnSet(f, S) \in Int
  <1> DEFINE Bad == {T \in SUBSET S : SumFunctionOnSet(f, T) \notin Int}
  <1> SUFFICES ASSUME Bad # {}
               PROVE  FALSE
    OBVIOUS
  <1>1. PICK T \in Bad : \A U \in SUBSET T : U # T => U \notin Bad
    <2> HIDE DEF Bad
    <2>1. Bad \in SUBSET (SUBSET S)
      BY DEF Bad
    <2> QED
      BY <2>1, SmallestSubset
  <1>2. T # {}
    <2>1. SumFunctionOnSet(f, {}) \in Int
      BY SumOfNothing
    <2> QED
      BY <1>1, <2>1
  <1> DEFINE x == Chosen(T)
  <1>3. x \in T /\ T \ {x} \in SUBSET T /\ T \ {x} # T
    BY <1>2 DEF Chosen
  <1>4. SumFunctionOnSet(f, T \ {x}) \in Int
    BY <1>1, <1>3
  <1>5. SumFunctionOnSet(f, T) = f[x] + SumFunctionOnSet(f, T \ {x})
    BY <1>1, <1>2, FS_Subset, SumTakesChosen
  <1>6. SumFunctionOnSet(f, T) \notin Int /\ f[x] \in Int
    BY <1>1, <1>3
  <1> HIDE DEF x
  <1> QED
    BY <1>4, <1>5, <1>6

\* The order of the terms does not matter: any of them can be taken out.
LEMMA SumTakes ==
  ASSUME NEW f, NEW S, IsFiniteSet(S), \A x \in S : f[x] \in Int, NEW y \in S
  PROVE  SumFunctionOnSet(f, S) = f[y] + SumFunctionOnSet(f, S \ {y})
  <1> DEFINE sum(T) == SumFunctionOnSet(f, T)
             Bad == {T \in SUBSET S : \E z \in T : sum(T) # f[z] + sum(T \ {z})}
  <1> SUFFICES ASSUME Bad # {}
               PROVE  FALSE
    OBVIOUS
  <1>1. PICK T \in Bad : \A U \in SUBSET T : U # T => U \notin Bad
    <2> HIDE DEF Bad
    <2>1. Bad \in SUBSET (SUBSET S)
      BY DEF Bad
    <2> QED
      BY <2>1, SmallestSubset
  <1>2. PICK z \in T : sum(T) # f[z] + sum(T \ {z})
    BY <1>1
  <1> DEFINE x == Chosen(T)
             V == (T \ {x}) \ {z}
  <1>3. /\ x \in T /\ IsFiniteSet(T) /\ T \in SUBSET S
        /\ f[x] \in Int /\ f[z] \in Int
    BY <1>1, FS_Subset DEF Chosen
  <1>4. sum(T) = f[x] + sum(T \ {x})
    BY <1>3, SumTakesChosen
  <1>5. x # z
    BY <1>2, <1>4
  <1>6. sum(V) \in Int
    <2>1. IsFiniteSet(V) /\ \A v \in V : f[v] \in Int
      BY <1>3, FS_Subset
    <2> HIDE DEF V
    <2> QED
      BY <2>1, SumType
  <1>7. sum(T \ {x}) = f[z] + sum(V)
    <2>1. T \ {x} \notin Bad /\ T \ {x} \in SUBSET S /\ z \in T \ {x}
      BY <1>1, <1>3, <1>5
    <2> HIDE DEF sum, x
    <2> QED
      BY <2>1
  <1>8. sum(T \ {z}) = f[x] + sum(V)
    <2>1. T \ {z} \notin Bad /\ T \ {z} \in SUBSET S /\ x \in T \ {z}
      BY <1>1, <1>3, <1>5
    <2>2. (T \ {z}) \ {x} = V
      OBVIOUS
    <2> HIDE DEF sum, x, V
    <2> QED
      BY <2>1, <2>2
  <1> HIDE DEF sum, x, V
  <1> QED
    BY <1>2, <1>3, <1>4, <1>6, <1>7, <1>8

\* Only the terms matter.
LEMMA SameTermsSameSum ==
  ASSUME NEW f, NEW g, NEW S, IsFiniteSet(S), \A x \in S : f[x] = g[x]
  PROVE  SumFunctionOnSet(f, S) = SumFunctionOnSet(g, S)
  <1> DEFINE Bad == {T \in SUBSET S : SumFunctionOnSet(f, T) # SumFunctionOnSet(g, T)}
  <1> SUFFICES ASSUME Bad # {}
               PROVE  FALSE
    OBVIOUS
  <1>1. PICK T \in Bad : \A U \in SUBSET T : U # T => U \notin Bad
    <2> HIDE DEF Bad
    <2>1. Bad \in SUBSET (SUBSET S)
      BY DEF Bad
    <2> QED
      BY <2>1, SmallestSubset
  <1>2. T # {} /\ IsFiniteSet(T)
    BY <1>1, SumOfNothing, FS_Subset
  <1> DEFINE x == Chosen(T)
  <1>3. x \in T /\ T \ {x} \in SUBSET T /\ T \ {x} # T
    BY <1>2 DEF Chosen
  <1>4. SumFunctionOnSet(f, T \ {x}) = SumFunctionOnSet(g, T \ {x})
    BY <1>1, <1>3
  <1>5. /\ SumFunctionOnSet(f, T) = f[x] + SumFunctionOnSet(f, T \ {x})
        /\ SumFunctionOnSet(g, T) = g[x] + SumFunctionOnSet(g, T \ {x})
    BY <1>2, SumTakesChosen
  <1> QED
    BY <1>1, <1>3, <1>4, <1>5

\* A sum without terms other than zero.
LEMMA SumOfZeros ==
  ASSUME NEW f, NEW S, IsFiniteSet(S), \A x \in S : f[x] = 0
  PROVE  SumFunctionOnSet(f, S) = 0
  <1> DEFINE Bad == {T \in SUBSET S : SumFunctionOnSet(f, T) # 0}
  <1> SUFFICES ASSUME Bad # {}
               PROVE  FALSE
    OBVIOUS
  <1>1. PICK T \in Bad : \A U \in SUBSET T : U # T => U \notin Bad
    <2> HIDE DEF Bad
    <2>1. Bad \in SUBSET (SUBSET S)
      BY DEF Bad
    <2> QED
      BY <2>1, SmallestSubset
  <1>2. T # {} /\ IsFiniteSet(T)
    BY <1>1, SumOfNothing, FS_Subset
  <1> DEFINE x == Chosen(T)
  <1>3. x \in T /\ T \ {x} \in SUBSET T /\ T \ {x} # T
    BY <1>2 DEF Chosen
  <1>4. SumFunctionOnSet(f, T \ {x}) = 0 /\ f[x] = 0
    BY <1>1, <1>3
  <1>5. SumFunctionOnSet(f, T) = f[x] + SumFunctionOnSet(f, T \ {x})
    BY <1>2, SumTakesChosen
  <1> QED
    BY <1>1, <1>4, <1>5

-----------------------------------------------------------------------------
(***************************************************************************)
(* How a sum changes                                                       *)
(***************************************************************************)

\* One term changes.
LEMMA SumChanges ==
  ASSUME NEW f, NEW g, NEW S, IsFiniteSet(S), NEW y \in S,
         \A x \in S : f[x] \in Int, g[y] \in Int,
         \A x \in S : x # y => g[x] = f[x]
  PROVE  SumFunctionOnSet(g, S) = SumFunctionOnSet(f, S) + g[y] - f[y]
  <1>1. \A x \in S : g[x] \in Int
    OBVIOUS
  <1>2. IsFiniteSet(S \ {y}) /\ \A x \in S \ {y} : g[x] = f[x]
    BY FS_Subset
  <1>3. /\ SumFunctionOnSet(f, S) = f[y] + SumFunctionOnSet(f, S \ {y})
        /\ SumFunctionOnSet(g, S) = g[y] + SumFunctionOnSet(g, S \ {y})
    BY <1>1, SumTakes
  <1>4. SumFunctionOnSet(g, S \ {y}) = SumFunctionOnSet(f, S \ {y})
    BY <1>2, SameTermsSameSum
  <1>5. SumFunctionOnSet(f, S \ {y}) \in Int /\ f[y] \in Int
    BY <1>2, SumType
  <1> QED
    BY <1>3, <1>4, <1>5
\* A term y is put in, or put in place of a 0: f over S becomes g over T.
TermPutIn(f, S, g, T, y) ==
  /\ IsFiniteSet(S) /\ S \subseteq T /\ y \in T /\ T \ {y} \subseteq S
  /\ \A x \in S : f[x] \in Int
  /\ \A x \in S : x # y => g[x] = f[x]
  /\ y \in S => f[y] = 0
  /\ g[y] \in Int

\* The sum grows by the new term.
LEMMA SumGrows ==
  ASSUME NEW f, NEW S, NEW g, NEW T, NEW y, TermPutIn(f, S, g, T, y)
  PROVE  SumFunctionOnSet(g, T) = SumFunctionOnSet(f, S) + g[y]
  <1> USE DEF TermPutIn
  <1>1. SumFunctionOnSet(f, S) \in Int
    BY SumType
  <1>2. CASE y \in S
    <2>1. SumFunctionOnSet(g, S) = SumFunctionOnSet(f, S) + g[y] - f[y]
      BY <1>2, SumChanges
    <2>2. T = S
      BY <1>2
    <2>3. f[y] = 0 /\ g[y] \in Int
      BY <1>2
    <2> QED
      BY <1>1, <2>1, <2>2, <2>3
  <1>3. CASE y \notin S
    <2>1. /\ T = S \cup {y} /\ T \ {y} = S
          /\ \A x \in S : g[x] = f[x]
          /\ \A x \in T : g[x] \in Int
      BY <1>3
    <2>2. IsFiniteSet(T)
      BY <2>1, FS_AddElement
    <2>3. SumFunctionOnSet(g, T) = g[y] + SumFunctionOnSet(g, T \ {y})
      BY <2>1, <2>2, SumTakes
    <2>4. SumFunctionOnSet(g, S) = SumFunctionOnSet(f, S)
      BY <2>1, SameTermsSameSum
    <2>5. SumFunctionOnSet(g, T \ {y}) = SumFunctionOnSet(g, S)
      BY <2>1
    <2> QED
      BY <1>1, <2>3, <2>4, <2>5
  <1> QED
    BY <1>2, <1>3
=============================================================================
