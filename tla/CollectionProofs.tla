-------------------------- MODULE CollectionProofs --------------------------
(***************************************************************************)
(* Proofs about the collection, for any files, sizes and budgets and any   *)
(* number of runs of a worker in one directory: the budget is kept to, and *)
(* used up, in whatever order the files are listed; and no one reports the *)
(* metrics of an earlier run.                                              *)
(*                                                                         *)
(* The first part is about sums over finite sets.  What Total is built     *)
(* from is defined by recursion, and what it comes to takes an induction:  *)
(* over a set (Good) in place of a predicate, and by the well-foundedness  *)
(* of the finite subsets of a set.                                         *)
(***************************************************************************)
EXTENDS Collection, FiniteSetTheorems, TLAPS

\* The sum of g[f] over the f in S; Total(S) is SumOver(kept, S).
SumOver(g, S) == MapThenSumSet(LAMBDA f : g[f], S)

\* Induction over the numbers, of a set in place of a predicate.
LEMMA NatInductionOfSet ==
  ASSUME NEW N \in SUBSET Nat, 0 \in N, \A n \in N : n + 1 \in N
  PROVE  N = Nat
<1> SUFFICES ASSUME Nat \ N # {} PROVE FALSE
  OBVIOUS
<1> DEFINE Less == OpToRel(<, Nat)
<1>1. IsWellFoundedOn(Less, Nat)
  BY NatLessThanWellFounded, Zenon
<1>2. \A m, n \in Nat : m < n => <<m, n>> \in Less
  BY DEF OpToRel
<1> HIDE DEF Less
<1>3. PICK n \in Nat \ N : \A m \in Nat \ N : <<m, n>> \notin Less
  <2>1. Nat \ N \subseteq Nat
    OBVIOUS
  <2> QED  BY <1>1, <2>1, WFMin
<1>4. n # 0 /\ n - 1 \in Nat /\ n - 1 < n
  OBVIOUS
<1>5. n - 1 \in N
  BY <1>2, <1>3, <1>4
<1> QED  BY <1>4, <1>5

\* Induction over the subsets of a finite set, of a set in place of a predicate.
LEMMA SubsetInductionOfSet ==
  ASSUME NEW S, IsFiniteSet(S), NEW Good,
         \A T \in SUBSET S : (\A U \in SUBSET T : U # T => U \in Good) => T \in Good
  PROVE  \A T \in SUBSET S : T \in Good
<1> DEFINE Bad == {T \in SUBSET S : T \notin Good}
<1> SUFFICES ASSUME Bad # {} PROVE FALSE
  OBVIOUS
<1>1. Bad \subseteq FiniteSubsetsOf(S)
  BY FS_FiniteSubsetsOfFinite
<1>2. PICK T \in Bad : \A U \in Bad : <<U, T>> \notin StrictSubsetOrdering(S)
  <2> HIDE DEF Bad
  <2> QED  BY <1>1, FS_StrictSubsetOrderingWellFounded, WFMin
<1>3. \A U \in SUBSET T : U # T => U \in Good
  BY <1>2 DEF StrictSubsetOrdering
<1> QED  BY <1>2, <1>3
Pick(S) == CHOOSE x \in S : TRUE

\* The equation that SumOver is defined by.
IsSum(k, S, g) ==
  g = [s \in SUBSET S |-> IF s = {} THEN 0 ELSE k[Pick(s)] + g[s \ {Pick(s)}]]

\* It has a solution.
LEMMA SumExists ==
  ASSUME NEW S, IsFiniteSet(S), NEW k
  PROVE  \E g : IsSum(k, S, g)
<1> DEFINE Upto(n) == {s \in SUBSET S : Cardinality(s) <= n}
           Body(g, s) == IF s = {} THEN 0 ELSE k[Pick(s)] + g[s \ {Pick(s)}]
           Solves(g, n) == g = [s \in Upto(n) |-> Body(g, s)]
           Sizes == {n \in Nat : \E g : Solves(g, n)}
<1>1. \A s \in SUBSET S : Cardinality(s) \in Nat /\ IsFiniteSet(s)
  BY FS_Subset, FS_CardinalityType
<1>2. \A s \in SUBSET S : s # {} => /\ s \ {Pick(s)} \in SUBSET S
                                     /\ Cardinality(s \ {Pick(s)}) = Cardinality(s) - 1
                                     /\ Pick(s) \in s
  BY <1>1, FS_RemoveElement DEF Pick
<1>3. 0 \in Sizes
  <2> DEFINE g == [s \in Upto(0) |-> 0]
  <2>1. \A s \in Upto(0) : s = {}
    BY <1>1, FS_EmptySet
  <2>2. Solves(g, 0)
    BY <2>1
  <2> QED  BY <2>2
<1>4. ASSUME NEW n \in Sizes PROVE n + 1 \in Sizes
  <2>1. PICK g : Solves(g, n)
    OBVIOUS
  <2> DEFINE h == [s \in Upto(n + 1) |-> Body(g, s)]
  <2>2. \A s \in Upto(n) : s \in Upto(n + 1) /\ h[s] = g[s]
    <3> SUFFICES ASSUME NEW s \in Upto(n) PROVE s \in Upto(n + 1) /\ h[s] = g[s]
      OBVIOUS
    <3>1. s \in Upto(n + 1)
      BY <1>1
    <3>2. h[s] = Body(g, s)
      BY <3>1
    <3>3. g[s] = Body(g, s)
      <4> HIDE DEF Body, Upto
      <4> QED  BY <2>1
    <3> QED  BY <3>1, <3>2, <3>3
  <2>3. \A s \in Upto(n + 1) : s # {} => s \ {Pick(s)} \in Upto(n)
    BY <1>1, <1>2
  <2>4. \A s \in Upto(n + 1) : Body(g, s) = Body(h, s)
    BY <2>2, <2>3
  <2>5. Solves(h, n + 1)
    BY <2>4
  <2>6. n + 1 \in Nat
    OBVIOUS
  <2> HIDE DEF Solves
  <2> QED  BY <2>5, <2>6
<1>5. Cardinality(S) \in Sizes
  <2> HIDE DEF Sizes
  <2>1. Sizes \in SUBSET Nat
    BY DEF Sizes
  <2>2. Sizes = Nat
    BY <1>3, <1>4, <2>1, NatInductionOfSet
  <2> QED  BY <2>2, FS_CardinalityType
<1>6. Upto(Cardinality(S)) = SUBSET S
  BY FS_Subset
<1> QED  BY <1>5, <1>6 DEF IsSum

\* What the definition of the community modules comes to.
LEMMA SumOverDef ==
  ASSUME NEW S, NEW k
  PROVE  SumOver(k, S) = (CHOOSE g : IsSum(k, S, g))[S]
BY DEF SumOver, MapThenSumSet, MapThenFoldSet, IsSum, Pick

\* Two solutions agree where both are defined.
LEMMA SumUnique ==
  ASSUME NEW S, IsFiniteSet(S), NEW U \in SUBSET S, NEW k, NEW g, NEW h,
         IsSum(k, S, g), IsSum(k, U, h)
  PROVE  \A T \in SUBSET U : g[T] = h[T]
<1> DEFINE Good == {T \in SUBSET U : g[T] = h[T]}
<1>1. IsFiniteSet(U)
  BY FS_Subset
<1>2. ASSUME NEW T \in SUBSET U, \A V \in SUBSET T : V # T => V \in Good
      PROVE  T \in Good
  <2>1. CASE T = {}
    BY <2>1 DEF IsSum
  <2>2. CASE T # {}
    <3> DEFINE V == T \ {Pick(T)}
    <3>1. V \in SUBSET T /\ V # T
      BY <2>2 DEF Pick
    <3>2. g[V] = h[V]
      BY <3>1, <1>2
    <3>3. g[T] = k[Pick(T)] + g[V] /\ h[T] = k[Pick(T)] + h[V]
      <4> HIDE DEF Good
      <4> QED  BY <2>2 DEF IsSum
    <3> QED  BY <3>2, <3>3
  <2> QED  BY <2>1, <2>2
<1>3. \A T \in SUBSET U : T \in Good
  <2> HIDE DEF Good
  <2> QED  BY <1>1, <1>2, SubsetInductionOfSet
<1> QED  BY <1>3

\* The sum over a set is the picked element's summand and the sum of the others.
LEMMA SumOverStep ==
  ASSUME NEW S, IsFiniteSet(S), NEW k
  PROVE  SumOver(k, S) = IF S = {} THEN 0 ELSE k[Pick(S)] + SumOver(k, S \ {Pick(S)})
<1> DEFINE g == CHOOSE g : IsSum(k, S, g)
           U == S \ {Pick(S)}
           h == CHOOSE h : IsSum(k, U, h)
<1>1. IsSum(k, S, g)
  BY SumExists
<1>2. IsFiniteSet(U) /\ U \in SUBSET S
  BY FS_Subset
<1>3. IsSum(k, U, h)
  BY <1>2, SumExists
<1> HIDE DEF g, h
<1>4. g[U] = h[U]
  BY <1>1, <1>2, <1>3, SumUnique
<1>5. SumOver(k, S) = g[S] /\ SumOver(k, U) = h[U]
  BY SumOverDef DEF g, h
<1>6. g[S] = IF S = {} THEN 0 ELSE k[Pick(S)] + g[U]
  BY <1>1 DEF IsSum
<1> QED  BY <1>4, <1>5, <1>6

\* A sum of integers is one.
LEMMA SumOverInt ==
  ASSUME NEW S, IsFiniteSet(S), NEW k, \A x \in S : k[x] \in Int
  PROVE  \A T \in SUBSET S : SumOver(k, T) \in Int
<1> DEFINE Good == {T \in SUBSET S : SumOver(k, T) \in Int}
<1>1. ASSUME NEW T \in SUBSET S, \A V \in SUBSET T : V # T => V \in Good
      PROVE  T \in Good
  <2>1. IsFiniteSet(T)
    BY FS_Subset
  <2>2. CASE T = {}
    BY <2>1, <2>2, SumOverStep
  <2>3. CASE T # {}
    <3>1. Pick(T) \in T
      BY <2>3 DEF Pick
    <3>2. SumOver(k, T \ {Pick(T)}) \in Int
      BY <3>1, <1>1
    <3>3. SumOver(k, T) = k[Pick(T)] + SumOver(k, T \ {Pick(T)})
      BY <2>1, <2>3, SumOverStep
    <3>4. k[Pick(T)] \in Int
      BY <3>1
    <3> QED  BY <3>2, <3>3, <3>4
  <2> QED  BY <2>2, <2>3
<1>2. \A T \in SUBSET S : T \in Good
  <2> HIDE DEF Good
  <2> QED  BY <1>1, SubsetInductionOfSet
<1> QED  BY <1>2

\* Any element may be picked.
LEMMA SumOverRemove ==
  ASSUME NEW S, IsFiniteSet(S), NEW k, \A x \in S : k[x] \in Int
  PROVE  \A T \in SUBSET S : \A x \in T : SumOver(k, T) = k[x] + SumOver(k, T \ {x})
<1> DEFINE Good == {T \in SUBSET S : \A x \in T : SumOver(k, T) = k[x] + SumOver(k, T \ {x})}
<1>1. ASSUME NEW T \in SUBSET S, \A V \in SUBSET T : V # T => V \in Good
      PROVE  T \in Good
  <2> SUFFICES ASSUME NEW x \in T PROVE SumOver(k, T) = k[x] + SumOver(k, T \ {x})
    OBVIOUS
  <2> DEFINE y == Pick(T)
  <2>1. y \in T /\ SumOver(k, T) = k[y] + SumOver(k, T \ {y})
    BY FS_Subset, SumOverStep DEF Pick
  <2> HIDE DEF y
  <2>2. CASE x = y
    BY <2>1, <2>2
  <2>3. CASE x # y
    <3>1. T \ {x} \in Good /\ T \ {y} \in Good
      <4> HIDE DEF Good
      <4>1. T \ {x} # T /\ T \ {y} # T
        BY <2>1
      <4> QED  BY <4>1, <1>1
    <3>2. SumOver(k, T \ {x}) = k[y] + SumOver(k, T \ {x, y})
      <4>1. (T \ {x}) \ {y} = T \ {x, y} /\ y \in T \ {x}
        BY <2>1, <2>3
      <4> QED  BY <3>1, <4>1
    <3>3. SumOver(k, T \ {y}) = k[x] + SumOver(k, T \ {x, y})
      <4>1. (T \ {y}) \ {x} = T \ {x, y} /\ x \in T \ {y}
        BY <2>1, <2>3
      <4> QED  BY <3>1, <4>1
    <3>4. SumOver(k, T \ {x, y}) \in Int /\ k[x] \in Int /\ k[y] \in Int
      BY <2>1, SumOverInt
    <3> QED  BY <2>1, <3>2, <3>3, <3>4
  <2> QED  BY <2>2, <2>3
<1>2. \A T \in SUBSET S : T \in Good
  <2> HIDE DEF Good
  <2> QED  BY <1>1, SubsetInductionOfSet
<1> QED  BY <1>2

\* A sum depends on its summands only.
LEMMA SumOverSame ==
  ASSUME NEW S, IsFiniteSet(S), NEW k, NEW m, \A x \in S : k[x] = m[x]
  PROVE  \A T \in SUBSET S : SumOver(k, T) = SumOver(m, T)
<1> DEFINE Good == {T \in SUBSET S : SumOver(k, T) = SumOver(m, T)}
<1>1. ASSUME NEW T \in SUBSET S, \A V \in SUBSET T : V # T => V \in Good
      PROVE  T \in Good
  <2>1. SumOver(k, T) = IF T = {} THEN 0 ELSE k[Pick(T)] + SumOver(k, T \ {Pick(T)})
    BY FS_Subset, SumOverStep
  <2>2. SumOver(m, T) = IF T = {} THEN 0 ELSE m[Pick(T)] + SumOver(m, T \ {Pick(T)})
    BY FS_Subset, SumOverStep
  <2>3. T # {} => Pick(T) \in T
    BY DEF Pick
  <2>4. T # {} => SumOver(k, T \ {Pick(T)}) = SumOver(m, T \ {Pick(T)})
    BY <1>1, <2>3
  <2> QED  BY <2>1, <2>2, <2>3, <2>4
<1>2. \A T \in SUBSET S : T \in Good
  <2> HIDE DEF Good
  <2> QED  BY <1>1, SubsetInductionOfSet
<1> QED  BY <1>2-----------------------------------------------------------------------------
\* Total is such a sum, in a state and in the next.
LEMMA TotalIsASum ==
  /\ \A S : Total(S) = SumOver(kept, S)
  /\ \A S : Total(S)' = SumOver(kept', S)
BY DEF Total, SumOver, MapThenSumSet, MapThenFoldSet

\* The greater of two.
LEMMA MaxOfTwo ==
  ASSUME NEW a \in Int, NEW b \in Int
  PROVE  Max({a, b}) = IF a >= b THEN a ELSE b
BY DEF Max

\* A set of numbers has a least one.
LEMMA MinIsThere ==
  ASSUME NEW S \in SUBSET Nat, S # {}
  PROVE  Min(S) \in S
<1> DEFINE Less == OpToRel(<, Nat)
<1>1. IsWellFoundedOn(Less, Nat)
  BY NatLessThanWellFounded, Zenon
<1>2. \A m, n \in Nat : m < n => <<m, n>> \in Less
  BY DEF OpToRel
<1> HIDE DEF Less
<1>3. PICK n \in S : \A m \in S : <<m, n>> \notin Less
  BY <1>1, WFMin
<1>4. ASSUME NEW m \in S PROVE n <= m
  <2>1. m \in Nat /\ n \in Nat
    OBVIOUS
  <2>2. <<m, n>> \notin Less
    BY <1>3
  <2>3. ~(m < n)
    BY <2>1, <2>2, <1>2, Zenon
  <2> QED  BY <2>1, <2>3
<1> QED  BY <1>4 DEF Min
-----------------------------------------------------------------------------
Sizes == Nat \cup {Absent}

TypeOK ==
  /\ kind \in Kinds /\ quiet \in BOOLEAN
  /\ sealed \in SUBSET Files /\ pipes \in SUBSET Files
  /\ size \in [Files -> Sizes] /\ kept \in [Files -> Sizes]
  /\ pending \in SUBSET Files /\ current \in SUBSET Files
  /\ budget \in Int
  /\ step \in {"metrics", "loop", "blocked", "done", "error"}

\* A file is pending, then looked at by itself, then kept or not.
OneAtATime ==
  /\ \A f \in pending \cup current : kept[f] = Absent
  /\ current \cap pending = {}
  /\ \A f, g \in current : f = g
  /\ step # "loop" => current = {}

\* The budget is what the files kept leave of it, and never negative in Rust.
BudgetIsCharged ==
  budget = IF kind = "rust" /\ Total(Collected) > MaxOutputBytes THEN 0
           ELSE MaxOutputBytes - Total(Collected)

\* Of a container that has stopped the file about to be read still fits, and
\* those that were left out still do not.
StillAsLooked == quiet =>
  /\ \A f \in Files : size[f] # Absent
  /\ \A f \in current : size[f] <= budget
  /\ \A f \in Files \ (Collected \cup sealed \cup pipes \cup pending \cup current) :
       size[f] > MaxOutputBytes - Total(Collected)

\* With the budget overrun, Go and .NET look for no other file.
OverrunIsTheLast ==
  kind # "rust" /\ Total(Collected) > MaxOutputBytes =>
    /\ current = {}
    /\ \E f \in Collected : Total(Collected \ {f}) <= MaxOutputBytes

\* The inductive invariant of the budget.
BudgetInv ==
  TypeOK /\ OneAtATime /\ BudgetIsCharged /\ StillAsLooked /\ OverrunIsTheLast /\ WithinBudget
-----------------------------------------------------------------------------
\* The files kept are finitely many, and their sums are numbers.
LEMMA TotalIsNumber ==
  ASSUME TypeOK
  PROVE  /\ IsFiniteSet(Collected) /\ Collected \in SUBSET Files
         /\ \A f \in Collected : kept[f] \in Int
         /\ \A S \in SUBSET Collected : Total(S) \in Int
<1>1. IsFiniteSet(Collected) /\ Collected \in SUBSET Files
  BY FilesAreNumbered, FS_Subset DEF Collected
<1>2. \A f \in Collected : kept[f] \in Int
  BY DEF TypeOK, Collected, Sizes, Absent
<1> QED  BY <1>1, <1>2, SumOverInt, TotalIsASum

\* At the beginning nothing is kept.
LEMMA InitBudgetInv == Init => BudgetInv
<1> SUFFICES ASSUME Init PROVE BudgetInv
  OBVIOUS
<1>1. Collected = {}
  BY DEF Init, Collected
<1>2. Total(Collected) = 0
  BY <1>1, TotalIsASum, SumOverStep, FS_EmptySet
<1>3. TypeOK
  BY BoundsAreNat DEF Init, TypeOK, Sizes, Kinds, Servers
<1>4. OneAtATime /\ BudgetIsCharged /\ OverrunIsTheLast /\ WithinBudget
  BY <1>2, BoundsAreNat DEF Init, OneAtATime, BudgetIsCharged, OverrunIsTheLast, WithinBudget
<1>5. StillAsLooked
  BY BoundsAreNat DEF Init, StillAsLooked, Absent
<1> QED  BY <1>3, <1>4, <1>5 DEF BudgetInv

\* What does not touch the files kept leaves their sums alone.
LEMMA SumsStay ==
  ASSUME UNCHANGED kept
  PROVE  /\ Collected' = Collected
         /\ \A S : Total(S)' = Total(S)
BY TotalIsASum DEF Collected

\* The next file is one of those pending.
LEMMA NextIsPending ==
  ASSUME TypeOK, NEW f, f \in NextFiles
  PROVE  f \in pending
BY MinIsThere, FilesAreNumbered DEF TypeOK, NextFiles

\* A file that fits is about to be read; one that does not is left out, and
\* after an overrun none fits.
LEMMA LookKeepsBudget ==
  ASSUME BudgetInv, NEW f \in Files, Look(f)
  PROVE  BudgetInv'
<1> USE DEF BudgetInv, Look, fixed, disk, meta
<1>1. f \in pending
  BY NextIsPending
<1>2. TypeOK'
  BY DEF TypeOK
<1>3. OneAtATime'
  BY <1>1 DEF OneAtATime, TypeOK
<1>4. Collected' = Collected /\ \A S : Total(S)' = Total(S)
  BY SumsStay
<1>5. Total(Collected) \in Int /\ size[f] \in Sizes
  BY TotalIsNumber DEF TypeOK
<1>6. BudgetIsCharged' /\ WithinBudget'
  BY <1>4 DEF BudgetIsCharged, WithinBudget
<1>7. StillAsLooked'
  <2> SUFFICES ASSUME quiet PROVE StillAsLooked'
    BY DEF StillAsLooked
  <2>1. /\ \A g \in Files : size[g] # Absent
        /\ \A g \in Files \ (Collected \cup sealed \cup pipes \cup pending) :
             size[g] > MaxOutputBytes - Total(Collected)
    BY DEF StillAsLooked
  <2>2. budget = MaxOutputBytes - Total(Collected)
    BY <1>5, BoundsAreNat DEF BudgetIsCharged, WithinBudget
  <2>3. \A g \in current' : size[g] <= budget
    BY DEF Fits
  <2>4. f \notin current' => size[f] > budget
    BY <1>5, <2>1, <2>2, BoundsAreNat DEF Fits, Sizes, Absent
  <2>5. \A g \in Files \ (Collected \cup sealed \cup pipes \cup pending' \cup current') :
          size[g] > MaxOutputBytes - Total(Collected)
    BY <2>1, <2>2, <2>4
  <2> QED  BY <1>4, <2>1, <2>3, <2>5 DEF StillAsLooked
<1>8. OverrunIsTheLast'
  BY <1>4, <1>5, BoundsAreNat DEF OverrunIsTheLast, Fits, BudgetIsCharged, Sizes, Absent
<1> QED  BY <1>2, <1>3, <1>6, <1>7, <1>8

\* A file that is read adds its size to the total.
LEMMA ReadAdds ==
  ASSUME TypeOK, NEW f \in Files, Read(f), kept[f] = Absent
  PROVE  /\ Collected' = Collected \cup {f} /\ f \notin Collected
         /\ size[f] \in Nat
         /\ Total(Collected)' = Total(Collected) + size[f]
         /\ Total(Collected \ {f})' = Total(Collected)
<1> USE DEF Read
<1>1. size[f] \in Nat /\ f \notin Collected /\ kept'[f] = size[f]
  BY DEF TypeOK, Sizes, Collected
<1>2. Collected' = Collected \cup {f}
  BY <1>1 DEF Collected, TypeOK, Absent
<1>3. \A g \in Collected : kept[g] = kept'[g]
  BY <1>1 DEF TypeOK
<1>4. IsFiniteSet(Collected') /\ \A g \in Collected' : kept'[g] \in Int
  BY <1>1, <1>2, <1>3, TotalIsNumber, FS_AddElement
<1>5. SumOver(kept', Collected) = Total(Collected)
  <2>1. IsFiniteSet(Collected)
    BY TotalIsNumber
  <2>2. SumOver(kept, Collected) = SumOver(kept', Collected)
    BY ONLY <2>1, <1>3, SumOverSame
  <2> QED  BY <2>2, TotalIsASum
<1>6. Collected' \ {f} = Collected
  BY <1>1, <1>2
<1>7. SumOver(kept', Collected') = size[f] + SumOver(kept', Collected)
  <2>1. f \in Collected'
    BY <1>2
  <2>2. SumOver(kept', Collected') = kept'[f] + SumOver(kept', Collected' \ {f})
    BY ONLY <2>1, <1>4, SumOverRemove
  <2> QED  BY <2>2, <1>1, <1>6
<1>8. Total(Collected)' = Total(Collected) + size[f]
  <2>1. Total(Collected) \in Int
    BY TotalIsNumber
  <2>2. Total(Collected)' = SumOver(kept', Collected')
    BY TotalIsASum
  <2> QED  BY <2>1, <2>2, <1>1, <1>5, <1>7
<1>9. Total(Collected \ {f})' = Total(Collected)
  BY <1>5, <1>6, TotalIsASum
<1> QED  BY <1>1, <1>2, <1>8, <1>9

\* A file that is read is charged; if it was looked at as it is, it fits.
LEMMA ReadKeepsBudget ==
  ASSUME BudgetInv, NEW f \in Files, Read(f)
  PROVE  BudgetInv'
<1> USE DEF BudgetInv, Read, fixed, disk, meta
<1>1. /\ Collected' = Collected \cup {f} /\ f \notin Collected
      /\ size[f] \in Nat
      /\ Total(Collected)' = Total(Collected) + size[f]
      /\ Total(Collected \ {f})' = Total(Collected)
  BY ReadAdds DEF OneAtATime
<1>2. Total(Collected) \in Int
  BY TotalIsNumber
<1>3. current = {f} /\ f \notin pending
  BY DEF OneAtATime
<1>4. budget' = IF kind = "rust" THEN IF budget - size[f] >= 0 THEN budget - size[f] ELSE 0
                ELSE budget - size[f]
  BY <1>1, MaxOfTwo DEF Left, TypeOK
<1>5. TypeOK'
  BY <1>1, <1>4 DEF TypeOK, Sizes
<1>6. OneAtATime'
  BY <1>3 DEF OneAtATime, TypeOK
<1>7. BudgetIsCharged'
  BY <1>1, <1>2, <1>4, BoundsAreNat DEF BudgetIsCharged
<1>8. WithinBudget'
  BY <1>1, <1>2, BoundsAreNat DEF StillAsLooked, BudgetIsCharged, WithinBudget
<1>9. StillAsLooked'
  BY <1>1, <1>2, <1>3, BoundsAreNat DEF StillAsLooked, TypeOK, Sizes
<1>10. OverrunIsTheLast'
  <2> SUFFICES ASSUME kind # "rust", Total(Collected)' > MaxOutputBytes
               PROVE  \E g \in Collected' : Total(Collected \ {g})' <= MaxOutputBytes
    BY DEF OverrunIsTheLast
  <2>1. Total(Collected) <= MaxOutputBytes
    BY <1>2, <1>3, BoundsAreNat DEF OverrunIsTheLast
  <2>2. f \in Collected' /\ Total(Collected \ {f})' <= MaxOutputBytes
    BY <1>1, <2>1
  <2> QED  BY <2>2
<1> QED  BY <1>5, <1>6, <1>7, <1>8, <1>9, <1>10

\* A file that cannot be read is sealed, if the container has stopped, and one
\* that is waited for is a pipe.
LEMMA ReadFailsKeepsBudget ==
  ASSUME BudgetInv, NEW f \in Files, ReadFails(f) \/ Block(f)
  PROVE  BudgetInv'
<1> USE DEF BudgetInv, ReadFails, Block, fixed, disk, meta
<1>1. Collected' = Collected /\ \A S : Total(S)' = Total(S)
  BY SumsStay
<1>2. TypeOK' /\ OneAtATime'
  BY DEF TypeOK, OneAtATime
<1>3. BudgetIsCharged' /\ WithinBudget' /\ OverrunIsTheLast'
  BY <1>1 DEF BudgetIsCharged, WithinBudget, OverrunIsTheLast
<1>4. StillAsLooked'
  BY <1>1 DEF StillAsLooked, OneAtATime
<1> QED  BY <1>2, <1>3, <1>4

\* Files that change do so under a container that has not stopped.
LEMMA WritesKeepBudget ==
  ASSUME BudgetInv, NEW f \in Files, Grow(f) \/ Unlink(f) \/ Replace(f)
  PROVE  BudgetInv'
<1> USE DEF BudgetInv, Grow, Unlink, Replace, fixed, meta, loop
<1>1. Collected' = Collected /\ \A S : Total(S)' = Total(S)
  BY SumsStay
<1>2. TypeOK'
  BY BoundsAreNat DEF TypeOK, Sizes
<1>3. OneAtATime' /\ BudgetIsCharged' /\ WithinBudget' /\ OverrunIsTheLast' /\ StillAsLooked'
  BY <1>1 DEF OneAtATime, BudgetIsCharged, WithinBudget, OverrunIsTheLast, StillAsLooked
<1> QED  BY <1>2, <1>3

\* What happens around the loop, and to the metrics.
Others == \/ ReadMetrics \/ BlockOnRecord \/ Interrupt \/ Again \/ Stray \/ LateRecord
          \/ ListingFails \/ Finish \/ UNCHANGED vars

\* It keeps no file, and leaves out none but pipes.
LEMMA OthersKeepBudget ==
  ASSUME BudgetInv, Others
  PROVE  BudgetInv'
<1> USE DEF BudgetInv, vars, fixed, disk, meta, loop
<1>1. UNCHANGED <<kind, quiet, size, pipes, sealed, current, budget, kept>>
  BY DEF Others, ReadMetrics, BlockOnRecord, Interrupt, Again, Stray, LateRecord,
         ListingFails, Finish
<1>2. pending' \subseteq pending /\ pending \ pending' \subseteq pipes
  BY DEF Others, ReadMetrics, BlockOnRecord, Interrupt, Again, Stray, LateRecord,
         ListingFails, Finish, Typed
<1>3. Collected' = Collected /\ \A S : Total(S)' = Total(S)
  BY <1>1, SumsStay
<1>4. /\ step' \in {"metrics", "loop", "blocked", "done", "error"}
      /\ step' # "loop" => current = {}
  BY DEF Others, ReadMetrics, BlockOnRecord, Interrupt, Again, Stray, LateRecord,
         ListingFails, Finish, TypeOK, OneAtATime
<1>5. TypeOK' /\ OneAtATime'
  BY <1>1, <1>2, <1>4 DEF TypeOK, OneAtATime
<1>6. BudgetIsCharged' /\ WithinBudget' /\ OverrunIsTheLast'
  BY <1>1, <1>3 DEF BudgetIsCharged, WithinBudget, OverrunIsTheLast
<1>7. StillAsLooked'
  BY <1>1, <1>2, <1>3 DEF StillAsLooked
<1> QED  BY <1>5, <1>6, <1>7

\* Every step keeps the invariant.
LEMMA NextKeepsBudget == BudgetInv /\ [Next]_vars => BudgetInv'
BY LookKeepsBudget, ReadKeepsBudget, ReadFailsKeepsBudget, WritesKeepBudget, OthersKeepBudget
   DEF Next, Terminated, Others

\* The inductive invariant holds of every state.
THEOREM BudgetInvariant == Spec => []BudgetInv
BY InitBudgetInv, NextKeepsBudget, PTL DEF Spec

\* README.md:111: the answer of no server holds more of a stopped container than
\* the budget allows.
THEOREM BudgetIsNeverExceeded == Spec => []WithinBudget
<1>1. BudgetInv => WithinBudget
  BY DEF BudgetInv
<1> QED  BY <1>1, BudgetInvariant, PTL

\* No file is left out of it that could be read and would still fit, unless .NET
\* has ended its loop (main.go:375, main.rs:526, Program.cs:407).
THEOREM BudgetIsUsed == Spec => []NoneLeftOutThatFits
<1>1. BudgetInv => NoneLeftOutThatFits
  BY DEF BudgetInv, StillAsLooked, OneAtATime, NoneLeftOutThatFits
<1> QED  BY <1>1, BudgetInvariant, PTL

\* Files that grow between stat and read take Go and .NET over the budget by one
\* file at most.
THEOREM OverrunsByOneFile == Spec => []OverrunIsOneFile
<1>1. BudgetInv => OverrunIsOneFile
  BY DEF BudgetInv, OverrunIsTheLast, OverrunIsOneFile
<1> QED  BY <1>1, BudgetInvariant, PTL
-----------------------------------------------------------------------------
\* A worker has been stopped short, or has others about.
Spoilt == kind = "worker" /\ (tainted \/ strays)

\* The inductive invariant: only then is a record left of an earlier run there,
\* or does a worker leave behind one of its own, read or hidden.
MetricsInv ==
  /\ record = "left" => Spoilt
  /\ metrics = "left" => Spoilt
  /\ strays => kind = "worker"
  /\ kind = "worker" /\ step = "done" /\ record \in {"own", "left", "shut"} => Spoilt
  /\ kind = "worker" => step \in {"metrics", "blocked", "done"}

\* The invariant holds when the container has ended: the directory was new.
LEMMA InitMetricsInv == Init => MetricsInv
BY DEF Init, MetricsInv, Spoilt, RecordsAfter

\* The record is read and removed, or stays and taints what comes after.
LEMMA ReadMetricsKeeps ==
  ASSUME MetricsInv, ReadMetrics \/ BlockOnRecord
  PROVE  MetricsInv'
<1> USE DEF MetricsInv, Spoilt, fixed, disk, meta
<1>1. CASE ReadMetrics
  <2>1. PICK removable \in BOOLEAN :
          /\ metrics' = IF record \in Parsable THEN record ELSE "zeros"
          /\ record' = IF removable /\ record \in Removes[kind] THEN "none" ELSE record
          /\ tainted' = (tainted \/ record = "shut" \/ (record \in Parsable /\ ~removable))
          /\ step' = IF kind = "worker" THEN "done" ELSE "loop"
    BY <1>1 DEF ReadMetrics
  <2>2. UNCHANGED <<kind, strays>>
    BY <1>1 DEF ReadMetrics
  <2>3. (tainted' <=> tainted \/ record = "shut" \/ (record \in Parsable /\ ~removable))
    BY <2>1, Zenon
  <2>4. Removes["worker"] = Parsable
    BY DEF Removes
  <2> QED  BY <2>1, <2>2, <2>3, <2>4 DEF Parsable
<1>2. CASE BlockOnRecord
  BY <1>2 DEF BlockOnRecord
<1> QED  BY <1>1, <1>2

\* The next run of the worker turns a record of its own into one left, and so
\* may keep one only where it was tainted before.
LEMMA WorkerKeeps ==
  ASSUME MetricsInv, Interrupt \/ Again \/ Stray \/ LateRecord
  PROVE  MetricsInv'
<1> USE DEF MetricsInv, Spoilt, fixed, loop
<1>1. CASE Interrupt
  BY <1>1 DEF Interrupt
<1>2. CASE Again
  BY <1>2 DEF Again, RecordsAfter
<1>3. CASE Stray
  BY <1>3 DEF Stray
<1>4. CASE LateRecord
  BY <1>4 DEF LateRecord
<1> QED  BY <1>1, <1>2, <1>3, <1>4

\* What is done about the files.
FileSteps == \/ \E f \in Files : \/ Look(f) \/ Read(f) \/ ReadFails(f) \/ Block(f)
                               \/ Grow(f) \/ Unlink(f) \/ Replace(f)
             \/ ListingFails \/ Finish

\* It touches no record, and the worker has no part in it.
LEMMA LoopKeeps ==
  ASSUME MetricsInv, FileSteps
  PROVE  MetricsInv'
<1> USE DEF FileSteps, Look, Read, ReadFails, Block, Grow, Unlink, Replace, ListingFails, Finish
<1>1. UNCHANGED <<kind, record, tainted, strays, metrics>>
  BY DEF fixed, disk, meta
<1>2. UNCHANGED step \/ kind # "worker" \/ step = "loop" \/ step' = "blocked"
  BY DEF loop
<1> QED  BY <1>1, <1>2 DEF MetricsInv, Spoilt

\* Every step keeps the invariant.
LEMMA NextKeeps == MetricsInv /\ [Next]_vars => MetricsInv'
<1> SUFFICES ASSUME MetricsInv, [Next]_vars PROVE MetricsInv'
  OBVIOUS
<1>1. CASE UNCHANGED vars
  BY <1>1 DEF vars, fixed, meta, loop, MetricsInv, Spoilt
<1> QED  BY <1>1, ReadMetricsKeeps, WorkerKeeps, LoopKeeps DEF Next, Terminated, FileSteps

\* The inductive invariant holds of every state.
THEOREM Invariant == Spec => []MetricsInv
BY InitMetricsInv, NextKeeps, PTL DEF Spec

\* The metrics reported are those of the run, or zeros, unless a worker has left
\* a record, or other containers write in its directory (worker.py:170-177).
THEOREM MetricsAreNeverStale == Spec => []MetricsAreTheRuns
<1>1. MetricsInv => MetricsAreTheRuns
  BY DEF MetricsInv, Spoilt, MetricsAreTheRuns
<1> QED  BY <1>1, Invariant, PTL
=============================================================================
