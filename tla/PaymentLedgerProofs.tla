-------------------------- MODULE PaymentLedgerProofs --------------------------
(***************************************************************************)
(* Proofs about payments and reports, for every finite set of intakes and  *)
(* students and every set of courses, prices, discounts, days and          *)
(* lookbacks.  Payments with their amounts move intakes and enrollments    *)
(* only as IntakeEnrollment allows, so what is proved of it carries over;  *)
(* a payment stays within the prices of its course, the figures of any set *)
(* of enrollments agree, the dashboard's money balances, and a trend       *)
(* covers the months it was asked for.                                     *)
(*                                                                         *)
(* What is paid, owed or counted is a sum over rows or seats: the module   *)
(* starts with what the proofs need to know of sums over finite sets.      *)
(***************************************************************************)
EXTENDS PaymentLedger, IntakeEnrollmentProofs

-----------------------------------------------------------------------------
(* Sums over a finite set, by induction on its subsets.                      *)

\* A collection of subsets of a finite set has a smallest one.
LEMMA LeastSubset ==
    ASSUME NEW S, IsFiniteSet(S), NEW B \in SUBSET SUBSET S, B # {}
    PROVE  \E T \in B : \A U \in B : U \subseteq T => U = T
<1> DEFINE R == StrictSubsetOrdering(S)
<1>1. IsWellFoundedOn(R, SUBSET S)
  BY FS_StrictSubsetOrderingWellFounded, FS_FiniteSubsetsOfFinite
<1> HIDE DEF R
<1>2. PICK T \in B : \A U \in B : ~(<<U, T>> \in R)
  BY <1>1, WFMin
<1>3. ASSUME NEW U \in B, U \subseteq T PROVE U = T
  BY <1>2, <1>3 DEF R, StrictSubsetOrdering
<1> QED
  BY <1>3

\* What holds of the empty set and is kept when an element is added holds of the
\* whole: G is the set of the subsets it holds of.
LEMMA SetInduction ==
    ASSUME NEW S, IsFiniteSet(S), NEW G, {} \in G,
           \A T \in SUBSET S, x \in S : T \in G /\ x \notin T => T \cup {x} \in G
    PROVE  S \in G
<1> DEFINE B == {T \in SUBSET S : T \notin G}
<1> SUFFICES ASSUME B # {} PROVE FALSE
  OBVIOUS
<1>1. PICK T \in B : \A U \in B : U \subseteq T => U = T
  <2> HIDE DEF B
  <2>1. B \in SUBSET SUBSET S
    BY DEF B
  <2> QED
    BY <2>1, LeastSubset
<1>2. PICK x : x \in T
  OBVIOUS
<1>3. T \ {x} \in SUBSET S /\ T \ {x} \in G /\ x \in S
  BY <1>1, <1>2
<1>4. (T \ {x}) \cup {x} \in G
  BY <1>3
<1>5. (T \ {x}) \cup {x} = T
  BY <1>2
<1> QED
  BY <1>4, <1>5

\* The sums of f over the subsets of S, as the fold computes them: an element is
\* chosen, and the rest is summed first.
Chosen(s) == CHOOSE x \in s : TRUE
Sums(g, f, S) == g = [s \in SUBSET S |-> IF s = {} THEN 0 ELSE f[Chosen(s)] + g[s \ {Chosen(s)}]]

\* The fold of the library is the one function that computes these sums.
LEMMA FoldForm == ASSUME NEW f, NEW S PROVE SumFunctionOnSet(f, S) = (CHOOSE g : Sums(g, f, S))[S]
BY Zenon DEF SumFunctionOnSet, FoldFunctionOnSet, MapThenFoldSet, Sums, Chosen

LEMMA ChosenIn == ASSUME NEW s, s # {} PROVE Chosen(s) \in s
BY DEF Chosen

LEMMA SumsAt ==
    ASSUME NEW f, NEW S, NEW g, Sums(g, f, S), NEW s \in SUBSET S
    PROVE  g[s] = IF s = {} THEN 0 ELSE f[Chosen(s)] + g[s \ {Chosen(s)}]
BY Zenon DEF Sums

\* Two such functions agree where both are defined.
LEMMA SumsAgree ==
    ASSUME NEW f, NEW S, NEW g, Sums(g, f, S), NEW R, NEW h, Sums(h, f, R), IsFiniteSet(S), S \subseteq R
    PROVE  g[S] = h[S]
<1> DEFINE B == {s \in SUBSET S : g[s] # h[s]}
<1>0. B \in SUBSET SUBSET S
  OBVIOUS
<1> SUFFICES ASSUME B # {} PROVE FALSE
  OBVIOUS
<1>1. PICK T \in B : \A U \in B : U \subseteq T => U = T
  <2> HIDE DEF B
  <2> QED
    BY <1>0, LeastSubset
<1> DEFINE c == Chosen(T)
<1>5. T \in SUBSET S /\ T \in SUBSET R
  OBVIOUS
<1>6. g[T] = (IF T = {} THEN 0 ELSE f[c] + g[T \ {c}])
  BY <1>5, SumsAt
<1>7. h[T] = (IF T = {} THEN 0 ELSE f[c] + h[T \ {c}])
  <2>1. \A s \in SUBSET R : h[s] = (IF s = {} THEN 0 ELSE f[Chosen(s)] + h[s \ {Chosen(s)}])
    BY SumsAt
  <2> QED
    BY <1>5, <2>1
<1>2. T # {}
  BY <1>6, <1>7
<1>3. c \in T
  BY <1>2, ChosenIn
<1>4. g[T \ {c}] = h[T \ {c}]
  BY <1>1, <1>3
<1> QED
  BY <1>2, <1>4, <1>6, <1>7

\* There is such a function: the one for a set without x is extended to x.
LEMMA SumsExist == ASSUME NEW f, NEW S, IsFiniteSet(S) PROVE \E g : Sums(g, f, S)
<1> DEFINE B == {s \in SUBSET S : ~\E g : Sums(g, f, s)}
<1>0. B \in SUBSET SUBSET S
  OBVIOUS
<1> SUFFICES ASSUME B # {} PROVE FALSE
  OBVIOUS
<1>1. PICK T \in B : \A U \in B : U \subseteq T => U = T
  <2> HIDE DEF B
  <2> QED
    BY <1>0, LeastSubset
<1> DEFINE G(u) == CHOOSE g : Sums(g, f, u)
           g == [s \in SUBSET T |-> IF s = {} THEN 0 ELSE f[Chosen(s)] + G(s \ {Chosen(s)})[s \ {Chosen(s)}]]
<1>2. ASSUME NEW u \in SUBSET T, u # T PROVE Sums(G(u), f, u)
  <2>1. \E h : Sums(h, f, u)
    BY <1>1, <1>2
  <2> QED
    BY <2>1
<1>3. ASSUME NEW u \in SUBSET T, u # T PROVE g[u] = G(u)[u]
  <2> DEFINE c == Chosen(u)
  <2> HIDE DEF G
  <2>1. G(u)[u] = IF u = {} THEN 0 ELSE f[c] + G(u)[u \ {c}]
    BY <1>2, <1>3, SumsAt
  <2>2. CASE u = {}
    BY <2>1, <2>2
  <2>3. CASE u # {}
    <3>1. c \in u
      BY <2>3, ChosenIn
    <3> DEFINE v == u \ {c}
    <3>2. v \in SUBSET T /\ v # T /\ v \subseteq u
      BY <3>1
    <3>3. Sums(G(v), f, v) /\ Sums(G(u), f, u)
      BY <1>2, <1>3, <3>2
    <3>4. IsFiniteSet(v)
      BY FS_Subset, <3>2
    <3>5. G(v)[v] = G(u)[v]
      BY <3>2, <3>3, <3>4, SumsAgree
    <3> QED
      BY <2>1, <2>3, <3>5
  <2> QED
    BY <2>2, <2>3
<1>4. ASSUME NEW s \in SUBSET T PROVE g[s] = IF s = {} THEN 0 ELSE f[Chosen(s)] + g[s \ {Chosen(s)}]
  <2> HIDE DEF G
  <2>1. CASE s = {}
    BY <2>1
  <2>2. CASE s # {}
    <3>1. Chosen(s) \in s
      BY <2>2, ChosenIn
    <3>2. s \ {Chosen(s)} \in SUBSET T /\ s \ {Chosen(s)} # T
      BY <3>1
    <3>3. g[s \ {Chosen(s)}] = G(s \ {Chosen(s)})[s \ {Chosen(s)}]
      BY <1>3, <3>2
    <3> QED
      BY <2>2, <3>3
  <2> QED
    BY <2>1, <2>2
<1>5. Sums(g, f, T)
  <2> DEFINE h == [s \in SUBSET T |-> IF s = {} THEN 0 ELSE f[Chosen(s)] + g[s \ {Chosen(s)}]]
  <2>1. g = [s \in SUBSET T |-> g[s]]
    OBVIOUS
  <2> HIDE DEF g
  <2>2. g = h
    BY <1>4, <2>1
  <2> QED
    BY <2>2 DEF Sums
<1> QED
  BY <1>5

\* So the fold satisfies its own recursion.
LEMMA SumUnfold ==
    ASSUME NEW f, NEW S, IsFiniteSet(S)
    PROVE  SumFunctionOnSet(f, S) =
             IF S = {} THEN 0 ELSE f[Chosen(S)] + SumFunctionOnSet(f, S \ {Chosen(S)})
<1> DEFINE G(u) == CHOOSE g : Sums(g, f, u)
<1>1. ASSUME NEW u \in SUBSET S PROVE Sums(G(u), f, u) /\ SumFunctionOnSet(f, u) = G(u)[u] /\ IsFiniteSet(u)
  BY SumsExist, FoldForm, FS_Subset
<1> HIDE DEF G
<1>2. SumFunctionOnSet(f, S) = IF S = {} THEN 0 ELSE f[Chosen(S)] + G(S)[S \ {Chosen(S)}]
  BY <1>1, SumsAt
<1>3. ASSUME NEW v \in SUBSET S PROVE G(S)[v] = SumFunctionOnSet(f, v)
  <2>1. Sums(G(v), f, v) /\ Sums(G(S), f, S) /\ IsFiniteSet(v) /\ SumFunctionOnSet(f, v) = G(v)[v]
    BY <1>1
  <2> QED
    BY <2>1, SumsAgree
<1> QED
  BY <1>2, <1>3

\* f gives every element of S a whole number.
WholeOn(f, S) == \A x \in S : f[x] \in Int

LEMMA SumIsWhole ==
    ASSUME NEW f, NEW S, IsFiniteSet(S), WholeOn(f, S)
    PROVE  SumFunctionOnSet(f, S) \in Int
<1> DEFINE B == {s \in SUBSET S : SumFunctionOnSet(f, s) \notin Int}
<1>0. B \in SUBSET SUBSET S
  OBVIOUS
<1> SUFFICES ASSUME B # {} PROVE FALSE
  OBVIOUS
<1>1. PICK T \in B : \A U \in B : U \subseteq T => U = T
  <2> HIDE DEF B
  <2> QED
    BY <1>0, LeastSubset
<1>2. T \in SUBSET S /\ IsFiniteSet(T)
  BY FS_Subset
<1>3. SumFunctionOnSet(f, T) = IF T = {} THEN 0 ELSE f[Chosen(T)] + SumFunctionOnSet(f, T \ {Chosen(T)})
  BY <1>2, SumUnfold
<1>4. T # {}
  BY <1>3
<1>5. Chosen(T) \in T
  BY <1>4, ChosenIn
<1>6. f[Chosen(T)] \in Int /\ SumFunctionOnSet(f, T \ {Chosen(T)}) \in Int
  BY <1>1, <1>2, <1>5 DEF WholeOn
<1> QED
  BY <1>3, <1>4, <1>6

LEMMA SumOfNone == ASSUME NEW f PROVE SumFunctionOnSet(f, {}) = 0
BY SumUnfold, FS_EmptySet

\* The sum does not depend on the order in which the fold chooses.
LEMMA SumWithout ==
    ASSUME NEW f, NEW S, IsFiniteSet(S), WholeOn(f, S), NEW x \in S
    PROVE  SumFunctionOnSet(f, S) = f[x] + SumFunctionOnSet(f, S \ {x})
<1> DEFINE B == {s \in SUBSET S : \E y \in s : SumFunctionOnSet(f, s) # f[y] + SumFunctionOnSet(f, s \ {y})}
<1>0. B \in SUBSET SUBSET S
  OBVIOUS
<1> SUFFICES ASSUME B # {} PROVE FALSE
  OBVIOUS
<1>1. PICK T \in B : \A U \in B : U \subseteq T => U = T
  <2> HIDE DEF B
  <2> QED
    BY <1>0, LeastSubset
<1>2. ASSUME NEW u \in SUBSET S PROVE IsFiniteSet(u) /\ SumFunctionOnSet(f, u) \in Int
  BY <1>2, FS_Subset, SumIsWhole DEF WholeOn
<1>3. ASSUME NEW u \in SUBSET S, u # {}
      PROVE  SumFunctionOnSet(f, u) = f[Chosen(u)] + SumFunctionOnSet(f, u \ {Chosen(u)})
  BY <1>2, <1>3, SumUnfold
<1>4. PICK y \in T : SumFunctionOnSet(f, T) # f[y] + SumFunctionOnSet(f, T \ {y})
  OBVIOUS
<1>5. ASSUME NEW u \in SUBSET T, u # T, NEW z \in u
      PROVE  SumFunctionOnSet(f, u) = f[z] + SumFunctionOnSet(f, u \ {z})
  BY <1>1, <1>5
<1> DEFINE c == Chosen(T)
<1> HIDE DEF B
<1>6. T \in SUBSET S
  BY <1>0
<1>7. c \in T
  BY <1>4, ChosenIn
<1>8. SumFunctionOnSet(f, T) = f[c] + SumFunctionOnSet(f, T \ {c})
  BY <1>3, <1>6, <1>7
<1> HIDE DEF c
<1>9. y # c
  BY <1>4, <1>8
<1>10. SumFunctionOnSet(f, T \ {c}) = f[y] + SumFunctionOnSet(f, (T \ {c}) \ {y})
  BY <1>5, <1>7, <1>9
<1>11. SumFunctionOnSet(f, T \ {y}) = f[c] + SumFunctionOnSet(f, (T \ {y}) \ {c})
  BY <1>5, <1>7, <1>9
<1>12. (T \ {c}) \ {y} = (T \ {y}) \ {c} /\ (T \ {c}) \ {y} \in SUBSET S
  BY <1>6
<1>13. f[y] \in Int /\ f[c] \in Int /\ SumFunctionOnSet(f, (T \ {c}) \ {y}) \in Int
  BY <1>2, <1>6, <1>7, <1>12 DEF WholeOn
<1> DEFINE w == SumFunctionOnSet(f, (T \ {c}) \ {y})
<1>14. SumFunctionOnSet(f, T \ {c}) = f[y] + w /\ SumFunctionOnSet(f, T \ {y}) = f[c] + w /\ w \in Int
  BY <1>10, <1>11, <1>12, <1>13
<1> HIDE DEF w
<1>15. SumFunctionOnSet(f, T) = f[y] + SumFunctionOnSet(f, T \ {y})
  BY <1>8, <1>13, <1>14
<1> QED
  BY <1>4, <1>15

\* The sum over one element more.
LEMMA SumWith ==
    ASSUME NEW f, NEW T, NEW x, IsFiniteSet(T), WholeOn(f, T \cup {x}), x \notin T
    PROVE  SumFunctionOnSet(f, T \cup {x}) = f[x] + SumFunctionOnSet(f, T)
<1>1. IsFiniteSet(T \cup {x}) /\ (T \cup {x}) \ {x} = T
  BY FS_AddElement
<1> QED
  BY <1>1, SumWithout

\* f and g added, element by element: so are their sums.
Plus(f, g, S) == [x \in S |-> f[x] + g[x]]

LEMMA PlusSums ==
    ASSUME NEW f, NEW g, NEW S, IsFiniteSet(S), WholeOn(f, S), WholeOn(g, S)
    PROVE  SumFunctionOnSet(Plus(f, g, S), S) = SumFunctionOnSet(f, S) + SumFunctionOnSet(g, S)
<1> DEFINE h == Plus(f, g, S)
           G == {T \in SUBSET S : SumFunctionOnSet(h, T) = SumFunctionOnSet(f, T) + SumFunctionOnSet(g, T)}
<1>1. \A x \in S : f[x] \in Int /\ g[x] \in Int /\ h[x] = f[x] + g[x]
  BY DEF Plus, WholeOn
<1> HIDE DEF h
<1>2. {} \in G
  BY SumOfNone
<1>3. ASSUME NEW T \in SUBSET S, NEW x \in S, T \in G, x \notin T PROVE T \cup {x} \in G
  <2>1. IsFiniteSet(T) /\ WholeOn(f, T \cup {x}) /\ WholeOn(g, T \cup {x}) /\ WholeOn(h, T \cup {x})
    BY <1>1, FS_Subset DEF WholeOn
  <2>2. WholeOn(f, T) /\ WholeOn(g, T)
    BY <1>1 DEF WholeOn
  <2>3. SumFunctionOnSet(f, T) \in Int /\ SumFunctionOnSet(g, T) \in Int
    BY <2>1, <2>2, SumIsWhole
  <2>4. /\ SumFunctionOnSet(f, T \cup {x}) = f[x] + SumFunctionOnSet(f, T)
        /\ SumFunctionOnSet(g, T \cup {x}) = g[x] + SumFunctionOnSet(g, T)
        /\ SumFunctionOnSet(h, T \cup {x}) = h[x] + SumFunctionOnSet(h, T)
    BY <1>3, <2>1, SumWith
  <2> QED
    BY <1>1, <1>3, <2>3, <2>4
<1> HIDE DEF G
<1>4. S \in G
  BY <1>2, <1>3, SetInduction
<1> QED
  BY <1>4 DEF G, h

\* Of two functions, the one that is nowhere larger has no larger sum.
LEMMA SumsCompare ==
    ASSUME NEW f, NEW g, NEW S, IsFiniteSet(S), WholeOn(f, S), WholeOn(g, S), \A x \in S : f[x] <= g[x]
    PROVE  SumFunctionOnSet(f, S) <= SumFunctionOnSet(g, S)
<1> DEFINE G == {T \in SUBSET S : SumFunctionOnSet(f, T) <= SumFunctionOnSet(g, T)}
<1>2. {} \in G
  BY SumOfNone
<1>3. ASSUME NEW T \in SUBSET S, NEW x \in S, T \in G, x \notin T PROVE T \cup {x} \in G
  <2>1. IsFiniteSet(T) /\ WholeOn(f, T \cup {x}) /\ WholeOn(g, T \cup {x})
    BY FS_Subset DEF WholeOn
  <2>2. WholeOn(f, T) /\ WholeOn(g, T)
    BY DEF WholeOn
  <2>3. SumFunctionOnSet(f, T) \in Int /\ SumFunctionOnSet(g, T) \in Int
    BY <2>1, <2>2, SumIsWhole
  <2>4. /\ SumFunctionOnSet(f, T \cup {x}) = f[x] + SumFunctionOnSet(f, T)
        /\ SumFunctionOnSet(g, T \cup {x}) = g[x] + SumFunctionOnSet(g, T)
    BY <1>3, <2>1, SumWith
  <2>5. f[x] \in Int /\ g[x] \in Int /\ f[x] <= g[x]
    BY DEF WholeOn
  <2> QED
    BY <1>3, <2>3, <2>4, <2>5
<1> HIDE DEF G
<1>4. S \in G
  BY <1>2, <1>3, SetInduction
<1> QED
  BY <1>4 DEF G

\* Functions that agree have one sum.
LEMMA SameSums ==
    ASSUME NEW f, NEW g, NEW S, IsFiniteSet(S), WholeOn(f, S), WholeOn(g, S), \A x \in S : f[x] = g[x]
    PROVE  SumFunctionOnSet(f, S) = SumFunctionOnSet(g, S)
<1>1. \A x \in S : f[x] <= g[x] /\ g[x] <= f[x]
  BY DEF WholeOn
<1>2. SumFunctionOnSet(f, S) <= SumFunctionOnSet(g, S) /\ SumFunctionOnSet(g, S) <= SumFunctionOnSet(f, S)
  BY <1>1, SumsCompare
<1>3. SumFunctionOnSet(f, S) \in Int /\ SumFunctionOnSet(g, S) \in Int
  BY SumIsWhole
<1> QED
  BY <1>2, <1>3

\* Elements that count nothing may be left out.
LEMMA SumOfPart ==
    ASSUME NEW f, NEW P, NEW S, IsFiniteSet(S), WholeOn(f, S), P \subseteq S, \A x \in S \ P : f[x] = 0
    PROVE  SumFunctionOnSet(f, P) = SumFunctionOnSet(f, S)
<1> DEFINE G == {T \in SUBSET S : SumFunctionOnSet(f, T \cap P) = SumFunctionOnSet(f, T)}
<1>2. {} \in G
  <2>1. {} \cap P = {}
    OBVIOUS
  <2> QED
    BY <2>1
<1>3. ASSUME NEW T \in SUBSET S, NEW x \in S, T \in G, x \notin T PROVE T \cup {x} \in G
  <2>1. IsFiniteSet(T) /\ WholeOn(f, T \cup {x}) /\ IsFiniteSet(T \cap P) /\ WholeOn(f, (T \cap P) \cup {x})
    BY FS_Subset DEF WholeOn
  <2>2. SumFunctionOnSet(f, T \cup {x}) = f[x] + SumFunctionOnSet(f, T)
    BY <1>3, <2>1, SumWith
  <2>3. CASE x \in P
    <3>1. (T \cup {x}) \cap P = (T \cap P) \cup {x} /\ x \notin T \cap P
      BY <1>3, <2>3
    <3>2. SumFunctionOnSet(f, (T \cap P) \cup {x}) = f[x] + SumFunctionOnSet(f, T \cap P)
      BY <2>1, <3>1, SumWith
    <3>3. SumFunctionOnSet(f, (T \cup {x}) \cap P) = f[x] + SumFunctionOnSet(f, T)
      BY <1>3, <3>1, <3>2
    <3> QED
      BY <2>2, <3>3
  <2>4. CASE x \notin P
    <3>1. (T \cup {x}) \cap P = T \cap P /\ f[x] = 0
      BY <2>4
    <3>2. SumFunctionOnSet(f, T) \in Int
      BY <2>1, SumIsWhole DEF WholeOn
    <3>3. SumFunctionOnSet(f, T \cup {x}) = SumFunctionOnSet(f, T)
      BY <2>2, <3>1, <3>2
    <3>4. SumFunctionOnSet(f, (T \cup {x}) \cap P) = SumFunctionOnSet(f, T)
      BY <1>3, <3>1
    <3> QED
      BY <3>3, <3>4
  <2> QED
    BY <2>3, <2>4
<1> HIDE DEF G
<1>4. S \in G
  BY <1>2, <1>3, SetInduction
<1>5. S \cap P = P
  OBVIOUS
<1> QED
  BY <1>4, <1>5 DEF G

\* Ones sum to the number of elements.
LEMMA SumOfOnes ==
    ASSUME NEW f, NEW S, IsFiniteSet(S), \A x \in S : f[x] = 1
    PROVE  SumFunctionOnSet(f, S) = Cardinality(S)
<1> DEFINE G == {T \in SUBSET S : SumFunctionOnSet(f, T) = Cardinality(T)}
<1>2. {} \in G
  BY SumOfNone, FS_EmptySet
<1>3. ASSUME NEW T \in SUBSET S, NEW x \in S, T \in G, x \notin T PROVE T \cup {x} \in G
  <2>1. IsFiniteSet(T) /\ WholeOn(f, T \cup {x}) /\ f[x] = 1
    BY FS_Subset DEF WholeOn
  <2>2. SumFunctionOnSet(f, T \cup {x}) = f[x] + SumFunctionOnSet(f, T)
    BY <1>3, <2>1, SumWith
  <2>3. Cardinality(T \cup {x}) = Cardinality(T) + 1 /\ Cardinality(T) \in Nat
    BY <1>3, <2>1, FS_AddElement, FS_CardinalityType
  <2> QED
    BY <1>3, <2>1, <2>2, <2>3
<1> HIDE DEF G
<1>4. S \in G
  BY <1>2, <1>3, SetInduction
<1> QED
  BY <1>4 DEF G

USE CatalogAssumption, PriceAssumption

-----------------------------------------------------------------------------
(* The core under the ledger.                                                *)

LEMMA LedgerMovesCore == [LedgerNext]_ledgerVars => [Next]_vars
<1> SUFFICES ASSUME [LedgerNext]_ledgerVars PROVE [Next]_vars
  OBVIOUS
<1>1. ASSUME NEW i \in Intakes, NEW s \in Students, PayInFull(i, s) \/ PayHalf(i, s) \/ TopUp(i, s) PROVE Next
  <2>1. SeatStep(i, s)
    BY <1>1 DEF PayInFull, PayHalf, TopUp, SeatStep
  <2> QED
    BY <2>1 DEF Next
<1>2. ASSUME NEW i \in Intakes, NEW s \in Students, SeatMovesOn(i, s) PROVE Next
  <2>1. SeatStep(i, s)
    BY <1>2 DEF SeatMovesOn, SeatStep
  <2> QED
    BY <2>1 DEF Next
<1>3. ASSUME NEW i \in Intakes, IntakeMovesOn(i) PROVE Next
  BY <1>3 DEF IntakeMovesOn, Next
<1>4. CASE CatalogMoves
  BY <1>4 DEF CatalogMoves, Next
<1>5. ASSUME NEW c \in Courses, NEW p \in Prices, SetPrice(c, p) PROVE UNCHANGED vars
  BY <1>5 DEF SetPrice
<1>6. CASE ReportStep
  BY <1>6 DEF ReportStep, OpenReport, ReadRevenue, ReadPayable, AskTrend, CloseReport
<1>7. CASE UNCHANGED ledgerVars
  BY <1>7 DEF ledgerVars
<1> QED
  BY <1>1, <1>2, <1>3, <1>4, <1>5, <1>6, <1>7 DEF LedgerNext

\* Payments in cents, price edits and reports move intakes and seats by the
\* actions of IntakeEnrollment only (buildInitialPaymentEntry, completePayment).
THEOREM LedgerUsesTheCore == LedgerSpec => Spec
<1>1. LedgerInit => Init
  BY DEF LedgerInit
<1> QED
  BY <1>1, LedgerMovesCore, PTL DEF LedgerSpec, Spec

\* So every enrollment's rows agree with its payment status, whatever becomes of
\* the price in between, and the rest of the core's invariant holds too.
THEOREM LedgerKeepsTheCore == LedgerSpec => []IInv
BY LedgerUsesTheCore, Invariance, PTL

-----------------------------------------------------------------------------
(* The rows of one enrollment.                                               *)

PaymentRows == [type : {"FULL", "PARTIAL", "TOP_UP"}, amount : Nat]

\* The types of the ledger; a span is finite, since it grows by a price at a time.
LedgerTypeOK ==
    /\ price \in [Courses -> Nat]
    /\ rows \in [Seats -> Seq(PaymentRows)]
    /\ span \in [Seats -> SUBSET Nat]
    /\ \A e \in Seats : IsFiniteSet(span[e])

\* The rows ps of an enrollment whose payment stands at how, when its course cost
\* one of these prices at each payment, with discount d for paying at once.
Fits(how, ps, prices, d) ==
    /\ how \in {"NONE", "NOT_REQUIRED"} => ps = <<>>
    /\ how = "PARTIAL" => \E p \in prices : ps = Row("PARTIAL", Half(p))
    /\ how = "COMPLETED" =>
          \/ \E p \in prices : p > d /\ ps = Row("FULL", p - d)
          \/ \E p, q \in prices : ps = Row("PARTIAL", Half(p)) \o Row("TOP_UP", Half(q))

RowsFit == \A e \in Seats : Fits(payment[e], rows[e], span[e], Discount[CourseOf[e[1]]])

RowsInv == LedgerTypeOK /\ RowsFit

\* Half a price is half of it or half a cent more.
LEMMA HalfIsWhole == \A p \in Nat : Half(p) \in Nat /\ 2 * Half(p) \in {p, p + 1}
BY DEF Half

\* Rows that fit some prices fit more of them.
LEMMA FitsMore ==
    ASSUME NEW how, NEW ps, NEW prices, NEW more, prices \subseteq more, NEW d, Fits(how, ps, prices, d)
    PROVE  Fits(how, ps, more, d)
BY Zenon DEF Fits

\* A step that records nothing.
LEMMA RowsStay ==
    ASSUME RowsInv, UNCHANGED <<price, rows, span>>,
           \A e \in Seats : payment'[e] = payment[e] \/ {payment[e], payment'[e]} \subseteq {"NONE", "NOT_REQUIRED"}
    PROVE  RowsInv'
<1>1. LedgerTypeOK'
  BY DEF RowsInv, LedgerTypeOK
<1>2. ASSUME NEW e \in Seats PROVE Fits(payment'[e], rows'[e], span'[e], Discount[CourseOf[e[1]]])
  BY DEF RowsInv, RowsFit, Fits
<1> QED
  BY <1>1, <1>2 DEF RowsInv, RowsFit

\* A step that records a row for e.
LEMMA RowRecorded ==
    ASSUME RowsInv, TypeOK, NEW i \in Intakes, NEW s \in Students,
           NEW kind \in {"FULL", "PARTIAL", "TOP_UP"}, NEW amount \in Nat, NEW how,
           Record(<<i, s>>, Row(kind, amount)),
           payment' = [payment EXCEPT ![<<i, s>>] = how],
           Fits(how, rows[<<i, s>>] \o Row(kind, amount),
                span[<<i, s>>] \cup {price[CourseOf[i]]}, Discount[CourseOf[i]])
    PROVE  RowsInv'
<1> DEFINE e == <<i, s>>
           row == Row(kind, amount)
<1>1. e \in Seats /\ e[1] = i
  BY DEF Seats
<1>2. row \in Seq(PaymentRows)
  BY DEF Row, PaymentRows
<1> HIDE DEF e, row
<1>3. /\ rows' = [rows EXCEPT ![e] = @ \o row]
      /\ span' = [span EXCEPT ![e] = @ \cup {price[CourseOf[i]]}]
      /\ price' = price
  BY <1>1 DEF Record, e, row
<1>4. LedgerTypeOK'
  <2>1. rows[e] \o row \in Seq(PaymentRows)
    BY <1>1, <1>2 DEF RowsInv, LedgerTypeOK
  <2>2. rows' \in [Seats -> Seq(PaymentRows)]
    BY <1>1, <1>3, <2>1 DEF RowsInv, LedgerTypeOK
  <2>3. price[CourseOf[i]] \in Nat
    BY <1>1 DEF RowsInv, LedgerTypeOK
  <2>4. span' \in [Seats -> SUBSET Nat]
    BY <1>1, <1>3, <2>3 DEF RowsInv, LedgerTypeOK
  <2>5. IsFiniteSet(span[e] \cup {price[CourseOf[i]]})
    BY <1>1, FS_AddElement DEF RowsInv, LedgerTypeOK
  <2>6. \A f \in Seats : IsFiniteSet(span'[f])
    BY <1>1, <1>3, <2>5 DEF RowsInv, LedgerTypeOK
  <2> QED
    BY <1>3, <2>2, <2>4, <2>6 DEF RowsInv, LedgerTypeOK
<1>5. ASSUME NEW f \in Seats PROVE Fits(payment'[f], rows'[f], span'[f], Discount[CourseOf[f[1]]])
  <2>1. CASE f = e
    <3>1. rows'[f] = rows[e] \o row /\ span'[f] = span[e] \cup {price[CourseOf[i]]}
      BY <1>1, <1>3, <2>1 DEF RowsInv, LedgerTypeOK
    <3>2. payment'[f] = how
      BY <1>1, <2>1 DEF TypeOK, e
    <3> QED
      BY <1>1, <2>1, <3>1, <3>2 DEF e, row
  <2>2. CASE f # e
    <3>1. rows'[f] = rows[f] /\ span'[f] = span[f] /\ payment'[f] = payment[f]
      BY <1>1, <1>3, <2>2 DEF RowsInv, LedgerTypeOK, TypeOK, e
    <3> QED
      BY <3>1 DEF RowsInv, RowsFit
  <2> QED
    BY <2>1, <2>2
<1> QED
  BY <1>4, <1>5 DEF RowsInv, RowsFit

LEMMA RowsInit == LedgerInit => RowsInv
<1> SUFFICES ASSUME LedgerInit PROVE RowsInv
  OBVIOUS
<1>1. LedgerTypeOK
  <2>1. price \in [Courses -> Nat]
    BY DEF LedgerInit
  <2>2. rows \in [Seats -> Seq(PaymentRows)]
    BY DEF LedgerInit
  <2>3. span \in [Seats -> SUBSET Nat] /\ \A e \in Seats : IsFiniteSet(span[e])
    BY FS_EmptySet DEF LedgerInit
  <2> QED
    BY <2>1, <2>2, <2>3 DEF LedgerTypeOK
<1>2. RowsFit
  BY DEF LedgerInit, Init, RowsFit, Fits
<1> QED
  BY <1>1, <1>2 DEF RowsInv

LEMMA RowsNext == RowsInv /\ IInv /\ [LedgerNext]_ledgerVars => RowsInv'
<1> SUFFICES ASSUME RowsInv, IInv, [LedgerNext]_ledgerVars PROVE RowsInv'
  OBVIOUS
<1>0. TypeOK /\ LedgerMatchesPaymentStatus
  BY DEF IInv
<1>1. ASSUME NEW i \in Intakes, NEW s \in Students, PayInFull(i, s) \/ PayHalf(i, s) PROVE RowsInv'
  <2> DEFINE e == <<i, s>>
             c == CourseOf[i]
  <2>1. e \in Seats /\ e[1] = i /\ c \in Courses
    BY DEF Seats
  <2>2. price[c] \in Nat /\ Discount[c] \in Nat
    BY <2>1 DEF RowsInv, LedgerTypeOK
  <2>3. enrolled[e] = "NONE"
    BY <1>1 DEF PayInFull, PayHalf, CreatePaid, MayCreatePaid
  <2>4. rows[e] = <<>>
    BY <1>0, <2>1, <2>3 DEF LedgerMatchesPaymentStatus, RowsInv, RowsFit, Fits
  <2>5. CASE PayInFull(i, s)
    <3> DEFINE amount == price[c] - Discount[c]
    <3>1. amount \in Nat /\ price[c] > Discount[c]
      BY <2>2, <2>5 DEF PayInFull
    <3>2. payment' = [payment EXCEPT ![e] = "COMPLETED"] /\ Record(e, Row("FULL", amount))
      BY <2>5 DEF PayInFull, CreatePaid, WritePaid
    <3>3. rows[e] \o Row("FULL", amount) = Row("FULL", amount)
      BY <2>4 DEF Row
    <3>4. Fits("COMPLETED", Row("FULL", amount), span[e] \cup {price[c]}, Discount[c])
      BY <3>1 DEF Fits
    <3> QED
      BY <1>0, <3>1, <3>2, <3>3, <3>4, RowRecorded
  <2>6. CASE PayHalf(i, s)
    <3> DEFINE amount == Half(price[c])
    <3>1. amount \in Nat
      BY <2>2, HalfIsWhole
    <3>2. payment' = [payment EXCEPT ![e] = "PARTIAL"] /\ Record(e, Row("PARTIAL", amount))
      BY <2>6 DEF PayHalf, CreatePaid, WritePaid
    <3>3. rows[e] \o Row("PARTIAL", amount) = Row("PARTIAL", amount)
      BY <2>4 DEF Row
    <3>4. Fits("PARTIAL", Row("PARTIAL", amount), span[e] \cup {price[c]}, Discount[c])
      BY DEF Fits
    <3> QED
      BY <1>0, <3>1, <3>2, <3>3, <3>4, RowRecorded
  <2> QED
    BY <1>1, <2>5, <2>6
<1>2. ASSUME NEW i \in Intakes, NEW s \in Students, TopUp(i, s) PROVE RowsInv'
  <2> DEFINE e == <<i, s>>
             c == CourseOf[i]
             amount == Half(price[c])
  <2>1. e \in Seats /\ e[1] = i /\ c \in Courses
    BY DEF Seats
  <2>2. amount \in Nat
    BY <2>1, HalfIsWhole DEF RowsInv, LedgerTypeOK
  <2>3. /\ payment[e] = "PARTIAL"
        /\ payment' = [payment EXCEPT ![e] = "COMPLETED"]
        /\ Record(e, Row("TOP_UP", amount))
    BY <1>2 DEF TopUp, CompletePayment, MayCompletePayment, WriteTopUp
  <2>4. PICK p \in span[e] : rows[e] = Row("PARTIAL", Half(p))
    BY <2>1, <2>3 DEF RowsInv, RowsFit, Fits
  <2>5. Fits("COMPLETED", Row("PARTIAL", Half(p)) \o Row("TOP_UP", amount), span[e] \cup {price[c]}, Discount[c])
    BY Zenon DEF Fits
  <2> QED
    BY <1>0, <2>2, <2>3, <2>4, <2>5, RowRecorded
<1>3. ASSUME NEW c \in Courses, NEW p \in Prices, SetPrice(c, p) PROVE RowsInv'
  <2>1. /\ price' = [price EXCEPT ![c] = p]
        /\ span' = [e \in Seats |->
              IF CourseOf[e[1]] = c /\ payment[e] = "PARTIAL" THEN span[e] \cup {p} ELSE span[e]]
        /\ rows' = rows /\ payment' = payment
    BY <1>3 DEF SetPrice, vars
  <2>2. ASSUME NEW e \in Seats
        PROVE  span[e] \subseteq span'[e] /\ span'[e] \subseteq Nat /\ IsFiniteSet(span'[e])
    BY <2>1, FS_AddElement DEF RowsInv, LedgerTypeOK
  <2>3. LedgerTypeOK'
    <3>1. span' \in [Seats -> SUBSET Nat]
      BY <2>1, <2>2
    <3> QED
      BY <2>1, <2>2, <3>1 DEF RowsInv, LedgerTypeOK
  <2>4. ASSUME NEW e \in Seats PROVE Fits(payment'[e], rows'[e], span'[e], Discount[CourseOf[e[1]]])
    <3>1. Fits(payment[e], rows[e], span[e], Discount[CourseOf[e[1]]])
      BY DEF RowsInv, RowsFit
    <3> QED
      BY <2>1, <2>2, <3>1, FitsMore
  <2> QED
    BY <2>3, <2>4 DEF RowsInv, RowsFit
<1>4. ASSUME NEW i \in Intakes, NEW s \in Students, SeatMovesOn(i, s) PROVE RowsInv'
  <2>1. UNCHANGED <<price, rows, span>>
    BY <1>4 DEF SeatMovesOn
  <2>2. CASE EnrollFree(i, s)
    <3>1. payment' = [payment EXCEPT ![<<i, s>>] = "NOT_REQUIRED"] /\ Free(i) /\ <<i, s>> \in Seats
      BY <2>2 DEF EnrollFree, MayEnrollFree, WriteFree, Seats
    <3>2. payment[<<i, s>>] \in {"NONE", "NOT_REQUIRED"}
      BY <1>0, <3>1 DEF LedgerMatchesPaymentStatus
    <3> QED
      BY <1>0, <2>1, <3>1, <3>2, RowsStay DEF TypeOK
  <2>3. CASE ~EnrollFree(i, s)
    <3>1. payment' = payment
      BY <1>4, <2>3 DEF SeatMovesOn, UpdateEnrollment, WriteEnrollment, CreateIssued, WriteIssued, RevokeIssued, WriteRevoked
    <3> QED
      BY <2>1, <3>1, RowsStay
  <2> QED
    BY <2>2, <2>3
<1>5. ASSUME NEW i \in Intakes, IntakeMovesOn(i) PROVE UNCHANGED <<price, rows, span, payment>>
  BY <1>5 DEF IntakeMovesOn, IntakeStep, CreateIntake, WriteNewIntake, UpdateSetup, WriteSetup,
     TransitionStatus, WriteTransition, RemovePermanently, WriteIntakeRemoved, EditCurriculum,
     LessonComesDue, WriteCurriculum, seatVars
<1>6. CASE CatalogMoves
  <2>1. UNCHANGED <<price, rows, span, payment>>
    BY <1>6 DEF CatalogMoves, MoveCatalog, WriteCatalog, seatVars
  <2> QED
    BY <2>1, RowsStay
<1>7. CASE ReportStep \/ UNCHANGED ledgerVars
  <2>1. UNCHANGED <<price, rows, span, payment>>
    BY <1>7 DEF ReportStep, OpenReport, ReadRevenue, ReadPayable, AskTrend, CloseReport, ledgerVars, vars
  <2> QED
    BY <2>1, RowsStay
<1> QED
  BY <1>1, <1>2, <1>3, <1>4, <1>5, <1>6, <1>7, RowsStay DEF LedgerNext

LEMMA RowsAlways == LedgerSpec => [](RowsInv /\ IInv /\ CompletionIsPaid)
<1>1. LedgerInit => RowsInv
  BY RowsInit
<1> QED
  BY <1>1, RowsNext, LedgerKeepsTheCore, LedgerUsesTheCore, CompletedMeansPaid, PTL DEF LedgerSpec

\* An intake that does not exist, or no longer, has no payment: deleting one
\* (removePermanently refuses an intake with enrollments) loses no money that a
\* report has counted.
THEOREM DeletionLosesNoPayment == LedgerSpec => [](\A e \in Seats : status[e[1]] = "NONE" => rows[e] = <<>>)
<1>1. RowsInv /\ IInv => \A e \in Seats : status[e[1]] = "NONE" => rows[e] = <<>>
  <2> SUFFICES ASSUME RowsInv, IInv, NEW e \in Seats, status[e[1]] = "NONE" PROVE rows[e] = <<>>
    OBVIOUS
  <2>1. enrolled[e] = "NONE"
    BY DEF IInv, NoSeatBeforeOpening, Seats
  <2>2. payment[e] = "NONE"
    BY <2>1 DEF IInv, LedgerMatchesPaymentStatus
  <2> QED
    BY <2>2 DEF RowsInv, RowsFit, Fits
<1> QED
  BY <1>1, RowsAlways, PTL

-----------------------------------------------------------------------------
(* What the rows of one enrollment add up to.                                *)

LEMMA SumOfOne == ASSUME NEW f, NEW x, f[x] \in Int PROVE SumFunctionOnSet(f, {x}) = f[x]
<1>1. IsFiniteSet({}) /\ WholeOn(f, {} \cup {x}) /\ {} \cup {x} = {x}
  BY FS_EmptySet DEF WholeOn
<1>2. SumFunctionOnSet(f, {} \cup {x}) = f[x] + SumFunctionOnSet(f, {})
  BY <1>1, SumWith
<1> QED
  BY <1>1, <1>2, SumOfNone

LEMMA SumOfTwo ==
    ASSUME NEW f, NEW x, NEW y, x # y, f[x] \in Int, f[y] \in Int
    PROVE  SumFunctionOnSet(f, {x, y}) = f[x] + f[y]
<1>1. IsFiniteSet({x}) /\ WholeOn(f, {x} \cup {y}) /\ {x} \cup {y} = {x, y}
  BY FS_Singleton DEF WholeOn
<1>2. SumFunctionOnSet(f, {x} \cup {y}) = f[y] + SumFunctionOnSet(f, {x})
  BY <1>1, SumWith
<1>3. SumFunctionOnSet(f, {x}) = f[x]
  BY SumOfOne
<1> QED
  BY <1>1, <1>2, <1>3

\* The three shapes that the rows of an enrollment can have.
LEMMA NoRows ==
    /\ Total(<<>>) = 0
    /\ \A kind : OfType(<<>>, kind) = {} /\ TotalOf(<<>>, kind) = 0
<1>1. ASSUME NEW f, DOMAIN f = {} PROVE SumFunction(f) = 0
  BY <1>1, SumOfNone DEF SumFunction
<1>2. ASSUME NEW kind PROVE OfType(<<>>, kind) = {}
  BY DEF OfType
<1>3. Total(<<>>) = 0
  BY <1>1 DEF Total
<1>4. ASSUME NEW kind PROVE TotalOf(<<>>, kind) = 0
  BY <1>1, <1>2 DEF TotalOf
<1> QED
  BY <1>2, <1>3, <1>4

LEMMA OneRow ==
    ASSUME NEW kind, NEW amount \in Int, NEW ps, ps = Row(kind, amount), NEW other
    PROVE  /\ Total(ps) = amount
           /\ OfType(ps, other) = IF other = kind THEN {1} ELSE {}
           /\ TotalOf(ps, other) = IF other = kind THEN amount ELSE 0
<1>1. DOMAIN ps = {1} /\ ps[1].type = kind /\ ps[1].amount = amount
  BY DEF Row
<1>2. ASSUME NEW f, f[1] = amount, DOMAIN f = {1} PROVE SumFunction(f) = amount
  BY <1>2, SumOfOne DEF SumFunction
<1>3. ASSUME NEW f, DOMAIN f = {} PROVE SumFunction(f) = 0
  BY <1>3, SumOfNone DEF SumFunction
<1>4. Total(ps) = amount
  BY <1>1, <1>2 DEF Total
<1>5. OfType(ps, other) = IF other = kind THEN {1} ELSE {}
  BY <1>1 DEF OfType
<1>6. TotalOf(ps, other) = IF other = kind THEN amount ELSE 0
  BY <1>1, <1>2, <1>3, <1>5 DEF TotalOf
<1> QED
  BY <1>4, <1>5, <1>6

PaidInHalves(ps, a, b) ==
    /\ Total(ps) = a + b
    /\ OfType(ps, "FULL") = {} /\ OfType(ps, "PARTIAL") = {1} /\ OfType(ps, "TOP_UP") = {2}
    /\ TotalOf(ps, "FULL") = 0 /\ TotalOf(ps, "PARTIAL") = a /\ TotalOf(ps, "TOP_UP") = b

LEMMA TwoHalves ==
    ASSUME NEW a \in Int, NEW b \in Int, NEW ps, ps = Row("PARTIAL", a) \o Row("TOP_UP", b)
    PROVE  PaidInHalves(ps, a, b)
<1>1. /\ DOMAIN ps = {1, 2}
      /\ ps[1].type = "PARTIAL" /\ ps[1].amount = a
      /\ ps[2].type = "TOP_UP" /\ ps[2].amount = b
  BY DEF Row
<1>2. ASSUME NEW f, NEW n \in {1, 2}, f[n] \in Int, DOMAIN f = {n} PROVE SumFunction(f) = f[n]
  BY <1>2, SumOfOne DEF SumFunction
<1>3. ASSUME NEW f, DOMAIN f = {} PROVE SumFunction(f) = 0
  BY <1>3, SumOfNone DEF SumFunction
<1>4. ASSUME NEW f, DOMAIN f = {1, 2}, f[1] = a, f[2] = b PROVE SumFunction(f) = a + b
  <2>1. 1 # 2 /\ f[1] \in Int /\ f[2] \in Int
    BY <1>4
  <2>2. SumFunctionOnSet(f, {1, 2}) = f[1] + f[2]
    BY <2>1, SumOfTwo
  <2> QED
    BY <1>4, <2>2 DEF SumFunction
<1>5. Total(ps) = a + b
  BY <1>1, <1>4 DEF Total
<1>6. OfType(ps, "FULL") = {} /\ OfType(ps, "PARTIAL") = {1} /\ OfType(ps, "TOP_UP") = {2}
  BY <1>1 DEF OfType
<1>7. TotalOf(ps, "FULL") = 0
  BY <1>3, <1>6 DEF TotalOf
<1>8. TotalOf(ps, "PARTIAL") = a
  <2> DEFINE f == [n \in {1} |-> ps[n].amount]
  <2>1. DOMAIN f = {1} /\ f[1] = a
    BY <1>1
  <2> HIDE DEF f
  <2>2. SumFunction(f) = a
    BY <1>2, <2>1
  <2> QED
    BY <1>6, <2>2 DEF TotalOf, f
<1>9. TotalOf(ps, "TOP_UP") = b
  <2> DEFINE f == [n \in {2} |-> ps[n].amount]
  <2>1. DOMAIN f = {2} /\ f[2] = b
    BY <1>1
  <2> HIDE DEF f
  <2>2. SumFunction(f) = b
    BY <1>2, <2>1
  <2> QED
    BY <1>6, <2>2 DEF TotalOf, f
<1> QED
  BY <1>5, <1>6, <1>7, <1>8, <1>9 DEF PaidInHalves

\* A finite set of prices has a lowest and a highest.
LEMMA Extremes ==
    ASSUME NEW S \in SUBSET Int, IsFiniteSet(S), S # {}
    PROVE  /\ Min(S) \in Int /\ Max(S) \in Int
           /\ \A x \in S : Min(S) <= x /\ x <= Max(S)
<1> DEFINE G == {T \in SUBSET S : T # {} => (\E l \in T : \A x \in T : l <= x) /\ (\E h \in T : \A x \in T : x <= h)}
<1>1. {} \in G
  OBVIOUS
<1>2. ASSUME NEW T \in SUBSET S, NEW y \in S, T \in G, y \notin T PROVE T \cup {y} \in G
  <2>1. CASE T = {}
    BY <2>1
  <2>2. CASE T # {}
    <3>1. PICK l \in T : \A x \in T : l <= x
      BY <1>2, <2>2
    <3>2. PICK h \in T : \A x \in T : x <= h
      BY <1>2, <2>2
    <3>3. \E m \in T \cup {y} : \A x \in T \cup {y} : m <= x
      <4>1. CASE l <= y
        BY <3>1, <4>1
      <4>2. CASE y <= l
        BY <3>1, <4>2
      <4> QED
        BY <4>1, <4>2
    <3>4. \E m \in T \cup {y} : \A x \in T \cup {y} : x <= m
      <4>1. CASE h <= y
        BY <3>2, <4>1
      <4>2. CASE y <= h
        BY <3>2, <4>2
      <4> QED
        BY <4>1, <4>2
    <3> QED
      BY <3>3, <3>4
  <2> QED
    BY <2>1, <2>2
<1> HIDE DEF G
<1>3. S \in G
  BY <1>1, <1>2, SetInduction
<1>4. (\E l \in S : \A x \in S : l <= x) /\ (\E h \in S : \A x \in S : x <= h)
  BY <1>3 DEF G
<1>5. Min(S) \in S /\ \A x \in S : Min(S) <= x
  BY <1>4 DEF Min
<1>6. Max(S) \in S /\ \A x \in S : x <= Max(S)
  <2>1. \E h \in S : \A x \in S : h >= x
    BY <1>4
  <2>2. Max(S) \in S /\ \A x \in S : Max(S) >= x
    BY <2>1 DEF Max
  <2> QED
    BY <2>2
<1> QED
  BY <1>5, <1>6

-----------------------------------------------------------------------------
(* A payment that is complete.                                               *)

\* Whoever has paid everything has paid a price the course really had while the
\* payment was open, whatever the prices, the discounts and the edits between the
\* two halves are: for two halves no less than the lowest and, but for a cent, no
\* more than the highest; at once, the price less the discount
\* (buildInitialPaymentEntry, completePayment).
THEOREM PaymentsStayWithinPrices == LedgerSpec => []PaidWithinPrices
<1>1. RowsInv => PaidWithinPrices
  <2> SUFFICES ASSUME RowsInv, NEW e \in Seats, payment[e] = "COMPLETED"
               PROVE  LET atOnce == OfType(rows[e], "FULL") # {}
                          whole == Total(rows[e]) + IF atOnce THEN Discount[CourseOf[e[1]]] ELSE 0
                      IN  whole \in Min(span[e])..Max(span[e]) + 1
    BY DEF PaidWithinPrices
  <2> DEFINE d == Discount[CourseOf[e[1]]]
             ps == rows[e]
             prices == span[e]
  <2>1. d \in Nat /\ prices \subseteq Nat /\ IsFiniteSet(prices)
    BY DEF RowsInv, LedgerTypeOK, Seats
  <2>2. Fits("COMPLETED", ps, prices, d)
    BY DEF RowsInv, RowsFit
  <2> HIDE DEF d, ps, prices
  <2>3. ASSUME prices # {}
        PROVE  /\ Min(prices) \in Int /\ Max(prices) \in Int
               /\ \A p \in prices : Min(prices) <= p /\ p <= Max(prices)
    BY <2>1, <2>3, Extremes
  <2>4. CASE \E p \in prices : p > d /\ ps = Row("FULL", p - d)
    <3>1. PICK p \in prices : p > d /\ ps = Row("FULL", p - d)
      BY <2>4
    <3>2. Total(ps) = p - d /\ OfType(ps, "FULL") # {}
      <4>1. p - d \in Int
        BY <2>1
      <4>2. Total(ps) = p - d /\ OfType(ps, "FULL") = {1}
        BY <3>1, <4>1, OneRow
      <4> QED
        BY <4>2
    <3>3. p \in Min(prices)..Max(prices) + 1 /\ p = Total(ps) + d
      BY <2>1, <2>3, <3>2
    <3> QED
      BY <3>2, <3>3 DEF d, ps, prices
  <2>5. CASE \E p, q \in prices : ps = Row("PARTIAL", Half(p)) \o Row("TOP_UP", Half(q))
    <3>1. PICK p \in prices, q \in prices : ps = Row("PARTIAL", Half(p)) \o Row("TOP_UP", Half(q))
      BY <2>5
    <3>2. /\ Half(p) \in Nat /\ 2 * Half(p) \in {p, p + 1}
          /\ Half(q) \in Nat /\ 2 * Half(q) \in {q, q + 1}
      BY <2>1, HalfIsWhole
    <3>3. Total(ps) = Half(p) + Half(q) /\ OfType(ps, "FULL") = {}
      <4>1. \A a, b \in Int : ps = Row("PARTIAL", a) \o Row("TOP_UP", b) => Total(ps) = a + b /\ OfType(ps, "FULL") = {}
        BY TwoHalves DEF PaidInHalves
      <4>2. Half(p) \in Int /\ Half(q) \in Int
        BY <3>2
      <4> QED
        BY <3>1, <4>1, <4>2, Zenon
    <3>4. Total(ps) + 0 \in Min(prices)..Max(prices) + 1
      BY <2>1, <2>3, <3>2, <3>3
    <3> QED
      BY <3>3, <3>4 DEF ps, prices
  <2> QED
    BY <2>2, <2>4, <2>5 DEF Fits
<1> QED
  BY <1>1, RowsAlways, PTL

-----------------------------------------------------------------------------
(* Figures over a set of seats.                                              *)

\* The elements of P, counted one each.
Ones(P, S) == [x \in S |-> IF x \in P THEN 1 ELSE 0]

LEMMA OnesAreWhole == ASSUME NEW P, NEW S PROVE WholeOn(Ones(P, S), S)
BY DEF WholeOn, Ones

\* A number of elements as a sum.
LEMMA OnesCount ==
    ASSUME NEW S, IsFiniteSet(S), NEW P \in SUBSET S
    PROVE  SumFunctionOnSet(Ones(P, S), S) = Cardinality(P)
<1> DEFINE f == Ones(P, S)
<1>1. (\A x \in P : f[x] = 1) /\ (\A x \in S \ P : f[x] = 0) /\ WholeOn(f, S) /\ IsFiniteSet(P)
  BY FS_Subset DEF Ones, WholeOn
<1> HIDE DEF f
<1>2. SumFunctionOnSet(f, P) = SumFunctionOnSet(f, S)
  BY <1>1, SumOfPart
<1>3. SumFunctionOnSet(f, P) = Cardinality(P)
  BY <1>1, SumOfOnes
<1> QED
  BY <1>2, <1>3 DEF f

LEMMA SumOfThree ==
    ASSUME NEW f, NEW a, NEW b, NEW c, NEW S, IsFiniteSet(S),
           WholeOn(f, S), WholeOn(a, S), WholeOn(b, S), WholeOn(c, S),
           \A x \in S : f[x] = a[x] + b[x] + c[x]
    PROVE  SumFunctionOnSet(f, S) = SumFunctionOnSet(a, S) + SumFunctionOnSet(b, S) + SumFunctionOnSet(c, S)
<1> DEFINE ab == Plus(a, b, S)
           abc == Plus(ab, c, S)
<1>1. WholeOn(ab, S) /\ \A x \in S : ab[x] = a[x] + b[x]
  BY DEF Plus, WholeOn
<1>2. SumFunctionOnSet(ab, S) = SumFunctionOnSet(a, S) + SumFunctionOnSet(b, S)
  BY PlusSums
<1> HIDE DEF ab
<1>3. WholeOn(abc, S) /\ \A x \in S : abc[x] = ab[x] + c[x]
  BY <1>1 DEF Plus, WholeOn
<1>4. SumFunctionOnSet(abc, S) = SumFunctionOnSet(ab, S) + SumFunctionOnSet(c, S)
  BY <1>1, PlusSums
<1> HIDE DEF abc
<1>5. \A x \in S : f[x] = abc[x]
  BY <1>1, <1>3
<1>6. SumFunctionOnSet(f, S) = SumFunctionOnSet(abc, S)
  BY <1>3, <1>5, SameSums
<1> QED
  BY <1>2, <1>4, <1>6

LEMMA SeatsFinite == IsFiniteSet(Seats)
BY FS_Product, CapacityAssumption DEF Seats

\* What the rows of one enrollment tell of its payment.
LEMMA RowsTell ==
    ASSUME NEW how \in PaymentStates, NEW ps, NEW prices \in SUBSET Nat, NEW d \in Nat, Fits(how, ps, prices, d)
    PROVE  /\ Total(ps) \in Int
           /\ TotalOf(ps, "FULL") \in Int /\ TotalOf(ps, "PARTIAL") \in Int /\ TotalOf(ps, "TOP_UP") \in Int
           /\ Total(ps) = TotalOf(ps, "FULL") + TotalOf(ps, "PARTIAL") + TotalOf(ps, "TOP_UP")
           /\ \A kind \in {"FULL", "PARTIAL", "TOP_UP"} : Cardinality(OfType(ps, kind)) \in {0, 1}
           /\ Cardinality(OfType(ps, "FULL")) + Cardinality(OfType(ps, "PARTIAL"))
                 = IF how \in {"PARTIAL", "COMPLETED"} THEN 1 ELSE 0
           /\ Cardinality(OfType(ps, "PARTIAL")) - Cardinality(OfType(ps, "TOP_UP"))
                 = IF how = "PARTIAL" THEN 1 ELSE 0
<1>0. Cardinality({}) = 0 /\ Cardinality({1}) = 1 /\ Cardinality({2}) = 1
  BY FS_EmptySet, FS_Singleton
<1>1. CASE how \in {"NONE", "NOT_REQUIRED"}
  <2>1. ps = <<>>
    BY <1>1 DEF Fits
  <2>2. \A kind \in {"FULL", "PARTIAL", "TOP_UP"} : OfType(ps, kind) = {} /\ TotalOf(ps, kind) = 0
    BY <2>1, NoRows
  <2>3. Total(ps) = 0
    BY <2>1, NoRows
  <2>4. /\ Cardinality(OfType(ps, "FULL")) = 0 /\ Cardinality(OfType(ps, "PARTIAL")) = 0
        /\ Cardinality(OfType(ps, "TOP_UP")) = 0
    BY <1>0, <2>2
  <2> QED
    BY <1>1, <2>2, <2>3, <2>4
<1>2. CASE how = "PARTIAL"
  <2>1. PICK p \in prices : ps = Row("PARTIAL", Half(p))
    BY <1>2 DEF Fits
  <2>2. Half(p) \in Int
    BY HalfIsWhole
  <2> DEFINE a == Half(p)
  <2> HIDE DEF a
  <2>3. a \in Int /\ ps = Row("PARTIAL", a)
    BY <2>1, <2>2 DEF a
  <2>4. /\ Total(ps) = a
        /\ OfType(ps, "FULL") = {} /\ OfType(ps, "PARTIAL") = {1} /\ OfType(ps, "TOP_UP") = {}
        /\ TotalOf(ps, "FULL") = 0 /\ TotalOf(ps, "PARTIAL") = a /\ TotalOf(ps, "TOP_UP") = 0
    BY <2>3, OneRow
  <2>5. /\ Cardinality(OfType(ps, "FULL")) = 0 /\ Cardinality(OfType(ps, "PARTIAL")) = 1
        /\ Cardinality(OfType(ps, "TOP_UP")) = 0
    BY <1>0, <2>4
  <2> QED
    BY <1>2, <2>3, <2>4, <2>5
<1>3. CASE how = "COMPLETED"
  <2>1. CASE \E p \in prices : p > d /\ ps = Row("FULL", p - d)
    <3>1. PICK p \in prices : p > d /\ ps = Row("FULL", p - d)
      BY <2>1
    <3> DEFINE a == p - d
    <3>2. a \in Int /\ ps = Row("FULL", a)
      BY <3>1
    <3> HIDE DEF a
    <3>3. /\ Total(ps) = a
          /\ OfType(ps, "FULL") = {1} /\ OfType(ps, "PARTIAL") = {} /\ OfType(ps, "TOP_UP") = {}
          /\ TotalOf(ps, "FULL") = a /\ TotalOf(ps, "PARTIAL") = 0 /\ TotalOf(ps, "TOP_UP") = 0
      BY <3>2, OneRow
    <3>4. /\ Cardinality(OfType(ps, "FULL")) = 1 /\ Cardinality(OfType(ps, "PARTIAL")) = 0
          /\ Cardinality(OfType(ps, "TOP_UP")) = 0
      BY <1>0, <3>3
    <3> QED
      BY <1>3, <3>2, <3>3, <3>4
  <2>2. CASE \E p, q \in prices : ps = Row("PARTIAL", Half(p)) \o Row("TOP_UP", Half(q))
    <3>1. PICK p \in prices, q \in prices : ps = Row("PARTIAL", Half(p)) \o Row("TOP_UP", Half(q))
      BY <2>2
    <3> DEFINE a == Half(p)
               b == Half(q)
    <3>2. a \in Int /\ b \in Int
      BY HalfIsWhole
    <3> HIDE DEF a, b
    <3>3. ps = Row("PARTIAL", a) \o Row("TOP_UP", b)
      BY <3>1 DEF a, b
    <3>4. /\ Total(ps) = a + b
          /\ OfType(ps, "FULL") = {} /\ OfType(ps, "PARTIAL") = {1} /\ OfType(ps, "TOP_UP") = {2}
          /\ TotalOf(ps, "FULL") = 0 /\ TotalOf(ps, "PARTIAL") = a /\ TotalOf(ps, "TOP_UP") = b
      <4>1. \A x, y \in Int : ps = Row("PARTIAL", x) \o Row("TOP_UP", y) => PaidInHalves(ps, x, y)
        BY TwoHalves
      <4>2. PaidInHalves(ps, a, b)
        BY <3>2, <3>3, <4>1, Zenon
      <4> QED
        BY <4>2 DEF PaidInHalves
    <3>5. /\ Cardinality(OfType(ps, "FULL")) = 0 /\ Cardinality(OfType(ps, "PARTIAL")) = 1
          /\ Cardinality(OfType(ps, "TOP_UP")) = 1
      BY <1>0, <3>4
    <3> QED
      BY <1>3, <3>2, <3>4, <3>5
  <2> QED
    BY <1>3, <2>1, <2>2 DEF Fits
<1> QED
  BY <1>1, <1>2, <1>3 DEF PaymentStates

\* The figures of a course, of an intake and of a service tell one story: every
\* enrollment has one first payment, no second half without a first, no
\* certificate beyond those who may have one, and no open half escapes the
\* administrators' attention but for learners who have cancelled
\* (getIntakeAnalyticsService, getCourseAnalyticsService, findAdminSummaries).
\* However many enrollments are summed.
THEOREM FiguresAgree == LedgerSpec => []RollupsAgree
<1>1. RowsInv /\ IInv /\ CompletionIsPaid => RollupsAgree
  <2> SUFFICES ASSUME RowsInv, IInv, CompletionIsPaid, NEW S \in Rollups
               PROVE  LET a == Analytics(S)
                      IN  /\ a.byType = a.revenue
                          /\ a.full + a.partial = a.active + a.completed + a.cancelled
                          /\ a.topUp <= a.partial
                          /\ a.certificates <= a.eligible
                          /\ a.partial - a.topUp
                                = PaymentAttention(S)
                                  + Cardinality({e \in S : enrolled[e] = "CANCELLED" /\ payment[e] = "PARTIAL"})
    BY DEF RollupsAgree
  <2>1. S \subseteq Seats /\ \A e \in S : ~Free(e[1])
    BY DEF Rollups, Seats, Free
  <2>2. IsFiniteSet(S)
    BY <2>1, SeatsFinite, FS_Subset
  <2> DEFINE fullSum == [e \in S |-> TotalOf(rows[e], "FULL")]
             partialSum == [e \in S |-> TotalOf(rows[e], "PARTIAL")]
             topUpSum == [e \in S |-> TotalOf(rows[e], "TOP_UP")]
             revenue == [e \in S |-> Total(rows[e])]
             full == [e \in S |-> Cardinality(OfType(rows[e], "FULL"))]
             partial == [e \in S |-> Cardinality(OfType(rows[e], "PARTIAL"))]
             topUp == [e \in S |-> Cardinality(OfType(rows[e], "TOP_UP"))]
             certificates == [e \in S |-> issued[e]]
             active == {e \in S : enrolled[e] = "ACTIVE"}
             completed == {e \in S : enrolled[e] = "COMPLETED"}
             cancelled == {e \in S : enrolled[e] = "CANCELLED"}
             eligible == {e \in S : Certified(e[1]) /\ enrolled[e] = "COMPLETED"}
             attention == {e \in S : enrolled[e] = "ACTIVE" /\ payment[e] = "PARTIAL"}
             leaving == {e \in S : enrolled[e] = "CANCELLED" /\ payment[e] = "PARTIAL"}
             Sum(f) == SumFunctionOnSet(f, S)
  <2>3. Analytics(S) =
          [active |-> Cardinality(active), completed |-> Cardinality(completed), cancelled |-> Cardinality(cancelled),
           full |-> Sum(full), partial |-> Sum(partial), topUp |-> Sum(topUp),
           byType |-> Sum(fullSum) + Sum(partialSum) + Sum(topUpSum),
           revenue |-> Sum(revenue), certificates |-> Sum(certificates), eligible |-> Cardinality(eligible)]
    BY DEF Analytics, Count, Number, Amount, SumFunction
  <2>4. PaymentAttention(S) = Cardinality(attention)
    BY DEF PaymentAttention
  <2>5. ASSUME NEW e \in S
        PROVE  /\ revenue[e] \in Int /\ fullSum[e] \in Int /\ partialSum[e] \in Int /\ topUpSum[e] \in Int
               /\ revenue[e] = fullSum[e] + partialSum[e] + topUpSum[e]
               /\ full[e] \in {0, 1} /\ partial[e] \in {0, 1} /\ topUp[e] \in {0, 1}
               /\ full[e] + partial[e] = IF payment[e] \in {"PARTIAL", "COMPLETED"} THEN 1 ELSE 0
               /\ partial[e] - topUp[e] = IF payment[e] = "PARTIAL" THEN 1 ELSE 0
    <3> DEFINE ps == rows[e]
    <3>1. payment[e] \in PaymentStates /\ span[e] \in SUBSET Nat /\ Discount[CourseOf[e[1]]] \in Nat
      BY <2>1 DEF IInv, TypeOK, RowsInv, LedgerTypeOK, Seats
    <3>2. Fits(payment[e], ps, span[e], Discount[CourseOf[e[1]]])
      BY <2>1 DEF RowsInv, RowsFit
    <3> HIDE DEF ps
    <3>3. /\ Total(ps) \in Int
          /\ TotalOf(ps, "FULL") \in Int /\ TotalOf(ps, "PARTIAL") \in Int /\ TotalOf(ps, "TOP_UP") \in Int
          /\ Total(ps) = TotalOf(ps, "FULL") + TotalOf(ps, "PARTIAL") + TotalOf(ps, "TOP_UP")
          /\ \A kind \in {"FULL", "PARTIAL", "TOP_UP"} : Cardinality(OfType(ps, kind)) \in {0, 1}
          /\ Cardinality(OfType(ps, "FULL")) + Cardinality(OfType(ps, "PARTIAL"))
                = IF payment[e] \in {"PARTIAL", "COMPLETED"} THEN 1 ELSE 0
          /\ Cardinality(OfType(ps, "PARTIAL")) - Cardinality(OfType(ps, "TOP_UP"))
                = IF payment[e] = "PARTIAL" THEN 1 ELSE 0
      BY <3>1, <3>2, RowsTell
    <3> QED
      BY <3>3 DEF ps
  <2>6. ASSUME NEW e \in S
        PROVE  /\ payment[e] \in {"PARTIAL", "COMPLETED"} <=> enrolled[e] \in {"ACTIVE", "COMPLETED", "CANCELLED"}
               /\ enrolled[e] = "COMPLETED" => payment[e] # "PARTIAL"
               /\ enrolled[e] \in EnrollmentStates
               /\ issued[e] \in Nat
               /\ issued[e] > 0 => issued[e] = 1 /\ e \in eligible
    <3>1. e \in Seats /\ ~Free(e[1])
      BY <2>1
    <3>2. enrolled[e] \in EnrollmentStates /\ payment[e] \in PaymentStates /\ issued[e] \in Nat
      BY <3>1 DEF IInv, TypeOK
    <3>3. /\ payment[e] = "NONE" <=> enrolled[e] = "NONE"
          /\ payment[e] = "NOT_REQUIRED" <=> enrolled[e] # "NONE" /\ Free(e[1])
      BY <3>1 DEF IInv, LedgerMatchesPaymentStatus
    <3>4. issued[e] > 0 => issued[e] = 1 /\ enrolled[e] = "COMPLETED" /\ Certified(e[1])
      BY <3>1 DEF IInv, CertificateIsEarned
    <3>5. enrolled[e] = "COMPLETED" => payment[e] # "PARTIAL"
      BY <3>1 DEF CompletionIsPaid
    <3> QED
      BY <3>1, <3>2, <3>3, <3>4, <3>5 DEF PaymentStates, EnrollmentStates
  <2>7. /\ WholeOn(revenue, S) /\ WholeOn(fullSum, S) /\ WholeOn(partialSum, S) /\ WholeOn(topUpSum, S)
        /\ WholeOn(full, S) /\ WholeOn(partial, S) /\ WholeOn(topUp, S)
    BY <2>5 DEF WholeOn
  <2>8. WholeOn(certificates, S)
    BY <2>6 DEF WholeOn
  <2> HIDE DEF fullSum, partialSum, topUpSum, revenue, full, partial, topUp
  <2>9. Sum(revenue) = Sum(fullSum) + Sum(partialSum) + Sum(topUpSum)
    <3>1. \A e \in S : revenue[e] = fullSum[e] + partialSum[e] + topUpSum[e]
      BY <2>5
    <3> QED
      BY <2>2, <2>7, <3>1, SumOfThree
  <2>10. Sum(full) + Sum(partial) = Cardinality(active) + Cardinality(completed) + Cardinality(cancelled)
    <3> DEFINE first == Plus(full, partial, S)
    <3>1. Sum(first) = Sum(full) + Sum(partial)
      BY <2>2, <2>7, PlusSums
    <3>2. WholeOn(first, S) /\ \A e \in S : first[e] = full[e] + partial[e]
      BY <2>5 DEF Plus, WholeOn
    <3> HIDE DEF first
    <3> DEFINE a == Ones(active, S)
               b == Ones(completed, S)
               c == Ones(cancelled, S)
    <3>3. \A e \in S : first[e] = a[e] + b[e] + c[e]
      BY <2>5, <2>6, <3>2 DEF Ones
    <3>4. WholeOn(a, S) /\ WholeOn(b, S) /\ WholeOn(c, S)
      BY OnesAreWhole
    <3>5. Sum(a) = Cardinality(active) /\ Sum(b) = Cardinality(completed) /\ Sum(c) = Cardinality(cancelled)
      <4>1. active \in SUBSET S /\ completed \in SUBSET S /\ cancelled \in SUBSET S
        OBVIOUS
      <4> QED
        BY <2>2, <4>1, OnesCount
    <3> HIDE DEF a, b, c
    <3>6. Sum(first) = Sum(a) + Sum(b) + Sum(c)
      BY <2>2, <3>2, <3>3, <3>4, SumOfThree
    <3> QED
      BY <3>1, <3>5, <3>6
  <2>11. Sum(topUp) <= Sum(partial)
    <3>1. \A e \in S : topUp[e] <= partial[e]
      BY <2>5
    <3> QED
      BY <2>2, <2>7, <3>1, SumsCompare
  <2>12. Sum(certificates) <= Cardinality(eligible)
    <3>1. \A e \in S : certificates[e] <= Ones(eligible, S)[e]
      BY <2>6 DEF Ones
    <3>2. Sum(certificates) <= Sum(Ones(eligible, S))
      BY <2>2, <2>8, <3>1, OnesAreWhole, SumsCompare
    <3>3. eligible \in SUBSET S
      OBVIOUS
    <3> QED
      BY <2>2, <3>2, <3>3, OnesCount
  <2>13. Sum(partial) - Sum(topUp) = Cardinality(attention) + Cardinality(leaving)
    <3> DEFINE a == Ones(attention, S)
               b == Ones(leaving, S)
    <3>1. \A e \in S : partial[e] = topUp[e] + a[e] + b[e]
      BY <2>5, <2>6 DEF Ones, EnrollmentStates
    <3>2. WholeOn(a, S) /\ WholeOn(b, S)
      BY OnesAreWhole
    <3>3. attention \in SUBSET S /\ leaving \in SUBSET S
      OBVIOUS
    <3>4. Sum(a) = Cardinality(attention) /\ Sum(b) = Cardinality(leaving)
      BY <2>2, <3>3, OnesCount
    <3>5. Sum(topUp) \in Int /\ Cardinality(attention) \in Int /\ Cardinality(leaving) \in Int
      BY <2>2, <2>7, <3>3, SumIsWhole, FS_Subset, FS_CardinalityType
    <3> HIDE DEF a, b
    <3>6. Sum(partial) = Sum(topUp) + Sum(a) + Sum(b)
      BY <2>2, <2>7, <3>1, <3>2, SumOfThree
    <3> QED
      BY <3>4, <3>5, <3>6
  <2> HIDE DEF Sum, active, completed, cancelled, eligible, attention, certificates
  <2> QED
    BY <2>3, <2>4, <2>9, <2>10, <2>11, <2>12, <2>13
<1> QED
  BY <1>1, RowsAlways, PTL

-----------------------------------------------------------------------------
(* A report under way: its money, or its months.                             *)

\* A report of money with its queries read or not, and one of a trend.
IsMoney(r) ==
    \E read, torn, a, p :
       /\ read \subseteq {"revenue", "payable"} /\ torn \in BOOLEAN
       /\ r = [read |-> read, torn |-> torn, available |-> a, potential |-> p]

IsTrend(r) ==
    \E torn \in BOOLEAN, d \in Days, n \in Lookbacks :
       r = [read |-> {"trend"}, torn |-> torn, today |-> d, months |-> n, bars |-> Bars(d, n)]

ReportInv == report # Nothing => IsMoney(report) \/ IsTrend(report)

LEMMA MoneyForm ==
    ASSUME NEW read \in SUBSET {"revenue", "payable"}, NEW torn \in BOOLEAN, NEW a, NEW p
    PROVE  IsMoney([read |-> read, torn |-> torn, available |-> a, potential |-> p])
BY Zenon DEF IsMoney

LEMMA TearKeeps == ASSUME ReportInv, Torn PROVE ReportInv'
<1>1. CASE report = Nothing
  BY <1>1 DEF Torn, ReportInv
<1>2. CASE report # Nothing /\ IsMoney(report)
  <2>1. PICK read, torn, a, p :
         /\ read \subseteq {"revenue", "payable"} /\ torn \in BOOLEAN
         /\ report = [read |-> read, torn |-> torn, available |-> a, potential |-> p]
    BY <1>2 DEF IsMoney
  <2>2. PICK t \in BOOLEAN : report' = [read |-> read, torn |-> t, available |-> a, potential |-> p]
    BY <1>2, <2>1 DEF Torn
  <2> QED
    BY <2>1, <2>2, MoneyForm DEF ReportInv
<1>3. CASE report # Nothing /\ IsTrend(report)
  <2>1. PICK torn \in BOOLEAN, d \in Days, n \in Lookbacks :
           report = [read |-> {"trend"}, torn |-> torn, today |-> d, months |-> n, bars |-> Bars(d, n)]
    BY <1>3 DEF IsTrend
  <2> DEFINE b == Bars(d, n)
  <2> HIDE DEF b
  <2>2. report = [read |-> {"trend"}, torn |-> torn, today |-> d, months |-> n, bars |-> b]
    BY <2>1 DEF b
  <2>3. PICK t \in BOOLEAN : report' = [read |-> {"trend"}, torn |-> t, today |-> d, months |-> n, bars |-> b]
    BY <1>3, <2>2 DEF Torn
  <2> QED
    BY <2>3 DEF ReportInv, IsTrend, b
<1> QED
  BY <1>1, <1>2, <1>3 DEF ReportInv

\* Whatever a transaction commits while a report is under way tears it: only the
\* report's own steps do not.
LEMMA WritesTear == [LedgerNext]_ledgerVars => Torn \/ ReportStep \/ UNCHANGED ledgerVars
<1> SUFFICES ASSUME LedgerNext PROVE Torn \/ ReportStep
  OBVIOUS
<1>1. ASSUME NEW i \in Intakes, NEW s \in Students, PayInFull(i, s) \/ PayHalf(i, s) \/ TopUp(i, s) \/ SeatMovesOn(i, s)
      PROVE  Torn
  BY <1>1 DEF PayInFull, PayHalf, TopUp, SeatMovesOn, Record
<1>2. ASSUME NEW i \in Intakes, IntakeMovesOn(i) PROVE Torn
  BY <1>2 DEF IntakeMovesOn
<1>3. ASSUME NEW c \in Courses, NEW p \in Prices, SetPrice(c, p) PROVE Torn
  BY <1>3 DEF SetPrice
<1>4. ASSUME CatalogMoves PROVE Torn
  BY <1>4 DEF CatalogMoves
<1> QED
  BY <1>1, <1>2, <1>3, <1>4 DEF LedgerNext

LEMMA ReportNext == ReportInv /\ [LedgerNext]_ledgerVars => ReportInv'
<1> SUFFICES ASSUME ReportInv, [LedgerNext]_ledgerVars PROVE ReportInv'
  OBVIOUS
<1>1. CASE OpenReport
  BY <1>1 DEF OpenReport, ReportInv, IsMoney
<1>2. ASSUME ReadRevenue \/ ReadPayable PROVE ReportInv'
  <2>1. report # Nothing /\ report.read # {"trend"}
    BY <1>2 DEF ReadRevenue, ReadPayable
  <2>2. PICK read, torn, a, p :
         /\ read \subseteq {"revenue", "payable"} /\ torn \in BOOLEAN
         /\ report = [read |-> read, torn |-> torn, available |-> a, potential |-> p]
    BY <2>1 DEF ReportInv, IsMoney, IsTrend
  <2>3. CASE ReadRevenue
    <3>1. report' = [read |-> read \cup {"revenue"}, torn |-> torn, available |-> Revenue, potential |-> p]
      BY <2>2, <2>3 DEF ReadRevenue
    <3>2. read \cup {"revenue"} \subseteq {"revenue", "payable"} /\ read \cup {"payable"} \subseteq {"revenue", "payable"}
      BY <2>2
    <3> QED
      BY <2>2, <3>1, <3>2, MoneyForm DEF ReportInv
  <2>4. CASE ReadPayable
    <3>1. report' = [read |-> read \cup {"payable"}, torn |-> torn, available |-> a, potential |-> Potential]
      BY <2>2, <2>4 DEF ReadPayable
    <3>2. read \cup {"revenue"} \subseteq {"revenue", "payable"} /\ read \cup {"payable"} \subseteq {"revenue", "payable"}
      BY <2>2
    <3> QED
      BY <2>2, <3>1, <3>2, MoneyForm DEF ReportInv
  <2> QED
    BY <1>2, <2>3, <2>4
<1>3. ASSUME NEW d \in Days, NEW n \in Lookbacks, AskTrend(d, n) PROVE ReportInv'
  BY <1>3 DEF AskTrend, ReportInv, IsTrend
<1>4. CASE CloseReport
  BY <1>4 DEF CloseReport, ReportInv
<1>5. CASE UNCHANGED ledgerVars
  BY <1>5 DEF ledgerVars, ReportInv
<1> QED
  BY <1>1, <1>2, <1>3, <1>4, <1>5, WritesTear, TearKeeps DEF ReportStep

-----------------------------------------------------------------------------
(* Trends.                                                                   *)

\* The larger of two numbers, one of which is 1.
LEMMA AtLeastOne == ASSUME NEW n \in Int PROVE Max({1, n}) = IF n > 1 THEN n ELSE 1
<1>1. CASE n > 1
  <2>1. \A x \in {1, n} : (\A y \in {1, n} : x >= y) <=> x = n
    BY <1>1
  <2> QED
    BY <1>1, <2>1 DEF Max
<1>2. CASE ~(n > 1)
  <2>1. \A x \in {1, n} : (\A y \in {1, n} : x >= y) <=> x = 1
    BY <1>2
  <2> QED
    BY <1>2, <2>1 DEF Max
<1> QED
  BY <1>1, <1>2

\* As many bars as months, or one less on a day that the first of them does not have.
LEMMA BarCount ==
    ASSUME NEW d \in Days, NEW n \in Lookbacks
    PROVE  \E count \in 1..n :
              /\ Bars(d, n) = [k \in 1..count |-> MonthOf(d) - (count - k)]
              /\ count # n => count = n - 1 /\ d[3] > Length(MonthOf(d) - (n - 1))
<1>1. d[1] \in Nat /\ d[2] \in 1..12 /\ d[3] \in 1..31 /\ n \in 1..24
  OBVIOUS
<1> DEFINE today == MonthOf(d)
           slip == IF d[3] > Length(today - (n - 1)) THEN 1 ELSE 0
           count == Max({1, today - FirstMonth(d, n) + 1})
<1>2. today \in Nat
  BY <1>1 DEF MonthOf
<1>3. FirstMonth(d, n) = today - (n - 1) + slip
  BY DEF FirstMonth, MonthsBack
<1> HIDE DEF today
<1>4. slip \in {0, 1} /\ (slip = 1 => d[3] > Length(today - (n - 1)))
  OBVIOUS
<1> HIDE DEF slip
<1>5. today - FirstMonth(d, n) + 1 = n - slip /\ n - slip \in Int
  BY <1>1, <1>2, <1>3, <1>4
<1>6. count = IF n - slip > 1 THEN n - slip ELSE 1
  BY <1>5, AtLeastOne
<1>7. count \in 1..n /\ (count # n => count = n - 1 /\ slip = 1)
  BY <1>1, <1>4, <1>6
<1>8. Bars(d, n) = [k \in 1..count |-> MonthOf(d) - (count - k)]
  BY DEF Bars, today
<1> HIDE DEF count
<1> QED
  BY <1>4, <1>7, <1>8 DEF today

\* The least of a set of numbers.
LEMMA LeastIs == ASSUME NEW S \in SUBSET Int, NEW m \in S, \A y \in S : m <= y PROVE Min(S) = m
<1>1. \A x \in S : (\A y \in S : x <= y) => x = m
  OBVIOUS
<1> QED
  BY <1>1 DEF Min

\* What TrendCoversItsMonths says of the bars shown on day d for n months.
Covers(d, n, bars) ==
    LET today == MonthOf(d)
        asked == {today - k : k \in 0..n - 1}
    IN  /\ IsInjective(bars)
        /\ bars[Len(bars)] = today
        /\ \/ ToSet(bars) = asked
           \/ d[3] > Length(Min(asked)) /\ ToSet(bars) = asked \ {Min(asked)}

LEMMA TrendIsWhole == ASSUME NEW d \in Days, NEW n \in Lookbacks PROVE Covers(d, n, Bars(d, n))
<1> DEFINE today == MonthOf(d)
           asked == {today - k : k \in 0..n - 1}
           bars == Bars(d, n)
<1>1. n \in 1..24 /\ today \in Nat
  BY DEF MonthOf
<1>2. PICK count \in 1..n :
         /\ bars = [k \in 1..count |-> today - (count - k)]
         /\ count # n => count = n - 1 /\ d[3] > Length(today - (n - 1))
  BY BarCount
<1> HIDE DEF today, bars
<1>3. DOMAIN bars = 1..count /\ \A k \in 1..count : bars[k] = today - (count - k)
  BY <1>2
<1>4. Len(bars) = count
  BY <1>1, <1>2
<1>5. IsInjective(bars)
  BY <1>1, <1>3 DEF IsInjective
<1>6. bars[Len(bars)] = today
  BY <1>1, <1>3, <1>4
<1>7. ToSet(bars) = {today - k : k \in 0..count - 1}
  <2>1. ASSUME NEW k \in 1..count PROVE bars[k] \in {today - j : j \in 0..count - 1}
    <3>1. count - k \in 0..count - 1
      BY <1>1
    <3> QED
      BY <1>3, <3>1
  <2>2. ASSUME NEW j \in 0..count - 1 PROVE \E k \in 1..count : bars[k] = today - j
    <3>1. count - j \in 1..count /\ count - (count - j) = j
      BY <1>1
    <3> QED
      BY <1>3, <3>1
  <2>3. ToSet(bars) = {bars[k] : k \in 1..count}
    BY <1>3 DEF ToSet
  <2> QED
    BY <2>1, <2>2, <2>3
<1>8. Min(asked) = today - (n - 1)
  <2>1. asked \in SUBSET Int /\ today - (n - 1) \in asked /\ \A y \in asked : today - (n - 1) <= y
    BY <1>1
  <2> QED
    BY <2>1, LeastIs
<1>9. CASE count = n
  BY <1>5, <1>6, <1>7, <1>9 DEF Covers, today, bars
<1>10. CASE count # n
  <2>1. count = n - 1 /\ d[3] > Length(today - (n - 1))
    BY <1>2, <1>10
  <2>2. {today - k : k \in 0..count - 1} = asked \ {today - (n - 1)}
    BY <1>1, <2>1
  <2> QED
    BY <1>5, <1>6, <1>7, <1>8, <2>1, <2>2 DEF Covers, today, bars
<1> QED
  BY <1>9, <1>10

\* A trend has one bar for each month it was asked for, ending with today's and
\* none twice, except on a day that the first of these months does not have:
\* then that month is missing (dashboard.repository.js:176-178).  On every day,
\* leap years included, and for every number of months.
THEOREM TrendsAreWhole == LedgerSpec => []TrendCoversItsMonths
<1>1. LedgerInit => ReportInv
  BY DEF LedgerInit, ReportInv
<1>2. ReportInv => TrendCoversItsMonths
  <2> SUFFICES ASSUME ReportInv, report # Nothing, report.read = {"trend"} PROVE TrendCoversItsMonths
    BY DEF TrendCoversItsMonths
  <2>1. IsTrend(report)
    BY DEF ReportInv, IsMoney
  <2>2. PICK torn \in BOOLEAN, d \in Days, n \in Lookbacks :
           report = [read |-> {"trend"}, torn |-> torn, today |-> d, months |-> n, bars |-> Bars(d, n)]
    BY <2>1 DEF IsTrend
  <2>3. report.today = d /\ report.months = n /\ report.bars = Bars(d, n)
    BY <2>2
  <2>4. Covers(report.today, report.months, report.bars)
    BY <2>3, TrendIsWhole
  <2> QED
    BY <2>4 DEF TrendCoversItsMonths, Covers
<1> QED
  BY <1>1, <1>2, ReportNext, PTL DEF LedgerSpec
-----------------------------------------------------------------------------
(* The money of a report.                                                    *)

\* As long as nothing has been committed since its first query, a report still
\* shows what the tables hold.
Current ==
    report # Nothing /\ report.read # {"trend"} /\ ~report.torn =>
        /\ "revenue" \in report.read => report.available = Revenue
        /\ "payable" \in report.read => report.potential = Potential

LEMMA TearKeepsCurrent == ASSUME ReportInv, Torn PROVE Current'
<1>1. CASE report = Nothing
  BY <1>1 DEF Torn, Current
<1>2. CASE report # Nothing
  <2>1. report' = [report EXCEPT !.torn = @ \/ report.read \cap {"revenue", "payable"} # {}]
    BY <1>2 DEF Torn
  <2>2. CASE IsMoney(report)
    <3>1. PICK read, torn, a, p :
           /\ read \subseteq {"revenue", "payable"} /\ torn \in BOOLEAN
           /\ report = [read |-> read, torn |-> torn, available |-> a, potential |-> p]
      BY <2>2 DEF IsMoney
    <3>2. report'.read = read /\ (report'.torn <=> torn \/ read \cap {"revenue", "payable"} # {})
      BY <2>1, <3>1
    <3>3. ~report'.torn => "revenue" \notin report'.read /\ "payable" \notin report'.read
      BY <3>2
    <3> QED
      BY <3>3 DEF Current
  <2>3. CASE IsTrend(report)
    <3>1. PICK torn \in BOOLEAN, d \in Days, n \in Lookbacks :
             report = [read |-> {"trend"}, torn |-> torn, today |-> d, months |-> n, bars |-> Bars(d, n)]
      BY <2>3 DEF IsTrend
    <3> DEFINE b == Bars(d, n)
    <3> HIDE DEF b
    <3>2. report = [read |-> {"trend"}, torn |-> torn, today |-> d, months |-> n, bars |-> b]
      BY <3>1 DEF b
    <3>3. report'.read = {"trend"}
      BY <2>1, <3>2
    <3> QED
      BY <3>3 DEF Current
  <2> QED
    BY <1>2, <2>2, <2>3 DEF ReportInv
<1> QED
  BY <1>1, <1>2

\* What the queries would find does not change unless a row or a price does.
LEMMA FindsTheSame ==
    ASSUME UNCHANGED <<vars, price, rows, span>>
    PROVE  Revenue' = Revenue /\ Potential' = Potential
<1>1. rows' = rows /\ price' = price /\ payment' = payment /\ enrolled' = enrolled
  BY DEF vars
<1>2. Revenue' = Revenue
  BY <1>1 DEF Revenue
<1>3. Potential' = Potential
  BY <1>1 DEF Potential, Payable, Payers, FullAmount
<1> QED
  BY <1>2, <1>3

LEMMA CurrentNext == ReportInv /\ Current /\ [LedgerNext]_ledgerVars => Current'
<1> SUFFICES ASSUME ReportInv, Current, [LedgerNext]_ledgerVars PROVE Current'
  OBVIOUS
<1>1. CASE OpenReport
  BY <1>1 DEF OpenReport, Current
<1>2. ASSUME ReadRevenue \/ ReadPayable PROVE Current'
  <2>1. report # Nothing /\ report.read # {"trend"} /\ UNCHANGED <<vars, price, rows, span>>
    BY <1>2 DEF ReadRevenue, ReadPayable
  <2>2. PICK read, torn, a, p :
         /\ read \subseteq {"revenue", "payable"} /\ torn \in BOOLEAN
         /\ report = [read |-> read, torn |-> torn, available |-> a, potential |-> p]
    BY <2>1 DEF ReportInv, IsMoney, IsTrend
  <2>3. ~torn => ("revenue" \in read => a = Revenue) /\ ("payable" \in read => p = Potential)
    BY <2>1, <2>2 DEF Current
  <2>4. CASE ReadRevenue
    <3>1. report' = [read |-> read \cup {"revenue"}, torn |-> torn, available |-> Revenue, potential |-> p]
      BY <2>2, <2>4 DEF ReadRevenue
    <3>2. ~report'.torn => report'.available = Revenue /\ ("payable" \in report'.read => report'.potential = Potential)
      BY <2>3, <3>1
    <3> QED
      BY <2>1, <3>2, FindsTheSame DEF Current
  <2>5. CASE ReadPayable
    <3>1. report' = [read |-> read \cup {"payable"}, torn |-> torn, available |-> a, potential |-> Potential]
      BY <2>2, <2>5 DEF ReadPayable
    <3>2. ~report'.torn => report'.potential = Potential /\ ("revenue" \in report'.read => report'.available = Revenue)
      BY <2>3, <3>1
    <3> QED
      BY <2>1, <3>2, FindsTheSame DEF Current
  <2> QED
    BY <1>2, <2>4, <2>5
<1>3. ASSUME NEW d \in Days, NEW n \in Lookbacks, AskTrend(d, n) PROVE Current'
  BY <1>3 DEF AskTrend, Current
<1>4. CASE CloseReport
  BY <1>4 DEF CloseReport, Current
<1>5. CASE UNCHANGED ledgerVars
  <2>1. report' = report /\ UNCHANGED <<vars, price, rows, span>>
    BY <1>5 DEF ledgerVars
  <2> QED
    BY <2>1, FindsTheSame DEF Current
<1> QED
  BY <1>1, <1>2, <1>3, <1>4, <1>5, WritesTear, TearKeepsCurrent DEF ReportStep

\* What one enrollment has paid and has still to pay, when its course has cost p
\* at each of its payments and still does.
LEMMA SeatBalances ==
    ASSUME NEW how \in PaymentStates, NEW ps, NEW prices, NEW p \in Nat, NEW d \in Nat, Fits(how, ps, prices, d),
           how \in {"PARTIAL", "COMPLETED"} => prices = {p}
    PROVE  /\ Total(ps) \in Nat
           /\ how \notin {"PARTIAL", "COMPLETED"} => Total(ps) = 0
           /\ how = "PARTIAL" => Total(ps) = Half(p)
           /\ how = "COMPLETED" =>
                 Total(ps) >= Below0(p - d) /\ (OfType(ps, "TOP_UP") = {} => Total(ps) = Below0(p - d))
<1>1. CASE how \notin {"PARTIAL", "COMPLETED"}
  <2>1. ps = <<>>
    BY <1>1 DEF Fits, PaymentStates
  <2>2. Total(ps) = 0
    BY <2>1, NoRows
  <2> QED
    BY <1>1, <2>2
<1>2. CASE how = "PARTIAL"
  <2>1. ps = Row("PARTIAL", Half(p))
    BY <1>2 DEF Fits
  <2>2. Half(p) \in Nat
    BY HalfIsWhole
  <2> DEFINE a == Half(p)
  <2> HIDE DEF a
  <2>3. a \in Int /\ ps = Row("PARTIAL", a)
    BY <2>1, <2>2 DEF a
  <2>4. Total(ps) = a
    BY <2>3, OneRow
  <2> QED
    BY <1>2, <2>2, <2>4 DEF a
<1>3. CASE how = "COMPLETED" /\ p > d /\ ps = Row("FULL", p - d)
  <2> DEFINE a == p - d
  <2>1. a \in Nat /\ a \in Int /\ ps = Row("FULL", a) /\ Below0(p - d) = a
    BY <1>3 DEF Below0
  <2> HIDE DEF a
  <2>2. Total(ps) = a
    BY <2>1, OneRow
  <2> QED
    BY <1>3, <2>1, <2>2
<1>4. CASE how = "COMPLETED" /\ ps = Row("PARTIAL", Half(p)) \o Row("TOP_UP", Half(p))
  <2> DEFINE a == Half(p)
  <2>1. a \in Nat /\ a \in Int /\ 2 * a >= p
    BY HalfIsWhole
  <2> HIDE DEF a
  <2>2. ps = Row("PARTIAL", a) \o Row("TOP_UP", a)
    BY <1>4 DEF a
  <2>3. \A x, y \in Int : ps = Row("PARTIAL", x) \o Row("TOP_UP", y) => PaidInHalves(ps, x, y)
    BY TwoHalves
  <2>4. PaidInHalves(ps, a, a)
    BY <2>1, <2>2, <2>3, Zenon
  <2>5. Total(ps) = a + a /\ OfType(ps, "TOP_UP") = {2}
    BY <2>4 DEF PaidInHalves
  <2>6. Below0(p - d) <= a + a
    BY <2>1 DEF Below0
  <2>7. Total(ps) >= Below0(p - d) /\ Total(ps) \in Nat
    BY <2>1, <2>5, <2>6
  <2> QED
    BY <1>4, <2>5, <2>7
<1>5. how = "COMPLETED" =>
         (p > d /\ ps = Row("FULL", p - d)) \/ ps = Row("PARTIAL", Half(p)) \o Row("TOP_UP", Half(p))
  <2> SUFFICES ASSUME how = "COMPLETED"
               PROVE  (p > d /\ ps = Row("FULL", p - d)) \/ ps = Row("PARTIAL", Half(p)) \o Row("TOP_UP", Half(p))
    OBVIOUS
  <2>1. prices = {p}
    OBVIOUS
  <2> QED
    BY <2>1, Zenon DEF Fits
<1> QED
  BY <1>1, <1>2, <1>3, <1>4, <1>5 DEF PaymentStates

\* A sum over some elements, as one over all of them.
LEMMA SumOver ==
    ASSUME NEW S, IsFiniteSet(S), NEW P \in SUBSET S, NEW f, WholeOn(f, S), \A x \in S \ P : f[x] = 0,
           NEW g, DOMAIN g = P, \A x \in P : g[x] = f[x]
    PROVE  SumFunction(g) = SumFunctionOnSet(f, S)
<1>1. IsFiniteSet(P) /\ WholeOn(f, P) /\ WholeOn(g, P)
  BY FS_Subset DEF WholeOn
<1>2. SumFunctionOnSet(g, P) = SumFunctionOnSet(f, P)
  BY <1>1, SameSums
<1>3. SumFunctionOnSet(f, P) = SumFunctionOnSet(f, S)
  BY SumOfPart
<1> QED
  BY <1>2, <1>3 DEF SumFunction

\* Enrollment by enrollment, what is payable is no more than what was collected
\* and is owed; and no less, but for a cent, unless it was cancelled or topped up.
LEMMA BalanceHolds == RowsInv /\ IInv /\ ReportInv /\ Current => ReportBalances
<1> SUFFICES ASSUME RowsInv, IInv, Current, Sound
             PROVE  /\ RevenueToCome <= Owed
                    /\ Payers = Staying /\ (\A e \in Payers : OfType(rows[e], "TOP_UP") = {})
                          => RevenueToCome + Cardinality(Payers) >= Owed
  BY DEF ReportBalances
<1>1. report.available = Revenue /\ report.potential = Potential
  BY DEF Sound, Current
<1> DEFINE S == Seats
           open == {e \in Staying : payment[e] = "PARTIAL"}
           collected == [e \in S |-> Total(rows[e])]
           due == [e \in S |-> IF e \in Payable THEN FullAmount(e) ELSE 0]
           half == [e \in S |-> IF e \in open THEN Half(price[CourseOf[e[1]]]) ELSE 0]
           cent == Ones(Payers, S)
           Sum(f) == SumFunctionOnSet(f, S)
<1>2. IsFiniteSet(S) /\ Payers \in SUBSET S /\ Payable \in SUBSET S /\ open \in SUBSET S
  BY SeatsFinite DEF Payers, Payable, Staying
<1>3. ASSUME NEW e \in S
      PROVE  /\ collected[e] \in Nat /\ due[e] \in Nat /\ half[e] \in Nat /\ cent[e] \in {0, 1}
             /\ due[e] <= collected[e] + half[e]
             /\ e \in Payers /\ e \in Staying /\ OfType(rows[e], "TOP_UP") = {}
                   => half[e] + collected[e] <= due[e] + cent[e]
             /\ e \notin Payers => half[e] + collected[e] <= due[e] + cent[e]
  <2> DEFINE how == payment[e]
             c == CourseOf[e[1]]
             p == price[c]
             d == Discount[c]
             ps == rows[e]
             staying == enrolled[e] # "CANCELLED"
  <2>1. how \in PaymentStates /\ p \in Nat /\ d \in Nat
    BY DEF IInv, TypeOK, RowsInv, LedgerTypeOK, Seats
  <2>2. Fits(how, ps, span[e], d)
    BY DEF RowsInv, RowsFit
  <2>3. how \in {"PARTIAL", "COMPLETED"} => span[e] = {p}
    BY DEF Sound, Payers
  <2>4. /\ e \in Payers <=> how \in {"PARTIAL", "COMPLETED"}
        /\ e \in Payable <=> how \in {"PARTIAL", "COMPLETED"} /\ staying
        /\ e \in Staying <=> how \in {"PARTIAL", "COMPLETED"} /\ staying
        /\ e \in open <=> how = "PARTIAL" /\ staying
    BY DEF Payers, Payable, Staying
  <2>5. FullAmount(e) = IF how = "COMPLETED" THEN Below0(p - d) ELSE p
    BY <2>1 DEF FullAmount, Below0
  <2>6. /\ collected[e] = Total(ps)
        /\ due[e] = IF e \in Payable THEN FullAmount(e) ELSE 0
        /\ half[e] = IF e \in open THEN Half(p) ELSE 0
        /\ cent[e] = IF e \in Payers THEN 1 ELSE 0
    BY DEF Ones
  <2> HIDE DEF how, c, p, d, ps, staying, collected, due, half, cent, open
  <2>7. /\ Total(ps) \in Nat
        /\ how \notin {"PARTIAL", "COMPLETED"} => Total(ps) = 0
        /\ how = "PARTIAL" => Total(ps) = Half(p)
        /\ how = "COMPLETED" =>
              Total(ps) >= Below0(p - d) /\ (OfType(ps, "TOP_UP") = {} => Total(ps) = Below0(p - d))
    BY <2>1, <2>2, <2>3, SeatBalances
  <2>8. Half(p) \in Nat /\ 2 * Half(p) \in {p, p + 1} /\ Below0(p - d) \in Nat
    BY <2>1, HalfIsWhole DEF Below0
  <2>9. CASE how \notin {"PARTIAL", "COMPLETED"}
    BY <2>4, <2>6, <2>7, <2>9
  <2>10. CASE how = "PARTIAL"
    BY <2>1, <2>4, <2>5, <2>6, <2>7, <2>8, <2>10
  <2>11. CASE how = "COMPLETED"
    BY <2>1, <2>4, <2>5, <2>6, <2>7, <2>8, <2>11 DEF ps
  <2> QED
    BY <2>9, <2>10, <2>11
<1>4. WholeOn(collected, S) /\ WholeOn(due, S) /\ WholeOn(half, S) /\ WholeOn(cent, S)
  BY <1>3 DEF WholeOn
<1>5. Revenue = Sum(collected)
  BY DEF Revenue, SumFunction
<1>6. Potential = Sum(due)
  <2> DEFINE g == [e \in Payable |-> FullAmount(e)]
  <2>1. DOMAIN g = Payable /\ (\A e \in Payable : g[e] = due[e]) /\ \A e \in S \ Payable : due[e] = 0
    BY <1>2
  <2> HIDE DEF g, due
  <2>2. SumFunction(g) = Sum(due)
    BY <1>2, <1>4, <2>1, SumOver
  <2> QED
    BY <2>2 DEF g, Potential
<1>7. Owed = Sum(half)
  <2> DEFINE g == [e \in open |-> Half(price[CourseOf[e[1]]])]
  <2>1. DOMAIN g = open /\ (\A e \in open : g[e] = half[e]) /\ \A e \in S \ open : half[e] = 0
    BY <1>2
  <2>2. Owed = SumFunction(g)
    BY DEF Owed
  <2> HIDE DEF g, half, open
  <2>3. SumFunction(g) = Sum(half)
    BY <1>2, <1>4, <2>1, SumOver
  <2> QED
    BY <2>2, <2>3
<1>8. Cardinality(Payers) = Sum(cent)
  BY <1>2, OnesCount
<1> HIDE DEF S, open, collected, due, half, cent
<1>9. Sum(collected) \in Int /\ Sum(due) \in Int /\ Sum(half) \in Int /\ Sum(cent) \in Int
  BY <1>2, <1>4, SumIsWhole
<1>10. Sum(half) >= 0
  <2> DEFINE none == Ones({}, S)
  <2>1. WholeOn(none, S)
    BY OnesAreWhole
  <2>2. \A e \in S : none[e] <= half[e]
    BY <1>3 DEF Ones
  <2>3. Sum(none) = 0
    BY <1>2, OnesCount, FS_EmptySet
  <2> HIDE DEF none
  <2>4. Sum(none) <= Sum(half)
    BY <1>2, <1>4, <2>1, <2>2, SumsCompare
  <2> QED
    BY <1>9, <2>3, <2>4
<1>11. Sum(due) <= Sum(collected) + Sum(half)
  <2> DEFINE both == Plus(collected, half, S)
  <2>1. Sum(both) = Sum(collected) + Sum(half)
    BY <1>2, <1>4, PlusSums
  <2>2. WholeOn(both, S) /\ \A e \in S : due[e] <= both[e]
    BY <1>3 DEF Plus, WholeOn
  <2> HIDE DEF both
  <2>3. Sum(due) <= Sum(both)
    BY <1>2, <1>4, <2>2, SumsCompare
  <2> QED
    BY <2>1, <2>3
<1>12. ASSUME Payers = Staying, \A e \in Payers : OfType(rows[e], "TOP_UP") = {}
       PROVE  Sum(half) + Sum(collected) <= Sum(due) + Sum(cent)
  <2> DEFINE left == Plus(half, collected, S)
             right == Plus(due, cent, S)
  <2>1. Sum(left) = Sum(half) + Sum(collected) /\ Sum(right) = Sum(due) + Sum(cent)
    BY <1>2, <1>4, PlusSums
  <2>2. \A e \in S : half[e] + collected[e] <= due[e] + cent[e]
    BY <1>3, <1>12
  <2>3. WholeOn(left, S) /\ WholeOn(right, S) /\ \A e \in S : left[e] <= right[e]
    BY <1>3, <2>2 DEF Plus, WholeOn
  <2> HIDE DEF left, right
  <2>4. Sum(left) <= Sum(right)
    BY <1>2, <2>3, SumsCompare
  <2> QED
    BY <2>1, <2>4
<1> HIDE DEF Sum
<1>13. RevenueToCome = Below0(Sum(due) - Sum(collected))
  BY <1>1, <1>5, <1>6 DEF RevenueToCome
<1>14. RevenueToCome <= Owed
  BY <1>7, <1>9, <1>10, <1>11, <1>13 DEF Below0
<1>15. ASSUME Payers = Staying, \A e \in Payers : OfType(rows[e], "TOP_UP") = {}
       PROVE  RevenueToCome + Cardinality(Payers) >= Owed
  BY <1>7, <1>8, <1>9, <1>12, <1>13, <1>15 DEF Below0
<1> QED
  BY <1>14, <1>15

\* The revenue to come that the dashboard shows is never more than what learners
\* still owe, and short of it by less than a cent for each payer when nobody has
\* cancelled and nobody has paid in two halves, whenever nothing was committed
\* between its two queries and no price has moved since it was paid
\* (getRevenueRaw, findRevenuePotentialRows), however many enrollments they sum.
THEOREM ReportsBalance == LedgerSpec => []ReportBalances
<1>1. LedgerInit => ReportInv /\ Current
  BY DEF LedgerInit, ReportInv, Current
<1>2. LedgerSpec => [](ReportInv /\ Current)
  BY <1>1, ReportNext, CurrentNext, PTL DEF LedgerSpec
<1> QED
  BY <1>2, RowsAlways, BalanceHolds, PTL
=============================================================================
