---------------------------- MODULE DataInduction ----------------------------
(***************************************************************************)
(* Induction over data, for the proofs about sums and sequences: the       *)
(* principles of induction are stated here for sets instead of predicates, *)
(* so that they can be cited with a set that a proof defines.  From them:  *)
(* the facts about sums over finite sets (SumFunctionOnSet of module       *)
(* Functions) that the ledgers of the paper engine, the backtest and the   *)
(* calibration rest on, and about the lists that Selection filters; before *)
(* them, division with remainder.                                          *)
(***************************************************************************)
EXTENDS Integers, Sequences, FiniteSets, Functions, Selection, FiniteSetTheorems,
        SequenceTheorems, WellFoundedInduction, TLAPS

-----------------------------------------------------------------------------
(* Division. *)

(* Division with remainder. *)
LEMMA Division ==
    ASSUME NEW a \in Int, NEW b \in Nat \ {0}
    PROVE  /\ a \div b \in Int
           /\ a % b \in 0..(b - 1)
           /\ a = b * (a \div b) + (a % b)
  BY Z3

(* A multiple of t between zero and t is zero. *)
LEMMA SmallMultiple ==
    ASSUME NEW t \in Nat \ {0}, NEW m \in Int, t * m < t, t * m >= 0
    PROVE  m = 0
<1>1. CASE m >= 1
  <2>1. t * m >= t * 1
    BY <1>1, Z3
  <2> QED
    BY <2>1, Z3
<1>2. CASE m <= -1
  <2>1. t * m <= t * (-1)
    BY <1>2, Z3
  <2> QED
    BY <2>1, Z3
<1> QED
  BY <1>1, <1>2, Z3

(* A multiple leaves no remainder. *)
LEMMA MultipleMod ==
    ASSUME NEW k \in Int, NEW t \in Nat \ {0}
    PROVE  (k * t) % t = 0
<1> DEFINE q == (k * t) \div t
           r == (k * t) % t
<1>1. k * t \in Int
  BY Z3
<1>2. q \in Int /\ r \in 0..(t - 1) /\ k * t = t * q + r
  BY <1>1, Division
<1> HIDE DEF q, r
<1>3. t * (k - q) = r
  BY <1>2, Z3
<1>4. k - q = 0
  BY <1>2, <1>3, SmallMultiple
<1>5. r = 0
  BY <1>2, <1>3, <1>4, Z3
<1> QED
  BY <1>5 DEF r

-----------------------------------------------------------------------------
(* Induction. *)

(* A set of natural numbers that is not empty has a least element. *)
LEMMA LeastElement ==
    ASSUME NEW A \in SUBSET Nat, A # {}
    PROVE  \E m \in A : \A n \in A : m <= n
<1> DEFINE R == OpToRel(<, Nat)
<1>1. IsWellFoundedOn(R, Nat)
  BY NatLessThanWellFounded
<1>2. \A x, y \in Nat : <<x, y>> \in R <=> x < y
  BY DEF OpToRel
<1> HIDE DEF R
<1>3. \E x \in A : \A y \in A : ~(<<y, x>> \in R)
  BY <1>1, WFMin, Zenon
<1>4. PICK m \in A : \A y \in A : ~(<<y, m>> \in R)
  BY <1>3
<1>5. ASSUME NEW n \in A PROVE m <= n
  <2>1. m \in Nat /\ n \in Nat
    OBVIOUS
  <2>2. ~(n < m)
    BY <1>2, <1>4, <2>1
  <2> QED
    BY <2>1, <2>2
<1> QED
  BY <1>5

(* Of rows with a stamp and an id there is a first one, by stamp and, where *)
(* stamps are equal, by id.                                                 *)
LEMMA FirstInOrder ==
    ASSUME NEW B \in SUBSET Nat, B # {}, NEW f \in [B -> Nat]
    PROVE  \E c \in B : \A d \in B \ {c} : f[c] < f[d] \/ (f[c] = f[d] /\ c < d)
<1> DEFINE stamps == {f[c] : c \in B}
<1>1. stamps \in SUBSET Nat /\ stamps # {}
  OBVIOUS
<1>2. PICK m \in stamps : \A n \in stamps : m <= n
  <2> HIDE DEF stamps
  <2> QED
    BY <1>1, LeastElement
<1> DEFINE first == {c \in B : f[c] = m}
<1>3. first \in SUBSET Nat /\ first # {}
  BY <1>2
<1>4. PICK c \in first : \A d \in first : c <= d
  <2> HIDE DEF first
  <2> QED
    BY <1>3, LeastElement
<1>5. ASSUME NEW d \in B \ {c} PROVE f[c] < f[d] \/ (f[c] = f[d] /\ c < d)
  <2>1. f[c] = m /\ m <= f[d] /\ f[d] \in Nat /\ m \in Nat /\ c \in Nat /\ d \in Nat
    BY <1>2, <1>4
  <2>2. f[d] = m => c <= d
    BY <1>4
  <2> QED
    BY <2>1, <2>2
<1> QED
  BY <1>4, <1>5

(* A set that holds 0 and with every number the next holds all numbers. *)
LEMMA Induction ==
    ASSUME NEW A, 0 \in A, \A n \in Nat : n \in A => n + 1 \in A
    PROVE  Nat \subseteq A
<1> SUFFICES ASSUME ~(Nat \subseteq A) PROVE FALSE
  OBVIOUS
<1> DEFINE B == Nat \ A
<1>1. B # {} /\ B \in SUBSET Nat
  OBVIOUS
<1> HIDE DEF B
<1>2. PICK m \in B : \A n \in B : m <= n
  BY <1>1, LeastElement
<1>3. m \in Nat /\ m \notin A /\ m # 0
  BY DEF B
<1>4. m - 1 \in Nat /\ m - 1 \in A
  BY <1>2, <1>3 DEF B
<1> QED
  BY <1>3, <1>4

(* A family of finite sets that holds the empty set and, with a subset of S, *)
(* the subset with one more element holds S.                                 *)
LEMMA FiniteInduction ==
    ASSUME NEW S, IsFiniteSet(S), NEW A, {} \in A,
           \A T \in SUBSET S : \A x \in S \ T : T \in A => T \cup {x} \in A
    PROVE  S \in A
<1> DEFINE B == {n \in Nat : \A T \in SUBSET S : Cardinality(T) = n => T \in A}
<1>1. \A T \in SUBSET S : IsFiniteSet(T) /\ Cardinality(T) \in Nat
  BY FS_Subset, FS_CardinalityType
<1>2. 0 \in B
  BY <1>1, FS_EmptySet
<1>3. ASSUME NEW n \in Nat, n \in B PROVE n + 1 \in B
  <2> SUFFICES ASSUME NEW T \in SUBSET S, Cardinality(T) = n + 1
               PROVE  T \in A
    OBVIOUS
  <2>1. T # {}
    BY FS_EmptySet
  <2>2. PICK x \in T : TRUE
    BY <2>1
  <2> DEFINE U == T \ {x}
  <2>3. Cardinality(U) = Cardinality(T) - 1
    BY <1>1, FS_RemoveElement
  <2>4. U \in SUBSET S /\ x \in S \ U /\ T = U \cup {x}
    OBVIOUS
  <2> HIDE DEF U
  <2>5. U \in A
    BY <1>3, <2>3, <2>4
  <2> QED
    BY <2>4, <2>5
<1> HIDE DEF B
<1>4. Nat \subseteq B
  BY <1>2, <1>3, Induction
<1>5. Cardinality(S) \in B
  BY <1>1, <1>4
<1> QED
  BY <1>5 DEF B

-----------------------------------------------------------------------------
(* Recursion over the subsets of a finite set: a function that is defined   *)
(* from its value for the subset without one chosen element.                *)

\* C chooses an element of every subset that is not empty.
ChoosesFrom(C, S) == \A s \in SUBSET S : s # {} => C[s] \in s

\* Step leads from a subset and the value for the rest to a value.
StepsWithin(Step, S, V) == \A s \in SUBSET S : \A v \in V : s # {} => Step[s][v] \in V

DefinedBy(g, S, V, base, C, Step) ==
    /\ g \in [SUBSET S -> V]
    /\ \A s \in SUBSET S : g[s] = IF s = {} THEN base ELSE Step[s][g[s \ {C[s]}]]

(* Such a function exists. *)
LEMMA RecursionOnSubsets ==
    ASSUME NEW S, IsFiniteSet(S), NEW V, NEW base \in V,
           NEW C, ChoosesFrom(C, S), NEW Step, StepsWithin(Step, S, V)
    PROVE  \E g : DefinedBy(g, S, V, base, C, Step)
<1> USE DEF ChoosesFrom, StepsWithin, DefinedBy
<1> DEFINE D(n) == {s \in SUBSET S : Cardinality(s) <= n}
           Good(n, g) == /\ g \in [D(n) -> V]
                         /\ \A s \in D(n) :
                               g[s] = IF s = {} THEN base ELSE Step[s][g[s \ {C[s]}]]
           B == {n \in Nat : \E g : Good(n, g)}
<1>1. \A s \in SUBSET S : IsFiniteSet(s) /\ Cardinality(s) \in Nat
  BY FS_Subset, FS_CardinalityType
<1>2. \A s \in SUBSET S : s # {} =>
          /\ s \ {C[s]} \in SUBSET S
          /\ Cardinality(s \ {C[s]}) = Cardinality(s) - 1
          /\ Cardinality(s) # 0
  BY <1>1, FS_RemoveElement, FS_EmptySet
<1>3. 0 \in B
  <2>1. ASSUME NEW s \in D(0) PROVE s = {}
    <3>1. Cardinality(s) = 0 /\ s \in SUBSET S
      BY <1>1
    <3> QED
      BY <1>2, <3>1
  <2>2. Good(0, [s \in D(0) |-> base])
    BY <2>1
  <2> QED
    BY <2>2
<1>4. ASSUME NEW n \in Nat, n \in B PROVE n + 1 \in B
  <2>1. PICK g : Good(n, g)
    BY <1>4
  <2> DEFINE h == [s \in D(n + 1) |-> IF s = {} THEN base ELSE Step[s][g[s \ {C[s]}]]]
  <2>2. ASSUME NEW s \in D(n + 1), s # {} PROVE s \ {C[s]} \in D(n) /\ g[s \ {C[s]}] \in V
    <3>1. s \ {C[s]} \in D(n)
      BY <1>1, <1>2, <2>2
    <3> QED
      BY <2>1, <3>1
  <2>3. h \in [D(n + 1) -> V]
    BY <2>2
  <2>4. \A s \in D(n) : s \in D(n + 1) /\ h[s] = g[s]
    <3>1. \A s \in D(n) : s \in D(n + 1)
      BY <1>1
    <3> QED
      BY <2>1, <3>1
  <2>5. ASSUME NEW s \in D(n + 1)
        PROVE  h[s] = IF s = {} THEN base ELSE Step[s][h[s \ {C[s]}]]
    <3>1. s # {} => h[s \ {C[s]}] = g[s \ {C[s]}]
      BY <2>2, <2>4
    <3> QED
      BY <3>1
  <2>6. Good(n + 1, h)
    <3> HIDE DEF h, D
    <3> QED
      BY <2>3, <2>5
  <2> HIDE DEF Good, h
  <2> QED
    BY <2>6
<1> HIDE DEF B
<1>5. Cardinality(S) \in B
  BY <1>1, <1>3, <1>4, Induction
<1>6. PICK g : Good(Cardinality(S), g)
  BY <1>5 DEF B
<1>7. D(Cardinality(S)) = SUBSET S
  BY FS_Subset
<1> QED
  BY <1>6, <1>7

SameStep(g, h, S, C) ==
    /\ g[{}] = h[{}]
    /\ \A s \in SUBSET S : s # {} /\ g[s \ {C[s]}] = h[s \ {C[s]}] => g[s] = h[s]

(* There is only one: two functions that agree on the rest agree. *)
LEMMA RecursionIsUnique ==
    ASSUME NEW S, IsFiniteSet(S), NEW C, ChoosesFrom(C, S),
           NEW g, NEW h, SameStep(g, h, S, C)
    PROVE  \A s \in SUBSET S : g[s] = h[s]
<1> USE DEF ChoosesFrom, SameStep
<1> DEFINE B == {n \in Nat : \A s \in SUBSET S : Cardinality(s) = n => g[s] = h[s]}
<1>1. \A s \in SUBSET S : IsFiniteSet(s) /\ Cardinality(s) \in Nat
  BY FS_Subset, FS_CardinalityType
<1>2. 0 \in B
  <2>1. \A s \in SUBSET S : Cardinality(s) = 0 => s = {}
    BY <1>1, FS_EmptySet
  <2> QED
    BY <2>1
<1>3. ASSUME NEW n \in Nat, n \in B PROVE n + 1 \in B
  <2> SUFFICES ASSUME NEW s \in SUBSET S, Cardinality(s) = n + 1
               PROVE  g[s] = h[s]
    OBVIOUS
  <2>1. s # {}
    BY FS_EmptySet
  <2> DEFINE rest == s \ {C[s]}
  <2>2. Cardinality(rest) = Cardinality(s) - 1 /\ rest \in SUBSET S
    BY <1>1, <2>1, FS_RemoveElement
  <2>3. g[rest] = h[rest] => g[s] = h[s]
    BY <2>1
  <2> HIDE DEF rest
  <2>4. g[rest] = h[rest]
    BY <1>3, <2>2
  <2> QED
    BY <2>3, <2>4
<1> HIDE DEF B
<1>4. Nat \subseteq B
  BY <1>2, <1>3, Induction
<1> QED
  BY <1>1, <1>4 DEF B

-----------------------------------------------------------------------------
(* Sums. *)

\* the element at which SumFunctionOnSet takes a set apart
Chosen(s) == CHOOSE x \in s : TRUE

\* g holds the sum of F over every subset of S.
SumsOf(g, F, S) ==
    /\ g \in [SUBSET S -> Int]
    /\ \A s \in SUBSET S : g[s] = IF s = {} THEN 0 ELSE F[Chosen(s)] + g[s \ {Chosen(s)}]

(* The recursion that the operator is defined by has a solution. *)
LEMMA SumByRecursion ==
    ASSUME NEW F, NEW S, IsFiniteSet(S), \A x \in S : F[x] \in Int
    PROVE  \E g : SumsOf(g, F, S) /\ SumFunctionOnSet(F, S) = g[S]
<1> DEFINE C == [s \in SUBSET S |-> Chosen(s)]
           Step == [s \in SUBSET S |-> [v \in Int |-> F[C[s]] + v]]
           Eq(g) == g = [s \in SUBSET S |-> IF s = {} THEN 0 ELSE F[Chosen(s)] + g[s \ {Chosen(s)}]]
           iter == CHOOSE f : Eq(f)
<1>1. SumFunctionOnSet(F, S) = iter[S]
  BY DEF SumFunctionOnSet, FoldFunctionOnSet, MapThenFoldSet, Chosen
<1>2. \A s \in SUBSET S : s # {} => Chosen(s) \in s
  BY DEF Chosen
<1> HIDE DEF iter
<1>3. \A s \in SUBSET S : C[s] = Chosen(s)
  OBVIOUS
<1> HIDE DEF C
<1>4. \A s \in SUBSET S : \A v \in Int : Step[s][v] = F[C[s]] + v
  OBVIOUS
<1> HIDE DEF Step
<1>5. \A s \in SUBSET S : s # {} => C[s] \in s /\ F[C[s]] \in Int
  BY <1>2, <1>3
<1>6. ChoosesFrom(C, S) /\ StepsWithin(Step, S, Int) /\ 0 \in Int
  BY <1>4, <1>5 DEF ChoosesFrom, StepsWithin
<1>7. PICK g : DefinedBy(g, S, Int, 0, C, Step)
  BY <1>6, RecursionOnSubsets, Zenon
<1>8. /\ g \in [SUBSET S -> Int]
      /\ \A s \in SUBSET S : g[s] = IF s = {} THEN 0 ELSE Step[s][g[s \ {C[s]}]]
  BY <1>7 DEF DefinedBy
<1>9. ASSUME NEW s \in SUBSET S
      PROVE  g[s] = IF s = {} THEN 0 ELSE F[C[s]] + g[s \ {C[s]}]
  <2> DEFINE rest == s \ {C[s]}
  <2>1. rest \in SUBSET S /\ g[rest] \in Int
    BY <1>8
  <2>2. g[s] = IF s = {} THEN 0 ELSE Step[s][g[rest]]
    BY <1>8
  <2> HIDE DEF rest
  <2>3. Step[s][g[rest]] = F[C[s]] + g[rest]
    BY <1>4, <2>1
  <2> QED
    BY <2>2, <2>3 DEF rest
<1>10. Eq(g)
  <2>1. \A s \in SUBSET S : g[s] = IF s = {} THEN 0 ELSE F[Chosen(s)] + g[s \ {Chosen(s)}]
    BY <1>3, <1>9, Zenon
  <2> QED
    BY <1>8, <2>1
<1>11. Eq(iter)
  <2> HIDE DEF Eq
  <2> QED
    BY <1>10 DEF iter
<1>12. \A s \in SUBSET S : iter[s] = IF s = {} THEN 0 ELSE F[C[s]] + iter[s \ {C[s]}]
  <2>1. \A s \in SUBSET S : iter[s] = IF s = {} THEN 0 ELSE F[Chosen(s)] + iter[s \ {Chosen(s)}]
    BY <1>11
  <2> QED
    BY <1>3, <2>1, Zenon
<1>13. SameStep(iter, g, S, C)
  <2>1. iter[{}] = g[{}]
    BY <1>9, <1>12
  <2>2. ASSUME NEW s \in SUBSET S, s # {}, iter[s \ {C[s]}] = g[s \ {C[s]}]
        PROVE  iter[s] = g[s]
    <3>1. g[s] = F[C[s]] + g[s \ {C[s]}]
      BY <1>9, <2>2
    <3>2. iter[s] = F[C[s]] + iter[s \ {C[s]}]
      BY <1>12, <2>2
    <3> QED
      BY <2>2, <3>1, <3>2, Zenon
  <2> QED
    BY <2>1, <2>2 DEF SameStep
<1>14. \A s \in SUBSET S : iter[s] = g[s]
  BY <1>6, <1>13, RecursionIsUnique, SMTT(30)
<1>15. SumFunctionOnSet(F, S) = g[S]
  BY <1>1, <1>14, Zenon
<1> QED
  <2>1. \A s \in SUBSET S : g[s] = IF s = {} THEN 0 ELSE F[Chosen(s)] + g[s \ {Chosen(s)}]
    BY <1>3, <1>9, Zenon
  <2> QED
    BY <1>8, <1>15, <2>1 DEF SumsOf


LEMMA SumType ==
    ASSUME NEW F, NEW S, IsFiniteSet(S), \A x \in S : F[x] \in Int
    PROVE  SumFunctionOnSet(F, S) \in Int
<1>1. PICK g : SumsOf(g, F, S) /\ SumFunctionOnSet(F, S) = g[S]
  BY SumByRecursion
<1> QED
  BY <1>1 DEF SumsOf

(* The sum over no element. *)
LEMMA SumEmpty ==
    ASSUME NEW F
    PROVE  SumFunctionOnSet(F, {}) = 0
<1>1. IsFiniteSet({}) /\ \A x \in {} : F[x] \in Int
  BY FS_EmptySet
<1>2. PICK g : SumsOf(g, F, {}) /\ SumFunctionOnSet(F, {}) = g[{}]
  BY <1>1, SumByRecursion
<1> QED
  BY <1>2 DEF SumsOf

(* The sum without the element that is chosen first. *)
LEMMA SumChosen ==
    ASSUME NEW F, NEW S, IsFiniteSet(S), \A x \in S : F[x] \in Int, S # {}
    PROVE  /\ Chosen(S) \in S
           /\ SumFunctionOnSet(F, S) = F[Chosen(S)] + SumFunctionOnSet(F, S \ {Chosen(S)})
<1> DEFINE T == S \ {Chosen(S)}
           C == [s \in SUBSET T |-> Chosen(s)]
<1>1. PICK g : SumsOf(g, F, S) /\ SumFunctionOnSet(F, S) = g[S]
  BY SumByRecursion
<1>2. T \in SUBSET S /\ IsFiniteSet(T) /\ \A x \in T : F[x] \in Int
  BY FS_Subset
<1>3. PICK h : SumsOf(h, F, T) /\ SumFunctionOnSet(F, T) = h[T]
  <2> HIDE DEF T
  <2> QED
    BY <1>2, SumByRecursion
<1>4. g[S] = F[Chosen(S)] + g[T]
  BY <1>1 DEF SumsOf
<1>5. Chosen(S) \in S
  BY DEF Chosen
<1> HIDE DEF T
<1>6. \A s \in SUBSET T : C[s] = Chosen(s) /\ (s # {} => Chosen(s) \in s)
  BY DEF Chosen
<1> HIDE DEF C
<1>7. ChoosesFrom(C, T)
  BY <1>6 DEF ChoosesFrom
<1>8. SameStep(g, h, T, C)
  <2>1. g[{}] = h[{}]
    BY <1>1, <1>3 DEF SumsOf
  <2>2. ASSUME NEW s \in SUBSET T, s # {}, g[s \ {C[s]}] = h[s \ {C[s]}]
        PROVE  g[s] = h[s]
    <3>1. g[s] = F[Chosen(s)] + g[s \ {Chosen(s)}]
      BY <1>1, <1>2, <2>2 DEF SumsOf
    <3>2. h[s] = F[Chosen(s)] + h[s \ {Chosen(s)}]
      BY <1>3, <2>2 DEF SumsOf
    <3> QED
      BY <1>6, <2>2, <3>1, <3>2, Zenon
  <2> QED
    BY <2>1, <2>2 DEF SameStep
<1>9. \A s \in SUBSET T : g[s] = h[s]
  BY <1>2, <1>7, <1>8, RecursionIsUnique, SMTT(30)
<1>10. g[T] = h[T]
  BY <1>9
<1> QED
  BY <1>1, <1>3, <1>4, <1>5, <1>10 DEF T

(* The sum without any one element. *)
LEMMA SumRemove ==
    ASSUME NEW F, NEW S, IsFiniteSet(S), \A x \in S : F[x] \in Int, NEW x \in S
    PROVE  SumFunctionOnSet(F, S) = F[x] + SumFunctionOnSet(F, S \ {x})
<1> DEFINE Total(T) == SumFunctionOnSet(F, T)
           B == {n \in Nat : \A T \in SUBSET S : Cardinality(T) = n =>
                                \A y \in T : Total(T) = F[y] + Total(T \ {y})}
<1> HIDE DEF Total
<1>1. \A T \in SUBSET S : IsFiniteSet(T) /\ Cardinality(T) \in Nat
  BY FS_Subset, FS_CardinalityType
<1>2. ASSUME NEW T \in SUBSET S, T # {}
      PROVE  /\ Chosen(T) \in T
             /\ Total(T) = F[Chosen(T)] + Total(T \ {Chosen(T)})
  <2>1. IsFiniteSet(T) /\ \A y \in T : F[y] \in Int
    BY <1>1
  <2> QED
    BY <1>2, <2>1, SumChosen DEF Total
<1>3. ASSUME NEW T \in SUBSET S PROVE Total(T) \in Int
  <2>1. IsFiniteSet(T) /\ \A y \in T : F[y] \in Int
    BY <1>1
  <2> QED
    BY <2>1, SumType DEF Total
<1>4. 0 \in B
  <2>1. \A T \in SUBSET S : Cardinality(T) = 0 => T = {}
    BY <1>1, FS_EmptySet
  <2> QED
    BY <2>1
<1>5. ASSUME NEW n \in Nat, n \in B PROVE n + 1 \in B
  <2> SUFFICES ASSUME NEW T \in SUBSET S, Cardinality(T) = n + 1, NEW y \in T
               PROVE  Total(T) = F[y] + Total(T \ {y})
    OBVIOUS
  <2> DEFINE c == Chosen(T)
             U == T \ {c}
             W == T \ {y}
             both == U \ {y}
  <2>1. c \in T /\ Total(T) = F[c] + Total(U)
    BY <1>2
  <2>2. CASE y = c
    BY <2>1, <2>2
  <2>3. CASE y # c
    <3>1. Cardinality(U) = n /\ Cardinality(W) = n
      BY <1>1, <2>1, FS_RemoveElement
    <3>2. U \in SUBSET S /\ W \in SUBSET S /\ y \in U /\ c \in W
      BY <2>1, <2>3
    <3>3. both = W \ {c} /\ both \in SUBSET S
      OBVIOUS
    <3>4. F[y] \in Int /\ F[c] \in Int /\ Total(both) \in Int
      BY <1>3, <2>1, <3>3
    <3> HIDE DEF c, U, W
    <3>5. Total(U) = F[y] + Total(both)
      BY <1>5, <3>1, <3>2
    <3>6. Total(W) = F[c] + Total(both)
      BY <1>5, <3>1, <3>2, <3>3
    <3> HIDE DEF both
    <3> QED
      BY <2>1, <3>4, <3>5, <3>6 DEF W
  <2> QED
    BY <2>2, <2>3
<1> HIDE DEF B
<1>6. Cardinality(S) \in B
  BY <1>1, <1>4, <1>5, Induction
<1> QED
  BY <1>6 DEF B, Total

(* The sum with one element more. *)
LEMMA SumInsert ==
    ASSUME NEW F, NEW S, IsFiniteSet(S), \A y \in S : F[y] \in Int,
           NEW x, x \notin S, F[x] \in Int
    PROVE  SumFunctionOnSet(F, S \cup {x}) = F[x] + SumFunctionOnSet(F, S)
<1> DEFINE T == S \cup {x}
<1>1. IsFiniteSet(T)
  BY FS_AddElement
<1>2. x \in T /\ T \ {x} = S /\ \A y \in T : F[y] \in Int
  OBVIOUS
<1> HIDE DEF T
<1>3. SumFunctionOnSet(F, T) = F[x] + SumFunctionOnSet(F, T \ {x})
  BY <1>1, <1>2, SumRemove
<1> QED
  BY <1>2, <1>3 DEF T

(* The sum depends on the values at the elements only. *)
LEMMA SumSame ==
    ASSUME NEW F, NEW G, NEW S, IsFiniteSet(S),
           \A x \in S : F[x] \in Int /\ G[x] = F[x]
    PROVE  SumFunctionOnSet(G, S) = SumFunctionOnSet(F, S)
<1> DEFINE A == {T \in SUBSET S : SumFunctionOnSet(G, T) = SumFunctionOnSet(F, T)}
<1>1. {} \in A
  BY SumEmpty
<1>2. ASSUME NEW T \in SUBSET S, NEW x \in S \ T, T \in A PROVE T \cup {x} \in A
  <2>1. IsFiniteSet(T) /\ \A y \in T : F[y] \in Int /\ G[y] \in Int
    BY FS_Subset
  <2>2. F[x] \in Int /\ G[x] \in Int /\ x \notin T
    OBVIOUS
  <2>3. SumFunctionOnSet(F, T \cup {x}) = F[x] + SumFunctionOnSet(F, T)
    BY <2>1, <2>2, SumInsert
  <2>4. SumFunctionOnSet(G, T \cup {x}) = G[x] + SumFunctionOnSet(G, T)
    BY <2>1, <2>2, SumInsert
  <2> QED
    BY <1>2, <2>3, <2>4
<1> HIDE DEF A
<1>3. S \in A
  BY <1>1, <1>2, FiniteInduction
<1> QED
  BY <1>3 DEF A

(* The sum over two sets without a common element. *)
LEMMA SumUnion ==
    ASSUME NEW F, NEW S, NEW T, IsFiniteSet(S), IsFiniteSet(T), S \cap T = {},
           \A x \in S \cup T : F[x] \in Int
    PROVE  SumFunctionOnSet(F, S \cup T) = SumFunctionOnSet(F, S) + SumFunctionOnSet(F, T)
<1> DEFINE A == {U \in SUBSET T : SumFunctionOnSet(F, S \cup U)
                                     = SumFunctionOnSet(F, S) + SumFunctionOnSet(F, U)}
<1>1. {} \in A
  <2>1. SumFunctionOnSet(F, S) \in Int
    BY SumType
  <2>2. S \cup {} = S
    OBVIOUS
  <2> QED
    BY <2>1, <2>2, SumEmpty
<1>2. ASSUME NEW U \in SUBSET T, NEW x \in T \ U, U \in A PROVE U \cup {x} \in A
  <2> DEFINE both == S \cup U
  <2>1. IsFiniteSet(U)
    BY FS_Subset
  <2>2. IsFiniteSet(both)
    BY <2>1, FS_Union
  <2>3. /\ \A y \in U : F[y] \in Int
        /\ \A y \in both : F[y] \in Int
        /\ F[x] \in Int /\ x \notin U /\ x \notin both
        /\ S \cup (U \cup {x}) = both \cup {x}
    OBVIOUS
  <2>4. SumFunctionOnSet(F, U \cup {x}) = F[x] + SumFunctionOnSet(F, U)
    BY <2>1, <2>3, SumInsert
  <2> HIDE DEF both
  <2>5. SumFunctionOnSet(F, both \cup {x}) = F[x] + SumFunctionOnSet(F, both)
    BY <2>2, <2>3, SumInsert
  <2>6. SumFunctionOnSet(F, both) = SumFunctionOnSet(F, S) + SumFunctionOnSet(F, U)
    BY <1>2 DEF both
  <2>7. SumFunctionOnSet(F, S) \in Int /\ SumFunctionOnSet(F, U) \in Int
    BY <2>1, <2>3, SumType
  <2>8. SumFunctionOnSet(F, S \cup (U \cup {x}))
           = SumFunctionOnSet(F, S) + SumFunctionOnSet(F, U \cup {x})
    <3>1. S \cup (U \cup {x}) = both \cup {x}
      BY <2>3
    <3> DEFINE more == U \cup {x}
               all == SumFunctionOnSet(F, both \cup {x})
               a == SumFunctionOnSet(F, S)
               b == SumFunctionOnSet(F, U)
    <3>2. all = F[x] + (a + b)
      BY <2>5, <2>6
    <3>3. SumFunctionOnSet(F, more) = F[x] + b
      BY <2>4
    <3>4. a \in Int /\ b \in Int /\ F[x] \in Int
      BY <2>3, <2>7
    <3> HIDE DEF a, b, all
    <3>5. all = a + (F[x] + b)
      BY <3>2, <3>4
    <3> QED
      BY <3>1, <3>3, <3>5, Zenon DEF all, a
  <2>9. U \cup {x} \in SUBSET T
    OBVIOUS
  <2> QED
    BY <2>8, <2>9
<1> HIDE DEF A
<1>3. T \in A
  BY <1>1, <1>2, FiniteInduction
<1> QED
  BY <1>3 DEF A

(* A sum of smaller numbers is smaller. *)
LEMMA SumMonotone ==
    ASSUME NEW F, NEW G, NEW S, IsFiniteSet(S),
           \A x \in S : F[x] \in Int /\ G[x] \in Int /\ F[x] <= G[x]
    PROVE  SumFunctionOnSet(F, S) <= SumFunctionOnSet(G, S)
<1> DEFINE A == {U \in SUBSET S : SumFunctionOnSet(F, U) <= SumFunctionOnSet(G, U)}
<1>1. {} \in A
  BY SumEmpty
<1>2. ASSUME NEW U \in SUBSET S, NEW x \in S \ U, U \in A PROVE U \cup {x} \in A
  <2> DEFINE f == SumFunctionOnSet(F, U)
             g == SumFunctionOnSet(G, U)
             more == U \cup {x}
  <2>1. IsFiniteSet(U)
    BY FS_Subset
  <2>2. (\A y \in U : F[y] \in Int) /\ F[x] \in Int /\ x \notin U
    OBVIOUS
  <2>3. (\A y \in U : G[y] \in Int) /\ G[x] \in Int
    OBVIOUS
  <2>4. SumFunctionOnSet(F, more) = F[x] + f
    BY <2>1, <2>2, SumInsert
  <2>5. SumFunctionOnSet(G, more) = G[x] + g
    BY <2>1, <2>2, <2>3, SumInsert
  <2>6. f \in Int /\ g \in Int
    BY <2>1, <2>2, <2>3, SumType
  <2>7. f <= g /\ F[x] <= G[x] /\ more \in SUBSET S
    BY <1>2
  <2> HIDE DEF f, g, more
  <2>8. F[x] + f <= G[x] + g
    BY <2>2, <2>3, <2>6, <2>7
  <2>9. SumFunctionOnSet(F, more) <= SumFunctionOnSet(G, more)
    BY <2>4, <2>5, <2>8
  <2> QED
    BY <2>7, <2>9 DEF more
<1> HIDE DEF A
<1>3. S \in A
  BY <1>1, <1>2, FiniteInduction
<1> QED
  BY <1>3 DEF A

\* g is the list f of n numbers with one more.
IsExtended(g, f, n) ==
    /\ DOMAIN f = 1..n /\ DOMAIN g = 1..(n + 1)
    /\ \A i \in 1..n : f[i] \in Int /\ g[i] = f[i]
    /\ g[n + 1] \in Int

(* The sum of a list with one more element. *)
LEMMA SumExtend ==
    ASSUME NEW n \in Nat, NEW f, NEW g, IsExtended(g, f, n)
    PROVE  SumFunction(g) = SumFunction(f) + g[n + 1] /\ SumFunction(f) \in Int
<1> USE DEF IsExtended
<1> DEFINE S == 1..n
           x == n + 1
<1>1. IsFiniteSet(S) /\ x \notin S /\ 1..(n + 1) = S \cup {x}
  <2>1. IsFiniteSet(S)
    <3>1. 1 \in Int /\ n \in Int
      OBVIOUS
    <3> QED
      BY <3>1, FS_Interval
  <2> QED
    BY <2>1
<1>2. \A i \in S : g[i] \in Int /\ f[i] \in Int /\ g[i] = f[i]
  OBVIOUS
<1>3. SumFunction(g) = SumFunctionOnSet(g, S \cup {x}) /\ SumFunction(f) = SumFunctionOnSet(f, S)
  BY <1>1 DEF SumFunction
<1>4. g[x] \in Int
  OBVIOUS
<1> HIDE DEF S
<1>5. SumFunctionOnSet(g, S \cup {x}) = g[x] + SumFunctionOnSet(g, S)
  BY <1>1, <1>2, <1>4, SumInsert
<1>6. SumFunctionOnSet(g, S) = SumFunctionOnSet(f, S)
  BY <1>1, <1>2, SumSame
<1>7. SumFunctionOnSet(f, S) \in Int
  BY <1>1, <1>2, SumType
<1> QED
  BY <1>3, <1>4, <1>5, <1>6, <1>7

-----------------------------------------------------------------------------
(* Filters. *)

\* A sequence is known by its length and its elements.
LEMMA AsSeq ==
    ASSUME NEW S, NEW n \in Nat, NEW s \in [1..n -> S]
    PROVE  s \in Seq(S) /\ Len(s) = n
<1>1. s \in Seq(S)
  BY SeqDef
<1> QED
  BY <1>1, LenProperties

\* f is the loop of Where over the first k candles.
LoopOf(f, k, found) ==
    f = [n \in 0..k |-> IF n = 0 THEN <<>>
                        ELSE IF n \in found THEN Append(f[n - 1], n) ELSE f[n - 1]]

\* w lists the numbers of S in order.
Enumerates(w, S) ==
    /\ w \in Seq(S)
    /\ \A i \in S : \E n \in 1..Len(w) : w[n] = i
    /\ \A m, n \in 1..Len(w) : m < n => w[m] < w[n]

(* The loop is defined for every length. *)
LEMMA LoopExists ==
    ASSUME NEW k \in Nat, NEW found
    PROVE  \E f : LoopOf(f, k, found)
<1> DEFINE A == {n \in Nat : \E f : LoopOf(f, n, found)}
<1>1. 0 \in A
  <2>1. LoopOf([n \in 0..0 |-> <<>>], 0, found)
    BY DEF LoopOf
  <2> QED
    BY <2>1
<1>2. ASSUME NEW n \in Nat, n \in A PROVE n + 1 \in A
  <2>1. PICK f : LoopOf(f, n, found)
    BY <1>2
  <2> DEFINE last == IF n + 1 \in found THEN Append(f[n], n + 1) ELSE f[n]
             g == [m \in 0..(n + 1) |-> IF m <= n THEN f[m] ELSE last]
             h == [m \in 0..(n + 1) |-> IF m = 0 THEN <<>>
                     ELSE IF m \in found THEN Append(g[m - 1], m) ELSE g[m - 1]]
  <2>2. ASSUME NEW m \in 0..(n + 1) PROVE g[m] = h[m]
    <3>1. CASE m <= n
      <4>1. g[m] = f[m] /\ (m # 0 => g[m - 1] = f[m - 1]) /\ m \in 0..n
        BY <3>1
      <4>2. f[m] = IF m = 0 THEN <<>>
                   ELSE IF m \in found THEN Append(f[m - 1], m) ELSE f[m - 1]
        BY <2>1, <4>1 DEF LoopOf
      <4> QED
        BY <4>1, <4>2
    <3>2. CASE ~(m <= n)
      <4>1. m = n + 1 /\ m # 0 /\ m - 1 = n /\ n \in 0..(n + 1)
        BY <3>2
      <4>2. g[m - 1] = f[n] /\ g[m] = last
        BY <3>2, <4>1
      <4> QED
        BY <4>1, <4>2
    <3> QED
      BY <3>1, <3>2
  <2>3. g = h
    BY <2>2
  <2>4. LoopOf(g, n + 1, found)
    BY <2>3 DEF LoopOf
  <2> QED
    BY <2>4
<1> HIDE DEF A
<1>3. k \in A
  BY <1>1, <1>2, Induction
<1> QED
  BY <1>3 DEF A

(* It lists the indices that were found, in order. *)
LEMMA LoopLists ==
    ASSUME NEW k \in Nat, NEW found, NEW f, LoopOf(f, k, found)
    PROVE  Enumerates(f[k], found \cap 1..k)
<1> DEFINE A == {n \in Nat : n <= k => Enumerates(f[n], found \cap 1..n)}
<1>1. 0 \in A
  <2>1. f[0] = <<>> /\ found \cap 1..0 = {}
    BY DEF LoopOf
  <2>2. <<>> \in Seq({}) /\ Len(<<>>) = 0
    OBVIOUS
  <2>3. Enumerates(<<>>, {})
    BY <2>2 DEF Enumerates
  <2> QED
    BY <2>1, <2>3
<1>2. ASSUME NEW n \in Nat, n \in A PROVE n + 1 \in A
  <2> SUFFICES ASSUME n + 1 <= k PROVE Enumerates(f[n + 1], found \cap 1..(n + 1))
    OBVIOUS
  <2> DEFINE w == f[n]
             S == found \cap 1..n
             T == found \cap 1..(n + 1)
  <2>1. Enumerates(w, S) /\ S \subseteq 1..n
    BY <1>2
  <2>2. n + 1 \in 0..k /\ n + 1 # 0 /\ (n + 1) - 1 = n
    OBVIOUS
  <2>3. f[n + 1] = IF n + 1 \in found THEN Append(w, n + 1) ELSE w
    BY <2>2 DEF LoopOf
  <2>4. CASE n + 1 \in found
    <3>1. T = S \cup {n + 1} /\ f[n + 1] = Append(w, n + 1)
      BY <2>3, <2>4
    <3> DEFINE v == Append(w, n + 1)
    <3> HIDE DEF w, S, T
    <3>2. /\ w \in Seq(T) /\ v \in Seq(T) /\ Len(v) = Len(w) + 1 /\ v[Len(w) + 1] = n + 1
          /\ \A i \in 1..Len(w) : v[i] = w[i] /\ w[i] \in S
          /\ Len(w) \in Nat
      <4>1. w \in Seq(S) /\ w \in Seq(T) /\ n + 1 \in T
        BY <2>1, <3>1 DEF Enumerates
      <4>2. v \in Seq(T)
        BY <4>1
      <4>3. Len(v) = Len(w) + 1 /\ v[Len(w) + 1] = n + 1 /\ Len(w) \in Nat
        BY <4>1
      <4>4. \A i \in 1..Len(w) : v[i] = w[i] /\ w[i] \in S
        BY <4>1
      <4> QED
        BY <4>1, <4>2, <4>3, <4>4
    <3> HIDE DEF v
    <3>3. ASSUME NEW i \in T PROVE \E m \in 1..Len(v) : v[m] = i
      <4>1. CASE i = n + 1
        BY <3>2, <4>1
      <4>2. CASE i \in S
        <5>1. PICK m \in 1..Len(w) : w[m] = i
          BY <2>1, <4>2 DEF Enumerates
        <5>2. m \in 1..Len(v) /\ v[m] = i
          BY <3>2, <5>1
        <5> QED
          BY <5>2
      <4> QED
        BY <3>1, <4>1, <4>2
    <3>4. ASSUME NEW l \in 1..Len(v), NEW m \in 1..Len(v), l < m PROVE v[l] < v[m]
      <4>1. l \in 1..Len(w) /\ v[l] = w[l] /\ w[l] \in 1..n
        <5>1. l \in 1..Len(w)
          BY <3>2, <3>4
        <5> QED
          BY <2>1, <3>2, <5>1
      <4>2. CASE m = Len(w) + 1
        BY <3>2, <4>1, <4>2
      <4>3. CASE m \in 1..Len(w)
        <5>1. v[m] = w[m]
          BY <3>2, <4>3
        <5>2. w[l] < w[m]
          BY <2>1, <3>4, <4>1, <4>3 DEF Enumerates
        <5> QED
          BY <4>1, <5>1, <5>2
      <4> QED
        BY <3>2, <4>2, <4>3
    <3>5. Enumerates(v, T)
      BY <3>2, <3>3, <3>4 DEF Enumerates
    <3> QED
      BY <3>1, <3>5 DEF v, T
  <2>5. CASE n + 1 \notin found
    <3>1. T = S /\ f[n + 1] = w
      BY <2>3, <2>5
    <3> QED
      BY <2>1, <3>1
  <2> QED
    BY <2>4, <2>5
<1> HIDE DEF A
<1>3. k \in A
  BY <1>1, <1>2, Induction
<1> QED
  BY <1>3 DEF A

(* Where lists what was found. *)
LEMMA WhereLists ==
    ASSUME NEW V, NEW s \in Seq(V), NEW found \in SUBSET (1..Len(s))
    PROVE  Enumerates(Where(s, found), found)
<1> DEFINE N == Len(s)
           f == CHOOSE f : LoopOf(f, N, found)
<1>1. N \in Nat
  OBVIOUS
<1>2. LoopOf(f, N, found)
  BY <1>1, LoopExists
<1>3. Where(s, found) = f[N]
  BY DEF Where, LoopOf
<1>4. found \cap 1..N = found
  OBVIOUS
<1> HIDE DEF f
<1>5. Enumerates(f[N], found \cap 1..N)
  BY <1>1, <1>2, LoopLists
<1> QED
  BY <1>3, <1>4, <1>5

(* How many indices there are. *)
LEMMA IndexCount ==
    ASSUME NEW n \in Nat
    PROVE  IsFiniteSet(1..n) /\ Cardinality(1..n) = n
<1>1. 1 \in Int /\ n \in Int
  OBVIOUS
<1>2. IsFiniteSet(1..n) /\ Cardinality(1..n) = IF 1 > n THEN 0 ELSE n - 1 + 1
  BY <1>1, FS_Interval
<1> DEFINE card == Cardinality(1..n)
<1>3. card = IF 1 > n THEN 0 ELSE n - 1 + 1
  BY <1>2
<1> HIDE DEF card
<1>4. card = n
  BY <1>3
<1> QED
  BY <1>2, <1>4 DEF card

(* A list of the elements of a set is as long as the set is large. *)
LEMMA ListsCount ==
    ASSUME NEW S \in SUBSET Int, NEW w, Enumerates(w, S)
    PROVE  IsFiniteSet(S) /\ Cardinality(S) = Len(w)
<1> DEFINE n == Len(w)
<1>1. /\ w \in Seq(S) /\ n \in Nat /\ w \in [1..n -> S]
      /\ \A l, m \in 1..n : l < m => w[l] < w[m]
      /\ \A i \in S : \E m \in 1..n : w[m] = i
  BY DEF Enumerates
<1> HIDE DEF n
<1>2. ASSUME NEW l \in 1..n, NEW m \in 1..n, w[l] = w[m] PROVE l = m
  <2>1. w[l] \in Int
    BY <1>1
  <2>2. ~(w[l] < w[m]) /\ ~(w[m] < w[l])
    BY <1>2, <2>1
  <2>3. ~(l < m) /\ ~(m < l)
    BY <1>1, <2>2
  <2> QED
    BY <1>1, <2>3
<1>3. w \in Bijection(1..n, S)
  BY <1>1, <1>2 DEF Bijection, Injection, Surjection, IsInjective
<1>4. ExistsBijection(1..n, S)
  BY <1>3 DEF ExistsBijection
<1>5. IsFiniteSet(S)
  BY <1>1, <1>4, FS_NatBijection
<1> QED
  BY <1>1, <1>4, <1>5, FS_CountingElements DEF n

(* What is kept of a list are the elements that were found, in order. *)
LEMMA KeptIs ==
    ASSUME NEW V, NEW s \in Seq(V), NEW found \in SUBSET (1..Len(s))
    PROVE  \E at : /\ Enumerates(at, found)
                   /\ Kept(s, found) \in Seq(V) /\ Len(Kept(s, found)) = Len(at)
                   /\ \A n \in 1..Len(at) : at[n] \in found /\ Kept(s, found)[n] = s[at[n]]
<1> DEFINE at == Where(s, found)
           kept == [n \in 1..Len(at) |-> s[at[n]]]
<1>1. Enumerates(at, found)
  BY WhereLists
<1>2. Kept(s, found) = kept
  BY DEF Kept
<1> HIDE DEF at
<1>3. Len(at) \in Nat /\ \A n \in 1..Len(at) : at[n] \in found
  <2>1. at \in Seq(found)
    BY <1>1 DEF Enumerates
  <2> QED
    BY <2>1, ElementOfSeq, LenProperties
<1>4. kept \in [1..Len(at) -> V]
  <2>1. \A i \in 1..Len(s) : s[i] \in V
    BY ElementOfSeq
  <2>2. \A n \in 1..Len(at) : s[at[n]] \in V
    BY <1>3, <2>1
  <2> QED
    BY <2>2
<1>5. kept \in Seq(V) /\ Len(kept) = Len(at)
  BY <1>3, <1>4, AsSeq
<1>6. \A n \in 1..Len(at) : kept[n] = s[at[n]]
  OBVIOUS
<1> HIDE DEF kept
<1> QED
  BY <1>1, <1>2, <1>3, <1>5, <1>6

(* On a finite set that is not empty a function into the naturals has a greatest value. *)
LEMMA GreatestValue ==
    ASSUME NEW D, IsFiniteSet(D), D # {}, NEW f \in [D -> Nat]
    PROVE  \E m \in D : \A n \in D : f[n] <= f[m]
<1> DEFINE A == {T \in SUBSET D : T # {} => \E m \in T : \A n \in T : f[n] <= f[m]}
<1>1. {} \in A
  OBVIOUS
<1>2. ASSUME NEW T \in SUBSET D, NEW x \in D \ T, T \in A PROVE T \cup {x} \in A
  <2>1. CASE T = {}
    BY <2>1
  <2>2. CASE T # {}
    <3>1. PICK m \in T : \A n \in T : f[n] <= f[m]
      BY <1>2, <2>2
    <3>2. CASE f[x] <= f[m]
      BY <3>1, <3>2
    <3>3. CASE ~(f[x] <= f[m])
      <4>1. \A n \in T \cup {x} : f[n] <= f[x]
        BY <3>1, <3>3
      <4> QED
        BY <4>1
    <3> QED
      BY <3>2, <3>3
  <2> QED
    BY <2>1, <2>2
<1>3. D \in A
  <2> HIDE DEF A
  <2> QED
    BY <1>1, <1>2, FiniteInduction
<1> QED
  BY <1>3

=============================================================================
