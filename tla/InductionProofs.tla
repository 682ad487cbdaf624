--------------------------- MODULE InductionProofs ---------------------------
(***************************************************************************)
(* Induction as lemmas about sets, which the proofs of the other modules   *)
(* cite: the least and the greatest of a set of numbers, induction on a    *)
(* number and on a finite set, that a fold over a finite set meets its     *)
(* equation, and what sums over a finite set are.  An induction hypothesis *)
(* is a set here, so that a lemma can be cited without operators.          *)
(***************************************************************************)
EXTENDS Integers, FiniteSets, SequencesExt, FiniteSetTheorems, WellFoundedInduction, TLAPS

\* A set of naturals has a least element.
LEMMA LeastOf ==
  ASSUME NEW T \in SUBSET Nat, T # {}
  PROVE  \E x \in T : \A y \in T : x <= y
<1> DEFINE R == {ss \in Nat \X Nat : ss[1] < ss[2]}
<1>1. IsWellFoundedOn(R, Nat)
  BY NatLessThanWellFounded DEF OpToRel
<1>2. \A x, y \in Nat : y < x => <<y, x>> \in R
  OBVIOUS
<1> HIDE DEF R
<1>3. PICK x \in T : \A y \in T : ~ (<<y, x>> \in R)
  BY <1>1, WFMin, Zenon
<1>4. ASSUME NEW y \in T PROVE x <= y
  <2>1. x \in Nat /\ y \in Nat /\ ~ (y < x)
    BY <1>2, <1>3
  <2>2. QED
    BY <2>1
<1>5. QED
  BY <1>4

\* One with an upper bound has a greatest.
LEMMA GreatestOf ==
  ASSUME NEW T \in SUBSET Nat, T # {}, NEW n \in Nat, \A x \in T : x <= n
  PROVE  \E x \in T : \A y \in T : y <= x
<1> DEFINE U == {m \in Nat : \A y \in T : y <= m}
<1>1. U \in SUBSET Nat /\ n \in U
  OBVIOUS
<1>2. PICK m \in U : \A k \in U : m <= k
  BY <1>1, LeastOf
<1>3. m \in T
  <2> SUFFICES ASSUME m \notin T PROVE FALSE
    OBVIOUS
  <2>1. ASSUME NEW y \in T PROVE y <= m /\ y # m /\ y \in Nat
    BY <1>2
  <2>2. m # 0 /\ m \in Nat
    <3>1. PICK y \in T : TRUE
      OBVIOUS
    <3>2. y <= m /\ y # m /\ y \in Nat /\ m \in Nat
      BY <1>2, <2>1, <3>1
    <3>3. QED
      BY <3>2
  <2>3. m - 1 \in U
    BY <2>1, <2>2
  <2>4. QED
    BY <1>2, <2>2, <2>3
<1>4. QED
  BY <1>2, <1>3

\* Induction on a natural number.
LEMMA Induction ==
  ASSUME NEW T, 0 \in T, \A n \in Nat : n \in T => n + 1 \in T
  PROVE  Nat \subseteq T
<1> DEFINE B == Nat \ T
<1> SUFFICES ASSUME B # {} PROVE FALSE
  OBVIOUS
<1>1. PICK x \in B : \A y \in B : x <= y
  BY LeastOf
<1>2. x - 1 \in Nat \ B
  BY <1>1
<1>3. QED
  BY <1>1, <1>2

\* Induction on a finite set, by the number of its elements.
LEMMA FiniteInduction ==
  ASSUME NEW S, IsFiniteSet(S), NEW T, {} \in T,
         \A U \in SUBSET S : (U # {} /\ \A V \in SUBSET U : V # U => V \in T) => U \in T
  PROVE  S \in T
<1> DEFINE N == {n \in Nat : \A U \in SUBSET S : Cardinality(U) <= n => U \in T}
<1>0. \A U \in SUBSET S : IsFiniteSet(U) /\ Cardinality(U) \in Nat
  BY FS_Subset, FS_CardinalityType
<1>1. 0 \in N
  <2> SUFFICES ASSUME NEW U \in SUBSET S, Cardinality(U) <= 0 PROVE U \in T
    OBVIOUS
  <2>1. U = {}
    BY <1>0, FS_EmptySet
  <2>2. QED
    BY <2>1
<1>2. ASSUME NEW n \in Nat, n \in N PROVE n + 1 \in N
  <2> SUFFICES ASSUME NEW U \in SUBSET S, Cardinality(U) <= n + 1, U # {} PROVE U \in T
    OBVIOUS
  <2>1. ASSUME NEW V \in SUBSET U, V # U PROVE V \in T
    <3>1. Cardinality(V) <= Cardinality(U) /\ Cardinality(V) # Cardinality(U)
      BY <1>0, <2>1, FS_Subset
    <3>2. Cardinality(V) \in Nat /\ Cardinality(U) \in Nat
      BY <1>0
    <3>3. Cardinality(V) <= n
      BY <3>1, <3>2
    <3>4. QED
      BY <1>2, <3>3
  <2>2. QED
    BY <2>1
<1> HIDE DEF N
<1>3. Nat \subseteq N
  BY <1>1, <1>2, Induction
<1>4. QED
  BY <1>0, <1>3 DEF N

\* The values of a function on a finite set.
LEMMA ImageIsFinite ==
  ASSUME NEW f, IsFiniteSet(DOMAIN f)
  PROVE  IsFiniteSet({f[x] : x \in DOMAIN f})
<1> DEFINE S == DOMAIN f
           T == {f[x] : x \in S}
           g == [x \in S |-> f[x]]
<1>1. g \in [S -> T] /\ \A t \in T : \E x \in S : g[x] = t
  OBVIOUS
<1> HIDE DEF g, T
<1>2. g \in Surjection(S, T)
  BY <1>1 DEF Surjection
<1>3. QED
  BY <1>2, FS_Surjection DEF T

-----------------------------------------------------------------------------
(* Folds *)

Pick(S) == CHOOSE x \in S : TRUE

LEMMA Picked ==
  ASSUME NEW S, NEW U \in SUBSET S, U # {}
  PROVE  Pick(U) \in U /\ U \ {Pick(U)} \in SUBSET S
  BY DEF Pick

\* g meets the equation of the fold on the subsets of S.
Folds(g, S, b, step) ==
  \A U \in SUBSET S : g[U] = IF U = {} THEN b ELSE step[<<Pick(U), g[U \ {Pick(U)}]>>]

\* On the subsets of a finite set there is a function that meets the equation of a
\* fold, whose step is given as a function.
LEMMA FoldExists ==
  ASSUME NEW S, IsFiniteSet(S), NEW A, NEW b \in A, NEW step \in [S \X A -> A]
  PROVE  \E g \in [SUBSET S -> A] : Folds(g, S, b, step)
<1> DEFINE Next(g, U) == IF U = {} THEN b ELSE step[<<Pick(U), g[U \ {Pick(U)}]>>]
           Meets(g, n) == \A U \in SUBSET S : Cardinality(U) <= n => g[U] = Next(g, U)
           N == {n \in Nat : \E g \in [SUBSET S -> A] : Meets(g, n)}
<1>0. \A U \in SUBSET S : IsFiniteSet(U) /\ Cardinality(U) \in Nat
                          /\ (Cardinality(U) <= 0 => U = {})
  <2> TAKE U \in SUBSET S
  <2>1. IsFiniteSet(U) /\ Cardinality(U) \in Nat
    BY FS_Subset, FS_CardinalityType
  <2>2. QED
    BY <2>1, FS_EmptySet
<1>1. 0 \in N
  <2> DEFINE g == [U \in SUBSET S |-> b]
  <2>1. g \in [SUBSET S -> A]
    OBVIOUS
  <2>2. Meets(g, 0)
    BY <1>0
  <2> HIDE DEF g, Meets
  <2>3. QED
    BY <2>1, <2>2
<1>2. ASSUME NEW n \in Nat, n \in N PROVE n + 1 \in N
  <2>1. PICK g \in [SUBSET S -> A] : Meets(g, n)
    BY <1>2
  <2> DEFINE h == [U \in SUBSET S |-> Next(g, U)]
  <2>2. \A U \in SUBSET S : Next(g, U) \in A
    BY Picked
  <2>3. h \in [SUBSET S -> A] /\ \A U \in SUBSET S : h[U] = Next(g, U)
    BY <2>2
  <2>4. Meets(h, n + 1)
    <3> SUFFICES ASSUME NEW U \in SUBSET S, Cardinality(U) <= n + 1, U # {}
                 PROVE  h[U] = Next(h, U)
      BY <2>3
    <3> DEFINE V == U \ {Pick(U)}
    <3>1. Pick(U) \in U /\ V \in SUBSET S
      BY Picked
    <3>2. Cardinality(V) = Cardinality(U) - 1
      BY <1>0, <3>1, FS_RemoveElement
    <3>3. Cardinality(V) <= n
      BY <1>0, <3>2
    <3> HIDE DEF h
    <3>4. h[V] = g[V]
      BY <2>1, <2>3, <3>1, <3>3
    <3>5. QED
      BY <2>3, <3>4
  <2> HIDE DEF h, Meets
  <2>5. QED
    BY <2>3, <2>4
<1> HIDE DEF N
<1>3. Cardinality(S) \in N
  BY <1>0, <1>1, <1>2, Induction
<1>4. PICK g \in [SUBSET S -> A] : Meets(g, Cardinality(S))
  BY <1>3 DEF N
<1>5. \A U \in SUBSET S : Cardinality(U) <= Cardinality(S)
  BY FS_Subset
<1>6. Folds(g, S, b, step)
  BY <1>4, <1>5 DEF Folds
<1>7. QED
  BY <1>6

\* They all give the same value.
LEMMA FoldUnique ==
  ASSUME NEW S, IsFiniteSet(S), NEW b, NEW step, NEW g, NEW h,
         Folds(g, S, b, step), Folds(h, S, b, step)
  PROVE  g[S] = h[S]
<1> DEFINE T == {U \in SUBSET S : g[U] = h[U]}
<1>1. {} \in T
  BY DEF Folds
<1>2. ASSUME NEW U \in SUBSET S, U # {}, \A V \in SUBSET U : V # U => V \in T
      PROVE  U \in T
  <2>1. U \ {Pick(U)} \in SUBSET U /\ U \ {Pick(U)} # U
    BY <1>2, Picked
  <2>2. g[U \ {Pick(U)}] = h[U \ {Pick(U)}]
    BY <1>2, <2>1
  <2>3. QED
    BY <1>2, <2>2 DEF Folds
<1> HIDE DEF T
<1>3. S \in T
  BY <1>1, <1>2, FiniteInduction
<1>4. QED
  BY <1>3 DEF T

-----------------------------------------------------------------------------
(* Sums *)

\* g gives the sum of f over each subset of S.
Adds(g, f, S) ==
  \A U \in SUBSET S : g[U] = IF U = {} THEN 0 ELSE g[U \ {Pick(U)}] + f[Pick(U)]
Sums(g, f, S) == g \in [SUBSET S -> Nat] /\ Adds(g, f, S)
Counts(f, S) == \A x \in S : f[x] \in Nat
TakesOut(g, f, S) == \A U \in SUBSET S : \A x \in U : g[U] = g[U \ {x}] + f[x]

LEMMA SumsExist ==
  ASSUME NEW S, IsFiniteSet(S), NEW f, Counts(f, S)
  PROVE  \E g : Sums(g, f, S)
<1> USE DEF Counts
<1> DEFINE step == [p \in S \X Nat |-> p[2] + f[p[1]]]
<1>1. step \in [S \X Nat -> Nat]
  OBVIOUS
<1>2. \A x \in S, n \in Nat : step[<<x, n>>] = n + f[x]
  OBVIOUS
<1> HIDE DEF step
<1>3. PICK g \in [SUBSET S -> Nat] : Folds(g, S, 0, step)
  BY <1>1, FoldExists, 0 \in Nat, Zenon
<1>4. ASSUME NEW U \in SUBSET S, U # {} PROVE g[U] = g[U \ {Pick(U)}] + f[Pick(U)]
  <2>1. Pick(U) \in S /\ U \ {Pick(U)} \in SUBSET S
    BY <1>4, Picked
  <2>2. g[U \ {Pick(U)}] \in Nat
    BY <2>1
  <2>3. QED
    BY <1>2, <1>3, <1>4, <2>1, <2>2 DEF Folds
<1>5. Sums(g, f, S)
  BY <1>3, <1>4 DEF Sums, Adds, Folds
<1>6. QED
  BY <1>5

\* It does not matter which element is taken out.
LEMMA SumWithout ==
  ASSUME NEW S, IsFiniteSet(S), NEW f, Counts(f, S), NEW g, Sums(g, f, S)
  PROVE  TakesOut(g, f, S)
<1> USE DEF Counts
<1> DEFINE T == {U \in SUBSET S : \A x \in U : g[U] = g[U \ {x}] + f[x]}
<1>0. /\ \A U \in SUBSET S : g[U] \in Nat
      /\ \A U \in SUBSET S : g[U] = IF U = {} THEN 0 ELSE g[U \ {Pick(U)}] + f[Pick(U)]
  BY DEF Sums, Adds
<1> SUFFICES ASSUME NEW W \in SUBSET S PROVE W \in T
  BY DEF TakesOut
<1>1. {} \in T
  OBVIOUS
<1>2. ASSUME NEW U \in SUBSET W, U # {}, \A V \in SUBSET U : V # U => V \in T
      PROVE  U \in T
  <2> SUFFICES ASSUME NEW x \in U PROVE g[U] = g[U \ {x}] + f[x]
    OBVIOUS
  <2> DEFINE y == Pick(U)
  <2>1. y \in U /\ g[U] = g[U \ {y}] + f[y]
    BY <1>0, <1>2, Picked
  <2> HIDE DEF y
  <2>2. CASE x = y
    BY <2>1, <2>2
  <2>3. CASE x # y
    <3>1. U \ {y} \in T /\ U \ {x} \in T
      BY <1>2, <2>1
    <3>2. g[U \ {y}] = g[(U \ {y}) \ {x}] + f[x] /\ g[U \ {x}] = g[(U \ {x}) \ {y}] + f[y]
      BY <2>1, <2>3, <3>1
    <3>3. (U \ {y}) \ {x} = (U \ {x}) \ {y}
      OBVIOUS
    <3>4. f[x] \in Nat /\ f[y] \in Nat /\ g[(U \ {x}) \ {y}] \in Nat
      BY <1>0, <2>1
    <3> DEFINE r == g[(U \ {x}) \ {y}]
    <3>5. /\ g[U] = g[U \ {y}] + f[y] /\ g[U \ {y}] = r + f[x] /\ g[U \ {x}] = r + f[y]
          /\ r \in Nat
      BY <2>1, <3>2, <3>3, <3>4
    <3> HIDE DEF r
    <3>6. QED
      BY <3>4, <3>5
  <2>4. QED
    BY <2>2, <2>3
<1> HIDE DEF T
<1>3. IsFiniteSet(W)
  BY FS_Subset
<1>4. QED
  BY <1>1, <1>2, <1>3, FiniteInduction

\* The sum over a part is no greater.
LEMMA SumOfPart ==
  ASSUME NEW S, IsFiniteSet(S), NEW f, Counts(f, S), NEW g, Sums(g, f, S),
         NEW V \in SUBSET S
  PROVE  g[V] <= g[S]
<1> DEFINE T == {U \in SUBSET S : g[V \cap U] <= g[U]}
<1>0. /\ \A U \in SUBSET S : g[U] \in Nat
      /\ \A U \in SUBSET S : \A x \in U : g[U] = g[U \ {x}] + f[x]
  <2>1. \A U \in SUBSET S : \A x \in U : g[U] = g[U \ {x}] + f[x]
    <3>1. TakesOut(g, f, S)
      BY SumWithout
    <3>2. QED
      BY <3>1 DEF TakesOut
  <2>2. QED
    BY <2>1 DEF Sums
<1>1. {} \in T
  <2>1. V \cap {} = {} /\ g[{}] \in Nat
    BY <1>0
  <2>2. QED
    BY <2>1
<1>2. ASSUME NEW U \in SUBSET S, U # {}, \A W \in SUBSET U : W # U => W \in T
      PROVE  U \in T
  <2>1. PICK x \in U : TRUE
    BY <1>2
  <2>2. U \ {x} \in T
    BY <1>2
  <2>3. g[V \cap (U \ {x})] <= g[U \ {x}] /\ g[U] = g[U \ {x}] + f[x]
    BY <1>0, <2>2
  <2>4. f[x] \in Nat /\ g[U \ {x}] \in Nat /\ V \cap (U \ {x}) \in SUBSET S /\ V \cap U \in SUBSET S
    BY <1>0 DEF Counts
  <2>5. g[V \cap U] <= g[V \cap (U \ {x})] + f[x]
    <3>1. CASE x \in V
      <4>1. (V \cap U) \ {x} = V \cap (U \ {x}) /\ x \in V \cap U
        BY <3>1
      <4>2. g[V \cap U] = g[V \cap (U \ {x})] + f[x]
        BY <1>0, <2>4, <4>1
      <4>3. QED
        BY <1>0, <2>4, <4>2
    <3>2. CASE x \notin V
      <4>1. V \cap U = V \cap (U \ {x})
        BY <3>2
      <4>2. g[V \cap U] = g[V \cap (U \ {x})] /\ g[V \cap U] \in Nat /\ f[x] \in Nat
        BY <1>0, <2>4, <4>1
      <4>3. QED
        BY <4>2
    <3>3. QED
      BY <3>1, <3>2
  <2>6. g[V \cap U] <= g[U]
    BY <1>0, <2>3, <2>4, <2>5
  <2>7. QED
    BY <2>6
<1> HIDE DEF T
<1>3. S \in T
  BY <1>1, <1>2, FiniteInduction
<1>4. V \cap S = V
  OBVIOUS
<1>5. QED
  BY <1>3, <1>4 DEF T

\* It is the only one.
LEMMA SumUnique ==
  ASSUME NEW S, IsFiniteSet(S), NEW f, NEW g, NEW h, Adds(g, f, S), Adds(h, f, S)
  PROVE  g[S] = h[S]
<1> DEFINE T == {U \in SUBSET S : g[U] = h[U]}
<1>1. {} \in T
  BY DEF Adds
<1>2. ASSUME NEW U \in SUBSET S, U # {}, \A V \in SUBSET U : V # U => V \in T
      PROVE  U \in T
  <2>1. U \ {Pick(U)} \in SUBSET U /\ U \ {Pick(U)} # U
    BY <1>2, Picked
  <2>2. g[U \ {Pick(U)}] = h[U \ {Pick(U)}]
    BY <1>2, <2>1
  <2>3. QED
    BY <1>2, <2>2 DEF Adds
<1> HIDE DEF T
<1>3. S \in T
  BY <1>1, <1>2, FiniteInduction
<1>4. QED
  BY <1>3 DEF T

\* FoldSet with an addition computes it.
LEMMA SumIsFold ==
  ASSUME NEW S, IsFiniteSet(S), NEW f, Counts(f, S), NEW g, Sums(g, f, S)
  PROVE  FoldSet(LAMBDA x, sum : sum + f[x], 0, S) = g[S]
<1> DEFINE iter[U \in SUBSET S] == IF U = {} THEN 0 ELSE iter[U \ {Pick(U)}] + f[Pick(U)]
<1>1. FoldSet(LAMBDA x, sum : sum + f[x], 0, S) = iter[S]
  BY DEF FoldSet, MapThenFoldSet, Pick
<1>2. g = [U \in SUBSET S |-> IF U = {} THEN 0 ELSE g[U \ {Pick(U)}] + f[Pick(U)]]
  BY DEF Sums, Adds
<1>3. iter = [U \in SUBSET S |-> IF U = {} THEN 0 ELSE iter[U \ {Pick(U)}] + f[Pick(U)]]
  BY <1>2
<1> HIDE DEF iter
<1>4. Adds(iter, f, S)
  BY <1>3 DEF Adds
<1>5. iter[S] = g[S]
  BY <1>4, SumUnique DEF Sums
<1>6. QED
  BY <1>1, <1>5

-----------------------------------------------------------------------------
(* Sequences *)

\* FoldSet with Append lists each element of a finite set, and nothing else.
LEMMA EachIsListed ==
  ASSUME NEW S, IsFiniteSet(S)
  PROVE  /\ FoldSet(LAMBDA x, s : Append(s, x), <<>>, S) \in Seq(S)
         /\ \A x \in S : \E i \in DOMAIN FoldSet(LAMBDA y, s : Append(s, y), <<>>, S) :
              FoldSet(LAMBDA y, s : Append(s, y), <<>>, S)[i] = x
<1> DEFINE step == [p \in S \X Seq(S) |-> Append(p[2], p[1])]
           iter[U \in SUBSET S] == IF U = {} THEN <<>> ELSE Append(iter[U \ {Pick(U)}], Pick(U))
           Appends(g) == \A U \in SUBSET S :
                           g[U] = IF U = {} THEN <<>> ELSE Append(g[U \ {Pick(U)}], Pick(U))
<1>1. FoldSet(LAMBDA x, s : Append(s, x), <<>>, S) = iter[S]
  BY DEF FoldSet, MapThenFoldSet, Pick
<1>2. step \in [S \X Seq(S) -> Seq(S)] /\ \A x \in S, s \in Seq(S) : step[<<x, s>>] = Append(s, x)
  OBVIOUS
<1> HIDE DEF step
<1>3. <<>> \in Seq(S)
  OBVIOUS
<1>4. PICK g \in [SUBSET S -> Seq(S)] : Folds(g, S, <<>>, step)
  BY <1>2, <1>3, FoldExists, Zenon
<1>5. Appends(g)
  <2> SUFFICES ASSUME NEW U \in SUBSET S
               PROVE  g[U] = IF U = {} THEN <<>> ELSE Append(g[U \ {Pick(U)}], Pick(U))
    OBVIOUS
  <2>1. CASE U = {}
    BY <1>4, <2>1 DEF Folds
  <2>2. CASE U # {}
    <3>1. Pick(U) \in S /\ U \ {Pick(U)} \in SUBSET S
      BY <2>2, Picked
    <3>2. g[U \ {Pick(U)}] \in Seq(S)
      BY <3>1
    <3>3. g[U] = step[<<Pick(U), g[U \ {Pick(U)}]>>]
      BY <1>4, <2>2 DEF Folds
    <3>4. QED
      BY <1>2, <2>2, <3>1, <3>2, <3>3
  <2>3. QED
    BY <2>1, <2>2
<1>6. Appends(iter)
  <2>1. g = [U \in SUBSET S |-> IF U = {} THEN <<>> ELSE Append(g[U \ {Pick(U)}], Pick(U))]
    BY <1>5
  <2>2. iter = [U \in SUBSET S |-> IF U = {} THEN <<>> ELSE Append(iter[U \ {Pick(U)}], Pick(U))]
    BY <2>1
  <2> HIDE DEF iter
  <2>3. QED
    BY <2>2
<1> HIDE DEF iter
<1>7. iter[S] = g[S]
  <2> DEFINE T == {U \in SUBSET S : iter[U] = g[U]}
  <2>1. {} \in T
    BY <1>5, <1>6
  <2>2. ASSUME NEW U \in SUBSET S, U # {}, \A V \in SUBSET U : V # U => V \in T
        PROVE  U \in T
    <3>1. U \ {Pick(U)} \in SUBSET U /\ U \ {Pick(U)} # U
      BY <2>2, Picked
    <3>2. iter[U \ {Pick(U)}] = g[U \ {Pick(U)}]
      BY <2>2, <3>1
    <3>3. QED
      BY <1>5, <1>6, <2>2, <3>2
  <2> HIDE DEF T
  <2>3. S \in T
    BY <2>1, <2>2, FiniteInduction
  <2>4. QED
    BY <2>3 DEF T
<1>8. \A x \in S : \E i \in DOMAIN g[S] : g[S][i] = x
  <2> DEFINE T == {U \in SUBSET S : \A x \in U : \E i \in DOMAIN g[U] : g[U][i] = x}
  <2>1. {} \in T
    OBVIOUS
  <2>2. ASSUME NEW U \in SUBSET S, U # {}, \A V \in SUBSET U : V # U => V \in T
        PROVE  U \in T
    <3> DEFINE y == Pick(U)
               s == g[U \ {y}]
    <3>1. y \in U /\ U \ {y} \in SUBSET U /\ U \ {y} # U
      BY <2>2, Picked
    <3>2. s \in Seq(S) /\ g[U] = Append(s, y) /\ \A x \in U \ {y} : \E i \in DOMAIN s : s[i] = x
      BY <1>5, <2>2, <3>1
    <3> HIDE DEF s, y
    <3>3. /\ DOMAIN s = 1 .. Len(s) /\ Len(s) \in Nat
          /\ DOMAIN g[U] = 1 .. Len(s) + 1 /\ g[U][Len(s) + 1] = y
          /\ \A i \in 1 .. Len(s) : g[U][i] = s[i]
      BY <3>1, <3>2
    <3>4. \A x \in U : \E i \in DOMAIN g[U] : g[U][i] = x
      BY <3>2, <3>3
    <3>5. QED
      BY <3>4
  <2> HIDE DEF T
  <2>3. S \in T
    BY <2>1, <2>2, FiniteInduction
  <2>4. QED
    BY <2>3 DEF T
<1>9. QED
  BY <1>1, <1>7, <1>8
==============================================================================
