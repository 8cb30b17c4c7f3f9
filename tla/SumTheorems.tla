---------------------------- MODULE SumTheorems ----------------------------
(***************************************************************************)
(* What the proofs need to know of the sums that the models take with      *)
(* MapThenSumSet: how a sum over a finite set changes when an element      *)
(* joins or leaves the set, or when one of its values changes.             *)
(*                                                                         *)
(* A fold is a recursive function on the subsets of a set.  That there is  *)
(* such a function, and what it computes, is shown by induction; the       *)
(* induction is over a set of numbers or of finite sets, which has a least *)
(* element because the order of the naturals is well founded.              *)
(***************************************************************************)
EXTENDS Sums, FiniteSetTheorems, WellFoundedInduction, TLAPS

(***************************************************************************)
(* Induction.                                                              *)
(***************************************************************************)

LEMMA LeastNumber ==
    ASSUME NEW N \in SUBSET Nat, N # {}
    PROVE  \E n \in N : \A m \in N : n <= m
<1> DEFINE R == {ss \in Nat \X Nat : ss[1] < ss[2]}
<1>1. IsWellFoundedOn(R, Nat)
  BY NatLessThanWellFounded DEF OpToRel
<1>2. \A x, y \in Nat : <<y, x>> \in R <=> y < x
  OBVIOUS
<1> HIDE DEF R
<1>3. PICK n \in N : \A m \in N : ~ (<<m, n>> \in R)
  BY <1>1, WFMin
<1>4. ASSUME NEW m \in N
      PROVE  n <= m
  <2>1. n \in Nat /\ m \in Nat /\ ~ (m < n)
    BY <1>2, <1>3
  <2> QED
    BY <2>1
<1> QED
  BY <1>4

LEMMA NaturalInduction ==
    ASSUME NEW N, 0 \in N, \A n \in Nat : n \in N => n + 1 \in N
    PROVE  Nat \subseteq N
<1> SUFFICES ASSUME Nat \ N # {}
             PROVE  FALSE
  OBVIOUS
<1>1. PICK n \in Nat \ N : \A m \in Nat \ N : n <= m
  BY LeastNumber
<1>2. n - 1 \in Nat /\ n - 1 \notin Nat \ N
  BY <1>1
<1> QED
  BY <1>1, <1>2

LEMMA FiniteInduction ==
    ASSUME NEW S, IsFiniteSet(S), NEW F, {} \in F,
           \A T \in SUBSET S, x \in S : T \in F /\ x \notin T => T \cup {x} \in F
    PROVE  S \in F
<1> DEFINE N == {n \in Nat : \E T \in SUBSET S : T \notin F /\ Cardinality(T) = n}
<1>1. SUFFICES ASSUME S \notin F
               PROVE  FALSE
  OBVIOUS
<1>2. Cardinality(S) \in N
  BY <1>1, FS_CardinalityType
<1>3. PICK n \in N : \A m \in N : n <= m
  <2> HIDE DEF N
  <2>1. N \in SUBSET Nat
    BY DEF N
  <2> QED
    BY <1>2, <2>1, LeastNumber
<1>4. PICK T \in SUBSET S : T \notin F /\ Cardinality(T) = n
  BY <1>3
<1>5. PICK x : x \in T
  BY <1>4
<1>6. Cardinality(T \ {x}) = n - 1 /\ Cardinality(T \ {x}) \in Nat
  BY <1>4, <1>5, FS_Subset, FS_RemoveElement, FS_CardinalityType
<1>7. T \ {x} \in F
  BY <1>3, <1>6
<1>8. (T \ {x}) \cup {x} = T /\ x \in S /\ x \notin T \ {x} /\ T \ {x} \in SUBSET S
  BY <1>5
<1> QED
  BY <1>4, <1>7, <1>8

(***************************************************************************)
(* The fold.                                                               *)
(***************************************************************************)

(* The sum of some of the values of f.                                     *)
SumOver(f, S) == MapThenSumSet(LAMBDA x : f[x], S)

Chosen(s) == CHOOSE x \in s : TRUE

Defines(f, g, S) ==
    g = [s \in SUBSET S |-> IF s = {} THEN 0 ELSE f[Chosen(s)] + g[s \ {Chosen(s)}]]

LEMMA OverIsFold == \A f, S : SumOver(f, S) = (CHOOSE g : Defines(f, g, S))[S]
  BY DEF SumOver, MapThenSumSet, MapThenFoldSet, Defines, Chosen

LEMMA ChosenIn == \A s : s # {} => Chosen(s) \in s
  BY DEF Chosen

LEMMA Smaller ==
    ASSUME NEW S, IsFiniteSet(S), NEW x \in S
    PROVE  Cardinality(S \ {x}) = Cardinality(S) - 1 /\ IsFiniteSet(S \ {x})
  BY FS_RemoveElement

LEMMA FoldIsUnique ==
    ASSUME NEW S, NEW T, NEW U, U \subseteq S, U \subseteq T, IsFiniteSet(U),
           NEW f, NEW h, \A x \in U : f[x] = h[x],
           NEW g, NEW k, Defines(f, g, S), Defines(h, k, T)
    PROVE  g[U] = k[U]
<1> DEFINE N == {n \in Nat : \A s \in SUBSET U : Cardinality(s) = n => g[s] = k[s]}
<1>0. \A s \in SUBSET U :
         /\ g[s] = IF s = {} THEN 0 ELSE f[Chosen(s)] + g[s \ {Chosen(s)}]
         /\ k[s] = IF s = {} THEN 0 ELSE h[Chosen(s)] + k[s \ {Chosen(s)}]
  BY DEF Defines
<1>1. 0 \in N
  <2>1. \A s \in SUBSET U : Cardinality(s) = 0 => s = {}
    BY FS_EmptySet, FS_Subset
  <2> QED
    BY <1>0, <2>1
<1>2. ASSUME NEW n \in Nat, n \in N
      PROVE  n + 1 \in N
  <2> SUFFICES ASSUME NEW s \in SUBSET U, Cardinality(s) = n + 1
               PROVE  g[s] = k[s]
    OBVIOUS
  <2>1. s # {}
    BY FS_EmptySet
  <2>2. Chosen(s) \in s
    BY <2>1, ChosenIn
  <2>3. Cardinality(s \ {Chosen(s)}) = n
    BY <2>2, FS_Subset, Smaller
  <2>4. g[s \ {Chosen(s)}] = k[s \ {Chosen(s)}]
    BY <1>2, <2>3
  <2> QED
    BY <1>0, <2>1, <2>2, <2>4
<1>3. Nat \subseteq N
  <2> HIDE DEF N
  <2> QED
    BY <1>1, <1>2, NaturalInduction
<1> QED
  BY <1>3, FS_CardinalityType

(* The numbers up to which the subsets of S have a fold.                   *)
LEMMA FoldExists ==
    ASSUME NEW S, IsFiniteSet(S), NEW f, \A x \in S : f[x] \in Int
    PROVE  \E g \in [SUBSET S -> Int] : Defines(f, g, S)
<1> DEFINE D(n) == {s \in SUBSET S : Cardinality(s) <= n}
           R(g, s) == IF s = {} THEN 0 ELSE f[Chosen(s)] + g[s \ {Chosen(s)}]
           N == {n \in Nat : \E g \in [D(n) -> Int] : g = [s \in D(n) |-> R(g, s)]}
<1>f. \A s \in SUBSET S : IsFiniteSet(s) /\ Cardinality(s) \in Nat
  BY FS_Subset, FS_CardinalityType
<1>0. \A s \in SUBSET S : s # {} => /\ Chosen(s) \in S
                                   /\ s \ {Chosen(s)} \in SUBSET S
                                   /\ Cardinality(s \ {Chosen(s)}) = Cardinality(s) - 1
  BY ChosenIn, Smaller, <1>f
<1>1. 0 \in N
  <2> DEFINE g == [s \in D(0) |-> 0]
  <2>1. \A s \in D(0) : s = {}
    BY <1>f, FS_EmptySet
  <2>2. g \in [D(0) -> Int] /\ g = [s \in D(0) |-> R(g, s)]
    BY <2>1
  <2> QED
    BY <2>2
<1>2. ASSUME NEW n \in Nat, n \in N
      PROVE  n + 1 \in N
  <2>1. PICK g \in [D(n) -> Int] : g = [s \in D(n) |-> R(g, s)]
    BY <1>2
  <2> DEFINE h == [s \in D(n + 1) |-> R(g, s)]
  <2>2. \A s \in D(n + 1) : s # {} => s \ {Chosen(s)} \in D(n)
    BY <1>0, <1>f
  <2>3. h \in [D(n + 1) -> Int]
    <3>1. ASSUME NEW s \in D(n + 1)
          PROVE  R(g, s) \in Int
      <4>1. CASE s = {}
        BY <4>1
      <4>2. CASE s # {}
        <5>1. f[Chosen(s)] \in Int
          BY <4>2, <1>0
        <5>2. g[s \ {Chosen(s)}] \in Int
          <6> HIDE DEF D
          <6> QED
            BY <4>2, <2>1, <2>2
        <5> QED
          BY <4>2, <5>1, <5>2
      <4> QED
        BY <4>1, <4>2
    <3> HIDE DEF R
    <3> QED
      BY <3>1
  <2>4. \A s \in D(n) : s \in D(n + 1) /\ h[s] = g[s]
    <3>1. \A s \in D(n) : g[s] = R(g, s)
      <4> HIDE DEF R, D
      <4> QED
        BY <2>1
    <3>2. \A s \in D(n) : s \in D(n + 1)
      BY <1>f
    <3> HIDE DEF R, D
    <3> QED
      BY <3>1, <3>2
  <2>5. \A s \in D(n + 1) : R(h, s) = R(g, s)
    BY <2>2, <2>4
  <2>6. h = [s \in D(n + 1) |-> R(h, s)]
    <3> HIDE DEF R, D
    <3> QED
      BY <2>5
  <2>7. \E k \in [D(n + 1) -> Int] : k = [s \in D(n + 1) |-> R(k, s)]
    <3> HIDE DEF R, D, h
    <3> QED
      BY <2>3, <2>6
  <2> HIDE DEF h, D, R
  <2> QED
    BY <2>7
<1>3. Cardinality(S) \in N
  <2>1. Nat \subseteq N
    <3> HIDE DEF N
    <3> QED
      BY <1>1, <1>2, NaturalInduction
  <2> QED
    BY <1>f, <2>1
<1>4. D(Cardinality(S)) = SUBSET S
  BY FS_Subset
<1>5. PICK g \in [SUBSET S -> Int] : g = [s \in SUBSET S |-> R(g, s)]
  <2> HIDE DEF D, R
  <2> QED
    BY <1>3, <1>4
<1> QED
  BY <1>5 DEF Defines

LEMMA OverOfSubset ==
    ASSUME NEW S, IsFiniteSet(S), NEW f, \A x \in S : f[x] \in Int
    PROVE  \E g : /\ Defines(f, g, S)
                  /\ \A T \in SUBSET S : g[T] \in Int /\ g[T] = SumOver(f, T)
<1>1. PICK g \in [SUBSET S -> Int] : Defines(f, g, S)
  BY FoldExists
<1>2. ASSUME NEW T \in SUBSET S
      PROVE  g[T] = SumOver(f, T)
  <2>1. IsFiniteSet(T)
    BY FS_Subset
  <2>2. \E h : Defines(f, h, T)
    BY <2>1, FoldExists
  <2>3. Defines(f, CHOOSE h : Defines(f, h, T), T)
    BY <2>2
  <2> QED
    BY <1>1, <2>1, <2>3, FoldIsUnique, OverIsFold
<1> QED
  BY <1>1, <1>2

(***************************************************************************)
(* Sums.                                                                   *)
(***************************************************************************)

LEMMA OverType ==
    ASSUME NEW S, IsFiniteSet(S), NEW f, \A x \in S : f[x] \in Int
    PROVE  SumOver(f, S) \in Int
<1>1. PICK g : \A T \in SUBSET S : g[T] \in Int /\ g[T] = SumOver(f, T)
  BY OverOfSubset
<1> QED
  BY <1>1

LEMMA OverEmpty == \A f : SumOver(f, {}) = 0
<1> SUFFICES ASSUME NEW f
             PROVE  SumOver(f, {}) = 0
  OBVIOUS
<1>1. PICK g : Defines(f, g, {}) /\ g[{}] = SumOver(f, {})
  BY OverOfSubset, FS_EmptySet
<1> QED
  BY <1>1 DEF Defines

LEMMA OverOfChosen ==
    ASSUME NEW S, IsFiniteSet(S), NEW f, \A x \in S : f[x] \in Int, S # {}
    PROVE  SumOver(f, S) = f[Chosen(S)] + SumOver(f, S \ {Chosen(S)})
<1>1. PICK g : Defines(f, g, S) /\ \A T \in SUBSET S : g[T] = SumOver(f, T)
  BY OverOfSubset
<1>2. g[S] = f[Chosen(S)] + g[S \ {Chosen(S)}]
  BY <1>1 DEF Defines
<1> QED
  BY <1>1, <1>2

LEMMA OverRemove ==
    ASSUME NEW S, IsFiniteSet(S), NEW f, \A x \in S : f[x] \in Int, NEW x \in S
    PROVE  SumOver(f, S) = f[x] + SumOver(f, S \ {x})
<1> DEFINE N == {n \in Nat : \A T \in SUBSET S : Cardinality(T) = n =>
                              \A y \in T : SumOver(f, T) = f[y] + SumOver(f, T \ {y})}
<1>f. \A T \in SUBSET S : /\ IsFiniteSet(T) /\ Cardinality(T) \in Nat
                          /\ SumOver(f, T) \in Int
                          /\ \A y \in T : Cardinality(T \ {y}) = Cardinality(T) - 1
  BY FS_Subset, FS_CardinalityType, OverType, Smaller
<1>1. 0 \in N
  <2>1. \A T \in SUBSET S : Cardinality(T) = 0 => T = {}
    BY <1>f, FS_EmptySet
  <2> QED
    BY <2>1
<1>2. ASSUME NEW n \in Nat, n \in N
      PROVE  n + 1 \in N
  <2> SUFFICES ASSUME NEW T \in SUBSET S, Cardinality(T) = n + 1, NEW y \in T
               PROVE  SumOver(f, T) = f[y] + SumOver(f, T \ {y})
    OBVIOUS
  <2> DEFINE c == Chosen(T)
  <2>1. c \in T /\ SumOver(f, T) = f[c] + SumOver(f, T \ {c})
    BY ChosenIn, OverOfChosen, <1>f
  <2> HIDE DEF c
  <2>2. CASE c = y
    BY <2>1, <2>2
  <2>3. CASE c # y
    <3>1. Cardinality(T \ {c}) = n /\ Cardinality(T \ {y}) = n
      BY <1>f, <2>1
    <3>2. y \in T \ {c} /\ c \in T \ {y}
      BY <2>1, <2>3
    <3>3. SumOver(f, T \ {c}) = f[y] + SumOver(f, (T \ {c}) \ {y})
      BY <1>2, <3>1, <3>2
    <3>4. SumOver(f, T \ {y}) = f[c] + SumOver(f, (T \ {y}) \ {c})
      BY <1>2, <3>1, <3>2
    <3>5. SumOver(f, (T \ {c}) \ {y}) = SumOver(f, (T \ {y}) \ {c})
      <4>1. (T \ {c}) \ {y} = (T \ {y}) \ {c}
        OBVIOUS
      <4> QED
        BY <4>1
    <3>6. f[c] \in Int /\ f[y] \in Int /\ SumOver(f, (T \ {y}) \ {c}) \in Int
      BY <1>f, <2>1
    <3> QED
      BY <2>1, <3>3, <3>4, <3>5, <3>6
  <2> QED
    BY <2>2, <2>3
<1>3. Nat \subseteq N
  <2> HIDE DEF N
  <2> QED
    BY <1>1, <1>2, NaturalInduction
<1> QED
  BY <1>f, <1>3

LEMMA OverAdd ==
    ASSUME NEW S, IsFiniteSet(S), NEW f, NEW x, x \notin S,
           \A y \in S \cup {x} : f[y] \in Int
    PROVE  SumOver(f, S \cup {x}) = f[x] + SumOver(f, S)
<1>1. IsFiniteSet(S \cup {x}) /\ (S \cup {x}) \ {x} = S
  BY FS_AddElement
<1> QED
  BY <1>1, OverRemove

(* Only the values on the set count.                                       *)
LEMMA OverSame ==
    ASSUME NEW S, IsFiniteSet(S), NEW f, NEW g,
           \A x \in S : f[x] = g[x] /\ f[x] \in Int
    PROVE  SumOver(f, S) = SumOver(g, S)
<1>1. PICK h : Defines(f, h, S) /\ h[S] = SumOver(f, S)
  BY OverOfSubset
<1>2. PICK k : Defines(g, k, S) /\ k[S] = SumOver(g, S)
  BY OverOfSubset
<1>3. S \subseteq S /\ \A x \in S : f[x] = g[x]
  OBVIOUS
<1>4. h[S] = k[S]
  BY <1>1, <1>2, <1>3, FoldIsUnique
<1> QED
  BY <1>1, <1>2, <1>4

(* One value changes.                                                      *)
LEMMA OverChange ==
    ASSUME NEW S, IsFiniteSet(S), NEW f, NEW g, NEW x \in S,
           \A y \in S : f[y] \in Int /\ g[y] \in Int,
           \A y \in S \ {x} : f[y] = g[y]
    PROVE  SumOver(g, S) = SumOver(f, S) + g[x] - f[x]
<1>1. IsFiniteSet(S \ {x})
  BY FS_RemoveElement
<1>2. SumOver(f, S \ {x}) = SumOver(g, S \ {x}) /\ SumOver(g, S \ {x}) \in Int
  BY <1>1, OverSame, OverType
<1>3. SumOver(f, S) = f[x] + SumOver(f, S \ {x}) /\ SumOver(g, S) = g[x] + SumOver(g, S \ {x})
  BY OverRemove
<1> QED
  BY <1>2, <1>3

(* Elements without a value may be left out.                               *)
LEMMA OverWithout ==
    ASSUME NEW S, IsFiniteSet(S), NEW T \in SUBSET S, NEW f,
           \A x \in S : f[x] \in Int, \A x \in S \ T : f[x] = 0
    PROVE  SumOver(f, S) = SumOver(f, T)
<1> DEFINE F == {U \in SUBSET (S \ T) : SumOver(f, T \cup U) = SumOver(f, T)}
<1>1. {} \in F
  <2>1. T \cup {} = T
    OBVIOUS
  <2> QED
    BY <2>1
<1>2. ASSUME NEW U \in SUBSET (S \ T), NEW x \in S \ T, U \in F, x \notin U
      PROVE  U \cup {x} \in F
  <2>0. T \cup U \in SUBSET S /\ U \cup {x} \in SUBSET (S \ T)
    OBVIOUS
  <2>1. IsFiniteSet(T \cup U) /\ x \notin T \cup U
    BY <1>2, <2>0, FS_Subset
  <2>2. SumOver(f, (T \cup U) \cup {x}) = f[x] + SumOver(f, T \cup U)
    BY <2>1, OverAdd
  <2>3. SumOver(f, (T \cup U) \cup {x}) = SumOver(f, T \cup (U \cup {x}))
    <3>1. (T \cup U) \cup {x} = T \cup (U \cup {x})
      OBVIOUS
    <3> QED
      BY <3>1
  <2>4. SumOver(f, T \cup U) \in Int
    BY <2>1, OverType
  <2>5. SumOver(f, T \cup (U \cup {x})) = SumOver(f, T)
    BY <1>2, <2>2, <2>3, <2>4
  <2> QED
    BY <2>0, <2>5
<1>3. S \ T \in F
  <2>1. IsFiniteSet(S \ T)
    BY FS_Subset
  <2> HIDE DEF F
  <2> QED
    BY <1>1, <1>2, <2>1, FiniteInduction
<1>4. T \cup (S \ T) = S
  OBVIOUS
<1> QED
  BY <1>3, <1>4

LEMMA OverOrdered ==
    ASSUME NEW S, IsFiniteSet(S), NEW f, NEW g,
           \A x \in S : f[x] \in Int /\ g[x] \in Int /\ f[x] <= g[x]
    PROVE  SumOver(f, S) <= SumOver(g, S)
<1> DEFINE F == {U \in SUBSET S : SumOver(f, U) <= SumOver(g, U)}
<1>1. {} \in F
  BY OverEmpty
<1>2. ASSUME NEW U \in SUBSET S, NEW x \in S, U \in F, x \notin U
      PROVE  U \cup {x} \in F
  <2>1. IsFiniteSet(U)
    BY FS_Subset
  <2>2. SumOver(f, U \cup {x}) = f[x] + SumOver(f, U) /\ SumOver(g, U \cup {x}) = g[x] + SumOver(g, U)
    <3>1. \A y \in U \cup {x} : f[y] \in Int /\ g[y] \in Int
      OBVIOUS
    <3>2. SumOver(f, U \cup {x}) = f[x] + SumOver(f, U)
      BY <1>2, <2>1, <3>1, OverAdd
    <3>3. SumOver(g, U \cup {x}) = g[x] + SumOver(g, U)
      BY <1>2, <2>1, <3>1, OverAdd
    <3> QED
      BY <3>2, <3>3
  <2>3. SumOver(f, U) \in Int /\ SumOver(g, U) \in Int
    BY <2>1, OverType
  <2> QED
    BY <1>2, <2>2, <2>3
<1>3. S \in F
  <2> HIDE DEF F
  <2> QED
    BY <1>1, <1>2, FiniteInduction
<1> QED
  BY <1>3

(* Two sums are added up.                                                  *)
LEMMA OverPlus ==
    ASSUME NEW S, IsFiniteSet(S), NEW f, NEW g, NEW h,
           \A x \in S : f[x] \in Int /\ g[x] \in Int /\ h[x] = f[x] + g[x]
    PROVE  SumOver(h, S) = SumOver(f, S) + SumOver(g, S)
<1> DEFINE F == {U \in SUBSET S : SumOver(h, U) = SumOver(f, U) + SumOver(g, U)}
<1>1. {} \in F
  BY OverEmpty
<1>2. ASSUME NEW U \in SUBSET S, NEW x \in S, U \in F, x \notin U
      PROVE  U \cup {x} \in F
  <2>1. IsFiniteSet(U)
    BY FS_Subset
  <2>2. \A y \in U \cup {x} : f[y] \in Int /\ g[y] \in Int /\ h[y] \in Int
    OBVIOUS
  <2>3. SumOver(f, U \cup {x}) = f[x] + SumOver(f, U)
    BY <1>2, <2>1, <2>2, OverAdd
  <2>4. SumOver(g, U \cup {x}) = g[x] + SumOver(g, U)
    BY <1>2, <2>1, <2>2, OverAdd
  <2>5. SumOver(h, U \cup {x}) = h[x] + SumOver(h, U)
    BY <1>2, <2>1, <2>2, OverAdd
  <2>6. SumOver(f, U) \in Int /\ SumOver(g, U) \in Int
    BY <2>1, OverType
  <2> QED
    BY <1>2, <2>2, <2>3, <2>4, <2>5, <2>6
<1>3. S \in F
  <2> HIDE DEF F
  <2> QED
    BY <1>1, <1>2, FiniteInduction
<1> QED
  BY <1>3

LEMMA OverTimes ==
    ASSUME NEW S, IsFiniteSet(S), NEW f, NEW g, NEW c \in Int,
           \A x \in S : f[x] \in Int /\ g[x] = c * f[x]
    PROVE  SumOver(g, S) = c * SumOver(f, S)
<1> DEFINE F == {U \in SUBSET S : SumOver(g, U) = c * SumOver(f, U)}
<1>1. {} \in F
  BY OverEmpty
<1>2. ASSUME NEW U \in SUBSET S, NEW x \in S, U \in F, x \notin U
      PROVE  U \cup {x} \in F
  <2>1. IsFiniteSet(U)
    BY FS_Subset
  <2>2. \A y \in U \cup {x} : f[y] \in Int /\ g[y] \in Int
    OBVIOUS
  <2>3. SumOver(f, U \cup {x}) = f[x] + SumOver(f, U)
    BY <1>2, <2>1, <2>2, OverAdd
  <2>4. SumOver(g, U \cup {x}) = g[x] + SumOver(g, U)
    BY <1>2, <2>1, <2>2, OverAdd
  <2>5. SumOver(f, U) \in Int /\ f[x] \in Int
    BY <2>1, <2>2, OverType
  <2>6. \A a, b \in Int : c * (a + b) = c * a + c * b
    OBVIOUS
  <2> QED
    BY <1>2, <2>3, <2>4, <2>5, <2>6
<1>3. S \in F
  <2> HIDE DEF F
  <2> QED
    BY <1>1, <1>2, FiniteInduction
<1> QED
  BY <1>3

(***************************************************************************)
(* Sums of functions: the facts the other modules cite.                    *)
(***************************************************************************)

Integral(f) == IsFiniteSet(DOMAIN f) /\ \A x \in DOMAIN f : f[x] \in Int

LEMMA SumIsOver == \A f : Sum(f) = SumOver(f, DOMAIN f)
<1>1. \A f : Sum(f) = (CHOOSE g : Defines(f, g, DOMAIN f))[DOMAIN f]
  BY DEF Sum, MapThenSumSet, MapThenFoldSet, Defines, Chosen
<1> QED
  BY <1>1, OverIsFold

LEMMA SumType ==
    ASSUME NEW f, Integral(f)
    PROVE  Sum(f) \in Int
  BY OverType, SumIsOver DEF Integral

LEMMA SumEmpty ==
    ASSUME NEW f, DOMAIN f = {}
    PROVE  Sum(f) = 0
<1>1. SumOver(f, DOMAIN f) = SumOver(f, {})
  OBVIOUS
<1> QED
  BY <1>1, OverEmpty, SumIsOver

(* Only the values count.                                                  *)
LEMMA SumSame ==
    ASSUME NEW f, Integral(f), NEW g, DOMAIN g = DOMAIN f,
           \A x \in DOMAIN f : f[x] = g[x]
    PROVE  Sum(f) = Sum(g)
<1>1. SumOver(f, DOMAIN f) = SumOver(g, DOMAIN f)
  BY OverSame DEF Integral
<1>2. SumOver(g, DOMAIN f) = SumOver(g, DOMAIN g)
  OBVIOUS
<1> QED
  BY <1>1, <1>2, SumIsOver

(* An element is added.                                                    *)
LEMMA SumAdd ==
    ASSUME NEW f, Integral(f), NEW g, NEW x, x \notin DOMAIN f,
           DOMAIN g = DOMAIN f \cup {x}, g[x] \in Int,
           \A y \in DOMAIN f : g[y] = f[y]
    PROVE  Integral(g) /\ Sum(g) = Sum(f) + g[x]
<1>1. IsFiniteSet(DOMAIN f \cup {x}) /\ \A y \in DOMAIN f \cup {x} : g[y] \in Int
  BY FS_AddElement DEF Integral
<1>2. SumOver(g, DOMAIN f \cup {x}) = g[x] + SumOver(g, DOMAIN f)
  BY <1>1, OverAdd DEF Integral
<1>3. SumOver(g, DOMAIN g) = SumOver(g, DOMAIN f \cup {x})
  OBVIOUS
<1>4. SumOver(f, DOMAIN f) = SumOver(g, DOMAIN f) /\ SumOver(f, DOMAIN f) \in Int
  BY OverSame, OverType DEF Integral
<1>5. Integral(g)
  BY <1>1 DEF Integral
<1> QED
  BY <1>1, <1>2, <1>3, <1>4, <1>5, SumIsOver

(* One value changes.                                                      *)
LEMMA SumChange ==
    ASSUME NEW f, Integral(f), NEW g, DOMAIN g = DOMAIN f, NEW x \in DOMAIN f,
           g[x] \in Int, \A y \in DOMAIN f \ {x} : g[y] = f[y]
    PROVE  Integral(g) /\ Sum(g) = Sum(f) + g[x] - f[x]
<1>1. \A y \in DOMAIN f : f[y] \in Int /\ g[y] \in Int
  BY DEF Integral
<1>2. SumOver(g, DOMAIN f) = SumOver(f, DOMAIN f) + g[x] - f[x]
  BY <1>1, OverChange DEF Integral
<1>3. SumOver(g, DOMAIN g) = SumOver(g, DOMAIN f)
  OBVIOUS
<1>4. Integral(g)
  BY <1>1 DEF Integral
<1> QED
  BY <1>2, <1>3, <1>4, SumIsOver

(* Elements without a value make no difference.                            *)
LEMMA SumWithout ==
    ASSUME NEW f, Integral(f), NEW g, DOMAIN g \subseteq DOMAIN f,
           \A x \in DOMAIN g : g[x] = f[x], \A x \in DOMAIN f \ DOMAIN g : f[x] = 0
    PROVE  Sum(g) = Sum(f)
<1>1. SumOver(f, DOMAIN f) = SumOver(f, DOMAIN g)
  BY OverWithout DEF Integral
<1>2. IsFiniteSet(DOMAIN g) /\ \A x \in DOMAIN g : g[x] = f[x] /\ g[x] \in Int
  BY FS_Subset DEF Integral
<1>3. SumOver(g, DOMAIN g) = SumOver(f, DOMAIN g)
  BY <1>2, OverSame
<1> QED
  BY <1>1, <1>3, SumIsOver

LEMMA SumOrdered ==
    ASSUME NEW f, Integral(f), NEW g, Integral(g), DOMAIN g = DOMAIN f,
           \A x \in DOMAIN f : f[x] <= g[x]
    PROVE  Sum(f) <= Sum(g)
<1>1. \A x \in DOMAIN f : f[x] \in Int /\ g[x] \in Int /\ f[x] <= g[x]
  BY DEF Integral
<1>2. SumOver(f, DOMAIN f) <= SumOver(g, DOMAIN f)
  BY <1>1, OverOrdered DEF Integral
<1>3. SumOver(g, DOMAIN g) = SumOver(g, DOMAIN f)
  OBVIOUS
<1> QED
  BY <1>2, <1>3, SumIsOver

LEMMA SumPlus ==
    ASSUME NEW f, Integral(f), NEW g, Integral(g), NEW h,
           DOMAIN g = DOMAIN f, DOMAIN h = DOMAIN f,
           \A x \in DOMAIN f : h[x] = f[x] + g[x]
    PROVE  Sum(h) = Sum(f) + Sum(g)
<1>1. \A x \in DOMAIN f : f[x] \in Int /\ g[x] \in Int /\ h[x] = f[x] + g[x]
  BY DEF Integral
<1>2. SumOver(h, DOMAIN f) = SumOver(f, DOMAIN f) + SumOver(g, DOMAIN f)
  BY <1>1, OverPlus DEF Integral
<1>3. SumOver(g, DOMAIN g) = SumOver(g, DOMAIN f) /\ SumOver(h, DOMAIN h) = SumOver(h, DOMAIN f)
  OBVIOUS
<1> QED
  BY <1>2, <1>3, SumIsOver

(* Nothing adds up to nothing.                                             *)
LEMMA SumZero ==
    ASSUME NEW f, IsFiniteSet(DOMAIN f), \A x \in DOMAIN f : f[x] = 0
    PROVE  Integral(f) /\ Sum(f) = 0
<1> DEFINE none == [x \in {} |-> 0]
<1>1. Integral(f)
  BY DEF Integral
<1>2. /\ DOMAIN none = {} /\ DOMAIN none \subseteq DOMAIN f
      /\ \A x \in DOMAIN none : none[x] = f[x]
      /\ \A x \in DOMAIN f \ DOMAIN none : f[x] = 0
  OBVIOUS
<1> HIDE DEF none
<1>3. Sum(none) = Sum(f)
  BY <1>1, <1>2, SumWithout
<1> QED
  BY <1>1, <1>2, <1>3, SumEmpty

(* One value only.                                                         *)
LEMMA SumOnly ==
    ASSUME NEW f, IsFiniteSet(DOMAIN f), NEW x \in DOMAIN f, f[x] \in Int,
           \A y \in DOMAIN f \ {x} : f[y] = 0
    PROVE  Integral(f) /\ Sum(f) = f[x]
<1> DEFINE zero == [y \in DOMAIN f |-> 0]
<1>1. /\ DOMAIN zero = DOMAIN f /\ zero[x] = 0
      /\ \A y \in DOMAIN zero : zero[y] = 0
      /\ \A y \in DOMAIN zero \ {x} : f[y] = zero[y]
  OBVIOUS
<1> HIDE DEF zero
<1>2. Integral(zero) /\ Sum(zero) = 0
  BY <1>1, SumZero
<1>3. Integral(f) /\ Sum(f) = Sum(zero) + f[x] - zero[x]
  BY <1>1, <1>2, SumChange
<1> QED
  BY <1>1, <1>2, <1>3

(* A sum of naturals is one, and bounds each of them.                      *)
LEMMA SumNat ==
    ASSUME NEW f, IsFiniteSet(DOMAIN f), \A x \in DOMAIN f : f[x] \in Nat
    PROVE  /\ Integral(f) /\ Sum(f) \in Nat
           /\ \A x \in DOMAIN f : f[x] <= Sum(f)
<1>1. Integral(f)
  BY DEF Integral
<1> DEFINE zero == [x \in DOMAIN f |-> 0]
<1>2. Sum(f) \in Nat
  <2>1. IsFiniteSet(DOMAIN zero) /\ DOMAIN zero = DOMAIN f
    OBVIOUS
  <2>2. \A x \in DOMAIN zero : zero[x] = 0 /\ zero[x] <= f[x]
    OBVIOUS
  <2> HIDE DEF zero
  <2>3. Integral(zero) /\ Sum(zero) = 0
    BY <2>1, <2>2, SumZero
  <2>4. Sum(zero) <= Sum(f)
    BY <1>1, <2>1, <2>2, <2>3, SumOrdered
  <2> QED
    BY <1>1, <2>3, <2>4, SumType
<1>3. ASSUME NEW x \in DOMAIN f
      PROVE  f[x] <= Sum(f)
  <2> DEFINE only == [y \in DOMAIN f |-> IF y = x THEN f[x] ELSE 0]
  <2>1. /\ DOMAIN only = DOMAIN f /\ only[x] = f[x] /\ only[x] \in Int
        /\ \A y \in DOMAIN only \ {x} : only[y] = 0
        /\ \A y \in DOMAIN only : only[y] <= f[y]
    OBVIOUS
  <2> HIDE DEF only
  <2>2. Integral(only) /\ Sum(only) = f[x]
    BY <2>1, SumOnly
  <2>3. Sum(only) <= Sum(f)
    BY <1>1, <2>1, <2>2, SumOrdered
  <2> QED
    BY <2>2, <2>3
<1> QED
  BY <1>1, <1>2, <1>3

(* A common factor.                                                        *)
LEMMA SumTimes ==
    ASSUME NEW f, Integral(f), NEW c \in Int, NEW g, DOMAIN g = DOMAIN f,
           \A x \in DOMAIN f : g[x] = c * f[x]
    PROVE  Integral(g) /\ Sum(g) = c * Sum(f)
<1>1. \A x \in DOMAIN f : f[x] \in Int /\ g[x] = c * f[x]
  BY DEF Integral
<1>2. SumOver(g, DOMAIN f) = c * SumOver(f, DOMAIN f)
  BY <1>1, OverTimes DEF Integral
<1>3. Integral(g)
  BY <1>1 DEF Integral
<1>4. SumOver(g, DOMAIN g) = SumOver(g, DOMAIN f)
  OBVIOUS
<1> QED
  BY <1>2, <1>3, <1>4, SumIsOver

(***************************************************************************)
(* The least, the greatest and the nth.                                    *)
(***************************************************************************)

LEMMA MaxIs ==
    ASSUME NEW S \in SUBSET Int, NEW x \in S, \A y \in S : y <= x
    PROVE  Max(S) = x
<1>1. \A z \in S : (\A y \in S : z >= y) => z = x
  <2> SUFFICES ASSUME NEW z \in S, z >= x PROVE z = x
    OBVIOUS
  <2>1. z \in Int /\ x \in Int /\ z <= x
    OBVIOUS
  <2> QED
    BY <2>1
<1>2. \A y \in S : x >= y
  OBVIOUS
<1> QED
  BY <1>1, <1>2 DEF Max

LEMMA MinOf ==
    ASSUME NEW S \in SUBSET Nat, S # {}
    PROVE  Min(S) \in S /\ \A y \in S : Min(S) <= y
  BY LeastNumber DEF Min

(* A finite set of numbers has a greatest one.                             *)
LEMMA MaxOf ==
    ASSUME NEW S \in SUBSET Int, IsFiniteSet(S), S # {}
    PROVE  Max(S) \in S /\ \A y \in S : y <= Max(S)
<1> DEFINE F == {T \in SUBSET S : T = {} \/ \E x \in T : \A y \in T : y <= x}
<1>1. {} \in F
  OBVIOUS
<1>2. ASSUME NEW T \in SUBSET S, NEW x \in S, T \in F, x \notin T
      PROVE  T \cup {x} \in F
  <2>1. CASE T = {}
    BY <2>1
  <2>2. CASE T # {}
    <3>1. PICK z \in T : \A y \in T : y <= z
      BY <1>2, <2>2
    <3>2. x \in Int /\ z \in Int /\ \A y \in T : y \in Int
      OBVIOUS
    <3>3. CASE z <= x
      <4>1. \A y \in T \cup {x} : y <= x
        BY <3>1, <3>2, <3>3
      <4> QED
        BY <4>1
    <3>4. CASE x <= z
      <4>1. \A y \in T \cup {x} : y <= z
        BY <3>1, <3>2, <3>4
      <4> QED
        BY <4>1
    <3> QED
      BY <3>2, <3>3, <3>4
  <2> QED
    BY <2>1, <2>2
<1>3. S \in F
  <2> HIDE DEF F
  <2> QED
    BY <1>1, <1>2, FiniteInduction
<1>4. PICK x \in S : \A y \in S : y <= x
  BY <1>3
<1> QED
  BY <1>4, MaxIs

(* The elements of a finite set S in the order of their ranks, when        *)
(* before[x] are the elements before x.                                    *)
LEMMA NthOf ==
    ASSUME NEW S, IsFiniteSet(S), NEW before \in [S -> SUBSET S],
           \A x \in S : x \notin before[x],
           \A x, y \in S : x # y => (x \in before[y] /\ before[x] \subseteq before[y])
                                    \/ (y \in before[x] /\ before[y] \subseteq before[x])
    PROVE  \A n \in 1 .. Cardinality(S) : \E x \in S : Cardinality(before[x]) = n - 1
<1> DEFINE rank == [x \in S |-> Cardinality(before[x]) + 1]
           N == 1 .. Cardinality(S)
<1>1. ASSUME NEW x \in S
      PROVE  IsFiniteSet(before[x]) /\ Cardinality(before[x]) \in Nat
  BY FS_Subset, FS_CardinalityType
<1>2. Cardinality(S) \in Nat
  BY FS_CardinalityType
<1>3. ASSUME NEW x \in S, NEW y \in S, x \in before[y], before[x] \subseteq before[y]
      PROVE  Cardinality(before[x]) < Cardinality(before[y])
  <2>1. Cardinality(before[x]) <= Cardinality(before[y])
    BY <1>1, <1>3, FS_Subset
  <2>2. Cardinality(before[x]) # Cardinality(before[y])
    BY <1>1, <1>3, FS_Subset
  <2> QED
    BY <1>1, <2>1, <2>2
<1>4. ASSUME NEW x \in S PROVE rank[x] \in N
  <2>1. Cardinality(before[x]) <= Cardinality(S)
    BY FS_Subset
  <2>2. Cardinality(before[x]) # Cardinality(S)
    BY FS_Subset
  <2> QED
    BY <1>1, <1>2, <2>1, <2>2
<1>5. ASSUME NEW x \in S, NEW y \in S, x # y PROVE rank[x] # rank[y]
  <2>1. \/ Cardinality(before[x]) < Cardinality(before[y])
        \/ Cardinality(before[y]) < Cardinality(before[x])
    BY <1>3, <1>5
  <2>2. Cardinality(before[x]) \in Nat /\ Cardinality(before[y]) \in Nat
    BY <1>1
  <2> QED
    BY <2>1, <2>2
<1> HIDE DEF rank
<1>6. rank \in Injection(S, N)
  <2>1. rank \in [S -> N]
    BY <1>4 DEF rank
  <2>2. \A x, y \in S : rank[x] = rank[y] => x = y
    BY <1>5
  <2> HIDE DEF N
  <2> QED
    BY <2>1, <2>2 DEF Injection, IsInjective
<1>7. IsFiniteSet(N) /\ Cardinality(N) = Cardinality(S)
  BY <1>2, FS_Interval
<1>8. rank \in Surjection(S, N)
  <2> HIDE DEF N
  <2> QED
    BY <1>6, <1>7, FS_Injection
<1> SUFFICES ASSUME NEW n \in N PROVE \E x \in S : Cardinality(before[x]) = n - 1
  OBVIOUS
<1>9. PICK x \in S : rank[x] = n
  <2> HIDE DEF N
  <2> QED
    BY <1>8 DEF Surjection
<1>10. Cardinality(before[x]) + 1 = n /\ Cardinality(before[x]) \in Nat
  BY <1>1, <1>9 DEF rank
<1> QED
  BY <1>10

=============================================================================
