------------------------------ MODULE NumberLemmas ------------------------------
(***************************************************************************)
(* What the proofs need to know of numbers: least and greatest members of  *)
(* sets, division and remainders, induction; and sums and products over    *)
(* finite sets (SumFunction and FoldFunctionOnSet of community module      *)
(* Functions), which are defined by recursion over sets. Their values are  *)
(* established by induction over finite sets, from the fact that strict    *)
(* inclusion of them is well founded.                                      *)
(***************************************************************************)
EXTENDS FiniteSetsExt, FiniteSetTheorems, WellFoundedInduction, TLAPS

(***************************************************************************)
(* Sets of natural numbers.                                                *)
(***************************************************************************)
LEMMA HasMin ==
  ASSUME NEW S, S \subseteq Nat, S # {}
  PROVE  \E x \in S : \A y \in S : x <= y
<1> DEFINE R == OpToRel(<, Nat)
<1>1. PICK x \in S : \A y \in S : ~(<<y, x>> \in R)
  BY NatLessThanWellFounded, WFMin
<1>2. \A y \in S : ~(y < x)
  BY <1>1 DEF OpToRel
<1> HIDE DEF R
<1>3. \A y \in S : x <= y
  BY <1>2
<1> QED
  BY <1>3

LEMMA MinIs ==
  ASSUME NEW S, S \subseteq Nat, S # {}
  PROVE  Min(S) \in S
BY HasMin DEF Min

LEMMA MaxIs ==
  ASSUME NEW b \in Nat, NEW S, S \subseteq 0 .. b, S # {}
  PROVE  Max(S) \in S /\ \A y \in S : Max(S) >= y
<1> DEFINE T == {b - x : x \in S}
<1>1. PICK e \in S : TRUE
  OBVIOUS
<1>2. T \subseteq Nat /\ b - e \in T
  OBVIOUS
<1>3. PICK z \in T : \A y \in T : z <= y
  <2> HIDE DEF T
  <2> QED
    BY <1>2, HasMin
<1>4. PICK x \in S : z = b - x
  OBVIOUS
<1>5. \A y \in S : x >= y
  BY <1>3, <1>4
<1> QED
  BY <1>5 DEF Max

(***************************************************************************)
(* The greatest and the least member, where there is one.                  *)
(***************************************************************************)
LEMMA LargestIs ==
  ASSUME NEW S, S \subseteq Int, NEW n \in S, \A x \in S : x <= n
  PROVE  Max(S) = n
<1>1. \A y \in S : n >= y
  OBVIOUS
<1>2. ASSUME NEW x \in S, \A y \in S : x >= y
      PROVE  x = n
  BY <1>2
<1> QED
  BY <1>1, <1>2 DEF Max

LEMMA LeastIs ==
  ASSUME NEW S, S \subseteq Int, NEW n \in S, \A x \in S : n <= x
  PROVE  Min(S) = n
<1>1. ASSUME NEW x \in S, \A y \in S : x <= y
      PROVE  x = n
  BY <1>1
<1> QED
  BY <1>1 DEF Min

(***************************************************************************)
(* The larger and the smaller of two numbers; division.                    *)
(***************************************************************************)
LEMMA MaxOfTwo ==
  ASSUME NEW a \in Nat, NEW b \in Nat
  PROVE  /\ Max({a, b}) \in {a, b}
         /\ Max({a, b}) >= a /\ Max({a, b}) >= b
<1>1. {a, b} \subseteq 0 .. a + b /\ {a, b} # {}
  OBVIOUS
<1> QED
  BY <1>1, MaxIs

LEMMA MinOfTwo ==
  ASSUME NEW a \in Nat, NEW b \in Nat
  PROVE  Min({a, b}) = IF a <= b THEN a ELSE b
<1>1. \E x \in {a, b} : \A y \in {a, b} : x <= y
  OBVIOUS
<1> QED
  BY <1>1 DEF Min

(***************************************************************************)
(* The order of quotients, sums and products.                              *)
(***************************************************************************)
LEMMA QuotientIs ==
  ASSUME NEW a \in Nat, NEW n \in Nat \ {0}
  PROVE  /\ a \div n \in Nat
         /\ (a \div n) * n <= a
         /\ a < (a \div n + 1) * n
OBVIOUS

LEMMA SumOrder ==
  ASSUME NEW c \in Nat, NEW q \in Nat, NEW n \in Nat, c <= q
  PROVE  c * n <= q * n
OBVIOUS

LEMMA QuotientBounds ==
  ASSUME NEW a \in Nat, NEW n \in Nat \ {0}, NEW c \in Nat
  PROVE  /\ a < (c + 1) * n <=> a \div n <= c
         /\ c * n <= a <=> c <= a \div n
<1>1. PICK q \in Nat : q = a \div n /\ q * n <= a /\ a < (q + 1) * n
  BY QuotientIs
<1>2. c <= q => c * n <= q * n
  BY SumOrder
<1>3. q + 1 <= c => (q + 1) * n <= c * n
  BY SumOrder
<1>4. c + 1 <= q => (c + 1) * n <= q * n
  BY SumOrder
<1>5. q <= c => (q + 1) * n <= (c + 1) * n
  BY SumOrder
<1>6. /\ c * n \in Nat /\ q * n \in Nat
      /\ (c + 1) * n \in Nat /\ (q + 1) * n \in Nat
  OBVIOUS
<1>7. a < (c + 1) * n <=> q <= c
  BY <1>1, <1>4, <1>5, <1>6
<1>8. c * n <= a <=> c <= q
  BY <1>1, <1>2, <1>3, <1>6
<1> QED
  BY <1>1, <1>7, <1>8

LEMMA ProductOrder ==
  ASSUME NEW w \in Nat, NEW x \in Nat, NEW y \in Nat
  PROVE  /\ w * x \in Nat
         /\ x <= y => w * x <= w * y
         /\ w > 0 /\ x < y => w * x < w * y
<1>1. x <= y => w * x <= w * y
  <2> SUFFICES ASSUME x <= y PROVE w * x <= w * y
    OBVIOUS
  <2>1. PICK d \in Nat : y = x + d
    <3>1. y - x \in Nat /\ y = x + (y - x)
      OBVIOUS
    <3> QED
      BY <3>1
  <2> QED
    BY <2>1
<1>2. w > 0 /\ x < y => w * x < w * y
  <2> SUFFICES ASSUME w > 0, x < y PROVE w * x < w * y
    OBVIOUS
  <2>1. PICK d \in Nat \ {0} : y = x + d
    <3>1. y - x \in Nat \ {0} /\ y = x + (y - x)
      OBVIOUS
    <3> QED
      BY <3>1
  <2>2. w * d > 0
    BY <2>1
  <2> QED
    BY <2>1, <2>2
<1> QED
  BY <1>1, <1>2

LEMMA QuotientOrder ==
  ASSUME NEW a \in Nat, NEW b \in Nat, NEW n \in Nat \ {0}, a <= b
  PROVE  a \div n <= b \div n
<1>1. PICK q \in Nat : q = a \div n
  BY QuotientIs
<1>2. q * n <= a
  BY <1>1, QuotientBounds
<1>3. q * n <= b
  BY <1>2
<1> QED
  BY <1>1, <1>3, QuotientBounds

(***************************************************************************)
(* Induction over the numbers up to n: a set that has 0, and with every    *)
(* number the next one, has them all.                                      *)
(***************************************************************************)
LEMMA NumberInduction ==
  ASSUME NEW n \in Nat, NEW S, 0 \in S,
         \A k \in 0 .. n - 1 : k \in S => k + 1 \in S
  PROVE  0 .. n \subseteq S
<1> DEFINE T == (0 .. n) \ S
<1>1. SUFFICES ASSUME T # {} PROVE FALSE
  OBVIOUS
<1>2. PICK x \in T : \A y \in T : x <= y
  <2>1. T \subseteq Nat
    OBVIOUS
  <2> HIDE DEF T
  <2> QED
    BY <1>1, <2>1, HasMin
<1>3. x # 0 /\ x - 1 \in 0 .. n - 1 /\ (x - 1) + 1 = x
  BY <1>2
<1>4. x - 1 \in S
  BY <1>2, <1>3
<1> QED
  BY <1>2, <1>3, <1>4

-----------------------------------------------------------------------------
(***************************************************************************)
(* Of any sets of subsets of a finite set, one is smallest: no other of    *)
(* them is a part of it.                                                   *)
(***************************************************************************)
LEMMA MinimalSet ==
  ASSUME NEW S, IsFiniteSet(S), NEW F, F \subseteq SUBSET S, F # {}
  PROVE  \E T \in F : \A U \in F : U \subseteq T => U = T
<1> DEFINE R == StrictSubsetOrdering(S)
<1>1. IsWellFoundedOn(R, SUBSET S)
  BY FS_StrictSubsetOrderingWellFounded, FS_FiniteSubsetsOfFinite
<1>2. PICK T \in F : \A U \in F : <<U, T>> \notin R
  <2> HIDE DEF R
  <2> QED
    BY <1>1, WFMin
<1>3. ASSUME NEW U \in F, U \subseteq T, U # T
      PROVE  <<U, T>> \in R
  <2>1. U \in SUBSET S /\ T \in SUBSET S
    OBVIOUS
  <2>2. <<U, T>>[1] = U /\ <<U, T>>[2] = T
    OBVIOUS
  <2> QED
    BY <1>3, <2>1, <2>2 DEF StrictSubsetOrdering
<1>4. ASSUME NEW U \in F, U \subseteq T
      PROVE  U = T
  BY <1>2, <1>3, <1>4
<1> QED
  BY <1>4

(***************************************************************************)
(* Induction over finite sets. The family F holds every subset of S if it  *)
(* holds each one whose proper subsets it holds. (A family stands for the  *)
(* induction hypothesis, which could not be an operator here.)             *)
(***************************************************************************)
LEMMA SetInduction ==
  ASSUME NEW S, IsFiniteSet(S), NEW F,
         \A T \in SUBSET S : (\A U \in SUBSET T : U # T => U \in F) => T \in F
  PROVE  SUBSET S \subseteq F
<1> DEFINE G == (SUBSET S) \ F
<1>1. SUFFICES ASSUME G # {} PROVE FALSE
  OBVIOUS
<1>2. PICK T \in G : \A U \in G : U \subseteq T => U = T
  <2> HIDE DEF G
  <2>1. G \subseteq SUBSET S
    BY DEF G
  <2> QED
    BY <1>1, <2>1, MinimalSet
<1>3. \A U \in SUBSET T : U # T => U \in F
  BY <1>2
<1> QED
  BY <1>2, <1>3

-----------------------------------------------------------------------------
(***************************************************************************)
(* How the library computes a sum: it takes away one member after another. *)
(***************************************************************************)
Pick(s) == CHOOSE x \in s : TRUE

IsSums(iter, f, S) ==
  iter = [s \in SUBSET S |->
            IF s = {} THEN 0 ELSE f[Pick(s)] + iter[s \ {Pick(s)}]]

SumsOf(f, S) == CHOOSE iter : IsSums(iter, f, S)

(***************************************************************************)
(* The library's sum, written with the names above.                        *)
(***************************************************************************)
LEMMA SumsDef ==
  ASSUME NEW f, NEW S
  PROVE  SumFunctionOnSet(f, S) = SumsOf(f, S)[S]
BY DEF SumFunctionOnSet, FoldFunctionOnSet, MapThenFoldSet, SumsOf, IsSums,
       Pick

(***************************************************************************)
(* The member that a sum takes first is a member.                          *)
(***************************************************************************)
LEMMA PickIn ==
  ASSUME NEW s, s # {}
  PROVE  Pick(s) \in s
BY DEF Pick

(***************************************************************************)
(* Two functions that compute sums of f agree on every set that both       *)
(* compute.                                                                *)
(***************************************************************************)
LEMMA SumsUnique ==
  ASSUME NEW f, NEW S, IsFiniteSet(S), NEW U,
         NEW g, IsSums(g, f, S), NEW h, IsSums(h, f, U)
  PROVE  \A s \in SUBSET S : s \in SUBSET U => g[s] = h[s]
<1> DEFINE F == {s \in SUBSET S : s \in SUBSET U => g[s] = h[s]}
<1>1. ASSUME NEW T \in SUBSET S, \A V \in SUBSET T : V # T => V \in F
      PROVE  T \in F
  <2>1. CASE T = {}
    BY <2>1 DEF IsSums
  <2>2. CASE T # {} /\ T \in SUBSET U
    <3>1. Pick(T) \in T
      BY <2>2, PickIn
    <3>2. T \ {Pick(T)} \in F
      BY <1>1, <3>1
    <3>3. g[T \ {Pick(T)}] = h[T \ {Pick(T)}]
      BY <2>2, <3>2
    <3>4. g[T] = f[Pick(T)] + g[T \ {Pick(T)}]
      BY <2>2 DEF IsSums
    <3>5. h[T] = f[Pick(T)] + h[T \ {Pick(T)}]
      BY <2>2 DEF IsSums
    <3> QED
      BY <3>3, <3>4, <3>5
  <2> QED
    BY <2>1, <2>2
<1> HIDE DEF F
<1>2. SUBSET S \subseteq F
  BY <1>1, SetInduction
<1> QED
  BY <1>2 DEF F

(***************************************************************************)
(* There is a function that computes the sum of f over every subset of a   *)
(* finite set, so the sum is what its recursive definition says.           *)
(***************************************************************************)
LEMMA SumsExist ==
  ASSUME NEW f, NEW S, IsFiniteSet(S)
  PROVE  IsSums(SumsOf(f, S), f, S)
<1> DEFINE F == {T \in SUBSET S : \E g : IsSums(g, f, T)}
<1>1. ASSUME NEW T \in SUBSET S, \A V \in SUBSET T : V # T => V \in F
      PROVE  T \in F
  <2> DEFINE rest == T \ {Pick(T)}
             at(s) == SumsOf(f, s)[s]
             g == [s \in SUBSET T |-> IF s = {} THEN 0
                                      ELSE f[Pick(s)] + at(s \ {Pick(s)})]
  <2>1. ASSUME NEW V \in SUBSET T, V # T
        PROVE  IsSums(SumsOf(f, V), f, V) /\ IsFiniteSet(V)
    <3>1. \E h : IsSums(h, f, V)
      BY <1>1, <2>1
    <3> QED
      BY <3>1, FS_Subset DEF SumsOf
  <2>2. ASSUME NEW V \in SUBSET T, V # T, V # {}
        PROVE  at(V) = f[Pick(V)] + at(V \ {Pick(V)})
    <3> DEFINE W == V \ {Pick(V)}
    <3>1. W \in SUBSET V /\ W \in SUBSET T /\ W # T
      <4>1. \E x \in T : x \notin V
        BY <2>2
      <4> QED
        BY <4>1
    <3>2. at(V) = f[Pick(V)] + SumsOf(f, V)[W]
      BY <2>1, <2>2 DEF IsSums
    <3>3. SumsOf(f, V)[W] = SumsOf(f, W)[W]
      <4>1. /\ IsFiniteSet(V)
            /\ IsSums(SumsOf(f, V), f, V) /\ IsSums(SumsOf(f, W), f, W)
        BY <2>1, <2>2, <3>1
      <4> QED
        BY <3>1, <4>1, SumsUnique
    <3> QED
      BY <3>2, <3>3
  <2>3. ASSUME NEW V \in SUBSET T, V # T
        PROVE  g[V] = at(V)
    <3>1. CASE V = {}
      BY <2>1, <2>3, <3>1 DEF IsSums
    <3>2. CASE V # {}
      BY <2>2, <2>3, <3>2
    <3> QED
      BY <3>1, <3>2
  <2>4. ASSUME NEW s \in SUBSET T, s # {}
        PROVE  at(s \ {Pick(s)}) = g[s \ {Pick(s)}]
    <3>1. s \ {Pick(s)} \in SUBSET T /\ s \ {Pick(s)} # T
      BY <2>4, PickIn
    <3> QED
      BY <2>3, <3>1
  <2> HIDE DEF at
  <2>5. g = [s \in SUBSET T |-> IF s = {} THEN 0
                                ELSE f[Pick(s)] + g[s \ {Pick(s)}]]
    BY <2>4
  <2>6. IsSums(g, f, T)
    BY <2>5 DEF IsSums
  <2> QED
    BY <2>6
<1> HIDE DEF F
<1>2. SUBSET S \subseteq F
  BY <1>1, SetInduction
<1>3. \E g : IsSums(g, f, S)
  BY <1>2 DEF F
<1> QED
  BY <1>3 DEF SumsOf

(***************************************************************************)
(* The sum over the empty set.                                             *)
(***************************************************************************)
LEMMA SumEmpty ==
  ASSUME NEW f
  PROVE  SumFunctionOnSet(f, {}) = 0
<1>1. IsSums(SumsOf(f, {}), f, {})
  BY SumsExist, FS_EmptySet
<1>2. SumsOf(f, {})[{}] = 0
  BY <1>1 DEF IsSums
<1> QED
  BY <1>2, SumsDef

(***************************************************************************)
(* The sum over a set with members, one step of the recursion.             *)
(***************************************************************************)
LEMMA SumPick ==
  ASSUME NEW f, NEW S, IsFiniteSet(S), S # {}
  PROVE  SumFunctionOnSet(f, S) =
           f[Pick(S)] + SumFunctionOnSet(f, S \ {Pick(S)})
<1> DEFINE rest == S \ {Pick(S)}
<1>1. IsFiniteSet(rest) /\ rest \in SUBSET S
  BY FS_Subset
<1>2. IsSums(SumsOf(f, S), f, S) /\ IsSums(SumsOf(f, rest), f, rest)
  BY <1>1, SumsExist
<1>3. SumsOf(f, S)[rest] = SumsOf(f, rest)[rest]
  BY <1>1, <1>2, SumsUnique
<1>4. SumsOf(f, S)[S] = f[Pick(S)] + SumsOf(f, S)[rest]
  BY <1>2 DEF IsSums
<1> QED
  BY <1>3, <1>4, SumsDef

-----------------------------------------------------------------------------

(***************************************************************************)
(* A sum is of the same kind as its terms.                                 *)
(***************************************************************************)
LEMMA SumIn ==
  ASSUME NEW f, NEW S, IsFiniteSet(S), NEW D, 0 \in D,
         \A a, b \in D : a + b \in D, \A x \in S : f[x] \in D
  PROVE  SumFunctionOnSet(f, S) \in D
<1> DEFINE F == {T \in SUBSET S : SumFunctionOnSet(f, T) \in D}
<1>1. ASSUME NEW T \in SUBSET S, \A U \in SUBSET T : U # T => U \in F
      PROVE  T \in F
  <2>1. CASE T = {}
    BY <2>1, SumEmpty
  <2>2. CASE T # {}
    <3>1. Pick(T) \in T /\ IsFiniteSet(T)
      BY <2>2, PickIn, FS_Subset
    <3>2. T \ {Pick(T)} \in F
      BY <1>1, <3>1
    <3> QED
      BY <2>2, <3>1, <3>2, SumPick
  <2> QED
    BY <2>1, <2>2
<1> HIDE DEF F
<1>2. SUBSET S \subseteq F
  BY <1>1, SetInduction
<1> QED
  BY <1>2 DEF F

(***************************************************************************)
(* Integers add up to an integer.                                          *)
(***************************************************************************)
LEMMA SumIsInt ==
  ASSUME NEW f, NEW S, IsFiniteSet(S), \A x \in S : f[x] \in Int
  PROVE  SumFunctionOnSet(f, S) \in Int
<1>1. \A a, b \in Int : a + b \in Int
  OBVIOUS
<1> QED
  BY <1>1, SumIn

(***************************************************************************)
(* Naturals add up to a natural.                                           *)
(***************************************************************************)
LEMMA SumIsNat ==
  ASSUME NEW f, NEW S, IsFiniteSet(S), \A x \in S : f[x] \in Nat
  PROVE  SumFunctionOnSet(f, S) \in Nat
<1>1. \A a, b \in Nat : a + b \in Nat
  OBVIOUS
<1> QED
  BY <1>1, SumIn

(***************************************************************************)
(* Zeros add up to zero.                                                   *)
(***************************************************************************)
LEMMA SumIsZero ==
  ASSUME NEW f, NEW S, IsFiniteSet(S), \A x \in S : f[x] = 0
  PROVE  SumFunctionOnSet(f, S) = 0
<1>1. \A a, b \in {0} : a + b \in {0}
  OBVIOUS
<1>2. SumFunctionOnSet(f, S) \in {0}
  BY <1>1, SumIn
<1> QED
  BY <1>2

(***************************************************************************)
(* The sum depends on the terms only.                                      *)
(***************************************************************************)
LEMMA SumSame ==
  ASSUME NEW f, NEW g, NEW S, IsFiniteSet(S),
         \A x \in S : f[x] = g[x]
  PROVE  SumFunctionOnSet(f, S) = SumFunctionOnSet(g, S)
<1> DEFINE F == {T \in SUBSET S :
                   SumFunctionOnSet(f, T) = SumFunctionOnSet(g, T)}
<1>1. ASSUME NEW T \in SUBSET S, \A U \in SUBSET T : U # T => U \in F
      PROVE  T \in F
  <2>1. CASE T = {}
    BY <2>1, SumEmpty
  <2>2. CASE T # {}
    <3>1. Pick(T) \in T /\ IsFiniteSet(T)
      BY <2>2, PickIn, FS_Subset
    <3>2. T \ {Pick(T)} \in F
      BY <1>1, <3>1
    <3> QED
      BY <2>2, <3>1, <3>2, SumPick
  <2> QED
    BY <2>1, <2>2
<1> HIDE DEF F
<1>2. SUBSET S \subseteq F
  BY <1>1, SetInduction
<1> QED
  BY <1>2 DEF F

(***************************************************************************)
(* Any member may be taken out of the sum first.                           *)
(***************************************************************************)
LEMMA SumWithout ==
  ASSUME NEW f, NEW S, IsFiniteSet(S), \A x \in S : f[x] \in Int
  PROVE  \A x \in S :
           SumFunctionOnSet(f, S) = f[x] + SumFunctionOnSet(f, S \ {x})
<1> DEFINE P(T) == \A x \in T : SumFunctionOnSet(f, T) =
                                  f[x] + SumFunctionOnSet(f, T \ {x})
           F == {T \in SUBSET S : P(T)}
<1>1. ASSUME NEW T \in SUBSET S, \A U \in SUBSET T : U # T => U \in F
      PROVE  T \in F
  <2>1. SUFFICES ASSUME NEW x \in T
                 PROVE  SumFunctionOnSet(f, T) =
                          f[x] + SumFunctionOnSet(f, T \ {x})
    OBVIOUS
  <2> DEFINE y == Pick(T)
  <2>2. y \in T /\ IsFiniteSet(T)
    BY <2>1, PickIn, FS_Subset
  <2>3. SumFunctionOnSet(f, T) = f[y] + SumFunctionOnSet(f, T \ {y})
    BY <2>1, <2>2, SumPick
  <2>4. CASE y = x
    BY <2>3, <2>4
  <2>5. CASE y # x
    <3> HIDE DEF y
    <3>1. P(T \ {x}) /\ P(T \ {y})
      BY <1>1, <2>1, <2>2
    <3>2. SumFunctionOnSet(f, T \ {y}) =
            f[x] + SumFunctionOnSet(f, (T \ {y}) \ {x})
      BY <2>5, <3>1
    <3>3. SumFunctionOnSet(f, T \ {x}) =
            f[y] + SumFunctionOnSet(f, (T \ {x}) \ {y})
      BY <2>2, <2>5, <3>1
    <3>4. SumFunctionOnSet(f, T \ {x}) =
            f[y] + SumFunctionOnSet(f, (T \ {y}) \ {x})
      <4>1. (T \ {x}) \ {y} = (T \ {y}) \ {x}
        OBVIOUS
      <4> QED
        BY <3>3, <4>1
    <3>5. SumFunctionOnSet(f, (T \ {y}) \ {x}) \in Int
      BY <2>2, FS_Subset, SumIsInt
    <3>6. f[x] \in Int /\ f[y] \in Int
      BY <2>2
    <3> QED
      BY <2>3, <3>2, <3>4, <3>5, <3>6
  <2> QED
    BY <2>4, <2>5
<1> HIDE DEF F
<1>2. SUBSET S \subseteq F
  BY <1>1, SetInduction
<1> QED
  BY <1>2 DEF F

(***************************************************************************)
(* When one term changes, the sum changes by as much.                      *)
(***************************************************************************)
LEMMA SumChange ==
  ASSUME NEW f, NEW g, NEW S, IsFiniteSet(S), NEW z \in S,
         \A x \in S : f[x] \in Int /\ g[x] \in Int,
         \A x \in S \ {z} : g[x] = f[x]
  PROVE  SumFunctionOnSet(g, S) = (SumFunctionOnSet(f, S) - f[z]) + g[z]
<1> DEFINE rest == S \ {z}
<1>1. /\ SumFunctionOnSet(f, S) = f[z] + SumFunctionOnSet(f, rest)
      /\ SumFunctionOnSet(g, S) = g[z] + SumFunctionOnSet(g, rest)
  BY SumWithout
<1>2. IsFiniteSet(rest)
  BY FS_Subset
<1>3. SumFunctionOnSet(f, rest) = SumFunctionOnSet(g, rest)
  BY <1>2, SumSame
<1>4. SumFunctionOnSet(f, rest) \in Int
  BY <1>2, SumIsInt
<1> QED
  BY <1>1, <1>3, <1>4

(***************************************************************************)
(* When a member is added, its term is added.                              *)
(***************************************************************************)
LEMMA SumNewMember ==
  ASSUME NEW f, NEW S, IsFiniteSet(S), NEW z, z \notin S,
         \A x \in S \cup {z} : f[x] \in Int
  PROVE  SumFunctionOnSet(f, S \cup {z}) = SumFunctionOnSet(f, S) + f[z]
<1>1. IsFiniteSet(S \cup {z}) /\ (S \cup {z}) \ {z} = S
  BY FS_AddElement
<1>2. SumFunctionOnSet(f, S \cup {z}) = f[z] + SumFunctionOnSet(f, S)
  BY <1>1, SumWithout
<1>3. SumFunctionOnSet(f, S) \in Int
  BY SumIsInt
<1> QED
  BY <1>2, <1>3

(***************************************************************************)
(* Of naturals, no term is larger than the sum.                            *)
(***************************************************************************)
LEMMA SumPart ==
  ASSUME NEW f, NEW S, IsFiniteSet(S), \A x \in S : f[x] \in Nat, NEW z \in S
  PROVE  f[z] <= SumFunctionOnSet(f, S)
<1>1. IsFiniteSet(S \ {z})
  BY FS_Subset
<1>2. SumFunctionOnSet(f, S \ {z}) \in Nat
  BY <1>1, SumIsNat
<1>3. SumFunctionOnSet(f, S) = f[z] + SumFunctionOnSet(f, S \ {z})
  BY SumWithout
<1> QED
  BY <1>2, <1>3

(***************************************************************************)
(* The sum of a sum of two functions.                                      *)
(***************************************************************************)
LEMMA SumPlus ==
  ASSUME NEW f, NEW g, NEW h, NEW S, IsFiniteSet(S),
         \A x \in S : f[x] \in Int /\ g[x] \in Int /\ h[x] = f[x] + g[x]
  PROVE  SumFunctionOnSet(h, S) =
           SumFunctionOnSet(f, S) + SumFunctionOnSet(g, S)
<1> DEFINE P(T) == SumFunctionOnSet(h, T) =
                     SumFunctionOnSet(f, T) + SumFunctionOnSet(g, T)
           F == {T \in SUBSET S : P(T)}
<1>1. ASSUME NEW T \in SUBSET S, \A U \in SUBSET T : U # T => U \in F
      PROVE  T \in F
  <2>1. CASE T = {}
    BY <2>1, SumEmpty
  <2>2. CASE T # {}
    <3> DEFINE y == Pick(T)
               rest == T \ {y}
    <3>1. y \in T /\ IsFiniteSet(T) /\ IsFiniteSet(rest)
      BY <2>2, PickIn, FS_Subset
    <3>2. P(rest)
      BY <1>1, <3>1
    <3>3. /\ SumFunctionOnSet(h, T) = h[y] + SumFunctionOnSet(h, rest)
          /\ SumFunctionOnSet(f, T) = f[y] + SumFunctionOnSet(f, rest)
          /\ SumFunctionOnSet(g, T) = g[y] + SumFunctionOnSet(g, rest)
      BY <2>2, <3>1, SumPick
    <3>4. /\ SumFunctionOnSet(f, rest) \in Int
          /\ SumFunctionOnSet(g, rest) \in Int
      BY <3>1, SumIsInt
    <3>5. f[y] \in Int /\ g[y] \in Int /\ h[y] = f[y] + g[y]
      BY <3>1
    <3> HIDE DEF y, rest
    <3> QED
      BY <3>2, <3>3, <3>4, <3>5
  <2> QED
    BY <2>1, <2>2
<1> HIDE DEF F
<1>2. SUBSET S \subseteq F
  BY <1>1, SetInduction
<1> QED
  BY <1>2 DEF F

-----------------------------------------------------------------------------
(***************************************************************************)
(* Products, in the same way.                                              *)
(***************************************************************************)
Times(a, b) == a * b

Product(f, S) == FoldFunctionOnSet(Times, 1, f, S)

IsProducts(iter, f, S) ==
  iter = [s \in SUBSET S |->
            IF s = {} THEN 1 ELSE f[Pick(s)] * iter[s \ {Pick(s)}]]

ProductsOf(f, S) == CHOOSE iter : IsProducts(iter, f, S)

(***************************************************************************)
(* The library's product, written with the names above.                    *)
(***************************************************************************)
LEMMA ProductsDef ==
  ASSUME NEW f, NEW S
  PROVE  Product(f, S) = ProductsOf(f, S)[S]
BY DEF Product, Times, FoldFunctionOnSet, MapThenFoldSet, ProductsOf,
       IsProducts, Pick

(***************************************************************************)
(* Two functions that compute products of f agree on every set that both   *)
(* compute.                                                                *)
(***************************************************************************)
LEMMA ProductsUnique ==
  ASSUME NEW f, NEW S, IsFiniteSet(S), NEW U,
         NEW g, IsProducts(g, f, S), NEW h, IsProducts(h, f, U)
  PROVE  \A s \in SUBSET S : s \in SUBSET U => g[s] = h[s]
<1> DEFINE F == {s \in SUBSET S : s \in SUBSET U => g[s] = h[s]}
<1>1. ASSUME NEW T \in SUBSET S, \A V \in SUBSET T : V # T => V \in F
      PROVE  T \in F
  <2>1. CASE T = {}
    BY <2>1 DEF IsProducts
  <2>2. CASE T # {} /\ T \in SUBSET U
    <3>1. Pick(T) \in T
      BY <2>2, PickIn
    <3>2. T \ {Pick(T)} \in F
      BY <1>1, <3>1
    <3>3. g[T \ {Pick(T)}] = h[T \ {Pick(T)}]
      BY <2>2, <3>2
    <3>4. g[T] = f[Pick(T)] * g[T \ {Pick(T)}]
      BY <2>2 DEF IsProducts
    <3>5. h[T] = f[Pick(T)] * h[T \ {Pick(T)}]
      BY <2>2 DEF IsProducts
    <3> QED
      BY <3>3, <3>4, <3>5
  <2> QED
    BY <2>1, <2>2
<1> HIDE DEF F
<1>2. SUBSET S \subseteq F
  BY <1>1, SetInduction
<1> QED
  BY <1>2 DEF F

(***************************************************************************)
(* There is a function that computes the product of f over every subset of *)
(* a finite set, so the product is what its recursive definition says.     *)
(***************************************************************************)
LEMMA ProductsExist ==
  ASSUME NEW f, NEW S, IsFiniteSet(S)
  PROVE  IsProducts(ProductsOf(f, S), f, S)
<1> DEFINE F == {T \in SUBSET S : \E g : IsProducts(g, f, T)}
<1>1. ASSUME NEW T \in SUBSET S, \A V \in SUBSET T : V # T => V \in F
      PROVE  T \in F
  <2> DEFINE rest == T \ {Pick(T)}
             at(s) == ProductsOf(f, s)[s]
             g == [s \in SUBSET T |-> IF s = {} THEN 1
                                      ELSE f[Pick(s)] * at(s \ {Pick(s)})]
  <2>1. ASSUME NEW V \in SUBSET T, V # T
        PROVE  IsProducts(ProductsOf(f, V), f, V) /\ IsFiniteSet(V)
    <3>1. \E h : IsProducts(h, f, V)
      BY <1>1, <2>1
    <3> QED
      BY <3>1, FS_Subset DEF ProductsOf
  <2>2. ASSUME NEW V \in SUBSET T, V # T, V # {}
        PROVE  at(V) = f[Pick(V)] * at(V \ {Pick(V)})
    <3> DEFINE W == V \ {Pick(V)}
    <3>1. W \in SUBSET V /\ W \in SUBSET T /\ W # T
      <4>1. \E x \in T : x \notin V
        BY <2>2
      <4> QED
        BY <4>1
    <3>2. at(V) = f[Pick(V)] * ProductsOf(f, V)[W]
      BY <2>1, <2>2 DEF IsProducts
    <3>3. ProductsOf(f, V)[W] = ProductsOf(f, W)[W]
      <4>1. /\ IsFiniteSet(V)
            /\ IsProducts(ProductsOf(f, V), f, V)
            /\ IsProducts(ProductsOf(f, W), f, W)
        BY <2>1, <2>2, <3>1
      <4> QED
        BY <3>1, <4>1, ProductsUnique
    <3> QED
      BY <3>2, <3>3
  <2>3. ASSUME NEW V \in SUBSET T, V # T
        PROVE  g[V] = at(V)
    <3>1. CASE V = {}
      BY <2>1, <2>3, <3>1 DEF IsProducts
    <3>2. CASE V # {}
      BY <2>2, <2>3, <3>2
    <3> QED
      BY <3>1, <3>2
  <2>4. ASSUME NEW s \in SUBSET T, s # {}
        PROVE  at(s \ {Pick(s)}) = g[s \ {Pick(s)}]
    <3>1. s \ {Pick(s)} \in SUBSET T /\ s \ {Pick(s)} # T
      BY <2>4, PickIn
    <3> QED
      BY <2>3, <3>1
  <2> HIDE DEF at
  <2>5. g = [s \in SUBSET T |-> IF s = {} THEN 1
                                ELSE f[Pick(s)] * g[s \ {Pick(s)}]]
    BY <2>4
  <2>6. IsProducts(g, f, T)
    BY <2>5 DEF IsProducts
  <2> QED
    BY <2>6
<1> HIDE DEF F
<1>2. SUBSET S \subseteq F
  BY <1>1, SetInduction
<1>3. \E g : IsProducts(g, f, S)
  BY <1>2 DEF F
<1> QED
  BY <1>3 DEF ProductsOf

(***************************************************************************)
(* The product over the empty set.                                         *)
(***************************************************************************)
LEMMA ProductEmpty ==
  ASSUME NEW f
  PROVE  Product(f, {}) = 1
<1>1. IsProducts(ProductsOf(f, {}), f, {})
  BY ProductsExist, FS_EmptySet
<1>2. ProductsOf(f, {})[{}] = 1
  BY <1>1 DEF IsProducts
<1> QED
  BY <1>2, ProductsDef

(***************************************************************************)
(* The product over a set with members, one step of the recursion.         *)
(***************************************************************************)
LEMMA ProductPick ==
  ASSUME NEW f, NEW S, IsFiniteSet(S), S # {}
  PROVE  Product(f, S) = f[Pick(S)] * Product(f, S \ {Pick(S)})
<1> DEFINE rest == S \ {Pick(S)}
<1>1. IsFiniteSet(rest) /\ rest \in SUBSET S
  BY FS_Subset
<1>2. /\ IsProducts(ProductsOf(f, S), f, S)
      /\ IsProducts(ProductsOf(f, rest), f, rest)
  BY <1>1, ProductsExist
<1>3. ProductsOf(f, S)[rest] = ProductsOf(f, rest)[rest]
  BY <1>1, <1>2, ProductsUnique
<1>4. ProductsOf(f, S)[S] = f[Pick(S)] * ProductsOf(f, S)[rest]
  BY <1>2 DEF IsProducts
<1> QED
  BY <1>3, <1>4, ProductsDef

(***************************************************************************)
(* When no factor shrinks, the product of naturals does not shrink.        *)
(***************************************************************************)
LEMMA ProductsOrdered ==
  ASSUME NEW f, NEW g, NEW S, IsFiniteSet(S),
         \A x \in S : f[x] \in Nat /\ g[x] \in Nat /\ f[x] <= g[x]
  PROVE  /\ Product(f, S) \in Nat
         /\ Product(g, S) \in Nat
         /\ Product(f, S) <= Product(g, S)
<1> DEFINE P(T) == /\ Product(f, T) \in Nat
                   /\ Product(g, T) \in Nat
                   /\ Product(f, T) <= Product(g, T)
           F == {T \in SUBSET S : P(T)}
<1>1. ASSUME NEW T \in SUBSET S, \A U \in SUBSET T : U # T => U \in F
      PROVE  T \in F
  <2>1. CASE T = {}
    BY <2>1, ProductEmpty
  <2>2. CASE T # {}
    <3> DEFINE y == Pick(T)
               rest == T \ {y}
    <3>1. y \in T /\ IsFiniteSet(T)
      BY <2>2, PickIn, FS_Subset
    <3>2. P(rest)
      BY <1>1, <3>1
    <3>3. /\ Product(f, T) = f[y] * Product(f, rest)
          /\ Product(g, T) = g[y] * Product(g, rest)
      BY <2>2, <3>1, ProductPick
    <3>4. f[y] \in Nat /\ g[y] \in Nat /\ f[y] <= g[y]
      BY <3>1
    <3>5. \A a, b, c, d \in Nat : a <= b /\ c <= d =>
            a * c \in Nat /\ b * d \in Nat /\ a * c <= b * d
      <4>1. SUFFICES ASSUME NEW a \in Nat, NEW b \in Nat, NEW c \in Nat,
                            NEW d \in Nat, a <= b, c <= d
                     PROVE  a * c \in Nat /\ b * d \in Nat /\ a * c <= b * d
        OBVIOUS
      <4>2. a * c \in Nat /\ b * c \in Nat /\ b * d \in Nat
        OBVIOUS
      <4>3. PICK k \in Nat : b = a + k
        <5>1. b - a \in Nat /\ b = a + (b - a)
          BY <4>1
        <5> QED
          BY <5>1
      <4>4. PICK l \in Nat : d = c + l
        <5>1. d - c \in Nat /\ d = c + (d - c)
          BY <4>1
        <5> QED
          BY <5>1
      <4>5. b * c = a * c + k * c /\ b * d = b * c + b * l
        BY <4>3, <4>4
      <4>6. k * c \in Nat /\ b * l \in Nat
        OBVIOUS
      <4> QED
        BY <4>2, <4>5, <4>6
    <3> HIDE DEF y, rest
    <3> QED
      BY <3>2, <3>3, <3>4, <3>5
  <2> QED
    BY <2>1, <2>2
<1> HIDE DEF F
<1>2. SUBSET S \subseteq F
  BY <1>1, SetInduction
<1> QED
  BY <1>2 DEF F

-----------------------------------------------------------------------------
(***************************************************************************)
(* Whole division leaves a remainder below the divisor.                    *)
(***************************************************************************)
LEMMA DivisionWithRemainder ==
  ASSUME NEW m \in Nat \ {0}, NEW n \in Int
  PROVE  /\ n \div m \in Int
         /\ n % m \in 0 .. m - 1
         /\ n = m * (n \div m) + (n % m)
OBVIOUS

(***************************************************************************)
(* A product of positive numbers is at least each of them.                 *)
(***************************************************************************)
LEMMA ProductAtLeast ==
  ASSUME NEW m \in Nat \ {0}, NEW q \in Nat \ {0}
  PROVE  m * q >= m
OBVIOUS

(***************************************************************************)
(* The remainder is determined by the equation that it satisfies.          *)
(***************************************************************************)
LEMMA RemainderIs ==
  ASSUME NEW m \in Nat \ {0}, NEW q \in Int, NEW r \in 0 .. m - 1
  PROVE  (m * q + r) % m = r
<1> DEFINE n == m * q + r
           d == q - (n \div m)
<1>1. m * q \in Int /\ n \in Int
  OBVIOUS
<1>2. /\ n \div m \in Int /\ n % m \in 0 .. m - 1
      /\ n = m * (n \div m) + (n % m)
  BY <1>1, DivisionWithRemainder
<1>3. d \in Int /\ m * d = (n % m) - r
  <2> DEFINE k == n \div m
  <2> HIDE DEF k
  <2>1. k \in Int /\ n = m * k + (n % m)
    BY <1>2 DEF k
  <2>2. m * (q - k) = m * q - m * k /\ m * k \in Int
    BY <2>1
  <2> QED
    BY <2>1, <2>2, <1>1, <1>2 DEF k
<1> HIDE DEF d, n
<1>4. m * (-d) = -(m * d) /\ m * d \in Int
  BY <1>3
<1>5. ~(d > 0) /\ ~(d < 0)
  BY <1>2, <1>3, <1>4, ProductAtLeast
<1>6. d = 0
  BY <1>3, <1>5
<1> QED
  BY <1>2, <1>3, <1>6 DEF n

(***************************************************************************)
(* A counter that wraps around still counts: adding t modulo m to a part   *)
(* of a sum that is right modulo m leaves the sum right modulo m. (AreInt  *)
(* is cited unexpanded: a prover finds the four numbers by it.)            *)
(***************************************************************************)
AreInt(a, b, t, v) == a \in Int /\ b \in Int /\ t \in Int /\ v \in Int

LEMMA WrappedSum ==
  ASSUME NEW m \in Nat \ {0}, NEW a, NEW b, NEW t, NEW v,
         AreInt(a, b, t, v), (a + b) % m = v % m
  PROVE  (a + ((b + t) % m)) % m = (v + t) % m
<1> DEFINE x == (b + t) % m
           s == v % m
           r == (v + t) % m
<1>0. a \in Int /\ b \in Int /\ t \in Int /\ v \in Int
  BY DEF AreInt
<1>1. \A n \in Int : \E q \in Int : n = m * q + (n % m)
  BY DivisionWithRemainder
<1>2. a + b \in Int /\ b + t \in Int /\ v + t \in Int
  BY <1>0
<1>3. PICK qab \in Int, qv \in Int : a + b = m * qab + s /\ v = m * qv + s
  BY <1>0, <1>1, <1>2
<1>4. PICK qbt \in Int, qvt \in Int :
        b + t = m * qbt + x /\ v + t = m * qvt + r
  BY <1>0, <1>1, <1>2
<1>5. s \in 0 .. m - 1 /\ x \in 0 .. m - 1 /\ r \in 0 .. m - 1
  BY <1>0, <1>2, DivisionWithRemainder
<1> HIDE DEF x, s, r
<1> DEFINE q == ((qab - qbt) - qv) + qvt
<1>6. m * q = ((m * qab - m * qbt) - m * qv) + m * qvt
  OBVIOUS
<1>7. /\ m * qab \in Int /\ m * qbt \in Int /\ m * qv \in Int
      /\ m * qvt \in Int /\ q \in Int
  OBVIOUS
<1>8. a + x = m * q + r
  BY <1>0, <1>3, <1>4, <1>5, <1>6, <1>7
<1>9. (m * q + r) % m = r
  BY <1>5, <1>7, RemainderIs
<1> QED
  BY <1>8, <1>9 DEF x, r

=============================================================================
