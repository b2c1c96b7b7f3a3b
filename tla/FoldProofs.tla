----------------------------- MODULE FoldProofs -----------------------------
(* Induction over numbers and over finite sets, what follows of the sums    *)
(* the models take and of sorted pages, and sequences of whatever they      *)
(* contain.  A property is given as the set of what has it.                 *)
EXTENDS Integers, FiniteSets, Sequences, Functions,
  FiniteSetTheorems, SequenceTheorems, WellFoundedInduction, TLAPS

LEMMA LeastNat ==
  ASSUME NEW S, S \subseteq Nat, S # {}
  PROVE  \E n \in S : \A m \in S : n <= m
<1> DEFINE R == OpToRel(<, Nat)
<1>1. IsWellFoundedOn(R, Nat)
  BY NatLessThanWellFounded
<1>2. \A x, y \in Nat : y < x => <<y, x>> \in R
  BY DEF OpToRel
<1> HIDE DEF R
<1>3. PICK n \in S : \A m \in S : ~(<<m, n>> \in R)
  BY <1>1, WFMin
<1>4. ASSUME NEW m \in S PROVE n <= m
  <2>1. n \in Nat /\ m \in Nat
    OBVIOUS
  <2>2. ~(m < n)
    BY <2>1, <1>2, <1>3
  <2> QED BY <2>1, <2>2
<1> QED BY <1>4

LEMMA NatSetInduction ==
  ASSUME NEW Good, 0 \in Good, \A n \in Nat : n \in Good => n + 1 \in Good
  PROVE  \A n \in Nat : n \in Good
<1> SUFFICES ASSUME Nat \ Good # {} PROVE FALSE
  OBVIOUS
<1>1. PICK n \in Nat \ Good : \A m \in Nat \ Good : n <= m
  BY LeastNat
<1>2. n # 0 /\ n - 1 \in Nat
  BY <1>1
<1>3. n - 1 \in Good
  BY <1>1, <1>2
<1> QED BY <1>1, <1>2, <1>3

(* A property that a set has when all its proper subsets have it.           *)
LEMMA SubsetInduction ==
  ASSUME NEW S, IsFiniteSet(S), NEW Good,
         \A T \in SUBSET S : (\A U \in SUBSET T : U # T => U \in Good) => T \in Good
  PROVE  S \in Good
<1> SUFFICES ASSUME S \notin Good PROVE FALSE
  OBVIOUS
<1> DEFINE Bad == (SUBSET S) \ Good
           Sizes == {Cardinality(T) : T \in Bad}
<1>1. S \in Bad
  OBVIOUS
<1>2. \A T \in SUBSET S : IsFiniteSet(T) /\ Cardinality(T) \in Nat
  BY FS_Subset, FS_CardinalityType
<1>3. PICK n \in Sizes : \A m \in Sizes : n <= m
  <2>1. Sizes \subseteq Nat /\ Sizes # {}
    BY <1>1, <1>2
  <2> HIDE DEF Sizes
  <2> QED BY <2>1, LeastNat
<1>4. PICK T \in Bad : Cardinality(T) = n
  BY <1>3
<1>5. ASSUME NEW U \in SUBSET T, U # T PROVE U \in Good
  <2>1. Cardinality(U) <= Cardinality(T) /\ Cardinality(U) # Cardinality(T)
    BY <1>2, <1>5, FS_Subset
  <2>2. Cardinality(U) \in Nat /\ n \in Nat /\ U \in SUBSET S
    BY <1>2, <1>4
  <2>3. ~(n <= Cardinality(U))
    BY <1>4, <2>1, <2>2
  <2> QED BY <1>3, <2>2, <2>3
<1> QED BY <1>4, <1>5

---------------------------------------------------------------------------
(* Sums (SumFunctionOnSet) *)

Choice(s) == CHOOSE x \in s : TRUE

SumOf(sum, f, s) == IF s = {} THEN 0 ELSE f[Choice(s)] + sum[s \ {Choice(s)}]

(* sum[s] is the sum of f over s, for the subsets s of S.                   *)
SumsUp(sum, f, S) == sum = [s \in SUBSET S |-> SumOf(sum, f, s)]

LEMMA SumIsChosen ==
  ASSUME NEW f, NEW S
  PROVE  SumFunctionOnSet(f, S) = (CHOOSE sum : SumsUp(sum, f, S))[S]
BY DEF SumFunctionOnSet, FoldFunctionOnSet, MapThenFoldSet, SumsUp, SumOf, Choice

LEMMA ChoiceShrinks ==
  ASSUME NEW S, IsFiniteSet(S), S # {}
  PROVE  /\ Choice(S) \in S
         /\ S \ {Choice(S)} \in SUBSET S
         /\ IsFiniteSet(S \ {Choice(S)})
         /\ Cardinality(S \ {Choice(S)}) = Cardinality(S) - 1
         /\ Cardinality(S) \in Nat /\ Cardinality(S) > 0
<1>1. Choice(S) \in S
  BY DEF Choice
<1>2. Cardinality(S) \in Nat /\ Cardinality(S) # 0
  BY FS_CardinalityType, FS_EmptySet
<1> QED BY <1>1, <1>2, FS_RemoveElement

(* The subsets with at most n elements. *)
UpTo(S, n) == {s \in SUBSET S : Cardinality(s) <= n}

(* The recursive function that SumFunctionOnSet chooses exists.             *)
LEMMA SumExists ==
  ASSUME NEW f, NEW S, IsFiniteSet(S)
  PROVE  \E sum : SumsUp(sum, f, S)
<1> DEFINE Good == {n \in Nat : \E sum : sum = [s \in UpTo(S, n) |-> SumOf(sum, f, s)]}
<1>1. \A s \in SUBSET S : IsFiniteSet(s) /\ Cardinality(s) \in Nat
  BY FS_Subset, FS_CardinalityType
<1>2. 0 \in Good
  <2> DEFINE sum == [s \in UpTo(S, 0) |-> 0]
  <2>1. \A s \in UpTo(S, 0) : s = {}
    BY <1>1, FS_EmptySet DEF UpTo
  <2>2. sum = [s \in UpTo(S, 0) |-> SumOf(sum, f, s)]
    BY <2>1 DEF SumOf
  <2> QED BY <2>2
<1>3. ASSUME NEW n \in Nat, n \in Good PROVE n + 1 \in Good
  <2>1. PICK sum : sum = [s \in UpTo(S, n) |-> SumOf(sum, f, s)]
    BY <1>3
  <2> DEFINE next == [s \in UpTo(S, n + 1) |-> SumOf(sum, f, s)]
  <2>2. ASSUME NEW s \in UpTo(S, n + 1), s # {}
        PROVE  next[s \ {Choice(s)}] = sum[s \ {Choice(s)}]
    <3>1. s \ {Choice(s)} \in UpTo(S, n) /\ s \ {Choice(s)} \in UpTo(S, n + 1)
      BY <1>1, <2>2, ChoiceShrinks DEF UpTo
    <3>2. sum[s \ {Choice(s)}] = SumOf(sum, f, s \ {Choice(s)})
      BY <2>1, <3>1
    <3> QED BY <3>1, <3>2
  <2>3. \A s \in UpTo(S, n + 1) : SumOf(next, f, s) = SumOf(sum, f, s)
    <3> HIDE DEF next
    <3> QED BY <2>2 DEF SumOf
  <2>4. next = [s \in UpTo(S, n + 1) |-> SumOf(next, f, s)]
    BY <2>3
  <2> HIDE DEF next
  <2>5. \E f2 : f2 = [s \in UpTo(S, n + 1) |-> SumOf(f2, f, s)]
    BY <2>4
  <2> QED BY <2>5
<1>4. Cardinality(S) \in Good
  <2> HIDE DEF Good
  <2> QED BY <1>1, <1>2, <1>3, NatSetInduction
<1>5. UpTo(S, Cardinality(S)) = SUBSET S
  BY FS_Subset DEF UpTo
<1> QED BY <1>4, <1>5 DEF SumsUp

LEMMA SumUnique ==
  ASSUME NEW f, NEW S, NEW T, IsFiniteSet(T), T \subseteq S,
         NEW one, SumsUp(one, f, S), NEW two, SumsUp(two, f, T)
  PROVE  one[T] = two[T]
<1> DEFINE Good == {s \in SUBSET T : one[s] = two[s]}
<1>1. ASSUME NEW s \in SUBSET T, \A u \in SUBSET s : u # s => u \in Good
      PROVE  s \in Good
  <2>1. one[s] = SumOf(one, f, s) /\ two[s] = SumOf(two, f, s)
    BY DEF SumsUp
  <2>2. s # {} => one[s \ {Choice(s)}] = two[s \ {Choice(s)}]
    BY <1>1 DEF Choice
  <2> QED BY <2>1, <2>2 DEF SumOf
<1>2. T \in Good
  <2> HIDE DEF Good
  <2> QED BY <1>1, SubsetInduction
<1> QED BY <1>2

(* The equation of the recursive definition. *)
LEMMA SumDef ==
  ASSUME NEW f, NEW S, IsFiniteSet(S)
  PROVE  SumFunctionOnSet(f, S) =
           IF S = {} THEN 0
           ELSE f[Choice(S)] + SumFunctionOnSet(f, S \ {Choice(S)})
<1> DEFINE T == S \ {Choice(S)}
           one == CHOOSE sum : SumsUp(sum, f, S)
           two == CHOOSE sum : SumsUp(sum, f, T)
<1>1. IsFiniteSet(T) /\ T \subseteq S
  BY FS_Subset
<1>2. SumsUp(one, f, S) /\ SumsUp(two, f, T)
  BY <1>1, SumExists
<1>3. SumFunctionOnSet(f, S) = one[S] /\ SumFunctionOnSet(f, T) = two[T]
  BY SumIsChosen
<1> HIDE DEF one, two, T
<1>4. one[S] = SumOf(one, f, S)
  BY <1>2 DEF SumsUp
<1>5. one[T] = two[T]
  BY <1>1, <1>2, SumUnique
<1> QED BY <1>3, <1>4, <1>5 DEF SumOf, T

LEMMA SumEmpty ==
  ASSUME NEW f
  PROVE  SumFunctionOnSet(f, {}) = 0
BY SumDef, FS_EmptySet

(* Sums of numbers do not depend on the order that CHOOSE takes.            *)
LEMMA SumTakeOne ==
  ASSUME NEW S, IsFiniteSet(S), NEW f, \A x \in S : f[x] \in Int
  PROVE  /\ SumFunctionOnSet(f, S) \in Int
         /\ \A x \in S : SumFunctionOnSet(f, S) = f[x] + SumFunctionOnSet(f, S \ {x})
<1> DEFINE sum(T) == SumFunctionOnSet(f, T)
           Fine(T) == sum(T) \in Int /\ \A x \in T : sum(T) = f[x] + sum(T \ {x})
           Good == {T \in SUBSET S : Fine(T)}
<1>1. \A T \in SUBSET S : IsFiniteSet(T)
  BY FS_Subset
<1>2. \A T \in SUBSET S : T # {} => Choice(T) \in T /\ sum(T) = f[Choice(T)] + sum(T \ {Choice(T)})
  BY <1>1, SumDef, ChoiceShrinks
<1>3. sum({}) = 0
  BY SumEmpty
<1> HIDE DEF sum
<1>4. ASSUME NEW T \in SUBSET S, \A U \in SUBSET T : U # T => U \in Good
      PROVE  T \in Good
  <2>1. CASE T = {}
    BY <1>3, <2>1
  <2>2. CASE T # {}
    <3> DEFINE c == Choice(T)
    <3>1. c \in T /\ sum(T) = f[c] + sum(T \ {c}) /\ f[c] \in Int
      BY <1>2, <2>2
    <3> HIDE DEF c
    <3>2. \A x \in T : Fine(T \ {x})
      BY <1>4
    <3>3. sum(T) \in Int
      BY <3>1, <3>2
    <3>4. ASSUME NEW x \in T, x # c PROVE sum(T) = f[x] + sum(T \ {x})
      <4>1. (T \ {c}) \ {x} = (T \ {x}) \ {c}
        OBVIOUS
      <4>2. sum(T \ {c}) = f[x] + sum((T \ {x}) \ {c})
        BY <3>1, <3>2, <3>4, <4>1
      <4>3. sum(T \ {x}) = f[c] + sum((T \ {x}) \ {c})
        BY <3>1, <3>2, <3>4
      <4>4. sum((T \ {x}) \ {c}) \in Int
        <5>1. (T \ {x}) \ {c} \in SUBSET T /\ (T \ {x}) \ {c} # T
          BY <3>1
        <5> QED BY <1>4, <5>1
      <4>5. f[x] \in Int
        OBVIOUS
      <4> QED BY <3>1, <4>2, <4>3, <4>4, <4>5
    <3> QED BY <3>1, <3>3, <3>4
  <2> QED BY <2>1, <2>2
<1>5. S \in Good
  <2> HIDE DEF Good
  <2> QED BY <1>4, SubsetInduction
<1> QED BY <1>5 DEF sum

LEMMA SumNat ==
  ASSUME NEW S, IsFiniteSet(S), NEW f, \A x \in S : f[x] \in Nat
  PROVE  /\ SumFunctionOnSet(f, S) \in Nat
         /\ \A x \in S : f[x] <= SumFunctionOnSet(f, S)
<1> DEFINE sum(T) == SumFunctionOnSet(f, T)
           Good == {T \in SUBSET S : sum(T) \in Nat}
<1>1. \A T \in SUBSET S : IsFiniteSet(T)
  BY FS_Subset
<1>2. \A T \in SUBSET S : \A x \in T : sum(T) = f[x] + sum(T \ {x})
  <2> TAKE T \in SUBSET S
  <2>1. \A x \in T : f[x] \in Int
    OBVIOUS
  <2> QED BY <1>1, <2>1, SumTakeOne
<1>3. sum({}) = 0
  BY SumEmpty
<1> HIDE DEF sum
<1>4. ASSUME NEW T \in SUBSET S, \A U \in SUBSET T : U # T => U \in Good
      PROVE  T \in Good
  <2>1. CASE T = {}
    BY <1>3, <2>1
  <2>2. ASSUME NEW x \in T PROVE T \in Good
    <3>1. sum(T \ {x}) \in Nat /\ f[x] \in Nat
      BY <1>4
    <3> QED BY <1>2, <3>1
  <2> QED BY <2>1, <2>2
<1>5. \A T \in SUBSET S : T \in Good
  <2> HIDE DEF Good
  <2> TAKE T \in SUBSET S
  <2> QED BY <1>1, <1>4, SubsetInduction
<1>6. ASSUME NEW x \in S PROVE f[x] <= sum(S)
  <2>1. sum(S \ {x}) \in Nat /\ f[x] \in Nat /\ sum(S) = f[x] + sum(S \ {x})
    BY <1>2, <1>5
  <2> QED BY <2>1
<1> QED BY <1>5, <1>6 DEF sum

LEMMA SumSame ==
  ASSUME NEW S, IsFiniteSet(S), NEW f, NEW g,
         \A x \in S : f[x] \in Int /\ g[x] = f[x]
  PROVE  SumFunctionOnSet(g, S) = SumFunctionOnSet(f, S)
<1> DEFINE Good == {T \in SUBSET S : SumFunctionOnSet(g, T) = SumFunctionOnSet(f, T)}
<1>1. \A T \in SUBSET S : IsFiniteSet(T)
  BY FS_Subset
<1>2. ASSUME NEW T \in SUBSET S, \A U \in SUBSET T : U # T => U \in Good
      PROVE  T \in Good
  <2>1. CASE T = {}
    BY <2>1, SumEmpty
  <2>2. CASE T # {}
    <3>1. Choice(T) \in T
      BY <2>2 DEF Choice
    <3>2. T \ {Choice(T)} \in Good
      BY <1>2, <3>1
    <3> QED BY <1>1, <2>2, <3>1, <3>2, SumDef
  <2> QED BY <2>1, <2>2
<1>3. S \in Good
  <2> HIDE DEF Good
  <2> QED BY <1>2, SubsetInduction
<1> QED BY <1>3

(* One summand changes. *)
LEMMA SumChange ==
  ASSUME NEW S, IsFiniteSet(S), NEW f, NEW g, NEW x \in S,
         \A y \in S : f[y] \in Int, g[x] \in Int,
         \A y \in S \ {x} : g[y] = f[y]
  PROVE  SumFunctionOnSet(g, S) = SumFunctionOnSet(f, S) - f[x] + g[x]
<1>1. IsFiniteSet(S \ {x})
  BY FS_Subset
<1>2. SumFunctionOnSet(g, S \ {x}) = SumFunctionOnSet(f, S \ {x})
  BY <1>1, SumSame
<1>3. SumFunctionOnSet(f, S \ {x}) \in Int
  BY <1>1, SumTakeOne
<1>4. SumFunctionOnSet(f, S) = f[x] + SumFunctionOnSet(f, S \ {x})
  BY SumTakeOne
<1>5. \A y \in S : g[y] \in Int
  OBVIOUS
<1>6. SumFunctionOnSet(g, S) = g[x] + SumFunctionOnSet(g, S \ {x})
  BY <1>5, SumTakeOne
<1>7. f[x] \in Int
  OBVIOUS
<1> QED BY <1>2, <1>3, <1>4, <1>6, <1>7

(* Zeros add up to zero. *)
LEMMA SumZero ==
  ASSUME NEW S, IsFiniteSet(S), NEW f, \A x \in S : f[x] = 0
  PROVE  SumFunctionOnSet(f, S) = 0
<1> DEFINE Good == {T \in SUBSET S : SumFunctionOnSet(f, T) = 0}
<1>1. \A T \in SUBSET S : IsFiniteSet(T)
  BY FS_Subset
<1>2. ASSUME NEW T \in SUBSET S, \A U \in SUBSET T : U # T => U \in Good
      PROVE  T \in Good
  <2>1. CASE T = {}
    BY <2>1, SumEmpty
  <2>2. CASE T # {}
    <3>1. Choice(T) \in T
      BY <2>2 DEF Choice
    <3>2. T \ {Choice(T)} \in Good
      BY <1>2, <3>1
    <3> QED BY <1>1, <2>2, <3>1, <3>2, SumDef
  <2> QED BY <2>1, <2>2
<1>3. S \in Good
  <2> HIDE DEF Good
  <2> QED BY <1>2, SubsetInduction
<1> QED BY <1>3

(* A part sums to no more than the whole. *)
LEMMA SumPart ==
  ASSUME NEW S, IsFiniteSet(S), NEW f, \A x \in S : f[x] \in Nat, NEW P \in SUBSET S
  PROVE  SumFunctionOnSet(f, P) <= SumFunctionOnSet(f, S)
<1> DEFINE sum(T) == SumFunctionOnSet(f, T)
           Good == {T \in SUBSET S : sum(T \cap P) <= sum(T)}
<1>1. \A T \in SUBSET S : IsFiniteSet(T)
  BY FS_Subset
<1>2. \A T \in SUBSET S : sum(T) \in Nat
  BY <1>1, SumNat
<1>3. \A T \in SUBSET S : \A x \in T : sum(T) = f[x] + sum(T \ {x})
  <2> TAKE T \in SUBSET S
  <2>1. \A x \in T : f[x] \in Int
    OBVIOUS
  <2> QED BY <1>1, <2>1, SumTakeOne
<1> HIDE DEF sum
<1>4. ASSUME NEW T \in SUBSET S, \A U \in SUBSET T : U # T => U \in Good
      PROVE  T \in Good
  <2>1. CASE T = {}
    <3>1. T \cap P = T
      BY <2>1
    <3> QED BY <1>2, <3>1
  <2>2. CASE T # {}
    <3>1. PICK c \in T : TRUE
      BY <2>2
    <3>2. sum((T \ {c}) \cap P) <= sum(T \ {c})
      BY <1>4, <3>1
    <3>3. sum(T) = f[c] + sum(T \ {c}) /\ f[c] \in Nat
      BY <1>3, <3>1
    <3>4. sum(T \ {c}) \in Nat /\ sum((T \ {c}) \cap P) \in Nat
      BY <1>2
    <3>5. CASE c \in P
      <4>1. (T \cap P) \ {c} = (T \ {c}) \cap P
        OBVIOUS
      <4>2. sum(T \cap P) = f[c] + sum((T \ {c}) \cap P)
        BY <1>3, <3>1, <3>5, <4>1
      <4> QED BY <3>2, <3>3, <3>4, <4>2
    <3>6. CASE c \notin P
      <4>1. T \cap P = (T \ {c}) \cap P
        BY <3>6
      <4>2. sum(T \cap P) <= sum(T \ {c})
        BY <3>2, <4>1
      <4>3. sum(T \ {c}) <= sum(T)
        BY <3>3, <3>4
      <4>4. sum(T \cap P) \in Nat /\ sum(T) \in Nat
        BY <1>2
      <4>5. sum(T \cap P) <= sum(T)
        BY <3>4, <4>2, <4>3, <4>4
      <4> QED BY <4>5
    <3> QED BY <3>5, <3>6
  <2> QED BY <2>1, <2>2
<1>5. S \in Good
  <2> HIDE DEF Good
  <2> QED BY <1>4, SubsetInduction
<1>6. S \cap P = P
  OBVIOUS
<1> QED BY <1>5, <1>6 DEF sum

LEMMA SumSplit ==
  ASSUME NEW S, IsFiniteSet(S), NEW f, \A x \in S : f[x] \in Int, NEW P \in SUBSET S
  PROVE  /\ SumFunctionOnSet(f, S) = SumFunctionOnSet(f, P) + SumFunctionOnSet(f, S \ P)
         /\ SumFunctionOnSet(f, P) \in Int /\ SumFunctionOnSet(f, S \ P) \in Int
<1> DEFINE sum(T) == SumFunctionOnSet(f, T)
           Good == {T \in SUBSET P : sum(S) = sum(T) + sum(S \ T)}
<1>1. \A T \in SUBSET S : IsFiniteSet(T)
  BY FS_Subset
<1>2. \A T \in SUBSET S : sum(T) \in Int /\ \A x \in T : sum(T) = f[x] + sum(T \ {x})
  <2> TAKE T \in SUBSET S
  <2>1. \A x \in T : f[x] \in Int
    OBVIOUS
  <2> QED BY <1>1, <2>1, SumTakeOne
<1>3. sum({}) = 0
  BY SumEmpty
<1> HIDE DEF sum
<1>4. ASSUME NEW T \in SUBSET P, \A U \in SUBSET T : U # T => U \in Good
      PROVE  T \in Good
  <2>1. CASE T = {}
    <3>1. S \ T = S
      BY <2>1
    <3>2. sum(S) \in Int
      BY <1>2
    <3> QED BY <1>3, <2>1, <3>1, <3>2
  <2>2. CASE T # {}
    <3>1. PICK c \in T : TRUE
      BY <2>2
    <3>2. sum(S) = sum(T \ {c}) + sum(S \ (T \ {c}))
      BY <1>4, <3>1
    <3>3. sum(T) = f[c] + sum(T \ {c}) /\ f[c] \in Int
      BY <1>2, <3>1
    <3>4. c \in S \ (T \ {c}) /\ (S \ (T \ {c})) \ {c} = S \ T
      BY <3>1
    <3>5. sum(S \ (T \ {c})) = f[c] + sum(S \ T)
      BY <1>2, <3>4
    <3>6. sum(T \ {c}) \in Int /\ sum(S \ T) \in Int
      BY <1>2
    <3> QED BY <3>2, <3>3, <3>5, <3>6
  <2> QED BY <2>1, <2>2
<1>5. P \in Good
  <2>1. IsFiniteSet(P)
    BY <1>1
  <2> HIDE DEF Good
  <2> QED BY ONLY <1>4, <2>1, SubsetInduction
<1> QED BY <1>2, <1>5 DEF sum

---------------------------------------------------------------------------
(* Orders *)

(* R holds of any two elements of S one way and one way only.               *)
Orders(R, S) ==
  /\ \A x, y \in S : x # y => <<x, y>> \in R \/ <<y, x>> \in R
  /\ \A x \in S : <<x, x>> \notin R
  /\ \A x, y, z \in S : <<x, y>> \in R /\ <<y, z>> \in R => <<x, z>> \in R

Lists(s, S, R) ==
  /\ s \in [1..Cardinality(S) -> S]
  /\ \A i, j \in 1..Cardinality(S) : i < j => <<s[i], s[j]>> \in R

(* A finite set can be listed in order: each element's place is the number  *)
(* of those before it.                                                      *)
LEMMA OrderedListing ==
  ASSUME NEW S, IsFiniteSet(S), NEW R, Orders(R, S)
  PROVE  \E s : Lists(s, S, R)
<1> DEFINE n == Cardinality(S)
           Below(x) == {y \in S : <<y, x>> \in R}
           rank == [x \in S |-> Cardinality(Below(x)) + 1]
<1>1. n \in Nat
  BY FS_CardinalityType
<1>2. ASSUME NEW x \in S
      PROVE  IsFiniteSet(Below(x)) /\ Cardinality(Below(x)) \in Nat /\ Cardinality(Below(x)) < n
  <2>1. Below(x) \in SUBSET S /\ Below(x) # S
    BY DEF Orders
  <2> HIDE DEF Below
  <2>2. IsFiniteSet(Below(x)) /\ Cardinality(Below(x)) <= n /\ n # Cardinality(Below(x))
    BY <2>1, FS_Subset
  <2>3. Cardinality(Below(x)) \in Nat
    BY <2>2, FS_CardinalityType
  <2> QED BY <1>1, <2>2, <2>3
<1>3. ASSUME NEW x \in S, NEW y \in S, <<x, y>> \in R
      PROVE  Cardinality(Below(x)) < Cardinality(Below(y))
  <2>1. Below(x) \in SUBSET Below(y) /\ Below(x) # Below(y)
    BY <1>3 DEF Orders
  <2>2. IsFiniteSet(Below(y)) /\ Cardinality(Below(x)) \in Nat /\ Cardinality(Below(y)) \in Nat
    BY <1>2
  <2> HIDE DEF Below
  <2>3. Cardinality(Below(x)) <= Cardinality(Below(y)) /\ Cardinality(Below(y)) # Cardinality(Below(x))
    BY <2>1, <2>2, FS_Subset
  <2> QED BY <2>2, <2>3
<1> HIDE DEF Below
<1>4. rank \in [S -> 1..n] /\ \A x, y \in S : <<x, y>> \in R => rank[x] < rank[y]
  <2>1. \A x \in S : rank[x] \in 1..n
    BY <1>1, <1>2
  <2>2. ASSUME NEW x \in S, NEW y \in S, <<x, y>> \in R PROVE rank[x] < rank[y]
    BY <1>2, <1>3, <2>2
  <2> QED BY <2>1, <2>2
<1> HIDE DEF rank
<1>5. \A x, y \in S : rank[x] = rank[y] => x = y
  <2> SUFFICES ASSUME NEW x \in S, NEW y \in S, rank[x] = rank[y], x # y PROVE FALSE
    OBVIOUS
  <2>1. rank[x] \in Int /\ rank[y] \in Int
    BY <1>1, <1>4
  <2>2. <<x, y>> \in R \/ <<y, x>> \in R
    BY DEF Orders
  <2>3. rank[x] < rank[y] \/ rank[y] < rank[x]
    BY <1>4, <2>2
  <2> QED BY <2>1, <2>3
<1>6. rank \in Injection(S, 1..n)
  BY <1>4, <1>5 DEF Injection, IsInjective
<1>7. IsFiniteSet(1..n) /\ Cardinality(1..n) = n
  BY <1>1, FS_Interval
<1>8. rank \in Surjection(S, 1..n)
  BY <1>6, <1>7, FS_Injection
<1>9. \A i \in 1..n : \E x \in S : rank[x] = i
  BY <1>8 DEF Surjection
<1> DEFINE s == [i \in 1..n |-> CHOOSE x \in S : rank[x] = i]
<1>10. \A i \in 1..n : s[i] \in S /\ rank[s[i]] = i
  BY <1>9
<1>11. s \in [1..n -> S]
  BY <1>10
<1> HIDE DEF s
<1>12. ASSUME NEW i \in 1..n, NEW j \in 1..n, i < j PROVE <<s[i], s[j]>> \in R
  <2>1. i \in Int /\ j \in Int /\ i # j /\ ~(j < i)
    BY <1>1, <1>12
  <2>2. s[i] \in S /\ s[j] \in S /\ rank[s[i]] = i /\ rank[s[j]] = j
    BY <1>10
  <2>3. s[i] # s[j]
    BY <2>1, <2>2
  <2>4. ~(<<s[j], s[i]>> \in R)
    BY <1>4, <2>1, <2>2
  <2> QED BY <2>2, <2>3, <2>4 DEF Orders
<1> QED BY <1>11, <1>12 DEF Lists

(* A listing names every element. *)
LEMMA ListingIsComplete ==
  ASSUME NEW S, IsFiniteSet(S), NEW R, Orders(R, S), NEW s, Lists(s, S, R)
  PROVE  /\ Cardinality(S) \in Nat
         /\ s \in Seq(S) /\ Len(s) = Cardinality(S)
         /\ \A x \in S : \E i \in 1..Cardinality(S) : s[i] = x
<1> DEFINE n == Cardinality(S)
<1>1. n \in Nat /\ IsFiniteSet(1..n) /\ Cardinality(1..n) = n
  <2>1. n \in Nat
    BY FS_CardinalityType
  <2> QED BY <2>1, FS_Interval
<1>2. \A i, j \in 1..n : s[i] = s[j] => i = j
  <2> SUFFICES ASSUME NEW i \in 1..n, NEW j \in 1..n, s[i] = s[j], i # j PROVE FALSE
    OBVIOUS
  <2>1. i < j \/ j < i
    BY <1>1
  <2>2. <<s[i], s[i]>> \in R /\ s[i] \in S
    BY <2>1 DEF Lists
  <2> QED BY <2>2 DEF Orders
<1>3. s \in Injection(1..n, S)
  BY <1>2 DEF Injection, IsInjective, Lists
<1>4. s \in Surjection(1..n, S)
  BY <1>1, <1>3, FS_Injection
<1>5. \A x \in S : \E i \in 1..n : s[i] = x
  BY <1>4 DEF Surjection
<1>6. s \in Seq(S) /\ Len(s) = n
  BY <1>1 DEF Lists
<1> QED BY <1>1, <1>5, <1>6

StartsWith(p, s, limit) == p = SubSeq(s, 1, IF Len(s) < limit THEN Len(s) ELSE limit)

(* p is a page of S: what it leaves out comes after all it names, and it is *)
(* as long as it may be then.                                               *)
IsPage(p, S, R, limit) ==
  /\ p \in Seq(S) /\ Len(p) \in Nat /\ Len(p) <= limit
  /\ \A x \in S : \/ \E i \in 1..Len(p) : p[i] = x
                  \/ Len(p) = limit /\ \A i \in 1..Len(p) : <<p[i], x>> \in R

LEMMA FirstOfListing ==
  ASSUME NEW S, IsFiniteSet(S), NEW R, Orders(R, S), NEW s, Lists(s, S, R),
         NEW limit \in Nat, NEW p, StartsWith(p, s, limit)
  PROVE  IsPage(p, S, R, limit)
<1> DEFINE n == Cardinality(S)
           m == IF n < limit THEN n ELSE limit
<1>1. /\ n \in Nat /\ s \in Seq(S) /\ Len(s) = n
      /\ \A x \in S : \E i \in 1..n : s[i] = x
  BY ListingIsComplete
<1>2. m \in Nat /\ m <= n /\ m <= limit
  BY <1>1
<1>3. p = SubSeq(s, 1, m)
  BY <1>1 DEF StartsWith
<1> HIDE DEF n, m
<1>4. p \in Seq(S) /\ Len(p) = m /\ \A i \in 1..m : p[i] = s[i]
  BY <1>1, <1>2, <1>3
<1>5. ASSUME NEW x \in S, ~(\E i \in 1..m : p[i] = x)
      PROVE  m = limit /\ \A i \in 1..m : <<p[i], x>> \in R
  <2>1. PICK k \in 1..n : s[k] = x
    BY <1>1
  <2>2. ~(k \in 1..m)
    BY <1>4, <1>5, <2>1
  <2>3. m < k /\ m # n
    BY <1>1, <1>2, <2>1, <2>2
  <2>4. m = limit
    BY <2>3 DEF m
  <2>5. \A i \in 1..m : <<s[i], s[k]>> \in R
    BY <1>1, <1>2, <2>1, <2>3 DEF Lists, n
  <2> QED BY <1>4, <2>1, <2>4, <2>5
<1> QED BY <1>2, <1>4, <1>5 DEF IsPage

---------------------------------------------------------------------------
(* Sequences of whatever they contain *)

Elements(s) == { s[i] : i \in 1..Len(s) }
IsRow(s) == s \in Seq(Elements(s))

LEMMA RowOf ==
  ASSUME NEW S, NEW s \in Seq(S)
  PROVE  IsRow(s) /\ Len(s) \in Nat
<1>1. Len(s) \in Nat /\ s = [i \in 1..Len(s) |-> s[i]]
  OBVIOUS
<1>2. s \in [1..Len(s) -> Elements(s)]
  BY <1>1 DEF Elements
<1> QED BY <1>1, <1>2, SeqDef DEF IsRow

LEMMA RowGrows ==
  ASSUME NEW s, IsRow(s), NEW e
  PROVE  /\ IsRow(Append(s, e)) /\ Len(s) \in Nat
         /\ Len(Append(s, e)) = Len(s) + 1
         /\ Append(s, e)[Len(s) + 1] = e
         /\ \A i \in 1..Len(s) : Append(s, e)[i] = s[i]
<1> DEFINE S == Elements(s) \cup {e}
<1>1. s \in Seq(S) /\ e \in S
  BY SeqMonotonic DEF IsRow
<1> HIDE DEF S
<1>2. /\ Append(s, e) \in Seq(S) /\ Len(Append(s, e)) = Len(s) + 1
      /\ \A i \in 1..Len(s) : Append(s, e)[i] = s[i]
      /\ Append(s, e)[Len(s) + 1] = e
  BY <1>1, AppendProperties
<1> QED BY <1>1, <1>2, RowOf

LEMMA RowJoins ==
  ASSUME NEW s, NEW t, IsRow(s), IsRow(t)
  PROVE  /\ IsRow(s \o t) /\ Len(s) \in Nat /\ Len(t) \in Nat
         /\ Len(s \o t) = Len(s) + Len(t)
         /\ \A i \in 1..Len(s) : (s \o t)[i] = s[i]
         /\ \A i \in 1..Len(t) : (s \o t)[Len(s) + i] = t[i]
<1> DEFINE S == Elements(s) \cup Elements(t)
<1>1. s \in Seq(S) /\ t \in Seq(S)
  BY SeqMonotonic DEF IsRow
<1> HIDE DEF S
<1>2. Len(s) \in Nat /\ Len(t) \in Nat
  BY <1>1
<1>3. s \o t \in Seq(S) /\ Len(s \o t) = Len(s) + Len(t)
  BY <1>1, ConcatProperties
<1>4. \A i \in 1..Len(s) + Len(t) : (s \o t)[i] = IF i <= Len(s) THEN s[i] ELSE t[i - Len(s)]
  BY <1>1, ConcatProperties
<1>5. ASSUME NEW i \in 1..Len(t) PROVE (s \o t)[Len(s) + i] = t[i]
  <2>1. Len(s) + i \in 1..Len(s) + Len(t) /\ ~(Len(s) + i <= Len(s)) /\ (Len(s) + i) - Len(s) = i
    BY <1>2
  <2> QED BY <1>4, <2>1
<1>6. ASSUME NEW i \in 1..Len(s) PROVE (s \o t)[i] = s[i]
  <2>1. i \in 1..Len(s) + Len(t) /\ i <= Len(s)
    BY <1>2
  <2> QED BY <1>4, <2>1
<1> QED BY <1>2, <1>3, <1>5, <1>6, RowOf

LEMMA RowIsCut ==
  ASSUME NEW s, IsRow(s), NEW m \in Nat, NEW n \in Nat, m <= n, n <= Len(s)
  PROVE  /\ IsRow(SubSeq(s, m + 1, n))
         /\ Len(SubSeq(s, m + 1, n)) = n - m
         /\ \A i \in 1..(n - m) : SubSeq(s, m + 1, n)[i] = s[m + i]
<1> DEFINE S == Elements(s)
<1>1. Len(s) \in Nat
  BY RowOf DEF IsRow
<1>2. \A i \in (m + 1)..n : s[i] \in S
  BY <1>1 DEF Elements
<1> HIDE DEF S
<1>3. SubSeq(s, m + 1, n) \in Seq(S)
  BY <1>2, SubSeqProperties
<1>4. Len(SubSeq(s, m + 1, n)) = n - m
  BY <1>2, SubSeqProperties
<1>5. \A i \in 1..n - (m + 1) + 1 : SubSeq(s, m + 1, n)[i] = s[(m + 1) + i - 1]
  BY <1>2, SubSeqProperties
<1>6. \A i \in 1..(n - m) : SubSeq(s, m + 1, n)[i] = s[m + i]
  BY <1>5
<1> QED BY <1>3, <1>4, <1>6, RowOf

LEMMA RowShifts ==
  ASSUME NEW s, IsRow(s), s # <<>>
  PROVE  /\ IsRow(Tail(s)) /\ Len(s) \in Nat \ {0}
         /\ Len(Tail(s)) = Len(s) - 1
         /\ \A i \in 1..(Len(s) - 1) : Tail(s)[i] = s[i + 1]
         /\ Head(s) = s[1]
<1> DEFINE S == Elements(s)
<1>1. s \in Seq(S)
  BY DEF IsRow
<1> HIDE DEF S
<1>2. Len(s) \in Nat \ {0} /\ Head(s) = s[1]
  BY <1>1
<1> QED BY <1>1, <1>2, HeadTailProperties, RowOf

LEMMA RowIsMade ==
  ASSUME NEW n \in Nat, NEW s, s = [i \in 1..n |-> s[i]]
  PROVE  IsRow(s) /\ Len(s) = n
<1>1. s \in [1..n -> Elements(s)] \/ s \in [1..n -> { s[i] : i \in 1..n }]
  OBVIOUS
<1>2. s \in Seq({ s[i] : i \in 1..n }) /\ Len(s) = n
  BY <1>1, SeqDef
<1> QED BY <1>2, RowOf


---------------------------------------------------------------------------
(* Joining rows: what a reader of a stream meets                            *)

LEMMA FieldFirst ==
  ASSUME NEW f, NEW r, IsRow(r)
  PROVE  /\ <<f>> \o r # <<>> /\ Head(<<f>> \o r) = f /\ Tail(<<f>> \o r) = r
         /\ IsRow(<<f>> \o r) /\ IsRow(<<f>>)
<1> DEFINE S == Elements(r) \cup {f}
<1>1. r \in Seq(S) /\ f \in S
  BY SeqMonotonic DEF IsRow
<1> HIDE DEF S
<1>2. <<f>> \o r # <<>> /\ Head(<<f>> \o r) = f /\ Tail(<<f>> \o r) = r
  BY <1>1
<1>3. <<f>> \o r \in Seq(S) /\ <<f>> \in Seq(S)
  BY <1>1
<1> QED BY <1>2, <1>3, RowOf

Associates(a, b, c) == (a \o b) \o c = a \o (b \o c)

LEMMA RowAssoc ==
  ASSUME NEW a, NEW b, NEW c, IsRow(a), IsRow(b), IsRow(c)
  PROVE  Associates(a, b, c)
<1> DEFINE S == Elements(a) \cup Elements(b) \cup Elements(c)
<1>1. a \in Seq(S) /\ b \in Seq(S) /\ c \in Seq(S)
  BY SeqMonotonic DEF IsRow
<1> HIDE DEF S
<1> QED BY <1>1, ConcatAssociative DEF Associates

LEMMA EmptyFirst ==
  ASSUME NEW r, IsRow(r)
  PROVE  <<>> \o r = r /\ r \o <<>> = r /\ IsRow(<<>>)
<1> DEFINE S == Elements(r)
<1>1. r \in Seq(S)
  BY DEF IsRow
<1> HIDE DEF S
<1>2. <<>> \o r = r /\ r \o <<>> = r
  BY <1>1, ConcatEmptySeq
<1>3. <<>> \in Seq(S)
  OBVIOUS
<1> QED BY <1>2, <1>3, RowOf

(* A row that is not empty starts with its head.                            *)
LEMMA RowPeels ==
  ASSUME NEW t, IsRow(t), t # <<>>, NEW r, IsRow(r)
  PROVE  t \o r = <<Head(t)>> \o (Tail(t) \o r)
<1> DEFINE S == Elements(t) \cup Elements(r)
<1>1. t \in Seq(S) /\ r \in Seq(S)
  BY SeqMonotonic DEF IsRow
<1> HIDE DEF S
<1>2. <<Head(t)>> \in Seq(S) /\ Tail(t) \in Seq(S)
  BY <1>1
<1>3. t = <<Head(t)>> \o Tail(t)
  BY <1>1
<1> QED BY <1>1, <1>2, <1>3, ConcatAssociative

(* A tuple before a row, one field at a time.                               *)
IsTwo(t, a, b) == t = <<a, b>>
IsThree(t, a, b, c) == t = <<a, b, c>>
IsFour(t, a, b, c, d) == t = <<a, b, c, d>>
IsFive(t, a, b, c, d, e) == t = <<a, b, c, d, e>>
IsSix(t, a, b, c, d, e, f) == t = <<a, b, c, d, e, f>>

LEMMA TwoFields ==
  ASSUME NEW a, NEW b, NEW r, IsRow(r),
         NEW t, IsTwo(t, a, b)
  PROVE  t \o r = <<a>> \o (<<b>> \o r) /\ IsRow(t)
<1> DEFINE S == {a, b}
           t2 == <<a, b>>
           t1 == <<b>>
<1>1. a \in S /\ b \in S
  OBVIOUS
<1> HIDE DEF S
<1>2. t2 \in Seq(S) /\ t2 # <<>> /\ Head(t2) = a /\ Tail(t2) = t1
  BY <1>1
<1> HIDE DEF t2, t1
<1>3. t2 \o r = <<a>> \o (t1 \o r) /\ IsRow(t2)
  BY <1>2, RowOf, RowPeels
<1>4. t2 \o r = <<a>> \o (<<b>> \o r) /\ IsRow(t2)
  BY <1>3 DEF t1
<1> QED BY <1>4 DEF t2, IsTwo

LEMMA ThreeFields ==
  ASSUME NEW a, NEW b, NEW c, NEW r, IsRow(r),
         NEW t, IsThree(t, a, b, c)
  PROVE  t \o r = <<a>> \o (<<b>> \o (<<c>> \o r)) /\ IsRow(t)
<1> DEFINE S == {a, b, c}
           t3 == <<a, b, c>>
           t2 == <<b, c>>
           t1 == <<c>>
<1>1. a \in S /\ b \in S /\ c \in S
  OBVIOUS
<1> HIDE DEF S
<1>2. t3 \in Seq(S) /\ t3 # <<>> /\ Head(t3) = a /\ Tail(t3) = t2
  BY <1>1
<1>3. t2 \in Seq(S) /\ t2 # <<>> /\ Head(t2) = b /\ Tail(t2) = t1
  BY <1>1
<1> HIDE DEF t3, t2, t1
<1>4. t3 \o r = <<a>> \o (t2 \o r) /\ IsRow(t3)
  BY <1>2, RowOf, RowPeels
<1>5. t2 \o r = <<b>> \o (t1 \o r) /\ IsRow(t2)
  BY <1>3, RowOf, RowPeels
<1>6. t3 \o r = <<a>> \o (<<b>> \o (<<c>> \o r)) /\ IsRow(t3)
  BY <1>4, <1>5 DEF t1
<1> QED BY <1>6 DEF t3, IsThree

LEMMA FourFields ==
  ASSUME NEW a, NEW b, NEW c, NEW d, NEW r, IsRow(r),
         NEW t, IsFour(t, a, b, c, d)
  PROVE  t \o r = <<a>> \o (<<b>> \o (<<c>> \o (<<d>> \o r))) /\ IsRow(t)
<1> DEFINE S == {a, b, c, d}
           t4 == <<a, b, c, d>>
           t3 == <<b, c, d>>
           t2 == <<c, d>>
           t1 == <<d>>
<1>1. a \in S /\ b \in S /\ c \in S /\ d \in S
  OBVIOUS
<1> HIDE DEF S
<1>2. t4 \in Seq(S) /\ t4 # <<>> /\ Head(t4) = a /\ Tail(t4) = t3
  BY <1>1
<1>3. t3 \in Seq(S) /\ t3 # <<>> /\ Head(t3) = b /\ Tail(t3) = t2
  BY <1>1
<1>4. t2 \in Seq(S) /\ t2 # <<>> /\ Head(t2) = c /\ Tail(t2) = t1
  BY <1>1
<1> HIDE DEF t4, t3, t2, t1
<1>5. t4 \o r = <<a>> \o (t3 \o r) /\ IsRow(t4)
  BY <1>2, RowOf, RowPeels
<1>6. t3 \o r = <<b>> \o (t2 \o r) /\ IsRow(t3)
  BY <1>3, RowOf, RowPeels
<1>7. t2 \o r = <<c>> \o (t1 \o r) /\ IsRow(t2)
  BY <1>4, RowOf, RowPeels
<1>8. t4 \o r = <<a>> \o (<<b>> \o (<<c>> \o (<<d>> \o r))) /\ IsRow(t4)
  BY <1>5, <1>6, <1>7 DEF t1
<1> QED BY <1>8 DEF t4, IsFour

LEMMA FiveFields ==
  ASSUME NEW a, NEW b, NEW c, NEW d, NEW e, NEW r, IsRow(r),
         NEW t, IsFive(t, a, b, c, d, e)
  PROVE  t \o r = <<a>> \o (<<b>> \o (<<c>> \o (<<d>> \o (<<e>> \o r)))) /\ IsRow(t)
<1> DEFINE S == {a, b, c, d, e}
           t5 == <<a, b, c, d, e>>
           t4 == <<b, c, d, e>>
           t3 == <<c, d, e>>
           t2 == <<d, e>>
           t1 == <<e>>
<1>1. a \in S /\ b \in S /\ c \in S /\ d \in S /\ e \in S
  OBVIOUS
<1> HIDE DEF S
<1>2. t5 \in Seq(S) /\ t5 # <<>> /\ Head(t5) = a /\ Tail(t5) = t4
  BY <1>1
<1>3. t4 \in Seq(S) /\ t4 # <<>> /\ Head(t4) = b /\ Tail(t4) = t3
  BY <1>1
<1>4. t3 \in Seq(S) /\ t3 # <<>> /\ Head(t3) = c /\ Tail(t3) = t2
  BY <1>1
<1>5. t2 \in Seq(S) /\ t2 # <<>> /\ Head(t2) = d /\ Tail(t2) = t1
  BY <1>1
<1> HIDE DEF t5, t4, t3, t2, t1
<1>6. t5 \o r = <<a>> \o (t4 \o r) /\ IsRow(t5)
  BY <1>2, RowOf, RowPeels
<1>7. t4 \o r = <<b>> \o (t3 \o r) /\ IsRow(t4)
  BY <1>3, RowOf, RowPeels
<1>8. t3 \o r = <<c>> \o (t2 \o r) /\ IsRow(t3)
  BY <1>4, RowOf, RowPeels
<1>9. t2 \o r = <<d>> \o (t1 \o r) /\ IsRow(t2)
  BY <1>5, RowOf, RowPeels
<1>10. t5 \o r = <<a>> \o (<<b>> \o (<<c>> \o (<<d>> \o (<<e>> \o r)))) /\ IsRow(t5)
  BY <1>6, <1>7, <1>8, <1>9 DEF t1
<1> QED BY <1>10 DEF t5, IsFive

LEMMA SixFields ==
  ASSUME NEW a, NEW b, NEW c, NEW d, NEW e, NEW f, NEW r, IsRow(r),
         NEW t, IsSix(t, a, b, c, d, e, f)
  PROVE  t \o r = <<a>> \o (<<b>> \o (<<c>> \o (<<d>> \o (<<e>> \o (<<f>> \o r))))) /\ IsRow(t)
<1> DEFINE S == {a, b, c, d, e, f}
           t6 == <<a, b, c, d, e, f>>
           t5 == <<b, c, d, e, f>>
           t4 == <<c, d, e, f>>
           t3 == <<d, e, f>>
           t2 == <<e, f>>
           t1 == <<f>>
<1>1. a \in S /\ b \in S /\ c \in S /\ d \in S /\ e \in S /\ f \in S
  OBVIOUS
<1> HIDE DEF S
<1>2. t6 \in Seq(S) /\ t6 # <<>> /\ Head(t6) = a /\ Tail(t6) = t5
  BY <1>1
<1>3. t5 \in Seq(S) /\ t5 # <<>> /\ Head(t5) = b /\ Tail(t5) = t4
  BY <1>1
<1>4. t4 \in Seq(S) /\ t4 # <<>> /\ Head(t4) = c /\ Tail(t4) = t3
  BY <1>1
<1>5. t3 \in Seq(S) /\ t3 # <<>> /\ Head(t3) = d /\ Tail(t3) = t2
  BY <1>1
<1>6. t2 \in Seq(S) /\ t2 # <<>> /\ Head(t2) = e /\ Tail(t2) = t1
  BY <1>1
<1> HIDE DEF t6, t5, t4, t3, t2, t1
<1>7. t6 \o r = <<a>> \o (t5 \o r) /\ IsRow(t6)
  BY <1>2, RowOf, RowPeels
<1>8. t5 \o r = <<b>> \o (t4 \o r) /\ IsRow(t5)
  BY <1>3, RowOf, RowPeels
<1>9. t4 \o r = <<c>> \o (t3 \o r) /\ IsRow(t4)
  BY <1>4, RowOf, RowPeels
<1>10. t3 \o r = <<d>> \o (t2 \o r) /\ IsRow(t3)
  BY <1>5, RowOf, RowPeels
<1>11. t2 \o r = <<e>> \o (t1 \o r) /\ IsRow(t2)
  BY <1>6, RowOf, RowPeels
<1>12. t6 \o r = <<a>> \o (<<b>> \o (<<c>> \o (<<d>> \o (<<e>> \o (<<f>> \o r))))) /\ IsRow(t6)
  BY <1>7, <1>8, <1>9, <1>10, <1>11 DEF t1
<1> QED BY <1>12 DEF t6, IsSix

=============================================================================
