---------------------------- MODULE SumTheorems ----------------------------
(***************************************************************************)
(* Lemmas that several components need: a set of numbers that is empty     *)
(* from below is empty, which stands in for an induction; products and     *)
(* quotients; and what MapThenSumSet of FiniteSetsExt adds up, whatever    *)
(* order it takes the members of a finite set in. The terms of a sum are a *)
(* function w, and SumOf(w, S) is the sum over S.                          *)
(***************************************************************************)
EXTENDS Integers, FiniteSets, FiniteSetTheorems, WellFoundedInduction, TLAPS

-----------------------------------------------------------------------------
(* Numbers and sizes                                                       *)

LEMMA LeastOfNumbers ==
  ASSUME NEW B \in SUBSET Nat, B # {}
  PROVE  \E m \in B : \A x \in B : m <= x
<1> DEFINE R == {pair \in Nat \X Nat : pair[1] < pair[2]}
<1>1. IsWellFoundedOn(R, Nat)
  BY NatLessThanWellFounded DEF OpToRel
<1>2. \A x, y \in Nat : <<y, x>> \in R <=> y < x
  OBVIOUS
<1> HIDE DEF R
<1>3. PICK x \in B : \A y \in B : ~(<<y, x>> \in R)
  BY <1>1, WFMin
<1>4. ASSUME NEW y \in B PROVE x <= y
  <2>1. x \in Nat /\ y \in Nat /\ ~(<<y, x>> \in R)
    BY <1>3
  <2>2. ~(y < x)
    BY <1>2, <2>1
  <2>3. QED
    BY <2>1, <2>2
<1>5. QED
  BY <1>4

\* A number is in no set that holds none for which it holds none below.
LEMMA FirstFailure ==
  ASSUME NEW B \in SUBSET Nat,
         \A n \in Nat : (\A k \in 0 .. n - 1 : k \notin B) => n \notin B
  PROVE  B = {}
<1> SUFFICES ASSUME B # {} PROVE FALSE
  OBVIOUS
<1>1. PICK m \in B : \A x \in B : m <= x
  BY LeastOfNumbers
<1>2. m \in Nat
  BY <1>1
<1>3. ASSUME NEW k \in 0 .. m - 1 PROVE k \notin B
  <2>1. k \in Nat /\ ~(m <= k)
    BY <1>2
  <2>2. QED
    BY <1>1, <2>1
<1>4. QED
  BY <1>1, <1>2, <1>3

LEMMA OneLess ==
  ASSUME NEW s, IsFiniteSet(s), NEW e \in s
  PROVE  /\ IsFiniteSet(s \ {e}) /\ Cardinality(s) \in Nat \ {0}
         /\ Cardinality(s \ {e}) = Cardinality(s) - 1
         /\ Cardinality(s \ {e}) \in Nat
<1>1. Cardinality(s) \in Nat /\ Cardinality(s) # 0
  BY FS_CardinalityType, FS_EmptySet
<1>2. IsFiniteSet(s \ {e}) /\ Cardinality(s \ {e}) = Cardinality(s) - 1
  BY FS_RemoveElement
<1>3. QED
  BY <1>1, <1>2

LEMMA Division ==
  ASSUME NEW a \in Nat, NEW m \in Nat \ {0}
  PROVE  /\ a \div m \in Nat
         /\ m * (a \div m) <= a /\ a < m * ((a \div m) + 1)
OBVIOUS

LEMMA Products ==
  ASSUME NEW m \in Nat \ {0}, NEW p \in Int, NEW q \in Int, m * p < m * q
  PROVE  p < q
<1>1. SUFFICES ASSUME p >= q PROVE FALSE
  OBVIOUS
<1>2. PICK r \in Nat : p = q + r
  <2>1. p - q \in Nat /\ p = q + (p - q)
    BY <1>1
  <2>2. QED
    BY <2>1
<1>3. m * p = m * q + m * r
  BY <1>2
<1>4. m * r >= 0
  OBVIOUS
<1>5. QED
  BY <1>3, <1>4

-----------------------------------------------------------------------------
(* Sums                                                                    *)

\* The member that a sum takes out first.
AnyOf(s) == CHOOSE x \in s : TRUE

\* The function that adds up the terms of each set in D, one after another.
Adds(f, D, w) == f = [s \in D |-> IF s = {} THEN 0 ELSE w[AnyOf(s)] + f[s \ {AnyOf(s)}]]

Adder(f, S, w) == Adds(f, SUBSET S, w)

SumOf(w, S) == (CHOOSE f : Adder(f, S, w))[S]

\* A finite set of which every term is a natural number.
Weighed(w, S) == IsFiniteSet(S) /\ \A x \in S : w[x] \in Nat

Alike(v, w, S) == \A x \in S : v[x] = w[x]

\* The parts of S that have at most n members.
PartsUpTo(S, n) == {s \in SUBSET S : Cardinality(s) <= n}

LEMMA AnyIsOne == ASSUME NEW s, s # {} PROVE AnyOf(s) \in s
BY DEF AnyOf

LEMMA AddsExist ==
  ASSUME NEW S, IsFiniteSet(S), NEW w
  PROVE  \E f : Adder(f, S, w)
<1> DEFINE B == {n \in Nat : ~ \E f : Adds(f, PartsUpTo(S, n), w)}
<1>1. ASSUME NEW n \in Nat, \A k \in 0 .. n - 1 : k \notin B
      PROVE  n \notin B
  <2>1. PICK f : n # 0 => Adds(f, PartsUpTo(S, n - 1), w)
    <3>1. CASE n = 0
      BY <3>1
    <3>2. CASE n # 0
      <4>1. n - 1 \in 0 .. n - 1 /\ n - 1 \in Nat
        BY <3>2
      <4>2. QED
        BY <1>1, <4>1
    <3>3. QED
      BY <3>1, <3>2
  <2> DEFINE g == [s \in PartsUpTo(S, n) |-> IF s = {} THEN 0
                                             ELSE w[AnyOf(s)] + f[s \ {AnyOf(s)}]]
  <2>2. ASSUME NEW s \in PartsUpTo(S, n), s # {}
        PROVE  f[s \ {AnyOf(s)}] = g[s \ {AnyOf(s)}]
    <3> DEFINE r == s \ {AnyOf(s)}
    <3>1. s \in SUBSET S /\ IsFiniteSet(s) /\ AnyOf(s) \in s /\ Cardinality(s) <= n
      BY <2>2, FS_Subset, AnyIsOne DEF PartsUpTo
    <3>2. Cardinality(r) = Cardinality(s) - 1 /\ Cardinality(s) \in Nat \ {0}
          /\ Cardinality(r) \in Nat
      BY <3>1, OneLess
    <3>3. n # 0 /\ Cardinality(r) <= n - 1 /\ Cardinality(r) <= n
      BY <3>1, <3>2
    <3>4. r \in PartsUpTo(S, n - 1) /\ r \in PartsUpTo(S, n)
      BY <3>1, <3>3 DEF PartsUpTo
    <3> HIDE DEF r
    <3>5. f[r] = IF r = {} THEN 0 ELSE w[AnyOf(r)] + f[r \ {AnyOf(r)}]
      BY <2>1, <3>3, <3>4 DEF Adds
    <3>6. f[r] = g[r]
      BY <3>4, <3>5
    <3>7. QED
      BY <3>6 DEF r
  <2>3. Adds(g, PartsUpTo(S, n), w)
    BY <2>2 DEF Adds
  <2>4. QED
    BY <2>3
<1>2. B = {}
  <2>1. B \in SUBSET Nat
    OBVIOUS
  <2> HIDE DEF B
  <2>2. QED
    BY <1>1, <2>1, FirstFailure
<1>3. Cardinality(S) \in Nat /\ PartsUpTo(S, Cardinality(S)) = SUBSET S
  <2>1. \A s \in SUBSET S : Cardinality(s) <= Cardinality(S)
    BY FS_Subset
  <2>2. QED
    BY <2>1, FS_CardinalityType DEF PartsUpTo
<1>4. PICK f : Adds(f, PartsUpTo(S, Cardinality(S)), w)
  BY <1>2, <1>3
<1>5. QED
  BY <1>3, <1>4 DEF Adder

\* Two sums agree where their terms do.
LEMMA AddsAgree ==
  ASSUME NEW S, IsFiniteSet(S), NEW T \in SUBSET S, NEW v, NEW w,
         Alike(v, w, T),
         NEW f, Adder(f, S, v), NEW g, Adder(g, T, w)
  PROVE  f[T] = g[T]
<1> DEFINE B == {n \in Nat : \E s \in SUBSET T : Cardinality(s) = n /\ f[s] # g[s]}
<1>1. ASSUME NEW n \in Nat, \A k \in 0 .. n - 1 : k \notin B,
             NEW s \in SUBSET T, Cardinality(s) = n
      PROVE  f[s] = g[s]
  <2>1. CASE s = {}
    BY <2>1 DEF Adder, Adds
  <2>2. CASE s # {}
    <3> DEFINE r == s \ {AnyOf(s)}
    <3>1. IsFiniteSet(s) /\ AnyOf(s) \in s /\ s \in SUBSET S
      BY <2>2, FS_Subset, AnyIsOne
    <3>2. Cardinality(r) = n - 1 /\ Cardinality(r) \in Nat /\ r \in SUBSET T
      BY <1>1, <3>1, OneLess
    <3>3. n - 1 \in 0 .. n - 1
      BY <3>2
    <3>4. f[r] = g[r]
      BY <1>1, <3>2, <3>3
    <3>5. v[AnyOf(s)] = w[AnyOf(s)]
      BY <3>1 DEF Alike
    <3>6. f[s] = v[AnyOf(s)] + f[r] /\ g[s] = w[AnyOf(s)] + g[r]
      BY <2>2, <3>1 DEF Adder, Adds
    <3>7. QED
      BY <3>4, <3>5, <3>6
  <2>3. QED
    BY <2>1, <2>2
<1>2. B = {}
  <2>1. B \in SUBSET Nat
    OBVIOUS
  <2>2. ASSUME NEW n \in Nat, \A k \in 0 .. n - 1 : k \notin B
        PROVE  n \notin B
    BY <1>1, <2>2
  <2> HIDE DEF B
  <2>3. QED
    BY <2>1, <2>2, FirstFailure
<1>3. IsFiniteSet(T) /\ Cardinality(T) \in Nat /\ T \in SUBSET T
  BY FS_Subset, FS_CardinalityType
<1>4. QED
  BY <1>2, <1>3

\* Any function that adds the terms up has the sum, whatever it knows besides.
LEMMA SumFound ==
  ASSUME NEW S, IsFiniteSet(S), NEW T \in SUBSET S, NEW v, NEW w,
         Alike(v, w, T), NEW f, Adder(f, S, v)
  PROVE  f[T] = SumOf(w, T)
<1>1. IsFiniteSet(T)
  BY FS_Subset
<1>2. \E g : Adder(g, T, w)
  BY <1>1, AddsExist
<1>3. PICK g : Adder(g, T, w) /\ SumOf(w, T) = g[T]
  BY <1>2 DEF SumOf
<1>4. f[T] = g[T]
  BY <1>3, AddsAgree
<1>5. QED
  BY <1>3, <1>4

LEMMA SumSame ==
  ASSUME NEW S, IsFiniteSet(S), NEW v, NEW w, Alike(v, w, S)
  PROVE  SumOf(v, S) = SumOf(w, S)
<1>1. \E f : Adder(f, S, v)
  BY AddsExist
<1>2. PICK f : Adder(f, S, v) /\ SumOf(v, S) = f[S]
  BY <1>1 DEF SumOf
<1>3. S \in SUBSET S
  OBVIOUS
<1>4. QED
  BY <1>2, <1>3, SumFound

\* The sum over a set is the term of one member and the sum over the others.
LEMMA SumStep ==
  ASSUME NEW S, IsFiniteSet(S), NEW w
  PROVE  SumOf(w, S) = IF S = {} THEN 0 ELSE w[AnyOf(S)] + SumOf(w, S \ {AnyOf(S)})
<1>1. \A T : Alike(w, w, T)
  BY DEF Alike
<1>2. PICK f : Adder(f, S, w)
  BY AddsExist
<1>3. f[S] = SumOf(w, S)
  <2>1. S \in SUBSET S
    OBVIOUS
  <2>2. QED
    BY <1>1, <1>2, <2>1, SumFound
<1>4. f[S \ {AnyOf(S)}] = SumOf(w, S \ {AnyOf(S)})
  <2>1. S \ {AnyOf(S)} \in SUBSET S
    OBVIOUS
  <2>2. QED
    BY <1>1, <1>2, <2>1, SumFound
<1>5. f[S] = IF S = {} THEN 0 ELSE w[AnyOf(S)] + f[S \ {AnyOf(S)}]
  BY <1>2 DEF Adder, Adds
<1>6. QED
  BY <1>3, <1>4, <1>5

LEMMA SumOfNone ==
  ASSUME NEW w
  PROVE  SumOf(w, {}) = 0
<1>1. IsFiniteSet({})
  BY FS_EmptySet
<1>2. QED
  BY <1>1, SumStep

LEMMA SumIsNatural ==
  ASSUME NEW w, NEW S, Weighed(w, S)
  PROVE  SumOf(w, S) \in Nat
<1> DEFINE B == {n \in Nat : \E s \in SUBSET S : Cardinality(s) = n /\ SumOf(w, s) \notin Nat}
<1>1. ASSUME NEW n \in Nat, \A k \in 0 .. n - 1 : k \notin B,
             NEW s \in SUBSET S, Cardinality(s) = n
      PROVE  SumOf(w, s) \in Nat
  <2>1. IsFiniteSet(s)
    BY FS_Subset DEF Weighed
  <2>2. CASE s = {}
    BY <2>2, SumOfNone
  <2>3. CASE s # {}
    <3> DEFINE r == s \ {AnyOf(s)}
    <3>1. AnyOf(s) \in s /\ w[AnyOf(s)] \in Nat
      BY <2>3, AnyIsOne DEF Weighed
    <3>2. Cardinality(r) = n - 1 /\ Cardinality(r) \in Nat /\ r \in SUBSET S
      BY <1>1, <2>1, <3>1, OneLess
    <3>3. n - 1 \in 0 .. n - 1
      BY <3>2
    <3>4. SumOf(w, r) \in Nat
      BY <1>1, <3>2, <3>3
    <3>5. SumOf(w, s) = w[AnyOf(s)] + SumOf(w, r)
      BY <2>1, <2>3, SumStep
    <3>6. QED
      BY <3>1, <3>4, <3>5
  <2>4. QED
    BY <2>2, <2>3
<1>2. B = {}
  <2>1. B \in SUBSET Nat
    OBVIOUS
  <2>2. ASSUME NEW n \in Nat, \A k \in 0 .. n - 1 : k \notin B
        PROVE  n \notin B
    BY <1>1, <2>2
  <2> HIDE DEF B
  <2>3. QED
    BY <2>1, <2>2, FirstFailure
<1>3. IsFiniteSet(S) /\ Cardinality(S) \in Nat
  BY FS_CardinalityType DEF Weighed
<1>4. QED
  BY <1>2, <1>3

\* Whichever member is taken out first.
LEMMA SumWithout ==
  ASSUME NEW w, NEW S, Weighed(w, S), NEW a \in S
  PROVE  SumOf(w, S) = w[a] + SumOf(w, S \ {a})
<1> DEFINE B == {n \in Nat : \E s \in SUBSET S : Cardinality(s) = n
                    /\ \E b \in s : SumOf(w, s) # w[b] + SumOf(w, s \ {b})}
<1>1. ASSUME NEW n \in Nat, \A k \in 0 .. n - 1 : k \notin B,
             NEW s \in SUBSET S, Cardinality(s) = n, NEW b \in s
      PROVE  SumOf(w, s) = w[b] + SumOf(w, s \ {b})
  <2> DEFINE x == AnyOf(s)
             r == s \ {x}
             t == s \ {b}
             u == r \ {b}
  <2>1. IsFiniteSet(s) /\ x \in s
    BY FS_Subset, AnyIsOne DEF Weighed
  <2>2. SumOf(w, s) = w[x] + SumOf(w, r)
    BY <2>1, SumStep
  <2>3. CASE b = x
    BY <2>2, <2>3
  <2>4. CASE b # x
    <3>1. Cardinality(r) = n - 1 /\ Cardinality(r) \in Nat /\ r \in SUBSET S /\ b \in r
      BY <1>1, <2>1, <2>4, OneLess
    <3>2. Cardinality(t) = n - 1 /\ Cardinality(t) \in Nat /\ t \in SUBSET S /\ x \in t
      BY <1>1, <2>1, <2>4, OneLess
    <3>3. n - 1 \in 0 .. n - 1
      BY <3>1
    <3>4. SumOf(w, r) = w[b] + SumOf(w, u)
      BY <1>1, <3>1, <3>3
    <3>5. SumOf(w, t) = w[x] + SumOf(w, t \ {x})
      BY <1>1, <3>2, <3>3
    <3>6. t \ {x} = u
      OBVIOUS
    <3>7. w[b] \in Nat /\ w[x] \in Nat /\ SumOf(w, u) \in Nat
      <4>1. Weighed(w, u)
        BY <2>1, FS_Subset DEF Weighed
      <4>2. QED
        BY <2>1, <4>1, SumIsNatural DEF Weighed
    <3> HIDE DEF x, r, t, u
    <3>8. SumOf(w, s) = w[b] + SumOf(w, t)
      <4>1. SumOf(w, t) = w[x] + SumOf(w, u)
        BY <3>5, <3>6
      <4>2. PICK i \in Nat, j \in Nat, k \in Nat :
              i = w[b] /\ j = w[x] /\ k = SumOf(w, u)
        BY <3>7
      <4>3. SumOf(w, s) = j + (i + k) /\ SumOf(w, t) = j + k
        BY <2>2, <3>4, <4>1, <4>2
      <4>4. j + (i + k) = i + (j + k)
        OBVIOUS
      <4>5. QED
        BY <4>2, <4>3, <4>4
    <3>9. QED
      BY <3>8 DEF t
  <2>5. QED
    BY <2>3, <2>4
<1>2. B = {}
  <2>1. B \in SUBSET Nat
    OBVIOUS
  <2>2. ASSUME NEW n \in Nat, \A k \in 0 .. n - 1 : k \notin B
        PROVE  n \notin B
    BY <1>1, <2>2
  <2> HIDE DEF B
  <2>3. QED
    BY <2>1, <2>2, FirstFailure
<1>3. IsFiniteSet(S) /\ Cardinality(S) \in Nat
  BY FS_CardinalityType DEF Weighed
<1>4. QED
  BY <1>2, <1>3

\* Fewer terms sum up to no more.
LEMMA SumOfPart ==
  ASSUME NEW w, NEW S, Weighed(w, S), NEW T \in SUBSET S
  PROVE  SumOf(w, T) <= SumOf(w, S)
<1> DEFINE B == {n \in Nat : \E s \in SUBSET S : Cardinality(s) = n /\ T \subseteq s
                    /\ ~(SumOf(w, T) <= SumOf(w, s))}
<1>1. ASSUME NEW n \in Nat, \A k \in 0 .. n - 1 : k \notin B,
             NEW s \in SUBSET S, Cardinality(s) = n, T \subseteq s
      PROVE  SumOf(w, T) <= SumOf(w, s)
  <2>1. Weighed(w, s) /\ Weighed(w, T)
    BY FS_Subset DEF Weighed
  <2>2. SumOf(w, s) \in Nat /\ SumOf(w, T) \in Nat
    BY <2>1, SumIsNatural
  <2>3. CASE s = T
    BY <2>2, <2>3
  <2>4. CASE s # T
    <3>1. PICK b \in s : b \notin T
      BY <1>1, <2>4
    <3> DEFINE r == s \ {b}
    <3>2. Cardinality(r) = n - 1 /\ Cardinality(r) \in Nat /\ r \in SUBSET S /\ T \subseteq r
      BY <1>1, <2>1, <3>1, OneLess DEF Weighed
    <3>3. n - 1 \in 0 .. n - 1
      BY <3>2
    <3>4. SumOf(w, T) <= SumOf(w, r)
      BY <1>1, <3>2, <3>3
    <3>5. Weighed(w, r) /\ w[b] \in Nat
      BY <2>1, <3>1, FS_Subset DEF Weighed
    <3>6. SumOf(w, r) \in Nat
      BY <3>5, SumIsNatural
    <3>7. SumOf(w, s) = w[b] + SumOf(w, r)
      BY <2>1, <3>1, SumWithout
    <3> HIDE DEF r
    <3>8. QED
      BY <2>2, <3>4, <3>5, <3>6, <3>7
  <2>5. QED
    BY <2>3, <2>4
<1>2. B = {}
  <2>1. B \in SUBSET Nat
    OBVIOUS
  <2>2. ASSUME NEW n \in Nat, \A k \in 0 .. n - 1 : k \notin B
        PROVE  n \notin B
    BY <1>1, <2>2
  <2> HIDE DEF B
  <2>3. QED
    BY <2>1, <2>2, FirstFailure
<1>3. IsFiniteSet(S) /\ Cardinality(S) \in Nat
  BY FS_CardinalityType DEF Weighed
<1>4. QED
  BY <1>2, <1>3

\* Terms that are at most c times others sum up to at most c times their sum.
LEMMA SumIsBounded ==
  ASSUME NEW v, NEW w, NEW S, Weighed(v, S), Weighed(w, S), NEW c \in Nat,
         \A x \in S : v[x] <= c * w[x]
  PROVE  SumOf(v, S) <= c * SumOf(w, S)
<1> DEFINE B == {n \in Nat : \E s \in SUBSET S : Cardinality(s) = n
                    /\ ~(SumOf(v, s) <= c * SumOf(w, s))}
<1>1. ASSUME NEW n \in Nat, \A k \in 0 .. n - 1 : k \notin B,
             NEW s \in SUBSET S, Cardinality(s) = n
      PROVE  SumOf(v, s) <= c * SumOf(w, s)
  <2>1. IsFiniteSet(s)
    BY FS_Subset DEF Weighed
  <2>2. CASE s = {}
    <3>1. SumOf(v, s) = 0 /\ SumOf(w, s) = 0
      BY <2>2, SumOfNone
    <3>2. QED
      BY <3>1
  <2>3. CASE s # {}
    <3> DEFINE a == AnyOf(s)
               r == s \ {a}
    <3>1. a \in s
      BY <2>3, AnyIsOne
    <3>2. Cardinality(r) = n - 1 /\ Cardinality(r) \in Nat /\ r \in SUBSET S
      BY <1>1, <2>1, <3>1, OneLess
    <3>3. n - 1 \in 0 .. n - 1
      BY <3>2
    <3>4. SumOf(v, r) <= c * SumOf(w, r)
      BY <1>1, <3>2, <3>3
    <3>5. Weighed(v, r) /\ Weighed(w, r)
      BY <3>2, FS_Subset DEF Weighed
    <3>6. SumOf(v, s) = v[a] + SumOf(v, r) /\ SumOf(w, s) = w[a] + SumOf(w, r)
      BY <2>1, <2>3, SumStep
    <3> HIDE DEF a, r
    <3>7. PICK i \in Nat, j \in Nat, k \in Nat, l \in Nat :
            i = v[a] /\ j = w[a] /\ k = SumOf(v, r) /\ l = SumOf(w, r)
      BY <3>1, <3>5, SumIsNatural DEF Weighed
    <3>8. i <= c * j /\ k <= c * l
      BY <3>1, <3>4, <3>7
    <3>9. c * (j + l) = c * j + c * l /\ c * j \in Nat /\ c * l \in Nat
      OBVIOUS
    <3>10. i + k <= c * (j + l)
      BY <3>8, <3>9
    <3>11. QED
      BY <3>6, <3>7, <3>10
  <2>4. QED
    BY <2>2, <2>3
<1>2. B = {}
  <2>1. B \in SUBSET Nat
    OBVIOUS
  <2>2. ASSUME NEW n \in Nat, \A k \in 0 .. n - 1 : k \notin B
        PROVE  n \notin B
    BY <1>1, <2>2
  <2> HIDE DEF B
  <2>3. QED
    BY <2>1, <2>2, FirstFailure
<1>3. IsFiniteSet(S) /\ Cardinality(S) \in Nat
  BY FS_CardinalityType DEF Weighed
<1>4. QED
  BY <1>2, <1>3

=============================================================================
