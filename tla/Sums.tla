-------------------------------- MODULE Sums --------------------------------
(***************************************************************************)
(* What MapThenSumSet computes, for every finite set: it is defined by a   *)
(* recursion over the subsets, whose function exists, is unique, and does  *)
(* not depend on the order in which elements are chosen.  Induction is by  *)
(* the least cardinality that fails.                                       *)
(***************************************************************************)
EXTENDS Integers, FiniteSetsExt, FiniteSetTheorems, WellFoundedInduction, TLAPS

Chosen(s) == CHOOSE x \in s : TRUE

\* it is the sum of f over every subset of S.
Sums(it, f, S) ==
    it = [s \in SUBSET S |-> IF s = {} THEN 0 ELSE f[Chosen(s)] + it[s \ {Chosen(s)}]]
Sum(f, S) == (CHOOSE it : Sums(it, f, S))[S]

\* Some numbers have a least one (the natural numbers are well founded).
LEMMA LeastNumber ==
  ASSUME NEW S \in SUBSET Nat, S # {}
  PROVE  \E m \in S : \A k \in S : m <= k
<1> DEFINE R == {ss \in Nat \X Nat : ss[1] < ss[2]}
<1>1. IsWellFoundedOn(R, Nat)
  BY NatLessThanWellFounded DEF OpToRel
<1>2. \A k, m \in Nat : k < m => <<k, m>> \in R
  OBVIOUS
<1> HIDE DEF R
<1>3. PICK m \in S : \A k \in S : ~(<<k, m>> \in R)
  BY <1>1, WFMin
<1>4. ASSUME NEW k \in S PROVE m <= k
  <2>1. k \in Nat /\ m \in Nat
    OBVIOUS
  <2>2. ~(k < m)
    BY <1>2, <1>3, <2>1
  <2> QED
    BY <2>1, <2>2
<1> QED
  BY <1>4

\* A set of finite sets that is not empty has a smallest member: none of its
\* members loses an element and stays in it.
LEMMA Smallest ==
  ASSUME NEW S, IsFiniteSet(S), NEW F \in SUBSET SUBSET S, F # {}
  PROVE  \E s \in F : \A x \in s : s \ {x} \notin F
<1> DEFINE N == {Cardinality(s) : s \in F}
<1>1. \A s \in SUBSET S : IsFiniteSet(s) /\ Cardinality(s) \in Nat
  BY FS_Subset, FS_CardinalityType
<1>2. N \in SUBSET Nat /\ N # {}
  BY <1>1
<1>3. PICK m \in N : \A k \in N : m <= k
  BY <1>2, LeastNumber
<1>4. PICK s \in F : Cardinality(s) = m
  BY <1>3
<1>5. ASSUME NEW x \in s, s \ {x} \in F PROVE FALSE
  <2>1. Cardinality(s \ {x}) = m - 1
    BY <1>1, <1>4, FS_RemoveElement
  <2>2. Cardinality(s \ {x}) >= m
    BY <1>3, <1>5
  <2> QED
    BY <1>2, <2>1, <2>2
<1> QED
  BY <1>5

LEMMA ChosenIn == ASSUME NEW s, s # {} PROVE Chosen(s) \in s
BY DEF Chosen

\* There is only one such function.
LEMMA SumsUnique ==
  ASSUME NEW S, IsFiniteSet(S), NEW f, NEW g, Sums(g, f, S), NEW h, Sums(h, f, S)
  PROVE  g = h
<1> DEFINE F == {s \in SUBSET S : g[s] # h[s]}
<1>1. CASE F = {}
  BY <1>1 DEF Sums
<1>2. CASE F # {}
  <2>1. PICK s \in F : \A x \in s : s \ {x} \notin F
    BY <1>2, Smallest
  <2>2. s # {}
    BY DEF Sums
  <2>3. Chosen(s) \in s /\ s \ {Chosen(s)} \in SUBSET S
    BY <2>2, ChosenIn
  <2>4. g[s \ {Chosen(s)}] = h[s \ {Chosen(s)}]
    BY <2>1, <2>3
  <2> QED
    BY <2>2, <2>4 DEF Sums
<1> QED
  BY <1>1, <1>2

\* There is one.
Partial(it, f, S, n) ==
    it = [s \in {t \in SUBSET S : Cardinality(t) <= n} |->
            IF s = {} THEN 0 ELSE f[Chosen(s)] + it[s \ {Chosen(s)}]]

LEMMA SumsExist ==
  ASSUME NEW S, IsFiniteSet(S), NEW f
  PROVE  \E it : Sums(it, f, S)
<1> DEFINE Bad == {n \in Nat : ~\E it : Partial(it, f, S, n)}
<1>1. \A s \in SUBSET S : IsFiniteSet(s) /\ Cardinality(s) \in Nat /\ (Cardinality(s) = 0 <=> s = {})
  BY FS_Subset, FS_CardinalityType, FS_EmptySet
<1>2. CASE Bad = {}
  <2>1. PICK it : Partial(it, f, S, Cardinality(S))
    BY <1>1, <1>2
  <2>2. {t \in SUBSET S : Cardinality(t) <= Cardinality(S)} = SUBSET S
    BY FS_Subset
  <2> QED
    BY <2>1, <2>2 DEF Partial, Sums
<1>3. CASE Bad # {}
  <2>1. PICK n \in Bad : \A k \in Bad : n <= k
    BY <1>3, LeastNumber
  <2>2. n # 0
    <3> DEFINE zero == [s \in {t \in SUBSET S : Cardinality(t) <= 0} |-> 0]
    <3>1. {t \in SUBSET S : Cardinality(t) <= 0} = {{}}
      BY <1>1
    <3>2. zero = [s \in {t \in SUBSET S : Cardinality(t) <= 0} |->
                    IF s = {} THEN 0 ELSE f[Chosen(s)] + zero[s \ {Chosen(s)}]]
      BY <3>1
    <3>3. Partial(zero, f, S, 0)
      BY <3>2 DEF Partial
    <3> QED
      BY <3>3, <2>1
  <2>3. n - 1 \in Nat /\ n - 1 \notin Bad
    BY <2>1, <2>2
  <2>4. PICK less : Partial(less, f, S, n - 1)
    BY <2>3
  <2> DEFINE more == [s \in {t \in SUBSET S : Cardinality(t) <= n} |->
                        IF s = {} THEN 0 ELSE f[Chosen(s)] + less[s \ {Chosen(s)}]]
  <2>5. ASSUME NEW s \in SUBSET S, Cardinality(s) <= n, s # {}
        PROVE  more[s \ {Chosen(s)}] = less[s \ {Chosen(s)}]
    <3>1. s \ {Chosen(s)} \in SUBSET S /\ Cardinality(s \ {Chosen(s)}) <= n - 1
      BY <1>1, <2>5, ChosenIn, FS_RemoveElement
    <3>2. Cardinality(s \ {Chosen(s)}) <= n
      BY <1>1, <3>1
    <3> QED
      BY <2>4, <3>1, <3>2 DEF Partial
  <2>6. more = [s \in {t \in SUBSET S : Cardinality(t) <= n} |->
                  IF s = {} THEN 0 ELSE f[Chosen(s)] + more[s \ {Chosen(s)}]]
    BY <2>5
  <2>7. Partial(more, f, S, n)
    BY <2>6 DEF Partial
  <2> QED
    BY <2>1, <2>7
<1> QED
  BY <1>2, <1>3

LEMMA SumIs ==
  ASSUME NEW S, IsFiniteSet(S), NEW f, NEW it, Sums(it, f, S)
  PROVE  Sum(f, S) = it[S]
<1>1. Sums(CHOOSE i : Sums(i, f, S), f, S)
  BY SumsExist
<1> QED
  BY <1>1, SumsUnique DEF Sum

-----------------------------------------------------------------------------
(* What a sum is *)

\* The sums of f over the subsets of S, with the elements in any order.
LEMMA SumsInt ==
  ASSUME NEW S, IsFiniteSet(S), NEW f, \A x \in S : f[x] \in Int, NEW it, Sums(it, f, S)
  PROVE  \A s \in SUBSET S : it[s] \in Int
<1> DEFINE F == {s \in SUBSET S : it[s] \notin Int}
<1>1. ASSUME F # {} PROVE FALSE
  <2>1. PICK s \in F : \A x \in s : s \ {x} \notin F
    BY <1>1, Smallest
  <2>2. it[{}] = 0 /\ (s # {} => it[s] = f[Chosen(s)] + it[s \ {Chosen(s)}])
    BY DEF Sums
  <2>3. s # {} /\ Chosen(s) \in s /\ s \ {Chosen(s)} \in SUBSET S
    <3>1. it[s] \notin Int /\ 0 \in Int
      OBVIOUS
    <3>2. s # {}
      BY <2>2, <3>1
    <3> QED
      BY <3>2, ChosenIn
  <2>4. it[s \ {Chosen(s)}] \in Int
    BY <2>1, <2>3
  <2> QED
    BY <2>2, <2>3, <2>4
<1> QED
  BY <1>1

LEMMA SumsNat ==
  ASSUME NEW S, IsFiniteSet(S), NEW f, \A x \in S : f[x] \in Nat, NEW it, Sums(it, f, S)
  PROVE  \A s \in SUBSET S : it[s] \in Nat
<1> DEFINE F == {s \in SUBSET S : it[s] \notin Nat}
<1>1. ASSUME F # {} PROVE FALSE
  <2>1. PICK s \in F : \A x \in s : s \ {x} \notin F
    BY <1>1, Smallest
  <2>2. it[{}] = 0 /\ (s # {} => it[s] = f[Chosen(s)] + it[s \ {Chosen(s)}])
    BY DEF Sums
  <2>3. s # {} /\ Chosen(s) \in s /\ s \ {Chosen(s)} \in SUBSET S
    BY <2>2, ChosenIn
  <2>4. it[s \ {Chosen(s)}] \in Nat
    BY <2>1, <2>3
  <2> QED
    BY <2>2, <2>3, <2>4
<1> QED
  BY <1>1

LEMMA SumsRemove ==
  ASSUME NEW S, IsFiniteSet(S), NEW f, \A x \in S : f[x] \in Int, NEW it, Sums(it, f, S)
  PROVE  \A s \in SUBSET S : \A y \in s : it[s] = f[y] + it[s \ {y}]
<1> DEFINE F == {s \in SUBSET S : \E y \in s : it[s] # f[y] + it[s \ {y}]}
<1>1. ASSUME F # {} PROVE FALSE
  <2>1. PICK s \in F : \A x \in s : s \ {x} \notin F
    BY <1>1, Smallest
  <2>2. PICK y \in s : it[s] # f[y] + it[s \ {y}]
    OBVIOUS
  <2>3. PICK x \in s : x = Chosen(s) /\ it[s] = f[x] + it[s \ {x}]
    BY <2>2, ChosenIn DEF Sums
  <2>4. x # y
    BY <2>2, <2>3
  <2>5. /\ s \ {x} \in SUBSET S /\ s \ {y} \in SUBSET S /\ (s \ {x}) \ {y} \in SUBSET S
        /\ y \in s \ {x} /\ x \in s \ {y} /\ (s \ {x}) \ {y} = (s \ {y}) \ {x}
    BY <2>4
  <2>6. it[s \ {x}] = f[y] + it[(s \ {x}) \ {y}]
    BY <2>1, <2>5
  <2>7. it[s \ {y}] = f[x] + it[(s \ {y}) \ {x}]
    BY <2>1, <2>5
  <2>8. PICK rest \in Int, a \in Int, b \in Int :
          rest = it[(s \ {x}) \ {y}] /\ a = f[x] /\ b = f[y]
    BY <2>5, SumsInt
  <2>9. it[s \ {x}] = b + rest /\ it[s \ {y}] = a + rest
    BY <2>5, <2>6, <2>7, <2>8
  <2>10. it[s] = a + (b + rest) /\ it[s] # b + (a + rest)
    BY <2>2, <2>3, <2>8, <2>9
  <2> QED
    BY <2>8, <2>10
<1> QED
  BY <1>1

\* Over a subset, the sums are the same.
LEMMA SumsRestrict ==
  ASSUME NEW S, IsFiniteSet(S), NEW T \in SUBSET S, NEW f, NEW it, Sums(it, f, S)
  PROVE  Sum(f, T) = it[T]
<1> DEFINE on == [s \in SUBSET T |-> it[s]]
<1>1. \A s \in SUBSET T : s # {} => s \ {Chosen(s)} \in SUBSET T
  OBVIOUS
<1>2. on = [s \in SUBSET T |-> IF s = {} THEN 0 ELSE f[Chosen(s)] + on[s \ {Chosen(s)}]]
  BY <1>1 DEF Sums
<1>3. Sums(on, f, T)
  BY <1>2 DEF Sums
<1>4. IsFiniteSet(T)
  BY FS_Subset
<1> QED
  BY <1>3, <1>4, SumIs

LEMMA SumInt ==
  ASSUME NEW S, IsFiniteSet(S), NEW f, \A x \in S : f[x] \in Int
  PROVE  Sum(f, S) \in Int
BY SumsExist, SumIs, SumsInt

LEMMA SumNat ==
  ASSUME NEW S, IsFiniteSet(S), NEW f, \A x \in S : f[x] \in Nat
  PROVE  Sum(f, S) \in Nat
BY SumsExist, SumIs, SumsNat

LEMMA SumEmpty == ASSUME NEW f PROVE Sum(f, {}) = 0
<1>1. IsFiniteSet({})
  BY FS_EmptySet
<1>2. PICK it : Sums(it, f, {})
  BY <1>1, SumsExist
<1>3. it[{}] = 0
  BY <1>2 DEF Sums
<1> QED
  BY <1>1, <1>2, <1>3, SumIs

\* A sum with one of its elements taken out.
LEMMA SumRemove ==
  ASSUME NEW S, IsFiniteSet(S), NEW f, \A x \in S : f[x] \in Int, NEW y \in S
  PROVE  Sum(f, S) = f[y] + Sum(f, S \ {y})
<1>1. PICK it : Sums(it, f, S)
  BY SumsExist
<1>2. Sum(f, S) = it[S] /\ Sum(f, S \ {y}) = it[S \ {y}]
  BY <1>1, SumIs, SumsRestrict
<1>3. it[S] = f[y] + it[S \ {y}]
  BY <1>1, SumsRemove
<1> QED
  BY <1>2, <1>3

\* Only the values over the set count.
LEMMA SumSame ==
  ASSUME NEW S, IsFiniteSet(S), NEW f, NEW g, \A x \in S : f[x] = g[x]
  PROVE  Sum(f, S) = Sum(g, S)
<1>1. PICK it : Sums(it, f, S)
  BY SumsExist
<1>2. Sums(it, g, S)
  <2>1. \A s \in SUBSET S : s # {} => f[Chosen(s)] = g[Chosen(s)]
    BY ChosenIn
  <2> QED
    BY <1>1, <2>1 DEF Sums
<1> QED
  BY <1>1, <1>2, SumIs

\* One value changes.
LEMMA SumChange ==
  ASSUME NEW S, IsFiniteSet(S), NEW f, \A x \in S : f[x] \in Int, NEW g, \A x \in S : g[x] \in Int,
         NEW y \in S, \A x \in S : x # y => g[x] = f[x]
  PROVE  Sum(g, S) + f[y] = Sum(f, S) + g[y]
<1>1. IsFiniteSet(S \ {y})
  BY FS_Subset
<1>2. Sum(f, S \ {y}) = Sum(g, S \ {y}) /\ Sum(f, S \ {y}) \in Int
  BY <1>1, SumSame, SumInt
<1>3. Sum(f, S) = f[y] + Sum(f, S \ {y}) /\ Sum(g, S) = g[y] + Sum(g, S \ {y})
  BY SumRemove
<1> QED
  BY <1>2, <1>3

LEMMA SumZero ==
  ASSUME NEW S, IsFiniteSet(S), NEW f, \A x \in S : f[x] = 0
  PROVE  Sum(f, S) = 0
<1>1. PICK it : Sums(it, f, S)
  BY SumsExist
<1> DEFINE F == {s \in SUBSET S : it[s] # 0}
<1>2. ASSUME F # {} PROVE FALSE
  <2>1. PICK s \in F : \A x \in s : s \ {x} \notin F
    BY <1>2, Smallest
  <2>2. s # {} /\ it[s] = f[Chosen(s)] + it[s \ {Chosen(s)}]
    BY <1>1 DEF Sums
  <2>3. Chosen(s) \in s /\ s \ {Chosen(s)} \in SUBSET S
    BY <2>2, ChosenIn
  <2> QED
    BY <2>1, <2>2, <2>3
<1> QED
  BY <1>1, <1>2, SumIs

\* One value more.
LEMMA SumAdd ==
  ASSUME NEW S, IsFiniteSet(S), NEW f, \A x \in S : f[x] \in Int, NEW y, y \notin S, f[y] \in Int
  PROVE  Sum(f, S \cup {y}) = Sum(f, S) + f[y]
<1>1. IsFiniteSet(S \cup {y}) /\ (S \cup {y}) \ {y} = S
  BY FS_AddElement
<1>2. Sum(f, S \cup {y}) = f[y] + Sum(f, (S \cup {y}) \ {y})
  BY <1>1, SumRemove
<1>3. Sum(f, S \cup {y}) = f[y] + Sum(f, S)
  BY <1>1, <1>2
<1>4. Sum(f, S) \in Int
  BY SumInt
<1> QED
  BY <1>3, <1>4

LEMMA SumOne ==
  ASSUME NEW f, NEW y, f[y] \in Int
  PROVE  Sum(f, {y}) = f[y]
<1>1. IsFiniteSet({}) /\ {} \cup {y} = {y}
  BY FS_EmptySet
<1>2. Sum(f, {} \cup {y}) = Sum(f, {}) + f[y]
  BY <1>1, SumAdd
<1>3. Sum(f, {y}) = 0 + f[y]
  BY <1>1, <1>2, SumEmpty
<1> QED
  BY <1>3

\* Of numbers that are not negative, a part adds up to no more than the whole.
LEMMA SumPart ==
  ASSUME NEW S, IsFiniteSet(S), NEW f, \A x \in S : f[x] \in Nat, NEW T \in SUBSET S
  PROVE  Sum(f, T) <= Sum(f, S)
<1>1. PICK it : Sums(it, f, S)
  BY SumsExist
<1>2. \A s \in SUBSET S : it[s] \in Nat
  BY <1>1, SumsNat
<1> DEFINE F == {s \in SUBSET S : T \subseteq s /\ ~(it[T] <= it[s])}
<1>3. ASSUME F # {} PROVE FALSE
  <2>0. F \in SUBSET SUBSET S
    OBVIOUS
  <2>1. PICK s \in F : \A x \in s : s \ {x} \notin F
    <3> HIDE DEF F
    <3> QED
      BY <1>3, <2>0, Smallest
  <2>2. it[T] \in Nat /\ it[s] \in Nat
    BY <1>2
  <2>3. T # s
    BY <2>2
  <2>4. PICK x \in s : x \notin T
    BY <2>3
  <2>5. it[s] = f[x] + it[s \ {x}]
    BY <1>1, SumsRemove
  <2>6. it[T] <= it[s \ {x}]
    BY <2>1, <2>4
  <2>7. f[x] \in Nat /\ it[s \ {x}] \in Nat
    BY <1>2
  <2> QED
    BY <2>2, <2>5, <2>6, <2>7
<1>4. it[T] <= it[S]
  BY <1>3
<1>5. Sum(f, T) = it[T] /\ Sum(f, S) = it[S]
  BY <1>1, SumIs, SumsRestrict
<1> QED
  BY <1>4, <1>5

\* What is 0 does not count.
LEMMA SumOfPart ==
  ASSUME NEW S, IsFiniteSet(S), NEW f, \A x \in S : f[x] \in Int, NEW T \in SUBSET S,
         \A x \in S \ T : f[x] = 0
  PROVE  Sum(f, S) = Sum(f, T)
<1>1. PICK it : Sums(it, f, S)
  BY SumsExist
<1>2. \A s \in SUBSET S : it[s] \in Int
  BY <1>1, SumsInt
<1> DEFINE F == {s \in SUBSET S : T \subseteq s /\ it[s] # it[T]}
<1>3. ASSUME F # {} PROVE FALSE
  <2>0. F \in SUBSET SUBSET S
    OBVIOUS
  <2>1. PICK s \in F : \A x \in s : s \ {x} \notin F
    <3> HIDE DEF F
    <3> QED
      BY <1>3, <2>0, Smallest
  <2>2. PICK x \in s : x \notin T
    OBVIOUS
  <2>3. it[s] = f[x] + it[s \ {x}]
    BY <1>1, SumsRemove
  <2>4. it[s \ {x}] = it[T]
    BY <2>1, <2>2
  <2>5. f[x] = 0 /\ it[T] \in Int
    BY <1>2, <2>2
  <2> QED
    BY <2>3, <2>4, <2>5
<1>4. it[T] = it[S]
  BY <1>3
<1>5. Sum(f, T) = it[T] /\ Sum(f, S) = it[S]
  BY <1>1, SumIs, SumsRestrict
<1> QED
  BY <1>4, <1>5

-----------------------------------------------------------------------------
(* Filling up one after another *)

\* R puts the elements of S into an order.
Orders(R, S) ==
    /\ \A x \in S : <<x, x>> \notin R
    /\ \A x, y \in S : x # y => <<x, y>> \in R \/ <<y, x>> \in R
    /\ \A x, y, z \in S : <<x, y>> \in R /\ <<y, z>> \in R => <<x, z>> \in R

First(R, S, x) == x \in S /\ \A y \in S \ {x} : <<x, y>> \in R

LEMMA FirstExists ==
  ASSUME NEW S, IsFiniteSet(S), S # {}, NEW R, Orders(R, S)
  PROVE  \E x : First(R, S, x)
<1> DEFINE F == {s \in SUBSET S : s # {} /\ ~\E x : First(R, s, x)}
<1>1. ASSUME F # {} PROVE FALSE
  <2>1. PICK s \in F : \A x \in s : s \ {x} \notin F
    BY <1>1, Smallest
  <2>2. PICK x \in s : TRUE
    BY <2>1
  <2>3. s \ {x} # {}
    BY <2>1 DEF First
  <2>4. PICK y : First(R, s \ {x}, y)
    BY <2>1, <2>3
  <2>5. CASE <<x, y>> \in R
    <3>1. \A z \in s \ {x} : <<x, z>> \in R
      <4> TAKE z \in s \ {x}
      <4>1. z = y \/ <<y, z>> \in R
        BY <2>4 DEF First
      <4>2. x \in S /\ y \in S /\ z \in S
        BY <2>1, <2>4 DEF First
      <4> QED
        BY <2>5, <4>1, <4>2 DEF Orders
    <3> QED
      BY <2>1, <3>1 DEF First
  <2>6. CASE <<y, x>> \in R
    BY <2>1, <2>4, <2>6 DEF First
  <2> QED
    BY <2>1, <2>4, <2>5, <2>6 DEF First, Orders
<1> QED
  BY <1>1

\* The other way round it is an order, too: there is a last one.
LEMMA LastExists ==
  ASSUME NEW S, IsFiniteSet(S), S # {}, NEW R, Orders(R, S)
  PROVE  \E x \in S : \A y \in S \ {x} : <<y, x>> \in R
<1> DEFINE Back == {ss \in S \X S : <<ss[2], ss[1]>> \in R}
<1>1. \A x, y \in S : <<x, y>> \in Back <=> <<y, x>> \in R
  OBVIOUS
<1> HIDE DEF Back
<1>2. Orders(Back, S)
  BY <1>1 DEF Orders
<1>3. PICK x : First(Back, S, x)
  BY <1>2, FirstExists
<1> QED
  BY <1>1, <1>3 DEF First

\* From an amount each takes, in turn, what it lacks, and the last takes the rest.
Remainder(R, S, lacks, amount, c) == amount - Sum(lacks, {d \in S : <<d, c>> \in R})
IsLast(R, S, c) == \A d \in S \ {c} : <<d, c>> \in R
FillsUp(R, S, lacks, amount, takes) ==
    \A c \in S :
       LET left == Remainder(R, S, lacks, amount, c)
       IN takes[c] = IF left <= 0 THEN 0
                     ELSE IF IsLast(R, S, c) \/ left < lacks[c] THEN left ELSE lacks[c]

LeastOf(a, b) == IF a <= b THEN a ELSE b

\* Those before c took all that they lacked, or all there was.
LEMMA TakenBefore ==
  ASSUME NEW S, IsFiniteSet(S), NEW R, Orders(R, S), NEW lacks, \A x \in S : lacks[x] \in Nat,
         NEW amount \in Nat, NEW takes, FillsUp(R, S, lacks, amount, takes)
  PROVE  /\ \A c \in S : takes[c] \in Nat
         /\ \A c \in S : LET before == {d \in S : <<d, c>> \in R}
                         IN Sum(takes, before) = LeastOf(amount, Sum(lacks, before))
<1> DEFINE Before(c) == {d \in S : <<d, c>> \in R}
<1>0. \A c : Before(c) \in SUBSET S /\ \A d : d \in Before(c) <=> d \in S /\ <<d, c>> \in R
  OBVIOUS
<1>10. \A c : Remainder(R, S, lacks, amount, c) = amount - Sum(lacks, Before(c))
  BY DEF Remainder
<1>11. SUFFICES /\ \A c \in S : takes[c] \in Nat
                /\ \A c \in S : Sum(takes, Before(c)) = LeastOf(amount, Sum(lacks, Before(c)))
  OBVIOUS
<1> HIDE DEF Before
<1>1. \A c \in S : IsFiniteSet(Before(c)) /\ Sum(lacks, Before(c)) \in Nat
  BY <1>0, FS_Subset, SumNat
<1>2. ASSUME NEW c \in S
      PROVE  /\ takes[c] \in Nat
             /\ ~IsLast(R, S, c) =>
                  takes[c] = LET left == amount - Sum(lacks, Before(c))
                             IN IF left <= 0 THEN 0 ELSE LeastOf(left, lacks[c])
  <2>1. PICK l \in Int : l = amount - Sum(lacks, Before(c))
    BY <1>1
  <2>2. l = Remainder(R, S, lacks, amount, c)
    BY <1>10, <2>1
  <2>3. takes[c] = IF l <= 0 THEN 0 ELSE IF IsLast(R, S, c) \/ l < lacks[c] THEN l ELSE lacks[c]
    BY <2>2 DEF FillsUp
  <2> QED
    BY <2>1, <2>3 DEF LeastOf
<1> DEFINE Bad == {c \in S : Sum(takes, Before(c)) # LeastOf(amount, Sum(lacks, Before(c)))}
<1>3. ASSUME Bad # {} PROVE FALSE
  <2>0. IsFiniteSet(Bad) /\ Orders(R, Bad)
    BY FS_Subset DEF Orders
  <2>1. PICK c : First(R, Bad, c)
    BY <1>3, <2>0, FirstExists
  <2>2. c \in S /\ c \in Bad
    BY <2>1 DEF First
  <2>3. CASE Before(c) = {}
    <3>1. Sum(takes, Before(c)) = 0 /\ Sum(lacks, Before(c)) = 0
      BY <2>3, SumEmpty
    <3> QED
      BY <2>2, <3>1 DEF LeastOf
  <2>4. CASE Before(c) # {}
    <3>1. Orders(R, Before(c))
      BY <1>0 DEF Orders
    <3>2. PICK m \in Before(c) : \A d \in Before(c) \ {m} : <<d, m>> \in R
      BY <1>1, <2>2, <2>4, <3>1, LastExists
    <3>3. m \in S /\ <<m, c>> \in R /\ <<c, m>> \notin R /\ m # c
      BY <1>0, <2>2, <3>2 DEF Orders
    <3>4. m \notin Bad
      BY <2>1, <2>2, <3>3 DEF First
    <3>5. Before(c) \ {m} = Before(m)
      <4>1. \A d : d \in Before(c) \ {m} => d \in Before(m)
        BY <1>0, <3>2
      <4>2. \A d : d \in Before(m) => d \in Before(c) \ {m}
        BY <1>0, <2>2, <3>3 DEF Orders
      <4> QED
        BY <4>1, <4>2
    <3>6. ~IsLast(R, S, m)
      BY <2>2, <3>3 DEF IsLast
    <3>7. /\ Sum(lacks, Before(c)) = lacks[m] + Sum(lacks, Before(m))
          /\ Sum(takes, Before(c)) = takes[m] + Sum(takes, Before(m))
      <4>1. \A d \in Before(c) : lacks[d] \in Int /\ takes[d] \in Int
        BY <1>0, <1>2
      <4> QED
        BY <1>1, <2>2, <3>2, <3>5, <4>1, SumRemove
    <3>8. PICK a \in Nat, b \in Nat, t \in Nat :
            a = Sum(lacks, Before(m)) /\ b = lacks[m] /\ t = takes[m]
      BY <1>1, <1>2, <3>3
    <3>9. Sum(takes, Before(m)) = LeastOf(amount, a)
      BY <3>3, <3>4, <3>8
    <3>10. t = IF amount - a <= 0 THEN 0 ELSE LeastOf(amount - a, b)
      BY <1>2, <3>3, <3>6, <3>8
    <3>11. t + LeastOf(amount, a) = LeastOf(amount, b + a)
      BY <3>8, <3>10 DEF LeastOf
    <3>12. Sum(takes, Before(c)) = LeastOf(amount, Sum(lacks, Before(c)))
      BY <3>7, <3>8, <3>9, <3>11
    <3> QED
      BY <2>2, <3>12
  <2> QED
    BY <2>3, <2>4
<1> QED
  BY <1>2, <1>3

\* Together they take it all.
LEMMA AllTaken ==
  ASSUME NEW S, IsFiniteSet(S), S # {}, NEW R, Orders(R, S), NEW lacks, \A x \in S : lacks[x] \in Nat,
         NEW amount \in Nat, NEW takes, FillsUp(R, S, lacks, amount, takes)
  PROVE  Sum(takes, S) = amount
<1>1. PICK l \in S : \A d \in S \ {l} : <<d, l>> \in R
  BY LastExists
<1>2. {d \in S : <<d, l>> \in R} = S \ {l}
  BY <1>1 DEF Orders
<1>3. IsFiniteSet(S \ {l})
  BY FS_Subset
<1>4. PICK a \in Nat : a = Sum(lacks, S \ {l})
  BY <1>3, SumNat
<1>5. Sum(takes, S \ {l}) = LeastOf(amount, a)
  BY <1>2, <1>4, TakenBefore
<1>6. takes[l] = IF amount - a <= 0 THEN 0 ELSE amount - a
  <2>1. Remainder(R, S, lacks, amount, l) = amount - a /\ IsLast(R, S, l)
    BY <1>1, <1>2, <1>4 DEF Remainder, IsLast
  <2> QED
    BY <2>1 DEF FillsUp
<1>7. Sum(takes, S) = takes[l] + Sum(takes, S \ {l})
  BY SumRemove, TakenBefore
<1> QED
  BY <1>4, <1>5, <1>6, <1>7 DEF LeastOf

\* Whoever takes something leaves nothing lacking before it.
LEMMA NothingLacksBefore ==
  ASSUME NEW S, IsFiniteSet(S), NEW R, Orders(R, S), NEW lacks, \A x \in S : lacks[x] \in Nat,
         NEW amount \in Nat, NEW takes, FillsUp(R, S, lacks, amount, takes),
         NEW c \in S, NEW d \in S, <<c, d>> \in R, takes[d] # 0
  PROVE  takes[c] = lacks[c]
<1> DEFINE Before(x) == {y \in S : <<y, x>> \in R}
<1>0. \A x : Before(x) \in SUBSET S /\ \A y : y \in Before(x) <=> y \in S /\ <<y, x>> \in R
  OBVIOUS
<1>10. \A x : Remainder(R, S, lacks, amount, x) = amount - Sum(lacks, Before(x))
  BY DEF Remainder
<1> HIDE DEF Before
<1>1. IsFiniteSet(Before(c)) /\ IsFiniteSet(Before(d)) /\ IsFiniteSet(Before(c) \cup {c})
  BY <1>0, FS_Subset, FS_AddElement
<1>2. Before(c) \cup {c} \subseteq Before(d) /\ c \notin Before(c)
  BY <1>0 DEF Orders
<1>3. PICK a \in Nat, b \in Nat, n \in Nat :
        a = Sum(lacks, Before(c)) /\ b = Sum(lacks, Before(d)) /\ n = lacks[c]
  BY <1>0, <1>1, SumNat
<1>4. Sum(lacks, Before(c) \cup {c}) = a + n
  BY <1>0, <1>1, <1>2, <1>3, SumAdd
<1>5. Sum(lacks, Before(c) \cup {c}) <= b
  BY <1>0, <1>1, <1>2, <1>3, SumPart
<1>6. Remainder(R, S, lacks, amount, d) = amount - b /\ Remainder(R, S, lacks, amount, c) = amount - a
  BY <1>3, <1>10
<1>7. ~(amount - b <= 0)
  BY <1>6 DEF FillsUp
<1>8. ~IsLast(R, S, c)
  BY DEF IsLast, Orders
<1>9. takes[c] = IF amount - a <= 0 THEN 0 ELSE IF amount - a < n THEN amount - a ELSE n
  BY <1>3, <1>6, <1>8 DEF FillsUp
<1> QED
  BY <1>3, <1>4, <1>5, <1>7, <1>9
=============================================================================
