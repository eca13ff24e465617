----------------------------- MODULE DataLemmas -----------------------------
(***************************************************************************)
(* Facts about integers, sequences and sums that the proofs of the         *)
(* components rest on.                                                     *)
(***************************************************************************)
EXTENDS Integers, Sequences, FiniteSetsExt, FiniteSetTheorems, SequenceTheorems, TLAPS

\* A finite set of integers that is not empty has a least element.
LEMMA LeastElement ==
    ASSUME NEW S \in SUBSET Int, IsFiniteSet(S), S # {}
    PROVE  \E x \in S : \A y \in S : x <= y
  <1> DEFINE upTo(x) == {y \in S : y <= x}
             segments == {upTo(x) : x \in S}
  <1>1. segments \subseteq FiniteSubsetsOf(S) /\ segments # {}
    <2>1. \A x \in S : upTo(x) \in SUBSET S /\ IsFiniteSet(upTo(x))
      BY FS_Subset
    <2> QED
      BY <2>1 DEF FiniteSubsetsOf
  <1>2. IsWellFoundedOn(StrictSubsetOrdering(S), FiniteSubsetsOf(S))
    BY FS_StrictSubsetOrderingWellFounded
  <1> HIDE DEF segments
  <1>3. PICK s \in segments : \A r \in segments : <<r, s>> \notin StrictSubsetOrdering(S)
    BY <1>1, <1>2, WFMin
  <1> USE DEF segments
  <1>4. PICK x \in S : s = upTo(x)
    BY <1>3
  <1>5. ASSUME NEW y \in S, y < x PROVE FALSE
    <2>1. upTo(y) \in segments /\ upTo(y) \subseteq upTo(x)
      <3>1. \A z \in S : z <= y => z <= x
        BY <1>5
      <3> QED
        BY <3>1
    <2>2. x \in upTo(x) /\ x \notin upTo(y)
      BY <1>5
    <2>3. <<upTo(y), upTo(x)>> \in StrictSubsetOrdering(S)
      BY <2>1, <2>2 DEF StrictSubsetOrdering
    <2> QED
      BY <1>3, <1>4, <2>1, <2>3
  <1> QED
    BY <1>5

\* What Head, Tail, \o, Append and SubSeq do to a sequence.
LEMMA QueueOperators ==
    ASSUME NEW S, NEW s \in Seq(S)
    PROVE  /\ Len(s) \in Nat
           /\ s = <<>> <=> Len(s) = 0
           /\ \A i \in 1..Len(s) : s[i] \in S
           /\ s # <<>> => /\ Head(s) = s[1] /\ Head(s) \in S
                          /\ Tail(s) \in Seq(S) /\ Len(Tail(s)) = Len(s) - 1
                          /\ \A i \in 1..Len(Tail(s)) : Tail(s)[i] = s[i + 1]
           /\ \A t \in Seq(S) :
                 /\ s \o t \in Seq(S) /\ Len(s \o t) = Len(s) + Len(t)
                 /\ \A i \in 1..Len(s) : (s \o t)[i] = s[i]
                 /\ \A i \in 1..Len(t) : (s \o t)[Len(s) + i] = t[i]
           /\ \A e \in S :
                 /\ Append(s, e) \in Seq(S) /\ Len(Append(s, e)) = Len(s) + 1
                 /\ \A i \in 1..Len(s) : Append(s, e)[i] = s[i]
                 /\ Append(s, e)[Len(s) + 1] = e
           /\ \A m, n \in Nat : m >= 1 /\ n <= Len(s) =>
                 /\ SubSeq(s, m, n) \in Seq(S)
                 /\ Len(SubSeq(s, m, n)) = IF m <= n THEN n - m + 1 ELSE 0
                 /\ \A i \in 1..Len(SubSeq(s, m, n)) : SubSeq(s, m, n)[i] = s[m + i - 1]
  <1>1. Len(s) \in Nat /\ \A i \in 1..Len(s) : s[i] \in S
    BY LenProperties, ElementOfSeq
  <1>2. s = <<>> <=> Len(s) = 0
    BY EmptySeq
  <1>3. s # <<>> => /\ Head(s) = s[1] /\ Head(s) \in S
                    /\ Tail(s) \in Seq(S) /\ Len(Tail(s)) = Len(s) - 1
                    /\ \A i \in 1..Len(Tail(s)) : Tail(s)[i] = s[i + 1]
    BY HeadTailProperties
  <1>4. ASSUME NEW t \in Seq(S)
        PROVE  /\ s \o t \in Seq(S) /\ Len(s \o t) = Len(s) + Len(t)
               /\ \A i \in 1..Len(s) : (s \o t)[i] = s[i]
               /\ \A i \in 1..Len(t) : (s \o t)[Len(s) + i] = t[i]
    <2>1. Len(t) \in Nat
      BY LenProperties
    <2> QED
      BY <1>1, <2>1, ConcatProperties
  <1>5. ASSUME NEW e \in S
        PROVE  /\ Append(s, e) \in Seq(S) /\ Len(Append(s, e)) = Len(s) + 1
               /\ \A i \in 1..Len(s) : Append(s, e)[i] = s[i]
               /\ Append(s, e)[Len(s) + 1] = e
    BY AppendProperties
  <1>6. ASSUME NEW m \in Nat, NEW n \in Nat, m >= 1, n <= Len(s)
        PROVE  /\ SubSeq(s, m, n) \in Seq(S)
               /\ Len(SubSeq(s, m, n)) = IF m <= n THEN n - m + 1 ELSE 0
               /\ \A i \in 1..Len(SubSeq(s, m, n)) : SubSeq(s, m, n)[i] = s[m + i - 1]
    <2>1. \A i \in m..n : s[i] \in S
      BY <1>1, <1>6
    <2>2. /\ SubSeq(s, m, n) \in Seq(S)
          /\ Len(SubSeq(s, m, n)) = IF m <= n THEN n - m + 1 ELSE 0
          /\ \A i \in 1..(n - m + 1) : SubSeq(s, m, n)[i] = s[m + i - 1]
      BY <2>1, SubSeqProperties
    <2> QED
      BY <1>1, <2>2
  <1> QED
    BY <1>1, <1>2, <1>3, <1>4, <1>5, <1>6

-----------------------------------------------------------------------------
(***************************************************************************)
(* Sums over finite sets, as numbers of units.                             *)
(***************************************************************************)

\* The sum of f over S, as a set with one element for each unit of each value.
Units(f, S) == UNION {{s} \X (0 .. f[s] - 1) : s \in S}

\* The values of a finite set have finitely many units.
LEMMA UnitsFinite ==
  ASSUME NEW S, IsFiniteSet(S), NEW f, \A s \in S : f[s] \in Nat
  PROVE  IsFiniteSet(Units(f, S)) /\ Cardinality(Units(f, S)) \in Nat
  <1> DEFINE row == [s \in S |-> {s} \X (0 .. f[s] - 1)]
             rows == {row[s] : s \in S}
  <1>1. row \in Surjection(S, rows)
    BY DEF Surjection
  <1>2. IsFiniteSet(rows)
    <2> HIDE DEF row, rows
    <2> QED
      BY <1>1, FS_Surjection
  <1>3. \A r \in rows : IsFiniteSet(r)
    <2> SUFFICES ASSUME NEW s \in S PROVE IsFiniteSet({s} \X (0 .. f[s] - 1))
      OBVIOUS
    <2>1. f[s] - 1 \in Int
      OBVIOUS
    <2> HIDE DEF row, rows
    <2>2. IsFiniteSet({s})
      BY FS_Singleton
    <2>3. IsFiniteSet(0 .. f[s] - 1)
      BY <2>1, FS_Interval
    <2> QED
      BY <2>2, <2>3, FS_Product
  <1>4. Units(f, S) = UNION rows
    BY DEF Units
  <1>5. IsFiniteSet(Units(f, S))
    BY <1>2, <1>3, <1>4, FS_UNION
  <1> QED
    BY <1>5, FS_CardinalityType

\* One value after the other.
LEMMA UnitsSplit ==
  ASSUME NEW S, IsFiniteSet(S), NEW f, \A s \in S : f[s] \in Nat, NEW x \in S
  PROVE  Cardinality(Units(f, S)) = f[x] + Cardinality(Units(f, S \ {x}))
  <1> DEFINE row == {x} \X (0 .. f[x] - 1)
  <1>1. Units(f, S) = row \cup Units(f, S \ {x})
    BY DEF Units
  <1>2. row \cap Units(f, S \ {x}) = {}
    BY DEF Units
  <1>3. IsFiniteSet(row) /\ Cardinality(row) = f[x]
    <2>1. IsFiniteSet({x}) /\ Cardinality({x}) = 1
      BY FS_Singleton
    <2>2. IsFiniteSet(0 .. f[x] - 1) /\ Cardinality(0 .. f[x] - 1) = f[x]
      BY FS_Interval
    <2>3. IsFiniteSet(row) /\ Cardinality(row) = 1 * f[x]
      BY <2>1, <2>2, FS_Product
    <2> QED
      BY <2>3
  <1>4. /\ IsFiniteSet(Units(f, S \ {x}))
        /\ Cardinality(Units(f, S \ {x})) \in Nat
    <2>1. IsFiniteSet(S \ {x})
      BY FS_RemoveElement
    <2> QED
      BY <2>1, UnitsFinite
  <1> HIDE DEF row
  <1>5. Cardinality(row \cup Units(f, S \ {x}))
          = Cardinality(row) + Cardinality(Units(f, S \ {x}))
              - Cardinality(row \cap Units(f, S \ {x}))
    BY <1>3, <1>4, FS_Union, Zenon
  <1>6. Cardinality(row \cap Units(f, S \ {x})) = 0
    BY <1>2, FS_EmptySet
  <1> QED
    BY <1>1, <1>3, <1>4, <1>5, <1>6

\* MapThenSumSet counts the units: the function its definition chooses is the one
\* that gives each subset the number of its units, since a smallest subset on
\* which two such functions differ cannot exist.
LEMMA SumOfUnits ==
  ASSUME NEW S, IsFiniteSet(S), NEW f, \A s \in S : f[s] \in Nat
  PROVE  MapThenSumSet(LAMBDA s : f[s], S) = Cardinality(Units(f, S))
  <1> DEFINE any(T) == CHOOSE x \in T : TRUE
             Sums(g) == g = [T \in SUBSET S |->
                               IF T = {} THEN 0 ELSE f[any(T)] + g[T \ {any(T)}]]
             units == [T \in SUBSET S |-> Cardinality(Units(f, T))]
             total == CHOOSE g : Sums(g)
  <1>1. MapThenSumSet(LAMBDA s : f[s], S) = total[S]
    BY Zenon DEF MapThenSumSet, MapThenFoldSet
  <1>2. Sums(units)
    <2> SUFFICES ASSUME NEW T \in SUBSET S
                 PROVE  units[T] = IF T = {} THEN 0 ELSE f[any(T)] + units[T \ {any(T)}]
      BY Zenon
    <2>1. CASE T = {}
      <3>1. Units(f, {}) = {}
        BY DEF Units
      <3> QED
        BY <2>1, <3>1, FS_EmptySet
    <2>2. CASE T # {}
      <3>1. any(T) \in T
        BY <2>2
      <3>2. IsFiniteSet(T)
        BY FS_Subset
      <3> HIDE DEF any
      <3>3. Cardinality(Units(f, T)) = f[any(T)] + Cardinality(Units(f, T \ {any(T)}))
        BY <3>1, <3>2, UnitsSplit
      <3> QED
        BY <2>2, <3>3
    <2> QED
      BY <2>1, <2>2
  <1>3. Sums(total)
    BY <1>2, Zenon
  <1> DEFINE bad == {T \in SUBSET S : total[T] # units[T]}
  <1>4. bad = {}
    <2> SUFFICES ASSUME bad # {} PROVE FALSE
      OBVIOUS
    <2> HIDE DEF total, units, Sums
    <2>1. bad \subseteq FiniteSubsetsOf(S)
      BY FS_Subset DEF FiniteSubsetsOf
    <2>2. PICK T \in bad : \A U \in bad : <<U, T>> \notin StrictSubsetOrdering(S)
      <3> HIDE DEF bad
      <3> QED
        BY <2>1, FS_StrictSubsetOrderingWellFounded, WFMin
    <2> USE DEF Sums
    <2>3. /\ total[T] = IF T = {} THEN 0 ELSE f[any(T)] + total[T \ {any(T)}]
          /\ units[T] = IF T = {} THEN 0 ELSE f[any(T)] + units[T \ {any(T)}]
      <3>1. T \in SUBSET S
        OBVIOUS
      <3>2. \A g : Sums(g) =>
              g[T] = IF T = {} THEN 0 ELSE f[any(T)] + g[T \ {any(T)}]
        BY <3>1, Zenon
      <3> HIDE DEF Sums
      <3> QED
        BY <1>2, <1>3, <3>2, Zenon
    <2> HIDE DEF Sums
    <2>4. T # {}
      BY <2>3
    <2>5. any(T) \in T
      BY <2>4
    <2> HIDE DEF any
    <2>6. T \ {any(T)} \in bad
      BY <2>3, <2>4, <2>5
    <2>7. <<T \ {any(T)}, T>> \in StrictSubsetOrdering(S)
      BY <2>5 DEF StrictSubsetOrdering
    <2> QED
      BY <2>2, <2>6, <2>7
  <1>5. S \in SUBSET S /\ units[S] = Cardinality(Units(f, S))
    OBVIOUS
  <1> HIDE DEF total, units
  <1> QED
    BY <1>1, <1>4, <1>5

\* One more unit at one place is one more in all.
LEMMA SumGrows ==
  ASSUME NEW S, IsFiniteSet(S), NEW f, NEW g, NEW x \in S, NEW d \in Nat,
         \A s \in S : f[s] \in Nat, g[x] = f[x] + d, \A s \in S \ {x} : g[s] = f[s]
  PROVE  Cardinality(Units(g, S)) = Cardinality(Units(f, S)) + d
  <1>1. Units(g, S \ {x}) = Units(f, S \ {x})
    BY DEF Units
  <1>2. \A s \in S : g[s] \in Nat
    OBVIOUS
  <1>3. Cardinality(Units(g, S)) = g[x] + Cardinality(Units(g, S \ {x}))
    BY <1>2, UnitsSplit
  <1>4. Cardinality(Units(f, S)) = f[x] + Cardinality(Units(f, S \ {x}))
    BY UnitsSplit
  <1>5. Cardinality(Units(f, S \ {x})) \in Nat
    BY FS_RemoveElement, UnitsFinite
  <1> QED
    BY <1>1, <1>3, <1>4, <1>5

\* The sum of n equal values and zeros.
LEMMA SumOfEquals ==
  ASSUME NEW S, IsFiniteSet(S), NEW T \in SUBSET S, NEW f, NEW c \in Nat,
         \A s \in T : f[s] = c, \A s \in S \ T : f[s] = 0
  PROVE  Cardinality(Units(f, S)) = Cardinality(T) * c
  <1>1. Units(f, S) = T \X (0 .. c - 1)
    BY DEF Units
  <1>2. IsFiniteSet(0 .. c - 1) /\ Cardinality(0 .. c - 1) = c
    BY FS_Interval
  <1>3. IsFiniteSet(T)
    BY FS_Subset
  <1> QED
    BY <1>1, <1>2, <1>3, FS_Product

-----------------------------------------------------------------------------
(***************************************************************************)
(* Division with remainder.                                                *)
(***************************************************************************)

\* Division with remainder.
LEMMA Division ==
  ASSUME NEW n \in Nat, NEW d \in Nat \ {0}
  PROVE  /\ n \div d \in Nat /\ n % d \in 0 .. d - 1
         /\ n = d * (n \div d) + (n % d)
  OBVIOUS

\* Quotient and remainder are unique.
LEMMA DivisionUnique ==
  ASSUME NEW n \in Nat, NEW d \in Nat \ {0}, NEW q \in Nat, NEW r \in 0 .. d - 1,
         n = d * q + r
  PROVE  n \div d = q /\ n % d = r
  <1> DEFINE p == n \div d
             s == n % d
  <1>1. p \in Nat /\ s \in 0 .. d - 1 /\ n = d * p + s
    BY Division
  <1> HIDE DEF p, s
  <1>2. ASSUME NEW a \in Nat, NEW b \in Nat, a < b PROVE d * b >= d * a + d
    <2>1. PICK k \in Nat : b = a + 1 + k
      <3>1. b - a - 1 \in Nat /\ b = a + 1 + (b - a - 1)
        BY <1>2
      <3> QED
        BY <3>1
    <2>2. d * b = d * a + d + d * k
      BY <2>1
    <2>3. d * k \in Nat
      OBVIOUS
    <2>4. d * a \in Nat
      OBVIOUS
    <2> QED
      BY <2>2, <2>3, <2>4
  <1>3. d * p \in Nat /\ d * q \in Nat
    BY <1>1
  <1>4. ~(p < q) /\ ~(q < p)
    BY <1>1, <1>2, <1>3
  <1>5. p = q
    BY <1>1, <1>4
  <1> QED
    BY <1>1, <1>3, <1>5 DEF p, s

\* One step of size g from a multiple of g meets a multiple of d at most once, when
\* g divides d.
LEMMA StageArithmetic ==
  ASSUME NEW p \in Nat, NEW g \in Nat \ {0}, NEW d \in Nat \ {0}, d % g = 0, p % g = 0
  PROVE  /\ (p + g) % g = 0
         /\ (p + g) \div d = p \div d + (IF (p + g) % d = 0 THEN 1 ELSE 0)
  <1>1. PICK a \in Nat : p = g * a
    <2> DEFINE k == p \div g
    <2>1. k \in Nat /\ p = g * k + 0
      BY Division
    <2> HIDE DEF k
    <2>2. p = g * k
      BY <2>1
    <2> QED
      BY <2>1, <2>2
  <1>2. PICK b \in Nat : d = g * b
    <2> DEFINE k == d \div g
    <2>1. k \in Nat /\ d = g * k + 0
      BY Division
    <2> HIDE DEF k
    <2>2. d = g * k
      BY <2>1
    <2> QED
      BY <2>1, <2>2
  <1>3. (p + g) % g = 0
    <2>1. p + g = g * (a + 1) + 0 /\ 0 \in 0 .. g - 1 /\ a + 1 \in Nat /\ p + g \in Nat
      BY <1>1
    <2> QED
      BY <2>1, DivisionUnique
  <1> DEFINE q == p \div d
             r == p % d
  <1>4. q \in Nat /\ r \in 0 .. d - 1 /\ p = d * q + r
    BY Division
  <1> HIDE DEF q, r
  <1>5. r + g <= d
    <2>1. r = g * (a - b * q)
      <3>1. d * q = g * (b * q)
        BY <1>2, <1>4
      <3>2. b * q \in Nat
        BY <1>4
      <3>3. r = g * a - g * (b * q)
        BY <1>1, <1>4, <3>1
      <3> HIDE DEF q
      <3> QED
        BY <3>2, <3>3
    <2> DEFINE c == a - b * q
    <2>2. c \in Int
      BY <1>4
    <2>3. r = g * c
      BY <2>1
    <2> HIDE DEF c
    <2>4. c < b
      <3>1. SUFFICES ASSUME c >= b PROVE FALSE
        BY <2>2
      <3>2. PICK k \in Nat : c = b + k
        <4>1. c - b \in Nat /\ c = b + (c - b)
          BY <2>2, <3>1
        <4> QED
          BY <4>1
      <3>3. g * c = g * b + g * k /\ g * k \in Nat /\ g * b \in Nat
        BY <3>2
      <3> QED
        BY <1>2, <1>4, <2>3, <3>3
    <2>5. PICK k \in Nat : b = c + 1 + k
      <3>1. b - c - 1 \in Nat /\ b = c + 1 + (b - c - 1)
        BY <2>2, <2>4
      <3> QED
        BY <3>1
    <2>6. g * b = g * c + g + g * k /\ g * k \in Nat
      BY <2>2, <2>5
    <2> QED
      BY <1>2, <1>4, <2>3, <2>6
  <1>6. CASE r + g = d
    <2>1. p + g = d * (q + 1) + 0
      BY <1>4, <1>6
    <2>2. (p + g) \div d = q + 1 /\ (p + g) % d = 0
      BY <1>4, <2>1, DivisionUnique
    <2> QED
      BY <1>3, <2>2 DEF q
  <1>7. CASE r + g < d
    <2>1. p + g = d * q + (r + g) /\ r + g \in 0 .. d - 1 /\ p + g \in Nat
      <3>1. d * q \in Nat
        BY <1>4
      <3> QED
        BY <1>4, <1>7, <3>1
    <2>2. (p + g) \div d = q /\ (p + g) % d = r + g
      BY <1>4, <2>1, DivisionUnique
    <2> QED
      BY <1>3, <1>4, <2>2 DEF q
  <1> QED
    BY <1>4, <1>5, <1>6, <1>7

\* The executed iterations among the first i, one more or not.
LEMMA SkipArithmetic ==
  ASSUME NEW d \in Nat \ {0}, NEW i \in Nat
  PROVE  /\ (d - 1) \div d = 0
         /\ (i + d - 1) \div d \in Nat
         /\ (i + 1 + d - 1) \div d = (i + d - 1) \div d + (IF i % d = 0 THEN 1 ELSE 0)
  <1>1. (d - 1) \div d = 0
    <2>1. d - 1 \in Nat /\ d - 1 \in 0 .. d - 1 /\ d - 1 = d * 0 + (d - 1)
      OBVIOUS
    <2> QED
      BY <2>1, DivisionUnique
  <1> DEFINE q == i \div d
             r == i % d
  <1>2. q \in Nat /\ r \in 0 .. d - 1 /\ i = d * q + r
    BY Division
  <1> HIDE DEF q, r
  <1>3. d * q \in Nat /\ d * (q + 1) = d * q + d
    BY <1>2
  <1>4. i + 1 + d - 1 \in Nat /\ i + d - 1 \in Nat
    OBVIOUS
  <1>5. (i + 1 + d - 1) \div d = q + 1
    <2>1. i + 1 + d - 1 = d * (q + 1) + r
      BY <1>2, <1>3
    <2> QED
      BY <1>2, <1>4, <2>1, DivisionUnique
  <1>6. CASE r = 0
    <2>1. i + d - 1 = d * q + (d - 1) /\ d - 1 \in 0 .. d - 1
      BY <1>2, <1>6
    <2>2. (i + d - 1) \div d = q
      BY <1>2, <1>4, <2>1, DivisionUnique
    <2> QED
      BY <1>1, <1>2, <1>5, <1>6, <2>2 DEF r
  <1>7. CASE r # 0
    <2>1. i + d - 1 = d * (q + 1) + (r - 1) /\ r - 1 \in 0 .. d - 1
      BY <1>2, <1>3, <1>7
    <2>2. (i + d - 1) \div d = q + 1
      BY <1>2, <1>4, <2>1, DivisionUnique
    <2> QED
      BY <1>1, <1>2, <1>5, <1>7, <2>2 DEF r
  <1> QED
    BY <1>6, <1>7

\* A list of members of a set is a list of members of a larger one.
LEMMA SeqGrows ==
    ASSUME NEW S, NEW T, S \subseteq T, NEW s \in Seq(S) PROVE s \in Seq(T)
  <1>1. DOMAIN s = 1..Len(s) /\ Len(s) \in Nat /\ \A i \in 1..Len(s) : s[i] \in S
    OBVIOUS
  <1>2. s = [i \in 1..Len(s) |-> s[i]]
    BY <1>1
  <1>3. \A i \in 1..Len(s) : s[i] \in T
    BY <1>1
  <1> QED
    BY <1>1, <1>2, <1>3

-----------------------------------------------------------------------------
(***************************************************************************)
(* Recursive functions.                                                    *)
(***************************************************************************)

\* A set that contains 0, and the successor of each of its numbers, has them all.
LEMMA NatInductionSet ==
    ASSUME NEW S, 0 \in S, \A i \in Nat : i \in S => i + 1 \in S
    PROVE  \A n \in Nat : n \in S
  <1> SUFFICES ASSUME NEW n \in Nat, n \notin S PROVE FALSE
    OBVIOUS
  <1> DEFINE missing == {i \in 0..n : i \notin S}
  <1>1. missing \in SUBSET Int /\ missing # {}
    OBVIOUS
  <1>2. IsFiniteSet(missing)
    BY FS_Interval, FS_Subset, 0 \in Int, n \in Int
  <1> HIDE DEF missing
  <1>3. PICK x \in missing : \A y \in missing : x <= y
    BY <1>1, <1>2, LeastElement
  <1>4. x \in 0..n /\ x \notin S /\ x # 0
    BY <1>3 DEF missing
  <1>5. x - 1 \in Nat /\ x - 1 \in 0..n /\ x - 1 \notin S
    <2>1. (x - 1) + 1 = x /\ x - 1 \in Nat /\ x - 1 \in 0..n
      BY <1>4
    <2> QED
      BY <1>4, <2>1
  <1>6. x - 1 \in missing
    BY <1>5 DEF missing
  <1> QED
    BY <1>3, <1>4, <1>6

\* f is base at 0, and each further value of it up to n is a step from the one before.
Recursion(f, n, base, step) ==
    f[0] = base /\ \A i \in 1..n : f[i] = step[<<i, f[i - 1]>>]

\* A recursion over 0..n that starts in B and whose steps stay in B has a solution.
LEMMA RecursionWitness ==
    ASSUME NEW n \in Nat, NEW B, NEW base \in B, NEW step \in [(1..n) \X B -> B]
    PROVE  \E f \in [0..n -> B] : Recursion(f, n, base, step)
  <1> DEFINE Solves(f, m) == /\ f \in [0..m -> B] /\ f[0] = base
                             /\ \A i \in 1..m : f[i] = step[<<i, f[i - 1]>>]
             solved == {m \in Nat : m <= n => \E f : Solves(f, m)}
  <1>1. 0 \in solved
    <2>1. Solves([i \in 0..0 |-> base], 0)
      OBVIOUS
    <2> QED
      BY <2>1
  <1>2. ASSUME NEW m \in Nat, m \in solved PROVE m + 1 \in solved
    <2> SUFFICES ASSUME m + 1 <= n PROVE \E f : Solves(f, m + 1)
      OBVIOUS
    <2>1. PICK f : Solves(f, m)
      BY <1>2
    <2> DEFINE g == [i \in 0..(m + 1) |-> IF i <= m THEN f[i] ELSE step[<<m + 1, f[m]>>]]
    <2>2. step[<<m + 1, f[m]>>] \in B /\ m + 1 \in 1..n
      BY <2>1
    <2>3. \A i \in 0..m : i \in 0..(m + 1) /\ i <= m /\ f[i] \in B
      BY <2>1
    <2>4. g \in [0..(m + 1) -> B]
      <3>1. \A i \in 0..(m + 1) : i <= m => i \in 0..m
        OBVIOUS
      <3> QED
        BY <2>2, <2>3, <3>1
    <2>5. /\ \A i \in 0..m : g[i] = f[i]
          /\ g[m + 1] = step[<<m + 1, f[m]>>]
      BY <2>3
    <2> HIDE DEF g
    <2>6. g[0] = base
      BY <2>1, <2>5
    <2>7. ASSUME NEW i \in 1..(m + 1) PROVE g[i] = step[<<i, g[i - 1]>>]
      <3>1. i - 1 \in 0..m
        OBVIOUS
      <3>2. CASE i = m + 1
        BY <2>5, <3>1, <3>2
      <3>3. CASE i # m + 1
        <4>1. i \in 1..m /\ i \in 0..m
          BY <3>3
        <4> QED
          BY <2>1, <2>5, <3>1, <4>1
      <3> QED
        BY <3>2, <3>3
    <2> QED
      BY <2>4, <2>6, <2>7
  <1> HIDE DEF solved
  <1>3. n \in solved
    BY <1>1, <1>2, NatInductionSet
  <1>4. PICK f : Solves(f, n)
    BY <1>3 DEF solved
  <1> QED
    BY <1>4 DEF Recursion

\* What holds first, and of each value when it holds of the one before, holds of all.
LEMMA RecursionInvariant ==
    ASSUME NEW n \in Nat, NEW f, NEW P, f[0] \in P[0],
           \A i \in 1..n : f[i - 1] \in P[i - 1] => f[i] \in P[i]
    PROVE  \A i \in 0..n : f[i] \in P[i]
  <1> DEFINE kept == {i \in Nat : i <= n => f[i] \in P[i]}
  <1>1. 0 \in kept
    OBVIOUS
  <1>2. ASSUME NEW i \in Nat, i \in kept PROVE i + 1 \in kept
    <2> SUFFICES ASSUME i + 1 <= n PROVE f[i + 1] \in P[i + 1]
      OBVIOUS
    <2>1. i + 1 \in 1..n /\ (i + 1) - 1 = i /\ i <= n
      OBVIOUS
    <2> QED
      BY <1>2, <2>1
  <1> HIDE DEF kept
  <1>3. \A i \in Nat : i \in kept
    BY <1>1, <1>2, NatInductionSet
  <1> QED
    BY <1>3 DEF kept
=============================================================================
