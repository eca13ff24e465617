-------------------------- MODULE RedisAsyncProofs --------------------------
(***************************************************************************)
(* Proofs about the dicts of hiredis and the asynchronous connection that  *)
(* keeps its subscriptions in them.                                        *)
(***************************************************************************)
EXTENDS RedisAsync, DataLemmas, SequenceTheorems, FiniteSetTheorems, TLAPS

(***************************************************************************)
(* Dicts.                                                                  *)
(***************************************************************************)

Entries == [key : DictKeys, val : Nat]
Dicts == [table : Seq(Seq(Entries)), used : Int]

\* The entry is somewhere in the table.
In(entry, table) == \E b \in DOMAIN table : \E i \in DOMAIN table[b] : table[b][i] = entry

\* The list of all elements, bucket by bucket: each place of the table once.
LEMMA FlattenFacts ==
    ASSUME NEW B, NEW t \in Seq(Seq(B))
    PROVE  /\ FlattenSeq(t) \in Seq(B)
           /\ \A i \in 1..Len(FlattenSeq(t)) : In(FlattenSeq(t)[i], t)
           /\ \A e : In(e, t) => \E i \in 1..Len(FlattenSeq(t)) : FlattenSeq(t)[i] = e
           /\ (\A b, c \in 1..Len(t) : \A j \in 1..Len(t[b]), k \in 1..Len(t[c]) :
                  t[b][j] = t[c][k] => b = c /\ j = k)
              => \A i, j \in 1..Len(FlattenSeq(t)) : FlattenSeq(t)[i] = FlattenSeq(t)[j] => i = j
  <1> DEFINE n == Len(t)
             Distinct == \A b, c \in 1..n : \A j \in 1..Len(t[b]), k \in 1..Len(t[c]) :
                            t[b][j] = t[c][k] => b = c /\ j = k
             step == [p \in (1..n) \X Seq(B) |-> p[2] \o t[p[1]]]
             flatten == CHOOSE f : f = [i \in 1..Len(t) |-> IF i = 1 THEN t[i] ELSE f[i - 1] \o t[i]]
  <1>1. /\ n \in Nat /\ DOMAIN t = 1..n
        /\ \A b \in 1..n : t[b] \in Seq(B) /\ Len(t[b]) \in Nat /\ DOMAIN t[b] = 1..Len(t[b])
    <2>1. n \in Nat /\ DOMAIN t = 1..n /\ \A b \in 1..n : t[b] \in Seq(B)
      OBVIOUS
    <2> QED
      BY <2>1
  <1>2. CASE n = 0
    <2>1. FlattenSeq(t) = t /\ t = <<>>
      BY <1>2, QueueOperators DEF FlattenSeq
    <2>2. \A e : ~In(e, t)
      BY <1>1, <1>2 DEF In
    <2>3. Len(FlattenSeq(t)) = 0 /\ FlattenSeq(t) \in Seq(B)
      BY <2>1
    <2> QED
      BY <2>2, <2>3
  <1>3. CASE n # 0
    <2>1. step \in [(1..n) \X Seq(B) -> Seq(B)]
      <3>1. \A p \in (1..n) \X Seq(B) : p[2] \o t[p[1]] \in Seq(B)
        BY <1>1
      <3> QED
        BY <3>1
    <2>2. PICK g \in [0..n -> Seq(B)] : Recursion(g, n, <<>>, step)
      <3>1. <<>> \in Seq(B)
        OBVIOUS
      <3>2. n \in Nat
        BY <1>1
      <3> HIDE DEF step, n
      <3> QED
        BY <2>1, <3>1, <3>2, RecursionWitness
    <2>3. \A i \in 1..n : g[i - 1] \in Seq(B) /\ g[i] \in Seq(B) /\ g[i] = g[i - 1] \o t[i]
      <3> SUFFICES ASSUME NEW i \in 1..n PROVE g[i - 1] \in Seq(B) /\ g[i] \in Seq(B) /\ g[i] = g[i - 1] \o t[i]
        OBVIOUS
      <3>1. i - 1 \in 0..n /\ i \in 0..n
        BY <1>1
      <3>2. g[i - 1] \in Seq(B) /\ g[i] \in Seq(B)
        BY <2>2, <3>1
      <3>3. g[i] = step[<<i, g[i - 1]>>] /\ <<i, g[i - 1]>> \in (1..n) \X Seq(B)
        BY <2>2, <3>2 DEF Recursion
      <3> QED
        BY <3>2, <3>3
    <2> HIDE DEF step
    <2>4. FlattenSeq(t) = g[n]
      <3> DEFINE f == [i \in 1..n |-> g[i]]
                 eqn(h) == [i \in 1..n |-> IF i = 1 THEN t[i] ELSE h[i - 1] \o t[i]]
      <3>1. \A i \in 1..n : g[i] = IF i = 1 THEN t[i] ELSE f[i - 1] \o t[i]
        <4> SUFFICES ASSUME NEW i \in 1..n PROVE g[i] = IF i = 1 THEN t[i] ELSE f[i - 1] \o t[i]
          OBVIOUS
        <4>1. CASE i = 1
          <5>1. g[1] = g[1 - 1] \o t[1] /\ t[1] \in Seq(B) /\ 1 - 1 = 0
            BY <1>1, <2>3, <4>1
          <5>2. g[1] = t[1]
            BY <2>2, <5>1, ConcatEmptySeq DEF Recursion
          <5> QED
            BY <4>1, <5>2
        <4>2. CASE i # 1
          <5>1. i - 1 \in 1..n
            BY <1>1, <4>2
          <5> QED
            BY <2>3, <4>2, <5>1
        <4> QED
          BY <4>1, <4>2
      <3>2. f = eqn(f)
        BY <3>1, Zenon
      <3>3. flatten = eqn(flatten)
        BY <3>2, Zenon
      <3>4. FlattenSeq(t) = flatten[n]
        BY <1>3, Zenon DEF FlattenSeq
      <3> DEFINE same == {i \in Nat : i + 1 <= n => flatten[i + 1] = g[i + 1]}
      <3> HIDE DEF flatten, f
      <3>5. flatten[1] = g[1] /\ 1 \in 1..n
        <4>1. 1 \in 1..n
          BY <1>1, <1>3
        <4>2. flatten[1] = t[1]
          BY <3>3, <4>1
        <4>3. g[1] = t[1]
          BY <3>1, <4>1
        <4> QED
          BY <4>1, <4>2, <4>3
      <3>6. ASSUME NEW i \in Nat, i \in same PROVE i + 1 \in same
        <4> SUFFICES ASSUME i + 2 <= n PROVE flatten[i + 2] = g[i + 2]
          OBVIOUS
        <4>1. i + 2 \in 1..n /\ i + 1 \in 1..n /\ i + 2 # 1 /\ (i + 2) - 1 = i + 1
          BY <1>1
        <4>2. flatten[i + 2] = flatten[i + 1] \o t[i + 2]
          BY <3>3, <4>1
        <4>3. g[i + 2] = g[i + 1] \o t[i + 2]
          BY <2>3, <4>1
        <4>4. flatten[i + 1] = g[i + 1]
          BY <3>6, <4>1
        <4> QED
          BY <4>2, <4>3, <4>4
      <3>7. 0 \in same
        BY <3>5
      <3> HIDE DEF same
      <3>8. n - 1 \in same
        <4>1. \A i \in Nat : i \in same
          BY <3>6, <3>7, NatInductionSet
        <4> QED
          BY <1>1, <1>3, <4>1
      <3>9. flatten[n] = g[n]
        BY <1>1, <1>3, <3>8 DEF same
      <3> QED
        BY <3>4, <3>9
    <2> DEFINE Lists(m) ==
                  /\ \A i \in 1..Len(g[m]) :
                        \E b \in 1..m : \E j \in 1..Len(t[b]) : g[m][i] = t[b][j]
                  /\ \A b \in 1..m : \A j \in 1..Len(t[b]) :
                        \E i \in 1..Len(g[m]) : g[m][i] = t[b][j]
                  /\ Distinct => \A i, j \in 1..Len(g[m]) : g[m][i] = g[m][j] => i = j
               listed == {m \in Nat : m <= n => Lists(m)}
    <2>5. 0 \in listed
      <3>1. Len(g[0]) = 0
        BY <2>2 DEF Recursion
      <3> QED
        BY <3>1
    <2>6. ASSUME NEW m \in Nat, m \in listed PROVE m + 1 \in listed
      <3> HIDE DEF Lists
      <3> SUFFICES ASSUME m + 1 <= n PROVE Lists(m + 1)
        OBVIOUS
      <3>1. m + 1 \in 1..n /\ (m + 1) - 1 = m /\ Lists(m)
        BY <1>1, <2>6
      <3> USE DEF Lists
      <3> DEFINE s == g[m]
                 u == t[m + 1]
                 v == g[m + 1]
      <3>2. s \in Seq(B) /\ u \in Seq(B) /\ v = s \o u
        BY <1>1, <2>3, <3>1
      <3> HIDE DEF s, u, v
      <3>3. /\ Len(s) \in Nat /\ Len(u) \in Nat /\ Len(v) = Len(s) + Len(u)
            /\ \A i \in 1..Len(s) : v[i] = s[i]
            /\ \A i \in 1..Len(u) : v[Len(s) + i] = u[i]
        BY <3>2, QueueOperators
      <3>4. \A i \in 1..Len(v) : \/ i \in 1..Len(s) /\ v[i] = s[i]
                                 \/ i - Len(s) \in 1..Len(u) /\ v[i] = u[i - Len(s)]
        <4> SUFFICES ASSUME NEW i \in 1..Len(v), i \notin 1..Len(s)
                     PROVE  i - Len(s) \in 1..Len(u) /\ v[i] = u[i - Len(s)]
          BY <3>3
        <4>1. i - Len(s) \in 1..Len(u) /\ i = Len(s) + (i - Len(s))
          BY <3>3
        <4> QED
          BY <3>3, <4>1
      <3>5. ASSUME NEW i \in 1..Len(v)
            PROVE  \E b \in 1..(m + 1) : \E j \in 1..Len(t[b]) : v[i] = t[b][j]
        <4>1. CASE i \in 1..Len(s) /\ v[i] = s[i]
          <5>1. PICK b \in 1..m : \E j \in 1..Len(t[b]) : v[i] = t[b][j]
            BY <3>1, <4>1 DEF s
          <5>2. b \in 1..(m + 1)
            OBVIOUS
          <5> QED
            BY <5>1, <5>2
        <4>2. CASE i - Len(s) \in 1..Len(u) /\ v[i] = u[i - Len(s)]
          <5>1. m + 1 \in 1..(m + 1)
            OBVIOUS
          <5> QED
            BY <4>2, <5>1 DEF u
        <4> QED
          BY <3>4, <4>1, <4>2
      <3>6. ASSUME NEW b \in 1..(m + 1), NEW j \in 1..Len(t[b])
            PROVE  \E i \in 1..Len(v) : v[i] = t[b][j]
        <4>1. CASE b = m + 1
          <5>1. j \in 1..Len(u) /\ t[b][j] = u[j]
            BY <4>1 DEF u
          <5>2. Len(s) + j \in 1..Len(v)
            BY <3>3, <5>1
          <5> QED
            BY <3>3, <5>1, <5>2
        <4>2. CASE b # m + 1
          <5>1. b \in 1..m
            BY <4>2
          <5>2. PICK i \in 1..Len(s) : s[i] = t[b][j]
            BY <3>1, <5>1 DEF s
          <5>3. i \in 1..Len(v)
            BY <3>3
          <5> QED
            BY <3>3, <5>2, <5>3
        <4> QED
          BY <4>1, <4>2
      <3>7. ASSUME Distinct, NEW i \in 1..Len(v), NEW j \in 1..Len(v), v[i] = v[j] PROVE i = j
        <4>1. ASSUME NEW k \in 1..Len(s), NEW l \in 1..Len(u), s[k] = u[l] PROVE FALSE
          <5>1. PICK b \in 1..m : \E a \in 1..Len(t[b]) : s[k] = t[b][a]
            BY <3>1, <4>1 DEF s
          <5>2. b \in 1..n /\ m + 1 \in 1..n /\ b # m + 1
            BY <3>1
          <5>3. PICK a \in 1..Len(t[b]) : t[b][a] = t[m + 1][l]
            BY <4>1, <5>1 DEF u
          <5> QED
            BY <3>7, <5>2, <5>3 DEF u
        <4>2. \A k, l \in 1..Len(s) : s[k] = s[l] => k = l
          BY <3>1, <3>7 DEF s
        <4>3. \A k, l \in 1..Len(u) : u[k] = u[l] => k = l
          BY <3>1, <3>7 DEF u
        <4>4. CASE i \in 1..Len(s) /\ v[i] = s[i]
          <5>1. j \in 1..Len(s) /\ v[j] = s[j]
            BY <3>4, <3>7, <4>1, <4>4
          <5> QED
            BY <3>7, <4>2, <4>4, <5>1
        <4>5. CASE i - Len(s) \in 1..Len(u) /\ v[i] = u[i - Len(s)]
          <5>1. j - Len(s) \in 1..Len(u) /\ v[j] = u[j - Len(s)]
            BY <3>4, <3>7, <4>1, <4>5
          <5>2. i - Len(s) = j - Len(s)
            BY <3>7, <4>3, <4>5, <5>1
          <5> QED
            BY <3>3, <5>2
        <4> QED
          BY <3>4, <4>4, <4>5
      <3> QED
        BY <3>5, <3>6, <3>7 DEF v
    <2> HIDE DEF listed
    <2>7. n \in listed
      BY <1>1, <2>5, <2>6, NatInductionSet
    <2>8. Lists(n)
      BY <1>1, <2>7 DEF listed
    <2>9. g[n] \in Seq(B)
      BY <1>1, <1>3, <2>2
    <2>10. \A e : In(e, t) <=> \E b \in 1..n : \E j \in 1..Len(t[b]) : t[b][j] = e
      BY <1>1 DEF In
    <2> HIDE DEF Distinct
    <2>11. \A i \in 1..Len(g[n]) : In(g[n][i], t)
      BY <2>8, <2>10, Zenon
    <2>12. ASSUME NEW e, In(e, t) PROVE \E i \in 1..Len(g[n]) : g[n][i] = e
      <3>1. PICK b \in 1..n : \E j \in 1..Len(t[b]) : t[b][j] = e
        BY <2>10, <2>12
      <3>2. PICK j \in 1..Len(t[b]) : t[b][j] = e
        BY <3>1
      <3> QED
        BY <2>8, <3>2
    <2> QED
      BY <2>4, <2>8, <2>9, <2>11, <2>12 DEF Distinct
  <1> QED
    BY <1>2, <1>3

\* The hash of a key selects one of the buckets.
LEMMA BucketRange ==
    ASSUME NEW size \in Nat \ {0}, NEW key \in DictKeys PROVE BucketOf(size, key) \in 1..size
  <1>1. KeyHash[key] \in Nat
    BY DictAssumption
  <1>2. KeyHash[key] % size \in 0..(size - 1)
    BY <1>1, Division
  <1> QED
    BY <1>2 DEF BucketOf

\* A table is never made with a size of 0.
LEMMA NextPowerPositive ==
    ASSUME NEW size \in Nat PROVE NextPower(size) \in Nat \ {0}
  <1> DEFINE Positive == Nat \ {0}
             step == [p \in (1..size) \X Positive |-> 2 * p[2]]
             eqn(f) == [i \in 0..size |-> IF i = 0 THEN InitialSize ELSE 2 * f[i - 1]]
             power == CHOOSE f : f = eqn(f)
             large == {i \in 0..size : power[i] >= size}
  <1>1. InitialSize \in Positive
    BY DictAssumption
  <1>2. step \in [(1..size) \X Positive -> Positive]
    OBVIOUS
  <1>3. PICK g \in [0..size -> Positive] : Recursion(g, size, InitialSize, step)
    <2> HIDE DEF step, Positive
    <2> QED
      BY <1>1, <1>2, RecursionWitness
  <1>4. g = eqn(g)
    <2>1. ASSUME NEW i \in 1..size PROVE g[i] = 2 * g[i - 1]
      <3> HIDE DEF step, Positive
      <3>1. i - 1 \in 0..size /\ g[i] = step[<<i, g[i - 1]>>]
        BY <1>3 DEF Recursion
      <3>2. <<i, g[i - 1]>> \in (1..size) \X Positive
        BY <1>3, <3>1
      <3> QED
        BY <3>1, <3>2 DEF step
    <2>2. \A i \in 0..size : g[i] = IF i = 0 THEN InitialSize ELSE 2 * g[i - 1]
      BY <1>3, <2>1 DEF Recursion
    <2>3. g = [i \in 0..size |-> g[i]]
      BY <1>3
    <2> HIDE DEF Positive
    <2> QED
      BY <2>2, <2>3
  <1>5. power = eqn(power)
    BY <1>4, Zenon
  <1> HIDE DEF power, step
  <1>6. \A i \in 0..size : power[i] = IF i = 0 THEN InitialSize ELSE 2 * power[i - 1]
    BY <1>5
  <1> DEFINE grown == {i \in Nat : i <= size => power[i] \in Nat /\ power[i] >= i + 1}
  <1>7. \A i \in Nat : i \in grown
    <2>1. 0 \in grown
      BY <1>1, <1>6
    <2>2. ASSUME NEW i \in Nat, i \in grown PROVE i + 1 \in grown
      <3> SUFFICES ASSUME i + 1 <= size PROVE power[i + 1] \in Nat /\ power[i + 1] >= i + 2
        OBVIOUS
      <3>1. i + 1 \in 0..size /\ i + 1 # 0 /\ (i + 1) - 1 = i /\ power[i] \in Nat /\ power[i] >= i + 1
        BY <2>2
      <3>2. power[i + 1] = 2 * power[i]
        BY <1>6, <3>1
      <3> QED
        BY <3>1, <3>2
    <2> HIDE DEF grown
    <2> QED
      BY <2>1, <2>2, NatInductionSet
  <1>8. \A i \in 0..size : power[i] \in Nat \ {0} /\ power[i] >= i + 1
    BY <1>7
  <1>9. large \in SUBSET Int /\ large # {} /\ IsFiniteSet(large)
    <2>1. size \in large
      BY <1>8
    <2>2. IsFiniteSet(0..size)
      BY FS_Interval
    <2> QED
      BY <2>1, <2>2, FS_Subset
  <1>10. \E i \in 0..size : power[i] >= size /\ \A j \in 0..(i - 1) : power[j] < size
    <2> HIDE DEF large
    <2>1. PICK i \in large : \A j \in large : i <= j
      BY <1>9, LeastElement
    <2>2. i \in 0..size /\ power[i] >= size
      BY DEF large
    <2>3. ASSUME NEW j \in 0..(i - 1) PROVE power[j] < size
      <3>1. j \in 0..size /\ ~(i <= j)
        BY <2>2
      <3>2. j \notin large
        BY <2>1, <3>1
      <3> QED
        BY <1>8, <3>1, <3>2 DEF large
    <2> QED
      BY <2>2, <2>3
  <1> DEFINE i == CHOOSE k \in 0..size : power[k] >= size /\ \A j \in 0..(k - 1) : power[j] < size
  <1>11. i \in 0..size
    BY <1>10
  <1>12. NextPower(size) = power[i]
    BY Zenon DEF NextPower, power
  <1> HIDE DEF i
  <1> QED
    BY <1>8, <1>11, <1>12


-----------------------------------------------------------------------------
\* The dict has exactly these entries, each in its place.
Keeps(d, map) ==
    /\ d \in Dicts
    /\ WellFormed(d.table)
    /\ \A e \in Entries : In(e, d.table) <=> e.key \in DOMAIN map /\ map[e.key] = e.val
    /\ d.used = Cardinality(DOMAIN map)

Tables == Seq(Seq(Entries))

\* The chain in which a key is looked up.
LEMMA ChainFacts ==
    ASSUME NEW d \in Dicts, NEW key \in DictKeys
    PROVE  /\ Chain(d, key) \in Seq(Entries)
           /\ d.table \in Tables /\ Len(d.table) \in Nat /\ DOMAIN d.table = 1..Len(d.table)
           /\ d.table # <<>> => /\ Len(d.table) # 0
                                /\ BucketOf(Len(d.table), key) \in DOMAIN d.table
                                /\ Chain(d, key) = d.table[BucketOf(Len(d.table), key)]
  <1>1. d.table \in Tables
    BY DEF Dicts, Tables
  <1>2. Len(d.table) \in Nat /\ DOMAIN d.table = 1..Len(d.table) /\ (d.table = <<>> <=> Len(d.table) = 0)
    BY <1>1, QueueOperators DEF Tables
  <1>3. d.table # <<>> => /\ Len(d.table) # 0
                          /\ BucketOf(Len(d.table), key) \in DOMAIN d.table
    BY <1>2, BucketRange
  <1>4. CASE d.table = <<>>
    <2>1. <<>> \in Seq(Entries)
      OBVIOUS
    <2> QED
      BY <1>1, <1>2, <1>4, <2>1 DEF Chain
  <1>5. CASE d.table # <<>>
    <2>1. Chain(d, key) = d.table[BucketOf(Len(d.table), key)]
      BY <1>5 DEF Chain
    <2>2. Chain(d, key) \in Seq(Entries)
      BY <1>1, <1>2, <1>3, <1>5, <2>1 DEF Tables
    <2> QED
      BY <1>1, <1>2, <1>3, <2>1, <2>2
  <1> QED
    BY <1>4, <1>5

\* What a search finds in a dict whose table is well formed.
LEMMA LookupFacts ==
    ASSUME NEW d \in Dicts, WellFormed(d.table), NEW key \in DictKeys
    PROVE  /\ Has(d, key) => /\ d.table # <<>>
                             /\ Position(Chain(d, key), key) \in DOMAIN Chain(d, key)
                             /\ Chain(d, key)[Position(Chain(d, key), key)].key = key
           /\ \A e \in Entries : In(e, d.table) /\ e.key = key =>
                 Has(d, key) /\ Chain(d, key)[Position(Chain(d, key), key)] = e
  <1> DEFINE chain == Chain(d, key)
             p == Position(chain, key)
  <1>1. /\ chain \in Seq(Entries) /\ Len(d.table) \in Nat /\ DOMAIN d.table = 1..Len(d.table)
        /\ d.table # <<>> => /\ BucketOf(Len(d.table), key) \in DOMAIN d.table
                             /\ chain = d.table[BucketOf(Len(d.table), key)]
    BY ChainFacts
  <1>2. ASSUME Has(d, key)
        PROVE  d.table # <<>> /\ p \in DOMAIN chain /\ chain[p].key = key
    <2>1. PICK i \in DOMAIN chain : chain[i].key = key
      BY <1>2 DEF Has
    <2>2. d.table # <<>>
      <3>1. SUFFICES ASSUME d.table = <<>> PROVE FALSE
        OBVIOUS
      <3>2. chain = <<>>
        BY <3>1 DEF Chain
      <3> QED
        BY <2>1, <3>2
    <2> DEFINE b == BucketOf(Len(d.table), key)
    <2>3. b \in DOMAIN d.table /\ chain = d.table[b]
      BY <1>1, <2>2
    <2>4. \A j \in DOMAIN chain : chain[j].key = key => j = i
      <3> HIDE DEF chain, b
      <3> QED
        BY <2>1, <2>3 DEF WellFormed
    <2>5. \A j \in 1..(i - 1) : chain[j].key # key
      <3>1. DOMAIN chain = 1..Len(chain) /\ Len(chain) \in Nat
        BY <1>1
      <3> HIDE DEF chain
      <3>2. \A j \in 1..(i - 1) : j \in DOMAIN chain /\ j # i
        BY <2>1, <3>1
      <3> QED
        BY <2>4, <3>2
    <2> HIDE DEF chain
    <2>6. p \in DOMAIN chain /\ chain[p].key = key
      BY <2>1, <2>5 DEF Position
    <2> QED
      BY <2>2, <2>6
  <1>3. ASSUME NEW e \in Entries, In(e, d.table), e.key = key
        PROVE  Has(d, key) /\ chain[p] = e
    <2>1. PICK b \in DOMAIN d.table : \E i \in DOMAIN d.table[b] : d.table[b][i] = e
      BY <1>3 DEF In
    <2>2. PICK i \in DOMAIN d.table[b] : d.table[b][i] = e
      BY <2>1
    <2>3. b = BucketOf(Len(d.table), key)
      BY <1>3, <2>2 DEF WellFormed
    <2>4. chain = d.table[b] /\ d.table # <<>>
      <3>1. d.table # <<>>
        BY <1>1
      <3> QED
        BY <1>1, <2>3, <3>1
    <2>5. Has(d, key)
      <3>1. i \in DOMAIN Chain(d, key) /\ Chain(d, key)[i].key = key
        BY <1>3, <2>2, <2>4
      <3> QED
        BY <3>1 DEF Has
    <2>6. p \in DOMAIN chain /\ chain[p].key = key
      BY <1>2, <2>5
    <2> HIDE DEF chain, p
    <2>7. p = i
      BY <1>3, <2>2, <2>4, <2>6 DEF WellFormed
    <2> QED
      BY <2>2, <2>4, <2>5, <2>7
  <1> QED
    BY <1>2, <1>3

\* A map from keys to callbacks that a dict can hold.
IsMap(map) == /\ DOMAIN map \subseteq DictKeys /\ IsFiniteSet(DOMAIN map)
              /\ \A key \in DOMAIN map : map[key] \in Nat

\* A dict that has these entries holds these values.
LEMMA KeepsHolds ==
    ASSUME NEW d, NEW map, IsMap(map), Keeps(d, map)
    PROVE  /\ Holds(d, map)
           /\ \A key \in DictKeys : Has(d, key) => key \in DOMAIN map /\ dictFind(d, key) = map[key]
  <1>1. d \in Dicts /\ WellFormed(d.table)
    BY DEF Keeps
  <1>2. ASSUME NEW key \in DictKeys, Has(d, key)
        PROVE  key \in DOMAIN map /\ dictFind(d, key) = map[key]
    <2> DEFINE e == Chain(d, key)[Position(Chain(d, key), key)]
    <2>1. /\ d.table # <<>> /\ Position(Chain(d, key), key) \in DOMAIN Chain(d, key) /\ e.key = key
      BY <1>1, <1>2, LookupFacts
    <2>2. e \in Entries
      BY <1>1, <2>1, ChainFacts
    <2>3. In(e, d.table)
      <3>1. /\ BucketOf(Len(d.table), key) \in DOMAIN d.table
            /\ Chain(d, key) = d.table[BucketOf(Len(d.table), key)]
        BY <1>1, <2>1, ChainFacts
      <3> QED
        BY <2>1, <3>1 DEF In
    <2>4. dictFind(d, key) = e.val
      BY DEF dictFind
    <2> HIDE DEF e
    <2> QED
      BY <2>1, <2>2, <2>3, <2>4 DEF Keeps
  <1>3. ASSUME NEW key \in DOMAIN map PROVE Has(d, key)
    <2> DEFINE e == Entry(key, map[key])
    <2>1. e \in Entries /\ e.key = key /\ e.val = map[key] /\ key \in DictKeys
      BY <1>3 DEF IsMap, Entry, Entries
    <2> HIDE DEF e
    <2>2. In(e, d.table)
      BY <2>1 DEF Keeps
    <2> QED
      BY <1>1, <2>1, <2>2, LookupFacts
  <1>4. \A key \in DOMAIN map : key \in DictKeys
    BY DEF IsMap
  <1> QED
    BY <1>1, <1>2, <1>3, <1>4 DEF Holds, Keeps

\* A new entry is the first of its chain; nothing else changes.
LEMMA LinkFacts ==
    ASSUME NEW t \in Tables, t # <<>>, NEW e \in Entries
    PROVE  /\ Link(t, e) \in Tables /\ Len(Link(t, e)) = Len(t)
           /\ \A x : In(x, Link(t, e)) <=> x = e \/ In(x, t)
           /\ WellFormed(t) /\ (\A x : In(x, t) => x.key # e.key) => WellFormed(Link(t, e))
  <1> DEFINE size == Len(t)
             c == BucketOf(size, e.key)
             u == Link(t, e)
             chain == <<e>> \o t[c]
  <1>1. size \in Nat \ {0} /\ DOMAIN t = 1..size
    BY QueueOperators DEF Tables
  <1>2. c \in 1..size
    BY <1>1, BucketRange DEF Entries
  <1>3. t[c] \in Seq(Entries) /\ <<e>> \in Seq(Entries)
    BY <1>1, <1>2 DEF Tables
  <1>4. /\ chain \in Seq(Entries) /\ Len(t[c]) \in Nat /\ Len(chain) = Len(t[c]) + 1
        /\ chain[1] = e /\ \A i \in 1..Len(t[c]) : chain[i + 1] = t[c][i]
    <2>1. Len(<<e>>) = 1 /\ <<e>>[1] = e
      OBVIOUS
    <2>2. \A s \in Seq(Entries) :
             /\ <<e>> \o s \in Seq(Entries) /\ Len(<<e>> \o s) = Len(<<e>>) + Len(s)
             /\ \A i \in 1..Len(<<e>>) : (<<e>> \o s)[i] = <<e>>[i]
             /\ \A i \in 1..Len(s) : (<<e>> \o s)[Len(<<e>>) + i] = s[i]
      BY <1>3, QueueOperators
    <2>3. Len(t[c]) \in Nat
      BY <1>3
    <2>4. /\ chain \in Seq(Entries) /\ Len(chain) = 1 + Len(t[c])
          /\ \A i \in 1..1 : chain[i] = <<e>>[i]
          /\ \A i \in 1..Len(t[c]) : chain[1 + i] = t[c][i]
      BY <1>3, <2>1, <2>2
    <2> HIDE DEF chain
    <2>5. chain[1] = e
      BY <2>1, <2>4
    <2>6. \A i \in 1..Len(t[c]) : chain[i + 1] = t[c][i]
      <3> SUFFICES ASSUME NEW i \in 1..Len(t[c]) PROVE chain[i + 1] = t[c][i]
        OBVIOUS
      <3>1. i + 1 = 1 + i
        BY <2>3
      <3> QED
        BY <2>4, <3>1
    <2> QED
      BY <2>3, <2>4, <2>5, <2>6
  <1>5. u = [t EXCEPT ![c] = chain]
    BY DEF Link
  <1> HIDE DEF u, c, chain
  <1>6. u \in Tables /\ Len(u) = size /\ DOMAIN u = 1..size
    <2>1. u \in Seq(Seq(Entries))
      BY <1>1, <1>2, <1>4, <1>5, ExceptSeq DEF Tables
    <2>2. DOMAIN u = DOMAIN t
      BY <1>5
    <2> QED
      BY <1>1, <2>1, <2>2, LenProperties DEF Tables
  <1>7. u[c] = chain /\ \A b \in 1..size : b # c => u[b] = t[b]
    BY <1>1, <1>2, <1>5
  <1>8. DOMAIN chain = 1..(Len(t[c]) + 1) /\ DOMAIN t[c] = 1..Len(t[c])
    BY <1>3, <1>4
  <1>9. \A i \in DOMAIN chain : \/ i = 1 /\ chain[i] = e
                                \/ i - 1 \in DOMAIN t[c] /\ chain[i] = t[c][i - 1]
    <2> SUFFICES ASSUME NEW i \in DOMAIN chain, i # 1
                 PROVE  i - 1 \in DOMAIN t[c] /\ chain[i] = t[c][i - 1]
      BY <1>4
    <2>1. i - 1 \in 1..Len(t[c]) /\ (i - 1) + 1 = i
      BY <1>4, <1>8
    <2> QED
      BY <1>4, <1>8, <2>1
  <1>10. \A i \in DOMAIN t[c] : i + 1 \in DOMAIN chain /\ chain[i + 1] = t[c][i]
    BY <1>4, <1>8
  <1>11. ASSUME NEW x, In(x, u) PROVE x = e \/ In(x, t)
    <2>1. PICK b \in DOMAIN u : \E i \in DOMAIN u[b] : u[b][i] = x
      BY <1>11 DEF In
    <2>2. PICK i \in DOMAIN u[b] : u[b][i] = x
      BY <2>1
    <2>3. CASE b = c
      BY <1>1, <1>2, <1>7, <1>9, <2>2, <2>3 DEF In
    <2>4. CASE b # c
      <3>1. u[b] = t[b] /\ b \in DOMAIN t
        BY <1>1, <1>6, <1>7, <2>4
      <3> QED
        BY <2>2, <3>1 DEF In
    <2> QED
      BY <2>3, <2>4
  <1>12. In(e, u)
    <2>1. 1 \in DOMAIN chain
      BY <1>4, <1>8
    <2> QED
      BY <1>2, <1>4, <1>6, <1>7, <2>1 DEF In
  <1>13. ASSUME NEW x, In(x, t) PROVE In(x, u)
    <2>1. PICK b \in DOMAIN t : \E i \in DOMAIN t[b] : t[b][i] = x
      BY <1>13 DEF In
    <2>2. PICK i \in DOMAIN t[b] : t[b][i] = x
      BY <2>1
    <2>3. CASE b = c
      BY <1>2, <1>6, <1>7, <1>10, <2>2, <2>3 DEF In
    <2>4. CASE b # c
      BY <1>1, <1>6, <1>7, <2>2, <2>4 DEF In
    <2> QED
      BY <2>3, <2>4
  <1>14. ASSUME WellFormed(t), \A x : In(x, t) => x.key # e.key PROVE WellFormed(u)
    <2> SUFFICES ASSUME NEW b \in DOMAIN u, NEW i \in DOMAIN u[b]
                 PROVE  /\ BucketOf(Len(u), u[b][i].key) = b
                        /\ \A j \in DOMAIN u[b] : u[b][j].key = u[b][i].key => j = i
      BY DEF WellFormed
    <2>1. CASE b # c
      <3>1. b \in DOMAIN t /\ u[b] = t[b] /\ Len(u) = Len(t)
        BY <1>1, <1>6, <1>7, <2>1
      <3> QED
        BY <1>14, <3>1 DEF WellFormed
    <2>2. CASE b = c
      <3>1. \A j \in DOMAIN t[c] : t[c][j].key # e.key
        BY <1>1, <1>2, <1>14 DEF In
      <3>2. \A j \in DOMAIN t[c] : BucketOf(size, t[c][j].key) = c
        BY <1>1, <1>2, <1>14 DEF WellFormed
      <3>3. \A j, k \in DOMAIN t[c] : t[c][j].key = t[c][k].key => j = k
        BY <1>1, <1>2, <1>14 DEF WellFormed
      <3>4. BucketOf(Len(u), u[b][i].key) = b
        <4>1. CASE i = 1 /\ chain[i] = e
          BY <1>6, <1>7, <2>2, <4>1 DEF c
        <4>2. CASE i - 1 \in DOMAIN t[c] /\ chain[i] = t[c][i - 1]
          BY <1>6, <1>7, <2>2, <3>2, <4>2
        <4> QED
          BY <1>7, <1>9, <2>2, <4>1, <4>2
      <3>5. ASSUME NEW j \in DOMAIN chain, NEW k \in DOMAIN chain, chain[j].key = chain[k].key
            PROVE  j = k
        <4>3. \A l \in DOMAIN chain : l # 1 => l - 1 \in DOMAIN t[c] /\ chain[l].key # e.key
          BY <1>9, <3>1
        <4>1. CASE j = 1
          BY <1>4, <3>5, <4>3, <4>1
        <4>2. CASE j # 1
          <5>1. k # 1 /\ j - 1 \in DOMAIN t[c] /\ k - 1 \in DOMAIN t[c]
            BY <1>4, <3>5, <4>3, <4>2
          <5>2. j - 1 = k - 1
            BY <1>9, <3>3, <3>5, <4>2, <5>1
          <5> QED
            BY <1>8, <3>5, <5>2
        <4> QED
          BY <4>1, <4>2
      <3> QED
        BY <1>7, <2>2, <3>4, <3>5
    <2> QED
      BY <2>1, <2>2
  <1> QED
    BY <1>6, <1>11, <1>12, <1>13, <1>14 DEF u

\* A table into which entries of different keys are linked has these entries.
LEMMA MovedFacts ==
    ASSUME NEW s \in Seq(Entries), NEW size \in Nat \ {0},
           \A i, j \in 1..Len(s) : s[i].key = s[j].key => i = j
    PROVE  /\ Moved(s, size) \in Tables /\ Moved(s, size) # <<>> /\ WellFormed(Moved(s, size))
           /\ \A x : In(x, Moved(s, size)) <=> \E i \in 1..Len(s) : s[i] = x
  <1> DEFINE n == Len(s)
             fresh == [b \in 1..size |-> <<>>]
             B == {t \in Tables : t # <<>>}
             step == [p \in (1..n) \X B |-> Link(p[2], s[p[1]])]
             eqn(f) == [i \in 0..n |-> IF i = 0 THEN fresh ELSE Link(f[i - 1], s[i])]
             table == CHOOSE f : f = eqn(f)
  <1>1. n \in Nat /\ \A i \in 1..n : s[i] \in Entries
    BY QueueOperators
  <1>2. fresh \in B
    <2>1. <<>> \in Seq(Entries)
      OBVIOUS
    <2>2. fresh \in Tables
      BY <2>1 DEF Tables
    <2>3. fresh # <<>>
      <3>1. 1 \in DOMAIN fresh /\ DOMAIN <<>> = 1..0
        OBVIOUS
      <3> QED
        BY <3>1
    <2> QED
      BY <2>2, <2>3
  <1>3. \A t \in B, e \in Entries : Link(t, e) \in B
    <2> SUFFICES ASSUME NEW t \in B, NEW e \in Entries PROVE Link(t, e) \in Tables /\ Link(t, e) # <<>>
      OBVIOUS
    <2>1. Link(t, e) \in Tables /\ Len(Link(t, e)) = Len(t)
      BY LinkFacts
    <2>2. Len(t) # 0
      BY QueueOperators DEF Tables
    <2> QED
      BY <2>1, <2>2
  <1>4. step \in [(1..n) \X B -> B]
    <2>1. \A p \in (1..n) \X B : Link(p[2], s[p[1]]) \in B
      <3> HIDE DEF B
      <3> QED
        BY <1>1, <1>3
    <2> HIDE DEF B
    <2> QED
      BY <2>1
  <1>5. PICK g \in [0..n -> B] : Recursion(g, n, fresh, step)
    <2> HIDE DEF B, step, fresh, n
    <2> QED
      BY <1>1, <1>2, <1>4, RecursionWitness
  <1> HIDE DEF B, fresh
  <1>6. \A i \in 1..n : g[i - 1] \in B /\ g[i] = Link(g[i - 1], s[i])
    <2> SUFFICES ASSUME NEW i \in 1..n PROVE g[i - 1] \in B /\ g[i] = Link(g[i - 1], s[i])
      OBVIOUS
    <2>1. i - 1 \in 0..n
      BY <1>1
    <2>2. g[i - 1] \in B
      BY <2>1
    <2> HIDE DEF step
    <2>3. g[i] = step[<<i, g[i - 1]>>] /\ <<i, g[i - 1]>> \in (1..n) \X B
      BY <1>5, <2>2 DEF Recursion
    <2> QED
      BY <2>2, <2>3 DEF step
  <1> HIDE DEF step
  <1>7. table = eqn(table)
    <2>1. \A i \in 0..n : g[i] = IF i = 0 THEN fresh ELSE Link(g[i - 1], s[i])
      BY <1>1, <1>5, <1>6 DEF Recursion
    <2>2. g = [i \in 0..n |-> g[i]]
      OBVIOUS
    <2>3. g = eqn(g)
      BY <2>1, <2>2
    <2> QED
      BY <2>3, Zenon
  <1>8. Moved(s, size) = table[n]
    BY Zenon DEF Moved, fresh
  <1> HIDE DEF table
  <1>9. /\ table[0] = fresh
        /\ \A i \in 0..n : i # 0 => table[i] = Link(table[i - 1], s[i])
    BY <1>1, <1>7
  <1> HIDE DEF n
  <1> DEFINE Linked(m) == /\ table[m] \in B /\ WellFormed(table[m])
                          /\ \A x : In(x, table[m]) <=> \E i \in 1..m : s[i] = x
             linked == {m \in Nat : m <= n => Linked(m)}
  <1>10. Linked(0)
    <2>1. \A b \in DOMAIN fresh : DOMAIN fresh[b] = {}
      BY DEF fresh
    <2> QED
      BY <1>2, <1>9, <2>1 DEF In, WellFormed
  <1>11. ASSUME NEW m \in Nat, m + 1 <= n, Linked(m) PROVE Linked(m + 1)
    <2>1. m + 1 \in 0..n /\ m + 1 \in 1..n /\ m + 1 # 0 /\ (m + 1) - 1 = m
      BY <1>1, <1>11
    <2> DEFINE t == table[m]
               e == s[m + 1]
    <2>2. table[m + 1] = Link(t, e) /\ e \in Entries
      BY <1>1, <1>9, <2>1
    <2>3. t \in Tables /\ t # <<>> /\ WellFormed(t) /\ \A x : In(x, t) <=> \E i \in 1..m : s[i] = x
      BY <1>11 DEF B
    <2>4. \A x : In(x, t) => x.key # e.key
      <3> SUFFICES ASSUME NEW i \in 1..m, s[i].key = e.key PROVE FALSE
        BY <2>3
      <3>1. i \in 1..n /\ i # m + 1
        BY <1>1, <2>1
      <3> QED
        BY <2>1, <3>1 DEF n
    <2> HIDE DEF t, e
    <2>5. /\ Link(t, e) \in Tables /\ WellFormed(Link(t, e))
          /\ \A x : In(x, Link(t, e)) <=> x = e \/ In(x, t)
      BY <2>2, <2>3, <2>4, LinkFacts
    <2>6. Link(t, e) \in B
      BY <1>3, <2>2, <2>3 DEF B
    <2>7. ASSUME NEW x PROVE In(x, Link(t, e)) <=> \E i \in 1..(m + 1) : s[i] = x
      <3>1. \A i \in 1..(m + 1) : i = m + 1 \/ i \in 1..m
        OBVIOUS
      <3>2. m + 1 \in 1..(m + 1) /\ \A i \in 1..m : i \in 1..(m + 1)
        OBVIOUS
      <3> QED
        BY <2>3, <2>5, <3>1, <3>2 DEF e
    <2> QED
      BY <2>2, <2>5, <2>6, <2>7
  <1>12. n \in linked
    <2> HIDE DEF Linked
    <2>1. 0 \in linked
      BY <1>10
    <2>2. ASSUME NEW m \in Nat, m \in linked PROVE m + 1 \in linked
      <3>1. m + 1 <= n => m <= n
        BY <1>1
      <3> QED
        BY <1>11, <2>2, <3>1
    <2> HIDE DEF linked
    <2> QED
      BY <1>1, <2>1, <2>2, NatInductionSet
  <1>13. Linked(n)
    <2> HIDE DEF Linked
    <2> QED
      BY <1>1, <1>12
  <1> QED
    BY <1>8, <1>13 DEF B, n

\* Growing the table keeps its entries.
LEMMA ExpandKeeps ==
    ASSUME NEW d, NEW map, Keeps(d, map), NEW size \in Nat
    PROVE  Keeps(dictExpand(d, size), map) /\ dictExpand(d, size).table # <<>>
  <1> DEFINE t == d.table
             s == FlattenSeq(t)
             u == Moved(s, NextPower(size))
  <1>1. t \in Tables /\ WellFormed(t) /\ d.used \in Int
    BY DEF Keeps, Dicts, Tables
  <1> HIDE DEF t, s
  <1>2. \A b, c \in 1..Len(t) : \A j \in 1..Len(t[b]), k \in 1..Len(t[c]) :
           t[b][j].key = t[c][k].key => b = c /\ j = k
    <2> SUFFICES ASSUME NEW b \in 1..Len(t), NEW c \in 1..Len(t),
                        NEW j \in 1..Len(t[b]), NEW k \in 1..Len(t[c]), t[b][j].key = t[c][k].key
                 PROVE  b = c /\ j = k
      OBVIOUS
    <2>1. b \in DOMAIN t /\ c \in DOMAIN t /\ j \in DOMAIN t[b] /\ k \in DOMAIN t[c]
      BY <1>1 DEF Tables
    <2> QED
      BY <1>1, <2>1 DEF WellFormed
  <1>3. /\ s \in Seq(Entries)
        /\ \A i \in 1..Len(s) : In(s[i], t)
        /\ \A e : In(e, t) => \E i \in 1..Len(s) : s[i] = e
        /\ \A i, j \in 1..Len(s) : s[i] = s[j] => i = j
    <2>1. \A b, c \in 1..Len(t) : \A j \in 1..Len(t[b]), k \in 1..Len(t[c]) :
             t[b][j] = t[c][k] => b = c /\ j = k
      BY <1>2
    <2>2. t \in Seq(Seq(Entries))
      BY <1>1 DEF Tables
    <2> QED
      BY <2>1, <2>2, FlattenFacts DEF s
  <1>4. ASSUME NEW i \in 1..Len(s), NEW j \in 1..Len(s), s[i].key = s[j].key PROVE i = j
    <2>1. DOMAIN t = 1..Len(t) /\ \A b \in 1..Len(t) : DOMAIN t[b] = 1..Len(t[b])
      BY <1>1 DEF Tables
    <2>2. s[i] = s[j]
      <3>1. In(s[i], t) /\ In(s[j], t)
        BY <1>3
      <3>2. PICK b \in 1..Len(t) : \E a \in 1..Len(t[b]) : t[b][a] = s[i]
        BY <2>1, <3>1 DEF In
      <3>3. PICK c \in 1..Len(t) : \E a \in 1..Len(t[c]) : t[c][a] = s[j]
        BY <2>1, <3>1 DEF In
      <3>4. PICK a \in 1..Len(t[b]) : t[b][a] = s[i]
        BY <3>2
      <3>5. PICK k \in 1..Len(t[c]) : t[c][k] = s[j]
        BY <3>3
      <3>6. b = c /\ a = k
        BY <1>2, <1>4, <3>4, <3>5
      <3> QED
        BY <3>4, <3>5, <3>6
    <2> QED
      BY <1>3, <2>2
  <1>5. NextPower(size) \in Nat \ {0}
    BY NextPowerPositive
  <1>6. /\ u \in Tables /\ u # <<>> /\ WellFormed(u)
        /\ \A x : In(x, u) <=> \E i \in 1..Len(s) : s[i] = x
    BY <1>3, <1>4, <1>5, MovedFacts
  <1> HIDE DEF u
  <1>7. \A x : In(x, u) <=> In(x, t)
    BY <1>3, <1>6
  <1>8. dictExpand(d, size) = [table |-> u, used |-> d.used]
    BY DEF dictExpand, u, s, t
  <1> QED
    BY <1>1, <1>6, <1>7, <1>8 DEF Keeps, Dicts, Tables, t

\* _dictExpandIfNeeded keeps the map, and then there is a table.
LEMMA ExpandIfNeededKeeps ==
    ASSUME NEW d, NEW map, Keeps(d, map)
    PROVE  Keeps(ExpandIfNeeded(d), map) /\ ExpandIfNeeded(d).table # <<>>
  <1>1. InitialSize \in Nat /\ Len(d.table) \in Nat /\ 2 * Len(d.table) \in Nat
    BY DictAssumption DEF Keeps, Dicts
  <1> QED
    BY <1>1, ExpandKeeps DEF ExpandIfNeeded

\* What a table holds is an entry.
LEMMA InEntries ==
    ASSUME NEW t \in Tables, NEW x, In(x, t) PROVE x \in Entries
  BY DEF In, Tables

\* The map with this value for each of these keys, and the map without a key.
Updated(map, keys, val) == [k \in DOMAIN map \cup keys |-> IF k \in keys THEN val ELSE map[k]]
Without(map, key) == [k \in DOMAIN map \ {key} |-> map[k]]

\* A replaced callback: a new entry, or the old one with another value.
LEMMA ReplaceKeeps ==
    ASSUME NEW d, NEW map, IsMap(map), Keeps(d, map), NEW key \in DictKeys, NEW val \in Nat
    PROVE  Keeps(dictReplace(d, key, val), Updated(map, {key}, val))
  <1> DEFINE e == ExpandIfNeeded(d)
             t == e.table
             x == Entry(key, val)
             new == Updated(map, {key}, val)
  <1>1. Keeps(e, map) /\ t # <<>>
    BY ExpandIfNeededKeeps
  <1>2. x \in Entries /\ x.key = key /\ x.val = val
    BY DEF Entry, Entries
  <1> HIDE DEF e, x
  <1>3. e \in Dicts /\ t \in Tables /\ WellFormed(t) /\ e.used \in Int
    BY <1>1 DEF Keeps, Dicts, Tables
  <1>4. Holds(e, map)
    BY <1>1, KeepsHolds
  <1>5. \A y \in Entries : In(y, t) <=> y.key \in DOMAIN map /\ map[y.key] = y.val
    BY <1>1 DEF Keeps
  <1>6. \A y \in Entries : y = x <=> y.key = key /\ y.val = val
    BY <1>2 DEF Entries
  <1>7. \A y \in Entries : (y = x \/ (In(y, t) /\ y.key # key))
                           <=> y.key \in DOMAIN new /\ new[y.key] = y.val
    BY <1>5, <1>6 DEF Updated
  <1> HIDE DEF new
  <1>8. CASE Has(e, key)
    <2> DEFINE c == BucketOf(Len(t), key)
               p == Position(t[c], key)
               u == [t EXCEPT ![c] = [t[c] EXCEPT ![p] = x]]
    <2>1. key \in DOMAIN map
      BY <1>4, <1>8 DEF Holds
    <2>2. c \in DOMAIN t /\ Chain(e, key) = t[c] /\ Len(t) \in Nat /\ DOMAIN t = 1..Len(t)
      BY <1>1, <1>3, ChainFacts
    <2>3. p \in DOMAIN t[c] /\ t[c][p].key = key
      BY <1>3, <1>8, <2>2, LookupFacts
    <2>4. dictReplace(d, key, val) = [table |-> u, used |-> e.used]
      BY <1>8 DEF dictReplace, e, x
    <2> HIDE DEF c, p
    <2>5. u \in Tables
      <3>1. t[c] \in Seq(Entries)
        BY <1>3, <2>2 DEF Tables
      <3>2. [t[c] EXCEPT ![p] = x] \in Seq(Entries)
        BY <1>2, <2>3, <3>1, ExceptSeq
      <3> HIDE DEF u
      <3>3. \A s \in Seq(Entries) : [t EXCEPT ![c] = s] \in Seq(Seq(Entries))
        BY <1>3, <2>2, ExceptSeq DEF Tables
      <3> QED
        BY <3>2, <3>3 DEF u, Tables
    <2>6. /\ DOMAIN u = DOMAIN t
          /\ \A b \in DOMAIN t : DOMAIN u[b] = DOMAIN t[b]
          /\ \A b \in DOMAIN t : \A i \in DOMAIN t[b] :
                u[b][i] = IF b = c /\ i = p THEN x ELSE t[b][i]
      BY <2>2, <2>3
    <2> HIDE DEF u
    <2>7. \A b \in DOMAIN t : \A i \in DOMAIN t[b] : u[b][i].key = t[b][i].key
      BY <1>2, <2>3, <2>6
    <2>8. Len(u) = Len(t)
      BY <1>3, <2>5, <2>6, LenProperties DEF Tables
    <2>9. WellFormed(u)
      BY <1>3, <2>6, <2>7, <2>8 DEF WellFormed
    <2>10. ASSUME NEW y \in Entries PROVE In(y, u) <=> y = x \/ (In(y, t) /\ y.key # key)
      <3>1. ASSUME In(y, u) PROVE y = x \/ (In(y, t) /\ y.key # key)
        <4>1. PICK b \in DOMAIN t : \E i \in DOMAIN t[b] : u[b][i] = y
          BY <2>6, <3>1 DEF In
        <4>2. PICK i \in DOMAIN t[b] : u[b][i] = y
          BY <4>1
        <4>3. CASE b = c /\ i = p
          BY <2>6, <4>2, <4>3
        <4>4. CASE ~(b = c /\ i = p)
          <5>1. t[b][i] = y
            BY <2>6, <4>2, <4>4
          <5>2. y.key # key
            <6> SUFFICES ASSUME y.key = key PROVE FALSE
              OBVIOUS
            <6>1. b = c
              BY <1>3, <5>1 DEF WellFormed, c
            <6>2. i = p
              BY <1>3, <2>3, <4>2, <5>1, <6>1 DEF WellFormed
            <6> QED
              BY <4>4, <6>1, <6>2
          <5> QED
            BY <4>2, <5>1, <5>2 DEF In
        <4> QED
          BY <4>3, <4>4
      <3>2. In(x, u)
        BY <2>2, <2>3, <2>6 DEF In
      <3>3. ASSUME In(y, t), y.key # key PROVE In(y, u)
        <4>1. PICK b \in DOMAIN t : \E i \in DOMAIN t[b] : t[b][i] = y
          BY <3>3 DEF In
        <4>2. PICK i \in DOMAIN t[b] : t[b][i] = y
          BY <4>1
        <4>3. u[b][i] = y
          BY <2>3, <2>6, <3>3, <4>2
        <4> QED
          BY <2>6, <4>2, <4>3 DEF In
      <3> QED
        BY <3>1, <3>2, <3>3
    <2>11. DOMAIN new = DOMAIN map
      BY <2>1 DEF new, Updated
    <2>12. e.used = Cardinality(DOMAIN new)
      BY <1>1, <2>11 DEF Keeps
    <2>13. Keeps([table |-> u, used |-> e.used], new)
      BY <1>3, <1>7, <2>5, <2>9, <2>10, <2>12 DEF Keeps, Dicts, Tables
    <2> QED
      BY <2>4, <2>13 DEF new
  <1>9. CASE ~Has(e, key)
    <2>1. key \notin DOMAIN map
      BY <1>4, <1>9 DEF Holds
    <2>2. \A y : In(y, t) => y \in Entries /\ y.key # key
      BY <1>3, <1>5, <2>1, InEntries
    <2> DEFINE u == Link(t, x)
    <2>3. u \in Tables /\ WellFormed(u) /\ \A y : In(y, u) <=> y = x \/ In(y, t)
      BY <1>1, <1>2, <1>3, <2>2, LinkFacts
    <2>4. dictReplace(d, key, val) = [table |-> u, used |-> e.used + 1]
      BY <1>9 DEF dictReplace, e, x
    <2> HIDE DEF u
    <2>5. \A y \in Entries : In(y, u) <=> y.key \in DOMAIN new /\ new[y.key] = y.val
      BY <1>7, <2>2, <2>3
    <2>6. e.used + 1 = Cardinality(DOMAIN new)
      <3>1. DOMAIN new = DOMAIN map \cup {key} /\ IsFiniteSet(DOMAIN map)
        BY DEF new, Updated, IsMap
      <3>2. e.used = Cardinality(DOMAIN map)
        BY <1>1 DEF Keeps
      <3> QED
        BY <2>1, <3>1, <3>2, FS_AddElement
    <2>7. Keeps([table |-> u, used |-> e.used + 1], new)
      BY <1>3, <2>3, <2>5, <2>6 DEF Keeps, Dicts, Tables
    <2> QED
      BY <2>4, <2>7 DEF new
  <1> QED
    BY <1>8, <1>9

\* The sequence without the element at one place.
LEMMA RemoveAtFacts ==
    ASSUME NEW S, NEW s \in Seq(S), NEW p \in 1..Len(s)
    PROVE  /\ RemoveAt(s, p) \in Seq(S) /\ Len(RemoveAt(s, p)) = Len(s) - 1
           /\ \A i \in 1..(Len(s) - 1) : RemoveAt(s, p)[i] = IF i < p THEN s[i] ELSE s[i + 1]
  <1> DEFINE l == SubSeq(s, 1, p - 1)
             r == SubSeq(s, p + 1, Len(s))
  <1>1. Len(s) \in Nat /\ p \in Nat /\ p - 1 \in Nat /\ p - 1 <= Len(s) /\ p + 1 \in Nat
    OBVIOUS
  <1>2. \A m, n \in Nat : m >= 1 /\ n <= Len(s) =>
           /\ SubSeq(s, m, n) \in Seq(S)
           /\ Len(SubSeq(s, m, n)) = IF m <= n THEN n - m + 1 ELSE 0
           /\ \A i \in 1..Len(SubSeq(s, m, n)) : SubSeq(s, m, n)[i] = s[m + i - 1]
    BY QueueOperators
  <1>3. /\ l \in Seq(S) /\ Len(l) = p - 1
        /\ \A i \in 1..Len(l) : l[i] = s[1 + i - 1]
    <2>1. /\ l \in Seq(S) /\ Len(l) = IF 1 <= p - 1 THEN (p - 1) - 1 + 1 ELSE 0
          /\ \A i \in 1..Len(l) : l[i] = s[1 + i - 1]
      BY <1>1, <1>2
    <2> HIDE DEF l
    <2> QED
      BY <1>1, <2>1
  <1>4. /\ r \in Seq(S) /\ Len(r) = Len(s) - p
        /\ \A i \in 1..Len(r) : r[i] = s[(p + 1) + i - 1]
    <2>1. /\ r \in Seq(S) /\ Len(r) = IF p + 1 <= Len(s) THEN Len(s) - (p + 1) + 1 ELSE 0
          /\ \A i \in 1..Len(r) : r[i] = s[(p + 1) + i - 1]
      BY <1>1, <1>2
    <2> HIDE DEF r
    <2> QED
      BY <1>1, <2>1
  <1>5. RemoveAt(s, p) = l \o r
    BY DEF RemoveAt
  <1> HIDE DEF l, r
  <1>6. /\ l \o r \in Seq(S) /\ Len(l \o r) = Len(l) + Len(r)
        /\ \A i \in 1..Len(l) : (l \o r)[i] = l[i]
        /\ \A i \in 1..Len(r) : (l \o r)[Len(l) + i] = r[i]
    <2>1. l \in Seq(S) /\ r \in Seq(S)
      BY <1>3, <1>4
    <2>2. \A v \in Seq(S) : /\ l \o v \in Seq(S) /\ Len(l \o v) = Len(l) + Len(v)
                            /\ \A i \in 1..Len(l) : (l \o v)[i] = l[i]
                            /\ \A i \in 1..Len(v) : (l \o v)[Len(l) + i] = v[i]
      BY <2>1, QueueOperators
    <2> QED
      BY <2>1, <2>2
  <1>7. ASSUME NEW i \in 1..(Len(s) - 1)
        PROVE  (l \o r)[i] = IF i < p THEN s[i] ELSE s[i + 1]
    <2>1. CASE i < p
      <3>1. i \in 1..Len(l) /\ 1 + i - 1 = i
        BY <1>1, <1>3, <2>1
      <3> QED
        BY <1>3, <1>6, <2>1, <3>1
    <2>2. CASE ~(i < p)
      <3>1. i - (p - 1) \in 1..Len(r) /\ (p - 1) + (i - (p - 1)) = i
            /\ (p + 1) + (i - (p - 1)) - 1 = i + 1
        BY <1>1, <1>4, <2>2
      <3>2. (l \o r)[(p - 1) + (i - (p - 1))] = r[i - (p - 1)]
        BY <1>3, <1>6, <3>1
      <3>3. r[i - (p - 1)] = s[(p + 1) + (i - (p - 1)) - 1]
        BY <1>4, <3>1
      <3> QED
        BY <2>2, <3>1, <3>2, <3>3
    <2> QED
      BY <2>1, <2>2
  <1> QED
    BY <1>1, <1>3, <1>4, <1>5, <1>6, <1>7

\* A deleted callback: the others stay.
LEMMA DeleteKeeps ==
    ASSUME NEW d, NEW map, IsMap(map), Keeps(d, map), NEW key \in DictKeys
    PROVE  Keeps(dictDelete(d, key), Without(map, key))
  <1> DEFINE t == d.table
             new == Without(map, key)
  <1>1. d \in Dicts /\ t \in Tables /\ WellFormed(t) /\ d.used \in Int
    BY DEF Keeps, Dicts, Tables
  <1>2. Holds(d, map)
    BY KeepsHolds
  <1>3. \A y \in Entries : In(y, t) <=> y.key \in DOMAIN map /\ map[y.key] = y.val
    BY DEF Keeps
  <1>4. \A y \in Entries : (In(y, t) /\ y.key # key) <=> y.key \in DOMAIN new /\ new[y.key] = y.val
    BY <1>3 DEF Without
  <1>5. CASE ~Has(d, key)
    <2>1. key \notin DOMAIN map
      BY <1>2, <1>5 DEF Holds
    <2>2. dictDelete(d, key) = d
      BY <1>5 DEF dictDelete
    <2>3. \A y \in Entries : In(y, t) <=> y.key \in DOMAIN new /\ new[y.key] = y.val
      BY <1>3, <2>1 DEF Without
    <2>4. DOMAIN new = DOMAIN map
      BY <2>1 DEF Without
    <2>5. d.used = Cardinality(DOMAIN new)
      BY <2>4 DEF Keeps
    <2> HIDE DEF new
    <2>6. Keeps(d, new)
      BY <1>1, <2>3, <2>5 DEF Keeps
    <2> QED
      BY <2>2, <2>6 DEF new
  <1>6. CASE Has(d, key)
    <2> DEFINE c == BucketOf(Len(t), key)
               p == Position(t[c], key)
               u == [t EXCEPT ![c] = RemoveAt(t[c], p)]
               n == Len(t[c])
    <2>1. key \in DOMAIN map
      BY <1>2, <1>6 DEF Holds
    <2>2. c \in DOMAIN t /\ Chain(d, key) = t[c] /\ Len(t) \in Nat /\ DOMAIN t = 1..Len(t)
      <3>1. t # <<>>
        BY <1>1, <1>6, LookupFacts
      <3> QED
        BY <1>1, <3>1, ChainFacts
    <2>3. p \in DOMAIN t[c] /\ t[c][p].key = key
      BY <1>1, <1>6, <2>2, LookupFacts
    <2>4. t[c] \in Seq(Entries) /\ n \in Nat /\ DOMAIN t[c] = 1..n
      BY <1>1, <2>2 DEF Tables
    <2>5. dictDelete(d, key) = [table |-> u, used |-> d.used - 1]
      BY <1>6 DEF dictDelete
    <2> DEFINE s == RemoveAt(t[c], p)
    <2> HIDE DEF c, p, n
    <2>6. /\ s \in Seq(Entries) /\ Len(s) = n - 1
          /\ \A i \in 1..(n - 1) : s[i] = IF i < p THEN t[c][i] ELSE t[c][i + 1]
      BY <2>3, <2>4, RemoveAtFacts DEF n
    <2> HIDE DEF s
    <2>7. DOMAIN s = 1..(n - 1)
      BY <2>6
    <2>8. \A i \in DOMAIN s : \E j \in DOMAIN t[c] : j # p /\ s[i] = t[c][j]
                                                     /\ j = (IF i < p THEN i ELSE i + 1)
      <3> SUFFICES ASSUME NEW i \in DOMAIN s
                   PROVE  \E j \in DOMAIN t[c] : j # p /\ s[i] = t[c][j]
                                                 /\ j = (IF i < p THEN i ELSE i + 1)
        OBVIOUS
      <3> DEFINE j == IF i < p THEN i ELSE i + 1
      <3>1. j \in 1..n /\ j # p /\ s[i] = t[c][j]
        BY <2>3, <2>4, <2>6, <2>7
      <3> QED
        BY <2>4, <3>1
    <2>9. \A j \in DOMAIN t[c] : j # p => \E i \in DOMAIN s : s[i] = t[c][j]
      <3> SUFFICES ASSUME NEW j \in DOMAIN t[c], j # p PROVE \E i \in DOMAIN s : s[i] = t[c][j]
        OBVIOUS
      <3>1. CASE j < p
        <4>1. j \in 1..(n - 1)
          BY <2>3, <2>4, <3>1
        <4> QED
          BY <2>6, <2>7, <3>1, <4>1
      <3>2. CASE ~(j < p)
        <4>1. j - 1 \in 1..(n - 1) /\ ~(j - 1 < p) /\ (j - 1) + 1 = j
          BY <2>3, <2>4, <3>2
        <4> QED
          BY <2>6, <2>7, <4>1
      <3> QED
        BY <3>1, <3>2
    <2>10. u \in Tables
      <3>1. [t EXCEPT ![c] = s] \in Seq(Seq(Entries))
        BY <1>1, <2>2, <2>6, ExceptSeq DEF Tables
      <3> QED
        BY <3>1 DEF s, Tables
    <2>11. /\ DOMAIN u = DOMAIN t /\ u[c] = s
           /\ \A b \in DOMAIN t : b # c => u[b] = t[b]
      BY <2>2 DEF s
    <2> HIDE DEF u
    <2>12. Len(u) = Len(t)
      BY <1>1, <2>10, <2>11, LenProperties DEF Tables
    <2>13. WellFormed(u)
      <3> SUFFICES ASSUME NEW b \in DOMAIN t, NEW i \in DOMAIN u[b]
                   PROVE  /\ BucketOf(Len(t), u[b][i].key) = b
                          /\ \A j \in DOMAIN u[b] : u[b][j].key = u[b][i].key => j = i
        BY <2>11, <2>12 DEF WellFormed
      <3>1. CASE b # c
        BY <1>1, <2>11, <3>1 DEF WellFormed
      <3>2. CASE b = c
        <4>1. BucketOf(Len(t), s[i].key) = c
          BY <1>1, <2>2, <2>8, <2>11, <3>2 DEF WellFormed
        <4>2. ASSUME NEW j \in DOMAIN s, s[j].key = s[i].key PROVE j = i
          <5> DEFINE k == IF i < p THEN i ELSE i + 1
                     l == IF j < p THEN j ELSE j + 1
          <5>1. k \in DOMAIN t[c] /\ s[i] = t[c][k] /\ l \in DOMAIN t[c] /\ s[j] = t[c][l]
            BY <2>8, <2>11, <3>2
          <5> HIDE DEF k, l
          <5>2. k = l
            BY <1>1, <2>2, <4>2, <5>1 DEF WellFormed
          <5> QED
            BY <2>3, <2>4, <2>7, <2>11, <3>2, <5>2 DEF k, l
        <4> QED
          BY <2>11, <3>2, <4>1, <4>2
      <3> QED
        BY <3>1, <3>2
    <2>14. ASSUME NEW y \in Entries PROVE In(y, u) <=> In(y, t) /\ y.key # key
      <3>1. ASSUME In(y, u) PROVE In(y, t) /\ y.key # key
        <4>1. PICK b \in DOMAIN t : \E i \in DOMAIN u[b] : u[b][i] = y
          BY <2>11, <3>1 DEF In
        <4>2. PICK i \in DOMAIN u[b] : u[b][i] = y
          BY <4>1
        <4>3. CASE b # c
          <5>1. i \in DOMAIN t[b] /\ t[b][i] = y
            BY <2>11, <4>2, <4>3
          <5>2. BucketOf(Len(t), y.key) = b
            BY <1>1, <5>1 DEF WellFormed
          <5> QED
            BY <4>3, <5>1, <5>2 DEF In, c
        <4>4. CASE b = c
          <5>1. PICK j \in DOMAIN t[c] : j # p /\ s[i] = t[c][j]
            BY <2>8, <2>11, <4>2, <4>4
          <5>2. t[c][j] = y
            BY <2>11, <4>2, <4>4, <5>1
          <5>3. y.key # key
            BY <1>1, <2>2, <2>3, <5>1, <5>2 DEF WellFormed
          <5> QED
            BY <2>2, <5>2, <5>3 DEF In
        <4> QED
          BY <4>3, <4>4
      <3>2. ASSUME In(y, t), y.key # key PROVE In(y, u)
        <4>1. PICK b \in DOMAIN t : \E i \in DOMAIN t[b] : t[b][i] = y
          BY <3>2 DEF In
        <4>2. PICK i \in DOMAIN t[b] : t[b][i] = y
          BY <4>1
        <4>3. CASE b # c
          BY <2>11, <4>2, <4>3 DEF In
        <4>4. CASE b = c
          <5>1. i # p
            BY <2>3, <3>2, <4>2, <4>4
          <5> QED
            BY <2>2, <2>9, <2>11, <4>2, <4>4, <5>1 DEF In
        <4> QED
          BY <4>3, <4>4
      <3> QED
        BY <3>1, <3>2
    <2>15. d.used - 1 = Cardinality(DOMAIN new)
      <3>1. DOMAIN new = DOMAIN map \ {key} /\ IsFiniteSet(DOMAIN map)
        BY DEF IsMap, Without
      <3>2. d.used = Cardinality(DOMAIN map)
        BY DEF Keeps
      <3> HIDE DEF new
      <3> QED
        BY <2>1, <3>1, <3>2, FS_RemoveElement
    <2> HIDE DEF new
    <2>16. Keeps([table |-> u, used |-> d.used - 1], new)
      BY <1>1, <1>4, <2>10, <2>13, <2>14, <2>15 DEF Keeps, Dicts, Tables
    <2> QED
      BY <2>5, <2>16 DEF new
  <1> QED
    BY <1>5, <1>6

\* An empty dict holds nothing.
LEMMA CreateKeeps == Keeps(dictCreate, Empty) /\ IsMap(Empty)
  <1>1. <<>> \in Seq(Seq(Entries)) /\ DOMAIN <<>> = {}
    OBVIOUS
  <1>2. DOMAIN Empty = {} /\ IsFiniteSet({}) /\ Cardinality({}) = 0
    BY FS_EmptySet DEF Empty
  <1> QED
    BY <1>1, <1>2 DEF Keeps, IsMap, dictCreate, Dicts, WellFormed, In

\* What an iteration comes across are values of the map.
LEMMA IteratedFacts ==
    ASSUME NEW d, NEW map, Keeps(d, map)
    PROVE  /\ IteratedValues(d) \in Seq(Nat)
           /\ \A i \in DOMAIN IteratedValues(d) :
                 \E key \in DOMAIN map : IteratedValues(d)[i] = map[key]
  <1> DEFINE s == FlattenSeq(d.table)
  <1>1. d.table \in Seq(Seq(Entries)) /\ d.table \in Tables
    BY DEF Keeps, Dicts, Tables
  <1>2. s \in Seq(Entries) /\ \A i \in 1..Len(s) : In(s[i], d.table)
    BY <1>1, FlattenFacts
  <1>3. IteratedValues(d) = [i \in DOMAIN s |-> s[i].val]
    BY DEF IteratedValues
  <1> HIDE DEF s
  <1>4. DOMAIN s = 1..Len(s) /\ Len(s) \in Nat /\ \A i \in DOMAIN s : s[i] \in Entries
    BY <1>2
  <1>5. \A i \in DOMAIN s : s[i].key \in DOMAIN map /\ map[s[i].key] = s[i].val
    BY <1>2, <1>4 DEF Keeps
  <1>6. \A i \in DOMAIN s : s[i].val \in Nat
    BY <1>4 DEF Entries
  <1>7. [i \in DOMAIN s |-> s[i].val] \in Seq(Nat)
    BY <1>4, <1>6
  <1> QED
    BY <1>3, <1>5, <1>7

-----------------------------------------------------------------------------
(***************************************************************************)
(* The asynchronous connection: what its state is made of.                 *)
(***************************************************************************)

AllFlags == {"CONNECTED", "DISCONNECTING", "FREEING", "IN_CALLBACK", "SUBSCRIBED", "MONITORING"}
TopicTypes == {"subscribe", "unsubscribe", "message"}
Items == [type : TopicTypes \cup {"reply", "error", "malformed", "line"}, to : Nat,
          topic : DictKeys \cup {"none"}, count : Nat]
Places == {"SUBSCRIBE", "UNSUBSCRIBE", "replies", "invalid"}
Accepted == [name : Names, topics : Seq(DictKeys), place : Places, callback : BOOLEAN]

Numbers == 0..Len(commands)

\* The callback of a topic is none or one of a subscription to it.
SubscribedTyped ==
    /\ IsMap(subscribed)
    /\ \A t \in DOMAIN subscribed : subscribed[t] # 0 =>
          /\ subscribed[t] \in DOMAIN commands
          /\ commands[subscribed[t]].place = "SUBSCRIBE"
          /\ t \in ToSet(commands[subscribed[t]].topics)

\* A command is kept where its name says.
CommandsTyped ==
    /\ commands \in Seq(Accepted) /\ got \in Seq(Seq(Items \cup {NULL})) /\ Len(got) = Len(commands)
    /\ \A n \in DOMAIN commands :
          LET c == commands[n]
          IN  /\ c.place \in {"SUBSCRIBE", "UNSUBSCRIBE"} <=> c.name \in {"SUBSCRIBE", "UNSUBSCRIBE"}
              /\ c.place \in {"SUBSCRIBE", "UNSUBSCRIBE"} => c.place = c.name /\ c.topics # <<>>
              /\ c.name = "MONITOR" => c.place = "replies"

ControlTyped ==
    /\ flags \subseteq AllFlags /\ err \in BOOLEAN
    /\ ev \subseteq {"read", "write"} /\ partial \in BOOLEAN
    /\ pc \in {"loop", "process", "callback", "onConnect"}
    /\ resume \in {"read", "write", "failed"}
    /\ online \in BOOLEAN /\ monitored \in BOOLEAN /\ events \in Nat
    /\ serverSubs \subseteq DictKeys /\ IsFiniteSet(serverSubs)
    /\ unsubs \subseteq DictKeys /\ risky \in BOOLEAN
    /\ process \in {"running", "freed", "aborted", "undefined"}
    /\ onDisconnect \in {"none", "ok", "error"}

QueuesTyped ==
    /\ obuf \in Seq(Numbers \ {0})
    /\ reader \in Seq(Items) /\ inbox \in Seq(Items)
    /\ \A i \in DOMAIN reader : reader[i].to \in Numbers
    /\ \A i \in DOMAIN inbox : inbox[i].to \in Numbers
    /\ replies \in Seq(Numbers) /\ invalid \in Seq(Numbers)
    /\ cb \in Numbers

TypeInv ==
    /\ ControlTyped /\ QueuesTyped /\ CommandsTyped /\ SubscribedTyped
    /\ sub \in [Kinds -> Dicts]

\* The callbacks of the topics of one kind.
Callbacks(kind) == [t \in {u \in DOMAIN subscribed : DictOf(u) = kind} |-> subscribed[t]]

DictInv == \A kind \in Kinds : Keeps(sub[kind], Callbacks(kind))

\* Without MONITOR nothing is reported, and the flag tells.
MonitorInv == /\ process = "running" => ("MONITORING" \in flags <=> Monitoring)
              /\ monitored => Monitoring

\* onConnect runs on: only a risky user has made the context unusable.
ConnectInv == pc = "onConnect" /\ process # "running" => risky

\* Before the context is freed nothing is NULL.
GotInv == process = "running" => \A n \in DOMAIN got : got[n] \in Seq(Items)

\* A callback of the list waits in it or has run.
CleanInv ==
    process = "running" /\ ~Monitoring => \A n \in DOMAIN commands :
        commands[n].place = "replies" /\ commands[n].callback =>
            n \in ToSet(replies) \/ (got[n] # <<>> /\ got[n][1].type # "NULL")

-----------------------------------------------------------------------------
(***************************************************************************)
(* The replies on their way, and the commands not executed yet.            *)
(***************************************************************************)

Fn(cmds, n) == IF cmds[n].callback THEN n ELSE 0

IsClosing(x) == x.to = 0 /\ x.topic = "none" /\ x.type \in {"error", "malformed"}
IsTopical(x) == x.topic # "none" /\ x.type \in TopicTypes
IsRefused(cmds, x) == x.to # 0 /\ cmds[x.to].place = "invalid" /\ x.type = "error" /\ x.topic = "none"
IsAnswer(cmds, x) == x.to # 0 /\ cmds[x.to].place = "replies" /\ x.type # "malformed" /\ x.topic = "none"

\* A reply is the answer to a regular command, the error that refuses an invalid
\* one, the message of a topic, or the last thing the server says.
ItemsKnown(cmds, f, on) ==
    \A i \in 1..Len(f) : \/ IsAnswer(cmds, f[i]) \/ IsRefused(cmds, f[i]) \/ IsTopical(f[i])
                         \/ IsClosing(f[i]) /\ i = Len(f) /\ ~on

\* The answers to regular commands come first, in the order of ac->replies; as
\* long as the server is there, the commands to answer follow.
InOrder(cmds, f, p, rs, on) ==
    /\ \A i \in 1..Len(f) : ~IsClosing(f[i]) =>
          /\ i <= Len(rs) <=> IsAnswer(cmds, f[i])
          /\ i <= Len(rs) => rs[i] = Fn(cmds, f[i].to)
    /\ on => /\ Len(rs) <= Len(f) + Len(p)
             /\ \A j \in 1..Len(p) : /\ Len(f) + j <= Len(rs) <=> cmds[p[j]].place = "replies"
                                     /\ Len(f) + j <= Len(rs) => rs[Len(f) + j] = Fn(cmds, p[j])

\* In regular mode every reply is an answer, and the server has no subscription.
RegularMode(cmds, f, p, rs, on, subs) ==
    /\ \A i \in 1..Len(f) : i <= Len(rs) \/ IsClosing(f[i])
    /\ on => Len(f) + Len(p) <= Len(rs)
    /\ subs = {}

Unsub(x) == x.type = "unsubscribe"

\* An unsubscription is the last command: nothing about its topics comes later,
\* and after the last topic nothing at all.
UnsubsLast(cmds, f, p, subs, uns) ==
    /\ \A i \in 1..Len(f) : Unsub(f[i]) =>
          /\ f[i].topic \in uns /\ f[i].topic \notin subs /\ p = <<>>
          /\ \A j \in (i + 1)..Len(f) : f[j].topic # f[i].topic
          /\ f[i].count = 0 => subs = {} /\ \A j \in (i + 1)..Len(f) : IsClosing(f[j])
    /\ \A j \in 1..Len(p) : cmds[p[j]].place = "UNSUBSCRIBE" =>
          /\ j = Len(p) /\ IsInjective(cmds[p[j]].topics)
          /\ \A t \in ToSet(cmds[p[j]].topics) :
                t \in uns /\ (t \in subs \/ \E k \in 1..(j - 1) :
                    cmds[p[k]].place = "SUBSCRIBE" /\ t \in ToSet(cmds[p[k]].topics))

\* Client and server agree on the topics, up to what is under way.
TopicsKnown(cmds, f, p, subs, uns, dom) ==
    /\ \A i \in 1..Len(f) : IsTopical(f[i]) => f[i].topic \in dom
    /\ subs \subseteq dom
    /\ \A j \in 1..Len(p) : cmds[p[j]].place = "SUBSCRIBE" => ToSet(cmds[p[j]].topics) \subseteq dom
    /\ \A t \in dom : t \in subs \/ t \in uns \/ \E k \in 1..Len(p) :
                    cmds[p[k]].place = "SUBSCRIBE" /\ t \in ToSet(cmds[p[k]].topics)

\* In subscribed mode the server has a subscription, is about to have one or
\* has told that the last is gone; it will refuse the invalid commands.
SubscribedMode(cmds, f, p, subs) ==
    \/ subs # {}
    \/ \E j \in 1..Len(p) : cmds[p[j]].place = "SUBSCRIBE"
    \/ \E i \in 1..Len(f) : Unsub(f[i]) /\ f[i].count = 0
WillRefuse(cmds, p, subs) ==
    \A j \in 1..Len(p) : cmds[p[j]].place = "invalid" =>
        subs # {} \/ \E k \in 1..(j - 1) : cmds[p[k]].place = "SUBSCRIBE"

Queue(cmds, f, p, rs, on, mode, subs, uns, dom) ==
    /\ ItemsKnown(cmds, f, on)
    /\ InOrder(cmds, f, p, rs, on)
    /\ ~mode => RegularMode(cmds, f, p, rs, on, subs)
    /\ UnsubsLast(cmds, f, p, subs, uns)
    /\ TopicsKnown(cmds, f, p, subs, uns, dom)
    /\ on => /\ mode => SubscribedMode(cmds, f, p, subs)
             /\ WillRefuse(cmds, p, subs)
             /\ subs # {} => Len(rs) <= Len(f)

Normal == process = "running" /\ ~risky /\ ~Monitoring

QueueNow == Queue(commands, reader \o inbox, obuf, replies, online, "SUBSCRIBED" \in flags,
                  serverSubs, unsubs, DOMAIN subscribed)
QueueInv == Normal => QueueNow

\* A regular callback waits in its list, once, or has run, once.
Waits(list, place, cmds, g) ==
    /\ \A i \in 1..Len(list) : list[i] # 0 =>
          cmds[list[i]].place = place /\ cmds[list[i]].callback /\ g[list[i]] = <<>>
    /\ \A i, j \in 1..Len(list) : list[i] = list[j] /\ list[i] # 0 => i = j

OnceNow ==
    /\ Waits(replies, "replies", commands, got) /\ Waits(invalid, "invalid", commands, got)
    /\ \A n \in DOMAIN commands :
          Regular(n) /\ commands[n].callback =>
              n \in ToSet(replies) \/ n \in ToSet(invalid) \/ Len(got[n]) = 1
OnceInv == Normal => OnceNow

SafetyInv == /\ TypeInv /\ DictInv /\ MonitorInv /\ ConnectInv /\ GotInv /\ CleanInv
             /\ QueueInv /\ OnceInv
             /\ OwnReply /\ CallbackOnce /\ CleanDisconnect /\ SafeUnlessRisky

-----------------------------------------------------------------------------
(***************************************************************************)
(* What the steps do, in the few ways that the invariants tell apart.      *)
(***************************************************************************)

\* Nothing changes, or the end is found out.
Over ==
    /\ process' = process \/ (process = "freed" /\ process' = "undefined" /\ pc = "onConnect")
    /\ UNCHANGED <<flags, err, obuf, reader, replies, invalid, sub, ev, onDisconnect, partial, pc,
                   resume, cb, inbox, online, serverSubs, monitored, events, commands, got,
                   subscribed, unsubs, risky>>

\* __redisAsyncFree: all that is pending gets NULL.
Freed ==
    /\ process = "running" /\ process' = "freed"
    /\ flags' \subseteq AllFlags /\ err' \in BOOLEAN
    /\ got' = Run(Pending(replies), NULL)
    /\ onDisconnect' \in {"none", "ok", "error"}
    /\ onDisconnect' = "ok" /\ "FREEING" \notin flags' => replies = <<>>
    /\ obuf' = <<>> /\ reader' = <<>> /\ replies' = <<>> /\ invalid' = <<>> /\ ev' = {}
    /\ sub' = [d \in Kinds |-> dictCreate] /\ subscribed' = Empty
    /\ pc' \in {pc, "loop"} /\ (pc' = "onConnect" => risky')
    /\ cb' \in {0, cb} /\ risky' \in BOOLEAN /\ (risky => risky')
    /\ UNCHANGED <<partial, resume, inbox, online, serverSubs, monitored, events, commands, unsubs>>

\* The assertion of redisProcessCallbacks fails.
Aborted ==
    /\ process = "running" /\ process' = "aborted"
    /\ pc = "process" /\ replies = <<>> /\ reader # <<>>
    /\ Head(reader).type \notin {"error", "malformed"}
    /\ flags \cap {"SUBSCRIBED", "MONITORING"} = {}
    /\ UNCHANGED <<flags, err, obuf, reader, replies, invalid, sub, ev, onDisconnect, partial, pc,
                   resume, cb, inbox, online, serverSubs, monitored, events, commands, got,
                   subscribed, unsubs, risky>>

ModesKept == \A f \in {"SUBSCRIBED", "MONITORING"} : f \in flags' <=> f \in flags

\* Only what the loop keeps for itself changes.
Noted ==
    /\ process = "running"
    /\ flags' \subseteq AllFlags /\ ModesKept /\ err' \in BOOLEAN
    /\ ev' \subseteq {"read", "write"} /\ partial' \in BOOLEAN
    /\ pc' \in {"loop", "process", "callback", "onConnect"} /\ resume' \in {"read", "write", "failed"}
    /\ cb' \in {0, cb} /\ risky' \in BOOLEAN /\ (risky => risky')
    /\ UNCHANGED <<obuf, reader, replies, invalid, sub, onDisconnect, inbox, online, serverSubs,
                   monitored, events, commands, got, subscribed, unsubs, process>>

\* The callback of a MONITOR is pushed again.
Pushed ==
    /\ process = "running" /\ "MONITORING" \in flags
    /\ replies' = Append(replies, cb) /\ cb' = 0 /\ pc' = "loop"
    /\ UNCHANGED <<flags, err, obuf, reader, invalid, sub, ev, onDisconnect, partial, resume, inbox,
                   online, serverSubs, monitored, events, commands, got, subscribed, unsubs, risky,
                   process>>

\* Replies move from the socket to the reader.
Received ==
    /\ process = "running"
    /\ \E k \in 0..Len(inbox) : /\ reader' = reader \o SubSeq(inbox, 1, k)
                                /\ inbox' = SubSeq(inbox, k + 1, Len(inbox))
    /\ ev' \subseteq {"read", "write"} /\ partial' \in BOOLEAN /\ cb' = 0 /\ pc' = "process"
    /\ UNCHANGED <<flags, err, obuf, replies, invalid, sub, onDisconnect, resume, online, serverSubs,
                   monitored, events, commands, got, subscribed, unsubs, risky, process>>

\* Commands move to the server, which executes them.
Written ==
    /\ process = "running" /\ online
    /\ \E k \in 0..Len(obuf) :
          LET s == Executed(SubSeq(obuf, 1, k))
          IN  /\ inbox' = s.out /\ serverSubs' = s.subs /\ monitored' = s.monitored
              /\ obuf' = SubSeq(obuf, k + 1, Len(obuf))
    /\ ev' \subseteq {"read", "write"} /\ pc' = "loop"
    /\ UNCHANGED <<flags, err, reader, replies, invalid, sub, onDisconnect, partial, resume, cb,
                   online, events, commands, got, subscribed, unsubs, risky, process>>

\* A reply is taken and fn runs with it.
Delivered(fn) ==
    /\ process = "running" /\ reader # <<>> /\ Head(reader).type # "malformed"
    /\ reader' = Tail(reader) /\ cb' = fn /\ got' = Run(<<fn>>, Head(reader))
    /\ flags' \subseteq AllFlags /\ ("MONITORING" \in flags' <=> "MONITORING" \in flags)
    /\ pc' \in {"process", "callback"}
    /\ UNCHANGED <<err, obuf, ev, onDisconnect, partial, resume, inbox, online, serverSubs,
                   monitored, events, commands, risky, process>>

\* ... by the first regular callback,
Answered ==
    /\ replies # <<>> /\ Delivered(Head(replies)) /\ replies' = Tail(replies) /\ ModesKept
    /\ UNCHANGED <<invalid, sub, subscribed, unsubs>>

\* ... by the callback of its topic,
Announced ==
    LET r == Head(reader)
        dict == sub[DictOf(r.topic)]
        known == Has(dict, r.topic)
        leaves == known /\ r.type = "unsubscribe"
    IN  /\ replies = <<>> /\ "SUBSCRIBED" \in flags /\ r.topic # "none" /\ r.type # "error"
        /\ Delivered(IF known THEN dictFind(dict, r.topic) ELSE cb)
        /\ sub' = IF leaves THEN [sub EXCEPT ![DictOf(r.topic)] = dictDelete(@, r.topic)] ELSE sub
        /\ "SUBSCRIBED" \in flags' <=> ~(leaves /\ r.count = 0)
        /\ subscribed' = IF r.type # "unsubscribe" THEN subscribed
                         ELSE [t \in DOMAIN subscribed \ {r.topic} |-> subscribed[t]]
        /\ unsubs' = IF r.type = "unsubscribe" THEN unsubs \ {r.topic} ELSE unsubs
        /\ UNCHANGED <<invalid, replies>>

\* ... or by the one that is at hand.
Guessed ==
    /\ replies = <<>> /\ ModesKept /\ Head(reader).type # "error"
    /\ \/ /\ "SUBSCRIBED" \in flags /\ Head(reader).topic = "none"
          /\ Delivered(IF invalid = <<>> THEN cb ELSE Head(invalid))
          /\ invalid' = IF invalid = <<>> THEN invalid ELSE Tail(invalid)
       \/ "MONITORING" \in flags /\ Delivered(cb) /\ invalid' = invalid
    /\ UNCHANGED <<replies, sub, subscribed, unsubs>>

\* A context that is closed without an error has nothing pending.
LEMMA DisconnectCases ==
    ASSUME TypeInv, process = "running", NEW fl \in SUBSET AllFlags, NEW error \in BOOLEAN,
           AsyncDisconnect(fl, error), error \/ replies = <<>>,
           pc' \in {pc, "loop"}, pc' = "onConnect" => risky', cb' \in {0, cb},
           risky' \in BOOLEAN, risky => risky',
           UNCHANGED <<partial, resume, inbox, online, serverSubs, monitored, events, unsubs>>
    PROVE  Freed
  <1>1. CASE error
    <2>1. AsyncFree(fl \cup {"DISCONNECTING"}, TRUE)
      BY <1>1 DEF AsyncDisconnect
    <2> QED
      BY <2>1 DEF AsyncFree, Freed, AllFlags
  <1>2. CASE ~error
    <2>1. AsyncFree(fl, FALSE) /\ replies = <<>>
      BY <1>2 DEF AsyncDisconnect
    <2> QED
      BY <2>1 DEF AsyncFree, Freed
  <1> QED
    BY <1>1, <1>2

\* A disconnection or a free by the user frees the context or is noted in its flags.
LEMMA UserCases ==
    ASSUME TypeInv, redisAsyncDisconnect \/ redisAsyncFree PROVE Freed \/ Noted
  <1>1. CASE redisAsyncDisconnect
    <2>1. /\ process = "running" /\ flags \cup {"DISCONNECTING"} \subseteq AllFlags /\ err \in BOOLEAN
          /\ risky' \in BOOLEAN /\ (risky => risky') /\ (pc' = "onConnect" => risky') /\ pc' = pc
          /\ UNCHANGED <<partial, pc, resume, cb, inbox, online, serverSubs, monitored, events, unsubs>>
      BY <1>1 DEF redisAsyncDisconnect, UserTurn, TypeInv, ControlTyped, QueuesTyped, AllFlags, serverVars
    <2>2. CASE AtOnce
      <3>1. AsyncDisconnect(flags \cup {"DISCONNECTING"}, err) /\ replies = <<>>
        BY <1>1, <2>2 DEF redisAsyncDisconnect, AtOnce
      <3> QED
        BY <2>1, <3>1, DisconnectCases
    <2>3. CASE ~AtOnce
      BY <1>1, <2>1, <2>3 DEF redisAsyncDisconnect, Noted, ModesKept, TypeInv, ControlTyped, QueuesTyped
    <2> QED
      BY <2>2, <2>3
  <1>2. CASE redisAsyncFree
    <2>1. /\ process = "running" /\ flags \cup {"FREEING"} \subseteq AllFlags
          /\ risky' \in BOOLEAN /\ (risky => risky') /\ (pc' = "onConnect" => risky') /\ pc' = pc
          /\ UNCHANGED <<partial, pc, resume, cb, inbox, online, serverSubs, monitored, events, unsubs>>
      BY <1>2 DEF redisAsyncFree, UserTurn, TypeInv, ControlTyped, QueuesTyped, AllFlags, serverVars
    <2>2. CASE "IN_CALLBACK" \notin flags
      <3>1. AsyncFree(flags \cup {"FREEING"}, err)
        BY <1>2, <2>2 DEF redisAsyncFree, FreeingFlags
      <3> QED
        BY <2>1, <3>1 DEF AsyncFree, Freed, TypeInv, ControlTyped, QueuesTyped
    <2>3. CASE "IN_CALLBACK" \in flags
      BY <1>2, <2>1, <2>3 DEF redisAsyncFree, FreeingFlags, Noted, ModesKept, TypeInv, ControlTyped, QueuesTyped
    <2> QED
      BY <2>2, <2>3
  <1> QED
    BY <1>1, <1>2

\* The end of a callback, and the free that was put off until then.
LEMMA CallbackCases ==
    ASSUME TypeInv, RunCallback PROVE Freed \/ Noted
  <1>1. /\ process = "running" /\ pc = "callback" /\ flags \ {"IN_CALLBACK"} \subseteq AllFlags
        /\ UNCHANGED <<partial, resume, cb, inbox, online, serverSubs, monitored, events, unsubs, risky>>
    BY DEF RunCallback, TypeInv, ControlTyped, QueuesTyped, AllFlags, serverVars
  <1>2. CASE "FREEING" \in flags
    <2>1. AsyncFree(flags \ {"IN_CALLBACK"}, err) /\ pc' = pc
      BY <1>2 DEF RunCallback
    <2> QED
      BY <1>1, <1>2, <2>1 DEF AsyncFree, Freed, TypeInv, ControlTyped, QueuesTyped
  <1>3. CASE "FREEING" \notin flags
    <2>1. /\ flags' = flags \ {"IN_CALLBACK"} /\ pc' = "process"
          /\ UNCHANGED <<err, obuf, reader, replies, invalid, sub, ev, process, onDisconnect,
                         commands, got, subscribed>>
      BY <1>3 DEF RunCallback
    <2>2. ModesKept
      BY <2>1 DEF ModesKept
    <2>3. err \in BOOLEAN /\ ev \subseteq {"read", "write"} /\ partial \in BOOLEAN
          /\ resume \in {"read", "write", "failed"} /\ risky \in BOOLEAN
      BY DEF TypeInv, ControlTyped, QueuesTyped
    <2> QED
      BY <1>1, <2>1, <2>2, <2>3 DEF Noted
  <1> QED
    BY <1>2, <1>3

\* A step of redisProcessCallbacks.
LEMMA ProcessCases ==
    ASSUME TypeInv, redisProcessCallbacks
    PROVE  Freed \/ Aborted \/ Noted \/ Pushed \/ Answered \/ Announced \/ Guessed
  <1> DEFINE r == Head(reader)
  <1>1. /\ process = "running" /\ pc = "process" /\ flags \subseteq AllFlags /\ err \in BOOLEAN
        /\ \A fn : InCallback(fn, flags) \subseteq AllFlags
        /\ \A fn : InCallback(fn, flags \ {"SUBSCRIBED"}) \subseteq AllFlags
        /\ UNCHANGED <<partial, resume, inbox, online, serverSubs, monitored, events, risky>>
    BY DEF redisProcessCallbacks, TypeInv, ControlTyped, QueuesTyped, AllFlags, InCallback, serverVars
  <1>2. \A fn : \A f \in {"SUBSCRIBED", "MONITORING"} : \A fl : f \in InCallback(fn, fl) <=> f \in fl
    BY DEF InCallback
  <1>3. CASE reader = <<>>
    <2>1. NoReply /\ cb' = 0
      BY <1>3 DEF redisProcessCallbacks
    <2>2. CASE "DISCONNECTING" \in flags /\ obuf = <<>> /\ replies = <<>>
      <3>1. AsyncDisconnect(flags, err) /\ UNCHANGED <<pc, unsubs>> /\ replies = <<>>
        BY <2>1, <2>2 DEF NoReply
      <3> QED
        BY <1>1, <2>1, <3>1, DisconnectCases DEF TypeInv, ControlTyped, QueuesTyped
    <2>3. CASE ~("DISCONNECTING" \in flags /\ obuf = <<>> /\ replies = <<>>)
      <3>1. CASE "MONITORING" \in flags
        BY <1>1, <2>1, <2>3, <3>1 DEF NoReply, Pushed
      <3>2. CASE "MONITORING" \notin flags
        BY <1>1, <2>1, <2>3, <3>2 DEF NoReply, Noted, ModesKept, TypeInv, ControlTyped, QueuesTyped
      <3> QED
        BY <3>1, <3>2
    <2> QED
      BY <2>2, <2>3
  <1>4. CASE reader # <<>> /\ r.type = "malformed"
    <2>1. AsyncDisconnect(flags, TRUE) /\ UNCHANGED <<pc, cb, unsubs>>
      BY <1>4 DEF redisProcessCallbacks
    <2> QED
      BY <1>1, <2>1, DisconnectCases DEF TypeInv, ControlTyped, QueuesTyped
  <1>5. CASE reader # <<>> /\ r.type # "malformed" /\ replies # <<>>
    <2>1. /\ Deliver(Head(replies), r) /\ flags' = InCallback(Head(replies), flags)
          /\ replies' = Tail(replies) /\ UNCHANGED <<invalid, sub, subscribed, unsubs>>
      BY <1>5 DEF redisProcessCallbacks
    <2> QED
      BY <1>1, <1>2, <1>5, <2>1 DEF Deliver, Delivered, Answered, ModesKept
  <1>6. CASE reader # <<>> /\ r.type # "malformed" /\ replies = <<>>
    <2>1. Spontaneous(r)
      BY <1>6 DEF redisProcessCallbacks
    <2>2. CASE r.type = "error"
      <3>1. AsyncDisconnect(flags, TRUE) /\ UNCHANGED <<pc, cb, unsubs>>
        BY <2>1, <2>2 DEF Spontaneous
      <3> QED
        BY <1>1, <3>1, DisconnectCases DEF TypeInv, ControlTyped, QueuesTyped
    <2>3. CASE r.type # "error" /\ flags \cap {"SUBSCRIBED", "MONITORING"} = {}
      <3>1. Abort /\ UNCHANGED <<pc, cb, unsubs>>
        BY <2>1, <2>3 DEF Spontaneous
      <3> QED
        BY <1>1, <1>6, <2>3, <3>1 DEF Abort, Aborted
    <2>4. CASE r.type # "error" /\ "SUBSCRIBED" \in flags
      <3>1. GetSubscribeCallback(r)
        BY <2>1, <2>4 DEF Spontaneous
      <3>2. CASE r.topic = "none"
        <4> DEFINE fn == IF invalid = <<>> THEN cb ELSE Head(invalid)
        <4>1. /\ Deliver(fn, r) /\ flags' = InCallback(cb', flags)
              /\ invalid' = IF invalid = <<>> THEN invalid ELSE Tail(invalid)
              /\ UNCHANGED <<sub, replies, subscribed, unsubs>>
          BY <3>1, <3>2 DEF GetSubscribeCallback
        <4>2. Delivered(fn) /\ ModesKept
          <5> HIDE DEF fn
          <5> QED
            BY <1>1, <1>2, <1>6, <4>1 DEF Deliver, Delivered, ModesKept
        <4> QED
          BY <1>6, <2>4, <3>2, <4>1, <4>2 DEF Guessed
      <3>3. CASE r.topic # "none"
        <4> DEFINE dict == sub[DictOf(r.topic)]
                   known == Has(dict, r.topic)
                   fn == IF known THEN dictFind(dict, r.topic) ELSE cb
                   leaves == known /\ r.type = "unsubscribe"
        <4>1. /\ Deliver(fn, r)
              /\ sub' = IF leaves THEN [sub EXCEPT ![DictOf(r.topic)] = dictDelete(@, r.topic)] ELSE sub
              /\ flags' = InCallback(fn, IF leaves /\ r.count = 0 THEN flags \ {"SUBSCRIBED"} ELSE flags)
              /\ subscribed' = IF r.type # "unsubscribe" THEN subscribed
                               ELSE [t \in DOMAIN subscribed \ {r.topic} |-> subscribed[t]]
              /\ unsubs' = IF r.type = "unsubscribe" THEN unsubs \ {r.topic} ELSE unsubs
              /\ UNCHANGED <<invalid, replies>>
          BY <3>1, <3>3 DEF GetSubscribeCallback
        <4>2. /\ flags' \subseteq AllFlags /\ ("MONITORING" \in flags' <=> "MONITORING" \in flags)
              /\ "SUBSCRIBED" \in flags' <=> ~(leaves /\ r.count = 0)
          <5> HIDE DEF leaves, fn
          <5>1. CASE leaves /\ r.count = 0
            BY <1>1, <1>2, <2>4, <4>1, <5>1
          <5>2. CASE ~(leaves /\ r.count = 0)
            BY <1>1, <1>2, <2>4, <4>1, <5>2
          <5> QED
            BY <5>1, <5>2
        <4>3. Delivered(fn)
          <5> HIDE DEF fn, leaves
          <5> QED
            BY <1>1, <1>6, <4>1, <4>2 DEF Deliver, Delivered
        <4> QED
          BY <1>6, <2>4, <3>3, <4>1, <4>2, <4>3 DEF Announced
      <3> QED
        BY <3>2, <3>3
    <2>5. CASE r.type # "error" /\ "SUBSCRIBED" \notin flags /\ "MONITORING" \in flags
      <3>1. /\ Deliver(cb, r) /\ flags' = InCallback(cb, flags)
            /\ UNCHANGED <<invalid, replies, sub, subscribed, unsubs>>
        BY <2>1, <2>5 DEF Spontaneous
      <3>2. Delivered(cb) /\ ModesKept
        BY <1>1, <1>2, <1>6, <3>1 DEF Deliver, Delivered, ModesKept
      <3> QED
        BY <1>6, <2>5, <3>1, <3>2 DEF Guessed
    <2> QED
      BY <2>2, <2>3, <2>4, <2>5
  <1> QED
    BY <1>3, <1>4, <1>5, <1>6

\* A step of redisAsyncHandleRead.
LEMMA ReadCases ==
    ASSUME TypeInv, process = "running", Read,
           UNCHANGED <<resume, online, serverSubs, monitored, events, unsubs, risky>>
    PROVE  Freed \/ Received
  <1>1. CASE ~online /\ inbox = <<>> /\ AsyncDisconnect(flags, TRUE) /\ pc' = "loop"
             /\ UNCHANGED <<cb, inbox, partial>>
    BY <1>1, DisconnectCases DEF TypeInv, ControlTyped, QueuesTyped
  <1>2. ASSUME NEW k \in 0..Len(inbox),
               reader' = reader \o SubSeq(inbox, 1, k),
               inbox' = SubSeq(inbox, k + 1, Len(inbox)),
               partial' = (k = 0), ev' = ev \cup {"read"}, cb' = 0, pc' = "process",
               UNCHANGED <<flags, err, obuf, replies, invalid, sub, process, onDisconnect,
                           commands, got, subscribed>>
        PROVE  Received
    BY <1>2 DEF Received, TypeInv, ControlTyped, QueuesTyped
  <1> QED
    BY <1>1, <1>2 DEF Read

\* Nothing is executed when nothing was written.
LEMMA NothingExecuted ==
    Executed(<<>>) = [subs |-> serverSubs, monitored |-> monitored, out |-> inbox]
  <1> DEFINE start == [subs |-> serverSubs, monitored |-> monitored, out |-> inbox]
             eqn(f) == [i \in 0..Len(<<>>) |-> IF i = 0 THEN start ELSE Execute(f[i - 1], <<>>[i])]
             server == CHOOSE f : f = eqn(f)
  <1>1. Len(<<>>) = 0
    OBVIOUS
  <1>2. eqn([i \in 0..0 |-> start]) = [i \in 0..0 |-> start]
    BY <1>1
  <1>3. server = eqn(server)
    BY <1>2, Zenon
  <1>4. Executed(<<>>) = server[Len(<<>>)]
    BY Zenon DEF Executed
  <1> HIDE DEF server, start
  <1>5. server[0] = start
    BY <1>1, <1>3
  <1> QED
    BY <1>1, <1>4, <1>5 DEF start

\* A step of redisAsyncHandleWrite.
LEMMA WriteCases ==
    ASSUME TypeInv, process = "running", Write,
           UNCHANGED <<cb, partial, resume, online, events, unsubs, risky>>
    PROVE  Freed \/ Written \/ Noted
  <1>1. CASE ~online /\ obuf # <<>> /\ AsyncDisconnect(flags, TRUE) /\ pc' = "loop"
             /\ UNCHANGED <<inbox, serverSubs, monitored>>
    BY <1>1, DisconnectCases DEF TypeInv, ControlTyped, QueuesTyped
  <1>2. ASSUME NEW k \in 0..Len(obuf), obuf # <<>> => online /\ k > 0,
               LET s == Executed(SubSeq(obuf, 1, k))
               IN  inbox' = s.out /\ serverSubs' = s.subs /\ monitored' = s.monitored,
               obuf' = SubSeq(obuf, k + 1, Len(obuf)), ev' = AfterWrite(k = Len(obuf)), pc' = "loop",
               UNCHANGED <<flags, err, reader, replies, invalid, sub, process, onDisconnect,
                           commands, got, subscribed>>
        PROVE  Written \/ Noted
    <2>1. ev' \subseteq {"read", "write"}
      BY <1>2 DEF AfterWrite, TypeInv, ControlTyped, QueuesTyped
    <2>2. CASE online
      BY <1>2, <2>1, <2>2 DEF Written
    <2>3. CASE ~online
      <3>1. obuf = <<>> /\ k = 0 /\ SubSeq(obuf, 1, k) = <<>> /\ SubSeq(obuf, k + 1, Len(obuf)) = <<>>
        BY <1>2, <2>3
      <3>2. inbox' = inbox /\ serverSubs' = serverSubs /\ monitored' = monitored /\ obuf' = obuf
        <4>1. Executed(SubSeq(obuf, 1, k)) = [subs |-> serverSubs, monitored |-> monitored, out |-> inbox]
          BY <3>1, NothingExecuted
        <4>2. /\ inbox' = Executed(SubSeq(obuf, 1, k)).out
              /\ serverSubs' = Executed(SubSeq(obuf, 1, k)).subs
              /\ monitored' = Executed(SubSeq(obuf, 1, k)).monitored
          BY <1>2
        <4> QED
          BY <1>2, <3>1, <4>1, <4>2
      <3> QED
        BY <1>2, <2>1, <3>2 DEF Noted, ModesKept, TypeInv, ControlTyped, QueuesTyped
    <2> QED
      BY <2>2, <2>3
  <1> QED
    BY <1>1, <1>2 DEF Write

\* What the event loop does.
LEMMA LoopCases ==
    ASSUME TypeInv, Loop
    PROVE  \/ Over \/ Freed \/ Aborted \/ Noted \/ Pushed \/ Received \/ Written
           \/ Answered \/ Announced \/ Guessed
  <1>1. ASSUME NEW kind \in {"read", "write"}, process = "running", Perform(kind),
               UNCHANGED <<resume, unsubs, risky>>
        PROVE  Freed \/ Received \/ Written \/ Noted
    <2>1. CASE kind = "read"
      <3>1. Read /\ UNCHANGED <<online, serverSubs, monitored, events>>
        BY <1>1, <2>1 DEF Perform
      <3> QED
        BY <1>1, <3>1, ReadCases
    <2>2. CASE kind = "write"
      <3>1. Write /\ UNCHANGED <<cb, partial, online, events>>
        BY <1>1, <2>2 DEF Perform
      <3> QED
        BY <1>1, <3>1, WriteCases
    <2> QED
      BY <2>1, <2>2
  <1>2. ASSUME NEW kind \in {"read", "write"}, Handle(kind)
        PROVE  Freed \/ Received \/ Written \/ Noted
    <2>1. process = "running" /\ UNCHANGED <<unsubs, risky>>
      BY <1>2 DEF Handle
    <2>2. CASE "CONNECTED" \notin flags
      <3>1. HandleConnect(kind)
        BY <1>2, <2>2 DEF Handle
      <3> QED
        BY <2>1, <3>1 DEF HandleConnect, Noted, ModesKept, TypeInv, ControlTyped, QueuesTyped, AllFlags, serverVars
    <2>3. CASE "CONNECTED" \in flags
      <3>1. Perform(kind) /\ UNCHANGED resume
        BY <1>2, <2>3 DEF Handle
      <3> QED
        BY <1>1, <2>1, <3>1
    <2> QED
      BY <2>2, <2>3
  <1>3. CASE OnConnectReturns
    <2>1. pc = "onConnect" /\ UNCHANGED <<resume, unsubs, risky>>
      BY <1>3 DEF OnConnectReturns
    <2>2. CASE process = "freed"
      BY <1>3, <2>1, <2>2 DEF OnConnectReturns, Over, serverVars
    <2>3. CASE process = "running" /\ resume = "failed"
      <3>1. AsyncDisconnect(flags, TRUE) /\ pc' = "loop" /\ UNCHANGED <<cb, partial, serverVars>>
        BY <1>3, <2>3 DEF OnConnectReturns
      <3> QED
        BY <2>1, <2>3, <3>1, DisconnectCases DEF TypeInv, ControlTyped, QueuesTyped, serverVars
    <2>4. CASE process = "running" /\ resume # "failed"
      <3>1. Perform(resume) /\ resume \in {"read", "write"}
        BY <1>3, <2>4 DEF OnConnectReturns, TypeInv, ControlTyped, QueuesTyped
      <3> QED
        BY <1>1, <2>1, <2>4, <3>1
    <2> QED
      BY <1>3, <2>2, <2>3, <2>4 DEF OnConnectReturns
  <1>4. CASE redisProcessCallbacks
    BY <1>4, ProcessCases
  <1>5. CASE RunCallback
    BY <1>5, CallbackCases
  <1> QED
    BY <1>2, <1>3, <1>4, <1>5 DEF Loop

\* Every step is one of these.
LEMMA StepCases ==
    ASSUME TypeInv, [Next]_vars
    PROVE  \/ Over \/ Freed \/ Aborted \/ Noted \/ Pushed \/ Received \/ Written
           \/ Answered \/ Announced \/ Guessed
           \/ (\E cmd \in Commands : redisAsyncCommand(cmd)) \/ Publish \/ Close
  <1>1. CASE UNCHANGED vars
    BY <1>1 DEF vars, contextVars, serverVars, historyVars, Over
  <1>2. CASE User
    BY <1>2, UserCases DEF User
  <1>3. CASE Loop
    BY <1>3, LoopCases
  <1> QED
    BY <1>1, <1>2, <1>3 DEF Next

-----------------------------------------------------------------------------
(***************************************************************************)
(* Callbacks that run, and commands that the server executes.              *)
(***************************************************************************)

\* A list of callbacks appends the reply to what each of them got, once for
\* each time that it is in the list.
LEMMA RunFacts ==
    ASSUME NEW X, got \in Seq(Seq(X)), NEW list \in Seq(Nat), NEW r \in X
    PROVE  /\ Run(list, r) \in Seq(Seq(X)) /\ Len(Run(list, r)) = Len(got)
           /\ \A n \in DOMAIN got :
                 /\ n \notin ToSet(list) => Run(list, r)[n] = got[n]
                 /\ \A i \in 1..Len(list) :
                       list[i] = n /\ (\A j \in 1..Len(list) : list[j] = n => j = i)
                          => Run(list, r)[n] = Append(got[n], r)
                 /\ Len(got[n]) <= Len(Run(list, r)[n])
                 /\ \A i \in 1..Len(got[n]) : Run(list, r)[n][i] = got[n][i]
                 /\ \A i \in 1..Len(Run(list, r)[n]) :
                       i > Len(got[n]) => Run(list, r)[n][i] = r /\ n \in ToSet(list)
                 /\ n \in ToSet(list) => Len(Run(list, r)[n]) > Len(got[n])
  <1> DEFINE Times(n) == {i \in DOMAIN list : list[i] = n}
             new(n) == [k \in 1..Cardinality(Times(n)) |-> r]
  <1>1. DOMAIN got = 1..Len(got) /\ Len(got) \in Nat /\ \A n \in DOMAIN got : got[n] \in Seq(X)
    OBVIOUS
  <1>2. DOMAIN list = 1..Len(list) /\ Len(list) \in Nat
    OBVIOUS
  <1>3. \A n : IsFiniteSet(Times(n)) /\ Cardinality(Times(n)) \in Nat
    <2>1. IsFiniteSet(1..Len(list))
      BY <1>2, FS_Interval
    <2> QED
      BY <1>2, <2>1, FS_Subset, FS_CardinalityType
  <1>4. \A n : n \in ToSet(list) <=> Times(n) # {}
    BY DEF ToSet
  <1>5. \A n : n \in ToSet(list) <=> Cardinality(Times(n)) # 0
    BY <1>3, <1>4, FS_EmptySet
  <1>6. \A n \in DOMAIN got : Run(list, r)[n] = got[n] \o new(n)
    BY DEF Run
  <1> HIDE DEF Times
  <1>7. \A n : new(n) \in Seq(X) /\ Len(new(n)) = Cardinality(Times(n))
               /\ \A k \in 1..Len(new(n)) : new(n)[k] = r
    BY <1>3
  <1>8. ASSUME NEW n \in DOMAIN got, NEW i \in 1..Len(list), list[i] = n,
               \A j \in 1..Len(list) : list[j] = n => j = i
        PROVE  Cardinality(Times(n)) = 1
    <2>1. Times(n) = {i}
      BY <1>2, <1>8 DEF Times
    <2> QED
      BY <2>1, FS_Singleton
  <1> HIDE DEF new
  <1>9. \A n \in DOMAIN got :
          /\ got[n] \o new(n) \in Seq(X) /\ Len(got[n] \o new(n)) = Len(got[n]) + Len(new(n))
          /\ \A i \in 1..Len(got[n]) : (got[n] \o new(n))[i] = got[n][i]
          /\ \A i \in 1..Len(new(n)) : (got[n] \o new(n))[Len(got[n]) + i] = new(n)[i]
          /\ Len(got[n]) \in Nat /\ Len(new(n)) \in Nat
    <2> SUFFICES ASSUME NEW n \in DOMAIN got
                 PROVE  /\ got[n] \o new(n) \in Seq(X) /\ Len(got[n] \o new(n)) = Len(got[n]) + Len(new(n))
                        /\ \A i \in 1..Len(got[n]) : (got[n] \o new(n))[i] = got[n][i]
                        /\ \A i \in 1..Len(new(n)) : (got[n] \o new(n))[Len(got[n]) + i] = new(n)[i]
                        /\ Len(got[n]) \in Nat /\ Len(new(n)) \in Nat
      OBVIOUS
    <2>1. got[n] \in Seq(X) /\ new(n) \in Seq(X)
      BY <1>1, <1>7
    <2> QED
      BY <2>1, QueueOperators
  <1>10. Run(list, r) \in Seq(Seq(X)) /\ Len(Run(list, r)) = Len(got)
    <2>1. Run(list, r) = [n \in 1..Len(got) |-> Run(list, r)[n]]
      BY <1>1 DEF Run
    <2>2. \A n \in 1..Len(got) : Run(list, r)[n] \in Seq(X)
      BY <1>1, <1>6, <1>9
    <2> QED
      BY <1>1, <2>1, <2>2
  <1>11. ASSUME NEW n \in DOMAIN got
         PROVE  /\ n \notin ToSet(list) => Run(list, r)[n] = got[n]
                /\ \A i \in 1..Len(list) :
                       list[i] = n /\ (\A j \in 1..Len(list) : list[j] = n => j = i)
                          => Run(list, r)[n] = Append(got[n], r)
    <2>1. CASE Cardinality(Times(n)) = 0
      <3>1. new(n) = <<>>
        BY <1>7, <2>1, EmptySeq
      <3>2. got[n] \o <<>> = got[n]
        BY <1>1
      <3>3. n \notin ToSet(list)
        BY <1>5, <2>1
      <3>4. \A i \in 1..Len(list) : list[i] # n
        BY <1>2, <3>3 DEF ToSet
      <3> QED
        BY <1>6, <3>1, <3>2, <3>4
    <2>2. CASE Cardinality(Times(n)) = 1
      <3>1. new(n) = <<r>>
        BY <2>2 DEF new
      <3>2. got[n] \o <<r>> = Append(got[n], r)
        BY <1>1
      <3>3. n \in ToSet(list)
        BY <1>5, <2>2
      <3> QED
        BY <1>6, <3>1, <3>2, <3>3
    <2>3. CASE Cardinality(Times(n)) \notin {0, 1}
      BY <1>5, <1>8, <2>3
    <2> QED
      BY <2>1, <2>2, <2>3
  <1>12. ASSUME NEW n \in DOMAIN got
         PROVE  /\ Len(got[n]) <= Len(Run(list, r)[n])
                /\ \A i \in 1..Len(got[n]) : Run(list, r)[n][i] = got[n][i]
                /\ \A i \in 1..Len(Run(list, r)[n]) :
                       i > Len(got[n]) => Run(list, r)[n][i] = r /\ n \in ToSet(list)
                /\ n \in ToSet(list) => Len(Run(list, r)[n]) > Len(got[n])
    <2>1. Len(got[n]) \in Nat /\ Len(new(n)) \in Nat /\ Len(new(n)) = Cardinality(Times(n))
          /\ Run(list, r)[n] = got[n] \o new(n) /\ Len(got[n] \o new(n)) = Len(got[n]) + Len(new(n))
      BY <1>6, <1>7, <1>9
    <2>2. ASSUME NEW i \in 1..Len(got[n] \o new(n)), i > Len(got[n])
          PROVE  (got[n] \o new(n))[i] = r /\ n \in ToSet(list)
      <3>1. i - Len(got[n]) \in 1..Len(new(n)) /\ Len(got[n]) + (i - Len(got[n])) = i
        BY <2>1, <2>2
      <3> QED
        BY <1>5, <1>7, <1>9, <2>1, <3>1
    <2> QED
      BY <1>5, <1>9, <2>1, <2>2
  <1> QED
    BY <1>10, <1>11, <1>12

\* The states of the server.
Servers ==
    {s \in [subs : SUBSET DictKeys, monitored : BOOLEAN, out : Seq(Items)] :
        IsFiniteSet(s.subs) /\ \A i \in 1..Len(s.out) : s.out[i].to \in Numbers}
Server == [subs |-> serverSubs, monitored |-> monitored, out |-> inbox]

\* The values of a sequence are finitely many.
LEMMA ToSetFinite ==
    ASSUME NEW S, NEW s \in Seq(S) PROVE ToSet(s) \subseteq S /\ IsFiniteSet(ToSet(s))
  <1>1. DOMAIN s = 1..Len(s) /\ IsFiniteSet(1..Len(s)) /\ \A i \in 1..Len(s) : s[i] \in S
    BY FS_Interval
  <1>2. ToSet(s) = {s[i] : i \in 1..Len(s)}
    BY <1>1 DEF ToSet
  <1>3. s \in [1..Len(s) -> S]
    OBVIOUS
  <1>4. IsFiniteSet({s[i] : i \in 1..Len(s)})
    <2>1. s \in Surjection(1..Len(s), {s[i] : i \in 1..Len(s)})
      BY <1>3 DEF Surjection
    <2> QED
      BY <1>1, <2>1, FS_Surjection
  <1> QED
    BY <1>1, <1>2, <1>4

\* The count in the i-th of the replies to a command with topics.
CountAfter(type, n, subs, i) ==
    Cardinality(IF type = "subscribe" THEN subs \cup ToSet(SubSeq(commands[n].topics, 1, i))
                ELSE subs \ ToSet(SubSeq(commands[n].topics, 1, i)))

\* What the answer to a command with topics is made of.
LEMMA TopicRepliesFacts ==
    ASSUME CommandsTyped, NEW n \in DOMAIN commands, NEW type \in TopicTypes,
           NEW subs, IsFiniteSet(subs)
    PROVE  /\ TopicReplies(type, n, subs) \in Seq(Items)
           /\ Len(TopicReplies(type, n, subs)) = Len(commands[n].topics)
           /\ \A i \in 1..Len(commands[n].topics) :
                 /\ TopicReplies(type, n, subs)[i].type = type
                 /\ TopicReplies(type, n, subs)[i].to = n
                 /\ TopicReplies(type, n, subs)[i].topic = commands[n].topics[i]
                 /\ TopicReplies(type, n, subs)[i].count = CountAfter(type, n, subs, i)
  <1> DEFINE topics == commands[n].topics
             seen(i) == ToSet(SubSeq(topics, 1, i))
             after(i) == IF type = "subscribe" THEN subs \cup seen(i) ELSE subs \ seen(i)
             item(i) == Reply(type, n, topics[i], Cardinality(after(i)))
  <1>1. topics \in Seq(DictKeys) /\ n \in Nat
    <2>1. commands \in Seq(Accepted)
      BY DEF CommandsTyped
    <2>2. commands[n] \in Accepted /\ n \in Nat
      BY <2>1
    <2> QED
      BY <2>2 DEF Accepted
  <1>2. DOMAIN topics = 1..Len(topics) /\ Len(topics) \in Nat /\ \A i \in 1..Len(topics) : topics[i] \in DictKeys
    BY <1>1
  <1>3. \A i \in 1..Len(topics) : Cardinality(after(i)) \in Nat
    <2> SUFFICES ASSUME NEW i \in 1..Len(topics) PROVE IsFiniteSet(after(i))
      BY FS_CardinalityType
    <2>1. SubSeq(topics, 1, i) \in Seq(DictKeys)
      BY <1>1, <1>2
    <2>2. IsFiniteSet(seen(i))
      BY <2>1, ToSetFinite
    <2> QED
      BY <2>2, FS_Union, FS_Subset
  <1>4. TopicReplies(type, n, subs) = [i \in 1..Len(topics) |-> item(i)]
    BY <1>2 DEF TopicReplies
  <1> HIDE DEF after
  <1>5. \A i \in 1..Len(topics) : item(i) \in Items
    BY <1>1, <1>2, <1>3 DEF Reply, Items
  <1>6. [i \in 1..Len(topics) |-> item(i)] \in Seq(Items)
    <2> HIDE DEF item
    <2> QED
      BY <1>2, <1>5
  <1>7. \A i \in 1..Len(topics) : TopicReplies(type, n, subs)[i] = item(i)
    BY <1>4
  <1>8. Len(TopicReplies(type, n, subs)) = Len(topics)
    <2> HIDE DEF item
    <2> QED
      BY <1>2, <1>4
  <1> QED
    <2>1. TopicReplies(type, n, subs) \in Seq(Items)
      BY <1>4, <1>6
    <2>2. \A i \in 1..Len(topics) :
            /\ item(i).type = type /\ item(i).to = n /\ item(i).topic = topics[i]
            /\ item(i).count = Cardinality(after(i))
      BY DEF Reply
    <2> HIDE DEF item
    <2> QED
      BY <1>7, <1>8, <2>1, <2>2 DEF after, CountAfter

\* The reply to a command without topics.
Plain(s, n) == Reply(IF s.subs = {} THEN "reply" ELSE "error", n, "none", 0)

\* The three ways in which the server executes a command.
LEMMA ExecuteFacts ==
    ASSUME CommandsTyped, NEW n \in DOMAIN commands, NEW s \in Servers
    PROVE  /\ Execute(s, n) \in Servers
           /\ commands[n].place = "SUBSCRIBE" =>
                 Execute(s, n) = [subs |-> s.subs \cup ToSet(commands[n].topics), monitored |-> s.monitored,
                                  out |-> s.out \o TopicReplies("subscribe", n, s.subs)]
           /\ commands[n].place = "UNSUBSCRIBE" =>
                 Execute(s, n) = [subs |-> s.subs \ ToSet(commands[n].topics), monitored |-> s.monitored,
                                  out |-> s.out \o TopicReplies("unsubscribe", n, s.subs)]
           /\ commands[n].place \notin {"SUBSCRIBE", "UNSUBSCRIBE"} =>
                 Execute(s, n) = [subs |-> s.subs,
                                  monitored |-> s.monitored \/ (commands[n].name = "MONITOR" /\ s.subs = {}),
                                  out |-> Append(s.out, Plain(s, n))]
  <1> DEFINE topics == ToSet(commands[n].topics)
             name == commands[n].name
             subscribes == TopicReplies("subscribe", n, s.subs)
             unsubscribes == TopicReplies("unsubscribe", n, s.subs)
             heard == s.monitored \/ (name = "MONITOR" /\ s.subs = {})
  <1>1. /\ s = [subs |-> s.subs, monitored |-> s.monitored, out |-> s.out]
        /\ s.subs \subseteq DictKeys /\ IsFiniteSet(s.subs) /\ s.monitored \in BOOLEAN
        /\ s.out \in Seq(Items) /\ \A i \in 1..Len(s.out) : s.out[i].to \in Numbers
    BY DEF Servers
  <1>2. /\ commands[n].place \in {"SUBSCRIBE", "UNSUBSCRIBE"} <=> name \in {"SUBSCRIBE", "UNSUBSCRIBE"}
        /\ commands[n].place \in {"SUBSCRIBE", "UNSUBSCRIBE"} => commands[n].place = name
    BY DEF CommandsTyped
  <1>3. topics \subseteq DictKeys /\ IsFiniteSet(topics) /\ n \in Numbers /\ n \in Nat
    <2>1. commands \in Seq(Accepted)
      BY DEF CommandsTyped
    <2>2. DOMAIN commands = 1..Len(commands) /\ commands[n] \in Accepted
      BY <2>1
    <2>3. commands[n].topics \in Seq(DictKeys)
      BY <2>2 DEF Accepted
    <2> QED
      BY <2>1, <2>2, <2>3, ToSetFinite DEF Numbers
  <1>4. ASSUME NEW type \in TopicTypes
        PROVE  /\ s.out \o TopicReplies(type, n, s.subs) \in Seq(Items)
               /\ \A i \in 1..Len(s.out \o TopicReplies(type, n, s.subs)) :
                     (s.out \o TopicReplies(type, n, s.subs))[i].to \in Numbers
    <2> DEFINE more == TopicReplies(type, n, s.subs)
    <2>1. more \in Seq(Items) /\ \A i \in 1..Len(more) : more[i].to = n
      <3>1. IsFiniteSet(s.subs)
        BY <1>1
      <3>2. /\ more \in Seq(Items) /\ Len(more) = Len(commands[n].topics)
            /\ \A i \in 1..Len(commands[n].topics) : more[i].to = n
        BY <3>1, TopicRepliesFacts
      <3> HIDE DEF more
      <3> QED
        BY <3>2
    <2> HIDE DEF more
    <2>2. /\ s.out \o more \in Seq(Items) /\ Len(s.out \o more) = Len(s.out) + Len(more)
          /\ \A i \in 1..Len(s.out) : (s.out \o more)[i] = s.out[i]
          /\ \A i \in 1..Len(more) : (s.out \o more)[Len(s.out) + i] = more[i]
          /\ Len(s.out) \in Nat /\ Len(more) \in Nat
      BY <1>1, <2>1, QueueOperators
    <2>3. \A i \in 1..Len(s.out \o more) : i \in 1..Len(s.out) \/ i - Len(s.out) \in 1..Len(more)
      BY <2>2
    <2>4. \A i \in 1..Len(s.out \o more) : Len(s.out) + (i - Len(s.out)) = i
      BY <2>2
    <2> QED
      BY <1>1, <1>3, <2>1, <2>2, <2>3, <2>4 DEF more
  <1>5. CASE name = "SUBSCRIBE"
    <2>1. Execute(s, n) = [s EXCEPT !.out = @ \o subscribes, !.subs = @ \cup topics]
      BY <1>5 DEF Execute
    <2>2. Execute(s, n) = [subs |-> s.subs \cup topics, monitored |-> s.monitored, out |-> s.out \o subscribes]
      <3> HIDE DEF subscribes, topics
      <3> QED
        BY <1>1, <2>1, Zenon
    <2>3. IsFiniteSet(s.subs \cup topics)
      BY <1>1, <1>3, FS_Union
    <2> HIDE DEF topics
    <2>4. [subs |-> s.subs \cup topics, monitored |-> s.monitored, out |-> s.out \o subscribes] \in Servers
      BY <1>1, <1>3, <1>4, <2>3 DEF Servers, TopicTypes
    <2> QED
      BY <1>2, <1>5, <2>2, <2>4 DEF topics
  <1>6. CASE name = "UNSUBSCRIBE"
    <2>1. Execute(s, n) = [s EXCEPT !.out = @ \o unsubscribes, !.subs = @ \ topics]
      BY <1>6 DEF Execute
    <2>2. Execute(s, n) = [subs |-> s.subs \ topics, monitored |-> s.monitored, out |-> s.out \o unsubscribes]
      <3> HIDE DEF unsubscribes, topics
      <3> QED
        BY <1>1, <2>1, Zenon
    <2>3. IsFiniteSet(s.subs \ topics)
      BY <1>1, FS_Subset
    <2> HIDE DEF topics
    <2>4. [subs |-> s.subs \ topics, monitored |-> s.monitored, out |-> s.out \o unsubscribes] \in Servers
      BY <1>1, <1>3, <1>4, <2>3 DEF Servers, TopicTypes
    <2> QED
      BY <1>2, <1>6, <2>2, <2>4 DEF topics
  <1>7. CASE name \notin {"SUBSCRIBE", "UNSUBSCRIBE"}
    <2>1. Execute(s, n) = [s EXCEPT !.out = Append(@, Plain(s, n)),
                                    !.monitored = @ \/ (name = "MONITOR" /\ s.subs = {})]
      BY <1>7, Zenon DEF Execute, Plain
    <2>2. Execute(s, n) = [subs |-> s.subs, monitored |-> heard, out |-> Append(s.out, Plain(s, n))]
      BY <1>1, <2>1, Zenon
    <2>3. Plain(s, n) \in Items /\ Plain(s, n).to = n
      BY <1>3 DEF Plain, Reply, Items
    <2>4. /\ Append(s.out, Plain(s, n)) \in Seq(Items)
          /\ Len(Append(s.out, Plain(s, n))) = Len(s.out) + 1 /\ Len(s.out) \in Nat
          /\ \A i \in 1..Len(s.out) : Append(s.out, Plain(s, n))[i] = s.out[i]
          /\ Append(s.out, Plain(s, n))[Len(s.out) + 1] = Plain(s, n)
      BY <1>1, <2>3, QueueOperators
    <2>5. \A i \in 1..Len(Append(s.out, Plain(s, n))) : Append(s.out, Plain(s, n))[i].to \in Numbers
      <3>1. \A i \in 1..Len(Append(s.out, Plain(s, n))) : i \in 1..Len(s.out) \/ i = Len(s.out) + 1
        BY <2>4
      <3> QED
        BY <1>1, <1>3, <2>3, <2>4, <3>1
    <2>6. [subs |-> s.subs, monitored |-> heard, out |-> Append(s.out, Plain(s, n))] \in Servers
      BY <1>1, <2>4, <2>5 DEF Servers
    <2> QED
      BY <1>2, <1>7, <2>2, <2>6
  <1> QED
    BY <1>5, <1>6, <1>7

\* What holds of the server, and is kept by each command, holds after all of them.
LEMMA ExecutedFacts ==
    ASSUME TypeInv, NEW list \in Seq(Numbers \ {0}), NEW P, Server \in P[0],
           \A i \in 1..Len(list) : \A s \in Servers : s \in P[i - 1] => Execute(s, list[i]) \in P[i]
    PROVE  Executed(list) \in Servers /\ Executed(list) \in P[Len(list)]
  <1> DEFINE n == Len(list)
             step == [p \in (1..n) \X Servers |-> Execute(p[2], list[p[1]])]
             eqn(f) == [i \in 0..n |-> IF i = 0 THEN Server ELSE Execute(f[i - 1], list[i])]
             server == CHOOSE f : f = eqn(f)
             Q == [i \in 0..n |-> Servers \cap P[i]]
  <1>1. n \in Nat /\ \A i \in 1..n : list[i] \in DOMAIN commands
    <2>1. n \in Nat /\ \A i \in 1..n : list[i] \in Numbers \ {0}
      BY QueueOperators
    <2>2. commands \in Seq(Accepted)
      BY DEF TypeInv, ControlTyped, QueuesTyped, CommandsTyped
    <2>3. DOMAIN commands = 1..Len(commands) /\ Len(commands) \in Nat
      BY <2>2
    <2> QED
      BY <2>1, <2>3 DEF Numbers
  <1>2. Server \in Servers
    <2>1. inbox \in Seq(Items) /\ \A i \in DOMAIN inbox : inbox[i].to \in Numbers
      BY DEF TypeInv, ControlTyped, QueuesTyped
    <2>2. DOMAIN inbox = 1..Len(inbox)
      BY <2>1
    <2> QED
      BY <2>1, <2>2 DEF TypeInv, ControlTyped, QueuesTyped, Servers, Server
  <1>3. \A i \in 1..n, s \in Servers : Execute(s, list[i]) \in Servers
    <2>1. CommandsTyped
      BY DEF TypeInv, ControlTyped, QueuesTyped
    <2> QED
      BY <1>1, <2>1, ExecuteFacts
  <1>4. step \in [(1..n) \X Servers -> Servers]
    <2>1. \A p \in (1..n) \X Servers : Execute(p[2], list[p[1]]) \in Servers
      BY <1>3
    <2> QED
      BY <2>1
  <1>5. PICK g \in [0..n -> Servers] : Recursion(g, n, Server, step)
    <2> HIDE DEF step, n
    <2> QED
      BY <1>1, <1>2, <1>4, RecursionWitness
  <1>6. \A i \in 1..n : g[i] = Execute(g[i - 1], list[i])
    <2> SUFFICES ASSUME NEW i \in 1..n PROVE g[i] = Execute(g[i - 1], list[i])
      OBVIOUS
    <2>1. i - 1 \in 0..n
      BY <1>1
    <2>2. g[i - 1] \in Servers
      BY <2>1
    <2> HIDE DEF step
    <2>3. g[i] = step[<<i, g[i - 1]>>] /\ <<i, g[i - 1]>> \in (1..n) \X Servers
      BY <1>5, <2>2 DEF Recursion
    <2> QED
      BY <2>2, <2>3 DEF step
  <1> HIDE DEF step
  <1>7. server = eqn(server)
    <2>1. \A i \in 0..n : g[i] = IF i = 0 THEN Server ELSE Execute(g[i - 1], list[i])
      BY <1>1, <1>5, <1>6 DEF Recursion
    <2>2. g = [i \in 0..n |-> g[i]]
      OBVIOUS
    <2>3. g = eqn(g)
      BY <2>1, <2>2
    <2> QED
      BY <2>3, Zenon
  <1>8. Executed(list) = server[n]
    BY Zenon DEF Executed, Server
  <1> HIDE DEF server
  <1>9. server[0] = Server /\ \A i \in 1..n : server[i] = Execute(server[i - 1], list[i])
    BY <1>1, <1>7
  <1> HIDE DEF n
  <1>10. \A i \in 0..n : Q[i] = Servers \cap P[i]
    OBVIOUS
  <1> HIDE DEF Q
  <1>11. server[0] \in Q[0]
    BY <1>1, <1>2, <1>9, <1>10
  <1>12. ASSUME NEW i \in 1..n, server[i - 1] \in Q[i - 1] PROVE server[i] \in Q[i]
    <2>1. i - 1 \in 0..n /\ i \in 0..n
      BY <1>1
    <2>2. server[i - 1] \in Servers /\ server[i - 1] \in P[i - 1]
      BY <1>10, <1>12, <2>1
    <2> QED
      BY <1>3, <1>9, <1>10, <2>1, <2>2 DEF n
  <1>13. server[n] \in Q[n]
    <2>1. \A i \in 0..n : server[i] \in Q[i]
      <3>1. \A i \in 1..n : server[i - 1] \in Q[i - 1] => server[i] \in Q[i]
        BY <1>12
      <3>2. n \in Nat
        BY <1>1
      <3> QED
        BY <1>11, <3>1, <3>2, RecursionInvariant
    <2> QED
      BY <1>1, <2>1
  <1> QED
    BY <1>1, <1>8, <1>10, <1>13 DEF n

\* A map stays one when keys are given a value.
LEMMA UpdatedIsMap ==
    ASSUME NEW map, IsMap(map), NEW keys \in SUBSET DictKeys, IsFiniteSet(keys), NEW val \in Nat
    PROVE  IsMap(Updated(map, keys, val))
  <1>1. DOMAIN Updated(map, keys, val) = DOMAIN map \cup keys
    BY DEF Updated
  <1>2. IsFiniteSet(DOMAIN map \cup keys) /\ DOMAIN map \cup keys \subseteq DictKeys
    BY FS_Union DEF IsMap
  <1>3. \A k \in DOMAIN map \cup keys : Updated(map, keys, val)[k] \in Nat
    BY DEF Updated, IsMap
  <1> QED
    BY <1>1, <1>2, <1>3 DEF IsMap

\* A subscription gives each of its topics the callback, in the dict of its kind.
LEMMA SubscribeFacts ==
    ASSUME DictInv, IsMap(subscribed), sub \in [Kinds -> Dicts],
           NEW topics \in Seq(DictKeys), topics # <<>>, NEW fn \in Nat,
           ToSet(topics) \subseteq Patterns \/ ToSet(topics) \cap Patterns = {}
    PROVE  /\ Subscribe(topics, fn) \in [Kinds -> Dicts]
           /\ \A kind \in Kinds :
                 Keeps(Subscribe(topics, fn)[kind],
                       [t \in {u \in DOMAIN subscribed \cup ToSet(topics) : DictOf(u) = kind} |->
                           Updated(subscribed, ToSet(topics), fn)[t]])
  <1> DEFINE n == Len(topics)
             kind == DictOf(topics[1])
             map == Callbacks(kind)
             first(i) == {topics[j] : j \in 1..i}
             B == {e \in Dicts : \E m : IsMap(m) /\ Keeps(e, m)}
             P == [i \in 0..n |-> {e \in Dicts : Keeps(e, Updated(map, first(i), fn))}]
             step == [p \in (1..n) \X B |-> dictReplace(p[2], topics[p[1]], fn)]
             eqn(f) == [i \in 0..n |-> IF i = 0 THEN sub[kind] ELSE dictReplace(f[i - 1], topics[i], fn)]
             dict == CHOOSE f : f = eqn(f)
  <1>1. /\ n \in Nat /\ n >= 1 /\ DOMAIN topics = 1..n /\ ToSet(topics) = first(n)
        /\ \A i \in 1..n : topics[i] \in DictKeys
    BY DEF ToSet
  <1>2. kind \in Kinds /\ \A t \in first(n) : DictOf(t) = kind
    <2>1. topics[1] \in ToSet(topics)
      BY <1>1
    <2> QED
      BY <1>1, <2>1 DEF DictOf, Kinds
  <1>3. \A k : IsMap(Callbacks(k))
    BY FS_Subset DEF Callbacks, IsMap
  <1>4. sub[kind] \in Dicts /\ Keeps(sub[kind], map)
    BY <1>2 DEF DictInv, Keeps
  <1> HIDE DEF kind
  <1>5. sub[kind] \in B
    BY <1>3, <1>4
  <1>6. \A e \in B, k \in DictKeys : dictReplace(e, k, fn) \in B
    <2> SUFFICES ASSUME NEW e \in B, NEW k \in DictKeys PROVE dictReplace(e, k, fn) \in B
      OBVIOUS
    <2>1. PICK m : IsMap(m) /\ Keeps(e, m)
      OBVIOUS
    <2>2. Keeps(dictReplace(e, k, fn), Updated(m, {k}, fn))
      BY <2>1, ReplaceKeeps
    <2>3. IsMap(Updated(m, {k}, fn))
      BY <2>1, FS_Singleton, UpdatedIsMap
    <2> QED
      BY <2>2, <2>3 DEF Keeps
  <1>7. step \in [(1..n) \X B -> B]
    <2>1. \A p \in (1..n) \X B : dictReplace(p[2], topics[p[1]], fn) \in B
      <3> HIDE DEF B, n
      <3> QED
        BY <1>1, <1>6
    <2> HIDE DEF B
    <2> QED
      BY <2>1
  <1> HIDE DEF B
  <1>8. PICK g \in [0..n -> B] : Recursion(g, n, sub[kind], step)
    <2> HIDE DEF step, n
    <2> QED
      BY <1>1, <1>5, <1>7, RecursionWitness
  <1>9. \A i \in 1..n : g[i] = dictReplace(g[i - 1], topics[i], fn)
    <2> SUFFICES ASSUME NEW i \in 1..n PROVE g[i] = dictReplace(g[i - 1], topics[i], fn)
      OBVIOUS
    <2>1. i - 1 \in 0..n
      BY <1>1
    <2>2. g[i - 1] \in B
      BY <2>1
    <2> HIDE DEF step
    <2>3. g[i] = step[<<i, g[i - 1]>>] /\ <<i, g[i - 1]>> \in (1..n) \X B
      BY <1>8, <2>2 DEF Recursion
    <2> QED
      BY <2>2, <2>3 DEF step
  <1> HIDE DEF step
  <1>10. dict = eqn(dict)
    <2>1. \A i \in 0..n : g[i] = IF i = 0 THEN sub[kind] ELSE dictReplace(g[i - 1], topics[i], fn)
      BY <1>1, <1>8, <1>9 DEF Recursion
    <2>2. g = [i \in 0..n |-> g[i]]
      OBVIOUS
    <2>3. g = eqn(g)
      BY <2>1, <2>2
    <2> QED
      BY <2>3, Zenon
  <1>11. Subscribe(topics, fn) = [sub EXCEPT ![kind] = dict[n]]
    BY Zenon DEF Subscribe, kind
  <1> HIDE DEF dict
  <1>12. dict[0] = sub[kind] /\ \A i \in 1..n : dict[i] = dictReplace(dict[i - 1], topics[i], fn)
    BY <1>1, <1>10
  <1> HIDE DEF n, map
  <1>13. \A i \in 0..n : P[i] = {e \in Dicts : Keeps(e, Updated(map, first(i), fn))}
    OBVIOUS
  <1> HIDE DEF P
  <1>14. dict[0] \in P[0]
    <2>1. first(0) = {}
      OBVIOUS
    <2>2. Updated(map, first(0), fn) = map
      <3> HIDE DEF first
      <3>1. map = [k \in DOMAIN map |-> map[k]]
        BY DEF map, Callbacks
      <3> QED
        BY <2>1, <3>1 DEF Updated
    <2> HIDE DEF first
    <2> QED
      BY <1>1, <1>4, <1>12, <1>13, <2>2
  <1>15. \A i \in 0..n : IsMap(Updated(map, first(i), fn))
    <2> SUFFICES ASSUME NEW i \in 0..n PROVE IsMap(Updated(map, first(i), fn))
      OBVIOUS
    <2>1. first(i) \subseteq ToSet(topics) /\ first(i) \subseteq DictKeys
      BY <1>1 DEF ToSet
    <2>2. IsFiniteSet(first(i))
      <3> HIDE DEF first
      <3> QED
        BY <2>1, ToSetFinite, FS_Subset
    <2> HIDE DEF first
    <2> QED
      BY <1>3, <2>1, <2>2, UpdatedIsMap DEF map
  <1>16. ASSUME NEW i \in 1..n, dict[i - 1] \in P[i - 1] PROVE dict[i] \in P[i]
    <2> DEFINE old == Updated(map, first(i - 1), fn)
    <2>1. i - 1 \in 0..n /\ i \in 0..n
      BY <1>1
    <2>2. Keeps(dict[i - 1], old) /\ IsMap(old) /\ topics[i] \in DictKeys
      BY <1>1, <1>13, <1>15, <1>16, <2>1 DEF n
    <2>3. Keeps(dictReplace(dict[i - 1], topics[i], fn), Updated(old, {topics[i]}, fn))
      <3> HIDE DEF old
      <3> QED
        BY <2>2, ReplaceKeeps
    <2>4. Updated(old, {topics[i]}, fn) = Updated(map, first(i), fn)
      <3>1. first(i) = first(i - 1) \cup {topics[i]}
        <4>1. \A j \in 1..i : j \in 1..(i - 1) \/ j = i
          BY <2>1
        <4>2. i \in 1..i /\ \A j \in 1..(i - 1) : j \in 1..i
          BY <2>1
        <4> QED
          BY <4>1, <4>2
      <3> HIDE DEF first
      <3>2. DOMAIN old = DOMAIN map \cup first(i - 1)
        BY DEF Updated
      <3>3. \A k \in DOMAIN old : old[k] = IF k \in first(i - 1) THEN fn ELSE map[k]
        BY DEF Updated
      <3> HIDE DEF old
      <3> QED
        BY <3>1, <3>2, <3>3 DEF Updated
    <2> HIDE DEF old, first
    <2>5. Keeps(dict[i], Updated(map, first(i), fn))
      BY <1>12, <2>3, <2>4
    <2>6. dict[i] \in Dicts
      BY <2>5 DEF Keeps
    <2> QED
      BY <1>13, <2>1, <2>5, <2>6
  <1>17. dict[n] \in P[n]
    <2>1. \A i \in 1..n : dict[i - 1] \in P[i - 1] => dict[i] \in P[i]
      BY <1>16
    <2>2. n \in Nat
      BY <1>1
    <2>3. \A i \in 0..n : dict[i] \in P[i]
      BY <1>14, <2>1, <2>2, RecursionInvariant
    <2> QED
      BY <2>2, <2>3
  <1> HIDE DEF first
  <1>18. Keeps(dict[n], Updated(map, ToSet(topics), fn))
    <2>1. first(n) = ToSet(topics) /\ n \in 0..n
      BY <1>1
    <2> QED
      BY <1>13, <1>17, <2>1
  <1> DEFINE new == Updated(subscribed, ToSet(topics), fn)
             Of(k) == [t \in {u \in DOMAIN subscribed \cup ToSet(topics) : DictOf(u) = k} |-> new[t]]
  <1>19. \A t \in ToSet(topics) : DictOf(t) = kind
    BY <1>1, <1>2
  <1>20. Of(kind) = Updated(map, ToSet(topics), fn)
    BY <1>19 DEF Updated, map, Callbacks
  <1>21. ASSUME NEW k \in Kinds, k # kind PROVE Of(k) = Callbacks(k)
    BY <1>19, <1>21 DEF Updated, Callbacks
  <1>22. ASSUME NEW k \in Kinds PROVE Keeps(Subscribe(topics, fn)[k], Of(k))
    <2> HIDE DEF Of
    <2>1. CASE k = kind
      BY <1>11, <1>18, <1>20, <2>1
    <2>2. CASE k # kind
      <3>1. Keeps(sub[k], Callbacks(k))
        BY DEF DictInv
      <3> QED
        BY <1>11, <1>21, <2>2, <3>1
    <2> QED
      BY <2>1, <2>2
  <1>23. Subscribe(topics, fn) \in [Kinds -> Dicts]
    <2>1. dict[n] \in Dicts
      BY <1>18 DEF Keeps
    <2> QED
      BY <1>11, <2>1
  <1> QED
    BY <1>22, <1>23

-----------------------------------------------------------------------------
(***************************************************************************)
(* Types, and the dicts of the subscriptions.                              *)
(***************************************************************************)

Accept(cmd) == [name |-> cmd.name, topics |-> cmd.topics, place |-> Register(cmd),
                callback |-> cmd.callback]
NewFn(cmd) == IF cmd.callback THEN Len(commands) + 1 ELSE 0

\* The numbers of the commands, and what is kept about each.
LEMMA CommandsFacts ==
    ASSUME CommandsTyped
    PROVE  /\ DOMAIN commands = 1..Len(commands) /\ DOMAIN got = 1..Len(commands)
           /\ Len(commands) \in Nat /\ Numbers \ {0} = DOMAIN commands
           /\ \A n \in DOMAIN commands : commands[n] \in Accepted /\ got[n] \in Seq(Items \cup {NULL})
  <1>1. commands \in Seq(Accepted) /\ got \in Seq(Seq(Items \cup {NULL})) /\ Len(got) = Len(commands)
    BY DEF CommandsTyped
  <1>2. DOMAIN commands = 1..Len(commands) /\ DOMAIN got = 1..Len(commands) /\ Len(commands) \in Nat
    BY <1>1
  <1> QED
    BY <1>1, <1>2 DEF Numbers

\* A new command is the last one, and the others stay.
LEMMA CommandFacts ==
    ASSUME CommandsTyped, NEW cmd \in Commands, redisAsyncCommand(cmd)
    PROVE  /\ cmd.name \in Names /\ cmd.topics \in Seq(DictKeys) /\ cmd.callback \in BOOLEAN
           /\ ToSet(cmd.topics) \subseteq Patterns \/ ToSet(cmd.topics) \cap Patterns = {}
           /\ cmd.name \in {"SUBSCRIBE", "UNSUBSCRIBE"} => cmd.topics # <<>>
           /\ Accept(cmd) \in Accepted /\ NewFn(cmd) \in 0..(Len(commands) + 1)
           /\ commands' \in Seq(Accepted) /\ got' \in Seq(Seq(Items \cup {NULL}))
           /\ Len(commands') = Len(commands) + 1 /\ Len(got') = Len(commands) + 1
           /\ DOMAIN commands' = 1..(Len(commands) + 1)
           /\ \A n \in DOMAIN commands : commands'[n] = commands[n] /\ got'[n] = got[n]
           /\ commands'[Len(commands) + 1] = Accept(cmd) /\ got'[Len(commands) + 1] = <<>>
           /\ Register(cmd) = "SUBSCRIBE" <=> cmd.name = "SUBSCRIBE"
           /\ Register(cmd) = "UNSUBSCRIBE" <=> cmd.name = "UNSUBSCRIBE"
           /\ Register(cmd) = "invalid" <=> cmd.name = "GET" /\ "SUBSCRIBED" \in flags
  <1>1. /\ cmd \in [name : Names, topics : Seq(DictKeys), callback : BOOLEAN]
        /\ ToSet(cmd.topics) \subseteq Patterns \/ ToSet(cmd.topics) \subseteq DictKeys \ Patterns
        /\ cmd.name \in {"SUBSCRIBE", "UNSUBSCRIBE"} => cmd.topics # <<>>
    BY CommandsAssumption
  <1>2. cmd.name \in Names /\ cmd.topics \in Seq(DictKeys) /\ cmd.callback \in BOOLEAN
    BY <1>1
  <1>3. ToSet(cmd.topics) \subseteq Patterns \/ ToSet(cmd.topics) \cap Patterns = {}
    BY <1>1
  <1>4. /\ Register(cmd) \in Places
        /\ Register(cmd) = "SUBSCRIBE" <=> cmd.name = "SUBSCRIBE"
        /\ Register(cmd) = "UNSUBSCRIBE" <=> cmd.name = "UNSUBSCRIBE"
        /\ Register(cmd) = "invalid" <=> cmd.name = "GET" /\ "SUBSCRIBED" \in flags
    BY <1>2 DEF Register, Places, Names
  <1>5. Accept(cmd) \in Accepted
    BY <1>2, <1>4 DEF Accept, Accepted
  <1>6. commands' = Append(commands, Accept(cmd)) /\ got' = Append(got, <<>>)
    BY DEF redisAsyncCommand, Accept
  <1>7. commands \in Seq(Accepted) /\ got \in Seq(Seq(Items \cup {NULL})) /\ Len(got) = Len(commands)
        /\ <<>> \in Seq(Items \cup {NULL}) /\ DOMAIN commands = 1..Len(commands) /\ Len(commands) \in Nat
    BY DEF CommandsTyped
  <1>8. /\ commands' \in Seq(Accepted) /\ Len(commands') = Len(commands) + 1
        /\ \A n \in 1..Len(commands) : commands'[n] = commands[n]
        /\ commands'[Len(commands) + 1] = Accept(cmd)
    BY <1>5, <1>6, <1>7, QueueOperators
  <1>9. /\ got' \in Seq(Seq(Items \cup {NULL})) /\ Len(got') = Len(got) + 1
        /\ \A n \in 1..Len(got) : got'[n] = got[n]
        /\ got'[Len(got) + 1] = <<>>
    BY <1>6, <1>7, QueueOperators
  <1>10. DOMAIN commands' = 1..Len(commands')
    BY <1>8
  <1>11. NewFn(cmd) \in 0..(Len(commands) + 1)
    BY <1>2, <1>7 DEF NewFn
  <1> QED
    BY <1>1, <1>2, <1>3, <1>4, <1>5, <1>7, <1>8, <1>9, <1>10, <1>11

\* The topic of a reply, if it has one, is a key of the dicts.
LEMMA TopicIsKey ==
    ASSUME NEW r \in Items, r.topic # "none" PROVE r.topic \in DictKeys
  BY DEF Items

\* The callbacks of one kind, as a map.
LEMMA CallbacksFacts ==
    ASSUME IsMap(subscribed), NEW kind \in Kinds
    PROVE  IsMap(Callbacks(kind)) /\ DOMAIN Callbacks(kind) = {t \in DOMAIN subscribed : DictOf(t) = kind}
  BY FS_Subset DEF Callbacks, IsMap

\* The dicts always hold the callbacks of the topics subscribed to.
LEMMA DictStep ==
    ASSUME TypeInv, DictInv, [Next]_vars
    PROVE  DictInv' /\ sub' \in [Kinds -> Dicts]
  <1>1. sub \in [Kinds -> Dicts] /\ IsMap(subscribed)
    BY DEF TypeInv, ControlTyped, QueuesTyped, SubscribedTyped
  <1>2. CASE UNCHANGED <<sub, subscribed>>
    <2>1. \A kind \in Kinds : Callbacks(kind)' = Callbacks(kind)
      BY <1>2 DEF Callbacks
    <2> QED
      BY <1>1, <1>2, <2>1 DEF DictInv
  <1>3. CASE Freed
    <2>1. sub' = [d \in Kinds |-> dictCreate] /\ subscribed' = Empty
      BY <1>3 DEF Freed
    <2>2. \A kind \in Kinds : Callbacks(kind)' = Empty
      BY <2>1 DEF Callbacks, Empty
    <2>3. Keeps(dictCreate, Empty) /\ dictCreate \in Dicts
      BY CreateKeeps DEF Keeps
    <2> QED
      BY <2>1, <2>2, <2>3 DEF DictInv
  <1>4. ASSUME NEW cmd \in Commands, redisAsyncCommand(cmd) PROVE DictInv' /\ sub' \in [Kinds -> Dicts]
    <2>1. CASE Register(cmd) = "SUBSCRIBE"
      <3> DEFINE topics == cmd.topics
                 fn == NewFn(cmd)
      <3>1. CommandsTyped
        BY DEF TypeInv, ControlTyped, QueuesTyped
      <3>2. /\ topics \in Seq(DictKeys) /\ topics # <<>> /\ fn \in Nat
            /\ ToSet(topics) \subseteq Patterns \/ ToSet(topics) \cap Patterns = {}
        <4>1. Len(commands) \in Nat
          BY <3>1, CommandsFacts
        <4>2. /\ topics \in Seq(DictKeys) /\ topics # <<>> /\ fn \in 0..(Len(commands) + 1)
              /\ ToSet(topics) \subseteq Patterns \/ ToSet(topics) \cap Patterns = {}
          BY <1>4, <2>1, <3>1, CommandFacts
        <4> HIDE DEF topics, fn
        <4> QED
          BY <4>1, <4>2
      <3>3. /\ sub' = Subscribe(topics, fn)
            /\ subscribed' = Updated(subscribed, ToSet(topics), fn)
        BY <1>4, <2>1, Zenon DEF redisAsyncCommand, Updated, NewFn
      <3> HIDE DEF topics, fn
      <3>4. /\ sub' \in [Kinds -> Dicts]
            /\ \A kind \in Kinds :
                 Keeps(sub'[kind],
                       [t \in {u \in DOMAIN subscribed \cup ToSet(topics) : DictOf(u) = kind} |->
                           Updated(subscribed, ToSet(topics), fn)[t]])
        BY <1>1, <3>2, <3>3, SubscribeFacts
      <3>5. DOMAIN subscribed' = DOMAIN subscribed \cup ToSet(topics)
        BY <3>3 DEF Updated
      <3>6. \A kind \in Kinds :
              Callbacks(kind)' = [t \in {u \in DOMAIN subscribed \cup ToSet(topics) : DictOf(u) = kind} |->
                                     Updated(subscribed, ToSet(topics), fn)[t]]
        BY <3>3, <3>5 DEF Callbacks
      <3> QED
        BY <3>4, <3>6 DEF DictInv
    <2>2. CASE Register(cmd) # "SUBSCRIBE"
      BY <1>2, <1>4, <2>2 DEF redisAsyncCommand
    <2> QED
      BY <2>1, <2>2
  <1>5. CASE Announced
    <2> DEFINE r == Head(reader)
               kind == DictOf(r.topic)
               known == Has(sub[kind], r.topic)
    <2>1. r \in Items
      BY <1>5, QueueOperators DEF Announced, Delivered, TypeInv, ControlTyped, QueuesTyped
    <2>2. r.topic \in DictKeys /\ kind \in Kinds
      BY <1>5, <2>1, TopicIsKey DEF Announced, DictOf, Kinds
    <2>3. /\ sub' = IF known /\ r.type = "unsubscribe"
                    THEN [sub EXCEPT ![kind] = dictDelete(@, r.topic)] ELSE sub
          /\ subscribed' = IF r.type # "unsubscribe" THEN subscribed ELSE Without(subscribed, r.topic)
      BY <1>5, Zenon DEF Announced, Without
    <2> HIDE DEF r, kind
    <2>4. Keeps(sub[kind], Callbacks(kind)) /\ IsMap(Callbacks(kind))
      BY <1>1, <2>2, CallbacksFacts DEF DictInv
    <2>5. CASE r.type # "unsubscribe"
      BY <1>2, <2>3, <2>5
    <2>6. CASE r.type = "unsubscribe" /\ ~known
      <3>1. r.topic \notin DOMAIN Callbacks(kind)
        BY <2>2, <2>4, <2>6, KeepsHolds DEF Holds
      <3>2. r.topic \notin DOMAIN subscribed
        BY <1>1, <2>2, <3>1, CallbacksFacts DEF kind
      <3>3. Without(subscribed, r.topic) = [t \in DOMAIN subscribed |-> subscribed[t]]
        BY <3>2 DEF Without
      <3>4. \A k \in Kinds : Callbacks(k)' = Callbacks(k)
        BY <2>3, <2>6, <3>3 DEF Callbacks
      <3> QED
        BY <1>1, <2>3, <2>6, <3>4 DEF DictInv
    <2>7. CASE r.type = "unsubscribe" /\ known
      <3>1. Keeps(dictDelete(sub[kind], r.topic), Without(Callbacks(kind), r.topic))
        BY <2>2, <2>4, DeleteKeeps
      <3>2. subscribed' = Without(subscribed, r.topic) /\ sub' = [sub EXCEPT ![kind] = dictDelete(@, r.topic)]
        BY <2>3, <2>7
      <3>3. DOMAIN subscribed' = DOMAIN subscribed \ {r.topic}
            /\ \A t \in DOMAIN subscribed' : subscribed'[t] = subscribed[t]
        BY <3>2 DEF Without
      <3>4. ASSUME NEW k \in Kinds, k = kind PROVE Callbacks(k)' = Without(Callbacks(k), r.topic)
        <4>1. {u \in DOMAIN subscribed' : DictOf(u) = k}
                = {u \in DOMAIN subscribed : DictOf(u) = k} \ {r.topic}
          BY <3>3
        <4>2. \A t \in DOMAIN Callbacks(k) : Callbacks(k)[t] = subscribed[t]
          BY DEF Callbacks
        <4>3. DOMAIN Callbacks(k) = {u \in DOMAIN subscribed : DictOf(u) = k}
          BY DEF Callbacks
        <4>4. Without(Callbacks(k), r.topic)
                = [t \in {u \in DOMAIN subscribed' : DictOf(u) = k} |-> subscribed'[t]]
          BY <3>3, <4>1, <4>2, <4>3 DEF Without
        <4> QED
          BY <4>4 DEF Callbacks
      <3>5. ASSUME NEW k \in Kinds, k # kind PROVE Callbacks(k)' = Callbacks(k)
        <4>1. {u \in DOMAIN subscribed' : DictOf(u) = k} = {u \in DOMAIN subscribed : DictOf(u) = k}
          BY <3>3, <3>5 DEF kind
        <4> QED
          BY <3>3, <4>1 DEF Callbacks
      <3>6. dictDelete(sub[kind], r.topic) \in Dicts
        BY <3>1 DEF Keeps
      <3>7. sub' \in [Kinds -> Dicts]
        BY <1>1, <3>2, <3>6
      <3>8. ASSUME NEW k \in Kinds PROVE Keeps(sub'[k], Callbacks(k)')
        <4>1. CASE k = kind
          <5>1. sub'[kind] = dictDelete(sub[kind], r.topic)
            BY <1>1, <2>2, <3>2
          <5> QED
            BY <3>1, <3>4, <4>1, <5>1, Zenon
        <4>2. CASE k # kind
          <5>1. sub'[k] = sub[k] /\ Keeps(sub[k], Callbacks(k))
            BY <1>1, <3>2, <4>2 DEF DictInv
          <5> QED
            BY <3>5, <4>2, <5>1
        <4> QED
          BY <4>1, <4>2
      <3> QED
        BY <3>7, <3>8 DEF DictInv
    <2> QED
      BY <2>5, <2>6, <2>7
  <1>6. \/ Freed \/ Announced \/ (\E cmd \in Commands : redisAsyncCommand(cmd))
        \/ UNCHANGED <<sub, subscribed>>
    BY StepCases DEF Over, Aborted, Noted, Pushed, Received, Written, Answered, Guessed, Publish, Close,
                     contextVars, historyVars
  <1> QED
    BY <1>2, <1>3, <1>4, <1>5, <1>6

\* The commands that are executed are commands that were issued.
LEMMA WrittenFacts ==
    ASSUME TypeInv, NEW k \in 0..Len(obuf)
    PROVE  /\ SubSeq(obuf, 1, k) \in Seq(Numbers \ {0})
           /\ SubSeq(obuf, k + 1, Len(obuf)) \in Seq(Numbers \ {0})
           /\ Len(SubSeq(obuf, 1, k)) = k /\ \A i \in 1..k : SubSeq(obuf, 1, k)[i] = obuf[i]
           /\ Len(SubSeq(obuf, k + 1, Len(obuf))) = Len(obuf) - k
           /\ \A i \in 1..(Len(obuf) - k) : SubSeq(obuf, k + 1, Len(obuf))[i] = obuf[k + i]
           /\ k \in Nat /\ Len(obuf) \in Nat
           /\ Executed(SubSeq(obuf, 1, k)) \in Servers
  <1>1. obuf \in Seq(Numbers \ {0}) /\ Len(obuf) \in Nat
    BY DEF TypeInv, QueuesTyped
  <1>2. /\ SubSeq(obuf, 1, k) \in Seq(Numbers \ {0})
        /\ SubSeq(obuf, k + 1, Len(obuf)) \in Seq(Numbers \ {0})
        /\ Len(SubSeq(obuf, 1, k)) = k /\ \A i \in 1..k : SubSeq(obuf, 1, k)[i] = obuf[i]
        /\ Len(SubSeq(obuf, k + 1, Len(obuf))) = Len(obuf) - k
        /\ \A i \in 1..(Len(obuf) - k) : SubSeq(obuf, k + 1, Len(obuf))[i] = obuf[k + i]
    BY <1>1
  <1> DEFINE P == [i \in 0..k |-> Servers]
             list == SubSeq(obuf, 1, k)
  <1>3. \A i \in 0..k : P[i] = Servers
    OBVIOUS
  <1>4. Server \in Servers
    <2>1. inbox \in Seq(Items) /\ DOMAIN inbox = 1..Len(inbox)
      BY DEF TypeInv, QueuesTyped
    <2> QED
      BY <2>1 DEF TypeInv, QueuesTyped, ControlTyped, Servers, Server
  <1> HIDE DEF P
  <1>5. \A i \in 1..k : \A s \in Servers : s \in P[i - 1] => Execute(s, list[i]) \in P[i]
    <2> SUFFICES ASSUME NEW i \in 1..k, NEW s \in Servers PROVE Execute(s, list[i]) \in P[i]
      OBVIOUS
    <2>1. list[i] \in Numbers \ {0} /\ CommandsTyped
      BY <1>1, <1>2 DEF TypeInv
    <2>2. list[i] \in DOMAIN commands
      BY <2>1, CommandsFacts
    <2> HIDE DEF list
    <2>3. Execute(s, list[i]) \in Servers
      BY <2>1, <2>2, ExecuteFacts
    <2> QED
      BY <1>3, <2>3
  <1>6. Executed(list) \in Servers
    <2>1. list \in Seq(Numbers \ {0}) /\ Len(list) = k /\ Server \in P[0]
      BY <1>2, <1>3, <1>4
    <2> HIDE DEF list
    <2> QED
      BY <1>5, <2>1, ExecutedFacts
  <1> QED
    BY <1>1, <1>2, <1>6

\* Every step keeps the types of the flags and of the thread.
LEMMA ControlStep ==
    ASSUME TypeInv, [Next]_vars PROVE ControlTyped'
  <1>1. ControlTyped
    BY DEF TypeInv
  <1>2. CASE Over
    BY <1>1, <1>2 DEF Over, ControlTyped
  <1>3. CASE Freed
    BY <1>1, <1>3 DEF Freed, ControlTyped
  <1>4. CASE Aborted
    BY <1>1, <1>4 DEF Aborted, ControlTyped
  <1>5. CASE Noted
    BY <1>1, <1>5 DEF Noted, ControlTyped
  <1>6. CASE Pushed
    BY <1>1, <1>6 DEF Pushed, ControlTyped
  <1>7. CASE Received
    BY <1>1, <1>7 DEF Received, ControlTyped
  <1>8. CASE Written
    <2>1. PICK k \in 0..Len(obuf) :
            serverSubs' = Executed(SubSeq(obuf, 1, k)).subs
            /\ monitored' = Executed(SubSeq(obuf, 1, k)).monitored
      BY <1>8 DEF Written
    <2>2. Executed(SubSeq(obuf, 1, k)) \in Servers
      BY WrittenFacts
    <2>3. serverSubs' \subseteq DictKeys /\ IsFiniteSet(serverSubs') /\ monitored' \in BOOLEAN
      BY <2>1, <2>2 DEF Servers
    <2> QED
      BY <1>1, <1>8, <2>3 DEF Written, ControlTyped
  <1>9. CASE Answered
    BY <1>1, <1>9 DEF Answered, Delivered, ControlTyped
  <1>10. CASE Announced
    <2>1. unsubs' \subseteq unsubs
      BY <1>10 DEF Announced
    <2> QED
      BY <1>1, <1>10, <2>1 DEF Announced, Delivered, ControlTyped
  <1>11. CASE Guessed
    BY <1>1, <1>11 DEF Guessed, Delivered, ControlTyped
  <1>12. ASSUME NEW cmd \in Commands, redisAsyncCommand(cmd) PROVE ControlTyped'
    <2>1. CommandsTyped
      BY DEF TypeInv
    <2>2. ToSet(cmd.topics) \subseteq DictKeys
      BY <1>12, <2>1, CommandFacts, ToSetFinite
    <2>3. unsubs' \subseteq DictKeys
      BY <1>1, <1>12, <2>2 DEF redisAsyncCommand, ControlTyped
    <2>4. flags' \subseteq AllFlags
      BY <1>1, <1>12 DEF redisAsyncCommand, ControlTyped, AllFlags
    <2>5. ev' \subseteq {"read", "write"}
      BY <1>1, <1>12 DEF redisAsyncCommand, ControlTyped
    <2>6. risky' \in BOOLEAN
      BY <1>1, <1>12 DEF redisAsyncCommand, ControlTyped, RiskyCommand
    <2> QED
      BY <1>1, <1>12, <2>3, <2>4, <2>5, <2>6 DEF redisAsyncCommand, ControlTyped, serverVars
  <1>13. CASE Publish
    BY <1>1, <1>13 DEF Publish, ControlTyped, contextVars, historyVars
  <1>14. CASE Close
    <2>1. online' = FALSE /\ events' = events + 1
      BY <1>14 DEF Close
    <2>2. UNCHANGED <<contextVars, partial, pc, resume, cb, serverSubs, monitored, historyVars>>
      BY <1>14 DEF Close
    <2>3. online' \in BOOLEAN
      BY <2>1
    <2>4. events' \in Nat
      BY <1>1, <2>1 DEF ControlTyped
    <2> QED
      BY <1>1, <2>2, <2>3, <2>4 DEF ControlTyped, contextVars, historyVars
  <1> QED
    BY <1>2, <1>3, <1>4, <1>5, <1>6, <1>7, <1>8, <1>9, <1>10, <1>11, <1>12, <1>13, <1>14, StepCases

\* Each of the numbers in a list of replies is one of a command.
ToNumbers(s) == s \in Seq(Items) /\ \A i \in 1..Len(s) : s[i].to \in Numbers

\* Such a list stays one when it grows, when its head is taken and when a part is read.
LEMMA ToNumbersFacts ==
    ASSUME NEW s, ToNumbers(s)
    PROVE  /\ \A t : ToNumbers(t) => ToNumbers(s \o t)
           /\ \A m, n \in Nat : m >= 1 /\ n <= Len(s) => ToNumbers(SubSeq(s, m, n))
           /\ s # <<>> => ToNumbers(Tail(s)) /\ Head(s) \in Items /\ Head(s).to \in Numbers
           /\ \A x \in Items : x.to \in Numbers => ToNumbers(Append(s, x))
  <1>1. s \in Seq(Items) /\ Len(s) \in Nat /\ \A i \in 1..Len(s) : s[i].to \in Numbers
    BY DEF ToNumbers
  <1>2. ASSUME NEW t, ToNumbers(t) PROVE ToNumbers(s \o t)
    <2>1. t \in Seq(Items) /\ Len(t) \in Nat /\ \A i \in 1..Len(t) : t[i].to \in Numbers
      BY <1>2 DEF ToNumbers
    <2>2. /\ s \o t \in Seq(Items) /\ Len(s \o t) = Len(s) + Len(t)
          /\ \A i \in 1..Len(s) : (s \o t)[i] = s[i]
          /\ \A i \in 1..Len(t) : (s \o t)[Len(s) + i] = t[i]
      BY <1>1, <2>1, QueueOperators
    <2>3. \A i \in 1..Len(s \o t) : i \in 1..Len(s) \/ (i - Len(s) \in 1..Len(t) /\ Len(s) + (i - Len(s)) = i)
      BY <1>1, <2>1, <2>2
    <2>4. \A i \in 1..Len(s \o t) : (s \o t)[i].to \in Numbers
      BY <1>1, <2>1, <2>2, <2>3
    <2> QED
      BY <2>2, <2>4 DEF ToNumbers
  <1>3. ASSUME NEW m \in Nat, NEW n \in Nat, m >= 1, n <= Len(s) PROVE ToNumbers(SubSeq(s, m, n))
    <2>1. /\ SubSeq(s, m, n) \in Seq(Items)
          /\ Len(SubSeq(s, m, n)) = IF m <= n THEN n - m + 1 ELSE 0
          /\ \A i \in 1..Len(SubSeq(s, m, n)) : SubSeq(s, m, n)[i] = s[m + i - 1]
      BY <1>1, <1>3, QueueOperators
    <2>2. \A i \in 1..Len(SubSeq(s, m, n)) : m + i - 1 \in 1..Len(s)
      BY <1>1, <1>3, <2>1
    <2> QED
      BY <1>1, <2>1, <2>2 DEF ToNumbers
  <1>4. ASSUME s # <<>> PROVE ToNumbers(Tail(s)) /\ Head(s) \in Items /\ Head(s).to \in Numbers
    <2>1. /\ Head(s) = s[1] /\ Head(s) \in Items /\ Len(s) >= 1
          /\ Tail(s) \in Seq(Items) /\ Len(Tail(s)) = Len(s) - 1
          /\ \A i \in 1..Len(Tail(s)) : Tail(s)[i] = s[i + 1]
      BY <1>1, <1>4, QueueOperators
    <2>2. \A i \in 1..Len(Tail(s)) : i + 1 \in 1..Len(s)
      BY <1>1, <2>1
    <2> QED
      BY <1>1, <2>1, <2>2 DEF ToNumbers
  <1>5. ASSUME NEW x \in Items, x.to \in Numbers PROVE ToNumbers(Append(s, x))
    <2>1. /\ Append(s, x) \in Seq(Items) /\ Len(Append(s, x)) = Len(s) + 1
          /\ \A i \in 1..Len(s) : Append(s, x)[i] = s[i]
          /\ Append(s, x)[Len(s) + 1] = x
      BY <1>1, QueueOperators
    <2>2. \A i \in 1..Len(Append(s, x)) : i \in 1..Len(s) \/ i = Len(s) + 1
      BY <1>1, <2>1
    <2> QED
      BY <1>1, <1>5, <2>1, <2>2 DEF ToNumbers
  <1> QED
    BY <1>2, <1>3, <1>4, <1>5

\* The replies read, and those on their way, are such lists.
LEMMA ReaderTyped ==
    ASSUME TypeInv PROVE ToNumbers(reader) /\ ToNumbers(inbox)
  <1>1. reader \in Seq(Items) /\ inbox \in Seq(Items)
        /\ (\A i \in DOMAIN reader : reader[i].to \in Numbers) /\ (\A i \in DOMAIN inbox : inbox[i].to \in Numbers)
    BY DEF TypeInv, QueuesTyped
  <1>2. DOMAIN reader = 1..Len(reader) /\ DOMAIN inbox = 1..Len(inbox)
    BY <1>1
  <1> QED
    BY <1>1, <1>2 DEF ToNumbers

\* The error and the bytes that are no reply, and what the server says by itself.
LEMMA SpontaneousItems ==
    ASSUME TypeInv
    PROVE  /\ \A type \in {"error", "malformed", "line"} :
                 Reply(type, 0, "none", 0) \in Items /\ Reply(type, 0, "none", 0).to = 0
           /\ \A t \in DictKeys : Reply("message", 0, t, 0) \in Items /\ Reply("message", 0, t, 0).to = 0
           /\ 0 \in Numbers
  <1>1. Len(commands) \in Nat
    BY CommandsFacts DEF TypeInv
  <1> QED
    BY <1>1 DEF Reply, Items, TopicTypes, Numbers

\* Every step keeps the types of the lists of callbacks and replies.
LEMMA QueuesStep ==
    ASSUME TypeInv, DictInv, [Next]_vars PROVE QueuesTyped'
  <1>1. QueuesTyped /\ CommandsTyped /\ ToNumbers(reader) /\ ToNumbers(inbox)
        /\ obuf \in Seq(Numbers \ {0}) /\ replies \in Seq(Numbers) /\ invalid \in Seq(Numbers)
        /\ cb \in Numbers
    BY ReaderTyped DEF TypeInv, QueuesTyped
  <1>2. 0 \in Numbers /\ Len(commands) \in Nat
    BY <1>1, CommandsFacts DEF Numbers
  <1>3. ASSUME commands' = commands, obuf' \in Seq(Numbers \ {0}), ToNumbers(reader'), ToNumbers(inbox'),
               replies' \in Seq(Numbers), invalid' \in Seq(Numbers), cb' \in Numbers
        PROVE  QueuesTyped'
    <2>1. Numbers' = Numbers
      BY <1>3 DEF Numbers
    <2>2. reader' \in Seq(Items) /\ inbox' \in Seq(Items)
          /\ (\A i \in 1..Len(reader') : reader'[i].to \in Numbers)
          /\ (\A i \in 1..Len(inbox') : inbox'[i].to \in Numbers)
      BY <1>3 DEF ToNumbers
    <2>3. DOMAIN reader' = 1..Len(reader') /\ DOMAIN inbox' = 1..Len(inbox')
      BY <2>2
    <2> QED
      BY <1>3, <2>1, <2>2, <2>3 DEF QueuesTyped
  <1>4. <<>> \in Seq(Numbers \ {0}) /\ <<>> \in Seq(Numbers) /\ ToNumbers(<<>>)
    BY DEF ToNumbers
  <1>5. CASE UNCHANGED <<commands, obuf, reader, inbox, replies, invalid>> /\ cb' \in {0, cb}
    BY <1>1, <1>2, <1>3, <1>5
  <1>6. CASE Freed
    BY <1>1, <1>2, <1>3, <1>4, <1>6 DEF Freed
  <1>7. CASE Pushed
    <2>1. Append(replies, cb) \in Seq(Numbers)
      BY <1>1
    <2> QED
      BY <1>1, <1>2, <1>3, <1>7, <2>1 DEF Pushed
  <1>8. CASE Received
    <2>1. PICK k \in 0..Len(inbox) : /\ reader' = reader \o SubSeq(inbox, 1, k)
                                     /\ inbox' = SubSeq(inbox, k + 1, Len(inbox))
      BY <1>8 DEF Received
    <2>2. Len(inbox) \in Nat /\ k \in Nat /\ k + 1 \in Nat
      BY <1>1 DEF ToNumbers
    <2>3. ToNumbers(SubSeq(inbox, 1, k)) /\ ToNumbers(SubSeq(inbox, k + 1, Len(inbox)))
      BY <1>1, <2>2, ToNumbersFacts
    <2>4. ToNumbers(reader') /\ ToNumbers(inbox')
      BY <1>1, <2>1, <2>3, ToNumbersFacts
    <2> QED
      BY <1>1, <1>2, <1>3, <1>8, <2>4 DEF Received
  <1>9. CASE Written
    <2>1. PICK k \in 0..Len(obuf) : /\ inbox' = Executed(SubSeq(obuf, 1, k)).out
                                    /\ obuf' = SubSeq(obuf, k + 1, Len(obuf))
      BY <1>9 DEF Written
    <2>2. Executed(SubSeq(obuf, 1, k)) \in Servers /\ obuf' \in Seq(Numbers \ {0})
      BY <2>1, WrittenFacts
    <2>3. ToNumbers(inbox')
      BY <2>1, <2>2 DEF Servers, ToNumbers
    <2> QED
      BY <1>1, <1>3, <1>9, <2>2, <2>3 DEF Written
  <1>10. ASSUME NEW fn, Delivered(fn) PROVE ToNumbers(reader') /\ UNCHANGED <<commands, obuf, inbox>> /\ cb' = fn
    <2>1. reader # <<>> /\ reader' = Tail(reader) /\ cb' = fn /\ UNCHANGED <<commands, obuf, inbox>>
      BY <1>10 DEF Delivered
    <2> QED
      BY <1>1, <2>1, ToNumbersFacts
  <1>11. CASE Answered
    <2>1. Head(replies) \in Numbers /\ Tail(replies) \in Seq(Numbers)
      BY <1>1, <1>11 DEF Answered
    <2> QED
      BY <1>1, <1>3, <1>10, <1>11, <2>1 DEF Answered
  <1>12. CASE Announced
    <2> DEFINE r == Head(reader)
               dict == sub[DictOf(r.topic)]
               fn == IF Has(dict, r.topic) THEN dictFind(dict, r.topic) ELSE cb
    <2>1. Delivered(fn) /\ UNCHANGED <<invalid, replies>> /\ r.topic # "none" /\ reader # <<>>
      BY <1>12 DEF Announced, Delivered
    <2>2. r.topic \in DictKeys
      BY <1>1, <2>1, ToNumbersFacts, TopicIsKey
    <2>3. CASE Has(dict, r.topic)
      <3> DEFINE map == Callbacks(DictOf(r.topic))
      <3>1. IsMap(map) /\ Keeps(dict, map) /\ IsMap(subscribed)
        BY CallbacksFacts DEF DictInv, DictOf, Kinds, TypeInv, SubscribedTyped
      <3>2. r.topic \in DOMAIN map /\ dictFind(dict, r.topic) = map[r.topic]
        <4> HIDE DEF map, dict, r
        <4> QED
          BY <2>2, <2>3, <3>1, KeepsHolds
      <3>3. r.topic \in DOMAIN subscribed /\ dictFind(dict, r.topic) = subscribed[r.topic]
        BY <3>2 DEF Callbacks
      <3>4. subscribed[r.topic] \in Numbers
        <4>1. subscribed[r.topic] # 0 => subscribed[r.topic] \in DOMAIN commands
          BY <3>3 DEF TypeInv, SubscribedTyped
        <4> QED
          BY <1>1, <1>2, <4>1, CommandsFacts
      <3>5. fn \in Numbers
        BY <2>3, <3>3, <3>4
      <3> HIDE DEF fn
      <3> QED
        BY <1>1, <1>3, <1>10, <2>1, <3>5
    <2>4. CASE ~Has(dict, r.topic)
      <3>1. fn \in Numbers
        BY <1>1, <2>4
      <3> HIDE DEF fn
      <3> QED
        BY <1>1, <1>3, <1>10, <2>1, <3>1
    <2> QED
      BY <2>3, <2>4
  <1>13. CASE Guessed
    <2>1. invalid # <<>> => Head(invalid) \in Numbers /\ Tail(invalid) \in Seq(Numbers)
      BY <1>1
    <2>2. invalid' \in Seq(Numbers) /\ replies' = replies
      BY <1>1, <1>13, <2>1 DEF Guessed
    <2>3. PICK fn \in Numbers : Delivered(fn)
      BY <1>1, <1>13, <2>1 DEF Guessed
    <2> QED
      BY <1>1, <1>3, <1>10, <2>2, <2>3
  <1>14. ASSUME NEW cmd \in Commands, redisAsyncCommand(cmd) PROVE QueuesTyped'
    <2> DEFINE n == Len(commands) + 1
    <2>1. Numbers \subseteq Numbers' /\ Numbers \ {0} \subseteq Numbers' \ {0}
          /\ n \in Numbers' \ {0} /\ NewFn(cmd) \in Numbers' /\ 0 \in Numbers'
      <3>1. Len(commands') = Len(commands) + 1 /\ NewFn(cmd) \in 0..(Len(commands) + 1)
        BY <1>1, <1>14, CommandFacts
      <3> QED
        BY <1>2, <3>1 DEF Numbers
    <2>2. obuf \in Seq(Numbers' \ {0}) /\ replies \in Seq(Numbers') /\ invalid \in Seq(Numbers')
      BY <1>1, <2>1, SeqGrows
    <2>3. /\ obuf' = Append(obuf, n)
          /\ replies' \in {replies, Append(replies, NewFn(cmd))}
          /\ invalid' \in {invalid, Append(invalid, NewFn(cmd))}
          /\ UNCHANGED <<reader, inbox, cb>>
      BY <1>14 DEF redisAsyncCommand, NewFn, serverVars
    <2> HIDE DEF n
    <2>4. obuf' \in Seq(Numbers' \ {0}) /\ replies' \in Seq(Numbers') /\ invalid' \in Seq(Numbers')
      <3>1. Append(obuf, n) \in Seq(Numbers' \ {0}) /\ Append(replies, NewFn(cmd)) \in Seq(Numbers')
            /\ Append(invalid, NewFn(cmd)) \in Seq(Numbers')
        BY <2>1, <2>2, AppendProperties
      <3> QED
        BY <2>2, <2>3, <3>1
    <2>5. /\ reader' \in Seq(Items) /\ inbox' \in Seq(Items)
          /\ \A i \in DOMAIN reader' : reader'[i].to \in Numbers'
          /\ \A i \in DOMAIN inbox' : inbox'[i].to \in Numbers'
      BY <1>1, <2>1, <2>3 DEF QueuesTyped
    <2>6. cb' \in Numbers'
      BY <1>1, <2>1, <2>3
    <2> QED
      BY <2>4, <2>5, <2>6 DEF QueuesTyped
  <1>15. CASE Publish
    <2>1. PICK x \in Items : inbox' = Append(inbox, x) /\ x.to \in Numbers
      BY <1>15, SpontaneousItems DEF Publish, TypeInv, ControlTyped
    <2>2. ToNumbers(inbox')
      BY <1>1, <2>1, ToNumbersFacts
    <2> QED
      BY <1>1, <1>3, <1>15, <2>2 DEF Publish, contextVars, historyVars
  <1>16. CASE Close
    <2>1. PICK k \in 0..Len(inbox), last \in {<<>>, <<Reply("error", 0, "none", 0)>>,
                                              <<Reply("malformed", 0, "none", 0)>>} :
            inbox' = SubSeq(inbox, 1, k) \o last
      BY <1>16 DEF Close
    <2>2. ToNumbers(last)
      <3>1. \A x \in Items : x.to \in Numbers => ToNumbers(<<x>>)
        BY DEF ToNumbers
      <3> QED
        BY <1>4, <3>1, SpontaneousItems
    <2>3. ToNumbers(SubSeq(inbox, 1, k))
      <3>1. k \in Nat /\ k <= Len(inbox)
        BY <1>1 DEF ToNumbers
      <3> QED
        BY <1>1, <3>1, ToNumbersFacts
    <2>4. ToNumbers(inbox')
      BY <2>1, <2>2, <2>3, ToNumbersFacts
    <2> QED
      BY <1>1, <1>3, <1>16, <2>4 DEF Close, contextVars, historyVars
  <1>17. \/ UNCHANGED <<commands, obuf, reader, inbox, replies, invalid>> /\ cb' \in {0, cb}
         \/ Freed \/ Pushed \/ Received \/ Written \/ Answered \/ Announced \/ Guessed
         \/ (\E cmd \in Commands : redisAsyncCommand(cmd)) \/ Publish \/ Close
    BY StepCases DEF Over, Aborted, Noted
  <1> QED
    BY <1>5, <1>6, <1>7, <1>8, <1>9, <1>11, <1>12, <1>13, <1>14, <1>15, <1>16, <1>17

\* The callbacks that get NULL when the context is freed: those of the lists, and
\* the callbacks of subscriptions.
LEMMA PendingFacts ==
    ASSUME TypeInv, DictInv
    PROVE  LET p == Pending(replies)
               l == Len(replies)
               m == Len(invalid)
           IN  /\ p \in Seq(Nat) /\ l \in Nat /\ m \in Nat /\ Len(p) \in Nat /\ Len(p) >= l + m
               /\ \A i \in 1..l : p[i] = replies[i]
               /\ \A i \in 1..m : p[l + i] = invalid[i]
               /\ \A i \in 1..Len(p) : i > l + m => p[i] = 0 \/ (p[i] \in DOMAIN commands
                                                              /\ commands[p[i]].place = "SUBSCRIBE")
  <1> DEFINE Subscription(v) == v = 0 \/ (v \in DOMAIN commands /\ commands[v].place = "SUBSCRIBE")
             a == IteratedValues(sub["channels"])
             b == IteratedValues(sub["patterns"])
             q == replies \o invalid
  <1>1. ASSUME NEW kind \in Kinds
        PROVE  /\ IteratedValues(sub[kind]) \in Seq(Nat)
               /\ \A i \in 1..Len(IteratedValues(sub[kind])) : Subscription(IteratedValues(sub[kind])[i])
    <2> DEFINE s == IteratedValues(sub[kind])
               map == Callbacks(kind)
    <2>1. Keeps(sub[kind], map) /\ SubscribedTyped
      BY DEF DictInv, TypeInv
    <2>2. s \in Seq(Nat) /\ \A i \in DOMAIN s : \E key \in DOMAIN map : s[i] = map[key]
      <3> HIDE DEF map
      <3> QED
        BY <2>1, IteratedFacts
    <2>3. DOMAIN s = 1..Len(s)
      BY <2>2
    <2>4. \A key \in DOMAIN map : Subscription(map[key])
      BY <2>1 DEF SubscribedTyped, Callbacks
    <2> HIDE DEF s, map, Subscription
    <2>5. \A i \in 1..Len(s) : Subscription(s[i])
      BY <2>2, <2>3, <2>4
    <2> QED
      BY <2>2, <2>5 DEF s
  <1>2. a \in Seq(Nat) /\ b \in Seq(Nat)
        /\ (\A i \in 1..Len(a) : Subscription(a[i])) /\ (\A i \in 1..Len(b) : Subscription(b[i]))
    <2> HIDE DEF Subscription
    <2> QED
      BY <1>1 DEF Kinds
  <1>3. replies \in Seq(Nat) /\ invalid \in Seq(Nat)
    <2>1. Numbers \subseteq Nat
      BY CommandsFacts DEF TypeInv, Numbers
    <2> QED
      BY <2>1, SeqGrows DEF TypeInv, QueuesTyped
  <1>4. Pending(replies) = (q \o a) \o b
    BY DEF Pending
  <1> HIDE DEF a, b, Subscription
  <1>5. /\ q \in Seq(Nat) /\ Len(q) = Len(replies) + Len(invalid)
        /\ \A i \in 1..Len(replies) : q[i] = replies[i]
        /\ \A i \in 1..Len(invalid) : q[Len(replies) + i] = invalid[i]
        /\ Len(replies) \in Nat /\ Len(invalid) \in Nat /\ Len(a) \in Nat /\ Len(b) \in Nat
    BY <1>2, <1>3, QueueOperators
  <1> HIDE DEF q
  <1>6. /\ q \o a \in Seq(Nat) /\ Len(q \o a) = Len(q) + Len(a)
        /\ \A i \in 1..Len(q) : (q \o a)[i] = q[i]
        /\ \A i \in 1..Len(a) : (q \o a)[Len(q) + i] = a[i]
    <2>1. q \in Seq(Nat) /\ a \in Seq(Nat)
      BY <1>2, <1>5
    <2>2. /\ q \o a \in Seq(Nat) /\ Len(q \o a) = Len(q) + Len(a)
          /\ \A i \in 1..Len(q) : (q \o a)[i] = q[i]
          /\ \A i \in 1..Len(a) : (q \o a)[Len(q) + i] = a[i]
      BY <2>1, QueueOperators
    <2> QED
      BY <2>2
  <1>7. /\ (q \o a) \o b \in Seq(Nat) /\ Len((q \o a) \o b) = Len(q \o a) + Len(b)
        /\ \A i \in 1..Len(q \o a) : ((q \o a) \o b)[i] = (q \o a)[i]
        /\ \A i \in 1..Len(b) : ((q \o a) \o b)[Len(q \o a) + i] = b[i]
    BY <1>2, <1>6, QueueOperators
  <1> DEFINE p == Pending(replies)
  <1>8. /\ p \in Seq(Nat) /\ Len(p) = Len(q) + Len(a) + Len(b)
        /\ \A i \in 1..Len(q) : p[i] = q[i]
        /\ \A i \in 1..Len(a) : p[Len(q) + i] = a[i]
        /\ \A i \in 1..Len(b) : p[Len(q) + Len(a) + i] = b[i]
    <2>1. \A i \in 1..Len(q) : i \in 1..Len(q \o a)
      BY <1>5, <1>6
    <2>2. \A i \in 1..Len(a) : Len(q) + i \in 1..Len(q \o a)
      BY <1>5, <1>6
    <2> QED
      BY <1>4, <1>5, <1>6, <1>7, <2>1, <2>2
  <1> HIDE DEF p
  <1>9. ASSUME NEW i \in 1..Len(p), i > Len(replies) + Len(invalid) PROVE Subscription(p[i])
    <2>1. CASE i <= Len(q) + Len(a)
      <3>1. i - Len(q) \in 1..Len(a) /\ Len(q) + (i - Len(q)) = i
        BY <1>5, <1>8, <1>9, <2>1
      <3>2. p[i] = a[i - Len(q)]
        BY <1>8, <3>1
      <3> QED
        BY <1>2, <3>1, <3>2
    <2>2. CASE i > Len(q) + Len(a)
      <3>1. i - (Len(q) + Len(a)) \in 1..Len(b) /\ Len(q) + Len(a) + (i - (Len(q) + Len(a))) = i
        BY <1>5, <1>8, <1>9, <2>2
      <3>2. p[i] = b[i - (Len(q) + Len(a))]
        BY <1>8, <3>1
      <3> QED
        BY <1>2, <3>1, <3>2
    <2>3. i <= Len(q) + Len(a) \/ i > Len(q) + Len(a)
      BY <1>5, <1>8
    <2> QED
      BY <2>1, <2>2, <2>3
  <1>10. /\ p \in Seq(Nat) /\ Len(p) \in Nat /\ Len(p) >= Len(replies) + Len(invalid)
         /\ \A i \in 1..Len(replies) : p[i] = replies[i]
         /\ \A i \in 1..Len(invalid) : p[Len(replies) + i] = invalid[i]
    <2>1. \A i \in 1..Len(replies) : i \in 1..Len(q)
      BY <1>5
    <2>2. \A i \in 1..Len(invalid) : Len(replies) + i \in 1..Len(q)
      BY <1>5
    <2>3. p \in Seq(Nat) /\ Len(p) \in Nat /\ Len(p) >= Len(replies) + Len(invalid)
      BY <1>5, <1>8
    <2>4. \A i \in 1..Len(replies) : p[i] = replies[i]
      BY <1>5, <1>8, <2>1
    <2>5. \A i \in 1..Len(invalid) : p[Len(replies) + i] = invalid[i]
      BY <1>5, <1>8, <2>2
    <2> QED
      BY <2>3, <2>4, <2>5
  <1> QED
    BY <1>5, <1>9, <1>10 DEF p, Subscription

\* The list with one callback.
LEMMA SingleFacts ==
    ASSUME NEW fn \in Nat
    PROVE  <<fn>> \in Seq(Nat) /\ Len(<<fn>>) = 1 /\ <<fn>>[1] = fn /\ ToSet(<<fn>>) = {fn}
  <1>1. <<fn>> \in Seq(Nat) /\ Len(<<fn>>) = 1 /\ <<fn>>[1] = fn /\ DOMAIN <<fn>> = {1}
    OBVIOUS
  <1> QED
    BY <1>1 DEF ToSet

\* A delivery appends the reply to what one callback got.
LEMMA DeliveredFacts ==
    ASSUME TypeInv, NEW fn \in Nat, Delivered(fn)
    PROVE  /\ got' \in Seq(Seq(Items \cup {NULL})) /\ Len(got') = Len(got)
           /\ Head(reader) \in Items /\ ToNumbers(reader) /\ reader # <<>>
           /\ \A n \in DOMAIN got : got'[n] = IF n = fn THEN Append(got[n], Head(reader)) ELSE got[n]
  <1>1. reader # <<>> /\ got' = Run(<<fn>>, Head(reader)) /\ ToNumbers(reader)
    BY ReaderTyped DEF Delivered
  <1>2. Head(reader) \in Items /\ Head(reader) \in Items \cup {NULL}
    BY <1>1, ToNumbersFacts
  <1>3. got \in Seq(Seq(Items \cup {NULL})) /\ <<fn>> \in Seq(Nat)
        /\ Len(<<fn>>) = 1 /\ <<fn>>[1] = fn /\ ToSet(<<fn>>) = {fn}
    BY SingleFacts DEF TypeInv, CommandsTyped
  <1> DEFINE list == <<fn>>
             r == Head(reader)
  <1> HIDE DEF list, r
  <1>4. /\ Run(list, r) \in Seq(Seq(Items \cup {NULL})) /\ Len(Run(list, r)) = Len(got)
        /\ \A n \in DOMAIN got :
              /\ n \notin ToSet(list) => Run(list, r)[n] = got[n]
              /\ \A i \in 1..Len(list) :
                    list[i] = n /\ (\A j \in 1..Len(list) : list[j] = n => j = i)
                       => Run(list, r)[n] = Append(got[n], r)
    <2>1. r \in Items \cup {NULL} /\ list \in Seq(Nat)
      BY <1>2, <1>3 DEF r, list
    <2> QED
      BY <1>3, <2>1, RunFacts
  <1>5. \A i \in 1..Len(list) : i = 1
    BY <1>3 DEF list
  <1>6. Len(list) = 1 /\ list[1] = fn /\ ToSet(list) = {fn} /\ 1 \in 1..Len(list)
    BY <1>3 DEF list
  <1>7. \A n \in DOMAIN got : Run(list, r)[n] = IF n = fn THEN Append(got[n], r) ELSE got[n]
    BY <1>4, <1>5, <1>6
  <1> QED
    BY <1>1, <1>2, <1>4, <1>7 DEF list, r

\* The callback of a topic is one of a subscription to it, or none.
LEMMA AnnouncedFacts ==
    ASSUME TypeInv, DictInv, Announced
    PROVE  /\ Head(reader).topic \in DictKeys
           /\ Has(sub[DictOf(Head(reader).topic)], Head(reader).topic)
                 <=> Head(reader).topic \in DOMAIN subscribed
           /\ Head(reader).topic \in DOMAIN subscribed => Delivered(subscribed[Head(reader).topic])
           /\ Head(reader).topic \notin DOMAIN subscribed => Delivered(cb)
  <1> DEFINE r == Head(reader)
             dict == sub[DictOf(r.topic)]
             map == Callbacks(DictOf(r.topic))
             fn == IF Has(dict, r.topic) THEN dictFind(dict, r.topic) ELSE cb
  <1>1. Delivered(fn) /\ r.topic # "none" /\ reader # <<>> /\ ToNumbers(reader)
    BY ReaderTyped DEF Announced, Delivered
  <1>2. r.topic \in DictKeys
    BY <1>1, ToNumbersFacts, TopicIsKey
  <1>3. IsMap(map) /\ Keeps(dict, map) /\ IsMap(subscribed)
    BY CallbacksFacts DEF DictInv, DictOf, Kinds, TypeInv, SubscribedTyped
  <1>4. /\ Has(dict, r.topic) <=> r.topic \in DOMAIN map
        /\ Has(dict, r.topic) => dictFind(dict, r.topic) = map[r.topic]
    <2> HIDE DEF map, dict, r
    <2> QED
      BY <1>2, <1>3, KeepsHolds DEF Holds
  <1>5. /\ r.topic \in DOMAIN map <=> r.topic \in DOMAIN subscribed
        /\ r.topic \in DOMAIN map => map[r.topic] = subscribed[r.topic]
    BY DEF Callbacks
  <1> QED
    BY <1>1, <1>2, <1>4, <1>5

\* The callback of a topic that is subscribed to, as a number.
LEMMA SubscribedFacts ==
    ASSUME TypeInv, NEW t \in DOMAIN subscribed PROVE subscribed[t] \in Nat /\ cb \in Nat
  <1>1. cb \in Nat
    BY CommandsFacts DEF TypeInv, QueuesTyped, Numbers
  <1> QED
    BY <1>1 DEF TypeInv, SubscribedTyped, IsMap

\* Every step but a command keeps the commands, and got only grows.
LEMMA GotStep ==
    ASSUME TypeInv, DictInv, [Next]_vars, ~\E cmd \in Commands : redisAsyncCommand(cmd)
    PROVE  commands' = commands /\ got' \in Seq(Seq(Items \cup {NULL})) /\ Len(got') = Len(got)
  <1>1. got \in Seq(Seq(Items \cup {NULL}))
    BY DEF TypeInv, CommandsTyped
  <1>2. CASE UNCHANGED <<commands, got>>
    BY <1>1, <1>2
  <1>3. CASE Freed
    <2>1. commands' = commands /\ got' = Run(Pending(replies), NULL) /\ Pending(replies) \in Seq(Nat)
      BY <1>3, PendingFacts DEF Freed
    <2> QED
      BY <1>1, <2>1, RunFacts
  <1>4. ASSUME NEW fn \in Nat, Delivered(fn)
        PROVE  commands' = commands /\ got' \in Seq(Seq(Items \cup {NULL})) /\ Len(got') = Len(got)
    BY <1>4, DeliveredFacts DEF Delivered
  <1>5. Numbers \subseteq Nat /\ replies \in Seq(Numbers) /\ invalid \in Seq(Numbers) /\ cb \in Numbers
    BY CommandsFacts DEF TypeInv, QueuesTyped, Numbers
  <1>6. CASE Answered
    <2>1. Head(replies) \in Nat /\ Delivered(Head(replies))
      <3>1. replies # <<>> /\ Delivered(Head(replies))
        BY <1>6 DEF Answered
      <3>2. Head(replies) \in Numbers
        BY <1>5, <3>1, QueueOperators
      <3> QED
        BY <1>5, <3>1, <3>2
    <2> QED
      BY <1>4, <2>1
  <1>7. CASE Announced
    <2>1. \E fn \in Nat : Delivered(fn)
      BY <1>5, <1>7, AnnouncedFacts, SubscribedFacts
    <2> QED
      BY <1>4, <2>1
  <1>8. CASE Guessed
    <2>1. invalid # <<>> => Head(invalid) \in Nat
      <3>1. invalid # <<>> => Head(invalid) \in Numbers
        BY <1>5, QueueOperators
      <3> QED
        BY <1>5, <3>1
    <2>2. PICK fn \in Nat : Delivered(fn)
      BY <1>5, <1>8, <2>1 DEF Guessed
    <2> QED
      BY <1>4, <2>2
  <1>9. Freed \/ Answered \/ Announced \/ Guessed \/ UNCHANGED <<commands, got>>
    BY StepCases DEF Over, Aborted, Noted, Pushed, Received, Written, Publish, Close, historyVars
  <1> QED
    BY <1>2, <1>3, <1>6, <1>7, <1>8, <1>9

\* Every step keeps the types of the commands and of what their callbacks got.
LEMMA CommandsStep ==
    ASSUME TypeInv, DictInv, [Next]_vars PROVE CommandsTyped'
  <1>1. CommandsTyped
    BY DEF TypeInv
  <1>2. CASE ~\E cmd \in Commands : redisAsyncCommand(cmd)
    <2>1. commands' = commands /\ got' \in Seq(Seq(Items \cup {NULL})) /\ Len(got') = Len(got)
      BY <1>2, GotStep
    <2> QED
      BY <1>1, <2>1 DEF CommandsTyped
  <1>3. ASSUME NEW cmd \in Commands, redisAsyncCommand(cmd) PROVE CommandsTyped'
    <2> DEFINE Right(c) == /\ c.place \in {"SUBSCRIBE", "UNSUBSCRIBE"} <=> c.name \in {"SUBSCRIBE", "UNSUBSCRIBE"}
                           /\ c.place \in {"SUBSCRIBE", "UNSUBSCRIBE"} => c.place = c.name /\ c.topics # <<>>
                           /\ c.name = "MONITOR" => c.place = "replies"
    <2>1. Right(Accept(cmd))
      <3>1. /\ Register(cmd) = "SUBSCRIBE" <=> cmd.name = "SUBSCRIBE"
            /\ Register(cmd) = "UNSUBSCRIBE" <=> cmd.name = "UNSUBSCRIBE"
            /\ cmd.name \in {"SUBSCRIBE", "UNSUBSCRIBE"} => cmd.topics # <<>>
        BY <1>1, <1>3, CommandFacts
      <3>2. cmd.name = "MONITOR" => Register(cmd) = "replies"
        BY DEF Register
      <3> QED
        BY <3>1, <3>2 DEF Accept
    <2>2. \A n \in DOMAIN commands : Right(commands[n])
      BY <1>1 DEF CommandsTyped
    <2> HIDE DEF Right
    <2>3. /\ commands' \in Seq(Accepted) /\ got' \in Seq(Seq(Items \cup {NULL})) /\ Len(got') = Len(commands')
          /\ DOMAIN commands' = 1..(Len(commands) + 1)
          /\ \A n \in DOMAIN commands : commands'[n] = commands[n]
          /\ commands'[Len(commands) + 1] = Accept(cmd)
      BY <1>1, <1>3, CommandFacts
    <2>4. DOMAIN commands = 1..Len(commands) /\ Len(commands) \in Nat
      BY <1>1, CommandsFacts
    <2>5. \A n \in DOMAIN commands' : n \in DOMAIN commands \/ n = Len(commands) + 1
      BY <2>3, <2>4
    <2>6. \A n \in DOMAIN commands' : Right(commands'[n])
      BY <2>1, <2>2, <2>3, <2>5
    <2> QED
      BY <2>3, <2>6 DEF CommandsTyped, Right
  <1> QED
    BY <1>2, <1>3

\* Every step keeps the types of the topics subscribed to.
LEMMA SubscribedStep ==
    ASSUME TypeInv, [Next]_vars PROVE SubscribedTyped'
  <1>1. SubscribedTyped /\ CommandsTyped
    BY DEF TypeInv
  <1>2. CASE UNCHANGED <<commands, subscribed>>
    BY <1>1, <1>2 DEF SubscribedTyped
  <1>3. CASE Freed
    <2>1. subscribed' = Empty /\ DOMAIN Empty = {}
      BY <1>3 DEF Freed, Empty
    <2> QED
      BY <2>1, CreateKeeps DEF SubscribedTyped
  <1>4. CASE Announced
    <2> DEFINE t == Head(reader).topic
    <2>1. commands' = commands /\ subscribed' \in {subscribed, Without(subscribed, t)}
      BY <1>4, Zenon DEF Announced, Delivered, Without
    <2> HIDE DEF t
    <2>2. CASE subscribed' = Without(subscribed, t)
      <3>1. DOMAIN subscribed' \subseteq DOMAIN subscribed
            /\ \A u \in DOMAIN subscribed' : subscribed'[u] = subscribed[u]
        BY <2>2 DEF Without
      <3>2. IsMap(subscribed')
        BY <1>1, <3>1, FS_Subset DEF SubscribedTyped, IsMap
      <3> QED
        BY <1>1, <2>1, <3>1, <3>2 DEF SubscribedTyped
    <2> QED
      BY <1>2, <2>1, <2>2
  <1>5. ASSUME NEW cmd \in Commands, redisAsyncCommand(cmd) PROVE SubscribedTyped'
    <2> DEFINE n == Len(commands) + 1
               topics == ToSet(cmd.topics)
               fn == NewFn(cmd)
    <2>1. /\ commands'[n] = Accept(cmd) /\ \A m \in DOMAIN commands : commands'[m] = commands[m]
          /\ DOMAIN commands = 1..Len(commands) /\ Len(commands) \in Nat
          /\ DOMAIN commands' = 1..(Len(commands) + 1) /\ cmd.topics \in Seq(DictKeys)
      BY <1>1, <1>5, CommandFacts, CommandsFacts
    <2>2. topics \subseteq DictKeys /\ IsFiniteSet(topics)
      BY <2>1, ToSetFinite
    <2>3. fn \in {0, n} /\ fn \in Nat
      BY <2>1 DEF NewFn
    <2>4. CASE Register(cmd) = "SUBSCRIBE"
      <3>1. subscribed' = Updated(subscribed, topics, fn)
        BY <1>5, <2>4, Zenon DEF redisAsyncCommand, Updated, NewFn
      <3>2. Accept(cmd).place = "SUBSCRIBE" /\ ToSet(Accept(cmd).topics) = topics
        BY <2>4 DEF Accept
      <3> HIDE DEF topics, fn
      <3>3. IsMap(subscribed')
        BY <1>1, <2>2, <2>3, <3>1, UpdatedIsMap DEF SubscribedTyped
      <3>4. ASSUME NEW t \in DOMAIN subscribed', subscribed'[t] # 0
            PROVE  /\ subscribed'[t] \in DOMAIN commands'
                   /\ commands'[subscribed'[t]].place = "SUBSCRIBE"
                   /\ t \in ToSet(commands'[subscribed'[t]].topics)
        <4>1. CASE t \in topics
          <5>1. subscribed'[t] = n
            BY <2>3, <3>1, <3>4, <4>1 DEF Updated
          <5>2. n \in DOMAIN commands'
            BY <2>1
          <5> QED
            BY <2>1, <3>2, <4>1, <5>1, <5>2
        <4>2. CASE t \notin topics
          <5>1. t \in DOMAIN subscribed /\ subscribed'[t] = subscribed[t]
            BY <3>1, <4>2 DEF Updated
          <5>2. /\ subscribed[t] \in DOMAIN commands
                /\ commands[subscribed[t]].place = "SUBSCRIBE"
                /\ t \in ToSet(commands[subscribed[t]].topics)
            BY <1>1, <3>4, <5>1 DEF SubscribedTyped
          <5>3. subscribed[t] \in DOMAIN commands'
            BY <2>1, <5>2
          <5> QED
            BY <2>1, <5>1, <5>2, <5>3
        <4> QED
          BY <4>1, <4>2
      <3> QED
        BY <3>3, <3>4 DEF SubscribedTyped
    <2>5. CASE Register(cmd) # "SUBSCRIBE"
      <3>1. subscribed' = subscribed
        BY <1>5, <2>5 DEF redisAsyncCommand
      <3>2. DOMAIN commands \subseteq DOMAIN commands'
        BY <2>1
      <3> QED
        BY <1>1, <2>1, <3>1, <3>2 DEF SubscribedTyped
    <2> QED
      BY <2>4, <2>5
  <1>6. \/ Freed \/ Announced \/ (\E cmd \in Commands : redisAsyncCommand(cmd))
        \/ UNCHANGED <<commands, subscribed>>
    BY StepCases DEF Over, Aborted, Noted, Pushed, Received, Written, Answered, Guessed, Publish, Close,
                     Delivered, contextVars, historyVars
  <1> QED
    BY <1>2, <1>3, <1>4, <1>5, <1>6

\* The types and the dicts, by every step and at first.
LEMMA TypeStep ==
    ASSUME TypeInv, DictInv, [Next]_vars PROVE TypeInv' /\ DictInv'
  BY ControlStep, QueuesStep, CommandsStep, SubscribedStep, DictStep DEF TypeInv

LEMMA TypeInit == Init => TypeInv /\ DictInv
  <1> SUFFICES ASSUME Init PROVE TypeInv /\ DictInv
    OBVIOUS
  <1>1. ControlTyped
    BY FS_EmptySet DEF Init, ControlTyped
  <1>2. QueuesTyped
    BY DEF Init, QueuesTyped, Numbers
  <1>3. CommandsTyped
    BY DEF Init, CommandsTyped
  <1>4. Keeps(dictCreate, Empty) /\ IsMap(Empty) /\ DOMAIN Empty = {} /\ dictCreate \in Dicts
    BY CreateKeeps DEF Keeps, Empty
  <1>5. SubscribedTyped
    BY <1>4 DEF Init, SubscribedTyped
  <1>6. sub \in [Kinds -> Dicts]
    BY <1>4 DEF Init
  <1>7. DictInv
    <2>1. \A kind \in Kinds : Callbacks(kind) = Empty
      BY DEF Init, Callbacks, Empty
    <2>2. \A kind \in Kinds : sub[kind] = dictCreate
      BY DEF Init
    <2> QED
      BY <1>4, <2>1, <2>2 DEF DictInv
  <1> QED
    BY <1>1, <1>2, <1>3, <1>5, <1>6, <1>7 DEF TypeInv

\* The state of the asynchronous connection keeps its types.
THEOREM TypesKept == Spec => []TypeInv
  <1>1. TypeInv /\ DictInv /\ [Next]_vars => TypeInv' /\ DictInv'
    BY TypeStep
  <1> QED
    BY <1>1, TypeInit, PTL DEF Spec

\* The two dicts hold the callbacks of the topics subscribed to in every state of
\* every run: whatever the hashes, the sizes the tables grow to and the order of
\* subscriptions and unsubscriptions.
THEOREM SubscriptionsKept == Spec => []DictsAgree
  <1>1. TypeInv /\ DictInv /\ [Next]_vars => TypeInv' /\ DictInv'
    BY TypeStep
  <1>2. TypeInv /\ DictInv => DictsAgree
    <2> SUFFICES ASSUME TypeInv, DictInv, NEW d \in Kinds
                 PROVE  Holds(sub[d], [t \in {u \in DOMAIN subscribed : DictOf(u) = d} |-> subscribed[t]])
      BY DEF DictsAgree
    <2>1. IsMap(Callbacks(d)) /\ Keeps(sub[d], Callbacks(d))
      BY CallbacksFacts DEF TypeInv, SubscribedTyped, DictInv
    <2>2. Holds(sub[d], Callbacks(d))
      BY <2>1, KeepsHolds
    <2> QED
      BY <2>2 DEF Callbacks
  <1> QED
    BY <1>1, <1>2, TypeInit, PTL DEF Spec

-----------------------------------------------------------------------------
(***************************************************************************)
(* A disconnection that succeeds has answered the regular commands.        *)
(***************************************************************************)

\* The step of a running context, or what is left of one.
LEMMA RunningStep ==
    ASSUME TypeInv, [Next]_vars
    PROVE  \/ Over \/ Aborted
           \/ /\ process = "running" /\ process' = "freed" /\ Freed
           \/ /\ process = "running" /\ process' = "running"
              /\ \/ Noted \/ Pushed \/ Received \/ Written \/ Answered \/ Announced \/ Guessed
                 \/ (\E cmd \in Commands : redisAsyncCommand(cmd)) \/ Publish \/ Close
  BY StepCases DEF Freed, Noted, Pushed, Received, Written, Answered, Announced, Guessed, Delivered,
                   redisAsyncCommand, UserTurn, Publish, Close, contextVars

\* Who delivers a reply.
LEMMA DeliveryCases ==
    ASSUME TypeInv, DictInv, Answered \/ Announced \/ Guessed
    PROVE  \E fn \in Nat : Delivered(fn)
  <1>1. Numbers \subseteq Nat /\ replies \in Seq(Numbers) /\ invalid \in Seq(Numbers) /\ cb \in Numbers
    BY CommandsFacts DEF TypeInv, QueuesTyped, Numbers
  <1>2. CASE Answered
    <2>1. replies # <<>> /\ Delivered(Head(replies))
      BY <1>2 DEF Answered
    <2>2. Head(replies) \in Numbers
      BY <1>1, <2>1, QueueOperators
    <2> QED
      BY <1>1, <2>1, <2>2
  <1>3. CASE Announced
    BY <1>3, AnnouncedFacts, SubscribedFacts, <1>1
  <1>4. CASE Guessed
    <2>1. invalid # <<>> => Head(invalid) \in Numbers
      BY <1>1, QueueOperators
    <2> QED
      BY <1>1, <1>4, <2>1 DEF Guessed
  <1> QED
    BY <1>2, <1>3, <1>4

\* Only callbacks that are run change what was got, and only a command adds one.
LEMMA GotGrows ==
    ASSUME TypeInv, DictInv, GotInv, [Next]_vars, process = "running", process' = "running"
    PROVE  /\ \A n \in DOMAIN got : got[n] \in Seq(Items) /\ got'[n] \in Seq(Items)
           /\ \A n \in DOMAIN got : Len(got[n]) <= Len(got'[n])
                                    /\ \A i \in 1..Len(got[n]) : got'[n][i] = got[n][i]
           /\ \A n \in DOMAIN got' : n \in DOMAIN got \/ got'[n] = <<>>
  <1>1. \A n \in DOMAIN got : got[n] \in Seq(Items) /\ Len(got[n]) \in Nat
    BY DEF GotInv
  <1>2. CASE UNCHANGED got
    BY <1>1, <1>2
  <1>3. ASSUME NEW cmd \in Commands, redisAsyncCommand(cmd)
        PROVE  /\ \A n \in DOMAIN got : got'[n] = got[n]
               /\ \A n \in DOMAIN got' : n \in DOMAIN got \/ got'[n] = <<>>
    <2>1. CommandsTyped
      BY DEF TypeInv
    <2>2. /\ DOMAIN got = 1..Len(commands) /\ Len(commands) \in Nat /\ DOMAIN got = DOMAIN commands
          /\ got' \in Seq(Seq(Items \cup {NULL})) /\ Len(got') = Len(commands) + 1
          /\ \A n \in DOMAIN commands : got'[n] = got[n]
          /\ got'[Len(commands) + 1] = <<>>
      BY <1>3, <2>1, CommandFacts, CommandsFacts
    <2>3. DOMAIN got' = 1..(Len(commands) + 1)
      BY <2>2
    <2>4. \A n \in 1..(Len(commands) + 1) : n \in 1..Len(commands) \/ n = Len(commands) + 1
      BY <2>2
    <2> QED
      BY <2>2, <2>3, <2>4
  <1>4. ASSUME NEW fn \in Nat, Delivered(fn)
        PROVE  /\ DOMAIN got' = DOMAIN got
               /\ \A n \in DOMAIN got : \/ got'[n] = got[n]
                                        \/ \E r \in Items : got'[n] = Append(got[n], r)
    <2>1. got \in Seq(Seq(Items \cup {NULL}))
      BY DEF TypeInv, CommandsTyped
    <2>2. /\ got' \in Seq(Seq(Items \cup {NULL})) /\ Len(got') = Len(got) /\ Head(reader) \in Items
          /\ \A n \in DOMAIN got : got'[n] = IF n = fn THEN Append(got[n], Head(reader)) ELSE got[n]
      BY <1>4, DeliveredFacts
    <2>3. DOMAIN got' = DOMAIN got
      BY <2>1, <2>2
    <2> QED
      BY <2>2, <2>3
  <1>5. ASSUME DOMAIN got' = DOMAIN got,
               \A n \in DOMAIN got : \/ got'[n] = got[n]
                                     \/ \E r \in Items : got'[n] = Append(got[n], r)
        PROVE  /\ \A n \in DOMAIN got : got[n] \in Seq(Items) /\ got'[n] \in Seq(Items)
               /\ \A n \in DOMAIN got : Len(got[n]) <= Len(got'[n])
                                        /\ \A i \in 1..Len(got[n]) : got'[n][i] = got[n][i]
    <2>1. \A s \in Seq(Items), r \in Items :
            /\ Append(s, r) \in Seq(Items) /\ Len(s) <= Len(Append(s, r))
            /\ \A i \in 1..Len(s) : Append(s, r)[i] = s[i]
      OBVIOUS
    <2>2. \A n \in DOMAIN got : got[n] \in Seq(Items) /\ Len(got[n]) \in Nat
      BY <1>1
    <2> SUFFICES ASSUME NEW n \in DOMAIN got
                 PROVE  /\ got[n] \in Seq(Items) /\ got'[n] \in Seq(Items)
                        /\ Len(got[n]) <= Len(got'[n])
                        /\ \A i \in 1..Len(got[n]) : got'[n][i] = got[n][i]
      OBVIOUS
    <2>3. CASE got'[n] = got[n]
      BY <2>2, <2>3
    <2>4. CASE \E r \in Items : got'[n] = Append(got[n], r)
      BY <2>1, <2>2, <2>4
    <2> QED
      BY <1>5, <2>3, <2>4
  <1>6. CASE Answered \/ Announced \/ Guessed
    <2>1. PICK fn \in Nat : Delivered(fn)
      BY <1>6, DeliveryCases
    <2> QED
      BY <1>4, <1>5, <2>1
  <1>7. CASE \E cmd \in Commands : redisAsyncCommand(cmd)
    <2>1. /\ \A n \in DOMAIN got : got'[n] = got[n]
          /\ \A n \in DOMAIN got' : n \in DOMAIN got \/ got'[n] = <<>>
      BY <1>3, <1>7
    <2> QED
      BY <1>1, <2>1
  <1>8. \/ UNCHANGED got \/ (\E cmd \in Commands : redisAsyncCommand(cmd))
        \/ Answered \/ Announced \/ Guessed
    BY RunningStep DEF Over, Aborted, Noted, Pushed, Received, Written, Publish, Close, historyVars
  <1> QED
    BY <1>2, <1>6, <1>7, <1>8

\* Only the free gives NULL.
LEMMA GotStepInv ==
    ASSUME TypeInv, DictInv, GotInv, [Next]_vars PROVE GotInv'
  <1>1. CASE process = "running" /\ process' = "running"
    <2>1. <<>> \in Seq(Items)
      OBVIOUS
    <2> QED
      BY <1>1, <2>1, GotGrows DEF GotInv
  <1>2. CASE process' # "running"
    BY <1>2 DEF GotInv
  <1>3. CASE process # "running"
    BY <1>3, RunningStep DEF Over, Aborted, GotInv
  <1> QED
    BY <1>1, <1>2, <1>3

\* The flag and the server know of a MONITOR.
LEMMA MonitorStep ==
    ASSUME TypeInv, MonitorInv, [Next]_vars PROVE MonitorInv'
  <1>1. CASE commands' = commands /\ (process' = "running" => process = "running")
             /\ ("MONITORING" \in flags' <=> "MONITORING" \in flags) /\ monitored' = monitored
    <2>1. Monitoring' <=> Monitoring
      BY <1>1 DEF Monitoring
    <2> QED
      BY <1>1, <2>1 DEF MonitorInv
  <1>2. CASE Freed
    <2>1. Monitoring' <=> Monitoring
      BY <1>2 DEF Monitoring, Freed
    <2> QED
      BY <1>2, <2>1 DEF MonitorInv, Freed
  <1>3. CASE Written
    <2>1. PICK k \in 0..Len(obuf) : monitored' = Executed(SubSeq(obuf, 1, k)).monitored
      BY <1>3 DEF Written
    <2> DEFINE list == SubSeq(obuf, 1, k)
               P == [i \in 0..k |-> {s \in Servers : s.monitored => Monitoring}]
    <2>2. list \in Seq(Numbers \ {0}) /\ Len(list) = k /\ k \in Nat
          /\ \A i \in 1..k : list[i] \in DOMAIN commands
      <3>1. list \in Seq(Numbers \ {0}) /\ Len(list) = k /\ k \in Nat
        BY WrittenFacts
      <3>2. Numbers \ {0} = DOMAIN commands
        BY CommandsFacts DEF TypeInv
      <3> HIDE DEF list
      <3> QED
        BY <3>1, <3>2
    <2>3. Server \in P[0]
      <3>1. inbox \in Seq(Items) /\ DOMAIN inbox = 1..Len(inbox)
        BY DEF TypeInv, QueuesTyped
      <3>2. Server \in Servers
        BY <3>1 DEF TypeInv, QueuesTyped, ControlTyped, Servers, Server
      <3>3. Server.monitored => Monitoring
        BY DEF Server, MonitorInv
      <3>4. 0 \in 0..k
        BY <2>2
      <3> QED
        BY <3>2, <3>3, <3>4
    <2>4. ASSUME NEW i \in 1..k, NEW s \in Servers, s \in P[i - 1] PROVE Execute(s, list[i]) \in P[i]
      <3> DEFINE n == list[i]
      <3>1. n \in DOMAIN commands /\ CommandsTyped /\ (s.monitored => Monitoring)
        BY <2>2, <2>4 DEF TypeInv
      <3> HIDE DEF n, list
      <3>2. Execute(s, n) \in Servers
        BY <3>1, ExecuteFacts
      <3>3. Execute(s, n).monitored => Monitoring
        <4>1. CASE commands[n].place \in {"SUBSCRIBE", "UNSUBSCRIBE"}
          <5>1. Execute(s, n).monitored = s.monitored
            <6>1. CASE commands[n].place = "SUBSCRIBE"
              <7>1. Execute(s, n) = [subs |-> s.subs \cup ToSet(commands[n].topics), monitored |-> s.monitored,
                                     out |-> s.out \o TopicReplies("subscribe", n, s.subs)]
                BY <3>1, <6>1, ExecuteFacts
              <7> QED
                BY <7>1
            <6>2. CASE commands[n].place = "UNSUBSCRIBE"
              <7>1. Execute(s, n) = [subs |-> s.subs \ ToSet(commands[n].topics), monitored |-> s.monitored,
                                     out |-> s.out \o TopicReplies("unsubscribe", n, s.subs)]
                BY <3>1, <6>2, ExecuteFacts
              <7> QED
                BY <7>1
            <6> QED
              BY <4>1, <6>1, <6>2
          <5> QED
            BY <3>1, <5>1
        <4>2. CASE commands[n].place \notin {"SUBSCRIBE", "UNSUBSCRIBE"}
          <5>1. Execute(s, n).monitored = (s.monitored \/ (commands[n].name = "MONITOR" /\ s.subs = {}))
            <6> DEFINE heard == s.monitored \/ (commands[n].name = "MONITOR" /\ s.subs = {})
            <6>1. Execute(s, n) = [subs |-> s.subs, monitored |-> heard, out |-> Append(s.out, Plain(s, n))]
              BY <3>1, <4>2, ExecuteFacts
            <6> HIDE DEF heard
            <6>2. Execute(s, n).monitored = heard
              BY <6>1
            <6> QED
              BY <6>2 DEF heard
          <5> QED
            BY <3>1, <5>1 DEF Monitoring
        <4> QED
          BY <4>1, <4>2
      <3> QED
        BY <2>2, <3>2, <3>3 DEF n
    <2> HIDE DEF P, list
    <2>5. Executed(list) \in P[k]
      BY <2>2, <2>3, <2>4, ExecutedFacts
    <2>6. Executed(list).monitored => Monitoring
      BY <2>2, <2>5 DEF P
    <2>7. Monitoring' <=> Monitoring
      BY <1>3 DEF Monitoring, Written
    <2> QED
      BY <1>3, <2>1, <2>6, <2>7 DEF MonitorInv, Written, list
  <1>4. ASSUME NEW cmd \in Commands, redisAsyncCommand(cmd) PROVE MonitorInv'
    <2> DEFINE n == Len(commands) + 1
    <2>1. /\ commands'[n] = Accept(cmd) /\ \A m \in DOMAIN commands : commands'[m] = commands[m]
          /\ DOMAIN commands = 1..Len(commands) /\ Len(commands) \in Nat
          /\ DOMAIN commands' = 1..(Len(commands) + 1)
      BY <1>4, CommandFacts, CommandsFacts DEF TypeInv
    <2>2. DOMAIN commands' = DOMAIN commands \cup {n}
      BY <2>1
    <2>3. Monitoring' <=> Monitoring \/ cmd.name = "MONITOR"
      BY <2>1, <2>2 DEF Monitoring, Accept
    <2>4. /\ process = "running" /\ process' = "running" /\ monitored' = monitored
          /\ "MONITORING" \in flags' <=> "MONITORING" \in flags \/ cmd.name = "MONITOR"
      BY <1>4 DEF redisAsyncCommand, UserTurn, serverVars
    <2> QED
      BY <2>3, <2>4 DEF MonitorInv
  <1>5. \/ commands' = commands /\ (process' = "running" => process = "running")
             /\ ("MONITORING" \in flags' <=> "MONITORING" \in flags) /\ monitored' = monitored
        \/ Freed \/ Written \/ (\E cmd \in Commands : redisAsyncCommand(cmd))
    BY RunningStep DEF Over, Aborted, Noted, ModesKept, Pushed, Received, Answered, Announced, Guessed,
                       Delivered, Publish, Close, contextVars, historyVars
  <1> QED
    BY <1>1, <1>2, <1>3, <1>4, <1>5

\* A regular command waits for its answer or has it.
LEMMA CleanStep ==
    ASSUME TypeInv, DictInv, GotInv, CleanInv, [Next]_vars PROVE CleanInv'
  <1> SUFFICES ASSUME process' = "running", ~Monitoring', NEW n \in DOMAIN commands',
                      commands'[n].place = "replies", commands'[n].callback
               PROVE  n \in ToSet(replies') \/ (got'[n] # <<>> /\ got'[n][1].type # "NULL")
    BY DEF CleanInv
  <1>1. CASE process # "running"
    BY <1>1, RunningStep DEF Over, Aborted
  <1>2. CASE process = "running" /\ n \in DOMAIN commands /\ n \notin ToSet(replies) /\ commands'[n] = commands[n]
             /\ (Monitoring => Monitoring')
    <2>1. got[n] # <<>> /\ got[n][1].type # "NULL" /\ n \in DOMAIN got
      BY <1>2, CommandsFacts DEF CleanInv, TypeInv
    <2>2. got[n] \in Seq(Items) /\ got'[n] \in Seq(Items) /\ Len(got[n]) <= Len(got'[n])
          /\ \A i \in 1..Len(got[n]) : got'[n][i] = got[n][i]
      BY <1>2, <2>1, GotGrows
    <2>3. Len(got[n]) >= 1
      BY <2>1, <2>2
    <2>4. got'[n] # <<>> /\ got'[n][1] = got[n][1]
      BY <2>2, <2>3
    <2> QED
      BY <2>1, <2>4
  <1>3. CASE commands' = commands /\ \A m \in ToSet(replies) : m \in ToSet(replies')
    <2>1. Monitoring => Monitoring'
      BY <1>3 DEF Monitoring
    <2> QED
      BY <1>1, <1>2, <1>3, <2>1
  <1>4. CASE Pushed
    <2>1. replies' = Append(replies, cb) /\ replies \in Seq(Numbers) /\ cb \in Numbers
      BY <1>4 DEF Pushed, TypeInv, QueuesTyped
    <2>2. \A m \in ToSet(replies) : m \in ToSet(replies')
      BY <2>1 DEF ToSet
    <2> QED
      BY <1>3, <1>4, <2>2 DEF Pushed
  <1>5. CASE Answered
    <2>1. /\ replies # <<>> /\ replies' = Tail(replies) /\ Delivered(Head(replies))
          /\ commands' = commands /\ process = "running"
      BY <1>5 DEF Answered, Delivered
    <2>2. replies \in Seq(Numbers) /\ Numbers \subseteq Nat
      BY CommandsFacts DEF TypeInv, QueuesTyped, Numbers
    <2>3. Head(replies) = replies[1] /\ Tail(replies) \in Seq(Numbers) /\ Len(Tail(replies)) = Len(replies) - 1
          /\ \A i \in 1..Len(Tail(replies)) : Tail(replies)[i] = replies[i + 1]
          /\ Len(replies) \in Nat /\ Head(replies) \in Numbers
      BY <2>1, <2>2, QueueOperators
    <2>4. Monitoring => Monitoring'
      BY <2>1 DEF Monitoring
    <2>5. CASE n \notin ToSet(replies)
      BY <1>2, <2>1, <2>4, <2>5
    <2>6. CASE n \in ToSet(replies) /\ n # Head(replies)
      <3>1. PICK i \in 1..Len(replies) : replies[i] = n
        BY <2>2, <2>6 DEF ToSet
      <3>2. i - 1 \in 1..Len(Tail(replies)) /\ (i - 1) + 1 = i
        BY <2>3, <2>6, <3>1
      <3>3. Tail(replies)[i - 1] = n /\ i - 1 \in DOMAIN Tail(replies)
        BY <2>3, <3>1, <3>2
      <3> QED
        BY <2>1, <3>3 DEF ToSet
    <2>7. CASE n = Head(replies)
      <3>1. n \in DOMAIN got /\ n \in Nat
        BY <2>1, CommandsFacts DEF TypeInv
      <3>2. got'[n] = Append(got[n], Head(reader)) /\ Head(reader) \in Items
        BY <2>1, <2>7, <3>1, DeliveredFacts
      <3>3. got[n] \in Seq(Items) /\ got'[n] \in Seq(Items)
        BY <2>1, <3>1, GotGrows
      <3>4. Len(got'[n]) = Len(got[n]) + 1 /\ Len(got[n]) \in Nat
        BY <3>2, <3>3, AppendProperties
      <3>5. got'[n] # <<>> /\ got'[n][1] \in Items
        BY <3>3, <3>4
      <3> QED
        BY <3>5 DEF Items, TopicTypes
    <2> QED
      BY <2>5, <2>6, <2>7
  <1>6. ASSUME NEW cmd \in Commands, redisAsyncCommand(cmd)
        PROVE  n \in ToSet(replies') \/ (got'[n] # <<>> /\ got'[n][1].type # "NULL")
    <2> DEFINE m == Len(commands) + 1
    <2>1. /\ commands'[m] = Accept(cmd) /\ \A i \in DOMAIN commands : commands'[i] = commands[i]
          /\ DOMAIN commands = 1..Len(commands) /\ Len(commands) \in Nat
          /\ DOMAIN commands' = 1..(Len(commands) + 1) /\ NewFn(cmd) \in 0..(Len(commands) + 1)
      BY <1>6, CommandFacts, CommandsFacts DEF TypeInv
    <2>2. /\ process = "running"
          /\ replies' = IF Register(cmd) = "replies" THEN Append(replies, NewFn(cmd)) ELSE replies
      BY <1>6 DEF redisAsyncCommand, UserTurn, NewFn
    <2>3. replies \in Seq(Nat) /\ NewFn(cmd) \in Nat
      BY <2>1, SeqGrows DEF TypeInv, QueuesTyped, Numbers
    <2>4. \A i \in ToSet(replies) : i \in ToSet(replies')
      BY <2>2, <2>3 DEF ToSet
    <2>5. Monitoring => Monitoring'
      BY <2>1 DEF Monitoring
    <2>6. CASE n \in DOMAIN commands
      BY <1>2, <2>1, <2>2, <2>4, <2>5, <2>6
    <2>7. CASE n = m
      <3>1. Register(cmd) = "replies" /\ cmd.callback
        BY <2>1, <2>7 DEF Accept
      <3>2. replies' = Append(replies, n)
        BY <2>2, <2>7, <3>1 DEF NewFn
      <3>3. n \in Nat /\ Len(replies) \in Nat /\ Len(replies') = Len(replies) + 1 /\ replies' \in Seq(Nat)
            /\ replies'[Len(replies) + 1] = n
        BY <2>1, <2>3, <2>7, <3>2
      <3>4. Len(replies) + 1 \in DOMAIN replies'
        BY <3>3
      <3> QED
        BY <3>3, <3>4 DEF ToSet
    <2> QED
      BY <2>1, <2>6, <2>7
  <1>7. \/ process # "running" \/ (commands' = commands /\ replies' = replies)
        \/ Pushed \/ Answered \/ (\E cmd \in Commands : redisAsyncCommand(cmd))
    BY RunningStep DEF Over, Aborted, Noted, Received, Written, Announced, Guessed, Delivered, Publish, Close,
                       contextVars, historyVars
  <1> QED
    BY <1>1, <1>3, <1>4, <1>5, <1>6, <1>7

\* The invariant that makes a disconnection clean.
DisconnectInv == TypeInv /\ DictInv /\ GotInv /\ CleanInv /\ CleanDisconnect

\* A disconnection that succeeds found nothing waiting.
LEMMA DisconnectStep ==
    ASSUME TypeInv, DictInv, GotInv, CleanInv, CleanDisconnect, [Next]_vars PROVE CleanDisconnect'
  <1>1. CASE Over
    <2>1. Monitoring' <=> Monitoring
      BY <1>1 DEF Over, Monitoring
    <2> QED
      BY <1>1, <2>1 DEF Over, CleanDisconnect
  <1>2. CASE process' # "freed"
    BY <1>2 DEF CleanDisconnect
  <1>3. CASE Freed
    <2> SUFFICES ASSUME onDisconnect' = "ok", "FREEING" \notin flags', ~Monitoring',
                        NEW n \in DOMAIN commands',
                        commands'[n].place = "replies", commands'[n].callback
                 PROVE  got'[n] # <<>> /\ got'[n][1] # NULL
      BY DEF CleanDisconnect
    <2>1. /\ replies = <<>> /\ commands' = commands /\ process = "running"
          /\ got' = Run(Pending(replies), NULL)
      BY <1>3 DEF Freed
    <2>2. ~Monitoring
      BY <2>1 DEF Monitoring
    <2>3. n \notin ToSet(replies)
      BY <2>1 DEF ToSet
    <2>4. got[n] # <<>> /\ got[n][1].type # "NULL"
      BY <2>1, <2>2, <2>3 DEF CleanInv
    <2>5. n \in DOMAIN got /\ got \in Seq(Seq(Items \cup {NULL})) /\ got[n] \in Seq(Items \cup {NULL})
      BY <2>1, CommandsFacts DEF TypeInv, CommandsTyped
    <2>6. Pending(replies) \in Seq(Nat)
      BY PendingFacts
    <2> DEFINE list == Pending(replies)
    <2> HIDE DEF list
    <2>7. /\ Run(list, NULL) \in Seq(Seq(Items \cup {NULL})) /\ Len(Run(list, NULL)) = Len(got)
          /\ Len(got[n]) <= Len(Run(list, NULL)[n])
          /\ \A i \in 1..Len(got[n]) : Run(list, NULL)[n][i] = got[n][i]
      <3>1. list \in Seq(Nat) /\ NULL \in Items \cup {NULL}
        BY <2>6 DEF list
      <3>2. /\ Run(list, NULL) \in Seq(Seq(Items \cup {NULL})) /\ Len(Run(list, NULL)) = Len(got)
            /\ \A m \in DOMAIN got :
                  /\ Len(got[m]) <= Len(Run(list, NULL)[m])
                  /\ \A i \in 1..Len(got[m]) : Run(list, NULL)[m][i] = got[m][i]
        <4>1. got \in Seq(Seq(Items \cup {NULL}))
          BY <2>5
        <4> QED
          BY <3>1, <4>1, RunFacts, SMTT(60)
      <3> QED
        BY <2>5, <3>2
    <2>8. Len(got[n]) >= 1
      BY <2>4, <2>5
    <2>9. got'[n][1] = got[n][1]
      BY <2>1, <2>5, <2>7, <2>8 DEF list
    <2>10. got'[n] \in Seq(Items \cup {NULL}) /\ Len(got'[n]) >= 1
      <3>1. DOMAIN got = DOMAIN got'
        BY <2>1, <2>5, <2>7 DEF list
      <3> QED
        BY <2>1, <2>5, <2>7, <2>8, <3>1 DEF list
    <2>11. got'[n] # <<>>
      BY <2>10
    <2> QED
      BY <2>4, <2>9, <2>11 DEF NULL
  <1> QED
    BY <1>1, <1>2, <1>3, RunningStep DEF Aborted

\* A disconnection that reports success has answered every command that was issued
\* outside of the subscribed mode: whatever is written, received and answered when,
\* and wherever redisAsyncDisconnect is called.
THEOREM DisconnectionsAreClean == Spec => []CleanDisconnect
  <1>1. Init => DisconnectInv
    <2> SUFFICES ASSUME Init PROVE DisconnectInv
      OBVIOUS
    <2>1. commands = <<>> /\ got = <<>> /\ process = "running" /\ DOMAIN <<>> = {}
      BY DEF Init
    <2>2. GotInv /\ CleanInv /\ CleanDisconnect
      BY <2>1 DEF GotInv, CleanInv, CleanDisconnect
    <2> QED
      BY <2>2, TypeInit DEF DisconnectInv
  <1>2. DisconnectInv /\ [Next]_vars => DisconnectInv'
    BY TypeStep, GotStepInv, CleanStep, DisconnectStep DEF DisconnectInv
  <1>3. DisconnectInv => CleanDisconnect
    BY DEF DisconnectInv
  <1> QED
    BY <1>1, <1>2, <1>3, PTL DEF Spec

-----------------------------------------------------------------------------
(***************************************************************************)
(* The replies on their way, step by step.                                 *)
(***************************************************************************)

\* The first reply is given to the first of the regular callbacks.
LEMMA QueueAnswered ==
    ASSUME NEW cmds, NEW f, NEW p, NEW rs, NEW on \in BOOLEAN, NEW mode \in BOOLEAN,
           NEW subs, NEW uns, NEW dom, NEW g, NEW qs,
           Len(f) \in Nat, Len(p) \in Nat, Len(rs) \in Nat, "none" \notin uns,
           Queue(cmds, f, p, rs, on, mode, subs, uns, dom),
           Len(f) >= 1, Len(g) = Len(f) - 1, \A i \in 1..Len(g) : g[i] = f[i + 1],
           Len(rs) >= 1, Len(qs) = Len(rs) - 1, \A i \in 1..Len(qs) : qs[i] = rs[i + 1]
    PROVE  Queue(cmds, g, p, qs, on, mode, subs, uns, dom)
  <1>1. /\ ItemsKnown(cmds, f, on) /\ InOrder(cmds, f, p, rs, on)
        /\ ~mode => RegularMode(cmds, f, p, rs, on, subs)
        /\ UnsubsLast(cmds, f, p, subs, uns) /\ TopicsKnown(cmds, f, p, subs, uns, dom)
        /\ on => /\ mode => SubscribedMode(cmds, f, p, subs)
                 /\ WillRefuse(cmds, p, subs)
                 /\ subs # {} => Len(rs) <= Len(f)
    BY DEF Queue
  <1>2. \A i \in 1..Len(g) : i + 1 \in 1..Len(f)
    OBVIOUS
  <1>3. ItemsKnown(cmds, g, on)
    BY <1>1, <1>2 DEF ItemsKnown
  <1>4. IsClosing(f[1]) => ~on /\ Len(g) = 0
    <2>1. 1 \in 1..Len(f)
      OBVIOUS
    <2>2. IsClosing(f[1]) => ~IsTopical(f[1]) /\ ~IsAnswer(cmds, f[1]) /\ ~IsRefused(cmds, f[1])
      BY DEF IsClosing, IsTopical, IsAnswer, IsRefused
    <2> QED
      BY <1>1, <2>1, <2>2 DEF ItemsKnown
  <1>5. InOrder(cmds, g, p, qs, on)
    <2>1. ASSUME NEW i \in 1..Len(g), ~IsClosing(g[i])
          PROVE  /\ i <= Len(qs) <=> IsAnswer(cmds, g[i])
                 /\ i <= Len(qs) => qs[i] = Fn(cmds, g[i].to)
      <3>1. /\ i + 1 <= Len(rs) <=> IsAnswer(cmds, f[i + 1])
            /\ i + 1 <= Len(rs) => rs[i + 1] = Fn(cmds, f[i + 1].to)
        BY <1>1, <1>2, <2>1 DEF InOrder
      <3> QED
        BY <3>1
    <2>2. ASSUME on
          PROVE  /\ Len(qs) <= Len(g) + Len(p)
                 /\ \A j \in 1..Len(p) : /\ Len(g) + j <= Len(qs) <=> cmds[p[j]].place = "replies"
                                         /\ Len(g) + j <= Len(qs) => qs[Len(g) + j] = Fn(cmds, p[j])
      <3>1. /\ Len(rs) <= Len(f) + Len(p)
            /\ \A j \in 1..Len(p) : /\ Len(f) + j <= Len(rs) <=> cmds[p[j]].place = "replies"
                                    /\ Len(f) + j <= Len(rs) => rs[Len(f) + j] = Fn(cmds, p[j])
        BY <1>1, <2>2 DEF InOrder
      <3>2. Len(qs) <= Len(g) + Len(p)
        BY <3>1
      <3>3. ASSUME NEW j \in 1..Len(p)
            PROVE  /\ Len(g) + j <= Len(qs) <=> cmds[p[j]].place = "replies"
                   /\ Len(g) + j <= Len(qs) => qs[Len(g) + j] = Fn(cmds, p[j])
        <4>1. Len(g) + j <= Len(qs) <=> Len(f) + j <= Len(rs)
          OBVIOUS
        <4>2. Len(g) + j <= Len(qs) => Len(g) + j \in 1..Len(qs) /\ (Len(g) + j) + 1 = Len(f) + j
          OBVIOUS
        <4>3. Len(g) + j <= Len(qs) => qs[Len(g) + j] = rs[Len(f) + j]
          BY <4>2
        <4> QED
          BY <3>1, <4>1, <4>3
      <3> QED
        BY <3>2, <3>3
    <2> QED
      BY <2>1, <2>2 DEF InOrder
  <1>6. ~mode => RegularMode(cmds, g, p, qs, on, subs)
    BY <1>1, <1>2 DEF RegularMode
  <1>7. UnsubsLast(cmds, g, p, subs, uns)
    <2>1. ASSUME NEW i \in 1..Len(g), Unsub(g[i])
          PROVE  /\ g[i].topic \in uns /\ g[i].topic \notin subs /\ p = <<>>
                 /\ \A j \in (i + 1)..Len(g) : g[j].topic # g[i].topic
                 /\ g[i].count = 0 => subs = {} /\ \A j \in (i + 1)..Len(g) : IsClosing(g[j])
      <3>1. i + 1 \in 1..Len(f) /\ g[i] = f[i + 1]
        BY <1>2
      <3>2. /\ f[i + 1].topic \in uns /\ f[i + 1].topic \notin subs /\ p = <<>>
            /\ \A j \in ((i + 1) + 1)..Len(f) : f[j].topic # f[i + 1].topic
            /\ f[i + 1].count = 0 => subs = {} /\ \A j \in ((i + 1) + 1)..Len(f) : IsClosing(f[j])
        BY <1>1, <2>1, <3>1 DEF UnsubsLast
      <3>3. \A j \in (i + 1)..Len(g) : j + 1 \in ((i + 1) + 1)..Len(f) /\ g[j] = f[j + 1]
        BY <3>1
      <3> QED
        BY <3>1, <3>2, <3>3
    <2> QED
      BY <1>1, <2>1 DEF UnsubsLast
  <1>8. TopicsKnown(cmds, g, p, subs, uns, dom)
    BY <1>1, <1>2 DEF TopicsKnown
  <1>9. ASSUME on, mode PROVE SubscribedMode(cmds, g, p, subs)
    <2>1. ~Unsub(f[1])
      <3>1. IsAnswer(cmds, f[1]) /\ 1 \in 1..Len(f)
        BY <1>1, <1>4, <1>9 DEF InOrder
      <3> QED
        BY <1>1, <3>1 DEF UnsubsLast, IsAnswer
    <2>2. ASSUME NEW i \in 1..Len(f), Unsub(f[i]), f[i].count = 0
          PROVE  \E k \in 1..Len(g) : Unsub(g[k]) /\ g[k].count = 0
      <3>1. i # 1
        BY <2>1, <2>2
      <3>2. i - 1 \in 1..Len(g) /\ (i - 1) + 1 = i
        BY <3>1
      <3>3. g[i - 1] = f[i]
        BY <3>2
      <3> QED
        BY <2>2, <3>2, <3>3
    <2> QED
      BY <1>1, <1>9, <2>2 DEF SubscribedMode
  <1> QED
    BY <1>1, <1>3, <1>5, <1>6, <1>7, <1>8, <1>9 DEF Queue

\* What an announcement does to the mode, the unsubscriptions and the topics.
Told(x, uns, dom, mode, left, keys) ==
    IF Unsub(x) THEN /\ mode <=> x.count # 0
                     /\ left = uns \ {x.topic} /\ keys = dom \ {x.topic}
    ELSE mode /\ left = uns /\ keys = dom

\* The first reply is a message or the answer to a subscription.
LEMMA QueueAnnounced ==
    ASSUME NEW cmds, NEW f, NEW p, NEW rs, NEW on, NEW subs, NEW uns, NEW dom, NEW g,
           NEW mode, NEW left, NEW keys,
           Len(f) \in Nat, Len(p) \in Nat, Len(rs) = 0,
           Queue(cmds, f, p, rs, on, TRUE, subs, uns, dom),
           Len(f) >= 1, Len(g) = Len(f) - 1, \A i \in 1..Len(g) : g[i] = f[i + 1],
           IsTopical(f[1]), Told(f[1], uns, dom, mode, left, keys)
    PROVE  Queue(cmds, g, p, rs, on, mode, subs, left, keys)
  <1> DEFINE t == f[1].topic
  <1>1. /\ ItemsKnown(cmds, f, on) /\ InOrder(cmds, f, p, rs, on)
        /\ UnsubsLast(cmds, f, p, subs, uns) /\ TopicsKnown(cmds, f, p, subs, uns, dom)
        /\ on => SubscribedMode(cmds, f, p, subs) /\ WillRefuse(cmds, p, subs)
    BY DEF Queue
  <1>2. 1 \in 1..Len(f) /\ \A i \in 1..Len(g) : i + 1 \in 1..Len(f)
    OBVIOUS
  <1>3. ItemsKnown(cmds, g, on)
    BY <1>1, <1>2 DEF ItemsKnown
  <1>4. InOrder(cmds, g, p, rs, on)
    <2>1. \A i \in 1..Len(g) : ~IsClosing(g[i]) => ~IsAnswer(cmds, g[i]) /\ ~(i <= Len(rs))
      <3>1. \A i \in 1..Len(f) : ~IsClosing(f[i]) => (i <= Len(rs) <=> IsAnswer(cmds, f[i]))
        BY <1>1 DEF InOrder
      <3> QED
        BY <1>2, <3>1
    <2>2. on => \A j \in 1..Len(p) : cmds[p[j]].place # "replies" /\ ~(Len(g) + j <= Len(rs))
      BY <1>1 DEF InOrder
    <2> QED
      BY <2>1, <2>2 DEF InOrder
  <1>5. UnsubsLast(cmds, g, p, subs, uns)
    <2>1. ASSUME NEW i \in 1..Len(g), Unsub(g[i])
          PROVE  /\ g[i].topic \in uns /\ g[i].topic \notin subs /\ p = <<>>
                 /\ \A j \in (i + 1)..Len(g) : g[j].topic # g[i].topic
                 /\ g[i].count = 0 => subs = {} /\ \A j \in (i + 1)..Len(g) : IsClosing(g[j])
      <3>1. i + 1 \in 1..Len(f) /\ g[i] = f[i + 1]
        BY <1>2
      <3>2. /\ f[i + 1].topic \in uns /\ f[i + 1].topic \notin subs /\ p = <<>>
            /\ \A j \in ((i + 1) + 1)..Len(f) : f[j].topic # f[i + 1].topic
            /\ f[i + 1].count = 0 => subs = {} /\ \A j \in ((i + 1) + 1)..Len(f) : IsClosing(f[j])
        BY <1>1, <2>1, <3>1 DEF UnsubsLast
      <3>3. \A j \in (i + 1)..Len(g) : j + 1 \in ((i + 1) + 1)..Len(f) /\ g[j] = f[j + 1]
        BY <3>1
      <3> QED
        BY <3>1, <3>2, <3>3
    <2> QED
      BY <1>1, <2>1 DEF UnsubsLast
  <1>9. TopicsKnown(cmds, g, p, subs, uns, dom)
    BY <1>1, <1>2 DEF TopicsKnown
  <1>6. ASSUME on, ~Unsub(f[1]) \/ f[1].count # 0 PROVE SubscribedMode(cmds, g, p, subs)
    <2>1. ASSUME NEW i \in 1..Len(f), Unsub(f[i]), f[i].count = 0
          PROVE  \E k \in 1..Len(g) : Unsub(g[k]) /\ g[k].count = 0
      <3>1. i # 1
        BY <1>6, <2>1
      <3>2. i - 1 \in 1..Len(g) /\ (i - 1) + 1 = i
        BY <3>1
      <3>3. g[i - 1] = f[i]
        BY <3>2
      <3> QED
        BY <2>1, <3>2, <3>3
    <2> QED
      BY <1>1, <1>6, <2>1 DEF SubscribedMode
  <1>7. CASE ~Unsub(f[1])
    <2>1. mode /\ left = uns /\ keys = dom
      BY <1>7 DEF Told
    <2> QED
      BY <1>1, <1>3, <1>4, <1>5, <1>6, <1>7, <1>9, <2>1 DEF Queue
  <1>8. CASE Unsub(f[1])
    <2>0. (mode <=> f[1].count # 0) /\ left = uns \ {t} /\ keys = dom \ {t}
      BY <1>8 DEF Told
    <2>1. /\ t \in uns /\ t \notin subs /\ p = <<>> /\ Len(p) = 0
          /\ \A j \in 2..Len(f) : f[j].topic # t
          /\ f[1].count = 0 => subs = {} /\ \A j \in 2..Len(f) : IsClosing(f[j])
      <3>1. (1 + 1)..Len(f) = 2..Len(f)
        OBVIOUS
      <3> QED
        BY <1>1, <1>2, <1>8, <3>1 DEF UnsubsLast
    <2>2. \A i \in 1..Len(g) : i + 1 \in 2..Len(f)
      OBVIOUS
    <2>3. \A i \in 1..Len(g) : g[i].topic # t
      BY <2>1, <2>2
    <2>4. UnsubsLast(cmds, g, p, subs, left)
      BY <1>5, <2>0, <2>1, <2>3 DEF UnsubsLast
    <2>5. TopicsKnown(cmds, g, p, subs, left, keys)
      BY <1>9, <2>0, <2>1, <2>3 DEF TopicsKnown
    <2>6. ASSUME f[1].count = 0 PROVE RegularMode(cmds, g, p, rs, on, subs)
      <3>1. subs = {} /\ \A i \in 1..Len(g) : IsClosing(g[i])
        BY <2>1, <2>2, <2>6
      <3>2. on => Len(g) = 0
        <4>1. ASSUME on, Len(g) # 0 PROVE FALSE
          <5>1. 1 \in 1..Len(g) /\ IsClosing(g[1])
            BY <3>1, <4>1
          <5>2. ~IsTopical(g[1]) /\ ~IsAnswer(cmds, g[1]) /\ ~IsRefused(cmds, g[1])
            BY <5>1 DEF IsClosing, IsTopical, IsAnswer, IsRefused
          <5> QED
            BY <1>3, <4>1, <5>1, <5>2 DEF ItemsKnown
        <4> QED
          BY <4>1
      <3> QED
        BY <2>1, <3>1, <3>2 DEF RegularMode
    <2> QED
      BY <1>1, <1>3, <1>4, <1>6, <2>0, <2>4, <2>5, <2>6 DEF Queue
  <1> QED
    BY <1>7, <1>8

\* The server publishes.
LEMMA QueuePublished ==
    ASSUME NEW cmds, NEW f, NEW p, NEW rs, NEW mode \in BOOLEAN, NEW subs, NEW uns, NEW dom, NEW g, NEW x,
           Len(f) \in Nat, Len(p) \in Nat, Len(rs) \in Nat,
           Queue(cmds, f, p, rs, TRUE, mode, subs, uns, dom),
           x.type = "message", x.topic \in subs, x.topic # "none",
           Len(g) = Len(f) + 1, \A i \in 1..Len(f) : g[i] = f[i], g[Len(f) + 1] = x
    PROVE  Queue(cmds, g, p, rs, TRUE, mode, subs, uns, dom)
  <1>1. /\ ItemsKnown(cmds, f, TRUE) /\ InOrder(cmds, f, p, rs, TRUE)
        /\ ~mode => RegularMode(cmds, f, p, rs, TRUE, subs)
        /\ UnsubsLast(cmds, f, p, subs, uns) /\ TopicsKnown(cmds, f, p, subs, uns, dom)
        /\ WillRefuse(cmds, p, subs) /\ Len(rs) <= Len(f)
    BY DEF Queue
  <1>2. mode
    BY <1>1 DEF RegularMode
  <1>3. \A i \in 1..Len(g) : i \in 1..Len(f) \/ i = Len(f) + 1
    OBVIOUS
  <1>4. /\ IsTopical(x) /\ ~Unsub(x) /\ ~IsClosing(x) /\ ~IsAnswer(cmds, x)
    BY DEF IsTopical, TopicTypes, Unsub, IsClosing, IsAnswer
  <1>5. ItemsKnown(cmds, g, TRUE)
    BY <1>1, <1>3, <1>4 DEF ItemsKnown
  <1>6. InOrder(cmds, g, p, rs, TRUE)
    <2>1. ASSUME NEW i \in 1..Len(g), ~IsClosing(g[i])
          PROVE  /\ i <= Len(rs) <=> IsAnswer(cmds, g[i])
                 /\ i <= Len(rs) => rs[i] = Fn(cmds, g[i].to)
      <3>1. CASE i \in 1..Len(f)
        BY <1>1, <2>1, <3>1 DEF InOrder
      <3>2. CASE i = Len(f) + 1
        BY <1>1, <1>4, <3>2
      <3> QED
        BY <1>3, <3>1, <3>2
    <2>2. \A j \in 1..Len(p) : ~(Len(f) + j <= Len(rs)) /\ ~(Len(g) + j <= Len(rs))
      BY <1>1
    <2>3. \A j \in 1..Len(p) : cmds[p[j]].place # "replies"
      BY <1>1, <2>2 DEF InOrder
    <2> QED
      BY <1>1, <2>1, <2>2, <2>3 DEF InOrder
  <1>7. UnsubsLast(cmds, g, p, subs, uns)
    <2>1. ASSUME NEW i \in 1..Len(g), Unsub(g[i])
          PROVE  /\ g[i].topic \in uns /\ g[i].topic \notin subs /\ p = <<>>
                 /\ \A j \in (i + 1)..Len(g) : g[j].topic # g[i].topic
                 /\ g[i].count # 0
      <3>1. i \in 1..Len(f) /\ g[i] = f[i]
        BY <1>3, <1>4, <2>1
      <3>2. /\ f[i].topic \in uns /\ f[i].topic \notin subs /\ p = <<>>
            /\ \A j \in (i + 1)..Len(f) : f[j].topic # f[i].topic
            /\ f[i].count # 0
        BY <1>1, <2>1, <3>1 DEF UnsubsLast
      <3>3. \A j \in (i + 1)..Len(g) : (j \in (i + 1)..Len(f) /\ g[j] = f[j]) \/ g[j] = x
        BY <3>1
      <3> QED
        BY <3>1, <3>2, <3>3
    <2> QED
      BY <1>1, <2>1 DEF UnsubsLast
  <1>8. TopicsKnown(cmds, g, p, subs, uns, dom)
    <2>1. x.topic \in dom
      BY <1>1 DEF TopicsKnown
    <2> QED
      BY <1>1, <1>3, <2>1 DEF TopicsKnown
  <1> QED
    <2>1. subs # {} /\ Len(rs) <= Len(g)
      BY <1>1
    <2>2. SubscribedMode(cmds, g, p, subs)
      BY <2>1 DEF SubscribedMode
    <2> QED
      BY <1>1, <1>2, <1>5, <1>6, <1>7, <1>8, <2>1, <2>2 DEF Queue

\* The server closes the connection: the end of what it has said is lost, and there
\* may be a last word.
LEMMA QueueClosed ==
    ASSUME NEW cmds, NEW f, NEW p, NEW rs, NEW mode \in BOOLEAN, NEW subs, NEW uns, NEW dom, NEW g, NEW m \in Nat,
           Len(f) \in Nat, Len(p) \in Nat, Len(rs) \in Nat, "none" \notin uns,
           Queue(cmds, f, p, rs, TRUE, mode, subs, uns, dom),
           m <= Len(f), Len(g) \in {m, m + 1}, \A i \in 1..m : g[i] = f[i],
           Len(g) = m + 1 => IsClosing(g[m + 1])
    PROVE  Queue(cmds, g, p, rs, FALSE, mode, subs, uns, dom)
  <1>1. /\ ItemsKnown(cmds, f, TRUE) /\ InOrder(cmds, f, p, rs, TRUE)
        /\ ~mode => RegularMode(cmds, f, p, rs, TRUE, subs)
        /\ UnsubsLast(cmds, f, p, subs, uns) /\ TopicsKnown(cmds, f, p, subs, uns, dom)
    BY DEF Queue
  <1>2. \A i \in 1..Len(g) : \/ i \in 1..m /\ i \in 1..Len(f) /\ g[i] = f[i]
                             \/ i = m + 1 /\ i = Len(g) /\ IsClosing(g[i])
    OBVIOUS
  <1>3. \A y : IsClosing(y) => ~IsTopical(y) /\ ~Unsub(y)
    BY DEF IsClosing, IsTopical, Unsub
  <1>4. ItemsKnown(cmds, g, FALSE)
    <2>1. \A i \in 1..Len(f) : IsAnswer(cmds, f[i]) \/ IsRefused(cmds, f[i]) \/ IsTopical(f[i])
      BY <1>1 DEF ItemsKnown
    <2> QED
      BY <1>2, <2>1 DEF ItemsKnown
  <1>5. InOrder(cmds, g, p, rs, FALSE)
    BY <1>1, <1>2 DEF InOrder
  <1>6. ~mode => RegularMode(cmds, g, p, rs, FALSE, subs)
    BY <1>1, <1>2 DEF RegularMode
  <1>7. UnsubsLast(cmds, g, p, subs, uns)
    <2>1. ASSUME NEW i \in 1..Len(g), Unsub(g[i])
          PROVE  /\ g[i].topic \in uns /\ g[i].topic \notin subs /\ p = <<>>
                 /\ \A j \in (i + 1)..Len(g) : g[j].topic # g[i].topic
                 /\ g[i].count = 0 => subs = {} /\ \A j \in (i + 1)..Len(g) : IsClosing(g[j])
      <3>1. i \in 1..m /\ i \in 1..Len(f) /\ g[i] = f[i]
        BY <1>2, <1>3, <2>1
      <3>2. /\ f[i].topic \in uns /\ f[i].topic \notin subs /\ p = <<>>
            /\ \A j \in (i + 1)..Len(f) : f[j].topic # f[i].topic
            /\ f[i].count = 0 => subs = {} /\ \A j \in (i + 1)..Len(f) : IsClosing(f[j])
        BY <1>1, <2>1, <3>1 DEF UnsubsLast
      <3>3. \A j \in (i + 1)..Len(g) : (j \in (i + 1)..Len(f) /\ g[j] = f[j]) \/ IsClosing(g[j])
        BY <1>2, <3>1
      <3>4. f[i].topic # "none"
        BY <3>2
      <3> QED
        BY <3>1, <3>2, <3>3, <3>4 DEF IsClosing
    <2> QED
      BY <1>1, <2>1 DEF UnsubsLast
  <1>8. TopicsKnown(cmds, g, p, subs, uns, dom)
    BY <1>1, <1>2, <1>3 DEF TopicsKnown
  <1> QED
    BY <1>4, <1>5, <1>6, <1>7, <1>8 DEF Queue

\* The server answers a command that is kept among the regular or the invalid ones.
LEMMA QueuePlain ==
    ASSUME NEW cmds, NEW f, NEW p, NEW rs, NEW mode, NEW subs, NEW uns, NEW dom,
           NEW g, NEW q, NEW x,
           Len(f) \in Nat, Len(p) \in Nat, Len(rs) \in Nat,
           Queue(cmds, f, p, rs, TRUE, mode, subs, uns, dom),
           Len(p) >= 1, Len(q) = Len(p) - 1, \A j \in 1..Len(q) : q[j] = p[j + 1],
           cmds[p[1]].place \in {"replies", "invalid"}, p[1] # 0,
           Len(g) = Len(f) + 1, \A i \in 1..Len(f) : g[i] = f[i], g[Len(f) + 1] = x,
           x.to = p[1], x.topic = "none", x.type = IF subs = {} THEN "reply" ELSE "error"
    PROVE  Queue(cmds, g, q, rs, TRUE, mode, subs, uns, dom)
  <1>1. /\ ItemsKnown(cmds, f, TRUE) /\ InOrder(cmds, f, p, rs, TRUE)
        /\ ~mode => RegularMode(cmds, f, p, rs, TRUE, subs)
        /\ UnsubsLast(cmds, f, p, subs, uns) /\ TopicsKnown(cmds, f, p, subs, uns, dom)
        /\ mode => SubscribedMode(cmds, f, p, subs)
        /\ WillRefuse(cmds, p, subs)
        /\ subs # {} => Len(rs) <= Len(f)
    BY DEF Queue
  <1>2. \A i \in 1..Len(g) : i \in 1..Len(f) \/ i = Len(f) + 1
    OBVIOUS
  <1>3. 1 \in 1..Len(p) /\ \A j \in 1..Len(q) : j + 1 \in 1..Len(p)
    OBVIOUS
  <1>4. \A k \in 1..Len(p) : cmds[p[k]].place \in {"SUBSCRIBE", "UNSUBSCRIBE"} =>
            k - 1 \in 1..Len(q) /\ p[k] = q[k - 1]
    <2> SUFFICES ASSUME NEW k \in 1..Len(p), cmds[p[k]].place \in {"SUBSCRIBE", "UNSUBSCRIBE"}
                 PROVE  k - 1 \in 1..Len(q) /\ p[k] = q[k - 1]
      OBVIOUS
    <2>1. k # 1
      OBVIOUS
    <2>2. k - 1 \in 1..Len(q) /\ (k - 1) + 1 = k
      BY <2>1
    <2> QED
      BY <2>2
  <1>5. /\ Len(rs) <= Len(f) + Len(p)
        /\ \A j \in 1..Len(p) : /\ Len(f) + j <= Len(rs) <=> cmds[p[j]].place = "replies"
                                /\ Len(f) + j <= Len(rs) => rs[Len(f) + j] = Fn(cmds, p[j])
    BY <1>1 DEF InOrder
  <1>6. cmds[p[1]].place = "invalid" => subs # {}
    <2>1. ~\E k \in 1..(1 - 1) : cmds[p[k]].place = "SUBSCRIBE"
      OBVIOUS
    <2> QED
      BY <1>1, <1>3, <2>1 DEF WillRefuse
  <1>7. /\ ~IsClosing(x) /\ ~IsTopical(x) /\ ~Unsub(x)
        /\ cmds[p[1]].place = "replies" => IsAnswer(cmds, x)
        /\ cmds[p[1]].place = "invalid" => IsRefused(cmds, x) /\ ~IsAnswer(cmds, x)
    BY <1>6 DEF IsClosing, IsTopical, Unsub, IsAnswer, IsRefused, TopicTypes
  <1>8. ItemsKnown(cmds, g, TRUE)
    BY <1>1, <1>2, <1>7 DEF ItemsKnown
  <1>9. InOrder(cmds, g, q, rs, TRUE)
    <2>1. ASSUME NEW i \in 1..Len(g), ~IsClosing(g[i])
          PROVE  /\ i <= Len(rs) <=> IsAnswer(cmds, g[i])
                 /\ i <= Len(rs) => rs[i] = Fn(cmds, g[i].to)
      <3>1. CASE i \in 1..Len(f)
        BY <1>1, <2>1, <3>1 DEF InOrder
      <3>2. CASE i = Len(f) + 1
        <4>1. g[i] = x /\ x.to = p[1] /\ i = Len(f) + 1
          BY <3>2
        <4>2. i <= Len(rs) <=> cmds[p[1]].place = "replies"
          BY <1>3, <1>5, <4>1
        <4>3. i <= Len(rs) => rs[i] = Fn(cmds, p[1])
          BY <1>3, <1>5, <4>1
        <4> QED
          BY <1>7, <4>1, <4>2, <4>3
      <3> QED
        BY <1>2, <3>1, <3>2
    <2>2. ASSUME NEW j \in 1..Len(q)
          PROVE  /\ Len(g) + j <= Len(rs) <=> cmds[q[j]].place = "replies"
                 /\ Len(g) + j <= Len(rs) => rs[Len(g) + j] = Fn(cmds, q[j])
      <3>1. Len(g) + j = Len(f) + (j + 1) /\ j + 1 \in 1..Len(p) /\ q[j] = p[j + 1]
        BY <1>3
      <3> QED
        BY <1>5, <3>1
    <2>3. Len(rs) <= Len(g) + Len(q)
      BY <1>5
    <2> QED
      BY <2>1, <2>2, <2>3 DEF InOrder
  <1>10. ASSUME ~mode PROVE RegularMode(cmds, g, q, rs, TRUE, subs)
    <2>1. /\ \A i \in 1..Len(f) : i <= Len(rs) \/ IsClosing(f[i])
          /\ Len(f) + Len(p) <= Len(rs) /\ subs = {}
      BY <1>1, <1>10 DEF RegularMode
    <2>2. Len(f) + 1 <= Len(rs) /\ Len(g) + Len(q) <= Len(rs)
      BY <2>1
    <2> QED
      BY <1>2, <2>1, <2>2 DEF RegularMode
  <1>11. UnsubsLast(cmds, g, q, subs, uns)
    <2>1. \A i \in 1..Len(g) : ~Unsub(g[i])
      <3>1. p # <<>>
        OBVIOUS
      <3>2. \A i \in 1..Len(f) : ~Unsub(f[i])
        BY <1>1, <3>1 DEF UnsubsLast
      <3> QED
        BY <1>2, <1>7, <3>2
    <2>2. ASSUME NEW j \in 1..Len(q), cmds[q[j]].place = "UNSUBSCRIBE"
          PROVE  /\ j = Len(q) /\ IsInjective(cmds[q[j]].topics)
                 /\ \A t \in ToSet(cmds[q[j]].topics) :
                       t \in uns /\ (t \in subs \/ \E k \in 1..(j - 1) :
                           cmds[q[k]].place = "SUBSCRIBE" /\ t \in ToSet(cmds[q[k]].topics))
      <3>1. j + 1 \in 1..Len(p) /\ q[j] = p[j + 1] /\ (j + 1) - 1 = j
        BY <1>3
      <3>2. /\ j + 1 = Len(p) /\ IsInjective(cmds[q[j]].topics)
            /\ \A t \in ToSet(cmds[q[j]].topics) :
                  t \in uns /\ (t \in subs \/ \E k \in 1..j :
                      cmds[p[k]].place = "SUBSCRIBE" /\ t \in ToSet(cmds[p[k]].topics))
        BY <1>1, <2>2, <3>1 DEF UnsubsLast
      <3>3. \A k \in 1..j : cmds[p[k]].place = "SUBSCRIBE" => k - 1 \in 1..(j - 1) /\ p[k] = q[k - 1]
        <4>1. \A k \in 1..j : k \in 1..Len(p)
          OBVIOUS
        <4> QED
          BY <1>4, <4>1
      <3>4. \A t \in ToSet(cmds[q[j]].topics) :
                  t \in uns /\ (t \in subs \/ \E k \in 1..(j - 1) :
                      cmds[q[k]].place = "SUBSCRIBE" /\ t \in ToSet(cmds[q[k]].topics))
        BY <3>2, <3>3
      <3> QED
        BY <3>2, <3>4
    <2> QED
      BY <2>1, <2>2 DEF UnsubsLast
  <1>12. TopicsKnown(cmds, g, q, subs, uns, dom)
    <2>1. \A i \in 1..Len(g) : IsTopical(g[i]) => g[i].topic \in dom
      BY <1>1, <1>2, <1>7 DEF TopicsKnown
    <2>2. subs \subseteq dom
      BY <1>1 DEF TopicsKnown
    <2>3. \A j \in 1..Len(q) : cmds[q[j]].place = "SUBSCRIBE" => ToSet(cmds[q[j]].topics) \subseteq dom
      BY <1>1, <1>3 DEF TopicsKnown
    <2>4. \A t \in dom : t \in subs \/ t \in uns \/ \E k \in 1..Len(q) :
                    cmds[q[k]].place = "SUBSCRIBE" /\ t \in ToSet(cmds[q[k]].topics)
      <3>1. \A t \in dom : t \in subs \/ t \in uns \/ \E k \in 1..Len(p) :
                    cmds[p[k]].place = "SUBSCRIBE" /\ t \in ToSet(cmds[p[k]].topics)
        BY <1>1 DEF TopicsKnown
      <3> QED
        BY <1>4, <3>1
    <2> QED
      BY <2>1, <2>2, <2>3, <2>4 DEF TopicsKnown
  <1>13. ASSUME mode PROVE SubscribedMode(cmds, g, q, subs)
    <2>1. \/ subs # {}
          \/ \E j \in 1..Len(q) : cmds[q[j]].place = "SUBSCRIBE"
          \/ \E i \in 1..Len(f) : Unsub(f[i]) /\ f[i].count = 0
      BY <1>1, <1>4, <1>13 DEF SubscribedMode
    <2>2. \A i \in 1..Len(f) : i \in 1..Len(g) /\ g[i] = f[i]
      OBVIOUS
    <2> QED
      BY <2>1, <2>2 DEF SubscribedMode
  <1>14. WillRefuse(cmds, q, subs)
    <2> SUFFICES ASSUME NEW j \in 1..Len(q), cmds[q[j]].place = "invalid", subs = {}
                 PROVE  \E k \in 1..(j - 1) : cmds[q[k]].place = "SUBSCRIBE"
      BY DEF WillRefuse
    <2>1. j + 1 \in 1..Len(p) /\ q[j] = p[j + 1] /\ (j + 1) - 1 = j
      BY <1>3
    <2>2. PICK k \in 1..j : cmds[p[k]].place = "SUBSCRIBE"
      BY <1>1, <2>1 DEF WillRefuse
    <2>3. k \in 1..Len(p)
      BY <2>1
    <2>4. k - 1 \in 1..Len(q) /\ p[k] = q[k - 1]
      BY <1>4, <2>2, <2>3
    <2>5. k - 1 \in 1..(j - 1)
      BY <2>4
    <2> QED
      BY <2>2, <2>4, <2>5
  <1>15. subs # {} => Len(rs) <= Len(g)
    BY <1>1
  <1> QED
    BY <1>8, <1>9, <1>10, <1>11, <1>12, <1>13, <1>14, <1>15 DEF Queue

\* Command p[1] subscribes to these topics, and the server answers it.
Subscribing(cmds, f, p, subs, g, q, topics, after) ==
    /\ Len(f) \in Nat /\ Len(p) \in Nat /\ Len(topics) \in Nat /\ "none" \notin ToSet(topics)
    /\ Len(p) >= 1 /\ Len(q) = Len(p) - 1 /\ \A j \in 1..Len(q) : q[j] = p[j + 1]
    /\ cmds[p[1]].place = "SUBSCRIBE" /\ p[1] # 0 /\ cmds[p[1]].topics = topics /\ Len(topics) >= 1
    /\ \A i : i \in DOMAIN topics <=> i \in 1..Len(topics)
    /\ \A t : t \in after <=> t \in subs \/ t \in ToSet(topics)
    /\ Len(g) = Len(f) + Len(topics) /\ \A i \in 1..Len(f) : g[i] = f[i]
    /\ \A i \in 1..Len(topics) : g[Len(f) + i].type = "subscribe" /\ g[Len(f) + i].topic = topics[i]

\* The server subscribes the client to the topics of a command.
LEMMA QueueSubscribed ==
    ASSUME NEW cmds, NEW f, NEW p, NEW rs, NEW on, NEW mode, NEW subs, NEW uns, NEW dom,
           NEW g, NEW q, NEW topics, NEW after, on = TRUE,
           Len(rs) \in Nat, Queue(cmds, f, p, rs, on, mode, subs, uns, dom),
           Subscribing(cmds, f, p, subs, g, q, topics, after)
    PROVE  Queue(cmds, g, q, rs, on, mode, after, uns, dom)
  <1> USE DEF Subscribing
  <1>1. /\ ItemsKnown(cmds, f, TRUE) /\ InOrder(cmds, f, p, rs, TRUE)
        /\ ~mode => RegularMode(cmds, f, p, rs, TRUE, subs)
        /\ UnsubsLast(cmds, f, p, subs, uns) /\ TopicsKnown(cmds, f, p, subs, uns, dom)
        /\ mode => SubscribedMode(cmds, f, p, subs)
        /\ WillRefuse(cmds, p, subs)
    BY DEF Queue
  <1>2. \A i \in 1..Len(topics) : topics[i] \in ToSet(topics)
    BY DEF ToSet
  <1>3. 1 \in 1..Len(p) /\ \A j \in 1..Len(q) : j + 1 \in 1..Len(p)
    OBVIOUS
  <1>4. \A i \in 1..Len(g) : \/ i \in 1..Len(f) /\ g[i] = f[i]
                             \/ i > Len(f) /\ g[i].type = "subscribe" /\ g[i].topic \in ToSet(topics)
    <2> SUFFICES ASSUME NEW i \in 1..Len(g), i \notin 1..Len(f)
                 PROVE  i > Len(f) /\ g[i].type = "subscribe" /\ g[i].topic \in ToSet(topics)
      OBVIOUS
    <2>1. i - Len(f) \in 1..Len(topics) /\ Len(f) + (i - Len(f)) = i
      OBVIOUS
    <2>2. \A k \in 1..Len(topics) : g[Len(f) + k].type = "subscribe" /\ g[Len(f) + k].topic \in ToSet(topics)
      BY <1>2
    <2>3. g[Len(f) + (i - Len(f))].type = "subscribe" /\ g[Len(f) + (i - Len(f))].topic \in ToSet(topics)
      BY <2>1, <2>2
    <2> QED
      BY <2>1, <2>3
  <1>5. \A x : x.type = "subscribe" /\ x.topic \in ToSet(topics) =>
                  IsTopical(x) /\ ~Unsub(x) /\ ~IsClosing(x) /\ ~IsAnswer(cmds, x)
    BY DEF IsTopical, TopicTypes, Unsub, IsClosing, IsAnswer
  <1>6. \A k \in 1..Len(p) : k = 1 \/ (k - 1 \in 1..Len(q) /\ p[k] = q[k - 1])
    <2> SUFFICES ASSUME NEW k \in 1..Len(p), k # 1 PROVE k - 1 \in 1..Len(q) /\ p[k] = q[k - 1]
      OBVIOUS
    <2>1. k - 1 \in 1..Len(q) /\ (k - 1) + 1 = k
      OBVIOUS
    <2> QED
      BY <2>1
  <1>7. /\ \A j \in 1..Len(p) : Len(f) + j <= Len(rs) <=> cmds[p[j]].place = "replies"
        /\ Len(rs) <= Len(f)
    <2>1. \A j \in 1..Len(p) : Len(f) + j <= Len(rs) <=> cmds[p[j]].place = "replies"
      BY <1>1 DEF InOrder
    <2>2. ~(Len(f) + 1 <= Len(rs))
      BY <1>3, <2>1
    <2> QED
      BY <2>1, <2>2
  <1>8. mode
    BY <1>1, <1>7 DEF RegularMode
  <1>9. after # {} /\ subs \subseteq after
    <2>1. topics[1] \in ToSet(topics)
      BY <1>2
    <2> QED
      BY <2>1
  <1>10. ItemsKnown(cmds, g, TRUE)
    BY <1>1, <1>4, <1>5 DEF ItemsKnown
  <1>11. InOrder(cmds, g, q, rs, TRUE)
    <2>1. ASSUME NEW i \in 1..Len(g), ~IsClosing(g[i])
          PROVE  /\ i <= Len(rs) <=> IsAnswer(cmds, g[i])
                 /\ i <= Len(rs) => rs[i] = Fn(cmds, g[i].to)
      <3>1. CASE i \in 1..Len(f) /\ g[i] = f[i]
        BY <1>1, <2>1, <3>1 DEF InOrder
      <3>2. CASE i > Len(f) /\ g[i].type = "subscribe" /\ g[i].topic \in ToSet(topics)
        BY <1>5, <1>7, <3>2
      <3> QED
        BY <1>4, <3>1, <3>2
    <2>2. ASSUME NEW j \in 1..Len(q)
          PROVE  ~(Len(g) + j <= Len(rs)) /\ cmds[q[j]].place # "replies"
      <3>1. j + 1 \in 1..Len(p) /\ q[j] = p[j + 1] /\ ~(Len(f) + (j + 1) <= Len(rs))
        BY <1>3, <1>7
      <3> QED
        BY <1>7, <3>1
    <2>3. Len(rs) <= Len(g) + Len(q)
      BY <1>7
    <2> QED
      BY <2>1, <2>2, <2>3 DEF InOrder
  <1>12. UnsubsLast(cmds, g, q, after, uns)
    <2>1. \A i \in 1..Len(g) : ~Unsub(g[i])
      <3>1. p # <<>>
        OBVIOUS
      <3>2. \A i \in 1..Len(f) : ~Unsub(f[i])
        BY <1>1, <3>1 DEF UnsubsLast
      <3> QED
        BY <1>4, <1>5, <3>2
    <2>2. ASSUME NEW j \in 1..Len(q), cmds[q[j]].place = "UNSUBSCRIBE"
          PROVE  /\ j = Len(q) /\ IsInjective(cmds[q[j]].topics)
                 /\ \A t \in ToSet(cmds[q[j]].topics) :
                       t \in uns /\ (t \in after \/ \E k \in 1..(j - 1) :
                           cmds[q[k]].place = "SUBSCRIBE" /\ t \in ToSet(cmds[q[k]].topics))
      <3>1. j + 1 \in 1..Len(p) /\ q[j] = p[j + 1] /\ (j + 1) - 1 = j
        BY <1>3
      <3>2. /\ j + 1 = Len(p) /\ IsInjective(cmds[q[j]].topics)
            /\ \A t \in ToSet(cmds[q[j]].topics) :
                  t \in uns /\ (t \in subs \/ \E k \in 1..j :
                      cmds[p[k]].place = "SUBSCRIBE" /\ t \in ToSet(cmds[p[k]].topics))
        <4>1. cmds[p[j + 1]].place = "UNSUBSCRIBE"
          BY <2>2, <3>1
        <4>2. /\ j + 1 = Len(p) /\ IsInjective(cmds[p[j + 1]].topics)
              /\ \A t \in ToSet(cmds[p[j + 1]].topics) :
                    t \in uns /\ (t \in subs \/ \E k \in 1..((j + 1) - 1) :
                        cmds[p[k]].place = "SUBSCRIBE" /\ t \in ToSet(cmds[p[k]].topics))
          BY <1>1, <3>1, <4>1, Zenon DEF UnsubsLast
        <4> QED
          BY <3>1, <4>2
      <3>3. \A k \in 1..j : k = 1 \/ (k - 1 \in 1..(j - 1) /\ p[k] = q[k - 1])
        <4>1. \A k \in 1..j : k \in 1..Len(p)
          OBVIOUS
        <4> QED
          BY <1>6, <4>1
      <3>4. ASSUME NEW t \in ToSet(cmds[q[j]].topics)
            PROVE  t \in uns /\ (t \in after \/ \E k \in 1..(j - 1) :
                      cmds[q[k]].place = "SUBSCRIBE" /\ t \in ToSet(cmds[q[k]].topics))
        <4>1. CASE t \in subs
          BY <1>9, <3>2, <4>1
        <4>2. ASSUME NEW k \in 1..j, cmds[p[k]].place = "SUBSCRIBE", t \in ToSet(cmds[p[k]].topics)
              PROVE  t \in after \/ \E l \in 1..(j - 1) :
                        cmds[q[l]].place = "SUBSCRIBE" /\ t \in ToSet(cmds[q[l]].topics)
          <5>1. CASE k = 1
            BY <4>2, <5>1
          <5>2. CASE k - 1 \in 1..(j - 1) /\ p[k] = q[k - 1]
            BY <4>2, <5>2
          <5> QED
            BY <3>3, <5>1, <5>2
        <4> QED
          BY <3>2, <4>1, <4>2
      <3> QED
        BY <3>2, <3>4
    <2> QED
      BY <2>1, <2>2 DEF UnsubsLast
  <1>13. TopicsKnown(cmds, g, q, after, uns, dom)
    <2>1. ToSet(topics) \subseteq dom /\ subs \subseteq dom
      BY <1>1, <1>3 DEF TopicsKnown
    <2>2. \A i \in 1..Len(g) : IsTopical(g[i]) => g[i].topic \in dom
      BY <1>1, <1>4, <2>1 DEF TopicsKnown
    <2>3. \A j \in 1..Len(q) : cmds[q[j]].place = "SUBSCRIBE" => ToSet(cmds[q[j]].topics) \subseteq dom
      <3>1. \A j \in 1..Len(p) : cmds[p[j]].place = "SUBSCRIBE" => ToSet(cmds[p[j]].topics) \subseteq dom
        BY <1>1, Zenon DEF TopicsKnown
      <3> SUFFICES ASSUME NEW j \in 1..Len(q), cmds[q[j]].place = "SUBSCRIBE"
                   PROVE  ToSet(cmds[q[j]].topics) \subseteq dom
        BY Zenon
      <3>2. j + 1 \in 1..Len(p) /\ q[j] = p[j + 1]
        BY <1>3
      <3> QED
        BY <3>1, <3>2
    <2>4. \A t \in dom : t \in after \/ t \in uns \/ \E k \in 1..Len(q) :
                    cmds[q[k]].place = "SUBSCRIBE" /\ t \in ToSet(cmds[q[k]].topics)
      <3>1. \A t \in dom : t \in subs \/ t \in uns \/ \E k \in 1..Len(p) :
                    cmds[p[k]].place = "SUBSCRIBE" /\ t \in ToSet(cmds[p[k]].topics)
        BY <1>1 DEF TopicsKnown
      <3>2. ASSUME NEW t, NEW k \in 1..Len(p), cmds[p[k]].place = "SUBSCRIBE", t \in ToSet(cmds[p[k]].topics)
            PROVE  t \in after \/ \E l \in 1..Len(q) :
                      cmds[q[l]].place = "SUBSCRIBE" /\ t \in ToSet(cmds[q[l]].topics)
        <4>1. CASE k = 1
          BY <3>2, <4>1
        <4>2. CASE k - 1 \in 1..Len(q) /\ p[k] = q[k - 1]
          BY <3>2, <4>2
        <4> QED
          BY <1>6, <4>1, <4>2
      <3> QED
        BY <1>9, <3>1, <3>2
    <2> QED
      BY <2>1, <2>2, <2>3, <2>4 DEF TopicsKnown
  <1>14. SubscribedMode(cmds, g, q, after) /\ WillRefuse(cmds, q, after) /\ Len(rs) <= Len(g)
    BY <1>7, <1>9 DEF SubscribedMode, WillRefuse
  <1> QED
    BY <1>8, <1>10, <1>11, <1>12, <1>13, <1>14 DEF Queue

\* The last command unsubscribes from these topics, and the server answers it.
Unsubscribing(cmds, f, p, subs, g, topics, after) ==
    /\ Len(f) \in Nat /\ Len(topics) \in Nat /\ "none" \notin ToSet(topics) /\ Len(p) = 1
    /\ cmds[p[1]].place = "UNSUBSCRIBE" /\ p[1] # 0 /\ cmds[p[1]].topics = topics /\ Len(topics) >= 1
    /\ \A i : i \in DOMAIN topics <=> i \in 1..Len(topics)
    /\ \A t : t \in after <=> t \in subs /\ t \notin ToSet(topics)
    /\ Len(g) = Len(f) + Len(topics) /\ \A i \in 1..Len(f) : g[i] = f[i]
    /\ \A i \in 1..Len(topics) :
          /\ g[Len(f) + i].type = "unsubscribe" /\ g[Len(f) + i].topic = topics[i]
          /\ g[Len(f) + i].count = 0 => i >= Len(topics) /\ after = {}
    /\ after = {} => g[Len(f) + Len(topics)].count = 0

\* The server ends the subscriptions of the last command.
LEMMA QueueUnsubscribed ==
    ASSUME NEW cmds, NEW f, NEW p, NEW rs, NEW on, NEW mode, NEW subs, NEW uns, NEW dom,
           NEW g, NEW topics, NEW after, on = TRUE,
           Len(rs) \in Nat, Queue(cmds, f, p, rs, on, mode, subs, uns, dom),
           Unsubscribing(cmds, f, p, subs, g, topics, after)
    PROVE  Queue(cmds, g, <<>>, rs, on, mode, after, uns, dom)
  <1> USE DEF Unsubscribing
  <1>1. /\ ItemsKnown(cmds, f, TRUE) /\ InOrder(cmds, f, p, rs, TRUE)
        /\ ~mode => RegularMode(cmds, f, p, rs, TRUE, subs)
        /\ UnsubsLast(cmds, f, p, subs, uns) /\ TopicsKnown(cmds, f, p, subs, uns, dom)
    BY DEF Queue
  <1>2. \A i \in 1..Len(topics) : topics[i] \in ToSet(topics)
    BY DEF ToSet
  <1>3. 1 \in 1..Len(p) /\ Len(<<>>) = 0 /\ \A j \in 1..Len(<<>>) : FALSE
    OBVIOUS
  <1>4. \A i \in 1..Len(g) : \/ i \in 1..Len(f) /\ g[i] = f[i]
                             \/ /\ i > Len(f) /\ g[i].type = "unsubscribe" /\ g[i].topic \in ToSet(topics)
                                /\ i - Len(f) \in 1..Len(topics) /\ g[i].topic = topics[i - Len(f)]
                                /\ g[i].count = 0 => i = Len(g) /\ after = {}
    <2> SUFFICES ASSUME NEW i \in 1..Len(g), i \notin 1..Len(f)
                 PROVE  /\ i > Len(f) /\ g[i].type = "unsubscribe" /\ g[i].topic \in ToSet(topics)
                        /\ i - Len(f) \in 1..Len(topics) /\ g[i].topic = topics[i - Len(f)]
                        /\ g[i].count = 0 => i = Len(g) /\ after = {}
      OBVIOUS
    <2>1. i - Len(f) \in 1..Len(topics) /\ Len(f) + (i - Len(f)) = i
      OBVIOUS
    <2>2. PICK k \in 1..Len(topics) : k = i - Len(f) /\ i = Len(f) + k
      BY <2>1
    <2>3. /\ g[i].type = "unsubscribe" /\ g[i].topic = topics[k]
          /\ g[i].count = 0 => k >= Len(topics) /\ after = {}
      <3>1. /\ g[Len(f) + k].type = "unsubscribe" /\ g[Len(f) + k].topic = topics[k]
            /\ g[Len(f) + k].count = 0 => k >= Len(topics) /\ after = {}
        BY Zenon
      <3> QED
        BY <2>2, <3>1, Zenon
    <2>4. ASSUME k >= Len(topics) PROVE i = Len(g)
      <3>1. k \in Nat /\ k <= Len(topics)
        BY <2>2
      <3>2. \A a, b, c \in Nat : a >= b /\ a <= b => c + a = c + b
        OBVIOUS
      <3>3. Len(f) + k = Len(f) + Len(topics)
        BY <2>4, <3>1, <3>2, Zenon
      <3> QED
        BY <2>2, <3>3
    <2> QED
      BY <1>2, <2>1, <2>2, <2>3, <2>4
  <1>5. \A x : x.type = "unsubscribe" /\ x.topic \in ToSet(topics) =>
                  IsTopical(x) /\ Unsub(x) /\ ~IsClosing(x) /\ ~IsAnswer(cmds, x)
    BY DEF IsTopical, TopicTypes, Unsub, IsClosing, IsAnswer
  <1>6. Len(rs) <= Len(f)
    <2>1. \A j \in 1..Len(p) : Len(f) + j <= Len(rs) <=> cmds[p[j]].place = "replies"
      BY <1>1 DEF InOrder
    <2>2. ~(Len(f) + 1 <= Len(rs))
      BY <1>3, <2>1
    <2> QED
      BY <2>2
  <1>7. mode
    BY <1>1, <1>6 DEF RegularMode
  <1>8. IsInjective(topics) /\ \A t \in ToSet(topics) : t \in uns /\ t \in subs
    <2>1. \A k \in 1..(1 - 1) : FALSE
      OBVIOUS
    <2>2. /\ IsInjective(topics)
          /\ \A t \in ToSet(topics) :
                t \in uns /\ (t \in subs \/ \E k \in 1..(1 - 1) :
                    cmds[p[k]].place = "SUBSCRIBE" /\ t \in ToSet(cmds[p[k]].topics))
      BY <1>1, <1>3 DEF UnsubsLast
    <2> QED
      BY <2>1, <2>2
  <1>15. \A a, b \in 1..Len(topics) : topics[a] = topics[b] => a = b
    BY <1>8 DEF IsInjective
  <1>9. ItemsKnown(cmds, g, TRUE)
    BY <1>1, <1>4, <1>5 DEF ItemsKnown
  <1>10. InOrder(cmds, g, <<>>, rs, TRUE)
    <2>1. ASSUME NEW i \in 1..Len(g), ~IsClosing(g[i])
          PROVE  /\ i <= Len(rs) <=> IsAnswer(cmds, g[i])
                 /\ i <= Len(rs) => rs[i] = Fn(cmds, g[i].to)
      <3>1. CASE i \in 1..Len(f) /\ g[i] = f[i]
        BY <1>1, <2>1, <3>1 DEF InOrder
      <3>2. CASE i > Len(f) /\ g[i].type = "unsubscribe" /\ g[i].topic \in ToSet(topics)
        BY <1>5, <1>6, <3>2
      <3> QED
        BY <1>4, <3>1, <3>2
    <2>2. Len(rs) <= Len(g) + Len(<<>>)
      BY <1>3, <1>6
    <2> QED
      BY <1>3, <2>1, <2>2 DEF InOrder
  <1>11. UnsubsLast(cmds, g, <<>>, after, uns)
    <2>1. ASSUME NEW i \in 1..Len(g), Unsub(g[i])
          PROVE  /\ g[i].topic \in uns /\ g[i].topic \notin after
                 /\ \A j \in (i + 1)..Len(g) : g[j].topic # g[i].topic
                 /\ g[i].count = 0 => after = {} /\ \A j \in (i + 1)..Len(g) : IsClosing(g[j])
      <3>1. i \notin 1..Len(f)
        <4>1. p # <<>>
          BY <1>3
        <4>2. \A k \in 1..Len(f) : ~Unsub(f[k])
          BY <1>1, <4>1 DEF UnsubsLast
        <4> QED
          BY <2>1, <4>2
      <3>2. /\ i > Len(f) /\ g[i].topic \in ToSet(topics)
            /\ i - Len(f) \in 1..Len(topics) /\ g[i].topic = topics[i - Len(f)]
            /\ g[i].count = 0 => i = Len(g) /\ after = {}
        BY <1>4, <3>1
      <3>3. ASSUME NEW j \in (i + 1)..Len(g) PROVE g[j].topic # g[i].topic
        <4>1. j \in 1..Len(g) /\ j \notin 1..Len(f)
          BY <3>2
        <4>2. j - Len(f) \in 1..Len(topics) /\ g[j].topic = topics[j - Len(f)]
          BY <1>4, <4>1
        <4>3. j - Len(f) # i - Len(f)
          BY <3>2
        <4> QED
          BY <1>15, <3>2, <4>2, <4>3
      <3>4. g[i].count = 0 => after = {} /\ \A j \in (i + 1)..Len(g) : IsClosing(g[j])
        BY <3>2
      <3> QED
        BY <1>8, <3>2, <3>3, <3>4
    <2> QED
      BY <1>3, <2>1 DEF UnsubsLast
  <1>12. TopicsKnown(cmds, g, <<>>, after, uns, dom)
    <2>1. subs \subseteq dom
      BY <1>1 DEF TopicsKnown
    <2>2. \A i \in 1..Len(g) : IsTopical(g[i]) => g[i].topic \in dom
      BY <1>1, <1>4, <1>8, <2>1 DEF TopicsKnown
    <2>3. \A t \in dom : t \in after \/ t \in uns
      <3>1. \A t \in dom : t \in subs \/ t \in uns \/ \E k \in 1..Len(p) : cmds[p[k]].place = "SUBSCRIBE"
        BY <1>1 DEF TopicsKnown
      <3>2. \A k \in 1..Len(p) : cmds[p[k]].place # "SUBSCRIBE"
        <4>1. \A k \in 1..Len(p) : k = 1
          OBVIOUS
        <4> QED
          BY <4>1
      <3> QED
        BY <1>8, <3>1, <3>2
    <2> QED
      BY <1>3, <2>1, <2>2, <2>3 DEF TopicsKnown
  <1>13. SubscribedMode(cmds, g, <<>>, after)
    <2>1. CASE after = {}
      <3>1. Len(topics) \in 1..Len(topics)
        OBVIOUS
      <3>2. g[Len(f) + Len(topics)].count = 0 /\ g[Len(f) + Len(topics)].type = "unsubscribe"
        BY <2>1, <3>1
      <3>3. Len(f) + Len(topics) \in 1..Len(g)
        OBVIOUS
      <3> QED
        BY <3>2, <3>3 DEF SubscribedMode, Unsub
    <2>2. CASE after # {}
      BY <2>2 DEF SubscribedMode
    <2> QED
      BY <2>1, <2>2
  <1>14. WillRefuse(cmds, <<>>, after) /\ Len(rs) <= Len(g)
    BY <1>3, <1>6 DEF WillRefuse
  <1> QED
    BY <1>7, <1>9, <1>10, <1>11, <1>12, <1>13, <1>14 DEF Queue

\* A new command changes nothing of those on their way.
LEMMA QueueRenamed ==
    ASSUME NEW cmds, NEW more, NEW f, NEW p, NEW rs, NEW on, NEW mode, NEW subs,
           NEW uns, NEW dom, NEW old,
           Len(f) \in Nat, Len(p) \in Nat, Len(rs) \in Nat,
           Queue(cmds, f, p, rs, on, mode, subs, uns, dom),
           \A i \in 1..Len(f) : f[i].to = 0 \/ f[i].to \in old, \A j \in 1..Len(p) : p[j] \in old,
           \A n \in old : more[n] = cmds[n]
    PROVE  Queue(more, f, p, rs, on, mode, subs, uns, dom)
  <1>1. /\ ItemsKnown(cmds, f, on) /\ InOrder(cmds, f, p, rs, on)
        /\ ~mode => RegularMode(cmds, f, p, rs, on, subs)
        /\ UnsubsLast(cmds, f, p, subs, uns) /\ TopicsKnown(cmds, f, p, subs, uns, dom)
        /\ on => /\ mode => SubscribedMode(cmds, f, p, subs)
                 /\ WillRefuse(cmds, p, subs)
                 /\ subs # {} => Len(rs) <= Len(f)
    BY DEF Queue
  <1>2. \A i \in 1..Len(f) : /\ IsAnswer(more, f[i]) <=> IsAnswer(cmds, f[i])
                             /\ IsRefused(more, f[i]) <=> IsRefused(cmds, f[i])
                             /\ IsAnswer(cmds, f[i]) => Fn(more, f[i].to) = Fn(cmds, f[i].to)
    BY DEF IsAnswer, IsRefused, Fn
  <1>3. \A j \in 1..Len(p) : more[p[j]] = cmds[p[j]] /\ Fn(more, p[j]) = Fn(cmds, p[j])
    BY DEF Fn
  <1>4. ItemsKnown(more, f, on)
    BY <1>1, <1>2 DEF ItemsKnown
  <1>5. InOrder(more, f, p, rs, on)
    <2>1. ASSUME NEW i \in 1..Len(f), ~IsClosing(f[i])
          PROVE  /\ i <= Len(rs) <=> IsAnswer(more, f[i])
                 /\ i <= Len(rs) => rs[i] = Fn(more, f[i].to)
      BY <1>1, <1>2, <2>1 DEF InOrder
    <2>2. on => /\ Len(rs) <= Len(f) + Len(p)
                /\ \A j \in 1..Len(p) : /\ Len(f) + j <= Len(rs) <=> more[p[j]].place = "replies"
                                        /\ Len(f) + j <= Len(rs) => rs[Len(f) + j] = Fn(more, p[j])
      BY <1>1, <1>3 DEF InOrder
    <2> QED
      BY <2>1, <2>2 DEF InOrder
  <1>6. ~mode => RegularMode(more, f, p, rs, on, subs)
    BY <1>1 DEF RegularMode
  <1>7. \A j \in 1..Len(p) : \A k \in 1..(j - 1) : k \in 1..Len(p)
    OBVIOUS
  <1>8. UnsubsLast(more, f, p, subs, uns)
    <2>1. \A j \in 1..Len(p) : cmds[p[j]].place = "UNSUBSCRIBE" =>
             /\ j = Len(p) /\ IsInjective(cmds[p[j]].topics)
             /\ \A t \in ToSet(cmds[p[j]].topics) :
                   t \in uns /\ (t \in subs \/ \E k \in 1..(j - 1) :
                       cmds[p[k]].place = "SUBSCRIBE" /\ t \in ToSet(cmds[p[k]].topics))
      BY <1>1 DEF UnsubsLast
    <2>2. ASSUME NEW j \in 1..Len(p), more[p[j]].place = "UNSUBSCRIBE"
          PROVE  /\ j = Len(p) /\ IsInjective(more[p[j]].topics)
                 /\ \A t \in ToSet(more[p[j]].topics) :
                       t \in uns /\ (t \in subs \/ \E k \in 1..(j - 1) :
                           more[p[k]].place = "SUBSCRIBE" /\ t \in ToSet(more[p[k]].topics))
      <3>1. cmds[p[j]].place = "UNSUBSCRIBE" /\ more[p[j]] = cmds[p[j]]
        BY <1>3, <2>2
      <3>2. \A k \in 1..(j - 1) : more[p[k]] = cmds[p[k]]
        BY <1>3, <1>7
      <3> QED
        BY <2>1, <3>1, <3>2
    <2> QED
      BY <1>1, <2>2 DEF UnsubsLast
  <1>9. TopicsKnown(more, f, p, subs, uns, dom)
    BY <1>1, <1>3 DEF TopicsKnown
  <1>10. on /\ mode => SubscribedMode(more, f, p, subs)
    BY <1>1, <1>3 DEF SubscribedMode
  <1>11. on => WillRefuse(more, p, subs)
    BY <1>1, <1>3, <1>7 DEF WillRefuse
  <1> QED
    BY <1>1, <1>4, <1>5, <1>6, <1>8, <1>9, <1>10, <1>11 DEF Queue

\* Command n is appended to what is to be written.
Issuing(cmds, f, p, rs, q, n) ==
    /\ Len(f) \in Nat /\ Len(p) \in Nat /\ Len(rs) \in Nat
    /\ \A j \in 1..Len(p) : cmds[p[j]].place = "UNSUBSCRIBE" => ToSet(cmds[p[j]].topics) # {}
    /\ Len(q) = Len(p) + 1 /\ q[Len(p) + 1] = n /\ \A j \in 1..Len(p) : q[j] = p[j]

\* Where its callback goes, and what it does to the mode, the unsubscriptions
\* under way and the topics.
Issued(cmds, n, topics, mode, then, rs, qs, dom, left, keys) ==
    \/ /\ cmds[n].place = "replies" /\ ~mode /\ then = FALSE /\ left = {} /\ keys = dom
       /\ Len(qs) = Len(rs) + 1 /\ qs[Len(rs) + 1] = Fn(cmds, n) /\ \A i \in 1..Len(rs) : qs[i] = rs[i]
    \/ cmds[n].place = "invalid" /\ mode /\ then = TRUE /\ qs = rs /\ left = {} /\ keys = dom
    \/ /\ cmds[n].place = "SUBSCRIBE" /\ then = TRUE /\ qs = rs /\ left = {}
       /\ keys = dom \cup ToSet(topics)
    \/ /\ cmds[n].place = "UNSUBSCRIBE" /\ mode /\ then = TRUE /\ qs = rs /\ left = ToSet(topics)
       /\ IsInjective(topics) /\ ToSet(topics) \subseteq dom /\ keys = dom

\* The user issues a command, when no unsubscription is under way.
LEMMA QueueIssued ==
    ASSUME NEW cmds, NEW f, NEW p, NEW rs, NEW on, NEW mode, NEW subs, NEW dom,
           NEW q, NEW qs, NEW n, NEW topics, NEW then, NEW left, NEW keys,
           Queue(cmds, f, p, rs, on, mode, subs, {}, dom), cmds[n].topics = topics,
           Issuing(cmds, f, p, rs, q, n), Issued(cmds, n, topics, mode, then, rs, qs, dom, left, keys)
    PROVE  Queue(cmds, f, q, qs, on, then, subs, left, keys)
  <1> USE DEF Issuing
  <1>1. /\ ItemsKnown(cmds, f, on) /\ InOrder(cmds, f, p, rs, on)
        /\ ~mode => RegularMode(cmds, f, p, rs, on, subs)
        /\ UnsubsLast(cmds, f, p, subs, {}) /\ TopicsKnown(cmds, f, p, subs, {}, dom)
        /\ on => /\ mode => SubscribedMode(cmds, f, p, subs)
                 /\ WillRefuse(cmds, p, subs)
                 /\ subs # {} => Len(rs) <= Len(f)
    BY DEF Queue
  <1>2. /\ \A i \in 1..Len(f) : ~Unsub(f[i])
        /\ \A j \in 1..Len(p) : cmds[p[j]].place # "UNSUBSCRIBE"
    BY <1>1 DEF UnsubsLast
  <1>3. /\ \A j \in 1..Len(q) : (j \in 1..Len(p) /\ q[j] = p[j]) \/ (j = Len(p) + 1 /\ q[j] = n)
        /\ \A j \in 1..Len(p) : j \in 1..Len(q) /\ q[j] = p[j]
        /\ Len(q) \in 1..Len(q) /\ q[Len(q)] = n
    OBVIOUS
  <1>4. \A j \in 1..Len(q) : \A k \in 1..(j - 1) : k \in 1..Len(p)
    OBVIOUS
  <1>5. \A j \in 1..Len(p) : \A k \in 1..(j - 1) : k \in 1..Len(p)
    OBVIOUS
  <1>6. ASSUME cmds[n].place # "replies" PROVE InOrder(cmds, f, q, rs, on)
    <2>1. ASSUME on
          PROVE  /\ Len(rs) <= Len(f) + Len(q)
                 /\ \A j \in 1..Len(q) : /\ Len(f) + j <= Len(rs) <=> cmds[q[j]].place = "replies"
                                         /\ Len(f) + j <= Len(rs) => rs[Len(f) + j] = Fn(cmds, q[j])
      <3>1. /\ Len(rs) <= Len(f) + Len(p)
            /\ \A j \in 1..Len(p) : /\ Len(f) + j <= Len(rs) <=> cmds[p[j]].place = "replies"
                                    /\ Len(f) + j <= Len(rs) => rs[Len(f) + j] = Fn(cmds, p[j])
        BY <1>1, <2>1 DEF InOrder
      <3>2. ~(Len(f) + (Len(p) + 1) <= Len(rs)) /\ Len(rs) <= Len(f) + Len(q)
        BY <3>1
      <3> QED
        BY <1>3, <1>6, <3>1, <3>2
    <2> QED
      BY <1>1, <2>1 DEF InOrder
  <1>7. ASSUME cmds[n].place \notin {"SUBSCRIBE", "UNSUBSCRIBE"}
        PROVE  UnsubsLast(cmds, f, q, subs, {}) /\ TopicsKnown(cmds, f, q, subs, {}, dom)
    <2>1. UnsubsLast(cmds, f, q, subs, {})
      BY <1>2, <1>3, <1>7 DEF UnsubsLast
    <2>2. /\ \A i \in 1..Len(f) : IsTopical(f[i]) => f[i].topic \in dom
          /\ subs \subseteq dom
          /\ \A j \in 1..Len(p) : cmds[p[j]].place = "SUBSCRIBE" => ToSet(cmds[p[j]].topics) \subseteq dom
          /\ \A t \in dom : t \in subs \/ \E k \in 1..Len(p) :
                    cmds[p[k]].place = "SUBSCRIBE" /\ t \in ToSet(cmds[p[k]].topics)
      BY <1>1 DEF TopicsKnown
    <2>3. \A j \in 1..Len(q) : cmds[q[j]].place = "SUBSCRIBE" => ToSet(cmds[q[j]].topics) \subseteq dom
      BY <1>3, <1>7, <2>2
    <2>4. ASSUME NEW t \in dom
          PROVE  t \in subs \/ \E k \in 1..Len(q) :
                    cmds[q[k]].place = "SUBSCRIBE" /\ t \in ToSet(cmds[q[k]].topics)
      BY <1>3, <2>2
    <2>5. TopicsKnown(cmds, f, q, subs, {}, dom)
      BY <2>2, <2>3, <2>4 DEF TopicsKnown
    <2> QED
      BY <2>1, <2>5
  <1>8. ASSUME on, cmds[n].place # "invalid" PROVE WillRefuse(cmds, q, subs)
    <2> SUFFICES ASSUME NEW j \in 1..Len(q), cmds[q[j]].place = "invalid", subs = {}
                 PROVE  \E k \in 1..(j - 1) : cmds[q[k]].place = "SUBSCRIBE"
      BY DEF WillRefuse
    <2>1. j \in 1..Len(p) /\ q[j] = p[j]
      BY <1>3, <1>8
    <2>2. PICK k \in 1..(j - 1) : cmds[p[k]].place = "SUBSCRIBE"
      BY <1>1, <1>8, <2>1 DEF WillRefuse
    <2>3. q[k] = p[k]
      BY <1>3, <1>5, <2>1
    <2> QED
      BY <2>2, <2>3
  <1>9. ASSUME on, mode PROVE SubscribedMode(cmds, f, q, subs)
    BY <1>1, <1>3, <1>9 DEF SubscribedMode
  <1>10. ASSUME ~mode, cmds[n].place = "replies",
                Len(qs) = Len(rs) + 1, qs[Len(rs) + 1] = Fn(cmds, n), \A i \in 1..Len(rs) : qs[i] = rs[i]
         PROVE  Queue(cmds, f, q, qs, on, FALSE, subs, {}, dom)
    <2>1. /\ \A i \in 1..Len(f) : i <= Len(rs) \/ IsClosing(f[i])
          /\ on => Len(f) + Len(p) <= Len(rs)
          /\ subs = {}
      BY <1>1, <1>10 DEF RegularMode
    <2>2. InOrder(cmds, f, q, qs, on)
      <3>1. ASSUME NEW i \in 1..Len(f), ~IsClosing(f[i])
            PROVE  /\ i <= Len(qs) <=> IsAnswer(cmds, f[i])
                   /\ i <= Len(qs) => qs[i] = Fn(cmds, f[i].to)
        <4>1. i <= Len(rs) /\ i \in 1..Len(rs)
          BY <2>1, <3>1
        <4>2. i <= Len(qs) /\ qs[i] = rs[i]
          BY <1>10, <4>1
        <4> QED
          BY <1>1, <3>1, <4>1, <4>2 DEF InOrder
      <3>2. ASSUME on
            PROVE  /\ Len(qs) <= Len(f) + Len(q)
                   /\ \A j \in 1..Len(q) : /\ Len(f) + j <= Len(qs) <=> cmds[q[j]].place = "replies"
                                           /\ Len(f) + j <= Len(qs) => qs[Len(f) + j] = Fn(cmds, q[j])
        <4>1. /\ Len(rs) <= Len(f) + Len(p)
              /\ \A j \in 1..Len(p) : /\ Len(f) + j <= Len(rs) <=> cmds[p[j]].place = "replies"
                                      /\ Len(f) + j <= Len(rs) => rs[Len(f) + j] = Fn(cmds, p[j])
          BY <1>1, <3>2 DEF InOrder
        <4>2. Len(rs) = Len(f) + Len(p)
          BY <2>1, <3>2, <4>1
        <4>3. Len(qs) = Len(f) + Len(q)
          BY <1>10, <4>2
        <4>4. ASSUME NEW j \in 1..Len(q)
              PROVE  /\ Len(f) + j <= Len(qs) <=> cmds[q[j]].place = "replies"
                     /\ Len(f) + j <= Len(qs) => qs[Len(f) + j] = Fn(cmds, q[j])
          <5>1. Len(f) + j <= Len(qs)
            BY <4>3
          <5>2. CASE j \in 1..Len(p) /\ q[j] = p[j]
            <6>1. Len(f) + j \in 1..Len(rs)
              BY <4>2, <5>2
            <6>2. qs[Len(f) + j] = rs[Len(f) + j]
              BY <1>10, <6>1
            <6> QED
              BY <4>1, <5>1, <5>2, <6>1, <6>2
          <5>3. CASE j = Len(p) + 1 /\ q[j] = n
            <6>1. Len(f) + j = Len(rs) + 1
              BY <4>2, <5>3
            <6> QED
              BY <1>10, <5>1, <5>3, <6>1
          <5> QED
            BY <1>3, <5>2, <5>3
        <4> QED
          BY <4>3, <4>4
      <3> QED
        BY <3>1, <3>2 DEF InOrder
    <2>3. RegularMode(cmds, f, q, qs, on, subs)
      <3>1. \A i \in 1..Len(f) : i <= Len(qs) \/ IsClosing(f[i])
        BY <1>10, <2>1
      <3>2. on => Len(f) + Len(q) <= Len(qs)
        BY <1>10, <2>1
      <3> QED
        BY <2>1, <3>1, <3>2 DEF RegularMode
    <2> QED
      BY <1>1, <1>7, <1>8, <1>10, <2>1, <2>2, <2>3 DEF Queue
  <1>11. ASSUME mode, cmds[n].place = "invalid" PROVE Queue(cmds, f, q, rs, on, TRUE, subs, {}, dom)
    <2>1. ASSUME on PROVE WillRefuse(cmds, q, subs)
      <3>1. subs # {} \/ \E j \in 1..Len(p) : cmds[p[j]].place = "SUBSCRIBE"
        BY <1>1, <1>2, <1>11, <2>1 DEF SubscribedMode
      <3> SUFFICES ASSUME NEW j \in 1..Len(q), cmds[q[j]].place = "invalid", subs = {}
                   PROVE  \E k \in 1..(j - 1) : cmds[q[k]].place = "SUBSCRIBE"
        BY DEF WillRefuse
      <3>2. CASE j \in 1..Len(p) /\ q[j] = p[j]
        <4>1. PICK k \in 1..(j - 1) : cmds[p[k]].place = "SUBSCRIBE"
          BY <1>1, <2>1, <3>2 DEF WillRefuse
        <4>2. q[k] = p[k]
          BY <1>3, <1>5, <3>2
        <4> QED
          BY <4>1, <4>2
      <3>3. CASE j = Len(p) + 1 /\ q[j] = n
        <4>1. PICK k \in 1..Len(p) : cmds[p[k]].place = "SUBSCRIBE"
          BY <3>1
        <4>2. k \in 1..(j - 1) /\ q[k] = p[k]
          BY <1>3, <3>3
        <4> QED
          BY <4>1, <4>2
      <3> QED
        BY <1>3, <3>2, <3>3
    <2> QED
      BY <1>1, <1>6, <1>7, <1>9, <1>11, <2>1 DEF Queue
  <1>12. ASSUME cmds[n].place = "SUBSCRIBE"
         PROVE  Queue(cmds, f, q, rs, on, TRUE, subs, {}, dom \cup ToSet(topics))
    <2>1. UnsubsLast(cmds, f, q, subs, {})
      BY <1>2, <1>3, <1>12 DEF UnsubsLast
    <2>2. TopicsKnown(cmds, f, q, subs, {}, dom \cup ToSet(topics))
      <3>1. /\ \A i \in 1..Len(f) : IsTopical(f[i]) => f[i].topic \in dom
            /\ subs \subseteq dom
            /\ \A j \in 1..Len(p) : cmds[p[j]].place = "SUBSCRIBE" => ToSet(cmds[p[j]].topics) \subseteq dom
            /\ \A t \in dom : t \in subs \/ \E k \in 1..Len(p) :
                      cmds[p[k]].place = "SUBSCRIBE" /\ t \in ToSet(cmds[p[k]].topics)
        BY <1>1 DEF TopicsKnown
      <3>2. \A j \in 1..Len(q) : cmds[q[j]].place = "SUBSCRIBE" =>
                                    ToSet(cmds[q[j]].topics) \subseteq dom \cup ToSet(topics)
        BY <1>3, <3>1
      <3>3. ASSUME NEW t \in dom
            PROVE  t \in subs \/ \E k \in 1..Len(q) :
                      cmds[q[k]].place = "SUBSCRIBE" /\ t \in ToSet(cmds[q[k]].topics)
        BY <1>3, <3>1
      <3>4. ASSUME NEW t \in ToSet(topics)
            PROVE  \E k \in 1..Len(q) : cmds[q[k]].place = "SUBSCRIBE" /\ t \in ToSet(cmds[q[k]].topics)
        BY <1>3, <1>12
      <3> QED
        BY <3>1, <3>2, <3>3, <3>4 DEF TopicsKnown
    <2>3. SubscribedMode(cmds, f, q, subs)
      BY <1>3, <1>12 DEF SubscribedMode
    <2> QED
      BY <1>1, <1>6, <1>8, <1>12, <2>1, <2>2, <2>3 DEF Queue
  <1>13. ASSUME mode, cmds[n].place = "UNSUBSCRIBE", IsInjective(topics), ToSet(topics) \subseteq dom
         PROVE  Queue(cmds, f, q, rs, on, TRUE, subs, ToSet(topics), dom)
    <2>1. /\ \A i \in 1..Len(f) : IsTopical(f[i]) => f[i].topic \in dom
          /\ subs \subseteq dom
          /\ \A j \in 1..Len(p) : cmds[p[j]].place = "SUBSCRIBE" => ToSet(cmds[p[j]].topics) \subseteq dom
          /\ \A t \in dom : t \in subs \/ \E k \in 1..Len(p) :
                    cmds[p[k]].place = "SUBSCRIBE" /\ t \in ToSet(cmds[p[k]].topics)
      BY <1>1 DEF TopicsKnown
    <2>2. UnsubsLast(cmds, f, q, subs, ToSet(topics))
      <3>1. ASSUME NEW j \in 1..Len(q), cmds[q[j]].place = "UNSUBSCRIBE"
            PROVE  /\ j = Len(q) /\ IsInjective(cmds[q[j]].topics)
                   /\ \A t \in ToSet(cmds[q[j]].topics) :
                         t \in ToSet(topics) /\ (t \in subs \/ \E k \in 1..(j - 1) :
                             cmds[q[k]].place = "SUBSCRIBE" /\ t \in ToSet(cmds[q[k]].topics))
        <4>1. j = Len(p) + 1 /\ q[j] = n /\ j = Len(q) /\ j - 1 = Len(p)
          BY <1>2, <1>3, <3>1
        <4>2. ASSUME NEW t \in ToSet(topics)
              PROVE  t \in subs \/ \E k \in 1..(j - 1) :
                             cmds[q[k]].place = "SUBSCRIBE" /\ t \in ToSet(cmds[q[k]].topics)
          BY <1>3, <1>13, <2>1, <4>1
        <4> QED
          BY <1>13, <4>1, <4>2
      <3> QED
        BY <1>2, <3>1 DEF UnsubsLast
    <2>3. TopicsKnown(cmds, f, q, subs, ToSet(topics), dom)
      <3>1. \A j \in 1..Len(q) : cmds[q[j]].place = "SUBSCRIBE" => ToSet(cmds[q[j]].topics) \subseteq dom
        BY <1>3, <1>13, <2>1
      <3>2. ASSUME NEW t \in dom
            PROVE  t \in subs \/ \E k \in 1..Len(q) :
                      cmds[q[k]].place = "SUBSCRIBE" /\ t \in ToSet(cmds[q[k]].topics)
        BY <1>3, <2>1
      <3> QED
        BY <2>1, <3>1, <3>2 DEF TopicsKnown
    <2> QED
      BY <1>1, <1>6, <1>8, <1>9, <1>13, <2>2, <2>3 DEF Queue
  <1>14. CASE cmds[n].place = "replies"
    <2>1. /\ ~mode /\ then = FALSE /\ left = {} /\ keys = dom
          /\ Len(qs) = Len(rs) + 1 /\ qs[Len(rs) + 1] = Fn(cmds, n) /\ \A i \in 1..Len(rs) : qs[i] = rs[i]
      BY <1>14 DEF Issued
    <2> QED
      BY <1>10, <1>14, <2>1, Zenon
  <1>15. CASE cmds[n].place = "invalid"
    <2>1. mode /\ then = TRUE /\ qs = rs /\ left = {} /\ keys = dom
      BY <1>15 DEF Issued
    <2> QED
      BY <1>11, <1>15, <2>1, Zenon
  <1>16. CASE cmds[n].place = "SUBSCRIBE"
    <2>1. then = TRUE /\ qs = rs /\ left = {} /\ keys = dom \cup ToSet(topics)
      BY <1>16 DEF Issued
    <2> QED
      BY <1>12, <1>16, <2>1, Zenon
  <1>17. CASE cmds[n].place = "UNSUBSCRIBE"
    <2>1. /\ mode /\ then = TRUE /\ qs = rs /\ left = ToSet(topics)
          /\ IsInjective(topics) /\ ToSet(topics) \subseteq dom /\ keys = dom
      BY <1>17 DEF Issued
    <2> QED
      BY <1>13, <1>17, <2>1, Zenon
  <1> QED
    BY <1>14, <1>15, <1>16, <1>17 DEF Issued

-----------------------------------------------------------------------------
(***************************************************************************)
(* The order of the replies is kept.                                       *)
(***************************************************************************)

\* The replies that are read come before those on their way.
LEMMA ArrivingFacts ==
    ASSUME NEW S, NEW r \in Seq(S), NEW b \in Seq(S)
    PROVE  /\ r \o b \in Seq(S) /\ Len(r \o b) \in Nat /\ Len(r \o b) = Len(r) + Len(b)
           /\ r # <<>> => /\ Len(r \o b) >= 1 /\ (r \o b)[1] = Head(r)
                          /\ Len(Tail(r) \o b) = Len(r \o b) - 1
                          /\ \A i \in 1..Len(Tail(r) \o b) : (Tail(r) \o b)[i] = (r \o b)[i + 1]
           /\ \A k \in 0..Len(b) :
                 (r \o SubSeq(b, 1, k)) \o SubSeq(b, k + 1, Len(b)) = r \o b
  <1>1. /\ Len(r) \in Nat /\ Len(b) \in Nat
        /\ r \o b \in Seq(S) /\ Len(r \o b) = Len(r) + Len(b)
        /\ \A i \in 1..Len(r) : (r \o b)[i] = r[i]
        /\ \A i \in 1..Len(b) : (r \o b)[Len(r) + i] = b[i]
    BY QueueOperators
  <1>2. ASSUME r # <<>>
        PROVE  /\ Len(r \o b) >= 1 /\ (r \o b)[1] = Head(r)
               /\ Len(Tail(r) \o b) = Len(r \o b) - 1
               /\ \A i \in 1..Len(Tail(r) \o b) : (Tail(r) \o b)[i] = (r \o b)[i + 1]
    <2>1. /\ Head(r) = r[1] /\ Tail(r) \in Seq(S) /\ Len(Tail(r)) = Len(r) - 1 /\ Len(r) # 0
          /\ \A i \in 1..Len(Tail(r)) : Tail(r)[i] = r[i + 1]
      BY <1>2, QueueOperators
    <2>2. /\ Len(Tail(r) \o b) = Len(Tail(r)) + Len(b)
          /\ \A i \in 1..Len(Tail(r)) : (Tail(r) \o b)[i] = Tail(r)[i]
          /\ \A i \in 1..Len(b) : (Tail(r) \o b)[Len(Tail(r)) + i] = b[i]
      BY <2>1, QueueOperators
    <2>3. ASSUME NEW i \in 1..Len(Tail(r) \o b) PROVE (Tail(r) \o b)[i] = (r \o b)[i + 1]
      <3>1. CASE i \in 1..Len(Tail(r))
        <4>1. i + 1 \in 1..Len(r)
          BY <1>1, <2>1, <3>1
        <4> QED
          BY <1>1, <2>1, <2>2, <3>1, <4>1
      <3>2. CASE i \notin 1..Len(Tail(r))
        <4>1. PICK j \in 1..Len(b) : i = Len(Tail(r)) + j
          <5>1. i - Len(Tail(r)) \in 1..Len(b) /\ i = Len(Tail(r)) + (i - Len(Tail(r)))
            BY <1>1, <2>1, <2>2, <3>2
          <5> QED
            BY <5>1
        <4>2. i + 1 = Len(r) + j
          BY <1>1, <2>1, <4>1
        <4> QED
          BY <1>1, <2>2, <4>1, <4>2
      <3> QED
        BY <3>1, <3>2
    <2>4. Len(Tail(r) \o b) = Len(r \o b) - 1 /\ Len(r \o b) >= 1 /\ 1 \in 1..Len(r)
      BY <1>1, <2>1, <2>2
    <2> QED
      BY <1>1, <2>1, <2>3, <2>4
  <1>3. ASSUME NEW k \in 0..Len(b) PROVE (r \o SubSeq(b, 1, k)) \o SubSeq(b, k + 1, Len(b)) = r \o b
    <2>1. k \in Nat /\ k + 1 \in Nat /\ 1 \in 1..(Len(b) + 1) /\ k \in (1 - 1)..Len(b) /\ Len(b) \in k..Len(b)
          /\ k <= Len(b) /\ k + 1 >= 1
      BY <1>1
    <2>2. SubSeq(b, 1, k) \in Seq(S)
      BY <2>1, QueueOperators
    <2>3. SubSeq(b, k + 1, Len(b)) \in Seq(S)
      BY <1>1, <2>1, QueueOperators
    <2>4. SubSeq(b, 1, k) \o SubSeq(b, k + 1, Len(b)) = SubSeq(b, 1, Len(b))
      BY <2>1, ConcatAdjacentSubSeq
    <2>5. SubSeq(b, 1, Len(b)) = b
      BY SubSeqFull
    <2>6. (r \o SubSeq(b, 1, k)) \o SubSeq(b, k + 1, Len(b)) = r \o (SubSeq(b, 1, k) \o SubSeq(b, k + 1, Len(b)))
      <3>1. \A c, d \in Seq(S) : (r \o c) \o d = r \o (c \o d)
        BY ConcatAssociative
      <3> QED
        BY <2>2, <2>3, <3>1, Zenon
    <2> QED
      BY <2>4, <2>5, <2>6, Zenon
  <1>4. r \o b \in Seq(S) /\ Len(r \o b) \in Nat /\ Len(r \o b) = Len(r) + Len(b)
    BY <1>1
  <1> QED
    BY <1>2, <1>3, <1>4, Zenon

\* What has been said stays as it is when more is said.
LEMMA SaidFacts ==
    ASSUME NEW S, NEW r \in Seq(S), NEW b \in Seq(S), NEW c \in Seq(S), NEW m \in 0..Len(b),
           Len(c) >= m, \A i \in 1..m : c[i] = b[i]
    PROVE  /\ Len(r \o c) = Len(r) + Len(c) /\ Len(r) \in Nat
           /\ \A i \in 1..(Len(r) + m) : (r \o c)[i] = (r \o b)[i]
           /\ \A i \in 1..Len(c) : (r \o c)[Len(r) + i] = c[i]
  <1>1. /\ Len(r) \in Nat /\ Len(b) \in Nat /\ Len(c) \in Nat
        /\ \A i \in 1..Len(r) : (r \o b)[i] = r[i]
        /\ \A i \in 1..Len(b) : (r \o b)[Len(r) + i] = b[i]
    BY QueueOperators
  <1>2. /\ Len(r \o c) = Len(r) + Len(c)
        /\ \A i \in 1..Len(r) : (r \o c)[i] = r[i]
        /\ \A i \in 1..Len(c) : (r \o c)[Len(r) + i] = c[i]
    BY QueueOperators
  <1>3. ASSUME NEW i \in 1..(Len(r) + m) PROVE (r \o c)[i] = (r \o b)[i]
    <2>1. CASE i \in 1..Len(r)
      BY <1>1, <1>2, <2>1
    <2>2. CASE i \notin 1..Len(r)
      <3>1. PICK j \in 1..m : i = Len(r) + j
        <4>1. i - Len(r) \in 1..m /\ i = Len(r) + (i - Len(r))
          BY <1>1, <2>2
        <4> QED
          BY <4>1
      <3>2. j \in 1..Len(b) /\ j \in 1..Len(c)
        BY <1>1
      <3> QED
        BY <1>1, <1>2, <3>1, <3>2
    <2> QED
      BY <2>1, <2>2
  <1> QED
    BY <1>1, <1>2, <1>3

\* The lengths and the types the queues have.
LEMMA QueueTypes ==
    ASSUME TypeInv
    PROVE  /\ reader \in Seq(Items) /\ inbox \in Seq(Items) /\ reader \o inbox \in Seq(Items)
           /\ Len(reader \o inbox) \in Nat /\ Len(obuf) \in Nat /\ Len(replies) \in Nat
           /\ \A i \in 1..Len(reader \o inbox) : (reader \o inbox)[i].to \in Numbers
           /\ \A j \in 1..Len(obuf) : obuf[j] \in DOMAIN commands /\ obuf[j] # 0
           /\ "none" \notin unsubs /\ online \in BOOLEAN
  <1>1. ToNumbers(reader) /\ ToNumbers(inbox)
    BY ReaderTyped
  <1>2. ToNumbers(reader \o inbox)
    BY <1>1, ToNumbersFacts
  <1>3. /\ reader \in Seq(Items) /\ inbox \in Seq(Items) /\ reader \o inbox \in Seq(Items)
        /\ \A i \in 1..Len(reader \o inbox) : (reader \o inbox)[i].to \in Numbers
    BY <1>1, <1>2 DEF ToNumbers
  <1>4. Len(reader \o inbox) \in Nat
    BY <1>3
  <1>5. obuf \in Seq(Numbers \ {0}) /\ replies \in Seq(Numbers)
    BY DEF TypeInv, QueuesTyped
  <1>6. Numbers \ {0} = DOMAIN commands
    BY CommandsFacts DEF TypeInv
  <1>7. Len(obuf) \in Nat /\ Len(replies) \in Nat /\ \A j \in 1..Len(obuf) : obuf[j] \in Numbers \ {0}
    BY <1>5
  <1>8. unsubs \subseteq DictKeys /\ online \in BOOLEAN
    BY DEF TypeInv, ControlTyped
  <1> QED
    BY <1>3, <1>4, <1>6, <1>7, <1>8, AsyncAssumption

\* The steps that leave the order as it is, and those that cannot be.
LEMMA QueueKept ==
    ASSUME TypeInv, MonitorInv, QueueNow, Normal, Normal', Noted \/ Pushed \/ Received \/ Guessed
    PROVE  QueueNow'
  <1>1. Queue(commands, reader \o inbox, obuf, replies, online, "SUBSCRIBED" \in flags,
              serverSubs, unsubs, DOMAIN subscribed)
    BY DEF QueueNow
  <1>2. "MONITORING" \notin flags
    BY DEF MonitorInv, Normal
  <1>3. CASE Noted
    <2>1. reader' = reader /\ inbox' = inbox /\ commands' = commands /\ obuf' = obuf /\ replies' = replies
          /\ online' = online /\ serverSubs' = serverSubs /\ unsubs' = unsubs /\ subscribed' = subscribed
          /\ ("SUBSCRIBED" \in flags' <=> "SUBSCRIBED" \in flags)
      BY <1>3 DEF Noted, ModesKept
    <2>2. ("SUBSCRIBED" \in flags') = ("SUBSCRIBED" \in flags)
      BY <2>1
    <2> QED
      BY <1>1, <2>1, <2>2, Zenon DEF QueueNow
  <1>4. CASE Pushed
    BY <1>2, <1>4 DEF Pushed
  <1>5. CASE Received
    <2>1. PICK k \in 0..Len(inbox) : reader' = reader \o SubSeq(inbox, 1, k)
                                     /\ inbox' = SubSeq(inbox, k + 1, Len(inbox))
      BY <1>5 DEF Received
    <2>2. reader' \o inbox' = reader \o inbox
      <3>1. \A l \in 0..Len(inbox) :
                (reader \o SubSeq(inbox, 1, l)) \o SubSeq(inbox, l + 1, Len(inbox)) = reader \o inbox
        BY QueueTypes, ArrivingFacts
      <3> QED
        BY <2>1, <3>1
    <2>3. commands' = commands /\ obuf' = obuf /\ replies' = replies /\ flags' = flags
          /\ online' = online /\ serverSubs' = serverSubs /\ unsubs' = unsubs /\ subscribed' = subscribed
      BY <1>5 DEF Received
    <2> QED
      BY <1>1, <2>2, <2>3, Zenon DEF QueueNow
  <1>6. CASE Guessed
    <2> DEFINE f == reader \o inbox
    <2>1. replies = <<>> /\ Head(reader).topic = "none" /\ Head(reader).type \notin {"error", "malformed"}
          /\ reader # <<>>
      BY <1>2, <1>6 DEF Guessed, Delivered
    <2>2. 1 \in 1..Len(f) /\ f[1] = Head(reader) /\ Len(replies) = 0
      <3>1. Len(f) >= 1 /\ f[1] = Head(reader) /\ Len(f) \in Nat
        BY <2>1, QueueTypes, ArrivingFacts
      <3> QED
        BY <2>1, <3>1
    <2> HIDE DEF f
    <2>3. ItemsKnown(commands, f, online) /\ InOrder(commands, f, obuf, replies, online)
      BY <1>1 DEF Queue, f
    <2>4. IsAnswer(commands, f[1]) /\ ~IsClosing(f[1])
      BY <2>1, <2>2, <2>3 DEF ItemsKnown, IsRefused, IsTopical, IsClosing
    <2>5. 1 <= Len(replies)
      BY <2>2, <2>3, <2>4 DEF InOrder
    <2> QED
      BY <2>2, <2>5
  <1> QED
    BY <1>3, <1>4, <1>5, <1>6

\* A reply is taken.
LEMMA QueueTaken ==
    ASSUME TypeInv, DictInv, MonitorInv, QueueNow, Normal, Answered \/ Announced
    PROVE  QueueNow'
  <1> DEFINE f == reader \o inbox
             g == Tail(reader) \o inbox
             dom == DOMAIN subscribed
             mode == "SUBSCRIBED" \in flags
  <1>1. Queue(commands, f, obuf, replies, online, mode, serverSubs, unsubs, dom)
    BY DEF QueueNow
  <1>2. reader # <<>> /\ reader' = Tail(reader) /\ Head(reader).type # "malformed"
        /\ commands' = commands /\ obuf' = obuf /\ inbox' = inbox /\ online' = online /\ serverSubs' = serverSubs
    BY DEF Answered, Announced, Delivered
  <1>3. /\ Len(f) \in Nat /\ Len(f) >= 1 /\ f[1] = Head(reader) /\ Len(g) = Len(f) - 1
        /\ \A i \in 1..Len(g) : g[i] = f[i + 1]
    BY <1>2, QueueTypes, ArrivingFacts
  <1>4. Len(obuf) \in Nat /\ Len(replies) \in Nat /\ "none" \notin unsubs /\ online \in BOOLEAN
    BY QueueTypes
  <1>5. CASE Answered
    <2>1. replies # <<>> /\ replies' = Tail(replies) /\ unsubs' = unsubs /\ subscribed' = subscribed
          /\ ("SUBSCRIBED" \in flags') = mode
      BY <1>5 DEF Answered, ModesKept
    <2>2. /\ Len(replies) >= 1 /\ Len(Tail(replies)) = Len(replies) - 1
          /\ \A i \in 1..Len(Tail(replies)) : Tail(replies)[i] = replies[i + 1]
      <3>1. replies \in Seq(Numbers)
        BY DEF TypeInv, QueuesTyped
      <3>2. /\ Len(replies) # 0 /\ Len(replies) \in Nat /\ Len(Tail(replies)) = Len(replies) - 1
            /\ \A i \in 1..Len(Tail(replies)) : Tail(replies)[i] = replies[i + 1]
        BY <2>1, <3>1, QueueOperators
      <3> QED
        BY <3>2
    <2> HIDE DEF f, g, mode, dom
    <2>3. mode \in BOOLEAN
      BY DEF mode
    <2>4. Queue(commands, g, obuf, Tail(replies), online, mode, serverSubs, unsubs, dom)
      BY <1>1, <1>3, <1>4, <2>2, <2>3, QueueAnswered
    <2> QED
      BY <1>2, <2>1, <2>4, Zenon DEF QueueNow, g, dom
  <1>6. CASE Announced
    <2> DEFINE x == Head(reader)
    <2>1. replies = <<>> /\ Len(replies) = 0 /\ mode /\ x.topic # "none" /\ replies' = replies
      <3>1. replies = <<>> /\ mode /\ x.topic # "none" /\ replies' = replies
        BY <1>6 DEF Announced
      <3> QED
        BY <3>1
    <2>2. IsTopical(f[1]) /\ f[1].topic \in dom
      <3> HIDE DEF f
      <3>1. 1 \in 1..Len(f)
        BY <1>3
      <3>2. ItemsKnown(commands, f, online) /\ TopicsKnown(commands, f, obuf, serverSubs, unsubs, dom)
        BY <1>1 DEF Queue
      <3>3. IsTopical(f[1])
        BY <1>3, <2>1, <3>1, <3>2 DEF ItemsKnown, IsAnswer, IsRefused, IsClosing
      <3> QED
        BY <3>1, <3>2, <3>3 DEF TopicsKnown
    <2>3. Has(sub[DictOf(x.topic)], x.topic)
      BY <1>3, <1>6, <2>2, AnnouncedFacts
    <2>4. /\ "SUBSCRIBED" \in flags' <=> ~(x.type = "unsubscribe" /\ x.count = 0)
          /\ subscribed' = IF x.type # "unsubscribe" THEN subscribed
                           ELSE [t \in DOMAIN subscribed \ {x.topic} |-> subscribed[t]]
          /\ unsubs' = IF x.type = "unsubscribe" THEN unsubs \ {x.topic} ELSE unsubs
      BY <1>6, <2>3 DEF Announced
    <2> DEFINE mode2 == "SUBSCRIBED" \in flags'
               left == unsubs'
               keys == DOMAIN subscribed'
    <2>5. x = f[1] /\ mode2 \in BOOLEAN
      BY <1>3
    <2>6. Told(x, unsubs, dom, mode2, left, keys)
      BY <2>4 DEF Told, Unsub
    <2> HIDE DEF f, g, x, mode2, left, keys
    <2>7. Queue(commands, f, obuf, replies, online, TRUE, serverSubs, unsubs, dom)
      <3>1. mode = TRUE
        BY <2>1
      <3> QED
        BY <1>1, <3>1
    <2> HIDE DEF mode, dom
    <2>8. Told(f[1], unsubs, dom, mode2, left, keys)
      BY <2>5, <2>6
    <2>9. Queue(commands, g, obuf, replies, online, mode2, serverSubs, left, keys)
      <3>1. Len(replies) = 0
        BY <2>1
      <3> QED
        BY <1>3, <1>4, <2>2, <2>5, <2>7, <2>8, <3>1, QueueAnnounced
    <2> QED
      BY <1>2, <2>1, <2>9, Zenon DEF QueueNow, g, mode2, left, keys
  <1> QED
    BY <1>5, <1>6

\* The server says something by itself, or for the last time.
LEMMA QueueSaid ==
    ASSUME TypeInv, MonitorInv, QueueNow, Normal, Publish \/ Close
    PROVE  QueueNow'
  <1> DEFINE f == reader \o inbox
             g == reader \o inbox'
             dom == DOMAIN subscribed
             mode == "SUBSCRIBED" \in flags
  <1>1. Queue(commands, f, obuf, replies, online, mode, serverSubs, unsubs, dom)
    BY DEF QueueNow
  <1>2. /\ commands' = commands /\ reader' = reader /\ obuf' = obuf /\ replies' = replies /\ flags' = flags
        /\ serverSubs' = serverSubs /\ unsubs' = unsubs /\ subscribed' = subscribed /\ online = TRUE
    <2>1. online /\ online \in BOOLEAN
      BY QueueTypes DEF Publish, Close
    <2>2. online = TRUE
      BY <2>1
    <2> QED
      BY <2>2 DEF Publish, Close, contextVars, historyVars
  <1>3. Len(f) \in Nat /\ Len(obuf) \in Nat /\ Len(replies) \in Nat /\ "none" \notin unsubs
        /\ reader \in Seq(Items) /\ inbox \in Seq(Items) /\ Len(f) = Len(reader) + Len(inbox)
        /\ Len(reader) \in Nat /\ Len(inbox) \in Nat
    <2>1. Len(f) \in Nat /\ Len(obuf) \in Nat /\ Len(replies) \in Nat /\ "none" \notin unsubs
          /\ reader \in Seq(Items) /\ inbox \in Seq(Items)
      BY QueueTypes
    <2>2. Len(f) = Len(reader) + Len(inbox)
      BY <2>1, ArrivingFacts
    <2> QED
      BY <2>1, <2>2
  <1>4. mode \in BOOLEAN
    OBVIOUS
  <1>5. CASE Publish
    <2>1. ~monitored
      BY DEF MonitorInv, Normal
    <2>2. PICK t \in serverSubs : inbox' = Append(inbox, Reply("message", 0, t, 0))
      BY <1>5, <2>1 DEF Publish
    <2> DEFINE x == Reply("message", 0, t, 0)
    <2>3. x \in Items /\ x.type = "message" /\ x.topic = t /\ t # "none"
      <3>1. t \in DictKeys
        BY DEF TypeInv, ControlTyped
      <3> QED
        BY <3>1, SpontaneousItems, AsyncAssumption DEF Reply
    <2> HIDE DEF x
    <2>4. /\ inbox' = Append(inbox, x) /\ Append(inbox, x) \in Seq(Items)
          /\ Len(Append(inbox, x)) = Len(inbox) + 1
          /\ \A i \in 1..Len(inbox) : Append(inbox, x)[i] = inbox[i]
          /\ Append(inbox, x)[Len(inbox) + 1] = x
      <3>1. inbox' = Append(inbox, x)
        BY <2>2 DEF x
      <3>2. /\ Append(inbox, x) \in Seq(Items) /\ Len(Append(inbox, x)) = Len(inbox) + 1
            /\ \A i \in 1..Len(inbox) : Append(inbox, x)[i] = inbox[i]
            /\ Append(inbox, x)[Len(inbox) + 1] = x
        BY <1>3, <2>3, QueueOperators
      <3> QED
        BY <3>1, <3>2, Zenon
    <2>5. /\ inbox' \in Seq(Items) /\ Len(inbox') = Len(inbox) + 1 /\ Len(inbox) \in 0..Len(inbox)
          /\ \A i \in 1..Len(inbox) : inbox'[i] = inbox[i]
          /\ inbox'[Len(inbox) + 1] = x /\ Len(inbox) + 1 \in 1..Len(inbox') /\ Len(inbox') >= Len(inbox)
      BY <1>3, <2>4
    <2>6. /\ Len(g) = Len(reader) + Len(inbox')
          /\ \A i \in 1..(Len(reader) + Len(inbox)) : g[i] = f[i]
          /\ \A i \in 1..Len(inbox') : g[Len(reader) + i] = inbox'[i]
      <3>1. \A c \in Seq(Items) : \A m \in 0..Len(inbox) :
               Len(c) >= m /\ (\A i \in 1..m : c[i] = inbox[i]) =>
                  /\ Len(reader \o c) = Len(reader) + Len(c)
                  /\ \A i \in 1..(Len(reader) + m) : (reader \o c)[i] = f[i]
                  /\ \A i \in 1..Len(c) : (reader \o c)[Len(reader) + i] = c[i]
        BY <1>3, SaidFacts, SMTT(60)
      <3> QED
        BY <2>5, <3>1, Zenon
    <2>7. /\ Len(g) = Len(f) + 1 /\ \A i \in 1..Len(f) : g[i] = f[i]
          /\ g[Len(f) + 1] = x
      <3>1. Len(f) + 1 = Len(reader) + (Len(inbox) + 1)
        BY <1>3
      <3> QED
        BY <1>3, <2>5, <2>6, <3>1
    <2>8. online' = TRUE
      BY <1>2, <1>5 DEF Publish
    <2> HIDE DEF f, g, mode, dom
    <2>9. Queue(commands, g, obuf, replies, TRUE, mode, serverSubs, unsubs, dom)
      BY <1>1, <1>2, <1>3, <1>4, <2>2, <2>3, <2>7, QueuePublished
    <2> QED
      BY <1>2, <2>8, <2>9, Zenon DEF QueueNow, g, mode, dom
  <1>6. CASE Close
    <2>1. PICK k \in 0..Len(inbox), last \in {<<>>, <<Reply("error", 0, "none", 0)>>,
                                              <<Reply("malformed", 0, "none", 0)>>} :
                inbox' = SubSeq(inbox, 1, k) \o last
      BY <1>6 DEF Close
    <2>2. /\ last \in Seq(Items) /\ Len(last) \in {0, 1}
          /\ Len(last) = 1 => IsClosing(last[1])
      <3>1. \A type \in {"error", "malformed"} :
                Reply(type, 0, "none", 0) \in Items /\ IsClosing(Reply(type, 0, "none", 0))
        BY SpontaneousItems DEF IsClosing, Reply
      <3>2. CASE last = <<>>
        <4>1. last \in Seq(Items) /\ Len(last) = 0
          BY <3>2
        <4> QED
          BY <4>1
      <3>3. ASSUME NEW y \in Items, IsClosing(y), last = <<y>>
            PROVE  last \in Seq(Items) /\ Len(last) = 1 /\ IsClosing(last[1])
        BY <3>3
      <3> QED
        BY <3>1, <3>2, <3>3
    <2>3. k \in Nat /\ k <= Len(inbox)
      BY <1>3
    <2>4. /\ SubSeq(inbox, 1, k) \in Seq(Items) /\ Len(SubSeq(inbox, 1, k)) = k
          /\ \A i \in 1..k : SubSeq(inbox, 1, k)[i] = inbox[i]
      <3>1. /\ SubSeq(inbox, 1, k) \in Seq(Items)
            /\ Len(SubSeq(inbox, 1, k)) = IF 1 <= k THEN k - 1 + 1 ELSE 0
            /\ \A i \in 1..Len(SubSeq(inbox, 1, k)) : SubSeq(inbox, 1, k)[i] = inbox[1 + i - 1]
        BY <1>3, <2>3, QueueOperators
      <3>2. Len(SubSeq(inbox, 1, k)) = k
        BY <2>3, <3>1
      <3>3. \A i \in 1..k : 1 + i - 1 = i
        OBVIOUS
      <3> QED
        BY <3>1, <3>2, <3>3
    <2>5. /\ inbox' \in Seq(Items) /\ Len(inbox') = k + Len(last)
          /\ \A i \in 1..k : inbox'[i] = inbox[i]
          /\ \A i \in 1..Len(last) : inbox'[k + i] = last[i]
      <3>1. /\ SubSeq(inbox, 1, k) \o last \in Seq(Items)
            /\ Len(SubSeq(inbox, 1, k) \o last) = Len(SubSeq(inbox, 1, k)) + Len(last)
            /\ \A i \in 1..Len(SubSeq(inbox, 1, k)) :
                  (SubSeq(inbox, 1, k) \o last)[i] = SubSeq(inbox, 1, k)[i]
            /\ \A i \in 1..Len(last) : (SubSeq(inbox, 1, k) \o last)[Len(SubSeq(inbox, 1, k)) + i] = last[i]
        BY <2>2, <2>4, QueueOperators
      <3> QED
        BY <2>1, <2>4, <3>1
    <2>6. /\ Len(g) = Len(reader) + Len(inbox')
          /\ \A i \in 1..(Len(reader) + k) : g[i] = f[i]
          /\ \A i \in 1..Len(inbox') : g[Len(reader) + i] = inbox'[i]
      <3>1. Len(inbox') >= k
        BY <2>2, <2>3, <2>5
      <3> QED
        <4>1. \A c \in Seq(Items) : \A l \in 0..Len(inbox) :
                 Len(c) >= l /\ (\A i \in 1..l : c[i] = inbox[i]) =>
                    /\ Len(reader \o c) = Len(reader) + Len(c)
                    /\ \A i \in 1..(Len(reader) + l) : (reader \o c)[i] = f[i]
                    /\ \A i \in 1..Len(c) : (reader \o c)[Len(reader) + i] = c[i]
          BY <1>3, SaidFacts
        <4> QED
          BY <2>5, <3>1, <4>1, Zenon
    <2> DEFINE m == Len(reader) + k
    <2>7. /\ m \in Nat /\ m <= Len(f) /\ Len(g) \in {m, m + 1} /\ \A i \in 1..m : g[i] = f[i]
          /\ Len(g) = m + 1 => IsClosing(g[m + 1])
      <3>1. Len(g) = m + Len(last) /\ m \in Nat /\ m <= Len(f)
        BY <1>3, <2>2, <2>3, <2>5, <2>6
      <3>2. ASSUME Len(g) = m + 1 PROVE IsClosing(g[m + 1])
        <4>1. Len(last) = 1 /\ k + 1 \in 1..Len(inbox') /\ m + 1 = Len(reader) + (k + 1)
          BY <1>3, <2>2, <2>3, <2>5, <3>1, <3>2
        <4>2. g[m + 1] = inbox'[k + 1] /\ inbox'[k + 1] = last[1]
          BY <2>5, <2>6, <4>1
        <4> QED
          BY <2>2, <4>1, <4>2
      <3>3. Len(g) \in {m, m + 1}
        <4>1. CASE Len(last) = 0
          BY <3>1, <4>1
        <4>2. CASE Len(last) = 1
          BY <3>1, <4>2
        <4> QED
          BY <2>2, <4>1, <4>2
      <3> QED
        BY <2>6, <3>1, <3>2, <3>3
    <2>8. online' = FALSE
      BY <1>6 DEF Close
    <2> HIDE DEF f, g, mode, dom, m
    <2>9. Queue(commands, g, obuf, replies, FALSE, mode, serverSubs, unsubs, dom)
      BY <1>1, <1>2, <1>3, <1>4, <2>7, QueueClosed
    <2> QED
      BY <1>2, <2>8, <2>9, Zenon DEF QueueNow, g, mode, dom
  <1> QED
    BY <1>5, <1>6

\* The list g is f and then these items.
Extends(g, f, items) ==
    /\ Len(f) \in Nat /\ Len(items) \in Nat /\ Len(g) = Len(f) + Len(items)
    /\ \A i \in 1..Len(f) : g[i] = f[i]
    /\ \A i \in 1..Len(items) : g[Len(f) + i] = items[i]

\* What the server adds to what it has said.
LEMMA AddedFacts ==
    ASSUME NEW S, NEW r \in Seq(S), NEW b \in Seq(S), NEW items \in Seq(S)
    PROVE  Extends(r \o (b \o items), r \o b, items)
  <1>1. r \o b \in Seq(S) /\ Len(r \o b) \in Nat /\ Len(items) \in Nat
    BY QueueOperators
  <1>2. r \o (b \o items) = (r \o b) \o items
    BY ConcatAssociative
  <1>3. /\ Len((r \o b) \o items) = Len(r \o b) + Len(items)
        /\ \A i \in 1..Len(r \o b) : ((r \o b) \o items)[i] = (r \o b)[i]
        /\ \A i \in 1..Len(items) : ((r \o b) \o items)[Len(r \o b) + i] = items[i]
    BY <1>1, QueueOperators
  <1> QED
    BY <1>1, <1>2, <1>3, Zenon DEF Extends

\* The number of topics that are left is 0 after the last one only.
LEMMA LastCount ==
    ASSUME NEW n, NEW topics \in Seq(DictKeys), commands[n].topics = topics, topics # <<>>,
           IsInjective(topics), NEW subs, IsFiniteSet(subs), ToSet(topics) \subseteq subs
    PROVE  /\ \A i \in 1..Len(topics) : CountAfter("unsubscribe", n, subs, i) = 0 =>
                 i >= Len(topics) /\ subs \ ToSet(topics) = {}
           /\ subs \ ToSet(topics) = {} => CountAfter("unsubscribe", n, subs, Len(topics)) = 0
  <1>1. Len(topics) \in Nat /\ DOMAIN topics = 1..Len(topics) /\ Len(topics) >= 1
    BY QueueOperators
  <1>2. \A i : CountAfter("unsubscribe", n, subs, i) = Cardinality(subs \ ToSet(SubSeq(topics, 1, i)))
    BY DEF CountAfter
  <1>3. ASSUME NEW i \in 1..Len(topics), CountAfter("unsubscribe", n, subs, i) = 0
        PROVE  i >= Len(topics) /\ subs \ ToSet(topics) = {}
    <2> DEFINE seen == SubSeq(topics, 1, i)
    <2>1. /\ Len(seen) = i /\ \A k \in 1..Len(seen) : seen[k] = topics[k]
          /\ DOMAIN seen = 1..Len(seen)
      <3>1. i \in Nat /\ i >= 1 /\ i <= Len(topics)
        BY <1>1
      <3>2. /\ seen \in Seq(DictKeys) /\ Len(seen) = IF 1 <= i THEN i - 1 + 1 ELSE 0
            /\ \A k \in 1..Len(seen) : seen[k] = topics[1 + k - 1]
        BY <3>1, QueueOperators
      <3>3. Len(seen) = i /\ DOMAIN seen = 1..Len(seen)
        BY <3>1, <3>2
      <3>4. \A k \in 1..Len(seen) : 1 + k - 1 = k
        BY <3>1, <3>3
      <3> QED
        BY <3>2, <3>3, <3>4
    <2> HIDE DEF seen
    <2>2. ToSet(seen) \subseteq {topics[k] : k \in 1..i}
      BY <2>1 DEF ToSet
    <2>3. {topics[k] : k \in 1..i} \subseteq ToSet(topics)
      <3>1. \A k \in 1..i : k \in DOMAIN topics
        BY <1>1
      <3> QED
        BY <3>1 DEF ToSet
    <2>4. subs \ ToSet(seen) = {}
      <3>1. IsFiniteSet(subs \ ToSet(seen))
        BY FS_Subset
      <3>2. Cardinality(subs \ ToSet(seen)) = 0
        BY <1>2, <1>3 DEF seen
      <3> QED
        BY <3>1, <3>2, FS_EmptySet
    <2>5. subs \ ToSet(topics) = {}
      BY <2>2, <2>3, <2>4
    <2>6. i >= Len(topics)
      <3> SUFFICES ASSUME i < Len(topics) PROVE FALSE
        BY <1>1
      <3>1. i + 1 \in DOMAIN topics
        BY <1>1
      <3>2. topics[i + 1] \in ToSet(topics)
        BY <3>1 DEF ToSet
      <3>3. topics[i + 1] \in {topics[k] : k \in 1..i}
        BY <2>2, <2>4, <3>2
      <3>4. PICK k \in 1..i : topics[k] = topics[i + 1]
        BY <3>3
      <3>5. k \in DOMAIN topics /\ k # i + 1
        BY <1>1
      <3> QED
        BY <3>1, <3>4, <3>5 DEF IsInjective
    <2> QED
      BY <2>5, <2>6
  <1>4. ASSUME subs \ ToSet(topics) = {} PROVE CountAfter("unsubscribe", n, subs, Len(topics)) = 0
    <2>1. SubSeq(topics, 1, Len(topics)) = topics
      BY SubSeqFull
    <2>2. Cardinality({}) = 0
      BY FS_EmptySet
    <2> QED
      BY <1>2, <1>4, <2>1, <2>2
  <1> QED
    BY <1>3, <1>4

\* The server executes a command.
LEMMA QueueExecuted ==
    ASSUME TypeInv, NEW s \in Servers, NEW p \in Seq(Numbers \ {0}), p # <<>>, NEW mode,
           NEW dom, Queue(commands, reader \o s.out, p, replies, TRUE, mode, s.subs, unsubs, dom)
    PROVE  Queue(commands, reader \o Execute(s, p[1]).out, Tail(p), replies, TRUE, mode,
                 Execute(s, p[1]).subs, unsubs, dom)
  <1> DEFINE n == p[1]
             f == reader \o s.out
             q == Tail(p)
             subs == s.subs
             topics == commands[n].topics
             e == Execute(s, n)
  <1>1. /\ Len(p) \in Nat /\ Len(p) >= 1 /\ n \in Numbers \ {0}
        /\ q \in Seq(Numbers \ {0}) /\ Len(q) = Len(p) - 1 /\ \A j \in 1..Len(q) : q[j] = p[j + 1]
    <2>1. /\ Len(p) \in Nat /\ Len(p) # 0 /\ \A j \in 1..Len(p) : p[j] \in Numbers \ {0}
          /\ q \in Seq(Numbers \ {0}) /\ Len(q) = Len(p) - 1 /\ \A j \in 1..Len(q) : q[j] = p[j + 1]
      BY QueueOperators
    <2>2. Len(p) >= 1 /\ 1 \in 1..Len(p)
      BY <2>1
    <2> QED
      BY <2>1, <2>2
  <1>2. CommandsTyped /\ n \in DOMAIN commands /\ n # 0
    BY <1>1, CommandsFacts DEF TypeInv
  <1>3. /\ topics \in Seq(DictKeys) /\ commands[n].place \in Places
        /\ commands[n].place \in {"SUBSCRIBE", "UNSUBSCRIBE"} => topics # <<>>
    <2>1. commands[n] \in Accepted
      BY <1>2, CommandsFacts
    <2> QED
      BY <1>2, <2>1 DEF Accepted, CommandsTyped
  <1>4. /\ reader \in Seq(Items) /\ s.out \in Seq(Items) /\ IsFiniteSet(subs)
        /\ Len(replies) \in Nat /\ Len(f) \in Nat
    <2>1. reader \in Seq(Items) /\ Len(replies) \in Nat
      BY QueueTypes
    <2>2. s.out \in Seq(Items) /\ IsFiniteSet(subs)
      BY DEF Servers
    <2> QED
      BY <2>1, <2>2, ArrivingFacts
  <1>5. Queue(commands, f, p, replies, TRUE, mode, subs, unsubs, dom)
    OBVIOUS
  <1>6. /\ DOMAIN topics = 1..Len(topics) /\ Len(topics) \in Nat /\ topics # <<>> => Len(topics) >= 1
        /\ "none" \notin ToSet(topics)
    <2>1. DOMAIN topics = 1..Len(topics) /\ Len(topics) \in Nat /\ (topics # <<>> => Len(topics) >= 1)
      BY <1>3
    <2>2. ToSet(topics) \subseteq DictKeys
      BY <1>3, ToSetFinite
    <2> QED
      BY <2>1, <2>2, AsyncAssumption
  <1>7. CASE commands[n].place \in {"replies", "invalid"}
    <2> DEFINE x == Plain(s, n)
               g == reader \o e.out
    <2>1. e.subs = subs /\ e.out = Append(s.out, x)
      <3>1. commands[n].place \notin {"SUBSCRIBE", "UNSUBSCRIBE"}
        BY <1>7
      <3>2. e = [subs |-> s.subs,
                 monitored |-> s.monitored \/ (commands[n].name = "MONITOR" /\ s.subs = {}),
                 out |-> Append(s.out, Plain(s, n))]
        BY <1>2, <3>1, ExecuteFacts
      <3> HIDE DEF e
      <3> QED
        BY <3>2
    <2>2. x \in Items /\ x.to = n /\ x.topic = "none" /\ x.type = IF subs = {} THEN "reply" ELSE "error"
      <3>1. n \in Nat
        BY <1>2, CommandsFacts
      <3> QED
        BY <3>1 DEF Plain, Reply, Items
    <2> HIDE DEF x, e
    <2>3. Append(s.out, x) = s.out \o <<x>> /\ <<x>> \in Seq(Items) /\ Len(<<x>>) = 1 /\ <<x>>[1] = x
      BY <1>4, <2>2, AppendIsConcat
    <2>4. /\ Len(g) = Len(f) + 1 /\ \A i \in 1..Len(f) : g[i] = f[i]
          /\ g[Len(f) + 1] = x
      <3>1. Extends(reader \o (s.out \o <<x>>), f, <<x>>)
        BY <1>4, <2>3, AddedFacts
      <3>2. g = reader \o (s.out \o <<x>>)
        BY <2>1, <2>3
      <3>3. 1 \in 1..Len(<<x>>)
        BY <2>3
      <3> HIDE DEF f, g
      <3> QED
        BY <2>3, <3>1, <3>2, <3>3 DEF Extends
    <2> HIDE DEF f, g, q, subs
    <2>5. Queue(commands, g, q, replies, TRUE, mode, subs, unsubs, dom)
      BY <1>1, <1>2, <1>4, <1>5, <1>7, <2>2, <2>4, QueuePlain
    <2> QED
      BY <2>1, <2>5 DEF g, q, e, subs
  <1>8. ASSUME NEW type \in {"subscribe", "unsubscribe"}
        PROVE  LET g == reader \o (s.out \o TopicReplies(type, n, subs))
               IN  /\ Len(g) = Len(f) + Len(topics) /\ \A i \in 1..Len(f) : g[i] = f[i]
                   /\ \A i \in 1..Len(topics) : /\ g[Len(f) + i].type = type
                                                /\ g[Len(f) + i].topic = topics[i]
                                                /\ g[Len(f) + i].count = CountAfter(type, n, subs, i)
    <2> DEFINE items == TopicReplies(type, n, subs)
               g == reader \o (s.out \o items)
    <2>1. /\ items \in Seq(Items) /\ Len(items) = Len(topics)
          /\ \A i \in 1..Len(topics) : /\ items[i].type = type
                                       /\ items[i].topic = topics[i]
                                       /\ items[i].count = CountAfter(type, n, subs, i)
      BY <1>2, <1>4, TopicRepliesFacts DEF TopicTypes
    <2> HIDE DEF items
    <2>2. /\ Len(g) = Len(f) + Len(items) /\ \A i \in 1..Len(f) : g[i] = f[i]
          /\ \A i \in 1..Len(items) : g[Len(f) + i] = items[i]
      <3>1. Extends(g, f, items)
        BY <1>4, <2>1, AddedFacts
      <3> HIDE DEF f, g
      <3> QED
        BY <3>1, Zenon DEF Extends
    <2> HIDE DEF f, g, topics
    <2>3. /\ Len(g) = Len(f) + Len(topics) /\ \A i \in 1..Len(f) : g[i] = f[i]
          /\ \A i \in 1..Len(topics) : /\ g[Len(f) + i].type = type
                                       /\ g[Len(f) + i].topic = topics[i]
                                       /\ g[Len(f) + i].count = CountAfter(type, n, subs, i)
      BY <2>1, <2>2
    <2> QED
      BY <2>3, Zenon DEF items, g, f, topics
  <1>9. CASE commands[n].place = "SUBSCRIBE"
    <2> DEFINE g == reader \o e.out
               after == e.subs
    <2>1. after = subs \cup ToSet(topics) /\ e.out = s.out \o TopicReplies("subscribe", n, subs)
      <3>1. e = [subs |-> s.subs \cup ToSet(topics), monitored |-> s.monitored,
                 out |-> s.out \o TopicReplies("subscribe", n, s.subs)]
        BY <1>2, <1>9, ExecuteFacts
      <3> HIDE DEF e
      <3> QED
        BY <3>1
    <2>2. /\ Len(g) = Len(f) + Len(topics) /\ \A i \in 1..Len(f) : g[i] = f[i]
          /\ \A i \in 1..Len(topics) : g[Len(f) + i].type = "subscribe" /\ g[Len(f) + i].topic = topics[i]
      <3> HIDE DEF e, f, topics
      <3> QED
        BY <1>8, <2>1 DEF f
    <2>3. commands[n].topics = topics /\ Len(topics) >= 1
      BY <1>3, <1>6, <1>9
    <2> HIDE DEF f, g, q, e, subs, topics, after
    <2>4. Queue(commands, g, q, replies, TRUE, mode, after, unsubs, dom)
      <3>1. /\ Len(f) \in Nat /\ Len(p) \in Nat /\ Len(replies) \in Nat /\ Len(topics) \in Nat
            /\ "none" \notin ToSet(topics) /\ Len(p) >= 1 /\ Len(q) = Len(p) - 1
            /\ \A j \in 1..Len(q) : q[j] = p[j + 1]
        BY <1>1, <1>4, <1>6
      <3>2. /\ commands[p[1]].place = "SUBSCRIBE" /\ p[1] # 0 /\ commands[p[1]].topics = topics
            /\ Len(topics) >= 1 /\ \A i : i \in DOMAIN topics <=> i \in 1..Len(topics)
        BY <1>1, <1>6, <1>9, <2>3
      <3>3. \A t : t \in after <=> t \in subs \/ t \in ToSet(topics)
        BY <2>1
      <3> QED
        <4>1. Subscribing(commands, f, p, subs, g, q, topics, after)
          BY <2>2, <3>1, <3>2, <3>3, Zenon DEF Subscribing
        <4> QED
          BY <1>5, <3>1, <4>1, QueueSubscribed, Zenon
    <2> QED
      BY <2>4 DEF g, q, e, after
  <1>10. CASE commands[n].place = "UNSUBSCRIBE"
    <2> DEFINE g == reader \o e.out
               after == e.subs
    <2>1. after = subs \ ToSet(topics) /\ e.out = s.out \o TopicReplies("unsubscribe", n, subs)
      <3>1. e = [subs |-> s.subs \ ToSet(topics), monitored |-> s.monitored,
                 out |-> s.out \o TopicReplies("unsubscribe", n, s.subs)]
        BY <1>2, <1>10, ExecuteFacts
      <3> HIDE DEF e
      <3> QED
        BY <3>1
    <2>2. Len(p) = 1 /\ IsInjective(topics) /\ ToSet(topics) \subseteq subs
      <3>1. UnsubsLast(commands, f, p, subs, unsubs) /\ 1 \in 1..Len(p)
        BY <1>1, <1>5 DEF Queue
      <3>2. \A k \in 1..(1 - 1) : FALSE
        OBVIOUS
      <3>3. /\ 1 = Len(p) /\ IsInjective(commands[p[1]].topics)
            /\ \A t \in ToSet(commands[p[1]].topics) :
                  t \in unsubs /\ (t \in subs \/ \E k \in 1..(1 - 1) :
                      commands[p[k]].place = "SUBSCRIBE" /\ t \in ToSet(commands[p[k]].topics))
        BY <1>10, <3>1 DEF UnsubsLast
      <3> QED
        BY <3>2, <3>3
    <2>3. commands[n].topics = topics /\ Len(topics) >= 1 /\ topics # <<>>
      BY <1>3, <1>6, <1>10
    <2>4. /\ \A i \in 1..Len(topics) : CountAfter("unsubscribe", n, subs, i) = 0 =>
                i >= Len(topics) /\ after = {}
          /\ after = {} => CountAfter("unsubscribe", n, subs, Len(topics)) = 0
      <3>1. /\ \A i \in 1..Len(topics) : CountAfter("unsubscribe", n, subs, i) = 0 =>
                  i >= Len(topics) /\ subs \ ToSet(topics) = {}
            /\ subs \ ToSet(topics) = {} => CountAfter("unsubscribe", n, subs, Len(topics)) = 0
        <4> HIDE DEF subs, topics, n
        <4> QED
          BY <1>3, <1>4, <2>2, <2>3, LastCount
      <3> HIDE DEF after
      <3> QED
        BY <2>1, <3>1, Zenon
    <2>5. /\ Len(g) = Len(f) + Len(topics) /\ \A i \in 1..Len(f) : g[i] = f[i]
          /\ \A i \in 1..Len(topics) : /\ g[Len(f) + i].type = "unsubscribe"
                                       /\ g[Len(f) + i].topic = topics[i]
                                       /\ g[Len(f) + i].count = CountAfter("unsubscribe", n, subs, i)
      <3> HIDE DEF e, f, topics
      <3> QED
        BY <1>8, <2>1 DEF f
    <2> HIDE DEF f, g, e, subs, topics, after
    <2>6. /\ \A i \in 1..Len(topics) :
                 /\ g[Len(f) + i].type = "unsubscribe" /\ g[Len(f) + i].topic = topics[i]
                 /\ g[Len(f) + i].count = 0 => i >= Len(topics) /\ after = {}
          /\ after = {} => g[Len(f) + Len(topics)].count = 0
      <3>1. Len(topics) \in 1..Len(topics)
        BY <1>6, <2>3
      <3> QED
        BY <2>4, <2>5, <3>1
    <2>7. \A t : t \in after <=> t \in subs /\ t \notin ToSet(topics)
      BY <2>1
    <2>8. Queue(commands, g, <<>>, replies, TRUE, mode, after, unsubs, dom)
      <3>1. /\ Len(f) \in Nat /\ Len(p) \in Nat /\ Len(replies) \in Nat /\ Len(topics) \in Nat
            /\ "none" \notin ToSet(topics) /\ Len(p) = 1
        BY <1>1, <1>4, <1>6, <2>2
      <3>2. /\ commands[p[1]].place = "UNSUBSCRIBE" /\ p[1] # 0 /\ commands[p[1]].topics = topics
            /\ Len(topics) >= 1 /\ \A i : i \in DOMAIN topics <=> i \in 1..Len(topics)
        BY <1>1, <1>6, <1>10, <2>3
      <3>3. Len(g) = Len(f) + Len(topics) /\ \A i \in 1..Len(f) : g[i] = f[i]
        BY <2>5
      <3> QED
        <4>1. Unsubscribing(commands, f, p, subs, g, topics, after)
          BY <2>6, <2>7, <3>1, <3>2, <3>3, Zenon DEF Unsubscribing
        <4> QED
          BY <1>5, <3>1, <4>1, QueueUnsubscribed, Zenon
    <2>9. q = <<>>
      <3>1. Len(q) = 0
        BY <1>1, <2>2
      <3> HIDE DEF q
      <3> QED
        BY <1>1, <3>1, EmptySeq
    <2> QED
      BY <2>8, <2>9 DEF g, q, e, after
  <1> QED
    BY <1>3, <1>7, <1>9, <1>10 DEF Places

\* The server takes commands and executes them.
LEMMA QueueWritten ==
    ASSUME TypeInv, QueueNow, Normal, Written
    PROVE  QueueNow'
  <1> DEFINE dom == DOMAIN subscribed
             mode == "SUBSCRIBED" \in flags
             At(s, p) == Queue(commands, reader \o s.out, p, replies, TRUE, mode, s.subs, unsubs, dom)
             left(i) == SubSeq(obuf, i + 1, Len(obuf))
             P == [i \in 0..Len(obuf) |-> {s \in Servers : At(s, left(i))}]
  <1>1. online = TRUE /\ online' = online
    BY QueueTypes DEF Written
  <1>2. Queue(commands, reader \o inbox, obuf, replies, TRUE, mode, serverSubs, unsubs, dom)
    BY <1>1, Zenon DEF QueueNow
  <1>3. PICK k \in 0..Len(obuf) :
            /\ inbox' = Executed(SubSeq(obuf, 1, k)).out
            /\ serverSubs' = Executed(SubSeq(obuf, 1, k)).subs
            /\ obuf' = SubSeq(obuf, k + 1, Len(obuf))
    BY DEF Written
  <1> DEFINE list == SubSeq(obuf, 1, k)
  <1>4. /\ list \in Seq(Numbers \ {0}) /\ Len(list) = k /\ \A i \in 1..k : list[i] = obuf[i]
        /\ k \in Nat /\ Len(obuf) \in Nat /\ obuf \in Seq(Numbers \ {0})
    BY WrittenFacts DEF TypeInv, QueuesTyped
  <1>5. \A i \in 0..Len(obuf) : \A s \in Servers : s \in P[i] <=> At(s, left(i))
    OBVIOUS
  <1>6. Server \in P[0]
    <2>1. Server \in Servers
      <3>1. inbox \in Seq(Items) /\ DOMAIN inbox = 1..Len(inbox)
        BY DEF TypeInv, QueuesTyped
      <3> QED
        BY <3>1 DEF TypeInv, QueuesTyped, ControlTyped, Servers, Server
    <2>2. Server.out = inbox /\ Server.subs = serverSubs
      BY DEF Server
    <2>3. left(0) = obuf /\ 0 \in 0..Len(obuf)
      <3>1. SubSeq(obuf, 1, Len(obuf)) = obuf
        BY <1>4, SubSeqFull
      <3> QED
        BY <1>4, <3>1
    <2> HIDE DEF left, mode, dom, P
    <2>4. At(Server, left(0))
      BY <1>2, <2>2, <2>3, Zenon
    <2> QED
      BY <1>5, <2>1, <2>3, <2>4
  <1>7. ASSUME NEW i \in 1..k, NEW s \in Servers, s \in P[i - 1]
        PROVE  Execute(s, list[i]) \in P[i]
    <2> DEFINE p == left(i - 1)
               e == Execute(s, p[1])
    <2>1. i - 1 \in 0..Len(obuf) /\ i \in 0..Len(obuf) /\ (i - 1) + 1 = i
      BY <1>4
    <2>2. /\ p \in Seq(Numbers \ {0}) /\ p # <<>> /\ p[1] = list[i] /\ Tail(p) = left(i)
          /\ p[1] \in Numbers \ {0}
      <3>1. /\ SubSeq(obuf, i, Len(obuf)) \in Seq(Numbers \ {0})
            /\ SubSeq(obuf, i, Len(obuf)) # <<>>
            /\ SubSeq(obuf, i, Len(obuf))[1] = obuf[i] /\ obuf[i] \in Numbers \ {0}
        <4>1. i \in Nat /\ i >= 1 /\ i <= Len(obuf) /\ i \in 1..Len(obuf)
          BY <1>4
        <4>2. /\ SubSeq(obuf, i, Len(obuf)) \in Seq(Numbers \ {0})
              /\ Len(SubSeq(obuf, i, Len(obuf))) = Len(obuf) - i + 1
              /\ \A j \in 1..Len(SubSeq(obuf, i, Len(obuf))) :
                    SubSeq(obuf, i, Len(obuf))[j] = obuf[i + j - 1]
          BY <1>4, <4>1, QueueOperators
        <4>3. 1 \in 1..Len(SubSeq(obuf, i, Len(obuf))) /\ i + 1 - 1 = i
          BY <1>4, <4>1, <4>2
        <4>4. obuf[i] \in Numbers \ {0}
          BY <1>4, <4>1, QueueOperators
        <4>5. SubSeq(obuf, i, Len(obuf))[1] = obuf[i + 1 - 1]
          BY <4>2, <4>3, Zenon
        <4>6. Len(SubSeq(obuf, i, Len(obuf))) # 0
          BY <4>3
        <4>7. SubSeq(obuf, i, Len(obuf)) # <<>>
          BY <4>2, <4>6, EmptySeq
        <4> QED
          BY <4>2, <4>3, <4>4, <4>5, <4>7
      <3>2. Tail(SubSeq(obuf, i, Len(obuf))) = SubSeq(obuf, i + 1, Len(obuf))
        BY <1>4, HeadTailOfSubSeq
      <3> QED
        BY <1>4, <2>1, <3>1, <3>2
    <2> HIDE DEF left, p, mode, dom, P
    <2>3. At(s, p)
      BY <1>5, <1>7, <2>1 DEF p
    <2>4. Queue(commands, reader \o e.out, Tail(p), replies, TRUE, mode, e.subs, unsubs, dom)
      BY <2>2, <2>3, QueueExecuted
    <2>5. e \in Servers
      <3>1. CommandsTyped /\ p[1] \in DOMAIN commands
        BY <2>2, CommandsFacts DEF TypeInv
      <3> QED
        BY <2>2, <3>1, ExecuteFacts
    <2>6. At(e, left(i))
      BY <2>2, <2>4, Zenon
    <2> HIDE DEF e
    <2>7. e \in P[i]
      BY <1>5, <2>1, <2>5, <2>6
    <2> QED
      BY <2>2, <2>7 DEF e
  <1>8. Executed(list) \in Servers /\ Executed(list) \in P[k]
    <2>1. \A i \in 1..Len(list) : \A s \in Servers : s \in P[i - 1] => Execute(s, list[i]) \in P[i]
      BY <1>4, <1>7, Zenon
    <2> HIDE DEF P, list
    <2>2. Executed(list) \in Servers /\ Executed(list) \in P[Len(list)]
      BY <1>4, <1>6, <2>1, ExecutedFacts
    <2> QED
      BY <1>4, <2>2
  <1>9. At(Executed(list), left(k))
    <2> HIDE DEF P, list, left
    <2> QED
      BY <1>5, <1>8
  <1>10. /\ reader' = reader /\ commands' = commands /\ replies' = replies /\ unsubs' = unsubs
         /\ subscribed' = subscribed /\ ("SUBSCRIBED" \in flags') = mode
    BY DEF Written
  <1> QED
    BY <1>1, <1>3, <1>9, <1>10, Zenon DEF QueueNow

\* The user issues a command.
LEMMA QueueCommand ==
    ASSUME TypeInv, QueueNow, Normal, Normal', NEW cmd \in Commands, redisAsyncCommand(cmd)
    PROVE  QueueNow'
  <1> DEFINE f == reader \o inbox
             n == Len(commands) + 1
             dom == DOMAIN subscribed
             mode == "SUBSCRIBED" \in flags
             then == "SUBSCRIBED" \in flags'
             place == Register(cmd)
  <1>1. CommandsTyped
    BY DEF TypeInv
  <1>2. /\ cmd.name \in Names /\ cmd.topics \in Seq(DictKeys)
        /\ DOMAIN commands' = 1..n /\ n \in DOMAIN commands' /\ Len(commands) \in Nat
        /\ \A i \in DOMAIN commands : commands'[i] = commands[i]
        /\ commands'[n] = Accept(cmd)
        /\ place = "SUBSCRIBE" <=> cmd.name = "SUBSCRIBE"
        /\ place = "UNSUBSCRIBE" <=> cmd.name = "UNSUBSCRIBE"
        /\ place = "invalid" <=> cmd.name = "GET" /\ mode
        /\ place \in Places
    <2>1. Len(commands) \in Nat
      BY <1>1, CommandsFacts
    <2>2. n \in 1..n
      BY <2>1
    <2>3. Accept(cmd) \in Accepted
      BY <1>1, CommandFacts
    <2>4. place \in Places
      BY <2>3 DEF Accept, Accepted
    <2> QED
      BY <1>1, <2>1, <2>2, <2>4, CommandFacts
  <1>3. /\ commands'[n].name = cmd.name /\ commands'[n].topics = cmd.topics
        /\ commands'[n].place = place /\ commands'[n].callback = cmd.callback
    BY <1>2 DEF Accept
  <1>4. /\ unsubs = {} /\ cmd.name # "MONITOR"
        /\ cmd.name = "UNSUBSCRIBE" => IsInjective(cmd.topics) /\ ToSet(cmd.topics) \subseteq dom /\ mode
    <2>1. ~RiskyCommand(cmd)
      BY DEF Normal, redisAsyncCommand
    <2>2. cmd.name # "MONITOR"
      BY <1>2, <1>3 DEF Normal, Monitoring
    <2>3. cmd.name = "UNSUBSCRIBE" => mode
      BY DEF redisAsyncCommand
    <2> QED
      BY <2>1, <2>2, <2>3 DEF RiskyCommand
  <1>5. /\ \A i \in 1..Len(f) : f[i].to = 0 \/ f[i].to \in DOMAIN commands
        /\ \A j \in 1..Len(obuf) : obuf[j] \in DOMAIN commands
        /\ Len(f) \in Nat /\ Len(obuf) \in Nat /\ Len(replies) \in Nat
    <2>1. Numbers \ {0} = DOMAIN commands
      BY <1>1, CommandsFacts
    <2> QED
      BY <2>1, QueueTypes
  <1>6. Queue(commands, f, obuf, replies, online, mode, serverSubs, {}, dom)
    BY <1>4, Zenon DEF QueueNow
  <1>7. Queue(commands', f, obuf, replies, online, mode, serverSubs, {}, dom)
    <2> HIDE DEF f, mode, dom
    <2> QED
      BY <1>2, <1>5, <1>6, QueueRenamed
  <1>8. obuf' = Append(obuf, n)
    BY DEF redisAsyncCommand
  <1>9. Issuing(commands', f, obuf, replies, obuf', n)
    <2>1. /\ Len(obuf') = Len(obuf) + 1 /\ obuf'[Len(obuf) + 1] = n
          /\ \A j \in 1..Len(obuf) : obuf'[j] = obuf[j]
      <3>1. obuf \in Seq(Numbers \ {0}) /\ n \in Nat
        BY <1>2 DEF TypeInv, QueuesTyped
      <3>2. Numbers \ {0} \subseteq Nat
        BY <1>2 DEF Numbers
      <3>3. obuf \in Seq(Nat)
        BY <3>1, <3>2
      <3> QED
        BY <1>8, <3>1, <3>3, QueueOperators
    <2>2. ASSUME NEW j \in 1..Len(obuf), commands'[obuf[j]].place = "UNSUBSCRIBE"
          PROVE  ToSet(commands'[obuf[j]].topics) # {}
      <3> DEFINE c == commands[obuf[j]]
      <3>1. c \in Accepted /\ commands'[obuf[j]] = c
        BY <1>1, <1>2, <1>5, CommandsFacts
      <3>2. c.topics \in Seq(DictKeys) /\ c.topics # <<>>
        BY <1>1, <1>5, <2>2, <3>1 DEF Accepted, CommandsTyped
      <3> HIDE DEF c
      <3>3. 1 \in DOMAIN c.topics
        BY <3>2
      <3> QED
        BY <3>1, <3>3 DEF ToSet
    <2> HIDE DEF f, n
    <2> QED
      BY <1>5, <2>1, <2>2 DEF Issuing
  <1>10. Issued(commands', n, cmd.topics, mode, then, replies, replies', dom, unsubs', DOMAIN subscribed')
    <2>1. /\ place = "replies" => replies' = Append(replies, NewFn(cmd))
          /\ place # "replies" => replies' = replies
      BY DEF redisAsyncCommand, NewFn
    <2>2. /\ place = "SUBSCRIBE" => DOMAIN subscribed' = dom \cup ToSet(cmd.topics)
          /\ place # "SUBSCRIBE" => DOMAIN subscribed' = dom
      BY DEF redisAsyncCommand
    <2>3. /\ cmd.name = "UNSUBSCRIBE" => unsubs' = ToSet(cmd.topics)
          /\ cmd.name # "UNSUBSCRIBE" => unsubs' = {}
      BY <1>4 DEF redisAsyncCommand
    <2>4. /\ cmd.name = "SUBSCRIBE" => then = TRUE
          /\ cmd.name # "SUBSCRIBE" => (then <=> mode)
      BY <1>4 DEF redisAsyncCommand
    <2>5. CASE place = "replies"
      <3>1. ~mode /\ then = FALSE
        BY <1>2, <1>4, <2>4, <2>5 DEF Names
      <3>2. /\ Len(replies') = Len(replies) + 1 /\ replies'[Len(replies) + 1] = NewFn(cmd)
            /\ \A i \in 1..Len(replies) : replies'[i] = replies[i]
        <4>1. replies \in Seq(Nat) /\ NewFn(cmd) \in Nat
          <5>1. replies \in Seq(Numbers)
            BY DEF TypeInv, QueuesTyped
          <5>2. Numbers \subseteq Nat
            BY <1>2 DEF Numbers
          <5>3. replies \in Seq(Nat)
            <6> HIDE DEF n, mode, place
            <6>1. \A S, T : S \subseteq T => \A r \in Seq(S) : r \in Seq(T)
              OBVIOUS
            <6> QED
              BY <5>1, <5>2, <6>1, Zenon
          <5>4. NewFn(cmd) \in Nat
            BY <1>2 DEF NewFn
          <5> QED
            BY <5>3, <5>4
        <4> QED
          BY <2>1, <2>5, <4>1, QueueOperators
      <3>3. Fn(commands', n) = NewFn(cmd)
        BY <1>3 DEF Fn, NewFn
      <3>4. unsubs' = {} /\ DOMAIN subscribed' = dom /\ commands'[n].place = "replies"
        BY <1>2, <1>3, <2>2, <2>3, <2>5
      <3> HIDE DEF mode, then, dom, n
      <3> QED
        BY <3>1, <3>2, <3>3, <3>4, Zenon DEF Issued
    <2>6. CASE place = "invalid"
      <3>1. mode /\ then = TRUE
        BY <1>2, <2>4, <2>6
      <3>2. /\ replies' = replies /\ unsubs' = {} /\ DOMAIN subscribed' = dom
            /\ commands'[n].place = "invalid"
        BY <1>2, <1>3, <2>1, <2>2, <2>3, <2>6
      <3> HIDE DEF mode, then, dom, n
      <3> QED
        BY <3>1, <3>2, Zenon DEF Issued
    <2>7. CASE place = "SUBSCRIBE"
      <3>1. /\ replies' = replies /\ unsubs' = {} /\ DOMAIN subscribed' = dom \cup ToSet(cmd.topics)
            /\ commands'[n].place = "SUBSCRIBE" /\ then = TRUE
        BY <1>2, <1>3, <2>1, <2>2, <2>3, <2>4, <2>7
      <3> HIDE DEF mode, then, dom, n
      <3> QED
        BY <3>1, Zenon DEF Issued
    <2>8. CASE place = "UNSUBSCRIBE"
      <3>1. /\ replies' = replies /\ unsubs' = ToSet(cmd.topics) /\ DOMAIN subscribed' = dom
            /\ commands'[n].place = "UNSUBSCRIBE" /\ mode /\ then = TRUE
            /\ IsInjective(cmd.topics) /\ ToSet(cmd.topics) \subseteq dom
        BY <1>2, <1>3, <1>4, <2>1, <2>2, <2>3, <2>4, <2>8
      <3> HIDE DEF mode, then, dom, n
      <3> QED
        BY <3>1, Zenon DEF Issued
    <2> QED
      BY <1>2, <2>5, <2>6, <2>7, <2>8 DEF Places
  <1>11. Queue(commands', f, obuf', replies', online, then, serverSubs, unsubs', DOMAIN subscribed')
    <2>1. commands'[n].topics = cmd.topics
      BY <1>3
    <2> HIDE DEF f, n, mode, then, dom
    <2> QED
      BY <1>7, <1>9, <1>10, <2>1, QueueIssued, Zenon
  <1>12. reader' = reader /\ inbox' = inbox /\ online' = online /\ serverSubs' = serverSubs
    BY DEF redisAsyncCommand, serverVars
  <1>13. ("SUBSCRIBED" \in flags)' = then
    OBVIOUS
  <1> QED
    BY <1>11, <1>12, Zenon DEF QueueNow

\* What is normal has been so before.
LEMMA NormalBefore ==
    ASSUME TypeInv, [Next]_vars, Normal'
    PROVE  Normal
  <1>1. process = "running" /\ process' = "running"
    BY RunningStep DEF Normal, Over, Aborted
  <1>2. CASE \E cmd \in Commands : redisAsyncCommand(cmd)
    <2>1. PICK cmd \in Commands : redisAsyncCommand(cmd)
      BY <1>2
    <2>2. ~risky
      BY <2>1 DEF redisAsyncCommand, Normal
    <2>3. ASSUME Monitoring PROVE FALSE
      <3>1. PICK n \in DOMAIN commands : commands[n].name = "MONITOR"
        BY <2>3 DEF Monitoring
      <3>2. CommandsTyped
        BY DEF TypeInv
      <3>3. n \in DOMAIN commands' /\ commands'[n] = commands[n]
        <4>1. DOMAIN commands = 1..Len(commands) /\ Len(commands) \in Nat
          BY <3>2, CommandsFacts
        <4>2. DOMAIN commands' = 1..(Len(commands) + 1) /\ commands'[n] = commands[n]
          BY <2>1, <3>2, CommandFacts
        <4> QED
          BY <4>1, <4>2
      <3> QED
        BY <3>1, <3>3 DEF Normal, Monitoring
    <2> QED
      BY <1>1, <2>2, <2>3 DEF Normal
  <1>3. CASE ~\E cmd \in Commands : redisAsyncCommand(cmd)
    <2>1. commands' = commands /\ (risky => risky')
      <3>1. CASE Over
        BY <3>1 DEF Over
      <3>2. CASE Noted \/ Pushed \/ Received
        BY <3>2 DEF Noted, Pushed, Received
      <3>3. CASE Written \/ Publish \/ Close
        BY <3>3 DEF Written, Publish, Close, historyVars
      <3>4. CASE Answered \/ Announced \/ Guessed
        BY <3>4 DEF Answered, Announced, Guessed, Delivered
      <3> QED
        BY <1>1, <1>3, <3>1, <3>2, <3>3, <3>4, RunningStep, Zenon DEF Aborted
    <2> QED
      BY <1>1, <2>1 DEF Normal, Monitoring
  <1> QED
    BY <1>2, <1>3

\* The order of what is under way is kept by every step.
LEMMA QueueStep ==
    ASSUME TypeInv, DictInv, MonitorInv, QueueInv, [Next]_vars
    PROVE  QueueInv'
  <1> SUFFICES ASSUME Normal' PROVE QueueNow'
    BY Zenon DEF QueueInv
  <1>1. Normal /\ QueueNow
    BY NormalBefore DEF QueueInv
  <1>2. CASE Over
    <2>1. /\ reader' = reader /\ inbox' = inbox /\ commands' = commands /\ obuf' = obuf /\ replies' = replies
          /\ online' = online /\ serverSubs' = serverSubs /\ unsubs' = unsubs /\ subscribed' = subscribed
          /\ flags' = flags
      BY <1>2 DEF Over
    <2> QED
      BY <1>1, <2>1, Zenon DEF QueueNow
  <1>3. CASE Noted \/ Pushed \/ Received \/ Guessed
    BY <1>1, <1>3, QueueKept
  <1>4. CASE Answered \/ Announced
    BY <1>1, <1>4, QueueTaken
  <1>5. CASE Publish \/ Close
    BY <1>1, <1>5, QueueSaid
  <1>6. CASE Written
    BY <1>1, <1>6, QueueWritten
  <1>7. CASE \E cmd \in Commands : redisAsyncCommand(cmd)
    BY <1>1, <1>7, QueueCommand
  <1>8. process' = "running"
    BY DEF Normal
  <1>9. Over \/ Aborted \/ (process' = "freed" /\ Freed) \/ Noted \/ Pushed \/ Received \/ Written
           \/ Answered \/ Announced \/ Guessed \/ (\E cmd \in Commands : redisAsyncCommand(cmd))
           \/ Publish \/ Close
    BY RunningStep, Zenon
  <1>10. ~Aborted
    BY <1>8 DEF Aborted
  <1> QED
    BY <1>2, <1>3, <1>4, <1>5, <1>6, <1>7, <1>8, <1>9, <1>10

\* Nothing is under way at first.
LEMMA QueueInit ==
    ASSUME Init PROVE QueueInv
  <1>1. reader \o inbox = <<>>
    <2>1. reader = <<>> /\ inbox = <<>> /\ <<>> \in Seq(Items)
      BY DEF Init
    <2> QED
      BY <2>1, ConcatEmptySeq
  <1>2. /\ obuf = <<>> /\ replies = <<>> /\ ("SUBSCRIBED" \in flags) = FALSE
        /\ serverSubs = {} /\ unsubs = {} /\ DOMAIN subscribed = {}
    BY DEF Init, Empty
  <1>3. Queue(commands, <<>>, <<>>, <<>>, online, FALSE, {}, {}, {})
    <2>1. Len(<<>>) = 0
      OBVIOUS
    <2> QED
      BY <2>1 DEF Queue, ItemsKnown, InOrder, RegularMode, UnsubsLast, TopicsKnown, WillRefuse
  <1> QED
    BY <1>1, <1>2, <1>3, Zenon DEF QueueInv, QueueNow

-----------------------------------------------------------------------------
(***************************************************************************)
(* What the next reply is, and whose.                                      *)
(***************************************************************************)

\* The next reply answers the first regular callback, belongs to a topic that is
\* subscribed to, or is an error.
LEMMA NextReply ==
    ASSUME TypeInv, QueueNow, reader # <<>>, Head(reader).type # "malformed"
    PROVE  /\ Head(reader) \in Items
           /\ replies # <<>> => Head(reader).type = "error" \/ Head(replies) \in {0, Head(reader).to}
           /\ replies = <<>> => \/ Head(reader).type = "error"
                                \/ /\ Head(reader).topic # "none" /\ Head(reader).topic \in DOMAIN subscribed
                                   /\ "SUBSCRIBED" \in flags
  <1> DEFINE f == reader \o inbox
             mode == "SUBSCRIBED" \in flags
             dom == DOMAIN subscribed
             x == Head(reader)
  <1>1. Len(f) >= 1 /\ f[1] = x /\ Len(f) \in Nat /\ x \in Items
    <2>1. reader \in Seq(Items) /\ inbox \in Seq(Items)
      BY QueueTypes
    <2>2. x \in Items
      BY <2>1
    <2> QED
      BY <2>1, <2>2, ArrivingFacts
  <1>2. /\ ItemsKnown(commands, f, online) /\ InOrder(commands, f, obuf, replies, online)
        /\ ~mode => RegularMode(commands, f, obuf, replies, online, serverSubs)
        /\ TopicsKnown(commands, f, obuf, serverSubs, unsubs, dom)
    BY Zenon DEF QueueNow, Queue
  <1>3. Len(replies) \in Nat /\ (replies = <<>> => Len(replies) = 0)
        /\ (replies # <<>> => 1 <= Len(replies) /\ Head(replies) = replies[1])
    <2>1. replies \in Seq(Numbers)
      BY DEF TypeInv, QueuesTyped
    <2> QED
      BY <2>1
  <1>4. 1 \in 1..Len(f)
    BY <1>1
  <1> HIDE DEF f, mode, dom, x
  <1>5. ~IsClosing(x) \/ x.type = "error"
    BY DEF x, IsClosing
  <1>6. IsAnswer(commands, x) \/ IsRefused(commands, x) \/ IsTopical(x) \/ IsClosing(x)
    BY <1>1, <1>2, <1>4 DEF ItemsKnown
  <1>7. CASE replies # <<>>
    <2>1. CASE IsClosing(x)
      BY <1>5, <1>7, <2>1, <1>1 DEF x
    <2>2. CASE ~IsClosing(x)
      <3>1. replies[1] = Fn(commands, x.to)
        BY <1>1, <1>2, <1>3, <1>4, <1>7, <2>2 DEF InOrder
      <3> QED
        BY <1>1, <1>3, <1>7, <3>1 DEF Fn, x
    <2> QED
      BY <2>1, <2>2
  <1>8. CASE replies = <<>>
    <2>1. ~IsAnswer(commands, x) \/ IsClosing(x)
      BY <1>1, <1>2, <1>3, <1>4, <1>8 DEF InOrder
    <2>2. IsRefused(commands, x) => x.type = "error"
      BY DEF IsRefused
    <2>3. IsTopical(x) => x.topic # "none" /\ x.topic \in dom
      BY <1>1, <1>2, <1>4 DEF TopicsKnown, IsTopical
    <2>4. ~mode => IsClosing(x)
      BY <1>1, <1>2, <1>3, <1>4, <1>8 DEF RegularMode
    <2> QED
      BY <1>1, <1>5, <1>6, <1>8, <2>1, <2>2, <2>3, <2>4 DEF x, dom, mode
  <1> QED
    BY <1>7, <1>8

\* As long as the user does nothing risky, a callback runs that is the first
\* regular one or one of the topic of the reply, and never just the one at hand.
LEMMA TakenBy ==
    ASSUME TypeInv, DictInv, MonitorInv, QueueNow, Normal, Answered \/ Announced \/ Guessed
    PROVE  /\ invalid' = invalid
           /\ \E fn \in Nat :
                /\ Delivered(fn)
                /\ \/ /\ replies # <<>> /\ fn = Head(replies) /\ replies' = Tail(replies)
                      /\ Head(reader).type = "error" \/ fn \in {0, Head(reader).to}
                   \/ /\ replies' = replies
                      /\ fn = 0 \/ /\ fn \in DOMAIN commands /\ commands[fn].place = "SUBSCRIBE"
                                   /\ Head(reader).topic \in ToSet(commands[fn].topics)
  <1>1. CASE Answered
    <2>1. /\ replies # <<>> /\ Delivered(Head(replies)) /\ replies' = Tail(replies) /\ invalid' = invalid
          /\ reader # <<>> /\ Head(reader).type # "malformed"
      BY <1>1 DEF Answered, Delivered
    <2>2. Head(reader).type = "error" \/ Head(replies) \in {0, Head(reader).to}
      BY <2>1, NextReply
    <2>3. Head(replies) \in Nat
      <3>1. replies \in Seq(Numbers) /\ Numbers \subseteq Nat
        BY CommandsFacts DEF TypeInv, QueuesTyped, Numbers
      <3>2. Head(replies) \in Numbers
        BY <2>1, <3>1, QueueOperators
      <3> QED
        BY <3>1, <3>2
    <2> QED
      BY <2>1, <2>2, <2>3
  <1>2. CASE Announced
    <2> DEFINE t == Head(reader).topic
    <2>1. /\ replies = <<>> /\ replies' = replies /\ invalid' = invalid /\ Head(reader).type # "error"
          /\ reader # <<>> /\ Head(reader).type # "malformed"
      BY <1>2 DEF Announced, Delivered
    <2>2. t \in DOMAIN subscribed
      BY <2>1, NextReply
    <2>3. Delivered(subscribed[t]) /\ subscribed[t] \in Nat
      BY <1>2, <2>2, AnnouncedFacts, SubscribedFacts
    <2>4. subscribed[t] # 0 => /\ subscribed[t] \in DOMAIN commands /\ commands[subscribed[t]].place = "SUBSCRIBE"
                               /\ t \in ToSet(commands[subscribed[t]].topics)
      BY <2>2 DEF TypeInv, SubscribedTyped
    <2> HIDE DEF t
    <2> QED
      BY <2>1, <2>3, <2>4 DEF t
  <1>3. CASE Guessed
    <2>1. /\ replies = <<>> /\ reader # <<>> /\ Head(reader).type \notin {"error", "malformed"}
          /\ Head(reader).topic = "none" \/ "MONITORING" \in flags
      BY <1>3 DEF Guessed, Delivered
    <2>2. "MONITORING" \notin flags
      BY DEF Normal, MonitorInv
    <2> QED
      BY <2>1, <2>2, NextReply
  <1> QED
    BY <1>1, <1>2, <1>3

-----------------------------------------------------------------------------
(***************************************************************************)
(* Neither assertion fails, and no freed context is used.                  *)
(***************************************************************************)

\* In onConnect a free is a risk that was taken.
LEMMA ConnectStep ==
    ASSUME TypeInv, ConnectInv, [Next]_vars PROVE ConnectInv'
  <1>1. CASE Over
    BY <1>1 DEF Over, ConnectInv
  <1>2. CASE Aborted
    BY <1>2 DEF Aborted, ConnectInv
  <1>3. CASE Freed
    BY <1>3 DEF Freed, ConnectInv
  <1>4. CASE process' = "running"
    BY <1>4 DEF ConnectInv
  <1> QED
    BY <1>1, <1>2, <1>3, <1>4, RunningStep

\* What the invariants rule out: an assertion that fails, a freed context that is used.
LEMMA SafeStep ==
    ASSUME TypeInv, MonitorInv, ConnectInv, QueueInv, SafeUnlessRisky, [Next]_vars PROVE SafeUnlessRisky'
  <1>1. CASE Over
    BY <1>1 DEF Over, ConnectInv, SafeUnlessRisky
  <1>2. CASE Aborted
    <2>1. /\ process = "running" /\ replies = <<>> /\ reader # <<>> /\ risky' = risky
          /\ Head(reader).type \notin {"error", "malformed"}
          /\ "SUBSCRIBED" \notin flags /\ "MONITORING" \notin flags
      BY <1>2 DEF Aborted
    <2>2. ~Monitoring
      BY <2>1 DEF MonitorInv
    <2>3. ASSUME ~risky PROVE FALSE
      <3>1. QueueNow
        BY <2>1, <2>2, <2>3 DEF QueueInv, Normal
      <3> QED
        BY <2>1, <3>1, NextReply
    <2> QED
      BY <2>1, <2>3 DEF SafeUnlessRisky
  <1>3. CASE process' \in {"running", "freed"}
    BY <1>3 DEF SafeUnlessRisky
  <1> QED
    BY <1>1, <1>2, <1>3, RunningStep

-----------------------------------------------------------------------------
(***************************************************************************)
(* Every regular callback waits once or has run once.                      *)
(***************************************************************************)

\* The callbacks of a list that is left alone wait as before.
LEMMA WaitsKept ==
    ASSUME NEW list, NEW place, NEW cmds, NEW g, NEW more, NEW h, Waits(list, place, cmds, g),
           \A i \in 1..Len(list) : list[i] # 0 => more[list[i]] = cmds[list[i]] /\ h[list[i]] = g[list[i]]
    PROVE  Waits(list, place, more, h)
  BY DEF Waits

\* The first one has run.
LEMMA WaitsTail ==
    ASSUME NEW list \in Seq(Nat), list # <<>>, NEW place, NEW cmds, NEW g, NEW h,
           Waits(list, place, cmds, g),
           \A i \in 1..Len(list) : list[i] # 0 /\ list[i] # Head(list) => h[list[i]] = g[list[i]]
    PROVE  Waits(Tail(list), place, cmds, h)
  <1> DEFINE t == Tail(list)
  <1>1. /\ Len(list) \in Nat /\ Len(t) = Len(list) - 1 /\ \A i \in 1..Len(t) : t[i] = list[i + 1]
        /\ Len(list) >= 1 /\ Head(list) = list[1]
    OBVIOUS
  <1> HIDE DEF t
  <1>2. \A i \in 1..Len(t) : i + 1 \in 1..Len(list) /\ i + 1 # 1 /\ 1 \in 1..Len(list)
    <2>1. /\ Len(list) \in Nat /\ Len(list) >= 1 /\ Len(t) = Len(list) - 1
      BY <1>1
    <2>2. \A l \in Nat : l >= 1 => \A i \in 1..(l - 1) : i + 1 \in 1..l /\ i + 1 # 1 /\ 1 \in 1..l
      OBVIOUS
    <2> QED
      BY <2>1, <2>2, Zenon
  <1>3. ASSUME NEW i \in 1..Len(t), t[i] # 0
        PROVE  cmds[t[i]].place = place /\ cmds[t[i]].callback /\ h[t[i]] = <<>>
    <2>1. list[i + 1] = t[i] /\ i + 1 \in 1..Len(list) /\ i + 1 # 1 /\ 1 \in 1..Len(list)
      BY <1>1, <1>2
    <2>2. t[i] # Head(list)
      BY <1>1, <1>3, <2>1 DEF Waits
    <2> QED
      BY <1>3, <2>1, <2>2 DEF Waits
  <1>4. ASSUME NEW i \in 1..Len(t), NEW j \in 1..Len(t), t[i] = t[j], t[i] # 0 PROVE i = j
    <2>1. list[i + 1] = list[j + 1] /\ list[i + 1] # 0
      BY <1>1, <1>4
    <2>2. i + 1 \in 1..Len(list) /\ j + 1 \in 1..Len(list)
      BY <1>2
    <2>3. i + 1 = j + 1
      BY <2>1, <2>2, Zenon DEF Waits
    <2> QED
      BY <2>3
  <1> QED
    BY <1>3, <1>4, Zenon DEF Waits, t

\* A new one waits behind the others.
LEMMA WaitsAppend ==
    ASSUME NEW list \in Seq(Nat), NEW fn \in Nat, NEW place, NEW cmds, NEW g, Waits(list, place, cmds, g),
           fn # 0 => /\ cmds[fn].place = place /\ cmds[fn].callback /\ g[fn] = <<>>
                     /\ \A i \in 1..Len(list) : list[i] # fn
    PROVE  Waits(Append(list, fn), place, cmds, g)
  <1> DEFINE a == Append(list, fn)
  <1>1. /\ Len(list) \in Nat /\ Len(a) = Len(list) + 1 /\ a[Len(list) + 1] = fn
        /\ \A i \in 1..Len(list) : a[i] = list[i]
    OBVIOUS
  <1> HIDE DEF a
  <1>2. \A i \in 1..Len(a) : (i \in 1..Len(list) /\ a[i] = list[i]) \/ (i = Len(list) + 1 /\ a[i] = fn)
    BY <1>1
  <1>3. \A i \in 1..Len(a) : a[i] # 0 =>
            cmds[a[i]].place = place /\ cmds[a[i]].callback /\ g[a[i]] = <<>>
    BY <1>2 DEF Waits
  <1>4. \A i, j \in 1..Len(a) : a[i] = a[j] /\ a[i] # 0 => i = j
    BY <1>2 DEF Waits
  <1> QED
    BY <1>3, <1>4, Zenon DEF Waits, a

\* The lists hold numbers of commands.
LEMMA ListFacts ==
    ASSUME TypeInv
    PROVE  /\ replies \in Seq(Nat) /\ invalid \in Seq(Nat)
           /\ Len(replies) \in Nat /\ DOMAIN replies = 1..Len(replies)
           /\ Len(invalid) \in Nat /\ DOMAIN invalid = 1..Len(invalid)
           /\ \A i \in 1..Len(replies) : replies[i] # 0 => replies[i] \in DOMAIN commands
           /\ \A i \in 1..Len(invalid) : invalid[i] # 0 => invalid[i] \in DOMAIN commands
           /\ DOMAIN got = DOMAIN commands /\ 0 \notin DOMAIN commands
           /\ DOMAIN commands \subseteq Nat /\ got \in Seq(Seq(Items \cup {NULL}))
  <1>1. CommandsTyped /\ replies \in Seq(Numbers) /\ invalid \in Seq(Numbers)
    BY DEF TypeInv, QueuesTyped
  <1>2. /\ DOMAIN commands = 1..Len(commands) /\ DOMAIN got = 1..Len(commands) /\ Len(commands) \in Nat
        /\ got \in Seq(Seq(Items \cup {NULL})) /\ Numbers \subseteq Nat
        /\ \A n \in Numbers : n # 0 => n \in DOMAIN commands
    BY <1>1, CommandsFacts DEF CommandsTyped, Numbers
  <1>3. ASSUME NEW list \in Seq(Numbers)
        PROVE  /\ list \in Seq(Nat) /\ Len(list) \in Nat /\ DOMAIN list = 1..Len(list)
               /\ \A i \in 1..Len(list) : list[i] \in Numbers
    <2>1. \A S, T : S \subseteq T => \A l \in Seq(S) : l \in Seq(T)
      OBVIOUS
    <2>2. list \in Seq(Nat)
      BY <1>2, <2>1, Zenon
    <2> QED
      BY <2>2
  <1>4. 0 \notin DOMAIN commands /\ DOMAIN commands \subseteq Nat
    BY <1>2
  <1> QED
    BY <1>1, <1>2, <1>3, <1>4

\* A reply is taken: its callback, if it is a regular one, waits no more.
LEMMA OnceTaken ==
    ASSUME TypeInv, DictInv, MonitorInv, QueueNow, OnceNow, Normal, Answered \/ Announced \/ Guessed
    PROVE  OnceNow'
  <1>1. PICK fn \in Nat :
            /\ Delivered(fn)
            /\ \/ replies # <<>> /\ fn = Head(replies) /\ replies' = Tail(replies)
               \/ replies' = replies /\ (fn = 0 \/ commands[fn].place = "SUBSCRIBE")
    BY TakenBy
  <1>2. invalid' = invalid /\ commands' = commands
    BY <1>1, TakenBy DEF Delivered
  <1>3. /\ \A n \in DOMAIN commands : n # fn => got'[n] = got[n]
        /\ fn \in DOMAIN commands => got'[fn] = Append(got[fn], Head(reader)) /\ Head(reader) \in Items
    BY <1>1, DeliveredFacts, ListFacts
  <1>4. /\ Waits(replies, "replies", commands, got) /\ Waits(invalid, "invalid", commands, got)
        /\ \A n \in DOMAIN commands :
              Regular(n) /\ commands[n].callback =>
                  n \in ToSet(replies) \/ n \in ToSet(invalid) \/ Len(got[n]) = 1
    BY DEF OnceNow
  <1>5. /\ replies \in Seq(Nat) /\ Len(replies) \in Nat /\ DOMAIN replies = 1..Len(replies)
        /\ \A i \in 1..Len(replies) : replies[i] # 0 => replies[i] \in DOMAIN commands
        /\ \A i \in 1..Len(invalid) : invalid[i] # 0 => invalid[i] \in DOMAIN commands
        /\ 0 \notin DOMAIN commands
    BY ListFacts
  <1>6. CASE replies # <<>> /\ fn = Head(replies) /\ replies' = Tail(replies)
    <2>1. /\ Len(replies') = Len(replies) - 1 /\ \A i \in 1..Len(replies') : replies'[i] = replies[i + 1]
          /\ Len(replies) >= 1 /\ fn = replies[1] /\ DOMAIN replies' = 1..Len(replies')
      BY <1>5, <1>6
    <2>2. Waits(replies', "replies", commands, got')
      <3>1. \A i \in 1..Len(replies) : replies[i] # 0 /\ replies[i] # Head(replies) =>
                                          got'[replies[i]] = got[replies[i]]
        BY <1>3, <1>5, <1>6
      <3>2. Waits(Tail(replies), "replies", commands, got')
        BY <1>4, <1>5, <1>6, <3>1, WaitsTail
      <3> QED
        BY <1>6, <3>2
    <2>3. fn # 0 => commands[fn].place = "replies" /\ got[fn] = <<>>
      <3>1. 1 \in 1..Len(replies)
        BY <1>5, <2>1
      <3> QED
        BY <1>4, <2>1, <3>1 DEF Waits
    <2>4. Waits(invalid, "invalid", commands, got')
      <3>1. \A i \in 1..Len(invalid) : invalid[i] # 0 => invalid[i] # fn /\ invalid[i] \in DOMAIN commands
        BY <1>4, <1>5, <2>3 DEF Waits
      <3>2. \A i \in 1..Len(invalid) : invalid[i] # 0 => got'[invalid[i]] = got[invalid[i]]
        BY <1>3, <3>1
      <3> QED
        BY <1>4, <3>2, WaitsKept
    <2>5. ASSUME NEW n \in DOMAIN commands, Regular(n), commands[n].callback
          PROVE  n \in ToSet(replies') \/ n \in ToSet(invalid) \/ Len(got'[n]) = 1
      <3>1. CASE n = fn
        <4>1. got'[n] = Append(<<>>, Head(reader))
          BY <1>3, <1>5, <2>3, <3>1
        <4> QED
          BY <4>1
      <3>2. CASE n # fn /\ n \in ToSet(replies)
        <4>1. PICK i \in 1..Len(replies) : replies[i] = n
          BY <1>5, <3>2 DEF ToSet
        <4>2. i # 1
          BY <2>1, <3>2, <4>1
        <4>3. i - 1 \in 1..Len(replies') /\ (i - 1) + 1 = i
          BY <1>5, <2>1, <4>2
        <4>4. replies'[i - 1] = n
          BY <2>1, <4>1, <4>3
        <4> QED
          BY <2>1, <4>3, <4>4 DEF ToSet
      <3>3. CASE n # fn /\ n \notin ToSet(replies)
        BY <1>3, <1>4, <2>5, <3>3
      <3> QED
        BY <3>1, <3>2, <3>3
    <2> QED
      BY <1>2, <2>2, <2>4, <2>5 DEF OnceNow, Regular
  <1>7. CASE replies' = replies /\ (fn = 0 \/ commands[fn].place = "SUBSCRIBE")
    <2>1. \A i \in 1..Len(replies) : replies[i] # 0 => got'[replies[i]] = got[replies[i]]
      <3>1. \A i \in 1..Len(replies) : replies[i] # 0 => commands[replies[i]].place = "replies"
        BY <1>4 DEF Waits
      <3> QED
        BY <1>3, <1>5, <1>7, <3>1
    <2>2. \A i \in 1..Len(invalid) : invalid[i] # 0 => got'[invalid[i]] = got[invalid[i]]
      <3>1. \A i \in 1..Len(invalid) : invalid[i] # 0 => commands[invalid[i]].place = "invalid"
        BY <1>4 DEF Waits
      <3> QED
        BY <1>3, <1>5, <1>7, <3>1
    <2>3. Waits(replies, "replies", commands, got') /\ Waits(invalid, "invalid", commands, got')
      BY <1>4, <2>1, <2>2, WaitsKept
    <2>4. \A n \in DOMAIN commands : Regular(n) => got'[n] = got[n]
      BY <1>3, <1>5, <1>7 DEF Regular
    <2> QED
      BY <1>2, <1>4, <1>7, <2>3, <2>4 DEF OnceNow, Regular
  <1> QED
    BY <1>1, <1>6, <1>7

\* A command is issued: its callback, if there is one, begins to wait.
LEMMA OnceCommand ==
    ASSUME TypeInv, OnceNow, NEW cmd \in Commands, redisAsyncCommand(cmd)
    PROVE  OnceNow'
  <1> DEFINE m == Len(commands) + 1
             fn == NewFn(cmd)
  <1>1. CommandsTyped /\ Len(commands) \in Nat /\ DOMAIN commands = 1..Len(commands)
    BY CommandsFacts DEF TypeInv
  <1>2. /\ \A n \in DOMAIN commands : commands'[n] = commands[n] /\ got'[n] = got[n]
        /\ commands'[m] = Accept(cmd) /\ got'[m] = <<>> /\ DOMAIN commands' = 1..m
    BY <1>1, CommandFacts
  <1>3. commands'[m].place = Register(cmd) /\ commands'[m].callback = cmd.callback
    BY <1>2 DEF Accept
  <1>4. fn = IF cmd.callback THEN m ELSE 0
    BY DEF NewFn
  <1>5. /\ replies' = IF Register(cmd) = "replies" THEN Append(replies, fn) ELSE replies
        /\ invalid' = IF Register(cmd) = "invalid" THEN Append(invalid, fn) ELSE invalid
    BY DEF redisAsyncCommand, NewFn
  <1>6. m \in Nat /\ m # 0 /\ m \notin DOMAIN commands /\ fn \in Nat
    BY <1>1, <1>4
  <1> HIDE DEF m, fn
  <1>7. ASSUME NEW list \in Seq(Nat), NEW place, Waits(list, place, commands, got),
               \A i \in 1..Len(list) : list[i] # 0 => list[i] \in DOMAIN commands
        PROVE  /\ Waits(list, place, commands', got')
               /\ Register(cmd) = place => Waits(Append(list, fn), place, commands', got')
               /\ \A n \in ToSet(list) : n \in ToSet(Append(list, fn))
               /\ fn \in ToSet(Append(list, fn))
    <2>1. Waits(list, place, commands', got')
      BY <1>2, <1>7, WaitsKept
    <2>2. Register(cmd) = place => Waits(Append(list, fn), place, commands', got')
      <3>1. ASSUME fn # 0, Register(cmd) = place
            PROVE  /\ commands'[fn].place = place /\ commands'[fn].callback /\ got'[fn] = <<>>
                   /\ \A i \in 1..Len(list) : list[i] # fn
        BY <1>2, <1>3, <1>4, <1>6, <1>7, <3>1
      <3> QED
        BY <1>6, <2>1, <3>1, WaitsAppend
    <2>3. /\ DOMAIN list = 1..Len(list) /\ Len(list) \in Nat
          /\ DOMAIN Append(list, fn) = 1..(Len(list) + 1)
          /\ \A i \in 1..Len(list) : Append(list, fn)[i] = list[i]
          /\ Append(list, fn)[Len(list) + 1] = fn
      BY <1>6
    <2>4. (\A n \in ToSet(list) : n \in ToSet(Append(list, fn))) /\ fn \in ToSet(Append(list, fn))
      <3> DEFINE a == Append(list, fn)
      <3> HIDE DEF a
      <3>1. /\ DOMAIN list = 1..Len(list) /\ Len(list) \in Nat /\ DOMAIN a = 1..(Len(list) + 1)
            /\ \A i \in 1..Len(list) : a[i] = list[i]
            /\ a[Len(list) + 1] = fn
        BY <2>3 DEF a
      <3>2. (\A i \in 1..Len(list) : i \in DOMAIN a) /\ Len(list) + 1 \in DOMAIN a
        BY <3>1
      <3>3. (\A n \in ToSet(list) : n \in ToSet(a)) /\ fn \in ToSet(a)
        BY <3>1, <3>2 DEF ToSet
      <3> QED
        BY <3>3 DEF a
    <2> QED
      BY <2>1, <2>2, <2>4
  <1>8. /\ Waits(replies', "replies", commands', got')
        /\ \A n \in ToSet(replies) : n \in ToSet(replies')
        /\ Register(cmd) = "replies" => fn \in ToSet(replies')
    <2>1. /\ replies \in Seq(Nat) /\ Waits(replies, "replies", commands, got)
          /\ \A i \in 1..Len(replies) : replies[i] # 0 => replies[i] \in DOMAIN commands
      BY ListFacts DEF OnceNow
    <2>2. /\ Waits(replies, "replies", commands', got')
          /\ Register(cmd) = "replies" => Waits(Append(replies, fn), "replies", commands', got')
          /\ \A n \in ToSet(replies) : n \in ToSet(Append(replies, fn))
          /\ fn \in ToSet(Append(replies, fn))
      BY <1>7, <2>1
    <2> QED
      BY <1>5, <2>2
  <1>9. /\ Waits(invalid', "invalid", commands', got')
        /\ \A n \in ToSet(invalid) : n \in ToSet(invalid')
        /\ Register(cmd) = "invalid" => fn \in ToSet(invalid')
    <2>1. /\ invalid \in Seq(Nat) /\ Waits(invalid, "invalid", commands, got)
          /\ \A i \in 1..Len(invalid) : invalid[i] # 0 => invalid[i] \in DOMAIN commands
      BY ListFacts DEF OnceNow
    <2>2. /\ Waits(invalid, "invalid", commands', got')
          /\ Register(cmd) = "invalid" => Waits(Append(invalid, fn), "invalid", commands', got')
          /\ \A n \in ToSet(invalid) : n \in ToSet(Append(invalid, fn))
          /\ fn \in ToSet(Append(invalid, fn))
      BY <1>7, <2>1
    <2> QED
      BY <1>5, <2>2
  <1>10. ASSUME NEW n \in DOMAIN commands', Regular(n)', commands'[n].callback
         PROVE  n \in ToSet(replies') \/ n \in ToSet(invalid') \/ Len(got'[n]) = 1
    <2>1. CASE n \in DOMAIN commands
      <3>1. Regular(n) /\ commands[n].callback /\ got'[n] = got[n]
        BY <1>2, <1>10, <2>1 DEF Regular
      <3> QED
        BY <1>8, <1>9, <2>1, <3>1 DEF OnceNow
    <2>2. CASE n = m
      <3>1. fn = n /\ Register(cmd) \in {"replies", "invalid"}
        BY <1>3, <1>4, <1>10, <2>2 DEF Regular
      <3> QED
        BY <1>8, <1>9, <3>1
    <2>3. n \in DOMAIN commands \/ n = m
      BY <1>1, <1>2 DEF m
    <2> QED
      BY <2>1, <2>2, <2>3
  <1> QED
    BY <1>8, <1>9, <1>10 DEF OnceNow

\* Every regular callback waits once or has run once, whatever happens.
LEMMA OnceStep ==
    ASSUME TypeInv, DictInv, MonitorInv, QueueInv, OnceInv, [Next]_vars
    PROVE  OnceInv'
  <1> SUFFICES ASSUME Normal' PROVE OnceNow'
    BY Zenon DEF OnceInv
  <1>1. Normal /\ QueueNow /\ OnceNow
    BY NormalBefore DEF QueueInv, OnceInv
  <1>2. CASE UNCHANGED <<replies, invalid, commands, got>>
    BY <1>1, <1>2 DEF OnceNow, Waits, Regular
  <1>3. CASE Answered \/ Announced \/ Guessed
    BY <1>1, <1>3, OnceTaken
  <1>4. CASE \E cmd \in Commands : redisAsyncCommand(cmd)
    BY <1>1, <1>4, OnceCommand
  <1>5. CASE Pushed
    BY <1>1, <1>5 DEF Pushed, Normal, MonitorInv
  <1>6. process = "running" /\ process' = "running"
    BY <1>1 DEF Normal
  <1>7. Over \/ Noted \/ Received \/ Written \/ Publish \/ Close =>
            UNCHANGED <<replies, invalid, commands, got>>
    BY DEF Over, Noted, Received, Written, Publish, Close, contextVars, historyVars
  <1>8. ~Aborted
    BY <1>6 DEF Aborted
  <1> QED
    BY <1>2, <1>3, <1>4, <1>5, <1>6, <1>7, <1>8, RunningStep

\* When the context is freed, the regular callbacks that wait run with NULL, and
\* those that have run do not run again.
LEMMA OnceFreed ==
    ASSUME TypeInv, DictInv, OnceNow, Freed, NEW n \in DOMAIN commands, Regular(n), commands[n].callback
    PROVE  Len(got'[n]) = 1
  <1> DEFINE p == Pending(replies)
             l == Len(replies)
             k == Len(invalid)
  <1>1. /\ p \in Seq(Nat) /\ l \in Nat /\ k \in Nat /\ Len(p) \in Nat /\ Len(p) >= l + k
        /\ \A i \in 1..l : p[i] = replies[i]
        /\ \A i \in 1..k : p[l + i] = invalid[i]
        /\ \A i \in 1..Len(p) : i > l + k => p[i] = 0 \/ commands[p[i]].place = "SUBSCRIBE"
    BY PendingFacts
  <1>2. got' = Run(p, NULL)
    BY DEF Freed
  <1> HIDE DEF p
  <1>3. /\ n \in DOMAIN got /\ n # 0 /\ n \in Nat /\ got \in Seq(Seq(Items \cup {NULL}))
        /\ DOMAIN replies = 1..l /\ DOMAIN invalid = 1..k
    BY ListFacts
  <1>4. /\ n \notin ToSet(p) => Run(p, NULL)[n] = got[n]
        /\ \A i \in 1..Len(p) :
              p[i] = n /\ (\A j \in 1..Len(p) : p[j] = n => j = i) => Run(p, NULL)[n] = Append(got[n], NULL)
    <2>1. NULL \in Items \cup {NULL}
      OBVIOUS
    <2>2. got \in Seq(Seq(Items \cup {NULL})) /\ p \in Seq(Nat)
      BY <1>1, <1>3
    <2>3. /\ Run(p, NULL) \in Seq(Seq(Items \cup {NULL})) /\ Len(Run(p, NULL)) = Len(got)
          /\ \A m \in DOMAIN got :
              /\ m \notin ToSet(p) => Run(p, NULL)[m] = got[m]
              /\ \A i \in 1..Len(p) :
                    p[i] = m /\ (\A j \in 1..Len(p) : p[j] = m => j = i) => Run(p, NULL)[m] = Append(got[m], NULL)
      BY <2>1, <2>2, RunFacts
    <2> QED
      BY <1>3, <2>3, Zenon
  <1>5. Waits(replies, "replies", commands, got) /\ Waits(invalid, "invalid", commands, got)
        /\ (n \in ToSet(replies) \/ n \in ToSet(invalid) \/ Len(got[n]) = 1)
    BY DEF OnceNow
  <1>6. \A j \in 1..Len(p) : \/ j \in 1..l /\ p[j] = replies[j]
                             \/ j - l \in 1..k /\ p[j] = invalid[j - l]
                             \/ p[j] = 0 \/ commands[p[j]].place = "SUBSCRIBE"
    <2> SUFFICES ASSUME NEW j \in 1..Len(p)
                 PROVE  \/ j \in 1..l /\ p[j] = replies[j]
                        \/ j - l \in 1..k /\ p[j] = invalid[j - l]
                        \/ p[j] = 0 \/ commands[p[j]].place = "SUBSCRIBE"
      OBVIOUS
    <2>1. CASE j <= l
      BY <1>1, <2>1
    <2>2. CASE j > l /\ j <= l + k
      <3>1. j - l \in 1..k /\ l + (j - l) = j
        BY <1>1, <2>2
      <3> QED
        BY <1>1, <3>1
    <2>3. CASE j > l + k
      BY <1>1, <2>3
    <2> QED
      BY <1>1, <2>1, <2>2, <2>3
  <1>7. commands[n].place \in {"replies", "invalid"}
    BY DEF Regular
  <1>8. ASSUME NEW i \in 1..Len(p), p[i] = n, got[n] = <<>>, \A j \in 1..Len(p) : p[j] = n => j = i
        PROVE  Len(got'[n]) = 1
    <2>1. got'[n] = Append(<<>>, NULL)
      BY <1>2, <1>4, <1>8
    <2> QED
      BY <2>1
  <1> HIDE DEF l, k
  <1>9. CASE n \in ToSet(replies)
    <2>1. PICK i \in 1..l : replies[i] = n
      BY <1>3, <1>9 DEF ToSet
    <2>2. commands[n].place = "replies" /\ got[n] = <<>>
      BY <1>3, <1>5, <2>1 DEF Waits, l
    <2>3. i \in 1..Len(p) /\ p[i] = n
      BY <1>1, <2>1
    <2>4. ASSUME NEW j \in 1..Len(p), p[j] = n PROVE j = i
      <3>1. \A e \in 1..k : invalid[e] # n
        BY <1>3, <1>5, <2>2 DEF Waits, k
      <3>2. j \in 1..l /\ replies[j] = n
        BY <1>3, <1>6, <2>2, <2>4, <3>1
      <3> QED
        BY <1>3, <1>5, <2>1, <3>2 DEF Waits, l
    <2> QED
      BY <1>8, <2>2, <2>3, <2>4
  <1>10. CASE n \in ToSet(invalid)
    <2>1. PICK i \in 1..k : invalid[i] = n
      BY <1>3, <1>10 DEF ToSet
    <2>2. commands[n].place = "invalid" /\ got[n] = <<>>
      BY <1>3, <1>5, <2>1 DEF Waits, k
    <2>3. l + i \in 1..Len(p) /\ p[l + i] = n
      BY <1>1, <2>1
    <2>4. ASSUME NEW j \in 1..Len(p), p[j] = n PROVE j = l + i
      <3>1. \A e \in 1..l : replies[e] # n
        BY <1>3, <1>5, <2>2 DEF Waits, l
      <3>2. j - l \in 1..k /\ invalid[j - l] = n
        BY <1>3, <1>6, <2>2, <2>4, <3>1
      <3>3. j - l = i
        BY <1>3, <1>5, <2>1, <3>2 DEF Waits, k
      <3> QED
        BY <1>1, <2>1, <3>3
    <2> QED
      BY <1>8, <2>2, <2>3, <2>4
  <1>11. CASE n \notin ToSet(replies) /\ n \notin ToSet(invalid)
    <2>1. n \notin ToSet(p)
      <3> SUFFICES ASSUME NEW j \in DOMAIN p, p[j] = n PROVE FALSE
        BY DEF ToSet
      <3>1. j \in 1..Len(p)
        BY <1>1
      <3>2. \A e \in 1..l : replies[e] # n
        BY <1>3, <1>11 DEF ToSet
      <3>3. \A e \in 1..k : invalid[e] # n
        BY <1>3, <1>11 DEF ToSet
      <3> QED
        BY <1>3, <1>6, <1>7, <3>1, <3>2, <3>3
    <2> QED
      BY <1>2, <1>4, <1>5, <1>11, <2>1
  <1> QED
    BY <1>9, <1>10, <1>11

\* What waits once runs once, also when the context is freed.
LEMMA CallbackOnceStep ==
    ASSUME TypeInv, DictInv, OnceInv, TypeInv', OnceInv', CallbackOnce, [Next]_vars
    PROVE  CallbackOnce'
  <1>0. \A x \in {0, 1} : x <= 1
    OBVIOUS
  <1>1. CASE Over \/ Aborted
    <2>1. /\ commands' = commands /\ got' = got /\ risky' = risky
          /\ process' = "freed" => process = "freed"
      BY <1>1 DEF Over, Aborted
    <2> QED
      BY <2>1 DEF CallbackOnce, Monitoring, Regular
  <1>2. CASE Freed
    <2>1. commands' = commands /\ (risky => risky') /\ process = "running"
      BY <1>2 DEF Freed
    <2> SUFFICES ASSUME ~risky', ~Monitoring', NEW n \in DOMAIN commands', Regular(n)', commands'[n].callback
                 PROVE  Len(got'[n]) = 1
      <3>1. \A x : x = 1 => x <= 1
        BY <1>0
      <3> QED
        BY <3>1, Zenon DEF CallbackOnce
    <2>2. OnceNow
      BY <2>1 DEF OnceInv, Normal, Monitoring
    <2>3. n \in DOMAIN commands /\ Regular(n) /\ commands[n].callback
      BY <2>1 DEF Regular
    <2> QED
      BY <1>2, <2>2, <2>3, OnceFreed
  <1>3. CASE process' = "running"
    <2> SUFFICES ASSUME ~risky', ~Monitoring', NEW n \in DOMAIN commands', Regular(n)', commands'[n].callback
                 PROVE  Len(got'[n]) <= 1
      BY <1>3 DEF CallbackOnce
    <2>1. OnceNow'
      BY <1>3 DEF OnceInv, Normal
    <2>2. ASSUME NEW list, NEW place, Waits(list, place, commands', got'), n \in ToSet(list),
                 DOMAIN list = 1..Len(list)
          PROVE  got'[n] = <<>>
      <3>1. PICK i \in 1..Len(list) : list[i] = n
        BY <2>2 DEF ToSet
      <3>2. n # 0
        <4>1. commands' \in Seq(Accepted)
          BY DEF TypeInv, CommandsTyped
        <4> QED
          BY <4>1
      <3> QED
        BY <2>2, <3>1, <3>2 DEF Waits
    <2>3. /\ Waits(replies', "replies", commands', got') /\ Waits(invalid', "invalid", commands', got')
          /\ n \in ToSet(replies') \/ n \in ToSet(invalid') \/ Len(got'[n]) = 1
      BY <2>1, Zenon DEF OnceNow
    <2>4. DOMAIN replies' = 1..Len(replies') /\ DOMAIN invalid' = 1..Len(invalid')
      <3>1. replies' \in Seq(Numbers') /\ invalid' \in Seq(Numbers')
        BY DEF TypeInv, QueuesTyped
      <3> QED
        BY <3>1
    <2>5. n \in ToSet(replies') \/ n \in ToSet(invalid') => got'[n] = <<>>
      BY <2>2, <2>3, <2>4, Zenon
    <2>6. Len(got'[n]) \in {0, 1}
      <3>1. Len(<<>>) = 0
        OBVIOUS
      <3>2. got'[n] = <<>> \/ Len(got'[n]) = 1
        BY <2>3, <2>5
      <3> QED
        BY <3>1, <3>2, Zenon
    <2> QED
      BY <1>0, <2>6, Zenon
  <1> QED
    BY <1>1, <1>2, <1>3, RunningStep

-----------------------------------------------------------------------------
(***************************************************************************)
(* Every callback gets its own reply.                                      *)
(***************************************************************************)

\* What the callback of cmd, the n-th command, may get.
May(cmd, n, r) ==
    LET regular == cmd.place \in {"replies", "invalid"} /\ cmd.name # "MONITOR"
    IN  \/ r.type = "NULL"
        \/ regular /\ (r.to = n \/ r.type = "error")
        \/ ~regular /\ r.topic \in ToSet(cmd.topics)
Own(n, r) == May(commands[n], n, r)

\* The reply that is taken goes to a callback that may get it.
LEMMA OwnTaken ==
    ASSUME TypeInv, DictInv, MonitorInv, QueueNow, OnceNow, OwnReply, Normal,
           Answered \/ Announced \/ Guessed
    PROVE  OwnReply'
  <1>1. PICK fn \in Nat :
            /\ Delivered(fn)
            /\ \/ /\ replies # <<>> /\ fn = Head(replies)
                  /\ Head(reader).type = "error" \/ fn \in {0, Head(reader).to}
               \/ fn = 0 \/ /\ fn \in DOMAIN commands /\ commands[fn].place = "SUBSCRIBE"
                            /\ Head(reader).topic \in ToSet(commands[fn].topics)
    BY TakenBy
  <1>2. commands' = commands
    BY <1>1 DEF Delivered
  <1>3. /\ Head(reader) \in Items /\ DOMAIN got = DOMAIN commands /\ 0 \notin DOMAIN commands
        /\ \A n \in DOMAIN got : got'[n] = IF n = fn THEN Append(got[n], Head(reader)) ELSE got[n]
        /\ \A n \in DOMAIN got : got[n] \in Seq(Items \cup {NULL})
    <2>1. got \in Seq(Seq(Items \cup {NULL})) /\ DOMAIN got = DOMAIN commands /\ 0 \notin DOMAIN commands
      BY ListFacts, Zenon
    <2>2. /\ Head(reader) \in Items
          /\ \A n \in DOMAIN got : got'[n] = IF n = fn THEN Append(got[n], Head(reader)) ELSE got[n]
      BY <1>1, DeliveredFacts, Zenon
    <2>3. \A n \in DOMAIN got : got[n] \in Seq(Items \cup {NULL})
      BY <2>1
    <2> QED
      BY <2>1, <2>2, <2>3, Zenon
  <1>4. \A n \in DOMAIN commands : \A i \in DOMAIN got[n] : Own(n, got[n][i])
    BY Zenon DEF OwnReply, Own, May, Regular, Normal
  <1>5. ASSUME fn \in DOMAIN commands PROVE Own(fn, Head(reader))
    <2>1. CASE replies # <<>> /\ fn = Head(replies) /\ (Head(reader).type = "error" \/ fn \in {0, Head(reader).to})
      <3>1. fn # 0 /\ commands[fn].name # "MONITOR"
        BY <1>3, <1>5 DEF Normal, Monitoring
      <3>2. commands[fn].place = "replies"
        <4>1. 1 \in 1..Len(replies) /\ replies[1] = fn
          <5>1. replies \in Seq(Nat) /\ Len(replies) \in Nat
            BY ListFacts
          <5> QED
            BY <2>1, <5>1
        <4> QED
          BY <3>1, <4>1 DEF OnceNow, Waits
      <3>3. Regular(fn)
        BY <3>1, <3>2 DEF Regular
      <3> QED
        BY <2>1, <3>1, <3>3 DEF Own, May, Regular
    <2>2. CASE commands[fn].place = "SUBSCRIBE" /\ Head(reader).topic \in ToSet(commands[fn].topics)
      BY <2>2 DEF Own, May, Regular
    <2> QED
      BY <1>1, <1>3, <1>5, <2>1, <2>2
  <1>7. ASSUME NEW n \in DOMAIN commands, NEW i \in DOMAIN got'[n] PROVE Own(n, got'[n][i])
    <2>1. CASE n = fn
      <3>1. got[n] \in Seq(Items \cup {NULL}) /\ got'[n] = Append(got[n], Head(reader)) /\ Head(reader) \in Items
        BY <1>3, <2>1
      <3>2. (i \in DOMAIN got[n] /\ got'[n][i] = got[n][i]) \/ got'[n][i] = Head(reader)
        <4>1. \A s \in Seq(Items \cup {NULL}) : \A r \in Items : \A e \in DOMAIN Append(s, r) :
                (e \in DOMAIN s /\ Append(s, r)[e] = s[e]) \/ Append(s, r)[e] = r
          OBVIOUS
        <4> QED
          BY <3>1, <4>1, Zenon
      <3> QED
        BY <1>4, <1>5, <2>1, <3>2
    <2>2. CASE n # fn
      BY <1>3, <1>4, <2>2
    <2> QED
      BY <2>1, <2>2
  <1> QED
    BY <1>2, <1>7, Zenon DEF OwnReply, Own, May, Regular

\* The same for every step: NULL at the end, nothing for a command just issued.
LEMMA OwnStep ==
    ASSUME TypeInv, DictInv, MonitorInv, QueueInv, OnceInv, OwnReply, [Next]_vars
    PROVE  OwnReply'
  <1>1. CASE UNCHANGED <<commands, got>> /\ (risky => risky')
    BY <1>1, Zenon DEF OwnReply, Monitoring, Regular
  <1>2. CASE Answered \/ Announced \/ Guessed
    <2>1. process = "running" /\ risky' = risky /\ commands' = commands
      BY <1>2 DEF Answered, Announced, Guessed, Delivered
    <2>2. CASE risky \/ Monitoring
      BY <2>1, <2>2 DEF OwnReply, Monitoring
    <2>3. CASE Normal
      BY <1>2, <2>3, OwnTaken DEF QueueInv, OnceInv
    <2> QED
      BY <2>1, <2>2, <2>3 DEF Normal
  <1>3. CASE Freed
    <2> DEFINE p == Pending(replies)
    <2>1. commands' = commands /\ got' = Run(p, NULL) /\ (risky => risky')
      BY <1>3 DEF Freed
    <2>2. p \in Seq(Nat) /\ got \in Seq(Seq(Items \cup {NULL})) /\ NULL \in Items \cup {NULL}
      BY PendingFacts, ListFacts
    <2> HIDE DEF p
    <2>3. /\ Run(p, NULL) \in Seq(Seq(Items \cup {NULL})) /\ Len(Run(p, NULL)) = Len(got)
          /\ \A n \in DOMAIN got :
                /\ \A i \in 1..Len(got[n]) : Run(p, NULL)[n][i] = got[n][i]
                /\ \A i \in 1..Len(Run(p, NULL)[n]) :
                      i > Len(got[n]) => Run(p, NULL)[n][i] = NULL /\ n \in ToSet(p)
      BY <2>2, RunFacts
    <2> SUFFICES ASSUME ~risky', ~Monitoring', NEW n \in DOMAIN commands, NEW i \in DOMAIN got'[n]
                 PROVE  Own(n, got'[n][i])
      BY <2>1, Zenon DEF OwnReply, Own, May, Regular
    <2>4. \A e \in DOMAIN got[n] : Own(n, got[n][e])
      BY <2>1, Zenon DEF OwnReply, Own, May, Regular, Monitoring
    <2>5. n \in DOMAIN got /\ n \in DOMAIN got'
      <3>1. n \in DOMAIN got /\ DOMAIN got = 1..Len(got)
        BY <2>2, ListFacts
      <3> QED
        BY <2>1, <2>3, <3>1
    <2>6. /\ got[n] \in Seq(Items \cup {NULL}) /\ got'[n] \in Seq(Items \cup {NULL})
      BY <2>1, <2>2, <2>3, <2>5
    <2>7. CASE i <= Len(got[n])
      <3>1. i \in 1..Len(got[n]) /\ i \in DOMAIN got[n]
        BY <2>6, <2>7
      <3>2. got'[n][i] = got[n][i]
        BY <2>1, <2>3, <2>5, <3>1
      <3> QED
        BY <2>4, <3>1, <3>2
    <2>8. CASE i > Len(got[n])
      <3>1. i \in 1..Len(got'[n])
        BY <2>6
      <3>2. got'[n][i] = NULL
        BY <2>1, <2>3, <2>5, <2>8, <3>1
      <3> QED
        BY <3>2 DEF Own, May, NULL
    <2>9. i \in Nat /\ Len(got[n]) \in Nat
      BY <2>6
    <2> QED
      BY <2>7, <2>8, <2>9
  <1>4. CASE \E cmd \in Commands : redisAsyncCommand(cmd)
    <2>1. PICK cmd \in Commands : redisAsyncCommand(cmd)
      BY <1>4
    <2>2. CommandsTyped
      BY DEF TypeInv
    <2>3. /\ DOMAIN commands = 1..Len(commands) /\ Len(commands) \in Nat
          /\ DOMAIN commands' = 1..(Len(commands) + 1)
          /\ \A n \in DOMAIN commands : commands'[n] = commands[n] /\ got'[n] = got[n]
          /\ got'[Len(commands) + 1] = <<>>
      BY <2>1, <2>2, CommandFacts, CommandsFacts
    <2>4. process = "running" /\ process' = "running"
      BY <2>1 DEF redisAsyncCommand, UserTurn
    <2> SUFFICES ASSUME ~risky', ~Monitoring', NEW n \in DOMAIN commands', NEW i \in DOMAIN got'[n]
                 PROVE  May(commands'[n], n, got'[n][i])
      BY Zenon DEF OwnReply, May, Regular
    <2>5. Normal
      BY <2>4, NormalBefore DEF Normal
    <2>6. n \in DOMAIN commands
      <3>1. n \in DOMAIN commands \/ n = Len(commands) + 1
        BY <2>3
      <3>2. DOMAIN <<>> = {}
        OBVIOUS
      <3> QED
        BY <2>3, <3>1, <3>2
    <2>7. got'[n] = got[n] /\ commands'[n] = commands[n]
      BY <2>3, <2>6
    <2>8. Own(n, got[n][i])
      BY <2>5, <2>6, <2>7, Zenon DEF OwnReply, Own, May, Regular, Normal
    <2> QED
      BY <2>7, <2>8, Zenon DEF Own, May, Regular
  <1>5. Over \/ Aborted \/ Noted \/ Pushed \/ Received \/ Written \/ Publish \/ Close =>
            UNCHANGED <<commands, got>> /\ (risky => risky')
    BY DEF Over, Aborted, Noted, Pushed, Received, Written, Publish, Close, contextVars, historyVars
  <1> QED
    BY <1>1, <1>2, <1>3, <1>4, <1>5, RunningStep, Zenon

-----------------------------------------------------------------------------
(***************************************************************************)
(* The whole invariant, and what follows from it.                          *)
(***************************************************************************)

\* It holds at first.
LEMMA SafetyInit == Init => SafetyInv
  <1> SUFFICES ASSUME Init PROVE SafetyInv
    OBVIOUS
  <1>1. /\ commands = <<>> /\ got = <<>> /\ process = "running" /\ flags = {} /\ monitored = FALSE
        /\ replies = <<>> /\ invalid = <<>> /\ pc = "loop" /\ Len(<<>>) = 0 /\ DOMAIN <<>> = {}
    BY DEF Init
  <1>2. MonitorInv /\ ConnectInv
    BY <1>1 DEF MonitorInv, ConnectInv, Monitoring
  <1>3. GotInv /\ CleanInv
    BY <1>1 DEF GotInv, CleanInv
  <1>4. OnceInv
    BY <1>1 DEF OnceInv, OnceNow, Waits
  <1>5. OwnReply /\ CallbackOnce /\ CleanDisconnect /\ SafeUnlessRisky
    BY <1>1 DEF OwnReply, CallbackOnce, CleanDisconnect, SafeUnlessRisky
  <1> QED
    BY <1>2, <1>3, <1>4, <1>5, TypeInit, QueueInit DEF SafetyInv

\* Every step keeps it.
LEMMA SafetyStep == SafetyInv /\ [Next]_vars => SafetyInv'
  <1> SUFFICES ASSUME SafetyInv, [Next]_vars PROVE SafetyInv'
    OBVIOUS
  <1> USE DEF SafetyInv
  <1>1. TypeInv' /\ DictInv'
    BY TypeStep
  <1>2. MonitorInv' /\ ConnectInv'
    BY MonitorStep, ConnectStep
  <1>3. GotInv' /\ CleanInv' /\ CleanDisconnect'
    BY GotStepInv, CleanStep, DisconnectStep
  <1>4. QueueInv' /\ OnceInv'
    BY QueueStep, OnceStep
  <1>5. CallbackOnce'
    BY <1>1, <1>4, CallbackOnceStep
  <1>6. OwnReply' /\ SafeUnlessRisky'
    BY OwnStep, SafeStep
  <1> QED
    BY <1>1, <1>2, <1>3, <1>4, <1>5, <1>6

\* All of it holds in every state of every run, for every set of commands and
\* topics, every hash and every bound.
THEOREM SafetyKept == Spec => []SafetyInv
  BY SafetyInit, SafetyStep, PTL DEF Spec

\* The assertions of redisProcessCallbacks and of __redisAsyncDisconnect never fail,
\* and no freed context is used, unless the user has issued one of the commands that
\* RiskyCommand names, or has disconnected or freed the context in onConnect.
THEOREM SafeWithoutRisks == Spec => []SafeUnlessRisky
  <1>1. SafetyInv => SafeUnlessRisky
    BY DEF SafetyInv
  <1> QED
    BY <1>1, SafetyKept, PTL

\* Without risks and MONITOR, the callback of a regular command runs at most once,
\* and has run when the context is gone.
THEOREM CallbacksRunOnce == Spec => []CallbackOnce
  <1>1. SafetyInv => CallbackOnce
    BY DEF SafetyInv
  <1> QED
    BY <1>1, SafetyKept, PTL

\* Without risks and MONITOR, a regular callback gets the reply to its own command,
\* the refusal of the connection or NULL; a subscription's callback gets messages of
\* the topics it was given for, or NULL.
THEOREM CallbacksGetTheirOwn == Spec => []OwnReply
  <1>1. SafetyInv => OwnReply
    BY DEF SafetyInv
  <1> QED
    BY <1>1, SafetyKept, PTL
=============================================================================
