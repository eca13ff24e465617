----------------------- MODULE StringHashtableProofs ------------------------
(***************************************************************************)
(* Proofs about StringHashtable, for each of its kinds, every number of    *)
(* clients, keys and calls.                                                *)
(*                                                                         *)
(* LockInv is the mutual exclusion that mutex_ gives, EntryInv what a call *)
(* knows of the entry it has found until it is done with it: that it is    *)
(* still the entry of its key, by mutex_ or, in tbb_rand, by the accessor. *)
(* FreshInv makes the ids that calls give to their entries unique.         *)
(***************************************************************************)
EXTENDS StringHashtable, DataLemmas, TLAPS

Places == {"idle", "lock", "find", "read", "write", "insert", "free", "erase", "first", "iterate",
           "unlock", "release", "undefined"}

TypeInv ==
    /\ kind \in Kinds
    /\ table \in [Keys -> Ids \cup {NULL}]
    /\ value \in [Ids -> Ids \cup {NULL}]
    /\ freed \subseteq Ids /\ leaked \subseteq Ids
    /\ accessor \in [Ids -> Clients \cup {NULL}]
    /\ readers \subseteq Clients /\ writer \in Clients \cup {NULL}
    /\ pc \in [Clients -> Places]
    /\ calls \in [Clients -> 0..MaxCalls]
    /\ call \in [Clients -> CallNames]
    /\ key \in [Clients -> Keys \cup {0}]
    /\ n \in [Clients -> Nat]
    /\ entry \in [Clients -> Ids \cup {NULL}]
    /\ old \in [Clients -> Ids \cup {NULL}]
    /\ pos \in [Clients -> 1..End]
    /\ pairs \in [Clients -> Seq(Keys \X (Ids \cup {NULL}))]
    /\ before \in [Clients -> SUBSET Keys]
    /\ DOMAIN answer = Clients

\* Which calls are at which places, and with which keys.
CallInv ==
    \A c \in Clients :
        /\ pc[c] # "idle" => calls[c] > 0
        /\ pc[c] # "idle" /\ call[c] # "Entries" => key[c] \in Keys
        /\ pc[c] \in {"find", "read"} => call[c] \in {"Get", "Update", "Remove"}
        /\ pc[c] = "write" => call[c] = "Update"
        /\ pc[c] = "insert" => call[c] = "Insert"
        /\ pc[c] \in {"free", "erase"} => call[c] = "Remove"
        /\ pc[c] \in {"first", "iterate"} => call[c] = "Entries"

\* The calls that have mutex_, and how they have it.
Inside(c) == pc[c] \notin {"idle", "lock", "release"}

LockInv ==
    /\ writer # NULL => readers = {}
    /\ \A c \in Clients : Inside(c) => IF Exclusive(call[c]) THEN writer = c ELSE c \in readers

\* The entries that calls have found.
Holding(c) == pc[c] \in {"read", "write", "free", "erase"}

EntryInv ==
    \A c \in Clients :
        /\ Holding(c) => entry[c] # NULL /\ entry[c] = table[key[c]]
        /\ pc[c] \in {"write", "erase"} => old[c] = value[entry[c]]
        /\ pc[c] \in {"idle", "lock", "find", "insert", "first", "iterate"} => entry[c] = NULL
        /\ kind = "tbb_rand" /\ entry[c] # NULL => accessor[entry[c]] = c

\* Every id in use was made by a call that has made it, and is one key's.
Made == {i \in Ids : /\ i[2] <= calls[i[1]]
                     /\ pc[i[1]] \in {"lock", "insert"} => i[2] < calls[i[1]]}

FreshInv ==
    /\ \A k \in Present : table[k] \in Made /\ value[table[k]] # NULL
    /\ freed \cup leaked \subseteq Made
    /\ \A j, k \in Present : table[j] = table[k] => j = k

\* The key copy of an entry is freed while a Remove is about to erase it.
Erasing(c) == call[c] = "Remove" /\ pc[c] \in {"read", "erase"}

FreedInv ==
    /\ \A k \in Present : table[k] \in freed => \E c \in Clients : Erasing(c) /\ entry[c] = table[k]
    /\ leaked \cap (freed \cup {table[k] : k \in Present}) = {}
    /\ \A c \in Clients : pc[c] = "undefined" =>
          kind = "tbb_rand" /\ \E d \in Clients : Erasing(d)

\* The iterator of Entries is at an entry, or at the end.
PosInv == \A c \in Clients : pc[c] = "iterate" => pos[c] \in Present \cup {End}

BaseInv == TypeInv /\ CallInv

-----------------------------------------------------------------------------
\* The place that Seek finds is a key that is present, or the end.
LEMMA SeekType ==
    ASSUME TypeInv, NEW k \in 1..End
    PROVE  /\ Seek(k) \in 1..End
           /\ Seek(k) = End \/ (Seek(k) \in Present /\ Seek(k) >= k)
           /\ \A j \in Present : j >= k => Seek(k) <= j
           /\ Seek(k) <= End
  <1> DEFINE S == {j \in Present : j >= k} \cup {End}
  <1>1. S \in SUBSET Int /\ S # {} /\ S \subseteq 1..End /\ Present \subseteq Keys
    BY SizesAssumption DEF Present, Keys, End
  <1>2. IsFiniteSet(S)
    <2>1. IsFiniteSet(1..End)
      BY SizesAssumption, FS_Interval DEF End
    <2> QED
      BY <1>1, <2>1, FS_Subset
  <1>3. \E x \in S : \A y \in S : x <= y
    BY <1>1, <1>2, LeastElement
  <1>4. Seek(k) = CHOOSE x \in S : \A y \in S : x <= y
    BY DEF Seek, Min
  <1> HIDE DEF S
  <1>5. Seek(k) \in S /\ \A y \in S : Seek(k) <= y
    BY <1>3, <1>4
  <1> USE DEF S
  <1> QED
    BY <1>1, <1>5

LEMMA IdType == ASSUME TypeInv, CallInv, NEW c \in Clients, pc[c] # "idle"
                PROVE Id(c) \in Ids /\ Id(c)[1] = c /\ Id(c)[2] = calls[c]
  <1>1. calls[c] \in 1..MaxCalls
    BY SizesAssumption DEF TypeInv, CallInv
  <1> QED
    BY <1>1 DEF Id, Ids

LEMMA BaseInit == Init => BaseInv
  <1> SUFFICES ASSUME Init PROVE BaseInv
    OBVIOUS
  <1> USE DEF Init
  <1>1. table \in [Keys -> Ids \cup {NULL}] /\ value \in [Ids -> Ids \cup {NULL}]
    OBVIOUS
  <1>2. accessor \in [Ids -> Clients \cup {NULL}] /\ pc \in [Clients -> Places]
    BY DEF Places
  <1>3. calls \in [Clients -> 0..MaxCalls] /\ call \in [Clients -> CallNames]
    BY SizesAssumption DEF CallNames
  <1>4. key \in [Clients -> Keys \cup {0}] /\ n \in [Clients -> Nat]
    OBVIOUS
  <1>5. entry \in [Clients -> Ids \cup {NULL}] /\ old \in [Clients -> Ids \cup {NULL}]
    OBVIOUS
  <1>6. pos \in [Clients -> 1..End] /\ before \in [Clients -> SUBSET Keys]
    BY SizesAssumption DEF End
  <1>7. pairs \in [Clients -> Seq(Keys \X (Ids \cup {NULL}))]
    BY EmptySeq
  <1>8. TypeInv
    BY <1>1, <1>2, <1>3, <1>4, <1>5, <1>6, <1>7 DEF TypeInv
  <1>9. CallInv
    BY DEF CallInv
  <1> QED
    BY <1>8, <1>9 DEF BaseInv

\* What the locals are once a call has returned.
LEMMA ReturnType ==
    ASSUME TypeInv, NEW c \in Clients, Return(c)
    PROVE  /\ pc' \in [Clients -> Places] /\ key' \in [Clients -> Keys \cup {0}]
           /\ n' \in [Clients -> Nat] /\ entry' \in [Clients -> Ids \cup {NULL}]
           /\ old' \in [Clients -> Ids \cup {NULL}] /\ pos' \in [Clients -> 1..End]
           /\ pairs' \in [Clients -> Seq(Keys \X (Ids \cup {NULL}))]
           /\ before' \in [Clients -> SUBSET Keys]
  <1>1. <<>> \in Seq(Keys \X (Ids \cup {NULL})) /\ End \in 1..End
    BY EmptySeq, SizesAssumption DEF End
  <1>2. pc' \in [Clients -> Places] /\ key' \in [Clients -> Keys \cup {0}] /\ n' \in [Clients -> Nat]
    BY DEF Return, GoTo, TypeInv, Places
  <1>3. entry' \in [Clients -> Ids \cup {NULL}] /\ old' \in [Clients -> Ids \cup {NULL}]
    BY DEF Return, TypeInv
  <1>4. pos' \in [Clients -> 1..End] /\ before' \in [Clients -> SUBSET Keys]
    BY <1>1 DEF Return, TypeInv
  <1>5. pairs' \in [Clients -> Seq(Keys \X (Ids \cup {NULL}))]
    BY <1>1 DEF Return, TypeInv
  <1> QED
    BY <1>2, <1>3, <1>4, <1>5

\* A client's step keeps the types.
LEMMA TypeClient == ASSUME BaseInv, EntryInv, PosInv, NEW c \in Clients, Client(c) PROVE TypeInv'
  <1> USE DEF BaseInv, TypeInv, At, GoTo, Answer, Places, mapVars, lockVars, localVars
  <1>1. CASE Begin(c)
    <2>1. calls' \in [Clients -> 0..MaxCalls]
      BY <1>1, SizesAssumption DEF Begin
    <2>2. call' \in [Clients -> CallNames]
      BY <1>1 DEF Begin
    <2>3. key' \in [Clients -> Keys \cup {0}]
      BY <1>1 DEF Begin
    <2>4. n' \in [Clients -> Nat]
      BY <1>1, SizesAssumption DEF Begin
    <2>5. pc' \in [Clients -> Places]
      BY <1>1 DEF Begin
    <2> QED
      BY <1>1, <2>1, <2>2, <2>3, <2>4, <2>5 DEF Begin
  <1>2. CASE Lock(c)
    <2>1. pc' \in [Clients -> Places]
      BY <1>2 DEF Lock, Body, CallNames
    <2>2. readers' \subseteq Clients /\ writer' \in Clients \cup {NULL}
      BY <1>2 DEF Lock
    <2> QED
      BY <1>2, <2>1, <2>2 DEF Lock
  <1>3. CASE Find(c)
    <2>1. pc' \in [Clients -> Places] /\ DOMAIN answer' = Clients
      BY <1>3 DEF Find
    <2>2. entry' \in [Clients -> Ids \cup {NULL}] /\ accessor' \in [Ids -> Clients \cup {NULL}]
      <3>1. key[c] \in Keys
        BY <1>3 DEF Find, CallInv
      <3>2. table[key[c]] \in Ids \cup {NULL}
        BY <3>1
      <3>3. entry' = entry \/ entry' = [entry EXCEPT ![c] = table[key[c]]]
        BY <1>3 DEF Find
      <3>4. entry' \in [Clients -> Ids \cup {NULL}]
        BY <3>2, <3>3
      <3>5. accessor' = accessor \/ accessor' = [accessor EXCEPT ![table[key[c]]] = c]
        BY <1>3 DEF Find
      <3>6. accessor' \in [Ids -> Clients \cup {NULL}]
        BY <3>5
      <3> QED
        BY <3>4, <3>6
    <2> QED
      BY <1>3, <2>1, <2>2 DEF Find
  <1>4. CASE ReadValue(c)
    <2>1. entry[c] \in Ids
      BY <1>4 DEF ReadValue, EntryInv, Holding
    <2>2. old' \in [Clients -> Ids \cup {NULL}]
      <3>1. old' = old \/ old' = [old EXCEPT ![c] = value[entry[c]]]
        BY <1>4 DEF ReadValue
      <3>2. value[entry[c]] \in Ids \cup {NULL}
        BY <2>1
      <3> QED
        BY <3>1, <3>2
    <2>3. pc' \in [Clients -> Places] /\ DOMAIN answer' = Clients
      BY <1>4 DEF ReadValue
    <2> QED
      BY <1>4, <2>2, <2>3 DEF ReadValue
  <1>5. CASE WriteValue(c)
    <2>1. value' \in [Ids -> Ids \cup {NULL}]
      BY <1>5, IdType DEF WriteValue
    <2>2. pc' \in [Clients -> Places] /\ DOMAIN answer' = Clients
      BY <1>5 DEF WriteValue
    <2> QED
      BY <1>5, <2>1, <2>2 DEF WriteValue
  <1>6. CASE InsertEntry(c)
    <2>1. Id(c) \in Ids
      BY <1>6, IdType DEF InsertEntry
    <2>2. table' \in [Keys -> Ids \cup {NULL}] /\ value' \in [Ids -> Ids \cup {NULL}]
      <3>1. table' = table \/ table' = [table EXCEPT ![key[c]] = Id(c)]
        BY <1>6 DEF InsertEntry
      <3>2. value' = value \/ value' = [value EXCEPT ![Id(c)] = Id(c)]
        BY <1>6 DEF InsertEntry
      <3>3. table' \in [Keys -> Ids \cup {NULL}]
        BY <2>1, <3>1
      <3>4. value' \in [Ids -> Ids \cup {NULL}]
        BY <2>1, <3>2
      <3> QED
        BY <3>3, <3>4
    <2>3. leaked' \subseteq Ids
      BY <1>6, <2>1 DEF InsertEntry
    <2>4. pc' \in [Clients -> Places] /\ DOMAIN answer' = Clients
      BY <1>6 DEF InsertEntry
    <2> QED
      BY <1>6, <2>2, <2>3, <2>4 DEF InsertEntry
  <1>7. CASE FreeKey(c)
    <2>1. freed' \subseteq Ids /\ pc' \in [Clients -> Places]
      BY <1>7 DEF FreeKey, EntryInv, Holding
    <2> QED
      BY <1>7, <2>1 DEF FreeKey
  <1>8. CASE Erase(c)
    <2>1. table' \in [Keys -> Ids \cup {NULL}] /\ pc' \in [Clients -> Places]
      BY <1>8 DEF Erase
    <2> QED
      BY <1>8, <2>1 DEF Erase
  <1>9. CASE First(c)
    <2>1. Seek(1) \in 1..End /\ Present \subseteq Keys
      <3>1. End \in Nat /\ 1 \in 1..End
        BY SizesAssumption DEF End
      <3>2. Seek(1) \in 1..End
        BY <3>1, SeekType
      <3>3. Present \subseteq Keys
        BY DEF Present
      <3> QED
        BY <3>2, <3>3
    <2>2. pos' \in [Clients -> 1..End]
      <3>1. End \in 1..End /\ Keys \subseteq 1..End
        BY SizesAssumption DEF End, Keys
      <3> QED
        BY <1>9, <2>1, <3>1 DEF First
    <2>3. before' \in [Clients -> SUBSET Keys] /\ pc' \in [Clients -> Places]
      BY <1>9, <2>1 DEF First
    <2> QED
      BY <1>9, <2>2, <2>3 DEF First
  <1>10. CASE Iterate(c)
    <2>1. CASE Continues(c)
      <3>1. pos[c] \in Keys /\ pos[c] + 1 \in 1..End
        BY <2>1, SizesAssumption DEF Continues, Keys, End
      <3>2. pos' \in [Clients -> 1..End]
        BY <1>10, <2>1, <3>1, SeekType DEF Iterate
      <3>3. pairs' \in [Clients -> Seq(Keys \X (Ids \cup {NULL}))]
        <4>1. table[pos[c]] \in Ids
          BY <1>10, <2>1 DEF Iterate, Continues, PosInv, Present
        <4> DEFINE pair == <<pos[c], value[table[pos[c]]]>>
        <4>2. pair \in Keys \X (Ids \cup {NULL})
          BY <3>1, <4>1
        <4>3. Append(pairs[c], pair) \in Seq(Keys \X (Ids \cup {NULL}))
          BY <4>2, AppendProperties
        <4>4. pairs' = [pairs EXCEPT ![c] = Append(pairs[c], pair)]
          BY <1>10, <2>1 DEF Iterate
        <4> HIDE DEF pair
        <4> QED
          BY <4>3, <4>4
      <3> QED
        BY <1>10, <2>1, <3>2, <3>3 DEF Iterate
    <2>2. CASE ~Continues(c)
      BY <1>10, <2>2 DEF Iterate
    <2> QED
      BY <2>1, <2>2
  <1>11. CASE Unlock(c)
    <2>1. readers' \subseteq Clients /\ writer' \in Clients \cup {NULL}
      BY <1>11 DEF Unlock
    <2>2. CASE kind = "tbb_rand" /\ entry[c] # NULL
      BY <1>11, <2>1, <2>2 DEF Unlock
    <2>3. CASE ~(kind = "tbb_rand" /\ entry[c] # NULL)
      BY <1>11, <2>1, <2>3, ReturnType DEF Unlock
    <2> QED
      BY <2>2, <2>3
  <1>12. CASE Release(c)
    <2>1. accessor' \in [Ids -> Clients \cup {NULL}]
      BY <1>12 DEF Release, Released
    <2> QED
      BY <1>12, <2>1, ReturnType DEF Release
  <1> QED
    BY <1>1, <1>2, <1>3, <1>4, <1>5, <1>6, <1>7, <1>8, <1>9, <1>10, <1>11, <1>12 DEF Client

\* A call goes from place to place of its own code, with its own key.
LEMMA CallClient == ASSUME BaseInv, NEW c \in Clients, Client(c) PROVE CallInv'
  <1> USE DEF BaseInv, TypeInv, CallInv, At, GoTo, Return, localVars
  <1>1. CASE Begin(c)
    <2>1. calls'[c] > 0 /\ pc'[c] = "lock" /\ (call'[c] # "Entries" => key'[c] \in Keys)
      BY <1>1 DEF Begin
    <2>2. \A d \in Clients \ {c} :
             /\ pc'[d] = pc[d] /\ calls'[d] = calls[d] /\ call'[d] = call[d] /\ key'[d] = key[d]
      BY <1>1 DEF Begin
    <2> QED
      BY <2>1, <2>2
  <1>2. CASE Lock(c)
    BY <1>2 DEF Lock, Body, CallNames
  <1>3. CASE Find(c)
    BY <1>3 DEF Find
  <1>4. CASE ReadValue(c)
    BY <1>4 DEF ReadValue
  <1>5. CASE WriteValue(c) \/ InsertEntry(c)
    BY <1>5 DEF WriteValue, InsertEntry
  <1>6. CASE FreeKey(c) \/ Erase(c)
    BY <1>6 DEF FreeKey, Erase
  <1>7. CASE First(c) \/ Iterate(c)
    BY <1>7 DEF First, Iterate
  <1>8. CASE Unlock(c)
    BY <1>8 DEF Unlock
  <1>9. CASE Release(c)
    BY <1>9 DEF Release
  <1> QED
    BY <1>1, <1>2, <1>3, <1>4, <1>5, <1>6, <1>7, <1>8, <1>9 DEF Client

-----------------------------------------------------------------------------
\* mutex_ is taken before and released after everything else.
LEMMA LockClient == ASSUME BaseInv, LockInv, NEW c \in Clients, Client(c) PROVE LockInv'
  <1> USE DEF BaseInv, TypeInv, LockInv, Inside, At, GoTo
  <1>1. \A name : Exclusive(name)' = Exclusive(name)
    BY DEF Client, Begin, Lock, Find, ReadValue, WriteValue, InsertEntry, FreeKey, Erase, First, Iterate,
           Unlock, Release, Exclusive
  <1>2. CASE Begin(c)
    BY <1>1, <1>2 DEF Begin, lockVars
  <1>3. CASE Lock(c)
    <2>1. CASE Exclusive(call[c])
      BY <1>1, <1>3, <2>1, NullAssumption DEF Lock
    <2>2. CASE ~Exclusive(call[c])
      BY <1>1, <1>3, <2>2 DEF Lock
    <2> QED
      BY <2>1, <2>2
  <1>4. CASE Find(c) \/ ReadValue(c) \/ WriteValue(c) \/ InsertEntry(c) \/ FreeKey(c) \/ Erase(c)
             \/ First(c) \/ Iterate(c)
    <2>1. UNCHANGED <<readers, writer, call>> /\ Inside(c)
      BY <1>4 DEF Find, ReadValue, WriteValue, InsertEntry, FreeKey, Erase, First, Iterate, lockVars
    <2>2. \A d \in Clients \ {c} : pc'[d] = pc[d]
      BY <1>4 DEF Find, ReadValue, WriteValue, InsertEntry, FreeKey, Erase, First, Iterate
    <2> QED
      BY <1>1, <2>1, <2>2
  <1>5. CASE Unlock(c)
    <2>1. pc'[c] \in {"idle", "release"} /\ \A d \in Clients \ {c} : pc'[d] = pc[d]
      BY <1>5 DEF Unlock, Return
    <2>2. /\ readers' = readers \ {c} /\ writer' = (IF writer = c THEN NULL ELSE writer)
          /\ UNCHANGED call
      BY <1>5 DEF Unlock
    <2> QED
      BY <1>1, <2>1, <2>2
  <1>6. CASE Release(c)
    BY <1>1, <1>6 DEF Release, Return
  <1> QED
    BY <1>2, <1>3, <1>4, <1>5, <1>6 DEF Client

\* A call that has mutex_ exclusively is alone.
LEMMA Alone ==
    ASSUME LockInv, TypeInv, NEW c \in Clients, NEW d \in Clients, Inside(c), Inside(d),
           Exclusive(call[c]), c # d
    PROVE  FALSE
  BY NullAssumption DEF LockInv, TypeInv

HeldInv == BaseInv /\ LockInv /\ EntryInv /\ PosInv /\ FreshInv /\ FreedInv

\* Nobody else has the entry of a call that writes it or erases it.
LEMMA Separate ==
    ASSUME HeldInv, NEW c \in Clients, NEW d \in Clients, c # d,
           Holding(c), Holding(d), entry[c] = entry[d], call[c] \in {"Update", "Remove"}
    PROVE  FALSE
  <1> USE DEF HeldInv
  <1>1. CASE kind = "tbb_rand"
    BY <1>1 DEF EntryInv
  <1>2. CASE kind \in {"lock_stl", "tbb_scan"}
    <2>1. Exclusive(call[c])
      BY <1>2 DEF Exclusive
    <2>2. Inside(c) /\ Inside(d)
      BY DEF Inside, Holding
    <2> QED
      BY <2>1, <2>2, Alone DEF BaseInv
  <1> QED
    BY <1>1, <1>2, KindsAssumption DEF BaseInv, TypeInv

\* No entry is removed or gets another value while Entries runs.
LEMMA Undisturbed ==
    ASSUME HeldInv, NEW c \in Clients, NEW d \in Clients, Inside(c), Inside(d),
           call[c] = "Entries", call[d] \in {"Update", "Remove"}
    PROVE  FALSE
  <1>1. Exclusive(call[c]) \/ Exclusive(call[d])
    BY KindsAssumption DEF Exclusive, HeldInv, BaseInv, TypeInv
  <1>2. c # d
    OBVIOUS
  <1> QED
    BY <1>1, <1>2, Alone DEF HeldInv, BaseInv

\* The id of a call that is about to insert is not in use.
LEMMA FreshId ==
    ASSUME HeldInv, NEW c \in Clients, pc[c] = "insert"
    PROVE  /\ Id(c) \in Ids /\ Id(c) \notin Made
           /\ \A k \in Present : table[k] # Id(c)
           /\ Id(c) \notin freed \cup leaked
  <1>1. Id(c) \in Ids /\ Id(c)[1] = c /\ Id(c)[2] = calls[c] /\ calls[c] \in 0..MaxCalls
    BY IdType DEF HeldInv, BaseInv, TypeInv
  <1>2. Id(c) \notin Made
    BY <1>1 DEF Made
  <1> QED
    BY <1>1, <1>2 DEF HeldInv, FreshInv

LEMMA EntryClient == ASSUME HeldInv, NEW c \in Clients, Client(c) PROVE EntryInv'
  <1> USE DEF HeldInv, BaseInv, TypeInv, At, GoTo, mapVars, lockVars, localVars
  <1>0. kind' = kind
    BY DEF Client, Begin, Lock, Find, ReadValue, WriteValue, InsertEntry, FreeKey, Erase, First, Iterate,
           Unlock, Release
  <1>1. CASE Begin(c)
    BY <1>0, <1>1 DEF Begin, EntryInv, Holding
  <1>2. CASE Lock(c)
    <2>1. pc'[c] \in {"find", "insert", "first"} /\ UNCHANGED <<table, value, accessor, key, entry, old>>
      BY <1>2 DEF Lock, Body, CallNames
    <2> QED
      BY <1>0, <1>2, <2>1 DEF Lock, EntryInv, Holding
  <1>3. CASE Find(c)
    <2> DEFINE e == table[key[c]]
    <2>1. key[c] \in Keys /\ e \in Ids \cup {NULL}
      BY <1>3 DEF Find, CallInv
    <2>2. CASE UNCHANGED <<accessor, entry>>
      <3>1. pc'[c] \in {"undefined", "unlock"} \/ (pc'[c] \in {"free", "read"} /\ entry'[c] = e /\ e # NULL)
        BY <1>3 DEF Find
      <3> QED
        BY <1>0, <1>3, <2>2, <3>1 DEF Find, EntryInv, Holding
    <2>3. CASE /\ e # NULL /\ Accessible(e) /\ entry' = [entry EXCEPT ![c] = e]
               /\ accessor' = IF kind = "tbb_rand" THEN [accessor EXCEPT ![e] = c] ELSE accessor
               /\ pc' = [pc EXCEPT ![c] = IF call[c] = "Remove" THEN "free" ELSE "read"]
      <3>1. pc'[c] \in {"free", "read"} /\ entry'[c] = e
        BY <2>3
      <3>2. UNCHANGED <<table, value, key, old>>
        BY <1>3 DEF Find
      <3>3. ASSUME NEW d \in Clients \ {c}
            PROVE  /\ pc'[d] = pc[d] /\ entry'[d] = entry[d]
                   /\ kind = "tbb_rand" /\ entry[d] # NULL => accessor'[entry[d]] = d
        <4>1. pc'[d] = pc[d] /\ entry'[d] = entry[d]
          BY <2>3
        <4>2. ASSUME kind = "tbb_rand", entry[d] # NULL PROVE accessor'[entry[d]] = d
          <5>1. accessor[entry[d]] = d
            BY <4>2 DEF EntryInv
          <5>2. entry[d] # e
            BY <2>3, <4>2, <5>1, NullAssumption DEF Accessible
          <5> QED
            BY <2>1, <2>3, <4>2, <5>1, <5>2
        <4> QED
          BY <4>1, <4>2
      <3>4. kind = "tbb_rand" => accessor'[e] = c
        BY <2>1, <2>3
      <3> QED
        BY <1>0, <2>3, <3>1, <3>2, <3>3, <3>4 DEF EntryInv, Holding
    <2> QED
      BY <1>3, <2>2, <2>3 DEF Find
  <1>4. CASE ReadValue(c)
    <2>1. \/ pc'[c] = "unlock" /\ old' = old
          \/ pc'[c] \in {"write", "erase"} /\ old'[c] = value[entry[c]]
      BY <1>4 DEF ReadValue
    <2>2. \A d \in Clients \ {c} : pc'[d] = pc[d] /\ old'[d] = old[d]
      BY <1>4 DEF ReadValue
    <2>3. UNCHANGED <<table, value, accessor, key, entry>> /\ pc[c] = "read"
      BY <1>4 DEF ReadValue
    <2> QED
      BY <1>0, <2>1, <2>2, <2>3 DEF EntryInv, Holding
  <1>5. CASE WriteValue(c)
    <2>1. pc[c] = "write" /\ pc'[c] = "unlock" /\ UNCHANGED <<table, accessor, key, entry, old>>
      BY <1>5 DEF WriteValue
    <2>2. ASSUME NEW d \in Clients \ {c}, pc[d] \in {"write", "erase"} PROVE value'[entry[d]] = value[entry[d]]
      <3>1. entry[d] # entry[c]
        BY <2>1, <2>2, Separate DEF CallInv, Holding
      <3>2. entry[d] \in Ids
        BY <2>2 DEF EntryInv, Holding
      <3> QED
        BY <1>5, <3>1, <3>2 DEF WriteValue
    <2>3. \A d \in Clients \ {c} : pc'[d] = pc[d]
      BY <1>5 DEF WriteValue
    <2> QED
      BY <1>0, <2>1, <2>2, <2>3 DEF EntryInv, Holding
  <1>6. CASE InsertEntry(c)
    <2>1. /\ pc[c] = "insert" /\ pc'[c] \in {"unlock", "undefined"} /\ key[c] \in Keys
          /\ UNCHANGED <<accessor, key, entry, old>> /\ entry[c] = NULL
      BY <1>6 DEF InsertEntry, EntryInv, CallInv
    <2>2. ASSUME NEW d \in Clients \ {c}, Holding(d)
          PROVE  table'[key[d]] = table[key[d]] /\ value'[entry[d]] = value[entry[d]]
      <3>1. key[d] \in Keys /\ table[key[d]] # NULL /\ entry[d] = table[key[d]]
        BY <2>2 DEF EntryInv, Holding, CallInv
      <3>2. key[d] \in Present
        BY <3>1 DEF Present
      <3>3. entry[d] # Id(c) /\ entry[d] \in Ids
        BY <2>1, <3>1, <3>2, FreshId
      <3>4. CASE UNCHANGED <<table, value>>
        BY <3>4
      <3>5. CASE /\ table[key[c]] = NULL /\ table' = [table EXCEPT ![key[c]] = Id(c)]
                 /\ value' = [value EXCEPT ![Id(c)] = Id(c)]
        BY <2>1, <3>1, <3>3, <3>5
      <3> QED
        BY <1>6, <3>4, <3>5 DEF InsertEntry
    <2>3. \A d \in Clients \ {c} : pc'[d] = pc[d]
      BY <1>6 DEF InsertEntry
    <2> QED
      BY <1>0, <2>1, <2>2, <2>3 DEF EntryInv, Holding
  <1>7. CASE FreeKey(c)
    BY <1>0, <1>7 DEF FreeKey, EntryInv, Holding
  <1>8. CASE Erase(c)
    <2>1. /\ pc[c] = "erase" /\ pc'[c] = "unlock" /\ table' = [table EXCEPT ![key[c]] = NULL]
          /\ UNCHANGED <<value, accessor, key, entry, old>> /\ key[c] \in Keys
          /\ entry[c] = table[key[c]]
      BY <1>8 DEF Erase, CallInv, EntryInv, Holding
    <2>2. ASSUME NEW d \in Clients \ {c}, Holding(d) PROVE table'[key[d]] = table[key[d]]
      <3>1. entry[d] # entry[c]
        BY <2>1, <2>2, Separate DEF CallInv, Holding
      <3>2. key[d] \in Keys /\ entry[d] = table[key[d]]
        BY <2>2 DEF EntryInv, CallInv, Holding
      <3> QED
        BY <2>1, <3>1, <3>2
    <2>3. \A d \in Clients \ {c} : pc'[d] = pc[d]
      BY <1>8 DEF Erase
    <2> QED
      BY <1>0, <2>1, <2>2, <2>3 DEF EntryInv, Holding
  <1>9. CASE First(c) \/ Iterate(c)
    <2>1. /\ UNCHANGED <<table, value, accessor, key, entry, old>> /\ entry[c] = NULL
          /\ pc'[c] \in {"iterate", "unlock"}
      BY <1>9 DEF First, Iterate, EntryInv
    <2>2. \A d \in Clients \ {c} : pc'[d] = pc[d]
      BY <1>9 DEF First, Iterate
    <2> QED
      BY <1>0, <2>1, <2>2 DEF EntryInv, Holding
  <1>10. CASE Unlock(c)
    <2>1. UNCHANGED <<table, value, accessor>>
      BY <1>10 DEF Unlock
    <2>2. \A d \in Clients \ {c} :
             /\ pc'[d] = pc[d] /\ entry'[d] = entry[d] /\ key'[d] = key[d] /\ old'[d] = old[d]
      BY <1>10 DEF Unlock, Return
    <2>3. CASE kind = "tbb_rand" /\ entry[c] # NULL
      <3>1. pc' = [pc EXCEPT ![c] = "release"] /\ UNCHANGED <<key, entry, old>>
        BY <1>10, <2>3 DEF Unlock
      <3>2. \A d \in Clients : Holding(d)' => Holding(d)
        BY <3>1 DEF Holding
      <3>3. \A d \in Clients : (Holding(d) => entry[d] # NULL /\ entry[d] = table[key[d]])'
        BY <2>1, <3>1, <3>2 DEF EntryInv
      <3>4. \A d \in Clients : (pc[d] \in {"write", "erase"} => old[d] = value[entry[d]])'
        BY <2>1, <3>1 DEF EntryInv
      <3>5. \A d \in Clients :
               (pc[d] \in {"idle", "lock", "find", "insert", "first", "iterate"} => entry[d] = NULL)'
        BY <3>1 DEF EntryInv
      <3>6. \A d \in Clients : (kind = "tbb_rand" /\ entry[d] # NULL => accessor[entry[d]] = d)'
        BY <1>0, <2>1, <3>1 DEF EntryInv
      <3> QED
        BY <3>3, <3>4, <3>5, <3>6 DEF EntryInv
    <2>4. CASE ~(kind = "tbb_rand" /\ entry[c] # NULL)
      <3>1. pc'[c] = "idle" /\ entry'[c] = NULL
        BY <1>10, <2>4 DEF Unlock, Return
      <3>2. ASSUME NEW d \in Clients \ {c}
            PROVE  /\ Holding(d)' => entry'[d] # NULL /\ entry'[d] = table'[key'[d]]
                   /\ pc'[d] \in {"write", "erase"} => old'[d] = value'[entry'[d]]
                   /\ pc'[d] \in {"idle", "lock", "find", "insert", "first", "iterate"} => entry'[d] = NULL
                   /\ kind' = "tbb_rand" /\ entry'[d] # NULL => accessor'[entry'[d]] = d
        BY <1>0, <2>1, <2>2 DEF EntryInv, Holding
      <3> QED
        BY <3>1, <3>2 DEF EntryInv, Holding
    <2> QED
      BY <2>3, <2>4
  <1>11. CASE Release(c)
    <2>1. UNCHANGED <<table, value>> /\ pc'[c] = "idle" /\ entry'[c] = NULL
      BY <1>11 DEF Release, Return
    <2>2. \A d \in Clients \ {c} :
             /\ pc'[d] = pc[d] /\ entry'[d] = entry[d] /\ key'[d] = key[d] /\ old'[d] = old[d]
      BY <1>11 DEF Release, Return
    <2>3. ASSUME NEW d \in Clients \ {c}, kind = "tbb_rand", entry[d] # NULL
          PROVE  accessor'[entry[d]] = d
      <3>1. accessor[entry[d]] = d
        BY <2>3 DEF EntryInv
      <3>2. entry[d] # entry[c]
        BY <2>3, <3>1 DEF EntryInv
      <3> QED
        BY <1>11, <2>3, <3>1, <3>2 DEF Release, Released
    <2>4. ASSUME NEW d \in Clients \ {c}
          PROVE  /\ Holding(d)' => entry'[d] # NULL /\ entry'[d] = table'[key'[d]]
                 /\ pc'[d] \in {"write", "erase"} => old'[d] = value'[entry'[d]]
                 /\ pc'[d] \in {"idle", "lock", "find", "insert", "first", "iterate"} => entry'[d] = NULL
                 /\ kind' = "tbb_rand" /\ entry'[d] # NULL => accessor'[entry'[d]] = d
      BY <1>0, <2>1, <2>2, <2>3 DEF EntryInv, Holding
    <2> QED
      BY <2>1, <2>4 DEF EntryInv, Holding
  <1> QED
    BY <1>1, <1>2, <1>3, <1>4, <1>5, <1>6, <1>7, <1>8, <1>9, <1>10, <1>11 DEF Client

LEMMA PosClient == ASSUME HeldInv, NEW c \in Clients, Client(c) PROVE PosInv'
  <1> USE DEF HeldInv, BaseInv, TypeInv, At, GoTo, mapVars
  <1>1. Seek(1) \in Present \cup {End} /\ 1 \in 1..End
    <2>1. 1 \in 1..End
      BY SizesAssumption DEF End
    <2> QED
      BY <2>1, SeekType
  <1>2. CASE First(c)
    <2>1. pos'[c] \in Present \cup {End} /\ Present' = Present
      BY <1>1, <1>2 DEF First, Present
    <2>2. \A d \in Clients \ {c} : pc'[d] = pc[d] /\ pos'[d] = pos[d]
      BY <1>2 DEF First
    <2> QED
      BY <2>1, <2>2 DEF PosInv
  <1>3. CASE Iterate(c)
    <2>1. Present' = Present /\ \A d \in Clients \ {c} : pc'[d] = pc[d] /\ pos'[d] = pos[d]
      BY <1>3 DEF Iterate, Present
    <2>2. pc'[c] = "iterate" => pos'[c] \in Present \cup {End}
      <3>1. CASE Continues(c)
        <4>1. pos[c] + 1 \in 1..End
          BY <3>1, SizesAssumption DEF Continues, End
        <4>2. pos'[c] = Seek(pos[c] + 1)
          BY <1>3, <3>1 DEF Iterate
        <4> QED
          BY <4>1, <4>2, SeekType
      <3>2. CASE ~Continues(c)
        BY <1>3, <3>2 DEF Iterate
      <3> QED
        BY <3>1, <3>2
    <2> QED
      BY <2>1, <2>2 DEF PosInv
  <1>4. CASE InsertEntry(c)
    <2>1. pos' = pos /\ \A d \in Clients : pc'[d] = "iterate" => pc[d] = "iterate"
      BY <1>4 DEF InsertEntry, localVars
    <2>2. Present \subseteq Present'
      <3>1. Id(c) # NULL
        BY <1>4, FreshId, NullAssumption DEF InsertEntry
      <3> QED
        BY <1>4, <3>1 DEF InsertEntry, Present
    <2> QED
      BY <2>1, <2>2 DEF PosInv
  <1>5. CASE Erase(c)
    <2>1. ~ \E d \in Clients : pc[d] = "iterate"
      BY <1>5, Undisturbed DEF Erase, CallInv, Inside
    <2>2. \A d \in Clients : pc'[d] = "iterate" => pc[d] = "iterate"
      BY <1>5 DEF Erase
    <2> QED
      BY <2>1, <2>2 DEF PosInv
  <1>6. CASE \/ Begin(c) \/ Lock(c) \/ Find(c) \/ ReadValue(c) \/ WriteValue(c) \/ FreeKey(c)
             \/ Unlock(c) \/ Release(c)
    <2>1. table' = table
      BY <1>6 DEF Begin, Lock, Find, ReadValue, WriteValue, FreeKey, Unlock, Release
    <2>2. /\ pc'[c] # "iterate"
          /\ \A d \in Clients \ {c} : pc'[d] = pc[d] /\ pos'[d] = pos[d]
      <3>1. CASE Begin(c) \/ Lock(c) \/ Find(c)
        BY <3>1 DEF Begin, Lock, Body, CallNames, Find, localVars
      <3>2. CASE ReadValue(c) \/ WriteValue(c) \/ FreeKey(c)
        BY <3>2 DEF ReadValue, WriteValue, FreeKey, localVars
      <3>3. CASE Unlock(c) \/ Release(c)
        BY <3>3 DEF Unlock, Release, Return, localVars
      <3> QED
        BY <1>6, <3>1, <3>2, <3>3
    <2> QED
      BY <2>1, <2>2 DEF PosInv, Present
  <1> QED
    BY <1>2, <1>3, <1>4, <1>5, <1>6 DEF Client

\* Ids are made by the calls they name, in the step that inserts.
LEMMA FreshClient == ASSUME HeldInv, NEW c \in Clients, Client(c) PROVE FreshInv'
  <1> USE DEF HeldInv, BaseInv, TypeInv, At, GoTo, mapVars
  <1>1. Made \subseteq Made'
    <2> SUFFICES ASSUME NEW i \in Made PROVE i \in Made'
      OBVIOUS
    <2>1. i[1] \in Clients /\ i[2] \in 1..MaxCalls /\ i \in Ids
      BY DEF Ids, Made
    <2>2. CASE Begin(c)
      <3>1. calls'[c] = calls[c] + 1 /\ \A d \in Clients \ {c} : calls'[d] = calls[d] /\ pc'[d] = pc[d]
        BY <2>2 DEF Begin
      <3>2. i[2] <= calls[i[1]] /\ i[2] \in Int /\ calls[i[1]] \in Int
        BY <2>1, SizesAssumption DEF Made
      <3>3. CASE i[1] = c
        <4>1. i[2] < calls'[i[1]]
          BY <3>1, <3>2, <3>3
        <4> QED
          BY <2>1, <3>1, <3>2, <3>3, <4>1 DEF Made
      <3>4. CASE i[1] # c
        BY <2>1, <3>1, <3>4 DEF Made
      <3> QED
        BY <3>3, <3>4
    <2>3. CASE ~Begin(c)
      <3>1. calls' = calls
        BY <2>3 DEF Client, Lock, Find, ReadValue, WriteValue, InsertEntry, FreeKey, Erase, First, Iterate,
                    Unlock, Release
      <3>2. \A d \in Clients \ {c} : pc'[d] = pc[d]
        BY <2>3 DEF Client, Lock, Find, ReadValue, WriteValue, InsertEntry, FreeKey, Erase, First, Iterate,
                    Unlock, Release, Return
      <3>3. pc'[c] \in {"lock", "insert"} => pc[c] \in {"lock", "insert"}
        BY <2>3 DEF Client, Lock, Find, ReadValue, WriteValue, InsertEntry, FreeKey, Erase, First, Iterate,
                    Unlock, Release, Return
      <3> QED
        BY <2>1, <3>1, <3>2, <3>3 DEF Made
    <2> QED
      BY <2>2, <2>3
  <1>2. /\ \A k \in Present : table[k] \in Ids /\ table[k] \in Made' /\ value[table[k]] # NULL
        /\ freed \cup leaked \subseteq Made'
        /\ \A j, k \in Present : table[j] = table[k] => j = k
    <2>1. \A k \in Present : table[k] \in Ids
      BY DEF Present
    <2> QED
      BY <1>1, <2>1 DEF FreshInv
  <1>3. CASE InsertEntry(c)
    <2> DEFINE i == Id(c)
    <2>1. /\ pc[c] = "insert" /\ key[c] \in Keys /\ i \in Ids /\ i # NULL /\ \A k \in Present : table[k] # i
      BY <1>3, FreshId, NullAssumption DEF InsertEntry, CallInv
    <2>2. pc'[c] = "unlock" => i \in Made'
      <3>1. i[1] = c /\ i[2] = calls[c] /\ calls' = calls /\ calls[c] \in 0..MaxCalls
        BY <1>3, <2>1, IdType DEF InsertEntry
      <3> QED
        <4>1. i[2] <= calls'[i[1]] /\ (pc'[c] = "unlock" => pc'[i[1]] \notin {"lock", "insert"})
          BY <3>1, SizesAssumption
        <4> QED
          BY <2>1, <4>1 DEF Made
    <2>3. freed' = freed
      BY <1>3 DEF InsertEntry
    <2>4. CASE UNCHANGED <<table, value, leaked>>
      BY <1>2, <2>3, <2>4 DEF FreshInv, Present
    <2>5. CASE /\ table[key[c]] = NULL /\ table' = [table EXCEPT ![key[c]] = i]
               /\ value' = [value EXCEPT ![i] = i] /\ leaked' = leaked /\ pc'[c] = "unlock"
      <3>1. Present' = Present \cup {key[c]} /\ key[c] \notin Present
        BY <2>1, <2>5 DEF Present
      <3>2. \A k \in Present : table'[k] = table[k] /\ value'[table[k]] = value[table[k]]
        BY <1>2, <2>1, <2>5, <3>1 DEF Present
      <3>3. table'[key[c]] = i /\ value'[i] = i
        BY <2>1, <2>5
      <3> HIDE DEF i
      <3> QED
        BY <1>2, <2>1, <2>2, <2>3, <2>5, <3>1, <3>2, <3>3 DEF FreshInv
    <2>6. CASE UNCHANGED <<table, value>> /\ leaked' = leaked \cup {i} /\ pc'[c] = "unlock"
      BY <1>2, <2>2, <2>3, <2>6 DEF FreshInv, Present
    <2> QED
      BY <1>3, <2>4, <2>5, <2>6 DEF InsertEntry
  <1>4. CASE WriteValue(c)
    <2>1. UNCHANGED <<table, freed, leaked>> /\ value' = [value EXCEPT ![entry[c]] = Id(c)] /\ Id(c) # NULL
      BY <1>4, IdType, NullAssumption DEF WriteValue
    <2>2. \A k \in Present : value'[table[k]] # NULL
      BY <1>2, <2>1
    <2> QED
      BY <1>2, <2>1, <2>2 DEF FreshInv, Present
  <1>5. CASE FreeKey(c)
    <2>1. key[c] \in Present /\ entry[c] = table[key[c]]
      BY <1>5 DEF FreeKey, EntryInv, CallInv, Holding, Present
    <2>2. entry[c] \in Made'
      BY <1>2, <2>1
    <2> QED
      BY <1>2, <1>5, <2>2 DEF FreeKey, FreshInv, Present
  <1>6. CASE Erase(c)
    <2>1. UNCHANGED <<value, freed, leaked>> /\ table' = [table EXCEPT ![key[c]] = NULL] /\ key[c] \in Keys
      BY <1>6 DEF Erase, CallInv
    <2>2. Present' = Present \ {key[c]} /\ \A k \in Present' : table'[k] = table[k]
      BY <2>1 DEF Present
    <2> QED
      BY <1>2, <2>1, <2>2 DEF FreshInv
  <1>7. CASE \/ Begin(c) \/ Lock(c) \/ Find(c) \/ ReadValue(c) \/ First(c) \/ Iterate(c)
             \/ Unlock(c) \/ Release(c)
    <2>1. UNCHANGED <<table, value, freed, leaked>>
      BY <1>7 DEF Begin, Lock, Find, ReadValue, First, Iterate, Unlock, Release
    <2> QED
      BY <1>2, <2>1 DEF FreshInv, Present
  <1> QED
    BY <1>3, <1>4, <1>5, <1>6, <1>7 DEF Client

\* Who frees a key copy erases its entry, and nobody meets it meanwhile except
\* in tbb_rand.
LEMMA FreedClient == ASSUME HeldInv, NEW c \in Clients, Client(c) PROVE FreedInv'
  <1> USE DEF HeldInv, BaseInv, TypeInv, At, GoTo, mapVars
  <1>0. Defined /\ kind' = kind
    BY DEF Client, Begin, Lock, Find, ReadValue, WriteValue, InsertEntry, FreeKey, Erase, First, Iterate,
           Unlock, Release
  <1>1. \A d \in Clients \ {c} : pc'[d] = pc[d] /\ call'[d] = call[d] /\ entry'[d] = entry[d]
    <2>1. CASE Begin(c) \/ Lock(c) \/ Find(c) \/ ReadValue(c) \/ WriteValue(c) \/ InsertEntry(c)
      BY <2>1 DEF Begin, Lock, Find, ReadValue, WriteValue, InsertEntry, localVars
    <2>2. CASE FreeKey(c) \/ Erase(c) \/ First(c) \/ Iterate(c)
      BY <2>2 DEF FreeKey, Erase, First, Iterate, localVars
    <2>3. CASE Unlock(c) \/ Release(c)
      BY <2>3 DEF Unlock, Release, Return, localVars
    <2> QED
      BY <2>1, <2>2, <2>3 DEF Client
  <1>2. ASSUME NEW k \in Keys, MeetsFreedKey(k), Inside(c), ~Erasing(c)
        PROVE  kind = "tbb_rand" /\ \E d \in Clients \ {c} : Erasing(d)
    <2>1. k \in Present /\ table[k] \in freed
      BY <1>2, NullAssumption DEF MeetsFreedKey, Present
    <2>2. PICK d \in Clients : Erasing(d) /\ entry[d] = table[k]
      BY <2>1 DEF FreedInv
    <2>3. d # c /\ Inside(d)
      BY <1>2, <2>2 DEF Erasing, Inside
    <2>4. kind = "tbb_rand"
      <3>1. kind # "tbb_rand" => Exclusive(call[d])
        BY <2>2, KindsAssumption DEF Erasing, Exclusive
      <3> QED
        BY <1>2, <2>3, <3>1, Alone
    <2> QED
      BY <2>2, <2>3, <2>4
  <1>3. CASE Find(c) \/ InsertEntry(c)
    <2>1. Inside(c) /\ ~Erasing(c) /\ key[c] \in Keys
      BY <1>3 DEF Find, InsertEntry, Inside, Erasing, CallInv
    <2>2. ASSUME pc'[c] = "undefined" PROVE kind = "tbb_rand" /\ \E d \in Clients : Erasing(d)'
      <3>1. MeetsFreedKey(key[c])
        BY <1>3, <2>2 DEF Find, InsertEntry
      <3>2. PICK d \in Clients \ {c} : Erasing(d)
        BY <1>2, <2>1, <3>1
      <3>3. Erasing(d)'
        BY <1>1, <3>2 DEF Erasing
      <3> QED
        BY <1>2, <2>1, <3>1, <3>3
    <2>3. (\A d \in Clients : pc[d] = "undefined" => kind = "tbb_rand" /\ \E e \in Clients : Erasing(e))'
      <3> SUFFICES ASSUME NEW d \in Clients, pc'[d] = "undefined"
                   PROVE  kind' = "tbb_rand" /\ \E e \in Clients : Erasing(e)'
        OBVIOUS
      <3>1. d = c
        BY <1>0, <1>1 DEF Defined
      <3> QED
        BY <1>0, <2>2, <3>1
    <2>4. freed' = freed
      BY <1>3 DEF Find, InsertEntry
    <2>5. \A k \in Present : table[k] \in freed => \E d \in Clients : Erasing(d)' /\ entry'[d] = table[k]
      <3> SUFFICES ASSUME NEW k \in Present, table[k] \in freed
                   PROVE  \E d \in Clients : Erasing(d)' /\ entry'[d] = table[k]
        OBVIOUS
      <3>1. PICK d \in Clients : Erasing(d) /\ entry[d] = table[k]
        BY DEF FreedInv
      <3>2. d # c
        BY <2>1, <3>1
      <3>3. Erasing(d)' /\ entry'[d] = entry[d]
        BY <1>1, <3>1, <3>2 DEF Erasing
      <3> QED
        BY <3>1, <3>3
    <2>6. CASE table' = table /\ leaked' = leaked
      BY <2>3, <2>4, <2>5, <2>6 DEF FreedInv, Present
    <2>7. CASE table' = table /\ leaked' = leaked \cup {Id(c)} /\ pc[c] = "insert"
      <3>1. Id(c) \notin freed /\ \A k \in Present : table[k] # Id(c)
        BY <2>7, FreshId
      <3>2. leaked' \cap (freed' \cup {table'[k] : k \in Present'}) = {}
        BY <2>4, <2>7, <3>1 DEF FreedInv, Present
      <3> QED
        BY <2>3, <2>4, <2>5, <2>7, <3>2 DEF FreedInv, Present
    <2>8. CASE table' = [table EXCEPT ![key[c]] = Id(c)] /\ leaked' = leaked /\ pc[c] = "insert"
      <3>1. Id(c) \notin freed \cup leaked /\ Id(c) # NULL
        BY <2>8, FreshId, NullAssumption
      <3>2. \A k \in Present' : table'[k] = Id(c) \/ (k \in Present /\ table'[k] = table[k])
        BY <2>1, <2>8 DEF Present
      <3>3. leaked' \cap (freed' \cup {table'[k] : k \in Present'}) = {}
        BY <2>4, <2>8, <3>1, <3>2 DEF FreedInv
      <3>4. \A k \in Present' : table'[k] \in freed' => \E d \in Clients : Erasing(d)' /\ entry'[d] = table'[k]
        BY <2>4, <2>5, <3>1, <3>2
      <3> QED
        BY <2>3, <3>3, <3>4 DEF FreedInv
    <2> QED
      BY <1>3, <2>6, <2>7, <2>8 DEF Find, InsertEntry
  <1>4. CASE FreeKey(c)
    <2>1. /\ pc[c] = "free" /\ call[c] = "Remove" /\ freed' = freed \cup {entry[c]} /\ pc'[c] = "read"
          /\ UNCHANGED <<table, leaked, call, entry>> /\ key[c] \in Present /\ entry[c] = table[key[c]]
      BY <1>4 DEF FreeKey, CallInv, EntryInv, Holding, localVars, Present
    <2>2. Erasing(c)' /\ \A d \in Clients : Erasing(d) => Erasing(d)'
      BY <1>1, <2>1 DEF Erasing
    <2>3. \A k \in Present : table[k] \in freed' => \E d \in Clients : Erasing(d)' /\ entry'[d] = table[k]
      BY <2>1, <2>2 DEF FreedInv
    <2>4. \A d \in Clients : pc'[d] # "undefined"
      BY <1>0, <1>1, <2>1 DEF Defined
    <2>5. entry[c] \notin leaked
      BY <2>1 DEF FreedInv
    <2>6. leaked' \cap (freed' \cup {table'[k] : k \in Present'}) = {}
      BY <2>1, <2>5 DEF FreedInv, Present
    <2> QED
      BY <2>1, <2>3, <2>4, <2>6 DEF FreedInv, Present
  <1>5. CASE Erase(c)
    <2>1. /\ pc[c] = "erase" /\ call[c] = "Remove" /\ table' = [table EXCEPT ![key[c]] = NULL] /\ pc'[c] = "unlock"
          /\ UNCHANGED <<freed, leaked>> /\ key[c] \in Present /\ entry[c] = table[key[c]]
      BY <1>5 DEF Erase, CallInv, EntryInv, Holding, Present
    <2>2. Present' = Present \ {key[c]} /\ \A k \in Present' : table'[k] = table[k]
      BY <2>1 DEF Present
    <2>3. \A k \in Present' : table[k] \in freed => \E d \in Clients : Erasing(d)' /\ entry'[d] = table[k]
      <3> SUFFICES ASSUME NEW k \in Present', table[k] \in freed
                   PROVE  \E d \in Clients : Erasing(d)' /\ entry'[d] = table[k]
        OBVIOUS
      <3>1. PICK d \in Clients : Erasing(d) /\ entry[d] = table[k]
        BY <2>2 DEF FreedInv
      <3>2. d # c
        BY <2>1, <2>2, <3>1 DEF FreshInv
      <3>3. Erasing(d)' /\ entry'[d] = entry[d]
        BY <1>1, <3>1, <3>2 DEF Erasing
      <3> QED
        BY <3>1, <3>3
    <2>4. \A d \in Clients : pc'[d] # "undefined"
      BY <1>0, <1>1, <2>1 DEF Defined
    <2>5. leaked' \cap (freed' \cup {table'[k] : k \in Present'}) = {}
      BY <2>1, <2>2 DEF FreedInv
    <2> QED
      BY <2>1, <2>2, <2>3, <2>4, <2>5 DEF FreedInv
  <1>6. CASE \/ Begin(c) \/ Lock(c) \/ ReadValue(c) \/ WriteValue(c) \/ First(c) \/ Iterate(c)
             \/ Unlock(c) \/ Release(c)
    <2>1. UNCHANGED <<table, freed, leaked>> /\ pc'[c] # "undefined"
      <3>1. CASE Begin(c) \/ Lock(c) \/ ReadValue(c) \/ WriteValue(c)
        BY <3>1 DEF Begin, Lock, Body, CallNames, ReadValue, WriteValue
      <3>2. CASE First(c) \/ Iterate(c) \/ Unlock(c) \/ Release(c)
        BY <3>2 DEF First, Iterate, Unlock, Release, Return
      <3> QED
        BY <1>6, <3>1, <3>2
    <2>2. Erasing(c) => Erasing(c)' /\ entry'[c] = entry[c]
      <3>1. CASE ReadValue(c)
        BY <3>1 DEF ReadValue, Erasing, CallInv
      <3>2. CASE ~ReadValue(c)
        BY <1>6, <3>2 DEF Erasing, Begin, Lock, WriteValue, First, Iterate, Unlock, Release
      <3> QED
        BY <3>1, <3>2
    <2>3. \A d \in Clients : Erasing(d) => Erasing(d)' /\ entry'[d] = entry[d]
      BY <1>1, <2>2 DEF Erasing
    <2>4. \A d \in Clients : pc'[d] # "undefined"
      BY <1>0, <1>1, <2>1 DEF Defined
    <2>5. Present' = Present
      BY <2>1 DEF Present
    <2>6. \A k \in Present : table[k] \in freed => \E d \in Clients : Erasing(d)' /\ entry'[d] = table[k]
      BY <2>3 DEF FreedInv
    <2>7. leaked \cap (freed \cup {table[k] : k \in Present}) = {}
      BY DEF FreedInv
    <2> QED
      BY <2>1, <2>4, <2>5, <2>6, <2>7 DEF FreedInv
  <1> QED
    BY <1>3, <1>4, <1>5, <1>6 DEF Client

LEMMA HeldCorrect == Spec => []HeldInv
  <1>1. Init => HeldInv
    <2> SUFFICES ASSUME Init PROVE HeldInv
      OBVIOUS
    <2>1. LockInv /\ EntryInv /\ PosInv
      BY DEF Init, LockInv, Inside, EntryInv, Holding, PosInv
    <2>2. Present = {}
      BY DEF Init, Present
    <2>3. FreshInv /\ FreedInv
      BY <2>2 DEF Init, FreshInv, FreedInv
    <2> QED
      BY <2>1, <2>3, BaseInit DEF HeldInv
  <1>2. HeldInv /\ [Next]_vars => HeldInv'
    <2> SUFFICES ASSUME HeldInv, [Next]_vars PROVE HeldInv'
      OBVIOUS
    <2>1. ASSUME NEW c \in Clients, Client(c) PROVE HeldInv'
      BY <2>1, TypeClient, CallClient, LockClient, EntryClient, PosClient, FreshClient, FreedClient
         DEF HeldInv, BaseInv
    <2>2. CASE UNCHANGED vars
      <3>1. BaseInv' /\ LockInv'
        BY <2>2 DEF vars, HeldInv, BaseInv, TypeInv, CallInv, LockInv, Inside, Exclusive
      <3>2. EntryInv' /\ PosInv' /\ FreshInv' /\ FreedInv'
        BY <2>2 DEF vars, HeldInv, EntryInv, Holding, PosInv, Present, FreshInv, Made, FreedInv, Erasing
      <3> QED
        BY <3>1, <3>2 DEF HeldInv
    <2> QED
      BY <2>1, <2>2 DEF Next, Stopped
  <1> QED
    BY <1>1, <1>2, PTL DEF Spec

\* An entry owns its key copy until the one Remove that erases it, no copy is
\* freed twice or lost except those of Inserts that found the key, and only in
\* tbb_rand can anyone meet a copy that has been freed.
THEOREM CopiesHaveOwners == Spec => []KeyCopiesOwned
  <1>1. HeldInv => KeyCopiesOwned
    <2> SUFFICES ASSUME HeldInv PROVE KeyCopiesOwned
      OBVIOUS
    <2> USE DEF HeldInv
    <2>1. ASSUME NEW k \in Present, table[k] \in freed
          PROVE  Cardinality({c \in Clients : entry[c] = table[k] /\ call[c] = "Remove"
                                                /\ pc[c] \in {"read", "erase"}}) = 1
      <3>1. PICK c \in Clients : Erasing(c) /\ entry[c] = table[k]
        BY <2>1 DEF FreedInv
      <3>2. ASSUME NEW d \in Clients, Erasing(d), entry[d] = table[k] PROVE d = c
        BY <3>1, <3>2, Separate DEF Erasing, Holding
      <3>3. {d \in Clients : entry[d] = table[k] /\ call[d] = "Remove" /\ pc[d] \in {"read", "erase"}} = {c}
        BY <3>1, <3>2 DEF Erasing
      <3> QED
        BY <3>3, FS_Singleton
    <2> QED
      BY <2>1 DEF KeyCopiesOwned, FreedInv, Erasing
  <1> QED
    BY <1>1, HeldCorrect, PTL

-----------------------------------------------------------------------------
\* The map as the calls see it.
Store == [k \in Keys |-> IF table[k] = NULL THEN NULL ELSE value[table[k]]]

\* A call other than Entries has its effect in one step, which is the step of an
\* atomic map, and all other steps change neither the map nor an answer.
LEMMA ClientImplements ==
    ASSUME HeldInv, NEW c \in Clients, Client(c)
    PROVE  \/ UNCHANGED <<Store, answer>>
           \/ \E k \in Keys : Atomic!Get(c, k) \/ Atomic!Insert(c, k) \/ Atomic!Update(c, k) \/ Atomic!Remove(c, k)
  <1> USE DEF HeldInv, BaseInv, TypeInv, At, GoTo, Answer, mapVars
  <1>1. \A k \in Present : table[k] \in Ids /\ value[table[k]] \in Ids
    BY DEF FreshInv, Present
  <1>2. \A k \in Keys : Store[k] = NULL <=> k \notin Present
    BY <1>1, NullAssumption DEF Store, Present
  <1>3. CASE Find(c)
    <2>1. key[c] \in Keys /\ call[c] \in {"Get", "Update", "Remove"} /\ UNCHANGED <<table, value>>
      BY <1>3 DEF Find, CallInv
    <2>2. UNCHANGED Store
      BY <2>1 DEF Store
    <2>3. CASE UNCHANGED answer
      BY <2>2, <2>3
    <2>4. CASE table[key[c]] = NULL /\ answer' = [answer EXCEPT ![c] = <<call[c], NULL>>]
      <3>1. Store[key[c]] = NULL
        BY <2>1, <2>4 DEF Store
      <3>2. CASE call[c] = "Get"
        BY <2>1, <2>2, <2>4, <3>1, <3>2 DEF Atomic!Get, Atomic!Answer, Store
      <3>3. CASE call[c] = "Update"
        BY <2>1, <2>2, <2>4, <3>1, <3>3 DEF Atomic!Update, Atomic!Answer, Store
      <3>4. CASE call[c] = "Remove"
        <4>1. Store' = [Store EXCEPT ![key[c]] = NULL]
          BY <2>1, <2>2, <3>1 DEF Store
        <4> QED
          BY <2>1, <2>4, <3>1, <3>4, <4>1 DEF Atomic!Remove, Atomic!Answer, Store
      <3> QED
        BY <2>1, <3>2, <3>3, <3>4
    <2> QED
      BY <1>3, <2>3, <2>4 DEF Find
  <1>4. CASE ReadValue(c)
    <2>1. /\ key[c] \in Keys /\ entry[c] = table[key[c]] /\ entry[c] # NULL
          /\ UNCHANGED <<table, value>>
      BY <1>4 DEF ReadValue, CallInv, EntryInv, Holding
    <2>2. UNCHANGED Store
      BY <2>1 DEF Store
    <2>3. CASE UNCHANGED answer
      BY <2>2, <2>3
    <2>4. CASE call[c] = "Get" /\ answer' = [answer EXCEPT ![c] = <<call[c], value[entry[c]]>>]
      <3>1. Store[key[c]] = value[entry[c]]
        BY <2>1 DEF Store
      <3> QED
        BY <2>1, <2>2, <2>4, <3>1 DEF Atomic!Get, Atomic!Answer, Store
    <2> QED
      BY <1>4, <2>3, <2>4 DEF ReadValue
  <1>5. CASE WriteValue(c)
    <2>1. /\ key[c] \in Keys /\ key[c] \in Present /\ entry[c] = table[key[c]] /\ entry[c] \in Ids
          /\ old[c] = value[entry[c]] /\ Id(c) \in Ids /\ call[c] = "Update"
      BY <1>5, <1>1, IdType DEF WriteValue, CallInv, EntryInv, Holding, Present
    <2>2. /\ value' = [value EXCEPT ![entry[c]] = Id(c)] /\ table' = table
          /\ answer' = [answer EXCEPT ![c] = <<call[c], old[c]>>]
      BY <1>5 DEF WriteValue
    <2>3. Store[key[c]] = old[c] /\ Store[key[c]] # NULL
      BY <1>2, <2>1, NullAssumption DEF Store, Present
    <2>4. Store' = [Store EXCEPT ![key[c]] = Id(c)]
      <3>1. \A k \in Keys : Store'[k] = IF k = key[c] THEN Id(c) ELSE Store[k]
        <4> SUFFICES ASSUME NEW k \in Keys PROVE Store'[k] = IF k = key[c] THEN Id(c) ELSE Store[k]
          OBVIOUS
        <4>1. CASE k = key[c]
          BY <2>1, <2>2, <4>1, NullAssumption DEF Store
        <4>2. CASE k # key[c] /\ k \in Present
          <5>1. table[k] # entry[c] /\ table[k] \in Ids
            BY <1>1, <2>1, <4>2 DEF FreshInv
          <5> QED
            BY <2>2, <4>2, <5>1 DEF Store
        <4>3. CASE k # key[c] /\ k \notin Present
          BY <2>2, <4>3 DEF Store, Present
        <4> QED
          BY <4>1, <4>2, <4>3
      <3> QED
        BY <3>1, <2>1 DEF Store
    <2>5. \E v \in Ids : Store' = [Store EXCEPT ![key[c]] = v]
      BY <2>1, <2>4
    <2>6. answer' = [answer EXCEPT ![c] = <<"Update", Store[key[c]]>>]
      BY <2>1, <2>2, <2>3
    <2>7. PICK k \in Keys : k = key[c]
      BY <2>1
    <2>8. Atomic!Update(c, k)
      BY <2>3, <2>5, <2>6, <2>7, Zenon DEF Atomic!Update, Atomic!Answer, Store
    <2> QED
      BY <2>8
  <1>6. CASE InsertEntry(c)
    <2>1. key[c] \in Keys /\ call[c] = "Insert" /\ Id(c) \in Ids /\ Id(c) # NULL /\ pc[c] = "insert"
      BY <1>6, IdType, NullAssumption DEF InsertEntry, CallInv
    <2>2. CASE UNCHANGED <<table, value, answer>>
      BY <2>2 DEF Store
    <2>3. CASE /\ table[key[c]] = NULL /\ table' = [table EXCEPT ![key[c]] = Id(c)]
               /\ value' = [value EXCEPT ![Id(c)] = Id(c)]
               /\ answer' = [answer EXCEPT ![c] = <<call[c], TRUE>>]
      <3>1. Store[key[c]] = NULL
        BY <2>1, <2>3 DEF Store
      <3>2. Store' = [Store EXCEPT ![key[c]] = Id(c)]
        <4>1. \A k \in Keys : Store'[k] = IF k = key[c] THEN Id(c) ELSE Store[k]
          <5> SUFFICES ASSUME NEW k \in Keys PROVE Store'[k] = IF k = key[c] THEN Id(c) ELSE Store[k]
            OBVIOUS
          <5>1. CASE k = key[c]
            BY <2>1, <2>3, <5>1 DEF Store
          <5>2. CASE k # key[c] /\ k \in Present
            <6>1. table[k] # Id(c) /\ table[k] \in Ids
              BY <1>1, <2>1, <5>2, FreshId
            <6> QED
              BY <2>3, <5>2, <6>1 DEF Store
          <5>3. CASE k # key[c] /\ k \notin Present
            BY <2>3, <5>3 DEF Store, Present
          <5> QED
            BY <5>1, <5>2, <5>3
        <4> QED
          BY <4>1, <2>1 DEF Store
      <3>3. \E v \in Ids : Store' = [Store EXCEPT ![key[c]] = v]
        BY <2>1, <3>2
      <3>4. answer' = [answer EXCEPT ![c] = <<"Insert", TRUE>>]
        BY <2>1, <2>3
      <3>5. PICK k \in Keys : k = key[c]
        BY <2>1
      <3>6. Atomic!Insert(c, k)
        BY <3>1, <3>3, <3>4, <3>5, Zenon DEF Atomic!Insert, Atomic!Answer, Store
      <3> QED
        BY <3>6
    <2>4. CASE /\ table[key[c]] # NULL /\ UNCHANGED <<table, value>>
               /\ answer' = [answer EXCEPT ![c] = <<call[c], FALSE>>]
      <3>1. Store[key[c]] # NULL /\ UNCHANGED Store
        BY <1>2, <2>1, <2>4 DEF Store, Present
      <3> QED
        BY <2>1, <2>4, <3>1 DEF Atomic!Insert, Atomic!Answer, Store
    <2> QED
      BY <1>6, <2>2, <2>3, <2>4 DEF InsertEntry
  <1>7. CASE Erase(c)
    <2>1. /\ key[c] \in Keys /\ key[c] \in Present /\ entry[c] = table[key[c]]
          /\ old[c] = value[entry[c]] /\ call[c] = "Remove"
      BY <1>7 DEF Erase, CallInv, EntryInv, Holding, Present
    <2>2. /\ table' = [table EXCEPT ![key[c]] = NULL] /\ value' = value
          /\ answer' = [answer EXCEPT ![c] = <<call[c], old[c]>>]
      BY <1>7 DEF Erase
    <2>3. Store[key[c]] = old[c]
      BY <2>1 DEF Store, Present
    <2>4. Store' = [Store EXCEPT ![key[c]] = NULL]
      BY <2>1, <2>2 DEF Store
    <2> QED
      BY <2>1, <2>2, <2>3, <2>4 DEF Atomic!Remove, Atomic!Answer, Store
  <1>8. CASE \/ Begin(c) \/ Lock(c) \/ FreeKey(c) \/ First(c) \/ Iterate(c) \/ Unlock(c) \/ Release(c)
    <2>1. UNCHANGED <<table, value, answer>>
      BY <1>8 DEF Begin, Lock, FreeKey, First, Iterate, Unlock, Release
    <2> QED
      BY <2>1 DEF Store
  <1> QED
    BY <1>3, <1>4, <1>5, <1>6, <1>7, <1>8 DEF Client

\* Under each of the three ways of locking and any interleaving, the calls other
\* than Entries are those of an atomic map: the refinement, initial states to
\* initial states and steps to steps or to none.
THEOREM HashtablesAreAtomic == Spec => ImplementsAtomic
  <1>1. Init => Atomic!Init
    BY DEF Init, Atomic!Init
  <1>2. HeldInv /\ [Next]_vars => [Atomic!Next]_<<Store, answer>>
    <2> SUFFICES ASSUME HeldInv, [Next]_vars PROVE [Atomic!Next]_<<Store, answer>>
      OBVIOUS
    <2>1. ASSUME NEW c \in Clients, Client(c) PROVE [Atomic!Next]_<<Store, answer>>
      BY <2>1, ClientImplements DEF Atomic!Next
    <2>2. CASE UNCHANGED vars
      BY <2>2 DEF vars, Store
    <2> QED
      BY <2>1, <2>2 DEF Next, Stopped
  <1> QED
    BY <1>1, <1>2, HeldCorrect, PTL DEF Spec, ImplementsAtomic, Atomic!Spec, Store

-----------------------------------------------------------------------------
Listing(c) == call[c] = "Entries" /\ pc[c] \in {"iterate", "unlock"}

Found(c) == {pairs[c][i][1] : i \in DOMAIN pairs[c]}
Due(c) == IF key[c] \in before[c] \cup {0} THEN {k \in before[c] : k >= key[c]} ELSE {}

\* What a call of Entries has collected, and that it has not passed over an entry.
Collected(c) ==
    /\ \A i, j \in DOMAIN pairs[c] : i < j => pairs[c][i][1] < pairs[c][j][1]
    /\ Len(pairs[c]) <= n[c]
    /\ pc[c] = "iterate" => /\ \A i \in DOMAIN pairs[c] : pairs[c][i][1] < pos[c]
                            /\ \A k \in Due(c) : k < pos[c] => k \in Found(c)
    /\ pc[c] = "unlock" /\ Len(pairs[c]) < n[c] => Due(c) \subseteq Found(c)

\* What it has collected is there.
Current(c) ==
    /\ \A i \in DOMAIN pairs[c] : /\ pairs[c][i][1] \in Present
                                  /\ pairs[c][i][2] = value[table[pairs[c][i][1]]]
    /\ before[c] \subseteq Present

ListInv ==
    \A c \in Clients :
        /\ pc[c] \in {"idle", "lock", "first"} => pairs[c] = <<>>
        /\ Listing(c) => Collected(c) /\ Current(c)

\* No other call removes what Entries has collected, or gives it another value.
LEMMA CurrentKept ==
    ASSUME HeldInv, NEW c \in Clients, Client(c), NEW d \in Clients, Listing(d), Current(d),
           pairs'[d] = pairs[d], before'[d] = before[d]
    PROVE  Current(d)'
  <1> USE DEF HeldInv, BaseInv, TypeInv, At, mapVars
  <1>1. CASE WriteValue(c) \/ Erase(c)
    <2>1. Inside(c) /\ call[c] \in {"Update", "Remove"}
      BY <1>1 DEF WriteValue, Erase, CallInv, Inside
    <2>2. Inside(d) /\ call[d] = "Entries"
      BY DEF Listing, Inside
    <2> QED
      BY <2>1, <2>2, Undisturbed
  <1>2. ASSUME \A k \in Present : k \in Present' /\ table'[k] = table[k] /\ value'[table[k]] = value[table[k]]
        PROVE  Current(d)'
    BY <1>2 DEF Current
  <1>3. CASE InsertEntry(c)
    <2>1. CASE UNCHANGED <<table, value>>
      BY <1>2, <2>1 DEF Present
    <2>2. CASE /\ table[key[c]] = NULL /\ table' = [table EXCEPT ![key[c]] = Id(c)]
               /\ value' = [value EXCEPT ![Id(c)] = Id(c)]
      <3>1. Id(c) \in Ids /\ \A k \in Present : table[k] # Id(c)
        BY <1>3, FreshId DEF InsertEntry
      <3>2. \A k \in Present : /\ k \in Present' /\ table'[k] = table[k]
                               /\ value'[table[k]] = value[table[k]]
        BY <2>2, <3>1 DEF Present
      <3> QED
        BY <1>2, <3>2
    <2> QED
      BY <1>3, <2>1, <2>2 DEF InsertEntry
  <1>4. CASE ~(WriteValue(c) \/ Erase(c) \/ InsertEntry(c))
    <2>1. UNCHANGED <<table, value>>
      BY <1>4 DEF Client, Begin, Lock, Find, ReadValue, FreeKey, First, Iterate, Unlock, Release
    <2> QED
      BY <1>2, <2>1 DEF Present
  <1> QED
    BY <1>1, <1>3, <1>4

\* Entries starts at the first entry that is due.
LEMMA ListFirst ==
    ASSUME HeldInv, ListInv, NEW c \in Clients, First(c)
    PROVE  Collected(c)' /\ Current(c)'
  <1> USE DEF HeldInv, BaseInv, TypeInv, At, GoTo
  <1>1. /\ pairs[c] = <<>> /\ UNCHANGED <<pairs, n, key, table, value>> /\ pc'[c] = "iterate"
        /\ before'[c] = Present
        /\ pos'[c] = IF key[c] = 0 THEN Seek(1) ELSE IF key[c] \in Present THEN key[c] ELSE End
    BY DEF First, ListInv, mapVars
  <1>2. DOMAIN pairs'[c] = {} /\ Len(pairs'[c]) = 0 /\ n'[c] \in Nat
    BY <1>1
  <1>3. \A k \in Due(c)' : ~(k < pos'[c])
    <2> SUFFICES ASSUME NEW k \in Due(c)' PROVE ~(k < pos'[c])
      OBVIOUS
    <2>1. /\ k \in Present /\ k >= key[c] /\ key[c] \in Present \cup {0} /\ k \in Int
      BY <1>1 DEF Due, Present, Keys
    <2>2. CASE key[c] = 0
      <3>1. 1 \in 1..End /\ k >= 1
        BY <2>1, SizesAssumption DEF End, Present, Keys
      <3>2. pos'[c] <= k /\ pos'[c] \in Int
        BY <1>1, <2>1, <2>2, <3>1, SeekType
      <3> QED
        BY <2>1, <3>2
    <2>3. CASE key[c] # 0
      <3>1. pos'[c] = key[c] /\ key[c] \in Int
        BY <1>1, <2>1, <2>3 DEF Present, Keys
      <3> QED
        BY <2>1, <3>1
    <2> QED
      BY <2>2, <2>3
  <1>4. Collected(c)'
    BY <1>1, <1>2, <1>3 DEF Collected
  <1>5. Current(c)'
    BY <1>1, <1>2 DEF Current, Present
  <1> QED
    BY <1>4, <1>5

\* One turn takes the entry at the iterator and goes on to the next one present.
LEMMA ListIterate ==
    ASSUME HeldInv, ListInv, NEW c \in Clients, Iterate(c), Continues(c)
    PROVE  Collected(c)' /\ Current(c)'
  <1> USE DEF HeldInv, BaseInv, TypeInv, At, GoTo
  <1> DEFINE pair == <<pos[c], value[table[pos[c]]]>>
             s == pairs[c]
             t == pairs'[c]
  <1>1. /\ pc[c] = "iterate" /\ Collected(c) /\ Current(c) /\ pc'[c] = "iterate"
        /\ UNCHANGED <<n, key, before, table, value>>
        /\ pos'[c] = Seek(pos[c] + 1) /\ t = Append(s, pair)
    BY DEF Iterate, ListInv, Listing, CallInv, mapVars
  <1>2. pos[c] \in Present /\ Len(s) < n[c]
    BY <1>1 DEF PosInv, Continues
  <1>3. pos[c] \in Keys /\ pos[c] + 1 \in 1..End /\ pos[c] \in Int /\ table[pos[c]] \in Ids
    BY <1>2, SizesAssumption DEF Present, Keys, End
  <1>4. pair \in Keys \X (Ids \cup {NULL}) /\ s \in Seq(Keys \X (Ids \cup {NULL}))
    BY <1>3
  <1>5. /\ Len(s) \in Nat /\ Len(t) = Len(s) + 1 /\ DOMAIN s = 1..Len(s) /\ DOMAIN t = 1..Len(t)
        /\ \A i \in 1..Len(s) : t[i] = s[i] /\ s[i][1] \in Keys
        /\ t[Len(s) + 1] = pair
    <2> HIDE DEF pair
    <2>1. t \in Seq(Keys \X (Ids \cup {NULL})) /\ Len(s) \in Nat /\ Len(t) = Len(s) + 1
      BY <1>1, <1>4, AppendProperties, LenProperties
    <2>2. DOMAIN s = 1..Len(s) /\ DOMAIN t = 1..Len(t)
      BY <1>4, <2>1, LenProperties
    <2>3. (\A i \in 1..Len(s) : t[i] = s[i]) /\ t[Len(s) + 1] = pair
      BY <1>1, <1>4, AppendProperties
    <2>4. \A i \in 1..Len(s) : s[i] \in Keys \X (Ids \cup {NULL})
      BY <1>4, ElementOfSeq
    <2> QED
      BY <2>1, <2>2, <2>3, <2>4
  <1>6. /\ pair[1] = pos[c] /\ pair[2] = value[table[pos[c]]]
        /\ pos'[c] \in Int /\ pos'[c] > pos[c]
    <2>1. /\ Seek(pos[c] + 1) \in 1..End
          /\ Seek(pos[c] + 1) = End \/ Seek(pos[c] + 1) >= pos[c] + 1
      BY <1>3, SeekType
    <2> QED
      BY <1>1, <1>3, <2>1 DEF End
  <1>7. \A i \in 1..Len(s) : s[i][1] < pos[c]
    BY <1>1, <1>5 DEF Collected
  <1> HIDE DEF pair, s, t
  <1>8. \A i, j \in DOMAIN t : i < j => t[i][1] < t[j][1]
    <2> SUFFICES ASSUME NEW i \in 1..Len(t), NEW j \in 1..Len(t), i < j PROVE t[i][1] < t[j][1]
      BY <1>5
    <2>1. i \in 1..Len(s)
      BY <1>5
    <2>2. CASE j \in 1..Len(s)
      BY <1>1, <1>5, <2>1, <2>2 DEF Collected, s
    <2>3. CASE j = Len(s) + 1
      BY <1>5, <1>6, <1>7, <2>1, <2>3
    <2> QED
      BY <1>5, <2>2, <2>3
  <1>9. \A i \in DOMAIN t : t[i][1] < pos'[c]
    <2> SUFFICES ASSUME NEW i \in 1..Len(t) PROVE t[i][1] < pos'[c]
      BY <1>5
    <2>1. CASE i \in 1..Len(s)
      <3>1. t[i][1] < pos[c] /\ t[i][1] \in Int
        BY <1>5, <1>7, <2>1 DEF Keys
      <3> QED
        BY <1>3, <1>6, <3>1
    <2>2. CASE i = Len(s) + 1
      BY <1>5, <1>6, <2>2
    <2> QED
      BY <1>5, <2>1, <2>2
  <1>10. \A k \in Due(c)' : k < pos'[c] => k \in Found(c)'
    <2> SUFFICES ASSUME NEW k \in Due(c)', k < pos'[c] PROVE \E i \in DOMAIN t : t[i][1] = k
      BY DEF Found, t
    <2>1. k \in Due(c) /\ k \in Present /\ k \in Int
      BY <1>1 DEF Due, Current, Present, Keys
    <2>2. CASE k < pos[c]
      <3>1. PICK i \in DOMAIN s : s[i][1] = k
        BY <1>1, <2>1, <2>2 DEF Collected, Found, s
      <3>2. i \in DOMAIN t /\ t[i][1] = k
        BY <1>5, <3>1
      <3> QED
        BY <3>2
    <2>3. CASE k = pos[c]
      <3>1. Len(s) + 1 \in DOMAIN t
        BY <1>5
      <3> QED
        BY <1>5, <1>6, <2>3, <3>1
    <2>4. ASSUME k > pos[c] PROVE FALSE
      <3>1. k >= pos[c] + 1
        BY <1>3, <2>1, <2>4
      <3>2. pos'[c] <= k
        BY <1>1, <1>3, <2>1, <3>1, SeekType
      <3> QED
        BY <1>6, <2>1, <3>2
    <2> QED
      BY <1>3, <2>1, <2>2, <2>3, <2>4
  <1>11. Len(t) <= n'[c]
    BY <1>1, <1>2, <1>5
  <1>12. Collected(c)'
    BY <1>1, <1>8, <1>9, <1>10, <1>11 DEF Collected, t
  <1>13. Present' = Present
    BY <1>1 DEF Present
  <1>14. \A i \in DOMAIN t : t[i][1] \in Present /\ t[i][2] = value[table[t[i][1]]]
    <2> SUFFICES ASSUME NEW i \in 1..Len(t) PROVE t[i][1] \in Present /\ t[i][2] = value[table[t[i][1]]]
      BY <1>5
    <2>1. CASE i \in 1..Len(s)
      BY <1>1, <1>5, <2>1 DEF Current, s
    <2>2. CASE i = Len(s) + 1
      BY <1>2, <1>5, <1>6, <2>2
    <2> QED
      BY <1>5, <2>1, <2>2
  <1>15. Current(c)'
    BY <1>1, <1>13, <1>14 DEF Current, t
  <1> QED
    BY <1>12, <1>15

LEMMA ListClient == ASSUME HeldInv, ListInv, NEW c \in Clients, Client(c) PROVE ListInv'
  <1> USE DEF HeldInv, BaseInv, TypeInv, At, GoTo
  <1>1. ASSUME NEW d \in Clients \ {c}
        PROVE  /\ pc'[d] \in {"idle", "lock", "first"} => pairs'[d] = <<>>
               /\ Listing(d)' => Collected(d)' /\ Current(d)'
    <2>1. /\ pc'[d] = pc[d] /\ call'[d] = call[d] /\ key'[d] = key[d] /\ n'[d] = n[d]
          /\ pos'[d] = pos[d] /\ pairs'[d] = pairs[d] /\ before'[d] = before[d]
      <3>1. CASE Begin(c)
        BY <3>1 DEF Begin, localVars
      <3>5. CASE Lock(c) \/ Find(c) \/ ReadValue(c)
        BY <3>5 DEF Lock, Find, ReadValue, localVars
      <3>6. CASE WriteValue(c) \/ InsertEntry(c)
        BY <3>6 DEF WriteValue, InsertEntry, localVars
      <3>2. CASE FreeKey(c) \/ Erase(c) \/ First(c) \/ Iterate(c)
        BY <3>2 DEF FreeKey, Erase, First, Iterate, localVars
      <3>3. CASE Unlock(c)
        BY <3>3 DEF Unlock, Return, localVars
      <3>4. CASE Release(c)
        BY <3>4 DEF Release, Return
      <3> QED
        BY <3>1, <3>2, <3>3, <3>4, <3>5, <3>6 DEF Client
    <2>2. Listing(d)' => Listing(d)
      BY <2>1 DEF Listing
    <2>3. Collected(d) => Collected(d)'
      BY <2>1 DEF Collected, Due, Found
    <2> QED
      BY <2>1, <2>2, <2>3, CurrentKept DEF ListInv
  <1>2. /\ pc'[c] \in {"idle", "lock", "first"} => pairs'[c] = <<>>
        /\ Listing(c)' => Collected(c)' /\ Current(c)'
    <2>1. CASE Begin(c) \/ Lock(c)
      <3>1. /\ pairs' = pairs /\ pairs[c] = <<>>
            /\ pc'[c] \in {"lock", "find", "insert", "first"}
        BY <2>1 DEF Begin, Lock, Body, CallNames, ListInv, localVars
      <3> QED
        BY <3>1 DEF Listing
    <2>2. CASE Find(c) \/ ReadValue(c) \/ WriteValue(c) \/ InsertEntry(c) \/ FreeKey(c) \/ Erase(c)
      <3>1. call' = call /\ call[c] # "Entries" /\ pc'[c] \notin {"idle", "lock", "first"}
        BY <2>2 DEF Find, ReadValue, WriteValue, InsertEntry, FreeKey, Erase, CallInv
      <3> QED
        BY <3>1 DEF Listing
    <2>3. CASE First(c)
      BY <2>3, ListFirst DEF First
    <2>4. CASE Iterate(c)
      <3>1. CASE Continues(c)
        BY <2>4, <3>1, ListIterate DEF Iterate
      <3>2. CASE ~Continues(c)
        <4>1. /\ pc[c] = "iterate" /\ pc'[c] = "unlock" /\ Collected(c) /\ Current(c) /\ Listing(c)
              /\ UNCHANGED <<n, key, pos, pairs, before, table, value>>
          BY <2>4, <3>2 DEF Iterate, ListInv, Listing, CallInv, mapVars
        <4>2. Due(c)' = Due(c) /\ Found(c)' = Found(c)
          BY <4>1 DEF Due, Found
        <4>3. ASSUME Len(pairs[c]) < n[c] PROVE Due(c) \subseteq Found(c)
          <5>1. pos[c] = End
            BY <3>2, <4>3 DEF Continues
          <5>2. \A k \in Due(c) : k < End
            BY SizesAssumption DEF Due, Keys, End
          <5> QED
            BY <4>1, <5>1, <5>2 DEF Collected
        <4>4. Collected(c)'
          BY <4>1, <4>2, <4>3 DEF Collected
        <4>5. Current(c)'
          BY <4>1 DEF Current, Present
        <4> QED
          BY <4>1, <4>4, <4>5
      <3> QED
        BY <3>1, <3>2
    <2>5. CASE Unlock(c)
      <3>1. CASE kind = "tbb_rand" /\ entry[c] # NULL
        BY <2>5, <3>1 DEF Unlock, Listing
      <3>2. CASE ~(kind = "tbb_rand" /\ entry[c] # NULL)
        BY <2>5, <3>2 DEF Unlock, Return, Listing
      <3> QED
        BY <3>1, <3>2
    <2>6. CASE Release(c)
      BY <2>6 DEF Release, Return, Listing
    <2> QED
      BY <2>1, <2>2, <2>3, <2>4, <2>5, <2>6 DEF Client
  <1> QED
    BY <1>1, <1>2 DEF ListInv

\* Entries returns each entry that was there when it began, in order, once and
\* with its present value, up to the number asked for, whatever is inserted
\* meanwhile.
THEOREM EntriesAreComplete == Spec => []EntriesComplete
  <1>1. Init => ListInv
    BY DEF Init, ListInv, Listing
  <1>2. HeldInv /\ ListInv /\ [Next]_vars => ListInv'
    <2> SUFFICES ASSUME HeldInv, ListInv, [Next]_vars PROVE ListInv'
      OBVIOUS
    <2>1. CASE UNCHANGED vars
      BY <2>1 DEF vars, ListInv, Listing, Collected, Current, Due, Found, Present
    <2> QED
      BY <2>1, ListClient DEF Next, Stopped
  <1>3. ListInv => EntriesComplete
    BY DEF ListInv, Listing, Collected, Current, Due, Found, EntriesComplete
  <1> QED
    BY <1>1, <1>2, <1>3, HeldCorrect, PTL DEF Spec
=============================================================================
