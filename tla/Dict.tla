-------------------------------- MODULE Dict --------------------------------
(***************************************************************************)
(* The hash table of hiredis (redis/hiredis/dict.c), in which an async     *)
(* context keeps the callbacks of its subscriptions.                       *)
(*                                                                         *)
(* A dict is its table, a sequence of buckets, and the number of entries   *)
(* it believes to hold.  A bucket is the chain of its entries, the head    *)
(* first.  Operations are functions from dict to dict.                     *)
(***************************************************************************)
EXTENDS Integers, Sequences, FiniteSets, SequencesExt

CONSTANTS
    DictKeys,          \* the keys
    KeyHash,           \* their hashes
    InitialSize        \* DICT_HT_INITIAL_SIZE (4), a power of 2

ASSUME DictAssumption == KeyHash \in [DictKeys -> Nat] /\ InitialSize \in Nat \ {0}

Entry(key, val) == [key |-> key, val |-> val]

dictCreate == [table |-> <<>>, used |-> 0]

\* dictHashKey(ht, key) & ht->sizemask, counted from 1.
BucketOf(size, key) == (KeyHash[key] % size) + 1

\* entry->next = table[h]; table[h] = entry
Link(table, entry) == [table EXCEPT ![BucketOf(Len(table), entry.key)] = <<entry>> \o @]

\* The least InitialSize * 2^i that is no less than size.
NextPower(size) ==
    LET power[i \in 0..size] == IF i = 0 THEN InitialSize ELSE 2 * power[i - 1]
    IN  power[CHOOSE i \in 0..size : power[i] >= size /\ \A j \in 0..(i - 1) : power[j] < size]

\* The entries in the order of the list, linked into an empty table.
Moved(entries, size) ==
    LET table[i \in 0..Len(entries)] ==
            IF i = 0 THEN [b \in 1..size |-> <<>>] ELSE Link(table[i - 1], entries[i])
    IN  table[Len(entries)]

\* Every entry, bucket by bucket, moves to its bucket in the new table.
dictExpand_Unhashed(d, size) ==
    [d EXCEPT !.table = @ \o [i \in 1..(NextPower(size) - Len(@)) |-> <<>>]]
dictExpand(d, size) ==
    [table |-> Moved(FlattenSeq(d.table), NextPower(size)), used |-> d.used]

ExpandIfNeeded(d) ==
    IF d.table = <<>> THEN dictExpand(d, InitialSize)
    ELSE IF d.used = Len(d.table) THEN dictExpand(d, 2 * Len(d.table)) ELSE d

Chain(d, key) == IF d.table = <<>> THEN <<>> ELSE d.table[BucketOf(Len(d.table), key)]
Has(d, key) == \E i \in DOMAIN Chain(d, key) : Chain(d, key)[i].key = key

\* Where the search through a chain finds the key.
Position(chain, key) ==
    CHOOSE i \in DOMAIN chain : chain[i].key = key /\ \A j \in 1..(i - 1) : chain[j].key # key

\* dictFind: the value of the key, which d has.
dictFind(d, key) == Chain(d, key)[Position(Chain(d, key), key)].val

\* dictReplace: dictAdd, which may expand the table even when the key is there,
\* and otherwise the new value in the entry of the key.
dictReplace(d, key, val) ==
    LET e == ExpandIfNeeded(d)
    IN  IF Has(e, key)
        THEN [table |-> [e.table EXCEPT ![BucketOf(Len(e.table), key)] =
                            [@ EXCEPT ![Position(@, key)] = Entry(key, val)]],
              used |-> e.used]
        ELSE [table |-> Link(e.table, Entry(key, val)), used |-> e.used + 1]

\* dictDelete
dictDelete(d, key) ==
    IF ~Has(d, key) THEN d
    ELSE [table |-> [d.table EXCEPT ![BucketOf(Len(d.table), key)] = RemoveAt(@, Position(@, key))],
          used |-> d.used - 1]

\* dictNext until it returns NULL: the values in the order of the buckets.
IteratedValues(d) == LET entries == FlattenSeq(d.table)
                     IN  [i \in DOMAIN entries |-> entries[i].val]

-----------------------------------------------------------------------------
\* Every entry is in the bucket of its hash, and no key has two.
WellFormed(table) ==
    \A b \in DOMAIN table : \A i \in DOMAIN table[b] :
        /\ BucketOf(Len(table), table[b][i].key) = b
        /\ \A j \in DOMAIN table[b] : table[b][j].key = table[b][i].key => j = i

\* The dict holds exactly these values, and the count of entries is right.
Holds(d, map) ==
    /\ WellFormed(d.table)
    /\ \A key \in DictKeys : Has(d, key) <=> key \in DOMAIN map
    /\ \A key \in DOMAIN map : dictFind(d, key) = map[key]
    /\ d.used = Cardinality(DOMAIN map)
=============================================================================
