-------------------------- MODULE StringHashtable ---------------------------
(***************************************************************************)
(* The hashtables of lib/: LockStlHashtable (one mutex around an           *)
(* std::unordered_map), TbbRandHashtable (a reader-writer lock around a    *)
(* tbb::concurrent_hash_map, whose entries have locks of their own, the    *)
(* accessors) and TbbScanHashtable (a reader-writer lock around a          *)
(* tbb::concurrent_unordered_map).                                         *)
(*                                                                         *)
(* An entry is named by the Insert that made it, and so is the copy of the *)
(* key the entry owns; a value is named by the call that stored it.  The   *)
(* maps themselves are external: a lookup or an insertion is one step, and *)
(* compares the key of the entry it meets.  A lookup that meets a freed    *)
(* key copy has undefined behaviour, and the behaviour ends.               *)
(***************************************************************************)
EXTENDS Integers, Sequences, FiniteSets, FiniteSetsExt

CONSTANTS
    Clients,     \* client threads
    NumKeys,     \* keys, numbered in the order in which Entries meets them
    MaxCalls,    \* bound: calls per client
    Kinds,       \* the hashtables: subset of {"lock_stl", "tbb_rand", "tbb_scan"}
    NULL

ASSUME SizesAssumption == NumKeys \in Nat \ {0} /\ MaxCalls \in Nat
ASSUME KindsAssumption == Kinds \subseteq {"lock_stl", "tbb_rand", "tbb_scan"}

Keys == 1..NumKeys
End == NumKeys + 1
CallNames == {"Get", "Insert", "Update", "Remove", "Entries"}
Ids == Clients \X (1..MaxCalls)

ASSUME NullAssumption == NULL \notin Ids \cup Clients

VARIABLES
    kind,        \* which of the hashtables this is
    table,       \* table_: the entry of each key
    value,       \* the value of each entry
    freed,       \* key copies freed
    leaked,      \* key copies no entry has taken
    accessor,    \* who holds each entry's lock (tbb_rand)
    readers,     \* who holds mutex_ shared
    writer,      \* who holds mutex_ exclusively
    pc, calls,   \* where each client is, and how many calls it has made
    call, key, n,  \* the call in progress and its arguments (key 0 is NULL)
    entry,       \* result->, it-> or pos->: the entry found
    old,         \* the local old
    pos, pairs,  \* the locals of Entries
    before,      \* history: the keys present when Entries began
    answer       \* name and result of the last call

mapVars == <<table, value, freed, leaked>>
lockVars == <<accessor, readers, writer>>
localVars == <<entry, old, pos, pairs, before>>
vars == <<kind, table, value, freed, leaked, accessor, readers, writer, pc, calls,
          call, key, n, entry, old, pos, pairs, before, answer>>

Init ==
    /\ kind \in Kinds
    /\ table = [k \in Keys |-> NULL]
    /\ value = [i \in Ids |-> NULL]
    /\ freed = {} /\ leaked = {}
    /\ accessor = [i \in Ids |-> NULL]
    /\ readers = {} /\ writer = NULL
    /\ pc = [c \in Clients |-> "idle"]
    /\ calls = [c \in Clients |-> 0]
    /\ call = [c \in Clients |-> "Get"]
    /\ key = [c \in Clients |-> 0]
    /\ n = [c \in Clients |-> 0]
    /\ entry = [c \in Clients |-> NULL]
    /\ old = [c \in Clients |-> NULL]
    /\ pos = [c \in Clients |-> End]
    /\ pairs = [c \in Clients |-> <<>>]
    /\ before = [c \in Clients |-> {}]
    /\ answer = [c \in Clients |-> <<"none", NULL>>]

-----------------------------------------------------------------------------
\* The call's own id: its new entry, key copy and value.
Id(c) == <<c, calls[c]>>
Present == {k \in Keys : table[k] # NULL}

\* No client has run into undefined behaviour.
Defined == \A c \in Clients : pc[c] # "undefined"
At(c, place) == Defined /\ pc[c] = place
GoTo(c, to) == pc' = [pc EXCEPT ![c] = to]
Answer(c, r) == answer' = [answer EXCEPT ![c] = <<call[c], r>>]

\* The calls that take mutex_ exclusively: "scoped_lock lock(mutex_)" where
\* the others say "lock(mutex_, false)".
Exclusive_SharedUpdate(name) ==
    CASE kind = "lock_stl" -> name # "Update"
      [] kind = "tbb_rand" -> name = "Entries"
      [] kind = "tbb_scan" -> name \in {"Update", "Remove"}
Exclusive(name) ==
    CASE kind = "lock_stl" -> TRUE
      [] kind = "tbb_rand" -> name = "Entries"
      [] kind = "tbb_scan" -> name \in {"Update", "Remove"}

Begin(c) ==
    /\ At(c, "idle")
    /\ calls[c] < MaxCalls
    /\ calls' = [calls EXCEPT ![c] = @ + 1]
    /\ \E name \in CallNames :
          /\ call' = [call EXCEPT ![c] = name]
          /\ \E k \in IF name = "Entries" THEN Keys \cup {0} ELSE Keys : key' = [key EXCEPT ![c] = k]
          /\ \E m \in IF name = "Entries" THEN {1, NumKeys} ELSE {0} : n' = [n EXCEPT ![c] = m]
    /\ GoTo(c, "lock")
    /\ UNCHANGED <<kind, mapVars, lockVars, localVars, answer>>

\* Where a call goes on once it has mutex_.
Body(name) ==
    CASE name \in {"Get", "Update", "Remove"} -> "find"
      [] name = "Insert" -> "insert"
      [] name = "Entries" -> "first"

Lock(c) ==
    /\ At(c, "lock")
    /\ \/ /\ Exclusive(call[c])
          /\ writer = NULL /\ readers = {}
          /\ writer' = c
          /\ UNCHANGED readers
       \/ /\ ~Exclusive(call[c])
          /\ writer = NULL
          /\ readers' = readers \cup {c}
          /\ UNCHANGED writer
    /\ GoTo(c, Body(call[c]))
    /\ UNCHANGED <<kind, mapVars, accessor, calls, call, key, n, localVars, answer>>

\* The map compares keys with an entry whose key copy is freed.
MeetsFreedKey(k) == table[k] \in freed

\* The result of find() can be taken: in tbb_rand the accessor waits for the
\* entry's lock.
Accessible_Always(e) == TRUE
Accessible(e) == kind = "tbb_rand" => accessor[e] = NULL

\* table_.find(String::Wrap(key)).
Find(c) ==
    LET e == table[key[c]] IN
    /\ At(c, "find")
    /\ \/ /\ MeetsFreedKey(key[c])
          /\ GoTo(c, "undefined")
          /\ UNCHANGED <<accessor, entry, answer>>
       \/ /\ e = NULL
          /\ Answer(c, NULL)
          /\ GoTo(c, "unlock")
          /\ UNCHANGED <<accessor, entry>>
       \/ /\ e # NULL /\ ~MeetsFreedKey(key[c]) /\ Accessible(e)
          /\ entry' = [entry EXCEPT ![c] = e]
          /\ accessor' = IF kind = "tbb_rand" THEN [accessor EXCEPT ![e] = c] ELSE accessor
          /\ GoTo(c, IF call[c] = "Remove" THEN "free" ELSE "read")
          /\ UNCHANGED answer
    /\ UNCHANGED <<kind, mapVars, readers, writer, calls, call, key, n, old, pos, pairs, before>>

\* "return ...->second" of Get, "old = ...->second" of Update and Remove.
ReadValue(c) ==
    /\ At(c, "read")
    /\ IF call[c] = "Get"
       THEN /\ Answer(c, value[entry[c]])
            /\ GoTo(c, "unlock")
            /\ UNCHANGED old
       ELSE /\ old' = [old EXCEPT ![c] = value[entry[c]]]
            /\ GoTo(c, IF call[c] = "Update" THEN "write" ELSE "erase")
            /\ UNCHANGED answer
    /\ UNCHANGED <<kind, mapVars, lockVars, calls, call, key, n, entry, pos, pairs, before>>

\* "...->second = value".
WriteValue(c) ==
    /\ At(c, "write")
    /\ value' = [value EXCEPT ![entry[c]] = Id(c)]
    /\ Answer(c, old[c])
    /\ GoTo(c, "unlock")
    /\ UNCHANGED <<kind, table, freed, leaked, lockVars, calls, call, key, n, localVars>>

\* String::Copy and table_.insert, which keeps an entry that exists; then
\* nobody owns the copy.
InsertEntry(c) ==
    LET e == table[key[c]] IN
    /\ At(c, "insert")
    /\ \/ /\ MeetsFreedKey(key[c])
          /\ GoTo(c, "undefined")
          /\ UNCHANGED <<table, value, leaked, answer>>
       \/ /\ e = NULL
          /\ table' = [table EXCEPT ![key[c]] = Id(c)]
          /\ value' = [value EXCEPT ![Id(c)] = Id(c)]
          /\ Answer(c, TRUE)
          /\ GoTo(c, "unlock")
          /\ UNCHANGED leaked
       \/ /\ e # NULL /\ ~MeetsFreedKey(key[c])
          /\ leaked' = leaked \cup {Id(c)}
          /\ Answer(c, FALSE)
          /\ GoTo(c, "unlock")
          /\ UNCHANGED <<table, value>>
    /\ UNCHANGED <<kind, freed, lockVars, calls, call, key, n, localVars>>

\* Remove frees the entry's key copy before it erases the entry.
FreeKey(c) ==
    /\ At(c, "free")
    /\ freed' = freed \cup {entry[c]}
    /\ GoTo(c, "read")
    /\ UNCHANGED <<kind, table, value, leaked, lockVars, calls, call, key, n, localVars, answer>>

\* table_.erase or unsafe_erase; the entry is found by its address.
Erase(c) ==
    /\ At(c, "erase")
    /\ table' = [table EXCEPT ![key[c]] = NULL]
    /\ Answer(c, old[c])
    /\ GoTo(c, "unlock")
    /\ UNCHANGED <<kind, value, freed, leaked, lockVars, calls, call, key, n, localVars>>

\* The first key present from k on, or End.
Seek_Twice(k) == Min({j \in Present : j > k} \cup {End})
Seek(k) == Min({j \in Present : j >= k} \cup {End})

\* Entries starts at the given key, or at its end when there is no such key.
First(c) ==
    /\ At(c, "first")
    /\ pos' = [pos EXCEPT ![c] = IF key[c] = 0 THEN Seek(1)
                                 ELSE IF key[c] \in Present THEN key[c] ELSE End]
    /\ before' = [before EXCEPT ![c] = Present]
    /\ GoTo(c, "iterate")
    /\ UNCHANGED <<kind, mapVars, lockVars, calls, call, key, n, entry, old, pairs, answer>>

\* One turn of the loop of Entries, or its end.
Continues(c) == pos[c] # End /\ Len(pairs[c]) < n[c]
Iterate(c) ==
    /\ At(c, "iterate")
    /\ IF Continues(c)
       THEN /\ pairs' = [pairs EXCEPT ![c] = Append(@, <<pos[c], value[table[pos[c]]]>>)]
            /\ pos' = [pos EXCEPT ![c] = Seek(pos[c] + 1)]
            /\ UNCHANGED pc
       ELSE GoTo(c, "unlock") /\ UNCHANGED <<pairs, pos>>
    /\ UNCHANGED <<kind, mapVars, lockVars, calls, call, key, n, entry, old, before, answer>>

\* The call returns and its locals are gone.
Return(c) ==
    /\ GoTo(c, "idle")
    /\ key' = [key EXCEPT ![c] = 0]
    /\ n' = [n EXCEPT ![c] = 0]
    /\ entry' = [entry EXCEPT ![c] = NULL]
    /\ old' = [old EXCEPT ![c] = NULL]
    /\ pos' = [pos EXCEPT ![c] = End]
    /\ pairs' = [pairs EXCEPT ![c] = <<>>]
    /\ before' = [before EXCEPT ![c] = {}]

\* The destructors at the end of a call: lock is declared last and goes first,
\* an accessor that found an entry after it.
Unlock(c) ==
    /\ At(c, "unlock")
    /\ readers' = readers \ {c}
    /\ writer' = IF writer = c THEN NULL ELSE writer
    /\ IF kind = "tbb_rand" /\ entry[c] # NULL
       THEN GoTo(c, "release") /\ UNCHANGED <<key, n, localVars>>
       ELSE Return(c)
    /\ UNCHANGED <<kind, mapVars, accessor, calls, call, answer>>

Released_Kept(c) == accessor
Released(c) == [accessor EXCEPT ![entry[c]] = NULL]
Release(c) ==
    /\ At(c, "release")
    /\ accessor' = Released(c)
    /\ Return(c)
    /\ UNCHANGED <<kind, mapVars, readers, writer, calls, call, answer>>

Client(c) ==
    \/ Begin(c) \/ Lock(c) \/ Find(c) \/ ReadValue(c) \/ WriteValue(c) \/ InsertEntry(c)
    \/ FreeKey(c) \/ Erase(c) \/ First(c) \/ Iterate(c) \/ Unlock(c) \/ Release(c)

\* Every client has made its calls, or the behaviour is undefined.
Stopped ==
    /\ Defined => \A c \in Clients : pc[c] = "idle" /\ calls[c] = MaxCalls
    /\ UNCHANGED vars

Next == (\E c \in Clients : Client(c)) \/ Stopped

Spec == Init /\ [][Next]_vars

\* Threads are scheduled, and a lock that is free is obtained.
FairSpec == Spec /\ \A c \in Clients : WF_vars(Client(c))

-----------------------------------------------------------------------------
(***************************************************************************)
(* Properties.                                                             *)
(***************************************************************************)

\* The calls other than Entries are atomic, with the answers of one map,
\* under any interleaving and for each of the three ways of locking.
Atomic == INSTANCE AtomicHashtable WITH
    Values <- Ids,
    store <- [k \in Keys |-> IF table[k] = NULL THEN NULL ELSE value[table[k]]]
ImplementsAtomic == Atomic!Spec

\* An entry owns its key copy until the one Remove that erases it: copies are
\* neither freed under an entry nor freed twice, and the only ones without an
\* owner come from Inserts that found the key.  No lookup compares a freed copy,
\* although Remove frees it while the entry is in the map: nobody else can look at
\* it.  In tbb_rand they can, as long as keys are removed.
KeyCopiesOwned ==
    /\ \A k \in Present : table[k] \in freed =>
          Cardinality({c \in Clients : entry[c] = table[k] /\ call[c] = "Remove"
                                         /\ pc[c] \in {"read", "erase"}}) = 1
    /\ leaked \cap (freed \cup {table[k] : k \in Present}) = {}
    /\ (\E c \in Clients : pc[c] = "undefined") =>
          kind = "tbb_rand" /\ \E c \in Clients : call[c] = "Remove" /\ pc[c] \in {"read", "erase"}

\* Entries returns each entry that was there when it began, in order, once,
\* with its present value, up to n of them; Inserts may add to them meanwhile.
EntriesComplete ==
    \A c \in Clients : pc[c] = "unlock" /\ call[c] = "Entries" =>
        LET found == {pairs[c][i][1] : i \in DOMAIN pairs[c]}
            due == IF key[c] \in before[c] \cup {0} THEN {k \in before[c] : k >= key[c]} ELSE {}
        IN  /\ \A i, j \in DOMAIN pairs[c] : i < j => pairs[c][i][1] < pairs[c][j][1]
            /\ \A i \in DOMAIN pairs[c] :
                  /\ pairs[c][i][1] \in Present
                  /\ pairs[c][i][2] = value[table[pairs[c][i][1]]]
            /\ Len(pairs[c]) <= n[c]
            /\ Len(pairs[c]) < n[c] => due \subseteq found

\* Every call ends: nobody waits for ever for a lock or an accessor.
CallsEnd == \A c \in Clients : pc[c] # "idle" ~> pc[c] = "idle" \/ ~Defined
=============================================================================
