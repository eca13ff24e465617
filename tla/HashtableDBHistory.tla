------------------------- MODULE HashtableDBHistory -------------------------
(***************************************************************************)
(* HashtableDB with two history variables, and the refinement of KVStore.  *)
(* store and reply sample the record of the call's key and the answer when *)
(* a call returns; HashtableDB itself is unchanged.                        *)
(***************************************************************************)
EXTENDS HashtableDB

\* A record is not the null pointer.
ASSUME RecordsAssumption == NULL \notin [Fields -> Strings \cup {NULL}]

VARIABLES store, reply

historyVars == <<workload, key_table, tables, allocated, freed, pc, calls, call, key, todo,
                 field_table, queue, held, result, ret, store, reply>>

\* The record of key k as a client would read it now.
RecordOf(k) == IF key_table[k] = NULL THEN NULL ELSE tables[key_table[k]]

Returning(c) == pc[c] # "idle" /\ pc'[c] = "idle"

Sample(c) ==
    IF Returning(c)
    THEN /\ store' = [store EXCEPT ![key[c]] = RecordOf(key[c])']
         /\ reply' = [reply EXCEPT ![c] = <<call[c], ret'[c], result[c]>>]
    ELSE UNCHANGED <<store, reply>>

HistoryInit ==
    /\ Init
    /\ store = [k \in Keys |-> NULL]
    /\ reply = [c \in Clients |-> <<"none", kOK, {}>>]

HistoryNext ==
    \/ \E c \in Clients : Client(c) /\ Sample(c)
    \/ (Destroy \/ Stopped) /\ UNCHANGED <<store, reply>>

HistorySpec == HistoryInit /\ [][HistoryNext]_historyVars

KV == INSTANCE KVStore WITH Values <- Strings

\* As long as no client uses a key that another one writes and nobody scans, a
\* call of the database is atomic: each answer and each record is what one KVStore call gives,
\* although the code takes several steps for it.
ImplementsKVStore == KV!Init /\ [][ExclusiveKeys => KV!Next]_<<store, reply>>
=============================================================================
