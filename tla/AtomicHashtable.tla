-------------------------- MODULE AtomicHashtable ---------------------------
(***************************************************************************)
(* What lib/string_hashtable.h declares and db/hashtable_db.cc relies on:  *)
(* a map from keys to values whose operations are atomic.  Entries, which  *)
(* does not change the map, is a separate matter (see StringHashtable).    *)
(***************************************************************************)
CONSTANTS Clients, Keys, Values, NULL

VARIABLES store,    \* the value of each key
          answer    \* name and result of each client's last operation

Init ==
    /\ store = [k \in Keys |-> NULL]
    /\ answer = [c \in Clients |-> <<"none", NULL>>]

Answer(c, name, r) == answer' = [answer EXCEPT ![c] = <<name, r>>]

Get(c, k) == Answer(c, "Get", store[k]) /\ UNCHANGED store

\* Keeps the old value of a key that has one.
Insert(c, k) ==
    \/ /\ store[k] = NULL
       /\ \E v \in Values : store' = [store EXCEPT ![k] = v]
       /\ Answer(c, "Insert", TRUE)
    \/ /\ store[k] # NULL
       /\ Answer(c, "Insert", FALSE)
       /\ UNCHANGED store

\* Replaces the value of a key that has one, and returns the old one.
Update(c, k) ==
    /\ Answer(c, "Update", store[k])
    /\ \/ store[k] = NULL /\ UNCHANGED store
       \/ store[k] # NULL /\ \E v \in Values : store' = [store EXCEPT ![k] = v]

Remove(c, k) ==
    /\ Answer(c, "Remove", store[k])
    /\ store' = [store EXCEPT ![k] = NULL]

Next == \E c \in Clients, k \in Keys :
            Get(c, k) \/ Insert(c, k) \/ Update(c, k) \/ Remove(c, k)

Spec == Init /\ [][Next]_<<store, answer>>
=============================================================================
