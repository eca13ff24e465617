------------------------------ MODULE KVStore -------------------------------
(***************************************************************************)
(* What the DB interface (core/db.h) promises of the in-memory databases,  *)
(* as a specification with one atomic action per call: a record is a       *)
(* function from fields to values (NULL where a field has no value), or    *)
(* NULL when the key has no record.  HashtableDBHistory maps HashtableDB   *)
(* to it.                                                                  *)
(***************************************************************************)
EXTENDS Integers, FiniteSetsExt

CONSTANTS Clients, Keys, Fields, Values, NULL

VARIABLES store,    \* the record of each key
          reply     \* name, return code and result of each client's last call

kOK == 0
kErrorNoData == 1
kErrorConflict == 2

NoFields == [f \in Fields |-> NULL]

Init ==
    /\ store = [k \in Keys |-> NULL]
    /\ reply = [c \in Clients |-> <<"none", kOK, {}>>]

Reply(c, name, code, values) == reply' = [reply EXCEPT ![c] = <<name, code, values>>]

\* The values of the given fields in record r.
Select(r, fs) == {r[f] : f \in fs} \ {NULL}

\* Record r (which may be missing) with the fields in the domain of v set.
Merge(r, v) ==
    LET base == IF r = NULL THEN NoFields ELSE r
    IN  [f \in Fields |-> IF f \in DOMAIN v THEN v[f] ELSE base[f]]

\* Read all the fields of a record, or one.
Read(c, k) ==
    /\ IF store[k] = NULL
       THEN Reply(c, "Read", kErrorNoData, {})
       ELSE \E fs \in {Fields} \cup {{f} : f \in Fields} : Reply(c, "Read", kOK, Select(store[k], fs))
    /\ UNCHANGED store

\* Write all the fields of a record or one, creating the record if needed.
Update(c, k) ==
    /\ \E fs \in {Fields} \cup {{f} : f \in Fields} : \E v \in [fs -> Values] :
          store' = [store EXCEPT ![k] = Merge(@, v)]
    /\ Reply(c, "Update", kOK, {})

\* Write all the fields of a new record; the fields are written in order and
\* the first one that exists stops the call.
Insert(c, k) ==
    LET taken == IF store[k] = NULL THEN {} ELSE {f \in Fields : store[k][f] # NULL}
        fs == IF taken = {} THEN Fields ELSE {f \in Fields : f < Min(taken)}
    IN  /\ \E v \in [fs -> Values] : store' = [store EXCEPT ![k] = Merge(@, v)]
        /\ Reply(c, "Insert", IF taken = {} THEN kOK ELSE kErrorConflict, {})

Delete(c, k) ==
    /\ store' = [store EXCEPT ![k] = NULL]
    /\ Reply(c, "Delete", IF store[k] = NULL THEN kErrorNoData ELSE kOK, {})

Next == \E c \in Clients, k \in Keys :
            Read(c, k) \/ Update(c, k) \/ Insert(c, k) \/ Delete(c, k)

Spec == Init /\ [][Next]_<<store, reply>>
=============================================================================
