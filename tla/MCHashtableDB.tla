---------------------------- MODULE MCHashtableDB ---------------------------
(***************************************************************************)
(* Instances of HashtableDB for TLC: workloads of two clients.             *)
(***************************************************************************)
EXTENDS HashtableDBHistory, TLC

CONSTANTS c1, c2, k1, k2

OwnKeys == (c1 :> {k1}) @@ (c2 :> {k2})
AllKeys == [c \in Clients |-> Keys]
OneKey == [c \in Clients |-> {k1}]

\* Each client writes its own key; the first reads its own, the second nothing.
Owned == [calls |-> {"Read", "Update", "Insert", "Delete"}, max |-> 3,
          write |-> OwnKeys, read |-> (c1 :> {k1}) @@ (c2 :> {})]

\* Inserts of own keys read by everyone; and every call on one key.
Inserts == [calls |-> {"Insert", "Read", "Scan"}, max |-> 2, write |-> OwnKeys, read |-> AllKeys]
Shared == [calls |-> CallNames, max |-> 2, write |-> OneKey, read |-> OneKey]

AllWorkloads == {Owned, Inserts, Shared}

ReadUpdate == {[calls |-> {"Read", "Update"}, max |-> 2, write |-> OneKey, read |-> OneKey]}
=============================================================================
