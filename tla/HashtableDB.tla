---------------------------- MODULE HashtableDB -----------------------------
(***************************************************************************)
(* The in-memory databases: db/hashtable_db.cc with its three subclasses   *)
(* (lock_stl_db.h, tbb_rand_db.h, tbb_scan_db.h).                          *)
(*                                                                         *)
(* A database is a hashtable from keys to field tables, and a field table  *)
(* is a hashtable from fields to C strings.  Every operation of one        *)
(* hashtable is atomic (see StringHashtable); an operation of the          *)
(* database is several of them, between which the pointers it has          *)
(* obtained are unprotected.  Field tables and strings live on the heap    *)
(* and are freed explicitly, so the model follows each of them: a heap     *)
(* object is named by the call that allocated it, and is never reused.     *)
(* A call that touches a freed object has undefined behaviour; its client  *)
(* stops at "undefined".                                                   *)
(***************************************************************************)
EXTENDS Integers, FiniteSets, FiniteSetsExt

CONSTANTS
    Clients,       \* client threads
    Keys,          \* record keys
    NumFields,     \* field_count_
    MaxCalls,      \* bound: calls per client
    Workloads,     \* what the clients may do, see WorkloadsAssumption
    NULL           \* the null pointer

CallNames == {"Read", "Scan", "Update", "Insert", "Delete"}
Fields == 0..(NumFields - 1)

ASSUME SizesAssumption == /\ NumFields \in Nat \ {0}
                          /\ MaxCalls \in Nat
\* The calls of a workload and how many a client makes, and for each client the
\* keys it inserts, updates and deletes, and the keys it reads and scans.
ASSUME WorkloadsAssumption ==
    Workloads \subseteq [calls : SUBSET CallNames, max : 0..MaxCalls,
                         write : [Clients -> SUBSET Keys], read : [Clients -> SUBSET Keys]]

kOK == 0
kErrorNoData == 1
kErrorConflict == 2

\* Heap objects, named by the call (client and number) that allocates them.
Tables == Clients \X (1..MaxCalls)
Strings == Clients \X (1..MaxCalls) \X Fields
ASSUME NullAssumption == NULL \notin Tables \cup Strings

VARIABLES
    workload,      \* the workload the program runs
    key_table,     \* key_table_: the field table of each key
    tables,        \* the contents of the field tables
    allocated,     \* tables and strings ever allocated
    freed,         \* those deleted since
    pc,            \* where each client is in its call
    calls,         \* how many calls each client has made
    call,          \* the name of the call in progress
    key,           \* its key (NULL before the first call)
    todo,          \* the fields it has still to process
    field_table,   \* its local field_table
    queue,         \* field tables it has still to list
    held,          \* string pointers it has obtained and not yet dereferenced
    result,        \* strings copied into the result
    ret            \* what its last call returned

heapVars == <<key_table, tables, allocated, freed>>
vars == <<workload, key_table, tables, allocated, freed, pc, calls, call, key, todo,
          field_table, queue, held, result, ret>>

Init ==
    /\ workload \in Workloads
    /\ key_table = [k \in Keys |-> NULL]
    /\ tables = [t \in Tables |-> [f \in Fields |-> NULL]]
    /\ allocated = {}
    /\ freed = {}
    /\ pc = [c \in Clients |-> "idle"]
    /\ calls = [c \in Clients |-> 0]
    /\ call = [c \in Clients |-> "Read"]
    /\ key = [c \in Clients |-> NULL]
    /\ todo = [c \in Clients |-> {}]
    /\ field_table = [c \in Clients |-> NULL]
    /\ queue = [c \in Clients |-> {}]
    /\ held = [c \in Clients |-> {}]
    /\ result = [c \in Clients |-> {}]
    /\ ret = [c \in Clients |-> kOK]

-----------------------------------------------------------------------------
\* The table and the strings the current call of client c allocates.
NewTable(c) == <<c, calls[c]>>
NewString(c, f) == <<c, calls[c], f>>

\* The strings a field table points to, and the next field of the values vector.
Entries(t) == {tables[t][f] : f \in Fields} \ {NULL}
NextField(c) == Min(todo[c])
RestOf_None(c) == {}
RestOf(c) == todo[c] \ {NextField(c)}

\* An Insert finds field f of table t taken: it deletes its own copy.
Conflict_DeletesOld(c, t, f) == freed' = freed \cup {tables[t][f]} /\ UNCHANGED tables
Conflict_Replaces(c, t, f) ==
    /\ freed' = freed \cup {tables[t][f]}
    /\ tables' = [tables EXCEPT ![t][f] = NewString(c, f)]
Conflict(c, t, f) == freed' = freed \cup {NewString(c, f)} /\ UNCHANGED tables

GoTo(c, to) == pc' = [pc EXCEPT ![c] = to]

\* "return r".
Return(c, r) ==
    /\ GoTo(c, "idle")
    /\ ret' = [ret EXCEPT ![c] = r]

\* The call touches memory that has been freed.
Undefined(c) ==
    /\ GoTo(c, "undefined")
    /\ UNCHANGED <<heapVars, calls, call, key, todo, field_table, queue, held, result, ret>>

\* Where each call starts.
Entry(name) ==
    CASE name \in {"Read", "Update", "Insert"} -> "get"
      [] name = "Scan" -> "scan"
      [] name = "Delete" -> "remove"

\* The fields a call works on.  Insert writes all of them (BuildValues),
\* Update all of them or one (BuildUpdate); Read lists the whole table
\* (fields == NULL, the empty set here) or looks up one field.
FieldsOf(name) ==
    CASE name = "Insert" -> {Fields}
      [] name = "Update" -> {Fields} \cup {{f} : f \in Fields}
      [] name \in {"Read", "Scan"} -> {{}} \cup {{f} : f \in Fields}
      [] name = "Delete" -> {{}}

Begin(c) ==
    /\ pc[c] = "idle"
    /\ calls[c] < workload.max
    /\ \E name \in workload.calls :
          /\ \E k \in IF name \in {"Read", "Scan"} THEN workload.read[c] ELSE workload.write[c] :
                key' = [key EXCEPT ![c] = k]
          /\ \E fs \in FieldsOf(name) : todo' = [todo EXCEPT ![c] = fs]
          /\ call' = [call EXCEPT ![c] = name]
          /\ GoTo(c, Entry(name))
    /\ calls' = [calls EXCEPT ![c] = @ + 1]
    /\ field_table' = [field_table EXCEPT ![c] = NULL]
    /\ queue' = [queue EXCEPT ![c] = {}]
    /\ held' = [held EXCEPT ![c] = {}]
    /\ result' = [result EXCEPT ![c] = {}]
    /\ UNCHANGED <<heapVars, ret>>

\* "field_table = key_table_->Get(key_index)", the first step of Read,
\* Update and Insert.
Get(c) ==
    LET t == key_table[key[c]] IN
    /\ pc[c] = "get"
    /\ field_table' = [field_table EXCEPT ![c] = t]
    /\ \/ /\ call[c] = "Read" /\ t = NULL
          /\ Return(c, kErrorNoData)
          /\ UNCHANGED queue
       \/ /\ call[c] = "Read" /\ t # NULL
          /\ queue' = [queue EXCEPT ![c] = {t}]
          /\ GoTo(c, "list")
          /\ UNCHANGED ret
       \/ /\ call[c] # "Read"
          /\ GoTo(c, IF t = NULL THEN "publish"
                     ELSE IF call[c] = "Insert" THEN "insertField" ELSE "updateField")
          /\ UNCHANGED <<queue, ret>>
    /\ UNCHANGED <<heapVars, calls, call, key, todo, held, result>>

\* NewFieldHashtable() and "key_table_->Insert(key_index, field_table)", whose
\* answer is ignored: when the key has appeared since Get, the call goes on
\* with a table nobody else can reach.
Publish(c) ==
    /\ pc[c] = "publish"
    /\ allocated' = allocated \cup {NewTable(c)}
    /\ key_table' = IF key_table[key[c]] = NULL
                    THEN [key_table EXCEPT ![key[c]] = NewTable(c)] ELSE key_table
    /\ field_table' = [field_table EXCEPT ![c] = NewTable(c)]
    /\ GoTo(c, "insertField")
    /\ UNCHANGED <<tables, freed, calls, call, key, todo, queue, held, result, ret>>

\* CopyString and "field_table->Insert(field, value)" for the next field.  A
\* field that exists makes Insert give up; Update ignores the answer.
InsertField(c) ==
    LET t == field_table[c]
        f == NextField(c)
        s == NewString(c, f)
        rest == RestOf(c)
    IN  /\ pc[c] = "insertField"
        /\ \/ t \in freed /\ Undefined(c)
           \/ /\ t \notin freed
              /\ allocated' = allocated \cup {s}
              /\ \/ /\ tables[t][f] = NULL
                    /\ tables' = [tables EXCEPT ![t][f] = s]
                    /\ todo' = [todo EXCEPT ![c] = rest]
                    /\ IF rest = {} THEN Return(c, kOK) ELSE UNCHANGED <<pc, ret>>
                    /\ UNCHANGED freed
                 \/ /\ tables[t][f] # NULL /\ call[c] = "Insert"
                    /\ Conflict(c, t, f)
                    /\ Return(c, kErrorConflict)
                    /\ UNCHANGED todo
                 \/ /\ tables[t][f] # NULL /\ call[c] = "Update"
                    /\ todo' = [todo EXCEPT ![c] = rest]
                    /\ IF rest = {} THEN Return(c, kOK) ELSE UNCHANGED <<pc, ret>>
                    /\ UNCHANGED <<tables, freed>>
              /\ UNCHANGED <<key_table, calls, call, key, field_table, queue, held, result>>

\* CopyString and "old = field_table->Update(field, value)".
UpdateField(c) ==
    LET t == field_table[c]
        f == NextField(c)
        s == NewString(c, f)
        old == tables[t][f]
    IN  /\ pc[c] = "updateField"
        /\ \/ t \in freed /\ Undefined(c)
           \/ /\ t \notin freed
              /\ allocated' = allocated \cup {s}
              /\ \/ /\ old = NULL
                    /\ GoTo(c, "insertMissing")
                    /\ UNCHANGED <<tables, held>>
                 \/ /\ old # NULL
                    /\ tables' = [tables EXCEPT ![t][f] = s]
                    /\ held' = [held EXCEPT ![c] = {old}]
                    /\ GoTo(c, "deleteOld")
              /\ UNCHANGED <<key_table, freed, calls, call, key, todo, field_table, queue,
                             result, ret>>

\* The next field of an Update, or its end.
NextUpdate(c) ==
    LET rest == RestOf(c)
    IN  /\ todo' = [todo EXCEPT ![c] = rest]
        /\ IF rest = {} THEN Return(c, kOK) ELSE GoTo(c, "updateField") /\ UNCHANGED ret

\* "field_table->Insert(field, value)" after an Update that found no field;
\* the answer is ignored.
InsertMissing(c) ==
    LET t == field_table[c]
        f == NextField(c)
    IN  /\ pc[c] = "insertMissing"
        /\ \/ t \in freed /\ Undefined(c)
           \/ /\ t \notin freed
              /\ tables' = IF tables[t][f] = NULL
                           THEN [tables EXCEPT ![t][f] = NewString(c, f)] ELSE tables
              /\ NextUpdate(c)
              /\ UNCHANGED <<key_table, allocated, freed, calls, call, key, field_table,
                             queue, held, result>>

\* DeleteString(old).
DeleteOld(c) ==
    /\ pc[c] = "deleteOld"
    /\ \/ held[c] \cap freed # {} /\ Undefined(c)
       \/ /\ held[c] \cap freed = {}
          /\ freed' = freed \cup held[c]
          /\ held' = [held EXCEPT ![c] = {}]
          /\ NextUpdate(c)
          /\ UNCHANGED <<key_table, tables, allocated, calls, call, key, field_table, queue,
                         result>>

\* "key_table_->Entries(key_index, len)": the record of the key, when there
\* is one, and any others that follow it in the table's order.
ScanKeys(c) ==
    LET present == {k \in Keys : key_table[k] # NULL} IN
    /\ pc[c] = "scan"
    /\ IF key[c] \in present
       THEN \E found \in SUBSET present :
               /\ key[c] \in found
               /\ queue' = [queue EXCEPT ![c] = {key_table[k] : k \in found}]
               /\ GoTo(c, "list")
               /\ UNCHANGED ret
       ELSE Return(c, kOK) /\ UNCHANGED queue
    /\ UNCHANGED <<heapVars, calls, call, key, todo, field_table, held, result>>

\* "field_table->Entries()" or "field_table->Get(field)" on the next table:
\* the pointers leave the hashtable's lock.
ListFields(c) ==
    /\ pc[c] = "list"
    /\ \E t \in queue[c] :
          \/ t \in freed /\ Undefined(c)
          \/ /\ t \notin freed
             /\ held' = [held EXCEPT ![c] = IF todo[c] = {} THEN Entries(t)
                                            ELSE {tables[t][f] : f \in todo[c]} \ {NULL}]
             /\ queue' = [queue EXCEPT ![c] = @ \ {t}]
             /\ GoTo(c, "copy")
             /\ UNCHANGED <<heapVars, calls, call, key, todo, field_table, result, ret>>

\* The pairs are pushed into the result: a pointer is dereferenced.
CopyValue(c) ==
    /\ pc[c] = "copy"
    /\ \E s \in held[c] :
          \/ s \in freed /\ Undefined(c)
          \/ /\ s \notin freed
             /\ result' = [result EXCEPT ![c] = @ \cup {s}]
             /\ held' = [held EXCEPT ![c] = @ \ {s}]
             /\ UNCHANGED <<heapVars, pc, calls, call, key, todo, field_table, queue, ret>>

\* A table is done: the next one, or "return kOK".
EndList(c) ==
    /\ pc[c] = "copy"
    /\ held[c] = {}
    /\ IF queue[c] = {} THEN Return(c, kOK) ELSE GoTo(c, "list") /\ UNCHANGED ret
    /\ UNCHANGED <<heapVars, calls, call, key, todo, field_table, queue, held, result>>

\* "key_table_->Remove(key_index)".
Remove(c) ==
    LET t == key_table[key[c]] IN
    /\ pc[c] = "remove"
    /\ key_table' = [key_table EXCEPT ![key[c]] = NULL]
    /\ field_table' = [field_table EXCEPT ![c] = t]
    /\ IF t = NULL THEN Return(c, kErrorNoData) ELSE GoTo(c, "listDeleted") /\ UNCHANGED ret
    /\ UNCHANGED <<tables, allocated, freed, calls, call, key, todo, queue, held, result>>

\* DeleteFieldHashtable: "table->Entries()", DeleteString on each, "delete
\* table".  Only the call that removed the table deletes it.
ListDeleted(c) ==
    /\ pc[c] = "listDeleted"
    /\ held' = [held EXCEPT ![c] = Entries(field_table[c])]
    /\ GoTo(c, "deleteTable")
    /\ UNCHANGED <<heapVars, calls, call, key, todo, field_table, queue, result, ret>>

DeleteStrings(c) ==
    /\ pc[c] = "deleteTable"
    /\ \E s \in held[c] :
          \/ s \in freed /\ Undefined(c)
          \/ /\ s \notin freed
             /\ freed' = freed \cup {s}
             /\ held' = [held EXCEPT ![c] = @ \ {s}]
             /\ UNCHANGED <<key_table, tables, allocated, pc, calls, call, key, todo,
                            field_table, queue, result, ret>>

DeleteTable(c) ==
    /\ pc[c] = "deleteTable"
    /\ held[c] = {}
    /\ freed' = freed \cup {field_table[c]}
    /\ Return(c, kOK)
    /\ UNCHANGED <<key_table, tables, allocated, calls, call, key, todo, field_table,
                   queue, held, result>>

Client(c) ==
    /\ \/ Begin(c) \/ Get(c) \/ Publish(c) \/ InsertField(c)
       \/ UpdateField(c) \/ InsertMissing(c) \/ DeleteOld(c)
       \/ ScanKeys(c) \/ ListFields(c) \/ CopyValue(c) \/ EndList(c)
       \/ Remove(c) \/ ListDeleted(c) \/ DeleteStrings(c) \/ DeleteTable(c)
    /\ UNCHANGED workload

\* The heap objects the database owns.
RecordTables == {key_table[k] : k \in Keys} \ {NULL}
Reachable == RecordTables \cup UNION {Entries(t) : t \in RecordTables}

\* "delete db" at the end of main(), when every client thread has returned:
\* the destructor deletes the field tables it finds in key_table_.
Destroy ==
    /\ \A c \in Clients : pc[c] = "idle" /\ calls[c] = workload.max
    /\ freed' = freed \cup Reachable
    /\ key_table' = [k \in Keys |-> NULL]
    /\ pc' = [c \in Clients |-> "destroyed"]
    /\ UNCHANGED <<workload, tables, allocated, calls, call, key, todo, field_table, queue,
                   held, result, ret>>

\* The program is over, or some client has run into undefined behaviour.
Stopped ==
    /\ \A c \in Clients : \/ pc[c] \in {"destroyed", "undefined"}
                          \/ pc[c] = "idle" /\ calls[c] = workload.max /\ \E d \in Clients : pc[d] = "undefined"
    /\ UNCHANGED vars

Next == (\E c \in Clients : Client(c)) \/ Destroy \/ Stopped

Spec == Init /\ [][Next]_vars

-----------------------------------------------------------------------------
(***************************************************************************)
(* Properties.                                                             *)
(***************************************************************************)

\* No call dereferences or deletes a field table or a string that another
\* call has deleted.
NoUseAfterFree == \A c \in Clients : pc[c] # "undefined"

\* The clients write different keys.
OwnWrites ==
    \A c \in Clients : \A d \in Clients \ {c} : workload.write[c] \cap workload.write[d] = {}

\* No client uses a key that another one writes, which a Scan may always do.
ExclusiveKeys ==
    /\ OwnWrites /\ "Scan" \notin workload.calls
    /\ \A c \in Clients : \A d \in Clients \ {c} : workload.write[c] \cap workload.read[d] = {}

\* No record points to freed memory, whatever the calls in progress have done;
\* and when the clients write different keys, everything allocated and not freed
\* belongs to a record between calls, so that nothing is left after the destructor.
HeapConsistent ==
    /\ Reachable \cap freed = {}
    /\ OwnWrites /\ (\A c \in Clients : pc[c] \in {"idle", "destroyed"})
       => allocated \ freed = Reachable

\* Nothing is replaced or removed.
InsertOnly == workload.calls \cap {"Update", "Delete"} = {}

\* Reads and Scans may overlap the Inserts of other clients: without Updates and
\* Deletes no call touches freed memory, and an Insert that answered kOK has left
\* all its values in the record, if no other client writes the key.
InsertsAreSafe ==
    InsertOnly =>
        /\ NoUseAfterFree
        /\ \A c \in Clients :
              /\ pc[c] = "idle" /\ calls[c] > 0 /\ call[c] = "Insert" /\ ret[c] = kOK
              /\ \A d \in Clients \ {c} : key[c] \notin workload.write[d]
              => \A f \in Fields : tables[key_table[key[c]]][f] = NewString(c, f)
=============================================================================
