--------------------------- MODULE HashtableProofs --------------------------
(***************************************************************************)
(* Proofs about the in-memory databases (HashtableDB), for any number of   *)
(* clients, keys, fields and calls and any workload: what becomes of the   *)
(* field tables and the strings the calls allocate.                        *)
(*                                                                         *)
(* A heap object is unborn until the call it is named by has put it where  *)
(* others find it; after that nobody puts it anywhere again.  So an object *)
(* that has left its place is the business of the call that took it away.  *)
(*                                                                         *)
(* The last part is the refinement of KVStore by HashtableDBHistory: what  *)
(* a call has done to its record by each of its steps, and that it leaves  *)
(* what one atomic call would have left.                                   *)
(***************************************************************************)
EXTENDS HashtableDBHistory, DataLemmas, TLAPS

Places == {"idle", "get", "publish", "insertField", "updateField", "insertMissing", "deleteOld",
           "scan", "list", "copy", "remove", "listDeleted", "deleteTable", "undefined", "destroyed"}

Codes == {kOK, kErrorNoData, kErrorConflict}

HeapTypes ==
    /\ key_table \in [Keys -> Tables \cup {NULL}]
    /\ tables \in [Tables -> [Fields -> Strings \cup {NULL}]]
    /\ allocated \in SUBSET (Tables \cup Strings)
    /\ freed \in SUBSET (Tables \cup Strings)

CallTypes ==
    /\ workload \in Workloads
    /\ pc \in [Clients -> Places] /\ calls \in [Clients -> 0..MaxCalls]
    /\ call \in [Clients -> CallNames] /\ key \in [Clients -> Keys \cup {NULL}]
    /\ todo \in [Clients -> SUBSET Fields] /\ ret \in [Clients -> Codes]

LocalTypes ==
    /\ field_table \in [Clients -> Tables \cup {NULL}]
    /\ queue \in [Clients -> SUBSET Tables]
    /\ held \in [Clients -> SUBSET Strings]

\* A call has a number and a key of the workload, and each step belongs to some calls.
Writers == {"Update", "Insert", "Delete"}
InTable == {"insertField", "updateField", "insertMissing", "deleteOld"}
Deleting == {"listDeleted", "deleteTable"}

CallAt(c) ==
    /\ pc[c] \notin {"idle", "destroyed"} => calls[c] > 0
    /\ calls[c] > 0 => /\ key[c] \in Keys /\ call[c] \in workload.calls
                       /\ call[c] \in Writers => key[c] \in workload.write[c]
    /\ pc[c] = "get" => call[c] \in {"Read", "Update", "Insert"}
    /\ pc[c] \in {"publish", "insertField"} => call[c] \in {"Update", "Insert"}
    /\ pc[c] \in {"updateField", "insertMissing", "deleteOld"} => call[c] = "Update"
    /\ pc[c] \in {"scan", "list", "copy"} => call[c] \in {"Read", "Scan"}
    /\ pc[c] = "remove" \/ pc[c] \in Deleting => call[c] = "Delete"

\* A call that writes fields has one to write, and a table to write it to.
FieldsAt(c) ==
    /\ pc[c] \in {"get", "publish"} /\ call[c] \in {"Update", "Insert"} => todo[c] # {}
    /\ pc[c] \in InTable => todo[c] # {} /\ field_table[c] \in Tables
    /\ pc[c] \in Deleting => field_table[c] \in Tables

TypeInv == /\ HeapTypes /\ CallTypes /\ LocalTypes
           /\ \A c \in Clients : CallAt(c) /\ FieldsAt(c)

\* A table is not a string.
LEMMA NamesDisjoint == Tables \cap Strings = {}
  <1>1. \A t \in Tables : DOMAIN t = 1..2
    BY DEF Tables
  <1>2. \A s \in Strings : DOMAIN s = 1..3
    BY DEF Strings
  <1>3. 3 \in 1..3 /\ 3 \notin 1..2
    OBVIOUS
  <1> QED
    BY <1>1, <1>2, <1>3

\* A call that has fields left takes one of them next.
LEMMA NextOfTodo ==
    ASSUME NEW c \in Clients, todo[c] \in SUBSET Fields, todo[c] # {}
    PROVE  NextField(c) \in todo[c] /\ RestOf(c) \in SUBSET Fields /\ NextField(c) \notin RestOf(c)
           /\ todo[c] = RestOf(c) \cup {NextField(c)}
  <1>1. Fields \in SUBSET Int /\ IsFiniteSet(Fields)
    BY SizesAssumption, FS_Interval DEF Fields
  <1>2. todo[c] \in SUBSET Int /\ IsFiniteSet(todo[c])
    BY <1>1, FS_Subset
  <1>3. \E x \in todo[c] : \A y \in todo[c] : x <= y
    BY <1>2, LeastElement
  <1>4. NextField(c) \in todo[c]
    BY <1>3 DEF NextField, Min
  <1> QED
    BY <1>4 DEF RestOf

\* What a call allocates has a name.
LEMMA NewNames ==
    ASSUME TypeInv, NEW c \in Clients, pc[c] \notin {"idle", "destroyed"}
    PROVE  calls[c] \in 1..MaxCalls /\ NewTable(c) \in Tables /\ NewTable(c) # NULL
           /\ \A f \in Fields : NewString(c, f) \in Strings /\ NewString(c, f) # NULL
  <1>1. calls[c] \in 1..MaxCalls
    BY SizesAssumption DEF TypeInv, CallTypes, CallAt
  <1> QED
    BY <1>1, NullAssumption DEF NewTable, NewString, Tables, Strings

\* What a client's step does to the tables: nothing, or it puts its string in the
\* next field of the table it works on.
Puts(c) ==
    /\ pc[c] \in {"insertField", "updateField", "insertMissing"}
    /\ tables' = [tables EXCEPT ![field_table[c]][NextField(c)] = NewString(c, NextField(c))]

LEMMA TableSteps ==
    ASSUME NEW c, Client(c)
    PROVE  tables' = tables \/ (Puts(c) /\ (InsertField(c) \/ UpdateField(c) \/ InsertMissing(c)))
  <1>1. CASE InsertField(c)
    BY <1>1 DEF InsertField, Conflict, Puts, Undefined, heapVars
  <1>2. CASE UpdateField(c) \/ InsertMissing(c)
    BY <1>2 DEF UpdateField, InsertMissing, Puts, Undefined, heapVars
  <1>3. CASE Begin(c) \/ Get(c) \/ Publish(c)
    BY <1>3 DEF Begin, Get, Publish, heapVars
  <1>4. CASE DeleteOld(c) \/ ScanKeys(c) \/ ListFields(c)
    BY <1>4 DEF DeleteOld, ScanKeys, ListFields, Undefined, heapVars
  <1>5. CASE CopyValue(c) \/ EndList(c) \/ Remove(c)
    BY <1>5 DEF CopyValue, EndList, Remove, Undefined, heapVars
  <1>6. CASE ListDeleted(c) \/ DeleteStrings(c) \/ DeleteTable(c)
    BY <1>6 DEF ListDeleted, DeleteStrings, DeleteTable, Undefined, heapVars
  <1> QED
    BY <1>1, <1>2, <1>3, <1>4, <1>5, <1>6 DEF Client

\* What it allocates: the table it publishes, the string of its next field.
LEMMA AllocationSteps ==
    ASSUME NEW c, Client(c)
    PROVE  \/ allocated' = allocated
           \/ Publish(c) /\ allocated' = allocated \cup {NewTable(c)}
           \/ (InsertField(c) \/ UpdateField(c)) /\ allocated' = allocated \cup {NewString(c, NextField(c))}
  <1>1. CASE InsertField(c)
    BY <1>1 DEF InsertField, Undefined, heapVars
  <1>2. CASE UpdateField(c) \/ InsertMissing(c)
    BY <1>2 DEF UpdateField, InsertMissing, Undefined, heapVars
  <1>3. CASE Begin(c) \/ Get(c) \/ Publish(c)
    BY <1>3 DEF Begin, Get, Publish, heapVars
  <1>4. CASE DeleteOld(c) \/ ScanKeys(c) \/ ListFields(c)
    BY <1>4 DEF DeleteOld, ScanKeys, ListFields, Undefined, heapVars
  <1>5. CASE CopyValue(c) \/ EndList(c) \/ Remove(c)
    BY <1>5 DEF CopyValue, EndList, Remove, Undefined, heapVars
  <1>6. CASE ListDeleted(c) \/ DeleteStrings(c) \/ DeleteTable(c)
    BY <1>6 DEF ListDeleted, DeleteStrings, DeleteTable, Undefined, heapVars
  <1> QED
    BY <1>1, <1>2, <1>3, <1>4, <1>5, <1>6 DEF Client

\* What it frees: the string of an Insert that finds its field taken, or what it
\* has taken away.
LEMMA FreeSteps ==
    ASSUME NEW c, Client(c)
    PROVE  \/ freed' = freed
           \/ InsertField(c) /\ tables' = tables /\ freed' = freed \cup {NewString(c, NextField(c))}
           \/ DeleteOld(c) /\ freed' = freed \cup held[c]
           \/ DeleteStrings(c) /\ \E s \in held[c] : freed' = freed \cup {s}
           \/ DeleteTable(c) /\ freed' = freed \cup {field_table[c]}
  <1>1. CASE InsertField(c)
    BY <1>1 DEF InsertField, Conflict, Undefined, heapVars
  <1>2. CASE UpdateField(c) \/ InsertMissing(c)
    BY <1>2 DEF UpdateField, InsertMissing, Undefined, heapVars
  <1>3. CASE Begin(c) \/ Get(c) \/ Publish(c)
    BY <1>3 DEF Begin, Get, Publish, heapVars
  <1>4. CASE DeleteOld(c) \/ ScanKeys(c) \/ ListFields(c)
    BY <1>4 DEF DeleteOld, ScanKeys, ListFields, Undefined, heapVars
  <1>5. CASE CopyValue(c) \/ EndList(c) \/ Remove(c)
    BY <1>5 DEF CopyValue, EndList, Remove, Undefined, heapVars
  <1>6. CASE ListDeleted(c) \/ DeleteStrings(c) \/ DeleteTable(c)
    BY <1>6 DEF ListDeleted, DeleteStrings, DeleteTable, Undefined, heapVars
  <1> QED
    BY <1>1, <1>2, <1>3, <1>4, <1>5, <1>6 DEF Client

\* What it does to the records: it publishes a table, or removes one.
LEMMA RecordSteps ==
    ASSUME NEW c, Client(c)
    PROVE  \/ key_table' = key_table
           \/ Publish(c) /\ key_table[key[c]] = NULL /\ key_table' = [key_table EXCEPT ![key[c]] = NewTable(c)]
           \/ Remove(c) /\ key_table' = [key_table EXCEPT ![key[c]] = NULL]
  <1>1. CASE InsertField(c)
    BY <1>1 DEF InsertField, Undefined, heapVars
  <1>2. CASE UpdateField(c) \/ InsertMissing(c)
    BY <1>2 DEF UpdateField, InsertMissing, Undefined, heapVars
  <1>3. CASE Begin(c) \/ Get(c) \/ Publish(c)
    BY <1>3 DEF Begin, Get, Publish, heapVars
  <1>4. CASE DeleteOld(c) \/ ScanKeys(c) \/ ListFields(c)
    BY <1>4 DEF DeleteOld, ScanKeys, ListFields, Undefined, heapVars
  <1>5. CASE CopyValue(c) \/ EndList(c) \/ Remove(c)
    BY <1>5 DEF CopyValue, EndList, Remove, Undefined, heapVars
  <1>6. CASE ListDeleted(c) \/ DeleteStrings(c) \/ DeleteTable(c)
    BY <1>6 DEF ListDeleted, DeleteStrings, DeleteTable, Undefined, heapVars
  <1> QED
    BY <1>1, <1>2, <1>3, <1>4, <1>5, <1>6 DEF Client

-----------------------------------------------------------------------------
(* Types *)

LEMMA HeapTypesKept == ASSUME TypeInv, NEW c \in Clients, Client(c) PROVE HeapTypes'
  <1> USE DEF HeapTypes
  <1>0. HeapTypes /\ FieldsAt(c) /\ CallAt(c) /\ todo[c] \in SUBSET Fields /\ held[c] \in SUBSET Strings
    BY DEF TypeInv, CallTypes, LocalTypes
  <1>1. key_table' \in [Keys -> Tables \cup {NULL}]
    <2>1. CASE Publish(c)
      BY <1>0, <2>1, NewNames DEF Publish
    <2> QED
      BY <1>0, <2>1, RecordSteps
  <1>2. tables' \in [Tables -> [Fields -> Strings \cup {NULL}]]
    <2>1. CASE Puts(c)
      <3> DEFINE f == NextField(c)
                 t == field_table[c]
                 s == NewString(c, f)
      <3>1. t \in Tables /\ f \in Fields /\ s \in Strings
        BY <1>0, <2>1, NewNames, NextOfTodo DEF Puts, FieldsAt, InTable
      <3>2. tables' = [tables EXCEPT ![t][f] = s]
        BY <2>1 DEF Puts
      <3> HIDE DEF f, t, s
      <3> QED
        BY <1>0, <3>1, <3>2
    <2> QED
      BY <1>0, <2>1, TableSteps
  <1>3. InsertField(c) \/ UpdateField(c) => NewString(c, NextField(c)) \in Strings
    BY <1>0, NewNames, NextOfTodo DEF InsertField, UpdateField, FieldsAt, InTable
  <1>4. allocated' \in SUBSET (Tables \cup Strings)
    <2>1. Publish(c) => NewTable(c) \in Tables
      BY NewNames DEF Publish
    <2> QED
      BY <1>0, <1>3, <2>1, AllocationSteps
  <1>5. freed' \in SUBSET (Tables \cup Strings)
    <2>1. DeleteTable(c) => field_table[c] \in Tables
      BY <1>0 DEF DeleteTable, FieldsAt, Deleting
    <2> QED
      BY <1>0, <1>3, <2>1, FreeSteps
  <1> QED
    BY <1>1, <1>2, <1>4, <1>5

\* The variables of a step's own client change alone.
LEMMA OwnSteps ==
    ASSUME TypeInv, NEW c \in Clients, Client(c)
    PROVE  /\ workload' = workload
           /\ \A d \in Clients \ {c} :
                 /\ pc'[d] = pc[d] /\ calls'[d] = calls[d] /\ call'[d] = call[d] /\ key'[d] = key[d]
                 /\ todo'[d] = todo[d] /\ field_table'[d] = field_table[d] /\ queue'[d] = queue[d]
                 /\ held'[d] = held[d] /\ ret'[d] = ret[d]
  <1> USE DEF TypeInv, CallTypes, LocalTypes, GoTo, Return
  <1>1. workload' = workload
    BY DEF Client
  <1>2. CASE Begin(c)
    BY <1>1, <1>2 DEF Begin
  <1>3. CASE Get(c) \/ Publish(c)
    BY <1>1, <1>3 DEF Get, Publish
  <1>4. CASE Undefined(c)
    BY <1>1, <1>4 DEF Undefined
  <1>5. CASE InsertField(c) /\ ~Undefined(c)
    BY <1>1, <1>5 DEF InsertField
  <1>6. CASE (UpdateField(c) \/ ScanKeys(c)) /\ ~Undefined(c)
    BY <1>1, <1>6 DEF UpdateField, ScanKeys
  <1>7. CASE (InsertMissing(c) \/ DeleteOld(c)) /\ ~Undefined(c)
    BY <1>1, <1>7 DEF InsertMissing, DeleteOld, NextUpdate
  <1>8. CASE (ListFields(c) \/ CopyValue(c) \/ EndList(c)) /\ ~Undefined(c)
    BY <1>1, <1>8 DEF ListFields, CopyValue, EndList
  <1>9. CASE (Remove(c) \/ ListDeleted(c)) /\ ~Undefined(c)
    BY <1>1, <1>9 DEF Remove, ListDeleted
  <1>10. CASE (DeleteStrings(c) \/ DeleteTable(c)) /\ ~Undefined(c)
    BY <1>1, <1>10 DEF DeleteStrings, DeleteTable
  <1> QED
    BY <1>2, <1>3, <1>4, <1>5, <1>6, <1>7, <1>8, <1>9, <1>10 DEF Client

LEMMA WorkloadTypes ==
    ASSUME workload \in Workloads, NEW c \in Clients
    PROVE  /\ workload.calls \subseteq CallNames /\ workload.max \in 0..MaxCalls
           /\ workload.write[c] \subseteq Keys /\ workload.read[c] \subseteq Keys
  BY WorkloadsAssumption

\* A call that begins.
LEMMA BeginEffect ==
    ASSUME TypeInv, NEW c \in Clients, Begin(c)
    PROVE  \E name \in workload.calls, k \in Keys, fs \in SUBSET Fields :
              /\ name \in Writers => k \in workload.write[c]
              /\ name \in {"Insert", "Update"} => fs # {}
              /\ name = "Insert" => fs = Fields
              /\ call' = [call EXCEPT ![c] = name] /\ key' = [key EXCEPT ![c] = k]
              /\ todo' = [todo EXCEPT ![c] = fs] /\ pc' = [pc EXCEPT ![c] = Entry(name)]
  <1>1. PICK name \in workload.calls :
           /\ \E k \in IF name \in {"Read", "Scan"} THEN workload.read[c] ELSE workload.write[c] :
                 key' = [key EXCEPT ![c] = k]
           /\ \E fs \in FieldsOf(name) : todo' = [todo EXCEPT ![c] = fs]
           /\ call' = [call EXCEPT ![c] = name] /\ pc' = [pc EXCEPT ![c] = Entry(name)]
    BY DEF Begin, GoTo
  <1>2. PICK k \in IF name \in {"Read", "Scan"} THEN workload.read[c] ELSE workload.write[c] :
           key' = [key EXCEPT ![c] = k]
    BY <1>1
  <1>3. PICK fs \in FieldsOf(name) : todo' = [todo EXCEPT ![c] = fs]
    BY <1>1
  <1>4. k \in Keys /\ name \in CallNames /\ (name \in Writers => k \in workload.write[c])
    BY <1>2, WorkloadTypes DEF TypeInv, CallTypes, Writers
  <1>5. 0 \in Fields
    BY SizesAssumption DEF Fields
  <1>6. fs \in SUBSET Fields /\ (name \in {"Insert", "Update"} => fs # {}) /\ (name = "Insert" => fs = Fields)
    BY <1>3, <1>4, <1>5 DEF FieldsOf, CallNames
  <1> QED
    BY <1>1, <1>2, <1>3, <1>4, <1>6

LEMMA CallTypesKept == ASSUME TypeInv, NEW c \in Clients, Client(c) PROVE CallTypes'
  <1>0. CallTypes /\ FieldsAt(c) /\ workload' = workload
    BY DEF TypeInv, Client
  <1> USE DEF CallTypes, GoTo, Return, Places, Codes
  <1>1. CASE Begin(c)
    <2>1. PICK name \in workload.calls, k \in Keys, fs \in SUBSET Fields :
              /\ call' = [call EXCEPT ![c] = name] /\ key' = [key EXCEPT ![c] = k]
              /\ todo' = [todo EXCEPT ![c] = fs] /\ pc' = [pc EXCEPT ![c] = Entry(name)]
      BY <1>1, BeginEffect
    <2>2. name \in CallNames /\ Entry(name) \in {"get", "scan", "remove"}
      BY <1>0, WorkloadTypes DEF CallNames, Entry
    <2>3. calls[c] + 1 \in 0..MaxCalls /\ calls' = [calls EXCEPT ![c] = calls[c] + 1] /\ ret' = ret
      BY <1>0, <1>1, WorkloadTypes, SizesAssumption DEF Begin
    <2>4. call' \in [Clients -> CallNames] /\ key' \in [Clients -> Keys \cup {NULL}]
      BY <1>0, <2>1, <2>2
    <2>5. todo' \in [Clients -> SUBSET Fields] /\ calls' \in [Clients -> 0..MaxCalls]
      BY <1>0, <2>1, <2>3
    <2>6. pc' \in [Clients -> Places]
      BY <1>0, <2>1, <2>2
    <2> QED
      BY <1>0, <2>3, <2>4, <2>5, <2>6
  <1>2. CASE ~Begin(c)
    <2>1. calls' = calls /\ call' = call /\ key' = key
      BY <1>2 DEF Client, Get, Publish, InsertField, UpdateField, InsertMissing, DeleteOld, ScanKeys,
                  ListFields, CopyValue, EndList, Remove, ListDeleted, DeleteStrings, DeleteTable, Undefined
    <2>2. pc[c] \in InTable => RestOf(c) \in SUBSET Fields
      BY <1>0, NextOfTodo DEF FieldsAt
    <2>3. /\ todo' = todo \/ (pc[c] \in InTable /\ todo' = [todo EXCEPT ![c] = RestOf(c)])
          /\ pc' = pc \/ \E p \in Places : pc' = [pc EXCEPT ![c] = p]
          /\ ret' = ret \/ \E r \in Codes : ret' = [ret EXCEPT ![c] = r]
      <3>1. CASE Get(c) \/ Publish(c) \/ ScanKeys(c)
        BY <1>0, <3>1 DEF Get, Publish, ScanKeys
      <3>2. CASE Undefined(c)
        BY <3>2 DEF Undefined
      <3>3. CASE InsertField(c) /\ ~Undefined(c)
        BY <3>3 DEF InsertField, InTable
      <3>4. CASE (UpdateField(c) \/ ListFields(c) \/ CopyValue(c)) /\ ~Undefined(c)
        BY <3>4 DEF UpdateField, ListFields, CopyValue
      <3>5. CASE (InsertMissing(c) \/ DeleteOld(c)) /\ ~Undefined(c)
        BY <3>5 DEF InsertMissing, DeleteOld, NextUpdate, InTable
      <3>6. CASE (EndList(c) \/ Remove(c) \/ ListDeleted(c)) /\ ~Undefined(c)
        BY <3>6 DEF EndList, Remove, ListDeleted
      <3>7. CASE (DeleteStrings(c) \/ DeleteTable(c)) /\ ~Undefined(c)
        BY <3>7 DEF DeleteStrings, DeleteTable
      <3> QED
        BY <1>2, <3>1, <3>2, <3>3, <3>4, <3>5, <3>6, <3>7 DEF Client
    <2>4. todo' \in [Clients -> SUBSET Fields]
      BY <1>0, <2>2, <2>3
    <2>5. pc' \in [Clients -> Places]
      BY <1>0, <2>3
    <2>6. ret' \in [Clients -> Codes]
      BY <1>0, <2>3
    <2> QED
      BY <1>0, <2>1, <2>4, <2>5, <2>6
  <1> QED
    BY <1>1, <1>2

LEMMA EntriesType == ASSUME HeapTypes, NEW t \in Tables PROVE Entries(t) \in SUBSET Strings
  BY DEF HeapTypes, Entries

LEMMA LocalTypesKept == ASSUME TypeInv, NEW c \in Clients, Client(c) PROVE LocalTypes'
  <1>0. LocalTypes /\ CallTypes /\ HeapTypes /\ CallAt(c) /\ FieldsAt(c)
    BY DEF TypeInv
  <1> USE DEF LocalTypes, GoTo, Return
  <1>1. CASE Begin(c)
    BY <1>0, <1>1 DEF Begin
  <1>2. CASE Get(c)
    <2>1. key_table[key[c]] \in Tables \cup {NULL}
      BY <1>0, <1>2 DEF Get, HeapTypes, CallTypes, CallAt
    <2> QED
      BY <1>0, <1>2, <2>1 DEF Get
  <1>3. CASE Publish(c)
    BY <1>0, <1>3, NewNames DEF Publish
  <1>4. CASE Undefined(c) \/ InsertField(c) \/ InsertMissing(c) \/ EndList(c) \/ DeleteTable(c)
    BY <1>0, <1>4 DEF Undefined, InsertField, InsertMissing, EndList, DeleteTable
  <1>5. CASE UpdateField(c) /\ ~Undefined(c)
    <2>1. tables[field_table[c]][NextField(c)] \in Strings \cup {NULL}
      BY <1>0, <1>5, NextOfTodo DEF UpdateField, FieldsAt, InTable, HeapTypes, CallTypes
    <2> QED
      BY <1>0, <1>5, <2>1 DEF UpdateField
  <1>6. CASE DeleteOld(c) /\ ~Undefined(c)
    BY <1>0, <1>6 DEF DeleteOld
  <1>7. CASE ScanKeys(c)
    <2>1. field_table' = field_table /\ held' = held
      BY <1>7 DEF ScanKeys
    <2>2. queue' = queue \/ \E found \in SUBSET Keys : /\ \A k \in found : key_table[k] \in Tables
                                                       /\ queue' = [queue EXCEPT ![c] = {key_table[k] : k \in found}]
      BY <1>0, <1>7 DEF ScanKeys, HeapTypes
    <2>3. queue' \in [Clients -> SUBSET Tables]
      BY <1>0, <2>2
    <2> QED
      BY <1>0, <2>1, <2>3
  <1>8. CASE ListFields(c) /\ ~Undefined(c)
    <2>1. PICK t \in queue[c] :
             /\ held' = [held EXCEPT ![c] = IF todo[c] = {} THEN Entries(t)
                                            ELSE {tables[t][f] : f \in todo[c]} \ {NULL}]
             /\ queue' = [queue EXCEPT ![c] = @ \ {t}]
             /\ field_table' = field_table
      BY <1>8 DEF ListFields
    <2>2. t \in Tables /\ todo[c] \in SUBSET Fields
      BY <1>0 DEF CallTypes
    <2>3. Entries(t) \in SUBSET Strings /\ {tables[t][f] : f \in todo[c]} \ {NULL} \in SUBSET Strings
      BY <1>0, <2>2, EntriesType DEF HeapTypes
    <2> QED
      BY <1>0, <2>1, <2>3
  <1>9. CASE (CopyValue(c) \/ DeleteStrings(c)) /\ ~Undefined(c)
    BY <1>0, <1>9 DEF CopyValue, DeleteStrings
  <1>10. CASE Remove(c)
    <2>1. key_table[key[c]] \in Tables \cup {NULL}
      BY <1>0, <1>10 DEF Remove, HeapTypes, CallTypes, CallAt
    <2> QED
      BY <1>0, <1>10, <2>1 DEF Remove
  <1>11. CASE ListDeleted(c)
    <2>1. Entries(field_table[c]) \in SUBSET Strings
      BY <1>0, <1>11, EntriesType DEF ListDeleted, FieldsAt, Deleting
    <2> QED
      BY <1>0, <1>11, <2>1 DEF ListDeleted
  <1> QED
    BY <1>1, <1>2, <1>3, <1>4, <1>5, <1>6, <1>7, <1>8, <1>9, <1>10, <1>11 DEF Client

\* The next step of each call is one of its steps, and what it writes to is there.
LEMMA CallAtKept == ASSUME TypeInv, NEW c \in Clients, Client(c) PROVE CallAt(c)' /\ FieldsAt(c)'
  <1>0. /\ CallTypes /\ LocalTypes /\ HeapTypes /\ CallAt(c) /\ FieldsAt(c) /\ workload' = workload
        /\ todo[c] \in SUBSET Fields
    BY DEF TypeInv, Client, CallTypes
  <1> USE DEF CallTypes, LocalTypes, GoTo, Return, CallAt, FieldsAt, Writers, InTable, Deleting
  <1>1. CASE Begin(c)
    <2>1. PICK name \in workload.calls, k \in Keys, fs \in SUBSET Fields :
              /\ name \in Writers => k \in workload.write[c]
              /\ name \in {"Insert", "Update"} => fs # {}
              /\ call' = [call EXCEPT ![c] = name] /\ key' = [key EXCEPT ![c] = k]
              /\ todo' = [todo EXCEPT ![c] = fs] /\ pc' = [pc EXCEPT ![c] = Entry(name)]
      BY <1>1, BeginEffect
    <2>2. name \in CallNames
      BY <1>0, WorkloadTypes
    <2>3. calls'[c] = calls[c] + 1 /\ calls[c] \in Nat
      BY <1>0, <1>1, SizesAssumption DEF Begin
    <2>4. call'[c] = name /\ key'[c] = k /\ todo'[c] = fs /\ pc'[c] = Entry(name)
      BY <1>0, <2>1
    <2>5. \/ name \in {"Read", "Update", "Insert"} /\ Entry(name) = "get"
          \/ name = "Scan" /\ Entry(name) = "scan"
          \/ name = "Delete" /\ Entry(name) = "remove"
      BY <2>2 DEF CallNames, Entry
    <2> HIDE DEF CallTypes, LocalTypes
    <2>6. CallAt(c)'
      BY <1>0, <2>1, <2>2, <2>3, <2>4, <2>5
    <2>7. FieldsAt(c)'
      BY <2>1, <2>4, <2>5
    <2> QED
      BY <2>6, <2>7
  <1>2. ASSUME ~Begin(c)
        PROVE  calls' = calls /\ call' = call /\ key' = key
    BY <1>2 DEF Client, Get, Publish, InsertField, UpdateField, InsertMissing, DeleteOld, ScanKeys,
                ListFields, CopyValue, EndList, Remove, ListDeleted, DeleteStrings, DeleteTable, Undefined
  <1>3. CASE Undefined(c)
    <2>1. pc'[c] = "undefined" /\ pc[c] \notin {"idle", "destroyed"}
      <3>1. ~Begin(c) /\ ~Get(c) /\ ~Publish(c)
        BY <1>0, <1>3 DEF Undefined, Begin, Get, Publish, Entry
      <3>2. pc[c] \notin {"idle", "destroyed"}
        BY <3>1 DEF Client, InsertField, UpdateField, InsertMissing, DeleteOld, ScanKeys,
                    ListFields, CopyValue, EndList, Remove, ListDeleted, DeleteStrings, DeleteTable
      <3> QED
        BY <1>0, <1>3, <3>2 DEF Undefined
    <2> QED
      BY <1>0, <1>3, <2>1 DEF Undefined
  <1>4. CASE Get(c)
    <2>1. key[c] \in Keys /\ key_table[key[c]] \in Tables \cup {NULL} /\ pc[c] = "get"
      BY <1>0, <1>4 DEF Get, HeapTypes
    <2>2. field_table'[c] = key_table[key[c]] /\ todo' = todo
      BY <1>0, <1>4 DEF Get
    <2>3. \/ call[c] = "Read" /\ pc'[c] \in {"idle", "list"}
          \/ call[c] # "Read" /\ key_table[key[c]] = NULL /\ pc'[c] = "publish"
          \/ call[c] = "Insert" /\ key_table[key[c]] # NULL /\ pc'[c] = "insertField"
          \/ call[c] \notin {"Read", "Insert"} /\ key_table[key[c]] # NULL /\ pc'[c] = "updateField"
      BY <1>0, <1>4 DEF Get
    <2> QED
      BY <1>0, <1>2, <1>4, <2>1, <2>2, <2>3 DEF Get, Begin
  <1>5. CASE Publish(c)
    <2>1. pc'[c] = "insertField" /\ field_table'[c] = NewTable(c) /\ todo' = todo /\ pc[c] = "publish"
      BY <1>0, <1>5 DEF Publish
    <2> QED
      BY <1>0, <1>2, <1>5, <2>1, NewNames DEF Begin
  <1>6. CASE (InsertField(c) \/ UpdateField(c) \/ InsertMissing(c) \/ DeleteOld(c)) /\ ~Undefined(c)
    <2>1. /\ pc[c] \in InTable /\ field_table' = field_table
          /\ \/ pc'[c] = pc[c] /\ todo'[c] # {} /\ pc[c] = "insertField"
             \/ pc'[c] = "idle"
             \/ pc[c] = "updateField" /\ pc'[c] \in {"insertMissing", "deleteOld"} /\ todo' = todo
             \/ pc[c] \in {"insertMissing", "deleteOld"} /\ pc'[c] = "updateField" /\ todo'[c] # {}
      <3>1. CASE InsertField(c)
        <4>1. field_table' = field_table /\ pc[c] = "insertField"
          BY <1>6, <3>1 DEF InsertField
        <4>2. (pc' = pc /\ todo' = [todo EXCEPT ![c] = RestOf(c)] /\ RestOf(c) # {}) \/ pc'[c] = "idle"
          BY <1>0, <1>6, <3>1 DEF InsertField
        <4> QED
          BY <1>0, <4>1, <4>2
      <3>2. CASE UpdateField(c)
        BY <1>0, <1>6, <3>2 DEF UpdateField
      <3>3. CASE InsertMissing(c) \/ DeleteOld(c)
        <4>1. field_table' = field_table /\ pc[c] \in {"insertMissing", "deleteOld"} /\ NextUpdate(c)
          BY <1>6, <3>3 DEF InsertMissing, DeleteOld
        <4> QED
          BY <1>0, <4>1 DEF NextUpdate
      <3> QED
        BY <1>6, <3>1, <3>2, <3>3
    <2>2. ~Begin(c)
      BY <2>1 DEF Begin
    <2> QED
      BY <1>0, <1>2, <2>1, <2>2
  <1>7. CASE (ScanKeys(c) \/ ListFields(c) \/ CopyValue(c) \/ EndList(c)) /\ ~Undefined(c)
    <2>1. pc'[c] \in {"list", "copy", "idle"} /\ pc[c] \in {"scan", "list", "copy"}
      BY <1>0, <1>7 DEF ScanKeys, ListFields, CopyValue, EndList
    <2>2. ~Begin(c)
      BY <2>1 DEF Begin
    <2> QED
      BY <1>0, <1>2, <2>1, <2>2
  <1>8. CASE Remove(c)
    <2>1. key[c] \in Keys /\ key_table[key[c]] \in Tables \cup {NULL} /\ pc[c] = "remove"
      BY <1>0, <1>8 DEF Remove, HeapTypes
    <2>2. /\ field_table'[c] = key_table[key[c]]
          /\ pc'[c] = IF key_table[key[c]] = NULL THEN "idle" ELSE "listDeleted"
      BY <1>0, <1>8 DEF Remove
    <2>3. ~Begin(c)
      BY <2>1 DEF Begin
    <2> QED
      BY <1>0, <1>2, <2>1, <2>2, <2>3
  <1>9. CASE (ListDeleted(c) \/ DeleteStrings(c) \/ DeleteTable(c)) /\ ~Undefined(c)
    <2>1. /\ pc'[c] \in {"deleteTable", "idle"} /\ pc[c] \in {"listDeleted", "deleteTable"}
          /\ field_table' = field_table
      BY <1>0, <1>9 DEF ListDeleted, DeleteStrings, DeleteTable
    <2>2. ~Begin(c)
      BY <2>1 DEF Begin
    <2> QED
      BY <1>0, <1>2, <2>1, <2>2
  <1> QED
    BY <1>1, <1>3, <1>4, <1>5, <1>6, <1>7, <1>8, <1>9 DEF Client

LEMMA TypeCorrect == Spec => []TypeInv
  <1>1. Init => TypeInv
    BY SizesAssumption
       DEF Init, TypeInv, HeapTypes, CallTypes, LocalTypes, CallAt, FieldsAt, Places, CallNames, Codes,
           InTable, Deleting
  <1>2. TypeInv /\ [Next]_vars => TypeInv'
    <2> SUFFICES ASSUME TypeInv, [Next]_vars PROVE TypeInv'
      OBVIOUS
    <2>1. ASSUME NEW c \in Clients, Client(c) PROVE TypeInv'
      <3>1. \A d \in Clients \ {c} : CallAt(d)' /\ FieldsAt(d)'
        BY <2>1, OwnSteps DEF TypeInv, CallAt, FieldsAt
      <3> QED
        BY <2>1, <3>1, HeapTypesKept, CallTypesKept, LocalTypesKept, CallAtKept DEF TypeInv
    <2>2. CASE Destroy
      <3>1. HeapTypes /\ CallTypes /\ LocalTypes /\ \A c \in Clients : CallAt(c)
        BY DEF TypeInv
      <3>2. Reachable \subseteq Tables \cup Strings
        BY <3>1, EntriesType DEF Reachable, RecordTables, HeapTypes
      <3>3. HeapTypes'
        BY <2>2, <3>1, <3>2 DEF Destroy, HeapTypes
      <3>4. CallTypes' /\ LocalTypes'
        BY <2>2, <3>1 DEF Destroy, CallTypes, LocalTypes, Places
      <3>5. \A c \in Clients : CallAt(c)' /\ FieldsAt(c)'
        BY <2>2, <3>1 DEF Destroy, CallAt, FieldsAt, InTable, Deleting
      <3> QED
        BY <3>3, <3>4, <3>5 DEF TypeInv
    <2>3. CASE UNCHANGED vars
      BY <2>3 DEF vars, TypeInv, HeapTypes, CallTypes, LocalTypes, CallAt, FieldsAt
    <2> QED
      BY <2>1, <2>2, <2>3 DEF Next, Stopped
  <1> QED
    BY <1>1, <1>2, PTL DEF Spec

-----------------------------------------------------------------------------
(* What is where *)

\* The fields whose strings the current call has still to put in a table.
Coming(c) ==
    IF pc[c] \in {"get", "publish", "insertField", "updateField", "insertMissing"} THEN todo[c]
    ELSE IF pc[c] = "deleteOld" THEN RestOf(c) ELSE {}

UnbornStrings ==
    {s \in Strings : s[2] > calls[s[1]] \/ (s[2] = calls[s[1]] /\ s[3] \in Coming(s[1]))}

UnbornTables ==
    {t \in Tables : t[2] > calls[t[1]] \/ (t[2] = calls[t[1]] /\ pc[t[1]] \in {"get", "publish"})}

Placed == {s \in Strings : \E t \in Tables : s \in Entries(t)}

\* Unborn objects are nowhere.
UnbornInv ==
    /\ UnbornStrings \cap (Placed \cup freed) = {}
    /\ \A c \in Clients : held[c] \cap UnbornStrings = {}
    /\ UnbornTables \cap (RecordTables \cup freed) = {}
    /\ \A c \in Clients : pc[c] \in InTable \cup Deleting => field_table[c] \notin UnbornTables
    /\ \A t \in UnbornTables : Entries(t) = {}

\* Each table is the record of one key, each string the value of one field.
OnePlace ==
    /\ \A k, l \in Keys : key_table[k] = key_table[l] /\ key_table[k] # NULL => k = l
    /\ \A t, u \in Tables : \A f, g \in Fields :
          tables[t][f] = tables[u][g] /\ tables[t][f] # NULL => t = u /\ f = g

\* What a call is about to delete is in no record.
TakenAway(c) ==
    /\ pc[c] = "deleteOld" => held[c] \cap Placed = {}
    /\ pc[c] \in Deleting => field_table[c] \notin RecordTables
    /\ pc[c] = "deleteTable" => \A t \in Tables \ {field_table[c]} : held[c] \cap Entries(t) = {}

\* No record is freed, and nothing in it.
Live == \A t \in RecordTables : t \notin freed /\ Entries(t) \cap freed = {}

PlaceInv == UnbornInv /\ OnePlace /\ Live /\ \A c \in Clients : TakenAway(c)

\* A call puts its strings in a table one after another.
LEMMA ComingSteps ==
    ASSUME TypeInv, NEW c \in Clients, Client(c), ~Begin(c)
    PROVE  /\ calls' = calls
           /\ Coming(c)' \subseteq Coming(c)
           /\ pc'[c] \in {"get", "publish"} => pc[c] = "get"
           /\ pc[c] = "publish" => pc'[c] \notin {"get", "publish"}
           /\ Puts(c) \/ freed' # freed => NextField(c) \notin Coming(c)'
  <1>0. CallTypes /\ FieldsAt(c) /\ todo[c] \in SUBSET Fields
    BY DEF TypeInv, CallTypes
  <1> USE DEF CallTypes, GoTo, Return
  <1>1. calls' = calls
    BY DEF Client, Get, Publish, InsertField, UpdateField, InsertMissing, DeleteOld, ScanKeys,
           ListFields, CopyValue, EndList, Remove, ListDeleted, DeleteStrings, DeleteTable, Undefined
  <1>2. Coming(c) \subseteq todo[c]
    BY DEF Coming, RestOf
  <1>3. CASE Undefined(c)
    <2>1. pc'[c] = "undefined"
      BY <1>0, <1>3 DEF Undefined
    <2> QED
      BY <1>1, <2>1 DEF Coming
  <1>4. CASE Get(c) \/ Publish(c)
    <2>1. todo' = todo /\ freed' = freed /\ pc[c] \in {"get", "publish"} /\ ~Puts(c)
          /\ (pc[c] = "publish" => pc'[c] = "insertField") /\ pc'[c] # "deleteOld"
      BY <1>0, <1>4 DEF Get, Publish, heapVars, Puts
    <2>2. Coming(c)' \subseteq Coming(c)
      BY <2>1 DEF Coming
    <2> QED
      BY <1>0, <1>1, <1>4, <2>1, <2>2 DEF Publish
  <1>5. CASE (InsertField(c) \/ InsertMissing(c)) /\ ~Undefined(c)
    <2>1. pc[c] \in {"insertField", "insertMissing"} /\ Coming(c) = todo[c]
      BY <1>5 DEF InsertField, InsertMissing, Coming
    <2>2. pc'[c] = "idle" \/ (pc'[c] \in {"insertField", "updateField"} /\ todo'[c] = RestOf(c))
      <3>1. CASE InsertField(c)
        <4>1. (pc' = pc /\ todo' = [todo EXCEPT ![c] = RestOf(c)]) \/ pc'[c] = "idle"
          BY <1>0, <1>5, <3>1 DEF InsertField
        <4> QED
          BY <1>0, <3>1, <4>1 DEF InsertField
      <3>2. CASE InsertMissing(c)
        <4>1. NextUpdate(c)
          BY <1>5, <3>2 DEF InsertMissing
        <4> QED
          BY <1>0, <4>1 DEF NextUpdate
      <3> QED
        BY <1>5, <3>1, <3>2
    <2>3. Coming(c)' \subseteq RestOf(c) /\ pc'[c] \notin {"get", "publish"}
      BY <2>2 DEF Coming
    <2>4. RestOf(c) \subseteq todo[c] /\ NextField(c) \notin RestOf(c)
      BY DEF RestOf
    <2> QED
      BY <1>1, <2>1, <2>3, <2>4
  <1>6. CASE UpdateField(c) /\ ~Undefined(c)
    <2>1. pc[c] = "updateField" /\ todo' = todo /\ freed' = freed
          /\ pc'[c] \in {"insertMissing", "deleteOld"} /\ Coming(c) = todo[c]
      BY <1>0, <1>6 DEF UpdateField, Coming
    <2>2. RestOf(c)' = RestOf(c) /\ RestOf(c) \subseteq todo[c] /\ NextField(c) \notin RestOf(c)
      BY <2>1 DEF RestOf, NextField
    <2>3. Coming(c)' \subseteq Coming(c)
      BY <2>1, <2>2 DEF Coming
    <2>4. Puts(c) => pc'[c] = "deleteOld"
      <3>1. CASE tables[field_table[c]][NextField(c)] = NULL
        <4>1. tables' = tables
          BY <1>6, <3>1 DEF UpdateField
        <4>2. field_table[c] \in Tables /\ NextField(c) \in Fields /\ NewString(c, NextField(c)) # NULL
          BY <1>0, <2>1, NextOfTodo, NewNames DEF FieldsAt, InTable
        <4>3. tables \in [Tables -> [Fields -> Strings \cup {NULL}]]
          BY DEF TypeInv, HeapTypes
        <4>4. ASSUME Puts(c) PROVE FALSE
          <5> DEFINE t == field_table[c]
                     f == NextField(c)
                     n == NewString(c, f)
          <5>1. tables' = [tables EXCEPT ![t][f] = n]
            BY <4>4 DEF Puts
          <5> HIDE DEF t, f, n
          <5>2. t \in Tables /\ f \in Fields /\ n # NULL /\ tables[t][f] = NULL
            BY <3>1, <4>2 DEF t, f, n
          <5>3. tables'[t][f] = n
            BY <4>3, <5>1, <5>2
          <5> QED
            BY <4>1, <5>2, <5>3
        <4> QED
          BY <4>4
      <3>2. CASE tables[field_table[c]][NextField(c)] # NULL
        BY <1>0, <1>6, <3>2 DEF UpdateField
      <3> QED
        BY <3>1, <3>2
    <2>5. pc'[c] = "deleteOld" => Coming(c)' = RestOf(c)
      BY <2>2 DEF Coming
    <2> QED
      BY <1>1, <2>1, <2>2, <2>3, <2>4, <2>5
  <1>7. CASE DeleteOld(c) /\ ~Undefined(c)
    <2>1. pc[c] = "deleteOld" /\ pc'[c] \in {"idle", "updateField"} /\ todo'[c] = RestOf(c)
      BY <1>0, <1>7 DEF DeleteOld, NextUpdate
    <2>2. Coming(c) = RestOf(c) /\ Coming(c)' \subseteq RestOf(c) /\ NextField(c) \notin RestOf(c)
      BY <2>1 DEF Coming, RestOf
    <2> QED
      BY <1>1, <2>1, <2>2
  <1>8. CASE (ScanKeys(c) \/ ListFields(c) \/ CopyValue(c) \/ EndList(c)) /\ ~Undefined(c)
    <2>1. pc'[c] \in {"list", "copy", "idle"} /\ pc[c] \in {"scan", "list", "copy"}
      BY <1>0, <1>8 DEF ScanKeys, ListFields, CopyValue, EndList
    <2> QED
      BY <1>1, <2>1 DEF Coming
  <1>9. CASE (Remove(c) \/ ListDeleted(c) \/ DeleteStrings(c) \/ DeleteTable(c)) /\ ~Undefined(c)
    <2>1. /\ pc'[c] \in {"listDeleted", "deleteTable", "idle"}
          /\ pc[c] \in {"remove", "listDeleted", "deleteTable"}
      BY <1>0, <1>9 DEF Remove, ListDeleted, DeleteStrings, DeleteTable
    <2> QED
      BY <1>1, <2>1 DEF Coming
  <1> QED
    BY <1>3, <1>4, <1>5, <1>6, <1>7, <1>8, <1>9 DEF Client

\* Nothing becomes unborn; the table a call publishes is unborn until then, and so
\* is the string it puts in a table or frees at once.
LEMMA UnbornShrinks ==
    ASSUME TypeInv, NEW c \in Clients, Client(c)
    PROVE  /\ UnbornStrings' \subseteq UnbornStrings /\ UnbornTables' \subseteq UnbornTables
           /\ pc[c] = "publish" => NewTable(c) \in UnbornTables /\ NewTable(c) \notin UnbornTables'
           /\ pc[c] \in {"insertField", "updateField", "insertMissing"} =>
                 /\ NewString(c, NextField(c)) \in UnbornStrings
                 /\ Puts(c) \/ freed' # freed => NewString(c, NextField(c)) \notin UnbornStrings'
  <1>0. /\ CallTypes /\ FieldsAt(c) /\ todo[c] \in SUBSET Fields
        /\ \A d \in Clients : calls[d] \in Nat
    BY SizesAssumption DEF TypeInv, CallTypes
  <1>1. \A d \in Clients \ {c} : calls'[d] = calls[d] /\ pc'[d] = pc[d] /\ Coming(d)' = Coming(d)
    BY OwnSteps DEF Coming, RestOf, NextField
  <1>2. CASE Begin(c)
    <2>1. calls'[c] = calls[c] + 1 /\ pc[c] = "idle"
      BY <1>0, <1>2 DEF Begin, CallTypes
    <2>2. ASSUME NEW s \in UnbornStrings' PROVE s \in UnbornStrings
      <3>1. s \in Strings /\ s[1] \in Clients /\ s[2] \in Nat
        BY SizesAssumption DEF UnbornStrings, Strings
      <3>2. CASE s[1] = c
        BY <1>0, <2>1, <3>1, <3>2 DEF UnbornStrings
      <3>3. CASE s[1] # c
        BY <1>1, <3>1, <3>3 DEF UnbornStrings
      <3> QED
        BY <3>2, <3>3
    <2>3. ASSUME NEW t \in UnbornTables' PROVE t \in UnbornTables
      <3>1. t \in Tables /\ t[1] \in Clients /\ t[2] \in Nat
        BY SizesAssumption DEF UnbornTables, Tables
      <3>2. CASE t[1] = c
        BY <1>0, <2>1, <3>1, <3>2 DEF UnbornTables
      <3>3. CASE t[1] # c
        BY <1>1, <3>1, <3>3 DEF UnbornTables
      <3> QED
        BY <3>2, <3>3
    <2> QED
      BY <2>1, <2>2, <2>3
  <1>3. CASE ~Begin(c)
    <2>1. /\ calls' = calls /\ Coming(c)' \subseteq Coming(c)
          /\ pc'[c] \in {"get", "publish"} => pc[c] = "get"
          /\ pc[c] = "publish" => pc'[c] \notin {"get", "publish"}
          /\ Puts(c) \/ freed' # freed => NextField(c) \notin Coming(c)'
      BY <1>3, ComingSteps
    <2>2. ASSUME NEW s \in UnbornStrings' PROVE s \in UnbornStrings
      <3>1. s \in Strings /\ s[1] \in Clients
        BY DEF UnbornStrings, Strings
      <3> QED
        BY <1>1, <2>1, <2>2, <3>1 DEF UnbornStrings
    <2>3. ASSUME NEW t \in UnbornTables' PROVE t \in UnbornTables
      <3>1. t \in Tables /\ t[1] \in Clients
        BY DEF UnbornTables, Tables
      <3> QED
        BY <1>1, <2>1, <2>3, <3>1 DEF UnbornTables
    <2>4. ASSUME pc[c] = "publish" PROVE NewTable(c) \in UnbornTables /\ NewTable(c) \notin UnbornTables'
      <3>1. NewTable(c) \in Tables /\ NewTable(c)[1] = c /\ NewTable(c)[2] = calls[c]
        BY <2>4, NewNames DEF NewTable
      <3> QED
        BY <1>0, <2>1, <2>4, <3>1 DEF UnbornTables
    <2>5. ASSUME pc[c] \in {"insertField", "updateField", "insertMissing"}
          PROVE  /\ NewString(c, NextField(c)) \in UnbornStrings
                 /\ Puts(c) \/ freed' # freed => NewString(c, NextField(c)) \notin UnbornStrings'
      <3> DEFINE f == NextField(c)
                 s == NewString(c, f)
      <3>1. f \in todo[c] /\ f \in Fields
        BY <1>0, <2>5, NextOfTodo DEF FieldsAt, InTable
      <3> HIDE DEF f
      <3>2. s \in Strings /\ s[1] = c /\ s[2] = calls[c] /\ s[3] = f
        BY <2>5, <3>1, NewNames DEF NewString
      <3> HIDE DEF s
      <3>3. f \in Coming(c)
        BY <2>5, <3>1 DEF Coming
      <3>4. s \in UnbornStrings
        BY <3>2, <3>3 DEF UnbornStrings
      <3>5. f \notin Coming(c)' => s \notin UnbornStrings'
        BY <1>0, <2>1, <3>2 DEF UnbornStrings
      <3> QED
        BY <2>1, <3>4, <3>5 DEF f, s
    <2> QED
      BY <2>2, <2>3, <2>4, <2>5
  <1> QED
    BY <1>2, <1>3

\* Where a call comes from when it is about to write or to delete, and the strings
\* it has got hold of.
LEMMA LocalSteps ==
    ASSUME TypeInv, NEW c \in Clients, Client(c)
    PROVE  /\ pc'[c] \in InTable =>
                 \/ Publish(c) /\ field_table'[c] = NewTable(c)
                 \/ Get(c) /\ field_table'[c] \in RecordTables
                 \/ pc[c] \in InTable /\ field_table'[c] = field_table[c]
           /\ pc'[c] \in Deleting =>
                 \/ /\ Remove(c) /\ pc'[c] = "listDeleted" /\ field_table'[c] = key_table[key[c]]
                    /\ field_table'[c] \in RecordTables
                 \/ /\ ListDeleted(c) /\ pc[c] = "listDeleted" /\ field_table'[c] = field_table[c]
                    /\ held'[c] = Entries(field_table[c])
                 \/ /\ DeleteStrings(c) /\ pc[c] = "deleteTable" /\ pc'[c] = "deleteTable"
                    /\ field_table'[c] = field_table[c] /\ held'[c] \subseteq held[c]
           /\ pc'[c] = "deleteOld" =>
                 /\ UpdateField(c) /\ Puts(c) /\ tables[field_table[c]][NextField(c)] # NULL
                 /\ held'[c] = {tables[field_table[c]][NextField(c)]}
           /\ held'[c] \subseteq held[c] \cup Placed
  <1>0. /\ CallTypes /\ LocalTypes /\ HeapTypes /\ CallAt(c) /\ FieldsAt(c)
        /\ todo[c] \in SUBSET Fields
    BY DEF TypeInv, CallTypes
  <1>p. \A t \in Tables : Entries(t) \subseteq Placed
    BY <1>0, EntriesType DEF Placed
  <1>r. \A k \in Keys : key_table[k] # NULL => key_table[k] \in RecordTables
    BY DEF RecordTables
  <1> USE DEF CallTypes, LocalTypes, GoTo, Return, InTable, Deleting
  <1>1. CASE Begin(c)
    <2>1. held'[c] = {} /\ pc'[c] \in {"get", "scan", "remove"}
      <3>1. PICK name \in workload.calls : pc' = [pc EXCEPT ![c] = Entry(name)]
        BY <1>1, BeginEffect
      <3>2. Entry(name) \in {"get", "scan", "remove"}
        BY <1>0, WorkloadTypes DEF Entry, CallNames
      <3> QED
        BY <1>0, <1>1, <3>1, <3>2 DEF Begin
    <2> QED
      BY <2>1
  <1>2. CASE Undefined(c)
    BY <1>0, <1>2 DEF Undefined
  <1>3. CASE Get(c)
    <2>1. field_table'[c] = key_table[key[c]] /\ held' = held /\ key[c] \in Keys
      BY <1>0, <1>3 DEF Get, CallAt
    <2>2. pc'[c] \in InTable => key_table[key[c]] # NULL
      BY <1>0, <1>3 DEF Get
    <2>3. pc'[c] \in {"idle", "list", "publish", "insertField", "updateField"}
      BY <1>0, <1>3 DEF Get
    <2> QED
      BY <1>3, <1>r, <2>1, <2>2, <2>3
  <1>4. CASE Publish(c)
    BY <1>0, <1>4 DEF Publish
  <1>5. CASE (InsertField(c) \/ InsertMissing(c) \/ DeleteOld(c)) /\ ~Undefined(c)
    <2>1. /\ pc[c] \in InTable /\ field_table' = field_table /\ held'[c] \subseteq held[c]
          /\ pc'[c] \in {"idle", "insertField", "updateField"}
      <3>1. CASE InsertField(c)
        <4>1. pc' = pc \/ pc'[c] = "idle"
          BY <1>0, <1>5, <3>1 DEF InsertField
        <4> QED
          BY <1>5, <3>1, <4>1 DEF InsertField
      <3>2. CASE InsertMissing(c) \/ DeleteOld(c)
        BY <1>0, <1>5, <3>2 DEF InsertMissing, DeleteOld, NextUpdate
      <3> QED
        BY <1>5, <3>1, <3>2
    <2> QED
      BY <2>1
  <1>6. CASE UpdateField(c) /\ ~Undefined(c)
    <2>1. /\ pc[c] = "updateField" /\ field_table' = field_table
          /\ field_table[c] \in Tables /\ NextField(c) \in Fields
      BY <1>0, <1>6, NextOfTodo DEF UpdateField, FieldsAt
    <2>2. CASE tables[field_table[c]][NextField(c)] = NULL
      <3>1. pc'[c] = "insertMissing" /\ held' = held
        BY <1>0, <1>6, <2>2 DEF UpdateField
      <3> QED
        BY <2>1, <3>1
    <2>3. CASE tables[field_table[c]][NextField(c)] # NULL
      <3>1. /\ pc'[c] = "deleteOld" /\ held'[c] = {tables[field_table[c]][NextField(c)]}
            /\ Puts(c)
        BY <1>0, <1>6, <2>3 DEF UpdateField, Puts
      <3>2. tables[field_table[c]][NextField(c)] \in Placed
        BY <1>p, <2>1, <2>3 DEF Entries
      <3> QED
        BY <1>6, <2>1, <2>3, <3>1, <3>2
    <2> QED
      BY <2>2, <2>3
  <1>7. CASE (ScanKeys(c) \/ CopyValue(c) \/ EndList(c)) /\ ~Undefined(c)
    <2>1. pc'[c] \in {"list", "copy", "idle"} /\ held'[c] \subseteq held[c]
      BY <1>0, <1>7 DEF ScanKeys, CopyValue, EndList
    <2> QED
      BY <2>1
  <1>8. CASE ListFields(c) /\ ~Undefined(c)
    <2>1. PICK t \in queue[c] :
             held' = [held EXCEPT ![c] = IF todo[c] = {} THEN Entries(t)
                                         ELSE {tables[t][f] : f \in todo[c]} \ {NULL}]
      BY <1>8 DEF ListFields
    <2>2. t \in Tables /\ held'[c] \subseteq Entries(t) /\ pc'[c] = "copy"
      BY <1>0, <1>8, <2>1 DEF ListFields, Entries
    <2> QED
      BY <1>p, <2>2
  <1>9. CASE Remove(c)
    <2>1. field_table'[c] = key_table[key[c]] /\ held' = held /\ key[c] \in Keys
      BY <1>0, <1>9 DEF Remove, CallAt
    <2>2. pc'[c] = IF key_table[key[c]] = NULL THEN "idle" ELSE "listDeleted"
      BY <1>0, <1>9 DEF Remove
    <2> QED
      BY <1>9, <1>r, <2>1, <2>2
  <1>10. CASE ListDeleted(c)
    <2>1. /\ pc[c] = "listDeleted" /\ field_table' = field_table /\ pc'[c] = "deleteTable"
          /\ held'[c] = Entries(field_table[c])
      BY <1>0, <1>10 DEF ListDeleted
    <2>2. field_table[c] \in Tables
      BY <1>0, <2>1 DEF FieldsAt
    <2> QED
      BY <1>10, <1>p, <2>1, <2>2
  <1>11. CASE DeleteStrings(c) /\ ~Undefined(c)
    BY <1>0, <1>11 DEF DeleteStrings
  <1>12. CASE DeleteTable(c) /\ ~Undefined(c)
    BY <1>0, <1>12 DEF DeleteTable
  <1> QED
    BY <1>1, <1>2, <1>3, <1>4, <1>5, <1>6, <1>7, <1>8, <1>9, <1>10, <1>11, <1>12 DEF Client

\* A call puts its string in one field of its table, and every other field of every
\* table stays what it is.
LEMMA PutEffect ==
    ASSUME TypeInv, NEW c \in Clients, Client(c), Puts(c)
    PROVE  \E t \in Tables, f \in Fields, s \in Strings :
              /\ t = field_table[c] /\ f = NextField(c) /\ s = NewString(c, NextField(c))
              /\ tables' = [tables EXCEPT ![t][f] = s]
              /\ pc[c] \in InTable
  <1>1. FieldsAt(c) /\ todo[c] \in SUBSET Fields /\ pc[c] \in InTable
        /\ pc[c] \in {"insertField", "updateField", "insertMissing"}
    BY DEF TypeInv, CallTypes, Puts, InTable
  <1>2. field_table[c] \in Tables /\ NextField(c) \in Fields
    BY <1>1, NextOfTodo DEF FieldsAt
  <1>3. NewString(c, NextField(c)) \in Strings
    BY <1>1, <1>2, NewNames
  <1> QED
    BY <1>1, <1>2, <1>3 DEF Puts

LEMMA EntriesSteps ==
    ASSUME TypeInv, NEW c \in Clients, Client(c)
    PROVE  /\ Puts(c) \/ tables' = tables
           /\ \A u \in Tables : \/ Entries(u)' \subseteq Entries(u)
                                \/ /\ Puts(c) /\ u = field_table[c]
                                   /\ Entries(u)' \subseteq Entries(u) \cup {NewString(c, NextField(c))}
           /\ Placed' \subseteq Placed \/ (Puts(c) /\ Placed' \subseteq Placed \cup {NewString(c, NextField(c))})
  <1>0. HeapTypes
    BY DEF TypeInv
  <1>1. Puts(c) \/ tables' = tables
    BY TableSteps
  <1>2. CASE tables' = tables
    BY <1>2 DEF Entries, Placed
  <1>3. CASE Puts(c)
    <2>1. PICK t \in Tables, f \in Fields, s \in Strings :
              /\ t = field_table[c] /\ s = NewString(c, NextField(c))
              /\ tables' = [tables EXCEPT ![t][f] = s]
      BY <1>3, PutEffect
    <2>2. \A u \in Tables, g \in Fields : tables'[u][g] = IF u = t /\ g = f THEN s ELSE tables[u][g]
      BY <1>0, <2>1 DEF HeapTypes
    <2>3. ASSUME NEW u \in Tables
          PROVE  Entries(u)' \subseteq Entries(u) \/ (u = t /\ Entries(u)' \subseteq Entries(u) \cup {s})
      BY <2>2 DEF Entries
    <2>4. Placed' \subseteq Placed \cup {s}
      BY <2>3 DEF Placed
    <2> QED
      BY <1>1, <1>3, <2>1, <2>3, <2>4
  <1> QED
    BY <1>1, <1>2, <1>3

LEMMA RecordTablesSteps ==
    ASSUME TypeInv, NEW c \in Clients, Client(c)
    PROVE  RecordTables' \subseteq RecordTables
           \/ (Publish(c) /\ tables' = tables /\ freed' = freed
               /\ RecordTables' \subseteq RecordTables \cup {NewTable(c)})
  <1>0. HeapTypes
    BY DEF TypeInv
  <1>1. CASE key_table' = key_table
    BY <1>1 DEF RecordTables
  <1>2. CASE Publish(c) /\ key_table' = [key_table EXCEPT ![key[c]] = NewTable(c)]
    <2>1. \A k \in Keys : key_table'[k] \in {key_table[k], NewTable(c)}
      BY <1>0, <1>2 DEF HeapTypes
    <2> QED
      BY <1>2, <2>1 DEF RecordTables, Publish
  <1>3. CASE key_table' = [key_table EXCEPT ![key[c]] = NULL]
    <2>1. \A k \in Keys : key_table'[k] \in {key_table[k], NULL}
      BY <1>0, <1>3 DEF HeapTypes
    <2> QED
      BY <2>1 DEF RecordTables
  <1> QED
    BY <1>1, <1>2, <1>3, RecordSteps

\* What a step frees was not unborn, or is not any more.
LEMMA UnbornKept ==
    ASSUME TypeInv, UnbornInv, NEW c \in Clients, Client(c)
    PROVE  UnbornInv'
  <1>0. /\ LocalTypes /\ HeapTypes /\ FieldsAt(c) /\ held[c] \in SUBSET Strings
        /\ \A d \in Clients \ {c} : held'[d] = held[d] /\ field_table'[d] = field_table[d] /\ pc'[d] = pc[d]
    BY OwnSteps DEF TypeInv, LocalTypes
  <1>1. /\ UnbornStrings' \subseteq UnbornStrings /\ UnbornTables' \subseteq UnbornTables
        /\ UnbornStrings \subseteq Strings /\ UnbornTables \subseteq Tables
    BY UnbornShrinks DEF UnbornStrings, UnbornTables
  <1>2. /\ pc[c] = "publish" => NewTable(c) \notin UnbornTables'
        /\ pc[c] \in {"insertField", "updateField", "insertMissing"} =>
              (Puts(c) \/ freed' # freed => NewString(c, NextField(c)) \notin UnbornStrings')
    BY UnbornShrinks
  <1>3. UnbornStrings' \cap Placed' = {}
    <2>1. CASE Placed' \subseteq Placed
      BY <1>1, <2>1 DEF UnbornInv
    <2>2. CASE Puts(c) /\ Placed' \subseteq Placed \cup {NewString(c, NextField(c))}
      BY <1>1, <1>2, <2>2 DEF UnbornInv, Puts
    <2> QED
      BY <2>1, <2>2, EntriesSteps
  <1>4. UnbornStrings' \cap freed' = {} /\ UnbornTables' \cap freed' = {}
    <2>1. CASE freed' = freed
      BY <1>1, <2>1 DEF UnbornInv
    <2>2. CASE InsertField(c) /\ freed' = freed \cup {NewString(c, NextField(c))}
      <3>1. pc[c] = "insertField"
        BY <2>2 DEF InsertField
      <3>2. NewString(c, NextField(c)) \in Strings
        BY <1>1, <3>1, UnbornShrinks
      <3>3. freed' # freed => NewString(c, NextField(c)) \notin UnbornStrings'
        BY <1>2, <3>1
      <3> QED
        BY <1>1, <2>2, <3>2, <3>3, NamesDisjoint DEF UnbornInv
    <2>3. CASE freed' = freed \cup held[c]
      BY <1>0, <1>1, <2>3, NamesDisjoint DEF UnbornInv
    <2>4. CASE \E s \in held[c] : freed' = freed \cup {s}
      BY <1>0, <1>1, <2>4, NamesDisjoint DEF UnbornInv
    <2>5. CASE DeleteTable(c) /\ freed' = freed \cup {field_table[c]}
      <3>1. field_table[c] \in Tables /\ field_table[c] \notin UnbornTables
        BY <1>0, <2>5 DEF DeleteTable, FieldsAt, Deleting, UnbornInv
      <3> QED
        BY <1>1, <2>5, <3>1, NamesDisjoint DEF UnbornInv
    <2> QED
      BY <2>1, <2>2, <2>3, <2>4, <2>5, FreeSteps
  <1>5. \A d \in Clients : held'[d] \cap UnbornStrings' = {}
    <2>1. held'[c] \subseteq held[c] \cup Placed
      BY LocalSteps
    <2> QED
      BY <1>0, <1>1, <2>1 DEF UnbornInv
  <1>6. UnbornTables' \cap RecordTables' = {}
    <2>1. CASE RecordTables' \subseteq RecordTables
      BY <1>1, <2>1 DEF UnbornInv
    <2>2. CASE Publish(c) /\ RecordTables' \subseteq RecordTables \cup {NewTable(c)}
      BY <1>1, <1>2, <2>2 DEF UnbornInv, Publish
    <2> QED
      BY <2>1, <2>2, RecordTablesSteps
  <1>7. \A d \in Clients : pc'[d] \in InTable \cup Deleting => field_table'[d] \notin UnbornTables'
    <2>1. ASSUME pc'[c] \in InTable PROVE field_table'[c] \notin UnbornTables'
      <3>1. CASE Publish(c) /\ field_table'[c] = NewTable(c)
        BY <1>2, <3>1 DEF Publish
      <3>2. CASE field_table'[c] \in RecordTables
        BY <1>1, <3>2 DEF UnbornInv
      <3>3. CASE pc[c] \in InTable /\ field_table'[c] = field_table[c]
        BY <1>1, <3>3 DEF UnbornInv
      <3> QED
        BY <2>1, <3>1, <3>2, <3>3, LocalSteps
    <2>2. ASSUME pc'[c] \in Deleting PROVE field_table'[c] \notin UnbornTables'
      <3>1. field_table'[c] \in RecordTables \/ (pc[c] \in Deleting /\ field_table'[c] = field_table[c])
        BY <2>2, LocalSteps DEF Deleting
      <3> QED
        BY <1>1, <3>1 DEF UnbornInv
    <2> QED
      BY <1>0, <1>1, <2>1, <2>2 DEF UnbornInv
  <1>8. ASSUME NEW t \in UnbornTables' PROVE Entries(t)' = {}
    <2>1. t \in UnbornTables /\ t \in Tables
      BY <1>1
    <2>2. Entries(t) = {}
      BY <2>1 DEF UnbornInv
    <2>3. Puts(c) => field_table[c] \notin UnbornTables
      BY PutEffect DEF UnbornInv
    <2> QED
      BY <2>1, <2>2, <2>3, EntriesSteps
  <1> QED
    BY <1>3, <1>4, <1>5, <1>6, <1>7, <1>8 DEF UnbornInv

\* A table is published once, a string put once.
LEMMA OnePlaceKept ==
    ASSUME TypeInv, UnbornInv, OnePlace, NEW c \in Clients, Client(c)
    PROVE  OnePlace'
  <1>0. HeapTypes /\ (pc[c] = "publish" => key[c] \in Keys)
    BY DEF TypeInv, CallAt
  <1>1. \A k, l \in Keys : key_table'[k] = key_table'[l] /\ key_table'[k] # NULL => k = l
    <2>1. CASE key_table' = key_table
      BY <2>1 DEF OnePlace
    <2>2. CASE Publish(c) /\ key_table' = [key_table EXCEPT ![key[c]] = NewTable(c)]
      <3>1. NewTable(c) \notin RecordTables /\ NewTable(c) # NULL
        BY <2>2, UnbornShrinks, NullAssumption DEF Publish, UnbornInv, UnbornTables
      <3>2. \A k \in Keys : key_table[k] # NewTable(c)
        BY <3>1 DEF RecordTables
      <3>3. \A k \in Keys : key_table'[k] = IF k = key[c] THEN NewTable(c) ELSE key_table[k]
        BY <1>0, <2>2 DEF HeapTypes
      <3> QED
        BY <3>2, <3>3 DEF OnePlace
    <2>3. CASE key_table' = [key_table EXCEPT ![key[c]] = NULL]
      <3>1. \A k \in Keys : key_table'[k] = IF k = key[c] THEN NULL ELSE key_table[k]
        BY <1>0, <2>3 DEF HeapTypes
      <3> QED
        BY <3>1 DEF OnePlace
    <2> QED
      BY <2>1, <2>2, <2>3, RecordSteps
  <1>2. \A t, u \in Tables : \A f, g \in Fields :
          tables'[t][f] = tables'[u][g] /\ tables'[t][f] # NULL => t = u /\ f = g
    <2>1. CASE tables' = tables
      BY <2>1 DEF OnePlace
    <2>2. CASE Puts(c)
      <3>1. PICK t \in Tables, f \in Fields, s \in Strings :
              /\ t = field_table[c] /\ s = NewString(c, NextField(c))
              /\ tables' = [tables EXCEPT ![t][f] = s]
        BY <2>2, PutEffect
      <3>2. \A u \in Tables, g \in Fields : tables'[u][g] = IF u = t /\ g = f THEN s ELSE tables[u][g]
        BY <1>0, <3>1 DEF HeapTypes
      <3>3. s \notin Placed /\ s # NULL
        BY <2>2, <3>1, UnbornShrinks, NullAssumption DEF UnbornInv, Puts
      <3>4. \A u \in Tables, g \in Fields : tables[u][g] # s
        BY <3>3 DEF Placed, Entries
      <3> QED
        BY <3>2, <3>4 DEF OnePlace
    <2> QED
      BY <2>1, <2>2, EntriesSteps
  <1> QED
    BY <1>1, <1>2 DEF OnePlace

\* The entries of different tables are different.
LEMMA EntriesDisjoint ==
    ASSUME OnePlace, NEW t \in Tables, NEW u \in Tables, t # u
    PROVE  Entries(t) \cap Entries(u) = {}
  BY DEF OnePlace, Entries

\* What one call takes away no other call finds.
LEMMA TakenAwayKept ==
    ASSUME TypeInv, UnbornInv, OnePlace, NEW c \in Clients, Client(c), NEW d \in Clients, TakenAway(d)
    PROVE  TakenAway(d)'
  <1>0. /\ LocalTypes /\ HeapTypes /\ FieldsAt(c) /\ FieldsAt(d) /\ CallAt(c)
        /\ held[d] \in SUBSET Strings /\ held[c] \in SUBSET Strings
    BY DEF TypeInv, LocalTypes
  <1>1. /\ pc[c] = "publish" => NewTable(c) \in UnbornTables
        /\ Puts(c) => NewString(c, NextField(c)) \in UnbornStrings
    BY UnbornShrinks DEF Puts
  <1>2. held[d] \cap UnbornStrings = {}
    BY DEF UnbornInv
  <1>3. \A u \in Tables : held[d] \cap Entries(u)' \subseteq held[d] \cap Entries(u)
    BY <1>1, <1>2, EntriesSteps
  <1>4. held[d] \cap Placed' \subseteq held[d] \cap Placed
    BY <1>1, <1>2, EntriesSteps
  <1>5. pc[d] \in Deleting /\ field_table[d] \notin RecordTables => field_table[d] \notin RecordTables'
    <2>1. CASE RecordTables' \subseteq RecordTables
      BY <2>1
    <2>2. CASE Publish(c) /\ RecordTables' \subseteq RecordTables \cup {NewTable(c)}
      BY <1>1, <2>2 DEF Publish, UnbornInv
    <2> QED
      BY <2>1, <2>2, RecordTablesSteps
  <1>6. CASE d # c
    <2>1. pc'[d] = pc[d] /\ held'[d] = held[d] /\ field_table'[d] = field_table[d]
      BY <1>6, OwnSteps
    <2> QED
      BY <1>3, <1>4, <1>5, <2>1 DEF TakenAway, Deleting
  <1>7. CASE d = c
    <2>1. ASSUME pc'[c] = "deleteOld" PROVE held'[c] \cap Placed' = {}
      <3>1. PICK t \in Tables, f \in Fields, s \in Strings :
              /\ t = field_table[c] /\ f = NextField(c) /\ s = NewString(c, NextField(c))
              /\ tables' = [tables EXCEPT ![t][f] = s]
        BY <2>1, LocalSteps, PutEffect
      <3>2. held'[c] = {tables[t][f]} /\ tables[t][f] # NULL
        BY <2>1, <3>1, LocalSteps
      <3>3. tables[t][f] \in Placed
        BY <1>0, <3>2 DEF Placed, Entries, HeapTypes
      <3>4. s \notin Placed
        BY <2>1, <3>1, <1>1, LocalSteps DEF UnbornInv
      <3>5. \A u \in Tables, g \in Fields : tables'[u][g] = IF u = t /\ g = f THEN s ELSE tables[u][g]
        BY <1>0, <3>1 DEF HeapTypes
      <3>6. \A u \in Tables, g \in Fields : tables'[u][g] # tables[t][f]
        BY <3>2, <3>3, <3>4, <3>5 DEF OnePlace
      <3>7. tables[t][f] \notin Placed'
        BY <3>6 DEF Placed, Entries
      <3> QED
        BY <3>2, <3>7
    <2>2. ASSUME pc'[c] \in Deleting PROVE field_table'[c] \notin RecordTables'
      <3>1. CASE pc[c] \in Deleting /\ field_table'[c] = field_table[c]
        BY <1>5, <1>7, <3>1 DEF TakenAway
      <3>2. CASE Remove(c) /\ field_table'[c] = key_table[key[c]] /\ field_table'[c] \in RecordTables
        <4>1. key[c] \in Keys /\ key_table' = [key_table EXCEPT ![key[c]] = NULL]
              /\ key_table[key[c]] # NULL
          BY <1>0, <3>2 DEF Remove, CallAt, RecordTables
        <4>2. \A k \in Keys : key_table'[k] = IF k = key[c] THEN NULL ELSE key_table[k]
          BY <1>0, <4>1 DEF HeapTypes
        <4>3. \A k \in Keys : key_table'[k] # key_table[key[c]]
          BY <4>1, <4>2 DEF OnePlace
        <4>4. key_table[key[c]] \notin RecordTables'
          BY <4>3 DEF RecordTables
        <4> QED
          BY <3>2, <4>4
      <3> QED
        BY <2>2, <3>1, <3>2, LocalSteps DEF Deleting
    <2>3. ASSUME pc'[c] = "deleteTable", NEW u \in Tables \ {field_table'[c]} PROVE held'[c] \cap Entries(u)' = {}
      <3>1. CASE ListDeleted(c) /\ held'[c] = Entries(field_table[c]) /\ field_table'[c] = field_table[c]
                 /\ pc[c] = "listDeleted"
        <4>1. field_table[c] \in Tables /\ tables' = tables /\ u # field_table[c]
          BY <1>0, <2>3, <3>1 DEF ListDeleted, heapVars, FieldsAt, Deleting
        <4>2. Entries(u)' = Entries(u)
          BY <4>1 DEF Entries
        <4> QED
          BY <3>1, <4>1, <4>2, EntriesDisjoint
      <3>2. CASE pc[c] = "deleteTable" /\ field_table'[c] = field_table[c] /\ held'[c] \subseteq held[c]
        BY <1>3, <1>7, <2>3, <3>2 DEF TakenAway
      <3> QED
        BY <2>3, <3>1, <3>2, LocalSteps DEF Deleting
    <2> QED
      BY <1>7, <2>1, <2>2, <2>3 DEF TakenAway
  <1> QED
    BY <1>6, <1>7

\* No step frees a record or what is in it, or puts what is freed in a record.
LEMMA LiveKept ==
    ASSUME TypeInv, PlaceInv, NEW c \in Clients, Client(c)
    PROVE  Live'
  <1>0. /\ LocalTypes /\ HeapTypes /\ FieldsAt(c) /\ held[c] \in SUBSET Strings
        /\ UnbornInv /\ OnePlace /\ Live /\ TakenAway(c) /\ RecordTables \subseteq Tables
    BY DEF TypeInv, LocalTypes, PlaceInv, RecordTables, HeapTypes
  <1>1. /\ pc[c] = "publish" => NewTable(c) \in UnbornTables
        /\ Puts(c) => NewString(c, NextField(c)) \in UnbornStrings
        /\ InsertField(c) => NewString(c, NextField(c)) \in UnbornStrings
    BY UnbornShrinks DEF Puts, InsertField
  <1>2. CASE Publish(c) /\ tables' = tables /\ freed' = freed /\ RecordTables' \subseteq RecordTables \cup {NewTable(c)}
    <2>1. NewTable(c) \notin freed /\ Entries(NewTable(c)) = {}
      BY <1>0, <1>1, <1>2 DEF UnbornInv, Publish
    <2>2. \A t \in RecordTables' : Entries(t)' = Entries(t)
      BY <1>2 DEF Entries
    <2> QED
      BY <1>0, <1>2, <2>1, <2>2 DEF Live
  <1>3. CASE RecordTables' \subseteq RecordTables
    <2> SUFFICES ASSUME NEW t \in RecordTables' PROVE t \notin freed' /\ Entries(t)' \cap freed' = {}
      BY DEF Live
    <2>1. t \in RecordTables /\ t \in Tables /\ t \notin freed /\ Entries(t) \cap freed = {}
          /\ Entries(t) \subseteq Placed /\ Entries(t) \subseteq Strings
      BY <1>0, <1>3, EntriesType DEF Live, Placed
    <2>2. Entries(t)' \cap freed = {}
      <3>1. Puts(c) => NewString(c, NextField(c)) \notin freed
        BY <1>0, <1>1 DEF UnbornInv
      <3> QED
        BY <2>1, <3>1, EntriesSteps
    <2>3. CASE freed' = freed
      BY <2>1, <2>2, <2>3
    <2>4. CASE InsertField(c) /\ tables' = tables /\ freed' = freed \cup {NewString(c, NextField(c))}
      <3>1. Entries(t)' = Entries(t)
        BY <2>4 DEF Entries
      <3>2. NewString(c, NextField(c)) \in Strings /\ NewString(c, NextField(c)) \notin Placed
        BY <1>0, <1>1, <2>4 DEF UnbornInv, UnbornStrings
      <3> QED
        BY <2>1, <2>4, <3>1, <3>2, NamesDisjoint
    <2>5. CASE DeleteOld(c) /\ freed' = freed \cup held[c]
      <3>1. held[c] \cap Placed = {} /\ ~Puts(c)
        BY <1>0, <2>5 DEF DeleteOld, TakenAway, Puts
      <3>2. Entries(t)' \subseteq Entries(t)
        BY <2>1, <3>1, EntriesSteps
      <3> QED
        BY <1>0, <2>1, <2>5, <3>1, <3>2, NamesDisjoint
    <2>6. CASE DeleteStrings(c) /\ \E s \in held[c] : freed' = freed \cup {s}
      <3>1. pc[c] = "deleteTable" /\ ~Puts(c)
        BY <2>6 DEF DeleteStrings, Puts
      <3>2. t # field_table[c]
        BY <1>0, <2>1, <3>1 DEF TakenAway, Deleting
      <3>3. held[c] \cap Entries(t) = {}
        BY <1>0, <2>1, <3>1, <3>2 DEF TakenAway
      <3>4. Entries(t)' \subseteq Entries(t)
        BY <2>1, <3>1, EntriesSteps
      <3> QED
        BY <1>0, <2>1, <2>6, <3>3, <3>4, NamesDisjoint
    <2>7. CASE DeleteTable(c) /\ freed' = freed \cup {field_table[c]}
      <3>1. pc[c] = "deleteTable" /\ ~Puts(c) /\ field_table[c] \in Tables
        BY <1>0, <2>7 DEF DeleteTable, Puts, FieldsAt, Deleting
      <3>2. t # field_table[c]
        BY <1>0, <2>1, <3>1 DEF TakenAway, Deleting
      <3>3. Entries(t)' \subseteq Entries(t)
        BY <2>1, <3>1, EntriesSteps
      <3> QED
        BY <2>1, <2>7, <3>1, <3>2, <3>3, NamesDisjoint
    <2> QED
      BY <2>3, <2>4, <2>5, <2>6, <2>7, FreeSteps
  <1> QED
    BY <1>2, <1>3, RecordTablesSteps

LEMMA PlaceCorrect == Spec => []PlaceInv
  <1> USE DEF PlaceInv
  <1>1. Init => PlaceInv
    <2> SUFFICES ASSUME Init PROVE PlaceInv
      OBVIOUS
    <2>1. RecordTables = {} /\ Placed = {} /\ freed = {} /\ \A t \in Tables : Entries(t) = {}
      BY DEF Init, RecordTables, Placed, Entries
    <2>2. \A c \in Clients : held[c] = {} /\ pc[c] = "idle"
      BY DEF Init
    <2>3. UnbornInv
      BY <2>1, <2>2 DEF UnbornInv, UnbornTables, InTable, Deleting
    <2>4. OnePlace
      BY DEF OnePlace, Init
    <2>5. Live /\ \A c \in Clients : TakenAway(c)
      BY <2>1, <2>2 DEF Live, TakenAway, Deleting
    <2> QED
      BY <2>3, <2>4, <2>5
  <1>2. TypeInv /\ PlaceInv /\ [Next]_vars => PlaceInv'
    <2> SUFFICES ASSUME TypeInv, PlaceInv, [Next]_vars PROVE PlaceInv'
      OBVIOUS
    <2>1. ASSUME NEW c \in Clients, Client(c) PROVE PlaceInv'
      <3>1. UnbornInv' /\ OnePlace' /\ Live'
        BY <2>1, UnbornKept, OnePlaceKept, LiveKept
      <3>2. \A d \in Clients : TakenAway(d)'
        BY <2>1, TakenAwayKept
      <3> QED
        BY <3>1, <3>2
    <2>2. CASE Destroy
      <3>1. /\ \A c \in Clients : pc[c] = "idle" /\ pc'[c] = "destroyed"
            /\ tables' = tables /\ calls' = calls /\ held' = held /\ freed' = freed \cup Reachable
            /\ \A k \in Keys : key_table'[k] = NULL
        BY <2>2 DEF Destroy
      <3>2. RecordTables' = {} /\ Placed' = Placed /\ \A t \in Tables : Entries(t)' = Entries(t)
        BY <3>1 DEF RecordTables, Placed, Entries
      <3>3. UnbornStrings' \subseteq UnbornStrings /\ UnbornTables' \subseteq UnbornTables
        <4>1. \A c \in Clients : Coming(c)' = {} /\ Coming(c) = {}
          BY <3>1 DEF Coming
        <4>2. \A s \in Strings : s[1] \in Clients
          BY DEF Strings
        <4>3. \A t \in Tables : t[1] \in Clients
          BY DEF Tables
        <4> QED
          BY <3>1, <4>1, <4>2, <4>3 DEF UnbornStrings, UnbornTables
      <3>4. RecordTables \subseteq Tables /\ \A t \in RecordTables : Entries(t) \subseteq Placed /\ Entries(t) \subseteq Strings
        BY EntriesType DEF TypeInv, HeapTypes, RecordTables, Placed
      <3>5. UnbornStrings \cap Reachable = {} /\ UnbornTables \cap Reachable = {}
        BY <3>4, NamesDisjoint DEF Reachable, UnbornInv, UnbornStrings, UnbornTables
      <3>6. UnbornInv'
        <4>1. UnbornStrings' \cap (Placed' \cup freed') = {} /\ UnbornTables' \cap (RecordTables' \cup freed') = {}
          BY <3>1, <3>2, <3>3, <3>5 DEF UnbornInv
        <4>2. \A c \in Clients : held'[c] \cap UnbornStrings' = {}
          BY <3>1, <3>3 DEF UnbornInv
        <4>3. \A c \in Clients : pc'[c] \notin InTable \cup Deleting
          BY <3>1 DEF InTable, Deleting
        <4>4. \A t \in UnbornTables' : Entries(t)' = {}
          BY <3>2, <3>3 DEF UnbornInv, UnbornTables
        <4> QED
          BY <4>1, <4>2, <4>3, <4>4 DEF UnbornInv
      <3>7. OnePlace'
        BY <3>1 DEF OnePlace
      <3>8. Live' /\ \A c \in Clients : TakenAway(c)'
        BY <3>1, <3>2 DEF Live, TakenAway, Deleting
      <3> QED
        BY <3>6, <3>7, <3>8
    <2>3. CASE UNCHANGED vars
      <3>1. \A c \in Clients : Coming(c)' = Coming(c)
        BY <2>3 DEF vars, Coming, RestOf, NextField
      <3>2. UnbornStrings' = UnbornStrings /\ UnbornTables' = UnbornTables
        <4>1. \A s \in Strings : s[1] \in Clients
          BY DEF Strings
        <4> QED
          BY <2>3, <3>1, <4>1 DEF vars, UnbornStrings, UnbornTables
      <3>3. Placed' = Placed /\ RecordTables' = RecordTables /\ \A t \in Tables : Entries(t)' = Entries(t)
        BY <2>3 DEF vars, Placed, RecordTables, Entries
      <3>4. UnbornInv'
        BY <2>3, <3>2, <3>3 DEF vars, UnbornInv, UnbornTables
      <3>5. RecordTables \subseteq Tables
        BY DEF TypeInv, HeapTypes, RecordTables
      <3>6. OnePlace' /\ Live'
        BY <2>3, <3>3, <3>5 DEF vars, OnePlace, Live
      <3>7. \A c \in Clients : TakenAway(c)'
        BY <2>3, <3>3 DEF vars, TakenAway
      <3> QED
        BY <3>4, <3>6, <3>7
    <2> QED
      BY <2>1, <2>2, <2>3 DEF Next, Stopped
  <1> QED
    BY <1>1, <1>2, TypeCorrect, PTL DEF Spec

-----------------------------------------------------------------------------
(* Clients with keys of their own *)

\* What a call has allocated or taken away, and nobody else has.
Holding(c) ==
    CASE pc[c] = "insertMissing" -> {NewString(c, NextField(c))}
      [] pc[c] = "deleteOld" -> held[c]
      [] pc[c] = "listDeleted" -> {field_table[c]} \cup Entries(field_table[c])
      [] pc[c] = "deleteTable" -> {field_table[c]} \cup held[c]
      [] OTHER -> {}

\* The client whose calls a heap object is named by.
Of(c) == {o \in Tables \cup Strings : o[1] = c}

\* A client works on the tables and the strings of its own calls.
OwnTables ==
    /\ \A c \in Clients : \A k \in workload.write[c] : key_table[k] \in Of(c) \cup {NULL}
    /\ \A t \in Tables : Entries(t) \subseteq Of(t[1])

\* While it writes, its table is the record of its key, and the fields it found
\* missing stay so.
OwnRecord(c) ==
    /\ pc[c] = "publish" => key_table[key[c]] = NULL
    /\ pc[c] \in InTable => key_table[key[c]] = field_table[c]
    /\ pc[c] = "insertField" /\ call[c] = "Update" => \A f \in todo[c] : tables[field_table[c]][f] = NULL
    /\ pc[c] = "insertMissing" => tables[field_table[c]][NextField(c)] = NULL
    /\ pc[c] \in Deleting => field_table[c] \in Of(c)
    /\ pc[c] \in {"deleteOld", "deleteTable"} => held[c] \subseteq Of(c)

\* Strings that are unborn are not allocated, but the one of a field found missing;
\* tables that are unborn are not either.
NotAllocated ==
    /\ \A s \in UnbornStrings \cap allocated : pc[s[1]] = "insertMissing" /\ s \in Holding(s[1])
    /\ UnbornTables \cap allocated = {}

\* Everything allocated and not freed is in a record or owned by a call.
Accounted == allocated \ freed = Reachable \cup UNION {Holding(c) : c \in Clients}

AllOwned ==
    /\ OwnTables /\ NotAllocated /\ Accounted
    /\ \A c \in Clients : OwnRecord(c)

OwnInv == OwnWrites /\ NoUseAfterFree => AllOwned

\* Two calls that write at the same time write to different keys.
Writing == {"publish", "remove"} \cup InTable \cup Deleting

LEMMA WritersKeys ==
    ASSUME TypeInv, NEW c \in Clients, pc[c] \in Writing
    PROVE  /\ key[c] \in Keys /\ key[c] \in workload.write[c]
           /\ OwnWrites => \A d \in Clients \ {c} : key[c] \notin workload.write[d]
  <1>1. pc[c] \notin {"idle", "destroyed"} /\ (calls[c] > 0 => call[c] \in Writers)
    BY DEF TypeInv, CallAt, Writing, InTable, Deleting, Writers
  <1>2. key[c] \in Keys /\ key[c] \in workload.write[c]
    BY <1>1 DEF TypeInv, CallAt
  <1> QED
    BY <1>2 DEF OwnWrites

\* A step that has an effect on a record or a table is a writer's.
LEMMA EffectsOfWriters ==
    ASSUME TypeInv, NEW c \in Clients, Client(c)
    PROVE  key_table' # key_table \/ Puts(c) => pc[c] \in Writing
  BY RecordSteps DEF Puts, Publish, Remove, Writing, InTable

\* The table a call writes to is the client's own.
LEMMA OwnPut ==
    ASSUME TypeInv, OwnTables, NEW c \in Clients, OwnRecord(c), Client(c), Puts(c)
    PROVE  \E t \in Tables, f \in Fields, s \in Strings :
              /\ t = field_table[c] /\ f = NextField(c) /\ s = NewString(c, NextField(c))
              /\ tables' = [tables EXCEPT ![t][f] = s]
              /\ t = key_table[key[c]] /\ t \in RecordTables /\ t \in Of(c) /\ s \in Of(c) /\ s # NULL
              /\ t[1] = c
              /\ \A u \in Tables, g \in Fields : tables'[u][g] = IF u = t /\ g = f THEN s ELSE tables[u][g]
  <1>1. PICK t \in Tables, f \in Fields, s \in Strings :
              /\ t = field_table[c] /\ f = NextField(c) /\ s = NewString(c, NextField(c))
              /\ tables' = [tables EXCEPT ![t][f] = s]
              /\ pc[c] \in InTable
    BY PutEffect
  <1>2. key[c] \in Keys /\ key[c] \in workload.write[c]
    BY <1>1, WritersKeys DEF Writing
  <1>3. t = key_table[key[c]] /\ t # NULL /\ s # NULL
    BY <1>1, NullAssumption DEF OwnRecord
  <1>4. t \in RecordTables /\ t \in Of(c)
    BY <1>2, <1>3 DEF RecordTables, OwnTables
  <1>5. s \in Of(c)
    BY <1>1 DEF Of, NewString
  <1>6. \A u \in Tables, g \in Fields : tables'[u][g] = IF u = t /\ g = f THEN s ELSE tables[u][g]
    BY <1>1 DEF TypeInv, HeapTypes
  <1> QED
    BY <1>1, <1>3, <1>4, <1>5, <1>6 DEF Of

LEMMA OwnTablesKept ==
    ASSUME TypeInv, OwnWrites, OwnTables, NEW c \in Clients, OwnRecord(c), Client(c)
    PROVE  OwnTables'
  <1>0. HeapTypes /\ workload' = workload /\ \A d \in Clients : workload.write[d] \subseteq Keys
    BY OwnSteps, WorkloadTypes DEF TypeInv, CallTypes
  <1>1. ASSUME NEW d \in Clients, NEW k \in workload.write[d] PROVE key_table'[k] \in Of(d) \cup {NULL}
    <2>1. CASE key_table' = key_table
      BY <2>1 DEF OwnTables
    <2>2. CASE Publish(c) /\ key_table' = [key_table EXCEPT ![key[c]] = NewTable(c)]
      <3>1. pc[c] \in Writing /\ NewTable(c) \in Of(c)
        BY <2>2, NewNames DEF Publish, Writing, Of, NewTable
      <3>2. k = key[c] => d = c
        BY <3>1, WritersKeys
      <3>3. key_table'[k] = IF k = key[c] THEN NewTable(c) ELSE key_table[k]
        BY <1>0, <2>2 DEF HeapTypes
      <3> QED
        BY <3>1, <3>2, <3>3 DEF OwnTables
    <2>3. CASE key_table' = [key_table EXCEPT ![key[c]] = NULL]
      <3>1. key_table'[k] = IF k = key[c] THEN NULL ELSE key_table[k]
        BY <1>0, <2>3 DEF HeapTypes
      <3> QED
        BY <3>1 DEF OwnTables
    <2> QED
      BY <2>1, <2>2, <2>3, RecordSteps
  <1>2. ASSUME NEW u \in Tables PROVE Entries(u)' \subseteq Of(u[1])
    <2>1. CASE Entries(u)' \subseteq Entries(u)
      BY <2>1 DEF OwnTables
    <2>2. CASE Puts(c) /\ u = field_table[c] /\ Entries(u)' \subseteq Entries(u) \cup {NewString(c, NextField(c))}
      <3>1. u[1] = c /\ NewString(c, NextField(c)) \in Of(c)
        BY <2>2, OwnPut
      <3> QED
        BY <2>2, <3>1 DEF OwnTables
    <2> QED
      BY <2>1, <2>2, EntriesSteps
  <1> QED
    BY <1>0, <1>1, <1>2 DEF OwnTables, Of

\* What is known of a call's record is not changed by the calls of other clients.
LEMMA OthersRecord ==
    ASSUME TypeInv, OwnWrites, OwnTables, NEW c \in Clients, OwnRecord(c), Client(c),
           NEW d \in Clients \ {c}, OwnRecord(d)
    PROVE  OwnRecord(d)'
  <1>0. /\ pc'[d] = pc[d] /\ call'[d] = call[d] /\ key'[d] = key[d] /\ todo'[d] = todo[d]
        /\ field_table'[d] = field_table[d] /\ held'[d] = held[d]
        /\ HeapTypes /\ FieldsAt(d) /\ todo[d] \in SUBSET Fields
    BY OwnSteps DEF TypeInv, CallTypes
  <1>1. pc[d] \in {"publish"} \cup InTable => key_table'[key[d]] = key_table[key[d]]
    <2> SUFFICES ASSUME pc[d] \in {"publish"} \cup InTable PROVE key_table'[key[d]] = key_table[key[d]]
      OBVIOUS
    <2>1. key[d] \in Keys /\ key[d] \in workload.write[d]
      BY WritersKeys DEF Writing
    <2>2. key_table' # key_table => key[c] # key[d]
      BY <2>1, EffectsOfWriters, WritersKeys
    <2>3. CASE key_table' = [key_table EXCEPT ![key[c]] = NewTable(c)] \/ key_table' = [key_table EXCEPT ![key[c]] = NULL]
      BY <1>0, <2>1, <2>2, <2>3 DEF HeapTypes
    <2> QED
      BY <2>3, RecordSteps
  <1>2. pc[d] \in InTable => \A f \in Fields : tables'[field_table[d]][f] = tables[field_table[d]][f]
    <2> SUFFICES ASSUME pc[d] \in InTable, NEW f \in Fields
                 PROVE  tables'[field_table[d]][f] = tables[field_table[d]][f]
      OBVIOUS
    <2>1. field_table[d] \in Tables /\ field_table[d][1] = d
      <3>1. key[d] \in workload.write[d] /\ field_table[d] \in Tables
        BY <1>0, WritersKeys DEF Writing, FieldsAt
      <3> QED
        BY <3>1, NullAssumption DEF OwnRecord, OwnTables, Of
    <2> QED
      BY <2>1, EntriesSteps, OwnPut
  <1>3. pc[d] \in InTable => todo[d] # {} /\ NextField(d) \in Fields
    BY <1>0, NextOfTodo DEF FieldsAt
  <1>4. NextField(d)' = NextField(d)
    BY <1>0 DEF NextField
  <1>5. pc[d] \in {"insertField", "insertMissing"} => pc[d] \in InTable
    BY DEF InTable
  <1> QED
    BY <1>0, <1>1, <1>2, <1>3, <1>4, <1>5 DEF OwnRecord, Of

LEMMA OwnRecordKept ==
    ASSUME TypeInv, UnbornInv, OwnTables, NEW c \in Clients, OwnRecord(c), Client(c), ~Undefined(c)
    PROVE  OwnRecord(c)'
  <1>0. /\ CallTypes /\ HeapTypes /\ LocalTypes /\ CallAt(c) /\ FieldsAt(c)
        /\ todo[c] \in SUBSET Fields /\ key[c] \in Keys \cup {NULL}
    BY DEF TypeInv, CallTypes
  <1>1. CASE Begin(c)
    <2>1. PICK name \in workload.calls : pc' = [pc EXCEPT ![c] = Entry(name)]
      BY <1>1, BeginEffect
    <2>2. pc'[c] \in {"get", "scan", "remove"}
      BY <1>0, <2>1, WorkloadTypes DEF Entry, CallNames, CallTypes
    <2> QED
      BY <2>2 DEF OwnRecord, InTable, Deleting
  <1>2. CASE Get(c)
    <2>1. /\ field_table'[c] = key_table[key[c]] /\ key_table' = key_table /\ key' = key /\ call' = call
          /\ pc'[c] \in {"idle", "list", "publish", "insertField", "updateField"}
      BY <1>0, <1>2 DEF Get, heapVars, GoTo, Return, CallTypes, LocalTypes
    <2>2. /\ pc'[c] = "publish" => key_table[key[c]] = NULL
          /\ pc'[c] = "insertField" => call[c] = "Insert"
      BY <1>0, <1>2 DEF Get, GoTo, Return, CallTypes
    <2> QED
      BY <2>1, <2>2 DEF OwnRecord, InTable, Deleting
  <1>3. CASE Publish(c)
    <2>1. /\ pc[c] = "publish" /\ pc'[c] = "insertField" /\ field_table'[c] = NewTable(c)
          /\ tables' = tables /\ key' = key /\ todo' = todo
      BY <1>0, <1>3 DEF Publish, GoTo, CallTypes, LocalTypes
    <2>2. key_table[key[c]] = NULL /\ key[c] \in Keys /\ NewTable(c) \in Tables
      BY <2>1, WritersKeys, NewNames DEF OwnRecord, Writing
    <2>3. key_table'[key[c]] = NewTable(c)
      BY <1>0, <1>3, <2>2 DEF Publish, HeapTypes
    <2>4. Entries(NewTable(c)) = {}
      BY <2>1, UnbornShrinks DEF UnbornInv
    <2>5. \A f \in Fields : tables[NewTable(c)][f] = NULL
      BY <2>4 DEF Entries
    <2> QED
      BY <1>0, <2>1, <2>3, <2>5 DEF OwnRecord, InTable, Deleting
  <1>4. CASE InsertField(c)
    <2>1. /\ pc[c] = "insertField" /\ key_table' = key_table /\ key' = key /\ call' = call
          /\ field_table' = field_table
      BY <1>4 DEF InsertField
    <2>2. \/ pc'[c] = "idle"
          \/ pc'[c] = "insertField" /\ todo'[c] = RestOf(c)
      <3>1. (pc' = pc /\ todo' = [todo EXCEPT ![c] = RestOf(c)]) \/ pc'[c] = "idle"
        BY <1>0, <1>4 DEF InsertField, Return, GoTo, CallTypes
      <3> QED
        BY <1>0, <2>1, <3>1 DEF CallTypes
    <2>3. ASSUME call[c] = "Update", NEW f \in RestOf(c) PROVE tables'[field_table[c]][f] = NULL
      <3>1. f \in todo[c] /\ f \in Fields /\ f # NextField(c)
        BY <1>0, <2>3 DEF RestOf
      <3>2. tables[field_table[c]][f] = NULL /\ field_table[c] \in Tables
        BY <1>0, <2>1, <2>3, <3>1 DEF OwnRecord, FieldsAt, InTable
      <3>3. CASE Puts(c)
        BY <3>1, <3>2, <3>3, OwnPut
      <3> QED
        BY <3>2, <3>3, EntriesSteps
    <2> QED
      BY <2>1, <2>2, <2>3 DEF OwnRecord, InTable, Deleting
  <1>5. CASE UpdateField(c)
    <2>1. /\ pc[c] = "updateField" /\ key_table' = key_table /\ key' = key /\ todo' = todo
          /\ field_table' = field_table /\ pc'[c] \in {"insertMissing", "deleteOld"}
      BY <1>0, <1>5 DEF UpdateField, GoTo, CallTypes
    <2>2. pc'[c] = "insertMissing" => tables' = tables /\ tables[field_table[c]][NextField(c)] = NULL
      BY <1>0, <1>5, <2>1 DEF UpdateField, GoTo, CallTypes
    <2>3. pc'[c] = "deleteOld" => held'[c] \subseteq Of(c)
      <3> SUFFICES ASSUME pc'[c] = "deleteOld" PROVE held'[c] \subseteq Of(c)
        OBVIOUS
      <3>1. /\ Puts(c) /\ held'[c] = {tables[field_table[c]][NextField(c)]}
            /\ tables[field_table[c]][NextField(c)] # NULL
        BY LocalSteps
      <3>2. field_table[c] \in Tables /\ NextField(c) \in Fields /\ field_table[c][1] = c
        BY <3>1, OwnPut
      <3> QED
        BY <3>1, <3>2 DEF OwnTables, Entries
    <2>4. NextField(c)' = NextField(c)
      BY <2>1 DEF NextField
    <2>5. Of(c)' = Of(c)
      BY DEF Of
    <2> QED
      BY <2>1, <2>2, <2>3, <2>4, <2>5 DEF OwnRecord, InTable, Deleting
  <1>6. CASE InsertMissing(c) \/ DeleteOld(c)
    <2>1. /\ pc[c] \in InTable /\ key_table' = key_table /\ key' = key
          /\ field_table' = field_table /\ pc'[c] \in {"idle", "updateField"}
      BY <1>0, <1>6 DEF InsertMissing, DeleteOld, NextUpdate, GoTo, Return, CallTypes, InTable
    <2> QED
      BY <2>1 DEF OwnRecord, InTable, Deleting
  <1>7. CASE ScanKeys(c) \/ ListFields(c) \/ CopyValue(c) \/ EndList(c)
    <2>1. pc'[c] \in {"list", "copy", "idle"}
      BY <1>0, <1>7 DEF ScanKeys, ListFields, CopyValue, EndList, GoTo, Return, CallTypes
    <2> QED
      BY <2>1 DEF OwnRecord, InTable, Deleting
  <1>8. CASE Remove(c)
    <2>1. pc[c] = "remove" /\ field_table'[c] = key_table[key[c]] /\ pc'[c] \in {"idle", "listDeleted"}
          /\ (pc'[c] = "listDeleted" => key_table[key[c]] # NULL)
      BY <1>0, <1>8 DEF Remove, GoTo, Return, CallTypes, LocalTypes
    <2>2. key_table[key[c]] \in Of(c) \cup {NULL}
      BY <2>1, WritersKeys DEF OwnTables, Writing
    <2> QED
      BY <2>1, <2>2 DEF OwnRecord, InTable, Deleting, Of
  <1>9. CASE ListDeleted(c) \/ DeleteStrings(c) \/ DeleteTable(c)
    <2>1. pc[c] \in Deleting /\ field_table' = field_table /\ pc'[c] \in {"deleteTable", "idle"}
      BY <1>0, <1>9 DEF ListDeleted, DeleteStrings, DeleteTable, GoTo, Return, CallTypes, Deleting
    <2>2. field_table[c] \in Of(c) /\ field_table[c] \in Tables /\ field_table[c][1] = c
      BY <1>0, <2>1 DEF OwnRecord, FieldsAt, Of
    <2>3. pc'[c] = "deleteTable" => held'[c] \subseteq Of(c)
      BY <1>0, <2>1, <2>2, LocalSteps DEF OwnRecord, Deleting, OwnTables, Remove
    <2> QED
      BY <2>1, <2>2, <2>3 DEF OwnRecord, InTable, Deleting, Of
  <1> QED
    BY <1>1, <1>2, <1>3, <1>4, <1>5, <1>6, <1>7, <1>8, <1>9 DEF Client

\* A string is allocated and at once put in a table, freed, or kept for the field
\* the call found missing.
LEMMA NotAllocatedKept ==
    ASSUME TypeInv, UnbornInv, NotAllocated, NEW c \in Clients, OwnRecord(c), Client(c), ~Undefined(c)
    PROVE  NotAllocated'
  <1>0. /\ CallTypes /\ HeapTypes /\ LocalTypes /\ CallAt(c) /\ FieldsAt(c)
        /\ todo[c] \in SUBSET Fields
        /\ \A d \in Clients \ {c} : pc'[d] = pc[d] /\ calls'[d] = calls[d] /\ todo'[d] = todo[d]
    BY OwnSteps DEF TypeInv, CallTypes
  <1>1. /\ UnbornStrings' \subseteq UnbornStrings /\ UnbornTables' \subseteq UnbornTables
        /\ UnbornStrings \subseteq Strings /\ UnbornTables \subseteq Tables
    BY UnbornShrinks DEF UnbornStrings, UnbornTables
  <1>2. \A s \in Strings : s[1] \in Clients
    BY DEF Strings
  <1>3. ASSUME InsertField(c) PROVE Puts(c) \/ freed' # freed
    <2>1. pc[c] = "insertField" /\ NextField(c) \in todo[c]
      BY <1>0, <1>3, NextOfTodo DEF InsertField, FieldsAt, InTable
    <2>2. CASE tables[field_table[c]][NextField(c)] = NULL
      BY <1>3, <2>2 DEF InsertField, Puts
    <2>3. CASE tables[field_table[c]][NextField(c)] # NULL
      <3>1. call[c] # "Update"
        BY <2>1, <2>3 DEF OwnRecord
      <3>2. freed' = freed \cup {NewString(c, NextField(c))}
        BY <1>3, <2>3, <3>1 DEF InsertField, Conflict
      <3>3. NewString(c, NextField(c)) \notin freed
        BY <2>1, UnbornShrinks DEF UnbornInv
      <3> QED
        BY <3>2, <3>3
    <2> QED
      BY <2>2, <2>3
  <1>4. ASSUME UpdateField(c)
        PROVE  Puts(c) \/ (pc'[c] = "insertMissing" /\ NewString(c, NextField(c))' = NewString(c, NextField(c)))
    BY <1>0, <1>4 DEF UpdateField, Puts, GoTo, CallTypes, NewString, NextField
  <1>5. ASSUME InsertMissing(c) PROVE Puts(c)
    <2>1. tables[field_table[c]][NextField(c)] = NULL
      BY <1>5 DEF InsertMissing, OwnRecord
    <2> QED
      BY <1>5, <2>1 DEF InsertMissing, Puts
  <1>6. ASSUME NEW s \in UnbornStrings', s \in allocated'
        PROVE  pc'[s[1]] = "insertMissing" /\ s \in Holding(s[1])'
    <2>1. s \in UnbornStrings /\ s \in Strings /\ s[1] \in Clients
      BY <1>1, <1>2
    <2>2. CASE s \in allocated
      <3>1. pc[s[1]] = "insertMissing" /\ s = NewString(s[1], NextField(s[1]))
        BY <2>1, <2>2 DEF NotAllocated, Holding
      <3>2. s[1] # c
        <4> SUFFICES ASSUME s[1] = c PROVE FALSE
          OBVIOUS
        <4>1. InsertMissing(c)
          BY <3>1 DEF Client, Begin, Get, Publish, InsertField, UpdateField, DeleteOld, ScanKeys,
                      ListFields, CopyValue, EndList, Remove, ListDeleted, DeleteStrings, DeleteTable
        <4>2. NewString(c, NextField(c)) \notin UnbornStrings'
          BY <1>5, <3>1, <4>1, UnbornShrinks
        <4> QED
          BY <1>6, <3>1, <4>2
      <3> DEFINE d == s[1]
      <3>3. d \in Clients \ {c}
        BY <2>1, <3>2
      <3> HIDE DEF d
      <3>4. NewString(d, NextField(d))' = NewString(d, NextField(d)) /\ pc'[d] = pc[d]
        BY <1>0, <3>3 DEF NewString, NextField
      <3>5. pc[d] = "insertMissing" /\ s = NewString(d, NextField(d))
        BY <3>1 DEF d
      <3>6. pc'[d] = "insertMissing" /\ s \in Holding(d)'
        BY <3>4, <3>5 DEF Holding
      <3> QED
        BY <3>6 DEF d
    <2>3. CASE s \notin allocated
      <3>1. s # NewTable(c) \/ ~Publish(c)
        BY <2>1, NewNames, NamesDisjoint DEF Publish
      <3>2. (InsertField(c) \/ UpdateField(c)) /\ s = NewString(c, NextField(c))
        BY <1>6, <2>3, <3>1, AllocationSteps
      <3>3. ~Puts(c) /\ freed' = freed
        BY <1>6, <3>2, UnbornShrinks DEF InsertField, UpdateField
      <3>4. pc'[c] = "insertMissing" /\ s = NewString(c, NextField(c))'
        BY <1>3, <1>4, <3>2, <3>3
      <3>5. s[1] = c
        BY <3>2 DEF NewString
      <3>6. s \in Holding(c)'
        BY <3>4 DEF Holding
      <3> QED
        BY <3>4, <3>5, <3>6
    <2> QED
      BY <2>2, <2>3
  <1>7. UnbornTables' \cap allocated' = {}
    <2>1. CASE allocated' = allocated
      BY <1>1, <2>1 DEF NotAllocated
    <2>2. CASE Publish(c) /\ allocated' = allocated \cup {NewTable(c)}
      <3>1. NewTable(c) \notin UnbornTables'
        BY <2>2, UnbornShrinks DEF Publish
      <3> QED
        BY <1>1, <2>2, <3>1 DEF NotAllocated
    <2>3. CASE (InsertField(c) \/ UpdateField(c)) /\ allocated' = allocated \cup {NewString(c, NextField(c))}
      <3>1. NewString(c, NextField(c)) \in Strings
        BY <1>1, <2>3, UnbornShrinks DEF InsertField, UpdateField
      <3> QED
        BY <1>1, <2>3, <3>1, NamesDisjoint DEF NotAllocated
    <2> QED
      BY <2>1, <2>2, <2>3, AllocationSteps
  <1> QED
    BY <1>6, <1>7 DEF NotAllocated

\* What a call holds is the client's own, and stays with it while others run.
LEMMA HoldingOwn ==
    ASSUME TypeInv, OwnTables, NEW c \in Clients, OwnRecord(c)
    PROVE  Holding(c) \subseteq Of(c)
  <1>0. FieldsAt(c) /\ CallAt(c) /\ todo[c] \in SUBSET Fields
    BY DEF TypeInv, CallTypes
  <1>1. CASE pc[c] = "insertMissing"
    <2>1. NewString(c, NextField(c)) \in Strings
      BY <1>0, <1>1, NextOfTodo, NewNames DEF FieldsAt, InTable
    <2> QED
      BY <1>1, <2>1 DEF Holding, Of, NewString
  <1>2. CASE pc[c] = "deleteOld"
    BY <1>2 DEF Holding, OwnRecord
  <1>3. CASE pc[c] \in Deleting
    <2>1. field_table[c] \in Of(c) /\ field_table[c] \in Tables /\ field_table[c][1] = c
      BY <1>0, <1>3 DEF OwnRecord, FieldsAt, Of
    <2>2. Entries(field_table[c]) \subseteq Of(c)
      BY <2>1 DEF OwnTables
    <2>3. pc[c] = "deleteTable" => held[c] \subseteq Of(c)
      BY DEF OwnRecord
    <2> QED
      BY <1>3, <2>1, <2>2, <2>3 DEF Holding, Deleting
  <1>4. CASE pc[c] \notin {"insertMissing", "deleteOld"} \cup Deleting
    BY <1>4 DEF Holding, Deleting
  <1> QED
    BY <1>1, <1>2, <1>3, <1>4

LEMMA OthersHolding ==
    ASSUME TypeInv, OwnTables, NEW c \in Clients, OwnRecord(c), Client(c),
           NEW d \in Clients \ {c}, OwnRecord(d)
    PROVE  Holding(d)' = Holding(d)
  <1>1. /\ pc'[d] = pc[d] /\ held'[d] = held[d] /\ field_table'[d] = field_table[d]
        /\ calls'[d] = calls[d] /\ todo'[d] = todo[d]
    BY OwnSteps
  <1>2. NewString(d, NextField(d))' = NewString(d, NextField(d))
    BY <1>1 DEF NewString, NextField
  <1>3. pc[d] = "listDeleted" => Entries(field_table[d])' = Entries(field_table[d])
    <2> SUFFICES ASSUME pc[d] = "listDeleted" PROVE Entries(field_table[d])' = Entries(field_table[d])
      OBVIOUS
    <2>1. field_table[d] \in Tables /\ field_table[d][1] = d
      BY DEF TypeInv, FieldsAt, Deleting, OwnRecord, Of
    <2>2. \A f \in Fields : tables'[field_table[d]][f] = tables[field_table[d]][f]
      BY <2>1, EntriesSteps, OwnPut
    <2> QED
      BY <1>1, <2>2 DEF Entries
  <1> QED
    BY <1>1, <1>2, <1>3 DEF Holding

\* A put string takes the place of what was in the field.
LEMMA ReachablePut ==
    ASSUME TypeInv, OnePlace, OwnTables, NEW c \in Clients, OwnRecord(c), Client(c), Puts(c)
    PROVE  LET old == tables[field_table[c]][NextField(c)] IN
           Reachable' \cup ({old} \ {NULL}) = Reachable \cup {NewString(c, NextField(c))}
  <1>1. PICK t \in Tables, f \in Fields, s \in Strings :
              /\ t = field_table[c] /\ f = NextField(c) /\ s = NewString(c, NextField(c))
              /\ t \in RecordTables /\ s # NULL
              /\ \A u \in Tables, g \in Fields : tables'[u][g] = IF u = t /\ g = f THEN s ELSE tables[u][g]
    BY OwnPut
  <1>2. key_table' = key_table
    BY RecordSteps DEF Puts, Publish, Remove
  <1>3. RecordTables' = RecordTables /\ RecordTables \subseteq Tables
    BY <1>2 DEF RecordTables, TypeInv, HeapTypes
  <1>4. ASSUME NEW u \in RecordTables, u # t PROVE Entries(u)' = Entries(u)
    BY <1>1, <1>3, <1>4 DEF Entries
  <1>5. Entries(t)' \cup ({tables[t][f]} \ {NULL}) = Entries(t) \cup {s}
    <2>1. \A g \in Fields : tables'[t][g] = IF g = f THEN s ELSE tables[t][g]
      BY <1>1
    <2> QED
      BY <1>1, <2>1 DEF Entries
  <1>6. Reachable' \cup ({tables[t][f]} \ {NULL}) = Reachable \cup {s}
    BY <1>1, <1>3, <1>4, <1>5 DEF Reachable
  <1> QED
    BY <1>1, <1>6

\* A step that changes neither the records nor the tables changes nothing reachable.
LEMMA ReachableSame ==
    ASSUME key_table' = key_table, tables' = tables
    PROVE  Reachable' = Reachable
  BY DEF Reachable, RecordTables, Entries

\* Each step keeps the balance of what its call allocates, puts, holds and frees.
LEMMA Balance ==
    ASSUME TypeInv, PlaceInv, AllOwned, OwnWrites, NEW c \in Clients, Client(c), ~Undefined(c),
           NEW others, others \cap Of(c) = {},
           allocated \ freed = Reachable \cup Holding(c) \cup others
    PROVE  allocated' \ freed' = Reachable' \cup Holding(c)' \cup others
  <1>0. /\ CallTypes /\ HeapTypes /\ LocalTypes /\ CallAt(c) /\ FieldsAt(c)
        /\ todo[c] \in SUBSET Fields
        /\ OwnTables /\ NotAllocated /\ OwnRecord(c) /\ UnbornInv /\ OnePlace /\ TakenAway(c)
        /\ Holding(c) \subseteq Of(c)
    BY HoldingOwn DEF TypeInv, CallTypes, AllOwned, PlaceInv
  <1>1. Reachable' \cap freed' = {}
    BY LiveKept DEF Live, Reachable
  <1>2. pc[c] \in {"insertField", "updateField"} =>
           /\ NewString(c, NextField(c)) \notin freed /\ NewString(c, NextField(c)) \notin allocated
           /\ NextField(c) \in todo[c] /\ NewString(c, NextField(c)) \in Of(c)
    <2> SUFFICES ASSUME pc[c] \in {"insertField", "updateField"}
                 PROVE  /\ NewString(c, NextField(c)) \notin freed /\ NewString(c, NextField(c)) \notin allocated
                        /\ NextField(c) \in todo[c] /\ NewString(c, NextField(c)) \in Of(c)
      OBVIOUS
    <2>1. NewString(c, NextField(c)) \in UnbornStrings /\ NewString(c, NextField(c))[1] = c
      BY UnbornShrinks DEF NewString
    <2> QED
      BY <1>0, <2>1, NextOfTodo DEF UnbornInv, UnbornStrings, NotAllocated, FieldsAt, InTable, Of
  <1>3. CASE Begin(c) \/ Get(c) \/ ScanKeys(c) \/ ListFields(c) \/ CopyValue(c) \/ EndList(c)
    <2>1. UNCHANGED heapVars
      BY <1>3 DEF Begin, Get, ScanKeys, ListFields, CopyValue, EndList
    <2>2. pc[c] \in {"idle", "get", "scan", "list", "copy"}
      BY <1>3 DEF Begin, Get, ScanKeys, ListFields, CopyValue, EndList
    <2>3. pc'[c] \in {"idle", "get", "scan", "remove", "list", "publish", "insertField", "updateField", "copy"}
      <3>1. CASE Begin(c)
        <4>1. PICK name \in workload.calls : pc' = [pc EXCEPT ![c] = Entry(name)]
          BY <3>1, BeginEffect
        <4> QED
          BY <1>0, <4>1, WorkloadTypes DEF Entry, CallNames, CallTypes
      <3>2. CASE ~Begin(c)
        BY <1>0, <1>3, <3>2 DEF Get, ScanKeys, ListFields, CopyValue, EndList, GoTo, Return, CallTypes
      <3> QED
        BY <3>1, <3>2
    <2>4. Holding(c) = {} /\ Holding(c)' = {}
      BY <2>2, <2>3 DEF Holding
    <2> QED
      BY <2>1, <2>4, ReachableSame DEF heapVars
  <1>4. CASE Publish(c)
    <2>1. /\ pc[c] = "publish" /\ pc'[c] = "insertField" /\ tables' = tables /\ freed' = freed
          /\ allocated' = allocated \cup {NewTable(c)}
      BY <1>0, <1>4 DEF Publish, GoTo, CallTypes
    <2>2. key_table[key[c]] = NULL /\ key[c] \in Keys /\ NewTable(c) \in Tables /\ NewTable(c) # NULL
      BY <1>0, <2>1, WritersKeys, NewNames DEF OwnRecord, Writing
    <2>3. \A k \in Keys : key_table'[k] = IF k = key[c] THEN NewTable(c) ELSE key_table[k]
      BY <1>0, <1>4, <2>2 DEF Publish, HeapTypes
    <2>4. RecordTables' = RecordTables \cup {NewTable(c)}
      BY <2>2, <2>3 DEF RecordTables
    <2>5. NewTable(c) \notin freed /\ Entries(NewTable(c)) = {}
      BY <1>0, <2>1, UnbornShrinks DEF UnbornInv
    <2>6. \A u \in Tables : Entries(u)' = Entries(u)
      BY <2>1 DEF Entries
    <2>7. RecordTables \subseteq Tables
      BY <1>0 DEF RecordTables, HeapTypes
    <2>8. Reachable' = Reachable \cup {NewTable(c)}
      BY <2>2, <2>4, <2>5, <2>6, <2>7 DEF Reachable
    <2>9. Holding(c) = {} /\ Holding(c)' = {}
      BY <2>1 DEF Holding
    <2> QED
      BY <2>1, <2>5, <2>8, <2>9
  <1>5. CASE InsertField(c)
    <2>1. pc[c] = "insertField" /\ pc'[c] \in {"insertField", "idle"}
          /\ allocated' = allocated \cup {NewString(c, NextField(c))} /\ key_table' = key_table
      <3>1. pc' = pc \/ pc'[c] = "idle"
        BY <1>0, <1>5 DEF InsertField, Return, GoTo, CallTypes
      <3> QED
        BY <1>5, <3>1 DEF InsertField
    <2>2. Holding(c) = {} /\ Holding(c)' = {}
      BY <2>1 DEF Holding
    <2>3. CASE tables[field_table[c]][NextField(c)] = NULL
      <3>1. Puts(c) /\ freed' = freed
        BY <1>5, <2>3 DEF InsertField, Puts
      <3>2. Reachable' = Reachable \cup {NewString(c, NextField(c))}
        BY <1>0, <2>3, <3>1, ReachablePut
      <3> QED
        BY <1>2, <2>1, <2>2, <3>1, <3>2
    <2>4. CASE tables[field_table[c]][NextField(c)] # NULL
      <3>1. call[c] # "Update"
        BY <1>0, <1>2, <2>1, <2>4 DEF OwnRecord
      <3>2. freed' = freed \cup {NewString(c, NextField(c))} /\ tables' = tables
        BY <1>5, <2>4, <3>1 DEF InsertField, Conflict
      <3> QED
        BY <1>2, <2>1, <2>2, <3>2, ReachableSame
    <2> QED
      BY <2>3, <2>4
  <1>6. CASE UpdateField(c)
    <2>1. pc[c] = "updateField" /\ freed' = freed /\ todo' = todo /\ calls' = calls
          /\ allocated' = allocated \cup {NewString(c, NextField(c))} /\ key_table' = key_table
      BY <1>6 DEF UpdateField
    <2>2. Holding(c) = {}
      BY <2>1 DEF Holding
    <2>3. CASE tables[field_table[c]][NextField(c)] = NULL
      <3>1. pc'[c] = "insertMissing" /\ tables' = tables
        BY <1>0, <1>6, <2>3 DEF UpdateField, GoTo, CallTypes
      <3>2. Holding(c)' = {NewString(c, NextField(c))}
        BY <2>1, <3>1 DEF Holding, NewString, NextField
      <3> QED
        BY <1>2, <2>1, <2>2, <3>1, <3>2, ReachableSame
    <2>4. CASE tables[field_table[c]][NextField(c)] # NULL
      <3>1. pc'[c] = "deleteOld" /\ held'[c] = {tables[field_table[c]][NextField(c)]} /\ Puts(c)
        BY <1>0, <1>6, <2>4 DEF UpdateField, GoTo, CallTypes, LocalTypes, Puts
      <3>2. Holding(c)' = {tables[field_table[c]][NextField(c)]}
        BY <3>1 DEF Holding
      <3>3. Reachable' \cup {tables[field_table[c]][NextField(c)]} = Reachable \cup {NewString(c, NextField(c))}
        BY <1>0, <2>4, <3>1, ReachablePut
      <3> QED
        BY <1>2, <2>1, <2>2, <3>2, <3>3
    <2> QED
      BY <2>3, <2>4
  <1>7. CASE InsertMissing(c)
    <2>1. pc[c] = "insertMissing" /\ freed' = freed /\ allocated' = allocated
          /\ pc'[c] \in {"idle", "updateField"} /\ key_table' = key_table
      BY <1>0, <1>7 DEF InsertMissing, NextUpdate, GoTo, Return, CallTypes
    <2>2. Holding(c) = {NewString(c, NextField(c))} /\ Holding(c)' = {}
      BY <2>1 DEF Holding
    <2>3. tables[field_table[c]][NextField(c)] = NULL
      BY <1>0, <2>1 DEF OwnRecord
    <2>4. Puts(c)
      BY <1>7, <2>3 DEF InsertMissing, Puts
    <2>5. Reachable' = Reachable \cup {NewString(c, NextField(c))}
      BY <1>0, <2>3, <2>4, ReachablePut
    <2> QED
      BY <2>1, <2>2, <2>5
  <1>8. CASE DeleteOld(c)
    <2>1. pc[c] = "deleteOld" /\ freed' = freed \cup held[c] /\ allocated' = allocated
          /\ pc'[c] \in {"idle", "updateField"} /\ key_table' = key_table /\ tables' = tables
      BY <1>0, <1>8 DEF DeleteOld, NextUpdate, GoTo, Return, CallTypes
    <2>2. Holding(c) = held[c] /\ Holding(c)' = {}
      BY <2>1 DEF Holding
    <2>3. Reachable' = Reachable
      BY <2>1, ReachableSame
    <2> QED
      BY <1>0, <1>1, <2>1, <2>2, <2>3
  <1>9. CASE Remove(c)
    <2>1. /\ pc[c] = "remove" /\ freed' = freed /\ allocated' = allocated /\ tables' = tables
          /\ key_table' = [key_table EXCEPT ![key[c]] = NULL] /\ field_table'[c] = key_table[key[c]]
          /\ pc'[c] = IF key_table[key[c]] = NULL THEN "idle" ELSE "listDeleted"
      BY <1>0, <1>9 DEF Remove, GoTo, Return, CallTypes, LocalTypes
    <2>2. key[c] \in Keys
      BY <2>1, WritersKeys DEF Writing
    <2>3. \A k \in Keys : key_table'[k] = IF k = key[c] THEN NULL ELSE key_table[k]
      BY <1>0, <2>1 DEF HeapTypes
    <2>4. Holding(c) = {}
      BY <2>1 DEF Holding
    <2>5. \A u : Entries(u)' = Entries(u)
      BY <2>1 DEF Entries
    <2>6. CASE key_table[key[c]] = NULL
      <3>1. RecordTables' = RecordTables /\ Holding(c)' = {}
        BY <2>1, <2>3, <2>6 DEF RecordTables, Holding
      <3> QED
        BY <2>1, <2>4, <2>5, <3>1 DEF Reachable
    <2>7. CASE key_table[key[c]] # NULL
      <3>1. RecordTables = RecordTables' \cup {key_table[key[c]]}
        BY <2>2, <2>3, <2>7 DEF RecordTables
      <3>2. Holding(c)' = {key_table[key[c]]} \cup Entries(key_table[key[c]])
        BY <2>1, <2>7 DEF Holding, Entries
      <3>3. Reachable = Reachable' \cup Holding(c)'
        BY <2>5, <3>1, <3>2 DEF Reachable
      <3> QED
        BY <2>1, <2>4, <3>3
    <2> QED
      BY <2>6, <2>7
  <1>10. CASE ListDeleted(c)
    <2>1. /\ pc[c] = "listDeleted" /\ pc'[c] = "deleteTable" /\ UNCHANGED heapVars
          /\ field_table' = field_table /\ held'[c] = Entries(field_table[c])
      BY <1>0, <1>10 DEF ListDeleted, GoTo, CallTypes, LocalTypes
    <2>2. Holding(c)' = Holding(c)
      BY <2>1 DEF Holding
    <2> QED
      BY <2>1, <2>2, ReachableSame DEF heapVars
  <1>11. CASE DeleteStrings(c)
    <2>1. PICK s \in held[c] : freed' = freed \cup {s} /\ held' = [held EXCEPT ![c] = @ \ {s}]
      BY <1>11 DEF DeleteStrings
    <2>2. /\ pc[c] = "deleteTable" /\ pc' = pc /\ key_table' = key_table /\ tables' = tables
          /\ allocated' = allocated /\ field_table' = field_table /\ held'[c] = held[c] \ {s}
      BY <1>0, <1>11, <2>1 DEF DeleteStrings, LocalTypes
    <2>3. Holding(c) = {field_table[c]} \cup held[c] /\ Holding(c)' = {field_table[c]} \cup (held[c] \ {s})
      BY <2>2 DEF Holding
    <2>4. s # field_table[c] /\ s \in Of(c)
      BY <1>0, <2>2, <2>3, NamesDisjoint DEF LocalTypes, FieldsAt, Deleting
    <2>5. Reachable' = Reachable
      BY <2>2, ReachableSame
    <2> QED
      BY <1>1, <2>1, <2>2, <2>3, <2>4, <2>5
  <1>12. CASE DeleteTable(c)
    <2>1. /\ pc[c] = "deleteTable" /\ pc'[c] = "idle" /\ key_table' = key_table /\ tables' = tables
          /\ allocated' = allocated /\ held[c] = {} /\ freed' = freed \cup {field_table[c]}
      BY <1>0, <1>12 DEF DeleteTable, Return, GoTo, CallTypes
    <2>2. Holding(c) = {field_table[c]} /\ Holding(c)' = {}
      BY <2>1 DEF Holding
    <2>3. Reachable' = Reachable
      BY <2>1, ReachableSame
    <2> QED
      BY <1>0, <1>1, <2>1, <2>2, <2>3
  <1> QED
    BY <1>3, <1>4, <1>5, <1>6, <1>7, <1>8, <1>9, <1>10, <1>11, <1>12 DEF Client

LEMMA AccountedKept ==
    ASSUME TypeInv, PlaceInv, AllOwned, OwnWrites, NEW c \in Clients, Client(c), ~Undefined(c)
    PROVE  Accounted'
  <1> DEFINE others == UNION {Holding(d) : d \in Clients \ {c}}
  <1>1. \A d \in Clients \ {c} : Holding(d)' = Holding(d) /\ Holding(d) \subseteq Of(d)
    BY OthersHolding, HoldingOwn DEF AllOwned
  <1>2. \A d \in Clients \ {c} : Of(d) \cap Of(c) = {}
    BY DEF Of
  <1>3. others \cap Of(c) = {}
    BY <1>1, <1>2
  <1>4. UNION {Holding(d) : d \in Clients} = Holding(c) \cup others
    OBVIOUS
  <1>5. (UNION {Holding(d) : d \in Clients})' = Holding(c)' \cup others
    BY <1>1
  <1>6. allocated \ freed = Reachable \cup Holding(c) \cup others
    BY <1>4 DEF AllOwned, Accounted
  <1> HIDE DEF others
  <1>7. allocated' \ freed' = Reachable' \cup Holding(c)' \cup others
    BY <1>3, <1>6, Balance
  <1> QED
    BY <1>5, <1>7 DEF Accounted

LEMMA OwnCorrect == Spec => []OwnInv
  <1>1. Init => OwnInv
    <2> SUFFICES ASSUME Init PROVE AllOwned
      BY DEF OwnInv
    <2>1. /\ RecordTables = {} /\ allocated = {} /\ \A t \in Tables : Entries(t) = {}
          /\ \A c \in Clients : pc[c] = "idle"
      BY DEF Init, RecordTables, Entries
    <2>2. Reachable = {} /\ \A c \in Clients : Holding(c) = {}
      BY <2>1 DEF Reachable, Holding
    <2>3. OwnTables
      <3>1. \A c \in Clients : workload.write[c] \subseteq Keys
        BY WorkloadTypes DEF Init
      <3> QED
        BY <2>1, <3>1 DEF OwnTables, Init
    <2>4. \A c \in Clients : OwnRecord(c)
      BY <2>1 DEF OwnRecord, InTable, Deleting
    <2> QED
      BY <2>1, <2>2, <2>3, <2>4 DEF AllOwned, NotAllocated, Accounted
  <1>2. TypeInv /\ PlaceInv /\ OwnInv /\ [Next]_vars => OwnInv'
    <2> SUFFICES ASSUME TypeInv, PlaceInv, OwnInv, [Next]_vars, OwnWrites', NoUseAfterFree' PROVE AllOwned'
      BY DEF OwnInv
    <2>0. UnbornInv
      BY DEF PlaceInv
    <2>1. ASSUME NEW c \in Clients, Client(c) PROVE AllOwned'
      <3>1. OwnWrites /\ pc'[c] # "undefined" /\ pc[c] # "undefined" /\ \A d \in Clients \ {c} : pc[d] # "undefined"
        <4>1. OwnWrites /\ pc'[c] # "undefined" /\ \A d \in Clients \ {c} : pc[d] # "undefined"
          BY <2>1, OwnSteps DEF OwnWrites, NoUseAfterFree
        <4>2. pc[c] # "undefined"
          BY <2>1 DEF Client, Begin, Get, Publish, InsertField, UpdateField, InsertMissing, DeleteOld, ScanKeys,
                      ListFields, CopyValue, EndList, Remove, ListDeleted, DeleteStrings, DeleteTable
        <4> QED
          BY <4>1, <4>2
      <3>2. NoUseAfterFree
        BY <3>1 DEF NoUseAfterFree
      <3>3. AllOwned /\ \A d \in Clients : OwnRecord(d)
        BY <3>1, <3>2 DEF OwnInv, AllOwned
      <3>4. ~Undefined(c)
        BY <3>1 DEF Undefined, GoTo, TypeInv, CallTypes
      <3>5. OwnTables' /\ NotAllocated' /\ Accounted'
        BY <2>0, <2>1, <3>1, <3>3, <3>4, OwnTablesKept, NotAllocatedKept, AccountedKept DEF AllOwned
      <3>6. OwnRecord(c)' /\ \A d \in Clients \ {c} : OwnRecord(d)'
        BY <2>0, <2>1, <3>1, <3>3, <3>4, OwnRecordKept, OthersRecord DEF AllOwned
      <3> QED
        BY <3>5, <3>6 DEF AllOwned
    <2>2. CASE Destroy
      <3>1. /\ \A c \in Clients : pc[c] = "idle" /\ pc'[c] = "destroyed"
            /\ tables' = tables /\ calls' = calls /\ freed' = freed \cup Reachable
            /\ allocated' = allocated /\ workload' = workload
            /\ \A k \in Keys : key_table'[k] = NULL
        BY <2>2 DEF Destroy
      <3>2. AllOwned
        BY <2>2, <3>1 DEF OwnInv, NoUseAfterFree, OwnWrites
      <3>3. \A c \in Clients : Holding(c) = {} /\ Holding(c)' = {}
        BY <3>1 DEF Holding
      <3>4. RecordTables' = {} /\ \A t \in Tables : Entries(t)' = Entries(t)
        BY <3>1 DEF RecordTables, Entries
      <3>5. Accounted'
        BY <3>1, <3>2, <3>3, <3>4 DEF AllOwned, Accounted, Reachable
      <3>6. OwnTables'
        <4>1. \A c \in Clients : workload.write[c] \subseteq Keys
          BY WorkloadTypes DEF TypeInv, CallTypes
        <4> QED
          BY <3>1, <3>2, <3>4, <4>1 DEF AllOwned, OwnTables, Of
      <3>7. NotAllocated'
        <4>1. \A s \in Strings : s[1] \in Clients
          BY DEF Strings
        <4>2. \A t \in Tables : t[1] \in Clients
          BY DEF Tables
        <4>3. \A c \in Clients : Coming(c)' = {} /\ Coming(c) = {}
          BY <3>1 DEF Coming
        <4>4. UnbornStrings' = UnbornStrings /\ UnbornTables' = UnbornTables
          BY <3>1, <4>1, <4>2, <4>3 DEF UnbornStrings, UnbornTables
        <4>5. UnbornStrings \cap allocated = {} /\ UnbornTables \cap allocated = {}
          BY <3>1, <3>2, <4>1 DEF AllOwned, NotAllocated, UnbornStrings
        <4> QED
          BY <3>1, <4>4, <4>5 DEF NotAllocated
      <3>8. \A c \in Clients : OwnRecord(c)'
        BY <3>1 DEF OwnRecord, InTable, Deleting
      <3> QED
        BY <3>5, <3>6, <3>7, <3>8 DEF AllOwned
    <2>3. CASE UNCHANGED vars
      <3>1. AllOwned
        BY <2>3 DEF vars, OwnInv, NoUseAfterFree, OwnWrites
      <3>2. /\ \A c \in Clients : Coming(c)' = Coming(c) /\ Holding(c)' = Holding(c)
            /\ \A t \in Tables : Entries(t)' = Entries(t)
        BY <2>3 DEF vars, Coming, RestOf, NextField, NewString, Entries, Holding
      <3>3. \A s \in Strings : s[1] \in Clients
        BY DEF Strings
      <3>4. UnbornStrings' = UnbornStrings /\ UnbornTables' = UnbornTables
        BY <2>3, <3>2, <3>3 DEF vars, UnbornStrings, UnbornTables
      <3>5. OwnTables'
        BY <2>3, <3>1, <3>2 DEF vars, AllOwned, OwnTables, Of
      <3>6. NotAllocated'
        <4>1. UnbornStrings \subseteq Strings
          BY DEF UnbornStrings
        <4> QED
          BY <2>3, <3>1, <3>2, <3>3, <3>4, <4>1 DEF vars, AllOwned, NotAllocated
      <3>7. Accounted'
        <4>1. Reachable' = Reachable
          BY <2>3, ReachableSame DEF vars
        <4> QED
          BY <2>3, <3>1, <3>2, <4>1 DEF vars, AllOwned, Accounted
      <3>8. \A c \in Clients : OwnRecord(c)'
        BY <2>3, <3>1 DEF vars, AllOwned, OwnRecord, NextField, Of
      <3> QED
        BY <3>5, <3>6, <3>7, <3>8 DEF AllOwned
    <2> QED
      BY <2>1, <2>2, <2>3 DEF Next, Stopped
  <1> QED
    BY <1>1, <1>2, TypeCorrect, PlaceCorrect, PTL DEF Spec

\* No record points to a table or a string that has been freed, whatever the calls
\* in progress do, and when the clients write different keys nothing is left
\* allocated between calls that is in no record: the deletions of HashtableDB's
\* Update, Insert and Delete, and its destructor, neither free too much nor too little.
THEOREM RecordsAreKept == Spec => []HeapConsistent
  <1>1. PlaceInv /\ OwnInv => HeapConsistent
    <2> SUFFICES ASSUME PlaceInv, OwnInv PROVE HeapConsistent
      OBVIOUS
    <2>1. Reachable \cap freed = {}
      BY DEF PlaceInv, Live, Reachable
    <2>2. ASSUME OwnWrites, \A c \in Clients : pc[c] \in {"idle", "destroyed"} PROVE allocated \ freed = Reachable
      <3>1. Accounted
        BY <2>2 DEF OwnInv, AllOwned, NoUseAfterFree
      <3>2. \A c \in Clients : Holding(c) = {}
        BY <2>2 DEF Holding
      <3> QED
        BY <3>1, <3>2 DEF Accounted
    <2> QED
      BY <2>1, <2>2 DEF HeapConsistent
  <1> QED
    BY <1>1, PlaceCorrect, OwnCorrect, PTL

-----------------------------------------------------------------------------
(* Inserts *)

\* No other client writes the key of this client's call.
Sole(c) == \A d \in Clients \ {c} : key[c] \notin workload.write[d]

\* What an Insert has written is in the record of its key.
Written(c, fs) ==
    /\ key_table[key[c]] \in Tables
    /\ \A f \in fs : tables[key_table[key[c]]][f] = NewString(c, f)

InsertAt(c) ==
    /\ pc[c] \in {"get", "publish"} => todo[c] = Fields
    /\ pc[c] = "publish" /\ Sole(c) => key_table[key[c]] = NULL
    /\ pc[c] = "insertField" /\ Sole(c) =>
          field_table[c] = key_table[key[c]] /\ Written(c, Fields \ todo[c])
    /\ pc[c] = "idle" /\ ret[c] = kOK /\ Sole(c) => Written(c, Fields)

\* Nothing is freed but the strings nobody has seen.
InsertSteps == {"idle", "get", "publish", "insertField", "scan", "list", "copy", "destroyed"}

InsertInv ==
    InsertOnly =>
        /\ \A c \in Clients : pc[c] \in InsertSteps
        /\ (\E c \in Clients : pc[c] # "destroyed") => freed \cap (Tables \cup Placed) = {}
        /\ \A c \in Clients : /\ held[c] \subseteq Placed
                              /\ call[c] = "Insert" /\ calls[c] > 0 => InsertAt(c)
\* When nothing is replaced or removed no call is at a step that would, and no call
\* finds anything freed.
LEMMA InsertPlaces ==
    ASSUME TypeInv, InsertOnly, NEW c \in Clients
    PROVE  pc[c] \in InsertSteps \cup {"undefined"}
  <1>1. pc[c] \in Places /\ CallAt(c)
    BY DEF TypeInv, CallTypes
  <1>2. calls[c] > 0 => call[c] \notin {"Update", "Delete"}
    BY <1>1 DEF CallAt, InsertOnly
  <1> QED
    BY <1>1, <1>2 DEF CallAt, Places, InsertSteps, Deleting

LEMMA InsertActions ==
    ASSUME TypeInv, InsertInv, InsertOnly, NEW c \in Clients, Client(c)
    PROVE  /\ ~Undefined(c) /\ pc[c] # "destroyed" /\ pc'[c] # "undefined"
           /\ \/ Begin(c) \/ Get(c) \/ Publish(c) \/ InsertField(c)
              \/ ScanKeys(c) \/ ListFields(c) \/ CopyValue(c) \/ EndList(c)
  <1>0. /\ CallTypes /\ LocalTypes /\ FieldsAt(c) /\ CallAt(c) /\ pc[c] \in InsertSteps
        /\ held[c] \subseteq Placed /\ queue[c] \in SUBSET Tables
        /\ pc[c] # "destroyed" => freed \cap (Tables \cup Placed) = {}
    BY DEF TypeInv, LocalTypes, InsertInv
  <1>1. /\ pc[c] # "destroyed"
        /\ \/ Begin(c) \/ Get(c) \/ Publish(c) \/ InsertField(c)
           \/ ScanKeys(c) \/ ListFields(c) \/ CopyValue(c) \/ EndList(c)
    BY <1>0 DEF Client, Begin, Get, Publish, InsertField, UpdateField, InsertMissing, DeleteOld, ScanKeys,
                ListFields, CopyValue, EndList, Remove, ListDeleted, DeleteStrings, DeleteTable, InsertSteps
  <1>2. freed \cap (Tables \cup Placed) = {}
    BY <1>0, <1>1
  <1> USE DEF CallTypes, GoTo, Return
  <1>3. CASE Begin(c)
    <2>1. PICK name \in workload.calls : pc' = [pc EXCEPT ![c] = Entry(name)]
      BY <1>3, BeginEffect
    <2>2. pc'[c] # "undefined"
      BY <1>0, <2>1, WorkloadTypes DEF Entry, CallNames
    <2> QED
      BY <1>0, <1>1, <2>2 DEF Undefined
  <1>4. CASE Get(c) \/ Publish(c) \/ ScanKeys(c) \/ EndList(c)
    <2>1. pc'[c] # "undefined"
      BY <1>0, <1>1, <1>4 DEF Get, Publish, ScanKeys, EndList
    <2> QED
      BY <1>0, <1>1, <2>1 DEF Undefined
  <1>5. CASE InsertField(c)
    <2>1. field_table[c] \in Tables /\ pc[c] = "insertField"
      BY <1>0, <1>5 DEF InsertField, FieldsAt, InTable
    <2>2. pc' = pc \/ pc'[c] = "idle"
      BY <1>0, <1>2, <1>5, <2>1 DEF InsertField
    <2>3. pc'[c] # "undefined"
      BY <2>1, <2>2
    <2> QED
      BY <1>0, <1>1, <2>3 DEF Undefined
  <1>6. CASE ListFields(c) \/ CopyValue(c)
    <2>1. pc'[c] \in {"copy", pc[c]}
      BY <1>0, <1>2, <1>6 DEF ListFields, CopyValue
    <2>2. pc'[c] # "undefined"
      BY <1>0, <2>1 DEF InsertSteps
    <2> QED
      BY <1>0, <1>1, <2>2 DEF Undefined
  <1> QED
    BY <1>1, <1>3, <1>4, <1>5, <1>6

\* Then a record that is there stays, and so does each of its fields.
LEMMA InsertsKeep ==
    ASSUME TypeInv, InsertInv, InsertOnly, NEW c \in Clients, Client(c)
    PROVE  /\ \A k \in Keys : key_table[k] # NULL => key_table'[k] = key_table[k]
           /\ \A t \in Tables, f \in Fields : tables[t][f] # NULL => tables'[t][f] = tables[t][f]
           /\ Placed \subseteq Placed'
  <1>0. HeapTypes /\ FieldsAt(c) /\ todo[c] \in SUBSET Fields
    BY DEF TypeInv, CallTypes
  <1>1. /\ ~Undefined(c)
        /\ \/ Begin(c) \/ Get(c) \/ Publish(c) \/ InsertField(c)
           \/ ScanKeys(c) \/ ListFields(c) \/ CopyValue(c) \/ EndList(c)
    BY InsertActions
  <1>2. \A k \in Keys : key_table[k] # NULL => key_table'[k] = key_table[k]
    <2>1. ~Remove(c)
      BY <1>1 DEF Remove, Begin, Get, Publish, InsertField, ScanKeys, ListFields, CopyValue, EndList
    <2>2. CASE Publish(c) /\ key_table[key[c]] = NULL /\ key_table' = [key_table EXCEPT ![key[c]] = NewTable(c)]
      BY <1>0, <2>2 DEF HeapTypes
    <2> QED
      BY <2>1, <2>2, RecordSteps
  <1>3. \A t \in Tables, f \in Fields : tables[t][f] # NULL => tables'[t][f] = tables[t][f]
    <2>1. CASE InsertField(c)
      <3> DEFINE t == field_table[c]
                 f == NextField(c)
                 s == NewString(c, f)
      <3>1. tables' = tables \/ (tables[t][f] = NULL /\ tables' = [tables EXCEPT ![t][f] = s])
        BY <1>1, <2>1 DEF InsertField, Conflict
      <3>2. t \in Tables /\ f \in Fields
        BY <1>0, <2>1, NextOfTodo DEF InsertField, FieldsAt, InTable
      <3> HIDE DEF t, f, s
      <3> QED
        BY <1>0, <3>1, <3>2 DEF HeapTypes
    <2>2. CASE ~InsertField(c)
      <3>1. tables' = tables
        BY <1>1, <2>2 DEF Begin, Get, Publish, ScanKeys, ListFields, CopyValue, EndList, heapVars
      <3> QED
        BY <3>1
    <2> QED
      BY <2>1, <2>2
  <1>4. Placed \subseteq Placed'
    BY <1>3 DEF Placed, Entries
  <1> QED
    BY <1>2, <1>3, <1>4

\* What a call has written stays in the record of its key.
LEMMA WrittenKept ==
    ASSUME TypeInv, InsertInv, InsertOnly, NEW c \in Clients, Client(c),
           NEW d \in Clients, calls[d] > 0, key'[d] = key[d], calls'[d] = calls[d],
           NEW fs \in SUBSET Fields, Written(d, fs)
    PROVE  Written(d, fs)' /\ key_table'[key[d]] = key_table[key[d]]
  <1>1. key[d] \in Keys /\ key_table[key[d]] \in Tables /\ key_table[key[d]] # NULL
    BY NullAssumption DEF Written, TypeInv, CallAt
  <1>2. key_table'[key[d]] = key_table[key[d]]
    BY <1>1, InsertsKeep
  <1>3. \A f \in fs : NewString(d, f) # NULL /\ NewString(d, f)' = NewString(d, f)
    <2>1. calls[d] \in 1..MaxCalls
      BY SizesAssumption DEF TypeInv, CallTypes
    <2> QED
      BY <2>1, NullAssumption DEF NewString, Strings
  <1>4. \A f \in fs : tables'[key_table[key[d]]][f] = tables[key_table[key[d]]][f]
    BY <1>1, <1>3, InsertsKeep DEF Written
  <1> QED
    BY <1>1, <1>2, <1>3, <1>4 DEF Written

LEMMA OthersInserts ==
    ASSUME TypeInv, InsertInv, InsertOnly, NEW c \in Clients, Client(c),
           NEW d \in Clients \ {c}, calls[d] > 0, InsertAt(d)
    PROVE  InsertAt(d)'
  <1>1. /\ pc'[d] = pc[d] /\ calls'[d] = calls[d] /\ key'[d] = key[d] /\ todo'[d] = todo[d]
        /\ field_table'[d] = field_table[d] /\ ret'[d] = ret[d] /\ workload' = workload
        /\ todo[d] \in SUBSET Fields
    BY OwnSteps DEF TypeInv, CallTypes
  <1>2. Sole(d)' = Sole(d)
    BY <1>1 DEF Sole
  <1>3. ASSUME Sole(d), key_table[key[d]] = NULL, pc[d] = "publish" PROVE key_table'[key[d]] = NULL
    <2>1. key[d] \in Keys
      BY <1>3, WritersKeys DEF Writing
    <2>2. CASE Publish(c) /\ key_table' = [key_table EXCEPT ![key[c]] = NewTable(c)]
      <3>1. key[c] \in workload.write[c]
        BY <2>2, WritersKeys DEF Publish, Writing
      <3>2. key[c] # key[d]
        BY <1>3, <3>1 DEF Sole
      <3> QED
        BY <1>3, <2>1, <2>2, <3>2 DEF TypeInv, HeapTypes
    <2>3. CASE key_table' = [key_table EXCEPT ![key[c]] = NULL]
      BY <1>3, <2>1, <2>3 DEF TypeInv, HeapTypes
    <2> QED
      BY <1>3, <2>2, <2>3, RecordSteps
  <1>4. \A fs \in SUBSET Fields : Written(d, fs) => Written(d, fs)' /\ key_table'[key[d]] = key_table[key[d]]
    BY <1>1, WrittenKept
  <1> QED
    BY <1>1, <1>2, <1>3, <1>4 DEF InsertAt

\* An Insert writes its fields one after another.
LEMMA OwnInsert ==
    ASSUME TypeInv, InsertInv, InsertOnly, NEW c \in Clients, Client(c), call'[c] = "Insert"
    PROVE  InsertAt(c)'
  <1>0. /\ CallTypes /\ LocalTypes /\ HeapTypes /\ FieldsAt(c) /\ CallAt(c)
        /\ todo[c] \in SUBSET Fields /\ workload' = workload
        /\ call[c] = "Insert" /\ calls[c] > 0 => InsertAt(c)
    BY OwnSteps DEF TypeInv, CallTypes, InsertInv
  <1>1. /\ ~Undefined(c)
        /\ \/ Begin(c) \/ Get(c) \/ Publish(c) \/ InsertField(c)
           \/ ScanKeys(c) \/ ListFields(c) \/ CopyValue(c) \/ EndList(c)
    BY InsertActions
  <1> USE DEF GoTo, Return
  <1>2. CASE Begin(c)
    <2>1. PICK name \in workload.calls, fs \in SUBSET Fields :
              /\ name = "Insert" => fs = Fields
              /\ call' = [call EXCEPT ![c] = name]
              /\ todo' = [todo EXCEPT ![c] = fs] /\ pc' = [pc EXCEPT ![c] = Entry(name)]
      BY <1>2, BeginEffect
    <2>2. name = "Insert" /\ pc'[c] = "get" /\ todo'[c] = Fields
      BY <1>0, <2>1 DEF CallTypes, Entry
    <2> QED
      BY <2>2 DEF InsertAt
  <1>3. CASE ~Begin(c)
    <2>1. calls' = calls /\ call' = call /\ key' = key /\ pc[c] \notin {"idle", "destroyed"}
      BY <1>1, <1>3 DEF Get, Publish, InsertField, ScanKeys, ListFields, CopyValue, EndList, Undefined
    <2>2. calls[c] > 0 /\ call[c] = "Insert" /\ InsertAt(c) /\ key[c] \in Keys
      BY <1>0, <2>1 DEF CallAt
    <2>3. Sole(c)' = Sole(c)
      BY <1>0, <2>1 DEF Sole
    <2>4. Get(c) \/ Publish(c) \/ InsertField(c)
      BY <1>0, <1>1, <1>3, <2>2 DEF CallAt, ScanKeys, ListFields, CopyValue, EndList
    <2>5. CASE Get(c)
      <3>1. /\ pc[c] = "get" /\ todo' = todo /\ key_table' = key_table
            /\ field_table'[c] = key_table[key[c]]
            /\ pc'[c] = IF key_table[key[c]] = NULL THEN "publish" ELSE "insertField"
        BY <1>0, <2>2, <2>5 DEF Get, CallTypes, LocalTypes, heapVars
      <3>2. todo[c] = Fields
        BY <2>2, <3>1 DEF InsertAt
      <3>3. pc'[c] = "insertField" => Written(c, Fields \ todo[c])'
        BY <1>0, <2>1, <2>2, <3>1, <3>2 DEF Written, HeapTypes
      <3> QED
        BY <2>1, <3>1, <3>2, <3>3 DEF InsertAt
    <2>6. CASE Publish(c)
      <3>1. /\ pc[c] = "publish" /\ todo' = todo /\ pc'[c] = "insertField"
            /\ field_table'[c] = NewTable(c)
        BY <1>0, <2>6 DEF Publish, CallTypes, LocalTypes
      <3>2. todo[c] = Fields /\ (Sole(c) => key_table[key[c]] = NULL) /\ NewTable(c) \in Tables
        BY <2>2, <3>1, NewNames DEF InsertAt
      <3>3. Sole(c) => key_table'[key[c]] = NewTable(c)
        BY <1>0, <2>2, <2>6, <3>2 DEF Publish, HeapTypes
      <3>4. Sole(c) => Written(c, Fields \ todo[c])'
        BY <2>1, <3>1, <3>2, <3>3 DEF Written
      <3> QED
        BY <2>1, <2>3, <3>1, <3>3, <3>4 DEF InsertAt
    <2>7. CASE InsertField(c)
      <3> DEFINE t == field_table[c]
                 f == NextField(c)
                 s == NewString(c, f)
      <3>1. /\ pc[c] = "insertField" /\ field_table' = field_table /\ key_table' = key_table
            /\ t \in Tables /\ f \in Fields /\ f \in todo[c] /\ todo[c] = RestOf(c) \cup {f}
        BY <1>0, <1>1, <2>7, NextOfTodo DEF InsertField, FieldsAt, InTable
      <3>2. CASE tables[t][f] # NULL
        <4>1. pc'[c] = "idle" /\ ret'[c] # kOK
          BY <1>0, <1>1, <2>2, <2>7, <3>2 DEF InsertField, CallTypes, kOK, kErrorConflict
        <4> QED
          BY <4>1 DEF InsertAt
      <3>3. CASE tables[t][f] = NULL
        <4>0. PICK rest \in SUBSET Fields : rest = RestOf(c)
          BY <1>0 DEF RestOf
        <4>1. /\ tables' = [tables EXCEPT ![t][f] = s]
              /\ todo'[c] = rest
              /\ IF rest = {} THEN pc'[c] = "idle" ELSE pc'[c] = "insertField"
          BY <1>0, <1>1, <2>7, <3>1, <3>3, <4>0 DEF InsertField, CallTypes
        <4>2. ASSUME Sole(c) PROVE field_table'[c] = key_table'[key[c]] /\ Written(c, Fields \ rest)'
          <5>1. t = key_table[key[c]] /\ \A g \in Fields \ todo[c] : tables[t][g] = NewString(c, g)
            BY <2>2, <3>1, <4>2 DEF InsertAt, Written
          <5>2. s = NewString(c, f) /\ \A g \in Fields : NewString(c, g)' = NewString(c, g)
            BY <2>1 DEF s, NewString
          <5>3. field_table'[c] = t /\ key_table' = key_table /\ key' = key
            BY <2>1, <3>1 DEF t
          <5> HIDE DEF t, f, s
          <5>4. \A g \in Fields : tables'[t][g] = IF g = f THEN s ELSE tables[t][g]
            BY <1>0, <3>1, <4>1 DEF HeapTypes
          <5>5. \A g \in Fields \ rest : g = f \/ g \in Fields \ todo[c]
            BY <3>1, <4>0
          <5>6. \A g \in Fields \ rest : tables'[t][g] = NewString(c, g)'
            BY <5>1, <5>2, <5>4, <5>5
          <5>7. key_table'[key'[c]] = t /\ t \in Tables
            BY <3>1, <5>1, <5>3
          <5>8. Written(c, Fields \ rest)'
            BY <5>6, <5>7 DEF Written
          <5> QED
            BY <5>1, <5>3, <5>8
        <4>3. rest = {} => Fields \ rest = Fields
          OBVIOUS
        <4>4. Sole(c)' => /\ field_table'[c] = key_table'[key'[c]]
                          /\ Written(c, Fields \ todo[c])'
                          /\ rest = {} => Written(c, Fields)'
          <5>1. Sole(c)' => /\ field_table'[c] = key_table'[key'[c]] /\ Written(c, Fields \ rest)'
            BY <2>1, <2>3, <4>2
          <5>2. (Fields \ todo[c])' = Fields \ rest
            BY <4>1
          <5> QED
            BY <4>3, <5>1, <5>2 DEF Written
        <4>5. pc'[c] \notin {"get", "publish"} /\ (pc'[c] = "idle" => rest = {})
          BY <4>1
        <4> QED
          BY <4>4, <4>5 DEF InsertAt
      <3> QED
        BY <3>2, <3>3
    <2> QED
      BY <2>4, <2>5, <2>6, <2>7
  <1> QED
    BY <1>2, <1>3

LEMMA InsertCorrect == Spec => []InsertInv
  <1>1. Init => InsertInv
    BY DEF Init, InsertInv, InsertSteps
  <1>2. TypeInv /\ TypeInv' /\ PlaceInv /\ InsertInv /\ [Next]_vars => InsertInv'
    <2> SUFFICES ASSUME TypeInv, TypeInv', PlaceInv, InsertInv, [Next]_vars, InsertOnly' PROVE InsertInv'
      BY DEF InsertInv
    <2>0. InsertOnly /\ UnbornInv
      BY OwnSteps DEF PlaceInv, InsertOnly, Next, Destroy, Stopped, vars
    <2>1. ASSUME NEW c \in Clients, Client(c) PROVE InsertInv'
      <3>1. /\ ~Undefined(c) /\ pc[c] # "destroyed" /\ pc'[c] # "undefined"
            /\ \/ Begin(c) \/ Get(c) \/ Publish(c) \/ InsertField(c)
               \/ ScanKeys(c) \/ ListFields(c) \/ CopyValue(c) \/ EndList(c)
        BY <2>0, <2>1, InsertActions
      <3>2. \A d \in Clients : pc'[d] \in InsertSteps
        <4>1. \A d \in Clients : pc'[d] \in InsertSteps \cup {"undefined"}
          <5> SUFFICES ASSUME NEW d \in Clients PROVE pc'[d] \in InsertSteps \cup {"undefined"}
            OBVIOUS
          <5>1. pc'[d] \in Places /\ CallAt(d)'
            BY DEF TypeInv, CallTypes
          <5>2. calls'[d] > 0 => call'[d] \notin {"Update", "Delete"}
            BY <5>1 DEF CallAt, InsertOnly
          <5> QED
            BY <5>1, <5>2 DEF CallAt, Places, InsertSteps, Deleting
        <4>2. \A d \in Clients \ {c} : pc'[d] = pc[d]
          BY <2>1, OwnSteps
        <4>3. \A d \in Clients : pc[d] # "undefined"
          BY <2>0 DEF InsertInv, InsertSteps
        <4> QED
          BY <3>1, <4>1, <4>2, <4>3
      <3>3. freed' \cap (Tables \cup Placed') = {}
        <4>1. freed \cap (Tables \cup Placed) = {}
          BY <2>0, <3>1 DEF InsertInv
        <4>2. Puts(c) \/ InsertField(c) =>
                 /\ NewString(c, NextField(c)) \in UnbornStrings /\ NewString(c, NextField(c)) \notin freed
                 /\ NewString(c, NextField(c)) \notin Placed /\ NewString(c, NextField(c)) \notin Tables
          BY <2>0, <2>1, UnbornShrinks, NamesDisjoint DEF Puts, InsertField, UnbornInv, UnbornStrings
        <4>3. CASE freed' = freed
          BY <2>1, <4>1, <4>2, <4>3, EntriesSteps
        <4>4. CASE InsertField(c) /\ tables' = tables /\ freed' = freed \cup {NewString(c, NextField(c))}
          <5>1. Placed' = Placed
            BY <4>4 DEF Placed, Entries
          <5> QED
            BY <4>1, <4>2, <4>4, <5>1
        <4>5. ~DeleteOld(c) /\ ~DeleteStrings(c) /\ ~DeleteTable(c)
          BY <3>1 DEF DeleteOld, DeleteStrings, DeleteTable, Begin, Get, Publish, InsertField, ScanKeys,
                      ListFields, CopyValue, EndList
        <4> QED
          BY <2>1, <4>3, <4>4, <4>5, FreeSteps
      <3>4. \A d \in Clients : held'[d] \subseteq Placed'
        <4>1. Placed \subseteq Placed' /\ held'[c] \subseteq held[c] \cup Placed
          BY <2>0, <2>1, InsertsKeep, LocalSteps
        <4>2. \A d \in Clients : held[d] \subseteq Placed
          BY <2>0 DEF InsertInv
        <4>3. \A d \in Clients \ {c} : held'[d] = held[d]
          BY <2>1, OwnSteps
        <4> QED
          BY <4>1, <4>2, <4>3
      <3>5. ASSUME NEW d \in Clients, call'[d] = "Insert", calls'[d] > 0 PROVE InsertAt(d)'
        <4>1. CASE d = c
          BY <2>0, <2>1, <3>5, <4>1, OwnInsert
        <4>2. CASE d # c
          <5>1. call[d] = "Insert" /\ calls[d] > 0
            BY <2>1, <3>5, <4>2, OwnSteps
          <5>2. InsertAt(d)
            BY <2>0, <5>1 DEF InsertInv
          <5> QED
            BY <2>0, <2>1, <4>2, <5>1, <5>2, OthersInserts
        <4> QED
          BY <4>1, <4>2
      <3> QED
        BY <3>2, <3>3, <3>4, <3>5 DEF InsertInv
    <2>2. CASE Destroy
      <3>1. \A c \in Clients : pc'[c] = "destroyed" /\ held'[c] = held[c]
        BY <2>2 DEF Destroy
      <3>2. Placed' = Placed
        BY <2>2 DEF Destroy, Placed, Entries
      <3>3. \A c \in Clients : InsertAt(c)'
        BY <3>1 DEF InsertAt
      <3> QED
        BY <2>0, <3>1, <3>2, <3>3 DEF InsertInv, InsertSteps
    <2>3. CASE UNCHANGED vars
      <3>1. Placed' = Placed
        BY <2>3 DEF vars, Placed, Entries
      <3>2. \A c \in Clients : InsertAt(c)' = InsertAt(c)
        BY <2>3 DEF vars, InsertAt, Sole, Written, NewString
      <3> QED
        BY <2>0, <2>3, <3>1, <3>2 DEF vars, InsertInv
    <2> QED
      BY <2>1, <2>2, <2>3 DEF Next, Stopped
  <1> QED
    BY <1>1, <1>2, TypeCorrect, PlaceCorrect, PTL DEF Spec

\* In a workload without Updates and Deletes no Read or Scan touches freed memory
\* however it overlaps the Inserts of other clients, and an Insert that answered kOK
\* has all its values in the record, if no other client writes that key.
THEOREM InsertsKeepWhatTheyWrite == Spec => []InsertsAreSafe
  <1>1. InsertInv => InsertsAreSafe
    <2> SUFFICES ASSUME InsertInv, InsertOnly PROVE InsertsAreSafe
      BY DEF InsertsAreSafe
    <2>1. NoUseAfterFree
      BY DEF NoUseAfterFree, InsertInv, InsertSteps
    <2>2. ASSUME NEW c \in Clients, pc[c] = "idle", calls[c] > 0, call[c] = "Insert", ret[c] = kOK, Sole(c)
          PROVE  \A f \in Fields : tables[key_table[key[c]]][f] = NewString(c, f)
      BY <2>2 DEF InsertInv, InsertAt, Written
    <2> QED
      BY <2>1, <2>2 DEF InsertsAreSafe, Sole
  <1> QED
    BY <1>1, InsertCorrect, PTL

-----------------------------------------------------------------------------
(***************************************************************************)
(* The refinement of KVStore, for clients with keys of their own.          *)
(***************************************************************************)

\* A call that has begun to write to the record of its key, or has removed it.
Changing(c) == pc[c] \in InTable \cup Deleting

\* The fields a Read asks for, and those an Update may be asked to write.
Asked(c) == IF todo[c] = {} THEN Fields ELSE todo[c]
FieldSets == {Fields} \cup {{f} : f \in Fields}

\* The record as it was when the call began, and as it is.
Before(c, f) == IF store[key[c]] = NULL THEN NULL ELSE store[key[c]][f]
Now(c, f) == tables[field_table[c]][f]

\* The fields an Update has not written yet: at "deleteOld" it has written the next.
Pending(c) == IF pc[c] = "deleteOld" THEN RestOf(c) ELSE todo[c]

\* The fields fs of the record have new values, the others those they had.
Merged(c, fs) == \A f \in Fields : IF f \in fs THEN Now(c, f) \in Strings ELSE Now(c, f) = Before(c, f)

\* A Read of the client's own key has the values of the fields it asks for.
ReadSoFar(c) ==
    call[c] = "Read" /\ pc[c] \notin {"idle", "destroyed"} =>
        /\ key[c] \in workload.read[c] /\ (todo[c] = {} \/ todo[c] \in FieldSets) /\ pc[c] # "scan"
        /\ pc[c] \in {"get", "list"} => result[c] = {}
        /\ pc[c] \in {"list", "copy"} => key_table[key[c]] # NULL
        /\ pc[c] = "list" => queue[c] = {key_table[key[c]]}
        /\ pc[c] = "copy" =>
              /\ queue[c] = {}
              /\ result[c] \cup held[c] = {tables[key_table[key[c]]][f] : f \in Asked(c)} \ {NULL}

\* An Update has written the fields it was asked to but those pending, an Insert
\* those before the next, which were not there.
UpdateSoFar(c) ==
    call[c] = "Update" =>
        /\ pc[c] \in {"get", "publish"} => todo[c] \in FieldSets
        /\ pc[c] \in InTable => \E fs \in FieldSets : todo[c] \subseteq fs /\ Merged(c, fs \ Pending(c))

InsertSoFar(c) ==
    call[c] = "Insert" =>
        /\ pc[c] \in {"get", "publish"} => todo[c] = Fields
        /\ pc[c] = "insertField" =>
              /\ Merged(c, Fields \ todo[c])
              /\ \A f \in Fields \ todo[c] : Before(c, f) = NULL /\ \A g \in todo[c] : f < g

DeleteSoFar(c) == pc[c] \in Deleting => key_table[key[c]] = NULL /\ store[key[c]] # NULL

SoFar(c) ==
    /\ ReadSoFar(c) /\ UpdateSoFar(c) /\ InsertSoFar(c) /\ DeleteSoFar(c)
    /\ pc[c] \notin {"idle", "destroyed"} /\ call[c] # "Read" => result[c] = {}

\* But for the keys that are being changed, store has the records of the database.
RecordsAgree ==
    \A k \in Keys : (\A c \in Clients : key[c] = k => ~Changing(c)) => store[k] = RecordOf(k)

Records == [Fields -> Strings \cup {NULL}]
HistoryTypes ==
    /\ store \in [Keys -> Records \cup {NULL}]
    /\ reply = [c \in Clients |-> reply[c]]
    /\ result \in [Clients -> SUBSET Strings]

\* No client of an exclusive workload touches what has been freed, and its call is
\* where an atomic one would be.
AtomicInv ==
    /\ HistoryTypes
    /\ ExclusiveKeys =>
          /\ NoUseAfterFree
          /\ (\E c \in Clients : pc[c] # "destroyed") => RecordsAgree /\ \A c \in Clients : SoFar(c)

\* What the refinement's steps start from.
Agreeing ==
    /\ TypeInv /\ PlaceInv /\ AllOwned /\ ExclusiveKeys /\ HistoryTypes /\ RecordsAgree
    /\ \A c \in Clients : SoFar(c)

\* A call keeps its name and its key.
LEMMA CallKept ==
    ASSUME NEW c, Client(c), ~Begin(c)
    PROVE  call' = call /\ key' = key /\ calls' = calls /\ workload' = workload
  <1>1. CASE Get(c) \/ Publish(c)
    BY <1>1 DEF Client, Get, Publish
  <1>2. CASE InsertField(c) \/ UpdateField(c)
    BY <1>2 DEF Client, InsertField, UpdateField, Undefined
  <1>3. CASE InsertMissing(c) \/ DeleteOld(c)
    BY <1>3 DEF Client, InsertMissing, DeleteOld, Undefined
  <1>4. CASE ScanKeys(c) \/ ListFields(c) \/ CopyValue(c) \/ EndList(c)
    BY <1>4 DEF Client, ScanKeys, ListFields, CopyValue, EndList, Undefined
  <1>5. CASE Remove(c) \/ ListDeleted(c) \/ DeleteStrings(c) \/ DeleteTable(c)
    BY <1>5 DEF Client, Remove, ListDeleted, DeleteStrings, DeleteTable, Undefined
  <1> QED
    BY <1>1, <1>2, <1>3, <1>4, <1>5 DEF Client

\* Only a Begin and a Read change a result, which is the client's own.
LEMMA ResultSteps ==
    ASSUME TypeInv, HistoryTypes, NEW c \in Clients, Client(c)
    PROVE  /\ result' \in [Clients -> SUBSET Strings]
           /\ \A d \in Clients \ {c} : result'[d] = result[d]
           /\ result' = result \/ (Begin(c) /\ result'[c] = {}) \/ (CopyValue(c) /\ pc[c] = "copy")
  <1> USE DEF HistoryTypes
  <1>0. held[c] \in SUBSET Strings
    BY DEF TypeInv, LocalTypes
  <1>1. CASE Begin(c)
    BY <1>1 DEF Begin
  <1>2. CASE CopyValue(c)
    BY <1>0, <1>2 DEF CopyValue, Undefined
  <1>3. CASE Get(c) \/ Publish(c) \/ InsertField(c) \/ UpdateField(c)
    BY <1>3 DEF Get, Publish, InsertField, UpdateField, Undefined
  <1>4. CASE InsertMissing(c) \/ DeleteOld(c) \/ ScanKeys(c) \/ ListFields(c) \/ EndList(c)
    BY <1>4 DEF InsertMissing, DeleteOld, ScanKeys, ListFields, EndList, Undefined
  <1>5. CASE Remove(c) \/ ListDeleted(c) \/ DeleteStrings(c) \/ DeleteTable(c)
    BY <1>5 DEF Remove, ListDeleted, DeleteStrings, DeleteTable, Undefined
  <1> QED
    BY <1>1, <1>2, <1>3, <1>4, <1>5 DEF Client

\* A record is a function, and so not NULL.
LEMMA RecordTypes ==
    ASSUME TypeInv, NEW k \in Keys
    PROVE  /\ RecordOf(k) \in Records \cup {NULL}
           /\ key_table[k] = NULL <=> RecordOf(k) = NULL
           /\ key_table[k] # NULL => key_table[k] \in Tables /\ RecordOf(k) = tables[key_table[k]]
                                     /\ RecordOf(k) \in Records
  BY RecordsAssumption DEF TypeInv, HeapTypes, RecordOf, Records

\* What a return samples.
LEMMA SampleEffect ==
    ASSUME TypeInv, TypeInv', HistoryTypes, NEW c \in Clients, Client(c), Sample(c)
    PROVE  /\ HistoryTypes'
           /\ ~Returning(c) => UNCHANGED <<store, reply>>
           /\ Returning(c) => /\ store' = [store EXCEPT ![key[c]] = RecordOf(key[c])']
                              /\ reply' = [reply EXCEPT ![c] = <<call[c], ret'[c], result'[c]>>]
                              /\ key'[c] = key[c] /\ key[c] \in Keys /\ call' = call /\ result' = result
                              /\ store'[key[c]] = RecordOf(key[c])'
           /\ \A k \in Keys \ {key[c]} : store'[k] = store[k]
  <1>1. ASSUME Returning(c)
        PROVE  /\ key' = key /\ key[c] \in Keys /\ call' = call /\ result' = result
    <2>1. ~Begin(c) /\ ~CopyValue(c)
      BY <1>1 DEF Returning, Begin, CopyValue, GoTo, Undefined, TypeInv, CallTypes
    <2>2. calls[c] > 0
      <3>1. pc[c] # "destroyed"
        BY DEF Client, Begin, Get, Publish, InsertField, UpdateField, InsertMissing, DeleteOld, ScanKeys,
               ListFields, CopyValue, EndList, Remove, ListDeleted, DeleteStrings, DeleteTable
      <3> QED
        BY <1>1, <3>1 DEF Returning, TypeInv, CallAt
    <2> QED
      BY <2>1, <2>2, CallKept, ResultSteps DEF TypeInv, CallAt
  <1>2. result' \in [Clients -> SUBSET Strings]
    BY ResultSteps
  <1>3. CASE ~Returning(c)
    BY <1>2, <1>3 DEF Sample, HistoryTypes, Records
  <1>4. CASE Returning(c)
    <2>1. /\ store' = [store EXCEPT ![key[c]] = RecordOf(key[c])']
          /\ reply' = [reply EXCEPT ![c] = <<call[c], ret'[c], result[c]>>]
      BY <1>4, Zenon DEF Sample
    <2>2. key[c] \in Keys /\ key'[c] = key[c] /\ call' = call /\ result' = result
      BY <1>1, <1>4
    <2>3. RecordOf(key[c])' \in Records \cup {NULL}
      <3>1. key'[c] \in Keys
        BY <2>2
      <3> QED
        BY <3>1, RecordsAssumption DEF TypeInv, HeapTypes, RecordOf, Records
    <2> DEFINE r == RecordOf(key[c])'
    <2>4. store' = [store EXCEPT ![key[c]] = r] /\ r \in Records \cup {NULL}
      BY <2>1, <2>3
    <2> HIDE DEF r
    <2>5. store \in [Keys -> Records \cup {NULL}] /\ reply = [d \in Clients |-> reply[d]]
      BY DEF HistoryTypes
    <2>6. store' \in [Keys -> Records \cup {NULL}] /\ store'[key[c]] = r
          /\ \A k \in Keys \ {key[c]} : store'[k] = store[k]
      BY <2>2, <2>4, <2>5
    <2>7. reply' = [d \in Clients |-> reply'[d]]
      BY <2>1, <2>5
    <2>8. HistoryTypes'
      BY <1>2, <2>6, <2>7 DEF HistoryTypes, Records
    <2>9. store'[key[c]] = RecordOf(key[c])'
      BY <2>6 DEF r
    <2> QED
      BY <1>4, <2>1, <2>2, <2>6, <2>8, <2>9
  <1> QED
    BY <1>3, <1>4

\* The record of another key than the one a client writes stays as it is.
LEMMA OthersRecords ==
    ASSUME TypeInv, OnePlace, OwnTables, NEW c \in Clients, OwnRecord(c), Client(c),
           NEW k \in Keys, pc[c] \in Writing => k # key[c]
    PROVE  key_table'[k] = key_table[k] /\ RecordOf(k)' = RecordOf(k)
  <1>0. key_table \in [Keys -> Tables \cup {NULL}] /\ tables \in [Tables -> [Fields -> Strings \cup {NULL}]]
    BY DEF TypeInv, HeapTypes
  <1>1. key_table'[k] = key_table[k]
    <2>1. CASE key_table' = key_table
      BY <2>1
    <2>2. CASE key_table' # key_table
      <3>1. k # key[c]
        BY <2>2, EffectsOfWriters
      <3> QED
        BY <1>0, <2>2, <3>1, RecordSteps
    <2> QED
      BY <2>1, <2>2
  <1>2. ASSUME key_table[k] # NULL PROVE tables'[key_table[k]] = tables[key_table[k]]
    <2>1. CASE tables' = tables
      BY <2>1
    <2>2. CASE Puts(c)
      <3>1. PICK t \in Tables, f \in Fields, s \in Strings :
                /\ tables' = [tables EXCEPT ![t][f] = s] /\ t = key_table[key[c]]
        BY <2>2, OwnPut
      <3>2. key[c] \in Keys /\ k # key[c]
        BY <2>2, EffectsOfWriters, WritersKeys
      <3>3. key_table[k] # t
        BY <1>2, <3>1, <3>2 DEF OnePlace
      <3> QED
        BY <1>0, <3>1, <3>3
    <2> QED
      BY <2>1, <2>2, TableSteps
  <1> QED
    BY <1>1, <1>2 DEF RecordOf

\* Of two calls on one key neither is a writer's.
LEMMA OthersKey ==
    ASSUME Agreeing, NEW c \in Clients, NEW d \in Clients \ {c},
           pc[c] \notin {"idle", "destroyed"}, pc[d] \notin {"idle", "destroyed"},
           call[c] # "Read" \/ call[d] # "Read"
    PROVE  key[c] # key[d]
  <1>1. ASSUME NEW e \in Clients, pc[e] \notin {"idle", "destroyed"}
        PROVE  /\ call[e] = "Read" \/ call[e] \in Writers
               /\ call[e] = "Read" => key[e] \in workload.read[e]
               /\ call[e] \in Writers => key[e] \in workload.write[e]
    <2>1. call[e] \in CallNames /\ call[e] \in workload.calls /\ "Scan" \notin workload.calls
      BY <1>1 DEF Agreeing, TypeInv, CallTypes, CallAt, ExclusiveKeys
    <2>2. call[e] = "Read" \/ call[e] \in Writers
      BY <2>1 DEF CallNames, Writers
    <2>3. SoFar(e) /\ CallAt(e)
      BY DEF Agreeing, TypeInv
    <2> QED
      BY <1>1, <2>2, <2>3 DEF SoFar, ReadSoFar, CallAt
  <1>2. OwnWrites /\ workload.write[c] \cap workload.read[d] = {}
        /\ workload.write[d] \cap workload.read[c] = {}
    BY DEF Agreeing, ExclusiveKeys
  <1>3. workload.write[c] \cap workload.write[d] = {}
    BY <1>2 DEF OwnWrites
  <1> QED
    BY <1>1, <1>2, <1>3

\* A call is its client's, and of a name that is not Scan.
LEMMA CallsAt ==
    ASSUME Agreeing, NEW c \in Clients
    PROVE  /\ CallAt(c) /\ FieldsAt(c) /\ OwnRecord(c) /\ SoFar(c) /\ TakenAway(c)
           /\ OnePlace /\ OwnTables /\ UnbornInv /\ Live /\ TypeInv /\ OwnWrites
           /\ todo[c] \in SUBSET Fields /\ call[c] \in CallNames
           /\ pc[c] \notin {"idle", "destroyed"} =>
                 key[c] \in Keys /\ call[c] \in {"Read", "Update", "Insert", "Delete"}
           /\ pc[c] \in {"list", "copy"} => call[c] = "Read"
           /\ pc[c] # "scan"
  <1>1. /\ CallAt(c) /\ FieldsAt(c) /\ OwnRecord(c) /\ SoFar(c) /\ TakenAway(c)
        /\ OnePlace /\ OwnTables /\ UnbornInv /\ Live /\ TypeInv /\ OwnWrites
    BY DEF Agreeing, TypeInv, AllOwned, PlaceInv, ExclusiveKeys
  <1>2. todo[c] \in SUBSET Fields /\ call[c] \in CallNames
    BY <1>1 DEF TypeInv, CallTypes
  <1>3. "Scan" \notin workload.calls
    BY DEF Agreeing, ExclusiveKeys
  <1>4. pc[c] \notin {"idle", "destroyed"} => key[c] \in Keys /\ call[c] \in {"Read", "Update", "Insert", "Delete"}
    BY <1>1, <1>2, <1>3 DEF CallAt, CallNames
  <1>5. pc[c] \in {"scan", "list", "copy"} => call[c] = "Read"
    BY <1>1, <1>4 DEF CallAt
  <1>6. pc[c] # "scan"
    BY <1>1, <1>5 DEF SoFar, ReadSoFar
  <1> QED
    BY <1>1, <1>2, <1>4, <1>5, <1>6

\* At the places where a call has not changed anything, the record of its key is the
\* one it began with.
LEMMA StoredNow ==
    ASSUME Agreeing, NEW c \in Clients, pc[c] \in {"get", "publish", "list", "copy", "remove"}
    PROVE  /\ key[c] \in Keys /\ store[key[c]] = RecordOf(key[c])
           /\ key_table[key[c]] = NULL <=> store[key[c]] = NULL
           /\ key_table[key[c]] = NULL => \A f \in Fields : Before(c, f) = NULL
           /\ key_table[key[c]] # NULL =>
                 key_table[key[c]] \in Tables /\ store[key[c]] = tables[key_table[key[c]]]
                 /\ \A f \in Fields : Before(c, f) = tables[key_table[key[c]]][f]
  <1>1. key[c] \in Keys
    BY CallsAt
  <1>2. \A d \in Clients : key[d] = key[c] => ~Changing(d)
    <2>1. ~Changing(c)
      BY DEF Changing, InTable, Deleting
    <2>2. ASSUME NEW d \in Clients \ {c}, Changing(d) PROVE key[d] # key[c]
      <3>1. pc[d] \notin {"idle", "destroyed"} /\ call[d] # "Read"
        BY <2>2, CallsAt DEF Changing, InTable, Deleting, CallAt
      <3> QED
        BY <3>1, OthersKey
    <2> QED
      BY <2>1, <2>2
  <1>3. store[key[c]] = RecordOf(key[c])
    BY <1>1, <1>2 DEF Agreeing, RecordsAgree
  <1>4. TypeInv
    BY DEF Agreeing
  <1> QED
    BY <1>1, <1>3, <1>4, RecordTypes DEF Before

\* No call touches what has been freed: tables and strings are in a record, or held
\* by the call alone.
LEMMA Untouched ==
    ASSUME Agreeing, NEW c \in Clients
    PROVE  /\ pc[c] \in InTable => field_table[c] \notin freed /\ field_table[c] = key_table[key[c]]
           /\ pc[c] \in {"deleteOld", "deleteTable"} => held[c] \cap freed = {}
           /\ pc[c] = "list" => queue[c] \cap freed = {}
           /\ pc[c] = "copy" => held[c] \cap freed = {}
  <1>0. HeapTypes /\ LocalTypes
    BY CallsAt DEF TypeInv
  <1>1. ASSUME NEW k \in Keys, key_table[k] # NULL PROVE key_table[k] \notin freed /\ Entries(key_table[k]) \cap freed = {}
    BY <1>1, CallsAt DEF Live, RecordTables
  <1>2. pc[c] \in InTable => field_table[c] \notin freed /\ field_table[c] = key_table[key[c]]
    <2> SUFFICES ASSUME pc[c] \in InTable PROVE field_table[c] \notin freed /\ field_table[c] = key_table[key[c]]
      OBVIOUS
    <2>1. field_table[c] \in Tables /\ field_table[c] = key_table[key[c]] /\ key[c] \in Keys
      BY CallsAt DEF FieldsAt, OwnRecord, InTable
    <2>2. field_table[c] # NULL
      BY <2>1, NullAssumption
    <2> QED
      BY <1>1, <2>1, <2>2
  <1>3. pc[c] \in {"deleteOld", "deleteTable"} => held[c] \cap freed = {}
    <2> SUFFICES ASSUME pc[c] \in {"deleteOld", "deleteTable"} PROVE held[c] \cap freed = {}
      OBVIOUS
    <2>1. held[c] \subseteq Holding(c)
      BY DEF Holding
    <2>2. Holding(c) \subseteq allocated \ freed
      BY DEF Agreeing, AllOwned, Accounted
    <2> QED
      BY <2>1, <2>2
  <1>4. pc[c] = "list" => queue[c] \cap freed = {}
    <2> SUFFICES ASSUME pc[c] = "list" PROVE queue[c] \cap freed = {}
      OBVIOUS
    <2>1. key[c] \in Keys /\ key_table[key[c]] # NULL /\ queue[c] = {key_table[key[c]]}
      BY CallsAt DEF SoFar, ReadSoFar
    <2> QED
      BY <1>1, <2>1
  <1>5. pc[c] = "copy" => held[c] \cap freed = {}
    <2> SUFFICES ASSUME pc[c] = "copy" PROVE held[c] \cap freed = {}
      OBVIOUS
    <2>1. /\ key[c] \in Keys /\ key_table[key[c]] # NULL
          /\ held[c] \subseteq {tables[key_table[key[c]]][f] : f \in Asked(c)} \ {NULL}
      BY CallsAt DEF SoFar, ReadSoFar
    <2>2. Asked(c) \subseteq Fields
      BY CallsAt DEF Asked
    <2>3. held[c] \subseteq Entries(key_table[key[c]])
      BY <2>1, <2>2 DEF Entries
    <2> QED
      BY <1>1, <2>1, <2>3
  <1> QED
    BY <1>2, <1>3, <1>4, <1>5

\* No step of such a call is undefined.
LEMMA Defined ==
    ASSUME Agreeing, NEW c \in Clients, Client(c)
    PROVE  ~Undefined(c) /\ pc'[c] # "undefined" /\ pc[c] \notin {"undefined", "destroyed"}
  <1>0. /\ CallTypes /\ pc[c] \notin {"undefined", "destroyed"}
        /\ \A to : pc' = [pc EXCEPT ![c] = to] => pc'[c] = to
    BY CallsAt DEF TypeInv, CallTypes, Client, Begin, Get, Publish, InsertField, UpdateField, InsertMissing,
           DeleteOld, ScanKeys, ListFields, CopyValue, EndList, Remove, ListDeleted, DeleteStrings, DeleteTable
  <1> USE DEF GoTo, Return, NextUpdate, InTable
  <1>1. CASE Begin(c)
    <2>1. PICK name \in workload.calls : pc' = [pc EXCEPT ![c] = Entry(name)]
      BY <1>1, BeginEffect, CallsAt
    <2>2. Entry(name) # "undefined"
      BY <1>0, <2>1, WorkloadTypes DEF Entry, CallNames, CallTypes
    <2>3. pc'[c] # "undefined"
      BY <1>0, <2>1, <2>2
    <2> QED
      BY <1>0, <2>3 DEF Undefined
  <1>2. CASE Get(c) \/ Publish(c) \/ ScanKeys(c) \/ EndList(c)
    <2>1. pc'[c] # "undefined"
      BY <1>0, <1>2 DEF Get, Publish, ScanKeys, EndList
    <2> QED
      BY <1>0, <2>1 DEF Undefined
  <1>3. CASE InsertField(c) \/ UpdateField(c) \/ InsertMissing(c)
    <2>1. pc[c] \in InTable /\ field_table[c] \notin freed
      BY <1>3, Untouched DEF InsertField, UpdateField, InsertMissing
    <2>2. pc'[c] # "undefined"
      BY <1>0, <1>3, <2>1 DEF InsertField, UpdateField, InsertMissing
    <2> QED
      BY <1>0, <2>2 DEF Undefined
  <1>4. CASE DeleteOld(c) \/ ListFields(c) \/ CopyValue(c)
    <2>1. pc'[c] # "undefined"
      BY <1>0, <1>4, Untouched DEF DeleteOld, ListFields, CopyValue
    <2> QED
      BY <1>0, <2>1 DEF Undefined
  <1>5. CASE Remove(c) \/ ListDeleted(c) \/ DeleteStrings(c) \/ DeleteTable(c)
    <2>1. pc'[c] # "undefined"
      BY <1>0, <1>5, Untouched DEF Remove, ListDeleted, DeleteStrings, DeleteTable
    <2> QED
      BY <1>0, <2>1 DEF Undefined
  <1> QED
    BY <1>1, <1>2, <1>3, <1>4, <1>5 DEF Client

-----------------------------------------------------------------------------
\* Another client's call is where it was.
LEMMA OthersSoFar ==
    ASSUME Agreeing, TypeInv', NEW c \in Clients, Client(c), Sample(c), NEW d \in Clients \ {c}
    PROVE  SoFar(d)'
  <1>1. /\ pc'[d] = pc[d] /\ call'[d] = call[d] /\ key'[d] = key[d] /\ todo'[d] = todo[d]
        /\ field_table'[d] = field_table[d] /\ queue'[d] = queue[d] /\ held'[d] = held[d]
        /\ workload' = workload
    BY OwnSteps, CallsAt
  <1>2. result'[d] = result[d]
    BY ResultSteps DEF Agreeing
  <1>3. CASE pc[d] \in {"idle", "destroyed"}
    BY <1>1, <1>3 DEF SoFar, ReadSoFar, UpdateSoFar, InsertSoFar, DeleteSoFar, InTable, Deleting
  <1>4. CASE pc[d] \notin {"idle", "destroyed"}
    <2>1. key[d] \in Keys /\ SoFar(d) /\ CallAt(d) /\ OwnRecord(d)
      BY <1>4, CallsAt
    <2>2. /\ pc[c] \notin {"idle", "destroyed"} /\ (call[c] # "Read" \/ call[d] # "Read") => key[d] # key[c]
      BY <1>4, OthersKey
    <2>3. \A k \in Keys : k = key[d] => key_table'[k] = key_table[k] /\ RecordOf(k)' = RecordOf(k)
      <3>1. pc[c] \in Writing => pc[c] \notin {"idle", "destroyed"} /\ call[c] # "Read"
        BY CallsAt DEF Writing, InTable, Deleting, CallAt
      <3>2. pc[c] \in Writing => key[d] # key[c]
        BY <2>2, <3>1
      <3> QED
        BY <2>1, <3>2, OthersRecords, CallsAt
    <2>4. call[d] # "Read" => store'[key[d]] = store[key[d]]
      <3>1. CASE Returning(c)
        <4>1. pc[c] \notin {"idle", "destroyed"}
          BY <3>1, Defined DEF Returning
        <4> QED
          BY <2>1, <2>2, <4>1, SampleEffect DEF Agreeing
      <3>2. CASE ~Returning(c)
        BY <3>2, SampleEffect DEF Agreeing
      <3> QED
        BY <3>1, <3>2
    <2>5. /\ key_table'[key[d]] = key_table[key[d]]
          /\ key_table[key[d]] # NULL => tables'[key_table[key[d]]] = tables[key_table[key[d]]]
      BY <2>1, <2>3 DEF RecordOf
    <2>6. pc[d] \in InTable => tables'[field_table[d]] = tables[field_table[d]]
      <3>1. pc[d] \in InTable => field_table[d] = key_table[key[d]] /\ field_table[d] # NULL
        BY <2>1, CallsAt, NullAssumption DEF OwnRecord, FieldsAt
      <3> QED
        BY <2>5, <3>1
    <2>7. ReadSoFar(d)'
      BY <1>1, <1>2, <2>1, <2>5 DEF SoFar, ReadSoFar, Asked
    <2>8. ASSUME call[d] # "Read", pc[d] \in InTable
          PROVE  \A f \in Fields : Now(d, f)' = Now(d, f) /\ Before(d, f)' = Before(d, f)
      BY <1>1, <2>4, <2>6, <2>8 DEF Now, Before
    <2>9. Pending(d)' = Pending(d)
      BY <1>1 DEF Pending, RestOf, NextField
    <2>10. UpdateSoFar(d)'
      BY <1>1, <2>1, <2>8, <2>9 DEF SoFar, UpdateSoFar, Merged, InTable
    <2>11. InsertSoFar(d)'
      BY <1>1, <2>1, <2>8 DEF SoFar, InsertSoFar, Merged, InTable
    <2>12. DeleteSoFar(d)'
      <3>1. pc[d] \in Deleting => call[d] # "Read"
        BY <2>1 DEF CallAt
      <3> QED
        BY <1>1, <2>1, <2>4, <2>5, <3>1 DEF SoFar, DeleteSoFar
    <2> QED
      BY <1>1, <1>2, <2>1, <2>7, <2>10, <2>11, <2>12 DEF SoFar
  <1> QED
    BY <1>3, <1>4

\* The next field is the least.
LEMMA NextLeast ==
    ASSUME NEW c \in Clients, todo[c] \in SUBSET Fields, todo[c] # {}
    PROVE  \A g \in todo[c] : NextField(c) <= g
  <1>1. Fields \in SUBSET Int /\ IsFiniteSet(Fields)
    BY SizesAssumption, FS_Interval DEF Fields
  <1>2. todo[c] \in SUBSET Int /\ IsFiniteSet(todo[c])
    BY <1>1, FS_Subset
  <1>3. \E x \in todo[c] : \A y \in todo[c] : x <= y
    BY <1>2, LeastElement
  <1> QED
    BY <1>3 DEF NextField, Min

\* A step of a call in its table: it is done with the next field, it has found it
\* missing, replaced it or found it taken, or it has deleted the string it replaced.
Advances(c) ==
    /\ todo'[c] = RestOf(c)
    /\ IF RestOf(c) = {} THEN pc'[c] = "idle" /\ ret'[c] = kOK ELSE pc'[c] \in {"insertField", "updateField"}

\* The field f of the call's table after the step.
After(c, f) == tables'[field_table'[c]][f]

FieldStep(c) ==
    LET f == NextField(c) IN
    \/ pc[c] # "deleteOld" /\ After(c, f) \in Strings /\ Advances(c)
       /\ (call[c] = "Insert" => Now(c, f) = NULL)
    \/ call[c] = "Update" /\ pc[c] = "updateField" /\ After(c, f) = Now(c, f)
       /\ todo'[c] = todo[c] /\ pc'[c] = "insertMissing"
    \/ call[c] = "Update" /\ pc[c] = "updateField" /\ After(c, f) \in Strings
       /\ todo'[c] = todo[c] /\ pc'[c] = "deleteOld"
    \/ call[c] = "Insert" /\ pc[c] = "insertField" /\ Now(c, f) # NULL /\ After(c, f) = Now(c, f)
       /\ todo'[c] = todo[c] /\ pc'[c] = "idle" /\ ret'[c] = kErrorConflict
    \/ call[c] = "Update" /\ pc[c] = "deleteOld" /\ After(c, f) = Now(c, f) /\ Advances(c)

\* Each step in a table is such a step.
LEMMA FieldSteps ==
    ASSUME Agreeing, NEW c \in Clients, Client(c), pc[c] \in InTable
    PROVE  /\ FieldStep(c)
           /\ \A g \in Fields \ {NextField(c)} : After(c, g) = Now(c, g)
           /\ field_table'[c] = field_table[c] /\ key_table'[key[c]] = field_table[c]
           /\ key_table[key[c]] = field_table[c] /\ key' = key /\ call' = call
           /\ field_table[c] \in Tables /\ field_table[c] # NULL
           /\ NextField(c) \in todo[c] /\ todo[c] \in SUBSET Fields
           /\ InsertField(c) => pc'[c] \in {"insertField", "idle"}
           /\ call[c] = "Update" \/ (call[c] = "Insert" /\ pc[c] = "insertField")
  <1>0. /\ field_table[c] \in Tables /\ field_table[c] # NULL /\ todo[c] \in SUBSET Fields /\ todo[c] # {}
        /\ field_table[c] \notin freed /\ key_table[key[c]] = field_table[c] /\ ~Undefined(c)
        /\ CallTypes /\ LocalTypes /\ HeapTypes /\ TypeInv
        /\ call[c] = "Update" \/ (call[c] = "Insert" /\ pc[c] = "insertField")
        /\ pc[c] = "deleteOld" => held[c] \cap freed = {}
        /\ pc[c] \notin {"idle", "destroyed"}
    BY CallsAt, Untouched, Defined, NullAssumption DEF TypeInv, FieldsAt, CallAt, InTable
  <1> DEFINE t == field_table[c]
             f == NextField(c)
             s == NewString(c, f)
  <1>1. f \in todo[c] /\ f \in Fields /\ s \in Strings
    BY <1>0, NextOfTodo, NewNames
  <1>2. InsertField(c) \/ UpdateField(c) \/ InsertMissing(c) \/ DeleteOld(c)
    BY DEF InTable, Client, Begin, Get, Publish, ScanKeys, ListFields, CopyValue, EndList, Remove,
           ListDeleted, DeleteStrings, DeleteTable
  <1>3. field_table' = field_table /\ key_table' = key_table /\ key' = key /\ call' = call
    BY <1>0, <1>2 DEF InsertField, UpdateField, InsertMissing, DeleteOld
  <1>4. tables' = tables \/ tables' = [tables EXCEPT ![t][f] = s]
    BY TableSteps DEF Puts
  <1>5. \A g \in Fields \ {f} : After(c, g) = Now(c, g)
    <2> HIDE DEF s, f
    <2> QED
      BY <1>0, <1>1, <1>3, <1>4 DEF Now, After, HeapTypes
  <1>6. tables' = [tables EXCEPT ![t][f] = s] => After(c, f) \in Strings
    <2> HIDE DEF s, f
    <2> QED
      BY <1>0, <1>1, <1>3 DEF Now, After, HeapTypes
  <1>7. tables' = tables => After(c, f) = Now(c, f)
    BY <1>3 DEF Now, After
  <1>8. Now(c, f) # NULL => Now(c, f) \in Strings
    BY <1>0, <1>1 DEF Now, After, HeapTypes
  <1>9. \A to : GoTo(c, to) => pc'[c] = to
    BY <1>0 DEF GoTo, CallTypes
  <1>10. \A r : Return(c, r) => pc'[c] = "idle" /\ ret'[c] = r
    BY <1>0 DEF Return, GoTo, CallTypes
  <1>11. \A x : todo' = [todo EXCEPT ![c] = x] => todo'[c] = x
    BY <1>0 DEF CallTypes
  <1> HIDE DEF s
  <1>12. CASE InsertField(c)
    <2>1. pc[c] = "insertField"
      BY <1>12 DEF InsertField
    <2>2. ASSUME Now(c, f) = NULL PROVE FieldStep(c)
      <3>1. /\ tables' = [tables EXCEPT ![t][f] = s] /\ todo' = [todo EXCEPT ![c] = RestOf(c)]
            /\ IF RestOf(c) = {} THEN Return(c, kOK) ELSE UNCHANGED <<pc, ret>>
        BY <1>0, <1>12, <2>2, Zenon DEF InsertField, Now, s
      <3>2. Advances(c)
        <4>1. todo'[c] = RestOf(c)
          BY <1>11, <3>1
        <4>2. RestOf(c) = {} => pc'[c] = "idle" /\ ret'[c] = kOK
          BY <1>10, <3>1
        <4>3. RestOf(c) # {} => pc'[c] = "insertField"
          BY <2>1, <3>1
        <4> QED
          BY <4>1, <4>2, <4>3 DEF Advances
      <3>3. After(c, f) \in Strings
        BY <1>6, <3>1
      <3> QED
        BY <2>1, <2>2, <3>2, <3>3 DEF FieldStep
    <2>3. ASSUME Now(c, f) # NULL, call[c] = "Insert" PROVE FieldStep(c)
      <3>1. tables' = tables /\ todo' = todo /\ Return(c, kErrorConflict)
        BY <1>0, <1>12, <2>3 DEF InsertField, Now, Conflict
      <3>2. pc'[c] = "idle" /\ ret'[c] = kErrorConflict /\ todo'[c] = todo[c]
        BY <1>10, <3>1
      <3>3. After(c, f) = Now(c, f)
        BY <1>7, <3>1
      <3> QED
        BY <2>1, <2>3, <3>2, <3>3 DEF FieldStep
    <2>4. ASSUME Now(c, f) # NULL, call[c] = "Update" PROVE FieldStep(c)
      <3>1. /\ tables' = tables /\ todo' = [todo EXCEPT ![c] = RestOf(c)]
            /\ IF RestOf(c) = {} THEN Return(c, kOK) ELSE UNCHANGED <<pc, ret>>
        BY <1>0, <1>12, <2>4 DEF InsertField, Now
      <3>2. Advances(c)
        <4>1. todo'[c] = RestOf(c)
          BY <1>11, <3>1
        <4>2. RestOf(c) = {} => pc'[c] = "idle" /\ ret'[c] = kOK
          BY <1>10, <3>1
        <4>3. RestOf(c) # {} => pc'[c] = "insertField"
          BY <2>1, <3>1
        <4> QED
          BY <4>1, <4>2, <4>3 DEF Advances
      <3>3. After(c, f) \in Strings
        BY <1>7, <1>8, <2>4, <3>1
      <3> QED
        BY <2>1, <2>4, <3>2, <3>3 DEF FieldStep
    <2>5. FieldStep(c)
      BY <1>0, <2>2, <2>3, <2>4
    <2>6. pc'[c] \in {"insertField", "idle"}
      BY <1>0, <1>10, <1>12, <2>1 DEF InsertField
    <2> QED
      BY <1>0, <1>1, <1>3, <1>5, <2>5, <2>6
  <1>13. CASE UpdateField(c)
    <2>1. pc[c] = "updateField" /\ call[c] = "Update"
      BY <1>0, <1>13 DEF UpdateField
    <2>2. CASE Now(c, f) = NULL
      <3>1. tables' = tables /\ todo' = todo /\ GoTo(c, "insertMissing")
        BY <1>0, <1>13, <2>2 DEF UpdateField, Now
      <3> QED
        BY <1>0, <1>1, <1>3, <1>5, <1>7, <1>9, <2>1, <3>1 DEF FieldStep, InsertField
    <2>3. CASE Now(c, f) # NULL
      <3>1. tables' = [tables EXCEPT ![t][f] = s] /\ todo' = todo /\ GoTo(c, "deleteOld")
        BY <1>0, <1>13, <2>3 DEF UpdateField, Now, s
      <3> QED
        BY <1>0, <1>1, <1>3, <1>5, <1>6, <1>9, <2>1, <3>1 DEF FieldStep, InsertField
    <2> QED
      BY <2>2, <2>3
  <1>14. CASE InsertMissing(c)
    <2>1. /\ pc[c] = "insertMissing" /\ call[c] = "Update" /\ NextUpdate(c)
          /\ tables' = IF tables[t][f] = NULL THEN [tables EXCEPT ![t][f] = s] ELSE tables
      BY <1>0, <1>14, Zenon DEF InsertMissing, s
    <2>2. After(c, f) \in Strings
      <3>1. Now(c, f) = tables[t][f]
        BY DEF Now
      <3> QED
        BY <1>6, <1>7, <1>8, <2>1, <3>1
    <2>3. Advances(c)
      BY <1>9, <1>10, <1>11, <2>1 DEF Advances, NextUpdate
    <2> QED
      BY <1>0, <1>1, <1>3, <1>5, <2>1, <2>2, <2>3 DEF FieldStep, InsertField
  <1>15. CASE DeleteOld(c)
    <2>1. pc[c] = "deleteOld" /\ call[c] = "Update" /\ NextUpdate(c) /\ tables' = tables
      BY <1>0, <1>15 DEF DeleteOld
    <2>2. Advances(c)
      BY <1>9, <1>10, <1>11, <2>1 DEF Advances, NextUpdate
    <2> QED
      BY <1>0, <1>1, <1>3, <1>5, <1>7, <2>1, <2>2 DEF FieldStep, InsertField
  <1> QED
    BY <1>2, <1>12, <1>13, <1>14, <1>15

-----------------------------------------------------------------------------
\* A step of a call's own client.

\* A call that has returned is nowhere.
LEMMA IdleSoFar ==
    ASSUME NEW c \in Clients, pc'[c] = "idle"
    PROVE  SoFar(c)'
  BY DEF SoFar, ReadSoFar, UpdateSoFar, InsertSoFar, DeleteSoFar, InTable, Deleting

\* Only a Read has a result.
LEMMA OwnResult ==
    ASSUME Agreeing, NEW c \in Clients, Client(c), call'[c] # "Read"
    PROVE  result'[c] = {}
  <1>1. CASE Begin(c)
    BY <1>1, CallsAt, ResultSteps DEF Agreeing, HistoryTypes, Begin
  <1>2. CASE ~Begin(c)
    <2>1. call'[c] # "Read" /\ call' = call
      BY <1>2, CallKept
    <2>2. pc[c] \notin {"idle", "destroyed"}
      BY <1>2 DEF Client, Get, Publish, InsertField, UpdateField, InsertMissing, DeleteOld, ScanKeys,
               ListFields, CopyValue, EndList, Remove, ListDeleted, DeleteStrings, DeleteTable
    <2>3. result[c] = {}
      BY <2>1, <2>2, CallsAt DEF SoFar
    <2>4. pc[c] # "copy"
      BY <2>1, CallsAt
    <2> QED
      BY <1>2, <2>3, <2>4, CallsAt, ResultSteps DEF Agreeing
  <1> QED
    BY <1>1, <1>2

\* A call that goes on samples nothing.
LEMMA GoesOn ==
    ASSUME Agreeing, TypeInv', NEW c \in Clients, Client(c), Sample(c), pc'[c] # "idle"
    PROVE  store' = store /\ reply' = reply
  BY CallsAt, SampleEffect DEF Agreeing, Returning

\* A call that begins knows its fields.
LEMMA BeginSoFar ==
    ASSUME Agreeing, TypeInv', NEW c \in Clients, Client(c), Sample(c), Begin(c)
    PROVE  SoFar(c)'
  <1>1. PICK name \in workload.calls :
           /\ \E k \in IF name \in {"Read", "Scan"} THEN workload.read[c] ELSE workload.write[c] :
                 key' = [key EXCEPT ![c] = k]
           /\ \E fs \in FieldsOf(name) : todo' = [todo EXCEPT ![c] = fs]
           /\ call' = [call EXCEPT ![c] = name]
           /\ GoTo(c, Entry(name))
    BY DEF Begin
  <1>2. /\ CallTypes /\ HistoryTypes /\ workload' = workload
        /\ name \in {"Read", "Update", "Insert", "Delete"}
    <2>1. CallTypes /\ HistoryTypes /\ workload' = workload
      BY CallsAt, OwnSteps DEF Agreeing, TypeInv
    <2>2. name \in CallNames /\ name # "Scan"
      BY <1>1, <2>1, WorkloadTypes DEF CallTypes, Agreeing, ExclusiveKeys
    <2> QED
      BY <2>1, <2>2 DEF CallNames
  <1>3. call'[c] = name /\ result'[c] = {}
    BY <1>1, <1>2 DEF Begin, CallTypes, HistoryTypes
  <1>4. PICK fs \in FieldsOf(name) : todo'[c] = fs
    BY <1>1, <1>2 DEF CallTypes
  <1>5. name = "Read" => key'[c] \in workload.read[c]
    BY <1>1, <1>2 DEF CallTypes
  <1>6. pc'[c] = Entry(name)
    BY <1>1, <1>2 DEF CallTypes, GoTo
  <1>7. CASE name = "Read"
    <2>1. pc'[c] = "get" /\ (fs = {} \/ fs \in FieldSets)
      BY <1>4, <1>6, <1>7 DEF Entry, FieldsOf, FieldSets
    <2> QED
      BY <1>2, <1>3, <1>4, <1>5, <1>7, <2>1
         DEF SoFar, ReadSoFar, UpdateSoFar, InsertSoFar, DeleteSoFar, InTable, Deleting
  <1>8. CASE name = "Update"
    <2>1. pc'[c] = "get" /\ fs \in FieldSets
      BY <1>4, <1>6, <1>8 DEF Entry, FieldsOf, FieldSets
    <2> QED
      BY <1>3, <1>4, <1>8, <2>1
         DEF SoFar, ReadSoFar, UpdateSoFar, InsertSoFar, DeleteSoFar, InTable, Deleting
  <1>9. CASE name = "Insert"
    <2>1. pc'[c] = "get" /\ fs = Fields
      BY <1>4, <1>6, <1>9 DEF Entry, FieldsOf
    <2> QED
      BY <1>3, <1>4, <1>9, <2>1
         DEF SoFar, ReadSoFar, UpdateSoFar, InsertSoFar, DeleteSoFar, InTable, Deleting
  <1>10. CASE name = "Delete"
    <2>1. pc'[c] = "remove"
      BY <1>6, <1>10 DEF Entry
    <2> QED
      BY <1>3, <1>10, <2>1
         DEF SoFar, ReadSoFar, UpdateSoFar, InsertSoFar, DeleteSoFar, InTable, Deleting
  <1> QED
    BY <1>2, <1>7, <1>8, <1>9, <1>10

\* A call that has found or published its table has changed nothing yet.
LEMMA NothingMerged ==
    ASSUME Agreeing, NEW c \in Clients, call'[c] \in {"Update", "Insert"}, result'[c] = {},
           pc'[c] \in {"insertField", "updateField"}, todo'[c] = todo[c],
           call'[c] = "Update" => todo[c] \in FieldSets, call'[c] = "Insert" => todo[c] = Fields,
           \A f \in Fields : After(c, f) = Before(c, f)', key'[c] = key[c]
    PROVE  SoFar(c)'
  <1>1. Pending(c)' = todo[c]
    BY DEF Pending
  <1>2. call'[c] = "Update" => \E fs \in FieldSets : todo[c] \subseteq fs /\ fs \ Pending(c)' = {}
    BY <1>1
  <1>3. UpdateSoFar(c)'
    <2> SUFFICES ASSUME call'[c] = "Update"
                 PROVE  \E fs \in FieldSets : todo[c] \subseteq fs /\ Merged(c, fs \ Pending(c))'
      BY DEF UpdateSoFar
    <2>1. PICK fs \in FieldSets : todo[c] \subseteq fs /\ fs \ Pending(c)' = {}
      BY <1>2
    <2>2. Merged(c, fs \ Pending(c))'
      BY <2>1 DEF Merged, Now, After
    <2> QED
      BY <2>1, <2>2
  <1>4. InsertSoFar(c)'
    BY DEF InsertSoFar, Merged, Now, After
  <1> QED
    BY <1>3, <1>4 DEF SoFar, ReadSoFar, DeleteSoFar, Deleting

\* A call that has looked up its record has a table to list or to write, or none.
LEMMA GetSoFar ==
    ASSUME Agreeing, TypeInv', NEW c \in Clients, Client(c), Sample(c), Get(c), pc'[c] # "idle"
    PROVE  SoFar(c)'
  <1> DEFINE t == key_table[key[c]]
  <1>1. /\ pc[c] = "get" /\ CallTypes /\ LocalTypes /\ HeapTypes /\ HistoryTypes
        /\ key' = key /\ call' = call /\ todo' = todo /\ result' = result /\ UNCHANGED heapVars
        /\ workload' = workload /\ key[c] \in Keys
        /\ field_table'[c] = t /\ call[c] \in {"Read", "Update", "Insert"}
    BY CallsAt DEF Get, Client, Agreeing, TypeInv, LocalTypes, CallAt
  <1>2. store' = store
    BY GoesOn
  <1>3. SoFar(c)
    BY CallsAt
  <1>4. CASE call[c] = "Read"
    <2>1. t # NULL /\ queue' = [queue EXCEPT ![c] = {t}] /\ GoTo(c, "list")
      <3>1. ~Return(c, kErrorNoData)
        BY <1>1 DEF Return, GoTo, CallTypes
      <3> QED
        BY <1>4, <3>1 DEF Get
    <2>2. pc'[c] = "list" /\ queue'[c] = {t}
      BY <1>1, <2>1 DEF GoTo, CallTypes, LocalTypes
    <2> QED
      BY <1>1, <1>3, <1>4, <2>1, <2>2
         DEF SoFar, ReadSoFar, UpdateSoFar, InsertSoFar, DeleteSoFar, InTable, Deleting, heapVars
  <1>5. CASE call[c] # "Read"
    <2>1. GoTo(c, IF t = NULL THEN "publish" ELSE IF call[c] = "Insert" THEN "insertField" ELSE "updateField")
      BY <1>5 DEF Get
    <2>2. pc'[c] = IF t = NULL THEN "publish" ELSE IF call[c] = "Insert" THEN "insertField" ELSE "updateField"
      BY <1>1, <2>1 DEF GoTo, CallTypes
    <2>3. CASE t = NULL
      BY <1>1, <1>3, <1>5, <2>2, <2>3
         DEF SoFar, ReadSoFar, UpdateSoFar, InsertSoFar, DeleteSoFar, InTable, Deleting
    <2>4. CASE t # NULL
      <3>1. \A f \in Fields : Before(c, f) = tables[t][f]
        BY <1>1, <2>4, StoredNow
      <3>2. \A f \in Fields : After(c, f) = Before(c, f)'
        BY <1>1, <1>2, <3>1 DEF After, Before, heapVars
      <3>3. /\ call[c] = "Update" => todo[c] \in FieldSets
            /\ call[c] = "Insert" => todo[c] = Fields
            /\ result[c] = {}
        BY <1>1, <1>3, <1>5 DEF SoFar, UpdateSoFar, InsertSoFar
      <3>4. pc'[c] \in {"insertField", "updateField"}
        BY <2>2, <2>4
      <3> HIDE DEF t
      <3> QED
        BY <1>1, <1>5, <3>2, <3>3, <3>4, NothingMerged
    <2> QED
      BY <2>3, <2>4
  <1> QED
    BY <1>4, <1>5

\* A call that has published its table starts from an empty record.
LEMMA PublishSoFar ==
    ASSUME Agreeing, TypeInv', NEW c \in Clients, Client(c), Sample(c), Publish(c)
    PROVE  SoFar(c)'
  <1>1. /\ pc[c] = "publish" /\ CallTypes /\ LocalTypes /\ HeapTypes /\ HistoryTypes
        /\ key' = key /\ call' = call /\ todo' = todo /\ result' = result /\ tables' = tables
        /\ field_table'[c] = NewTable(c) /\ pc'[c] = "insertField"
        /\ call[c] \in {"Update", "Insert"} /\ key_table[key[c]] = NULL
    BY CallsAt DEF Publish, Agreeing, TypeInv, LocalTypes, CallTypes, CallAt, GoTo, OwnRecord
  <1>2. store' = store
    BY <1>1, GoesOn
  <1>3. SoFar(c) /\ TypeInv
    BY CallsAt
  <1>4. NewTable(c) \in UnbornTables /\ NewTable(c) \in Tables
    BY <1>1, <1>3, UnbornShrinks, NewNames
  <1>5. \A f \in Fields : tables[NewTable(c)][f] = NULL
    BY <1>4, CallsAt DEF UnbornInv, Entries
  <1>6. \A f \in Fields : Before(c, f) = NULL
    BY <1>1, StoredNow
  <1>7. \A f \in Fields : After(c, f) = Before(c, f)'
    BY <1>1, <1>2, <1>5, <1>6 DEF After, Before
  <1>8. /\ call[c] = "Update" => todo[c] \in FieldSets
        /\ call[c] = "Insert" => todo[c] = Fields
        /\ result[c] = {}
    BY <1>1, <1>3 DEF SoFar, UpdateSoFar, InsertSoFar
  <1> QED
    BY <1>1, <1>7, <1>8, NothingMerged

\* An Update in its table has written one field more, or is about to delete or to
\* insert; when it returns none is left.
LEMMA UpdateMerges ==
    ASSUME Agreeing, NEW c \in Clients, Client(c), pc[c] \in InTable, call[c] = "Update"
    PROVE  \E fs \in FieldSets, more \in SUBSET Fields :
              /\ \A g \in Fields : IF g \in fs \ more THEN After(c, g) \in Strings ELSE After(c, g) = Before(c, g)
              /\ \/ pc'[c] \in InTable /\ more = Pending(c)' /\ todo'[c] \subseteq fs
                 \/ pc'[c] = "idle" /\ more = {} /\ ret'[c] = kOK
  <1> DEFINE f == NextField(c)
  <1>1. PICK fs \in FieldSets : todo[c] \subseteq fs /\ Merged(c, fs \ Pending(c))
    BY CallsAt DEF SoFar, UpdateSoFar
  <1>2. /\ FieldStep(c) /\ f \in todo[c] /\ todo[c] \in SUBSET Fields
        /\ \A g \in Fields \ {f} : After(c, g) = Now(c, g)
    BY FieldSteps
  <1>3. /\ RestOf(c) \in SUBSET Fields /\ f \notin RestOf(c) /\ todo[c] = RestOf(c) \cup {f}
    BY <1>2, NextOfTodo
  <1>4. /\ f \in fs /\ fs \in SUBSET Fields
    BY <1>1, <1>2 DEF FieldSets
  <1>5. \A g \in Fields : IF g \in fs \ Pending(c) THEN Now(c, g) \in Strings ELSE Now(c, g) = Before(c, g)
    BY <1>1 DEF Merged
  <1> HIDE DEF f
  <1>6. ASSUME fs \ RestOf(c) = (fs \ Pending(c)) \cup {f}, After(c, f) \in Strings
        PROVE  \A g \in Fields : IF g \in fs \ RestOf(c) THEN After(c, g) \in Strings ELSE After(c, g) = Before(c, g)
    BY <1>2, <1>5, <1>6
  <1>7. ASSUME Advances(c),
               \A g \in Fields : IF g \in fs \ RestOf(c) THEN After(c, g) \in Strings ELSE After(c, g) = Before(c, g)
        PROVE  \E more \in SUBSET Fields :
                  /\ \A g \in Fields : IF g \in fs \ more THEN After(c, g) \in Strings ELSE After(c, g) = Before(c, g)
                  /\ \/ pc'[c] \in InTable /\ more = Pending(c)' /\ todo'[c] \subseteq fs
                     \/ pc'[c] = "idle" /\ more = {} /\ ret'[c] = kOK
    <2>1. CASE RestOf(c) = {}
      BY <1>3, <1>7, <2>1 DEF Advances
    <2>2. CASE RestOf(c) # {}
      <3>1. pc'[c] \in {"insertField", "updateField"} /\ todo'[c] = RestOf(c)
        BY <1>7, <2>2 DEF Advances
      <3>2. Pending(c)' = RestOf(c)
        BY <3>1 DEF Pending
      <3> QED
        BY <1>1, <1>3, <1>7, <3>1, <3>2 DEF InTable
    <2> QED
      BY <2>1, <2>2
  <1>8. CASE pc[c] # "deleteOld" /\ After(c, f) \in Strings /\ Advances(c)
    <2>1. Pending(c) = todo[c]
      BY <1>8 DEF Pending
    <2>2. fs \ RestOf(c) = (fs \ Pending(c)) \cup {f}
      BY <1>3, <1>4, <2>1
    <2> QED
      BY <1>6, <1>7, <1>8, <2>2
  <1>9. CASE pc[c] = "updateField" /\ After(c, f) = Now(c, f) /\ todo'[c] = todo[c] /\ pc'[c] = "insertMissing"
    <2>1. Pending(c) = todo[c] /\ Pending(c)' = todo[c]
      BY <1>9 DEF Pending
    <2>2. \A g \in Fields : IF g \in fs \ todo[c] THEN After(c, g) \in Strings ELSE After(c, g) = Before(c, g)
      BY <1>2, <1>5, <1>9, <2>1
    <2> QED
      BY <1>1, <1>2, <1>9, <2>1, <2>2 DEF InTable
  <1>10. CASE pc[c] = "updateField" /\ After(c, f) \in Strings /\ todo'[c] = todo[c] /\ pc'[c] = "deleteOld"
    <2>1. Pending(c) = todo[c]
      BY <1>10 DEF Pending
    <2>2. Pending(c)' = RestOf(c)
      BY <1>10 DEF Pending, RestOf, NextField
    <2>3. fs \ RestOf(c) = (fs \ Pending(c)) \cup {f}
      BY <1>3, <1>4, <2>1
    <2> QED
      BY <1>1, <1>3, <1>6, <1>10, <2>2, <2>3 DEF InTable
  <1>11. CASE pc[c] = "deleteOld" /\ After(c, f) = Now(c, f) /\ Advances(c)
    <2>1. Pending(c) = RestOf(c)
      BY <1>11 DEF Pending
    <2>2. \A g \in Fields : IF g \in fs \ RestOf(c) THEN After(c, g) \in Strings ELSE After(c, g) = Before(c, g)
      BY <1>2, <1>5, <1>11, <2>1
    <2> QED
      BY <1>7, <1>11, <2>2
  <1>12. \/ pc[c] # "deleteOld" /\ After(c, f) \in Strings /\ Advances(c)
         \/ pc[c] = "updateField" /\ After(c, f) = Now(c, f) /\ todo'[c] = todo[c] /\ pc'[c] = "insertMissing"
         \/ pc[c] = "updateField" /\ After(c, f) \in Strings /\ todo'[c] = todo[c] /\ pc'[c] = "deleteOld"
         \/ pc[c] = "deleteOld" /\ After(c, f) = Now(c, f) /\ Advances(c)
    BY <1>2 DEF FieldStep, f
  <1> QED
    BY <1>8, <1>9, <1>10, <1>11, <1>12

\* An Insert in its table has written the next field, which was not there, or gives
\* up because it was.
LEMMA InsertMerges ==
    ASSUME Agreeing, NEW c \in Clients, Client(c), pc[c] \in InTable, call[c] = "Insert"
    PROVE  /\ NextField(c) \in Fields /\ NextField(c) \notin RestOf(c) /\ RestOf(c) \in SUBSET Fields
           /\ \A g \in Fields \ (RestOf(c) \cup {NextField(c)}) : Before(c, g) = NULL /\ g < NextField(c)
           /\ \A g \in RestOf(c) : NextField(c) < g
           /\ \A g \in Fields \ RestOf(c) : \A h \in RestOf(c) : g < h
           /\ \A g \in Fields \ {NextField(c)} :
                 IF g \in RestOf(c) THEN After(c, g) = Before(c, g) ELSE After(c, g) \in Strings
           /\ \/ /\ After(c, NextField(c)) \in Strings /\ Before(c, NextField(c)) = NULL
                 /\ todo'[c] = RestOf(c)
                 /\ IF RestOf(c) = {} THEN pc'[c] = "idle" /\ ret'[c] = kOK ELSE pc'[c] = "insertField"
              \/ /\ After(c, NextField(c)) = Before(c, NextField(c)) /\ Before(c, NextField(c)) # NULL
                 /\ pc'[c] = "idle" /\ ret'[c] = kErrorConflict
  <1> DEFINE f == NextField(c)
  <1>1. /\ FieldStep(c) /\ f \in todo[c] /\ todo[c] \in SUBSET Fields /\ pc[c] = "insertField"
        /\ \A g \in Fields \ {f} : After(c, g) = Now(c, g)
    BY FieldSteps
  <1>2. /\ Merged(c, Fields \ todo[c])
        /\ \A g \in Fields \ todo[c] : Before(c, g) = NULL /\ \A h \in todo[c] : g < h
    BY <1>1, CallsAt DEF SoFar, InsertSoFar
  <1>3. /\ RestOf(c) \in SUBSET Fields /\ f \notin RestOf(c) /\ todo[c] = RestOf(c) \cup {f}
    BY <1>1, NextOfTodo
  <1>4. \A g \in todo[c] : f <= g
    BY <1>1, NextLeast
  <1>5. \A g \in Fields : g \in Int
    BY SizesAssumption DEF Fields
  <1>6. InsertField(c)
    BY <1>1 DEF Client, Begin, Get, Publish, UpdateField, InsertMissing, DeleteOld, ScanKeys, ListFields,
           CopyValue, EndList, Remove, ListDeleted, DeleteStrings, DeleteTable
  <1>7. pc'[c] \in {"insertField", "idle"}
    BY <1>6, FieldSteps
  <1>8. \A g \in Fields : IF g \in todo[c] THEN Now(c, g) = Before(c, g) ELSE Now(c, g) \in Strings
    BY <1>2 DEF Merged
  <1> HIDE DEF f
  <1>9. \A g \in RestOf(c) : f < g
    BY <1>1, <1>3, <1>4, <1>5
  <1>10. \A g \in Fields \ RestOf(c) : \A h \in RestOf(c) : g < h
    BY <1>2, <1>3, <1>9
  <1>11. \A g \in Fields \ {f} : IF g \in RestOf(c) THEN After(c, g) = Before(c, g) ELSE After(c, g) \in Strings
    BY <1>1, <1>3, <1>8
  <1>12. \/ /\ After(c, f) \in Strings /\ Before(c, f) = NULL
            /\ todo'[c] = RestOf(c)
            /\ IF RestOf(c) = {} THEN pc'[c] = "idle" /\ ret'[c] = kOK ELSE pc'[c] = "insertField"
         \/ /\ After(c, f) = Before(c, f) /\ Before(c, f) # NULL
            /\ pc'[c] = "idle" /\ ret'[c] = kErrorConflict
    <2>1. Now(c, f) = Before(c, f)
      BY <1>1, <1>8
    <2>2. \/ After(c, f) \in Strings /\ Advances(c) /\ Now(c, f) = NULL
          \/ /\ Now(c, f) # NULL /\ After(c, f) = Now(c, f)
             /\ pc'[c] = "idle" /\ ret'[c] = kErrorConflict
      BY <1>1 DEF FieldStep, f
    <2> QED
      BY <1>7, <2>1, <2>2 DEF Advances
  <1>13. \A g \in Fields \ (RestOf(c) \cup {f}) : Before(c, g) = NULL /\ g < f
    BY <1>1, <1>2, <1>3
  <1> QED
    BY <1>1, <1>3, <1>9, <1>10, <1>11, <1>12, <1>13 DEF f

\* A call in its table goes on with its fields.
LEMMA FieldSoFar ==
    ASSUME Agreeing, TypeInv', NEW c \in Clients, Client(c), Sample(c), pc[c] \in InTable, pc'[c] # "idle"
    PROVE  SoFar(c)'
  <1>1. /\ key' = key /\ call' = call /\ call[c] \in {"Update", "Insert"}
    BY FieldSteps
  <1>2. store' = store
    BY GoesOn
  <1>3. \A g \in Fields : Before(c, g)' = Before(c, g) /\ Now(c, g)' = After(c, g)
    BY <1>1, <1>2 DEF Before, Now, After
  <1>4. result'[c] = {}
    BY <1>1, OwnResult
  <1>5. CASE call[c] = "Update"
    <2>1. PICK fs \in FieldSets, more \in SUBSET Fields :
              /\ \A g \in Fields : IF g \in fs \ more THEN After(c, g) \in Strings ELSE After(c, g) = Before(c, g)
              /\ pc'[c] \in InTable /\ more = Pending(c)' /\ todo'[c] \subseteq fs
      BY <1>5, UpdateMerges
    <2>2. Merged(c, fs \ Pending(c))'
      <3>1. \A g \in Fields : IF g \in fs \ Pending(c)' THEN Now(c, g)' \in Strings ELSE Now(c, g)' = Before(c, g)'
        BY <1>3, <2>1
      <3> QED
        BY <3>1 DEF Merged
    <2>3. UpdateSoFar(c)'
      BY <2>1, <2>2 DEF UpdateSoFar, InTable
    <2> QED
      BY <1>1, <1>4, <1>5, <2>1, <2>3 DEF SoFar, ReadSoFar, InsertSoFar, DeleteSoFar, InTable, Deleting
  <1>6. CASE call[c] = "Insert"
    <2>1. /\ RestOf(c) \in SUBSET Fields
          /\ \A g \in Fields \ (RestOf(c) \cup {NextField(c)}) : Before(c, g) = NULL
          /\ \A g \in Fields \ RestOf(c) : \A h \in RestOf(c) : g < h
          /\ \A g \in Fields \ {NextField(c)} :
                IF g \in RestOf(c) THEN After(c, g) = Before(c, g) ELSE After(c, g) \in Strings
          /\ After(c, NextField(c)) \in Strings /\ Before(c, NextField(c)) = NULL
          /\ todo'[c] = RestOf(c) /\ pc'[c] = "insertField" /\ NextField(c) \notin RestOf(c)
      BY <1>6, InsertMerges
    <2>2. /\ \A g \in Fields : IF g \in RestOf(c) THEN After(c, g) = Before(c, g) ELSE After(c, g) \in Strings
          /\ \A g \in Fields \ RestOf(c) : Before(c, g) = NULL
      BY <2>1
    <2>3. InsertSoFar(c)'
      <3>1. \A g \in Fields : IF g \in Fields \ todo'[c] THEN Now(c, g)' \in Strings ELSE Now(c, g)' = Before(c, g)'
        BY <1>3, <2>1, <2>2
      <3>2. Merged(c, Fields \ todo[c])'
        BY <3>1 DEF Merged
      <3>3. \A g \in Fields \ todo'[c] : Before(c, g)' = NULL /\ \A h \in todo'[c] : g < h
        BY <1>3, <2>1, <2>2
      <3> QED
        BY <2>1, <3>2, <3>3 DEF InsertSoFar
    <2> QED
      BY <1>1, <1>4, <1>6, <2>1, <2>3 DEF SoFar, ReadSoFar, UpdateSoFar, DeleteSoFar, InTable, Deleting
  <1> QED
    BY <1>1, <1>5, <1>6

\* A Read collects the values of its record.
LEMMA ListSoFar ==
    ASSUME Agreeing, TypeInv', NEW c \in Clients, Client(c), Sample(c), pc'[c] # "idle",
           ListFields(c) \/ CopyValue(c) \/ EndList(c)
    PROVE  SoFar(c)'
  <1> DEFINE t == key_table[key[c]]
             values == {tables[t][f] : f \in Asked(c)} \ {NULL}
  <1>1. /\ pc[c] \in {"list", "copy"} /\ call[c] = "Read" /\ ~Undefined(c)
        /\ CallTypes /\ LocalTypes /\ HistoryTypes
    BY CallsAt, Defined DEF ListFields, CopyValue, EndList, Agreeing, TypeInv
  <1>2. /\ key' = key /\ call' = call /\ todo' = todo /\ key_table' = key_table /\ tables' = tables
        /\ workload' = workload
    BY <1>1 DEF ListFields, CopyValue, EndList, Client, heapVars
  <1>3. /\ key[c] \in workload.read[c] /\ (todo[c] = {} \/ todo[c] \in FieldSets) /\ t # NULL
        /\ pc[c] = "list" => queue[c] = {t} /\ result[c] = {}
        /\ pc[c] = "copy" => queue[c] = {} /\ result[c] \cup held[c] = values
    BY <1>1, CallsAt DEF SoFar, ReadSoFar
  <1>4. ASSUME pc'[c] = "copy", queue'[c] = {}, result'[c] \cup held'[c] = values
        PROVE  SoFar(c)'
    <2>1. Asked(c)' = Asked(c)
      BY <1>2 DEF Asked
    <2>2. values = {tables'[key_table'[key'[c]]][f] : f \in Asked(c)'} \ {NULL}
      BY <1>2, <2>1
    <2> HIDE DEF t, values
    <2>3. ReadSoFar(c)'
      BY <1>2, <1>3, <1>4, <2>2 DEF ReadSoFar, t
    <2> QED
      BY <1>1, <1>2, <1>4, <2>3 DEF SoFar, UpdateSoFar, InsertSoFar, DeleteSoFar, InTable, Deleting
  <1>5. CASE ListFields(c)
    <2>1. pc[c] = "list"
      BY <1>5 DEF ListFields
    <2>2. /\ held' = [held EXCEPT ![c] = IF todo[c] = {} THEN Entries(t) ELSE {tables[t][f] : f \in todo[c]} \ {NULL}]
          /\ queue' = [queue EXCEPT ![c] = @ \ {t}] /\ GoTo(c, "copy") /\ result' = result
      BY <1>1, <1>3, <1>5, <2>1 DEF ListFields
    <2>3. held'[c] = values
      BY <1>1, <2>2 DEF LocalTypes, Entries, Asked
    <2>4. queue'[c] = {} /\ result'[c] = {} /\ pc'[c] = "copy"
      BY <1>1, <1>3, <2>1, <2>2 DEF LocalTypes, CallTypes, GoTo
    <2> HIDE DEF t, values
    <2> QED
      BY <1>4, <2>3, <2>4
  <1>6. CASE CopyValue(c)
    <2>1. pc[c] = "copy" /\ pc' = pc /\ queue' = queue
      BY <1>1, <1>6 DEF CopyValue
    <2>2. PICK s \in held[c] : /\ result' = [result EXCEPT ![c] = @ \cup {s}]
                               /\ held' = [held EXCEPT ![c] = @ \ {s}]
      BY <1>1, <1>6 DEF CopyValue
    <2>3. result'[c] = result[c] \cup {s} /\ held'[c] = held[c] \ {s}
      BY <1>1, <2>2 DEF LocalTypes, HistoryTypes
    <2> HIDE DEF t, values
    <2>4. result'[c] \cup held'[c] = values
      BY <1>3, <2>1, <2>3
    <2> QED
      BY <1>3, <1>4, <2>1, <2>4
  <1>7. CASE EndList(c)
    <2>1. pc[c] = "copy" /\ queue[c] = {}
      BY <1>3, <1>7 DEF EndList
    <2>2. Return(c, kOK)
      BY <1>7, <2>1 DEF EndList
    <2> QED
      BY <1>1, <2>2 DEF Return, GoTo, CallTypes
  <1> QED
    BY <1>5, <1>6, <1>7

\* A Delete has removed its record at its first step.
LEMMA DeletesSoFar ==
    ASSUME Agreeing, TypeInv', NEW c \in Clients, Client(c), Sample(c), pc'[c] # "idle",
           Remove(c) \/ ListDeleted(c) \/ DeleteStrings(c) \/ DeleteTable(c)
    PROVE  SoFar(c)'
  <1>1. /\ pc[c] \in {"remove"} \cup Deleting /\ call[c] = "Delete" /\ ~Undefined(c)
        /\ CallTypes /\ HeapTypes /\ key[c] \in Keys /\ key' = key /\ call' = call
        /\ ~Begin(c)
    BY CallsAt, Defined DEF Remove, ListDeleted, DeleteStrings, DeleteTable, Begin, TypeInv, CallAt, Deleting
  <1>2. store' = store /\ result'[c] = {}
    BY <1>1, GoesOn, OwnResult
  <1>3. ASSUME pc'[c] \in Deleting, key_table'[key[c]] = NULL, store[key[c]] # NULL PROVE SoFar(c)'
    BY <1>1, <1>2, <1>3 DEF SoFar, ReadSoFar, UpdateSoFar, InsertSoFar, DeleteSoFar, InTable, Deleting
  <1>4. CASE Remove(c)
    <2>1. pc[c] = "remove" /\ key_table' = [key_table EXCEPT ![key[c]] = NULL]
      BY <1>4 DEF Remove
    <2>2. ~Return(c, kErrorNoData)
      BY <1>1 DEF Return, GoTo, CallTypes
    <2>3. key_table[key[c]] # NULL /\ GoTo(c, "listDeleted")
      BY <1>4, <2>2 DEF Remove
    <2>4. store[key[c]] # NULL
      BY <2>1, <2>3, StoredNow
    <2> QED
      BY <1>1, <1>3, <2>1, <2>3, <2>4 DEF GoTo, CallTypes, HeapTypes, Deleting
  <1>5. CASE ListDeleted(c) \/ DeleteStrings(c)
    <2>1. pc[c] \in Deleting /\ pc'[c] \in Deleting /\ key_table' = key_table
      BY <1>1, <1>5 DEF ListDeleted, DeleteStrings, GoTo, CallTypes, Deleting, heapVars
    <2>2. key_table[key[c]] = NULL /\ store[key[c]] # NULL
      BY <2>1, CallsAt DEF SoFar, DeleteSoFar
    <2> QED
      BY <1>3, <2>1, <2>2
  <1>6. CASE DeleteTable(c)
    BY <1>1, <1>6 DEF DeleteTable, Return, GoTo, CallTypes
  <1> QED
    BY <1>4, <1>5, <1>6

\* A call follows its steps.
LEMMA OwnSoFar ==
    ASSUME Agreeing, TypeInv', NEW c \in Clients, Client(c), Sample(c)
    PROVE  SoFar(c)'
  <1>1. CASE pc'[c] = "idle"
    BY <1>1, IdleSoFar
  <1>2. CASE pc'[c] # "idle"
    <2>1. CASE Begin(c)
      BY <2>1, BeginSoFar
    <2>2. CASE Get(c)
      BY <1>2, <2>2, GetSoFar
    <2>3. CASE Publish(c)
      BY <2>3, PublishSoFar
    <2>4. CASE InsertField(c) \/ UpdateField(c) \/ InsertMissing(c) \/ DeleteOld(c)
      <3>1. pc[c] \in InTable
        BY <2>4 DEF InsertField, UpdateField, InsertMissing, DeleteOld, InTable
      <3> QED
        BY <1>2, <3>1, FieldSoFar
    <2>5. CASE ListFields(c) \/ CopyValue(c) \/ EndList(c)
      BY <1>2, <2>5, ListSoFar
    <2>6. CASE Remove(c) \/ ListDeleted(c) \/ DeleteStrings(c) \/ DeleteTable(c)
      BY <1>2, <2>6, DeletesSoFar
    <2>7. ~ScanKeys(c)
      BY CallsAt DEF ScanKeys
    <2> QED
      BY <2>1, <2>2, <2>3, <2>4, <2>5, <2>6, <2>7 DEF Client
  <1> QED
    BY <1>1, <1>2

\* A call that writes goes on changing its record until it returns.
LEMMA WritersGoOn ==
    ASSUME Agreeing, NEW c \in Clients, Client(c), pc[c] \in Writing
    PROVE  pc'[c] = "idle" \/ pc'[c] \in InTable \cup Deleting
  <1>1. CallTypes /\ ~Undefined(c) /\ \A to : GoTo(c, to) => pc'[c] = to
    BY CallsAt, Defined DEF TypeInv, GoTo, CallTypes
  <1>2. \A r : Return(c, r) => pc'[c] = "idle"
    BY <1>1 DEF Return
  <1>3. CASE pc[c] = "publish"
    <2>1. Publish(c)
      BY <1>3 DEF Client, Begin, Get, InsertField, UpdateField, InsertMissing, DeleteOld, ScanKeys, ListFields,
             CopyValue, EndList, Remove, ListDeleted, DeleteStrings, DeleteTable
    <2> QED
      BY <1>1, <2>1 DEF Publish, InTable
  <1>4. CASE pc[c] \in InTable
    BY <1>4, FieldSteps DEF FieldStep, Advances, InTable
  <1>5. CASE pc[c] \in {"remove"} \cup Deleting
    <2>1. Remove(c) \/ ListDeleted(c) \/ DeleteStrings(c) \/ DeleteTable(c)
      BY <1>5 DEF Deleting, Client, Begin, Get, Publish, InsertField, UpdateField, InsertMissing, DeleteOld,
             ScanKeys, ListFields, CopyValue, EndList
    <2> QED
      BY <1>1, <1>2, <2>1 DEF Deleting, Remove, ListDeleted, DeleteStrings, DeleteTable
  <1> QED
    BY <1>3, <1>4, <1>5 DEF Writing

\* Between changes store has the records.
LEMMA RecordsAgreeKept ==
    ASSUME Agreeing, TypeInv', NEW c \in Clients, Client(c), Sample(c)
    PROVE  RecordsAgree'
  <1> SUFFICES ASSUME NEW k \in Keys, \A d \in Clients : key'[d] = k => ~Changing(d)'
               PROVE  store'[k] = RecordOf(k)'
    BY DEF RecordsAgree
  <1>1. TypeInv /\ HistoryTypes
    BY DEF Agreeing
  <1>2. \A d \in Clients \ {c} : key[d] = k => ~Changing(d)
    BY <1>1, OwnSteps DEF Changing
  <1>3. CASE Returning(c) /\ k = key[c]
    <2>1. key'[c] = k /\ store'[key[c]] = RecordOf(key[c])'
      BY <1>1, <1>3, SampleEffect
    <2> QED
      BY <1>3, <2>1 DEF RecordOf
  <1>4. CASE ~(Returning(c) /\ k = key[c])
    <2>1. store'[k] = store[k]
      <3>1. CASE Returning(c)
        BY <1>1, <1>4, <3>1, SampleEffect
      <3>2. CASE ~Returning(c)
        BY <1>1, <3>2, SampleEffect
      <3> QED
        BY <3>1, <3>2
    <2>2. pc[c] \in Writing => k # key[c]
      <3> SUFFICES ASSUME pc[c] \in Writing, k = key[c] PROVE FALSE
        OBVIOUS
      <3>1. pc'[c] \in InTable \cup Deleting
        BY <1>4, WritersGoOn DEF Returning, Writing, InTable, Deleting
      <3>2. key' = key
        <4>1. ~Begin(c)
          BY DEF Begin, Writing, InTable, Deleting
        <4> QED
          BY <4>1, CallKept
      <3> QED
        BY <3>1, <3>2 DEF Changing
    <2>3. RecordOf(k)' = RecordOf(k)
      BY <2>2, OthersRecords, CallsAt
    <2>4. key[c] = k => ~Changing(c)
      BY <2>2 DEF Changing, Writing
    <2>5. store[k] = RecordOf(k)
      BY <1>2, <2>4 DEF Agreeing, RecordsAgree
    <2> QED
      BY <2>1, <2>3, <2>5
  <1> QED
    BY <1>3, <1>4

-----------------------------------------------------------------------------
\* The steps of KVStore.

\* Replacing some fields of a record.
LEMMA MergeRecord ==
    ASSUME NEW r \in Records \cup {NULL}, NEW fs \in SUBSET Fields, NEW new \in Records,
           \A g \in Fields : IF g \in fs THEN new[g] \in Strings ELSE new[g] = IF r = NULL THEN NULL ELSE r[g]
    PROVE  \E v \in [fs -> Strings] : KV!Merge(r, v) = new
  <1> DEFINE v == [g \in fs |-> new[g]]
             base == IF r = NULL THEN KV!NoFields ELSE r
  <1>1. v \in [fs -> Strings] /\ DOMAIN v = fs
    OBVIOUS
  <1>2. \A g \in Fields : base[g] = IF r = NULL THEN NULL ELSE r[g]
    BY DEF KV!NoFields
  <1>3. KV!Merge(r, v) = [g \in Fields |-> IF g \in DOMAIN v THEN v[g] ELSE base[g]]
    BY Zenon DEF KV!Merge
  <1>4. new = [g \in Fields |-> new[g]]
    BY DEF Records
  <1>5. \A g \in Fields : (IF g \in DOMAIN v THEN v[g] ELSE base[g]) = new[g]
    BY <1>1, <1>2
  <1>6. KV!Merge(r, v) = new
    <2> HIDE DEF v, base
    <2> QED
      BY <1>3, <1>4, <1>5, Zenon
  <1> QED
    BY <1>1, <1>6

\* The record of the call's key after its last step.
Left(c) == IF key_table'[key[c]] = NULL THEN NULL ELSE tables'[key_table'[key[c]]]

\* A call that returns leaves a record and an answer.
LEMMA Returned ==
    ASSUME Agreeing, TypeInv', NEW c \in Clients, Client(c), Sample(c), pc'[c] = "idle"
    PROVE  /\ key[c] \in Keys /\ Left(c) \in Records \cup {NULL}
           /\ store' = [store EXCEPT ![key[c]] = Left(c)]
           /\ reply' = [reply EXCEPT ![c] = <<call[c], ret'[c], result'[c]>>]
           /\ pc[c] # "idle" /\ ~Begin(c) /\ call' = call /\ store[key[c]] \in Records \cup {NULL}
           /\ Left(c) = store[key[c]] => store' = store
  <1>1. ~Begin(c) /\ pc[c] # "idle"
    <2>1. ~Begin(c)
      <3> SUFFICES ASSUME Begin(c) PROVE FALSE
        OBVIOUS
      <3>1. CallTypes
        BY CallsAt DEF TypeInv
      <3>2. PICK name \in workload.calls : GoTo(c, Entry(name))
        BY DEF Begin
      <3>3. name \in CallNames
        BY <3>1, <3>2, WorkloadTypes DEF CallTypes
      <3> QED
        BY <3>1, <3>2, <3>3 DEF GoTo, Entry, CallNames, CallTypes
    <2> QED
      BY <2>1 DEF Client, Get, Publish, InsertField, UpdateField, InsertMissing, DeleteOld, ScanKeys, ListFields,
             CopyValue, EndList, Remove, ListDeleted, DeleteStrings, DeleteTable
  <1>2. Returning(c)
    BY <1>1 DEF Returning
  <1>3. TypeInv /\ HistoryTypes
    BY DEF Agreeing
  <1>4. key'[c] = key[c] /\ key[c] \in Keys /\ call' = call
    BY <1>2, <1>3, SampleEffect
  <1>5. store' = [store EXCEPT ![key[c]] = RecordOf(key[c])']
        /\ reply' = [reply EXCEPT ![c] = <<call[c], ret'[c], result'[c]>>]
    BY <1>2, <1>3, SampleEffect
  <1>6. store' = [store EXCEPT ![key[c]] = Left(c)]
    BY <1>4, <1>5 DEF RecordOf, Left
  <1>7. Left(c) \in Records \cup {NULL}
    BY <1>4 DEF TypeInv, HeapTypes, Left, Records
  <1>8. store \in [Keys -> Records \cup {NULL}]
    BY <1>3 DEF HistoryTypes
  <1>9. Left(c) = store[key[c]] => store' = store
    BY <1>4, <1>6, <1>8
  <1> QED
    BY <1>1, <1>4, <1>5, <1>6, <1>7, <1>8, <1>9

\* Not found, or listed.
LEMMA ReadReturns ==
    ASSUME Agreeing, TypeInv', NEW c \in Clients, Client(c), Sample(c), pc'[c] = "idle", call[c] = "Read"
    PROVE  KV!Read(c, key[c])
  <1> DEFINE t == key_table[key[c]]
  <1>0. /\ CallTypes /\ ~Begin(c) /\ \A r : Return(c, r) => ret'[c] = r
        /\ reply' = [reply EXCEPT ![c] = <<"Read", ret'[c], result'[c]>>]
    <2>1. CallTypes
      BY CallsAt DEF TypeInv
    <2>2. ~Begin(c) /\ reply' = [reply EXCEPT ![c] = <<"Read", ret'[c], result'[c]>>]
      BY Returned
    <2> QED
      BY <2>1, <2>2 DEF Return, GoTo, CallTypes
  <1>1. CASE Get(c)
    <2>1. pc[c] = "get" /\ key_table' = key_table /\ result' = result
      BY <1>1 DEF Get, heapVars
    <2>2. t = NULL /\ ret'[c] = kErrorNoData
      <3>1. ~GoTo(c, "list")
        BY <1>0 DEF GoTo, CallTypes
      <3> QED
        BY <1>0, <1>1, <3>1 DEF Get
    <2>3. store[key[c]] = NULL /\ Left(c) = NULL
      BY <2>1, <2>2, StoredNow DEF Left
    <2>4. store' = store
      BY <2>3, Returned
    <2>5. result'[c] = {}
      BY <2>1, CallsAt DEF SoFar, ReadSoFar
    <2> QED
      BY <1>0, <2>2, <2>3, <2>4, <2>5 DEF KV!Read, KV!Reply, KV!kErrorNoData, kErrorNoData
  <1>2. CASE EndList(c)
    <2>1. /\ pc[c] = "copy" /\ held[c] = {} /\ key_table' = key_table /\ tables' = tables /\ result' = result
      BY <1>2 DEF EndList, heapVars
    <2>2. queue[c] = {} /\ result[c] \cup held[c] = {tables[t][f] : f \in Asked(c)} \ {NULL} /\ t # NULL
          /\ (todo[c] = {} \/ todo[c] \in FieldSets)
      BY <2>1, CallsAt DEF SoFar, ReadSoFar
    <2>3. ret'[c] = kOK
      BY <1>0, <1>2, <2>2 DEF EndList
    <2>4. store[key[c]] = tables[t] /\ store[key[c]] # NULL
      BY <2>1, <2>2, StoredNow
    <2>5. Left(c) = store[key[c]]
      BY <2>1, <2>2, <2>4 DEF Left
    <2>6. store' = store
      BY <2>5, Returned
    <2>7. Asked(c) \in FieldSets
      BY <2>2 DEF Asked, FieldSets
    <2>8. result'[c] = KV!Select(store[key[c]], Asked(c))
      BY <2>1, <2>2, <2>4 DEF KV!Select
    <2> HIDE DEF t
    <2>9. \E fs \in FieldSets : KV!Reply(c, "Read", kOK, KV!Select(store[key[c]], fs))
      BY <1>0, <2>3, <2>7, <2>8 DEF KV!Reply
    <2> QED
      BY <2>4, <2>6, <2>9 DEF KV!Read, FieldSets, KV!kOK, kOK
  <1>3. Get(c) \/ EndList(c)
    <2>1. pc[c] \in {"get", "list", "copy"}
      BY CallsAt, Defined, Returned DEF CallAt, Places, Deleting, TypeInv, CallTypes
    <2>2. ~ListFields(c)
      BY <1>0, Defined DEF ListFields, GoTo, CallTypes
    <2>3. ~CopyValue(c)
      BY <1>0, Defined DEF CopyValue
    <2> QED
      BY <2>1, <2>2, <2>3 DEF Client, Begin, Publish, InsertField, UpdateField, InsertMissing, DeleteOld, ScanKeys,
             Remove, ListDeleted, DeleteStrings, DeleteTable
  <1> QED
    BY <1>1, <1>2, <1>3

\* A call that returns from its table leaves the fields it has written in the record.
LEMMA LeavesTable ==
    ASSUME Agreeing, TypeInv', NEW c \in Clients, Client(c), Sample(c), pc'[c] = "idle", pc[c] \in InTable
    PROVE  /\ Left(c) \in Records /\ \A f \in Fields : Left(c)[f] = After(c, f)
           /\ \A f \in Fields : Before(c, f) = IF store[key[c]] = NULL THEN NULL ELSE store[key[c]][f]
           /\ store[key[c]] \in Records \cup {NULL} /\ key[c] \in Keys
           /\ call[c] # "Read" => result'[c] = {}
  <1>1. /\ key_table'[key[c]] = field_table[c] /\ field_table'[c] = field_table[c]
        /\ field_table[c] \in Tables /\ field_table[c] # NULL
    BY FieldSteps
  <1>2. Left(c) = tables'[field_table[c]]
    BY <1>1 DEF Left
  <1>3. Left(c) \in Records
    BY <1>1, <1>2 DEF TypeInv, HeapTypes, Records
  <1>4. call[c] # "Read" => result'[c] = {}
    BY Returned, OwnResult
  <1> QED
    BY <1>1, <1>2, <1>3, <1>4, Returned DEF After, Before

\* All fields of the record have a value of the call, or the one it was asked for.
LEMMA UpdateReturns ==
    ASSUME Agreeing, TypeInv', NEW c \in Clients, Client(c), Sample(c), pc'[c] = "idle", call[c] = "Update"
    PROVE  KV!Update(c, key[c])
  <1>1. pc[c] \in InTable
    <2>1. CallTypes /\ \A to : GoTo(c, to) => pc'[c] = to
      BY CallsAt DEF TypeInv, GoTo, CallTypes
    <2>2. pc[c] \in {"get", "publish"} \cup InTable
      BY CallsAt, Defined, Returned DEF CallAt, Places, TypeInv, CallTypes, InTable, Deleting
    <2>3. ~Get(c)
      BY <2>1 DEF Get
    <2>4. ~Publish(c)
      BY <2>1 DEF Publish
    <2> QED
      BY <2>2, <2>3, <2>4 DEF Client, Begin, InsertField, UpdateField, InsertMissing, DeleteOld, ScanKeys,
             ListFields, CopyValue, EndList, Remove, ListDeleted, DeleteStrings, DeleteTable
  <1>2. PICK fs \in FieldSets :
           /\ \A g \in Fields : IF g \in fs THEN After(c, g) \in Strings ELSE After(c, g) = Before(c, g)
           /\ ret'[c] = kOK
    BY <1>1, UpdateMerges DEF InTable
  <1>3. /\ Left(c) \in Records /\ \A f \in Fields : Left(c)[f] = After(c, f)
        /\ \A f \in Fields : Before(c, f) = IF store[key[c]] = NULL THEN NULL ELSE store[key[c]][f]
        /\ store[key[c]] \in Records \cup {NULL} /\ key[c] \in Keys
        /\ result'[c] = {}
    BY <1>1, LeavesTable
  <1>4. fs \in SUBSET Fields
    BY DEF FieldSets
  <1>5. PICK v \in [fs -> Strings] : KV!Merge(store[key[c]], v) = Left(c)
    <2>1. \A g \in Fields : IF g \in fs THEN Left(c)[g] \in Strings
                            ELSE Left(c)[g] = IF store[key[c]] = NULL THEN NULL ELSE store[key[c]][g]
      BY <1>2, <1>3
    <2> QED
      BY <1>3, <1>4, <2>1, MergeRecord
  <1>6. store' = [store EXCEPT ![key[c]] = KV!Merge(@, v)]
    BY <1>5, Returned
  <1>7. KV!Reply(c, "Update", kOK, {})
    BY <1>2, <1>3, Returned DEF KV!Reply
  <1> QED
    BY <1>6, <1>7 DEF KV!Update, FieldSets, KV!kOK, kOK

\* All fields, or those before the first one that was there.
LEMMA InsertReturns ==
    ASSUME Agreeing, TypeInv', NEW c \in Clients, Client(c), Sample(c), pc'[c] = "idle", call[c] = "Insert"
    PROVE  KV!Insert(c, key[c])
  <1>1. pc[c] \in InTable
    <2>1. CallTypes /\ \A to : GoTo(c, to) => pc'[c] = to
      BY CallsAt DEF TypeInv, GoTo, CallTypes
    <2>2. pc[c] \in {"get", "publish"} \cup InTable
      BY CallsAt, Defined, Returned DEF CallAt, Places, TypeInv, CallTypes, InTable, Deleting
    <2>3. ~Get(c)
      BY <2>1 DEF Get
    <2>4. ~Publish(c)
      BY <2>1 DEF Publish
    <2> QED
      BY <2>2, <2>3, <2>4 DEF Client, Begin, InsertField, UpdateField, InsertMissing, DeleteOld, ScanKeys,
             ListFields, CopyValue, EndList, Remove, ListDeleted, DeleteStrings, DeleteTable
  <1> DEFINE n == NextField(c)
             r == store[key[c]]
             taken == IF r = NULL THEN {} ELSE {f \in Fields : r[f] # NULL}
             fs == IF taken = {} THEN Fields ELSE {f \in Fields : f < Min(taken)}
  <1>2. /\ Left(c) \in Records /\ \A f \in Fields : Left(c)[f] = After(c, f)
        /\ \A f \in Fields : Before(c, f) = IF r = NULL THEN NULL ELSE r[f]
        /\ r \in Records \cup {NULL} /\ key[c] \in Keys
        /\ result'[c] = {}
    BY <1>1, LeavesTable
  <1>3. /\ n \in Fields /\ n \notin RestOf(c) /\ RestOf(c) \in SUBSET Fields
        /\ \A g \in Fields \ (RestOf(c) \cup {n}) : Before(c, g) = NULL /\ g < n
        /\ \A g \in RestOf(c) : n < g
        /\ \A g \in Fields \ {n} :
              IF g \in RestOf(c) THEN After(c, g) = Before(c, g) ELSE After(c, g) \in Strings
        /\ \/ /\ After(c, n) \in Strings /\ Before(c, n) = NULL
              /\ RestOf(c) = {} /\ ret'[c] = kOK
           \/ /\ After(c, n) = Before(c, n) /\ Before(c, n) # NULL
              /\ ret'[c] = kErrorConflict
    BY <1>1, InsertMerges
  <1>4. taken = {f \in Fields : Before(c, f) # NULL}
    BY <1>2
  <1>5. \A g \in Fields : g \in Int
    BY SizesAssumption DEF Fields
  <1> HIDE DEF n, r, taken
  <1>6. fs \in SUBSET Fields /\ ret'[c] = (IF taken = {} THEN kOK ELSE kErrorConflict)
        /\ \A g \in Fields : IF g \in fs THEN After(c, g) \in Strings ELSE After(c, g) = Before(c, g)
    <2>1. CASE Before(c, n) = NULL
      <3>1. RestOf(c) = {} /\ ret'[c] = kOK /\ After(c, n) \in Strings
        BY <1>3, <2>1
      <3>2. taken = {}
        BY <1>3, <1>4, <2>1, <3>1
      <3> QED
        BY <1>3, <3>1, <3>2
    <2>2. CASE Before(c, n) # NULL
      <3>1. ret'[c] = kErrorConflict /\ After(c, n) = Before(c, n)
        BY <1>3, <2>2
      <3>2. n \in taken /\ \A g \in taken : n <= g
        BY <1>3, <1>4, <1>5, <2>2
      <3>3. Min(taken) = n
        <4>1. \A x \in taken : (\A y \in taken : x <= y) => x = n
          BY <1>4, <1>5, <3>2
        <4> QED
          BY <3>2, <4>1 DEF Min
      <3>4. fs = Fields \ (RestOf(c) \cup {n})
        <4>1. \A g \in Fields : g < n <=> g \notin RestOf(c) \cup {n}
          BY <1>3, <1>5
        <4>2. fs = {f \in Fields : f < n}
          BY <3>2, <3>3
        <4> HIDE DEF fs
        <4> QED
          BY <4>1, <4>2
      <3> HIDE DEF fs
      <3> QED
        BY <1>3, <3>1, <3>2, <3>4
    <2> QED
      BY <2>1, <2>2
  <1> HIDE DEF fs
  <1>7. PICK v \in [fs -> Strings] : KV!Merge(r, v) = Left(c)
    <2>1. \A g \in Fields : IF g \in fs THEN Left(c)[g] \in Strings
                            ELSE Left(c)[g] = IF r = NULL THEN NULL ELSE r[g]
      BY <1>2, <1>6
    <2> QED
      BY <1>2, <1>6, <2>1, MergeRecord
  <1>8. store' = [store EXCEPT ![key[c]] = KV!Merge(@, v)]
    BY <1>7, Returned DEF r
  <1>9. KV!Reply(c, "Insert", IF taken = {} THEN kOK ELSE kErrorConflict, {})
    BY <1>2, <1>6, Returned DEF KV!Reply
  <1> QED
    BY <1>8, <1>9 DEF KV!Insert, KV!Min, Min, fs, taken, r, KV!kOK, kOK, KV!kErrorConflict, kErrorConflict

\* The record is gone, or was not there.
LEMMA DeleteReturns ==
    ASSUME Agreeing, TypeInv', NEW c \in Clients, Client(c), Sample(c), pc'[c] = "idle", call[c] = "Delete"
    PROVE  KV!Delete(c, key[c])
  <1>1. CallTypes /\ HeapTypes /\ \A r : Return(c, r) => ret'[c] = r
    BY CallsAt DEF TypeInv, Return, GoTo, CallTypes
  <1>2. /\ key[c] \in Keys /\ result'[c] = {} /\ call' = call /\ ~Begin(c)
        /\ store' = [store EXCEPT ![key[c]] = Left(c)]
        /\ reply' = [reply EXCEPT ![c] = <<"Delete", ret'[c], {}>>]
    BY Returned, OwnResult
  <1>3. CASE Remove(c)
    <2>1. pc[c] = "remove" /\ key_table' = [key_table EXCEPT ![key[c]] = NULL]
      BY <1>3 DEF Remove
    <2>2. key_table[key[c]] = NULL /\ ret'[c] = kErrorNoData
      <3>1. ~GoTo(c, "listDeleted")
        BY <1>1 DEF GoTo, CallTypes
      <3> QED
        BY <1>1, <1>3, <3>1 DEF Remove
    <2>3. store[key[c]] = NULL
      BY <2>1, <2>2, StoredNow
    <2>4. Left(c) = NULL
      BY <1>1, <1>2, <2>1 DEF Left, HeapTypes
    <2> QED
      BY <1>2, <2>2, <2>3, <2>4 DEF KV!Delete, KV!Reply, KV!kErrorNoData, kErrorNoData
  <1>4. CASE DeleteTable(c)
    <2>1. pc[c] \in Deleting /\ key_table' = key_table /\ ret'[c] = kOK
      BY <1>1, <1>4 DEF DeleteTable, Deleting
    <2>2. key_table[key[c]] = NULL /\ store[key[c]] # NULL
      BY <2>1, CallsAt DEF SoFar, DeleteSoFar
    <2>3. Left(c) = NULL
      BY <2>1, <2>2 DEF Left
    <2> QED
      BY <1>2, <2>1, <2>2, <2>3 DEF KV!Delete, KV!Reply, KV!kOK, kOK
  <1>5. Remove(c) \/ DeleteTable(c)
    <2>1. ~ListDeleted(c) /\ ~DeleteStrings(c)
      BY <1>1, Defined DEF ListDeleted, DeleteStrings, GoTo, CallTypes
    <2>2. pc[c] \in {"remove"} \cup Deleting
      BY CallsAt, Defined, Returned DEF CallAt, Places, TypeInv, CallTypes, Deleting
    <2> QED
      BY <2>1, <2>2 DEF Deleting, Client, Begin, Get, Publish, InsertField, UpdateField, InsertMissing, DeleteOld,
             ScanKeys, ListFields, CopyValue, EndList
  <1> QED
    BY <1>3, <1>4, <1>5

\* Each step of a call is a step of KVStore, when it returns, or none.
LEMMA CallsAreAtomic ==
    ASSUME Agreeing, TypeInv', NEW c \in Clients, Client(c), Sample(c)
    PROVE  KV!Next \/ UNCHANGED <<store, reply>>
  <1>1. CASE pc'[c] = "idle"
    <2>1. key[c] \in Keys /\ call[c] \in {"Read", "Update", "Insert", "Delete"}
      BY <1>1, CallsAt, Defined, Returned
    <2>2. KV!Read(c, key[c]) \/ KV!Update(c, key[c]) \/ KV!Insert(c, key[c]) \/ KV!Delete(c, key[c])
      BY <1>1, <2>1, ReadReturns, UpdateReturns, InsertReturns, DeleteReturns
    <2> QED
      BY <2>1, <2>2 DEF KV!Next
  <1>2. CASE pc'[c] # "idle"
    BY <1>2, GoesOn
  <1> QED
    BY <1>1, <1>2

\* A call starts from what the invariants say, while there is one.
LEMMA Agree ==
    ASSUME TypeInv, PlaceInv, OwnInv, AtomicInv, ExclusiveKeys, NEW c \in Clients, Client(c)
    PROVE  Agreeing
  <1>1. pc[c] # "destroyed"
    BY DEF Client, Begin, Get, Publish, InsertField, UpdateField, InsertMissing, DeleteOld, ScanKeys,
           ListFields, CopyValue, EndList, Remove, ListDeleted, DeleteStrings, DeleteTable
  <1>2. NoUseAfterFree /\ RecordsAgree /\ HistoryTypes /\ \A d \in Clients : SoFar(d)
    BY <1>1 DEF AtomicInv
  <1>3. AllOwned
    BY <1>2 DEF OwnInv, ExclusiveKeys
  <1> QED
    BY <1>2, <1>3 DEF Agreeing

\* Nothing is stored at first.
LEMMA AtomicInit == ASSUME HistoryInit PROVE AtomicInv
  <1> USE DEF HistoryInit, Init
  <1>1. HistoryTypes
    BY DEF HistoryTypes
  <1>2. NoUseAfterFree
    BY DEF NoUseAfterFree
  <1>3. RecordsAgree
    BY DEF RecordsAgree, RecordOf
  <1>4. ASSUME NEW c \in Clients PROVE SoFar(c)
    <2>1. pc[c] = "idle"
      OBVIOUS
    <2> QED
      BY <2>1 DEF SoFar, ReadSoFar, UpdateSoFar, InsertSoFar, DeleteSoFar, InTable, Deleting
  <1> QED
    BY <1>1, <1>2, <1>3, <1>4 DEF AtomicInv

\* Every step keeps the agreement.
LEMMA AtomicStep ==
    ASSUME TypeInv, PlaceInv, OwnInv, TypeInv', AtomicInv, [HistoryNext]_historyVars
    PROVE  AtomicInv'
  <1>1. ASSUME NEW c \in Clients, Client(c), Sample(c) PROVE AtomicInv'
    <2>1. HistoryTypes'
      BY <1>1, SampleEffect DEF AtomicInv
    <2>2. workload' = workload
      BY <1>1, OwnSteps
    <2>3. ExclusiveKeys' => ExclusiveKeys
      BY <2>2 DEF ExclusiveKeys, OwnWrites
    <2>4. ASSUME ExclusiveKeys PROVE NoUseAfterFree' /\ RecordsAgree' /\ \A d \in Clients : SoFar(d)'
      <3>1. Agreeing
        BY <1>1, <2>4, Agree
      <3>2. NoUseAfterFree'
        <4>1. NoUseAfterFree
          BY <3>1, Defined, <1>1, <2>4 DEF AtomicInv
        <4>2. pc'[c] # "undefined"
          BY <1>1, <3>1, Defined
        <4> QED
          BY <1>1, <4>1, <4>2, OwnSteps DEF NoUseAfterFree
      <3>3. RecordsAgree'
        BY <1>1, <3>1, RecordsAgreeKept
      <3>4. ASSUME NEW d \in Clients PROVE SoFar(d)'
        BY <1>1, <3>1, OwnSoFar, OthersSoFar
      <3> QED
        BY <3>2, <3>3, <3>4
    <2> QED
      BY <2>1, <2>3, <2>4 DEF AtomicInv
  <1>2. CASE Destroy /\ UNCHANGED <<store, reply>>
    <2>1. HistoryTypes'
      BY <1>2 DEF AtomicInv, HistoryTypes, Destroy, Records
    <2>2. \A c \in Clients : pc'[c] = "destroyed"
      BY <1>2 DEF Destroy
    <2> QED
      BY <2>1, <2>2 DEF AtomicInv, NoUseAfterFree
  <1>3. CASE UNCHANGED historyVars
    <2> USE DEF historyVars
    <2>1. HistoryTypes'
      BY <1>3 DEF AtomicInv, HistoryTypes, Records
    <2>2. /\ ExclusiveKeys' = ExclusiveKeys /\ NoUseAfterFree' = NoUseAfterFree
          /\ RecordsAgree' = RecordsAgree
      BY <1>3 DEF ExclusiveKeys, OwnWrites, NoUseAfterFree, RecordsAgree, RecordOf, Changing
    <2>3. ASSUME NEW c \in Clients PROVE SoFar(c)' = SoFar(c)
      BY <1>3 DEF SoFar, ReadSoFar, UpdateSoFar, InsertSoFar, DeleteSoFar, Asked, Merged, Now, Before, Pending,
             RestOf, NextField
    <2>4. (\E c \in Clients : pc'[c] # "destroyed") <=> (\E c \in Clients : pc[c] # "destroyed")
      BY <1>3
    <2> QED
      BY <2>1, <2>2, <2>3, <2>4 DEF AtomicInv
  <1> QED
    BY <1>1, <1>2, <1>3 DEF HistoryNext, Stopped, vars, historyVars

\* The history variables take nothing away.
LEMMA HistoryIsSpec == HistorySpec => Spec
  <1>1. HistoryInit => Init
    BY DEF HistoryInit
  <1>2. [HistoryNext]_historyVars => [Next]_vars
    BY DEF HistoryNext, Next, historyVars, vars
  <1> QED
    BY <1>1, <1>2, PTL DEF HistorySpec, Spec

\* As long as no client uses a key that another one writes and nobody scans, every
\* call of the in-memory databases, though it takes several steps on two levels of
\* hashtables, answers and leaves the record as one atomic call of KVStore would:
\* a Read has all the values of one record, an Update or an Insert has written what
\* its return code says, a Delete leaves nothing.
THEOREM CallsImplementKVStore == HistorySpec => ImplementsKVStore
  <1> DEFINE Inv == TypeInv /\ PlaceInv /\ OwnInv
  <1>1. HistorySpec => []Inv
    BY HistoryIsSpec, TypeCorrect, PlaceCorrect, OwnCorrect, PTL
  <1>2. HistoryInit => AtomicInv
    BY AtomicInit
  <1>3. Inv /\ Inv' /\ AtomicInv /\ [HistoryNext]_historyVars => AtomicInv'
    BY AtomicStep
  <1>4. HistorySpec => []AtomicInv
    <2> HIDE DEF Inv
    <2> QED
      BY <1>1, <1>2, <1>3, PTL DEF HistorySpec
  <1>5. HistoryInit => KV!Init
    BY DEF HistoryInit, KV!Init, kOK, KV!kOK
  <1>6. Inv /\ Inv' /\ AtomicInv /\ [HistoryNext]_historyVars
        => [ExclusiveKeys => KV!Next]_<<store, reply>>
    <2> SUFFICES ASSUME Inv, Inv', AtomicInv, [HistoryNext]_historyVars, ExclusiveKeys
                 PROVE  KV!Next \/ UNCHANGED <<store, reply>>
      OBVIOUS
    <2>1. ASSUME NEW c \in Clients, Client(c), Sample(c)
          PROVE  KV!Next \/ UNCHANGED <<store, reply>>
      BY <2>1, Agree, CallsAreAtomic
    <2>2. CASE (Destroy \/ Stopped) /\ UNCHANGED <<store, reply>>
      BY <2>2
    <2>3. CASE UNCHANGED historyVars
      BY <2>3 DEF historyVars
    <2> QED
      BY <2>1, <2>2, <2>3 DEF HistoryNext
  <1>7. HistorySpec => KV!Init /\ [][ExclusiveKeys => KV!Next]_<<store, reply>>
    <2> HIDE DEF Inv
    <2> QED
      BY <1>1, <1>4, <1>5, <1>6, PTL DEF HistorySpec
  <1> QED
    BY <1>7 DEF ImplementsKVStore
=============================================================================
