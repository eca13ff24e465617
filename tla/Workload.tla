------------------------------ MODULE Workload ------------------------------
(***************************************************************************)
(* CoreWorkload (core/core_workload.h, .cc) and its generators: what Init  *)
(* builds from the properties, and what the client threads then draw from  *)
(* it to put a request together (core/client.h, the Transaction methods).  *)
(*                                                                         *)
(* A generator is a record; its Next() is the set of numbers it can draw.  *)
(* Probabilities are left out, except that an outcome of probability zero  *)
(* is not in the set.  Numbers are uint64_t: arithmetic is modulo Word,    *)
(* which is 2^64 in the code.  One CoreWorkload serves all threads.        *)
(***************************************************************************)
EXTENDS Integers, Sequences

CONSTANTS
    Threads,         \* client threads
    Word,            \* 2 to the width of uint64_t
    kMaxNumItems,    \* UINT64_MAX >> 24
    Hash,            \* utils::Hash, a function from words to words
    Properties,      \* the property files Init is run on
    MaxCalls,        \* bound: requests per thread
    NONE             \* no request, no properties

Words == 0..(Word - 1)

INSERT == 0
READ == 1
UPDATE == 2
SCAN == 3
READMODIFYWRITE == 4
Operations == {INSERT, READ, UPDATE, SCAN, READMODIFYWRITE}
NoOperation == -1

\* What Init reads.  The proportions appear as the set of operations whose
\* proportion is positive, op_count * insert_proportion * 2 as new_keys, the
\* two hotspot fractions in percent (out of range they are set to 0), and
\* zerolookuprate as the possible outcomes of rand() % 100 < zerolookuprate.
\* A record has a field, and the lengths are positive.
PropertySets ==
    [recordcount : Words, insertstart : Words, readkeystart : Words, new_keys : Words,
     requestdistribution : {"uniform", "zipfian", "latest", "hotspot", "other"},
     hotspotdata : 0..100, hotspotopn : 0..100,
     proportions : SUBSET Operations,
     zerolookup : {{FALSE}, {TRUE}, BOOLEAN},
     fieldcount : Words \ {0}, fieldlength : Words \ {0}, maxscanlength : Words \ {0},
     field_len_dist : {"constant", "uniform", "zipfian", "other"},
     scanlengthdistribution : {"uniform", "zipfian", "other"},
     ordered : BOOLEAN, readallfields : BOOLEAN, writeallfields : BOOLEAN]

ASSUME WordAssumption == Word \in Nat \ {0} /\ kMaxNumItems \in Words
ASSUME HashAssumption == Hash \in [Words -> Words]
ASSUME PropertiesAssumption ==
    /\ Properties \subseteq PropertySets
    /\ \A q \in Properties : q.new_keys > 0 => INSERT \in q.proportions

VARIABLES
    process,               \* "start", "running", or how the process ended
    p,                     \* the properties Init was called with
    key_generator,         \* CounterGenerator: next sequence key
    insert_key_sequence,   \* CounterGenerator: set to record_count_
    key_chooser, field_chooser, scan_len_chooser, field_len_generator,
    last,                  \* op_chooser_.last_
    pc,                    \* where each thread is
    calls,                 \* how many requests each thread has begun
    op, key_num,           \* locals of the request being built
    zero,                  \* the key was moved by record_count_, a zero lookup
    request                \* the last request handed to the database

chooserVars == <<key_chooser, field_chooser, scan_len_chooser, field_len_generator>>
workloadVars == <<p, insert_key_sequence, chooserVars>>
vars == <<process, p, key_generator, insert_key_sequence, key_chooser, field_chooser,
          scan_len_chooser, field_len_generator, last, pc, calls, op, key_num, zero, request>>

-----------------------------------------------------------------------------
(***************************************************************************)
(* Generators.                                                             *)
(***************************************************************************)

Add(a, b) == (a + b) % Word
Sub(a, b) == (a - b) % Word

NoGenerator == [kind |-> "none"]

UniformGenerator(min, max) == [kind |-> "uniform", min |-> min, max |-> max]
ConstGenerator(c) == [kind |-> "const", value |-> c]
ZipfianGenerator(items) == [kind |-> "zipfian", items |-> items]
ScrambledZipfianGenerator(items) == [kind |-> "scrambled", items |-> items]
SkewedLatestGenerator(items) == [kind |-> "latest", items |-> items]

\* The interval is split after its first (interval * fraction) numbers.  Lower
\* and upper are swapped when they are in the wrong order, which 0 and
\* record_count_ - 1 never are.
HotspotIntegerGenerator(lower, upper, percent, opn) ==
    LET interval == Add(Sub(upper, lower), 1)
        hot == (interval * percent) \div 100
    IN  [kind |-> "hotspot", lower |-> lower, hot |-> hot, cold |-> interval - hot, opn |-> opn]

\* CounterGenerator::Last.
Last(counter) == Sub(counter, 1)

\* "assert(num_items_ >= 2 && num_items_ < kMaxNumItems)".
ItemsOK(n) == n >= 2 /\ n < kMaxNumItems

\* ZipfianGenerator::Next(num) of a generator built with base_ 0.
ZipfianDraws(num) == 0..(num - 1)

\* The numbers Next() can return.
Draws(g) ==
    CASE g.kind = "none" -> {}
      [] g.kind = "const" -> {g.value}
      [] g.kind = "uniform" -> g.min..g.max
      [] g.kind = "zipfian" -> ZipfianDraws(g.items)
      [] g.kind = "scrambled" -> {Hash[v] % g.items : v \in ZipfianDraws(g.items)}
      [] g.kind = "latest" -> LET max == Last(insert_key_sequence)
                              IN  {Sub(max, v) : v \in ZipfianDraws(max)}
      [] g.kind = "hotspot" ->
            (IF g.opn > 0 THEN {Add(g.lower, v) : v \in 0..(g.hot - 1)} ELSE {})
            \cup (IF g.opn < 100 THEN {Add(g.lower, g.hot + v) : v \in 0..(g.cold - 1)} ELSE {})

\* Next() computes a remainder modulo zero.
DividesByZero(g) ==
    /\ g.kind = "hotspot"
    /\ (g.opn > 0 /\ g.hot = 0) \/ (g.opn < 100 /\ g.cold = 0)

-----------------------------------------------------------------------------
(***************************************************************************)
(* CoreWorkload::Init.                                                     *)
(***************************************************************************)

\* The generator for lengths 1..max.  "new ZipfianGenerator(1, max)" selects
\* the constructor (num_items, zipfian_const), so it has one item.
LengthGenerator_FromZero(dist, max) ==
    IF dist = "uniform" THEN UniformGenerator(0, max) ELSE ConstGenerator(max)
LengthGenerator(dist, max) ==
    CASE dist = "constant" -> ConstGenerator(max)
      [] dist = "uniform" -> UniformGenerator(1, max)
      [] dist = "zipfian" -> ZipfianGenerator(1)
      [] dist = "other" -> NoGenerator

KeyChooser_AfterLoad(q) == UniformGenerator(q.recordcount, Add(q.recordcount, q.recordcount))
KeyChooser(q) ==
    CASE q.requestdistribution = "uniform" -> UniformGenerator(0, Sub(q.recordcount, 1))
      [] q.requestdistribution = "zipfian" ->
            ScrambledZipfianGenerator(Add(q.recordcount, q.new_keys))
      [] q.requestdistribution = "latest" -> SkewedLatestGenerator(Last(q.recordcount))
      [] q.requestdistribution = "hotspot" ->
            HotspotIntegerGenerator(0, Sub(q.recordcount, 1), q.hotspotdata, q.hotspotopn)
      [] q.requestdistribution = "other" -> NoGenerator

\* How the construction of a generator ends: an unknown distribution throws,
\* a Zipfian generator asserts its number of items.
Outcome(g) ==
    CASE g.kind = "none" -> "exception"
      [] g.kind \in {"zipfian", "scrambled", "latest"} /\ ~ItemsOK(g.items) -> "assert"
      [] OTHER -> "running"

\* insert_key_sequence_.Set(record_count_).
SetInsertSequence_Forgotten(q) == 3
SetInsertSequence(q) == q.recordcount

\* op_chooser_.last_ after the AddValue calls: the first value added, or what
\* the memory held when there is none.
AddOrder == <<READ, UPDATE, INSERT, SCAN, READMODIFYWRITE>>
FirstOperations(q) ==
    IF q.proportions = {} THEN Operations \cup {NoOperation}
    ELSE {AddOrder[i] : i \in {i \in 1..5 : /\ AddOrder[i] \in q.proportions
                                          /\ \A j \in 1..(i - 1) : AddOrder[j] \notin q.proportions}}

\* The steps that can fail, in order: the field length generator, the key
\* chooser, the scan length generator.
InitWorkload ==
    /\ process = "start"
    /\ p' \in Properties
    /\ key_generator' = p'.insertstart
    /\ insert_key_sequence' = SetInsertSequence(p')
    /\ field_len_generator' = LengthGenerator(p'.field_len_dist, p'.fieldlength)
    /\ key_chooser' = KeyChooser(p')
    /\ field_chooser' = UniformGenerator(0, Sub(p'.fieldcount, 1))
    /\ scan_len_chooser' = LengthGenerator(p'.scanlengthdistribution, p'.maxscanlength)
    /\ last' \in FirstOperations(p')
    /\ process' = IF Outcome(field_len_generator') # "running" THEN Outcome(field_len_generator')
                  ELSE IF Outcome(key_chooser') # "running" THEN Outcome(key_chooser')
                  ELSE Outcome(scan_len_chooser')
    /\ UNCHANGED <<pc, calls, op, key_num, zero, request>>

-----------------------------------------------------------------------------
(***************************************************************************)
(* A client thread builds its requests.                                    *)
(***************************************************************************)

At(t, place) == process = "running" /\ pc[t] = place
GoTo(t, to) == pc' = [pc EXCEPT ![t] = to]

\* DiscreteGenerator::Next: a value with its weight or, when rounding lets the
\* loop run to its end, last_.  DoTransaction throws on anything else.
NextOperation(t) ==
    /\ At(t, "idle")
    /\ calls[t] < MaxCalls
    /\ calls' = [calls EXCEPT ![t] = @ + 1]
    /\ \E o \in p.proportions \cup {last} :
          /\ last' = o
          /\ op' = [op EXCEPT ![t] = o]
          /\ GoTo(t, IF o = NoOperation THEN "threw" ELSE IF o = INSERT THEN "sequence" ELSE "draw")
    /\ UNCHANGED <<process, key_generator, workloadVars, key_num, zero, request>>

\* NextSequenceKey, up to BuildKeyName.
NextSequenceKey(t) ==
    /\ At(t, "sequence")
    /\ key_num' = [key_num EXCEPT ![t] = key_generator]
    /\ key_generator' = Add(key_generator, 1)
    /\ zero' = [zero EXCEPT ![t] = FALSE]
    /\ GoTo(t, "build")
    /\ UNCHANGED <<process, workloadVars, last, calls, op, request>>

\* The condition that ends NextTransactionKey's loop.
Accepts(k) == k <= Last(insert_key_sequence)

\* A turn of the loop: the key is accepted, or rejected and another is drawn,
\* or a hotspot generator with an empty interval divides by zero.
DrawKey(t) ==
    /\ At(t, "draw")
    /\ \/ \E k \in Draws(key_chooser) :
             /\ Accepts(k)
             /\ key_num' = [key_num EXCEPT ![t] = k]
             /\ GoTo(t, "shift")
             /\ UNCHANGED process
       \/ \E k \in Draws(key_chooser) :
             /\ ~Accepts(k)
             /\ UNCHANGED <<process, key_num, pc>>
       \/ /\ DividesByZero(key_chooser)
          /\ process' = "SIGFPE"
          /\ UNCHANGED <<key_num, pc>>
    /\ UNCHANGED <<key_generator, workloadVars, last, calls, op, zero, request>>

\* "key_num += record_count_".
ZeroShift_Short(k) == Add(k, p.recordcount - 1)
ZeroShift(k) == Add(k, p.recordcount)

ShiftedKey(k, z) ==
    IF z THEN ZeroShift(Add(k, p.readkeystart)) ELSE Add(k, p.readkeystart)

\* The rest of NextTransactionKey, up to BuildKeyName.
ShiftKey(t) ==
    /\ At(t, "shift")
    /\ \E z \in p.zerolookup :
          /\ zero' = [zero EXCEPT ![t] = z]
          /\ key_num' = [key_num EXCEPT ![t] = ShiftedKey(key_num[t], z)]
    /\ GoTo(t, "build")
    /\ UNCHANGED <<process, key_generator, workloadVars, last, calls, op, request>>

\* Names are kept as the number (or hash) that is formatted into them.
BuildKeyName(k) == IF p.ordered THEN k ELSE Hash[k]
FieldName(n) == <<"field", n>>
NextFieldNames == {FieldName(n) : n \in Draws(field_chooser)}

\* The field names BuildValues gives a record.
RecordFields == {FieldName(n) : n \in 0..(p.fieldcount - 1)}

\* The sets of fields an operation may write: BuildValues or BuildUpdate.
WrittenFields(o) ==
    CASE o = INSERT -> {RecordFields}
      [] o \in {UPDATE, READMODIFYWRITE} ->
            IF p.writeallfields THEN {RecordFields} ELSE {{f} : f \in NextFieldNames}
      [] o \in {READ, SCAN} -> {{}}

\* The sets of fields an operation may ask for, {} standing for all of them:
\* "field" + NextFieldName().
ReadFields(o) ==
    IF o \in {READ, SCAN, READMODIFYWRITE} /\ ~p.readallfields
    THEN {{<<"field">> \o f} : f \in NextFieldNames}
    ELSE {{}}

\* Lengths of the values of a write, and of a scan.
ValueLengths(o) == IF o \in {READ, SCAN} THEN {0} ELSE Draws(field_len_generator)
ScanLengths(o) == IF o = SCAN THEN Draws(scan_len_chooser) ELSE {0}

\* The Transaction methods put the request together and call the database.
BuildRequest(t) ==
    /\ At(t, "build")
    /\ \E write \in WrittenFields(op[t]), read \in ReadFields(op[t]),
          size \in ValueLengths(op[t]), len \in ScanLengths(op[t]) :
          request' = [request EXCEPT ![t] =
             [op |-> op[t], key |-> BuildKeyName(key_num[t]), zero |-> zero[t],
              write |-> write, read |-> read, size |-> size, len |-> len]]
    /\ GoTo(t, "idle")
    /\ UNCHANGED <<process, key_generator, workloadVars, last, calls, op, key_num, zero>>

Thread(t) ==
    NextOperation(t) \/ NextSequenceKey(t) \/ DrawKey(t) \/ ShiftKey(t) \/ BuildRequest(t)

Init ==
    /\ process = "start"
    /\ p = NONE
    /\ key_generator = 0
    /\ insert_key_sequence = 3
    /\ key_chooser = NoGenerator /\ field_chooser = NoGenerator
    /\ scan_len_chooser = NoGenerator /\ field_len_generator = NoGenerator
    /\ last = NoOperation
    /\ pc = [t \in Threads |-> "idle"]
    /\ calls = [t \in Threads |-> 0]
    /\ op = [t \in Threads |-> NoOperation]
    /\ key_num = [t \in Threads |-> 0]
    /\ zero = [t \in Threads |-> FALSE]
    /\ request = [t \in Threads |-> NONE]

Stopped ==
    /\ \/ process \notin {"start", "running"}
       \/ \A t \in Threads : pc[t] = "threw" \/ (pc[t] = "idle" /\ calls[t] = MaxCalls)
    /\ process # "start"
    /\ UNCHANGED vars

Next == InitWorkload \/ (\E t \in Threads : Thread(t)) \/ Stopped

Spec == Init /\ [][Next]_vars

\* Threads are scheduled, and a draw that can happen happens.
FairSpec == Spec /\ \A t \in Threads : WF_vars(Thread(t))

-----------------------------------------------------------------------------
(***************************************************************************)
(* Properties.                                                             *)
(***************************************************************************)

\* The requests made so far.
Requests == {request[t] : t \in {t \in Threads : request[t] # NONE}}

\* The names of the keys recordcount inserts of the load phase use.
LoadedNames == {BuildKeyName(Add(k, p.insertstart)) : k \in 0..(p.recordcount - 1)}

\* When transactions start where the load phase started, NextTransactionKey
\* returns the name of a record the load phase is to insert, whatever the
\* distribution and however many keys beyond recordcount it was built for.
LookupsHitLoad ==
    \A r \in Requests :
        r.op # INSERT /\ ~r.zero /\ p.recordcount > 0 /\ p.readkeystart = p.insertstart =>
            r.key \in LoadedNames

\* A zero lookup misses the loaded records, if names are ordered and the key
\* space has room for it.
ZeroLookupsMiss ==
    \A r \in Requests :
        /\ r.op # INSERT /\ r.zero /\ p.recordcount > 0 /\ p.ordered
        /\ p.readkeystart = p.insertstart /\ p.insertstart + 2 * p.recordcount <= Word
        => r.key \notin LoadedNames

\* Operations with proportion zero never happen, rounding and threads that
\* overwrite last_ included; a scan asks for at least one record and at most
\* maxscanlength; a write has values, of fields every loaded record has.
WellFormed ==
    \A r \in Requests :
        /\ p.proportions # {} => r.op \in p.proportions
        /\ r.op = SCAN => r.len \in 1..p.maxscanlength
        /\ r.op \in {INSERT, UPDATE, READMODIFYWRITE} =>
              r.write # {} /\ r.write \subseteq RecordFields /\ r.size \in 1..p.fieldlength

\* Every choice of a key comes to an end: each distribution draws keys the
\* loop accepts.
DrawEnds ==
    \A t \in Threads : pc[t] = "draw" ~> pc[t] # "draw" \/ process # "running"
=============================================================================
