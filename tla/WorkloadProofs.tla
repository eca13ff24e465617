--------------------------- MODULE WorkloadProofs ---------------------------
(***************************************************************************)
(* Theorems about Workload, for every word size, hash function, set of     *)
(* property files and number of threads.                                   *)
(*                                                                         *)
(* InitInv says what Init leaves behind, KeyInv follows a key from the     *)
(* loop of NextTransactionKey through the shifts into the request, and     *)
(* FormInv the chosen operation and the lengths.                           *)
(***************************************************************************)
EXTENDS Workload, TLAPS

\* Before Init there are no requests; after it the choosers and the rejection
\* bound are those of the properties it read.
InitInv ==
    /\ process = "start" => \A t \in Threads : pc[t] = "idle" /\ request[t] = NONE
    /\ process # "start" => /\ p \in Properties
                            /\ insert_key_sequence = p.recordcount
                            /\ key_chooser = KeyChooser(p)

\* k is the number of a loaded record, counted from zero.
Loaded == 0..(p.recordcount - 1)

\* What each place of a thread says about its key, and what was requested.
KeyInv ==
    \A t \in Threads :
        /\ pc[t] = "sequence" => op[t] = INSERT
        /\ pc[t] = "shift" /\ p.recordcount > 0 => key_num[t] \in Loaded
        /\ pc[t] = "build" /\ op[t] # INSERT /\ p.recordcount > 0 =>
              \E k \in Loaded : key_num[t] = ShiftedKey(k, zero[t])
        /\ request[t] # NONE /\ request[t].op # INSERT /\ p.recordcount > 0 =>
              \E k \in Loaded : request[t].key = BuildKeyName(ShiftedKey(k, request[t].zero))

FunctionTypes ==
    /\ pc = [t \in Threads |-> pc[t]]
    /\ op = [t \in Threads |-> op[t]]
    /\ key_num = [t \in Threads |-> key_num[t]]
    /\ zero \in [Threads -> BOOLEAN]
    /\ request = [t \in Threads |-> request[t]]
    /\ \A t \in Threads : request[t] # NONE => request[t].zero \in BOOLEAN

KeysInv == FunctionTypes /\ InitInv /\ KeyInv

\* Arithmetic on words gives words.
LEMMA WordArithmetic ==
    ASSUME NEW a \in Int PROVE a % Word \in Words /\ (a \in Words => a % Word = a)
  BY WordAssumption DEF Words

\* No generator draws a negative number.
LEMMA DrawsAreNatural ==
    ASSUME NEW q \in Properties, key_chooser = KeyChooser(q),
           insert_key_sequence = q.recordcount, NEW k \in Draws(key_chooser)
    PROVE  k \in Nat
  <1>1. q \in PropertySets
    BY PropertiesAssumption
  <1>2. /\ q.recordcount \in Words /\ q.new_keys \in Words
        /\ q.hotspotdata \in 0..100 /\ q.hotspotopn \in 0..100
        /\ q.requestdistribution \in {"uniform", "zipfian", "latest", "hotspot", "other"}
    BY <1>1 DEF PropertySets
  <1> HIDE DEF Words
  <1>3. \A a \in Int : a % Word \in Words /\ a % Word \in Nat
    BY WordArithmetic DEF Words
  <1>4. q.recordcount \in Int /\ q.new_keys \in Int
    BY <1>2 DEF Words
  <1>5. CASE q.requestdistribution = "uniform"
    <2>1. key_chooser = UniformGenerator(0, Sub(q.recordcount, 1))
      BY <1>5, Zenon DEF KeyChooser
    <2>2. Draws(key_chooser) = key_chooser.min..key_chooser.max
      <3>1. key_chooser.kind = "uniform"
        BY <2>1 DEF UniformGenerator
      <3> QED
        BY <3>1, Zenon DEF Draws
    <2>3. key_chooser.min = 0 /\ key_chooser.max \in Nat
      BY <1>3, <1>4, <2>1 DEF UniformGenerator, Sub
    <2> QED
      BY <2>2, <2>3
  <1>6. CASE q.requestdistribution = "zipfian"
    <2> DEFINE n == Add(q.recordcount, q.new_keys)
    <2>1. n \in Words /\ n \in Nat
      BY <1>3, <1>4 DEF Add
    <2>2. key_chooser = ScrambledZipfianGenerator(n)
      BY <1>6, Zenon DEF KeyChooser
    <2> HIDE DEF n
    <2>3. Draws(key_chooser) = {Hash[v] % key_chooser.items : v \in ZipfianDraws(key_chooser.items)}
      <3>1. key_chooser.kind = "scrambled"
        BY <2>2 DEF ScrambledZipfianGenerator
      <3> QED
        BY <3>1, Zenon DEF Draws
    <2>4. key_chooser.items = n
      BY <2>2 DEF ScrambledZipfianGenerator
    <2>5. PICK v \in 0..(n - 1) : k = Hash[v] % n
      BY <2>3, <2>4 DEF ZipfianDraws
    <2>6. Hash[v] \in Nat
      <3>1. v \in Words
        BY <2>1, WordAssumption DEF Words
      <3>2. Hash[v] \in Words
        BY <3>1, HashAssumption
      <3> QED
        BY <3>2, WordAssumption DEF Words
    <2> QED
      BY <2>1, <2>5, <2>6
  <1>7. CASE q.requestdistribution = "latest"
    <2> DEFINE n == Last(q.recordcount)
    <2>1. n \in Nat
      BY <1>3, <1>4 DEF Last, Sub
    <2>2. key_chooser = SkewedLatestGenerator(n)
      BY <1>7, Zenon DEF KeyChooser
    <2>3. Draws(key_chooser) = {Sub(n, v) : v \in ZipfianDraws(n)}
      <3>1. key_chooser.kind = "latest"
        BY <2>2 DEF SkewedLatestGenerator
      <3>2. Draws(key_chooser) = {Sub(Last(insert_key_sequence), v) :
                                     v \in ZipfianDraws(Last(insert_key_sequence))}
        BY <3>1, Zenon DEF Draws
      <3> QED
        BY <3>2
    <2> HIDE DEF n
    <2>4. PICK v \in 0..(n - 1) : k = Sub(n, v)
      BY <2>3 DEF ZipfianDraws
    <2> QED
      BY <1>3, <2>1, <2>4 DEF Sub
  <1>8. CASE q.requestdistribution = "hotspot"
    <2> DEFINE g == HotspotIntegerGenerator(0, Sub(q.recordcount, 1), q.hotspotdata, q.hotspotopn)
    <2>1. key_chooser = g
      BY <1>8, Zenon DEF KeyChooser
    <2>2. g.kind = "hotspot" /\ g.lower = 0
      BY DEF HotspotIntegerGenerator
    <2>3. g.hot \in Int /\ g.cold \in Int
      <3> DEFINE interval == Add(Sub(Sub(q.recordcount, 1), 0), 1)
      <3>1. interval \in Int
        BY <1>3, <1>4 DEF Add, Sub
      <3> HIDE DEF interval
      <3>2. (interval * q.hotspotdata) \div 100 \in Int
        BY <3>1, <1>2
      <3>3. g.hot = (interval * q.hotspotdata) \div 100 /\ g.cold = interval - g.hot
        BY Zenon DEF HotspotIntegerGenerator, interval
      <3> QED
        BY <3>1, <3>2, <3>3
    <2> HIDE DEF g
    <2>4. Draws(g) =
            (IF g.opn > 0 THEN {Add(g.lower, v) : v \in 0..(g.hot - 1)} ELSE {})
            \cup (IF g.opn < 100 THEN {Add(g.lower, g.hot + v) : v \in 0..(g.cold - 1)} ELSE {})
      BY <2>2, Zenon DEF Draws
    <2>5. \E v \in Int : k = Add(0, v)
      BY <2>1, <2>2, <2>3, <2>4
    <2> QED
      BY <1>3, <2>5 DEF Add
  <1>9. CASE q.requestdistribution = "other"
    <2>1. key_chooser = NoGenerator
      BY <1>9, Zenon DEF KeyChooser
    <2>2. Draws(key_chooser) = {}
      <3>1. key_chooser.kind = "none"
        BY <2>1 DEF NoGenerator
      <3> QED
        BY <3>1, Zenon DEF Draws
    <2> QED
      BY <2>2
  <1> QED
    BY <1>2, <1>5, <1>6, <1>7, <1>8, <1>9

-----------------------------------------------------------------------------
\* The key invariant holds initially.
LEMMA KeysInit == Init => KeysInv
  BY DEF Init, KeysInv, FunctionTypes, InitInv, KeyInv

\* CoreWorkload::Init establishes the part about the generators.
LEMMA KeysInitWorkload == ASSUME KeysInv, InitWorkload PROVE KeysInv'
  <1> USE DEF KeysInv, FunctionTypes, InitInv, InitWorkload
  <1>1. FunctionTypes'
    OBVIOUS
  <1>2. InitInv'
    <2>1. process = "start" /\ pc' = pc /\ request' = request
      OBVIOUS
    <2>2. p' \in Properties /\ insert_key_sequence' = p'.recordcount /\ key_chooser' = KeyChooser(p')
      BY DEF SetInsertSequence, KeyChooser
    <2> QED
      BY <2>1, <2>2
  <1>3. KeyInv'
    BY DEF KeyInv
  <1> QED
    BY <1>1, <1>2, <1>3

\* A thread leaves what Init read alone.
LEMMA WorkloadKept ==
    ASSUME KeysInv, process = "running", NEW t \in Threads, Thread(t)
    PROVE  /\ p' = p
           /\ insert_key_sequence' = insert_key_sequence
           /\ key_chooser' = key_chooser
           /\ process' \in {"running", "SIGFPE"}
  BY DEF Thread, NextOperation, NextSequenceKey, DrawKey, ShiftKey, BuildRequest,
         workloadVars, chooserVars

\* A thread's step preserves the key invariant.
LEMMA KeysThread == ASSUME KeysInv, NEW t \in Threads, Thread(t) PROVE KeysInv'
  <1>1. process = "running" /\ p \in Properties
    BY DEF Thread, NextOperation, NextSequenceKey, DrawKey, ShiftKey, BuildRequest, At,
           KeysInv, InitInv
  <1>2. /\ p' = p /\ insert_key_sequence' = insert_key_sequence
        /\ key_chooser' = key_chooser /\ process' # "start"
    BY <1>1, WorkloadKept
  <1>3. InitInv'
    BY <1>1, <1>2 DEF KeysInv, InitInv, KeyChooser
  <1>4. \A k, z : ShiftedKey(k, z)' = ShiftedKey(k, z)
    BY <1>2 DEF ShiftedKey, ZeroShift, Add
  <1>5. \A k : BuildKeyName(k)' = BuildKeyName(k)
    BY <1>2 DEF BuildKeyName
  <1>6. Loaded' = Loaded
    BY <1>2 DEF Loaded
  <1>7. CASE NextOperation(t)
    <2>1. FunctionTypes'
      BY <1>7 DEF NextOperation, GoTo, KeysInv, FunctionTypes
    <2>2. KeyInv'
      BY <1>2, <1>4, <1>5, <1>6, <1>7 DEF NextOperation, At, GoTo, KeysInv, FunctionTypes, KeyInv, INSERT, NoOperation
    <2> QED
      BY <1>3, <2>1, <2>2 DEF KeysInv
  <1>8. CASE NextSequenceKey(t)
    <2>1. FunctionTypes'
      BY <1>8 DEF NextSequenceKey, GoTo, KeysInv, FunctionTypes
    <2>2. KeyInv'
      BY <1>2, <1>4, <1>5, <1>6, <1>8 DEF NextSequenceKey, At, GoTo, KeysInv, FunctionTypes, KeyInv
    <2> QED
      BY <1>3, <2>1, <2>2 DEF KeysInv
  <1>9. CASE DrawKey(t)
    <2>1. FunctionTypes'
      BY <1>9 DEF DrawKey, GoTo, KeysInv, FunctionTypes
    <2>2. ASSUME pc' = pc, key_num' = key_num PROVE KeyInv'
      BY <1>2, <1>4, <1>5, <1>6, <1>9, <2>2 DEF DrawKey, KeysInv, KeyInv
    <2>3. ASSUME NEW k \in Draws(key_chooser), Accepts(k),
                 key_num' = [key_num EXCEPT ![t] = k], pc' = [pc EXCEPT ![t] = "shift"]
          PROVE  KeyInv'
      <3>1. k \in Nat
        BY <1>1, <2>3, DrawsAreNatural DEF KeysInv, InitInv
      <3>2. p.recordcount > 0 => k \in Loaded
        <4>1. p.recordcount \in Words
          BY <1>1, PropertiesAssumption DEF PropertySets
        <4>2. p.recordcount > 0 => Last(p.recordcount) = p.recordcount - 1
          BY <4>1, WordAssumption, WordArithmetic DEF Last, Sub, Words
        <4>3. k <= Last(p.recordcount)
          BY <1>1, <2>3 DEF Accepts, KeysInv, InitInv
        <4> QED
          BY <3>1, <4>1, <4>2, <4>3 DEF Loaded, Words
      <3>3. op' = op /\ zero' = zero /\ request' = request
        BY <1>9 DEF DrawKey
      <3> QED
        BY <1>2, <1>4, <1>5, <1>6, <2>3, <3>2, <3>3 DEF KeysInv, FunctionTypes, KeyInv
    <2>4. KeyInv'
      BY <1>9, <2>2, <2>3 DEF DrawKey, GoTo
    <2> QED
      BY <1>3, <2>1, <2>4 DEF KeysInv
  <1>10. CASE ShiftKey(t)
    <2>1. p.zerolookup \subseteq BOOLEAN
      BY <1>1, PropertiesAssumption DEF PropertySets
    <2>2. PICK z \in BOOLEAN : /\ zero' = [zero EXCEPT ![t] = z]
                              /\ key_num' = [key_num EXCEPT ![t] = ShiftedKey(key_num[t], z)]
      BY <1>10, <2>1 DEF ShiftKey
    <2>3. /\ pc[t] = "shift" /\ pc' = [pc EXCEPT ![t] = "build"]
          /\ op' = op /\ request' = request
      BY <1>10 DEF ShiftKey, At, GoTo
    <2>4. FunctionTypes'
      BY <2>2, <2>3 DEF KeysInv, FunctionTypes
    <2>5. KeyInv'
      BY <1>2, <1>4, <1>5, <1>6, <2>2, <2>3 DEF KeysInv, FunctionTypes, KeyInv
    <2> QED
      BY <1>3, <2>4, <2>5 DEF KeysInv
  <1>11. CASE BuildRequest(t)
    <2> DEFINE Made(write, read, size, len) ==
                  [op |-> op[t], key |-> BuildKeyName(key_num[t]), zero |-> zero[t],
                   write |-> write, read |-> read, size |-> size, len |-> len]
    <2>1. PICK r : /\ request' = [request EXCEPT ![t] = r]
                   /\ r.op = op[t] /\ r.key = BuildKeyName(key_num[t]) /\ r.zero = zero[t]
      <3>1. PICK write \in WrittenFields(op[t]), read \in ReadFields(op[t]),
                 size \in ValueLengths(op[t]), len \in ScanLengths(op[t]) :
                    request' = [request EXCEPT ![t] = Made(write, read, size, len)]
        BY <1>11, Zenon DEF BuildRequest
      <3> DEFINE r == Made(write, read, size, len)
      <3>2. r.op = op[t] /\ r.key = BuildKeyName(key_num[t]) /\ r.zero = zero[t]
        OBVIOUS
      <3> HIDE DEF r
      <3> QED
        BY <3>1, <3>2, Zenon DEF r
    <2>2. /\ pc[t] = "build" /\ pc' = [pc EXCEPT ![t] = "idle"]
          /\ op' = op /\ key_num' = key_num /\ zero' = zero
      BY <1>11 DEF BuildRequest, At, GoTo
    <2>3. FunctionTypes'
      BY <2>1, <2>2 DEF KeysInv, FunctionTypes
    <2>4. KeyInv'
      BY <1>2, <1>4, <1>5, <1>6, <2>1, <2>2 DEF KeysInv, FunctionTypes, KeyInv
    <2> QED
      BY <1>3, <2>3, <2>4 DEF KeysInv
  <1> QED
    BY <1>7, <1>8, <1>9, <1>10, <1>11 DEF Thread

-----------------------------------------------------------------------------
\* Every step preserves the key invariant.
LEMMA KeysStep == KeysInv /\ [Next]_vars => KeysInv'
  <1> SUFFICES ASSUME KeysInv, [Next]_vars PROVE KeysInv'
    OBVIOUS
  <1>1. CASE InitWorkload
    BY <1>1, KeysInitWorkload
  <1>2. CASE \E t \in Threads : Thread(t)
    BY <1>2, KeysThread
  <1>3. CASE Stopped \/ UNCHANGED vars
    <2>1. UNCHANGED vars
      BY <1>3 DEF Stopped
    <2> QED
      BY <2>1 DEF vars, KeysInv, FunctionTypes, InitInv, KeyInv, Loaded, ShiftedKey, ZeroShift,
                  Add, BuildKeyName, KeyChooser
  <1> QED
    BY <1>1, <1>2, <1>3 DEF Next

\* The key invariant holds throughout.
LEMMA KeysCorrect == Spec => []KeysInv
  BY KeysInit, KeysStep, PTL DEF Spec

\* For every word size, hash and property file: a key NextTransactionKey has
\* returned (core_workload.h:242) without the zero-lookup shift is the key of a
\* record the load phase is to insert.
THEOREM LookupsFindLoadedKeys == Spec => []LookupsHitLoad
  <1>1. KeysInv => LookupsHitLoad
    <2> SUFFICES ASSUME KeysInv, NEW t \in Threads, request[t] # NONE,
                        request[t].op # INSERT, ~request[t].zero, p.recordcount > 0,
                        p.readkeystart = p.insertstart
                 PROVE  request[t].key \in LoadedNames
      BY DEF LookupsHitLoad, Requests
    <2>1. PICK k \in Loaded : request[t].key = BuildKeyName(ShiftedKey(k, request[t].zero))
      BY DEF KeysInv, KeyInv
    <2>2. ShiftedKey(k, request[t].zero) = Add(k, p.insertstart)
      BY DEF ShiftedKey
    <2> QED
      BY <2>1, <2>2 DEF LoadedNames, Loaded
  <1> QED
    BY <1>1, KeysCorrect, PTL

\* For every word size and property file with ordered keys and room for twice
\* the records: a key with the zero-lookup shift (core_workload.h:251) is not
\* the key of a record the load phase inserts.
THEOREM ZeroLookupsFindNothing == Spec => []ZeroLookupsMiss
  <1>1. KeysInv => ZeroLookupsMiss
    <2> SUFFICES ASSUME KeysInv, NEW t \in Threads, request[t] # NONE,
                        request[t].op # INSERT, request[t].zero, p.recordcount > 0, p.ordered,
                        p.readkeystart = p.insertstart, p.insertstart + 2 * p.recordcount <= Word,
                        NEW j \in Loaded, request[t].key = BuildKeyName(Add(j, p.insertstart))
                 PROVE  FALSE
      BY DEF ZeroLookupsMiss, Requests, LoadedNames, Loaded
    <2>1. PICK k \in Loaded : request[t].key = BuildKeyName(ShiftedKey(k, request[t].zero))
      BY DEF KeysInv, KeyInv
    <2>2. Add(Add(k, p.insertstart), p.recordcount) = Add(j, p.insertstart)
      BY <2>1 DEF BuildKeyName, ShiftedKey, ZeroShift
    <2>3. p \in Properties
      BY DEF KeysInv, InitInv
    <2>4. p.insertstart \in Nat /\ p.recordcount \in Nat
      <3>1. p.insertstart \in Words /\ p.recordcount \in Words
        BY <2>3, PropertiesAssumption DEF PropertySets
      <3> QED
        BY <3>1, WordAssumption DEF Words
    <2>5. k \in Nat /\ j \in Nat /\ k < p.recordcount /\ j < p.recordcount
      BY <2>4 DEF Loaded
    <2>6. /\ k + p.insertstart \in Words /\ j + p.insertstart \in Words
          /\ k + p.insertstart + p.recordcount \in Words
      BY <2>4, <2>5, WordAssumption DEF Words
    <2>7. /\ Add(k, p.insertstart) = k + p.insertstart
          /\ Add(j, p.insertstart) = j + p.insertstart
          /\ Add(k + p.insertstart, p.recordcount) = k + p.insertstart + p.recordcount
      BY <2>4, <2>5, <2>6, WordArithmetic DEF Add
    <2> QED
      BY <2>2, <2>4, <2>5, <2>7
  <1> QED
    BY <1>1, KeysCorrect, PTL

-----------------------------------------------------------------------------
(***************************************************************************)
(* The form of the requests.                                               *)
(***************************************************************************)

\* The operations a thread can be asked for.
Offered == IF p.proportions = {} THEN Operations ELSE p.proportions

\* A generator for lengths that Init has accepted.
Lengths(max) == {ConstGenerator(max), UniformGenerator(1, max)}

\* Init's generators, and last_, which the threads overwrite with what they chose.
GeneratorsInv ==
    process # "start" =>
        /\ field_chooser = UniformGenerator(0, Sub(p.fieldcount, 1))
        /\ last \in Offered \cup (IF p.proportions = {} THEN {NoOperation} ELSE {})
        /\ process = "running" => /\ field_len_generator \in Lengths(p.fieldlength)
                                  /\ scan_len_chooser \in Lengths(p.maxscanlength)

\* A thread that has begun a request has chosen an operation that is offered.
ChoiceInv == \A t \in Threads : pc[t] \in {"sequence", "draw", "shift", "build"} => op[t] \in Offered

FormInv == KeysInv /\ GeneratorsInv /\ ChoiceInv /\ WellFormed

\* The first value added to the chooser is one with a positive proportion.
LEMMA FirstIsOffered ==
    ASSUME NEW q \in PropertySets, q.proportions # {}, NEW o \in FirstOperations(q)
    PROVE  o \in q.proportions
  BY Zenon DEF FirstOperations

\* Init goes on only with length generators that can be constructed.
LEMMA LengthsAccepted ==
    ASSUME NEW dist \in {"constant", "uniform", "zipfian", "other"}, NEW max,
           Outcome(LengthGenerator(dist, max)) = "running"
    PROVE  LengthGenerator(dist, max) \in Lengths(max)
  <1> DEFINE g == LengthGenerator(dist, max)
  <1>1. CASE dist = "constant"
    BY <1>1, Zenon DEF LengthGenerator, Lengths
  <1>2. CASE dist = "uniform"
    BY <1>2, Zenon DEF LengthGenerator, Lengths
  <1>3. CASE dist = "zipfian"
    <2>1. g = ZipfianGenerator(1)
      BY <1>3, Zenon DEF LengthGenerator
    <2>2. g.kind = "zipfian" /\ ~ItemsOK(g.items)
      BY <2>1 DEF ZipfianGenerator, ItemsOK
    <2>3. Outcome(g) = "assert"
      BY <2>2 DEF Outcome
    <2> QED
      BY <2>3
  <1>4. CASE dist = "other"
    <2>1. g = NoGenerator
      BY <1>4, Zenon DEF LengthGenerator
    <2>2. g.kind = "none"
      BY <2>1 DEF NoGenerator
    <2>3. Outcome(g) = "exception"
      BY <2>2 DEF Outcome
    <2> QED
      BY <2>3
  <1> QED
    BY <1>1, <1>2, <1>3, <1>4

\* The lengths such a generator draws.
LEMMA LengthsInRange ==
    ASSUME NEW max \in Nat \ {0}, NEW g \in Lengths(max), NEW n \in Draws(g)
    PROVE  n \in 1..max
  <1>1. CASE g = ConstGenerator(max)
    <2>1. g.kind = "const" /\ g.value = max
      BY <1>1 DEF ConstGenerator
    <2>2. Draws(g) = {g.value}
      BY <2>1, Zenon DEF Draws
    <2> QED
      BY <2>1, <2>2
  <1>2. CASE g = UniformGenerator(1, max)
    <2>1. g.kind = "uniform" /\ g.min = 1 /\ g.max = max
      BY <1>2 DEF UniformGenerator
    <2>2. Draws(g) = g.min..g.max
      BY <2>1, Zenon DEF Draws
    <2> QED
      BY <2>1, <2>2
  <1> QED
    BY <1>1, <1>2 DEF Lengths

\* The fields of a write are some of those every record has.
LEMMA WritesRecordFields ==
    ASSUME p \in PropertySets, field_chooser = UniformGenerator(0, Sub(p.fieldcount, 1)),
           NEW o \in {INSERT, UPDATE, READMODIFYWRITE}, NEW write \in WrittenFields(o)
    PROVE  write # {} /\ write \subseteq RecordFields
  <1>1. p.fieldcount \in Words /\ p.fieldcount # 0
    BY DEF PropertySets
  <1>2. p.fieldcount \in Nat \ {0} /\ Sub(p.fieldcount, 1) = p.fieldcount - 1
    <2>1. p.fieldcount - 1 \in Words
      BY <1>1, WordAssumption DEF Words
    <2> QED
      BY <1>1, <2>1, WordArithmetic, WordAssumption DEF Sub, Words
  <1>3. Draws(field_chooser) = 0..(p.fieldcount - 1)
    <2>1. field_chooser.kind = "uniform" /\ field_chooser.min = 0 /\ field_chooser.max = p.fieldcount - 1
      BY <1>2 DEF UniformGenerator
    <2> QED
      BY <2>1, Zenon DEF Draws
  <1>4. RecordFields # {} /\ NextFieldNames = RecordFields
    <2>1. 0 \in 0..(p.fieldcount - 1)
      BY <1>2
    <2> QED
      BY <1>3, <2>1, Zenon DEF RecordFields, NextFieldNames
  <1>5. CASE o = INSERT
    <2>0. o \notin {UPDATE, READMODIFYWRITE} /\ o \notin {READ, SCAN}
      BY <1>5 DEF INSERT, UPDATE, READMODIFYWRITE, READ, SCAN
    <2>1. WrittenFields(o) = {RecordFields}
      BY <1>5, <2>0, Zenon DEF WrittenFields
    <2> QED
      BY <1>4, <2>1
  <1>6. CASE o \in {UPDATE, READMODIFYWRITE} /\ o # INSERT
    <2>0. o \notin {READ, SCAN}
      BY <1>6 DEF UPDATE, READMODIFYWRITE, READ, SCAN
    <2>1. WrittenFields(o) = IF p.writeallfields THEN {RecordFields} ELSE {{f} : f \in NextFieldNames}
      BY <1>6, <2>0, Zenon DEF WrittenFields
    <2> QED
      BY <1>4, <2>1
  <1> QED
    BY <1>5, <1>6 DEF INSERT, UPDATE, READMODIFYWRITE

\* There are no requests before Init.
LEMMA FormInit == Init => FormInv
  BY KeysInit DEF Init, FormInv, GeneratorsInv, ChoiceInv, WellFormed, Requests

\* Init establishes the part about the generators; no request exists.
LEMMA FormInitWorkload == ASSUME FormInv, InitWorkload PROVE FormInv'
  <1>1. KeysInv /\ KeysInv'
    BY KeysInitWorkload DEF FormInv
  <1>2. process = "start" /\ pc' = pc /\ request' = request
    BY DEF InitWorkload
  <1>3. \A t \in Threads : pc'[t] = "idle" /\ request'[t] = NONE
    BY <1>1, <1>2 DEF KeysInv, InitInv
  <1>4. ChoiceInv' /\ WellFormed'
    BY <1>3 DEF ChoiceInv, WellFormed, Requests
  <1>5. p' \in PropertySets
    BY PropertiesAssumption DEF InitWorkload
  <1>6. last' \in (Offered \cup (IF p.proportions = {} THEN {NoOperation} ELSE {}))'
    <2>1. last' \in FirstOperations(p')
      BY DEF InitWorkload
    <2>2. CASE p'.proportions = {}
      BY <2>1, <2>2 DEF FirstOperations, Offered
    <2>3. CASE p'.proportions # {}
      BY <1>5, <2>1, <2>3, FirstIsOffered DEF Offered
    <2> QED
      BY <2>2, <2>3
  <1>7. process' = "running" => /\ field_len_generator' \in Lengths(p'.fieldlength)
                                /\ scan_len_chooser' \in Lengths(p'.maxscanlength)
    <2> SUFFICES ASSUME process' = "running"
                 PROVE  /\ field_len_generator' \in Lengths(p'.fieldlength)
                        /\ scan_len_chooser' \in Lengths(p'.maxscanlength)
      OBVIOUS
    <2> DEFINE f == LengthGenerator(p'.field_len_dist, p'.fieldlength)
               s == LengthGenerator(p'.scanlengthdistribution, p'.maxscanlength)
    <2>1. field_len_generator' = f /\ scan_len_chooser' = s
      BY DEF InitWorkload
    <2>2. Outcome(f) = "running" /\ Outcome(s) = "running"
      BY <2>1 DEF InitWorkload
    <2>3. p'.field_len_dist \in {"constant", "uniform", "zipfian", "other"}
          /\ p'.scanlengthdistribution \in {"constant", "uniform", "zipfian", "other"}
      BY <1>5 DEF PropertySets
    <2> QED
      BY <2>1, <2>2, <2>3, LengthsAccepted
  <1>8. GeneratorsInv'
    <2>1. field_chooser' = UniformGenerator(0, Sub(p'.fieldcount, 1))
      BY DEF InitWorkload
    <2> QED
      BY <1>6, <1>7, <2>1 DEF GeneratorsInv
  <1> QED
    BY <1>1, <1>4, <1>8 DEF FormInv

\* The request that BuildRequest puts together is well formed.
LEMMA FormBuild ==
    ASSUME FormInv, NEW t \in Threads, BuildRequest(t)
    PROVE  WellFormed'
  <1>1. process = "running" /\ pc[t] = "build" /\ p \in PropertySets /\ UNCHANGED <<p>>
    BY PropertiesAssumption DEF BuildRequest, At, FormInv, KeysInv, InitInv, workloadVars
  <1>2. op[t] \in Offered /\ op[t] \in Operations
    <2>1. op[t] \in Offered
      BY <1>1 DEF FormInv, ChoiceInv
    <2>2. p.proportions \subseteq Operations
      BY <1>1 DEF PropertySets
    <2> QED
      BY <2>1, <2>2 DEF Offered
  <1>3. /\ field_chooser = UniformGenerator(0, Sub(p.fieldcount, 1))
        /\ field_len_generator \in Lengths(p.fieldlength)
        /\ scan_len_chooser \in Lengths(p.maxscanlength)
    BY <1>1 DEF FormInv, GeneratorsInv
  <1>4. p.fieldlength \in Nat \ {0} /\ p.maxscanlength \in Nat \ {0}
    <2>1. p.fieldlength \in Words \ {0} /\ p.maxscanlength \in Words \ {0}
      BY <1>1 DEF PropertySets
    <2> QED
      BY <2>1, WordAssumption DEF Words
  <1> DEFINE Made(write, read, size, len) ==
                [op |-> op[t], key |-> BuildKeyName(key_num[t]), zero |-> zero[t],
                 write |-> write, read |-> read, size |-> size, len |-> len]
  <1>5. PICK write \in WrittenFields(op[t]), read \in ReadFields(op[t]),
             size \in ValueLengths(op[t]), len \in ScanLengths(op[t]) :
                request' = [request EXCEPT ![t] = Made(write, read, size, len)]
    BY Zenon DEF BuildRequest
  <1> DEFINE r == Made(write, read, size, len)
  <1>6. r.op = op[t] /\ r.write = write /\ r.size = size /\ r.len = len
    OBVIOUS
  <1>7. request' = [request EXCEPT ![t] = r]
    BY <1>5
  <1> HIDE DEF r
  <1>8. p.proportions # {} => r.op \in p.proportions
    BY <1>2, <1>6 DEF Offered
  <1>9. r.op = SCAN => r.len \in 1..p.maxscanlength
    <2> SUFFICES ASSUME r.op = SCAN PROVE len \in 1..p.maxscanlength
      BY <1>6
    <2>1. len \in Draws(scan_len_chooser)
      BY <1>6 DEF ScanLengths
    <2> QED
      BY <1>3, <1>4, <2>1, LengthsInRange
  <1>10. r.op \in {INSERT, UPDATE, READMODIFYWRITE} =>
            r.write # {} /\ r.write \subseteq RecordFields /\ r.size \in 1..p.fieldlength
    <2> SUFFICES ASSUME op[t] \in {INSERT, UPDATE, READMODIFYWRITE}
                 PROVE  write # {} /\ write \subseteq RecordFields /\ size \in 1..p.fieldlength
      BY <1>6
    <2>1. write # {} /\ write \subseteq RecordFields
      BY <1>1, <1>3, WritesRecordFields
    <2>2. size \in Draws(field_len_generator)
      BY DEF ValueLengths, INSERT, UPDATE, READMODIFYWRITE, READ, SCAN
    <2> QED
      BY <1>3, <1>4, <2>1, <2>2, LengthsInRange
  <1>11. \A u \in Threads : request'[u] = IF u = t THEN r ELSE request[u]
    BY <1>7 DEF FormInv, KeysInv, FunctionTypes
  <1>12. RecordFields' = RecordFields
    BY <1>1 DEF RecordFields
  <1> QED
    BY <1>1, <1>8, <1>9, <1>10, <1>11, <1>12 DEF FormInv, WellFormed, Requests

\* The other steps of a thread make no request.
LEMMA FormThread == ASSUME FormInv, NEW t \in Threads, Thread(t) PROVE FormInv'
  <1>1. process = "running"
    BY DEF Thread, NextOperation, NextSequenceKey, DrawKey, ShiftKey, BuildRequest, At
  <1>2. /\ p' = p /\ field_chooser' = field_chooser /\ field_len_generator' = field_len_generator
        /\ scan_len_chooser' = scan_len_chooser
    BY DEF Thread, NextOperation, NextSequenceKey, DrawKey, ShiftKey, BuildRequest,
           workloadVars, chooserVars
  <1>3. KeysInv /\ KeysInv'
    BY KeysThread DEF FormInv
  <1>4. Offered' = Offered /\ RecordFields' = RecordFields
    BY <1>2 DEF Offered, RecordFields
  <1>5. p.proportions = {} \/ p.proportions # {}
    OBVIOUS
  <1>6. CASE NextOperation(t)
    <2>1. PICK o \in p.proportions \cup {last} :
             /\ last' = o /\ op' = [op EXCEPT ![t] = o]
             /\ pc' = [pc EXCEPT ![t] = IF o = NoOperation THEN "threw"
                                        ELSE IF o = INSERT THEN "sequence" ELSE "draw"]
      BY <1>6 DEF NextOperation, GoTo
    <2>2. o \in Offered \cup (IF p.proportions = {} THEN {NoOperation} ELSE {})
      BY <1>1, <2>1 DEF FormInv, GeneratorsInv, Offered
    <2>3. GeneratorsInv'
      BY <1>1, <1>2, <1>4, <2>1, <2>2 DEF FormInv, GeneratorsInv
    <2>4. ChoiceInv'
      BY <1>3, <1>4, <2>1, <2>2 DEF FormInv, ChoiceInv, KeysInv, FunctionTypes
    <2>5. request' = request
      BY <1>6 DEF NextOperation
    <2> QED
      BY <1>2, <1>3, <1>4, <2>3, <2>4, <2>5 DEF FormInv, WellFormed, Requests
  <1>7. CASE ~NextOperation(t)
    <2>1. last' = last /\ op' = op /\ process' \in {"running", "SIGFPE"}
      BY <1>1, <1>7 DEF Thread, NextSequenceKey, DrawKey, ShiftKey, BuildRequest
    <2>2. \A u \in Threads : pc'[u] \in {"sequence", "draw", "shift", "build"}
                               => pc[u] \in {"sequence", "draw", "shift", "build"}
      BY <1>3, <1>7 DEF Thread, NextSequenceKey, DrawKey, ShiftKey, BuildRequest, At, GoTo,
                        KeysInv, FunctionTypes
    <2>3. GeneratorsInv'
      BY <1>1, <1>2, <1>4, <2>1 DEF FormInv, GeneratorsInv
    <2>4. ChoiceInv'
      BY <1>4, <2>1, <2>2 DEF FormInv, ChoiceInv
    <2>5. CASE request' = request
      BY <1>2, <1>3, <1>4, <2>3, <2>4, <2>5 DEF FormInv, WellFormed, Requests
    <2>6. CASE BuildRequest(t)
      BY <1>3, <2>3, <2>4, <2>6, FormBuild DEF FormInv
    <2> QED
      BY <1>7, <2>5, <2>6 DEF Thread, NextSequenceKey, DrawKey, ShiftKey
  <1> QED
    BY <1>6, <1>7

\* Every step preserves the form of the requests.
LEMMA FormStep == FormInv /\ [Next]_vars => FormInv'
  <1> SUFFICES ASSUME FormInv, [Next]_vars PROVE FormInv'
    OBVIOUS
  <1>1. CASE InitWorkload
    BY <1>1, FormInitWorkload
  <1>2. CASE \E t \in Threads : Thread(t)
    BY <1>2, FormThread
  <1>3. CASE Stopped \/ UNCHANGED vars
    <2>1. UNCHANGED vars
      BY <1>3 DEF Stopped
    <2>2. KeysInv'
      BY <2>1, KeysStep DEF FormInv
    <2>3. Offered' = Offered /\ RecordFields' = RecordFields
      BY <2>1 DEF vars, workloadVars, Offered, RecordFields
    <2> QED
      BY <2>1, <2>2, <2>3 DEF vars, chooserVars, FormInv, GeneratorsInv, ChoiceInv, WellFormed, Requests
  <1> QED
    BY <1>1, <1>2, <1>3 DEF Next

\* For every property file: although the threads overwrite last_ without a lock and
\* the weights are added up in floating point, an operation of proportion zero never
\* happens (DiscreteGenerator::Next), and the lengths and the fields that a request
\* is given lie within what was configured.
THEOREM RequestsAreWellFormed == Spec => []WellFormed
  <1>1. FormInv => WellFormed
    BY DEF FormInv
  <1> QED
    BY FormInit, FormStep, <1>1, PTL DEF Spec
=============================================================================
