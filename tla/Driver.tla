------------------------------- MODULE Driver -------------------------------
(***************************************************************************)
(* The benchmark driver: main() and DelegateClient() of ycsbc.cc together  *)
(* with Client::DoInsert and Client::DoTransaction of core/client.h.       *)
(*                                                                         *)
(* The main thread runs up to three phases (load, first run, second run).  *)
(* In each it builds a fresh CoreWorkload, starts NumThreads client        *)
(* threads with std::async and joins them in order.  The threads share     *)
(* the globals thread_id, ops[], durations[] and processed_ops, all        *)
(* updated by __sync builtins, the workload's key generator (an atomic     *)
(* counter) and the database.                                              *)
(*                                                                         *)
(* Data abstractions: durations[x] counts the latency samples added to the *)
(* slot, not their microseconds; a key is its number; the database is the  *)
(* set of keys that have a record, with atomic operations (the concurrency *)
(* inside the in-memory databases is the subject of HashtableDB).          *)
(***************************************************************************)
EXTENDS Integers, FiniteSets, FiniteSetsExt

CONSTANTS
    NumThreads,        \* -threads
    RecordCount,       \* recordcount
    OperationCount,    \* operationcount
    ReadThreadNums,    \* -readTheadNums
    SkipLoads,         \* the values -skipLoad may have, a subset of BOOLEAN
    SkipRatioInLoad,   \* skipratioinload, 0 for "skip nothing"
    SkipRatioForRun,   \* skipratioforrun, 0 for "skip nothing"
    AdjustFilter,      \* adjustfilter: run the workload twice
    WithLatency,       \* a latency file is open (latency_fp_ != NULL)
    InsertStart,       \* insertstart: first key of the key generator
    ReadKeyStart,      \* added to every transaction key
    ZeroLookups,       \* {0}, {1} or {0, 1}: may a lookup be moved past the records
    Operations,        \* the operations with a positive proportion
    Upsert,            \* Insert of an existing key overwrites it (LSM stores, Redis)
    PreLoaded,         \* keys the database holds before the program starts
    StageOps,          \* 10000, the grain of processed_ops
    StageTotal,        \* 500000, the period of the stage output
    OpsLen             \* 256, the length of ops[] and durations[]

\* Slots of ops[] and durations[] (enum Operation).
INSERT == 0
READ == 1
UPDATE == 2
SCAN == 3
READMODIFYWRITE == 4
ZEROREAD == 5
ALL == 6
THREAD0 == 7

\* Return codes of the DB interface.
kOK == 0
kErrorNoData == 1
kErrorConflict == 2

ASSUME ThreadsAssumption == NumThreads \in Nat \ {0}
ASSUME CountsAssumption == /\ RecordCount \in Nat \ {0}
                           /\ OperationCount \in Nat
                           /\ ReadThreadNums \in Nat
                           /\ SkipRatioInLoad \in Nat
                           /\ SkipRatioForRun \in Nat
ASSUME FlagsAssumption == /\ {AdjustFilter, WithLatency, Upsert} \subseteq BOOLEAN
                          /\ SkipLoads \subseteq BOOLEAN
                          /\ SkipLoads # {}
ASSUME KeysAssumption == /\ InsertStart \in Nat
                         /\ ReadKeyStart \in Nat
                         /\ ZeroLookups \subseteq {0, 1}
                         /\ ZeroLookups # {}
                         /\ PreLoaded \subseteq Nat
ASSUME OperationsAssumption ==
    /\ Operations \subseteq {INSERT, READ, UPDATE, SCAN, READMODIFYWRITE}
    /\ Operations # {}
ASSUME StageAssumption == /\ StageOps \in Nat \ {0}
                          /\ StageTotal \in Nat \ {0}
                          /\ StageTotal % StageOps = 0
\* The two runs of the adjust-filter mode hand out 2 * NumThreads ids.
ASSUME OpsLenAssumption == OpsLen \in Nat /\ THREAD0 + 2 * NumThreads <= OpsLen

Threads == 1..NumThreads
Slots == 0..(OpsLen - 1)

VARIABLES
    mpc,            \* where main() is
    phase,          \* "load" or "run": the kind of phase in progress (is_loading)
    runs,           \* the loop variable of main()
    spawned,        \* length of actual_ops
    joined,         \* futures already consumed by n.get()
    sum,            \* the sum of the futures
    thread_id, ops, durations, processed_ops,     \* the globals
    initCount,      \* CoreWorkload::initCount
    key_generator,  \* the counter of the current workload's key_generator_
    records,        \* keys with a record in the database
    stages,         \* history: stage outputs since processed_ops was last 0
    pc,             \* where each client thread is
    tid, idx, oks,  \* locals of DelegateClient: t_id, i, oks
    op, key, status \* locals of DoTransaction / DoInsert

loading == phase = "load"

mainVars == <<mpc, phase, runs, spawned, joined, sum, initCount>>
clientVars == <<pc, tid, idx, oks, op, key, status>>
vars == <<mpc, phase, runs, spawned, joined, sum, thread_id, ops, durations,
          processed_ops, initCount, key_generator, records, stages,
          pc, tid, idx, oks, op, key, status>>

Init ==
    /\ mpc = "start"
    /\ phase = "load"
    /\ runs = 0
    /\ spawned = 0
    /\ joined = 0
    /\ sum = 0
    /\ thread_id = 0
    /\ ops = [s \in Slots |-> 0]
    /\ durations = [s \in Slots |-> 0]
    /\ processed_ops = 0
    /\ initCount = 0
    /\ key_generator = 0
    /\ records = PreLoaded
    /\ stages = 0
    /\ pc = [t \in Threads |-> "idle"]
    /\ tid = [t \in Threads |-> 0]
    /\ idx = [t \in Threads |-> 0]
    /\ oks = [t \in Threads |-> 0]
    /\ op = [t \in Threads |-> READ]
    /\ key = [t \in Threads |-> 0]
    /\ status = [t \in Threads |-> kOK]

-----------------------------------------------------------------------------
(***************************************************************************)
(* The main thread.                                                        *)
(***************************************************************************)

\* The operations each thread of the phase performs.
NumOps == (IF loading THEN RecordCount ELSE OperationCount) \div NumThreads

\* "CoreWorkload wl; wl.Init(props)": the key generator restarts.
InitWorkload ==
    /\ initCount' = initCount + 1
    /\ key_generator' = InsertStart

\* actual_ops is empty, no client of the phase exists yet.
ClearFutures ==
    /\ spawned' = 0
    /\ joined' = 0
    /\ sum' = 0
    /\ pc' = [t \in Threads |-> "idle"]

\* main() up to the load phase, or past it with -skipLoad.
StartMain ==
    /\ mpc = "start"
    /\ \/ /\ TRUE \in SkipLoads
          /\ mpc' = "loaded"
          /\ UNCHANGED <<spawned, joined, sum, initCount, key_generator, pc>>
       \/ /\ FALSE \in SkipLoads
          /\ mpc' = "spawn"
          /\ InitWorkload
          /\ ClearFutures
    /\ UNCHANGED <<phase, runs, thread_id, ops, durations, processed_ops, records, stages,
                   tid, idx, oks, op, key, status>>

\* The loop has started its last thread.
LastSpawn_OneMore == spawned = NumThreads
LastSpawn == spawned + 1 = NumThreads

\* One turn of the loop that calls async(launch::async, DelegateClient, ...).
Spawn ==
    /\ mpc = "spawn"
    /\ spawned' = spawned + 1
    /\ pc' = [pc EXCEPT ![spawned + 1] = "begin"]
    /\ mpc' = IF LastSpawn THEN "join" ELSE "spawn"
    /\ UNCHANGED <<phase, runs, joined, sum, thread_id, ops, durations,
                   processed_ops, initCount, key_generator, records, stages,
                   tid, idx, oks, op, key, status>>

\* The loop over actual_ops has consumed every future.
AllJoined_OneShort == joined >= NumThreads - 1
AllJoined_OneOver == joined > NumThreads
AllJoined == joined >= NumThreads

\* "sum += n.get()": blocks until the next thread in order has returned.
Join ==
    /\ mpc = "join"
    /\ joined < NumThreads
    /\ pc[joined + 1] = "returned"
    /\ sum' = sum + oks[joined + 1]
    /\ joined' = joined + 1
    /\ UNCHANGED <<mpc, phase, runs, spawned, thread_id, ops, durations,
                   processed_ops, initCount, key_generator, records, stages, clientVars>>

\* The end of the load phase: "# Loading records" reports sum.
EndLoad ==
    /\ mpc = "join"
    /\ loading
    /\ AllJoined
    /\ mpc' = "loaded"
    /\ UNCHANGED <<phase, runs, spawned, joined, sum, thread_id, ops, durations,
                   processed_ops, initCount, key_generator, records, stages, clientVars>>

\* "thread_id = 0", before the warm-up and again after it.
ResetThreadId_Forgotten == UNCHANGED thread_id
ResetThreadId == thread_id' = 0

\* Between the load phase and the loop over runs; the warm-up is dead code
\* (warm is false).
PrepareRuns ==
    /\ mpc = "loaded"
    /\ mpc' = "runs"
    /\ phase' = "run"
    /\ runs' = 0
    /\ ResetThreadId
    /\ UNCHANGED <<spawned, joined, sum, ops, durations, processed_ops, initCount,
                   key_generator, records, stages, clientVars>>

\* The memset calls and "processed_ops = 0" of the second run.
ClearCounters_Forgotten == UNCHANGED <<ops, durations, processed_ops, stages>>
ClearCounters ==
    /\ ops' = [s \in Slots |-> 0]
    /\ durations' = [s \in Slots |-> 0]
    /\ processed_ops' = 0
    /\ stages' = 0

\* Head of the loop over runs.  Only the second run clears the counters.
BeginRun ==
    /\ mpc = "runs"
    /\ runs < 2
    /\ IF runs = 0
       THEN UNCHANGED <<ops, durations, processed_ops, stages>>
       ELSE ClearCounters
    /\ InitWorkload
    /\ ClearFutures
    /\ mpc' = "spawn"
    /\ UNCHANGED <<phase, runs, thread_id, records, tid, idx, oks, op, key, status>>

\* Tail of the loop: without adjust_filter_ the second run is skipped.
EndRun ==
    /\ mpc = "join"
    /\ ~loading
    /\ AllJoined
    /\ runs' = runs + (IF AdjustFilter THEN 1 ELSE 2)
    /\ mpc' = "runs"
    /\ UNCHANGED <<phase, spawned, joined, sum, thread_id, ops, durations,
                   processed_ops, initCount, key_generator, records, stages, clientVars>>

\* db->Close(); delete db.
Finish ==
    /\ mpc = "runs"
    /\ runs >= 2
    /\ mpc' = "done"
    /\ UNCHANGED <<phase, runs, spawned, joined, sum, thread_id, ops, durations,
                   processed_ops, initCount, key_generator, records, stages, clientVars>>

Main == StartMain \/ Spawn \/ Join \/ EndLoad \/ PrepareRuns \/ BeginRun \/ EndRun \/ Finish

-----------------------------------------------------------------------------
(***************************************************************************)
(* A client thread.                                                        *)
(***************************************************************************)

\* thread_type: 0 mixed, 1 only READ, 2 only WRITE.  The load phase passes 0
\* for read_thread_nums.
ThreadType(t) ==
    IF loading \/ ReadThreadNums = 0 THEN 0
    ELSE IF tid[t] >= ReadThreadNums THEN 2 ELSE 1

\* The operations DoTransaction may pick on this thread.
OperationsOf(t) ==
    CASE ThreadType(t) = 0 -> Operations
      [] ThreadType(t) = 1 -> {READ}
      [] ThreadType(t) = 2 -> {INSERT}

\* Iteration i is executed for real, not skipped.
RealDo(i) ==
    LET ratio == IF loading THEN SkipRatioInLoad ELSE SkipRatioForRun
    IN  IF ratio = 0 THEN TRUE ELSE i % ratio = 0

\* The keys NextTransactionKey may return: every chooser draws from the first
\* RecordCount keys (larger draws are rejected by the loop).
TransactionKeys ==
    {k + ReadKeyStart + z * RecordCount : k \in 0..(RecordCount - 1), z \in ZeroLookups}

GoTo(t, to) == pc' = [pc EXCEPT ![t] = to]

\* "t_id = __sync_fetch_and_add(&thread_id, 1)".
FetchThreadId_Lost(t) ==
    /\ tid' = [tid EXCEPT ![t] = thread_id]
    /\ thread_id' \in {thread_id, thread_id + 1}
FetchThreadId(t) ==
    /\ tid' = [tid EXCEPT ![t] = thread_id]
    /\ thread_id' = thread_id + 1

\* A client thread starts; its locals are set.
Begin(t) ==
    /\ pc[t] = "begin"
    /\ FetchThreadId(t)
    /\ idx' = [idx EXCEPT ![t] = 0]
    /\ oks' = [oks EXCEPT ![t] = 0]
    /\ GoTo(t, "loop")
    /\ UNCHANGED <<mainVars, ops, durations, processed_ops, key_generator, records,
                   stages, op, key, status>>

\* NextSequenceKey: fetch_add on the key generator's atomic counter.
NextSequenceKey_Lost(t) ==
    /\ key' = [key EXCEPT ![t] = key_generator]
    /\ key_generator' \in {key_generator, key_generator + 1}
NextSequenceKey(t) ==
    /\ key' = [key EXCEPT ![t] = key_generator]
    /\ key_generator' = key_generator + 1

\* An iteration of the load loop draws its key; a skipped one ends there.
DrawLoadKey(t) ==
    /\ pc[t] = "loop"
    /\ loading
    /\ idx[t] < NumOps
    /\ NextSequenceKey(t)
    /\ IF RealDo(idx[t])
       THEN /\ op' = [op EXCEPT ![t] = INSERT]
            /\ GoTo(t, "db")
            /\ UNCHANGED idx
       ELSE /\ idx' = [idx EXCEPT ![t] = @ + 1]
            /\ UNCHANGED <<op, pc>>
    /\ UNCHANGED <<mainVars, thread_id, ops, durations, processed_ops, records, stages,
                   tid, oks, status>>

\* An iteration that is not executed (real_do == false): an INSERT still
\* consumes a key; nothing is counted and "continue" skips the stage check.
SkipTransaction(t) ==
    /\ pc[t] = "loop"
    /\ ~loading
    /\ idx[t] < NumOps
    /\ ~RealDo(idx[t])
    /\ \E o \in OperationsOf(t) :
          IF o = INSERT THEN NextSequenceKey(t) ELSE UNCHANGED <<key, key_generator>>
    /\ idx' = [idx EXCEPT ![t] = @ + 1]
    /\ UNCHANGED <<mainVars, thread_id, ops, durations, processed_ops, records, stages,
                   pc, tid, oks, op, status>>

\* A transaction chooses its operation and its key.
ChooseTransaction(t) ==
    /\ pc[t] = "loop"
    /\ ~loading
    /\ idx[t] < NumOps
    /\ RealDo(idx[t])
    /\ \E o \in OperationsOf(t) :
          /\ op' = [op EXCEPT ![t] = o]
          /\ IF o = INSERT
             THEN NextSequenceKey(t)
             ELSE /\ \E k \in TransactionKeys : key' = [key EXCEPT ![t] = k]
                  /\ UNCHANGED key_generator
    /\ GoTo(t, "db")
    /\ UNCHANGED <<mainVars, thread_id, ops, durations, processed_ops, records, stages,
                   tid, idx, oks, status>>

\* What the database answers to operation o on key k.
DbStatus(o, k) ==
    CASE o = READ -> IF k \in records THEN kOK ELSE kErrorNoData
      [] o = INSERT -> IF k \in records /\ ~Upsert THEN kErrorConflict ELSE kOK
      [] OTHER -> kOK

\* The database call of DoInsert or of the transaction; Update and
\* ReadModifyWrite create a missing record.
CallDb(t) ==
    /\ pc[t] = "db"
    /\ status' = [status EXCEPT ![t] = DbStatus(op[t], key[t])]
    /\ records' = IF op[t] \in {INSERT, UPDATE, READMODIFYWRITE}
                  THEN records \cup {key[t]} ELSE records
    /\ GoTo(t, CASE loading -> "returnOp"
                 [] ~loading /\ op[t] = READ -> "durRead"
                 [] ~loading /\ op[t] \in {UPDATE, INSERT} -> "durInsert"
                 [] ~loading /\ op[t] \in {SCAN, READMODIFYWRITE} -> "opsAll")
    /\ UNCHANGED <<mainVars, thread_id, ops, durations, processed_ops, key_generator,
                   stages, tid, idx, oks, op, key>>

\* __sync_add_and_fetch(&ops[slot], 1), then on to the next statement.
CountOp(t, at, slot, to) ==
    /\ pc[t] = at
    /\ ops' = [ops EXCEPT ![slot] = @ + 1]
    /\ GoTo(t, to)
    /\ UNCHANGED <<mainVars, thread_id, durations, processed_ops, key_generator, records,
                   stages, tid, idx, oks, op, key, status>>

\* __sync_add_and_fetch(&durations[slot], latency): one more sample.
AddSample(t, at, slot, to) ==
    /\ pc[t] = at
    /\ durations' = [durations EXCEPT ![slot] = @ + 1]
    /\ GoTo(t, to)
    /\ UNCHANGED <<mainVars, thread_id, ops, processed_ops, key_generator, records,
                   stages, tid, idx, oks, op, key, status>>

\* The accounting of a READ; zero-result reads are told apart only when a
\* latency file is open.
SampleRead(t) ==
    AddSample(t, "durRead", READ,
              IF WithLatency /\ status[t] = kErrorNoData THEN "opsZero" ELSE "opsRead")
CountZeroRead(t) == CountOp(t, "opsZero", ZEROREAD, "durZero")
SampleZeroRead(t) == AddSample(t, "durZero", ZEROREAD, "opsRead")
CountRead(t) == CountOp(t, "opsRead", READ, "opsAll")

\* UPDATE and INSERT share the INSERT slot.
SampleInsert(t) == AddSample(t, "durInsert", INSERT, "opsInsert")
CountInsert(t) == CountOp(t, "opsInsert", INSERT, "opsAll")

\* The accounting every executed transaction ends with.
CountAll(t) == CountOp(t, "opsAll", ALL, "opsThread")
CountThread_ByIndex(t) == CountOp(t, "opsThread", THREAD0 + t - 1, "durThread")
CountThread(t) == CountOp(t, "opsThread", THREAD0 + tid[t], "durThread")
SampleThread(t) == AddSample(t, "durThread", THREAD0 + tid[t], "returnOp")

\* __sync_add_and_fetch(&processed_ops, 10000).
ProcessedTotal_Before == processed_ops
ProcessedTotal == processed_ops + StageOps

\* "oks += ..." and the test that ends an iteration: every StageOps
\* iterations the thread adds StageOps to processed_ops.
ReturnOp(t) ==
    LET atStage == idx[t] # 0 /\ idx[t] % StageOps = 0
    IN  /\ pc[t] = "returnOp"
        /\ oks' = [oks EXCEPT ![t] = @ + (IF status[t] = kOK THEN 1 ELSE 0)]
        /\ processed_ops' = IF atStage THEN processed_ops + StageOps ELSE processed_ops
        /\ IF atStage /\ ProcessedTotal % StageTotal = 0
           THEN GoTo(t, "stage") /\ UNCHANGED idx
           ELSE GoTo(t, "loop") /\ idx' = [idx EXCEPT ![t] = @ + 1]
        /\ UNCHANGED <<mainVars, thread_id, ops, durations, key_generator, records,
                       stages, tid, op, key, status>>

\* The stage output and the db->doSomeThing calls with it.
StageOutput(t) ==
    /\ pc[t] = "stage"
    /\ stages' = stages + 1
    /\ idx' = [idx EXCEPT ![t] = @ + 1]
    /\ GoTo(t, "loop")
    /\ UNCHANGED <<mainVars, thread_id, ops, durations, processed_ops, key_generator,
                   records, tid, oks, op, key, status>>

\* The loop is over: the final report and "return oks".
Return(t) ==
    /\ pc[t] = "loop"
    /\ idx[t] >= NumOps
    /\ GoTo(t, "returned")
    /\ UNCHANGED <<mainVars, thread_id, ops, durations, processed_ops, key_generator,
                   records, stages, tid, idx, oks, op, key, status>>

Account(t) ==
    \/ SampleRead(t) \/ CountZeroRead(t) \/ SampleZeroRead(t) \/ CountRead(t)
    \/ SampleInsert(t) \/ CountInsert(t)
    \/ CountAll(t) \/ CountThread(t) \/ SampleThread(t)

Client(t) ==
    \/ Begin(t)
    \/ DrawLoadKey(t) \/ SkipTransaction(t) \/ ChooseTransaction(t)
    \/ CallDb(t) \/ Account(t) \/ ReturnOp(t) \/ StageOutput(t)
    \/ Return(t)

\* The process has ended; nothing happens any more.
Terminated == mpc = "done" /\ UNCHANGED vars

Next == Main \/ (\E t \in Threads : Client(t)) \/ Terminated

Spec == Init /\ [][Next]_vars

\* The operating system schedules every runnable thread, and n.get() returns
\* once its future is ready.
Fairness == WF_vars(Main) /\ \A t \in Threads : WF_vars(Client(t))

FairSpec == Spec /\ Fairness

-----------------------------------------------------------------------------
(***************************************************************************)
(* Properties.                                                             *)
(***************************************************************************)

PcValues == {"idle", "begin", "loop", "db", "durRead", "opsZero", "durZero", "opsRead",
             "durInsert", "opsInsert", "opsAll", "opsThread", "durThread", "returnOp",
             "stage", "returned"}

\* The type of every variable.
TypeOK ==
    /\ mpc \in {"start", "spawn", "join", "loaded", "runs", "done"}
    /\ phase \in {"load", "run"}
    /\ runs \in 0..3
    /\ spawned \in 0..NumThreads
    /\ joined \in 0..NumThreads
    /\ sum \in Nat
    /\ thread_id \in Nat
    /\ ops \in [Slots -> Nat]
    /\ durations \in [Slots -> Nat]
    /\ processed_ops \in Nat
    /\ initCount \in Nat
    /\ key_generator \in Nat
    /\ records \subseteq Nat
    /\ stages \in Nat
    /\ pc \in [Threads -> PcValues]
    /\ tid \in [Threads -> Nat]
    /\ idx \in [Threads -> Nat]
    /\ oks \in [Threads -> Nat]
    /\ op \in [Threads -> {INSERT, READ, UPDATE, SCAN, READMODIFYWRITE}]
    /\ key \in [Threads -> Nat]
    /\ status \in [Threads -> {kOK, kErrorNoData, kErrorConflict}]

Running(t) == pc[t] \notin {"idle", "returned"}
Begun(t) == pc[t] \notin {"idle", "begin"}
At(places) == {t \in Threads : pc[t] \in places}

\* How many of the first i iterations are executed.
Executed(i) ==
    LET ratio == IF loading THEN SkipRatioInLoad ELSE SkipRatioForRun
    IN  IF ratio = 0 THEN i ELSE (i + ratio - 1) \div ratio

\* The threads of a run are in the report main() prints after the joins.
RunJoined == mpc = "join" /\ ~loading /\ AllJoined

\* Every started thread of a phase has a slot of ops[] and durations[] of its
\* own, inside the arrays, although thread_id survives from phase to phase.
SlotOwnership ==
    \A t \in Threads : Begun(t) =>
        /\ THREAD0 + tid[t] \in Slots
        /\ \A u \in Threads \ {t} : Begun(u) => tid[u] # tid[t]

\* A thread's slot counts exactly the transactions it has executed in this
\* run: skipped iterations, the other threads and the earlier run leave no trace.
ThreadCount ==
    \A t \in Threads : Begun(t) /\ ~loading /\ mpc \in {"spawn", "join"} =>
        ops[THREAD0 + tid[t]] =
            Executed(idx[t]) + (IF pc[t] \in {"durThread", "returnOp", "stage"} THEN 1 ELSE 0)

\* The shared counters are off by the operations in flight and by nothing else:
\* samples and counts of a latency differ by the threads between the two updates,
\* and ops[ALL] is the sum of the per-thread counters up to the threads between
\* those two.
CountersAgree ==
    /\ durations[READ] = ops[READ] + Cardinality(At({"opsZero", "durZero", "opsRead"}))
    /\ durations[INSERT] = ops[INSERT] + Cardinality(At({"opsInsert"}))
    /\ ops[ZEROREAD] = durations[ZEROREAD] + Cardinality(At({"durZero"}))
    /\ ops[ALL] = MapThenSumSet(LAMBDA s : ops[s], {s \in Slots : s >= THREAD0})
                     + Cardinality(At({"opsThread"}))
    /\ ThreadCount

\* The counters main() and the last thread report after a run: every executed
\* transaction once in ALL and in its class, and sum the successful ones.
RunReport ==
    RunJoined =>
        /\ ops[ALL] = NumThreads * Executed(NumOps)
        /\ ops[READ] + ops[INSERT] <= ops[ALL]
        /\ Operations \cap {SCAN, READMODIFYWRITE} = {} => ops[READ] + ops[INSERT] = ops[ALL]
        /\ ops[ZEROREAD] <= ops[READ]
        /\ sum <= ops[ALL]
        /\ Upsert /\ WithLatency => sum + ops[ZEROREAD] = ops[ALL]

\* With read_thread_nums set, a run has one "only READ" thread for each id
\* below it, and each thread has counted exactly its own transactions.  The second
\* run's ids start at NumThreads, so it has fewer readers than the first (none when
\* read_thread_nums <= NumThreads).
ThreadsOfRun ==
    /\ RunJoined /\ ReadThreadNums > 0 =>
          Cardinality({t \in Threads : ThreadType(t) = 1})
              = Cardinality({i \in runs * NumThreads .. (runs + 1) * NumThreads - 1 :
                                i < ReadThreadNums})
    /\ ThreadCount

\* Two inserts of a phase never use the same key, and a key of the load phase
\* is new to a database that started empty.
InsertKeysFresh ==
    \A t \in At({"db"}) : op[t] = INSERT =>
        /\ key[t] \in InsertStart..(key_generator - 1)
        /\ \A u \in At({"db"}) \ {t} : op[u] = INSERT => key[u] # key[t]
        /\ loading /\ PreLoaded = {} => key[t] \notin records

\* "# Loading records" is the number of records an empty database has received,
\* because no two inserts use the same key.
LoadReport ==
    /\ InsertKeysFresh
    /\ mpc = "loaded" /\ initCount = 1 /\ PreLoaded = {} =>
          /\ sum = Cardinality(records)
          /\ sum = NumThreads * Executed(NumOps)

\* Each multiple of StageTotal that processed_ops reaches is reported by
\* exactly one thread.
StageOutputOnce ==
    stages + Cardinality(At({"stage"})) = processed_ops \div StageTotal

\* main() replaces the workload, rewinds a shared counter or deletes the
\* database only when no client thread is left that could use them.
NoResetWhileRunning ==
    [][ \/ initCount' # initCount
        \/ thread_id' < thread_id
        \/ processed_ops' < processed_ops
        \/ \E s \in Slots : ops'[s] < ops[s] \/ durations'[s] < durations[s]
        \/ mpc' = "done"
        => \A t \in Threads : ~Running(t) ]_vars

\* Every phase ends and the program terminates.
Termination == <>(mpc = "done")

\* core/core_workload.cc:229: "If the generator picks a key that is not
\* inserted yet, we just ignore it and pick another key."
TransactionKeysInserted ==
    \A t \in At({"db"}) : ~loading /\ op[t] # INSERT => key[t] \in records
=============================================================================
