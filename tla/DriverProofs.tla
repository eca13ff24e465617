---------------------------- MODULE DriverProofs ----------------------------
(***************************************************************************)
(* Proofs about Driver, for every number of threads, every operation mix   *)
(* and every value of the other constants the assumptions allow.           *)
(*                                                                         *)
(* PhaseInv relates main()'s position to the client threads: which exist,  *)
(* and which have returned.  With it TypeOK is inductive and the resets    *)
(* of main() are seen to happen between phases only.  IdInv adds how many  *)
(* ids thread_id has handed out, which bounds the slots of ops[].          *)
(*                                                                         *)
(* The counters come next.  A client step is summarised by the place where *)
(* it starts (ThreadEffect, CounterEffect); a sum over the threads or over *)
(* the slots grows by one unit with such a step.  FlowInv says how far     *)
(* each thread is and what it has counted, SharedInv relates the shared    *)
(* counters to the operations in flight, TallyInv the counters of a run to *)
(* its outcomes, and KeyInv and LoadInv the inserts of the load phase to   *)
(* the records of the database.                                            *)
(***************************************************************************)
EXTENDS Driver, DataLemmas, FiniteSetTheorems, TLAPS

\* What main()'s position says about the client threads.
PhaseInv ==
    /\ mpc \in {"start", "loaded", "runs", "done"} => \A t \in Threads : ~Running(t)
    /\ mpc = "spawn" => /\ spawned < NumThreads
                        /\ joined = 0
                        /\ \A t \in Threads : (pc[t] = "idle") <=> (t > spawned)
    /\ mpc = "join" => /\ \A t \in Threads : pc[t] # "idle"
                       /\ \A t \in Threads : t <= joined => pc[t] = "returned"
    /\ mpc = "start" => runs = 0
    /\ mpc = "runs" => phase = "run"
    /\ mpc \in {"spawn", "join"} => runs < 2
    /\ phase = "load" => runs = 0

BaseInv == TypeOK /\ PhaseInv

-----------------------------------------------------------------------------
\* The start state satisfies the base invariant.
LEMMA BaseInit == Init => BaseInv
  <1> SUFFICES ASSUME Init PROVE BaseInv
    OBVIOUS
  <1> USE DEF Init
  <1>1. TypeOK
    BY ThreadsAssumption, KeysAssumption
       DEF TypeOK, PcValues, INSERT, READ, UPDATE, SCAN, READMODIFYWRITE,
           kOK, kErrorNoData, kErrorConflict
  <1>2. PhaseInv
    BY DEF PhaseInv, Running
  <1> QED
    BY <1>1, <1>2 DEF BaseInv

\* A step of main() preserves the base invariant.
LEMMA BaseMain == ASSUME BaseInv, Main PROVE BaseInv'
  <1> USE ThreadsAssumption DEF BaseInv, TypeOK, PhaseInv
  <1>1. CASE StartMain
    <2>1. TypeOK'
      <3>1. CASE mpc' = "loaded"
        BY <1>1, <3>1 DEF StartMain
      <3>2. CASE mpc' = "spawn"
        BY <1>1, <3>2, KeysAssumption DEF StartMain, InitWorkload, ClearFutures, PcValues
      <3> QED
        BY <1>1, <3>1, <3>2 DEF StartMain
    <2>2. CASE mpc' = "loaded"
      BY <1>1, <2>1, <2>2 DEF StartMain, Running
    <2>3. CASE mpc' = "spawn"
      BY <1>1, <2>1, <2>3 DEF StartMain, ClearFutures, Running, Threads
    <2> QED
      BY <1>1, <2>2, <2>3 DEF StartMain
  <1>2. CASE Spawn
    <2>1. spawned + 1 \in Threads
      BY <1>2 DEF Spawn, LastSpawn, Threads
    <2>2. TypeOK'
      BY <1>2, <2>1 DEF Spawn, LastSpawn, PcValues, Threads
    <2>3. PhaseInv'
      BY <1>2, <2>1 DEF Spawn, LastSpawn, Running, PcValues, Threads
    <2> QED
      BY <2>2, <2>3
  <1>3. CASE Join
    <2>1. joined + 1 \in Threads
      BY <1>3 DEF Join, Threads
    <2>2. TypeOK'
      BY <1>3, <2>1 DEF Join, clientVars
    <2>3. \A t \in Threads : t <= joined' => pc'[t] = "returned"
      <3> SUFFICES ASSUME NEW t \in Threads, t <= joined' PROVE pc'[t] = "returned"
        OBVIOUS
      <3>1. t <= joined \/ t = joined + 1
        BY <1>3 DEF Join, Threads
      <3>2. pc' = pc /\ mpc = "join" /\ pc[joined + 1] = "returned"
        BY <1>3 DEF Join, clientVars
      <3> QED
        BY <3>1, <3>2
    <2>4. PhaseInv'
      BY <1>3, <2>3 DEF Join, clientVars, Running
    <2> QED
      BY <2>2, <2>4
  <1>4. CASE EndLoad
    <2>1. TypeOK'
      BY <1>4 DEF EndLoad, clientVars
    <2>2. PhaseInv'
      BY <1>4 DEF EndLoad, AllJoined, clientVars, Running, Threads
    <2> QED
      BY <2>1, <2>2
  <1>5. CASE PrepareRuns
    <2>1. TypeOK'
      BY <1>5 DEF PrepareRuns, ResetThreadId, clientVars
    <2>2. PhaseInv'
      BY <1>5 DEF PrepareRuns, clientVars, Running
    <2> QED
      BY <2>1, <2>2
  <1>6. CASE BeginRun
    <2>1. TypeOK'
      BY <1>6, KeysAssumption DEF BeginRun, ClearCounters, InitWorkload, ClearFutures, PcValues
    <2>2. PhaseInv'
      BY <1>6 DEF BeginRun, InitWorkload, ClearFutures, Running, Threads
    <2> QED
      BY <2>1, <2>2
  <1>7. CASE EndRun
    <2>1. TypeOK'
      BY <1>7 DEF EndRun, clientVars
    <2>2. PhaseInv'
      BY <1>7 DEF EndRun, loading, AllJoined, clientVars, Running, Threads
    <2> QED
      BY <2>1, <2>2
  <1>8. CASE Finish
    <2>1. TypeOK'
      BY <1>8 DEF Finish, clientVars
    <2>2. PhaseInv'
      BY <1>8 DEF Finish, clientVars, Running
    <2> QED
      BY <2>1, <2>2
  <1> QED
    BY <1>1, <1>2, <1>3, <1>4, <1>5, <1>6, <1>7, <1>8 DEF Main

\* A client step belongs to a running thread, leaves main() alone and moves
\* no other thread.
LEMMA ClientFrame ==
  ASSUME TypeOK, NEW t \in Threads, Client(t)
  PROVE  /\ UNCHANGED mainVars
         /\ Running(t)
         /\ pc'[t] # "idle"
         /\ \A u \in Threads \ {t} : pc'[u] = pc[u]
  <1> USE DEF Client, Begin, DrawLoadKey, SkipTransaction, ChooseTransaction, CallDb, Account,
              CountOp, AddSample, SampleRead, CountZeroRead, SampleZeroRead, CountRead,
              SampleInsert, CountInsert, CountAll, CountThread, SampleThread, ReturnOp,
              StageOutput, Return
  <1>1. UNCHANGED mainVars
    OBVIOUS
  <1>2. Running(t)
    BY DEF Running
  <1>3. pc'[t] # "idle" /\ \A u \in Threads \ {t} : pc'[u] = pc[u]
    BY DEF GoTo, TypeOK
  <1> QED
    BY <1>1, <1>2, <1>3

\* An atomic addition to ops[] or durations[] keeps the types.
LEMMA CountOpType ==
  ASSUME TypeOK, NEW t \in Threads, NEW at, NEW slot, NEW to \in PcValues,
         CountOp(t, at, slot, to)
  PROVE  TypeOK'
  <1>1. ops' = [ops EXCEPT ![slot] = @ + 1] /\ ops \in [Slots -> Nat]
    BY DEF CountOp, TypeOK
  <1>2. ops' \in [Slots -> Nat]
    <2>1. ops' = [s \in Slots |-> IF s = slot THEN ops[s] + 1 ELSE ops[s]]
      BY <1>1, Zenon
    <2>2. \A s \in Slots : ops[s] \in Nat /\ ops[s] + 1 \in Nat
      BY <1>1
    <2> QED
      BY <2>1, <2>2
  <1>3. pc' \in [Threads -> PcValues]
    BY DEF CountOp, TypeOK, GoTo
  <1> QED
    BY <1>2, <1>3 DEF TypeOK, CountOp, mainVars
\* The same for durations[].
LEMMA AddSampleType ==
  ASSUME TypeOK, NEW t \in Threads, NEW at, NEW slot, NEW to \in PcValues,
         AddSample(t, at, slot, to)
  PROVE  TypeOK'
  <1>1. durations' = [durations EXCEPT ![slot] = @ + 1] /\ durations \in [Slots -> Nat]
    BY DEF AddSample, TypeOK
  <1>2. durations' \in [Slots -> Nat]
    <2>1. durations' = [s \in Slots |-> IF s = slot THEN durations[s] + 1 ELSE durations[s]]
      BY <1>1, Zenon
    <2>2. \A s \in Slots : durations[s] \in Nat /\ durations[s] + 1 \in Nat
      BY <1>1
    <2> QED
      BY <2>1, <2>2
  <1>3. pc' \in [Threads -> PcValues]
    BY DEF AddSample, TypeOK, GoTo
  <1> QED
    BY <1>2, <1>3 DEF TypeOK, AddSample, mainVars

\* So does every step of the accounting of a transaction.
LEMMA AccountType == ASSUME TypeOK, NEW t \in Threads, Account(t) PROVE TypeOK'
  <1>1. CASE SampleRead(t)
    BY <1>1, AddSampleType DEF SampleRead, PcValues
  <1>2. CASE CountZeroRead(t)
    BY <1>2, CountOpType DEF CountZeroRead, PcValues
  <1>3. CASE SampleZeroRead(t)
    BY <1>3, AddSampleType DEF SampleZeroRead, PcValues
  <1>4. CASE CountRead(t)
    BY <1>4, CountOpType DEF CountRead, PcValues
  <1>5. CASE SampleInsert(t)
    BY <1>5, AddSampleType DEF SampleInsert, PcValues
  <1>6. CASE CountInsert(t)
    BY <1>6, CountOpType DEF CountInsert, PcValues
  <1>7. CASE CountAll(t)
    BY <1>7, CountOpType DEF CountAll, PcValues
  <1>8. CASE CountThread(t)
    BY <1>8, CountOpType DEF CountThread, PcValues
  <1>9. CASE SampleThread(t)
    BY <1>9, AddSampleType DEF SampleThread, PcValues
  <1> QED
    BY <1>1, <1>2, <1>3, <1>4, <1>5, <1>6, <1>7, <1>8, <1>9 DEF Account

\* A step of a client thread preserves the base invariant.
LEMMA BaseClient == ASSUME BaseInv, NEW t \in Threads, Client(t) PROVE BaseInv'
  <1> USE ThreadsAssumption DEF BaseInv
  <1>1. TypeOK'
    <2> USE DEF TypeOK, mainVars, GoTo, PcValues
    <2>1. CASE Begin(t)
      BY <2>1 DEF Begin, FetchThreadId
    <2>2. CASE DrawLoadKey(t)
      BY <2>2 DEF DrawLoadKey, NextSequenceKey
    <2>3. CASE SkipTransaction(t)
      BY <2>3 DEF SkipTransaction, NextSequenceKey
    <2>4. CASE ChooseTransaction(t)
      <3>1. PICK o \in OperationsOf(t) :
              /\ op' = [op EXCEPT ![t] = o]
              /\ IF o = INSERT
                 THEN NextSequenceKey(t)
                 ELSE /\ \E k \in TransactionKeys : key' = [key EXCEPT ![t] = k]
                      /\ UNCHANGED key_generator
        BY <2>4 DEF ChooseTransaction
      <3>2. o \in {INSERT, READ, UPDATE, SCAN, READMODIFYWRITE}
        BY OperationsAssumption DEF OperationsOf, ThreadType
      <3>3. TransactionKeys \subseteq Nat
        BY CountsAssumption, KeysAssumption DEF TransactionKeys
      <3>4. key' \in [Threads -> Nat] /\ key_generator' \in Nat
        BY <3>1, <3>3 DEF NextSequenceKey
      <3> QED
        BY <2>4, <3>1, <3>2, <3>4 DEF ChooseTransaction
    <2>5. CASE CallDb(t)
      <3>1. DbStatus(op[t], key[t]) \in {kOK, kErrorNoData, kErrorConflict}
        BY DEF DbStatus
      <3>2. pc' \in [Threads -> PcValues]
        BY <2>5 DEF CallDb, INSERT, READ, UPDATE, SCAN, READMODIFYWRITE
      <3> QED
        BY <2>5, <3>1, <3>2 DEF CallDb
    <2>6. CASE Account(t)
      BY <2>6, AccountType
    <2>7. CASE ReturnOp(t)
      <3>1. idx' \in [Threads -> Nat] /\ pc' \in [Threads -> PcValues]
        BY <2>7 DEF ReturnOp
      <3>2. oks' \in [Threads -> Nat]
        BY <2>7 DEF ReturnOp
      <3>3. processed_ops' \in Nat
        BY <2>7, StageAssumption DEF ReturnOp
      <3> QED
        BY <2>7, <3>1, <3>2, <3>3 DEF ReturnOp
    <2>8. CASE StageOutput(t)
      BY <2>8 DEF StageOutput
    <2>9. CASE Return(t)
      BY <2>9 DEF Return
    <2> QED
      BY <2>1, <2>2, <2>3, <2>4, <2>5, <2>6, <2>7, <2>8, <2>9 DEF Client
  <1>2. PhaseInv'
    BY ClientFrame DEF PhaseInv, Running, mainVars, Threads, TypeOK
  <1> QED
    BY <1>1, <1>2

\* The base invariant is inductive.
LEMMA BaseStep == BaseInv /\ [Next]_vars => BaseInv'
  <1> SUFFICES ASSUME BaseInv, [Next]_vars PROVE BaseInv'
    OBVIOUS
  <1>1. CASE Main
    BY <1>1, BaseMain
  <1>2. CASE \E t \in Threads : Client(t)
    BY <1>2, BaseClient
  <1>3. CASE UNCHANGED vars
    BY <1>3 DEF BaseInv, TypeOK, PhaseInv, Running, vars
  <1> QED
    BY <1>1, <1>2, <1>3 DEF Next, Terminated
\* Hence it holds in every state of every behaviour.
LEMMA BaseCorrect == Spec => []BaseInv
  BY BaseInit, BaseStep, PTL DEF Spec

\* Type correctness: Driver's variables keep their types in every behaviour.
THEOREM TypeCorrect == Spec => []TypeOK
  <1>1. BaseInv => TypeOK
    BY DEF BaseInv
  <1> QED
    BY BaseCorrect, <1>1, PTL

-----------------------------------------------------------------------------
(***************************************************************************)
(* Resets happen between phases.                                           *)
(***************************************************************************)

\* A client step never lowers a shared counter.
LEMMA ClientMonotone ==
  ASSUME BaseInv, NEW t \in Threads, Client(t)
  PROVE  /\ thread_id' >= thread_id
         /\ processed_ops' >= processed_ops
         /\ \A s \in Slots : ops'[s] >= ops[s] /\ durations'[s] >= durations[s]
  <1> USE DEF BaseInv, TypeOK
  <1>1. CASE Account(t)
    <2>1. ASSUME NEW at, NEW slot, NEW to, CountOp(t, at, slot, to)
          PROVE  /\ UNCHANGED <<thread_id, processed_ops, durations>>
                 /\ \A s \in Slots : ops'[s] = ops[s] \/ ops'[s] = ops[s] + 1
      BY <2>1, Zenon DEF CountOp
    <2>2. ASSUME NEW at, NEW slot, NEW to, AddSample(t, at, slot, to)
          PROVE  /\ UNCHANGED <<thread_id, processed_ops, ops>>
                 /\ \A s \in Slots : durations'[s] = durations[s] \/ durations'[s] = durations[s] + 1
      BY <2>2, Zenon DEF AddSample
    <2>3. CASE UNCHANGED <<thread_id, processed_ops, durations>>
                 /\ \A s \in Slots : ops'[s] = ops[s] \/ ops'[s] = ops[s] + 1
      BY <2>3
    <2>4. CASE UNCHANGED <<thread_id, processed_ops, ops>>
                 /\ \A s \in Slots : durations'[s] = durations[s] \/ durations'[s] = durations[s] + 1
      BY <2>4
    <2> HIDE DEF BaseInv, TypeOK
    <2> QED
      BY <1>1, <2>1, <2>2, <2>3, <2>4, Zenon
         DEF Account, SampleRead, CountZeroRead, SampleZeroRead, CountRead,
             SampleInsert, CountInsert, CountAll, CountThread, SampleThread
  <1>2. CASE ~Account(t)
    <2>1. UNCHANGED <<ops, durations>>
      BY <1>2 DEF Client, Begin, DrawLoadKey, SkipTransaction, ChooseTransaction, CallDb,
                  ReturnOp, StageOutput, Return
    <2>2. thread_id' = thread_id \/ thread_id' = thread_id + 1
      BY <1>2 DEF Client, Begin, FetchThreadId, DrawLoadKey, SkipTransaction,
                  ChooseTransaction, CallDb, ReturnOp, StageOutput, Return
    <2>3. processed_ops' = processed_ops \/ processed_ops' = processed_ops + StageOps
      BY <1>2 DEF Client, Begin, DrawLoadKey, SkipTransaction, ChooseTransaction, CallDb,
                  ReturnOp, StageOutput, Return
    <2> QED
      BY <2>1, <2>2, <2>3, StageAssumption
  <1> QED
    BY <1>1, <1>2

\* A step of main() that replaces the workload, rewinds a counter or ends the
\* program starts where no thread is running.
LEMMA MainResets ==
  ASSUME BaseInv, Main,
         \/ initCount' # initCount
         \/ thread_id' < thread_id
         \/ processed_ops' < processed_ops
         \/ \E s \in Slots : ops'[s] < ops[s] \/ durations'[s] < durations[s]
         \/ mpc' = "done"
  PROVE  mpc \in {"start", "loaded", "runs"}
  <1>1. CASE Spawn \/ Join \/ EndLoad \/ EndRun
    <2>1. /\ UNCHANGED <<initCount, thread_id, processed_ops, ops, durations>>
          /\ mpc' # "done"
      BY <1>1 DEF Spawn, LastSpawn, Join, EndLoad, EndRun
    <2> QED
      BY <2>1 DEF BaseInv, TypeOK
  <1>2. CASE StartMain \/ PrepareRuns \/ BeginRun \/ Finish
    BY <1>2 DEF StartMain, PrepareRuns, BeginRun, Finish
  <1> QED
    BY <1>1, <1>2 DEF Main

\* Whatever the interleaving, main() replaces the workload, rewinds a shared
\* counter or deletes the database only when every client thread has returned.
THEOREM ResetsBetweenPhases == Spec => NoResetWhileRunning
  <1> DEFINE Reset == \/ initCount' # initCount
                      \/ thread_id' < thread_id
                      \/ processed_ops' < processed_ops
                      \/ \E s \in Slots : ops'[s] < ops[s] \/ durations'[s] < durations[s]
                      \/ mpc' = "done"
             Quiet == \A t \in Threads : ~Running(t)
  <1>1. BaseInv /\ [Next]_vars => [Reset => Quiet]_vars
    <2> SUFFICES ASSUME BaseInv, Next, Reset PROVE Quiet
      BY DEF vars
    <2>1. CASE Main
      BY <2>1, MainResets DEF BaseInv, PhaseInv
    <2>2. CASE \E t \in Threads : Client(t)
      <3>1. PICK t \in Threads : Client(t)
        BY <2>2
      <3>2. initCount' = initCount /\ mpc' = mpc
        BY <3>1, ClientFrame DEF BaseInv, mainVars
      <3>3. /\ thread_id' >= thread_id
            /\ processed_ops' >= processed_ops
            /\ \A s \in Slots : ops'[s] >= ops[s] /\ durations'[s] >= durations[s]
        BY <3>1, ClientMonotone
      <3>4. TypeOK /\ TypeOK'
        BY <3>1, BaseClient DEF BaseInv
      <3>5. mpc' = "done"
        BY <3>2, <3>3, <3>4 DEF TypeOK
      <3> QED
        BY <3>2, <3>5 DEF BaseInv, PhaseInv
    <2>3. CASE Terminated
      BY <2>3 DEF Terminated, BaseInv, PhaseInv
    <2> QED
      BY <2>1, <2>2, <2>3 DEF Next
  <1> QED
    BY BaseCorrect, <1>1, PTL DEF Spec, NoResetWhileRunning

-----------------------------------------------------------------------------
(***************************************************************************)
(* Thread ids and the slots of ops[].                                      *)
(***************************************************************************)

\* The first id of the phase: thread_id is not rewound for the second run.
FirstId == IF phase = "run" /\ runs = 1 THEN NumThreads ELSE 0

BegunThreads == {t \in Threads : Begun(t)}

\* thread_id has handed out one id per started thread of the phase.
IdCount ==
    /\ mpc = "start" => thread_id = 0
    /\ mpc = "runs" /\ runs < 2 => thread_id = FirstId
    /\ mpc \in {"spawn", "join"} =>
          /\ thread_id = FirstId + Cardinality(BegunThreads)
          /\ \A t \in BegunThreads : tid[t] \in FirstId..(thread_id - 1)

IdInv == BaseInv /\ IdCount /\ SlotOwnership

\* No phase starts more threads than it has.
LEMMA BegunBound ==
  ASSUME TypeOK
  PROVE  /\ IsFiniteSet(BegunThreads)
         /\ Cardinality(BegunThreads) \in Nat
         /\ Cardinality(BegunThreads) <= NumThreads
         /\ Cardinality(Threads) = NumThreads
  <1>1. IsFiniteSet(Threads) /\ Cardinality(Threads) = NumThreads
    BY ThreadsAssumption, FS_Interval DEF Threads
  <1>2. BegunThreads \in SUBSET Threads
    BY DEF BegunThreads
  <1>3. IsFiniteSet(BegunThreads) /\ Cardinality(BegunThreads) <= Cardinality(Threads)
    BY <1>1, <1>2, FS_Subset
  <1> QED
    BY <1>1, <1>3, FS_CardinalityType
\* The start state satisfies the id invariant.
LEMMA IdInit == Init => IdInv
  <1> SUFFICES ASSUME Init PROVE IdInv
    OBVIOUS
  <1>1. BaseInv
    BY BaseInit
  <1>2. IdCount /\ SlotOwnership
    BY DEF Init, IdCount, SlotOwnership, Begun
  <1> QED
    BY <1>1, <1>2 DEF IdInv

\* A step of main() preserves the id invariant.
LEMMA IdMain == ASSUME IdInv, Main PROVE IdInv'
  <1>1. BaseInv /\ BaseInv' /\ TypeOK /\ TypeOK' /\ PhaseInv /\ IdCount /\ SlotOwnership
    BY BaseMain DEF IdInv, BaseInv
  <1>2. ASSUME pc' = [t \in Threads |-> "idle"], mpc' = "spawn", thread_id' = FirstId'
        PROVE  IdCount' /\ SlotOwnership'
    <2>1. BegunThreads' = {}
      BY <1>2 DEF BegunThreads, Begun
    <2>2. Cardinality(BegunThreads') = 0
      BY <2>1, FS_EmptySet
    <2>3. FirstId' \in Nat
      BY ThreadsAssumption DEF FirstId
    <2>4. IdCount'
      BY <1>2, <2>1, <2>2, <2>3 DEF IdCount
    <2>5. SlotOwnership'
      BY <1>2 DEF SlotOwnership, Begun
    <2> QED
      BY <2>4, <2>5
  <1>3. ASSUME UNCHANGED <<pc, tid>>
        PROVE  SlotOwnership' /\ BegunThreads' = BegunThreads
    BY <1>1, <1>3 DEF SlotOwnership, BegunThreads, Begun
  <1>4. CASE StartMain
    <2>1. CASE mpc' = "loaded"
      BY <1>3, <1>4, <2>1, <1>1 DEF StartMain, IdInv, IdCount
    <2>2. CASE mpc' = "spawn"
      <3>1. thread_id' = FirstId'
        BY <1>1, <1>4 DEF StartMain, IdCount, FirstId, PhaseInv
      <3> QED
        BY <1>1, <1>2, <1>4, <2>2, <3>1 DEF StartMain, ClearFutures, IdInv
    <2> QED
      BY <1>4, <2>1, <2>2 DEF StartMain
  <1>5. CASE Spawn
    <2>1. spawned + 1 \in Threads /\ pc[spawned + 1] = "idle"
      BY <1>1, <1>5, ThreadsAssumption DEF Spawn, LastSpawn, Threads, TypeOK, PhaseInv
    <2>2. \A t \in Threads : Begun(t)' <=> Begun(t)
      BY <1>1, <1>5, <2>1 DEF Spawn, LastSpawn, Begun, TypeOK
    <2>3. BegunThreads' = BegunThreads /\ FirstId' = FirstId
      BY <1>5, <2>2 DEF Spawn, LastSpawn, BegunThreads, FirstId
    <2>4. UNCHANGED <<tid, thread_id>> /\ mpc = "spawn" /\ mpc' \in {"spawn", "join"}
      BY <1>5 DEF Spawn
    <2>5. IdCount'
      BY <1>1, <2>3, <2>4 DEF IdCount
    <2>6. SlotOwnership'
      BY <1>1, <2>2, <2>4 DEF SlotOwnership
    <2> QED
      BY <1>1, <2>5, <2>6 DEF IdInv
  <1>6. CASE Join
    <2>1. /\ UNCHANGED <<pc, tid, thread_id, mpc>>
          /\ mpc = "join"
          /\ FirstId' = FirstId
      BY <1>6 DEF Join, clientVars, FirstId
    <2> QED
      BY <1>1, <1>3, <2>1 DEF IdInv, IdCount
  <1>7. CASE EndLoad \/ PrepareRuns \/ Finish
    <2>1. UNCHANGED <<pc, tid>> /\ mpc' \in {"loaded", "runs", "done"}
      BY <1>7 DEF EndLoad, PrepareRuns, Finish, clientVars
    <2>2. IdCount'
      BY <1>7, <2>1 DEF EndLoad, PrepareRuns, Finish, ResetThreadId, IdCount, FirstId
    <2> QED
      BY <1>1, <1>3, <2>1, <2>2 DEF IdInv
  <1>8. CASE BeginRun
    <2>1. thread_id' = FirstId'
      BY <1>1, <1>8 DEF BeginRun, IdCount, FirstId, PhaseInv
    <2> QED
      BY <1>1, <1>2, <1>8, <2>1 DEF BeginRun, ClearFutures, IdInv
  <1>9. CASE EndRun
    <2>1. /\ UNCHANGED <<pc, tid, thread_id, phase>>
          /\ mpc = "join" /\ mpc' = "runs" /\ phase = "run"
          /\ joined = NumThreads
          /\ runs' \in {runs + 1, runs + 2}
      BY <1>1, <1>9, ThreadsAssumption DEF EndRun, clientVars, AllJoined, loading, TypeOK
    <2>2. BegunThreads = Threads
      BY <1>1, <2>1 DEF PhaseInv, BegunThreads, Begun, Threads
    <2>3. thread_id = FirstId + NumThreads
      BY <1>1, <2>1, <2>2, BegunBound DEF IdCount
    <2>4. runs' < 2 => runs = 0 /\ runs' = 1
      BY <1>1, <2>1 DEF TypeOK
    <2>5. IdCount'
      BY <2>1, <2>3, <2>4, ThreadsAssumption DEF IdCount, FirstId
    <2> QED
      BY <1>1, <1>3, <2>1, <2>5 DEF IdInv
  <1> QED
    BY <1>4, <1>5, <1>6, <1>7, <1>8, <1>9 DEF Main

\* The ids change only when a thread begins; the other client steps are taken
\* by threads that have begun.
LEMMA ClientIds ==
  ASSUME TypeOK, NEW t \in Threads, Client(t), ~Begin(t)
  PROVE  UNCHANGED <<tid, thread_id>> /\ Begun(t) /\ Begun(t)'
  <1> USE DEF Client, DrawLoadKey, SkipTransaction, ChooseTransaction, CallDb, Account,
              CountOp, AddSample, SampleRead, CountZeroRead, SampleZeroRead, CountRead,
              SampleInsert, CountInsert, CountAll, CountThread, SampleThread, ReturnOp,
              StageOutput, Return
  <1>1. UNCHANGED <<tid, thread_id>>
    OBVIOUS
  <1>2. Begun(t)
    BY DEF Begun
  <1>3. Begun(t)'
    BY DEF Begun, GoTo, TypeOK
  <1> QED
    BY <1>1, <1>2, <1>3

\* A client step preserves the id invariant.
LEMMA IdClient == ASSUME IdInv, NEW t \in Threads, Client(t) PROVE IdInv'
  <1>1. BaseInv /\ BaseInv' /\ TypeOK /\ TypeOK' /\ PhaseInv /\ IdCount /\ SlotOwnership
    BY BaseClient DEF IdInv, BaseInv
  <1>2. /\ UNCHANGED mainVars /\ Running(t)
        /\ \A u \in Threads \ {t} : Begun(u)' <=> Begun(u)
    BY <1>1, ClientFrame DEF Begun
  <1>3. mpc \in {"spawn", "join"} /\ mpc' = mpc /\ FirstId' = FirstId /\ runs < 2
    BY <1>1, <1>2 DEF PhaseInv, TypeOK, mainVars, FirstId
  <1>4. CASE Begin(t)
    <2>1. /\ pc[t] = "begin" /\ pc'[t] = "loop"
          /\ tid' = [tid EXCEPT ![t] = thread_id] /\ thread_id' = thread_id + 1
      BY <1>1, <1>4 DEF Begin, FetchThreadId, GoTo, TypeOK
    <2>2. t \notin BegunThreads /\ BegunThreads' = BegunThreads \cup {t}
      BY <1>2, <2>1 DEF BegunThreads, Begun
    <2>3. Cardinality(BegunThreads') = Cardinality(BegunThreads) + 1
      BY <1>1, <2>2, BegunBound, FS_AddElement
    <2>4. Cardinality(BegunThreads') <= NumThreads
      <3>1. BegunThreads' \in SUBSET Threads
        BY DEF BegunThreads
      <3>2. IsFiniteSet(Threads) /\ Cardinality(Threads) = NumThreads
        BY <1>1, BegunBound, FS_Interval, ThreadsAssumption DEF Threads
      <3>3. Cardinality(BegunThreads') <= Cardinality(Threads)
        BY <3>1, <3>2, FS_Subset
      <3> QED
        BY <3>2, <3>3
    <2>5. FirstId \in Nat /\ FirstId <= NumThreads
      BY ThreadsAssumption DEF FirstId
    <2>6. /\ thread_id = FirstId + Cardinality(BegunThreads)
          /\ \A u \in BegunThreads : tid[u] \in FirstId..(thread_id - 1)
      BY <1>1, <1>3 DEF IdCount
    <2>7. thread_id \in Nat /\ thread_id < 2 * NumThreads
      BY <1>1, <2>3, <2>4, <2>5, <2>6, BegunBound, ThreadsAssumption
    <2>8. IdCount'
      <3>1. \A u \in BegunThreads' : tid'[u] \in FirstId..thread_id
        BY <1>1, <2>1, <2>2, <2>5, <2>6, <2>7, BegunBound DEF TypeOK, BegunThreads
      <3>2. thread_id' = FirstId' + Cardinality(BegunThreads')
        BY <1>1, <1>3, <2>1, <2>3, <2>5, <2>6, BegunBound
      <3> QED
        BY <1>1, <1>3, <2>1, <2>7, <3>1, <3>2 DEF IdCount
    <2>9. SlotOwnership'
      <3> SUFFICES ASSUME NEW u \in Threads, Begun(u)'
                   PROVE  /\ THREAD0 + tid'[u] \in Slots
                          /\ \A v \in Threads \ {u} : Begun(v)' => tid'[v] # tid'[u]
        BY DEF SlotOwnership
      <3>1. THREAD0 + thread_id \in Slots
        BY <2>7, OpsLenAssumption, ThreadsAssumption DEF Slots, THREAD0
      <3>2. \A v \in BegunThreads : tid[v] < thread_id /\ tid[v] # thread_id
        BY <2>5, <2>6, <2>7
      <3>3. CASE u = t
        BY <1>1, <1>2, <2>1, <3>1, <3>2, <3>3 DEF TypeOK, BegunThreads
      <3>4. CASE u # t
        BY <1>1, <1>2, <2>1, <3>2, <3>4 DEF TypeOK, BegunThreads, SlotOwnership
      <3> QED
        BY <3>3, <3>4
    <2> QED
      BY <1>1, <2>8, <2>9 DEF IdInv
  <1>5. CASE ~Begin(t)
    <2>1. UNCHANGED <<tid, thread_id>> /\ \A u \in Threads : Begun(u)' <=> Begun(u)
      BY <1>1, <1>2, <1>5, ClientIds
    <2>2. BegunThreads' = BegunThreads
      BY <2>1 DEF BegunThreads
    <2>3. IdCount'
      BY <1>1, <1>3, <2>1, <2>2 DEF IdCount
    <2>4. SlotOwnership'
      BY <1>1, <2>1 DEF SlotOwnership
    <2> QED
      BY <1>1, <2>3, <2>4 DEF IdInv
  <1> QED
    BY <1>4, <1>5
\* The id invariant is inductive, so it holds in every state.
LEMMA IdCorrect == Spec => []IdInv
  <1>1. IdInv /\ [Next]_vars => IdInv'
    <2> SUFFICES ASSUME IdInv, [Next]_vars PROVE IdInv'
      OBVIOUS
    <2>1. CASE Main
      BY <2>1, IdMain
    <2>2. CASE \E t \in Threads : Client(t)
      BY <2>2, IdClient
    <2>3. CASE UNCHANGED vars
      <3>1. BaseInv'
        BY <2>3, BaseStep DEF IdInv
      <3> QED
        BY <2>3, <3>1 DEF IdInv, IdCount, FirstId, BegunThreads, SlotOwnership, Begun, vars
    <2> QED
      BY <2>1, <2>2, <2>3 DEF Next, Terminated
  <1> QED
    BY IdInit, <1>1, PTL DEF Spec

\* For any number of threads, in every phase, each started thread has a slot
\* of ops[] and durations[] of its own, inside the arrays.
THEOREM SlotsAreOwned == Spec => []SlotOwnership
  <1>1. IdInv => SlotOwnership
    BY DEF IdInv
  <1> QED
    BY IdCorrect, <1>1, PTL

-----------------------------------------------------------------------------
(***************************************************************************)
(* The stage outputs.                                                      *)
(***************************************************************************)

\* processed_ops is a multiple of its grain, and the outputs made or begun are
\* the multiples of the period it has reached.
StageInv ==
    /\ processed_ops % StageOps = 0
    /\ StageOutputOnce

\* One thread more or less in a set of threads.
LEMMA OneMoves ==
  ASSUME NEW t \in Threads, NEW A \in SUBSET Threads, NEW B \in SUBSET Threads,
         \A u \in Threads \ {t} : u \in A <=> u \in B
  PROVE  /\ Cardinality(A) \in Nat
         /\ Cardinality(B) \in Nat
         /\ Cardinality(B) = Cardinality(A) - (IF t \in A THEN 1 ELSE 0)
                                            + (IF t \in B THEN 1 ELSE 0)
  <1>1. IsFiniteSet(Threads)
    BY ThreadsAssumption, FS_Interval DEF Threads
  <1>2. IsFiniteSet(A) /\ IsFiniteSet(B)
    BY <1>1, FS_Subset
  <1>3. Cardinality(A) \in Nat /\ Cardinality(B) \in Nat
    BY <1>2, FS_CardinalityType
  <1>4. A \ {t} = B \ {t}
    OBVIOUS
  <1>5. /\ Cardinality(A \ {t}) = Cardinality(A) - (IF t \in A THEN 1 ELSE 0)
        /\ Cardinality(B \ {t}) = Cardinality(B) - (IF t \in B THEN 1 ELSE 0)
    BY <1>2, <1>3, FS_RemoveElement
  <1> QED
    BY <1>3, <1>4, <1>5

\* A step of thread t from one place to another.
LEMMA AtMoves ==
  ASSUME TypeOK, NEW t \in Threads, NEW to, GoTo(t, to), NEW P
  PROVE  /\ Cardinality(At(P)) \in Nat
         /\ Cardinality(At(P)') = Cardinality(At(P)) - (IF pc[t] \in P THEN 1 ELSE 0)
                                                     + (IF to \in P THEN 1 ELSE 0)
  <1>1. pc'[t] = to /\ \A u \in Threads \ {t} : pc'[u] = pc[u]
    BY DEF TypeOK, GoTo
  <1>2. At(P) \in SUBSET Threads /\ At(P)' \in SUBSET Threads
    BY DEF At
  <1>3. /\ \A u \in Threads \ {t} : u \in At(P) <=> u \in At(P)'
        /\ t \in At(P) <=> pc[t] \in P
        /\ t \in At(P)' <=> to \in P
    BY <1>1 DEF At
  <1> QED
    BY <1>2, <1>3, OneMoves

\* main() neither adds to processed_ops nor sends a thread to a stage output.
LEMMA StageMain == ASSUME BaseInv, StageInv, Main PROVE StageInv'
  <1> DEFINE S == At({"stage"})
  <1>1. CASE BeginRun
    <2>1. S = {} /\ S' = {}
      BY <1>1 DEF At, BaseInv, PhaseInv, Running, BeginRun, ClearFutures
    <2>2. CASE UNCHANGED <<processed_ops, stages>>
      BY <2>1, <2>2 DEF StageInv, StageOutputOnce
    <2>3. CASE processed_ops' = 0 /\ stages' = 0
      <3>1. 0 \div StageTotal = 0 /\ 0 % StageOps = 0
        BY StageAssumption
      <3>2. Cardinality(S') = 0
        BY <2>1, FS_EmptySet
      <3> HIDE DEF S
      <3>3. stages' + Cardinality(S') = processed_ops' \div StageTotal
        BY <2>3, <3>1, <3>2
      <3> QED
        BY <2>3, <3>1, <3>3 DEF StageInv, StageOutputOnce, S
    <2> QED
      BY <1>1, <2>2, <2>3 DEF BeginRun, ClearCounters
  <1>2. CASE ~BeginRun
    <2>1. UNCHANGED <<processed_ops, stages>>
      BY <1>2 DEF Main, StartMain, Spawn, Join, EndLoad, PrepareRuns, EndRun, Finish
    <2>2. S' = S
      <3>1. CASE StartMain
        BY <3>1 DEF At, BaseInv, PhaseInv, Running, StartMain, ClearFutures
      <3>2. CASE Spawn
        <4>1. spawned + 1 \in Threads /\ pc[spawned + 1] = "idle"
          BY <3>2, ThreadsAssumption
             DEF Spawn, LastSpawn, Threads, BaseInv, TypeOK, PhaseInv
        <4> QED
          BY <3>2, <4>1 DEF Spawn, At, BaseInv, TypeOK
      <3>3. CASE ~StartMain /\ ~Spawn
        BY <1>2, <3>3 DEF Main, Join, EndLoad, PrepareRuns, EndRun, Finish, clientVars, At
      <3> QED
        BY <3>1, <3>2, <3>3
    <2> QED
      BY <2>1, <2>2 DEF StageInv, StageOutputOnce
  <1> QED
    BY <1>1, <1>2

\* The thread that brings processed_ops to a multiple of the period goes to the
\* stage output, and no other.
LEMMA StageClient == ASSUME BaseInv, StageInv, NEW t \in Threads, Client(t) PROVE StageInv'
  <1> DEFINE n == Cardinality(At({"stage"}))
  <1>0. TypeOK
    BY DEF BaseInv
  <1>1. CASE ReturnOp(t)
    <2> DEFINE atStage == idx[t] # 0 /\ idx[t] % StageOps = 0
    <2>1. CASE atStage
      <3>1. /\ (processed_ops + StageOps) % StageOps = 0
            /\ (processed_ops + StageOps) \div StageTotal
                 = processed_ops \div StageTotal
                     + (IF (processed_ops + StageOps) % StageTotal = 0 THEN 1 ELSE 0)
        BY <1>0, StageAssumption, StageArithmetic DEF StageInv, TypeOK
      <3>2. /\ processed_ops' = processed_ops + StageOps /\ stages' = stages
            /\ pc[t] = "returnOp"
        BY <1>1, <2>1 DEF ReturnOp
      <3>3. CASE (processed_ops + StageOps) % StageTotal = 0
        <4>1. GoTo(t, "stage")
          BY <1>1, <2>1, <3>3 DEF ReturnOp, ProcessedTotal
        <4>2. n \in Nat /\ n' = n + 1
          BY <1>0, <3>2, <4>1, AtMoves
        <4> HIDE DEF n
        <4>3. stages' + n' = processed_ops' \div StageTotal
          BY <1>0, <3>1, <3>2, <3>3, <4>2 DEF StageInv, StageOutputOnce, TypeOK, n
        <4> QED
          BY <3>1, <3>2, <4>3 DEF StageInv, StageOutputOnce, n
      <3>4. CASE (processed_ops + StageOps) % StageTotal # 0
        <4>1. GoTo(t, "loop")
          BY <1>1, <3>4 DEF ReturnOp, ProcessedTotal
        <4>2. n \in Nat /\ n' = n
          BY <1>0, <3>2, <4>1, AtMoves
        <4> HIDE DEF n
        <4>3. stages' + n' = processed_ops' \div StageTotal
          BY <1>0, <3>1, <3>2, <3>4, <4>2 DEF StageInv, StageOutputOnce, TypeOK, n
        <4> QED
          BY <3>1, <3>2, <4>3 DEF StageInv, StageOutputOnce, n
      <3> QED
        BY <3>3, <3>4
    <2>2. CASE ~atStage
      <3>1. UNCHANGED <<processed_ops, stages>> /\ GoTo(t, "loop") /\ pc[t] = "returnOp"
        BY <1>1, <2>2 DEF ReturnOp
      <3>2. n' = n
        BY <1>0, <3>1, AtMoves
      <3> QED
        BY <3>1, <3>2 DEF StageInv, StageOutputOnce
    <2> QED
      BY <2>1, <2>2
  <1>2. CASE StageOutput(t)
    <2>1. /\ processed_ops' = processed_ops /\ stages' = stages + 1
          /\ GoTo(t, "loop") /\ pc[t] = "stage"
      BY <1>2 DEF StageOutput
    <2>2. n \in Nat /\ n' = n - 1
      BY <1>0, <2>1, AtMoves
    <2> HIDE DEF n
    <2>3. stages' + n' = stages + n
      BY <1>0, <2>1, <2>2 DEF TypeOK
    <2> QED
      BY <2>1, <2>3 DEF StageInv, StageOutputOnce, n
  <1>3. CASE ~ReturnOp(t) /\ ~StageOutput(t)
    <2>1. UNCHANGED <<processed_ops, stages>>
      BY <1>3 DEF Client, Begin, DrawLoadKey, SkipTransaction, ChooseTransaction, CallDb,
                  Account, CountOp, AddSample, SampleRead, CountZeroRead, SampleZeroRead,
                  CountRead, SampleInsert, CountInsert, CountAll, CountThread,
                  SampleThread, Return
    <2>2. At({"stage"})' = At({"stage"})
      <3>1. pc[t] # "stage" /\ pc'[t] # "stage"
        BY <1>0, <1>3
           DEF Client, Begin, DrawLoadKey, SkipTransaction, ChooseTransaction, CallDb,
               Account, CountOp, AddSample, SampleRead, CountZeroRead, SampleZeroRead,
               CountRead, SampleInsert, CountInsert, CountAll, CountThread,
               SampleThread, Return, GoTo, TypeOK
      <3> QED
        BY <1>0, <3>1, ClientFrame DEF At
    <2> QED
      BY <2>1, <2>2 DEF StageInv, StageOutputOnce
  <1> QED
    BY <1>1, <1>2, <1>3

\* Each multiple of StageTotal that processed_ops reaches is reported by exactly
\* one thread, whichever threads add to it at the same time.
THEOREM StagesAreReportedOnce == Spec => []StageOutputOnce
  <1>1. Init => StageInv
    <2> SUFFICES ASSUME Init PROVE StageInv
      OBVIOUS
    <2> DEFINE S == At({"stage"})
    <2>1. S = {}
      BY DEF Init, At
    <2>2. 0 \div StageTotal = 0 /\ 0 % StageOps = 0
      BY StageAssumption
    <2>3. Cardinality(S) = 0
      BY <2>1, FS_EmptySet
    <2> HIDE DEF S
    <2>4. stages + Cardinality(S) = processed_ops \div StageTotal /\ processed_ops % StageOps = 0
      BY <2>2, <2>3 DEF Init
    <2> QED
      BY <2>4 DEF StageInv, StageOutputOnce, S
  <1>2. BaseInv /\ StageInv /\ [Next]_vars => StageInv'
    <2> SUFFICES ASSUME BaseInv, StageInv, [Next]_vars PROVE StageInv'
      OBVIOUS
    <2>1. CASE UNCHANGED vars
      BY <2>1 DEF StageInv, StageOutputOnce, At, vars
    <2> QED
      BY <2>1, StageMain, StageClient DEF Next, Terminated
  <1> QED
    BY <1>1, <1>2, BaseCorrect, PTL DEF Spec, StageInv

-----------------------------------------------------------------------------
(***************************************************************************)
(* What a client step does, by the place where it starts.                  *)
(***************************************************************************)

\* A run is in progress: its threads exist and its counters belong to it.
InRun == ~loading /\ mpc \in {"spawn", "join"}

\* The load phase is in progress, or has just ended.
InLoad == loading /\ (mpc \in {"spawn", "join"} \/ (mpc = "loaded" /\ initCount = 1))

ThreadSlots == {s \in Slots : s >= THREAD0}

\* Where a thread is inside an executed iteration.
Inner == {"db", "durRead", "opsZero", "durZero", "opsRead", "durInsert", "opsInsert",
          "opsAll", "opsThread", "durThread", "returnOp", "stage"}

\* The places a thread passes with its locals unchanged.
Counting == {"durRead", "opsZero", "durZero", "opsRead", "durInsert", "opsInsert", "opsAll",
             "opsThread", "durThread"}

\* The place and the locals of the thread that moves.
ThreadEffect(t) ==
    /\ pc[t] = "begin" => pc'[t] = "loop" /\ idx'[t] = 0 /\ oks'[t] = 0 /\ tid'[t] = thread_id
    /\ pc[t] # "begin" => tid'[t] = tid[t]
    /\ pc[t] = "loop" =>
          /\ oks'[t] = oks[t]
          /\ \/ idx[t] < NumOps /\ ~RealDo(idx[t]) /\ pc'[t] = "loop" /\ idx'[t] = idx[t] + 1
             \/ idx[t] < NumOps /\ RealDo(idx[t]) /\ pc'[t] = "db" /\ idx'[t] = idx[t]
             \/ idx[t] >= NumOps /\ pc'[t] = "returned" /\ idx'[t] = idx[t]
    /\ pc[t] = "db" =>
          /\ oks'[t] = oks[t] /\ idx'[t] = idx[t]
          /\ status'[t] = DbStatus(op[t], key[t])
          /\ pc'[t] = IF loading THEN "returnOp"
                      ELSE IF op[t] = READ THEN "durRead"
                      ELSE IF op[t] \in {UPDATE, INSERT} THEN "durInsert" ELSE "opsAll"
    /\ pc[t] # "db" => status'[t] = status[t]
    /\ pc[t] \in Counting => oks'[t] = oks[t] /\ idx'[t] = idx[t]
    /\ pc[t] = "durRead" =>
          pc'[t] = IF WithLatency /\ status[t] = kErrorNoData THEN "opsZero" ELSE "opsRead"
    /\ pc[t] = "opsZero" => pc'[t] = "durZero"
    /\ pc[t] = "durZero" => pc'[t] = "opsRead"
    /\ pc[t] = "opsRead" => pc'[t] = "opsAll"
    /\ pc[t] = "durInsert" => pc'[t] = "opsInsert"
    /\ pc[t] = "opsInsert" => pc'[t] = "opsAll"
    /\ pc[t] = "opsAll" => pc'[t] = "opsThread"
    /\ pc[t] = "opsThread" => pc'[t] = "durThread"
    /\ pc[t] = "durThread" => pc'[t] = "returnOp"
    /\ pc[t] = "returnOp" =>
          /\ oks'[t] = oks[t] + (IF status[t] = kOK THEN 1 ELSE 0)
          /\ \/ pc'[t] = "stage" /\ idx'[t] = idx[t]
             \/ pc'[t] = "loop" /\ idx'[t] = idx[t] + 1
    /\ pc[t] = "stage" => pc'[t] = "loop" /\ idx'[t] = idx[t] + 1 /\ oks'[t] = oks[t]

\* The counters it adds to.
CounterEffect(t) ==
    /\ ops'[READ] = ops[READ] + (IF pc[t] = "opsRead" THEN 1 ELSE 0)
    /\ ops'[INSERT] = ops[INSERT] + (IF pc[t] = "opsInsert" THEN 1 ELSE 0)
    /\ ops'[ZEROREAD] = ops[ZEROREAD] + (IF pc[t] = "opsZero" THEN 1 ELSE 0)
    /\ ops'[ALL] = ops[ALL] + (IF pc[t] = "opsAll" THEN 1 ELSE 0)
    /\ \A s \in ThreadSlots :
          ops'[s] = ops[s] + (IF pc[t] = "opsThread" /\ s = THREAD0 + tid[t] THEN 1 ELSE 0)
    /\ durations'[READ] = durations[READ] + (IF pc[t] = "durRead" THEN 1 ELSE 0)
    /\ durations'[INSERT] = durations[INSERT] + (IF pc[t] = "durInsert" THEN 1 ELSE 0)
    /\ durations'[ZEROREAD] = durations[ZEROREAD] + (IF pc[t] = "durZero" THEN 1 ELSE 0)
    /\ pc[t] \notin Counting => UNCHANGED <<ops, durations>>

\* The locals of the other threads.
OthersKept(t) ==
    \A u \in Threads \ {t} :
        /\ pc'[u] = pc[u] /\ tid'[u] = tid[u] /\ idx'[u] = idx[u] /\ oks'[u] = oks[u]
        /\ op'[u] = op[u] /\ status'[u] = status[u] /\ key'[u] = key[u]

\* The first slots of ops[] and durations[] are inside them.
LEMMA SharedSlots ==
  /\ {READ, INSERT, ZEROREAD, ALL} \subseteq Slots
  /\ IsFiniteSet(ThreadSlots)
  /\ \A s \in ThreadSlots : s \in Slots /\ s \notin {READ, INSERT, ZEROREAD, ALL}
  <1>1. IsFiniteSet(Slots)
    BY OpsLenAssumption, FS_Interval DEF Slots
  <1>2. IsFiniteSet(ThreadSlots)
    BY <1>1, FS_Subset DEF ThreadSlots
  <1>3. {READ, INSERT, ZEROREAD, ALL} \subseteq Slots
    BY OpsLenAssumption, ThreadsAssumption
       DEF Slots, READ, INSERT, ZEROREAD, ALL, THREAD0
  <1> QED
    BY <1>2, <1>3 DEF ThreadSlots, Slots, READ, INSERT, ZEROREAD, ALL, THREAD0

\* An addition to ops[] adds one in its slot.
LEMMA CountOpEffect ==
  ASSUME TypeOK, NEW t \in Threads, NEW at, NEW slot \in Slots, NEW to, CountOp(t, at, slot, to)
  PROVE  /\ pc[t] = at /\ pc'[t] = to
         /\ ops'[slot] = ops[slot] + 1
         /\ \A s \in Slots \ {slot} : ops'[s] = ops[s]
         /\ UNCHANGED <<mainVars, durations, thread_id, records, key_generator,
                        tid, idx, oks, op, key, status>>
         /\ GoTo(t, pc'[t])
  <1>1. pc[t] = at /\ pc'[t] = to /\ pc' = [pc EXCEPT ![t] = to]
    BY DEF TypeOK, CountOp, GoTo
  <1>2. ops \in [Slots -> Nat] /\ ops' = [ops EXCEPT ![slot] = @ + 1]
    BY DEF TypeOK, CountOp
  <1>3. ops'[slot] = ops[slot] + 1 /\ \A s \in Slots \ {slot} : ops'[s] = ops[s]
    BY <1>2, Zenon
  <1> QED
    BY <1>1, <1>3 DEF CountOp, GoTo

\* The same for durations[].
LEMMA AddSampleEffect ==
  ASSUME TypeOK, NEW t \in Threads, NEW at, NEW slot \in Slots, NEW to, AddSample(t, at, slot, to)
  PROVE  /\ pc[t] = at /\ pc'[t] = to
         /\ durations'[slot] = durations[slot] + 1
         /\ \A s \in Slots \ {slot} : durations'[s] = durations[s]
         /\ UNCHANGED <<mainVars, ops, thread_id, records, key_generator,
                        tid, idx, oks, op, key, status>>
         /\ GoTo(t, pc'[t])
  <1>1. pc[t] = at /\ pc'[t] = to /\ pc' = [pc EXCEPT ![t] = to]
    BY DEF TypeOK, AddSample, GoTo
  <1>2. durations \in [Slots -> Nat] /\ durations' = [durations EXCEPT ![slot] = @ + 1]
    BY DEF TypeOK, AddSample
  <1>3. /\ durations'[slot] = durations[slot] + 1
        /\ \A s \in Slots \ {slot} : durations'[s] = durations[s]
    BY <1>2, Zenon
  <1> QED
    BY <1>1, <1>3 DEF AddSample, GoTo

\* Every client step has these effects.
LEMMA ClientEffect ==
  ASSUME TypeOK, SlotOwnership, NEW t \in Threads, Client(t)
  PROVE  /\ UNCHANGED mainVars
         /\ GoTo(t, pc'[t])
         /\ OthersKept(t)
         /\ ThreadEffect(t)
         /\ CounterEffect(t)
         /\ pc[t] \notin {"idle", "returned"}
  <1> DEFINE Effects == /\ UNCHANGED mainVars /\ GoTo(t, pc'[t]) /\ OthersKept(t)
                        /\ ThreadEffect(t) /\ CounterEffect(t) /\ pc[t] \notin {"idle", "returned"}
  <1>0. /\ \A s \in Slots : ops[s] \in Nat /\ durations[s] \in Nat
        /\ {READ, INSERT, ZEROREAD, ALL} \subseteq Slots
        /\ \A s \in ThreadSlots : s \in Slots /\ s \notin {READ, INSERT, ZEROREAD, ALL}
    BY SharedSlots DEF TypeOK
  <1>1. ASSUME UNCHANGED <<ops, durations>>, pc[t] \notin Counting PROVE CounterEffect(t)
    BY <1>0, <1>1 DEF CounterEffect, Counting
  <1>2. CASE Begin(t)
    <2>1. GoTo(t, pc'[t]) /\ OthersKept(t) /\ ThreadEffect(t)
      BY <1>2 DEF Begin, FetchThreadId, GoTo, TypeOK, OthersKept, ThreadEffect, Counting
    <2> QED
      BY <1>1, <1>2, <2>1 DEF Begin, Counting
  <1>3. CASE DrawLoadKey(t)
    <2>1. GoTo(t, pc'[t]) /\ OthersKept(t) /\ ThreadEffect(t)
      BY <1>3 DEF DrawLoadKey, NextSequenceKey, GoTo, TypeOK, OthersKept, ThreadEffect, Counting
    <2> QED
      BY <1>1, <1>3, <2>1 DEF DrawLoadKey, Counting
  <1>4. CASE SkipTransaction(t)
    <2>1. GoTo(t, pc'[t]) /\ OthersKept(t) /\ ThreadEffect(t)
      BY <1>4 DEF SkipTransaction, NextSequenceKey, GoTo, TypeOK, OthersKept, ThreadEffect,
                  Counting
    <2> QED
      BY <1>1, <1>4, <2>1 DEF SkipTransaction, Counting
  <1>5. CASE ChooseTransaction(t)
    <2>1. GoTo(t, pc'[t]) /\ OthersKept(t) /\ ThreadEffect(t)
      BY <1>5 DEF ChooseTransaction, NextSequenceKey, GoTo, TypeOK, OthersKept, ThreadEffect,
                  Counting
    <2> QED
      BY <1>1, <1>5, <2>1 DEF ChooseTransaction, Counting
  <1>6. CASE CallDb(t)
    <2>0. pc[t] = "db" /\ \E to : GoTo(t, to)
      BY <1>6, Zenon DEF CallDb
    <2>1. GoTo(t, pc'[t])
      BY <2>0 DEF GoTo, TypeOK
    <2>2. OthersKept(t)
      BY <1>6, <2>1 DEF CallDb, TypeOK, OthersKept, GoTo
    <2>3. pc'[t] = IF loading THEN "returnOp"
                   ELSE IF op[t] = READ THEN "durRead"
                   ELSE IF op[t] \in {UPDATE, INSERT} THEN "durInsert" ELSE "opsAll"
      BY <1>6 DEF CallDb, GoTo, TypeOK, INSERT, READ, UPDATE, SCAN, READMODIFYWRITE
    <2>4. /\ status'[t] = DbStatus(op[t], key[t])
          /\ UNCHANGED <<oks, idx, tid>>
      BY <1>6 DEF CallDb, TypeOK
    <2>5. ThreadEffect(t)
      BY <2>0, <2>3, <2>4 DEF ThreadEffect, Counting
    <2> QED
      BY <1>1, <1>6, <2>0, <2>1, <2>2, <2>5 DEF CallDb, Counting
  <1>7. CASE Account(t)
    <2>1. ASSUME UNCHANGED <<mainVars, tid, idx, oks, op, key, status>>, GoTo(t, pc'[t])
          PROVE  OthersKept(t)
      BY <2>1 DEF OthersKept, GoTo, TypeOK
    <2>2. CASE SampleRead(t)
      <3>1. PICK to : to = (IF WithLatency /\ status[t] = kErrorNoData THEN "opsZero" ELSE "opsRead")
        OBVIOUS
      <3>2. AddSample(t, "durRead", READ, to)
        BY <2>2, <3>1 DEF SampleRead
      <3>3. /\ pc[t] = "durRead" /\ pc'[t] = to
            /\ durations'[READ] = durations[READ] + 1
            /\ \A s \in Slots \ {READ} : durations'[s] = durations[s]
            /\ UNCHANGED <<mainVars, ops, tid, idx, oks, op, key, status>>
            /\ GoTo(t, pc'[t])
        BY <1>0, <3>2, AddSampleEffect
      <3>4. ThreadEffect(t)
        BY <3>1, <3>3 DEF ThreadEffect, Counting
      <3>5. CounterEffect(t)
        BY <1>0, <3>3 DEF CounterEffect, Counting, READ, INSERT, ZEROREAD
      <3> QED
        BY <2>1, <3>3, <3>4, <3>5
    <2>3. CASE CountZeroRead(t)
      <3>1. /\ pc[t] = "opsZero" /\ pc'[t] = "durZero"
            /\ ops'[ZEROREAD] = ops[ZEROREAD] + 1
            /\ \A s \in Slots \ {ZEROREAD} : ops'[s] = ops[s]
            /\ UNCHANGED <<mainVars, durations, tid, idx, oks, op, key, status>>
            /\ GoTo(t, pc'[t])
        BY <1>0, <2>3, CountOpEffect DEF CountZeroRead
      <3>2. ThreadEffect(t)
        BY <3>1 DEF ThreadEffect, Counting
      <3>3. CounterEffect(t)
        BY <1>0, <3>1 DEF CounterEffect, Counting, READ, INSERT, ZEROREAD, ALL
      <3> QED
        BY <2>1, <3>1, <3>2, <3>3
    <2>4. CASE SampleZeroRead(t)
      <3>1. /\ pc[t] = "durZero" /\ pc'[t] = "opsRead"
            /\ durations'[ZEROREAD] = durations[ZEROREAD] + 1
            /\ \A s \in Slots \ {ZEROREAD} : durations'[s] = durations[s]
            /\ UNCHANGED <<mainVars, ops, tid, idx, oks, op, key, status>>
            /\ GoTo(t, pc'[t])
        BY <1>0, <2>4, AddSampleEffect DEF SampleZeroRead
      <3>2. ThreadEffect(t)
        BY <3>1 DEF ThreadEffect, Counting
      <3>3. CounterEffect(t)
        BY <1>0, <3>1 DEF CounterEffect, Counting, READ, INSERT, ZEROREAD
      <3> QED
        BY <2>1, <3>1, <3>2, <3>3
    <2>5. CASE CountRead(t)
      <3>1. /\ pc[t] = "opsRead" /\ pc'[t] = "opsAll"
            /\ ops'[READ] = ops[READ] + 1
            /\ \A s \in Slots \ {READ} : ops'[s] = ops[s]
            /\ UNCHANGED <<mainVars, durations, tid, idx, oks, op, key, status>>
            /\ GoTo(t, pc'[t])
        BY <1>0, <2>5, CountOpEffect DEF CountRead
      <3>2. ThreadEffect(t)
        BY <3>1 DEF ThreadEffect, Counting
      <3>3. CounterEffect(t)
        BY <1>0, <3>1 DEF CounterEffect, Counting, READ, INSERT, ZEROREAD, ALL
      <3> QED
        BY <2>1, <3>1, <3>2, <3>3
    <2>6. CASE SampleInsert(t)
      <3>1. /\ pc[t] = "durInsert" /\ pc'[t] = "opsInsert"
            /\ durations'[INSERT] = durations[INSERT] + 1
            /\ \A s \in Slots \ {INSERT} : durations'[s] = durations[s]
            /\ UNCHANGED <<mainVars, ops, tid, idx, oks, op, key, status>>
            /\ GoTo(t, pc'[t])
        BY <1>0, <2>6, AddSampleEffect DEF SampleInsert
      <3>2. ThreadEffect(t)
        BY <3>1 DEF ThreadEffect, Counting
      <3>3. CounterEffect(t)
        BY <1>0, <3>1 DEF CounterEffect, Counting, READ, INSERT, ZEROREAD
      <3> QED
        BY <2>1, <3>1, <3>2, <3>3
    <2>7. CASE CountInsert(t)
      <3>1. /\ pc[t] = "opsInsert" /\ pc'[t] = "opsAll"
            /\ ops'[INSERT] = ops[INSERT] + 1
            /\ \A s \in Slots \ {INSERT} : ops'[s] = ops[s]
            /\ UNCHANGED <<mainVars, durations, tid, idx, oks, op, key, status>>
            /\ GoTo(t, pc'[t])
        BY <1>0, <2>7, CountOpEffect DEF CountInsert
      <3>2. ThreadEffect(t)
        BY <3>1 DEF ThreadEffect, Counting
      <3>3. CounterEffect(t)
        BY <1>0, <3>1 DEF CounterEffect, Counting, READ, INSERT, ZEROREAD, ALL
      <3> QED
        BY <2>1, <3>1, <3>2, <3>3
    <2>8. CASE CountAll(t)
      <3>1. /\ pc[t] = "opsAll" /\ pc'[t] = "opsThread"
            /\ ops'[ALL] = ops[ALL] + 1
            /\ \A s \in Slots \ {ALL} : ops'[s] = ops[s]
            /\ UNCHANGED <<mainVars, durations, tid, idx, oks, op, key, status>>
            /\ GoTo(t, pc'[t])
        <4>1. CountOp(t, "opsAll", ALL, "opsThread") /\ ALL \in Slots
          BY <1>0, <2>8 DEF CountAll
        <4>2. UNCHANGED <<mainVars, durations, tid, idx, oks, op, key, status>>
          BY <4>1 DEF CountOp
        <4> QED
          BY <4>1, <4>2, CountOpEffect
      <3>2. ThreadEffect(t)
        BY <3>1 DEF ThreadEffect, Counting
      <3>3. CounterEffect(t)
        BY <1>0, <3>1 DEF CounterEffect, Counting, READ, INSERT, ZEROREAD, ALL
      <3> QED
        BY <2>1, <3>1, <3>2, <3>3
    <2>9. CASE CountThread(t)
      <3>0. THREAD0 + tid[t] \in Slots /\ THREAD0 + tid[t] \in ThreadSlots
        <4>1. pc[t] = "opsThread"
          BY <2>9 DEF CountThread, CountOp
        <4>2. tid[t] \in Nat /\ THREAD0 + tid[t] \in Slots
          BY <4>1 DEF SlotOwnership, Begun, TypeOK
        <4> QED
          BY <4>2 DEF ThreadSlots, THREAD0
      <3>1. /\ pc[t] = "opsThread" /\ pc'[t] = "durThread"
            /\ ops'[THREAD0 + tid[t]] = ops[THREAD0 + tid[t]] + 1
            /\ \A s \in Slots \ {THREAD0 + tid[t]} : ops'[s] = ops[s]
            /\ UNCHANGED <<mainVars, durations, tid, idx, oks, op, key, status>>
            /\ GoTo(t, pc'[t])
        BY <2>9, <3>0, CountOpEffect DEF CountThread
      <3>2. ThreadEffect(t)
        BY <3>1 DEF ThreadEffect, Counting
      <3>3. \A s \in {READ, INSERT, ZEROREAD, ALL} : ops'[s] = ops[s]
        BY <1>0, <3>0, <3>1
      <3>4. CounterEffect(t)
        BY <1>0, <3>1, <3>3 DEF CounterEffect, Counting
      <3> QED
        BY <2>1, <3>1, <3>2, <3>4
    <2>10. CASE SampleThread(t)
      <3>0. THREAD0 + tid[t] \in Slots /\ THREAD0 + tid[t] \in ThreadSlots
        <4>1. pc[t] = "durThread"
          BY <2>10 DEF SampleThread, AddSample
        <4>2. tid[t] \in Nat /\ THREAD0 + tid[t] \in Slots
          BY <4>1 DEF SlotOwnership, Begun, TypeOK
        <4> QED
          BY <4>2 DEF ThreadSlots, THREAD0
      <3>1. /\ pc[t] = "durThread" /\ pc'[t] = "returnOp"
            /\ durations'[THREAD0 + tid[t]] = durations[THREAD0 + tid[t]] + 1
            /\ \A s \in Slots \ {THREAD0 + tid[t]} : durations'[s] = durations[s]
            /\ UNCHANGED <<mainVars, ops, tid, idx, oks, op, key, status>>
            /\ GoTo(t, pc'[t])
        BY <2>10, <3>0, AddSampleEffect DEF SampleThread
      <3>2. ThreadEffect(t)
        BY <3>1 DEF ThreadEffect, Counting
      <3>3. \A s \in {READ, INSERT, ZEROREAD, ALL} : durations'[s] = durations[s]
        BY <1>0, <3>0, <3>1
      <3>4. CounterEffect(t)
        BY <1>0, <3>1, <3>3 DEF CounterEffect, Counting
      <3> QED
        BY <2>1, <3>1, <3>2, <3>4
    <2> QED
      BY <1>7, <2>2, <2>3, <2>4, <2>5, <2>6, <2>7, <2>8, <2>9, <2>10 DEF Account
  <1>8. CASE ReturnOp(t)
    <2>1. GoTo(t, pc'[t]) /\ OthersKept(t) /\ ThreadEffect(t)
      BY <1>8 DEF ReturnOp, GoTo, TypeOK, OthersKept, ThreadEffect, Counting
    <2> QED
      BY <1>1, <1>8, <2>1 DEF ReturnOp, Counting
  <1>9. CASE StageOutput(t)
    <2>1. GoTo(t, pc'[t]) /\ OthersKept(t) /\ ThreadEffect(t)
      BY <1>9 DEF StageOutput, GoTo, TypeOK, OthersKept, ThreadEffect, Counting
    <2> QED
      BY <1>1, <1>9, <2>1 DEF StageOutput, Counting
  <1>10. CASE Return(t)
    <2>1. GoTo(t, pc'[t]) /\ OthersKept(t) /\ ThreadEffect(t)
      BY <1>10 DEF Return, GoTo, TypeOK, OthersKept, ThreadEffect, Counting
    <2> QED
      BY <1>1, <1>10, <2>1 DEF Return, Counting
  <1> QED
    BY <1>2, <1>3, <1>4, <1>5, <1>6, <1>7, <1>8, <1>9, <1>10 DEF Client

-----------------------------------------------------------------------------
(***************************************************************************)
(* Iterations, and the counter of each thread.                             *)
(***************************************************************************)

\* Before the first run nothing has been counted; and in a run, nothing in the
\* slot of a thread that has not begun.
ZeroInv ==
    /\ mpc = "start" => /\ initCount = 0 /\ records = PreLoaded
                        /\ \A t \in Threads : pc[t] = "idle"
    /\ mpc \in {"start", "loaded"} => loading
    /\ loading \/ (mpc = "runs" /\ runs = 0) =>
          \A s \in Slots : ops[s] = 0 /\ durations[s] = 0
    /\ InRun => \A s \in ThreadSlots :
                   (\A t \in BegunThreads : s # THREAD0 + tid[t]) => ops[s] = 0

\* How far each thread of the phase is.
IterationInv ==
    InRun \/ InLoad => \A t \in BegunThreads :
        /\ idx[t] <= NumOps
        /\ pc[t] \in Inner => idx[t] < NumOps /\ RealDo(idx[t])
        /\ pc[t] = "returned" => idx[t] >= NumOps

\* What a thread does inside an iteration.
OperationInv ==
    \A t \in Threads :
        /\ pc[t] = "db" => op[t] \in IF loading THEN {INSERT} ELSE Operations \cup {READ, INSERT}
        /\ pc[t] \in {"durInsert", "opsInsert"} => status[t] # kErrorNoData
        /\ pc[t] \in {"opsZero", "durZero"} => status[t] = kErrorNoData
        /\ Upsert => status[t] # kErrorConflict
        /\ loading => pc[t] \in {"idle", "begin", "loop", "db", "returnOp", "stage", "returned"}

FlowInv == IdInv /\ ZeroInv /\ IterationInv /\ OperationInv /\ ThreadCount

\* Within a phase the number of iterations and which are executed are fixed.
LEMMA PhaseFrame ==
  ASSUME UNCHANGED phase
  PROVE  /\ loading' = loading
         /\ NumOps' = NumOps
         /\ \A i : RealDo(i)' = RealDo(i)
         /\ \A i : Executed(i)' = Executed(i)
  BY DEF loading, NumOps, RealDo, Executed

\* Executed counts the iterations that RealDo selects.
LEMMA ExecutedSteps ==
  /\ NumOps \in Nat
  /\ Executed(0) = 0
  /\ \A i \in Nat : /\ Executed(i) \in Nat
                    /\ Executed(i + 1) = Executed(i) + (IF RealDo(i) THEN 1 ELSE 0)
  <1>1. NumOps \in Nat
    BY CountsAssumption, ThreadsAssumption DEF NumOps
  <1> DEFINE d == IF loading THEN SkipRatioInLoad ELSE SkipRatioForRun
  <1>2. d \in Nat
    BY CountsAssumption
  <1>3. /\ \A i : Executed(i) = IF d = 0 THEN i ELSE (i + d - 1) \div d
        /\ \A i : RealDo(i) <=> (d = 0 \/ i % d = 0)
    BY DEF Executed, RealDo
  <1> HIDE DEF d
  <1>4. CASE d = 0
    BY <1>1, <1>3, <1>4
  <1>5. CASE d # 0
    <2>1. \A i \in Nat : /\ (d - 1) \div d = 0
                         /\ (i + d - 1) \div d \in Nat
                         /\ (i + 1 + d - 1) \div d
                              = (i + d - 1) \div d + (IF i % d = 0 THEN 1 ELSE 0)
      BY <1>2, <1>5, SkipArithmetic
    <2>2. 0 + d - 1 = d - 1
      BY <1>2
    <2> QED
      BY <1>1, <1>3, <1>5, <2>1, <2>2
  <1> QED
    BY <1>4, <1>5

\* A thread that main() starts has not begun.
LEMMA SpawnFrame ==
  ASSUME BaseInv, Spawn
  PROVE  /\ spawned + 1 \in Threads /\ pc[spawned + 1] = "idle"
         /\ pc'[spawned + 1] = "begin"
         /\ \A t \in Threads \ {spawned + 1} : pc'[t] = pc[t]
         /\ \A t \in Threads : Begun(t)' <=> Begun(t)
         /\ BegunThreads' = BegunThreads
         /\ \A P \in SUBSET (Inner \cup {"loop", "returned"}) : At(P)' = At(P)
  <1>1. spawned + 1 \in Threads /\ pc[spawned + 1] = "idle"
    BY ThreadsAssumption DEF Spawn, LastSpawn, Threads, BaseInv, TypeOK, PhaseInv
  <1>2. pc'[spawned + 1] = "begin" /\ \A t \in Threads \ {spawned + 1} : pc'[t] = pc[t]
    BY <1>1 DEF Spawn, BaseInv, TypeOK
  <1>3. \A t \in Threads : Begun(t)' <=> Begun(t)
    BY <1>1, <1>2 DEF Begun
  <1>4. BegunThreads' = BegunThreads
    BY <1>3 DEF BegunThreads
  <1>5. \A P \in SUBSET (Inner \cup {"loop", "returned"}) : At(P)' = At(P)
    BY <1>1, <1>2 DEF At, Inner
  <1> QED
    BY <1>1, <1>2, <1>3, <1>4, <1>5

\* The phases main() goes through.
LEMMA MainFrame ==
  ASSUME BaseInv, ZeroInv, Main
  PROVE  /\ InRun' => \/ Spawn /\ InRun
                      \/ Join /\ InRun
                      \/ BeginRun
         /\ InLoad' => \/ Spawn /\ InLoad
                       \/ Join /\ InLoad
                       \/ EndLoad /\ InLoad
                       \/ StartMain /\ mpc' = "spawn"
         /\ BeginRun \/ (StartMain /\ mpc' = "spawn") =>
               /\ \A t \in Threads : ~Running(t) /\ pc'[t] = "idle"
               /\ spawned' = 0 /\ joined' = 0 /\ sum' = 0
               /\ BegunThreads' = {}
  <1>1. CASE StartMain
    <2>1. phase = "load" /\ phase' = "load" /\ initCount = 0
      BY <1>1 DEF StartMain, ZeroInv, loading
    <2>2. ~BeginRun /\ ~InRun'
      BY <1>1, <2>1 DEF StartMain, BeginRun, InRun, loading
    <2>3. CASE mpc' = "loaded"
      BY <1>1, <2>1, <2>2, <2>3 DEF StartMain, InLoad
    <2>4. CASE mpc' = "spawn"
      <3>1. \A t \in Threads : ~Running(t) /\ pc'[t] = "idle"
        BY <1>1, <2>4 DEF StartMain, ClearFutures, BaseInv, PhaseInv
      <3>2. BegunThreads' = {}
        BY <3>1 DEF BegunThreads, Begun
      <3> QED
        BY <1>1, <2>2, <2>4, <3>1, <3>2 DEF StartMain, ClearFutures
    <2> QED
      BY <1>1, <2>3, <2>4 DEF StartMain
  <1>2. CASE Spawn
    BY <1>2 DEF Spawn, InRun, InLoad, loading, BeginRun, StartMain
  <1>3. CASE Join
    BY <1>3 DEF Join, InRun, InLoad, loading, BeginRun, StartMain
  <1>4. CASE EndLoad
    BY <1>4 DEF EndLoad, InRun, InLoad, loading, BeginRun, StartMain
  <1>5. CASE PrepareRuns
    BY <1>5 DEF PrepareRuns, InRun, InLoad, loading, BeginRun, StartMain
  <1>6. CASE BeginRun
    BY <1>6 DEF BeginRun, InRun, InLoad, loading, BaseInv, PhaseInv, ClearFutures,
                BegunThreads, Begun, StartMain
  <1>7. CASE EndRun
    BY <1>7 DEF EndRun, InRun, InLoad, loading, BeginRun, StartMain
  <1>8. CASE Finish
    BY <1>8 DEF Finish, InRun, InLoad, loading, BeginRun, StartMain
  <1> QED
    BY <1>1, <1>2, <1>3, <1>4, <1>5, <1>6, <1>7, <1>8 DEF Main

\* The start state satisfies the invariant of the threads' iterations.
LEMMA FlowInit == Init => FlowInv
  <1> SUFFICES ASSUME Init PROVE FlowInv
    OBVIOUS
  <1>1. IdInv
    BY IdInit
  <1>2. ZeroInv /\ IterationInv /\ OperationInv /\ ThreadCount
    BY DEF Init, ZeroInv, InRun, loading, IterationInv, InLoad, OperationInv, ThreadCount,
           kOK, kErrorConflict
  <1> QED
    BY <1>1, <1>2 DEF FlowInv

\* A step of main() preserves it.
LEMMA FlowMain == ASSUME FlowInv, Main PROVE FlowInv'
  <1>0. BaseInv /\ BaseInv' /\ TypeOK /\ TypeOK' /\ PhaseInv /\ IdInv'
    BY BaseMain, IdMain DEF FlowInv, IdInv, BaseInv
  <1>1. ZeroInv /\ IterationInv /\ OperationInv /\ ThreadCount /\ IdCount
    BY DEF FlowInv, IdInv
  <1>2. ZeroInv'
    <2>1. mpc' # "start"
      BY DEF Main, StartMain, Spawn, LastSpawn, Join, EndLoad, PrepareRuns, BeginRun, EndRun,
             Finish
    <2>0. mpc' = "loaded" => loading'
      BY <1>1 DEF Main, StartMain, Spawn, LastSpawn, Join, EndLoad, PrepareRuns, BeginRun, EndRun,
                  Finish, ZeroInv, loading
    <2>2. loading' \/ (mpc' = "runs" /\ runs' = 0) =>
             \A s \in Slots : ops'[s] = 0 /\ durations'[s] = 0
      <3>1. CASE StartMain \/ Spawn \/ Join \/ EndLoad
        BY <1>1, <3>1 DEF StartMain, Spawn, LastSpawn, Join, EndLoad, ZeroInv, loading
      <3>2. CASE PrepareRuns
        BY <1>1, <3>2 DEF PrepareRuns, ZeroInv
      <3>3. CASE BeginRun \/ EndRun \/ Finish
        BY <1>0, <3>3 DEF BeginRun, EndRun, Finish, loading, TypeOK, PhaseInv
      <3> QED
        BY <3>1, <3>2, <3>3 DEF Main
    <2>3. ASSUME InRun' PROVE \A s \in ThreadSlots :
                   (\A t \in BegunThreads' : s # THREAD0 + tid'[t]) => ops'[s] = 0
      <3>1. CASE Spawn /\ InRun
        <4>1. BegunThreads' = BegunThreads /\ UNCHANGED <<tid, ops>>
          BY <1>0, <3>1, SpawnFrame DEF Spawn
        <4> QED
          BY <1>1, <3>1, <4>1 DEF ZeroInv
      <3>2. CASE Join /\ InRun
        <4>1. BegunThreads' = BegunThreads /\ UNCHANGED <<tid, ops>>
          BY <3>2 DEF Join, clientVars, BegunThreads, Begun
        <4> QED
          BY <1>1, <3>2, <4>1 DEF ZeroInv
      <3>3. CASE BeginRun
        <4>1. CASE runs = 0
          <5>1. \A s \in Slots : ops'[s] = 0
            BY <1>1, <3>3, <4>1 DEF BeginRun, ZeroInv
          <5> QED
            BY <5>1 DEF ThreadSlots
        <4>2. CASE runs # 0
          BY <3>3, <4>2 DEF BeginRun, ClearCounters, ThreadSlots
        <4> QED
          BY <4>1, <4>2
      <3> QED
        BY <1>0, <1>1, <2>3, <3>1, <3>2, <3>3, MainFrame
    <2> QED
      BY <2>0, <2>1, <2>2, <2>3 DEF ZeroInv, ThreadSlots
  <1>3. IterationInv'
    <2> SUFFICES ASSUME InRun' \/ InLoad'
                 PROVE  \A t \in BegunThreads' :
                          /\ idx'[t] <= NumOps'
                          /\ pc'[t] \in Inner => idx'[t] < NumOps' /\ RealDo(idx[t])'
                          /\ pc'[t] = "returned" => idx'[t] >= NumOps'
      BY DEF IterationInv
    <2>1. CASE BegunThreads' = {}
      BY <2>1
    <2>2. CASE (Spawn \/ Join \/ EndLoad) /\ (InRun \/ InLoad)
      <3>1. UNCHANGED <<idx, phase>>
        BY <2>2 DEF Spawn, Join, EndLoad, clientVars
      <3>2. BegunThreads' = BegunThreads /\ \A t \in BegunThreads : pc'[t] = pc[t]
        <4>1. CASE Spawn
          BY <1>0, <4>1, SpawnFrame DEF BegunThreads, Begun
        <4>2. CASE Join \/ EndLoad
          BY <4>2 DEF Join, EndLoad, clientVars, BegunThreads, Begun
        <4> QED
          BY <2>2, <4>1, <4>2
      <3>3. NumOps' = NumOps /\ \A t \in Threads : RealDo(idx[t])' = RealDo(idx[t])
        BY <3>1 DEF NumOps, RealDo, loading
      <3> QED
        BY <1>1, <2>2, <3>1, <3>2, <3>3 DEF IterationInv, BegunThreads
    <2> QED
      BY <1>0, <1>1, <2>1, <2>2, MainFrame
  <1>4. OperationInv'
    <2>1. CASE Spawn
      <3>1. UNCHANGED <<op, status, phase>>
        BY <2>1 DEF Spawn
      <3> QED
        BY <1>0, <1>1, <2>1, <3>1, SpawnFrame DEF OperationInv, loading
    <2>2. CASE Join \/ EndLoad \/ EndRun \/ Finish
      BY <1>1, <2>2 DEF Join, EndLoad, EndRun, Finish, clientVars, OperationInv, loading
    <2>3. CASE StartMain \/ BeginRun \/ PrepareRuns
      <3>1. \A t \in Threads : pc'[t] \in {"idle", "returned"}
        BY <1>0, <2>3 DEF StartMain, BeginRun, PrepareRuns, ClearFutures, clientVars, PhaseInv,
                          Running
      <3>2. UNCHANGED status
        BY <2>3 DEF StartMain, BeginRun, PrepareRuns, clientVars
      <3> QED
        BY <1>1, <3>1, <3>2 DEF OperationInv
    <2> QED
      BY <2>1, <2>2, <2>3 DEF Main
  <1>5. ThreadCount'
    <2> SUFFICES ASSUME NEW t \in Threads, Begun(t)', InRun'
                 PROVE  ops'[THREAD0 + tid'[t]] =
                          Executed(idx[t])'
                            + (IF pc'[t] \in {"durThread", "returnOp", "stage"} THEN 1 ELSE 0)
      BY DEF ThreadCount, InRun
    <2>1. ~BeginRun
      BY <1>0, <1>1, MainFrame DEF BegunThreads
    <2>2. (Spawn \/ Join) /\ InRun
      BY <1>0, <1>1, <2>1, MainFrame
    <2>3. UNCHANGED <<idx, tid, ops, phase>>
      BY <2>2 DEF Spawn, Join, clientVars
    <2>4. Begun(t) /\ pc'[t] = pc[t]
      <3>1. CASE Spawn
        BY <1>0, <3>1, SpawnFrame DEF Begun
      <3>2. CASE Join
        BY <3>2 DEF Join, clientVars, Begun
      <3> QED
        BY <2>2, <3>1, <3>2
    <2>5. Executed(idx[t])' = Executed(idx[t])
      BY <2>3 DEF Executed, loading
    <2> QED
      BY <1>1, <2>2, <2>3, <2>4, <2>5 DEF ThreadCount, InRun
  <1> QED
    BY <1>0, <1>2, <1>3, <1>4, <1>5 DEF FlowInv

\* In a client step a phase is in progress.
LEMMA ClientPhase ==
  ASSUME BaseInv, NEW t \in Threads, Client(t)
  PROVE  /\ mpc \in {"spawn", "join"} /\ mpc' = mpc
         /\ UNCHANGED <<phase, runs, joined, sum, initCount>>
         /\ InRun <=> ~loading
         /\ InRun' <=> InRun
         /\ InLoad' <=> InLoad
         /\ InLoad <=> loading
  <1>1. UNCHANGED mainVars /\ Running(t)
    BY ClientFrame DEF BaseInv
  <1>2. mpc \in {"spawn", "join"}
    BY <1>1 DEF BaseInv, PhaseInv, TypeOK
  <1> QED
    BY <1>1, <1>2 DEF mainVars, InRun, InLoad, loading

\* A client step preserves the invariant of the threads' iterations.
LEMMA FlowClient == ASSUME FlowInv, NEW t \in Threads, Client(t) PROVE FlowInv'
  <1>0. BaseInv /\ BaseInv' /\ TypeOK /\ TypeOK' /\ IdInv' /\ SlotOwnership /\ SlotOwnership'
    BY BaseClient, IdClient DEF FlowInv, IdInv, BaseInv
  <1>1. ZeroInv /\ IterationInv /\ OperationInv /\ ThreadCount /\ IdCount
    BY DEF FlowInv, IdInv
  <1>2. /\ OthersKept(t) /\ ThreadEffect(t) /\ CounterEffect(t)
        /\ pc[t] \notin {"idle", "returned"}
    BY <1>0, ClientEffect
  <1>3. /\ mpc \in {"spawn", "join"} /\ mpc' = mpc
        /\ UNCHANGED <<phase, runs>>
        /\ InRun <=> ~loading
        /\ InRun' <=> InRun
        /\ InLoad' <=> InLoad
        /\ InLoad <=> loading
    BY <1>0, ClientPhase
  <1>4. /\ loading' = loading /\ NumOps' = NumOps /\ NumOps \in Nat
        /\ \A i : RealDo(i)' = RealDo(i)
        /\ \A i : Executed(i)' = Executed(i)
    BY <1>3, PhaseFrame, ExecutedSteps
  <1>5. \A u \in Threads : u # t \/ pc[t] # "begin" => (Begun(u)' <=> Begun(u))
    BY <1>0, <1>2, ClientFrame DEF Begun, OthersKept, ThreadEffect, TypeOK, PcValues, Counting
  <1>6. Begun(t)' /\ (pc[t] # "begin" => Begun(t))
    BY <1>2, <1>5 DEF Begun, ThreadEffect
  <1>7. loading => pc[t] \notin Counting
    BY <1>1 DEF OperationInv, Counting
  <1>8. OperationInv'
    <2> SUFFICES ASSUME NEW u \in Threads
                 PROVE /\ pc'[u] = "db" => op'[u] \in IF loading THEN {INSERT}
                                                      ELSE Operations \cup {READ, INSERT}
                       /\ pc'[u] \in {"durInsert", "opsInsert"} => status'[u] # kErrorNoData
                       /\ pc'[u] \in {"opsZero", "durZero"} => status'[u] = kErrorNoData
                       /\ Upsert => status'[u] # kErrorConflict
                       /\ loading => pc'[u] \in {"idle", "begin", "loop", "db", "returnOp",
                                                 "stage", "returned"}
      BY <1>4 DEF OperationInv
    <2>1. CASE u # t
      BY <1>1, <1>2, <2>1 DEF OperationInv, OthersKept
    <2>2. CASE u = t
      <3>1. pc'[t] = "db" => op'[t] \in IF loading THEN {INSERT} ELSE Operations \cup {READ, INSERT}
        <4> SUFFICES ASSUME pc'[t] = "db"
                     PROVE  op'[t] \in IF loading THEN {INSERT} ELSE Operations \cup {READ, INSERT}
          OBVIOUS
        <4>1. pc[t] = "loop" /\ RealDo(idx[t]) /\ idx[t] < NumOps
          BY <1>0, <1>2 DEF ThreadEffect, TypeOK, PcValues, Counting
        <4>2. CASE DrawLoadKey(t)
          BY <1>0, <4>1, <4>2 DEF DrawLoadKey, TypeOK
        <4>3. CASE ChooseTransaction(t)
          <5>1. PICK o \in OperationsOf(t) : op' = [op EXCEPT ![t] = o]
            BY <4>3 DEF ChooseTransaction
          <5>2. o \in Operations \cup {READ, INSERT}
            BY <5>1 DEF OperationsOf, ThreadType
          <5> QED
            BY <1>0, <4>3, <5>1, <5>2 DEF ChooseTransaction, TypeOK
        <4> QED
          BY <1>0, <4>1, <4>2, <4>3
             DEF Client, Begin, SkipTransaction, CallDb, Account, CountOp, AddSample, SampleRead,
                 CountZeroRead, SampleZeroRead, CountRead, SampleInsert, CountInsert, CountAll,
                 CountThread, SampleThread, ReturnOp, StageOutput, Return, GoTo, TypeOK
      <3>2. pc[t] = "db" => /\ status'[t] = kErrorNoData => op[t] = READ
                            /\ Upsert => status'[t] # kErrorConflict
        BY <1>2 DEF ThreadEffect, DbStatus, kOK, kErrorNoData, kErrorConflict, READ, INSERT
      <3>3. /\ pc'[t] \in {"durInsert", "opsInsert"} => status'[t] # kErrorNoData
            /\ pc'[t] \in {"opsZero", "durZero"} => status'[t] = kErrorNoData
        <4>1. CASE pc[t] = "db"
          BY <1>2, <3>2, <4>1 DEF ThreadEffect, READ, UPDATE, INSERT
        <4>2. CASE pc[t] # "db"
          BY <1>0, <1>1, <1>2, <4>2 DEF ThreadEffect, OperationInv, TypeOK, PcValues, Counting
        <4> QED
          BY <4>1, <4>2
      <3>4. Upsert => status'[t] # kErrorConflict
        BY <1>1, <1>2, <3>2 DEF ThreadEffect, OperationInv
      <3>5. loading => pc'[t] \in {"idle", "begin", "loop", "db", "returnOp", "stage", "returned"}
        BY <1>1, <1>2 DEF ThreadEffect, OperationInv
      <3> QED
        BY <2>2, <3>1, <3>3, <3>4, <3>5
    <2> QED
      BY <2>1, <2>2
  <1>9. IterationInv'
    <2> SUFFICES ASSUME InRun \/ InLoad, NEW u \in Threads, Begun(u)'
                 PROVE  /\ idx'[u] <= NumOps
                        /\ pc'[u] \in Inner => idx'[u] < NumOps /\ RealDo(idx'[u])
                        /\ pc'[u] = "returned" => idx'[u] >= NumOps
      BY <1>3, <1>4 DEF IterationInv, BegunThreads
    <2>1. CASE u # t
      BY <1>1, <1>2, <1>5, <2>1 DEF IterationInv, OthersKept, BegunThreads
    <2>2. CASE u = t /\ pc[t] \in {"begin", "loop"}
      <3>1. pc[t] = "loop" => idx[t] <= NumOps /\ idx[t] \in Nat
        BY <1>0, <1>1 DEF IterationInv, BegunThreads, Begun, TypeOK
      <3> QED
        BY <1>2, <1>4, <2>2, <3>1 DEF ThreadEffect, Inner
    <2>3. CASE u = t /\ pc[t] \notin {"begin", "loop"}
      <3>1. pc[t] \in Inner
        BY <1>0, <1>2, <2>3 DEF TypeOK, PcValues, Inner
      <3>2. idx[t] < NumOps /\ RealDo(idx[t]) /\ idx[t] \in Nat
        BY <1>0, <1>1, <2>3, <3>1 DEF IterationInv, BegunThreads, Begun, TypeOK, Inner
      <3>3. /\ idx'[t] \in {idx[t], idx[t] + 1}
            /\ pc'[t] \in Inner => idx'[t] = idx[t]
            /\ pc'[t] # "returned"
        BY <1>2, <2>3, <3>1 DEF ThreadEffect, Inner, Counting
      <3> QED
        BY <1>4, <2>3, <3>2, <3>3
    <2> QED
      BY <2>1, <2>2, <2>3
  <1>10. ASSUME InRun, pc[t] = "begin"
         PROVE  thread_id + THREAD0 \in ThreadSlots /\ ops[THREAD0 + thread_id] = 0
    <2>1. tid'[t] = thread_id /\ thread_id \in Nat
      BY <1>0, <1>2, <1>10 DEF ThreadEffect, TypeOK
    <2>2. THREAD0 + thread_id \in ThreadSlots
      BY <1>0, <1>6, <2>1 DEF SlotOwnership, ThreadSlots, THREAD0
    <2>3. \A u \in BegunThreads : tid[u] < thread_id /\ tid[u] \in Nat
      BY <1>0, <1>1, <1>3 DEF IdCount, TypeOK, BegunThreads
    <2>4. \A u \in BegunThreads : THREAD0 + thread_id # THREAD0 + tid[u]
      BY <2>1, <2>3 DEF THREAD0
    <2> QED
      BY <1>1, <1>10, <2>1, <2>2, <2>4 DEF ZeroInv, THREAD0
  <1>11. ThreadCount'
    <2> SUFFICES ASSUME NEW u \in Threads, Begun(u)', InRun
                 PROVE  ops'[THREAD0 + tid'[u]] =
                          Executed(idx'[u])
                            + (IF pc'[u] \in {"durThread", "returnOp", "stage"} THEN 1 ELSE 0)
      BY <1>3, <1>4 DEF ThreadCount, InRun
    <2>0. tid'[u] \in Nat /\ THREAD0 + tid'[u] \in ThreadSlots
      BY <1>0 DEF SlotOwnership, ThreadSlots, THREAD0, TypeOK
    <2>1. CASE u # t
      <3>1. /\ Begun(u) /\ tid'[u] = tid[u] /\ idx'[u] = idx[u] /\ pc'[u] = pc[u]
            /\ pc[t] = "opsThread" => tid[u] # tid[t] /\ tid[t] \in Nat
        BY <1>0, <1>2, <1>5, <2>1 DEF OthersKept, SlotOwnership, Begun, TypeOK
      <3>2. ops'[THREAD0 + tid[u]] = ops[THREAD0 + tid[u]]
        <4>1. ops[THREAD0 + tid[u]] \in Nat
          BY <1>0, <2>0, <3>1 DEF TypeOK, ThreadSlots
        <4>2. pc[t] = "opsThread" => THREAD0 + tid[u] # THREAD0 + tid[t]
          BY <2>0, <3>1 DEF THREAD0
        <4> QED
          BY <1>2, <2>0, <3>1, <4>1, <4>2 DEF CounterEffect
      <3> QED
        BY <1>1, <1>3, <2>1, <3>1, <3>2 DEF ThreadCount, InRun
    <2>2. CASE u = t /\ pc[t] = "begin"
      <3>1. /\ tid'[t] = thread_id /\ idx'[t] = 0 /\ pc'[t] = "loop"
            /\ UNCHANGED ops
        BY <1>2, <2>2 DEF ThreadEffect, CounterEffect, Counting
      <3> QED
        BY <1>10, <2>2, <3>1, ExecutedSteps
    <2>3. CASE u = t /\ pc[t] # "begin"
      <3>1. tid'[t] = tid[t] /\ Begun(t) /\ idx[t] \in Nat
        BY <1>0, <1>2, <1>6, <2>3 DEF ThreadEffect, TypeOK
      <3>2. ops'[THREAD0 + tid[t]] = ops[THREAD0 + tid[t]] + (IF pc[t] = "opsThread" THEN 1 ELSE 0)
        BY <1>2, <2>0, <2>3, <3>1 DEF CounterEffect
      <3>3. ops[THREAD0 + tid[t]] = Executed(idx[t])
                 + (IF pc[t] \in {"durThread", "returnOp", "stage"} THEN 1 ELSE 0)
        BY <1>1, <1>3, <3>1 DEF ThreadCount, InRun
      <3>4. /\ Executed(idx[t]) \in Nat
            /\ Executed(idx[t] + 1) = Executed(idx[t]) + (IF RealDo(idx[t]) THEN 1 ELSE 0)
        BY <3>1, ExecutedSteps
      <3>5. pc[t] \in Inner => RealDo(idx[t])
        BY <1>1, <3>1 DEF IterationInv, BegunThreads
      <3>6. CASE pc[t] = "loop"
        BY <1>2, <2>3, <3>1, <3>2, <3>3, <3>4, <3>6 DEF ThreadEffect
      <3>7. CASE pc[t] \in {"returnOp", "stage"}
        BY <1>2, <2>3, <3>1, <3>2, <3>3, <3>4, <3>5, <3>7 DEF ThreadEffect, Inner
      <3>8. CASE pc[t] \notin {"loop", "returnOp", "stage"}
        <4>1. pc[t] = "db" \/ pc[t] \in Counting
          BY <1>0, <1>2, <2>3, <3>8 DEF TypeOK, PcValues, Counting
        <4>2. idx'[t] = idx[t]
          BY <1>2, <4>1 DEF ThreadEffect
        <4>3. pc'[t] \in {"durThread", "returnOp", "stage"} <=> pc[t] \in {"opsThread", "durThread"}
          <5>1. CASE pc[t] = "db"
            BY <1>2, <1>3, <2>3, <5>1 DEF ThreadEffect
          <5>2. CASE pc[t] \in Counting
            BY <1>2, <5>2 DEF ThreadEffect, Counting
          <5> QED
            BY <4>1, <5>1, <5>2
        <4> QED
          BY <2>3, <3>1, <3>2, <3>3, <3>4, <3>8, <4>1, <4>2, <4>3 DEF Counting
      <3> QED
        BY <3>6, <3>7, <3>8
    <2> QED
      BY <2>1, <2>2, <2>3
  <1>12. ZeroInv'
    <2>1. mpc' # "start" /\ mpc' # "runs"
      BY <1>3
    <2>2. ASSUME loading PROVE \A s \in Slots : ops'[s] = 0 /\ durations'[s] = 0
      BY <1>1, <1>2, <1>7, <2>2 DEF ZeroInv, CounterEffect
    <2>3. ASSUME InRun, NEW s \in ThreadSlots, \A u \in BegunThreads' : s # THREAD0 + tid'[u]
          PROVE  ops'[s] = 0
      <3>1. t \in BegunThreads' /\ s # THREAD0 + tid'[t]
        BY <1>6, <2>3 DEF BegunThreads
      <3>2. \A u \in BegunThreads : u \in BegunThreads' /\ tid'[u] = tid[u]
        BY <1>2, <1>5 DEF BegunThreads, OthersKept, ThreadEffect, Begun
      <3>3. ops[s] = 0
        BY <1>1, <2>3, <3>2 DEF ZeroInv
      <3>4. pc[t] = "opsThread" => s # THREAD0 + tid[t]
        BY <1>2, <3>1 DEF ThreadEffect
      <3> QED
        BY <1>2, <3>3, <3>4 DEF CounterEffect
    <2> QED
      BY <1>3, <1>4, <2>1, <2>2, <2>3 DEF ZeroInv
  <1> QED
    BY <1>0, <1>8, <1>9, <1>11, <1>12 DEF FlowInv

\* The invariant of the threads' iterations is inductive.
LEMMA FlowCorrect == Spec => []FlowInv
  <1>1. FlowInv /\ [Next]_vars => FlowInv'
    <2> SUFFICES ASSUME FlowInv, [Next]_vars PROVE FlowInv'
      OBVIOUS
    <2>1. CASE UNCHANGED vars
      <3>1. BaseInv'
        BY <2>1, BaseStep DEF FlowInv, IdInv
      <3>2. IdInv'
        BY <2>1, <3>1 DEF FlowInv, IdInv, IdCount, FirstId, BegunThreads, SlotOwnership, Begun, vars
      <3>3. ZeroInv' /\ IterationInv' /\ OperationInv' /\ ThreadCount'
        <4> USE DEF FlowInv, BegunThreads, Begun, vars, loading, InRun, InLoad
        <4>1. ZeroInv' /\ OperationInv'
          BY <2>1 DEF ZeroInv, OperationInv
        <4>2. IterationInv'
          BY <2>1 DEF IterationInv, NumOps, RealDo
        <4>3. ThreadCount'
          BY <2>1 DEF ThreadCount, Executed
        <4> QED
          BY <4>1, <4>2, <4>3
      <3> QED
        BY <3>2, <3>3 DEF FlowInv
    <2> QED
      BY <2>1, FlowMain, FlowClient DEF Next, Terminated
  <1> QED
    BY FlowInit, <1>1, PTL DEF Spec

-----------------------------------------------------------------------------
(***************************************************************************)
(* The shared counters.                                                    *)
(***************************************************************************)

\* The four equalities of CountersAgree between shared counters.
SharedInv ==
    /\ durations[READ] = ops[READ] + Cardinality(At({"opsZero", "durZero", "opsRead"}))
    /\ durations[INSERT] = ops[INSERT] + Cardinality(At({"opsInsert"}))
    /\ ops[ZEROREAD] = durations[ZEROREAD] + Cardinality(At({"durZero"}))
    /\ ops[ALL] = Cardinality(Units(ops, ThreadSlots)) + Cardinality(At({"opsThread"}))

\* The successes of the phase's threads, and of those main() has joined.
OksBegun == [t \in Threads |-> IF Begun(t) THEN oks[t] ELSE 0]
OksJoined == [t \in Threads |-> IF t <= joined THEN oks[t] ELSE 0]

\* Where a thread comes from when it arrives at a place where the counters are
\* not equal.
LEMMA Arrivals ==
  ASSUME TypeOK, NEW t \in Threads, ThreadEffect(t), pc[t] \notin {"idle", "returned"}
  PROVE  /\ pc'[t] \in {"opsZero", "durZero", "opsRead"}
              <=> pc[t] \in {"durRead", "opsZero", "durZero"}
         /\ pc'[t] = "opsInsert" <=> pc[t] = "durInsert"
         /\ pc'[t] = "durZero" <=> pc[t] = "opsZero"
         /\ pc'[t] = "opsThread" <=> pc[t] = "opsAll"
         /\ pc'[t] = "opsAll" <=>
              \/ pc[t] \in {"opsRead", "opsInsert"}
              \/ pc[t] = "db" /\ ~loading /\ op[t] \notin {READ, UPDATE, INSERT}
         /\ pc'[t] \in {"durZero", "opsRead"} <=>
              \/ pc[t] \in {"opsZero", "durZero"}
              \/ pc[t] = "durRead" /\ ~(WithLatency /\ status[t] = kErrorNoData)
         /\ pc'[t] \in {"opsThread", "durThread", "returnOp"} <=>
              \/ pc[t] \in {"opsAll", "opsThread", "durThread"}
              \/ pc[t] = "db" /\ loading
         /\ pc'[t] = "returnOp" <=> pc[t] = "durThread" \/ (pc[t] = "db" /\ loading)
  <1>1. pc[t] \in PcValues
    BY DEF TypeOK
  <1>2. CASE pc[t] \in {"begin", "loop", "returnOp", "stage"}
    BY <1>2 DEF ThreadEffect
  <1>3. CASE pc[t] = "db"
    BY <1>3 DEF ThreadEffect
  <1>4. CASE pc[t] \in Counting
    BY <1>4 DEF ThreadEffect, Counting
  <1> QED
    BY <1>1, <1>2, <1>3, <1>4 DEF PcValues, Counting

\* main() moves no thread that is inside an iteration.
LEMMA MainPlaces ==
  ASSUME BaseInv, Main, NEW P \in SUBSET Inner
  PROVE  At(P)' = At(P)
  <1>1. CASE Spawn
    BY <1>1, SpawnFrame
  <1>2. CASE StartMain \/ BeginRun
    <2>1. CASE UNCHANGED pc
      BY <2>1 DEF At
    <2>2. CASE pc' = [t \in Threads |-> "idle"]
      <3>1. \A t \in Threads : pc[t] \notin P /\ pc'[t] \notin P
        BY <1>2, <2>2 DEF BaseInv, PhaseInv, Running, StartMain, BeginRun, Inner
      <3> QED
        BY <3>1 DEF At
    <2> QED
      BY <1>2, <2>1, <2>2 DEF StartMain, BeginRun, ClearFutures
  <1>3. CASE Join \/ EndLoad \/ PrepareRuns \/ EndRun \/ Finish
    BY <1>3 DEF Join, EndLoad, PrepareRuns, EndRun, Finish, clientVars, At
  <1> QED
    BY <1>1, <1>2, <1>3 DEF Main

\* A run begins with counters that are all zero.
LEMMA RunFromZero ==
  ASSUME FlowInv, BeginRun
  PROVE  /\ \A s \in Slots : ops'[s] = 0
         /\ \A P \in SUBSET Inner : At(P)' = {}
         /\ \A t \in Threads : OksBegun'[t] = 0
  <1>1. \A s \in Slots : ops'[s] = 0
    BY DEF BeginRun, ClearCounters, FlowInv, ZeroInv
  <1>2. \A t \in Threads : pc'[t] = "idle"
    BY DEF BeginRun, ClearFutures
  <1>3. \A P \in SUBSET Inner : At(P)' = {}
    BY <1>2 DEF At, Inner
  <1>4. \A t \in Threads : OksBegun'[t] = 0
    BY <1>2 DEF OksBegun, Begun
  <1> QED
    BY <1>1, <1>3, <1>4

\* There are finitely many threads, and their ids and numbers are such.
LEMMA FiniteThreads == IsFiniteSet(Threads) /\ Cardinality(Threads) = NumThreads
  BY ThreadsAssumption, FS_Interval DEF Threads

\* A sum of zeros.
LEMMA SumOfZeros ==
  ASSUME NEW S, IsFiniteSet(S), NEW f, \A s \in S : f[s] = 0
  PROVE  Cardinality(Units(f, S)) = 0
  <1>1. Cardinality(Units(f, S)) = Cardinality({}) * 0
    BY SumOfEquals
  <1> QED
    BY <1>1, FS_EmptySet

\* A step of main() preserves the equalities between counters.
LEMMA SharedMain == ASSUME FlowInv, SharedInv, Main PROVE SharedInv'
  <1>0. BaseInv
    BY DEF FlowInv, IdInv
  <1>1. /\ At({"opsZero", "durZero", "opsRead"})' = At({"opsZero", "durZero", "opsRead"})
        /\ At({"opsInsert"})' = At({"opsInsert"})
        /\ At({"durZero"})' = At({"durZero"})
        /\ At({"opsThread"})' = At({"opsThread"})
    BY <1>0, MainPlaces DEF Inner
  <1>2. CASE UNCHANGED <<ops, durations>>
    BY <1>1, <1>2 DEF SharedInv
  <1>3. CASE BeginRun /\ ClearCounters
    <2>1. \A P \in SUBSET Inner : Cardinality(At(P)') = 0
      BY <1>3, RunFromZero, FS_EmptySet
    <2>2. \A s \in Slots : ops'[s] = 0 /\ durations'[s] = 0
      BY <1>3 DEF ClearCounters
    <2>3. Cardinality(Units(ops', ThreadSlots)) = 0
      BY <2>2, SharedSlots, SumOfZeros
    <2>4. /\ Cardinality(At({"opsZero", "durZero", "opsRead"})') = 0
          /\ Cardinality(At({"opsInsert"})') = 0
          /\ Cardinality(At({"durZero"})') = 0
          /\ Cardinality(At({"opsThread"})') = 0
      BY <2>1 DEF Inner
    <2> QED
      BY <2>2, <2>3, <2>4, SharedSlots DEF SharedInv
  <1> QED
    BY <1>2, <1>3
       DEF Main, StartMain, Spawn, Join, EndLoad, PrepareRuns, BeginRun, EndRun, Finish

\* A client step preserves the equalities between counters.
LEMMA SharedClient ==
  ASSUME FlowInv, SharedInv, NEW t \in Threads, Client(t)
  PROVE  SharedInv'
  <1>0. TypeOK /\ SlotOwnership
    BY DEF FlowInv, IdInv, BaseInv
  <1>1. GoTo(t, pc'[t]) /\ ThreadEffect(t) /\ CounterEffect(t) /\ pc[t] \notin {"idle", "returned"}
    BY <1>0, ClientEffect
  <1>2. \A s \in Slots : ops[s] \in Nat /\ durations[s] \in Nat
    BY <1>0 DEF TypeOK
  <1>3. /\ ops[READ] \in Nat /\ ops[INSERT] \in Nat /\ ops[ZEROREAD] \in Nat /\ ops[ALL] \in Nat
        /\ durations[READ] \in Nat /\ durations[INSERT] \in Nat /\ durations[ZEROREAD] \in Nat
    BY <1>2, SharedSlots
  <1>4. durations'[READ] = ops'[READ] + Cardinality(At({"opsZero", "durZero", "opsRead"})')
    <2> DEFINE P == {"opsZero", "durZero", "opsRead"}
               n == Cardinality(At(P))
    <2>1. /\ n \in Nat
          /\ n' = n - (IF pc[t] \in P THEN 1 ELSE 0) + (IF pc'[t] \in P THEN 1 ELSE 0)
      BY <1>0, <1>1, AtMoves
    <2>2. pc'[t] \in P <=> pc[t] \in {"durRead", "opsZero", "durZero"}
      BY <1>0, <1>1, Arrivals
    <2>3. durations[READ] = ops[READ] + n
      BY DEF SharedInv
    <2> HIDE DEF n
    <2>4. durations'[READ] = ops'[READ] + n'
      BY <1>1, <1>3, <2>1, <2>2, <2>3 DEF CounterEffect
    <2> QED
      BY <2>4 DEF n
  <1>5. durations'[INSERT] = ops'[INSERT] + Cardinality(At({"opsInsert"})')
    <2> DEFINE P == {"opsInsert"}
               n == Cardinality(At(P))
    <2>1. /\ n \in Nat
          /\ n' = n - (IF pc[t] \in P THEN 1 ELSE 0) + (IF pc'[t] \in P THEN 1 ELSE 0)
      BY <1>0, <1>1, AtMoves
    <2>2. pc'[t] \in P <=> pc[t] = "durInsert"
      BY <1>0, <1>1, Arrivals
    <2>3. durations[INSERT] = ops[INSERT] + n
      BY DEF SharedInv
    <2> HIDE DEF n
    <2>4. durations'[INSERT] = ops'[INSERT] + n'
      BY <1>1, <1>3, <2>1, <2>2, <2>3 DEF CounterEffect
    <2> QED
      BY <2>4 DEF n
  <1>6. ops'[ZEROREAD] = durations'[ZEROREAD] + Cardinality(At({"durZero"})')
    <2> DEFINE P == {"durZero"}
               n == Cardinality(At(P))
    <2>1. /\ n \in Nat
          /\ n' = n - (IF pc[t] \in P THEN 1 ELSE 0) + (IF pc'[t] \in P THEN 1 ELSE 0)
      BY <1>0, <1>1, AtMoves
    <2>2. pc'[t] \in P <=> pc[t] = "opsZero"
      BY <1>0, <1>1, Arrivals
    <2>3. ops[ZEROREAD] = durations[ZEROREAD] + n
      BY DEF SharedInv
    <2> HIDE DEF n
    <2>4. ops'[ZEROREAD] = durations'[ZEROREAD] + n'
      BY <1>1, <1>3, <2>1, <2>2, <2>3 DEF CounterEffect
    <2> QED
      BY <2>4 DEF n
  <1>7. ops'[ALL] = Cardinality(Units(ops', ThreadSlots)) + Cardinality(At({"opsThread"})')
    <2> DEFINE P == {"opsThread"}
               n == Cardinality(At(P))
               total == Cardinality(Units(ops, ThreadSlots))
    <2>1. /\ n \in Nat
          /\ n' = n - (IF pc[t] \in P THEN 1 ELSE 0) + (IF pc'[t] \in P THEN 1 ELSE 0)
      BY <1>0, <1>1, AtMoves
    <2>2. pc'[t] \in P <=> pc[t] = "opsAll"
      BY <1>0, <1>1, Arrivals
    <2>3. ops[ALL] = total + n
      BY DEF SharedInv
    <2>4. \A s \in ThreadSlots : ops[s] \in Nat
      BY <1>2, SharedSlots
    <2>5. total \in Nat
      BY <2>4, SharedSlots, UnitsFinite
    <2>6. total' = total + (IF pc[t] = "opsThread" THEN 1 ELSE 0)
      <3>1. CASE pc[t] = "opsThread"
        <4>1. THREAD0 + tid[t] \in ThreadSlots
          <5>1. tid[t] \in Nat /\ THREAD0 + tid[t] \in Slots
            BY <1>0, <3>1 DEF SlotOwnership, Begun, TypeOK
          <5> QED
            BY <5>1 DEF ThreadSlots, THREAD0
        <4>2. /\ ops'[THREAD0 + tid[t]] = ops[THREAD0 + tid[t]] + 1
              /\ \A s \in ThreadSlots \ {THREAD0 + tid[t]} : ops'[s] = ops[s]
          BY <1>1, <2>4, <3>1, <4>1 DEF CounterEffect
        <4>3. Cardinality(Units(ops', ThreadSlots)) = Cardinality(Units(ops, ThreadSlots)) + 1
          BY <2>4, <4>1, <4>2, SharedSlots, SumGrows
        <4> QED
          BY <3>1, <4>3
      <3>2. CASE pc[t] # "opsThread"
        <4>1. \A s \in ThreadSlots : ops'[s] = ops[s]
          BY <1>1, <2>4, <3>2 DEF CounterEffect
        <4>2. Units(ops', ThreadSlots) = Units(ops, ThreadSlots)
          BY <4>1 DEF Units
        <4> QED
          BY <2>5, <3>2, <4>2
      <3> QED
        BY <3>1, <3>2
    <2> HIDE DEF n, total
    <2>7. ops'[ALL] = total' + n'
      BY <1>1, <1>3, <2>1, <2>2, <2>3, <2>5, <2>6 DEF CounterEffect
    <2> QED
      BY <2>7 DEF n, total
  <1> QED
    BY <1>4, <1>5, <1>6, <1>7 DEF SharedInv

\* The shared counters agree in every state.
LEMMA SharedCorrect == Spec => []SharedInv
  <1>1. Init => SharedInv
    <2> SUFFICES ASSUME Init PROVE SharedInv
      OBVIOUS
    <2>1. \A P \in SUBSET Inner : At(P) = {}
      BY DEF Init, At, Inner
    <2>2. \A P \in SUBSET Inner : Cardinality(At(P)) = 0
      BY <2>1, FS_EmptySet
    <2>3. \A s \in Slots : ops[s] = 0 /\ durations[s] = 0
      BY DEF Init
    <2>4. Cardinality(Units(ops, ThreadSlots)) = 0
      BY <2>3, SharedSlots, SumOfZeros
    <2>5. /\ Cardinality(At({"opsZero", "durZero", "opsRead"})) = 0
          /\ Cardinality(At({"opsInsert"})) = 0
          /\ Cardinality(At({"durZero"})) = 0
          /\ Cardinality(At({"opsThread"})) = 0
      BY <2>2 DEF Inner
    <2> QED
      BY <2>3, <2>4, <2>5, SharedSlots DEF SharedInv
  <1>2. FlowInv /\ SharedInv /\ [Next]_vars => SharedInv'
    <2> SUFFICES ASSUME FlowInv, SharedInv, [Next]_vars PROVE SharedInv'
      OBVIOUS
    <2>1. CASE UNCHANGED vars
      BY <2>1 DEF SharedInv, At, vars
    <2> QED
      BY <2>1, SharedMain, SharedClient DEF Next, Terminated
  <1> QED
    BY <1>1, <1>2, FlowCorrect, PTL DEF Spec

\* The counters threads share are off by the operations in flight and by nothing
\* else, and each thread's slot counts the transactions it has executed, for any
\* number of threads, skip ratio and mix of operations.
THEOREM CountersAreExact == Spec => []CountersAgree
  <1>1. FlowInv /\ SharedInv => CountersAgree
    <2> SUFFICES ASSUME FlowInv, SharedInv PROVE CountersAgree
      OBVIOUS
    <2>1. \A s \in ThreadSlots : ops[s] \in Nat
      BY SharedSlots DEF FlowInv, IdInv, BaseInv, TypeOK
    <2>2. MapThenSumSet(LAMBDA s : ops[s], ThreadSlots) = Cardinality(Units(ops, ThreadSlots))
      BY <2>1, SharedSlots, SumOfUnits, Zenon
    <2>3. ops[ALL] = MapThenSumSet(LAMBDA s : ops[s], {s \in Slots : s >= THREAD0})
                       + Cardinality(At({"opsThread"}))
      BY <2>2, Zenon DEF SharedInv, ThreadSlots
    <2> QED
      BY <2>3, Zenon DEF SharedInv, FlowInv, CountersAgree
  <1> QED
    BY <1>1, FlowCorrect, SharedCorrect, PTL

-----------------------------------------------------------------------------
(***************************************************************************)
(* The reports after a run.                                                *)
(***************************************************************************)

\* When main() has joined the threads of a phase, all have begun and returned.
LEMMA AllReturned ==
  ASSUME BaseInv, mpc = "join", AllJoined
  PROVE  joined = NumThreads /\ BegunThreads = Threads /\ \A t \in Threads : pc[t] = "returned"
  <1>1. joined = NumThreads
    BY ThreadsAssumption DEF BaseInv, TypeOK, AllJoined
  <1>2. \A t \in Threads : pc[t] = "returned"
    BY <1>1, ThreadsAssumption DEF BaseInv, PhaseInv, Threads
  <1> QED
    BY <1>1, <1>2 DEF BegunThreads, Begun

\* A run's ids are NumThreads numbers in a row, from 0 in the first run and
\* from NumThreads in the second, so it has the readers those below
\* -readTheadNums make, and each thread counts its own transactions.
THEOREM RunsHaveTheirThreads == Spec => []ThreadsOfRun
  <1>1. FlowInv => ThreadsOfRun
    <2> SUFFICES ASSUME FlowInv PROVE ThreadsOfRun
      OBVIOUS
    <2>0. BaseInv /\ TypeOK /\ PhaseInv /\ IdCount /\ SlotOwnership /\ ThreadCount
      BY DEF FlowInv, IdInv, BaseInv
    <2> SUFFICES ASSUME RunJoined, ReadThreadNums > 0
                 PROVE  Cardinality({t \in Threads : ThreadType(t) = 1})
                          = Cardinality({i \in runs * NumThreads .. (runs + 1) * NumThreads - 1 :
                                           i < ReadThreadNums})
      BY <2>0 DEF ThreadsOfRun
    <2> DEFINE readers == {t \in Threads : tid[t] < ReadThreadNums}
               ids == {i \in FirstId .. FirstId + NumThreads - 1 : i < ReadThreadNums}
    <2>1. {t \in Threads : ThreadType(t) = 1} = readers
      <3>1. \A t \in Threads : tid[t] \in Nat
        BY <2>0 DEF TypeOK
      <3> QED
        BY <3>1, CountsAssumption DEF ThreadType, RunJoined
    <2>2. /\ runs \in {0, 1}
          /\ runs * NumThreads = FirstId
          /\ (runs + 1) * NumThreads - 1 = FirstId + NumThreads - 1
      <3>1. runs \in {0, 1} /\ phase = "run"
        BY <2>0 DEF PhaseInv, TypeOK, RunJoined, loading
      <3> QED
        BY <3>1, ThreadsAssumption DEF FirstId
    <2>3. BegunThreads = Threads /\ thread_id = FirstId + NumThreads
      BY <2>0, AllReturned, FiniteThreads DEF RunJoined, IdCount
    <2>4. /\ \A t \in Threads : tid[t] \in FirstId .. FirstId + NumThreads - 1
          /\ \A t, u \in Threads : tid[t] = tid[u] => t = u
      <3>1. \A t \in Threads : tid[t] \in FirstId .. FirstId + NumThreads - 1
        <4>1. \A t \in Threads : tid[t] \in FirstId .. thread_id - 1
          BY <2>0, <2>3 DEF IdCount, RunJoined
        <4>2. thread_id - 1 = FirstId + NumThreads - 1
          <5>1. FirstId \in Nat
            BY ThreadsAssumption DEF FirstId
          <5> QED
            BY <2>3, <5>1, ThreadsAssumption
        <4> QED
          BY <4>1, <4>2
      <3>2. \A t, u \in Threads : tid[t] = tid[u] => t = u
        <4>1. \A t \in Threads : Begun(t)
          BY <2>3 DEF BegunThreads
        <4> QED
          BY <2>0, <4>1 DEF SlotOwnership
      <3> QED
        BY <3>1, <3>2
    <2> DEFINE all == FirstId .. FirstId + NumThreads - 1
               f == [t \in Threads |-> tid[t]]
    <2>5. FirstId \in Nat
      BY ThreadsAssumption DEF FirstId
    <2>6. IsFiniteSet(all) /\ Cardinality(all) = NumThreads
      BY <2>5, ThreadsAssumption, FS_Interval
    <2>7. f \in Injection(Threads, all)
      BY <2>4 DEF Injection, IsInjective
    <2>8. f \in Surjection(Threads, all)
      <3> HIDE DEF f, all
      <3> QED
        BY <2>6, <2>7, FiniteThreads, FS_Injection
    <2>9. \A i \in all : \E t \in Threads : tid[t] = i
      BY <2>8 DEF Surjection
    <2> DEFINE g == [t \in readers |-> tid[t]]
    <2>10. g \in Bijection(readers, ids)
      <3>1. g \in [readers -> ids]
        BY <2>4
      <3>2. \A t, u \in readers : g[t] = g[u] => t = u
        BY <2>4
      <3>3. \A i \in ids : \E t \in readers : g[t] = i
        BY <2>9
      <3> HIDE DEF g, readers, ids
      <3> QED
        BY <3>1, <3>2, <3>3 DEF Bijection, Injection, Surjection, IsInjective
    <2>11. IsFiniteSet(readers)
      BY FiniteThreads, FS_Subset
    <2>12. Cardinality(readers) = Cardinality(ids)
      <3>1. ExistsBijection(readers, ids)
        BY <2>10 DEF ExistsBijection
      <3> HIDE DEF readers, ids
      <3> QED
        BY <2>11, <3>1, FS_Bijection
    <2> QED
      BY <2>1, <2>2, <2>12
  <1> QED
    BY <1>1, FlowCorrect, PTL

\* main()'s sum has the joined threads' share.
JoinInv == InRun \/ InLoad => sum = Cardinality(Units(OksJoined, Threads))

\* The classes of a run's transactions.
ClassInv ==
    InRun =>
        /\ ops[READ] + ops[INSERT] <= ops[ALL] + Cardinality(At({"opsAll"}))
        /\ Operations \cap {SCAN, READMODIFYWRITE} = {} =>
              ops[READ] + ops[INSERT] = ops[ALL] + Cardinality(At({"opsAll"}))
        /\ ops[ZEROREAD] <= ops[READ] + Cardinality(At({"durZero", "opsRead"}))

\* Transactions in ALL whose outcome is not in oks[] yet, and those with a
\* zero result that are not in ALL yet.
Succeeding == {t \in At({"opsThread", "durThread", "returnOp"}) : status[t] = kOK}
Failing == {t \in At({"durZero", "opsRead", "opsAll"}) : status[t] = kErrorNoData}

\* The outcomes of a run's transactions.
OutcomeInv ==
    InRun =>
        /\ Cardinality(Units(OksBegun, Threads))
             + Cardinality(At({"opsThread", "durThread", "returnOp"})) <= ops[ALL]
        /\ Upsert /\ WithLatency =>
             Cardinality(Units(OksBegun, Threads)) + ops[ZEROREAD] + Cardinality(Succeeding)
                 = ops[ALL] + Cardinality(Failing)

\* What the counters of a run say about its transactions.
TallyInv == ClassInv /\ OutcomeInv /\ JoinInv

\* Every counter is a number.
LEMMA CountersAreNumbers ==
  ASSUME TypeOK
  PROVE  /\ \A s \in Slots : ops[s] \in Nat /\ durations[s] \in Nat
         /\ ops[READ] \in Nat /\ ops[INSERT] \in Nat /\ ops[ZEROREAD] \in Nat /\ ops[ALL] \in Nat
         /\ \A t \in Threads : oks[t] \in Nat /\ OksBegun[t] \in Nat /\ OksJoined[t] \in Nat
         /\ Cardinality(Units(OksBegun, Threads)) \in Nat
         /\ Cardinality(Units(OksJoined, Threads)) \in Nat
  <1>1. \A s \in Slots : ops[s] \in Nat /\ durations[s] \in Nat
    BY DEF TypeOK
  <1>2. \A t \in Threads : oks[t] \in Nat /\ OksBegun[t] \in Nat /\ OksJoined[t] \in Nat
    BY DEF TypeOK, OksBegun, OksJoined
  <1>3. /\ Cardinality(Units(OksBegun, Threads)) \in Nat
        /\ Cardinality(Units(OksJoined, Threads)) \in Nat
    BY <1>2, FiniteThreads, UnitsFinite
  <1> QED
    BY <1>1, <1>2, <1>3, SharedSlots

\* A step of main() preserves what the counters say.
LEMMA TallyMain == ASSUME FlowInv, TallyInv, Main PROVE TallyInv'
  <1>0. BaseInv /\ BaseInv' /\ TypeOK /\ TypeOK' /\ PhaseInv /\ ZeroInv
    BY BaseMain DEF FlowInv, IdInv, BaseInv
  <1>1. ASSUME (Spawn \/ Join \/ EndLoad) /\ (InRun \/ InLoad)
        PROVE  /\ UNCHANGED <<ops, oks, status>>
               /\ \A P \in SUBSET Inner : At(P)' = At(P)
               /\ \A t \in Threads : Begun(t)' <=> Begun(t)
               /\ OksBegun' = OksBegun
               /\ Succeeding' = Succeeding
               /\ Failing' = Failing
    <2>1. UNCHANGED <<ops, oks, status>>
      BY <1>1 DEF Spawn, Join, EndLoad, clientVars
    <2>2. \A P \in SUBSET Inner : At(P)' = At(P)
      BY <1>0, MainPlaces
    <2>3. \A t \in Threads : Begun(t)' <=> Begun(t)
      <3>1. CASE Spawn
        BY <1>0, <3>1, SpawnFrame
      <3>2. CASE Join \/ EndLoad
        BY <3>2 DEF Join, EndLoad, clientVars, Begun
      <3> QED
        BY <1>1, <3>1, <3>2
    <2>4. OksBegun' = OksBegun
      BY <2>1, <2>3 DEF OksBegun
    <2>5. /\ At({"opsThread", "durThread", "returnOp"})' = At({"opsThread", "durThread", "returnOp"})
          /\ At({"durZero", "opsRead", "opsAll"})' = At({"durZero", "opsRead", "opsAll"})
      BY <2>2 DEF Inner
    <2>6. Succeeding' = Succeeding /\ Failing' = Failing
      BY <2>1, <2>5 DEF Succeeding, Failing
    <2> QED
      BY <2>1, <2>2, <2>3, <2>4, <2>6
  <1>2. /\ {"opsAll"} \in SUBSET Inner
        /\ {"durZero", "opsRead"} \in SUBSET Inner
        /\ {"opsThread", "durThread", "returnOp"} \in SUBSET Inner
        /\ {"durZero", "opsRead", "opsAll"} \in SUBSET Inner
    BY DEF Inner
  <1>3. ASSUME InRun' PROVE (Spawn /\ InRun) \/ (Join /\ InRun) \/ BeginRun
    BY <1>0, <1>3, MainFrame
  <1>4. ASSUME BeginRun
        PROVE  /\ ops'[READ] = 0 /\ ops'[INSERT] = 0 /\ ops'[ZEROREAD] = 0 /\ ops'[ALL] = 0
               /\ Cardinality(At({"opsAll"})') = 0
               /\ Cardinality(At({"durZero", "opsRead"})') = 0
               /\ Cardinality(At({"opsThread", "durThread", "returnOp"})') = 0
               /\ Cardinality(Units(OksBegun', Threads)) = 0
               /\ Cardinality(Succeeding') = 0
               /\ Cardinality(Failing') = 0
    <2>1. /\ \A s \in Slots : ops'[s] = 0
          /\ \A P \in SUBSET Inner : At(P)' = {}
          /\ \A t \in Threads : OksBegun'[t] = 0
      BY <1>4, RunFromZero
    <2>2. /\ At({"opsAll"})' = {}
          /\ At({"durZero", "opsRead"})' = {}
          /\ At({"opsThread", "durThread", "returnOp"})' = {}
          /\ At({"durZero", "opsRead", "opsAll"})' = {}
      BY <1>2, <2>1
    <2>3. Succeeding' = {} /\ Failing' = {}
      BY <2>2 DEF Succeeding, Failing
    <2>4. Cardinality(Units(OksBegun', Threads)) = 0
      BY <2>1, FiniteThreads, SumOfZeros
    <2> QED
      BY <2>1, <2>2, <2>3, <2>4, SharedSlots, FS_EmptySet
  <1>5. ClassInv'
    <2> SUFFICES ASSUME InRun' PROVE ClassInv'
      BY DEF ClassInv
    <2>1. CASE (Spawn \/ Join) /\ InRun
      <3>1. /\ At({"opsAll"})' = At({"opsAll"})
            /\ At({"durZero", "opsRead"})' = At({"durZero", "opsRead"})
            /\ ops' = ops
        BY <1>1, <1>2, <2>1
      <3> QED
        BY <2>1, <3>1 DEF TallyInv, ClassInv
    <2>2. CASE BeginRun
      BY <1>4, <2>2 DEF ClassInv
    <2> QED
      BY <1>3, <2>1, <2>2
  <1>6. OutcomeInv'
    <2> SUFFICES ASSUME InRun' PROVE OutcomeInv'
      BY DEF OutcomeInv
    <2>1. CASE (Spawn \/ Join) /\ InRun
      <3>1. /\ At({"opsThread", "durThread", "returnOp"})' = At({"opsThread", "durThread", "returnOp"})
            /\ ops' = ops /\ OksBegun' = OksBegun
            /\ Succeeding' = Succeeding /\ Failing' = Failing
        BY <1>1, <1>2, <2>1
      <3> QED
        BY <2>1, <3>1 DEF TallyInv, OutcomeInv
    <2>2. CASE BeginRun
      BY <1>4, <2>2 DEF OutcomeInv
    <2> QED
      BY <1>3, <2>1, <2>2
  <1>7. JoinInv'
    <2> SUFFICES ASSUME InRun' \/ InLoad' PROVE sum' = Cardinality(Units(OksJoined', Threads))
      BY DEF JoinInv
    <2>1. CASE (Spawn \/ EndLoad) /\ (InRun \/ InLoad)
      <3>1. UNCHANGED <<sum, joined, oks>>
        BY <2>1 DEF Spawn, EndLoad, clientVars
      <3>2. OksJoined' = OksJoined
        BY <3>1 DEF OksJoined
      <3> QED
        BY <2>1, <3>1, <3>2 DEF TallyInv, JoinInv
    <2>2. CASE Join /\ (InRun \/ InLoad)
      <3>1. /\ joined + 1 \in Threads
            /\ sum' = sum + oks[joined + 1] /\ joined' = joined + 1 /\ oks' = oks
        BY <1>0, <2>2 DEF Join, Threads, TypeOK, clientVars
      <3>2. /\ OksJoined'[joined + 1] = OksJoined[joined + 1] + oks[joined + 1]
            /\ \A t \in Threads \ {joined + 1} : OksJoined'[t] = OksJoined[t]
        <4>1. joined \in Nat /\ \A t \in Threads : oks[t] \in Nat
          BY <1>0 DEF TypeOK
        <4> QED
          BY <3>1, <4>1 DEF OksJoined, Threads
      <3>3. Cardinality(Units(OksJoined', Threads))
              = Cardinality(Units(OksJoined, Threads)) + oks[joined + 1]
        <4> HIDE DEF OksJoined
        <4>1. \A t \in Threads : OksJoined[t] \in Nat /\ oks[t] \in Nat
          BY <1>0, CountersAreNumbers
        <4> QED
          BY <3>1, <3>2, <4>1, FiniteThreads, SumGrows
      <3> QED
        BY <2>2, <3>1, <3>3 DEF TallyInv, JoinInv
    <2>3. CASE joined' = 0 /\ sum' = 0
      <3>1. \A t \in Threads : OksJoined'[t] = 0
        BY <2>3 DEF OksJoined, Threads
      <3>2. Cardinality(Units(OksJoined', Threads)) = 0
        BY <3>1, FiniteThreads, SumOfZeros
      <3> QED
        BY <2>3, <3>2
    <2> QED
      BY <1>0, <2>1, <2>2, <2>3, MainFrame
  <1> QED
    BY <1>5, <1>6, <1>7 DEF TallyInv

\* The sum of the successes grows with the thread that ends a successful
\* transaction.
LEMMA OksGrow ==
  ASSUME TypeOK, NEW t \in Threads, ThreadEffect(t), OthersKept(t),
         pc[t] \notin {"idle", "returned"}
  PROVE  Cardinality(Units(OksBegun, Threads))'
           = Cardinality(Units(OksBegun, Threads))
               + (IF pc[t] = "returnOp" /\ status[t] = kOK THEN 1 ELSE 0)
  <1> DEFINE d == IF pc[t] = "returnOp" /\ status[t] = kOK THEN 1 ELSE 0
  <1>1. \A u \in Threads : oks[u] \in Nat /\ OksBegun[u] \in Nat
    BY CountersAreNumbers
  <1>2. OksBegun'[t] = OksBegun[t] + d
    <2>1. CASE pc[t] = "begin"
      BY <2>1 DEF OksBegun, Begun, ThreadEffect
    <2>2. CASE pc[t] # "begin"
      <3>1. Begun(t) /\ Begun(t)'
        BY <2>2 DEF Begun, ThreadEffect, TypeOK, PcValues, Counting
      <3>2. oks'[t] = oks[t] + d
        BY <1>1, <2>2 DEF ThreadEffect, TypeOK, PcValues, Counting
      <3> QED
        BY <3>1, <3>2 DEF OksBegun
    <2> QED
      BY <2>1, <2>2
  <1>3. \A u \in Threads \ {t} : OksBegun'[u] = OksBegun[u]
    BY DEF OksBegun, OthersKept, Begun
  <1>4. d \in Nat
    OBVIOUS
  <1> HIDE DEF d
  <1>5. Cardinality(Units(OksBegun', Threads)) = Cardinality(Units(OksBegun, Threads)) + d
    <2> HIDE DEF OksBegun
    <2> QED
      BY <1>1, <1>2, <1>3, <1>4, FiniteThreads, SumGrows
  <1> QED
    BY <1>5 DEF d

\* A client step preserves what the counters say.
LEMMA TallyClient ==
  ASSUME FlowInv, TallyInv, NEW t \in Threads, Client(t)
  PROVE  TallyInv'
  <1>0. BaseInv /\ TypeOK /\ TypeOK' /\ PhaseInv /\ SlotOwnership /\ OperationInv
    BY BaseClient DEF FlowInv, IdInv, BaseInv
  <1>1. /\ GoTo(t, pc'[t]) /\ OthersKept(t) /\ ThreadEffect(t) /\ CounterEffect(t)
        /\ pc[t] \notin {"idle", "returned"}
    BY <1>0, ClientEffect
  <1>2. /\ mpc \in {"spawn", "join"}
        /\ UNCHANGED <<phase, runs, joined, sum>>
        /\ InRun <=> ~loading
        /\ InRun' <=> InRun
        /\ InLoad' <=> InLoad
    BY <1>0, ClientPhase
  <1>3. /\ ops[READ] \in Nat /\ ops[INSERT] \in Nat /\ ops[ZEROREAD] \in Nat /\ ops[ALL] \in Nat
        /\ \A u \in Threads : oks[u] \in Nat /\ OksBegun[u] \in Nat /\ OksJoined[u] \in Nat
        /\ Cardinality(Units(OksBegun, Threads)) \in Nat
    BY <1>0, CountersAreNumbers
  <1>4. ClassInv'
    <2> SUFFICES ASSUME InRun, ~loading PROVE ClassInv'
      BY <1>2 DEF ClassInv
    <2> DEFINE m == Cardinality(At({"opsAll"}))
               n == Cardinality(At({"durZero", "opsRead"}))
    <2>1. /\ m \in Nat
          /\ m' = m - (IF pc[t] \in {"opsAll"} THEN 1 ELSE 0)
                    + (IF pc'[t] \in {"opsAll"} THEN 1 ELSE 0)
      BY <1>0, <1>1, AtMoves
    <2>2. /\ n \in Nat
          /\ n' = n - (IF pc[t] \in {"durZero", "opsRead"} THEN 1 ELSE 0)
                    + (IF pc'[t] \in {"durZero", "opsRead"} THEN 1 ELSE 0)
      BY <1>0, <1>1, AtMoves
    <2>3. /\ pc'[t] = "opsAll" <=>
               \/ pc[t] \in {"opsRead", "opsInsert"}
               \/ pc[t] = "db" /\ ~loading /\ op[t] \notin {READ, UPDATE, INSERT}
          /\ pc'[t] \in {"durZero", "opsRead"} <=>
               \/ pc[t] \in {"opsZero", "durZero"}
               \/ pc[t] = "durRead" /\ ~(WithLatency /\ status[t] = kErrorNoData)
      BY <1>0, <1>1, Arrivals
    <2>4. /\ ops'[READ] = ops[READ] + (IF pc[t] = "opsRead" THEN 1 ELSE 0)
          /\ ops'[INSERT] = ops[INSERT] + (IF pc[t] = "opsInsert" THEN 1 ELSE 0)
          /\ ops'[ZEROREAD] = ops[ZEROREAD] + (IF pc[t] = "opsZero" THEN 1 ELSE 0)
          /\ ops'[ALL] = ops[ALL] + (IF pc[t] = "opsAll" THEN 1 ELSE 0)
      BY <1>1 DEF CounterEffect
    <2>5. /\ ops[READ] + ops[INSERT] <= ops[ALL] + m
          /\ Operations \cap {SCAN, READMODIFYWRITE} = {} =>
                ops[READ] + ops[INSERT] = ops[ALL] + m
          /\ ops[ZEROREAD] <= ops[READ] + n
      BY DEF TallyInv, ClassInv
    <2> HIDE DEF m, n
    <2>6. ops'[READ] + ops'[INSERT] <= ops'[ALL] + m'
      BY <1>3, <2>1, <2>3, <2>4, <2>5
    <2>7. ops'[ZEROREAD] <= ops'[READ] + n'
      BY <1>3, <2>2, <2>3, <2>4, <2>5
    <2>8. ASSUME Operations \cap {SCAN, READMODIFYWRITE} = {}
          PROVE  ops'[READ] + ops'[INSERT] = ops'[ALL] + m'
      <3>1. pc[t] = "db" => op[t] \in {READ, UPDATE, INSERT}
        BY <1>0, <2>8, OperationsAssumption DEF OperationInv
      <3> QED
        BY <1>3, <2>1, <2>3, <2>4, <2>5, <2>8, <3>1
    <2> QED
      BY <2>6, <2>7, <2>8 DEF ClassInv, m, n
  <1>5. JoinInv'
    <2> SUFFICES ASSUME InRun \/ InLoad PROVE sum' = Cardinality(Units(OksJoined', Threads))
      BY <1>2 DEF JoinInv
    <2>1. ~(t <= joined)
      BY <1>0, <1>1, <1>2 DEF PhaseInv, Threads
    <2>2. \A u \in Threads : u <= joined => oks'[u] = oks[u]
      BY <1>1, <2>1 DEF OthersKept
    <2>3. OksJoined' = OksJoined
      BY <1>2, <2>2 DEF OksJoined
    <2> QED
      BY <1>2, <2>3 DEF TallyInv, JoinInv
  <1>6. OutcomeInv'
    <2> SUFFICES ASSUME InRun, ~loading PROVE OutcomeInv'
      BY <1>2 DEF OutcomeInv
    <2> DEFINE total == Cardinality(Units(OksBegun, Threads))
               m == Cardinality(At({"opsThread", "durThread", "returnOp"}))
               d == IF pc[t] = "returnOp" /\ status[t] = kOK THEN 1 ELSE 0
               good == Cardinality(Succeeding)
               bad == Cardinality(Failing)
    <2>1. total' = total + d
      BY <1>0, <1>1, OksGrow
    <2>2. /\ m \in Nat
          /\ m' = m - (IF pc[t] \in {"opsThread", "durThread", "returnOp"} THEN 1 ELSE 0)
                    + (IF pc'[t] \in {"opsThread", "durThread", "returnOp"} THEN 1 ELSE 0)
      BY <1>0, <1>1, AtMoves
    <2>3. pc'[t] \in {"opsThread", "durThread", "returnOp"}
            <=> pc[t] \in {"opsAll", "opsThread", "durThread"}
      BY <1>0, <1>1, Arrivals
    <2>4. /\ ops'[ALL] = ops[ALL] + (IF pc[t] = "opsAll" THEN 1 ELSE 0)
          /\ ops'[ZEROREAD] = ops[ZEROREAD] + (IF pc[t] = "opsZero" THEN 1 ELSE 0)
      BY <1>1 DEF CounterEffect
    <2>5. /\ total + m <= ops[ALL]
          /\ Upsert /\ WithLatency => total + ops[ZEROREAD] + good = ops[ALL] + bad
      BY DEF TallyInv, OutcomeInv
    <2>6. total' + m' <= ops'[ALL]
      <3> HIDE DEF total, m
      <3> QED
        BY <1>3, <2>1, <2>2, <2>3, <2>4, <2>5 DEF total
    <2>7. ASSUME Upsert, WithLatency
          PROVE  total' + ops'[ZEROREAD] + good' = ops'[ALL] + bad'
      <3>1. Succeeding \in SUBSET Threads /\ Succeeding' \in SUBSET Threads
        BY DEF Succeeding, At
      <3>2. Failing \in SUBSET Threads /\ Failing' \in SUBSET Threads
        BY DEF Failing, At
      <3>3. /\ t \in Succeeding <=> pc[t] \in {"opsThread", "durThread", "returnOp"} /\ status[t] = kOK
            /\ t \in Failing <=> pc[t] \in {"durZero", "opsRead", "opsAll"} /\ status[t] = kErrorNoData
            /\ t \in Succeeding' <=>
                 pc'[t] \in {"opsThread", "durThread", "returnOp"} /\ status'[t] = kOK
            /\ t \in Failing' <=>
                 pc'[t] \in {"durZero", "opsRead", "opsAll"} /\ status'[t] = kErrorNoData
        BY DEF Succeeding, Failing, At
      <3>4. /\ \A u \in Threads \ {t} : u \in Succeeding <=> u \in Succeeding'
            /\ \A u \in Threads \ {t} : u \in Failing <=> u \in Failing'
        BY <1>1 DEF Succeeding, Failing, At, OthersKept
      <3>5. /\ good \in Nat
            /\ good' = good - (IF t \in Succeeding THEN 1 ELSE 0)
                            + (IF t \in Succeeding' THEN 1 ELSE 0)
        BY <3>1, <3>4, OneMoves
      <3>6. /\ bad \in Nat
            /\ bad' = bad - (IF t \in Failing THEN 1 ELSE 0) + (IF t \in Failing' THEN 1 ELSE 0)
        BY <3>2, <3>4, OneMoves
      <3>7. t \in Succeeding' <=> pc[t] \in {"opsAll", "opsThread", "durThread"} /\ status[t] = kOK
        <4>1. pc[t] \in {"opsAll", "opsThread", "durThread"} => status'[t] = status[t]
          BY <1>1 DEF ThreadEffect
        <4> QED
          BY <2>3, <3>3, <4>1
      <3>8. t \in Failing' <=> pc[t] \in {"opsZero", "durZero", "opsRead"} /\ status[t] = kErrorNoData
        <4>1. CASE pc[t] \in {"begin", "loop", "returnOp", "stage", "opsAll", "opsThread",
                              "durThread", "durInsert"}
          BY <1>1, <3>3, <4>1 DEF ThreadEffect
        <4>2. CASE pc[t] = "db"
          BY <1>1, <3>3, <4>2 DEF ThreadEffect, DbStatus, kOK, kErrorNoData, kErrorConflict,
                                  READ, INSERT
        <4>3. CASE pc[t] \in {"durRead", "opsInsert"}
          BY <1>0, <1>1, <2>7, <3>3, <4>3 DEF ThreadEffect, OperationInv
        <4>4. CASE pc[t] \in {"opsZero", "durZero", "opsRead"}
          BY <1>1, <3>3, <4>4 DEF ThreadEffect
        <4> QED
          BY <1>0, <1>1, <4>1, <4>2, <4>3, <4>4 DEF TypeOK, PcValues
      <3>9. status[t] \in {kOK, kErrorNoData}
        BY <1>0, <2>7 DEF OperationInv, TypeOK
      <3>10. pc[t] = "opsZero" => status[t] = kErrorNoData
        BY <1>0 DEF OperationInv
      <3> HIDE DEF total, good, bad
      <3>11. total \in Nat
        BY <1>3 DEF total
      <3> QED
        BY <1>3, <2>1, <2>4, <2>5, <2>7, <3>3, <3>5, <3>6, <3>7, <3>8, <3>9, <3>10, <3>11
           DEF kOK, kErrorNoData
    <2> QED
      BY <2>6, <2>7 DEF OutcomeInv
  <1> QED
    BY <1>4, <1>5, <1>6 DEF TallyInv

\* What the counters of a run say about its transactions holds in every state.
LEMMA TallyCorrect == Spec => []TallyInv
  <1>1. Init => TallyInv
    BY DEF Init, TallyInv, ClassInv, OutcomeInv, JoinInv, InRun, InLoad, loading
  <1>2. FlowInv /\ TallyInv /\ [Next]_vars => TallyInv'
    <2> SUFFICES ASSUME FlowInv, TallyInv, [Next]_vars PROVE TallyInv'
      OBVIOUS
    <2>1. CASE UNCHANGED vars
      <3>1. InRun' = InRun /\ InLoad' = InLoad
        BY <2>1 DEF vars, InRun, InLoad, loading
      <3>2. \A P : At(P)' = At(P)
        BY <2>1 DEF vars, At
      <3>3. Succeeding' = Succeeding /\ Failing' = Failing
        BY <2>1 DEF vars, At, Succeeding, Failing
      <3>4. OksBegun' = OksBegun /\ OksJoined' = OksJoined
        BY <2>1 DEF vars, OksBegun, OksJoined, Begun
      <3>5. ClassInv' /\ OutcomeInv' /\ JoinInv'
        BY <2>1, <3>1, <3>2, <3>3, <3>4 DEF vars, TallyInv, ClassInv, OutcomeInv, JoinInv
      <3> QED
        BY <3>5 DEF TallyInv
    <2> QED
      BY <2>1, TallyMain, TallyClient DEF Next, Terminated
  <1> QED
    BY <1>1, <1>2, FlowCorrect, PTL DEF Spec

\* After a run every executed transaction is counted once in ALL and at most once
\* in its class, zero reads among the reads, and main()'s sum is the number of those
\* that succeeded: all of them but the zero reads, in a store where inserts overwrite.
THEOREM RunsAreReported == Spec => []RunReport
  <1>1. FlowInv /\ SharedInv /\ TallyInv => RunReport
    <2> SUFFICES ASSUME FlowInv, SharedInv, TallyInv, RunJoined PROVE RunReport
      BY DEF RunReport
    <2>0. BaseInv /\ TypeOK /\ SlotOwnership /\ ZeroInv /\ IterationInv /\ ThreadCount
      BY DEF FlowInv, IdInv, BaseInv
    <2>1. /\ joined = NumThreads /\ BegunThreads = Threads
          /\ \A t \in Threads : pc[t] = "returned" /\ Begun(t)
      BY <2>0, AllReturned DEF RunJoined, Begun
    <2>2. InRun /\ ~loading
      BY DEF RunJoined, InRun
    <2>3. \A P \in SUBSET Inner : Cardinality(At(P)) = 0
      <3>1. \A P \in SUBSET Inner : At(P) = {}
        BY <2>1 DEF At, Inner
      <3> QED
        BY <3>1, FS_EmptySet
    <2>4. /\ Cardinality(At({"opsThread"})) = 0
          /\ Cardinality(At({"opsAll"})) = 0
          /\ Cardinality(At({"durZero", "opsRead"})) = 0
          /\ Cardinality(At({"opsThread", "durThread", "returnOp"})) = 0
      BY <2>3 DEF Inner
    <2>5. Succeeding = {} /\ Failing = {}
      BY <2>1 DEF Succeeding, Failing, At
    <2>6. Cardinality(Succeeding) = 0 /\ Cardinality(Failing) = 0
      BY <2>5, FS_EmptySet
    <2>7. sum = Cardinality(Units(OksBegun, Threads))
      <3>1. OksJoined = OksBegun
        BY <2>1 DEF OksJoined, OksBegun, Threads
      <3> QED
        BY <2>2, <3>1 DEF TallyInv, JoinInv
    <2>8. ops[ALL] = NumThreads * Executed(NumOps)
      <3> DEFINE own == {THREAD0 + tid[t] : t \in Threads}
                 f == [t \in Threads |-> THREAD0 + tid[t]]
      <3>1. \A t \in Threads : idx[t] = NumOps
        <4>1. \A t \in Threads : idx[t] <= NumOps /\ idx[t] >= NumOps /\ idx[t] \in Nat
          BY <2>0, <2>1, <2>2 DEF IterationInv, TypeOK
        <4> QED
          BY <4>1, ExecutedSteps
      <3>2. \A t \in Threads : ops[THREAD0 + tid[t]] = Executed(NumOps)
        <4>1. Executed(NumOps) \in Nat
          BY ExecutedSteps
        <4> QED
          BY <2>0, <2>1, <2>2, <3>1, <4>1 DEF ThreadCount, InRun
      <3>3. own \in SUBSET ThreadSlots
        BY <2>0, <2>1 DEF SlotOwnership, ThreadSlots, THREAD0, TypeOK
      <3>4. \A s \in ThreadSlots \ own : ops[s] = 0
        BY <2>0, <2>1, <2>2 DEF ZeroInv
      <3>5. Cardinality(own) = NumThreads
        <4>1. \A t, u \in Threads : THREAD0 + tid[t] = THREAD0 + tid[u] => t = u
          <5>1. \A t, u \in Threads : tid[t] = tid[u] => t = u
            BY <2>0, <2>1 DEF SlotOwnership
          <5>2. \A t \in Threads : tid[t] \in Nat
            BY <2>0 DEF TypeOK
          <5> QED
            BY <5>1, <5>2 DEF THREAD0
        <4>2. f \in Bijection(Threads, own)
          <5>1. f \in [Threads -> own]
            OBVIOUS
          <5>2. \A t, u \in Threads : f[t] = f[u] => t = u
            BY <4>1
          <5>3. \A s \in own : \E t \in Threads : f[t] = s
            OBVIOUS
          <5> HIDE DEF f, own
          <5> QED
            BY <5>1, <5>2, <5>3 DEF Bijection, Injection, Surjection, IsInjective
        <4> HIDE DEF own, f
        <4>3. ExistsBijection(Threads, own)
          BY <4>2 DEF ExistsBijection
        <4> QED
          BY <4>3, FiniteThreads, FS_Bijection
      <3>6. Executed(NumOps) \in Nat
        BY ExecutedSteps
      <3>7. \A s \in own : ops[s] = Executed(NumOps)
        BY <3>2
      <3>8. Cardinality(Units(ops, ThreadSlots)) = Cardinality(own) * Executed(NumOps)
        <4> HIDE DEF own
        <4> QED
          BY <3>3, <3>4, <3>6, <3>7, SharedSlots, SumOfEquals
      <3>9. ops[ALL] = Cardinality(Units(ops, ThreadSlots))
        <4>1. ops[ALL] \in Nat /\ Cardinality(Units(ops, ThreadSlots)) \in Nat
          <5>1. \A s \in ThreadSlots : ops[s] \in Nat
            BY <2>0, CountersAreNumbers, SharedSlots
          <5> QED
            BY <2>0, <5>1, CountersAreNumbers, SharedSlots, UnitsFinite
        <4>2. ops[ALL] = Cardinality(Units(ops, ThreadSlots)) + Cardinality(At({"opsThread"}))
          BY DEF SharedInv
        <4> QED
          BY <2>4, <4>1, <4>2
      <3> QED
        BY <3>5, <3>8, <3>9
    <2>9. /\ ops[READ] + ops[INSERT] <= ops[ALL]
          /\ Operations \cap {SCAN, READMODIFYWRITE} = {} => ops[READ] + ops[INSERT] = ops[ALL]
          /\ ops[ZEROREAD] <= ops[READ]
      <3>1. ops[READ] \in Nat /\ ops[INSERT] \in Nat /\ ops[ZEROREAD] \in Nat /\ ops[ALL] \in Nat
        BY <2>0, CountersAreNumbers
      <3>2. ClassInv
        BY DEF TallyInv
      <3> QED
        BY <2>2, <2>4, <3>1, <3>2 DEF ClassInv
    <2>10. sum <= ops[ALL] /\ (Upsert /\ WithLatency => sum + ops[ZEROREAD] = ops[ALL])
      <3>1. ops[ZEROREAD] \in Nat /\ ops[ALL] \in Nat /\ sum \in Nat
        BY <2>0, CountersAreNumbers DEF TypeOK
      <3>2. OutcomeInv
        BY DEF TallyInv
      <3> QED
        BY <2>2, <2>4, <2>6, <2>7, <3>1, <3>2 DEF OutcomeInv
    <2> QED
      BY <2>8, <2>9, <2>10 DEF RunReport
  <1> QED
    BY <1>1, FlowCorrect, SharedCorrect, TallyCorrect, PTL

-----------------------------------------------------------------------------
(***************************************************************************)
(* The keys of inserts, and the report of the load phase.                  *)
(***************************************************************************)

\* The keys of inserts come from the key generator, one each.
KeyInv ==
    /\ InsertKeysFresh
    /\ mpc \in {"spawn", "join"} => key_generator >= InsertStart
    /\ loading /\ PreLoaded = {} => /\ \A r \in records : r < key_generator
                                    /\ IsFiniteSet(records)

\* Every insert of the load phase succeeds, and brings one record.
LoadInv ==
    InLoad /\ PreLoaded = {} =>
        /\ Cardinality(records) = Cardinality(Units(OksBegun, Threads)) + Cardinality(At({"returnOp"}))
        /\ \A t \in At({"returnOp"}) : status[t] = kOK
        /\ \A t \in BegunThreads :
              oks[t] = Executed(idx[t]) + (IF pc[t] = "stage" THEN 1 ELSE 0)

\* At the end of a load phase its threads have all returned and been joined.
LoadedInv == InLoad /\ mpc = "loaded" => joined = NumThreads /\ \A t \in Threads : pc[t] = "returned"

\* What a client step does to the key generator and to the database.
LEMMA KeyEffect ==
  ASSUME TypeOK, NEW t \in Threads, Client(t)
  PROVE  /\ key_generator' \in {key_generator, key_generator + 1}
         /\ pc'[t] = "db" =>
               /\ pc[t] = "loop"
               /\ op'[t] = INSERT => /\ key'[t] = key_generator
                                     /\ key_generator' = key_generator + 1
         /\ pc[t] = "db" => pc'[t] # "db" /\ key_generator' = key_generator
         /\ pc[t] = "db" /\ op[t] = INSERT => records' = records \cup {key[t]}
         /\ pc[t] # "db" => records' = records
  <1> USE DEF TypeOK, GoTo
  <1>1. CASE DrawLoadKey(t)
    BY <1>1 DEF DrawLoadKey, NextSequenceKey
  <1>2. CASE SkipTransaction(t)
    BY <1>2 DEF SkipTransaction, NextSequenceKey
  <1>3. CASE ChooseTransaction(t)
    <2>1. PICK o \in OperationsOf(t) :
            /\ op' = [op EXCEPT ![t] = o]
            /\ IF o = INSERT
               THEN NextSequenceKey(t)
               ELSE /\ \E k \in TransactionKeys : key' = [key EXCEPT ![t] = k]
                    /\ UNCHANGED key_generator
      BY <1>3 DEF ChooseTransaction
    <2> QED
      BY <1>3, <2>1 DEF ChooseTransaction, NextSequenceKey
  <1>4. CASE CallDb(t)
    <2>1. pc[t] = "db" /\ key_generator' = key_generator
      BY <1>4 DEF CallDb
    <2>2. pc'[t] # "db"
      BY <1>4 DEF CallDb, INSERT, READ, UPDATE, SCAN, READMODIFYWRITE
    <2>3. op[t] = INSERT => records' = records \cup {key[t]}
      BY <1>4 DEF CallDb
    <2> QED
      BY <2>1, <2>2, <2>3
  <1>5. CASE Begin(t) \/ Account(t) \/ ReturnOp(t) \/ StageOutput(t) \/ Return(t)
    BY <1>5 DEF Begin, Account, CountOp, AddSample, SampleRead, CountZeroRead, SampleZeroRead,
                CountRead, SampleInsert, CountInsert, CountAll, CountThread, SampleThread,
                ReturnOp, StageOutput, Return
  <1> QED
    BY <1>1, <1>2, <1>3, <1>4, <1>5 DEF Client

\* A step of main() keeps the keys of inserts apart.
LEMMA KeyMain == ASSUME FlowInv, KeyInv, Main PROVE KeyInv'
  <1>0. BaseInv /\ TypeOK /\ PhaseInv /\ ZeroInv
    BY DEF FlowInv, IdInv, BaseInv
  <1>1. /\ UNCHANGED <<op, key, records>>
        /\ loading' => loading
        /\ mpc' = "spawn" /\ mpc # "spawn" => key_generator' = InsertStart
        /\ mpc' \in {"spawn", "join"} =>
              \/ mpc \in {"spawn", "join"} /\ key_generator' = key_generator
              \/ key_generator' = InsertStart
        /\ mpc # "start" /\ loading' => key_generator' = key_generator
    <2>1. CASE StartMain
      BY <2>1 DEF StartMain, InitWorkload, loading
    <2>2. CASE Spawn \/ Join \/ EndLoad
      BY <2>2 DEF Spawn, LastSpawn, Join, EndLoad, clientVars, loading
    <2>3. CASE PrepareRuns \/ EndRun \/ Finish
      BY <2>3 DEF PrepareRuns, EndRun, Finish, clientVars, loading
    <2>4. CASE BeginRun
      BY <1>0, <2>4 DEF BeginRun, InitWorkload, loading, PhaseInv
    <2> QED
      BY <2>1, <2>2, <2>3, <2>4 DEF Main
  <1>2. At({"db"})' = At({"db"})
    BY <1>0, MainPlaces DEF Inner
  <1>3. InsertKeysFresh'
    <2> SUFFICES ASSUME NEW t \in At({"db"}), op[t] = INSERT
                 PROVE  /\ key[t] \in InsertStart .. (key_generator' - 1)
                        /\ \A u \in At({"db"}) \ {t} : op[u] = INSERT => key[u] # key[t]
                        /\ loading' /\ PreLoaded = {} => key[t] \notin records
      BY <1>1, <1>2 DEF InsertKeysFresh
    <2>1. mpc \in {"spawn", "join"}
      BY <1>0 DEF At, PhaseInv, TypeOK, Running
    <2>2. key_generator' = key_generator
      BY <2>1 DEF Main, StartMain, Spawn, Join, EndLoad, PrepareRuns, BeginRun, EndRun, Finish
    <2> QED
      BY <1>1, <2>2 DEF KeyInv, InsertKeysFresh
  <1>4. mpc' \in {"spawn", "join"} => key_generator' >= InsertStart
    BY <1>1, KeysAssumption DEF KeyInv
  <1>5. ASSUME loading', PreLoaded = {}
        PROVE  (\A r \in records' : r < key_generator') /\ IsFiniteSet(records')
    <2>1. loading
      BY <1>1, <1>5
    <2>2. CASE mpc = "start"
      BY <1>0, <1>1, <1>5, <2>2, FS_EmptySet DEF ZeroInv
    <2>3. CASE mpc # "start"
      BY <1>1, <1>5, <2>1, <2>3 DEF KeyInv
    <2> QED
      BY <2>2, <2>3
  <1> QED
    BY <1>3, <1>4, <1>5 DEF KeyInv

\* So does a client step: a new key is above all keys drawn before.
LEMMA KeyClient ==
  ASSUME FlowInv, KeyInv, NEW t \in Threads, Client(t)
  PROVE  KeyInv'
  <1>0. BaseInv /\ TypeOK /\ SlotOwnership /\ OperationInv
    BY DEF FlowInv, IdInv, BaseInv
  <1>1. OthersKept(t) /\ ThreadEffect(t)
    BY <1>0, ClientEffect
  <1>2. mpc \in {"spawn", "join"} /\ mpc' = mpc /\ (loading' <=> loading)
    BY <1>0, ClientPhase DEF loading
  <1>3. /\ key_generator' \in {key_generator, key_generator + 1}
        /\ pc'[t] = "db" =>
               /\ pc[t] = "loop"
               /\ op'[t] = INSERT => /\ key'[t] = key_generator
                                     /\ key_generator' = key_generator + 1
        /\ pc[t] = "db" => pc'[t] # "db" /\ key_generator' = key_generator
        /\ pc[t] = "db" /\ op[t] = INSERT => records' = records \cup {key[t]}
        /\ pc[t] # "db" => records' = records
    BY <1>0, KeyEffect
  <1>4. /\ key_generator \in Nat /\ InsertStart \in Nat /\ key_generator >= InsertStart
        /\ \A u \in Threads : key[u] \in Nat
    BY <1>0, <1>2, KeysAssumption DEF TypeOK, KeyInv
  <1>5. \A u \in Threads : pc[u] = "db" /\ op[u] = INSERT =>
              /\ key[u] \in InsertStart .. (key_generator - 1)
              /\ \A v \in Threads \ {u} : pc[v] = "db" /\ op[v] = INSERT => key[v] # key[u]
              /\ loading /\ PreLoaded = {} => key[u] \notin records
    BY DEF KeyInv, InsertKeysFresh, At
  <1>6. loading /\ pc[t] = "db" => op[t] = INSERT
    BY <1>0 DEF OperationInv
  <1>7. ASSUME loading, PreLoaded = {}
        PROVE  (\A r \in records' : r < key_generator') /\ IsFiniteSet(records')
    <2>1. (\A r \in records : r < key_generator) /\ IsFiniteSet(records)
      BY <1>7 DEF KeyInv
    <2>2. records \subseteq Nat
      BY <1>0 DEF TypeOK
    <2>3. CASE pc[t] = "db"
      <3>1. records' = records \cup {key[t]} /\ key_generator' = key_generator
        BY <1>3, <1>6, <1>7, <2>3
      <3>2. key[t] < key_generator
        BY <1>4, <1>5, <1>6, <1>7, <2>3
      <3>3. IsFiniteSet(records')
        BY <2>1, <3>1, FS_AddElement
      <3> QED
        BY <2>1, <3>1, <3>2, <3>3
    <2>4. CASE pc[t] # "db"
      <3>1. records' = records
        BY <1>3, <2>4
      <3>2. \A r \in records : r < key_generator'
        BY <1>3, <1>4, <2>1, <2>2
      <3> QED
        BY <2>1, <3>1, <3>2
    <2> QED
      BY <2>3, <2>4
  <1>8. InsertKeysFresh'
    <2> SUFFICES ASSUME NEW u \in Threads, pc'[u] = "db", op'[u] = INSERT
                 PROVE  /\ key'[u] \in InsertStart .. (key_generator' - 1)
                        /\ \A v \in Threads \ {u} :
                              pc'[v] = "db" /\ op'[v] = INSERT => key'[v] # key'[u]
                        /\ loading /\ PreLoaded = {} => key'[u] \notin records'
      BY <1>2 DEF InsertKeysFresh, At
    <2>1. CASE u = t
      <3>1. pc[t] = "loop" /\ key'[t] = key_generator /\ key_generator' = key_generator + 1
        BY <1>3, <2>1
      <3>2. \A v \in Threads \ {t} : pc'[v] = "db" /\ op'[v] = INSERT => key'[v] < key_generator
        BY <1>1, <1>4, <1>5 DEF OthersKept
      <3>3. loading /\ PreLoaded = {} => key_generator \notin records'
        BY <1>0, <1>3, <1>4, <3>1 DEF KeyInv, TypeOK
      <3> QED
        BY <1>4, <2>1, <3>1, <3>2, <3>3
    <2>2. CASE u # t
      <3>1. pc[u] = "db" /\ op[u] = INSERT /\ key'[u] = key[u]
        BY <1>1, <2>2 DEF OthersKept
      <3>2. key[u] \in InsertStart .. (key_generator' - 1) /\ key[u] < key_generator
        BY <1>3, <1>4, <1>5, <3>1
      <3>3. ASSUME NEW v \in Threads \ {u}, pc'[v] = "db", op'[v] = INSERT PROVE key'[v] # key[u]
        <4>1. CASE v = t
          BY <1>3, <1>4, <3>2, <3>3, <4>1
        <4>2. CASE v # t
          BY <1>1, <1>5, <3>1, <3>3, <4>2 DEF OthersKept
        <4> QED
          BY <4>1, <4>2
      <3>4. ASSUME loading, PreLoaded = {} PROVE key[u] \notin records'
        BY <1>3, <1>5, <1>6, <2>2, <3>1, <3>4
      <3> QED
        BY <3>1, <3>2, <3>3, <3>4
    <2> QED
      BY <2>1, <2>2
  <1>9. key_generator' >= InsertStart
    BY <1>3, <1>4
  <1> QED
    BY <1>2, <1>7, <1>8, <1>9 DEF KeyInv

\* A step of main() preserves the tally of the load phase.
LEMMA LoadMain == ASSUME FlowInv, KeyInv, LoadInv, Main PROVE LoadInv'
  <1>0. BaseInv /\ TypeOK /\ ZeroInv
    BY DEF FlowInv, IdInv, BaseInv
  <1> SUFFICES ASSUME InLoad', PreLoaded = {} PROVE LoadInv'
    BY DEF LoadInv
  <1>1. At({"returnOp"})' = At({"returnOp"})
    BY <1>0, MainPlaces DEF Inner
  <1>2. UNCHANGED <<records, oks, idx, status>>
    BY DEF Main, StartMain, Spawn, Join, EndLoad, PrepareRuns, BeginRun, EndRun, Finish, clientVars
  <1>3. CASE (Spawn \/ Join \/ EndLoad) /\ InLoad
    <2>1. /\ \A t \in Threads : Begun(t)' <=> Begun(t)
          /\ BegunThreads' = BegunThreads
          /\ \A t \in BegunThreads : pc'[t] = pc[t]
      <3>1. CASE Spawn
        BY <1>0, <3>1, SpawnFrame DEF BegunThreads, Begun
      <3>2. CASE Join \/ EndLoad
        BY <3>2 DEF Join, EndLoad, clientVars, BegunThreads, Begun
      <3> QED
        BY <1>3, <3>1, <3>2
    <2>2. OksBegun' = OksBegun
      BY <1>2, <2>1 DEF OksBegun
    <2>3. \A i : Executed(i)' = Executed(i)
      BY <1>3, PhaseFrame DEF Spawn, Join, EndLoad
    <2> QED
      BY <1>1, <1>2, <1>3, <2>1, <2>2, <2>3 DEF LoadInv
  <1>4. CASE StartMain /\ mpc' = "spawn"
    <2>1. BegunThreads' = {} /\ \A t \in Threads : pc'[t] = "idle"
      BY <1>0, <1>4, MainFrame
    <2>2. Cardinality(Units(OksBegun', Threads)) = 0
      <3>1. \A t \in Threads : OksBegun'[t] = 0
        BY <2>1 DEF OksBegun, Begun
      <3> QED
        BY <3>1, FiniteThreads, SumOfZeros
    <2>3. At({"returnOp"})' = {} /\ records' = {}
      BY <1>0, <1>2, <1>4, <2>1 DEF At, ZeroInv, StartMain
    <2>4. Cardinality(records') = 0 /\ Cardinality(At({"returnOp"})') = 0
      BY <2>3, FS_EmptySet
    <2> QED
      BY <2>1, <2>2, <2>3, <2>4 DEF LoadInv
  <1> QED
    BY <1>0, <1>3, <1>4, MainFrame

\* A client step preserves it: an insert of the load phase meets no record with
\* its key, so it succeeds and brings one record.
LEMMA LoadClient ==
  ASSUME FlowInv, KeyInv, LoadInv, NEW t \in Threads, Client(t)
  PROVE  LoadInv'
  <1>0. BaseInv /\ TypeOK /\ SlotOwnership /\ OperationInv /\ IterationInv
    BY DEF FlowInv, IdInv, BaseInv
  <1>1. GoTo(t, pc'[t]) /\ OthersKept(t) /\ ThreadEffect(t) /\ pc[t] \notin {"idle", "returned"}
    BY <1>0, ClientEffect
  <1>2. InLoad' <=> InLoad
    BY <1>0, ClientPhase
  <1> SUFFICES ASSUME InLoad, loading, PreLoaded = {} PROVE LoadInv'
    BY <1>2 DEF LoadInv, InLoad
  <1>3. /\ NumOps \in Nat
        /\ \A i : RealDo(i)' = RealDo(i)
        /\ \A i : Executed(i)' = Executed(i)
    BY <1>0, ClientPhase, PhaseFrame, ExecutedSteps
  <1>4. pc[t] \in {"begin", "loop", "db", "returnOp", "stage"}
    BY <1>0, <1>1 DEF OperationInv
  <1>5. pc[t] = "db" => /\ status'[t] = kOK
                        /\ records' = records \cup {key[t]} /\ key[t] \notin records
    <2> SUFFICES ASSUME pc[t] = "db" PROVE /\ status'[t] = kOK
                                           /\ records' = records \cup {key[t]}
                                           /\ key[t] \notin records
      OBVIOUS
    <2>1. op[t] = INSERT
      BY <1>0 DEF OperationInv
    <2>2. key[t] \notin records
      BY <2>1 DEF KeyInv, InsertKeysFresh, At
    <2>3. status'[t] = kOK
      BY <1>1, <2>1, <2>2 DEF ThreadEffect, DbStatus, INSERT, READ
    <2> QED
      BY <1>0, <2>1, <2>2, <2>3, KeyEffect
  <1>6. pc[t] # "db" => records' = records
    BY <1>0, KeyEffect
  <1>7. \A u \in Threads : pc[u] = "returnOp" => status[u] = kOK
    BY DEF LoadInv, At
  <1>8. \A u \in Threads : pc'[u] = "returnOp" => status'[u] = kOK
    <2>1. pc'[t] = "returnOp" => pc[t] = "db"
      BY <1>1, <1>4 DEF ThreadEffect
    <2> QED
      BY <1>1, <1>5, <1>7, <2>1 DEF OthersKept
  <1>9. Cardinality(records') = Cardinality(Units(OksBegun', Threads))
                                  + Cardinality(At({"returnOp"})')
    <2> DEFINE total == Cardinality(Units(OksBegun, Threads))
               n == Cardinality(At({"returnOp"}))
               r == Cardinality(records)
    <2>1. total \in Nat
      BY <1>0, CountersAreNumbers
    <2>2. total' = total + (IF pc[t] = "returnOp" THEN 1 ELSE 0)
      BY <1>0, <1>1, <1>7, OksGrow
    <2>3. /\ n \in Nat
          /\ n' = n - (IF pc[t] \in {"returnOp"} THEN 1 ELSE 0)
                    + (IF pc'[t] \in {"returnOp"} THEN 1 ELSE 0)
      BY <1>0, <1>1, AtMoves
    <2>4. pc'[t] = "returnOp" <=> pc[t] = "db"
      BY <1>1, <1>4 DEF ThreadEffect
    <2>5. r' = r + (IF pc[t] = "db" THEN 1 ELSE 0) /\ r \in Nat
      <3>1. IsFiniteSet(records)
        BY DEF KeyInv
      <3>2. r \in Nat
        BY <3>1, FS_CardinalityType
      <3>3. CASE pc[t] = "db"
        BY <1>5, <3>1, <3>2, <3>3, FS_AddElement
      <3>4. CASE pc[t] # "db"
        BY <1>6, <3>2, <3>4
      <3> QED
        BY <3>2, <3>3, <3>4
    <2>6. r = total + n
      BY DEF LoadInv
    <2> HIDE DEF total, n, r
    <2>7. r' = total' + n'
      BY <2>1, <2>2, <2>3, <2>4, <2>5, <2>6
    <2> QED
      BY <2>7 DEF total, n, r
  <1>10. \A u \in BegunThreads' :
            oks'[u] = Executed(idx'[u]) + (IF pc'[u] = "stage" THEN 1 ELSE 0)
    <2> SUFFICES ASSUME NEW u \in Threads, Begun(u)'
                 PROVE  oks'[u] = Executed(idx'[u]) + (IF pc'[u] = "stage" THEN 1 ELSE 0)
      BY DEF BegunThreads
    <2>1. CASE u # t
      <3>1. Begun(u)
        BY <1>1, <2>1 DEF Begun, OthersKept
      <3> QED
        BY <1>1, <2>1, <3>1 DEF LoadInv, BegunThreads, OthersKept
    <2>2. CASE u = t /\ pc[t] = "begin"
      BY <1>1, <2>2, ExecutedSteps DEF ThreadEffect
    <2>3. CASE u = t /\ pc[t] # "begin"
      <3>1. Begun(t) /\ idx[t] \in Nat /\ oks[t] \in Nat
        BY <1>0, <1>1, <2>3 DEF Begun, TypeOK
      <3>2. oks[t] = Executed(idx[t]) + (IF pc[t] = "stage" THEN 1 ELSE 0)
        BY <3>1 DEF LoadInv, BegunThreads
      <3>3. /\ Executed(idx[t]) \in Nat
            /\ Executed(idx[t] + 1) = Executed(idx[t]) + (IF RealDo(idx[t]) THEN 1 ELSE 0)
        BY <3>1, ExecutedSteps
      <3>4. pc[t] \in Inner => RealDo(idx[t])
        BY <1>0, <3>1 DEF IterationInv, BegunThreads
      <3>5. CASE pc[t] \in {"loop", "db"}
        BY <1>1, <2>3, <3>2, <3>3, <3>5 DEF ThreadEffect
      <3>6. CASE pc[t] \in {"returnOp", "stage"}
        BY <1>1, <1>7, <2>3, <3>1, <3>2, <3>3, <3>4, <3>6 DEF ThreadEffect, Inner
      <3> QED
        BY <1>4, <2>3, <3>5, <3>6
    <2> QED
      BY <2>1, <2>2, <2>3
  <1> QED
    BY <1>3, <1>8, <1>9, <1>10 DEF LoadInv, At

\* The tally of the load phase, and the keys it inserts, hold in every state.
LEMMA LoadCorrect == Spec => [](KeyInv /\ LoadInv /\ LoadedInv)
  <1>1. Init => KeyInv /\ LoadInv /\ LoadedInv
    <2> SUFFICES ASSUME Init PROVE KeyInv /\ LoadInv /\ LoadedInv
      OBVIOUS
    <2>1. InsertKeysFresh
      BY DEF Init, InsertKeysFresh, At
    <2> QED
      BY <2>1, FS_EmptySet DEF Init, KeyInv, LoadInv, LoadedInv, InLoad
  <1>2. FlowInv /\ KeyInv /\ LoadInv /\ LoadedInv /\ [Next]_vars => KeyInv' /\ LoadInv' /\ LoadedInv'
    <2> SUFFICES ASSUME FlowInv, KeyInv, LoadInv, LoadedInv, [Next]_vars
                 PROVE  KeyInv' /\ LoadInv' /\ LoadedInv'
      OBVIOUS
    <2>1. CASE UNCHANGED vars
      <3>1. InLoad' = InLoad /\ OksBegun' = OksBegun /\ BegunThreads' = BegunThreads
        BY <2>1 DEF vars, InLoad, loading, OksBegun, BegunThreads, Begun
      <3>2. \A P : At(P)' = At(P)
        BY <2>1 DEF vars, At
      <3>3. \A i : Executed(i)' = Executed(i)
        BY <2>1, PhaseFrame DEF vars
      <3>4. KeyInv'
        BY <2>1, <3>2 DEF KeyInv, InsertKeysFresh, vars, loading
      <3>5. LoadInv' /\ LoadedInv'
        BY <2>1, <3>1, <3>2, <3>3 DEF LoadInv, LoadedInv, vars
      <3> QED
        BY <3>4, <3>5
    <2>2. CASE Main
      <3>1. KeyInv' /\ LoadInv'
        BY <2>2, KeyMain, LoadMain
      <3>2. LoadedInv'
        <4> SUFFICES ASSUME InLoad', mpc' = "loaded" PROVE LoadedInv'
          BY DEF LoadedInv
        <4>0. BaseInv /\ ZeroInv
          BY DEF FlowInv, IdInv, BaseInv
        <4>1. EndLoad
          BY <2>2, <4>0, MainFrame DEF Spawn, Join
        <4>2. joined = NumThreads /\ \A t \in Threads : pc[t] = "returned"
          BY <4>0, <4>1, AllReturned DEF EndLoad
        <4> QED
          BY <4>1, <4>2 DEF EndLoad, clientVars, LoadedInv
      <3> QED
        BY <3>1, <3>2
    <2>3. CASE \E t \in Threads : Client(t)
      <3>1. PICK t \in Threads : Client(t)
        BY <2>3
      <3>2. mpc' # "loaded"
        BY <3>1, ClientPhase DEF FlowInv, IdInv
      <3> QED
        BY <3>1, <3>2, KeyClient, LoadClient DEF LoadedInv
    <2> QED
      BY <2>1, <2>2, <2>3 DEF Next, Terminated
  <1> QED
    BY <1>1, <1>2, FlowCorrect, PTL DEF Spec

\* No two inserts of a phase have the same key, so the number main() reports after
\* the load phase is the number of records an empty database has received: the
\* executed iterations of all threads.
THEOREM LoadIsReported == Spec => []LoadReport
  <1>1. FlowInv /\ TallyInv /\ KeyInv /\ LoadInv /\ LoadedInv => LoadReport
    <2> SUFFICES ASSUME FlowInv, TallyInv, KeyInv, LoadInv, LoadedInv,
                        mpc = "loaded", initCount = 1, PreLoaded = {}
                 PROVE  sum = Cardinality(records) /\ sum = NumThreads * Executed(NumOps)
      BY DEF LoadReport, KeyInv
    <2>0. BaseInv /\ TypeOK /\ ZeroInv /\ IterationInv
      BY DEF FlowInv, IdInv, BaseInv
    <2>1. InLoad
      BY <2>0 DEF ZeroInv, InLoad
    <2>2. /\ joined = NumThreads
          /\ \A t \in Threads : pc[t] = "returned" /\ Begun(t) /\ t \in BegunThreads
      BY <2>1 DEF LoadedInv, BegunThreads, Begun
    <2>3. OksJoined = OksBegun
      BY <2>2 DEF OksJoined, OksBegun, Threads
    <2>4. sum = Cardinality(Units(OksBegun, Threads))
      BY <2>1, <2>3 DEF TallyInv, JoinInv
    <2>5. Cardinality(At({"returnOp"})) = 0
      <3>1. At({"returnOp"}) = {}
        BY <2>2 DEF At
      <3> QED
        BY <3>1, FS_EmptySet
    <2>6. sum = Cardinality(records)
      <3>1. sum \in Nat
        BY <2>0 DEF TypeOK
      <3>2. Cardinality(records) = Cardinality(Units(OksBegun, Threads)) + Cardinality(At({"returnOp"}))
        BY <2>1 DEF LoadInv
      <3> QED
        BY <2>4, <2>5, <3>1, <3>2
    <2>7. Executed(NumOps) \in Nat /\ NumOps \in Nat
      BY ExecutedSteps
    <2>8. \A t \in Threads : OksBegun[t] = Executed(NumOps)
      <3>1. \A t \in Threads : idx[t] <= NumOps /\ idx[t] >= NumOps /\ idx[t] \in Nat
        BY <2>0, <2>1, <2>2 DEF IterationInv, TypeOK
      <3>2. \A t \in Threads : idx[t] = NumOps
        BY <2>7, <3>1
      <3>3. \A t \in Threads : oks[t] = Executed(NumOps)
        BY <2>1, <2>2, <2>7, <3>2 DEF LoadInv
      <3> QED
        BY <2>2, <3>3 DEF OksBegun
    <2>9. Cardinality(Units(OksBegun, Threads)) = Cardinality(Threads) * Executed(NumOps)
      <3> HIDE DEF OksBegun
      <3> QED
        BY <2>7, <2>8, FiniteThreads, SumOfEquals
    <2> QED
      BY <2>4, <2>6, <2>9, FiniteThreads
  <1> QED
    BY <1>1, FlowCorrect, TallyCorrect, LoadCorrect, PTL
=============================================================================
