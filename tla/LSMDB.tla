-------------------------------- MODULE LSMDB -------------------------------
(***************************************************************************)
(* The adapters of the LSM stores (db/leveldb_db.cc, db/leveldbVlog_db.cc, *)
(* db/rocksdb_db.cc) with their configuration (db/basic_config.cc): the    *)
(* constructor, the calls of the DB interface and the report functions     *)
(* behind doSomeThing.  Every call to the store or to the file system is a *)
(* step; the stores are external: a map from keys to values whose levels   *)
(* gain and lose files in the background.  A value is never read back by   *)
(* the adapters, so a key is stored or not.                                *)
(*                                                                         *)
(* A report file is represented by the call whose text it begins with.     *)
(* The files are opened without O_TRUNC: what follows that text may be the *)
(* end of a longer, older one, and is not represented.                     *)
(***************************************************************************)
EXTENDS Integers, FiniteSetsExt, SequencesExt

CONSTANTS Clients,          \* the threads
          Keys,             \* a set of numbers, in the order of the store
          Workloads,        \* what the clients do and what they find, see WorkloadsAssumption
          NumLevels,        \* levels of the store and size of fd[] (both 7)
          FilterSlots,      \* size of bits_per_key_per_filter (32)
          MaxLen,           \* bound on the length of a scan
          MayFail,          \* whether calls of the store may fail
          OldReports        \* the report files an earlier process has left

CallNames == {"Read", "Insert", "Update", "Delete", "Scan", "adjust_filter", "printStats",
              "printFilterCount", "printAccessFreq", "printFP"}

ASSUME KeysAssumption == Keys \subseteq Nat
ASSUME WorkloadsAssumption ==
    \A w \in Workloads :
        /\ w.clients \subseteq Clients          \* the clients that make calls
        /\ w.calls \subseteq CallNames /\ w.max \in Nat    \* which ones, and how many each
        /\ w.keys \subseteq Keys /\ IsFiniteSet(w.keys)                    \* the store found
        /\ w.levels \subseteq 0..(NumLevels - 1)
        /\ w.compactions \in Nat                \* bound on the changes of the levels
ASSUME NumLevelsAssumption == NumLevels \in Nat \ {0, 1, 2} /\ FilterSlots \in Nat \ {0}

VARIABLES kind,         \* "leveldb", "leveldbVlog" or "rocksdb"
          config,       \* the ini file and the file with the bits of the filters
          phase,        \* how far the process is, or how it ended
          lrusNum,      \* options.opEp_.lrus_num_, 0 when the constructor does not set it
          stored,       \* the keys in the store
          levelFiles,   \* the levels with files
          compactions,  \* changes of levelFiles so far
          callCount,    \* printFilterCount's static call_count
          heads,        \* for each report file the call whose text it begins with
          usable,       \* the report files that can be opened again
          mode,         \* whether the mode open() finds in place of the missing argument
                        \* lets the file be opened again
          workload, made, at,
          acked,        \* the keys an Insert or Update has returned kOK for
          during        \* the calls that ran at some time during a client's call

adapterVars == <<kind, config, phase, lrusNum, stored, levelFiles, compactions, callCount,
                 heads, usable, mode, workload, made, at, acked, during>>
clientVars == <<made, during>>
storeVars == <<stored, levelFiles, compactions>>
reportVars == <<callCount, heads, usable>>
setupVars == <<kind, config, lrusNum, mode, workload>>

kOK == 0
kErrorNoData == 1

Idle == [pc |-> "idle", name |-> "none", key |-> 0, left |-> 0, count |-> 0, rest |-> {},
         found |-> 0, levels |-> 0, seen |-> {}, index |-> 0, extra |-> FALSE, fd |-> FALSE, wrote |-> {},
         code |-> kOK, known |-> {}]

Id(c) == <<c, made[c]>>

-----------------------------------------------------------------------------
(* The constructor *)

AdapterInit ==
    /\ kind = "none" /\ config = [ini |-> "absent"] /\ phase = "none" /\ lrusNum = 0
    /\ stored = {} /\ levelFiles = {} /\ compactions = 0
    /\ callCount = 0 /\ heads = [f \in OldReports |-> <<"old", 0>>]
    /\ usable = OldReports /\ mode \in BOOLEAN
    /\ workload \in Workloads /\ made = [c \in Clients |-> 0] /\ at = [c \in Clients |-> Idle]
    /\ acked = {} /\ during = [c \in Clients |-> {}]

\* new LevelDB(dbfilename, configpath) begins.
Construct(k, cfg) ==
    /\ phase = "none"
    /\ kind' = k /\ config' = cfg /\ phase' = "config"
    /\ UNCHANGED <<lrusNum, storeVars, reportVars, mode, workload, at, acked, clientVars>>

\* read_ini throws when the file is absent, and a read of a missing key throws:
\* nobody catches the exception.  An empty file fails the assertion.
setConfigPath ==
    /\ phase = "config"
    /\ phase' = CASE config.ini \in {"absent", "incomplete"} -> "terminated"
                  [] config.ini = "empty" -> "aborted"
                  [] OTHER -> "filter"
    /\ UNCHANGED <<setupVars, storeVars, reportVars, at, acked, clientVars>>

\* The numbers fscanf reads, up to the first zero: the filters of a file.
BeforeZero(bits) ==
    LET zero == SelectInSeq(bits, LAMBDA b : b = 0)
    IN  IF zero = 0 THEN bits ELSE SubSeq(bits, 1, zero - 1)

\* bits_per_key_per_filter has room for the numbers and a zero after them.
BitsFit(bits) == Len(bits) <= FilterSlots /\ Len(BeforeZero(bits)) < FilterSlots

\* lrus_num_ = i + 1 after the loop to the first zero.
LrusNum(bits) == Len(BeforeZero(bits)) + 1

\* The filter policy of leveldb and leveldbVlog by bloom_type: 0 one filter, 1 a
\* file name, 2 the numbers of the bits file, others a message and no policy.
\* fscanf on the NULL of a file that does not open crashes; numbers without room
\* for a zero are written or read outside the array.
MakeFilter ==
    /\ phase = "filter" /\ kind # "rocksdb"
    /\ IF config.bloomType # 2
       THEN phase' = "open" /\ UNCHANGED lrusNum
       ELSE \/ ~config.bitsFile /\ phase' = "crashed" /\ UNCHANGED lrusNum
            \/ config.bitsFile /\ BitsFit(config.bits)
               /\ phase' = "open" /\ lrusNum' = LrusNum(config.bits)
            \/ config.bitsFile /\ ~BitsFit(config.bits)
               /\ phase' \in {"crashed", "open"} /\ lrusNum' \in 1..(Len(config.bits) + 2)
    /\ UNCHANGED <<kind, config, mode, workload, storeVars, reportVars, at, acked, clientVars>>

\* rocksdb reads the bits file whatever the type, into a vector.
MakeFilterRocks ==
    /\ phase = "filter" /\ kind = "rocksdb"
    /\ phase' = IF config.bitsFile THEN "open" ELSE "crashed"
    /\ UNCHANGED <<setupVars, storeVars, reportVars, at, acked, clientVars>>

\* exit(0) in leveldb and leveldbVlog, exit(1) in rocksdb.
ExitPhase == IF kind = "rocksdb" THEN "exited 1" ELSE "exited 0"

\* DB::Open creates the store when it is missing, and finds what it holds.
Open ==
    /\ phase = "open"
    /\ \/ /\ phase' = "serving"
          /\ stored' = workload.keys /\ levelFiles' = workload.levels
       \/ MayFail /\ phase' = ExitPhase /\ UNCHANGED <<stored, levelFiles>>
    /\ UNCHANGED <<setupVars, compactions, reportVars, at, acked, clientVars>>

-----------------------------------------------------------------------------
(* The calls *)

Go(c, new) == at' = [at EXCEPT ![c] = new]

\* A call of c begins; the calls of the others run during it and it during theirs.
Begin(c, new) ==
    /\ phase = "serving" /\ at[c].pc = "idle" /\ made[c] < workload.max
    /\ c \in workload.clients /\ new.name \in workload.calls
    /\ made' = [made EXCEPT ![c] = @ + 1]
    /\ Go(c, [new EXCEPT !.known = IF new.name = "Read" THEN acked ELSE {}])
    /\ during' = [d \in Clients |->
                    IF d = c THEN {Id(e) : e \in {e \in Clients : at[e].pc # "idle"}}
                                  \cup {<<c, made[c] + 1>>}
                    ELSE IF at[d].pc # "idle" THEN during[d] \cup {<<c, made[c] + 1>>}
                    ELSE during[d]]
    /\ UNCHANGED <<setupVars, phase, storeVars, reportVars, acked>>

\* The call of c returns.
Returned(c, code) == Go(c, [at[c] EXCEPT !.pc = "returned", !.code = code])

Return(c) ==
    /\ phase = "serving" /\ at[c].pc = "returned"
    /\ Go(c, Idle)
    /\ acked' = IF at[c].name \in {"Insert", "Update"} THEN acked \cup {at[c].key} ELSE acked
    /\ during' = [during EXCEPT ![c] = {}]
    /\ UNCHANGED <<setupVars, phase, storeVars, reportVars, made>>

\* exit() in one thread ends them all.
Exit == phase' = ExitPhase /\ UNCHANGED at

Read(c) == \E k \in Keys : Begin(c, [Idle EXCEPT !.pc = "get", !.name = "Read", !.key = k])

Get(c) ==
    /\ phase = "serving" /\ at[c].pc = "get"
    /\ \/ /\ Returned(c, IF at[c].key \in stored THEN kOK ELSE kErrorNoData)
          /\ UNCHANGED phase
       \/ MayFail /\ Exit
    /\ UNCHANGED <<setupVars, storeVars, reportVars, acked, clientVars>>

\* Insert and Update put the values one after another under the one key, and
\* exit unless there was exactly one; Delete is an Insert of no values.
Insert(c) ==
    \E k \in Keys : \E name \in {"Insert", "Update", "Delete"} : \E n \in 0..2 :
        /\ name = "Delete" => n = 0
        /\ Begin(c, [Idle EXCEPT !.pc = "put", !.name = name, !.key = k, !.left = n])

PutFailed_Ignored(c) ==
    /\ Go(c, [at[c] EXCEPT !.left = @ - 1, !.count = @ + 1])
    /\ UNCHANGED <<phase, stored, levelFiles>>

PutFailed(c) == Exit /\ UNCHANGED <<stored, levelFiles>>

Put(c) ==
    /\ phase = "serving" /\ at[c].pc = "put" /\ at[c].left > 0
    /\ \/ /\ stored' = stored \cup {at[c].key}
          /\ Go(c, [at[c] EXCEPT !.left = @ - 1, !.count = @ + 1])
          /\ UNCHANGED <<phase, levelFiles>>
       \/ MayFail /\ PutFailed(c)
    /\ UNCHANGED <<setupVars, compactions, reportVars, acked, clientVars>>

PutsDone(c) ==
    /\ phase = "serving" /\ at[c].pc = "put" /\ at[c].left = 0
    /\ IF at[c].count # 1 THEN Exit ELSE Returned(c, kOK) /\ UNCHANGED phase
    /\ UNCHANGED <<setupVars, storeVars, reportVars, acked, clientVars>>

\* NewIterator and Seek: the iterator stands on the first key not below key, and
\* sees the store as it is now.  leveldbVlog has no scan.
Scan(c) ==
    \E k \in Keys : \E len \in 1..MaxLen :
        Begin(c, [Idle EXCEPT !.name = "Scan", !.key = k, !.left = len, !.count = len,
                              !.pc = IF kind = "leveldbVlog" THEN "returned" ELSE "next",
                              !.rest = {s \in stored : s >= k},
                              !.found = Cardinality({s \in stored : s >= k})])

\* for (int i = 0; i < len; i++) iter->Next(), without Valid().
NextCalls(c) == at[c].left > 0

\* Next on an iterator past the end fails an assertion, or does nothing.
Next(c) ==
    /\ phase = "serving" /\ at[c].pc = "next"
    /\ IF ~NextCalls(c)
       THEN Returned(c, kOK) /\ UNCHANGED phase
       ELSE \/ /\ at[c].rest # {}
               /\ Go(c, [at[c] EXCEPT !.left = @ - 1, !.rest = @ \ {Min(@)}])
               /\ UNCHANGED phase
            \/ /\ at[c].rest = {}
               /\ Go(c, [at[c] EXCEPT !.left = @ - 1, !.pc = "overrun"])
               /\ UNCHANGED phase
    /\ UNCHANGED <<setupVars, storeVars, reportVars, acked, clientVars>>

\* What follows an access out of bounds: undefined, so a crash, or the call goes on.
AfterOverrun(c) ==
    /\ phase = "serving" /\ at[c].pc = "overrun"
    /\ \/ phase' = "crashed" /\ UNCHANGED at
       \/ Go(c, [at[c] EXCEPT !.pc = IF at[c].name = "Scan" THEN "next" ELSE "write"])
          /\ UNCHANGED phase
    /\ UNCHANGED <<setupVars, storeVars, reportVars, acked, clientVars>>

-----------------------------------------------------------------------------
(* The reports *)

\* doSomeThing: rocksdb only prints its statistics.  adjust_filter and printStats
\* are one call of the store.  Nothing calls printFilterCount, whose counter is
\* unprotected: it runs alone.
Dispatch(name) ==
    IF name \in {"adjust_filter", "printStats"} \/ kind = "rocksdb" THEN "returned"
    ELSE IF name = "printFP" THEN "file" ELSE "levels"

doSomeThing(c) ==
    \E name \in workload.calls \ {"Read", "Insert", "Update", "Delete", "Scan"} :
        /\ name = "printFilterCount" => \A d \in Clients : at[d].name # name
        /\ Begin(c, [Idle EXCEPT !.name = name, !.pc = Dispatch(name)])

\* The loops count level 0 (leveldb's printAccessFreq: 0, 1 and 2) without asking
\* the store for its number of files.
Uncounted(c) == IF at[c].name = "printAccessFreq" /\ kind = "leveldb" THEN 0..2 ELSE {0}

\* GetProperty fails for a level the store does not have.
CountLevel(c) ==
    /\ phase = "serving" /\ at[c].pc = "levels"
    /\ LET l == at[c].levels
       IN  IF l \in Uncounted(c) \/ l \in levelFiles
           THEN Go(c, [at[c] EXCEPT !.levels = @ + 1,
                                    !.seen = IF l \in levelFiles THEN @ \cup {l} ELSE @])
           ELSE Go(c, [at[c] EXCEPT !.pc = "file"])
    /\ UNCHANGED <<setupVars, phase, storeVars, reportVars, acked, clientVars>>

LastFile_OneMore(c) ==
    CASE at[c].name = "printAccessFreq" -> at[c].levels + 1
      [] at[c].name = "printFilterCount" -> at[c].levels
      [] at[c].name = "printFP" -> 3

\* The last file of a report: "i <= levels", "i < levels", and four files.
LastFile(c) ==
    CASE at[c].name = "printAccessFreq" -> at[c].levels
      [] at[c].name = "printFilterCount" -> at[c].levels - 1
      [] at[c].name = "printFP" -> 3

File(c) ==
    CASE at[c].name = "printAccessFreq" ->
            <<IF at[c].extra THEN "extra_infos" ELSE "access_frequencies", at[c].index>>
      [] at[c].name = "printFilterCount" -> <<"filter_count", at[c].index, callCount>>
      [] at[c].name = "printFP" -> <<"fp", at[c].index>>

\* Created with a mode, or with whatever the missing third argument of open is.
WithMode(c) == at[c].name = "printFP" /\ kind = "leveldb"

\* open and GetProperty.  With i = 7 the descriptor is stored outside fd[7].
OpenFile(c) ==
    /\ phase = "serving" /\ at[c].pc = "file" /\ at[c].index <= LastFile(c)
    /\ LET f == File(c)
           outside == at[c].name # "printFP" /\ at[c].index >= NumLevels
           opened(ok) == Go(c, [at[c] EXCEPT !.fd = ok,
                                             !.pc = IF outside THEN "overrun" ELSE "write"])
       IN  IF f \in DOMAIN heads
           THEN opened(f \in usable) /\ UNCHANGED <<heads, usable>>
           ELSE /\ opened(TRUE)
                /\ heads' = [g \in DOMAIN heads \cup {f} |->
                                IF g = f THEN <<"empty", 0>> ELSE heads[g]]
                /\ usable' = IF WithMode(c) \/ mode THEN usable \cup {f} ELSE usable
    /\ UNCHANGED <<setupVars, phase, storeVars, callCount, acked, clientVars>>

\* The index after a file: a level has two access reports.
Advance(state) ==
    IF state.name = "printAccessFreq" /\ ~state.extra THEN [state EXCEPT !.extra = TRUE]
    ELSE [state EXCEPT !.extra = FALSE, !.index = @ + 1]

Written_Once(c, f) == IF heads[f][1] = "empty" THEN [heads EXCEPT ![f] = Id(c)] ELSE heads

\* The file is written from its start, whatever it holds.
Written(c, f) == [heads EXCEPT ![f] = Id(c)]

\* write and close; a write to a file that did not open fails with a message.
WriteFile(c) ==
    /\ phase = "serving" /\ at[c].pc = "write"
    /\ heads' = IF at[c].fd THEN Written(c, File(c)) ELSE heads
    /\ Go(c, [Advance(at[c]) EXCEPT !.fd = FALSE, !.pc = "file",
                                    !.wrote = IF at[c].fd THEN @ \cup {File(c)} ELSE @])
    /\ UNCHANGED <<setupVars, phase, storeVars, callCount, usable, acked, clientVars>>

FilesDone(c) ==
    /\ phase = "serving" /\ at[c].pc = "file" /\ at[c].index > LastFile(c)
    /\ Returned(c, kOK)
    /\ callCount' = IF at[c].name = "printFilterCount" THEN callCount + 1 ELSE callCount
    /\ UNCHANGED <<setupVars, phase, storeVars, heads, usable, acked, clientVars>>

\* The store flushes and compacts in the background.
Compact ==
    /\ phase = "serving" /\ compactions < workload.compactions
    /\ \E l \in 0..(NumLevels - 1) :
          levelFiles' = IF l \in levelFiles THEN levelFiles \ {l} ELSE levelFiles \cup {l}
    /\ compactions' = compactions + 1
    /\ UNCHANGED <<setupVars, phase, stored, reportVars, at, acked, clientVars>>

ClientStep(c) == \/ Read(c) \/ Insert(c) \/ Scan(c) \/ doSomeThing(c)
                 \/ Get(c) \/ Put(c) \/ PutsDone(c) \/ Next(c) \/ AfterOverrun(c)
                 \/ CountLevel(c) \/ OpenFile(c) \/ WriteFile(c) \/ FilesDone(c) \/ Return(c)

Constructor == setConfigPath \/ MakeFilter \/ MakeFilterRocks \/ Open

-----------------------------------------------------------------------------
(* Properties *)

\* A Read answers kErrorNoData only for a key that no Insert or Update had been
\* acknowledged for before it began, however the calls of the threads interleave
\* and whatever calls of the store fail.
AcknowledgedFound ==
    \A c \in Clients : at[c].name = "Read" /\ at[c].pc = "returned" /\ at[c].code = kErrorNoData
                        => at[c].key \notin at[c].known

\* Scan calls Next past the end only when fewer than len records follow its key.
ScanInBounds ==
    \A c \in Clients : at[c].pc = "overrun" /\ at[c].name = "Scan" => at[c].found < at[c].count

\* printAccessFreq stores outside fd[7] only after it has seen files in each level
\* it asks for, at whatever times; printFilterCount never does.
ReportInBounds ==
    \A c \in Clients : at[c].pc = "overrun" /\ at[c].name # "Scan"
                        => /\ at[c].name = "printAccessFreq"
                           /\ (0..(NumLevels - 1)) \ Uncounted(c) \subseteq at[c].seen

\* A process that serves and whose bits file fits the array uses each number before
\* the first zero of the file as a filter.
FiltersInUse ==
    phase = "serving" /\ kind # "rocksdb" /\ config.bloomType = 2 /\ BitsFit(config.bits)
    => \A i \in DOMAIN config.bits :
          (i < lrusNum) <=> \A j \in 1..i : config.bits[j] # 0

\* No array and no iterator is accessed out of its bounds but in the cases above.
BoundsKept == ScanInBounds /\ ReportInBounds /\ FiltersInUse

\* When a report call returns, each file it has written begins with its text or with
\* the text of a call that ran at the same time, never with an older one: the
\* threads write the same files without a lock (ycsbc.cc:172).
ReportsCurrent ==
    \A c \in Clients : at[c].pc = "returned" => \A f \in at[c].wrote : heads[f] \in during[c]
=============================================================================
