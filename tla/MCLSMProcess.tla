---------------------------- MODULE MCLSMProcess ----------------------------
(***************************************************************************)
(* An instance of LSMProcess for TLC.                                      *)
(***************************************************************************)
EXTENDS LSMProcess

Files ==
    ("store.spec" :> << <<"#", "dbname", "=", "basic">>, <<>>, <<"comment">>,
                        <<" ", "dbname", " ", "=", " ", "leveldbVlog", " ">>,
                        <<"configpath", "=", "ini", "=", "x">>,
                        <<"configpath", "=", "bits">>, <<" ", "#", "=", "1">>,
                        <<"a", " ", "key", " ", "=", " ", "two", " ", "words">> >>)
    @@ ("redis.spec" :> << <<"dbname", "=", "redis">>, <<"port", "=", " ">>,
                           <<"slaves", "=", "0">>, <<"skipLoad", "=", "1">> >>)

\* The store of the command line and its configuration.
Store(name, path) == <<"-db", name, "-configpath", path, "-dbfilename", "dir">>

Lines ==
    {Store(name, path) : name \in {"leveldb", "leveldbVlog", "rocksdb"},
                         path \in {"plain", "bits", "missing"}}
    \cup {Store(name, path) : name \in {"leveldb", "rocksdb"},
                              path \in {"full", "zero", "nobits", "empty", "incomplete", "other"}}
    \cup {<<"-P", "store.spec", "-db", "leveldb", "-threads", "4">>,
          <<"-db", "rocksdb", "-skipLoad", "True", "-P", "store.spec">>,
          <<"-db", "basic", "-db", "tbb_rand", "-skipLoad", "no">>,
          <<"-host", "h", "-P", "redis.spec">>,
          <<"-P", "redis.spec", "-port", "4", "-readTheadNums", "1">>,
          <<"-port", "4", "-P", "redis.spec", "-slaves", "x">>,
          <<"-P", "missing.spec">>, <<"-P">>, <<"-threads">>, <<"-load">>, <<>>,
          <<"-db", "lock_stl", "-threads", "x">>, <<"-zipfianconst", "1">>,
          <<"-requestdistribution", "uniform", "-db", "tbb_scan", "more">>}

Config(type, bitsFile, bits) ==
    [ini |-> "complete", bloomType |-> type, bitsFile |-> bitsFile, bits |-> bits]

IniFiles ==
    (<<"plain">> :> Config(0, TRUE, <<>>)) @@ (<<"bits">> :> Config(2, TRUE, <<4, 2>>))
    @@ (<<"full">> :> Config(2, TRUE, <<4, 2, 1>>)) @@ (<<"zero">> :> Config(2, TRUE, <<4, 0, 3>>))
    @@ (<<"nobits">> :> Config(2, FALSE, <<>>)) @@ (<<"other">> :> Config(3, FALSE, <<>>))
    @@ (<<"empty">> :> [ini |-> "empty"]) @@ (<<"incomplete">> :> [ini |-> "incomplete"])

Workload(clients, calls, max, keys, levels, changes) ==
    [clients |-> clients, calls |-> calls, max |-> max, keys |-> keys, levels |-> levels,
     compactions |-> changes]

\* Two calls of each client on the store; one report of the access frequencies, by
\* both clients on few levels or by one on many; the other reports.
StoreCalls == {"Read", "Insert", "Update", "Delete", "Scan"}
StoreWorkloads == {Workload(Clients, StoreCalls, 2, keys, {}, 0) : keys \in {{}, {2}}}
VlogWorkload == Workload(Clients, StoreCalls, 1, {1}, {}, 0)
RacingReports == {Workload(Clients, {"printAccessFreq", "printStats"}, 1, {}, levels, 1) :
                    levels \in {{}, {0, 1}}}
DeepReports == {Workload({c}, {"printAccessFreq"}, 1, {}, levels, 2) :
                    c \in Clients, levels \in {{1, 2, 3}, {0, 1, 3}, {0, 2}}}
OtherReports == {Workload(Clients, {"printFP", "printFilterCount", "adjust_filter"}, 1, {}, {1, 3}, 1),
                 Workload(Clients, {"printFP"}, 1, {}, {}, 0)}
NoCalls == Workload({}, {}, 0, {}, {}, 0)

AllWorkloads == StoreWorkloads \cup {VlogWorkload} \cup RacingReports \cup DeepReports \cup OtherReports
                \cup {NoCalls}

AllInstances ==
    {<<line, NoCalls>> : line \in Lines}
    \cup {<<Store("leveldb", "plain"), w>> : w \in StoreWorkloads \cup DeepReports
                                                               \cup OtherReports}
    \cup {<<Store("rocksdb", "plain"), w>> : w \in StoreWorkloads \cup RacingReports}
    \cup {<<Store("leveldbVlog", "plain"), w>> : w \in AllWorkloads \ StoreWorkloads}

ClientSymmetry == Permutations(Clients)

EarlierReports == {<<"access_frequencies", 0>>, <<"fp", 0>>, <<"filter_count", 0, 0>>}
=============================================================================
