------------------------------ MODULE LSMProofs -----------------------------
(***************************************************************************)
(* Proofs about the adapters of the LSM stores (LSMDB), for any number of  *)
(* threads, keys, levels and files: what the store says of acknowledged    *)
(* records, which accesses are in bounds, and whose text the reports hold; *)
(* and about Options: which value a property has.                          *)
(*                                                                         *)
(* Each property has an invariant of its own.  Those of the adapters       *)
(* are about the constructor's phases and then about each client's call:   *)
(* at which step of which call it is and what it has done by then.         *)
(***************************************************************************)
EXTENDS LSMProcess, DataLemmas, TLAPS

Places == {"idle", "get", "put", "next", "overrun", "returned", "levels", "file", "write"}

\* The names of the report files (File).
ReportFiles == ({"extra_infos", "access_frequencies", "fp"} \X Int) \cup ({"filter_count"} \X Int \X Int)

Calls == [pc : Places, name : CallNames \cup {"none"}, key : Nat, left : Int, count : Int,
          rest : SUBSET Keys, found : Nat, levels : Nat, seen : SUBSET Nat, index : Nat,
          extra : BOOLEAN, fd : BOOLEAN, wrote : SUBSET ReportFiles, code : {kOK, kErrorNoData},
          known : SUBSET Keys]

CallTypes == at \in [Clients -> Calls]

ProcessTypes ==
    /\ made \in [Clients -> Nat] /\ during \in [Clients -> SUBSET (Clients \X Nat)]
    /\ workload \in Workloads
    /\ stored \in SUBSET Keys /\ IsFiniteSet(stored) /\ acked \in SUBSET Keys
    /\ levelFiles \subseteq 0..(NumLevels - 1) /\ callCount \in Nat

\* No call is made before the constructor has returned.
BeforeServing == phase \in {"none", "config", "filter", "open"}
NoCallsYet == BeforeServing => at = [c \in Clients |-> Idle] /\ acked = {}

Reports == {"printAccessFreq", "printFilterCount", "printFP"}

\* Which call is at which step.
CallAt(c) ==
    /\ at[c].pc = "idle" => at[c] = Idle
    /\ at[c].pc = "get" => at[c].name = "Read"
    /\ at[c].pc = "put" => at[c].name \in {"Insert", "Update", "Delete"}
    /\ at[c].name \in {"Insert", "Update", "Delete"} => at[c].key \in Keys
    /\ at[c].pc = "next" => at[c].name = "Scan"
    /\ at[c].pc = "levels" => at[c].name \in Reports \ {"printFP"}
    /\ at[c].pc \in {"file", "write"} => at[c].name \in Reports
    /\ at[c].pc = "overrun" => at[c].name \in Reports \cup {"Scan"}

TypeInv == CallTypes /\ ProcessTypes /\ NoCallsYet /\ \A c \in Clients : CallAt(c)

\* A call that begins: what it has done is nothing.
Fresh(new) ==
    /\ new.name \in CallNames /\ new.code = kOK
    /\ new.levels = 0 /\ new.seen = {} /\ new.index = 0 /\ ~new.fd /\ new.wrote = {}
    /\ \/ new.name = "Read" /\ new.pc = "get"
       \/ new.name \in {"Insert", "Update", "Delete"} /\ new.pc = "put" /\ new.count = 0
          /\ new.key \in Keys
       \/ /\ new.name = "Scan" /\ new.pc \in {"next", "returned"} /\ new.left = new.count
          /\ IsFiniteSet(new.rest) /\ new.found = Cardinality(new.rest)
       \/ new.name \in {"adjust_filter", "printStats"} /\ new.pc = "returned"
       \/ new.name \in Reports \ {"printFP"} /\ new.pc \in {"levels", "returned"}
       \/ new.name = "printFP" /\ new.pc \in {"file", "returned"}
    /\ new.name = "printFilterCount" => \A d \in Clients : at[d].name # "printFilterCount"

LEMMA IdleType == Idle \in Calls
  BY DEF Idle, Calls, Places, kOK, kErrorNoData

LEMMA WorkloadCalls == ASSUME workload \in Workloads PROVE workload.calls \subseteq CallNames
  BY WorkloadsAssumption

\* The calls that begin are fresh.
LEMMA Starts ==
    ASSUME TypeInv, NEW c \in Clients, Read(c) \/ Insert(c) \/ Scan(c) \/ doSomeThing(c)
    PROVE  \E new \in Calls : Begin(c, new) /\ Fresh(new)
  <1> USE IdleType DEF Fresh, Reports, CallNames
  <1>1. CASE Read(c)
    <2>1. PICK k \in Keys : Begin(c, [Idle EXCEPT !.pc = "get", !.name = "Read", !.key = k])
      BY <1>1 DEF Read
    <2> DEFINE new == [Idle EXCEPT !.pc = "get", !.name = "Read", !.key = k]
    <2>2. new \in Calls
      BY KeysAssumption DEF Calls, Places
    <2>3. Fresh(new)
      BY DEF Idle
    <2> QED
      BY <2>1, <2>2, <2>3
  <1>2. CASE Insert(c)
    <2>1. PICK k \in Keys, name \in {"Insert", "Update", "Delete"}, n \in 0..2 :
            Begin(c, [Idle EXCEPT !.pc = "put", !.name = name, !.key = k, !.left = n])
      BY <1>2 DEF Insert
    <2> DEFINE new == [Idle EXCEPT !.pc = "put", !.name = name, !.key = k, !.left = n]
    <2>4. name \in CallNames \cup {"none"} /\ k \in Nat /\ n \in Int /\ "put" \in Places
      BY KeysAssumption DEF Places
    <2>2. new \in Calls
      BY <2>4, Zenon DEF Calls
    <2>3. Fresh(new)
      BY DEF Idle
    <2> QED
      BY <2>1, <2>2, <2>3
  <1>3. CASE Scan(c)
    <2>1. PICK k \in Keys, len \in 1..MaxLen :
            Begin(c, [Idle EXCEPT !.name = "Scan", !.key = k, !.left = len, !.count = len,
                                  !.pc = IF kind = "leveldbVlog" THEN "returned" ELSE "next",
                                  !.rest = {s \in stored : s >= k},
                                  !.found = Cardinality({s \in stored : s >= k})])
      BY <1>3 DEF Scan
    <2> DEFINE rest == {s \in stored : s >= k}
               step == IF kind = "leveldbVlog" THEN "returned" ELSE "next"
               new == [Idle EXCEPT !.name = "Scan", !.key = k, !.left = len, !.count = len,
                                   !.pc = step, !.rest = rest, !.found = Cardinality(rest)]
    <2>2. rest \in SUBSET Keys /\ IsFiniteSet(rest) /\ Cardinality(rest) \in Nat
      BY FS_Subset, FS_CardinalityType DEF TypeInv, ProcessTypes
    <2>3. step \in {"next", "returned"}
      OBVIOUS
    <2> HIDE DEF rest, step
    <2>7. "Scan" \in CallNames \cup {"none"} /\ k \in Nat /\ len \in Int /\ step \in Places
      BY <2>3, KeysAssumption DEF Places
    <2>4. new \in Calls
      BY <2>2, <2>7 DEF Calls
    <2>5. Fresh(new)
      BY <2>2, <2>3 DEF Idle
    <2>6. Begin(c, new)
      BY <2>1 DEF rest, step
    <2> QED
      BY <2>4, <2>5, <2>6
  <1>4. CASE doSomeThing(c)
    <2>1. PICK name \in workload.calls \ {"Read", "Insert", "Update", "Delete", "Scan"} :
            /\ name = "printFilterCount" => \A d \in Clients : at[d].name # name
            /\ Begin(c, [Idle EXCEPT !.name = name, !.pc = Dispatch(name)])
      BY <1>4 DEF doSomeThing
    <2> DEFINE new == [Idle EXCEPT !.name = name, !.pc = Dispatch(name)]
    <2>2. /\ name \in {"adjust_filter", "printStats"} => Dispatch(name) = "returned"
          /\ name = "printFP" => Dispatch(name) \in {"file", "returned"}
          /\ name \in Reports \ {"printFP"} => Dispatch(name) \in {"levels", "returned"}
      BY DEF Dispatch
    <2>3. name \in CallNames /\ name \in {"adjust_filter", "printStats"} \cup Reports
      BY WorkloadCalls DEF TypeInv, ProcessTypes
    <2>4. new \in Calls
      BY <2>2, <2>3 DEF Calls, Places
    <2>5. Fresh(new)
      BY <2>1, <2>2, <2>3 DEF Idle
    <2> QED
      BY <2>1, <2>4, <2>5
  <1> QED
    BY <1>1, <1>2, <1>3, <1>4

\* What beginning a call does.
LEMMA BeginEffect ==
    ASSUME TypeInv, NEW c \in Clients, NEW new \in Calls, Begin(c, new)
    PROVE  \E known \in {acked, {}} :
              LET e == [new EXCEPT !.known = known]
              IN  at' = [at EXCEPT ![c] = e] /\ e \in Calls /\ (e.known # {} => e.name = "Read")
  <1> DEFINE known == IF new.name = "Read" THEN acked ELSE {}
  <1>1. known \in SUBSET Keys /\ known \in {acked, {}} /\ (known # {} => new.name = "Read")
    BY DEF TypeInv, ProcessTypes
  <1>2. at' = [at EXCEPT ![c] = [new EXCEPT !.known = known]]
    BY DEF Begin, Go
  <1> HIDE DEF known
  <1>3. [new EXCEPT !.known = known] \in Calls
    BY <1>1 DEF Calls
  <1>4. [new EXCEPT !.known = known].known = known /\ [new EXCEPT !.known = known].name = new.name
    BY DEF Calls
  <1> QED
    BY <1>1, <1>2, <1>3, <1>4

\* An iterator that is not past the end stands on one of its records.
LEMMA MinOfRest ==
    ASSUME NEW rest \in SUBSET Nat, IsFiniteSet(rest), rest # {}
    PROVE  Min(rest) \in rest
  <1>1. \E x \in rest : \A y \in rest : x <= y
    BY LeastElement
  <1> QED
    BY <1>1 DEF Min

\* The file of a report is one of the report files.
LEMMA FileTypes ==
    ASSUME TypeInv, NEW c \in Clients, at[c].name \in Reports
    PROVE  File(c) \in ReportFiles
  <1>1. at[c].index \in Int /\ callCount \in Int
    BY DEF TypeInv, CallTypes, ProcessTypes, Calls
  <1>2. CASE at[c].name = "printAccessFreq"
    BY <1>1, <1>2 DEF File, ReportFiles
  <1>3. CASE at[c].name = "printFilterCount"
    BY <1>1, <1>3 DEF File, ReportFiles
  <1>4. CASE at[c].name = "printFP"
    BY <1>1, <1>4 DEF File, ReportFiles
  <1> QED
    BY <1>2, <1>3, <1>4 DEF Reports

LEMMA CallFields ==
    ASSUME NEW s \in Calls
    PROVE  /\ s.left \in Int /\ s.count \in Int /\ s.levels \in Nat /\ s.index \in Nat
           /\ s.seen \in SUBSET Nat /\ s.wrote \in SUBSET ReportFiles /\ s.rest \in SUBSET Keys
           /\ s.key \in Nat /\ s.found \in Nat /\ s.known \in SUBSET Keys /\ s.pc \in Places
           /\ s.fd \in BOOLEAN /\ s.extra \in BOOLEAN /\ s.name \in CallNames \cup {"none"}
           /\ s.code \in {kOK, kErrorNoData}
  BY DEF Calls

\* Changes of a call that stay within its types.
LEMMA CallChanges ==
    ASSUME NEW s \in Calls
    PROVE  /\ \A p \in Places : [s EXCEPT !.pc = p] \in Calls
           /\ \A l, n \in Int : [s EXCEPT !.left = l, !.count = n] \in Calls
           /\ \A l \in Int, r \in SUBSET Keys : [s EXCEPT !.left = l, !.rest = r] \in Calls
           /\ \A l \in Int, p \in Places : [s EXCEPT !.left = l, !.pc = p] \in Calls
           /\ \A l \in Nat, f \in SUBSET Nat : [s EXCEPT !.levels = l, !.seen = f] \in Calls
           /\ \A b \in BOOLEAN, p \in Places : [s EXCEPT !.fd = b, !.pc = p] \in Calls
           /\ \A b \in BOOLEAN, i \in Nat : [s EXCEPT !.extra = b, !.index = i] \in Calls
           /\ \A b \in BOOLEAN : [s EXCEPT !.extra = b] \in Calls
           /\ \A b \in BOOLEAN, p \in Places, w \in SUBSET ReportFiles :
                 [s EXCEPT !.fd = b, !.pc = p, !.wrote = w] \in Calls
  <1>2. \A p \in Places : [s EXCEPT !.pc = p] \in Calls
    BY Zenon DEF Calls
  <1>3. \A l, n \in Int : [s EXCEPT !.left = l, !.count = n] \in Calls
    BY Zenon DEF Calls
  <1>4. \A l \in Int, r \in SUBSET Keys : [s EXCEPT !.left = l, !.rest = r] \in Calls
    BY Zenon DEF Calls
  <1>5. \A l \in Int, p \in Places : [s EXCEPT !.left = l, !.pc = p] \in Calls
    BY Zenon DEF Calls
  <1>6. \A l \in Nat, f \in SUBSET Nat : [s EXCEPT !.levels = l, !.seen = f] \in Calls
    BY Zenon DEF Calls
  <1>7. \A b \in BOOLEAN, p \in Places : [s EXCEPT !.fd = b, !.pc = p] \in Calls
    BY Zenon DEF Calls
  <1>8. \A b \in BOOLEAN, i \in Nat : [s EXCEPT !.extra = b, !.index = i] \in Calls
    BY Zenon DEF Calls
  <1>9. \A b \in BOOLEAN : [s EXCEPT !.extra = b] \in Calls
    BY Zenon DEF Calls
  <1>10. \A b \in BOOLEAN, p \in Places, w \in SUBSET ReportFiles :
            [s EXCEPT !.fd = b, !.pc = p, !.wrote = w] \in Calls
    BY Zenon DEF Calls
  <1> QED
    BY <1>2, <1>3, <1>4, <1>5, <1>6, <1>7, <1>8, <1>9, <1>10, Zenon

\* Each step of a client leaves the calls of the others alone, and its own within
\* their types.
LEMMA ClientCall ==
    ASSUME TypeInv, NEW c \in Clients, ClientStep(c)
    PROVE  at' = at \/ \E e \in Calls : at' = [at EXCEPT ![c] = e]
  <1>0. at[c] \in Calls /\ CallAt(c)
    BY DEF TypeInv, CallTypes
  <1>1. CASE Read(c) \/ Insert(c) \/ Scan(c) \/ doSomeThing(c)
    BY <1>1, Starts, BeginEffect
  <1> DEFINE s == at[c]
  <1>2. ASSUME NEW code \in {kOK, kErrorNoData}, Returned(c, code)
        PROVE  \E e \in Calls : at' = [at EXCEPT ![c] = e]
    <2>1. [at[c] EXCEPT !.pc = "returned", !.code = code] \in Calls
      BY <1>0 DEF Calls, Places
    <2> QED
      BY <1>2, <2>1 DEF Returned, Go
  <1>3. CASE Get(c)
    BY <1>2, <1>3 DEF Get, Exit
  <1>4. CASE Put(c)
    <2>1. s.left - 1 \in Int /\ s.count + 1 \in Int
      BY <1>0, CallFields
    <2>2. [s EXCEPT !.left = s.left - 1, !.count = s.count + 1] \in Calls
      BY <1>0, <2>1, CallChanges, Zenon
    <2>3. at' = at \/ at' = [at EXCEPT ![c] = [s EXCEPT !.left = s.left - 1, !.count = s.count + 1]]
      BY <1>4 DEF Put, PutFailed, Exit, Go
    <2> QED
      BY <2>2, <2>3, Zenon
  <1>5. CASE PutsDone(c)
    BY <1>2, <1>5 DEF PutsDone, Exit
  <1>6. CASE Next(c)
    <2>1. CASE ~NextCalls(c)
      BY <1>2, <1>6, <2>1 DEF Next
    <2>2. s.left - 1 \in Int /\ s.rest \ {Min(s.rest)} \in SUBSET Keys /\ "overrun" \in Places
      BY <1>0, CallFields DEF Places
    <2>3. /\ [s EXCEPT !.left = s.left - 1, !.rest = s.rest \ {Min(s.rest)}] \in Calls
          /\ [s EXCEPT !.left = s.left - 1, !.pc = "overrun"] \in Calls
      BY <1>0, <2>2, CallChanges, Zenon
    <2>4. CASE NextCalls(c)
      <3>1. \/ at' = [at EXCEPT ![c] = [s EXCEPT !.left = s.left - 1, !.rest = s.rest \ {Min(s.rest)}]]
            \/ at' = [at EXCEPT ![c] = [s EXCEPT !.left = s.left - 1, !.pc = "overrun"]]
        BY <1>6, <2>4 DEF Next, Go
      <3> QED
        BY <2>3, <3>1, Zenon
    <2> QED
      BY <2>1, <2>4
  <1>7. CASE AfterOverrun(c)
    <2>1. at' = at \/ \E p \in {"next", "write"} : at' = [at EXCEPT ![c] = [s EXCEPT !.pc = p]]
      BY <1>7 DEF AfterOverrun, Go
    <2>2. \A p \in {"next", "write"} : p \in Places
      BY DEF Places
    <2> QED
      BY <1>0, <2>1, <2>2, CallChanges, Zenon
  <1>8. CASE CountLevel(c)
    <2>1. s.levels + 1 \in Nat /\ s.seen \cup {s.levels} \in SUBSET Nat /\ s.seen \in SUBSET Nat
          /\ "file" \in Places
      BY <1>0, CallFields DEF Places
    <2>2. /\ [s EXCEPT !.pc = "file"] \in Calls
          /\ \A seen \in {s.seen, s.seen \cup {s.levels}} :
                [s EXCEPT !.levels = s.levels + 1, !.seen = seen] \in Calls
      BY <1>0, <2>1, CallChanges, Zenon
    <2>3. at' = [at EXCEPT ![c] = [s EXCEPT !.pc = "file"]]
          \/ \E seen \in {s.seen, s.seen \cup {s.levels}} :
                at' = [at EXCEPT ![c] = [s EXCEPT !.levels = s.levels + 1, !.seen = seen]]
      BY <1>8 DEF CountLevel, Go
    <2> QED
      BY <2>2, <2>3, Zenon
  <1>9. CASE OpenFile(c)
    <2>1. \E p \in {"overrun", "write"}, ok \in BOOLEAN :
             at' = [at EXCEPT ![c] = [s EXCEPT !.fd = ok, !.pc = p]]
      <3>1. PICK ok \in BOOLEAN, p \in {"overrun", "write"} : Go(c, [s EXCEPT !.fd = ok, !.pc = p])
        <4> DEFINE p == IF at[c].name # "printFP" /\ at[c].index >= NumLevels THEN "overrun" ELSE "write"
        <4>1. p \in {"overrun", "write"}
          OBVIOUS
        <4>2. Go(c, [s EXCEPT !.fd = File(c) \in usable, !.pc = p])
              \/ Go(c, [s EXCEPT !.fd = TRUE, !.pc = p])
          BY <1>9, Zenon DEF OpenFile
        <4> HIDE DEF p
        <4>3. (File(c) \in usable) \in BOOLEAN /\ TRUE \in BOOLEAN
          OBVIOUS
        <4> QED
          BY <4>1, <4>2, <4>3, Zenon
      <3> QED
        BY <3>1 DEF Go
    <2>2. \A p \in {"overrun", "write"} : p \in Places
      BY DEF Places
    <2> QED
      BY <1>0, <2>1, <2>2, CallChanges, Zenon
  <1>10. CASE WriteFile(c)
    <2>1. s.index + 1 \in Nat /\ s.wrote \cup {File(c)} \in SUBSET ReportFiles /\ s.wrote \in SUBSET ReportFiles
          /\ "file" \in Places
      BY <1>0, <1>10, FileTypes, CallFields DEF CallAt, WriteFile, Places
    <2>2. Advance(s) \in Calls /\ Advance(s).wrote = s.wrote
      <3>1. [s EXCEPT !.extra = TRUE] \in Calls /\ [s EXCEPT !.extra = FALSE, !.index = s.index + 1] \in Calls
        BY <1>0, <2>1, CallChanges, Zenon
      <3>2. [s EXCEPT !.extra = TRUE].wrote = s.wrote
            /\ [s EXCEPT !.extra = FALSE, !.index = s.index + 1].wrote = s.wrote
        BY <1>0 DEF Calls
      <3>3. Advance(s) = [s EXCEPT !.extra = TRUE] \/ Advance(s) = [s EXCEPT !.extra = FALSE, !.index = s.index + 1]
        BY DEF Advance
      <3> QED
        BY <3>1, <3>2, <3>3, Zenon
    <2> DEFINE a == Advance(s)
    <2>3. at' = [at EXCEPT ![c] = [a EXCEPT !.fd = FALSE, !.pc = "file",
                                            !.wrote = IF s.fd THEN @ \cup {File(c)} ELSE @]]
      BY <1>10, Zenon DEF WriteFile, Go
    <2> HIDE DEF a
    <2>4. a \in Calls /\ a.wrote = s.wrote
      BY <2>2 DEF a
    <2>5. \E w \in {s.wrote, s.wrote \cup {File(c)}} :
             at' = [at EXCEPT ![c] = [a EXCEPT !.fd = FALSE, !.pc = "file", !.wrote = w]]
      BY <2>3, <2>4
    <2> QED
      BY <2>1, <2>4, <2>5, CallChanges, Zenon
  <1>11. CASE FilesDone(c)
    BY <1>2, <1>11 DEF FilesDone
  <1>12. CASE Return(c)
    BY <1>12, IdleType DEF Return, Go
  <1> QED
    BY <1>1, <1>3, <1>4, <1>5, <1>6, <1>7, <1>8, <1>9, <1>10, <1>11, <1>12 DEF ClientStep

\* What two states s and t of a call have in common.
SameCall(s, t) == t.name = s.name /\ t.key = s.key /\ t.known = s.known /\ t.found = s.found
SameCount(s, t) == t.left = s.left /\ t.count = s.count /\ t.rest = s.rest
SameLevels(s, t) == t.levels = s.levels /\ t.seen = s.seen
SameFiles(s, t) == t.index = s.index /\ t.extra = s.extra /\ t.fd = s.fd /\ t.wrote = s.wrote

\* A step changes nothing of the call but its place and outcome.
Moves(s, t) == SameCall(s, t) /\ SameCount(s, t) /\ SameLevels(s, t) /\ SameFiles(s, t)

\* What the steps of a call on records do to it, unless they end the process.
LEMMA RecordSteps ==
    ASSUME TypeInv, NEW c \in Clients
    PROVE  LET s == at[c]
               t == at'[c]
           IN  /\ Get(c) => \/ at' = at /\ phase' = ExitPhase
                            \/ /\ Moves(s, t) /\ t.pc = "returned" /\ phase' = phase
                               /\ t.code = IF s.key \in stored THEN kOK ELSE kErrorNoData
               /\ Put(c) => \/ at' = at /\ phase' = ExitPhase /\ stored' = stored
                            \/ /\ SameCall(s, t) /\ SameLevels(s, t) /\ SameFiles(s, t)
                               /\ t.pc = "put" /\ phase' = phase
                               /\ t.count = s.count + 1 /\ stored' = stored \cup {s.key}
               /\ PutsDone(c) => \/ at' = at /\ phase' = ExitPhase
                                 \/ /\ Moves(s, t) /\ t.pc = "returned" /\ phase' = phase
                                    /\ s.count = 1 /\ t.code = kOK
               /\ Next(c) => /\ phase' = phase /\ SameCall(s, t) /\ SameLevels(s, t) /\ SameFiles(s, t)
                             /\ \/ t.pc = "returned" /\ SameCount(s, t) /\ t.code = kOK
                                \/ /\ t.pc = "next" /\ s.rest # {} /\ s.left > 0
                                   /\ t.rest = s.rest \ {Min(s.rest)}
                                   /\ t.left = s.left - 1 /\ t.count = s.count
                                \/ /\ t.pc = "overrun" /\ s.rest = {} /\ s.left > 0
                                   /\ t.rest = s.rest /\ t.left = s.left - 1 /\ t.count = s.count
  <1> DEFINE s == at[c]
             t == at'[c]
  <1> USE DEF Moves, SameCall, SameCount, SameLevels, SameFiles
  <1>0. s \in Calls /\ \A e : at' = [at EXCEPT ![c] = e] => t = e
    BY DEF TypeInv, CallTypes
  <1>1. ASSUME NEW code, Returned(c, code)
        PROVE  Moves(s, t) /\ t.pc = "returned" /\ t.code = code
    <2>1. t = [s EXCEPT !.pc = "returned", !.code = code]
      BY <1>0, <1>1, Zenon DEF Returned, Go
    <2> QED
      BY <1>0, <2>1 DEF Calls
  <1>2. ASSUME Get(c)
        PROVE  \/ at' = at /\ phase' = ExitPhase
               \/ /\ Moves(s, t) /\ t.pc = "returned" /\ phase' = phase
                  /\ t.code = IF s.key \in stored THEN kOK ELSE kErrorNoData
    <2>1. CASE Returned(c, IF s.key \in stored THEN kOK ELSE kErrorNoData) /\ UNCHANGED phase
      BY <1>1, <2>1, Zenon
    <2>2. CASE Exit
      BY <2>2 DEF Exit
    <2> QED
      BY <1>2, <2>1, <2>2, Zenon DEF Get
  <1>3. ASSUME Put(c)
        PROVE  \/ at' = at /\ phase' = ExitPhase /\ stored' = stored
               \/ /\ SameCall(s, t) /\ SameLevels(s, t) /\ SameFiles(s, t)
                  /\ t.pc = "put" /\ phase' = phase
                  /\ t.count = s.count + 1 /\ stored' = stored \cup {s.key}
    <2>1. CASE Go(c, [s EXCEPT !.left = s.left - 1, !.count = s.count + 1])
               /\ stored' = stored \cup {s.key} /\ UNCHANGED phase
      <3>1. t = [s EXCEPT !.left = s.left - 1, !.count = s.count + 1]
        BY <1>0, <2>1, Zenon DEF Go
      <3> QED
        BY <1>0, <1>3, <2>1, <3>1 DEF Calls, Put
    <2>2. CASE PutFailed(c)
      BY <2>2 DEF PutFailed, Exit
    <2> QED
      BY <1>3, <2>1, <2>2 DEF Put
  <1>4. ASSUME PutsDone(c)
        PROVE  \/ at' = at /\ phase' = ExitPhase
               \/ /\ Moves(s, t) /\ t.pc = "returned" /\ phase' = phase /\ s.count = 1 /\ t.code = kOK
    <2>1. CASE s.count # 1
      BY <1>4, <2>1, Zenon DEF PutsDone, Exit
    <2>2. CASE s.count = 1
      <3>1. Returned(c, kOK) /\ phase' = phase
        BY <1>4, <2>2, Zenon DEF PutsDone
      <3> QED
        BY <1>1, <2>2, <3>1, Zenon
    <2> QED
      BY <2>1, <2>2
  <1>5. ASSUME Next(c)
        PROVE  /\ phase' = phase /\ SameCall(s, t) /\ SameLevels(s, t) /\ SameFiles(s, t)
               /\ \/ t.pc = "returned" /\ SameCount(s, t) /\ t.code = kOK
                  \/ /\ t.pc = "next" /\ s.rest # {} /\ s.left > 0
                     /\ t.rest = s.rest \ {Min(s.rest)}
                     /\ t.left = s.left - 1 /\ t.count = s.count
                  \/ /\ t.pc = "overrun" /\ s.rest = {} /\ s.left > 0
                     /\ t.rest = s.rest /\ t.left = s.left - 1 /\ t.count = s.count
    <2>1. CASE ~NextCalls(c)
      <3>1. Returned(c, kOK) /\ phase' = phase
        BY <1>5, <2>1, Zenon DEF Next
      <3>2. Moves(s, t) /\ t.pc = "returned" /\ t.code = kOK
        BY <1>1, <3>1, Zenon
      <3> QED
        BY <3>1, <3>2, Zenon
    <2>2. CASE NextCalls(c)
      <3>1. s.left > 0 /\ s.pc = "next" /\ phase' = phase
        BY <1>5, <2>2 DEF NextCalls, Next
      <3>2. CASE s.rest # {} /\ Go(c, [s EXCEPT !.left = s.left - 1, !.rest = s.rest \ {Min(s.rest)}])
        <4>1. t = [s EXCEPT !.left = s.left - 1, !.rest = s.rest \ {Min(s.rest)}]
          BY <1>0, <3>2, Zenon DEF Go
        <4> HIDE DEF s, t
        <4> DEFINE rest == s.rest \ {Min(s.rest)}
        <4>2. t = [s EXCEPT !.left = s.left - 1, !.rest = rest]
          BY <4>1
        <4> HIDE DEF rest
        <4>3. /\ SameCall(s, t) /\ SameLevels(s, t) /\ SameFiles(s, t)
              /\ t.pc = s.pc /\ t.rest = rest /\ t.left = s.left - 1 /\ t.count = s.count
          BY <1>0, <4>2 DEF Calls
        <4> QED
          BY <3>1, <3>2, <4>3, Zenon DEF rest
      <3>3. CASE s.rest = {} /\ Go(c, [s EXCEPT !.left = s.left - 1, !.pc = "overrun"])
        <4>1. t = [s EXCEPT !.left = s.left - 1, !.pc = "overrun"]
          BY <1>0, <3>3, Zenon DEF Go
        <4>2. /\ SameCall(s, t) /\ SameLevels(s, t) /\ SameFiles(s, t)
              /\ t.pc = "overrun" /\ t.rest = s.rest /\ t.left = s.left - 1 /\ t.count = s.count
          BY <1>0, <4>1 DEF Calls
        <4> QED
          BY <3>1, <3>3, <4>2, Zenon
      <3> QED
        BY <1>5, <2>2, <3>2, <3>3 DEF Next
    <2> QED
      BY <2>1, <2>2
  <1> QED
    BY <1>2, <1>3, <1>4, <1>5, Zenon

\* What the other steps of a call do to it.
LEMMA ReportSteps ==
    ASSUME TypeInv, NEW c \in Clients
    PROVE  LET s == at[c]
               t == at'[c]
           IN  /\ AfterOverrun(c) => \/ at' = at /\ phase' = "crashed"
                                     \/ /\ Moves(s, t) /\ t.code = s.code /\ phase' = phase
                                        /\ t.pc = IF s.name = "Scan" THEN "next" ELSE "write"
               /\ CountLevel(c) => /\ SameCall(s, t) /\ SameCount(s, t) /\ SameFiles(s, t)
                                   /\ \/ t.pc = "file" /\ SameLevels(s, t)
                                      \/ /\ t.pc = "levels" /\ t.levels = s.levels + 1
                                         /\ s.levels \in Uncounted(c) \cup levelFiles
                                         /\ t.seen = IF s.levels \in levelFiles
                                                     THEN s.seen \cup {s.levels} ELSE s.seen
               /\ OpenFile(c) => /\ SameCall(s, t) /\ SameCount(s, t) /\ SameLevels(s, t)
                                 /\ t.index = s.index /\ t.extra = s.extra /\ t.wrote = s.wrote
                                 /\ t.pc = IF s.name # "printFP" /\ s.index >= NumLevels
                                           THEN "overrun" ELSE "write"
               /\ WriteFile(c) => /\ SameCall(s, t) /\ SameCount(s, t) /\ SameLevels(s, t)
                                  /\ ~t.fd /\ t.pc = "file"
                                  /\ t.wrote = IF s.fd THEN s.wrote \cup {File(c)} ELSE s.wrote
               /\ FilesDone(c) => Moves(s, t) /\ t.pc = "returned" /\ t.code = kOK
               /\ Return(c) => t = Idle
  <1> DEFINE s == at[c]
             t == at'[c]
  <1> USE DEF Moves, SameCall, SameCount, SameLevels, SameFiles
  <1>0. s \in Calls /\ \A e : at' = [at EXCEPT ![c] = e] => t = e
    BY DEF TypeInv, CallTypes
  <1>1. ASSUME AfterOverrun(c)
        PROVE  \/ at' = at /\ phase' = "crashed"
               \/ /\ Moves(s, t) /\ t.code = s.code /\ phase' = phase
                  /\ t.pc = IF s.name = "Scan" THEN "next" ELSE "write"
    <2> DEFINE p == IF s.name = "Scan" THEN "next" ELSE "write"
    <2>1. CASE Go(c, [s EXCEPT !.pc = p]) /\ UNCHANGED phase
      <3>1. t = [s EXCEPT !.pc = p]
        BY <1>0, <2>1, Zenon DEF Go
      <3> QED
        BY <1>0, <2>1, <3>1 DEF Calls
    <2> QED
      BY <1>1, <2>1, Zenon DEF AfterOverrun
  <1>2. ASSUME CountLevel(c)
        PROVE  /\ SameCall(s, t) /\ SameCount(s, t) /\ SameFiles(s, t)
               /\ \/ t.pc = "file" /\ SameLevels(s, t)
                  \/ /\ t.pc = "levels" /\ t.levels = s.levels + 1
                     /\ s.levels \in Uncounted(c) \cup levelFiles
                     /\ t.seen = IF s.levels \in levelFiles THEN s.seen \cup {s.levels} ELSE s.seen
    <2>1. CASE s.levels \in Uncounted(c) \cup levelFiles
      <3> DEFINE seen == IF s.levels \in levelFiles THEN s.seen \cup {s.levels} ELSE s.seen
      <3>1. Go(c, [s EXCEPT !.levels = s.levels + 1, !.seen = seen]) /\ s.pc = "levels"
        BY <1>2, <2>1 DEF CountLevel
      <3>2. t = [s EXCEPT !.levels = s.levels + 1, !.seen = seen]
        BY <1>0, <3>1, Zenon DEF Go
      <3> HIDE DEF seen
      <3>3. /\ SameCall(s, t) /\ SameCount(s, t) /\ SameFiles(s, t)
            /\ t.pc = s.pc /\ t.levels = s.levels + 1 /\ t.seen = seen
        BY <1>0, <3>2 DEF Calls
      <3> QED
        BY <2>1, <3>1, <3>3, Zenon DEF seen
    <2>2. CASE s.levels \notin Uncounted(c) \cup levelFiles
      <3>1. Go(c, [s EXCEPT !.pc = "file"])
        BY <1>2, <2>2 DEF CountLevel
      <3>2. t = [s EXCEPT !.pc = "file"]
        BY <1>0, <3>1, Zenon DEF Go
      <3> QED
        BY <1>0, <3>2 DEF Calls
    <2> QED
      BY <2>1, <2>2
  <1>3. ASSUME OpenFile(c)
        PROVE  /\ SameCall(s, t) /\ SameCount(s, t) /\ SameLevels(s, t)
               /\ t.index = s.index /\ t.extra = s.extra /\ t.wrote = s.wrote
               /\ t.pc = IF s.name # "printFP" /\ s.index >= NumLevels THEN "overrun" ELSE "write"
    <2> DEFINE p == IF s.name # "printFP" /\ s.index >= NumLevels THEN "overrun" ELSE "write"
    <2>1. \E ok \in {TRUE, File(c) \in usable} : Go(c, [s EXCEPT !.fd = ok, !.pc = p])
      <3>1. Go(c, [s EXCEPT !.fd = File(c) \in usable, !.pc = p]) \/ Go(c, [s EXCEPT !.fd = TRUE, !.pc = p])
        BY <1>3, Zenon DEF OpenFile
      <3> HIDE DEF p
      <3> QED
        BY <3>1, Zenon
    <2>2. PICK ok : t = [s EXCEPT !.fd = ok, !.pc = p]
      BY <1>0, <2>1, Zenon DEF Go
    <2> HIDE DEF p
    <2>3. /\ SameCall(s, t) /\ SameCount(s, t) /\ SameLevels(s, t)
          /\ t.index = s.index /\ t.extra = s.extra /\ t.wrote = s.wrote /\ t.pc = p
      BY <1>0, <2>2 DEF Calls
    <2> QED
      BY <2>3, Zenon DEF p
  <1>4. ASSUME WriteFile(c)
        PROVE  /\ SameCall(s, t) /\ SameCount(s, t) /\ SameLevels(s, t)
               /\ ~t.fd /\ t.pc = "file"
               /\ t.wrote = IF s.fd THEN s.wrote \cup {File(c)} ELSE s.wrote
    <2> DEFINE a == Advance(s)
    <2>1. SameCall(s, a) /\ SameCount(s, a) /\ SameLevels(s, a) /\ a.wrote = s.wrote
      <3>1. CASE a = [s EXCEPT !.extra = TRUE]
        BY <1>0, <3>1 DEF Calls
      <3>2. CASE a = [s EXCEPT !.extra = FALSE, !.index = s.index + 1]
        <4> HIDE DEF a
        <4> QED
          BY <1>0, <3>2 DEF Calls
      <3>3. a = [s EXCEPT !.extra = TRUE] \/ a = [s EXCEPT !.extra = FALSE, !.index = s.index + 1]
        BY DEF Advance
      <3> QED
        BY <3>1, <3>2, <3>3, Zenon
    <2>2. a \in Calls
      <3>1. /\ s.index + 1 \in Nat
            /\ a = [s EXCEPT !.extra = TRUE] \/ a = [s EXCEPT !.extra = FALSE, !.index = s.index + 1]
        BY <1>0, CallFields DEF Advance
      <3> QED
        BY <1>0, <3>1, CallChanges, Zenon
    <2> DEFINE w == IF s.fd THEN s.wrote \cup {File(c)} ELSE s.wrote
    <2>3. t = [a EXCEPT !.fd = FALSE, !.pc = "file", !.wrote = w]
      <3>1. t = [a EXCEPT !.fd = FALSE, !.pc = "file", !.wrote = IF s.fd THEN @ \cup {File(c)} ELSE @]
        BY <1>0, <1>4, Zenon DEF WriteFile, Go
      <3> HIDE DEF a
      <3> QED
        BY <2>1, <3>1
    <2> HIDE DEF a, w
    <2>4. /\ SameCall(a, t) /\ SameCount(a, t) /\ SameLevels(a, t)
          /\ t.fd = FALSE /\ t.pc = "file" /\ t.wrote = w
      BY <2>2, <2>3 DEF Calls
    <2> QED
      BY <2>1, <2>4 DEF w
  <1>5. ASSUME FilesDone(c) PROVE Moves(s, t) /\ t.pc = "returned" /\ t.code = kOK
    <2>1. t = [s EXCEPT !.pc = "returned", !.code = kOK]
      BY <1>0, <1>5, Zenon DEF FilesDone, Returned, Go
    <2> QED
      BY <1>0, <2>1 DEF Calls
  <1>6. ASSUME Return(c) PROVE t = Idle
    BY <1>0, <1>6, Zenon DEF Return, Go
  <1> QED
    BY <1>1, <1>2, <1>3, <1>4, <1>5, <1>6, Zenon

-----------------------------------------------------------------------------
(* Types *)

\* A client's step leaves the configuration and the calls of the others alone.
LEMMA ClientFrame ==
    ASSUME TypeInv, NEW c \in Clients, ClientStep(c)
    PROVE  /\ phase = "serving" /\ ~BeforeServing'
           /\ kind' = kind /\ config' = config /\ lrusNum' = lrusNum /\ workload' = workload
           /\ levelFiles' = levelFiles
           /\ \A d \in Clients \ {c} : at'[d] = at[d]
  <1>1. \A d \in Clients \ {c} : at'[d] = at[d]
    BY ClientCall, Zenon DEF TypeInv, CallTypes
  <1>2. /\ phase = "serving" /\ phase' \in {phase, ExitPhase, "crashed"}
        /\ UNCHANGED setupVars /\ levelFiles' = levelFiles
    <2>1. CASE Read(c) \/ Insert(c) \/ Scan(c) \/ doSomeThing(c)
      BY <2>1, Starts DEF Begin, storeVars
    <2>2. CASE Get(c) \/ PutsDone(c) \/ Next(c) \/ AfterOverrun(c)
      BY <2>2 DEF Get, PutsDone, Next, AfterOverrun, storeVars, Exit
    <2>3. CASE Put(c)
      BY <2>3 DEF Put, PutFailed, Exit
    <2>4. CASE CountLevel(c) \/ OpenFile(c) \/ WriteFile(c) \/ FilesDone(c) \/ Return(c)
      BY <2>4 DEF CountLevel, OpenFile, WriteFile, FilesDone, Return, storeVars
    <2> QED
      BY <2>1, <2>2, <2>3, <2>4 DEF ClientStep
  <1>3. ~BeforeServing'
    BY <1>2 DEF BeforeServing, ExitPhase
  <1> QED
    BY <1>1, <1>2, <1>3 DEF setupVars

LEMMA ClientCallAt == ASSUME TypeInv, NEW c \in Clients, ClientStep(c) PROVE CallAt(c)'
  <1> DEFINE s == at[c]
             t == at'[c]
  <1>0. CallAt(c) /\ (at' = at => CallAt(c)')
    BY DEF TypeInv, CallAt
  <1>1. CASE Read(c) \/ Insert(c) \/ Scan(c) \/ doSomeThing(c)
    <2>1. PICK new \in Calls : Begin(c, new) /\ Fresh(new)
      BY <1>1, Starts
    <2>2. PICK known \in {acked, {}} : at' = [at EXCEPT ![c] = [new EXCEPT !.known = known]]
      BY <2>1, BeginEffect
    <2>3. t = [new EXCEPT !.known = known]
      BY <2>2 DEF TypeInv, CallTypes
    <2>4. t.pc = new.pc /\ t.name = new.name /\ t.key = new.key
      BY <2>3 DEF Calls
    <2> QED
      BY <2>1, <2>4 DEF Fresh, CallAt, Reports
  <1>2. CASE Get(c) \/ Put(c) \/ PutsDone(c) \/ Next(c)
    <2>1. /\ at' = at \/ (SameCall(s, t) /\ t.pc \in {"returned", "put", "next", "overrun"})
          /\ t.pc = "put" => Put(c) \/ at' = at
          /\ t.pc \in {"next", "overrun"} => Next(c) \/ at' = at
      <3>1. CASE Get(c) \/ PutsDone(c)
        BY <3>1, RecordSteps, Zenon DEF Moves
      <3>2. CASE Put(c)
        BY <3>2, RecordSteps, Zenon
      <3>3. CASE Next(c)
        BY <3>3, RecordSteps, Zenon
      <3> QED
        BY <1>2, <3>1, <3>2, <3>3
    <2>2. (Put(c) => s.pc = "put") /\ (Next(c) => s.pc = "next")
      BY DEF Put, Next
    <2> QED
      BY <1>0, <2>1, <2>2 DEF CallAt, SameCall
  <1>3. CASE AfterOverrun(c)
    <2>1. at' = at \/ (SameCall(s, t) /\ t.pc = IF s.name = "Scan" THEN "next" ELSE "write")
      BY <1>3, ReportSteps, Zenon DEF Moves
    <2>2. s.pc = "overrun"
      BY <1>3 DEF AfterOverrun
    <2> QED
      BY <1>0, <2>1, <2>2 DEF CallAt, SameCall
  <1>4. CASE CountLevel(c)
    <2>1. SameCall(s, t) /\ t.pc \in {"file", "levels"} /\ s.pc = "levels"
      BY <1>4, ReportSteps DEF CountLevel
    <2> QED
      BY <1>0, <2>1 DEF CallAt, SameCall
  <1>5. CASE OpenFile(c) \/ WriteFile(c) \/ FilesDone(c)
    <2>1. SameCall(s, t) /\ t.pc \in {"overrun", "write", "file", "returned"} /\ s.pc \in {"file", "write"}
      BY <1>5, ReportSteps DEF OpenFile, WriteFile, FilesDone, Moves
    <2> QED
      BY <1>0, <2>1 DEF CallAt, SameCall
  <1>6. CASE Return(c)
    <2>1. t = Idle
      BY <1>6, ReportSteps, Zenon
    <2> QED
      BY <2>1 DEF CallAt, Idle
  <1> QED
    BY <1>1, <1>2, <1>3, <1>4, <1>5, <1>6 DEF ClientStep

LEMMA ClientProcessTypes == ASSUME TypeInv, NEW c \in Clients, ClientStep(c) PROVE ProcessTypes'
  <1> USE DEF ProcessTypes
  <1>0. ProcessTypes /\ CallTypes /\ CallAt(c) /\ at[c] \in Calls
    BY DEF TypeInv, CallTypes
  <1>1. made' \in [Clients -> Nat] /\ during' \in [Clients -> SUBSET (Clients \X Nat)]
    <2>1. CASE Read(c) \/ Insert(c) \/ Scan(c) \/ doSomeThing(c)
      <3>1. PICK new : Begin(c, new)
        BY <2>1, Starts
      <3>2. made' = [made EXCEPT ![c] = @ + 1]
        BY <3>1 DEF Begin
      <3>3. <<c, made[c] + 1>> \in Clients \X Nat /\ \A e \in Clients : Id(e) \in Clients \X Nat
        BY <1>0 DEF Id
      <3>4. {Id(e) : e \in {e \in Clients : at[e].pc # "idle"}} \subseteq Clients \X Nat
        BY <3>3
      <3> HIDE DEF Id
      <3>5. during' = [d \in Clients |->
                         IF d = c THEN {Id(e) : e \in {e \in Clients : at[e].pc # "idle"}}
                                       \cup {<<c, made[c] + 1>>}
                         ELSE IF at[d].pc # "idle" THEN during[d] \cup {<<c, made[c] + 1>>}
                         ELSE during[d]]
        BY <3>1, Zenon DEF Begin
      <3>6. during' \in [Clients -> SUBSET (Clients \X Nat)]
        BY <1>0, <3>3, <3>4, <3>5
      <3>7. made' \in [Clients -> Nat]
        BY <1>0, <3>2
      <3> QED
        BY <3>6, <3>7
    <2>2. CASE Return(c)
      BY <1>0, <2>2 DEF Return
    <2> QED
      BY <1>0, <2>1, <2>2 DEF ClientStep, Get, Put, PutsDone, Next, AfterOverrun, CountLevel, OpenFile,
                              WriteFile, FilesDone, clientVars
  <1>2. stored' \in SUBSET Keys /\ IsFiniteSet(stored') /\ levelFiles' = levelFiles /\ workload' = workload
    <2>1. stored' = stored \/ (Put(c) /\ stored' = stored \cup {at[c].key})
      <3>1. CASE Read(c) \/ Insert(c) \/ Scan(c) \/ doSomeThing(c)
        <4>1. stored' = stored
          BY <3>1, Starts DEF Begin, storeVars
        <4> QED
          BY <4>1
      <3>2. CASE Put(c)
        <4>1. stored' = stored \/ stored' = stored \cup {at[c].key}
          BY <3>2, Zenon DEF Put, PutFailed
        <4> QED
          BY <3>2, <4>1
      <3>3. CASE ~(Read(c) \/ Insert(c) \/ Scan(c) \/ doSomeThing(c) \/ Put(c))
        <4>1. stored' = stored
          BY <3>3 DEF ClientStep, Get, PutsDone, Next, AfterOverrun, CountLevel, OpenFile,
                      WriteFile, FilesDone, Return, storeVars
        <4> QED
          BY <4>1
      <3> QED
        BY <3>1, <3>2, <3>3
    <2>2. Put(c) => at[c].key \in Keys
      BY <1>0 DEF CallAt, Put
    <2> QED
      BY <1>0, <2>1, <2>2, ClientFrame, FS_AddElement
  <1>3. acked' \in SUBSET Keys
    <2>1. CASE Read(c) \/ Insert(c) \/ Scan(c) \/ doSomeThing(c)
      BY <1>0, <2>1, Starts DEF Begin
    <2>2. CASE Return(c)
      BY <1>0, <2>2 DEF Return, CallAt
    <2> QED
      BY <1>0, <2>1, <2>2 DEF ClientStep, Get, Put, PutsDone, Next, AfterOverrun, CountLevel, OpenFile,
                              WriteFile, FilesDone
  <1>4. callCount' \in Nat
    <2>1. CASE Read(c) \/ Insert(c) \/ Scan(c) \/ doSomeThing(c)
      BY <1>0, <2>1, Starts DEF Begin, reportVars
    <2>2. CASE FilesDone(c)
      BY <1>0, <2>2 DEF FilesDone
    <2> QED
      BY <1>0, <2>1, <2>2 DEF ClientStep, Get, Put, PutsDone, Next, AfterOverrun, CountLevel, OpenFile,
                              WriteFile, Return, reportVars
  <1> QED
    BY <1>0, <1>1, <1>2, <1>3, <1>4

LEMMA ClientTypes == ASSUME TypeInv, NEW c \in Clients, ClientStep(c) PROVE TypeInv'
  <1>1. CallTypes'
    <2>1. CASE at' = at
      BY <2>1 DEF TypeInv, CallTypes
    <2>2. CASE \E e \in Calls : at' = [at EXCEPT ![c] = e]
      BY <2>2, Zenon DEF TypeInv, CallTypes
    <2> QED
      BY <2>1, <2>2, ClientCall
  <1>2. \A d \in Clients : CallAt(d)'
    BY ClientCallAt, ClientFrame DEF TypeInv, CallAt
  <1> QED
    BY <1>1, <1>2, ClientProcessTypes, ClientFrame DEF TypeInv, NoCallsYet

\* The steps of the process, as the adapter sees them.
LEMMA AdapterSteps ==
    ASSUME [ProcessNext]_processVars
    PROVE  \/ UNCHANGED adapterVars
           \/ \E path : Construct(dbname[1], ConfigAt(path))
           \/ Constructor
           \/ Compact
           \/ \E c \in Clients : ClientStep(c)
  BY DEF ProcessNext, ReadOptions, NewStore, Constructing, Serving, processVars

\* A step of the constructor comes before the first call, and makes none.
LEMMA ConstructorFrame ==
    ASSUME Constructor \/ \E k, cfg : Construct(k, cfg)
    PROVE  /\ UNCHANGED <<at, acked, made, during, workload, heads, usable, callCount, compactions>>
           /\ BeforeServing
           /\ \/ UNCHANGED <<stored, levelFiles>>
              \/ stored' = workload.keys /\ levelFiles' = workload.levels
  <1>1. ASSUME NEW k, NEW cfg, Construct(k, cfg)
        PROVE  /\ UNCHANGED <<at, acked, made, during, workload, heads, usable, callCount, compactions>>
               /\ BeforeServing /\ UNCHANGED <<stored, levelFiles>>
    BY <1>1 DEF Construct, storeVars, reportVars, clientVars, BeforeServing
  <1>2. CASE setConfigPath \/ MakeFilterRocks
    BY <1>2 DEF setConfigPath, MakeFilterRocks, setupVars, storeVars, reportVars, clientVars, BeforeServing
  <1>3. CASE MakeFilter
    BY <1>3 DEF MakeFilter, storeVars, reportVars, clientVars, BeforeServing
  <1>4. CASE Open
    BY <1>4 DEF Open, setupVars, reportVars, clientVars, BeforeServing
  <1> QED
    BY <1>1, <1>2, <1>3, <1>4 DEF Constructor

LEMMA ConstructorTypes ==
    ASSUME TypeInv, Constructor \/ \E k, cfg : Construct(k, cfg)
    PROVE  TypeInv'
  <1>1. UNCHANGED <<at, acked, made, during, workload, callCount>> /\ BeforeServing
    BY ConstructorFrame
  <1>2. workload.keys \in SUBSET Keys /\ IsFiniteSet(workload.keys)
        /\ workload.levels \subseteq 0..(NumLevels - 1)
    BY WorkloadsAssumption DEF TypeInv, ProcessTypes
  <1>3. ProcessTypes'
    BY <1>1, <1>2, ConstructorFrame DEF TypeInv, ProcessTypes
  <1>4. at = [c \in Clients |-> Idle] /\ acked = {}
    BY <1>1 DEF TypeInv, NoCallsYet
  <1> QED
    BY <1>1, <1>3, <1>4 DEF TypeInv, CallTypes, NoCallsYet, CallAt

LEMMA TypeCorrect == ProcessSpec => []TypeInv
  <1>1. ProcessInit => TypeInv
    BY IdleType, FS_EmptySet
       DEF ProcessInit, AdapterInit, TypeInv, CallTypes, ProcessTypes, NoCallsYet, CallAt, Idle
  <1>2. TypeInv /\ [ProcessNext]_processVars => TypeInv'
    <2> SUFFICES ASSUME TypeInv, [ProcessNext]_processVars PROVE TypeInv'
      OBVIOUS
    <2>1. CASE UNCHANGED adapterVars
      BY <2>1 DEF adapterVars, TypeInv, CallTypes, ProcessTypes, NoCallsYet, BeforeServing, CallAt
    <2>2. CASE Compact
      <3>1. levelFiles' \subseteq 0..(NumLevels - 1)
        BY <2>2 DEF Compact, TypeInv, ProcessTypes
      <3> QED
        BY <2>2, <3>1 DEF Compact, TypeInv, CallTypes, ProcessTypes, NoCallsYet, BeforeServing, CallAt,
                          setupVars, reportVars, clientVars
    <2> QED
      BY <2>1, <2>2, AdapterSteps, ConstructorTypes, ClientTypes
  <1> QED
    BY <1>1, <1>2, PTL DEF ProcessSpec

-----------------------------------------------------------------------------
(* The records *)

\* What a client has put, and what it knew to be stored when its Read began, is in
\* the store.
PutInv(c) ==
    /\ at[c].known \subseteq stored
    /\ at[c].pc = "put" /\ at[c].count >= 1 => at[c].key \in stored
    /\ at[c].pc = "returned" /\ at[c].name \in {"Insert", "Update"} => at[c].key \in stored

RecordsInv == acked \subseteq stored /\ AcknowledgedFound /\ \A c \in Clients : PutInv(c)

\* What a client's steps do to the records.
LEMMA ClientRecords ==
    ASSUME TypeInv, NEW c \in Clients, ClientStep(c)
    PROVE  /\ stored \subseteq stored'
           /\ acked' = acked \/ (Return(c) /\ acked' = IF at[c].name \in {"Insert", "Update"}
                                                       THEN acked \cup {at[c].key} ELSE acked)
  <1>1. CASE Read(c) \/ Insert(c) \/ Scan(c) \/ doSomeThing(c)
    BY <1>1, Starts DEF Begin, storeVars
  <1>2. CASE Put(c)
    BY <1>2 DEF Put, PutFailed
  <1>3. CASE Get(c) \/ PutsDone(c) \/ Next(c) \/ AfterOverrun(c)
    BY <1>3 DEF Get, PutsDone, Next, AfterOverrun, storeVars
  <1>4. CASE CountLevel(c) \/ OpenFile(c) \/ WriteFile(c) \/ FilesDone(c)
    BY <1>4 DEF CountLevel, OpenFile, WriteFile, FilesDone, storeVars
  <1>5. CASE Return(c)
    BY <1>5 DEF Return, storeVars
  <1> QED
    BY <1>1, <1>2, <1>3, <1>4, <1>5 DEF ClientStep

\* A call that a client makes keeps its promises about the records.
LEMMA ClientPuts ==
    ASSUME TypeInv, RecordsInv, NEW c \in Clients, ClientStep(c)
    PROVE  /\ PutInv(c)'
           /\ at'[c].name = "Read" /\ at'[c].pc = "returned" /\ at'[c].code = kErrorNoData
              => at'[c].key \notin at'[c].known
  <1> DEFINE s == at[c]
             t == at'[c]
             Found(u) == u.name = "Read" /\ u.pc = "returned" /\ u.code = kErrorNoData => u.key \notin u.known
  <1>0. s \in Calls /\ CallAt(c) /\ PutInv(c) /\ Found(s) /\ stored \subseteq stored'
    BY ClientRecords DEF TypeInv, CallTypes, RecordsInv, AcknowledgedFound
  <1>1. at' = at => PutInv(c)' /\ Found(t)
    BY <1>0 DEF PutInv
  <1>2. CASE Read(c) \/ Insert(c) \/ Scan(c) \/ doSomeThing(c)
    <2>1. PICK new \in Calls : Begin(c, new) /\ Fresh(new)
      BY <1>2, Starts
    <2>2. PICK known \in {acked, {}} : at' = [at EXCEPT ![c] = [new EXCEPT !.known = known]]
      BY <2>1, BeginEffect
    <2>3. t = [new EXCEPT !.known = known]
      BY <2>2 DEF TypeInv, CallTypes
    <2>4. t.pc = new.pc /\ t.name = new.name /\ t.count = new.count /\ t.known = known
      BY <2>3 DEF Calls
    <2>5. known \subseteq stored'
      BY <1>0 DEF RecordsInv
    <2> QED
      BY <2>1, <2>4, <2>5 DEF Fresh, PutInv, Reports
  <1>3. CASE Get(c)
    <2>1. at' = at \/ (/\ t.name = s.name /\ t.key = s.key /\ t.known = s.known /\ t.pc = "returned"
                       /\ t.code = IF s.key \in stored THEN kOK ELSE kErrorNoData)
      BY <1>3, RecordSteps, Zenon DEF Moves, SameCall
    <2>2. s.name = "Read"
      BY <1>0, <1>3 DEF CallAt, Get
    <2> QED
      BY <1>0, <1>1, <2>1, <2>2 DEF PutInv, kOK, kErrorNoData
  <1>4. CASE Put(c)
    <2>1. at' = at \/ (/\ t.name = s.name /\ t.key = s.key /\ t.known = s.known /\ t.pc = "put"
                       /\ stored' = stored \cup {s.key})
      BY <1>4, RecordSteps, Zenon DEF SameCall
    <2> QED
      BY <1>0, <1>1, <2>1 DEF PutInv
  <1>5. CASE PutsDone(c)
    <2>1. at' = at \/ (/\ t.name = s.name /\ t.key = s.key /\ t.known = s.known /\ t.pc = "returned"
                       /\ s.count = 1 /\ t.code = kOK)
      BY <1>5, RecordSteps, Zenon DEF Moves, SameCall
    <2>2. s.pc = "put"
      BY <1>5 DEF PutsDone
    <2> QED
      BY <1>0, <1>1, <2>1, <2>2 DEF PutInv, kOK, kErrorNoData
  <1>6. CASE Next(c)
    <2>1. t.name = s.name /\ t.known = s.known /\ t.pc \in {"returned", "next", "overrun"}
      BY <1>6, RecordSteps, Zenon DEF SameCall
    <2>2. s.name = "Scan"
      BY <1>0, <1>6 DEF CallAt, Next
    <2> QED
      BY <1>0, <2>1, <2>2 DEF PutInv
  <1>7. CASE AfterOverrun(c)
    <2>1. at' = at \/ (t.name = s.name /\ t.known = s.known /\ t.pc = IF s.name = "Scan" THEN "next" ELSE "write")
      BY <1>7, ReportSteps, Zenon DEF Moves, SameCall
    <2> QED
      BY <1>0, <1>1, <2>1 DEF PutInv
  <1>8. CASE CountLevel(c) \/ OpenFile(c) \/ WriteFile(c) \/ FilesDone(c)
    <2>1. /\ t.name = s.name /\ t.known = s.known
          /\ t.pc \in {"file", "levels", "overrun", "write", "returned"}
      <3>1. CASE CountLevel(c)
        BY <3>1, ReportSteps, Zenon DEF SameCall
      <3>2. CASE OpenFile(c)
        BY <3>2, ReportSteps, Zenon DEF SameCall
      <3>3. CASE WriteFile(c) \/ FilesDone(c)
        BY <3>3, ReportSteps, Zenon DEF SameCall, Moves
      <3> QED
        BY <1>8, <3>1, <3>2, <3>3
    <2>2. s.name \in Reports
      BY <1>0, <1>8 DEF CallAt, CountLevel, OpenFile, WriteFile, FilesDone
    <2> QED
      BY <1>0, <2>1, <2>2 DEF PutInv, Reports
  <1>9. CASE Return(c)
    <2>1. t = Idle
      BY <1>9, ReportSteps, Zenon
    <2> QED
      BY <2>1 DEF PutInv, Idle
  <1> QED
    BY <1>2, <1>3, <1>4, <1>5, <1>6, <1>7, <1>8, <1>9 DEF ClientStep

\* A Read answers that there is no record only for keys without an acknowledged
\* Insert or Update before it: what is acknowledged is in the store, and so is what
\* a Read found acknowledged when it began, since nothing leaves the store.
THEOREM AcknowledgedIsFound == ProcessSpec => []AcknowledgedFound
  <1>1. ProcessInit => RecordsInv
    BY DEF ProcessInit, AdapterInit, RecordsInv, AcknowledgedFound, PutInv, Idle
  <1>2. TypeInv /\ RecordsInv /\ [ProcessNext]_processVars => RecordsInv'
    <2> SUFFICES ASSUME TypeInv, RecordsInv, [ProcessNext]_processVars PROVE RecordsInv'
      OBVIOUS
    <2>1. CASE UNCHANGED adapterVars \/ Compact
      BY <2>1 DEF adapterVars, Compact, setupVars, clientVars, RecordsInv, AcknowledgedFound, PutInv
    <2>2. CASE Constructor \/ \E path : Construct(dbname[1], ConfigAt(path))
      <3>1. BeforeServing /\ at' = at /\ acked' = acked
        BY <2>2, ConstructorFrame
      <3>2. at = [c \in Clients |-> Idle] /\ acked = {}
        BY <3>1 DEF TypeInv, NoCallsYet
      <3> QED
        BY <3>1, <3>2 DEF RecordsInv, AcknowledgedFound, PutInv, Idle
    <2>3. ASSUME NEW c \in Clients, ClientStep(c) PROVE RecordsInv'
      <3>1. stored \subseteq stored' /\ \A d \in Clients \ {c} : at'[d] = at[d]
        BY <2>3, ClientRecords, ClientFrame
      <3>2. acked' \subseteq stored'
        <4>1. CASE acked' = acked
          BY <3>1, <4>1 DEF RecordsInv
        <4>2. CASE Return(c)
          BY <2>3, <3>1, <4>2, ClientRecords DEF RecordsInv, PutInv, Return
        <4> QED
          BY <2>3, <4>1, <4>2, ClientRecords
      <3>3. \A d \in Clients : PutInv(d)'
        BY <2>3, <3>1, ClientPuts DEF RecordsInv, PutInv
      <3>4. AcknowledgedFound'
        BY <2>3, <3>1, ClientPuts DEF RecordsInv, AcknowledgedFound
      <3> QED
        BY <3>2, <3>3, <3>4 DEF RecordsInv
    <2> QED
      BY <2>1, <2>2, <2>3, AdapterSteps
  <1>3. RecordsInv => AcknowledgedFound
    BY DEF RecordsInv
  <1> QED
    BY <1>1, <1>2, <1>3, TypeCorrect, PTL DEF ProcessSpec

-----------------------------------------------------------------------------
(* The bounds *)

\* How many records a scan has passed, until it is past the last one.
Scanning(c) ==
    at[c].name = "Scan" /\ at[c].pc \in {"next", "overrun"} =>
        /\ IsFiniteSet(at[c].rest)
        /\ \/ at[c].found - Cardinality(at[c].rest) = at[c].count - at[c].left
           \/ at[c].rest = {} /\ at[c].found < at[c].count

\* The levels a report has counted are levels of the store, and those it had to ask
\* for had files then.
Counting(c) ==
    at[c].name \in Reports =>
        /\ at[c].levels \in 0..NumLevels
        /\ (0..(at[c].levels - 1)) \ Uncounted(c) \subseteq at[c].seen

BoundsInv == ScanInBounds /\ ReportInBounds /\ \A c \in Clients : Scanning(c) /\ Counting(c)

\* A scan that calls Next past the end has passed all the records it found, and they
\* are fewer than it was to return.
LEMMA ClientScans ==
    ASSUME TypeInv, NEW c \in Clients, Scanning(c), ClientStep(c),
           at[c].pc = "overrun" /\ at[c].name = "Scan" => at[c].found < at[c].count
    PROVE  /\ Scanning(c)'
           /\ at'[c].pc = "overrun" /\ at'[c].name = "Scan" => at'[c].found < at'[c].count
  <1> DEFINE s == at[c]
             t == at'[c]
             Past(u) == u.pc = "overrun" /\ u.name = "Scan" => u.found < u.count
  <1>0. s \in Calls /\ CallAt(c) /\ Past(s) /\ s.left \in Int /\ s.count \in Int /\ s.found \in Nat
    BY CallFields DEF TypeInv, CallTypes
  <1>1. at' = at => Scanning(c)' /\ Past(t)
    BY <1>0 DEF Scanning
  <1>2. CASE Read(c) \/ Insert(c) \/ Scan(c) \/ doSomeThing(c)
    <2>1. PICK new \in Calls : Begin(c, new) /\ Fresh(new)
      BY <1>2, Starts
    <2>2. PICK known \in {acked, {}} : at' = [at EXCEPT ![c] = [new EXCEPT !.known = known]]
      BY <2>1, BeginEffect
    <2>3. t = [new EXCEPT !.known = known]
      BY <2>2 DEF TypeInv, CallTypes
    <2>4. t.pc = new.pc /\ t.name = new.name /\ t.count = new.count /\ t.left = new.left
          /\ t.found = new.found /\ t.rest = new.rest
      BY <2>3 DEF Calls
    <2>5. t.left \in Int /\ t.found \in Nat
      BY <2>1, <2>4, CallFields
    <2> QED
      BY <2>1, <2>4, <2>5 DEF Fresh, Scanning, Reports
  <1>3. CASE Next(c)
    <2>1. /\ t.name = s.name /\ t.found = s.found
          /\ \/ t.pc = "returned"
             \/ /\ t.pc = "next" /\ s.rest # {} /\ t.rest = s.rest \ {Min(s.rest)}
                /\ t.left = s.left - 1 /\ t.count = s.count
             \/ /\ t.pc = "overrun" /\ s.rest = {} /\ s.left > 0
                /\ t.rest = s.rest /\ t.left = s.left - 1 /\ t.count = s.count
      BY <1>3, RecordSteps, Zenon DEF SameCall
    <2>2. /\ s.name = "Scan" /\ IsFiniteSet(s.rest)
          /\ \/ s.found - Cardinality(s.rest) = s.count - s.left
             \/ s.rest = {} /\ s.found < s.count
      BY <1>0, <1>3 DEF CallAt, Next, Scanning
    <2>3. CASE t.pc = "returned"
      BY <2>3 DEF Scanning
    <2>4. CASE t.pc = "next" /\ s.rest # {} /\ t.rest = s.rest \ {Min(s.rest)}
               /\ t.left = s.left - 1 /\ t.count = s.count
      <3>1. s.rest \in SUBSET Nat
        BY <1>0, KeysAssumption, CallFields
      <3>2. Min(s.rest) \in s.rest
        BY <2>2, <2>4, <3>1, MinOfRest
      <3>3. IsFiniteSet(t.rest) /\ Cardinality(t.rest) = Cardinality(s.rest) - 1
            /\ Cardinality(s.rest) \in Nat
        BY <2>2, <2>4, <3>2, FS_RemoveElement, FS_CardinalityType
      <3>4. t.found - Cardinality(t.rest) = t.count - t.left
        BY <1>0, <2>1, <2>2, <2>4, <3>3
      <3> QED
        BY <2>4, <3>3, <3>4 DEF Scanning
    <2>5. CASE t.pc = "overrun" /\ s.rest = {} /\ s.left > 0
               /\ t.rest = s.rest /\ t.left = s.left - 1 /\ t.count = s.count
      <3>1. Cardinality(s.rest) = 0 /\ IsFiniteSet(s.rest)
        BY <2>5, FS_EmptySet
      <3>2. s.found < s.count
        BY <1>0, <2>2, <2>5, <3>1
      <3> QED
        BY <2>1, <2>5, <3>1, <3>2 DEF Scanning
    <2> QED
      BY <2>1, <2>3, <2>4, <2>5
  <1>4. CASE AfterOverrun(c)
    <2>1. at' = at \/ (/\ t.name = s.name /\ t.found = s.found /\ t.count = s.count /\ t.rest = s.rest
                       /\ t.left = s.left /\ t.pc = IF s.name = "Scan" THEN "next" ELSE "write")
      BY <1>4, ReportSteps, Zenon DEF Moves, SameCall, SameCount
    <2>2. s.pc = "overrun"
      BY <1>4 DEF AfterOverrun
    <2> QED
      BY <1>0, <1>1, <2>1, <2>2 DEF Scanning
  <1>5. CASE Get(c) \/ Put(c) \/ PutsDone(c)
    <2>1. at' = at \/ t.pc \in {"returned", "put"}
      <3>1. CASE Get(c)
        BY <3>1, RecordSteps, Zenon
      <3>2. CASE Put(c)
        BY <3>2, RecordSteps, Zenon
      <3>3. CASE PutsDone(c)
        BY <3>3, RecordSteps, Zenon
      <3> QED
        BY <1>5, <3>1, <3>2, <3>3
    <2> QED
      BY <1>1, <2>1 DEF Scanning
  <1>6. CASE CountLevel(c) \/ OpenFile(c) \/ WriteFile(c) \/ FilesDone(c)
    <2>1. t.name = s.name
      <3>1. CASE CountLevel(c)
        BY <3>1, ReportSteps, Zenon DEF SameCall
      <3>2. CASE OpenFile(c)
        BY <3>2, ReportSteps, Zenon DEF SameCall
      <3>3. CASE WriteFile(c) \/ FilesDone(c)
        BY <3>3, ReportSteps, Zenon DEF SameCall, Moves
      <3> QED
        BY <1>6, <3>1, <3>2, <3>3
    <2>2. s.name \in Reports
      BY <1>0, <1>6 DEF CallAt, CountLevel, OpenFile, WriteFile, FilesDone
    <2> QED
      BY <2>1, <2>2 DEF Scanning, Reports
  <1>7. CASE Return(c)
    <2>1. t = Idle
      BY <1>7, ReportSteps, Zenon
    <2> QED
      BY <2>1 DEF Scanning, Idle
  <1> QED
    BY <1>2, <1>3, <1>4, <1>5, <1>6, <1>7 DEF ClientStep

\* A report that stores outside its array has counted each level of the store.
Outside(c) ==
    at[c].pc = "overrun" /\ at[c].name # "Scan"
    => at[c].name = "printAccessFreq" /\ (0..(NumLevels - 1)) \ Uncounted(c) \subseteq at[c].seen

LEMMA ClientCounts ==
    ASSUME TypeInv, NEW c \in Clients, Counting(c), Outside(c), ClientStep(c)
    PROVE  Counting(c)' /\ Outside(c)'
  <1> DEFINE s == at[c]
             t == at'[c]
  <1>0. s \in Calls /\ CallAt(c) /\ s.levels \in Nat /\ s.index \in Nat /\ kind' = kind
        /\ NumLevels \in Nat /\ NumLevels > 2 /\ levelFiles \subseteq 0..(NumLevels - 1)
    BY CallFields, ClientFrame, NumLevelsAssumption DEF TypeInv, CallTypes, ProcessTypes
  <1>1. at' = at => Counting(c)' /\ Outside(c)'
    BY <1>0 DEF Counting, Outside, Uncounted
  <1>2. ASSUME SameCall(s, t), SameLevels(s, t) PROVE Counting(c)'
    BY <1>0, <1>2 DEF Counting, SameCall, SameLevels, Uncounted
  <1>3. CASE Read(c) \/ Insert(c) \/ Scan(c) \/ doSomeThing(c)
    <2>1. PICK new \in Calls : Begin(c, new) /\ Fresh(new)
      BY <1>3, Starts
    <2>2. PICK known \in {acked, {}} : at' = [at EXCEPT ![c] = [new EXCEPT !.known = known]]
      BY <2>1, BeginEffect
    <2>3. t = [new EXCEPT !.known = known]
      BY <2>2 DEF TypeInv, CallTypes
    <2>4. t.pc = new.pc /\ t.levels = new.levels /\ t.seen = new.seen
      BY <2>3 DEF Calls
    <2>5. t.levels = 0 /\ t.pc # "overrun"
      BY <2>1, <2>4 DEF Fresh
    <2>6. 0..(t.levels - 1) = {} /\ t.levels \in 0..NumLevels
      BY <1>0, <2>5
    <2> QED
      BY <2>5, <2>6 DEF Counting, Outside
  <1>4. CASE Get(c) \/ Put(c) \/ PutsDone(c) \/ Next(c)
    <2>1. s.name \in {"Read", "Insert", "Update", "Delete", "Scan"}
      BY <1>0, <1>4 DEF CallAt, Get, Put, PutsDone, Next
    <2>2. (at' = at \/ t.name = s.name) /\ (t.pc = "overrun" => at' = at \/ s.name = "Scan")
      <3>1. CASE Get(c) \/ PutsDone(c)
        BY <3>1, RecordSteps, Zenon DEF SameCall, Moves
      <3>2. CASE Put(c)
        BY <3>2, RecordSteps, Zenon DEF SameCall
      <3>3. CASE Next(c)
        <4>1. t.name = s.name
          BY <3>3, RecordSteps, Zenon DEF SameCall
        <4> QED
          BY <1>0, <3>3, <4>1 DEF CallAt, Next
      <3> QED
        BY <1>4, <3>1, <3>2, <3>3
    <2> QED
      BY <1>1, <2>1, <2>2 DEF Counting, Outside, Reports
  <1>5. CASE AfterOverrun(c)
    <2>1. at' = at \/ (SameCall(s, t) /\ SameLevels(s, t) /\ t.pc \in {"next", "write"})
      BY <1>5, ReportSteps, Zenon DEF Moves
    <2> QED
      BY <1>1, <1>2, <2>1 DEF Outside
  <1>6. CASE CountLevel(c)
    <2>1. t.pc \in {"file", "levels"}
      BY <1>6, ReportSteps, Zenon
    <2>2. CASE SameLevels(s, t)
      <3>1. SameCall(s, t)
        BY <1>6, ReportSteps, Zenon
      <3> QED
        BY <1>2, <2>1, <2>2, <3>1 DEF Outside
    <2>3. CASE ~SameLevels(s, t)
      <3>1. /\ SameCall(s, t) /\ t.levels = s.levels + 1 /\ s.levels \in Uncounted(c) \cup levelFiles
            /\ t.seen = IF s.levels \in levelFiles THEN s.seen \cup {s.levels} ELSE s.seen
        BY <1>6, <2>3, ReportSteps, Zenon
      <3>2. Uncounted(c)' = Uncounted(c) /\ Uncounted(c) \subseteq 0..(NumLevels - 1)
        BY <1>0, <3>1 DEF SameCall, Uncounted
      <3>3. t.levels \in 0..NumLevels
        BY <1>0, <3>1, <3>2
      <3>4. s.name \in Reports /\ (0..(s.levels - 1)) \ Uncounted(c) \subseteq s.seen
        BY <1>0, <1>6 DEF CallAt, CountLevel, Counting
      <3>5. 0..(t.levels - 1) = (0..(s.levels - 1)) \cup {s.levels}
        BY <1>0, <3>1
      <3>6. (0..(t.levels - 1)) \ Uncounted(c) \subseteq t.seen
        BY <3>1, <3>4, <3>5
      <3> QED
        BY <2>1, <3>2, <3>3, <3>6 DEF Counting, Outside
    <2> QED
      BY <2>2, <2>3
  <1>7. CASE OpenFile(c)
    <2>1. /\ SameCall(s, t) /\ SameLevels(s, t) /\ t.pc = IF s.name # "printFP" /\ s.index >= NumLevels
                                                          THEN "overrun" ELSE "write"
      BY <1>7, ReportSteps, Zenon
    <2>2. s.name \in Reports /\ s.index <= LastFile(c)
      BY <1>0, <1>7 DEF CallAt, OpenFile
    <2>3. ASSUME s.name # "printFP", s.index >= NumLevels
          PROVE  s.name = "printAccessFreq" /\ s.levels = NumLevels
      <3>1. s.levels \in 0..NumLevels
        BY <2>2 DEF Counting
      <3>2. CASE s.name = "printAccessFreq"
        BY <1>0, <2>2, <2>3, <3>1, <3>2 DEF LastFile
      <3>3. CASE s.name = "printFilterCount"
        BY <1>0, <2>2, <2>3, <3>1, <3>3 DEF LastFile
      <3> QED
        BY <2>2, <2>3, <3>2, <3>3 DEF Reports
    <2>4. Uncounted(c)' = Uncounted(c)
      BY <1>0, <2>1 DEF SameCall, Uncounted
    <2>5. Outside(c)'
      BY <2>1, <2>2, <2>3, <2>4 DEF Outside, Counting, SameCall, SameLevels
    <2> QED
      BY <1>2, <2>1, <2>5
  <1>8. CASE WriteFile(c) \/ FilesDone(c)
    <2>1. SameCall(s, t) /\ SameLevels(s, t) /\ t.pc \in {"file", "returned"}
      BY <1>8, ReportSteps, Zenon DEF Moves
    <2> QED
      BY <1>2, <2>1 DEF Outside
  <1>9. CASE Return(c)
    <2>1. t = Idle
      BY <1>9, ReportSteps, Zenon
    <2> QED
      BY <2>1 DEF Counting, Outside, Idle, Reports
  <1> QED
    BY <1>3, <1>4, <1>5, <1>6, <1>7, <1>8, <1>9 DEF ClientStep

\* After the constructor has read the bits file, lrusNum is the number of filters.
Filtering == phase \in {"filter", "open", "serving"}

FiltersInv ==
    /\ phase # "none" => /\ config.ini \in {"absent", "empty", "incomplete", "complete"}
                         /\ config.ini = "complete" => config.bits \in Seq(Int)
    /\ Filtering => config.ini = "complete"
    /\ phase \in {"open", "serving"} /\ kind # "rocksdb" /\ config.bloomType = 2 /\ BitsFit(config.bits)
        => lrusNum = LrusNum(config.bits)

\* LrusNum counts the filters before the first zero.
LEMMA FiltersBeforeZero ==
    ASSUME NEW bits \in Seq(Int)
    PROVE  \A i \in DOMAIN bits : (i < LrusNum(bits)) <=> \A j \in 1..i : bits[j] # 0
  <1> DEFINE zeros == {i \in 1..Len(bits) : bits[i] = 0}
             zero == SelectInSeq(bits, LAMBDA b : b = 0)
  <1>1. Len(bits) \in Nat /\ DOMAIN bits = 1..Len(bits)
    BY LenProperties
  <1>2. zero = IF zeros # {} THEN Min(zeros) ELSE 0
    BY DEF SelectInSeq
  <1>3. LrusNum(bits) = Len(IF zero = 0 THEN bits ELSE SubSeq(bits, 1, zero - 1)) + 1
    BY DEF LrusNum, BeforeZero
  <1>4. CASE zeros = {}
    <2>1. zero = 0
      BY <1>2, <1>4
    <2>2. LrusNum(bits) = Len(bits) + 1
      BY <1>3, <2>1
    <2>3. \A j \in 1..Len(bits) : bits[j] # 0
      BY <1>4
    <2> QED
      BY <1>1, <2>2, <2>3
  <1>5. CASE zeros # {}
    <2>1. zeros \in SUBSET Int /\ IsFiniteSet(zeros)
      <3>1. IsFiniteSet(1..Len(bits))
        BY <1>1, FS_Interval
      <3>2. zeros \subseteq 1..Len(bits)
        OBVIOUS
      <3> QED
        BY <3>1, <3>2, FS_Subset
    <2>2. zero \in zeros /\ \A i \in zeros : zero <= i
      <3> HIDE DEF zeros, zero
      <3>1. \E x \in zeros : \A y \in zeros : x <= y
        BY <1>5, <2>1, LeastElement
      <3>2. zero = Min(zeros)
        BY <1>2, <1>5
      <3> QED
        BY <3>1, <3>2 DEF Min
    <2>3. zero \in 1..Len(bits) /\ bits[zero] = 0
      BY <2>2
    <2> HIDE DEF zero
    <2>4. Len(SubSeq(bits, 1, zero - 1)) = zero - 1
      <3>1. zero - 1 \in Nat /\ zero - 1 <= Len(bits)
        BY <1>1, <2>3
      <3>2. Len(SubSeq(bits, 1, zero - 1)) = IF 1 <= zero - 1 THEN (zero - 1) - 1 + 1 ELSE 0
        BY <3>1, QueueOperators
      <3> QED
        BY <3>1, <3>2
    <2>5. LrusNum(bits) = zero
      BY <1>1, <1>3, <2>3, <2>4
    <2>6. ASSUME NEW i \in 1..Len(bits)
          PROVE  (i < zero) <=> \A j \in 1..i : bits[j] # 0
      <3>1. CASE i < zero
        <4>1. \A j \in 1..i : j \notin zeros
          BY <1>1, <2>2, <2>3, <3>1
        <4>2. \A j \in 1..i : j \in 1..Len(bits)
          BY <1>1
        <4> QED
          BY <3>1, <4>1, <4>2
      <3>2. CASE ~(i < zero)
        <4>1. zero \in 1..i
          BY <1>1, <2>3, <3>2
        <4> QED
          BY <2>3, <3>2, <4>1
      <3> QED
        BY <3>1, <3>2
    <2> QED
      BY <1>1, <2>5, <2>6
  <1> QED
    BY <1>4, <1>5

\* The constructor leaves the number of filters in lrusNum.
LEMMA ConstructorFilters ==
    ASSUME FiltersInv, Constructor
    PROVE  FiltersInv'
  <1>0. /\ phase # "none" => /\ config.ini \in {"absent", "empty", "incomplete", "complete"}
                             /\ config.ini = "complete" => config.bits \in Seq(Int)
        /\ Filtering => config.ini = "complete"
    BY DEF FiltersInv
  <1>1. CASE setConfigPath
    <2>1. /\ config' = config /\ kind' = kind /\ lrusNum' = lrusNum /\ phase = "config"
          /\ phase' \in {"terminated", "aborted", "filter"}
          /\ phase' = "filter" => config.ini \notin {"absent", "incomplete", "empty"}
      BY <1>1 DEF setConfigPath, setupVars
    <2> QED
      BY <1>0, <2>1 DEF FiltersInv, Filtering
  <1>2. CASE MakeFilter
    <2>1. config' = config /\ kind' = kind /\ phase = "filter" /\ phase' \in {"open", "crashed"}
      BY <1>2 DEF MakeFilter
    <2>2. phase' = "open" /\ config.bloomType = 2 /\ BitsFit(config.bits) => lrusNum' = LrusNum(config.bits)
      BY <1>2 DEF MakeFilter
    <2> QED
      BY <1>0, <2>1, <2>2 DEF FiltersInv, Filtering
  <1>3. CASE MakeFilterRocks
    <2>1. config' = config /\ kind' = "rocksdb" /\ phase = "filter" /\ phase' \in {"open", "crashed"}
      BY <1>3 DEF MakeFilterRocks, setupVars
    <2> QED
      BY <1>0, <2>1 DEF FiltersInv, Filtering
  <1>4. CASE Open
    <2>1. config' = config /\ kind' = kind /\ lrusNum' = lrusNum /\ phase = "open"
          /\ phase' \in {"serving", "exited 0", "exited 1"}
      BY <1>4 DEF Open, setupVars, ExitPhase
    <2> QED
      BY <1>0, <2>1 DEF FiltersInv, Filtering
  <1> QED
    BY <1>1, <1>2, <1>3, <1>4 DEF Constructor

LEMMA FiltersCorrect == ProcessSpec => []FiltersInv
  <1>1. ProcessInit => FiltersInv
    BY DEF ProcessInit, AdapterInit, FiltersInv, Filtering
  <1>2. TypeInv /\ FiltersInv /\ [ProcessNext]_processVars => FiltersInv'
    <2> SUFFICES ASSUME TypeInv, FiltersInv, [ProcessNext]_processVars PROVE FiltersInv'
      OBVIOUS
    <2>1. CASE UNCHANGED adapterVars \/ Compact
      BY <2>1 DEF adapterVars, Compact, setupVars, FiltersInv, Filtering
    <2>2. ASSUME NEW path, Construct(dbname[1], ConfigAt(path)) PROVE FiltersInv'
      <3>1. config' = ConfigAt(path) /\ phase' = "config"
        BY <2>2 DEF Construct
      <3>2. /\ ConfigAt(path).ini \in {"absent", "empty", "incomplete", "complete"}
            /\ ConfigAt(path).ini = "complete" => ConfigAt(path).bits \in Seq(Int)
        BY ConfigsAssumption DEF ConfigAt
      <3> QED
        BY <3>1, <3>2 DEF FiltersInv, Filtering
    <2>3. ASSUME NEW c \in Clients, ClientStep(c) PROVE FiltersInv'
      BY <2>3, ClientFrame DEF FiltersInv, Filtering
    <2> QED
      BY <2>1, <2>2, <2>3, ConstructorFilters, AdapterSteps
  <1> QED
    BY <1>1, <1>2, TypeCorrect, PTL DEF ProcessSpec

LEMMA BoundsCorrect == ProcessSpec => []BoundsInv
  <1> USE DEF BoundsInv, ScanInBounds, ReportInBounds
  <1>1. ProcessInit => BoundsInv
    BY DEF ProcessInit, AdapterInit, Scanning, Counting, Reports, Idle
  <1>2. TypeInv /\ BoundsInv /\ [ProcessNext]_processVars => BoundsInv'
    <2> SUFFICES ASSUME TypeInv, BoundsInv, [ProcessNext]_processVars PROVE BoundsInv'
      OBVIOUS
    <2>1. CASE UNCHANGED adapterVars \/ Compact
      <3>1. at' = at /\ kind' = kind
        BY <2>1 DEF adapterVars, Compact, setupVars
      <3> QED
        BY <3>1 DEF Scanning, Counting, Uncounted
    <2>2. CASE Constructor \/ \E path : Construct(dbname[1], ConfigAt(path))
      <3>1. BeforeServing /\ at' = at
        BY <2>2, ConstructorFrame
      <3>2. at' = [c \in Clients |-> Idle]
        BY <3>1 DEF TypeInv, NoCallsYet
      <3> QED
        BY <3>2 DEF Scanning, Counting, Reports, Idle
    <2>3. ASSUME NEW c \in Clients, ClientStep(c) PROVE BoundsInv'
      <3>1. kind' = kind /\ \A d \in Clients \ {c} : at'[d] = at[d]
        BY <2>3, ClientFrame
      <3>2. \A d \in Clients : Scanning(d)' /\ Counting(d)'
        BY <2>3, <3>1, ClientScans, ClientCounts DEF Scanning, Counting, Outside, Uncounted
      <3>3. ScanInBounds'
        BY <2>3, <3>1, ClientScans
      <3>4. ReportInBounds'
        BY <2>3, <3>1, ClientCounts DEF Outside, Uncounted
      <3> QED
        BY <3>2, <3>3, <3>4
    <2> QED
      BY <2>1, <2>2, <2>3, AdapterSteps
  <1> QED
    BY <1>1, <1>2, TypeCorrect, PTL DEF ProcessSpec

\* A scan calls Next past the end only when there are fewer records than it is to
\* return; the report of the access frequencies stores outside its array only after
\* it has seen files in each level it asks for, and no other report does; and a bits
\* file that fits its array is used up to its first zero.
THEOREM BoundsAreKept == ProcessSpec => []BoundsKept
  <1>1. FiltersInv => FiltersInUse
    <2> SUFFICES ASSUME FiltersInv, phase = "serving", kind # "rocksdb", config.bloomType = 2,
                        BitsFit(config.bits)
                 PROVE  \A i \in DOMAIN config.bits :
                           (i < lrusNum) <=> \A j \in 1..i : config.bits[j] # 0
      BY DEF FiltersInUse
    <2>1. lrusNum = LrusNum(config.bits) /\ config.bits \in Seq(Int)
      BY DEF FiltersInv, Filtering
    <2> QED
      BY <2>1, FiltersBeforeZero
  <1>2. BoundsInv /\ FiltersInv => BoundsKept
    BY <1>1 DEF BoundsInv, BoundsKept
  <1> QED
    BY <1>2, BoundsCorrect, FiltersCorrect, PTL

-----------------------------------------------------------------------------
(* The reports *)

\* Every call that runs has each call that runs among those that ran during it.
RunTogether == \A c, d \in Clients : at[c].pc # "idle" /\ at[d].pc # "idle" => Id(d) \in during[c]

\* The counter in the name of the filter reports belongs to one call at a time.
CountsAlone ==
    \A c, d \in Clients : at[c].name = "printFilterCount" /\ at[d].name = "printFilterCount" => c = d

\* A file with a descriptor exists, and what was written is still there or was
\* written over by a call that ran at the same time.
FilesOf(c) ==
    /\ at[c].name \in Reports /\ at[c].pc \in {"write", "overrun"} /\ at[c].fd => File(c) \in DOMAIN heads
    /\ \A f \in at[c].wrote : f \in DOMAIN heads /\ heads[f] \in during[c]

ReportsInv == RunTogether /\ CountsAlone /\ \A c \in Clients : FilesOf(c)

Active(c) == at[c].pc # "idle"

LEMMA BeginRuns ==
    ASSUME TypeInv, NEW c \in Clients, NEW new, Begin(c, new)
    PROVE  /\ ~Active(c) /\ UNCHANGED <<heads, callCount>>
           /\ made' = [made EXCEPT ![c] = @ + 1]
           /\ during'[c] = {Id(e) : e \in {e \in Clients : Active(e)}} \cup {<<c, made[c] + 1>>}
           /\ \A d \in Clients \ {c} :
                 during'[d] = IF Active(d) THEN during[d] \cup {<<c, made[c] + 1>>} ELSE during[d]
  <1>1. ~Active(c) /\ UNCHANGED <<heads, callCount>> /\ made' = [made EXCEPT ![c] = @ + 1]
    BY DEF Begin, Active, reportVars
  <1>2. during' = [d \in Clients |->
                     IF d = c THEN {Id(e) : e \in {e \in Clients : at[e].pc # "idle"}}
                                   \cup {<<c, made[c] + 1>>}
                     ELSE IF at[d].pc # "idle" THEN during[d] \cup {<<c, made[c] + 1>>}
                     ELSE during[d]]
    BY Zenon DEF Begin
  <1> QED
    BY <1>1, <1>2 DEF Active

\* The calls that run are those that ran, one that begins or without one that
\* returns, and what ran during a call stays so.
LEMMA ClientRuns ==
    ASSUME TypeInv, NEW c \in Clients, ClientStep(c)
    PROVE  \/ /\ Active(c) /\ UNCHANGED <<made, during>>
           \/ /\ Active(c) /\ ~Active(c)' /\ made' = made /\ UNCHANGED <<heads, callCount>>
              /\ \A d \in Clients \ {c} : during'[d] = during[d]
           \/ \E new \in Calls : Begin(c, new) /\ Fresh(new) /\ at'[c].name = new.name
                                 /\ at'[c].wrote = {} /\ ~at'[c].fd /\ Active(c)'
  <1>1. CASE Read(c) \/ Insert(c) \/ Scan(c) \/ doSomeThing(c)
    <2>1. PICK new \in Calls : Begin(c, new) /\ Fresh(new)
      BY <1>1, Starts
    <2>2. PICK known \in {acked, {}} : at' = [at EXCEPT ![c] = [new EXCEPT !.known = known]]
      BY <2>1, BeginEffect
    <2>3. at'[c] = [new EXCEPT !.known = known]
      BY <2>2 DEF TypeInv, CallTypes
    <2>4. at'[c].pc = new.pc /\ at'[c].name = new.name /\ at'[c].wrote = new.wrote /\ at'[c].fd = new.fd
      BY <2>3 DEF Calls
    <2> QED
      BY <2>1, <2>4 DEF Fresh, Active
  <1>2. CASE Get(c) \/ Put(c) \/ PutsDone(c) \/ Next(c) \/ AfterOverrun(c)
    BY <1>2 DEF Get, Put, PutsDone, Next, AfterOverrun, clientVars, Active
  <1>3. CASE CountLevel(c) \/ OpenFile(c) \/ WriteFile(c) \/ FilesDone(c)
    BY <1>3 DEF CountLevel, OpenFile, WriteFile, FilesDone, clientVars, Active
  <1>4. CASE Return(c)
    <2>1. at'[c] = Idle
      BY <1>4, ReportSteps, Zenon
    <2>2. during' = [during EXCEPT ![c] = {}] /\ UNCHANGED <<made, heads, callCount>> /\ Active(c)
      BY <1>4 DEF Return, reportVars, Active
    <2>3. ~Active(c)'
      BY <2>1 DEF Active, Idle
    <2>4. \A d \in Clients \ {c} : during'[d] = during[d]
      BY <2>2 DEF TypeInv, ProcessTypes
    <2> QED
      BY <2>2, <2>3, <2>4
  <1> QED
    BY <1>1, <1>2, <1>3, <1>4 DEF ClientStep

LEMMA ClientRunTogether ==
    ASSUME TypeInv, RunTogether, NEW c \in Clients, ClientStep(c) PROVE RunTogether'
  <1>0. /\ \A d \in Clients \ {c} : at'[d] = at[d]
        /\ \A d \in Clients \ {c} : Active(d)' = Active(d)
    BY ClientFrame DEF Active
  <1>1. CASE Active(c) /\ UNCHANGED <<made, during>>
    <2>1. \A d \in Clients : Id(d)' = Id(d) /\ (Active(d)' => Active(d))
      BY <1>0, <1>1 DEF Id
    <2> QED
      BY <1>1, <2>1 DEF RunTogether, Active
  <1>2. CASE /\ ~Active(c)' /\ made' = made
             /\ \A d \in Clients \ {c} : during'[d] = during[d]
    <2>1. \A d \in Clients : Id(d)' = Id(d)
      BY <1>2 DEF Id
    <2>2. \A d \in Clients : Active(d)' => Active(d) /\ during'[d] = during[d]
      BY <1>0, <1>2
    <2> QED
      BY <2>1, <2>2 DEF RunTogether, Active
  <1>3. ASSUME NEW new \in Calls, Begin(c, new) PROVE RunTogether'
    <2>1. /\ ~Active(c) /\ made' = [made EXCEPT ![c] = @ + 1]
          /\ during'[c] = {Id(e) : e \in {e \in Clients : Active(e)}} \cup {<<c, made[c] + 1>>}
          /\ \A d \in Clients \ {c} :
                during'[d] = IF Active(d) THEN during[d] \cup {<<c, made[c] + 1>>} ELSE during[d]
      BY <1>3, BeginRuns
    <2>2. Id(c)' = <<c, made[c] + 1>> /\ \A d \in Clients \ {c} : Id(d)' = Id(d)
      BY <2>1 DEF Id, TypeInv, ProcessTypes
    <2>3. \A d \in Clients : Active(d)' => Id(d)' \in during'[c]
      BY <1>0, <2>1, <2>2
    <2>4. \A d \in Clients \ {c} : Active(d) => \A e \in Clients : Active(e)' => Id(e)' \in during'[d]
      BY <1>0, <2>1, <2>2 DEF RunTogether, Active
    <2> QED
      BY <1>0, <2>3, <2>4 DEF RunTogether, Active
  <1> QED
    BY <1>1, <1>2, <1>3, ClientRuns

\* The steps of a call leave its name.
LEMMA ClientName ==
    ASSUME TypeInv, NEW c \in Clients, ClientStep(c), Active(c)
    PROVE  at'[c].name \in {at[c].name, "none"}
  <1>1. CASE Read(c) \/ Insert(c) \/ Scan(c) \/ doSomeThing(c)
    BY <1>1, Starts DEF Begin, Active
  <1>2. CASE Get(c) \/ PutsDone(c)
    BY <1>2, RecordSteps, Zenon DEF Moves, SameCall
  <1>3. CASE Put(c)
    BY <1>3, RecordSteps, Zenon DEF SameCall
  <1>4. CASE Next(c)
    BY <1>4, RecordSteps, Zenon DEF SameCall
  <1>5. CASE AfterOverrun(c)
    BY <1>5, ReportSteps, Zenon DEF Moves, SameCall
  <1>6. CASE CountLevel(c)
    BY <1>6, ReportSteps, Zenon DEF SameCall
  <1>7. CASE OpenFile(c)
    BY <1>7, ReportSteps, Zenon DEF SameCall
  <1>8. CASE WriteFile(c)
    BY <1>8, ReportSteps, Zenon DEF SameCall
  <1>9. CASE FilesDone(c)
    BY <1>9, ReportSteps, Zenon DEF Moves, SameCall
  <1>10. CASE Return(c)
    <2>1. at'[c] = Idle
      BY <1>10, ReportSteps, Zenon
    <2> QED
      BY <2>1 DEF Idle
  <1> QED
    BY <1>1, <1>2, <1>3, <1>4, <1>5, <1>6, <1>7, <1>8, <1>9, <1>10 DEF ClientStep

LEMMA ClientCountsAlone ==
    ASSUME TypeInv, CountsAlone, NEW c \in Clients, ClientStep(c) PROVE CountsAlone'
  <1>1. \A d \in Clients \ {c} : at'[d] = at[d]
    BY ClientFrame
  <1>2. CASE Active(c)
    BY <1>1, <1>2, ClientName DEF CountsAlone
  <1>3. ASSUME NEW new \in Calls, Fresh(new), at'[c].name = new.name PROVE CountsAlone'
    <2>1. at'[c].name = "printFilterCount" => \A d \in Clients : at[d].name # "printFilterCount"
      BY <1>3 DEF Fresh
    <2> QED
      BY <1>1, <2>1 DEF CountsAlone
  <1> QED
    BY <1>2, <1>3, ClientRuns

\* A step leaves the text of a report file or puts the call's own there.
LEMMA ClientHeads ==
    ASSUME TypeInv, NEW c \in Clients, ClientStep(c)
    PROVE  /\ DOMAIN heads \subseteq DOMAIN heads'
           /\ \A f \in DOMAIN heads : heads'[f] = heads[f] \/ (Active(c) /\ heads'[f] = Id(c))
           /\ callCount' = callCount \/ at[c].name = "printFilterCount"
  <1>1. CASE Read(c) \/ Insert(c) \/ Scan(c) \/ doSomeThing(c)
    <2>1. UNCHANGED <<heads, callCount>>
      BY <1>1, Starts, BeginRuns
    <2> QED
      BY <2>1
  <1>2. CASE Get(c) \/ Put(c) \/ PutsDone(c) \/ Next(c) \/ AfterOverrun(c) \/ CountLevel(c) \/ Return(c)
    <2>1. UNCHANGED <<heads, callCount>>
      BY <1>2 DEF Get, Put, PutsDone, Next, AfterOverrun, CountLevel, Return, reportVars
    <2> QED
      BY <2>1
  <1>3. CASE OpenFile(c)
    <2> DEFINE file == File(c)
    <2>1. callCount' = callCount /\ (heads' = heads \/ heads' = [g \in DOMAIN heads \cup {file} |->
                                                   IF g = file THEN <<"empty", 0>> ELSE heads[g]])
          /\ (file \in DOMAIN heads => heads' = heads)
      BY <1>3 DEF OpenFile
    <2> HIDE DEF file
    <2> QED
      BY <2>1
  <1>4. CASE WriteFile(c)
    <2> DEFINE file == File(c)
    <2>1. callCount' = callCount /\ Active(c) /\ (heads' = heads \/ heads' = [heads EXCEPT ![file] = Id(c)])
      BY <1>4 DEF WriteFile, Written, Active
    <2> HIDE DEF file
    <2> QED
      BY <2>1
  <1>5. CASE FilesDone(c)
    BY <1>5 DEF FilesDone
  <1> QED
    BY <1>1, <1>2, <1>3, <1>4, <1>5 DEF ClientStep

\* What the others have written stays, or is written over by a call that runs.
LEMMA OthersFiles ==
    ASSUME TypeInv, ReportsInv, NEW c \in Clients, ClientStep(c), NEW d \in Clients \ {c}
    PROVE  FilesOf(d)'
  <1>1. at'[d] = at[d] /\ FilesOf(d) /\ CallAt(d)
    BY ClientFrame DEF ReportsInv, TypeInv
  <1>2. at[d].name \in Reports => File(d)' = File(d)
    <2>1. at[d].name = "printFilterCount" => callCount' = callCount
      BY ClientHeads DEF ReportsInv, CountsAlone
    <2> QED
      BY <1>1, <2>1 DEF File, Reports
  <1>3. ASSUME NEW f \in at[d].wrote PROVE f \in DOMAIN heads' /\ heads'[f] \in during'[d]
    <2>1. Active(d)
      BY <1>1, <1>3 DEF CallAt, Active, Idle
    <2>2. during[d] \subseteq during'[d]
      <3>1. ASSUME NEW new, Begin(c, new) PROVE during[d] \subseteq during'[d]
        BY <3>1, BeginRuns
      <3> QED
        BY <3>1, ClientRuns
    <2>3. f \in DOMAIN heads /\ heads[f] \in during[d]
      BY <1>1, <1>3 DEF FilesOf
    <2>4. Active(c) => Id(c) \in during[d]
      BY <2>1 DEF ReportsInv, RunTogether, Active
    <2> QED
      BY <2>2, <2>3, <2>4, ClientHeads
  <1> QED
    BY <1>1, <1>2, <1>3, ClientHeads DEF FilesOf

\* What a call has written itself stays while it takes its other steps.
LEMMA OwnFiles ==
    ASSUME TypeInv, ReportsInv, NEW c \in Clients, ClientStep(c), ~WriteFile(c), ~OpenFile(c)
    PROVE  FilesOf(c)'
  <1> DEFINE s == at[c]
             t == at'[c]
  <1>0. FilesOf(c) /\ CallAt(c)
    BY DEF ReportsInv, TypeInv
  <1>1. CASE Read(c) \/ Insert(c) \/ Scan(c) \/ doSomeThing(c) \/ Return(c)
    <2>1. t.wrote = {} /\ ~t.fd
      <3>1. CASE Return(c)
        <4>1. t = Idle
          BY <3>1, ReportSteps, Zenon
        <4> QED
          BY <4>1 DEF Idle
      <3>2. CASE Read(c) \/ Insert(c) \/ Scan(c) \/ doSomeThing(c)
        <4>1. ~Active(c)
          BY <3>2, Starts DEF Begin, Active
        <4> QED
          BY <4>1, ClientRuns
      <3> QED
        BY <1>1, <3>1, <3>2
    <2> QED
      BY <2>1 DEF FilesOf
  <1>2. CASE Get(c) \/ Put(c) \/ PutsDone(c) \/ Next(c) \/ AfterOverrun(c) \/ CountLevel(c) \/ FilesDone(c)
    <2>1. UNCHANGED <<heads, during>>
      BY <1>2 DEF Get, Put, PutsDone, Next, AfterOverrun, CountLevel, FilesDone, clientVars, reportVars
    <2>2. /\ at' = at \/ (SameCall(s, t) /\ SameFiles(s, t))
          /\ at' # at /\ t.name \in Reports /\ t.pc \in {"write", "overrun"} => AfterOverrun(c)
      <3>1. CASE Get(c) \/ PutsDone(c)
        BY <3>1, RecordSteps, Zenon DEF Moves
      <3>2. CASE Put(c)
        BY <3>2, RecordSteps, Zenon
      <3>3. CASE Next(c)
        <4>1. SameCall(s, t) /\ SameFiles(s, t)
          BY <3>3, RecordSteps, Zenon
        <4> QED
          BY <1>0, <3>3, <4>1 DEF CallAt, Next, SameCall, Reports
      <3>4. CASE AfterOverrun(c)
        BY <3>4, ReportSteps, Zenon DEF Moves
      <3>5. CASE CountLevel(c)
        BY <3>5, ReportSteps, Zenon
      <3>6. CASE FilesDone(c)
        BY <3>6, ReportSteps, Zenon DEF Moves
      <3> QED
        BY <1>2, <3>1, <3>2, <3>3, <3>4, <3>5, <3>6
    <2>3. t.wrote = s.wrote
      BY <2>2 DEF SameFiles
    <2>4. CASE at' = at
      <3>1. s.name \in Reports /\ s.pc \in {"write", "overrun"} => callCount' = callCount
        BY <1>2 DEF Get, Put, PutsDone, Next, AfterOverrun, CountLevel, FilesDone, reportVars
      <3>2. s.name \in Reports /\ s.pc \in {"write", "overrun"} => File(c)' = File(c)
        BY <2>4, <3>1 DEF File, Reports
      <3> QED
        BY <1>0, <2>1, <2>4, <3>2 DEF FilesOf
    <2>5. CASE at' # at /\ AfterOverrun(c)
      <3>1. callCount' = callCount /\ s.pc = "overrun" /\ SameCall(s, t) /\ SameFiles(s, t)
        BY <2>2, <2>5 DEF AfterOverrun, reportVars
      <3>2. s.name \in Reports => File(c)' = File(c)
        BY <3>1 DEF File, Reports, SameCall, SameFiles
      <3> QED
        BY <1>0, <2>1, <3>1, <3>2 DEF FilesOf, SameCall, SameFiles
    <2>6. CASE at' # at /\ ~AfterOverrun(c)
      BY <1>0, <2>1, <2>2, <2>3, <2>6 DEF FilesOf
    <2> QED
      BY <2>4, <2>5, <2>6
  <1> QED
    BY <1>1, <1>2 DEF ClientStep

\* A call that writes a file puts its own text there.
LEMMA FilesWritten ==
    ASSUME TypeInv, ReportsInv, NEW c \in Clients, WriteFile(c) \/ OpenFile(c)
    PROVE  FilesOf(c)'
  <1> DEFINE s == at[c]
             t == at'[c]
             file == File(c)
  <1>0. /\ FilesOf(c) /\ CallAt(c) /\ during' = during
        /\ s.name \in Reports /\ Id(c) \in during[c]
    BY DEF ReportsInv, RunTogether, TypeInv, CallAt, OpenFile, WriteFile, clientVars
  <1>1. CASE OpenFile(c)
    <2>1. SameCall(s, t) /\ t.index = s.index /\ t.extra = s.extra /\ t.wrote = s.wrote
      BY <1>1, ReportSteps, Zenon
    <2>2. file \in DOMAIN heads' /\ callCount' = callCount
      BY <1>1 DEF OpenFile
    <2>3. File(c)' = file
      BY <1>0, <2>1, <2>2 DEF File, Reports, SameCall
    <2>4. \A f \in t.wrote : f \in DOMAIN heads' /\ heads'[f] \in during'[c]
      <3>1. \A f \in s.wrote : f \in DOMAIN heads /\ heads[f] \in during[c]
        BY <1>0 DEF FilesOf
      <3>2. ClientStep(c)
        BY <1>1 DEF ClientStep
      <3> QED
        BY <1>0, <2>1, <3>1, <3>2, ClientHeads
    <2> QED
      BY <2>2, <2>3, <2>4 DEF FilesOf
  <1>2. CASE WriteFile(c)
    <2>1. t.pc = "file" /\ t.wrote = IF s.fd THEN s.wrote \cup {file} ELSE s.wrote
      BY <1>2, ReportSteps, Zenon
    <2>2. s.pc = "write" /\ heads' = IF s.fd THEN [heads EXCEPT ![file] = Id(c)] ELSE heads
      BY <1>2 DEF WriteFile, Written
    <2>3. s.fd => file \in DOMAIN heads
      BY <1>0, <2>2 DEF FilesOf
    <2>4. \A f \in s.wrote : f \in DOMAIN heads /\ heads[f] \in during[c]
      BY <1>0 DEF FilesOf
    <2> HIDE DEF file
    <2>5. \A f \in t.wrote : f \in DOMAIN heads' /\ heads'[f] \in during[c]
      BY <1>0, <2>1, <2>2, <2>3, <2>4
    <2> QED
      BY <1>0, <2>1, <2>5 DEF FilesOf
  <1> QED
    BY <1>1, <1>2

\* When a report call returns, each file it has written begins with its text or with
\* that of a call that ran at the same time: two calls that run at the same time are
\* each among those that ran during the other, and a file once opened stays.
THEOREM ReportsAreCurrent == ProcessSpec => []ReportsCurrent
  <1>1. ProcessInit => ReportsInv
    BY DEF ProcessInit, AdapterInit, ReportsInv, RunTogether, CountsAlone, FilesOf, Idle
  <1>2. TypeInv /\ ReportsInv /\ [ProcessNext]_processVars => ReportsInv'
    <2> SUFFICES ASSUME TypeInv, ReportsInv, [ProcessNext]_processVars PROVE ReportsInv'
      OBVIOUS
    <2>1. CASE UNCHANGED adapterVars \/ Compact \/ Constructor \/ \E path : Construct(dbname[1], ConfigAt(path))
      <3>1. UNCHANGED <<at, made, during, heads, callCount>>
        BY <2>1, ConstructorFrame DEF adapterVars, Compact, reportVars, clientVars
      <3> QED
        BY <3>1 DEF ReportsInv, RunTogether, CountsAlone, FilesOf, File, Id
    <2>2. ASSUME NEW c \in Clients, ClientStep(c) PROVE ReportsInv'
      BY <2>2, ClientRunTogether, ClientCountsAlone, OthersFiles, OwnFiles, FilesWritten DEF ReportsInv
    <2> QED
      BY <2>1, <2>2, AdapterSteps
  <1>3. TypeInv /\ ReportsInv => ReportsCurrent
    BY DEF ReportsInv, FilesOf, ReportsCurrent
  <1> QED
    BY <1>1, <1>2, <1>3, TypeCorrect, PTL DEF ProcessSpec

-----------------------------------------------------------------------------
(***************************************************************************)
(* The options: for any command lines and property files, what is given    *)
(* last wins.                                                              *)
(***************************************************************************)

\* The words of arguments and properties.
Words == STRING \cup {OptionKeys[arg] : arg \in DOMAIN OptionKeys}
                \cup {"dbname", "port", "slaves", "host", "dbfilename", "configpath"}
Texts == Seq(Words)
PropertyMaps == UNION {[keys -> Texts] : keys \in SUBSET Texts}

\* -P is none of the options with a property of their own.
LEMMA OptionNames == "-P" \notin DOMAIN OptionKeys
  BY DEF OptionKeys

\* One word is a text.
LEMMA WordIsText == ASSUME NEW word \in Words PROVE <<word>> \in Texts
  BY DEF Texts

\* The texts of the command line and of the files are texts of words.
LEMMA StringsAreTexts == \A s \in Seq(STRING) : s \in Texts
  <1>1. STRING \subseteq Words
    BY DEF Words
  <1> QED
    BY <1>1, SeqGrows, Zenon DEF Texts

\* After SetProperty GetProperty gives the new value of its key, and the others as before.
LEMMA SetGets ==
    ASSUME NEW p, NEW key, NEW value, NEW k
    PROVE  GetProperty(SetProperty(p, key, value), k, <<>>) = IF k = key THEN value ELSE GetProperty(p, k, <<>>)
  BY DEF GetProperty, SetProperty

\* operator[] changes nothing that GetProperty gives.
LEMMA SubscriptGets ==
    ASSUME NEW p, NEW keys, NEW k
    PROVE  GetProperty(Subscript(p, keys), k, <<>>) = GetProperty(p, k, <<>>)
  BY DEF GetProperty, Subscript

\* Min and Max of places in a text.
LEMMA Bounds ==
    ASSUME NEW n \in Nat, NEW S \in SUBSET (1..n), S # {}
    PROVE  /\ Min(S) \in S /\ \A j \in S : Min(S) <= j
           /\ Max(S) \in S /\ \A j \in S : Max(S) >= j
  <1>1. S \in SUBSET Int
    OBVIOUS
  <1>2. IsFiniteSet(1..n) /\ IsFiniteSet(0..n)
    BY FS_Interval, 0 \in Int, 1 \in Int, n \in Int
  <1>3. IsFiniteSet(S)
    BY <1>2, FS_Subset, Zenon
  <1>4. \E x \in S : \A y \in S : x <= y
    BY <1>1, <1>3, LeastElement
  <1> DEFINE T == {i \in 0..n : n - i \in S}
  <1>5. T \in SUBSET Int /\ T \in SUBSET (0..n)
    OBVIOUS
  <1>6. IsFiniteSet(T)
    BY <1>2, <1>5, FS_Subset, Zenon
  <1>7. \A x \in S : n - x \in T /\ n - (n - x) = x
    OBVIOUS
  <1>8. PICK t \in T : \A u \in T : t <= u
    <2>1. T # {}
      BY <1>7
    <2> HIDE DEF T
    <2> QED
      BY <2>1, <1>5, <1>6, LeastElement
  <1>9. n - t \in S /\ \A y \in S : n - t >= y
    <2>1. t \in 0..n /\ n - t \in S
      BY <1>8
    <2>2. \A y \in S : t <= n - y
      BY <1>7, <1>8
    <2> QED
      BY <1>1, <2>1, <2>2
  <1> QED
    BY <1>4, <1>9 DEF Min, Max

\* Trim takes away the blanks around a text.
LEMMA TrimStrips ==
    ASSUME NEW text \in Seq(Words)
    PROVE  Trim(text) = Stripped(text)
  <1>1. DOMAIN text = 1..Len(text) /\ Len(text) \in Nat
    OBVIOUS
  <1> DEFINE I == {j \in 1..Len(text) : ~(text[j] = " ")}
  <1>3. Trim(text) = LET front == IF I # {} THEN Min(I) ELSE 0
                     IN  IF front = 0 THEN <<>> ELSE SubSeq(text, front, IF I # {} THEN Max(I) ELSE 0)
    BY DEF Trim, SelectInSeq, SelectLastInSeq, IsBlank
  <1>4. Stripped(text) = IF I = {} THEN <<>> ELSE SubSeq(text, Min(I), Max(I))
    BY <1>1 DEF Stripped
  <1>5. I # {} => Min(I) # 0
    <2>1. I \in SUBSET (1..Len(text))
      OBVIOUS
    <2> HIDE DEF I
    <2>2. I # {} => Min(I) \in 1..Len(text)
      BY <1>1, <2>1, Bounds
    <2> QED
      BY <1>1, <2>2
  <1> HIDE DEF I
  <1>6. CASE I = {}
    BY <1>3, <1>4, <1>6
  <1>7. CASE I # {}
    BY <1>3, <1>4, <1>5, <1>7
  <1> QED
    BY <1>6, <1>7

\* A map of properties stays one.
LEMMA PropertyMapsKept ==
    ASSUME NEW p \in PropertyMaps
    PROVE  /\ \A key, value \in Texts : SetProperty(p, key, value) \in PropertyMaps
           /\ \A keys \in SUBSET Texts : Subscript(p, keys) \in PropertyMaps
  <1>1. PICK have \in SUBSET Texts : p \in [have -> Texts]
    BY DEF PropertyMaps
  <1>2. <<>> \in Texts
    BY DEF Texts
  <1>3. ASSUME NEW key \in Texts, NEW value \in Texts PROVE SetProperty(p, key, value) \in PropertyMaps
    <2>1. SetProperty(p, key, value) \in [have \cup {key} -> Texts] /\ have \cup {key} \in SUBSET Texts
      BY <1>1 DEF SetProperty
    <2> QED
      BY <2>1, Zenon DEF PropertyMaps
  <1>4. ASSUME NEW keys \in SUBSET Texts PROVE Subscript(p, keys) \in PropertyMaps
    <2>1. Subscript(p, keys) \in [have \cup keys -> Texts] /\ have \cup keys \in SUBSET Texts
      BY <1>1, <1>2 DEF Subscript, GetProperty
    <2> QED
      BY <2>1, Zenon DEF PropertyMaps
  <1> QED
    BY <1>3, <1>4, Zenon

\* What is left is a text.
LEMMA StrippedIsText ==
    ASSUME NEW text \in Texts PROVE Stripped(text) \in Texts
  <1> DEFINE I == {j \in DOMAIN text : text[j] # " "}
  <1>1. DOMAIN text = 1..Len(text) /\ Len(text) \in Nat /\ text \in Seq(Words)
    BY DEF Texts
  <1>4. I \in SUBSET (1..Len(text))
    BY <1>1
  <1>2. Stripped(text) = IF I = {} THEN <<>> ELSE SubSeq(text, Min(I), Max(I))
    BY DEF Stripped
  <1> HIDE DEF I
  <1>3. I # {} => Min(I) \in 1..Len(text) /\ Max(I) \in 1..Len(text)
    BY <1>1, <1>4, Bounds
  <1>5. \A i, j \in 1..Len(text) : SubSeq(text, i, j) \in Seq(Words)
    BY <1>1
  <1>6. <<>> \in Seq(Words)
    OBVIOUS
  <1> QED
    BY <1>2, <1>3, <1>5, <1>6, Zenon DEF Texts

\* The lines that Load uses, and what it does with one.
LEMMA LineGives ==
    ASSUME NEW line \in Texts
    PROVE  /\ Used(line) <=> Gives(line)
           /\ Gives(line) =>
                /\ \A p : LoadLine(p, line) = SetProperty(p, KeyAndValue(line)[1], KeyAndValue(line)[2])
                /\ KeyAndValue(line)[1] \in Texts /\ KeyAndValue(line)[2] \in Texts
  <1>1. DOMAIN line = 1..Len(line) /\ Len(line) \in Nat /\ line \in Seq(Words)
    BY DEF Texts
  <1>2. Used(line) <=> Gives(line)
    <2>1. line # <<>> => Head(line) = line[1]
      BY <1>1
    <2>2. (\E j \in DOMAIN line : line[j] = "=") => line # <<>>
      BY <1>1
    <2> QED
      BY <1>1, <2>1, <2>2 DEF Used, Gives, Contains
  <1> DEFINE I == {j \in 1..Len(line) : line[j] = "="}
             IsFirst(j) == line[j] = "=" /\ \A m \in 1..(j - 1) : line[m] # "="
             eq == CHOOSE j \in DOMAIN line : IsFirst(j)
  <1>3. ASSUME Gives(line)
        PROVE  /\ \A p : LoadLine(p, line) = SetProperty(p, KeyAndValue(line)[1], KeyAndValue(line)[2])
               /\ KeyAndValue(line)[1] \in Texts /\ KeyAndValue(line)[2] \in Texts
    <2>1. I # {} /\ I \in SUBSET (1..Len(line))
      BY <1>1, <1>3 DEF Gives
    <2>2. Min(I) \in I /\ \A j \in I : Min(I) <= j
      <3> HIDE DEF I
      <3> QED
        BY <1>1, <2>1, Bounds
    <2>3. IsFirst(Min(I)) /\ Min(I) \in DOMAIN line
      <3>1. Min(I) \in 1..Len(line) /\ line[Min(I)] = "="
        BY <2>2
      <3>2. \A m \in 1..Len(line) : m < Min(I) => line[m] # "="
        <4>1. \A m \in 1..Len(line) : line[m] = "=" => Min(I) <= m
          BY <2>2
        <4> HIDE DEF I
        <4> QED
          BY <1>1, <3>1, <4>1
      <3> HIDE DEF I
      <3> QED
        BY <1>1, <3>1, <3>2
    <2>4. IsFirst(eq) /\ eq \in DOMAIN line
      <3> HIDE DEF IsFirst
      <3> QED
        BY <2>3, Zenon
    <2>5. \A i, j \in 1..Len(line) : IsFirst(i) /\ IsFirst(j) => i = j
      BY <1>1
    <2>6. eq = Min(I)
      <3> HIDE DEF IsFirst, eq, I
      <3> QED
        BY <1>1, <2>3, <2>4, <2>5
    <2>7. SelectInSeq(line, LAMBDA w : w = "=") = Min(I)
      BY <2>1 DEF SelectInSeq
    <2>8. KeyAndValue(line) = <<Stripped(SubSeq(line, 1, eq - 1)), Stripped(SubSeq(line, eq + 1, Len(line)))>>
      BY Zenon DEF KeyAndValue
    <2> DEFINE front == SubSeq(line, 1, eq - 1)
               back == SubSeq(line, eq + 1, Len(line))
    <2>9. front \in Seq(Words) /\ back \in Seq(Words)
      <3>1. eq \in 1..Len(line) /\ eq - 1 <= Len(line)
        BY <1>1, <2>4
      <3> HIDE DEF eq
      <3> QED
        BY <1>1, <3>1
    <2>10. \A p : LoadLine(p, line) = SetProperty(p, Trim(front), Trim(back))
      BY <2>6, <2>7, Zenon DEF LoadLine
    <2>11. Trim(front) = Stripped(front) /\ Trim(back) = Stripped(back)
           /\ Stripped(front) \in Texts /\ Stripped(back) \in Texts
      <3> HIDE DEF front, back
      <3> QED
        BY <2>9, TrimStrips, StrippedIsText, Zenon DEF Texts
    <2>12. KeyAndValue(line)[1] = Stripped(front) /\ KeyAndValue(line)[2] = Stripped(back)
      <3> HIDE DEF eq
      <3> QED
        BY <2>8
    <2> QED
      BY <2>10, <2>11, <2>12, Zenon
  <1> QED
    BY <1>2, <1>3

\* The properties are those of p, but for what the first n of the lines give, of
\* which the last counts.
Key(line) == KeyAndValue(line)[1]
Value(line) == KeyAndValue(line)[2]
LoadedFrom(p, lines, n) ==
    {q \in PropertyMaps :
        /\ \A k : (\A m \in 1..n : Gives(lines[m]) => Key(lines[m]) # k)
                  => GetProperty(q, k, <<>>) = GetProperty(p, k, <<>>)
        /\ \A i \in 1..n :
              Gives(lines[i]) /\ (\A m \in 1..n : m > i /\ Gives(lines[m]) => Key(lines[m]) # Key(lines[i]))
              => GetProperty(q, Key(lines[i]), <<>>) = Value(lines[i])}

\* Load does this with all lines of a file.
LEMMA LoadLoads ==
    ASSUME NEW p \in PropertyMaps, NEW lines \in Seq(Texts)
    PROVE  Load(p, lines) \in LoadedFrom(p, lines, Len(lines))
  <1> DEFINE n == Len(lines)
             After(q, i) == IF Used(lines[i]) THEN LoadLine(q, lines[i]) ELSE q
             step == [a \in (1..n) \X PropertyMaps |-> After(a[2], a[1])]
             eqn(h) == [i \in 0..n |-> IF i = 0 THEN p
                                      ELSE IF Used(lines[i]) THEN LoadLine(h[i - 1], lines[i]) ELSE h[i - 1]]
             loaded == CHOOSE h : h = eqn(h)
  <1>1. n \in Nat /\ \A i \in 1..n : lines[i] \in Texts
    OBVIOUS
  <1>2. ASSUME NEW i \in 1..n, NEW q \in PropertyMaps
        PROVE  /\ After(q, i) \in PropertyMaps
               /\ \A k : GetProperty(After(q, i), k, <<>>) =
                            IF Gives(lines[i]) /\ Key(lines[i]) = k THEN Value(lines[i])
                            ELSE GetProperty(q, k, <<>>)
    <2> DEFINE line == lines[i]
    <2>1. line \in Texts
      BY <1>1
    <2> HIDE DEF line
    <2>2. /\ Used(line) <=> Gives(line)
          /\ Gives(line) => /\ LoadLine(q, line) = SetProperty(q, Key(line), Value(line))
                            /\ Key(line) \in Texts /\ Value(line) \in Texts
      BY <2>1, LineGives DEF Key, Value
    <2>3. Gives(line) => SetProperty(q, Key(line), Value(line)) \in PropertyMaps
      BY <2>2, PropertyMapsKept
    <2>4. \A k : GetProperty(SetProperty(q, Key(line), Value(line)), k, <<>>)
                   = IF k = Key(line) THEN Value(line) ELSE GetProperty(q, k, <<>>)
      BY SetGets
    <2>5. After(q, i) = IF Used(line) THEN LoadLine(q, line) ELSE q
      BY Zenon DEF line
    <2> HIDE DEF After
    <2>6. CASE Gives(line)
      BY <2>2, <2>3, <2>4, <2>5, <2>6, Zenon DEF line
    <2>7. CASE ~Gives(line)
      BY <2>2, <2>5, <2>7, Zenon DEF line
    <2> QED
      BY <2>6, <2>7
  <1>3. step \in [(1..n) \X PropertyMaps -> PropertyMaps]
    <2>1. \A a \in (1..n) \X PropertyMaps : After(a[2], a[1]) \in PropertyMaps
      BY <1>2
    <2> HIDE DEF After
    <2> QED
      BY <2>1
  <1>4. PICK g \in [0..n -> PropertyMaps] : Recursion(g, n, p, step)
    <2> HIDE DEF step, n
    <2> QED
      BY <1>1, <1>3, RecursionWitness
  <1>5. \A i \in 1..n : g[i] = After(g[i - 1], i)
    <2> SUFFICES ASSUME NEW i \in 1..n PROVE g[i] = After(g[i - 1], i)
      OBVIOUS
    <2>1. i - 1 \in 0..n
      BY <1>1
    <2>2. g[i - 1] \in PropertyMaps
      BY <2>1
    <2> HIDE DEF step, After
    <2>3. g[i] = step[<<i, g[i - 1]>>] /\ <<i, g[i - 1]>> \in (1..n) \X PropertyMaps
      BY <1>4, <2>2 DEF Recursion
    <2> QED
      BY <2>2, <2>3 DEF step
  <1> HIDE DEF step
  <1>6. loaded = eqn(loaded)
    <2>1. \A i \in 0..n : g[i] = IF i = 0 THEN p
                                 ELSE IF Used(lines[i]) THEN LoadLine(g[i - 1], lines[i]) ELSE g[i - 1]
      BY <1>1, <1>4, <1>5 DEF Recursion
    <2>2. g = [i \in 0..n |-> g[i]]
      OBVIOUS
    <2>3. g = eqn(g)
      BY <2>1, <2>2
    <2> QED
      BY <2>3, Zenon
  <1>7. Load(p, lines) = loaded[n]
    BY Zenon DEF Load
  <1> HIDE DEF loaded
  <1>8. loaded[0] = p /\ \A i \in 1..n : loaded[i] = After(loaded[i - 1], i)
    <2>1. 0 \in 0..n /\ \A i \in 1..n : i \in 0..n /\ i # 0
      BY <1>1
    <2>2. \A i \in 0..n : loaded[i] = IF i = 0 THEN p
                ELSE IF Used(lines[i]) THEN LoadLine(loaded[i - 1], lines[i]) ELSE loaded[i - 1]
      BY <1>6
    <2> HIDE DEF n
    <2> QED
      BY <2>1, <2>2, Zenon
  <1> HIDE DEF n, After
  <1> DEFINE P == [i \in 0..n |-> LoadedFrom(p, lines, i)]
  <1>9. p \in LoadedFrom(p, lines, 0)
    BY DEF LoadedFrom
  <1>10. ASSUME NEW i \in 1..n, NEW q \in LoadedFrom(p, lines, i - 1)
         PROVE  After(q, i) \in LoadedFrom(p, lines, i)
    <2> DEFINE r == After(q, i)
    <2>1. i - 1 \in Nat /\ 1..i = 1..(i - 1) \cup {i} /\ \A m \in 1..(i - 1) : m < i
      BY <1>1
    <2>2. /\ q \in PropertyMaps
          /\ \A k : (\A m \in 1..(i - 1) : Gives(lines[m]) => Key(lines[m]) # k)
                    => GetProperty(q, k, <<>>) = GetProperty(p, k, <<>>)
          /\ \A j \in 1..(i - 1) :
                Gives(lines[j]) /\ (\A m \in 1..(i - 1) : m > j /\ Gives(lines[m])
                                                         => Key(lines[m]) # Key(lines[j]))
                => GetProperty(q, Key(lines[j]), <<>>) = Value(lines[j])
      BY <1>10, Zenon DEF LoadedFrom
    <2>3. /\ r \in PropertyMaps
          /\ \A k : GetProperty(r, k, <<>>) = IF Gives(lines[i]) /\ Key(lines[i]) = k THEN Value(lines[i])
                                              ELSE GetProperty(q, k, <<>>)
      BY <1>2, <2>2, Zenon
    <2> HIDE DEF r
    <2>4. ASSUME NEW k, \A m \in 1..i : Gives(lines[m]) => Key(lines[m]) # k
          PROVE  GetProperty(r, k, <<>>) = GetProperty(p, k, <<>>)
      <3>1. i \in 1..i /\ \A m \in 1..(i - 1) : m \in 1..i
        BY <2>1
      <3> QED
        BY <2>2, <2>3, <2>4, <3>1, Zenon
    <2>5. ASSUME NEW j \in 1..i, Gives(lines[j]),
                 \A m \in 1..i : m > j /\ Gives(lines[m]) => Key(lines[m]) # Key(lines[j])
          PROVE  GetProperty(r, Key(lines[j]), <<>>) = Value(lines[j])
      <3>1. CASE j = i
        BY <2>3, <2>5, <3>1, Zenon
      <3>2. CASE j # i
        <4>1. j \in 1..(i - 1) /\ i > j /\ i \in 1..i /\ \A m \in 1..(i - 1) : m \in 1..i
          BY <2>1, <3>2
        <4>2. Gives(lines[i]) => Key(lines[i]) # Key(lines[j])
          BY <2>5, <4>1, Zenon
        <4>3. \A m \in 1..(i - 1) : m > j /\ Gives(lines[m]) => Key(lines[m]) # Key(lines[j])
          BY <2>5, <4>1, Zenon
        <4> QED
          BY <2>2, <2>3, <2>5, <4>1, <4>2, <4>3, Zenon
      <3> QED
        BY <3>1, <3>2
    <2> QED
      BY <2>3, <2>4, <2>5, Zenon DEF LoadedFrom, r
  <1>11. \A i \in 0..n : loaded[i] \in P[i]
    <2>1. loaded[0] \in P[0]
      BY <1>1, <1>8, <1>9
    <2>2. \A i \in 1..n : loaded[i - 1] \in P[i - 1] => loaded[i] \in P[i]
      <3> SUFFICES ASSUME NEW i \in 1..n, loaded[i - 1] \in P[i - 1] PROVE loaded[i] \in P[i]
        OBVIOUS
      <3>1. P[i - 1] = LoadedFrom(p, lines, i - 1) /\ P[i] = LoadedFrom(p, lines, i)
        BY <1>1
      <3> HIDE DEF P
      <3> QED
        BY <1>8, <1>10, <3>1
    <2>3. n \in Nat
      BY <1>1
    <2> HIDE DEF P
    <2> QED
      BY <2>1, <2>2, <2>3, RecursionInvariant
  <1> QED
    BY <1>1, <1>7, <1>11 DEF n

\* What has been read so far is an even number of arguments, and of what they give
\* the last counts.
OptionsInv ==
    /\ argv \in Seq(STRING) /\ props \in PropertyMaps
    /\ argindex \in 1..(Len(argv) + 1) /\ argindex % 2 = 1
    /\ LastWins(argindex)
    /\ startup \in {"parsed", "constructing", "created", "running"} => argindex = Len(argv) + 1

\* The properties q are those there were, but for what the option at argindex gives.
TakesOption(q) ==
    /\ \A k : (\A m \in DOMAIN Given(argindex) : Given(argindex)[m][1] # k)
              => GetProperty(q, k, <<>>) = GetProperty(props, k, <<>>)
    /\ \A n \in DOMAIN Given(argindex) :
          (\A m \in DOMAIN Given(argindex) : m > n => Given(argindex)[m][1] # Given(argindex)[n][1])
          => GetProperty(q, Given(argindex)[n][1], <<>>) = Given(argindex)[n][2]

\* Two arguments on, the last still counts.
LEMMA OptionTaken ==
    ASSUME OptionsInv, argindex + 1 <= Len(argv), argv' = argv, argindex' = argindex + 2,
           TakesOption(props')
    PROVE  argindex' \in 1..(Len(argv) + 1) /\ argindex' % 2 = 1 /\ LastWins(argindex)'
  <1> DEFINE e == argindex
  <1>1. e \in Nat /\ e % 2 = 1 /\ Len(argv) \in Nat /\ 1 <= e
    BY DEF OptionsInv
  <1>2. e + 2 \in 1..(Len(argv) + 1) /\ (e + 2) % 2 = 1
    BY <1>1
  <1>3. OptionsBefore(e + 2) = OptionsBefore(e) \cup {e} /\ \A j \in OptionsBefore(e) : j \in Nat /\ e > j /\ ~(j > e)
    <2>1. \A i \in Nat : i % 2 = 1 /\ i < e + 2 => i <= e
      BY <1>1
    <2>2. \A i \in OptionsBefore(e) : i \in OptionsBefore(e + 2) /\ i \in Nat /\ e > i
      BY <1>1 DEF OptionsBefore
    <2>3. e \in OptionsBefore(e + 2)
      BY <1>1 DEF OptionsBefore
    <2>4. \A i \in OptionsBefore(e + 2) : i # e => i \in OptionsBefore(e)
      BY <1>1, <2>1 DEF OptionsBefore
    <2> QED
      BY <1>1, <2>2, <2>3, <2>4
  <1>4. \A i : Given(i)' = Given(i)
    BY DEF Given
  <1> DEFINE Final(end, key, i, n) == \A j \in OptionsBefore(end) : \A m \in DOMAIN Given(j) :
                                       j > i \/ (j = i /\ m > n) => Given(j)[m][1] # key
  <1>5. ASSUME NEW i \in OptionsBefore(e + 2), NEW n \in DOMAIN Given(i), Final(e + 2, Given(i)[n][1], i, n)
        PROVE  GetProperty(props', Given(i)[n][1], <<>>) = Given(i)[n][2]
    <2> DEFINE key == Given(i)[n][1]
    <2>1. CASE i = e
      <3>1. \A m \in DOMAIN Given(e) : m > n => Given(e)[m][1] # key
        BY <1>3, <1>5, <2>1, Zenon
      <3> QED
        BY <2>1, <3>1, Zenon DEF TakesOption
    <2>2. CASE i \in OptionsBefore(e)
      <3>1. \A m \in DOMAIN Given(e) : Given(e)[m][1] # key
        BY <1>3, <1>5, <2>2, Zenon
      <3>2. GetProperty(props', key, <<>>) = GetProperty(props, key, <<>>)
        BY <3>1, Zenon DEF TakesOption
      <3>3. Final(e, key, i, n)
        BY <1>3, <1>5, Zenon
      <3>4. GetProperty(props, key, <<>>) = Given(i)[n][2]
        BY <2>2, <3>3, Zenon DEF OptionsInv, LastWins
      <3> QED
        BY <3>2, <3>4, Zenon
    <2> QED
      BY <1>3, <2>1, <2>2
  <1>6. \A i \in OptionsBefore(e + 2) : \A n \in DOMAIN Given(i) :
          Final(e + 2, Given(i)[n][1], i, n) => GetProperty(props', Given(i)[n][1], <<>>) = Given(i)[n][2]
    BY <1>5, Zenon
  <1>7. LastWins(argindex)'
    BY <1>4, <1>6, Zenon DEF LastWins, OptionsBefore
  <1> QED
    BY <1>2, <1>7

\* An option of the command line is taken.
LEMMA OptionStep ==
    ASSUME OptionsInv, Option, props' # props \/ argindex' # argindex
    PROVE  OptionsInv'
  <1>1. /\ Reading /\ HasValue /\ argv[argindex] \in DOMAIN OptionKeys /\ argv' = argv
        /\ props' = SetProperty(props, <<OptionKeys[argv[argindex]]>>, <<argv[argindex + 1]>>)
        /\ argindex' = argindex + 2 /\ startup' = startup
    BY DEF Option
  <1> DEFINE key == <<OptionKeys[argv[argindex]]>>
             value == <<argv[argindex + 1]>>
  <1>2. argindex \in Nat /\ 1 <= argindex /\ argv \in Seq(STRING) /\ argindex + 1 <= Len(argv)
    BY <1>1 DEF OptionsInv, HasValue
  <1>3. key \in Texts /\ value \in Texts
    <2>1. OptionKeys[argv[argindex]] \in Words
      BY <1>1 DEF Words
    <2>2. argv[argindex + 1] \in STRING
      BY <1>2
    <2>3. argv[argindex + 1] \in Words
      BY <2>2 DEF Words
    <2> QED
      BY <2>1, <2>3, WordIsText
  <1>4. Given(argindex) = [n \in {1} |-> <<key, value>>]
    <2>1. argv[argindex] # "-P"
      BY <1>1, OptionNames
    <2> QED
      BY <2>1, Zenon DEF Given
  <1> HIDE DEF key, value
  <1>5. TakesOption(props')
    <2>1. props' = SetProperty(props, key, value)
      BY <1>1, Zenon DEF key, value
    <2>2. \A k : GetProperty(props', k, <<>>) = IF k = key THEN value ELSE GetProperty(props, k, <<>>)
      BY <2>1, SetGets
    <2>3. DOMAIN Given(argindex) = {1} /\ Given(argindex)[1][1] = key /\ Given(argindex)[1][2] = value
      BY <1>4
    <2> QED
      BY <2>2, <2>3, Zenon DEF TakesOption
  <1>6. props' \in PropertyMaps
    BY <1>1, <1>3, PropertyMapsKept DEF OptionsInv, key, value
  <1>7. startup' = "parsing"
    BY <1>1 DEF Reading
  <1> QED
    BY <1>1, <1>2, <1>5, <1>6, <1>7, OptionTaken DEF OptionsInv

\* A property file is taken.
LEMMA FileStep ==
    ASSUME OptionsInv, PropertyFile, props' # props \/ argindex' # argindex
    PROVE  OptionsInv'
  <1> DEFINE lines == PropertyFiles[argv[argindex + 1]]
  <1>1. /\ Reading /\ HasValue /\ argv[argindex] = "-P" /\ argv' = argv
        /\ argv[argindex + 1] \in DOMAIN PropertyFiles /\ props' = Load(props, lines)
        /\ argindex' = argindex + 2 /\ startup' = startup
    BY DEF PropertyFile
  <1>2. argv \in Seq(STRING) /\ argindex + 1 <= Len(argv) /\ props \in PropertyMaps
    BY <1>1 DEF OptionsInv, HasValue
  <1>3. lines \in Seq(Texts)
    <2>1. lines \in Seq(Seq(STRING))
      BY <1>1, OptionsAssumption
    <2>2. Seq(STRING) \subseteq Texts
      BY StringsAreTexts
    <2> QED
      BY <2>1, <2>2, SeqGrows
  <1>4. Given(argindex) = [n \in {m \in DOMAIN lines : Gives(lines[m])} |-> KeyAndValue(lines[n])]
    BY <1>1, Zenon DEF Given
  <1> HIDE DEF lines
  <1>5. props' \in LoadedFrom(props, lines, Len(lines)) /\ DOMAIN lines = 1..Len(lines)
    BY <1>1, <1>2, <1>3, LoadLoads
  <1>6. TakesOption(props')
    <2> DEFINE G == Given(argindex)
    <2>1. /\ \A m : m \in DOMAIN G <=> m \in 1..Len(lines) /\ Gives(lines[m])
          /\ \A m \in DOMAIN G : G[m][1] = Key(lines[m]) /\ G[m][2] = Value(lines[m])
      BY <1>4, <1>5 DEF Key, Value
    <2>2. /\ \A k : (\A m \in 1..Len(lines) : Gives(lines[m]) => Key(lines[m]) # k)
                    => GetProperty(props', k, <<>>) = GetProperty(props, k, <<>>)
          /\ \A i \in 1..Len(lines) :
                Gives(lines[i]) /\ (\A m \in 1..Len(lines) : m > i /\ Gives(lines[m])
                                                           => Key(lines[m]) # Key(lines[i]))
                => GetProperty(props', Key(lines[i]), <<>>) = Value(lines[i])
      BY <1>5, Zenon DEF LoadedFrom
    <2> HIDE DEF G
    <2>3. \A k : (\A m \in DOMAIN G : G[m][1] # k)
                => GetProperty(props', k, <<>>) = GetProperty(props, k, <<>>)
      BY <2>1, <2>2, Zenon
    <2>4. \A n \in DOMAIN G : (\A m \in DOMAIN G : m > n => G[m][1] # G[n][1])
                => GetProperty(props', G[n][1], <<>>) = G[n][2]
      <3> SUFFICES ASSUME NEW n \in DOMAIN G, \A m \in DOMAIN G : m > n => G[m][1] # G[n][1]
                   PROVE  GetProperty(props', Key(lines[n]), <<>>) = Value(lines[n])
        BY <2>1, Zenon
      <3>1. \A m \in 1..Len(lines) : m > n /\ Gives(lines[m]) => Key(lines[m]) # Key(lines[n])
        BY <2>1, Zenon
      <3> QED
        BY <2>1, <2>2, <3>1, Zenon
    <2> QED
      BY <2>3, <2>4, Zenon DEF TakesOption, G
  <1>7. props' \in PropertyMaps
    BY <1>5, Zenon DEF LoadedFrom
  <1>8. startup' = "parsing"
    BY <1>1 DEF Reading
  <1> QED
    BY <1>1, <1>2, <1>6, <1>7, <1>8, OptionTaken DEF OptionsInv

\* Once the arguments are read, of the values that the options on the command line and
\* the lines of property files give to a property, it has the last.
THEOREM LastOptionCounts == ProcessSpec => []LastGivenWins
  <1>1. ProcessInit => OptionsInv
    <2> SUFFICES ASSUME ProcessInit PROVE OptionsInv
      OBVIOUS
    <2>1. argv \in Seq(STRING) /\ argindex = 1 /\ startup = "parsing" /\ props = [key \in {} |-> <<>>]
      BY OptionsAssumption DEF ProcessInit, OptionsInit
    <2>2. props \in [{} -> Texts]
      BY <2>1
    <2>3. props \in PropertyMaps
      BY <2>2 DEF PropertyMaps
    <2>4. OptionsBefore(1) = {}
      BY DEF OptionsBefore
    <2> QED
      BY <2>1, <2>3, <2>4 DEF OptionsInv, LastWins
  <1>2. OptionsInv /\ [ProcessNext]_processVars => OptionsInv'
    <2> SUFFICES ASSUME OptionsInv, [ProcessNext]_processVars PROVE OptionsInv'
      OBVIOUS
    <2> DEFINE Known == {"parsed", "constructing", "created", "running"}
    <2>1. CASE /\ argv' = argv /\ argindex' = argindex
               /\ \A k : GetProperty(props', k, <<>>) = GetProperty(props, k, <<>>)
               /\ props' \in PropertyMaps
               /\ startup' \in Known => argindex = Len(argv) + 1
      <3>1. LastWins(argindex)'
        <4>1. \A i : Given(i)' = Given(i)
          BY <2>1 DEF Given
        <4> QED
          BY <2>1, <4>1, Zenon DEF OptionsInv, LastWins, OptionsBefore
      <3> QED
        BY <2>1, <3>1 DEF OptionsInv
    <2>2. CASE /\ argv' = argv /\ argindex' = argindex /\ props' = props
               /\ startup' \in Known => (startup \in Known \/ argindex = Len(argv) + 1)
      BY <2>1, <2>2 DEF OptionsInv
    <2>3. CASE Option \/ PropertyFile
      <3>1. CASE props' # props \/ argindex' # argindex
        BY <2>3, <3>1, OptionStep, FileStep
      <3>2. CASE props' = props /\ argindex' = argindex
        BY <2>2, <2>3, <3>2 DEF Option, PropertyFile, Reading
      <3> QED
        BY <3>1, <3>2
    <2>4. CASE UnknownOption \/ EndOfOptions \/ Begins
      BY <2>2, <2>4 DEF UnknownOption, EndOfOptions, Begins, OptionsInv
    <2>5. CASE CreateDB
      <3> DEFINE keys == {<<"dbname">>} \cup DBKeys(dbname)
      <3>1. props' = Subscript(props, keys) /\ argv' = argv /\ argindex' = argindex /\ startup = "parsed"
        BY <2>5 DEF CreateDB
      <3>2. keys \in SUBSET Texts
        <4>1. \A w \in Words : <<w>> \in Texts
          BY WordIsText
        <4>2. DBKeys(dbname) \subseteq {<<"port">>, <<"slaves">>, <<"host">>, <<"dbfilename">>, <<"configpath">>}
          BY DEF DBKeys
        <4>3. {"dbname", "port", "slaves", "host", "dbfilename", "configpath"} \subseteq Words
          BY DEF Words
        <4> QED
          BY <4>1, <4>2, <4>3
      <3> HIDE DEF keys
      <3>3. props' \in PropertyMaps
        BY <3>1, <3>2, PropertyMapsKept DEF OptionsInv
      <3>4. \A k : GetProperty(props', k, <<>>) = GetProperty(props, k, <<>>)
        BY <3>1, SubscriptGets
      <3> QED
        BY <2>1, <3>1, <3>3, <3>4 DEF OptionsInv
    <2>6. CASE NewStore \/ Constructing \/ Serving \/ UNCHANGED processVars
      BY <2>2, <2>6 DEF NewStore, Constructing, Serving, optionVars, processVars
    <2> QED
      BY <2>3, <2>4, <2>5, <2>6 DEF ProcessNext, ReadOptions, OptionsNext
  <1>3. OptionsInv => LastGivenWins
    BY DEF OptionsInv, LastGivenWins
  <1> QED
    BY <1>1, <1>2, <1>3, PTL DEF ProcessSpec
=============================================================================
