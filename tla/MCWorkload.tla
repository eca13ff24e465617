----------------------------- MODULE MCWorkload -----------------------------
(***************************************************************************)
(* Instances of Workload for TLC: words of four bits.                      *)
(***************************************************************************)
EXTENDS Workload

MCWord == 16
MCMaxItems == 8
MCHash == [v \in Words |-> (5 * v + 11) % 16]

Base == [recordcount |-> 3, insertstart |-> 1, readkeystart |-> 1, new_keys |-> 0,
         requestdistribution |-> "uniform", hotspotdata |-> 20, hotspotopn |-> 80,
         proportions |-> {READ}, zerolookup |-> BOOLEAN,
         fieldcount |-> 2, fieldlength |-> 2, maxscanlength |-> 2,
         field_len_dist |-> "constant", scanlengthdistribution |-> "uniform",
         ordered |-> TRUE, readallfields |-> TRUE, writeallfields |-> FALSE]

\* Every distribution, at, below and above the sizes it needs; the Zipfian one
\* also for more keys than are loaded, the hotspot one with empty intervals.
KeyCases ==
    {[Base EXCEPT !.requestdistribution = d, !.recordcount = n, !.ordered = o] :
        d \in {"uniform", "zipfian", "latest", "other"}, n \in 0..5, o \in BOOLEAN}
    \cup {[Base EXCEPT !.requestdistribution = "zipfian", !.recordcount = n, !.ordered = o,
                       !.proportions = {READ, INSERT}, !.new_keys = extra] :
             n \in 0..5, o \in BOOLEAN, extra \in {1, 2}}
    \cup {[Base EXCEPT !.requestdistribution = "hotspot", !.recordcount = n,
                       !.hotspotdata = h, !.hotspotopn = f] :
             n \in 0..5, h \in {20, 50, 100}, f \in {0, 80, 100}}

\* Every operation, alone and mixed, and none.
RequestCases ==
    {[Base EXCEPT !.proportions = ops, !.field_len_dist = d, !.zerolookup = {FALSE},
                  !.readallfields = r, !.writeallfields = w] :
        ops \in {{READ, INSERT}, {UPDATE, SCAN}, {READMODIFYWRITE}, {}},
        d \in {"constant", "uniform", "zipfian", "other"}, r \in BOOLEAN, w \in BOOLEAN}
    \cup {[Base EXCEPT !.scanlengthdistribution = d] : d \in {"zipfian", "other"}}

AllCases == KeyCases \cup RequestCases
=============================================================================
