----------------------------- MODULE LSMProcess -----------------------------
(***************************************************************************)
(* Options over LSMDB: the command line chooses the store and its          *)
(* configuration, CreateDB runs the constructor, and main goes on when it  *)
(* returns.  The other databases have modules of their own.                *)
(***************************************************************************)
EXTENDS LSMDB, Options

CONSTANTS Configs,      \* for each configpath that opens, its contents
          Instances     \* the command lines with the workloads they run

\* An ini file lacks what the constructor reads or has it all; the bits file, when
\* there is one, holds the numbers fscanf reads.
ASSUME ConfigsAssumption ==
    \A path \in DOMAIN Configs :
        /\ Configs[path].ini \in {"empty", "incomplete", "complete"}
        /\ Configs[path].ini = "complete" => Configs[path].bits \in Seq(Int)

processVars == <<adapterVars, optionVars>>

ProcessInit == AdapterInit /\ OptionsInit /\ <<argv, workload>> \in Instances

ReadOptions == startup \notin {"constructing", "running"} /\ OptionsNext /\ UNCHANGED adapterVars

\* c_str() of the property is opened; an empty path opens nothing.
ConfigAt(path) == IF path \in DOMAIN Configs THEN Configs[path] ELSE [ini |-> "absent"]

NewStore ==
    /\ startup = "constructing" /\ phase = "none"
    /\ Construct(dbname[1], ConfigAt(props[<<"configpath">>]))
    /\ UNCHANGED optionVars

\* The constructor; the process ends when it does not return.
Constructing ==
    /\ startup = "constructing" /\ Constructor
    /\ startup' = CASE phase' \in {"config", "filter", "open"} -> "constructing"
                    [] phase' = "serving" -> "created"
                    [] OTHER -> phase'
    /\ UNCHANGED <<argv, argindex, props>>

Serving ==
    /\ startup = "running"
    /\ Compact \/ \E c \in Clients : ClientStep(c)
    /\ UNCHANGED optionVars

ProcessNext == ReadOptions \/ NewStore \/ Constructing \/ Serving

ProcessSpec == ProcessInit /\ [][ProcessNext]_processVars
=============================================================================
