------------------------------ MODULE MCDriver ------------------------------
(***************************************************************************)
(* Instances of Driver for TLC.  The .cfg files choose among these values. *)
(* Small stage constants make the stage output happen within a few         *)
(* operations, and OpsLen is the least that OpsLenAssumption allows.       *)
(***************************************************************************)
EXTENDS Driver

\* Mixes of operations with a positive proportion.
ReadInsert == {READ, INSERT}
ReadInsertModify == {READ, INSERT, READMODIFYWRITE}

NeverSkip == {FALSE}
SkipOrLoad == {TRUE, FALSE}

NoKeys == {}
NoZeroLookup == {0}
SomeZeroLookups == {0, 1}

MCOpsLen == THREAD0 + 2 * NumThreads
=============================================================================
