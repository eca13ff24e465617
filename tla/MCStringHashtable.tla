------------------------- MODULE MCStringHashtable --------------------------
(***************************************************************************)
(* Instances of StringHashtable for TLC.                                   *)
(***************************************************************************)
EXTENDS StringHashtable

AllKinds == {"lock_stl", "tbb_rand", "tbb_scan"}
=============================================================================
