----------------------------- MODULE MCRedisDB ------------------------------
(***************************************************************************)
(* Instances of RedisDB for TLC.                                           *)
(***************************************************************************)
EXTENDS RedisDB

ReadUpdate == {"Read", "Update"}
AnyWriteError == {"HMSET", "DEL"}
=============================================================================
