---------------------------- MODULE MCRedisAsync ----------------------------
(***************************************************************************)
(* An instance of RedisAsync for TLC: two channels that share no bucket    *)
(* once the dict has grown, and a pattern.                                 *)
(***************************************************************************)
EXTENDS RedisAsync

Topics == {"c1", "c2", "p1"}
PatternTopics == {"p1"}
Hashes == [t \in Topics |-> IF t = "c1" THEN 1 ELSE 0]

Cmd(name, topics, callback) == [name |-> name, topics |-> topics, callback |-> callback]
UserCommands ==
    {Cmd("GET", <<>>, TRUE), Cmd("MONITOR", <<>>, TRUE),
     Cmd("SUBSCRIBE", <<"c1", "c2">>, TRUE), Cmd("SUBSCRIBE", <<"p1">>, FALSE),
     Cmd("UNSUBSCRIBE", <<"c2", "c1">>, FALSE)}
=============================================================================
