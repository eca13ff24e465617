--------------------------- MODULE MCRedisProcess ---------------------------
(***************************************************************************)
(* An instance of RedisProcess for TLC: the connecting functions of        *)
(* hiredis, and one client thread of the database.                         *)
(***************************************************************************)
EXTENDS RedisProcess

AnyWriteError == {"HMSET", "DEL"}

Mode(type, blocking, source, reuse, timeout) ==
    [type |-> type, blocking |-> blocking, source |-> source, reuse |-> reuse, timeout |-> timeout]

ConnectModes ==
    {ClientMode}
    \cup {Mode("tcp", TRUE, FALSE, FALSE, t) : t \in {"valid", "invalid"}}
    \cup {Mode("tcp", FALSE, source, FALSE, "none") : source \in BOOLEAN}
    \cup {Mode("tcp", FALSE, TRUE, TRUE, "none")}
    \cup {Mode("unix", TRUE, FALSE, FALSE, t) : t \in {"none", "valid"}}
    \cup {Mode("unix", FALSE, FALSE, FALSE, "none")}
=============================================================================
