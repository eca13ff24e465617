---------------------------- MODULE RedisProcess ----------------------------
(***************************************************************************)
(* RedisDB over RedisConnect: the constructor of RedisClient calls         *)
(* redisConnect, looks at err, and the database runs on the connection or  *)
(* the process exits.  The other ways to connect are those of programs     *)
(* that use hiredis directly; with them no database starts.                *)
(***************************************************************************)
EXTENDS RedisDB

CONSTANTS Modes, MaxAddresses, Retries, MaxReconnects, MaxForeign    \* see RedisConnect

ASSUME ModesAssumption ==
    \A m \in Modes : /\ m.type \in {"tcp", "unix"} /\ m.timeout \in {"none", "valid", "invalid"}
                     /\ m.blocking \in BOOLEAN /\ m.source \in BOOLEAN /\ m.reuse \in BOOLEAN
ASSUME ConnectAssumption == MaxAddresses \in Nat \ {0} /\ Retries \in Nat \ {0}

VARIABLES mode, connecting, fd, connectErr, established, addrs, reuses, reconnects, own,
          foreign, created

connectVars == <<mode, connecting, fd, connectErr, established, addrs, reuses, reconnects, own,
                 foreign, created>>

Conn == INSTANCE RedisConnect WITH pc <- connecting, err <- connectErr, connected <- established

\* redisConnect(host, port).
ClientMode == [type |-> "tcp", blocking |-> TRUE, source |-> FALSE, reuse |-> FALSE,
               timeout |-> "none"]

ProcessInit == Init /\ Conn!Init

\* The context is made and, by others, also used, reconnected and freed.
Connecting ==
    /\ process = "start"
    /\ mode = ClientMode => connecting \notin {"idle", "null"}
    /\ Conn!Next
    /\ UNCHANGED vars

\* "if (!context_ || context_->err) ... exit(1)": the database runs exactly when
\* the connection reports no error.
Construct ==
    /\ mode = ClientMode /\ connecting \in {"idle", "null"}
    /\ Connect
    /\ (process' = "running") <=> (connecting = "idle" /\ connectErr = "none")
    /\ UNCHANGED connectVars

Running == process # "start" /\ Next /\ UNCHANGED connectVars

\* A program that does not run the database is done with its context.
Done == process = "start" /\ connecting \in {"null", "freed", "crashed"} /\ mode # ClientMode
        /\ UNCHANGED <<vars, connectVars>>

ProcessNext == Connecting \/ Construct \/ Running \/ Done

ProcessSpec ==
    /\ ProcessInit /\ [][ProcessNext]_<<vars, connectVars>>
    /\ \A c \in Clients : WF_vars(Client(c) /\ UNCHANGED connectVars)
    /\ WF_vars(Execute /\ UNCHANGED connectVars)

\* Properties of the connection, see RedisConnect.

\* The callers of the redisConnect functions look at nothing but err: a context
\* without err has a connected socket of its own.
ErrorReported == Conn!ErrorReported

\* No socket is lost, and fd is a socket of the context.
DescriptorsOwned == Conn!DescriptorsOwned
=============================================================================
