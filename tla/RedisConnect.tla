---------------------------- MODULE RedisConnect ----------------------------
(***************************************************************************)
(* How a hiredis context gets its socket (redis/hiredis/net.c and the      *)
(* redisConnect functions of redis/hiredis/hiredis.c): resolve, try the    *)
(* addresses in turn, bind, connect, wait, and reconnect later.            *)
(*                                                                         *)
(* The operating system is external: every call may fail.  Descriptors are *)
(* numbers, the lowest free one is given out; the rest of the process      *)
(* opens descriptors too.                                                  *)
(***************************************************************************)
EXTENDS Integers, FiniteSets, FiniteSetsExt

CONSTANTS
    Modes,            \* how the user connects, see RedisProcess
    MaxAddresses,     \* bound: addresses of the host
    Retries,          \* REDIS_CONNECT_RETRIES (10)
    MaxReconnects,    \* bound: calls of redisReconnect
    MaxForeign        \* bound: descriptors opened by others

VARIABLES
    mode,         \* flags, timeout and source_addr of the context
    pc,           \* the call in progress, "idle" between calls
    fd,           \* c->fd: 0 at first, -1 after redisContextCloseFd
    err,          \* c->err: "none", "io" or "other"
    connected,    \* REDIS_CONNECTED
    addrs,        \* addresses left to try
    reuses,       \* the local of _redisContextConnectTcp
    reconnects,   \* calls of redisReconnect so far
    own,          \* the descriptors opened for the context
    foreign,      \* the descriptors opened by others
    created       \* history: this (re)connect has opened a socket

vars == <<mode, pc, fd, err, connected, addrs, reuses, reconnects, own, foreign, created>>

Init ==
    /\ mode \in Modes
    /\ pc = "start"
    /\ fd = 0 /\ err = "none" /\ connected = FALSE
    /\ addrs = 0 /\ reuses = 0 /\ reconnects = 0
    /\ own = {} /\ foreign = {}
    /\ created = FALSE

-----------------------------------------------------------------------------

\* The call returns; its locals are gone.
Return == pc' = "idle" /\ addrs' = 0 /\ reuses' = 0

\* It returns REDIS_ERR with this error, and leaves the socket alone.
Fail(error) == Return /\ err' = error /\ UNCHANGED <<fd, own, connected>>

\* It returns REDIS_ERR after redisContextCloseFd.
CloseFd_Keep == UNCHANGED own
CloseFd == own' = own \ {fd}
FailClosed == Return /\ err' = "io" /\ CloseFd /\ fd' = -1 /\ UNCHANGED connected

FirstStep == IF mode.type = "tcp" THEN "resolve" ELSE "socket"

\* The redisConnect functions up to the connection; without memory there is no
\* context, and the two that bind write to it all the same.
Start ==
    /\ pc = "start"
    /\ pc' \in {FirstStep, IF mode.source THEN "crashed" ELSE "null"}
    /\ UNCHANGED <<mode, fd, err, connected, addrs, reuses, reconnects, own, foreign, created>>

\* getaddrinfo for IPv4, then for IPv6.
Resolve ==
    /\ pc = "resolve"
    /\ \/ Fail("other")
       \/ /\ addrs' \in 1..MaxAddresses
          /\ pc' = "socket"
          /\ UNCHANGED <<fd, err, connected, reuses, own>>
    /\ UNCHANGED <<mode, reconnects, foreign, created>>

NewFd == Min((1..(Cardinality(own \cup foreign) + 1)) \ (own \cup foreign))

\* No address is left: the error after the loop.
NoAddress_Silent == Fail(err)
NoAddress == Fail("other")

\* socket, and redisSetBlocking(c, 0) on it.
Socket ==
    /\ pc = "socket"
    /\ \/ mode.type = "tcp" /\ addrs = 0 /\ NoAddress /\ UNCHANGED created
       \/ /\ mode.type = "tcp" /\ addrs > 0
          /\ addrs' = addrs - 1
          /\ UNCHANGED <<pc, fd, err, connected, reuses, own, created>>
       \/ mode.type = "unix" /\ Fail("io") /\ UNCHANGED created
       \/ /\ mode.type = "unix" \/ addrs > 0
          /\ created' = TRUE
          /\ \/ Return /\ err' = "io" /\ fd' = -1 /\ UNCHANGED <<own, connected>>
             \/ /\ fd' = NewFd /\ own' = own \cup {NewFd}
                /\ pc' = IF mode.source THEN "bind" ELSE "connect"
                /\ UNCHANGED <<err, connected, addrs, reuses>>
    /\ UNCHANGED <<mode, reconnects, foreign>>

\* The source address: getaddrinfo, SO_REUSEADDR (whose failure sets no error)
\* and bind.
Bind ==
    /\ pc = "bind"
    /\ \/ Fail("other")
       \/ mode.reuse /\ Fail(err)
       \/ pc' = "connect" /\ UNCHANGED <<fd, err, connected, addrs, reuses, own>>
    /\ UNCHANGED <<mode, reconnects, foreign, created>>

\* connect(2) has succeeded, or is under way on a nonblocking context.
Connected == pc' = "finish" /\ UNCHANGED <<fd, err, connected, addrs, reuses, own>>

\* EHOSTUNREACH: close this socket, try the next address.
Unreachable ==
    /\ mode.type = "tcp"
    /\ CloseFd /\ fd' = -1
    /\ addrs' = addrs - 1
    /\ pc' = "socket"
    /\ UNCHANGED <<err, connected, reuses>>

\* EADDRNOTAVAIL: the same address again, with a new socket; the old one stays
\* open.  The last retry returns without an error.
RetryAddress ==
    /\ mode.type = "tcp" /\ mode.reuse
    /\ IF reuses + 1 >= Retries THEN Fail(err)
       ELSE /\ reuses' = reuses + 1
            /\ pc' = "socket"
            /\ UNCHANGED <<fd, err, connected, addrs, own>>

\* EINPROGRESS on a blocking context: redisContextWaitReady has to wait.
InProgress ==
    /\ mode.blocking
    /\ pc' = "wait"
    /\ UNCHANGED <<fd, err, connected, addrs, reuses, own>>

Connect ==
    /\ pc = "connect"
    /\ Connected \/ Unreachable \/ RetryAddress \/ InProgress \/ FailClosed
    /\ UNCHANGED <<mode, reconnects, foreign, created>>

\* redisContextWaitReady: a timeout that cannot be represented, an error or a
\* timeout of poll; or redisCheckSocketError, which does not close the socket.
WaitReady ==
    /\ pc = "wait"
    /\ \/ FailClosed
       \/ mode.timeout # "invalid" /\ (Fail("io") \/ Connected)
    /\ UNCHANGED <<mode, reconnects, foreign, created>>

\* redisSetBlocking(c, 1) and redisSetTcpNoDelay.
Finish ==
    /\ pc = "finish"
    /\ \/ (mode.blocking \/ mode.type = "tcp") /\ FailClosed
       \/ Return /\ connected' = TRUE /\ UNCHANGED <<fd, err, own>>
    /\ UNCHANGED <<mode, reconnects, foreign, created>>

-----------------------------------------------------------------------------

\* close(fd): of the context's socket, of whoever has the number by now, or
\* of nothing.
Close == IF fd > 0 THEN own' = own \ {fd} /\ foreign' = foreign \ {fd}
         ELSE UNCHANGED <<own, foreign>>

\* redisReconnect.  fd keeps the number of the closed socket until there is a
\* new one, and the context stays REDIS_CONNECTED.
redisReconnect ==
    /\ pc = "idle" /\ reconnects < MaxReconnects
    /\ reconnects' = reconnects + 1
    /\ err' = "none"
    /\ Close
    /\ pc' = FirstStep
    /\ created' = FALSE
    /\ UNCHANGED <<mode, fd, connected, addrs, reuses>>

redisFree ==
    /\ pc = "idle"
    /\ Close
    /\ pc' = "freed"
    /\ UNCHANGED <<mode, fd, err, connected, addrs, reuses, reconnects, created>>

\* redisSetTimeout and redisEnableKeepAlive fail.
SetOption ==
    /\ pc = "idle" /\ connected /\ err = "none"
    /\ err' \in {"other"} \cup (IF mode.blocking THEN {"io"} ELSE {})
    /\ UNCHANGED <<mode, pc, fd, connected, addrs, reuses, reconnects, own, foreign, created>>

\* Another part of the process opens a descriptor.
ForeignOpen ==
    /\ pc = "idle" /\ Cardinality(foreign) < MaxForeign
    /\ foreign' = foreign \cup {NewFd}
    /\ UNCHANGED <<mode, pc, fd, err, connected, addrs, reuses, reconnects, own, created>>

Next == Start \/ Resolve \/ Socket \/ Bind \/ Connect \/ WaitReady \/ Finish
           \/ redisReconnect \/ redisFree \/ SetOption \/ ForeignOpen

Spec == Init /\ [][Next]_vars

-----------------------------------------------------------------------------
(***************************************************************************)
(* Properties.                                                             *)
(***************************************************************************)

\* A connection without err is one with a socket of its own: the callers look
\* at nothing but err.  Not with SO_REUSEADDR, where two failures set no error.
ErrorReported == pc = "idle" /\ err = "none" /\ ~mode.reuse => connected /\ fd \in own

\* The context knows every socket it has opened and frees it (not those left
\* behind by the retries of SO_REUSEADDR), and fd is a socket of its own, or
\* none, except after a redisReconnect that did not get as far as a socket.
DescriptorsOwned ==
    /\ pc \in {"idle", "freed"} /\ ~mode.reuse => own \subseteq {fd}
    /\ pc = "freed" /\ ~mode.reuse => own = {}
    /\ pc = "idle" /\ fd > 0 /\ created => fd \in own
=============================================================================
