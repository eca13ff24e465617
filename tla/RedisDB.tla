------------------------------ MODULE RedisDB -------------------------------
(***************************************************************************)
(* The Redis database: db/redis_db.cc over redis/redis_client.h over the   *)
(* blocking part of the vendored hiredis (redis/hiredis/hiredis.c).        *)
(*                                                                         *)
(* One RedisDB, hence one redisContext, serves all client threads.  A      *)
(* command is appended to the context's output buffer; redisGetReply takes *)
(* the next reply from the reader and, when there is none, writes the      *)
(* output buffer to the socket and reads from it.  Nothing but the order   *)
(* of the replies ties a reply to its command.  Each step below is one     *)
(* access to the context and is atomic; hiredis does not lock, so with two *)
(* threads the real steps also race, and the model shows the least that    *)
(* can go wrong.                                                           *)
(*                                                                         *)
(* The Redis server is external: it executes the commands of the           *)
(* connection in order, answers each one, and may close the connection.    *)
(* Values are left out: the server's state is the set of keys that have a  *)
(* hash.                                                                   *)
(***************************************************************************)
EXTENDS Integers, Sequences

CONSTANTS
    Clients,         \* client threads
    Keys,            \* record keys
    MaxCalls,        \* bound: calls per client
    Calls,           \* operations the clients call, subset of CallNames
    Slaves,          \* slaves_: replicas a write waits for, 0 for none
    ServerErrors,    \* write commands the server may answer with an error
    MayDisconnect,   \* the server may close the connection
    NONE             \* no reply

CallNames == {"Read", "Scan", "Update", "Insert", "Delete"}
WriteCalls == {"Update", "Insert", "Delete"}

ASSUME SizesAssumption == MaxCalls \in Nat /\ Slaves \in Nat
ASSUME CallsAssumption == Calls \subseteq CallNames
ASSUME FaultsAssumption == /\ ServerErrors \subseteq {"HMSET", "DEL"}
                           /\ MayDisconnect \in BOOLEAN

VARIABLES
    process,      \* "start", "running", or how the process ended
    obuf,         \* the context's output buffer
    socket,       \* commands sent and not executed yet
    inbox,        \* replies sent and not read yet
    reader,       \* replies read and not taken yet
    err,          \* the context's err field
    connected,    \* the server has not closed the connection
    store,        \* keys with a hash in the server
    executed,     \* history: the calls whose command the server has taken
    pc,           \* where each client is in its call
    calls,        \* how many calls each client has made
    call, key,    \* the call in progress
    awaiting,     \* which reply of Command it waits for, "command" or "WAIT"
    reply,        \* the reply it has taken
    ret           \* what its last call returned

contextVars == <<obuf, reader, err>>
serverVars == <<socket, inbox, connected, store, executed>>
vars == <<process, obuf, socket, inbox, reader, err, connected, store, executed,
          pc, calls, call, key, awaiting, reply, ret>>

kOK == 0
kErrorNoData == 1
kErrorConflict == 2

Init ==
    /\ process = "start"
    /\ obuf = <<>> /\ socket = <<>> /\ inbox = <<>> /\ reader = <<>>
    /\ err = FALSE
    /\ connected = FALSE
    /\ store = {}
    /\ executed = {}
    /\ pc = [c \in Clients |-> "idle"]
    /\ calls = [c \in Clients |-> 0]
    /\ call = [c \in Clients |-> "Read"]
    /\ key \in [Clients -> Keys]
    /\ awaiting = [c \in Clients |-> "command"]
    /\ reply = [c \in Clients |-> NONE]
    /\ ret = [c \in Clients |-> kOK]

-----------------------------------------------------------------------------
(***************************************************************************)
(* The calls of RedisDB and RedisClient.                                   *)
(***************************************************************************)

\* The constructor: redisConnect, or exit(1).
Connect ==
    /\ process = "start"
    /\ \/ process' = "running" /\ connected' = TRUE
       \/ process' = "exit1" /\ UNCHANGED connected
    /\ UNCHANGED <<obuf, socket, inbox, reader, err, store, executed, pc, calls, call, key,
                   awaiting, reply, ret>>

\* Client c is at this place in its call, and the process has not ended.
At(c, place) == process = "running" /\ pc[c] = place

GoTo(c, to) == pc' = [pc EXCEPT ![c] = to]

Return(c, r) ==
    /\ GoTo(c, "idle")
    /\ ret' = [ret EXCEPT ![c] = r]

\* A call begins.  Scan throws; everything else sends a command.
Begin(c) ==
    /\ At(c, "idle")
    /\ calls[c] < MaxCalls
    /\ \E name \in Calls, k \in Keys :
          /\ call' = [call EXCEPT ![c] = name]
          /\ key' = [key EXCEPT ![c] = k]
          /\ GoTo(c, IF name = "Scan" THEN "threw" ELSE "append")
    /\ calls' = [calls EXCEPT ![c] = @ + 1]
    /\ awaiting' = [awaiting EXCEPT ![c] = "command"]
    /\ reply' = [reply EXCEPT ![c] = NONE]
    /\ UNCHANGED <<process, contextVars, serverVars, ret>>

\* The commands a call may send: Insert is an Update, and a Read of some of
\* the fields (HMGET) is answered like a Read of all of them (HGETALL).
CommandNames(name) ==
    CASE name \in {"Update", "Insert"} -> {"HMSET"}
      [] name = "Delete" -> {"DEL"}
      [] name = "Read" -> {"HGETALL", "HMGET"}

Command(c, name) == [owner |-> c, call |-> calls[c], name |-> name, key |-> key[c]]

\* redisAppendCommand or the first half of redisCommand.
Appended(cmd) == <<cmd>>
AppendCommand(c) ==
    /\ At(c, "append")
    /\ \E name \in CommandNames(call[c]) : obuf' = obuf \o Appended(Command(c, name))
    /\ GoTo(c, IF call[c] \in WriteCalls /\ Slaves > 0 THEN "appendWait" ELSE "reader")
    /\ UNCHANGED <<process, reader, err, serverVars, calls, call, key, awaiting, reply, ret>>

\* redisAppendCommand(context_, "WAIT %d %d", slaves_, 0).
AppendWait(c) ==
    /\ At(c, "appendWait")
    /\ obuf' = Append(obuf, Command(c, "WAIT"))
    /\ GoTo(c, "reader")
    /\ UNCHANGED <<process, reader, err, serverVars, calls, call, key, awaiting, reply, ret>>

\* HandleError: "if (reply) freeReplyObject(reply)" on a pointer redisGetReply
\* has not set.  Before the first reply it is uninitialized, null or not;
\* afterwards it is the reply already freed.  Then exit(2).
HandleError_Ignored(c) == Return(c, kOK) /\ UNCHANGED process
HandleError(c) ==
    /\ process' \in IF awaiting[c] = "command" THEN {"exit2", "undefined"} ELSE {"undefined"}
    /\ UNCHANGED <<pc, ret>>

\* What Read returns when redisCommand has returned NULL.
ReadFailed == kOK

\* redisGetReply returns REDIS_ERR.
Fail(c) == IF call[c] = "Read" THEN Return(c, ReadFailed) /\ UNCHANGED process
                               ELSE HandleError(c)

\* redisGetReply hands over a reply.
Receive(c, r) ==
    /\ reply' = [reply EXCEPT ![c] = r]
    /\ GoTo(c, "consume")

\* "Try to read pending replies".
TryReader(c) ==
    /\ At(c, "reader")
    /\ IF reader = <<>>
       THEN GoTo(c, "write") /\ UNCHANGED <<reader, reply>>
       ELSE Receive(c, Head(reader)) /\ reader' = Tail(reader)
    /\ UNCHANGED <<process, obuf, err, serverVars, calls, call, key, awaiting, ret>>

\* "Write until done".  On a connection the server has closed, the bytes may
\* still be accepted, or write() fails, with SIGPIPE or with an error.
Sent_Nothing == <<>>
Sent == obuf
BufferWrite(c) ==
    /\ At(c, "write")
    /\ \/ /\ err
          /\ Fail(c)
          /\ UNCHANGED <<obuf, err, socket>>
       \/ /\ ~err /\ (connected \/ obuf = <<>>)
          /\ socket' = socket \o Sent
          /\ obuf' = <<>>
          /\ GoTo(c, "read")
          /\ UNCHANGED <<process, err, ret>>
       \/ /\ ~err /\ ~connected /\ obuf # <<>>
          /\ \/ /\ obuf' = <<>>
                /\ GoTo(c, "read")
                /\ UNCHANGED <<process, err, ret>>
             \/ /\ err' = TRUE
                /\ Fail(c)
                /\ UNCHANGED obuf
             \/ /\ process' = "sigpipe"
                /\ UNCHANGED <<obuf, err, pc, ret>>
          /\ UNCHANGED socket
    /\ UNCHANGED <<reader, inbox, connected, store, executed, calls, call, key, awaiting, reply>>

\* read(2) returns 0.
EndOfFile_Empty == inbox = <<>>
EndOfFile == inbox = <<>> /\ ~connected

\* "Read until there is a reply": blocks while the socket is empty and open.
BufferRead(c) ==
    /\ At(c, "read")
    /\ \/ /\ err \/ EndOfFile
          /\ err' = TRUE
          /\ Fail(c)
          /\ UNCHANGED <<inbox, reader, reply>>
       \/ /\ ~err /\ inbox # <<>>
          /\ \E n \in 1..Len(inbox) :
                LET fed == reader \o SubSeq(inbox, 1, n)
                IN  /\ Receive(c, Head(fed))
                    /\ reader' = Tail(fed)
                    /\ inbox' = SubSeq(inbox, n + 1, Len(inbox))
          /\ UNCHANGED <<process, err, ret>>
    /\ UNCHANGED <<obuf, socket, connected, store, executed, calls, call, key, awaiting>>

\* Command has to take the reply to WAIT as well.
WaitPending_Never(c) == FALSE
WaitPending(c) == Slaves > 0 /\ awaiting[c] = "command"

\* The reply is used and freed.  Read asserts that it is an array; Command
\* does not look at it.
Consume(c) ==
    /\ At(c, "consume")
    /\ \/ /\ call[c] = "Read" /\ reply[c].type = "array"
          /\ Return(c, kOK)
          /\ UNCHANGED <<process, awaiting>>
       \/ /\ call[c] = "Read" /\ reply[c].type # "array"
          /\ process' = "assert"
          /\ UNCHANGED <<pc, ret, awaiting>>
       \/ /\ call[c] # "Read" /\ WaitPending(c)
          /\ awaiting' = [awaiting EXCEPT ![c] = "WAIT"]
          /\ GoTo(c, "reader")
          /\ UNCHANGED <<process, ret>>
       \/ /\ call[c] # "Read" /\ ~WaitPending(c)
          /\ Return(c, kOK)
          /\ UNCHANGED <<process, awaiting>>
    /\ UNCHANGED <<contextVars, serverVars, calls, call, key, reply>>

Client(c) ==
    \/ Begin(c) \/ AppendCommand(c) \/ AppendWait(c) \/ TryReader(c)
    \/ BufferWrite(c) \/ BufferRead(c) \/ Consume(c)

-----------------------------------------------------------------------------
(***************************************************************************)
(* The server (external).                                                  *)
(***************************************************************************)

ReplyTypes(name) ==
    (CASE name = "HMSET" -> {"status"}
       [] name \in {"DEL", "WAIT"} -> {"integer"}
       [] name \in {"HGETALL", "HMGET"} -> {"array"})
    \cup (IF name \in ServerErrors THEN {"error"} ELSE {})

Execute ==
    /\ connected
    /\ socket # <<>>
    /\ LET cmd == Head(socket) IN
       \E type \in ReplyTypes(cmd.name) :
          /\ store' = CASE type # "error" /\ cmd.name = "HMSET" -> store \cup {cmd.key}
                        [] type # "error" /\ cmd.name = "DEL" -> store \ {cmd.key}
                        [] OTHER -> store
          /\ executed' = executed \cup {<<cmd.owner, cmd.call>>}
          /\ inbox' = Append(inbox, [cmd |-> cmd, type |-> type])
    /\ socket' = Tail(socket)
    /\ UNCHANGED <<process, contextVars, connected, pc, calls, call, key, awaiting, reply, ret>>

\* What was sent in either direction may be lost with the connection.
Disconnect ==
    /\ MayDisconnect
    /\ connected
    /\ connected' = FALSE
    /\ socket' = <<>>
    /\ \E n \in 0..Len(inbox) : inbox' = SubSeq(inbox, 1, n)
    /\ UNCHANGED <<process, contextVars, store, executed, pc, calls, call, key,
                   awaiting, reply, ret>>

\* The process has ended, or every client has made its calls.
Stopped ==
    /\ \/ process \notin {"start", "running"}
       \/ \A c \in Clients : pc[c] = "threw" \/ (pc[c] = "idle" /\ calls[c] = MaxCalls)
    /\ UNCHANGED vars

Next == Connect \/ (\E c \in Clients : Client(c)) \/ Execute \/ Disconnect \/ Stopped

Spec == Init /\ [][Next]_vars

\* Threads are scheduled, and the server answers while it is connected (WAIT
\* returns once the replicas have followed).
Fairness == /\ WF_vars(Connect)
            /\ \A c \in Clients : WF_vars(Client(c))
            /\ WF_vars(Execute)

FairSpec == Spec /\ Fairness

-----------------------------------------------------------------------------
(***************************************************************************)
(* Properties.                                                             *)
(***************************************************************************)

\* On one thread, the reply a call takes is the reply to the command it waits
\* for, whatever was answered or lost before.
OwnReply ==
    \A c \in Clients : pc[c] = "consume" =>
        /\ reply[c].cmd.owner = c
        /\ reply[c].cmd.call = calls[c]
        /\ (reply[c].cmd.name = "WAIT") <=> (awaiting[c] = "WAIT")

\* On one thread, a write that returned kOK has reached the server, which has
\* executed it or answered it with an error (Command ignores which), also when
\* the connection breaks while the write is in flight.
Acknowledged ==
    \A c \in Clients :
        pc[c] = "idle" /\ calls[c] > 0 /\ call[c] \in WriteCalls /\ ret[c] = kOK =>
            <<c, calls[c]>> \in executed

\* What the code does badly when redisGetReply fails (HandleError frees a
\* pointer it was not given, Read answers kOK with nothing read) needs a server
\* that has closed the connection: no order of calls and replies leads there.
FailsOnlyWhenClosed ==
    connected => ~err /\ process \notin {"exit2", "undefined", "sigpipe"}

\* Every call ends, if only with the process.
CallsEnd ==
    \A c \in Clients :
        pc[c] # "idle" ~> pc[c] \in {"idle", "threw"} \/ process # "running"

\* db/redis_db.cc:31 and :42: "assert(reply->type == REDIS_REPLY_ARRAY)".
ReadGetsArray == process # "assert"
=============================================================================
