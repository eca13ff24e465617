----------------------------- MODULE RedisProofs ----------------------------
(***************************************************************************)
(* Proofs about the connection of a hiredis context, for every way to      *)
(* connect and every number of addresses, retries and reconnections, and   *)
(* about the database that runs on it, for every set of keys, number of    *)
(* calls and number of replicas, whatever errors the server answers and    *)
(* whether or not it closes the connection.                                *)
(*                                                                         *)
(* The database: the replies that no thread has taken and the commands     *)
(* that have no reply yet form a queue through reader, inbox, socket and   *)
(* obuf.  QueueInv numbers what is in it: the queue holds the commands of  *)
(* the call in progress, from the first that has not been answered to it   *)
(* on, and nothing between calls.                                          *)
(*                                                                         *)
(* The connection: ConnInv says which sockets of the context are open at   *)
(* each place of the connecting functions; between calls that is what the  *)
(* properties say.                                                         *)
(***************************************************************************)
EXTENDS RedisProcess, DataLemmas, SequenceTheorems, FiniteSetTheorems, TLAPS

Places == {"idle", "append", "appendWait", "reader", "write", "read", "consume", "threw"}
Ends == {"exit1", "exit2", "undefined", "sigpipe", "assert"}
Names == {"HMSET", "DEL", "HGETALL", "HMGET", "WAIT"}
Commands == [owner : Clients, call : Nat, name : Names, key : Keys]
Replies == [cmd : Commands, type : {"status", "integer", "array", "error"}]

TypeInv ==
    /\ process \in {"start", "running"} \cup Ends
    /\ obuf \in Seq(Commands) /\ socket \in Seq(Commands)
    /\ inbox \in Seq(Replies) /\ reader \in Seq(Replies)
    /\ err \in BOOLEAN /\ connected \in BOOLEAN
    /\ pc \in [Clients -> Places]
    /\ calls \in [Clients -> Nat]
    /\ call \in [Clients -> CallNames]
    /\ key \in [Clients -> Keys]
    /\ awaiting \in [Clients -> {"command", "WAIT"}]
    /\ reply \in [Clients -> Replies \cup {NONE}]
    /\ ret \in [Clients -> Int]

Busy(c) == pc[c] \notin {"idle", "threw"}

\* The calls that send a second command.
Waits(c) == call[c] \in WriteCalls /\ Slaves > 0

\* A call that sends commands is not a Scan, and reaches the code about WAIT
\* only when there are replicas to wait for.
CallInv ==
    \A c \in Clients : Busy(c) =>
        /\ call[c] # "Scan"
        /\ pc[c] = "appendWait" => Waits(c)
        /\ pc[c] \in {"append", "appendWait"} => awaiting[c] = "command"
        /\ awaiting[c] = "WAIT" => Waits(c)

\* Every reply is that of a command the server has taken.
RepliedInv ==
    /\ \A i \in 1..Len(inbox) : <<inbox[i].cmd.owner, inbox[i].cmd.call>> \in executed
    /\ \A i \in 1..Len(reader) : <<reader[i].cmd.owner, reader[i].cmd.call>> \in executed
    /\ \A c \in Clients : pc[c] = "consume" =>
          /\ reply[c] \in Replies
          /\ <<reply[c].cmd.owner, reply[c].cmd.call>> \in executed

ClosedInv ==
    /\ process = "start" => ~err /\ ~connected
    /\ connected => ~err /\ process \notin {"exit2", "undefined", "sigpipe"}

\* How many commands the call of c sends, and how many replies it has taken.
Sends(c) == IF Waits(c) THEN 2 ELSE 1
Taken(c) == (IF awaiting[c] = "WAIT" THEN 1 ELSE 0) + (IF pc[c] = "consume" THEN 1 ELSE 0)

\* cmd is the n-th command of the call of c.
IsCommand(cmd, c, n) ==
    /\ n <= Sends(c)
    /\ cmd.owner = c /\ cmd.call = calls[c]
    /\ (cmd.name = "WAIT") <=> (n = 2)

QueueInv(c) ==
    /\ process \in {"start", "running"} /\ ~err =>
        /\ \A i \in 1..Len(reader) : IsCommand(reader[i].cmd, c, Taken(c) + i)
        /\ \A i \in 1..Len(inbox) : IsCommand(inbox[i].cmd, c, Taken(c) + Len(reader) + i)
        /\ \A i \in 1..Len(socket) :
              IsCommand(socket[i], c, Taken(c) + Len(reader) + Len(inbox) + i)
        /\ \A i \in 1..Len(obuf) : IsCommand(obuf[i], c, i)
        /\ Len(obuf) > 0 =>
              /\ pc[c] \in {"appendWait", "reader", "write"} /\ awaiting[c] = "command"
              /\ Len(reader) = 0 /\ Len(inbox) = 0 /\ Len(socket) = 0
        /\ ~Busy(c) \/ pc[c] = "append" =>
              Len(obuf) = 0 /\ Len(reader) = 0 /\ Len(inbox) = 0 /\ Len(socket) = 0
        /\ pc[c] = "appendWait" => Len(obuf) = 1
        /\ pc[c] \in {"write", "read"} => Len(reader) = 0
    /\ err => Len(reader) = 0
    /\ pc[c] = "consume" => IsCommand(reply[c].cmd, c, Taken(c))

BaseInv == TypeInv /\ CallInv

-----------------------------------------------------------------------------
\* A command of a client is one.
LEMMA CommandType ==
    ASSUME TypeInv, NEW c \in Clients, NEW name \in Names
    PROVE  Command(c, name) \in Commands
  BY DEF TypeInv, Command, Commands

-----------------------------------------------------------------------------
\* The start state has the types, and no call is in progress.
LEMMA BaseInit == Init => BaseInv
  <1> SUFFICES ASSUME Init PROVE BaseInv
    OBVIOUS
  <1>1. TypeInv
    <2>1. <<>> \in Seq(Commands) /\ <<>> \in Seq(Replies)
      BY EmptySeq
    <2>2. pc \in [Clients -> Places] /\ call \in [Clients -> CallNames]
      BY DEF Init, Places, CallNames
    <2>3. calls \in [Clients -> Nat] /\ ret \in [Clients -> Int]
      BY DEF Init, kOK
    <2>4. awaiting \in [Clients -> {"command", "WAIT"}] /\ reply \in [Clients -> Replies \cup {NONE}]
      BY DEF Init
    <2>5. process \in {"start", "running"} \cup Ends /\ err \in BOOLEAN /\ connected \in BOOLEAN
      BY DEF Init
    <2> QED
      BY <2>1, <2>2, <2>3, <2>4, <2>5 DEF Init, TypeInv
  <1>2. CallInv
    BY DEF Init, CallInv, Busy
  <1> QED
    BY <1>1, <1>2 DEF BaseInv

\* What a read of n replies from the socket adds to the reader, and leaves.
Fed(n) == reader \o SubSeq(inbox, 1, n)
Left(n) == SubSeq(inbox, n + 1, Len(inbox))

LEMMA FedProperties ==
    ASSUME TypeInv, NEW n \in 1..Len(inbox)
    PROVE  /\ Len(inbox) \in Nat /\ Len(reader) \in Nat
           /\ Fed(n) \in Seq(Replies) /\ Len(Fed(n)) = Len(reader) + n
           /\ \A i \in 1..Len(reader) : Fed(n)[i] = reader[i]
           /\ \A i \in 1..n : Fed(n)[Len(reader) + i] = inbox[i]
           /\ Head(Fed(n)) = Fed(n)[1] /\ Head(Fed(n)) \in Replies
           /\ Tail(Fed(n)) \in Seq(Replies) /\ Len(Tail(Fed(n))) = Len(reader) + n - 1
           /\ \A i \in 1..Len(Tail(Fed(n))) : Tail(Fed(n))[i] = Fed(n)[i + 1]
           /\ Left(n) \in Seq(Replies) /\ Len(Left(n)) = Len(inbox) - n
           /\ \A i \in 1..Len(Left(n)) : Left(n)[i] = inbox[n + i]
  <1> DEFINE read == SubSeq(inbox, 1, n)
  <1>1. inbox \in Seq(Replies) /\ reader \in Seq(Replies)
    BY DEF TypeInv
  <1>2. Len(inbox) \in Nat /\ Len(reader) \in Nat
    BY <1>1, QueueOperators
  <1>3. /\ read \in Seq(Replies) /\ Len(read) = n
        /\ \A i \in 1..Len(read) : read[i] = inbox[i]
    BY <1>1, <1>2, QueueOperators
  <1>4. /\ Left(n) \in Seq(Replies) /\ Len(Left(n)) = Len(inbox) - n
        /\ \A i \in 1..Len(Left(n)) : Left(n)[i] = inbox[n + i]
    <2>1. n + 1 \in Nat /\ n + 1 >= 1 /\ Len(inbox) <= Len(inbox)
      BY <1>2
    <2>2. /\ Left(n) \in Seq(Replies)
          /\ Len(Left(n)) = IF n + 1 <= Len(inbox) THEN Len(inbox) - (n + 1) + 1 ELSE 0
          /\ \A i \in 1..Len(Left(n)) : Left(n)[i] = inbox[(n + 1) + i - 1]
      BY <1>1, <1>2, <2>1, QueueOperators DEF Left
    <2>3. Len(Left(n)) = Len(inbox) - n
      BY <1>2, <2>2
    <2>4. \A i \in 1..Len(Left(n)) : Left(n)[i] = inbox[n + i]
      BY <1>2, <2>2, <2>3
    <2> QED
      BY <2>2, <2>3, <2>4
  <1> HIDE DEF read
  <1>5. /\ Fed(n) \in Seq(Replies) /\ Len(Fed(n)) = Len(reader) + n
        /\ \A i \in 1..Len(reader) : Fed(n)[i] = reader[i]
        /\ \A i \in 1..n : Fed(n)[Len(reader) + i] = inbox[i]
    <2>1. Fed(n) = reader \o read
      BY DEF Fed, read
    <2>2. /\ Fed(n) \in Seq(Replies) /\ Len(Fed(n)) = Len(reader) + Len(read)
          /\ \A i \in 1..Len(reader) : Fed(n)[i] = reader[i]
          /\ \A i \in 1..Len(read) : Fed(n)[Len(reader) + i] = read[i]
      <3>1. \A t \in Seq(Replies) :
               /\ reader \o t \in Seq(Replies) /\ Len(reader \o t) = Len(reader) + Len(t)
               /\ \A i \in 1..Len(reader) : (reader \o t)[i] = reader[i]
               /\ \A i \in 1..Len(t) : (reader \o t)[Len(reader) + i] = t[i]
        BY <1>1, QueueOperators
      <3>2. /\ reader \o read \in Seq(Replies) /\ Len(reader \o read) = Len(reader) + Len(read)
            /\ \A i \in 1..Len(reader) : (reader \o read)[i] = reader[i]
            /\ \A i \in 1..Len(read) : (reader \o read)[Len(reader) + i] = read[i]
        BY <1>3, <3>1
      <3> QED
        BY <2>1, <3>2
    <2> QED
      BY <1>3, <2>2
  <1>6. Fed(n) # <<>>
    <2>1. Len(Fed(n)) # 0
      BY <1>2, <1>5
    <2> QED
      BY <1>5, <2>1, EmptySeq
  <1>7. /\ Head(Fed(n)) = Fed(n)[1] /\ Head(Fed(n)) \in Replies
        /\ Tail(Fed(n)) \in Seq(Replies) /\ Len(Tail(Fed(n))) = Len(Fed(n)) - 1
        /\ \A i \in 1..Len(Tail(Fed(n))) : Tail(Fed(n))[i] = Fed(n)[i + 1]
    BY <1>5, <1>6, QueueOperators
  <1>8. Len(Tail(Fed(n))) = Len(reader) + n - 1
    BY <1>5, <1>7
  <1> QED
    BY <1>2, <1>4, <1>5, <1>7, <1>8, Zenon

\* A read fails, or hands over the first of the replies now in the reader.
LEMMA ReadCases ==
    ASSUME NEW c \in Clients, BufferRead(c)
    PROVE  \/ /\ err \/ (inbox = <<>> /\ ~connected)
              /\ Fail(c) /\ err' = TRUE
              /\ UNCHANGED <<inbox, reader, reply>>
           \/ /\ ~err /\ inbox # <<>>
              /\ \E n \in 1..Len(inbox) : /\ Receive(c, Head(Fed(n)))
                                          /\ reader' = Tail(Fed(n))
                                          /\ inbox' = Left(n)
              /\ UNCHANGED <<process, err, ret>>
  BY DEF BufferRead, EndOfFile, Fed, Left

\* A call whose redisGetReply fails returns, or the process ends.
LEMMA FailType ==
    ASSUME TypeInv, NEW c \in Clients, Fail(c)
    PROVE  /\ process' \in {process, "exit2", "undefined"}
           /\ pc' \in [Clients -> Places] /\ ret' \in [Clients -> Int]
           /\ \/ call[c] = "Read" /\ pc' = [pc EXCEPT ![c] = "idle"] /\ process' = process
              \/ call[c] # "Read" /\ pc' = pc /\ ret' = ret /\ process' \in {"exit2", "undefined"}
  <1>1. CASE call[c] = "Read"
    <2>1. /\ pc' = [pc EXCEPT ![c] = "idle"] /\ ret' = [ret EXCEPT ![c] = kOK]
          /\ process' = process
      BY <1>1 DEF Fail, Return, GoTo, ReadFailed
    <2>2. pc' \in [Clients -> Places] /\ ret' \in [Clients -> Int]
      BY <2>1 DEF TypeInv, Places, kOK
    <2> QED
      BY <1>1, <2>1, <2>2
  <1>2. CASE call[c] # "Read"
    <2>1. pc' = pc /\ ret' = ret
      BY <1>2 DEF Fail, HandleError
    <2>2. process' \in {"exit2", "undefined"}
      BY <1>2 DEF Fail, HandleError
    <2> QED
      BY <1>2, <2>1, <2>2 DEF TypeInv
  <1> QED
    BY <1>1, <1>2

\* A client's step keeps the types.
LEMMA TypeClient == ASSUME BaseInv, NEW c \in Clients, Client(c) PROVE TypeInv'
  <1> USE DEF BaseInv, TypeInv, At, GoTo, contextVars, serverVars, Return, kOK, Places, Ends
  <1>1. CASE Begin(c)
    BY <1>1, CallsAssumption DEF Begin
  <1>2. CASE AppendCommand(c)
    <2>1. call[c] \in CallNames \ {"Scan"}
      BY <1>2 DEF AppendCommand, CallInv, Busy
    <2>2. PICK name \in CommandNames(call[c]) : obuf' = obuf \o Appended(Command(c, name))
      BY <1>2 DEF AppendCommand
    <2>3. name \in Names
      BY <2>1, <2>2 DEF CommandNames, CallNames, Names
    <2>4. <<Command(c, name)>> \in Seq(Commands)
      BY <2>3, CommandType
    <2>5. obuf' \in Seq(Commands)
      BY <2>2, <2>4, QueueOperators DEF Appended
    <2> QED
      BY <1>2, <2>5 DEF AppendCommand
  <1>3. CASE AppendWait(c)
    <2>1. obuf' \in Seq(Commands)
      BY <1>3, CommandType, QueueOperators DEF AppendWait, Names
    <2> QED
      BY <1>3, <2>1 DEF AppendWait
  <1>4. CASE TryReader(c)
    <2>1. CASE reader = <<>>
      BY <1>4, <2>1 DEF TryReader
    <2>2. CASE reader # <<>>
      <3>1. Head(reader) \in Replies /\ Tail(reader) \in Seq(Replies)
        BY <2>2, QueueOperators
      <3> QED
        BY <1>4, <2>2, <3>1 DEF TryReader, Receive
    <2> QED
      BY <2>1, <2>2
  <1>5. CASE BufferWrite(c)
    <2>1. socket \o obuf \in Seq(Commands) /\ <<>> \in Seq(Commands)
      BY QueueOperators
    <2>2. socket' \in Seq(Commands) /\ obuf' \in Seq(Commands) /\ err' \in BOOLEAN
      BY <1>5, <2>1 DEF BufferWrite, Sent
    <2>3. process' \in {"start", "running"} \cup Ends /\ pc' \in [Clients -> Places] /\ ret' \in [Clients -> Int]
      <3>1. CASE Fail(c)
        BY <3>1, FailType
      <3>2. CASE ~Fail(c)
        BY <1>5, <3>2 DEF BufferWrite
      <3> QED
        BY <3>1, <3>2
    <2> QED
      BY <1>5, <2>2, <2>3 DEF BufferWrite
  <1>6. CASE BufferRead(c)
    <2>1. CASE Fail(c) /\ err' = TRUE /\ UNCHANGED <<inbox, reader, reply>>
      BY <1>6, <2>1, FailType DEF BufferRead
    <2>2. ASSUME NEW n \in 1..Len(inbox), Receive(c, Head(Fed(n))),
                 reader' = Tail(Fed(n)), inbox' = Left(n), UNCHANGED <<process, err, ret>>
          PROVE  TypeInv'
      BY <1>6, <2>2, FedProperties DEF BufferRead, Receive
    <2> QED
      BY <1>6, <2>1, <2>2, ReadCases
  <1>7. CASE Consume(c)
    <2>1. pc' \in [Clients -> Places]
      BY <1>7 DEF Consume
    <2>2. ret' \in [Clients -> Int]
      BY <1>7 DEF Consume
    <2>3. awaiting' \in [Clients -> {"command", "WAIT"}]
      BY <1>7 DEF Consume
    <2>4. process' \in {"start", "running"} \cup Ends
      BY <1>7 DEF Consume
    <2> QED
      BY <1>7, <2>1, <2>2, <2>3, <2>4 DEF Consume
  <1> QED
    BY <1>1, <1>2, <1>3, <1>4, <1>5, <1>6, <1>7 DEF Client

\* A step of the server keeps the types.
LEMMA TypeServer == ASSUME BaseInv, Execute \/ Disconnect PROVE TypeInv'
  <1> USE DEF BaseInv, TypeInv, contextVars
  <1>1. CASE Execute
    <2> DEFINE cmd == Head(socket)
    <2>1. cmd \in Commands /\ Tail(socket) \in Seq(Commands)
      BY <1>1, QueueOperators DEF Execute
    <2>2. PICK type \in ReplyTypes(cmd.name) : inbox' = Append(inbox, [cmd |-> cmd, type |-> type])
      BY <1>1 DEF Execute
    <2>3. inbox' \in Seq(Replies)
      <3>1. type \in {"status", "integer", "array", "error"}
        BY <2>1, <2>2 DEF ReplyTypes, Commands, Names
      <3>2. [cmd |-> cmd, type |-> type] \in Replies
        BY <2>1, <3>1 DEF Replies
      <3> QED
        BY <2>2, <3>2, QueueOperators
    <2> QED
      BY <1>1, <2>1, <2>3 DEF Execute
  <1>2. CASE Disconnect
    <2>1. PICK n \in 0..Len(inbox) : inbox' = SubSeq(inbox, 1, n)
      BY <1>2 DEF Disconnect
    <2>2. inbox' \in Seq(Replies) /\ <<>> \in Seq(Commands)
      BY <2>1, QueueOperators
    <2> QED
      BY <1>2, <2>2 DEF Disconnect
  <1> QED
    BY <1>1, <1>2

\* A client's step keeps what is known of its call.
LEMMA CallClient == ASSUME BaseInv, NEW c \in Clients, Client(c) PROVE CallInv'
  <1>1. \A d \in Clients \ {c} :
           /\ pc'[d] = pc[d] /\ call'[d] = call[d] /\ awaiting'[d] = awaiting[d]
    <2> USE DEF BaseInv, TypeInv, GoTo, Return, Receive
    <2>1. CASE Begin(c)
      BY <2>1 DEF Begin
    <2>2. CASE AppendCommand(c) \/ AppendWait(c) \/ TryReader(c)
      BY <2>2 DEF AppendCommand, AppendWait, TryReader
    <2>3. CASE BufferWrite(c)
      BY <2>3, FailType DEF BufferWrite
    <2>4. CASE BufferRead(c)
      BY <2>4, ReadCases, FailType DEF BufferRead
    <2>5. CASE Consume(c)
      BY <2>5 DEF Consume
    <2> QED
      BY <2>1, <2>2, <2>3, <2>4, <2>5 DEF Client
  <1>2. (Busy(c) => /\ call[c] # "Scan"
                    /\ pc[c] = "appendWait" => Waits(c)
                    /\ pc[c] \in {"append", "appendWait"} => awaiting[c] = "command"
                    /\ awaiting[c] = "WAIT" => Waits(c))'
    <2> USE DEF BaseInv, TypeInv, CallInv, Busy, Waits, At, GoTo, Return, Receive
    <2>1. CASE Begin(c)
      BY <2>1 DEF Begin
    <2>2. CASE AppendCommand(c) \/ AppendWait(c) \/ TryReader(c)
      BY <2>2 DEF AppendCommand, AppendWait, TryReader
    <2>3. CASE BufferWrite(c)
      BY <2>3, FailType DEF BufferWrite
    <2>4. CASE BufferRead(c)
      BY <2>4, ReadCases, FailType DEF BufferRead
    <2>5. CASE Consume(c)
      BY <2>5 DEF Consume, WaitPending, CallNames, WriteCalls
    <2> QED
      BY <2>1, <2>2, <2>3, <2>4, <2>5 DEF Client
  <1> QED
    BY <1>1, <1>2 DEF BaseInv, CallInv, Busy, Waits

LEMMA BaseStep == ASSUME BaseInv, Next PROVE BaseInv'
  <1>1. CASE Connect
    <2>1. TypeInv'
      BY <1>1 DEF Connect, BaseInv, TypeInv, Ends
    <2>2. CallInv'
      BY <1>1 DEF Connect, BaseInv, CallInv, Busy, Waits
    <2> QED
      BY <2>1, <2>2 DEF BaseInv
  <1>2. ASSUME NEW c \in Clients, Client(c) PROVE BaseInv'
    BY <1>2, TypeClient, CallClient DEF BaseInv
  <1>3. CASE Execute \/ Disconnect
    <2>1. CallInv'
      BY <1>3 DEF Execute, Disconnect, BaseInv, CallInv, Busy, Waits
    <2> QED
      BY <1>3, <2>1, TypeServer DEF BaseInv
  <1>4. CASE Stopped
    BY <1>4 DEF Stopped, vars, BaseInv, TypeInv, CallInv, Busy, Waits
  <1> QED
    BY <1>1, <1>2, <1>3, <1>4 DEF Next

-----------------------------------------------------------------------------
\* redisGetReply fails, and a thread ends the process over it, only on a
\* connection that the server has closed.
LEMMA ClosedStep == ASSUME BaseInv, ClosedInv, Next PROVE ClosedInv'
  <1> USE DEF ClosedInv
  <1>1. CASE Connect
    BY <1>1 DEF Connect
  <1>2. ASSUME NEW c \in Clients, Client(c) PROVE ClosedInv'
    <2> USE DEF At, GoTo, Return, Receive, contextVars, serverVars
    <2>1. CASE Begin(c)
      BY <2>1 DEF Begin
    <2>2. CASE AppendCommand(c) \/ AppendWait(c) \/ TryReader(c)
      BY <2>2 DEF AppendCommand, AppendWait, TryReader
    <2>3. CASE BufferWrite(c)
      <3>1. process = "running" /\ connected' = connected
        BY <2>3 DEF BufferWrite
      <3>2. CASE connected
        BY <2>3, <3>1, <3>2 DEF BufferWrite
      <3>3. CASE ~connected
        <4>1. process' \in {process, "exit2", "undefined", "sigpipe"}
          BY <2>3, FailType DEF BufferWrite, BaseInv
        <4> QED
          BY <3>1, <3>3, <4>1
      <3> QED
        BY <3>2, <3>3
    <2>4. CASE BufferRead(c)
      <3>1. process = "running" /\ connected' = connected
        BY <2>4 DEF BufferRead
      <3>2. CASE (err \/ (inbox = <<>> /\ ~connected)) /\ Fail(c)
        <4>1. ~connected
          BY <3>2
        <4>2. process' \in {process, "exit2", "undefined"}
          BY <3>2, FailType DEF BaseInv
        <4> QED
          BY <3>1, <4>1, <4>2
      <3>3. CASE UNCHANGED <<process, err, ret>>
        BY <3>1, <3>3
      <3> QED
        BY <2>4, <3>2, <3>3, ReadCases
    <2>5. CASE Consume(c)
      BY <2>5 DEF Consume
    <2> QED
      BY <1>2, <2>1, <2>2, <2>3, <2>4, <2>5 DEF Client
  <1>3. CASE Execute \/ Disconnect
    BY <1>3 DEF Execute, Disconnect, contextVars
  <1>4. CASE Stopped
    BY <1>4 DEF Stopped, vars
  <1> QED
    BY <1>1, <1>2, <1>3, <1>4 DEF Next

\* Replies are made by Execute alone, and it records the call.
LEMMA RepliedStep == ASSUME BaseInv, RepliedInv, Next PROVE RepliedInv'
  <1> USE DEF RepliedInv
  <1>1. CASE Connect
    BY <1>1 DEF Connect
  <1>2. ASSUME NEW c \in Clients, Client(c) PROVE RepliedInv'
    <2> USE DEF At, GoTo, Return, contextVars, serverVars
    <2>1. CASE Begin(c)
      BY <2>1 DEF Begin, BaseInv, TypeInv
    <2>2. CASE AppendCommand(c) \/ AppendWait(c)
      BY <2>2 DEF AppendCommand, AppendWait, BaseInv, TypeInv
    <2>3. CASE TryReader(c)
      <3>1. CASE reader = <<>>
        BY <2>3, <3>1 DEF TryReader, BaseInv, TypeInv
      <3>2. CASE reader # <<>>
        <4>1. /\ Len(reader) \in Nat /\ Len(reader) # 0 /\ Head(reader) = reader[1] /\ Head(reader) \in Replies
              /\ Len(Tail(reader)) = Len(reader) - 1
              /\ \A i \in 1..Len(Tail(reader)) : Tail(reader)[i] = reader[i + 1]
          BY <3>2, QueueOperators DEF BaseInv, TypeInv
        <4>2. /\ reply' = [reply EXCEPT ![c] = Head(reader)] /\ pc' = [pc EXCEPT ![c] = "consume"]
              /\ reader' = Tail(reader) /\ UNCHANGED <<inbox, executed>>
          BY <2>3, <3>2 DEF TryReader, Receive
        <4>3. <<reader[1].cmd.owner, reader[1].cmd.call>> \in executed
          BY <4>1
        <4>4. \A i \in 1..Len(reader') : <<reader'[i].cmd.owner, reader'[i].cmd.call>> \in executed'
          BY <4>1, <4>2
        <4> QED
          BY <4>1, <4>2, <4>3, <4>4 DEF BaseInv, TypeInv
      <3> QED
        BY <3>1, <3>2
    <2>4. CASE BufferWrite(c)
      <3>1. pc' = pc \/ pc' = [pc EXCEPT ![c] = "read"] \/ pc' = [pc EXCEPT ![c] = "idle"]
        BY <2>4, FailType DEF BufferWrite, BaseInv
      <3> QED
        BY <2>4, <3>1 DEF BufferWrite, BaseInv, TypeInv
    <2>5. CASE BufferRead(c)
      <3>1. executed' = executed
        BY <2>5 DEF BufferRead
      <3>2. CASE Fail(c) /\ UNCHANGED <<inbox, reader, reply>>
        <4>1. pc' = pc \/ pc' = [pc EXCEPT ![c] = "idle"]
          BY <3>2, FailType DEF BaseInv
        <4> QED
          BY <3>1, <3>2, <4>1 DEF BaseInv, TypeInv
      <3>3. ASSUME NEW n \in 1..Len(inbox), Receive(c, Head(Fed(n))), reader' = Tail(Fed(n)),
                   inbox' = Left(n)
            PROVE  RepliedInv'
        <4>1. \A i \in 1..Len(Fed(n)) : <<Fed(n)[i].cmd.owner, Fed(n)[i].cmd.call>> \in executed
          <5> SUFFICES ASSUME NEW i \in 1..Len(Fed(n))
                       PROVE  <<Fed(n)[i].cmd.owner, Fed(n)[i].cmd.call>> \in executed
            OBVIOUS
          <5>1. CASE i \in 1..Len(reader)
            BY <5>1, FedProperties DEF BaseInv
          <5>2. CASE i \notin 1..Len(reader)
            <6> DEFINE j == i - Len(reader)
            <6>1. j \in 1..n /\ i = Len(reader) + j /\ j \in 1..Len(inbox)
              BY <5>2, FedProperties DEF BaseInv
            <6>2. Fed(n)[i] = inbox[j]
              BY <6>1, FedProperties DEF BaseInv
            <6> QED
              BY <6>1, <6>2
          <5> QED
            BY <5>1, <5>2
        <4>2. /\ <<Head(Fed(n)).cmd.owner, Head(Fed(n)).cmd.call>> \in executed
              /\ Head(Fed(n)) \in Replies
          <5>1. 1 \in 1..Len(Fed(n))
            BY FedProperties DEF BaseInv
          <5> QED
            BY <4>1, <5>1, FedProperties DEF BaseInv
        <4>3. \A i \in 1..Len(reader') : <<reader'[i].cmd.owner, reader'[i].cmd.call>> \in executed
          <5>1. Len(Tail(Fed(n))) = Len(Fed(n)) - 1 /\ Len(Fed(n)) \in Nat
            BY FedProperties DEF BaseInv
          <5> QED
            BY <3>3, <4>1, <5>1, FedProperties DEF BaseInv
        <4>4. \A i \in 1..Len(inbox') : <<inbox'[i].cmd.owner, inbox'[i].cmd.call>> \in executed
          <5>1. ASSUME NEW i \in 1..Len(Left(n))
                PROVE  n + i \in 1..Len(inbox) /\ Left(n)[i] = inbox[n + i]
            BY FedProperties DEF BaseInv
          <5> QED
            BY <3>1, <3>3, <5>1
        <4> QED
          BY <3>1, <3>3, <4>2, <4>3, <4>4 DEF Receive, BaseInv, TypeInv
      <3> QED
        BY <2>5, <3>2, <3>3, ReadCases
    <2>6. CASE Consume(c)
      BY <2>6 DEF Consume, BaseInv, TypeInv
    <2> QED
      BY <1>2, <2>1, <2>2, <2>3, <2>4, <2>5, <2>6 DEF Client
  <1>3. CASE Execute
    <2> DEFINE cmd == Head(socket)
    <2>1. cmd \in Commands /\ inbox \in Seq(Replies)
      BY <1>3, QueueOperators DEF Execute, BaseInv, TypeInv
    <2>2. PICK type \in ReplyTypes(cmd.name) : inbox' = Append(inbox, [cmd |-> cmd, type |-> type])
      BY <1>3 DEF Execute
    <2>3. [cmd |-> cmd, type |-> type] \in Replies
      BY <2>1, <2>2 DEF ReplyTypes, Commands, Names, Replies
    <2>4. executed' = executed \cup {<<cmd.owner, cmd.call>>}
      BY <1>3 DEF Execute
    <2>5. /\ Len(inbox) \in Nat /\ Len(inbox') = Len(inbox) + 1
          /\ \A i \in 1..Len(inbox) : inbox'[i] = inbox[i]
          /\ inbox'[Len(inbox) + 1] = [cmd |-> cmd, type |-> type]
      BY <2>1, <2>2, <2>3, QueueOperators
    <2>6. \A i \in 1..Len(inbox') : <<inbox'[i].cmd.owner, inbox'[i].cmd.call>> \in executed'
      BY <2>4, <2>5
    <2> QED
      BY <1>3, <2>4, <2>6 DEF Execute, contextVars
  <1>4. CASE Disconnect
    <2>1. PICK n \in 0..Len(inbox) : inbox' = SubSeq(inbox, 1, n)
      BY <1>4 DEF Disconnect
    <2>2. Len(inbox) \in Nat
      BY QueueOperators DEF BaseInv, TypeInv
    <2>3. Len(inbox') = n /\ \A i \in 1..n : inbox'[i] = inbox[i]
      BY <2>1, <2>2, QueueOperators DEF BaseInv, TypeInv
    <2> QED
      BY <1>4, <2>2, <2>3 DEF Disconnect, contextVars
  <1>5. CASE Stopped
    BY <1>5 DEF Stopped, vars
  <1> QED
    BY <1>1, <1>2, <1>3, <1>4, <1>5 DEF Next

-----------------------------------------------------------------------------
\* From here on a single thread uses the connection.
\*
\* The thread hands over to the server what it has appended, in order.
LEMMA QueueWrite ==
    ASSUME NEW c, Clients = {c}, BaseInv, QueueInv(c), BufferWrite(c)
    PROVE  QueueInv(c)'
  <1> USE DEF At, GoTo
  <1>1. /\ pc[c] = "write" /\ process = "running"
        /\ UNCHANGED <<reader, inbox, calls, call, awaiting>>
    BY DEF BufferWrite
  <1>2. /\ obuf \in Seq(Commands) /\ socket \in Seq(Commands)
        /\ Len(obuf) \in Nat /\ Len(socket) \in Nat /\ Len(inbox) \in Nat /\ Len(reader) \in Nat
    BY QueueOperators DEF BaseInv, TypeInv
  <1>3. Len(reader) = 0
    BY <1>1 DEF QueueInv
  <1>a. pc'[c] # "consume"
    <2>1. pc' = pc \/ pc' = [pc EXCEPT ![c] = "idle"] \/ pc' = [pc EXCEPT ![c] = "read"]
      BY FailType DEF BufferWrite, BaseInv
    <2> QED
      BY <1>1, <2>1 DEF BaseInv, TypeInv
  <1>4. CASE err'
    BY <1>1, <1>3, <1>4, <1>a DEF QueueInv
  <1>5. CASE ~err' /\ process' # "running"
    <2>1. process' \notin {"start", "running"}
      BY <1>1, <1>5, FailType DEF BufferWrite, BaseInv
    <2> QED
      BY <1>1, <1>3, <1>5, <1>a, <2>1 DEF QueueInv
  <1>6. CASE ~err' /\ process' = "running"
    <2>1. ~err
      BY <1>6, FailType DEF BufferWrite
    <2>2. pc' = [pc EXCEPT ![c] = "read"] /\ obuf' = <<>>
      BY <1>1, <1>6, <2>1 DEF BufferWrite
    <2>3. pc'[c] = "read" /\ Len(obuf') = 0
      BY <2>2 DEF BaseInv, TypeInv
    <2>4. \A i \in 1..Len(socket') : IsCommand(socket'[i], c, Taken(c) + Len(reader) + Len(inbox) + i)
      <3>1. CASE socket' = socket
        BY <1>1, <2>1, <3>1 DEF QueueInv
      <3>2. CASE socket' = socket \o obuf /\ Len(obuf) = 0
        <4>1. socket' = socket
          BY <1>2, <3>2, ConcatEmptySeq, EmptySeq
        <4> QED
          BY <3>1, <4>1
      <3>3. CASE socket' = socket \o obuf /\ Len(obuf) > 0
        <4>1. Len(socket) = 0 /\ Len(inbox) = 0 /\ awaiting[c] = "command"
          BY <1>1, <2>1, <3>3 DEF QueueInv
        <4>2. Taken(c) = 0
          BY <1>1, <4>1 DEF Taken
        <4>3. Len(socket') = Len(obuf) /\ \A i \in 1..Len(obuf) : socket'[i] = obuf[i]
          <5>1. socket = <<>>
            BY <1>2, <4>1, EmptySeq
          <5> QED
            BY <1>2, <3>3, <5>1, ConcatEmptySeq
        <4>4. \A i \in 1..Len(obuf) : IsCommand(obuf[i], c, i)
          BY <1>1, <2>1 DEF QueueInv
        <4> QED
          BY <1>2, <1>3, <4>1, <4>2, <4>3, <4>4
      <3> QED
        BY <1>1, <1>2, <1>6, <2>1, <3>1, <3>2, <3>3 DEF BufferWrite, Sent
    <2>5. Taken(c)' = Taken(c) /\ Sends(c)' = Sends(c)
      BY <1>1, <2>3 DEF Taken, Sends, Waits
    <2>6. \A x, n : IsCommand(x, c, n) => IsCommand(x, c, n)'
      BY <1>1, <2>5 DEF IsCommand
    <2> QED
      BY <1>1, <1>3, <2>1, <2>3, <2>4, <2>5, <2>6 DEF QueueInv, Busy
  <1> QED
    BY <1>4, <1>5, <1>6 DEF BaseInv, TypeInv

\* The thread reads replies from the socket and takes the first: it is the reply
\* to the command that it waits for.
LEMMA QueueRead ==
    ASSUME NEW c, Clients = {c}, BaseInv, QueueInv(c), BufferRead(c)
    PROVE  QueueInv(c)'
  <1>1. /\ pc[c] = "read" /\ process = "running"
        /\ UNCHANGED <<obuf, socket, calls, call, awaiting>>
    BY DEF BufferRead, At
  <1>2. /\ Len(obuf) \in Nat /\ Len(socket) \in Nat /\ Len(inbox) \in Nat /\ Len(reader) \in Nat
    BY QueueOperators DEF BaseInv, TypeInv
  <1>3. Len(reader) = 0
    BY <1>1 DEF QueueInv
  <1>4. CASE Fail(c) /\ err' = TRUE /\ UNCHANGED <<inbox, reader, reply>>
    <2>1. pc'[c] # "consume"
      BY <1>1, <1>4, FailType DEF BaseInv, TypeInv
    <2> QED
      BY <1>3, <1>4, <2>1 DEF QueueInv
  <1>5. ASSUME ~err, NEW n \in 1..Len(inbox), Receive(c, Head(Fed(n))), reader' = Tail(Fed(n)),
               inbox' = Left(n), UNCHANGED <<process, err, ret>>
        PROVE  QueueInv(c)'
    <2>1. pc'[c] = "consume" /\ reply'[c] = Head(Fed(n))
      BY <1>5 DEF Receive, GoTo, BaseInv, TypeInv
    <2>2. Taken(c)' = Taken(c) + 1 /\ Sends(c)' = Sends(c) /\ Taken(c) \in {0, 1}
      BY <1>1, <2>1 DEF Taken, Sends, Waits
    <2>3. \A x, m : IsCommand(x, c, m) => IsCommand(x, c, m)'
      BY <1>1, <2>2 DEF IsCommand
    <2>4. \A i \in 1..Len(inbox) : IsCommand(inbox[i].cmd, c, Taken(c) + i)
      BY <1>1, <1>2, <1>3, <1>5, <2>2 DEF QueueInv
    <2>5. IsCommand(reply'[c].cmd, c, Taken(c)')
      <3>1. Fed(n)[1] = inbox[1] /\ 1 \in 1..Len(inbox)
        BY <1>2, <1>3, FedProperties DEF BaseInv
      <3> QED
        BY <2>1, <2>2, <2>4, <3>1, FedProperties DEF BaseInv
    <2>6. /\ Len(reader') = n - 1
          /\ \A i \in 1..Len(reader') : IsCommand(reader'[i].cmd, c, Taken(c)' + i)
      <3>1. ASSUME NEW i \in 1..(n - 1)
            PROVE  Tail(Fed(n))[i] = inbox[i + 1] /\ i + 1 \in 1..Len(inbox)
                   /\ Taken(c) + (i + 1) = (Taken(c) + 1) + i
        <4>1. i \in 1..Len(Tail(Fed(n))) /\ i + 1 \in 1..n
          BY <1>3, FedProperties DEF BaseInv
        <4>2. Tail(Fed(n))[i] = Fed(n)[Len(reader) + (i + 1)]
          BY <1>3, <4>1, FedProperties DEF BaseInv
        <4>3. Tail(Fed(n))[i] = inbox[i + 1]
          BY <4>1, <4>2, FedProperties DEF BaseInv
        <4> QED
          BY <1>2, <2>2, <4>1, <4>3
      <3>2. Len(reader') = n - 1
        BY <1>3, <1>5, FedProperties DEF BaseInv
      <3> QED
        BY <1>5, <2>2, <2>4, <3>1, <3>2
    <2>7. /\ Len(inbox') = Len(inbox) - n
          /\ \A i \in 1..Len(inbox') : IsCommand(inbox'[i].cmd, c, Taken(c)' + Len(reader') + i)
      <3>1. ASSUME NEW i \in 1..(Len(inbox) - n)
            PROVE  Left(n)[i] = inbox[n + i] /\ n + i \in 1..Len(inbox)
                   /\ Taken(c) + (n + i) = (Taken(c) + 1) + (n - 1) + i
        <4>1. Len(inbox) \in Nat /\ i \in Nat /\ i >= 1 /\ i <= Len(inbox) - n
              /\ n \in Nat /\ n >= 1 /\ n <= Len(inbox)
          BY <1>2
        <4>2. Left(n)[i] = inbox[n + i]
          BY FedProperties DEF BaseInv
        <4>3. n + i \in 1..Len(inbox)
          BY <4>1
        <4>4. Taken(c) + (n + i) = (Taken(c) + 1) + (n - 1) + i
          BY <2>2, <4>1
        <4> QED
          BY <4>2, <4>3, <4>4
      <3>2. Len(inbox') = Len(inbox) - n
        BY <1>5, FedProperties DEF BaseInv
      <3> QED
        BY <1>5, <2>2, <2>4, <2>6, <3>1, <3>2
    <2>8. \A i \in 1..Len(socket') :
             IsCommand(socket'[i], c, Taken(c)' + Len(reader') + Len(inbox') + i)
      <3>1. \A i \in 1..Len(socket) : IsCommand(socket[i], c, Taken(c) + Len(reader) + Len(inbox) + i)
        BY <1>1, <1>5 DEF QueueInv
      <3>2. Taken(c) + Len(reader) + Len(inbox) = Taken(c)' + Len(reader') + Len(inbox')
        BY <1>2, <1>3, <2>2, <2>6, <2>7
      <3> QED
        BY <1>1, <3>1, <3>2
    <2>9. Len(obuf') = 0
      BY <1>1, <1>2, <1>5 DEF QueueInv
    <2> QED
      BY <1>1, <1>5, <2>1, <2>3, <2>5, <2>6, <2>7, <2>8, <2>9 DEF QueueInv, Busy
  <1> QED
    BY <1>4, <1>5, ReadCases

\* It takes a reply that it had read before, or finds none.
LEMMA QueueTake ==
    ASSUME NEW c, Clients = {c}, BaseInv, QueueInv(c), TryReader(c)
    PROVE  QueueInv(c)'
  <1>1. /\ pc[c] = "reader" /\ process = "running"
        /\ UNCHANGED <<process, obuf, err, inbox, socket, calls, call, awaiting>>
    BY DEF TryReader, At, serverVars
  <1>2. /\ Len(obuf) \in Nat /\ Len(socket) \in Nat /\ Len(inbox) \in Nat /\ Len(reader) \in Nat
    BY QueueOperators DEF BaseInv, TypeInv
  <1>3. Sends(c)' = Sends(c)
    BY <1>1 DEF Sends, Waits
  <1>4. \A x, m : IsCommand(x, c, m) => IsCommand(x, c, m)'
    BY <1>1, <1>3 DEF IsCommand
  <1>5. CASE reader = <<>>
    <2>1. pc'[c] = "write" /\ UNCHANGED <<reader, reply>> /\ Len(reader) = 0
      BY <1>5, EmptySeq DEF TryReader, GoTo, BaseInv, TypeInv
    <2>2. Taken(c)' = Taken(c)
      BY <1>1, <2>1 DEF Taken
    <2> QED
      BY <1>1, <1>4, <2>1, <2>2 DEF QueueInv, Busy
  <1>6. CASE reader # <<>>
    <2>1. pc'[c] = "consume" /\ reply'[c] = Head(reader) /\ reader' = Tail(reader)
      BY <1>6 DEF TryReader, Receive, GoTo, BaseInv, TypeInv
    <2>2. Taken(c)' = Taken(c) + 1 /\ Taken(c) \in {0, 1}
      BY <1>1, <2>1 DEF Taken
    <2>3. /\ Len(reader) > 0 /\ Head(reader) = reader[1] /\ Len(reader') = Len(reader) - 1
          /\ \A i \in 1..Len(reader') : reader'[i] = reader[i + 1]
      <3>1. /\ Head(reader) = reader[1] /\ Len(reader') = Len(reader) - 1
            /\ \A i \in 1..Len(reader') : reader'[i] = reader[i + 1]
        BY <1>6, <2>1, QueueOperators DEF BaseInv, TypeInv
      <3>2. Len(reader) # 0
        BY <1>6, EmptySeq DEF BaseInv, TypeInv
      <3> QED
        BY <1>2, <3>1, <3>2
    <2>4. ~err
      BY <1>2, <2>3 DEF QueueInv
    <2>5. /\ \A i \in 1..Len(reader) : IsCommand(reader[i].cmd, c, Taken(c) + i)
          /\ \A i \in 1..Len(inbox) : IsCommand(inbox[i].cmd, c, Taken(c) + Len(reader) + i)
          /\ \A i \in 1..Len(socket) :
                IsCommand(socket[i], c, Taken(c) + Len(reader) + Len(inbox) + i)
          /\ Len(obuf) = 0
      BY <1>1, <1>2, <2>3, <2>4 DEF QueueInv
    <2>6. IsCommand(reply'[c].cmd, c, Taken(c)')
      BY <1>2, <2>1, <2>2, <2>3, <2>5
    <2>7. \A i \in 1..Len(reader') : IsCommand(reader'[i].cmd, c, Taken(c)' + i)
      <3>1. ASSUME NEW i \in 1..Len(reader')
            PROVE  i + 1 \in 1..Len(reader) /\ Taken(c)' + i = Taken(c) + (i + 1)
        BY <1>2, <2>2, <2>3
      <3> QED
        BY <2>3, <2>5, <3>1
    <2>8. Taken(c)' + Len(reader') = Taken(c) + Len(reader)
      BY <1>2, <2>2, <2>3
    <2>9. \A i \in 1..Len(inbox') : IsCommand(inbox'[i].cmd, c, Taken(c)' + Len(reader') + i)
      BY <1>1, <2>5, <2>8
    <2>10. \A i \in 1..Len(socket') :
              IsCommand(socket'[i], c, Taken(c)' + Len(reader') + Len(inbox') + i)
      BY <1>1, <2>5, <2>8
    <2>11. err' = FALSE /\ Len(obuf') = 0 /\ pc'[c] = "consume" /\ Busy(c)'
      BY <1>1, <2>1, <2>4, <2>5 DEF BaseInv, TypeInv, Busy
    <2>12. /\ (\A i \in 1..Len(reader) : IsCommand(reader[i].cmd, c, Taken(c) + i))'
           /\ (\A i \in 1..Len(inbox) : IsCommand(inbox[i].cmd, c, Taken(c) + Len(reader) + i))'
           /\ (\A i \in 1..Len(socket) :
                   IsCommand(socket[i], c, Taken(c) + Len(reader) + Len(inbox) + i))'
           /\ IsCommand(reply[c].cmd, c, Taken(c))'
      BY <1>4, <2>6, <2>7, <2>9, <2>10
    <2> QED
      BY <2>11, <2>12 DEF QueueInv
  <1> QED
    BY <1>5, <1>6

\* A call begins with an empty queue and appends its commands to it in order.
LEMMA QueueAppend ==
    ASSUME NEW c, Clients = {c}, BaseInv, QueueInv(c),
           Begin(c) \/ AppendCommand(c) \/ AppendWait(c)
    PROVE  QueueInv(c)'
  <1>1. Len(obuf) \in Nat /\ Len(socket) \in Nat /\ Len(inbox) \in Nat /\ Len(reader) \in Nat
    BY QueueOperators DEF BaseInv, TypeInv
  <1>2. process = "running" /\ UNCHANGED <<process, reader, err, inbox, socket>>
    BY DEF Begin, AppendCommand, AppendWait, At, serverVars, contextVars
  <1>3. CASE Begin(c)
    <2>1. pc[c] = "idle" /\ pc'[c] \in {"append", "threw"} /\ UNCHANGED obuf
      BY <1>3 DEF Begin, At, GoTo, contextVars, BaseInv, TypeInv
    <2>2. ~err => Len(obuf) = 0 /\ Len(reader) = 0 /\ Len(inbox) = 0 /\ Len(socket) = 0
      BY <1>2, <2>1 DEF QueueInv, Busy
    <2>3. err => Len(reader) = 0
      BY DEF QueueInv
    <2> QED
      BY <1>2, <2>1, <2>2, <2>3 DEF QueueInv, Busy
  <1>4. CASE AppendCommand(c)
    <2>1. /\ pc[c] = "append" /\ pc'[c] = IF Waits(c) THEN "appendWait" ELSE "reader"
          /\ UNCHANGED <<calls, call, key, awaiting>>
      BY <1>4 DEF AppendCommand, At, GoTo, Waits, BaseInv, TypeInv
    <2>2. awaiting[c] = "command"
      BY <2>1 DEF BaseInv, CallInv, Busy
    <2>3. PICK name \in CommandNames(call[c]) : obuf' = obuf \o <<Command(c, name)>>
      BY <1>4 DEF AppendCommand, Appended
    <2>4. name \in Names \ {"WAIT"}
      <3>1. call[c] \in CallNames \ {"Scan"}
        BY <2>1 DEF BaseInv, TypeInv, CallInv, Busy
      <3> QED
        BY <2>3, <3>1 DEF CommandNames, CallNames, Names
    <2>5. CASE ~err
      <3>1. Len(obuf) = 0 /\ Len(reader) = 0 /\ Len(inbox) = 0 /\ Len(socket) = 0
        BY <1>2, <2>1, <2>5 DEF QueueInv, Busy
      <3>2. obuf' = <<Command(c, name)>>
        <4>1. <<Command(c, name)>> \in Seq(Commands) /\ obuf \in Seq(Commands)
          BY <2>4, CommandType DEF BaseInv, TypeInv
        <4>2. obuf = <<>>
          BY <3>1, <4>1, EmptySeq
        <4> QED
          BY <2>3, <4>1, <4>2, ConcatEmptySeq
      <3>3. Len(obuf') = 1 /\ obuf'[1] = Command(c, name)
        BY <3>2
      <3>4. (\A i \in 1..Len(obuf) : IsCommand(obuf[i], c, i))'
        BY <2>1, <2>4, <3>3 DEF IsCommand, Command, Sends
      <3>5. Len(reader') = 0 /\ Len(inbox') = 0 /\ Len(socket') = 0
        BY <1>2, <3>1
      <3>6. pc'[c] \in {"appendWait", "reader"} /\ awaiting'[c] = "command"
        BY <2>1, <2>2
      <3> QED
        BY <1>2, <2>5, <3>3, <3>4, <3>5, <3>6 DEF QueueInv, Busy
    <2>6. CASE err
      BY <1>2, <2>1, <2>6 DEF QueueInv
    <2> QED
      BY <2>5, <2>6 DEF BaseInv, TypeInv
  <1>5. CASE AppendWait(c)
    <2>1. /\ pc[c] = "appendWait" /\ pc'[c] = "reader"
          /\ UNCHANGED <<calls, call, key, awaiting>>
      BY <1>5 DEF AppendWait, At, GoTo, BaseInv, TypeInv
    <2>2. awaiting[c] = "command" /\ Waits(c)
      BY <2>1 DEF BaseInv, CallInv, Busy
    <2>3. CASE ~err
      <3>1. Len(obuf) = 1 /\ Len(reader) = 0 /\ Len(inbox) = 0 /\ Len(socket) = 0
        <4>1. Len(obuf) = 1
          BY <1>2, <2>1, <2>3 DEF QueueInv
        <4>2. Len(obuf) > 0
          BY <4>1
        <4> QED
          BY <1>2, <2>3, <4>1, <4>2 DEF QueueInv
      <3>2. IsCommand(obuf[1], c, 1)
        BY <1>2, <2>3, <3>1 DEF QueueInv
      <3>3. Len(obuf') = 2 /\ obuf'[1] = obuf[1] /\ obuf'[2] = Command(c, "WAIT")
        <4>1. obuf' = Append(obuf, Command(c, "WAIT")) /\ Command(c, "WAIT") \in Commands
          BY <1>5, CommandType DEF AppendWait, BaseInv, Names
        <4> QED
          BY <3>1, <4>1, QueueOperators DEF BaseInv, TypeInv
      <3>4. IsCommand(obuf[1], c, 1)'
        BY <2>1, <3>2, <3>3 DEF IsCommand, Sends
      <3>5. IsCommand(obuf[2], c, 2)'
        BY <2>1, <2>2, <3>3 DEF IsCommand, Command, Sends, Waits
      <3>6. (\A i \in 1..Len(obuf) : IsCommand(obuf[i], c, i))'
        <4>1. 1..Len(obuf') = {1, 2}
          BY <3>3
        <4> QED
          BY <3>4, <3>5, <4>1
      <3>7. Len(reader') = 0 /\ Len(inbox') = 0 /\ Len(socket') = 0
        BY <1>2, <3>1
      <3>8. pc'[c] = "reader" /\ awaiting'[c] = "command"
        BY <2>1, <2>2
      <3> QED
        BY <1>2, <2>3, <3>6, <3>7, <3>8 DEF QueueInv, Busy
    <2>4. CASE err
      BY <1>2, <2>1, <2>4 DEF QueueInv
    <2> QED
      BY <2>3, <2>4 DEF BaseInv, TypeInv
  <1> QED
    BY <1>3, <1>4, <1>5

\* The call goes on to the reply to WAIT, or it has taken the replies to all its
\* commands and leaves an empty queue.
LEMMA QueueConsume ==
    ASSUME NEW c, Clients = {c}, BaseInv, QueueInv(c), Consume(c)
    PROVE  QueueInv(c)'
  <1>1. /\ pc[c] = "consume" /\ process = "running"
        /\ UNCHANGED <<obuf, reader, err, inbox, socket, calls, call, reply>>
    BY DEF Consume, At, contextVars, serverVars
  <1>2. /\ Len(obuf) \in Nat /\ Len(socket) \in Nat /\ Len(inbox) \in Nat /\ Len(reader) \in Nat
    BY QueueOperators DEF BaseInv, TypeInv
  <1>3. Sends(c)' = Sends(c)
    BY <1>1 DEF Sends, Waits
  <1>4. \A x, m : IsCommand(x, c, m) => IsCommand(x, c, m)'
    BY <1>1, <1>3 DEF IsCommand
  <1>5. call[c] # "Read" <=> call[c] \in WriteCalls
    BY <1>1 DEF BaseInv, TypeInv, CallInv, Busy, CallNames, WriteCalls
  <1>6. CASE process' = "assert"
    BY <1>1, <1>4, <1>6 DEF Consume, QueueInv, Taken
  <1>7. CASE process' = process /\ pc' = [pc EXCEPT ![c] = "reader"] /\ call[c] # "Read"
             /\ WaitPending(c) /\ awaiting' = [awaiting EXCEPT ![c] = "WAIT"]
    <2>1. pc'[c] = "reader" /\ awaiting[c] = "command" /\ awaiting'[c] = "WAIT"
      BY <1>7 DEF WaitPending, BaseInv, TypeInv
    <2>2. Taken(c)' = Taken(c)
      BY <1>1, <2>1 DEF Taken
    <2>3. ~err => Len(obuf) = 0
      BY <1>1, <1>2 DEF QueueInv
    <2> QED
      BY <1>1, <1>4, <1>7, <2>1, <2>2, <2>3 DEF QueueInv, Busy
  <1>8. CASE process' = process /\ pc' = [pc EXCEPT ![c] = "idle"]
             /\ (call[c] = "Read" \/ ~WaitPending(c))
    <2>1. pc'[c] = "idle"
      BY <1>8 DEF BaseInv, TypeInv
    <2>2. Taken(c) = Sends(c)
      <3>1. awaiting[c] = "WAIT" => Waits(c)
        BY <1>1 DEF BaseInv, CallInv, Busy
      <3>2. call[c] = "Read" => ~Waits(c)
        BY <1>5 DEF Waits
      <3>3. ~WaitPending(c) => ~(Slaves > 0) \/ awaiting[c] = "WAIT"
        BY DEF WaitPending, BaseInv, TypeInv
      <3>4. Waits(c) <=> awaiting[c] = "WAIT"
        BY <1>8, <3>1, <3>2, <3>3 DEF Waits
      <3> QED
        BY <1>1, <3>4 DEF Taken, Sends
    <2>3. Sends(c) \in Nat
      BY DEF Sends
    <2>4. CASE ~err
      <3>1. Len(obuf) = 0
        BY <1>1, <1>2, <2>4 DEF QueueInv
      <3>2. Len(reader) = 0
        <4>1. \A i \in 1..Len(reader) : Taken(c) + i <= Sends(c)
          BY <1>1, <2>4 DEF QueueInv, IsCommand
        <4> QED
          BY <1>2, <2>2, <2>3, <4>1
      <3>3. Len(inbox) = 0
        <4>1. \A i \in 1..Len(inbox) : Taken(c) + Len(reader) + i <= Sends(c)
          BY <1>1, <2>4 DEF QueueInv, IsCommand
        <4> QED
          BY <1>2, <2>2, <2>3, <3>2, <4>1
      <3>4. Len(socket) = 0
        <4>1. \A i \in 1..Len(socket) : Taken(c) + Len(reader) + Len(inbox) + i <= Sends(c)
          BY <1>1, <2>4 DEF QueueInv, IsCommand
        <4> QED
          BY <1>2, <2>2, <2>3, <3>2, <3>3, <4>1
      <3> QED
        BY <1>1, <2>1, <2>4, <3>1, <3>2, <3>3, <3>4 DEF QueueInv, Busy
    <2>5. CASE err
      BY <1>1, <2>1, <2>5 DEF QueueInv
    <2> QED
      BY <2>4, <2>5 DEF BaseInv, TypeInv
  <1> QED
    BY <1>6, <1>7, <1>8 DEF Consume, Return, GoTo

\* The server takes the commands in order and answers in order; closing the
\* connection loses commands, and replies from the last one backwards.
LEMMA QueueServer ==
    ASSUME NEW c, Clients = {c}, BaseInv, QueueInv(c), Execute \/ Disconnect
    PROVE  QueueInv(c)'
  <1>1. UNCHANGED <<process, obuf, reader, err, pc, calls, call, awaiting, reply>>
    BY DEF Execute, Disconnect, contextVars
  <1>2. /\ Len(obuf) \in Nat /\ Len(socket) \in Nat /\ Len(inbox) \in Nat /\ Len(reader) \in Nat
    BY QueueOperators DEF BaseInv, TypeInv
  <1>3. Sends(c)' = Sends(c) /\ Taken(c)' = Taken(c) /\ Taken(c) \in Nat
    BY <1>1 DEF Sends, Taken, Waits
  <1>4. \A x, m : IsCommand(x, c, m) => IsCommand(x, c, m)'
    BY <1>1, <1>3 DEF IsCommand
  <1>5. CASE ~(process \in {"start", "running"} /\ ~err)
    BY <1>1, <1>3, <1>4, <1>5 DEF QueueInv
  <1>6. CASE process \in {"start", "running"} /\ ~err /\ Execute
    <2> DEFINE cmd == Head(socket)
    <2>1. socket \in Seq(Commands) /\ socket # <<>> /\ inbox \in Seq(Replies) /\ cmd \in Commands
      BY <1>6, QueueOperators DEF Execute, BaseInv, TypeInv
    <2>2. /\ cmd = socket[1] /\ Len(socket) > 0 /\ Len(socket') = Len(socket) - 1
          /\ \A i \in 1..Len(socket') : socket'[i] = socket[i + 1]
      <3>1. /\ cmd = socket[1] /\ Len(socket') = Len(socket) - 1
            /\ \A i \in 1..Len(socket') : socket'[i] = socket[i + 1]
        BY <1>6, <2>1, QueueOperators DEF Execute
      <3>2. Len(socket) # 0
        BY <2>1, EmptySeq
      <3> QED
        BY <1>2, <3>1, <3>2
    <2>3. PICK type \in ReplyTypes(cmd.name) : inbox' = Append(inbox, [cmd |-> cmd, type |-> type])
      BY <1>6 DEF Execute
    <2>4. [cmd |-> cmd, type |-> type] \in Replies
      BY <2>1, <2>3 DEF ReplyTypes, Commands, Names, Replies
    <2>5. /\ Len(inbox') = Len(inbox) + 1
          /\ \A i \in 1..Len(inbox) : inbox'[i] = inbox[i]
          /\ inbox'[Len(inbox) + 1].cmd = cmd
      <3>1. inbox'[Len(inbox) + 1] = [cmd |-> cmd, type |-> type]
        BY <2>1, <2>3, <2>4, QueueOperators
      <3> QED
        BY <2>1, <2>3, <2>4, <3>1, QueueOperators
    <2>6. \A i \in 1..Len(socket) : IsCommand(socket[i], c, Taken(c) + Len(reader) + Len(inbox) + i)
      BY <1>6 DEF QueueInv
    <2>7. \A i \in 1..Len(inbox') : IsCommand(inbox'[i].cmd, c, Taken(c) + Len(reader) + i)
      <3> SUFFICES ASSUME NEW i \in 1..Len(inbox')
                   PROVE  IsCommand(inbox'[i].cmd, c, Taken(c) + Len(reader) + i)
        OBVIOUS
      <3>1. CASE i \in 1..Len(inbox)
        BY <1>6, <2>5, <3>1 DEF QueueInv
      <3>2. CASE i = Len(inbox) + 1
        <4>1. IsCommand(socket[1], c, Taken(c) + Len(reader) + Len(inbox) + 1)
          BY <1>2, <2>2, <2>6
        <4>2. Taken(c) + Len(reader) + Len(inbox) + 1 = Taken(c) + Len(reader) + i
          BY <1>2, <1>3, <3>2
        <4> QED
          BY <2>2, <2>5, <3>2, <4>1, <4>2
      <3> QED
        BY <1>2, <2>5, <3>1, <3>2
    <2>8. \A i \in 1..Len(socket') :
             IsCommand(socket'[i], c, Taken(c) + Len(reader) + Len(inbox') + i)
      <3>1. ASSUME NEW i \in 1..Len(socket')
            PROVE  /\ i + 1 \in 1..Len(socket)
                   /\ Taken(c) + Len(reader) + Len(inbox') + i = Taken(c) + Len(reader) + Len(inbox) + (i + 1)
        <4>1. i \in Nat /\ i <= Len(socket) - 1
          BY <1>2, <2>2
        <4>2. Len(inbox') = Len(inbox) + 1
          BY <2>5
        <4> QED
          BY <1>2, <1>3, <4>1, <4>2
      <3> QED
        BY <2>2, <2>6, <3>1
    <2>9. Len(obuf) = 0 /\ Busy(c) /\ pc[c] # "append"
      BY <1>2, <1>6, <2>2 DEF QueueInv
    <2> QED
      BY <1>1, <1>2, <1>3, <1>4, <1>6, <2>7, <2>8, <2>9 DEF QueueInv, Busy
  <1>7. CASE process \in {"start", "running"} /\ ~err /\ Disconnect
    <2>1. PICK n \in 0..Len(inbox) : inbox' = SubSeq(inbox, 1, n)
      BY <1>7 DEF Disconnect
    <2>2. Len(inbox') = n /\ \A i \in 1..n : inbox'[i] = inbox[i] /\ i \in 1..Len(inbox)
      BY <1>2, <2>1, QueueOperators DEF BaseInv, TypeInv
    <2>3. Len(socket') = 0
      BY <1>7 DEF Disconnect
    <2>4. Len(inbox) = 0 => Len(inbox') = 0
      BY <2>2
    <2>5. \A i \in 1..Len(inbox') : IsCommand(inbox'[i].cmd, c, Taken(c) + Len(reader) + i)
      BY <1>7, <2>2 DEF QueueInv
    <2> QED
      BY <1>1, <1>3, <1>4, <1>7, <2>3, <2>4, <2>5 DEF QueueInv, Busy
  <1> QED
    BY <1>5, <1>6, <1>7

LEMMA QueueStep ==
    ASSUME NEW c, Clients = {c}, BaseInv, QueueInv(c), Next PROVE QueueInv(c)'
  <1>1. CASE Connect
    <2>1. process = "start" /\ UNCHANGED <<obuf, socket, inbox, reader, err, pc, calls, call, awaiting, reply>>
      BY <1>1 DEF Connect
    <2> QED
      BY <2>1 DEF QueueInv, IsCommand, Taken, Sends, Waits, Busy
  <1>2. ASSUME NEW d \in Clients, Client(d) PROVE QueueInv(c)'
    <2>1. d = c
      OBVIOUS
    <2> QED
      BY <1>2, <2>1, QueueAppend, QueueWrite, QueueRead, QueueTake, QueueConsume DEF Client
  <1>3. CASE Execute \/ Disconnect
    BY <1>3, QueueServer
  <1>4. CASE Stopped
    BY <1>4 DEF Stopped, vars, QueueInv, IsCommand, Taken, Sends, Waits, Busy
  <1> QED
    BY <1>1, <1>2, <1>3, <1>4 DEF Next

\* A write returns kOK when it has taken the reply to its own command.
LEMMA AcknowledgedStep ==
    ASSUME NEW c, Clients = {c}, BaseInv, RepliedInv, QueueInv(c), Acknowledged, Next
    PROVE  Acknowledged'
  <1> USE DEF Acknowledged
  <1>1. CASE Connect
    BY <1>1 DEF Connect
  <1>2. CASE Client(c)
    <2>1. executed' = executed
      BY <1>2 DEF Client, Begin, AppendCommand, AppendWait, TryReader, BufferWrite, BufferRead, Consume,
                  serverVars
    <2>2. CASE Begin(c) \/ AppendCommand(c) \/ AppendWait(c) \/ TryReader(c)
      <3>1. pc'[c] # "idle"
        BY <2>2 DEF Begin, AppendCommand, AppendWait, TryReader, Receive, GoTo, BaseInv, TypeInv
      <3> QED
        BY <3>1
    <2>3. CASE BufferWrite(c) \/ BufferRead(c)
      <3>1. call' = call /\ pc[c] # "idle"
        BY <2>3 DEF BufferWrite, BufferRead, At
      <3>2. pc'[c] = "idle" => call[c] = "Read"
        <4>1. CASE Fail(c)
          BY <3>1, <4>1, FailType DEF BaseInv
        <4>2. CASE BufferWrite(c) /\ ~Fail(c)
          BY <3>1, <4>2 DEF BufferWrite, GoTo, BaseInv, TypeInv
        <4>3. CASE BufferRead(c) /\ ~Fail(c)
          BY <3>1, <4>3, ReadCases DEF Receive, GoTo, BaseInv, TypeInv
        <4> QED
          BY <2>3, <4>1, <4>2, <4>3
      <3> QED
        BY <3>1, <3>2 DEF WriteCalls
    <2>4. CASE Consume(c)
      <3>1. pc[c] = "consume" /\ calls' = calls
        BY <2>4 DEF Consume, At
      <3>2. reply[c].cmd.owner = c /\ reply[c].cmd.call = calls[c]
        BY <3>1 DEF QueueInv, IsCommand
      <3>3. <<c, calls[c]>> \in executed
        BY <3>1, <3>2 DEF RepliedInv
      <3> QED
        BY <2>1, <3>1, <3>3
    <2> QED
      BY <1>2, <2>2, <2>3, <2>4 DEF Client
  <1>3. CASE Execute \/ Disconnect
    BY <1>3 DEF Execute, Disconnect
  <1>4. CASE Stopped
    BY <1>4 DEF Stopped, vars
  <1> QED
    BY <1>1, <1>2, <1>3, <1>4 DEF Next

-----------------------------------------------------------------------------
\* With any number of threads.
LEMMA AnyThreads == Spec => [](BaseInv /\ ClosedInv /\ RepliedInv)
  <1>1. Init => BaseInv /\ ClosedInv /\ RepliedInv
    BY BaseInit DEF Init, ClosedInv, RepliedInv
  <1>2. BaseInv /\ ClosedInv /\ RepliedInv /\ [Next]_vars => (BaseInv /\ ClosedInv /\ RepliedInv)'
    <2> SUFFICES ASSUME BaseInv, ClosedInv, RepliedInv, [Next]_vars
                 PROVE  (BaseInv /\ ClosedInv /\ RepliedInv)'
      OBVIOUS
    <2>1. CASE Next
      BY <2>1, BaseStep, ClosedStep, RepliedStep
    <2>2. CASE UNCHANGED vars
      BY <2>2 DEF vars, BaseInv, TypeInv, CallInv, Busy, Waits, ClosedInv, RepliedInv
    <2> QED
      BY <2>1, <2>2
  <1> QED
    BY <1>1, <1>2, PTL DEF Spec

LEMMA OneThread ==
    ASSUME NEW c, Clients = {c} PROVE Spec => [](QueueInv(c) /\ Acknowledged)
  <1>1. Init => QueueInv(c) /\ Acknowledged
    BY DEF Init, QueueInv, IsCommand, Taken, Busy, Acknowledged
  <1>2. /\ BaseInv /\ RepliedInv /\ QueueInv(c) /\ Acknowledged /\ [Next]_vars
        => (QueueInv(c) /\ Acknowledged)'
    <2> SUFFICES ASSUME BaseInv, RepliedInv, QueueInv(c), Acknowledged, [Next]_vars
                 PROVE  (QueueInv(c) /\ Acknowledged)'
      OBVIOUS
    <2>1. CASE Next
      BY <2>1, QueueStep, AcknowledgedStep
    <2>2. CASE UNCHANGED vars
      BY <2>2 DEF vars, QueueInv, IsCommand, Taken, Sends, Waits, Busy, Acknowledged
    <2> QED
      BY <2>1, <2>2
  <1> QED
    BY <1>1, <1>2, AnyThreads, PTL DEF Spec

\* HandleError's free of a pointer it was not given, and the kOK of a Read that
\* has read nothing, need a server that has closed the connection: with any
\* number of threads, no order of their calls leads there.
THEOREM FailuresAreClosings == Spec => []FailsOnlyWhenClosed
  <1>1. ClosedInv => FailsOnlyWhenClosed
    BY DEF ClosedInv, FailsOnlyWhenClosed
  <1> QED
    BY <1>1, AnyThreads, PTL

\* On one thread, the reply a call takes is the reply to the command it waits
\* for, whatever was answered or lost before.
THEOREM RepliesAreOwn == ASSUME NEW c, Clients = {c} PROVE Spec => []OwnReply
  <1>1. BaseInv /\ QueueInv(c) => OwnReply
    BY DEF QueueInv, IsCommand, Taken, OwnReply, BaseInv, TypeInv
  <1> QED
    BY <1>1, AnyThreads, OneThread, PTL

\* On one thread, a write that returned kOK has reached the server, also when
\* the connection breaks while the write is in flight.
THEOREM WritesAreAcknowledged == ASSUME NEW c, Clients = {c} PROVE Spec => []Acknowledged
  BY OneThread, PTL

-----------------------------------------------------------------------------
(***************************************************************************)
(* The connection.                                                         *)
(***************************************************************************)

Numbers == Nat \ {0}

\* The context and the rest of the process have finitely many descriptors.
FdTypes ==
    /\ mode \in Modes
    /\ own \in SUBSET Numbers /\ IsFiniteSet(own)
    /\ foreign \in SUBSET Numbers /\ IsFiniteSet(foreign)
    /\ fd \in Int
    /\ created \in BOOLEAN

HasSocket == connecting \in {"bind", "connect", "wait", "finish"}

\* Which sockets are open at each place of the code, without SO_REUSEADDR: none
\* before socket(2), the one in fd after it, at most that one between calls.
SocketInv ==
    ~mode.reuse => /\ connecting \in {"start", "resolve", "socket", "null", "crashed", "freed"}
                        => own = {}
                   /\ HasSocket => own = {fd}
                   /\ connecting = "idle" => own \subseteq {fd}

\* Whatever the mode, fd names an open socket while one is being connected, and
\* afterwards when this (re)connect has opened one and fd is not -1.
FdInv ==
    /\ HasSocket => fd \in own
    /\ created /\ fd > 0 /\ connecting # "freed" => fd \in own

ConnInv == FdTypes /\ SocketInv /\ FdInv /\ ErrorReported

\* The number of a new descriptor is positive and not in use.
LEMMA NewFdFree ==
    ASSUME FdTypes PROVE Conn!NewFd \in Numbers /\ Conn!NewFd \notin own \cup foreign
  <1> DEFINE used == own \cup foreign
             candidates == 1..(Cardinality(used) + 1)
             free == candidates \ used
  <1>1. IsFiniteSet(used) /\ Cardinality(used) \in Nat
    BY FS_Union, FS_CardinalityType DEF FdTypes
  <1>2. free # {}
    <2> SUFFICES ASSUME free = {} PROVE FALSE
      OBVIOUS
    <2>1. candidates \in SUBSET used
      OBVIOUS
    <2>2. Cardinality(candidates) <= Cardinality(used)
      BY <1>1, <2>1, FS_Subset
    <2>3. Cardinality(candidates) = Cardinality(used) + 1
      BY <1>1, FS_Interval
    <2> QED
      BY <1>1, <2>2, <2>3
  <1>3. free \in SUBSET Nat
    BY <1>1
  <1>4. \E x \in free : \A y \in free : x <= y
    <2>1. IsFiniteSet(free)
      <3>1. IsFiniteSet(candidates) /\ free \in SUBSET candidates
        BY <1>1, FS_Interval
      <3> QED
        BY <3>1, FS_Subset
    <2> QED
      BY <1>2, <1>3, <2>1, LeastElement
  <1>5. Conn!NewFd \in free
    <2>1. Conn!NewFd = CHOOSE x \in free : \A y \in free : x <= y
      <3>1. Conn!Cardinality(used) = Cardinality(used)
        BY DEF Conn!Cardinality, Cardinality
      <3> QED
        BY <3>1 DEF Conn!NewFd, Conn!Min
    <2> QED
      BY <1>4, <2>1
  <1> QED
    BY <1>1, <1>5 DEF Numbers

\* Closing a descriptor of the context, or of anyone, keeps the types.
LEMMA ClosedTypes ==
    ASSUME FdTypes
    PROVE  /\ own \ {fd} \in SUBSET Numbers /\ IsFiniteSet(own \ {fd})
           /\ foreign \ {fd} \in SUBSET Numbers /\ IsFiniteSet(foreign \ {fd})
  BY FS_RemoveElement DEF FdTypes

\* close(fd) between two calls leaves no socket open.
LEMMA NothingOpen ==
    ASSUME FdTypes, SocketInv, connecting = "idle", ~mode.reuse, Conn!Close
    PROVE  own' = {}
  <1>1. own \subseteq {fd}
    BY DEF SocketInv
  <1>2. CASE fd > 0
    BY <1>1, <1>2 DEF Conn!Close
  <1>3. CASE ~(fd > 0)
    <2>1. fd \notin own
      BY <1>3 DEF FdTypes, Numbers
    <2> QED
      BY <1>1, <1>3, <2>1 DEF Conn!Close
  <1> QED
    BY <1>2, <1>3

LEMMA ConnInit == Conn!Init => ConnInv
  <1> SUFFICES ASSUME Conn!Init PROVE ConnInv
    OBVIOUS
  <1>1. IsFiniteSet({})
    BY FS_EmptySet
  <1>2. FdTypes
    <2>1. own = {} /\ foreign = {}
      BY DEF Conn!Init
    <2>2. own \in SUBSET Numbers /\ IsFiniteSet(own)
      BY <1>1, <2>1
    <2>3. foreign \in SUBSET Numbers /\ IsFiniteSet(foreign)
      BY <1>1, <2>1
    <2>4. mode \in Modes
      BY DEF Conn!Init
    <2>5. fd \in Int
      BY DEF Conn!Init
    <2>6. created \in BOOLEAN
      BY DEF Conn!Init
    <2> QED
      BY <2>2, <2>3, <2>4, <2>5, <2>6 DEF FdTypes
  <1>3. SocketInv /\ FdInv /\ ErrorReported
    BY DEF Conn!Init, SocketInv, FdInv, HasSocket, ErrorReported, Conn!ErrorReported
  <1> QED
    BY <1>2, <1>3 DEF ConnInv

\* Each step of the connection keeps its invariant.
LEMMA ConnStep == ASSUME ConnInv, Conn!Next PROVE ConnInv'
  <1> USE DEF ConnInv, SocketInv, FdInv, HasSocket, ErrorReported, Conn!ErrorReported,
              Conn!Return, Conn!Fail, Conn!CloseFd, Conn!FailClosed
  <1>1. CASE Conn!Start
    BY <1>1, ModesAssumption DEF Conn!Start, Conn!FirstStep, FdTypes
  <1>2. CASE Conn!Resolve
    BY <1>2, ModesAssumption DEF Conn!Resolve, FdTypes
  <1>3. CASE Conn!Socket
    <2>1. own \cup {Conn!NewFd} \in SUBSET Numbers /\ IsFiniteSet(own \cup {Conn!NewFd})
      BY NewFdFree, FS_AddElement DEF FdTypes
    <2>2. Conn!NewFd \in Int
      BY NewFdFree DEF Numbers
    <2>3. FdTypes'
      <3>1. own' = own \/ own' = own \cup {Conn!NewFd}
        BY <1>3 DEF Conn!Socket, Conn!NoAddress
      <3>2. fd' \in {fd, -1, Conn!NewFd}
        BY <1>3 DEF Conn!Socket, Conn!NoAddress
      <3>3. mode' = mode /\ foreign' = foreign /\ created' \in {created, TRUE}
        BY <1>3 DEF Conn!Socket
      <3>4. own' \in SUBSET Numbers /\ IsFiniteSet(own')
        BY <2>1, <3>1 DEF FdTypes
      <3>5. fd' \in Int
        BY <2>2, <3>2 DEF FdTypes
      <3>6. created' \in BOOLEAN
        BY <3>3 DEF FdTypes
      <3>7. mode' \in Modes /\ foreign' \in SUBSET Numbers /\ IsFiniteSet(foreign')
        BY <3>3 DEF FdTypes
      <3> QED
        BY <3>4, <3>5, <3>6, <3>7 DEF FdTypes
    <2>4. SocketInv'
      BY <1>3, ModesAssumption DEF Conn!Socket, Conn!NoAddress, FdTypes
    <2>5. FdInv'
      BY <1>3, ModesAssumption DEF Conn!Socket, Conn!NoAddress, FdTypes
    <2>6. ErrorReported'
      BY <1>3, ModesAssumption DEF Conn!Socket, Conn!NoAddress, FdTypes
    <2> QED
      BY <2>3, <2>4, <2>5, <2>6
  <1>4. CASE Conn!Bind
    BY <1>4, ModesAssumption DEF Conn!Bind, FdTypes
  <1>5. CASE Conn!Connect
    <2>1. CASE Conn!Connected
      BY <1>5, <2>1 DEF Conn!Connect, Conn!Connected, FdTypes
    <2>2. CASE Conn!Unreachable
      BY <1>5, <2>2, ClosedTypes DEF Conn!Connect, Conn!Unreachable, FdTypes
    <2>3. CASE Conn!RetryAddress
      BY <1>5, <2>3 DEF Conn!Connect, Conn!RetryAddress, FdTypes
    <2>4. CASE Conn!InProgress
      BY <1>5, <2>4 DEF Conn!Connect, Conn!InProgress, FdTypes
    <2>5. CASE Conn!FailClosed
      BY <1>5, <2>5, ClosedTypes DEF Conn!Connect, FdTypes
    <2> QED
      BY <1>5, <2>1, <2>2, <2>3, <2>4, <2>5 DEF Conn!Connect
  <1>6. CASE Conn!WaitReady
    BY <1>6, ClosedTypes DEF Conn!WaitReady, Conn!Connected, FdTypes
  <1>7. CASE Conn!Finish
    BY <1>7, ClosedTypes DEF Conn!Finish, FdTypes
  <1>8. CASE Conn!redisReconnect
    <2>1. FdTypes'
      BY <1>8, ClosedTypes DEF Conn!redisReconnect, Conn!Close, FdTypes
    <2>2. ~mode.reuse => own' = {}
      BY <1>8, NothingOpen DEF Conn!redisReconnect
    <2> QED
      BY <1>8, <2>1, <2>2 DEF Conn!redisReconnect, Conn!FirstStep, FdTypes
  <1>9. CASE Conn!redisFree
    <2>1. FdTypes'
      BY <1>9, ClosedTypes DEF Conn!redisFree, Conn!Close, FdTypes
    <2>2. ~mode.reuse => own' = {}
      BY <1>9, NothingOpen DEF Conn!redisFree
    <2> QED
      BY <1>9, <2>1, <2>2 DEF Conn!redisFree, FdTypes
  <1>10. CASE Conn!SetOption
    BY <1>10 DEF Conn!SetOption, FdTypes
  <1>11. CASE Conn!ForeignOpen
    <2>1. foreign \cup {Conn!NewFd} \in SUBSET Numbers /\ IsFiniteSet(foreign \cup {Conn!NewFd})
      BY NewFdFree, FS_AddElement DEF FdTypes
    <2> QED
      BY <1>11, <2>1 DEF Conn!ForeignOpen, FdTypes
  <1> QED
    BY <1>1, <1>2, <1>3, <1>4, <1>5, <1>6, <1>7, <1>8, <1>9, <1>10, <1>11 DEF Conn!Next

LEMMA ConnCorrect == ProcessSpec => []ConnInv
  <1>1. ProcessInit => ConnInv
    BY ConnInit DEF ProcessInit
  <1>2. ConnInv /\ [ProcessNext]_<<vars, connectVars>> => ConnInv'
    <2> SUFFICES ASSUME ConnInv, ProcessNext \/ UNCHANGED <<vars, connectVars>> PROVE ConnInv'
      OBVIOUS
    <2>1. CASE UNCHANGED connectVars
      BY <2>1 DEF connectVars, ConnInv, FdTypes, SocketInv, FdInv, HasSocket, ErrorReported,
                  Conn!ErrorReported
    <2>2. CASE Connecting
      BY <2>2, ConnStep DEF Connecting
    <2> QED
      BY <2>1, <2>2 DEF ProcessNext, Construct, Running, Done
  <1> QED
    BY <1>1, <1>2, PTL DEF ProcessSpec

\* Whatever system calls fail, a context without err is connected by a socket of
\* its own, which is all that the callers of redisConnect look at.
THEOREM ContextsAreConnected == ProcessSpec => []ErrorReported
  BY ConnCorrect, PTL DEF ConnInv

\* Sockets are neither lost nor left open, and fd names one of them, whatever
\* system calls fail and however often the context reconnects.
THEOREM DescriptorsAreOwned == ProcessSpec => []DescriptorsOwned
  <1>1. ConnInv => DescriptorsOwned
    BY DEF ConnInv, SocketInv, FdInv, DescriptorsOwned, Conn!DescriptorsOwned
  <1> QED
    BY <1>1, ConnCorrect, PTL

\* The process takes the steps of a database and those of the connection, which
\* a database does not see.
LEMMA DatabaseOfProcess == ProcessSpec => Spec
  <1>1. ProcessInit => Init
    BY DEF ProcessInit
  <1>2. [ProcessNext]_<<vars, connectVars>> => [Next]_vars
    BY DEF ProcessNext, Connecting, Construct, Running, Done, Next
  <1> QED
    BY <1>1, <1>2, PTL DEF ProcessSpec, Spec

\* What a database of one thread promises, it promises on the connection that
\* its constructor has made.
THEOREM ProcessKeepsPromises ==
    ASSUME NEW c, Clients = {c}
    PROVE  ProcessSpec => [](OwnReply /\ Acknowledged /\ FailsOnlyWhenClosed)
  BY DatabaseOfProcess, RepliesAreOwn, WritesAreAcknowledged, FailuresAreClosings, PTL
=============================================================================
