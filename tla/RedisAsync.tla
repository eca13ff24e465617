----------------------------- MODULE RedisAsync -----------------------------
(***************************************************************************)
(* The asynchronous connection of hiredis (redis/hiredis/async.c).         *)
(*                                                                         *)
(* One thread runs an event loop, which calls redisAsyncHandleRead and     *)
(* redisAsyncHandleWrite.  User code runs outside of the handlers, in the  *)
(* callbacks of commands and in onConnect; in each of these places it may  *)
(* issue commands, disconnect or free the context.                         *)
(*                                                                         *)
(* A command is known by its number.  A callback is the number of its      *)
(* command, or 0 for a NULL function.  Replies arrive whole or as a part   *)
(* that is not a reply yet.  The server is external: it answers in order,  *)
(* publishes, reports to MONITOR, and may refuse or close the connection.  *)
(***************************************************************************)
EXTENDS Integers, Sequences, FiniteSets, SequencesExt, Dict

CONSTANTS
    Commands,       \* the commands the user may issue, see CommandsAssumption
    Patterns,       \* the topics that are patterns (PSUBSCRIBE), of DictKeys
    MaxCommands,    \* bound: commands issued
    MaxEvents,      \* bound: what the server does by itself
    Faults          \* the server may close the connection or send nonsense

Names == {"GET", "SUBSCRIBE", "UNSUBSCRIBE", "MONITOR"}

\* A command is a name (GET stands for all regular ones), the topics of a
\* (P)SUBSCRIBE or (P)UNSUBSCRIBE, and whether it has a callback.  The one
\* without topics, which unsubscribes from all, is left out.
ASSUME CommandsAssumption ==
    \A cmd \in Commands :
        /\ cmd \in [name : Names, topics : Seq(DictKeys), callback : BOOLEAN]
        /\ ToSet(cmd.topics) \subseteq Patterns \/ ToSet(cmd.topics) \subseteq DictKeys \ Patterns
        /\ cmd.name \in {"SUBSCRIBE", "UNSUBSCRIBE"} => cmd.topics # <<>>
ASSUME AsyncAssumption ==
    /\ Patterns \subseteq DictKeys /\ "none" \notin DictKeys
    /\ MaxCommands \in Nat /\ MaxEvents \in Nat /\ Faults \in BOOLEAN

VARIABLES
    flags,         \* c->flags
    err,           \* c->err is not 0
    obuf,          \* commands formatted and not written
    reader,        \* replies read and not processed
    replies,       \* ac->replies
    invalid,       \* ac->sub.invalid
    sub,           \* ac->sub.channels and ac->sub.patterns
    ev,            \* the events the loop waits for
    partial,       \* the last read ended inside a reply
    pc,            \* where the thread is
    resume,        \* what goes on after onConnect
    cb,            \* the local cb of redisProcessCallbacks
    inbox,         \* replies on their way from the server
    online,        \* the server has not closed the connection
    serverSubs,    \* the topics the server has this client subscribed to
    monitored,     \* the server reports to this client
    events,        \* how many things it has done by itself
    commands,      \* history: the commands accepted
    got,           \* history: what the callback of each command got
    subscribed,    \* history: the callback each topic should have
    unsubs,        \* history: the topics of unsubscriptions not answered yet
    risky,         \* history: the user has done one of the things in RiskyCommand
    process,       \* "running", or how the context ended
    onDisconnect   \* how onDisconnect was called

contextVars == <<flags, err, obuf, reader, replies, invalid, sub, ev, process, onDisconnect>>
serverVars == <<inbox, online, serverSubs, monitored, events>>
historyVars == <<commands, got, subscribed, unsubs, risky>>
vars == <<contextVars, partial, pc, resume, cb, serverVars, historyVars>>

Kinds == {"channels", "patterns"}
Empty == [t \in {} |-> 0]

\* redisAsyncInitialize and redisAsyncSetConnectCallback after a nonblocking
\* connect that is under way.
Init ==
    /\ flags = {} /\ err = FALSE
    /\ obuf = <<>> /\ reader = <<>> /\ replies = <<>> /\ invalid = <<>>
    /\ sub = [d \in Kinds |-> dictCreate]
    /\ ev = {"write"}
    /\ partial = FALSE
    /\ pc = "loop" /\ resume = "write" /\ cb = 0
    /\ inbox = <<>>
    /\ online = TRUE /\ serverSubs = {} /\ monitored = FALSE /\ events = 0
    /\ commands = <<>> /\ got = <<>> /\ subscribed = Empty /\ unsubs = {} /\ risky = FALSE
    /\ process = "running" /\ onDisconnect = "none"

-----------------------------------------------------------------------------
(***************************************************************************)
(* Freeing the context.                                                    *)
(***************************************************************************)

\* __redisRunCallback with this reply for every callback of a list.
Run(list, reply) ==
    [n \in DOMAIN got |->
        LET times == Cardinality({i \in DOMAIN list : list[i] = n})
        IN  got[n] \o [k \in 1..times |-> reply]]

NULL == [type |-> "NULL", to |-> 0, topic |-> "none", count |-> 0]

\* The callbacks __redisAsyncFree runs with a NULL reply.
Pending_NoInvalid(list) ==
    list \o IteratedValues(sub["channels"]) \o IteratedValues(sub["patterns"])
Pending(list) ==
    list \o invalid \o IteratedValues(sub["channels"]) \o IteratedValues(sub["patterns"])

\* __redisAsyncFree in a context with these flags and this error.
AsyncFree(fl, error) ==
    /\ process' = "freed"
    /\ flags' = fl /\ err' = error
    /\ got' = Run(Pending(replies), NULL) /\ UNCHANGED commands
    /\ onDisconnect' = IF "CONNECTED" \notin fl THEN "none"
                       ELSE IF "FREEING" \in fl \/ ~error THEN "ok" ELSE "error"
    /\ obuf' = <<>> /\ reader' = <<>> /\ replies' = <<>> /\ invalid' = <<>>
    /\ sub' = [d \in Kinds |-> dictCreate]
    /\ ev' = {}
    /\ subscribed' = Empty

Abort ==
    /\ process' = "aborted"
    /\ UNCHANGED <<flags, err, obuf, reader, replies, invalid, sub, ev, onDisconnect,
                   commands, got, subscribed>>

\* __redisAsyncDisconnect: without an error nothing may be pending.
AsyncDisconnect(fl, error) ==
    IF error THEN AsyncFree(fl \cup {"DISCONNECTING"}, error)
    ELSE IF replies # <<>> THEN Abort ELSE AsyncFree(fl, error)

-----------------------------------------------------------------------------
(***************************************************************************)
(* What user code does.                                                    *)
(***************************************************************************)

UserTurn == process = "running" /\ pc \in {"loop", "callback", "onConnect"}

Closing == flags \cap {"DISCONNECTING", "FREEING"} # {}

DictOf(topic) == IF topic \in Patterns THEN "patterns" ELSE "channels"

\* Where __redisAsyncCommand keeps the callback.
Register_Subscribed(cmd) == IF cmd.name \in {"SUBSCRIBE", "UNSUBSCRIBE"} THEN cmd.name ELSE "replies"
Register(cmd) ==
    CASE cmd.name \in {"SUBSCRIBE", "UNSUBSCRIBE"} -> cmd.name
      [] cmd.name = "GET" /\ "SUBSCRIBED" \in flags -> "invalid"
      [] OTHER -> "replies"

\* A command that follows an unsubscription that is not answered yet, and an
\* unsubscription from a topic that is not subscribed, or not any more when its
\* turn comes.
RiskyCommand(cmd) ==
    \/ unsubs # {}
    \/ cmd.name = "UNSUBSCRIBE" /\ ~(IsInjective(cmd.topics) /\ ToSet(cmd.topics) \subseteq DOMAIN subscribed)

\* dictReplace for each topic of a subscription.
Subscribe(topics, fn) ==
    LET kind == DictOf(topics[1])
        dict[i \in 0..Len(topics)] ==
            IF i = 0 THEN sub[kind] ELSE dictReplace(dict[i - 1], topics[i], fn)
    IN  [sub EXCEPT ![kind] = dict[Len(topics)]]

\* The functions of the redisAsyncCommand family.
redisAsyncCommand(cmd) ==
    LET n == Len(commands) + 1
        fn == IF cmd.callback THEN n ELSE 0
        place == Register(cmd)
    IN  /\ UserTurn /\ ~Closing
        /\ n <= MaxCommands
        /\ cmd.name = "UNSUBSCRIBE" => "SUBSCRIBED" \in flags
        /\ flags' = CASE cmd.name = "SUBSCRIBE" -> flags \cup {"SUBSCRIBED"}
                      [] cmd.name = "MONITOR" -> flags \cup {"MONITORING"}
                      [] OTHER -> flags
        /\ replies' = IF place = "replies" THEN Append(replies, fn) ELSE replies
        /\ invalid' = IF place = "invalid" THEN Append(invalid, fn) ELSE invalid
        /\ IF place = "SUBSCRIBE"
           THEN /\ sub' = Subscribe(cmd.topics, fn)
                /\ subscribed' = [t \in DOMAIN subscribed \cup ToSet(cmd.topics) |->
                                     IF t \in ToSet(cmd.topics) THEN fn ELSE subscribed[t]]
           ELSE UNCHANGED <<sub, subscribed>>
        /\ obuf' = Append(obuf, n)
        /\ ev' = ev \cup {"write"}
        /\ commands' = Append(commands, [name |-> cmd.name, topics |-> cmd.topics, place |-> place,
                                         callback |-> cmd.callback])
        /\ got' = Append(got, <<>>)
        /\ unsubs' = IF cmd.name = "UNSUBSCRIBE" THEN unsubs \cup ToSet(cmd.topics) ELSE unsubs
        /\ risky' = (risky \/ RiskyCommand(cmd))
        /\ UNCHANGED <<err, reader, process, onDisconnect, partial, pc, resume, cb, serverVars>>

\* redisAsyncDisconnect closes at once when it is not called from a callback and
\* no regular callback is pending.
AtOnce_Pending == "IN_CALLBACK" \notin flags
AtOnce == "IN_CALLBACK" \notin flags /\ replies = <<>>

redisAsyncDisconnect ==
    /\ UserTurn /\ ~Closing
    /\ IF AtOnce
       THEN AsyncDisconnect(flags \cup {"DISCONNECTING"}, err)
       ELSE /\ flags' = flags \cup {"DISCONNECTING"}
            /\ UNCHANGED <<err, obuf, reader, replies, invalid, sub, ev, process, onDisconnect,
                           commands, got, subscribed>>
    /\ risky' = (risky \/ pc = "onConnect")
    /\ UNCHANGED <<partial, pc, resume, cb, serverVars, unsubs>>

FreeingFlags_Unset == flags
FreeingFlags == flags \cup {"FREEING"}

\* redisAsyncFree, deferred when it is called from a callback.
redisAsyncFree ==
    /\ UserTurn /\ ~Closing
    /\ IF "IN_CALLBACK" \notin flags THEN AsyncFree(FreeingFlags, err)
       ELSE /\ flags' = FreeingFlags
            /\ UNCHANGED <<err, obuf, reader, replies, invalid, sub, ev, process, onDisconnect,
                           commands, got, subscribed>>
    /\ risky' = (risky \/ pc = "onConnect")
    /\ UNCHANGED <<partial, pc, resume, cb, serverVars, unsubs>>

-----------------------------------------------------------------------------
(***************************************************************************)
(* redisProcessCallbacks.                                                  *)
(***************************************************************************)

\* The reader has no reply: disconnect when all is done, else wait.
NoReply ==
    IF "DISCONNECTING" \in flags /\ obuf = <<>> /\ replies = <<>>
    THEN AsyncDisconnect(flags, err) /\ UNCHANGED <<pc, unsubs>>
    ELSE /\ replies' = IF "MONITORING" \in flags THEN Append(replies, cb) ELSE replies
         /\ pc' = "loop"
         /\ UNCHANGED <<flags, err, obuf, reader, invalid, sub, ev, process, onDisconnect,
                        commands, got, subscribed, unsubs>>

\* Run the callback fn, if any, with the reply that was taken.
Deliver(fn, r) ==
    /\ cb' = fn
    /\ reader' = Tail(reader)
    /\ got' = Run(<<fn>>, r)
    /\ pc' = IF fn = 0 THEN "process" ELSE "callback"
    /\ UNCHANGED <<err, obuf, ev, commands, process, onDisconnect>>

InCallback(fn, fl) == IF fn = 0 THEN fl ELSE fl \cup {"IN_CALLBACK"}

\* __redisGetSubscribeCallback: an array is looked up by its topic, anything
\* else answers an invalid command; when there is neither, cb stays as it is.
\* The last unsubscription ends the subscribed mode.
GetSubscribeCallback(r) ==
    LET dict == sub[DictOf(r.topic)]
        known == Has(dict, r.topic)
        fn == IF known THEN dictFind(dict, r.topic) ELSE cb
        leaves == known /\ r.type = "unsubscribe"
    IN  IF r.topic = "none"
        THEN /\ Deliver(IF invalid = <<>> THEN cb ELSE Head(invalid), r)
             /\ invalid' = IF invalid = <<>> THEN invalid ELSE Tail(invalid)
             /\ flags' = InCallback(cb', flags)
             /\ UNCHANGED <<sub, replies, subscribed, unsubs>>
        ELSE /\ Deliver(fn, r)
             /\ sub' = IF leaves THEN [sub EXCEPT ![DictOf(r.topic)] = dictDelete(@, r.topic)] ELSE sub
             /\ flags' = InCallback(fn, IF leaves /\ r.count = 0 THEN flags \ {"SUBSCRIBED"} ELSE flags)
             /\ subscribed' = IF r.type # "unsubscribe" THEN subscribed
                              ELSE [t \in DOMAIN subscribed \ {r.topic} |-> subscribed[t]]
             /\ unsubs' = IF r.type = "unsubscribe" THEN unsubs \ {r.topic} ELSE unsubs
             /\ UNCHANGED <<invalid, replies>>

\* A reply when no regular callback is left.
Spontaneous(r) ==
    IF r.type = "error" THEN AsyncDisconnect(flags, TRUE) /\ UNCHANGED <<pc, cb, unsubs>>
    ELSE IF flags \cap {"SUBSCRIBED", "MONITORING"} = {} THEN Abort /\ UNCHANGED <<pc, cb, unsubs>>
    ELSE IF "SUBSCRIBED" \in flags THEN GetSubscribeCallback(r)
    ELSE /\ Deliver(cb, r)
         /\ flags' = InCallback(cb, flags)
         /\ UNCHANGED <<invalid, replies, sub, subscribed, unsubs>>

\* One turn of the loop of redisProcessCallbacks.
redisProcessCallbacks ==
    /\ process = "running" /\ pc = "process"
    /\ IF reader = <<>> THEN NoReply /\ cb' = 0
       ELSE IF Head(reader).type = "malformed"
       THEN AsyncDisconnect(flags, TRUE) /\ UNCHANGED <<pc, cb, unsubs>>
       ELSE IF replies = <<>> THEN Spontaneous(Head(reader))
       ELSE /\ Deliver(Head(replies), Head(reader))
            /\ flags' = InCallback(Head(replies), flags)
            /\ replies' = Tail(replies)
            /\ UNCHANGED <<invalid, sub, subscribed, unsubs>>
    /\ UNCHANGED <<partial, resume, serverVars, risky>>

\* The callback returns.
RunCallback ==
    /\ process = "running" /\ pc = "callback"
    /\ IF "FREEING" \in flags THEN AsyncFree(flags \ {"IN_CALLBACK"}, err) /\ UNCHANGED pc
       ELSE /\ flags' = flags \ {"IN_CALLBACK"} /\ pc' = "process"
            /\ UNCHANGED <<err, obuf, reader, replies, invalid, sub, ev, process, onDisconnect,
                           commands, got, subscribed>>
    /\ UNCHANGED <<partial, resume, cb, serverVars, unsubs, risky>>

-----------------------------------------------------------------------------
(***************************************************************************)
(* The server (external) takes a command and answers it.                   *)
(***************************************************************************)

Reply(type, to, topic, count) == [type |-> type, to |-> to, topic |-> topic, count |-> count]

\* A message for each topic of a command, with the number of topics after it.
TopicReplies(type, n, subs) ==
    [i \in DOMAIN commands[n].topics |->
        LET seen == ToSet(SubSeq(commands[n].topics, 1, i))
        IN  Reply(type, n, commands[n].topics[i],
                  Cardinality(IF type = "subscribe" THEN subs \cup seen ELSE subs \ seen))]

\* Command n in a server with these subscriptions.
Execute(s, n) ==
    LET topics == ToSet(commands[n].topics)
    IN  CASE commands[n].name = "SUBSCRIBE" ->
                [s EXCEPT !.out = @ \o TopicReplies("subscribe", n, s.subs), !.subs = @ \cup topics]
          [] commands[n].name = "UNSUBSCRIBE" ->
                [s EXCEPT !.out = @ \o TopicReplies("unsubscribe", n, s.subs), !.subs = @ \ topics]
          [] OTHER ->
                [s EXCEPT !.out = Append(@, Reply(IF s.subs = {} THEN "reply" ELSE "error", n, "none", 0)),
                          !.monitored = @ \/ (commands[n].name = "MONITOR" /\ s.subs = {})]

\* The commands of the list, one after the other.
Executed(list) ==
    LET server[i \in 0..Len(list)] ==
            IF i = 0 THEN [subs |-> serverSubs, monitored |-> monitored, out |-> inbox]
            ELSE Execute(server[i - 1], list[i])
    IN  server[Len(list)]

-----------------------------------------------------------------------------
(***************************************************************************)
(* The handlers of the event loop.                                         *)
(***************************************************************************)

\* redisBufferRead and what follows it: some replies, a part of one, or the
\* end of the connection.
Read ==
    \/ /\ ~online /\ inbox = <<>>
       /\ AsyncDisconnect(flags, TRUE)
       /\ pc' = "loop"
       /\ UNCHANGED <<cb, inbox, partial>>
    \/ \E k \in 0..Len(inbox) :
          /\ k = 0 => online /\ ~partial
          /\ reader' = reader \o SubSeq(inbox, 1, k)
          /\ inbox' = SubSeq(inbox, k + 1, Len(inbox))
          /\ partial' = (k = 0)
          /\ ev' = ev \cup {"read"}
          /\ cb' = 0
          /\ pc' = "process"
          /\ UNCHANGED <<flags, err, obuf, replies, invalid, sub, process, onDisconnect,
                         commands, got, subscribed>>

\* The events after a write that is done or not.
AfterWrite_NoRead(done) == IF done THEN ev \ {"write"} ELSE ev \cup {"write"}
AfterWrite(done) == (IF done THEN ev \ {"write"} ELSE ev \cup {"write"}) \cup {"read"}

\* redisBufferWrite and what follows it.
Write ==
    \/ /\ ~online /\ obuf # <<>>
       /\ AsyncDisconnect(flags, TRUE)
       /\ pc' = "loop"
       /\ UNCHANGED <<inbox, serverSubs, monitored>>
    \/ \E k \in 0..Len(obuf) :
          /\ obuf # <<>> => online /\ k > 0
          /\ LET s == Executed(SubSeq(obuf, 1, k))
             IN  inbox' = s.out /\ serverSubs' = s.subs /\ monitored' = s.monitored
          /\ obuf' = SubSeq(obuf, k + 1, Len(obuf))
          /\ ev' = AfterWrite(k = Len(obuf))
          /\ pc' = "loop"
          /\ UNCHANGED <<flags, err, reader, replies, invalid, sub, process, onDisconnect,
                         commands, got, subscribed>>

Perform(kind) ==
    IF kind = "read"
    THEN Read /\ UNCHANGED <<online, serverSubs, monitored, events>>
    ELSE Write /\ UNCHANGED <<cb, partial, online, events>>

\* __redisAsyncHandleConnect up to onConnect.
HandleConnect(kind) ==
    /\ \/ flags' = flags \cup {"CONNECTED"} /\ resume' = kind /\ UNCHANGED err
       \/ err' = TRUE /\ resume' = "failed" /\ UNCHANGED flags
    /\ pc' = "onConnect"
    /\ UNCHANGED <<obuf, reader, replies, invalid, sub, ev, process, onDisconnect, cb, partial,
                   serverVars, commands, got, subscribed>>

\* redisAsyncHandleRead and redisAsyncHandleWrite.
Handle(kind) ==
    /\ process = "running" /\ pc = "loop" /\ kind \in ev
    /\ kind = "read" => inbox # <<>> \/ ~online
    /\ IF "CONNECTED" \notin flags THEN HandleConnect(kind)
       ELSE Perform(kind) /\ UNCHANGED resume
    /\ UNCHANGED <<unsubs, risky>>

\* onConnect returns.  A context it has freed is used all the same.
OnConnectReturns ==
    /\ pc = "onConnect"
    /\ \/ /\ process = "freed"
          /\ process' = "undefined"
          /\ UNCHANGED <<flags, err, obuf, reader, replies, invalid, sub, ev, onDisconnect,
                         commands, got, subscribed, cb, partial, serverVars, pc>>
       \/ /\ process = "running" /\ resume = "failed"
          /\ AsyncDisconnect(flags, TRUE)
          /\ pc' = "loop"
          /\ UNCHANGED <<cb, partial, serverVars>>
       \/ /\ process = "running" /\ resume # "failed"
          /\ Perform(resume)
    /\ UNCHANGED <<resume, unsubs, risky>>

-----------------------------------------------------------------------------
(***************************************************************************)
(* What the server does by itself (external).                              *)
(***************************************************************************)

Publish ==
    /\ process = "running" /\ online /\ events < MaxEvents
    /\ events' = events + 1
    /\ \/ \E t \in serverSubs : inbox' = Append(inbox, Reply("message", 0, t, 0))
       \/ monitored /\ inbox' = Append(inbox, Reply("line", 0, "none", 0))
    /\ UNCHANGED <<contextVars, partial, pc, resume, cb, online, serverSubs, monitored,
                   historyVars>>

\* The server closes the connection, after an error ("max number of clients
\* reached") or bytes that are no reply, or without a word.  Answers may be lost.
Close ==
    /\ process = "running" /\ Faults /\ online /\ "CONNECTED" \in flags
    /\ events < MaxEvents /\ events' = events + 1
    /\ online' = FALSE
    /\ \E k \in 0..Len(inbox), last \in {<<>>, <<Reply("error", 0, "none", 0)>>,
                                         <<Reply("malformed", 0, "none", 0)>>} :
          inbox' = SubSeq(inbox, 1, k) \o last
    /\ UNCHANGED <<contextVars, partial, pc, resume, cb, serverSubs, monitored, historyVars>>

-----------------------------------------------------------------------------

User == (\E cmd \in Commands : redisAsyncCommand(cmd)) \/ redisAsyncDisconnect \/ redisAsyncFree
Loop == (\E kind \in {"read", "write"} : Handle(kind))
           \/ OnConnectReturns \/ redisProcessCallbacks \/ RunCallback

Next == User \/ Loop \/ Publish \/ Close

Spec == Init /\ [][Next]_vars
\* The event loop runs, and handlers and callbacks return.
FairSpec == Spec /\ WF_vars(Loop)

-----------------------------------------------------------------------------
(***************************************************************************)
(* Properties.                                                             *)
(***************************************************************************)

Monitoring == \E n \in DOMAIN commands : commands[n].name = "MONITOR"
Regular(n) == commands[n].place \in {"replies", "invalid"} /\ commands[n].name # "MONITOR"

\* A regular callback gets the reply to its own command, the error with which
\* the server refused the connection, or NULL; a subscription's callback gets
\* messages of its topics or NULL.  Not so after a MONITOR, whose callback is
\* pushed again behind others, and after a risky command.
OwnReply ==
    ~risky /\ ~Monitoring =>
        \A n \in DOMAIN commands : \A i \in DOMAIN got[n] :
            LET r == got[n][i]
            IN  \/ r.type = "NULL"
                \/ Regular(n) /\ (r.to = n \/ r.type = "error")
                \/ ~Regular(n) /\ r.topic \in ToSet(commands[n].topics)

\* A regular callback never runs twice, and it has run when the context is gone
\* ("All pending callbacks are called with a NULL reply").  With a MONITOR the
\* callback of another command can be pushed, and run, a second time.
CallbackOnce ==
    ~risky /\ ~Monitoring => \A n \in DOMAIN commands :
        Regular(n) /\ commands[n].callback =>
            /\ Len(got[n]) <= 1
            /\ process = "freed" => Len(got[n]) = 1

\* A disconnection that reports success, without redisAsyncFree, has answered
\* every command that was issued outside of the subscribed mode.
CleanDisconnect ==
    process = "freed" /\ onDisconnect = "ok" /\ "FREEING" \notin flags =>
        \A n \in DOMAIN commands :
            commands[n].place = "replies" /\ commands[n].callback /\ ~Monitoring =>
                got[n] # <<>> /\ got[n][1] # NULL

\* The assertions of redisProcessCallbacks and __redisAsyncDisconnect hold, and
\* no freed context is used, as long as the user does nothing risky.
SafeUnlessRisky == process \in {"aborted", "undefined"} => risky

\* The two dicts hold the callbacks of the topics subscribed to, also while
\* they grow and after unsubscriptions in any order.
DictsAgree ==
    \A d \in Kinds :
        Holds(sub[d], [t \in {u \in DOMAIN subscribed : DictOf(u) = d} |-> subscribed[t]])

\* A context that is being closed is freed in the end.
CloseCompletes == (Closing /\ ~Monitoring) ~> (process # "running")
=============================================================================
