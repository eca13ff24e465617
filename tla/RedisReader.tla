---------------------------- MODULE RedisReader -----------------------------
(***************************************************************************)
(* The reply parser of hiredis (redis/hiredis/read.c) with the default     *)
(* object functions (redis/hiredis/hiredis.c).                             *)
(*                                                                         *)
(* Bytes arrive in chunks of any size.  redisReaderGetReply parses as far  *)
(* as the buffer goes and keeps its place, a stack of read tasks, for the  *)
(* next call.  Reply objects live on the heap: the children of an array    *)
(* hang from it as soon as they exist, and the root hangs from r->reply,   *)
(* so that an error half way can free everything.                          *)
(*                                                                         *)
(* A byte is a one-character string ("CR" and "LF" for the line end).      *)
(* 64-bit overflow of a length and the texts of errors are left out.       *)
(***************************************************************************)
EXTENDS Integers, Sequences, FiniteSetsExt, SequencesExt

CONSTANTS
    Streams,     \* what a server may send, see StreamsAssumption
    StackSize,   \* tasks in rstack[] (9)
    DiscardAt,   \* consumed bytes after which the buffer is cut (1024)
    MayFail      \* allocations may fail

Digits == <<"0", "1", "2", "3", "4", "5", "6", "7", "8", "9">>

ASSUME SizesAssumption == StackSize \in Nat \ {0} /\ DiscardAt \in Nat /\ MayFail \in BOOLEAN
\* A stream is the bytes, the replies they encode, and whether a malformed
\* reply follows those.
ASSUME StreamsAssumption ==
    \A s \in Streams : /\ {"bytes", "replies", "malformed"} \subseteq DOMAIN s
                      /\ s.malformed \in BOOLEAN

VARIABLES
    stream,     \* the stream of this connection
    fed,        \* how many of its bytes the reader has been fed
    buf, pos,   \* r->buf and r->pos
    rstack,     \* r->rstack up to r->ridx
    reply,      \* r->reply, 0 for NULL
    err,        \* r->err
    objects,    \* the reply objects on the heap
    out,        \* the replies given to the caller, who has freed them since
    pc          \* the caller's place, or where redisReaderGetReply is

vars == <<stream, fed, buf, pos, rstack, reply, err, objects, out, pc>>

\* redisReaderCreate.
Init ==
    /\ stream \in Streams
    /\ fed = 0
    /\ buf = <<>> /\ pos = 0
    /\ rstack = <<>>
    /\ reply = 0
    /\ err = "none"
    /\ objects = [i \in {} |-> 0]
    /\ out = <<>>
    /\ pc = "ask"

-----------------------------------------------------------------------------
(***************************************************************************)
(* Reply objects.                                                          *)
(***************************************************************************)

RECURSIVE Owned(_, _), TreeOf(_, _)

\* The objects freeReplyObject(id) frees.
Owned(heap, id) ==
    IF id = 0 THEN {}
    ELSE {id} \cup UNION {Owned(heap, heap[id].element[i]) : i \in DOMAIN heap[id].element}

freeReplyObject_Root(heap, id) == [i \in DOMAIN heap \ {id} |-> heap[i]]
freeReplyObject(heap, id) == [i \in DOMAIN heap \ Owned(heap, id) |-> heap[i]]

\* A reply as its reader sees it: type, value and elements, children included.
TreeOf(heap, id) ==
    IF id = 0 THEN 0
    ELSE [heap[id] EXCEPT !.element = [i \in DOMAIN @ |-> TreeOf(heap, @[i])]]

Object(type, value, elements, children) ==
    [type |-> type, value |-> value, elements |-> elements, element |-> children]

\* createStringObject, createIntegerObject and createNilObject.
Leaf(type, value) == Object(type, value, 0, <<>>)
\* createArrayObject: elements is stored as it is, negative or not.
Array(elements) == Object("array", <<>>, elements, [i \in 1..elements |-> 0])

Cur == Last(rstack)
IsRoot == Len(rstack) = 1
NewId == Min(1..(Cardinality(DOMAIN objects) + 1) \ DOMAIN objects)

\* The new object, hung into the array of the parent task.
Hang(obj) ==
    LET held == [i \in DOMAIN objects \cup {NewId} |-> IF i = NewId THEN obj ELSE objects[i]]
    IN  IF IsRoot THEN held
        ELSE [held EXCEPT ![Front(rstack)[Len(rstack) - 1].obj].element[Cur.idx + 1] = NewId]

-----------------------------------------------------------------------------
(***************************************************************************)
(* The parser.                                                             *)
(***************************************************************************)

\* __redisReaderSetError: the partial reply, the buffer and the stack go.
SetError(type) ==
    /\ err' = type
    /\ objects' = freeReplyObject(objects, reply)
    /\ reply' = 0
    /\ buf' = <<>> /\ pos' = 0
    /\ rstack' = <<>>

\* seekNewline: where the line end after pos begins, 0 when there is none.
seekNewline ==
    LET ends == {i \in (pos + 1)..(Len(buf) - 1) : buf[i] = "CR" /\ buf[i + 1] = "LF"}
    IN  IF ends = {} THEN 0 ELSE Min(ends)

Line == SubSeq(buf, pos + 1, seekNewline - 1)

\* readLongLong: the number at the start of the line, -1 for anything else.
readLongLong_Unsigned(line) ==
    IF line # <<>> /\ ToSet(line) \subseteq ToSet(Digits)
    THEN FoldLeft(LAMBDA v, c : 10 * v + IndexFirstSubSeq(<<c>>, Digits) - 1, 0, line) ELSE -1
readLongLong(line) ==
    LET negative == line # <<>> /\ line[1] = "-"
        rest == IF line # <<>> /\ line[1] \in {"-", "+"} THEN Tail(line) ELSE line
        stop == Min({i \in 1..(Len(rest) + 1) : i = Len(rest) + 1 \/ rest[i] = "CR"})
        digits == SubSeq(rest, 1, stop - 1)
        value == FoldLeft(LAMBDA v, c : 10 * v + IndexFirstSubSeq(<<c>>, Digits) - 1, 0, digits)
    IN  IF ToSet(digits) \subseteq ToSet(Digits) THEN (IF negative THEN -value ELSE value) ELSE -1

NewTask(idx) == [type |-> "unread", elements |-> -1, idx |-> idx, obj |-> 0]

\* moveToNextTask: drop the tasks that were the last of their array.
moveToNextTask(stack) ==
    LET open == {d \in 2..Len(stack) : stack[d].idx # stack[d - 1].elements - 1}
        d == Max(open)
    IN  IF open = {} THEN <<>>
        ELSE [SubSeq(stack, 1, d) EXCEPT
                 ![d] = [@ EXCEPT !.type = "unread", !.elements = -1, !.idx = @ + 1]]

\* No complete item: leave the loop of redisReaderGetReply.
Break == pc' = "emit" /\ UNCHANGED <<buf, pos, rstack, reply, err, objects>>

\* The object cannot be created.
OutOfMemory == MayFail /\ SetError("oom") /\ pc' = "emit"

\* The object of the current task exists and bytes of input are consumed.
Created(obj, consumed, stack) ==
    /\ objects' = Hang(obj)
    /\ reply' = IF IsRoot THEN NewId ELSE reply
    /\ pos' = consumed
    /\ rstack' = stack
    /\ pc' = "item"
    /\ UNCHANGED <<buf, err>>

\* processItem, first half: the type byte.
TypeOf(byte) ==
    CASE byte = "-" -> "error" [] byte = "+" -> "status" [] byte = ":" -> "integer"
      [] byte = "$" -> "string" [] byte = "*" -> "array" [] OTHER -> "invalid"

readType ==
    /\ pc = "item" /\ rstack # <<>> /\ Cur.type = "unread"
    /\ IF pos = Len(buf) THEN Break
       ELSE IF TypeOf(buf[pos + 1]) = "invalid" THEN SetError("protocol") /\ pc' = "emit"
       ELSE /\ rstack' = [rstack EXCEPT ![Len(rstack)].type = TypeOf(buf[pos + 1])]
            /\ pos' = pos + 1
            /\ UNCHANGED <<buf, reply, err, objects, pc>>
    /\ UNCHANGED <<stream, fed, out>>

processLineItem ==
    /\ pc = "item" /\ rstack # <<>> /\ Cur.type \in {"status", "error", "integer"}
    /\ IF seekNewline = 0 THEN Break
       ELSE \/ Created(Leaf(Cur.type, IF Cur.type = "integer" THEN <<readLongLong(Line)>> ELSE Line),
                       seekNewline + 1, moveToNextTask(rstack))
            \/ OutOfMemory
    /\ UNCHANGED <<stream, fed, out>>

\* Where a bulk string of this length ends, the final line end included.
BulkEnd_NoNewline(len) == seekNewline + 1 + len
BulkEnd(len) == seekNewline + 1 + len + 2

processBulkItem ==
    /\ pc = "item" /\ rstack # <<>> /\ Cur.type = "string"
    /\ LET len == readLongLong(Line)
       IN  IF seekNewline = 0 \/ (len >= 0 /\ BulkEnd(len) > Len(buf)) THEN Break
           ELSE \/ /\ len < 0
                   /\ Created(Leaf("nil", <<>>), seekNewline + 1, moveToNextTask(rstack))
                \/ /\ len >= 0
                   /\ Created(Leaf("string", SubSeq(buf, seekNewline + 2, seekNewline + 1 + len)),
                              BulkEnd(len), moveToNextTask(rstack))
                \/ OutOfMemory
    /\ UNCHANGED <<stream, fed, out>>

\* An array needs a task for its elements; the last task of the stack has none.
TooDeep == Len(rstack) = StackSize

processMultiBulkItem ==
    /\ pc = "item" /\ rstack # <<>> /\ Cur.type = "array"
    /\ LET elements == readLongLong(Line)
           deeper == Append([rstack EXCEPT ![Len(rstack)] =
                                 [@ EXCEPT !.elements = elements, !.obj = NewId]], NewTask(0))
       IN  IF TooDeep THEN SetError("protocol") /\ pc' = "emit"
           ELSE IF seekNewline = 0 THEN Break
           ELSE \/ Created(IF elements = -1 THEN Leaf("nil", <<>>) ELSE Array(elements),
                           seekNewline + 1,
                           IF elements > 0 THEN deeper ELSE moveToNextTask(rstack))
                \/ OutOfMemory
    /\ UNCHANGED <<stream, fed, out>>

\* redisReaderFeed with the next n bytes.
redisReaderFeed(n) ==
    /\ pc = "read" /\ err = "none"
    /\ \/ /\ buf' = buf \o SubSeq(stream.bytes, fed + 1, fed + n)
          /\ UNCHANGED <<pos, rstack, reply, err, objects>>
       \/ MayFail /\ SetError("oom")
    /\ fed' = fed + n
    /\ pc' = "ask"
    /\ UNCHANGED <<stream, out>>

\* redisReaderGetReply up to its loop.
redisReaderGetReply ==
    /\ pc = "ask" /\ err = "none"
    /\ IF buf = <<>> THEN pc' = "read" /\ UNCHANGED rstack
       ELSE /\ pc' = "item"
            /\ rstack' = IF rstack = <<>> THEN <<NewTask(-1)>> ELSE rstack
    /\ UNCHANGED <<stream, fed, buf, pos, reply, err, objects, out>>

\* The end of redisReaderGetReply: cut the buffer, hand out a complete reply.
\* The caller frees the reply and asks for the next one.
Emit ==
    /\ pc = "emit" \/ (pc = "item" /\ rstack = <<>>)
    /\ IF err = "none" /\ pos >= DiscardAt
       THEN buf' = SubSeq(buf, pos + 1, Len(buf)) /\ pos' = 0
       ELSE UNCHANGED <<buf, pos>>
    /\ IF err = "none" /\ rstack = <<>>
       THEN /\ out' = Append(out, TreeOf(objects, reply))
            /\ objects' = freeReplyObject(objects, reply)
            /\ reply' = 0
            /\ pc' = "ask"
       ELSE pc' = "read" /\ UNCHANGED <<out, objects, reply>>
    /\ UNCHANGED <<stream, fed, rstack, err>>

\* The connection ends, after an error or whenever the caller waits for bytes.
redisReaderFree ==
    /\ pc = "read" \/ (pc = "ask" /\ err # "none")
    /\ objects' = freeReplyObject(objects, reply)
    /\ reply' = 0
    /\ buf' = <<>> /\ pos' = 0
    /\ rstack' = <<>>
    /\ pc' = "freed"
    /\ UNCHANGED <<stream, fed, err, out>>

Parse == redisReaderGetReply \/ readType \/ processLineItem \/ processBulkItem
            \/ processMultiBulkItem \/ Emit
Receive == \E n \in 1..(Len(stream.bytes) - fed) : redisReaderFeed(n)

Next == Receive \/ Parse \/ redisReaderFree

Spec == Init /\ [][Next]_vars
\* The bytes arrive, and the caller asks for replies as long as there are any.
FairSpec == Spec /\ WF_vars(Receive) /\ WF_vars(Parse)

-----------------------------------------------------------------------------
(***************************************************************************)
(* Properties.                                                             *)
(***************************************************************************)

\* Whatever the chunks, the caller gets the replies the server encoded, in
\* order and complete, and none that was not sent.
RepliesAsEncoded == IsPrefix(out, stream.replies)

\* Every reply object on the heap hangs from r->reply: nothing is leaked and
\* nothing is freed twice, errors in the middle of a nested reply included.
NoReplyLeaked == DOMAIN objects = Owned(objects, reply)

\* Every reply that has arrived is handed out, and a malformed one is noticed,
\* unless an allocation fails or the connection ends before.
RepliesDelivered ==
    <>(\/ err = "oom"
       \/ pc = "freed" /\ fed < Len(stream.bytes)
       \/ out = stream.replies /\ (stream.malformed => err = "protocol"))
=============================================================================
