-------------------------- MODULE MCRedisProtocol ---------------------------
(***************************************************************************)
(* RedisFormat and RedisReader together, for TLC: a command is formatted   *)
(* and read back by the other side, and the replies of a server are read.  *)
(***************************************************************************)
EXTENDS RedisReader, RedisFormat

ArrayTree(children) == Object("array", <<>>, Len(children), children)
Bulks(argv) == ArrayTree([i \in DOMAIN argv |-> Leaf("string", argv[i])])

RECURSIVE Encode(_)
Encode(tree) ==
    CASE tree.type = "status" -> <<"+">> \o tree.value \o CRLF
      [] tree.type = "error" -> <<"-">> \o tree.value \o CRLF
      [] tree.type = "integer" ->
            <<":">> \o (IF tree.value[1] < 0 THEN <<"-">> \o Decimal(-tree.value[1])
                        ELSE Decimal(tree.value[1])) \o CRLF
      [] tree.type = "nil" -> <<"$", "-", "1">> \o CRLF
      [] tree.type = "string" -> <<"$">> \o Decimal(Len(tree.value)) \o CRLF \o tree.value \o CRLF
      [] tree.type = "array" ->
            FoldLeft(LAMBDA bytes, child : bytes \o Encode(child),
                     <<"*">> \o Decimal(tree.elements) \o CRLF, tree.element)

EncodeAll(trees) == FoldLeft(LAMBDA bytes, tree : bytes \o Encode(tree), <<>>, trees)

\* The replies of a server.
ok == Leaf("status", <<"o", "k">>)
crs == Leaf("error", <<"CR", "e", "CR">>)
number == Leaf("integer", <<-12>>)
nil == Leaf("nil", <<>>)
lines == Leaf("string", <<"CR", "LF", "CR">>)
long == Leaf("string", [i \in 1..10 |-> "z"])
hash == ArrayTree(<<lines, number>>)
nested == ArrayTree(<<ArrayTree(<<nil, crs>>), ArrayTree(<<>>), ok>>)
deep == ArrayTree(<<ArrayTree(<<ok, ArrayTree(<<ok>>)>>)>>)

Stream(bytes, replies, malformed, text, args) ==
    [bytes |-> bytes, replies |-> replies, malformed |-> malformed, text |-> text, args |-> args]

ServerStreams ==
    {Stream(EncodeAll(trees), trees, FALSE, <<>>, <<>>) :
        trees \in {<<ok, crs, number>>, <<hash, nil>>, <<nested, ok>>, <<long>>,
                   <<ArrayTree(<<hash, nil, ArrayTree(<<ok>>)>>)>>}}
    \cup {Stream(EncodeAll(<<ok, ok>>) \o <<"?">>, <<ok, ok>>, TRUE, <<>>, <<>>),
          Stream(Encode(ArrayTree(<<hash, ok>>)) \o <<"*", "2">> \o CRLF \o Encode(hash) \o <<"o">>,
                 <<ArrayTree(<<hash, ok>>)>>, TRUE, <<>>, <<>>),
          Stream(EncodeAll(<<number, deep, ok>>), <<number>>, TRUE, <<>>, <<>>)}

\* Commands: the texts of up to MaxText characters, and texts with arguments.
CONSTANTS MaxText, Alphabet

SentTexts == {t \in SeqOf({"a", " ", "%"}, 3) : redisvFormatCommand(t, <<>>).status = "ok"}
Arguments == <<<<"a", " ", "a">>, [i \in 1..10 |-> "z"], <<>>>>
WithArguments ==
    {<<"a", " ", "%", "s", "%", "%", " ", "%", "5", ".", "1", "d", "a">>,
     <<"%", "b", " ", "%", "h", "h", "u", "%", "s">>,
     <<"%", "0", "0", "0", "0", "0", "0", "0", "0", "0", "0", "0", "0", "d", "a">>,
     <<"%", "s", " ", "%", "l", "l", "b">>}

CommandStream(text, args) ==
    LET f == redisvFormatCommand(text, args)
    IN  IF f.status = "ok"
        THEN Stream(redisFormatCommandArgv(f.argv), <<Bulks(f.argv)>>, FALSE, text, args)
        ELSE Stream(<<>>, <<>>, FALSE, text, args)

CommandStreams == {CommandStream(t, <<>>) : t \in SentTexts}
                  \cup {CommandStream(t, Arguments) : t \in WithArguments}

\* Formatted, and not sent: many more texts.
FormattedOnly == {Stream(<<>>, <<>>, FALSE, t, <<>>) : t \in SeqOf(Alphabet, MaxText)}

AllStreams == ServerStreams \cup CommandStreams \cup FormattedOnly

\* A text without variable arguments (redis_client.h passes every command this
\* way) is sent word by word exactly when it has no "%" directive; and the length
\* computed for a command before it is written is the length of its bytes, the
\* assertion of redisvFormatCommand and redisFormatSdsCommandArgv.
CommandsFormatted ==
    LET f == redisvFormatCommand(stream.text, stream.args)
    IN  /\ stream.args = <<>> => SentAsWords(stream.text)
        /\ f.status = "ok" => LengthExact(f.argv)
=============================================================================
