---------------------------- MODULE RedisFormat -----------------------------
(***************************************************************************)
(* How hiredis turns a command into bytes (redis/hiredis/hiredis.c):       *)
(* redisvFormatCommand for a text with printf-like directives, and the     *)
(* two functions for a vector of arguments.                                *)
(*                                                                         *)
(* A text is a sequence of characters, "NUL" stands behind its end.  The   *)
(* variable arguments are a sequence of texts, each one as its directive   *)
(* prints it.  Taking an argument that was not passed is undefined.        *)
(* Allocation failures (all of them free everything and return -1) are     *)
(* left out.                                                               *)
(***************************************************************************)
EXTENDS Integers, Sequences, FiniteSetsExt, SequencesExt

DigitChars == <<"0", "1", "2", "3", "4", "5", "6", "7", "8", "9">>
CRLF == <<"CR", "LF">>

Char(text, i) == IF i <= Len(text) THEN text[i] ELSE "NUL"

\* The first position from i on whose character is not in this set.
SkipFrom(text, i, chars) == Min({j \in i..(Len(text) + 1) : Char(text, j) \notin chars})

-----------------------------------------------------------------------------
(***************************************************************************)
(* The text of a command.                                                  *)
(***************************************************************************)

flags == {"#", "0", "-", "+", " "}
intfmts == {"d", "i", "o", "u", "x", "X"}
floatfmts == {"e", "E", "f", "F", "g", "G", "a", "A"}

\* Where flags, width and precision of the directive at c end.
ConversionAt(text, c) ==
    LET width == SkipFrom(text, SkipFrom(text, c + 1, flags), ToSet(DigitChars))
    IN  IF Char(text, width) = "." THEN SkipFrom(text, width + 1, ToSet(DigitChars)) ELSE width

\* Where the directive ends: after the conversion, or after a size modifier and
\* an integer conversion; 0 for an invalid one.  Without a modifier, strchr also
\* finds the end of the text in intfmts.
DirectiveEnd(text, c) ==
    LET p == ConversionAt(text, c)
        size == IF Char(text, p) # Char(text, p + 1) THEN 1 ELSE 2
    IN  IF Char(text, p) \in intfmts \cup floatfmts \cup {"NUL"} THEN p
        ELSE IF Char(text, p) \in {"h", "l"} /\ Char(text, p + size) \in intfmts THEN p + size
        ELSE 0

\* Bytes of _format[16] a directive may take.
MaxDirective == 13

\* What the loop of redisvFormatCommand keeps: the place in the text, the
\* current argument and whether it was touched, the arguments so far, the
\* variable arguments left, and how the loop stands.
Start(args) == [c |-> 1, curarg |-> <<>>, touched |-> FALSE, argv |-> <<>>, args |-> args,
                status |-> "loop"]

\* The current argument goes to argv.
PushArgument(s) == [s EXCEPT !.argv = Append(@, s.curarg), !.curarg = <<>>, !.touched = FALSE]

\* A character that starts no directive.
Ordinary_Untouched(s, ch) ==
    IF ch = " " THEN [PushArgument(s) EXCEPT !.c = @ + 1]
    ELSE [s EXCEPT !.c = @ + 1, !.curarg = Append(@, ch), !.touched = TRUE]
Ordinary(s, ch) ==
    IF ch # " " THEN [s EXCEPT !.c = @ + 1, !.curarg = Append(@, ch), !.touched = TRUE]
    ELSE IF s.touched THEN [PushArgument(s) EXCEPT !.c = @ + 1]
    ELSE [s EXCEPT !.c = @ + 1]

\* A directive that prints the next variable argument and ends before c.
Interpolate(s, c) ==
    IF s.args = <<>> THEN [s EXCEPT !.status = "undefined"]
    ELSE [s EXCEPT !.c = c, !.curarg = @ \o Head(s.args), !.touched = TRUE, !.args = Tail(@)]

\* A printf conversion.  One that ends with the text makes c pass the end of the
\* text; one too long for _format takes its argument and prints nothing.
Conversion(text, s) ==
    LET end == DirectiveEnd(text, s.c)
        fits == end - s.c + 1 <= MaxDirective
    IN  IF end = 0 THEN [s EXCEPT !.status = "format_err"]
        ELSE IF s.args = <<>> \/ (fits /\ end > Len(text)) THEN [s EXCEPT !.status = "undefined"]
        ELSE IF fits THEN Interpolate(s, end + 1)
        ELSE [s EXCEPT !.c = @ + 2, !.touched = TRUE, !.args = Tail(@)]

Directive(text, s) ==
    CASE text[s.c + 1] \in {"s", "b"} -> Interpolate(s, s.c + 2)
      [] text[s.c + 1] = "%" ->
            [s EXCEPT !.c = @ + 2, !.curarg = Append(@, "%"), !.touched = TRUE]
      [] OTHER -> Conversion(text, s)

RECURSIVE FormatLoop(_, _)
FormatLoop(text, s) ==
    IF s.status # "loop" THEN s
    ELSE IF s.c > Len(text)
    THEN [(IF s.touched THEN PushArgument(s) ELSE s) EXCEPT !.status = "ok"]
    ELSE FormatLoop(text, IF text[s.c] # "%" \/ s.c = Len(text) THEN Ordinary(s, text[s.c])
                          ELSE Directive(text, s))

\* redisvFormatCommand up to the encoding: the arguments, or why there are none.
redisvFormatCommand(text, args) == FormatLoop(text, Start(args))

-----------------------------------------------------------------------------
(***************************************************************************)
(* The bytes of a command.                                                 *)
(***************************************************************************)

\* A number in decimal, as sprintf writes it.
RECURSIVE Decimal(_)
Decimal(n) == IF n < 10 THEN <<DigitChars[n + 1]>>
              ELSE Append(Decimal(n \div 10), DigitChars[(n % 10) + 1])

\* Four digits a turn.
RECURSIVE countDigits(_)
countDigits(v) ==
    IF v < 10 THEN 1 ELSE IF v < 100 THEN 2 ELSE IF v < 1000 THEN 3 ELSE IF v < 10000 THEN 4
    ELSE 4 + countDigits(v \div 10000)

bulklen(len) == 1 + countDigits(len) + 2 + len + 2

\* The size that is allocated for a command of these arguments.
CommandLength(argv) ==
    FoldLeft(LAMBDA total, arg : total + bulklen(Len(arg)), 1 + countDigits(Len(argv)) + 2, argv)

\* redisFormatCommandArgv and redisFormatSdsCommandArgv, and the end of
\* redisvFormatCommand: what is written into that space.
redisFormatCommandArgv(argv) ==
    FoldLeft(LAMBDA bytes, arg : bytes \o <<"$">> \o Decimal(Len(arg)) \o CRLF \o arg \o CRLF,
             <<"*">> \o Decimal(Len(argv)) \o CRLF, argv)

-----------------------------------------------------------------------------
(***************************************************************************)
(* What formatting promises.                                               *)
(***************************************************************************)

\* The words of a text: its longest runs without a space.
Words(text) ==
    LET starts == {i \in DOMAIN text : text[i] # " " /\ (i = 1 \/ text[i - 1] = " ")}
        from(i) == SubSeq(text, i, SkipFrom(text, i, {ch \in ToSet(text) : ch # " "}) - 1)
    IN  [n \in 1..Cardinality(starts) |-> from(SetToSortSeq(starts, <)[n])]

\* No "%" stands before another character.
NoDirective(text) == \A i \in 1..(Len(text) - 1) : text[i] # "%"

\* Without variable arguments a text is sent word by word exactly when it has
\* no directive: any "%" in a value changes, loses or breaks the command.
SentAsWords(text) ==
    LET f == redisvFormatCommand(text, <<>>)
    IN  NoDirective(text) <=> (f.status = "ok" /\ f.argv = Words(text))

\* The space allocated for a command is the space its bytes take.
LengthExact(argv) == CommandLength(argv) = Len(redisFormatCommandArgv(argv))
=============================================================================
