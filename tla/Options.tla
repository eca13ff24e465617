------------------------------- MODULE Options ------------------------------
(***************************************************************************)
(* From the command line to a database: ParseCommandLine and the start of  *)
(* main (ycsbc.cc), Properties (core/properties.h) with Trim and StrToBool *)
(* (core/utils.h), and DBFactory::CreateDB (db/db_factory.cc).             *)
(*                                                                         *)
(* A text is a sequence of words, blanks (" "), "=" and "#"; a file is a   *)
(* sequence of lines.  A property that is missing has no entry in props.   *)
(***************************************************************************)
EXTENDS Integers, SequencesExt

CONSTANTS CommandLines,   \* the command lines: sequences of arguments
          PropertyFiles,  \* for each name of a file that opens, its lines
          Numbers         \* the words that are numbers

ASSUME OptionsAssumption ==
    /\ CommandLines \subseteq Seq(STRING)
    /\ \A name \in DOMAIN PropertyFiles : PropertyFiles[name] \in Seq(Seq(STRING))

VARIABLES argv,           \* the arguments after the program's name
          argindex,       \* the next one
          props,          \* properties_: texts to texts
          startup         \* how far the process is, or how it ended

optionVars == <<argv, argindex, props, startup>>

-----------------------------------------------------------------------------
(* Properties and utils *)

IsBlank(word) == word = " "

Trim(text) ==
    LET front == SelectInSeq(text, LAMBDA w : ~IsBlank(w))
    IN  IF front = 0 THEN <<>>
        ELSE SubSeq(text, front, SelectLastInSeq(text, LAMBDA w : ~IsBlank(w)))

SetProperty_Insert(p, key, value) ==
    [k \in DOMAIN p \cup {key} |-> IF k \in DOMAIN p THEN p[k] ELSE value]

SetProperty(p, key, value) ==
    [k \in DOMAIN p \cup {key} |-> IF k = key THEN value ELSE p[k]]

GetProperty(p, key, default) == IF key \in DOMAIN p THEN p[key] ELSE default

\* operator[] for these keys: a missing property becomes an empty one.
Subscript(p, keys) == [key \in DOMAIN p \cup keys |-> GetProperty(p, key, <<>>)]

\* The lines Load uses: no "#" at the very start, and a "=".
Used(line) == Contains(line, "=") /\ Head(line) # "#"

\* One line: the key before the first "=", the value after it.
LoadLine(p, line) ==
    LET pos == SelectInSeq(line, LAMBDA w : w = "=")
    IN  SetProperty(p, Trim(SubSeq(line, 1, pos - 1)), Trim(SubSeq(line, pos + 1, Len(line))))

\* Line by line.
Load(p, lines) ==
    LET loaded[i \in 0..Len(lines)] ==
            IF i = 0 THEN p
            ELSE IF Used(lines[i]) THEN LoadLine(loaded[i - 1], lines[i]) ELSE loaded[i - 1]
    IN  loaded[Len(lines)]

\* stoi reads a number at the start of a text, and throws when there is none.
IsNumber(text) == text # <<>> /\ text[1] \in Numbers

\* StrToBool throws for other texts.
IsBool(text) == text \in {<<"true">>, <<"True">>, <<"1">>, <<"false">>, <<"False">>, <<"0">>}

-----------------------------------------------------------------------------
(* ParseCommandLine *)

\* The options with one value and the properties they set.
OptionKeys ==
    [arg \in {"-threads", "-db", "-host", "-port", "-slaves", "-dbfilename", "-configpath",
              "-skipLoad", "-requestdistribution", "-zipfianconst", "-readTheadNums"} |->
        CASE arg = "-threads" -> "threadcount"
          [] arg = "-db" -> "dbname"
          [] arg = "-host" -> "host"
          [] arg = "-port" -> "port"
          [] arg = "-slaves" -> "slaves"
          [] arg = "-dbfilename" -> "dbfilename"
          [] arg = "-configpath" -> "configpath"
          [] arg = "-skipLoad" -> "skipLoad"
          [] arg = "-requestdistribution" -> "requestdistribution"
          [] arg = "-zipfianconst" -> "zipfianconst"
          [] arg = "-readTheadNums" -> "readTheadNums"]

StrStartWith(arg) == arg \in DOMAIN OptionKeys \cup {"-P", "-load"}

OptionsInit ==
    /\ argv \in CommandLines /\ argindex = 1 /\ startup = "parsing"
    /\ props = [key \in {} |-> <<>>]

Reading == startup = "parsing" /\ argindex <= Len(argv) /\ StrStartWith(argv[argindex])
HasValue == argindex + 1 <= Len(argv)

\* An option that sets a property; UsageMessage and exit(0) without a value.
Option ==
    /\ Reading /\ argv[argindex] \in DOMAIN OptionKeys
    /\ IF HasValue
       THEN /\ props' = SetProperty(props, <<OptionKeys[argv[argindex]]>>, <<argv[argindex + 1]>>)
            /\ argindex' = argindex + 2 /\ UNCHANGED startup
       ELSE startup' = "exited 0" /\ UNCHANGED <<props, argindex>>
    /\ UNCHANGED argv

\* -P: Load throws utils::Exception for a file that is not open; the handler here
\* is for strings, so nobody catches it.
PropertyFile ==
    /\ Reading /\ argv[argindex] = "-P"
    /\ IF HasValue /\ argv[argindex + 1] \in DOMAIN PropertyFiles
       THEN /\ props' = Load(props, PropertyFiles[argv[argindex + 1]])
            /\ argindex' = argindex + 2 /\ UNCHANGED startup
       ELSE /\ startup' = IF HasValue THEN "terminated" ELSE "exited 0"
            /\ UNCHANGED <<props, argindex>>
    /\ UNCHANGED argv

UnknownOption ==
    /\ Reading /\ argv[argindex] \notin DOMAIN OptionKeys \cup {"-P"}
    /\ startup' = "exited 0"
    /\ UNCHANGED <<argv, argindex, props>>

\* No option at all, or an argument that is none, is a usage error.
EndOfOptions ==
    /\ startup = "parsing"
    /\ argindex <= Len(argv) => ~StrStartWith(argv[argindex])
    /\ startup' = IF argindex = 1 \/ argindex # Len(argv) + 1 THEN "exited 0" ELSE "parsed"
    /\ UNCHANGED <<argv, argindex, props>>

-----------------------------------------------------------------------------
(* CreateDB and main *)

dbname == GetProperty(props, <<"dbname">>, <<>>)

InMemory == {<<"basic">>, <<"lock_stl">>, <<"tbb_rand">>, <<"tbb_scan">>}
Stores == {<<"leveldb">>, <<"rocksdb">>, <<"leveldbVlog">>}

\* The properties a database is made from, each looked up with operator[].
DBKeys(name) ==
    CASE name = <<"redis">> -> {<<"port">>, <<"slaves">>, <<"host">>}
      [] name \in Stores -> {<<"dbfilename">>, <<"configpath">>}
      [] OTHER -> {}

\* The constructor runs; for redis, stoi throws when port or slaves is no number.
\* Without a known name CreateDB returns NULL and main exits.
CreateDB ==
    /\ startup = "parsed"
    /\ props' = Subscript(props, {<<"dbname">>} \cup DBKeys(dbname))
    /\ startup' =
          CASE dbname \in Stores -> "constructing"
            [] dbname \in InMemory -> "created"
            [] dbname = <<"redis">> ->
                  IF \A key \in {<<"port">>, <<"slaves">>} : IsNumber(GetProperty(props, key, <<>>))
                  THEN "created" ELSE "terminated"
            [] OTHER -> "exited 0"
    /\ UNCHANGED <<argv, argindex>>

\* The database is there: main reads threadcount and skipLoad.
Begins ==
    /\ startup = "created"
    /\ startup' = IF /\ IsNumber(GetProperty(props, <<"threadcount">>, <<"1">>))
                     /\ IsBool(GetProperty(props, <<"skipLoad">>, <<"false">>))
                  THEN "running" ELSE "terminated"
    /\ UNCHANGED <<argv, argindex, props>>

OptionsNext == Option \/ PropertyFile \/ UnknownOption \/ EndOfOptions \/ CreateDB \/ Begins

-----------------------------------------------------------------------------
(* Properties *)

\* The text without the blanks around it.
Stripped(text) ==
    LET words == {j \in DOMAIN text : text[j] # " "}
    IN  IF words = {} THEN <<>> ELSE SubSeq(text, Min(words), Max(words))

\* A line of a property file that gives a property, and the key and value it gives.
Gives(line) == line # <<>> /\ line[1] # "#" /\ \E j \in DOMAIN line : line[j] = "="
KeyAndValue(line) ==
    LET eq == CHOOSE j \in DOMAIN line : line[j] = "=" /\ \A m \in 1..(j - 1) : line[m] # "="
    IN  <<Stripped(SubSeq(line, 1, eq - 1)), Stripped(SubSeq(line, eq + 1, Len(line)))>>

\* What the option at i gives: its property, or one at each line of its file.
Given(i) ==
    IF argv[i] = "-P"
    THEN LET lines == PropertyFiles[argv[i + 1]]
         IN  [n \in {m \in DOMAIN lines : Gives(lines[m])} |-> KeyAndValue(lines[n])]
    ELSE [n \in {1} |-> << <<OptionKeys[argv[i]]>>, <<argv[i + 1]>> >>]

\* Of the options before end, the last that gives a property gives its value.
OptionsBefore(end) == {i \in 1..(end - 1) : i % 2 = 1}
LastWins(end) ==
    \A i \in OptionsBefore(end) : \A n \in DOMAIN Given(i) :
        LET key == Given(i)[n][1]
            last == \A j \in OptionsBefore(end) : \A m \in DOMAIN Given(j) :
                       j > i \/ (j = i /\ m > n) => Given(j)[m][1] # key
        IN  last => GetProperty(props, key, <<>>) = Given(i)[n][2]

\* Later options and lines override earlier ones ("will be processed in the order
\* specified"), whether they come from the command line or from a file: once the
\* arguments are read, every property has the value that was given to it last.
LastGivenWins ==
    startup \in {"parsed", "constructing", "created", "running"} => LastWins(Len(argv) + 1)
=============================================================================
