---------------------------- MODULE ProtocolCalls ----------------------------
(***************************************************************************)
(* What callProtocol of each protocol does with the data of a call: the    *)
(* templates of DB_CUSTOM_V3, the input and output options of              *)
(* DB_CUSTOM_V5, raw SQL, stored procedures, and the random strings of     *)
(* MISC.  A call runs on one thread, and what two calls share is           *)
(* elsewhere: sessions in SessionPool, cached statements in                *)
(* StatementCache, ids and answers in ExtCalls.                            *)
(*                                                                         *)
(* A text is a sequence of symbols: Quote, "1" for a character of a number *)
(* and any other string for a character only quotes make a value of.       *)
(***************************************************************************)
EXTENDS Templates

CONSTANTS
    TemplateV3,  \* the template file of a DB_CUSTOM_V3 protocol
    TemplateV5,  \* the template file of a DB_CUSTOM_V5 protocol
    Arguments,   \* lists of inputs, as scripts send them between colons
    Procedures,  \* the four fields of DB_PROCEDURE_V2: [id, name, inputs, outputs]
    Columns,     \* values of the database: [value, type]
    Strings,     \* random strings there are
    MaxWanted,   \* bound: strings asked for at once
    MaxRetrys,   \* 11 in the code
    MaxCalls     \* bound: calls in all

Quote == "\""
Comma == ","

\* custom_protocol and custom_calls, when init has succeeded.
CustomV3 == [c \in DOMAIN TemplateV3 |-> V3Call(TemplateV3, c)]
CustomV5 == [c \in DOMAIN TemplateV5 |-> V5Call(TemplateV5, c)]

\* The calls of both protocols index the inputs, and the characters to strip
\* but the last, without a look: options must name an input there is, and a
\* call that strips must have a character. The strings MISC makes are of letters
\* (chars), so that the comma between two of them is none of them.
ASSUME CallsAssumption ==
    /\ V3Outcomes(TemplateV3) = {"ok"} /\ V5Outcomes(TemplateV5) = {"ok"}
    /\ \A c \in DOMAIN CustomV3 :
          CustomV3[c].bad_chars_action = "NONE" \/ CustomV3[c].bad_chars # <<>>
    /\ \A c \in DOMAIN CustomV5 : \A n \in DOMAIN CustomV5[c].sql_inputs_options :
          \A x \in DOMAIN CustomV5[c].sql_inputs_options[n] :
             LET o == CustomV5[c].sql_inputs_options[n][x]
             IN  /\ o.number \in 1..CustomV5[c].number_of_inputs
                 /\ o.strip => CustomV5[c].strip_chars # <<>>
    /\ \A c \in DOMAIN CustomV3 : CustomV3[c].sql \in Seq(Seq(STRING))
    /\ \A c \in DOMAIN CustomV5 : CustomV5[c].sql_inputs_options \in Seq(Seq(Value_Options))
    /\ Arguments \subseteq Seq(Seq(STRING))
    /\ Comma \notin Strings

VARIABLES
    pc,         \* "idle", or "running" a call
    protocol,   \* the protocol of this or the last call
    call,       \* the definition of the call
    inputs,     \* its inputs, as they go into the SQL
    executed,   \* what the database executed for it, in order
    result,     \* how the last call ended
    uniqueRandomVarNames,   \* per instance of MISC
    handedOut,  \* history: instance, string -> how often it was answered
    calls       \* how many calls there were

vars == <<pc, protocol, call, inputs, executed, result, uniqueRandomVarNames, handedOut, calls>>

Instances == {"MISC", "MISC_V2"}

Init ==
    /\ pc = "idle" /\ protocol = "none" /\ call = <<>> /\ inputs = <<>> /\ executed = <<>>
    /\ result = <<"none">>
    /\ uniqueRandomVarNames = [m \in Instances |-> {}]
    /\ handedOut = [m \in Instances |-> [s \in Strings |-> 0]]
    /\ calls = 0

-----------------------------------------------------------------------------
(* Texts.                                                                  *)

\* erase_all, for each of the characters C.
Erase(C, s) == FlattenSeq([i \in DOMAIN s |-> IF s[i] \in C THEN <<>> ELSE <<s[i]>>])

\* The loop over the characters to strip ends before the last one.
Strip(chars, s) == Erase(Range(Front(chars)), s)

\* What string options do: quotes inside go, quotes around come.
Quoted(s) == <<Quote>> \o Erase({Quote}, s) \o <<Quote>>

\* Sqf::check: numbers and quoted strings, one after another.
QuotesTo(s, i) == Len(SelectSeq(SubSeq(s, 1, i), LAMBDA e : e = Quote))
Check(s) ==
    /\ QuotesTo(s, Len(s)) % 2 = 0
    /\ \A i \in DOMAIN s : QuotesTo(s, i) % 2 = 0 => s[i] \in {Quote, "1"}

\* getBEGUID: the hash of a number, here one symbol.
IsNumber(s) == s # <<>> /\ Range(s) = {"1"}
Hash(s) == IF IsNumber(s) THEN <<"hash">> ELSE <<"Invalid SteamID">>
\* A number of more than 64 bits makes it throw; the texts here do not tell how
\* large a number is.
MayOverflow(s) == IsNumber(s)

\* toArrayAltisLifeRpg.
FromArray(s) == [i \in DOMAIN s |-> IF s[i] = "backquote" THEN Quote ELSE s[i]]
ToArray(s)   == [i \in DOMAIN s |-> IF s[i] = Quote THEN "backquote" ELSE s[i]]

-----------------------------------------------------------------------------
(* DB_CUSTOM_V3: a template is split into texts and the places of inputs.  *)

\* The figures of a number.
Digits == <<"0", "1", "2", "3", "4", "5", "6", "7", "8", "9">>
Decimal(x) ==
    LET d[y \in 0..x] == IF y < 10 THEN <<Digits[y + 1]>>
                         ELSE Append(d[y \div 10], Digits[(y % 10) + 1])
    IN  d[x]
PlaceKinds == {"$INPUT_", "$INPUT_STRING_", "$INPUT_BEGUID_"}

Text(s) == [kind |-> "text", text |-> s, input |-> 0]
Place(k, x) == [kind |-> k, text |-> <<>>, input |-> x]

StartsAt(s, i, t) == i + Len(t) - 1 <= Len(s) /\ SubSeq(s, i, i + Len(t) - 1) = t
Found(s, x) == {i \in DOMAIN s : \E k \in PlaceKinds : StartsAt(s, i, <<k>> \o Decimal(x))}

\* The places of input x in a text.  A text that ends with one stays behind
\* the places it was split into, for only a rest takes it out of the list.
SplitText(x, s) ==
    LET split[i \in 1..Len(s) + 1] ==
            LET found == {n \in Found(s, x) : n >= i}
                n == Min(found)
            IN  IF found # {}
                THEN <<Text(SubSeq(s, i, n - 1)), Place(s[n], x)>> \o split[n + 1 + Len(Decimal(x))]
                ELSE IF i <= Len(s) THEN <<Text(SubSeq(s, i, Len(s)))>> ELSE <<Text(s)>>
    IN  split[1]

SplitInput(x, list) ==
    FlattenSeq([i \in DOMAIN list |-> IF list[i].kind # "text" THEN <<list[i]>>
                                      ELSE SplitText(x, list[i].text)])

\* Mutant: from the first input to the last.
InputOrderUp(n) == [i \in 1..n |-> i]
\* From the last input to the first: "$INPUT_1" begins "$INPUT_10".
InputOrder(n) == [i \in 1..n |-> n + 1 - i]
Split(sql, n) ==
    LET list[k \in 0..n] == IF k = 0 THEN <<Text(sql)>> ELSE SplitInput(InputOrder(n)[k], list[k - 1])
    IN  list[n]

\* getBEGUID of this protocol puts quotes around a hash, and none around an error.
QuotedHash(s) == IF Hash(s) = <<"hash">> THEN <<Quote>> \o Hash(s) \o <<Quote>> ELSE Hash(s)

\* What is put in a place, and whether it passes; a BEGUID is not checked.
Put(e) == CASE e.kind = "text" -> e.text
            [] e.kind = "$INPUT_" -> inputs[e.input]
            [] e.kind = "$INPUT_STRING_" -> Quoted(inputs[e.input])
            [] OTHER -> QuotedHash(inputs[e.input])
Passes(e) == e.kind \in {"$INPUT_", "$INPUT_STRING_"} /\ call.sanitize_value_check => Check(Put(e))

Running(p) ==
    /\ pc = "running" /\ protocol = p
    /\ UNCHANGED <<protocol, call, inputs, uniqueRandomVarNames, handedOut, calls>>
Begins(p) ==
    /\ pc = "idle" /\ calls < MaxCalls /\ calls' = calls + 1 /\ protocol' = p
Begin(p) == Begins(p) /\ UNCHANGED <<uniqueRandomVarNames, handedOut>>
\* A call that brings nothing to a database.
Nothing == call' = <<>> /\ inputs' = <<>> /\ executed' = <<>>
Ends(r) == pc' = "idle" /\ result' = r
Error(what) == <<"error", what>>
\* An exception ends the server on a worker thread; in a synchronous call
\* callExtenion catches those of Poco and spdlog.
Throws(answer) == Ends(<<"throws">>) \/ Ends(Error(answer))

\* callExtenion answers itself what is too short to be a call, ...
TooShort == Begin("none") /\ Nothing /\ Ends(Error("Invalid Message"))
\* ... what begins with no mode, and system calls there are none of.
NoSuchCall ==
    /\ Begin("none") /\ Nothing
    /\ Ends(Error("Invalid Message")) \/ Ends(Error("Invalid Format"))

\* callProtocol: a name that is no call, or a wrong number of inputs.
V3Refused(c, args) ==
    /\ Begin("v3") /\ Nothing
    /\ \/ c \notin DOMAIN CustomV3 /\ Ends(Error("No Custom Call Not Found"))
       \/ /\ c \in DOMAIN CustomV3 /\ CustomV3[c].number_of_inputs # Len(args)
          /\ Ends(Error("Incorrect Number of Inputs"))

Stripped(def, args) ==
    IF def.bad_chars_action \in {"STRIP", "STRIP+LOG", "STRIP+ERROR"}
    THEN [i \in DOMAIN args |-> Strip(def.bad_chars, args[i])] ELSE args

V3Begins(c, args) ==
    /\ Begin("v3") /\ executed' = <<>>
    /\ c \in DOMAIN CustomV3 /\ CustomV3[c].number_of_inputs = Len(args)
    /\ call' = CustomV3[c]
    /\ inputs' = Stripped(CustomV3[c], args)
    /\ IF inputs' # args /\ CustomV3[c].bad_chars_action = "STRIP+ERROR"
       THEN Ends(Error("Bad Char Found"))
       ELSE pc' = "running" /\ UNCHANGED result

\* callCustomProtocol, one statement: an input that does not pass ends the
\* call, but what was executed stays executed.
V3Statement ==
    LET list == Split(call.sql[Len(executed) + 1], call.number_of_inputs)
    IN  /\ Running("v3") /\ Len(executed) < Len(call.sql)
        /\ \/ /\ \E i \in DOMAIN list : ~Passes(list[i])
              /\ Ends(Error("Values Input is not sanitized")) /\ UNCHANGED executed
           \/ /\ \A i \in DOMAIN list : Passes(list[i])
              /\ executed' = Append(executed, FlattenSeq([i \in DOMAIN list |-> Put(list[i])]))
              /\ UNCHANGED <<pc, result>>
           \/ /\ \A i \in DOMAIN list : Passes(list[i])
              /\ Ends(Error("Exception")) /\ UNCHANGED executed
           \/ /\ \E i \in DOMAIN list :
                    /\ list[i].kind = "$INPUT_BEGUID_" /\ MayOverflow(inputs[list[i].input])
                    /\ \A j \in 1..i - 1 : Passes(list[j])
              /\ Throws("Error") /\ UNCHANGED executed

-----------------------------------------------------------------------------
(* Rows.  A row is one column here, and a table one row or none.           *)

\* An empty value is "" in SQF, a string is quoted where the call says so.
Field(value, quote) == IF value = <<>> THEN <<Quote, Quote>>
                       ELSE IF quote THEN <<Quote>> \o value \o <<Quote>> ELSE value

V3Result ==
    /\ Running("v3") /\ Len(executed) = Len(call.sql)
    /\ \/ Ends(Error("Exception"))
       \/ Ends(<<"rows">>)
       \/ executed # <<>> /\ \E col \in Columns :
             Ends(<<"rows", Field(col.value, call.string_datatype_check /\ col.type = "string")>>)
    /\ UNCHANGED executed

-----------------------------------------------------------------------------
(* DB_CUSTOM_V5: every line has options for its inputs.                    *)

\* The value an option makes of an input.
Unstripped(o, args) == args[o.number]
Input(o, def, args) == IF o.strip THEN Strip(def.strip_chars, args[o.number]) ELSE args[o.number]
Arrayed(o, def, args) == IF o.array THEN ToArray(Input(o, def, args)) ELSE Input(o, def, args)
Value(o, def, args) ==
    LET array == Arrayed(o, def, args)
        guid  == IF o.beguid THEN Hash(array) ELSE array
    IN  IF o.string THEN Quoted(guid) ELSE guid

\* abort_status after an option: a check sets it, whatever it was before.
Abort(before, o, def, args) ==
    IF o.check THEN ~Check(Value(o, def, args))
    ELSE before \/ (def.strip_chars_action = 3 /\ Input(o, def, args) # Unstripped(o, args))

AbortsLine(options, def, args) ==
    LET abort[x \in 0..Len(options)] == x > 0 /\ Abort(abort[x - 1], options[x], def, args)
    IN  abort[Len(options)]

\* The answer to a wrong number of inputs is made but not given: the line for
\* the log ends in "Got: {1]", which the logger cannot format.
V5Refused(c, args) ==
    /\ Begin("v5") /\ Nothing
    /\ \/ c \notin DOMAIN CustomV5 /\ Ends(Error("No Custom Call Not Found"))
       \/ /\ c \in DOMAIN CustomV5 /\ CustomV5[c].number_of_inputs # Len(args)
          /\ Throws("Error LOGGER")

\* All lines are processed before the first is executed.
V5Begins(c, args) ==
    LET def == CustomV5[c]
        lines == def.sql_inputs_options
    IN  /\ Begin("v5") /\ executed' = <<>>
        /\ c \in DOMAIN CustomV5 /\ def.number_of_inputs = Len(args)
        /\ call' = def
        /\ inputs' = [n \in DOMAIN lines |->
                        [x \in DOMAIN lines[n] |-> Value(lines[n][x], def, args)]]
        /\ IF \E n \in DOMAIN lines : AbortsLine(lines[n], def, args)
           THEN Ends(Error("Values Input")) ELSE pc' = "running" /\ UNCHANGED result

\* getBEGUID throws at a value of a line no line before which has aborted.
V5Overflows(c, args) ==
    LET def == CustomV5[c]
        lines == def.sql_inputs_options
    IN  /\ Begin("v5") /\ executed' = <<>>
        /\ c \in DOMAIN CustomV5 /\ def.number_of_inputs = Len(args)
        /\ \E n \in DOMAIN lines : \E x \in DOMAIN lines[n] :
              /\ lines[n][x].beguid /\ MayOverflow(Arrayed(lines[n][x], def, args))
              /\ \A k \in 1..n - 1 : ~AbortsLine(lines[k], def, args)
        /\ call' = def /\ inputs' = <<>>
        /\ Throws("Error")

\* callCustomProtocol and executeSQL; StatementCache has the statements.
V5Statement ==
    /\ Running("v5") /\ Len(executed) < Len(inputs)
    /\ \/ executed' = Append(executed, inputs[Len(executed) + 1]) /\ UNCHANGED <<pc, result>>
       \/ Ends(Error("Exception")) /\ UNCHANGED executed

\* getResult: the value of a column that has options.
OutputArray(o, col) == IF o.array THEN FromArray(col.value) ELSE col.value
OutputValue(o, col) ==
    LET array == OutputArray(o, col)
        guid  == IF o.beguid THEN Hash(array) ELSE array
    IN  IF o.string \/ guid = <<>> \/ (o.string_datatype_check /\ col.type = "string") THEN Quoted(guid) ELSE guid

Output(col) ==
    LET options == call.sql_outputs_options
    IN  IF options = <<>> THEN <<"rows", Field(col.value, call.string_datatype_check /\ col.type = "string")>>
        ELSE IF options[1].check /\ ~Check(OutputValue(options[1], col))
        THEN Error("Values Input is not sanitized")
        ELSE <<"rows", OutputValue(options[1], col)>>

OutputOverflows(col) ==
    LET options == call.sql_outputs_options
    IN  options # <<>> /\ options[1].beguid /\ MayOverflow(OutputArray(options[1], col))

\* A call without lines, like "Default", has no result.
V5Result ==
    /\ Running("v5") /\ Len(executed) = Len(inputs)
    /\ \/ inputs = <<>> /\ Ends(<<"no result">>)
       \/ inputs # <<>> /\ Ends(Error("Exception"))
       \/ inputs # <<>> /\ Ends(<<"rows">>)
       \/ inputs # <<>> /\ \E col \in Columns :
             Ends(Output(col)) \/ (OutputOverflows(col) /\ Throws("Error"))
    /\ UNCHANGED executed

-----------------------------------------------------------------------------
(* DB_RAW_V3: the data is the statement.                                   *)

RawBegins(sql) == Begin("raw") /\ call' = <<>> /\ inputs' = <<sql>>

RawCall(sql, stringDataTypeCheck) ==
    /\ RawBegins(sql)
    /\ executed' = <<sql>>
    /\ \/ Ends(<<"rows">>)
       \/ \E col \in Columns :
             LET quote == col.type = "date" \/ (stringDataTypeCheck /\ col.type = "string")
             IN  Ends(<<"rows", IF quote THEN Quoted(col.value) ELSE Field(col.value, FALSE)>>)

\* There is no session, or an exception before or after the statement has run.
RawFails(sql) ==
    /\ RawBegins(sql)
    /\ executed' \in {<<>>, <<sql>>}
    /\ Ends(Error("Exception"))

-----------------------------------------------------------------------------
(* DB_PROCEDURE_V2: "id|'name'|inputs|outputs".                            *)

WellFormed(p) == Len(p.name) >= 3 /\ Range(p.id) \subseteq {"1"}
\* Mutant: the inputs are not checked.
SanitizedNames(p) == Check(p.id) /\ Check(p.name)
Sanitized(p) == Check(p.id) /\ Check(p.name) /\ \A i \in DOMAIN p.inputs : Check(p.inputs[i])

ProcedureRefused(p) ==
    /\ Begin("procedure") /\ Nothing
    /\ \/ ~WellFormed(p) /\ Ends(Error("Invalid Format"))
       \/ WellFormed(p) /\ ~Sanitized(p) /\ Ends(Error("Invalid Value"))

\* The statement "call name(inputs, @Output...)", and with outputs a SELECT.
ProcedureCall(p) ==
    LET name == SubSeq(p.name, 2, Len(p.name) - 1)
    IN  /\ Begin("procedure")
        /\ WellFormed(p) /\ Sanitized(p)
        /\ call' = p /\ inputs' = p.inputs
        /\ \/ Ends(Error("Exception")) /\ executed' = <<>>
           \/ /\ executed' = <<<<name>> \o p.inputs>>
              /\ Ends(IF p.outputs = 0 THEN <<"rows">> ELSE Error("Exception"))
           \/ /\ p.outputs > 0
              /\ executed' = <<<<name>> \o p.inputs, <<"SELECT">>>>
              /\ \E col \in Columns : Ends(<<"rows", Field(col.value, col.type = "string")>>)

\* getDBSession throws outside the try blocks of these three protocols.
NoSession ==
    \/ (Running("v3") \/ Running("v5")) /\ executed = <<>> /\ Throws("Error")
       /\ UNCHANGED executed
    \/ Begin("procedure") /\ Throws("Error") /\ Nothing

-----------------------------------------------------------------------------
(* MISC and MISC_V2, which puts its answers into [1, ...].                 *)

Wrapped(m, value) ==
    <<"value">> \o (IF m = "MISC" THEN value ELSE <<"[1,">> \o value \o <<"]">>)
Said(m, value) == Ends(Wrapped(m, value)) /\ Nothing /\ Begin("misc")

\* "TIME:hours"; the date is not modelled.  Hours that are no number throw.
Time(m, data) ==
    \/ data = <<>> /\ Said(m, <<"now">>)
    \/ IsNumber(data) /\ Said(m, <<"later">>)
    \/ data # <<>> /\ ~IsNumber(data) /\ Throws("Error") /\ Nothing /\ Begin("misc")

\* getBEGUID; the error of MISC_V2 has no "]".
BeGuid(data) == IF IsNumber(data) THEN <<Quote, "hash", Quote>> ELSE <<"Invalid SteamID">>
BeGuidV2(data) == IF IsNumber(data) THEN Wrapped("MISC_V2", BeGuid(data))
                  ELSE <<"value", "[0,", Quote>> \o BeGuid(data) \o <<Quote>>

\* "BEGUID:id".
Guid(m, data) ==
    /\ \/ Ends(IF m = "MISC" THEN <<"value">> \o BeGuid(data) ELSE BeGuidV2(data))
       \/ MayOverflow(data) /\ Throws("Error")
    /\ Nothing /\ Begin("misc")

\* "CRC32:text", which both put into [1, ...], "MD4:text", "MD5:text".
Digest(m, command) ==
    Said(IF command = "CRC32" THEN "MISC_V2" ELSE m, <<Quote, "digest", Quote>>)

\* "TEST:text", and a command that is none.
Test(data) == Ends(<<"value">> \o data) /\ Nothing /\ Begin("misc")
UnknownCommand == Ends(Error("Invalid Format")) /\ Nothing /\ Begin("misc")

\* getRandomString: not two fields, fields that are no numbers, none wanted.
RandomRefused(m) ==
    /\ \E why \in {"Syntax", "Invalid Number", "Number of Variable <= 0"} :
          Ends(IF m = "MISC" THEN <<"value", "[]">> ELSE Error(why))
    /\ Nothing /\ Begin("misc")

\* Mutant: a string is not remembered.
RememberNothing(names, s) == names
Remember(names, s) == names \cup {s}

\* getRandomString, the loop after it drew the strings of `drawn` so far; a
\* string that is known makes the list one shorter, and too many end it.
Draw(st, s) ==
    IF st.i >= st.wanted \/ st.stop THEN st
    ELSE IF s \in st.names
    THEN [st EXCEPT !.i = @ + 1, !.wanted = @ - 1, !.retrys = @ + 1,
                    !.stop = st.retrys + 1 > MaxRetrys]
    ELSE [st EXCEPT !.i = @ + 1, !.retrys = 0, !.names = Remember(@, s),
                    !.list = @ \o (IF st.i # 0 THEN <<Comma, s>> ELSE <<s>>)]

Drawn(m, drawn) ==
    LET st[i \in 0..Len(drawn)] ==
            IF i > 0 THEN Draw(st[i - 1], drawn[i])
            ELSE [i |-> 0, wanted |-> Len(drawn), retrys |-> 0, stop |-> FALSE,
                  names |-> uniqueRandomVarNames[m], list |-> <<>>]
    IN  st[Len(drawn)]

\* The answer: MISC puts a 1 before the strings, but for an empty list.
ListOf(m, list, empty) ==
    <<"value">> \o (IF m # "MISC" THEN <<"[1,[">> ELSE IF empty THEN <<"[">> ELSE <<"[1,">>)
    \o list \o (IF m # "MISC" THEN <<"]]">> ELSE <<"]">>)

\* "RANDOM_UNIQUE_STRING:n:length", under mutex_RandomString.
RandomUnique(m, drawn) ==
    LET st == Drawn(m, drawn)
    IN  /\ Begins("misc")
        /\ uniqueRandomVarNames' = [uniqueRandomVarNames EXCEPT ![m] = st.names]
        /\ handedOut' = [handedOut EXCEPT ![m] =
              [s \in Strings |-> @[s] + Cardinality({k \in DOMAIN st.list : st.list[k] = s})]]
        /\ Ends(ListOf(m, st.list, st.stop /\ st.wanted = 0))
        /\ Nothing

\* "RANDOM_STRING:n:length": what is drawn is put nowhere.
RandomString(m) == Ends(ListOf(m, <<>>, FALSE)) /\ Nothing /\ Begin("misc")

Misc(m) ==
    \/ \E args \in Arguments : \E i \in DOMAIN args :
          Time(m, args[i]) \/ Guid(m, args[i]) \/ Test(args[i])
    \/ \E command \in {"CRC32", "MD4", "MD5"} : Digest(m, command)
    \/ UnknownCommand \/ RandomRefused(m) \/ RandomString(m)
    \/ \E n \in 1..MaxWanted : \E drawn \in [1..n -> Strings] : RandomUnique(m, drawn)

-----------------------------------------------------------------------------
(* LOG.                                                                    *)

\* The text is given to the logger as a format: a brace that belongs to no
\* argument throws a spdlog_ex.
IsFormat(text) == "{" \notin Range(text)

LogCall(text) ==
    /\ Begin("log") /\ Nothing
    /\ IF IsFormat(text) THEN Ends(<<"value", "[1]">>) ELSE Throws("Error LOGGER")

Next ==
    \/ \E c \in DOMAIN CustomV3 \cup {"no call"}, args \in Arguments :
          V3Refused(c, args) \/ V3Begins(c, args)
    \/ V3Statement \/ V3Result
    \/ \E c \in DOMAIN CustomV5 \cup {"no call"}, args \in Arguments :
          V5Refused(c, args) \/ V5Begins(c, args) \/ V5Overflows(c, args)
    \/ V5Statement \/ V5Result
    \/ NoSession
    \/ \E args \in Arguments, quotes \in BOOLEAN :
          \E i \in DOMAIN args : RawCall(args[i], quotes)
    \/ \E args \in Arguments : \E i \in DOMAIN args : RawFails(args[i]) \/ LogCall(args[i])
    \/ TooShort \/ NoSuchCall
    \/ \E p \in Procedures : ProcedureRefused(p) \/ ProcedureCall(p)
    \/ \E m \in Instances : Misc(m)

Spec == Init /\ [][Next]_vars

-----------------------------------------------------------------------------
(* Properties.                                                             *)

\* What a template means: from left to right, each place of an input with the
\* longest number there is.
Scan(sql, n) ==
    LET inputsAt(i) == {x \in 1..n : sql[i] \in PlaceKinds /\ StartsAt(sql, i + 1, Decimal(x))}
        f[i \in 1..Len(sql) + 1] ==
            CASE i > Len(sql) -> <<>>
              [] i <= Len(sql) /\ inputsAt(i) = {} -> <<Text(<<sql[i]>>)>> \o f[i + 1]
              [] OTHER -> LET x == Max(inputsAt(i))
                          IN  <<Place(sql[i], x)>> \o f[i + 1 + Len(Decimal(x))]
    IN  f[1]

Meaning == [n \in DOMAIN call.sql |-> Scan(call.sql[n], call.number_of_inputs)]
TextAfterPlaces(list) ==
    \A i \in DOMAIN list : list[i].kind # "text" => i < Len(list) /\ list[i + 1].kind = "text"

IsWhole(n) == executed[n] = FlattenSeq([i \in DOMAIN Meaning[n] |-> Put(Meaning[n][i])])

\* A DB_CUSTOM_V3 call executes each template in which text follows every place
\* with the places replaced by the stripped inputs they name, although init
\* splits the text once per input and "$INPUT_1" begins "$INPUT_10".  A text that
\* ends in a place, or has two in a row, is executed with the text it was split
\* from still in it (SplitText).
RunsTemplate ==
    protocol = "v3" /\ pc = "running" =>
        \A n \in DOMAIN executed : TextAfterPlaces(Meaning[n]) => IsWhole(n)

\* What a DB_CUSTOM_V3 statement or a procedure call brings to the database passed
\* Sqf::check where the call asks for it, whatever init made of the template and
\* in whatever order the code finds an input that does not pass.  Of DB_CUSTOM_V5
\* this is false: there a later value that passes lets an earlier one through.
OnlyCheckedRuns ==
    /\ protocol = "v3" /\ pc = "running" /\ call.sanitize_value_check =>
          \A n \in DOMAIN executed : \A i \in DOMAIN Meaning[n] :
              Meaning[n][i].kind \in {"$INPUT_", "$INPUT_STRING_"} => Check(Put(Meaning[n][i]))
    /\ protocol = "procedure" /\ executed # <<>> =>
          /\ Check(call.name)
          /\ \A i \in DOMAIN inputs : Check(inputs[i])

\* RANDOM_UNIQUE_STRING: an instance never answers with a string twice, not in
\* one list nor in two, also when it gives up after too many retries.
UniqueStrings == \A m \in Instances, s \in Strings : handedOut[m][s] <= 1
=============================================================================
