----------------------------- MODULE MCProtocols -----------------------------
(* A small instance of ProtocolCalls: templates with one, two and ten inputs, *)
(* statements that end in text and that end in a place, calls that strip or   *)
(* check, and inputs with quotes, letters, braces and characters to strip.    *)
EXTENDS ProtocolCalls

Sql(text) == <<1, 1>> :> text
V3(n, action, sql) ==
    "Number of Inputs" :> n @@ "Bad Chars Action" :> action @@ "SQL" :> sql

SmallV3 ==
    [Default |-> "Version" :> 4 @@ "Bad Chars" :> <<";", "#">>,
     ping    |-> "SQL" :> Sql(<<"select">>),
     rename  |-> V3(1, "STRIP", Sql(<<"update", "$INPUT_STRING_", "1", ";">>)
                                @@ <<2, 1>> :> <<"select", "$INPUT_", "1">>
                                @@ <<4, 1>> :> <<"never">>),
     player  |-> V3(1, "STRIP+ERROR", Sql(<<"where">>) @@ <<1, 2>> :> <<"$INPUT_BEGUID_", "1", ";">>),
     pair    |-> V3(2, "STRIP+LOG",
                    Sql(<<"set", "$INPUT_", "2", "where", "$INPUT_", "1", "or", "$INPUT_STRING_", "1", ";">>)),
     wide    |-> "Sanitize Value Check" :> FALSE
                 @@ V3(10, "NONE", Sql(<<"in", "$INPUT_", "1", "0", ",", "$INPUT_", "1", ",",
                                         "$INPUT_STRING_", "3", ")">>))]

Option(n, words) == [number |-> n, words |-> words]
V5(n, action, in, out) ==
    "Number of Inputs" :> n @@ "Strip Chars Action" :> action @@ "INPUTS" :> in @@ "OUTPUT" :> out
    @@ "SQL" :> [k \in {<<i, 1>> : i \in DOMAIN in} |-> <<"?">>]

SmallV5 ==
    [Default |-> "Version" :> 7 @@ "Strip Chars" :> <<";", "#">>
                 @@ "Sanitize Input Value Check" :> FALSE
                 @@ "Sanitize Output Value Check" :> FALSE @@ "String Datatype Check" :> FALSE,
     ping    |-> V5(0, "Strip", << <<>> >>, <<>>),
     rename  |-> V5(1, "Strip", << <<Option(1, <<"Strip", "String", "NoCheck", "Check">>)>>,
                                   <<Option(1, <<"AltisLifeRPG_Array">>)>> >>,
                    <<Option(1, <<"AltisLifeRPG_Array", "Check">>)>>),
     player  |-> V5(1, "Strip+Error", << <<Option(1, <<"Strip", "BeGUID">>)>> >>, <<Option(1, <<"BeGUID">>)>>),
     pair    |-> V5(2, "Strip+Log", << <<Option(2, <<"Check">>), Option(1, <<"Strip", "Check">>)>> >>,
                    <<Option(1, <<"String">>)>>)]

Values == {<<>>, <<"1">>, <<"b">>, <<"b", ";">>, <<Quote, "b", Quote>>, <<Quote>>, <<"1", "#">>, <<"{">>}
Same(s, n) == [i \in 1..n |-> s]
SmallArguments ==
    {<<>>} \cup {<<v>> : v \in Values} \cup {<<v, w>> : v, w \in {<<"1">>, <<"b", ";">>, <<Quote>>}}
    \cup {[Same(<<"1">>, 10) EXCEPT ![1] = v, ![10] = w] : v, w \in {<<"b">>, <<Quote>>}}

SmallProcedures ==
    [id : {<<"1">>, <<"b">>}, name : {<<Quote, "p", Quote>>, <<"p">>},
     inputs : {<<>>, <<<<"1">>>>, <<<<"1">>, <<"b">>>>}, outputs : {0, 1}]

SmallColumns == [value : {<<>>, <<"b">>, <<"1">>, <<Quote, "b">>}, type : {"string", "date", "number"}]
=============================================================================
