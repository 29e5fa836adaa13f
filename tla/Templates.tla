------------------------------ MODULE Templates ------------------------------
(***************************************************************************)
(* The template files of DB_CUSTOM_V3 and DB_CUSTOM_V5, and what init      *)
(* makes of them.  A file is a function from its sections, "Default" among *)
(* them, to their settings; a section is a function from the names of the  *)
(* settings it has to their values.  "SQL" stands for the keys SQLn_k (a   *)
(* function from <<n, k>> to a text), "INPUTS" for the keys SQLn_INPUTS.   *)
(* An option is the number and the words it is written with.               *)
(***************************************************************************)
EXTENDS Integers, SequencesExt

CONSTANT Malformed   \* a value that is neither a number nor a truth value

Has(section, name) == name \in DOMAIN section
Setting(section, name, default) == IF Has(section, name) THEN section[name] ELSE default

\* getInt and getBool throw when they read such a value.
ReadsMalformed(section, names) ==
    \E name \in names : Setting(section, name, 0) = Malformed

\* The largest n such that 1..n are all there.
Consecutive(S) == Max({0} \cup {n \in S : 1..n \subseteq S})

NoSql == [k \in {} |-> <<>>]
Keys(section) == DOMAIN Setting(section, "SQL", NoSql)

\* SQL1_1, SQL2_1, ... until one is missing.
Lines(section) == Consecutive({k[1] : k \in {key \in Keys(section) : key[2] = 1}})

\* SQLn_1, SQLn_2, ... until one is missing.
LineText(section, n) ==
    LET parts == Consecutive({k[2] : k \in {key \in Keys(section) : key[1] = n}})
    IN  FlattenSeq([k \in 1..parts |-> section["SQL"][<<n, k>>]])

Statements(section) == [n \in 1..Lines(section) |-> LineText(section, n)]

\* The outcomes of a file from those of its sections, which are read in an
\* order the library chooses; a section that throws or loops ends it.
Outcomes(found) ==
    IF found \cap {"throws", "loops"} # {} THEN found \cap {"throws", "loops"}
    ELSE IF "false" \in found THEN {"false"} ELSE {"ok"}

-----------------------------------------------------------------------------
(* DB_CUSTOM_V3.                                                           *)

V3Numbers == {"Number of Inputs", "String Datatype Check", "Sanitize Value Check"}
V3Actions == {"NONE", "STRIP", "STRIP+LOG", "STRIP+ERROR"}

\* The call a section describes, "Default" included.
V3Call(file, s) ==
    LET default(name, value) == Setting(file["Default"], name, value)
        setting(name, value) == Setting(file[s], name, default(name, value))
    IN  [number_of_inputs      |-> setting("Number of Inputs", 0),
         string_datatype_check |-> setting("String Datatype Check", TRUE),
         sanitize_value_check  |-> setting("Sanitize Value Check", TRUE),
         bad_chars_action      |-> setting("Bad Chars Action", "STRIP"),
         bad_chars             |-> setting("Bad Chars", <<>>),
         sql                   |-> Statements(file[s])]

\* An unknown action is noticed with every line; the other calls are read.
V3Section(file, s) ==
    IF ReadsMalformed(file[s], V3Numbers) THEN "throws"
    ELSE IF Lines(file[s]) > 0 /\ V3Call(file, s).bad_chars_action \notin V3Actions
    THEN "false" ELSE "ok"

\* A file without "Default.Version", or with another version than 4.
NoVersion(file) == "Default" \notin DOMAIN file \/ ~Has(file["Default"], "Version")
OtherVersion(file) == file["Default"]["Version"] # 4

\* "Default.Bad Chars" is read before the version, and has no default value.
V3DefaultThrows(d) == ReadsMalformed(d, V3Numbers \cup {"Version"}) \/ ~Has(d, "Bad Chars")

V3Outcomes(file) ==
    CASE NoVersion(file) -> {"false"}
      [] ~NoVersion(file) /\ V3DefaultThrows(file["Default"]) -> {"throws"}
      [] OTHER -> IF OtherVersion(file) THEN {"false"}
                  ELSE Outcomes({V3Section(file, s) : s \in DOMAIN file})

-----------------------------------------------------------------------------
(* DB_CUSTOM_V5.                                                           *)

V5Numbers == {"Number of Inputs", "String Datatype Check", "Strip", "Sanitize Value Check"}
V5DefaultNumbers == {"Version", "Number of Inputs", "Sanitize Input Value Check",
                     "Sanitize Output Value Check", "String Datatype Check",
                     "Prepared Statement Cache", "Strip"}

\* strip_chars_action; a word that is unknown leaves the 0 of a new call.
ActionNumber(word) ==
    CASE word = "Strip" -> 1
      [] word = "Strip+Log" -> 2
      [] word = "Strip+Error" -> 3
      [] OTHER -> 0

Words == {"String", "BeGUID", "Check", "NoCheck", "Strip", "NoStrip", "AltisLifeRPG_Array"}

\* Value_Options after one more word of an option.
Say(o, word) ==
    CASE word = "String" -> [o EXCEPT !.string = TRUE]
      [] word = "BeGUID" -> [o EXCEPT !.beguid = TRUE]
      [] word \in {"Check", "NoCheck"} -> [o EXCEPT !.check = word = "Check"]
      [] word \in {"Strip", "NoStrip"} -> [o EXCEPT !.strip = word = "Strip"]
      [] word = "AltisLifeRPG_Array" -> [o EXCEPT !.array = TRUE]
      [] OTHER -> o

\* What is known of a value; the number is that of an input.
Value_Options ==
    [number : Nat, check : BOOLEAN, beguid : BOOLEAN, string : BOOLEAN,
     string_datatype_check : BOOLEAN, array : BOOLEAN, strip : BOOLEAN]

\* Whether a value is checked is the default of the file, never of the call;
\* nothing sets string_datatype_check.
ValueOptions(check, written) ==
    FoldLeft(Say, [number |-> written.number, check |-> check, beguid |-> FALSE, string |-> FALSE,
                   string_datatype_check |-> FALSE, array |-> FALSE, strip |-> FALSE],
             written.words)

\* The options of line n, written in SQLn_INPUTS.
InputOptions(file, s, n) ==
    LET written == Setting(file[s], "INPUTS", <<>>)
        check   == Setting(file["Default"], "Sanitize Input Value Check", TRUE)
    IN  IF n \in DOMAIN written
        THEN [x \in DOMAIN written[n] |-> ValueOptions(check, written[n][x])] ELSE <<>>

OutputOptions(file, s) ==
    LET written == Setting(file[s], "OUTPUT", <<>>)
        check   == Setting(file["Default"], "Sanitize Output Value Check", TRUE)
    IN  [x \in DOMAIN written |-> ValueOptions(check, written[x])]

V5Action(file, s) ==
    ActionNumber(Setting(file[s], "Strip Chars Action",
                         Setting(file["Default"], "Strip Chars Action", "Strip")))

V5Call(file, s) ==
    LET default(name, value) == Setting(file["Default"], name, value)
        setting(name, value) == Setting(file[s], name, default(name, value))
    IN  [number_of_inputs        |-> setting("Number of Inputs", 0),
         string_datatype_check   |-> setting("String Datatype Check", TRUE),
         preparedStatement_cache |-> default("Prepared Statement Cache", TRUE),
         strip_chars             |-> setting("Strip Chars", <<>>),
         strip_chars_action      |-> V5Action(file, s),
         sql_prepared_statements |-> Statements(file[s]),
         sql_inputs_options      |-> [n \in 1..Lines(file[s]) |-> InputOptions(file, s, n)],
         sql_outputs_options     |-> OutputOptions(file, s)]

\* The words of the options init reads.
WordsOf(section) ==
    LET out == Setting(section, "OUTPUT", <<>>)
        in  == Setting(section, "INPUTS", <<>>)
        read == DOMAIN in \cap 1..Lines(section)
    IN  UNION ({Range(out[x].words) : x \in DOMAIN out}
               \cup {UNION {Range(in[n][x].words) : x \in DOMAIN in[n]} : n \in read})

\* With an action None or unknown, the loop over the lines has no way out.
V5Section(file, s) ==
    CASE ReadsMalformed(file[s], V5Numbers) -> "throws"
      [] ~ReadsMalformed(file[s], V5Numbers) /\ V5Action(file, s) = 0 -> "loops"
      [] OTHER -> IF WordsOf(file[s]) \subseteq Words THEN "ok" ELSE "false"

V5Outcomes(file) ==
    IF NoVersion(file) THEN {"false"}
    ELSE LET d == file["Default"]
         IN  CASE d["Version"] = Malformed -> {"throws"}
               [] d["Version"] \notin {7, Malformed} -> {"false"}
               [] OTHER -> IF ReadsMalformed(d, V5DefaultNumbers) THEN {"throws"}
                           ELSE Outcomes({V5Section(file, s) : s \in DOMAIN file})
=============================================================================
