------------------------------- MODULE MCSetup -------------------------------
(* A small instance of Setup: files in one directory or in both, one section *)
(* of each kind, templates of both prepared protocols, and additions whose   *)
(* init returns TRUE, returns FALSE or throws.                               *)
EXTENDS Setup

File(n, async, randomize) ==
    [name |-> "plain", threads |-> n, async |-> async, randomize |-> randomize]

SmallConfs ==
    {[dll |-> NoFile, current |-> NoFile],
     [dll |-> NoFile, current |-> File(0, TRUE, TRUE)],
     [dll |-> File(9, FALSE, TRUE), current |-> File(NotNumber, FALSE, FALSE)]}

SmallSections == [mysql |-> "MySQL", sqlite |-> "SQLite", noip |-> "MySQL without IP",
                  redis |-> "unknown type", rcon |-> "RCon"]

Versioned(n) == [Default |-> "Version" :> n @@ "Bad Chars" :> <<";">>]
Line == <<1, 1>> :> <<"select">>
With(file, section) == file @@ ("call" :> section)

SmallFiles ==
    [v3    |-> With(Versioned(4), "SQL" :> Line @@ "Bad Chars Action" :> "NONE"),
     chars |-> [Default |-> "Version" :> 4],
     v5    |-> With(Versioned(7), "SQL" :> Line),
     none  |-> With(Versioned(7), "Strip Chars Action" :> "None"),
     bad   |-> With(Versioned(7), "Number of Inputs" :> Malformed)]

SmallAdditions == [kind : {"DB_CUSTOM_V3"}, init : {"v3", "chars"}]
                  \cup [kind : {"DB_CUSTOM_V5"}, init : {"bad"}]
                  \cup [kind : {"LOG"}, init : {"daily"}]
                  \cup [kind : {"RCON", "CHAT"}, init : {""}]
=============================================================================
