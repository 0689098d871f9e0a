---------------------------- MODULE MCWebServer -----------------------------
(***************************************************************************)
(* WebServer for TLC: every short text of four alphabets, and whole        *)
(* configuration files whose servers are run.                              *)
(***************************************************************************)
EXTENDS WebServer, ConfigRules, TLC

CONSTANTS s1, s2, s3, t1, t2

UpTo(n, chars) == UNION {[1..k -> chars] : k \in 0..n}

Structure == {"a", ";", "{", "}"}
Quoting == {"a", ";", "\"", "\\"}
Commenting == {"a", ";", "'", "#", "\n", "\r"}
AnyChar == Structure \cup Quoting \cup Commenting \cup {" "}

ShortTexts ==
    UpTo(3, AnyChar) \cup UpTo(4, Commenting) \cup UpTo(6, Structure) \cup UpTo(5, Quoting)

----------------------------------------------------------------------------
Port(number) == <<"port", " ", number, ";">>
Root(dir) == <<"root", " ", dir, ";">>
Data(dir) == <<"data_path", " ", dir, ";">>

Location(endpoint, handler, inside) ==
    <<"location", " ">> \o endpoint \o <<" ">> \o handler \o <<"{">> \o inside \o <<"}", "\n">>

ServerBlock(listen, locations) ==
    <<"server", " ", "{", "\n">> \o listen \o locations \o <<"}", "\n">>

\* A port beyond a short, and both spellings of an endpoint.
Ordinary ==
    ServerBlock(Port("40000"),
        Location(<<"/">>, <<"static_handler">>, Root("files"))
          \o Location(<<"/", "crud", "/">>, <<"crud_handler">>, Data("data"))
          \o Location(<<"/", "crud">>, <<"echo_handler">>, << >>)
          \o Location(<<"/", "chess">>, <<"chess_handler">>, Root("files")))

\* A port only the second server has, a CRUD endpoint without its slash, one
\* with two directories, a handler that does not exist and one that is missing.
Odd ==
    <<"#", "a", "\n">>
      \o ServerBlock(Port("70000"), Location(<<"/", "crud">>, <<"crud_handler">>, Data("data")))
      \o ServerBlock(Port("80"),
            Location(<<"/", "twice", "/">>, <<"crud_handler">>, Data("data") \o Root("files"))
              \o Location(<<"/", "crud", "/", "a">>, <<"a">>, << >>)
              \o Location(<<"/", "chess", "/">>, << >>, << >>))

\* The first port counts, and it is none.
NoPort == Port("70000") \o Port("80")

AllTexts == ShortTexts \cup {Ordinary, Odd, NoPort}

AllCharacters == UNION {Range(t) : t \in AllTexts}

Atoi(token) ==
    CASE token = <<"80">> -> 80
      [] token = <<"40000">> -> 40000
      [] token = <<"70000">> -> 70000
      [] OTHER -> 0

AllUrls ==
    {<<"/", "crud", "/", "a">>, <<"/", "twice", "/", "a">>, <<"/", "chess", "/">>}

=============================================================================
