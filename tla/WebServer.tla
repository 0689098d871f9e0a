----------------------------- MODULE WebServer -----------------------------
(***************************************************************************)
(* main (src/src/server_main.cc): the configuration file is parsed, the    *)
(* port, the paths and the handlers are read from it, and the server is    *)
(* constructed and runs.                                                   *)
(***************************************************************************)
EXTENDS Config, Server

VARIABLES config,  \* the parsed configuration
          port,    \* the port the acceptor is bound to, or -1
          main     \* "parse", "configure", "construct", "run" or "exit"

mainVars == <<config, port, main>>

webVars == <<parserVars, serverVars, mainVars>>

WebTypeOK ==
    /\ ServerTypeOK
    /\ last \in TokenTypes
    /\ verdict \in {"closed", "missing", "parsing", "valid", "invalid"}
    /\ port \in -1..(2^16 - 1)
    /\ main \in {"parse", "configure", "construct", "run", "exit"}

WebInit ==
    /\ ParserInit
    /\ ServerInit
    /\ config = << >>
    /\ port = -1
    /\ main = "parse"

----------------------------------------------------------------------------
ParseConfig ==
    /\ main = "parse"
    /\ ParserNext
    /\ UNCHANGED <<serverVars, mainVars>>

Parsed ==
    /\ main = "parse"
    /\ \/ /\ verdict = "valid"
          /\ config' = top
          /\ main' = "configure"
       \/ /\ verdict \in {"invalid", "missing"}
          /\ main' = "exit"
          /\ UNCHANGED config
    /\ UNCHANGED <<parserVars, serverVars, port>>

GetPort ==
    /\ main = "configure"
    /\ port' = get_port_from_config(config)
    /\ main' = IF port' = -1 THEN "exit" ELSE "construct"
    /\ UNCHANGED <<parserVars, serverVars, config>>

\* The constructor of server takes the port as a short, ...
Short(n) == IF n >= 2^15 THEN n - 2^16 ELSE n

\* Mutant: the endpoint takes the short as it is.
Unsigned_Not(n) == IF n < 0 THEN 0 ELSE n

\* ... and the endpoint makes it unsigned again.
Unsigned(n) == n % 2^16

\* The server is constructed, or another program has the port.
Construct ==
    /\ main = "construct"
    /\ \/ /\ ServerStarts([names |-> get_handler_types(config),
                           paths |-> get_path_from_config(config)])
          /\ port' = Unsigned(Short(port))
          /\ main' = "run"
       \/ /\ main' = "exit"
          /\ UNCHANGED <<serverVars, port>>
    /\ UNCHANGED <<parserVars, config>>

Run ==
    /\ main = "run"
    /\ ServerNext
    /\ UNCHANGED <<parserVars, mainVars>>

WebNext == ParseConfig \/ Parsed \/ GetPort \/ Construct \/ Run

WebFairness ==
    /\ WF_webVars(ParseConfig \/ Parsed \/ GetPort \/ Construct)
    /\ ServerFairness

WebSpec == WebInit /\ [][WebNext]_webVars /\ WebFairness

----------------------------------------------------------------------------
\* The server that runs is the one in the file: it is bound to the port that is
\* there, beyond 32767 too, and routes by its locations.
RunsAsConfigured ==
    /\ main = "run" => port = get_port_from_config(config)
    /\ RoutedAsConfigured

\* Every configuration file leads to a running server or to the end of main:
\* Parse looks at every character once, whatever is in the file.
StartsOrExits == <>(main \in {"run", "exit"})

=============================================================================
