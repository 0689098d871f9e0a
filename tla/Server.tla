------------------------------- MODULE Server -------------------------------
(***************************************************************************)
(* server and session (src/src/server.cc, src/src/session.cc).  A session  *)
(* is allocated for each connection to come, reads one request, answers    *)
(* it and deletes itself.  The threads of the pool run the completion      *)
(* handlers of one io_service, in any order and any two at once; nothing   *)
(* locks a session.                                                        *)
(*                                                                         *)
(* An endpoint and a URL are sequences of names and slashes.               *)
(***************************************************************************)
EXTENDS Integers, Sequences, FiniteSets, FiniteSetsExt

CONSTANTS Sessions,  \* the places a session may be allocated at (a bound)
          Threads,   \* the pool
          Urls,      \* the targets of requests
          NoSession, NoIndex

ASSUME SessionAssumption == NoSession \notin Sessions

VARIABLES setup,     \* handler_names_ and paths_ of the running server
          up,        \* whether the process runs
          acceptor,  \* the session async_accept is to fill, or NoSession
          reading,   \* the sessions whose async_read is under way
          ready,     \* the completion handlers that may run
          thread,    \* what each thread is doing
          alive,     \* the sessions that exist
          gone       \* the sessions whose client has hung up

serverVars == <<setup, up, acceptor, reading, ready, thread, alive, gone>>

----------------------------------------------------------------------------
(* Endpoints.                                                              *)

IsPrefixOf(l, url) == Len(l) <= Len(url) /\ SubSeq(url, 1, Len(l)) = l

\* The trailing slash of an endpoint is optional in the configuration.
WithSlash(e) == IF e[Len(e)] = "/" THEN e ELSE Append(e, "/")

Known == {"echo_handler", "static_handler", "crud_handler", "sleep_handler",
          "health_handler", "chess_handler"}

\* crud_endpoints_: the directory whose files the index of e was made from.
IndexOf(s, e) ==
    LET own == {i \in DOMAIN s.paths : s.paths[i].endpoint = e}
    IN  IF own # {} /\ e \in DOMAIN s.names /\ s.names[e] = "crud_handler"
        THEN s.paths[Max(own)].root ELSE NoIndex

\* Mutant: the slash is optional here, as it is for the routes.
DataPath_AnySlash(s, l) ==
    LET own == {i \in DOMAIN s.paths : WithSlash(s.paths[i].endpoint) = l}
    IN  IF own = {} THEN << >> ELSE s.paths[Min(own)].root

\* get_data_path
DataPath(s, l) ==
    LET own == {i \in DOMAIN s.paths : s.paths[i].endpoint = l}
    IN  IF own = {} THEN << >> ELSE s.paths[Min(own)].root

\* create_handler_factory, for each of handler_names_ in turn: of "/e" and
\* "/e/" the second comes later.
RoutedBy(s, l) ==
    {e \in DOMAIN s.names : s.names[e] \in Known /\ WithSlash(e) = l}

Routes(s) ==
    [l \in {WithSlash(e) : e \in {e \in DOMAIN s.names : s.names[e] \in Known}} |->
        [handler |-> s.names[CHOOSE e \in RoutedBy(s, l) :
                                \A d \in RoutedBy(s, l) : Len(d) <= Len(e)],
         index |-> IndexOf(s, l)]]

\* match looks at every route, and keeps "/" or a longer one that the URL begins
\* with.
Candidates(routes, url) == {<<"/">>} \cup {l \in DOMAIN routes : IsPrefixOf(l, url)}

\* Mutant: the loop stops at the first endpoint of the map that fits.
match_First(routes, url) ==
    CHOOSE l \in Candidates(routes, url) :
        \A d \in Candidates(routes, url) : Len(l) <= Len(d)

match(routes, url) ==
    CHOOSE l \in Candidates(routes, url) :
        \A d \in Candidates(routes, url) : Len(d) <= Len(l)

\* What a handler may answer.
Statuses(s, l, handler, url) ==
    CASE handler = "static_handler" -> {200, 404}
      [] handler = "crud_handler" ->
            IF url = l \/ DataPath(s, l) = << >>
            THEN {400} ELSE {200, 201, 400, 404, 405}
      [] handler = "chess_handler" -> {200, 400}
      [] handler = "error_handler" -> {400}
      [] handler = "not_found_handler" -> {404}
      [] OTHER -> {200}

----------------------------------------------------------------------------
(* The state.                                                              *)

Idle == [at |-> "idle", session |-> NoSession, url |-> << >>, location |-> << >>,
         handler |-> "none", index |-> NoIndex, status |-> 0]

Handler(what, s, error, url) ==
    [what |-> what, session |-> s, error |-> error, url |-> url]

Handlers == Known \cup {"error_handler", "not_found_handler", "none"}

ServerTypeOK ==
    /\ up \in BOOLEAN
    /\ acceptor \in Sessions \cup {NoSession}
    /\ reading \subseteq Sessions
    /\ \A h \in ready :
          /\ h.what \in {"accept", "read"}
          /\ h.session \in Sessions
          /\ h.error \in BOOLEAN
          /\ h.url \in Urls \cup {<< >>}
    /\ \A t \in Threads :
          /\ thread[t].at \in {"idle", "log", "rearm", "serve", "write"}
          /\ thread[t].session \in Sessions \cup {NoSession}
          /\ thread[t].at \in {"log", "serve", "write"} => thread[t].session \in Sessions
    /\ alive \subseteq Sessions
    /\ gone \subseteq Sessions

At(t, place) == up /\ thread[t].at = place

Set(t, record) == thread' = [thread EXCEPT ![t] = record]

\* What is to happen to a session: a connection, a request, a completion
\* handler, or the thread that answers it.
Owners(s) ==
    (IF acceptor = s THEN {<<"accept", s>>} ELSE {})
      \cup (IF s \in reading THEN {<<"read", s>>} ELSE {})
      \cup {<<"handler", h>> : h \in {h \in ready : h.session = s}}
      \cup {<<"thread", t>> : t \in {t \in Threads : thread[t].at \in {"serve", "write"}
                                                      /\ thread[t].session = s}}

\* Where the next accept is to come from.
Accepting ==
    (IF acceptor # NoSession THEN {<<"accept", acceptor>>} ELSE {})
      \cup {<<"handler", h>> : h \in {h \in ready : h.what = "accept"}}
      \cup {<<"thread", t>> : t \in {t \in Threads : thread[t].at \in {"log", "rearm"}}}

Loggers(s) == {t \in Threads : thread[t].at = "log" /\ thread[t].session = s}

\* new session: the allocator takes memory that nothing points to.
Allocatable == {s \in Sessions : s \notin alive /\ Loggers(s) = {}}

ServerInit ==
    /\ setup = [names |-> << >>, paths |-> << >>]
    /\ up = FALSE
    /\ acceptor = NoSession
    /\ reading = {} /\ ready = {} /\ alive = {} /\ gone = {}
    /\ thread = [t \in Threads |-> Idle]

\* The server as main constructs it, its first accept under way.
ServerStarts(s) ==
    /\ ~up
    /\ setup' = s
    /\ up' = TRUE
    /\ \E n \in Sessions : acceptor' = n /\ alive' = {n}
    /\ reading' = {} /\ ready' = {} /\ gone' = {}
    /\ thread' = [t \in Threads |-> Idle]

\* The process ends.
ProcessEnds ==
    /\ up' = FALSE
    /\ acceptor' = NoSession
    /\ reading' = {} /\ ready' = {} /\ alive' = {} /\ gone' = {}
    /\ thread' = [t \in Threads |-> Idle]
    /\ UNCHANGED setup

----------------------------------------------------------------------------
(* Clients and the network.                                                *)

\* A connection comes in, or accept fails.  (Bound: there are no more
\* connections than Sessions less the one to come.)
Accepted(error) ==
    /\ up /\ acceptor # NoSession
    /\ error \/ alive # Sessions
    /\ ready' = ready \cup {Handler("accept", acceptor, error, << >>)}
    /\ acceptor' = NoSession
    /\ UNCHANGED <<setup, up, reading, thread, alive, gone>>

\* A request has arrived, or what arrived is none.
Arrived(s, error, url) ==
    /\ up /\ s \in reading
    /\ ready' = ready \cup {Handler("read", s, error, url)}
    /\ reading' = reading \ {s}
    /\ UNCHANGED <<setup, up, acceptor, thread, alive, gone>>

\* (Bound: one client at a time.)
HangUp(s) ==
    /\ up /\ s \in alive /\ s # acceptor
    /\ gone = {}
    /\ gone' = {s}
    /\ UNCHANGED <<setup, up, acceptor, reading, ready, thread, alive>>

----------------------------------------------------------------------------
(* Threads.                                                                *)

\* Mutant: no new accept when one has failed.
handle_accept_Stops(t, h) ==
    /\ At(t, "idle") /\ h \in ready /\ h.what = "accept"
    /\ ready' = ready \ {h}
    /\ IF h.error
       THEN /\ alive' = alive \ {h.session}
            /\ gone' = gone \ {h.session}
            /\ UNCHANGED <<thread, reading>>
       ELSE /\ reading' = reading \cup {h.session}
            /\ Set(t, [Idle EXCEPT !.at = "log", !.session = h.session])
            /\ UNCHANGED <<alive, gone>>
    /\ UNCHANGED <<setup, up, acceptor>>

\* Mutant: a session that failed to accept stays.
handle_accept_Leaks(t, h) ==
    /\ At(t, "idle") /\ h \in ready /\ h.what = "accept"
    /\ ready' = ready \ {h}
    /\ IF h.error
       THEN Set(t, [Idle EXCEPT !.at = "rearm"]) /\ UNCHANGED <<reading, alive>>
       ELSE /\ reading' = reading \cup {h.session}
            /\ Set(t, [Idle EXCEPT !.at = "log", !.session = h.session])
            /\ UNCHANGED alive
    /\ UNCHANGED <<setup, up, acceptor, gone>>

\* session::start has the request read, by whichever thread is free, ...
handle_accept(t, h) ==
    /\ At(t, "idle") /\ h \in ready /\ h.what = "accept"
    /\ ready' = ready \ {h}
    /\ IF h.error
       THEN /\ alive' = alive \ {h.session}
            /\ gone' = gone \ {h.session}
            /\ Set(t, [Idle EXCEPT !.at = "rearm"])
            /\ UNCHANGED reading
       ELSE /\ reading' = reading \cup {h.session}
            /\ Set(t, [Idle EXCEPT !.at = "log", !.session = h.session])
            /\ UNCHANGED <<alive, gone>>
    /\ UNCHANGED <<setup, up, acceptor>>

\* ... and then logs clientIP_, of a session that may be gone by now: anything
\* may come of that, the end of the process included.
LogStarted(t) ==
    /\ At(t, "log")
    /\ \/ /\ Set(t, [Idle EXCEPT !.at = "rearm"])
          /\ UNCHANGED <<setup, up, acceptor, reading, ready, alive, gone>>
       \/ thread[t].session \notin alive /\ ProcessEnds

start_accept(t) ==
    /\ At(t, "rearm")
    /\ \E s \in Allocatable :
          /\ acceptor' = s
          /\ alive' = alive \cup {s}
    /\ Set(t, Idle)
    /\ UNCHANGED <<setup, up, reading, ready, gone>>

\* session::handle_read finds the handler, ...
handle_read(t, h) ==
    /\ At(t, "idle") /\ h \in ready /\ h.what = "read"
    /\ ready' = ready \ {h}
    /\ LET routes == Routes(setup)
           l == match(routes, h.url)
           routed == l \in DOMAIN routes
       IN  Set(t, [at |-> "serve", session |-> h.session, url |-> h.url, location |-> l,
                   handler |-> IF h.error THEN "error_handler"
                               ELSE IF routed THEN routes[l].handler
                               ELSE "not_found_handler",
                   index |-> IF routed THEN routes[l].index ELSE NoIndex,
                   status |-> 0])
    /\ UNCHANGED <<setup, up, acceptor, reading, alive, gone>>

\* ... has it make the response, ...
serve(t) ==
    /\ At(t, "serve")
    /\ \E status \in Statuses(setup, thread[t].location, thread[t].handler, thread[t].url) :
          thread' = [thread EXCEPT ![t].status = status, ![t].at = "write"]
    /\ UNCHANGED <<setup, up, acceptor, reading, ready, alive, gone>>

\* Mutant: the session stays after its answer.
Respond_NoDelete(t) ==
    /\ At(t, "write")
    /\ Set(t, Idle)
    /\ UNCHANGED <<setup, up, acceptor, reading, ready, alive, gone>>

\* ... sends it and deletes the session.  Sending to a client that has hung up
\* may throw; nothing catches it, and the process ends.
Respond(t) ==
    /\ At(t, "write")
    /\ \/ /\ Set(t, Idle)
          /\ alive' = alive \ {thread[t].session}
          /\ gone' = gone \ {thread[t].session}
          /\ UNCHANGED <<setup, up, acceptor, reading, ready>>
       \/ thread[t].session \in gone /\ ProcessEnds

\* A signal ends the process.
Signal == up /\ ProcessEnds

ServerNext ==
    \/ \E error \in BOOLEAN : Accepted(error)
    \/ \E s \in Sessions :
          \/ \E url \in Urls : Arrived(s, FALSE, url)
          \/ Arrived(s, TRUE, << >>)
          \/ HangUp(s)
    \/ \E t \in Threads :
          \/ \E h \in ready : handle_accept(t, h) \/ handle_read(t, h)
          \/ LogStarted(t) \/ start_accept(t) \/ serve(t) \/ Respond(t)
    \/ Signal

\* The process is started with any configuration, and may be started again.
ServerSpec == ServerInit /\ [][ServerNext \/ \E s : ServerStarts(s)]_serverVars

\* The answers of any length: what the client sent, a file, documents.  The
\* write of one has no timeout, and waits for a client that does not read.  What
\* the others answer fits into the buffer of a new socket.
Long == {"echo_handler", "static_handler", "crud_handler"}

\* Completion handlers are taken in the order they become ready; threads run.
\* Clients may be silent, not read, and a chess_handler may search for ever.
HandledSometime(s) ==
    \E t \in Threads : \E h \in ready :
        h.session = s /\ (handle_accept(t, h) \/ handle_read(t, h))

ServerFairness ==
    /\ \A s \in Sessions : SF_serverVars(HandledSometime(s))
    /\ \A t \in Threads :
          WF_serverVars(\/ LogStarted(t) \/ start_accept(t)
                        \/ serve(t) /\ thread[t].handler # "chess_handler"
                        \/ Respond(t) /\ thread[t].handler \notin Long)

----------------------------------------------------------------------------
\* There is always one accept: under way, completed, or about to be started
\* again by the one thread that took the last.  So no two threads are in
\* start_accept, which changes routes_, at once.
OneAccept == up => \E o \in Accepting : Accepting = {o}

\* A session exists as long as exactly one thing is to happen to it, and
\* nothing is to happen to one that does not: no session is answered or
\* deleted twice, none leaks.  Only the log line of start() may come too late.
OneOwner ==
    \A s \in Sessions :
        IF s \in alive THEN \E o \in Owners(s) : Owners(s) = {o} ELSE Owners(s) = {}

\* Requests go to the handler of the longest configured endpoint they begin
\* with, the endpoint's slash given or not.
RoutedAsConfigured ==
    \A t \in Threads :
        thread[t].at = "serve" /\ thread[t].handler # "error_handler" =>
            LET url == thread[t].url
                fits == {e \in DOMAIN setup.names :
                            setup.names[e] \in Known
                              /\ \/ e[Len(e)] = "/" /\ IsPrefixOf(e, url)
                                 \/ IsPrefixOf(Append(e, "/"), url)}
            IN  IF fits = {} THEN thread[t].handler = "not_found_handler"
                ELSE \E e \in fits :
                        /\ \A d \in fits : Len(d) <= Len(e)
                        /\ thread[t].handler = setup.names[e]

\* A CRUD request that is served has an index, made from the files of the
\* directory it is served from, unless the endpoint has two directories.
\* (Without its slash in the configuration an endpoint has neither, and every
\* request is refused.)
IndexMatchesDirectory ==
    \A t \in Threads :
        LET l == thread[t].location
        IN  thread[t].at = "write" /\ thread[t].handler = "crud_handler"
              /\ thread[t].status # 400 =>
              /\ thread[t].index # NoIndex
              /\ \/ thread[t].index = DataPath(setup, l)
                 \/ \E i, j \in DOMAIN setup.paths :
                       i # j /\ setup.paths[i].endpoint = l /\ setup.paths[j].endpoint = l

\* The threads that others may hold for ever: a chess request without a move to
\* find, and a client that does not read a long answer.
Held ==
    {t \in Threads : \/ thread[t].at = "serve" /\ thread[t].handler = "chess_handler"
                     \/ thread[t].at = "write" /\ thread[t].handler \in Long}

\* The server comes to accept again, whatever connections fail, come and go,
\* unless every thread is held or the process has ended.
AcceptsAgain ==
    []<>(~up \/ acceptor # NoSession \/ Held = Threads)

\* A request that has arrived is answered and its session deleted, unless every
\* thread is held, or the one that answers it.
RequestsAnswered ==
    \A s \in Sessions :
        (\E h \in ready : h.what = "read" /\ h.session = s) ~>
            (~up \/ s \notin alive \/ Held = Threads
                 \/ \E t \in Held : thread[t].session = s)

\* The server neither stops to listen nor to answer.
Responsive == AcceptsAgain /\ RequestsAnswered

=============================================================================
