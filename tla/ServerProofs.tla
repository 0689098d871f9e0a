---------------------------- MODULE ServerProofs ----------------------------
(***************************************************************************)
(* One accept chain and one owner for each session, for any number of      *)
(* sessions and threads and whatever the configuration is; and, for any    *)
(* configuration whose directories belong to handlers that exist, where a  *)
(* request goes and which index serves it.  In the program, the parser and *)
(* the server keep to this, and what runs is what is in the file.          *)
(***************************************************************************)
EXTENDS WebServer, ParserProofs, WellFoundedInduction, TLAPS

TypeInv ==
    /\ ServerTypeOK
    /\ DOMAIN thread = Threads
    /\ \A t \in Threads : DOMAIN thread[t] = DOMAIN Idle

Completed(s) == \E h \in ready : h.session = s

Serves(t, s) == thread[t].at \in {"serve", "write"} /\ thread[t].session = s

Served(s) == \E t \in Threads : Serves(t, s)

\* One thing is to happen to a session that exists, none to another.
Single(s) ==
    /\ s \in alive <=> acceptor = s \/ s \in reading \/ Completed(s) \/ Served(s)
    /\ acceptor = s => s \notin reading /\ ~Completed(s) /\ ~Served(s)
    /\ s \in reading => ~Completed(s) /\ ~Served(s)
    /\ Completed(s) => ~Served(s)
    /\ \A g, h \in ready : g.session = s /\ h.session = s => g = h
    /\ \A t, u \in Threads : Serves(t, s) /\ Serves(u, s) => t = u

OwnerInv == \A s \in Sessions : Single(s)

Rearms(t) == thread[t].at \in {"log", "rearm"}

\* The next accept comes from one place.
ChainInv ==
    up =>
    /\ \/ acceptor # NoSession
       \/ \E h \in ready : h.what = "accept"
       \/ \E t \in Threads : Rearms(t)
    /\ acceptor # NoSession =>
          /\ \A h \in ready : h.what # "accept"
          /\ \A t \in Threads : ~Rearms(t)
    /\ \A h \in ready, t \in Threads : h.what = "accept" => ~Rearms(t)
    /\ \A g, h \in ready : g.what = "accept" /\ h.what = "accept" => g = h
    /\ \A t, u \in Threads : Rearms(t) /\ Rearms(u) => t = u

----------------------------------------------------------------------------
(* The two properties follow.                                              *)

\* A session with one owner has a single one.
LEMMA SingleOwner == OwnerInv => OneOwner
<1> SUFFICES ASSUME OwnerInv, NEW s \in Sessions
             PROVE  IF s \in alive THEN \E o \in Owners(s) : Owners(s) = {o}
                                   ELSE Owners(s) = {}
  BY DEF OneOwner
<1> DEFINE completions == {h \in ready : h.session = s}
           servers == {t \in Threads : thread[t].at \in {"serve", "write"}
                                          /\ thread[t].session = s}
<1>1. Single(s)
  BY DEF OwnerInv
<1>2. CASE s \notin alive
  <2>1. acceptor # s /\ s \notin reading /\ completions = {} /\ servers = {}
    BY <1>1, <1>2 DEF Single, Completed, Served, Serves
  <2> QED
    BY <1>2, <2>1 DEF Owners
<1>3. CASE acceptor = s
  <2>1. s \notin reading /\ completions = {} /\ servers = {} /\ s \in alive
    BY <1>1, <1>3 DEF Single, Completed, Served, Serves
  <2>2. Owners(s) = {<<"accept", s>>}
    BY <1>3, <2>1 DEF Owners
  <2> QED
    BY <2>1, <2>2
<1>4. CASE s \in reading
  <2>1. acceptor # s /\ completions = {} /\ servers = {} /\ s \in alive
    BY <1>1, <1>4 DEF Single, Completed, Served, Serves
  <2>2. Owners(s) = {<<"read", s>>}
    BY <1>4, <2>1 DEF Owners
  <2> QED
    BY <2>1, <2>2
<1>5. CASE Completed(s)
  <2>1. acceptor # s /\ s \notin reading /\ servers = {} /\ s \in alive
    BY <1>1, <1>5 DEF Single, Served, Serves
  <2>2. PICK h \in ready : completions = {h}
    BY <1>1, <1>5 DEF Single, Completed
  <2>3. Owners(s) = {<<"handler", h>>}
    BY <2>1, <2>2 DEF Owners
  <2> QED
    BY <2>1, <2>3
<1>6. CASE Served(s)
  <2>1. acceptor # s /\ s \notin reading /\ completions = {} /\ s \in alive
    BY <1>1, <1>6 DEF Single, Completed
  <2>2. PICK t \in Threads : servers = {t}
    BY <1>1, <1>6 DEF Single, Served, Serves
  <2>3. Owners(s) = {<<"thread", t>>}
    BY <2>1, <2>2 DEF Owners
  <2> QED
    BY <2>1, <2>3
<1> QED
  BY <1>1, <1>2, <1>3, <1>4, <1>5, <1>6 DEF Single

\* One chain is a single place.
LEMMA SingleAccept == ChainInv => OneAccept
<1> SUFFICES ASSUME ChainInv, up
             PROVE  \E o \in Accepting : Accepting = {o}
  BY DEF OneAccept
<1> DEFINE completions == {h \in ready : h.what = "accept"}
           rearming == {t \in Threads : thread[t].at \in {"log", "rearm"}}
<1>1. CASE acceptor # NoSession
  <2>1. completions = {} /\ rearming = {}
    BY <1>1 DEF ChainInv, Rearms
  <2>2. Accepting = {<<"accept", acceptor>>}
    BY <1>1, <2>1 DEF Accepting
  <2> QED
    BY <2>2
<1>2. CASE acceptor = NoSession /\ \E h \in ready : h.what = "accept"
  <2>1. rearming = {}
    BY <1>2 DEF ChainInv, Rearms
  <2>2. PICK h \in ready : completions = {h}
    BY <1>2 DEF ChainInv
  <2>3. Accepting = {<<"handler", h>>}
    BY <1>2, <2>1, <2>2 DEF Accepting
  <2> QED
    BY <2>3
<1>3. CASE acceptor = NoSession /\ \E t \in Threads : Rearms(t)
  <2>1. completions = {}
    BY <1>3 DEF ChainInv
  <2>2. PICK t \in Threads : rearming = {t}
    BY <1>3 DEF ChainInv, Rearms
  <2>3. Accepting = {<<"thread", t>>}
    BY <1>3, <2>1, <2>2 DEF Accepting
  <2> QED
    BY <2>3
<1> QED
  BY <1>1, <1>2, <1>3 DEF ChainInv

----------------------------------------------------------------------------
(* Type correctness.                                                       *)

\* Before the server is constructed the variables are well typed.
LEMMA InitTyped == ServerInit => TypeInv
<1> SUFFICES ASSUME ServerInit
             PROVE  TypeInv
  OBVIOUS
<1>1. \A t \in Threads : thread[t] = Idle
  BY DEF ServerInit
<1>2. \A t \in Threads : thread[t].at = "idle" /\ thread[t].session = NoSession
  BY <1>1 DEF Idle
<1>3. \A h \in ready : FALSE
  BY DEF ServerInit
<1>4. ServerTypeOK
  BY <1>2, <1>3 DEF ServerInit, ServerTypeOK
<1> QED
  BY <1>1, <1>4 DEF ServerInit, TypeInv

\* A thread that goes on to something else keeps the variables well typed.
LEMMA SetTyped ==
    ASSUME TypeInv, NEW t \in Threads, NEW r, Set(t, r), DOMAIN r = DOMAIN Idle,
           r.at \in {"idle", "log", "rearm", "serve", "write"},
           r.session \in Sessions \cup {NoSession},
           r.at \in {"log", "serve", "write"} => r.session \in Sessions
    PROVE  /\ DOMAIN thread' = Threads
           /\ \A u \in Threads :
                 /\ DOMAIN thread'[u] = DOMAIN Idle
                 /\ thread'[u].at \in {"idle", "log", "rearm", "serve", "write"}
                 /\ thread'[u].session \in Sessions \cup {NoSession}
                 /\ thread'[u].at \in {"log", "serve", "write"} =>
                       thread'[u].session \in Sessions
<1>1. DOMAIN thread' = Threads /\ thread'[t] = r
  BY DEF Set, TypeInv
<1>2. \A u \in Threads : u # t => thread'[u] = thread[u]
  BY DEF Set, TypeInv
<1> QED
  BY <1>1, <1>2 DEF TypeInv, ServerTypeOK

\* The fields of a thread at rest, ...
LEMMA IdleFields == Idle.at = "idle" /\ Idle.session = NoSession
BY DEF Idle

\* ... of one that is to start an accept, ...
LEMMA RearmFields ==
    ASSUME NEW r, r = [Idle EXCEPT !.at = "rearm"]
    PROVE  r.at = "rearm" /\ r.session = NoSession /\ DOMAIN r = DOMAIN Idle
BY DEF Idle

\* ... and of one that has started a session.
LEMMA LogFields ==
    ASSUME NEW s, NEW r, r = [Idle EXCEPT !.at = "log", !.session = s]
    PROVE  r.at = "log" /\ r.session = s /\ DOMAIN r = DOMAIN Idle
BY DEF Idle

\* A thread that has accepted logs, or starts the next accept.
LEMMA AcceptGoes ==
    ASSUME NEW t, NEW h, handle_accept(t, h)
    PROVE  \E r : Set(t, r) /\ r.at \in {"rearm", "log"}
<1>1. CASE h.error
  <2> DEFINE r == [Idle EXCEPT !.at = "rearm"]
  <2>1. Set(t, r)
    BY <1>1, Zenon DEF handle_accept
  <2>2. r.at = "rearm"
    BY RearmFields
  <2> HIDE DEF r
  <2>3. r.at \in {"rearm", "log"}
    BY <2>2
  <2> QED
    BY <2>1, <2>3, Zenon
<1>2. CASE ~h.error
  <2> DEFINE r == [Idle EXCEPT !.at = "log", !.session = h.session]
  <2>1. Set(t, r)
    BY <1>2, Zenon DEF handle_accept
  <2>2. r.at = "log"
    BY LogFields
  <2> HIDE DEF r
  <2>3. r.at \in {"rearm", "log"}
    BY <2>2
  <2> QED
    BY <2>1, <2>3, Zenon
<1> QED
  BY <1>1, <1>2

\* When the process starts or ends all threads are at rest.
LEMMA RestTyped ==
    ASSUME thread' = [t \in Threads |-> Idle], ready' = {}, reading' = {}, gone' = {},
           up' \in BOOLEAN, acceptor' \in Sessions \cup {NoSession}, alive' \subseteq Sessions
    PROVE  TypeInv'
<1>1. \A t \in Threads : thread'[t] = Idle
  OBVIOUS
<1>2. \A t \in Threads : thread'[t].at = "idle" /\ thread'[t].session = NoSession
  BY <1>1 DEF Idle
<1>3. \A h \in ready' : FALSE
  OBVIOUS
<1>4. ServerTypeOK'
  BY <1>2, <1>3 DEF ServerTypeOK
<1> QED
  BY <1>1, <1>4 DEF TypeInv

\* The process ends.
LEMMA EndTyped == ProcessEnds => TypeInv'
BY RestTyped DEF ProcessEnds

\* Every step keeps the variables well typed.
LEMMA TypeStep ==
    TypeInv /\ [ServerNext \/ \E s : ServerStarts(s)]_serverVars => TypeInv'
<1> SUFFICES ASSUME TypeInv, [ServerNext \/ \E s : ServerStarts(s)]_serverVars
             PROVE  TypeInv'
  OBVIOUS
<1>1. ASSUME NEW e \in BOOLEAN, Accepted(e)
      PROVE  TypeInv'
  <2>1. acceptor \in Sessions
    BY <1>1 DEF Accepted, TypeInv, ServerTypeOK
  <2>2. \A h \in ready' : /\ h.what \in {"accept", "read"}
                          /\ h.session \in Sessions
                          /\ h.error \in BOOLEAN
                          /\ h.url \in Urls \cup {<< >>}
    BY <1>1, <2>1 DEF Accepted, Handler, TypeInv, ServerTypeOK
  <2> QED
    BY <1>1, <2>2 DEF Accepted, TypeInv, ServerTypeOK
<1>2. ASSUME NEW s \in Sessions, NEW e \in BOOLEAN, NEW url \in Urls \cup {<< >>},
             Arrived(s, e, url)
      PROVE  TypeInv'
  <2>1. \A h \in ready' : /\ h.what \in {"accept", "read"}
                          /\ h.session \in Sessions
                          /\ h.error \in BOOLEAN
                          /\ h.url \in Urls \cup {<< >>}
    BY <1>2 DEF Arrived, Handler, TypeInv, ServerTypeOK
  <2> QED
    BY <1>2, <2>1 DEF Arrived, TypeInv, ServerTypeOK
<1>3. ASSUME NEW s \in Sessions, HangUp(s)
      PROVE  TypeInv'
  BY <1>3 DEF HangUp, TypeInv, ServerTypeOK
<1>4. ASSUME NEW t \in Threads, NEW h \in ready, handle_accept(t, h)
      PROVE  TypeInv'
  <2>1. h.session \in Sessions
    BY DEF TypeInv, ServerTypeOK
  <2>2. CASE h.error
    <3> DEFINE r == [Idle EXCEPT !.at = "rearm"]
    <3>1. Set(t, r)
      BY <1>4, <2>2 DEF handle_accept
    <3>2. r.at = "rearm" /\ r.session = NoSession /\ DOMAIN r = DOMAIN Idle
      BY RearmFields
    <3> HIDE DEF r
    <3> QED
      BY <1>4, <2>2, <3>1, <3>2, SetTyped DEF handle_accept, TypeInv, ServerTypeOK
  <2>3. CASE ~h.error
    <3> DEFINE r == [Idle EXCEPT !.at = "log", !.session = h.session]
    <3>1. Set(t, r)
      BY <1>4, <2>3 DEF handle_accept
    <3>2. r.at = "log" /\ r.session = h.session /\ DOMAIN r = DOMAIN Idle
      BY LogFields
    <3> HIDE DEF r
    <3> QED
      BY <1>4, <2>1, <2>3, <3>1, <3>2, SetTyped DEF handle_accept, TypeInv, ServerTypeOK
  <2> QED
    BY <2>2, <2>3
<1>5. ASSUME NEW t \in Threads, NEW h \in ready, handle_read(t, h)
      PROVE  TypeInv'
  <2>1. h.session \in Sessions
    BY DEF TypeInv, ServerTypeOK
  <2>2. PICK url, l, handler, index :
           Set(t, [at |-> "serve", session |-> h.session, url |-> url, location |-> l,
                   handler |-> handler, index |-> index, status |-> 0])
    BY <1>5 DEF handle_read
  <2> DEFINE r == [at |-> "serve", session |-> h.session, url |-> url, location |-> l,
                   handler |-> handler, index |-> index, status |-> 0]
  <2>3. Set(t, r)
    BY <2>2
  <2>4. r.at = "serve" /\ r.session = h.session /\ DOMAIN r = DOMAIN Idle
    BY DEF Idle
  <2>5. ready' = ready \ {h} /\ UNCHANGED <<setup, up, acceptor, reading, alive, gone>>
    BY <1>5 DEF handle_read
  <2> HIDE DEF r
  <2> QED
    BY <2>1, <2>3, <2>4, <2>5, SetTyped DEF TypeInv, ServerTypeOK
<1>6. ASSUME NEW t \in Threads, LogStarted(t)
      PROVE  TypeInv'
  <2> DEFINE r == [Idle EXCEPT !.at = "rearm"]
  <2>1. CASE Set(t, r) /\ UNCHANGED <<setup, up, acceptor, reading, ready, alive, gone>>
    <3>1. r.at = "rearm" /\ r.session = NoSession /\ DOMAIN r = DOMAIN Idle
      BY RearmFields
    <3> HIDE DEF r
    <3> QED
      BY <2>1, <3>1, SetTyped DEF TypeInv, ServerTypeOK
  <2> QED
    BY <1>6, <2>1, EndTyped DEF LogStarted
<1>7. ASSUME NEW t \in Threads, start_accept(t)
      PROVE  TypeInv'
  <2>1. acceptor' \in Sessions /\ alive' \subseteq Sessions
    BY <1>7 DEF start_accept, Allocatable, TypeInv, ServerTypeOK
  <2>2. Set(t, Idle)
    BY <1>7 DEF start_accept
  <2> QED
    BY <1>7, <2>1, <2>2, SetTyped, IdleFields DEF start_accept, TypeInv, ServerTypeOK
<1>8. ASSUME NEW t \in Threads, serve(t)
      PROVE  TypeInv'
  <2>1. PICK status : thread' = [thread EXCEPT ![t].status = status, ![t].at = "write"]
    BY <1>8 DEF serve
  <2>2. /\ DOMAIN thread' = Threads
        /\ DOMAIN thread'[t] = DOMAIN Idle
        /\ thread'[t].at = "write" /\ thread'[t].session = thread[t].session
    BY <2>1 DEF TypeInv, Idle
  <2>3. \A u \in Threads : u # t => thread'[u] = thread[u]
    BY <2>1 DEF TypeInv
  <2>4. thread[t].session \in Sessions
    BY <1>8 DEF serve, At, TypeInv, ServerTypeOK
  <2> QED
    BY <1>8, <2>2, <2>3, <2>4 DEF serve, TypeInv, ServerTypeOK
<1>9. ASSUME NEW t \in Threads, Respond(t)
      PROVE  TypeInv'
  <2>1. CASE /\ Set(t, Idle)
             /\ alive' = alive \ {thread[t].session}
             /\ gone' = gone \ {thread[t].session}
             /\ UNCHANGED <<setup, up, acceptor, reading, ready>>
    BY <2>1, SetTyped, IdleFields DEF TypeInv, ServerTypeOK
  <2> QED
    BY <1>9, <2>1, EndTyped DEF Respond
<1>10. ASSUME NEW s, ServerStarts(s)
       PROVE  TypeInv'
  <2>1. acceptor' \in Sessions /\ alive' \subseteq Sessions
    BY <1>10 DEF ServerStarts
  <2> QED
    BY <1>10, <2>1, RestTyped DEF ServerStarts
<1>11. CASE UNCHANGED serverVars
  BY <1>11 DEF serverVars, TypeInv, ServerTypeOK
<1> QED
  BY <1>1, <1>2, <1>3, <1>4, <1>5, <1>6, <1>7, <1>8, <1>9, <1>10, <1>11, EndTyped
     DEF ServerNext, Signal

\* The server's variables are well typed, for any number of threads.
THEOREM ServerTyped == ServerSpec => []ServerTypeOK
<1>1. TypeInv => ServerTypeOK
  BY DEF TypeInv
<1> QED
  BY <1>1, InitTyped, TypeStep, PTL DEF ServerSpec

----------------------------------------------------------------------------
(* The accept chain.                                                       *)

\* What a thread does after a step of its own.
LEMMA SetRearms ==
    ASSUME TypeInv, NEW t \in Threads, NEW r, Set(t, r)
    PROVE  /\ Rearms(t)' <=> r.at \in {"log", "rearm"}
           /\ \A u \in Threads : u # t => (Rearms(u)' <=> Rearms(u))
<1>1. thread'[t] = r
  BY DEF Set, TypeInv
<1>2. \A u \in Threads : u # t => thread'[u] = thread[u]
  BY DEF Set, TypeInv
<1> QED
  BY <1>1, <1>2 DEF Rearms

\* Every step hands the chain on.
LEMMA ChainStep ==
    TypeInv /\ ChainInv /\ [ServerNext \/ \E s : ServerStarts(s)]_serverVars => ChainInv'
<1> SUFFICES ASSUME TypeInv, ChainInv,
                    [ServerNext \/ \E s : ServerStarts(s)]_serverVars
             PROVE  ChainInv'
  OBVIOUS
<1>1. ASSUME NEW e \in BOOLEAN, Accepted(e)
      PROVE  ChainInv'
  <2> DEFINE h == Handler("accept", acceptor, e, << >>)
  <2>1. ready' = ready \cup {h} /\ h.what = "accept" /\ acceptor' = NoSession
    BY <1>1 DEF Accepted, Handler
  <2>2. up /\ acceptor # NoSession /\ thread' = thread
    BY <1>1 DEF Accepted
  <2> HIDE DEF h
  <2> QED
    BY <2>1, <2>2 DEF ChainInv, Rearms
<1>2. ASSUME NEW r \in Sessions, NEW e \in BOOLEAN, NEW url, Arrived(r, e, url)
      PROVE  ChainInv'
  <2> DEFINE h == Handler("read", r, e, url)
  <2>1. ready' = ready \cup {h} /\ h.what = "read"
    BY <1>2 DEF Arrived, Handler
  <2>2. up' = up /\ acceptor' = acceptor /\ thread' = thread
    BY <1>2 DEF Arrived
  <2> HIDE DEF h
  <2> QED
    BY <2>1, <2>2 DEF ChainInv, Rearms
<1>3. ASSUME NEW s \in Sessions, HangUp(s)
      PROVE  ChainInv'
  BY <1>3 DEF HangUp, ChainInv, Rearms
<1>4. ASSUME NEW t \in Threads, NEW h \in ready, handle_accept(t, h)
      PROVE  ChainInv'
  <2>1. up /\ h.what = "accept" /\ ready' = ready \ {h} /\ acceptor' = acceptor
    BY <1>4 DEF handle_accept, At
  <2>2. PICK r : Set(t, r) /\ r.at \in {"rearm", "log"}
    BY <1>4, AcceptGoes, Zenon
  <2>3. Rearms(t)' /\ \A u \in Threads : u # t => (Rearms(u)' <=> Rearms(u))
    BY <2>2, SetRearms
  <2> QED
    BY <2>1, <2>3 DEF ChainInv
<1>5. ASSUME NEW t \in Threads, NEW h \in ready, handle_read(t, h)
      PROVE  ChainInv'
  <2>1. h.what = "read" /\ ready' = ready \ {h} /\ acceptor' = acceptor /\ up' = up
    BY <1>5 DEF handle_read
  <2>2. PICK r : Set(t, r) /\ r.at = "serve"
    BY <1>5 DEF handle_read
  <2>3. ~Rearms(t)
    BY <1>5 DEF handle_read, At, Rearms
  <2>4. \A u \in Threads : Rearms(u)' <=> Rearms(u)
    BY <2>2, <2>3, SetRearms
  <2> QED
    BY <2>1, <2>4 DEF ChainInv
<1>6. ASSUME NEW t \in Threads, LogStarted(t)
      PROVE  ChainInv'
  <2> DEFINE r == [Idle EXCEPT !.at = "rearm"]
  <2>1. CASE Set(t, r) /\ UNCHANGED <<setup, up, acceptor, reading, ready, alive, gone>>
    <3>1. Rearms(t) /\ r.at = "rearm"
      BY <1>6, RearmFields DEF LogStarted, At, Rearms
    <3> HIDE DEF r
    <3>2. \A u \in Threads : Rearms(u)' <=> Rearms(u)
      BY <2>1, <3>1, SetRearms
    <3> QED
      BY <2>1, <3>2 DEF ChainInv
  <2>2. CASE ProcessEnds
    BY <2>2 DEF ProcessEnds, ChainInv
  <2> QED
    BY <1>6, <2>1, <2>2 DEF LogStarted
<1>7. ASSUME NEW t \in Threads, start_accept(t)
      PROVE  ChainInv'
  <2>1. up /\ Rearms(t) /\ acceptor' # NoSession /\ ready' = ready
    BY <1>7, SessionAssumption DEF start_accept, At, Rearms, Allocatable
  <2>2. ~Rearms(t)' /\ \A u \in Threads : u # t => (Rearms(u)' <=> Rearms(u))
    BY <1>7, SetRearms, IdleFields DEF start_accept
  <2> QED
    BY <2>1, <2>2 DEF ChainInv
<1>8. ASSUME NEW t \in Threads, serve(t)
      PROVE  ChainInv'
  <2>1. PICK status : thread' = [thread EXCEPT ![t].status = status, ![t].at = "write"]
    BY <1>8 DEF serve
  <2>2. thread'[t].at = "write"
    BY <2>1 DEF TypeInv, Idle
  <2>3. \A u \in Threads : u # t => thread'[u] = thread[u]
    BY <2>1 DEF TypeInv
  <2>4. \A u \in Threads : Rearms(u)' <=> Rearms(u)
    BY <1>8, <2>2, <2>3 DEF serve, At, Rearms
  <2> QED
    BY <1>8, <2>4 DEF serve, ChainInv
<1>9. ASSUME NEW t \in Threads, Respond(t)
      PROVE  ChainInv'
  <2>1. CASE Set(t, Idle) /\ UNCHANGED <<setup, up, acceptor, reading, ready>>
    <3>1. ~Rearms(t)
      BY <1>9 DEF Respond, At, Rearms
    <3>2. \A u \in Threads : Rearms(u)' <=> Rearms(u)
      BY <2>1, <3>1, SetRearms, IdleFields
    <3> QED
      BY <2>1, <3>2 DEF ChainInv
  <2>2. CASE ProcessEnds
    BY <2>2 DEF ProcessEnds, ChainInv
  <2> QED
    BY <1>9, <2>1, <2>2 DEF Respond
<1>10. ASSUME NEW start, ServerStarts(start)
       PROVE  ChainInv'
  <2>1. acceptor' # NoSession /\ ready' = {}
    BY <1>10, SessionAssumption DEF ServerStarts
  <2>2. \A u \in Threads : ~Rearms(u)'
    BY <1>10, IdleFields DEF ServerStarts, Rearms
  <2> QED
    BY <2>1, <2>2 DEF ChainInv
<1>11. CASE UNCHANGED serverVars
  BY <1>11 DEF serverVars, ChainInv, Rearms
<1>12. CASE Signal
  BY <1>12 DEF Signal, ProcessEnds, ChainInv
<1> QED
  BY <1>1, <1>2, <1>3, <1>4, <1>5, <1>6, <1>7, <1>8, <1>9, <1>10, <1>11, <1>12
     DEF ServerNext

\* There is always exactly one accept while the server runs, so no two threads
\* are in start_accept at once, for any number of threads.
THEOREM AcceptCorrect == ServerSpec => []OneAccept
<1>1. ServerInit => ChainInv
  BY DEF ServerInit, ChainInv
<1> QED
  BY <1>1, InitTyped, TypeStep, ChainStep, SingleAccept, PTL DEF ServerSpec

----------------------------------------------------------------------------
(* Sessions.                                                               *)

\* A step that changes nothing a session's owners are told by.
LEMMA SameOwners ==
    ASSUME NEW s, Single(s), s \in alive <=> s \in alive',
           acceptor = s <=> acceptor' = s, s \in reading <=> s \in reading',
           \A h : h.session = s => (h \in ready <=> h \in ready'),
           \A t \in Threads : Serves(t, s) <=> Serves(t, s)'
    PROVE  Single(s)'
BY DEF Single, Completed, Served

\* Nothing exists when nothing is owned.
LEMMA NothingLeft ==
    ASSUME alive' = {}, acceptor' = NoSession, reading' = {}, ready' = {},
           thread' = [t \in Threads |-> Idle]
    PROVE  OwnerInv'
<1>1. ASSUME NEW t \in Threads, NEW s
      PROVE  ~Serves(t, s)'
  BY IdleFields DEF Serves
<1> QED
  BY <1>1, SessionAssumption DEF OwnerInv, Single, Completed, Served

\* What a thread serves after a step of its own.
LEMMA SetServes ==
    ASSUME TypeInv, NEW t \in Threads, NEW r, Set(t, r), NEW s
    PROVE  /\ Serves(t, s)' <=> r.at \in {"serve", "write"} /\ r.session = s
           /\ \A u \in Threads : u # t => (Serves(u, s)' <=> Serves(u, s))
<1>1. thread'[t] = r
  BY DEF Set, TypeInv
<1>2. \A u \in Threads : u # t => thread'[u] = thread[u]
  BY DEF Set, TypeInv
<1> QED
  BY <1>1, <1>2 DEF Serves

\* Every step leaves each session that exists one owner.
LEMMA OwnerStep ==
    TypeInv /\ ChainInv /\ OwnerInv /\ [ServerNext \/ \E s : ServerStarts(s)]_serverVars
        => OwnerInv'
<1> SUFFICES ASSUME TypeInv, ChainInv, OwnerInv,
                    [ServerNext \/ \E s : ServerStarts(s)]_serverVars
             PROVE  OwnerInv'
  OBVIOUS
<1>1. ASSUME NEW e \in BOOLEAN, Accepted(e)
      PROVE  OwnerInv'
  <2>1. PICK a \in Sessions : a = acceptor /\ Single(a)
    BY <1>1 DEF Accepted, TypeInv, ServerTypeOK, OwnerInv
  <2>2. \A s \in Sessions, t \in Threads : Serves(t, s)' <=> Serves(t, s)
    BY <1>1 DEF Accepted, Serves
  <2> DEFINE h == Handler("accept", a, e, << >>)
  <2>3. ready' = ready \cup {h} /\ h.session = a /\ acceptor' = NoSession
        /\ alive' = alive /\ reading' = reading
    BY <1>1, <2>1 DEF Accepted, Handler
  <2> HIDE DEF h
  <2>4. Single(a)'
    BY <2>1, <2>2, <2>3, SessionAssumption DEF Single, Completed, Served
  <2>5. ASSUME NEW s \in Sessions, s # a
        PROVE  Single(s)'
    BY <2>1, <2>2, <2>3, <2>5, SessionAssumption, SameOwners DEF OwnerInv
  <2> QED
    BY <2>4, <2>5 DEF OwnerInv
<1>2. ASSUME NEW r \in Sessions, NEW e \in BOOLEAN, NEW url \in Urls \cup {<< >>},
             Arrived(r, e, url)
      PROVE  OwnerInv'
  <2>1. Single(r)
    BY DEF OwnerInv
  <2>2. \A s \in Sessions, t \in Threads : Serves(t, s)' <=> Serves(t, s)
    BY <1>2 DEF Arrived, Serves
  <2> DEFINE h == Handler("read", r, e, url)
  <2>3. ready' = ready \cup {h} /\ h.session = r /\ reading' = reading \ {r}
        /\ alive' = alive /\ acceptor' = acceptor /\ r \in reading
    BY <1>2 DEF Arrived, Handler
  <2> HIDE DEF h
  <2>4. Single(r)'
    BY <2>1, <2>2, <2>3 DEF Single, Completed, Served
  <2>5. ASSUME NEW s \in Sessions, s # r
        PROVE  Single(s)'
    BY <2>2, <2>3, <2>5, SameOwners DEF OwnerInv
  <2> QED
    BY <2>4, <2>5 DEF OwnerInv
<1>3. ASSUME NEW s \in Sessions, HangUp(s)
      PROVE  OwnerInv'
  BY <1>3 DEF HangUp, OwnerInv, Single, Completed, Served, Serves
<1>4. ASSUME NEW t \in Threads, NEW h \in ready, handle_accept(t, h)
      PROVE  OwnerInv'
  <2>1. h.session \in Sessions /\ Single(h.session)
    BY DEF TypeInv, ServerTypeOK, OwnerInv
  <2>2. \A s \in Sessions, u \in Threads : Serves(u, s)' <=> Serves(u, s)
    <3>1. \A s : ~Serves(t, s)
      BY <1>4 DEF handle_accept, At, Serves
    <3>2. PICK r : Set(t, r) /\ r.at \in {"rearm", "log"}
      BY <1>4, AcceptGoes, Zenon
    <3> QED
      BY <3>1, <3>2, SetServes
  <2>3. ready' = ready \ {h} /\ acceptor' = acceptor
    BY <1>4 DEF handle_accept
  <2>4. \/ alive' = alive \ {h.session} /\ reading' = reading
        \/ reading' = reading \cup {h.session} /\ alive' = alive
    BY <1>4 DEF handle_accept
  <2>5. Single(h.session)'
    BY <2>1, <2>2, <2>3, <2>4 DEF Single, Completed, Served
  <2>6. ASSUME NEW s \in Sessions, s # h.session
        PROVE  Single(s)'
    BY <2>2, <2>3, <2>4, <2>6, SameOwners DEF OwnerInv
  <2> QED
    BY <2>5, <2>6 DEF OwnerInv
<1>5. ASSUME NEW t \in Threads, NEW h \in ready, handle_read(t, h)
      PROVE  OwnerInv'
  <2>1. h.session \in Sessions /\ Single(h.session)
    BY DEF TypeInv, ServerTypeOK, OwnerInv
  <2>2. PICK r : Set(t, r) /\ r.at = "serve" /\ r.session = h.session
    BY <1>5 DEF handle_read
  <2>3. /\ ready' = ready \ {h} /\ acceptor' = acceptor
        /\ alive' = alive /\ reading' = reading
    BY <1>5 DEF handle_read
  <2>4. \A s : ~Serves(t, s)
    BY <1>5 DEF handle_read, At, Serves
  <2>5. Single(h.session)'
    <3>1. /\ Serves(t, h.session)'
          /\ \A u \in Threads : u # t => (Serves(u, h.session)' <=> Serves(u, h.session))
      BY <2>2, SetServes
    <3> QED
      BY <2>1, <2>3, <3>1 DEF Single, Completed, Served
  <2>6. ASSUME NEW s \in Sessions, s # h.session
        PROVE  Single(s)'
    <3>1. \A u \in Threads : Serves(u, s)' <=> Serves(u, s)
      BY <2>2, <2>4, <2>6, SetServes
    <3> QED
      BY <2>3, <2>6, <3>1, SameOwners DEF OwnerInv
  <2> QED
    BY <2>5, <2>6 DEF OwnerInv
<1>6. ASSUME NEW t \in Threads, LogStarted(t)
      PROVE  OwnerInv'
  <2> DEFINE r == [Idle EXCEPT !.at = "rearm"]
  <2>1. CASE Set(t, r) /\ UNCHANGED <<setup, up, acceptor, reading, ready, alive, gone>>
    <3>1. \A s, u : u \in Threads => (Serves(u, s)' <=> Serves(u, s))
      <4>1. r.at = "rearm"
        BY RearmFields
      <4>2. \A s : ~Serves(t, s)
        BY <1>6 DEF LogStarted, At, Serves
      <4> HIDE DEF r
      <4> QED
        BY <2>1, <4>1, <4>2, SetServes
    <3> QED
      BY <2>1, <3>1, SameOwners DEF OwnerInv
  <2>2. CASE ProcessEnds
    BY <2>2, NothingLeft DEF ProcessEnds
  <2> QED
    BY <1>6, <2>1, <2>2 DEF LogStarted
<1>7. ASSUME NEW t \in Threads, start_accept(t)
      PROVE  OwnerInv'
  <2>1. PICK n \in Sessions : n \notin alive /\ acceptor' = n /\ alive' = alive \cup {n}
    BY <1>7 DEF start_accept, Allocatable
  <2>2. \A s, u : u \in Threads => (Serves(u, s)' <=> Serves(u, s))
    BY <1>7, SetServes, IdleFields DEF start_accept, At, Serves
  <2>3. ready' = ready /\ reading' = reading
    BY <1>7 DEF start_accept
  <2>4. Single(n) /\ acceptor = NoSession
    BY <1>7 DEF OwnerInv, start_accept, At, ChainInv, Rearms
  <2>5. Single(n)'
    BY <2>1, <2>2, <2>3, <2>4 DEF Single, Completed, Served
  <2>6. ASSUME NEW s \in Sessions, s # n
        PROVE  Single(s)'
    BY <2>1, <2>2, <2>3, <2>4, <2>6, SessionAssumption, SameOwners DEF OwnerInv
  <2> QED
    BY <2>5, <2>6 DEF OwnerInv
<1>8. ASSUME NEW t \in Threads, serve(t)
      PROVE  OwnerInv'
  <2>1. PICK status : thread' = [thread EXCEPT ![t].status = status, ![t].at = "write"]
    BY <1>8 DEF serve
  <2>2. thread'[t].at = "write" /\ thread'[t].session = thread[t].session
    BY <2>1 DEF TypeInv, Idle
  <2>3. \A u \in Threads : u # t => thread'[u] = thread[u]
    BY <2>1 DEF TypeInv
  <2>4. \A s, u : u \in Threads => (Serves(u, s)' <=> Serves(u, s))
    BY <1>8, <2>2, <2>3 DEF serve, At, Serves
  <2> QED
    BY <1>8, <2>4, SameOwners DEF serve, OwnerInv
<1>9. ASSUME NEW t \in Threads, Respond(t)
      PROVE  OwnerInv'
  <2>1. CASE /\ Set(t, Idle)
             /\ alive' = alive \ {thread[t].session}
             /\ gone' = gone \ {thread[t].session}
             /\ UNCHANGED <<setup, up, acceptor, reading, ready>>
    <3>1. PICK a \in Sessions : a = thread[t].session /\ Serves(t, a)
      BY <1>9 DEF Respond, At, Serves, TypeInv, ServerTypeOK
    <3>2. Single(a)
      BY <3>1 DEF OwnerInv
    <3>3. \A s : /\ ~Serves(t, s)'
                 /\ \A u \in Threads : u # t => (Serves(u, s)' <=> Serves(u, s))
      BY <2>1, SetServes, IdleFields
    <3>4. Single(a)'
      BY <2>1, <3>1, <3>2, <3>3 DEF Single, Completed, Served
    <3>5. ASSUME NEW s \in Sessions, s # a
          PROVE  Single(s)'
      <4>1. ~Serves(t, s)
        BY <3>1, <3>5 DEF Serves
      <4> QED
        BY <2>1, <3>1, <3>3, <3>5, <4>1, SameOwners DEF OwnerInv
    <3> QED
      BY <3>4, <3>5 DEF OwnerInv
  <2>2. CASE ProcessEnds
    BY <2>2, NothingLeft DEF ProcessEnds
  <2> QED
    BY <1>9, <2>1, <2>2 DEF Respond
<1>10. ASSUME NEW start, ServerStarts(start)
       PROVE  OwnerInv'
  <2>1. PICK n \in Sessions : acceptor' = n /\ alive' = {n}
    BY <1>10 DEF ServerStarts
  <2>2. \A s, t : t \in Threads => ~Serves(t, s)'
    BY <1>10, IdleFields DEF ServerStarts, Serves
  <2> QED
    BY <1>10, <2>1, <2>2 DEF ServerStarts, OwnerInv, Single, Completed, Served
<1>11. CASE UNCHANGED serverVars
  BY <1>11 DEF serverVars, OwnerInv, Single, Completed, Served, Serves
<1>12. CASE Signal
  BY <1>12, NothingLeft DEF Signal, ProcessEnds
<1> QED
  BY <1>1, <1>2, <1>3, <1>4, <1>5, <1>6, <1>7, <1>8, <1>9, <1>10, <1>11, <1>12
     DEF ServerNext

\* A session exists as long as exactly one thing is to happen to it: none is
\* answered or deleted twice and none leaks, for any number of threads.
THEOREM OwnerCorrect == ServerSpec => []OneOwner
<1>1. ServerInit => OwnerInv
  <2> SUFFICES ASSUME ServerInit
               PROVE  OwnerInv
    OBVIOUS
  <2>1. \A t \in Threads : \A s : ~Serves(t, s)
    BY IdleFields DEF ServerInit, Serves
  <2> QED
    BY <2>1, SessionAssumption DEF ServerInit, OwnerInv, Single, Completed, Served
<1>2. ServerInit => ChainInv
  BY DEF ServerInit, ChainInv
<1> QED
  BY <1>1, <1>2, InitTyped, TypeStep, ChainStep, OwnerStep, SingleOwner, PTL DEF ServerSpec

----------------------------------------------------------------------------
(* Routes.                                                                 *)

\* Endpoints are words, none of them empty, ...
Endpoints == \E S : DOMAIN setup.names \subseteq Seq(S) \ {<< >>}

\* ... and a directory is given to one that names a handler that exists.
Directories ==
    /\ \E n \in Nat : DOMAIN setup.paths = 1..n
    /\ \A i \in DOMAIN setup.paths :
          /\ setup.paths[i].endpoint \in DOMAIN setup.names
          /\ setup.names[setup.paths[i].endpoint] \in Known
          /\ setup.paths[i].root # NoIndex

\* What handle_read finds out about the request a thread serves.
Matched(t) ==
    LET routes == Routes(setup)
        l == match(routes, thread[t].url)
    IN  /\ thread[t].location = l
        /\ thread[t].handler # "error_handler" =>
              /\ thread[t].url \in Urls
              /\ thread[t].handler = IF l \in DOMAIN routes THEN routes[l].handler
                                     ELSE "not_found_handler"
        /\ thread[t].index = IF l \in DOMAIN routes THEN routes[l].index ELSE NoIndex
        /\ thread[t].at = "write" =>
              thread[t].status \in Statuses(setup, l, thread[t].handler, thread[t].url)

MatchInv ==
    /\ \A h \in ready : h.what = "read" /\ ~h.error => h.url \in Urls
    /\ \A t \in Threads : thread[t].at \in {"serve", "write"} => Matched(t)

\* A thread that does something else, or nothing new, has nothing to match.
LEMMA SetMatched ==
    ASSUME TypeInv, MatchInv, NEW t \in Threads, NEW r, Set(t, r),
           setup' = setup, r.at \notin {"serve", "write"}
    PROVE  \A u \in Threads : thread'[u].at \in {"serve", "write"} => Matched(u)'
<1> SUFFICES ASSUME NEW u \in Threads, thread'[u].at \in {"serve", "write"}
             PROVE  Matched(u)'
  OBVIOUS
<1>1. u # t
  BY DEF Set, TypeInv
<1>2. thread'[u] = thread[u]
  BY <1>1 DEF Set, TypeInv
<1> QED
  BY <1>2 DEF MatchInv, Matched

\* When all threads are at rest and nothing is ready there is nothing to match.
LEMMA RestMatched ==
    ASSUME thread' = [t \in Threads |-> Idle], ready' = {}
    PROVE  MatchInv'
<1>1. \A t \in Threads : thread'[t].at = "idle"
  BY IdleFields
<1> QED
  BY <1>1 DEF MatchInv

\* Every step keeps to what handle_read found out.
LEMMA MatchStep ==
    TypeInv /\ MatchInv /\ [ServerNext \/ \E s : ServerStarts(s)]_serverVars => MatchInv'
<1> SUFFICES ASSUME TypeInv, MatchInv,
                    [ServerNext \/ \E s : ServerStarts(s)]_serverVars
             PROVE  MatchInv'
  OBVIOUS
<1>1. ASSUME thread' = thread, setup' = setup,
             \A h \in ready' : h.what = "read" /\ ~h.error => h.url \in Urls
      PROVE  MatchInv'
  <2>1. \A u \in Threads : Matched(u) => Matched(u)'
    BY <1>1 DEF Matched
  <2> QED
    BY <1>1, <2>1 DEF MatchInv
<1>2. ASSUME NEW e \in BOOLEAN, Accepted(e)
      PROVE  MatchInv'
  <2>1. \A h \in ready' : h \in ready \/ h.what = "accept"
    BY <1>2 DEF Accepted, Handler
  <2> QED
    BY <1>1, <1>2, <2>1 DEF Accepted, MatchInv
<1>3. ASSUME NEW s \in Sessions, NEW e \in BOOLEAN, NEW url, e \/ url \in Urls,
             Arrived(s, e, url)
      PROVE  MatchInv'
  <2>1. \A h \in ready' : h \in ready \/ (h.error = e /\ h.url = url)
    BY <1>3 DEF Arrived, Handler
  <2> QED
    BY <1>1, <1>3, <2>1 DEF Arrived, MatchInv
<1>4. ASSUME NEW s \in Sessions, HangUp(s)
      PROVE  MatchInv'
  BY <1>1, <1>4 DEF HangUp, MatchInv
<1>5. ASSUME NEW t \in Threads, NEW h \in ready, handle_accept(t, h)
      PROVE  MatchInv'
  <2>1. PICK r : Set(t, r) /\ r.at \in {"rearm", "log"}
    BY <1>5, AcceptGoes, Zenon
  <2>2. setup' = setup /\ ready' \subseteq ready
    BY <1>5 DEF handle_accept
  <2>3. \A u \in Threads : thread'[u].at \in {"serve", "write"} => Matched(u)'
    BY <2>1, <2>2, SetMatched
  <2> QED
    BY <2>2, <2>3 DEF MatchInv
<1>6. ASSUME NEW t \in Threads, NEW h \in ready, handle_read(t, h)
      PROVE  MatchInv'
  <2> DEFINE routes == Routes(setup)
             l == match(routes, h.url)
             r == [at |-> "serve", session |-> h.session, url |-> h.url, location |-> l,
                   handler |-> IF h.error THEN "error_handler"
                               ELSE IF l \in DOMAIN routes THEN routes[l].handler
                               ELSE "not_found_handler",
                   index |-> IF l \in DOMAIN routes THEN routes[l].index ELSE NoIndex,
                   status |-> 0]
  <2>1. /\ Set(t, r) /\ setup' = setup /\ ready' \subseteq ready
        /\ h.what = "read"
    BY <1>6 DEF handle_read
  <2>2. ~h.error => h.url \in Urls
    BY <2>1 DEF MatchInv
  <2>3. thread'[t] = r /\ \A u \in Threads \ {t} : thread'[u] = thread[u]
    BY <2>1 DEF Set, TypeInv
  <2>4. r.at = "serve" /\ r.url = h.url /\ r.location = l
    OBVIOUS
  <2>5. r.handler # "error_handler" =>
            r.handler = IF l \in DOMAIN routes THEN routes[l].handler
                        ELSE "not_found_handler"
    OBVIOUS
  <2>6. r.handler # "error_handler" => ~h.error
    OBVIOUS
  <2>7. r.index = IF l \in DOMAIN routes THEN routes[l].index ELSE NoIndex
    OBVIOUS
  <2> HIDE DEF r
  <2>8. Matched(t)'
    BY <2>1, <2>2, <2>3, <2>4, <2>5, <2>6, <2>7 DEF Matched
  <2>9. ASSUME NEW u \in Threads, u # t, thread'[u].at \in {"serve", "write"}
        PROVE  Matched(u)'
    BY <2>1, <2>3, <2>9 DEF MatchInv, Matched
  <2> QED
    BY <2>1, <2>8, <2>9 DEF MatchInv
<1>7. ASSUME NEW t \in Threads, LogStarted(t)
      PROVE  MatchInv'
  <2> DEFINE r == [Idle EXCEPT !.at = "rearm"]
  <2>1. CASE Set(t, r) /\ UNCHANGED <<setup, up, acceptor, reading, ready, alive, gone>>
    <3>1. r.at = "rearm"
      BY RearmFields
    <3> HIDE DEF r
    <3>2. \A u \in Threads : thread'[u].at \in {"serve", "write"} => Matched(u)'
      BY <2>1, <3>1, SetMatched
    <3> QED
      BY <2>1, <3>2 DEF MatchInv
  <2> QED
    BY <1>7, <2>1, RestMatched DEF LogStarted, ProcessEnds
<1>8. ASSUME NEW t \in Threads, start_accept(t)
      PROVE  MatchInv'
  <2>1. Set(t, Idle) /\ setup' = setup /\ ready' = ready
    BY <1>8 DEF start_accept
  <2>2. \A u \in Threads : thread'[u].at \in {"serve", "write"} => Matched(u)'
    BY <2>1, SetMatched, IdleFields
  <2> QED
    BY <2>1, <2>2 DEF MatchInv
<1>9. ASSUME NEW t \in Threads, serve(t)
      PROVE  MatchInv'
  <2>1. PICK status \in Statuses(setup, thread[t].location, thread[t].handler, thread[t].url) :
            thread' = [thread EXCEPT ![t].status = status, ![t].at = "write"]
    BY <1>9 DEF serve
  <2>2. setup' = setup /\ ready' = ready /\ Matched(t)
    BY <1>9 DEF serve, At, MatchInv
  <2>3. /\ thread'[t].url = thread[t].url /\ thread'[t].location = thread[t].location
        /\ thread'[t].handler = thread[t].handler /\ thread'[t].index = thread[t].index
        /\ thread'[t].status = status
    BY <2>1 DEF TypeInv, Idle
  <2>4. \A u \in Threads : u # t => thread'[u] = thread[u]
    BY <2>1 DEF TypeInv
  <2>5. Matched(t)'
    BY <2>1, <2>2, <2>3 DEF Matched
  <2>6. ASSUME NEW u \in Threads, u # t, thread'[u].at \in {"serve", "write"}
        PROVE  Matched(u)'
    BY <2>2, <2>4, <2>6 DEF MatchInv, Matched
  <2> QED
    BY <2>2, <2>5, <2>6 DEF MatchInv
<1>10. ASSUME NEW t \in Threads, Respond(t)
       PROVE  MatchInv'
  <2>1. CASE /\ Set(t, Idle)
             /\ alive' = alive \ {thread[t].session}
             /\ gone' = gone \ {thread[t].session}
             /\ UNCHANGED <<setup, up, acceptor, reading, ready>>
    <3>1. \A u \in Threads : thread'[u].at \in {"serve", "write"} => Matched(u)'
      BY <2>1, SetMatched, IdleFields
    <3> QED
      BY <2>1, <3>1 DEF MatchInv
  <2> QED
    BY <1>10, <2>1, RestMatched DEF Respond, ProcessEnds
<1>11. CASE Signal \/ \E s : ServerStarts(s)
  BY <1>11, RestMatched DEF Signal, ProcessEnds, ServerStarts
<1>12. CASE UNCHANGED serverVars
  BY <1>1, <1>12 DEF serverVars, MatchInv
<1> QED
  BY <1>2, <1>3, <1>4, <1>5, <1>6, <1>7, <1>8, <1>9, <1>10, <1>11, <1>12 DEF ServerNext

\* Of numbers that are bounded one is the greatest.
LEMMA GreatestExists ==
    ASSUME NEW n \in Nat, NEW V \in SUBSET (0..n), V # {}
    PROVE  \E x \in V : \A y \in V : y <= x
<1> DEFINE below == {n - x : x \in V}
           less == {p \in Nat \X Nat : p[1] < p[2]}
<1>1. below \subseteq Nat /\ below # {}
  <2>1. \A x \in V : n - x \in Nat
    OBVIOUS
  <2> QED
    BY <2>1
<1>2. IsWellFoundedOn(less, Nat)
  BY NatLessThanWellFounded DEF OpToRel
<1>3. \E b \in below : \A d \in below : ~(<<d, b>> \in less)
  <2> HIDE DEF below, less
  <2> QED
    BY <1>1, <1>2, WFMin
<1>3a. PICK b \in below : \A d \in below : ~(<<d, b>> \in less)
  BY <1>3
<1>4. PICK x \in V : b = n - x
  BY <1>3a
<1>5. ASSUME NEW y \in V
      PROVE  y <= x
  <2>1. x \in 0..n /\ y \in 0..n /\ n - y \in below
    OBVIOUS
  <2>2. <<n - y, n - x>> \notin less
    BY <1>3a, <1>4, <2>1
  <2>3. ~(n - y < n - x)
    BY <2>1, <2>2
  <2> QED
    BY <2>1, <2>3
<1> QED
  BY <1>5

\* The slash at the end of an endpoint.
LEMMA SlashEnds ==
    ASSUME NEW S, NEW e \in Seq(S) \ {<< >>}
    PROVE  /\ Len(e) \in Nat /\ Len(e) > 0
           /\ WithSlash(e) \in Seq(S \cup {"/"})
           /\ Len(WithSlash(e)) \in Nat /\ Len(WithSlash(e)) > 0
           /\ WithSlash(e)[Len(WithSlash(e))] = "/"
           /\ IF e[Len(e)] = "/" THEN WithSlash(e) = e
              ELSE WithSlash(e) = Append(e, "/") /\ Len(WithSlash(e)) = Len(e) + 1
BY DEF WithSlash

\* A route has the handler of an endpoint that is written for it, with the
\* slash if one is.
LEMMA RouteOf ==
    ASSUME Endpoints, NEW l \in DOMAIN Routes(setup)
    PROVE  \E e \in RoutedBy(setup, l) :
              /\ Routes(setup)[l].handler = setup.names[e]
              /\ Routes(setup)[l].index = IndexOf(setup, l)
              /\ \A d \in RoutedBy(setup, l) : Len(d) <= Len(e)
<1>1. PICK S : DOMAIN setup.names \subseteq Seq(S) \ {<< >>}
  BY DEF Endpoints
<1> DEFINE own == RoutedBy(setup, l)
           best == CHOOSE e \in own : \A d \in own : Len(d) <= Len(e)
<1>2. own # {} /\ own \subseteq Seq(S) \ {<< >>}
  BY <1>1 DEF Routes, RoutedBy
<1>3. ASSUME NEW e \in own
      PROVE  Len(e) \in {Len(l) - 1, Len(l)} /\ Len(e) \in Nat /\ Len(l) \in Nat
  <2>1. e \in Seq(S) \ {<< >>} /\ l = WithSlash(e)
    BY <1>2 DEF RoutedBy
  <2>2. \/ l = e
        \/ l \in Seq(S \cup {"/"}) /\ Len(l) = Len(e) + 1
    BY <2>1, SlashEnds
  <2>3. Len(e) \in Nat /\ Len(l) \in Nat
    BY <2>1, <2>2
  <2> QED
    BY <2>2, <2>3
<1>4. \E e \in own : \A d \in own : Len(d) <= Len(e)
  <2>1. CASE \E e \in own : Len(e) = Len(l)
    BY <1>3, <2>1
  <2>2. CASE \A e \in own : Len(e) = Len(l) - 1
    BY <1>2, <1>3, <2>2
  <2> QED
    BY <1>3, <2>1, <2>2
<1>5. best \in own /\ \A d \in own : Len(d) <= Len(best)
  BY <1>4
<1>6. Routes(setup)[l].handler = setup.names[best] /\ Routes(setup)[l].index = IndexOf(setup, l)
  BY DEF Routes
<1> HIDE DEF best
<1> QED
  BY <1>5, <1>6

\* An endpoint in use that is written with its slash is the one that counts.
LEMMA OwnRoute ==
    ASSUME Endpoints, NEW l \in DOMAIN Routes(setup), l \in DOMAIN setup.names,
           setup.names[l] \in Known
    PROVE  Routes(setup)[l].handler = setup.names[l]
<1>1. PICK S : DOMAIN setup.names \subseteq Seq(S) \ {<< >>}
  BY DEF Endpoints
<1>2. PICK e \in RoutedBy(setup, l) :
          /\ Routes(setup)[l].handler = setup.names[e]
          /\ \A d \in RoutedBy(setup, l) : Len(d) <= Len(e)
  BY RouteOf
<1>3. e \in Seq(S) \ {<< >>} /\ WithSlash(e) = l /\ l \in Seq(S) \ {<< >>}
  BY <1>1 DEF RoutedBy
<1>4. l[Len(l)] = "/"
  BY <1>3, SlashEnds
<1>5. WithSlash(l) = l
  BY <1>4 DEF WithSlash
<1>6. Len(l) <= Len(e)
  BY <1>2, <1>5 DEF RoutedBy
<1>7. e = l
  <2>1. Len(e) \in Nat /\ Len(l) \in Nat /\ Len(l) # Len(e) + 1
    BY <1>3, <1>6
  <2>2. WithSlash(e) = e \/ Len(WithSlash(e)) = Len(e) + 1
    BY <1>3, SlashEnds
  <2> QED
    BY <1>3, <2>1, <2>2
<1> QED
  BY <1>2, <1>7

\* A CRUD request that is served has an index, made from the directory it is
\* served from unless its endpoint has two.
LEMMA MatchedIndex ==
    ASSUME MatchInv, Endpoints, Directories, NEW t \in Threads,
           thread[t].at = "write", thread[t].handler = "crud_handler",
           thread[t].status # 400
    PROVE  /\ thread[t].index # NoIndex
           /\ \/ thread[t].index = DataPath(setup, thread[t].location)
              \/ \E i, j \in DOMAIN setup.paths :
                    /\ i # j /\ setup.paths[i].endpoint = thread[t].location
                    /\ setup.paths[j].endpoint = thread[t].location
<1> DEFINE l == thread[t].location
           own == {i \in DOMAIN setup.paths : setup.paths[i].endpoint = l}
<1>1. /\ l \in DOMAIN Routes(setup) /\ Routes(setup)[l].handler = "crud_handler"
      /\ thread[t].index = Routes(setup)[l].index
      /\ thread[t].status \in Statuses(setup, l, "crud_handler", thread[t].url)
  <2>1. Matched(t)
    BY DEF MatchInv
  <2>2. thread[t].handler = IF l \in DOMAIN Routes(setup) THEN Routes(setup)[l].handler
                                                     ELSE "not_found_handler"
    BY <2>1 DEF Matched
  <2>3. thread[t].index = IF l \in DOMAIN Routes(setup) THEN Routes(setup)[l].index
                                                   ELSE NoIndex
    BY <2>1, Zenon DEF Matched
  <2>4. thread[t].status \in Statuses(setup, l, thread[t].handler, thread[t].url)
    BY <2>1, Zenon DEF Matched
  <2>5. l \in DOMAIN Routes(setup)
    BY <2>2
  <2> QED
    BY <2>2, <2>3, <2>4, <2>5, Zenon
<1>2. DataPath(setup, l) # << >>
  BY <1>1 DEF Statuses
<1>3. own # {}
  BY <1>2 DEF DataPath
<1>4. l \in DOMAIN setup.names /\ setup.names[l] \in Known
  BY <1>3 DEF Directories
<1>5. setup.names[l] = "crud_handler"
  BY <1>1, <1>4, OwnRoute
<1>6. thread[t].index = setup.paths[Max(own)].root
  <2>1. thread[t].index = IndexOf(setup, l)
    BY <1>1, RouteOf
  <2> QED
    BY <1>3, <1>4, <1>5, <2>1 DEF IndexOf
<1>6a. own \subseteq Nat /\ \E i \in own : \A j \in own : i >= j
  <2>1. PICK n \in Nat : DOMAIN setup.paths = 1..n
    BY DEF Directories
  <2>2. own \in SUBSET (0..n)
    BY <2>1
  <2>3. PICK i \in own : \A j \in own : j <= i
    BY <1>3, <2>2, GreatestExists
  <2> QED
    BY <2>2, <2>3
<1>6b. Max(own) \in own
  BY <1>6a DEF Max
<1>6c. thread[t].index # NoIndex
  <2>1. Max(own) \in DOMAIN setup.paths
    BY <1>6b
  <2>2. setup.paths[Max(own)].root # NoIndex
    BY <2>1 DEF Directories
  <2> QED
    BY <1>6, <2>2, Zenon
<1>7. CASE \E i \in own : own = {i}
  <2>1. PICK i \in own : own = {i}
    BY <1>7
  <2>2. i \in Nat
    BY <1>6a
  <2>3. Max(own) = i /\ Min(own) = i
    BY <2>1, <2>2 DEF Max, Min
  <2>4. DataPath(setup, l) = setup.paths[i].root
    BY <1>3, <2>3 DEF DataPath
  <2>5. thread[t].index = DataPath(setup, l)
    BY <1>6, <2>3, <2>4, Zenon
  <2> QED
    BY <1>6c, <2>5, Zenon
<1>8. CASE ~ \E i \in own : own = {i}
  <2>1. \E i, j \in own : i # j
    BY <1>3, <1>8
  <2> QED
    BY <1>6c, <2>1
<1> QED
  BY <1>7, <1>8

\* For any number of threads and sessions and any configuration that gives
\* directories to handlers that exist: a CRUD request that is served has an
\* index, made from the files of the directory it is served from, unless the
\* endpoint has two.
THEOREM IndexCorrect ==
    ServerSpec /\ [](Endpoints /\ Directories) => []IndexMatchesDirectory
<1>1. ServerInit => MatchInv
  BY IdleFields DEF ServerInit, MatchInv
<1>2. MatchInv /\ Endpoints /\ Directories => IndexMatchesDirectory
  BY MatchedIndex DEF IndexMatchesDirectory
<1> QED
  BY <1>1, <1>2, InitTyped, TypeStep, MatchStep, PTL DEF ServerSpec

\* Two beginnings of a URL that are as long are the same.
LEMMA SamePrefix ==
    ASSUME NEW S, NEW url \in Seq(S), NEW l, NEW m, IsPrefixOf(l, url), IsPrefixOf(m, url),
           Len(l) = Len(m)
    PROVE  l = m
BY DEF IsPrefixOf

\* match gives the longest of its candidates, which all begin the URL.
LEMMA LongestMatch ==
    ASSUME Endpoints, NEW S, NEW url \in Seq(S), Len(url) > 0, url[1] = "/"
    PROVE  LET routes == Routes(setup)
               l == match(routes, url)
           IN  /\ IsPrefixOf(l, url) /\ (l \in DOMAIN routes \/ l = <<"/">>)
               /\ \A d \in DOMAIN routes : IsPrefixOf(d, url) => Len(d) <= Len(l)
<1> DEFINE routes == Routes(setup)
           cands == Candidates(routes, url)
           lengths == {Len(d) : d \in cands}
<1>1. PICK R : DOMAIN setup.names \subseteq Seq(R) \ {<< >>}
  BY DEF Endpoints
<1>2. ASSUME NEW d \in cands
      PROVE  IsPrefixOf(d, url) /\ Len(d) \in 0..Len(url)
  <2>1. CASE d = <<"/">>
    <3>1. Len(d) = 1 /\ Len(url) \in Nat /\ 1 <= Len(url)
      BY <2>1
    <3>2. SubSeq(url, 1, 1) = <<url[1]>>
      <4> DEFINE q == SubSeq(url, 1, 1)
      <4>1. q \in Seq(S) /\ Len(q) = 1 /\ q[1] = url[1]
        BY <3>1
      <4>2. \A p \in Seq(S) : Len(p) = 1 => p = <<p[1]>>
        OBVIOUS
      <4> HIDE DEF q
      <4> QED
        BY <4>1, <4>2 DEF q
    <3> QED
      BY <2>1, <3>1, <3>2 DEF IsPrefixOf
  <2>2. CASE d \in DOMAIN routes /\ IsPrefixOf(d, url)
    <3>1. PICK e \in Seq(R) \ {<< >>} : d = WithSlash(e)
      BY <1>1, <2>2 DEF Routes
    <3>2. d \in Seq(R \cup {"/"})
      BY <3>1, SlashEnds
    <3>3. Len(d) \in Nat
      BY <3>2
    <3> QED
      BY <2>2, <3>3 DEF IsPrefixOf
  <2> QED
    BY <2>1, <2>2 DEF Candidates
<1>3. <<"/">> \in cands
  BY DEF Candidates
<1> HIDE DEF cands
<1>4. lengths \in SUBSET (0..Len(url)) /\ lengths # {}
  BY <1>2, <1>3
<1>5. \E x \in lengths : \A y \in lengths : y <= x
  <2>1. Len(url) \in Nat
    OBVIOUS
  <2> HIDE DEF lengths
  <2> QED
    BY <1>4, <2>1, GreatestExists
<1>6. \E l \in cands : \A d \in cands : Len(d) <= Len(l)
  BY <1>5
<1>7. match(routes, url) \in cands /\ \A d \in cands : Len(d) <= Len(match(routes, url))
  BY <1>6 DEF match, cands
<1> QED
  BY <1>2, <1>7 DEF cands, Candidates

\* The endpoints that a URL fits are those whose route it begins with.
LEMMA FitsRoute ==
    ASSUME Endpoints, NEW S, NEW url \in Seq(S), NEW e \in DOMAIN setup.names
    PROVE  (e[Len(e)] = "/" /\ IsPrefixOf(e, url)) \/ IsPrefixOf(Append(e, "/"), url)
               <=> IsPrefixOf(WithSlash(e), url)
<1>1. PICK R : DOMAIN setup.names \subseteq Seq(R) \ {<< >>}
  BY DEF Endpoints
<1>2. e \in Seq(R) /\ Len(e) \in Nat /\ Len(e) > 0
  BY <1>1
<1>3. CASE e[Len(e)] # "/"
  BY <1>3 DEF WithSlash
<1>4. CASE e[Len(e)] = "/"
  <2>1. WithSlash(e) = e
    BY <1>4 DEF WithSlash
  <2>2. ASSUME IsPrefixOf(Append(e, "/"), url)
        PROVE  IsPrefixOf(e, url)
    <3>1. Append(e, "/") \in Seq(R \cup {"/"}) /\ Len(Append(e, "/")) = Len(e) + 1
          /\ \A i \in 1..Len(e) : Append(e, "/")[i] = e[i]
      BY <1>2
    <3>2. Len(e) + 1 <= Len(url) /\ SubSeq(url, 1, Len(e) + 1) = Append(e, "/")
      BY <2>2, <3>1 DEF IsPrefixOf
    <3>3. ASSUME NEW i \in 1..Len(e)
          PROVE  url[i] = e[i]
      <4>1. SubSeq(url, 1, Len(e) + 1)[i] = url[i]
        BY <1>2, <3>2
      <4>2. SubSeq(url, 1, Len(e) + 1)[i] = Append(e, "/")[i]
        BY <3>2
      <4> QED
        BY <3>1, <4>1, <4>2
    <3>4. SubSeq(url, 1, Len(e)) = e
      BY <1>2, <3>2, <3>3
    <3> QED
      BY <3>2, <3>4, <1>2 DEF IsPrefixOf
  <2> QED
    BY <1>4, <2>1, <2>2
<1> QED
  BY <1>3, <1>4

\* A request goes to the handler of the longest endpoint it begins with.
LEMMA MatchedHandler ==
    ASSUME MatchInv, Endpoints, NEW S, \A url \in Urls : url \in Seq(S) /\ Len(url) > 0
                                                        /\ url[1] = "/",
           NEW t \in Threads, thread[t].at = "serve", thread[t].handler # "error_handler"
    PROVE  LET url == thread[t].url
               fits == {e \in DOMAIN setup.names :
                           setup.names[e] \in Known
                             /\ \/ e[Len(e)] = "/" /\ IsPrefixOf(e, url)
                                \/ IsPrefixOf(Append(e, "/"), url)}
           IN  IF fits = {} THEN thread[t].handler = "not_found_handler"
               ELSE \E e \in fits : /\ \A d \in fits : Len(d) <= Len(e)
                                    /\ thread[t].handler = setup.names[e]
<1> DEFINE url == thread[t].url
           routes == Routes(setup)
           l == match(routes, url)
           fits == {e \in DOMAIN setup.names :
                       setup.names[e] \in Known
                         /\ \/ e[Len(e)] = "/" /\ IsPrefixOf(e, url)
                            \/ IsPrefixOf(Append(e, "/"), url)}
<1>1. PICK R : DOMAIN setup.names \subseteq Seq(R) \ {<< >>}
  BY DEF Endpoints
<1>2. /\ url \in Seq(S) /\ Len(url) > 0 /\ url[1] = "/"
      /\ thread[t].handler = IF l \in DOMAIN routes THEN routes[l].handler
                             ELSE "not_found_handler"
  BY DEF MatchInv, Matched
<1>3. /\ IsPrefixOf(l, url) /\ (l \in DOMAIN routes \/ l = <<"/">>)
      /\ \A d \in DOMAIN routes : IsPrefixOf(d, url) => Len(d) <= Len(l)
  BY <1>2, LongestMatch
<1>4. fits = {e \in DOMAIN setup.names :
                 setup.names[e] \in Known /\ IsPrefixOf(WithSlash(e), url)}
  BY <1>2, FitsRoute
<1>5. \A e \in fits : WithSlash(e) \in DOMAIN routes /\ IsPrefixOf(WithSlash(e), url)
  BY <1>4 DEF Routes
<1> HIDE DEF url, routes, fits
<1>6. CASE l \notin DOMAIN routes
  <2>1. fits = {}
    <3> SUFFICES ASSUME NEW e \in fits
                 PROVE  FALSE
      OBVIOUS
    <3>1. l = <<"/">> /\ Len(l) = 1
      BY <1>3, <1>6
    <3>2. e \in Seq(R) \ {<< >>}
      BY <1>1, <1>4
    <3>3. Len(WithSlash(e)) = 1
      <4>1. Len(WithSlash(e)) <= 1
        BY <1>3, <1>5, <3>1
      <4>2. Len(WithSlash(e)) \in Nat /\ Len(WithSlash(e)) > 0
        BY <3>2, SlashEnds
      <4> DEFINE n == Len(WithSlash(e))
      <4>3. n \in Nat /\ n > 0 /\ n <= 1
        BY <4>1, <4>2
      <4> HIDE DEF n
      <4>4. n = 1
        BY <4>3
      <4> QED
        BY <4>4 DEF n
    <3>4. WithSlash(e) = l
      BY <1>2, <1>3, <1>5, <3>1, <3>3, SamePrefix
    <3> QED
      BY <1>5, <1>6, <3>4
  <2> QED
    BY <1>2, <1>6, <2>1 DEF url, routes, fits
<1>7. CASE l \in DOMAIN routes
  <2>1. PICK e \in RoutedBy(setup, l) :
            /\ routes[l].handler = setup.names[e]
            /\ \A d \in RoutedBy(setup, l) : Len(d) <= Len(e)
    BY <1>7, RouteOf DEF routes
  <2>2. /\ e \in DOMAIN setup.names /\ setup.names[e] \in Known /\ WithSlash(e) = l
        /\ e \in Seq(R) \ {<< >>}
    BY <1>1, <2>1 DEF RoutedBy
  <2>3. e \in fits
    BY <1>3, <1>4, <2>2
  <2>4. ASSUME NEW d \in fits
        PROVE  Len(d) <= Len(e)
    <3>1. d \in Seq(R) \ {<< >>} /\ setup.names[d] \in Known /\ d \in DOMAIN setup.names
      BY <1>1, <1>4
    <3>2. Len(WithSlash(d)) <= Len(l)
      BY <1>3, <1>5
    <3>3. /\ Len(d) \in Nat /\ Len(e) \in Nat
          /\ Len(WithSlash(d)) \in {Len(d), Len(d) + 1} /\ Len(l) \in {Len(e), Len(e) + 1}
      BY <2>2, <3>1, SlashEnds
    <3>4. CASE Len(WithSlash(d)) = Len(l)
      <4>1. WithSlash(d) = l
        BY <1>2, <1>3, <1>5, <3>4, SamePrefix
      <4>2. d \in RoutedBy(setup, l)
        BY <3>1, <4>1 DEF RoutedBy
      <4> QED
        BY <2>1, <4>2
    <3>5. CASE Len(WithSlash(d)) # Len(l)
      <4> DEFINE n == Len(WithSlash(d))
                 m == Len(l)
      <4>1. n <= m /\ n # m /\ n \in {Len(d), Len(d) + 1} /\ m \in {Len(e), Len(e) + 1}
        BY <3>2, <3>3, <3>5
      <4> HIDE DEF n, m
      <4> QED
        BY <3>3, <4>1
    <3> QED
      BY <3>4, <3>5
  <2>5. thread[t].handler = setup.names[e]
    BY <1>2, <1>7, <2>1
  <2> QED
    BY <2>3, <2>4, <2>5 DEF url, routes, fits
<1> QED
  BY <1>6, <1>7

\* For any number of threads and sessions and any configuration, as long as
\* URLs are paths: a request goes to the handler of the longest endpoint it
\* begins with, the endpoint's slash given or not.
THEOREM RoutingCorrect ==
    ASSUME NEW S, \A url \in Urls : url \in Seq(S) /\ Len(url) > 0 /\ url[1] = "/"
    PROVE  ServerSpec /\ []Endpoints => []RoutedAsConfigured
<1>1. ServerInit => MatchInv
  BY IdleFields DEF ServerInit, MatchInv
<1>2. MatchInv /\ Endpoints => RoutedAsConfigured
  BY MatchedHandler DEF RoutedAsConfigured
<1> QED
  BY <1>1, <1>2, InitTyped, TypeStep, MatchStep, PTL DEF ServerSpec

----------------------------------------------------------------------------
(* The program.                                                            *)

IsPort(n) == n \in Int /\ 0 <= n /\ n < 2^16

MainTypes ==
    /\ last \in TokenTypes
    /\ verdict \in {"closed", "missing", "parsing", "valid", "invalid"}
    /\ port = -1 \/ IsPort(port)
    /\ main \in {"parse", "configure", "construct", "run", "exit"}

\* A step of the program is one of the parser, one of the server or neither.
LEMMA WebSteps ==
    [WebNext]_webVars =>
        /\ [ParserNext]_parserVars
        /\ [ServerNext \/ \E s : ServerStarts(s)]_serverVars
BY DEF webVars, WebNext, ParseConfig, Parsed, GetPort, Construct, Run

\* What is read as a port is one, or none.
LEMMA PortRange ==
    ASSUME NEW conf
    PROVE  get_port_from_config(conf) = -1 \/ IsPort(get_port_from_config(conf))
<1>1. ASSUME NEW n
      PROVE  InRange(n) = -1 \/ IsPort(InRange(n))
  <2>1. n \in 0..(2^16 - 1) => IsPort(n)
    BY DEF IsPort
  <2>2. InRange(n) = -1 \/ (n \in 0..(2^16 - 1) /\ InRange(n) = n)
    BY Zenon DEF InRange
  <2> QED
    BY <2>1, <2>2, Zenon
<1>2. ASSUME NEW block
      PROVE  PortOf(block) = -1 \/ IsPort(PortOf(block))
  BY <1>1, Zenon DEF PortOf
<1> QED
  BY <1>2, Zenon DEF get_port_from_config, FirstPort

\* A port survives being a short.
LEMMA PortRound ==
    ASSUME NEW n \in Int
    PROVE  IsPort(Unsigned(Short(n))) /\ (IsPort(n) => Unsigned(Short(n)) = n)
<1>1. 2^15 = 32768 /\ 2^16 = 65536
  OBVIOUS
<1> DEFINE short == IF n >= 32768 THEN n - 65536 ELSE n
<1>2. Unsigned(Short(n)) = short % 65536
  BY <1>1 DEF Unsigned, Short
<1>3. short \in Int
  OBVIOUS
<1>4. IsPort(short % 65536)
  <2> HIDE DEF short
  <2> QED
    BY <1>3 DEF IsPort
<1>5. ASSUME IsPort(n)
      PROVE  short % 65536 = n
  <2>1. 0 <= n /\ n < 65536
    BY <1>5 DEF IsPort
  <2>2. (n - 65536) % 65536 = n /\ n % 65536 = n
    BY <2>1
  <2> QED
    BY <2>2
<1> QED
  BY <1>2, <1>4, <1>5

\* What the parser remembers of the last token, and what it answers.
LEMMA ParserTypes ==
    ASSUME [ParserNext]_parserVars, last \in TokenTypes,
           verdict \in {"closed", "missing", "parsing", "valid", "invalid"}
    PROVE  /\ last' \in TokenTypes
           /\ verdict' \in {"closed", "missing", "parsing", "valid", "invalid"}
<1> DEFINE Fits == /\ last' \in TokenTypes
                   /\ verdict' \in {"closed", "missing", "parsing", "valid", "invalid"}
<1>1. ASSUME NEW type \in TokenTypes, NEW token, NEW rest, Token(type, token, rest)
      PROVE  Fits
  BY <1>1 DEF Token
<1>2. ASSUME NEW s, NEW token, Goto(s, token)
      PROVE  Fits
  BY <1>2 DEF Goto
<1> SUFFICES Fits
  OBVIOUS
<1> HIDE DEF Fits
<1>3. CASE InWhitespace
  BY <1>1, <1>2, <1>3 DEF InWhitespace, TokenTypes
<1>4. CASE InComment
  BY <1>1, <1>2, <1>4 DEF InComment, TokenTypes
<1>5. CASE InNormal
  BY <1>1, <1>2, <1>5 DEF InNormal, TokenTypes
<1>6. ASSUME NEW s, NEW quote, NEW escape, InQuotes(s, quote, escape)
      PROVE  Fits
  BY <1>1, <1>2, <1>6 DEF InQuotes, TokenTypes
<1>7. ASSUME NEW s, NEW quoted, Escaped(s, quoted)
      PROVE  Fits
  BY <1>2, <1>7 DEF Escaped
<1>8. CASE EndOfFile
  BY <1>1, <1>8 DEF EndOfFile, TokenTypes
<1>9. CASE ParseFile \/ UNCHANGED parserVars
  BY <1>9 DEF Fits, ParseFile, parserVars
<1> QED
  BY <1>3, <1>4, <1>5, <1>6, <1>7, <1>8, <1>9 DEF ParserNext

\* Every step of the program keeps the types of main.
LEMMA MainTyped == MainTypes /\ [WebNext]_webVars => MainTypes'
<1> SUFFICES ASSUME MainTypes, [WebNext]_webVars
             PROVE  MainTypes'
  OBVIOUS
<1>1. /\ last' \in TokenTypes
      /\ verdict' \in {"closed", "missing", "parsing", "valid", "invalid"}
  BY WebSteps, ParserTypes DEF MainTypes
<1>2. CASE ParseConfig \/ Run \/ UNCHANGED webVars
  <2>1. port' = port /\ main' = main
    BY <1>2 DEF ParseConfig, Run, mainVars, webVars
  <2> QED
    BY <1>1, <2>1 DEF MainTypes, IsPort
<1>3. CASE Parsed
  BY <1>1, <1>3 DEF MainTypes, Parsed, IsPort
<1>4. CASE GetPort
  <2>1. port' = -1 \/ IsPort(port')
    BY <1>4, PortRange, Zenon DEF GetPort
  <2>2. main' \in {"exit", "construct"}
    BY <1>4 DEF GetPort
  <2>3. port' = -1 \/ IsPort(port)'
    BY <2>1 DEF IsPort
  <2> QED
    BY <1>1, <2>2, <2>3 DEF MainTypes
<1>5. CASE Construct
  <2>1. port' = -1 \/ IsPort(port)'
    <3>1. port \in Int
      BY DEF MainTypes, IsPort
    <3>2. port' = Unsigned(Short(port)) \/ port' = port
      BY <1>5 DEF Construct
    <3>3. port' = -1 \/ IsPort(port')
      BY <3>1, <3>2, PortRound DEF MainTypes
    <3> QED
      BY <3>3 DEF IsPort
  <2>2. main' \in {"run", "exit"}
    BY <1>5 DEF Construct
  <2> QED
    BY <1>1, <2>1, <2>2 DEF MainTypes
<1> QED
  BY <1>2, <1>3, <1>4, <1>5 DEF WebNext

\* The program has its types, whatever the files and the clients.
THEOREM WebTypes == WebSpec => []WebTypeOK
<1>1. WebInit => MainTypes
  BY DEF WebInit, ParserInit, MainTypes, TokenTypes
<1>2. WebInit => ServerInit
  BY DEF WebInit
<1>3. TypeInv /\ MainTypes => WebTypeOK
  <2>1. port = -1 \/ IsPort(port) => port \in -1..(2^16 - 1)
    BY DEF IsPort
  <2> QED
    BY <2>1 DEF TypeInv, MainTypes, WebTypeOK
<1> QED
  BY <1>1, <1>2, <1>3, WebSteps, MainTyped, InitTyped, TypeStep, PTL DEF WebSpec

\* The parser and the server are what they are by themselves, whatever main does
\* with them: Parse keeps to its stack and builds the configuration that is in
\* the file, one accept is under way, and each session has one owner.
THEOREM PartsCorrect ==
    WebSpec => [](StackInUse /\ ParsesConfigurations /\ OneAccept /\ OneOwner)
<1>1. WebInit => ParserInit /\ ServerInit
  BY DEF WebInit
<1>2. WebSpec => ParserSpec
  BY <1>1, WebSteps, PTL DEF WebSpec, ParserSpec
<1>3. WebSpec => ServerSpec
  BY <1>1, WebSteps, PTL DEF WebSpec, ServerSpec
<1> QED
  BY <1>2, <1>3, StackCorrect, ParsingCorrect, AcceptCorrect, OwnerCorrect, PTL

\* What is read from the file is built of its words.
ConfigBuilt == \E T, B : config \in Seq(Statements(T, B)) /\ Built(T, B)

\* The endpoints of a configuration are words, none of them empty.
LEMMA HandlersNamed ==
    ASSUME ConfigBuilt
    PROVE  DOMAIN get_handler_types(config) \subseteq Seq(Characters) \ {<< >>}
<1>1. PICK T, B : config \in Seq(Statements(T, B)) /\ Built(T, B)
  BY DEF ConfigBuilt
<1> DEFINE tokens(at) == config[at[1]].child_block[at[2]].tokens
<1>2. DOMAIN get_handler_types(config) = {tokens(at)[2] : at \in TypedLocations(config)}
  BY DEF get_handler_types
<1>3. ASSUME NEW at \in TypedLocations(config)
      PROVE  tokens(at)[2] \in Seq(Characters) \ {<< >>}
  <2>1. PICK i \in DOMAIN config : \E j \in DOMAIN config[i].child_block :
           /\ at = <<i, j>> /\ IsServer(config[i])
           /\ Len(config[i].child_block[j].tokens) >= 3
    BY <1>3 DEF TypedLocations
  <2>2. PICK j \in DOMAIN config[i].child_block :
           /\ at = <<i, j>> /\ Len(config[i].child_block[j].tokens) >= 3
    BY <2>1
  <2>3. config[i] \in Statements(T, B) /\ config[i].child_block # NoBlock
    BY <1>1, <2>1 DEF IsServer, HasBlock
  <2>4. config[i].child_block \in Seq(Statements(T, B))
    BY <1>1, <2>3 DEF Built, Statements
  <2>5. config[i].child_block[j] \in Statements(T, B)
    BY <2>4
  <2> DEFINE words == config[i].child_block[j].tokens
  <2>6. words \in Seq(T) /\ Len(words) >= 3
    BY <2>2, <2>5 DEF Statements
  <2>7. words[2] \in T
    <3> HIDE DEF words
    <3> QED
      BY <2>6
  <2>8. tokens(at) = words
    BY <2>2
  <2> QED
    BY <1>1, <2>7, <2>8 DEF Built
<1> QED
  BY <1>2, <1>3

\* What main does with what it has read.
MainInv ==
    /\ main \in {"construct", "run"} => IsPort(port) /\ port = get_port_from_config(config)
    /\ main \in {"configure", "construct"} => ConfigBuilt
    /\ Endpoints

\* main takes what the parser has built to the server.
LEMMA MainStep ==
    ParserInv /\ WordsInv /\ MainTypes /\ MainInv /\ [WebNext]_webVars => MainInv'
<1> SUFFICES ASSUME ParserInv, WordsInv, MainTypes, MainInv, [WebNext]_webVars
             PROVE  MainInv'
  OBVIOUS
<1>1. config' = config /\ text' = text =>
         /\ get_port_from_config(config)' = get_port_from_config(config)
         /\ (ConfigBuilt <=> ConfigBuilt')
  BY DEF get_port_from_config, Braces, ConfigBuilt, Built
<1>2. ASSUME setup' = setup
      PROVE  Endpoints'
  BY <1>2 DEF MainInv, Endpoints
<1>3. CASE ParseConfig
  <2>1. main = "parse" /\ main' = main /\ setup' = setup
    BY <1>3 DEF ParseConfig, mainVars, serverVars
  <2> QED
    BY <1>2, <2>1 DEF MainInv
<1>4. CASE Parsed
  <2>1. main' \in {"configure", "exit"} /\ setup' = setup
    BY <1>4 DEF Parsed, serverVars
  <2>2. CASE main' = "configure"
    <3>1. config' = top /\ stack' = stack
      BY <1>4, <2>2 DEF Parsed, parserVars
    <3>2. PICK T, B : Typed(T, B) /\ Built(T, B)
      BY DEF WordsInv
    <3>3. top \in Seq(Statements(T, B))
      BY <3>2, BelowTop
    <3>4. ConfigBuilt'
      BY <3>1, <3>2, <3>3 DEF ConfigBuilt, Built
    <3> QED
      BY <1>2, <2>1, <2>2, <3>4 DEF MainInv
  <2>3. CASE main' = "exit"
    BY <1>2, <2>1, <2>3 DEF MainInv
  <2> QED
    BY <2>1, <2>2, <2>3
<1>5. CASE GetPort
  <2>1. /\ main' = (IF port' = -1 THEN "exit" ELSE "construct")
        /\ main = "configure" /\ setup' = setup /\ config' = config /\ text' = text
        /\ port' = get_port_from_config(config)
    BY <1>5 DEF GetPort, serverVars, parserVars
  <2>2. main' = "construct" => IsPort(port')
    BY <2>1, PortRange
  <2>3. main' = "construct" => IsPort(port)'
    BY <2>2 DEF IsPort
  <2> QED
    BY <1>1, <1>2, <2>1, <2>3 DEF MainInv
<1>6. CASE Construct
  <2>1. main = "construct" /\ config' = config /\ text' = text
    BY <1>6 DEF Construct, parserVars
  <2>2. CASE main' = "run"
    <3>1. /\ ServerStarts([names |-> get_handler_types(config),
                           paths |-> get_path_from_config(config)])
          /\ port' = Unsigned(Short(port))
      BY <1>6, <2>2 DEF Construct
    <3>2. setup'.names = get_handler_types(config)
      BY <3>1 DEF ServerStarts
    <3>3. \E S : DOMAIN setup'.names \subseteq Seq(S) \ {<< >>}
      BY <2>1, <3>2, HandlersNamed DEF MainInv
    <3>4. port \in Int /\ IsPort(port)
      BY <2>1 DEF MainInv, IsPort
    <3>5. port' = port
      BY <3>1, <3>4, PortRound
    <3> QED
      BY <1>1, <2>1, <2>2, <3>3, <3>5 DEF MainInv, Endpoints, IsPort
  <2>3. CASE main' = "exit"
    <3>1. setup' = setup
      BY <1>6, <2>3 DEF Construct, serverVars
    <3> QED
      BY <1>2, <2>3, <3>1 DEF MainInv
  <2>4. main' \in {"run", "exit"}
    BY <1>6 DEF Construct
  <2> QED
    BY <2>2, <2>3, <2>4
<1>7. CASE Run
  <2>1. /\ main = "run" /\ main' = main /\ port' = port
        /\ config' = config /\ text' = text
    BY <1>7 DEF Run, parserVars, mainVars
  <2>2. setup' = setup
    BY <1>7 DEF Run, ServerNext, Accepted, Arrived, HangUp, handle_accept, handle_read,
                LogStarted, start_accept, serve, Respond, Signal, ProcessEnds
  <2> QED
    BY <1>1, <1>2, <2>1, <2>2 DEF MainInv, IsPort
<1>8. CASE UNCHANGED webVars
  <2>1. /\ main' = main /\ port' = port /\ config' = config
        /\ text' = text /\ setup' = setup
    BY <1>8 DEF webVars, parserVars, mainVars, serverVars
  <2> QED
    BY <1>1, <1>2, <2>1 DEF MainInv, IsPort
<1> QED
  BY <1>3, <1>4, <1>5, <1>6, <1>7, <1>8 DEF WebNext

\* For files of any length, as long as what they hold is characters.
LEMMA WebInvariant == WebSpec => [](TypeInv /\ MatchInv /\ MainInv)
<1>1. WebInit => ParserInv /\ WordsInv
  <2> SUFFICES ASSUME WebInit
               PROVE  ParserInv /\ WordsInv
    OBVIOUS
  <2>1. /\ stack = << << >> >> /\ last = "START" /\ state = "WHITESPACE"
        /\ text \in Seq(Characters) /\ input = text /\ value = << >>
    BY TextsAssumption DEF WebInit, ParserInit
  <2>2. Typed({}, {}) /\ Built({}, {}) /\ value \in Seq(Characters)
    BY <2>1 DEF Typed, Built
  <2> QED
    BY <2>1, <2>2 DEF ParserInv, Worded, WordsInv
<1>2. WebInit => ServerInit /\ MainTypes /\ MainInv /\ MatchInv
  BY IdleFields DEF WebInit, ServerInit, ParserInit, MainTypes, TokenTypes, MainInv,
                    Endpoints, MatchInv
<1> QED
  BY <1>1, <1>2, WebSteps, ParserStep, WordsStep, InitTyped, TypeStep, MatchStep,
     MainTyped, MainStep, PTL DEF WebSpec

\* From the characters of the file to the answers: the server that runs is bound
\* to the port that is in the file, beyond 32767 too, and routes by its locations,
\* as long as URLs are paths.
THEOREM ConfigurationCorrect ==
    ASSUME NEW R, \A url \in Urls : url \in Seq(R) /\ Len(url) > 0 /\ url[1] = "/"
    PROVE  WebSpec => []RunsAsConfigured
<1>1. MatchInv /\ MainInv => RunsAsConfigured
  BY MatchedHandler DEF RunsAsConfigured, RoutedAsConfigured, MainInv
<1> QED
  BY <1>1, WebInvariant, PTL

\* ... and that a request of the CRUD handler has the index of the directory it
\* is served from, as long as directories are given to handlers that exist.
THEOREM DirectoriesCorrect == WebSpec /\ []Directories => []IndexMatchesDirectory
<1>1. WebSpec => []Endpoints
  <2>1. MainInv => Endpoints
    BY DEF MainInv
  <2> QED
    BY <2>1, WebInvariant, PTL
<1>2. WebSpec => ServerSpec
  <2>1. WebInit => ServerInit
    BY DEF WebInit
  <2> QED
    BY <2>1, WebSteps, PTL DEF WebSpec, ServerSpec
<1> QED
  BY <1>1, <1>2, IndexCorrect, PTL

\* What main has is what the parser has built, and what the server has is of it.
FileInv ==
    /\ main \in {"configure", "construct", "run"} => verdict = "valid" /\ config = top
    /\ main = "run" => setup = [names |-> get_handler_types(config),
                                paths |-> get_path_from_config(config)]
    /\ main = "exit" =>
          \/ verdict \in {"missing", "invalid"}
          \/ verdict = "valid" /\ config = top /\ port = get_port_from_config(config)

\* The parser is done when main goes on.
LEMMA FileStep == MainInv /\ FileInv /\ [WebNext]_webVars => FileInv'
<1> SUFFICES ASSUME MainInv, FileInv, [WebNext]_webVars
             PROVE  FileInv'
  OBVIOUS
<1>1. UNCHANGED <<stack, config, text>> =>
         /\ (config = top) <=> (config = top)'
         /\ get_handler_types(config)' = get_handler_types(config)
         /\ get_path_from_config(config)' = get_path_from_config(config)
         /\ get_port_from_config(config)' = get_port_from_config(config)
  <2>1. config' = config /\ text' = text =>
           get_port_from_config(config)' = get_port_from_config(config)
    BY DEF get_port_from_config, Braces
  <2> QED
    BY <2>1 DEF top
<1>2. CASE ParseConfig
  BY <1>2 DEF ParseConfig, mainVars, FileInv
<1>3. CASE Parsed
  <2>1. CASE main' = "configure"
    <3>1. verdict' = "valid" /\ config' = top /\ stack' = stack
      BY <1>3, <2>1 DEF Parsed, parserVars
    <3> QED
      BY <2>1, <3>1 DEF FileInv, top
  <2>2. CASE verdict \in {"invalid", "missing"} /\ main' = "exit"
    <3>1. verdict' = verdict
      BY <1>3 DEF Parsed, parserVars
    <3> QED
      BY <2>2, <3>1 DEF FileInv
  <2> QED
    BY <1>3, <2>1, <2>2 DEF Parsed
<1>4. CASE GetPort
  <2>1. /\ main = "configure" /\ main' \in {"exit", "construct"}
        /\ UNCHANGED <<stack, config, text, verdict>> /\ port' = get_port_from_config(config)
    BY <1>4 DEF GetPort, parserVars
  <2> QED
    BY <1>1, <2>1 DEF FileInv
<1>5. CASE Construct
  <2>1. main = "construct" /\ UNCHANGED <<stack, config, text, verdict>>
    BY <1>5 DEF Construct, parserVars
  <2>2. CASE main' = "exit" /\ UNCHANGED <<serverVars, port>>
    <3>1. port' = get_port_from_config(config)
      BY <2>1, <2>2 DEF MainInv
    <3> QED
      BY <1>1, <2>1, <2>2, <3>1 DEF FileInv
  <2>3. CASE main' = "run"
    <3>1. ServerStarts([names |-> get_handler_types(config),
                        paths |-> get_path_from_config(config)])
      BY <1>5, <2>3 DEF Construct
    <3>2. setup' = [names |-> get_handler_types(config),
                    paths |-> get_path_from_config(config)]
      BY <3>1 DEF ServerStarts
    <3> QED
      BY <1>1, <2>1, <2>3, <3>2 DEF FileInv
  <2> QED
    BY <1>5, <2>2, <2>3 DEF Construct
<1>6. CASE Run
  <2>1. main = "run" /\ main' = main /\ UNCHANGED <<stack, config, text, verdict>>
    BY <1>6 DEF Run, parserVars, mainVars
  <2>2. setup' = setup
    BY <1>6 DEF Run, ServerNext, Accepted, Arrived, HangUp, handle_accept, handle_read,
                LogStarted, start_accept, serve, Respond, Signal, ProcessEnds
  <2> QED
    BY <1>1, <2>1, <2>2 DEF FileInv
<1>7. CASE UNCHANGED webVars
  <2>1. main' = main /\ setup' = setup /\ UNCHANGED <<stack, config, text, verdict, port>>
    BY <1>7 DEF webVars, parserVars, mainVars, serverVars
  <2> QED
    BY <1>1, <2>1 DEF FileInv
<1> QED
  BY <1>2, <1>3, <1>4, <1>5, <1>6, <1>7 DEF WebNext

\* The text of the file can be read in one way, and the running server has the
\* port, the handlers and the paths that are in that.
ServesFile ==
    main = "run" =>
        \E conf :
            /\ Readings[Tokens[text]] = {conf}
            /\ port = get_port_from_config(conf)
            /\ setup = [names |-> get_handler_types(conf), paths |-> get_path_from_config(conf)]

\* main ends because there is no file, no configuration in it, no port in that,
\* or because it could not have the port.
GivesUpForCause ==
    main = "exit" =>
        \/ verdict = "missing"
        \/ Readings[Tokens[text]] = {}
        \/ \E conf : Readings[Tokens[text]] = {conf} /\ port = get_port_from_config(conf)

\* From the characters of the file to the server: a server runs only for a file
\* that holds a configuration, and with everything that the file says; without
\* one main has a reason.
THEOREM FileCorrect == WebSpec => [](ServesFile /\ GivesUpForCause)
<1>1. WebInit => FileInv
  BY DEF WebInit, FileInv
<1>2. ParsesConfigurations /\ MainInv /\ FileInv => ServesFile /\ GivesUpForCause
  <2> SUFFICES ASSUME ParsesConfigurations, MainInv, FileInv
               PROVE  ServesFile /\ GivesUpForCause
    OBVIOUS
  <2>1. ASSUME main = "run"
        PROVE  /\ Readings[Tokens[text]] = {config} /\ port = get_port_from_config(config)
               /\ setup = [names |-> get_handler_types(config),
                           paths |-> get_path_from_config(config)]
    <3>1. verdict = "valid" /\ config = top
      BY <2>1 DEF FileInv
    <3>2. Readings[Tokens[text]] = {config}
      BY <3>1 DEF ParsesConfigurations
    <3> QED
      BY <2>1, <3>2 DEF FileInv, MainInv
  <2>2. ASSUME main = "exit"
        PROVE  \/ verdict = "missing" \/ Readings[Tokens[text]] = {}
               \/ Readings[Tokens[text]] = {config} /\ port = get_port_from_config(config)
    BY <2>2 DEF FileInv, ParsesConfigurations
  <2>3. ServesFile
    BY <2>1, Zenon DEF ServesFile
  <2>4. GivesUpForCause
    BY <2>2, Zenon DEF GivesUpForCause
  <2> QED
    BY <2>3, <2>4
<1> QED
  BY <1>1, <1>2, FileStep, WebInvariant, PartsCorrect, PTL DEF WebSpec

=============================================================================
