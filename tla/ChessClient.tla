----------------------------- MODULE ChessClient -----------------------------
(***************************************************************************)
(* The page (src/files/frontend/index.html) as a client of chess_handler.  *)
(* Every response is handled by a callback of its own, and nothing makes a *)
(* click wait for the response under way.                                  *)
(*                                                                         *)
(* The response to "Start New Game" makes a closure: its FEN, the clicks   *)
(* collected so far (completeMove) and the handlePieceClick of the squares *)
(* it drew.  Requests keep their closure alive, so that a late response    *)
(* finds the game it belongs to, not the one on the screen.                *)
(*                                                                         *)
(* Others use the server too: a visitor sends any of Visits to the chess   *)
(* handler, and what others send may be logged at any time.                *)
(*                                                                         *)
(* Bounds: Games, Slots, MaxMeetings, and Quiet: the page acts only while  *)
(* no handler prints.  What it does in the middle of a print is invisible  *)
(* to the print, and a request it sent before may be taken up at any step  *)
(* of it.                                                                  *)
(***************************************************************************)
EXTENDS ChessHandler, FiniteSets

CONSTANTS Games,    \* names of closures, given again when one is gone
          Slots,    \* the requests that may be under way at once (a bound)
          MaxMeetings, \* how often requests, or a request and a line, meet (a bound)
          Clicks,   \* the squares of the screen that are clicked
          Visits,   \* what visitors ask for
          Start,    \* the position of a new game
          NoGame, Nothing

Ask(p, then) == [fen |-> p, then |-> then, from |-> Nothing, to |-> Nothing]

AskMove(p, from, to) == [fen |-> p, then |-> "move", from |-> from, to |-> to]

Flights == [by : Games \cup {"start", "visitor"}, request : Requests,
            answer : Answers \cup {NoAnswer}]

\* A closure, and whether it ever took for its FEN what the handler did not
\* append as one (which the page does not know).
Closures == [FEN : Fens, completeMove : {<< >>} \cup {<<sq>> : sq \in Clicks},
             spoilt : BOOLEAN]

\* There are as many names as there are requests that keep a closure alive.
ASSUME ClientAssumption ==
    /\ IsFiniteSet(Games) /\ IsFiniteSet(Slots) /\ Cardinality(Slots) <= Cardinality(Games)
    /\ NoGame \notin Games \cup Closures /\ Games \cap {"start", "visitor"} = {}
    /\ Nothing \notin Slots \cup Flights
    /\ Visits \subseteq Requests
    /\ \A p \in Fens : Ask(p, "show") \in Requests /\ Ask(p, "ai") \in Requests
    /\ \A p \in Fens, from, to \in Clicks : AskMove(p, from, to) \in Requests
    /\ MaxMeetings \in Nat
    /\ Rows > 0

\* The sides move in turn, White first.
ASSUME TurnAssumption ==
    /\ Start \in Boards /\ Chess.side[Start] = "white"
    /\ \A p \in Boards : /\ Chess.side[p] \in {"white", "black"}
                         /\ \A m \in Legal(p) : Chess.side[m.next] # Chess.side[p]

VARIABLES flight,   \* the requests under way: whose, what, and the answer
          serving,  \* the request each thread works for
          game,     \* the closures: [FEN, completeMove, spoilt]
          screen,   \* the board drawn: of which closure, what, reversed?, disturbed?
          haste,    \* how often the player asked while a request was under way
          visits    \* how often a visitor asked, or a line came into a response

clientVars == <<flight, serving, game, screen, haste, visits>>

ClientTypeOK ==
    /\ HandlerTypeOK
    /\ flight \in [Slots -> Flights \cup {Nothing}]
    /\ serving \in [Workers -> Slots \cup {Nothing}]
    /\ game \in [Games -> Closures \cup {NoGame}]
    /\ screen \in [owner : Games \cup {NoGame}, shows : Boards \cup {Nothing},
                    reversed : BOOLEAN, mixed : BOOLEAN]
    /\ haste \in Nat /\ visits \in Nat /\ haste + visits <= MaxMeetings

ClientInit ==
    /\ HandlerInit
    /\ flight = [f \in Slots |-> Nothing]
    /\ serving = [w \in Workers |-> Nothing]
    /\ game = [g \in Games |-> NoGame]
    /\ screen = [owner |-> NoGame, shows |-> Nothing, reversed |-> FALSE, mixed |-> FALSE]
    /\ haste = 0 /\ visits = 0

----------------------------------------------------------------------------
(* Requests and what is drawn.                                             *)

Flight(by, r) == [by |-> by, request |-> r, answer |-> NoAnswer]

Of(by) == {f \in Slots : flight[f] # Nothing /\ flight[f].by \in by}

Pending == Of(Games \cup {"start"})

Free == {f \in Slots : flight[f] = Nothing}

\* fetch: a request leaves in a free slot, whichever.
Fetch(by, r) ==
    /\ Free # {}
    /\ flight' = [flight EXCEPT ![CHOOSE f \in Free : TRUE] = Flight(by, r)]

\* getUnicodeFromBoard reads up to the line below the first board of the text;
\* a text that does not start with a whole board draws anything.
Drawn(text) ==
    IF \E p \in Boards : Len(text) >= Rows /\ SubSeq(text, 1, Rows) = Text(p, Rows)
    THEN CHOOSE p \in Boards : SubSeq(text, 1, Rows) = Text(p, Rows)
    ELSE Nothing

Draw(g, data, reversed) ==
    screen' = [owner |-> g, shows |-> Drawn(data.text), reversed |-> reversed,
               mixed |-> data.mixed]

\* The newFEN of parseResponseBody: what is between the first two '+' of the
\* whole response, of a logged line if one with a '+' is in it.
HasPlus(item) == item[2] = 0 /\ item[1] # NoPlus

FirstPlus(text) ==
    CHOOSE i \in 1..Len(text) :
        HasPlus(text[i]) /\ \A j \in 1..(i - 1) : ~HasPlus(text[j])

parseResponseBody(data) ==
    IF \E i \in 1..Len(data.text) : HasPlus(data.text[i])
    THEN data.text[FirstPlus(data.text)][1] ELSE data.fen

\* FEN = newFEN
TakeFen(g, data) ==
    LET newFEN == parseResponseBody(data)
        spoils == game[g].spoilt \/ newFEN # data.fen
    IN  [game EXCEPT ![g] = [game[g] EXCEPT !.FEN = newFEN, !.spoilt = spoils]]

Mirror(sq) == <<7 - sq[1], 7 - sq[2]>>

\* printBoard puts the side to move at the bottom, and reverse() turns it.
Upside == (Chess.side[screen.shows] = "black") # screen.reversed

\* The squares of the screen that may hold a piece, that may be empty.
Occupied == DOMAIN Chess.men[screen.shows]

MayHold(sq) ==
    IF screen.shows = Nothing THEN TRUE
    ELSE (IF Upside THEN Mirror(sq) ELSE sq) \in Occupied

----------------------------------------------------------------------------
(* The player.                                                             *)

Quiet == ~up \/ Busy = {}

Hurry ==
    /\ haste' = haste + (IF Pending = {} THEN 0 ELSE 1)
    /\ haste' + visits <= MaxMeetings

StartNewGame ==
    /\ up /\ Quiet
    /\ Fetch("start", Ask(Start, "show"))
    /\ Hurry
    /\ UNCHANGED <<serving, game, screen, visits, allVars>>

\* The first click of a move; on an empty square it is forgotten.
Select(g, sq) ==
    /\ game[g].completeMove = << >>
    /\ MayHold(sq)
    /\ game' = [game EXCEPT ![g].completeMove = <<sq>>]
    /\ UNCHANGED <<flight, serving, screen, haste, visits, allVars>>

Reselect(g, sq) ==
    /\ game[g].completeMove = <<sq>>
    /\ game' = [game EXCEPT ![g].completeMove = << >>]
    /\ UNCHANGED <<flight, serving, screen, haste, visits, allVars>>

\* The second click sends the move, a request still being under way or not.
SendMove(g, sq) ==
    /\ game[g].completeMove \notin {<< >>, <<sq>>}
    /\ Fetch(g, AskMove(game[g].FEN, game[g].completeMove[1], sq))
    /\ game' = [game EXCEPT ![g].completeMove = << >>]
    /\ Hurry
    /\ UNCHANGED <<serving, screen, visits, allVars>>

handlePieceClick(sq) ==
    /\ up /\ Quiet
    /\ screen.owner # NoGame
    /\ \/ Select(screen.owner, sq)
       \/ Reselect(screen.owner, sq)
       \/ SendMove(screen.owner, sq)

Visit ==
    /\ up /\ Quiet
    /\ haste + visits < MaxMeetings
    /\ visits' = visits + 1
    /\ \E r \in Visits : Fetch("visitor", r)
    /\ UNCHANGED <<serving, game, screen, haste, allVars>>

----------------------------------------------------------------------------
(* Responses.                                                              *)

Land(f) == flight' = [flight EXCEPT ![f] = Nothing]

Arrived(f, by) ==
    f \in Of(by) /\ flight[f].answer # NoAnswer

\* A closure lives as long as its squares are on the screen or a request of
\* its own is under way.
Keep(closures) ==
    game' = [g \in Games |->
               IF screen'.owner = g \/ \E f \in Slots : flight'[f] # Nothing /\ flight'[f].by = g
               THEN closures[g] ELSE NoGame]

NewClosure == [FEN |-> Start, completeMove |-> << >>, spoilt |-> FALSE]

NewGame(f) ==
    /\ Arrived(f, {"start"})
    /\ Land(f)
    /\ LET g == CHOOSE g \in Games : Of({g}) = {}
       IN  /\ Draw(g, flight[f].answer, FALSE)
           /\ Keep([game EXCEPT ![g] = NewClosure])
    /\ UNCHANGED <<serving, haste, visits, allVars>>

\* Mutant: Black is asked about the position before the move.
MovePlayed_OldFen(f) ==
    /\ Arrived(f, Games) /\ flight[f].request.then = "move"
    /\ flight[f].answer.status = 200
    /\ LET g == flight[f].by
       IN  /\ flight' = [flight EXCEPT ![f] = Flight(g, Ask(game[g].FEN, "ai"))]
           /\ Draw(g, flight[f].answer, TRUE)
           /\ Keep(TakeFen(g, flight[f].answer))
    /\ UNCHANGED <<serving, haste, visits, allVars>>

\* The move was accepted: the board is turned, and Black's move is asked for
\* whatever the result says.
MovePlayed(f) ==
    /\ Arrived(f, Games) /\ flight[f].request.then = "move"
    /\ flight[f].answer.status = 200
    /\ LET g == flight[f].by
           data == flight[f].answer
       IN  /\ flight' = [flight EXCEPT ![f] = Flight(g, Ask(parseResponseBody(data), "ai"))]
           /\ Draw(g, data, TRUE)
           /\ Keep(TakeFen(g, data))
    /\ UNCHANGED <<serving, haste, visits, allVars>>

\* Mutant: the FEN stays where it was.
AiPlayed_ForgetsFen(f) ==
    /\ Arrived(f, Games) /\ flight[f].request.then = "ai"
    /\ flight[f].answer.status = 200
    /\ Land(f)
    /\ Draw(flight[f].by, flight[f].answer, FALSE)
    /\ Keep(game)
    /\ UNCHANGED <<serving, haste, visits, allVars>>

AiPlayed(f) ==
    /\ Arrived(f, Games) /\ flight[f].request.then = "ai"
    /\ flight[f].answer.status = 200
    /\ Land(f)
    /\ LET g == flight[f].by
       IN  /\ Draw(g, flight[f].answer, FALSE)
           /\ Keep(TakeFen(g, flight[f].answer))
    /\ UNCHANGED <<serving, haste, visits, allVars>>

\* An error, or no connection: the game goes on as if nothing had been asked.
Refused(f) ==
    /\ \/ Arrived(f, Games) /\ flight[f].answer.status # 200
       \/ Arrived(f, {"visitor"})
       \/ f \in Of(Games \cup {"start", "visitor"}) /\ ~up
    /\ Land(f)
    /\ UNCHANGED <<serving, screen, haste, visits, allVars>>
    /\ Keep(game)

Respond(f) ==
    /\ Quiet
    /\ NewGame(f) \/ MovePlayed(f) \/ AiPlayed(f) \/ Refused(f)

----------------------------------------------------------------------------
(* The server's side.                                                      *)

Underway(f) == flight[f] # Nothing /\ flight[f].answer = NoAnswer

Waiting == {w \in Workers : phase[w] = "free"}

\* A thread takes up a request that was read; threads are alike.
Accept(f) ==
    /\ Underway(f) /\ \A w \in Workers : serving[w] # f
    /\ Waiting # {}
    /\ LET w == CHOOSE w \in Waiting : TRUE
       IN  /\ Serve(w, flight[f].request)
           /\ serving' = [serving EXCEPT ![w] = f]
    /\ UNCHANGED <<flight, game, screen, haste, visits>>

Working(w) ==
    /\ Work(w)
    /\ UNCHANGED clientVars

Reply(w) ==
    /\ Send(w)
    /\ flight' = [flight EXCEPT ![serving[w]].answer = answer[w]]
    /\ serving' = [serving EXCEPT ![w] = Nothing]
    /\ UNCHANGED <<game, screen, haste, visits>>

Die ==
    /\ Corrupt \/ \E w \in Workers : Overflow(w)
    /\ UNCHANGED clientVars

Logging ==
    /\ \E l \in Lines : Logged(l)
    /\ haste + visits < MaxMeetings
    /\ visits' = visits + 1
    /\ UNCHANGED <<flight, serving, game, screen, haste>>

ClientNext ==
    \/ StartNewGame \/ Visit
    \/ \E sq \in Clicks : handlePieceClick(sq)
    \/ \E f \in Slots : Respond(f) \/ Accept(f)
    \/ \E w \in Workers : Working(w) \/ Reply(w)
    \/ Die \/ Logging

everything == <<allVars, clientVars>>

\* The queue of io_service is first in, first out, so a request that waits
\* while threads come free is not passed over for ever; threads run; the
\* network delivers (strong only because of Quiet).
Fairness ==
    /\ \A f \in Slots : SF_everything(Accept(f)) /\ SF_everything(Respond(f))
    /\ \A w \in Workers : WF_everything(Working(w)) /\ WF_everything(Reply(w))

ClientSpec == ClientInit /\ [][ClientNext]_everything /\ Fairness

----------------------------------------------------------------------------
\* What the player sees is the position the next click will be sent with, the
\* right way up, whenever no request of theirs is under way: as long as they
\* never asked for two things at once, the text that is drawn was undisturbed,
\* and the game never took another text for its FEN.
ShownIsPlayed ==
    (/\ haste = 0 /\ Pending = {}
     /\ screen.owner # NoGame /\ ~screen.mixed /\ ~game[screen.owner].spoilt) =>
        screen.shows = game[screen.owner].FEN /\ ~Upside

\* Whatever the player clicks, whoever else is served meanwhile and whatever is
\* logged, the FEN of a game is one that legal moves from the start lead to, or
\* the game once took something else in a response for it.
Closed(S) == \A p \in S : \A m \in Legal(p) : m.next \in S

Reachable == {p \in Boards : \A S \in SUBSET Boards : Start \in S /\ Closed(S) => p \in S}

FenReachable ==
    \A g \in Games : game[g] # NoGame /\ ~game[g].spoilt => game[g].FEN \in Reachable

\* What a step does to a game: nothing, or the move that was asked for.
InTurn(g) ==
    \/ game[g] = NoGame \/ game'[g] = NoGame
    \/ game'[g].spoilt
    \/ game'[g].FEN \in {game[g].FEN, Start}
    \/ \E m \in Legal(game[g].FEN) :
          /\ m.next = game'[g].FEN
          /\ Chess.side[game[g].FEN] = "white" =>
                \E f \in Of({g}) : /\ flight[f].request.then = "move"
                                   /\ flight[f].request.from = m.from
                                   /\ flight[f].request.to = m.to

\* A player who waits for each response plays a game of chess: White's moves
\* are the clicked ones, Black's any legal one, in turn, and none is lost, as
\* long as no logged line is taken for a FEN.
PlaysInTurn == [][haste' = 0 => \A g \in Games : InTurn(g)]_everything

\* "part after + sign will be the updated fen", says chess_handler.cc: what the
\* page reads there is the FEN that the handler appended.
AfterPlusIsFen ==
    \A f \in Slots :
        Arrived(f, Games \cup {"start", "visitor"}) /\ flight[f].answer.fen # NoFen =>
            parseResponseBody(flight[f].answer) = flight[f].answer.fen

\* Every request is answered, unless finished games hold its thread or every
\* thread, or have ended the process: Black's move is asked for after mate too.
RequestAnswered(f) ==
    Underway(f) ~> \/ ~Underway(f) \/ ~up
                   \/ \A w \in Workers : Stuck(w)
                   \/ \E w \in Workers : serving[w] = f /\ Stuck(w)

EveryoneAnswered == \A f \in Slots : RequestAnswered(f)

=============================================================================
