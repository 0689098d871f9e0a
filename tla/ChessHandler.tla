---------------------------- MODULE ChessHandler ----------------------------
(***************************************************************************)
(* The requests of chess_handler (src/src/chess_handler.cc), each served   *)
(* by a thread of the pool: serve answers the page or a printed board,     *)
(* move_pieces plays the move of the request, handle_ai one of its own.    *)
(* Every request carries its position as a FEN and builds a board from it, *)
(* so what threads share is std::cout alone (OutputRedirect, whose boards  *)
(* are the positions).  Of a logged line it matters what follows a '+' in  *)
(* it: session.cc logs the target of every request, of any handler.        *)
(*                                                                         *)
(* What chess is comes in as data: Movegen and Searcher model the code     *)
(* behind it.                                                              *)
(***************************************************************************)
EXTENDS OutputRedirect

CONSTANTS Chess,   \* [side, men, moves, result], each a function of the position
          NoFen,   \* a request or an answer without a position
          BadFen,  \* a text that parseFen rejects
          NoPlus,  \* a line without a '+'
          Requests,
          NoRequest, NoAnswer

\* A move is <<from, to, promoted>> with the position it leads to; a
\* pseudo-legal one that leaves the king in check is not legal.
Legal(p) == {m \in Chess.moves[p] : m.legal}

\* What a request can have in the place of its position.
Fens == Boards \cup {NoFen, BadFen}

ASSUME ChessAssumption ==
    /\ {NoFen, BadFen} \cap Boards = {}
    /\ NoPlus \in Lines /\ NoPlus \notin Fens
    /\ Lines \subseteq Fens \cup {NoPlus}
    /\ \A p \in Boards : \A m \in Legal(p) : m.next \in Boards
    /\ \A p \in Boards : Chess.result[p] \in {"w", "b", "d", "x"}
    /\ \A p \in Boards : Chess.result[p] = "x" <=> Legal(p) # {}
    /\ NoRequest \notin Requests

\* White moves its own men, and nothing but a pawn on row 0 is promoted, to a
\* queen among others.
ASSUME PromotionAssumption ==
    \A p \in Boards : \A m \in Legal(p) :
        Chess.side[p] = "white" =>
            /\ m.from \in DOMAIN Chess.men[p]
            /\ IF m.to[1] = 0 /\ Chess.men[p][m.from] = <<"white", "pawn">>
               THEN \E q \in Legal(p) :
                       q.from = m.from /\ q.to = m.to /\ q.promoted = "queen"
               ELSE m.promoted = "none"

VARIABLES request,  \* the request each thread serves
          phase,    \* "free", "search", "show", "answered"
          answer,   \* the answer it has ready
          up        \* whether the process runs

handlerVars == <<request, phase, answer, up>>

allVars == <<vars, handlerVars>>

\* An answer, and whether its text may be disturbed (which it does not say).
Answers == [status : {200, 400}, text : Seq(Written), fen : Boards \cup {NoFen},
            result : {"w", "b", "d", "x", "-"}, mixed : BOOLEAN]

HandlerTypeOK ==
    /\ TypeOK
    /\ request \in [Workers -> Requests \cup {NoRequest}]
    /\ phase \in [Workers -> {"free", "search", "show", "answered"}]
    /\ answer \in [Workers -> Answers \cup {NoAnswer}]
    /\ up \in BOOLEAN

HandlerInit ==
    /\ Init
    /\ request = [w \in Workers |-> NoRequest]
    /\ phase = [w \in Workers |-> "free"]
    /\ answer = [w \in Workers |-> NoAnswer]
    /\ up = TRUE

\* An answer without a board: the page itself (or that it could not be read),
\* or an error.
Plain(status) ==
    [status |-> status, text |-> << >>, fen |-> NoFen, result |-> "-", mixed |-> FALSE]

AnswerNow(w, r, ans) ==
    /\ request' = [request EXCEPT ![w] = r]
    /\ answer' = [answer EXCEPT ![w] = ans]
    /\ phase' = [phase EXCEPT ![w] = "answered"]
    /\ UNCHANGED <<vars, up>>

Show(w, r, p) ==
    /\ Receive(w, p)
    /\ request' = [request EXCEPT ![w] = r]
    /\ phase' = [phase EXCEPT ![w] = "show"]
    /\ UNCHANGED <<answer, up>>

----------------------------------------------------------------------------
(* move_pieces.                                                            *)

\* Mutant: no promotion piece is set.
AutoQueen_Never(p, from, to) == "none"

\* A pawn of White that reaches row 0 becomes a queen; nothing else promotes.
AutoQueen(p, from, to) ==
    IF to[1] = 0 /\ from \in DOMAIN Chess.men[p]
         /\ Chess.men[p][from] = <<"white", "pawn">>
    THEN "queen" ELSE "none"

\* Mutant: a pseudo-legal move is good enough.
Playable_PseudoLegal(r) ==
    {m \in Chess.moves[r.fen] :
        <<m.from, m.to, m.promoted>> = <<r.from, r.to, AutoQueen(r.fen, r.from, r.to)>>}

\* The generated move with the key of the requested one, if makeMove takes it.
Playable(r) ==
    {m \in Legal(r.fen) :
        <<m.from, m.to, m.promoted>> = <<r.from, r.to, AutoQueen(r.fen, r.from, r.to)>>}

\* Mutant: a move that cannot be played gets no response.
MovePieces_Silent(w, r) ==
    \/ \E m \in Playable(r) : Show(w, r, m.next)
    \/ Playable(r) = {} /\ UNCHANGED allVars

MovePieces(w, r) ==
    \/ \E m \in Playable(r) : Show(w, r, m.next)
    \/ Playable(r) = {} /\ AnswerNow(w, r, Plain(400))

----------------------------------------------------------------------------
(* serve.                                                                  *)

Serve(w, r) ==
    /\ up /\ phase[w] = "free"
    /\ \/ /\ r.fen = NoFen
          /\ AnswerNow(w, r, Plain(200))
       \/ /\ r.fen = BadFen
          /\ AnswerNow(w, r, Plain(400))
       \/ /\ r.fen \in Boards /\ r.then = "ai"
          /\ request' = [request EXCEPT ![w] = r]
          /\ phase' = [phase EXCEPT ![w] = "search"]
          /\ UNCHANGED <<vars, answer, up>>
       \/ /\ r.fen \in Boards /\ r.then = "malformed"
          /\ AnswerNow(w, r, Plain(400))
       \/ /\ r.fen \in Boards /\ r.then = "move"
          /\ MovePieces(w, r)
       \/ /\ r.fen \in Boards /\ r.then = "show"
          /\ Show(w, r, r.fen)

\* handle_ai: reccomendMove gives some legal move.
Recommend(w) ==
    /\ up /\ phase[w] = "search"
    /\ \E m \in Legal(request[w].fen) :
          /\ Receive(w, m.next)
          /\ phase' = [phase EXCEPT ![w] = "show"]
    /\ UNCHANGED <<request, answer, up>>

\* Without one it calls itself again and again: the thread is lost, and in a
\* build that does not turn the call into a loop the stack ends the process.
Stuck(w) == phase[w] = "search" /\ Legal(request[w].fen) = {}

Overflow(w) ==
    /\ up /\ Stuck(w)
    /\ up' = FALSE
    /\ UNCHANGED <<vars, request, phase, answer>>

PrintBoard(w) ==
    /\ up
    /\ ReadBuffer(w) \/ StoreBuffer(w) \/ PrintRow(w) \/ TakeText(w)
    /\ UNCHANGED handlerVars

\* A stringbuf is no place for two threads at a time, nor for any when its
\* stringstream is gone: a row or a line may be lost then (RowGoes, LineGoes), or
\* the process ends.  Something may be logged at any moment.
Corrupt ==
    /\ up
    /\ cout # console
    /\ cout \notin alive \/ \E w \in Workers : At(w, "print")
    /\ up' = FALSE
    /\ UNCHANGED <<vars, request, phase, answer>>

Logged(l) ==
    /\ up
    /\ Log(l)
    /\ UNCHANGED handlerVars

\* cout is put back, then getFen and gameWinner complete the answer to a move:
\* the text, a '+', fen, a '+' and result.
Finish(w) ==
    /\ up
    /\ Restore(w)
    /\ LET shown == request[w].then = "show"
       IN  answer' = [answer EXCEPT ![w] =
              [status |-> 200, text |-> body[w], mixed |-> w \in mixed,
               fen |-> IF shown THEN NoFen ELSE board[w],
               result |-> IF shown THEN "-" ELSE Chess.result[board[w]]]]
    /\ phase' = [phase EXCEPT ![w] = "answered"]
    /\ UNCHANGED <<request, up>>

\* The session sends the answer and is gone.
Send(w) ==
    /\ up /\ phase[w] = "answered"
    /\ request' = [request EXCEPT ![w] = NoRequest]
    /\ answer' = [answer EXCEPT ![w] = NoAnswer]
    /\ phase' = [phase EXCEPT ![w] = "free"]
    /\ Leave(w)
    /\ UNCHANGED up

Work(w) == Recommend(w) \/ PrintBoard(w) \/ Finish(w)

HandlerNext ==
    \/ \E w \in Workers :
          \/ \E r \in Requests : Serve(w, r)
          \/ Work(w) \/ Overflow(w) \/ Send(w)
    \/ Corrupt
    \/ \E l \in Lines : Logged(l)

HandlerSpec == HandlerInit /\ [][HandlerNext]_allVars

----------------------------------------------------------------------------
\* The clicks of White count: move_pieces refuses a move, of a position with
\* White to move, only if no legal move goes there.  (A promotion of Black is
\* refused whatever it is.)
WhiteIsHeard ==
    \A w \in Workers :
        LET r == request[w]
        IN  phase[w] = "answered" /\ answer[w].status = 400 /\ r.fen \in Boards
              /\ r.then = "move" /\ Chess.side[r.fen] = "white"
            => ~ \E m \in Legal(r.fen) : m.from = r.from /\ m.to = r.to

=============================================================================
