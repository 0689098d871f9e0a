------------------------------ MODULE Searcher ------------------------------
(***************************************************************************)
(* The Searcher class (src/src/chess/searcher.cpp) answering one request   *)
(* of handle_ai: reccomendMove deepens an alpha-beta search until the      *)
(* clock stops it and then looks up the move of the root position in a     *)
(* table of principal variation moves, which positions share slots of.     *)
(* The C++ recursion is a stack of frames, one per call that is active.    *)
(*                                                                         *)
(* Abstractions.  A game is a set of positions with their moves and static *)
(* evaluations; Movegen models what moves there are.  Killer and history   *)
(* tables only order the moves after the one in the PV table: here they    *)
(* come in any order.  Position keys are the positions (no two share a     *)
(* key).  The clock may run out whenever checkTime is called.  The         *)
(* fifty-move rule, which a search from a FEN cannot reach within MAXDEPTH *)
(* plies, and the unused ponder, multicut and transposition table are left *)
(* out.                                                                    *)
(***************************************************************************)
EXTENDS Integers, Sequences, SequencesExt

CONSTANTS Positions,
          Games,        \* the games, each with the position to search from
          Slot,         \* the slot of the PV table of each position
          NOMOVE,
          EMPTYBOARD,   \* the key of a board without pieces
          MAXDEPTH      \* 32 in defs.h

INFINITE == 100000
MATE == 90000

ASSUME SearcherAssumption ==
    /\ {EMPTYBOARD, NOMOVE} \cap Positions = {} /\ EMPTYBOARD # NOMOVE
    /\ MAXDEPTH \in 1 .. (INFINITE - MATE)

\* A move: where it leads, whether it captures, whether makeMove accepts it.
Moves == [to : Positions, capture : BOOLEAN, legal : BOOLEAN]

ASSUME GamesAssumption ==
    /\ NOMOVE \notin Moves
    /\ \A g \in Games :
           /\ g.root \in Positions
           /\ g.moves \in [Positions -> SUBSET Moves]
           /\ g.eval \in [Positions -> Int]
           /\ g.fits \in BOOLEAN \* whether a search of depth 1 always ends in time

VARIABLES game,         \* moves, evaluations, checks, and root position
          pos, history, \* the board: position, and the positions before it
          pvTable, rootPosKey, searchDepth, stop, score,
          stack,        \* the active calls of alphaBeta and quiescenceSearch
          result,       \* what the last call returned
          pc

vars == <<game, pos, history, pvTable, rootPosKey, searchDepth, stop, score,
          stack, result, pc>>

MovesOf(p) == game.moves[p]

Captures(p) == {m \in MovesOf(p) : m.capture}

\* A call's parameters and locals.  moves: those not tried yet.
Call(alpha, beta, depth, quiet) ==
    [alpha |-> alpha, oldAlpha |-> alpha, beta |-> beta, depth |-> depth,
     quiet |-> quiet, moves |-> {}, tried |-> NOMOVE, best |-> NOMOVE,
     movesMade |-> 0]

\* Mutant: the window is negated but not turned round.
ChildCall_NotTurned(f) == Call(-f.alpha, -f.beta, f.depth - 1, f.quiet)

\* The call for the position after a move.
ChildCall(f) == Call(-f.beta, -f.alpha, f.depth - 1, f.quiet)

Calls ==
    [alpha : Int, oldAlpha : Int, beta : Int, depth : Int, quiet : BOOLEAN,
     moves : SUBSET Moves, tried : Moves \cup {NOMOVE}, best : Moves \cup {NOMOVE},
     movesMade : Nat]

top == Last(stack)

SetTop(frame) == Append(Front(stack), frame)

\* Mutant: once before is enough.
Repeated_Once == pos \in Range(history)

\* The position has occurred twice before.
Repeated ==
    \E i, j \in DOMAIN history : i # j /\ history[i] = pos /\ history[j] = pos

\* Mutant: the key of the entry is not compared.
getPvMove_AnyKey == pvTable[Slot[pos]].move

getPvMove ==
    LET node == pvTable[Slot[pos]] IN IF node.posKey = pos THEN node.move ELSE NOMOVE

\* Mutant: no entry is protected.
storePvMove_Overwrites(move) ==
    pvTable' = [pvTable EXCEPT ![Slot[pos]] = [posKey |-> pos, move |-> move]]

\* The entry of the root is overwritten for the root only.
storePvMove(move) ==
    IF pvTable[Slot[pos]].posKey = rootPosKey /\ rootPosKey # pos
    THEN UNCHANGED pvTable
    ELSE pvTable' = [pvTable EXCEPT ![Slot[pos]] = [posKey |-> pos, move |-> move]]

\* The move of the PV table is tried first.
pickNextMove == IF getPvMove \in top.moves THEN {getPvMove} ELSE top.moves

\* The clock is looked at: it may have run out.
checkTime ==
    IF game.fits /\ searchDepth = 1
    THEN UNCHANGED stop
    ELSE stop' \in {stop, TRUE}

----------------------------------------------------------------------------
(* alphaBeta and quiescenceSearch.                                         *)

Return(value) ==
    /\ stack' = Front(stack)
    /\ result' = value
    /\ pc' = "returned"

\* A call up to its loop.  At its last ply alphaBeta is quiescenceSearch.
Enter ==
    LET quiet == top.quiet \/ top.depth <= 0 \/ top.depth >= MAXDEPTH
        stand == game.eval[pos]
    IN  /\ pc = "called"
        /\ checkTime
        /\ IF Repeated THEN Return(0)
           ELSE IF quiet /\ stand >= top.beta THEN Return(top.beta)
           ELSE /\ stack' = SetTop([top EXCEPT
                      !.quiet = quiet,
                      !.moves = IF quiet THEN Captures(pos) ELSE MovesOf(pos),
                      !.alpha = IF quiet /\ stand > @ THEN stand ELSE @])
                /\ pc' = "loop"
                /\ UNCHANGED result
        /\ UNCHANGED <<game, pos, history, pvTable, rootPosKey, searchDepth, score>>

TryMove ==
    /\ pc = "loop"
    /\ \E m \in pickNextMove :
          LET frame == [top EXCEPT !.moves = @ \ {m}]
          IN  IF m.legal
              THEN /\ stack' = Append(SetTop([frame EXCEPT !.tried = m, !.movesMade = @ + 1]),
                                     ChildCall(top))
                   /\ pos' = m.to
                   /\ history' = Append(history, pos)
                   /\ pc' = "called"
              ELSE /\ stack' = SetTop(frame)
                   /\ UNCHANGED <<pos, history, pc>>
    /\ UNCHANGED <<game, pvTable, rootPosKey, searchDepth, stop, score, result>>

takeBack == pos' = Last(history) /\ history' = Front(history)

\* Mutant: a cutoff returns alpha.
Compare_ReturnsAlpha(moveScore) ==
    IF moveScore > top.alpha /\ moveScore >= top.beta
    THEN Return(top.alpha)
    ELSE /\ stack' = IF moveScore > top.alpha
                     THEN SetTop([top EXCEPT !.alpha = moveScore, !.best = top.tried])
                     ELSE stack
         /\ pc' = "loop"
         /\ UNCHANGED result

\* A score above beta ends the call, one above alpha is the best so far.
Compare(moveScore) ==
    IF moveScore > top.alpha /\ moveScore >= top.beta
    THEN Return(top.beta)
    ELSE /\ stack' = IF moveScore > top.alpha
                     THEN SetTop([top EXCEPT !.alpha = moveScore, !.best = top.tried])
                     ELSE stack
         /\ pc' = "loop"
         /\ UNCHANGED result

\* Mutants: a stopped search leaves the board where it is, or goes on.
HandleScore_StopsFirst ==
    /\ pc = "returned" /\ stack # << >>
    /\ IF stop THEN Return(0) /\ UNCHANGED <<pos, history>>
       ELSE takeBack /\ Compare(-result)
    /\ UNCHANGED <<game, pvTable, rootPosKey, searchDepth, stop, score>>

HandleScore_IgnoresStop ==
    /\ pc = "returned" /\ stack # << >>
    /\ takeBack
    /\ Compare(-result)
    /\ UNCHANGED <<game, pvTable, rootPosKey, searchDepth, stop, score>>

\* The score of the move tried last has come back.
HandleScore ==
    /\ pc = "returned" /\ stack # << >>
    /\ takeBack
    /\ IF stop THEN Return(0) ELSE Compare(-result)
    /\ UNCHANGED <<game, pvTable, rootPosKey, searchDepth, stop, score>>

\* Every move has been tried.
EndLoop ==
    /\ pc = "loop" /\ top.moves = {}
    /\ IF ~top.quiet /\ top.movesMade = 0
       THEN /\ Return(IF pos \in game.inCheck THEN -MATE - top.depth ELSE 0)
            /\ UNCHANGED pvTable
       ELSE /\ Return(top.alpha)
            /\ IF ~top.quiet /\ top.alpha # top.oldAlpha
               THEN storePvMove(top.best) ELSE UNCHANGED pvTable
    /\ UNCHANGED <<game, pos, history, rootPosKey, searchDepth, stop, score>>

----------------------------------------------------------------------------
(* reccomendMove.                                                          *)

Deepen ==
    /\ pc = "deepen"
    /\ stack' = <<Call(-INFINITE, INFINITE, searchDepth, FALSE)>>
    /\ pc' = "called"
    /\ UNCHANGED <<game, pos, history, pvTable, rootPosKey, searchDepth, stop,
                   score, result>>

\* Mutant: nothing ends the deepening but the clock.
EndIteration_NoMaximum ==
    /\ pc = "returned" /\ stack = << >>
    /\ IF ~stop
       THEN /\ score' = result
            /\ searchDepth' = searchDepth + 1
            /\ pc' = "deepen"
       ELSE /\ pc' = "look up"
            /\ UNCHANGED <<score, searchDepth>>
    /\ UNCHANGED <<game, pos, history, pvTable, rootPosKey, stop, stack, result>>

EndIteration ==
    /\ pc = "returned" /\ stack = << >>
    /\ IF ~stop /\ searchDepth <= MAXDEPTH
       THEN /\ score' = result
            /\ searchDepth' = searchDepth + 1
            /\ pc' = "deepen"
       ELSE /\ pc' = "look up"
            /\ UNCHANGED <<score, searchDepth>>
    /\ UNCHANGED <<game, pos, history, pvTable, rootPosKey, stop, stack, result>>

\* Mutant: the root key of the constructor stays.
prepSearch_KeepsRootKey ==
    /\ stop' = FALSE
    /\ searchDepth' = 1
    /\ UNCHANGED rootPosKey

prepSearch ==
    /\ stop' = FALSE
    /\ searchDepth' = 1
    /\ rootPosKey' = pos

\* Without a move for the root, everything starts again (reccomendMove calls
\* itself, and score is a new local).
LookUp ==
    /\ pc = "look up"
    /\ IF getPvMove = NOMOVE
       THEN prepSearch /\ score' = 0 /\ pc' = "deepen"
       ELSE pc' = "answered" /\ UNCHANGED <<rootPosKey, searchDepth, stop, score>>
    /\ UNCHANGED <<game, pos, history, pvTable, stack, result>>

\* The constructor prepares the search with an empty board; the FEN of the
\* request is read after that.
Init ==
    /\ game \in Games
    /\ pos = game.root
    /\ history = << >>
    /\ pvTable = [s \in {Slot[p] : p \in Positions} |->
                    [posKey |-> NOMOVE, move |-> NOMOVE]]
    /\ rootPosKey = EMPTYBOARD
    /\ searchDepth = 1
    /\ stop = FALSE
    /\ score = 0
    /\ stack = << >>
    /\ result = 0
    /\ pc = "deepen"

Next ==
    \/ Deepen \/ EndIteration \/ LookUp
    \/ Enter \/ TryMove \/ HandleScore \/ EndLoop

Spec == Init /\ [][Next]_vars

\* The thread that serves the request keeps running.
FairSpec == Spec /\ WF_vars(Next)

----------------------------------------------------------------------------
TypeOK ==
    /\ game \in Games
    /\ pos \in Positions /\ history \in Seq(Positions)
    /\ rootPosKey \in Positions \cup {EMPTYBOARD}
    /\ searchDepth \in 1 .. (MAXDEPTH + 1)
    /\ stop \in BOOLEAN
    /\ stack \in Seq(Calls)
    /\ {score, result} \subseteq -INFINITE .. INFINITE
    /\ pc \in {"deepen", "called", "loop", "returned", "look up", "answered"}
    /\ \A s \in DOMAIN pvTable :
          LET node == pvTable[s]
          IN  \/ node = [posKey |-> NOMOVE, move |-> NOMOVE]
              \/ /\ Slot[node.posKey] = s
                 /\ node.move \in MovesOf(node.posKey) /\ node.move.legal

\* Whenever no call is active the board is back at the root: every move that
\* was made is taken back, in a search that the clock cut short as well.  The
\* handler makes the recommended move on that very board.
BoardComesBack == stack = << >> => pos = game.root /\ history = << >>

\* The search window never closes or turns over: what is above alpha and not
\* below beta is exactly what ends a call.
WindowsOpen == \A k \in DOMAIN stack : stack[k].alpha < stack[k].beta

\* What the handler makes without looking at makeMove's answer is a legal move
\* of the position it was asked about, from whatever entry the table gives,
\* whoever wrote it and in whichever iteration.
AnswerIsLegal ==
    pc = "answered" =>
        getPvMove # NOMOVE /\ getPvMove \in MovesOf(game.root) /\ getPvMove.legal

RootHasMove == \E m \in MovesOf(game.root) : m.legal

\* A position with a legal move gets a recommendation, if a search of depth 1
\* ends before the clock does: when the entry of the root was lost to another
\* position, the search that is started again knows the root and keeps it.
Answers == (game.fits /\ RootHasMove) ~> pc = "answered"

\* Every request is answered.
AlwaysAnswers == <>(pc = "answered")

=============================================================================
