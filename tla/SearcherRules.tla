--------------------------- MODULE SearcherRules ---------------------------
(***************************************************************************)
(* What a search of a given depth ought to find: the negamax value, which  *)
(* looks at every move, with the same ends of a line as the engine.  line  *)
(* is the positions so far, the last of them to be judged.                 *)
(***************************************************************************)
EXTENDS Searcher

\* An evaluation is less than a mate that ends the search, and a capture takes
\* a man off the board.
ASSUME ValuesAssumption ==
    \A g \in Games :
        /\ g.eval \in [Positions -> (1 - INFINITE) .. (INFINITE - 1)]
        /\ g.men \in [Positions -> Nat]
        /\ \A p \in Positions : \A m \in g.moves[p] :
              m.capture /\ m.legal => g.men[m.to] < g.men[p]

Largest(S) == CHOOSE x \in S : \A y \in S : y <= x

Lines == Seq(Positions) \ {<< >>}

RepeatedIn(line) ==
    \E i, j \in 1 .. (Len(line) - 1) :
        i < j /\ line[i] = Last(line) /\ line[j] = Last(line)

Legal(moves) == {m \in moves : m.legal}

\* What the side to move gets by each of moves, if value is what the lines that
\* they lead to are worth to the other side.
Gains(value, line, moves) == {-value[Append(line, m.to)] : m \in Legal(moves)}

\* Only captures are looked at, n in a row, and the side to move may decline
\* them.
QuietValues(g) ==
    LET quiet[n \in Nat] ==
            [line \in Lines |->
                LET p == Last(line)
                    captures == {m \in g.moves[p] : m.capture}
                IN  IF RepeatedIn(line) THEN 0
                    ELSE IF n = 0 THEN g.eval[p]
                    ELSE Largest({g.eval[p]} \cup Gains(quiet[n - 1], line, captures))]
    IN  quiet

\* There are no more captures in a row than men.
QuietValue(g, line) == QuietValues(g)[g.men[Last(line)]][line]

\* A mate found with more depth to go is nearer, and counts for more.
DeepValues(g) ==
    LET value[depth \in 0 .. (MAXDEPTH - 1)] ==
            [line \in Lines |->
                LET p == Last(line)
                IN  IF depth = 0 THEN QuietValue(g, line)
                    ELSE IF RepeatedIn(line) THEN 0
                    ELSE IF Legal(g.moves[p]) # {}
                    THEN Largest(Gains(value[depth - 1], line, g.moves[p]))
                    ELSE IF p \in g.inCheck THEN -MATE - depth ELSE 0]
    IN  value

Value(g, line, depth) ==
    IF depth <= 0 \/ depth >= MAXDEPTH THEN QuietValue(g, line)
    ELSE DeepValues(g)[depth][line]

Root == <<game.root>>

\* Leaving moves out loses nothing: an iteration that ends in time finds the
\* value of the root, whatever the order in which moves were tried and
\* whatever the PV table held.
ScoreIsMinimax ==
    (pc = "deepen" /\ searchDepth > 1) => score = Value(game, Root, searchDepth - 1)

\* The recommended move is legal, and a best one at the depth of the last
\* iteration that ended in time; of the one the clock cut short nothing stays.
\* (At MAXDEPTH an iteration is quiescenceSearch, which stores no move.)
AnswerIsBest ==
    pc = "answered" =>
        LET depth == IF searchDepth > MAXDEPTH THEN MAXDEPTH - 1 ELSE searchDepth - 1
            m == getPvMove
        IN  /\ depth > 0
            /\ m \in Legal(MovesOf(game.root))
            /\ -Value(game, Append(Root, m.to), depth - 1) = Value(game, Root, depth)

\* A line of legal moves from the position of the request.
LegalLine(g, line) ==
    /\ line[1] = g.root
    /\ \A i \in 1 .. (Len(line) - 1) : \E m \in Legal(g.moves[line[i]]) : m.to = line[i + 1]

\* No n legal moves lead back to it, and no fewer.
NoReturn(g, n) ==
    \A line \in Lines :
        LegalLine(g, line) /\ Len(line) \in 2 .. (n + 1) => Last(line) # g.root

============================================================================
