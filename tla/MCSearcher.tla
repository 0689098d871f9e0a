----------------------------- MODULE MCSearcher -----------------------------
(***************************************************************************)
(* Small games for TLC.  Positions are the lines of play that lead there.  *)
(***************************************************************************)
EXTENDS SearcherRules, TLC

Quiet(to) == [to |-> to, capture |-> FALSE, legal |-> TRUE]
Capture(to) == [to |-> to, capture |-> TRUE, legal |-> TRUE]
Illegal(to) == [to |-> to, capture |-> FALSE, legal |-> FALSE]

\* Three plies with captures beyond them, a move that leaves the king in
\* check, and a position without a move.
Tree ==
    "root" :> {Quiet("a"), Quiet("b"), Illegal("x")}
      @@ "a" :> {Quiet("aa"), Capture("ab")}
      @@ "b" :> {Quiet("ba"), Quiet("bb")}
      @@ "aa" :> {Capture("aaa"), Quiet("aab")}
      @@ "bb" :> {} @@ "end" :> {}
      @@ [p \in {"x", "ab", "ba", "aaa", "aab"} |-> {Quiet("end")}]

\* Pieces go round in four plies, where either side may leave for another
\* circle.
Round ==
    "root" :> {Quiet("a")} @@ "a" :> {Quiet("b"), Quiet("x")} @@ "b" :> {Quiet("c")}
      @@ "c" :> {Quiet("d"), Quiet("x")} @@ "d" :> {Quiet("a")}
      @@ "x" :> {Quiet("y")} @@ "y" :> {Quiet("z")}
      @@ "z" :> {Quiet("w")} @@ "w" :> {Quiet("x")}

\* The same, where the circle leads back to the position of the request.
Circle ==
    "root" :> {Quiet("a"), Quiet("x")} @@ "a" :> {Quiet("b")}
      @@ "b" :> {Quiet("c"), Quiet("x")} @@ "c" :> {Quiet("root")}
      @@ "x" :> {Quiet("y")} @@ "y" :> {Quiet("z")}
      @@ "z" :> {Quiet("w")} @@ "w" :> {Quiet("x")}

\* No legal move, and only illegal ones.
Over == "root" :> {Illegal("x")} @@ "x" :> {}

AllPositions == DOMAIN Tree \cup DOMAIN Round \cup DOMAIN Circle

Game(moves, evals, inCheck, fits) ==
    [moves |-> moves @@ [p \in AllPositions |-> {}], root |-> "root",
     inCheck |-> inCheck, eval |-> evals @@ [p \in AllPositions |-> 0], fits |-> fits,
     men |-> [p \in AllPositions |-> IF p \in {"ab", "aaa", "end"} THEN 31 ELSE 32]]

TreeGames ==
    {Game(Tree, evals, inCheck, fits) :
        evals \in [{"ab", "ba", "aaa"} -> {-1, 1}],
        inCheck \in {{}, {"bb"}}, fits \in BOOLEAN}

RoundGames ==
    {Game(Round, evals, {}, TRUE) : evals \in [{"x", "y"} -> {-1, 0, 1}]}

CircleGames == {Game(Circle, evals, {}, TRUE) : evals \in [{"x", "y"} -> {-1, 0, 1}]}

OverGames == {Game(Over, << >>, inCheck, TRUE) : inCheck \in {{}, {"root"}}}

GamesWithMoves == TreeGames \cup RoundGames

\* One of the moves of the tree shares the slot of the root.
Slots == [p \in AllPositions |-> IF p = "a" THEN "root" ELSE p]

=============================================================================
