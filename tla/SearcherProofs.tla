--------------------------- MODULE SearcherProofs ---------------------------
(***************************************************************************)
(* Proofs about Searcher for every game, every layout of the PV table and  *)
(* every moment at which the clock may run out.  The k-th call on the      *)
(* stack searches the k-th position of the line: that of the history, or   *)
(* for the last one the position on the board.                             *)
(*                                                                         *)
(* Inv keeps the board, the calls and the table together.  SearchInv says  *)
(* what every call has found out about its position, so that the score of  *)
(* an iteration is the minimax value; BestInv says the same of the entry   *)
(* of the root in the PV table.  The values are recursive functions, whose *)
(* equations come from the well-founded order of the numbers.              *)
(***************************************************************************)
EXTENDS SearcherRules, SequenceTheorems, WellFoundedInduction, TLAPS

Scores == -INFINITE .. INFINITE

LegalMove(m, p) == m \in MovesOf(p) /\ m.legal

PosOf(k) == IF k <= Len(history) THEN history[k] ELSE pos

\* The table is a table, and its entries hold legal moves of their positions.
TableOK ==
    /\ pvTable \in [{Slot[p] : p \in Positions} ->
                      [posKey : Positions \cup {NOMOVE}, move : Moves \cup {NOMOVE}]]
    /\ \A s \in DOMAIN pvTable :
          LET node == pvTable[s]
          IN  \/ node = [posKey |-> NOMOVE, move |-> NOMOVE]
              \/ Slot[node.posKey] = s /\ LegalMove(node.move, node.posKey)

\* The parts of the type invariant other than the table.
TypeInv ==
    /\ game \in Games
    /\ pos \in Positions /\ history \in Seq(Positions)
    /\ rootPosKey \in Positions \cup {EMPTYBOARD}
    /\ searchDepth \in 1 .. (MAXDEPTH + 1)
    /\ stop \in BOOLEAN
    /\ stack \in Seq(Calls)
    /\ {score, result} \subseteq Scores
    /\ pc \in {"deepen", "called", "loop", "returned", "look up", "answered"}

\* Calls and plies go together, and the line starts at the root.
PlyInv ==
    /\ pc \in {"called", "loop"} => Len(stack) = Len(history) + 1
    /\ pc = "returned" => Len(stack) = Len(history)
    /\ pc \in {"deepen", "look up", "answered"} => stack = << >> /\ history = << >>
    /\ IF history = << >> THEN pos = game.root ELSE history[1] = game.root

\* One call, searching position p: an open window, moves of p, and a best
\* move as soon as alpha has been raised by one.
CallOK(f, p) ==
    /\ {f.alpha, f.beta} \subseteq Scores
    /\ f.alpha < f.beta
    /\ f.moves \subseteq MovesOf(p)
    /\ f.best = NOMOVE \/ LegalMove(f.best, p)
    /\ ~f.quiet /\ f.alpha # f.oldAlpha => f.best # NOMOVE

\* A call in its loop searches captures only, or has depth left.
InLoop(f) == ~f.quiet => f.depth \in 1 .. MAXDEPTH

CallsInv ==
    /\ \A k \in 1 .. Len(stack) : CallOK(stack[k], PosOf(k))
    /\ \A k \in 1 .. Len(stack) : pc # "called" \/ k < Len(stack) => InLoop(stack[k])
    /\ \A k \in 1 .. Len(history) :
          k <= Len(stack) => LegalMove(stack[k].tried, history[k])

\* The inductive invariant.
Inv ==
    /\ TypeInv /\ TableOK /\ PlyInv /\ CallsInv
    /\ pc = "answered" => getPvMove # NOMOVE

----------------------------------------------------------------------------
(* Sequences used as stacks.                                               *)

\* What is left without the last element, and the last element.
LEMMA FrontLast ==
    ASSUME NEW S, NEW s \in Seq(S), s # << >>
    PROVE  /\ Len(s) \in Nat \ {0}
           /\ Front(s) \in Seq(S) /\ Len(Front(s)) = Len(s) - 1
           /\ \A k \in 1 .. (Len(s) - 1) : Front(s)[k] = s[k]
           /\ Last(s) \in S /\ Last(s) = s[Len(s)]
<1>1. Len(s) \in Nat \ {0}
  BY EmptySeq
<1>2. \A k \in 1 .. Len(s) : s[k] \in S
  BY ElementOfSeq
<1>3. Front(s) = SubSeq(s, 1, Len(s) - 1)
  BY DEF Front
<1>4. \A k \in 1 .. (Len(s) - 1) : s[k] \in S
  BY <1>1, <1>2
<1> DEFINE n == Len(s) - 1
<1>5. n \in Nat /\ \A k \in 1 .. n : s[k] \in S
  BY <1>1, <1>4
<1>6. /\ SubSeq(s, 1, n) \in Seq(S)
      /\ Len(SubSeq(s, 1, n)) = IF 1 <= n THEN n - 1 + 1 ELSE 0
      /\ \A k \in 1 .. n - 1 + 1 : SubSeq(s, 1, n)[k] = s[1 + k - 1]
  <2> HIDE DEF n
  <2> QED
    BY <1>5, SubSeqProperties
<1>7. Len(SubSeq(s, 1, n)) = n /\ \A k \in 1 .. n : SubSeq(s, 1, n)[k] = s[k]
  <2> HIDE DEF n
  <2>1. \A k \in 1 .. n : 1 + k - 1 = k /\ k \in 1 .. n - 1 + 1
    BY <1>5
  <2> QED
    BY <1>5, <1>6, <2>1
<1> QED
  BY <1>1, <1>2, <1>3, <1>6, <1>7 DEF Last

\* Replacing the frame on top leaves the others.
LEMMA SetTopFrames ==
    ASSUME stack \in Seq(Calls), stack # << >>, NEW f \in Calls
    PROVE  /\ SetTop(f) \in Seq(Calls) /\ Len(SetTop(f)) = Len(stack)
           /\ Len(stack) \in Nat \ {0}
           /\ \A k \in 1 .. (Len(stack) - 1) : SetTop(f)[k] = stack[k]
           /\ SetTop(f)[Len(stack)] = f
<1>1. /\ Front(stack) \in Seq(Calls) /\ Len(Front(stack)) = Len(stack) - 1
      /\ Len(stack) \in Nat \ {0}
      /\ \A k \in 1 .. (Len(stack) - 1) : Front(stack)[k] = stack[k]
  BY FrontLast
<1> QED
  BY <1>1, AppendProperties DEF SetTop

----------------------------------------------------------------------------
(* Facts about every state of the invariant.                               *)

\* The call on top is a well-formed call that searches the board's position.
LEMMA TopFacts ==
    ASSUME Inv, pc \in {"called", "loop"}
    PROVE  /\ stack # << >> /\ Len(stack) \in Nat \ {0}
           /\ top \in Calls /\ top = stack[Len(stack)]
           /\ Len(stack) = Len(history) + 1 /\ Len(history) \in Nat
           /\ CallOK(top, pos)
<1>0. stack \in Seq(Calls) /\ history \in Seq(Positions)
  BY DEF Inv, TypeInv
<1>1. Len(history) \in Nat /\ Len(stack) = Len(history) + 1
  <2>1. Len(stack) = Len(history) + 1
    BY DEF Inv, PlyInv
  <2> QED
    BY <1>0, <2>1, LenProperties
<1>2. stack # << >> /\ stack \in Seq(Calls)
  <2>1. Len(stack) # 0
    BY <1>1
  <2> QED
    BY <1>0, <2>1, EmptySeq
<1>3. top \in Calls /\ top = stack[Len(stack)] /\ Len(stack) \in Nat \ {0}
  BY <1>2, FrontLast DEF top
<1>4. PosOf(Len(stack)) = pos
  BY <1>1 DEF PosOf
<1>5. CallOK(stack[Len(stack)], PosOf(Len(stack)))
  BY <1>3 DEF Inv, CallsInv
<1> QED
  BY <1>1, <1>2, <1>3, <1>4, <1>5

\* A call that returns leaves the callers as they are.
LEMMA ReturnStep ==
    ASSUME Inv, pc \in {"called", "loop"}, NEW v \in Scores, Return(v),
           UNCHANGED <<game, pos, history, rootPosKey, searchDepth, score>>,
           stop' \in BOOLEAN, TableOK'
    PROVE  Inv'
<1>1. /\ stack # << >> /\ Len(stack) \in Nat \ {0}
      /\ Len(stack) = Len(history) + 1 /\ Len(history) \in Nat
  BY TopFacts
<1>2. /\ stack' \in Seq(Calls) /\ Len(stack') = Len(stack) - 1
      /\ \A k \in 1 .. (Len(stack) - 1) : stack'[k] = stack[k]
  BY <1>1, FrontLast DEF Return, Inv, TypeInv
<1>3. pc' = "returned" /\ result' = v
  BY DEF Return
<1>4. TypeInv'
  BY <1>2, <1>3 DEF Inv, TypeInv
<1>5. PlyInv'
  <2>1. Len(stack') = Len(history')
    BY <1>1, <1>2
  <2>2. IF history' = << >> THEN pos' = game'.root ELSE history'[1] = game'.root
    BY DEF Inv, PlyInv
  <2> QED
    BY <1>3, <2>1, <2>2 DEF PlyInv
<1>6. CallsInv'
  <2>1. \A k \in 1 .. Len(stack') : PosOf(k)' = PosOf(k)
    BY DEF PosOf
  <2>2. ASSUME NEW k \in 1 .. Len(stack')
        PROVE  CallOK(stack[k], PosOf(k)) /\ InLoop(stack[k])
    BY <1>1, <1>2 DEF Inv, CallsInv
  <2>3. \A k \in 1 .. Len(stack') : CallOK(stack[k], PosOf(k))' /\ InLoop(stack[k])'
    BY <1>1, <1>2, <2>1, <2>2 DEF CallOK, InLoop, LegalMove, MovesOf
  <2>4. ASSUME NEW k \in 1 .. Len(history'), k <= Len(stack')
        PROVE  LegalMove(stack[k].tried, history[k])'
    <3>1. LegalMove(stack[k].tried, history[k]) /\ stack'[k] = stack[k]
      BY <1>1, <1>2, <2>4 DEF Inv, CallsInv
    <3> QED
      BY <3>1 DEF LegalMove, MovesOf
  <2> QED
    BY <2>3, <2>4 DEF CallsInv
<1> QED
  BY <1>3, <1>4, <1>5, <1>6 DEF Inv

\* Work on the call on top that keeps it well formed.
LEMMA SetTopStep ==
    ASSUME Inv, pc \in {"called", "loop"}, NEW f \in Calls,
           CallOK(f, pos), InLoop(f), stack' = SetTop(f), pc' = "loop",
           UNCHANGED <<game, pos, history, pvTable, rootPosKey, searchDepth, score, result>>,
           stop' \in BOOLEAN
    PROVE  Inv'
<1>1. /\ stack # << >> /\ Len(stack) \in Nat \ {0}
      /\ Len(stack) = Len(history) + 1 /\ Len(history) \in Nat
  BY TopFacts
<1>2. /\ stack' \in Seq(Calls) /\ Len(stack') = Len(stack)
      /\ \A k \in 1 .. (Len(stack) - 1) : stack'[k] = stack[k]
      /\ stack'[Len(stack)] = f
  BY <1>1, SetTopFrames DEF Inv, TypeInv
<1>3. TypeInv' /\ TableOK'
  BY <1>2 DEF Inv, TypeInv, TableOK, LegalMove, MovesOf
<1>4. PlyInv'
  <2>1. Len(stack') = Len(history') + 1
    BY <1>1, <1>2
  <2>2. IF history' = << >> THEN pos' = game'.root ELSE history'[1] = game'.root
    BY DEF Inv, PlyInv
  <2> QED
    BY <2>1, <2>2 DEF PlyInv
<1>5. CallsInv'
  <2>1. \A k \in 1 .. Len(stack') : PosOf(k)' = PosOf(k)
    BY DEF PosOf
  <2>2. ASSUME NEW k \in 1 .. Len(stack')
        PROVE  CallOK(stack'[k], PosOf(k)) /\ InLoop(stack'[k])
    <3>1. CASE k = Len(stack)
      BY <1>1, <1>2, <3>1 DEF PosOf
    <3>2. CASE k # Len(stack)
      BY <1>1, <1>2, <3>2 DEF Inv, CallsInv
    <3> QED
      BY <3>1, <3>2
  <2>3. \A k \in 1 .. Len(stack') : CallOK(stack[k], PosOf(k))' /\ InLoop(stack[k])'
    BY <2>1, <2>2 DEF CallOK, InLoop, LegalMove, MovesOf
  <2>4. ASSUME NEW k \in 1 .. Len(history'), k <= Len(stack')
        PROVE  LegalMove(stack[k].tried, history[k])'
    <3>1. LegalMove(stack[k].tried, history[k]) /\ stack'[k] = stack[k]
      BY <1>1, <1>2, <2>4 DEF Inv, CallsInv
    <3> QED
      BY <3>1 DEF LegalMove, MovesOf
  <2> QED
    BY <2>3, <2>4 DEF CallsInv
<1> QED
  BY <1>3, <1>4, <1>5 DEF Inv

\* Scores are integers, with all that lies between two of them.
LEMMA ScoreFacts ==
    /\ 0 \in Scores
    /\ \A x \in Scores : x \in Int /\ -x \in Scores
    /\ \A x \in Scores, y \in Scores, z \in Int : x < z /\ z < y => z \in Scores
<1>1. INFINITE \in Nat
  BY SMT DEF INFINITE
<1>2. \A x \in Scores : x \in Int /\ -INFINITE <= x /\ x <= INFINITE
  BY <1>1, SMT DEF Scores
<1>3. \A z \in Int : -INFINITE <= z /\ z <= INFINITE => z \in Scores
  BY <1>1, SMT DEF Scores
<1>4. \A x \in Scores, y \in Scores, z \in Int : x < z /\ z < y => z \in Scores
  BY <1>1, <1>2, <1>3, SMT
<1>5. \A x \in Scores : x \in Int /\ -x \in Scores
  BY <1>1, <1>2, <1>3, SMT
<1>6. 0 \in Scores
  BY <1>1, <1>3, SMT
<1> QED
  BY <1>4, <1>5, <1>6

\* The window of a call.
LEMMA CallFacts ==
    ASSUME NEW f \in Calls, NEW p, CallOK(f, p)
    PROVE  /\ f.alpha \in Scores /\ f.beta \in Scores /\ f.alpha < f.beta
           /\ f.depth \in Int /\ f.quiet \in BOOLEAN
<1>1. f.alpha \in Scores /\ f.beta \in Scores /\ f.alpha < f.beta
  BY DEF CallOK
<1>2. f.depth \in Int /\ f.quiet \in BOOLEAN
  BY DEF Calls
<1> QED
  BY <1>1, <1>2

----------------------------------------------------------------------------
(* Every step keeps the invariant.                                         *)

\* The invariant holds at first.
LEMMA InitInv == Init => Inv
<1> SUFFICES ASSUME Init PROVE Inv
  OBVIOUS
<1> DEFINE slots == {Slot[p] : p \in Positions}
           none == [posKey |-> NOMOVE, move |-> NOMOVE]
<1>1. << >> \in Seq(Positions) /\ << >> \in Seq(Calls) /\ Len(<< >>) = 0
  OBVIOUS
<1>2. game \in Games /\ game.root \in Positions
  BY GamesAssumption DEF Init
<1>3. 1 \in 1 .. (MAXDEPTH + 1) /\ 0 \in Scores
  BY SearcherAssumption, ScoreFacts
<1>4. TypeInv
  BY <1>1, <1>2, <1>3 DEF Init, TypeInv
<1>5. TableOK
  <2>1. pvTable = [s \in slots |-> none]
    BY DEF Init
  <2>2. pvTable \in [slots -> [posKey : Positions \cup {NOMOVE}, move : Moves \cup {NOMOVE}]]
    BY <2>1
  <2>3. \A s \in DOMAIN pvTable : pvTable[s] = none
    BY <2>1
  <2> QED
    BY <2>2, <2>3 DEF TableOK
<1>6. PlyInv
  BY <1>1 DEF Init, PlyInv
<1>7. CallsInv
  BY <1>1 DEF Init, CallsInv
<1> QED
  BY <1>4, <1>5, <1>6, <1>7 DEF Init, Inv

\* The moves of a position are moves, and NOMOVE is none.
LEMMA MovesAreMoves ==
    ASSUME game \in Games, NEW p \in Positions, NEW m \in MovesOf(p)
    PROVE  m \in Moves /\ m # NOMOVE
BY GamesAssumption DEF MovesOf

\* What entering its loop makes of a call.
LEMMA EnteredCall ==
    ASSUME NEW g \in Calls, NEW p, CallOK(g, p),
           NEW quiet \in BOOLEAN, NEW moves \in SUBSET Moves, moves \subseteq MovesOf(p),
           NEW alpha \in Scores, alpha < g.beta,
           ~quiet => ~g.quiet /\ alpha = g.alpha /\ g.depth \in 1 .. MAXDEPTH
    PROVE  LET f == [g EXCEPT !.quiet = quiet, !.moves = moves, !.alpha = alpha]
           IN  f \in Calls /\ CallOK(f, p) /\ InLoop(f)
<1> DEFINE f == [g EXCEPT !.quiet = quiet, !.moves = moves, !.alpha = alpha]
<1>1. alpha \in Int
  BY ScoreFacts
<1>2. f \in Calls /\ f.quiet = quiet /\ f.moves = moves /\ f.alpha = alpha
      /\ f.beta = g.beta /\ f.best = g.best /\ f.oldAlpha = g.oldAlpha
      /\ f.depth = g.depth
  BY <1>1 DEF Calls
<1> HIDE DEF f
<1>3. CallOK(f, p)
  BY <1>2 DEF CallOK
<1>4. InLoop(f)
  BY <1>2 DEF InLoop
<1> QED
  BY <1>2, <1>3, <1>4 DEF f

\* A call that is entered returns at once or starts its loop.
LEMMA EnterStep == Inv /\ Enter => Inv'
<1> SUFFICES ASSUME Inv, Enter PROVE Inv'
  OBVIOUS
<1> DEFINE quiet == top.quiet \/ top.depth <= 0 \/ top.depth >= MAXDEPTH
           stand == game.eval[pos]
           moves == IF quiet THEN Captures(pos) ELSE MovesOf(pos)
           alpha == IF quiet /\ stand > top.alpha THEN stand ELSE top.alpha
           f == [top EXCEPT !.quiet = quiet, !.moves = moves, !.alpha = alpha]
<1>1. pc \in {"called", "loop"} /\ stop' \in BOOLEAN
  BY DEF Enter, checkTime, Inv, TypeInv
<1>2. UNCHANGED <<game, pos, history, pvTable, rootPosKey, searchDepth, score>>
  BY DEF Enter
<1>3. \/ Return(0)
      \/ Return(top.beta)
      \/ /\ ~(quiet /\ stand >= top.beta)
         /\ stack' = SetTop(f) /\ pc' = "loop" /\ UNCHANGED result
  BY DEF Enter
<1>4. top \in Calls /\ CallOK(top, pos)
  BY <1>1, TopFacts
<1>5. TableOK'
  BY <1>2 DEF Inv, TableOK, LegalMove, MovesOf
<1>6. stand \in Int /\ MovesOf(pos) \subseteq Moves
  BY GamesAssumption DEF Inv, TypeInv, MovesOf
<1>7. /\ top.alpha \in Scores /\ top.beta \in Scores /\ top.alpha < top.beta
      /\ top.depth \in Int /\ top.quiet \in BOOLEAN
  BY <1>4, CallFacts
<1>8. CASE Return(0)
  BY <1>1, <1>2, <1>5, <1>8, ReturnStep, ScoreFacts
<1>9. CASE Return(top.beta)
  BY <1>1, <1>2, <1>5, <1>7, <1>9, ReturnStep
<1>10. CASE /\ ~(quiet /\ stand >= top.beta)
            /\ stack' = SetTop(f) /\ pc' = "loop" /\ UNCHANGED result
  <2>1. alpha \in Scores /\ alpha < top.beta
    <3>1. CASE quiet /\ stand > top.alpha
      <4>1. stand < top.beta
        BY <1>6, <1>7, <1>10, <3>1, ScoreFacts
      <4> QED
        BY <1>6, <1>7, <3>1, <4>1, ScoreFacts
    <3>2. CASE ~(quiet /\ stand > top.alpha)
      BY <1>7, <3>2
    <3> QED
      BY <3>1, <3>2
  <2>2. moves \in SUBSET Moves /\ moves \subseteq MovesOf(pos)
    BY <1>6 DEF Captures
  <2>3. quiet \in BOOLEAN
    BY <1>7
  <2>4. ~quiet => ~top.quiet /\ alpha = top.alpha /\ top.depth \in 1 .. MAXDEPTH
    <3>1. SUFFICES ASSUME ~quiet
                   PROVE  ~top.quiet /\ alpha = top.alpha /\ top.depth \in 1 .. MAXDEPTH
      OBVIOUS
    <3>2. ~(top.depth <= 0) /\ ~(top.depth >= MAXDEPTH) /\ ~top.quiet
      BY <3>1
    <3>3. MAXDEPTH \in Int
      BY SearcherAssumption
    <3>4. top.depth \in 1 .. MAXDEPTH
      BY <1>7, <3>2, <3>3
    <3> QED
      BY <3>1, <3>2, <3>4
  <2> HIDE DEF quiet, moves, alpha
  <2>5. f \in Calls /\ CallOK(f, pos) /\ InLoop(f)
    BY <1>4, <2>1, <2>2, <2>3, <2>4, EnteredCall
  <2> HIDE DEF f
  <2> QED
    BY <1>1, <1>2, <1>10, <2>5, SetTopStep
<1> HIDE DEF quiet, moves, alpha, f
<1> QED
  BY <1>3, <1>8, <1>9, <1>10

\* The call for a move that was just made.
LEMMA ChildCallOK ==
    ASSUME NEW f \in Calls, NEW p, NEW q, CallOK(f, p)
    PROVE  ChildCall(f) \in Calls /\ CallOK(ChildCall(f), q)
<1> DEFINE c == ChildCall(f)
<1>1. /\ f.alpha \in Scores /\ f.beta \in Scores /\ f.alpha < f.beta
      /\ f.depth \in Int /\ f.quiet \in BOOLEAN
  BY CallFacts
<1>2. /\ -f.beta \in Scores /\ -f.alpha \in Scores
      /\ f.alpha \in Int /\ f.beta \in Int /\ -f.beta \in Int /\ -f.alpha \in Int
  BY <1>1, ScoreFacts
<1>3. -f.beta < -f.alpha
  BY <1>1, <1>2
<1>4. /\ c.alpha = -f.beta /\ c.beta = -f.alpha /\ c.oldAlpha = -f.beta
      /\ c.moves = {} /\ c.best = NOMOVE
  BY DEF ChildCall, Call
<1>5. c \in Calls
  BY <1>1, <1>2 DEF ChildCall, Call, Calls
<1>6. CallOK(c, q)
  <2> HIDE DEF c
  <2> QED
    BY <1>2, <1>3, <1>4 DEF CallOK
<1> QED
  BY <1>5, <1>6

\* A move that makeMove accepts begins a call, one that it refuses is dropped.
LEMMA TryMoveStep == Inv /\ TryMove => Inv'
<1> SUFFICES ASSUME Inv, TryMove PROVE Inv'
  OBVIOUS
<1>1. pc = "loop" /\ pc \in {"called", "loop"}
  BY DEF TryMove
<1>2. /\ stack # << >> /\ Len(stack) \in Nat \ {0}
      /\ top \in Calls /\ top = stack[Len(stack)] /\ CallOK(top, pos)
      /\ Len(stack) = Len(history) + 1 /\ Len(history) \in Nat
  BY <1>1, TopFacts
<1>3. InLoop(top)
  BY <1>1, <1>2 DEF Inv, CallsInv
<1>4. PICK m \in pickNextMove :
         LET frame == [top EXCEPT !.moves = @ \ {m}]
         IN  IF m.legal
             THEN /\ stack' = Append(SetTop([frame EXCEPT !.tried = m, !.movesMade = @ + 1]),
                                     ChildCall(top))
                  /\ pos' = m.to
                  /\ history' = Append(history, pos)
                  /\ pc' = "called"
             ELSE /\ stack' = SetTop(frame)
                  /\ UNCHANGED <<pos, history, pc>>
  BY DEF TryMove
<1>5. m \in top.moves
  BY DEF pickNextMove
<1>6. m \in MovesOf(pos) /\ m \in Moves
  BY <1>2, <1>5 DEF CallOK, Calls
<1>7. UNCHANGED <<game, pvTable, rootPosKey, searchDepth, stop, score, result>>
  BY DEF TryMove
<1> DEFINE frame == [top EXCEPT !.moves = @ \ {m}]
           tried == [frame EXCEPT !.tried = m, !.movesMade = @ + 1]
<1>8. frame \in Calls /\ tried \in Calls /\ tried.tried = m
  <2>1. frame \in Calls
    BY <1>2 DEF Calls
  <2>2. frame.movesMade + 1 \in Nat
    BY <2>1 DEF Calls
  <2> HIDE DEF frame
  <2> QED
    BY <1>6, <2>1, <2>2 DEF Calls
<1>9. /\ CallOK(frame, pos) /\ CallOK(tried, pos)
      /\ InLoop(frame) /\ InLoop(tried)
  <2>1. ASSUME NEW f, /\ f.alpha = top.alpha /\ f.beta = top.beta /\ f.oldAlpha = top.oldAlpha
                      /\ f.best = top.best /\ f.quiet = top.quiet /\ f.depth = top.depth
                      /\ f.moves \subseteq top.moves
        PROVE  CallOK(f, pos) /\ InLoop(f)
    BY <1>2, <1>3, <2>1 DEF CallOK, InLoop
  <2>2. /\ frame.alpha = top.alpha /\ frame.beta = top.beta /\ frame.oldAlpha = top.oldAlpha
        /\ frame.best = top.best /\ frame.quiet = top.quiet /\ frame.depth = top.depth
        /\ frame.moves \subseteq top.moves
    BY <1>2 DEF Calls
  <2>3. frame \in Calls
    BY <1>8
  <2> HIDE DEF frame
  <2>4. /\ tried.alpha = frame.alpha /\ tried.beta = frame.beta
        /\ tried.oldAlpha = frame.oldAlpha /\ tried.best = frame.best
        /\ tried.quiet = frame.quiet /\ tried.depth = frame.depth
        /\ tried.moves = frame.moves
    BY <2>3 DEF Calls
  <2> HIDE DEF tried
  <2>5. CallOK(frame, pos) /\ InLoop(frame)
    BY <2>1, <2>2
  <2>6. CallOK(tried, pos) /\ InLoop(tried)
    BY <2>1, <2>2, <2>4
  <2> QED
    BY <2>5, <2>6
<1>10. CASE ~m.legal
  <2>1. stack' = SetTop(frame) /\ UNCHANGED <<pos, history, pc>>
    BY <1>4, <1>10
  <2>2. stop' \in BOOLEAN
    BY <1>7 DEF Inv, TypeInv
  <2> HIDE DEF frame
  <2> QED
    BY <1>1, <1>7, <1>8, <1>9, <2>1, <2>2, SetTopStep
<1>11. CASE m.legal
  <2> DEFINE n == Len(stack)
  <2>1. /\ stack' = Append(SetTop(tried), ChildCall(top))
        /\ pos' = m.to /\ history' = Append(history, pos) /\ pc' = "called"
    BY <1>4, <1>11
  <2> HIDE DEF frame, tried
  <2>2. /\ SetTop(tried) \in Seq(Calls) /\ Len(SetTop(tried)) = n
        /\ \A k \in 1 .. (n - 1) : SetTop(tried)[k] = stack[k]
        /\ SetTop(tried)[n] = tried
    BY <1>2, <1>8, SetTopFrames DEF Inv, TypeInv
  <2>3. ChildCall(top) \in Calls /\ CallOK(ChildCall(top), m.to)
    BY <1>2, ChildCallOK
  <2>4. /\ stack' \in Seq(Calls) /\ Len(stack') = n + 1
        /\ \A k \in 1 .. (n - 1) : stack'[k] = stack[k]
        /\ stack'[n] = tried /\ stack'[n + 1] = ChildCall(top)
    BY <1>2, <2>1, <2>2, <2>3, AppendProperties
  <2>a. history \in Seq(Positions) /\ pos \in Positions
    BY DEF Inv, TypeInv
  <2>5. /\ history' \in Seq(Positions) /\ Len(history') = n
        /\ \A k \in 1 .. (n - 1) : history'[k] = history[k]
        /\ history'[n] = pos
    BY <1>2, <2>1, <2>a, AppendProperties
  <2>6. m.to \in Positions
    BY <1>6 DEF Moves
  <2>7. TypeInv' /\ TableOK'
    <3>1. TypeInv'
      BY <1>7, <2>1, <2>4, <2>5, <2>6 DEF Inv, TypeInv
    <3>2. TableOK'
      BY <1>7 DEF Inv, TableOK, LegalMove, MovesOf
    <3> QED
      BY <3>1, <3>2
  <2>8. PlyInv'
    <3>1. history' # << >>
      BY <1>2, <2>5
    <3>2. history'[1] = game'.root
      <4>1. CASE history = << >>
        <5>1. Len(history) = 0
          BY <4>1, EmptySeq
        <5>2. n = 1
          BY <1>2, <5>1
        <5> QED
          BY <1>7, <2>5, <4>1, <5>2 DEF Inv, PlyInv
      <4>2. CASE history # << >>
        <5>1. Len(history) # 0
          BY <2>a, <4>2, EmptySeq
        <5>2. 1 \in 1 .. (n - 1)
          BY <1>2, <5>1
        <5> QED
          BY <1>7, <2>5, <4>2, <5>2 DEF Inv, PlyInv
      <4> QED
        BY <4>1, <4>2
    <3> QED
      BY <1>2, <2>1, <2>4, <2>5, <3>1, <3>2 DEF PlyInv
  <2>9. CallsInv'
    <3>1. ASSUME NEW k \in 1 .. (n + 1) PROVE CallOK(stack[k], PosOf(k))'
      <4>1. CASE k = n + 1
        <5>1. PosOf(k)' = m.to
          BY <1>2, <2>1, <2>5, <4>1 DEF PosOf
        <5>2. CallOK(stack'[k], m.to)
          BY <2>3, <2>4, <4>1
        <5> QED
          BY <1>7, <5>1, <5>2 DEF CallOK, LegalMove, MovesOf
      <4>2. CASE k = n
        <5>1. PosOf(k)' = pos
          BY <1>2, <2>5, <4>2 DEF PosOf
        <5>2. CallOK(stack'[k], pos)
          BY <1>9, <2>4, <4>2
        <5> QED
          BY <1>7, <5>1, <5>2 DEF CallOK, LegalMove, MovesOf
      <4>3. CASE k \in 1 .. (n - 1)
        <5>1. PosOf(k)' = PosOf(k)
          BY <1>2, <2>5, <4>3 DEF PosOf
        <5>2. CallOK(stack'[k], PosOf(k))
          BY <1>2, <2>4, <4>3 DEF Inv, CallsInv
        <5> QED
          BY <1>7, <5>1, <5>2 DEF CallOK, LegalMove, MovesOf
      <4> QED
        BY <1>2, <4>1, <4>2, <4>3
    <3>2. ASSUME NEW k \in 1 .. n PROVE InLoop(stack'[k])
      <4>1. CASE k = n
        BY <1>9, <2>4, <4>1
      <4>2. CASE k # n
        BY <1>1, <1>2, <2>4, <4>2 DEF Inv, CallsInv
      <4> QED
        BY <4>1, <4>2
    <3>3. ASSUME NEW k \in 1 .. n PROVE LegalMove(stack[k].tried, history[k])'
      <4>1. CASE k = n
        <5>1. LegalMove(m, pos)
          BY <1>6, <1>11 DEF LegalMove
        <5> QED
          BY <1>7, <1>8, <2>4, <2>5, <4>1, <5>1 DEF LegalMove, MovesOf
      <4>2. CASE k # n
        <5>1. LegalMove(stack[k].tried, history[k])
          BY <1>2, <4>2 DEF Inv, CallsInv
        <5> QED
          BY <1>2, <1>7, <2>4, <2>5, <4>2, <5>1 DEF LegalMove, MovesOf
      <4> QED
        BY <4>1, <4>2
    <3> QED
      BY <1>2, <2>1, <2>4, <2>5, <3>1, <3>2, <3>3 DEF CallsInv, InLoop
  <2> QED
    BY <2>1, <2>7, <2>8, <2>9 DEF Inv
<1> QED
  BY <1>10, <1>11

\* Taking back the move of the call that returned: the call on top is the
\* caller, or it returns as well.
LEMMA TakeBackStep ==
    ASSUME Inv, pc = "returned", stack # << >>, takeBack,
           UNCHANGED <<game, pvTable, rootPosKey, searchDepth, stop, score>>,
           NEW n \in Nat, n = Len(stack),
           stack' \in Seq(Calls), Len(stack') \in {n - 1, n},
           \A k \in 1 .. (n - 1) : stack'[k] = stack[k],
           Len(stack') = n => CallOK(stack'[n], history[n]) /\ InLoop(stack'[n]),
           result' \in Scores,
           pc' = IF Len(stack') = n THEN "loop" ELSE "returned"
    PROVE  Inv'
<1>1. history \in Seq(Positions) /\ stack \in Seq(Calls)
  BY DEF Inv, TypeInv
<1>2. Len(history) = n
  BY DEF Inv, PlyInv
<1>3. n # 0
  BY <1>1, EmptySeq
<1>4. history # << >>
  BY <1>2, <1>3, EmptySeq
<1>5. /\ history' \in Seq(Positions) /\ Len(history') = n - 1
      /\ \A k \in 1 .. (n - 1) : history'[k] = history[k]
      /\ pos' = history[n] /\ pos' \in Positions
  BY <1>1, <1>2, <1>4, FrontLast DEF takeBack
<1>6. TypeInv'
  BY <1>5 DEF Inv, TypeInv
<1>7. TableOK'
  BY DEF Inv, TableOK, LegalMove, MovesOf
<1>8. PlyInv'
  <2>1. history[1] = game.root
    BY <1>4 DEF Inv, PlyInv
  <2>2. IF history' = << >> THEN pos' = game'.root ELSE history'[1] = game'.root
    <3>1. CASE n = 1
      <4>1. history' = << >>
        BY <1>5, <3>1, EmptySeq
      <4> QED
        BY <1>5, <2>1, <3>1, <4>1
    <3>2. CASE n # 1
      <4>1. 1 \in 1 .. (n - 1) /\ Len(history') # 0
        BY <1>3, <1>5, <3>2
      <4>2. history' # << >>
        BY <4>1, EmptySeq
      <4> QED
        BY <1>5, <2>1, <4>1, <4>2
    <3> QED
      BY <3>1, <3>2
  <2>3. Len(stack') = IF pc' = "loop" THEN Len(history') + 1 ELSE Len(history')
    BY <1>5
  <2>4. pc' \in {"loop", "returned"}
    OBVIOUS
  <2> QED
    BY <2>2, <2>3, <2>4 DEF PlyInv
<1>9. CallsInv'
  <2>1. ASSUME NEW k \in 1 .. Len(stack')
        PROVE  PosOf(k)' = history[k] /\ CallOK(stack'[k], history[k]) /\ InLoop(stack'[k])
    <3>1. CASE k = n
      <4>1. PosOf(k)' = history[k]
        BY <1>3, <1>5, <3>1 DEF PosOf
      <4> QED
        BY <3>1, <4>1
    <3>2. CASE k \in 1 .. (n - 1)
      <4>1. PosOf(k)' = history[k] /\ PosOf(k) = history[k]
        BY <1>2, <1>5, <3>2 DEF PosOf
      <4>2. CallOK(stack[k], PosOf(k)) /\ InLoop(stack[k])
        BY <3>2 DEF Inv, CallsInv
      <4> QED
        BY <3>2, <4>1, <4>2
    <3> QED
      BY <3>1, <3>2
  <2>2. \A k \in 1 .. Len(stack') : CallOK(stack[k], PosOf(k))' /\ InLoop(stack[k])'
    BY <2>1 DEF CallOK, InLoop, LegalMove, MovesOf
  <2>3. ASSUME NEW k \in 1 .. (n - 1)
        PROVE  LegalMove(stack[k].tried, history[k])'
    <3>1. LegalMove(stack[k].tried, history[k])
      BY <1>2 DEF Inv, CallsInv
    <3> QED
      BY <1>5, <3>1 DEF LegalMove, MovesOf
  <2> QED
    BY <1>5, <2>2, <2>3 DEF CallsInv
<1> QED
  BY <1>6, <1>7, <1>8, <1>9 DEF Inv

\* A score that comes back is compared with the window of the caller, unless
\* the clock has run out.
LEMMA HandleScoreStep == Inv /\ HandleScore => Inv'
<1> SUFFICES ASSUME Inv, HandleScore PROVE Inv'
  OBVIOUS
<1> DEFINE n == Len(stack)
<1>1. /\ pc = "returned" /\ stack # << >> /\ takeBack
      /\ UNCHANGED <<game, pvTable, rootPosKey, searchDepth, stop, score>>
  BY DEF HandleScore
<1>2. stack \in Seq(Calls) /\ result \in Scores
  BY DEF Inv, TypeInv
<1>3. Len(history) = n
  BY <1>1 DEF Inv, PlyInv
<1>4. n \in Nat \ {0} /\ top \in Calls /\ top = stack[n]
  BY <1>1, <1>2, FrontLast DEF top
<1>5. CallOK(top, history[n]) /\ InLoop(top) /\ LegalMove(top.tried, history[n])
  <2>1. PosOf(n) = history[n]
    BY <1>3, <1>4 DEF PosOf
  <2> QED
    BY <1>1, <1>3, <1>4, <2>1 DEF Inv, CallsInv
<1>6. -result \in Scores /\ -result \in Int
  BY <1>2, ScoreFacts
<1>7. /\ top.alpha \in Scores /\ top.beta \in Scores /\ top.alpha < top.beta
  BY <1>4, <1>5, CallFacts
<1>8. ASSUME NEW v \in Scores, Return(v) PROVE Inv'
  <2>1. /\ stack' \in Seq(Calls) /\ Len(stack') = n - 1
        /\ \A k \in 1 .. (n - 1) : stack'[k] = stack[k]
    BY <1>1, <1>2, <1>8, FrontLast DEF Return
  <2>2. pc' = "returned" /\ result' = v
    BY <1>8 DEF Return
  <2>3. Len(stack') # n
    BY <1>4, <2>1
  <2> HIDE DEF n
  <2> QED
    BY <1>1, <1>4, <2>1, <2>2, <2>3, TakeBackStep DEF n
<1>9. ASSUME NEW f \in Calls, CallOK(f, history[n]), InLoop(f),
             stack' = SetTop(f) \/ (stack' = stack /\ f = top),
             pc' = "loop", UNCHANGED result
      PROVE  Inv'
  <2>1. /\ stack' \in Seq(Calls) /\ Len(stack') = n
        /\ \A k \in 1 .. (n - 1) : stack'[k] = stack[k]
        /\ stack'[n] = f
    BY <1>1, <1>2, <1>4, <1>9, SetTopFrames
  <2> HIDE DEF n
  <2> QED
    BY <1>1, <1>2, <1>4, <1>9, <2>1, TakeBackStep DEF n
<1>10. CASE stop
  BY <1>8, <1>10, ScoreFacts DEF HandleScore
<1>11. CASE ~stop
  <2> DEFINE g == [top EXCEPT !.alpha = -result, !.best = top.tried]
  <2>1. \/ Return(top.beta)
        \/ /\ -result > top.alpha /\ ~(-result >= top.beta)
           /\ stack' = SetTop(g) /\ pc' = "loop" /\ UNCHANGED result
        \/ stack' = stack /\ pc' = "loop" /\ UNCHANGED result
    BY <1>11 DEF HandleScore, Compare
  <2>2. CASE Return(top.beta)
    BY <1>7, <1>8, <2>2
  <2>3. CASE /\ -result > top.alpha /\ ~(-result >= top.beta)
             /\ stack' = SetTop(g) /\ pc' = "loop" /\ UNCHANGED result
    <3>1. g \in Calls /\ g.alpha = -result /\ g.best = top.tried /\ g.beta = top.beta
          /\ g.moves = top.moves /\ g.quiet = top.quiet /\ g.depth = top.depth
      BY <1>4, <1>6 DEF Calls
    <3>2. -result < top.beta
      BY <1>6, <1>7, <2>3, ScoreFacts
    <3>3. top.tried # NOMOVE
      <4>1. history \in Seq(Positions) /\ game \in Games
        BY DEF Inv, TypeInv
      <4>2. history[n] \in Positions
        BY <1>3, <1>4, <4>1, ElementOfSeq
      <4>3. top.tried \in MovesOf(history[n])
        BY <1>5 DEF LegalMove
      <4> QED
        BY <4>1, <4>2, <4>3, MovesAreMoves
    <3> HIDE DEF g
    <3>4. CallOK(g, history[n])
      BY <1>5, <1>6, <1>7, <3>1, <3>2, <3>3 DEF CallOK
    <3>5. InLoop(g)
      BY <1>5, <3>1 DEF InLoop
    <3> QED
      BY <1>9, <2>3, <3>1, <3>4, <3>5
  <2>4. CASE stack' = stack /\ pc' = "loop" /\ UNCHANGED result
    BY <1>4, <1>5, <1>9, <2>4
  <2> HIDE DEF g
  <2> QED
    BY <2>1, <2>2, <2>3, <2>4
<1> QED
  BY <1>10, <1>11

\* A PV move that is stored is a legal move of the position on the board.
LEMMA StorePvMoveTable ==
    ASSUME TypeInv, TableOK, NEW m, LegalMove(m, pos), UNCHANGED game,
           storePvMove(m)
    PROVE  TableOK'
<1> DEFINE slots == {Slot[p] : p \in Positions}
           entries == [posKey : Positions \cup {NOMOVE}, move : Moves \cup {NOMOVE}]
           entry == [posKey |-> pos, move |-> m]
<1>1. pos \in Positions /\ m \in Moves /\ Slot[pos] \in slots
  BY MovesAreMoves DEF TypeInv, LegalMove
<1>2. pvTable \in [slots -> entries]
  BY DEF TableOK
<1>3. CASE UNCHANGED pvTable
  BY <1>3 DEF TableOK, LegalMove, MovesOf
<1>4. CASE pvTable' = [pvTable EXCEPT ![Slot[pos]] = entry]
  <2>1. entry \in entries /\ entry.posKey = pos /\ entry.move = m
    BY <1>1
  <2> HIDE DEF entry, entries, slots
  <2>2. pvTable' \in [slots -> entries]
    BY <1>1, <1>2, <1>4, <2>1
  <2>3. ASSUME NEW s \in slots
        PROVE  \/ pvTable'[s] = [posKey |-> NOMOVE, move |-> NOMOVE]
               \/ /\ Slot[pvTable'[s].posKey] = s
                  /\ LegalMove(pvTable'[s].move, pvTable'[s].posKey)
    <3>1. CASE s = Slot[pos]
      <4>1. pvTable'[s] = entry
        BY <1>1, <1>2, <1>4, <3>1
      <4> QED
        BY <2>1, <3>1, <4>1
    <3>2. CASE s # Slot[pos]
      <4>1. pvTable'[s] = pvTable[s]
        BY <1>1, <1>2, <1>4, <3>2
      <4> QED
        BY <1>2, <4>1 DEF TableOK
    <3> QED
      BY <3>1, <3>2
  <2>4. DOMAIN pvTable' = slots
    BY <2>2
  <2> QED
    BY <2>2, <2>3, <2>4 DEF TableOK, LegalMove, MovesOf, slots, entries
<1> QED
  BY <1>3, <1>4 DEF storePvMove

\* A call that has tried everything returns a score, and stores its best move
\* when it has one.
LEMMA EndLoopStep == Inv /\ EndLoop => Inv'
<1> SUFFICES ASSUME Inv, EndLoop PROVE Inv'
  OBVIOUS
<1>1. /\ pc = "loop" /\ pc \in {"called", "loop"}
      /\ UNCHANGED <<game, pos, history, rootPosKey, searchDepth, stop, score>>
  BY DEF EndLoop
<1>2. top \in Calls /\ top = stack[Len(stack)] /\ CallOK(top, pos) /\ Len(stack) \in Nat \ {0}
  BY <1>1, TopFacts
<1>3. InLoop(top)
  BY <1>1, <1>2 DEF Inv, CallsInv
<1>4. stop' \in BOOLEAN
  BY <1>1 DEF Inv, TypeInv
<1>5. UNCHANGED pvTable => TableOK'
  BY <1>1 DEF Inv, TableOK, LegalMove, MovesOf
<1>6. CASE ~top.quiet /\ top.movesMade = 0
  <2>1. UNCHANGED pvTable /\ (Return(-MATE - top.depth) \/ Return(0))
    BY <1>6 DEF EndLoop
  <2>2. -MATE - top.depth \in Scores
    <3>1. top.depth \in 1 .. MAXDEPTH /\ MAXDEPTH \in 1 .. (INFINITE - MATE)
      BY <1>3, <1>6, SearcherAssumption DEF InLoop
    <3>2. INFINITE \in Nat /\ MATE \in Nat /\ MATE <= INFINITE
      BY SMT DEF INFINITE, MATE
    <3> QED
      BY <3>1, <3>2, SMT DEF Scores
  <2> QED
    BY <1>1, <1>4, <1>5, <2>1, <2>2, ReturnStep, ScoreFacts
<1>7. CASE ~(~top.quiet /\ top.movesMade = 0)
  <2>1. /\ Return(top.alpha)
        /\ IF ~top.quiet /\ top.alpha # top.oldAlpha
           THEN storePvMove(top.best) ELSE UNCHANGED pvTable
    BY <1>7 DEF EndLoop
  <2>2. TableOK'
    <3>1. CASE ~top.quiet /\ top.alpha # top.oldAlpha
      <4>1. LegalMove(top.best, pos)
        BY <1>2, <3>1 DEF CallOK
      <4> QED
        BY <1>1, <2>1, <3>1, <4>1, StorePvMoveTable DEF Inv
    <3>2. CASE ~(~top.quiet /\ top.alpha # top.oldAlpha)
      BY <1>5, <2>1, <3>2
    <3> QED
      BY <3>1, <3>2
  <2>3. top.alpha \in Scores
    BY <1>2 DEF CallOK
  <2> QED
    BY <1>1, <1>4, <2>1, <2>2, <2>3, ReturnStep
<1> QED
  BY <1>6, <1>7

\* The first call of an iteration.
LEMMA DeepenStep == Inv /\ Deepen => Inv'
<1> SUFFICES ASSUME Inv, Deepen PROVE Inv'
  OBVIOUS
<1> DEFINE c == Call(-INFINITE, INFINITE, searchDepth, FALSE)
<1>1. /\ pc = "deepen" /\ stack' = <<c>> /\ pc' = "called"
      /\ UNCHANGED <<game, pos, history, pvTable, rootPosKey, searchDepth, stop, score, result>>
  BY DEF Deepen
<1>2. stack = << >> /\ history = << >> /\ pos = game.root
  BY <1>1 DEF Inv, PlyInv
<1>3. searchDepth \in Int
  <2>1. searchDepth \in 1 .. (MAXDEPTH + 1)
    BY DEF Inv, TypeInv
  <2> QED
    BY <2>1
<1>4. -INFINITE \in Scores /\ INFINITE \in Scores /\ -INFINITE < INFINITE
      /\ INFINITE \in Int /\ -INFINITE \in Int
  <2>1. INFINITE \in Nat \ {0}
    BY SMT DEF INFINITE
  <2> QED
    BY <2>1, SMT DEF Scores
<1>5. c \in Calls
  BY <1>3, <1>4 DEF Call, Calls
<1>6. CallOK(c, pos)
  <2>1. c.alpha = -INFINITE /\ c.beta = INFINITE /\ c.moves = {} /\ c.best = NOMOVE
        /\ c.oldAlpha = c.alpha
    BY DEF Call
  <2> HIDE DEF c
  <2> QED
    BY <1>4, <2>1 DEF CallOK
<1> HIDE DEF c
<1>7. stack' \in Seq(Calls) /\ Len(stack') = 1 /\ stack'[1] = c /\ Len(history) = 0
  BY <1>1, <1>2, <1>5
<1>8. TypeInv'
  BY <1>1, <1>7 DEF Inv, TypeInv
<1>9. TableOK'
  BY <1>1 DEF Inv, TableOK, LegalMove, MovesOf
<1>10. PlyInv'
  <2>1. Len(stack') = Len(history') + 1 /\ history' = << >> /\ pos' = game'.root
    BY <1>1, <1>2, <1>7
  <2> QED
    BY <1>1, <2>1 DEF PlyInv
<1>11. CallsInv'
  <2>1. PosOf(1)' = pos
    BY <1>1, <1>2, <1>7 DEF PosOf
  <2>2. CallOK(stack[1], PosOf(1))'
    BY <1>1, <1>6, <1>7, <2>1 DEF CallOK, LegalMove, MovesOf
  <2> QED
    BY <1>1, <1>7, <2>2 DEF CallsInv
<1> QED
  BY <1>1, <1>8, <1>9, <1>10, <1>11 DEF Inv

\* The end of an iteration, and of the search.
LEMMA BetweenIterations == Inv /\ (EndIteration \/ LookUp) => Inv'
<1> SUFFICES ASSUME Inv, EndIteration \/ LookUp PROVE Inv'
  OBVIOUS
<1>1. /\ stack = << >> /\ history = << >> /\ pos = game.root
      /\ UNCHANGED <<game, pos, history, pvTable, stack, result>>
      /\ pc' \in {"deepen", "look up", "answered"}
  <2>1. CASE EndIteration
    <3>1. stack = << >> /\ pc = "returned"
      BY <2>1 DEF EndIteration
    <3>2. Len(history) = 0 /\ history \in Seq(Positions)
      BY <3>1, EmptySeq DEF Inv, PlyInv, TypeInv
    <3>3. history = << >>
      BY <3>2, EmptySeq
    <3> QED
      BY <2>1, <3>1, <3>3 DEF EndIteration, Inv, PlyInv
  <2>2. CASE LookUp
    BY <2>2 DEF LookUp, Inv, PlyInv
  <2> QED
    BY <2>1, <2>2
<1>d. MAXDEPTH \in Nat \ {0}
  BY SearcherAssumption
<1>2. TypeInv'
  <2>1. CASE EndIteration
    <3>1. searchDepth' \in 1 .. (MAXDEPTH + 1)
      <4>1. \/ searchDepth' = searchDepth
            \/ searchDepth <= MAXDEPTH /\ searchDepth' = searchDepth + 1
        BY <2>1 DEF EndIteration
      <4>2. searchDepth \in 1 .. (MAXDEPTH + 1)
        BY DEF Inv, TypeInv
      <4> QED
        BY <1>d, <4>1, <4>2
    <3>2. score' \in Scores /\ UNCHANGED <<rootPosKey, stop>>
      BY <2>1 DEF EndIteration, Inv, TypeInv
    <3> QED
      BY <1>1, <3>1, <3>2 DEF Inv, TypeInv
  <2>2. CASE LookUp
    <3>1. searchDepth' \in 1 .. (MAXDEPTH + 1)
      <4>1. searchDepth' = searchDepth \/ searchDepth' = 1
        BY <2>2 DEF LookUp, prepSearch
      <4>2. searchDepth \in 1 .. (MAXDEPTH + 1)
        BY DEF Inv, TypeInv
      <4> QED
        BY <1>d, <4>1, <4>2
    <3>2. score' \in Scores
      BY <2>2, ScoreFacts DEF LookUp, Inv, TypeInv
    <3>3. rootPosKey' \in Positions \cup {EMPTYBOARD} /\ stop' \in BOOLEAN
      BY <2>2 DEF LookUp, prepSearch, Inv, TypeInv
    <3> QED
      BY <1>1, <3>1, <3>2, <3>3 DEF Inv, TypeInv
  <2> QED
    BY <2>1, <2>2
<1>3. TableOK'
  BY <1>1 DEF Inv, TableOK, LegalMove, MovesOf
<1>4. PlyInv'
  BY <1>1 DEF PlyInv
<1>5. CallsInv'
  <2>1. Len(stack') = 0 /\ Len(history') = 0
    BY <1>1, EmptySeq
  <2> QED
    BY <2>1 DEF CallsInv
<1>6. pc' = "answered" => getPvMove' # NOMOVE
  BY <1>1 DEF EndIteration, LookUp, getPvMove
<1> QED
  BY <1>2, <1>3, <1>4, <1>5, <1>6 DEF Inv

----------------------------------------------------------------------------
(* What the invariant says of every state of the search.                   *)

\* The invariant is one.
THEOREM Invariance == Spec => []Inv
<1>1. Inv /\ [Next]_vars => Inv'
  <2> SUFFICES ASSUME Inv, [Next]_vars PROVE Inv'
    OBVIOUS
  <2>1. CASE Next
    BY <2>1, DeepenStep, BetweenIterations, EnterStep, TryMoveStep,
       HandleScoreStep, EndLoopStep DEF Next
  <2>2. CASE UNCHANGED vars
    <3>1. TypeInv'
      BY <2>2 DEF vars, Inv, TypeInv
    <3>2. TableOK'
      BY <2>2 DEF vars, Inv, TableOK, LegalMove, MovesOf
    <3>3. PlyInv'
      BY <2>2 DEF vars, Inv, PlyInv
    <3>4. CallsInv'
      BY <2>2 DEF vars, Inv, CallsInv, CallOK, InLoop, PosOf, LegalMove, MovesOf
    <3>5. pc' = "answered" => getPvMove' # NOMOVE
      BY <2>2 DEF vars, Inv, getPvMove
    <3> QED
      BY <3>1, <3>2, <3>3, <3>4, <3>5 DEF Inv
  <2> QED
    BY <2>1, <2>2
<1> QED
  BY InitInv, <1>1, PTL DEF Spec

\* The variables are well typed: scores never leave the first window, the
\* depth has its maximum, and every PV move is a legal move of its position.
THEOREM TypeCorrect == Spec => []TypeOK
<1>1. Inv => TypeOK
  BY DEF Inv, TypeInv, TableOK, TypeOK, Scores, LegalMove
<1> QED
  BY Invariance, <1>1, PTL

\* Between iterations the board is that of the request, also after the clock
\* has cut a search short (reccomendMove returns with every move taken back).
THEOREM BoardCorrect == Spec => []BoardComesBack
<1>1. Inv => BoardComesBack
  <2> SUFFICES ASSUME Inv, stack = << >> PROVE pos = game.root /\ history = << >>
    BY DEF BoardComesBack
  <2>1. Len(stack) = 0 /\ history \in Seq(Positions) /\ Len(history) \in Nat
    <3>1. history \in Seq(Positions) /\ Len(stack) = 0
      BY EmptySeq DEF Inv, TypeInv
    <3> QED
      BY <3>1, LenProperties
  <2>2. Len(history) = 0 \/ history = << >>
    <3>1. pc \in {"deepen", "called", "loop", "returned", "look up", "answered"}
      BY DEF Inv, TypeInv
    <3>2. CASE pc \in {"called", "loop"}
      <4>1. Len(stack) = Len(history) + 1
        BY <3>2 DEF Inv, PlyInv
      <4> QED
        BY <2>1, <4>1
    <3>3. CASE pc = "returned"
      <4>1. Len(stack) = Len(history)
        BY <3>3 DEF Inv, PlyInv
      <4> QED
        BY <2>1, <4>1
    <3>4. CASE pc \in {"deepen", "look up", "answered"}
      BY <3>4 DEF Inv, PlyInv
    <3> QED
      BY <3>1, <3>2, <3>3, <3>4
  <2>3. history = << >>
    BY <2>1, <2>2, EmptySeq
  <2> QED
    BY <2>3 DEF Inv, PlyInv
<1> QED
  BY Invariance, <1>1, PTL

\* Every call of alphaBeta and quiescenceSearch has an open window.
THEOREM WindowsCorrect == Spec => []WindowsOpen
<1>1. Inv => WindowsOpen
  <2> SUFFICES ASSUME Inv, NEW k \in DOMAIN stack PROVE stack[k].alpha < stack[k].beta
    BY DEF WindowsOpen
  <2>1. k \in 1 .. Len(stack)
    BY LenProperties DEF Inv, TypeInv
  <2> QED
    BY <2>1 DEF Inv, CallsInv, CallOK
<1> QED
  BY Invariance, <1>1, PTL

\* Whatever the games, the slots and the clock, the recommended move is a
\* legal move of the position that was asked about.
THEOREM AnswerCorrect == Spec => []AnswerIsLegal
<1>1. Inv => AnswerIsLegal
  <2> SUFFICES ASSUME Inv, pc = "answered"
               PROVE  getPvMove # NOMOVE /\ getPvMove \in MovesOf(game.root) /\ getPvMove.legal
    BY DEF AnswerIsLegal
  <2> DEFINE node == pvTable[Slot[pos]]
  <2>1. pos = game.root /\ pos \in Positions /\ getPvMove # NOMOVE
    BY DEF Inv, PlyInv, TypeInv
  <2>2. node.posKey = pos /\ getPvMove = node.move
    BY <2>1 DEF getPvMove
  <2>3. Slot[pos] \in DOMAIN pvTable /\ NOMOVE # pos
    BY <2>1, SearcherAssumption DEF Inv, TableOK
  <2>4. LegalMove(node.move, node.posKey)
    BY <2>2, <2>3 DEF Inv, TableOK
  <2> QED
    BY <2>1, <2>2, <2>4 DEF LegalMove
<1> QED
  BY Invariance, <1>1, PTL

----------------------------------------------------------------------------
(* Recursion over numbers.                                                 *)

\* Of some numbers one is the least.
LEMMA LeastNumber ==
    ASSUME NEW V \in SUBSET Nat, V # {}
    PROVE  \E n \in V : \A m \in V : n <= m
<1> DEFINE less == {p \in Nat \X Nat : p[1] < p[2]}
<1>1. IsWellFoundedOn(less, Nat)
  BY NatLessThanWellFounded DEF OpToRel
<1>2. \E n \in V : \A m \in V : ~(<<m, n>> \in less)
  <2> HIDE DEF less
  <2> QED
    BY <1>1, WFMin
<1>3. PICK n \in V : \A m \in V : ~(<<m, n>> \in less)
  BY <1>2
<1>4. ASSUME NEW m \in V
      PROVE  n <= m
  <2>1. n \in Nat /\ m \in Nat /\ ~(m < n)
    BY <1>3
  <2> QED
    BY <2>1
<1> QED
  BY <1>4

\* What holds of 0, and of a number's successor if it holds of the number,
\* holds of all.
LEMMA AllNumbers ==
    ASSUME NEW G, 0 \in G, \A n \in Nat : n \in G => n + 1 \in G
    PROVE  Nat \subseteq G
<1> DEFINE V == Nat \ G
<1> SUFFICES ASSUME V # {} PROVE FALSE
  OBVIOUS
<1>1. PICK n \in V : \A m \in V : n <= m
  <2>1. V \in SUBSET Nat
    OBVIOUS
  <2> HIDE DEF V
  <2> QED
    BY <2>1, LeastNumber
<1>2. n \in Nat /\ n # 0 /\ n \notin G
  OBVIOUS
<1>3. n - 1 \in Nat /\ n = (n - 1) + 1 /\ ~(n <= n - 1)
  BY <1>2
<1>4. n - 1 \in G
  BY <1>1, <1>3
<1> QED
  BY <1>2, <1>3, <1>4

\* The first n steps of a recursion.
Unfolds(h, n, S, base, step) ==
    /\ h \in [0 .. n -> S] /\ h[0] = base
    /\ \A i \in 0 .. (n - 1) : h[i + 1] = step[<<i, h[i]>>]

\* There are some.
LEMMA UnfoldsExist ==
    ASSUME NEW S, NEW base \in S, NEW step \in [Nat \X S -> S], NEW n \in Nat
    PROVE  \E h : Unfolds(h, n, S, base, step)
<1> DEFINE G == {k \in Nat : \E h : Unfolds(h, k, S, base, step)}
<1>1. 0 \in G
  <2> DEFINE h == [i \in 0 .. 0 |-> base]
  <2>1. Unfolds(h, 0, S, base, step)
    BY DEF Unfolds
  <2> QED
    BY <2>1
<1>2. ASSUME NEW k \in Nat, k \in G
      PROVE  k + 1 \in G
  <2>1. PICK h : Unfolds(h, k, S, base, step)
    BY <1>2
  <2>2. h \in [0 .. k -> S] /\ h[0] = base /\ h[k] \in S
        /\ \A i \in 0 .. (k - 1) : h[i + 1] = step[<<i, h[i]>>]
    BY <2>1 DEF Unfolds
  <2> DEFINE next == step[<<k, h[k]>>]
             h2 == [i \in 0 .. (k + 1) |-> IF i = k + 1 THEN next ELSE h[i]]
  <2>3. next \in S
    BY <2>2
  <2>4. h2 \in [0 .. (k + 1) -> S]
    <3> HIDE DEF next
    <3>1. \A i \in 0 .. (k + 1) : i # k + 1 => i \in 0 .. k
      OBVIOUS
    <3> QED
      BY <2>2, <2>3, <3>1
  <2>5. h2[0] = base
    BY <2>2
  <2>6. ASSUME NEW i \in 0 .. ((k + 1) - 1)
        PROVE  h2[i + 1] = step[<<i, h2[i]>>]
    <3>1. h2[i] = h[i] /\ i + 1 \in 0 .. (k + 1)
      OBVIOUS
    <3>2. CASE i = k
      BY <3>1, <3>2
    <3>3. CASE i # k
      <4>1. i \in 0 .. (k - 1) /\ i + 1 # k + 1
        BY <3>3
      <4>2. h2[i + 1] = h[i + 1]
        BY <3>1, <4>1
      <4> HIDE DEF h2
      <4> QED
        BY <2>2, <3>1, <4>1, <4>2
    <3> QED
      BY <3>2, <3>3
  <2> HIDE DEF h2
  <2>7. Unfolds(h2, k + 1, S, base, step)
    BY <2>4, <2>5, <2>6 DEF Unfolds
  <2> QED
    BY <2>7
<1>3. Nat \subseteq G
  <2> HIDE DEF G
  <2> QED
    BY <1>1, <1>2, AllNumbers
<1> QED
  BY <1>3

\* They agree where both are.
LEMMA UnfoldsAgree ==
    ASSUME NEW S, NEW base, NEW step, NEW n \in Nat, NEW m \in Nat, n <= m,
           NEW h, Unfolds(h, n, S, base, step), NEW k, Unfolds(k, m, S, base, step)
    PROVE  \A i \in 0 .. n : h[i] = k[i]
<1> DEFINE G == {i \in Nat : i <= n => h[i] = k[i]}
<1>1. 0 \in G
  BY DEF Unfolds
<1>2. ASSUME NEW i \in Nat, i \in G
      PROVE  i + 1 \in G
  <2> SUFFICES ASSUME i + 1 <= n PROVE h[i + 1] = k[i + 1]
    OBVIOUS
  <2>1. i \in 0 .. (n - 1) /\ i \in 0 .. (m - 1) /\ h[i] = k[i]
    BY <1>2
  <2> QED
    BY <2>1 DEF Unfolds
<1>3. Nat \subseteq G
  <2> HIDE DEF G
  <2> QED
    BY <1>1, <1>2, AllNumbers
<1> QED
  BY <1>3

\* f is what step makes of base, again and again.
Iterates(f, base, step) == f[0] = base /\ \A n \in Nat : f[n + 1] = step[<<n, f[n]>>]

\* What a step makes of each value can be repeated for ever.
LEMMA RecursionExists ==
    ASSUME NEW S, NEW base \in S, NEW step \in [Nat \X S -> S]
    PROVE  \E f \in [Nat -> S] : Iterates(f, base, step)
<1> DEFINE U(n) == CHOOSE h : Unfolds(h, n, S, base, step)
           f == [n \in Nat |-> U(n)[n]]
<1>1. \A n \in Nat : Unfolds(U(n), n, S, base, step)
  BY UnfoldsExist
<1> HIDE DEF U
<1>2. f \in [Nat -> S]
  <2>1. ASSUME NEW n \in Nat PROVE U(n)[n] \in S
    BY <1>1 DEF Unfolds
  <2> QED
    BY <2>1
<1>3. f[0] = base
  BY <1>1 DEF Unfolds
<1>4. ASSUME NEW n \in Nat
      PROVE  f[n + 1] = step[<<n, f[n]>>]
  <2>1. n + 1 \in Nat /\ n <= n + 1 /\ n \in 0 .. n /\ n \in 0 .. ((n + 1) - 1)
    OBVIOUS
  <2>2. U(n)[n] = U(n + 1)[n]
    BY <1>1, <2>1, UnfoldsAgree
  <2>3. U(n + 1)[n + 1] = step[<<n, U(n + 1)[n]>>]
    <3>1. Unfolds(U(n + 1), n + 1, S, base, step)
      BY <1>1, <2>1
    <3> QED
      BY <2>1, <3>1 DEF Unfolds
  <2> QED
    BY <2>1, <2>2, <2>3
<1> HIDE DEF f
<1> QED
  BY <1>2, <1>3, <1>4 DEF Iterates

----------------------------------------------------------------------------
(* The values of positions.                                                *)

Worths == (1 - INFINITE) .. (INFINITE - 1)

\* Worths are scores, other than the ends of the first window.
LEMMA WorthFacts ==
    /\ 0 \in Worths /\ Worths \subseteq Int
    /\ \A x \in Worths : -x \in Worths /\ x \in Scores /\ -INFINITE < x /\ x < INFINITE
    /\ \A x \in Int : x \in Worths <=> 1 - INFINITE <= x /\ x <= INFINITE - 1
    /\ INFINITE \in Nat
<1>1. INFINITE \in Nat /\ INFINITE > 1
  BY SMT DEF INFINITE
<1>2. Worths \subseteq Int
  BY <1>1 DEF Worths
<1>3. \A x \in Int : x \in Worths <=> 1 - INFINITE <= x /\ x <= INFINITE - 1
  BY <1>1, SMT DEF Worths
<1>4. \A x \in Worths : -x \in Worths /\ -INFINITE < x /\ x < INFINITE
  BY <1>1, <1>2, <1>3, SMT
<1>5. \A x \in Worths : x \in Scores
  BY <1>1, <1>2, <1>4, SMT DEF Scores
<1>6. 0 \in Worths
  BY <1>1, <1>3, SMT
<1> QED
  BY <1>1, <1>2, <1>3, <1>4, <1>5, <1>6

\* A set of numbers that is bounded has a largest.
LEMMA LargestOf ==
    ASSUME NEW V \in SUBSET Worths, V # {}
    PROVE  Largest(V) \in V /\ \A y \in V : y <= Largest(V)
<1> DEFINE D == {INFINITE - y : y \in V}
<1>1. \A y \in V : y \in Int /\ INFINITE - y \in Nat
  BY WorthFacts
<1>2. D \in SUBSET Nat /\ D # {}
  BY <1>1
<1>3. PICK d \in D : \A e \in D : d <= e
  <2> HIDE DEF D
  <2> QED
    BY <1>2, LeastNumber
<1>4. PICK x \in V : d = INFINITE - x
  OBVIOUS
<1>5. ASSUME NEW y \in V
      PROVE  y <= x
  <2>1. INFINITE - x <= INFINITE - y
    BY <1>3, <1>4
  <2> QED
    BY <1>1, <2>1, WorthFacts
<1> QED
  BY <1>4, <1>5 DEF Largest

\* Lines go on.
LEMMA LineFacts ==
    ASSUME NEW line \in Lines
    PROVE  /\ Last(line) \in Positions
           /\ \A p \in Positions : Append(line, p) \in Lines /\ Last(Append(line, p)) = p
<1>1. line \in Seq(Positions) /\ line # << >>
  BY DEF Lines
<1>2. Last(line) \in Positions
  BY <1>1, FrontLast
<1>3. ASSUME NEW p \in Positions
      PROVE  Append(line, p) \in Lines /\ Last(Append(line, p)) = p
  <2>1. /\ Append(line, p) \in Seq(Positions) /\ Len(Append(line, p)) = Len(line) + 1
        /\ Append(line, p)[Len(line) + 1] = p /\ Len(line) \in Nat
    BY <1>1
  <2>2. Append(line, p) # << >>
    BY <2>1
  <2> QED
    BY <2>1, <2>2 DEF Lines, Last
<1> QED
  BY <1>2, <1>3

\* Where the moves of a game lead.
LEMMA GameFacts ==
    ASSUME NEW g \in Games, NEW p \in Positions
    PROVE  /\ g.eval[p] \in Worths /\ g.men[p] \in Nat
           /\ \A m \in g.moves[p] :
                 /\ m \in Moves /\ m.to \in Positions
                 /\ m.capture /\ m.legal => g.men[m.to] \in Nat /\ g.men[m.to] < g.men[p]
<1>1. /\ g.eval \in [Positions -> Worths] /\ g.men \in [Positions -> Nat]
      /\ \A m \in g.moves[p] : m.capture /\ m.legal => g.men[m.to] < g.men[p]
  BY ValuesAssumption DEF Worths
<1>2. \A m \in g.moves[p] : m \in Moves
  BY GamesAssumption
<1>3. \A m \in g.moves[p] : m.to \in Positions
  BY <1>2 DEF Moves
<1> QED
  BY <1>1, <1>2, <1>3

CapturesFrom(g, p) == {m \in g.moves[p] : m.capture}

\* What moves gain are worths.
LEMMA GainsFacts ==
    ASSUME NEW g \in Games, NEW line \in Lines, NEW value \in [Lines -> Worths],
           NEW moves \in SUBSET g.moves[Last(line)]
    PROVE  Gains(value, line, moves) \in SUBSET Worths
<1>1. \A m \in Legal(moves) : value[Append(line, m.to)] \in Worths
  BY LineFacts, GameFacts DEF Legal
<1> QED
  BY <1>1, WorthFacts DEF Gains

\* What quiescence of n captures finds, if value is what it finds of one less.
QuietLook(g, value, n) ==
    [line \in Lines |->
        IF RepeatedIn(line) THEN 0
        ELSE IF n = 0 THEN g.eval[Last(line)]
        ELSE Largest({g.eval[Last(line)]}
                        \cup Gains(value, line, CapturesFrom(g, Last(line))))]

IsQuiet(g, q) == q = [n \in Nat |-> QuietLook(g, q[n - 1], n)]

\* The largest of what captures gain is a worth.
LEMMA QuietLookWorth ==
    ASSUME NEW g \in Games, NEW n \in Nat, NEW value,
           n # 0 => value \in [Lines -> Worths]
    PROVE  QuietLook(g, value, n) \in [Lines -> Worths]
<1> SUFFICES ASSUME NEW line \in Lines
             PROVE  QuietLook(g, value, n)[line] \in Worths
  BY DEF QuietLook
<1> DEFINE p == Last(line)
           gains == {g.eval[p]} \cup Gains(value, line, CapturesFrom(g, p))
<1>1. p \in Positions /\ g.eval[p] \in Worths
  BY LineFacts, GameFacts
<1>2. ASSUME n # 0
      PROVE  Largest(gains) \in Worths
  <2>1. Gains(value, line, CapturesFrom(g, p)) \in SUBSET Worths
    BY <1>2, GainsFacts DEF CapturesFrom
  <2>2. gains \in SUBSET Worths /\ gains # {}
    BY <1>1, <2>1
  <2> HIDE DEF gains
  <2> QED
    BY <2>2, LargestOf
<1>3. QuietLook(g, value, n)[line]
        = IF RepeatedIn(line) THEN 0 ELSE IF n = 0 THEN g.eval[p] ELSE Largest(gains)
  BY DEF QuietLook
<1> HIDE DEF p, gains
<1> QED
  BY <1>1, <1>2, <1>3, WorthFacts

\* The recursion that defines QuietValues has a solution.
LEMMA QuietRecursion ==
    ASSUME NEW g \in Games
    PROVE  /\ QuietValues(g) \in [Nat -> [Lines -> Worths]]
           /\ \A n \in Nat : QuietValues(g)[n] = QuietLook(g, QuietValues(g)[n - 1], n)
<1> DEFINE S == [Lines -> Worths]
           base == QuietLook(g, 0, 0)
           step == [a \in Nat \X S |-> QuietLook(g, a[2], a[1] + 1)]
<1>1. base \in S
  BY QuietLookWorth
<1>2. step \in [Nat \X S -> S]
  <2>1. ASSUME NEW a \in Nat \X S
        PROVE  QuietLook(g, a[2], a[1] + 1) \in S
    <3>1. a[1] + 1 \in Nat /\ a[2] \in [Lines -> Worths]
      OBVIOUS
    <3> QED
      BY <3>1, QuietLookWorth
  <2> HIDE DEF S
  <2> QED
    BY <2>1
<1>3. PICK f \in [Nat -> S] : f[0] = base /\ \A n \in Nat : f[n + 1] = step[<<n, f[n]>>]
  <2>1. base \in S /\ step \in [Nat \X S -> S]
    BY <1>1, <1>2
  <2> HIDE DEF S, base, step
  <2>2. \E f \in [Nat -> S] : Iterates(f, base, step)
    BY <2>1, RecursionExists
  <2> QED
    BY <2>2 DEF Iterates
<1>4. ASSUME NEW n \in Nat
      PROVE  f[n] = QuietLook(g, f[n - 1], n)
  <2>1. CASE n = 0
    BY <1>3, <2>1 DEF QuietLook
  <2>2. CASE n # 0
    <3>1. n - 1 \in Nat /\ (n - 1) + 1 = n
      BY <2>2
    <3>2. f[(n - 1) + 1] = step[<<n - 1, f[n - 1]>>] /\ f[n - 1] \in S
      BY <1>3, <3>1
    <3>3. step[<<n - 1, f[n - 1]>>] = QuietLook(g, f[n - 1], (n - 1) + 1)
      <4> HIDE DEF S
      <4> QED
        BY <3>1, <3>2
    <3> QED
      BY <3>1, <3>2, <3>3
  <2> QED
    BY <2>1, <2>2
<1>5. IsQuiet(g, f)
  <2>1. f = [n \in Nat |-> f[n]]
    BY <1>3
  <2> QED
    BY <1>4, <2>1 DEF IsQuiet
<1>6. QuietValues(g) = CHOOSE q : IsQuiet(g, q)
  BY DEF QuietValues, IsQuiet, QuietLook, CapturesFrom
<1>7. IsQuiet(g, QuietValues(g))
  BY <1>5, <1>6
<1> DEFINE q == QuietValues(g)
<1>8. \A n \in Nat : q[n] = QuietLook(g, q[n - 1], n)
  BY <1>7 DEF IsQuiet
<1>9. Nat \subseteq {n \in Nat : q[n] \in S}
  <2> HIDE DEF q
  <2> DEFINE G == {n \in Nat : q[n] \in S}
  <2>1. 0 \in G
    <3>1. QuietLook(g, q[0 - 1], 0) \in S
      BY QuietLookWorth
    <3> QED
      BY <1>8, <3>1
  <2>2. ASSUME NEW n \in Nat, n \in G
        PROVE  n + 1 \in G
    <3>1. (n + 1) - 1 = n /\ n + 1 \in Nat
      OBVIOUS
    <3>2. QuietLook(g, q[n], n + 1) \in S
      BY <2>2, <3>1, QuietLookWorth
    <3>3. q[n + 1] = QuietLook(g, q[n], n + 1)
      BY <1>8, <3>1
    <3> QED
      BY <3>1, <3>2, <3>3
  <2> HIDE DEF G
  <2> QED
    BY <2>1, <2>2, AllNumbers DEF G
<1>10. q = [n \in Nat |-> q[n]]
  <2>1. \E h : q = [n \in Nat |-> h[n]]
    <3>1. q = [n \in Nat |-> QuietLook(g, q[n - 1], n)]
      BY <1>7 DEF IsQuiet
    <3>2. q = [n \in Nat |-> q[n]]
      BY <3>1
    <3> QED
      BY <3>2
  <2> QED
    BY <2>1
<1> HIDE DEF q, S
<1>11. q \in [Nat -> S]
  BY <1>9, <1>10
<1> QED
  BY <1>8, <1>11 DEF q, S

\* What moves gain depends on the lines they lead to.
LEMMA GainsSame ==
    ASSUME NEW v, NEW w, NEW line, NEW moves,
           \A m \in Legal(moves) : v[Append(line, m.to)] = w[Append(line, m.to)]
    PROVE  Gains(v, line, moves) = Gains(w, line, moves)
BY DEF Gains

\* Where men are left there is no capture, and nothing but standing pat.
LEMMA NoMenLeft ==
    ASSUME NEW g \in Games, NEW line \in Lines, g.men[Last(line)] = 0, NEW n \in Nat, NEW value
    PROVE  /\ Legal(CapturesFrom(g, Last(line))) = {}
           /\ QuietLook(g, value, n)[line] = IF RepeatedIn(line) THEN 0 ELSE g.eval[Last(line)]
<1> DEFINE p == Last(line)
<1>1. p \in Positions /\ g.eval[p] \in Worths
  BY LineFacts, GameFacts
<1>2. Legal(CapturesFrom(g, p)) = {}
  <2>1. ASSUME NEW m \in Legal(CapturesFrom(g, p)) PROVE FALSE
    <3>1. m \in g.moves[p] /\ m.capture /\ m.legal
      BY DEF Legal, CapturesFrom
    <3>2. g.men[m.to] \in Nat /\ g.men[m.to] < 0
      BY <1>1, <3>1, GameFacts
    <3> QED
      BY <3>2
  <2> QED
    BY <2>1
<1>3. {g.eval[p]} \cup Gains(value, line, CapturesFrom(g, p)) = {g.eval[p]}
  BY <1>2 DEF Gains
<1>4. Largest({g.eval[p]}) = g.eval[p]
  BY <1>1, LargestOf
<1> QED
  BY <1>2, <1>3, <1>4 DEF QuietLook

\* Looking further than there are men to take changes nothing.
LEMMA QuietDeep ==
    ASSUME NEW g \in Games, NEW line \in Lines, NEW n \in Nat, n >= g.men[Last(line)]
    PROVE  QuietValues(g)[n][line] = QuietValue(g, line)
<1> DEFINE q == QuietValues(g)
           Men(ln) == g.men[Last(ln)]
           Deep(k) == \A ln \in Lines : \A i \in Nat :
                        Men(ln) <= k /\ Men(ln) <= i => q[i][ln] = q[Men(ln)][ln]
           G == {k \in Nat : Deep(k)}
<1>1. \A i \in Nat : q[i] = QuietLook(g, q[i - 1], i)
  BY QuietRecursion
<1>2. \A ln \in Lines : Men(ln) \in Nat
  BY LineFacts, GameFacts
<1>3. ASSUME NEW ln \in Lines, NEW i \in Nat, Men(ln) = 0
      PROVE  q[i][ln] = q[Men(ln)][ln]
  <2> HIDE DEF q
  <2>1. q[i] = QuietLook(g, q[i - 1], i) /\ q[0] = QuietLook(g, q[0 - 1], 0)
    BY <1>1
  <2> QED
    BY <1>3, <2>1, NoMenLeft
<1>4. 0 \in G
  <2> HIDE DEF q
  <2> SUFFICES ASSUME NEW ln \in Lines, NEW i \in Nat, Men(ln) <= 0
               PROVE  q[i][ln] = q[Men(ln)][ln]
    OBVIOUS
  <2>1. Men(ln) = 0
    BY <1>2
  <2> QED
    BY <1>3, <2>1
<1>5. ASSUME NEW k \in Nat, k \in G
      PROVE  k + 1 \in G
  <2> SUFFICES ASSUME NEW ln \in Lines, NEW i \in Nat, Men(ln) <= k + 1, Men(ln) <= i
               PROVE  q[i][ln] = q[Men(ln)][ln]
    OBVIOUS
  <2>1. CASE Men(ln) = 0
    BY <1>3, <2>1
  <2>2. CASE Men(ln) # 0
    <3> DEFINE p == Last(ln)
               n0 == Men(ln)
               captures == CapturesFrom(g, p)
    <3>1. n0 \in Nat /\ n0 - 1 \in Nat /\ n0 # 0 /\ i # 0 /\ i - 1 \in Nat /\ n0 - 1 <= i - 1
          /\ n0 - 1 <= k
      BY <1>2, <2>2
    <3>2. ASSUME NEW m \in Legal(captures)
          PROVE  q[i - 1][Append(ln, m.to)] = q[n0 - 1][Append(ln, m.to)]
      <4> DEFINE next == Append(ln, m.to)
      <4>1. m \in g.moves[p] /\ m.capture /\ m.legal
        BY DEF Legal, CapturesFrom
      <4>2. p \in Positions
        BY LineFacts
      <4>3. m.to \in Positions /\ g.men[m.to] \in Nat /\ g.men[m.to] < g.men[p]
        BY <4>1, <4>2, GameFacts
      <4>4. next \in Lines /\ Men(next) = g.men[m.to]
        BY <4>3, LineFacts
      <4> HIDE DEF next, q
      <4>5. Men(next) <= k /\ Men(next) <= i - 1 /\ Men(next) <= n0 - 1
        BY <3>1, <4>3, <4>4
      <4>6. Deep(k)
        BY <1>5
      <4> HIDE DEF Men
      <4> QED
        BY <3>1, <4>4, <4>5, <4>6 DEF next
    <3> HIDE DEF q, n0
    <3>3. q[i] = QuietLook(g, q[i - 1], i) /\ q[n0] = QuietLook(g, q[n0 - 1], n0)
      BY <1>1, <3>1
    <3>4. Gains(q[i - 1], ln, captures) = Gains(q[n0 - 1], ln, captures)
      BY <3>2, GainsSame
    <3>5. QuietLook(g, q[i - 1], i)[ln] = QuietLook(g, q[n0 - 1], n0)[ln]
      BY <3>1, <3>4 DEF QuietLook
    <3> QED
      BY <3>3, <3>5 DEF n0
  <2> QED
    BY <2>1, <2>2
<1>6. Nat \subseteq G
  <2> HIDE DEF G
  <2> QED
    BY <1>4, <1>5, AllNumbers
<1>7. Deep(n)
  BY <1>6
<1>8. Men(line) <= n
  BY <1>2
<1> QED
  BY <1>7, <1>8 DEF QuietValue

QuietOf(g) == [line \in Lines |-> QuietValue(g, line)]

\* The value of a quiet search is the evaluation, or what the best capture gains.
LEMMA QuietEquation ==
    ASSUME NEW g \in Games, NEW line \in Lines
    PROVE  /\ QuietValue(g, line) \in Worths
           /\ QuietValue(g, line)
                = IF RepeatedIn(line) THEN 0
                  ELSE Largest({g.eval[Last(line)]}
                          \cup Gains(QuietOf(g), line, CapturesFrom(g, Last(line))))
<1> DEFINE q == QuietValues(g)
           p == Last(line)
           n == g.men[p]
           captures == CapturesFrom(g, p)
<1>1. p \in Positions /\ n \in Nat /\ g.eval[p] \in Worths
  BY LineFacts, GameFacts
<1>2. q \in [Nat -> [Lines -> Worths]] /\ q[n] = QuietLook(g, q[n - 1], n)
  BY <1>1, QuietRecursion
<1>3. QuietValue(g, line) = q[n][line]
  BY DEF QuietValue
<1>4. q[n][line] \in Worths
  BY <1>1, <1>2
<1>5. CASE n = 0
  <2>1. Gains(QuietOf(g), line, captures) = {}
    BY <1>5, NoMenLeft DEF Gains
  <2>2. Largest({g.eval[p]}) = g.eval[p]
    BY <1>1, LargestOf
  <2>3. q[n][line] = IF RepeatedIn(line) THEN 0 ELSE g.eval[p]
    <3> HIDE DEF q
    <3> QED
      BY <1>1, <1>2, <1>5, NoMenLeft
  <2> HIDE DEF q
  <2> QED
    BY <1>3, <1>4, <2>1, <2>2, <2>3
<1>6. CASE n # 0
  <2>1. ASSUME NEW m \in Legal(captures)
        PROVE  q[n - 1][Append(line, m.to)] = QuietOf(g)[Append(line, m.to)]
    <3>1. m \in g.moves[p] /\ m.capture /\ m.legal
      BY DEF Legal, CapturesFrom
    <3>2. m.to \in Positions /\ g.men[m.to] \in Nat /\ g.men[m.to] < n
      BY <1>1, <3>1, GameFacts
    <3>3. Append(line, m.to) \in Lines /\ Last(Append(line, m.to)) = m.to
      BY <3>2, LineFacts
    <3>4. n - 1 \in Nat /\ n - 1 >= g.men[Last(Append(line, m.to))]
      BY <1>1, <1>6, <3>2, <3>3
    <3> QED
      BY <3>3, <3>4, QuietDeep DEF QuietOf
  <2> HIDE DEF q
  <2>2. Gains(q[n - 1], line, captures) = Gains(QuietOf(g), line, captures)
    BY <2>1, GainsSame
  <2> HIDE DEF captures, n
  <2>3. q[n][line] = IF RepeatedIn(line) THEN 0
                     ELSE Largest({g.eval[p]} \cup Gains(QuietOf(g), line, captures))
    BY <1>2, <1>6, <2>2 DEF QuietLook, captures
  <2> QED
    BY <1>3, <1>4, <2>3 DEF captures
<1> QED
  BY <1>5, <1>6

\* What a search of depth d finds, if value is what one of depth d - 1 does.
DeepLook(g, value, d) ==
    [line \in Lines |->
        IF d = 0 THEN QuietValue(g, line)
        ELSE IF RepeatedIn(line) THEN 0
        ELSE IF Legal(g.moves[Last(line)]) # {}
        THEN Largest(Gains(value, line, g.moves[Last(line)]))
        ELSE IF Last(line) \in g.inCheck THEN -MATE - d ELSE 0]

Depths == 0 .. (MAXDEPTH - 1)

IsDeep(g, v) == v = [d \in Depths |-> DeepLook(g, v[d - 1], d)]

\* Depths are numbers, and a mate is worth less than the ends of the window.
LEMMA DepthFacts ==
    /\ MAXDEPTH \in Nat \ {0} /\ 0 \in Depths
    /\ \A d \in Depths : d \in Nat /\ -MATE - d \in Worths
    /\ \A d \in Int : d \in Depths <=> 0 <= d /\ d < MAXDEPTH
<1>1. INFINITE \in Nat /\ MATE \in Nat /\ MATE < INFINITE
  BY SMT DEF INFINITE, MATE
<1>2. MAXDEPTH \in 1 .. (INFINITE - MATE)
  BY SearcherAssumption
<1>3. MAXDEPTH \in Nat /\ MAXDEPTH > 0 /\ MAXDEPTH <= INFINITE - MATE
  BY <1>1, <1>2, SMT
<1>4. \A d \in Int : d \in Depths <=> 0 <= d /\ d < MAXDEPTH
  BY <1>3, SMT DEF Depths
<1>5. \A d \in Depths : d \in Nat /\ d < MAXDEPTH
  BY <1>3, SMT DEF Depths
<1>6. ASSUME NEW d \in Depths
      PROVE  -MATE - d \in Worths
  <2>1. d \in Nat /\ d < MAXDEPTH
    BY <1>5
  <2>2. -MATE - d \in Int /\ 1 - INFINITE <= -MATE - d /\ -MATE - d <= INFINITE - 1
    BY <1>1, <1>3, <2>1, SMT
  <2> QED
    BY <2>2, WorthFacts
<1> QED
  BY <1>3, <1>4, <1>5, <1>6

\* The largest of what moves gain is a worth.
LEMMA DeepLookWorth ==
    ASSUME NEW g \in Games, NEW d \in Depths, NEW value,
           d # 0 => value \in [Lines -> Worths]
    PROVE  DeepLook(g, value, d) \in [Lines -> Worths]
<1> SUFFICES ASSUME NEW line \in Lines
             PROVE  DeepLook(g, value, d)[line] \in Worths
  BY DEF DeepLook
<1> DEFINE p == Last(line)
           gains == Gains(value, line, g.moves[p])
           mate == IF p \in g.inCheck THEN -MATE - d ELSE 0
<1>1. ASSUME d # 0, Legal(g.moves[p]) # {}
      PROVE  Largest(gains) \in Worths
  <2>1. gains \in SUBSET Worths
    BY <1>1, GainsFacts
  <2>2. gains # {}
    BY <1>1 DEF Gains
  <2> HIDE DEF gains
  <2> QED
    BY <2>1, <2>2, LargestOf
<1>2. mate \in Worths
  BY DepthFacts, WorthFacts
<1>3. QuietValue(g, line) \in Worths
  BY QuietEquation
<1>4. DeepLook(g, value, d)[line]
        = IF d = 0 THEN QuietValue(g, line)
          ELSE IF RepeatedIn(line) THEN 0
          ELSE IF Legal(g.moves[p]) # {} THEN Largest(gains) ELSE mate
  BY DEF DeepLook
<1> HIDE DEF p, gains, mate
<1> QED
  BY <1>1, <1>2, <1>3, <1>4, WorthFacts

\* The recursion that defines DeepValues has a solution.
LEMMA DeepRecursion ==
    ASSUME NEW g \in Games
    PROVE  \A d \in Depths :
              /\ DeepValues(g)[d] \in [Lines -> Worths]
              /\ DeepValues(g)[d] = DeepLook(g, DeepValues(g)[d - 1], d)
<1> DEFINE S == [Lines -> Worths]
           base == DeepLook(g, 0, 0)
           step == [a \in Nat \X S |->
                       IF a[1] + 1 \in Depths THEN DeepLook(g, a[2], a[1] + 1) ELSE a[2]]
<1>1. base \in S
  BY DeepLookWorth, DepthFacts
<1>2. step \in [Nat \X S -> S]
  <2>1. ASSUME NEW a \in Nat \X S, a[1] + 1 \in Depths
        PROVE  DeepLook(g, a[2], a[1] + 1) \in S
    <3>1. a[2] \in [Lines -> Worths]
      OBVIOUS
    <3> QED
      BY <2>1, <3>1, DeepLookWorth
  <2> HIDE DEF S
  <2> QED
    BY <2>1
<1>3. PICK f \in [Nat -> S] : f[0] = base /\ \A n \in Nat : f[n + 1] = step[<<n, f[n]>>]
  <2>1. base \in S /\ step \in [Nat \X S -> S]
    BY <1>1, <1>2
  <2> HIDE DEF S, base, step
  <2>2. \E f \in [Nat -> S] : Iterates(f, base, step)
    BY <2>1, RecursionExists
  <2> QED
    BY <2>2 DEF Iterates
<1> DEFINE h == [d \in Depths |-> f[d]]
<1>4. ASSUME NEW d \in Depths
      PROVE  h[d] = DeepLook(g, h[d - 1], d)
  <2>1. CASE d = 0
    BY <1>3, <2>1 DEF DeepLook
  <2>2. CASE d # 0
    <3>1. d \in Nat /\ d - 1 \in Nat /\ (d - 1) + 1 = d /\ d - 1 \in Depths
      BY <2>2, DepthFacts
    <3>2. f[(d - 1) + 1] = step[<<d - 1, f[d - 1]>>] /\ f[d - 1] \in S
      BY <1>3, <3>1
    <3>3. step[<<d - 1, f[d - 1]>>] = DeepLook(g, f[d - 1], (d - 1) + 1)
      <4> HIDE DEF S
      <4> QED
        BY <3>1, <3>2
    <3>4. h[d] = f[d] /\ h[d - 1] = f[d - 1]
      BY <3>1
    <3> HIDE DEF h, step
    <3> QED
      BY <3>1, <3>2, <3>3, <3>4
  <2> QED
    BY <2>1, <2>2
<1>5. IsDeep(g, h)
  <2>1. h = [d \in Depths |-> h[d]]
    OBVIOUS
  <2> HIDE DEF h
  <2> QED
    BY <1>4, <2>1 DEF IsDeep
<1>6. DeepValues(g) = CHOOSE v : IsDeep(g, v)
  BY DEF DeepValues, IsDeep, DeepLook, Depths
<1> HIDE DEF h
<1>7. IsDeep(g, DeepValues(g))
  BY <1>5, <1>6
<1> DEFINE v == DeepValues(g)
<1>8. \A d \in Depths : v[d] = DeepLook(g, v[d - 1], d)
  BY <1>7 DEF IsDeep
<1> HIDE DEF v
<1>9. \A d \in Depths : v[d] \in S
  <2> DEFINE G == {n \in Nat : n \in Depths => v[n] \in S}
  <2>1. 0 \in G
    <3>1. DeepLook(g, v[0 - 1], 0) \in S
      BY DeepLookWorth, DepthFacts
    <3> QED
      BY <1>8, <3>1, DepthFacts
  <2>2. ASSUME NEW n \in Nat, n \in G
        PROVE  n + 1 \in G
    <3> SUFFICES ASSUME n + 1 \in Depths PROVE v[n + 1] \in S
      OBVIOUS
    <3>1. (n + 1) - 1 = n /\ n \in Depths
      BY DepthFacts
    <3>2. v[n] \in [Lines -> Worths]
      BY <2>2, <3>1
    <3>3. DeepLook(g, v[n], n + 1) \in S
      BY <3>2, DeepLookWorth
    <3>4. v[n + 1] = DeepLook(g, v[n], n + 1)
      BY <1>8, <3>1
    <3> QED
      BY <3>3, <3>4
  <2>3. Nat \subseteq G
    <3> HIDE DEF G
    <3> QED
      BY <2>1, <2>2, AllNumbers
  <2> QED
    BY <2>3, DepthFacts
<1> QED
  BY <1>8, <1>9 DEF v

ValueOf(g, d) == [line \in Lines |-> Value(g, line, d)]

\* The value of a search is that of the best move.
LEMMA ValueEquation ==
    ASSUME NEW g \in Games, NEW line \in Lines, NEW d \in Int
    PROVE  /\ Value(g, line, d) \in Worths
           /\ d <= 0 \/ d >= MAXDEPTH => Value(g, line, d) = QuietValue(g, line)
           /\ d \in 1 .. (MAXDEPTH - 1) =>
                Value(g, line, d)
                  = IF RepeatedIn(line) THEN 0
                    ELSE IF Legal(g.moves[Last(line)]) # {}
                    THEN Largest(Gains(ValueOf(g, d - 1), line, g.moves[Last(line)]))
                    ELSE IF Last(line) \in g.inCheck THEN -MATE - d ELSE 0
<1>1. CASE d <= 0 \/ d >= MAXDEPTH
  <2>1. ~(d \in 1 .. (MAXDEPTH - 1))
    BY <1>1, DepthFacts
  <2>2. Value(g, line, d) = QuietValue(g, line)
    BY <1>1 DEF Value
  <2> QED
    BY <2>1, <2>2, QuietEquation
<1>2. CASE ~(d <= 0 \/ d >= MAXDEPTH)
  <2> DEFINE v == DeepValues(g)
             p == Last(line)
  <2>1. d \in Depths /\ d - 1 \in Depths /\ 0 \in Depths /\ d # 0 /\ d - 1 \in Nat
    BY <1>2, DepthFacts
  <2>2. Value(g, line, d) = v[d][line]
    BY <1>2 DEF Value
  <2>3. v[d] \in [Lines -> Worths] /\ v[d] = DeepLook(g, v[d - 1], d)
        /\ v[0] = DeepLook(g, v[0 - 1], 0)
    BY <2>1, DeepRecursion
  <2>4. ASSUME NEW ln \in Lines
        PROVE  v[d - 1][ln] = ValueOf(g, d - 1)[ln]
    <3>1. ValueOf(g, d - 1)[ln] = Value(g, ln, d - 1)
      BY DEF ValueOf
    <3>2. CASE d - 1 = 0
      <4> HIDE DEF v
      <4>1. v[0][ln] = QuietValue(g, ln)
        BY <2>3 DEF DeepLook
      <4>2. Value(g, ln, d - 1) = QuietValue(g, ln)
        BY <3>2 DEF Value
      <4> QED
        BY <3>1, <3>2, <4>1, <4>2
    <3>3. CASE d - 1 # 0
      <4>1. ~(d - 1 <= 0 \/ d - 1 >= MAXDEPTH)
        BY <1>2, <2>1, <3>3, DepthFacts
      <4> QED
        BY <3>1, <4>1 DEF Value
    <3> QED
      BY <3>2, <3>3
  <2> HIDE DEF v
  <2>5. Gains(v[d - 1], line, g.moves[p]) = Gains(ValueOf(g, d - 1), line, g.moves[p])
    <3>1. ASSUME NEW m \in Legal(g.moves[p])
          PROVE  v[d - 1][Append(line, m.to)] = ValueOf(g, d - 1)[Append(line, m.to)]
      <4>1. Append(line, m.to) \in Lines
        BY LineFacts, GameFacts DEF Legal
      <4> QED
        BY <2>4, <4>1
    <3> QED
      BY <3>1, GainsSame
  <2>6. v[d][line] = IF RepeatedIn(line) THEN 0
                     ELSE IF Legal(g.moves[p]) # {}
                     THEN Largest(Gains(v[d - 1], line, g.moves[p]))
                     ELSE IF p \in g.inCheck THEN -MATE - d ELSE 0
    BY <2>1, <2>3 DEF DeepLook
  <2>7. v[d][line] \in Worths
    BY <2>3
  <2> QED
    BY <1>2, <2>2, <2>5, <2>6, <2>7
<1> QED
  BY <1>1, <1>2

----------------------------------------------------------------------------
(* What the calls have found out.                                          *)

\* The moves that a call looks at, and what it is to find: the value of the
\* last position of line.
Gen(g, f, line) ==
    IF f.quiet THEN {m \in g.moves[Last(line)] : m.capture} ELSE g.moves[Last(line)]

Goal(g, f, line) ==
    IF f.quiet THEN QuietValue(g, line) ELSE Value(g, line, f.depth)

\* What a move is worth to the one who makes it.
Gain(g, f, line, m) == -Goal(g, ChildCall(f), Append(line, m.to))

\* A value that is not inside the window may be told by any number beyond the
\* same end.
Tells(told, value, alpha, beta) ==
    \/ told = value
    \/ told <= alpha /\ value <= alpha
    \/ told >= beta /\ value >= beta

\* A call in its loop, when open are the moves that it has not judged: the
\* others gain at most alpha, and alpha has not been raised beyond what
\* standing pat or the best move gains.
Judged(g, f, line, open) ==
    /\ ~RepeatedIn(line)
    /\ ~f.quiet => f.depth \in 1 .. (MAXDEPTH - 1)
    /\ open \subseteq Gen(g, f, line)
    /\ IF f.movesMade = 0 THEN Legal(Gen(g, f, line)) \subseteq open
                          ELSE Legal(Gen(g, f, line)) # {}
    /\ \A m \in Legal(Gen(g, f, line)) \ open : Gain(g, f, line, m) <= f.alpha
    /\ f.quiet => g.eval[Last(line)] <= f.alpha
    /\ f.oldAlpha <= f.alpha
    /\ f.alpha # f.oldAlpha =>
          \/ f.quiet /\ f.alpha = g.eval[Last(line)]
          \/ f.best \in Legal(Gen(g, f, line)) /\ Gain(g, f, line, f.best) = f.alpha

\* c is the call that f has made for a move, with the window turned round.
Called(f, c) ==
    /\ c.oldAlpha = -f.beta /\ c.beta = -f.alpha /\ c.depth = f.depth - 1
    /\ f.quiet => c.quiet
    /\ c.quiet => f.quiet \/ c.depth <= 0 \/ c.depth >= MAXDEPTH

\* A call is to find a worth, and its moves gain worths.
LEMMA GoalWorth ==
    ASSUME NEW g \in Games, NEW f \in Calls, NEW line \in Lines
    PROVE  /\ Goal(g, f, line) \in Worths
           /\ Gen(g, f, line) \subseteq g.moves[Last(line)]
           /\ \A m \in Gen(g, f, line) :
                 /\ m \in Moves /\ Append(line, m.to) \in Lines
                 /\ Goal(g, ChildCall(f), Append(line, m.to)) \in Worths
                 /\ Gain(g, f, line, m) \in Worths
<1>1. \A ln \in Lines : \A c \in Calls : Goal(g, c, ln) \in Worths
  <2> SUFFICES ASSUME NEW ln \in Lines, NEW c \in Calls
               PROVE  Goal(g, c, ln) \in Worths
    OBVIOUS
  <2>1. c.depth \in Int
    BY DEF Calls
  <2> QED
    BY <2>1, QuietEquation, ValueEquation DEF Goal
<1>2. Gen(g, f, line) \subseteq g.moves[Last(line)]
  BY DEF Gen
<1>3. ASSUME NEW m \in Gen(g, f, line)
      PROVE  /\ m \in Moves /\ Append(line, m.to) \in Lines
             /\ Goal(g, ChildCall(f), Append(line, m.to)) \in Worths
             /\ Gain(g, f, line, m) \in Worths
  <2>1. m \in Moves /\ Append(line, m.to) \in Lines
    BY <1>2, LineFacts, GameFacts
  <2>2. Goal(g, ChildCall(f), Append(line, m.to)) \in Worths
    <3>1. f.depth \in Int /\ f.quiet \in BOOLEAN
      BY DEF Calls
    <3>2. Goal(g, ChildCall(f), Append(line, m.to))
            = IF f.quiet THEN QuietValue(g, Append(line, m.to))
              ELSE Value(g, Append(line, m.to), f.depth - 1)
      BY DEF Goal, ChildCall, Call
    <3>3. f.depth - 1 \in Int
      BY <3>1
    <3> QED
      BY <2>1, <3>2, <3>3, QuietEquation, ValueEquation
  <2> QED
    BY <2>1, <2>2, WorthFacts DEF Gain
<1> QED
  BY <1>1, <1>2, <1>3

\* What the moves of a call gain, in terms of the values of lines.
LEMMA GainSet ==
    ASSUME NEW g \in Games, NEW f \in Calls, NEW line \in Lines
    PROVE  /\ f.quiet => {Gain(g, f, line, m) : m \in Legal(Gen(g, f, line))}
                            = Gains(QuietOf(g), line, CapturesFrom(g, Last(line)))
           /\ ~f.quiet => {Gain(g, f, line, m) : m \in Legal(Gen(g, f, line))}
                            = Gains(ValueOf(g, f.depth - 1), line, g.moves[Last(line)])
<1> DEFINE moves == Legal(Gen(g, f, line))
<1>1. ASSUME NEW m \in moves
      PROVE  Append(line, m.to) \in Lines
  BY GoalWorth DEF Legal
<1>2. ASSUME f.quiet, NEW m \in moves
      PROVE  Gain(g, f, line, m) = -QuietOf(g)[Append(line, m.to)]
  BY <1>1, <1>2 DEF Gain, Goal, ChildCall, Call, QuietOf
<1>3. ASSUME ~f.quiet, NEW m \in moves
      PROVE  Gain(g, f, line, m) = -ValueOf(g, f.depth - 1)[Append(line, m.to)]
  BY <1>1, <1>3 DEF Gain, Goal, ChildCall, Call, ValueOf
<1>4. /\ f.quiet => moves = Legal(CapturesFrom(g, Last(line)))
      /\ ~f.quiet => moves = Legal(g.moves[Last(line)])
  BY DEF Gen, CapturesFrom
<1> HIDE DEF moves
<1>5. f.quiet => {Gain(g, f, line, m) : m \in moves}
                    = Gains(QuietOf(g), line, CapturesFrom(g, Last(line)))
  BY <1>2, <1>4 DEF Gains
<1>6. ~f.quiet => {Gain(g, f, line, m) : m \in moves}
                    = Gains(ValueOf(g, f.depth - 1), line, g.moves[Last(line)])
  BY <1>3, <1>4 DEF Gains
<1> QED
  BY <1>5, <1>6 DEF moves

Within(f) == ~f.quiet => f.depth \in 1 .. (MAXDEPTH - 1)

Mate(g, f, line) == IF Last(line) \in g.inCheck THEN -MATE - f.depth ELSE 0

\* What a call is to find is what standing pat or the best move gains, or mate.
LEMMA GoalBest ==
    ASSUME NEW g \in Games, NEW f \in Calls, NEW line \in Lines,
           ~RepeatedIn(line), Within(f)
    PROVE  LET goal == Goal(g, f, line)
               stand == g.eval[Last(line)]
               moves == Legal(Gen(g, f, line))
           IN  /\ \A m \in moves : Gain(g, f, line, m) <= goal
               /\ f.quiet => stand \in Worths /\ stand <= goal
               /\ \/ f.quiet /\ goal = stand
                  \/ \E m \in moves : goal = Gain(g, f, line, m)
                  \/ ~f.quiet /\ moves = {} /\ goal = Mate(g, f, line)
<1> DEFINE goal == Goal(g, f, line)
           stand == g.eval[Last(line)]
           moves == Legal(Gen(g, f, line))
           gains == {Gain(g, f, line, m) : m \in moves}
<1>1. f.quiet \in BOOLEAN /\ f.depth \in Int /\ stand \in Worths
  BY LineFacts, GameFacts DEF Calls
<1>2. gains \in SUBSET Worths
  BY GoalWorth DEF Legal
<1>3. CASE f.quiet
  <2> DEFINE all == {stand} \cup gains
  <2>1. goal = Largest(all)
    BY <1>3, GainSet, QuietEquation DEF Goal
  <2>2. all \in SUBSET Worths /\ all # {}
    BY <1>1, <1>2
  <2>3. goal \in all /\ \A y \in all : y <= goal
    <3> HIDE DEF all, goal
    <3> QED
      BY <2>1, <2>2, LargestOf
  <2>4. goal = stand \/ \E m \in moves : goal = Gain(g, f, line, m)
    <3> HIDE DEF goal, stand, moves
    <3> QED
      BY <2>3
  <2>5. stand <= goal /\ \A m \in moves : Gain(g, f, line, m) <= goal
    <3> HIDE DEF goal, stand, moves
    <3> QED
      BY <2>3
  <2> HIDE DEF goal, stand, moves
  <2> QED
    BY <1>1, <1>3, <2>4, <2>5 DEF goal, stand, moves
<1>4. CASE ~f.quiet
  <2>1. f.depth \in 1 .. (MAXDEPTH - 1) /\ goal = Value(g, line, f.depth)
    BY <1>4 DEF Goal, Within
  <2>2. moves = Legal(g.moves[Last(line)])
    BY <1>4 DEF Gen
  <2>3. goal = IF moves # {} THEN Largest(gains) ELSE Mate(g, f, line)
    BY <1>1, <1>4, <2>1, <2>2, GainSet, ValueEquation DEF Mate
  <2> HIDE DEF goal, stand, moves
  <2>4. CASE moves = {}
    BY <1>4, <2>3, <2>4 DEF goal, stand, moves
  <2>5. CASE moves # {}
    <3>1. gains # {}
      BY <2>5
    <3>2. goal \in gains /\ \A y \in gains : y <= goal
      <4> HIDE DEF gains
      <4> QED
        BY <1>2, <2>3, <2>5, <3>1, LargestOf
    <3>3. \E m \in moves : goal = Gain(g, f, line, m)
      BY <3>2
    <3>4. \A m \in moves : Gain(g, f, line, m) <= goal
      BY <3>2
    <3> QED
      BY <1>4, <3>3, <3>4 DEF goal, stand, moves
  <2> QED
    BY <2>4, <2>5
<1> QED
  BY <1>1, <1>3, <1>4

\* When all moves have been judged, alpha tells the value.
LEMMA EndTells ==
    ASSUME NEW g \in Games, NEW f \in Calls, NEW line \in Lines, Judged(g, f, line, {}),
           f.quiet \/ f.movesMade # 0
    PROVE  Tells(f.alpha, Goal(g, f, line), f.oldAlpha, f.beta)
<1> DEFINE goal == Goal(g, f, line)
           stand == g.eval[Last(line)]
           moves == Legal(Gen(g, f, line))
<1>1. ~RepeatedIn(line) /\ Within(f)
  BY DEF Judged, Within
<1>2. /\ \A m \in moves : Gain(g, f, line, m) <= goal
      /\ f.quiet => stand \in Worths /\ stand <= goal
      /\ \/ f.quiet /\ goal = stand
         \/ \E m \in moves : goal = Gain(g, f, line, m)
         \/ ~f.quiet /\ moves = {} /\ goal = Mate(g, f, line)
  BY <1>1, GoalBest
<1>3. /\ \A m \in moves : Gain(g, f, line, m) <= f.alpha
      /\ f.quiet => stand <= f.alpha
      /\ f.movesMade # 0 => moves # {}
      /\ f.oldAlpha <= f.alpha
      /\ f.alpha # f.oldAlpha =>
            \/ f.quiet /\ f.alpha = stand
            \/ f.best \in moves /\ Gain(g, f, line, f.best) = f.alpha
  BY DEF Judged
<1>4. f.alpha \in Int /\ f.oldAlpha \in Int /\ goal \in Int
  BY GoalWorth, WorthFacts DEF Calls
<1> HIDE DEF goal, stand, moves
<1>5. goal <= f.alpha
  BY <1>2, <1>3
<1>6. CASE f.alpha = f.oldAlpha
  BY <1>4, <1>5, <1>6 DEF Tells, goal
<1>7. CASE f.alpha # f.oldAlpha
  <2>1. f.alpha <= goal
    BY <1>2, <1>3, <1>7
  <2>2. f.alpha = goal
    BY <1>4, <1>5, <2>1
  <2> QED
    BY <2>2 DEF Tells, goal
<1> QED
  BY <1>6, <1>7

\* Without a move it is mate or stalemate.
LEMMA EndMates ==
    ASSUME NEW g \in Games, NEW f \in Calls, NEW line \in Lines, Judged(g, f, line, {}),
           ~f.quiet, f.movesMade = 0
    PROVE  Goal(g, f, line) = Mate(g, f, line)
<1>1. ~RepeatedIn(line) /\ Within(f) /\ Legal(Gen(g, f, line)) = {}
  BY DEF Judged, Within
<1> QED
  BY <1>1, GoalBest

\* What Enter finds before the loop: a repetition is worth nothing, and the
\* depth may be used up.
LEMMA EnterGoal ==
    ASSUME NEW g \in Games, NEW f \in Calls, NEW line \in Lines
    PROVE  /\ RepeatedIn(line) => Goal(g, f, line) = 0
           /\ f.quiet \/ f.depth <= 0 \/ f.depth >= MAXDEPTH =>
                Goal(g, f, line) = QuietValue(g, line)
<1>1. f.depth \in Int /\ f.quiet \in BOOLEAN
  BY DEF Calls
<1>2. f.quiet \/ f.depth <= 0 \/ f.depth >= MAXDEPTH => Goal(g, f, line) = QuietValue(g, line)
  BY <1>1, ValueEquation DEF Goal
<1>3. ASSUME RepeatedIn(line)
      PROVE  Goal(g, f, line) = 0
  <2>1. QuietValue(g, line) = 0
    BY <1>3, QuietEquation
  <2>2. CASE f.quiet \/ f.depth <= 0 \/ f.depth >= MAXDEPTH
    BY <1>2, <2>1, <2>2
  <2>3. CASE ~(f.quiet \/ f.depth <= 0 \/ f.depth >= MAXDEPTH)
    <3>1. f.depth \in 1 .. (MAXDEPTH - 1)
      BY <1>1, <2>3, DepthFacts
    <3> QED
      BY <1>1, <1>3, <2>3, <3>1, ValueEquation DEF Goal
  <2> QED
    BY <2>2, <2>3
<1> QED
  BY <1>2, <1>3

\* A call that starts its loop has judged nothing but standing pat, and one
\* that does not has nothing more to find out.
LEMMA EnterJudged ==
    ASSUME NEW g \in Games, NEW f \in Calls, NEW line \in Lines, ~RepeatedIn(line),
           f.alpha = f.oldAlpha, f.movesMade = 0,
           NEW quiet, quiet = (f.quiet \/ f.depth <= 0 \/ f.depth >= MAXDEPTH),
           NEW alpha, alpha = (IF quiet /\ g.eval[Last(line)] > f.alpha
                               THEN g.eval[Last(line)] ELSE f.alpha),
           NEW h \in Calls, h.quiet = quiet, h.alpha = alpha, h.oldAlpha = f.oldAlpha,
           h.depth = f.depth, h.movesMade = 0,
           h.moves = (IF quiet THEN CapturesFrom(g, Last(line)) ELSE g.moves[Last(line)])
    PROVE  /\ Judged(g, h, line, h.moves)
           /\ quiet /\ g.eval[Last(line)] >= f.beta =>
                Tells(f.beta, Goal(g, f, line), f.oldAlpha, f.beta)
<1> DEFINE stand == g.eval[Last(line)]
<1>1. /\ f.depth \in Int /\ f.quiet \in BOOLEAN /\ f.alpha \in Int /\ f.beta \in Int
      /\ stand \in Int
  BY LineFacts, GameFacts, WorthFacts DEF Calls
<1>2. Within(h)
  <2> SUFFICES ASSUME ~h.quiet PROVE h.depth \in 1 .. (MAXDEPTH - 1)
    BY DEF Within
  <2>1. ~(f.depth <= 0) /\ ~(f.depth >= MAXDEPTH) /\ h.depth = f.depth
    OBVIOUS
  <2> QED
    BY <1>1, <2>1, DepthFacts
<1>3. h.moves = Gen(g, h, line)
  BY DEF Gen, CapturesFrom
<1>4. Judged(g, h, line, h.moves)
  <2>1. f.oldAlpha <= h.alpha /\ (quiet => stand <= h.alpha)
    BY <1>1
  <2>2. h.alpha # h.oldAlpha => h.quiet /\ h.alpha = stand
    OBVIOUS
  <2>3. Legal(Gen(g, h, line)) \subseteq h.moves
    BY <1>3 DEF Legal
  <2> HIDE DEF stand
  <2> QED
    BY <1>2, <1>3, <2>1, <2>2, <2>3 DEF Judged, Within, stand
<1>5. ASSUME quiet, stand >= f.beta
      PROVE  Tells(f.beta, Goal(g, f, line), f.oldAlpha, f.beta)
  <2>1. Goal(g, f, line) = Goal(g, h, line)
    BY <1>5, EnterGoal DEF Goal
  <2>2. stand <= Goal(g, h, line)
    BY <1>2, <1>5, GoalBest
  <2>3. Goal(g, f, line) \in Int
    BY GoalWorth, WorthFacts
  <2>4. Goal(g, f, line) >= f.beta
    <3> HIDE DEF stand
    <3> QED
      BY <1>1, <1>5, <2>1, <2>2, <2>3
  <2> QED
    BY <1>1, <2>4 DEF Tells
<1> QED
  BY <1>4, <1>5

\* Moves that are not legal need not be judged.
LEMMA JudgedOf ==
    ASSUME NEW g \in Games, NEW f \in Calls, NEW line \in Lines, NEW open,
           Judged(g, f, line, open),
           NEW h \in Calls, h.quiet = f.quiet, h.depth = f.depth, h.alpha = f.alpha,
           h.oldAlpha = f.oldAlpha, h.best = f.best,
           NEW rest, rest \subseteq open, Legal(open \ rest) = {},
           \/ h.movesMade = f.movesMade
           \/ h.movesMade # 0 /\ Legal(Gen(g, f, line)) # {}
    PROVE  Judged(g, h, line, rest)
<1>1. Gen(g, h, line) = Gen(g, f, line) /\ \A m : Gain(g, h, line, m) = Gain(g, f, line, m)
  BY DEF Gen, Gain, Goal, ChildCall, Call
<1> DEFINE moves == Gen(g, f, line)
<1>2. \A m \in Legal(moves) : m \in open => m \in rest
  BY DEF Legal
<1> HIDE DEF moves
<1>3. Legal(moves) \ rest \subseteq Legal(moves) \ open
  BY <1>2
<1>4. /\ ~RepeatedIn(line)
      /\ ~f.quiet => f.depth \in 1 .. (MAXDEPTH - 1)
      /\ open \subseteq moves
      /\ IF f.movesMade = 0 THEN Legal(moves) \subseteq open ELSE Legal(moves) # {}
      /\ \A m \in Legal(moves) \ open : Gain(g, f, line, m) <= f.alpha
      /\ f.quiet => g.eval[Last(line)] <= f.alpha
      /\ f.oldAlpha <= f.alpha
      /\ f.alpha # f.oldAlpha =>
            \/ f.quiet /\ f.alpha = g.eval[Last(line)]
            \/ f.best \in Legal(moves) /\ Gain(g, f, line, f.best) = f.alpha
  BY DEF Judged, moves
<1>5. IF h.movesMade = 0 THEN Legal(moves) \subseteq rest ELSE Legal(moves) # {}
  BY <1>2, <1>4 DEF moves
<1>6. \A m \in Legal(moves) \ rest : Gain(g, f, line, m) <= f.alpha
  BY <1>3, <1>4
<1> QED
  BY <1>1, <1>4, <1>5, <1>6 DEF Judged, moves

\* What a move has told is compared with the window.
LEMMA CompareJudged ==
    ASSUME NEW g \in Games, NEW f \in Calls, NEW line \in Lines, NEW open,
           Judged(g, f, line, open), f.movesMade # 0, f.alpha < f.beta,
           NEW m \in Legal(Gen(g, f, line)), NEW told \in Int,
           Tells(told, Goal(g, ChildCall(f), Append(line, m.to)), -f.beta, -f.alpha)
    PROVE  /\ -told > f.alpha /\ -told >= f.beta =>
                Tells(f.beta, Goal(g, f, line), f.oldAlpha, f.beta)
           /\ ~(-told > f.alpha) => Judged(g, f, line, open \ {m})
           /\ \A h \in Calls :
                /\ -told > f.alpha /\ ~(-told >= f.beta)
                /\ h.quiet = f.quiet /\ h.depth = f.depth /\ h.alpha = -told
                /\ h.oldAlpha = f.oldAlpha /\ h.best = m /\ h.movesMade = f.movesMade
                => Judged(g, h, line, open \ {m})
<1> DEFINE goal == Goal(g, f, line)
           moves == Gen(g, f, line)
           gain == Gain(g, f, line, m)
           value == Goal(g, ChildCall(f), Append(line, m.to))
           stand == g.eval[Last(line)]
<1>1. gain = -value /\ gain \in Int /\ goal \in Int
  BY GoalWorth, WorthFacts DEF Gain, Legal
<1>2. value \in Int
  BY GoalWorth, WorthFacts DEF Legal
<1>3. f.alpha \in Int /\ f.beta \in Int /\ f.oldAlpha \in Int
  BY DEF Calls
<1>4. /\ ~RepeatedIn(line)
      /\ ~f.quiet => f.depth \in 1 .. (MAXDEPTH - 1)
      /\ open \subseteq moves
      /\ Legal(moves) # {}
      /\ \A x \in Legal(moves) \ open : Gain(g, f, line, x) <= f.alpha
      /\ f.quiet => stand <= f.alpha
      /\ f.oldAlpha <= f.alpha
      /\ f.alpha # f.oldAlpha =>
            \/ f.quiet /\ f.alpha = stand
            \/ f.best \in Legal(moves) /\ Gain(g, f, line, f.best) = f.alpha
  BY DEF Judged
<1>5. Within(f)
  BY <1>4 DEF Within
<1>6. gain <= goal
  BY <1>4, <1>5, GoalBest
<1>7. Tells(told, value, -f.beta, -f.alpha)
  OBVIOUS
<1> HIDE DEF goal, gain, value
<1>8. ASSUME -told > f.alpha, -told >= f.beta
      PROVE  Tells(f.beta, goal, f.oldAlpha, f.beta)
  <2>1. gain >= f.beta
    BY <1>1, <1>2, <1>3, <1>7, <1>8 DEF Tells
  <2> QED
    BY <1>1, <1>3, <1>6, <2>1 DEF Tells
<1>9. ASSUME ~(-told > f.alpha)
      PROVE  Judged(g, f, line, open \ {m})
  <2>1. gain <= f.alpha
    BY <1>1, <1>2, <1>3, <1>7, <1>9 DEF Tells
  <2>2. \A x \in Legal(moves) \ (open \ {m}) : Gain(g, f, line, x) <= f.alpha
    BY <1>4, <2>1 DEF gain
  <2> HIDE DEF moves, stand
  <2> QED
    BY <1>4, <2>2 DEF Judged, moves, stand
<1>10. ASSUME NEW h \in Calls, -told > f.alpha, ~(-told >= f.beta),
              h.quiet = f.quiet, h.depth = f.depth, h.alpha = -told,
              h.oldAlpha = f.oldAlpha, h.best = m, h.movesMade = f.movesMade
       PROVE  Judged(g, h, line, open \ {m})
  <2>1. told = value
    BY <1>1, <1>2, <1>3, <1>7, <1>10 DEF Tells
  <2>2. gain = h.alpha /\ f.alpha < h.alpha /\ h.alpha \in Int
    BY <1>1, <1>3, <1>10, <2>1
  <2>3. Gen(g, h, line) = moves /\ \A x : Gain(g, h, line, x) = Gain(g, f, line, x)
    BY <1>10 DEF Gen, Gain, Goal, ChildCall, Call
  <2>4. ASSUME NEW x \in Legal(moves) \ (open \ {m})
        PROVE  Gain(g, f, line, x) <= h.alpha
    <3>1. CASE x = m
      BY <2>2, <3>1 DEF gain
    <3>2. CASE x # m
      <4>1. Gain(g, f, line, x) <= f.alpha /\ Gain(g, f, line, x) \in Int
        <5>1. x \in moves /\ x \in Legal(moves) \ open
          BY <3>2 DEF Legal
        <5> QED
          BY <1>4, <5>1, GoalWorth, WorthFacts
      <4> QED
        BY <1>3, <2>2, <4>1
    <3> QED
      BY <3>1, <3>2
  <2>5. f.quiet => stand <= h.alpha
    <3>1. stand \in Int
      BY LineFacts, GameFacts, WorthFacts
    <3> HIDE DEF stand
    <3> QED
      BY <1>3, <1>4, <2>2, <3>1
  <2>6. f.oldAlpha <= h.alpha
    BY <1>3, <1>4, <2>2
  <2>7. h.best \in Legal(moves) /\ Gain(g, f, line, h.best) = h.alpha
    BY <1>10, <2>2 DEF gain
  <2> HIDE DEF moves, stand
  <2> QED
    BY <1>4, <1>10, <2>3, <2>4, <2>5, <2>6, <2>7 DEF Judged, moves, stand
<1> QED
  BY <1>8, <1>9, <1>10 DEF goal

----------------------------------------------------------------------------
(* The search is right at every moment.                                    *)

\* The line whose last position the k-th call searches.
LineAt(k) == [i \in 1 .. k |-> PosOf(i)]

\* The moves whose calls are active.
Trying(k) == IF k < Len(stack) \/ pc = "returned" THEN {stack[k].tried} ELSE {}

LoopsInv ==
    \A k \in 1 .. Len(stack) :
        k < Len(stack) \/ pc # "called" =>
            /\ Judged(game, stack[k], LineAt(k), stack[k].moves \cup Trying(k))
            /\ Trying(k) = {} \/ stack[k].tried \notin stack[k].moves

\* The calls and the moves between them.
LinksInv ==
    /\ \A k \in 1 .. (Len(stack) - 1) : Called(stack[k], stack[k + 1])
    /\ \A k \in 1 .. Len(history) :
          k <= Len(stack) => PosOf(k + 1) = stack[k].tried.to /\ stack[k].movesMade # 0
    /\ stack # << >> =>
          /\ stack[1].oldAlpha = -INFINITE /\ stack[1].beta = INFINITE
          /\ stack[1].depth = searchDepth
          /\ stack[1].quiet => searchDepth >= MAXDEPTH

\* A call that has just been made, one that goes on though the clock has run
\* out, and what one that has returned has told.
StageInv ==
    /\ pc = "called" => top.alpha = top.oldAlpha /\ top.movesMade = 0
    /\ pc = "loop" /\ stop => top.movesMade = 0
    /\ pc = "returned" /\ ~stop =>
          IF stack = << >> THEN result = Value(game, Root, searchDepth)
          ELSE Tells(result, Goal(game, ChildCall(top), LineAt(Len(stack) + 1)),
                     -top.beta, -top.alpha)

ScoreInv == searchDepth > 1 => score = Value(game, Root, searchDepth - 1)

SearchInv == LoopsInv /\ LinksInv /\ StageInv /\ ScoreInv

\* The lines of play.
LEMMA LineAtFacts ==
    ASSUME Inv
    PROVE  /\ Len(history) \in Nat
           /\ \A k \in 1 .. (Len(history) + 1) :
                 /\ LineAt(k) \in Lines /\ Len(LineAt(k)) = k /\ Last(LineAt(k)) = PosOf(k)
                 /\ PosOf(k) \in Positions
           /\ \A k \in 1 .. Len(history) : LineAt(k + 1) = Append(LineAt(k), PosOf(k + 1))
           /\ LineAt(1) = Root /\ Root \in Lines
<1>1. history \in Seq(Positions) /\ pos \in Positions /\ Len(history) \in Nat
  BY LenProperties DEF Inv, TypeInv
<1>2. \A k \in 1 .. (Len(history) + 1) : PosOf(k) \in Positions
  BY <1>1 DEF PosOf
<1>3. ASSUME NEW k \in 1 .. (Len(history) + 1)
      PROVE  /\ LineAt(k) \in Lines /\ Len(LineAt(k)) = k /\ Last(LineAt(k)) = PosOf(k)
             /\ LineAt(k) \in Seq(Positions) /\ LineAt(k)[k] = PosOf(k)
  <2>1. k \in Nat /\ k # 0 /\ \A i \in 1 .. k : PosOf(i) \in Positions
    BY <1>1, <1>2
  <2>2. LineAt(k) \in Seq(Positions) /\ Len(LineAt(k)) = k /\ LineAt(k)[k] = PosOf(k)
    <3> HIDE DEF PosOf
    <3> QED
      BY <2>1 DEF LineAt
  <2>3. LineAt(k) # << >>
    BY <2>1, <2>2
  <2> QED
    BY <2>2, <2>3 DEF Lines, Last
<1>4. ASSUME NEW k \in 1 .. Len(history)
      PROVE  LineAt(k + 1) = Append(LineAt(k), PosOf(k + 1))
  <2> DEFINE s == LineAt(k)
             t == LineAt(k + 1)
             p == PosOf(k + 1)
  <2>1. k \in Nat /\ k \in 1 .. (Len(history) + 1) /\ k + 1 \in 1 .. (Len(history) + 1)
    BY <1>1
  <2>2. s \in Seq(Positions) /\ Len(s) = k /\ t \in Seq(Positions) /\ Len(t) = k + 1
    BY <1>3, <2>1
  <2>3. p \in Positions /\ t[k + 1] = p /\ \A i \in 1 .. k : t[i] = s[i]
    BY <1>2, <2>1 DEF LineAt
  <2> HIDE DEF s, t, p
  <2>4. /\ Append(s, p) \in Seq(Positions) /\ Len(Append(s, p)) = k + 1
        /\ \A i \in 1 .. k : Append(s, p)[i] = s[i]
        /\ Append(s, p)[k + 1] = p
    BY <2>2, <2>3, AppendProperties
  <2>5. \A i \in 1 .. (k + 1) : t[i] = Append(s, p)[i]
    BY <2>1, <2>3, <2>4
  <2> QED
    BY <2>2, <2>4, <2>5, SeqEqual DEF s, t, p
<1>5. LineAt(1) = Root
  <2>1. PosOf(1) = game.root
    <3>1. CASE history = << >>
      <4>1. Len(history) = 0 /\ pos = game.root
        BY <3>1 DEF Inv, PlyInv
      <4> QED
        BY <4>1 DEF PosOf
    <3>2. CASE history # << >>
      <4>1. Len(history) >= 1
        BY <1>1, <3>2, EmptySeq
      <4> QED
        BY <3>2, <4>1 DEF PosOf, Inv, PlyInv
    <3> QED
      BY <3>1, <3>2
  <2>2. 1 \in 1 .. (Len(history) + 1)
    BY <1>1
  <2>3. LineAt(1) \in Seq(Positions) /\ Len(LineAt(1)) = 1 /\ LineAt(1)[1] = game.root
    BY <1>3, <2>1, <2>2
  <2>4. game.root \in Positions
    BY GamesAssumption DEF Inv, TypeInv
  <2>5. Root \in Seq(Positions) /\ Len(Root) = 1 /\ Root[1] = game.root
    BY <2>4 DEF Root
  <2>6. \A i \in 1 .. 1 : LineAt(1)[i] = Root[i]
    BY <2>3, <2>5
  <2> QED
    BY <2>3, <2>5, <2>6, SeqEqual
<1>6. Root \in Lines
  <2>1. 1 \in 1 .. (Len(history) + 1)
    BY <1>1
  <2> QED
    BY <1>3, <1>5, <2>1
<1> QED
  BY <1>1, <1>2, <1>3, <1>4, <1>5, <1>6

\* The engine finds a repetition where there is one.
LEMMA RepeatedLine ==
    ASSUME Inv
    PROVE  Repeated <=> RepeatedIn(LineAt(Len(history) + 1))
<1> DEFINE n == Len(history)
           line == LineAt(n + 1)
<1>1. history \in Seq(Positions) /\ n \in Nat /\ DOMAIN history = 1 .. n
  BY LenProperties DEF Inv, TypeInv
<1>2. Len(line) = n + 1 /\ Last(line) = pos
  <2>1. n + 1 \in 1 .. (Len(history) + 1)
    BY <1>1
  <2>2. PosOf(n + 1) = pos
    BY <1>1 DEF PosOf
  <2> QED
    BY <2>1, <2>2, LineAtFacts
<1>3. \A i \in 1 .. n : line[i] = history[i]
  BY <1>1 DEF LineAt, PosOf
<1> HIDE DEF n, line
<1>4. RepeatedIn(line) <=> \E i, j \in 1 .. n : i < j /\ history[i] = pos /\ history[j] = pos
  BY <1>1, <1>2, <1>3 DEF RepeatedIn
<1>5. Repeated <=> \E i, j \in 1 .. n : i # j /\ history[i] = pos /\ history[j] = pos
  BY <1>1 DEF Repeated
<1>6. \A i, j \in 1 .. n : i # j <=> i < j \/ j < i
  BY <1>1
<1> QED
  BY <1>4, <1>5, <1>6 DEF n, line

\* A call for a move is to find what the move gains.
LEMMA CalledGoal ==
    ASSUME NEW g \in Games, NEW f \in Calls, NEW c \in Calls, NEW line \in Lines, Called(f, c)
    PROVE  Goal(g, c, line) = Goal(g, ChildCall(f), line)
<1>1. ChildCall(f).depth = f.depth - 1 /\ ChildCall(f).quiet = f.quiet
  BY DEF ChildCall, Call
<1>2. c.depth = f.depth - 1 /\ c.depth \in Int /\ (f.quiet => c.quiet)
      /\ (c.quiet => f.quiet \/ c.depth <= 0 \/ c.depth >= MAXDEPTH)
  BY DEF Called, Calls
<1>3. CASE f.quiet
  BY <1>1, <1>2, <1>3 DEF Goal
<1>4. CASE ~f.quiet /\ ~c.quiet
  BY <1>1, <1>2, <1>4 DEF Goal
<1>5. CASE ~f.quiet /\ c.quiet
  BY <1>1, <1>2, <1>5, ValueEquation DEF Goal
<1> QED
  BY <1>3, <1>4, <1>5

\* Lines that nothing moved on stay.
LEMMA LineStays ==
    ASSUME NEW n \in Nat, \A i \in 1 .. n : PosOf(i)' = PosOf(i), NEW k \in 1 .. n
    PROVE  LineAt(k)' = LineAt(k)
<1>1. \A i \in 1 .. k : PosOf(i)' = PosOf(i)
  OBVIOUS
<1> QED
  BY <1>1 DEF LineAt

\* A call that ends tells its caller, or reccomendMove, the value.
LEMMA LeaveSearch ==
    ASSUME Inv, Inv', SearchInv, NEW n \in Nat \ {0}, n = Len(stack), n <= Len(history) + 1,
           pc' = "returned", stack' = Front(stack), UNCHANGED <<game, searchDepth, score>>,
           \A i \in 1 .. n : PosOf(i)' = PosOf(i),
           ~stop' => Tells(result', Goal(game, stack[n], LineAt(n)),
                           stack[n].oldAlpha, stack[n].beta)
    PROVE  SearchInv'
<1>0. n \in Int
  OBVIOUS
<1>1. /\ stack \in Seq(Calls) /\ stack' \in Seq(Calls) /\ game \in Games
      /\ stack # << >> /\ result' \in Scores /\ searchDepth \in 1 .. (MAXDEPTH + 1)
      /\ Len(history) \in Nat /\ Len(stack') = Len(history')
  BY EmptySeq, LenProperties DEF Inv, TypeInv, PlyInv
<1>2. Len(stack') = n - 1 /\ \A k \in 1 .. (n - 1) : stack'[k] = stack[k]
  BY <1>1, FrontLast
<1>3. \A k \in 1 .. n : LineAt(k)' = LineAt(k)
  BY LineStays
<1>4. \A k \in 1 .. (n - 1) :
        k \in 1 .. Len(stack) /\ k < Len(stack) /\ k + 1 \in 1 .. n /\ k <= Len(history)
  BY <1>1
<1>5. LoopsInv'
  <2> SUFFICES ASSUME NEW k \in 1 .. (n - 1)
               PROVE  /\ Judged(game, stack[k], LineAt(k), stack[k].moves \cup Trying(k))'
                      /\ (Trying(k) = {} \/ stack[k].tried \notin stack[k].moves)'
    BY <1>2 DEF LoopsInv
  <2>1. Trying(k)' = {stack[k].tried} /\ Trying(k) = {stack[k].tried}
    BY <1>2, <1>4 DEF Trying
  <2>2. /\ Judged(game, stack[k], LineAt(k), stack[k].moves \cup Trying(k))
        /\ Trying(k) = {} \/ stack[k].tried \notin stack[k].moves
    BY <1>4 DEF SearchInv, LoopsInv
  <2>3. stack'[k] = stack[k] /\ LineAt(k)' = LineAt(k) /\ game' = game
    BY <1>2, <1>3
  <2> QED
    BY <2>1, <2>2, <2>3
<1>6. LinksInv'
  <2>1. ASSUME NEW k \in 1 .. (Len(stack') - 1)
        PROVE  Called(stack'[k], stack'[k + 1])
    <3>1. k \in 1 .. (n - 1) /\ k + 1 \in 1 .. (n - 1)
      BY <1>2
    <3> QED
      BY <1>2, <1>4, <3>1 DEF SearchInv, LinksInv
  <2>2. ASSUME NEW k \in 1 .. Len(history'), k <= Len(stack')
        PROVE  PosOf(k + 1)' = stack'[k].tried.to /\ stack'[k].movesMade # 0
    <3>1. k \in 1 .. (n - 1)
      BY <1>1, <1>2
    <3>2. PosOf(k + 1)' = PosOf(k + 1) /\ stack'[k] = stack[k] /\ k \in 1 .. Len(history)
          /\ k <= Len(stack)
      BY <1>2, <1>4, <3>1
    <3> QED
      BY <3>2 DEF SearchInv, LinksInv
  <2>3. ASSUME stack' # << >>
        PROVE  /\ stack'[1].oldAlpha = -INFINITE /\ stack'[1].beta = INFINITE
               /\ stack'[1].depth = searchDepth'
               /\ stack'[1].quiet => searchDepth' >= MAXDEPTH
    <3>1. Len(stack') # 0
      BY <1>1, <2>3, EmptySeq
    <3>2. stack'[1] = stack[1]
      BY <1>1, <1>2, <3>1
    <3> QED
      BY <1>1, <3>2 DEF SearchInv, LinksInv
  <2> QED
    BY <2>1, <2>2, <2>3 DEF LinksInv
<1>7. ASSUME ~stop'
      PROVE  IF stack' = << >> THEN result' = Value(game, Root, searchDepth)
             ELSE Tells(result', Goal(game, ChildCall(top'), LineAt(n)),
                        -top'.beta, -top'.alpha)
  <2>1. Tells(result', Goal(game, stack[n], LineAt(n)), stack[n].oldAlpha, stack[n].beta)
    BY <1>7
  <2>2. stack[n] \in Calls /\ n \in 1 .. (Len(history) + 1)
    BY <1>1, ElementOfSeq
  <2>3. LineAt(n) \in Lines /\ LineAt(1) = Root
    BY <2>2, LineAtFacts
  <2>4. CASE stack' = << >>
    <3>1. n = 1
      <4>1. Len(stack') = 0
        BY <2>4
      <4>2. Len(stack') = n - 1
        BY <1>2
      <4>3. n - 1 = 0
        BY <4>1, <4>2
      <4>4. \A x \in Int : x - 1 = 0 => x = 1
        OBVIOUS
      <4> QED
        BY <1>0, <4>3, <4>4
    <3>2. /\ stack[n].oldAlpha = -INFINITE /\ stack[n].beta = INFINITE
          /\ stack[n].depth = searchDepth /\ (stack[n].quiet => searchDepth >= MAXDEPTH)
      BY <1>1, <3>1 DEF SearchInv, LinksInv
    <3>3. searchDepth \in Int
      BY <1>1, DepthFacts
    <3>4. Goal(game, stack[n], LineAt(n)) = Value(game, Root, searchDepth)
      BY <1>1, <2>3, <3>1, <3>2, <3>3, ValueEquation DEF Goal
    <3>5. Value(game, Root, searchDepth) \in Worths
      BY <1>1, <2>3, <3>1, <3>3, ValueEquation
    <3> DEFINE value == Value(game, Root, searchDepth)
    <3>6. Tells(result', value, -INFINITE, INFINITE) /\ value \in Worths /\ result' \in Int
      BY <1>1, <2>1, <3>2, <3>4, <3>5, ScoreFacts
    <3> HIDE DEF value
    <3>7. -INFINITE < value /\ value < INFINITE /\ value \in Int /\ INFINITE \in Nat
      BY <3>6, WorthFacts
    <3>8. result' = value
      BY <3>6, <3>7 DEF Tells
    <3> QED
      BY <2>4, <3>8 DEF value
  <2>5. CASE stack' # << >>
    <3>1. n - 1 \in 1 .. (Len(stack) - 1) /\ n = (n - 1) + 1
      <4>1. Len(stack') # 0
        BY <1>1, <2>5, EmptySeq
      <4> QED
        BY <1>2, <4>1
    <3>2. Called(stack[n - 1], stack[n])
      BY <3>1 DEF SearchInv, LinksInv
    <3>3. top' = stack[n - 1] /\ stack[n - 1] \in Calls
      <4>1. Last(stack') = stack'[Len(stack')]
        BY DEF Last
      <4>2. n - 1 \in 1 .. Len(stack)
        BY <3>1
      <4> QED
        BY <1>1, <1>2, <3>1, <4>1, <4>2, ElementOfSeq DEF top
    <3>4. Goal(game, stack[n], LineAt(n)) = Goal(game, ChildCall(stack[n - 1]), LineAt(n))
      BY <1>1, <2>2, <2>3, <3>2, <3>3, CalledGoal
    <3>5. stack[n].oldAlpha = -stack[n - 1].beta /\ stack[n].beta = -stack[n - 1].alpha
      BY <3>2 DEF Called
    <3> QED
      BY <2>1, <2>5, <3>3, <3>4, <3>5
  <2> QED
    BY <2>4, <2>5
<1>8. StageInv'
  <2>1. LineAt(Len(stack) + 1)' = LineAt(n) /\ game' = game /\ searchDepth' = searchDepth
    <3>1. Len(stack') + 1 = n /\ n \in 1 .. n
      BY <1>2
    <3> QED
      BY <1>3, <3>1
  <2>2. Root' = Root
    BY DEF Root
  <2>3. pc' # "called" /\ pc' # "loop"
    OBVIOUS
  <2>4. ~stop' => (IF stack = << >> THEN result = Value(game, Root, searchDepth)
                   ELSE Tells(result, Goal(game, ChildCall(top), LineAt(Len(stack) + 1)),
                              -top.beta, -top.alpha))'
    BY <1>7, <2>1, <2>2
  <2> QED
    BY <2>3, <2>4 DEF StageInv
<1>9. ScoreInv'
  BY DEF SearchInv, ScoreInv, Root
<1> QED
  BY <1>5, <1>6, <1>8, <1>9 DEF SearchInv

\* A call goes on with its loop when it has judged what it had to.
LEMMA LoopSearch ==
    ASSUME Inv, Inv', SearchInv, NEW n \in Nat \ {0}, n = Len(stack), n <= Len(history) + 1,
           pc' = "loop", NEW f, stack' \in Seq(Calls), Len(stack') = n, stack'[n] = f,
           \A k \in 1 .. (n - 1) : stack'[k] = stack[k],
           UNCHANGED <<game, searchDepth, score>>,
           \A i \in 1 .. n : PosOf(i)' = PosOf(i),
           f.oldAlpha = stack[n].oldAlpha, f.beta = stack[n].beta, f.depth = stack[n].depth,
           stack[n].quiet => f.quiet,
           f.quiet => stack[n].quiet \/ f.depth <= 0 \/ f.depth >= MAXDEPTH,
           Judged(game, f, LineAt(n), f.moves), stop' => f.movesMade = 0
    PROVE  SearchInv'
<1>1. /\ stack \in Seq(Calls) /\ game \in Games
      /\ stack # << >> /\ searchDepth \in 1 .. (MAXDEPTH + 1)
      /\ Len(history) \in Nat /\ Len(stack') = Len(history') + 1 /\ Len(history') \in Nat
  BY EmptySeq, LenProperties DEF Inv, TypeInv, PlyInv
<1>3. \A k \in 1 .. n : LineAt(k)' = LineAt(k)
  BY LineStays
<1>4. \A k \in 1 .. (n - 1) :
        k \in 1 .. Len(stack) /\ k < Len(stack) /\ k + 1 \in 1 .. n /\ k <= Len(history)
        /\ k \in 1 .. n /\ k < n
  BY <1>1
<1>5. LoopsInv'
  <2> SUFFICES ASSUME NEW k \in 1 .. n
               PROVE  /\ Judged(game, stack[k], LineAt(k), stack[k].moves \cup Trying(k))'
                      /\ (Trying(k) = {} \/ stack[k].tried \notin stack[k].moves)'
    BY DEF LoopsInv
  <2>1. CASE k \in 1 .. (n - 1)
    <3>1. Trying(k)' = {stack[k].tried} /\ Trying(k) = {stack[k].tried}
      BY <1>4, <2>1 DEF Trying
    <3>2. /\ Judged(game, stack[k], LineAt(k), stack[k].moves \cup Trying(k))
          /\ Trying(k) = {} \/ stack[k].tried \notin stack[k].moves
      BY <1>4, <2>1 DEF SearchInv, LoopsInv
    <3>3. stack'[k] = stack[k] /\ LineAt(k)' = LineAt(k) /\ game' = game
      BY <1>3, <2>1
    <3> QED
      BY <3>1, <3>2, <3>3
  <2>2. CASE k = n
    <3>1. Trying(k)' = {}
      BY <2>2 DEF Trying
    <3>2. stack'[k] = f /\ LineAt(k)' = LineAt(n) /\ game' = game
      BY <1>3, <2>2
    <3>3. f.moves \cup {} = f.moves
      OBVIOUS
    <3> QED
      BY <3>1, <3>2, <3>3
  <2> QED
    BY <2>1, <2>2
<1>6. LinksInv'
  <2>1. ASSUME NEW k \in 1 .. (n - 1)
        PROVE  Called(stack'[k], stack'[k + 1])
    <3>1. Called(stack[k], stack[k + 1]) /\ stack'[k] = stack[k]
      BY <2>1 DEF SearchInv, LinksInv
    <3>2. CASE k + 1 \in 1 .. (n - 1)
      BY <3>1, <3>2
    <3>3. CASE k + 1 = n
      BY <3>1, <3>3 DEF Called
    <3>4. k + 1 \in 1 .. (n - 1) \/ k + 1 = n
      OBVIOUS
    <3> QED
      BY <3>2, <3>3, <3>4
  <2>2. ASSUME NEW k \in 1 .. Len(history'), k <= Len(stack')
        PROVE  PosOf(k + 1)' = stack'[k].tried.to /\ stack'[k].movesMade # 0
    <3>1. k \in 1 .. (n - 1)
      BY <1>1
    <3>2. PosOf(k + 1)' = PosOf(k + 1) /\ stack'[k] = stack[k] /\ k \in 1 .. Len(history)
          /\ k <= Len(stack)
      BY <1>4, <3>1
    <3> QED
      BY <3>2 DEF SearchInv, LinksInv
  <2>3. /\ stack'[1].oldAlpha = -INFINITE /\ stack'[1].beta = INFINITE
        /\ stack'[1].depth = searchDepth'
        /\ stack'[1].quiet => searchDepth' >= MAXDEPTH
    <3>1. /\ stack[1].oldAlpha = -INFINITE /\ stack[1].beta = INFINITE
          /\ stack[1].depth = searchDepth
          /\ stack[1].quiet => searchDepth >= MAXDEPTH
      BY <1>1 DEF SearchInv, LinksInv
    <3>2. CASE n = 1
      <4>1. ~(searchDepth <= 0)
        BY <1>1, DepthFacts
      <4> QED
        BY <3>1, <3>2, <4>1
    <3>3. CASE n # 1
      <4>1. 1 \in 1 .. (n - 1)
        BY <3>3
      <4> QED
        BY <3>1, <4>1
    <3> QED
      BY <3>2, <3>3
  <2> QED
    BY <2>1, <2>2, <2>3 DEF LinksInv
<1>7. top' = f
  BY DEF top, Last
<1>8. StageInv'
  BY <1>7 DEF StageInv
<1>9. ScoreInv'
  BY DEF SearchInv, ScoreInv, Root
<1> QED
  BY <1>5, <1>6, <1>8, <1>9 DEF SearchInv

\* The search is right at first.
LEMMA InitSearch == Init => SearchInv
<1> SUFFICES ASSUME Init PROVE SearchInv
  OBVIOUS
<1>1. stack = << >> /\ Len(stack) = 0 /\ history = << >> /\ Len(history) = 0
      /\ pc = "deepen" /\ searchDepth = 1
  BY DEF Init
<1>2. LoopsInv /\ LinksInv
  BY <1>1 DEF LoopsInv, LinksInv
<1>3. StageInv /\ ScoreInv
  BY <1>1 DEF StageInv, ScoreInv
<1> QED
  BY <1>2, <1>3 DEF SearchInv

\* The top call of a line, and its call below it.
LEMMA TopSearch ==
    ASSUME Inv, SearchInv, pc \in {"called", "loop"}
    PROVE  LET n == Len(stack)
           IN  /\ n \in Nat \ {0} /\ n = Len(history) + 1 /\ top = stack[n] /\ top \in Calls
               /\ stack \in Seq(Calls) /\ game \in Games
               /\ LineAt(n) \in Lines /\ Last(LineAt(n)) = pos /\ pos \in Positions
               /\ Repeated <=> RepeatedIn(LineAt(n))
               /\ Captures(pos) = CapturesFrom(game, pos) /\ MovesOf(pos) = game.moves[pos]
               /\ CallOK(top, pos)
<1> DEFINE n == Len(stack)
<1>1. n \in Nat \ {0} /\ n = Len(history) + 1 /\ top = stack[n] /\ top \in Calls
      /\ Len(history) \in Nat /\ CallOK(top, pos)
  BY TopFacts
<1>2. stack \in Seq(Calls) /\ game \in Games /\ pos \in Positions
  BY DEF Inv, TypeInv
<1>3. PosOf(n) = pos
  BY <1>1 DEF PosOf
<1>4. n \in 1 .. (Len(history) + 1)
  BY <1>1
<1>5. LineAt(n) \in Lines /\ Last(LineAt(n)) = pos
  BY <1>3, <1>4, LineAtFacts
<1>6. Repeated <=> RepeatedIn(LineAt(n))
  BY <1>1, RepeatedLine
<1>7. Captures(pos) = CapturesFrom(game, pos) /\ MovesOf(pos) = game.moves[pos]
  BY DEF Captures, CapturesFrom, MovesOf
<1> QED
  BY <1>1, <1>2, <1>5, <1>6, <1>7

\* A call is entered.
LEMMA EnterSearch == Inv /\ Inv' /\ SearchInv /\ Enter => SearchInv'
<1> SUFFICES ASSUME Inv, Inv', SearchInv, Enter PROVE SearchInv'
  OBVIOUS
<1> DEFINE n == Len(stack)
           line == LineAt(n)
           quiet == top.quiet \/ top.depth <= 0 \/ top.depth >= MAXDEPTH
           stand == game.eval[pos]
           moves == IF quiet THEN Captures(pos) ELSE MovesOf(pos)
           alpha == IF quiet /\ stand > top.alpha THEN stand ELSE top.alpha
           f == [top EXCEPT !.quiet = quiet, !.moves = moves, !.alpha = alpha]
<1>1. pc = "called" /\ UNCHANGED <<game, pos, history, searchDepth, score>>
  BY DEF Enter
<1>2. /\ n \in Nat \ {0} /\ n = Len(history) + 1 /\ top = stack[n] /\ top \in Calls
      /\ stack \in Seq(Calls) /\ game \in Games
      /\ line \in Lines /\ Last(line) = pos /\ pos \in Positions
      /\ Repeated <=> RepeatedIn(line)
      /\ Captures(pos) = CapturesFrom(game, pos) /\ MovesOf(pos) = game.moves[pos]
      /\ CallOK(top, pos)
  BY <1>1, TopSearch
<1>3. top.alpha = top.oldAlpha /\ top.movesMade = 0
  BY <1>1 DEF SearchInv, StageInv
<1>4. \A i \in 1 .. n : PosOf(i)' = PosOf(i)
  BY <1>1 DEF PosOf
<1>5. n <= Len(history) + 1
  BY <1>2
<1>6. CASE Repeated /\ Return(0)
  <2>1. 0 = Goal(game, top, line)
    BY <1>2, <1>6, EnterGoal
  <2>2. pc' = "returned" /\ stack' = Front(stack) /\ result' = 0
    BY <1>6 DEF Return
  <2>3. Tells(result', Goal(game, stack[n], line), stack[n].oldAlpha, stack[n].beta)
    BY <1>2, <2>1, <2>2 DEF Tells
  <2> HIDE DEF n, line
  <2> QED
    BY <1>1, <1>2, <1>4, <1>5, <2>2, <2>3, LeaveSearch DEF n, line
<1>7. /\ f \in Calls /\ f.quiet = quiet /\ f.moves = moves /\ f.alpha = alpha
      /\ f.oldAlpha = top.oldAlpha /\ f.beta = top.beta /\ f.depth = top.depth
      /\ f.movesMade = 0
  <2>1. stand \in Int /\ top.alpha \in Int
    BY <1>2, GameFacts, WorthFacts DEF Calls
  <2>2. alpha \in Int /\ quiet \in BOOLEAN
    BY <1>2, <2>1 DEF Calls
  <2>3. moves \in SUBSET Moves
    BY <1>2, GameFacts DEF CapturesFrom
  <2> HIDE DEF alpha, quiet, moves
  <2> QED
    BY <1>2, <1>3, <2>2, <2>3 DEF Calls
<1>8. ASSUME ~Repeated
      PROVE  /\ Judged(game, f, line, f.moves)
             /\ quiet /\ stand >= top.beta =>
                  Tells(top.beta, Goal(game, top, line), top.oldAlpha, top.beta)
  <2>1. ~RepeatedIn(line)
    BY <1>2, <1>8
  <2>2. quiet = (top.quiet \/ top.depth <= 0 \/ top.depth >= MAXDEPTH)
    OBVIOUS
  <2>3. alpha = (IF quiet /\ game.eval[Last(line)] > top.alpha
                 THEN game.eval[Last(line)] ELSE top.alpha)
    BY <1>2
  <2>4. f.moves = (IF quiet THEN CapturesFrom(game, Last(line)) ELSE game.moves[Last(line)])
    BY <1>2, <1>7
  <2>5. stand = game.eval[Last(line)]
    BY <1>2
  <2> HIDE DEF line, f, alpha, quiet, stand, moves
  <2> QED
    BY <1>2, <1>3, <1>7, <2>1, <2>2, <2>3, <2>4, <2>5, EnterJudged
<1>9. CASE ~Repeated /\ quiet /\ stand >= top.beta /\ Return(top.beta)
  <2>2. pc' = "returned" /\ stack' = Front(stack) /\ result' = top.beta
    BY <1>9 DEF Return
  <2>3. Tells(result', Goal(game, stack[n], line), stack[n].oldAlpha, stack[n].beta)
    BY <1>2, <1>8, <1>9, <2>2
  <2> HIDE DEF n, line, quiet, stand
  <2> QED
    BY <1>1, <1>2, <1>4, <1>5, <2>2, <2>3, LeaveSearch DEF n, line
<1>10. CASE ~Repeated /\ stack' = SetTop(f) /\ pc' = "loop"
  <2>1. /\ stack' \in Seq(Calls) /\ Len(stack') = n /\ stack'[n] = f
        /\ \A k \in 1 .. (n - 1) : stack'[k] = stack[k]
    <3>1. stack # << >> /\ stack \in Seq(Calls)
      BY <1>2
    <3> HIDE DEF f
    <3> QED
      BY <1>7, <1>10, <3>1, SetTopFrames
  <2>2. Judged(game, f, line, f.moves)
    BY <1>8, <1>10
  <2>3. /\ stack[n].quiet => f.quiet
        /\ f.quiet => stack[n].quiet \/ f.depth <= 0 \/ f.depth >= MAXDEPTH
    BY <1>2, <1>7
  <2>4. /\ f.oldAlpha = stack[n].oldAlpha /\ f.beta = stack[n].beta /\ f.depth = stack[n].depth
        /\ f.movesMade = 0
    BY <1>2, <1>7
  <2> HIDE DEF f, n, line
  <2> QED
    BY <1>1, <1>2, <1>4, <1>5, <1>10, <2>1, <2>2, <2>3, <2>4, LoopSearch DEF n, line
<1>11. \/ Repeated /\ Return(0)
       \/ ~Repeated /\ quiet /\ stand >= top.beta /\ Return(top.beta)
       \/ ~Repeated /\ stack' = SetTop(f) /\ pc' = "loop"
  BY DEF Enter
<1> HIDE DEF n, line, quiet, stand, moves, alpha, f
<1> QED
  BY <1>6, <1>9, <1>10, <1>11

\* A move that is made starts a call for the position it leads to.
LEMMA MadeSearch ==
    ASSUME Inv, Inv', SearchInv, pc = "loop", pc' = "called",
           NEW n \in Nat \ {0}, n = Len(stack), n = Len(history) + 1, top = stack[n],
           NEW m \in Moves, m.legal, m \in Gen(game, top, LineAt(n)), m \in top.moves,
           NEW f \in Calls, f.quiet = top.quiet, f.depth = top.depth, f.alpha = top.alpha,
           f.oldAlpha = top.oldAlpha, f.best = top.best, f.beta = top.beta,
           f.movesMade # 0, f.tried = m, f.moves = top.moves \ {m},
           stack' \in Seq(Calls), Len(stack') = n + 1, stack'[n] = f,
           stack'[n + 1] = ChildCall(top),
           \A k \in 1 .. (n - 1) : stack'[k] = stack[k],
           pos' = m.to, Len(history') = n, \A i \in 1 .. n : PosOf(i)' = PosOf(i),
           UNCHANGED <<game, searchDepth, score>>
    PROVE  SearchInv'
<1> DEFINE c == ChildCall(top)
<1>0. n \in Int /\ 1 \in 1 .. n /\ n \in 1 .. n
  OBVIOUS
<1>1. /\ stack \in Seq(Calls) /\ game \in Games /\ top \in Calls /\ stack # << >>
      /\ searchDepth \in 1 .. (MAXDEPTH + 1) /\ Len(history) \in Nat
  <2>1. pc \in {"called", "loop"}
    OBVIOUS
  <2>2. stack # << >> /\ top \in Calls /\ Len(history) \in Nat
    BY <2>1, TopFacts
  <2> QED
    BY <2>2 DEF Inv, TypeInv
<1>2. LineAt(n) \in Lines
  BY <1>0, LineAtFacts
<1>3. /\ f.quiet = top.quiet /\ f.depth = top.depth /\ f.alpha = top.alpha
      /\ f.oldAlpha = top.oldAlpha /\ f.best = top.best /\ f.beta = top.beta
      /\ f.movesMade # 0 /\ f.tried = m /\ f.moves = top.moves \ {m}
  OBVIOUS
<1>4. /\ c.oldAlpha = -top.beta /\ c.beta = -top.alpha /\ c.depth = top.depth - 1
      /\ c.quiet = top.quiet /\ c.alpha = c.oldAlpha /\ c.movesMade = 0
  BY DEF ChildCall, Call
<1> HIDE DEF c
<1>5. \A k \in 1 .. n : LineAt(k)' = LineAt(k)
  BY LineStays
<1>6. \A k \in 1 .. (n - 1) :
        k \in 1 .. Len(stack) /\ k < Len(stack) /\ k \in 1 .. n /\ k <= Len(history)
  BY <1>0
<1>7. Judged(game, f, LineAt(n), f.moves \cup {m})
  <2>1. Trying(n) = {}
    BY <1>0 DEF Trying
  <2>2. Judged(game, top, LineAt(n), top.moves)
    <3>1. n \in 1 .. Len(stack) /\ stack[n].moves \cup {} = top.moves
      OBVIOUS
    <3>2. Judged(game, stack[n], LineAt(n), stack[n].moves \cup Trying(n))
      BY <3>1 DEF SearchInv, LoopsInv
    <3> QED
      BY <2>1, <3>1, <3>2
  <2>3. m \in Legal(Gen(game, top, LineAt(n)))
    BY DEF Legal
  <2>4. f.moves \cup {m} = top.moves
    BY <1>3
  <2>5. Legal(top.moves \ top.moves) = {}
    BY DEF Legal
  <2>6. PICK line \in Lines : line = LineAt(n)
    BY <1>2
  <2>7. PICK t \in Calls : t = top
    BY <1>1
  <2>8. Judged(game, t, line, t.moves) /\ Legal(Gen(game, t, line)) # {}
    BY <2>2, <2>3, <2>6, <2>7
  <2>9. /\ f.quiet = t.quiet /\ f.depth = t.depth /\ f.alpha = t.alpha
        /\ f.oldAlpha = t.oldAlpha /\ f.best = t.best /\ f.movesMade # 0
        /\ t.moves \subseteq t.moves /\ Legal(t.moves \ t.moves) = {}
    BY <1>3, <2>5, <2>7
  <2>a. Judged(game, f, line, t.moves)
    BY <1>1, <2>8, <2>9, JudgedOf, Zenon
  <2> QED
    BY <2>4, <2>6, <2>7, <2>a, Zenon
<1>8. LoopsInv'
  <2> SUFFICES ASSUME NEW k \in 1 .. n
               PROVE  /\ Judged(game, stack[k], LineAt(k), stack[k].moves \cup Trying(k))'
                      /\ (Trying(k) = {} \/ stack[k].tried \notin stack[k].moves)'
    <3>1. \A k \in 1 .. Len(stack') : k < Len(stack') => k \in 1 .. n
      BY <1>0
    <3> QED
      BY <3>1 DEF LoopsInv
  <2>0. k < Len(stack')
    BY <1>0
  <2>1. CASE k \in 1 .. (n - 1)
    <3>1. Trying(k)' = {stack[k].tried} /\ Trying(k) = {stack[k].tried}
      BY <1>6, <2>0, <2>1 DEF Trying
    <3>2. /\ Judged(game, stack[k], LineAt(k), stack[k].moves \cup Trying(k))
          /\ Trying(k) = {} \/ stack[k].tried \notin stack[k].moves
      BY <1>6, <2>1 DEF SearchInv, LoopsInv
    <3>3. stack'[k] = stack[k] /\ LineAt(k)' = LineAt(k) /\ game' = game
      BY <1>5, <2>1
    <3> QED
      BY <3>1, <3>2, <3>3
  <2>2. CASE k = n
    <3>1. Trying(k)' = {m}
      BY <1>3, <2>0, <2>2 DEF Trying
    <3>2. stack'[k] = f /\ LineAt(k)' = LineAt(n) /\ game' = game
      BY <1>5, <2>2
    <3> QED
      BY <1>3, <1>7, <3>1, <3>2
  <2>3. k \in 1 .. (n - 1) \/ k = n
    BY <1>0
  <2> QED
    BY <2>1, <2>2, <2>3
<1>9. LinksInv'
  <2>1. ASSUME NEW k \in 1 .. n
        PROVE  Called(stack'[k], stack'[k + 1])
    <3>1. CASE k = n
      <4>1. stack'[k] = f /\ stack'[k + 1] = c
        BY <3>1 DEF c
      <4>2. Called(f, c)
        BY <1>3, <1>4 DEF Called
      <4> QED
        BY <4>1, <4>2
    <3>2. CASE k \in 1 .. (n - 1)
      <4>1. Called(stack[k], stack[k + 1]) /\ stack'[k] = stack[k]
        BY <3>2 DEF SearchInv, LinksInv
      <4>2. CASE k + 1 \in 1 .. (n - 1)
        BY <4>1, <4>2
      <4>3. CASE k + 1 = n
        <5>1. stack'[k + 1] = f /\ stack[k + 1] = top
          BY <4>3
        <5>2. Called(stack[k], top)
          BY <4>1, <5>1
        <5>3. Called(stack[k], f)
          BY <1>3, <5>2 DEF Called
        <5> QED
          BY <4>1, <5>1, <5>3
      <4>4. k + 1 \in 1 .. (n - 1) \/ k + 1 = n
        BY <1>0, <3>2
      <4> QED
        BY <4>2, <4>3, <4>4
    <3>3. k \in 1 .. (n - 1) \/ k = n
      BY <1>0
    <3> QED
      BY <3>1, <3>2, <3>3
  <2>2. ASSUME NEW k \in 1 .. n
        PROVE  PosOf(k + 1)' = stack'[k].tried.to /\ stack'[k].movesMade # 0
    <3>1. CASE k = n
      <4>1. PosOf(n + 1)' = m.to
        BY <1>0 DEF PosOf
      <4> QED
        BY <1>3, <3>1, <4>1
    <3>2. CASE k \in 1 .. (n - 1)
      <4>1. PosOf(k + 1)' = PosOf(k + 1) /\ stack'[k] = stack[k] /\ k \in 1 .. Len(history)
            /\ k <= Len(stack)
        BY <1>6, <3>2
      <4> QED
        BY <4>1 DEF SearchInv, LinksInv
    <3>3. k \in 1 .. (n - 1) \/ k = n
      BY <1>0
    <3> QED
      BY <3>1, <3>2, <3>3
  <2>3. /\ stack'[1].oldAlpha = -INFINITE /\ stack'[1].beta = INFINITE
        /\ stack'[1].depth = searchDepth'
        /\ stack'[1].quiet => searchDepth' >= MAXDEPTH
    <3>1. /\ stack[1].oldAlpha = -INFINITE /\ stack[1].beta = INFINITE
          /\ stack[1].depth = searchDepth
          /\ stack[1].quiet => searchDepth >= MAXDEPTH
      BY <1>1 DEF SearchInv, LinksInv
    <3>2. CASE n = 1
      BY <1>3, <3>1, <3>2
    <3>3. CASE n # 1
      <4>1. 1 \in 1 .. (n - 1)
        BY <1>0, <3>3
      <4> QED
        BY <3>1, <4>1
    <3> QED
      BY <3>2, <3>3
  <2>4. \A k \in 1 .. (Len(stack') - 1) : k \in 1 .. n
    BY <1>0
  <2> QED
    BY <2>1, <2>2, <2>3, <2>4 DEF LinksInv
<1>10. top' = c
  BY DEF top, Last, c
<1>11. StageInv'
  BY <1>4, <1>10 DEF StageInv
<1>12. ScoreInv'
  BY DEF SearchInv, ScoreInv, Root
<1> QED
  BY <1>8, <1>9, <1>11, <1>12 DEF SearchInv

\* The next move is made, or refused.
LEMMA TryMoveSearch == Inv /\ Inv' /\ SearchInv /\ TryMove => SearchInv'
<1> SUFFICES ASSUME Inv, Inv', SearchInv, TryMove PROVE SearchInv'
  OBVIOUS
<1> DEFINE n == Len(stack)
           line == LineAt(n)
<1>1. pc = "loop" /\ UNCHANGED <<game, searchDepth, stop, score>>
  BY DEF TryMove
<1>2. /\ n \in Nat \ {0} /\ n = Len(history) + 1 /\ top = stack[n] /\ top \in Calls
      /\ stack \in Seq(Calls) /\ game \in Games
      /\ line \in Lines /\ Last(line) = pos /\ pos \in Positions
  BY <1>1, TopSearch
<1>3. stack # << >> /\ history \in Seq(Positions) /\ Len(history) \in Nat
  <2>1. stack # << >> /\ Len(history) \in Nat
    BY <1>1, TopFacts
  <2> QED
    BY <2>1 DEF Inv, TypeInv
<1>4. PICK m \in pickNextMove :
         LET frame == [top EXCEPT !.moves = @ \ {m}]
         IN  IF m.legal
             THEN /\ stack' = Append(SetTop([frame EXCEPT !.tried = m, !.movesMade = @ + 1]),
                                     ChildCall(top))
                  /\ pos' = m.to
                  /\ history' = Append(history, pos)
                  /\ pc' = "called"
             ELSE /\ stack' = SetTop(frame)
                  /\ UNCHANGED <<pos, history, pc>>
  BY DEF TryMove
<1>5. m \in top.moves /\ m \in Moves
  <2>1. m \in top.moves
    BY DEF pickNextMove
  <2> QED
    BY <1>2, <2>1 DEF Calls
<1>6. Judged(game, top, line, top.moves) /\ m \in Gen(game, top, line)
  <2>1. Trying(n) = {} /\ n \in 1 .. Len(stack)
    BY <1>1, <1>2 DEF Trying
  <2>2. Judged(game, stack[n], LineAt(n), stack[n].moves \cup Trying(n))
    BY <1>1, <2>1 DEF SearchInv, LoopsInv
  <2>3. stack[n].moves \cup Trying(n) = top.moves
    BY <1>2, <2>1
  <2>4. Judged(game, top, line, top.moves)
    BY <1>2, <2>2, <2>3
  <2> QED
    BY <1>5, <2>4 DEF Judged
<1>7. CASE ~m.legal
  <2> DEFINE f == [top EXCEPT !.moves = @ \ {m}]
  <2>1. stack' = SetTop(f) /\ pc' = "loop" /\ UNCHANGED <<pos, history>>
    BY <1>1, <1>4, <1>7
  <2>2. /\ f \in Calls /\ f.quiet = top.quiet /\ f.depth = top.depth /\ f.alpha = top.alpha
        /\ f.oldAlpha = top.oldAlpha /\ f.best = top.best /\ f.beta = top.beta
        /\ f.movesMade = top.movesMade /\ f.moves = top.moves \ {m}
    BY <1>2 DEF Calls
  <2> HIDE DEF f
  <2>3. /\ stack' \in Seq(Calls) /\ Len(stack') = n /\ stack'[n] = f
        /\ \A k \in 1 .. (n - 1) : stack'[k] = stack[k]
    BY <1>2, <1>3, <2>1, <2>2, SetTopFrames
  <2>4. Judged(game, f, line, f.moves)
    <3>1. f.moves \subseteq top.moves /\ Legal(top.moves \ f.moves) = {}
      BY <1>7, <2>2 DEF Legal
    <3> HIDE DEF line
    <3> QED
      BY <1>2, <1>6, <2>2, <3>1, JudgedOf
  <2>5. \A i \in 1 .. n : PosOf(i)' = PosOf(i)
    BY <2>1 DEF PosOf
  <2>6. stop' => f.movesMade = 0
    BY <1>1, <2>2 DEF SearchInv, StageInv
  <2>7. /\ f.oldAlpha = stack[n].oldAlpha /\ f.beta = stack[n].beta /\ f.depth = stack[n].depth
        /\ f.quiet = stack[n].quiet /\ n <= Len(history) + 1
    BY <1>2, <2>2
  <2> HIDE DEF n, line
  <2> QED
    BY <1>1, <1>2, <2>1, <2>2, <2>3, <2>4, <2>5, <2>6, <2>7, LoopSearch DEF n, line
<1>8. CASE m.legal
  <2> DEFINE frame == [top EXCEPT !.moves = @ \ {m}]
             f == [frame EXCEPT !.tried = m, !.movesMade = @ + 1]
  <2>1. /\ stack' = Append(SetTop(f), ChildCall(top)) /\ pos' = m.to
        /\ history' = Append(history, pos) /\ pc' = "called"
    BY <1>4, <1>8
  <2>2. f \in Calls
    <3>1. frame \in Calls
      BY <1>2 DEF Calls
    <3>2. frame.movesMade + 1 \in Nat
      BY <3>1 DEF Calls
    <3> HIDE DEF frame
    <3> QED
      BY <1>5, <3>1, <3>2 DEF Calls
  <2>3. /\ f.quiet = top.quiet /\ f.depth = top.depth /\ f.alpha = top.alpha
        /\ f.oldAlpha = top.oldAlpha /\ f.best = top.best /\ f.beta = top.beta
        /\ f.movesMade # 0 /\ f.tried = m /\ f.moves = top.moves \ {m}
    <3>1. top.movesMade \in Nat
      BY <1>2 DEF Calls
    <3> QED
      BY <1>2, <3>1 DEF Calls
  <2>4. ChildCall(top) \in Calls
    <3>1. CallOK(top, pos)
      BY <1>1, TopFacts
    <3> QED
      BY <1>2, <3>1, ChildCallOK
  <2> HIDE DEF f
  <2>5. /\ SetTop(f) \in Seq(Calls) /\ Len(SetTop(f)) = n
        /\ \A k \in 1 .. (n - 1) : SetTop(f)[k] = stack[k]
        /\ SetTop(f)[n] = f
    BY <1>2, <1>3, <2>2, SetTopFrames
  <2>6. /\ stack' \in Seq(Calls) /\ Len(stack') = n + 1 /\ stack'[n] = f
        /\ stack'[n + 1] = ChildCall(top)
        /\ \A k \in 1 .. (n - 1) : stack'[k] = stack[k]
    <3> HIDE DEF n
    <3>1. /\ stack' \in Seq(Calls) /\ Len(stack') = n + 1
          /\ \A k \in 1 .. n : stack'[k] = SetTop(f)[k]
          /\ stack'[n + 1] = ChildCall(top)
      BY <2>1, <2>4, <2>5, AppendProperties
    <3>2. n \in 1 .. n /\ \A k \in 1 .. (n - 1) : k \in 1 .. n
      BY <1>2
    <3> QED
      BY <2>5, <3>1, <3>2
  <2>7. Len(history') = n /\ \A i \in 1 .. n : PosOf(i)' = PosOf(i)
    <3>1. /\ Len(history') = Len(history) + 1
          /\ \A i \in 1 .. Len(history) : history'[i] = history[i]
          /\ history'[Len(history) + 1] = pos
      BY <1>2, <1>3, <2>1, AppendProperties
    <3> HIDE DEF n
    <3> QED
      BY <1>2, <1>3, <3>1 DEF PosOf
  <2>8. n = Len(stack) /\ m \in Gen(game, top, LineAt(n))
    BY <1>6
  <2>9. n = Len(history) + 1 /\ top = stack[n] /\ n \in Nat \ {0}
    BY <1>2
  <2> HIDE DEF n, line, frame
  <2> QED
    BY <1>1, <1>5, <1>8, <2>1, <2>2, <2>3, <2>6, <2>7, <2>8, <2>9, MadeSearch, SMTT(60)
<1> QED
  BY <1>7, <1>8

\* What is known when the score of a move has come back.
LEMMA ReturnedSearch ==
    ASSUME Inv, SearchInv, pc = "returned", stack # << >>
    PROVE  LET n == Len(stack)
               line == LineAt(n)
           IN  /\ n \in Nat \ {0} /\ n = Len(history) /\ top = stack[n] /\ top \in Calls
               /\ game \in Games /\ line \in Lines /\ result \in Scores
               /\ top.alpha < top.beta /\ top.movesMade # 0
               /\ Judged(game, top, line, top.moves \cup {top.tried})
               /\ top.tried \in Legal(Gen(game, top, line)) /\ top.tried \notin top.moves
               /\ ~stop => Tells(result,
                                 Goal(game, ChildCall(top), Append(line, top.tried.to)),
                                 -top.beta, -top.alpha)
<1> DEFINE n == Len(stack)
           line == LineAt(n)
<1>1. stack \in Seq(Calls) /\ game \in Games /\ result \in Scores
  BY DEF Inv, TypeInv
<1>2. n \in Nat \ {0} /\ n = Len(history) /\ top = stack[n] /\ top \in Calls
  BY <1>1, FrontLast DEF Inv, PlyInv, top
<1>3. n \in 1 .. Len(stack) /\ n \in 1 .. Len(history) /\ n \in 1 .. (Len(history) + 1)
  BY <1>2
<1>4. line \in Lines /\ LineAt(n + 1) = Append(line, PosOf(n + 1))
  BY <1>3, LineAtFacts
<1>5. PosOf(n + 1) = top.tried.to /\ top.movesMade # 0
  BY <1>2, <1>3 DEF SearchInv, LinksInv
<1>6. top.alpha < top.beta /\ top.tried.legal
  BY <1>2, <1>3 DEF Inv, CallsInv, CallOK, LegalMove
<1>7. Trying(n) = {top.tried}
  BY <1>2 DEF Trying
<1>8. Judged(game, top, line, top.moves \cup {top.tried}) /\ top.tried \notin top.moves
  <2>1. /\ Judged(game, stack[n], LineAt(n), stack[n].moves \cup Trying(n))
        /\ Trying(n) = {} \/ stack[n].tried \notin stack[n].moves
    BY <1>3 DEF SearchInv, LoopsInv
  <2> QED
    BY <1>2, <1>7, <2>1
<1>9. top.tried \in Legal(Gen(game, top, line))
  BY <1>6, <1>8 DEF Judged, Legal
<1>10. ASSUME ~stop
       PROVE  Tells(result, Goal(game, ChildCall(top), Append(line, top.tried.to)),
                    -top.beta, -top.alpha)
  <2>1. Tells(result, Goal(game, ChildCall(top), LineAt(Len(stack) + 1)),
              -top.beta, -top.alpha)
    BY <1>10 DEF SearchInv, StageInv
  <2> QED
    BY <1>4, <1>5, <2>1
<1> QED
  BY <1>1, <1>2, <1>4, <1>5, <1>6, <1>8, <1>9, <1>10

\* A score is compared with the window of the call that made the move.
LEMMA HandleScoreSearch == Inv /\ Inv' /\ SearchInv /\ HandleScore => SearchInv'
<1> SUFFICES ASSUME Inv, Inv', SearchInv, HandleScore PROVE SearchInv'
  OBVIOUS
<1> DEFINE n == Len(stack)
           line == LineAt(n)
           open == top.moves \cup {top.tried}
<1>1. /\ pc = "returned" /\ stack # << >> /\ takeBack
      /\ UNCHANGED <<game, searchDepth, stop, score>>
  BY DEF HandleScore
<1>2. /\ n \in Nat \ {0} /\ n = Len(history) /\ top = stack[n] /\ top \in Calls
      /\ game \in Games /\ line \in Lines /\ result \in Scores
      /\ top.alpha < top.beta /\ top.movesMade # 0
      /\ Judged(game, top, line, open)
      /\ top.tried \in Legal(Gen(game, top, line)) /\ top.tried \notin top.moves
      /\ ~stop => Tells(result,
                        Goal(game, ChildCall(top), Append(line, top.tried.to)),
                        -top.beta, -top.alpha)
  BY <1>1, ReturnedSearch
<1>3. stack \in Seq(Calls) /\ history \in Seq(Positions) /\ history # << >>
  <2>1. history \in Seq(Positions) /\ Len(history) # 0
    BY <1>2 DEF Inv, TypeInv
  <2> QED
    BY <2>1, EmptySeq DEF Inv, TypeInv
<1>4. \A i \in 1 .. n : PosOf(i)' = PosOf(i)
  <2>1. /\ Len(history') = n - 1 /\ \A i \in 1 .. (n - 1) : history'[i] = history[i]
        /\ pos' = history[n]
    BY <1>1, <1>2, <1>3, FrontLast DEF takeBack
  <2> HIDE DEF n
  <2> QED
    BY <1>2, <2>1 DEF PosOf
<1>5. n <= Len(history) + 1
  BY <1>2
<1>6. result \in Int /\ -result \in Int /\ top.alpha \in Int /\ top.beta \in Int
  BY <1>2, ScoreFacts DEF Calls
<1>7. ASSUME NEW v, Return(v), ~stop => Tells(v, Goal(game, top, line), top.oldAlpha, top.beta)
      PROVE  SearchInv'
  <2>1. pc' = "returned" /\ stack' = Front(stack) /\ result' = v
    BY <1>7 DEF Return
  <2>2. ~stop' => Tells(result', Goal(game, stack[n], line), stack[n].oldAlpha, stack[n].beta)
    BY <1>1, <1>2, <1>7, <2>1
  <2>3. n = Len(stack) /\ n \in Nat \ {0}
    BY <1>2
  <2> HIDE DEF n
  <2> QED
    BY <1>1, <1>4, <1>5, <2>1, <2>2, <2>3, LeaveSearch
<1>8. ASSUME NEW f \in Calls, stack' = SetTop(f) \/ (stack' = stack /\ f = top), pc' = "loop",
             ~stop, Judged(game, f, line, f.moves), f.oldAlpha = top.oldAlpha,
             f.beta = top.beta, f.depth = top.depth, f.quiet = top.quiet
      PROVE  SearchInv'
  <2>1. /\ stack' \in Seq(Calls) /\ Len(stack') = n /\ stack'[n] = f
        /\ \A k \in 1 .. (n - 1) : stack'[k] = stack[k]
    BY <1>1, <1>2, <1>3, <1>8, SetTopFrames
  <2>2. /\ f.oldAlpha = stack[n].oldAlpha /\ f.beta = stack[n].beta
        /\ f.depth = stack[n].depth /\ f.quiet = stack[n].quiet
    BY <1>2, <1>8
  <2>3. n = Len(stack) /\ n \in Nat \ {0} /\ ~stop' /\ Judged(game, f, LineAt(n), f.moves)
    BY <1>1, <1>2, <1>8
  <2> HIDE DEF n, line
  <2> QED
    BY <1>1, <1>4, <1>5, <1>8, <2>1, <2>2, <2>3, LoopSearch
<1>9. CASE stop
  <2>1. Return(0)
    BY <1>9 DEF HandleScore
  <2> HIDE DEF n, line
  <2> QED
    BY <1>7, <1>9, <2>1
<1>10. CASE ~stop
  <2> DEFINE f == [top EXCEPT !.alpha = -result, !.best = top.tried]
  <2>1. open \ {top.tried} = top.moves
    BY <1>2
  <2>2. /\ -result > top.alpha /\ -result >= top.beta =>
              Tells(top.beta, Goal(game, top, line), top.oldAlpha, top.beta)
        /\ ~(-result > top.alpha) => Judged(game, top, line, open \ {top.tried})
        /\ \A h \in Calls :
             /\ -result > top.alpha /\ ~(-result >= top.beta)
             /\ h.quiet = top.quiet /\ h.depth = top.depth /\ h.alpha = -result
             /\ h.oldAlpha = top.oldAlpha /\ h.best = top.tried
             /\ h.movesMade = top.movesMade
             => Judged(game, h, line, open \ {top.tried})
    <3> HIDE DEF line, open
    <3> QED
      BY <1>2, <1>6, <1>10, CompareJudged
  <2>3. CASE -result > top.alpha /\ -result >= top.beta
    <3>1. Return(top.beta)
      BY <1>10, <2>3 DEF HandleScore, Compare
    <3> HIDE DEF n, line, open
    <3> QED
      BY <1>7, <2>2, <2>3, <3>1
  <2>4. CASE ~(-result > top.alpha)
    <3>1. stack' = stack /\ pc' = "loop"
      BY <1>10, <2>4 DEF HandleScore, Compare
    <3>2. Judged(game, top, line, top.moves)
      BY <2>1, <2>2, <2>4
    <3> HIDE DEF n, line, open
    <3> QED
      BY <1>2, <1>8, <1>10, <3>1, <3>2
  <2>5. CASE -result > top.alpha /\ ~(-result >= top.beta)
    <3>1. stack' = SetTop(f) /\ pc' = "loop"
      BY <1>10, <2>5 DEF HandleScore, Compare
    <3>2. top.tried \in Moves
      <4>1. top.tried \in game.moves[Last(line)]
        <5>1. top.tried \in Gen(game, top, line)
          BY <1>2 DEF Legal
        <5> HIDE DEF line
        <5> QED
          BY <1>2, <5>1 DEF Gen
      <4> HIDE DEF line
      <4> QED
        BY <1>2, <4>1, LineFacts, GameFacts
    <3>3. /\ f \in Calls /\ f.quiet = top.quiet /\ f.depth = top.depth /\ f.alpha = -result
          /\ f.oldAlpha = top.oldAlpha /\ f.best = top.tried /\ f.movesMade = top.movesMade
          /\ f.beta = top.beta /\ f.moves = top.moves
      BY <1>2, <1>6, <3>2 DEF Calls
    <3> HIDE DEF f, n, line, open
    <3>4. Judged(game, f, line, open \ {top.tried})
      BY <2>2, <2>5, <3>3
    <3>5. Judged(game, f, line, f.moves)
      BY <2>1, <3>3, <3>4
    <3> QED
      BY <1>8, <1>10, <3>1, <3>3, <3>5
  <2> QED
    BY <2>3, <2>4, <2>5
<1> QED
  BY <1>9, <1>10

\* A call that has tried every move returns.
LEMMA EndLoopSearch == Inv /\ Inv' /\ SearchInv /\ EndLoop => SearchInv'
<1> SUFFICES ASSUME Inv, Inv', SearchInv, EndLoop PROVE SearchInv'
  OBVIOUS
<1> DEFINE n == Len(stack)
           line == LineAt(n)
<1>1. /\ pc = "loop" /\ pc \in {"called", "loop"} /\ top.moves = {}
      /\ UNCHANGED <<game, pos, history, searchDepth, stop, score>>
  BY DEF EndLoop
<1>2. /\ n \in Nat \ {0} /\ n = Len(history) + 1 /\ top = stack[n] /\ top \in Calls
      /\ game \in Games /\ line \in Lines /\ Last(line) = pos
  BY <1>1, TopSearch
<1>3. Judged(game, top, line, {})
  <2>1. Trying(n) = {} /\ n \in 1 .. Len(stack)
    BY <1>1, <1>2 DEF Trying
  <2>2. Judged(game, stack[n], LineAt(n), stack[n].moves \cup Trying(n))
    BY <1>1, <2>1 DEF SearchInv, LoopsInv
  <2>3. stack[n].moves \cup Trying(n) = {}
    BY <1>1, <1>2, <2>1
  <2> QED
    BY <1>2, <2>2, <2>3
<1>4. \A i \in 1 .. n : PosOf(i)' = PosOf(i)
  BY <1>1 DEF PosOf
<1>5. n <= Len(history) + 1
  BY <1>2
<1>6. ASSUME NEW v, Return(v), Tells(v, Goal(game, top, line), top.oldAlpha, top.beta)
      PROVE  SearchInv'
  <2>1. pc' = "returned" /\ stack' = Front(stack) /\ result' = v
    BY <1>6 DEF Return
  <2>2. Tells(result', Goal(game, stack[n], line), stack[n].oldAlpha, stack[n].beta)
    BY <1>2, <1>6, <2>1
  <2>3. n = Len(stack) /\ n \in Nat \ {0}
    BY <1>2
  <2> HIDE DEF n
  <2> QED
    BY <1>1, <1>4, <1>5, <2>1, <2>2, <2>3, LeaveSearch
<1>7. CASE ~top.quiet /\ top.movesMade = 0
  <2>1. Return(Mate(game, top, line))
    BY <1>2, <1>7 DEF EndLoop, Mate
  <2>2. Goal(game, top, line) = Mate(game, top, line)
    <3> HIDE DEF line
    <3> QED
      BY <1>2, <1>3, <1>7, EndMates
  <2> HIDE DEF n, line
  <2> QED
    BY <1>6, <2>1, <2>2 DEF Tells
<1>8. CASE ~(~top.quiet /\ top.movesMade = 0)
  <2>1. Return(top.alpha)
    BY <1>8 DEF EndLoop
  <2>2. Tells(top.alpha, Goal(game, top, line), top.oldAlpha, top.beta)
    <3> HIDE DEF line
    <3> QED
      BY <1>2, <1>3, <1>8, EndTells
  <2> HIDE DEF n, line
  <2> QED
    BY <1>6, <2>1, <2>2
<1> QED
  BY <1>7, <1>8

\* The first call of an iteration has the widest window.
LEMMA DeepenSearch == Inv /\ Inv' /\ SearchInv /\ Deepen => SearchInv'
<1> SUFFICES ASSUME Inv, Inv', SearchInv, Deepen PROVE SearchInv'
  OBVIOUS
<1> DEFINE c == Call(-INFINITE, INFINITE, searchDepth, FALSE)
<1>1. /\ pc = "deepen" /\ stack' = <<c>> /\ pc' = "called"
      /\ UNCHANGED <<game, pos, history, searchDepth, stop, score>>
  BY DEF Deepen
<1>2. Len(history') = 0
  <2>1. history = << >>
    BY <1>1 DEF Inv, PlyInv
  <2> QED
    BY <1>1, <2>1
<1>3. c.oldAlpha = -INFINITE /\ c.alpha = c.oldAlpha /\ c.beta = INFINITE
      /\ c.depth = searchDepth /\ ~c.quiet /\ c.movesMade = 0
  BY DEF Call
<1> HIDE DEF c
<1>4. Len(stack') = 1 /\ stack'[1] = c
  BY <1>1
<1>5. top' = c
  BY <1>4 DEF top, Last
<1>6. LoopsInv'
  BY <1>1, <1>4 DEF LoopsInv
<1>7. LinksInv'
  BY <1>1, <1>2, <1>3, <1>4 DEF LinksInv
<1>8. StageInv'
  BY <1>1, <1>3, <1>5 DEF StageInv
<1>9. ScoreInv'
  BY <1>1 DEF SearchInv, ScoreInv, Root
<1> QED
  BY <1>6, <1>7, <1>8, <1>9 DEF SearchInv

\* An iteration that ends in time leaves the value of the root.
LEMMA BetweenSearch == Inv /\ Inv' /\ SearchInv /\ (EndIteration \/ LookUp) => SearchInv'
<1> SUFFICES ASSUME Inv, Inv', SearchInv, EndIteration \/ LookUp PROVE SearchInv'
  OBVIOUS
<1>1. stack' = << >> /\ history' = << >> /\ game' = game
      /\ pc' \in {"deepen", "look up", "answered"}
  <2>1. pc' \in {"deepen", "look up", "answered"} /\ game' = game
    BY DEF EndIteration, LookUp
  <2> QED
    BY <2>1 DEF Inv, PlyInv
<1>2. Len(stack') = 0 /\ Len(history') = 0
  BY <1>1
<1>3. LoopsInv' /\ LinksInv'
  <2>1. \A k \in 1 .. 0 : FALSE
    OBVIOUS
  <2>2. LoopsInv'
    BY <1>2, <2>1 DEF LoopsInv
  <2>3. \A k \in 1 .. (0 - 1) : FALSE
    OBVIOUS
  <2>4. LinksInv'
    BY <1>1, <1>2, <2>1, <2>3 DEF LinksInv
  <2> QED
    BY <2>2, <2>4
<1>4. StageInv'
  BY <1>1 DEF StageInv
<1>5. ScoreInv'
  <2>0. searchDepth \in Int
    <3>1. searchDepth \in 1 .. (MAXDEPTH + 1)
      BY DEF Inv, TypeInv
    <3> QED
      BY <3>1
  <2>1. CASE pc = "returned" /\ stack = << >> /\ ~stop /\ score' = result
             /\ searchDepth' = searchDepth + 1
    <3>1. result = Value(game, Root, searchDepth)
      BY <2>1 DEF SearchInv, StageInv
    <3>2. searchDepth' - 1 = searchDepth
      BY <2>0, <2>1
    <3> QED
      BY <1>1, <2>1, <3>1, <3>2 DEF ScoreInv, Root
  <2>2. CASE UNCHANGED <<score, searchDepth>>
    BY <1>1, <2>2 DEF SearchInv, ScoreInv, Root
  <2>3. CASE searchDepth' = 1
    BY <2>3 DEF ScoreInv
  <2> QED
    BY <2>1, <2>2, <2>3 DEF EndIteration, LookUp, prepSearch
<1> QED
  BY <1>3, <1>4, <1>5 DEF SearchInv

\* Nothing happens.
LEMMA SearchStutters == SearchInv /\ UNCHANGED vars => SearchInv'
<1> SUFFICES ASSUME SearchInv, UNCHANGED vars PROVE SearchInv'
  OBVIOUS
<1>1. UNCHANGED <<game, pos, history, searchDepth, stop, score, stack, result, pc>>
  BY DEF vars
<1>2. \A k : LineAt(k)' = LineAt(k) /\ Trying(k)' = Trying(k) /\ PosOf(k)' = PosOf(k)
  BY <1>1 DEF LineAt, Trying, PosOf
<1>3. LoopsInv'
  BY <1>1, <1>2 DEF SearchInv, LoopsInv
<1>4. LinksInv'
  BY <1>1, <1>2 DEF SearchInv, LinksInv
<1>5. StageInv'
  BY <1>1, <1>2 DEF SearchInv, StageInv, Root, top
<1>6. ScoreInv'
  BY <1>1 DEF SearchInv, ScoreInv, Root
<1> QED
  BY <1>3, <1>4, <1>5, <1>6 DEF SearchInv

\* Both invariants hold together.
THEOREM SearchInvariance == Spec => [](Inv /\ SearchInv)
<1>1. Init => SearchInv
  BY InitSearch
<1>2. Inv /\ Inv' /\ SearchInv /\ [Next]_vars => SearchInv'
  BY EnterSearch, TryMoveSearch, HandleScoreSearch, EndLoopSearch, DeepenSearch,
     BetweenSearch, SearchStutters DEF Next
<1> QED
  BY Invariance, <1>1, <1>2, PTL DEF Spec

\* Whatever the games, the slots and the order of the moves, the score of an
\* iteration that ended in time is the minimax value of the root.
THEOREM ScoreCorrect == Spec => []ScoreIsMinimax
<1>1. Inv /\ SearchInv => ScoreIsMinimax
  BY DEF SearchInv, ScoreInv, ScoreIsMinimax
<1> QED
  BY SearchInvariance, <1>1, PTL

----------------------------------------------------------------------------
(* The recommended move is a best one.                                     *)

Best(g, m, depth) ==
    /\ m \in Legal(g.moves[g.root])
    /\ -Value(g, Append(<<g.root>>, m.to), depth - 1) = Value(g, <<g.root>>, depth)

\* The depth of the last iteration that has ended, and of the last that was
\* not quiescenceSearch.
Finished == IF pc = "returned" /\ stack = << >> /\ ~stop THEN searchDepth ELSE searchDepth - 1

LastDepth == IF Finished >= MAXDEPTH THEN MAXDEPTH - 1 ELSE Finished

RootEntry ==
    LET node == pvTable[Slot[game.root]]
    IN  node.posKey = game.root => LastDepth > 0 /\ Best(game, node.move, LastDepth)

BestInv ==
    /\ rootPosKey \in {EMPTYBOARD, game.root}
    /\ NoReturn(game, searchDepth - 1) => RootEntry

\* The call on top searches a line of legal moves, and the deeper it is the
\* less depth it has.
LEMMA LegalLines ==
    ASSUME Inv, SearchInv, pc \in {"called", "loop"}
    PROVE  /\ LegalLine(game, LineAt(Len(stack)))
           /\ top.depth = searchDepth - (Len(stack) - 1)
<1> DEFINE n == Len(stack)
           line == LineAt(n)
<1>1. /\ n \in Nat \ {0} /\ n = Len(history) + 1 /\ Len(history) \in Nat
      /\ top = stack[n] /\ line \in Lines /\ Len(line) = n
  <2>1. n \in Nat \ {0} /\ n = Len(history) + 1 /\ Len(history) \in Nat /\ top = stack[n]
    BY TopFacts
  <2>2. n \in 1 .. (Len(history) + 1)
    BY <2>1
  <2> QED
    BY <2>1, <2>2, LineAtFacts
<1>0. stack # << >>
  BY TopFacts
<1>2. \A k \in 1 .. n : line[k] = PosOf(k)
  BY <1>1 DEF LineAt
<1>3. line[1] = game.root
  <2>1. LineAt(1) = Root /\ 1 \in 1 .. n /\ 1 \in 1 .. 1
    BY <1>1, LineAtFacts
  <2>2. LineAt(1)[1] = PosOf(1)
    BY <2>1 DEF LineAt
  <2>3. Root[1] = game.root
    BY DEF Root
  <2> HIDE DEF n, line
  <2> QED
    BY <1>2, <2>1, <2>2, <2>3
<1>4. ASSUME NEW i \in 1 .. (n - 1)
      PROVE  \E m \in Legal(game.moves[line[i]]) : m.to = line[i + 1]
  <2>1. i \in 1 .. Len(history) /\ i <= Len(stack) /\ i \in 1 .. n /\ i + 1 \in 1 .. n
    BY <1>1
  <2>2. LegalMove(stack[i].tried, history[i]) /\ PosOf(i) = history[i]
    BY <2>1 DEF Inv, CallsInv, PosOf
  <2>3. PosOf(i + 1) = stack[i].tried.to
    BY <2>1 DEF SearchInv, LinksInv
  <2>4. stack[i].tried \in Legal(game.moves[line[i]])
    BY <1>2, <2>1, <2>2 DEF LegalMove, Legal, MovesOf
  <2>5. line[i + 1] = stack[i].tried.to
    BY <1>2, <2>1, <2>3
  <2> QED
    BY <2>4, <2>5
<1>5. LegalLine(game, line)
  <2> HIDE DEF line, n
  <2> QED
    BY <1>1, <1>3, <1>4 DEF LegalLine
<1>6. top.depth = searchDepth - (n - 1)
  <2> DEFINE G == {k \in Nat : k + 1 <= n => stack[k + 1].depth = searchDepth - k}
  <2>1. searchDepth \in Int /\ stack[1].depth = searchDepth
    <3>1. searchDepth \in 1 .. (MAXDEPTH + 1)
      BY DEF Inv, TypeInv
    <3> QED
      BY <1>0, <3>1 DEF SearchInv, LinksInv
  <2>2. 0 \in G
    BY <2>1
  <2>3. ASSUME NEW k \in Nat, k \in G
        PROVE  k + 1 \in G
    <3> SUFFICES ASSUME (k + 1) + 1 <= n
                 PROVE  stack[(k + 1) + 1].depth = searchDepth - (k + 1)
      OBVIOUS
    <3>1. k + 1 \in 1 .. (Len(stack) - 1)
      BY <1>1
    <3>2. Called(stack[k + 1], stack[(k + 1) + 1])
      BY <3>1 DEF SearchInv, LinksInv
    <3>3. stack[(k + 1) + 1].depth = stack[k + 1].depth - 1
      BY <3>2 DEF Called
    <3>4. stack[k + 1].depth = searchDepth - k
      BY <1>1, <2>3
    <3> QED
      BY <2>1, <3>3, <3>4
  <2>4. Nat \subseteq G
    <3> HIDE DEF G
    <3> QED
      BY <2>2, <2>3, AllNumbers
  <2>5. n - 1 \in Nat /\ (n - 1) + 1 = n
    BY <1>1
  <2>6. n - 1 \in G
    BY <2>4, <2>5
  <2> QED
    BY <1>1, <2>5, <2>6
<1> QED
  BY <1>5, <1>6

\* Where no line leads back, only the first call stores a move of the root.
LEMMA OnlyRootStores ==
    ASSUME Inv, SearchInv, pc = "loop", ~top.quiet, Len(stack) # 1,
           NoReturn(game, searchDepth - 1)
    PROVE  pos # game.root
<1> DEFINE n == Len(stack)
           line == LineAt(n)
<1>1. /\ n \in Nat \ {0} /\ n = Len(history) + 1 /\ top = stack[n] /\ top \in Calls
      /\ game \in Games /\ line \in Lines /\ Last(line) = pos
  <2>1. pc \in {"called", "loop"}
    OBVIOUS
  <2> QED
    BY <2>1, TopSearch
<1>2. LegalLine(game, line) /\ top.depth = searchDepth - (n - 1)
  BY LegalLines
<1>3. Len(line) = n
  BY <1>1, LineAtFacts
<1>4. top.depth \in 1 .. (MAXDEPTH - 1)
  <2>1. n \in 1 .. Len(stack)
    BY <1>1
  <2>2. Judged(game, stack[n], LineAt(n), stack[n].moves \cup Trying(n))
    BY <2>1 DEF SearchInv, LoopsInv
  <2> QED
    BY <1>1, <2>2 DEF Judged
<1>5. searchDepth \in Int
  <2>1. searchDepth \in 1 .. (MAXDEPTH + 1)
    BY DEF Inv, TypeInv
  <2> QED
    BY <2>1
<1>6. n \in 2 .. ((searchDepth - 1) + 1)
  BY <1>1, <1>2, <1>4, <1>5
<1> HIDE DEF n, line
<1> QED
  BY <1>1, <1>2, <1>3, <1>6 DEF NoReturn

\* A longer way back is excluded with every shorter one.
LEMMA ShorterWays ==
    ASSUME NEW g, NEW n \in Int, NEW k \in Int, n <= k, NoReturn(g, k)
    PROVE  NoReturn(g, n)
<1>1. \A i : i \in 2 .. (n + 1) => i \in 2 .. (k + 1)
  OBVIOUS
<1> QED
  BY <1>1 DEF NoReturn

\* What is recommended stays a best move while the table is left alone.
LEMMA EntryStays ==
    ASSUME Inv, BestInv, UNCHANGED <<game, pvTable>>, LastDepth' = LastDepth,
           rootPosKey' \in {EMPTYBOARD, game.root},
           searchDepth' \in Int, searchDepth' >= searchDepth
    PROVE  BestInv'
<1>1. searchDepth \in Int
  <2>1. searchDepth \in 1 .. (MAXDEPTH + 1)
    BY DEF Inv, TypeInv
  <2> QED
    BY <2>1
<1>2. ASSUME NoReturn(game, searchDepth' - 1)
      PROVE  RootEntry'
  <2>1. searchDepth - 1 \in Int /\ searchDepth' - 1 \in Int /\ searchDepth - 1 <= searchDepth' - 1
    <3>1. \A a, b \in Int : a >= b => b - 1 \in Int /\ a - 1 \in Int /\ b - 1 <= a - 1
      OBVIOUS
    <3> QED
      BY <1>1, <3>1
  <2>2. NoReturn(game, searchDepth - 1)
    BY <1>2, <2>1, ShorterWays
  <2>3. RootEntry
    BY <2>2 DEF BestInv
  <2> QED
    BY <2>3 DEF RootEntry
<1> QED
  BY <1>2 DEF BestInv

\* The first call.
LEMMA FirstCall ==
    ASSUME Inv, SearchInv, Len(stack) = 1
    PROVE  /\ stack[1].beta = INFINITE /\ stack[1].oldAlpha = -INFINITE
           /\ stack[1].depth = searchDepth /\ stack[1] \in Calls
           /\ top = stack[1] /\ LineAt(1) = Root /\ Root \in Lines /\ Last(Root) = game.root
           /\ Goal(game, stack[1], Root) = Value(game, Root, searchDepth)
           /\ Value(game, Root, searchDepth) \in Worths
           /\ pc \in {"called", "loop"} => history = << >> /\ pos = game.root
<1>1. stack \in Seq(Calls) /\ game \in Games /\ history \in Seq(Positions)
      /\ searchDepth \in 1 .. (MAXDEPTH + 1)
  BY DEF Inv, TypeInv
<1>2. stack # << >> /\ stack[1] \in Calls /\ top = stack[1]
  BY <1>1, EmptySeq, ElementOfSeq DEF top, Last
<1>3. /\ stack[1].beta = INFINITE /\ stack[1].oldAlpha = -INFINITE
      /\ stack[1].depth = searchDepth /\ (stack[1].quiet => searchDepth >= MAXDEPTH)
  BY <1>2 DEF SearchInv, LinksInv
<1>4. LineAt(1) = Root /\ Root \in Lines
  BY LineAtFacts
<1>5. Last(Root) = game.root
  <2>1. Len(Root) = 1 /\ Root[1] = game.root
    BY DEF Root
  <2> QED
    BY <2>1 DEF Last
<1>6. searchDepth \in Int
  BY <1>1
<1>7. /\ Goal(game, stack[1], Root) = Value(game, Root, searchDepth)
      /\ Value(game, Root, searchDepth) \in Worths
  BY <1>1, <1>3, <1>4, <1>6, ValueEquation DEF Goal
<1>8. ASSUME pc \in {"called", "loop"}
      PROVE  history = << >> /\ pos = game.root
  <2>1. Len(history) \in Nat /\ Len(stack) = Len(history) + 1
    BY <1>8, TopFacts
  <2>2. Len(history) = 0
    BY <2>1
  <2>3. history = << >>
    BY <1>1, <2>2, EmptySeq
  <2> QED
    BY <2>3 DEF Inv, PlyInv
<1> QED
  BY <1>2, <1>3, <1>4, <1>5, <1>7, <1>8

\* The first call ends with its loop, or when the clock has run out.
LEMMA FirstCallEnds ==
    ASSUME Inv, SearchInv, Enter \/ HandleScore, stack' = << >>, pc' = "returned", ~stop'
    PROVE  FALSE
<1>1. stack \in Seq(Calls) /\ stack # << >>
  <2>1. pc = "called" \/ (pc = "returned" /\ stack # << >>)
    BY DEF Enter, HandleScore
  <2> QED
    BY <2>1, TopFacts DEF Inv, TypeInv
<1>2. Len(stack) \in Nat \ {0} /\ Len(Front(stack)) = Len(stack) - 1
  BY <1>1, FrontLast
<1>3. \A f : Len(SetTop(f)) # 0
  <2>1. \A f : SetTop(f) = Append(Front(stack), f)
    BY DEF SetTop
  <2> QED
    BY <2>1
<1>4. Len(stack') = 0
  OBVIOUS
<1>5. ASSUME NEW v, Return(v)
      PROVE  Len(stack) = 1
  BY <1>2, <1>4, <1>5 DEF Return
<1>6. CASE Enter
  <2> DEFINE stand == game.eval[pos]
  <2>1. pc = "called"
    BY <1>6 DEF Enter
  <2>2. \/ Repeated /\ Return(0)
        \/ stand >= top.beta /\ Return(top.beta)
    BY <1>6 DEF Enter
  <2>3. Len(stack) = 1
    BY <1>5, <2>2
  <2>4. history = << >> /\ top.beta = INFINITE /\ pos = game.root
    BY <2>1, <2>3, FirstCall
  <2>5. ~Repeated
    BY <2>4 DEF Repeated
  <2>6. stand \in Worths
    <3>1. pos \in Positions /\ game \in Games
      BY DEF Inv, TypeInv
    <3> QED
      BY <3>1, GameFacts
  <2>7. ~(stand >= INFINITE)
    <3> HIDE DEF stand
    <3> QED
      BY <2>6, WorthFacts
  <2> QED
    BY <2>2, <2>4, <2>5, <2>7
<1>7. CASE HandleScore
  <2>1. pc = "returned" /\ ~stop
    BY <1>7 DEF HandleScore
  <2>2. -result >= top.beta /\ Return(top.beta)
    BY <1>7, <2>1 DEF HandleScore, Compare
  <2>3. Len(stack) = 1
    BY <1>5, <2>2
  <2> DEFINE value == Goal(game, ChildCall(top), Append(LineAt(Len(stack)), top.tried.to))
             alpha == -top.alpha
  <2>4. /\ top.beta = INFINITE /\ result \in Int
        /\ Tells(result, value, -top.beta, -top.alpha)
        /\ top.alpha < top.beta /\ top.alpha \in Int
    BY <1>1, <2>1, <2>3, FirstCall, ReturnedSearch, ScoreFacts DEF Calls
  <2>5. value \in Worths
    BY <1>1, <2>1, ReturnedSearch, GoalWorth DEF Legal
  <2> HIDE DEF value
  <2>6. value \in Int /\ -INFINITE < value /\ value < INFINITE /\ INFINITE \in Nat
    BY <2>5, WorthFacts
  <2> QED
    BY <2>2, <2>4, <2>6 DEF Tells
<1> QED
  BY <1>6, <1>7

\* An entry of the root holds one of its moves.
LEMMA EntryOfRoot ==
    ASSUME Inv
    PROVE  LET node == pvTable[Slot[game.root]]
           IN  /\ Slot[game.root] \in DOMAIN pvTable
               /\ node.posKey \in Positions \cup {NOMOVE}
               /\ node.posKey = game.root =>
                     node.move \in Legal(game.moves[game.root]) /\ node.move # NOMOVE
<1> DEFINE node == pvTable[Slot[game.root]]
<1>1. game \in Games /\ game.root \in Positions /\ game.root # NOMOVE
  BY GamesAssumption, SearcherAssumption DEF Inv, TypeInv
<1>2. Slot[game.root] \in DOMAIN pvTable /\ node.posKey \in Positions \cup {NOMOVE}
  BY <1>1 DEF Inv, TableOK
<1>3. ASSUME node.posKey = game.root
      PROVE  node.move \in Legal(game.moves[game.root]) /\ node.move # NOMOVE
  <2>1. LegalMove(node.move, game.root)
    BY <1>1, <1>2, <1>3 DEF Inv, TableOK
  <2>2. node.move \in Legal(game.moves[game.root])
    BY <2>1 DEF LegalMove, Legal, MovesOf
  <2> QED
    BY <1>1, <2>1, <2>2, MovesAreMoves DEF LegalMove
<1> QED
  BY <1>2, <1>3

\* A step that neither ends an iteration nor writes the table.
LEMMA SearchingBest ==
    Inv /\ SearchInv /\ BestInv /\ (Enter \/ TryMove \/ HandleScore \/ Deepen) => BestInv'
<1> SUFFICES ASSUME Inv, SearchInv, BestInv, Enter \/ TryMove \/ HandleScore \/ Deepen
             PROVE  BestInv'
  OBVIOUS
<1>1. UNCHANGED <<game, pvTable, rootPosKey, searchDepth>>
  BY DEF Enter, TryMove, HandleScore, Deepen
<1>2. ~(pc = "returned" /\ stack = << >> /\ ~stop)
  BY DEF Enter, TryMove, HandleScore, Deepen
<1>3. ~(pc' = "returned" /\ stack' = << >> /\ ~stop')
  <2>1. CASE Enter \/ HandleScore
    BY <2>1, FirstCallEnds
  <2>2. CASE TryMove
    BY <2>2 DEF TryMove
  <2>3. CASE Deepen
    BY <2>3 DEF Deepen
  <2> QED
    BY <2>1, <2>2, <2>3
<1>4. LastDepth' = LastDepth
  BY <1>1, <1>2, <1>3 DEF LastDepth, Finished
<1>5. searchDepth' \in Int /\ searchDepth' >= searchDepth
  <2>1. searchDepth \in 1 .. (MAXDEPTH + 1)
    BY DEF Inv, TypeInv
  <2> QED
    BY <1>1, <2>1
<1>6. rootPosKey' \in {EMPTYBOARD, game.root}
  BY <1>1 DEF BestInv
<1> QED
  BY <1>1, <1>4, <1>5, <1>6, EntryStays

\* What a call that has tried every move stores.
LEMMA EndLoopBest == Inv /\ SearchInv /\ BestInv /\ EndLoop => BestInv'
<1> SUFFICES ASSUME Inv, SearchInv, BestInv, EndLoop PROVE BestInv'
  OBVIOUS
<1> DEFINE n == Len(stack)
           node == pvTable[Slot[game.root]]
<1>1. /\ pc = "loop" /\ pc \in {"called", "loop"} /\ top.moves = {}
      /\ UNCHANGED <<game, pos, history, rootPosKey, searchDepth, stop, score>>
  BY DEF EndLoop
<1>2. /\ n \in Nat \ {0} /\ top = stack[n] /\ top \in Calls /\ game \in Games
      /\ stack \in Seq(Calls) /\ stack # << >>
  BY <1>1, TopSearch, TopFacts
<1>3. pc' = "returned" /\ stack' = Front(stack)
  BY DEF EndLoop, Return
<1>4. Len(stack') = n - 1 /\ stack' \in Seq(Calls)
  BY <1>2, <1>3, FrontLast
<1>5. searchDepth \in Int /\ searchDepth' \in Int /\ searchDepth' >= searchDepth
  <2>1. searchDepth \in 1 .. (MAXDEPTH + 1)
    BY DEF Inv, TypeInv
  <2> QED
    BY <1>1, <2>1
<1>6. rootPosKey' \in {EMPTYBOARD, game.root}
  BY <1>1 DEF BestInv
<1>7. ASSUME UNCHANGED pvTable, LastDepth' = LastDepth
      PROVE  BestInv'
  BY <1>1, <1>5, <1>6, <1>7, EntryStays
<1>8. Finished = searchDepth - 1
  BY <1>1 DEF Finished
<1>9. /\ \/ UNCHANGED pvTable
         \/ /\ ~top.quiet /\ top.movesMade # 0 /\ top.alpha # top.oldAlpha
            /\ storePvMove(top.best)
      /\ ~top.quiet /\ top.movesMade # 0 /\ top.alpha # top.oldAlpha =>
            storePvMove(top.best)
  BY DEF EndLoop
<1>10. Judged(game, top, LineAt(n), {})
  <2>1. Trying(n) = {} /\ n \in 1 .. Len(stack)
    BY <1>1, <1>2 DEF Trying
  <2>2. Judged(game, stack[n], LineAt(n), stack[n].moves \cup Trying(n))
    BY <1>1, <2>1 DEF SearchInv, LoopsInv
  <2>3. stack[n].moves \cup Trying(n) = {}
    BY <1>1, <1>2, <2>1
  <2> QED
    BY <1>2, <2>2, <2>3
<1>11. CASE n # 1
  <2>1. stack' # << >>
    <3>1. Len(stack') # 0
      BY <1>2, <1>4, <1>11
    <3> QED
      BY <3>1
  <2>2. LastDepth' = LastDepth
    BY <1>1, <1>8, <2>1 DEF LastDepth, Finished
  <2>3. CASE UNCHANGED pvTable
    BY <1>7, <2>2, <2>3
  <2>4. CASE ~top.quiet /\ storePvMove(top.best) /\ ~(UNCHANGED pvTable)
    <3>1. pvTable' = [pvTable EXCEPT ![Slot[pos]] = [posKey |-> pos, move |-> top.best]]
      BY <2>4 DEF storePvMove
    <3>2. ASSUME NoReturn(game, searchDepth - 1)
          PROVE  RootEntry'
      <4>1. pos # game.root
        BY <1>1, <1>11, <2>4, <3>2, OnlyRootStores
      <4>2. RootEntry /\ Slot[game.root] \in DOMAIN pvTable
        BY <3>2, EntryOfRoot DEF BestInv
      <4>3. CASE Slot[pos] = Slot[game.root]
        <5>1. pvTable'[Slot[game.root]].posKey = pos
          BY <3>1, <4>2, <4>3
        <5> QED
          BY <1>1, <4>1, <5>1 DEF RootEntry
      <4>4. CASE Slot[pos] # Slot[game.root]
        <5>1. pvTable'[Slot[game.root]] = node
          BY <3>1, <4>2, <4>4
        <5> QED
          BY <1>1, <2>2, <4>2, <5>1 DEF RootEntry
      <4> QED
        BY <4>3, <4>4
    <3> QED
      BY <1>1, <1>6, <3>2 DEF BestInv
  <2> QED
    BY <1>9, <2>3, <2>4
<1>12. CASE n = 1
  <2>1. /\ top.beta = INFINITE /\ top.oldAlpha = -INFINITE /\ top.depth = searchDepth
        /\ LineAt(1) = Root /\ Root \in Lines /\ Last(Root) = game.root
        /\ Goal(game, top, Root) = Value(game, Root, searchDepth)
        /\ Value(game, Root, searchDepth) \in Worths
        /\ pos = game.root
    BY <1>1, <1>12, FirstCall
  <2>2. stack' = << >>
    <3>1. Len(stack') = 0
      BY <1>4, <1>12
    <3> QED
      BY <1>4, <3>1, EmptySeq
  <2>3. Judged(game, top, Root, {})
    BY <1>10, <1>12, <2>1
  <2>4. MAXDEPTH \in Nat \ {0}
    BY DepthFacts
  <2>5. CASE stop
    <3>1. top.movesMade = 0
      BY <1>1, <2>5 DEF SearchInv, StageInv
    <3>2. UNCHANGED pvTable
      BY <1>9, <3>1
    <3>3. LastDepth' = LastDepth
      BY <1>1, <1>8, <2>5 DEF LastDepth, Finished
    <3> QED
      BY <1>7, <3>2, <3>3
  <2>6. CASE ~stop
    <3>1. Finished' = searchDepth
      BY <1>1, <1>3, <2>2, <2>6 DEF Finished
    <3>2. LastDepth' = IF searchDepth >= MAXDEPTH THEN MAXDEPTH - 1 ELSE searchDepth
      BY <3>1 DEF LastDepth
    <3>3. CASE top.quiet
      <4>1. searchDepth >= MAXDEPTH
        BY <1>2, <1>12, <3>3 DEF SearchInv, LinksInv
      <4>2. LastDepth = IF searchDepth - 1 >= MAXDEPTH THEN MAXDEPTH - 1 ELSE searchDepth - 1
        BY <1>8 DEF LastDepth
      <4>3. LastDepth' = LastDepth
        BY <1>5, <2>4, <3>2, <4>1, <4>2
      <4> QED
        BY <1>7, <1>9, <3>3, <4>3
    <3>4. CASE ~top.quiet /\ top.movesMade = 0
      <4>1. UNCHANGED pvTable
        BY <1>9, <3>4
      <4>2. Legal(Gen(game, top, Root)) = {} /\ Gen(game, top, Root) = game.moves[game.root]
        BY <2>1, <2>3, <3>4 DEF Judged, Gen
      <4>3. node.posKey # game.root
        BY <4>2, EntryOfRoot
      <4> QED
        BY <1>1, <1>6, <4>1, <4>3 DEF BestInv, RootEntry
    <3>5. CASE ~top.quiet /\ top.movesMade # 0
      <4> DEFINE value == Value(game, Root, searchDepth)
      <4>1. Tells(top.alpha, value, -INFINITE, INFINITE) /\ top.alpha \in Int /\ value \in Worths
        <5>1. Tells(top.alpha, Goal(game, top, Root), top.oldAlpha, top.beta)
          BY <1>2, <2>1, <2>3, <3>5, EndTells
        <5> QED
          BY <1>2, <2>1, <5>1 DEF Calls
      <4>2. top.alpha < INFINITE
        BY <1>1, <2>1, TopFacts DEF CallOK
      <4>3. value = top.alpha /\ top.alpha # top.oldAlpha
        <5> HIDE DEF value
        <5>1. -INFINITE < value /\ value < INFINITE /\ value \in Int /\ INFINITE \in Nat
          BY <4>1, WorthFacts
        <5>2. value = top.alpha
          BY <4>1, <5>1 DEF Tells
        <5> QED
          BY <2>1, <4>1, <5>1, <5>2
      <4>4. /\ top.best \in Legal(game.moves[game.root])
            /\ Gain(game, top, Root, top.best) = top.alpha
        BY <2>1, <2>3, <3>5, <4>3 DEF Judged, Gen
      <4>5. Gain(game, top, Root, top.best)
              = -Value(game, Append(Root, top.best.to), searchDepth - 1)
        BY <2>1, <3>5 DEF Gain, Goal, ChildCall, Call
      <4>6. Best(game, top.best, searchDepth)
        BY <4>3, <4>4, <4>5 DEF Best, Root
      <4>7. pvTable' = [pvTable EXCEPT ![Slot[pos]] = [posKey |-> pos, move |-> top.best]]
        <5>1. storePvMove(top.best)
          BY <1>9, <3>5, <4>3
        <5>2. ~(pvTable[Slot[pos]].posKey = rootPosKey /\ rootPosKey # pos)
          BY <2>1, EntryOfRoot, SearcherAssumption DEF BestInv
        <5> QED
          BY <5>1, <5>2 DEF storePvMove
      <4>8. pvTable'[Slot[game.root]] = [posKey |-> game.root, move |-> top.best]
        BY <2>1, <4>7, EntryOfRoot
      <4>9. searchDepth \in 1 .. (MAXDEPTH - 1)
        BY <2>1, <2>3, <3>5 DEF Judged
      <4>10. LastDepth' = searchDepth /\ searchDepth > 0
        BY <1>5, <2>4, <3>2, <4>9
      <4>11. RootEntry'
        BY <1>1, <4>6, <4>8, <4>10 DEF RootEntry
      <4> QED
        BY <1>1, <1>6, <4>11 DEF BestInv
    <3> QED
      BY <3>3, <3>4, <3>5
  <2> QED
    BY <2>5, <2>6
<1> QED
  BY <1>11, <1>12

\* Between the iterations nothing is recommended anew, and a search that is
\* started again has lost the entry of the root.
LEMMA BetweenBest == Inv /\ SearchInv /\ BestInv /\ (EndIteration \/ LookUp) => BestInv'
<1> SUFFICES ASSUME Inv, SearchInv, BestInv, EndIteration \/ LookUp PROVE BestInv'
  OBVIOUS
<1>1. UNCHANGED <<game, pvTable>>
  BY DEF EndIteration, LookUp
<1>2. searchDepth \in Int /\ searchDepth <= MAXDEPTH + 1 /\ MAXDEPTH \in Nat \ {0}
  <2>1. searchDepth \in 1 .. (MAXDEPTH + 1) /\ MAXDEPTH \in Nat \ {0}
    BY DepthFacts DEF Inv, TypeInv
  <2> QED
    BY <2>1
<1>3. ASSUME LastDepth' = LastDepth, UNCHANGED rootPosKey,
             searchDepth' \in {searchDepth, searchDepth + 1}
      PROVE  BestInv'
  <2>1. rootPosKey' \in {EMPTYBOARD, game.root}
    BY <1>3 DEF BestInv
  <2>2. searchDepth' \in Int /\ searchDepth' >= searchDepth
    <3>1. searchDepth + 1 \in Int /\ searchDepth + 1 >= searchDepth /\ searchDepth >= searchDepth
      BY <1>2
    <3> QED
      BY <1>2, <1>3, <3>1
  <2> QED
    BY <1>1, <1>3, <2>1, <2>2, EntryStays
<1>4. CASE EndIteration
  <2>1. /\ pc = "returned" /\ stack = << >> /\ stop' = stop /\ UNCHANGED rootPosKey
        /\ pc' \in {"deepen", "look up"}
    BY <1>4 DEF EndIteration
  <2>2. Finished' = searchDepth' - 1 /\ Finished = IF ~stop THEN searchDepth ELSE searchDepth - 1
    BY <2>1 DEF Finished
  <2>3. CASE ~stop /\ searchDepth <= MAXDEPTH
    <3>1. searchDepth' = searchDepth + 1
      BY <1>4, <2>3 DEF EndIteration
    <3>2. Finished' = Finished
      BY <1>2, <2>2, <2>3, <3>1
    <3>3. LastDepth' = LastDepth
      BY <3>2 DEF LastDepth
    <3> QED
      BY <1>3, <2>1, <3>1, <3>3
  <2>4. CASE ~(~stop /\ searchDepth <= MAXDEPTH)
    <3>1. searchDepth' = searchDepth
      BY <1>4, <2>4 DEF EndIteration
    <3>2. \/ Finished' = Finished
          \/ Finished' = MAXDEPTH /\ Finished = MAXDEPTH + 1
      BY <1>2, <2>2, <2>4, <3>1
    <3>3. LastDepth' = LastDepth
      BY <1>2, <3>2 DEF LastDepth
    <3> QED
      BY <1>3, <2>1, <3>1, <3>3
  <2> QED
    BY <2>3, <2>4
<1>5. CASE LookUp
  <2>1. pc = "look up" /\ stack = << >> /\ pos = game.root /\ pc' \in {"deepen", "answered"}
    BY <1>5 DEF LookUp, Inv, PlyInv
  <2>2. CASE getPvMove = NOMOVE
    <3>1. rootPosKey' = game.root
      BY <1>5, <2>1, <2>2 DEF LookUp, prepSearch
    <3>2. pvTable[Slot[game.root]].posKey # game.root
      BY <2>1, <2>2, EntryOfRoot DEF getPvMove
    <3> QED
      BY <1>1, <3>1, <3>2 DEF BestInv, RootEntry
  <2>3. CASE getPvMove # NOMOVE
    <3>1. UNCHANGED <<rootPosKey, searchDepth>>
      BY <1>5, <2>3 DEF LookUp
    <3>2. LastDepth' = LastDepth
      BY <2>1, <3>1 DEF LastDepth, Finished
    <3> QED
      BY <1>3, <3>1, <3>2
  <2> QED
    BY <2>2, <2>3
<1> QED
  BY <1>4, <1>5

\* The recommended move is legal, and a best one at the depth of the last
\* iteration that ended in time, whatever the clock cut short after it and
\* whatever positions share the slot of the root in the PV table: if within
\* the depth of the search no line leads back to the root.
THEOREM BestCorrect == Spec => [](NoReturn(game, searchDepth - 1) => AnswerIsBest)
<1>1. Init => BestInv
  <2> SUFFICES ASSUME Init PROVE BestInv
    OBVIOUS
  <2>1. game.root \in Positions /\ game.root # NOMOVE
    BY GamesAssumption, SearcherAssumption DEF Init
  <2>2. pvTable[Slot[game.root]].posKey # game.root
    BY <2>1 DEF Init
  <2> QED
    BY <2>2 DEF Init, BestInv, RootEntry
<1>2. Inv /\ SearchInv /\ BestInv /\ [Next]_vars => BestInv'
  <2>1. UNCHANGED vars /\ BestInv => BestInv'
    BY DEF vars, BestInv, RootEntry, LastDepth, Finished
  <2> QED
    BY <2>1, SearchingBest, EndLoopBest, BetweenBest DEF Next
<1>3. Inv /\ BestInv /\ NoReturn(game, searchDepth - 1) => AnswerIsBest
  <2> SUFFICES ASSUME Inv, BestInv, NoReturn(game, searchDepth - 1), pc = "answered"
               PROVE  LET depth == IF searchDepth > MAXDEPTH THEN MAXDEPTH - 1
                                   ELSE searchDepth - 1
                          m == getPvMove
                      IN  /\ depth > 0
                          /\ m \in Legal(MovesOf(game.root))
                          /\ -Value(game, Append(Root, m.to), depth - 1)
                               = Value(game, Root, depth)
    BY DEF AnswerIsBest
  <2> DEFINE node == pvTable[Slot[game.root]]
             depth == IF searchDepth > MAXDEPTH THEN MAXDEPTH - 1 ELSE searchDepth - 1
  <2>1. pos = game.root /\ getPvMove # NOMOVE
    BY DEF Inv, PlyInv
  <2>2. node.posKey = game.root /\ getPvMove = node.move
    BY <2>1 DEF getPvMove
  <2>3. LastDepth > 0 /\ Best(game, node.move, LastDepth)
    BY <2>2 DEF BestInv, RootEntry
  <2>4. LastDepth = depth
    <3>1. searchDepth \in 1 .. (MAXDEPTH + 1) /\ MAXDEPTH \in Nat \ {0}
      BY DepthFacts DEF Inv, TypeInv
    <3>2. Finished = searchDepth - 1
      BY DEF Finished
    <3>3. searchDepth - 1 >= MAXDEPTH <=> searchDepth > MAXDEPTH
      BY <3>1
    <3> QED
      BY <3>2, <3>3 DEF LastDepth
  <2> HIDE DEF depth
  <2>5. depth > 0 /\ Best(game, getPvMove, depth)
    BY <2>2, <2>3, <2>4
  <2>6. /\ getPvMove \in Legal(MovesOf(game.root))
        /\ -Value(game, Append(Root, getPvMove.to), depth - 1) = Value(game, Root, depth)
    BY <2>5 DEF Best, Root, MovesOf
  <2> QED
    BY <2>5, <2>6 DEF depth
<1> QED
  BY SearchInvariance, <1>1, <1>2, <1>3, PTL DEF Spec

=============================================================================
