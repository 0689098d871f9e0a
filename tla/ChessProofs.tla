----------------------------- MODULE ChessProofs -----------------------------
(***************************************************************************)
(* What the threads of the server guarantee for any number of them, any    *)
(* boards, rows, lines of the log and game.  First the redirection of      *)
(* std::cout, for itself: a request that runs alone and undisturbed gets   *)
(* its own board.  Then the handlers and the page, which use std::cout as  *)
(* OutputRedirect says, so that what is proved about it holds of them.     *)
(* Last what the page shows and plays: every position of a game is one     *)
(* that legal moves lead to, and a player who waits for answers sees the   *)
(* position and plays in turn, unless a logged line was read for a FEN.    *)
(***************************************************************************)
EXTENDS ChessClient, FiniteSetTheorems, WellFoundedInduction, TLAPS

\* A thread at work was asked for a board.
TypeInv == TypeOK /\ \A w \in Workers : step[w] # "idle" => board[w] \in Boards

\* The output of a request that runs alone, at each of its steps.
Alone(w) ==
    /\ step[w] # "idle" => Busy = {w}
    /\ step[w] \in {"read", "store"} =>
          w \in alive /\ buffer[w] = << >> /\ printed[w] = 0
    /\ At(w, "print") =>
          cout = w /\ w \in alive /\ buffer[w] = Text(board[w], printed[w])
    /\ At(w, "restore") => HasOwnBoard(w)
    /\ Answered(w) => HasOwnBoard(w)

AloneInv == \A w \in Workers \ mixed : Alone(w)

\* Where cout points at each step, as long as no two requests have overlapped.
RestoredInv ==
    ~tangled =>
        /\ Busy = {} => cout = console
        /\ \A w \in Workers :
              /\ step[w] # "idle" => Busy = {w}
              /\ At(w, "read") => cout = console
              /\ step[w] \in {"store", "print", "restore"} => old[w] = console

----------------------------------------------------------------------------
(* Type correctness.                                                       *)

\* What one row adds to a text.
LEMMA NextRow ==
    ASSUME NEW b, NEW n \in Nat
    PROVE  Append(Text(b, n), <<b, n + 1>>) = Text(b, n + 1)
<1>1. Text(b, n) \in Seq({<<b, r>> : r \in 1..n}) /\ Len(Text(b, n)) = n
  BY DEF Text
<1> QED
  BY <1>1 DEF Text

\* Before the first request the variables are well typed.
LEMMA InitType == Init => TypeInv
<1> SUFFICES ASSUME Init
             PROVE  TypeInv
  OBVIOUS
<1> DEFINE texts == Seq(Written)
<1>1. << >> \in texts
  OBVIOUS
<1>2. body \in [Workers -> texts] /\ buffer \in [Workers -> texts]
  BY <1>1 DEF Init
<1>3. printed \in [Workers -> 0..Rows]
  BY RedirectAssumption DEF Init
<1> QED
  BY <1>2, <1>3 DEF Init, TypeInv, TypeOK

\* Every step keeps the variables well typed.
LEMMA TypeStep == TypeInv /\ [Next]_vars => TypeInv'
<1> SUFFICES ASSUME TypeInv, [Next]_vars
             PROVE  TypeInv'
  OBVIOUS
<1> DEFINE texts == Seq(Written)
<1>1. ASSUME NEW w \in Workers, NEW b \in Boards, Receive(w, b)
      PROVE  TypeInv'
  <2>1. << >> \in texts
    OBVIOUS
  <2>2. body' \in [Workers -> texts] /\ buffer' \in [Workers -> texts]
    BY <1>1, <2>1 DEF TypeInv, TypeOK, Receive
  <2>3. mixed' \subseteq Workers
    BY <1>1 DEF TypeInv, TypeOK, Receive, Busy
  <2>4. tangled' \in BOOLEAN
    BY <1>1 DEF Receive
  <2>5. board' \in [Workers -> Boards \cup {NoBoard}] /\ printed' \in [Workers -> 0..Rows]
    BY <1>1, RedirectAssumption DEF TypeInv, TypeOK, Receive
  <2>6. step' \in [Workers -> {"idle", "read", "store", "print", "restore"}]
    BY <1>1 DEF TypeInv, TypeOK, Receive, Goto
  <2>7. cout' \in Workers \cup {console} /\ alive' \subseteq Workers
        /\ old' \in [Workers -> Workers \cup {console}]
    BY <1>1 DEF TypeInv, TypeOK, Receive
  <2>8. \A v \in Workers : step'[v] # "idle" => board'[v] \in Boards
    BY <1>1 DEF TypeInv, TypeOK, Receive, Goto
  <2> QED
    BY <2>2, <2>3, <2>4, <2>5, <2>6, <2>7, <2>8 DEF TypeInv, TypeOK
<1>2. ASSUME NEW w \in Workers, ReadBuffer(w)
      PROVE  TypeInv'
  BY <1>2 DEF TypeInv, TypeOK, ReadBuffer, Goto, At
<1>3. ASSUME NEW w \in Workers, StoreBuffer(w)
      PROVE  TypeInv'
  BY <1>3 DEF TypeInv, TypeOK, StoreBuffer, Goto, At
<1>4. ASSUME NEW w \in Workers, PrintRow(w)
      PROVE  TypeInv'
  <2>1. printed[w] + 1 \in 1..Rows
    BY <1>4, RedirectAssumption DEF TypeInv, TypeOK, PrintRow
  <2>2. printed' \in [Workers -> 0..Rows]
    BY <1>4, <2>1 DEF TypeInv, TypeOK, PrintRow
  <2>3. <<board[w], printed[w] + 1>> \in Written
    BY <1>4, <2>1 DEF TypeInv, PrintRow, At, Written
  <2>4. buffer' \in [Workers -> texts]
    <3>1. CASE UNCHANGED buffer
      BY <3>1 DEF TypeInv, TypeOK
    <3>2. CASE buffer' = [buffer EXCEPT ![cout] = Append(@, <<board[w], printed[w] + 1>>)]
      <4>1. CASE cout \in Workers
        <5>1. buffer[cout] \in texts
          BY <4>1 DEF TypeInv, TypeOK
        <5>2. Append(buffer[cout], <<board[w], printed[w] + 1>>) \in texts
          BY <5>1, <2>3
        <5> QED
          BY <3>2, <4>1, <5>2 DEF TypeInv, TypeOK
      <4>2. CASE cout \notin Workers
        BY <3>2, <4>2 DEF TypeInv, TypeOK
      <4> QED
        BY <4>1, <4>2
    <3> QED
      BY <1>4, <3>1, <3>2 DEF PrintRow, RowGoes
  <2> QED
    BY <1>4, <2>2, <2>4 DEF TypeInv, TypeOK, PrintRow
<1>5. ASSUME NEW w \in Workers, TakeText(w)
      PROVE  TypeInv'
  BY <1>5 DEF TypeInv, TypeOK, TakeText, Goto, At
<1>6. ASSUME NEW w \in Workers, Restore(w)
      PROVE  TypeInv'
  <2>1. << >> \in texts
    OBVIOUS
  <2>2. buffer' \in [Workers -> texts]
    BY <1>6, <2>1 DEF TypeInv, TypeOK, Restore
  <2>3. /\ cout' \in Workers \cup {console}
        /\ old' \in [Workers -> Workers \cup {console}]
        /\ alive' \subseteq Workers
    BY <1>6 DEF TypeInv, TypeOK, Restore
  <2>4. printed' \in [Workers -> 0..Rows]
    BY <1>6, RedirectAssumption DEF TypeInv, TypeOK, Restore
  <2>5. step' \in [Workers -> {"idle", "read", "store", "print", "restore"}]
    BY <1>6 DEF TypeInv, TypeOK, Restore, Goto
  <2>6. \A v \in Workers : step'[v] # "idle" => board'[v] \in Boards
    BY <1>6 DEF TypeInv, TypeOK, Restore, Goto
  <2> QED
    BY <1>6, <2>2, <2>3, <2>4, <2>5, <2>6 DEF TypeInv, TypeOK, Restore
<1>7. ASSUME NEW w \in Workers, Leave(w)
      PROVE  TypeInv'
  <2>1. << >> \in texts
    OBVIOUS
  <2>2. body' \in [Workers -> texts]
    BY <1>7, <2>1 DEF TypeInv, TypeOK, Leave
  <2>3. board' \in [Workers -> Boards \cup {NoBoard}] /\ mixed' \subseteq Workers
    BY <1>7 DEF TypeInv, TypeOK, Leave
  <2>4. \A v \in Workers : step'[v] # "idle" => board'[v] \in Boards
    BY <1>7 DEF TypeInv, TypeOK, Leave, At
  <2> QED
    BY <1>7, <2>2, <2>3, <2>4 DEF TypeInv, TypeOK, Leave
<1>8. ASSUME NEW l \in Lines, Log(l)
      PROVE  TypeInv'
  <2> DEFINE text == buffer[cout]
  <2>1. cout \in Workers /\ buffer \in [Workers -> texts] /\ text \in texts
    BY <1>8 DEF TypeInv, TypeOK, Log
  <2>2. <<l, 0>> \in Written
    BY DEF Written
  <2>3. PICK added \in texts : buffer' = [buffer EXCEPT ![cout] = added]
    <3>1. CASE buffer' = [buffer EXCEPT ![cout] = Append(@, <<l, 0>>)]
      <4>1. Append(text, <<l, 0>>) \in texts
        BY <2>1, <2>2
      <4> QED
        BY <3>1, <4>1
    <3>2. CASE UNCHANGED buffer
      <4>1. buffer' = [buffer EXCEPT ![cout] = text]
        BY <2>1, <3>2
      <4> QED
        BY <2>1, <4>1
    <3>3. CASE text # << >> /\ buffer' = [buffer EXCEPT ![cout][Len(text)] = <<l, 0>>]
      <4> DEFINE n == Len(text)
                 added == [text EXCEPT ![n] = <<l, 0>>]
      <4>1. n \in Nat /\ text \in [1..n -> Written]
        BY <2>1
      <4>2. added \in [1..n -> Written]
        BY <2>2, <4>1
      <4>3. added \in texts
        <5> HIDE DEF added, n
        <5> QED
          BY <4>1, <4>2
      <4>4. buffer' = [buffer EXCEPT ![cout] = added]
        BY <3>3
      <4> QED
        BY <4>3, <4>4
    <3> QED
      BY <1>8, <3>1, <3>2, <3>3 DEF Log, LineGoes
  <2>4. buffer' \in [Workers -> texts]
    BY <2>1, <2>3
  <2> QED
    BY <1>8, <2>1, <2>4 DEF TypeInv, TypeOK, Log
<1>9. CASE UNCHANGED vars
  BY <1>9 DEF TypeInv, TypeOK, vars
<1> QED
  BY <1>1, <1>2, <1>3, <1>4, <1>5, <1>6, <1>7, <1>8, <1>9 DEF Next

\* The variables of the redirection are well typed, for any number of threads.
THEOREM TypeCorrect == Spec => []TypeOK
<1>1. Init => TypeInv
  BY InitType
<1>2. TypeInv => TypeOK
  BY DEF TypeInv
<1> QED
  BY <1>1, <1>2, TypeStep, PTL DEF Spec

----------------------------------------------------------------------------
(* A request that runs alone.                                              *)

\* A step of any thread leaves a request that runs alone as it should be.
LEMMA AloneStep == TypeInv /\ AloneInv /\ [Next]_vars => AloneInv'
<1> SUFFICES ASSUME TypeInv, AloneInv, [Next]_vars,
                    NEW v \in Workers, v \notin mixed'
             PROVE  Alone(v)'
  BY DEF AloneInv
<1>1. ASSUME NEW w \in Workers, NEW b \in Boards, Receive(w, b)
      PROVE  Alone(v)'
  <2>1. CASE v = w
    <3>1. Busy = {}
      BY <1>1, <2>1 DEF Receive
    <3>2. step' = [step EXCEPT ![w] = "read"]
      BY <1>1 DEF Receive, Goto
    <3>3. Busy' = {w}
      BY <3>1, <3>2 DEF Busy, TypeInv, TypeOK
    <3> QED
      BY <1>1, <2>1, <3>2, <3>3 DEF Alone, Receive, At, Answered, TypeInv, TypeOK
  <2>2. CASE v # w
    <3>1. v \notin mixed /\ v \notin Busy
      BY <1>1, <2>2 DEF Receive
    <3>2. step[v] = "idle" /\ step'[v] = "idle"
      BY <1>1, <2>2, <3>1 DEF Receive, Goto, Busy, TypeInv, TypeOK
    <3>3. board'[v] = board[v] /\ body'[v] = body[v]
      BY <1>1, <2>2 DEF Receive, TypeInv, TypeOK
    <3> QED
      BY <3>1, <3>2, <3>3 DEF Alone, AloneInv, At, Answered, HasOwnBoard
  <2> QED
    BY <2>1, <2>2
<1>2. ASSUME NEW w \in Workers, ReadBuffer(w)
      PROVE  Alone(v)'
  <2>1. v \notin mixed /\ Alone(v)
    BY <1>2 DEF ReadBuffer, AloneInv
  <2>2. Busy' = Busy
    BY <1>2 DEF Busy, ReadBuffer, Goto, At, TypeInv, TypeOK
  <2> QED
    BY <1>2, <2>1, <2>2
       DEF Alone, ReadBuffer, Goto, At, Answered, HasOwnBoard, TypeInv, TypeOK
<1>3. ASSUME NEW w \in Workers, StoreBuffer(w)
      PROVE  Alone(v)'
  <2>1. v \notin mixed /\ Alone(v)
    BY <1>3 DEF StoreBuffer, AloneInv
  <2>2. Busy' = Busy /\ w \in Busy
    BY <1>3 DEF Busy, StoreBuffer, Goto, At, TypeInv, TypeOK
  <2>3. step[v] # "idle" => v = w
    BY <2>1, <2>2 DEF Alone
  <2>4. Text(board[v], 0) = << >>
    BY DEF Text
  <2> QED
    BY <1>3, <2>1, <2>2, <2>3, <2>4
       DEF Alone, StoreBuffer, Goto, At, Answered, HasOwnBoard, TypeInv, TypeOK
<1>4. ASSUME NEW w \in Workers, PrintRow(w)
      PROVE  Alone(v)'
  <2>1. v \notin mixed /\ Alone(v)
    BY <1>4 DEF PrintRow, AloneInv
  <2>2. Busy' = Busy /\ w \in Busy
    BY <1>4 DEF Busy, PrintRow, At, TypeInv, TypeOK
  <2>3. CASE v # w
    <3>1. step[v] = "idle"
      BY <2>1, <2>2, <2>3 DEF Alone
    <3> QED
      BY <1>4, <2>1, <3>1 DEF Alone, PrintRow, At, Answered, HasOwnBoard
  <2>4. CASE v = w
    <3>1. cout = w /\ w \in alive /\ buffer[w] = Text(board[w], printed[w])
      BY <1>4, <2>1, <2>4 DEF Alone, PrintRow
    <3>2. ~ \E u \in Workers \ {w} : At(u, "print")
      BY <1>4, <2>1, <2>4 DEF Alone, Busy, At, PrintRow
    <3>3. buffer' = [buffer EXCEPT ![w] = Append(@, <<board[w], printed[w] + 1>>)]
      BY <1>4, <3>1, <3>2 DEF PrintRow, RowGoes
    <3>4. printed[w] \in Nat /\ printed'[w] = printed[w] + 1
      BY <1>4 DEF PrintRow, TypeInv, TypeOK
    <3>5. buffer'[w] = Text(board[w], printed'[w])
      BY <3>1, <3>3, <3>4, NextRow DEF TypeInv, TypeOK
    <3> QED
      BY <1>4, <2>1, <2>2, <2>4, <3>1, <3>5 DEF Alone, PrintRow, At, Answered
  <2> QED
    BY <2>3, <2>4
<1>5. ASSUME NEW w \in Workers, TakeText(w)
      PROVE  Alone(v)'
  <2>1. v \notin mixed /\ Alone(v)
    BY <1>5 DEF TakeText, AloneInv
  <2>2. Busy' = Busy
    BY <1>5 DEF Busy, TakeText, Goto, At, TypeInv, TypeOK
  <2> QED
    BY <1>5, <2>1, <2>2
       DEF Alone, TakeText, Goto, At, Answered, HasOwnBoard, TypeInv, TypeOK
<1>6. ASSUME NEW w \in Workers, Restore(w)
      PROVE  Alone(v)'
  <2>1. v \notin mixed /\ Alone(v)
    BY <1>6 DEF Restore, AloneInv
  <2>2. w \in Busy
    BY <1>6 DEF Busy, Restore, At
  <2>3. step'[v] = "idle" /\ (v # w => step[v] = "idle")
    BY <1>6, <2>1, <2>2 DEF Alone, Restore, Goto, TypeInv, TypeOK
  <2> QED
    BY <1>6, <2>1, <2>3 DEF Alone, Restore, At, Answered, HasOwnBoard
<1>7. ASSUME NEW w \in Workers, Leave(w)
      PROVE  Alone(v)'
  <2>1. Busy' = Busy /\ step' = step
    BY <1>7 DEF Busy, Leave
  <2>2. CASE v = w
    BY <1>7, <2>1, <2>2 DEF Alone, Leave, At, Answered, TypeInv, TypeOK
  <2>3. CASE v # w
    <3>1. v \notin mixed /\ Alone(v)
      BY <1>7, <2>3 DEF Leave, AloneInv
    <3>2. board'[v] = board[v] /\ body'[v] = body[v]
      BY <1>7, <2>3 DEF Leave, TypeInv, TypeOK
    <3> QED
      BY <1>7, <2>1, <3>1, <3>2 DEF Leave, Alone, At, Answered, HasOwnBoard
  <2> QED
    BY <2>2, <2>3
<1>8. ASSUME NEW l \in Lines, Log(l)
      PROVE  Alone(v)'
  <2>1. v \notin mixed /\ v # cout /\ Alone(v)
    BY <1>8 DEF Log, AloneInv
  <2>2. /\ cout' = cout /\ alive' = alive /\ step' = step /\ board' = board
        /\ printed' = printed /\ body' = body /\ Busy' = Busy
    BY <1>8 DEF Log, Busy
  <2>3. buffer'[v] = buffer[v]
    BY <1>8, <2>1 DEF Log, LineGoes, TypeInv, TypeOK
  <2> QED
    BY <2>1, <2>2, <2>3 DEF Alone, At, Answered, HasOwnBoard
<1>9. CASE UNCHANGED vars
  BY <1>9 DEF AloneInv, Alone, vars, At, Answered, HasOwnBoard, Busy
<1> QED
  BY <1>1, <1>2, <1>3, <1>4, <1>5, <1>6, <1>7, <1>8, <1>9 DEF Next

\* A request that no other overlaps and no logged line meets gets its own board,
\* for any number of threads and whatever state earlier requests left cout in.
THEOREM AloneCorrect == Spec => []OwnBoardWhenAlone
<1>1. Init => TypeInv /\ AloneInv
  BY InitType, RedirectAssumption DEF Init, AloneInv, Alone, At, Answered
<1>2. TypeInv /\ AloneInv => OwnBoardWhenAlone
  BY DEF AloneInv, Alone, OwnBoardWhenAlone
<1> QED
  BY <1>1, <1>2, TypeStep, AloneStep, PTL DEF Spec

----------------------------------------------------------------------------
(* cout.                                                                   *)

\* Until two requests overlap, each one puts back the console.
LEMMA RestoredStep == TypeInv /\ RestoredInv /\ [Next]_vars => RestoredInv'
<1> SUFFICES ASSUME TypeInv, RestoredInv, [Next]_vars, ~tangled'
             PROVE  /\ Busy' = {} => cout' = console
                    /\ \A w \in Workers :
                          /\ step'[w] # "idle" => Busy' = {w}
                          /\ At(w, "read")' => cout' = console
                          /\ step'[w] \in {"store", "print", "restore"} =>
                                old'[w] = console
  BY DEF RestoredInv
<1>1. ASSUME NEW w \in Workers, NEW b \in Boards, Receive(w, b)
      PROVE  RestoredInv'
  <2>1. Busy = {} /\ ~tangled
    BY <1>1 DEF Receive
  <2>2. step' = [step EXCEPT ![w] = "read"] /\ cout' = cout
    BY <1>1 DEF Receive, Goto
  <2>3. Busy' = {w}
    BY <2>1, <2>2 DEF Busy, TypeInv, TypeOK
  <2>4. \A v \in Workers : v # w => step'[v] = "idle"
    BY <2>3 DEF Busy
  <2> QED
    BY <2>1, <2>2, <2>3, <2>4 DEF RestoredInv, At, TypeInv, TypeOK
<1>2. ASSUME NEW w \in Workers,
             ReadBuffer(w) \/ StoreBuffer(w) \/ PrintRow(w) \/ TakeText(w)
      PROVE  RestoredInv'
  <2>1. ~tangled /\ w \in Busy /\ Busy' = Busy
    BY <1>2 DEF ReadBuffer, StoreBuffer, PrintRow, TakeText, Goto, At, Busy,
                TypeInv, TypeOK
  <2>2. Busy = {w}
    BY <2>1 DEF RestoredInv, Busy
  <2>3. \A v \in Workers : v # w => step'[v] = "idle"
    BY <2>1, <2>2 DEF Busy
  <2>4. step'[w] # "read"
    BY <1>2 DEF ReadBuffer, StoreBuffer, PrintRow, TakeText, Goto, At, TypeInv, TypeOK
  <2>5. old'[w] = console
    BY <1>2, <2>1 DEF RestoredInv, ReadBuffer, StoreBuffer, PrintRow, TakeText, At,
                      TypeInv, TypeOK
  <2> QED
    BY <2>1, <2>2, <2>3, <2>4, <2>5 DEF RestoredInv, At
<1>3. ASSUME NEW w \in Workers, Restore(w)
      PROVE  RestoredInv'
  <2>1. ~tangled /\ w \in Busy
    BY <1>3 DEF Restore, At, Busy
  <2>2. Busy = {w} /\ cout' = console
    BY <1>3, <2>1 DEF RestoredInv, Busy, Restore, At
  <2>3. \A v \in Workers : step'[v] = "idle"
    BY <1>3, <2>2 DEF Busy, Restore, Goto, TypeInv, TypeOK
  <2> QED
    BY <2>2, <2>3 DEF RestoredInv, At
<1>4. ASSUME \/ UNCHANGED vars
             \/ \E w \in Workers : Leave(w)
             \/ \E l \in Lines : Log(l)
      PROVE  RestoredInv'
  <2>1. ~tangled /\ step' = step /\ cout' = cout /\ old' = old /\ Busy' = Busy
    BY <1>4 DEF vars, Busy, Leave, Log
  <2> QED
    BY <2>1 DEF RestoredInv, At
<1>5. RestoredInv'
  BY <1>1, <1>2, <1>3, <1>4 DEF Next
<1> QED
  BY <1>5 DEF RestoredInv

\* cout has its console back between requests until two of them overlap.
THEOREM RestoredCorrect == Spec => []RestoredWhenAlone
<1>1. Init => TypeInv /\ RestoredInv
  BY InitType DEF Init, RestoredInv, At
<1>2. RestoredInv => RestoredWhenAlone
  BY DEF RestoredInv, RestoredWhenAlone
<1> QED
  BY <1>1, <1>2, TypeStep, RestoredStep, PTL DEF Spec

\* Both together: what a request that meets no other can rely on.
THEOREM RedirectCorrect == Spec => []RedirectsWhenAlone
<1>1. OwnBoardWhenAlone /\ RestoredWhenAlone <=> RedirectsWhenAlone
  BY DEF RedirectsWhenAlone
<1> QED
  BY <1>1, AloneCorrect, RestoredCorrect, PTL

----------------------------------------------------------------------------
(* The handlers and the page.                                              *)

\* What a thread knows of the request it serves.
Known(w) ==
    /\ phase[w] = "search" => request[w].fen \in Boards
    /\ (phase[w] = "answered" /\ answer[w].status = 400
          /\ request[w].fen \in Boards /\ request[w].then = "move") =>
              Playable(request[w]) = {}

HandlerInv ==
    /\ DOMAIN request = Workers /\ DOMAIN phase = Workers /\ DOMAIN answer = Workers
    /\ \A w \in Workers : Known(w)

----------------------------------------------------------------------------
(* Every step of a thread is one of OutputRedirect's.                      *)

\* Where a legal move leads is a board.
LEMMA NextIsBoard ==
    ASSUME NEW p \in Boards, NEW m \in Legal(p)
    PROVE  m.next \in Boards
BY ChessAssumption

\* A request that is taken up is answered or starts to print.
LEMMA ServeRedirects ==
    ASSUME NEW w \in Workers, NEW r, Serve(w, r)
    PROVE  [Next]_vars
<1>1. CASE \E p \in Boards : Show(w, r, p)
  BY <1>1 DEF Show, Next
<1>2. CASE UNCHANGED vars
  BY <1>2
<1>3. ASSUME r.fen \in Boards, MovePieces(w, r)
      PROVE  [Next]_vars
  <2>1. CASE UNCHANGED vars
    BY <2>1
  <2>2. CASE \E m \in Playable(r) : Show(w, r, m.next)
    <3>1. PICK m \in Playable(r) : Show(w, r, m.next)
      BY <2>2
    <3>2. m.next \in Boards
      BY <1>3, NextIsBoard DEF Playable
    <3> QED
      BY <1>1, <3>1, <3>2
  <2> QED
    BY <1>3, <2>1, <2>2 DEF MovePieces, AnswerNow
<1> QED
  BY <1>1, <1>2, <1>3 DEF Serve, AnswerNow

\* So does one whose move has been searched for.
LEMMA WorkRedirects ==
    ASSUME HandlerInv, NEW w \in Workers, Work(w) \/ Send(w)
    PROVE  [Next]_vars
<1>1. CASE Recommend(w)
  <2>1. request[w].fen \in Boards
    BY <1>1 DEF Recommend, HandlerInv, Known
  <2>2. PICK m \in Legal(request[w].fen) : Receive(w, m.next)
    BY <1>1 DEF Recommend
  <2>3. m.next \in Boards
    BY <2>1, NextIsBoard
  <2> QED
    BY <2>2, <2>3 DEF Next
<1>2. CASE PrintBoard(w)
  BY <1>2 DEF PrintBoard, Next
<1>3. CASE Finish(w)
  BY <1>3 DEF Finish, Next
<1>4. CASE Send(w)
  BY <1>4 DEF Send, Next
<1> QED
  BY <1>1, <1>2, <1>3, <1>4 DEF Work

\* A thread is lost, the process ends or something is logged.
Beside == Corrupt \/ (\E w \in Workers : Overflow(w)) \/ \E l \in Lines : Logged(l)

\* That is no more than a line in cout.
LEMMA BesideRedirects ==
    ASSUME Beside
    PROVE  /\ [Next]_vars
           /\ request' = request /\ phase' = phase /\ answer' = answer
           /\ step' = step /\ board' = board /\ (up' => up)
<1>1. CASE Corrupt \/ \E w \in Workers : Overflow(w)
  BY <1>1 DEF Corrupt, Overflow, vars
<1>2. ASSUME NEW l \in Lines, Logged(l)
      PROVE  /\ [Next]_vars
             /\ request' = request /\ phase' = phase /\ answer' = answer
             /\ step' = step /\ board' = board /\ (up' => up)
  BY <1>2 DEF Logged, Log, Next, handlerVars
<1> QED
  BY <1>1, <1>2 DEF Beside

----------------------------------------------------------------------------
(* What a thread knows stays true.                                         *)

\* A step of one thread leaves what the others know.
LEMMA OneThread ==
    ASSUME HandlerInv, NEW w \in Workers,
           DOMAIN request' = Workers, DOMAIN phase' = Workers, DOMAIN answer' = Workers,
           \A v \in Workers \ {w} : /\ request'[v] = request[v]
                                    /\ phase'[v] = phase[v]
                                    /\ answer'[v] = answer[v],
           Known(w)'
    PROVE  HandlerInv'
<1>1. ASSUME NEW v \in Workers, v # w
      PROVE  Known(v)'
  <2>1. Known(v)
    BY DEF HandlerInv
  <2> QED
    BY <1>1, <2>1 DEF Known, Playable, Legal, AutoQueen
<1> QED
  BY <1>1 DEF HandlerInv

\* Nothing is forgotten while no request, phase or answer changes.
LEMMA SameKnown ==
    ASSUME HandlerInv, request' = request, phase' = phase, answer' = answer
    PROVE  HandlerInv'
BY DEF HandlerInv, Known, Playable, Legal, AutoQueen

\* Taking up a request.
LEMMA ServeKnows ==
    ASSUME HandlerInv, NEW w \in Workers, NEW r, Serve(w, r)
    PROVE  HandlerInv'
<1> DEFINE moves == r.fen \in Boards /\ r.then = "move"
           effect ==
              /\ request' = [request EXCEPT ![w] = r]
              /\ \/ answer' = answer /\ phase' = [phase EXCEPT ![w] = "show"]
                 \/ /\ answer' = answer /\ phase' = [phase EXCEPT ![w] = "search"]
                    /\ r.fen \in Boards
                 \/ /\ answer' = [answer EXCEPT ![w] = Plain(200)]
                    /\ phase' = [phase EXCEPT ![w] = "answered"]
                 \/ /\ answer' = [answer EXCEPT ![w] = Plain(400)]
                    /\ phase' = [phase EXCEPT ![w] = "answered"]
                    /\ moves => Playable(r) = {}
<1>1. effect
  <2>1. BadFen \notin Boards
    BY ChessAssumption
  <2> HIDE DEF moves
  <2>2. ASSUME NEW p, Show(w, r, p)
        PROVE  effect
    BY <2>2 DEF Show
  <2>3. ASSUME AnswerNow(w, r, Plain(400)), moves => Playable(r) = {}
        PROVE  effect
    BY <2>3 DEF AnswerNow
  <2>4. CASE r.fen = NoFen /\ AnswerNow(w, r, Plain(200))
    BY <2>4 DEF AnswerNow
  <2>5. CASE r.fen = BadFen /\ AnswerNow(w, r, Plain(400))
    BY <2>1, <2>3, <2>5 DEF moves
  <2>6. CASE r.then = "malformed" /\ AnswerNow(w, r, Plain(400))
    BY <2>3, <2>6 DEF moves
  <2>7. CASE MovePieces(w, r)
    BY <2>2, <2>3, <2>7 DEF MovePieces
  <2>8. CASE Show(w, r, r.fen)
    BY <2>2, <2>8
  <2>9. CASE /\ r.fen \in Boards
             /\ request' = [request EXCEPT ![w] = r]
             /\ phase' = [phase EXCEPT ![w] = "search"]
             /\ answer' = answer
    BY <2>9
  <2> QED
    BY <2>4, <2>5, <2>6, <2>7, <2>8, <2>9 DEF Serve
<1>2. Plain(200).status # 400
  BY DEF Plain
<1>3. request'[w] = r /\ phase'[w] \in {"show", "search", "answered"}
  BY <1>1 DEF HandlerInv
<1>4. phase'[w] = "search" => r.fen \in Boards
  BY <1>1 DEF HandlerInv
<1>5. (phase'[w] = "answered" /\ answer'[w].status = 400 /\ moves) => Playable(r) = {}
  BY <1>1, <1>2 DEF HandlerInv
<1>6. Known(w)'
  BY <1>3, <1>4, <1>5 DEF Known, Playable, Legal, AutoQueen
<1> QED
  BY <1>1, <1>6, OneThread DEF HandlerInv

\* Working for it.
LEMMA WorkKnows ==
    ASSUME HandlerInv, NEW w \in Workers, Work(w) \/ Send(w)
    PROVE  HandlerInv'
<1>1. CASE Recommend(w)
  <2>1. request' = request /\ answer' = answer /\ phase' = [phase EXCEPT ![w] = "show"]
    BY <1>1 DEF Recommend
  <2>2. Known(w)'
    BY <2>1 DEF HandlerInv, Known
  <2> QED
    BY <2>1, <2>2, OneThread DEF HandlerInv
<1>2. CASE PrintBoard(w)
  <2>1. request' = request /\ phase' = phase /\ answer' = answer
    BY <1>2 DEF PrintBoard, handlerVars
  <2> QED
    BY <2>1, SameKnown
<1>3. CASE Finish(w)
  <2>1. PICK a : a.status = 200 /\ answer' = [answer EXCEPT ![w] = a]
    <3> DEFINE shown == request[w].then = "show"
               a == [status |-> 200, text |-> body[w], mixed |-> w \in mixed,
                     fen |-> IF shown THEN NoFen ELSE board[w],
                     result |-> IF shown THEN "-" ELSE Chess.result[board[w]]]
    <3>1. answer' = [answer EXCEPT ![w] = a]
      BY <1>3 DEF Finish
    <3>2. a.status = 200
      OBVIOUS
    <3> QED
      BY <3>1, <3>2
  <2>2. request' = request /\ phase' = [phase EXCEPT ![w] = "answered"]
    BY <1>3 DEF Finish
  <2>3. phase'[w] = "answered" /\ answer'[w].status = 200
    BY <2>1, <2>2 DEF HandlerInv
  <2>4. Known(w)'
    BY <2>3 DEF Known
  <2> QED
    BY <2>1, <2>2, <2>4, OneThread DEF HandlerInv
<1>4. CASE Send(w)
  <2>1. phase'[w] = "free"
    BY <1>4 DEF Send, HandlerInv
  <2>2. Known(w)'
    BY <2>1 DEF Known
  <2> QED
    BY <1>4, <2>2, OneThread DEF Send, HandlerInv
<1> QED
  BY <1>1, <1>2, <1>3, <1>4 DEF Work

----------------------------------------------------------------------------
(* The theorems.                                                           *)

\* A step of the handler.
LEMMA HandlerStep ==
    HandlerInv /\ [HandlerNext]_allVars => HandlerInv' /\ [Next]_vars
<1> SUFFICES ASSUME HandlerInv, [HandlerNext]_allVars
             PROVE  HandlerInv' /\ [Next]_vars
  OBVIOUS
<1>1. ASSUME NEW w \in Workers, NEW r \in Requests, Serve(w, r)
      PROVE  HandlerInv' /\ [Next]_vars
  BY <1>1, ServeKnows, ServeRedirects
<1>2. ASSUME NEW w \in Workers, Work(w) \/ Send(w)
      PROVE  HandlerInv' /\ [Next]_vars
  BY <1>2, WorkKnows, WorkRedirects
<1>3. CASE Beside
  BY <1>3, BesideRedirects, SameKnown
<1>4. CASE UNCHANGED allVars
  BY <1>4, SameKnown DEF allVars, handlerVars
<1> QED
  BY <1>1, <1>2, <1>3, <1>4 DEF HandlerNext, Beside

\* A step of the page, of its visitors or of the network.
LEMMA ClientStep ==
    HandlerInv /\ [ClientNext]_everything => HandlerInv' /\ [Next]_vars
<1> SUFFICES ASSUME HandlerInv, [ClientNext]_everything
             PROVE  HandlerInv' /\ [Next]_vars
  OBVIOUS
<1>1. CASE UNCHANGED allVars
  BY <1>1, SameKnown DEF allVars, handlerVars
<1>2. ASSUME NEW f \in Slots, Accept(f)
      PROVE  HandlerInv' /\ [Next]_vars
  <2>1. PICK w \in Workers : Serve(w, flight[f].request)
    BY <1>2 DEF Accept, Waiting
  <2> QED
    BY <2>1, ServeKnows, ServeRedirects
<1>3. ASSUME NEW w \in Workers, Work(w) \/ Send(w)
      PROVE  HandlerInv' /\ [Next]_vars
  BY <1>3, WorkKnows, WorkRedirects
<1>4. CASE StartNewGame \/ Visit \/ \E sq \in Clicks : handlePieceClick(sq)
  BY <1>1, <1>4 DEF StartNewGame, Visit, handlePieceClick, Select, Reselect, SendMove
<1>5. CASE \E f \in Slots : Respond(f)
  BY <1>1, <1>5 DEF Respond, NewGame, MovePlayed, AiPlayed, Refused
<1>6. CASE Beside
  BY <1>6, BesideRedirects, SameKnown
<1> QED
  BY <1>1, <1>2, <1>3, <1>4, <1>5, <1>6
  DEF ClientNext, Working, Reply, Die, Logging, Beside, everything

\* The handlers implement the redirection, each with its own std::cout steps,
\* for any number of threads and any game.
LEMMA HandlerRedirects == HandlerSpec => Spec
<1>1. HandlerInit => Init /\ HandlerInv
  BY DEF HandlerInit, HandlerInv, Known
<1> QED
  BY <1>1, HandlerStep, PTL DEF HandlerSpec, Spec

\* So does the whole of page, visitors, network and handlers.
LEMMA ClientRedirects == ClientSpec => Spec
<1>1. ClientInit => Init /\ HandlerInv
  BY DEF ClientInit, HandlerInit, HandlerInv, Known
<1> QED
  BY <1>1, ClientStep, PTL DEF ClientSpec, Spec

\* A player whose request no other overlaps, and into whose response nothing was
\* logged, gets the text of the board asked for, whatever page and visitors did
\* before, and cout has its console back until two requests overlap.
THEOREM PageRedirects == ClientSpec => []RedirectsWhenAlone
BY ClientRedirects, RedirectCorrect, PTL

\* A move that is refused is one White cannot make: no legal move joins the
\* two squares, promotions included.
LEMMA RefusedIsIllegal == HandlerInv => WhiteIsHeard
<1> SUFFICES ASSUME HandlerInv, NEW w \in Workers,
                    phase[w] = "answered", answer[w].status = 400,
                    request[w].fen \in Boards, request[w].then = "move",
                    Chess.side[request[w].fen] = "white",
                    NEW m \in Legal(request[w].fen),
                    m.from = request[w].from, m.to = request[w].to
             PROVE  FALSE
  BY DEF WhiteIsHeard
<1> DEFINE r == request[w]
<1>1. Playable(r) = {}
  BY DEF HandlerInv, Known
<1>2. \A q \in Legal(r.fen) :
          (q.from = r.from /\ q.to = r.to) => q.promoted # AutoQueen(r.fen, r.from, r.to)
  BY <1>1 DEF Playable
<1>3. m.from \in DOMAIN Chess.men[r.fen]
  BY PromotionAssumption
<1>4. CASE m.to[1] = 0 /\ Chess.men[r.fen][m.from] = <<"white", "pawn">>
  <2>1. PICK q \in Legal(r.fen) : q.from = m.from /\ q.to = m.to /\ q.promoted = "queen"
    BY <1>4, PromotionAssumption
  <2>2. AutoQueen(r.fen, r.from, r.to) = "queen"
    BY <1>3, <1>4 DEF AutoQueen
  <2> QED
    BY <1>2, <2>1, <2>2
<1>5. CASE ~(m.to[1] = 0 /\ Chess.men[r.fen][m.from] = <<"white", "pawn">>)
  <2>1. m.promoted = "none"
    BY <1>5, PromotionAssumption
  <2>2. AutoQueen(r.fen, r.from, r.to) = "none"
    <3>1. ~(r.to[1] = 0 /\ Chess.men[r.fen][r.from] = <<"white", "pawn">>)
      BY <1>5, Zenon
    <3> QED
      BY <3>1, Zenon DEF AutoQueen
  <2> QED
    BY <1>2, <2>1, <2>2
<1> QED
  BY <1>4, <1>5

\* Every click of White that is a move is played, in any game in which White's
\* pawns may promote to a queen.
THEOREM PageHearsWhite == ClientSpec => []WhiteIsHeard
<1>1. ClientInit => HandlerInv
  BY DEF ClientInit, HandlerInit, HandlerInv, Known
<1> QED
  BY <1>1, ClientStep, RefusedIsIllegal, PTL DEF ClientSpec

----------------------------------------------------------------------------
(* The answer is one to the request.                                       *)

\* The positions a request asks to be shown.
Wanted(r) ==
    CASE r.then = "show" -> {r.fen}
      [] r.then = "move" -> {m.next : m \in Playable(r)}
      [] r.then = "ai"   -> {m.next : m \in Legal(r.fen)}
      [] OTHER           -> {}

\* An answer gives the FEN of such a position, and Black's move is not refused.
Plays(r, a) ==
    r.fen \in Boards =>
        /\ a.status = 200 /\ r.then # "show" => a.fen \in Wanted(r)
        /\ a.status # 200 => r.then \in {"move", "malformed"}

\* Its text is the board of that position.
Prints(r, a) ==
    r.fen \in Boards /\ a.status = 200 =>
        \E p \in Wanted(r) : a.text = Text(p, Rows) /\ (r.then = "show" \/ a.fen = p)

Works(w) ==
    /\ phase[w] = "show" <=> step[w] # "idle"
    /\ phase[w] = "show" => request[w].fen \in Boards /\ board[w] \in Wanted(request[w])
    /\ phase[w] = "search" => request[w].then = "ai"
    /\ phase[w] = "answered" =>
          /\ Plays(request[w], answer[w])
          /\ ~answer[w].mixed => Prints(request[w], answer[w])

ServerInv ==
    /\ HandlerTypeOK
    /\ HandlerInv
    /\ TypeInv
    /\ AloneInv
    /\ \A w \in Workers : Works(w)

\* A step of one thread leaves the work of the others.
LEMMA OthersWork ==
    ASSUME ServerInv, NEW w \in Workers,
           \A v \in Workers \ {w} :
              /\ request'[v] = request[v] /\ phase'[v] = phase[v] /\ answer'[v] = answer[v]
              /\ step'[v] = step[v] /\ board'[v] = board[v],
           Works(w)'
    PROVE  \A v \in Workers : Works(v)'
<1> SUFFICES ASSUME NEW v \in Workers, v # w
             PROVE  Works(v)'
  OBVIOUS
<1>1. Works(v)
  BY DEF ServerInv
<1>2. request'[v] = request[v] /\ phase'[v] = phase[v] /\ answer'[v] = answer[v]
      /\ step'[v] = step[v] /\ board'[v] = board[v]
  OBVIOUS
<1>3. Wanted(request'[v]) = Wanted(request[v])
      /\ Plays(request'[v], answer'[v]) = Plays(request[v], answer[v])
      /\ Prints(request'[v], answer'[v]) = Prints(request[v], answer[v])
  BY <1>2
<1> QED
  BY <1>1, <1>2, <1>3 DEF Works

\* A request is started whose position is wanted,
LEMMA ShowWorks ==
    ASSUME ServerInv, NEW w \in Workers, NEW r, NEW p \in Wanted(r),
           r.fen \in Boards, Show(w, r, p)
    PROVE  (\A v \in Workers : Works(v)') /\ phase'[w] = "show"
<1>1. /\ request' = [request EXCEPT ![w] = r]
      /\ phase' = [phase EXCEPT ![w] = "show"]
      /\ step' = [step EXCEPT ![w] = "read"]
      /\ board' = [board EXCEPT ![w] = p]
      /\ answer' = answer
  BY DEF Show, Receive, Goto
<1>2. /\ request'[w] = r /\ phase'[w] = "show" /\ step'[w] = "read" /\ board'[w] = p
  BY <1>1 DEF ServerInv, HandlerTypeOK, TypeInv, TypeOK
<1>3. Works(w)'
  BY <1>2 DEF Works, Wanted, Playable, Legal, AutoQueen
<1> QED
  BY <1>1, <1>2, <1>3, OthersWork

\* or answered at once.
LEMMA AnswerWorks ==
    ASSUME ServerInv, NEW w \in Workers, NEW r, NEW a, phase[w] = "free",
           r.fen \in Boards => a.status = 400 /\ r.then \in {"move", "malformed"},
           AnswerNow(w, r, a)
    PROVE  \A v \in Workers : Works(v)'
<1>1. /\ request' = [request EXCEPT ![w] = r]
      /\ answer' = [answer EXCEPT ![w] = a]
      /\ phase' = [phase EXCEPT ![w] = "answered"]
      /\ step' = step /\ board' = board
  BY DEF AnswerNow, vars
<1>2. step[w] = "idle"
  BY DEF ServerInv, Works
<1>3. request'[w] = r /\ phase'[w] = "answered" /\ answer'[w] = a /\ step'[w] = "idle"
  BY <1>1, <1>2 DEF ServerInv, HandlerTypeOK
<1>4. Plays(r, a) /\ Prints(r, a)
  BY DEF Plays, Prints
<1>5. Works(w)'
  BY <1>3, <1>4 DEF Works, Plays, Prints, Wanted, Playable, Legal, AutoQueen, Text
<1> QED
  BY <1>1, <1>5, OthersWork

\* The types of the handler's own variables.
HandlerVarsOK ==
    /\ request \in [Workers -> Requests \cup {NoRequest}]
    /\ phase \in [Workers -> {"free", "search", "show", "answered"}]
    /\ answer \in [Workers -> Answers \cup {NoAnswer}]
    /\ up \in BOOLEAN

\* The body-less answer of a handler is one of the answers.
LEMMA PlainIsAnswer ==
    ASSUME NEW status \in {200, 400}
    PROVE  Plain(status) \in Answers
<1>1. << >> \in Seq(Written)
  OBVIOUS
<1> QED
  BY <1>1 DEF Plain, Answers

\* serve
LEMMA ServeWorks ==
    ASSUME ServerInv, NEW w \in Workers, NEW r \in Requests, Serve(w, r)
    PROVE  /\ \A v \in Workers : Works(v)'
           /\ HandlerVarsOK'
           /\ up /\ phase[w] = "free" /\ phase'[w] # "free"
           /\ \E q \in {"search", "show", "answered"} : phase' = [phase EXCEPT ![w] = q]
           /\ request' = [request EXCEPT ![w] = r]
           /\ up' = up
<1>1. up /\ phase[w] = "free"
  BY DEF Serve
<1>2. HandlerVarsOK
  BY DEF ServerInv, HandlerTypeOK, HandlerVarsOK
<1> DEFINE Claim == /\ \A v \in Workers : Works(v)'
                   /\ HandlerVarsOK'
                   /\ (\E q \in {"search", "show", "answered"} :
                          phase' = [phase EXCEPT ![w] = q])
                   /\ request' = [request EXCEPT ![w] = r]
                   /\ up' = up
<1> SUFFICES Claim
  BY <1>1, <1>2 DEF HandlerVarsOK
<1>3. ASSUME NEW p \in Wanted(r), r.fen \in Boards, Show(w, r, p)
      PROVE  Claim
  <2>1. \A v \in Workers : Works(v)'
    BY <1>3, ShowWorks
  <2>2. /\ request' = [request EXCEPT ![w] = r]
        /\ phase' = [phase EXCEPT ![w] = "show"]
        /\ answer' = answer /\ up' = up
    BY <1>3 DEF Show
  <2>3. HandlerVarsOK'
    BY <1>2, <2>2 DEF HandlerVarsOK
  <2> QED
    BY <2>1, <2>2, <2>3
<1>4. ASSUME NEW status \in {200, 400}, AnswerNow(w, r, Plain(status)),
             r.fen \in Boards => status = 400 /\ r.then \in {"move", "malformed"}
      PROVE  Claim
  <2>1. \A v \in Workers : Works(v)'
    BY <1>1, <1>4, AnswerWorks DEF Plain
  <2>2. /\ request' = [request EXCEPT ![w] = r]
        /\ phase' = [phase EXCEPT ![w] = "answered"]
        /\ answer' = [answer EXCEPT ![w] = Plain(status)] /\ up' = up
    BY <1>4 DEF AnswerNow
  <2>3. HandlerVarsOK'
    BY <1>2, <2>2, PlainIsAnswer DEF HandlerVarsOK
  <2> QED
    BY <2>1, <2>2, <2>3
<1>5. NoFen \notin Boards /\ BadFen \notin Boards
  BY ChessAssumption
<1>6. CASE r.fen = NoFen /\ AnswerNow(w, r, Plain(200))
  BY <1>4, <1>5, <1>6
<1>7. CASE r.fen = BadFen /\ AnswerNow(w, r, Plain(400))
  BY <1>4, <1>5, <1>7
<1>8. CASE r.then = "malformed" /\ AnswerNow(w, r, Plain(400))
  BY <1>4, <1>8
<1>9. CASE r.fen \in Boards /\ r.then = "move" /\ MovePieces(w, r)
  <2>1. CASE AnswerNow(w, r, Plain(400))
    BY <1>4, <1>9, <2>1
  <2>2. ASSUME NEW m \in Playable(r), Show(w, r, m.next)
        PROVE  Claim
    <3>1. m.next \in Wanted(r)
      BY <1>9 DEF Wanted
    <3> QED
      BY <1>3, <1>9, <2>2, <3>1
  <2> QED
    BY <1>9, <2>1, <2>2 DEF MovePieces
<1>10. CASE r.fen \in Boards /\ r.then = "show" /\ Show(w, r, r.fen)
  <2>1. r.fen \in Wanted(r)
    BY <1>10 DEF Wanted
  <2> QED
    BY <1>3, <1>10, <2>1
<1>11. CASE /\ r.fen \in Boards /\ r.then = "ai"
            /\ request' = [request EXCEPT ![w] = r]
            /\ phase' = [phase EXCEPT ![w] = "search"]
            /\ UNCHANGED <<vars, answer, up>>
  <2>1. /\ request'[w] = r /\ phase'[w] = "search" /\ step'[w] = "idle"
        /\ step' = step /\ board' = board
    BY <1>1, <1>11 DEF vars, ServerInv, HandlerTypeOK, Works
  <2>2. Works(w)'
    BY <1>11, <2>1 DEF Works
  <2>3. \A v \in Workers : Works(v)'
    BY <1>11, <2>1, <2>2, OthersWork
  <2>4. HandlerVarsOK'
    BY <1>2, <1>11 DEF HandlerVarsOK
  <2> QED
    BY <1>11, <2>3, <2>4
<1> QED
  BY <1>6, <1>7, <1>8, <1>9, <1>10, <1>11 DEF Serve

\* handle_ai's search ends.
LEMMA RecommendWorks ==
    ASSUME ServerInv, NEW w \in Workers, Recommend(w)
    PROVE  /\ \A v \in Workers : Works(v)'
           /\ HandlerVarsOK'
           /\ phase[w] = "search" /\ phase' = [phase EXCEPT ![w] = "show"]
<1>1. PICK m \in Legal(request[w].fen) : Receive(w, m.next)
  BY DEF Recommend
<1>2. /\ phase[w] = "search" /\ phase' = [phase EXCEPT ![w] = "show"]
      /\ request' = request /\ answer' = answer /\ up' = up
  BY DEF Recommend
<1>3. /\ step' = [step EXCEPT ![w] = "read"]
      /\ board' = [board EXCEPT ![w] = m.next]
  BY <1>1 DEF Receive, Goto
<1>4. request[w].then = "ai" /\ request[w].fen \in Boards
  BY <1>2 DEF ServerInv, Works, HandlerInv, Known
<1>5. m.next \in Wanted(request[w])
  BY <1>4 DEF Wanted
<1>6. phase'[w] = "show" /\ step'[w] = "read" /\ board'[w] = m.next /\ request'[w] = request[w]
  BY <1>2, <1>3 DEF ServerInv, HandlerTypeOK, TypeOK
<1>7. Works(w)'
  BY <1>4, <1>5, <1>6 DEF Works
<1>8. \A v \in Workers : Works(v)'
  BY <1>2, <1>3, <1>7, OthersWork
<1>9. HandlerVarsOK'
  BY <1>2 DEF ServerInv, HandlerTypeOK, HandlerVarsOK
<1> QED
  BY <1>2, <1>8, <1>9

\* printBoard
LEMMA PrintWorks ==
    ASSUME ServerInv, NEW w \in Workers, PrintBoard(w)
    PROVE  /\ \A v \in Workers : Works(v)'
           /\ HandlerVarsOK'
           /\ phase' = phase
<1>1. request' = request /\ phase' = phase /\ answer' = answer /\ up' = up
  BY DEF PrintBoard, handlerVars
<1>2. /\ board' = board
      /\ \A v \in Workers : step'[v] # "idle" <=> step[v] # "idle"
      /\ \A v \in Workers \ {w} : step'[v] = step[v]
  BY DEF PrintBoard, ReadBuffer, StoreBuffer, PrintRow, TakeText, At, Goto,
         ServerInv, TypeInv, TypeOK
<1>3. Works(w)
  BY DEF ServerInv
<1>4. /\ Wanted(request'[w]) = Wanted(request[w])
      /\ Plays(request'[w], answer'[w]) = Plays(request[w], answer[w])
      /\ Prints(request'[w], answer'[w]) = Prints(request[w], answer[w])
  BY <1>1
<1>5. Works(w)'
  BY <1>1, <1>2, <1>3, <1>4 DEF Works
<1>6. \A v \in Workers : Works(v)'
  BY <1>1, <1>2, <1>5, OthersWork
<1>7. HandlerVarsOK'
  BY <1>1 DEF ServerInv, HandlerTypeOK, HandlerVarsOK
<1> QED
  BY <1>1, <1>6, <1>7

\* The board is printed and the answer complete: it is the board that was
\* wanted, and its text too if nothing disturbed it.
LEMMA FinishWorks ==
    ASSUME ServerInv, NEW w \in Workers, Finish(w)
    PROVE  /\ \A v \in Workers : Works(v)'
           /\ HandlerVarsOK'
           /\ phase[w] = "show" /\ phase' = [phase EXCEPT ![w] = "answered"]
<1> DEFINE r == request[w]
           b == board[w]
           shown == r.then = "show"
           a == [status |-> 200, text |-> body[w], mixed |-> w \in mixed,
                 fen |-> IF shown THEN NoFen ELSE b,
                 result |-> IF shown THEN "-" ELSE Chess.result[b]]
<1>1. /\ Restore(w)
      /\ answer' = [answer EXCEPT ![w] = a]
      /\ phase' = [phase EXCEPT ![w] = "answered"]
      /\ request' = request /\ up' = up
  BY DEF Finish
<1>2. /\ step[w] = "restore" /\ step' = [step EXCEPT ![w] = "idle"]
      /\ board' = board
  BY <1>1 DEF Restore, At, Goto
<1>3. phase[w] = "show" /\ r.fen \in Boards /\ b \in Wanted(r) /\ b \in Boards
  BY <1>2 DEF ServerInv, Works, TypeInv
<1>4. request'[w] = r /\ phase'[w] = "answered" /\ answer'[w] = a /\ step'[w] = "idle"
  BY <1>1, <1>2 DEF ServerInv, HandlerTypeOK, TypeOK
<1>5. /\ a.status = 200 /\ a.text = body[w] /\ (a.mixed <=> w \in mixed)
      /\ r.then # "show" => a.fen = b
  OBVIOUS
<1>6. Plays(r, a)
  BY <1>3, <1>5 DEF Plays
<1>7. ~a.mixed => Prints(r, a)
  <2> SUFFICES ASSUME ~a.mixed
               PROVE  Prints(r, a)
    OBVIOUS
  <2>1. Alone(w)
    BY <1>5 DEF ServerInv, AloneInv
  <2>2. body[w] = Text(b, Rows)
    BY <1>2, <2>1 DEF Alone, At, HasOwnBoard
  <2> QED
    BY <1>3, <1>5, <2>2 DEF Prints
<1>8. /\ Plays(request'[w], answer'[w])
      /\ ~answer'[w].mixed => Prints(request'[w], answer'[w])
  BY <1>4, <1>6, <1>7
<1>9. Works(w)'
  BY <1>4, <1>8 DEF Works
<1>10. \A v \in Workers : Works(v)'
  BY <1>1, <1>2, <1>9, OthersWork
<1>11. a \in Answers
  <2>1. body[w] \in Seq(Written)
    BY DEF ServerInv, TypeInv, TypeOK
  <2>2. Chess.result[b] \in {"w", "b", "d", "x"}
    BY <1>3, ChessAssumption
  <2> QED
    BY <1>3, <2>1, <2>2 DEF Answers
<1>12. HandlerVarsOK'
  BY <1>1, <1>11 DEF ServerInv, HandlerTypeOK, HandlerVarsOK
<1> QED
  BY <1>1, <1>3, <1>10, <1>12

\* The answer is sent.
LEMMA SendWorks ==
    ASSUME ServerInv, NEW w \in Workers, Send(w)
    PROVE  /\ \A v \in Workers : Works(v)'
           /\ HandlerVarsOK'
<1>1. /\ up /\ phase[w] = "answered" /\ up' = up
      /\ request' = [request EXCEPT ![w] = NoRequest]
      /\ answer' = [answer EXCEPT ![w] = NoAnswer]
      /\ phase' = [phase EXCEPT ![w] = "free"]
      /\ step[w] = "idle" /\ step' = step
      /\ board' = [board EXCEPT ![w] = NoBoard]
  BY DEF Send, Leave, At
<1>2. phase'[w] = "free" /\ step'[w] = "idle"
  BY <1>1 DEF ServerInv, HandlerTypeOK
<1>3. Works(w)'
  BY <1>2 DEF Works
<1>4. \A v \in Workers : Works(v)'
  BY <1>1, <1>3, OthersWork
<1>5. HandlerVarsOK'
  BY <1>1 DEF ServerInv, HandlerTypeOK, HandlerVarsOK
<1> QED
  BY <1>4, <1>5

\* While no request, answer, board or step changes, neither does the work.
LEMMA SameWork ==
    ASSUME ServerInv, request' = request, phase' = phase, answer' = answer,
           step' = step, board' = board
    PROVE  \A v \in Workers : Works(v)'
<1> SUFFICES ASSUME NEW v \in Workers
             PROVE  Works(v)'
  OBVIOUS
<1>1. Works(v)
  BY DEF ServerInv
<1>2. Plays(request'[v], answer'[v]) = Plays(request[v], answer[v])
      /\ Prints(request'[v], answer'[v]) = Prints(request[v], answer[v])
      /\ Wanted(request'[v]) = Wanted(request[v])
  OBVIOUS
<1> QED
  BY <1>1, <1>2 DEF Works

\* What the server keeps after a step that is one of the redirection's.
LEMMA ServerKept ==
    ASSUME ServerInv, HandlerInv', [Next]_vars, HandlerVarsOK',
           \A v \in Workers : Works(v)'
    PROVE  ServerInv'
<1>1. TypeInv' /\ AloneInv'
  BY TypeStep, AloneStep DEF ServerInv
<1>2. HandlerTypeOK'
  BY <1>1 DEF HandlerVarsOK, HandlerTypeOK, TypeInv
<1> QED
  BY <1>1, <1>2 DEF ServerInv

\* What the threads do.
LEMMA ServerStep ==
    ASSUME ServerInv, NEW w \in Workers,
           (\E r \in Requests : Serve(w, r)) \/ Work(w) \/ Send(w)
    PROVE  ServerInv'
<1>1. (\A v \in Workers : Works(v)') /\ HandlerVarsOK'
  BY ServeWorks, RecommendWorks, PrintWorks, FinishWorks, SendWorks DEF Work
<1>2. HandlerInv' /\ [Next]_vars
  BY ServeKnows, ServeRedirects, WorkKnows, WorkRedirects DEF ServerInv
<1> QED
  BY <1>1, <1>2, ServerKept

\* What happens beside them.
LEMMA BesideKeeps ==
    ASSUME ServerInv, Beside
    PROVE  ServerInv'
<1>1. /\ [Next]_vars
      /\ request' = request /\ phase' = phase /\ answer' = answer
      /\ step' = step /\ board' = board
  BY BesideRedirects
<1>2. HandlerInv'
  BY <1>1, SameKnown DEF ServerInv
<1>3. up' \in BOOLEAN
  BY DEF Beside, Corrupt, Overflow, Logged, handlerVars, ServerInv, HandlerTypeOK
<1>4. HandlerVarsOK'
  BY <1>1, <1>3 DEF ServerInv, HandlerTypeOK, HandlerVarsOK
<1> QED
  BY <1>1, <1>2, <1>4, SameWork, ServerKept

\* What the server keeps holds on when nothing of the server moves.
LEMMA ServerStays ==
    ASSUME ServerInv, UNCHANGED allVars
    PROVE  ServerInv'
<1>1. UNCHANGED vars /\ UNCHANGED handlerVars
  BY DEF allVars
<1>2. HandlerInv'
  BY <1>1, SameKnown DEF ServerInv, handlerVars
<1>3. HandlerVarsOK'
  BY <1>1 DEF ServerInv, HandlerTypeOK, HandlerVarsOK, handlerVars
<1>4. \A v \in Workers : Works(v)'
  BY <1>1, SameWork DEF vars, handlerVars
<1> QED
  BY <1>1, <1>2, <1>3, <1>4, ServerKept

\* It holds when the server comes up.
LEMMA ServerInit ==
    ASSUME HandlerInit
    PROVE  ServerInv
<1>1. TypeInv /\ AloneInv
  BY InitType, RedirectAssumption DEF HandlerInit, Init, AloneInv, Alone, At, Answered
<1>2. HandlerTypeOK
  BY <1>1 DEF HandlerInit, HandlerTypeOK, TypeInv
<1> QED
  BY <1>1, <1>2 DEF HandlerInit, Init, ServerInv, HandlerInv, Known, Works

----------------------------------------------------------------------------
(* The inductive invariant of page, visitors and server.                   *)

\* A thread at work serves a request that is under way and unanswered, and
\* none serves the same.
Linked(w) ==
    phase[w] # "free" =>
        /\ serving[w] \in Slots /\ flight[serving[w]] # Nothing
        /\ flight[serving[w]].request = request[w]
        /\ flight[serving[w]].answer = NoAnswer
        /\ \A v \in Workers : serving[v] = serving[w] => v = w

\* A request of a game is about one of its positions, unless the game is
\* spoilt, and keeps it alive; what came back answers it.
FlightFits(f) ==
    /\ flight[f].by \in Games =>
          /\ game[flight[f].by] # NoGame
          /\ flight[f].request.then \in {"move", "ai"}
          /\ ~game[flight[f].by].spoilt => flight[f].request.fen \in Reachable
    /\ flight[f].by = "start" => flight[f].request = Ask(Start, "show")
    /\ flight[f].answer # NoAnswer =>
          /\ Plays(flight[f].request, flight[f].answer)
          /\ ~flight[f].answer.mixed => Prints(flight[f].request, flight[f].answer)

Links == up => \A w \in Workers : Linked(w)

FlightsFit == \A f \in Slots : flight[f] # Nothing => FlightFits(f)

ScreenLives == screen.owner # NoGame => game[screen.owner] # NoGame

PageInv ==
    /\ ServerInv
    /\ ClientTypeOK
    /\ Links
    /\ FlightsFit
    /\ ScreenLives
    /\ FenReachable

\* The position the next click is sent with.
Shown == game[screen.owner].FEN

\* Whether it is one of the game on the screen.
Sound == screen.owner # NoGame /\ ~game[screen.owner].spoilt

\* A request of a player who waits is of the game on the screen: about its
\* position, and for the move of the side whose turn it is.
Asked(f) ==
    /\ flight[f].by = screen.owner
    /\ Sound => /\ flight[f].request.fen = Shown
                /\ flight[f].request.then = "ai" <=> Chess.side[Shown] = "black"

OneAsked == \A e, f \in Pending : e = f

AllAsked == \A f \in Of(Games) : Asked(f)

\* Black's move has always been asked for.
BlackAsked ==
    up /\ Sound /\ Chess.side[Shown] = "black" => Of({screen.owner}) # {}

BoardShown ==
    Sound /\ ~screen.mixed =>
        screen.shows = Shown /\ (screen.reversed <=> Chess.side[screen.shows] = "black")

TurnInv == haste = 0 => OneAsked /\ AllAsked /\ BlackAsked /\ BoardShown

----------------------------------------------------------------------------
(* Positions, names and slots.                                             *)

\* The position a new game starts from is reached.
LEMMA StartReachable == Start \in Reachable
BY TurnAssumption DEF Reachable

\* Whatever is reached is a board.
LEMMA ReachableBoards == Reachable \subseteq Boards
BY DEF Reachable

\* A legal move from a reached position reaches its next one.
LEMMA NextReachable ==
    ASSUME NEW p \in Reachable, NEW m \in Legal(p)
    PROVE  m.next \in Reachable
<1>1. m.next \in Boards
  BY ReachableBoards, NextIsBoard
<1>2. ASSUME NEW S \in SUBSET Boards, Start \in S, Closed(S)
      PROVE  m.next \in S
  <2>1. p \in S
    BY <1>2 DEF Reachable
  <2> QED
    BY <1>2, <2>1 DEF Closed
<1> QED
  BY <1>1, <1>2 DEF Reachable

\* What a request about such a position wants is such a position.
LEMMA WantedReachable ==
    ASSUME NEW r, r.fen \in Reachable, NEW p \in Wanted(r)
    PROVE  p \in Reachable
BY NextReachable DEF Wanted, Playable

\* A text that is a board draws it.
LEMMA DrawsBoard ==
    ASSUME NEW p \in Boards
    PROVE  Drawn(Text(p, Rows)) = p
<1>1. Rows \in Nat /\ Rows > 0
  BY RedirectAssumption, ClientAssumption
<1>2. \A q \in Boards : Len(Text(q, Rows)) = Rows
                     /\ Text(q, Rows) \in Seq({q} \X (1..Rows))
                     /\ Text(q, Rows)[1] = <<q, 1>>
  BY <1>1 DEF Text
<1>3. SubSeq(Text(p, Rows), 1, Rows) = Text(p, Rows)
  BY <1>1 DEF Text
<1>4. ASSUME NEW q \in Boards, Text(p, Rows) = Text(q, Rows)
      PROVE  q = p
  <2>1. <<p, 1>> = <<q, 1>>
    BY <1>2, <1>4
  <2> QED
    BY <2>1
<1> QED
  BY <1>1, <1>2, <1>3, <1>4 DEF Drawn

\* What the page draws of a text is a board, or nothing.
LEMMA DrawnType ==
    ASSUME NEW text
    PROVE  Drawn(text) \in Boards \cup {Nothing}
BY DEF Drawn

\* A request of no game leaves a name free for a new one.
LEMMA FreeName ==
    ASSUME NEW f \in Slots, flight[f] = Nothing \/ flight[f].by \notin Games
    PROVE  \E g \in Games : Of({g}) = {}
<1> SUFFICES ASSUME \A g \in Games : Of({g}) # {}
             PROVE  FALSE
  OBVIOUS
<1> DEFINE pick == [g \in Games |-> CHOOSE e \in Slots : flight[e] # Nothing /\ flight[e].by = g]
<1>1. ASSUME NEW g \in Games
      PROVE  pick[g] \in Slots /\ flight[pick[g]] # Nothing /\ flight[pick[g]].by = g
  <2>1. \E e \in Slots : flight[e] # Nothing /\ flight[e].by = g
    BY DEF Of
  <2> QED
    BY <2>1
<1>2. pick \in [Games -> Slots \ {f}]
  BY <1>1
<1>3. /\ IsFiniteSet(Games) /\ IsFiniteSet(Slots \ {f})
      /\ Cardinality(Slots \ {f}) < Cardinality(Games)
  <2>1. /\ IsFiniteSet(Games) /\ IsFiniteSet(Slots)
        /\ Cardinality(Slots) <= Cardinality(Games)
    BY ClientAssumption
  <2>2. Cardinality(Slots) \in Nat /\ Cardinality(Games) \in Nat
    BY <2>1, FS_CardinalityType
  <2>3. IsFiniteSet(Slots \ {f}) /\ Cardinality(Slots \ {f}) = Cardinality(Slots) - 1
    BY <2>1, FS_RemoveElement
  <2> QED
    BY <2>1, <2>2, <2>3
<1> HIDE DEF pick
<1>4. PICK g, h \in Games : g # h /\ pick[g] = pick[h]
  BY <1>2, <1>3, FS_PigeonHole
<1> QED
  BY <1>1, <1>4

\* A request leaves in a free slot.
LEMMA FetchSlot ==
    ASSUME ClientTypeOK, NEW by \in Games \cup {"start", "visitor"}, NEW r \in Requests,
           Fetch(by, r)
    PROVE  \E f \in Slots : /\ flight[f] = Nothing
                            /\ flight' = [flight EXCEPT ![f] = Flight(by, r)]
                            /\ flight'[f] = Flight(by, r) /\ Flight(by, r) # Nothing
                            /\ flight' \in [Slots -> Flights \cup {Nothing}]
<1>1. Flight(by, r) \in Flights
  BY DEF Flight, Flights
<1> DEFINE f == CHOOSE f \in Free : TRUE
<1>2. f \in Slots /\ flight[f] = Nothing
  BY DEF Fetch, Free
<1> HIDE DEF f
<1>3. flight' = [flight EXCEPT ![f] = Flight(by, r)]
  BY DEF Fetch, f
<1> QED
  BY <1>1, <1>2, <1>3, ClientAssumption DEF ClientTypeOK

\* Whose requests are under way when slot f has changed.
LEMMA OfAfter ==
    ASSUME DOMAIN flight = Slots, NEW f \in Slots, NEW x,
           flight' = [flight EXCEPT ![f] = x]
    PROVE  \A by : {e \in Slots : flight'[e] # Nothing /\ flight'[e].by \in by}
                      = (Of(by) \ {f}) \cup (IF x # Nothing /\ x.by \in by THEN {f} ELSE {})
BY DEF Of

----------------------------------------------------------------------------
(* Clicks and visits.                                                      *)

\* What a request that leaves must say.
LEMMA FetchFits ==
    ASSUME PageInv, NEW by \in Games \cup {"start", "visitor"}, NEW r \in Requests,
           Fetch(by, r), UNCHANGED <<serving, allVars>>,
           \A g \in Games :
              game[g] # NoGame => game'[g] # NoGame /\ game'[g].spoilt = game[g].spoilt,
           by \in Games => /\ game[by] # NoGame
                           /\ r.then \in {"move", "ai"}
                           /\ ~game[by].spoilt => r.fen \in Reachable,
           by = "start" => r = Ask(Start, "show")
    PROVE  Links' /\ FlightsFit'
<1>1. PICK f \in Slots : /\ flight[f] = Nothing
                        /\ flight' = [flight EXCEPT ![f] = Flight(by, r)]
                        /\ flight'[f] = Flight(by, r)
  BY FetchSlot DEF PageInv
<1>2. \A e \in Slots \ {f} : flight'[e] = flight[e]
  BY <1>1 DEF PageInv, ClientTypeOK
<1>3. up' = up /\ phase' = phase /\ request' = request
      /\ serving' = serving
  BY DEF allVars, vars, handlerVars
<1>4. Links'
  <2> SUFFICES ASSUME up, NEW w \in Workers, phase[w] # "free"
               PROVE  Linked(w)'
    BY <1>3 DEF Links, Linked
  <2>1. Linked(w)
    BY DEF PageInv, Links
  <2>2. serving[w] # f /\ serving[w] \in Slots
    BY <1>1, <2>1 DEF Linked
  <2>3. flight'[serving[w]] = flight[serving[w]]
    BY <1>2, <2>2
  <2> QED
    BY <1>3, <2>1, <2>3 DEF Linked
<1>5. ASSUME NEW e \in Slots, flight'[e] # Nothing
      PROVE  FlightFits(e)'
  <2>1. CASE e = f
    <3>1. flight'[e].by = by /\ flight'[e].request = r /\ flight'[e].answer = NoAnswer
      BY <1>1, <2>1 DEF Flight
    <3> QED
      BY <3>1 DEF FlightFits
  <2>2. CASE e # f
    <3>1. flight'[e] = flight[e]
      BY <1>2, <2>2
    <3>2. FlightFits(e)
      BY <1>5, <3>1 DEF PageInv, FlightsFit
    <3>3. Plays(flight'[e].request, flight'[e].answer)
              = Plays(flight[e].request, flight[e].answer)
          /\ Prints(flight'[e].request, flight'[e].answer)
              = Prints(flight[e].request, flight[e].answer)
      BY <3>1
    <3> QED
      BY <1>3, <3>1, <3>2, <3>3 DEF FlightFits
  <2> QED
    BY <2>1, <2>2
<1> QED
  BY <1>4, <1>5 DEF FlightsFit

\* Start New Game
LEMMA StartKeeps ==
    ASSUME PageInv, TurnInv, StartNewGame
    PROVE  PageInv' /\ TurnInv'
<1> DEFINE r == Ask(Start, "show")
<1>1. /\ Fetch("start", r) /\ Hurry
      /\ UNCHANGED <<serving, game, screen, visits, allVars>>
  BY DEF StartNewGame
<1>2. r \in Requests
  BY ClientAssumption, TurnAssumption DEF Fens
<1>3. PICK f \in Slots : /\ flight[f] = Nothing
                        /\ flight' = [flight EXCEPT ![f] = Flight("start", r)]
                        /\ flight'[f] = Flight("start", r)
                        /\ flight' \in [Slots -> Flights \cup {Nothing}]
  BY <1>1, <1>2, FetchSlot DEF PageInv
<1>4. "start" \notin Games
  BY ClientAssumption
<1>5. PageInv'
  <2>1. ServerInv'
    BY <1>1, ServerStays DEF PageInv
  <2>2. ClientTypeOK'
    <3>1. haste' \in Nat /\ haste' + visits' <= MaxMeetings
      BY <1>1 DEF Hurry, PageInv, ClientTypeOK
    <3> QED
      BY <1>1, <1>3, <2>1, <3>1 DEF PageInv, ClientTypeOK, ServerInv
  <2>3. Links' /\ FlightsFit'
    BY <1>1, <1>2, <1>4, FetchFits
  <2>4. ScreenLives' /\ FenReachable'
    BY <1>1 DEF PageInv, ScreenLives, FenReachable
  <2> QED
    BY <2>1, <2>2, <2>3, <2>4 DEF PageInv
<1>6. TurnInv'
  <2> SUFFICES ASSUME haste' = 0
               PROVE  OneAsked' /\ AllAsked' /\ BlackAsked' /\ BoardShown'
    BY DEF TurnInv
  <2>1. haste = 0 /\ Pending = {}
    BY <1>1 DEF Hurry, PageInv, ClientTypeOK
  <2>2. Of(Games) = {}
    BY <2>1 DEF Pending, Of
  <2>3. \A e \in Slots : flight'[e] # Nothing /\ flight'[e].by \in Games \cup {"start"} => e = f
    BY <1>3, <2>1 DEF Pending, Of, PageInv, ClientTypeOK
  <2>4. OneAsked'
    BY <2>3 DEF OneAsked, Pending, Of
  <2>5. AllAsked'
    BY <1>3, <1>4, <2>3 DEF AllAsked, Of, Flight
  <2>6. BlackAsked'
    <3>1. Of({screen.owner}) = {} \/ screen.owner = NoGame
      BY <2>2 DEF Of, PageInv, ClientTypeOK
    <3>2. ~(up /\ Sound /\ Chess.side[Shown] = "black")
      BY <2>1, <3>1 DEF TurnInv, BlackAsked, Sound
    <3>3. screen' = screen /\ up' = up /\ Shown' = Shown /\ Sound' = Sound
      BY <1>1 DEF allVars, handlerVars, Shown, Sound
    <3> QED
      BY <3>2, <3>3 DEF BlackAsked
  <2>7. BoardShown'
    BY <1>1, <2>1 DEF TurnInv, BoardShown, Shown, Sound
  <2> QED
    BY <2>4, <2>5, <2>6, <2>7
<1> QED
  BY <1>5, <1>6

\* A visitor's request is none of the player's.
LEMMA VisitKeeps ==
    ASSUME PageInv, TurnInv, Visit
    PROVE  PageInv' /\ TurnInv'
<1>1. PICK r \in Visits : Fetch("visitor", r)
  BY DEF Visit
<1>2. /\ haste + visits < MaxMeetings /\ visits' = visits + 1
      /\ UNCHANGED <<serving, game, screen, haste, allVars>>
  BY DEF Visit
<1>3. r \in Requests /\ "visitor" \notin Games
  BY ClientAssumption
<1>4. PICK f \in Slots : /\ flight[f] = Nothing
                        /\ flight' = [flight EXCEPT ![f] = Flight("visitor", r)]
                        /\ flight'[f] = Flight("visitor", r)
                        /\ flight' \in [Slots -> Flights \cup {Nothing}]
  BY <1>1, <1>3, FetchSlot DEF PageInv
<1>5. PageInv'
  <2>1. ServerInv'
    BY <1>2, ServerStays DEF PageInv
  <2>2. ClientTypeOK'
    <3>1. visits' \in Nat /\ haste' + visits' <= MaxMeetings
      BY <1>2, ClientAssumption DEF PageInv, ClientTypeOK
    <3> QED
      BY <1>2, <1>4, <2>1, <3>1 DEF PageInv, ClientTypeOK, ServerInv
  <2>3. Links' /\ FlightsFit'
    BY <1>1, <1>2, <1>3, FetchFits
  <2>4. ScreenLives' /\ FenReachable'
    BY <1>2 DEF PageInv, ScreenLives, FenReachable
  <2> QED
    BY <2>1, <2>2, <2>3, <2>4 DEF PageInv
<1>6. TurnInv'
  <2>1. flight'[f].by = "visitor"
    BY <1>4 DEF Flight
  <2>2. \A e \in Slots : e # f => flight'[e] = flight[e]
    BY <1>4 DEF PageInv, ClientTypeOK
  <2>3. Pending' \subseteq Pending
    <3> SUFFICES ASSUME NEW e \in Slots, flight'[e] # Nothing,
                        flight'[e].by \in Games \cup {"start"}
                 PROVE  e \in Pending
      BY DEF Pending, Of
    <3>1. e # f
      BY <1>3, <2>1
    <3> QED
      BY <2>2, <3>1 DEF Pending, Of
  <2>4. ASSUME NEW e \in Slots, flight'[e] # Nothing, flight'[e].by \in Games
        PROVE  e \in Of(Games) /\ flight'[e] = flight[e]
    <3>1. e # f
      BY <1>3, <2>1, <2>4
    <3> QED
      BY <2>2, <2>4, <3>1 DEF Of
  <2>5. (screen.owner # NoGame /\ Of({screen.owner}) # {}) => Of({screen.owner})' # {}
    <3> SUFFICES ASSUME NEW e \in Slots, flight[e] # Nothing, flight[e].by = screen.owner
                 PROVE  e \in Of({screen.owner})'
      BY DEF Of
    <3>1. flight'[e] = flight[e]
      BY <1>4, <2>2
    <3>2. screen' = screen
      BY <1>2
    <3> QED
      BY <3>1, <3>2 DEF Of
  <2>6. /\ screen' = screen /\ Shown' = Shown /\ Sound' = Sound
        /\ up' = up /\ haste' = haste
    BY <1>2 DEF allVars, handlerVars, Shown, Sound
  <2> SUFFICES ASSUME haste = 0
               PROVE  OneAsked' /\ AllAsked' /\ BlackAsked' /\ BoardShown'
    BY <2>6 DEF TurnInv
  <2>7. OneAsked'
    BY <2>3 DEF TurnInv, OneAsked
  <2>8. AllAsked'
    BY <2>4, <2>6 DEF TurnInv, AllAsked, Asked, Of
  <2>9. BlackAsked'
    BY <2>5, <2>6 DEF TurnInv, BlackAsked, Sound
  <2>10. BoardShown'
    BY <2>6 DEF TurnInv, BoardShown
  <2> QED
    BY <2>7, <2>8, <2>9, <2>10
<1> QED
  BY <1>5, <1>6

\* The first click, or the same square again.
LEMMA SelectKeeps ==
    ASSUME PageInv, TurnInv, NEW sq \in Clicks, screen.owner # NoGame,
           Select(screen.owner, sq) \/ Reselect(screen.owner, sq)
    PROVE  PageInv' /\ TurnInv'
<1> DEFINE g == screen.owner
<1>1. PICK c \in {<< >>, <<sq>>} : game' = [game EXCEPT ![g].completeMove = c]
  BY DEF Select, Reselect
<1>2. UNCHANGED <<flight, serving, screen, haste, visits, allVars>>
  BY DEF Select, Reselect
<1>3. g \in Games /\ game[g] \in Closures
  BY DEF PageInv, ClientTypeOK, ScreenLives
<1>4. /\ game'[g] \in Closures /\ game'[g].FEN = game[g].FEN
      /\ game'[g].spoilt = game[g].spoilt
  BY <1>1, <1>3 DEF PageInv, ClientTypeOK, Closures
<1>5. game' \in [Games -> Closures \cup {NoGame}]
  BY <1>1, <1>3, <1>4, ClientAssumption DEF PageInv, ClientTypeOK
<1>5a. \A h \in Games : game[h] # NoGame <=> game'[h] # NoGame
  BY <1>1, <1>3, <1>4, ClientAssumption DEF PageInv, ClientTypeOK
<1>5b. \A h \in Games :
          game[h] # NoGame =>
              game'[h].FEN = game[h].FEN /\ game'[h].spoilt = game[h].spoilt
  BY <1>1, <1>3, <1>4, ClientAssumption DEF PageInv, ClientTypeOK
<1>6. up' = up /\ phase' = phase /\ request' = request
      /\ flight' = flight /\ serving' = serving /\ screen' = screen /\ haste' = haste
  BY <1>2 DEF allVars, vars, handlerVars
<1>7. PageInv'
  <2>1. ServerInv'
    BY <1>2, ServerStays DEF PageInv
  <2>2. ClientTypeOK'
    BY <1>2, <1>5, <2>1 DEF PageInv, ClientTypeOK, ServerInv
  <2>3. Links'
    BY <1>6 DEF PageInv, Links, Linked
  <2>4. FlightsFit'
    <3> SUFFICES ASSUME NEW e \in Slots, flight[e] # Nothing
                 PROVE  FlightFits(e)'
      BY <1>6 DEF FlightsFit
    <3>1. FlightFits(e)
      BY DEF PageInv, FlightsFit
    <3>2. Plays(flight'[e].request, flight'[e].answer)
              = Plays(flight[e].request, flight[e].answer)
          /\ Prints(flight'[e].request, flight'[e].answer)
              = Prints(flight[e].request, flight[e].answer)
      BY <1>6
    <3> QED
      BY <1>5a, <1>5b, <1>6, <3>1, <3>2 DEF FlightFits
  <2>5. ScreenLives'
    <3>1. screen' = screen
      BY <1>6
    <3> QED
      BY <1>3, <1>5a, <3>1 DEF PageInv, ScreenLives
  <2>6. FenReachable'
    BY <1>5a, <1>5b DEF PageInv, FenReachable
  <2> QED
    BY <2>1, <2>2, <2>3, <2>4, <2>5, <2>6 DEF PageInv
<1>8. TurnInv'
  <2>1. Shown' = Shown /\ Sound' = Sound
    BY <1>4, <1>6 DEF Shown, Sound
  <2> QED
    BY <1>6, <2>1 DEF TurnInv, OneAsked, AllAsked, Asked, BlackAsked, BoardShown, Pending, Of
<1> QED
  BY <1>7, <1>8

\* The second click sends the position on the screen.
LEMMA SendKeeps ==
    ASSUME PageInv, TurnInv, up, NEW sq \in Clicks, screen.owner # NoGame,
           SendMove(screen.owner, sq)
    PROVE  PageInv' /\ TurnInv'
<1> DEFINE g == screen.owner
           r == AskMove(game[g].FEN, game[g].completeMove[1], sq)
<1>1. /\ game[g].completeMove \notin {<< >>, <<sq>>}
      /\ Fetch(g, r) /\ Hurry
      /\ game' = [game EXCEPT ![g].completeMove = << >>]
      /\ UNCHANGED <<serving, screen, visits, allVars>>
  BY DEF SendMove
<1>2. g \in Games /\ game[g] \in Closures /\ game[g] # NoGame
  BY DEF PageInv, ClientTypeOK, ScreenLives
<1>3. (~game[g].spoilt => game[g].FEN \in Reachable) /\ game[g].FEN \in Fens
  BY <1>2 DEF PageInv, FenReachable, Closures
<1>4. PICK c \in Clicks : game[g].completeMove = <<c>>
  BY <1>1, <1>2 DEF Closures
<1>5. r = AskMove(game[g].FEN, c, sq) /\ r \in Requests
  BY <1>3, <1>4, ClientAssumption
<1>6. /\ game'[g] \in Closures /\ game'[g].FEN = game[g].FEN
      /\ game'[g].spoilt = game[g].spoilt
  BY <1>1, <1>2 DEF PageInv, ClientTypeOK, Closures
<1>7. game' \in [Games -> Closures \cup {NoGame}]
  BY <1>1, <1>2, <1>6, ClientAssumption DEF PageInv, ClientTypeOK
<1>7a. \A h \in Games : game[h] # NoGame <=> game'[h] # NoGame
  BY <1>1, <1>2, <1>6, ClientAssumption DEF PageInv, ClientTypeOK
<1>7b. \A h \in Games :
          game[h] # NoGame =>
              game'[h].FEN = game[h].FEN /\ game'[h].spoilt = game[h].spoilt
  BY <1>1, <1>2, <1>6, ClientAssumption DEF PageInv, ClientTypeOK
<1> HIDE DEF r
<1>8. r.fen = game[g].FEN /\ r.then = "move"
  BY <1>5 DEF AskMove
<1>9. PICK f \in Slots : /\ flight[f] = Nothing
                        /\ flight' = [flight EXCEPT ![f] = Flight(g, r)]
                        /\ flight'[f] = Flight(g, r)
                        /\ flight' \in [Slots -> Flights \cup {Nothing}]
  BY <1>1, <1>2, <1>5, FetchSlot DEF PageInv
<1>10. g # "start"
  BY <1>2, ClientAssumption
<1>11. screen' = screen /\ up' = up /\ Shown' = Shown /\ Sound' = Sound
  BY <1>1, <1>6 DEF allVars, handlerVars, Shown, Sound
<1>12. PageInv'
  <2>1. ServerInv'
    BY <1>1, ServerStays DEF PageInv
  <2>2. ClientTypeOK'
    <3>1. haste' \in Nat /\ haste' + visits' <= MaxMeetings
      BY <1>1 DEF Hurry, PageInv, ClientTypeOK
    <3> QED
      BY <1>1, <1>7, <1>9, <2>1, <3>1 DEF PageInv, ClientTypeOK, ServerInv
  <2>3. Links' /\ FlightsFit'
    BY <1>1, <1>2, <1>3, <1>5, <1>7a, <1>7b, <1>8, <1>10, FetchFits
  <2>4. ScreenLives' /\ FenReachable'
    BY <1>2, <1>7a, <1>7b, <1>11 DEF PageInv, ScreenLives, FenReachable
  <2> QED
    BY <2>1, <2>2, <2>3, <2>4 DEF PageInv
<1>13. TurnInv'
  <2> SUFFICES ASSUME haste' = 0
               PROVE  OneAsked' /\ AllAsked' /\ BlackAsked' /\ BoardShown'
    BY DEF TurnInv
  <2>1. haste = 0 /\ Pending = {}
    BY <1>1 DEF Hurry, PageInv, ClientTypeOK
  <2>2. Of({g}) = {}
    BY <1>2, <2>1 DEF Pending, Of
  <2>3. \A e \in Slots : flight'[e] # Nothing /\ flight'[e].by \in Games \cup {"start"} => e = f
    BY <1>9, <2>1 DEF Pending, Of, PageInv, ClientTypeOK
  <2>4. OneAsked'
    BY <2>3 DEF OneAsked, Pending, Of
  <2>5. Sound => Chess.side[Shown] # "black"
    BY <2>1, <2>2 DEF TurnInv, BlackAsked
  <2>6. Asked(f)'
    BY <1>8, <1>9, <1>11, <2>5 DEF Asked, Flight, Shown
  <2>7. AllAsked'
    BY <2>3, <2>6 DEF AllAsked, Of
  <2>8. BlackAsked'
    BY <1>11, <2>5 DEF BlackAsked
  <2>9. BoardShown'
    BY <1>11, <2>1 DEF TurnInv, BoardShown
  <2> QED
    BY <2>4, <2>7, <2>8, <2>9
<1> QED
  BY <1>12, <1>13

----------------------------------------------------------------------------
(* Responses.                                                              *)

\* What is left of the closures.
LEMMA Kept ==
    ASSUME NEW closures \in [Games -> Closures \cup {NoGame}], Keep(closures)
    PROVE  /\ game' \in [Games -> Closures \cup {NoGame}]
           /\ \A g \in Games : game'[g] # NoGame => game'[g] = closures[g]
           /\ \A g \in Games : screen'.owner = g => game'[g] = closures[g]
           /\ \A e \in Slots : flight'[e] # Nothing /\ flight'[e].by \in Games =>
                  game'[flight'[e].by] = closures[flight'[e].by]
BY DEF Keep

\* A request that has come back is gone, or followed by the next.
LEMMA LandFits ==
    ASSUME PageInv, NEW f \in Slots, flight[f] # Nothing,
           up => flight[f].answer # NoAnswer,
           NEW x, flight' = [flight EXCEPT ![f] = x],
           UNCHANGED <<serving, allVars>>,
           \A e \in Slots : flight'[e] # Nothing /\ flight'[e].by \in Games =>
                              game'[flight'[e].by] # NoGame,
           \A e \in Slots \ {f} : flight[e] # Nothing /\ flight[e].by \in Games
                  /\ game[flight[e].by].spoilt => game'[flight[e].by].spoilt,
           x # Nothing => /\ x.by \in Games /\ x.answer = NoAnswer
                          /\ x.request.then \in {"move", "ai"}
                          /\ ~game'[x.by].spoilt => x.request.fen \in Reachable
    PROVE  Links' /\ FlightsFit'
<1>1. flight'[f] = x /\ \A e \in Slots \ {f} : flight'[e] = flight[e]
  BY DEF PageInv, ClientTypeOK
<1>2. up' = up /\ phase' = phase /\ request' = request
      /\ serving' = serving
  BY DEF allVars, vars, handlerVars
<1>3. Links'
  <2> SUFFICES ASSUME up, NEW w \in Workers, phase[w] # "free"
               PROVE  Linked(w)'
    BY <1>2 DEF Links, Linked
  <2>1. Linked(w)
    BY DEF PageInv, Links
  <2>2. serving[w] # f /\ serving[w] \in Slots
    BY <2>1 DEF Linked
  <2>3. flight'[serving[w]] = flight[serving[w]]
    BY <1>1, <2>2
  <2> QED
    BY <1>2, <2>1, <2>3 DEF Linked
<1>4. ASSUME NEW e \in Slots, flight'[e] # Nothing
      PROVE  FlightFits(e)'
  <2>1. CASE e = f
    <3>1. flight'[e] = x /\ "start" \notin Games
      BY <1>1, <2>1, ClientAssumption
    <3> QED
      BY <1>4, <3>1 DEF FlightFits
  <2>2. CASE e # f
    <3>1. flight'[e] = flight[e]
      BY <1>1, <2>2
    <3>2. FlightFits(e)
      BY <1>4, <3>1 DEF PageInv, FlightsFit
    <3>3. Plays(flight'[e].request, flight'[e].answer)
              = Plays(flight[e].request, flight[e].answer)
          /\ Prints(flight'[e].request, flight'[e].answer)
              = Prints(flight[e].request, flight[e].answer)
      BY <3>1
    <3>4. flight'[e].by \in Games =>
              /\ game'[flight'[e].by] # NoGame
              /\ game[flight'[e].by].spoilt => game'[flight'[e].by].spoilt
      BY <1>4, <2>2, <3>1
    <3> QED
      BY <1>2, <3>1, <3>2, <3>3, <3>4 DEF FlightFits
  <2> QED
    BY <2>1, <2>2
<1> QED
  BY <1>3, <1>4 DEF FlightsFit

\* A move that answers a request for one.
Answering(r, q, m) ==
    /\ m.next = q
    /\ r.then = "move" => m.from = r.from /\ m.to = r.to

\* The answer to a request of a game: the position a legal move leads to, and
\* what is drawn.
Draws(r, a) ==
    /\ a.fen \in Reachable
    /\ Chess.side[a.fen] # Chess.side[r.fen]
    /\ \E m \in Legal(r.fen) : Answering(r, a.fen, m)
    /\ ~a.mixed => Drawn(a.text) = a.fen

\* A position a move or AI request asks for is a legal move's away.
LEMMA WantedAnswers ==
    ASSUME NEW r, r.fen \in Boards, r.then \in {"move", "ai"}, NEW q \in Wanted(r)
    PROVE  \E m \in Legal(r.fen) : Answering(r, q, m)
BY DEF Wanted, Playable, Answering

\* An accepted answer that plays and prints what was asked can be drawn.
LEMMA AnswerDraws ==
    ASSUME NEW r, NEW a, r.then \in {"move", "ai"}, r.fen \in Reachable,
           a.status = 200, Plays(r, a), ~a.mixed => Prints(r, a)
    PROVE  Draws(r, a)
<1>1. r.fen \in Boards
  BY ReachableBoards
<1>2. a.fen \in Wanted(r)
  BY <1>1 DEF Plays
<1>3. a.fen \in Reachable /\ a.fen \in Boards
  BY <1>2, WantedReachable, ReachableBoards
<1>4. PICK m \in Legal(r.fen) : Answering(r, a.fen, m)
  BY <1>1, <1>2, WantedAnswers
<1>5. Chess.side[a.fen] # Chess.side[r.fen]
  <2>1. m.next = a.fen
    BY <1>4 DEF Answering
  <2>2. Chess.side[m.next] # Chess.side[r.fen]
    BY <1>1, TurnAssumption
  <2> QED
    BY <2>1, <2>2
<1>6. ASSUME ~a.mixed
      PROVE  Drawn(a.text) = a.fen
  <2>1. a.text = Text(a.fen, Rows)
    BY <1>1, <1>6 DEF Prints
  <2> QED
    BY <1>3, <2>1, DrawsBoard
<1> QED
  BY <1>3, <1>4, <1>5, <1>6 DEF Draws

\* Black's move is never refused to a game that is not spoilt.
LEMMA BlackAnswered ==
    ASSUME PageInv, NEW f \in Slots, flight[f] # Nothing, flight[f].by \in Games,
           flight[f].answer # NoAnswer, flight[f].request.then = "ai",
           ~game[flight[f].by].spoilt
    PROVE  flight[f].answer.status = 200
<1>1. /\ flight[f].request.fen \in Reachable
      /\ Plays(flight[f].request, flight[f].answer)
  BY DEF PageInv, FlightsFit, FlightFits
<1> QED
  BY <1>1, ReachableBoards DEF Plays

\* What a response leaves: x is the request that follows, if one does.
LEMMA ResponseKeeps ==
    ASSUME PageInv, NEW f \in Slots, flight[f] # Nothing,
           up => flight[f].answer # NoAnswer,
           NEW x \in Flights \cup {Nothing}, flight' = [flight EXCEPT ![f] = x],
           UNCHANGED <<serving, haste, visits, allVars>>,
           NEW closures \in [Games -> Closures \cup {NoGame}], Keep(closures),
           \A g \in Games : game[g] # NoGame => closures[g] # NoGame,
           \A e \in Slots \ {f} : flight[e] # Nothing /\ flight[e].by \in Games
                  /\ game[flight[e].by].spoilt => closures[flight[e].by].spoilt,
           \A g \in Games :
              closures[g] # NoGame /\ ~closures[g].spoilt => closures[g].FEN \in Reachable,
           screen' \in [owner : Games \cup {NoGame}, shows : Boards \cup {Nothing},
                        reversed : BOOLEAN, mixed : BOOLEAN],
           screen'.owner # NoGame => closures[screen'.owner] # NoGame,
           x # Nothing => /\ x.by \in Games /\ closures[x.by] # NoGame
                          /\ x.answer = NoAnswer
                          /\ x.request.then \in {"move", "ai"}
                          /\ ~closures[x.by].spoilt => x.request.fen \in Reachable
    PROVE  PageInv'
<1>1. /\ game' \in [Games -> Closures \cup {NoGame}]
      /\ \A g \in Games : game'[g] # NoGame => game'[g] = closures[g]
  BY Kept
<1>2. \A g \in Games : screen'.owner = g => game'[g] = closures[g]
  BY Kept
<1>3. \A e \in Slots : flight'[e] # Nothing /\ flight'[e].by \in Games =>
          game'[flight'[e].by] = closures[flight'[e].by]
  BY Kept
<1>4. flight'[f] = x /\ \A e \in Slots \ {f} : flight'[e] = flight[e]
  BY DEF PageInv, ClientTypeOK
<1>5. ASSUME NEW e \in Slots, flight'[e] # Nothing, flight'[e].by \in Games
      PROVE  game'[flight'[e].by] # NoGame
  <2>1. game'[flight'[e].by] = closures[flight'[e].by]
    BY <1>3, <1>5
  <2>2. CASE e = f
    BY <1>4, <1>5, <2>1, <2>2
  <2>3. CASE e # f
    <3>1. flight'[e] = flight[e]
      BY <1>4, <2>3
    <3>2. game[flight[e].by] # NoGame
      BY <1>5, <3>1 DEF PageInv, FlightsFit, FlightFits
    <3> QED
      BY <1>5, <2>1, <3>1, <3>2
  <2> QED
    BY <2>2, <2>3
<1>6. Links' /\ FlightsFit'
  <2>1. ASSUME NEW e \in Slots \ {f}, flight[e] # Nothing, flight[e].by \in Games,
               game[flight[e].by].spoilt
        PROVE  game'[flight[e].by].spoilt
    BY <1>3, <1>4, <2>1
  <2>2. x # Nothing => game'[x.by] = closures[x.by]
    BY <1>3, <1>4
  <2> QED
    BY <1>5, <2>1, <2>2, LandFits
<1>7. ServerInv'
  BY ServerStays DEF PageInv
<1>8. ClientTypeOK'
  <2>1. flight' \in [Slots -> Flights \cup {Nothing}]
    BY DEF PageInv, ClientTypeOK
  <2> QED
    BY <1>1, <1>7, <2>1 DEF PageInv, ClientTypeOK, ServerInv
<1>9. ScreenLives'
  BY <1>2 DEF ScreenLives
<1>10. FenReachable'
  BY <1>1 DEF FenReachable
<1> QED
  BY <1>6, <1>7, <1>8, <1>9, <1>10 DEF PageInv

\* Whose answer it is, and what it says.
LEMMA ArrivedFits ==
    ASSUME PageInv, NEW by, NEW f, Arrived(f, by)
    PROVE  /\ f \in Slots /\ flight[f] # Nothing /\ flight[f].by \in by
           /\ flight[f] \in Flights /\ flight[f].answer \in Answers
           /\ FlightFits(f) /\ flight[f].answer # NoAnswer
BY DEF Arrived, Of, PageInv, ClientTypeOK, FlightsFit, Flights

\* A request of a player who waits is the only one, and stays so.
LEMMA OneResponse ==
    ASSUME PageInv, TurnInv, haste = 0, NEW f \in Pending,
           NEW x, flight' = [flight EXCEPT ![f] = x]
    PROVE  \A e \in Slots : flight'[e] # Nothing /\ flight'[e].by \in Games \cup {"start"}
                               => e = f /\ x # Nothing
BY DEF TurnInv, OneAsked, Pending, Of, PageInv, ClientTypeOK

\* The first board of a new game.
LEMMA NewGameKeeps ==
    ASSUME PageInv, TurnInv, NEW f \in Slots, NewGame(f)
    PROVE  PageInv' /\ TurnInv'
<1> DEFINE g == CHOOSE g \in Games : Of({g}) = {}
           a == flight[f].answer
           new == NewClosure
           closures == [game EXCEPT ![g] = new]
<1>1. /\ Arrived(f, {"start"}) /\ flight' = [flight EXCEPT ![f] = Nothing]
      /\ screen' = [owner |-> g, shows |-> Drawn(a.text), reversed |-> FALSE,
                    mixed |-> a.mixed]
      /\ Keep(closures)
      /\ UNCHANGED <<serving, haste, visits, allVars>>
  BY DEF NewGame, Land, Draw
<1>2. /\ flight[f] # Nothing /\ flight[f].by = "start"
      /\ FlightFits(f) /\ a # NoAnswer /\ a.mixed \in BOOLEAN
  BY <1>1, ArrivedFits DEF Answers
<1>3. "start" \notin Games
  BY ClientAssumption
<1>4. g \in Games /\ Of({g}) = {}
  BY <1>2, <1>3, FreeName
<1>5. new \in Closures /\ new # NoGame /\ new.FEN = Start /\ ~new.spoilt
  <2>1. new \in Closures /\ new.FEN = Start /\ ~new.spoilt
    BY TurnAssumption DEF Closures, NewClosure, Fens
  <2> QED
    BY <2>1, ClientAssumption
<1> HIDE DEF g, new
<1>6. closures \in [Games -> Closures \cup {NoGame}]
  BY <1>4, <1>5 DEF PageInv, ClientTypeOK
<1>7. closures[g] = new /\ \A h \in Games \ {g} : closures[h] = game[h]
  BY <1>4 DEF PageInv, ClientTypeOK
<1>8. \A h \in Games : game[h] # NoGame => closures[h] # NoGame
  BY <1>5, <1>7
<1>8a. \A e \in Slots \ {f} : flight[e] # Nothing /\ flight[e].by \in Games
          /\ game[flight[e].by].spoilt => closures[flight[e].by].spoilt
  BY <1>4, <1>7 DEF Of
<1>9. \A h \in Games :
          closures[h] # NoGame /\ ~closures[h].spoilt => closures[h].FEN \in Reachable
  BY <1>5, <1>7, StartReachable DEF PageInv, FenReachable
<1> HIDE DEF closures
<1>10. screen' \in [owner : Games \cup {NoGame}, shows : Boards \cup {Nothing},
                    reversed : BOOLEAN, mixed : BOOLEAN]
  BY <1>1, <1>2, <1>4, DrawnType
<1>11. screen'.owner = g /\ g # NoGame
  BY <1>1, <1>4, ClientAssumption
<1>12. PageInv'
  BY <1>1, <1>2, <1>5, <1>6, <1>7, <1>8, <1>8a, <1>9, <1>10, <1>11, ResponseKeeps
<1>13. game'[g] = new /\ Shown' = Start
  <2>1. game'[g] = closures[g]
    BY <1>1, <1>4, <1>6, <1>11, Kept
  <2> QED
    BY <1>5, <1>7, <1>11, <2>1 DEF Shown
<1>14. ~a.mixed => Drawn(a.text) = Start
  <2>1. flight[f].request = Ask(Start, "show") /\ (~a.mixed => Prints(flight[f].request, a))
        /\ Plays(flight[f].request, a)
    BY <1>2 DEF FlightFits
  <2>2. /\ flight[f].request.fen = Start /\ flight[f].request.then = "show"
        /\ Start \in Boards
    BY <2>1, TurnAssumption DEF Ask
  <2>3. a.status = 200
    BY <2>1, <2>2 DEF Plays
  <2>4. Wanted(flight[f].request) = {Start}
    BY <2>2 DEF Wanted
  <2>5. ~a.mixed => a.text = Text(Start, Rows)
    BY <2>1, <2>2, <2>3, <2>4 DEF Prints
  <2> QED
    BY <2>2, <2>5, DrawsBoard
<1>15. TurnInv'
  <2> SUFFICES ASSUME haste' = 0
               PROVE  OneAsked' /\ AllAsked' /\ BlackAsked' /\ BoardShown'
    BY DEF TurnInv
  <2>1. f \in Pending /\ haste = 0
    BY <1>1, <1>2 DEF Pending, Of
  <2>2. \A e \in Slots : ~(flight'[e] # Nothing /\ flight'[e].by \in Games \cup {"start"})
    BY <1>1, <2>1, OneResponse
  <2>3. OneAsked' /\ AllAsked'
    BY <2>2 DEF OneAsked, AllAsked, Pending, Of
  <2>4. BlackAsked'
    BY <1>13, TurnAssumption DEF BlackAsked
  <2>5. BoardShown'
    BY <1>1, <1>13, <1>14, TurnAssumption DEF BoardShown
  <2> QED
    BY <2>3, <2>4, <2>5
<1> QED
  BY <1>12, <1>15

\* The line with the first '+' of a text that has one.
LEMMA FirstPlusIsFirst ==
    ASSUME NEW text \in Seq(Written), NEW k \in 1..Len(text), HasPlus(text[k])
    PROVE  FirstPlus(text) \in 1..Len(text) /\ HasPlus(text[FirstPlus(text)])
<1> DEFINE less == {p \in Nat \X Nat : p[1] < p[2]}
           V == {n \in 1..Len(text) : HasPlus(text[n])}
<1>1. IsWellFoundedOn(less, Nat)
  BY NatLessThanWellFounded DEF OpToRel
<1>2. V \subseteq Nat /\ V # {}
  OBVIOUS
<1>3. \E n \in V : \A m \in V : ~(<<m, n>> \in less)
  <2> HIDE DEF less, V
  <2> QED
    BY <1>1, <1>2, WFMin
<1>4. PICK n \in V : \A m \in V : ~(<<m, n>> \in less)
  BY <1>3
<1>5. ASSUME NEW m \in 1..(n - 1)
      PROVE  ~HasPlus(text[m])
  <2>1. m \in Nat /\ n \in Nat /\ m < n /\ m \in 1..Len(text)
    BY <1>4
  <2>2. <<m, n>> \in less
    BY <2>1
  <2> QED
    BY <1>4, <2>1, <2>2
<1>6. n \in 1..Len(text) /\ HasPlus(text[n])
  BY <1>4
<1> QED
  BY <1>5, <1>6 DEF FirstPlus

\* What the page takes for a FEN is one, another text or none.
LEMMA ParsedType ==
    ASSUME NEW a \in Answers
    PROVE  parseResponseBody(a) \in Fens
<1>1. a.text \in Seq(Written) /\ a.fen \in Fens
  BY DEF Answers, Fens
<1>2. ASSUME NEW k \in 1..Len(a.text), HasPlus(a.text[k])
      PROVE  parseResponseBody(a) \in Fens
  <2> DEFINE item == a.text[FirstPlus(a.text)]
  <2>1. HasPlus(item) /\ FirstPlus(a.text) \in 1..Len(a.text)
    BY <1>1, <1>2, FirstPlusIsFirst
  <2>2. item \in Written
    BY <1>1, <2>1
  <2>3. item[1] \in Lines /\ item[1] # NoPlus
    BY <2>1, <2>2 DEF HasPlus, Written
  <2>4. item[1] \in Fens
    BY <2>3, ChessAssumption
  <2> QED
    BY <1>2, <2>4 DEF parseResponseBody
<1>3. CASE ~ \E k \in 1..Len(a.text) : HasPlus(a.text[k])
  BY <1>1, <1>3 DEF parseResponseBody
<1> QED
  BY <1>2, <1>3

\* The closures when a game takes the FEN of the answer to its request f, and
\* the request for Black's move that follows White's.
Moved(f) == TakeFen(flight[f].by, flight[f].answer)

BlackNext(f) == Flight(flight[f].by, Ask(parseResponseBody(flight[f].answer), "ai"))

\* Storing what an accepted answer says in the game that asked for it leaves
\* every game that is not spoilt at a reached position.
LEMMA AnswerMoves ==
    ASSUME PageInv, NEW f \in Slots, Arrived(f, Games), flight[f].answer.status = 200
    PROVE  /\ Moved(f) \in [Games -> Closures \cup {NoGame}]
           /\ \A h \in Games : game[h] # NoGame => Moved(f)[h] # NoGame
           /\ \A h \in Games : game[h] # NoGame /\ game[h].spoilt => Moved(f)[h].spoilt
           /\ \A h \in Games : Moved(f)[h] # NoGame /\ ~Moved(f)[h].spoilt =>
                                  Moved(f)[h].FEN \in Reachable
           /\ flight[f].by \in Games /\ Moved(f)[flight[f].by] # NoGame
           /\ Moved(f)[flight[f].by].FEN = parseResponseBody(flight[f].answer)
           /\ parseResponseBody(flight[f].answer) \in Fens
           /\ ~Moved(f)[flight[f].by].spoilt =>
                 /\ game[flight[f].by] # NoGame /\ ~game[flight[f].by].spoilt
                 /\ parseResponseBody(flight[f].answer) = flight[f].answer.fen
                 /\ Draws(flight[f].request, flight[f].answer)
<1> DEFINE a == flight[f].answer
           g == flight[f].by
           parsed == parseResponseBody(a)
           closures == Moved(f)
<1>1. g \in Games /\ FlightFits(f) /\ a # NoAnswer /\ a \in Answers
  BY ArrivedFits
<1>2. ~game[g].spoilt => Draws(flight[f].request, a)
  BY <1>1, AnswerDraws DEF FlightFits
<1>3. game[g] # NoGame /\ game[g] \in Closures
  BY <1>1 DEF FlightFits, PageInv, ClientTypeOK
<1>4. (~game[g].spoilt => a.fen \in Reachable) /\ parsed \in Fens
  BY <1>1, <1>2, ParsedType DEF Draws
<1> HIDE DEF parsed
<1> DEFINE spoils == game[g].spoilt \/ parsed # a.fen
           c == [game[g] EXCEPT !.FEN = parsed, !.spoilt = spoils]
<1>5. /\ c \in Closures /\ c.FEN = parsed /\ c.spoilt = spoils
  BY <1>3, <1>4 DEF Closures
<1>6. c # NoGame
  BY <1>5, ClientAssumption
<1>7. closures = [game EXCEPT ![g] = c]
  BY DEF Moved, TakeFen, parsed
<1> HIDE DEF c, spoils
<1>a. game \in [Games -> Closures \cup {NoGame}]
  BY DEF PageInv, ClientTypeOK
<1>8. closures \in [Games -> Closures \cup {NoGame}]
  <2> HIDE DEF closures, g
  <2>1. PICK gameNow : gameNow = game
    OBVIOUS
  <2>2. gameNow \in [Games -> Closures \cup {NoGame}] /\ c \in Closures /\ g \in Games
    BY <1>1, <1>5, <1>a, <2>1, Zenon
  <2>3. [gameNow EXCEPT ![g] = c] \in [Games -> Closures \cup {NoGame}]
    BY <2>2
  <2> QED
    BY <1>7, <2>1, <2>3, Zenon
<1>9. closures[g] = c /\ \A h \in Games \ {g} : closures[h] = game[h]
  BY <1>1, <1>7 DEF PageInv, ClientTypeOK
<1>10. \A h \in Games : game[h] # NoGame => closures[h] # NoGame
  BY <1>6, <1>9
<1>11. ~c.spoilt => ~game[g].spoilt /\ parsed = a.fen
  BY <1>5 DEF spoils
<1>12. \A h \in Games : game[h] # NoGame /\ game[h].spoilt => closures[h].spoilt
  BY <1>9, <1>11
<1>13. \A h \in Games : closures[h] # NoGame /\ ~closures[h].spoilt =>
                           closures[h].FEN \in Reachable
  BY <1>4, <1>5, <1>9, <1>11 DEF PageInv, FenReachable
<1> HIDE DEF closures
<1>14. /\ parsed \in Fens /\ closures[g].FEN = parsed
       /\ ~closures[g].spoilt => /\ game[g] # NoGame /\ ~game[g].spoilt
                                 /\ parsed = a.fen /\ Draws(flight[f].request, a)
  BY <1>2, <1>3, <1>4, <1>5, <1>9, <1>11
<1> QED
  BY <1>1, <1>6, <1>8, <1>9, <1>10, <1>12, <1>13, <1>14 DEF closures, parsed

\* White's move was accepted, and Black's is asked for.
LEMMA MoveKeeps ==
    ASSUME PageInv, TurnInv, NEW f \in Slots, MovePlayed(f)
    PROVE  PageInv' /\ TurnInv'
<1> DEFINE g == flight[f].by
           a == flight[f].answer
           parsed == parseResponseBody(a)
           closures == Moved(f)
<1>0. PICK x : x = BlackNext(f)
  OBVIOUS
<1>1. /\ Arrived(f, Games) /\ flight[f].request.then = "move" /\ a.status = 200
      /\ flight' = [flight EXCEPT ![f] = x]
      /\ screen' = [owner |-> g, shows |-> Drawn(a.text), reversed |-> TRUE,
                    mixed |-> a.mixed]
      /\ Keep(closures)
      /\ UNCHANGED <<serving, haste, visits, allVars>>
  BY <1>0 DEF MovePlayed, Draw, Moved, BlackNext
<1>1a. flight' = [flight EXCEPT ![f] = x]
  BY <1>1
<1>2. flight[f] # Nothing /\ FlightFits(f) /\ a # NoAnswer /\ a.mixed \in BOOLEAN
  BY <1>1, ArrivedFits DEF Answers
<1>3. /\ closures \in [Games -> Closures \cup {NoGame}]
      /\ \A h \in Games : game[h] # NoGame => closures[h] # NoGame
      /\ \A h \in Games : game[h] # NoGame /\ game[h].spoilt => closures[h].spoilt
      /\ \A h \in Games :
            closures[h] # NoGame /\ ~closures[h].spoilt => closures[h].FEN \in Reachable
      /\ g \in Games /\ closures[g] # NoGame /\ closures[g].FEN = parsed
      /\ parsed \in Fens
  BY <1>1, AnswerMoves
<1>3a. ~closures[g].spoilt => /\ game[g] # NoGame /\ ~game[g].spoilt
                             /\ parsed = a.fen /\ Draws(flight[f].request, a)
  BY <1>1, AnswerMoves
<1> HIDE DEF parsed
<1>4. ~closures[g].spoilt =>
          /\ a.fen \in Reachable /\ a.fen \in Boards
          /\ Chess.side[a.fen] # Chess.side[flight[f].request.fen]
          /\ ~a.mixed => Drawn(a.text) = a.fen
  BY <1>3a, ReachableBoards DEF Draws
<1>5. \A e \in Slots \ {f} : flight[e] # Nothing /\ flight[e].by \in Games
          /\ game[flight[e].by].spoilt => closures[flight[e].by].spoilt
  BY <1>3 DEF PageInv, FlightsFit, FlightFits
<1>6. /\ x.by = g /\ x.answer = NoAnswer /\ x.request.then = "ai"
      /\ x.request.fen = parsed
  BY <1>0 DEF Flight, Ask, BlackNext, parsed
<1>6a. x \in Flights /\ x # Nothing
  <2>1. Ask(parsed, "ai") \in Requests
    BY <1>3, ClientAssumption
  <2>2. x \in Flights
    BY <1>0, <1>3, <2>1 DEF Flight, Flights, BlackNext, parsed
  <2> QED
    BY <2>2, ClientAssumption
<1>7. screen' \in [owner : Games \cup {NoGame}, shows : Boards \cup {Nothing},
                   reversed : BOOLEAN, mixed : BOOLEAN]
  BY <1>1, <1>2, <1>3, DrawnType
<1>8. screen'.owner = g /\ g # NoGame
  BY <1>1, <1>3, ClientAssumption
<1>9. PageInv'
  <2>1. UNCHANGED <<serving, haste, visits, allVars>> /\ Keep(closures)
    BY <1>1
  <2>2. screen'.owner # NoGame => closures[screen'.owner] # NoGame
    BY <1>3, <1>8
  <2>3. x # Nothing => /\ x.by \in Games /\ closures[x.by] # NoGame
                       /\ x.answer = NoAnswer
                       /\ x.request.then \in {"move", "ai"}
                       /\ ~closures[x.by].spoilt => x.request.fen \in Reachable
    BY <1>3, <1>3a, <1>4, <1>6
  <2>4. x \in Flights \cup {Nothing}
    BY <1>6a
  <2>5. up => flight[f].answer # NoAnswer
    BY <1>2
  <2> HIDE DEF closures, g, a
  <2> QED
    BY <1>1a, <1>2, <1>3, <1>5, <1>7, <2>1, <2>2, <2>3, <2>4, <2>5, ResponseKeeps
<1>10. Shown' = parsed /\ (Sound' => ~closures[g].spoilt)
  <2>1. game'[g] = closures[g]
    BY <1>1, <1>3, <1>8, Kept
  <2> QED
    BY <1>3, <1>8, <2>1 DEF Shown, Sound
<1>11. TurnInv'
  <2> SUFFICES ASSUME haste' = 0
               PROVE  OneAsked' /\ AllAsked' /\ BlackAsked' /\ BoardShown'
    BY DEF TurnInv
  <2>1. f \in Pending /\ f \in Of(Games) /\ haste = 0
    BY <1>1, <1>2 DEF Arrived, Pending, Of
  <2>2. \A e \in Slots : flight'[e] # Nothing /\ flight'[e].by \in Games \cup {"start"}
                            => e = f
    BY <1>1a, <2>1, OneResponse
  <2>3. flight'[f] = x
    BY <1>1 DEF PageInv, ClientTypeOK
  <2>4. OneAsked'
    BY <2>2 DEF OneAsked, Pending, Of
  <2>5. Asked(f)
    BY <2>1 DEF TurnInv, AllAsked
  <2>6. Sound' => /\ Shown' = a.fen /\ Chess.side[a.fen] = "black"
                  /\ ~a.mixed => Drawn(a.text) = a.fen
    <3> SUFFICES ASSUME Sound'
                 PROVE  /\ Shown' = a.fen /\ Chess.side[a.fen] = "black"
                        /\ ~a.mixed => Drawn(a.text) = a.fen
      OBVIOUS
    <3>1. /\ ~closures[g].spoilt /\ Shown' = a.fen /\ game[g] # NoGame /\ ~game[g].spoilt
      BY <1>3a, <1>10
    <3>2. Sound
      BY <1>3, <2>5, <3>1, ClientAssumption DEF Asked, Sound
    <3>3. Chess.side[flight[f].request.fen] # "black"
      BY <1>1, <2>5, <3>2 DEF Asked
    <3>4. flight[f].request.fen \in Boards
      BY <1>2, <1>3, <3>1, ReachableBoards DEF FlightFits
    <3> QED
      BY <1>4, <3>1, <3>3, <3>4, TurnAssumption
  <2>7. Asked(f)'
    BY <1>6, <1>8, <1>10, <2>3, <2>6 DEF Asked
  <2>8. AllAsked'
    BY <2>2, <2>7 DEF AllAsked, Of
  <2>9. BlackAsked'
    <3>1. f \in Of({screen.owner})'
      BY <1>6, <1>6a, <1>8, <2>3 DEF Of
    <3> QED
      BY <3>1 DEF BlackAsked
  <2>10. BoardShown'
    BY <1>1, <2>6 DEF BoardShown
  <2> QED
    BY <2>4, <2>8, <2>9, <2>10
<1> QED
  BY <1>9, <1>11

\* Black's move came, and it is White's turn.
LEMMA AiKeeps ==
    ASSUME PageInv, TurnInv, NEW f \in Slots, AiPlayed(f)
    PROVE  PageInv' /\ TurnInv'
<1> DEFINE g == flight[f].by
           a == flight[f].answer
           parsed == parseResponseBody(a)
           closures == Moved(f)
<1>1. /\ Arrived(f, Games) /\ flight[f].request.then = "ai" /\ a.status = 200
      /\ flight' = [flight EXCEPT ![f] = Nothing]
      /\ screen' = [owner |-> g, shows |-> Drawn(a.text), reversed |-> FALSE,
                    mixed |-> a.mixed]
      /\ Keep(closures)
      /\ UNCHANGED <<serving, haste, visits, allVars>>
  BY DEF AiPlayed, Draw, Land, Moved
<1>1a. flight' = [flight EXCEPT ![f] = Nothing]
  BY <1>1
<1>2. flight[f] # Nothing /\ FlightFits(f) /\ a # NoAnswer /\ a.mixed \in BOOLEAN
  BY <1>1, ArrivedFits DEF Answers
<1>3. /\ closures \in [Games -> Closures \cup {NoGame}]
      /\ \A h \in Games : game[h] # NoGame => closures[h] # NoGame
      /\ \A h \in Games : game[h] # NoGame /\ game[h].spoilt => closures[h].spoilt
      /\ \A h \in Games :
            closures[h] # NoGame /\ ~closures[h].spoilt => closures[h].FEN \in Reachable
      /\ g \in Games /\ closures[g] # NoGame /\ closures[g].FEN = parsed
      /\ parsed \in Fens
  BY <1>1, AnswerMoves
<1>3a. ~closures[g].spoilt => /\ game[g] # NoGame /\ ~game[g].spoilt
                             /\ parsed = a.fen /\ Draws(flight[f].request, a)
  BY <1>1, AnswerMoves
<1> HIDE DEF parsed
<1>4. ~closures[g].spoilt =>
          /\ a.fen \in Reachable /\ a.fen \in Boards
          /\ Chess.side[a.fen] # Chess.side[flight[f].request.fen]
          /\ ~a.mixed => Drawn(a.text) = a.fen
  BY <1>3a, ReachableBoards DEF Draws
<1>5. \A e \in Slots \ {f} : flight[e] # Nothing /\ flight[e].by \in Games
          /\ game[flight[e].by].spoilt => closures[flight[e].by].spoilt
  BY <1>3 DEF PageInv, FlightsFit, FlightFits
<1>7. screen' \in [owner : Games \cup {NoGame}, shows : Boards \cup {Nothing},
                   reversed : BOOLEAN, mixed : BOOLEAN]
  BY <1>1, <1>2, <1>3, DrawnType
<1>8. screen'.owner = g /\ g # NoGame
  BY <1>1, <1>3, ClientAssumption
<1>9. PageInv'
  BY <1>1, <1>2, <1>3, <1>5, <1>7, <1>8, ResponseKeeps
<1>10. Shown' = parsed /\ (Sound' => ~closures[g].spoilt)
  <2>1. game'[g] = closures[g]
    BY <1>1, <1>3, <1>8, Kept
  <2> QED
    BY <1>3, <1>8, <2>1 DEF Shown, Sound
<1>11. TurnInv'
  <2> SUFFICES ASSUME haste' = 0
               PROVE  OneAsked' /\ AllAsked' /\ BlackAsked' /\ BoardShown'
    BY DEF TurnInv
  <2>1. f \in Pending /\ f \in Of(Games) /\ haste = 0
    BY <1>1, <1>2 DEF Arrived, Pending, Of
  <2>2. \A e \in Slots : ~(flight'[e] # Nothing /\ flight'[e].by \in Games \cup {"start"})
    BY <1>1a, <2>1, OneResponse
  <2>3. OneAsked' /\ AllAsked'
    BY <2>2 DEF OneAsked, AllAsked, Pending, Of
  <2>4. Asked(f)
    BY <2>1 DEF TurnInv, AllAsked
  <2>5. Sound' => /\ Shown' = a.fen /\ Chess.side[a.fen] = "white"
                  /\ ~a.mixed => Drawn(a.text) = a.fen
    <3> SUFFICES ASSUME Sound'
                 PROVE  /\ Shown' = a.fen /\ Chess.side[a.fen] = "white"
                        /\ ~a.mixed => Drawn(a.text) = a.fen
      OBVIOUS
    <3>1. /\ ~closures[g].spoilt /\ Shown' = a.fen /\ game[g] # NoGame /\ ~game[g].spoilt
      BY <1>3a, <1>10
    <3>2. Sound
      BY <1>3, <2>4, <3>1, ClientAssumption DEF Asked, Sound
    <3>3. Chess.side[flight[f].request.fen] = "black"
      BY <1>1, <2>4, <3>2 DEF Asked
    <3> QED
      BY <1>4, <3>1, <3>3, TurnAssumption
  <2>6. BlackAsked'
    BY <2>5 DEF BlackAsked
  <2>7. BoardShown'
    BY <1>1, <2>5 DEF BoardShown
  <2> QED
    BY <2>3, <2>6, <2>7
<1> QED
  BY <1>9, <1>11

\* An error, a visitor's answer or a lost connection: nothing is played.
LEMMA RefusedKeeps ==
    ASSUME PageInv, TurnInv, NEW f \in Slots, Refused(f)
    PROVE  PageInv' /\ TurnInv'
<1>1. /\ flight' = [flight EXCEPT ![f] = Nothing]
      /\ UNCHANGED <<serving, screen, haste, visits, allVars>>
      /\ Keep(game)
  BY DEF Refused, Land
<1>2. flight[f] # Nothing /\ (up => flight[f].answer # NoAnswer)
  BY DEF Refused, Arrived, Of
<1>3. PageInv'
  <2>1. /\ game \in [Games -> Closures \cup {NoGame}]
        /\ \A g \in Games :
              game[g] # NoGame /\ ~game[g].spoilt => game[g].FEN \in Reachable
        /\ screen' \in [owner : Games \cup {NoGame}, shows : Boards \cup {Nothing},
                        reversed : BOOLEAN, mixed : BOOLEAN]
        /\ screen'.owner # NoGame => game[screen'.owner] # NoGame
    BY <1>1 DEF PageInv, ClientTypeOK, FenReachable, ScreenLives
  <2> QED
    BY <1>1, <1>2, <2>1, ResponseKeeps
<1>4. \A e \in Slots : flight'[e] # Nothing => e # f /\ flight'[e] = flight[e]
  BY <1>1 DEF PageInv, ClientTypeOK
<1>5. screen' = screen /\ up' = up /\ haste' = haste
  BY <1>1 DEF allVars, handlerVars
<1>6. screen.owner # NoGame =>
          screen.owner \in Games /\ Shown' = Shown /\ Sound' = Sound
  <2> SUFFICES ASSUME screen.owner # NoGame
               PROVE  screen.owner \in Games /\ Shown' = Shown /\ Sound' = Sound
    OBVIOUS
  <2>1. screen.owner \in Games
    BY DEF PageInv, ClientTypeOK
  <2>2. game'[screen.owner] = game[screen.owner]
    BY <1>1, <1>5, <2>1, Kept DEF PageInv, ClientTypeOK
  <2> QED
    BY <1>5, <2>1, <2>2 DEF Shown, Sound
<1>7. TurnInv'
  <2> SUFFICES ASSUME haste = 0
               PROVE  OneAsked' /\ AllAsked' /\ BlackAsked' /\ BoardShown'
    BY <1>5 DEF TurnInv
  <2>1. OneAsked'
    <3>1. Pending' \subseteq Pending
      BY <1>4 DEF Pending, Of
    <3> QED
      BY <3>1 DEF TurnInv, OneAsked
  <2>2. AllAsked'
    <3> SUFFICES ASSUME NEW e \in Slots, flight'[e] # Nothing, flight'[e].by \in Games
                 PROVE  Asked(e)'
      BY DEF AllAsked, Of
    <3>1. flight'[e] = flight[e] /\ Asked(e)
      BY <1>4 DEF TurnInv, AllAsked, Of
    <3>2. screen.owner # NoGame
      BY <3>1, ClientAssumption DEF Asked
    <3> QED
      BY <1>5, <1>6, <3>1, <3>2 DEF Asked
  <2>3. BlackAsked'
    <3> SUFFICES ASSUME up, Sound, Chess.side[Shown] = "black"
                 PROVE  Of({screen.owner})' # {}
      BY <1>5, <1>6 DEF BlackAsked, Sound
    <3>1. PICK e \in Slots : flight[e] # Nothing /\ flight[e].by = screen.owner
      BY DEF TurnInv, BlackAsked, Of
    <3>2. e \in Of(Games)
      BY <1>6, <3>1 DEF Of, Sound
    <3>3. flight[e].request.then = "ai"
      BY <3>2 DEF TurnInv, AllAsked, Asked
    <3>4. e # f
      <4> SUFFICES ASSUME e = f
                   PROVE  FALSE
        OBVIOUS
      <4>1. /\ flight[f].by \in Games /\ ~game[flight[f].by].spoilt
            /\ "visitor" \notin Games
        BY <1>6, <3>1, ClientAssumption DEF Sound
      <4>2. Arrived(f, Games) /\ flight[f].answer.status # 200
        BY <4>1 DEF Refused, Arrived, Of
      <4> QED
        BY <1>2, <3>3, <4>1, <4>2, BlackAnswered
    <3>5. flight'[e] = flight[e]
      BY <1>1, <3>4 DEF PageInv, ClientTypeOK
    <3>6. e \in Of({screen.owner})'
      BY <1>5, <3>1, <3>5 DEF Of
    <3> QED
      BY <3>6
  <2>4. BoardShown'
    BY <1>5, <1>6 DEF TurnInv, BoardShown, Sound
  <2> QED
    BY <2>1, <2>2, <2>3, <2>4
<1> QED
  BY <1>3, <1>7

\* Whatever an answer makes the page do, its invariants hold on.
LEMMA RespondKeeps ==
    ASSUME PageInv, TurnInv, NEW f \in Slots, Respond(f)
    PROVE  PageInv' /\ TurnInv'
BY NewGameKeeps, MoveKeeps, AiKeeps, RefusedKeeps DEF Respond

----------------------------------------------------------------------------
(* The server's steps, as the page knows them.                             *)

\* How often requests met is a number below its bound.
LEMMA VisitsType ==
    ASSUME PageInv
    PROVE  visits \in Nat /\ haste + visits <= MaxMeetings
BY DEF PageInv, ClientTypeOK

\* A step that touches no request leaves what the page knows of them.
LEMMA Unseen ==
    ASSUME PageInv, TurnInv, ServerInv', Links', up' => up,
           serving' \in [Workers -> Slots \cup {Nothing}],
           visits' \in Nat, haste + visits' <= MaxMeetings,
           UNCHANGED <<flight, game, screen, haste>>
    PROVE  PageInv' /\ TurnInv'
<1>1. FlightsFit'
  <2> SUFFICES ASSUME NEW e \in Slots, flight[e] # Nothing
               PROVE  FlightFits(e)'
    BY DEF FlightsFit
  <2>1. FlightFits(e)
    BY DEF PageInv, FlightsFit
  <2>2. Plays(flight'[e].request, flight'[e].answer)
            = Plays(flight[e].request, flight[e].answer)
        /\ Prints(flight'[e].request, flight'[e].answer)
            = Prints(flight[e].request, flight[e].answer)
    OBVIOUS
  <2> QED
    BY <2>1, <2>2 DEF FlightFits
<1>2. ClientTypeOK'
  BY DEF PageInv, ClientTypeOK, ServerInv
<1>3. PageInv'
  BY <1>1, <1>2 DEF PageInv, ScreenLives, FenReachable
<1>4. TurnInv'
  BY DEF TurnInv, OneAsked, AllAsked, Asked, BlackAsked, BoardShown, Pending, Of, Shown,
         Sound
<1> QED
  BY <1>3, <1>4

\* A thread takes up a request.
LEMMA AcceptKeeps ==
    ASSUME PageInv, TurnInv, NEW f \in Slots, Accept(f)
    PROVE  PageInv' /\ TurnInv'
<1> DEFINE w == CHOOSE w \in Waiting : TRUE
           r == flight[f].request
<1>1. /\ Underway(f) /\ \A v \in Workers : serving[v] # f
      /\ w \in Workers /\ Serve(w, r)
      /\ serving' = [serving EXCEPT ![w] = f]
      /\ UNCHANGED <<flight, game, screen, haste, visits>>
  BY DEF Accept, Waiting
<1> HIDE DEF w
<1>2. flight[f] # Nothing /\ flight[f].answer = NoAnswer /\ r \in Requests
  BY <1>1 DEF Underway, PageInv, ClientTypeOK, Flights
<1>3. /\ up /\ phase[w] = "free" /\ up' = up
      /\ \E q \in {"search", "show", "answered"} : phase' = [phase EXCEPT ![w] = q]
      /\ request' = [request EXCEPT ![w] = r]
  BY <1>1, <1>2, ServeWorks DEF PageInv
<1>4. ServerInv'
  BY <1>1, <1>2, ServerStep DEF PageInv
<1>5. serving' \in [Workers -> Slots \cup {Nothing}]
  BY <1>1 DEF PageInv, ClientTypeOK
<1>6. /\ serving'[w] = f /\ request'[w] = r
      /\ \A v \in Workers \ {w} : /\ serving'[v] = serving[v]
                                 /\ request'[v] = request[v] /\ phase'[v] = phase[v]
  BY <1>1, <1>3 DEF PageInv, ClientTypeOK, ServerInv, HandlerTypeOK
<1>7. Links'
  <2> SUFFICES ASSUME NEW v \in Workers, phase'[v] # "free"
               PROVE  Linked(v)'
    BY DEF Links, Linked
  <2>1. CASE v = w
    <3>1. \A u \in Workers : serving'[u] = f => u = w
      BY <1>1, <1>6
    <3> QED
      BY <1>1, <1>2, <1>6, <2>1, <3>1 DEF Linked
  <2>2. CASE v # w
    <3>1. Linked(v) /\ phase[v] # "free"
      BY <1>3, <1>6, <2>2 DEF PageInv, Links
    <3>2. \A u \in Workers : serving'[u] = serving[v] => u = v
      BY <1>1, <1>6, <3>1 DEF Linked
    <3> QED
      BY <1>1, <1>6, <2>2, <3>1, <3>2 DEF Linked
  <2> QED
    BY <2>1, <2>2
<1> QED
  BY <1>1, <1>3, <1>4, <1>5, <1>7, VisitsType, Unseen

\* A thread works on,
LEMMA WorkingKeeps ==
    ASSUME PageInv, TurnInv, NEW w \in Workers, Working(w)
    PROVE  PageInv' /\ TurnInv'
<1>1. Work(w) /\ UNCHANGED clientVars
  BY DEF Working
<1>2. ServerInv'
  BY <1>1, ServerStep DEF PageInv
<1>3. \A v \in Workers : phase'[v] # "free" => phase[v] # "free"
  <2>1. CASE Recommend(w) \/ Finish(w)
    <3>1. phase[w] # "free" /\ \A v \in Workers \ {w} : phase'[v] = phase[v]
      BY <2>1, RecommendWorks, FinishWorks DEF PageInv, ServerInv, HandlerTypeOK
    <3> QED
      BY <3>1
  <2>2. CASE PrintBoard(w)
    BY <2>2, PrintWorks DEF PageInv
  <2> QED
    BY <1>1, <2>1, <2>2 DEF Work
<1>4. request' = request /\ up' = up
  BY <1>1 DEF Work, Recommend, PrintBoard, Finish, handlerVars
<1>5. Links'
  BY <1>1, <1>3, <1>4 DEF PageInv, Links, Linked, clientVars
<1>6. serving' \in [Workers -> Slots \cup {Nothing}]
  BY <1>1 DEF PageInv, ClientTypeOK, clientVars
<1> QED
  BY <1>1, <1>2, <1>4, <1>5, <1>6, VisitsType, Unseen DEF clientVars

\* or the process ends,
LEMMA DieKeeps ==
    ASSUME PageInv, TurnInv, Die
    PROVE  PageInv' /\ TurnInv'
<1>1. Beside /\ UNCHANGED clientVars /\ up' = FALSE
  BY DEF Die, Beside, Corrupt, Overflow
<1>2. ServerInv'
  BY <1>1, BesideKeeps DEF PageInv
<1>3. serving' \in [Workers -> Slots \cup {Nothing}]
  BY <1>1 DEF PageInv, ClientTypeOK, clientVars
<1> QED
  BY <1>1, <1>2, <1>3, VisitsType, Unseen DEF Links, clientVars

\* or something is logged.
LEMMA LoggingKeeps ==
    ASSUME PageInv, TurnInv, Logging
    PROVE  PageInv' /\ TurnInv'
<1>1. /\ Beside /\ haste + visits < MaxMeetings /\ visits' = visits + 1
      /\ UNCHANGED <<flight, serving, game, screen, haste>>
  BY DEF Logging, Beside
<1>2. ServerInv'
  BY <1>1, BesideKeeps DEF PageInv
<1>3. phase' = phase /\ request' = request /\ up' = up
  BY DEF Logging, Logged, handlerVars
<1>4. Links'
  BY <1>1, <1>3 DEF PageInv, Links, Linked
<1>5. visits' \in Nat /\ haste + visits' <= MaxMeetings
  BY <1>1, ClientAssumption DEF PageInv, ClientTypeOK
<1>6. serving' \in [Workers -> Slots \cup {Nothing}]
  BY <1>1 DEF PageInv, ClientTypeOK
<1> QED
  BY <1>1, <1>2, <1>3, <1>4, <1>5, <1>6, Unseen

\* The answer is sent.
LEMMA ReplyKeeps ==
    ASSUME PageInv, TurnInv, NEW w \in Workers, Reply(w)
    PROVE  PageInv' /\ TurnInv'
<1> DEFINE s == serving[w]
           x == [flight[s] EXCEPT !.answer = answer[w]]
<1>1. /\ Send(w)
      /\ flight' = [flight EXCEPT ![s].answer = answer[w]]
      /\ serving' = [serving EXCEPT ![w] = Nothing]
      /\ UNCHANGED <<game, screen, haste, visits>>
  BY DEF Reply
<1>2. /\ up /\ up' = up /\ phase[w] = "answered"
      /\ phase' = [phase EXCEPT ![w] = "free"]
      /\ request' = [request EXCEPT ![w] = NoRequest]
  BY <1>1 DEF Send, Leave
<1>3. /\ s \in Slots /\ flight[s] # Nothing /\ flight[s].request = request[w]
      /\ \A v \in Workers : serving[v] = s => v = w
  BY <1>2 DEF PageInv, Links, Linked
<1>4. flight[s] \in Flights /\ answer[w] \in Answers \cup {NoAnswer}
  BY <1>3 DEF PageInv, ClientTypeOK, HandlerTypeOK
<1>5. /\ x \in Flights /\ x.by = flight[s].by /\ x.request = flight[s].request
      /\ x.answer = answer[w]
  BY <1>4 DEF Flights
<1>6. flight' = [flight EXCEPT ![s] = x]
  BY <1>1, <1>3 DEF PageInv, ClientTypeOK
<1> HIDE DEF s, x
<1>7. flight'[s] = x /\ \A e \in Slots \ {s} : flight'[e] = flight[e]
  BY <1>3, <1>6 DEF PageInv, ClientTypeOK
<1>8. x # Nothing
  BY <1>5, ClientAssumption
<1>9. \A e \in Slots : /\ flight'[e] # Nothing <=> flight[e] # Nothing
                       /\ flight'[e].by = flight[e].by
                       /\ flight'[e].request = flight[e].request
  BY <1>3, <1>5, <1>7, <1>8
<1>10. ServerInv'
  BY <1>1, ServerStep DEF PageInv
<1>11. ClientTypeOK'
  <2>1. flight' \in [Slots -> Flights \cup {Nothing}]
    BY <1>5, <1>6 DEF PageInv, ClientTypeOK
  <2>2. serving' \in [Workers -> Slots \cup {Nothing}]
    BY <1>1 DEF PageInv, ClientTypeOK
  <2> QED
    BY <1>1, <1>10, <2>1, <2>2 DEF PageInv, ClientTypeOK, ServerInv
<1>12. Links'
  <2> SUFFICES ASSUME NEW v \in Workers, phase'[v] # "free"
               PROVE  Linked(v)'
    BY DEF Links, Linked
  <2>1. v # w
    BY <1>2 DEF PageInv, ServerInv, HandlerTypeOK
  <2>2. phase'[v] = phase[v] /\ request'[v] = request[v]
    BY <1>2, <2>1 DEF PageInv, ServerInv, HandlerTypeOK
  <2>3. Linked(v)
    BY <1>2 DEF PageInv, Links
  <2>4. serving[v] \in Slots /\ serving[v] # s
    BY <1>3, <2>1, <2>2, <2>3 DEF Linked
  <2>5. flight'[serving[v]] = flight[serving[v]]
    BY <1>7, <2>4
  <2>6. serving'[w] = Nothing /\ \A u \in Workers \ {w} : serving'[u] = serving[u]
    BY <1>1 DEF PageInv, ClientTypeOK
  <2>7. Nothing \notin Slots
    BY ClientAssumption
  <2>8. \A u \in Workers : serving'[u] = serving[v] => u = v
    BY <2>2, <2>3, <2>4, <2>6, <2>7 DEF Linked
  <2> QED
    BY <2>1, <2>2, <2>3, <2>5, <2>6, <2>8 DEF Linked
<1>13. FlightsFit'
  <2> SUFFICES ASSUME NEW e \in Slots, flight[e] # Nothing
               PROVE  FlightFits(e)'
    BY <1>9 DEF FlightsFit
  <2>1. FlightFits(e)
    BY DEF PageInv, FlightsFit
  <2>2. CASE e = s
    <3>1. Plays(request[w], answer[w]) /\ (~answer[w].mixed => Prints(request[w], answer[w]))
      BY <1>2 DEF PageInv, ServerInv, Works
    <3>2. flight'[e].request = request[w] /\ flight'[e].answer = answer[w]
          /\ flight'[e].by = flight[e].by /\ flight'[e].request = flight[e].request
      BY <1>3, <1>5, <1>7, <2>2
    <3>3. Plays(flight'[e].request, flight'[e].answer) = Plays(request[w], answer[w])
          /\ Prints(flight'[e].request, flight'[e].answer)
              = Prints(request[w], answer[w])
      BY <3>2
    <3> QED
      BY <1>1, <1>2, <2>1, <3>1, <3>2, <3>3 DEF FlightFits
  <2>3. CASE e # s
    <3>1. flight'[e] = flight[e]
      BY <1>7, <2>3
    <3>2. Plays(flight'[e].request, flight'[e].answer)
              = Plays(flight[e].request, flight[e].answer)
          /\ Prints(flight'[e].request, flight'[e].answer)
              = Prints(flight[e].request, flight[e].answer)
      BY <3>1
    <3> QED
      BY <1>1, <1>2, <2>1, <3>1, <3>2 DEF FlightFits
  <2> QED
    BY <2>2, <2>3
<1>14. PageInv'
  BY <1>1, <1>10, <1>11, <1>12, <1>13 DEF PageInv, ScreenLives, FenReachable
<1>15. TurnInv'
  <2>1. Shown' = Shown /\ Sound' = Sound /\ screen' = screen /\ haste' = haste
    BY <1>1 DEF Shown, Sound
  <2>2. \A by : {e \in Slots : flight'[e] # Nothing /\ flight'[e].by \in by} = Of(by)
    BY <1>9 DEF Of
  <2>3. Pending' = Pending /\ Of(Games)' = Of(Games)
        /\ Of({screen.owner})' = Of({screen.owner})
    BY <2>1, <2>2 DEF Pending, Of
  <2>4. \A e \in Of(Games) : Asked(e) => Asked(e)'
    BY <1>9, <2>1 DEF Asked, Of
  <2> QED
    BY <1>2, <2>1, <2>3, <2>4 DEF TurnInv, OneAsked, AllAsked, BlackAsked, BoardShown
<1> QED
  BY <1>14, <1>15

----------------------------------------------------------------------------
(* Every step, and the theorems.                                           *)

\* A click on a square keeps the page's invariants.
LEMMA ClickKeeps ==
    ASSUME PageInv, TurnInv, NEW sq \in Clicks, handlePieceClick(sq)
    PROVE  PageInv' /\ TurnInv'
BY SelectKeeps, SendKeeps DEF handlePieceClick

\* Every step of the page, its requests and the server keeps them.
LEMMA ClientStepKeeps ==
    ASSUME PageInv, TurnInv, [ClientNext]_everything
    PROVE  PageInv' /\ TurnInv'
<1>1. CASE UNCHANGED everything
  <2>1. UNCHANGED allVars /\ UNCHANGED clientVars
    BY <1>1 DEF everything
  <2>2. ServerInv' /\ up' = up
    BY <2>1, ServerStays DEF PageInv, allVars, handlerVars
  <2>3. Links'
    BY <2>1 DEF PageInv, Links, Linked, allVars, handlerVars, clientVars
  <2>4. serving' \in [Workers -> Slots \cup {Nothing}]
    BY <2>1 DEF PageInv, ClientTypeOK, clientVars
  <2> QED
    BY <2>1, <2>2, <2>3, <2>4, VisitsType, Unseen DEF clientVars
<1>2. CASE ClientNext
  BY <1>2, StartKeeps, VisitKeeps, ClickKeeps, RespondKeeps, AcceptKeeps, WorkingKeeps,
     ReplyKeeps, DieKeeps, LoggingKeeps DEF ClientNext
<1> QED
  BY <1>1, <1>2

\* They hold on the page as it is loaded.
LEMMA PageInit ==
    ASSUME ClientInit
    PROVE  PageInv /\ TurnInv
<1>1. ServerInv
  BY ServerInit DEF ClientInit
<1>2. /\ flight = [f \in Slots |-> Nothing] /\ serving = [w \in Workers |-> Nothing]
      /\ game = [g \in Games |-> NoGame]
      /\ screen = [owner |-> NoGame, shows |-> Nothing, reversed |-> FALSE, mixed |-> FALSE]
      /\ haste = 0 /\ visits = 0
  BY DEF ClientInit
<1>3. ClientTypeOK
  BY <1>1, <1>2, ClientAssumption DEF ClientTypeOK, ServerInv
<1>4. \A w \in Workers : phase[w] = "free"
  BY DEF ClientInit, HandlerInit
<1>5. Links /\ FlightsFit /\ ScreenLives /\ FenReachable
  BY <1>2, <1>4 DEF Links, Linked, FlightsFit, ScreenLives, FenReachable
<1>6. TurnInv
  BY <1>2 DEF TurnInv, OneAsked, AllAsked, BlackAsked, BoardShown, Pending, Of, Sound
<1> QED
  BY <1>1, <1>3, <1>5, <1>6 DEF PageInv

\* The page's invariants hold in every state of the composition.
LEMMA PageAlways == ClientSpec => [](PageInv /\ TurnInv)
<1>1. ClientInit => PageInv /\ TurnInv
  BY PageInit
<1>2. PageInv /\ TurnInv /\ [ClientNext]_everything => (PageInv /\ TurnInv)'
  BY ClientStepKeeps
<1> QED
  BY <1>1, <1>2, PTL DEF ClientSpec

\* The variables of page, visitors and server have their types: what a closure
\* holds for its FEN is a position, no text, or one that parseFen rejects.
THEOREM PageTypes == ClientSpec => []ClientTypeOK
<1>1. PageInv => ClientTypeOK
  BY DEF PageInv
<1> QED
  BY <1>1, PageAlways, PTL

\* Whatever the player clicks, whoever else is served meanwhile and whatever is
\* logged, the FEN of a game is one that legal moves from the start lead to,
\* unless the game once took another text for it.
THEOREM GamesAreChess == ClientSpec => []FenReachable
<1>1. PageInv => FenReachable
  BY DEF PageInv
<1> QED
  BY <1>1, PageAlways, PTL

\* What a player who waits for answers sees is the position the next click is
\* sent with, the right way up, if nothing disturbed the text that is drawn and
\* the game never took another text for its FEN.
THEOREM ScreenCorrect == ClientSpec => []ShownIsPlayed
<1>1. PageInv /\ TurnInv => ShownIsPlayed
  <2> SUFFICES ASSUME TurnInv, PageInv, haste = 0, Pending = {}, Sound, ~screen.mixed
               PROVE  screen.shows = Shown /\ ~Upside
    BY DEF ShownIsPlayed, Shown, Sound
  <2> QED
    BY DEF TurnInv, BoardShown, Upside, PageInv, ClientTypeOK
<1> QED
  BY <1>1, PageAlways, PTL

\* Clicks move no game,
LEMMA ClickInTurn ==
    ASSUME PageInv, NEW sq \in Clicks, handlePieceClick(sq), NEW g \in Games
    PROVE  InTurn(g)
<1> DEFINE o == screen.owner
<1>1. PICK c : game' = [game EXCEPT ![o].completeMove = c]
  BY DEF handlePieceClick, Select, Reselect, SendMove
<1>2. o \in Games
  BY DEF handlePieceClick, PageInv, ClientTypeOK
<1>3. game[g] # NoGame => game[g] \in Closures
  BY DEF PageInv, ClientTypeOK
<1>4. game[g] # NoGame => game'[g].FEN = game[g].FEN
  BY <1>1, <1>2, <1>3 DEF PageInv, ClientTypeOK, Closures
<1> QED
  BY <1>4 DEF InTurn

\* nor does a response that is no answer to a move.
LEMMA RefusedInTurn ==
    ASSUME PageInv, NEW f \in Slots, Refused(f) \/ NewGame(f), NEW g \in Games
    PROVE  InTurn(g)
<1> DEFINE h == CHOOSE h \in Games : Of({h}) = {}
           new == NewClosure
<1>1. PICK closures \in [Games -> Closures \cup {NoGame}] :
          Keep(closures) /\ closures[g] \in {game[g], new}
  <2>1. CASE Refused(f)
    BY <2>1 DEF Refused, PageInv, ClientTypeOK
  <2>2. CASE NewGame(f)
    <3> DEFINE c == [game EXCEPT ![h] = new]
    <3>1. Keep(c)
      BY <2>2 DEF NewGame
    <3>2. new \in Closures
      BY TurnAssumption DEF Closures, NewClosure, Fens
    <3> HIDE DEF h, new
    <3>3. c \in [Games -> Closures \cup {NoGame}] /\ c[g] \in {game[g], new}
      BY <3>2 DEF PageInv, ClientTypeOK
    <3> QED
      BY <3>1, <3>3
  <2> QED
    BY <2>1, <2>2
<1>2. game'[g] \in {NoGame, game[g], new}
  BY <1>1, Kept DEF Keep
<1> QED
  BY <1>2 DEF InTurn, NewClosure

\* The answer to a move is the move.
LEMMA AnswerInTurn ==
    ASSUME PageInv, TurnInv, NEW f \in Slots, MovePlayed(f) \/ AiPlayed(f), haste' = 0,
           NEW g \in Games
    PROVE  InTurn(g)
<1> DEFINE r == flight[f].request
           a == flight[f].answer
<1>1. Arrived(f, Games) /\ haste = 0 /\ Keep(Moved(f))
  BY DEF MovePlayed, AiPlayed, Moved
<1>2. f \in Of(Games) /\ flight[f] # Nothing /\ flight[f].by \in Games
      /\ a # NoAnswer /\ FlightFits(f)
  BY <1>1, ArrivedFits DEF Arrived
<1>3. a.status = 200
  BY DEF MovePlayed, AiPlayed
<1>4. /\ Moved(f) \in [Games -> Closures \cup {NoGame}]
      /\ Moved(f)[flight[f].by].FEN = parseResponseBody(a)
      /\ ~Moved(f)[flight[f].by].spoilt =>
            /\ game[flight[f].by] # NoGame /\ ~game[flight[f].by].spoilt
            /\ parseResponseBody(a) = a.fen
            /\ Draws(r, a)
  BY <1>1, <1>3, AnswerMoves
<1>5. game'[g] # NoGame => game'[g] = Moved(f)[g]
  BY <1>1, <1>4, Kept
<1>6. CASE g # flight[f].by
  <2>1. Moved(f)[g] = game[g]
    BY <1>6 DEF Moved, TakeFen, PageInv, ClientTypeOK
  <2> QED
    BY <1>5, <2>1 DEF InTurn
<1>7. CASE g = flight[f].by
  <2> SUFFICES ASSUME game'[g] # NoGame, ~game'[g].spoilt
               PROVE  InTurn(g)
    BY DEF InTurn
  <2>1. /\ game'[g].FEN = a.fen /\ Draws(r, a)
        /\ game[g] # NoGame /\ ~game[g].spoilt
    BY <1>4, <1>5, <1>7
  <2>2. Asked(f) /\ g = screen.owner /\ Sound
    <3>1. Asked(f)
      BY <1>1, <1>2 DEF TurnInv, AllAsked
    <3> QED
      BY <1>2, <1>7, <2>1, <3>1, ClientAssumption DEF Asked, Sound
  <2>3. r.fen = game[g].FEN
    BY <2>2 DEF Asked, Shown
  <2>4. Chess.side[game[g].FEN] = "white" => r.then = "move"
    <3>1. r.then \in {"move", "ai"}
      BY <1>2 DEF FlightFits
    <3> QED
      BY <2>2, <3>1, TurnAssumption DEF Asked, Shown
  <2>5. PICK m \in Legal(r.fen) : Answering(r, a.fen, m)
    BY <2>1 DEF Draws
  <2>6. m \in Legal(game[g].FEN) /\ m.next = game'[g].FEN
    BY <2>1, <2>3, <2>5 DEF Answering
  <2>7. Chess.side[game[g].FEN] = "white" =>
            r.then = "move" /\ r.from = m.from /\ r.to = m.to
    BY <2>4, <2>5 DEF Answering
  <2>8. f \in Of({g})
    BY <1>2, <1>7 DEF Of
  <2> QED
    BY <2>6, <2>7, <2>8 DEF InTurn
<1> QED
  BY <1>6, <1>7

\* A player who waits for each response plays a game of chess: White's moves
\* are the clicked ones, Black's any legal one, in turn, and none is lost, as
\* long as no logged line is taken for a FEN.
THEOREM TurnsCorrect == ClientSpec => PlaysInTurn
<1>1. PageInv /\ TurnInv /\ [ClientNext]_everything
        => [haste' = 0 => \A g \in Games : InTurn(g)]_everything
  <2> SUFFICES ASSUME PageInv, TurnInv, ClientNext, haste' = 0, NEW g \in Games
               PROVE  InTurn(g)
    OBVIOUS
  <2>1. CASE \E sq \in Clicks : handlePieceClick(sq)
    BY <2>1, ClickInTurn
  <2>2. CASE \E f \in Slots : Respond(f)
    BY <2>2, RefusedInTurn, AnswerInTurn DEF Respond
  <2>3. CASE game' = game
    BY <2>3 DEF InTurn
  <2> QED
    BY <2>1, <2>2, <2>3
    DEF ClientNext, StartNewGame, Visit, Accept, Working, Reply, Die, Logging, clientVars
<1> QED
  BY <1>1, PageAlways, PTL DEF ClientSpec, PlaysInTurn

=============================================================================
