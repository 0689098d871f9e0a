--------------------------- MODULE OutputRedirect ---------------------------
(***************************************************************************)
(* How chess_handler (src/src/chess_handler.cc) gets the text of a board:  *)
(* Board::printBoard writes to std::cout, so every request points cout at  *)
(* a stringstream of its own, prints, takes the text and points cout back. *)
(* There is one cout in the process and a thread of the pool per request.  *)
(* serve, move_pieces and handle_ai do this in the same words.             *)
(*                                                                         *)
(* std::cout is also where the log goes (log_init in src/src/              *)
(* server_main.cc): any thread may log a line at any time, for a request   *)
(* that has nothing to do with chess as well.                              *)
(*                                                                         *)
(* A printed board is its rows, each written by one step, as a line of the *)
(* log is.  std::cout.rdbuf is a read of the current buffer and a store of *)
(* the new one: nothing makes the two one step.                            *)
(*                                                                         *)
(* Bound: MaxText, the length from which on no more lines are logged into  *)
(* a stringstream.                                                         *)
(***************************************************************************)
EXTENDS Integers, Sequences

CONSTANTS Workers,  \* the threads of the pool
          Boards,   \* the boards that are asked for
          Rows,     \* the number of rows of a printed board
          Lines,    \* what the lines of the log may say
          MaxText,
          console,  \* the buffer cout has when the program starts
          NoBoard

ASSUME RedirectAssumption ==
    /\ console \notin Workers /\ NoBoard \notin Boards
    /\ Rows \in Nat /\ MaxText \in Nat

VARIABLES cout,     \* the buffer of cout: console, or the owner of a stringstream
          alive,    \* the threads whose stringstream exists
          buffer,   \* the text in each stringstream
          old,      \* what each thread will point cout back to
          step,     \* what each thread does next
          board,    \* the board its request asks for
          printed,  \* the rows it has printed
          body,     \* the text of its response
          mixed,    \* the threads whose text others may have disturbed: history
          tangled   \* whether two requests ever ran at the same time

vars == <<cout, alive, buffer, old, step, board, printed, body, mixed, tangled>>

\* What is written to cout: the rows of boards, and the lines of the log.
Written == (Boards \X (1..Rows)) \cup (Lines \X {0})

Text(b, n) == [r \in 1..n |-> <<b, r>>]

TypeOK ==
    /\ cout \in Workers \cup {console}
    /\ alive \subseteq Workers
    /\ buffer \in [Workers -> Seq(Written)]
    /\ old \in [Workers -> Workers \cup {console}]
    /\ step \in [Workers -> {"idle", "read", "store", "print", "restore"}]
    /\ board \in [Workers -> Boards \cup {NoBoard}]
    /\ printed \in [Workers -> 0..Rows]
    /\ body \in [Workers -> Seq(Written)]
    /\ mixed \subseteq Workers
    /\ tangled \in BOOLEAN

Init ==
    /\ cout = console
    /\ alive = {}
    /\ buffer = [w \in Workers |-> << >>]
    /\ old = [w \in Workers |-> console]
    /\ step = [w \in Workers |-> "idle"]
    /\ board = [w \in Workers |-> NoBoard]
    /\ printed = [w \in Workers |-> 0]
    /\ body = [w \in Workers |-> << >>]
    /\ mixed = {}
    /\ tangled = FALSE

Busy == {w \in Workers : step[w] # "idle"}

At(w, s) == step[w] = s

Goto(w, s) == step' = [step EXCEPT ![w] = s]

\* std::stringstream buffer;
Receive(w, b) ==
    /\ At(w, "idle")
    /\ board' = [board EXCEPT ![w] = b]
    /\ alive' = alive \cup {w}
    /\ buffer' = [buffer EXCEPT ![w] = << >>]
    /\ printed' = [printed EXCEPT ![w] = 0]
    /\ body' = [body EXCEPT ![w] = << >>]
    /\ mixed' = (mixed \ {w}) \cup (IF Busy = {} THEN {} ELSE Busy \cup {w})
    /\ tangled' = (tangled \/ Busy # {})
    /\ Goto(w, "read")
    /\ UNCHANGED <<cout, old>>

\* old = std::cout.rdbuf(buffer.rdbuf());
ReadBuffer(w) ==
    /\ At(w, "read")
    /\ old' = [old EXCEPT ![w] = cout]
    /\ Goto(w, "store")
    /\ UNCHANGED <<cout, alive, buffer, board, printed, body, mixed, tangled>>

StoreBuffer(w) ==
    /\ At(w, "store")
    /\ cout' = w
    /\ Goto(w, "print")
    /\ UNCHANGED <<alive, buffer, old, board, printed, body, mixed, tangled>>

\* One row of printBoard, into whatever buffer cout has by now.  What goes to
\* the console, or to a stringstream that is gone, is in no response; of two
\* threads appending to one stringstream either may lose its row.
RowGoes(w) ==
    \/ /\ cout \in alive
       /\ buffer' = [buffer EXCEPT ![cout] = Append(@, <<board[w], printed[w] + 1>>)]
    \/ /\ cout \notin alive \/ \E v \in Workers \ {w} : At(v, "print")
       /\ UNCHANGED buffer

\* A line of the log, which is written while a thread prints a row or is not: of
\* two that are written at the same moment either may be lost.
LineGoes(l) ==
    LET text == buffer[cout]
    IN  \/ buffer' = [buffer EXCEPT ![cout] = Append(@, <<l, 0>>)]
        \/ /\ \E w \in Workers : At(w, "print") /\ printed[w] < Rows
           /\ UNCHANGED buffer
        \/ /\ text # << >>
           /\ \E w \in Workers :
                 At(w, "print") /\ text[Len(text)] = <<board[w], printed[w]>>
           /\ buffer' = [buffer EXCEPT ![cout][Len(text)] = <<l, 0>>]

\* Any thread logs, at any time; into a response only while its stringstream is
\* in cout and not yet read.
Log(l) ==
    /\ cout \in alive /\ ~At(cout, "restore")
    /\ Len(buffer[cout]) < MaxText
    /\ LineGoes(l)
    /\ mixed' = mixed \cup {cout}
    /\ UNCHANGED <<cout, alive, old, step, board, printed, body, tangled>>

\* Mutant: one row too many.
PrintRow_OffByOne(w) ==
    /\ At(w, "print") /\ printed[w] <= Rows
    /\ printed' = [printed EXCEPT ![w] = @ + 1]
    /\ RowGoes(w)
    /\ UNCHANGED <<cout, alive, old, step, board, body, mixed, tangled>>

PrintRow(w) ==
    /\ At(w, "print") /\ printed[w] < Rows
    /\ printed' = [printed EXCEPT ![w] = @ + 1]
    /\ RowGoes(w)
    /\ UNCHANGED <<cout, alive, old, step, board, body, mixed, tangled>>

\* Mutant: a response before the text is complete.
TakeText_Early(w) ==
    /\ At(w, "print")
    /\ body' = [body EXCEPT ![w] = buffer[w]]
    /\ Goto(w, "restore")
    /\ UNCHANGED <<cout, alive, buffer, old, board, printed, mixed, tangled>>

\* res_body = buffer.str();
TakeText(w) ==
    /\ At(w, "print") /\ printed[w] = Rows
    /\ body' = [body EXCEPT ![w] = buffer[w]]
    /\ Goto(w, "restore")
    /\ UNCHANGED <<cout, alive, buffer, old, board, printed, mixed, tangled>>

\* Mutant: cout keeps the buffer that is about to go.
Restore_Forgets(w) ==
    /\ At(w, "restore")
    /\ alive' = alive \ {w}
    /\ Goto(w, "idle")
    /\ UNCHANGED <<cout, buffer, old, board, printed, body, mixed, tangled>>

\* std::cout.rdbuf(old); the stringstream goes when the handler returns.
Restore(w) ==
    /\ At(w, "restore")
    /\ cout' = old[w]
    /\ alive' = alive \ {w}
    /\ old' = [old EXCEPT ![w] = console]
    /\ buffer' = [buffer EXCEPT ![w] = << >>]
    /\ printed' = [printed EXCEPT ![w] = 0]
    /\ Goto(w, "idle")
    /\ UNCHANGED <<board, body, mixed, tangled>>

\* The response is gone, and with it what the thread knew of the request.
Leave(w) ==
    /\ At(w, "idle")
    /\ board' = [board EXCEPT ![w] = NoBoard]
    /\ body' = [body EXCEPT ![w] = << >>]
    /\ mixed' = mixed \ {w}
    /\ UNCHANGED <<cout, alive, buffer, old, step, printed, tangled>>

Next ==
    \/ \E w \in Workers :
          \/ \E b \in Boards : Receive(w, b)
          \/ ReadBuffer(w) \/ StoreBuffer(w) \/ PrintRow(w) \/ TakeText(w)
          \/ Restore(w) \/ Leave(w)
    \/ \E l \in Lines : Log(l)

Spec == Init /\ [][Next]_vars

----------------------------------------------------------------------------
Answered(w) == At(w, "idle") /\ board[w] # NoBoard

HasOwnBoard(w) == body[w] = Text(board[w], Rows)

\* A request that no other overlaps, and into whose text nothing was logged, is
\* answered with its own board, even when earlier ones that did overlap left
\* cout pointing to a buffer that is gone.
OwnBoardWhenAlone ==
    \A w \in Workers : Answered(w) /\ w \notin mixed => HasOwnBoard(w)

\* As long as no two requests have overlapped, cout has its console back
\* whenever no request is running, whatever was logged meanwhile.
RestoredWhenAlone == (Busy = {} /\ ~tangled) => cout = console

RedirectsWhenAlone == OwnBoardWhenAlone /\ RestoredWhenAlone

\* The output of printBoard is redirected to the response of its own request.
OwnBoard == \A w \in Workers : Answered(w) => HasOwnBoard(w)

=============================================================================
