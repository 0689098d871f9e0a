# A verification project for Webserver-Chess-Game

The repository is a small web server (`src/src/*.cc`, Boost.Asio, eight threads)
with request handlers for static files, echo, sleep, health, a CRUD API kept in
files, and a chess game whose engine (`src/src/chess/`) generates moves, judges
games and recommends a move by a timed alpha-beta search. The page
`src/files/frontend/index.html` plays against it.

This directory models the parts of it that keep state, checks them with TLC and
proves the central invariants with TLAPS. All definitions are translated from
the source; `PROJECT.json` gives the lines of each (`map`), every run, a mutant
per property, the hazards the properties are aimed at, and the theorems.

    tlc -config WebServer.cfg MCWebServer           # one of the runs
    tlapm ServerProofs.tla                          # one of the proofs

Contents: 1 inventory, 2 the modules and the code, 3 what the runs show,
4 bounds, 5 fairness and deadlock, 6 proofs, 7 disagreements found,
8 abstractions, 9 what is not modelled, 10 plan.

## 1. Inventory

| Part | State | Operations | Talks to | What is hard | What makes it correct |
|---|---|---|---|---|---|
| **Board** `chess/board.cpp` | 8x8 squares, piece lists, side, rights, en passant square, Zobrist key, material, history, fifty-move ply | add/remove a piece, hash rights and en passant in and out, change side, push/pop history, count repetitions, parse/print FEN | called by Movegen, Searcher, chess handler | one position is kept in five redundant forms, each updated incrementally | the forms agree after any legal order of calls |
| **Movegen** `chess/movegen.cpp` | one Board | `generateMoves`, `generateCaptures`, `squareAttacked`, `makeMove`, `takeBack`, `gameWinner` | Board | castling through check, rights that outlive a rook, pinned en passant pawns, undoing all of it | exactly the legal moves are accepted, `takeBack` is the inverse of `makeMove`, mate is told from stalemate |
| **Move keys** `chess/defs.cpp` | none (bit fields of an int) | `getMove`, accessors | everything that handles moves | overlapping fields | reading gives back what was packed |
| **Searcher** `chess/searcher.cpp` | PV table, killer and history tables, depth, clock, stop flag, root key | `prepSearch`, `reccomendMove`, `alphaBeta`, `quiescenceSearch`, `storePvMove`, `checkTime` | Movegen, clock | abort in the middle of an iteration, hash collisions, positions without a move | the answer comes from a finished iteration and is a best move of it; the board comes back as it was; there is an answer |
| **Chess handler** `chess_handler.cc` | none between requests (the FEN is in the URL) | show, move, AI move | Searcher, `std::cout` | output is redirected process-wide while eight threads run, and log | a response is about its own request; a move is legal; the result is right |
| **Chess client** `files/frontend/index.html` | a closure per game (FEN, clicks so far), the board on the screen | start a game, click, answer arrives | chess handler by HTTP | several requests under way, late answers, answers of an earlier game, finished games | what is shown is what is played; a game moves by legal moves, in turn; the page reads the position the handler wrote |
| **CRUD handler** `crud_handler.cc` | the index: entities and the ids of each (shared by all threads) | create, retrieve, update, delete, list | file system, server | no lock on the index; index and directory change in separate steps; exceptions end the process | index and directory agree; answers are those of a durable store |
| **Persistent file system** `persistent_filesystem.cc` | a directory per entity, a file per id | create directory, write, read, delete, list | CRUD handler, server | opening truncates; failures are returned and ignored | what was answered is on the disk |
| **Server** `server.cc` | acceptor, routes, handler names, `crud_endpoints_` | construct, accept, create factories, run 8 threads | session, factories, file system | each completed accept has to start the next; routes are rewritten on every accept, without a lock; endpoint keys with and without a slash | one accept at any time; every request reaches the handler its longest endpoint names, with the index of its directory |
| **Session** `session.cc` | socket, buffer, request | start, match, handle_read | server, handlers | deletes itself while `start` may still run; the synchronous write may throw, or wait for a client for ever | one thing is to happen to a session that exists, none to another; what arrives is answered |
| **Configuration parser** `config_parser.cc` | block stack, token state | parse, port, paths, handlers | server_main | quoting, comments, end of file inside a token; `top()` and `back()` without a look | accepts exactly the configurations of its grammar, ends on every file |
| **Main, logging** `server_main.cc` | none | start, stop on a signal, log | parser, server, `std::cout` | a signal at any moment; the port is narrowed to a short on its way; the console of the log is the stream that chess requests redirect | runs what is configured, or ends; the log stays out of responses |
| Static, echo, sleep, health, error, not-found handlers | none | answer | session | nothing stateful | - |
| Reply `reply.cc`, mock file system, tests, container and build files | - | - | - | unused by the program, or not part of it | - |

Two chains of behaviour matter most: a chess move (client -> session -> chess
handler -> Searcher -> Movegen -> Board, and back as FEN and result), and a CRUD
request (session -> handler -> index -> file system, and the restart that reads
the directory back).

## 2. The modules and the code

### Board

`Board.tla` has the methods of `chess/board.cpp` as operators on a record: the
board before the call in, the board after it out. The fields are those of the
class, with `pListR`/`pListC`/`pceNum` as one sequence of squares per piece
type, `posKey` as the set of random numbers XORed into it an odd number of
times, and `castlePerm` as the set of its bits. `removePiece` fills the gap in a
list from its end, as the code does; `exited` records a call of `exit(1)`.
`BoardContract.tla` is the specification: any caller that keeps the contract of
`board.h` calls the methods in any order. `Movegen` extends `Board` too, and
`ChessBoardAssumption` says that its board is the real one: 64 squares, the
twelve pieces with their worth, the four rights.

### Movegen

| Module | What it is |
|---|---|
| `MoveKey` | the integer of a move as the set of its bits (`getMove`, `defs.cpp`) |
| `Movegen` | `generateMoves`, `generateCaptures`, `squareAttacked`, `makeMove`, `takeBack`, `gameWinner`, `parseFen`, `getFen`; its actions are a move that is made and one that is taken back |
| `ChessRules` | the laws of chess, written without looking at the engine: men on squares, attacks as geometry |
| `ChessGame` | abstract specification: a game of chess in which moves may be taken back |
| `MovegenRules` | the properties, and `PlaysChess`, the refinement of `ChessGame` |

A position of `ChessGame` is the abstraction of a board. The engine's history
entries do not hold positions, so `RecordedSpec` adds the history variable
`line`: the positions that taking back move after move finds. A `takeBack` that
forgets one right therefore fails `PlaysChess` at the step that undoes the move.

### CRUD

`Filesystem.tla` is `persistent_filesystem.cc` on one endpoint's directory, where
opening a file empties it and closing it brings the text. `Crud.tla` is
`crud_handler.cc`: each thread's handler proceeds by its accesses to the shared
index and its calls of the file system, one action each, named after the code
(`FindEntity`, `InsertEntity`, `MakeDirectory`, `ChooseId`, ... `EraseId`).
`Crash` ends the process between any two steps (so do the exceptions nothing
catches), and `Restart` is the constructor of `server`, which rebuilds the index
with `list_files`. `DurableStore.tla` says what a single client is promised, and
`CrudStore.tla` maps one thread of `Crud` onto it: the store's documents are the
files on the disk, its entities the directories; the index and the handler's
intermediate steps are hidden.

### Searcher

`Searcher.tla` is `chess/searcher.cpp` during one request of `handle_ai`. The C++
recursion is `stack`, one record per active call with its parameters and locals;
`Enter` is the beginning of a call (clock, draw, depth, stand-pat, generating the
moves), `TryMove` the next `makeMove`, `HandleScore` what follows a recursive
call (`takeBack`, stop, beta, alpha), `EndLoop` mate, stalemate and
`storePvMove`; `Deepen`, `EndIteration` and `LookUp` are `reccomendMove`. The
game that is searched is data: a graph of positions with captures, moves that
`makeMove` refuses, checks and evaluations. `SearcherRules.tla` holds the
reference, plain negamax without windows, tables or clock: `DeepValues` is a
recursive function of the depth that is left, `QuietValues` of the captures in a
row that are still looked at, of which there are no more than men on the board.

### Chess handler and page

`OutputRedirect.tla` is the redirection of `std::cout` in `serve`, `move_pieces`
and `handle_ai` (the same lines three times) by the threads of the pool. One
printed row is a step; `cout` names whose `stringstream` it writes to, which may
be gone. The log writes to `std::cout` too (`log_init`): `Log` is a line that any
thread logs while some request has `cout` redirected, for whatever reason (a
connection that comes, the response to another request), so that a text is a
sequence of rows and lines. The history variable `mixed` has the requests whose
text others may have disturbed, by printing at the same time or by logging.

`ChessHandler.tla` extends it with the rest of `chess_handler.cc`: `Serve` is
`serve` with its early returns (no FEN: the page; a bad FEN; `+ai`; a malformed
move; a move; a board), `MovePieces` is `move_pieces`, `Recommend` and `Finish`
are `handle_ai`, `Overflow` the recursion of `reccomendMove` without a legal
move. The boards of `OutputRedirect` are its positions. Chess itself is data here
(`Chess.moves`, pseudo-legal ones included, `Chess.result`): `Movegen` and
`Searcher` are about the code behind it. Of a logged line it matters what the page
would find in it: `NoPlus` is a line without a `+`, any other is named after what
is between its first two (`Fens`: a position, no text, or one that `parseFen`
rejects). `Corrupt` ends the process where two threads write to one `stringbuf`,
or any to one that is gone.

`ChessClient.tla` is `index.html` as a client of that server. The page's
callbacks are its actions: `StartNewGame`, `handlePieceClick` (`Select`,
`Reselect`, `SendMove`), `NewGame`, `MovePlayed`, `AiPlayed`, `Refused`. A "Start
New Game" makes a new closure, and callbacks of the old one may still come;
`game` holds the closures, `screen` what is drawn and whose it is. A visitor
sends requests of its own to the same threads. The answer of a handler is its
text and what it appends (`fen`, `result`); `parseResponseBody` is what the page
finds there, the first `+` being that of a logged line if there is one, and
`TakeFen` makes it the FEN of the closure. The page cannot tell; the model can,
and notes it in `spoilt`.

### Configuration, server and sessions

| Module | What it is |
|---|---|
| `ConfigParser` | `ParseToken`, a character per step, and `Parse`, which gets each token in the step that ends it |
| `Config` | what is read from the result: port, paths, handler types |
| `ConfigRules` | the reference, without an automaton: the tokens of a text, and the configurations tokens can be read as |
| `Server` | `server.cc` and `session.cc`: construction, the chain of accepts, sessions, routing, the pool of threads |
| `WebServer` | `server_main.cc`: parse, configure, construct, run; it composes the above |

In `Server` a completion handler of the io_service is a record in `ready`; a free
thread takes one and goes through `handle_accept` (`log`, `rearm`) or
`handle_read` (`serve`, `write`). `alive` are the sessions that exist, and `gone`
those whose client has hung up, so that the write may throw and end the process.
`LogStarted` is the log line of `session::start`: when the session has been
deleted in between, it may end the process too. `Long` are the handlers whose
answers may be longer than the buffers of a socket: their write waits for the
client (section 5).

`MC*.tla` instantiate the above for TLC, `*Proofs.tla` hold the theorems.

## 3. What the runs show

| Run | Question | Properties |
|---|---|---|
| `board_calls` | Do the redundant forms of a position agree after any legal sequence of calls? | `ListsMatchBoard`, `PosKeyMatchesBoard`, `MaterialMatchesBoard`, `FiftyMoveInPast`, `TypeOK` |
| `moves` | Around castling, en passant, promotion, mates and stalemates, are exactly the legal moves made, undone completely, and the outcome and repetitions told right? | `PlaysChess`, `AcceptsLegalMoves`, `CapturesAreCaptures`, `BoardConsistent`, `FenRoundTrip`, `KeysIdentifyMoves`, `WinnerIsOutcome`, `RepetitionsFound` |
| `crud_sequential` | Does one client see a durable store, with a crash at any step? | `ImplementsStore`, `RestartChangesNothing`, `TypeOK` |
| `crud_concurrent` | Two requests at once, crashes and failing writes: which listed ids may be without a file? | `IndexBacked` |
| `crud_race` | Does what was answered survive a restart? (No: section 7.) | `RetrieveSurvivesRestart` |
| `searcher_best` | Does the search find the negamax value and a best move, and end, with a clock that may run out at any node? | `ScoreIsMinimax`, `AnswerIsBest`, `AnswerIsLegal`, `BoardComesBack`, `WindowsOpen`, `Answers`, `TypeOK` |
| `searcher_over` | Is every request answered? (No: section 7.) | `AlwaysAnswers` |
| `searcher_circle` | Is the answer still best where the root recurs in its own tree? (No: section 7.) | `AnswerIsBest` |
| `output_body` | Is a request that overlaps another answered with its own board? (No: section 7.) | `OwnBoard` |
| `chess_page` | The page, a visitor and the server together: is the game on the screen a game of chess, whatever is clicked, overlaps, finishes or is logged? | `ShownIsPlayed`, `PlaysInTurn`, `FenReachable`, `WhiteIsHeard`, `RedirectsWhenAlone`, `EveryoneAnswered`, `ClientTypeOK` |
| `logged_fen` | Is what the page reads after the `+` the FEN of its answer? (No: section 7.) | `AfterPlusIsFen` |
| `web_server` | From the characters of the file to the answers: is every file read as its grammar says, and does the configured server route, accept, own and answer? | `ParsesConfigurations`, `StackInUse`, `StartsOrExits`, `RunsAsConfigured`, `IndexMatchesDirectory`, `OneAccept`, `OneOwner`, `Responsive`, `WebTypeOK` |

`AcceptsLegalMoves` compares the engine with `ChessRules`: the pseudo-legal moves
that `makeMove` accepts are the legal ones, no more and no fewer. `IndexBacked`
excuses an id that a running request is creating or deleting, and one whose
`write_file` failed; the history variable `unwritten` remembers the latter.
`ShownIsPlayed` and `PlaysInTurn` are promised to a player who waits for each
response (`haste = 0`), `FenReachable` to everyone: two requests under way, or
two that print at once, may show the wrong board but never make a game leave the
positions that chess can reach. What can is a logged line that the page takes for
the FEN (`logged_fen`). All three say what else there is to say: a game in which
that never happened (`spoilt`) is a game of chess, also when lines without a `+`
were logged into every response and spoilt the picture, and when other games of
the same page have been disturbed. `RedirectsWhenAlone` is about the text: a
request that no other overlaps and no line meets has its own board, whatever
happened to earlier ones.
`EveryoneAnswered` is exact about what can go
wrong: a request is not answered only if it asks for a move of a finished game,
if every thread does, or if the process has ended. `ParsesConfigurations` says
that `Parse` returns true iff the tokens of the file can be read as a
configuration, and then builds the one reading there is. `RunsAsConfigured`
compares the running server with the file: its port, and for each request the
handler of the longest endpoint it begins with. `Responsive` is that the server
comes to accept again and again, and that what has arrived is answered, unless
every thread is held or the process has ended. A thread is held (`Held`) by a
chess request, which may search for ever, or by a client that does not read a
long answer; the one, and that nothing short of all threads stops the others, is
what the property says. `OneAccept` is what
keeps `routes_` from being rewritten by two threads at once, without a lock.
Every property of a passing run has a mutant: a small change of a modelled
definition (an off-by-one, a dropped guard, a missing reset) under which TLC
finds the property violated in the same run.

## 4. Bounds

| Bound | Value | Why it is enough |
|---|---|---|
| `MaxPly` | 2 (castling, promotion), 3 (en passant, endings), 9 (positions that come back) | The start positions are one or two plies from the moves in question: a right is lost in one ply and misused in the next, an en passant square lives one ply, a mate is two plies away. Three occurrences take eight plies. |
| Start positions | `MCMovegen` | Few men, placed so that each special case is reached by both sides where the code for the sides differs: castling out of, through and into check, a rook taken in its corner, a promotion that takes a rook with a right, en passant that bares the king along the row. |
| `Squares`, `Pieces`, `CastleRights`, `ListSlots` | 3, 2, 1, 3 | A list with a gap in the middle needs three squares, confusion of lists two types, and any number of rights is a set of names to the key. |
| `MAXGAMELENGTH` | 1 in `board_calls` | One push, with any calls between it and its pop. |
| `Entities`, `MaxId`, `Docs` | 1-2, 2, 2 | An id is freed and reused with one other in use; two documents tell old from new. |
| `Workers`, `Threads` | 2 | Each race found needs two threads; the proofs cover any number. |
| `Rows` | 2 (`output_body`), 1 (`chess_page`) | Another request comes before, between and after rows. In `chess_page` the page cares only whether the board is whole. |
| `Games`, `Slots` | 2, 2 | The game on the screen and an older one with a request under way; a third cannot have one with two slots. |
| `MaxText` | 2 (`chess_page`, `logged_fen`), 0 (`output_body`) | A line before the row of a board, after it, and in its place; `output_body` shows the rows alone. |
| `Lines` | 4 | Without a `+`; with nothing after it, with no position, and with a position that no game reaches. |
| `MaxMeetings`, `Quiet` | 1 | The player or a visitor asks once while a request is under way, and the second request overlaps the first in every way; or a line is logged into a response, at any step of it. The proofs have any number of both together. The page acts while no handler prints: what it does in the middle of a print is invisible to the print, and a request it sent before is taken up at any step of it. |
| Positions of `MCChessClient` | 8 | A pawn that promotes (White's automatic queen, and a promotion to a knight that is never chosen), a pseudo-legal move that leaves the king in check, mate, stalemate, and two answers of Black. |
| `Sessions` | 3 | One to come and two under way on two threads, where the address of one that is deleted is given again (but not while a log line of it is still to be written: `Allocatable`). |
| One hang-up at a time | | Two clients that hang up end the process no differently than one. |
| Lengths of texts | 3 (all 12 characters), 4 (comments), 5 (quotes), 6 (braces) | Every state of the tokenizer with every next character and the end of the file; blocks two deep with a statement inside. Three whole files are run. |
| Files of `MCWebServer` | `Ordinary`, `Odd`, `NoPort` | A port beyond 32767, one that is out of range, endpoints with and without slashes, both spellings of one endpoint, two directories, an unknown handler and none. |
| `MAXDEPTH` | 11 (32 in the code) | A circle of four plies is gone round twice, so the third occurrence, a draw, is inside the tree. |
| Games of `MCSearcher` | `Tree`, `Round`, `Circle`, `Over` | Tree: captures beyond the horizon, an illegal move, mate or stalemate in the tree, every combination of three evaluations, and a table slot shared by the root. Round: repetitions away from the root. |

In `Movegen` and `MCBoardContract` bounds are guards of the actions; `ChooseId` of
`Crud` is disabled when `MaxId` documents exist, where the code goes on counting.

## 5. Fairness and deadlock

**Searcher.** `FairSpec` adds `WF_vars(Next)`: the thread that serves the request
keeps running, which the operating system's scheduler gives. Nothing is assumed
about the clock except what `Answers` says: `game.fits` means that a search of
depth 1 ends before the three seconds of `checkTime` are over (it looks at few
nodes, and the clock is read only at every 2048th). `Answers` is not trivial
under it: `prepSearch` runs in the constructor, before `handle_ai` reads the FEN,
so the first search keeps the key of the empty board as that of the root, lets
other positions overwrite the root's entry, and may have no answer; the second
search then has the key and one.

**Page and chess handler.** Threads run (weak fairness of each). A request that
was read is taken up and a response delivered under strong fairness: the
io_service's queue is first in, first out, so a handler is not passed over for
ever although the free thread may be another one each time; `Respond` needs it
only because `Quiet` disables it while others print (when the process has ended,
nobody does). The player and the visitors need not do anything, nor need anything
be logged. That a response is sent (`Reply`) is fair because it is small: the page
has 12 kB, a board with what was logged into it less, and the socket is a new one.

**Server.** The same: strong fairness for taking a completion handler (the queue),
weak fairness of each thread's next step, with two exceptions. The `serve` of a
chess request may search for ever. `http::write` has no timeout: it returns when
the answer is in the buffers of the socket, so that a client that does not read
can hold the thread of an answer that is longer than they are. `Respond` is fair
only for handlers whose answers are short; those of `Long` (what the client sent,
a file, documents) may be written or not. Clients may be silent, connections may
never come. main goes on (weak).

Deadlock is checked in every run but those of the searcher, where a search stops
when it has answered, of the server, whose process may end or never start, and of
the page, where the process may end and a player who has used up the bounds has
nothing to do.

## 6. Proofs

Every theorem holds for all values of the constants that satisfy the named
assumptions of the modules (`WorthAssumption`, `MaxIdAssumption`, ...). These say
that names differ, that bounds are numbers, that a file is a sequence of characters
(`TextsAssumption`), and, of the data that chess is to the page and its server,
what a game of chess has: a legal move leads to a position and a result is open
iff there is one (`ChessAssumption`); White moves its own men
and promotes exactly with pawns on row 0, to a queen among others
(`PromotionAssumption`); the sides move in turn, White first (`TurnAssumption`).
`MovegenProofs` proves them of the engine's code. `ClientAssumption` has at least as many
names for closures as requests that keep one alive, so that there is always one
to give to a new game. What else a theorem needs is in its statement.

- **`BoardProofs`**, from the lemmas about each method in **`BoardLemmas`**:
  `TypeCorrect`, `ListsCorrect`, `PosKeyCorrect`, `FiftyMoveCorrect`,
  `MaterialCorrect`. Type correctness is one lemma per method. `ListsCorrect`
  rests on `DropFromListRange`: moving the last entry into the gap loses exactly
  the entry that is dropped and repeats none, if none was repeated before.
  `PosKeyCorrect` rests on the algebra of XOR as symmetric difference: each
  method changes the position by the names it toggles. `FiftyMoveInPast` is not
  inductive, because `popHistory` restores an earlier value; the invariant
  `FiftyInv` says the same of every history entry. `MaterialCorrect` is about a
  fold over the occupied squares: `SumsExist` and `SumsUnique` show, by induction
  on the size of subsets (a least counterexample, `LeastExists`), that it has one
  value; `AnyOrder` and `TotalAdd` that the order does not matter, so that a
  square more adds its piece's worth.
- **`CrudProofs`**: `TypeCorrect`, `IndexCorrect`. `TypeOK` is strengthened by
  `RequestChecked`, what each step of a handler has found out about its
  request. `IndexBacked` then is inductive, because its excuse follows the
  handler from the insertion of the id to its file, and from the deleted file
  to the erased id. That an id is free when one is needed uses the
  well-foundedness of the natural numbers (`SmallestAvailable`).
  `StoreImplemented` and `RestartCorrect` are about a client whose requests do
  not overlap others and files that open (`Alone`; `crud_concurrent` and
  `crud_race` show what happens otherwise). `StoreInv` has three parts.
  `IndexFollows`: while the process runs, the index is the directory, but for
  the entity or id that the step at hand is about to add or to forget.
  `MethodFits`: each step belongs to the methods that take it. `DocumentFits`:
  what a handler found out (the entity has a directory, the id is free, the file
  exists) is still so when it acts on it. With it each step of `Crud`, `Crash`
  and `Restart` included, is one of `DurableStore` or hidden from the client:
  making the directory is `NewEntity`, opening the file `BeginWrite` (a crash
  then leaves the empty document), closing it `EndWrite`, deleting it `Remove`;
  the accesses to the index are the hidden ones.
- **`ChessProofs`**: the redirection, the handler and the page, with lines of the
  log in any number, of any kind and at any step. `RedirectCorrect`, from
  `AloneCorrect` and `RestoredCorrect`:
  `Alone` says what the buffer, `cout` and the saved buffer of a request are at
  each step as long as it is the only one busy; that it may point `cout` back at
  a dead buffer does not matter to it. A line that is logged makes its request one
  that `Alone` says nothing of the text of (`mixed`), and leaves `cout` and the
  saved buffers as they are, which is all that `RestoredWhenAlone` needs. The
  theorems carry over to the whole system of page, visitors, threads and log
  (`PageRedirects`). `HandlerInv` ties the phase of a thread to the step of its
  redirection and says which refusals there are; `PageHearsWhite` follows from it
  and `PromotionAssumption`.
  `PageTypes`, `GamesAreChess`, `ScreenCorrect` and `TurnsCorrect` are about the
  page. What it finds in a response is a FEN, one way or another: `PageTypes` needs
  that a text with a line that has a `+` has a first one (`FirstPlus`, by the
  well-founded order of the numbers). `FenReachable` is not inductive:
  the FEN that a closure takes over was computed by a thread for a request sent
  long before. `PageInv` follows
  it: `Links` ties each busy thread to the request it serves (`serving`) and its
  answer to that request's position; `FlightsFit` says that an answer that is
  under way leads from the position asked about to one by a legal move, and that
  positions asked about are reachable, unless a line was taken for the FEN of the
  game (`spoilt`): a request keeps its closure, and with it the flag, alive.
  `PageInv` holds of everyone. What only a
  player who waits is promised is `TurnInv`: at most one request of the player is
  under way (`OneAsked`), it is about the position on the screen and asks for the
  move of the side whose turn it is (`AllAsked`), Black's move has always been
  asked for (`BlackAsked`, without which a click of the player could move for
  Black), and the screen agrees with the closure (`BoardShown`). `TurnsCorrect`
  is an action property: its steps are the deliveries of the three kinds of
  answer.
- **`ServerProofs`**: `AcceptCorrect`, `OwnerCorrect` (and `ServerTyped`).
  `ChainInv` says that the next accept comes from exactly one of: the
  acceptor, a completion handler, a thread. `OwnerInv` says the same of the
  owner of each session, and needs `ChainInv`: that `start_accept` does not
  forget a session in the acceptor is that nothing else was accepting.
  `IndexCorrect` and `RoutingCorrect` are about what a configuration becomes:
  two endpoints may be one route, `create_handler_factories` keeps the last, and
  `match` takes the longest candidate. `MatchInv` says that what a thread has
  found out about its request is what the routes of the configuration say;
  `GreatestExists` (a well-founded descent) that a longest candidate exists;
  `SlashEnds`, `OwnRoute` and `SamePrefix` that a route comes from one endpoint
  up to its slash. Their hypotheses are about the file: endpoints are not empty
  (`Endpoints`), directories are given to endpoints whose handler exists
  (`Directories`), URLs begin with a slash. Without the last two the statements
  are false of the code (section 7).
  These theorems are about `ServerSpec`, which starts with any configuration.
  The rest is about the program, `WebSpec`. `WebSteps`: each of its steps is one
  of the parser, one of the server, or neither, so that the invariants of both
  carry over (`PartsCorrect`). `MainInv` takes what the parser has built through
  `main` to the server: the port (`PortRound`: it survives being a short) and the
  endpoints, which `HandlersNamed` finds to be words and none of them empty. So
  `ConfigurationCorrect`, `DirectoriesCorrect` and `WebTypes` hold from the
  characters of the file to the answers, and `Endpoints` is not assumed any more.
  `FileCorrect` takes the reading of the file along (`FileInv`): a server runs only
  for a text that can be read as a configuration, in one way, and has the port,
  the handlers and the paths of that one (`ServesFile`); `main` gives up only
  without a file, without a configuration in it, or with one whose port is none
  or is taken (`GivesUpForCause`).
- **`ParserProofs`**: `StackCorrect` and `ParsingCorrect`, for files of any length
  over any alphabet.
  `ParserInv` adds that the stack holds sequences of statements, and that the
  block below an open one ends with the statement it belongs to. `WordsInv` says
  what the configuration is built of, blocks in blocks included, without
  recursion: there is a set of words and a set of blocks such that every
  statement has its words from the one and its block from the other (`Built`).
  `ParsingCorrect` is `ParsesConfigurations`: `Parse` returns true iff the file
  holds a configuration, and builds the one it holds. The reference it is
  compared with, `Tokens` and `Readings` of `ConfigRules`, is recursive, the code
  a loop over characters with a stack; the proof goes in four parts:
  - *The reference.* `TokensRecursion` and `ReadingsRecursion`: the two recursive
    functions exist, so that they obey their equations. Each is found as a function
    on the sequences up to some length (`TokensUpToExists`) of which any two agree
    (`TokensUpToAgree`), by induction on the length (`EveryNumber`).
  - *Blocks.* Before a token is read, the tokens since an open block began
    say what can still become of it, whatever comes: it is a sequence of
    statements that has been read and words of one that has not (`TopReads`), or
    waits for the brace that closes the block above it (`BelowReads`). `TopWord`,
    `TopSemicolon`, `TopOpening` and `BlockClosed` say what each kind of token
    makes of that. The code closes a block with the first brace that may; the
    reference tries every brace. `ClosedNow` takes that choice token by token (with
    this one, or with a later one), and `BlockClosed` shows there is none: where
    the inside reads as it is, no statement can begin with the brace.
    `TopDead` and `BelowDead`: after a token that `MayFollow` refuses, no more
    tokens make a configuration.
  - *Characters.* `Pending` says which tokens are to come, given the characters
    that `ParseToken` has put into `value` (`Lexing`), in each of its states. The
    reference looks for the closing quote and drops escapes afterwards,
    `ParseToken` drops them as it goes: `EscapesNext` and `UnescapedAppend` say how
    both change with a character more, and `QuoteAppend` puts them together.
  - *Both.* `ReadInv`: the tokens of the file are those of the blocks and those to
    come. `Levels` has a list of tokens for each block on the stack, each of which
    contains the one above it. Each of the five kinds of token keeps it
    (`WordLevels`, `ClosingLevels`, ...) or ends the parse with the right verdict
    (`ParsesEnd`, `ParsesRefused`).
- **`MovegenProofs`**, from `BoardLemmas`: all properties of the run `moves`, for
  games of any length from any set of start positions, as long as each is a
  position of chess in which no right is written twice (`StartAssumption` and
  `Playable`: each side has one king, pawns are not on the last rows, rights have
  king and rook at home, the en passant square is behind a pawn that may just
  have advanced, the king of the side that has moved is not in check). In four
  parts:
  - *The board.* `Sound` is inductive: the redundant forms of the board agree and
    stand for a position (`Stands`) that is `Playable` and either starts a game or
    comes from another such position by a move that fitted (`Reached`), and so on
    back to a start (`Past`). It needs the past because `takeBack` trusts that the
    last history entry came from a move that fitted.
    `BoardCorrect`, `FenCorrect`, `CapturesCorrect` and `KeysCorrect` follow.
  - *The moves.* `ReachIsAttack`, `ThreatIsAttack` and `CheckIsThreat`: walking
    along a line until something stands in the way finds the attacks that
    `ChessRules` defines as geometry. `GeneratedAre`, `PossibleAre` and
    `MovesAre`: the generated moves are the possible ones, each once. `AfterIs`:
    what `makeMove` makes of the board is what the rules make of the men. Hence
    `MovesCorrect` (a move is accepted iff it is legal) and `OutcomeCorrect`.
  - *The game.* `GameCorrect` is the refinement of `ChessGame`. The line of
    positions is defined by taking back again and again, so nothing can be
    proved of it by induction over its length; instead the invariant `Recorded`
    says of the position and of each one in its past that it has a line, the one
    that taking back finds (`Traced`) and that its history recalls (`Recalls`); a
    move adds one position with its line, and taking back returns to one.
  - *Repetitions.* `RepetitionsCorrect`: equal keys are equal positions
    (`KeyTells`), and that looking back only to the last capture or pawn move
    misses none rests on a measure of the men that those moves lower and no other
    move raises (`Budget`), so that no position comes back across one.
  `Sound` and `Recorded` quantify over positions and are not within TLC's reach;
  the properties they imply are what the run checks.
- **`SearcherProofs`**: `TypeCorrect`, `BoardCorrect`, `WindowsCorrect`,
  `AnswerCorrect`, all from one inductive invariant `Inv`. It ties the active
  calls to the line of play (`PlyInv`: as many history entries as moves made and
  not taken back, each reached by a legal move), bounds each window by its
  caller's (`CallsInv`), and says that every entry of the PV table holds a legal
  move of its own position (`TableOK`), so that it does not matter who wrote the
  entry that answers. It uses `SearcherAssumption` and `GamesAssumption` only:
  no property of the evaluation, the table's layout or the clock.
  - *The score.* `ScoreCorrect`: alpha-beta finds the minimax value, in any order
    of the moves. `SearchInv` says of each call in its loop (`Judged`) that the
    legal moves it is done with gain at most `alpha`, and that `alpha` has not
    been raised beyond what standing pat or the best move gains; `LinksInv` that a
    callee's window and depth are its caller's, negated and one less; and
    `StageInv` that a value inside the window comes back as it is, one outside it
    as some number beyond the same end (`Tells`). A depth that reaches zero inside
    a call is `EnterGoal`. The recursive functions of `SearcherRules` obey their
    equations (`QuietRecursion`, `DeepRecursion`) because recursion over the
    numbers does (`RecursionExists`, from the well-founded order of the numbers),
    and quiescence is that of any number of captures (`QuietDeep`) because every
    capture takes a man away.
  - *The answer.* `BestCorrect`: the entry of the root holds a best move at the
    depth of the last iteration that ended in time (`BestInv`). Hypothesis: no
    line of legal moves within the depth of the search, that of the iteration the
    clock cut short, leads back to the root (`NoReturn`), which excludes what
    `searcher_circle` shows. In chess a line takes four plies at least to come
    back, so that up to an unfinished iteration of depth four it is no hypothesis
    at all; in run `searcher_best` every game satisfies it.
  Both use `ValuesAssumption` (section 8).

Model-checked only: `Answers`, `EveryoneAnswered`, `Responsive` and
`StartsOrExits`; liveness is beyond the proof system. Every other property of the
passing runs is a theorem. The runs that expect a violation have no theorem, of
course; where a hypothesis excludes what they show, the theorem names it.

## 7. Disagreements found

- **`crud_race`**: `handle_create` inserts the entity into the index, then makes
  its directory. A PUT between the two is answered 201, its `write_file` fails
  unseen, and the document is gone after a restart.
- **`searcher_over`**: without a legal move at the root `reccomendMove` calls
  itself for ever. The page asks for a move after every move of the player, a
  mating one included.
- **`searcher_circle`**: `storePvMove` protects the root's entry from other
  positions but not from the root position itself deeper in the tree. When the
  clock then cuts the iteration short, the recommended move is that of the inner
  node.
- **`output_body`**: two requests that print at once receive rows of each
  other's board, or lose their own.
- **`logged_fen`**: `std::cout` is also the console of the log. A line that any
  thread logs while a board is printed is part of the response, and the page takes
  what is between the first two `+` of the body for the FEN: the target of a
  request to any handler, which the log reports, may have them. A lone player and
  one thread that prints are enough. A line without a `+` leaves the FEN alone and
  may spoil the picture, which `getUnicodeFromBoard` reads up to the first `-`,
  that of a timestamp included.

More facts, visible in the models, for which there is no run:

- of the ports in statements without a block `get_port_from_config` takes the
  first, valid or not, so that `main` gives up a file whose second is valid
  (`PortOf`, the file `NoPort`), where `config_parser.cc:31` promises the first
  valid one;
- the stale root key of the constructor (section 5) costs a second search;
- after overlapping requests `cout` may stay on a buffer that no longer exists
  (`RestoredWhenAlone` holds until then), and whoever logs next writes to it, which
  may end the process (`Corrupt`);
- a client that does not read a long answer holds a thread, and eight of them the
  server (section 5);
- a word, a comment or an escape that the end of the file cuts off is dropped,
  and the rest accepted (`EndOfFile`), so `port 80; server` is a configuration;
- `'\t'` is listed twice at `config_parser.cc:258`, and `'\r'` not at all: it
  separates tokens but does not end a word (`Blanks`, `Ends`);
- a CRUD endpoint without its trailing slash in the configuration has neither
  index nor directory, and every request to it is refused with 400;
- an endpoint with two directories has the index of the last and is served from
  the first (excused by `IndexMatchesDirectory`);
- an endpoint `/crud` with the CRUD handler and a second one `/crud/` with a
  handler that does not exist are one route; a directory of the latter makes no
  index for it, and the request is served with a null one (the hypothesis
  `Directories` of `IndexCorrect`);
- a URL that does not begin with a slash (`*`) goes to the handler of `/`, which
  it does not begin with: `match` starts from `/` and finds nothing longer (the
  hypothesis of `RoutingCorrect`);
- a promotion of Black that a client asks for is refused whatever it is; the page
  never asks (Black is the engine);
- a write to a client that has hung up, and the late log line of `start`, may end
  the process for everyone (`Respond`, `LogStarted`).

## 8. Abstractions

- A call on a `std::map` or `std::set` of the index is one step, except that of
  two insertions into one set either may be lost, and that the process may end at
  any step: the outcomes of a data race that the model distinguishes.
- The data path of the CRUD endpoint is configured; bodies are one of a few
  documents or not JSON.
- An uninitialised PV table is one whose entries are of no position, and position
  keys are injective: a collision of two 31-bit keys is not considered, that of
  two table slots is.
- An evaluation is less than `INFINITE` and a capture takes a man off the board
  (`ValuesAssumption`): `static_eval` counts 1025 for a queen, and 64 of them,
  with the squares they stand on, come to about 70 000 of 100 000.
- The clock may run out at any `checkTime`, not only at each 2048th node.
- Killer moves, history heuristics and MVV-LVA only order moves after the PV move;
  the model tries them in any order.
- The fifty-move rule cannot be reached by a search of 32 plies from a FEN, which
  carries no move count; it is modelled in `Board` and not in `Searcher`.
- A FEN is its four sections; a text that is no FEN is `BadFen` of
  `ChessHandler`, whatever it is. A request with one is answered 400, also where
  the text is such (it begins with `/`, say) that the request would go to another
  handler of the server or be cut short at a `+` of its own.
- A line of the log is what lies between its first two `+`, one step of one
  thread, in one piece; a row or a line may be lost where two are written at once.
  Lines go into the texts of chess requests only: what else `std::cout` has is
  for nobody to read.
- A name in a configuration, whose characters are all treated alike, may stand as
  one character; `atoi` is a constant.
- `get_path_from_config` appends to its member each time it is called; the first
  match, which is what every caller takes, is the same.
- What a handler does is one step of `Server`, with the status as its result
  (`Statuses`); `Crud` and `ChessHandler` are those two handlers in detail.
- Alerts, highlights and colours of the page are left out. Its fetches fail only
  when the process has ended.

## 9. What is not modelled

The bodies of the stateless handlers (static, echo, sleep, health, error, not
found; their statuses are in `Server`) and `reply.cc`: no state, or not used.
Evaluation: numbers without a contract. Ponder, multicut, transposition table,
`sendSIGSTOP`: no caller in the server; `ToString` of a configuration, which only
tests call. Rejection of malformed FEN text, and boards that overflow `pListR`
(section 10). HTTP parsing is the library's. The log file, the mock file system,
tests, containers.

## 10. Plan

What is left: FEN text that `parseFen` rejects or misreads, and boards that
overflow `pListR`. The present runs answer twelve questions; later modules join an
existing run where the question is the same.
