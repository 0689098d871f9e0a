---------------------------- MODULE ConfigParser ----------------------------
(***************************************************************************)
(* NginxConfigParser (src/src/config_parser.cc): Parse takes one token     *)
(* after another from ParseToken, which reads a character at a time, and   *)
(* grows the configuration.                                                *)
(*                                                                         *)
(* A text is a sequence of characters; a name, whose characters are all    *)
(* treated alike, may stand as one.  A token is a sequence of characters,  *)
(* a statement is [tokens, child_block], a configuration a sequence of     *)
(* statements.  config_stack holds pointers; here it holds the blocks that *)
(* are open, and a block becomes a child when it is closed.                *)
(***************************************************************************)
EXTENDS Integers, Sequences

CONSTANTS Characters,
          Texts,       \* the contents a file may have
          NoBlock

ASSUME TextsAssumption == Texts \subseteq Seq(Characters)

VARIABLES text,    \* what is in the file
          input,   \* what is left to read
          state,   \* the state of ParseToken
          value,   \* the token so far
          last,    \* last_token_type
          stack,   \* config_stack, the innermost block last
          verdict  \* "closed", "missing", "parsing", "valid" or "invalid"

parserVars == <<text, input, state, value, last, stack, verdict>>

TokenTypes ==
    {"START", "NORMAL", "START_BLOCK", "END_BLOCK", "COMMENT", "STATEMENT_END",
     "EOF", "ERROR"}

ParserInit ==
    /\ text \in Texts
    /\ input = text
    /\ state = "WHITESPACE"
    /\ value = << >>
    /\ last = "START"
    /\ stack = << << >> >>
    /\ verdict = "closed"

----------------------------------------------------------------------------
(* Parse.                                                                  *)

top == stack[Len(stack)]

Below == SubSeq(stack, 1, Len(stack) - 1)

\* Mutant: a block needs no statement to belong to.
MayFollow_BareBlock(type) ==
    CASE type = "STATEMENT_END" -> last = "NORMAL"
      [] type = "END_BLOCK" ->
            last \in {"STATEMENT_END", "END_BLOCK", "START_BLOCK"} /\ Len(stack) > 1
      [] type = "EOF" ->
            last \in {"STATEMENT_END", "END_BLOCK", "START"} /\ Len(stack) = 1
      [] OTHER -> type # "ERROR"

\* Mutant: a block that is still open at the end is fine.
MayFollow_OpenEnd(type) ==
    CASE type \in {"STATEMENT_END", "START_BLOCK"} -> last = "NORMAL"
      [] type = "END_BLOCK" ->
            last \in {"STATEMENT_END", "END_BLOCK", "START_BLOCK"} /\ Len(stack) > 1
      [] type = "EOF" -> last \in {"STATEMENT_END", "END_BLOCK", "START"}
      [] OTHER -> type # "ERROR"

MayFollow(type) ==
    CASE type \in {"STATEMENT_END", "START_BLOCK"} -> last = "NORMAL"
      [] type = "END_BLOCK" ->
            last \in {"STATEMENT_END", "END_BLOCK", "START_BLOCK"} /\ Len(stack) > 1
      [] type = "EOF" ->
            last \in {"STATEMENT_END", "END_BLOCK", "START"} /\ Len(stack) = 1
      [] OTHER -> type # "ERROR"

\* A token opens a statement or is added to the one it continues.
AddToken(statements, token) ==
    IF last = "NORMAL"
    THEN [statements EXCEPT ![Len(statements)].tokens = Append(@, token)]
    ELSE Append(statements, [tokens |-> <<token>>, child_block |-> NoBlock])

Grown(type, token) ==
    CASE type = "NORMAL" -> Append(Below, AddToken(top, token))
      [] type = "START_BLOCK" -> Append(stack, << >>)
      [] type = "END_BLOCK" ->
            LET parent == Below[Len(Below)]
            IN  [Below EXCEPT ![Len(Below)] =
                    [parent EXCEPT ![Len(parent)].child_block = top]]
      [] OTHER -> stack

\* ParseToken returns, and Parse looks at what it got.
Token(type, token, rest) ==
    /\ input' = rest
    /\ state' = "WHITESPACE"
    /\ value' = << >>
    /\ IF MayFollow(type)
       THEN /\ stack' = Grown(type, token)
            /\ last' = IF type = "COMMENT" THEN last ELSE type
            /\ verdict' = IF type = "EOF" THEN "valid" ELSE verdict
       ELSE /\ verdict' = "invalid"
            /\ UNCHANGED <<stack, last>>
    /\ UNCHANGED text

----------------------------------------------------------------------------
(* ParseToken.                                                             *)

Blanks == {" ", "\t", "\n", "\r"}

\* What ends a word, and what must come after a closing quote.
Ends == {" ", "\t", "\n", ";", "{", "}"}

Special == Blanks \cup {"{", "}", ";", "#", "\"", "'"}

Reading(s) == verdict = "parsing" /\ state = s /\ input # << >>

c == Head(input)

Goto(s, token) ==
    /\ state' = s
    /\ value' = token
    /\ input' = Tail(input)
    /\ UNCHANGED <<text, last, stack, verdict>>

InWhitespace ==
    /\ Reading("WHITESPACE")
    /\ \/ c = "{" /\ Token("START_BLOCK", <<c>>, Tail(input))
       \/ c = "}" /\ Token("END_BLOCK", <<c>>, Tail(input))
       \/ c = ";" /\ Token("STATEMENT_END", <<c>>, Tail(input))
       \/ c = "#" /\ Goto("COMMENT", <<c>>)
       \/ c = "\"" /\ Goto("DOUBLE_QUOTE", <<c>>)
       \/ c = "'" /\ Goto("SINGLE_QUOTE", <<c>>)
       \/ c \in Blanks /\ Goto("WHITESPACE", value)
       \/ c \notin Special /\ Goto("NORMAL", Append(value, c))

\* A closing quote must be followed by one of Ends, and the end of the file
\* is none.
InQuotes(s, quote, escape) ==
    /\ Reading(s)
    /\ \/ /\ c = quote
          /\ IF Tail(input) # << >> /\ Head(Tail(input)) \in Ends
             THEN Token("NORMAL", Append(value, c), Tail(input))
             ELSE Token("ERROR", Append(value, c), Tail(input))
       \/ c = "\\" /\ Goto(escape, value)
       \/ c \notin {quote, "\\"} /\ Goto(s, Append(value, c))

InComment ==
    /\ Reading("COMMENT")
    /\ IF c \in {"\n", "\r"} THEN Token("COMMENT", value, Tail(input))
                             ELSE Goto("COMMENT", Append(value, c))

InNormal ==
    /\ Reading("NORMAL")
    /\ IF c \in Ends THEN Token("NORMAL", value, input)
                     ELSE Goto("NORMAL", Append(value, c))

Escaped(s, quoted) ==
    /\ Reading(s)
    /\ Goto(quoted, Append(value, c))

\* Mutant: the end of a comment is waited for.
EndOfFile_NotInComment ==
    /\ verdict = "parsing" /\ input = << >> /\ state # "COMMENT"
    /\ Token(IF state \in {"SINGLE_QUOTE", "DOUBLE_QUOTE"} THEN "ERROR" ELSE "EOF",
             value, << >>)

\* Whatever else was begun, a comment, a word or an escape, is dropped.
EndOfFile ==
    /\ verdict = "parsing" /\ input = << >>
    /\ Token(IF state \in {"SINGLE_QUOTE", "DOUBLE_QUOTE"} THEN "ERROR" ELSE "EOF",
             value, << >>)

ParseFile ==
    /\ verdict = "closed"
    /\ verdict' \in {"parsing", "missing"}
    /\ UNCHANGED <<text, input, state, value, last, stack>>

ParserNext ==
    \/ ParseFile
    \/ InWhitespace \/ InComment \/ InNormal
    \/ InQuotes("SINGLE_QUOTE", "'", "SINGLE_ESCAPE")
    \/ InQuotes("DOUBLE_QUOTE", "\"", "DOUBLE_ESCAPE")
    \/ Escaped("SINGLE_ESCAPE", "SINGLE_QUOTE")
    \/ Escaped("DOUBLE_ESCAPE", "DOUBLE_QUOTE")
    \/ EndOfFile

ParserSpec == ParserInit /\ [][ParserNext]_parserVars

----------------------------------------------------------------------------
\* Parse never looks at the top of an empty stack nor at the last statement of
\* a block without one: there is a block, every block but the innermost waits
\* with the statement it belongs to, and so does the innermost in the middle
\* of a statement.  No statement is without a token.
StackInUse ==
    /\ verdict = "parsing" => stack # << >>
    /\ \A i \in DOMAIN stack :
          /\ (i < Len(stack) \/ last = "NORMAL") => stack[i] # << >>
          /\ \A j \in DOMAIN stack[i] : stack[i][j].tokens # << >>

=============================================================================
