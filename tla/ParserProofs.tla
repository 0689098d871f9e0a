---------------------------- MODULE ParserProofs ----------------------------
(***************************************************************************)
(* Parse keeps to its stack, whatever is in the file; what it builds is    *)
(* built of words that are not empty; and it accepts exactly the files     *)
(* that hold a configuration, and builds the one they hold.                *)
(*                                                                         *)
(* In this order: the stack and the words; recursion over lengths, and     *)
(* with it the equations of Readings and Tokens; how an open block is read *)
(* further, token by token; how a text is, character by character; the     *)
(* invariant of the parser that puts both together (ReadInv).              *)
(***************************************************************************)
EXTENDS ConfigRules, SequenceTheorems, FiniteSetTheorems, WellFoundedInduction, TLAPS

\* Statements whose tokens and blocks are from some sets.
Statements(T, B) == [tokens : Seq(T), child_block : B]

Typed(T, B) == stack \in Seq(Seq(Statements(T, B)))

\* No statement of a block is without a token.
Worded(b) == \A j \in DOMAIN b : b[j].tokens # << >>

ParserInv ==
    /\ \E T, B : Typed(T, B)
    /\ stack # << >>
    /\ \A i \in DOMAIN stack : Worded(stack[i])
    /\ \A i \in 1..(Len(stack) - 1) : stack[i] # << >>
    /\ last = "NORMAL" => top # << >>

\* What StackInUse says is part of it.
LEMMA InvInUse == ParserInv => StackInUse
<1> SUFFICES ASSUME ParserInv
             PROVE  StackInUse
  OBVIOUS
<1>1. PICK T, B : Typed(T, B)
  BY DEF ParserInv
<1>2. Len(stack) \in Nat /\ DOMAIN stack = 1..Len(stack)
  BY <1>1 DEF Typed
<1>3. ASSUME NEW i \in DOMAIN stack
      PROVE  /\ (i < Len(stack) \/ last = "NORMAL") => stack[i] # << >>
             /\ Worded(stack[i])
  BY <1>2 DEF ParserInv, top
<1> QED
  BY <1>3 DEF ParserInv, StackInUse, Worded

\* A bigger set has the sequences of a smaller one.
LEMMA SeqMonotone ==
    ASSUME NEW S, NEW R, S \subseteq R
    PROVE  Seq(S) \subseteq Seq(R)
OBVIOUS

\* So have the sequences of statements.
LEMMA StatementsMonotone ==
    ASSUME NEW T, NEW B, NEW U, NEW C, T \subseteq U, B \subseteq C
    PROVE  Seq(Statements(T, B)) \subseteq Seq(Statements(U, C))
<1>1. Statements(T, B) \subseteq Statements(U, C)
  BY SeqMonotone DEF Statements
<1> QED
  BY <1>1, SeqMonotone

\* The stack without its top.
LEMMA BelowTop ==
    ASSUME ParserInv, NEW T, NEW B, Typed(T, B)
    PROVE  /\ Len(stack) \in Nat \ {0}
           /\ top \in Seq(Statements(T, B)) /\ Worded(top)
           /\ Below \in Seq(Seq(Statements(T, B)))
           /\ Len(Below) = Len(stack) - 1
           /\ \A i \in 1..Len(Below) : /\ Below[i] = stack[i]
                                       /\ Below[i] # << >> /\ Worded(Below[i])
<1> DEFINE blocks == Seq(Statements(T, B))
<1>1. stack \in Seq(blocks) /\ Len(stack) \in Nat \ {0} /\ DOMAIN stack = 1..Len(stack)
  BY DEF Typed, ParserInv
<1>2. top \in blocks /\ Worded(top)
  BY <1>1 DEF top, ParserInv
<1> HIDE DEF blocks
<1>3. /\ Below \in Seq(blocks) /\ Len(Below) = Len(stack) - 1
      /\ \A i \in 1..Len(Below) : Below[i] = stack[i]
  BY <1>1 DEF Below
<1>4. \A i \in 1..Len(Below) : Below[i] # << >> /\ Worded(Below[i])
  BY <1>1, <1>3 DEF ParserInv
<1> QED
  BY <1>1, <1>2, <1>3, <1>4 DEF blocks

\* A token is added to a block.
LEMMA AddTokenBlock ==
    ASSUME NEW T, NEW B, NEW b \in Seq(Statements(T, B)), Worded(b),
           last = "NORMAL" => b # << >>, NEW token
    PROVE  /\ AddToken(b, token) \in Seq(Statements(T \cup {token}, B \cup {NoBlock}))
           /\ AddToken(b, token) # << >> /\ Worded(AddToken(b, token))
<1> DEFINE S == Statements(T \cup {token}, B \cup {NoBlock})
<1>1. b \in Seq(S)
  BY StatementsMonotone
<1>2. CASE last = "NORMAL"
  <2>1. Len(b) \in DOMAIN b /\ b[Len(b)] \in Statements(T, B)
    BY <1>2
  <2> DEFINE tokens == b[Len(b)].tokens
  <2>2. tokens \in Seq(T)
    BY <2>1 DEF Statements
  <2>3. Append(tokens, token) \in Seq(T \cup {token}) /\ Append(tokens, token) # << >>
    BY <2>2
  <2>4. [b[Len(b)] EXCEPT !.tokens = Append(tokens, token)] \in S
    BY <2>1, <2>3 DEF Statements
  <2>5. AddToken(b, token) = [b EXCEPT ![Len(b)].tokens = Append(b[Len(b)].tokens, token)]
    BY <1>2 DEF AddToken
  <2>6. DOMAIN AddToken(b, token) = 1..Len(b) /\ Len(b) \in Nat \ {0}
    BY <1>2, <2>5
  <2>7. AddToken(b, token)[Len(b)] = [b[Len(b)] EXCEPT !.tokens = Append(tokens, token)]
    BY <2>1, <2>5
  <2>8. \A i \in 1..Len(b) : i # Len(b) => AddToken(b, token)[i] = b[i]
    BY <2>1, <2>5
  <2>9. ASSUME NEW i \in 1..Len(b)
        PROVE  AddToken(b, token)[i] \in S /\ AddToken(b, token)[i].tokens # << >>
    <3>1. CASE i = Len(b)
      BY <2>1, <2>3, <2>4, <2>7, <3>1 DEF Statements
    <3>2. CASE i # Len(b)
      BY <1>1, <2>8, <3>2 DEF Worded
    <3> QED
      BY <3>1, <3>2
  <2> HIDE DEF S
  <2>10. AddToken(b, token) \in [1..Len(b) -> S]
    <3> DEFINE statement == [b[Len(b)] EXCEPT !.tokens = Append(tokens, token)]
    <3>1. AddToken(b, token) = [b EXCEPT ![Len(b)] = statement]
      BY <2>1, <2>5
    <3>2. b \in [1..Len(b) -> S]
      BY <1>1
    <3> HIDE DEF statement
    <3> QED
      BY <2>6, <2>9, <3>1, <3>2
  <2>11. AddToken(b, token) \in Seq(S)
    BY <2>6, <2>10
  <2>12. AddToken(b, token) # << >> /\ Worded(AddToken(b, token))
    BY <2>6, <2>9 DEF Worded
  <2> QED
    BY <2>11, <2>12 DEF S
<1>3. CASE last # "NORMAL"
  <2> DEFINE statement == [tokens |-> <<token>>, child_block |-> NoBlock]
  <2>1. AddToken(b, token) = Append(b, statement)
    BY <1>3 DEF AddToken
  <2>2. statement \in S /\ statement.tokens # << >>
    BY DEF Statements
  <2> HIDE DEF statement
  <2> QED
    BY <1>1, <2>1, <2>2 DEF Worded
<1> QED
  BY <1>2, <1>3

\* A closed block becomes the child of the statement it belongs to.
LEMMA ChildBlock ==
    ASSUME NEW T, NEW B, NEW b \in Seq(Statements(T, B)), Worded(b), b # << >>, NEW child
    PROVE  LET joined == [b EXCEPT ![Len(b)].child_block = child]
           IN  joined \in Seq(Statements(T, B \cup {child})) /\ joined # << >> /\ Worded(joined)
<1> DEFINE S == Statements(T, B \cup {child})
           statement == [b[Len(b)] EXCEPT !.child_block = child]
           joined == [b EXCEPT ![Len(b)].child_block = child]
<1>1. b \in Seq(S) /\ Len(b) \in Nat \ {0} /\ DOMAIN b = 1..Len(b)
  BY StatementsMonotone
<1>2. b[Len(b)] \in Statements(T, B) /\ b[Len(b)].tokens # << >>
  BY <1>1 DEF Worded
<1>3. statement \in S /\ statement.tokens # << >>
  BY <1>2 DEF Statements
<1>4. joined = [b EXCEPT ![Len(b)] = statement]
  BY <1>1
<1> HIDE DEF S, statement, joined
<1>5. joined \in [1..Len(b) -> S]
  <2>1. b \in [1..Len(b) -> S]
    BY <1>1
  <2> QED
    BY <1>3, <1>4, <2>1
<1>6. \A i \in 1..Len(b) : joined[i].tokens # << >>
  BY <1>1, <1>3, <1>4 DEF Worded
<1>7. joined \in Seq(S) /\ joined # << >> /\ DOMAIN joined = 1..Len(b)
  BY <1>1, <1>5
<1> QED
  BY <1>6, <1>7 DEF S, joined, Worded

----------------------------------------------------------------------------
(* The steps.                                                              *)

\* A stack whose blocks but the last have statements, and statements words.
LEMMA StackInv ==
    ASSUME NEW T, NEW B, NEW below \in Seq(Seq(Statements(T, B))),
           \A i \in 1..Len(below) : below[i] # << >> /\ Worded(below[i]),
           NEW b \in Seq(Statements(T, B)), Worded(b),
           stack' = Append(below, b), last' = "NORMAL" => b # << >>
    PROVE  ParserInv'
<1> DEFINE blocks == Seq(Statements(T, B))
<1>1. stack' \in Seq(blocks) /\ Len(stack') = Len(below) + 1 /\ Len(below) \in Nat
  OBVIOUS
<1> HIDE DEF blocks
<1>2. stack'[Len(below) + 1] = b /\ \A i \in 1..Len(below) : stack'[i] = below[i]
  OBVIOUS
<1>3. top' = b
  BY <1>1, <1>2 DEF top
<1>4. DOMAIN stack' = 1..(Len(below) + 1)
  BY <1>1
<1>5. \A i \in DOMAIN stack' : Worded(stack'[i])
  BY <1>1, <1>2, <1>4
<1>6. \A i \in 1..(Len(stack') - 1) : stack'[i] # << >>
  BY <1>1, <1>2
<1>7. \E U, C : Typed(U, C)'
  BY <1>1 DEF Typed, blocks
<1>8. stack' # << >>
  BY <1>1
<1>9. \A i \in DOMAIN stack' : Worded(stack[i])'
  BY <1>5 DEF Worded
<1> QED
  BY <1>3, <1>6, <1>7, <1>8, <1>9 DEF ParserInv

\* A token that may follow keeps the stack in use.
LEMMA TokenStep ==
    ASSUME ParserInv, NEW type \in TokenTypes \ {"START"}, NEW token, NEW rest,
           Token(type, token, rest)
    PROVE  ParserInv'
<1>1. CASE ~MayFollow(type)
  <2>1. stack' = stack /\ last' = last
    BY <1>1 DEF Token
  <2> QED
    BY <2>1 DEF ParserInv, Typed, top, Worded
<1>2. CASE MayFollow(type)
  <2>1. PICK T, B : Typed(T, B)
    BY DEF ParserInv
  <2>2. stack' = Grown(type, token) /\ last' = IF type = "COMMENT" THEN last ELSE type
    BY <1>2 DEF Token
  <2>3. CASE type \in {"COMMENT", "STATEMENT_END", "EOF"}
    <3>1. stack' = stack /\ (last' = "NORMAL" => last = "NORMAL")
      BY <2>2, <2>3 DEF Grown
    <3> QED
      BY <3>1 DEF ParserInv, Typed, top, Worded
  <2>4. CASE type = "NORMAL"
    <3> DEFINE U == T \cup {token}
               C == B \cup {NoBlock}
    <3>1. stack' = Append(Below, AddToken(top, token))
      BY <2>2, <2>4 DEF Grown
    <3>2. Below \in Seq(Seq(Statements(U, C)))
      <4>1. Seq(Statements(T, B)) \subseteq Seq(Statements(U, C))
        BY StatementsMonotone
      <4>2. Below \in Seq(Seq(Statements(T, B)))
        BY <2>1, BelowTop
      <4> HIDE DEF U, C
      <4> QED
        BY <4>1, <4>2, SeqMonotone
    <3>3. /\ AddToken(top, token) \in Seq(Statements(U, C))
          /\ AddToken(top, token) # << >> /\ Worded(AddToken(top, token))
      <4>1. top \in Seq(Statements(T, B)) /\ Worded(top) /\ (last = "NORMAL" => top # << >>)
        BY <2>1, BelowTop DEF ParserInv
      <4> QED
        BY <4>1, AddTokenBlock
    <3>4. \A i \in 1..Len(Below) : Below[i] # << >> /\ Worded(Below[i])
      BY <2>1, BelowTop
    <3> QED
      BY <3>1, <3>2, <3>3, <3>4, StackInv
  <2>5. CASE type = "START_BLOCK"
    <3>1. stack' = Append(stack, << >>) /\ last' # "NORMAL" /\ last = "NORMAL"
      BY <1>2, <2>2, <2>5 DEF Grown, MayFollow
    <3>2. stack \in Seq(Seq(Statements(T, B))) /\ << >> \in Seq(Statements(T, B))
      BY <2>1 DEF Typed
    <3>3. \A i \in 1..Len(stack) : stack[i] # << >> /\ Worded(stack[i])
      <4>1. Len(stack) \in Nat /\ DOMAIN stack = 1..Len(stack)
        BY <3>2
      <4> QED
        BY <3>1, <4>1 DEF ParserInv, top
    <3>4. Worded(<< >>)
      BY DEF Worded
    <3> QED
      BY <3>1, <3>2, <3>3, <3>4, StackInv
  <2>6. CASE type = "END_BLOCK"
    <3>1. Len(stack) > 1 /\ last' # "NORMAL"
      BY <1>2, <2>2, <2>6 DEF MayFollow
    <3> DEFINE n == Len(Below)
               parent == Below[n]
               C == B \cup {top}
               closed == [parent EXCEPT ![Len(parent)].child_block = top]
               below == SubSeq(Below, 1, n - 1)
    <3>2. n \in Nat \ {0} /\ Below \in Seq(Seq(Statements(T, B)))
          /\ \A i \in 1..n : Below[i] # << >> /\ Worded(Below[i])
      BY <2>1, <3>1, BelowTop
    <3>3. parent \in Seq(Statements(T, B)) /\ parent # << >> /\ Worded(parent)
      BY <3>2
    <3>4. closed \in Seq(Statements(T, C)) /\ closed # << >> /\ Worded(closed)
      BY <3>3, ChildBlock
    <3>5. Below \in Seq(Seq(Statements(T, C)))
      <4>1. Seq(Statements(T, B)) \subseteq Seq(Statements(T, C))
        BY StatementsMonotone
      <4> QED
        BY <3>2, <4>1, SeqMonotone
    <3>6. stack' = [Below EXCEPT ![n] = closed]
      BY <2>2, <2>6 DEF Grown
    <3> DEFINE blocks == Seq(Statements(T, C))
    <3>7. Below \in Seq(blocks) /\ n \in Nat \ {0} /\ n = Len(Below) /\ closed \in blocks
      BY <3>2, <3>4, <3>5
    <3> HIDE DEF n, closed, C, blocks
    <3>8. /\ below \in Seq(blocks) /\ Len(below) = n - 1
          /\ \A i \in 1..(n - 1) : below[i] = Below[i]
      BY <3>7
    <3>9. stack' = Append(below, closed)
      <4>1. stack' \in Seq(blocks) /\ Len(stack') = n
        BY <3>6, <3>7
      <4>2. Append(below, closed) \in Seq(blocks) /\ Len(Append(below, closed)) = n
        BY <3>7, <3>8
      <4>3. \A i \in 1..n : stack'[i] = Append(below, closed)[i]
        BY <3>6, <3>7, <3>8
      <4> QED
        BY <4>1, <4>2, <4>3
    <3>10. \A i \in 1..Len(below) : below[i] # << >> /\ Worded(below[i])
      BY <3>2, <3>7, <3>8
    <3>11. below \in Seq(Seq(Statements(T, C)))
      BY <3>8 DEF blocks
    <3> QED
      BY <3>1, <3>4, <3>9, <3>10, <3>11, StackInv
  <2>7. type # "ERROR"
    BY <1>2 DEF MayFollow
  <2> QED
    BY <2>3, <2>4, <2>5, <2>6, <2>7 DEF TokenTypes
<1> QED
  BY <1>1, <1>2

\* Every step keeps the stack in use.
LEMMA ParserStep == ParserInv /\ [ParserNext]_parserVars => ParserInv'
<1> SUFFICES ASSUME ParserInv, [ParserNext]_parserVars
             PROVE  ParserInv'
  OBVIOUS
<1>1. ASSUME stack' = stack, last' = last
      PROVE  ParserInv'
  BY <1>1 DEF ParserInv, Typed, top, Worded
<1>2. ASSUME NEW s, NEW token, Goto(s, token)
      PROVE  ParserInv'
  BY <1>1, <1>2 DEF Goto
<1>3. CASE InWhitespace
  BY <1>2, <1>3, TokenStep DEF InWhitespace, TokenTypes
<1>4. CASE InComment
  BY <1>2, <1>4, TokenStep DEF InComment, TokenTypes
<1>5. CASE InNormal
  BY <1>2, <1>5, TokenStep DEF InNormal, TokenTypes
<1>6. ASSUME NEW s, NEW quote, NEW escape, InQuotes(s, quote, escape)
      PROVE  ParserInv'
  BY <1>2, <1>6, TokenStep DEF InQuotes, TokenTypes
<1>7. ASSUME NEW s, NEW quoted, Escaped(s, quoted)
      PROVE  ParserInv'
  BY <1>2, <1>7 DEF Escaped
<1>8. CASE EndOfFile
  BY <1>8, TokenStep DEF EndOfFile, TokenTypes
<1>9. CASE ParseFile
  BY <1>1, <1>9 DEF ParseFile
<1>10. CASE UNCHANGED parserVars
  BY <1>1, <1>10 DEF parserVars
<1> QED
  BY <1>3, <1>4, <1>5, <1>6, <1>7, <1>8, <1>9, <1>10 DEF ParserNext

\* Parse never looks at the top of an empty stack nor at the last statement of
\* an empty block, for files of any length.
THEOREM StackCorrect == ParserSpec => []StackInUse
<1>1. ParserInit => ParserInv
  <2> SUFFICES ASSUME ParserInit
               PROVE  ParserInv
    OBVIOUS
  <2>1. stack = << << >> >> /\ last = "START"
    BY DEF ParserInit
  <2>2. Typed({}, {})
    BY <2>1 DEF Typed
  <2> QED
    BY <2>1, <2>2 DEF ParserInv, Worded
<1> QED
  BY <1>1, ParserStep, InvInUse, PTL DEF ParserSpec

----------------------------------------------------------------------------
(* What the configuration is built of.                                     *)

\* The tokens are not empty, and a block in a statement is one of the blocks.
Built(T, B) ==
    /\ T \subseteq Seq(Characters) \ {<< >>}
    /\ \A b \in B : b # NoBlock => b \in Seq(Statements(T, B))

\* What is left to read and what has been read are words, a token that has been
\* begun is not empty, and what is on the stack is built of tokens.
WordsInv ==
    /\ text \in Seq(Characters) /\ input \in Seq(Characters) /\ value \in Seq(Characters)
    /\ \E T, B : Typed(T, B) /\ Built(T, B)
    /\ state \notin {"WHITESPACE", "COMMENT"} => value # << >>

\* A bigger set of tokens and one more block of the old ones.
LEMMA BuiltMore ==
    ASSUME NEW T, NEW B, NEW U, NEW child, Built(T, B),
           U \subseteq Seq(Characters) \ {<< >>}, T \subseteq U,
           child # NoBlock => child \in Seq(Statements(T, B))
    PROVE  Built(U, B \cup {child})
<1> DEFINE C == B \cup {child}
<1>1. Seq(Statements(T, B)) \subseteq Seq(Statements(U, C))
  <2>1. B \subseteq C
    OBVIOUS
  <2> HIDE DEF C
  <2> QED
    BY <2>1, StatementsMonotone
<1>2. ASSUME NEW b \in C, b # NoBlock
      PROVE  b \in Seq(Statements(U, C))
  <2>1. b \in Seq(Statements(T, B))
    BY <1>2 DEF Built
  <2> QED
    BY <1>1, <2>1
<1> QED
  BY <1>2 DEF Built

\* What Parse adds to the stack is built of the token and what was there.
LEMMA GrownBuilt ==
    ASSUME ParserInv, NEW T, NEW B, Typed(T, B), Built(T, B),
           NEW type, NEW token, MayFollow(type),
           type = "NORMAL" => token \in Seq(Characters) \ {<< >>}
    PROVE  \E U, C : Grown(type, token) \in Seq(Seq(Statements(U, C))) /\ Built(U, C)
<1>1. CASE type = "NORMAL"
  <2> DEFINE U == T \cup {token}
             C == B \cup {NoBlock}
  <2>1. Grown(type, token) = Append(Below, AddToken(top, token))
    BY <1>1 DEF Grown
  <2>2. AddToken(top, token) \in Seq(Statements(U, C))
    <3>1. top \in Seq(Statements(T, B)) /\ Worded(top) /\ (last = "NORMAL" => top # << >>)
      BY BelowTop DEF ParserInv
    <3> QED
      BY <3>1, AddTokenBlock
  <2>3. Below \in Seq(Seq(Statements(U, C)))
    <3>1. Seq(Statements(T, B)) \subseteq Seq(Statements(U, C))
      BY StatementsMonotone
    <3>2. Below \in Seq(Seq(Statements(T, B)))
      BY BelowTop
    <3> HIDE DEF U, C
    <3> QED
      BY <3>1, <3>2, SeqMonotone
  <2>4. Built(U, C)
    <3>1. U \subseteq Seq(Characters) \ {<< >>} /\ T \subseteq U
      BY <1>1 DEF Built
    <3> HIDE DEF U
    <3> QED
      BY <3>1, BuiltMore
  <2> DEFINE blocks == Seq(Statements(U, C))
  <2>5. Below \in Seq(blocks) /\ AddToken(top, token) \in blocks
    BY <2>2, <2>3
  <2> HIDE DEF blocks
  <2>6. Append(Below, AddToken(top, token)) \in Seq(blocks)
    BY <2>5
  <2> QED
    BY <2>1, <2>4, <2>6 DEF blocks
<1>2. CASE type = "START_BLOCK"
  <2>1. Grown(type, token) = Append(stack, << >>)
    BY <1>2 DEF Grown
  <2>2. stack \in Seq(Seq(Statements(T, B))) /\ << >> \in Seq(Statements(T, B))
    BY DEF Typed
  <2> QED
    BY <2>1, <2>2
<1>3. CASE type = "END_BLOCK"
  <2>1. Len(stack) > 1
    BY <1>3 DEF MayFollow
  <2> DEFINE n == Len(Below)
             parent == Below[n]
             C == B \cup {top}
             closed == [parent EXCEPT ![Len(parent)].child_block = top]
  <2>2. n \in Nat \ {0} /\ Below \in Seq(Seq(Statements(T, B)))
        /\ \A i \in 1..n : Below[i] # << >> /\ Worded(Below[i])
    BY <2>1, BelowTop
  <2>3. parent \in Seq(Statements(T, B)) /\ parent # << >> /\ Worded(parent)
    BY <2>2
  <2>4. closed \in Seq(Statements(T, C))
    BY <2>3, ChildBlock
  <2>5. Below \in Seq(Seq(Statements(T, C)))
    <3>1. Seq(Statements(T, B)) \subseteq Seq(Statements(T, C))
      BY StatementsMonotone
    <3> QED
      BY <2>2, <3>1, SeqMonotone
  <2>6. Grown(type, token) = [Below EXCEPT ![n] = closed]
    BY <1>3 DEF Grown
  <2>7. Built(T, C)
    <3>1. top \in Seq(Statements(T, B)) /\ T \subseteq Seq(Characters) \ {<< >>}
      BY BelowTop DEF Built
    <3> QED
      BY <3>1, BuiltMore
  <2> DEFINE blocks == Seq(Statements(T, C))
  <2>8. Below \in Seq(blocks) /\ n = Len(Below) /\ n \in Nat \ {0} /\ closed \in blocks
    BY <2>2, <2>4, <2>5
  <2> HIDE DEF n, closed, blocks
  <2>9. [Below EXCEPT ![n] = closed] \in Seq(blocks)
    BY <2>8
  <2> QED
    BY <2>6, <2>7, <2>9 DEF blocks
<1>4. CASE type \notin {"NORMAL", "START_BLOCK", "END_BLOCK"}
  <2>1. Grown(type, token) = stack
    BY <1>4 DEF Grown
  <2> QED
    BY <2>1 DEF Typed
<1> QED
  BY <1>1, <1>2, <1>3, <1>4

\* A token that is returned leaves the stack built of tokens.
LEMMA TokenBuilt ==
    ASSUME ParserInv, WordsInv, NEW type, NEW token, NEW rest, Token(type, token, rest),
           rest \in Seq(Characters),
           type = "NORMAL" => token \in Seq(Characters) \ {<< >>}
    PROVE  WordsInv'
<1>1. PICK T, B : Typed(T, B) /\ Built(T, B)
  BY DEF WordsInv
<1>2. input' = rest /\ value' = << >> /\ state' = "WHITESPACE" /\ text' = text
  BY DEF Token
<1>3. << >> \in Seq(Characters)
  OBVIOUS
<1>4. \E U, C : stack' \in Seq(Seq(Statements(U, C))) /\ Built(U, C)
  <2>1. CASE MayFollow(type)
    <3>1. stack' = Grown(type, token)
      BY <2>1 DEF Token
    <3> QED
      BY <1>1, <2>1, <3>1, GrownBuilt
  <2>2. CASE ~MayFollow(type)
    <3>1. stack' = stack
      BY <2>2 DEF Token
    <3> QED
      BY <1>1, <3>1 DEF Typed
  <2> QED
    BY <2>1, <2>2
<1>5. PICK U, C : stack' \in Seq(Seq(Statements(U, C))) /\ Built(U, C)
  BY <1>4
<1>6. Typed(U, C)' /\ Built(U, C)'
  BY <1>5 DEF Typed, Built
<1> QED
  BY <1>2, <1>3, <1>6 DEF WordsInv

\* A character that is read is a piece of the token.
LEMMA GotoBuilt ==
    ASSUME WordsInv, input # << >>, NEW s, NEW token, Goto(s, token),
           token \in {value, <<c>>, Append(value, c)},
           s \notin {"WHITESPACE", "COMMENT"} => token # << >>
    PROVE  WordsInv'
<1>1. PICK T, B : Typed(T, B) /\ Built(T, B)
  BY DEF WordsInv
<1>2. c \in Characters /\ Tail(input) \in Seq(Characters)
  BY DEF c, WordsInv
<1>3. input' = Tail(input) /\ value' = token /\ state' = s /\ stack' = stack /\ text' = text
  BY DEF Goto
<1>4. input' \in Seq(Characters) /\ value' \in Seq(Characters)
  <2>1. <<c>> \in Seq(Characters) /\ Append(value, c) \in Seq(Characters)
    BY <1>2 DEF WordsInv
  <2> QED
    BY <1>2, <1>3, <2>1 DEF WordsInv
<1>5. Typed(T, B)' /\ Built(T, B)'
  BY <1>1, <1>3 DEF Typed, Built
<1> QED
  BY <1>3, <1>4, <1>5 DEF WordsInv

\* Every step keeps what is built of tokens so.
LEMMA WordsStep == ParserInv /\ WordsInv /\ [ParserNext]_parserVars => WordsInv'
<1> SUFFICES ASSUME ParserInv, WordsInv, [ParserNext]_parserVars
             PROVE  WordsInv'
  OBVIOUS
<1>1. input # << >> => /\ c \in Characters /\ Tail(input) \in Seq(Characters)
                       /\ Append(value, c) \in Seq(Characters)
  BY DEF c, WordsInv
<1>4. Append(value, c) # << >> /\ <<c>> # << >>
  <2>1. Len(Append(value, c)) = Len(value) + 1 /\ Len(value) \in Nat
    BY DEF WordsInv
  <2> QED
    BY <2>1
<1>5. CASE InWhitespace
  <2>1. input # << >>
    BY <1>5 DEF InWhitespace, Reading
  <2>2. ASSUME NEW type \in {"START_BLOCK", "END_BLOCK", "STATEMENT_END"},
               Token(type, <<c>>, Tail(input))
        PROVE  WordsInv'
    BY <1>1, <2>1, <2>2, TokenBuilt
  <2>3. ASSUME NEW s, NEW token, Goto(s, token),
               \/ token \in {<<c>>, Append(value, c)}
               \/ s = "WHITESPACE" /\ token = value
        PROVE  WordsInv'
    BY <1>4, <2>1, <2>3, GotoBuilt
  <2> QED
    BY <1>5, <2>2, <2>3 DEF InWhitespace
<1>6. CASE InComment
  <2>1. input # << >>
    BY <1>6 DEF InComment, Reading
  <2>2. CASE c \in {"\n", "\r"}
    <3>1. Token("COMMENT", value, Tail(input))
      BY <1>6, <2>2 DEF InComment
    <3> QED
      BY <1>1, <2>1, <3>1, TokenBuilt
  <2>3. CASE c \notin {"\n", "\r"}
    <3>1. Goto("COMMENT", Append(value, c))
      BY <1>6, <2>3 DEF InComment
    <3> QED
      BY <1>4, <2>1, <3>1, GotoBuilt
  <2> QED
    BY <2>2, <2>3
<1>7. CASE InNormal
  <2>1. input # << >> /\ value # << >>
    BY <1>7 DEF InNormal, Reading, WordsInv
  <2>2. CASE c \in Ends
    <3>1. Token("NORMAL", value, input)
      BY <1>7, <2>2 DEF InNormal
    <3> QED
      BY <2>1, <3>1, TokenBuilt DEF WordsInv
  <2>3. CASE c \notin Ends
    <3>1. Goto("NORMAL", Append(value, c))
      BY <1>7, <2>3 DEF InNormal
    <3> QED
      BY <1>4, <2>1, <3>1, GotoBuilt
  <2> QED
    BY <2>2, <2>3
<1>8. ASSUME NEW s, NEW quote, NEW escape, InQuotes(s, quote, escape),
             s \notin {"WHITESPACE", "COMMENT"}
      PROVE  WordsInv'
  <2>1. input # << >> /\ value # << >>
    BY <1>8 DEF InQuotes, Reading, WordsInv
  <2>2. ASSUME NEW type, Token(type, Append(value, c), Tail(input))
        PROVE  WordsInv'
    BY <1>1, <1>4, <2>1, <2>2, TokenBuilt
  <2>3. ASSUME NEW r, NEW token \in {value, Append(value, c)}, Goto(r, token)
        PROVE  WordsInv'
    BY <1>4, <2>1, <2>3, GotoBuilt
  <2> QED
    BY <1>8, <2>2, <2>3 DEF InQuotes
<1>9. ASSUME NEW s, NEW quoted, Escaped(s, quoted)
      PROVE  WordsInv'
  <2>1. input # << >> /\ Goto(quoted, Append(value, c))
    BY <1>9 DEF Escaped, Reading
  <2> QED
    BY <1>4, <2>1, GotoBuilt
<1>10. CASE EndOfFile
  <2> DEFINE type == IF state \in {"SINGLE_QUOTE", "DOUBLE_QUOTE"} THEN "ERROR" ELSE "EOF"
  <2>1. Token(type, value, << >>)
    BY <1>10 DEF EndOfFile
  <2>2. << >> \in Seq(Characters) /\ type # "NORMAL"
    OBVIOUS
  <2> HIDE DEF type
  <2> QED
    BY <2>1, <2>2, TokenBuilt
<1>11. CASE ParseFile
  BY <1>11 DEF ParseFile, WordsInv, Typed, Built
<1>12. CASE UNCHANGED parserVars
  BY <1>12 DEF parserVars, WordsInv, Typed, Built
<1> QED
  BY <1>5, <1>6, <1>7, <1>8, <1>9, <1>10, <1>11, <1>12 DEF ParserNext

----------------------------------------------------------------------------
(* The recursive functions of ConfigRules obey their equations.            *)

\* What holds of 0, and of a number's successor if it holds of the number,
\* holds of all.
LEMMA EveryNumber ==
    ASSUME NEW G, 0 \in G, \A n \in Nat : n \in G => n + 1 \in G
    PROVE  Nat \subseteq G
<1> DEFINE V == Nat \ G
           less == {p \in Nat \X Nat : p[1] < p[2]}
<1> SUFFICES ASSUME V # {} PROVE FALSE
  OBVIOUS
<1>1. IsWellFoundedOn(less, Nat)
  BY NatLessThanWellFounded DEF OpToRel
<1>2. PICK n \in V : \A m \in V : ~(<<m, n>> \in less)
  <2>1. V \subseteq Nat
    OBVIOUS
  <2> HIDE DEF V, less
  <2> QED
    BY <1>1, <2>1, WFMin
<1>3. n \in Nat /\ n # 0 /\ n \notin G
  OBVIOUS
<1>4. n - 1 \in Nat /\ n = (n - 1) + 1 /\ <<n - 1, n>> \in less
  BY <1>3
<1> QED
  BY <1>2, <1>3, <1>4

\* What is left of a sequence without its beginning.
LEMMA RestOf ==
    ASSUME NEW S, NEW s \in Seq(S), NEW i \in Nat, NEW j \in Nat, 1 < i, j <= Len(s)
    PROVE  /\ SubSeq(s, i, j) \in Seq(S)
           /\ s # << >> => Len(SubSeq(s, i, j)) < Len(s)
<1>1. \A k \in i..j : s[k] \in S
  BY ElementOfSeq
<1>2. /\ SubSeq(s, i, j) \in Seq(S)
      /\ Len(SubSeq(s, i, j)) = IF i <= j THEN j - i + 1 ELSE 0
  BY <1>1, SubSeqProperties
<1>3. Len(s) \in Nat /\ (s # << >> => Len(s) > 0)
  OBVIOUS
<1> QED
  BY <1>2, <1>3

\* Where the words at the beginning end.
EndOf(ts) == FirstOf([i \in DOMAIN ts |-> ts[i].type], 1, TokenKinds \ {"word"})

Agree(f, g, n) == \A ts \in Seq(AllTokens) : Len(ts) < n => f[ts] = g[ts]

\* The first of some places there is.
LEMMA FirstOfIs ==
    ASSUME NEW S, NEW t \in Seq(S), NEW from \in 1..(Len(t) + 1), NEW them
    PROVE  LET i == FirstOf(t, from, them)
           IN  /\ i \in from..(Len(t) + 1)
               /\ i > Len(t) \/ t[i] \in them
               /\ \A j \in from..(i - 1) : t[j] \notin them
<1> DEFINE Here(i) == /\ i > Len(t) \/ t[i] \in them
                      /\ \A j \in from..(i - 1) : t[j] \notin them
           G == {n \in Nat : n <= Len(t) + 1 - from =>
                    \/ \E i \in from..(Len(t) + 1) : Here(i)
                    \/ \A j \in from..(from + n - 1) : t[j] \notin them}
<1>1. Len(t) \in Nat /\ from \in Nat
  OBVIOUS
<1>2. 0 \in G
  BY <1>1
<1>3. ASSUME NEW n \in Nat, n \in G
      PROVE  n + 1 \in G
  <2> SUFFICES ASSUME n + 1 <= Len(t) + 1 - from, ~ \E i \in from..(Len(t) + 1) : Here(i)
               PROVE  \A j \in from..(from + (n + 1) - 1) : t[j] \notin them
    OBVIOUS
  <2>1. \A j \in from..(from + n - 1) : t[j] \notin them
    BY <1>1, <1>3
  <2>2. from + n \in from..(Len(t) + 1)
    BY <1>1
  <2>3. t[from + n] \notin them
    BY <1>1, <2>1, <2>2
  <2> QED
    BY <1>1, <2>1, <2>3
<1>4. Nat \subseteq G
  <2> HIDE DEF G
  <2> QED
    BY <1>2, <1>3, EveryNumber
<1>5. \E i \in from..(Len(t) + 1) : Here(i)
  <2>0. Len(t) + 1 - from \in Nat
    BY <1>1
  <2>1. Len(t) + 1 - from \in Nat /\ Len(t) + 1 - from \in G
    <3> HIDE DEF G
    <3> QED
      BY <1>4, <2>0
  <2>2. CASE \A j \in from..(from + (Len(t) + 1 - from) - 1) : t[j] \notin them
    <3>1. Here(Len(t) + 1)
      BY <1>1, <2>2
    <3> QED
      BY <1>1, <3>1
  <2> QED
    BY <2>1, <2>2
<1> QED
  BY <1>5 DEF FirstOf

\* The kinds of some tokens, and the first that is no word.
LEMMA EndOfIs ==
    ASSUME NEW ts \in Seq(AllTokens)
    PROVE  /\ EndOf(ts) \in 1..(Len(ts) + 1) /\ Len(ts) \in Nat
           /\ EndOf(ts) <= Len(ts) => ts[EndOf(ts)].type # "word"
           /\ \A j \in 1..(EndOf(ts) - 1) : ts[j].type = "word"
<1> DEFINE types == [i \in DOMAIN ts |-> ts[i].type]
<1>1. Len(ts) \in Nat /\ DOMAIN ts = 1..Len(ts)
      /\ \A i \in 1..Len(ts) : ts[i] \in AllTokens
  OBVIOUS
<1>2. \A i \in 1..Len(ts) : ts[i].type \in TokenKinds /\ types[i] = ts[i].type
  BY <1>1 DEF AllTokens
<1>3. types \in [1..Len(ts) -> TokenKinds]
  BY <1>1, <1>2
<1> HIDE DEF types
<1>4. types \in Seq(TokenKinds) /\ Len(types) = Len(ts)
  BY <1>1, <1>3
<1> DEFINE end == FirstOf(types, 1, TokenKinds \ {"word"})
<1>5. /\ end \in 1..(Len(ts) + 1)
      /\ end > Len(ts) \/ types[end] \in TokenKinds \ {"word"}
      /\ \A j \in 1..(end - 1) : types[j] \notin TokenKinds \ {"word"}
  <2>1. 1 \in 1..(Len(types) + 1)
    BY <1>1, <1>4
  <2> QED
    BY <1>4, <2>1, FirstOfIs
<1>6. EndOf(ts) = end
  BY DEF EndOf, types
<1> HIDE DEF end
<1>7. \A j \in 1..(end - 1) : ts[j].type = "word"
  BY <1>1, <1>2, <1>5
<1> QED
  BY <1>1, <1>2, <1>5, <1>6, <1>7

\* What Readings makes of the statement in front, and of what follows it.
SemicolonBy(f, ts) ==
    {<<Statement(SubSeq(ts, 1, EndOf(ts) - 1), NoBlock)>> \o rest :
        rest \in f[SubSeq(ts, EndOf(ts) + 1, Len(ts))]}

BlockBy(f, ts, m) ==
    {<<Statement(SubSeq(ts, 1, EndOf(ts) - 1), inside)>> \o rest :
        inside \in f[SubSeq(ts, EndOf(ts) + 1, m - 1)], rest \in f[SubSeq(ts, m + 1, Len(ts))]}

ClosersOf(ts) == {m \in (EndOf(ts) + 1)..Len(ts) : ts[m].type = "}"}

\* What Readings does with a sequence of tokens, if f is Readings of shorter ones.
ReadingsBy(f, ts) ==
    IF ts = << >> THEN {<< >>}
    ELSE IF EndOf(ts) = 1 \/ EndOf(ts) > Len(ts) THEN {}
    ELSE IF ts[EndOf(ts)].type = ";" THEN SemicolonBy(f, ts)
    ELSE IF ts[EndOf(ts)].type = "{" THEN UNION {BlockBy(f, ts, m) : m \in ClosersOf(ts)}
    ELSE {}

\* It looks at shorter sequences only.
LEMMA ReadingsShorter ==
    ASSUME NEW ts \in Seq(AllTokens), NEW f, NEW g, Agree(f, g, Len(ts))
    PROVE  ReadingsBy(f, ts) = ReadingsBy(g, ts)
<1>1. CASE ts = << >>
  BY <1>1 DEF ReadingsBy
<1>2. CASE ts # << >>
  <2>1. EndOf(ts) \in 1..(Len(ts) + 1) /\ Len(ts) \in Nat
    BY EndOfIs
  <2>2. ASSUME NEW i \in Nat, NEW j \in Nat, 1 < i, j <= Len(ts)
        PROVE  f[SubSeq(ts, i, j)] = g[SubSeq(ts, i, j)]
    BY <1>2, <2>2, RestOf DEF Agree
  <2>3. SemicolonBy(f, ts) = SemicolonBy(g, ts)
    <3>1. f[SubSeq(ts, EndOf(ts) + 1, Len(ts))] = g[SubSeq(ts, EndOf(ts) + 1, Len(ts))]
      BY <2>1, <2>2
    <3> QED
      BY <3>1 DEF SemicolonBy
  <2>4. ASSUME NEW m \in ClosersOf(ts)
        PROVE  BlockBy(f, ts, m) = BlockBy(g, ts, m)
    <3>0. m \in (EndOf(ts) + 1)..Len(ts)
      BY Zenon DEF ClosersOf
    <3>1. m \in Nat /\ m \in (EndOf(ts) + 1)..Len(ts)
      BY <2>1, <3>0
    <3>2. f[SubSeq(ts, EndOf(ts) + 1, m - 1)] = g[SubSeq(ts, EndOf(ts) + 1, m - 1)]
      BY <2>1, <2>2, <3>1
    <3>3. f[SubSeq(ts, m + 1, Len(ts))] = g[SubSeq(ts, m + 1, Len(ts))]
      BY <2>1, <2>2, <3>1
    <3> QED
      BY <3>2, <3>3 DEF BlockBy
  <2>5. {BlockBy(f, ts, m) : m \in ClosersOf(ts)} = {BlockBy(g, ts, m) : m \in ClosersOf(ts)}
    BY <2>4
  <2> QED
    BY <1>2, <2>3, <2>5 DEF ReadingsBy
<1> QED
  BY <1>1, <1>2

\* f is Readings as far as sequences of n tokens.
ReadsUpTo(f, n) == \A ts \in Seq(AllTokens) : Len(ts) <= n => f[ts] = ReadingsBy(f, ts)

\* There is such a function for every n, ...
LEMMA ReadsUpToExists ==
    ASSUME NEW n \in Nat
    PROVE  \E f : ReadsUpTo(f, n)
<1> DEFINE G == {k \in Nat : \E f : ReadsUpTo(f, k)}
<1>1. 0 \in G
  <2> DEFINE f == [ts \in Seq(AllTokens) |-> {<< >>}]
  <2>1. \A ts \in Seq(AllTokens) : Len(ts) <= 0 => ts = << >>
    BY EmptySeq
  <2>2. ReadsUpTo(f, 0)
    BY <2>1 DEF ReadsUpTo, ReadingsBy
  <2> HIDE DEF f
  <2> QED
    BY <2>2
<1>2. ASSUME NEW k \in Nat, k \in G
      PROVE  k + 1 \in G
  <2>1. PICK f : ReadsUpTo(f, k)
    BY <1>2
  <2> DEFINE g == [ts \in Seq(AllTokens) |-> ReadingsBy(f, ts)]
  <2>2. \A ts \in Seq(AllTokens) : g[ts] = ReadingsBy(f, ts)
    OBVIOUS
  <2> HIDE DEF g
  <2>3. ASSUME NEW ts \in Seq(AllTokens), Len(ts) <= k + 1
        PROVE  g[ts] = ReadingsBy(g, ts)
    <3>1. Agree(f, g, Len(ts))
      <4> SUFFICES ASSUME NEW us \in Seq(AllTokens), Len(us) < Len(ts)
                   PROVE  f[us] = g[us]
        BY DEF Agree
      <4>1. Len(us) <= k
        BY <2>3
      <4> QED
        BY <2>1, <2>2, <4>1 DEF ReadsUpTo
    <3> QED
      BY <2>2, <3>1, ReadingsShorter
  <2>4. ReadsUpTo(g, k + 1)
    BY <2>3 DEF ReadsUpTo
  <2> QED
    BY <2>4
<1>3. Nat \subseteq G
  <2> HIDE DEF G
  <2> QED
    BY <1>1, <1>2, EveryNumber
<1> QED
  BY <1>3

\* ... and any two agree.
LEMMA ReadsUpToAgree ==
    ASSUME NEW n \in Nat, NEW m \in Nat, NEW f, NEW g, ReadsUpTo(f, n), ReadsUpTo(g, m),
           NEW k \in Nat, k <= n, k <= m
    PROVE  Agree(f, g, k + 1)
<1> DEFINE G == {i \in Nat : i <= n /\ i <= m => Agree(f, g, i + 1)}
<1>1. ASSUME NEW i \in Nat, i <= n, i <= m, Agree(f, g, i)
      PROVE  Agree(f, g, i + 1)
  <2> SUFFICES ASSUME NEW ts \in Seq(AllTokens), Len(ts) < i + 1
               PROVE  f[ts] = g[ts]
    BY DEF Agree
  <2>1. Len(ts) <= n /\ Len(ts) <= m /\ Len(ts) <= i
    BY <1>1
  <2>2. Agree(f, g, Len(ts))
    BY <1>1, <2>1 DEF Agree
  <2> QED
    BY <2>1, <2>2, ReadingsShorter DEF ReadsUpTo
<1>2. 0 \in G
  <2>1. Agree(f, g, 0)
    BY DEF Agree
  <2> QED
    BY <1>1, <2>1
<1>3. ASSUME NEW i \in Nat, i \in G
      PROVE  i + 1 \in G
  BY <1>1, <1>3
<1>4. Nat \subseteq G
  <2> HIDE DEF G
  <2> QED
    BY <1>2, <1>3, EveryNumber
<1> QED
  BY <1>4

IsReadings(f) == f = [ts \in Seq(AllTokens) |-> ReadingsBy(f, ts)]

\* Readings obeys its equation.
LEMMA ReadingsRecursion ==
    ASSUME NEW ts \in Seq(AllTokens)
    PROVE  Readings[ts] = ReadingsBy(Readings, ts)
<1> DEFINE F(n) == CHOOSE f : ReadsUpTo(f, n)
           f == [us \in Seq(AllTokens) |-> F(Len(us))[us]]
<1>1. \A n \in Nat : ReadsUpTo(F(n), n)
  BY ReadsUpToExists
<1> HIDE DEF F
<1>2. ASSUME NEW us \in Seq(AllTokens)
      PROVE  f[us] = ReadingsBy(f, us)
  <2>1. Len(us) \in Nat
    OBVIOUS
  <2>2. F(Len(us))[us] = ReadingsBy(F(Len(us)), us)
    BY <1>1, <2>1 DEF ReadsUpTo
  <2>3. Agree(F(Len(us)), f, Len(us))
    <3> SUFFICES ASSUME NEW vs \in Seq(AllTokens), Len(vs) < Len(us)
                 PROVE  F(Len(us))[vs] = f[vs]
      BY DEF Agree
    <3>1. Len(vs) \in Nat /\ Len(vs) <= Len(us)
      BY <2>1
    <3>2. Agree(F(Len(us)), F(Len(vs)), Len(vs) + 1)
      BY <1>1, <2>1, <3>1, ReadsUpToAgree
    <3>3. F(Len(us))[vs] = F(Len(vs))[vs]
      BY <3>1, <3>2 DEF Agree
    <3> QED
      BY <3>3
  <2>4. f[us] = F(Len(us))[us]
    OBVIOUS
  <2> HIDE DEF f
  <2> QED
    BY <2>2, <2>3, <2>4, ReadingsShorter
<1>3. IsReadings(f)
  <2>1. f = [us \in Seq(AllTokens) |-> f[us]]
    OBVIOUS
  <2> HIDE DEF f
  <2> QED
    BY <1>2, <2>1 DEF IsReadings
<1>4. Readings = CHOOSE g : IsReadings(g)
  BY DEF Readings, IsReadings, ReadingsBy, SemicolonBy, BlockBy, ClosersOf, EndOf
<1> HIDE DEF f
<1>5. IsReadings(Readings)
  BY <1>3, <1>4
<1> QED
  BY <1>5 DEF IsReadings

----------------------------------------------------------------------------
(* What Readings says of words and what comes after them.                  *)

\* A sequence about one of its elements.
IsAround(S, a, x, u, s) ==
    /\ s \in Seq(S) /\ Len(s) = Len(a) + 1 + Len(u) /\ s # << >>
    /\ s[Len(a) + 1] = x /\ \A i \in 1..Len(a) : s[i] = a[i]
    /\ SubSeq(s, 1, Len(a)) = a
    /\ SubSeq(s, Len(a) + 2, Len(s)) = u
    /\ Len(a) \in Nat /\ Len(u) \in Nat

\* What is around an element is what was put there.
LEMMA Around ==
    ASSUME NEW S, NEW a \in Seq(S), NEW x \in S, NEW u \in Seq(S)
    PROVE  IsAround(S, a, x, u, a \o (<<x>> \o u))
<1> DEFINE v == <<x>> \o u
           s == a \o v
<1>0. Len(a) \in Nat /\ Len(u) \in Nat
  OBVIOUS
<1>1. /\ v \in Seq(S) /\ Len(v) = 1 + Len(u) /\ v[1] = x
      /\ \A i \in 1..Len(u) : v[i + 1] = u[i]
  <2>1. <<x>> \in Seq(S) /\ Len(<<x>>) = 1 /\ <<x>>[1] = x
    OBVIOUS
  <2>2. \A i \in 1..(1 + Len(u)) : v[i] = IF i <= 1 THEN <<x>>[i] ELSE u[i - 1]
    BY <2>1, ConcatProperties
  <2>3. v \in Seq(S) /\ Len(v) = 1 + Len(u)
    BY <2>1, ConcatProperties
  <2> HIDE DEF v
  <2> QED
    BY <1>0, <2>1, <2>2, <2>3
<1> HIDE DEF v
<1>2. /\ s \in Seq(S) /\ Len(s) = Len(a) + Len(v)
      /\ \A i \in 1..(Len(a) + Len(v)) : s[i] = IF i <= Len(a) THEN a[i] ELSE v[i - Len(a)]
  <2>1. a \o v \in Seq(S)
    BY <1>1, ConcatProperties
  <2>2. Len(a \o v) = Len(a) + Len(v)
    BY <1>1, ConcatProperties
  <2>3. \A i \in 1..(Len(a) + Len(v)) : (a \o v)[i] = IF i <= Len(a) THEN a[i] ELSE v[i - Len(a)]
    BY <1>1, ConcatProperties
  <2> QED
    BY <2>1, <2>2, <2>3
<1> HIDE DEF s
<1>3. s[Len(a) + 1] = x /\ \A i \in 1..Len(a) : s[i] = a[i]
  <2>1. Len(a) + 1 \in 1..(Len(a) + Len(v)) /\ ~(Len(a) + 1 <= Len(a)) /\ (Len(a) + 1) - Len(a) = 1
    BY <1>0, <1>1
  <2>2. s[Len(a) + 1] = v[1]
    BY <1>2, <2>1
  <2>3. \A i \in 1..Len(a) : i \in 1..(Len(a) + Len(v)) /\ i <= Len(a)
    BY <1>0, <1>1
  <2> QED
    BY <1>1, <1>2, <2>2, <2>3
<1>4. SubSeq(s, 1, Len(a)) = a
  <2>1. \A i \in 1..Len(a) : s[i] \in S
    BY <1>0, <1>2
  <2>2. /\ SubSeq(s, 1, Len(a)) \in Seq(S)
        /\ Len(SubSeq(s, 1, Len(a))) = Len(a)
        /\ \A i \in 1..Len(a) : SubSeq(s, 1, Len(a))[i] = s[i]
    BY <1>0, <2>1, SubSeqProperties
  <2> QED
    BY <1>3, <2>2, SeqEqual
<1>5. SubSeq(s, Len(a) + 2, Len(s)) = u
  <2> DEFINE r == SubSeq(s, Len(a) + 2, Len(s))
  <2>1. Len(s) = Len(a) + 1 + Len(u) /\ Len(a) + 2 \in Int /\ Len(s) \in Int
    BY <1>0, <1>1, <1>2
  <2>2. \A i \in (Len(a) + 2)..Len(s) : s[i] \in S
    BY <1>0, <1>2, <2>1
  <2>3. /\ r \in Seq(S)
        /\ Len(r) = IF Len(a) + 2 <= Len(s) THEN Len(s) - (Len(a) + 2) + 1 ELSE 0
        /\ \A i \in 1..(Len(s) - (Len(a) + 2) + 1) : r[i] = s[(Len(a) + 2) + i - 1]
    BY <2>1, <2>2, SubSeqProperties
  <2> HIDE DEF r
  <2>4. Len(r) = Len(u)
    BY <1>0, <2>1, <2>3
  <2>5. ASSUME NEW i \in 1..Len(u)
        PROVE  r[i] = u[i]
    <3> DEFINE k == (Len(a) + 2) + i - 1
    <3>1. k \in 1..(Len(a) + Len(v)) /\ ~(k <= Len(a)) /\ k - Len(a) = i + 1
          /\ i \in 1..(Len(s) - (Len(a) + 2) + 1)
      BY <1>0, <1>1, <2>1
    <3>2. r[i] = s[k]
      BY <2>3, <3>1
    <3> HIDE DEF k
    <3>3. s[k] = v[i + 1]
      BY <1>2, <3>1
    <3> QED
      BY <1>1, <3>2, <3>3
  <2>6. r = u
    BY <2>3, <2>4, <2>5, SeqEqual
  <2> QED
    BY <2>6 DEF r
<1>6. Len(s) = Len(a) + 1 + Len(u) /\ s # << >>
  <2>1. Len(s) = Len(a) + 1 + Len(u)
    BY <1>0, <1>1, <1>2
  <2> QED
    BY <1>0, <2>1
<1>7. IsAround(S, a, x, u, s)
  BY <1>0, <1>2, <1>3, <1>4, <1>5, <1>6 DEF IsAround
<1> QED
  BY <1>7 DEF s, v

Together(S, a, b, u) == (a \o b) \o u = a \o (b \o u)

\* Putting three sequences together.
LEMMA Associative ==
    ASSUME NEW S, NEW a \in Seq(S), NEW b \in Seq(S), NEW u \in Seq(S)
    PROVE  Together(S, a, b, u)
BY ConcatAssociative DEF Together

\* Every element is between what is before it and what is after it.
LEMMA Between ==
    ASSUME NEW S, NEW s \in Seq(S), NEW m \in 1..Len(s)
    PROVE  /\ SubSeq(s, 1, m - 1) \in Seq(S) /\ s[m] \in S /\ SubSeq(s, m + 1, Len(s)) \in Seq(S)
           /\ s = SubSeq(s, 1, m - 1) \o (<<s[m]>> \o SubSeq(s, m + 1, Len(s)))
<1> DEFINE a == SubSeq(s, 1, m - 1)
           u == SubSeq(s, m + 1, Len(s))
<1>1. Len(s) \in Nat /\ m \in Nat /\ \A i \in 1..Len(s) : s[i] \in S
  OBVIOUS
<1>2. a \in Seq(S)
  BY <1>1, SubSeqProperties
<1>3. u \in Seq(S)
  BY <1>1, SubSeqProperties
<1>4. SubSeq(s, 1, m) = a \o <<s[m]>>
  BY SubSeqRecursiveSecond
<1>5. SubSeq(s, 1, m) \o u = s
  <2>1. SubSeq(s, 1, m) \o SubSeq(s, m + 1, Len(s)) = SubSeq(s, 1, Len(s))
    <3>1. 1 \in 1..(Len(s) + 1) /\ m \in (1 - 1)..Len(s) /\ Len(s) \in m..Len(s)
      BY <1>1
    <3> QED
      BY <3>1, ConcatAdjacentSubSeq
  <2>2. SubSeq(s, 1, Len(s)) = s
    BY SubSeqFull
  <2> QED
    BY <2>1, <2>2
<1>6. s[m] \in S /\ <<s[m]>> \in Seq(S)
  BY <1>1
<1> HIDE DEF a, u
<1>7. s = a \o (<<s[m]>> \o u)
  <2>1. ASSUME NEW b \in Seq(S)
        PROVE  Together(S, a, b, u)
    BY <1>2, <1>3, Associative, Zenon
  <2>2. (a \o <<s[m]>>) \o u = a \o (<<s[m]>> \o u)
    BY <1>6, <2>1, Zenon DEF Together
  <2> HIDE DEF a, u
  <2> QED
    BY <1>4, <1>5, <2>2
<1> QED
  BY <1>2, <1>3, <1>6, <1>7 DEF a, u

Shifted(S, s, t, m, n, d) == \A i \in m..n : s[i] \in S /\ s[i] = t[i + d]
Same(s, t, m, n, d) == SubSeq(s, m, n) = SubSeq(t, m + d, n + d)

\* Pieces with the same elements are the same.
LEMMA SamePieces ==
    ASSUME NEW S, NEW s, NEW t, NEW m \in Int, NEW n \in Int, NEW d \in Int,
           Shifted(S, s, t, m, n, d)
    PROVE  Same(s, t, m, n, d)
<1> DEFINE p == SubSeq(s, m, n)
           q == SubSeq(t, m + d, n + d)
<1>0. \A i \in m..n : s[i] \in S /\ s[i] = t[i + d]
  BY Zenon DEF Shifted
<1>1. /\ p \in Seq(S) /\ Len(p) = (IF m <= n THEN n - m + 1 ELSE 0)
      /\ \A i \in 1..(n - m + 1) : p[i] = s[m + i - 1]
  BY <1>0, SubSeqProperties
<1>2. m + d \in Int /\ n + d \in Int /\ (n + d) - (m + d) = n - m
      /\ (m + d <= n + d <=> m <= n)
  OBVIOUS
<1>3. \A i \in (m + d)..(n + d) : t[i] \in S
  <2> TAKE i \in (m + d)..(n + d)
  <2>1. i - d \in m..n /\ (i - d) + d = i
    OBVIOUS
  <2> QED
    BY <1>0, <2>1
<1>4. /\ q \in Seq(S) /\ Len(q) = (IF m + d <= n + d THEN (n + d) - (m + d) + 1 ELSE 0)
      /\ \A i \in 1..((n + d) - (m + d) + 1) : q[i] = t[(m + d) + i - 1]
  BY <1>2, <1>3, SubSeqProperties
<1> HIDE DEF p, q
<1>5. Len(p) = Len(q)
  BY <1>1, <1>2, <1>4
<1>6. ASSUME NEW i \in 1..Len(p)
      PROVE  p[i] = q[i]
  <2>1. i \in 1..(n - m + 1) /\ i \in 1..((n + d) - (m + d) + 1)
    BY <1>1, <1>2
  <2>2. m + i - 1 \in m..n /\ (m + i - 1) + d = (m + d) + i - 1
    BY <2>1
  <2>3. s[m + i - 1] = t[(m + i - 1) + d]
    BY <1>0, <2>2
  <2> QED
    BY <1>1, <1>4, <2>1, <2>2, <2>3
<1>7. p = q
  BY <1>1, <1>4, <1>5, <1>6, SeqEqual
<1> QED
  BY <1>7, Zenon DEF p, q, Same

\* Some words.
WordsOf(w) == [i \in DOMAIN w |-> Word(w[i])]

Texted == Seq(Seq(Characters))

\* They are tokens.
LEMMA WordsAre ==
    ASSUME NEW w \in Texted
    PROVE  /\ WordsOf(w) \in Seq(AllTokens) /\ Len(WordsOf(w)) = Len(w)
           /\ \A i \in 1..Len(w) : WordsOf(w)[i].type = "word"
           /\ \A block : Statement(WordsOf(w), block) = [tokens |-> w, child_block |-> block]
<1>1. /\ Len(w) \in Nat /\ DOMAIN w = 1..Len(w) /\ \A i \in 1..Len(w) : w[i] \in Seq(Characters)
      /\ w = [i \in 1..Len(w) |-> w[i]]
  BY DEF Texted
<1>2. \A i \in 1..Len(w) : Word(w[i]) \in AllTokens
  BY <1>1 DEF Word, AllTokens, TokenKinds
<1>3. WordsOf(w) \in [1..Len(w) -> AllTokens] /\ \A i \in 1..Len(w) : WordsOf(w)[i] = Word(w[i])
  BY <1>1, <1>2 DEF WordsOf
<1>4. WordsOf(w) \in Seq(AllTokens) /\ Len(WordsOf(w)) = Len(w) /\ DOMAIN WordsOf(w) = 1..Len(w)
  BY <1>1, <1>3
<1>5. \A i \in 1..Len(w) : WordsOf(w)[i].type = "word" /\ WordsOf(w)[i].token = w[i]
  BY <1>3 DEF Word
<1>6. [i \in DOMAIN WordsOf(w) |-> WordsOf(w)[i].token] = w
  <2>1. [i \in DOMAIN WordsOf(w) |-> WordsOf(w)[i].token] = [i \in 1..Len(w) |-> w[i]]
    BY <1>4, <1>5
  <2> QED
    BY <1>1, <2>1
<1> QED
  BY <1>4, <1>5, <1>6 DEF Statement

\* Words and what comes after them.
WordsThen(w, x, u, ts) ==
    /\ ts \in Seq(AllTokens) /\ Len(ts) = Len(w) + 1 + Len(u) /\ ts # << >>
    /\ ts[Len(w) + 1] = x /\ \A i \in 1..Len(w) : ts[i] = WordsOf(w)[i]
    /\ SubSeq(ts, 1, Len(w)) = WordsOf(w)
    /\ SubSeq(ts, Len(w) + 2, Len(ts)) = u
    /\ Len(w) \in Nat /\ Len(u) \in Nat

\* What is around a token after words is what was put there.
LEMMA WordsAround ==
    ASSUME NEW w \in Texted, NEW x \in AllTokens, NEW u \in Seq(AllTokens)
    PROVE  WordsThen(w, x, u, WordsOf(w) \o (<<x>> \o u))
<1> DEFINE a == WordsOf(w)
           ts == a \o (<<x>> \o u)
<1>1. a \in Seq(AllTokens) /\ Len(a) = Len(w)
  BY WordsAre
<1> HIDE DEF a
<1>2. IsAround(AllTokens, a, x, u, ts)
  BY <1>1, Around, Zenon
<1> HIDE DEF ts
<1>3. IsAround(AllTokens, a, x, u, ts) => WordsThen(w, x, u, ts)
  BY <1>1 DEF IsAround, WordsThen, a
<1> QED
  BY <1>2, <1>3 DEF a, ts

\* Where words end.
LEMMA WordsEnd ==
    ASSUME NEW w \in Texted, NEW x \in AllTokens, x.type # "word", NEW u \in Seq(AllTokens)
    PROVE  EndOf(WordsOf(w) \o (<<x>> \o u)) = Len(w) + 1
<1> DEFINE ts == WordsOf(w) \o (<<x>> \o u)
           end == EndOf(ts)
<1>0. WordsThen(w, x, u, ts)
  BY WordsAround
<1> HIDE DEF ts
<1>1. /\ ts \in Seq(AllTokens) /\ Len(ts) = Len(w) + 1 + Len(u)
      /\ ts[Len(w) + 1] = x /\ \A i \in 1..Len(w) : ts[i] = WordsOf(w)[i]
  BY <1>0 DEF WordsThen
<1>2. Len(w) \in Nat /\ Len(u) \in Nat
  BY <1>0 DEF WordsThen
<1>3. /\ end \in 1..(Len(ts) + 1)
      /\ end <= Len(ts) => ts[end].type # "word"
      /\ \A j \in 1..(end - 1) : ts[j].type = "word"
  BY <1>1, EndOfIs
<1> HIDE DEF end
<1>4. \A i \in 1..Len(w) : ts[i].type = "word"
  BY <1>1, WordsAre
<1>5. ~(end > Len(w) + 1)
  <2>1. end > Len(w) + 1 => Len(w) + 1 \in 1..(end - 1)
    BY <1>1, <1>2, <1>3
  <2> QED
    BY <1>1, <1>3, <2>1
<1>6. ~(end <= Len(w))
  <2>1. end <= Len(w) => end \in 1..Len(w) /\ end <= Len(ts)
    BY <1>1, <1>2, <1>3
  <2> QED
    BY <1>3, <1>4, <2>1
<1>7. end = Len(w) + 1
  BY <1>1, <1>2, <1>3, <1>5, <1>6
<1> QED
  BY <1>7 DEF end, ts

\* Nothing is a configuration, ...
LEMMA ReadsNothing == Readings[<< >>] = {<< >>}
  BY ReadingsRecursion, EmptySeq DEF ReadingsBy

\* ... what begins with anything but a word is none, ...
LEMMA ReadsNoWord ==
    ASSUME NEW x \in AllTokens, x.type # "word", NEW u \in Seq(AllTokens)
    PROVE  Readings[<<x>> \o u] = {}
<1> DEFINE ts == <<x>> \o u
           v == WordsOf(<< >>) \o ts
<1>1. << >> \in Texted /\ Len(<< >>) = 0
  BY DEF Texted
<1>2. ts \in Seq(AllTokens)
  BY ConcatProperties
<1>3. v = ts
  <2>1. WordsOf(<< >>) = << >>
    BY <1>1, WordsAre, EmptySeq
  <2> HIDE DEF ts
  <2> QED
    BY <1>2, <2>1, ConcatEmptySeq
<1>4. EndOf(ts) = 1 /\ ts # << >>
  <2>1. EndOf(v) = 0 + 1
    BY <1>1, WordsEnd
  <2>2. v # << >>
    BY <1>1, WordsAround DEF WordsThen
  <2> HIDE DEF ts, v
  <2> QED
    BY <1>3, <2>1, <2>2
<1> HIDE DEF ts
<1>5. Readings[ts] = {}
  BY <1>2, <1>4, ReadingsRecursion DEF ReadingsBy
<1> QED
  BY <1>5 DEF ts

\* ... words alone are none, ...
LEMMA ReadsWords ==
    ASSUME NEW w \in Texted, w # << >>
    PROVE  Readings[WordsOf(w)] = {}
<1> DEFINE ts == WordsOf(w)
<1>1. ts \in Seq(AllTokens) /\ Len(ts) = Len(w) /\ Len(w) \in Nat \ {0}
      /\ \A i \in 1..Len(w) : ts[i].type = "word"
  BY WordsAre DEF Texted
<1> HIDE DEF ts
<1>2. EndOf(ts) > Len(ts) /\ ts # << >>
  BY <1>1, EndOfIs, EmptySeq
<1>3. Readings[ts] = {}
  BY <1>1, <1>2, ReadingsRecursion DEF ReadingsBy
<1> QED
  BY <1>3 DEF ts

\* What tokens of punctuation are.
IsSemicolon(x) == x.type = ";"
IsOpening(x) == x.type = "{"
IsClosing(x) == x.type = "}"

\* A token is one of them at most, and then no word.
LEMMA KindsDiffer ==
    ASSUME NEW x
    PROVE  /\ IsSemicolon(x) => x.type # "word" /\ ~IsOpening(x) /\ ~IsClosing(x)
           /\ IsOpening(x) => x.type # "word" /\ ~IsSemicolon(x) /\ ~IsClosing(x)
           /\ IsClosing(x) => x.type # "word" /\ ~IsSemicolon(x) /\ ~IsOpening(x)
<1>1. ";" # "{" /\ ";" # "}" /\ "{" # "}" /\ ";" # "word" /\ "{" # "word" /\ "}" # "word"
  BY Zenon
<1> QED
  BY <1>1, Zenon DEF IsSemicolon, IsOpening, IsClosing

\* Words, a token of another kind and what comes after it.
LEMMA ReadsStatement ==
    ASSUME NEW w \in Texted, w # << >>, NEW x \in AllTokens, x.type # "word",
           NEW u \in Seq(AllTokens), NEW ts, ts = WordsOf(w) \o (<<x>> \o u)
    PROVE  /\ IsSemicolon(x) => Readings[ts] = SemicolonBy(Readings, ts)
           /\ IsOpening(x) => Readings[ts] = UNION {BlockBy(Readings, ts, m) : m \in ClosersOf(ts)}
           /\ ~IsSemicolon(x) /\ ~IsOpening(x) => Readings[ts] = {}
           /\ EndOf(ts) = Len(w) + 1 /\ WordsThen(w, x, u, ts)
<1>1. WordsThen(w, x, u, ts)
  BY WordsAround
<1>2. EndOf(ts) = Len(w) + 1
  BY WordsEnd
<1>3. Len(w) \in Nat /\ Len(u) \in Nat /\ Len(ts) = Len(w) + 1 + Len(u) /\ ts # << >>
      /\ ts \in Seq(AllTokens) /\ ts[Len(w) + 1] = x
  BY <1>1 DEF WordsThen
<1>4. Len(w) # 0
  BY EmptySeq DEF Texted
<1>5. EndOf(ts) # 1 /\ ~(EndOf(ts) > Len(ts)) /\ ts[EndOf(ts)] = x
  BY <1>2, <1>3, <1>4
<1>6. Readings[ts] = ReadingsBy(Readings, ts)
  BY <1>3, ReadingsRecursion
<1>7. Readings[ts] = IF IsSemicolon(x) THEN SemicolonBy(Readings, ts)
                     ELSE IF IsOpening(x)
                     THEN UNION {BlockBy(Readings, ts, m) : m \in ClosersOf(ts)} ELSE {}
  BY <1>3, <1>5, <1>6, Zenon DEF ReadingsBy, IsSemicolon, IsOpening
<1>8. IsSemicolon(x) => ~IsOpening(x)
  BY KindsDiffer
<1> QED
  BY <1>1, <1>2, <1>7, <1>8

\* ... and after words comes a semicolon, ...
LEMMA ReadsSemicolon ==
    ASSUME NEW w \in Texted, w # << >>, NEW x \in AllTokens, IsSemicolon(x),
           NEW u \in Seq(AllTokens)
    PROVE  Readings[WordsOf(w) \o (<<x>> \o u)]
             = {<<[tokens |-> w, child_block |-> NoBlock]>> \o rest : rest \in Readings[u]}
<1> DEFINE ts == WordsOf(w) \o (<<x>> \o u)
<1>1. Readings[ts] = SemicolonBy(Readings, ts) /\ EndOf(ts) = Len(w) + 1 /\ WordsThen(w, x, u, ts)
  BY ReadsStatement, KindsDiffer
<1> HIDE DEF ts
<1>2. EndOf(ts) - 1 = Len(w) /\ EndOf(ts) + 1 = Len(w) + 2
  BY <1>1 DEF WordsThen
<1>3. Statement(WordsOf(w), NoBlock) = [tokens |-> w, child_block |-> NoBlock]
  BY WordsAre
<1>4. Readings[ts] = {<<[tokens |-> w, child_block |-> NoBlock]>> \o rest : rest \in Readings[u]}
  BY <1>1, <1>2, <1>3 DEF SemicolonBy, WordsThen
<1> QED
  BY <1>4 DEF ts

\* ... or a configuration in braces, the first of them between the words and the
\* cut, ...
Closed(inner, done, words, u, config) ==
    \E u1 \in Seq(AllTokens), x \in AllTokens, u2 \in Seq(AllTokens) :
        /\ IsClosing(x) /\ u = u1 \o (<<x>> \o u2)
        /\ \E inside \in Readings[inner \o u1], rest \in Readings[u2] :
              config = done \o (<<[tokens |-> words, child_block |-> inside]>> \o rest)

InBraces(words, u, config) ==
    \E u1 \in Seq(AllTokens), y \in AllTokens, u2 \in Seq(AllTokens) :
        /\ IsClosing(y) /\ u = u1 \o (<<y>> \o u2)
        /\ \E inside \in Readings[u1], rest \in Readings[u2] :
              config = <<[tokens |-> words, child_block |-> inside]>> \o rest

\* What words and an opening brace are read as.
LEMMA ReadsBlock ==
    ASSUME NEW w \in Texted, w # << >>, NEW x \in AllTokens, IsOpening(x),
           NEW u \in Seq(AllTokens), NEW config
    PROVE  config \in Readings[WordsOf(w) \o (<<x>> \o u)] <=> InBraces(w, u, config)
<1> DEFINE ts == WordsOf(w) \o (<<x>> \o u)
           n == Len(w)
           Read(u1, u2) == \E inside \in Readings[u1], rest \in Readings[u2] :
                               config = <<[tokens |-> w, child_block |-> inside]>> \o rest
<1>1. /\ Readings[ts] = UNION {BlockBy(Readings, ts, m) : m \in ClosersOf(ts)}
      /\ EndOf(ts) = n + 1 /\ WordsThen(w, x, u, ts)
  BY ReadsStatement, KindsDiffer
<1> HIDE DEF ts
<1>2. /\ ts \in Seq(AllTokens) /\ Len(ts) = n + 1 + Len(u) /\ n \in Nat /\ Len(u) \in Nat
      /\ SubSeq(ts, n + 2, Len(ts)) = u /\ SubSeq(ts, 1, n) = WordsOf(w)
  BY <1>1 DEF WordsThen
<1> HIDE DEF n
<1>3. \A block : Statement(SubSeq(ts, 1, EndOf(ts) - 1), block)
                  = [tokens |-> w, child_block |-> block]
  <2>1. EndOf(ts) - 1 = n
    BY <1>1, <1>2
  <2> QED
    BY <1>2, <2>1, WordsAre
<1>4. \A i \in 1..Len(u) : u[i] = ts[n + 1 + i]
  <2>1. \A i \in (n + 2)..Len(ts) : ts[i] \in AllTokens
    BY <1>2, ElementOfSeq
  <2>2. n + 2 \in Int /\ Len(ts) \in Int
    BY <1>2
  <2>3. \A i \in 1..(Len(ts) - (n + 2) + 1) : SubSeq(ts, n + 2, Len(ts))[i] = ts[(n + 2) + i - 1]
    BY <2>1, <2>2, SubSeqProperties
  <2>4. ASSUME NEW i \in 1..Len(u)
        PROVE  i \in 1..(Len(ts) - (n + 2) + 1) /\ (n + 2) + i - 1 = n + 1 + i
    BY <1>2
  <2> QED
    BY <1>2, <2>3, <2>4
<1>5. ASSUME NEW k \in Int, NEW j \in Int, 1 <= k, j <= Len(u)
      PROVE  SubSeq(u, k, j) = SubSeq(ts, k + (n + 1), j + (n + 1))
  <2>1. PICK d \in Int : d = n + 1
    BY <1>2
  <2>2. ASSUME NEW i \in k..j
        PROVE  u[i] \in AllTokens /\ u[i] = ts[i + d]
    <3>1. i \in 1..Len(u) /\ i + d = n + 1 + i
      BY <1>2, <1>5, <2>1
    <3>2. u[i] \in AllTokens
      BY <3>1, ElementOfSeq
    <3> QED
      BY <1>4, <3>1, <3>2, Zenon
  <2>3. PICK s : s = ts
    OBVIOUS
  <2>4. Shifted(AllTokens, u, s, k, j, d)
    BY <2>2, <2>3, Zenon DEF Shifted
  <2>5. Same(u, s, k, j, d)
    BY <2>4, SamePieces, Zenon
  <2> QED
    BY <2>1, <2>3, <2>5, Zenon DEF Same
<1>6. ASSUME NEW k \in 1..Len(u)
      PROVE  /\ SubSeq(ts, EndOf(ts) + 1, (n + 1 + k) - 1) = SubSeq(u, 1, k - 1)
             /\ SubSeq(ts, (n + 1 + k) + 1, Len(ts)) = SubSeq(u, k + 1, Len(u))
  <2>1. /\ EndOf(ts) + 1 = 1 + (n + 1) /\ (n + 1 + k) - 1 = (k - 1) + (n + 1)
        /\ (n + 1 + k) + 1 = (k + 1) + (n + 1) /\ Len(ts) = Len(u) + (n + 1)
        /\ 1 \in Int /\ k - 1 \in Int /\ k + 1 \in Int /\ Len(u) \in Int
        /\ 1 <= 1 /\ k - 1 <= Len(u) /\ 1 <= k + 1 /\ Len(u) <= Len(u)
    BY <1>1, <1>2
  <2>2. SubSeq(u, 1, k - 1) = SubSeq(ts, 1 + (n + 1), (k - 1) + (n + 1))
    BY <1>5, <2>1
  <2>3. SubSeq(u, k + 1, Len(u)) = SubSeq(ts, (k + 1) + (n + 1), Len(u) + (n + 1))
    BY <1>5, <2>1
  <2> QED
    BY <2>1, <2>2, <2>3
<1>7. ASSUME NEW m
      PROVE  m \in ClosersOf(ts) <=> \E k \in 1..Len(u) : m = n + 1 + k /\ IsClosing(u[k])
  <2>1. m \in ClosersOf(ts) <=> m \in (EndOf(ts) + 1)..Len(ts) /\ IsClosing(ts[m])
    BY Zenon DEF ClosersOf, IsClosing
  <2>2. m \in (EndOf(ts) + 1)..Len(ts) <=> \E k \in 1..Len(u) : m = n + 1 + k
    <3>1. EndOf(ts) + 1 = n + 2 /\ Len(ts) = n + 1 + Len(u)
      BY <1>1, <1>2
    <3>2. ASSUME m \in (n + 2)..(n + 1 + Len(u))
          PROVE  \E k \in 1..Len(u) : m = n + 1 + k
      <4>1. m - n - 1 \in 1..Len(u) /\ m = n + 1 + (m - n - 1)
        BY <1>2, <3>2
      <4> QED
        BY <4>1
    <3>3. ASSUME NEW k \in 1..Len(u), m = n + 1 + k
          PROVE  m \in (n + 2)..(n + 1 + Len(u))
      BY <1>2, <3>3
    <3> QED
      BY <3>1, <3>2, <3>3
  <2>3. \A k \in 1..Len(u) : u[k] = ts[n + 1 + k]
    BY <1>4
  <2> QED
    BY <2>1, <2>2, <2>3
<1>8. ASSUME NEW k \in 1..Len(u)
      PROVE  config \in BlockBy(Readings, ts, n + 1 + k)
               <=> Read(SubSeq(u, 1, k - 1), SubSeq(u, k + 1, Len(u)))
  <2> DEFINE m == n + 1 + k
             p == SubSeq(u, 1, k - 1)
             q == SubSeq(u, k + 1, Len(u))
  <2>1. SubSeq(ts, EndOf(ts) + 1, m - 1) = p /\ SubSeq(ts, m + 1, Len(ts)) = q
    BY <1>6
  <2>2. \A block : <<Statement(SubSeq(ts, 1, EndOf(ts) - 1), block)>>
                     = <<[tokens |-> w, child_block |-> block]>>
    BY <1>3
  <2> HIDE DEF m, p, q
  <2>3. config \in BlockBy(Readings, ts, m)
          <=> \E inside \in Readings[p], rest \in Readings[q] :
                 config = <<Statement(SubSeq(ts, 1, EndOf(ts) - 1), inside)>> \o rest
    <3>1. config \in BlockBy(Readings, ts, m)
            <=> \E inside \in Readings[SubSeq(ts, EndOf(ts) + 1, m - 1)],
                   rest \in Readings[SubSeq(ts, m + 1, Len(ts))] :
                   config = <<Statement(SubSeq(ts, 1, EndOf(ts) - 1), inside)>> \o rest
      BY DEF BlockBy
    <3> QED
      BY <2>1, <3>1
  <2>4. config \in BlockBy(Readings, ts, m) <=> Read(p, q)
    BY <2>2, <2>3
  <2> QED
    BY <2>4 DEF m, p, q
<1>9. config \in Readings[ts] <=> \E k \in 1..Len(u) :
          IsClosing(u[k]) /\ Read(SubSeq(u, 1, k - 1), SubSeq(u, k + 1, Len(u)))
  <2>1. config \in Readings[ts] <=> \E m \in ClosersOf(ts) : config \in BlockBy(Readings, ts, m)
    BY <1>1
  <2> HIDE DEF Read
  <2> QED
    BY <1>7, <1>8, <2>1
<1> HIDE DEF Read
<1>10. ASSUME NEW k \in 1..Len(u), IsClosing(u[k]),
              Read(SubSeq(u, 1, k - 1), SubSeq(u, k + 1, Len(u)))
       PROVE  \E u1 \in Seq(AllTokens), y \in AllTokens, u2 \in Seq(AllTokens) :
                 IsClosing(y) /\ u = u1 \o (<<y>> \o u2) /\ Read(u1, u2)
  <2>1. /\ SubSeq(u, 1, k - 1) \in Seq(AllTokens) /\ u[k] \in AllTokens
        /\ SubSeq(u, k + 1, Len(u)) \in Seq(AllTokens)
        /\ u = SubSeq(u, 1, k - 1) \o (<<u[k]>> \o SubSeq(u, k + 1, Len(u)))
    BY Between
  <2> QED
    BY <1>10, <2>1, Zenon
<1>11. ASSUME NEW u1 \in Seq(AllTokens), NEW y \in AllTokens, NEW u2 \in Seq(AllTokens),
              IsClosing(y), u = u1 \o (<<y>> \o u2), Read(u1, u2)
       PROVE  \E k \in 1..Len(u) :
                 IsClosing(u[k]) /\ Read(SubSeq(u, 1, k - 1), SubSeq(u, k + 1, Len(u)))
  <2>1. IsAround(AllTokens, u1, y, u2, u)
    BY <1>11, Around, Zenon
  <2>2. Len(u1) + 1 \in 1..Len(u) /\ u[Len(u1) + 1] = y
        /\ SubSeq(u, 1, (Len(u1) + 1) - 1) = u1 /\ SubSeq(u, (Len(u1) + 1) + 1, Len(u)) = u2
    <3>1. /\ (Len(u1) + 1) - 1 = Len(u1) /\ (Len(u1) + 1) + 1 = Len(u1) + 2
          /\ Len(u1) + 1 \in 1..Len(u)
      BY <2>1 DEF IsAround
    <3> QED
      BY <2>1, <3>1 DEF IsAround
  <2> QED
    BY <1>11, <2>2
<1>12. config \in Readings[ts]
         <=> \E u1 \in Seq(AllTokens), y \in AllTokens, u2 \in Seq(AllTokens) :
                 IsClosing(y) /\ u = u1 \o (<<y>> \o u2) /\ Read(u1, u2)
  BY <1>9, <1>10, <1>11, Zenon
<1> QED
  BY <1>12, Zenon DEF Read, ts, InBraces

\* ... and nothing else.
LEMMA ReadsNothingElse ==
    ASSUME NEW w \in Texted, w # << >>, NEW x \in AllTokens, x.type # "word",
           ~IsSemicolon(x), ~IsOpening(x), NEW u \in Seq(AllTokens)
    PROVE  Readings[WordsOf(w) \o (<<x>> \o u)] = {}
BY ReadsStatement

----------------------------------------------------------------------------
(* Putting sequences together, whatever they are sequences of.             *)

Sequential(s) == \E S : s \in Seq(S)

\* Sequences of any elements are sequences of some common set.
LEMMA SequentialWithin ==
    ASSUME NEW a, NEW b, NEW u, Sequential(a), Sequential(b), Sequential(u)
    PROVE  \E S : a \in Seq(S) /\ b \in Seq(S) /\ u \in Seq(S)
<1>1. PICK A, B, U : a \in Seq(A) /\ b \in Seq(B) /\ u \in Seq(U)
  BY DEF Sequential
<1> DEFINE S == A \cup B \cup U
<1>2. A \subseteq S /\ B \subseteq S /\ U \subseteq S
  OBVIOUS
<1> HIDE DEF S
<1>3. Seq(A) \subseteq Seq(S) /\ Seq(B) \subseteq Seq(S) /\ Seq(U) \subseteq Seq(S)
  BY <1>2, SeqMonotone
<1> QED
  BY <1>1, <1>3, Zenon

\* They can be put together, in any order of doing so.
LEMMA ConcatAny ==
    ASSUME NEW a, NEW b, NEW u, Sequential(a), Sequential(b), Sequential(u)
    PROVE  /\ Sequential(a \o b) /\ (a \o b) \o u = a \o (b \o u)
           /\ << >> \o a = a /\ a \o << >> = a
<1>1. PICK S : a \in Seq(S) /\ b \in Seq(S) /\ u \in Seq(S)
  BY SequentialWithin
<1>2. a \o b \in Seq(S)
  BY <1>1, ConcatProperties
<1>3. (a \o b) \o u = a \o (b \o u)
  <2>1. Together(S, a, b, u)
    BY <1>1, Associative, Zenon
  <2> QED
    BY <2>1, Zenon DEF Together
<1>4. << >> \o a = a /\ a \o << >> = a
  BY <1>1, ConcatEmptySeq
<1> QED
  BY <1>2, <1>3, <1>4 DEF Sequential

\* An element makes a sequence, and so does none.
LEMMA OneSequential ==
    ASSUME NEW x
    PROVE  Sequential(<<x>>) /\ Sequential(<< >>)
<1>1. <<x>> \in Seq({x}) /\ << >> \in Seq({x})
  OBVIOUS
<1> QED
  BY <1>1 DEF Sequential

\* An element appended is one put in front of what follows.
LEMMA AppendThen ==
    ASSUME NEW S, NEW a \in Seq(S), NEW x \in S, NEW u \in Seq(S)
    PROVE  /\ Append(a, x) \in Seq(S) /\ <<x>> \o u \in Seq(S)
           /\ Append(a, x) \o u = a \o (<<x>> \o u)
<1>1. <<x>> \in Seq(S)
  OBVIOUS
<1>2. Append(a, x) = a \o <<x>>
  BY AppendIsConcat
<1>3. a \o <<x>> \in Seq(S) /\ <<x>> \o u \in Seq(S)
  BY <1>1, ConcatProperties
<1>4. Together(S, a, <<x>>, u)
  BY <1>1, Associative, Zenon
<1> QED
  BY <1>2, <1>3, <1>4, Zenon DEF Together

\* What is put in front is the head.
LEMMA HeadTail ==
    ASSUME NEW S, NEW y \in S, NEW w \in Seq(S)
    PROVE  Head(<<y>> \o w) = y /\ Tail(<<y>> \o w) = w
<1>1. /\ << >> \in Seq(S) /\ <<y>> \o w \in Seq(S)
      /\ << >> \o (<<y>> \o w) = <<y>> \o w /\ Len(<< >>) = 0
  <2>1. <<y>> \in Seq(S)
    OBVIOUS
  <2>2. <<y>> \o w \in Seq(S)
    BY <2>1, ConcatProperties
  <2> QED
    BY <2>2, ConcatEmptySeq
<1>2. IsAround(S, << >>, y, w, << >> \o (<<y>> \o w))
  BY <1>1, Around, Zenon
<1> DEFINE s == <<y>> \o w
<1>3. IsAround(S, << >>, y, w, s)
  BY <1>1, <1>2
<1>4. s \in Seq(S) /\ s # << >> /\ s[1] = y /\ SubSeq(s, 2, Len(s)) = w
  <2> HIDE DEF s
  <2> QED
    BY <1>1, <1>3 DEF IsAround
<1> HIDE DEF s
<1>5. Head(s) = y /\ Tail(s) = w
  BY <1>4, TailIsSubSeq
<1> QED
  BY <1>5 DEF s

\* Where a sequence is cut that begins with an element.
IsCut(S, x, u, a, v) == Tail(a) \in Seq(S) /\ a = <<x>> \o Tail(a) /\ u = Tail(a) \o v

\* The first of the elements is the first of what is before the cut.
LEMMA Cuts ==
    ASSUME NEW S, NEW x \in S, NEW u \in Seq(S), NEW a \in Seq(S), NEW v \in Seq(S),
           a # << >>, <<x>> \o u = a \o v
    PROVE  IsCut(S, x, u, a, v)
<1>1. Head(a) \in S /\ Tail(a) \in Seq(S)
  BY HeadTailProperties
<1>2. a = <<Head(a)>> \o Tail(a)
  <2>1. Len(a) \in Nat \ {0} /\ Head(a) = a[1]
    BY EmptySeq
  <2>2. SubSeq(a, 1, Len(a)) = <<a[1]>> \o SubSeq(a, 1 + 1, Len(a))
    <3>1. 1 \in 1..Len(a) /\ Len(a) \in 1..Len(a)
      BY <2>1
    <3> QED
      BY <3>1, SubSeqRecursiveFirst
  <2>3. SubSeq(a, 1, Len(a)) = a /\ SubSeq(a, 1 + 1, Len(a)) = Tail(a)
    BY SubSeqFull, TailIsSubSeq
  <2> QED
    BY <2>1, <2>2, <2>3
<1> DEFINE h == Head(a)
           t == Tail(a)
<1>4. h \in S /\ t \in Seq(S) /\ a = <<h>> \o t
  BY <1>1, <1>2
<1> HIDE DEF h, t
<1>5. a \o v = <<h>> \o (t \o v) /\ t \o v \in Seq(S)
  <2>1. <<h>> \in Seq(S)
    BY <1>4
  <2>2. t \o v \in Seq(S)
    BY <1>4, ConcatProperties
  <2>3. ASSUME NEW b \in Seq(S)
        PROVE  Together(S, b, t, v)
    BY <1>4, Associative, Zenon
  <2> QED
    BY <1>4, <2>1, <2>2, <2>3, Zenon DEF Together
<1>6. <<x>> \o u = <<h>> \o (t \o v)
  BY <1>5
<1>7. x = h
  <2>1. Head(<<x>> \o u) = x
    BY HeadTail
  <2>2. Head(<<h>> \o (t \o v)) = h
    BY <1>4, <1>5, HeadTail
  <2> QED
    BY <1>6, <2>1, <2>2, Zenon
<1>8. u = t \o v
  <2>1. Tail(<<x>> \o u) = u
    BY HeadTail
  <2>2. Tail(<<h>> \o (t \o v)) = t \o v
    BY <1>4, <1>5, HeadTail
  <2> QED
    BY <1>6, <2>1, <2>2, Zenon
<1> QED
  BY <1>4, <1>7, <1>8 DEF h, t, IsCut

\* The first element and the rest are determined.
LEMMA HeadsEqual ==
    ASSUME NEW S, NEW x \in S, NEW u \in Seq(S), NEW y \in S, NEW v \in Seq(S),
           <<x>> \o u = <<y>> \o v
    PROVE  x = y /\ u = v
<1>1. Head(<<x>> \o u) = x /\ Tail(<<x>> \o u) = u
  BY HeadTail
<1>2. Head(<<y>> \o v) = y /\ Tail(<<y>> \o v) = v
  BY HeadTail
<1> QED
  BY <1>1, <1>2, Zenon

----------------------------------------------------------------------------
(* What is read of some tokens, whatever follows them.                     *)

\* Configurations are sequences.
LEMMA ReadingsSequential ==
    ASSUME NEW ts \in Seq(AllTokens), NEW r \in Readings[ts]
    PROVE  Sequential(r)
<1> DEFINE G == {n \in Nat : \A us \in Seq(AllTokens) : Len(us) < n =>
                    \A q \in Readings[us] : Sequential(q)}
<1>1. 0 \in G
  <2>1. \A us \in Seq(AllTokens) : ~(Len(us) < 0)
    OBVIOUS
  <2> QED
    BY <2>1
<1>2. ASSUME NEW n \in Nat, n \in G
      PROVE  n + 1 \in G
  <2>1. \A us \in Seq(AllTokens) : Len(us) < n => \A q \in Readings[us] : Sequential(q)
    BY <1>2
  <2> HIDE DEF G
  <2>2. ASSUME NEW us \in Seq(AllTokens), Len(us) < n + 1, NEW q \in Readings[us]
        PROVE  Sequential(q)
    <3>1. q \in ReadingsBy(Readings, us)
      BY ReadingsRecursion
    <3>2. CASE us = << >>
      BY <3>1, <3>2, OneSequential DEF ReadingsBy
    <3>3. CASE us # << >>
      <4>1. EndOf(us) \in 1..(Len(us) + 1) /\ Len(us) \in Nat
        BY EndOfIs
      <4>2. ASSUME NEW k \in Nat, 1 < k, NEW rest \in Readings[SubSeq(us, k, Len(us))], NEW x
            PROVE  Sequential(<<x>> \o rest)
        <5>1. SubSeq(us, k, Len(us)) \in Seq(AllTokens) /\ Len(SubSeq(us, k, Len(us))) < Len(us)
          BY <3>3, <4>1, <4>2, RestOf
        <5>2. Len(SubSeq(us, k, Len(us))) < n
          BY <2>2, <4>1, <5>1
        <5>3. Sequential(rest)
          BY <2>1, <4>2, <5>1, <5>2
        <5> QED
          BY <5>3, OneSequential, ConcatAny
      <4>3. CASE q \in SemicolonBy(Readings, us)
        <5>1. PICK rest, x : /\ rest \in Readings[SubSeq(us, EndOf(us) + 1, Len(us))]
                                 /\ q = <<x>> \o rest
          BY <4>3 DEF SemicolonBy
        <5> QED
          BY <4>1, <4>2, <5>1
      <4>4. ASSUME NEW m \in ClosersOf(us), q \in BlockBy(Readings, us, m)
            PROVE  Sequential(q)
        <5>1. m \in (EndOf(us) + 1)..Len(us)
          BY Zenon DEF ClosersOf
        <5> DEFINE A == Readings[SubSeq(us, EndOf(us) + 1, m - 1)]
                   B == Readings[SubSeq(us, m + 1, Len(us))]
        <5>4. q \in BlockBy(Readings, us, m)
                <=> \E inside \in A, rest \in B :
                       q = <<Statement(SubSeq(us, 1, EndOf(us) - 1), inside)>> \o rest
          BY DEF BlockBy
        <5> HIDE DEF A
        <5>2. PICK rest, x : rest \in B /\ q = <<x>> \o rest
          BY <4>4, <5>4, Zenon
        <5>3. m + 1 \in Nat /\ 1 < m + 1
          BY <4>1, <5>1
        <5> QED
          BY <4>2, <5>2, <5>3
      <4>5. \/ q \in SemicolonBy(Readings, us)
            \/ \E m \in ClosersOf(us) : q \in BlockBy(Readings, us, m)
        BY <3>1, <3>3, Zenon DEF ReadingsBy
      <4> QED
        BY <4>3, <4>4, <4>5
    <3> QED
      BY <3>2, <3>3
  <2> QED
    BY <2>2 DEF G
<1>3. Nat \subseteq G
  <2> HIDE DEF G
  <2> QED
    BY <1>1, <1>2, EveryNumber
<1>4. Len(ts) + 1 \in G /\ Len(ts) < Len(ts) + 1
  <2> HIDE DEF G
  <2> QED
    BY <1>3
<1> QED
  BY <1>4

\* Read so far are some statements, and words of one that is begun.
TopReads(seg, done, words) ==
    \A u \in Seq(AllTokens) : \A config :
        config \in Readings[seg \o u]
          <=> \E rest \in Readings[WordsOf(words) \o u] : config = done \o rest

\* Read so far are some statements, the words of one, and a part of its block.
BelowReads(seg, inner, done, words) ==
    \A u \in Seq(AllTokens) : \A config :
        config \in Readings[seg \o u] <=> Closed(inner, done, words, u, config)

\* A word is added to those of the statement, ...
LEMMA TopWord ==
    ASSUME NEW seg \in Seq(AllTokens), NEW done, NEW w \in Texted, NEW t \in Seq(Characters),
           TopReads(seg, done, w)
    PROVE  TopReads(Append(seg, Word(t)), done, Append(w, t)) /\ Append(w, t) \in Texted
<1> DEFINE x == Word(t)
<1>1. Append(w, t) \in Texted
  BY DEF Texted
<1>2. x \in AllTokens
  BY DEF Word, AllTokens, TokenKinds
<1>3. WordsOf(Append(w, t)) = Append(WordsOf(w), x)
  <2>1. /\ Len(w) \in Nat /\ DOMAIN w = 1..Len(w) /\ Len(Append(w, t)) = Len(w) + 1
        /\ DOMAIN Append(w, t) = 1..(Len(w) + 1)
        /\ Append(w, t)[Len(w) + 1] = t /\ \A i \in 1..Len(w) : Append(w, t)[i] = w[i]
    BY DEF Texted
  <2>2. WordsOf(w) \in Seq(AllTokens) /\ Len(WordsOf(w)) = Len(w)
        /\ \A i \in 1..Len(w) : WordsOf(w)[i] = Word(w[i])
    BY <2>1, WordsAre DEF WordsOf
  <2>3. WordsOf(Append(w, t)) \in Seq(AllTokens) /\ Len(WordsOf(Append(w, t))) = Len(w) + 1
        /\ \A i \in 1..(Len(w) + 1) : WordsOf(Append(w, t))[i] = Word(Append(w, t)[i])
    BY <1>1, <2>1, WordsAre DEF WordsOf
  <2> DEFINE p == WordsOf(Append(w, t))
             q == Append(WordsOf(w), x)
  <2>4. q \in Seq(AllTokens) /\ Len(q) = Len(w) + 1 /\ q[Len(w) + 1] = x
        /\ \A i \in 1..Len(w) : q[i] = WordsOf(w)[i]
    BY <1>2, <2>2, AppendProperties
  <2>5. ASSUME NEW i \in 1..(Len(w) + 1)
        PROVE  p[i] = q[i]
    <3>1. CASE i = Len(w) + 1
      BY <2>1, <2>3, <2>4, <3>1, Zenon DEF p
    <3>2. CASE i \in 1..Len(w)
      BY <2>1, <2>2, <2>3, <2>4, <3>2, Zenon DEF p
    <3>3. i = Len(w) + 1 \/ i \in 1..Len(w)
      BY <2>1
    <3> QED
      BY <3>1, <3>2, <3>3
  <2> HIDE DEF p, q
  <2>6. p = q
    BY <2>3, <2>4, <2>5, SeqEqual DEF p
  <2> QED
    BY <2>6 DEF p, q
<1>4. ASSUME NEW u \in Seq(AllTokens)
      PROVE  /\ Append(seg, x) \o u = seg \o (<<x>> \o u) /\ <<x>> \o u \in Seq(AllTokens)
             /\ WordsOf(Append(w, t)) \o u = WordsOf(w) \o (<<x>> \o u)
  <2>1. PICK a \in Seq(AllTokens) : a = WordsOf(w)
    BY WordsAre
  <2> HIDE DEF x
  <2>2. Append(seg, x) \o u = seg \o (<<x>> \o u) /\ <<x>> \o u \in Seq(AllTokens)
    BY <1>2, AppendThen
  <2>3. Append(a, x) \o u = a \o (<<x>> \o u)
    BY <1>2, AppendThen
  <2> QED
    BY <1>3, <2>1, <2>2, <2>3, Zenon
<1> HIDE DEF x
<1>5. ASSUME NEW u \in Seq(AllTokens), NEW config
      PROVE  config \in Readings[Append(seg, x) \o u]
               <=> \E rest \in Readings[WordsOf(Append(w, t)) \o u] : config = done \o rest
  <2> DEFINE v == <<x>> \o u
  <2>1. v \in Seq(AllTokens) /\ Append(seg, x) \o u = seg \o v
        /\ WordsOf(Append(w, t)) \o u = WordsOf(w) \o v
    BY <1>4
  <2> HIDE DEF v
  <2>2. config \in Readings[seg \o v]
          <=> \E rest \in Readings[WordsOf(w) \o v] : config = done \o rest
    BY <2>1, Zenon DEF TopReads
  <2> QED
    BY <2>1, <2>2, Zenon
<1>6. TopReads(Append(seg, x), done, Append(w, t))
  BY <1>5, Zenon DEF TopReads
<1> QED
  BY <1>1, <1>6 DEF x

\* ... a semicolon ends it, ...
LEMMA TopSemicolon ==
    ASSUME NEW seg \in Seq(AllTokens), NEW done, Sequential(done), NEW w \in Texted, w # << >>,
           NEW x \in AllTokens, IsSemicolon(x), TopReads(seg, done, w)
    PROVE  TopReads(Append(seg, x), done \o <<[tokens |-> w, child_block |-> NoBlock]>>, << >>)
<1> DEFINE s == <<[tokens |-> w, child_block |-> NoBlock]>>
<1>1. Sequential(s)
  BY OneSequential
<1> SUFFICES ASSUME NEW u \in Seq(AllTokens), NEW config
             PROVE  config \in Readings[Append(seg, x) \o u]
                      <=> \E rest \in Readings[WordsOf(<< >>) \o u] : config = (done \o s) \o rest
  BY Zenon DEF TopReads
<1>2. WordsOf(<< >>) \o u = u
  <2>1. << >> \in Texted /\ Len(<< >>) = 0
    BY DEF Texted
  <2>2. WordsOf(<< >>) = << >>
    BY <2>1, WordsAre, EmptySeq
  <2> QED
    BY <2>2, ConcatEmptySeq
<1> DEFINE v == <<x>> \o u
<1>3. v \in Seq(AllTokens) /\ Append(seg, x) \o u = seg \o v
  BY AppendThen
<1>4. Readings[WordsOf(w) \o v] = {s \o rest : rest \in Readings[u]}
  BY ReadsSemicolon, Zenon
<1> HIDE DEF v, s
<1>5. config \in Readings[seg \o v]
        <=> \E rest \in Readings[WordsOf(w) \o v] : config = done \o rest
  BY <1>3, Zenon DEF TopReads
<1>6. \A rest \in Readings[u] : (done \o s) \o rest = done \o (s \o rest)
  BY <1>1, ReadingsSequential, ConcatAny
<1>7. (\E rest \in Readings[WordsOf(w) \o v] : config = done \o rest)
        <=> \E rest \in Readings[u] : config = done \o (s \o rest)
  BY <1>4
<1> QED
  BY <1>2, <1>3, <1>5, <1>6, <1>7

\* Nothing has been read yet.
LEMMA TopNothing == TopReads(<< >>, << >>, << >>)
<1> SUFFICES ASSUME NEW u \in Seq(AllTokens), NEW config
             PROVE  config \in Readings[<< >> \o u]
                      <=> \E rest \in Readings[WordsOf(<< >>) \o u] : config = << >> \o rest
  BY Zenon DEF TopReads
<1>1. WordsOf(<< >>) = << >>
  <2>1. << >> \in Texted /\ Len(<< >>) = 0
    BY DEF Texted
  <2> QED
    BY <2>1, WordsAre, EmptySeq
<1>2. << >> \o u = u
  BY ConcatEmptySeq
<1>3. \A rest \in Readings[u] : << >> \o rest = rest
  BY ReadingsSequential, ConcatAny
<1> QED
  BY <1>1, <1>2, <1>3

\* ... and a brace opens its block.
LEMMA TopOpening ==
    ASSUME NEW seg \in Seq(AllTokens), NEW done, NEW w \in Texted, w # << >>,
           NEW x \in AllTokens, IsOpening(x), TopReads(seg, done, w)
    PROVE  BelowReads(Append(seg, x), << >>, done, w)
<1> SUFFICES ASSUME NEW u \in Seq(AllTokens), NEW config
             PROVE  config \in Readings[Append(seg, x) \o u] <=> Closed(<< >>, done, w, u, config)
  BY Zenon DEF BelowReads
<1> DEFINE v == <<x>> \o u
           Cut(u1, y, u2) == IsClosing(y) /\ u = u1 \o (<<y>> \o u2)
           One(inside) == <<[tokens |-> w, child_block |-> inside]>>
<1>1. v \in Seq(AllTokens) /\ Append(seg, x) \o u = seg \o v
  BY AppendThen
<1>2. ASSUME NEW rest
      PROVE  rest \in Readings[WordsOf(w) \o v]
             <=> \E u1 \in Seq(AllTokens), y \in AllTokens, u2 \in Seq(AllTokens) :
                    /\ Cut(u1, y, u2)
                    /\ \E inside \in Readings[u1], r \in Readings[u2] : rest = One(inside) \o r
  <2>1. rest \in Readings[WordsOf(w) \o v] <=> InBraces(w, u, rest)
    BY ReadsBlock, Zenon
  <2> QED
    BY <2>1, Zenon DEF InBraces
<1> HIDE DEF v
<1>3. config \in Readings[seg \o v]
        <=> \E rest \in Readings[WordsOf(w) \o v] : config = done \o rest
  BY <1>1, Zenon DEF TopReads
<1>4. \A u1 \in Seq(AllTokens) : << >> \o u1 = u1
  BY ConcatEmptySeq
<1>5. Closed(<< >>, done, w, u, config)
        <=> \E u1 \in Seq(AllTokens), y \in AllTokens, u2 \in Seq(AllTokens) :
               /\ Cut(u1, y, u2)
               /\ \E inside \in Readings[u1], r \in Readings[u2] :
                     config = done \o (One(inside) \o r)
  BY <1>4 DEF Closed
<1> HIDE DEF Cut, One
<1>6. ASSUME config \in Readings[seg \o v]
      PROVE  Closed(<< >>, done, w, u, config)
  <2>1. PICK rest \in Readings[WordsOf(w) \o v] : config = done \o rest
    BY <1>3, <1>6, Zenon
  <2>2. PICK u1 \in Seq(AllTokens), y \in AllTokens, u2 \in Seq(AllTokens) :
           /\ Cut(u1, y, u2)
           /\ \E inside \in Readings[u1], r \in Readings[u2] : rest = One(inside) \o r
    BY <1>2, Zenon
  <2> QED
    BY <1>5, <2>1, <2>2, Zenon
<1>7. ASSUME Closed(<< >>, done, w, u, config)
      PROVE  config \in Readings[seg \o v]
  <2>1. PICK u1 \in Seq(AllTokens), y \in AllTokens, u2 \in Seq(AllTokens) :
           /\ Cut(u1, y, u2)
           /\ \E inside \in Readings[u1], r \in Readings[u2] :
                 config = done \o (One(inside) \o r)
    BY <1>5, <1>7, Zenon
  <2>2. PICK inside \in Readings[u1], r \in Readings[u2] : config = done \o (One(inside) \o r)
    BY <2>1
  <2>3. One(inside) \o r \in Readings[WordsOf(w) \o v]
    BY <1>2, <2>1, <2>2, Zenon
  <2> QED
    BY <1>3, <2>2, <2>3, Zenon
<1> QED
  BY <1>1, <1>6, <1>7, Zenon

\* Where a block may be closed: now, by the first of the tokens, or later.
LEMMA ClosedNow ==
    ASSUME NEW inner \in Seq(AllTokens), NEW done, NEW w, NEW x \in AllTokens,
           NEW u \in Seq(AllTokens), NEW config
    PROVE  Closed(inner, done, w, <<x>> \o u, config)
             <=> \/ /\ IsClosing(x)
                    /\ \E inside \in Readings[inner], rest \in Readings[u] :
                          config = done \o (<<[tokens |-> w, child_block |-> inside]>> \o rest)
                 \/ Closed(Append(inner, x), done, w, u, config)
<1> DEFINE Read(a, u2) ==
               \E inside \in Readings[a], rest \in Readings[u2] :
                   config = done \o (<<[tokens |-> w, child_block |-> inside]>> \o rest)
           v == <<x>> \o u
<1>1. /\ Closed(inner, done, w, v, config)
           <=> \E u1 \in Seq(AllTokens), y \in AllTokens, u2 \in Seq(AllTokens) :
                  IsClosing(y) /\ v = u1 \o (<<y>> \o u2) /\ Read(inner \o u1, u2)
      /\ Closed(Append(inner, x), done, w, u, config)
           <=> \E u1 \in Seq(AllTokens), y \in AllTokens, u2 \in Seq(AllTokens) :
                  IsClosing(y) /\ u = u1 \o (<<y>> \o u2) /\ Read(Append(inner, x) \o u1, u2)
  BY Zenon DEF Closed
<1> HIDE DEF Read
<1>2. inner \o << >> = inner /\ << >> \in Seq(AllTokens)
  BY ConcatEmptySeq
<1>3. ASSUME NEW u1 \in Seq(AllTokens)
      PROVE  Append(inner, x) \o u1 = inner \o (<<x>> \o u1) /\ <<x>> \o u1 \in Seq(AllTokens)
  BY AppendThen
<1>4. ASSUME NEW y \in AllTokens, NEW u2 \in Seq(AllTokens)
      PROVE  <<y>> \o u2 \in Seq(AllTokens) /\ << >> \o (<<y>> \o u2) = <<y>> \o u2
  <2>1. <<y>> \o u2 \in Seq(AllTokens)
    BY AppendThen
  <2> QED
    BY <2>1, ConcatEmptySeq
<1>5. ASSUME NEW u1 \in Seq(AllTokens), NEW y \in AllTokens, NEW u2 \in Seq(AllTokens),
             IsClosing(y), v = u1 \o (<<y>> \o u2), Read(inner \o u1, u2)
      PROVE  \/ IsClosing(x) /\ Read(inner, u)
             \/ Closed(Append(inner, x), done, w, u, config)
  <2>1. CASE u1 = << >>
    <3>1. <<x>> \o u = <<y>> \o u2
      BY <1>4, <1>5, <2>1
    <3>2. x = y /\ u = u2
      BY <3>1, HeadsEqual
    <3> QED
      BY <1>2, <1>5, <2>1, <3>2
  <2>2. CASE u1 # << >>
    <3> DEFINE t == Tail(u1)
               z == <<y>> \o u2
    <3>1. z \in Seq(AllTokens) /\ <<x>> \o u = u1 \o z
      BY <1>4, <1>5
    <3> HIDE DEF z
    <3>2. t \in Seq(AllTokens) /\ u1 = <<x>> \o t /\ u = t \o z
      <4>1. ASSUME NEW a \in Seq(AllTokens), a # << >>, <<x>> \o u = a \o z
          PROVE  IsCut(AllTokens, x, u, a, z)
      BY <3>1, <4>1, Cuts
    <4>2. IsCut(AllTokens, x, u, u1, z)
      BY <2>2, <3>1, <4>1, Zenon
    <4> QED
      BY <4>2 DEF IsCut
    <3> HIDE DEF t
    <3>3. Read(Append(inner, x) \o t, u2)
      BY <1>3, <1>5, <3>2
    <3>4. u = t \o (<<y>> \o u2)
      BY <3>2 DEF z
    <3> QED
      BY <1>1, <1>5, <3>2, <3>3, <3>4, Zenon
  <2> QED
    BY <2>1, <2>2
<1>6. ASSUME IsClosing(x), Read(inner, u)
      PROVE  Closed(inner, done, w, v, config)
  <2>1. v = << >> \o (<<x>> \o u)
    BY <1>4
  <2> HIDE DEF v
  <2> QED
    BY <1>1, <1>2, <1>6, <2>1, Zenon
<1>7. ASSUME Closed(Append(inner, x), done, w, u, config)
      PROVE  Closed(inner, done, w, v, config)
  <2>1. PICK t \in Seq(AllTokens), y \in AllTokens, u2 \in Seq(AllTokens) :
             IsClosing(y) /\ u = t \o (<<y>> \o u2) /\ Read(Append(inner, x) \o t, u2)
    BY <1>1, <1>7, Zenon
  <2> DEFINE u1 == <<x>> \o t
             z == <<y>> \o u2
  <2>2. u1 \in Seq(AllTokens) /\ Read(inner \o u1, u2)
    BY <1>3, <2>1
  <2>3. z \in Seq(AllTokens) /\ u = t \o z
    BY <1>4, <2>1
  <2> HIDE DEF z
  <2>4. <<x>> \o u = u1 \o z
    <3>1. <<x>> \in Seq(AllTokens)
      OBVIOUS
    <3>2. ASSUME NEW b \in Seq(AllTokens)
          PROVE  Together(AllTokens, b, t, z)
      BY <2>1, <2>3, Associative, Zenon
    <3> QED
      BY <2>3, <3>1, <3>2, Zenon DEF Together
  <2>5. v = u1 \o (<<y>> \o u2)
    BY <2>4 DEF z
  <2> HIDE DEF u1, v
  <2> QED
    BY <1>1, <2>1, <2>2, <2>5, Zenon
<1>8. Closed(inner, done, w, v, config)
        <=> (IsClosing(x) /\ Read(inner, u)) \/ Closed(Append(inner, x), done, w, u, config)
  BY <1>1, <1>5, <1>6, <1>7, Zenon
<1> QED
  BY <1>8 DEF Read

\* Without a token nothing is closed.
LEMMA ClosedNever ==
    ASSUME NEW inner, NEW done, NEW w, NEW config
    PROVE  ~Closed(inner, done, w, << >>, config)
<1> SUFFICES ASSUME NEW u1 \in Seq(AllTokens), NEW y \in AllTokens, NEW u2 \in Seq(AllTokens),
                    << >> = u1 \o (<<y>> \o u2)
             PROVE  FALSE
  BY Zenon DEF Closed
<1>1. IsAround(AllTokens, u1, y, u2, u1 \o (<<y>> \o u2))
  BY Around, Zenon
<1> QED
  BY <1>1 DEF IsAround

\* What the block of a lower level is to be, once there is one token more.
LEMMA BelowNext ==
    ASSUME NEW seg \in Seq(AllTokens), NEW inner \in Seq(AllTokens), NEW done, NEW w,
           BelowReads(seg, inner, done, w), NEW x \in AllTokens, NEW u \in Seq(AllTokens),
           NEW config
    PROVE  config \in Readings[Append(seg, x) \o u]
             <=> \/ /\ IsClosing(x)
                    /\ \E inside \in Readings[inner], rest \in Readings[u] :
                          config = done \o (<<[tokens |-> w, child_block |-> inside]>> \o rest)
                 \/ Closed(Append(inner, x), done, w, u, config)
<1> DEFINE v == <<x>> \o u
<1>1. v \in Seq(AllTokens) /\ Append(seg, x) \o u = seg \o v
  BY AppendThen
<1>2. Closed(inner, done, w, v, config)
        <=> \/ /\ IsClosing(x)
               /\ \E inside \in Readings[inner], rest \in Readings[u] :
                     config = done \o (<<[tokens |-> w, child_block |-> inside]>> \o rest)
            \/ Closed(Append(inner, x), done, w, u, config)
  BY ClosedNow, Zenon
<1> HIDE DEF v
<1>3. config \in Readings[seg \o v] <=> Closed(inner, done, w, v, config)
  BY <1>1, Zenon DEF BelowReads
<1> QED
  BY <1>1, <1>2, <1>3, Zenon

\* A token that does not close the block belongs to it, ...
LEMMA BelowKept ==
    ASSUME NEW seg \in Seq(AllTokens), NEW inner \in Seq(AllTokens), NEW done, NEW w,
           BelowReads(seg, inner, done, w), NEW x \in AllTokens,
           IsClosing(x) => Readings[inner] = {}
    PROVE  BelowReads(Append(seg, x), Append(inner, x), done, w)
<1> SUFFICES ASSUME NEW u \in Seq(AllTokens), NEW config
             PROVE  config \in Readings[Append(seg, x) \o u]
                      <=> Closed(Append(inner, x), done, w, u, config)
  BY Zenon DEF BelowReads
<1> QED
  BY BelowNext

\* ... as all do if a block in it is open, or a statement in the middle.
LEMMA BelowOpen ==
    ASSUME NEW seg \in Seq(AllTokens), NEW inner, NEW done, NEW w,
           BelowReads(seg, inner, done, w)
    PROVE  Readings[seg] = {}
<1>1. seg \o << >> = seg /\ << >> \in Seq(AllTokens)
  BY ConcatEmptySeq
<1>2. ASSUME NEW config \in Readings[seg]
      PROVE  FALSE
  <2>1. config \in Readings[seg \o << >>] <=> Closed(inner, done, w, << >>, config)
    BY <1>1, Zenon DEF BelowReads
  <2> QED
    BY <1>1, <2>1, ClosedNever
<1> QED
  BY <1>2

\* Without another token only whole statements are a configuration.
LEMMA TopAlone ==
    ASSUME NEW seg \in Seq(AllTokens), NEW done, Sequential(done), NEW w \in Texted,
           TopReads(seg, done, w)
    PROVE  Readings[seg] = IF w = << >> THEN {done} ELSE {}
<1>1. seg \o << >> = seg /\ << >> \in Seq(AllTokens)
  BY ConcatEmptySeq
<1>2. WordsOf(w) \o << >> = WordsOf(w) /\ Len(WordsOf(w)) = Len(w)
  BY WordsAre, ConcatEmptySeq
<1>3. \A config : config \in Readings[seg]
                   <=> \E rest \in Readings[WordsOf(w)] : config = done \o rest
  <2>1. ASSUME NEW config
        PROVE  config \in Readings[seg \o << >>]
                 <=> \E rest \in Readings[WordsOf(w) \o << >>] : config = done \o rest
    BY <1>1, Zenon DEF TopReads
  <2> QED
    BY <1>1, <1>2, <2>1
<1>4. CASE w = << >>
  <2>1. WordsOf(w) = << >>
    BY <1>2, <1>4, WordsAre, EmptySeq
  <2>2. Readings[WordsOf(w)] = {<< >>} /\ done \o << >> = done
    BY <2>1, ReadsNothing, ConcatAny
  <2> QED
    BY <1>3, <1>4, <2>2
<1>5. CASE w # << >>
  BY <1>3, <1>5, ReadsWords
<1> QED
  BY <1>4, <1>5

\* A block is closed, and with it the statement it belongs to.
LEMMA BlockClosed ==
    ASSUME NEW seg \in Seq(AllTokens), NEW inner \in Seq(AllTokens),
           NEW done, Sequential(done), NEW w \in Texted, NEW inside, Sequential(inside),
           BelowReads(seg, inner, done, w), TopReads(inner, inside, << >>),
           NEW x \in AllTokens, IsClosing(x)
    PROVE  TopReads(Append(seg, x), done \o <<[tokens |-> w, child_block |-> inside]>>, << >>)
<1> DEFINE s == <<[tokens |-> w, child_block |-> inside]>>
<1>1. Sequential(s)
  BY OneSequential
<1> SUFFICES ASSUME NEW u \in Seq(AllTokens), NEW config
             PROVE  config \in Readings[Append(seg, x) \o u]
                      <=> \E rest \in Readings[WordsOf(<< >>) \o u] : config = (done \o s) \o rest
  BY Zenon DEF TopReads
<1>2. /\ << >> \in Texted /\ WordsOf(<< >>) = << >>
      /\ \A v \in Seq(AllTokens) : WordsOf(<< >>) \o v = v
  <2>1. << >> \in Texted /\ Len(<< >>) = 0
    BY DEF Texted
  <2>2. WordsOf(<< >>) = << >>
    BY <2>1, WordsAre, EmptySeq
  <2> QED
    BY <2>1, <2>2, ConcatEmptySeq
<1>3. Readings[inner] = {inside}
  BY <1>2, TopAlone
<1>4. ~Closed(Append(inner, x), done, w, u, config)
  <2> SUFFICES ASSUME NEW u1 \in Seq(AllTokens)
               PROVE  Readings[Append(inner, x) \o u1] = {}
    BY Zenon DEF Closed
  <2> DEFINE v == <<x>> \o u1
  <2>1. Append(inner, x) \o u1 = inner \o v /\ v \in Seq(AllTokens)
    BY AppendThen
  <2>2. Readings[v] = {}
    <3>1. x.type # "word"
      BY KindsDiffer
    <3> QED
      BY <3>1, ReadsNoWord
  <2> HIDE DEF v
  <2>3. ASSUME NEW r
        PROVE  r \in Readings[inner \o v]
                 <=> \E rest \in Readings[WordsOf(<< >>) \o v] : r = inside \o rest
    BY <2>1, Zenon DEF TopReads
  <2>4. WordsOf(<< >>) \o v = v
    BY <1>2, <2>1
  <2> QED
    BY <2>1, <2>2, <2>3, <2>4
<1>5. config \in Readings[Append(seg, x) \o u]
        <=> \/ \E b \in Readings[inner], rest \in Readings[u] :
                  config = done \o (<<[tokens |-> w, child_block |-> b]>> \o rest)
            \/ Closed(Append(inner, x), done, w, u, config)
  BY BelowNext
<1>6. config \in Readings[Append(seg, x) \o u]
        <=> \E rest \in Readings[u] : config = done \o (s \o rest)
  BY <1>3, <1>4, <1>5
<1> HIDE DEF s
<1>7. \A rest \in Readings[u] : (done \o s) \o rest = done \o (s \o rest)
  BY <1>1, ReadingsSequential, ConcatAny
<1> QED
  BY <1>2, <1>6, <1>7

\* A token after which nothing can be read, ...
Dead(seg, x) == \A u \in Seq(AllTokens) : Readings[Append(seg, x) \o u] = {}

\* ... in the block that is read, ...
LEMMA TopDead ==
    ASSUME NEW seg \in Seq(AllTokens), NEW done, NEW w \in Texted, TopReads(seg, done, w),
           NEW x \in AllTokens, x.type # "word",
           w # << >> => ~IsSemicolon(x) /\ ~IsOpening(x)
    PROVE  Dead(seg, x)
<1> SUFFICES ASSUME NEW u \in Seq(AllTokens)
             PROVE  Readings[Append(seg, x) \o u] = {}
  BY Zenon DEF Dead
<1> DEFINE v == <<x>> \o u
<1>1. Append(seg, x) \o u = seg \o v /\ v \in Seq(AllTokens)
  BY AppendThen
<1>2. Readings[WordsOf(w) \o v] = {}
  <2>1. CASE w = << >>
    <3>1. WordsOf(w) = << >>
      BY <2>1, WordsAre, EmptySeq DEF Texted
    <3>2. WordsOf(w) \o v = v
      BY <1>1, <3>1, ConcatEmptySeq
    <3> QED
      BY <3>2, ReadsNoWord
  <2>2. CASE w # << >>
    BY <2>2, ReadsNothingElse
  <2> QED
    BY <2>1, <2>2
<1> HIDE DEF v
<1>3. \A r : r \in Readings[seg \o v] <=> \E rest \in Readings[WordsOf(w) \o v] : r = done \o rest
  BY <1>1 DEF TopReads
<1> QED
  BY <1>1, <1>2, <1>3

\* ... and so in those that it is in.
LEMMA BelowDead ==
    ASSUME NEW seg \in Seq(AllTokens), NEW inner \in Seq(AllTokens), NEW done, NEW w,
           BelowReads(seg, inner, done, w), NEW x \in AllTokens, Dead(inner, x),
           IsClosing(x) => Readings[inner] = {}
    PROVE  Dead(seg, x)
<1> SUFFICES ASSUME NEW u \in Seq(AllTokens), NEW config \in Readings[Append(seg, x) \o u]
             PROVE  FALSE
  BY DEF Dead
<1>1. Closed(Append(inner, x), done, w, u, config)
  BY BelowNext
<1>2. PICK u1 \in Seq(AllTokens) : Readings[Append(inner, x) \o u1] # {}
  BY <1>1 DEF Closed
<1> QED
  BY <1>2, Zenon DEF Dead

----------------------------------------------------------------------------
(* The first token of a text.                                              *)

Upto(t, tokens, end) == [tokens |-> tokens, rest |-> SubSeq(t, end, Len(t))]

Punctual == {"{", "}", ";"}
Quotes == {"'", "\""}

\* Where a quote that t begins with may end.
Closing(t) == {i \in 2..Len(t) : t[i] = t[1] /\ (i - 1) \notin Escapes(t)}

Close(t) == CHOOSE i \in Closing(t) : \A j \in Closing(t) : i <= j

\* What a text begins with.
LEMMA FirstBlank ==
    ASSUME NEW t, t[1] \in Blanks
    PROVE  FirstToken(t) = Upto(t, << >>, 2)
BY Zenon DEF FirstToken, Upto, Blanks

\* Punctuation is a token, ...
LEMMA FirstPunctuation ==
    ASSUME NEW t, t[1] \in Punctual
    PROVE  FirstToken(t) = Upto(t, <<Punctuation(t[1])>>, 2)
BY Zenon DEF FirstToken, Upto, Blanks, Punctual

\* ... a comment is none, ...
LEMMA FirstComment ==
    ASSUME NEW t, t[1] = "#"
    PROVE  FirstToken(t) = Upto(t, << >>, FirstOf(t, 2, {"\n", "\r"}) + 1)
BY Zenon DEF FirstToken, Upto, Blanks, Punctual

\* ... a quote is a word if it ends as it should, ...
LEMMA FirstQuoted ==
    ASSUME NEW t, t[1] \in Quotes
    PROVE  FirstToken(t) =
             IF Closing(t) = {}
             THEN Upto(t, IF Len(t) \in Escapes(t) THEN << >> ELSE <<Error>>, Len(t) + 1)
             ELSE IF Close(t) < Len(t) /\ t[Close(t) + 1] \in Ends
             THEN Upto(t, <<Word(Unescaped(SubSeq(t, 1, Close(t))))>>, Close(t) + 1)
             ELSE Upto(t, <<Error>>, Len(t) + 1)
BY Zenon DEF FirstToken, Upto, Blanks, Punctual, Quotes, Closing, Close

\* ... and anything else is a word if something ends it.
LEMMA FirstWord ==
    ASSUME NEW t, t[1] \notin Special
    PROVE  LET end == FirstOf(t, 2, Ends)
           IN  FirstToken(t) =
                 Upto(t, IF end > Len(t) THEN << >> ELSE <<Word(SubSeq(t, 1, end - 1))>>, end)
BY Zenon DEF FirstToken, Upto, Blanks, Punctual, Special

----------------------------------------------------------------------------
(* What is escaped.                                                        *)

\* Escapes, with any character for the backslash.
RunTo(t, b, k, i) == (k = 0 \/ t[k] # b) /\ \A j \in (k + 1)..i : t[j] = b

EscapesBy(t, b) == {i \in DOMAIN t : \E k \in 0..(i - 1) : RunTo(t, b, k, i) /\ (i - k) % 2 = 1}

\* The character of Escapes is the backslash.
LEMMA EscapesAre ==
    ASSUME NEW t
    PROVE  Escapes(t) = EscapesBy(t, "\\")
BY Zenon DEF Escapes, EscapesBy, RunTo

\* A character escapes if it is a backslash and the one before does not.
LEMMA EscapesNextBy ==
    ASSUME NEW S, NEW t \in Seq(S), NEW b, NEW i \in 0..(Len(t) - 1)
    PROVE  i + 1 \in EscapesBy(t, b) <=> t[i + 1] = b /\ i \notin EscapesBy(t, b)
<1>1. Len(t) \in Nat /\ DOMAIN t = 1..Len(t) /\ i \in Nat /\ i + 1 \in DOMAIN t
  OBVIOUS
<1>2. ASSUME NEW k \in 0..i, RunTo(t, b, k, i + 1), (i + 1 - k) % 2 = 1
      PROVE  t[i + 1] = b /\ i \notin EscapesBy(t, b)
  <2>1. t[i + 1] = b
    BY <1>1, <1>2 DEF RunTo
  <2>2. ASSUME NEW m \in 0..(i - 1), RunTo(t, b, m, i), (i - m) % 2 = 1
        PROVE  FALSE
    <3>1. k = m
      <4>1. ~(k < m)
        <5>1. k < m => m \in (k + 1)..(i + 1) /\ m # 0
          BY <1>1
        <5> QED
          BY <1>2, <2>2, <5>1 DEF RunTo
      <4>2. ~(m < k)
        <5>1. m < k => k \in (m + 1)..i /\ k # 0
          BY <1>1
        <5> QED
          BY <1>2, <2>2, <5>1 DEF RunTo
      <4> QED
        BY <1>1, <4>1, <4>2
    <3> QED
      BY <1>1, <1>2, <2>2, <3>1
  <2> QED
    BY <2>1, <2>2 DEF EscapesBy
<1>3. ASSUME t[i + 1] = b, i \notin EscapesBy(t, b)
      PROVE  \E k \in 0..i : RunTo(t, b, k, i + 1) /\ (i + 1 - k) % 2 = 1
  <2> DEFINE G == {n \in Nat : n <= i => \E k \in 0..n : RunTo(t, b, k, n)}
  <2>1. 0 \in G
    <3>1. RunTo(t, b, 0, 0)
      BY DEF RunTo
    <3> QED
      BY <3>1
  <2>2. ASSUME NEW n \in Nat, n \in G
        PROVE  n + 1 \in G
    <3>1. CASE t[n + 1] = b
      <4>1. ASSUME NEW k \in 0..n, RunTo(t, b, k, n)
            PROVE  k \in 0..(n + 1) /\ RunTo(t, b, k, n + 1)
        <5>1. \A j \in (k + 1)..(n + 1) : j = n + 1 \/ j \in (k + 1)..n
          BY <4>1
        <5> QED
          BY <3>1, <4>1, <5>1 DEF RunTo
      <4> QED
        BY <2>2, <4>1
    <3>2. CASE t[n + 1] # b
      <4>1. RunTo(t, b, n + 1, n + 1)
        BY <3>2 DEF RunTo
      <4> QED
        BY <4>1
    <3> QED
      BY <3>1, <3>2
  <2>3. Nat \subseteq G
    <3> HIDE DEF G
    <3> QED
      BY <2>1, <2>2, EveryNumber
  <2>4. PICK k \in 0..i : RunTo(t, b, k, i)
    BY <1>1, <2>3
  <2>5. RunTo(t, b, k, i + 1)
    <3>1. \A j \in (k + 1)..(i + 1) : j = i + 1 \/ j \in (k + 1)..i
      BY <1>1
    <3> QED
      BY <1>3, <2>4, <3>1 DEF RunTo
  <2>6. (i + 1 - k) % 2 = 1
    <3>1. k = i => (i + 1 - k) % 2 = 1
      BY <1>1
    <3>2. k # i => k \in 0..(i - 1) /\ i \in DOMAIN t
      BY <1>1
    <3>3. k # i => (i - k) % 2 # 1
      BY <1>3, <2>4, <3>2 DEF EscapesBy
    <3>4. i - k \in Nat /\ i + 1 - k = (i - k) + 1
      BY <1>1
    <3>5. \A d \in Nat : d % 2 # 1 => (d + 1) % 2 = 1
      OBVIOUS
    <3> QED
      BY <3>1, <3>3, <3>4, <3>5
  <2> QED
    BY <2>5, <2>6
<1>4. i + 1 \in EscapesBy(t, b) <=> \E k \in 0..i : RunTo(t, b, k, i + 1) /\ (i + 1 - k) % 2 = 1
  <2>1. (i + 1) - 1 = i
    BY <1>1
  <2> QED
    BY <1>1, <2>1 DEF EscapesBy
<1> QED
  BY <1>2, <1>3, <1>4

\* It does not matter what follows.
LEMMA EscapesBeforeBy ==
    ASSUME NEW S, NEW s \in Seq(S), NEW t \in Seq(S), NEW b,
           NEW i \in 1..Len(s), i <= Len(t), \A j \in 1..i : s[j] = t[j]
    PROVE  i \in EscapesBy(s, b) <=> i \in EscapesBy(t, b)
<1>1. i \in Nat /\ i \in DOMAIN s /\ i \in DOMAIN t
  OBVIOUS
<1>2. ASSUME NEW k \in 0..(i - 1)
      PROVE  RunTo(s, b, k, i) <=> RunTo(t, b, k, i)
  <2>1. k = 0 \/ k \in 1..i
    BY <1>1
  <2>2. \A j \in (k + 1)..i : j \in 1..i
    BY <1>1
  <2> QED
    BY <2>1, <2>2 DEF RunTo
<1> QED
  BY <1>1, <1>2 DEF EscapesBy

\* The same of the backslash: what comes next, ...
LEMMA EscapesNext ==
    ASSUME NEW S, NEW t \in Seq(S), NEW i \in 0..(Len(t) - 1)
    PROVE  i + 1 \in Escapes(t) <=> t[i + 1] = "\\" /\ i \notin Escapes(t)
BY EscapesNextBy, EscapesAre, Zenon

\* ... and what came before.
LEMMA EscapesBefore ==
    ASSUME NEW S, NEW s \in Seq(S), NEW t \in Seq(S),
           NEW i \in 1..Len(s), i <= Len(t), \A j \in 1..i : s[j] = t[j]
    PROVE  i \in Escapes(s) <=> i \in Escapes(t)
BY EscapesBeforeBy, EscapesAre, Zenon

----------------------------------------------------------------------------
(* What is left without what escapes.                                      *)

Kept(t) == {i \in DOMAIN t : i \notin Escapes(t)}

Rank(t, i) == Cardinality({j \in Kept(t) : j <= i})

Nth(t, n) == CHOOSE i \in Kept(t) : Rank(t, i) = n

\* Unescaped has them in the order of their ranks.
LEMMA UnescapedIs ==
    ASSUME NEW t
    PROVE  Unescaped(t) = [n \in 1..Cardinality(Kept(t)) |-> t[Nth(t, n)]]
BY Zenon DEF Unescaped, Kept, Nth, Rank

\* There is one of every rank.
Ranked(t) ==
    \A n \in 1..Cardinality(Kept(t)) :
        \E i \in Kept(t) : Rank(t, i) = n /\ \A j \in Kept(t) : Rank(t, j) = n => j = i

\* There are finitely many, and their ranks are numbers.
LEMMA KeptFinite ==
    ASSUME NEW S, NEW t \in Seq(S)
    PROVE  /\ IsFiniteSet(Kept(t)) /\ Cardinality(Kept(t)) \in Nat
           /\ \A i \in Kept(t) : i \in 1..Len(t) /\ Rank(t, i) <= Cardinality(Kept(t))
                                 /\ Rank(t, i) \in Nat
<1>1. Len(t) \in Nat /\ DOMAIN t = 1..Len(t)
  OBVIOUS
<1>2. IsFiniteSet(1..Len(t))
  BY <1>1, FS_Interval
<1>3. Kept(t) \in SUBSET (1..Len(t))
  BY <1>1 DEF Kept
<1>4. IsFiniteSet(Kept(t))
  BY <1>2, <1>3, FS_Subset
<1>5. ASSUME NEW i \in Kept(t)
      PROVE  Rank(t, i) <= Cardinality(Kept(t)) /\ Rank(t, i) \in Nat
  <2> DEFINE below == {j \in Kept(t) : j <= i}
  <2>1. below \in SUBSET Kept(t)
    OBVIOUS
  <2> HIDE DEF below
  <2>2. IsFiniteSet(below) /\ Cardinality(below) <= Cardinality(Kept(t))
    BY <1>4, <2>1, FS_Subset
  <2>3. Cardinality(below) \in Nat
    BY <2>2, FS_CardinalityType
  <2> QED
    BY <2>2, <2>3 DEF Rank, below
<1> QED
  BY <1>3, <1>4, <1>5, FS_CardinalityType

\* What is appended is kept unless it escapes.
EscapesOn(t, x, s) ==
    /\ Len(t) + 1 \in Escapes(s) <=> x = "\\" /\ Len(t) \notin Escapes(t)
    /\ Unescaped(s) = IF Len(t) + 1 \in Escapes(s) THEN Unescaped(t) ELSE Append(Unescaped(t), x)

\* One more character escapes, or it is the last that is left.
LEMMA UnescapedAppend ==
    ASSUME NEW S, NEW t \in Seq(S), NEW x \in S, Ranked(t), Unescaped(t) \in Seq(S)
    PROVE  /\ Ranked(Append(t, x)) /\ Unescaped(Append(t, x)) \in Seq(S)
           /\ EscapesOn(t, x, Append(t, x))
<1> DEFINE s == Append(t, x)
           n == Len(t)
           K == Kept(t)
           L == Kept(s)
<1>1. /\ s \in Seq(S) /\ Len(s) = n + 1 /\ n \in Nat /\ s[n + 1] = x
      /\ \A i \in 1..n : s[i] = t[i]
      /\ DOMAIN t = 1..n /\ DOMAIN s = 1..(n + 1)
  BY AppendProperties
<1> HIDE DEF s, n
<1>2. \A i \in 1..n : i \in Escapes(s) <=> i \in Escapes(t)
  <2> SUFFICES ASSUME NEW i \in 1..n
               PROVE  i \in Escapes(s) <=> i \in Escapes(t)
    OBVIOUS
  <2>1. i \in 1..Len(s) /\ i <= Len(t) /\ \A j \in 1..i : s[j] = t[j]
    BY <1>1 DEF n
  <2> QED
    BY <1>1, <2>1, EscapesBefore
<1>3. n + 1 \in Escapes(s) <=> x = "\\" /\ n \notin Escapes(t)
  <2>1. n \in 0..(Len(s) - 1)
    BY <1>1
  <2>2. n + 1 \in Escapes(s) <=> s[n + 1] = "\\" /\ n \notin Escapes(s)
    BY <1>1, <2>1, EscapesNext
  <2>3. n \in Escapes(s) <=> n \in Escapes(t)
    <3>1. n = 0 => n \notin Escapes(s) /\ n \notin Escapes(t)
      <4>1. 0 \notin DOMAIN s /\ 0 \notin DOMAIN t
        BY <1>1
      <4> QED
        BY <4>1, Zenon DEF Escapes
    <3>2. n # 0 => n \in 1..n
      BY <1>1
    <3> QED
      BY <1>2, <3>1, <3>2
  <2> QED
    BY <1>1, <2>2, <2>3, Zenon
<1>4. /\ IsFiniteSet(K) /\ Cardinality(K) \in Nat
      /\ \A i \in K : i \in 1..n /\ Rank(t, i) <= Cardinality(K) /\ Rank(t, i) \in Nat
  BY KeptFinite DEF n
<1>5. L = IF n + 1 \in Escapes(s) THEN K ELSE K \cup {n + 1}
  <2>1. \A i : i \in 1..(n + 1) <=> i \in 1..n \/ i = n + 1
    BY <1>1
  <2>2. n + 1 \notin 1..n
    BY <1>1
  <2>3. \A i : i \in K <=> i \in 1..n /\ i \notin Escapes(t)
    BY <1>1 DEF Kept
  <2>4. \A i : i \in L <=> i \in 1..(n + 1) /\ i \notin Escapes(s)
    BY <1>1 DEF Kept
  <2> HIDE DEF K, L
  <2>5. \A i : i \in L <=> i \in K \/ (i = n + 1 /\ n + 1 \notin Escapes(s))
    BY <1>2, <2>1, <2>2, <2>3, <2>4
  <2> QED
    BY <2>5
<1>6. \A i \in K : Rank(s, i) = Rank(t, i)
  <2> SUFFICES ASSUME NEW i \in K
               PROVE  {j \in L : j <= i} = {j \in K : j <= i}
    BY DEF Rank
  <2>1. i \in 1..n /\ ~(n + 1 <= i)
    BY <1>1, <1>4
  <2> HIDE DEF K, L
  <2> QED
    BY <1>5, <2>1
<1> HIDE DEF K, L
<1>7. \A m \in 1..Cardinality(K) :
         Nth(t, m) \in K /\ Rank(t, Nth(t, m)) = m /\ \A j \in K : Rank(t, j) = m => j = Nth(t, m)
  BY DEF Ranked, Nth, K
<1>8. Unescaped(t) = [m \in 1..Cardinality(K) |-> t[Nth(t, m)]]
  BY UnescapedIs DEF K
<1>9. Unescaped(s) = [m \in 1..Cardinality(L) |-> s[Nth(s, m)]]
  BY UnescapedIs DEF L
<1>10. CASE n + 1 \in Escapes(s)
  <2>1. L = K
    BY <1>5, <1>10
  <2>2. Ranked(s)
    BY <1>6, <2>1 DEF Ranked, K, L
  <2>3. \A m \in 1..Cardinality(K) :
         Nth(s, m) \in K /\ Rank(s, Nth(s, m)) = m
    BY <2>1, <2>2 DEF Ranked, Nth, L
  <2>4. \A m \in 1..Cardinality(K) : Nth(s, m) = Nth(t, m) /\ s[Nth(s, m)] = t[Nth(t, m)]
    BY <1>1, <1>4, <1>6, <1>7, <2>3
  <2>5. Unescaped(s) = Unescaped(t)
    BY <1>8, <1>9, <2>1, <2>4
  <2> QED
    <3>1. EscapesOn(t, x, s)
      BY <1>3, <1>10, <2>5, Zenon DEF EscapesOn, n
    <3> QED
      BY <2>2, <2>5, <3>1 DEF s
<1>11. CASE n + 1 \notin Escapes(s)
  <2> DEFINE k == Cardinality(K)
  <2>1. L = K \cup {n + 1} /\ n + 1 \notin K
    BY <1>1, <1>4, <1>5, <1>11
  <2>2. Cardinality(L) = k + 1 /\ k \in Nat
    BY <1>4, <2>1, FS_AddElement
  <2>3. Rank(s, n + 1) = k + 1
    <3>1. {j \in L : j <= n + 1} = L
      BY <1>1, <1>4, <2>1
    <3> QED
      BY <2>2, <3>1 DEF Rank, L
  <2>4. \A j \in K : Rank(s, j) = Rank(t, j) /\ Rank(s, j) <= k /\ Rank(s, j) \in Nat
    BY <1>4, <1>6
  <2> HIDE DEF k
  <2>5. ASSUME NEW m \in 1..k
        PROVE  /\ Nth(t, m) \in L /\ Rank(s, Nth(t, m)) = m
               /\ \A j \in L : Rank(s, j) = m => j = Nth(t, m)
    BY <1>7, <2>1, <2>2, <2>3, <2>4, <2>5 DEF k
  <2>6. n + 1 \in L /\ \A j \in L : Rank(s, j) = k + 1 => j = n + 1
    BY <2>1, <2>2, <2>4
  <2>7. Ranked(s)
    <3> SUFFICES ASSUME NEW m \in 1..Cardinality(L)
                 PROVE  \E i \in L : Rank(s, i) = m /\ \A j \in L : Rank(s, j) = m => j = i
      BY DEF Ranked, L
    <3>1. m \in 1..k \/ m = k + 1
      BY <2>2
    <3> QED
      BY <2>3, <2>5, <2>6, <3>1
  <2>8. \A m \in 1..Cardinality(L) : Nth(s, m) \in L /\ Rank(s, Nth(s, m)) = m
    BY <2>7 DEF Ranked, Nth, L
  <2>9. \A m \in 1..k : s[Nth(s, m)] = t[Nth(t, m)]
    <3> SUFFICES ASSUME NEW m \in 1..k
                 PROVE  s[Nth(s, m)] = t[Nth(t, m)]
      OBVIOUS
    <3>1. m \in 1..Cardinality(L)
      BY <2>2
    <3>2. Nth(s, m) = Nth(t, m)
      BY <2>5, <2>8, <3>1
    <3>3. Nth(t, m) \in 1..n
      BY <1>4, <1>7 DEF k
    <3> QED
      BY <1>1, <3>2, <3>3
  <2>10. s[Nth(s, k + 1)] = x
    <3>1. k + 1 \in 1..Cardinality(L)
      BY <2>2
    <3>2. Nth(s, k + 1) = n + 1
      BY <2>6, <2>8, <3>1
    <3> QED
      BY <1>1, <3>2
  <2> DEFINE p == Unescaped(s)
             q == Append(Unescaped(t), x)
  <2>11. Len(Unescaped(t)) = k /\ \A m \in 1..k : Unescaped(t)[m] = t[Nth(t, m)]
    BY <1>8, <2>2 DEF k
  <2>12. q \in Seq(S) /\ Len(q) = k + 1 /\ q[k + 1] = x /\ \A m \in 1..k : q[m] = t[Nth(t, m)]
    BY <2>11, AppendProperties
  <2>13. p = [m \in 1..(k + 1) |-> s[Nth(s, m)]]
    BY <1>9, <2>2
  <2> HIDE DEF q
  <2>14. q = [m \in 1..(k + 1) |-> q[m]]
    BY <2>12
  <2>15. \A m \in 1..(k + 1) : q[m] = s[Nth(s, m)]
    <3>1. \A m \in 1..(k + 1) : m \in 1..k \/ m = k + 1
      BY <2>2
    <3> QED
      BY <2>9, <2>10, <2>12, <3>1
  <2>16. p = q
    BY <2>13, <2>14, <2>15
  <2> QED
    <3>1. EscapesOn(t, x, s)
      BY <1>3, <1>11, <2>16, Zenon DEF EscapesOn, n, q
    <3> QED
      BY <2>7, <2>12, <2>16, <3>1 DEF s
<1> QED
  BY <1>10, <1>11

\* So it is of every text.
LEMMA UnescapedText ==
    ASSUME NEW S, NEW t \in Seq(S)
    PROVE  Ranked(t) /\ Unescaped(t) \in Seq(S)
<1> DEFINE G == {n \in Nat : \A s \in Seq(S) : Len(s) = n => Ranked(s) /\ Unescaped(s) \in Seq(S)}
<1>1. 0 \in G
  <2> SUFFICES ASSUME NEW s \in Seq(S), Len(s) = 0
               PROVE  Ranked(s) /\ Unescaped(s) \in Seq(S)
    OBVIOUS
  <2>1. DOMAIN s = {}
    OBVIOUS
  <2>2. Kept(s) = {}
    BY <2>1 DEF Kept
  <2>3. Cardinality(Kept(s)) = 0
    BY <2>2, FS_EmptySet
  <2>4. Unescaped(s) = << >>
    <3>1. Unescaped(s) = [n \in 1..0 |-> s[Nth(s, n)]]
      BY <2>3, UnescapedIs
    <3>2. 1..0 = {}
      OBVIOUS
    <3> QED
      BY <3>1, <3>2
  <2> QED
    BY <2>3, <2>4 DEF Ranked
<1>2. ASSUME NEW n \in Nat, n \in G
      PROVE  n + 1 \in G
  <2> SUFFICES ASSUME NEW s \in Seq(S), Len(s) = n + 1
               PROVE  Ranked(s) /\ Unescaped(s) \in Seq(S)
    OBVIOUS
  <2> DEFINE r == SubSeq(s, 1, n)
  <2>1. s[n + 1] \in S /\ \A i \in 1..n : s[i] \in S
    OBVIOUS
  <2>2. r \in Seq(S) /\ Len(r) = n
    BY <2>1, SubSeqProperties
  <2>3. s = Append(r, s[n + 1])
    <3>1. SubSeq(s, 1, n + 1) = SubSeq(s, 1, (n + 1) - 1) \o <<s[n + 1]>>
      <4>1. 1 \in 1..Len(s) /\ n + 1 \in 1..Len(s)
        OBVIOUS
      <4> QED
        BY <4>1, SubSeqRecursiveSecond
    <3>2. (n + 1) - 1 = n /\ SubSeq(s, 1, n + 1) = s
      BY SubSeqFull
    <3>3. Append(r, s[n + 1]) = r \o <<s[n + 1]>>
      BY <2>1, <2>2, AppendIsConcat
    <3> QED
      BY <3>1, <3>2, <3>3
  <2>4. Ranked(r) /\ Unescaped(r) \in Seq(S)
    BY <1>2, <2>2
  <2> HIDE DEF r, G
  <2>5. Ranked(Append(r, s[n + 1])) /\ Unescaped(Append(r, s[n + 1])) \in Seq(S)
    BY <2>1, <2>2, <2>4, UnescapedAppend
  <2> QED
    BY <2>3, <2>5
<1>3. Nat \subseteq G
  <2> HIDE DEF G
  <2> QED
    BY <1>1, <1>2, EveryNumber
<1> QED
  BY <1>3

----------------------------------------------------------------------------
(* The tokens of a text.                                                   *)

\* A set of numbers has a smallest.
LEMMA SmallestExists ==
    ASSUME NEW A \in SUBSET Nat, A # {}
    PROVE  \E i \in A : \A j \in A : i <= j
<1> DEFINE less == {p \in Nat \X Nat : p[1] < p[2]}
<1>1. IsWellFoundedOn(less, Nat)
  BY NatLessThanWellFounded DEF OpToRel
<1>2. PICK n \in A : \A m \in A : ~(<<m, n>> \in less)
  <2> HIDE DEF less
  <2> QED
    BY <1>1, WFMin
<1>3. \A m \in A : m \in Nat /\ n \in Nat /\ ~(m < n)
  BY <1>2
<1> QED
  BY <1>3

\* The first end of a quote.
LEMMA CloseIs ==
    ASSUME NEW S, NEW t \in Seq(S), Closing(t) # {}
    PROVE  /\ Close(t) \in Closing(t) /\ \A j \in Closing(t) : Close(t) <= j
           /\ Close(t) \in 2..Len(t)
<1>1. Closing(t) \in SUBSET (2..Len(t))
  BY Zenon DEF Closing
<1>2. Closing(t) \in SUBSET Nat
  BY <1>1
<1>3. \E i \in Closing(t) : \A j \in Closing(t) : i <= j
  BY <1>2, SmallestExists
<1> QED
  BY <1>1, <1>3 DEF Close

\* What the tokens are made of.
LEMMA TokensMade ==
    /\ \A t \in Seq(Characters) : Word(t) \in AllTokens
    /\ \A char \in Punctual \cap Characters : Punctuation(char) \in AllTokens
    /\ Error \in AllTokens
<1>1. \A t \in Seq(Characters) : Word(t) \in AllTokens
  BY DEF Word, AllTokens, TokenKinds
<1>2. ASSUME NEW char \in Punctual \cap Characters
      PROVE  Punctuation(char) \in AllTokens
  <2>1. char \in TokenKinds
    BY Zenon DEF Punctual, TokenKinds
  <2>2. <<char>> \in Seq(Characters)
    OBVIOUS
  <2> QED
    BY <2>1, <2>2, Zenon DEF Punctuation, AllTokens
<1>3. Error \in AllTokens
  <2>1. << >> \in Seq(Characters)
    OBVIOUS
  <2>2. "error" \in TokenKinds
    BY Zenon DEF TokenKinds
  <2> QED
    BY <2>1, <2>2, Zenon DEF Error, AllTokens
<1> QED
  BY <1>1, <1>2, <1>3

\* Some tokens, and a text that is shorter.
Divides(t, first) ==
    /\ first.tokens \in Seq(AllTokens)
    /\ first.rest \in Seq(Characters) /\ Len(first.rest) < Len(t)

\* What is taken from a text that is not empty leaves a shorter one, ...
LEMMA UptoDivides ==
    ASSUME NEW t \in Seq(Characters), t # << >>, NEW tokens \in Seq(AllTokens),
           NEW end \in Nat, 1 < end
    PROVE  Divides(t, Upto(t, tokens, end))
<1>1. Len(t) \in Nat /\ Len(t) <= Len(t)
  OBVIOUS
<1>2. SubSeq(t, end, Len(t)) \in Seq(Characters) /\ Len(SubSeq(t, end, Len(t))) < Len(t)
  BY <1>1, RestOf
<1> QED
  BY <1>2 DEF Divides, Upto

\* ... and so does its first token.
LEMMA FirstTokenDivides ==
    ASSUME NEW t \in Seq(Characters), t # << >>
    PROVE  Divides(t, FirstToken(t))
<1>1. Len(t) \in Nat \ {0} /\ t[1] \in Characters /\ << >> \in Seq(AllTokens)
      /\ \A x \in AllTokens : <<x>> \in Seq(AllTokens)
  BY EmptySeq
<1>2. ASSUME NEW i \in Int, i <= Len(t)
      PROVE  <<Word(SubSeq(t, 1, i))>> \in Seq(AllTokens)
             /\ <<Word(Unescaped(SubSeq(t, 1, i)))>> \in Seq(AllTokens)
  <2>1. \A j \in 1..i : t[j] \in Characters
    BY <1>1, <1>2, ElementOfSeq
  <2>2. SubSeq(t, 1, i) \in Seq(Characters)
    BY <1>2, <2>1, SubSeqProperties
  <2> QED
    BY <1>1, <2>2, UnescapedText, TokensMade
<1>9. ASSUME NEW tokens \in Seq(AllTokens)
      PROVE  Divides(t, Upto(t, tokens, 2))
  <2>1. 2 \in Nat /\ 1 < 2
    OBVIOUS
  <2> QED
    BY <2>1, UptoDivides
<1>3. CASE t[1] \in Blanks
  <2>1. FirstToken(t) = Upto(t, << >>, 2)
    BY <1>3, FirstBlank
  <2> QED
    BY <1>1, <1>9, <2>1
<1>4. CASE t[1] \in Punctual
  <2>1. <<Punctuation(t[1])>> \in Seq(AllTokens)
    BY <1>1, <1>4, TokensMade
  <2>2. FirstToken(t) = Upto(t, <<Punctuation(t[1])>>, 2)
    BY <1>4, FirstPunctuation
  <2> QED
    BY <1>9, <2>1, <2>2
<1>5. CASE t[1] = "#"
  <2> DEFINE end == FirstOf(t, 2, {"\n", "\r"})
  <2>1. end \in 2..(Len(t) + 1)
    <3>1. 2 \in 1..(Len(t) + 1)
      BY <1>1
    <3> QED
      BY <3>1, FirstOfIs
  <2>2. FirstToken(t) = Upto(t, << >>, end + 1)
    BY <1>5, FirstComment
  <2> HIDE DEF end
  <2>3. end + 1 \in Nat /\ 1 < end + 1
    BY <1>1, <2>1
  <2> QED
    BY <1>1, <2>2, <2>3, UptoDivides
<1>6. CASE t[1] \in Quotes
  <2>1. Len(t) + 1 \in Nat /\ 1 < Len(t) + 1 /\ <<Error>> \in Seq(AllTokens)
    BY <1>1, TokensMade
  <2>2. ASSUME NEW tokens \in {<< >>, <<Error>>}
        PROVE  Divides(t, Upto(t, tokens, Len(t) + 1))
    BY <1>1, <2>1, <2>2, UptoDivides
  <2>3. CASE Closing(t) = {}
    <3>1. \E tokens \in {<< >>, <<Error>>} : FirstToken(t) = Upto(t, tokens, Len(t) + 1)
      BY <1>6, <2>3, FirstQuoted
    <3> QED
      BY <2>2, <3>1
  <2>4. CASE Closing(t) # {}
    <3>1. Close(t) \in 2..Len(t)
      BY <2>4, CloseIs
    <3>2. Close(t) \in Int /\ Close(t) <= Len(t) /\ Close(t) + 1 \in Nat /\ 1 < Close(t) + 1
      BY <1>1, <3>1
    <3>3. Divides(t, Upto(t, <<Word(Unescaped(SubSeq(t, 1, Close(t))))>>, Close(t) + 1))
      BY <1>2, <3>2, UptoDivides
    <3>4. \/ FirstToken(t) = Upto(t, <<Word(Unescaped(SubSeq(t, 1, Close(t))))>>, Close(t) + 1)
          \/ FirstToken(t) = Upto(t, <<Error>>, Len(t) + 1)
      BY <1>6, <2>4, FirstQuoted, Zenon
    <3> QED
      BY <2>2, <3>3, <3>4
  <2> QED
    BY <2>3, <2>4
<1>7. CASE t[1] \notin Special
  <2> DEFINE end == FirstOf(t, 2, Ends)
  <2>1. end \in 2..(Len(t) + 1)
    <3>1. 2 \in 1..(Len(t) + 1)
      BY <1>1
    <3> QED
      BY <3>1, FirstOfIs
  <2>2. FirstToken(t) =
          Upto(t, IF end > Len(t) THEN << >> ELSE <<Word(SubSeq(t, 1, end - 1))>>, end)
    BY <1>7, FirstWord
  <2> HIDE DEF end
  <2>3. end \in Nat /\ 1 < end /\ end - 1 \in Int /\ end - 1 <= Len(t)
    BY <1>1, <2>1
  <2>4. (IF end > Len(t) THEN << >> ELSE <<Word(SubSeq(t, 1, end - 1))>>) \in Seq(AllTokens)
    BY <1>1, <1>2, <2>3
  <2> QED
    BY <2>2, <2>3, <2>4, UptoDivides
<1>8. t[1] \in Special => t[1] \in Blanks \/ t[1] \in Punctual \/ t[1] = "#" \/ t[1] \in Quotes
  BY Zenon DEF Special, Punctual, Quotes
<1> QED
  BY <1>3, <1>4, <1>5, <1>6, <1>7, <1>8, Zenon

\* What Tokens does with a text, if f is Tokens of shorter ones.
TokensBy(f, t) == IF t = << >> THEN << >> ELSE FirstToken(t).tokens \o f[FirstToken(t).rest]

TokensAgree(f, g, n) == \A t \in Seq(Characters) : Len(t) < n => f[t] = g[t]

\* It looks at shorter texts only.
LEMMA TokensShorter ==
    ASSUME NEW t \in Seq(Characters), NEW f, NEW g, TokensAgree(f, g, Len(t))
    PROVE  TokensBy(f, t) = TokensBy(g, t)
BY FirstTokenDivides DEF TokensBy, TokensAgree, Divides

TokensUpTo(f, n) == \A t \in Seq(Characters) : Len(t) <= n => f[t] = TokensBy(f, t)

\* There is such a function for every n, ...
LEMMA TokensUpToExists ==
    ASSUME NEW n \in Nat
    PROVE  \E f : TokensUpTo(f, n)
<1> DEFINE G == {k \in Nat : \E f : TokensUpTo(f, k)}
<1>1. 0 \in G
  <2> DEFINE f == [ts \in Seq(Characters) |-> << >>]
  <2>1. \A ts \in Seq(Characters) : Len(ts) <= 0 => ts = << >>
    BY EmptySeq
  <2>2. TokensUpTo(f, 0)
    BY <2>1 DEF TokensUpTo, TokensBy
  <2> HIDE DEF f
  <2> QED
    BY <2>2
<1>2. ASSUME NEW k \in Nat, k \in G
      PROVE  k + 1 \in G
  <2>1. PICK f : TokensUpTo(f, k)
    BY <1>2
  <2> DEFINE g == [ts \in Seq(Characters) |-> TokensBy(f, ts)]
  <2>2. \A ts \in Seq(Characters) : g[ts] = TokensBy(f, ts)
    OBVIOUS
  <2> HIDE DEF g
  <2>3. ASSUME NEW ts \in Seq(Characters), Len(ts) <= k + 1
        PROVE  g[ts] = TokensBy(g, ts)
    <3>1. TokensAgree(f, g, Len(ts))
      <4> SUFFICES ASSUME NEW us \in Seq(Characters), Len(us) < Len(ts)
                   PROVE  f[us] = g[us]
        BY DEF TokensAgree
      <4>1. Len(us) <= k
        BY <2>3
      <4> QED
        BY <2>1, <2>2, <4>1 DEF TokensUpTo
    <3> QED
      BY <2>2, <3>1, TokensShorter
  <2>4. TokensUpTo(g, k + 1)
    BY <2>3 DEF TokensUpTo
  <2> QED
    BY <2>4
<1>3. Nat \subseteq G
  <2> HIDE DEF G
  <2> QED
    BY <1>1, <1>2, EveryNumber
<1> QED
  BY <1>3

\* ... and any two agree.
LEMMA TokensUpToAgree ==
    ASSUME NEW n \in Nat, NEW m \in Nat, NEW f, NEW g, TokensUpTo(f, n), TokensUpTo(g, m),
           NEW k \in Nat, k <= n, k <= m
    PROVE  TokensAgree(f, g, k + 1)
<1> DEFINE G == {i \in Nat : i <= n /\ i <= m => TokensAgree(f, g, i + 1)}
<1>1. ASSUME NEW i \in Nat, i <= n, i <= m, TokensAgree(f, g, i)
      PROVE  TokensAgree(f, g, i + 1)
  <2> SUFFICES ASSUME NEW ts \in Seq(Characters), Len(ts) < i + 1
               PROVE  f[ts] = g[ts]
    BY DEF TokensAgree
  <2>1. Len(ts) <= n /\ Len(ts) <= m /\ Len(ts) <= i
    BY <1>1
  <2>2. TokensAgree(f, g, Len(ts))
    BY <1>1, <2>1 DEF TokensAgree
  <2> QED
    BY <2>1, <2>2, TokensShorter DEF TokensUpTo
<1>2. 0 \in G
  <2>1. TokensAgree(f, g, 0)
    BY DEF TokensAgree
  <2> QED
    BY <1>1, <2>1
<1>3. ASSUME NEW i \in Nat, i \in G
      PROVE  i + 1 \in G
  BY <1>1, <1>3
<1>4. Nat \subseteq G
  <2> HIDE DEF G
  <2> QED
    BY <1>2, <1>3, EveryNumber
<1> QED
  BY <1>4

IsTokens(f) == f = [ts \in Seq(Characters) |-> TokensBy(f, ts)]

\* Tokens obeys its equation.
LEMMA TokensRecursion ==
    ASSUME NEW ts \in Seq(Characters)
    PROVE  Tokens[ts] = TokensBy(Tokens, ts)
<1> DEFINE F(n) == CHOOSE f : TokensUpTo(f, n)
           f == [us \in Seq(Characters) |-> F(Len(us))[us]]
<1>1. \A n \in Nat : TokensUpTo(F(n), n)
  BY TokensUpToExists
<1> HIDE DEF F
<1>2. ASSUME NEW us \in Seq(Characters)
      PROVE  f[us] = TokensBy(f, us)
  <2>1. Len(us) \in Nat
    OBVIOUS
  <2>2. F(Len(us))[us] = TokensBy(F(Len(us)), us)
    BY <1>1, <2>1 DEF TokensUpTo
  <2>3. TokensAgree(F(Len(us)), f, Len(us))
    <3> SUFFICES ASSUME NEW vs \in Seq(Characters), Len(vs) < Len(us)
                 PROVE  F(Len(us))[vs] = f[vs]
      BY DEF TokensAgree
    <3>1. Len(vs) \in Nat /\ Len(vs) <= Len(us)
      BY <2>1
    <3>2. TokensAgree(F(Len(us)), F(Len(vs)), Len(vs) + 1)
      BY <1>1, <2>1, <3>1, TokensUpToAgree
    <3>3. F(Len(us))[vs] = F(Len(vs))[vs]
      BY <3>1, <3>2 DEF TokensAgree
    <3> QED
      BY <3>3
  <2>4. f[us] = F(Len(us))[us]
    OBVIOUS
  <2> HIDE DEF f
  <2> QED
    BY <2>2, <2>3, <2>4, TokensShorter
<1>3. IsTokens(f)
  <2>1. f = [us \in Seq(Characters) |-> f[us]]
    OBVIOUS
  <2> HIDE DEF f
  <2> QED
    BY <1>2, <2>1 DEF IsTokens
<1>4. Tokens = CHOOSE g : IsTokens(g)
  BY DEF Tokens, IsTokens, TokensBy
<1> HIDE DEF f
<1>5. IsTokens(Tokens)
  BY <1>3, <1>4
<1> QED
  BY <1>5 DEF IsTokens

\* They are tokens.
LEMMA TokensType ==
    ASSUME NEW t \in Seq(Characters)
    PROVE  Tokens[t] \in Seq(AllTokens)
<1> DEFINE G == {n \in Nat : \A s \in Seq(Characters) : Len(s) < n => Tokens[s] \in Seq(AllTokens)}
<1>1. 0 \in G
  <2>1. \A s \in Seq(Characters) : ~(Len(s) < 0)
    OBVIOUS
  <2> QED
    BY <2>1
<1>2. ASSUME NEW n \in Nat, n \in G
      PROVE  n + 1 \in G
  <2>1. \A s \in Seq(Characters) : Len(s) < n => Tokens[s] \in Seq(AllTokens)
    BY <1>2
  <2> HIDE DEF G
  <2>2. ASSUME NEW s \in Seq(Characters), Len(s) < n + 1
        PROVE  Tokens[s] \in Seq(AllTokens)
    <3>1. Tokens[s] = TokensBy(Tokens, s)
      BY TokensRecursion
    <3>2. CASE s = << >>
      <4>1. << >> \in Seq(AllTokens)
        OBVIOUS
      <4> QED
        BY <3>1, <3>2, <4>1 DEF TokensBy
    <3>3. CASE s # << >>
      <4>1. Divides(s, FirstToken(s))
        BY <3>3, FirstTokenDivides
      <4>2. Len(s) \in Nat /\ Len(FirstToken(s).rest) \in Nat
        BY <4>1 DEF Divides
      <4>3. Len(FirstToken(s).rest) < n
        BY <2>2, <4>1, <4>2 DEF Divides
      <4>4. Tokens[FirstToken(s).rest] \in Seq(AllTokens)
        BY <2>1, <4>1, <4>3 DEF Divides
      <4>5. Tokens[s] = FirstToken(s).tokens \o Tokens[FirstToken(s).rest]
        BY <3>1, <3>3 DEF TokensBy
      <4> QED
        BY <4>1, <4>4, <4>5, ConcatProperties DEF Divides
    <3> QED
      BY <3>2, <3>3
  <2> QED
    BY <2>2 DEF G
<1>3. Nat \subseteq G
  <2> HIDE DEF G
  <2> QED
    BY <1>1, <1>2, EveryNumber
<1>4. Len(t) + 1 \in G /\ Len(t) < Len(t) + 1
  <2> HIDE DEF G
  <2> QED
    BY <1>3
<1> QED
  BY <1>4

----------------------------------------------------------------------------
(* The tokens of what has been read and what is left.                      *)

\* The tokens of a text are its first and those of the rest.
LEMMA TokensFirst ==
    /\ Tokens[<< >>] = << >>
    /\ \A t \in Seq(Characters) : t # << >> =>
          Tokens[t] = FirstToken(t).tokens \o Tokens[FirstToken(t).rest]
<1>1. << >> \in Seq(Characters)
  OBVIOUS
<1>2. \A t \in Seq(Characters) : Tokens[t] = TokensBy(Tokens, t)
  BY TokensRecursion
<1> QED
  BY <1>1, <1>2 DEF TokensBy

Yields(t, tokens, rest) == Tokens[t] = tokens \o Tokens[rest]

\* They are those of what it begins with, if that is known.
LEMMA TokensUpto ==
    ASSUME NEW t \in Seq(Characters), t # << >>, NEW tokens, NEW end,
           FirstToken(t) = Upto(t, tokens, end)
    PROVE  Yields(t, tokens, SubSeq(t, end, Len(t)))
<1>1. FirstToken(t).tokens = tokens /\ FirstToken(t).rest = SubSeq(t, end, Len(t))
  <2> DEFINE first == Upto(t, tokens, end)
  <2>1. first.tokens = tokens /\ first.rest = SubSeq(t, end, Len(t))
    BY DEF Upto
  <2> HIDE DEF first
  <2>2. FirstToken(t) = first
    BY DEF first
  <2> QED
    BY <2>1, <2>2, Zenon
<1>2. Tokens[t] = FirstToken(t).tokens \o Tokens[FirstToken(t).rest]
  BY TokensFirst
<1> QED
  BY <1>1, <1>2, Zenon DEF Yields

\* What is put behind is what is left.
LEMMA RestAfter ==
    ASSUME NEW S, NEW a \in Seq(S), NEW u \in Seq(S), u # << >>
    PROVE  SubSeq(a \o u, Len(a) + 1, Len(a \o u)) = u
<1>1. Len(a) \in Nat /\ Len(u) \in Nat \ {0} /\ Len(a \o u) = Len(a) + Len(u)
  BY ConcatProperties, EmptySeq
<1> DEFINE m == Len(a) + 1
           n == Len(a) + Len(u)
<1>2. m \in Len(a) + 1..Len(a) + Len(u) /\ n \in Len(a) + 1..Len(a) + Len(u)
      /\ m - Len(a) = 1 /\ n - Len(a) = Len(u)
  BY <1>1
<1> HIDE DEF m, n
<1>3. SubSeq(a \o u, m, n) = SubSeq(u, m - Len(a), n - Len(a))
  BY <1>2, SubSeqOfConcat2
<1>4. SubSeq(u, 1, Len(u)) = u
  BY SubSeqFull
<1>5. SubSeq(a \o u, m, n) = u
  BY <1>2, <1>3, <1>4, Zenon
<1>6. n = Len(a \o u)
  BY <1>1 DEF n
<1> QED
  BY <1>5, <1>6, Zenon DEF m

\* Nothing follows the end.
LEMMA NothingAfter ==
    ASSUME NEW t \in Seq(Characters), NEW end \in Nat, end > Len(t)
    PROVE  SubSeq(t, end, Len(t)) = << >>
<1>1. Len(t) \in Int /\ end \in Int /\ Len(t) < end
  OBVIOUS
<1> QED
  BY <1>1, SubSeqEmpty

\* Putting nothing before or behind changes nothing.
LEMMA NoTokens ==
    ASSUME NEW tokens \in Seq(AllTokens)
    PROVE  << >> \o tokens = tokens /\ tokens \o << >> = tokens
BY ConcatEmptySeq

\* Where the first of some characters is, if it is known.
LEMMA FirstOfAround ==
    ASSUME NEW S, NEW raw \in Seq(S), NEW char \in S, NEW r, NEW t, IsAround(S, raw, char, r, t),
           NEW from \in 1..(Len(raw) + 1), NEW them, char \in them,
           \A j \in from..Len(raw) : raw[j] \notin them
    PROVE  FirstOf(t, from, them) = Len(raw) + 1
<1>1. /\ t \in Seq(S) /\ Len(t) = Len(raw) + 1 + Len(r) /\ Len(raw) \in Nat /\ Len(r) \in Nat
      /\ t[Len(raw) + 1] = char /\ \A i \in 1..Len(raw) : t[i] = raw[i]
  BY DEF IsAround
<1> DEFINE end == FirstOf(t, from, them)
<1>2. /\ end \in from..(Len(t) + 1)
      /\ end > Len(t) \/ t[end] \in them
      /\ \A j \in from..(end - 1) : t[j] \notin them
  <2>1. from \in 1..(Len(t) + 1)
    BY <1>1
  <2> QED
    BY <1>1, <2>1, FirstOfIs
<1> HIDE DEF end
<1>3. ~(end > Len(raw) + 1)
  <2>1. end > Len(raw) + 1 => Len(raw) + 1 \in from..(end - 1)
    BY <1>1, <1>2
  <2> QED
    BY <1>1, <1>2, <2>1
<1>4. ~(end < Len(raw) + 1)
  <2>1. end < Len(raw) + 1 => end \in from..Len(raw) /\ end \in 1..Len(raw) /\ ~(end > Len(t))
    BY <1>1, <1>2
  <2> QED
    BY <1>1, <1>2, <2>1
<1>5. end = Len(raw) + 1
  BY <1>1, <1>2, <1>3, <1>4
<1> QED
  BY <1>5 DEF end

\* There is none before the end.
LEMMA FirstOfNone ==
    ASSUME NEW S, NEW t \in Seq(S), NEW from \in 1..(Len(t) + 1), NEW them,
           \A j \in from..Len(t) : t[j] \notin them
    PROVE  FirstOf(t, from, them) = Len(t) + 1
<1> DEFINE end == FirstOf(t, from, them)
<1>1. end \in from..(Len(t) + 1) /\ (end > Len(t) \/ t[end] \in them)
  BY FirstOfIs
<1> HIDE DEF end
<1>2. end \in from..Len(t) => t[end] \notin them /\ ~(end > Len(t))
  OBVIOUS
<1>3. end = Len(t) + 1
  BY <1>1, <1>2
<1> QED
  BY <1>3 DEF end

\* Between tokens.
LEMMA TokensBetween ==
    ASSUME NEW t \in Seq(Characters), t # << >>
    PROVE  /\ Head(t) \in Blanks => Tokens[t] = Tokens[Tail(t)]
           /\ Head(t) \in Punctual => Tokens[t] = <<Punctuation(Head(t))>> \o Tokens[Tail(t)]
<1>1. Head(t) = t[1] /\ Tail(t) \in Seq(Characters) /\ Tail(t) = SubSeq(t, 2, Len(t))
  BY HeadTailProperties, TailIsSubSeq
<1>2. << >> \o Tokens[Tail(t)] = Tokens[Tail(t)]
  BY <1>1, TokensType, NoTokens
<1>3. ASSUME NEW tokens, FirstToken(t) = Upto(t, tokens, 2)
      PROVE  Tokens[t] = tokens \o Tokens[Tail(t)]
  <2>1. Yields(t, tokens, SubSeq(t, 2, Len(t)))
    BY <1>3, TokensUpto, Zenon
  <2> QED
    BY <1>1, <2>1 DEF Yields
<1>4. t[1] \in Blanks => Tokens[t] = << >> \o Tokens[Tail(t)]
  BY <1>3, FirstBlank
<1>5. t[1] \in Punctual => Tokens[t] = <<Punctuation(t[1])>> \o Tokens[Tail(t)]
  BY <1>3, FirstPunctuation
<1> QED
  BY <1>1, <1>2, <1>4, <1>5

Newlines == {"\n", "\r"}

\* After a comment.
LEMMA TokensComment ==
    ASSUME NEW raw \in Seq(Characters), raw # << >>, raw[1] = "#",
           \A j \in 2..Len(raw) : raw[j] \notin Newlines
    PROVE  /\ Tokens[raw] = << >>
           /\ \A char \in Newlines \cap Characters, r \in Seq(Characters) :
                 Tokens[raw \o (<<char>> \o r)] = Tokens[r]
<1>1. Len(raw) \in Nat \ {0}
  BY EmptySeq
<1>2. Tokens[raw] = << >>
  <2>1. 2 \in 1..(Len(raw) + 1)
    BY <1>1
  <2>2. FirstOf(raw, 2, Newlines) = Len(raw) + 1
    BY <2>1, FirstOfNone
  <2>3. FirstToken(raw) = Upto(raw, << >>, FirstOf(raw, 2, Newlines) + 1)
    BY FirstComment, Zenon DEF Newlines
  <2> DEFINE end == FirstOf(raw, 2, Newlines) + 1
  <2>4. SubSeq(raw, end, Len(raw)) = << >>
    <3>1. end \in Nat /\ end > Len(raw)
      BY <1>1, <2>2
    <3> QED
      BY <3>1, NothingAfter
  <2>6. Yields(raw, << >>, SubSeq(raw, end, Len(raw)))
    BY <2>3, TokensUpto, Zenon
  <2> HIDE DEF end
  <2>5. Tokens[raw] = << >> \o Tokens[<< >>]
    BY <2>4, <2>6 DEF Yields
  <2> QED
    BY <2>5, TokensFirst
<1>3. ASSUME NEW char \in Newlines \cap Characters, NEW r \in Seq(Characters)
      PROVE  Tokens[raw \o (<<char>> \o r)] = Tokens[r]
  <2> DEFINE t == raw \o (<<char>> \o r)
  <2>1. IsAround(Characters, raw, char, r, t)
    BY Around, Zenon
  <2> HIDE DEF t
  <2>2. /\ t \in Seq(Characters) /\ t # << >> /\ t[1] = raw[1]
        /\ SubSeq(t, Len(raw) + 2, Len(t)) = r
    BY <1>1, <2>1 DEF IsAround
  <2>3. FirstOf(t, 2, Newlines) = Len(raw) + 1
    <3>1. 2 \in 1..(Len(raw) + 1)
      BY <1>1
    <3> QED
      BY <2>1, <3>1, FirstOfAround
  <2>4. FirstToken(t) = Upto(t, << >>, FirstOf(t, 2, Newlines) + 1)
    BY <2>2, FirstComment, Zenon DEF Newlines
  <2>5. FirstToken(t) = Upto(t, << >>, Len(raw) + 2)
    BY <1>1, <2>3, <2>4
  <2>6. Tokens[t] = << >> \o Tokens[r]
    <3>1. Yields(t, << >>, SubSeq(t, Len(raw) + 2, Len(t)))
      BY <2>2, <2>5, TokensUpto, Zenon
    <3> QED
      BY <2>2, <3>1 DEF Yields
  <2> QED
    BY <2>6, TokensType, NoTokens DEF t
<1> QED
  BY <1>2, <1>3

\* After a word.
LEMMA TokensWord ==
    ASSUME NEW raw \in Seq(Characters), raw # << >>, raw[1] \notin Special,
           \A j \in 2..Len(raw) : raw[j] \notin Ends
    PROVE  /\ Tokens[raw] = << >>
           /\ \A char \in Ends \cap Characters, r \in Seq(Characters) :
                 Tokens[raw \o (<<char>> \o r)] = <<Word(raw)>> \o Tokens[<<char>> \o r]
<1>1. Len(raw) \in Nat \ {0}
  BY EmptySeq
<1>2. Tokens[raw] = << >>
  <2>1. 2 \in 1..(Len(raw) + 1)
    BY <1>1
  <2> DEFINE end == FirstOf(raw, 2, Ends)
  <2>2. end = Len(raw) + 1
    BY <2>1, FirstOfNone
  <2>3. FirstToken(raw)
          = Upto(raw, IF end > Len(raw) THEN << >> ELSE <<Word(SubSeq(raw, 1, end - 1))>>, end)
    BY FirstWord, Zenon
  <2> HIDE DEF end
  <2>4. SubSeq(raw, end, Len(raw)) = << >>
    <3>1. end \in Nat /\ end > Len(raw)
      BY <1>1, <2>2
    <3> QED
      BY <3>1, NothingAfter
  <2>5. FirstToken(raw) = Upto(raw, << >>, end)
    BY <1>1, <2>2, <2>3
  <2>6. Tokens[raw] = << >> \o Tokens[<< >>]
    <3>1. Yields(raw, << >>, SubSeq(raw, end, Len(raw)))
      BY <2>5, TokensUpto, Zenon
    <3> QED
      BY <2>4, <3>1 DEF Yields
  <2> QED
    BY <2>6, TokensFirst
<1>3. ASSUME NEW char \in Ends \cap Characters, NEW r \in Seq(Characters)
      PROVE  Tokens[raw \o (<<char>> \o r)] = <<Word(raw)>> \o Tokens[<<char>> \o r]
  <2> DEFINE u == <<char>> \o r
             t == raw \o u
             end == FirstOf(t, 2, Ends)
  <2>1. IsAround(Characters, raw, char, r, t) /\ u \in Seq(Characters)
    BY Around, AppendThen, Zenon
  <2>0. SubSeq(t, Len(raw) + 1, Len(t)) = u
    <3>1. u # << >>
      BY ConcatProperties
    <3> HIDE DEF u
    <3> QED
      BY <2>1, <3>1, RestAfter
  <2> HIDE DEF t, u
  <2>2. /\ t \in Seq(Characters) /\ t # << >> /\ t[1] = raw[1] /\ Len(t) \in Nat
        /\ SubSeq(t, 1, Len(raw)) = raw /\ Len(raw) + 1 <= Len(t)
    BY <1>1, <2>1 DEF IsAround
  <2>3. end = Len(raw) + 1
    <3>1. 2 \in 1..(Len(raw) + 1)
      BY <1>1
    <3> QED
      BY <2>1, <3>1, FirstOfAround
  <2>4. FirstToken(t)
          = Upto(t, IF end > Len(t) THEN << >> ELSE <<Word(SubSeq(t, 1, end - 1))>>, end)
    BY <2>2, FirstWord, Zenon
  <2> HIDE DEF end
  <2>5. end - 1 = Len(raw) /\ ~(end > Len(t))
    BY <1>1, <2>2, <2>3
  <2>6. FirstToken(t) = Upto(t, <<Word(raw)>>, Len(raw) + 1)
    BY <2>2, <2>3, <2>4, <2>5
  <2>7. Tokens[t] = <<Word(raw)>> \o Tokens[u]
    <3>1. Yields(t, <<Word(raw)>>, SubSeq(t, Len(raw) + 1, Len(t)))
      BY <2>2, <2>6, TokensUpto, Zenon
    <3> QED
      BY <2>0, <3>1 DEF Yields
  <2> QED
    BY <2>7 DEF t, u
<1> QED
  BY <1>2, <1>3

\* One more character of a quote.
LEMMA ClosingAppend ==
    ASSUME NEW raw \in Seq(Characters), raw # << >>, Closing(raw) = {}, NEW char \in Characters,
           NEW r \in Seq(Characters)
    PROVE  LET t == raw \o (<<char>> \o r)
           IN  \A i \in Closing(t) :
                  /\ i > Len(raw)
                  /\ i = Len(raw) + 1 => char = raw[1] /\ Len(raw) \notin Escapes(raw)
<1> DEFINE t == raw \o (<<char>> \o r)
<1>1. IsAround(Characters, raw, char, r, t)
  BY Around, Zenon
<1> HIDE DEF t
<1>2. /\ t \in Seq(Characters) /\ Len(t) = Len(raw) + 1 + Len(r) /\ Len(r) \in Nat
      /\ t[Len(raw) + 1] = char /\ \A i \in 1..Len(raw) : t[i] = raw[i]
  BY <1>1 DEF IsAround
<1>3. Len(raw) \in Nat \ {0}
  BY EmptySeq
<1>4. \A i \in 1..Len(raw) : i \in Escapes(t) <=> i \in Escapes(raw)
  <2> SUFFICES ASSUME NEW i \in 1..Len(raw)
               PROVE  i \in Escapes(t) <=> i \in Escapes(raw)
    OBVIOUS
  <2>1. i \in 1..Len(t) /\ i <= Len(raw) /\ \A j \in 1..i : t[j] = raw[j]
    BY <1>2, <1>3
  <2> QED
    BY <1>2, <2>1, EscapesBefore
<1>5. \A i : i \in Closing(t) <=> i \in 2..Len(t) /\ t[i] = t[1] /\ (i - 1) \notin Escapes(t)
  BY Zenon DEF Closing
<1>6. \A i \in 2..Len(raw) : ~(raw[i] = raw[1] /\ (i - 1) \notin Escapes(raw))
  BY Zenon DEF Closing
<1>7. t[1] = raw[1]
  BY <1>2, <1>3
<1>8. ASSUME NEW i \in Closing(t)
      PROVE  /\ i > Len(raw)
             /\ i = Len(raw) + 1 => char = raw[1] /\ Len(raw) \notin Escapes(raw)
  <2>1. i \in 2..Len(t) /\ t[i] = t[1] /\ (i - 1) \notin Escapes(t)
    BY <1>5
  <2>2. ~(i <= Len(raw))
    <3>1. i <= Len(raw) => i \in 2..Len(raw) /\ i \in 1..Len(raw) /\ i - 1 \in 1..Len(raw)
      BY <1>2, <1>3, <2>1
    <3> QED
      BY <1>2, <1>4, <1>6, <1>7, <2>1, <3>1
  <2>3. i = Len(raw) + 1 => char = raw[1] /\ Len(raw) \notin Escapes(raw)
    <3>1. i = Len(raw) + 1 => i - 1 = Len(raw) /\ Len(raw) \in 1..Len(raw)
      BY <1>3
    <3> QED
      BY <1>2, <1>4, <1>7, <2>1, <3>1
  <2> QED
    BY <1>2, <1>3, <2>1, <2>2, <2>3
<1> QED
  BY <1>8 DEF t

\* After a quote.
LEMMA TokensQuoted ==
    ASSUME NEW raw \in Seq(Characters), raw # << >>, raw[1] \in Quotes, Closing(raw) = {}
    PROVE  Tokens[raw] = IF Len(raw) \in Escapes(raw) THEN << >> ELSE <<Error>>
<1>1. Len(raw) \in Nat \ {0} /\ << >> \in Seq(AllTokens) /\ <<Error>> \in Seq(AllTokens)
  BY EmptySeq, TokensMade
<1> DEFINE tokens == IF Len(raw) \in Escapes(raw) THEN << >> ELSE <<Error>>
<1>2. FirstToken(raw) = Upto(raw, tokens, Len(raw) + 1)
  BY FirstQuoted, Zenon
<1>3. SubSeq(raw, Len(raw) + 1, Len(raw)) = << >>
  <2>1. Len(raw) + 1 \in Nat /\ Len(raw) + 1 > Len(raw)
    BY <1>1
  <2> QED
    BY <2>1, NothingAfter
<1>4. tokens \in Seq(AllTokens)
  BY <1>1
<1> HIDE DEF tokens
<1>5. Yields(raw, tokens, SubSeq(raw, Len(raw) + 1, Len(raw)))
  BY <1>2, TokensUpto, Zenon
<1>6. Tokens[raw] = tokens \o Tokens[<< >>]
  BY <1>3, <1>5 DEF Yields
<1>7. Tokens[raw] = tokens
  BY <1>4, <1>6, TokensFirst, NoTokens
<1> QED
  BY <1>7 DEF tokens

\* A quote that is closed is a word, if something follows that may.
LEMMA TokensClosed ==
    ASSUME NEW raw \in Seq(Characters), raw # << >>, raw[1] \in Quotes, Closing(raw) = {},
           Len(raw) \notin Escapes(raw), NEW r \in Seq(Characters)
    PROVE  Tokens[raw \o (<<raw[1]>> \o r)]
             = IF r # << >> /\ Head(r) \in Ends
               THEN <<Word(Append(Unescaped(raw), raw[1]))>> \o Tokens[r] ELSE <<Error>>
<1> DEFINE char == raw[1]
           t == raw \o (<<char>> \o r)
           n == Len(raw)
<1>1. n \in Nat \ {0} /\ char \in Characters
  BY EmptySeq
<1>2. \A i \in Closing(t) : i > n
  BY <1>1, ClosingAppend
<1>3. IsAround(Characters, raw, char, r, t)
  BY <1>1, Around, Zenon
<1> HIDE DEF t
<1>4. /\ t \in Seq(Characters) /\ t # << >> /\ Len(t) = n + 1 + Len(r) /\ Len(r) \in Nat
      /\ t[n + 1] = char /\ \A i \in 1..n : t[i] = raw[i]
      /\ SubSeq(t, 1, n) = raw /\ SubSeq(t, n + 2, Len(t)) = r
  BY <1>3 DEF IsAround
<1>5. t[1] = char
  BY <1>1, <1>4
<1>6. n + 1 \in Closing(t)
  <2>1. n \notin Escapes(t)
    <3>1. n \in 1..Len(t) /\ n <= Len(raw) /\ \A j \in 1..n : t[j] = raw[j]
      BY <1>1, <1>4
    <3> QED
      BY <1>4, <3>1, EscapesBefore
  <2>2. n + 1 \in 2..Len(t) /\ (n + 1) - 1 = n
    BY <1>1, <1>4
  <2> QED
    BY <1>4, <1>5, <2>1, <2>2 DEF Closing
<1>7. Close(t) = n + 1 /\ Closing(t) # {}
  <2>1. Close(t) \in Closing(t) /\ Close(t) <= n + 1 /\ Close(t) \in 2..Len(t)
    BY <1>4, <1>6, CloseIs
  <2> QED
    BY <1>1, <1>2, <1>4, <1>6, <2>1
<1>8. SubSeq(t, 1, n + 1) = Append(raw, char)
  <2>1. SubSeq(t, 1, n + 1) = SubSeq(t, 1, (n + 1) - 1) \o <<t[n + 1]>>
    <3>1. 1 \in 1..Len(t) /\ n + 1 \in 1..Len(t)
      BY <1>1, <1>4
    <3> QED
      BY <1>4, <3>1, SubSeqRecursiveSecond
  <2>2. (n + 1) - 1 = n
    BY <1>1
  <2>3. Append(raw, char) = raw \o <<char>>
    BY <1>1, AppendIsConcat
  <2> QED
    BY <1>4, <2>1, <2>2, <2>3
<1>9. Unescaped(Append(raw, char)) = Append(Unescaped(raw), char)
  <2>1. Ranked(raw) /\ Unescaped(raw) \in Seq(Characters)
    BY UnescapedText
  <2>2. char # "\\"
    BY Zenon DEF Quotes
  <2> HIDE DEF char
  <2>3. EscapesOn(raw, char, Append(raw, char))
    BY <1>1, <2>1, UnescapedAppend, Zenon
  <2> QED
    BY <2>2, <2>3, Zenon DEF EscapesOn
<1>10. t[1] \in Quotes
  BY <1>5
<1> DEFINE w == Append(Unescaped(raw), char)
<1> HIDE DEF char, n
<1>11. FirstToken(t) =
          IF n + 1 < Len(t) /\ t[(n + 1) + 1] \in Ends
          THEN Upto(t, <<Word(w)>>, (n + 1) + 1)
          ELSE Upto(t, <<Error>>, Len(t) + 1)
  BY <1>7, <1>8, <1>9, <1>10, FirstQuoted, Zenon
<1>12. n + 1 < Len(t) /\ t[(n + 1) + 1] \in Ends <=> r # << >> /\ Head(r) \in Ends
  <2>1. n + 1 < Len(t) <=> r # << >>
    BY <1>1, <1>4, EmptySeq
  <2>2. r # << >> => t[(n + 1) + 1] = Head(r)
    <3> SUFFICES ASSUME r # << >>
                 PROVE  t[(n + 1) + 1] = Head(r)
      OBVIOUS
    <3>1. n + 2 \in 1..Len(t) /\ Len(t) \in (n + 2)..Len(t) /\ n + 2 = (n + 1) + 1
      BY <1>1, <1>4, <2>1
    <3>2. Head(SubSeq(t, n + 2, Len(t))) = t[n + 2]
      BY <1>4, <3>1, HeadTailOfSubSeq
    <3> QED
      BY <1>4, <3>1, <3>2
  <2> QED
    BY <2>1, <2>2
<1>13. CASE r # << >> /\ Head(r) \in Ends
  <2>1. FirstToken(t) = Upto(t, <<Word(w)>>, n + 2)
    <3>1. (n + 1) + 1 = n + 2
      BY <1>1
    <3> QED
      BY <1>11, <1>12, <1>13, <3>1
  <2>2. Yields(t, <<Word(w)>>, SubSeq(t, n + 2, Len(t)))
    BY <1>4, <2>1, TokensUpto, Zenon
  <2>3. Tokens[t] = <<Word(w)>> \o Tokens[r]
    BY <1>4, <2>2 DEF Yields
  <2> QED
    BY <1>13, <2>3 DEF t, char
<1>14. CASE ~(r # << >> /\ Head(r) \in Ends)
  <2>1. FirstToken(t) = Upto(t, <<Error>>, Len(t) + 1)
    BY <1>11, <1>12, <1>14
  <2>2. Yields(t, <<Error>>, SubSeq(t, Len(t) + 1, Len(t)))
    BY <1>4, <2>1, TokensUpto, Zenon
  <2>3. SubSeq(t, Len(t) + 1, Len(t)) = << >>
    <3>1. Len(t) + 1 \in Nat /\ Len(t) + 1 > Len(t)
      BY <1>4
    <3> QED
      BY <1>4, <3>1, NothingAfter
  <2>4. <<Error>> \in Seq(AllTokens)
    BY TokensMade
  <2>5. Tokens[t] = <<Error>> \o << >>
    BY <2>2, <2>3, TokensFirst DEF Yields
  <2>6. Tokens[t] = <<Error>>
    BY <2>4, <2>5, NoTokens
  <2> QED
    BY <1>14, <2>6 DEF t, char
<1> QED
  BY <1>13, <1>14

----------------------------------------------------------------------------
(* What ParseToken has read of a token, and the tokens that are to come.   *)

BegunWord(raw) ==
    raw # << >> /\ raw[1] \notin Special /\ \A j \in 2..Len(raw) : raw[j] \notin Ends

BegunComment(raw) ==
    raw # << >> /\ raw[1] = "#" /\ \A j \in 2..Len(raw) : raw[j] \notin Newlines

BegunQuote(raw, quote) == raw # << >> /\ raw[1] = quote /\ Closing(raw) = {}

\* What has been read of a quote, and what of it is in value.
Quoted(raw, s, quote, escape) ==
    /\ BegunQuote(raw, quote) /\ value = Unescaped(raw)
    /\ state = IF Len(raw) \in Escapes(raw) THEN escape ELSE s

Lexing(raw) ==
    /\ raw \in Seq(Characters)
    /\ \/ state = "WHITESPACE" /\ raw = << >> /\ value = << >>
       \/ state = "NORMAL" /\ BegunWord(raw) /\ value = raw
       \/ state = "COMMENT" /\ BegunComment(raw)
       \/ Quoted(raw, "SINGLE_QUOTE", "'", "SINGLE_ESCAPE")
       \/ Quoted(raw, "DOUBLE_QUOTE", "\"", "DOUBLE_ESCAPE")

\* The tokens of what is left to read, with what has been read of the first.
Pending(ts) == \E raw : Lexing(raw) /\ ts = Tokens[raw \o input]

\* A character that is read goes from what is left to what has been read.
LEMMA GotoPending ==
    ASSUME NEW ts, NEW raw \in Seq(Characters), ts = Tokens[raw \o input],
           input \in Seq(Characters), input # << >>, input' = Tail(input),
           NEW more, more = Append(raw, c), Lexing(more)'
    PROVE  Pending(ts)'
<1>1. c \in Characters /\ Tail(input) \in Seq(Characters)
  BY DEF c
<1>2. input = <<c>> \o Tail(input)
  <2>1. input = <<Head(input)>> \o Tail(input)
    OBVIOUS
  <2> QED
    BY <2>1 DEF c
<1>3. Append(raw, c) \o Tail(input) = raw \o (<<c>> \o Tail(input))
  BY <1>1, AppendThen
<1>4. ts = Tokens[more \o input']
  BY <1>2, <1>3
<1> QED
  BY <1>4 DEF Pending

\* Between tokens there is nothing of one.
LEMMA BetweenPending ==
    ASSUME input' \in Seq(Characters), state' = "WHITESPACE", value' = << >>,
           NEW ts, ts = Tokens[input']
    PROVE  Pending(ts)'
<1> DEFINE nothing == << >>
<1>1. nothing \in Seq(Characters) /\ nothing \o input' = input'
  OBVIOUS
<1>2. Lexing(nothing)'
  BY <1>1 DEF Lexing
<1> HIDE DEF nothing
<1> QED
  BY <1>1, <1>2 DEF Pending

\* One character more of a word, a comment, ...
LEMMA AppendedAt ==
    ASSUME NEW raw \in Seq(Characters), NEW char \in Characters, raw # << >>,
           NEW them, char \notin them, \A j \in 2..Len(raw) : raw[j] \notin them
    PROVE  /\ Append(raw, char) \in Seq(Characters) /\ Append(raw, char) # << >>
           /\ Append(raw, char)[1] = raw[1]
           /\ \A j \in 2..Len(Append(raw, char)) : Append(raw, char)[j] \notin them
OBVIOUS

\* ... or a quote.
LEMMA QuoteAppend ==
    ASSUME NEW raw \in Seq(Characters), NEW quote, BegunQuote(raw, quote),
           NEW char \in Characters, char = quote => Len(raw) \in Escapes(raw)
    PROVE  /\ BegunQuote(Append(raw, char), quote) /\ Append(raw, char) \in Seq(Characters)
           /\ Len(Append(raw, char)) = Len(raw) + 1
           /\ EscapesOn(raw, char, Append(raw, char))
<1> DEFINE s == Append(raw, char)
<1>1. s \in Seq(Characters) /\ s # << >> /\ Len(s) = Len(raw) + 1 /\ s[1] = raw[1]
  BY DEF BegunQuote
<1>2. s = raw \o (<<char>> \o << >>)
  <2>1. <<char>> \in Seq(Characters)
    OBVIOUS
  <2>2. <<char>> \o << >> = <<char>>
    BY <2>1, ConcatEmptySeq, Zenon
  <2>3. s = raw \o <<char>>
    BY AppendIsConcat, Zenon
  <2> QED
    BY <2>2, <2>3
<1>3. Closing(s) = {}
  <2>1. \A i \in Closing(s) :
           /\ i > Len(raw)
           /\ i = Len(raw) + 1 => char = raw[1] /\ Len(raw) \notin Escapes(raw)
    <3>1. << >> \in Seq(Characters)
      OBVIOUS
    <3> QED
      BY <1>2, <3>1, ClosingAppend, Zenon DEF BegunQuote
  <2>2. \A i \in Closing(s) : i \in 2..Len(s)
    BY Zenon DEF Closing
  <2> HIDE DEF s
  <2> QED
    BY <1>1, <2>1, <2>2 DEF BegunQuote
<1>4. EscapesOn(raw, char, s)
  BY UnescapedText, UnescapedAppend, Zenon
<1> QED
  BY <1>1, <1>3, <1>4 DEF BegunQuote

\* A quote begins.
LEMMA QuoteBegins ==
    ASSUME NEW quote \in Quotes \cap Characters
    PROVE  /\ <<quote>> \in Seq(Characters) /\ BegunQuote(<<quote>>, quote)
           /\ Unescaped(<<quote>>) = <<quote>> /\ Len(<<quote>>) \notin Escapes(<<quote>>)
<1> DEFINE s == <<quote>>
<1>1. s \in Seq(Characters) /\ s # << >> /\ Len(s) = 1 /\ s[1] = quote
  OBVIOUS
<1>2. Closing(s) = {}
  BY <1>1 DEF Closing
<1>3. quote # "\\"
  BY Zenon DEF Quotes
<1>4. Unescaped(<< >>) = << >>
  <2>1. Kept(<< >>) = {}
    <3>1. DOMAIN << >> = {}
      OBVIOUS
    <3> QED
      BY <3>1, Zenon DEF Kept
  <2>2. Cardinality({}) = 0
    BY FS_EmptySet
  <2> QED
    BY <2>1, <2>2, UnescapedIs
<1>5. EscapesOn(<< >>, quote, s)
  <2>1. << >> \in Seq(Characters) /\ Append(<< >>, quote) = s
    OBVIOUS
  <2> QED
    BY <2>1, UnescapedText, UnescapedAppend, Zenon
<1> HIDE DEF s
<1>6. Len(<< >>) + 1 = 1
  OBVIOUS
<1>7. 1 \notin Escapes(s) /\ Unescaped(s) = Append(Unescaped(<< >>), quote)
  BY <1>3, <1>5, <1>6, Zenon DEF EscapesOn
<1>8. Append(<< >>, quote) = s
  BY DEF s
<1> QED
  BY <1>1, <1>2, <1>4, <1>7, <1>8 DEF BegunQuote, s

----------------------------------------------------------------------------
(* The steps of ParseToken.                                                *)

\* The token that a token type stands for.
Kind(type, token, x) ==
    \/ type = "NORMAL" /\ x = Word(token) /\ token \in Seq(Characters)
    \/ type = "STATEMENT_END" /\ IsSemicolon(x)
    \/ type = "START_BLOCK" /\ IsOpening(x)
    \/ type = "END_BLOCK" /\ IsClosing(x)

\* What ParseToken returns is the first of the tokens that are to come.
Gives(type, token, rest, ts) ==
    \/ type = "COMMENT" /\ ts = Tokens[rest]
    \/ type = "EOF" /\ ts = << >>
    \/ type = "ERROR" /\ ts = <<Error>>
    \/ \E x \in AllTokens : Kind(type, token, x) /\ ts = <<x>> \o Tokens[rest]

\* A step reads on, or it returns that token.
Lexes(ts) ==
    \/ Pending(ts)' /\ UNCHANGED <<text, last, stack, verdict>>
    \/ \E type, token, rest :
          /\ rest \in Seq(Characters)
          /\ Token(type, token, rest) /\ Gives(type, token, rest, ts)

\* A token that is returned is such a step, ...
LEMMA LexesToken ==
    ASSUME NEW type, NEW token, NEW rest \in Seq(Characters), Token(type, token, rest),
           NEW ts, Gives(type, token, rest, ts)
    PROVE  Lexes(ts)
BY DEF Lexes

\* ... and so is reading on.
LEMMA LexesGoto ==
    ASSUME NEW s, NEW token, Goto(s, token), NEW ts, Pending(ts)'
    PROVE  Lexes(ts)
BY DEF Lexes, Goto

\* The tokens of punctuation.
LEMMA Punctuated ==
    ASSUME NEW char \in Punctual \cap Characters, NEW type, NEW token,
           \/ char = ";" /\ type = "STATEMENT_END"
           \/ char = "{" /\ type = "START_BLOCK"
           \/ char = "}" /\ type = "END_BLOCK"
    PROVE  Punctuation(char) \in AllTokens /\ Kind(type, token, Punctuation(char))
<1>1. Punctuation(char) \in AllTokens
  BY TokensMade
<1>2. Punctuation(char).type = char
  BY DEF Punctuation
<1>3. Kind(type, token, Punctuation(char))
  BY <1>2, Zenon DEF Kind, IsSemicolon, IsOpening, IsClosing
<1> QED
  BY <1>1, <1>3

\* Between tokens.
LEMMA LexWhitespace ==
    ASSUME input \in Seq(Characters), NEW ts, Pending(ts), InWhitespace
    PROVE  Lexes(ts)
<1>1. PICK raw : Lexing(raw) /\ ts = Tokens[raw \o input]
  BY DEF Pending
<1>2. state = "WHITESPACE" /\ input # << >>
  BY DEF InWhitespace, Reading
<1>3. raw = << >> /\ value = << >>
  BY <1>1, <1>2 DEF Lexing, Quoted
<1>4. ts = Tokens[input]
  BY <1>1, <1>3
<1>5. c \in Characters /\ Tail(input) \in Seq(Characters) /\ c = Head(input)
  BY <1>2 DEF c
<1>6. raw \in Seq(Characters) /\ Append(raw, c) = <<c>>
  BY <1>3, <1>5
<1>7. ASSUME NEW type, Token(type, <<c>>, Tail(input)), c \in Punctual,
             Kind(type, <<c>>, Punctuation(c)), Punctuation(c) \in AllTokens
      PROVE  Lexes(ts)
  <2>1. ts = <<Punctuation(c)>> \o Tokens[Tail(input)]
    BY <1>2, <1>4, <1>5, <1>7, TokensBetween
  <2>2. Gives(type, <<c>>, Tail(input), ts)
    BY <1>7, <2>1, Zenon DEF Gives
  <2> QED
    BY <1>5, <1>7, <2>2, LexesToken
<1>8. ASSUME NEW s, NEW token, Goto(s, token), NEW more, more = <<c>>, Lexing(more)'
      PROVE  Lexes(ts)
  <2>1. input' = Tail(input)
    BY <1>8 DEF Goto
  <2>2. Pending(ts)'
    BY <1>1, <1>2, <1>6, <1>8, <2>1, GotoPending
  <2> QED
    BY <1>8, <2>2, LexesGoto
<1>9. CASE c \in Punctual
  <2>1. \/ c = ";" /\ Token("STATEMENT_END", <<c>>, Tail(input))
        \/ c = "{" /\ Token("START_BLOCK", <<c>>, Tail(input))
        \/ c = "}" /\ Token("END_BLOCK", <<c>>, Tail(input))
    BY <1>9, Zenon DEF InWhitespace, Punctual, Special, Blanks
  <2>2. \E type : Token(type, <<c>>, Tail(input)) /\ Kind(type, <<c>>, Punctuation(c))
                  /\ Punctuation(c) \in AllTokens
    BY <1>5, <1>9, <2>1, Punctuated, Zenon
  <2> QED
    BY <1>7, <1>9, <2>2
<1>10. CASE c = "#"
  <2>1. Goto("COMMENT", <<c>>)
    BY <1>10, Zenon DEF InWhitespace, Special, Blanks
  <2> DEFINE more == <<c>>
  <2>2. more \in Seq(Characters) /\ BegunComment(more)
    BY <1>5, <1>10 DEF BegunComment
  <2> HIDE DEF more
  <2>3. PICK m : m = more
    OBVIOUS
  <2>4. Lexing(m)'
    BY <2>1, <2>2, <2>3 DEF Lexing, Goto
  <2> QED
    BY <1>8, <2>1, <2>3, <2>4 DEF more
<1>11. CASE c \in Quotes
  <2>1. \/ c = "'" /\ Goto("SINGLE_QUOTE", <<c>>)
        \/ c = "\"" /\ Goto("DOUBLE_QUOTE", <<c>>)
    BY <1>11, Zenon DEF InWhitespace, Quotes, Special, Blanks
  <2>2. PICK m : m = <<c>>
    OBVIOUS
  <2>3. /\ m \in Seq(Characters) /\ BegunQuote(m, c)
        /\ Unescaped(m) = m /\ Len(m) \notin Escapes(m)
    BY <1>5, <1>11, <2>2, QuoteBegins
  <2>4. CASE c = "'" /\ Goto("SINGLE_QUOTE", <<c>>)
    <3>1. state' = "SINGLE_QUOTE" /\ value' = m /\ BegunQuote(m, "'")
      BY <2>2, <2>3, <2>4 DEF Goto
    <3>2. Quoted(m, "SINGLE_QUOTE", "'", "SINGLE_ESCAPE")'
      BY <2>3, <3>1 DEF Quoted
    <3>3. Lexing(m)'
      BY <2>3, <3>2 DEF Lexing
    <3> QED
      BY <1>8, <2>2, <2>4, <3>3
  <2>5. CASE c = "\"" /\ Goto("DOUBLE_QUOTE", <<c>>)
    <3>1. state' = "DOUBLE_QUOTE" /\ value' = m /\ BegunQuote(m, "\"")
      BY <2>2, <2>3, <2>5 DEF Goto
    <3>2. Quoted(m, "DOUBLE_QUOTE", "\"", "DOUBLE_ESCAPE")'
      BY <2>3, <3>1 DEF Quoted
    <3>3. Lexing(m)'
      BY <2>3, <3>2 DEF Lexing
    <3> QED
      BY <1>8, <2>2, <2>5, <3>3
  <2> QED
    BY <2>1, <2>4, <2>5
<1>12. CASE c \in Blanks
  <2>1. Goto("WHITESPACE", value)
    BY <1>12, Zenon DEF InWhitespace, Blanks, Special
  <2>2. ts = Tokens[Tail(input)]
    BY <1>2, <1>4, <1>5, <1>12, TokensBetween
  <2>3. Pending(ts)'
    BY <1>3, <1>5, <2>1, <2>2, BetweenPending DEF Goto
  <2> QED
    BY <2>1, <2>3, LexesGoto
<1>13. CASE c \notin Special
  <2>1. Goto("NORMAL", Append(value, c))
    BY <1>13, Zenon DEF InWhitespace, Special, Blanks
  <2>2. PICK m : m = <<c>>
    OBVIOUS
  <2>3. m \in Seq(Characters) /\ BegunWord(m)
    BY <1>5, <1>13, <2>2 DEF BegunWord
  <2>4. state' = "NORMAL" /\ value' = m
    BY <1>3, <1>6, <2>1, <2>2 DEF Goto
  <2>5. Lexing(m)'
    BY <2>3, <2>4 DEF Lexing
  <2> QED
    BY <1>8, <2>1, <2>2, <2>5
<1>14. c \in Special => c \in Punctual \cup Quotes \cup Blanks \cup {"#"}
  BY Zenon DEF Special, Punctual, Quotes
<1> QED
  BY <1>9, <1>10, <1>11, <1>12, <1>13, <1>14

\* In a comment.
LEMMA LexComment ==
    ASSUME input \in Seq(Characters), NEW ts, Pending(ts), InComment
    PROVE  Lexes(ts)
<1>1. PICK raw : Lexing(raw) /\ ts = Tokens[raw \o input]
  BY DEF Pending
<1>2. state = "COMMENT" /\ input # << >>
  BY DEF InComment, Reading
<1>3. raw \in Seq(Characters) /\ BegunComment(raw)
  BY <1>1, <1>2 DEF Lexing, Quoted
<1>4. c \in Characters /\ Tail(input) \in Seq(Characters)
  BY <1>2 DEF c
<1>5. input = <<c>> \o Tail(input)
  <2>1. input = <<Head(input)>> \o Tail(input)
    BY <1>2
  <2> QED
    BY <2>1 DEF c
<1>6. CASE c \in Newlines
  <2>1. Token("COMMENT", value, Tail(input))
    BY <1>6 DEF InComment, Newlines
  <2>2. ts = Tokens[Tail(input)]
    <3>1. c \in Newlines \cap Characters
      BY <1>4, <1>6
    <3>2. \A char \in Newlines \cap Characters, r \in Seq(Characters) :
             Tokens[raw \o (<<char>> \o r)] = Tokens[r]
      BY <1>3, TokensComment DEF BegunComment
    <3>3. Tokens[raw \o (<<c>> \o Tail(input))] = Tokens[Tail(input)]
      BY <1>4, <3>1, <3>2, Zenon
    <3> QED
      BY <1>1, <1>5, <3>3
  <2>3. Gives("COMMENT", value, Tail(input), ts)
    BY <2>2 DEF Gives
  <2> QED
    BY <1>4, <2>1, <2>3, LexesToken
<1>7. CASE c \notin Newlines
  <2>1. Goto("COMMENT", Append(value, c))
    BY <1>7 DEF InComment, Newlines
  <2>2. PICK m : m = Append(raw, c)
    OBVIOUS
  <2>3. m \in Seq(Characters) /\ BegunComment(m)
    BY <1>3, <1>4, <1>7, <2>2, AppendedAt DEF BegunComment
  <2>4. Lexing(m)'
    BY <2>1, <2>3 DEF Lexing, Goto
  <2>5. Pending(ts)'
    BY <1>1, <1>2, <1>3, <2>1, <2>2, <2>4, GotoPending DEF Goto
  <2> QED
    BY <2>1, <2>5, LexesGoto
<1> QED
  BY <1>6, <1>7

\* In a word.
LEMMA LexNormal ==
    ASSUME input \in Seq(Characters), NEW ts, Pending(ts), InNormal
    PROVE  Lexes(ts)
<1>1. PICK raw : Lexing(raw) /\ ts = Tokens[raw \o input]
  BY DEF Pending
<1>2. state = "NORMAL" /\ input # << >>
  BY DEF InNormal, Reading
<1>3. raw \in Seq(Characters) /\ BegunWord(raw) /\ value = raw
  BY <1>1, <1>2 DEF Lexing, Quoted
<1>4. c \in Characters /\ Tail(input) \in Seq(Characters)
  BY <1>2 DEF c
<1>5. input = <<c>> \o Tail(input)
  <2>1. input = <<Head(input)>> \o Tail(input)
    BY <1>2
  <2> QED
    BY <2>1 DEF c
<1>6. CASE c \in Ends
  <2>1. Token("NORMAL", value, input)
    BY <1>6 DEF InNormal
  <2>2. ts = <<Word(raw)>> \o Tokens[input]
    <3>1. c \in Ends \cap Characters
      BY <1>4, <1>6
    <3>2. \A char \in Ends \cap Characters, r \in Seq(Characters) :
             Tokens[raw \o (<<char>> \o r)] = <<Word(raw)>> \o Tokens[<<char>> \o r]
      BY <1>3, TokensWord DEF BegunWord
    <3>3. Tokens[raw \o (<<c>> \o Tail(input))] = <<Word(raw)>> \o Tokens[<<c>> \o Tail(input)]
      BY <1>4, <3>1, <3>2, Zenon
    <3> QED
      BY <1>1, <1>5, <3>3
  <2>3. Word(raw) \in AllTokens /\ Kind("NORMAL", value, Word(raw))
    BY <1>3, TokensMade, Zenon DEF Kind
  <2>4. Gives("NORMAL", value, input, ts)
    BY <2>2, <2>3, Zenon DEF Gives
  <2> QED
    BY <2>1, <2>4, LexesToken
<1>7. CASE c \notin Ends
  <2>1. Goto("NORMAL", Append(value, c))
    BY <1>7 DEF InNormal
  <2>2. PICK m : m = Append(raw, c)
    OBVIOUS
  <2>3. m \in Seq(Characters) /\ BegunWord(m)
    BY <1>3, <1>4, <1>7, <2>2, AppendedAt DEF BegunWord
  <2>4. state' = "NORMAL" /\ value' = m
    BY <1>3, <2>1, <2>2 DEF Goto
  <2>5. Lexing(m)'
    BY <2>3, <2>4 DEF Lexing
  <2>6. Pending(ts)'
    BY <1>1, <1>2, <1>3, <2>1, <2>2, <2>5, GotoPending DEF Goto
  <2> QED
    BY <2>1, <2>6, LexesGoto
<1> QED
  BY <1>6, <1>7

\* The quotes of the program.
IsQuoting(s, quote, escape) ==
    \/ s = "SINGLE_QUOTE" /\ quote = "'" /\ escape = "SINGLE_ESCAPE"
    \/ s = "DOUBLE_QUOTE" /\ quote = "\"" /\ escape = "DOUBLE_ESCAPE"

\* The state tells the quote, and whether the last character escapes.
LEMMA QuotedIs ==
    ASSUME NEW s, NEW quote, NEW escape, IsQuoting(s, quote, escape), state \in {s, escape},
           NEW raw, Lexing(raw)
    PROVE  /\ raw \in Seq(Characters) /\ BegunQuote(raw, quote) /\ value = Unescaped(raw)
           /\ quote \in Quotes
           /\ state = escape <=> Len(raw) \in Escapes(raw)
BY DEF IsQuoting, Lexing, Quoted, Quotes

\* Reading on in a quote.
LEMMA QuotedGoto ==
    ASSUME NEW s, NEW quote, NEW escape, IsQuoting(s, quote, escape),
           input \in Seq(Characters), input # << >>, input' = Tail(input),
           NEW raw \in Seq(Characters), BegunQuote(raw, quote),
           NEW ts, ts = Tokens[raw \o input],
           c = quote => Len(raw) \in Escapes(raw),
           NEW escapes \in BOOLEAN, escapes <=> c = "\\" /\ Len(raw) \notin Escapes(raw),
           state' = IF escapes THEN escape ELSE s,
           value' = IF escapes THEN Unescaped(raw) ELSE Append(Unescaped(raw), c)
    PROVE  Pending(ts)'
<1>1. c \in Characters
  BY DEF c
<1>2. PICK m : m = Append(raw, c)
  OBVIOUS
<1>3. /\ BegunQuote(m, quote) /\ m \in Seq(Characters) /\ Len(m) = Len(raw) + 1
      /\ EscapesOn(raw, c, m)
  BY <1>1, <1>2, QuoteAppend
<1>4. /\ Len(m) \in Escapes(m) <=> escapes
      /\ Unescaped(m) = value'
  BY <1>3, Zenon DEF EscapesOn
<1>5. Quoted(m, s, quote, escape)'
  BY <1>3, <1>4 DEF Quoted
<1>6. Lexing(m)'
  BY <1>3, <1>5 DEF Lexing, IsQuoting
<1> QED
  BY <1>2, <1>6, GotoPending

\* In a quote.
LEMMA LexQuotes ==
    ASSUME NEW s, NEW quote, NEW escape, IsQuoting(s, quote, escape),
           input \in Seq(Characters), NEW ts, Pending(ts), InQuotes(s, quote, escape)
    PROVE  Lexes(ts)
<1>1. PICK raw : Lexing(raw) /\ ts = Tokens[raw \o input]
  BY DEF Pending
<1>2. state = s /\ input # << >> /\ s # escape
  BY DEF InQuotes, Reading, IsQuoting
<1>3. /\ raw \in Seq(Characters) /\ BegunQuote(raw, quote) /\ value = Unescaped(raw)
      /\ quote \in Quotes /\ Len(raw) \notin Escapes(raw)
  BY <1>1, <1>2, QuotedIs
<1>4. c \in Characters /\ Tail(input) \in Seq(Characters)
  BY <1>2 DEF c
<1>5. input = <<c>> \o Tail(input)
  <2>1. input = <<Head(input)>> \o Tail(input)
    BY <1>2
  <2> QED
    BY <2>1 DEF c
<1>6. CASE c = quote
  <2> DEFINE word == Append(value, c)
             r == Tail(input)
             more == r # << >> /\ Head(r) \in Ends
  <2>1. word \in Seq(Characters)
    BY <1>3, <1>4, UnescapedText
  <2>2. Tokens[raw \o (<<raw[1]>> \o r)]
          = IF more THEN <<Word(Append(Unescaped(raw), raw[1]))>> \o Tokens[r] ELSE <<Error>>
    BY <1>3, <1>4, TokensClosed, Zenon DEF BegunQuote
  <2>3. raw[1] = c
    BY <1>3, <1>6 DEF BegunQuote
  <2>4. ts = IF more THEN <<Word(word)>> \o Tokens[r] ELSE <<Error>>
    BY <1>1, <1>3, <1>5, <2>2, <2>3, Zenon
  <2>5. quote # "\\"
    BY <1>3, Zenon DEF Quotes
  <2>6. IF more THEN Token("NORMAL", word, r) ELSE Token("ERROR", word, r)
    BY <1>6, <2>5, Zenon DEF InQuotes
  <2>7. r \in Seq(Characters)
    BY <1>4
  <2> HIDE DEF more, word, r
  <2>8. CASE more
    <3>1. Word(word) \in AllTokens /\ Kind("NORMAL", word, Word(word))
      BY <2>1, TokensMade, Zenon DEF Kind
    <3>2. Gives("NORMAL", word, r, ts)
      BY <2>4, <2>8, <3>1, Zenon DEF Gives
    <3> QED
      BY <2>6, <2>7, <2>8, <3>2, LexesToken
  <2>9. CASE ~more
    <3>1. Gives("ERROR", word, r, ts)
      BY <2>4, <2>9 DEF Gives
    <3> QED
      BY <2>6, <2>7, <2>9, <3>1, LexesToken
  <2> QED
    BY <2>8, <2>9
<1>7. CASE c # quote
  <2> DEFINE escapes == c = "\\"
             next == IF escapes THEN escape ELSE s
             token == IF escapes THEN value ELSE Append(value, c)
  <2>1. Goto(next, token)
    BY <1>7, Zenon DEF InQuotes
  <2>2. escapes \in BOOLEAN /\ (escapes <=> c = "\\" /\ Len(raw) \notin Escapes(raw))
    BY <1>3, Zenon
  <2> HIDE DEF escapes
  <2>3. /\ input' = Tail(input) /\ state' = IF escapes THEN escape ELSE s
        /\ value' = IF escapes THEN Unescaped(raw) ELSE Append(Unescaped(raw), c)
    BY <1>3, <2>1 DEF Goto
  <2>4. Pending(ts)'
    BY <1>1, <1>2, <1>3, <1>7, <2>2, <2>3, QuotedGoto, Zenon
  <2> QED
    BY <2>1, <2>4, LexesGoto
<1> QED
  BY <1>6, <1>7

\* After a backslash in a quote.
LEMMA LexEscaped ==
    ASSUME NEW s, NEW quote, NEW escape, IsQuoting(s, quote, escape),
           input \in Seq(Characters), NEW ts, Pending(ts), Escaped(escape, s)
    PROVE  Lexes(ts)
<1>1. PICK raw : Lexing(raw) /\ ts = Tokens[raw \o input]
  BY DEF Pending
<1>2. state = escape /\ input # << >> /\ Goto(s, Append(value, c))
  BY DEF Escaped, Reading
<1>3. /\ raw \in Seq(Characters) /\ BegunQuote(raw, quote) /\ value = Unescaped(raw)
      /\ Len(raw) \in Escapes(raw)
  BY <1>1, <1>2, QuotedIs
<1>4. PICK escapes \in BOOLEAN : ~escapes
  OBVIOUS
<1>5. escapes <=> c = "\\" /\ Len(raw) \notin Escapes(raw)
  BY <1>3, <1>4, Zenon
<1>6. /\ input' = Tail(input) /\ state' = IF escapes THEN escape ELSE s
      /\ value' = IF escapes THEN Unescaped(raw) ELSE Append(Unescaped(raw), c)
  BY <1>2, <1>3, <1>4 DEF Goto
<1>7. Pending(ts)'
  BY <1>1, <1>2, <1>3, <1>5, <1>6, QuotedGoto, Zenon
<1> QED
  BY <1>2, <1>7, LexesGoto

\* At the end of the file.
LEMMA LexEnd ==
    ASSUME NEW ts, Pending(ts), EndOfFile
    PROVE  Lexes(ts)
<1>1. PICK raw : Lexing(raw) /\ ts = Tokens[raw \o input]
  BY DEF Pending
<1>2. input = << >> /\ raw \in Seq(Characters)
  BY <1>1 DEF EndOfFile, Lexing
<1>3. raw \o input = raw
  BY <1>2
<1>4. ts = Tokens[raw] /\ << >> \in Seq(Characters)
  BY <1>1, <1>3
<1> DEFINE open == state \in {"SINGLE_QUOTE", "DOUBLE_QUOTE"}
           type == IF open THEN "ERROR" ELSE "EOF"
<1>5. Token(type, value, << >>)
  BY DEF EndOfFile
<1>6. ts = IF open THEN <<Error>> ELSE << >>
  <2>1. CASE raw = << >>
    <3>1. state = "WHITESPACE"
      BY <1>1, <2>1 DEF Lexing, BegunWord, BegunComment, BegunQuote, Quoted
    <3> QED
      BY <1>4, <2>1, <3>1, TokensFirst
  <2>2. CASE BegunWord(raw) /\ state = "NORMAL"
    BY <1>2, <1>4, <2>2, TokensWord DEF BegunWord
  <2>3. CASE BegunComment(raw) /\ state = "COMMENT"
    BY <1>2, <1>4, <2>3, TokensComment DEF BegunComment
  <2>4. ASSUME NEW s, NEW quote, NEW escape, IsQuoting(s, quote, escape),
               Quoted(raw, s, quote, escape)
        PROVE  ts = IF open THEN <<Error>> ELSE << >>
    <3>1. BegunQuote(raw, quote) /\ quote \in Quotes
      BY <2>4 DEF Quoted, IsQuoting, Quotes
    <3>2. Tokens[raw] = IF Len(raw) \in Escapes(raw) THEN << >> ELSE <<Error>>
      BY <1>2, <3>1, TokensQuoted, Zenon DEF BegunQuote
    <3>3. open <=> Len(raw) \notin Escapes(raw)
      BY <2>4 DEF Quoted, IsQuoting
    <3> HIDE DEF open
    <3> QED
      BY <1>4, <3>2, <3>3
  <2>5. \/ raw = << >>
        \/ BegunWord(raw) /\ state = "NORMAL"
        \/ BegunComment(raw) /\ state = "COMMENT"
        \/ \E s, quote, escape : IsQuoting(s, quote, escape) /\ Quoted(raw, s, quote, escape)
    BY <1>1 DEF Lexing, IsQuoting
  <2> QED
    BY <2>1, <2>2, <2>3, <2>4, <2>5
<1>7. Gives(type, value, << >>, ts)
  BY <1>6 DEF Gives
<1> HIDE DEF type
<1> QED
  BY <1>4, <1>5, <1>7, LexesToken

\* Whatever ParseToken does, it reads on or returns the first of the tokens that
\* are to come.
LEMMA LexStep ==
    ASSUME input \in Seq(Characters), NEW ts, Pending(ts), ParserNext, ~ParseFile
    PROVE  Lexes(ts)
<1>1. IsQuoting("SINGLE_QUOTE", "'", "SINGLE_ESCAPE")
  BY DEF IsQuoting
<1>2. IsQuoting("DOUBLE_QUOTE", "\"", "DOUBLE_ESCAPE")
  BY DEF IsQuoting
<1>3. CASE InWhitespace \/ InComment \/ InNormal \/ EndOfFile
  BY <1>3, LexWhitespace, LexComment, LexNormal, LexEnd
<1>4. CASE \/ InQuotes("SINGLE_QUOTE", "'", "SINGLE_ESCAPE")
           \/ InQuotes("DOUBLE_QUOTE", "\"", "DOUBLE_ESCAPE")
  BY <1>1, <1>2, <1>4, LexQuotes
<1>5. CASE Escaped("SINGLE_ESCAPE", "SINGLE_QUOTE") \/ Escaped("DOUBLE_ESCAPE", "DOUBLE_QUOTE")
  BY <1>1, <1>2, <1>5, LexEscaped
<1> QED
  BY <1>3, <1>4, <1>5 DEF ParserNext

----------------------------------------------------------------------------
(* The blocks that are open, and the tokens that belong to them.           *)

\* The last statement of a block has words, and nothing else yet.
IsBegun(b, done, w) ==
    /\ Sequential(done) /\ w \in Texted /\ w # << >>
    /\ b = Append(done, [tokens |-> w, child_block |-> NoBlock])

Waiting(seg, inner, b) == \E done, w : IsBegun(b, done, w) /\ BelowReads(seg, inner, done, w)

Within(seg, b) == \E done, w : IsBegun(b, done, w) /\ TopReads(seg, done, w)

TopLevel(seg, b) ==
    IF last = "NORMAL" THEN Within(seg, b) ELSE Sequential(b) /\ TopReads(seg, b, << >>)

\* An element takes the place of the last.
IsReplaced(T, b, n, v, a) ==
    a \in Seq(T) /\ Len(a) = n /\ \A i \in 1..n : a[i] = IF i = n THEN v ELSE b[i]

\* Nothing else changes.
LEMMA Replaced ==
    ASSUME NEW T, NEW b \in Seq(T), NEW v \in T, NEW n \in Nat \ {0}, Len(b) = n
    PROVE  IsReplaced(T, b, n, v, [b EXCEPT ![n] = v])
<1>1. n \in 1..Len(b)
  OBVIOUS
<1> DEFINE a == [b EXCEPT ![n] = v]
<1>2. /\ a \in Seq(T) /\ Len(a) = Len(b)
      /\ \A i \in 1..Len(b) : a[i] = IF i = n THEN v ELSE b[i]
  BY <1>1, ExceptSeq
<1> QED
  BY <1>2 DEF IsReplaced

\* A statement takes the place of the last.
LastIs(b, done, s, v) ==
    /\ b[Len(b)] = s /\ [b EXCEPT ![Len(b)] = v] = Append(done, v)
    /\ Sequential(Append(done, v)) /\ Append(done, v) = done \o <<v>>

\* The statements before it stay.
LEMMA LastReplaced ==
    ASSUME NEW done, Sequential(done), NEW s, NEW b, b = Append(done, s), NEW v
    PROVE  LastIs(b, done, s, v)
<1>1. PICK S : done \in Seq(S)
  BY DEF Sequential
<1> DEFINE T == S \cup {s, v}
<1>2. done \in Seq(T) /\ s \in T /\ v \in T
  BY <1>1, SeqMonotone
<1> HIDE DEF T
<1> DEFINE n == Len(done) + 1
<1>3. b \in Seq(T) /\ Append(done, v) \in Seq(T)
  BY <1>2
<1>4. /\ n \in Nat \ {0} /\ Len(b) = n /\ Len(Append(done, v)) = n
      /\ b[n] = s /\ Append(done, v)[n] = v
      /\ \A i \in 1..n : i # n => b[i] = done[i] /\ Append(done, v)[i] = done[i]
  BY <1>2
<1>5. Append(done, v) = done \o <<v>>
  BY <1>2, AppendIsConcat
<1> DEFINE a == [b EXCEPT ![n] = v]
<1>6. a = Append(done, v)
  <2> HIDE DEF n
  <2>1. a \in Seq(T) /\ Len(a) = n /\ \A i \in 1..n : a[i] = IF i = n THEN v ELSE b[i]
    <3>1. b \in Seq(T) /\ v \in T /\ n \in Nat \ {0} /\ Len(b) = n
      BY <1>2, <1>3, <1>4, Zenon
    <3>2. IsReplaced(T, b, n, v, [b EXCEPT ![n] = v])
      BY <3>1, Replaced, Zenon
    <3> QED
      BY <3>2, Zenon DEF IsReplaced
  <2>2. \A i \in 1..n : a[i] = Append(done, v)[i]
    BY <1>4, <2>1
  <2> HIDE DEF a
  <2> QED
    BY <1>3, <1>4, <2>1, <2>2
<1> QED
  BY <1>3, <1>4, <1>5, <1>6 DEF Sequential, LastIs

\* A block that is waiting is not complete, and keeps what does not close it.
LEMMA WaitingOpen ==
    ASSUME NEW seg \in Seq(AllTokens), NEW inner, NEW b, Waiting(seg, inner, b)
    PROVE  Readings[seg] = {}
<1>1. PICK done, w : IsBegun(b, done, w) /\ BelowReads(seg, inner, done, w)
  BY Zenon DEF Waiting
<1> QED
  BY <1>1, BelowOpen

\* A token that does not close the child is one of the block and of the child.
LEMMA WaitingKept ==
    ASSUME NEW seg \in Seq(AllTokens), NEW inner \in Seq(AllTokens), NEW b,
           Waiting(seg, inner, b), NEW x \in AllTokens, IsClosing(x) => Readings[inner] = {}
    PROVE  Waiting(Append(seg, x), Append(inner, x), b)
<1>1. PICK done, w : IsBegun(b, done, w) /\ BelowReads(seg, inner, done, w)
  BY Zenon DEF Waiting
<1>2. BelowReads(Append(seg, x), Append(inner, x), done, w)
  BY <1>1, BelowKept, Zenon
<1> QED
  BY <1>1, <1>2, Zenon DEF Waiting

\* What cannot be read in the child cannot be read in the block.
LEMMA WaitingDead ==
    ASSUME NEW seg \in Seq(AllTokens), NEW inner \in Seq(AllTokens), NEW b,
           Waiting(seg, inner, b), NEW x \in AllTokens, Dead(inner, x),
           IsClosing(x) => Readings[inner] = {}
    PROVE  Dead(seg, x)
<1>1. PICK done, w : IsBegun(b, done, w) /\ BelowReads(seg, inner, done, w)
  BY Zenon DEF Waiting
<1> QED
  BY <1>1, BelowDead, Zenon

\* A word.
LEMMA TopLevelWord ==
    ASSUME NEW seg \in Seq(AllTokens), NEW b, TopLevel(seg, b), NEW t \in Seq(Characters)
    PROVE  Within(Append(seg, Word(t)), AddToken(b, t))
<1>1. CASE last = "NORMAL"
  <2>1. PICK done, w : IsBegun(b, done, w) /\ TopReads(seg, done, w)
    BY <1>1, Zenon DEF TopLevel, Within
  <2> DEFINE s == [tokens |-> w, child_block |-> NoBlock]
             more == Append(w, t)
             v == [tokens |-> more, child_block |-> NoBlock]
  <2>2. w \in Texted /\ w # << >> /\ Sequential(done) /\ b = Append(done, s)
    BY <2>1, Zenon DEF IsBegun
  <2>3. TopReads(Append(seg, Word(t)), done, more) /\ more \in Texted
    BY <2>1, <2>2, TopWord
  <2>4. more # << >>
    <3> DEFINE R == Seq(Characters)
    <3>1. w \in Seq(R) /\ t \in R
      BY <2>2 DEF Texted
    <3> HIDE DEF R
    <3> QED
      BY <3>1, AppendProperties
  <2>5. b[Len(b)] = s /\ [b EXCEPT ![Len(b)] = v] = Append(done, v)
    <3> HIDE DEF s, v
    <3>1. LastIs(b, done, s, v)
      BY <2>2, LastReplaced, Zenon
    <3> QED
      BY <3>1, Zenon DEF LastIs
  <2>6. AddToken(b, t) = [b EXCEPT ![Len(b)].tokens = Append(b[Len(b)].tokens, t)]
    BY <1>1 DEF AddToken
  <2>7. [b[Len(b)] EXCEPT !.tokens = Append(b[Len(b)].tokens, t)] = v
    <3>1. s.tokens = w
      OBVIOUS
    <3>2. Append(s.tokens, t) = more
      BY <3>1
    <3> HIDE DEF more
    <3>3. [s EXCEPT !.tokens = more] = v
      OBVIOUS
    <3>4. b[Len(b)] = s
      BY <2>5, Zenon
    <3> HIDE DEF s, v
    <3> QED
      BY <3>2, <3>3, <3>4
  <2>8. AddToken(b, t)
          = [b EXCEPT ![Len(b)] = [b[Len(b)] EXCEPT !.tokens = Append(b[Len(b)].tokens, t)]]
    BY <2>6
  <2>9. AddToken(b, t) = Append(done, v)
    BY <2>5, <2>7, <2>8, Zenon
  <2>10. IsBegun(AddToken(b, t), done, more)
    BY <2>2, <2>3, <2>4, <2>9, Zenon DEF IsBegun
  <2> QED
    BY <2>3, <2>10, Zenon DEF Within
<1>2. CASE last # "NORMAL"
  <2> DEFINE more == Append(<< >>, t)
             v == [tokens |-> more, child_block |-> NoBlock]
  <2>1. Sequential(b) /\ TopReads(seg, b, << >>)
    BY <1>2 DEF TopLevel
  <2>2. << >> \in Texted
    BY DEF Texted
  <2>3. TopReads(Append(seg, Word(t)), b, more) /\ more \in Texted
    BY <2>1, <2>2, TopWord
  <2>4. more # << >> /\ more = <<t>>
    OBVIOUS
  <2>5. AddToken(b, t) = Append(b, v)
    BY <1>2, <2>4, Zenon DEF AddToken
  <2>6. IsBegun(AddToken(b, t), b, more)
    BY <2>1, <2>3, <2>4, <2>5, Zenon DEF IsBegun
  <2> QED
    BY <2>3, <2>6, Zenon DEF Within
<1> QED
  BY <1>1, <1>2

\* A semicolon, ...
LEMMA WithinSemicolon ==
    ASSUME NEW seg \in Seq(AllTokens), NEW b, Within(seg, b), NEW x \in AllTokens,
           IsSemicolon(x)
    PROVE  TopReads(Append(seg, x), b, << >>) /\ Sequential(b)
<1>1. PICK done, w : IsBegun(b, done, w) /\ TopReads(seg, done, w)
  BY Zenon DEF Within
<1> DEFINE s == [tokens |-> w, child_block |-> NoBlock]
<1>2. w \in Texted /\ w # << >> /\ Sequential(done) /\ b = Append(done, s)
  BY <1>1, Zenon DEF IsBegun
<1>3. b = done \o <<s>> /\ Sequential(b)
  <2> HIDE DEF s
  <2>1. LastIs(b, done, s, s)
    BY <1>2, LastReplaced, Zenon
  <2> QED
    BY <1>2, <2>1, Zenon DEF LastIs
<1>4. TopReads(Append(seg, x), done \o <<s>>, << >>)
  BY <1>1, <1>2, TopSemicolon, Zenon
<1> QED
  BY <1>3, <1>4, Zenon

\* ... an opening brace, ...
LEMMA WithinOpening ==
    ASSUME NEW seg \in Seq(AllTokens), NEW b, Within(seg, b), NEW x \in AllTokens,
           IsOpening(x)
    PROVE  Waiting(Append(seg, x), << >>, b)
<1>1. PICK done, w : IsBegun(b, done, w) /\ TopReads(seg, done, w)
  BY Zenon DEF Within
<1>2. w \in Texted /\ w # << >>
  BY <1>1 DEF IsBegun
<1>3. BelowReads(Append(seg, x), << >>, done, w)
  BY <1>1, <1>2, TopOpening, Zenon
<1> QED
  BY <1>1, <1>3, Zenon DEF Waiting

\* ... and a closing brace.
Joined(b, inside) == [b EXCEPT ![Len(b)].child_block = inside]

\* The child is closed, and is what has been read in it.
LEMMA WaitingClosing ==
    ASSUME NEW seg \in Seq(AllTokens), NEW inner \in Seq(AllTokens), NEW b,
           Waiting(seg, inner, b), NEW inside, Sequential(inside),
           TopReads(inner, inside, << >>), NEW x \in AllTokens, IsClosing(x),
           NEW joined, joined = Joined(b, inside)
    PROVE  TopReads(Append(seg, x), joined, << >>) /\ Sequential(joined)
<1>1. PICK done, w : IsBegun(b, done, w) /\ BelowReads(seg, inner, done, w)
  BY Zenon DEF Waiting
<1> DEFINE s == [tokens |-> w, child_block |-> NoBlock]
           v == [tokens |-> w, child_block |-> inside]
<1>2. w \in Texted /\ Sequential(done) /\ b = Append(done, s)
  BY <1>1, Zenon DEF IsBegun
<1>3. /\ b[Len(b)] = s /\ [b EXCEPT ![Len(b)] = v] = Append(done, v)
      /\ Append(done, v) = done \o <<v>> /\ Sequential(Append(done, v))
  <2> HIDE DEF s, v
  <2>1. LastIs(b, done, s, v)
    BY <1>2, LastReplaced, Zenon
  <2> QED
    BY <2>1, Zenon DEF LastIs
<1>4. [b[Len(b)] EXCEPT !.child_block = inside] = v
  <2>1. [s EXCEPT !.child_block = inside] = v
    OBVIOUS
  <2>2. b[Len(b)] = s
    BY <1>3, Zenon
  <2> HIDE DEF s, v
  <2> QED
    BY <2>1, <2>2
<1>5. joined = [b EXCEPT ![Len(b)] = [b[Len(b)] EXCEPT !.child_block = inside]]
  BY Zenon DEF Joined
<1>6. joined = done \o <<v>> /\ Sequential(joined)
  <2> HIDE DEF s, v
  <2>1. joined = [b EXCEPT ![Len(b)] = v]
    BY <1>4, <1>5, Zenon
  <2> QED
    BY <1>3, <2>1, Zenon
<1>7. TopReads(Append(seg, x), done \o <<v>>, << >>)
  BY <1>1, <1>2, BlockClosed, Zenon
<1> QED
  BY <1>6, <1>7, Zenon

\* What Parse goes by.
LastKnown ==
    /\ last \in {"START", "NORMAL", "START_BLOCK", "END_BLOCK", "STATEMENT_END"}
    /\ last = "START" => Len(stack) = 1
    /\ last = "START_BLOCK" => Len(stack) > 1

\* For every block that is open the tokens that have come since it began.
Levels(segs) ==
    /\ LastKnown
    /\ segs \in Seq(Seq(AllTokens)) /\ Len(segs) = Len(stack)
    /\ \A i \in 1..(Len(stack) - 1) : Waiting(segs[i], segs[i + 1], stack[i])
    /\ TopLevel(segs[Len(stack)], top)

\* The blocks after a step.
LEMMA LevelsNext ==
    ASSUME NEW m \in Nat \ {0}, Len(stack') = m, LastKnown',
           NEW more \in Seq(Seq(AllTokens)), Len(more) = m,
           \A i \in 1..(m - 1) : Waiting(more[i], more[i + 1], stack'[i]),
           NEW b, b = stack'[m],
           IF last' = "NORMAL" THEN Within(more[m], b)
                               ELSE Sequential(b) /\ TopReads(more[m], b, << >>)
    PROVE  Levels(more)'
<1>1. top' = b
  BY DEF top
<1>2. TopLevel(more[m], b)'
  BY DEF TopLevel
<1>3. TopLevel(more[Len(stack)], top)'
  BY <1>1, <1>2 DEF TopLevel
<1> QED
  BY <1>3 DEF Levels

\* One token more in each of the first n blocks.
IsAppended(segs, x, n, more) ==
    /\ more \in Seq(Seq(AllTokens)) /\ Len(more) = n
    /\ \A i \in 1..n : more[i] = Append(segs[i], x)

\* There are such blocks.
LEMMA AppendedExists ==
    ASSUME NEW segs \in Seq(Seq(AllTokens)), NEW x \in AllTokens, NEW n \in Nat, n <= Len(segs)
    PROVE  \E more : IsAppended(segs, x, n, more)
<1> DEFINE T == Seq(AllTokens)
           more == [i \in 1..n |-> Append(segs[i], x)]
<1>1. \A i \in 1..n : Append(segs[i], x) \in T
  <2>1. \A i \in 1..n : segs[i] \in T
    <3> HIDE DEF T
    <3> QED
      BY DEF T
  <2> QED
    BY <2>1, AppendProperties
<1> HIDE DEF T
<1>2. more \in [1..n -> T]
  BY <1>1
<1>3. more \in Seq(T) /\ Len(more) = n
  BY <1>2
<1>4. \A i \in 1..n : more[i] = Append(segs[i], x)
  OBVIOUS
<1> HIDE DEF more
<1> QED
  BY <1>3, <1>4 DEF IsAppended, T

\* What is known of the blocks that are open.
LEMMA LevelsKnown ==
    ASSUME ParserInv, NEW segs, Levels(segs)
    PROVE  /\ Len(stack) \in Nat \ {0} /\ Len(segs) = Len(stack)
           /\ segs \in Seq(Seq(AllTokens)) /\ \A i \in 1..Len(stack) : segs[i] \in Seq(AllTokens)
           /\ \A i \in 1..(Len(stack) - 1) : Waiting(segs[i], segs[i + 1], stack[i])
           /\ \A i \in 1..(Len(stack) - 1) : Readings[segs[i]] = {}
           /\ TopLevel(segs[Len(stack)], top)
<1>1. Len(stack) \in Nat \ {0}
  BY BelowTop DEF ParserInv
<1>2. segs \in Seq(Seq(AllTokens)) /\ Len(segs) = Len(stack)
  BY DEF Levels
<1>3. \A i \in 1..Len(stack) : segs[i] \in Seq(AllTokens)
  <2> DEFINE T == Seq(AllTokens)
  <2>1. segs \in Seq(T)
    BY <1>2
  <2> HIDE DEF T
  <2>2. \A i \in 1..Len(stack) : segs[i] \in T
    BY <1>2, <2>1
  <2> QED
    BY <2>2 DEF T
<1>4. \A i \in 1..(Len(stack) - 1) : Waiting(segs[i], segs[i + 1], stack[i])
  BY DEF Levels
<1>5. \A i \in 1..(Len(stack) - 1) : Readings[segs[i]] = {}
  BY <1>1, <1>3, <1>4, WaitingOpen
<1> QED
  BY <1>1, <1>2, <1>3, <1>4, <1>5 DEF Levels

\* The lower blocks keep a token that does not close one of their children.
LEMMA LowerKept ==
    ASSUME ParserInv, NEW segs, Levels(segs), NEW x \in AllTokens,
           NEW i \in 1..(Len(stack) - 1), IsClosing(x) => i < Len(stack) - 1
    PROVE  Waiting(Append(segs[i], x), Append(segs[i + 1], x), stack[i])
<1>1. Len(stack) \in Nat \ {0} /\ i \in 1..Len(stack) /\ i + 1 \in 1..Len(stack)
  BY LevelsKnown
<1>2. IsClosing(x) => i + 1 \in 1..(Len(stack) - 1)
  BY <1>1
<1>3. IsClosing(x) => Readings[segs[i + 1]] = {}
  BY <1>2, LevelsKnown
<1> QED
  BY <1>1, <1>3, LevelsKnown, WaitingKept

\* What cannot be read in the innermost block cannot be read at all.
LEMMA LevelsDead ==
    ASSUME ParserInv, NEW segs, Levels(segs), NEW x \in AllTokens,
           Dead(segs[Len(stack)], x),
           IsClosing(x) => Len(stack) = 1 \/ Readings[segs[Len(stack)]] = {}
    PROVE  Dead(segs[1], x)
<1> DEFINE n == Len(stack)
           G == {k \in Nat : k < n => Dead(segs[n - k], x)}
<1>1. n \in Nat \ {0} /\ \A i \in 1..n : segs[i] \in Seq(AllTokens)
  BY LevelsKnown
<1>2. \A i \in 1..(n - 1) : Waiting(segs[i], segs[i + 1], stack[i])
  BY LevelsKnown
<1>3. \A i \in 1..(n - 1) : IsClosing(x) => Readings[segs[i + 1]] = {}
  <2>1. \A i \in 1..(n - 1) : Readings[segs[i]] = {}
    BY LevelsKnown
  <2> HIDE DEF n
  <2>2. IsClosing(x) => n = 1 \/ Readings[segs[n]] = {}
    BY DEF n
  <2>3. ASSUME NEW i \in 1..(n - 1), IsClosing(x)
        PROVE  Readings[segs[i + 1]] = {}
    <3>1. CASE i + 1 = n
      <4>1. n # 1
        BY <1>1, <3>1
      <4> QED
        BY <2>2, <2>3, <3>1, <4>1
    <3>2. CASE i + 1 # n
      <4>1. i + 1 \in 1..(n - 1)
        BY <1>1, <3>2
      <4> QED
        BY <2>1, <4>1
    <3> QED
      BY <3>1, <3>2
  <2> QED
    BY <2>3
<1>4. Dead(segs[n], x)
  OBVIOUS
<1> HIDE DEF n
<1>5. 0 \in G
  BY <1>1, <1>4
<1>6. ASSUME NEW k \in Nat, k \in G
      PROVE  k + 1 \in G
  <2> SUFFICES ASSUME k + 1 < n
               PROVE  Dead(segs[n - (k + 1)], x)
    OBVIOUS
  <2> DEFINE i == n - (k + 1)
  <2>1. i \in 1..(n - 1) /\ i + 1 = n - k /\ k < n
    BY <1>1
  <2>2. Dead(segs[i + 1], x)
    BY <1>6, <2>1
  <2>3. segs[i] \in Seq(AllTokens) /\ segs[i + 1] \in Seq(AllTokens)
    BY <1>1, <2>1
  <2> HIDE DEF i
  <2>4. Waiting(segs[i], segs[i + 1], stack[i]) /\ (IsClosing(x) => Readings[segs[i + 1]] = {})
    BY <1>2, <1>3, <2>1
  <2>5. Dead(segs[i], x)
    BY <2>2, <2>3, <2>4, WaitingDead
  <2> QED
    BY <2>5 DEF i
<1> HIDE DEF G
<1>7. Nat \subseteq G
  BY <1>5, <1>6, EveryNumber
<1>8. n - 1 \in G /\ n - 1 < n /\ n - (n - 1) = 1
  BY <1>1, <1>7
<1>9. Dead(segs[n - (n - 1)], x)
  BY <1>8 DEF G
<1> QED
  BY <1>8, <1>9

\* The tokens of the blocks after a token that Parse accepts.
GrownLevels(segs, x) == \E more : Levels(more)' /\ more[1] = Append(segs[1], x)

\* A stack is what is below the top, and then something.
IsRaised(n, below, b, s) ==
    Len(s) = n /\ s[n] = b /\ \A i \in 1..(n - 1) : s[i] = below[i]

\* Appending makes one.
LEMMA Raised ==
    ASSUME NEW S, NEW below \in Seq(S), NEW b, NEW s, s = Append(below, b)
    PROVE  IsRaised(Len(below) + 1, below, b, s)
<1> DEFINE T == S \cup {b}
<1>1. below \in Seq(T) /\ b \in T
  BY SeqMonotone
<1> HIDE DEF T
<1>2. /\ Len(s) = Len(below) + 1 /\ s[Len(below) + 1] = b
      /\ \A i \in 1..Len(below) : s[i] = below[i]
  BY <1>1, AppendProperties
<1> QED
  BY <1>1, <1>2 DEF IsRaised

\* A word goes to the innermost block, ...
LEMMA WordLevels ==
    ASSUME ParserInv, NEW segs, Levels(segs), NEW t \in Seq(Characters),
           stack' = Append(Below, AddToken(top, t)), last' = "NORMAL"
    PROVE  GrownLevels(segs, Word(t))
<1> DEFINE n == Len(stack)
<1>1. PICK x : x = Word(t)
  OBVIOUS
<1>2. x \in AllTokens /\ ~IsClosing(x)
  <2>1. x.type = "word"
    BY <1>1 DEF Word
  <2> QED
    BY <1>1, <2>1, TokensMade, KindsDiffer, Zenon
<1>3. PICK T, B : Typed(T, B)
  BY DEF ParserInv
<1>4. /\ Below \in Seq(Seq(Statements(T, B))) /\ Len(Below) = n - 1 /\ n \in Nat \ {0}
      /\ \A i \in 1..Len(Below) : Below[i] = stack[i]
  BY <1>3, BelowTop
<1>5. PICK b : b = AddToken(top, t)
  OBVIOUS
<1>6. IsRaised(Len(Below) + 1, Below, b, stack')
  BY <1>4, <1>5, Raised, Zenon
<1>7. Len(stack') = n /\ stack'[n] = b /\ \A i \in 1..(n - 1) : stack'[i] = stack[i]
  <2> HIDE DEF n
  <2> QED
    BY <1>4, <1>6 DEF IsRaised
<1>8. /\ segs \in Seq(Seq(AllTokens)) /\ Len(segs) = n
      /\ \A i \in 1..n : segs[i] \in Seq(AllTokens)
      /\ TopLevel(segs[n], top)
  BY LevelsKnown
<1>9. PICK more : IsAppended(segs, x, n, more)
  BY <1>2, <1>4, <1>8, AppendedExists
<1>10. \A i \in 1..(n - 1) : Waiting(more[i], more[i + 1], stack'[i])
  <2>1. ASSUME NEW i \in 1..(n - 1)
        PROVE  Waiting(more[i], more[i + 1], stack'[i])
    <3>1. Waiting(Append(segs[i], x), Append(segs[i + 1], x), stack[i])
      BY <1>2, LowerKept
    <3>2. i \in 1..n /\ i + 1 \in 1..n
      BY <1>4
    <3> HIDE DEF n
    <3>3. more[i] = Append(segs[i], x) /\ more[i + 1] = Append(segs[i + 1], x)
      BY <1>9, <3>2 DEF IsAppended
    <3> QED
      BY <1>7, <3>1, <3>3
  <2> QED
    BY <2>1
<1>11. n \in 1..n /\ 1 \in 1..n
  BY <1>4
<1>12. Within(more[n], b)
  <2>1. Within(Append(segs[n], x), b)
    BY <1>1, <1>5, <1>8, <1>11, TopLevelWord
  <2> QED
    BY <1>9, <1>11, <2>1 DEF IsAppended
<1>13. LastKnown'
  BY DEF LastKnown
<1>14. Levels(more)'
  <2>1. more \in Seq(Seq(AllTokens)) /\ Len(more) = n
    BY <1>9 DEF IsAppended
  <2> HIDE DEF n
  <2> QED
    BY <1>4, <1>7, <1>10, <1>12, <1>13, <2>1, LevelsNext
<1>15. more[1] = Append(segs[1], x)
  BY <1>9, <1>11 DEF IsAppended
<1> QED
  BY <1>1, <1>14, <1>15 DEF GrownLevels

\* ... a semicolon ends a statement of it, ...
LEMMA SemicolonLevels ==
    ASSUME ParserInv, NEW segs, Levels(segs), NEW x \in AllTokens, IsSemicolon(x),
           stack' = stack, last = "NORMAL", last' = "STATEMENT_END"
    PROVE  GrownLevels(segs, x)
<1> DEFINE n == Len(stack)
<1>1. ~IsClosing(x)
  BY KindsDiffer
<1>2. /\ n \in Nat \ {0} /\ segs \in Seq(Seq(AllTokens)) /\ Len(segs) = n
      /\ \A i \in 1..n : segs[i] \in Seq(AllTokens)
      /\ TopLevel(segs[n], top)
  BY LevelsKnown
<1>3. PICK more : IsAppended(segs, x, n, more)
  BY <1>2, AppendedExists
<1>4. n \in 1..n /\ 1 \in 1..n
  BY <1>2
<1>5. \A i \in 1..(n - 1) : Waiting(more[i], more[i + 1], stack'[i])
  <2>1. ASSUME NEW i \in 1..(n - 1)
        PROVE  Waiting(more[i], more[i + 1], stack'[i])
    <3>1. Waiting(Append(segs[i], x), Append(segs[i + 1], x), stack[i])
      BY <1>1, LowerKept
    <3>2. i \in 1..n /\ i + 1 \in 1..n
      BY <1>2
    <3> HIDE DEF n
    <3>3. more[i] = Append(segs[i], x) /\ more[i + 1] = Append(segs[i + 1], x)
      BY <1>3, <3>2 DEF IsAppended
    <3> QED
      BY <3>1, <3>3
  <2> QED
    BY <2>1
<1>6. TopReads(more[n], top, << >>) /\ Sequential(top)
  <2>1. Within(segs[n], top)
    BY <1>2 DEF TopLevel
  <2>2. TopReads(Append(segs[n], x), top, << >>) /\ Sequential(top)
    BY <1>2, <1>4, <2>1, WithinSemicolon
  <2> QED
    BY <1>3, <1>4, <2>2 DEF IsAppended
<1>7. LastKnown'
  BY DEF LastKnown
<1>8. Levels(more)'
  <2>1. more \in Seq(Seq(AllTokens)) /\ Len(more) = n
    BY <1>3 DEF IsAppended
  <2>2. PICK b : b = top
    OBVIOUS
  <2>3. b = stack'[n] /\ Len(stack') = n
    BY <2>2 DEF top
  <2> HIDE DEF n
  <2>4. TopReads(more[n], b, << >>) /\ Sequential(b) /\ last' # "NORMAL"
    BY <1>6, <2>2
  <2> QED
    BY <1>2, <1>5, <1>7, <2>1, <2>3, <2>4, LevelsNext
<1>9. more[1] = Append(segs[1], x)
  BY <1>3, <1>4 DEF IsAppended
<1> QED
  BY <1>8, <1>9 DEF GrownLevels

\* ... an opening brace begins a block in it, ...
LEMMA OpeningLevels ==
    ASSUME ParserInv, NEW segs, Levels(segs), NEW x \in AllTokens, IsOpening(x),
           stack' = Append(stack, << >>), last = "NORMAL", last' = "START_BLOCK"
    PROVE  GrownLevels(segs, x)
<1> DEFINE n == Len(stack)
           T == Seq(AllTokens)
<1>1. ~IsClosing(x)
  BY KindsDiffer
<1>2. /\ n \in Nat \ {0} /\ segs \in Seq(Seq(AllTokens)) /\ Len(segs) = n
      /\ \A i \in 1..n : segs[i] \in Seq(AllTokens)
      /\ TopLevel(segs[n], top)
  BY LevelsKnown
<1>3. PICK raised : IsAppended(segs, x, n, raised)
  BY <1>2, AppendedExists
<1>4. n \in 1..n /\ 1 \in 1..n /\ n + 1 \in Nat \ {0}
  BY <1>2
<1>5. PICK nothing : nothing = << >>
  OBVIOUS
<1>6. IsRaised(n + 1, stack, nothing, stack')
  <2>1. PICK U, B : stack \in Seq(Seq(Statements(U, B)))
    BY DEF ParserInv, Typed
  <2> QED
    BY <1>5, <2>1, Raised, Zenon
<1>7. PICK more : more = Append(raised, nothing)
  OBVIOUS
<1>8. more \in Seq(T) /\ raised \in Seq(T) /\ Len(raised) = n
  <2>1. raised \in Seq(T) /\ nothing \in T /\ Len(raised) = n
    BY <1>3, <1>5 DEF IsAppended
  <2> HIDE DEF T
  <2> QED
    BY <1>7, <2>1, AppendProperties
<1>9. IsRaised(n + 1, raised, nothing, more)
  <2> HIDE DEF T
  <2>1. IsRaised(Len(raised) + 1, raised, nothing, more)
    BY <1>7, <1>8, Raised
  <2> QED
    BY <1>8, <2>1
<1>10. TopReads(nothing, nothing, nothing) /\ Sequential(nothing)
  BY <1>5, TopNothing, OneSequential
<1>11. \A i \in 1..((n + 1) - 1) : Waiting(more[i], more[i + 1], stack'[i])
  <2>1. ASSUME NEW i \in 1..(n - 1)
        PROVE  Waiting(more[i], more[i + 1], stack'[i])
    <3>1. Waiting(Append(segs[i], x), Append(segs[i + 1], x), stack[i])
      BY <1>1, LowerKept
    <3>2. i \in 1..n /\ i + 1 \in 1..n /\ i \in 1..((n + 1) - 1) /\ i + 1 \in 1..((n + 1) - 1)
      BY <1>2
    <3> HIDE DEF n
    <3>3. more[i] = Append(segs[i], x) /\ more[i + 1] = Append(segs[i + 1], x)
      BY <1>3, <1>9, <3>2 DEF IsAppended, IsRaised
    <3>4. stack'[i] = stack[i]
      BY <1>6, <3>2 DEF IsRaised
    <3> QED
      BY <3>1, <3>3, <3>4
  <2>2. Waiting(more[n], more[n + 1], stack'[n])
    <3>1. Within(segs[n], top)
      BY <1>2 DEF TopLevel
    <3>2. Waiting(Append(segs[n], x), << >>, top)
      BY <1>2, <1>4, <3>1, WithinOpening
    <3>3. top = stack[n]
      BY DEF top
    <3> HIDE DEF n
    <3>4. n \in 1..((n + 1) - 1)
      BY <1>2
    <3>5. more[n] = Append(segs[n], x) /\ more[n + 1] = << >> /\ stack'[n] = stack[n]
      BY <1>3, <1>4, <1>5, <1>6, <1>9, <3>4 DEF IsAppended, IsRaised
    <3> QED
      BY <3>2, <3>3, <3>5
  <2> HIDE DEF n
  <2>3. \A i \in 1..((n + 1) - 1) : i = n \/ i \in 1..(n - 1)
    BY <1>2
  <2> QED
    BY <2>1, <2>2, <2>3
<1>12. Len(stack') = n + 1 /\ nothing = stack'[n + 1] /\ more[n + 1] = nothing /\ Len(more) = n + 1
  BY <1>6, <1>9 DEF IsRaised
<1>13. LastKnown'
  BY <1>2, <1>12 DEF LastKnown
<1>14. Levels(more)'
  <2>1. more \in Seq(Seq(AllTokens))
    BY <1>8
  <2> HIDE DEF n, T
  <2>2. TopReads(more[n + 1], nothing, << >>) /\ Sequential(nothing) /\ last' # "NORMAL"
    BY <1>5, <1>10, <1>12
  <2> QED
    BY <1>4, <1>11, <1>12, <1>13, <2>1, <2>2, LevelsNext
<1>15. more[1] = Append(segs[1], x)
  <2> HIDE DEF n
  <2>1. 1 \in 1..((n + 1) - 1)
    BY <1>2
  <2> QED
    BY <1>3, <1>4, <1>9, <2>1 DEF IsAppended, IsRaised
<1> QED
  BY <1>14, <1>15 DEF GrownLevels

\* ... and a closing brace ends it.
LEMMA ClosingLevels ==
    ASSUME ParserInv, NEW segs, Levels(segs), NEW x \in AllTokens, IsClosing(x),
           Len(stack) > 1, last # "NORMAL", last' = "END_BLOCK",
           NEW token, stack' = Grown("END_BLOCK", token)
    PROVE  GrownLevels(segs, x)
<1> DEFINE n == Len(stack)
           m == n - 1
           parent == Below[m]
           joined == [parent EXCEPT ![Len(parent)].child_block = top]
<1>1. /\ n \in Nat \ {0} /\ segs \in Seq(Seq(AllTokens)) /\ Len(segs) = n
      /\ \A i \in 1..n : segs[i] \in Seq(AllTokens)
      /\ TopLevel(segs[n], top)
      /\ \A i \in 1..(n - 1) : Waiting(segs[i], segs[i + 1], stack[i])
  BY LevelsKnown
<1>2. m \in Nat \ {0} /\ n = m + 1
  BY <1>1
<1>3. PICK T, B : Typed(T, B)
  BY DEF ParserInv
<1>4. /\ Below \in Seq(Seq(Statements(T, B))) /\ Len(Below) = m
      /\ \A i \in 1..Len(Below) : Below[i] = stack[i]
  BY <1>3, BelowTop
<1>5. PICK b : b = joined
  OBVIOUS
<1>6. stack' = [Below EXCEPT ![m] = b]
  BY <1>4, <1>5 DEF Grown
<1>7. Len(stack') = m /\ stack'[m] = b /\ \A i \in 1..(m - 1) : stack'[i] = stack[i]
  <2> DEFINE R == Seq(Statements(T, B)) \cup {b}
  <2>1. Below \in Seq(R) /\ b \in R
    BY <1>4, SeqMonotone
  <2> HIDE DEF R, m
  <2>2. IsReplaced(R, Below, m, b, [Below EXCEPT ![m] = b])
    BY <1>2, <1>4, <2>1, Replaced, Zenon
  <2>3. IsReplaced(R, Below, m, b, stack')
    BY <1>6, <2>2, Zenon
  <2>4. m \in 1..m /\ \A i \in 1..(m - 1) : i \in 1..m /\ i # m
    BY <1>2
  <2> QED
    BY <1>4, <2>3, <2>4 DEF IsReplaced
<1>8. PICK more : IsAppended(segs, x, m, more)
  <2>1. x \in AllTokens /\ m \in Nat /\ m <= Len(segs)
    BY <1>1
  <2> HIDE DEF m
  <2> QED
    BY <1>1, <2>1, AppendedExists
<1>9. \A i \in 1..(m - 1) : Waiting(more[i], more[i + 1], stack'[i])
  <2>1. ASSUME NEW i \in 1..(m - 1)
        PROVE  Waiting(more[i], more[i + 1], stack'[i])
    <3>1. i \in 1..(Len(stack) - 1) /\ i < Len(stack) - 1 /\ i \in 1..m /\ i + 1 \in 1..m
      BY <1>1, <1>2
    <3>2. Waiting(Append(segs[i], x), Append(segs[i + 1], x), stack[i])
      BY <3>1, LowerKept
    <3> HIDE DEF m
    <3>3. more[i] = Append(segs[i], x) /\ more[i + 1] = Append(segs[i + 1], x)
      BY <1>8, <3>1 DEF IsAppended
    <3> QED
      BY <1>7, <3>2, <3>3
  <2> QED
    BY <2>1
<1>10. TopReads(more[m], b, << >>) /\ Sequential(b)
  <2>1. TopReads(segs[n], top, << >>) /\ Sequential(top)
    BY <1>1 DEF TopLevel
  <2>2. m \in 1..(n - 1) /\ m \in 1..n /\ n \in 1..n /\ m \in 1..m /\ m + 1 = n
    BY <1>1, <1>2
  <2>3. /\ Waiting(segs[m], segs[n], stack[m])
        /\ segs[m] \in Seq(AllTokens) /\ segs[n] \in Seq(AllTokens)
    BY <1>1, <2>2
  <2>4. parent = stack[m]
    BY <1>4, <2>2
  <2> HIDE DEF m
  <2>5. TopReads(Append(segs[m], x), b, << >>) /\ Sequential(b)
    <3>1. PICK p : p = parent
      OBVIOUS
    <3>2. b = Joined(p, top)
      BY <1>5, <3>1 DEF Joined
    <3>3. Waiting(segs[m], segs[n], p)
      BY <2>3, <2>4, <3>1
    <3>4. PICK inside : inside = top
      OBVIOUS
    <3>5. b = Joined(p, inside)
      BY <3>2, <3>4, Zenon
    <3>6. TopReads(segs[n], inside, << >>) /\ Sequential(inside)
      BY <2>1, <3>4
    <3>7. PICK seg, inner : seg = segs[m] /\ inner = segs[n]
      OBVIOUS
    <3>8. /\ seg \in Seq(AllTokens) /\ inner \in Seq(AllTokens) /\ Waiting(seg, inner, p)
          /\ TopReads(inner, inside, << >>) /\ Sequential(inside)
      BY <2>3, <3>3, <3>6, <3>7, Zenon
    <3>9. TopReads(Append(seg, x), b, << >>) /\ Sequential(b)
      BY <3>5, <3>8, WaitingClosing, Zenon
    <3> QED
      BY <3>7, <3>9, Zenon
  <2>6. more[m] = Append(segs[m], x)
    BY <1>8, <2>2 DEF IsAppended
  <2> QED
    BY <2>5, <2>6
<1>11. LastKnown'
  BY DEF LastKnown
<1>12. Levels(more)'
  <2>1. more \in Seq(Seq(AllTokens)) /\ Len(more) = m
    BY <1>8 DEF IsAppended
  <2> HIDE DEF m
  <2> QED
    BY <1>2, <1>7, <1>9, <1>10, <1>11, <2>1, LevelsNext
<1>13. more[1] = Append(segs[1], x)
  <2>1. 1 \in 1..m
    BY <1>2
  <2> HIDE DEF m
  <2> QED
    BY <1>8, <2>1 DEF IsAppended
<1> QED
  BY <1>12, <1>13 DEF GrownLevels

\* The first block has all the tokens, and one more is one less to come.
LEMMA FirstBlock ==
    ASSUME ParserInv, NEW segs, Levels(segs)
    PROVE  /\ segs[1] \in Seq(AllTokens) /\ segs[Len(stack)] \in Seq(AllTokens)
           /\ \A x \in AllTokens, u \in Seq(AllTokens) :
                 Append(segs[1], x) \o u = segs[1] \o (<<x>> \o u)
           /\ Len(stack) = 1 \/ (Len(stack) > 1 /\ 1 \in 1..(Len(stack) - 1))
<1>1. 1 \in 1..Len(stack) /\ Len(stack) \in 1..Len(stack)
  BY LevelsKnown
<1>2. segs[1] \in Seq(AllTokens) /\ segs[Len(stack)] \in Seq(AllTokens)
  BY <1>1, LevelsKnown
<1>3. ASSUME NEW x \in AllTokens, NEW u \in Seq(AllTokens)
      PROVE  Append(segs[1], x) \o u = segs[1] \o (<<x>> \o u)
  <2>1. PICK a : a = segs[1]
    OBVIOUS
  <2>2. a \in Seq(AllTokens)
    BY <1>2, <2>1
  <2>3. Append(a, x) \o u = a \o (<<x>> \o u)
    BY <2>2, AppendThen
  <2> QED
    BY <2>1, <2>3, Zenon
<1>4. Len(stack) > 1 => 1 \in 1..(Len(stack) - 1)
  BY <1>1
<1>5. Len(stack) = 1 \/ Len(stack) > 1
  <2>1. Len(stack) \in Nat \ {0}
    BY LevelsKnown, Zenon
  <2> QED
    BY <2>1
<1> QED
  BY <1>2, <1>3, <1>4, <1>5, Zenon

\* Where a statement is in its middle nothing is complete.
LEMMA WithinOpen ==
    ASSUME NEW seg \in Seq(AllTokens), NEW b, Within(seg, b)
    PROVE  Readings[seg] = {}
<1>1. PICK done, w : IsBegun(b, done, w) /\ TopReads(seg, done, w)
  BY Zenon DEF Within
<1>2. Sequential(done) /\ w \in Texted /\ w # << >>
  BY <1>1, Zenon DEF IsBegun
<1>3. Readings[seg] = IF w = << >> THEN {done} ELSE {}
  BY <1>1, <1>2, TopAlone, Zenon
<1> QED
  BY <1>2, <1>3, Zenon

\* A token that Parse refuses can be followed by nothing.
LEMMA RefusedDead ==
    ASSUME ParserInv, NEW segs, Levels(segs), NEW x \in AllTokens, x.type # "word",
           last = "NORMAL" => ~IsSemicolon(x) /\ ~IsOpening(x),
           IsClosing(x) => last = "NORMAL" \/ Len(stack) = 1
    PROVE  Dead(segs[1], x)
<1> DEFINE seg == segs[Len(stack)]
<1>1. seg \in Seq(AllTokens) /\ TopLevel(seg, top)
  BY FirstBlock, LevelsKnown
<1> HIDE DEF seg
<1>2. CASE last = "NORMAL"
  <2>1. Within(seg, top)
    BY <1>1, <1>2 DEF TopLevel
  <2>2. PICK done, w : IsBegun(top, done, w) /\ TopReads(seg, done, w)
    BY <2>1, Zenon DEF Within
  <2>3. w \in Texted
    BY <2>2, Zenon DEF IsBegun
  <2>4. Dead(seg, x)
    BY <1>1, <1>2, <2>2, <2>3, TopDead, Zenon
  <2>5. Readings[seg] = {}
    BY <1>1, <2>1, WithinOpen
  <2> QED
    BY <2>4, <2>5, LevelsDead DEF seg
<1>3. CASE last # "NORMAL"
  <2>1. TopReads(seg, top, << >>)
    BY <1>1, <1>3 DEF TopLevel
  <2>2. PICK w : w = << >>
    OBVIOUS
  <2>3. w \in Texted /\ TopReads(seg, top, w)
    BY <2>1, <2>2 DEF Texted
  <2>4. Dead(seg, x)
    BY <1>1, <2>2, <2>3, TopDead, Zenon
  <2> QED
    BY <1>3, <2>4, LevelsDead DEF seg
<1> QED
  BY <1>2, <1>3

\* What a token leaves: one less to come, or the verdict.
Parses(rest) ==
    \/ verdict' = "parsing"
       /\ \E more : Levels(more)' /\ Tokens[text] = more[1] \o Tokens[rest]
    \/ verdict' = "valid" /\ Readings[Tokens[text]] = {top} /\ top' = top
    \/ verdict' = "invalid" /\ Readings[Tokens[text]] = {}

\* The end of the file.
LEMMA ParsesEnd ==
    ASSUME ParserInv, NEW segs, Levels(segs), Tokens[text] = segs[1],
           NEW token, NEW rest, Token("EOF", token, rest), verdict = "parsing"
    PROVE  Parses(rest)
<1>1. /\ Len(stack) \in Nat \ {0} /\ segs[1] \in Seq(AllTokens)
      /\ TopLevel(segs[Len(stack)], top)
      /\ \A i \in 1..(Len(stack) - 1) : Readings[segs[i]] = {}
  BY FirstBlock, LevelsKnown
<1>2. LastKnown
  BY DEF Levels
<1>3. CASE MayFollow("EOF")
  <2>1. last # "NORMAL" /\ Len(stack) = 1
    BY <1>3 DEF MayFollow
  <2>2. verdict' = "valid" /\ stack' = stack
    BY <1>3 DEF Token, Grown
  <2>3. Sequential(top) /\ TopReads(segs[1], top, << >>)
    BY <1>1, <2>1 DEF TopLevel
  <2>4. PICK w : w = << >>
    OBVIOUS
  <2>5. w \in Texted /\ TopReads(segs[1], top, w)
    BY <2>3, <2>4 DEF Texted
  <2>6. Readings[segs[1]] = IF w = << >> THEN {top} ELSE {}
    <3>1. PICK b, seg : b = top /\ seg = segs[1]
      OBVIOUS
    <3>2. Sequential(b) /\ TopReads(seg, b, w) /\ seg \in Seq(AllTokens)
      BY <1>1, <2>3, <2>5, <3>1, Zenon
    <3>3. Readings[seg] = IF w = << >> THEN {b} ELSE {}
      BY <2>5, <3>2, TopAlone, Zenon
    <3> QED
      BY <3>1, <3>3, Zenon
  <2>7. Readings[segs[1]] = {top}
    BY <2>4, <2>6
  <2>8. top' = top
    BY <2>2 DEF top
  <2> QED
    BY <2>2, <2>7, <2>8 DEF Parses
<1>4. CASE ~MayFollow("EOF")
  <2>1. verdict' = "invalid"
    BY <1>4 DEF Token
  <2>2. Len(stack) = 1 => last = "NORMAL"
    BY <1>2, <1>4 DEF MayFollow, LastKnown
  <2>3. CASE Len(stack) = 1
    <3>1. Within(segs[1], top)
      BY <1>1, <2>2, <2>3 DEF TopLevel
    <3> QED
      BY <1>1, <2>1, <3>1, WithinOpen DEF Parses
  <2>4. CASE Len(stack) # 1
    <3>1. 1 \in 1..(Len(stack) - 1)
      BY <2>4, FirstBlock, Zenon
    <3> QED
      BY <1>1, <2>1, <3>1 DEF Parses
  <2> QED
    BY <2>3, <2>4
<1> QED
  BY <1>3, <1>4

\* A token that is refused.
LEMMA ParsesRefused ==
    ASSUME ParserInv, NEW segs, Levels(segs), NEW x \in AllTokens, NEW u \in Seq(AllTokens),
           Tokens[text] = segs[1] \o (<<x>> \o u), Dead(segs[1], x),
           NEW rest, verdict' = "invalid"
    PROVE  Parses(rest)
<1>1. Readings[Append(segs[1], x) \o u] = {}
  BY Zenon DEF Dead
<1>2. Append(segs[1], x) \o u = segs[1] \o (<<x>> \o u)
  BY FirstBlock, Zenon
<1>3. Readings[Tokens[text]] = {}
  BY <1>1, <1>2, Zenon
<1> QED
  BY <1>3 DEF Parses

\* A token that is accepted.
LEMMA ParsesAccepted ==
    ASSUME ParserInv, NEW segs, Levels(segs), NEW x \in AllTokens, NEW rest \in Seq(Characters),
           Tokens[text] = segs[1] \o (<<x>> \o Tokens[rest]), GrownLevels(segs, x),
           verdict' = "parsing"
    PROVE  Parses(rest)
<1>1. PICK more : Levels(more)' /\ more[1] = Append(segs[1], x)
  BY DEF GrownLevels
<1>2. Tokens[rest] \in Seq(AllTokens)
  BY TokensType
<1>3. Append(segs[1], x) \o Tokens[rest] = segs[1] \o (<<x>> \o Tokens[rest])
  BY <1>2, FirstBlock, Zenon
<1>4. Tokens[text] = more[1] \o Tokens[rest]
  BY <1>1, <1>3, Zenon
<1> QED
  BY <1>1, <1>4 DEF Parses

\* What Parse does with what ParseToken returns.
LEMMA ParsesToken ==
    ASSUME ParserInv, NEW segs, Levels(segs), NEW ts, Tokens[text] = segs[1] \o ts,
           NEW type, NEW token, NEW rest \in Seq(Characters), Token(type, token, rest),
           Gives(type, token, rest, ts), verdict = "parsing"
    PROVE  Parses(rest)
<1>1. LastKnown
  BY DEF Levels
<1>2. Tokens[rest] \in Seq(AllTokens) /\ << >> \in Seq(AllTokens)
  BY TokensType
<1>3. ~MayFollow(type) => verdict' = "invalid"
  BY DEF Token
<1>4. CASE type = "COMMENT" /\ ts = Tokens[rest]
  <2>1. MayFollow(type)
    BY <1>4 DEF MayFollow
  <2>2. stack' = stack /\ last' = last /\ verdict' = verdict
    BY <1>4, <2>1 DEF Token, Grown
  <2>3. Levels(segs)'
    BY <2>2 DEF Levels, LastKnown, TopLevel, top
  <2> QED
    BY <1>4, <2>2, <2>3 DEF Parses
<1>5. CASE type = "EOF" /\ ts = << >>
  <2>1. Tokens[text] = segs[1]
    BY <1>5, FirstBlock, ConcatEmptySeq
  <2> QED
    BY <1>5, <2>1, ParsesEnd
<1>6. CASE type = "ERROR" /\ ts = <<Error>>
  <2>1. ~MayFollow(type)
    BY <1>6 DEF MayFollow
  <2>2. PICK x, u : x = Error /\ u = << >>
    OBVIOUS
  <2>3. x \in AllTokens /\ x.type = "error"
    BY <2>2, TokensMade DEF Error
  <2>4. x.type # "word" /\ ~IsSemicolon(x) /\ ~IsOpening(x) /\ ~IsClosing(x)
    BY <2>3, Zenon DEF IsSemicolon, IsOpening, IsClosing
  <2>5. Dead(segs[1], x)
    BY <2>3, <2>4, RefusedDead
  <2>6. ts = <<x>> \o u
    BY <1>6, <2>2
  <2> QED
    BY <1>2, <1>3, <2>1, <2>2, <2>3, <2>5, <2>6, ParsesRefused
<1>7. ASSUME NEW x \in AllTokens, Kind(type, token, x), ts = <<x>> \o Tokens[rest]
      PROVE  Parses(rest)
  <2>1. Tokens[text] = segs[1] \o (<<x>> \o Tokens[rest])
    BY <1>7
  <2>2. ASSUME GrownLevels(segs, x), verdict' = "parsing"
        PROVE  Parses(rest)
    BY <1>7, <2>1, <2>2, ParsesAccepted
  <2>3. ASSUME ~MayFollow(type), Dead(segs[1], x)
        PROVE  Parses(rest)
    BY <1>2, <1>3, <1>7, <2>1, <2>3, ParsesRefused
  <2>4. CASE type = "NORMAL" /\ x = Word(token) /\ token \in Seq(Characters)
    <3>1. MayFollow(type)
      BY <2>4 DEF MayFollow
    <3>2. stack' = Append(Below, AddToken(top, token)) /\ last' = "NORMAL" /\ verdict' = "parsing"
      BY <2>4, <3>1 DEF Token, Grown
    <3> QED
      BY <2>2, <2>4, <3>2, WordLevels
  <2>5. CASE type = "STATEMENT_END" /\ IsSemicolon(x)
    <3>1. MayFollow(type) <=> last = "NORMAL"
      BY <2>5 DEF MayFollow
    <3>2. CASE last = "NORMAL"
      <4>1. stack' = stack /\ last' = "STATEMENT_END" /\ verdict' = "parsing"
        BY <2>5, <3>1, <3>2 DEF Token, Grown
      <4> QED
        BY <1>7, <2>2, <2>5, <3>2, <4>1, SemicolonLevels
    <3>3. CASE last # "NORMAL"
      <4>1. Dead(segs[1], x)
        BY <1>7, <2>5, <3>3, KindsDiffer, RefusedDead
      <4> QED
        BY <2>3, <3>1, <3>3, <4>1
    <3> QED
      BY <3>2, <3>3
  <2>6. CASE type = "START_BLOCK" /\ IsOpening(x)
    <3>1. MayFollow(type) <=> last = "NORMAL"
      BY <2>6 DEF MayFollow
    <3>2. CASE last = "NORMAL"
      <4>1. stack' = Append(stack, << >>) /\ last' = "START_BLOCK" /\ verdict' = "parsing"
        BY <2>6, <3>1, <3>2 DEF Token, Grown
      <4> QED
        BY <1>7, <2>2, <2>6, <3>2, <4>1, OpeningLevels
    <3>3. CASE last # "NORMAL"
      <4>1. Dead(segs[1], x)
        BY <1>7, <2>6, <3>3, KindsDiffer, RefusedDead
      <4> QED
        BY <2>3, <3>1, <3>3, <4>1
    <3> QED
      BY <3>2, <3>3
  <2>7. CASE type = "END_BLOCK" /\ IsClosing(x)
    <3>1. MayFollow(type)
            <=> last \in {"STATEMENT_END", "END_BLOCK", "START_BLOCK"} /\ Len(stack) > 1
      BY <2>7 DEF MayFollow
    <3>2. CASE MayFollow(type)
      <4>1. stack' = Grown("END_BLOCK", token) /\ last' = "END_BLOCK" /\ verdict' = "parsing"
        BY <2>7, <3>2 DEF Token
      <4>2. last # "NORMAL" /\ Len(stack) > 1
        BY <3>1, <3>2
      <4> QED
        BY <1>7, <2>2, <2>7, <4>1, <4>2, ClosingLevels
    <3>3. CASE ~MayFollow(type)
      <4>2. last = "NORMAL" \/ Len(stack) = 1
        <5>1. last \in {"STATEMENT_END", "END_BLOCK", "START_BLOCK"} => ~(Len(stack) > 1)
          BY <3>1, <3>3, Zenon
        <5>2. ~(Len(stack) > 1) => Len(stack) = 1
          BY FirstBlock, Zenon
        <5> QED
          BY <1>1, <5>1, <5>2 DEF LastKnown
      <4>3. Dead(segs[1], x)
        BY <1>7, <2>7, <4>2, KindsDiffer, RefusedDead
      <4> QED
        BY <2>3, <3>3, <4>3
    <3> QED
      BY <3>2, <3>3
  <2> QED
    BY <1>7, <2>4, <2>5, <2>6, <2>7 DEF Kind
<1> QED
  BY <1>4, <1>5, <1>6, <1>7 DEF Gives

----------------------------------------------------------------------------
(* The configuration is the one in the file.                               *)

\* The tokens of the file are those of the blocks, and those to come; at the end
\* its configuration is what has been built.
ReadInv ==
    /\ verdict \in {"closed", "parsing"} =>
          \E segs, ts : Levels(segs) /\ Pending(ts) /\ Tokens[text] = segs[1] \o ts
    /\ ParsesConfigurations

\* Nothing has been read.
LEMMA ReadInit == ParserInit => ReadInv
<1> SUFFICES ASSUME ParserInit
             PROVE  ReadInv
  OBVIOUS
<1> DEFINE nothing == << >>
           segs == <<nothing>>
           ts == Tokens[text]
<1>1. /\ text \in Seq(Characters) /\ input = text /\ state = "WHITESPACE" /\ value = << >>
      /\ last = "START" /\ stack = << << >> >> /\ verdict = "closed"
  BY TextsAssumption DEF ParserInit
<1>2. nothing \in Seq(Characters) /\ nothing \in Seq(AllTokens) /\ nothing \o text = text
  BY <1>1
<1>3. Pending(ts)
  <2>1. Lexing(nothing)
    BY <1>1, <1>2 DEF Lexing
  <2>2. ts = Tokens[nothing \o input]
    BY <1>1, <1>2
  <2> HIDE DEF ts, nothing
  <2> QED
    BY <2>1, <2>2 DEF Pending
<1>4. ts \in Seq(AllTokens)
  BY <1>1, TokensType
<1>5. Levels(segs)
  <2>1. segs \in Seq(Seq(AllTokens)) /\ Len(segs) = 1 /\ segs[1] = nothing /\ Len(stack) = 1
    <3> DEFINE T == Seq(AllTokens)
    <3>1. nothing \in T
      BY <1>2
    <3> HIDE DEF T, nothing
    <3>2. segs \in Seq(T) /\ Len(segs) = 1 /\ segs[1] = nothing
      BY <3>1
    <3> QED
      BY <1>1, <3>2 DEF T
  <2>2. top = nothing
    BY <1>1 DEF top
  <2>3. TopLevel(nothing, nothing)
    BY <1>1, TopNothing, OneSequential DEF TopLevel
  <2>4. LastKnown
    BY <1>1 DEF LastKnown
  <2> HIDE DEF segs, nothing
  <2> QED
    BY <2>1, <2>2, <2>3, <2>4 DEF Levels
<1>6. Tokens[text] = segs[1] \o ts
  <2>1. segs[1] = << >>
    OBVIOUS
  <2> HIDE DEF segs, ts
  <2>2. << >> \o ts = ts
    BY <1>4, NoTokens
  <2> QED
    BY <2>1, <2>2 DEF ts
<1> HIDE DEF segs, ts
<1>7. \E ss, us : Levels(ss) /\ Pending(us) /\ Tokens[text] = ss[1] \o us
  BY <1>3, <1>5, <1>6
<1> QED
  BY <1>1, <1>7 DEF ReadInv, ParsesConfigurations

\* The blocks do not change while ParseToken reads.
LEMMA LevelsUnchanged ==
    ASSUME NEW segs, Levels(segs), UNCHANGED <<last, stack>>
    PROVE  Levels(segs)'
BY DEF Levels, LastKnown, TopLevel, top

\* Every step keeps the configuration of the file the one that is built.
LEMMA ReadStep == ParserInv /\ WordsInv /\ ReadInv /\ [ParserNext]_parserVars => ReadInv'
<1> SUFFICES ASSUME ParserInv, WordsInv, ReadInv, [ParserNext]_parserVars
             PROVE  ReadInv'
  OBVIOUS
<1>1. CASE UNCHANGED parserVars
  <2>1. UNCHANGED <<text, input, state, value, last, stack, verdict>>
    BY <1>1 DEF parserVars
  <2>2. top' = top
    BY <2>1 DEF top
  <2>3. ParsesConfigurations'
    BY <2>1, <2>2 DEF ReadInv, ParsesConfigurations
  <2>4. CASE verdict \in {"closed", "parsing"}
    <3>1. PICK segs, ts : Levels(segs) /\ Pending(ts) /\ Tokens[text] = segs[1] \o ts
      BY <2>4 DEF ReadInv
    <3>2. Levels(segs)'
      BY <2>1, <3>1, LevelsUnchanged
    <3>3. Pending(ts)'
      BY <2>1, <3>1 DEF Pending, Lexing, Quoted
    <3> QED
      BY <2>1, <2>3, <3>1, <3>2, <3>3 DEF ReadInv
  <2> QED
    BY <2>1, <2>3, <2>4 DEF ReadInv
<1>2. CASE ParseFile
  <2>1. verdict = "closed" /\ verdict' \in {"parsing", "missing"}
        /\ UNCHANGED <<text, input, state, value, last, stack>>
    BY <1>2 DEF ParseFile
  <2>2. PICK segs, ts : Levels(segs) /\ Pending(ts) /\ Tokens[text] = segs[1] \o ts
    BY <2>1 DEF ReadInv
  <2>3. Levels(segs)' /\ Pending(ts)'
    BY <2>1, <2>2, LevelsUnchanged DEF Pending, Lexing, Quoted
  <2>4. Tokens[text'] = segs[1] \o ts
    BY <2>1, <2>2
  <2> QED
    BY <2>1, <2>3, <2>4 DEF ReadInv, ParsesConfigurations
<1>3. CASE ParserNext /\ ~ParseFile
  <2>1. verdict = "parsing"
    BY <1>3 DEF ParserNext, InWhitespace, InComment, InNormal, InQuotes, Escaped, EndOfFile, Reading
  <2>2. PICK segs, ts : Levels(segs) /\ Pending(ts) /\ Tokens[text] = segs[1] \o ts
    BY <2>1 DEF ReadInv
  <2>3. Lexes(ts)
    BY <1>3, <2>2, LexStep DEF WordsInv
  <2>4. CASE Pending(ts)' /\ UNCHANGED <<text, last, stack, verdict>>
    <3>1. Levels(segs)' /\ Tokens[text'] = segs[1] \o ts
      BY <2>2, <2>4, LevelsUnchanged
    <3> QED
      BY <2>1, <2>4, <3>1 DEF ReadInv, ParsesConfigurations
  <2>5. CASE \E type, token, rest : /\ rest \in Seq(Characters)
                                    /\ Token(type, token, rest) /\ Gives(type, token, rest, ts)
    <3>1. PICK type, token, rest : /\ rest \in Seq(Characters)
                                   /\ Token(type, token, rest) /\ Gives(type, token, rest, ts)
      BY <2>5
    <3>2. Parses(rest)
      BY <2>1, <2>2, <3>1, ParsesToken
    <3>3. text' = text /\ input' = rest /\ state' = "WHITESPACE" /\ value' = << >>
      BY <3>1 DEF Token
    <3>4. PICK more : more = Tokens[rest]
      OBVIOUS
    <3>5. Pending(more)'
      BY <3>1, <3>3, <3>4, BetweenPending
    <3>6. CASE verdict' = "parsing" /\ \E ss : Levels(ss)' /\ Tokens[text] = ss[1] \o Tokens[rest]
      <4>1. PICK ss : Levels(ss)' /\ Tokens[text'] = ss[1] \o more
        BY <3>3, <3>4, <3>6
      <4> QED
        BY <3>5, <3>6, <4>1 DEF ReadInv, ParsesConfigurations
    <3>7. CASE verdict' = "valid" /\ Readings[Tokens[text]] = {top} /\ top' = top
      BY <3>3, <3>7 DEF ReadInv, ParsesConfigurations
    <3>8. CASE verdict' = "invalid" /\ Readings[Tokens[text]] = {}
      BY <3>3, <3>8 DEF ReadInv, ParsesConfigurations
    <3> QED
      BY <3>2, <3>6, <3>7, <3>8 DEF Parses
  <2> QED
    BY <2>3, <2>4, <2>5 DEF Lexes
<1> QED
  BY <1>1, <1>2, <1>3

\* Whatever is in the file, Parse returns true iff it holds a configuration, and
\* then builds the one that is in it.
THEOREM ParsingCorrect == ParserSpec => []ParsesConfigurations
<1>1. ParserInit => ParserInv /\ WordsInv
  <2> SUFFICES ASSUME ParserInit
               PROVE  ParserInv /\ WordsInv
    OBVIOUS
  <2>1. /\ stack = << << >> >> /\ last = "START" /\ text \in Seq(Characters) /\ input = text
        /\ state = "WHITESPACE" /\ value = << >>
    BY TextsAssumption DEF ParserInit
  <2>2. Typed({}, {}) /\ Built({}, {})
    BY <2>1 DEF Typed, Built
  <2> QED
    BY <2>1, <2>2 DEF ParserInv, Worded, WordsInv
<1> DEFINE Inv == ParserInv /\ WordsInv /\ ReadInv
<1>2. ParserInit => Inv
  BY <1>1, ReadInit
<1>3. Inv /\ [ParserNext]_parserVars => Inv'
  BY ParserStep, WordsStep, ReadStep
<1>4. Inv => ParsesConfigurations
  BY DEF ReadInv
<1> QED
  BY <1>2, <1>3, <1>4, PTL DEF ParserSpec

=============================================================================
