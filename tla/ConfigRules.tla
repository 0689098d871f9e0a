---------------------------- MODULE ConfigRules -----------------------------
(***************************************************************************)
(* What a configuration is, said without an automaton: the tokens of a     *)
(* text, and the configurations that tokens can be read as.                *)
(***************************************************************************)
EXTENDS Config

TokenKinds == {"word", ";", "{", "}", "error"}

AllTokens == [type : TokenKinds, token : Seq(Characters)]

Word(token) == [type |-> "word", token |-> token]
Punctuation(char) == [type |-> char, token |-> <<char>>]
Error == [type |-> "error", token |-> << >>]

\* The first place from there on where there is one of them, or the end.
FirstOf(t, from, them) ==
    CHOOSE i \in from..(Len(t) + 1) :
        /\ i > Len(t) \/ t[i] \in them
        /\ \A j \in from..(i - 1) : t[j] \notin them

\* The backslashes that escape the character after them: an even number of
\* others is before each.
Escapes(t) ==
    {i \in DOMAIN t :
        \E k \in 0..(i - 1) :
            /\ k = 0 \/ t[k] # "\\"
            /\ \A j \in (k + 1)..i : t[j] = "\\"
            /\ (i - k) % 2 = 1}

Unescaped(t) ==
    LET kept == {i \in DOMAIN t : i \notin Escapes(t)}
        nth(n) == CHOOSE i \in kept : Cardinality({j \in kept : j <= i}) = n
    IN  [n \in 1..Cardinality(kept) |-> t[nth(n)]]

\* What a text begins with, a token or what separates tokens, and the rest.  An
\* error has none, and a word that the file ends in the middle of is no token.
FirstToken(t) ==
    LET h == t[1]
        Upto(tokens, end) == [tokens |-> tokens, rest |-> SubSeq(t, end, Len(t))]
        end == FirstOf(t, 2, Ends)
        closing == {i \in 2..Len(t) : t[i] = h /\ (i - 1) \notin Escapes(t)}
        close == CHOOSE i \in closing : \A j \in closing : i <= j
    IN  CASE h \in Blanks -> Upto(<< >>, 2)
          [] h \in {"{", "}", ";"} -> Upto(<<Punctuation(h)>>, 2)
          [] h = "#" -> Upto(<< >>, FirstOf(t, 2, {"\n", "\r"}) + 1)
          [] h \in {"'", "\""} ->
               IF closing = {}
               THEN Upto(IF Len(t) \in Escapes(t) THEN << >> ELSE <<Error>>, Len(t) + 1)
               ELSE IF close < Len(t) /\ t[close + 1] \in Ends
               THEN Upto(<<Word(Unescaped(SubSeq(t, 1, close)))>>, close + 1)
               ELSE Upto(<<Error>>, Len(t) + 1)
          [] OTHER ->
               Upto(IF end > Len(t) THEN << >> ELSE <<Word(SubSeq(t, 1, end - 1))>>, end)

\* The tokens of a text, comments left out.
Tokens[t \in Seq(Characters)] ==
    IF t = << >> THEN << >> ELSE FirstToken(t).tokens \o Tokens[FirstToken(t).rest]

Statement(words, block) ==
    [tokens |-> [i \in DOMAIN words |-> words[i].token], child_block |-> block]

\* A configuration is a sequence of statements; a statement is one word or
\* more and then a semicolon or a configuration in braces.
Readings[ts \in Seq(AllTokens)] ==
    LET end == FirstOf([i \in DOMAIN ts |-> ts[i].type], 1, TokenKinds \ {"word"})
        from(i) == SubSeq(ts, i, Len(ts))
        begun(block) == <<Statement(SubSeq(ts, 1, end - 1), block)>>
        closers == {m \in (end + 1)..Len(ts) : ts[m].type = "}"}
    IN  IF ts = << >> THEN {<< >>}
        ELSE IF end = 1 \/ end > Len(ts) THEN {}
        ELSE IF ts[end].type = ";" THEN {begun(NoBlock) \o rest : rest \in Readings[from(end + 1)]}
        ELSE IF ts[end].type = "{"
        THEN UNION {{begun(inside) \o rest : inside \in Readings[SubSeq(ts, end + 1, m - 1)],
                                             rest \in Readings[from(m + 1)]} : m \in closers}
        ELSE {}

----------------------------------------------------------------------------
\* Parse returns true iff the file holds a configuration, and then builds the
\* one that is in it.
ParsesConfigurations ==
    /\ verdict = "valid" => Readings[Tokens[text]] = {top}
    /\ verdict = "invalid" => Readings[Tokens[text]] = {}

=============================================================================
