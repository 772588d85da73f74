------------------------------- MODULE Scanner -------------------------------
(***************************************************************************)
(* The hand-written scanners that cut SQL texts into pieces, beside the    *)
(* lexer of the TiDB parser (internal/parser/tidb/lexer.go) that reads the *)
(* same texts: internal/syntax/syntax.go looks for keywords and commas     *)
(* outside quotes and parentheses, internal/parser/extensions.go splits    *)
(* the clauses of ALTER TABLE.                                             *)
(*                                                                         *)
(* A text is a sequence of symbols: the characters that matter to a        *)
(* scanner, the openings "--", "/*" and "/*!" and the ending "*/" of a     *)
(* comment, and words and keywords, which none of them looks into.         *)
(***************************************************************************)
EXTENDS Integers, Sequences, FiniteSets, FiniteSetsExt

QuoteMarks == {"squote", "dquote", "backtick"}
CommentMarks == {"#", "--", "/*", "/*!", "*/"}
None == "none"

-----------------------------------------------------------------------------
(* syntax.go: at most one quote is open, as each toggle asks that the      *)
(* other two are closed.                                                   *)

TopLevel == [quote |-> None, depth |-> 0]

AtTopLevel(s) == s.quote = None /\ s.depth = 0

TopStep(s, c) ==
    CASE c \in QuoteMarks /\ s.quote = None -> [s EXCEPT !.quote = c]
      [] c \in QuoteMarks /\ s.quote = c    -> [s EXCEPT !.quote = None]
      [] c = "(" /\ s.quote = None          -> [s EXCEPT !.depth = @ + 1]
      [] c = ")" /\ s.quote = None /\ s.depth > 0 -> [s EXCEPT !.depth = @ - 1]
      [] OTHER -> s

\* The scanner after each symbol of a text.
TopStates(text) ==
    LET s[i \in 0..Len(text)] == IF i = 0 THEN TopLevel ELSE TopStep(s[i - 1], text[i])
    IN s

\* Mutant: places within parentheses count as well.
PlacesOutsideQuotes(text, symbol) ==
    LET s == TopStates(text)
    IN {i \in DOMAIN text : text[i] = symbol /\ s[i].quote = None}

TopLevelPlaces(text, symbol) ==
    LET s == TopStates(text)
    IN {i \in DOMAIN text : text[i] = symbol /\ AtTopLevel(s[i])}

Ordered(places) ==
    [k \in 1..Cardinality(places) |->
        CHOOSE i \in places : Cardinality({j \in places : j <= i}) = k]

\* The first of some places, 0 for the -1 of the code.
FirstPlace(places) == IF places = {} THEN 0 ELSE Min(places)

FindTopLevelKeyword(text, keyword) == FirstPlace(TopLevelPlaces(text, keyword))

Between(text, cuts) ==
    [k \in 1..(Len(cuts) - 1) |-> SubSeq(text, cuts[k] + 1, cuts[k + 1] - 1)]

SplitTopLevelCSV(text) ==
    Between(text, <<0>> \o Ordered(TopLevelPlaces(text, ",")) \o <<Len(text) + 1>>)

\* Mutant: the first parenthesis that closes outside quotes.
FindNextParen(text, open) ==
    IF open = 0 THEN 0 ELSE FirstPlace({i \in PlacesOutsideQuotes(text, ")") : i >= open})

FindMatchingParen(text, open) ==
    LET s == TopStates(SubSeq(text, open, Len(text)))
    IN IF open = 0 THEN 0
       ELSE FirstPlace({i \in open..Len(text) : text[i] = ")" /\ AtTopLevel(s[i - open + 1])})

-----------------------------------------------------------------------------
(* extensions.go: a quote that follows a backslash does not close a string *)
(* in single quotes.                                                       *)

SpecStart == [quote |-> None, depth |-> 0, previous |-> None]

\* Mutant: every quote of its kind closes.
NoQuoteEscaped(s) == FALSE

IsEscapedQuote(s) == s.quote = "squote" /\ s.previous = "backslash"

SpecStep(s, c) ==
    LET closes == c = s.quote /\ ~IsEscapedQuote(s)
        inCode == CASE c \in QuoteMarks -> [s EXCEPT !.quote = c]
                    [] c = "(" -> [s EXCEPT !.depth = @ + 1]
                    [] c = ")" /\ s.depth > 0 -> [s EXCEPT !.depth = @ - 1]
                    [] OTHER -> s
        inQuotes == IF closes THEN [s EXCEPT !.quote = None] ELSE s
        t == IF s.quote = None THEN inCode ELSE inQuotes
    IN [t EXCEPT !.previous = c]

-----------------------------------------------------------------------------
(* lexer.go, one symbol at a time. Where the lexer peeks at the next       *)
(* character after a closing quote, the mode is "closing": the same quote  *)
(* again is part of the string, anything else follows it. An identifier in *)
(* backticks has no escapes. In a comment that starts with /*! everything  *)
(* is code. depth counts parentheses of code, for the grammar; it is -1    *)
(* for good once one closes that was not opened.                           *)

LexStart == [mode |-> "code", quote |-> None, depth |-> 0]

InCode(l) == l.mode \in {"code", "closing"}

\* scan and the functions its rules name.
LexCode(l, c) ==
    CASE c \in QuoteMarks       -> [l EXCEPT !.mode = "string", !.quote = c]
      [] c \in {"#", "--"}      -> [l EXCEPT !.mode = "line", !.quote = None]
      [] c = "/*"               -> [l EXCEPT !.mode = "block", !.quote = None]
      [] c = "("                -> [mode |-> "code", quote |-> None,
                                    depth |-> IF l.depth < 0 THEN l.depth ELSE l.depth + 1]
      [] c = ")"                -> [mode |-> "code", quote |-> None,
                                    depth |-> IF l.depth < 0 THEN l.depth ELSE l.depth - 1]
      [] OTHER                  -> [l EXCEPT !.mode = "code", !.quote = None]

\* scanString and scanQuotedIdent.
LexString(l, c) ==
    CASE c = l.quote                    -> [l EXCEPT !.mode = "closing"]
      [] c = "backslash" /\ l.quote # "backtick"      -> [l EXCEPT !.mode = "escape"]
      [] OTHER                          -> l

LexComment(l, c) ==
    LET end == IF l.mode = "line" THEN "newline" ELSE "*/"
    IN IF c = end THEN [l EXCEPT !.mode = "code"] ELSE l

LexStep(l, c) ==
    CASE l.mode = "string"                      -> LexString(l, c)
      [] l.mode = "escape"                      -> [l EXCEPT !.mode = "string"]
      [] l.mode = "closing" /\ c = l.quote      -> [l EXCEPT !.mode = "string"]
      [] l.mode \in {"line", "block"}           -> LexComment(l, c)
      [] OTHER                                  -> LexCode(l, c)

LexStates(text) ==
    LET l[i \in 0..Len(text)] == IF i = 0 THEN LexStart ELSE LexStep(l[i - 1], text[i])
    IN l
=============================================================================
