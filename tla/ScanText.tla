------------------------------ MODULE ScanText ------------------------------
(***************************************************************************)
(* A text read symbol by symbol by the three readers of Scanner at once:   *)
(* where do splitTopLevelCSV (syntax.go) and splitAlterTableSpecClauses    *)
(* (extensions.go) cut it, and where are the commas that the lexer of the  *)
(* TiDB parser sees outside parentheses?                                   *)
(***************************************************************************)
EXTENDS Scanner

CONSTANTS Symbols,
          MaxLength  \* bound of the texts

ASSUME LengthAssumption == MaxLength \in Nat

VARIABLES text,
          top, topCuts,    \* splitTopLevelCSV and where it has cut
          spec, specCuts,  \* splitAlterTableSpecClauses
          lex, lexCuts,    \* the lexer and the commas it saw outside parentheses
          farEscape        \* history: an escape that one symbol of context does not tell

vars == <<text, top, topCuts, spec, specCuts, lex, lexCuts, farEscape>>

Init ==
    /\ text = << >>
    /\ top = TopLevel /\ spec = SpecStart /\ lex = LexStart
    /\ topCuts = {} /\ specCuts = {} /\ lexCuts = {}
    /\ farEscape = FALSE

\* The set of cuts, with the place of the symbol just read if it is a cut.
Cut(cuts, c, outside) ==
    IF c = "," /\ outside THEN cuts \cup {Len(text) + 1} ELSE cuts

\* Mutant: a comma cuts in parentheses as well.
TopReadAnyDepth(c) ==
    /\ top' = TopStep(top, c)
    /\ topCuts' = Cut(topCuts, c, top'.quote = None)

TopRead(c) ==
    /\ top' = TopStep(top, c)
    /\ topCuts' = Cut(topCuts, c, AtTopLevel(top'))

SpecRead(c) ==
    /\ spec' = SpecStep(spec, c)
    /\ specCuts' = Cut(specCuts, c, AtTopLevel(spec'))

LexRead(c) ==
    /\ lex' = LexStep(lex, c)
    /\ lexCuts' = Cut(lexCuts, c, InCode(lex') /\ lex'.depth = 0)

\* The lexer takes a backslash outside single quotes for the start of an escape,
\* or one that follows such a start for what it escapes.
FarEscape(c) ==
    \/ lex'.mode = "escape" /\ lex'.quote # "squote"
    \/ lex.mode = "escape" /\ c = "backslash"

Read(c) ==
    /\ Len(text) < MaxLength
    /\ text' = Append(text, c)
    /\ TopRead(c)
    /\ SpecRead(c)
    /\ LexRead(c)
    /\ farEscape' = (farEscape \/ FarEscape(c))

Next == \E c \in Symbols : Read(c)

Spec == Init /\ [][Next]_vars

-----------------------------------------------------------------------------
(* Properties.                                                             *)

Contains(symbols) == \E i \in DOMAIN text : text[i] \in symbols

\* No parenthesis closes that was not opened: the grammar refuses the others.
Balanced == lex.depth >= 0

\* In a text with neither backslashes nor comments, splitTopLevelCSV
\* (syntax.go:98) cuts at the commas which the lexer sees outside quotes and
\* parentheses, and at no others: toggling on every quote reads a doubled quote
\* as two strings side by side, which does no harm.
TopLevelAgrees ==
    ~Contains({"backslash"} \cup CommentMarks) /\ Balanced => topCuts = lexCuts

\* The splitter of ALTER TABLE clauses (extensions.go:139) agrees with the lexer
\* on texts with escapes too, as long as each is in single quotes and is not of a
\* backslash: isEscapedQuote looks one symbol back.
SpecSplitAgrees ==
    ~Contains(CommentMarks) /\ ~farEscape /\ Balanced => specCuts = lexCuts

\* findMatchingParen (syntax.go:186) finds, for a parenthesis of code, the place
\* where the lexer is back at the depth before it, in texts with neither
\* backslashes nor comments. The scan starts at the parenthesis, knowing nothing
\* of the text before it.
ParensMatch ==
    LET l == LexStates(text)
        Closing(open) == {i \in open..Len(text) : /\ text[i] = ")"
                                                  /\ InCode(l[i]) /\ l[i].depth = l[open - 1].depth}
        Opening == {i \in DOMAIN text : text[i] = "(" /\ InCode(l[i])}
    IN ~Contains({"backslash"} \cup CommentMarks) /\ Balanced
       => \A open \in Opening :
             FindMatchingParen(text, open) = IF Closing(open) = {} THEN 0 ELSE Min(Closing(open))

\* The types, and that the walk over a text is what the operators say of it.
TypeOK ==
    /\ text \in Seq(Symbols)
    /\ top \in [quote : QuoteMarks \cup {None}, depth : Nat]
    /\ spec.quote \in QuoteMarks \cup {None} /\ spec.depth \in Nat
    /\ lex.mode \in {"code", "string", "escape", "closing", "line", "block"}
    /\ lex.quote \in QuoteMarks \cup {None} /\ lex.depth \in Nat \cup {-1}
    /\ topCuts \subseteq DOMAIN text /\ specCuts \subseteq DOMAIN text /\ lexCuts \subseteq DOMAIN text
    /\ top = TopStates(text)[Len(text)] /\ lex = LexStates(text)[Len(text)]
    /\ topCuts = TopLevelPlaces(text, ",")
=============================================================================
