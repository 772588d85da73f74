--------------------------- MODULE ScanTextProof ---------------------------
(***************************************************************************)
(* splitTopLevelCSV cuts where the lexer sees commas outside parentheses,  *)
(* for texts of any length: while a text has neither backslashes nor       *)
(* comments the two readers walk side by side. So do the lexer and the     *)
(* splitter of ALTER TABLE clauses, which knows simple escapes.            *)
(***************************************************************************)
EXTENDS ScanText, WellFoundedInduction, TLAPS

\* Texts in which a quote is only ever the start or the end of a string, or
\* one of two that stand for a quote in it.
Plain == ~Contains({"backslash"} \cup CommentMarks)

Modes == {"code", "string", "escape", "closing", "line", "block"}

Types ==
    /\ text \in Seq(Symbols)
    /\ top \in [quote : QuoteMarks \cup {None}, depth : Nat]
    /\ lex \in [mode : Modes, quote : QuoteMarks \cup {None}, depth : Nat \cup {-1}]

QuoteStates == QuoteMarks \cup {None}
ScanType == [quote : QuoteStates, depth : Nat]
LexType == [mode : Modes, quote : QuoteStates, depth : Nat \cup {-1}]

\* After a plain text the toggling scanner has the quote open that the lexer is
\* in, and none after the quote that may close it; a doubled quote opens it anew.
ReadsAlike(s, l) ==
    /\ s \in ScanType /\ l \in LexType
    /\ l.mode \in {"code", "string", "closing"}
    /\ l.mode = "string" => s.quote = l.quote
    /\ l.mode # "string" => s.quote = None
    /\ l.mode # "code" => l.quote \in QuoteMarks

QuotesAgree == ReadsAlike(top, lex)

\* Parentheses are counted alike until one closes that was not opened.
DepthsAgree == Balanced => top.depth = lex.depth

SideBySide == Types /\ (Plain => QuotesAgree /\ DepthsAgree /\ (Balanced => topCuts = lexCuts))

\* A text is plain only if all of it is.
LEMMA PlainPrefix ==
    ASSUME Types, NEW c \in Symbols, Read(c), Plain'
    PROVE  Plain /\ c \notin {"backslash"} \cup CommentMarks
<1>1. text' = Append(text, c) /\ text \in Seq(Symbols) /\ Len(text) \in Nat
  BY DEF Read, Types
<1>2. text'[Len(text) + 1] = c /\ Len(text) + 1 \in DOMAIN text'
  BY <1>1
<1>3. \A i \in DOMAIN text : i \in DOMAIN text' /\ text'[i] = text[i]
  BY <1>1
<1>. QED
  BY <1>2, <1>3 DEF Plain, Contains

LEMMA TypesStep ==
    ASSUME Types, NEW c \in Symbols, Read(c)
    PROVE  Types'
<1>1. text' \in Seq(Symbols)
  BY DEF Types, Read
<1>2. top' \in [quote : QuoteMarks \cup {None}, depth : Nat]
  BY DEF Types, Read, TopRead, TopStep
<1>3. lex' \in [mode : Modes, quote : QuoteMarks \cup {None}, depth : Nat \cup {-1}]
  <2>. USE DEF Types, Modes
  <2>1. LexCode(lex, c) \in [mode : Modes, quote : QuoteMarks \cup {None}, depth : Nat \cup {-1}]
    <3>1. CASE c \in QuoteMarks
      BY <3>1 DEF LexCode, QuoteMarks
    <3>2. CASE c = "("
      BY <3>2 DEF LexCode, QuoteMarks
    <3>3. CASE c = ")"
      BY <3>3 DEF LexCode, QuoteMarks
    <3>4. CASE c \notin QuoteMarks \cup {"(", ")"}
      BY <3>4 DEF LexCode
    <3>. QED
      BY <3>1, <3>2, <3>3, <3>4
  <2>2. LexString(lex, c) \in [mode : Modes, quote : QuoteMarks \cup {None}, depth : Nat \cup {-1}]
    BY DEF LexString
  <2>3. LexComment(lex, c) \in [mode : Modes, quote : QuoteMarks \cup {None}, depth : Nat \cup {-1}]
    BY DEF LexComment
  <2>. QED
    BY <2>1, <2>2, <2>3 DEF Read, LexRead, LexStep
<1>. QED
  BY <1>1, <1>2, <1>3 DEF Types

\* One symbol that is neither a backslash nor the mark of a comment: the readers
\* stay alike, and count the parentheses that the lexer sees in code.
LEMMA PlainStep ==
    ASSUME NEW s, NEW l, ReadsAlike(s, l), NEW c, c \notin {"backslash"} \cup CommentMarks
    PROVE  /\ ReadsAlike(TopStep(s, c), LexStep(l, c))
           /\ ~(InCode(LexStep(l, c)) /\ c \in {"(", ")"}) =>
                 TopStep(s, c).depth = s.depth /\ LexStep(l, c).depth = l.depth
           /\ InCode(LexStep(l, c)) /\ c = "(" =>
                 /\ TopStep(s, c).depth = s.depth + 1
                 /\ LexStep(l, c).depth = IF l.depth < 0 THEN l.depth ELSE l.depth + 1
           /\ InCode(LexStep(l, c)) /\ c = ")" =>
                 /\ TopStep(s, c).depth = IF s.depth > 0 THEN s.depth - 1 ELSE s.depth
                 /\ LexStep(l, c).depth = IF l.depth < 0 THEN l.depth ELSE l.depth - 1
<1>. DEFINE t == TopStep(s, c)
            m == LexStep(l, c)
            Alike == /\ ReadsAlike(t, m)
                     /\ ~(InCode(m) /\ c \in {"(", ")"}) => t.depth = s.depth /\ m.depth = l.depth
                     /\ InCode(m) /\ c = "(" =>
                           t.depth = s.depth + 1 /\ m.depth = IF l.depth < 0 THEN l.depth ELSE l.depth + 1
                     /\ InCode(m) /\ c = ")" =>
                           /\ t.depth = IF s.depth > 0 THEN s.depth - 1 ELSE s.depth
                           /\ m.depth = IF l.depth < 0 THEN l.depth ELSE l.depth - 1
<1>. SUFFICES Alike
  OBVIOUS
<1>. USE DEF ReadsAlike, ScanType, LexType, QuoteStates, Modes, QuoteMarks, CommentMarks, None, InCode
\* In a string only its own quote matters, to either reader.
<1>1. CASE l.mode = "string"
  <2>1. t = IF c = l.quote THEN [s EXCEPT !.quote = None] ELSE s
    BY <1>1 DEF TopStep
  <2>2. m = IF c = l.quote THEN [l EXCEPT !.mode = "closing"] ELSE l
    BY <1>1 DEF LexStep, LexString
  <2>. HIDE DEF t, m
  <2>. QED
    BY <1>1, <2>1, <2>2
\* The quote again right after the one that closed: the string goes on.
<1>2. CASE l.mode = "closing" /\ c = l.quote
  <2>1. t = [s EXCEPT !.quote = c]
    BY <1>2 DEF TopStep
  <2>2. m = [l EXCEPT !.mode = "string"]
    BY <1>2 DEF LexStep
  <2>. HIDE DEF t, m
  <2>. QED
    BY <1>2, <2>1, <2>2
\* In code.
<1>3. CASE l.mode # "string" /\ ~(l.mode = "closing" /\ c = l.quote)
  <2>1. s.quote = None /\ m = LexCode(l, c)
    BY <1>3 DEF LexStep
  <2>2. CASE c \in QuoteMarks
    <3>1. t = [s EXCEPT !.quote = c] /\ m = [l EXCEPT !.mode = "string", !.quote = c]
      BY <2>1, <2>2 DEF TopStep, LexCode
    <3>. HIDE DEF t, m
    <3>. QED
      BY <2>2, <3>1
  <2>3. CASE c = "("
    <3>1. t = [s EXCEPT !.depth = @ + 1]
      BY <2>1, <2>3 DEF TopStep
    <3>2. m = [mode |-> "code", quote |-> None, depth |-> IF l.depth < 0 THEN l.depth ELSE l.depth + 1]
      BY <2>1, <2>3 DEF LexCode
    <3>. HIDE DEF t, m
    <3>. QED
      BY <2>1, <2>3, <3>1, <3>2
  <2>4. CASE c = ")"
    <3>1. t = IF s.depth > 0 THEN [s EXCEPT !.depth = @ - 1] ELSE s
      BY <2>1, <2>4 DEF TopStep
    <3>2. m = [mode |-> "code", quote |-> None, depth |-> IF l.depth < 0 THEN l.depth ELSE l.depth - 1]
      BY <2>1, <2>4 DEF LexCode
    <3>. HIDE DEF t, m
    <3>. QED
      BY <2>1, <2>4, <3>1, <3>2
  <2>5. CASE c \notin QuoteMarks \cup {"(", ")"}
    <3>1. t = s /\ m = [l EXCEPT !.mode = "code", !.quote = None]
      BY <2>1, <2>5 DEF TopStep, LexCode
    <3>. HIDE DEF t, m
    <3>. QED
      BY <2>1, <2>5, <3>1
  <2>. QED
    BY <2>2, <2>3, <2>4, <2>5
<1>. QED
  BY <1>1, <1>2, <1>3

LEMMA AgreeStep ==
    ASSUME SideBySide, NEW c \in Symbols, Read(c), Plain'
    PROVE  (QuotesAgree /\ DepthsAgree /\ (Balanced => topCuts = lexCuts))'
<1>1. Plain /\ c \notin {"backslash"} \cup CommentMarks
  BY PlainPrefix DEF SideBySide
<1>2. ReadsAlike(top, lex) /\ (Balanced => top.depth = lex.depth) /\ (Balanced => topCuts = lexCuts)
  BY <1>1 DEF SideBySide, QuotesAgree, DepthsAgree
<1>3. top' = TopStep(top, c) /\ lex' = LexStep(lex, c)
  BY DEF Read, TopRead, LexRead
<1>4. ReadsAlike(top', lex')
  BY <1>1, <1>2, <1>3, PlainStep
<1>5. Balanced' => Balanced /\ top'.depth = lex'.depth
  <2>1. CASE InCode(lex') /\ c \in {"(", ")"}
    BY <1>1, <1>2, <1>3, <2>1, PlainStep DEF Balanced, ReadsAlike, ScanType, LexType
  <2>2. CASE ~(InCode(lex') /\ c \in {"(", ")"})
    BY <1>1, <1>2, <1>3, <2>2, PlainStep DEF Balanced
  <2>. QED
    BY <2>1, <2>2
<1>6. Balanced' => (AtTopLevel(top') <=> InCode(lex') /\ lex'.depth = 0)
  BY <1>4, <1>5 DEF AtTopLevel, InCode, ReadsAlike, QuoteMarks, None
<1>7. Balanced' => topCuts' = lexCuts'
  BY <1>2, <1>5, <1>6 DEF Read, TopRead, LexRead, Cut
<1>. QED
  BY <1>4, <1>5, <1>7 DEF QuotesAgree, DepthsAgree

\* The two readers agree after every text that is plain so far.
THEOREM ReadersSideBySide == Spec => []SideBySide
<1>1. Init => SideBySide
  BY DEF Init, SideBySide, Types, Modes, TopLevel, LexStart, QuotesAgree, ReadsAlike, ScanType, LexType, QuoteStates,
         DepthsAgree, None
<1>2. SideBySide /\ [Next]_vars => SideBySide'
  <2>1. ASSUME SideBySide, NEW c \in Symbols, Read(c) PROVE SideBySide'
    BY <2>1, TypesStep, AgreeStep DEF SideBySide
  <2>2. SideBySide /\ UNCHANGED vars => SideBySide'
    BY DEF vars, SideBySide, Types, Plain, Contains, QuotesAgree, DepthsAgree, Balanced
  <2>. QED
    BY <2>1, <2>2 DEF Next
<1>. QED
  BY <1>1, <1>2, PTL DEF Spec

\* However long the text, if it has neither backslashes nor comments and closes no
\* parenthesis that was not opened, splitTopLevelCSV (syntax.go:98) cuts it at exactly
\* the commas that the lexer sees outside quotes and parentheses.
THEOREM CutsAgree == Spec => []TopLevelAgrees
<1>1. SideBySide => TopLevelAgrees
  BY DEF SideBySide, Plain, TopLevelAgrees
<1>. QED
  BY ReadersSideBySide, <1>1, PTL
-----------------------------------------------------------------------------
(* The splitter of ALTER TABLE clauses.                                    *)

Simple == ~Contains(CommentMarks) /\ ~farEscape

SpecTypes ==
    /\ Types
    /\ spec \in [quote : QuoteMarks \cup {None}, depth : Nat, previous : Symbols \cup {None}]
    /\ farEscape \in BOOLEAN

\* While a string in single quotes goes on the symbol before is no backslash, and
\* it is one where the lexer waits for what is escaped.
SpecQuotes ==
    /\ lex.mode \in {"code", "string", "closing", "escape"}
    /\ IF lex.mode \in {"string", "escape"} THEN spec.quote = lex.quote ELSE spec.quote = None
    /\ lex.mode # "code" => lex.quote \in QuoteMarks
    /\ lex.mode = "escape" => lex.quote = "squote" /\ spec.previous = "backslash"
    /\ lex.mode = "string" /\ lex.quote = "squote" => spec.previous # "backslash"

SpecDepths == Balanced => spec.depth = lex.depth

SpecAgrees == SpecQuotes /\ SpecDepths /\ (Balanced => specCuts = lexCuts)

SpecSideBySide == SpecTypes /\ (Simple => SpecAgrees)

LEMMA SimplePrefix ==
    ASSUME SpecTypes, NEW c \in Symbols, Read(c), Simple'
    PROVE  Simple /\ c \notin CommentMarks /\ ~FarEscape(c)
<1>1. text' = Append(text, c) /\ text \in Seq(Symbols) /\ Len(text) \in Nat
  BY DEF Read, SpecTypes, Types
<1>2. text'[Len(text) + 1] = c /\ Len(text) + 1 \in DOMAIN text'
  BY <1>1
<1>3. \A i \in DOMAIN text : i \in DOMAIN text' /\ text'[i] = text[i]
  BY <1>1
<1>4. ~farEscape /\ ~FarEscape(c)
  BY Zenon DEF Read, Simple
<1>. QED
  BY <1>2, <1>3, <1>4 DEF Simple, Contains

LEMMA SpecTypesStep ==
    ASSUME SpecTypes, NEW c \in Symbols, Read(c)
    PROVE  SpecTypes'
<1>1. Types'
  BY TypesStep DEF SpecTypes
<1>2. spec' \in [quote : QuoteMarks \cup {None}, depth : Nat, previous : Symbols \cup {None}]
  BY DEF SpecTypes, Read, SpecRead, SpecStep
<1>3. farEscape' \in BOOLEAN
  BY DEF Read
<1>. QED
  BY <1>1, <1>2, <1>3 DEF SpecTypes

\* In quotes only the quote that closes them changes more than what came before.
LEMMA SpecInQuotes ==
    ASSUME NEW s, NEW c, s.quote # None,
           s \in [quote : QuoteMarks \cup {None}, depth : Nat, previous : Symbols \cup {None}]
    PROVE  SpecStep(s, c) = IF c = s.quote /\ ~IsEscapedQuote(s) THEN [s EXCEPT !.quote = None, !.previous = c]
                            ELSE [s EXCEPT !.previous = c]
<1>1. SpecStep(s, c) = [IF c = s.quote /\ ~IsEscapedQuote(s) THEN [s EXCEPT !.quote = None] ELSE s EXCEPT !.previous = c]
  BY DEF SpecStep
<1>2. CASE c = s.quote /\ ~IsEscapedQuote(s)
  BY <1>1, <1>2
<1>3. CASE ~(c = s.quote /\ ~IsEscapedQuote(s))
  BY <1>1, <1>3
<1>. QED
  BY <1>2, <1>3

LEMMA SpecAgreeStep ==
    ASSUME SpecSideBySide, NEW c \in Symbols, Read(c), Simple'
    PROVE  SpecAgrees'
<1>1. Simple /\ c \notin CommentMarks /\ ~FarEscape(c)
  BY SimplePrefix DEF SpecSideBySide
<1>2. SpecQuotes /\ SpecDepths /\ (Balanced => specCuts = lexCuts) /\ SpecTypes
  BY <1>1 DEF SpecSideBySide, SpecAgrees
<1>3. spec' = SpecStep(spec, c) /\ lex' = LexStep(lex, c)
  BY DEF Read, SpecRead, LexRead
<1>4. spec'.previous = c
  BY <1>2, <1>3 DEF SpecStep, SpecTypes
<1>. USE DEF SpecTypes, Types, Modes, QuoteMarks, CommentMarks, None
\* In a string only its own quote and the escapes matter, to either reader.
<1>5. CASE lex.mode = "string"
  <2>1. spec.quote = lex.quote /\ lex.quote \in QuoteMarks /\ ~IsEscapedQuote(spec)
    BY <1>2, <1>5 DEF SpecQuotes, IsEscapedQuote
  <2>2. spec' = IF c = lex.quote THEN [spec EXCEPT !.quote = None, !.previous = c] ELSE [spec EXCEPT !.previous = c]
    BY <1>2, <1>3, <2>1, SpecInQuotes
  <2>3. lex' = IF c = lex.quote THEN [lex EXCEPT !.mode = "closing"]
               ELSE IF c = "backslash" /\ lex.quote # "backtick" THEN [lex EXCEPT !.mode = "escape"] ELSE lex
    BY <1>2, <1>3, <1>5, <2>1 DEF LexStep, LexString
  <2>4. lex'.mode = "escape" => lex'.quote = "squote"
    BY <1>1 DEF FarEscape
  <2>5. SpecQuotes'
    <3>1. CASE c = lex.quote
      BY <1>2, <1>5, <2>1, <2>2, <2>3, <3>1 DEF SpecQuotes
    <3>2. CASE c # lex.quote /\ c = "backslash" /\ lex.quote # "backtick"
      BY <1>2, <1>5, <2>1, <2>2, <2>3, <2>4, <3>2 DEF SpecQuotes
    <3>3. CASE c # lex.quote /\ ~(c = "backslash" /\ lex.quote # "backtick")
      BY <1>2, <1>5, <2>1, <2>2, <2>3, <3>3 DEF SpecQuotes
    <3>. QED
      BY <3>1, <3>2, <3>3
  <2>6. SpecDepths' /\ (Balanced' <=> Balanced)
    BY <1>2, <2>2, <2>3 DEF SpecDepths, Balanced
  <2>7. specCuts' = specCuts /\ lexCuts' = lexCuts
    <3>1. c = "," => ~AtTopLevel(spec') /\ ~InCode(lex')
      BY <1>2, <1>5, <2>1, <2>2, <2>3 DEF AtTopLevel, InCode
    <3>. QED
      BY <3>1 DEF Read, SpecRead, LexRead, Cut
  <2>. QED
    BY <1>2, <2>5, <2>6, <2>7 DEF SpecAgrees
\* What is escaped is part of the string to both.
<1>6. CASE lex.mode = "escape"
  <2>1. spec.quote = "squote" /\ lex.quote = "squote" /\ IsEscapedQuote(spec) /\ c # "backslash"
    BY <1>1, <1>2, <1>6 DEF SpecQuotes, IsEscapedQuote, FarEscape
  <2>2. spec' = [spec EXCEPT !.previous = c]
    BY <1>2, <1>3, <2>1, SpecInQuotes
  <2>3. lex' = [lex EXCEPT !.mode = "string"]
    BY <1>3, <1>6 DEF LexStep
  <2>4. SpecQuotes' /\ SpecDepths' /\ (Balanced' <=> Balanced)
    BY <1>2, <2>1, <2>2, <2>3 DEF SpecQuotes, SpecDepths, Balanced
  <2>5. ~AtTopLevel(spec') /\ ~InCode(lex')
    BY <1>2, <2>1, <2>2, <2>3 DEF AtTopLevel, InCode
  <2>6. specCuts' = specCuts /\ lexCuts' = lexCuts
    BY <2>5 DEF Read, SpecRead, LexRead, Cut
  <2>. QED
    BY <1>2, <2>4, <2>6 DEF SpecAgrees
\* The quote again right after the one that closed: the string goes on.
<1>7. CASE lex.mode = "closing" /\ c = lex.quote
  <2>1. spec.quote = None /\ lex.quote \in QuoteMarks
    BY <1>2, <1>7 DEF SpecQuotes
  <2>2. spec' = [spec EXCEPT !.quote = c, !.previous = c]
    BY <1>2, <1>3, <1>7, <2>1 DEF SpecStep
  <2>3. lex' = [lex EXCEPT !.mode = "string"]
    BY <1>3, <1>7 DEF LexStep
  <2>4. SpecQuotes' /\ SpecDepths' /\ (Balanced' <=> Balanced)
    BY <1>2, <1>7, <2>1, <2>2, <2>3 DEF SpecQuotes, SpecDepths, Balanced
  <2>5. specCuts' = specCuts /\ lexCuts' = lexCuts
    BY <1>7, <2>1 DEF Read, SpecRead, LexRead, Cut
  <2>. QED
    BY <1>2, <2>4, <2>5 DEF SpecAgrees
\* In code.
<1>8. CASE lex.mode \in {"code", "closing"} /\ ~(lex.mode = "closing" /\ c = lex.quote)
  <2>1. spec.quote = None /\ lex' = LexCode(lex, c)
    BY <1>2, <1>3, <1>8 DEF SpecQuotes, LexStep
  <2>2. CASE c \in QuoteMarks
    <3>1. spec' = [spec EXCEPT !.quote = c, !.previous = c] /\ lex' = [lex EXCEPT !.mode = "string", !.quote = c]
      BY <1>2, <1>3, <2>1, <2>2 DEF SpecStep, LexCode
    <3>2. SpecQuotes' /\ SpecDepths' /\ (Balanced' <=> Balanced)
      BY <1>2, <2>2, <3>1 DEF SpecQuotes, SpecDepths, Balanced
    <3>3. specCuts' = specCuts /\ lexCuts' = lexCuts
      BY <2>2 DEF Read, SpecRead, LexRead, Cut
    <3>. QED
      BY <1>2, <3>2, <3>3 DEF SpecAgrees
  <2>3. CASE c = "("
    <3>1. spec' = [spec EXCEPT !.depth = @ + 1, !.previous = c]
      BY <1>2, <1>3, <2>1, <2>3 DEF SpecStep
    <3>2. lex' = [mode |-> "code", quote |-> None, depth |-> IF lex.depth < 0 THEN lex.depth ELSE lex.depth + 1]
      BY <2>1, <2>3 DEF LexCode
    <3>3. SpecQuotes'
      BY <1>2, <2>1, <3>1, <3>2 DEF SpecQuotes
    <3>4. SpecDepths' /\ (Balanced' <=> Balanced)
      BY <1>2, <3>1, <3>2 DEF SpecDepths, Balanced
    <3>5. specCuts' = specCuts /\ lexCuts' = lexCuts
      BY <2>3 DEF Read, SpecRead, LexRead, Cut
    <3>. QED
      BY <1>2, <3>3, <3>4, <3>5 DEF SpecAgrees
  <2>4. CASE c = ")"
    <3>1. spec' = IF spec.depth > 0 THEN [spec EXCEPT !.depth = @ - 1, !.previous = c] ELSE [spec EXCEPT !.previous = c]
      BY <1>2, <1>3, <2>1, <2>4 DEF SpecStep
    <3>2. lex' = [mode |-> "code", quote |-> None, depth |-> IF lex.depth < 0 THEN lex.depth ELSE lex.depth - 1]
      BY <2>1, <2>4 DEF LexCode
    <3>3. SpecQuotes'
      BY <1>2, <2>1, <3>1, <3>2 DEF SpecQuotes
    <3>4. SpecDepths' /\ (Balanced' => Balanced)
      BY <1>2, <3>1, <3>2 DEF SpecDepths, Balanced
    <3>5. specCuts' = specCuts /\ lexCuts' = lexCuts
      BY <2>4 DEF Read, SpecRead, LexRead, Cut
    <3>. QED
      BY <1>2, <3>3, <3>4, <3>5 DEF SpecAgrees
  <2>5. CASE c \notin QuoteMarks \cup {"(", ")"}
    <3>1. spec' = [spec EXCEPT !.previous = c] /\ lex' = [lex EXCEPT !.mode = "code", !.quote = None]
      BY <1>1, <1>2, <1>3, <2>1, <2>5 DEF SpecStep, LexCode
    <3>2. SpecQuotes' /\ SpecDepths' /\ (Balanced' <=> Balanced)
      BY <1>2, <2>1, <3>1 DEF SpecQuotes, SpecDepths, Balanced
    <3>3. Balanced => (AtTopLevel(spec') <=> InCode(lex') /\ lex'.depth = 0)
      BY <1>2, <2>1, <3>1 DEF SpecDepths, AtTopLevel, InCode
    <3>4. Balanced => specCuts' = lexCuts'
      BY <1>2, <3>3 DEF Read, SpecRead, LexRead, Cut
    <3>. QED
      BY <3>2, <3>4 DEF SpecAgrees
  <2>. QED
    BY <2>2, <2>3, <2>4, <2>5
<1>. QED
  BY <1>2, <1>5, <1>6, <1>7, <1>8 DEF SpecQuotes

\* The splitter of ALTER TABLE clauses and the lexer agree after every text whose
\* escapes are simple so far.
THEOREM SplitterSideBySide == Spec => []SpecSideBySide
<1>1. Init => SpecSideBySide
  <2>. SUFFICES ASSUME Init PROVE SpecTypes /\ SpecAgrees
    BY DEF SpecSideBySide
  <2>1. Types
    BY DEF Init, Types, Modes, TopLevel, LexStart, None
  <2>2. SpecTypes
    BY <2>1 DEF Init, SpecTypes, SpecStart
  <2>3. SpecAgrees
    BY DEF Init, SpecAgrees, SpecStart, LexStart, SpecQuotes, SpecDepths, None
  <2>. QED
    BY <2>2, <2>3
<1>2. SpecSideBySide /\ [Next]_vars => SpecSideBySide'
  <2>1. ASSUME SpecSideBySide, NEW c \in Symbols, Read(c) PROVE SpecSideBySide'
    BY <2>1, SpecTypesStep, SpecAgreeStep DEF SpecSideBySide
  <2>2. SpecSideBySide /\ UNCHANGED vars => SpecSideBySide'
    BY DEF vars, SpecSideBySide, SpecTypes, Types, SpecAgrees, Simple, Contains, SpecQuotes, SpecDepths, Balanced
  <2>. QED
    BY <2>1, <2>2 DEF Next
<1>. QED
  BY <1>1, <1>2, PTL DEF Spec

\* Whatever the symbols and however long the text, splitAlterTableSpecClauses
\* (extensions.go:139) cuts a text without comments at exactly the commas that the
\* lexer sees outside quotes and parentheses, if its escapes are in single quotes
\* and none is of a backslash.
THEOREM SplitsAgree == Spec => []SpecSplitAgrees
<1>1. SpecSideBySide => SpecSplitAgrees
  BY DEF SpecSideBySide, SpecAgrees, Simple, SpecSplitAgrees
<1>. QED
  BY SplitterSideBySide, <1>1, PTL
-----------------------------------------------------------------------------
(* The walk over a text and the operators that read a whole text: what the *)
(* scanners hold after each symbol is what TopStates and LexStates say.    *)

\* The least-number principle, for inductions over the places of a text.
LEMMA LeastPlace ==
    ASSUME NEW T \in SUBSET Nat, T # {}
    PROVE  \E n \in T : \A m \in T : n <= m
<1>1. PICK n \in T : \A m \in T : ~(<<m, n>> \in OpToRel(<, Nat))
  BY NatLessThanWellFounded, WFMin
<1>2. \A m \in T : ~(m < n)
  BY <1>1 DEF OpToRel
<1>. QED
  BY <1>2

\* The recursion of TopStates has a solution, so TopStates is one.
LEMMA TopStatesWalk ==
    ASSUME NEW txt, Len(txt) \in Nat
    PROVE  TopStates(txt) = [i \in 0..Len(txt) |->
                IF i = 0 THEN TopLevel ELSE TopStep(TopStates(txt)[i - 1], txt[i])]
<1>. DEFINE Walk(s, n) == s = [i \in 0..n |-> IF i = 0 THEN TopLevel ELSE TopStep(s[i - 1], txt[i])]
            T == {n \in Nat : ~ \E s : Walk(s, n)}
<1>1. T = {}
  <2>. SUFFICES ASSUME T # {} PROVE FALSE
    OBVIOUS
  <2>1. PICK n \in T : \A m \in T : n <= m
    BY LeastPlace
  <2>2. n # 0
    <3>1. Walk([i \in 0..0 |-> TopLevel], 0)
      OBVIOUS
    <3>. QED
      BY <3>1
  <2>3. n - 1 \in Nat /\ n - 1 \notin T /\ n \in Nat
    <3>1. n \in Nat /\ \A m \in T : n <= m
      BY <2>1
    <3>. HIDE DEF T
    <3>. QED
      BY <2>2, <3>1
  <2>4. PICK s : Walk(s, n - 1)
    BY <2>3
  <2>. DEFINE t == [i \in 0..n |-> IF i = n THEN TopStep(s[n - 1], txt[n]) ELSE s[i]]
  <2>5. Walk(t, n)
    <3>1. \A i \in 0..n : i # n => t[i] = IF i = 0 THEN TopLevel ELSE TopStep(t[i - 1], txt[i])
      BY <2>3, <2>4
    <3>2. t[n] = TopStep(t[n - 1], txt[n])
      BY <2>2, <2>3
    <3>. QED
      BY <3>1, <3>2, <2>2
  <2>. QED
    BY <2>1, <2>5
<1>2. \E s : Walk(s, Len(txt))
  BY <1>1
<1>3. TopStates(txt) = CHOOSE s : Walk(s, Len(txt))
  BY DEF TopStates
<1>. QED
  BY <1>2, <1>3

LEMMA LexStatesWalk ==
    ASSUME NEW txt, Len(txt) \in Nat
    PROVE  LexStates(txt) = [i \in 0..Len(txt) |->
                IF i = 0 THEN LexStart ELSE LexStep(LexStates(txt)[i - 1], txt[i])]
<1>. DEFINE Walk(l, n) == l = [i \in 0..n |-> IF i = 0 THEN LexStart ELSE LexStep(l[i - 1], txt[i])]
            T == {n \in Nat : ~ \E l : Walk(l, n)}
<1>1. T = {}
  <2>. SUFFICES ASSUME T # {} PROVE FALSE
    OBVIOUS
  <2>1. PICK n \in T : \A m \in T : n <= m
    BY LeastPlace
  <2>2. n # 0
    <3>1. Walk([i \in 0..0 |-> LexStart], 0)
      OBVIOUS
    <3>. QED
      BY <3>1
  <2>3. n - 1 \in Nat /\ n - 1 \notin T /\ n \in Nat
    <3>1. n \in Nat /\ \A m \in T : n <= m
      BY <2>1
    <3>. HIDE DEF T
    <3>. QED
      BY <2>2, <3>1
  <2>4. PICK l : Walk(l, n - 1)
    BY <2>3
  <2>. DEFINE t == [i \in 0..n |-> IF i = n THEN LexStep(l[n - 1], txt[n]) ELSE l[i]]
  <2>5. Walk(t, n)
    <3>1. \A i \in 0..n : i # n => t[i] = IF i = 0 THEN LexStart ELSE LexStep(t[i - 1], txt[i])
      BY <2>3, <2>4
    <3>2. t[n] = LexStep(t[n - 1], txt[n])
      BY <2>2, <2>3
    <3>. QED
      BY <3>1, <3>2, <2>2
  <2>. QED
    BY <2>1, <2>5
<1>2. \E l : Walk(l, Len(txt))
  BY <1>1
<1>3. LexStates(txt) = CHOOSE l : Walk(l, Len(txt))
  BY DEF LexStates
<1>. QED
  BY <1>2, <1>3

\* One more symbol changes nothing of what came before it.
LEMMA StatesPrefix ==
    ASSUME NEW txt \in Seq(Symbols), NEW c \in Symbols
    PROVE  \A i \in 0..Len(txt) : /\ TopStates(Append(txt, c))[i] = TopStates(txt)[i]
                                  /\ LexStates(Append(txt, c))[i] = LexStates(txt)[i]
<1>. DEFINE longer == Append(txt, c)
            Same(i) == TopStates(longer)[i] = TopStates(txt)[i] /\ LexStates(longer)[i] = LexStates(txt)[i]
            T == {i \in 0..Len(txt) : ~Same(i)}
<1>1. Len(txt) \in Nat /\ Len(longer) = Len(txt) + 1 /\ \A i \in 1..Len(txt) : longer[i] = txt[i]
  OBVIOUS
<1>2. T = {}
  <2>. SUFFICES ASSUME T # {} PROVE FALSE
    OBVIOUS
  <2>0. T \in SUBSET Nat
    BY <1>1
  <2>1. PICK i \in T : \A j \in T : i <= j
    BY <2>0, LeastPlace
  <2>2. i \in 0..Len(txt) /\ i \in 0..Len(longer) /\ ~Same(i)
    BY <1>1
  <2>3. CASE i = 0
    <3>1. TopStates(longer)[i] = TopLevel /\ TopStates(txt)[i] = TopLevel
      BY <1>1, <2>2, <2>3, TopStatesWalk
    <3>2. LexStates(longer)[i] = LexStart /\ LexStates(txt)[i] = LexStart
      BY <1>1, <2>2, <2>3, LexStatesWalk
    <3>. QED
      BY <2>2, <3>1, <3>2
  <2>4. CASE i # 0
    <3>1. i - 1 \in 0..Len(txt) /\ i - 1 \notin T /\ longer[i] = txt[i]
      BY <1>1, <2>1, <2>2, <2>4
    <3>2. TopStates(longer)[i] = TopStep(TopStates(longer)[i - 1], longer[i])
      BY <1>1, <2>2, <2>4, TopStatesWalk
    <3>3. TopStates(txt)[i] = TopStep(TopStates(txt)[i - 1], txt[i])
      BY <1>1, <2>2, <2>4, TopStatesWalk
    <3>4. LexStates(longer)[i] = LexStep(LexStates(longer)[i - 1], longer[i])
      BY <1>1, <2>2, <2>4, LexStatesWalk
    <3>5. LexStates(txt)[i] = LexStep(LexStates(txt)[i - 1], txt[i])
      BY <1>1, <2>2, <2>4, LexStatesWalk
    <3>. QED
      BY <2>2, <3>1, <3>2, <3>3, <3>4, <3>5
  <2>. QED
    BY <2>3, <2>4
<1>. QED
  BY <1>2

\* After the whole text the scanners are where the operators say, and
\* splitTopLevelCSV has cut at the commas that SplitTopLevelCSV cuts at.
Walked ==
    /\ top = TopStates(text)[Len(text)] /\ lex = LexStates(text)[Len(text)]
    /\ topCuts = TopLevelPlaces(text, ",")
    /\ specCuts \subseteq DOMAIN text /\ lexCuts \subseteq DOMAIN text

LEMMA WalkedStep ==
    ASSUME Types, Walked, NEW c \in Symbols, Read(c)
    PROVE  Walked'
<1>1. text \in Seq(Symbols) /\ text' = Append(text, c) /\ Len(text) \in Nat /\ Len(text') = Len(text) + 1
  BY DEF Types, Read
<1>2. \A i \in 0..Len(text) : TopStates(text')[i] = TopStates(text)[i] /\ LexStates(text')[i] = LexStates(text)[i]
  BY <1>1, StatesPrefix
<1>3. text'[Len(text')] = c /\ \A i \in DOMAIN text : text'[i] = text[i]
  BY <1>1
<1>4. DOMAIN text = 1..Len(text) /\ DOMAIN text' = 1..(Len(text) + 1)
  BY <1>1
<1>5. top' = TopStates(text')[Len(text')]
  <2>1. TopStates(text')[Len(text')] = TopStep(TopStates(text')[Len(text') - 1], text'[Len(text')])
    BY <1>1, TopStatesWalk
  <2>2. Len(text') - 1 = Len(text) /\ Len(text) \in 0..Len(text)
    BY <1>1
  <2>3. TopStates(text')[Len(text') - 1] = top
    BY <1>2, <2>2 DEF Walked
  <2>4. top' = TopStep(top, c)
    BY DEF Read, TopRead
  <2>. QED
    BY <1>3, <2>1, <2>3, <2>4
<1>6. lex' = LexStates(text')[Len(text')]
  <2>1. LexStates(text')[Len(text')] = LexStep(LexStates(text')[Len(text') - 1], text'[Len(text')])
    BY <1>1, LexStatesWalk
  <2>2. Len(text') - 1 = Len(text) /\ Len(text) \in 0..Len(text)
    BY <1>1
  <2>3. LexStates(text')[Len(text') - 1] = lex
    BY <1>2, <2>2 DEF Walked
  <2>4. lex' = LexStep(lex, c)
    BY DEF Read, LexRead
  <2>. QED
    BY <1>3, <2>1, <2>3, <2>4
<1>7. topCuts' = TopLevelPlaces(text', ",")
  <2>1. TopLevelPlaces(text, ",") = {i \in 1..Len(text) : text[i] = "," /\ AtTopLevel(TopStates(text)[i])}
    BY <1>4 DEF TopLevelPlaces
  <2>2. TopLevelPlaces(text', ",") = {i \in 1..(Len(text) + 1) : text'[i] = "," /\ AtTopLevel(TopStates(text')[i])}
    BY <1>4 DEF TopLevelPlaces
  <2>3. \A i \in 1..Len(text) : text'[i] = text[i] /\ TopStates(text')[i] = TopStates(text)[i]
    BY <1>1, <1>2
  <2>4. text'[Len(text) + 1] = c /\ TopStates(text')[Len(text) + 1] = top'
    BY <1>1, <1>5
  <2>5. topCuts' = IF c = "," /\ AtTopLevel(top') THEN topCuts \cup {Len(text) + 1} ELSE topCuts
    BY DEF Read, TopRead, Cut
  <2>6. topCuts = TopLevelPlaces(text, ",") /\ Len(text) \in Nat
    BY <1>1 DEF Walked
  <2>. DEFINE n == Len(text)
              cut == TopLevelPlaces(text, ",")
              cutNow == TopLevelPlaces(text', ",")
              Outside(i) == text'[i] = "," /\ AtTopLevel(TopStates(text')[i])
  <2>7. cut = {i \in 1..n : Outside(i)} /\ cutNow = {i \in 1..(n + 1) : Outside(i)}
    BY <2>1, <2>2, <2>3
  <2>8. Outside(n + 1) <=> c = "," /\ AtTopLevel(top')
    BY <2>4
  <2>9. n \in Nat
    BY <2>6
  <2>. HIDE DEF n, cut, cutNow, Outside
  <2>10. 1..(n + 1) = (1..n) \cup {n + 1}
    BY <2>9
  <2>11. cutNow = IF Outside(n + 1) THEN cut \cup {n + 1} ELSE cut
    BY <2>7, <2>10, Zenon
  <2>. QED
    BY <2>5, <2>6, <2>8, <2>11 DEF n, cut, cutNow
<1>8. specCuts' \subseteq DOMAIN text' /\ lexCuts' \subseteq DOMAIN text'
  <2>1. specCuts \subseteq 1..Len(text) /\ lexCuts \subseteq 1..Len(text)
    BY <1>4 DEF Walked
  <2>2. specCuts' \subseteq specCuts \cup {Len(text) + 1} /\ lexCuts' \subseteq lexCuts \cup {Len(text) + 1}
    BY DEF Read, SpecRead, LexRead, Cut
  <2>3. specCuts' \subseteq 1..(Len(text) + 1) /\ lexCuts' \subseteq 1..(Len(text) + 1)
    BY <1>1, <2>1, <2>2
  <2>. QED
    BY <1>4, <2>3
<1>. QED
  BY <1>5, <1>6, <1>7, <1>8 DEF Walked

\* The walk over a text is what the operators say of it, whatever the text.
THEOREM WalksAgree == Spec => []Walked
<1>1. Init => Walked
  <2>. SUFFICES ASSUME Init PROVE Walked
    OBVIOUS
  <2>1. Len(text) = 0 /\ DOMAIN text = {}
    BY DEF Init
  <2>2. TopStates(text)[0] = TopLevel /\ LexStates(text)[0] = LexStart
    BY <2>1, TopStatesWalk, LexStatesWalk
  <2>3. TopLevelPlaces(text, ",") = {}
    BY <2>1 DEF TopLevelPlaces
  <2>. QED
    BY <2>1, <2>2, <2>3 DEF Init, Walked
<1>2. Types /\ Walked /\ [Next]_vars => Walked'
  <2>1. ASSUME Types, Walked, NEW c \in Symbols, Read(c) PROVE Walked'
    BY <2>1, WalkedStep
  <2>2. Walked /\ UNCHANGED vars => Walked'
    BY DEF vars, Walked
  <2>. QED
    BY <2>1, <2>2 DEF Next
<1>3. SideBySide => Types
  BY DEF SideBySide
<1>. QED
  BY <1>1, <1>2, <1>3, ReadersSideBySide, PTL DEF Spec

\* Types, and the cuts of splitTopLevelCSV (syntax.go:98) as one pass over a text
\* makes them are those of SplitTopLevelCSV, for texts of any length.
THEOREM TypesKept == Spec => []TypeOK
<1>1. SpecSideBySide /\ Walked => TypeOK
  <2>. SUFFICES ASSUME SpecSideBySide, Walked PROVE TypeOK
    OBVIOUS
  <2>1. Types /\ spec.quote \in QuoteMarks \cup {None} /\ spec.depth \in Nat
    BY DEF SpecSideBySide, SpecTypes
  <2>2. topCuts \subseteq DOMAIN text
    BY DEF Walked, TopLevelPlaces
  <2>. QED
    BY <2>1, <2>2 DEF Types, Modes, Walked, TypeOK
<1>. QED
  BY <1>1, SplitterSideBySide, WalksAgree, PTL
-----------------------------------------------------------------------------
(* Parentheses that match. The scan of findMatchingParen starts at an      *)
(* opening parenthesis, knowing nothing of the text before it; from there  *)
(* it walks beside the lexer, at the depth that it had there.              *)

PlainText(txt) == \A i \in DOMAIN txt : txt[i] \notin {"backslash"} \cup CommentMarks

LEMMA TopStatesAt ==
    ASSUME NEW txt \in Seq(Symbols), NEW i \in 1..Len(txt)
    PROVE  TopStates(txt)[0] = TopLevel /\ TopStates(txt)[i] = TopStep(TopStates(txt)[i - 1], txt[i])
  BY TopStatesWalk

LEMMA LexStatesAt ==
    ASSUME NEW txt \in Seq(Symbols), NEW i \in 1..Len(txt)
    PROVE  LexStates(txt)[0] = LexStart /\ LexStates(txt)[i] = LexStep(LexStates(txt)[i - 1], txt[i])
  BY LexStatesWalk

\* The readers are alike at every place of a plain text.
LEMMA AlikeEverywhere ==
    ASSUME NEW txt \in Seq(Symbols), PlainText(txt), Len(txt) > 0
    PROVE  \A i \in 0..Len(txt) : ReadsAlike(TopStates(txt)[i], LexStates(txt)[i])
<1>. DEFINE Alike(i) == ReadsAlike(TopStates(txt)[i], LexStates(txt)[i])
            T == {i \in 0..Len(txt) : ~Alike(i)}
<1>. SUFFICES ASSUME T # {} PROVE FALSE
  OBVIOUS
<1>1. T \in SUBSET Nat /\ Len(txt) \in Nat
  OBVIOUS
<1>2. PICK i \in T : \A j \in T : i <= j
  BY <1>1, LeastPlace
<1>3. i # 0
  <2>1. Alike(0)
    BY TopStatesAt, LexStatesAt
       DEF ReadsAlike, TopLevel, LexStart, ScanType, LexType, QuoteStates, Modes, None
  <2>. QED
    BY <2>1, <1>2
<1>4. i \in 1..Len(txt) /\ i - 1 \in 0..Len(txt) /\ i - 1 \notin T
  BY <1>1, <1>2, <1>3
<1>5. Alike(i - 1) /\ txt[i] \notin {"backslash"} \cup CommentMarks
  BY <1>4 DEF PlainText
<1>6. Alike(i)
  BY <1>4, <1>5, PlainStep, TopStatesAt, LexStatesAt
<1>. QED
  BY <1>2, <1>6

\* A depth below zero is there to stay.
LEMMA DepthStaysNegative ==
    ASSUME NEW txt \in Seq(Symbols), PlainText(txt), Len(txt) > 0, LexStates(txt)[Len(txt)].depth >= 0
    PROVE  \A i \in 0..Len(txt) : LexStates(txt)[i].depth \in Nat
<1>. DEFINE d(i) == LexStates(txt)[i].depth
<1>1. \A i \in 0..Len(txt) : d(i) \in Nat \cup {-1}
  BY AlikeEverywhere DEF ReadsAlike, LexType
<1>. SUFFICES ASSUME NEW i \in 0..Len(txt), d(i) = -1 PROVE FALSE
  BY <1>1
<1>. DEFINE T == {j \in i..Len(txt) : d(j) # -1}
<1>2. Len(txt) \in Nat /\ T \in SUBSET Nat /\ Len(txt) \in T
  OBVIOUS
<1>3. PICK j \in T : \A k \in T : j <= k
  BY <1>2, LeastPlace
<1>4. j # i /\ j \in 1..Len(txt) /\ j - 1 \in i..Len(txt) /\ j - 1 \notin T
  BY <1>2, <1>3
<1>5. d(j - 1) = -1 /\ txt[j] \notin {"backslash"} \cup CommentMarks /\ j - 1 \in 0..Len(txt)
  BY <1>4 DEF PlainText
<1>6. ReadsAlike(TopStates(txt)[j - 1], LexStates(txt)[j - 1])
  BY <1>5, AlikeEverywhere
<1>7. d(j) = -1
  BY <1>4, <1>5, <1>6, PlainStep, LexStatesAt
<1>. QED
  BY <1>3, <1>7

LEMMA MinIs ==
    ASSUME NEW S \in SUBSET Nat, NEW i \in S, \A j \in S : i <= j
    PROVE  Min(S) = i
<1>1. \A x \in S : (\A y \in S : x <= y) => x = i
  OBVIOUS
<1>. QED
  BY <1>1 DEF Min

\* The rest of a text from a place on.
LEMMA RestOf ==
    ASSUME NEW txt \in Seq(Symbols), NEW open \in DOMAIN txt
    PROVE  /\ Len(txt) \in Nat /\ Len(txt) > 0 /\ open \in 1..Len(txt) /\ open - 1 \in 0..Len(txt)
           /\ SubSeq(txt, open, Len(txt)) \in Seq(Symbols)
           /\ Len(SubSeq(txt, open, Len(txt))) = Len(txt) - open + 1
           /\ \A i \in open..Len(txt) : /\ i - open + 1 \in 1..Len(SubSeq(txt, open, Len(txt)))
                                        /\ SubSeq(txt, open, Len(txt))[i - open + 1] = txt[i]
<1>. DEFINE n == Len(txt)
            rest == SubSeq(txt, open, n)
<1>1. n \in Nat /\ open \in 1..n
  OBVIOUS
<1>2. rest \in Seq(Symbols) /\ Len(rest) = n - open + 1
  BY <1>1
<1>3. rest = [k \in 1..(n - open + 1) |-> txt[k + open - 1]]
  BY <1>1
<1>. HIDE DEF n, rest
<1>4. n > 0 /\ open - 1 \in 0..n /\ \A i \in open..n : i - open + 1 \in 1..(n - open + 1) /\ (i - open + 1) + open - 1 = i
  BY <1>1
<1>5. \A i \in open..n : i - open + 1 \in 1..Len(rest) /\ rest[i - open + 1] = txt[i]
  BY <1>2, <1>3, <1>4
<1>. QED
  BY <1>1, <1>2, <1>4, <1>5 DEF n, rest

\* From an opening parenthesis of code the scan walks beside the lexer.
LEMMA ScanFollows ==
    ASSUME NEW txt \in Seq(Symbols), PlainText(txt), LexStates(txt)[Len(txt)].depth >= 0,
           NEW open \in DOMAIN txt, txt[open] = "(", InCode(LexStates(txt)[open])
    PROVE  FindMatchingParen(txt, open) =
              FirstPlace({i \in open..Len(txt) : /\ txt[i] = ")" /\ InCode(LexStates(txt)[i])
                                                 /\ LexStates(txt)[i].depth = LexStates(txt)[open - 1].depth})
<1>. DEFINE l == LexStates(txt)
            rest == SubSeq(txt, open, Len(txt))
            s(i) == TopStates(rest)[i - open + 1]
            d == l[open - 1].depth
            Found == {i \in open..Len(txt) : txt[i] = ")" /\ AtTopLevel(s(i))}
            Closing == {i \in open..Len(txt) : txt[i] = ")" /\ InCode(l[i]) /\ l[i].depth = d}
            Follows(i) == ReadsAlike(s(i), l[i]) /\ l[i].depth = d + s(i).depth /\ s(i).depth > 0
<1>1. /\ Len(txt) \in Nat /\ Len(txt) > 0 /\ open \in 1..Len(txt) /\ open - 1 \in 0..Len(txt)
      /\ rest \in Seq(Symbols) /\ Len(rest) = Len(txt) - open + 1
      /\ \A i \in open..Len(txt) : i - open + 1 \in 1..Len(rest) /\ rest[i - open + 1] = txt[i]
  BY RestOf
<1>2. \A i \in 0..Len(txt) : l[i].depth \in Nat /\ ReadsAlike(TopStates(txt)[i], l[i])
  BY <1>1, AlikeEverywhere, DepthStaysNegative
<1>3. \A i \in 1..Len(txt) : txt[i] \notin {"backslash"} \cup CommentMarks
  BY DEF PlainText
<1>4. \A i \in 1..Len(txt) : l[i] = LexStep(l[i - 1], txt[i])
  BY LexStatesAt
<1>5. s(open) = TopStep(TopLevel, "(")
  <2>. HIDE DEF rest
  <2>1. open - open + 1 = 1 /\ 1 - 1 = 0 /\ open \in open..Len(txt)
    BY <1>1
  <2>2. 1 \in 1..Len(rest) /\ rest[1] = "("
    BY <1>1, <2>1
  <2>3. TopStates(rest)[1] = TopStep(TopStates(rest)[0], rest[1]) /\ TopStates(rest)[0] = TopLevel
    BY <1>1, <2>1, <2>2, TopStatesAt
  <2>. QED
    BY <2>1, <2>2, <2>3
<1>6. \A i \in open..Len(txt) : i # open => s(i) = TopStep(s(i - 1), txt[i])
  <2>. SUFFICES ASSUME NEW i \in open..Len(txt), i # open PROVE s(i) = TopStep(s(i - 1), txt[i])
    OBVIOUS
  <2>1. i - open + 1 \in 1..Len(rest) /\ (i - open + 1) - 1 = (i - 1) - open + 1 /\ rest[i - open + 1] = txt[i]
    BY <1>1
  <2>. QED
    BY <1>1, <2>1, TopStatesAt
<1>7. d \in Nat
  BY <1>1, <1>2
<1>. HIDE DEF l, rest, s, d
\* At the parenthesis itself.
<1>8. Follows(open)
  <2>1. l[open] = LexStep(l[open - 1], "(") /\ ReadsAlike(TopStates(txt)[open - 1], l[open - 1])
    BY <1>1, <1>2, <1>4
  <2>2. ReadsAlike(TopStep(TopStates(txt)[open - 1], "("), l[open]) /\ l[open].depth = d + 1
    BY <1>7, <2>1, PlainStep DEF CommentMarks, d, l
  <2>3. l[open].mode # "string"
    BY DEF InCode, l
  <2>4. s(open) = [quote |-> None, depth |-> 1]
    BY <1>5 DEF TopStep, TopLevel, QuoteMarks, None
  <2>. QED
    BY <1>7, <2>2, <2>3, <2>4 DEF ReadsAlike, ScanType, QuoteStates
\* One step on, unless it closes the parenthesis to either reader.
<1>9. ASSUME NEW i \in open..Len(txt), i # open, Follows(i - 1)
      PROVE  (i \in Found <=> i \in Closing) /\ (i \notin Found => Follows(i))
  <2>1. s(i) = TopStep(s(i - 1), txt[i]) /\ l[i] = LexStep(l[i - 1], txt[i])
    BY <1>1, <1>4, <1>6, <1>9
  <2>2. txt[i] \notin {"backslash"} \cup CommentMarks
    BY <1>1, <1>3, <1>9
  <2>3. ReadsAlike(s(i), l[i])
    BY <1>9, <2>1, <2>2, PlainStep
  <2>4. s(i - 1).depth \in Nat /\ s(i).depth \in Nat /\ l[i].depth \in Nat \cup {-1}
    BY <1>9, <2>3 DEF ReadsAlike, ScanType, LexType
  <2>5. l[i].depth = d + s(i).depth
    <3>1. CASE InCode(l[i]) /\ txt[i] = "("
      <4>1. ReadsAlike(s(i - 1), l[i - 1]) /\ l[i - 1].depth = d + s(i - 1).depth /\ ~(l[i - 1].depth < 0)
        BY <1>7, <1>9, <2>4
      <4>2. s(i).depth = s(i - 1).depth + 1 /\ l[i].depth = l[i - 1].depth + 1
        BY <2>1, <2>2, <3>1, <4>1, PlainStep
      <4>. QED
        BY <1>7, <2>4, <4>1, <4>2
    <3>2. CASE InCode(l[i]) /\ txt[i] = ")"
      BY <1>7, <1>9, <2>1, <2>2, <2>4, <3>2, PlainStep
    <3>3. CASE ~(InCode(l[i]) /\ txt[i] \in {"(", ")"})
      BY <1>9, <2>1, <2>2, <3>3, PlainStep
    <3>. QED
      BY <3>1, <3>2, <3>3
  <2>6. InCode(l[i]) <=> s(i).quote = None
    BY <2>3 DEF ReadsAlike, InCode, QuoteMarks, None
  <2>7. l[i].depth = d <=> s(i).depth = 0
    BY <1>7, <2>4, <2>5
  <2>8. i \in Found <=> i \in Closing
    BY <2>6, <2>7 DEF AtTopLevel
  <2>9. s(i).depth = 0 => i \in Found
    <3>. SUFFICES ASSUME s(i).depth = 0 PROVE i \in Found
      OBVIOUS
    <3>1. InCode(l[i]) /\ txt[i] = ")"
      BY <1>9, <2>1, <2>2, <2>4, PlainStep
    <3>. QED
      BY <2>6, <3>1 DEF AtTopLevel
  <2>. QED
    BY <2>3, <2>4, <2>5, <2>8, <2>9
<1>10. open \notin Found \cup Closing
  OBVIOUS
<1>. HIDE DEF Found, Closing, Follows
<1>11. \A i \in open..Len(txt) : (\A j \in open..i : j \notin Found \cup Closing) => Follows(i)
  <2>. DEFINE Bad(i) == (\A j \in open..i : j \notin Found \cup Closing) /\ ~Follows(i)
              T == {i \in open..Len(txt) : Bad(i)}
  <2>. SUFFICES ASSUME T # {} PROVE FALSE
    OBVIOUS
  <2>1. T \in SUBSET Nat
    BY <1>1
  <2>2. PICK i \in T : \A j \in T : i <= j
    BY <2>1, LeastPlace
  <2>3. i # open /\ i \in open..Len(txt) /\ i - 1 \in open..Len(txt) /\ i - 1 \notin T
    <3>1. i \in open..Len(txt) /\ ~Follows(i)
      BY <2>2
    <3>. HIDE DEF Bad, T
    <3>2. i # open
      BY <1>8, <3>1
    <3>3. i \in Nat /\ open \in Nat /\ Len(txt) \in Nat
      BY <1>1, <2>1
    <3>. DEFINE n == Len(txt)
    <3>. HIDE DEF n
    <3>4. i - 1 \in open..n /\ ~(i <= i - 1)
      BY <3>1, <3>2, <3>3 DEF n
    <3>. QED
      BY <2>2, <3>1, <3>2, <3>4 DEF n, T
  <2>4. \A j \in open..(i - 1) : j \in open..i
    BY <1>1, <2>3
  <2>5. Follows(i - 1)
    BY <2>2, <2>3, <2>4
  <2>6. i \notin Found
    BY <1>1, <2>2, <2>3
  <2>. QED
    BY <1>9, <2>2, <2>3, <2>5, <2>6
<1>12. \A i \in Found \cup Closing : (\A j \in Found \cup Closing : i <= j) => i \in Found /\ i \in Closing
  <2>. SUFFICES ASSUME NEW i \in Found \cup Closing, \A j \in Found \cup Closing : i <= j
                PROVE  i \in Found /\ i \in Closing
    OBVIOUS
  <2>1. i \in open..Len(txt) /\ i # open
    BY <1>10 DEF Found, Closing
  <2>. DEFINE n == Len(txt)
  <2>2. i - 1 \in open..n /\ \A j \in open..(i - 1) : ~(i <= j)
    <3>1. n \in Nat /\ open \in Nat /\ i \in open..n /\ i # open
      BY <1>1, <2>1
    <3>. HIDE DEF n
    <3>. QED
      BY <3>1
  <2>3. Follows(i - 1)
    BY <1>11, <2>2
  <2>. QED
    BY <1>9, <2>1, <2>3
<1>13. FirstPlace(Found) = FirstPlace(Closing)
  <2>1. Found \in SUBSET Nat /\ Closing \in SUBSET Nat
    BY <1>1 DEF Found, Closing
  <2>2. CASE Found \cup Closing = {}
    BY <2>2 DEF FirstPlace
  <2>3. CASE Found \cup Closing # {}
    <3>1. PICK i \in Found \cup Closing : \A j \in Found \cup Closing : i <= j
      BY <2>1, <2>3, LeastPlace
    <3>2. i \in Found /\ i \in Closing
      BY <1>12, <3>1
    <3>3. Min(Found) = i /\ Min(Closing) = i
      BY <2>1, <3>1, <3>2, MinIs
    <3>. QED
      BY <3>2, <3>3 DEF FirstPlace
  <2>. QED
    BY <2>2, <2>3
<1>. QED
  BY <1>1, <1>13 DEF FindMatchingParen, Found, Closing, s, rest, d, l

\* Whatever the text before it, findMatchingParen (syntax.go:186) finds for a
\* parenthesis of code the place where the lexer is back at the depth before it,
\* in texts of any length with neither backslashes nor comments.
THEOREM ParenthesesMatch == Spec => []ParensMatch
<1>1. Types /\ Walked => ParensMatch
  <2>. SUFFICES ASSUME Types, Walked, Plain, Balanced,
                       NEW open \in DOMAIN text, text[open] = "(", InCode(LexStates(text)[open])
                PROVE  LET l == LexStates(text)
                           Closing == {i \in open..Len(text) : /\ text[i] = ")"
                                          /\ InCode(l[i]) /\ l[i].depth = l[open - 1].depth}
                       IN  FindMatchingParen(text, open) = IF Closing = {} THEN 0 ELSE Min(Closing)
    BY DEF ParensMatch, Plain
  <2>1. text \in Seq(Symbols) /\ LexStates(text)[Len(text)].depth >= 0
    BY DEF Types, Walked, Balanced
  <2>2. PlainText(text)
    BY DEF Plain, PlainText, Contains
  <2>. QED
    BY <2>1, <2>2, ScanFollows DEF FirstPlace
<1>2. SideBySide => Types
  BY DEF SideBySide
<1>. QED
  BY <1>1, <1>2, ReadersSideBySide, WalksAgree, PTL
=============================================================================
