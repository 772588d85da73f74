---------------------------- MODULE PipelineProof ----------------------------
(***************************************************************************)
(* Why a refusal is final and why what is rendered means what was asked,   *)
(* for every set of texts: each stage's result is a function of the text,  *)
(* so that the invariant names it, and the properties follow type by type  *)
(* of the statement.                                                       *)
(***************************************************************************)
EXTENDS Pipeline, TLAPS

Parsed == ParseOne(text, from)

\* What the normaliser accepted, and what only the legacy parser is left for.
Normalized ==
    /\ parsed = Parsed /\ parsed # Error /\ ~ShouldBlockRecognizedUnadapted
    /\ ir = ParsedStatement(text, parsed) /\ ir # Error

LeftToLegacy ==
    \/ parsed = NoStatement /\ Parsed = Error
    \/ /\ parsed = Parsed /\ parsed # Error /\ ~ShouldBlockRecognizedUnadapted
       /\ ParsedStatement(text, parsed) = Error
       /\ ~(parsed.kind \in {"show", "set"} /\ parsed.status = "supported")

ByLegacy == LeftToLegacy /\ ir \in {Raw, Clauses}

\* Where a translation is, and from what.
PipeInv ==
    /\ text \in Texts /\ from \in InputDialects /\ to \in TargetDialects
    /\ pc \in {"translate", "parsed", "legacy", "render", "done"}
    /\ pc # "done" => outcome = NoStatement
    /\ pc \in {"translate", "parsed", "legacy"} => ir = NoStatement
    /\ pc = "translate" => parsed = NoStatement
    /\ pc \in {"parsed", "legacy", "render"} => from # to
    /\ pc = "parsed" => parsed = Parsed /\ parsed # Error
    /\ pc = "legacy" => LeftToLegacy
    /\ pc = "render" => Normalized \/ ByLegacy
    /\ pc = "done" =>
         \/ from = to /\ outcome = Verbatim /\ parsed = NoStatement /\ ir = NoStatement
         \/ /\ parsed = Parsed /\ parsed # Error /\ ShouldBlockRecognizedUnadapted
            /\ outcome = ParserAdaptationError /\ ir = NoStatement
         \/ /\ parsed = Parsed /\ parsed # Error /\ ~ShouldBlockRecognizedUnadapted
            /\ ParsedStatement(text, parsed) = Error /\ outcome = Error /\ ir = NoStatement
         \/ LeftToLegacy /\ outcome = Error /\ ir = NoStatement
         \/ (Normalized \/ ByLegacy) /\ outcome = RenderStatement(ir, to)

LEMMA PipeInit == Init => PipeInv
BY DEF Init, PipeInv

\* Every stage goes on from what the stage before it found.
LEMMA PipeStep == PipeInv /\ [Next]_vars => PipeInv'
<1> SUFFICES ASSUME PipeInv, [Next]_vars PROVE PipeInv'
  OBVIOUS
<1>1. CASE SameDialect
  BY <1>1 DEF SameDialect, Finish, PipeInv
<1>2. CASE Parse
  <2>1. Parsed' = Parsed /\ UNCHANGED <<text, from, to, ir, outcome>> /\ pc = "translate" /\ from # to
    BY <1>2 DEF Parse, Parsed
  <2>2. CASE Parsed = Error /\ pc' = "legacy" /\ parsed' = parsed
    BY <2>1, <2>2 DEF PipeInv, LeftToLegacy
  <2>3. CASE Parsed # Error /\ pc' = "parsed" /\ parsed' = Parsed
    BY <2>1, <2>3 DEF PipeInv
  <2>. QED
    BY <1>2, <2>2, <2>3 DEF Parse, Parsed
<1>3. CASE Block
  <2>1. Parsed' = Parsed /\ UNCHANGED <<text, from, to, parsed, ir>> /\ pc = "parsed"
        /\ pc' = "done" /\ outcome' = ParserAdaptationError /\ ShouldBlockRecognizedUnadapted
    BY <1>3 DEF Block, Parsed, Finish
  <2>2. ShouldBlockRecognizedUnadapted'
    BY <2>1 DEF ShouldBlockRecognizedUnadapted
  <2>. QED
    BY <2>1, <2>2 DEF PipeInv
<1>4. CASE Normalize
  <2> DEFINE s == ParsedStatement(text, parsed)
  <2>1. Parsed' = Parsed /\ UNCHANGED <<text, from, to, parsed>> /\ pc = "parsed" /\ s' = s
        /\ ~ShouldBlockRecognizedUnadapted
    BY <1>4 DEF Normalize, Parsed
  <2>2. ~ShouldBlockRecognizedUnadapted'
    BY <2>1 DEF ShouldBlockRecognizedUnadapted
  <2>3. \/ s # Error /\ pc' = "render" /\ ir' = s /\ outcome' = outcome
        \/ s = Error /\ pc' = "done" /\ outcome' = Error /\ ir' = ir
        \/ /\ s = Error /\ ~(parsed.kind \in {"show", "set"} /\ parsed.status = "supported")
           /\ pc' = "legacy" /\ ir' = ir /\ outcome' = outcome
    BY <1>4 DEF Normalize, Finish
  <2> HIDE DEF s
  <2>4. CASE s # Error /\ pc' = "render" /\ ir' = s /\ outcome' = outcome
    <3>1. Normalized'
      BY <2>1, <2>2, <2>4 DEF PipeInv, Normalized, s
    <3>. QED
      BY <2>1, <2>4, <3>1 DEF PipeInv
  <2>5. CASE s = Error /\ pc' = "done" /\ outcome' = Error /\ ir' = ir
    BY <2>1, <2>2, <2>5 DEF PipeInv, s
  <2>6. CASE /\ s = Error /\ ~(parsed.kind \in {"show", "set"} /\ parsed.status = "supported")
             /\ pc' = "legacy" /\ ir' = ir /\ outcome' = outcome
    <3>1. LeftToLegacy'
      BY <2>1, <2>2, <2>6 DEF PipeInv, LeftToLegacy, s
    <3>. QED
      BY <2>1, <2>6, <3>1 DEF PipeInv
  <2>. QED
    BY <2>3, <2>4, <2>5, <2>6
<1>5. CASE ParseLegacy
  <2>1. Parsed' = Parsed /\ UNCHANGED <<text, from, to, parsed>> /\ pc = "legacy" /\ LeftToLegacy' = LeftToLegacy
    BY <1>5 DEF ParseLegacy, Parsed, LeftToLegacy, ShouldBlockRecognizedUnadapted
  <2>2. \/ pc' = "done" /\ outcome' = Error /\ ir' = ir
        \/ pc' = "render" /\ ir' \in {Raw, Clauses} /\ outcome' = outcome
    BY <1>5 DEF ParseLegacy, Finish
  <2>. QED
    BY <2>1, <2>2 DEF PipeInv, ByLegacy
<1>6. CASE Render
  <2>1. UNCHANGED <<text, from, to, parsed, ir>> /\ pc = "render" /\ pc' = "done" /\ outcome' = RenderStatement(ir, to)
        /\ Normalized' = Normalized /\ ByLegacy' = ByLegacy
    BY <1>6 DEF Render, Finish, Normalized, ByLegacy, LeftToLegacy, Parsed, ShouldBlockRecognizedUnadapted
  <2>. QED
    BY <2>1 DEF PipeInv
<1>7. CASE UNCHANGED vars
  BY <1>7 DEF vars, PipeInv, Normalized, ByLegacy, LeftToLegacy, Parsed, ShouldBlockRecognizedUnadapted
<1>. QED
  BY <1>1, <1>2, <1>3, <1>4, <1>5, <1>6, <1>7 DEF Next

\* The stages of a translation, for every text.
THEOREM PipelineInvariant == Spec => []PipeInv
BY PipeInit, PipeStep, PTL DEF Spec
-----------------------------------------------------------------------------
\* A single statement is classified by the AST, and never taken for a failure.
LEMMA SingleParse ==
    ASSUME PipeInv, Single
    PROVE  Parsed = ClassifyTiDBStatement(text, Statement) /\ 1 \in DOMAIN Statements(text)
<1>1. text \in Texts /\ Len(Statements(text)) = 1 /\ from \in MySQLFamily
  BY DEF PipeInv, Single
<1>2. DOMAIN Statements(text) = 1 .. 1
  BY <1>1, TextsAssumption DEF Statements
<1> DEFINE F == [k \in DOMAIN Statements(text) |-> ClassifyTiDBStatement(text, Statements(text)[k])]
<1>3. F[1] = ClassifyTiDBStatement(text, Statement) /\ DOMAIN F = 1 .. 1
  BY <1>2 DEF Statement
<1>4. F \in Seq({F[1]})
  BY <1>2, <1>3
<1>5. Len(F) = 1
  BY <1>3, <1>4
<1>6. ParseMulti(text, from) = F
  BY <1>1, <1>2 DEF ParseMulti
<1> HIDE DEF F
<1>. QED
  BY <1>2, <1>3, <1>5, <1>6 DEF Parsed, ParseOne

\* The kinds that the pipeline tells apart, with what decides their status.
LEMMA Kinds ==
    ASSUME NEW t, NEW n
    PROVE  /\ n.type = "set" => ClassifyTiDBStatement(t, n) = Classified(n, "set", ClassifyTiDBSetStatement(t, n))
           /\ n.type = "show" => ClassifyTiDBStatement(t, n) = Classified(n, "show", ClassifyTiDBShowStatement(n))
           /\ n.type = "begin" => ClassifyTiDBStatement(t, n) = Classified(n, "begin", ClassifyTiDBBeginStatement(t, n))
           /\ n.type \in {"commit", "rollback"} =>
                ClassifyTiDBStatement(t, n) = Classified(n, n.type, ClassifyTiDBCompletion(t, n))
           /\ n.type \in DirectTypes => ClassifyTiDBStatement(t, n) = Classified(n, n.type, "supported")
           /\ n.type \notin DirectTypes \cup {"set", "show", "begin", "commit", "rollback"} =>
                ClassifyTiDBStatement(t, n) = Classified(n, "other", "unsupported")
BY DEF ClassifyTiDBStatement, DirectTypes, DataTypes, SchemaTypes, SessionTypes

LEMMA NeverError ==
    ASSUME NEW n, NEW kind, NEW status
    PROVE  /\ Classified(n, kind, status) # Error
           /\ Classified(n, kind, status).kind = kind /\ Classified(n, kind, status).status = status
           /\ Classified(n, kind, status).node = n
<1>1. "kind" \in DOMAIN Classified(n, kind, status) /\ "kind" \notin DOMAIN Error
  BY DEF Classified, Error
<1>. QED
  BY <1>1 DEF Classified

\* Of a single SHOW or SET nothing is left to the legacy parser.
LEMMA NotLeft ==
    ASSUME PipeInv, Single, Statement.type \in {"show", "set"}
    PROVE  ~LeftToLegacy
<1>1. Parsed = ClassifyTiDBStatement(text, Statement)
  BY SingleParse
<1>2. /\ Statement.type = "set" =>
           Parsed = Classified(Statement, "set", ClassifyTiDBSetStatement(text, Statement))
      /\ Statement.type = "show" => Parsed = Classified(Statement, "show", ClassifyTiDBShowStatement(Statement))
  BY <1>1, Kinds
<1>3. ClassifyTiDBSetStatement(text, Statement) \in {"recognized_unadapted", "supported"}
      /\ ClassifyTiDBShowStatement(Statement) \in {"recognized_unadapted", "supported"}
  BY DEF ClassifyTiDBSetStatement, ClassifyTiDBShowStatement
<1>4. Parsed # Error /\ Parsed.kind \in {"set", "show"} /\ Parsed.status \in {"recognized_unadapted", "supported"}
  BY <1>2, <1>3, NeverError
<1>. QED
  BY <1>4 DEF LeftToLegacy, ShouldBlockRecognizedUnadapted

\* What the normaliser makes of them.
LEMMA ShowOrSet ==
    ASSUME NEW t, NEW n, NEW kind, NEW status
    PROVE  /\ n.type = "show" => ParsedStatement(t, Classified(n, kind, status)) = NormalizeShow(n)
           /\ n.type = "set" => ParsedStatement(t, Classified(n, kind, status)) = NormalizeTiDBSet(t, n)
BY NeverError DEF ParsedStatement, RawTypes, RawDDLTypes, SessionTypes

LEMMA ShowResult ==
    ASSUME NEW n
    PROVE  NormalizeShow(n) = Error \/ \E p, c, v : NormalizeShow(n) = Show(n, p, c, v)
<1>1. NormalizeShowIndexWhere(n) = Error \/ \E p, c, v : NormalizeShowIndexWhere(n) = Show(n, p, c, v)
  BY DEF NormalizeShowIndexWhere
<1>2. NormalizeShowWhere(n) = Error \/ \E p, c, v : NormalizeShowWhere(n) = Show(n, p, c, v)
  BY <1>1 DEF NormalizeShowWhere
<1>3. NormalizeShowLikePattern(n) = Error \/ \E p, c, v : NormalizeShowLikePattern(n) = Show(n, p, c, v)
  BY DEF NormalizeShowLikePattern
<1>. QED
  BY <1>2, <1>3 DEF NormalizeShow
\* How the translation of a single SHOW or SET ends.
Refused == outcome \in {ParserAdaptationError, Error}

LEMMA SingleEnds ==
    ASSUME PipeInv, pc = "done", Single, Statement.type \in {"show", "set"}
    PROVE  \/ Refused
           \/ /\ ~ShouldBlockRecognizedUnadapted /\ parsed = Parsed
              /\ ir = IF Statement.type = "show" THEN NormalizeShow(Statement) ELSE NormalizeTiDBSet(text, Statement)
              /\ ir # Error /\ outcome = RenderStatement(ir, to)
<1>1. ~LeftToLegacy /\ from # to
  BY NotLeft DEF Single
<1>2. Refused \/ (Normalized /\ outcome = RenderStatement(ir, to))
  BY <1>1 DEF PipeInv, ByLegacy, Refused
<1>3. ASSUME Normalized
      PROVE  ir = IF Statement.type = "show" THEN NormalizeShow(Statement) ELSE NormalizeTiDBSet(text, Statement)
  <2>1. Parsed = ClassifyTiDBStatement(text, Statement)
    BY SingleParse
  <2>2. /\ Statement.type = "set" =>
             Parsed = Classified(Statement, "set", ClassifyTiDBSetStatement(text, Statement))
        /\ Statement.type = "show" => Parsed = Classified(Statement, "show", ClassifyTiDBShowStatement(Statement))
    BY <2>1, Kinds
  <2>. QED
    BY <1>3, <2>2, ShowOrSet DEF Normalized
<1>. QED
  BY <1>2, <1>3 DEF Normalized

\* What SHOW and SET are rendered to.
LEMMA RenderedShow ==
    ASSUME NEW n, NEW target, NormalizeShow(n) # Error
    PROVE  /\ NormalizeShow(n).op = "show"
           /\ RenderStatement(NormalizeShow(n), target) = RenderShow(NormalizeShow(n), target)
           /\ RenderShow(NormalizeShow(n), target).op \in {"show", "error"}
<1>1. PICK p, c, v : NormalizeShow(n) = Show(n, p, c, v)
  BY ShowResult
<1>2. NormalizeShow(n).op = "show"
  BY <1>1 DEF Show
<1>. QED
  BY <1>2 DEF RenderStatement, RenderedStatements, SessionTypes, RenderShow, Error

LEMMA RenderedSet ==
    ASSUME NEW t, NEW n, NEW target, n.name \in SetNames, NormalizeTiDBSet(t, n) # Error
    PROVE  /\ NormalizeTiDBSet(t, n).op \in {"set", "set_transaction"}
           /\ RenderStatement(NormalizeTiDBSet(t, n), target) \in {NormalizeTiDBSet(t, n), Error}
<1>1. ~(n.variables # 1 \/ n.extended \/ n.name = "other" \/ ~n.accepted)
  BY DEF NormalizeTiDBSet
<1>2. NormalizeTiDBSet(t, n) = CASE n.name = "names" -> [op |-> "set"]
           [] n.name = "tx_isolation_one_shot" -> [op |-> "set_transaction", scope |-> "transaction"]
           [] n.name = "tx_isolation" ->
                  IF n.isGlobal THEN Error ELSE [op |-> "set_transaction", scope |-> "session"]
           [] n.name = "tx_read_only" ->
                  IF SetScope(t) = "unsupported" THEN Error
                  ELSE [op |-> "set_transaction", scope |-> SetScope(t)]
  BY <1>1 DEF NormalizeTiDBSet
<1>. QED
  <2>1. n.name \in {"names", "tx_isolation_one_shot", "tx_isolation", "tx_read_only"}
    BY <1>1 DEF SetNames
  <2>2. NormalizeTiDBSet(t, n).op \in {"set", "set_transaction"}
    BY <1>2, <2>1
  <2>. QED
    BY <2>2 DEF RenderStatement, RenderSet, RenderedStatements, SessionTypes
\* Nothing else is normalised to a SHOW or a SET.
OtherOps == {"error", "clauses", "raw", "alter_table", "rename_table", "batch", "create_table", "create_index",
             "drop_index", "rollback_to_savepoint"} \cup SessionTypes

LEMMA OtherResult ==
    ASSUME NEW t, NEW n, NEW kind, NEW status, n.type \notin {"show", "set"}
    PROVE  ParsedStatement(t, Classified(n, kind, status)).op \in OtherOps
<1>1. Clauses.op \in OtherOps /\ Raw.op \in OtherOps /\ Error.op \in OtherOps
  BY DEF Clauses, Raw, Error, OtherOps
<1>2. n.type \in {"alter_table", "rename_table"} => Split(n).op \in OtherOps
  BY <1>1 DEF Split, OtherOps
<1>3. NormalizeTiDBRollback(n).op \in OtherOps
  BY <1>1 DEF NormalizeTiDBRollback, OtherOps
<1>4. [op |-> "alter_table"].op \in OtherOps
      /\ \A type \in {"create_table", "create_index", "drop_index"} \cup SessionTypes : [op |-> type].op \in OtherOps
  BY DEF OtherOps
<1> HIDE DEF OtherOps
<1>. QED
  BY <1>1, <1>2, <1>3, <1>4, NeverError DEF ParsedStatement, RawTypes, RawDDLTypes, SessionTypes

\* Whatever the normaliser makes of a single statement that is neither, and
\* whatever the legacy parser does, is rendered as itself or not at all.
LEMMA OtherEnds ==
    ASSUME PipeInv, pc = "done", Single, Statement.type \notin {"show", "set"}
    PROVE  outcome.op \notin {"show", "set", "set_transaction"}
<1>1. ASSUME Normalized \/ ByLegacy PROVE ir.op \in OtherOps
  <2>1. Raw.op \in OtherOps /\ Clauses.op \in OtherOps
    BY DEF Raw, Clauses, OtherOps
  <2>2. \E kind, status : Parsed = Classified(Statement, kind, status)
    BY SingleParse, Kinds
  <2>. QED
    BY <1>1, <2>1, <2>2, OtherResult DEF Normalized, ByLegacy
<1>2. ASSUME ir.op \in OtherOps PROVE RenderStatement(ir, to) = ir \/ RenderStatement(ir, to) = Error
  BY <1>2 DEF OtherOps, SessionTypes, RenderStatement, RenderedStatements
<1>3. ASSUME ir.op \in OtherOps PROVE ir.op \notin {"show", "set", "set_transaction"}
  BY <1>3 DEF OtherOps, SessionTypes
<1>4. outcome \in {Verbatim, ParserAdaptationError, Error} \/ ((Normalized \/ ByLegacy) /\ outcome = RenderStatement(ir, to))
  BY DEF PipeInv
<1>. QED
  BY <1>1, <1>2, <1>3, <1>4 DEF Verbatim, ParserAdaptationError, Error

LEMMA RenderedFilter ==
    ASSUME NEW s
    PROVE  /\ s.value # Absent => RenderShowFilter(s) = [op |-> "=", column |-> s.column, value |-> s.value]
           /\ s.value = Absent /\ s.pattern # Absent =>
                  RenderShowFilter(s) = [op |-> "LIKE", column |-> NoColumn, value |-> s.pattern]
           /\ s.value = Absent /\ s.pattern = Absent => RenderShowFilter(s) = NoFilter
BY DEF RenderShowFilter

LEMMA ShowFields ==
    ASSUME NEW s, NEW n, NEW p, NEW c, NEW v, s = Show(n, p, c, v)
    PROVE  s.pattern = p /\ s.column = c /\ s.value = v
BY DEF Show

\* The filter of a SHOW on its way through the normaliser and the renderer.
LEMMA ShowFilter ==
    ASSUME NEW n, NormalizeShow(n) # Error, n.filter.op \in {"none", "LIKE", "=", "other"},
           n.filter.op = "none" => n.filter = NoFilter
    PROVE  /\ NormalizeShow(n).tp = n.tp
           /\ Telling(n) => RenderShowFilter(NormalizeShow(n)) = Asked(n)
<1>1. NormalizeShow(n).tp = n.tp
  BY ShowResult DEF Show
<1>2. NormalizeShow(n) = CASE n.filter.op = "none" -> Show(n, Absent, NoColumn, Absent)
                           [] n.filter.op = "LIKE" -> NormalizeShowLikePattern(n)
                           [] n.filter.op = "=" -> NormalizeShowWhere(n)
                           [] OTHER -> Error
  BY DEF NormalizeShow
<1> PICK s : s = NormalizeShow(n)
  OBVIOUS
<1>3. ASSUME n.filter.op = "none" PROVE RenderShowFilter(s) = Asked(n)
  <2>1. s = Show(n, Absent, NoColumn, Absent)
    BY <1>2, <1>3
  <2>2. s.value = Absent /\ s.pattern = Absent
    BY <2>1, ShowFields
  <2>3. RenderShowFilter(s) = NoFilter
    BY <2>2, RenderedFilter
  <2>4. Asked(n) = n.filter
    BY <1>3 DEF Asked
  <2>. QED
    BY <1>3, <2>3, <2>4
<1>4. ASSUME n.filter.op = "LIKE", Telling(n) PROVE RenderShowFilter(s) = Asked(n)
  <2>1. s = NormalizeShowLikePattern(n)
    BY <1>2, <1>4
  <2>2. s = Show(n, GetString(n.filter.literal), NoColumn, Absent)
    BY <2>1 DEF NormalizeShowLikePattern
  <2>3. GetString(n.filter.literal) # Absent /\ GetString(n.filter.literal) = n.filter.literal.text
    BY <1>4 DEF Telling, GetString
  <2>4. s.value = Absent /\ s.pattern = n.filter.literal.text /\ s.pattern # Absent
    BY <2>2, <2>3, ShowFields
  <2>5. RenderShowFilter(s) = [op |-> "LIKE", column |-> NoColumn, value |-> s.pattern]
    BY <2>4, RenderedFilter
  <2>6. Asked(n) = [op |-> "LIKE", column |-> NoColumn, value |-> n.filter.literal.text]
    BY <1>4 DEF Asked
  <2>. QED
    BY <2>4, <2>5, <2>6
<1>5. ASSUME n.filter.op = "=", Telling(n) PROVE RenderShowFilter(s) = Asked(n)
  <2>1. s = NormalizeShowWhere(n)
    BY <1>2, <1>5
  <2>2. /\ GetString(n.filter.literal) # Absent /\ GetString(n.filter.literal) = n.filter.literal.text
        /\ Compared(n.filter.literal) = n.filter.literal.text
    BY <1>5 DEF Telling, GetString
  <2>8. RawValue(n.filter.literal) = n.filter.literal.text
    BY <1>5, <2>2 DEF Telling, GetString, RawValue, Compared
  <2>3. NormalizeShowIndexWhere(n) = Error
        \/ NormalizeShowIndexWhere(n) = Show(n, Absent, n.filter.column, n.filter.literal.text)
    BY <2>2, <2>8 DEF NormalizeShowIndexWhere
  <2>4. s = Show(n, Absent, n.filter.column, n.filter.literal.text)
    BY <2>1, <2>2, <2>3 DEF NormalizeShowWhere
  <2>5. s.value = n.filter.literal.text /\ s.column = n.filter.column /\ s.value # Absent
    BY <2>2, <2>4, ShowFields
  <2>6. RenderShowFilter(s) = [op |-> "=", column |-> s.column, value |-> s.value]
    BY <2>5, RenderedFilter
  <2>7. Asked(n) = [op |-> "=", column |-> n.filter.column, value |-> n.filter.literal.text]
    BY <1>5 DEF Asked
  <2>. QED
    BY <2>5, <2>6, <2>7
<1>6. n.filter.op # "other"
  BY <1>2
<1>. QED
  BY <1>1, <1>3, <1>4, <1>5, <1>6

-----------------------------------------------------------------------------
\* A SHOW or SET that is the only statement of its text is never passed on as it
\* is, be there comments around it or none.
THEOREM NeverRaw == Spec => []ShowAndSetNeverRaw
<1>1. PipeInv => ShowAndSetNeverRaw
  <2> SUFFICES ASSUME PipeInv, pc = "done", Single, Statement.type \in {"show", "set"} PROVE outcome.op # "raw"
    BY DEF ShowAndSetNeverRaw
  <2>1. CASE Refused
    BY <2>1 DEF Refused, ParserAdaptationError, Error
  <2>2. CASE Statement.type = "show" /\ NormalizeShow(Statement) # Error
             /\ outcome = RenderStatement(NormalizeShow(Statement), to)
    BY <2>2, RenderedShow
  <2>3. CASE Statement.type = "set" /\ NormalizeTiDBSet(text, Statement) # Error
             /\ outcome = RenderStatement(NormalizeTiDBSet(text, Statement), to)
    <3>1. Statement.name \in SetNames
      BY <2>3, SingleParse, NodesAssumption DEF PipeInv, Statement
    <3>. QED
      BY <2>3, <3>1, RenderedSet DEF Error
  <2>. QED
    BY <2>1, <2>2, <2>3, SingleEnds
<1>. QED
  BY <1>1, PipelineInvariant, PTL

\* A rendered SHOW selects what the statement asked for, in every filter LIKE a
\* non-empty string or = a non-empty string without blanks at its ends.
THEOREM FiltersKept == Spec => []FilterKept
<1>1. PipeInv => FilterKept
  <2> SUFFICES ASSUME PipeInv, pc = "done", Single, outcome.op = "show"
               PROVE  /\ outcome.tp = Statement.tp
                      /\ Telling(Statement) => outcome.filter = Asked(Statement)
    BY DEF FilterKept
  <2>1. Statement.type \in {"show", "set"} /\ ~Refused
    BY OtherEnds DEF Refused, ParserAdaptationError, Error
  <2>2. Statement.type = "show"
    <3>1. CASE Statement.type = "set"
      <4>1. Statement.name \in SetNames
        BY <3>1, SingleParse, NodesAssumption DEF PipeInv, Statement
      <4>2. /\ NormalizeTiDBSet(text, Statement) # Error
            /\ outcome = RenderStatement(NormalizeTiDBSet(text, Statement), to)
        BY <2>1, <3>1, SingleEnds
      <4>3. outcome.op \in {"set", "set_transaction"} \/ outcome = Error
        BY <4>1, <4>2, RenderedSet
      <4>. QED
        BY <4>3 DEF Error
    <3>. QED
      BY <2>1, <3>1
  <2>3. /\ NormalizeShow(Statement) # Error
        /\ outcome = RenderShow(NormalizeShow(Statement), to)
    BY <2>1, <2>2, SingleEnds, RenderedShow
  <2>4. outcome.tp = NormalizeShow(Statement).tp /\ outcome.filter = RenderShowFilter(NormalizeShow(Statement))
    BY <2>3 DEF RenderShow, Error
  <2>5. /\ Statement.filter.op \in {"none", "LIKE", "=", "other"}
        /\ Statement.filter.op = "none" => Statement.filter = NoFilter
    BY <2>2, SingleParse, NodesAssumption DEF PipeInv, Statement
  <2>. QED
    BY <2>3, <2>4, <2>5, ShowFilter
<1>. QED
  BY <1>1, PipelineInvariant, PTL

\* A rendered SET TRANSACTION has the scope that the statement named.
THEOREM ScopesKept == Spec => []ScopeKept
<1>1. PipeInv => ScopeKept
  <2> SUFFICES ASSUME PipeInv, pc = "done", Single, outcome.op = "set_transaction"
               PROVE  outcome.scope = ScopeOf(Statement)
    BY DEF ScopeKept
  <2>1. Statement.type \in {"show", "set"} /\ ~Refused
    BY OtherEnds DEF Refused, ParserAdaptationError, Error
  <2>2. Statement.type = "set"
    BY <2>1, SingleEnds, RenderedShow
  <2>3. /\ Statement.name \in SetNames
        /\ Statement.form \in SetReadModePatterns => Statement.name = "tx_read_only" /\ ~Statement.isGlobal
    BY <2>2, SingleParse, NodesAssumption DEF PipeInv, Statement
  <2>4. outcome = NormalizeTiDBSet(text, Statement) /\ outcome # Error
    BY <2>1, <2>2, <2>3, SingleEnds, RenderedSet DEF Refused
  <2>5. ~(Statement.variables # 1 \/ Statement.extended \/ Statement.name = "other" \/ ~Statement.accepted)
    BY <2>4 DEF NormalizeTiDBSet
  <2>6. outcome = CASE Statement.name = "names" -> [op |-> "set"]
           [] Statement.name = "tx_isolation_one_shot" -> [op |-> "set_transaction", scope |-> "transaction"]
           [] Statement.name = "tx_isolation" ->
                  IF Statement.isGlobal THEN Error ELSE [op |-> "set_transaction", scope |-> "session"]
           [] Statement.name = "tx_read_only" ->
                  IF SetScope(text) = "unsupported" THEN Error
                  ELSE [op |-> "set_transaction", scope |-> SetScope(text)]
    BY <2>4, <2>5 DEF NormalizeTiDBSet
  <2>7. CASE Statement.name \in {"tx_isolation_one_shot", "tx_isolation"}
    <3>1. Statement.form # "SET TRANSACTION READ"
      BY <2>3, <2>7 DEF SetReadModePatterns
    <3>2. CASE Statement.name = "tx_isolation_one_shot"
      <4>1. outcome = [op |-> "set_transaction", scope |-> "transaction"]
        BY <2>6, <3>2
      <4>. QED
        BY <3>2, <4>1 DEF ScopeOf
    <3>3. CASE Statement.name = "tx_isolation"
      <4>1. ~Statement.isGlobal /\ outcome = [op |-> "set_transaction", scope |-> "session"]
        BY <2>4, <2>6, <3>3
      <4>. QED
        BY <3>1, <3>3, <4>1 DEF ScopeOf
    <3>. QED
      BY <2>7, <3>2, <3>3
  <2>8. CASE Statement.name = "tx_read_only"
    <3>1. outcome.scope = SetScope(text) /\ SetScope(text) # "unsupported"
      BY <2>4, <2>6, <2>8
    <3>. QED
      BY <2>3, <2>8, <3>1 DEF SetScope, MatchString, ScopeOf, SetReadModePatterns, Statement
  <2>. QED
    BY <2>3, <2>5, <2>6, <2>7, <2>8 DEF SetNames
<1>. QED
  BY <1>1, PipelineInvariant, PTL

-----------------------------------------------------------------------------
\* What the parser of transactions alone has, the classifier finds and the
\* translation stops at.
LEMMA TransactionsStop ==
    ASSUME PipeInv, pc = "done", Single, text.clean, MySQLTransaction(Statement)
    PROVE  outcome = ParserAdaptationError
<1>1. /\ Parsed = ClassifyTiDBStatement(text, Statement)
      /\ Len(Statements(text)) = 1 /\ from # to
  BY SingleParse DEF Single
<1>2. Statement.type \in {"begin", "commit", "rollback"}
  BY DEF MySQLTransaction
<1>3. \E kind \in {"begin", "commit", "rollback"} : Parsed = Classified(Statement, kind, "recognized_unadapted")
  <2>1. CASE Statement.type = "begin"
    <3>1. ClassifyTiDBBeginStatement(text, Statement) = "recognized_unadapted"
      BY <1>1, <2>1 DEF MySQLTransaction, ClassifyTiDBBeginStatement, MatchString, Statement
    <3>. QED
      BY <1>1, <2>1, <3>1, Kinds
  <2>2. CASE Statement.type \in {"commit", "rollback"}
    <3>1. ClassifyTiDBCompletion(text, Statement) = "recognized_unadapted"
      BY <1>1, <2>2 DEF MySQLTransaction, ClassifyTiDBCompletion, MatchString, Statement
    <3>. QED
      BY <1>1, <2>2, <3>1, Kinds
  <2>. QED
    BY <1>2, <2>1, <2>2
<1>4. Parsed # Error /\ Parsed.kind \in {"begin", "commit", "rollback"} /\ Parsed.status = "recognized_unadapted"
  BY <1>3, NeverError
<1>5. parsed = Parsed => ShouldBlockRecognizedUnadapted
  BY <1>4 DEF ShouldBlockRecognizedUnadapted
<1>. QED
  BY <1>1, <1>4, <1>5 DEF PipeInv, LeftToLegacy, Normalized, ByLegacy

LEMMA SetRefused ==
    ASSUME PipeInv, Single, Statement.type = "set", Unadaptable(Statement)
    PROVE  NormalizeTiDBSet(text, Statement) = Error
<1> SUFFICES ASSUME NormalizeTiDBSet(text, Statement) # Error PROVE FALSE
  OBVIOUS
<1>1. ~(Statement.variables # 1 \/ Statement.extended \/ Statement.name = "other" \/ ~Statement.accepted)
  BY DEF NormalizeTiDBSet
<1>2. ScopeOf(Statement) = "global"
  BY <1>1 DEF Unadaptable
<1>3. Statement.isGlobal /\ Statement.name # "tx_isolation_one_shot"
  BY <1>2 DEF ScopeOf
<1>4. /\ Statement.name \in SetNames
      /\ Statement.form \in SetReadModePatterns => Statement.name = "tx_read_only" /\ ~Statement.isGlobal
      /\ Statement.isGlobal => Statement.name # "names"
  BY SingleParse, NodesAssumption DEF PipeInv, Statement
<1>5. Statement.name \in {"tx_isolation", "tx_read_only"}
  BY <1>1, <1>3, <1>4 DEF SetNames
<1>6. CASE Statement.name = "tx_isolation"
  BY <1>1, <1>3, <1>6 DEF NormalizeTiDBSet
<1>7. CASE Statement.name = "tx_read_only"
  <2>1. SetScope(text) # "unsupported"
    BY <1>1, <1>7 DEF NormalizeTiDBSet
  <2>2. Statement.form \in SetReadModePatterns
    BY <2>1 DEF SetScope, MatchString, SetReadModePatterns, Statement
  <2>. QED
    BY <1>3, <1>4, <2>2
<1>. QED
  BY <1>5, <1>6, <1>7

LEMMA ShowRefused ==
    ASSUME PipeInv, Single, Statement.type = "show", Unadaptable(Statement)
    PROVE  NormalizeShow(Statement) = Error
<1>1. Statement.option = "extended" => Statement.tp = "columns"
  BY SingleParse, NodesAssumption DEF PipeInv, Statement
<1>2. \/ Statement.tp \notin SupportedShows
      \/ Statement.option = "extended" \/ (Statement.tp = "variables" /\ Statement.option = "global")
      \/ Statement.filter.op = "other"
      \/ Statement.filter.op = "=" /\ Statement.filter.column \notin FilterColumns(Statement)
  BY DEF Unadaptable
<1>3. CASE \/ Statement.tp \notin SupportedShows
           \/ Statement.option = "extended" \/ (Statement.tp = "variables" /\ Statement.option = "global")
  BY <1>1, <1>3 DEF NormalizeShow
<1>4. CASE Statement.filter.op = "other"
  BY <1>4 DEF NormalizeShow
<1>5. CASE Statement.filter.op = "=" /\ Statement.filter.column \notin FilterColumns(Statement)
  <2>1. NormalizeShowWhere(Statement) = Error
    BY <1>5 DEF NormalizeShowWhere
  <2>. QED
    BY <1>5, <2>1 DEF NormalizeShow
<1>. QED
  BY <1>2, <1>3, <1>4, <1>5

\* A statement that must be refused ends in an error, whatever the dialects.
THEOREM RefusalIsFinal == Spec => []UnadaptedRejected
<1>1. PipeInv => UnadaptedRejected
  <2> SUFFICES ASSUME PipeInv, pc = "done", Single
               PROVE  /\ text.clean /\ MySQLTransaction(Statement) => outcome = ParserAdaptationError
                      /\ Unadaptable(Statement) => IsError(outcome)
    BY DEF UnadaptedRejected
  <2>1. ASSUME Unadaptable(Statement) PROVE IsError(outcome)
    <3>1. Statement.type \in {"set", "show"}
      BY <2>1 DEF Unadaptable
    <3>2. (IF Statement.type = "show" THEN NormalizeShow(Statement) ELSE NormalizeTiDBSet(text, Statement)) = Error
      BY <2>1, <3>1, SetRefused, ShowRefused
    <3>3. Refused
      BY <3>1, <3>2, SingleEnds
    <3>. QED
      BY <3>3 DEF Refused, IsError, ParserAdaptationError, Error
  <2>. QED
    BY <2>1, TransactionsStop
<1>. QED
  BY <1>1, PipelineInvariant, PTL

-----------------------------------------------------------------------------
\* What any text is parsed to.
LEMMA ParsedForms ==
    ASSUME PipeInv, Parsed # Error
    PROVE  \/ \E i \in DOMAIN Statements(text) : Parsed = ClassifyTiDBStatement(text, Statements(text)[i])
           \/ Parsed = ClassifyLegacyStatement(text)
<1>1. CASE from \in MySQLFamily
  <2> DEFINE F == [k \in DOMAIN Statements(text) |-> ClassifyTiDBStatement(text, Statements(text)[k])]
  <2>1. DOMAIN Statements(text) = 1 .. Len(Statements(text)) /\ Len(Statements(text)) \in Nat
    BY TextsAssumption DEF PipeInv, Statements
  <2>2. F \in Seq({F[k] : k \in DOMAIN Statements(text)}) /\ DOMAIN F = DOMAIN Statements(text)
    BY <2>1
  <2>3. ParseMulti(text, from) = F
    BY <1>1 DEF ParseMulti
  <2>4. \A k \in DOMAIN Statements(text) : F[k] = ClassifyTiDBStatement(text, Statements(text)[k])
    OBVIOUS
  <2> HIDE DEF F
  <2>5. Parsed = F[1] /\ Len(F) = 1
    BY <2>3 DEF Parsed, ParseOne
  <2>6. 1 \in DOMAIN Statements(text)
    BY <2>2, <2>5
  <2>. QED
    BY <2>4, <2>5, <2>6
<1>2. CASE from \notin MySQLFamily
  <2>1. ParseMulti(text, from) = IF text.legacy = "error" THEN << >> ELSE <<ClassifyLegacyStatement(text)>>
    BY <1>2 DEF ParseMulti
  <2>2. Len(ParseMulti(text, from)) = 1 /\ Parsed = ParseMulti(text, from)[1]
    BY DEF Parsed, ParseOne
  <2>3. text.legacy # "error"
    BY <2>1, <2>2
  <2>. QED
    BY <2>1, <2>2, <2>3
<1>. QED
  BY <1>1, <1>2

\* Of what is supported, the normaliser refuses only data statements, and SHOW
\* and SET.
LEMMA SupportedRefused ==
    ASSUME PipeInv, Parsed # Error, Parsed.status = "supported", ParsedStatement(text, Parsed) = Error
    PROVE  Parsed.kind \in {"select", "insert", "update", "show", "set"}
<1>1. CASE Parsed = ClassifyLegacyStatement(text)
  BY <1>1, NeverError DEF ClassifyLegacyStatement
<1>2. ASSUME NEW i \in DOMAIN Statements(text), Parsed = ClassifyTiDBStatement(text, Statements(text)[i])
      PROVE  Parsed.kind \in {"select", "insert", "update", "show", "set"}
  <2> DEFINE n == Statements(text)[i]
  <2>1. CASE n.type \in {"set", "show"}
    BY <1>2, <2>1, Kinds, NeverError
  <2>2. CASE n.type \in DirectTypes
    <3>1. Parsed = Classified(n, n.type, "supported") /\ Parsed.node = n /\ Parsed.kind = n.type
      BY <1>2, <2>2, Kinds, NeverError
    <3>2. Clauses # Error /\ Raw # Error /\ \A type : type # "error" => [op |-> type] # Error
      BY DEF Clauses, Raw, Error
    <3>3. Split(n) # Error \/ n.type = "error"
      BY <3>2 DEF Split
    <3>4. n.type \in {"select", "insert", "update"}
      BY <2>2, <3>1, <3>2, <3>3 DEF ParsedStatement, DirectTypes, DataTypes, SchemaTypes, SessionTypes,
                                    RawTypes, RawDDLTypes
    <3>. QED
      BY <3>1, <3>4
  <2>3. CASE n.type \in {"begin", "commit", "rollback"}
    <3>1. Parsed.node = n
      BY <1>2, <2>3, Kinds, NeverError
    <3>2. NormalizeTiDBRollback(n) # Error /\ Raw # Error
      BY DEF NormalizeTiDBRollback, Raw, Error
    <3> HIDE DEF n
    <3>3. ParsedStatement(text, Parsed) = IF n.type = "rollback" THEN NormalizeTiDBRollback(n) ELSE Raw
      BY <2>3, <3>1 DEF ParsedStatement, RawTypes, RawDDLTypes, SessionTypes
    <3>. QED
      BY <3>2, <3>3
  <2>4. CASE n.type \notin DirectTypes \cup {"set", "show", "begin", "commit", "rollback"}
    BY <1>2, <2>4, Kinds, NeverError
  <2>. QED
    BY <2>1, <2>2, <2>3, <2>4
<1>. QED
  BY <1>1, <1>2, ParsedForms

\* The normaliser makes only what the renderer has a case for.
RenderedOps == RenderedStatements \cup {"show", "set", "set_transaction"}

LEMMA NormalizedOps ==
    ASSUME PipeInv, Normalized \/ ByLegacy
    PROVE  ir.op \in RenderedOps
<1>1. Raw.op \in RenderedOps /\ Clauses.op \in RenderedOps
      /\ \A type \in {"alter_table", "rename_table", "batch", "create_table", "create_index", "drop_index",
                      "rollback_to_savepoint"} \cup SessionTypes : [op |-> type].op \in RenderedOps
  BY DEF Raw, Clauses, RenderedOps, RenderedStatements
<1>2. CASE ByLegacy
  BY <1>1, <1>2 DEF ByLegacy
<1>3. ASSUME Normalized PROVE ir.op \in RenderedOps
  <2>1. Parsed # Error /\ ir = ParsedStatement(text, Parsed) /\ ir # Error
    BY <1>3 DEF Normalized
  <2>2. CASE Parsed = ClassifyLegacyStatement(text)
    <3>1. Parsed.node.type = "legacy"
      BY <2>2, NeverError DEF ClassifyLegacyStatement
    <3>. QED
      BY <1>1, <2>1, <3>1 DEF ParsedStatement
  <2>3. ASSUME NEW i \in DOMAIN Statements(text), Parsed = ClassifyTiDBStatement(text, Statements(text)[i])
        PROVE  ir.op \in RenderedOps
    <3> DEFINE n == Statements(text)[i]
    <3>1. \E kind, status : Parsed = Classified(n, kind, status)
      BY <2>3, Kinds
    <3>2. Parsed.node = n
      BY <3>1, NeverError
    <3>3. CASE n.type = "show"
      <4>1. ir = NormalizeShow(n)
        BY <2>1, <3>1, <3>3, ShowOrSet
      <4>2. ir.op = "show"
        BY <2>1, <4>1, RenderedShow
      <4>. QED
        BY <4>2 DEF RenderedOps
    <3>4. CASE n.type = "set"
      <4>1. ir = NormalizeTiDBSet(text, n)
        BY <2>1, <3>1, <3>4, ShowOrSet
      <4>2. n.name \in SetNames
        BY <2>3, <3>4, NodesAssumption DEF PipeInv
      <4>3. ir.op \in {"set", "set_transaction"}
        BY <2>1, <4>1, <4>2, RenderedSet
      <4>. QED
        BY <4>3 DEF RenderedOps
    <3>5. CASE n.type \notin {"show", "set"}
      <4>1. Split(n).op \in RenderedOps \/ n.type \notin {"alter_table", "rename_table"}
        BY <1>1 DEF Split
      <4>2. NormalizeTiDBRollback(n).op \in RenderedOps
        BY <1>1 DEF NormalizeTiDBRollback
      <4> HIDE DEF n
      <4>. QED
        BY <1>1, <2>1, <3>2, <3>5, <4>1, <4>2 DEF ParsedStatement, RawTypes, RawDDLTypes
    <3>. QED
      BY <3>3, <3>4, <3>5
  <2>. QED
    BY <2>1, <2>2, <2>3, ParsedForms
<1>. QED
  BY <1>2, <1>3

LEMMA RenderFails ==
    ASSUME PipeInv, ir.op \in RenderedOps, RenderStatement(ir, to).op \in {"error", "adaptation_error"}
    PROVE  ir.op \in {"set", "set_transaction", "show"} /\ to \in {"sqlite", "oracle"}
<1>1. to \in {"mysql", "postgres", "sqlite", "oracle"}
  BY DialectsAssumption DEF PipeInv
<1>2. CASE ir.op \in {"set", "set_transaction"}
  BY <1>1, <1>2 DEF RenderStatement, RenderSet
<1>3. CASE ir.op = "show"
  <2>1. RenderStatement(ir, to) = RenderShow(ir, to)
    BY <1>3 DEF RenderStatement
  <2>2. to \notin {"postgres", "mysql"}
    BY <2>1 DEF RenderShow
  <2>. QED
    BY <1>1, <1>3, <2>2
<1>4. CASE ir.op \in RenderedStatements
  <2>1. ir.op \notin {"set", "set_transaction", "show", "error", "adaptation_error"}
    BY <1>4 DEF RenderedStatements, SessionTypes
  <2>2. RenderStatement(ir, to) = ir
    BY <1>4, <2>1 DEF RenderStatement
  <2>. QED
    BY <2>1, <2>2
<1>. QED
  BY <1>2, <1>3, <1>4 DEF RenderedOps

\* The stages' lists agree: what one accepts the next one has a case for.
THEOREM StagesAgree == Spec => []SupportedIsRendered
<1>1. PipeInv => SupportedIsRendered
  <2>1. ASSUME PipeInv, pc = "legacy", parsed # NoStatement, parsed.status = "supported"
        PROVE  parsed.kind \in {"select", "insert", "update"}
    <3>1. /\ parsed = Parsed /\ Parsed # Error /\ ParsedStatement(text, Parsed) = Error
          /\ parsed.kind \notin {"show", "set"}
      BY <2>1 DEF PipeInv, LeftToLegacy
    <3>. QED
      BY <2>1, <3>1, SupportedRefused
  <2>2. ASSUME PipeInv, pc = "done", ir # NoStatement, IsError(outcome)
        PROVE  ir.op \in {"set", "set_transaction", "show"} /\ to \in {"sqlite", "oracle"}
    <3>1. (Normalized \/ ByLegacy) /\ outcome = RenderStatement(ir, to)
      BY <2>2 DEF PipeInv
    <3>. QED
      BY <2>2, <3>1, NormalizedOps, RenderFails DEF IsError
  <2>. QED
    BY <2>1, <2>2 DEF SupportedIsRendered
<1>. QED
  BY <1>1, PipelineInvariant, PTL

\* Types, and that a translation ends with a result.
LEMMA Statuses ==
    ASSUME PipeInv, Parsed # Error
    PROVE  Parsed.status \in {"supported", "recognized_unadapted", "unsupported"}
<1>1. CASE Parsed = ClassifyLegacyStatement(text)
  BY <1>1, NeverError DEF ClassifyLegacyStatement
<1>2. ASSUME NEW i \in DOMAIN Statements(text), Parsed = ClassifyTiDBStatement(text, Statements(text)[i])
      PROVE  Parsed.status \in {"supported", "recognized_unadapted", "unsupported"}
  <2> DEFINE n == Statements(text)[i]
             All == {"supported", "recognized_unadapted", "unsupported"}
  <2>1. /\ ClassifyTiDBSetStatement(text, n) \in All /\ ClassifyTiDBShowStatement(n) \in All
        /\ ClassifyTiDBBeginStatement(text, n) \in All /\ ClassifyTiDBCompletion(text, n) \in All
    BY DEF ClassifyTiDBSetStatement, ClassifyTiDBShowStatement, ClassifyTiDBBeginStatement, ClassifyTiDBCompletion
  <2>2. \E kind, status : status \in All /\ Parsed = Classified(n, kind, status)
    <3> HIDE DEF n
    <3>1. "supported" \in All /\ "unsupported" \in All
      OBVIOUS
    <3> HIDE DEF All
    <3>2. Parsed = ClassifyTiDBStatement(text, n)
      BY <1>2 DEF n
    <3>. QED
      BY <2>1, <3>1, <3>2, Kinds
  <2>. QED
    BY <2>2, NeverError
<1>. QED
  BY <1>1, <1>2, ParsedForms

THEOREM PipelineTypes == Spec => []TypeOK
<1>1. PipeInv => TypeOK
  <2> SUFFICES ASSUME PipeInv PROVE TypeOK
    OBVIOUS
  <2>1. parsed # NoStatement => parsed = Parsed /\ Parsed # Error
    BY DEF PipeInv, LeftToLegacy, Normalized, ByLegacy
  <2>2. parsed # NoStatement => parsed.status \in {"supported", "recognized_unadapted", "unsupported"}
    BY <2>1, Statuses
  <2>3. pc = "parsed" => parsed # NoStatement
    <3>1. ASSUME pc = "parsed" PROVE parsed.status \in {"supported", "recognized_unadapted", "unsupported"}
      BY <3>1, Statuses DEF PipeInv
    <3>2. ASSUME pc = "parsed" PROVE \E n, kind, status : parsed = Classified(n, kind, status)
      <4>1. parsed = Parsed /\ Parsed # Error
        BY <3>2 DEF PipeInv
      <4>2. Parsed = ClassifyLegacyStatement(text) \/ \E n : Parsed = ClassifyTiDBStatement(text, n)
        BY <4>1, ParsedForms
      <4>. QED
        BY <4>1, <4>2, Kinds DEF ClassifyLegacyStatement
    <3>3. \A n, kind, status : Classified(n, kind, status) # NoStatement
      <4> TAKE n, kind, status
      <4>1. "kind" \in DOMAIN Classified(n, kind, status) /\ "kind" \notin DOMAIN NoStatement
        BY DEF Classified, NoStatement
      <4>. QED
        BY <4>1
    <3>. QED
      BY <3>2, <3>3
  <2>4. ASSUME Normalized \/ ByLegacy PROVE ir # NoStatement /\ RenderStatement(ir, to) # NoStatement
    <3>1. ir.op \in RenderedOps
      BY <2>4, NormalizedOps
    <3>2. ir.op # "none"
      BY <3>1 DEF RenderedOps, RenderedStatements, SessionTypes
    <3>3. RenderStatement(ir, to) \in {ir, Error} \/ RenderStatement(ir, to) = RenderShow(ir, to)
      BY DEF RenderStatement, RenderSet
    <3>4. RenderShow(ir, to).op \in {"show", "error"}
      BY DEF RenderShow, Error
    <3>. QED
      BY <3>2, <3>3, <3>4 DEF NoStatement, Error
  <2>5. pc = "done" => outcome # NoStatement
    BY <2>4 DEF PipeInv, Verbatim, ParserAdaptationError, Error, NoStatement
  <2>. QED
    BY <2>2, <2>3, <2>4, <2>5 DEF TypeOK, PipeInv
<1>. QED
  BY <1>1, PipelineInvariant, PTL
=============================================================================
