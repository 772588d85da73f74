------------------------------ MODULE Pipeline ------------------------------
(***************************************************************************)
(* The translation of one statement: translateSQL of translator.go with    *)
(* the parser facade (internal/parser), the dispatch of the normaliser     *)
(* (internal/normalize/parsed_statement.go, tidb_set.go, tidb_txn.go) and  *)
(* of the renderer (internal/render/render.go).                            *)
(*                                                                         *)
(* A text is what the parsers make of it:                                  *)
(*   parses     the TiDB parser (external) accepts it,                     *)
(*   nodes      its statements, if so,                                     *)
(*   extension  else the statement it becomes when the MariaDB extension   *)
(*              forms are rewritten, if any,                               *)
(*   clean      no comment stands between its keywords, so that a regular  *)
(*              expression over the whole text recognises its form,        *)
(*   legacy     what the legacy parser makes of it: clauses, raw or error. *)
(***************************************************************************)
EXTENDS Naturals, Sequences, ShowStatement

CONSTANTS Texts, InputDialects, TargetDialects

ASSUME TextsAssumption ==
    \A t \in Texts : /\ t.parses \in BOOLEAN /\ t.clean \in BOOLEAN
                     /\ t.legacy \in {"clauses", "raw", "error"}
                     /\ Len(t.nodes) \in Nat /\ DOMAIN t.nodes = 1 .. Len(t.nodes)
                     /\ Len(t.extension) \in {0, 1} /\ DOMAIN t.extension = 1 .. Len(t.extension)

ASSUME DialectsAssumption == TargetDialects \subseteq {"mysql", "postgres", "sqlite", "oracle"}

VARIABLES pc, text, from, to, \* the statement and the options of the translator
          parsed,             \* ParsedStatement, or NoStatement
          ir,                 \* normalised statement, or NoStatement
          outcome             \* the rendered statement or the error

vars == <<pc, text, from, to, parsed, ir, outcome>>

NoStatement == [op |-> "none"]
ParserAdaptationError == [op |-> "adaptation_error"]
Verbatim == [op |-> "verbatim"]
Raw == [op |-> "raw"]
Clauses == [op |-> "clauses"]     \* SELECT, INSERT, UPDATE or DELETE by its clauses

IsError(result) == result.op \in {"error", "adaptation_error"}

-----------------------------------------------------------------------------
(* classify.go: kind and status of a node.                                 *)

Classified(node, kind, status) == [kind |-> kind, status |-> status, node |-> node]

\* The statements of a text, as they are or by the extension forms.
Statements(t) == IF t.parses THEN t.nodes ELSE t.extension

\* The patterns of classify.go and tidb_set.go cover a text from end to end.
MatchString(t, form) == t.clean /\ Len(Statements(t)) = 1 /\ Statements(t)[1].form = form

SetReadModePatterns ==
    {"SET SESSION TRANSACTION READ", "SET TRANSACTION READ", "SET tx_read_only ="}

SetNames == {"names", "tx_isolation_one_shot", "tx_isolation", "tx_read_only", "other"}

\* What the form of a SET says of the variable it sets, and what belongs to
\* which kind of SHOW.
ASSUME NodesAssumption ==
    \A t \in Texts : \A i \in DOMAIN Statements(t) :
        LET node == Statements(t)[i]
        IN /\ node.type = "set" =>
                /\ node.name \in SetNames
                /\ node.form \in SetReadModePatterns => node.name = "tx_read_only" /\ ~node.isGlobal
                /\ node.isGlobal => node.name # "names"
           /\ node.type = "show" =>
                /\ node.option = "extended" => node.tp = "columns"
                /\ node.filter.op \in {"none", "LIKE", "=", "other"}
                /\ node.filter.op = "none" => node.filter = NoFilter

ClassifyTiDBSetStatement(t, node) ==
    IF \/ node.variables # 1
       \/ node.name = "other"
       \/ node.name = "tx_isolation" /\ node.isGlobal
       \/ node.name = "tx_read_only" /\ ~\E p \in SetReadModePatterns : MatchString(t, p)
    THEN "recognized_unadapted" ELSE "supported"

ClassifyTiDBBeginStatement(t, node) ==
    IF MatchString(t, "START TRANSACTION WITH CONSISTENT SNAPSHOT") \/ node.mode # ""
    THEN "recognized_unadapted" ELSE "supported"

ClassifyTiDBCompletion(t, node) ==
    IF \/ MatchString(t, "COMMIT AND NO CHAIN") \/ MatchString(t, "ROLLBACK AND NO CHAIN")
       \/ node.completion # "default"
    THEN "recognized_unadapted" ELSE "supported"

ClassifyTiDBShowStatement(node) ==
    IF node.tp \notin SupportedShows \/ (node.tp = "variables" /\ node.option = "global")
    THEN "recognized_unadapted" ELSE "supported"

DataTypes   == {"select", "insert", "update", "delete"}
SchemaTypes == {"create_table", "alter_table", "rename_table", "create_index", "drop_index",
                "create_database", "drop_database", "create_view", "drop_view", "drop_table", "truncate"}
SessionTypes == {"savepoint", "release_savepoint", "use"}

\* Supported whatever they contain.
DirectTypes == DataTypes \cup SchemaTypes \cup SessionTypes
               \cup {"with", "set_op", "explain", "mariadb_drop_foreign_key"}

ClassifyTiDBStatement(t, node) ==
    CASE node.type = "set" -> Classified(node, "set", ClassifyTiDBSetStatement(t, node))
      [] node.type = "show" -> Classified(node, "show", ClassifyTiDBShowStatement(node))
      [] node.type = "begin" -> Classified(node, "begin", ClassifyTiDBBeginStatement(t, node))
      [] node.type \in {"commit", "rollback"} ->
             Classified(node, node.type, ClassifyTiDBCompletion(t, node))
      [] node.type \in DirectTypes -> Classified(node, node.type, "supported")
      [] OTHER -> Classified(node, "other", "unsupported")

ClassifyLegacyStatement(t) ==
    LET node == [type |-> "legacy", form |-> t.legacy]
    IN IF t.legacy = "clauses" THEN Classified(node, "select", "supported")
       ELSE Classified(node, "other", "unsupported")

-----------------------------------------------------------------------------
(* parser.go: the dialect is looked up in lower case.                      *)

MySQLFamily == {"mysql", "MySQL", "sqlite", "oracle"}

ParseMulti(t, dialect) ==
    IF dialect \in MySQLFamily
    THEN [i \in DOMAIN Statements(t) |-> ClassifyTiDBStatement(t, Statements(t)[i])]
    ELSE IF t.legacy = "error" THEN << >> ELSE <<ClassifyLegacyStatement(t)>>

\* No single statement, whatever the reason, is an error to the caller.
ParseOne(t, dialect) ==
    LET statements == ParseMulti(t, dialect)
    IN IF Len(statements) = 1 THEN statements[1] ELSE Error

-----------------------------------------------------------------------------
(* tidb_set.go and the dispatch of parsed_statement.go.                    *)

\* Mutant.
SetScopeOneShot(t) ==
    IF MatchString(t, "SET tx_read_only =") THEN "session"
    ELSE IF MatchString(t, "SET SESSION TRANSACTION READ") \/ MatchString(t, "SET TRANSACTION READ") THEN "transaction"
    ELSE "unsupported"

SetScope(t) ==
    IF MatchString(t, "SET tx_read_only =") \/ MatchString(t, "SET SESSION TRANSACTION READ") THEN "session"
    ELSE IF MatchString(t, "SET TRANSACTION READ") THEN "transaction"
    ELSE "unsupported"

NormalizeTiDBSet(t, node) ==
    IF node.variables # 1 \/ node.extended \/ node.name = "other" \/ ~node.accepted THEN Error
    ELSE CASE node.name = "names" -> [op |-> "set"]
           [] node.name = "tx_isolation_one_shot" -> [op |-> "set_transaction", scope |-> "transaction"]
           [] node.name = "tx_isolation" ->
                  IF node.isGlobal THEN Error ELSE [op |-> "set_transaction", scope |-> "session"]
           [] node.name = "tx_read_only" ->
                  IF SetScope(t) = "unsupported" THEN Error
                  ELSE [op |-> "set_transaction", scope |-> SetScope(t)]

NormalizeTiDBRollback(node) == IF node.savepoint THEN [op |-> "rollback_to_savepoint"] ELSE Raw

RawDDLTypes == {"create_database", "drop_database", "create_view", "drop_view", "drop_table", "truncate"}

\* Statements normalised to their own text.
RawTypes == {"with", "set_op", "explain"} \cup RawDDLTypes \cup {"begin", "commit"}

\* ALTER TABLE and RENAME TABLE: a batch of its parts, or raw text.
Split(node) == CASE node.parts = 0 -> Raw
                 [] node.parts = 1 -> [op |-> node.type]
                 [] OTHER -> [op |-> "batch"]

ParsedStatement(t, statement) ==
    LET node == statement.node
    IN CASE node.type = "legacy" -> IF node.form = "clauses" THEN Clauses ELSE Raw
         [] node.type \in {"select", "insert", "update"} -> IF node.extractable THEN Clauses ELSE Error
         [] node.type = "delete" -> Clauses
         [] node.type \in RawTypes -> Raw
         [] node.type = "set" -> NormalizeTiDBSet(t, node)
         [] node.type = "show" -> NormalizeShow(node)
         [] node.type = "rollback" -> NormalizeTiDBRollback(node)
         [] node.type \in {"alter_table", "rename_table"} -> Split(node)
         [] node.type = "mariadb_drop_foreign_key" -> [op |-> "alter_table"]
         [] node.type \in {"create_table", "create_index", "drop_index"} \cup SessionTypes -> [op |-> node.type]
         [] OTHER -> Error

-----------------------------------------------------------------------------
(* render.go: SET and SHOW exist for two targets only.                     *)

RenderSet(statement, target) ==
    IF target \in {"postgres", "mysql"} THEN statement ELSE Error

\* Mutant: ROLLBACK TO SAVEPOINT is normalised, but has no case in the renderer.
RenderedStatementsButRollback ==
    {"raw", "clauses", "batch", "create_table", "alter_table", "rename_table", "create_index", "drop_index"}
    \cup SessionTypes

\* Statements rendered for every target.
RenderedStatements ==
    {"raw", "clauses", "batch", "create_table", "alter_table", "rename_table", "create_index", "drop_index",
     "rollback_to_savepoint"} \cup SessionTypes

RenderStatement(statement, target) ==
    CASE statement.op \in {"set", "set_transaction"} -> RenderSet(statement, target)
      [] statement.op = "show" -> RenderShow(statement, target)
      [] statement.op \in RenderedStatements -> statement
      [] OTHER -> Error

-----------------------------------------------------------------------------
Init ==
    /\ pc = "translate"
    /\ text \in Texts /\ from \in InputDialects /\ to \in TargetDialects
    /\ parsed = NoStatement /\ ir = NoStatement /\ outcome = NoStatement

Finish(result) == pc' = "done" /\ outcome' = result

\* Mutant.
SameDialectSilently ==
    /\ pc = "translate" /\ from = to
    /\ pc' = "done"
    /\ UNCHANGED <<text, from, to, parsed, ir, outcome>>

SameDialect ==
    /\ pc = "translate" /\ from = to
    /\ Finish(Verbatim)
    /\ UNCHANGED <<text, from, to, parsed, ir>>

Parse ==
    /\ pc = "translate" /\ from # to
    /\ LET statement == ParseOne(text, from)
       IN IF statement = Error THEN pc' = "legacy" /\ UNCHANGED parsed
          ELSE pc' = "parsed" /\ parsed' = statement
    /\ UNCHANGED <<text, from, to, ir, outcome>>

\* Mutant: COMMIT and ROLLBACK are not blocked.
ShouldBlockWithoutCompletion ==
    /\ parsed.status = "recognized_unadapted"
    /\ parsed.kind \in {"with", "set_op", "set", "show", "begin"}

ShouldBlockRecognizedUnadapted ==
    /\ parsed.status = "recognized_unadapted"
    /\ parsed.kind \in {"with", "set_op", "set", "show", "begin", "commit", "rollback"}

Block ==
    /\ pc = "parsed" /\ ShouldBlockRecognizedUnadapted
    /\ Finish(ParserAdaptationError)
    /\ UNCHANGED <<text, from, to, parsed, ir>>

\* Mutant: A normalisation error of SHOW or SET falls back like any other.
NormalizeFallingBack ==
    /\ pc = "parsed" /\ ~ShouldBlockRecognizedUnadapted
    /\ LET statement == ParsedStatement(text, parsed)
       IN IF statement # Error THEN pc' = "render" /\ ir' = statement
          ELSE pc' = "legacy" /\ UNCHANGED ir
    /\ UNCHANGED <<text, from, to, parsed, outcome>>

Normalize ==
    /\ pc = "parsed" /\ ~ShouldBlockRecognizedUnadapted
    /\ LET statement == ParsedStatement(text, parsed)
       IN CASE statement # Error -> pc' = "render" /\ ir' = statement /\ UNCHANGED outcome
            [] statement = Error /\ parsed.kind \in {"show", "set"} /\ parsed.status = "supported" ->
                   Finish(Error) /\ UNCHANGED ir
            [] OTHER -> pc' = "legacy" /\ UNCHANGED <<ir, outcome>>
    /\ UNCHANGED <<text, from, to, parsed>>

\* The legacy parsers look the dialect up as it is written.
ParseLegacy ==
    /\ pc = "legacy"
    /\ IF from \notin {"mysql", "postgres", "sqlite", "oracle"} \/ text.legacy = "error"
       THEN Finish(Error) /\ UNCHANGED ir
       ELSE /\ pc' = "render" /\ UNCHANGED outcome
            /\ ir' = IF text.legacy = "clauses" THEN Clauses ELSE Raw
    /\ UNCHANGED <<text, from, to, parsed>>

Render ==
    /\ pc = "render"
    /\ Finish(RenderStatement(ir, to))
    /\ UNCHANGED <<text, from, to, parsed, ir>>

Next == SameDialect \/ Parse \/ Block \/ Normalize \/ ParseLegacy \/ Render

Spec == Init /\ [][Next]_vars

-----------------------------------------------------------------------------
\* Types; translateSQL ends with a rendered statement or an error.
TypeOK ==
    /\ pc \in {"translate", "parsed", "legacy", "render", "done"}
    /\ from \in InputDialects /\ to \in TargetDialects
    /\ parsed # NoStatement =>
           parsed.status \in {"supported", "recognized_unadapted", "unsupported"}
    /\ pc = "parsed" => parsed # NoStatement
    /\ pc = "render" => ir # NoStatement
    /\ pc = "done" <=> outcome # NoStatement

\* The text is one statement of the MySQL family, translated to another dialect.
Single == from \in MySQLFamily /\ from # to /\ Len(Statements(text)) = 1
Statement == Statements(text)[1]

\* Scope of a SET TRANSACTION or of an assignment to its variables.
ScopeOf(node) ==
    IF node.name = "tx_isolation_one_shot" \/ node.form = "SET TRANSACTION READ"
    THEN "transaction" ELSE IF node.isGlobal THEN "global" ELSE "session"

\* Transaction control that only MySQL or TiDB has.
MySQLTransaction(node) ==
    CASE node.type = "begin" ->
             node.mode # "" \/ node.form = "START TRANSACTION WITH CONSISTENT SNAPSHOT"
      [] node.type \in {"commit", "rollback"} ->
             \/ node.completion # "default"
             \/ node.form \in {"COMMIT AND NO CHAIN", "ROLLBACK AND NO CHAIN"}
      [] OTHER -> FALSE

\* SET and SHOW outside the subsets that the normaliser covers.
Unadaptable(node) ==
    CASE node.type = "set" ->
             \/ node.variables # 1 \/ node.name = "other" \/ node.extended \/ ~node.accepted
             \/ ScopeOf(node) = "global"
      [] node.type = "show" ->
             \/ node.tp \notin SupportedShows
             \/ node.option = "extended" \/ (node.tp = "variables" /\ node.option = "global")
             \/ node.filter.op = "other"
             \/ node.filter.op = "=" /\ node.filter.column \notin FilterColumns(node)
      [] OTHER -> FALSE

\* A statement that the classifier or the normaliser must refuse ends in an
\* error: neither the fallback to the legacy parser nor the renderer lets it out.
UnadaptedRejected ==
    pc = "done" /\ Single =>
        /\ text.clean /\ MySQLTransaction(Statement) => outcome = ParserAdaptationError
        /\ Unadaptable(Statement) => IsError(outcome)

\* A SHOW or SET that is the only statement of its text and that the parser
\* accepts is rendered from its meaning or refused, never passed on as text, with
\* comments in it or not.  (A text of several statements is not split: the legacy
\* parser may pass all of it on as it is.)
ShowAndSetNeverRaw ==
    pc = "done" /\ Single /\ Statement.type \in {"show", "set"} => outcome.op # "raw"

\* A rendered SHOW selects what the statement asked for, where its filter is LIKE
\* a non-empty string or a comparison with one that has no blanks at its ends.
FilterKept ==
    pc = "done" /\ Single /\ outcome.op = "show" =>
        /\ outcome.tp = Statement.tp
        /\ Telling(Statement) => outcome.filter = Asked(Statement)

\* A rendered SET TRANSACTION sets the scope that the statement named: the text
\* patterns of the classifier and those of the normaliser agree.
ScopeKept ==
    pc = "done" /\ Single /\ outcome.op = "set_transaction" => outcome.scope = ScopeOf(Statement)

\* The lists of the stages agree: what is classified as supported the normaliser
\* knows (only a SELECT, INSERT or UPDATE whose clauses it cannot find reaches the
\* legacy parser), and what it produces the renderer knows, which refuses SET and
\* SHOW for the targets that lack them, and nothing else.
SupportedIsRendered ==
    /\ pc = "legacy" /\ parsed # NoStatement /\ parsed.status = "supported" =>
           parsed.kind \in {"select", "insert", "update"}
    /\ pc = "done" /\ ir # NoStatement /\ IsError(outcome) =>
           ir.op \in {"set", "set_transaction", "show"} /\ to \in {"sqlite", "oracle"}

-----------------------------------------------------------------------------
(* What docs/reports/parser-adaptation-matrix.md says.                     *)

\* Line 31: unsupported SHOW variants are "explicitly rejected".  A filter on a
\* number or a parameter is outside the subsets it lists, or else is rendered.
FilterKeptOrRejected ==
    (/\ pc = "done" /\ Single /\ outcome.op = "show"
     /\ Statement.filter.op \in {"LIKE", "="} /\ Statement.filter.literal.kind # "string")
    => outcome.filter = Asked(Statement)
=============================================================================
