--------------------------- MODULE ShowStatement ----------------------------
(***************************************************************************)
(* SHOW: from the AST of the parser to IR (internal/normalize/tidb_show.go)*)
(* and from IR to a query of the target (internal/render/render.go).  Kept *)
(* of a statement are its kind, its option and its filter; the columns and *)
(* the catalog tables of the rendered query are left out.                  *)
(*                                                                         *)
(* A literal is [text, kind]: a string, a number or a parameter ("?"), and *)
(* all three are a ValueExpr to the normaliser.  A text is a word, empty   *)
(* perhaps, with or without blanks around it.  A filter is none, LIKE a    *)
(* literal, a column compared with a literal, or anything else.            *)
(***************************************************************************)

Word(w) == [word |-> w, blanks |-> FALSE]
Padded(w) == [word |-> w, blanks |-> TRUE]

\* The empty string, by which the IR says that it has no value.
Absent == Word("")
NoColumn == ""

\* strings.TrimSpace: of a text of blanks nothing is left.
TrimSpace(t) == Word(t.word)

NoFilter == [op |-> "none", column |-> NoColumn, value |-> Absent]
Like(literal) == [op |-> "LIKE", literal |-> literal]
Equals(column, literal) == [op |-> "=", column |-> column, literal |-> literal]
OtherFilter == [op |-> "other"]   \* LIKE CONCAT(...), <, AND, ...

\* ValueExpr.GetString is the text of a string, and empty for all else.
GetString(literal) == IF literal.kind = "string" THEN literal.text ELSE Absent

\* What a WHERE compares with, trimmed; the pattern of a LIKE is not.
Compared(literal) == TrimSpace(GetString(literal))

\* What SHOW INDEX reads: the number where there is no string.
RawValue(literal) == IF literal.kind = "parameter" THEN Absent ELSE TrimSpace(literal.text)

\* Kinds classified as supported; each has a case in the normaliser.
SupportedShows == {"tables", "columns", "index", "table_status", "databases",
                   "create_database", "create_table", "create_view", "variables"}

\* Columns a WHERE may compare.
FilterColumns(stmt) ==
    CASE stmt.tp = "tables" ->
             {"Tables_in"} \cup (IF stmt.option = "full" THEN {"Table_type"} ELSE {})
      [] stmt.tp = "columns" -> {"Field"}
      [] stmt.tp = "index" -> {"Key_name", "Column_name", "Index_type", "Non_unique", "Seq_in_index"}
      [] stmt.tp = "table_status" -> {"Name", "Comment", "Engine"}
      [] stmt.tp = "databases" -> {"Database"}
      [] stmt.tp = "variables" -> {"Variable_name"}
      [] OTHER -> {}

Error == [op |-> "error"]
Show(stmt, pattern, column, value) ==
    [op |-> "show", tp |-> stmt.tp, pattern |-> pattern, column |-> column, value |-> value]

NormalizeShowIndexWhere(stmt) ==
    LET column == stmt.filter.column
        raw == RawValue(stmt.filter.literal)
    IN CASE column = "Non_unique" ->
                IF raw \in {Word("0"), Word("1")} THEN Show(stmt, Absent, column, raw) ELSE Error
         [] column = "Seq_in_index" ->
                IF raw # Absent THEN Show(stmt, Absent, column, raw) ELSE Error
         [] OTHER -> Show(stmt, Absent, column, Compared(stmt.filter.literal))

NormalizeShowWhere(stmt) ==
    IF stmt.filter.column \notin FilterColumns(stmt) THEN Error
    ELSE IF stmt.tp = "index" THEN NormalizeShowIndexWhere(stmt)
    ELSE Show(stmt, Absent, stmt.filter.column, Compared(stmt.filter.literal))

NormalizeShowLikePattern(stmt) ==
    IF stmt.tp = "index" THEN Error ELSE Show(stmt, GetString(stmt.filter.literal), NoColumn, Absent)

NormalizeShow(stmt) ==
    CASE \/ stmt.tp \notin SupportedShows
         \/ stmt.tp = "columns" /\ stmt.option = "extended"
         \/ stmt.tp = "variables" /\ stmt.option = "global" -> Error
      [] OTHER -> CASE stmt.filter.op = "none" -> Show(stmt, Absent, NoColumn, Absent)
                    [] stmt.filter.op = "LIKE" -> NormalizeShowLikePattern(stmt)
                    [] stmt.filter.op = "=" -> NormalizeShowWhere(stmt)
                    [] OTHER -> Error

\* Mutant: the value of a comparison is not rendered for SHOW TABLES.
RenderShowFilterForgetting(ir) ==
    CASE ir.value # Absent /\ ir.tp # "tables" -> [op |-> "=", column |-> ir.column, value |-> ir.value]
      [] ir.value = Absent /\ ir.pattern # Absent -> [op |-> "LIKE", column |-> NoColumn, value |-> ir.pattern]
      [] OTHER -> NoFilter

\* The predicate of the rendered query: an empty field of the IR means absent.
RenderShowFilter(ir) ==
    CASE ir.value # Absent -> [op |-> "=", column |-> ir.column, value |-> ir.value]
      [] ir.value = Absent /\ ir.pattern # Absent -> [op |-> "LIKE", column |-> NoColumn, value |-> ir.pattern]
      [] OTHER -> NoFilter

RenderShow(ir, to) ==
    IF to \in {"postgres", "mysql"}
    THEN [op |-> "show", tp |-> ir.tp, filter |-> RenderShowFilter(ir)]
    ELSE Error

-----------------------------------------------------------------------------
(* What the filter of a statement asks for.                                *)

Asked(stmt) ==
    CASE stmt.filter.op = "LIKE" -> [op |-> "LIKE", column |-> NoColumn, value |-> stmt.filter.literal.text]
      [] stmt.filter.op = "=" ->
             [op |-> "=", column |-> stmt.filter.column, value |-> stmt.filter.literal.text]
      [] OTHER -> stmt.filter

\* A filter with a non-empty string which, compared with, has no blanks at its
\* ends: = ' x ' is rendered as = 'x', and = ' ' as no filter at all.
Telling(stmt) ==
    /\ stmt.filter.op \in {"LIKE", "="} => GetString(stmt.filter.literal) # Absent
    /\ stmt.filter.op = "=" => Compared(stmt.filter.literal) = GetString(stmt.filter.literal)
=============================================================================
