-------------------------------- MODULE Dml --------------------------------
(***************************************************************************)
(* SELECT, INSERT, UPDATE and DELETE from text to text: the slicing of     *)
(* internal/normalize/tidb_dml.go and of the legacy parsers                *)
(* (internal/syntax/mysql, internal/syntax/postgres), and their rendering  *)
(* (internal/render/render.go) clause by clause, with the counter that     *)
(* numbers the markers.                                                    *)
(*                                                                         *)
(* A statement is a record of its clauses; SourceText is the text the      *)
(* program sends. Expressions are sequences of symbols (see Scanner).      *)
(* A keyword symbol includes the single blanks around it, which is how the *)
(* code looks for it; breaks are the keywords which the text has on a line *)
(* of their own instead. What the TiDB parser (external) makes of a text   *)
(* it accepts is the record itself; of it the code uses LIMIT and          *)
(* ON DUPLICATE KEY UPDATE, everything else it cuts from the text.         *)
(***************************************************************************)
EXTENDS Scanner, SequencesExt, TLC

CONSTANTS Statements, Targets

VARIABLES pc, stmt, to,
          ir,          \* the normalised statement
          todo,        \* the pieces still to be rendered
          placeholder, \* state.placeholder
          out          \* the text rendered so far

vars == <<pc, stmt, to, ir, todo, placeholder, out>>

Absent == << >>
Error == [type |-> "error"]
Raw(text) == [type |-> "raw", sql |-> text]

Numbers == {"5", "10"}
JoinKeywords == {" LEFT JOIN ", " INNER JOIN ", " JOIN "}
\* Keywords are found in small letters as well; where that matters they are symbols.
JoinWords == JoinKeywords \cup {" left join ", " inner join ", " join "}
KeywordOf(word) ==
    CASE word \in {" LEFT JOIN ", " left join "}   -> " LEFT JOIN "
      [] word \in {" INNER JOIN ", " inner join "} -> " INNER JOIN "
      [] OTHER -> " JOIN "

Intersperse(parts, symbol) ==
    LET s[i \in 0..Len(parts)] ==
          CASE i = 0 -> << >>
            [] i = 1 -> parts[1]
            [] OTHER -> s[i - 1] \o <<symbol>> \o parts[i]
    IN s[Len(parts)]
Csv(parts) == Intersperse(parts, ",")

From(text, i) == SubSeq(text, i, Len(text))
Before(text, i) == SubSeq(text, 1, i - 1)

-----------------------------------------------------------------------------
(* The text of a statement.                                                *)

OnNewLine(keyword) ==
    CASE keyword = " FROM " -> "newline FROM" [] keyword = " WHERE " -> "newline WHERE"
      [] keyword = " ORDER BY " -> "newline ORDER BY" [] keyword = " LIMIT " -> "newline LIMIT"
      [] keyword = " SET " -> "newline SET" [] OTHER -> keyword

Clause(s, keyword, body) ==
    IF body = Absent THEN << >>
    ELSE <<IF keyword \in s.breaks THEN OnNewLine(keyword) ELSE keyword>> \o body

\* A limit is <<count>> or <<offset, count>>.
LimitBody(dialect, limit) ==
    IF limit = Absent \/ Len(limit) = 1 THEN limit
    ELSE IF dialect = "postgres" THEN <<limit[2], " OFFSET ", limit[1]>>
    ELSE <<limit[1], ",", limit[2]>>

Assigned(assignments) ==
    Csv([i \in DOMAIN assignments |-> <<assignments[i].column, "=">> \o assignments[i].value])

Rows(rows) == Csv([i \in DOMAIN rows |-> <<"(">> \o Csv(rows[i]) \o <<")">>])

ConflictText(s) ==
    CASE s.conflict = Absent -> << >>
      [] s.conflict # Absent /\ s.dialect = "mysql" -> <<" ON DUPLICATE KEY UPDATE ">> \o Assigned(s.conflict)
      [] OTHER -> <<" ON CONFLICT ", "(", s.key, ")", " DO UPDATE SET ">> \o Assigned(s.conflict)

SourceText(s) ==
    CASE s.type = "select" ->
           <<"SELECT ">> \o Csv(s.columns) \o Clause(s, " FROM ", s.table) \o Clause(s, " WHERE ", s.where)
           \o Clause(s, " ORDER BY ", Csv(s.order)) \o Clause(s, " LIMIT ", LimitBody(s.dialect, s.limit)) \o s.tail
      [] s.type = "insert" ->
           <<s.verb>> \o s.table
           \o (IF s.columns = Absent THEN << >> ELSE <<"(">> \o Csv(s.columns) \o <<")">>)
           \o (IF s.rows = Absent THEN <<" SELECT ", "a", " FROM ", "t">> ELSE <<"VALUES">> \o Rows(s.rows))
           \o ConflictText(s)
      [] s.type = "update" ->
           <<s.verb>> \o s.table \o Clause(s, " SET ", Assigned(s.assignments))
           \o Clause(s, " WHERE ", s.where) \o s.tail
      [] s.type = "delete" -> <<s.verb>> \o s.table \o Clause(s, " WHERE ", s.where) \o s.tail
      [] s.type = "composed" -> s.sql \o Clause(s, " LIMIT ", LimitBody(s.dialect, s.limit))

\* What remains of the text when a prefix of the length of the usual verb is cut
\* off, whatever the verb is: INSERT IGNORE INTO leaves E INTO, DELETE QUICK FROM
\* leaves FROM.
Body(s) ==
    (CASE s.type = "insert" /\ s.verb = "INSERT IGNORE INTO " -> <<"E INTO ">>
       [] s.type = "update" /\ s.verb = "UPDATE IGNORE "      -> <<"IGNORE ">>
       [] s.type = "delete" /\ s.verb = "DELETE QUICK FROM "  -> <<"FROM ">>
       [] OTHER -> << >>) \o Tail(SourceText(s))

IsStatement(s) ==
    /\ s.type \in {"select", "insert", "update", "delete", "composed"}
    /\ SourceText(s) \in Seq(STRING) /\ SourceText(s) # << >>

ASSUME StatementsAssumption == \A s \in Statements : IsStatement(s)

-----------------------------------------------------------------------------
(* The slicing which the TiDB path and the legacy parsers share.           *)

EarliestPositive(places) == FirstPlace(places \ {0})

\* Mutant: a clause goes on to the last of the keywords after it.
EndOfClauseAtLast(text, places) ==
    LET found == places \ {0} IN IF found = {} THEN Len(text) + 1 ELSE Max(found)

EndOfClause(text, places) ==
    IF places \ {0} = {} THEN Len(text) + 1 ELSE EarliestPositive(places)

\* The clauses of the text after FROM, given where three of them start.
SelectClauses(columns, afterFrom, whereIdx, orderIdx, limitIdx) ==
    LET \* The clause that starts at idx, up to the next of the places after it.
        Part(idx, places) ==
            IF idx = 0 THEN Absent
            ELSE SubSeq(afterFrom, idx + 1, EndOfClause(afterFrom, {i \in places : i > idx}) - 1)
    IN [type |-> "select",
        columns |-> columns,
        table |-> Before(afterFrom, EndOfClause(afterFrom, {whereIdx, orderIdx, limitIdx})),
        joins |-> << >>,
        where |-> Part(whereIdx, {orderIdx, limitIdx}),
        order |-> IF orderIdx = 0 THEN Absent ELSE SplitTopLevelCSV(Part(orderIdx, {limitIdx})),
        limit |-> Part(limitIdx, {})]

SelectParts(columns, afterFrom) ==
    SelectClauses(columns, afterFrom, FindTopLevelKeyword(afterFrom, " WHERE "),
                  FindTopLevelKeyword(afterFrom, " ORDER BY "), FindTopLevelKeyword(afterFrom, " LIMIT "))

ExtractSelectParts(body) ==
    LET fromIdx == FindTopLevelKeyword(body, " FROM ")
    IN IF fromIdx = 0 THEN Error
       ELSE SelectParts(SplitTopLevelCSV(Before(body, fromIdx)), From(body, fromIdx + 1))

StripIdentifier(text) ==
    SelectSeq(text, LAMBDA symbol : symbol \notin {"dquote", "backtick"})

Assignments(parts) ==
    LET Equals(part) == {i \in DOMAIN part : part[i] = "="}
    IN IF \E k \in DOMAIN parts : Equals(parts[k]) = {} THEN Error
       ELSE [type |-> "assignments",
             list |-> [k \in DOMAIN parts |->
                 LET i == Min(Equals(parts[k]))
                 IN [column |-> StripIdentifier(Before(parts[k], i)), value |-> From(parts[k], i + 1)]]]

ParseAssignments(text) == Assignments(SplitTopLevelCSV(text))

\* The first row of the values, if there are any, and the text after it.
ValuesParts(table, columns, hasValues, valuesBody, openVals, closeVals) ==
    IF hasValues /\ closeVals = 0 THEN Error
    ELSE [type |-> "insert", table |-> table, columns |-> columns, hasValues |-> hasValues,
          values |-> IF hasValues THEN SplitTopLevelCSV(SubSeq(valuesBody, openVals + 1, closeVals - 1)) ELSE << >>,
          rest |-> IF hasValues THEN From(valuesBody, closeVals + 1) ELSE << >>]

\* The columns, the first row and the text after it. Without columns the first
\* parenthesis is that of the values; without any the legacy parsers keep the text.
InsertParts(body, openCols, closeCols) ==
    LET FirstParen(text) == FirstPlace({i \in DOMAIN text : text[i] = "("})
        columns == SplitTopLevelCSV(SubSeq(body, openCols + 1, closeCols - 1))
        afterCols == From(body, closeCols + 1)
        valuesIdx == FindTopLevelKeyword(afterCols, "VALUES")
        valuesBody == From(afterCols, valuesIdx + 1)
    IN CASE openCols = 0 -> [type |-> "columnless"]
         [] openCols # 0 /\ closeCols = 0 -> Error
         [] OTHER ->
            ValuesParts(StripIdentifier(Before(body, openCols)),
                        [k \in DOMAIN columns |-> StripIdentifier(columns[k])],
                        valuesIdx > 0, valuesBody, FirstParen(valuesBody),
                        FindMatchingParen(valuesBody, FirstParen(valuesBody)))

ExtractInsertParts(body) ==
    LET openCols == FirstPlace({i \in DOMAIN body : body[i] = "("})
    IN InsertParts(body, openCols, FindMatchingParen(body, openCols))

UpdateOf(table, assignments, where) ==
    IF assignments = Error THEN Error
    ELSE [type |-> "update", table |-> table, assignments |-> assignments.list, where |-> where]

UpdateParts(table, afterSet, whereIdx) ==
    UpdateOf(table, ParseAssignments(IF whereIdx = 0 THEN afterSet ELSE Before(afterSet, whereIdx)),
             IF whereIdx = 0 THEN Absent ELSE From(afterSet, whereIdx + 1))

ExtractUpdateParts(body) ==
    LET setIdx == FindTopLevelKeyword(body, " SET ")
        afterSet == From(body, setIdx + 1)
    IN IF setIdx = 0 THEN [type |-> "no SET"]
       ELSE UpdateParts(StripIdentifier(Before(body, setIdx)), afterSet, FindTopLevelKeyword(afterSet, " WHERE "))

ExtractDeleteParts(body) ==
    LET whereIdx == FindTopLevelKeyword(body, " WHERE ")
    IN [type |-> "delete",
        table |-> StripIdentifier(IF whereIdx = 0 THEN body ELSE Before(body, whereIdx)),
        where |-> IF whereIdx = 0 THEN Absent ELSE From(body, whereIdx + 1)]

-----------------------------------------------------------------------------
(* tidb_dml.go: clauses from the text, LIMIT and conflict from the AST.    *)

Conflict(targets, assignments) ==
    [targets |-> targets, columns |-> [k \in DOMAIN assignments |-> assignments[k].column]]
NoConflict == Conflict(<< >>, << >>)

FirstOf(columns) == IF columns = << >> THEN << >> ELSE <<columns[1]>>

TiDBSelect(s, parts) ==
    IF parts = Error \/ \E k \in DOMAIN s.limit : s.limit[k] \notin Numbers THEN Error
    ELSE [parts EXCEPT !.limit = s.limit]

NormalizeTiDBSelect(s) == TiDBSelect(s, ExtractSelectParts(Body(s)))

TiDBInsert(s, parts) ==
    LET ast == [k \in DOMAIN s.conflict |-> [column |-> <<s.conflict[k].column>>]]
    IN IF parts.type # "insert" THEN Error
       ELSE [type |-> "insert", table |-> parts.table, columns |-> parts.columns, values |-> parts.values,
             conflict |-> IF s.conflict = Absent THEN NoConflict ELSE Conflict(FirstOf(parts.columns), ast)]

NormalizeTiDBInsert(s) == TiDBInsert(s, ExtractInsertParts(Body(s)))

NormalizeTiDBUpdate(s) ==
    LET parts == ExtractUpdateParts(Body(s)) IN IF parts.type = "update" THEN parts ELSE Error

NormalizeTiDB(s) ==
    CASE s.type = "select"   -> NormalizeTiDBSelect(s)
      [] s.type = "insert"   -> NormalizeTiDBInsert(s)
      [] s.type = "update"   -> NormalizeTiDBUpdate(s)
      [] s.type = "delete"   -> ExtractDeleteParts(Body(s))
      [] s.type = "composed" -> Raw(SourceText(s))

-----------------------------------------------------------------------------
(* internal/syntax/mysql/parser.go and internal/syntax/postgres/parser.go. *)

FindOn(text) == FindTopLevelKeyword(text, " ON ")
FindJoin(text) == EarliestPositive({FindTopLevelKeyword(text, k) : k \in JoinWords})

Join(kind, table, on) == [kind |-> kind, table |-> table, on |-> on]

\* What is left to be read: a text that starts with the keyword of a join, and what
\* the parser takes this keyword for.
Left(text) == [kind |-> KeywordOf(text[1]), text |-> text]
NothingLeft == [kind |-> " JOIN ", text |-> << >>]

\* The keyword is cut off by its length, or, in the PostgreSQL parser, as a prefix in
\* capitals: in small letters it stays before the table.
AfterKeyword(text, dialect) ==
    IF dialect = "postgres" /\ text[1] \notin JoinKeywords THEN text ELSE Tail(text)

\* The next join after a condition. The blank before its keyword is trimmed; the
\* PostgreSQL parser puts it back, the MySQL parser then sees the JOIN in LEFT JOIN
\* and misses a plain JOIN, but not the joins after it.
NextLeft(remainder, dialect) ==
    LET again == FindJoin(Tail(remainder))
    IN CASE dialect = "postgres" -> Left(remainder)
         [] dialect # "postgres" /\ KeywordOf(remainder[1]) # " JOIN " -> [kind |-> " JOIN ", text |-> remainder]
         [] OTHER -> IF again = 0 THEN NothingLeft ELSE Left(From(remainder, again + 1))

\* One join is read. The PostgreSQL parser stops at one without ON.
NextJoin(r, dialect) ==
    LET rest == AfterKeyword(r.text, dialect)
        onIdx == FindOn(rest)
        afterOn == From(rest, onIdx + 1)
        nextIdx == FindJoin(afterOn)
        Add(table, on, left) ==
            [joins |-> Append(r.joins, Join(r.kind, table, on)), kind |-> left.kind, text |-> left.text]
    IN CASE r.text = << >> -> r
         [] r.text # << >> /\ onIdx = 0 ->
                IF dialect = "postgres" THEN [r EXCEPT !.text = << >>] ELSE Add(rest, Absent, NothingLeft)
         [] r.text # << >> /\ onIdx > 0 /\ nextIdx = 0 -> Add(Before(rest, onIdx), afterOn, NothingLeft)
         [] OTHER -> Add(Before(rest, onIdx), Before(afterOn, nextIdx), NextLeft(From(afterOn, nextIdx), dialect))

\* The joins of a text that starts with the keyword of the first.
Joins(text, dialect) ==
    LET r[k \in 0..Len(text)] ==
          IF k = 0 THEN [joins |-> << >>, kind |-> KeywordOf(text[1]), text |-> text]
          ELSE NextJoin(r[k - 1], dialect)
    IN r[Len(text)].joins

WithJoins(parts, dialect) ==
    LET index == FindJoin(parts.table)
    IN IF index = 0 THEN parts
       ELSE [parts EXCEPT !.table = Before(parts.table, index), !.joins = Joins(From(parts.table, index), dialect)]

\* parseMySQLLimit and parsePostgresLimit: <<count>>, <<offset, count>> or Error.
LimitOf(parts) ==
    IF Len(parts) <= 2 /\ \A k \in DOMAIN parts : Len(parts[k]) = 1 /\ parts[k][1] \in Numbers
    THEN [type |-> "limit", limit |-> [k \in DOMAIN parts |-> parts[k][1]]]
    ELSE Error

ParseLimit(text, dialect) ==
    LET offsets == {i \in DOMAIN text : text[i] = " OFFSET "}
    IN CASE dialect = "mysql" -> LimitOf(SplitTopLevelCSV(text))
         [] dialect = "postgres" /\ offsets = {} -> LimitOf(<<text>>)
         [] OTHER -> LimitOf(<<From(text, Min(offsets) + 1), Before(text, Min(offsets))>>)

WithLimit(parts, limit, dialect) ==
    IF limit = Error THEN Error ELSE WithJoins([parts EXCEPT !.limit = limit.limit], dialect)

SelectOf(s, parts) ==
    CASE parts = Error -> Raw(SourceText(s))
      [] parts # Error /\ parts.limit = Absent -> WithJoins(parts, s.dialect)
      [] OTHER -> WithLimit(parts, ParseLimit(parts.limit, s.dialect), s.dialect)

ParseSelect(s) == SelectOf(s, ExtractSelectParts(Body(s)))

\* The assignments of a conflict clause, given the columns it is about.
ConflictOf(targets, assignments) ==
    IF assignments = Error THEN Error
    ELSE [type |-> "conflict", conflict |-> Conflict(targets, assignments.list)]

ParsePostgresConflict(rest, close) ==
    IF close < Len(rest) /\ rest[close + 1] # " DO UPDATE SET " THEN Error
    ELSE ConflictOf(SplitTopLevelCSV(SubSeq(rest, 3, close - 1)), ParseAssignments(From(rest, close + 2)))

\* What follows the values: the conflict clause, or nothing that is looked at.
ParseConflict(rest, columns, dialect) ==
    LET keyword == IF dialect = "mysql" THEN " ON DUPLICATE KEY UPDATE " ELSE " ON CONFLICT "
    IN CASE rest = << >> \/ Head(rest) # keyword -> [type |-> "conflict", conflict |-> NoConflict]
         [] dialect = "mysql" /\ rest # << >> /\ Head(rest) = keyword ->
                ConflictOf(FirstOf(columns), ParseAssignments(From(rest, 2)))
         [] OTHER -> ParsePostgresConflict(rest, FindMatchingParen(rest, 2))

WithConflict(parts, conflict) ==
    IF conflict = Error THEN Error
    ELSE [type |-> "insert", table |-> parts.table, columns |-> parts.columns,
          values |-> parts.values, conflict |-> conflict.conflict]

\* Without columns or VALUES the text is kept; what is not closed is an error.
InsertOf(s, parts) ==
    CASE parts.type = "columnless" -> Raw(SourceText(s))
      [] parts.type = "error" -> Error
      [] OTHER -> IF parts.hasValues THEN WithConflict(parts, ParseConflict(parts.rest, parts.columns, s.dialect))
                  ELSE Raw(SourceText(s))

ParseInsert(s) == InsertOf(s, ExtractInsertParts(Body(s)))

ParseUpdate(s) ==
    LET parts == ExtractUpdateParts(Body(s))
    IN IF parts.type = "no SET" THEN Raw(SourceText(s)) ELSE parts

\* Parse looks at how the text begins; what it does not know it keeps whole.
LegacyParse(s) ==
    CASE s.type = "select" -> ParseSelect(s)
      [] s.type = "insert" /\ s.verb = "INSERT INTO " -> ParseInsert(s)
      [] s.type = "update" -> ParseUpdate(s)
      [] s.type = "delete" /\ s.verb = "DELETE FROM " -> ExtractDeleteParts(Body(s))
      [] OTHER -> Raw(SourceText(s))

-----------------------------------------------------------------------------
(* render.go: rewriteRaw, on a piece of text.                              *)

Quote(dialect) == IF dialect \in {"mysql", "sqlite"} THEN "backtick" ELSE "dquote"

\* The quote marks of identifiers, found in pairs by a pattern that does not know
\* where strings begin; one that is left over stays.
RequoteIdentifiers(text, mark, dialect) ==
    LET marks == Ordered({i \in DOMAIN text : text[i] = mark})
        paired == {marks[k] : k \in 1..(2 * (Len(marks) \div 2))}
    IN [i \in DOMAIN text |-> IF i \in paired THEN Quote(dialect) ELSE text[i]]

Substitute(text, old, new) == [i \in DOMAIN text |-> IF text[i] = old THEN new ELSE text[i]]

\* An underscored word right before a quote: a character set, or the end of a string.
Underscored == {"_utf8", "_1"}
CharsetMarks(text) ==
    {i \in DOMAIN text : text[i] \in Underscored /\ i < Len(text) /\ text[i + 1] = "squote"}

Without(text, places) ==
    LET kept == Ordered(DOMAIN text \ places) IN [k \in DOMAIN kept |-> text[kept[k]]]

\* LIMIT offset, count as the target writes it.
RenderLimit(limit, dialect) ==
    IF limit = Absent THEN << >>
    ELSE CASE dialect \in {"mysql", "sqlite"} -> <<" LIMIT ">> \o LimitBody("mysql", limit)
           [] dialect = "postgres" -> <<" LIMIT ">> \o LimitBody("postgres", limit)
           [] dialect = "oracle" /\ Len(limit) = 1 -> <<" FETCH FIRST ", limit[1], " ROWS ONLY">>
           [] OTHER -> <<" OFFSET ", limit[1], " ROWS FETCH NEXT ", limit[2], " ROWS ONLY">>

RewriteMySQLOffsetLimit(text, dialect) ==
    LET limitIdx == FindTopLevelKeyword(text, " LIMIT ")
        limit == From(text, limitIdx + 1)
    IN IF /\ dialect \in {"postgres", "oracle"} /\ limitIdx > 0
          /\ Len(limit) = 3 /\ limit[1] \in Numbers /\ limit[2] = "," /\ limit[3] \in Numbers
       THEN Before(text, limitIdx) \o RenderLimit(<<limit[1], limit[3]>>, dialect)
       ELSE text

Numbered(dialect) == dialect \in {"postgres", "oracle"}
Marker(dialect, n) == (IF dialect = "postgres" THEN "$" ELSE ":") \o ToString(n)
SourceMarkers == {"$1", "$2", "$3"}

MarkersIn(text, dialect) ==
    IF Numbered(dialect) THEN Cardinality({i \in DOMAIN text : text[i] = "?"}) ELSE 0

ReplaceQuestionPlaceholders(text, dialect, counter) ==
    IF ~Numbered(dialect) THEN text
    ELSE [i \in DOMAIN text |->
             IF text[i] = "?" THEN Marker(dialect, counter + Cardinality({j \in 1..i : text[j] = "?"}))
             ELSE text[i]]

RewriteRaw(text, from, dialect, counter) ==
    IF from = "mysql"
    THEN LET quoted  == RequoteIdentifiers(text, "backtick", dialect)
             plain   == Without(quoted, CharsetMarks(quoted))
             current == Substitute(plain, "NOW()", "CURRENT_TIMESTAMP")
         IN ReplaceQuestionPlaceholders(RewriteMySQLOffsetLimit(current, dialect), dialect, counter)
    ELSE LET quoted == Substitute(RequoteIdentifiers(text, "dquote", dialect), " ILIKE ", " LIKE ")
         IN [i \in DOMAIN quoted |-> IF quoted[i] \in SourceMarkers /\ dialect \in {"mysql", "sqlite"}
                                     THEN "?" ELSE quoted[i]]

-----------------------------------------------------------------------------
(* render.go: the pieces of a statement in the order they are written.     *)

Verbatim(text) == [raw |-> FALSE, text |-> text]
Rewritten(text) == [raw |-> TRUE, text |-> text]

QuoteIdentifierChain(text, dialect) == <<Quote(dialect)>> \o text \o <<Quote(dialect)>>

RewrittenList(parts) ==
    [k \in 1..(2 * Len(parts) - 1) |->
        IF k % 2 = 1 THEN Rewritten(parts[(k + 1) \div 2]) ELSE Verbatim(<<",">>)]

\* Mutant: the pieces of a clause are rendered twice.
OptionalClauseTwice(keyword, pieces, body) ==
    IF body = Absent THEN << >> ELSE <<Verbatim(<<keyword>>)>> \o pieces \o pieces

OptionalClause(keyword, pieces, body) == IF body = Absent THEN << >> ELSE <<Verbatim(<<keyword>>)>> \o pieces

JoinPieces(join) ==
    <<Verbatim(<<join.kind>>), Rewritten(join.table)>> \o OptionalClause(" ON ", <<Rewritten(join.on)>>, join.on)

RenderSelect(s, dialect) ==
    <<Verbatim(<<"SELECT ">>)>> \o RewrittenList(s.columns)
    \o <<Verbatim(<<" FROM ">>), Rewritten(s.table)>>
    \o FlattenSeq([k \in DOMAIN s.joins |-> JoinPieces(s.joins[k])])
    \o OptionalClause(" WHERE ", <<Rewritten(s.where)>>, s.where)
    \o OptionalClause(" ORDER BY ", RewrittenList(s.order), s.order)
    \o <<Verbatim(RenderLimit(s.limit, dialect))>>

RenderConflict(conflict, dialect) ==
    LET Quoted(columns) == [k \in DOMAIN columns |-> QuoteIdentifierChain(columns[k], dialect)]
        columns == Quoted(conflict.columns)
        Assign(Proposed(_)) == Csv([k \in DOMAIN columns |-> columns[k] \o <<"=">> \o Proposed(columns[k])])
    IN CASE conflict = NoConflict \/ dialect = "oracle" -> << >>
         [] conflict # NoConflict /\ dialect = "mysql" ->
                <<" ON DUPLICATE KEY UPDATE ">> \o Assign(LAMBDA c : <<"VALUES", "(">> \o c \o <<")">>)
         [] OTHER -> <<" ON CONFLICT ", "(">> \o Csv(Quoted(conflict.targets)) \o <<")", " DO UPDATE SET ">>
                     \o Assign(LAMBDA c : <<"EXCLUDED.">> \o c)

RenderInsert(s, dialect) ==
    <<Verbatim(<<"INSERT INTO ">> \o QuoteIdentifierChain(s.table, dialect) \o <<"(">>
               \o Csv([k \in DOMAIN s.columns |-> QuoteIdentifierChain(s.columns[k], dialect)])
               \o <<")", "VALUES", "(">>)>>
    \o (IF s.values = << >> THEN << >> ELSE RewrittenList(s.values))
    \o <<Verbatim(<<")">> \o RenderConflict(s.conflict, dialect))>>

RenderUpdate(s, dialect) ==
    LET Assignment(k) == <<Verbatim((IF k = 1 THEN << >> ELSE <<",">>)
                                    \o QuoteIdentifierChain(s.assignments[k].column, dialect) \o <<"=">>),
                           Rewritten(s.assignments[k].value)>>
    IN <<Verbatim(<<"UPDATE ">> \o QuoteIdentifierChain(s.table, dialect) \o <<" SET ">>)>>
       \o FlattenSeq([k \in DOMAIN s.assignments |-> Assignment(k)])
       \o OptionalClause(" WHERE ", <<Rewritten(s.where)>>, s.where)

RenderDelete(s, dialect) ==
    <<Verbatim(<<"DELETE FROM ">> \o QuoteIdentifierChain(s.table, dialect))>>
    \o OptionalClause(" WHERE ", <<Rewritten(s.where)>>, s.where)

RenderStatement(s, dialect) ==
    CASE s.type = "raw"    -> <<Rewritten(s.sql)>>
      [] s.type = "select" -> RenderSelect(s, dialect)
      [] s.type = "insert" -> RenderInsert(s, dialect)
      [] s.type = "update" -> RenderUpdate(s, dialect)
      [] s.type = "delete" -> RenderDelete(s, dialect)

-----------------------------------------------------------------------------
(* translateSQL, from the text to the pieces, and the pieces one by one.   *)

NotYet == [type |-> "none"]

Init ==
    /\ stmt \in Statements
    /\ to \in {d \in Targets : d # stmt.dialect}
    /\ pc = IF stmt.dialect = "mysql" /\ stmt.parses THEN "normalize" ELSE "legacy"
    /\ ir = NotYet /\ todo = << >> /\ placeholder = 0 /\ out = << >>

\* On with the statement, or on to what is done about an error.
BeginOr(statement, otherwise, failure) ==
    IF statement = Error
    THEN pc' = otherwise /\ ir' = failure /\ UNCHANGED todo
    ELSE /\ ir' = statement
         /\ todo' = RenderStatement(statement, to)
         /\ pc' = "render"

\* Clauses that cannot be found send the text to the legacy parser.
Normalize ==
    /\ pc = "normalize"
    /\ BeginOr(NormalizeTiDB(stmt), "legacy", ir)
    /\ UNCHANGED <<stmt, to, placeholder, out>>

ParseLegacy ==
    /\ pc = "legacy"
    /\ BeginOr(LegacyParse(stmt), "failed", Error)
    /\ UNCHANGED <<stmt, to, placeholder, out>>

RenderPiece ==
    /\ pc = "render" /\ todo # << >>
    /\ LET piece == Head(todo)
       IN IF piece.raw
          THEN /\ out' = out \o RewriteRaw(piece.text, stmt.dialect, to, placeholder)
               /\ placeholder' = placeholder
                    + (IF stmt.dialect = "mysql" THEN MarkersIn(piece.text, to) ELSE 0)
          ELSE out' = out \o piece.text /\ UNCHANGED placeholder
    /\ todo' = Tail(todo)
    /\ UNCHANGED <<pc, stmt, to, ir>>

Finish ==
    /\ pc = "render" /\ todo = << >>
    /\ pc' = "done"
    /\ UNCHANGED <<stmt, to, ir, todo, placeholder, out>>

Next == Normalize \/ ParseLegacy \/ RenderPiece \/ Finish

Spec == Init /\ [][Next]_vars

-----------------------------------------------------------------------------
(* What the translation should be: the rewriting of the text by what the   *)
(* lexer sees, without cutting it into clauses.                            *)

\* The symbols outside strings and quoted identifiers.
CodePlaces(text) ==
    LET l == LexStates(text) IN {i \in DOMAIN text : InCode(l[i]) /\ text[i] \notin QuoteMarks}

IdentifierMark(dialect) == IF dialect = "mysql" THEN "backtick" ELSE "dquote"

IntendedText(text, from, dialect) ==
    LET code == CodePlaces(text)
        l == LexStates(text)
        dropped == {i \in DOMAIN text : text[i] = IdentifierMark(from) /\ l[i].quote = text[i]}
                   \cup {i \in code : from = "mysql" /\ i \in CharsetMarks(text)}
        Number(i) == Cardinality({j \in code : j <= i /\ text[j] = "?"})
        New(i) ==
            CASE from = "mysql" /\ text[i] = "?" /\ Numbered(dialect) -> Marker(dialect, Number(i))
              [] from = "mysql" /\ text[i] = "NOW()" -> "CURRENT_TIMESTAMP"
              [] from = "postgres" /\ text[i] = " ILIKE " -> " LIKE "
              [] from = "postgres" /\ text[i] \in SourceMarkers /\ ~Numbered(dialect) -> "?"
              [] OTHER -> text[i]
    IN Without([i \in DOMAIN text |-> IF i \in code THEN New(i) ELSE text[i]], dropped)

IntendedConflict(s, dialect) ==
    LET columns == [k \in DOMAIN s.conflict |-> s.conflict[k].column]
        Assign(Proposed(_)) == Csv([k \in DOMAIN columns |-> <<columns[k], "=">> \o Proposed(columns[k])])
    IN CASE s.conflict = Absent -> << >>
         [] s.conflict # Absent /\ dialect = "mysql" ->
                <<" ON DUPLICATE KEY UPDATE ">> \o Assign(LAMBDA c : <<"VALUES", "(", c, ")">>)
         [] OTHER -> <<" ON CONFLICT ", "(", s.key, ")", " DO UPDATE SET ">>
                     \o Assign(LAMBDA c : <<"EXCLUDED.", c>>)

Limit(s) == IF s.type \in {"select", "composed"} THEN s.limit ELSE Absent

\* The text without the clauses that a dialect writes in its own way.
Common(s) ==
    CASE s.type \in {"select", "composed"} -> [s EXCEPT !.limit = Absent, !.breaks = {}]
      [] s.type = "insert" -> [s EXCEPT !.conflict = Absent]
      [] OTHER -> [s EXCEPT !.breaks = {}]

Intended(s, dialect) ==
    IntendedText(SourceText(Common(s)), s.dialect, dialect)
    \o RenderLimit(Limit(s), dialect)
    \o (IF s.type = "insert" THEN IntendedConflict(s, dialect) ELSE << >>)

\* Identifiers may be quoted or not, a keyword may begin a line and be in small letters.
Canonical(text, dialect) ==
    LET lines == {" FROM ", " WHERE ", " ORDER BY ", " SET "}
        Keyword(c) == CASE c \in JoinWords -> KeywordOf(c)
                        [] \E k \in lines : OnNewLine(k) = c -> CHOOSE k \in lines : OnNewLine(k) = c
                        [] OTHER -> c
        plain == SelectSeq(text, LAMBDA c : c # Quote(dialect))
    IN [i \in DOMAIN plain |-> Keyword(plain[i])]

-----------------------------------------------------------------------------
(* The statements which the translation keeps. Each part names what is lost *)
(* without it.                                                              *)

Holds(text, symbols) == \E i \in DOMAIN text : text[i] \in symbols

\* The scanners know neither escapes nor comments, and a string in double quotes
\* becomes an identifier.
PlainText(s) ==
    ~Holds(SourceText(s), {"backslash"} \cup CommentMarks
                          \cup (IF s.dialect = "mysql" THEN {"dquote"} ELSE {}))

\* Strings are rewritten like code.
InertStrings(s) ==
    LET text == SourceText(s)
        l == LexStates(text)
    IN \A i \in DOMAIN text : text[i] \in {"?", "NOW()", " ILIKE ", "backtick", "dquote"} \cup SourceMarkers \cup Underscored
            => i \in CodePlaces(text) \/ l[i].quote = text[i]

\* The clauses of a text whose FROM is missing, or which is composed of several,
\* are not cut; of such a text only LIMIT offset, count is rewritten.
Whole(s) == s.type = "composed" \/ (s.type = "select" /\ (s.table = Absent \/ " FROM " \in s.breaks))

\* LIMIT is looked for between two blanks, must be of numbers, not of markers, and
\* what follows it is dropped; only the LIMIT of the whole statement is rewritten.
PlainLimit(s, dialect) ==
    s.type \in {"select", "composed"} =>
    /\ " LIMIT " \notin s.breaks
    /\ s.limit # Absent =>
          /\ \A k \in DOMAIN s.limit : s.limit[k] \in Numbers
          /\ s.type = "select" => s.tail = << >>
          /\ Whole(s) => s.dialect = "mysql" /\ (Len(s.limit) = 2 \/ dialect # "oracle")
    /\ ~Holds(SourceText(Common(s)), {" LIMIT "})

\* One row of values for named columns, the first of which is the key; an update
\* on conflict takes the proposed values, and Oracle has none.
PlainInsert(s, dialect) ==
    s.type = "insert" =>
    /\ s.verb = "INSERT INTO "
    /\ s.columns # Absent /\ Len(s.rows) = 1
    /\ s.conflict # Absent =>
          /\ dialect # "oracle"
          /\ s.dialect = "mysql" => <<s.key>> = s.columns[1]
          /\ \A k \in DOMAIN s.conflict :
                s.conflict[k].value = IF s.dialect = "mysql" THEN <<"VALUES", "(", s.conflict[k].column, ")">>
                                      ELSE <<"EXCLUDED.", s.conflict[k].column>>

\* The words of a verb are counted, not read, and a table is one name; without a
\* WHERE between two blanks all that follows DELETE FROM is taken for it.
PlainTable(s) ==
    s.type \in {"update", "delete"} =>
    /\ s.verb \in {"UPDATE ", "DELETE FROM "}
    /\ ~Holds(s.table, {" AS "})
    /\ s.type = "delete" => " WHERE " \notin s.breaks /\ (s.where = Absent => s.tail = << >>)

\* The legacy parsers: one join for MySQL, joins in capitals with ON for PostgreSQL.
PlainJoins(s) ==
    s.type = "select" /\ (s.dialect = "postgres" \/ ~s.parses) =>
    LET Count(symbols) == Cardinality({i \in DOMAIN s.table : s.table[i] \in symbols})
    IN IF s.dialect = "mysql" THEN Count(JoinWords) <= 1
       ELSE Count(JoinWords) = Count(JoinKeywords) /\ Count(JoinKeywords) = Count({" ON "})

\* The numbers of PostgreSQL's markers are forgotten, and kept for Oracle.
PlainMarkers(s, dialect) ==
    LET markers == SelectSeq(SourceText(s), LAMBDA c : c \in SourceMarkers)
    IN /\ markers # << >> => dialect # "oracle"
       /\ \A k \in DOMAIN markers : markers[k] = "$" \o ToString(k)

Adapted(s, dialect) ==
    /\ PlainText(s) /\ InertStrings(s) /\ PlainLimit(s, dialect) /\ PlainInsert(s, dialect)
    /\ PlainTable(s) /\ PlainJoins(s) /\ PlainMarkers(s, dialect)

-----------------------------------------------------------------------------
(* Properties.                                                             *)

\* The end of ORDER BY is looked for at LIMIT alone (tidb_dml.go:180-186): a WHERE
\* that the scanner finds after it belongs to two clauses. No clause order of SQL
\* is like that, but strings which the scanner takes for code may be.
ClausesInOrder(s) ==
    LET afterFrom == From(Body(s), FindTopLevelKeyword(Body(s), " FROM ") + 1)
        orderIdx == FindTopLevelKeyword(afterFrom, " ORDER BY ")
    IN s.type = "select" /\ orderIdx > 0 => FindTopLevelKeyword(afterFrom, " WHERE ") < orderIdx

\* The markers, each of which takes an argument of the caller.
Markers(text) == {i \in CodePlaces(text) : text[i] = "?"}
OnlyMarkers(text) == {i \in DOMAIN text : text[i] = "?"} \subseteq Markers(text)

\* What is rendered is a statement, and a statement that has not been normalised
\* leaves nothing to the legacy parser. Over all clauses (render.go:28-47 and :1240)
\* the counter numbers no question mark of the text twice, those in strings
\* included; if there are none in strings, no number is beyond the arguments of the
\* caller.
TypeOK ==
    /\ pc \in {"normalize", "legacy", "render", "done", "failed"}
    /\ to \in Targets
    /\ ir.type \in {"none", "error", "raw", "select", "insert", "update", "delete"}
    /\ pc \in {"normalize", "legacy"} => ir = NotYet /\ todo = << >> /\ out = << >> /\ placeholder = 0
    /\ pc \in {"render", "done"} <=> ir.type \notin {"none", "error"}
    /\ placeholder \in Nat
    /\ ClausesInOrder(stmt) =>
          /\ placeholder <= MarkersIn(SourceText(stmt), to)
          /\ OnlyMarkers(SourceText(stmt)) => placeholder <= Cardinality(Markers(SourceText(stmt)))

\* A statement that is cut into clauses and put together again
\* (tidb_dml.go:157-290, the legacy parsers, render.go:88-160) is the statement it
\* was, rewritten in its code and nowhere else: every clause in its place, the
\* markers numbered in the order of the arguments over all clauses
\* (render.go:1240), LIMIT and ON DUPLICATE KEY UPDATE in the words of the target.
\* It is not refused either. For the statements of Adapted.
StatementKept ==
    /\ pc = "failed" => ~Adapted(stmt, to)
    /\ pc = "done" /\ Adapted(stmt, to) => Canonical(out, to) = Canonical(Intended(stmt, to), to)

\* docs/reports/parser-adaptation-matrix.md:7 and :16: INSERT is "supported:
\* parsed and adapted through normalize/render or explicitly passed through
\* safely". Of several rows extractInsertParts (tidb_dml.go:224) takes the first:
\* the values of the others are not in the translation.
EveryRowKept ==
    pc = "done" /\ stmt.type = "insert" /\ PlainText(stmt) /\ stmt.columns # Absent =>
        \A r \in DOMAIN stmt.rows : \A k \in DOMAIN stmt.rows[r] :
            stmt.rows[r][k][1] \in Numbers => Holds(out, {stmt.rows[r][k][1]})
=============================================================================
