------------------------------- MODULE MCDml -------------------------------
(* Statements of every kind, put together from clauses which hold what the *)
(* scanners and the rewriting react to.                                    *)
EXTENDS Dml

MCTargets == {"mysql", "postgres", "sqlite", "oracle"}

a == <<"a">>
Literal(symbols) == <<"squote">> \o symbols \o <<"squote">>
Where(symbols) == <<"a", "=">> \o symbols

\* Conditions and values: markers in lists and subqueries, quoted names,
\* keywords and commas in strings, functions and character sets.
PlainConditions == {
    Where(<<"?">>),
    Where(<<"f", "(", "?", ",", "?", ")">>),
    <<"a", " IN ", "(", "SELECT ", "b", ",", "?", " FROM ", "u", " WHERE ", "b", "=", "?", ")">>,
    Where(Literal(<<" FROM ", ",", ")", " LIMIT ">>)),
    <<"backtick", "a", "backtick", "=", "NOW()", " AND ", "b", "=", "?">>,
    Where(<<"_utf8">> \o Literal(<<"x">>))}

\* Conditions outside Adapted.
OtherConditions == {
    Where(Literal(<<"?">>) \o <<" AND ", "b", "=", "?">>),
    Where(Literal(<<"user", "_1">>)),
    Where(Literal(<<"NOW()">>)),
    Where(Literal(<<"backslash", "squote", ",">>) \o <<",", "?">>),
    Where(<<"dquote", "x", "dquote">>),
    Where(<<"?", "/*", "squote", "*/">>),
    <<"a", " IN ", "(", "SELECT ", "b", " FROM ", "u", " LIMIT ", "5", ",", "10", ")">>}

Conditions == PlainConditions \cup OtherConditions

Select(dialect, columns, table, where, order, limit, tail, breaks, parses) ==
    [type |-> "select", dialect |-> dialect, columns |-> columns, table |-> table, where |-> where,
     order |-> order, limit |-> limit, tail |-> tail, breaks |-> breaks, parses |-> parses]

ColumnLists == {<<a>>, <<a, <<"?">>>>, <<Literal(<<" FROM ">>), <<"f", "(", "a", ",", "?", ")">>>>}
Tables == {<<"t">>, <<"t", " JOIN ", "u", " ON ", "t.a", "=", "?">>,
           <<"t", " JOIN ", "u", " ON ", "t.a", "=", "?", " LEFT JOIN ", "v", " ON ", "t.b", "=", "?">>}
OtherTables == {
    <<"t", " left join ", "u", " ON ", "t.a", "=", "?">>,
    <<"t", " JOIN ", "u", " ON ", "t.a", "=", "?", " JOIN ", "v", " ON ", "t.b", "=", "?",
      " inner join ", "w", " ON ", "t.b", "=", "w.b">>}
Limits == {Absent, <<"5">>, <<"5", "10">>}

MySQLSelects ==
    {Select("mysql", c, t, w, o, l, Absent, {}, p) :
        c \in ColumnLists, t \in Tables, w \in {Absent} \cup PlainConditions,
        o \in {Absent, <<a, <<"f", "(", "?", ",", "b", ")">>>>}, l \in Limits, p \in BOOLEAN}
    \cup {Select("mysql", <<a>>, t, w, o, l, Absent, {}, p) :
        t \in OtherTables, w \in {Absent, Where(<<"?">>)}, o \in {Absent, <<a>>}, l \in Limits, p \in BOOLEAN}
    \cup {Select("mysql", <<a>>, <<"t">>, w, Absent, l, Absent, {}, p) :
        w \in OtherConditions, l \in Limits, p \in BOOLEAN}
    \cup {Select("mysql", <<a, <<"?">>>>, t, Where(<<"?">>), <<a>>, l, tail, breaks, p) :
        t \in {Absent, <<"t">>}, l \in Limits \cup {<<"?">>}, tail \in {Absent, <<" FOR UPDATE">>},
        breaks \in SUBSET {" FROM ", " WHERE ", " ORDER BY ", " LIMIT "}, p \in BOOLEAN}

\* A string that ends with an escaped quote turns the scanner around: what it finds
\* after ON are ORDER BY and WHERE, in this order, in the strings of the condition.
MisreadSelects ==
    {Select("mysql", <<a>>, <<"t", " JOIN ", "u", " ON ", "t.a", "=">> \o Literal(<<"backslash", "squote">>),
            Where(Literal(<<" ORDER BY ">>)) \o <<" AND ", "b", "=">> \o Literal(<<" WHERE ", "?">>),
            Absent, l, Absent, {}, p) : l \in Limits, p \in BOOLEAN}

PostgresConditions == {Absent, Where(<<"$1">>), Where(<<"$2", " AND ", "b", "=", "$1">>),
                       <<"dquote", "a", "dquote", " ILIKE ", "$1", " AND ", "b", "=", "$2">>,
                       Where(Literal(<<",", " ILIKE ">>)), Where(Literal(<<" WHERE ">>))}
PostgresTables == {<<"t">>, <<"t", " JOIN ", "u", " ON ", "t.a", "=", "u.a", " LEFT JOIN ", "v", " ON ", "t.b", "=", "v.b">>,
                   <<"t", " left join ", "u", " ON ", "t.a", "=", "u.a", " JOIN ", "v", " ON ", "t.b", "=", "v.b">>,
                   <<"t", " JOIN ", "u", " USING ", "(", "a", ")">>}
PostgresSelects ==
    {Select("postgres", <<a, <<"b">>>>, t, w, o, l, Absent, breaks, FALSE) :
        t \in PostgresTables, w \in PostgresConditions, o \in {Absent, <<a>>}, l \in Limits \cup {<<"$3">>},
        breaks \in {{}, {" WHERE "}, {" FROM "}}}

Set(column, value) == [column |-> column, value |-> value]

Insert(dialect, verb, columns, rows, conflict, key) ==
    [type |-> "insert", dialect |-> dialect, verb |-> verb, table |-> <<"t">>, columns |-> columns,
     rows |-> rows, conflict |-> conflict, key |-> key, breaks |-> {}, parses |-> dialect = "mysql"]

Rows1 == {<<<<w, <<"?">>>>>> : w \in {<<"?">>, <<"5">>, Literal(<<")", ",">>), <<"f", "(", "?", ",", "a", ")">>}}
Rows2 == {<<<<<<"?">>, <<"5">>>>, <<<<"?">>, <<"10">>>>>>}
MySQLConflicts == {Absent, <<Set("b", <<"VALUES", "(", "b", ")">>)>>, <<Set("b", <<"b", "+", "5">>)>>}
PostgresConflicts == {Absent, <<Set("b", <<"EXCLUDED.", "b">>)>>, <<Set("b", <<"EXCLUDED.", "b">>), Set("a", <<"a">>)>>}
Inserts ==
    {Insert("mysql", verb, columns, rows, conflict, key) :
        verb \in {"INSERT INTO ", "INSERT IGNORE INTO ", "REPLACE INTO "},
        columns \in {Absent, <<a, <<"backtick", "b", "backtick">>>>},
        rows \in {Absent} \cup Rows1 \cup Rows2, conflict \in MySQLConflicts, key \in {"a", "b"}}
    \cup {Insert("postgres", "INSERT INTO ", <<a, <<"b">>>>, <<<<<<"$1">>, value>>>>, conflict, key) :
        value \in {<<"5">>, <<"$2">>, <<"$1">>}, conflict \in PostgresConflicts, key \in {"a", "b"}}

Update(dialect, verb, table, assignments, where, tail, breaks) ==
    [type |-> "update", dialect |-> dialect, verb |-> verb, table |-> table, assignments |-> assignments,
     where |-> where, tail |-> tail, breaks |-> breaks, parses |-> dialect = "mysql"]
Delete(dialect, verb, table, where, tail, breaks) ==
    [type |-> "delete", dialect |-> dialect, verb |-> verb, table |-> table, where |-> where, tail |-> tail,
     breaks |-> breaks, parses |-> dialect = "mysql"]

Updates ==
    {Update("mysql", "UPDATE ", table, <<Set("a", value), Set("b", <<"?">>)>>, w, tail, breaks) :
        table \in {<<"t">>, <<"backtick", "t", "backtick">>, <<"t", " AS ", "x">>},
        value \in {<<"?">>, Literal(<<"=", ",", " WHERE ">>), <<"(", "SELECT ", "b", " FROM ", "u", " WHERE ", "b", "=", "?", ")">>},
        w \in {Absent} \cup Conditions, tail \in {Absent, <<" ORDER BY ", "a">>}, breaks \in {{}, {" WHERE "}, {" SET "}}}
    \cup {Update("mysql", "UPDATE IGNORE ", <<"t">>, <<Set("a", <<"?">>)>>, Where(<<"?">>), Absent, {})}
    \cup {Update("postgres", "UPDATE ", <<"t">>, <<Set("a", <<"$1">>)>>, w, Absent, {}) : w \in PostgresConditions}

Deletes ==
    {Delete("mysql", verb, table, w, tail, breaks) :
        verb \in {"DELETE FROM ", "DELETE QUICK FROM "}, table \in {<<"t">>, <<"t", " AS ", "x">>},
        w \in {Absent} \cup Conditions, tail \in {Absent, <<" ORDER BY ", "a">>}, breaks \in {{}, {" WHERE "}}}
    \cup {Delete("postgres", "DELETE FROM ", <<"t">>, w, Absent, {}) : w \in PostgresConditions}

Composed ==
    {[type |-> "composed", dialect |-> "mysql", parses |-> TRUE, breaks |-> {}, limit |-> l, tail |-> Absent,
      sql |-> <<"SELECT ", "a", " FROM ", "t", " WHERE ">> \o w \o <<" UNION ", "SELECT ", "?">>] :
        w \in Conditions, l \in Limits}

MCStatements == MySQLSelects \cup MisreadSelects \cup PostgresSelects \cup Inserts \cup Updates \cup Deletes \cup Composed
=============================================================================
