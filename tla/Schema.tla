------------------------------- MODULE Schema -------------------------------
(***************************************************************************)
(* A schema kept in two databases: a sequence of DDL statements in MySQL's *)
(* dialect, executed by a MySQL (source, the reference) and, translated    *)
(* (internal/normalize/tidb_ddl.go, internal/render/render.go) and with    *)
(* the artifacts which the bootstrap planner adds (bootstrap.go), by a     *)
(* PostgreSQL (db), command by command. The two databases are external:    *)
(* of them the model has what tells the two apart, MySQL's keys that       *)
(* belong to a table and ON UPDATE columns, PostgreSQL's indexes that      *)
(* belong to the schema, constraints, functions and triggers.              *)
(*                                                                         *)
(* A name is a sequence of words joined by underscores. The program runs   *)
(* the translation of a statement and the artifacts one after the other,   *)
(* and begins again with the statement when the connection is lost after   *)
(* a CREATE TABLE IF NOT EXISTS: the planner calls its artifacts           *)
(* idempotent. The reference takes the statement when the program is done  *)
(* with it.                                                                *)
(***************************************************************************)
EXTENDS Integers, Sequences, FiniteSets, SequencesExt, Functions

CONSTANTS Statements,
          LowerCase,      \* of every word
          MaxStatements,  \* bound of the statements
          MaxLosses       \* bound of lost connections

ASSUME BoundsAssumption == MaxStatements \in Nat /\ MaxLosses \in Nat

VARIABLES source,    \* the schema of the MySQL
          db,        \* the PostgreSQL
          pc,        \* "idle", "running" or "failed"
          current, todo,  \* the statement and the commands still to be run for it
          portable,  \* every statement so far is one the translation can carry over
          history,   \* [updated: pairs that were declared ON UPDATE, renamed: tables that were renamed]
          count, losses

vars == <<source, db, pc, current, todo, portable, history, count, losses>>

Names == Seq(STRING)
Lower(name) == [k \in DOMAIN name |-> LowerCase[name[k]]]

-----------------------------------------------------------------------------
(* MySQL (external): a table has columns, primary key columns and keys.    *)

Key(unique, columns, constraint) == [unique |-> unique, columns |-> columns, constraint |-> constraint]
Table(columns, primary, keys) == [columns |-> columns, primary |-> primary, keys |-> keys]

Columns == [type : STRING, auto : BOOLEAN, onUpdate : BOOLEAN]
Keys == [unique : BOOLEAN, columns : SUBSET Names, constraint : BOOLEAN]

Pairs == [old : Names, new : Names]

\* A finite set of named things.
IsNaming(f, things) == f \in [DOMAIN f -> things] /\ DOMAIN f \subseteq Names /\ IsFiniteSet(DOMAIN f)
IsTable(t) == /\ t = Table(t.columns, t.primary, t.keys)
              /\ IsNaming(t.columns, Columns) /\ IsNaming(t.keys, Keys)

IsStatement(s) ==
    \/ /\ s.type = "createTable" /\ s.table \in Names /\ s.ifNotExists \in BOOLEAN
       /\ IsTable(Table(s.columns, s.primary, s.keys))
    \/ s.type = "renameTables" /\ s.pairs \in Seq(Pairs)
    \/ /\ s.type \in {"createIndex", "addUnique"}
       /\ s.table \in Names /\ s.name \in Names /\ s.columns \in SUBSET Names
       /\ s.type = "createIndex" => s.unique \in BOOLEAN /\ s.ifNotExists \in BOOLEAN
    \/ s.type = "dropIndex" /\ s.table \in Names /\ s.name \in Names
    \/ s.type \in {"dropPrimary", "addPrimary"} /\ s.table \in Names
    \/ s.type = "addColumn" /\ s.table \in Names /\ s.name \in Names /\ s.column \in Columns

ASSUME StatementsAssumption == \A s \in Statements : IsStatement(s)

Without(f, x) == Restrict(f, DOMAIN f \ {x})
With(f, x, value) == [y \in DOMAIN f \cup {x} |-> IF y = x THEN value ELSE f[y]]
Moved(f, old, new) == IF old \in DOMAIN f THEN With(Without(f, old), new, f[old]) ELSE f

\* The tables after the first k pairs.
Renaming(tables, pairs) ==
    LET after[k \in 0..Len(pairs)] ==
          IF k = 0 THEN tables ELSE Moved(after[k - 1], pairs[k].old, pairs[k].new)
    IN after
Renamed(tables, pairs) == Renaming(tables, pairs)[Len(pairs)]

\* The pairs are renamed one after the other, each must be possible then.
CanRename(tables, pairs) ==
    \A k \in DOMAIN pairs :
        LET before == Renaming(tables, pairs)[k - 1]
        IN pairs[k].old \in DOMAIN before /\ pairs[k].new \notin DOMAIN before

Accepts(tables, s) ==
    LET t == tables[s.table]
        exists == s.type # "renameTables" /\ s.table \in DOMAIN tables
    IN CASE s.type = "createTable"  -> exists => s.ifNotExists
         [] s.type = "renameTables" -> CanRename(tables, s.pairs)
         [] s.type \in {"createIndex", "addUnique"} ->
                exists /\ s.columns \subseteq DOMAIN t.columns /\ s.name \notin DOMAIN t.keys
         [] s.type = "dropIndex"   -> exists /\ s.name \in DOMAIN t.keys
         [] s.type = "dropPrimary" -> exists /\ t.primary # {} /\ \A c \in t.primary : ~t.columns[c].auto
         [] s.type = "addPrimary"  -> exists /\ t.primary = {} /\ s.columns \subseteq DOMAIN t.columns
         [] s.type = "addColumn"   -> exists /\ s.name \notin DOMAIN t.columns

\* Keys are constraints here when the statement makes them one in PostgreSQL.
Execute(tables, s) ==
    LET t == tables[s.table]
        WithKeys(keys) == With(tables, s.table, Table(t.columns, t.primary, keys))
        WithPrimaryKey(columns) == With(tables, s.table, Table(t.columns, columns, t.keys))
    IN CASE s.type = "createTable"  -> IF s.table \in DOMAIN tables THEN tables
                                       ELSE With(tables, s.table, Table(s.columns, s.primary, s.keys))
         [] s.type = "renameTables" -> Renamed(tables, s.pairs)
         [] s.type = "createIndex"  -> WithKeys(With(t.keys, s.name, Key(s.unique, s.columns, FALSE)))
         [] s.type = "addUnique"    -> WithKeys(With(t.keys, s.name, Key(TRUE, s.columns, TRUE)))
         [] s.type = "dropIndex"    -> WithKeys(Without(t.keys, s.name))
         [] s.type = "dropPrimary"  -> WithPrimaryKey({})
         [] s.type = "addPrimary"   -> WithPrimaryKey(s.columns)
         [] s.type = "addColumn"    ->
                With(tables, s.table, Table(With(t.columns, s.name, s.column), t.primary, t.keys))

-----------------------------------------------------------------------------
(* PostgreSQL (external): db has tables with columns, the indexes of all   *)
(* tables under one namespace with them, functions and triggers. A table   *)
(* that is renamed keeps its indexes and triggers under their names.       *)

PgTypes == {"int", "timestamp", "varchar"}

Relations(d) == DOMAIN d.tables \cup DOMAIN d.indexes

\* The name which PostgreSQL gives the index of a primary key. When it is taken,
\* it is followed by a number (here strokes) with which it is not.
Numbered(name, n) == name \o [k \in 1..n |-> "1"]

PrimaryName(d, table) ==
    LET name == Append(table, "pkey")
        free == {n \in 1..Cardinality(Relations(d)) : Numbered(name, n) \notin Relations(d)}
    IN IF name \notin Relations(d) THEN name ELSE Numbered(name, CHOOSE n \in free : TRUE)

Index(table, columns, unique, kind) == [table |-> table, columns |-> columns, unique |-> unique, kind |-> kind]

WithPrimary(d, table, columns) ==
    IF columns = {} THEN d
    ELSE [d EXCEPT !.indexes = With(@, PrimaryName(d, table), Index(table, columns, TRUE, "primary"))]

Possible(d, c) ==
    CASE c.op = "createTable" ->
             /\ \A k \in DOMAIN c.keys : c.keys[k].constraint
             /\ \/ c.ifNotExists /\ c.table \in DOMAIN d.tables
                \/ /\ c.table \notin Relations(d)
                   /\ \A x \in DOMAIN c.columns : c.columns[x].type \in PgTypes
                   /\ \A k \in DOMAIN c.keys : k \notin Relations(d) \cup {c.table}
      [] c.op = "renameTable" -> c.old \in DOMAIN d.tables /\ c.new \notin Relations(d)
      [] c.op = "createIndex" -> /\ c.table \in DOMAIN d.tables
                                 /\ c.columns \subseteq DOMAIN d.tables[c.table]
                                 /\ c.ifNotExists \/ c.name \notin Relations(d)
      [] c.op = "addUnique" -> /\ c.table \in DOMAIN d.tables
                               /\ c.columns \subseteq DOMAIN d.tables[c.table]
                               /\ c.name \notin Relations(d)
      [] c.op = "dropIndex" -> c.name \in DOMAIN d.indexes /\ d.indexes[c.name].kind = "index"
      [] c.op = "dropConstraint" -> /\ c.name \in DOMAIN d.indexes
                                    /\ d.indexes[c.name].table = c.table /\ d.indexes[c.name].kind # "index"
      [] c.op = "addPrimary" -> /\ c.table \in DOMAIN d.tables
                                /\ c.columns \subseteq DOMAIN d.tables[c.table]
                                /\ \A i \in DOMAIN d.indexes :
                                      d.indexes[i].table = c.table => d.indexes[i].kind # "primary"
      [] c.op = "addColumn" -> /\ c.table \in DOMAIN d.tables /\ c.name \notin DOMAIN d.tables[c.table]
                               /\ c.column.type \in PgTypes
      [] c.op = "dropTrigger" -> c.table \in DOMAIN d.tables
      [] c.op = "createTrigger" -> /\ c.table \in DOMAIN d.tables /\ c.function \in DOMAIN d.functions
                                   /\ \A g \in d.triggers : <<g.name, g.table>> # <<c.name, c.table>>
      [] OTHER -> TRUE

Apply(d, c) ==
    CASE c.op = "createTable" ->
             IF c.table \in DOMAIN d.tables THEN d
             ELSE LET t == WithPrimary([d EXCEPT !.tables = With(@, c.table, c.columns)], c.table, c.primary)
                  IN [t EXCEPT !.indexes = [i \in DOMAIN c.keys \cup DOMAIN @ |->
                         IF i \in DOMAIN c.keys THEN Index(c.table, c.keys[i].columns, c.keys[i].unique, "unique")
                         ELSE @[i]]]
      [] c.op = "renameTable" ->
             LET Moving(x) == IF x.table = c.old THEN [x EXCEPT !.table = c.new] ELSE x
             IN [tables    |-> Moved(d.tables, c.old, c.new),
                 indexes   |-> [i \in DOMAIN d.indexes |-> Moving(d.indexes[i])],
                 triggers  |-> {Moving(g) : g \in d.triggers},
                 functions |-> d.functions]
      [] c.op = "createIndex" ->
             IF c.name \in DOMAIN d.indexes THEN d
             ELSE [d EXCEPT !.indexes = With(@, c.name, Index(c.table, c.columns, c.unique, "index"))]
      [] c.op = "addUnique" -> [d EXCEPT !.indexes = With(@, c.name, Index(c.table, c.columns, TRUE, "unique"))]
      [] c.op \in {"dropIndex", "dropConstraint"} -> [d EXCEPT !.indexes = Without(@, c.name)]
      [] c.op = "addPrimary" -> WithPrimary(d, c.table, c.columns)
      [] c.op = "addColumn" -> [d EXCEPT !.tables[c.table] = With(@, c.name, c.column)]
      [] c.op = "createFunction" -> [d EXCEPT !.functions = With(@, c.name, c.column)]
      [] c.op = "dropTrigger" -> [d EXCEPT !.triggers = {g \in @ : <<g.name, g.table>> # <<c.name, c.table>>}]
      [] c.op = "createTrigger" ->
             [d EXCEPT !.triggers = @ \cup {[name |-> c.name, table |-> c.table, function |-> c.function]}]

-----------------------------------------------------------------------------
(* tidb_ddl.go and render.go for the target postgres.                      *)

RewriteCreateTableType(type) ==
    CASE type = "int(11)"  -> "int"
      [] type = "datetime" -> "timestamp"
      [] OTHER             -> type

\* normalizeTiDBColumnDef leaves ON UPDATE out.
RenderCreateTableColumn(column) ==
    [column EXCEPT !.type = RewriteCreateTableType(@), !.onUpdate = FALSE]

RenderCreateTable(s) ==
    [op |-> "createTable", table |-> s.table, ifNotExists |-> s.ifNotExists, primary |-> s.primary, keys |-> s.keys,
     columns |-> [c \in DOMAIN s.columns |-> RenderCreateTableColumn(s.columns[c])]]

RenderCreateIndex(s) ==
    [op |-> "createIndex", table |-> s.table, name |-> s.name, columns |-> s.columns, unique |-> s.unique,
     ifNotExists |-> s.ifNotExists]

\* The table of the statement is not rendered.
RenderDropIndex(s) == [op |-> "dropIndex", name |-> s.name]

NormalizeTiDBRenameTable(s) ==
    [k \in DOMAIN s.pairs |-> [op |-> "renameTable", old |-> s.pairs[k].old, new |-> s.pairs[k].new]]

RenderAlterTableAddUnique(s) == [op |-> "addUnique", table |-> s.table, name |-> s.name, columns |-> s.columns]
RenderAlterTableAddPrimary(s) == [op |-> "addPrimary", table |-> s.table, columns |-> s.columns]
RenderAlterTableDropPrimaryKey(s) == [op |-> "dropConstraint", table |-> s.table, name |-> Append(s.table, "pkey")]
RenderAlterTableAddColumn(s) ==
    [op |-> "addColumn", table |-> s.table, name |-> s.name, column |-> RenderCreateTableColumn(s.column)]

Translation(s) ==
    CASE s.type = "createTable"  -> <<RenderCreateTable(s)>>
      [] s.type = "createIndex"  -> <<RenderCreateIndex(s)>>
      [] s.type = "dropIndex"    -> <<RenderDropIndex(s)>>
      [] s.type = "renameTables" -> NormalizeTiDBRenameTable(s)
      [] s.type = "addUnique"    -> <<RenderAlterTableAddUnique(s)>>
      [] s.type = "addPrimary"   -> <<RenderAlterTableAddPrimary(s)>>
      [] s.type = "dropPrimary"  -> <<RenderAlterTableDropPrimaryKey(s)>>
      [] s.type = "addColumn"    -> <<RenderAlterTableAddColumn(s)>>

-----------------------------------------------------------------------------
(* bootstrap.go                                                            *)

ArtifactName(table, column) == Lower(table) \o Lower(column) \o <<"on", "update">>

\* Names are lowered and not quoted. The trigger's text has two commands.
ArtifactsOf(table, column) ==
    LET name == ArtifactName(table, column)
    IN << [op |-> "createFunction", name |-> name, column |-> Lower(column)],
          [op |-> "dropTrigger", name |-> Append(name, "trg"), table |-> Lower(table)],
          [op |-> "createTrigger", name |-> Append(name, "trg"), table |-> Lower(table), function |-> name] >>

\* Mutant: a trigger is created without removing the one of its name.
BuildOnUpdateArtifactsWithoutDrop(table, columns) ==
    FlattenSeq([k \in DOMAIN columns |->
        SelectSeq(ArtifactsOf(table, columns[k]), LAMBDA c : c.op # "dropTrigger")])

BuildOnUpdateArtifacts(table, columns) == FlattenSeq([k \in DOMAIN columns |-> ArtifactsOf(table, columns[k])])

\* planMySQLToPostgresFromAST; a statement that is not CREATE TABLE has none.
Plan(s) ==
    IF s.type # "createTable" THEN << >>
    ELSE BuildOnUpdateArtifacts(s.table,
             SetToSeq({c \in DOMAIN s.columns : s.columns[c].onUpdate}))

Commands(s) == Translation(s) \o Plan(s)

-----------------------------------------------------------------------------
(* The schema of MySQL that db stands for.                                 *)

SourceType(type) == CASE type = "int" -> "int(11)" [] type = "timestamp" -> "datetime" [] OTHER -> type

Maintained(table, column) ==
    \E g \in db.triggers : g.table = table /\ db.functions[g.function] = column

View ==
    [t \in DOMAIN db.tables |->
        LET columns == db.tables[t]
            Of(kinds) == {i \in DOMAIN db.indexes : db.indexes[i].table = t /\ db.indexes[i].kind \in kinds}
        IN Table([c \in DOMAIN columns |->
                     [columns[c] EXCEPT !.type = SourceType(@), !.onUpdate = Maintained(t, c)]],
                 UNION {db.indexes[i].columns : i \in Of({"primary"})},
                 [i \in Of({"index", "unique"}) |->
                     Key(db.indexes[i].unique, db.indexes[i].columns, db.indexes[i].kind = "unique")])]

\* Triggers of a table for a column which it does not have.
Broken == {g \in db.triggers : db.functions[g.function] \notin DOMAIN db.tables[g.table]}

-----------------------------------------------------------------------------
(* What the translation carries over. Each part names a difference that it *)
(* leaves to the program.                                                  *)

KeyNames == UNION {DOMAIN source[t].keys : t \in DOMAIN source}

NewTables(s) ==
    CASE s.type = "createTable"  -> {s.table} \ DOMAIN source
      [] s.type = "renameTables" -> {s.pairs[k].new : k \in DOMAIN s.pairs}
      [] OTHER                   -> {}

NewKeys(s) ==
    CASE s.type = "createTable"                 -> IF s.table \in DOMAIN source THEN {} ELSE DOMAIN s.keys
      [] s.type \in {"createIndex", "addUnique"} -> {s.name}
      [] OTHER                                  -> {}

\* In PostgreSQL the keys of all tables and the tables have their names in one
\* schema, in which it names the indexes of primary keys.
Plain(name) == \A k \in DOMAIN name : name[k] # "pkey"

PortableNames(s) ==
    /\ \A t \in NewTables(s) : Plain(t) /\ t \notin KeyNames \cup NewKeys(s)
    /\ \A k \in NewKeys(s) : Plain(k) /\ k \notin KeyNames \cup DOMAIN source

\* DROP INDEX is for what is not a constraint, and a key within CREATE TABLE must
\* be one.
PortableKeys(s) ==
    CASE s.type = "createTable" -> \A k \in DOMAIN s.keys : s.keys[k].constraint
      [] s.type = "dropIndex"   -> ~source[s.table].keys[s.name].constraint
      [] OTHER -> TRUE

\* The primary key of a table that was renamed has another name.
PortablePrimary(s) == s.type = "dropPrimary" => s.table \notin history.renamed

\* Types which PostgreSQL has or which are rewritten, but not two of them to one.
PortableTypes(s) ==
    LET columns == CASE s.type = "createTable" -> {s.columns[c] : c \in DOMAIN s.columns}
                     [] s.type = "addColumn"   -> {s.column}
                     [] OTHER                  -> {}
    IN \A c \in columns : /\ RewriteCreateTableType(c.type) \in PgTypes
                           /\ SourceType(RewriteCreateTableType(c.type)) = c.type

Updated(s) ==
    IF s.type # "createTable" THEN {}
    ELSE {<<s.table, c>> : c \in {x \in DOMAIN s.columns : s.columns[x].onUpdate}}

\* Artifacts have lowered names, of which the underscores do not tell table and
\* column apart, and only CREATE TABLE has any; IF NOT EXISTS must not be what
\* keeps a table without the columns that are maintained.
PortableUpdates(s) ==
    /\ \A p \in Updated(s) : Lower(p[1]) = p[1] /\ Lower(p[2]) = p[2]
    /\ \A p \in Updated(s), q \in history.updated \cup Updated(s) :
          ArtifactName(p[1], p[2]) = ArtifactName(q[1], q[2]) => p = q
    /\ s.type = "createTable" /\ s.table \in DOMAIN source =>
          \A p \in Updated(s) : p[2] \in DOMAIN source[s.table].columns /\ source[s.table].columns[p[2]].onUpdate
    /\ s.type = "addColumn" => ~s.column.onUpdate

Portable(s) ==
    PortableNames(s) /\ PortableKeys(s) /\ PortablePrimary(s) /\ PortableTypes(s) /\ PortableUpdates(s)

-----------------------------------------------------------------------------
(* Actions.                                                                *)

Nothing == [x \in {} |-> x]
EmptyDb == [tables |-> Nothing, indexes |-> Nothing, functions |-> Nothing, triggers |-> {}]
NoStatement == [type |-> "none"]

Init ==
    /\ source = Nothing /\ db = EmptyDb
    /\ pc = "idle" /\ current = NoStatement /\ todo = << >>
    /\ portable = TRUE /\ history = [updated |-> {}, renamed |-> {}]
    /\ count = 0 /\ losses = 0

RenamedBy(s) ==
    IF s.type # "renameTables" THEN {}
    ELSE UNION {{s.pairs[k].old, s.pairs[k].new} : k \in DOMAIN s.pairs}

Submit(s) ==
    /\ pc = "idle" /\ count < MaxStatements
    /\ Accepts(source, s)
    /\ current' = s /\ todo' = Commands(s) /\ pc' = "running"
    /\ portable' = (portable /\ Portable(s))
    /\ history' = [updated |-> history.updated \cup Updated(s), renamed |-> history.renamed \cup RenamedBy(s)]
    /\ count' = count + 1
    /\ UNCHANGED <<source, db, losses>>

\* Mutant: a command that the database refuses is taken for done.
RunCommandRegardless ==
    /\ pc = "running" /\ todo # << >>
    /\ db' = Apply(db, Head(todo)) /\ todo' = Tail(todo)
    /\ UNCHANGED <<source, pc, current, portable, history, count, losses>>

RunCommand ==
    /\ pc = "running" /\ todo # << >>
    /\ Possible(db, Head(todo))
    /\ db' = Apply(db, Head(todo)) /\ todo' = Tail(todo)
    /\ UNCHANGED <<source, pc, current, portable, history, count, losses>>

Refuse ==
    /\ pc = "running" /\ todo # << >>
    /\ ~Possible(db, Head(todo))
    /\ pc' = "failed"
    /\ UNCHANGED <<source, db, current, todo, portable, history, count, losses>>

\* The connection is lost before a command, the program runs the statement again.
LoseConnection ==
    /\ pc = "running" /\ losses < MaxLosses
    /\ current.type = "createTable" /\ current.ifNotExists
    /\ losses' = losses + 1
    /\ todo' = Commands(current)
    /\ UNCHANGED <<source, db, pc, current, portable, history, count>>

Complete ==
    /\ pc = "running" /\ todo = << >>
    /\ source' = Execute(source, current)
    /\ pc' = "idle" /\ current' = NoStatement
    /\ UNCHANGED <<db, todo, portable, history, count, losses>>

Next ==
    \/ \E s \in Statements : Submit(s)
    \/ RunCommand \/ Refuse \/ Complete
    \/ LoseConnection

Spec == Init /\ [][Next]_vars

-----------------------------------------------------------------------------
(* Properties.                                                             *)

\* Indexes and triggers are of tables that exist, triggers call functions that do,
\* and what is still to be run is the end of the statement's commands.
TypeOK ==
    /\ pc \in {"idle", "running", "failed"} /\ portable \in BOOLEAN
    /\ count \in 0..MaxStatements /\ losses \in 0..MaxLosses
    /\ \A i \in DOMAIN db.indexes : db.indexes[i].table \in DOMAIN db.tables
    /\ \A g \in db.triggers : g.table \in DOMAIN db.tables /\ g.function \in DOMAIN db.functions
    /\ IF pc = "idle" THEN current = NoStatement /\ todo = << >>
       ELSE LET commands == Commands(current)
            IN \E done \in 0..Len(commands) : todo = SubSeq(commands, done + 1, Len(commands))

\* After any sequence of portable statements, whatever was renamed, dropped or run
\* again after a lost connection, the PostgreSQL has the schema which the MySQL
\* has: the same columns, keys on the same tables, and a trigger for exactly the
\* columns that are ON UPDATE CURRENT_TIMESTAMP (bootstrap.go:155, render.go:881-991,
\* tidb_ddl.go:196-277 and 430-455). No command of a portable statement is refused.
SchemaKept ==
    portable => /\ pc # "failed"
                /\ pc = "idle" => View = source /\ Broken = {}
=============================================================================
