----------------------------- MODULE SchemaInv -----------------------------
(***************************************************************************)
(* The inductive invariant of Schema: what the PostgreSQL holds for the    *)
(* schema of the MySQL, part by part, before, between and after the        *)
(* commands of a statement.                                                *)
(***************************************************************************)
EXTENDS Schema

IsFunction(f) == f = [x \in DOMAIN f |-> f[x]]

IsTables(S) ==
    /\ IsFunction(S)
    /\ DOMAIN S \subseteq Names /\ \A t \in DOMAIN S : IsTable(S[t])

Db(tables, indexes, functions, triggers) ==
    [tables |-> tables, indexes |-> indexes, functions |-> functions, triggers |-> triggers]

IsIndex(x) == x = Index(x.table, x.columns, x.unique, x.kind) /\ x.kind \in {"primary", "index", "unique"}
IsTrigger(g) == g = [name |-> g.name, table |-> g.table, function |-> g.function]

IsDb(d) ==
    /\ d = Db(d.tables, d.indexes, d.functions, d.triggers)
    /\ IsFiniteSet(DOMAIN d.tables) /\ IsFiniteSet(DOMAIN d.indexes)
    /\ \A i \in DOMAIN d.indexes : IsIndex(d.indexes[i]) /\ d.indexes[i].table \in DOMAIN d.tables
    /\ \A g \in d.triggers : IsTrigger(g) /\ g.table \in DOMAIN d.tables /\ g.function \in DOMAIN d.functions

-----------------------------------------------------------------------------
(* What d holds for the tables S.                                          *)

TablesKept(d, S) ==
    /\ DOMAIN d.tables = DOMAIN S
    /\ \A t \in DOMAIN S :
          d.tables[t] = [c \in DOMAIN S[t].columns |-> RenderCreateTableColumn(S[t].columns[c])]

IsPrimary(d, i) == i \in DOMAIN d.indexes /\ d.indexes[i].kind = "primary"

PrimaryKept(d, S) ==
    /\ \A i \in DOMAIN d.indexes :
          LET x == d.indexes[i] IN x.kind = "primary" => x.columns = S[x.table].primary /\ x.columns # {}
    /\ \A t \in DOMAIN S : S[t].primary # {} => \E i \in DOMAIN d.indexes : IsPrimary(d, i) /\ d.indexes[i].table = t
    /\ \A i, j \in DOMAIN d.indexes :
          IsPrimary(d, i) /\ IsPrimary(d, j) /\ d.indexes[i].table = d.indexes[j].table => i = j

IndexOf(t, key) == Index(t, key.columns, key.unique, IF key.constraint THEN "unique" ELSE "index")

KeysKept(d, S) ==
    /\ \A i \in DOMAIN d.indexes : ~IsPrimary(d, i) => i \in DOMAIN S[d.indexes[i].table].keys
    /\ \A t \in DOMAIN S : \A k \in DOMAIN S[t].keys :
          k \in DOMAIN d.indexes /\ d.indexes[k] = IndexOf(t, S[t].keys[k])

\* But for the pairs of table and column that are pending.
UpdatesKept(d, S, pending) ==
    /\ \A g \in d.triggers :
          LET c == d.functions[g.function]
          IN c \in DOMAIN S[g.table].columns /\ S[g.table].columns[c].onUpdate
    /\ \A t \in DOMAIN S : \A c \in DOMAIN S[t].columns :
          S[t].columns[c].onUpdate /\ <<t, c>> \notin pending =>
              \E g \in d.triggers : g.table = t /\ d.functions[g.function] = c

Represents(d, S, pending) ==
    TablesKept(d, S) /\ PrimaryKept(d, S) /\ KeysKept(d, S) /\ UpdatesKept(d, S, pending)

-----------------------------------------------------------------------------
(* The names. Only the index of a primary key has the word pkey in its     *)
(* name, of a table that was never renamed it is <table>_pkey.             *)

NamesKept(d, renamed) ==
    /\ \A t \in DOMAIN d.tables : Plain(t)
    /\ \A i \in DOMAIN d.indexes : IsPrimary(d, i) <=> ~Plain(i)
    /\ \A i \in DOMAIN d.indexes :
          IsPrimary(d, i) /\ d.indexes[i].table \notin renamed => i = Append(d.indexes[i].table, "pkey")
    /\ \A t \in Names \ renamed :
          Append(t, "pkey") \in DOMAIN d.indexes => d.indexes[Append(t, "pkey")].table = t

\* A function belongs to one pair of table and column that was ON UPDATE.
FunctionsKept(d, updated) ==
    /\ \A f \in DOMAIN d.functions : \E p \in updated : f = ArtifactName(p[1], p[2]) /\ d.functions[f] = p[2]
    /\ \A g \in d.triggers : g.name = Append(g.function, "trg")

Distinct(updated) ==
    /\ \A p \in updated : p \in Names \X Names /\ Lower(p[1]) = p[1] /\ Lower(p[2]) = p[2]
    /\ \A p, q \in updated : ArtifactName(p[1], p[2]) = ArtifactName(q[1], q[2]) => p = q

TypesKept(S) ==
    \A t \in DOMAIN S : \A c \in DOMAIN S[t].columns :
        SourceType(RewriteCreateTableType(S[t].columns[c].type)) = S[t].columns[c].type

-----------------------------------------------------------------------------
(* Within a statement, when so many of its commands are done.              *)

OnUpdateColumns(s) == SetToSeq({c \in DOMAIN s.columns : s.columns[c].onUpdate})

\* The columns whose trigger is still to be made.
Pending(s, done) ==
    {<<s.table, OnUpdateColumns(s)[k]>> : k \in {k \in DOMAIN OnUpdateColumns(s) : done <= 3 * k}}

ArtifactsMade(d, s, done) ==
    \A k \in DOMAIN OnUpdateColumns(s) :
        LET name == ArtifactName(s.table, OnUpdateColumns(s)[k])
        IN /\ done >= 3 * k - 1 => name \in DOMAIN d.functions
           /\ done = 3 * k => \A g \in d.triggers : <<g.name, g.table>> # <<Append(name, "trg"), s.table>>

CreatingTable(d, S, s, done) ==
    \/ done = 0 /\ Represents(d, S, {})
    \/ /\ done > 0 \/ s.ifNotExists
       /\ Represents(d, Execute(S, s), Pending(s, done)) /\ ArtifactsMade(d, s, done)

KeysOf(S) == UNION {DOMAIN S[t].keys : t \in DOMAIN S}

RenamingTables(d, S, s, done) ==
    /\ Represents(d, Renaming(S, s.pairs)[done], {})
    /\ \A i \in DOMAIN d.indexes : Plain(i) => i \in KeysOf(S)

\* What makes s portable, of the tables S and the history h.
Carries(S, h, s) ==
    CASE s.type = "createTable" ->
             /\ \A k \in DOMAIN s.keys : s.keys[k].constraint
             /\ \A c \in DOMAIN s.columns : RewriteCreateTableType(s.columns[c].type) \in PgTypes
             /\ s.table \notin DOMAIN S =>
                    /\ Plain(s.table) /\ s.table \notin KeysOf(S) \cup DOMAIN s.keys
                    /\ \A k \in DOMAIN s.keys : Plain(k) /\ k \notin KeysOf(S) \cup DOMAIN S
             /\ s.table \in DOMAIN S =>
                    \A c \in DOMAIN s.columns :
                        s.columns[c].onUpdate => c \in DOMAIN S[s.table].columns /\ S[s.table].columns[c].onUpdate
      [] s.type = "renameTables" -> \A k \in DOMAIN s.pairs : Plain(s.pairs[k].new) /\ s.pairs[k].new \notin KeysOf(S)
      [] s.type \in {"createIndex", "addUnique"} -> Plain(s.name) /\ s.name \notin KeysOf(S) \cup DOMAIN S
      [] s.type = "dropIndex"   -> ~S[s.table].keys[s.name].constraint
      [] s.type = "dropPrimary" -> s.table \notin h.renamed
      [] s.type = "addColumn"   -> RewriteCreateTableType(s.column.type) \in PgTypes /\ ~s.column.onUpdate
      [] OTHER -> TRUE

\* s, executed on the tables S.
Progress(d, S, s, done) ==
    CASE s.type = "createTable"  -> CreatingTable(d, S, s, done)
      [] s.type = "renameTables" -> RenamingTables(d, S, s, done)
      [] OTHER -> Represents(d, IF done = 0 THEN S ELSE Execute(S, s), {})

TypeInv ==
    /\ TypeOK /\ IsTables(source) /\ IsDb(db)
    /\ pc # "idle" => current \in Statements /\ Accepts(source, current)

Running ==
    /\ Carries(source, history, current) /\ TypesKept(Execute(source, current))
    /\ Updated(current) \subseteq history.updated /\ RenamedBy(current) \subseteq history.renamed
    /\ \E done \in 0..Len(Commands(current)) :
          /\ todo = SubSeq(Commands(current), done + 1, Len(Commands(current)))
          /\ Progress(db, source, current, done)

KeptInv ==
    portable =>
    /\ pc # "failed"
    /\ TypesKept(source) /\ NamesKept(db, history.renamed)
    /\ FunctionsKept(db, history.updated) /\ Distinct(history.updated)
    /\ IF pc = "idle" THEN Represents(db, source, {}) ELSE Running
=============================================================================
