------------------------------ MODULE MCSchema ------------------------------
(* Statements over tables a, a_b and A, which is a in lower case.          *)
EXTENDS Schema

Words == {"a", "b", "c", "A", "id"}
MCLowerCase == [w \in Words |-> IF w = "A" THEN "a" ELSE w]

T1 == <<"a">>  T2 == <<"a", "b">>  T3 == <<"A">>
Id == <<"id">>  C == <<"c">>  BC == <<"b", "c">>

Column(type, auto, onUpdate) == [type |-> type, auto |-> auto, onUpdate |-> onUpdate]
IdColumn == Column("int(11)", FALSE, FALSE)

CreateTable(table, ifNotExists, columns, primary, keys) ==
    [type |-> "createTable", table |-> table, ifNotExists |-> ifNotExists, columns |-> columns, primary |-> primary, keys |-> keys]
Timestamped(column) == [x \in {Id, column} |-> IF x = Id THEN IdColumn ELSE Column("datetime", FALSE, TRUE)]
Uk == <<"uk">>
Ix == <<"ix">>

CreateTables ==
    {CreateTable(t, TRUE, Timestamped(C), {Id}, << >>) : t \in {T1, T2, T3}}
    \cup {CreateTable(T1, TRUE, Timestamped(BC), {Id}, << >>),
          CreateTable(T1, FALSE, [x \in {Id, C} |-> IF x = Id THEN Column("int(11)", TRUE, FALSE) ELSE Column("varchar", FALSE, FALSE)],
                      {Id}, [k \in {Uk} |-> Key(TRUE, {C}, TRUE)]),
          CreateTable(T2, FALSE, [x \in {Id, C, BC} |-> IF x = Id THEN IdColumn ELSE Column("datetime", FALSE, TRUE)], {}, << >>),
          CreateTable(T2, FALSE, [x \in {Id} |-> Column("tinyint(1)", FALSE, FALSE)], {}, << >>),
          CreateTable(T2, FALSE, [x \in {Id} |-> IdColumn], {}, [k \in {Ix} |-> Key(FALSE, {Id}, FALSE)])}

Others ==
    {[type |-> "createIndex", table |-> t, name |-> Ix, columns |-> {Id}, unique |-> FALSE, ifNotExists |-> e] : t \in {T1, T2}, e \in BOOLEAN}
    \cup {[type |-> "addUnique", table |-> T1, name |-> n, columns |-> {Id}] : n \in {Uk, T2, Append(T2, "pkey")}}
    \cup {[type |-> "dropIndex", table |-> t, name |-> n] : t \in {T1, T2}, n \in {Ix, Uk}}
    \cup {[type |-> "dropPrimary", table |-> T1], [type |-> "addPrimary", table |-> T1, columns |-> {Id}]}
    \cup {[type |-> "addColumn", table |-> T1, name |-> BC, column |-> Column("datetime", FALSE, u)] : u \in BOOLEAN}
    \cup {[type |-> "renameTables", pairs |-> <<[old |-> T1, new |-> T2]>>],
          [type |-> "renameTables", pairs |-> <<[old |-> T1, new |-> <<"tmp">>], [old |-> T2, new |-> T1], [old |-> <<"tmp">>, new |-> T2]>>]}

MCStatements == CreateTables \cup Others
=============================================================================
