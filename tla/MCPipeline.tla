----------------------------- MODULE MCPipeline -----------------------------
(* Small instances of Pipeline: one text per form that the code tells apart. *)
EXTENDS Pipeline

Literal(t, kind) == [text |-> t, kind |-> kind]
Literals == {Literal(t, "string") : t \in {Word("x"), Padded("x"), Word(""), Padded(""), Word("1"), Padded("1")}}
            \cup {Literal(Word("1"), "number"), Literal(Word("?"), "parameter")}
ShowColumnNames == {"Tables_in", "Table_type", "Field", "Key_name", "Non_unique", "Seq_in_index",
                    "Name", "Comment", "Database", "Variable_name"}
Filters == {NoFilter, OtherFilter} \cup {Like(l) : l \in Literals}
           \cup {Equals(c, l) : c \in ShowColumnNames, l \in Literals}

\* Options exist for some kinds only.
ShowOptions(tp) == CASE tp = "tables" -> {"none", "full"}
                     [] tp = "columns" -> {"none", "full", "extended"}
                     [] tp = "variables" -> {"none", "global"}
                     [] OTHER -> {"none"}

ShowNodes ==
    UNION {{[type |-> "show", tp |-> tp, option |-> o, filter |-> f, form |-> ""] :
                o \in ShowOptions(tp), f \in Filters} :
           tp \in {"tables", "columns", "index", "table_status", "databases", "variables", "engines"}}
    \cup {[type |-> "show", tp |-> tp, option |-> "none", filter |-> NoFilter, form |-> ""] :
           tp \in {"create_database", "create_table", "create_view"}}

SetNode(name, isGlobal, form) ==
    [type |-> "set", variables |-> 1, name |-> name, isGlobal |-> isGlobal, extended |-> FALSE,
     accepted |-> TRUE, form |-> form]

SetNodes ==
    LET plain == {SetNode("names", FALSE, ""), SetNode("tx_isolation_one_shot", FALSE, ""),
                  SetNode("tx_isolation", FALSE, ""), SetNode("tx_isolation", TRUE, ""),
                  SetNode("tx_read_only", FALSE, "SET SESSION TRANSACTION READ"),
                  SetNode("tx_read_only", FALSE, "SET TRANSACTION READ"),
                  SetNode("tx_read_only", FALSE, "SET tx_read_only ="),
                  SetNode("tx_read_only", TRUE, "SET GLOBAL TRANSACTION READ"),
                  SetNode("tx_read_only", TRUE, "SET GLOBAL tx_read_only ="),
                  SetNode("other", FALSE, "")}
    IN plain \cup {[n EXCEPT !.accepted = FALSE] : n \in plain}
             \cup {[n EXCEPT !.variables = 2, !.form = ""] : n \in plain}
             \cup {[SetNode("names", FALSE, "") EXCEPT !.extended = TRUE]}

Completion(type, completion, form) ==
    [type |-> type, completion |-> completion, savepoint |-> FALSE, form |-> form]

TransactionNodes ==
    {[type |-> "begin", mode |-> m, form |-> ""] : m \in {"", "PESSIMISTIC", "AS OF"}}
    \cup {[type |-> "begin", mode |-> "", form |-> "START TRANSACTION WITH CONSISTENT SNAPSHOT"]}
    \cup {Completion(t, c, "") : t \in {"commit", "rollback"}, c \in {"default", "release", "chain"}}
    \cup {Completion("commit", "default", "COMMIT AND NO CHAIN"),
          Completion("rollback", "default", "ROLLBACK AND NO CHAIN"),
          [Completion("rollback", "default", "") EXCEPT !.savepoint = TRUE]}

OtherNodes ==
    {[type |-> t, form |-> ""] :
        t \in (DirectTypes \ {"select", "insert", "update", "alter_table", "rename_table",
                              "mariadb_drop_foreign_key"}) \cup {"create_user"}}
    \cup {[type |-> t, parts |-> n, form |-> ""] : t \in {"alter_table", "rename_table"}, n \in 0 .. 2}

\* With clauses, or without: SELECT with no FROM or with LIMIT ?, INSERT without
\* columns, an assignment without "=".
DataNode(t, extractable) == [type |-> t, extractable |-> extractable, form |-> ""]
DataStatements == {"select", "insert", "update"}
SelectNode == DataNode("select", TRUE)

Text(nodes, clean, legacy) ==
    [parses |-> TRUE, nodes |-> nodes, extension |-> << >>, clean |-> clean, legacy |-> legacy]
Rejected(extension, legacy) ==
    [parses |-> FALSE, nodes |-> << >>, extension |-> extension, clean |-> TRUE, legacy |-> legacy]

ShowTexts == {Text(<<n>>, c, "raw") : n \in ShowNodes, c \in BOOLEAN}

MCTexts ==
    ShowTexts
    \cup {Text(<<n>>, c, "raw") : n \in TransactionNodes \cup SetNodes \cup OtherNodes, c \in BOOLEAN}
    \cup {Text(<<DataNode(t, FALSE)>>, TRUE, l) : t \in DataStatements, l \in {"raw", "error"}}
    \cup {Text(<<DataNode(t, TRUE)>>, TRUE, "clauses") : t \in DataStatements}
    \cup {Text(<<DataNode(t, TRUE)>>, FALSE, "raw") : t \in DataStatements}   \* a leading comment
    \* two statements, none, and texts the TiDB parser rejects
    \cup {Text(<<SelectNode, SelectNode>>, TRUE, "clauses"), Text(<< >>, TRUE, "raw")}
    \cup {Rejected(<< >>, l) : l \in {"clauses", "raw", "error"}}
    \* what the extension forms make of a text: DROP FOREIGN KEY IF EXISTS, the
    \* conditions of an ALTER TABLE, SHOW DATABASES WHERE DATABASE = ...
    \cup {Rejected(<<n>>, "raw") :
              n \in {[type |-> "mariadb_drop_foreign_key", form |-> ""]}
                    \cup {o \in OtherNodes : o.type = "alter_table" /\ o.parts > 0}
                    \cup {s \in ShowNodes : s.tp = "databases" /\ s.filter.op \in {"=", "other"}}}

AllDialects == {"mysql", "postgres", "sqlite", "oracle"}
InputNames == AllDialects \cup {"MySQL"}
=============================================================================
