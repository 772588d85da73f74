----------------------------- MODULE AlterTable -----------------------------
(***************************************************************************)
(* ALTER TABLE: the MariaDB extension forms that the parser facade patches *)
(* (internal/parser/extensions.go), and the loop of normalizeTiDBAlterTable*)
(* (internal/normalize/tidb_ddl.go) that turns the clauses of a statement  *)
(* into a batch of statements.                                             *)
(*                                                                         *)
(* A clause is a record:                                                   *)
(*   tp           its AlterTableType, for ADD CONSTRAINT that of the       *)
(*                constraint,                                              *)
(*   adaptable    the checks of its case pass (one column and no position, *)
(*                an index with a name, a reference with columns, ...),    *)
(*   column       of ADD, MODIFY or CHANGE, renames whether CHANGE does,   *)
(*   parts        the columns of a key,                                    *)
(*   conditional  it says IF EXISTS or IF NOT EXISTS,                      *)
(*   pieces       in how many pieces its text is cut at the commas outside *)
(*                of parentheses and quotes: more than one if it has a     *)
(*                comment with commas.                                     *)
(***************************************************************************)
EXTENDS Naturals, Sequences

CONSTANTS Inputs,  \* ALTER TABLE statements, as sequences of clauses
          Columns

\* Clauses kept in the current ALTER TABLE, and those with a case of their own.
Inline == {"add_column", "drop_column", "set_default", "drop_default", "modify", "change",
           "add_primary_key", "drop_primary_key", "drop_foreign_key"}
Indexes == {"add_index", "drop_index"}
Types == Inline \cup Indexes \cup {"add_unique_key", "add_foreign_key", "other"}

Clauses == [tp : Types, adaptable : BOOLEAN, column : Columns, renames : BOOLEAN,
            parts : SUBSET Columns, conditional : BOOLEAN, pieces : Nat \ {0}]

ASSUME InputsAssumption == Inputs \subseteq Seq(Clauses)

VARIABLES input,      \* the statement
          pc,         \* "parse", "normalize", "batch" or "raw"
          clauses,    \* Specs of the AST
          i,          \* the next of them
          specs,      \* specs of the current AlterTableStatement
          statements  \* of the batch so far

vars == <<input, pc, clauses, i, specs, statements>>

-----------------------------------------------------------------------------
(* extensions.go                                                           *)

\* What the TiDB parser rejects, and what the extension patches back in.
Rejected(clause) ==
    clause.conditional /\ clause.tp \in {"drop_foreign_key", "drop_primary_key", "add_unique_key"}
ExtensionTypes == {"drop_foreign_key", "drop_primary_key", "drop_index", "add_unique_key"}

\* splitAlterTableSpecClauses: the piece of the text a clause begins with.
Piece == [k \in 1 .. Len(input) |->
            LET start[j \in 1 .. k] == IF j = 1 THEN 1 ELSE start[j - 1] + input[j - 1].pieces
            IN start[k]]

\* mariaDBExtensionSpecIndexes: the pieces with an extension of a type.
SpecIndexes(tp) == {Piece[k] : k \in {j \in DOMAIN input : input[j].conditional /\ input[j].tp = tp}}

\* Mutant: DROP INDEX, which the TiDB parser knows, is not patched back.
MarkedButIndexes(k) ==
    IF input[k].tp \in ExtensionTypes \ {"drop_index"} THEN k \in SpecIndexes(input[k].tp)
    ELSE input[k].conditional /\ input[k].tp # "drop_index"

\* The clauses without the extensions, and those that markAlterTableExtensionSpecs
\* then finds at the place of a piece.
Marked(k) == IF input[k].tp \in ExtensionTypes THEN k \in SpecIndexes(input[k].tp)
             ELSE input[k].conditional

\* Every piece with an extension is the place of a clause of its type.
AllMarked ==
    \A tp \in ExtensionTypes : \A k \in SpecIndexes(tp) :
        k \in DOMAIN input /\ input[k].tp = tp

-----------------------------------------------------------------------------
(* tidb_ddl.go; "of" is the clause that a spec comes from.                 *)

\* Kinds of specs and statements that have a field for IF EXISTS or IF NOT EXISTS.
ConditionalKinds == {"add_unique_key", "add_foreign_key", "drop_primary_key", "drop_foreign_key"}
                    \cup Indexes

SpecOf(kind, clause, k) ==
    [kind |-> kind, of |-> k, column |-> clause.column, parts |-> clause.parts,
     conditional |-> kind \in ConditionalKinds /\ clause.conditional]

\* Mutant: a column that is NULL needs no spec.
MutationOfType(clause, k) == <<SpecOf("alter_type", clause, k)>>

\* buildAlterColumnMutationSpecs, after the renaming of CHANGE.
Mutation(clause, k) == <<SpecOf("alter_type", clause, k), SpecOf("set_nullness", clause, k)>>

Expand(clause, k) ==
    IF clause.tp = "change" /\ clause.renames
    THEN <<SpecOf("rename_column", clause, k)>> \o Mutation(clause, k)
    ELSE IF clause.tp \in {"modify", "change"} THEN Mutation(clause, k)
    ELSE <<SpecOf(clause.tp, clause, k)>>

AlterTableStatement(ss) == [op |-> "alter_table", specs |-> ss]
IndexStatement(clause, k) == [op |-> clause.tp, specs |-> <<SpecOf(clause.tp, clause, k)>>]

\* flushAlterTable.
Flushed == IF specs = << >> THEN statements ELSE Append(statements, AlterTableStatement(specs))

AddedColumns == {specs[s].column : s \in {t \in DOMAIN specs : specs[t].kind = "add_column"}}
ShouldSplitAlterTableBeforeAddForeignKey(parts) ==
    AddedColumns # {} /\ ~ (parts \subseteq AddedColumns)

-----------------------------------------------------------------------------
Init ==
    /\ input \in Inputs
    /\ pc = "parse"
    /\ clauses = << >> /\ i = 1
    /\ specs = << >> /\ statements = << >>

\* The text as it is: the parsers or the normaliser gave up on the statement.
Raw == pc' = "raw"

Parse ==
    /\ pc = "parse"
    /\ IF \A k \in DOMAIN input : ~Rejected(input[k])
       THEN pc' = "normalize" /\ clauses' = input
       ELSE IF AllMarked
       THEN /\ pc' = "normalize"
            /\ clauses' = [k \in DOMAIN input |-> [input[k] EXCEPT !.conditional = Marked(k)]]
       ELSE Raw /\ UNCHANGED clauses
    /\ UNCHANGED <<input, i, specs, statements>>

\* One round of the loop, for a clause of one of the types.
Clause(types) ==
    /\ pc = "normalize" /\ i <= Len(clauses)
    /\ clauses[i].tp \in types /\ clauses[i].adaptable
    /\ i' = i + 1
    /\ UNCHANGED <<input, pc, clauses>>

AddInline ==
    /\ Clause(Inline)
    /\ specs' = specs \o Expand(clauses[i], i)
    /\ UNCHANGED statements

\* Mutant: the unique key stays in a new ALTER TABLE with what follows.
AddUniqueKeyInline ==
    /\ Clause({"add_unique_key"})
    /\ statements' = Flushed
    /\ specs' = <<SpecOf("add_unique_key", clauses[i], i)>>

\* Mutant: the specs before the unique key are not flushed.
AddUniqueKeyFirst ==
    /\ Clause({"add_unique_key"})
    /\ statements' = Append(statements, AlterTableStatement(<<SpecOf("add_unique_key", clauses[i], i)>>))
    /\ UNCHANGED specs

AddUniqueKey ==
    /\ Clause({"add_unique_key"})
    /\ statements' = Append(Flushed, AlterTableStatement(<<SpecOf("add_unique_key", clauses[i], i)>>))
    /\ specs' = << >>

\* Mutant.
AddForeignKeyInline ==
    /\ Clause({"add_foreign_key"})
    /\ specs' = Append(specs, SpecOf("add_foreign_key", clauses[i], i))
    /\ UNCHANGED statements

AddForeignKey ==
    /\ Clause({"add_foreign_key"})
    /\ LET foreignKey == SpecOf("add_foreign_key", clauses[i], i)
       IN IF ShouldSplitAlterTableBeforeAddForeignKey(clauses[i].parts)
          THEN statements' = Flushed /\ specs' = <<foreignKey>>
          ELSE specs' = Append(specs, foreignKey) /\ UNCHANGED statements

AddOrDropIndex ==
    /\ Clause(Indexes)
    /\ statements' = Append(Flushed, IndexStatement(clauses[i], i))
    /\ specs' = << >>

\* What has been built of the batch is dropped.
FallBack ==
    /\ pc = "normalize" /\ i <= Len(clauses)
    /\ clauses[i].tp = "other" \/ ~clauses[i].adaptable
    /\ Raw
    /\ specs' = << >> /\ statements' = << >>
    /\ UNCHANGED <<input, clauses, i>>

\* Mutant: flushAlterTable does not reset the specs.
FinishWithoutReset ==
    /\ pc = "normalize" /\ i > Len(clauses)
    /\ pc' = "batch"
    /\ statements' = Flushed
    /\ UNCHANGED <<input, clauses, i, specs>>

Finish ==
    /\ pc = "normalize" /\ i > Len(clauses)
    /\ pc' = "batch"
    /\ statements' = Flushed /\ specs' = << >>
    /\ UNCHANGED <<input, clauses, i>>

Next == Parse \/ AddInline \/ AddUniqueKey \/ AddForeignKey \/ AddOrDropIndex \/ FallBack \/ Finish

Spec == Init /\ [][Next]_vars

-----------------------------------------------------------------------------
Kinds == Types \cup {"rename_column", "alter_type", "set_nullness"}
Specs == [kind : Kinds, of : Nat \ {0}, column : Columns, parts : SUBSET Columns, conditional : BOOLEAN]
Statements == [op : {"alter_table"} \cup Indexes, specs : Seq(Specs)]

\* Every value is of its type, and specs wait for a flush only inside the loop of
\* normalizeTiDBAlterTable.
TypeOK ==
    /\ input \in Inputs
    /\ pc \in {"parse", "normalize", "batch", "raw"}
    /\ clauses \in Seq(Clauses)
    /\ i \in 1 .. Len(clauses) + 1
    /\ specs \in Seq(Specs)
    /\ statements \in Seq(Statements)
    /\ specs # << >> => pc = "normalize"

\* The statements of the batch, the one being built last.
Batch == Append(statements, AlterTableStatement(specs))

\* The clauses keep their order, within the statements and across them, so that
\* a key that was written after a column it uses is added after that column.
OrderKept ==
    \A p, q \in DOMAIN Batch : \A s \in DOMAIN Batch[p].specs, t \in DOMAIN Batch[q].specs :
        p < q \/ (p = q /\ s < t) => Batch[p].specs[s].of <= Batch[q].specs[t].of

\* What a clause asks for: MODIFY and CHANGE set the type and NULL or NOT NULL of a
\* column, which CHANGE may give another name; all others do one thing.  (A DEFAULT
\* of theirs stays in the column of alter_type, of which render.go:723 writes the
\* type only: what is rendered of a spec is not part of this module.)
KindsOf(clause) ==
    CASE clause.tp = "modify" -> {"alter_type", "set_nullness"}
      [] clause.tp = "change" ->
             {"alter_type", "set_nullness"} \cup (IF clause.renames THEN {"rename_column"} ELSE {})
      [] OTHER -> {clause.tp}

Covers(batch, k, kind) ==
    \E p \in DOMAIN batch : \E s \in DOMAIN batch[p].specs :
        batch[p].specs[s].of = k /\ batch[p].specs[s].kind = kind

\* No part of a clause is lost when the statement is split: for everything that a
\* clause read so far asks for, the batch has a spec of that kind from that clause.
NothingLost ==
    pc \in {"normalize", "batch"} =>
        \A k \in 1 .. i - 1 : \A kind \in KindsOf(clauses[k]) : Covers(Batch, k, kind)

\* Of the specs of one statement.
AloneIn(ss) ==
    \A s \in DOMAIN ss : ss[s].kind \in Indexes \cup {"add_unique_key"} => Len(ss) = 1
\* Indexes and unique keys are statements on their own (the cases that flush).
KeysAlone == \A p \in DOMAIN Batch : AloneIn(Batch[p].specs)

\* No statement of the batch is empty.
StatementsNotEmpty == \A p \in DOMAIN statements : statements[p].specs # << >>

\* Of the specs of one statement: a foreign key after added columns is over these.
SplitIn(ss) ==
    \A s, t \in DOMAIN ss :
        s < t /\ ss[s].kind = "add_column" /\ ss[t].kind = "add_foreign_key" =>
            \A c \in ss[t].parts : \E r \in 1 .. t : ss[r].kind = "add_column" /\ ss[r].column = c
\* A foreign key is in the statement of the columns it needs: where columns are added
\* before it, it is over these alone (shouldSplitAlterTableBeforeAddForeignKey).
ForeignKeysSplit == \A p \in DOMAIN Batch : SplitIn(Batch[p].specs)

\* IF EXISTS and IF NOT EXISTS stay with their clause.
ConditionKeptBy(kinds) ==
    pc = "batch" =>
        \A p \in DOMAIN statements : \A s \in DOMAIN statements[p].specs :
            LET spec == statements[p].specs[s]
            IN spec.kind \in kinds => (spec.conditional <=> input[spec.of].conditional)

\* The places that the text splitter counts are those of the parser: no clause
\* before the last has a comment with commas.
Aligned == \A k \in DOMAIN input : Piece[k] = k

\* A condition taken out of the text and patched back by its place
\* (mariaDBExtensionSpecIndexes and markAlterTableExtensionSpecs) is that of the
\* statement which the clause becomes.
ConditionKept == Aligned => ConditionKeptBy(ConditionalKinds)

-----------------------------------------------------------------------------
(* What docs/reports/parser-adaptation-matrix.md says of ALTER TABLE.      *)

\* Line 22: the MariaDB extensions "are patched in the parser facade", mixed
\* batches included.  (A comma in a comment shifts the places.)
ExtensionsPatched == ConditionKeptBy(ExtensionTypes)
=============================================================================
