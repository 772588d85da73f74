---------------------------- MODULE MCAlterTable ----------------------------
(* Small instances of AlterTable.                                          *)
EXTENDS AlterTableInv

Make(tp, column, parts, conditional) ==
    [tp |-> tp, adaptable |-> TRUE, column |-> column, renames |-> FALSE, parts |-> parts,
     conditional |-> conditional, pieces |-> 1]
NotAdaptable(clause) == [clause EXCEPT !.adaptable = FALSE]
Commented(clause) == [clause EXCEPT !.pieces = 2]

AddColumns  == {Make("add_column", c, {}, FALSE) : c \in {"a", "b"}}
ForeignKeys == {Make("add_foreign_key", "a", ps, FALSE) : ps \in {{"a"}, {"a", "b"}}}
Keys        == {Make(tp, "a", {"a"}, b) : tp \in {"add_unique_key", "add_index"}, b \in BOOLEAN}
Drops       == {Make(tp, "a", {}, b) :
                    tp \in {"drop_index", "drop_foreign_key", "drop_primary_key"}, b \in BOOLEAN}
Changes     == {Make("modify", "a", {}, FALSE), [Make("change", "a", {}, FALSE) EXCEPT !.renames = TRUE]}
Unadapted   == {Make("other", "a", {}, FALSE),
                NotAdaptable(Make("add_column", "a", {}, FALSE)),
                NotAdaptable(Make("add_index", "a", {"a"}, FALSE))}

UpTo(n, S) == UNION {[1 .. k -> S] : k \in 0 .. n}

DropKeys == {d \in Drops : d.tp # "drop_primary_key"}
CommentedInputs == UpTo(3, DropKeys \cup {Commented(c) : c \in DropKeys})

\* Every order of three clauses; four where columns and keys depend on each other;
\* comments with a comma.
AllInputs  == UpTo(3, AddColumns \cup ForeignKeys \cup Keys \cup Drops \cup Changes \cup Unadapted)
              \cup UpTo(4, AddColumns \cup ForeignKeys \cup {Make("add_unique_key", "a", {"a"}, FALSE)})
              \cup CommentedInputs
=============================================================================
