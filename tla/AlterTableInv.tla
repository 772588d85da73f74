--------------------------- MODULE AlterTableInv ---------------------------
(***************************************************************************)
(* The inductive invariant behind the safety properties of AlterTable.     *)
(***************************************************************************)
EXTENDS AlterTable

\* Of the specs of a statement.
InOrder(ss) == \A s, t \in DOMAIN ss : s < t => ss[s].of <= ss[t].of
NoKeys(ss) == \A s \in DOMAIN ss : ss[s].kind \notin Indexes \cup {"add_unique_key"}
From(k, ss) == \A s \in DOMAIN ss : ss[s].of = k

\* Of a batch: ordered, and from the clauses before n.
Ordered(b) ==
    /\ \A p \in DOMAIN b : InOrder(b[p].specs)
    /\ \A p, q \in DOMAIN b : p < q =>
           \A s \in DOMAIN b[p].specs, t \in DOMAIN b[q].specs : b[p].specs[s].of <= b[q].specs[t].of
Below(b, n) == \A p \in DOMAIN b : \A s \in DOMAIN b[p].specs : b[p].specs[s].of < n
Has(ss, kinds) == \A kind \in kinds : \E s \in DOMAIN ss : ss[s].kind = kind
CoversUpTo(b, n) == \A k \in 1 .. n : \A kind \in KindsOf(clauses[k]) : Covers(b, k, kind)
Sound(b) == \A p \in DOMAIN b : AloneIn(b[p].specs) /\ SplitIn(b[p].specs) /\ b[p].specs # << >>

\* While the batch grows it is ordered, it covers the clauses read and only them,
\* and what flushAlterTable would add to it keeps it sound.
IndInv ==
    /\ TypeOK /\ (pc = "parse" => i = 1)
    /\ Ordered(Batch) /\ Below(Batch, i)
    /\ Sound(statements) /\ NoKeys(specs) /\ SplitIn(specs)
    /\ pc \in {"normalize", "batch"} => CoversUpTo(Batch, i - 1)

\* Of the specs of a statement: they have the conditions of their clauses.
SaidIn(ss) ==
    \A s \in DOMAIN ss :
        ss[s].kind \in ConditionalKinds => ss[s].conditional = clauses[ss[s].of].conditional

\* The clauses are those of the statement, and their conditions go into the batch.
ConditionInv ==
    pc \in {"normalize", "batch"} =>
        /\ Len(clauses) = Len(input)
        /\ Aligned => \A k \in DOMAIN input : clauses[k].conditional = input[k].conditional
        /\ SaidIn(specs) /\ \A p \in DOMAIN statements : SaidIn(statements[p].specs)
=============================================================================
