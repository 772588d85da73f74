-------------------------- MODULE AlterTableProof --------------------------
(***************************************************************************)
(* Proofs about the batch that an ALTER TABLE becomes, for every statement *)
(* and every set of columns: clauses keep their order, none is lost, keys  *)
(* stand alone and foreign keys are with the columns they need.            *)
(***************************************************************************)
EXTENDS AlterTableInv, SequenceTheorems, TLAPS

-----------------------------------------------------------------------------
(* A batch and one more statement.                                         *)

\* The statements of a longer batch: the old ones and the new one.
LEMMA AppendFacts ==
    ASSUME NEW b \in Seq(Statements), NEW x \in Statements
    PROVE  /\ Append(b, x) \in Seq(Statements)
           /\ Len(b) \in Nat /\ DOMAIN b = 1 .. Len(b)
           /\ DOMAIN Append(b, x) = 1 .. Len(b) + 1
           /\ \A p \in DOMAIN b : p \in DOMAIN Append(b, x) /\ Append(b, x)[p] = b[p]
           /\ Len(b) + 1 \in DOMAIN Append(b, x) /\ Append(b, x)[Len(b) + 1] = x
           /\ \A p \in DOMAIN Append(b, x) : p \in DOMAIN b \/ p = Len(b) + 1
OBVIOUS

\* A statement from later clauses keeps the batch ordered.
LEMMA AppendOrdered ==
    ASSUME NEW b \in Seq(Statements), NEW x \in Statements, Ordered(b), InOrder(x.specs),
           \A p \in DOMAIN b : \A s \in DOMAIN b[p].specs, t \in DOMAIN x.specs :
               b[p].specs[s].of <= x.specs[t].of
    PROVE  Append(b, x) \in Seq(Statements) /\ Ordered(Append(b, x))
BY AppendFacts DEF Ordered

\* Conversely, the parts of an ordered batch are ordered.
LEMMA AppendedOrdered ==
    ASSUME NEW b \in Seq(Statements), NEW x \in Statements, Ordered(Append(b, x))
    PROVE  /\ Ordered(b) /\ InOrder(x.specs)
           /\ \A p \in DOMAIN b : \A s \in DOMAIN b[p].specs, t \in DOMAIN x.specs :
                  b[p].specs[s].of <= x.specs[t].of
<1> DEFINE e == Append(b, x)
<1>1. \A p \in DOMAIN b : p \in DOMAIN e /\ e[p] = b[p] /\ p < Len(b) + 1
  BY AppendFacts
<1>2. Len(b) + 1 \in DOMAIN e /\ e[Len(b) + 1] = x
  BY AppendFacts
<1> HIDE DEF e
<1>3. Ordered(e)
  BY DEF e
<1>. QED  BY <1>1, <1>2, <1>3, AppendFacts DEF Ordered

\* A bound on the clauses of a batch is one on its parts.
LEMMA AppendBelow ==
    ASSUME NEW b \in Seq(Statements), NEW x \in Statements, NEW n \in Nat
    PROVE  Below(Append(b, x), n) <=> Below(b, n) /\ \A s \in DOMAIN x.specs : x.specs[s].of < n
<1> DEFINE e == Append(b, x)
<1>1. /\ \A p \in DOMAIN b : p \in DOMAIN e /\ e[p] = b[p]
      /\ Len(b) + 1 \in DOMAIN e /\ e[Len(b) + 1] = x
      /\ \A p \in DOMAIN e : p \in DOMAIN b \/ p = Len(b) + 1
  BY AppendFacts
<1> HIDE DEF e
<1>2. Below(e, n) <=> Below(b, n) /\ \A s \in DOMAIN x.specs : x.specs[s].of < n
  BY <1>1 DEF Below
<1>. QED  BY <1>2 DEF e

\* A longer batch covers what its parts cover.
LEMMA AppendCovers ==
    ASSUME NEW b \in Seq(Statements), NEW x \in Statements, NEW k \in Nat, NEW kind
    PROVE  Covers(Append(b, x), k, kind)
           <=> Covers(b, k, kind) \/ \E s \in DOMAIN x.specs : x.specs[s].of = k /\ x.specs[s].kind = kind
<1> DEFINE e == Append(b, x)
<1>1. /\ \A p \in DOMAIN b : p \in DOMAIN e /\ e[p] = b[p]
      /\ Len(b) + 1 \in DOMAIN e /\ e[Len(b) + 1] = x
      /\ \A p \in DOMAIN e : p \in DOMAIN b \/ p = Len(b) + 1
  BY AppendFacts
<1> HIDE DEF e
<1>2. Covers(e, k, kind)
      <=> Covers(b, k, kind) \/ \E s \in DOMAIN x.specs : x.specs[s].of = k /\ x.specs[s].kind = kind
  BY <1>1 DEF Covers
<1>. QED  BY <1>2 DEF e

\* A sound statement keeps the batch sound.
LEMMA AppendSound ==
    ASSUME NEW b \in Seq(Statements), NEW x \in Statements, Sound(b),
           AloneIn(x.specs), SplitIn(x.specs), x.specs # << >>
    PROVE  Sound(Append(b, x))
BY AppendFacts DEF Sound

-----------------------------------------------------------------------------
(* The statement being built and more specs.                               *)

\* The specs of a longer statement: the old ones, then the new ones.
LEMMA ConcatFacts ==
    ASSUME NEW ss \in Seq(Specs), NEW tt \in Seq(Specs)
    PROVE  /\ ss \o tt \in Seq(Specs)
           /\ Len(ss) \in Nat /\ Len(tt) \in Nat
           /\ DOMAIN ss = 1 .. Len(ss) /\ DOMAIN tt = 1 .. Len(tt)
           /\ DOMAIN (ss \o tt) = 1 .. Len(ss) + Len(tt)
           /\ \A s \in DOMAIN ss : s \in DOMAIN (ss \o tt) /\ (ss \o tt)[s] = ss[s]
           /\ \A t \in DOMAIN tt :
                  Len(ss) + t \in DOMAIN (ss \o tt) /\ (ss \o tt)[Len(ss) + t] = tt[t]
           /\ \A s \in DOMAIN (ss \o tt) :
                  s \in DOMAIN ss \/ (s > Len(ss) /\ s - Len(ss) \in DOMAIN tt)
OBVIOUS

\* An ALTER TABLE of given specs is a statement.
LEMMA SpecsTypes ==
    ASSUME NEW ss \in Seq(Specs)
    PROVE  /\ AlterTableStatement(ss) \in Statements
           /\ AlterTableStatement(ss).specs = ss
           /\ \A s \in DOMAIN ss : ss[s] \in Specs /\ ss[s].of \in Nat \ {0}
<1>1. AlterTableStatement(ss) \in Statements /\ AlterTableStatement(ss).specs = ss
  BY DEF AlterTableStatement, Statements
<1>2. \A s \in DOMAIN ss : ss[s] \in Specs
  OBVIOUS
<1>3. \A x \in Specs : x.of \in Nat \ {0}
  BY DEF Specs
<1>. QED  BY <1>1, <1>2, <1>3

\* Statements have sequences of specs.
LEMMA SpecsField ==
    ASSUME NEW b \in Seq(Statements), NEW p \in DOMAIN b
    PROVE  b[p].specs \in Seq(Specs)
<1>1. b[p] \in Statements
  OBVIOUS
<1>. QED  BY <1>1 DEF Statements

\* The spec of a clause.
LEMMA SpecOfType ==
    ASSUME NEW clause \in Clauses, NEW k \in Nat \ {0}, NEW kind \in Kinds
    PROVE  /\ SpecOf(kind, clause, k) \in Specs /\ SpecOf(kind, clause, k).of = k
           /\ SpecOf(kind, clause, k).kind = kind /\ SpecOf(kind, clause, k).parts = clause.parts
BY DEF SpecOf, Specs, Clauses

\* Specs that are neither keys nor foreign keys.
Plain(k) == {x \in Specs : /\ x.of = k
                           /\ x.kind \notin Indexes \cup {"add_unique_key", "add_foreign_key"}}

\* The spec of a clause is plain if its kind is.
LEMMA PlainType ==
    ASSUME NEW clause \in Clauses, NEW k \in Nat \ {0}, NEW kind \in Kinds,
           kind \notin Indexes \cup {"add_unique_key", "add_foreign_key"}
    PROVE  SpecOf(kind, clause, k) \in Plain(k)
BY SpecOfType DEF Plain

\* The kinds that AddInline produces are.
LEMMA PlainKinds ==
    \A kind \in Inline \cup {"rename_column", "alter_type", "set_nullness"} :
        kind \in Kinds /\ kind \notin Indexes \cup {"add_unique_key", "add_foreign_key"}
BY DEF Kinds, Types, Inline, Indexes

\* What the clauses of AddInline become: at least one spec, no key.
LEMMA ExpandFacts ==
    ASSUME NEW clause \in Clauses, clause.tp \in Inline, NEW k \in Nat \ {0}
    PROVE  /\ Expand(clause, k) \in Seq(Specs) /\ Expand(clause, k) # << >>
           /\ From(k, Expand(clause, k)) /\ NoKeys(Expand(clause, k))
           /\ \A s \in DOMAIN Expand(clause, k) : Expand(clause, k)[s].kind # "add_foreign_key"
           /\ Has(Expand(clause, k), KindsOf(clause))
<1> DEFINE rename == SpecOf("rename_column", clause, k)
           alter == SpecOf("alter_type", clause, k)
           nullness == SpecOf("set_nullness", clause, k)
           same == SpecOf(clause.tp, clause, k)
<1>1. rename \in Plain(k) /\ alter \in Plain(k) /\ nullness \in Plain(k) /\ same \in Plain(k)
  BY PlainType, PlainKinds
<1>2. Expand(clause, k) \in {<<rename>> \o <<alter, nullness>>, <<alter, nullness>>, <<same>>}
  BY DEF Expand, Mutation
<1>3. Expand(clause, k) \in Seq(Plain(k)) /\ Expand(clause, k) # << >>
  <2> HIDE DEF rename, alter, nullness, same
  <2>1. \A a, b \in Plain(k) : <<a>> \in Seq(Plain(k)) /\ <<a, b>> \in Seq(Plain(k))
                             /\ <<a>> # << >> /\ <<a, b>> # << >>
    OBVIOUS
  <2>2. \A a, b, c \in Plain(k) : <<a>> \o <<b, c>> \in Seq(Plain(k)) /\ <<a>> \o <<b, c>> # << >>
    OBVIOUS
  <2>. QED  BY <1>1, <1>2, <2>1, <2>2
<1>4. \A s \in DOMAIN Expand(clause, k) : Expand(clause, k)[s] \in Plain(k)
  BY <1>3
<1>5. Plain(k) \subseteq Specs
  BY DEF Plain
<1>6. Expand(clause, k) \in Seq(Specs)
  BY <1>3, <1>5
<1>7. Has(Expand(clause, k), KindsOf(clause))
  <2>1. /\ rename.kind = "rename_column" /\ alter.kind = "alter_type"
        /\ nullness.kind = "set_nullness" /\ same.kind = clause.tp
    BY DEF SpecOf
  <2>2. CASE clause.tp = "change" /\ clause.renames
    <3>1. Expand(clause, k) = <<rename>> \o <<alter, nullness>>
      BY <2>2 DEF Expand, Mutation
    <3> HIDE DEF rename, alter, nullness, same
    <3>2. \A s \in {1, 2, 3} : s \in DOMAIN (<<rename>> \o <<alter, nullness>>)
      OBVIOUS
    <3>3. LET e == <<rename>> \o <<alter, nullness>>
          IN  e[1] = rename /\ e[2] = alter /\ e[3] = nullness
      OBVIOUS
    <3>4. KindsOf(clause) = {"alter_type", "set_nullness", "rename_column"}
      BY <2>2 DEF KindsOf
    <3>. QED  BY <2>1, <3>1, <3>2, <3>3, <3>4 DEF Has
  <2>3. CASE clause.tp = "modify" \/ (clause.tp = "change" /\ ~clause.renames)
    <3>1. Expand(clause, k) = <<alter, nullness>>
      BY <2>3 DEF Expand, Mutation
    <3> HIDE DEF rename, alter, nullness, same
    <3>2. /\ \A s \in {1, 2} : s \in DOMAIN <<alter, nullness>>
          /\ <<alter, nullness>>[1] = alter /\ <<alter, nullness>>[2] = nullness
      OBVIOUS
    <3>3. KindsOf(clause) = {"alter_type", "set_nullness"}
      BY <2>3 DEF KindsOf
    <3>. QED  BY <2>1, <3>1, <3>2, <3>3 DEF Has
  <2>4. CASE clause.tp \notin {"modify", "change"}
    <3>1. Expand(clause, k) = <<same>> /\ KindsOf(clause) = {clause.tp}
      BY <2>4 DEF Expand, KindsOf
    <3>2. 1 \in DOMAIN <<same>> /\ <<same>>[1] = same
      OBVIOUS
    <3>. QED  BY <2>1, <3>1, <3>2 DEF Has
  <2>. QED  BY <2>2, <2>3, <2>4
<1>. QED  BY <1>3, <1>4, <1>6, <1>7 DEF From, NoKeys, Plain

-----------------------------------------------------------------------------
(* What a clause adds to the batch.                                        *)

\* The statement being built goes on with specs of the clause read.
LEMMA Continued ==
    ASSUME IndInv, pc = "normalize", NEW tt \in Seq(Specs), From(i, tt), Has(tt, KindsOf(clauses[i]))
    PROVE  LET b == Append(statements, AlterTableStatement(specs \o tt))
           IN  Ordered(b) /\ Below(b, i + 1) /\ CoversUpTo(b, i)
<1> DEFINE u == specs \o tt
           x == AlterTableStatement(u)
           old == AlterTableStatement(specs)
<1>1. i \in Nat \ {0} /\ specs \in Seq(Specs) /\ statements \in Seq(Statements)
  BY DEF IndInv, TypeOK
<1>2. u \in Seq(Specs) /\ x \in Statements /\ x.specs = u /\ old \in Statements /\ old.specs = specs
  BY <1>1, ConcatFacts, SpecsTypes
<1>3. /\ Ordered(statements) /\ InOrder(specs)
      /\ \A p \in DOMAIN statements : \A s \in DOMAIN statements[p].specs, t \in DOMAIN specs :
             statements[p].specs[s].of <= specs[t].of
  BY <1>1, <1>2, AppendedOrdered DEF IndInv, Batch
<1>4. Below(statements, i) /\ \A s \in DOMAIN specs : specs[s].of < i
  BY <1>1, <1>2, AppendBelow DEF IndInv, Batch
<1>5. \A s \in DOMAIN u :
          \/ s \in DOMAIN specs /\ u[s] = specs[s] /\ u[s].of < i
          \/ s \notin DOMAIN specs /\ s > Len(specs) /\ u[s].of = i
  BY <1>1, <1>4, ConcatFacts DEF From
<1>6. \A s \in DOMAIN specs : s \in DOMAIN u /\ u[s] = specs[s]
  BY <1>1, ConcatFacts
<1>7. \A kind \in KindsOf(clauses[i]) : \E s \in DOMAIN u : u[s].of = i /\ u[s].kind = kind
  <2> TAKE kind \in KindsOf(clauses[i])
  <2>1. PICK t \in DOMAIN tt : tt[t].kind = kind
    BY DEF Has
  <2>2. Len(specs) + t \in DOMAIN u /\ u[Len(specs) + t] = tt[t]
    BY <1>1, <2>1, ConcatFacts
  <2>3. tt[t].of = i
    BY <2>1 DEF From
  <2>. QED  BY <2>1, <2>2, <2>3
<1>8. DOMAIN specs = 1 .. Len(specs) /\ Len(specs) \in Nat /\ DOMAIN u \subseteq Nat
  BY <1>1, ConcatFacts
<1>9. \A p \in DOMAIN statements : \A s \in DOMAIN statements[p].specs :
          statements[p].specs[s].of \in Nat /\ statements[p].specs[s].of < i
  <2>1. \A p \in DOMAIN statements : statements[p].specs \in Seq(Specs)
    BY <1>1, SpecsField
  <2>. QED  BY <1>4, <2>1, SpecsTypes DEF Below
<1>10. \A s \in DOMAIN u : u[s].of \in Nat
  BY <1>2, SpecsTypes
<1> HIDE DEF u, x, old
<1>11. Ordered(Append(statements, x))
  <2>1. InOrder(u)
    BY <1>1, <1>3, <1>5, <1>8, <1>10 DEF InOrder
  <2>2. \A p \in DOMAIN statements : \A s \in DOMAIN statements[p].specs, t \in DOMAIN u :
            statements[p].specs[s].of <= u[t].of
    BY <1>1, <1>3, <1>5, <1>9
  <2>. QED  BY <1>1, <1>2, <1>3, <2>1, <2>2, AppendOrdered
<1>12. Below(Append(statements, x), i + 1)
  <2>1. \A s \in DOMAIN u : u[s].of < i + 1
    BY <1>1, <1>5, <1>10
  <2>2. Below(statements, i + 1)
    BY <1>1, <1>9 DEF Below
  <2>3. statements \in Seq(Statements) /\ x \in Statements /\ i + 1 \in Nat
    BY <1>1, <1>2
  <2>4. \A s \in DOMAIN x.specs : x.specs[s].of < i + 1
    BY <1>2, <2>1
  <2>. QED  BY <2>2, <2>3, <2>4, AppendBelow
<1>13. CoversUpTo(Append(statements, x), i)
  <2> SUFFICES ASSUME NEW k \in 1 .. i, NEW kind \in KindsOf(clauses[k])
               PROVE  Covers(Append(statements, x), k, kind)
    BY DEF CoversUpTo
  <2>1. CASE k = i
    BY <1>1, <1>2, <1>7, <2>1, AppendCovers
  <2>2. CASE k # i
    <3>1. k \in 1 .. i - 1 /\ k \in Nat
      BY <1>1, <2>2
    <3>2. Covers(Append(statements, old), k, kind)
      BY <3>1 DEF IndInv, CoversUpTo, Batch, old
    <3>3. Covers(statements, k, kind) \/ \E s \in DOMAIN specs : specs[s].of = k /\ specs[s].kind = kind
      BY <1>1, <1>2, <3>1, <3>2, AppendCovers
    <3>4. Covers(statements, k, kind) \/ \E s \in DOMAIN u : u[s].of = k /\ u[s].kind = kind
      BY <1>6, <3>3
    <3>. QED  BY <1>1, <1>2, <3>1, <3>4, AppendCovers
  <2>. QED  BY <2>1, <2>2
<1>. QED  BY <1>11, <1>12, <1>13 DEF x, u

\* flushAlterTable leaves the batch as it is, and sound.
LEMMA FlushedFacts ==
    ASSUME IndInv
    PROVE  /\ Flushed \in Seq(Statements)
           /\ Ordered(Flushed) /\ Below(Flushed, i) /\ Sound(Flushed)
           /\ \A k \in Nat : \A kind : Covers(Batch, k, kind) => Covers(Flushed, k, kind)
<1> DEFINE x == AlterTableStatement(specs)
<1>1. i \in Nat /\ specs \in Seq(Specs) /\ statements \in Seq(Statements)
  BY DEF IndInv, TypeOK
<1>2. x \in Statements /\ x.specs = specs /\ Batch = Append(statements, x)
  BY <1>1, SpecsTypes DEF Batch
<1>3. AloneIn(specs)
  BY DEF IndInv, NoKeys, AloneIn
<1> HIDE DEF x
<1>4. CASE specs = << >>
  <2>1. Flushed = statements
    BY <1>4 DEF Flushed
  <2>2. Ordered(statements) /\ Below(statements, i) /\ Sound(statements)
    BY <1>1, <1>2, AppendedOrdered, AppendBelow DEF IndInv
  <2>3. \A k \in Nat : \A kind : Covers(Batch, k, kind) => Covers(statements, k, kind)
    BY <1>1, <1>2, <1>4, AppendCovers
  <2>. QED  BY <1>1, <2>1, <2>2, <2>3
<1>5. CASE specs # << >>
  <2>1. Flushed = Batch
    BY <1>2, <1>5 DEF Flushed, x
  <2>2. Sound(Batch)
    BY <1>1, <1>2, <1>3, <1>5, AppendSound DEF IndInv
  <2>3. Batch \in Seq(Statements)
    BY <1>1, <1>2, AppendFacts
  <2>. QED  BY <2>1, <2>2, <2>3 DEF IndInv
<1>. QED  BY <1>4, <1>5

\* A statement of the clause read alone, after what was flushed.
LEMMA OnItsOwn ==
    ASSUME IndInv, pc = "normalize", NEW x \in Statements, From(i, x.specs), Len(x.specs) = 1,
           Has(x.specs, KindsOf(clauses[i]))
    PROVE  LET b == Append(Flushed, x)
               empty == AlterTableStatement(<< >>)
           IN  /\ b \in Seq(Statements) /\ Sound(b)
               /\ Ordered(b) /\ Below(b, i + 1) /\ CoversUpTo(b, i)
               /\ Ordered(Append(b, empty)) /\ Below(Append(b, empty), i + 1)
               /\ CoversUpTo(Append(b, empty), i)
<1> DEFINE b == Append(Flushed, x)
           empty == AlterTableStatement(<< >>)
<1>1. i \in Nat \ {0} /\ x.specs \in Seq(Specs)
  BY DEF IndInv, TypeOK, Statements
<1>2. empty \in Statements /\ empty.specs = << >>
  <2>1. << >> \in Seq(Specs)
    OBVIOUS
  <2>. QED  BY <2>1, SpecsTypes
<1>3. DOMAIN x.specs = {1} /\ x.specs[1].of = i /\ x.specs # << >>
  BY <1>1 DEF From
<1>4. /\ Flushed \in Seq(Statements)
      /\ Ordered(Flushed) /\ Below(Flushed, i) /\ Sound(Flushed)
      /\ \A k \in Nat : \A kind : Covers(Batch, k, kind) => Covers(Flushed, k, kind)
  BY FlushedFacts
<1>5. b \in Seq(Statements)
  BY <1>4, AppendFacts
<1>6. Sound(b)
  BY <1>3, <1>4, AppendSound DEF AloneIn, SplitIn
<1>7. \A p \in DOMAIN Flushed : \A s \in DOMAIN Flushed[p].specs :
          Flushed[p].specs[s].of \in Nat /\ Flushed[p].specs[s].of < i
  <2>1. \A p \in DOMAIN Flushed : Flushed[p].specs \in Seq(Specs)
    BY <1>4, SpecsField
  <2>. QED  BY <1>4, <2>1, SpecsTypes DEF Below
<1>8. Ordered(b)
  <2>1. InOrder(x.specs)
    BY <1>3 DEF InOrder
  <2>2. \A p \in DOMAIN Flushed : \A s \in DOMAIN Flushed[p].specs, t \in DOMAIN x.specs :
            Flushed[p].specs[s].of <= x.specs[t].of
    BY <1>1, <1>3, <1>7
  <2>. QED  BY <1>4, <2>1, <2>2, AppendOrdered
<1>9. Below(b, i + 1)
  <2>1. Below(Flushed, i + 1)
    BY <1>1, <1>7 DEF Below
  <2>2. \A s \in DOMAIN x.specs : x.specs[s].of < i + 1
    BY <1>1, <1>3
  <2>3. Flushed \in Seq(Statements) /\ i + 1 \in Nat
    BY <1>1, <1>4
  <2>. QED  BY <2>1, <2>2, <2>3, AppendBelow
<1>10. CoversUpTo(b, i)
  <2> SUFFICES ASSUME NEW k \in 1 .. i, NEW kind \in KindsOf(clauses[k]) PROVE Covers(b, k, kind)
    BY DEF CoversUpTo
  <2>1. CASE k = i
    <3>1. \E s \in DOMAIN x.specs : x.specs[s].of = i /\ x.specs[s].kind = kind
      BY <2>1 DEF Has, From
    <3>. QED  BY <1>1, <1>4, <2>1, <3>1, AppendCovers
  <2>2. CASE k # i
    <3>1. k \in 1 .. i - 1 /\ k \in Nat
      BY <1>1, <2>2
    <3>2. Covers(Flushed, k, kind)
      BY <1>4, <3>1 DEF IndInv, CoversUpTo
    <3>. QED  BY <1>4, <3>1, <3>2, AppendCovers
  <2>. QED  BY <2>1, <2>2
<1> HIDE DEF b, empty
<1>11. Ordered(Append(b, empty))
  <2>1. DOMAIN empty.specs = {}
    BY <1>2
  <2>. QED  BY <1>2, <1>5, <1>8, <2>1, AppendOrdered DEF InOrder
<1>12. Below(Append(b, empty), i + 1)
  <2>1. DOMAIN empty.specs = {} /\ i + 1 \in Nat
    BY <1>1, <1>2
  <2>. QED  BY <1>2, <1>5, <1>9, <2>1, AppendBelow
<1>13. CoversUpTo(Append(b, empty), i)
  BY <1>1, <1>2, <1>5, <1>10, AppendCovers DEF CoversUpTo
<1>. QED  BY <1>5, <1>6, <1>8, <1>9, <1>10, <1>11, <1>12, <1>13 DEF b, empty

-----------------------------------------------------------------------------
(* The invariant is inductive.                                             *)

\* No statements and no specs are a sound start.
LEMMA EmptyFacts ==
    /\ << >> \in Seq(Specs) /\ NoKeys(<< >>) /\ SplitIn(<< >>)
    /\ Sound(<< >>) /\ << >> \in Seq(Statements)
    /\ LET b == Append(<< >>, AlterTableStatement(<< >>))
       IN  Ordered(b) /\ \A n \in Nat : Below(b, n)
<1>1. << >> \in Seq(Specs) /\ << >> \in Seq(Statements) /\ DOMAIN << >> = {}
  OBVIOUS
<1>2. NoKeys(<< >>) /\ SplitIn(<< >>) /\ Sound(<< >>) /\ InOrder(<< >>) /\ Ordered(<< >>)
      /\ \A n : Below(<< >>, n)
  BY <1>1 DEF NoKeys, SplitIn, Sound, InOrder, Ordered, Below
<1>3. AlterTableStatement(<< >>) \in Statements /\ AlterTableStatement(<< >>).specs = << >>
  BY <1>1, SpecsTypes
<1>4. Ordered(Append(<< >>, AlterTableStatement(<< >>)))
  BY <1>1, <1>2, <1>3, AppendOrdered
<1>5. \A n \in Nat : Below(Append(<< >>, AlterTableStatement(<< >>)), n)
  BY <1>1, <1>2, <1>3, AppendBelow
<1>. QED  BY <1>1, <1>2, <1>4, <1>5

\* A statement that has not been parsed.
LEMMA InitIndInv == Init => IndInv
<1> SUFFICES ASSUME Init PROVE IndInv
  OBVIOUS
<1>1. << >> \in Seq(Clauses) /\ 1 \in 1 .. Len(<< >>) + 1
  OBVIOUS
<1>2. TypeOK
  BY <1>1, EmptyFacts DEF Init, TypeOK
<1>. QED  BY <1>2, EmptyFacts DEF Init, IndInv, Batch, CoversUpTo

\* markAlterTableExtensionSpecs changes conditions only.
LEMMA MarkedType ==
    ASSUME input \in Inputs
    PROVE  /\ input \in Seq(Clauses)
           /\ [k \in DOMAIN input |-> [input[k] EXCEPT !.conditional = Marked(k)]] \in Seq(Clauses)
<1>1. input \in Seq(Clauses)
  BY InputsAssumption
<1>2. \A k \in DOMAIN input : input[k] \in Clauses
  BY <1>1
<1>3. \A k \in DOMAIN input : Marked(k) \in BOOLEAN
  <2> TAKE k \in DOMAIN input
  <2>1. input[k].conditional \in BOOLEAN
    BY <1>2 DEF Clauses
  <2>2. Marked(k) = (k \in SpecIndexes(input[k].tp)) \/ Marked(k) = input[k].conditional
    BY DEF Marked
  <2>3. (k \in SpecIndexes(input[k].tp)) \in BOOLEAN
    OBVIOUS
  <2>. QED  BY <2>1, <2>2, <2>3
<1>4. \A c \in Clauses : \A b \in BOOLEAN : [c EXCEPT !.conditional = b] \in Clauses
  BY DEF Clauses
<1>5. \A k \in 1 .. Len(input) : [input[k] EXCEPT !.conditional = Marked(k)] \in Clauses
  BY <1>1, <1>2, <1>3, <1>4
<1>6. DOMAIN input = 1 .. Len(input) /\ Len(input) \in Nat
  BY <1>1
<1> DEFINE f(k) == [input[k] EXCEPT !.conditional = Marked(k)]
<1> HIDE DEF f
<1>7. \A k \in 1 .. Len(input) : f(k) \in Clauses
  BY <1>5 DEF f
<1>8. [k \in 1 .. Len(input) |-> f(k)] \in Seq(Clauses)
  BY <1>6, <1>7
<1>. QED  BY <1>1, <1>6, <1>8 DEF f

\* What every round of the loop has in common.
LEMMA ClauseFacts ==
    ASSUME TypeOK, NEW types, Clause(types)
    PROVE  /\ clauses[i] \in Clauses /\ clauses[i].tp \in types
           /\ i \in Nat \ {0} /\ i' = i + 1 /\ i' \in 1 .. Len(clauses) + 1 /\ i' - 1 = i
           /\ pc = "normalize" /\ pc' = pc /\ input' = input /\ clauses' = clauses
BY DEF TypeOK, Clause

\* Parsing and patching change the conditions only.
LEMMA ParseStep == IndInv /\ Parse => IndInv'
<1> SUFFICES ASSUME IndInv, Parse PROVE IndInv'
  OBVIOUS
<1>1. UNCHANGED <<input, i, specs, statements>> /\ pc = "parse" /\ specs = << >> /\ i = 1
  BY DEF Parse, IndInv, TypeOK
<1>2. Batch' = Batch
  BY <1>1 DEF Batch
<1>3. pc' \in {"normalize", "raw"} /\ clauses' \in Seq(Clauses)
  BY MarkedType DEF Parse, Raw, IndInv, TypeOK
<1>4. TypeOK'
  <2>1. i' \in 1 .. Len(clauses') + 1
    BY <1>1, <1>3
  <2>. QED  BY <1>1, <1>3, <2>1 DEF IndInv, TypeOK
<1>. QED  BY <1>1, <1>2, <1>3, <1>4 DEF IndInv, CoversUpTo

\* A statement is built on: what Continued says, and no key in it.
LEMMA ContinuedStep ==
    ASSUME IndInv, NEW types, Clause(types), NEW tt \in Seq(Specs), From(i, tt), Has(tt, KindsOf(clauses[i])),
           specs' = specs \o tt, UNCHANGED statements, NoKeys(specs'), SplitIn(specs')
    PROVE  IndInv'
<1>1. /\ clauses[i] \in Clauses /\ clauses[i].tp \in types
      /\ i \in Nat \ {0} /\ i' = i + 1 /\ i' \in 1 .. Len(clauses) + 1 /\ i' - 1 = i
      /\ pc = "normalize" /\ pc' = pc /\ input' = input /\ clauses' = clauses
  BY ClauseFacts DEF IndInv
<1>2. TypeOK'
  BY <1>1, ConcatFacts DEF IndInv, TypeOK
<1>3. Ordered(Batch') /\ Below(Batch', i + 1) /\ CoversUpTo(Batch', i)
  BY <1>1, Continued DEF Batch
<1>. QED  BY <1>1, <1>2, <1>3 DEF IndInv, CoversUpTo

\* A statement is added after what was flushed.
LEMMA OnItsOwnStep ==
    ASSUME IndInv, NEW types, Clause(types), NEW x \in Statements, From(i, x.specs),
           Len(x.specs) = 1, Has(x.specs, KindsOf(clauses[i])), statements' = Append(Flushed, x), specs' = << >>
    PROVE  IndInv'
<1>1. /\ clauses[i] \in Clauses /\ clauses[i].tp \in types
      /\ i \in Nat \ {0} /\ i' = i + 1 /\ i' \in 1 .. Len(clauses) + 1 /\ i' - 1 = i
      /\ pc = "normalize" /\ pc' = pc /\ input' = input /\ clauses' = clauses
  BY ClauseFacts DEF IndInv
<1>2. /\ statements' \in Seq(Statements) /\ Sound(statements')
      /\ Ordered(Batch') /\ Below(Batch', i + 1)
      /\ CoversUpTo(Batch', i)
  BY <1>1, OnItsOwn DEF Batch
<1>3. TypeOK'
  BY <1>1, <1>2, EmptyFacts DEF IndInv, TypeOK
<1>. QED  BY <1>1, <1>2, <1>3, EmptyFacts DEF IndInv, CoversUpTo

\* One spec as a sequence.
LEMMA SingleFacts ==
    ASSUME NEW x \in Specs
    PROVE  <<x>> \in Seq(Specs) /\ Len(<<x>>) = 1 /\ <<x>> # << >> /\ DOMAIN <<x>> = {1} /\ <<x>>[1] = x
OBVIOUS

\* Plain specs go on with the statement: no key, no further foreign key.
LEMMA AddInlineStep == IndInv /\ AddInline => IndInv'
<1> SUFFICES ASSUME IndInv, AddInline PROVE IndInv'
  OBVIOUS
<1>1. /\ Clause(Inline) /\ specs' = specs \o Expand(clauses[i], i) /\ UNCHANGED statements
      /\ clauses[i] \in Clauses /\ clauses[i].tp \in Inline /\ i \in Nat \ {0}
  BY ClauseFacts DEF AddInline, IndInv
<1> DEFINE tt == Expand(clauses[i], i)
<1>2. /\ tt \in Seq(Specs) /\ Has(tt, KindsOf(clauses[i])) /\ From(i, tt) /\ NoKeys(tt)
      /\ \A s \in DOMAIN tt : tt[s].kind # "add_foreign_key"
  BY <1>1, ExpandFacts
<1> HIDE DEF tt
<1>3. /\ Len(specs) \in Nat /\ DOMAIN specs = 1 .. Len(specs)
      /\ \A s \in DOMAIN specs : s \in DOMAIN (specs \o tt) /\ (specs \o tt)[s] = specs[s]
      /\ \A s \in DOMAIN (specs \o tt) :
             \/ s \in DOMAIN specs
             \/ /\ s > Len(specs) /\ s - Len(specs) \in DOMAIN tt
                /\ (specs \o tt)[s] = tt[s - Len(specs)]
      /\ DOMAIN (specs \o tt) \subseteq Nat
  BY <1>2, ConcatFacts DEF IndInv, TypeOK
<1>4. NoKeys(specs \o tt)
  BY <1>2, <1>3 DEF IndInv, NoKeys
<1>5. SplitIn(specs \o tt)
  <2> SUFFICES ASSUME NEW s \in DOMAIN (specs \o tt), NEW t \in DOMAIN (specs \o tt), s < t,
                      (specs \o tt)[s].kind = "add_column", (specs \o tt)[t].kind = "add_foreign_key",
                      NEW c \in (specs \o tt)[t].parts
               PROVE  \E r \in 1 .. t : (specs \o tt)[r].kind = "add_column" /\ (specs \o tt)[r].column = c
    BY DEF SplitIn
  <2>1. t \in DOMAIN specs /\ (specs \o tt)[t] = specs[t]
    BY <1>2, <1>3
  <2>2. s \in DOMAIN specs /\ (specs \o tt)[s] = specs[s]
    BY <1>3, <2>1
  <2>3. PICK r \in 1 .. t : specs[r].kind = "add_column" /\ specs[r].column = c
    BY <2>1, <2>2 DEF IndInv, SplitIn
  <2>4. r \in DOMAIN specs
    BY <1>3, <2>1
  <2>. QED  BY <1>3, <2>3, <2>4
<1>. QED  BY <1>1, <1>2, <1>4, <1>5, ContinuedStep DEF tt

\* A unique key is alone in its statement, after what was flushed.
LEMMA AddUniqueKeyStep == IndInv /\ AddUniqueKey => IndInv'
<1> SUFFICES ASSUME IndInv, AddUniqueKey PROVE IndInv'
  OBVIOUS
<1> DEFINE key == SpecOf("add_unique_key", clauses[i], i)
<1>1. /\ Clause({"add_unique_key"}) /\ specs' = << >>
      /\ statements' = Append(Flushed, AlterTableStatement(<<key>>))
      /\ clauses[i] \in Clauses /\ i \in Nat \ {0}
  BY ClauseFacts DEF AddUniqueKey, IndInv
<1>2. key \in Specs /\ key.of = i /\ KindsOf(clauses[i]) = {key.kind}
  <2>1. "add_unique_key" \in Kinds
    BY DEF Kinds, Types
  <2>2. KindsOf(clauses[i]) = {"add_unique_key"}
    BY ClauseFacts, <1>1 DEF KindsOf, Clause
  <2>. QED  BY <1>1, <2>1, <2>2, SpecOfType
<1> HIDE DEF key
<1> DEFINE x == AlterTableStatement(<<key>>)
<1>3. x \in Statements /\ x.specs = <<key>>
  BY <1>2, SingleFacts, SpecsTypes
<1> HIDE DEF x
<1>4. From(i, x.specs) /\ Len(x.specs) = 1 /\ Has(x.specs, KindsOf(clauses[i]))
  BY <1>2, <1>3, SingleFacts DEF From, Has
<1>. QED  BY <1>1, <1>3, <1>4, OnItsOwnStep DEF x

\* So is an index.
LEMMA AddOrDropIndexStep == IndInv /\ AddOrDropIndex => IndInv'
<1> SUFFICES ASSUME IndInv, AddOrDropIndex PROVE IndInv'
  OBVIOUS
<1> DEFINE index == SpecOf(clauses[i].tp, clauses[i], i)
           x == IndexStatement(clauses[i], i)
<1>1. /\ Clause(Indexes) /\ specs' = << >> /\ statements' = Append(Flushed, x)
      /\ clauses[i] \in Clauses /\ clauses[i].tp \in Indexes /\ i \in Nat \ {0}
  BY ClauseFacts DEF AddOrDropIndex, IndInv
<1>2. index \in Specs /\ index.of = i /\ KindsOf(clauses[i]) = {index.kind}
  <2>1. clauses[i].tp \in Kinds
    BY <1>1 DEF Kinds, Types
  <2>2. KindsOf(clauses[i]) = {clauses[i].tp}
    BY <1>1 DEF KindsOf, Indexes
  <2>. QED  BY <1>1, <2>1, <2>2, SpecOfType
<1>3. x.specs = <<index>> /\ x.op = clauses[i].tp
  BY DEF IndexStatement
<1>4. x \in Statements
  <2>1. x = [op |-> clauses[i].tp, specs |-> <<index>>]
    BY DEF IndexStatement
  <2>. QED  BY <1>1, <1>2, <2>1, SingleFacts DEF Statements
<1> HIDE DEF index, x
<1>5. From(i, x.specs) /\ Len(x.specs) = 1 /\ Has(x.specs, KindsOf(clauses[i]))
  BY <1>2, <1>3, SingleFacts DEF From, Has
<1>. QED  BY <1>1, <1>4, <1>5, OnItsOwnStep

\* A foreign key starts a statement, or its columns are added in this one.
LEMMA AddForeignKeyStep == IndInv /\ AddForeignKey => IndInv'
<1> SUFFICES ASSUME IndInv, AddForeignKey PROVE IndInv'
  OBVIOUS
<1> DEFINE key == SpecOf("add_foreign_key", clauses[i], i)
           split == ShouldSplitAlterTableBeforeAddForeignKey(clauses[i].parts)
<1>1. /\ Clause({"add_foreign_key"}) /\ clauses[i] \in Clauses /\ clauses[i].tp = "add_foreign_key"
      /\ i \in Nat \ {0} /\ i' = i + 1 /\ i' \in 1 .. Len(clauses) + 1 /\ i' - 1 = i
      /\ pc = "normalize" /\ pc' = pc /\ input' = input /\ clauses' = clauses
  BY ClauseFacts DEF AddForeignKey, IndInv
<1>2. \/ split /\ statements' = Flushed /\ specs' = <<key>>
      \/ ~split /\ specs' = Append(specs, key) /\ UNCHANGED statements
  BY DEF AddForeignKey
<1>3. key \in Specs /\ key.of = i /\ key.kind = "add_foreign_key" /\ key.parts = clauses[i].parts
  <2>1. "add_foreign_key" \in Kinds
    BY DEF Kinds, Types
  <2>. QED  BY <1>1, <2>1, SpecOfType
<1>4. key.kind \notin Indexes \cup {"add_unique_key"}
  BY <1>3 DEF Indexes
<1> HIDE DEF key, split
<1>5. From(i, <<key>>) /\ NoKeys(<<key>>) /\ SplitIn(<<key>>) /\ Has(<<key>>, KindsOf(clauses[i]))
  <2>1. KindsOf(clauses[i]) = {"add_foreign_key"}
    BY <1>1 DEF KindsOf
  <2>. QED  BY <1>3, <1>4, <2>1, SingleFacts DEF From, NoKeys, SplitIn, Has
<1>6. CASE split /\ statements' = Flushed /\ specs' = <<key>>
  <2> DEFINE x == AlterTableStatement(<<key>>)
  <2>1. x \in Statements /\ x.specs = <<key>>
    BY <1>3, SingleFacts, SpecsTypes
  <2>2. Batch' = Append(Flushed, x)
    BY <1>6 DEF Batch
  <2> HIDE DEF x
  <2>3. Ordered(Batch') /\ Below(Batch', i + 1) /\ CoversUpTo(Batch', i)
    <3>1. From(i, x.specs) /\ Len(x.specs) = 1 /\ Has(x.specs, KindsOf(clauses[i]))
      BY <1>3, <1>5, <2>1, SingleFacts
    <3>. QED  BY <1>1, <2>1, <2>2, <3>1, OnItsOwn
  <2>4. statements' \in Seq(Statements) /\ Sound(statements')
    BY <1>6, FlushedFacts
  <2>5. TypeOK'
    BY <1>1, <1>3, <1>6, <2>4, SingleFacts DEF IndInv, TypeOK
  <2>. QED  BY <1>1, <1>5, <1>6, <2>3, <2>4, <2>5 DEF IndInv, CoversUpTo
<1>7. CASE ~split /\ specs' = Append(specs, key) /\ UNCHANGED statements
  <2>1. specs \in Seq(Specs)
    BY DEF IndInv, TypeOK
  <2>2. specs' = specs \o <<key>>
    BY <1>3, <1>7, <2>1
  <2>3. /\ Len(specs) \in Nat /\ DOMAIN specs = 1 .. Len(specs)
        /\ DOMAIN specs' = 1 .. Len(specs) + 1
        /\ \A s \in DOMAIN specs : s \in DOMAIN specs' /\ specs'[s] = specs[s]
        /\ specs'[Len(specs) + 1] = key
    BY <1>3, <1>7, <2>1
  <2>4. NoKeys(specs')
    BY <1>4, <2>3 DEF IndInv, NoKeys
  <2>5. SplitIn(specs')
    <3> SUFFICES ASSUME NEW s \in DOMAIN specs', NEW t \in DOMAIN specs', s < t,
                        specs'[s].kind = "add_column", specs'[t].kind = "add_foreign_key",
                        NEW c \in specs'[t].parts
                 PROVE  \E r \in 1 .. t : specs'[r].kind = "add_column" /\ specs'[r].column = c
      BY DEF SplitIn
    <3>1. s \in DOMAIN specs /\ specs'[s] = specs[s]
      BY <2>3
    <3>2. CASE t \in DOMAIN specs
      <4>1. specs'[t] = specs[t]
        BY <2>3, <3>2
      <4>2. PICK r \in 1 .. t : specs[r].kind = "add_column" /\ specs[r].column = c
        BY <3>1, <3>2, <4>1 DEF IndInv, SplitIn
      <4>3. r \in DOMAIN specs
        BY <2>3, <3>2
      <4>. QED  BY <2>3, <4>2, <4>3
    <3>3. CASE t = Len(specs) + 1
      <4>1. c \in clauses[i].parts
        BY <1>3, <2>3, <3>3
      <4>2. specs[s].column \in AddedColumns
        BY <3>1 DEF AddedColumns
      <4>3. c \in AddedColumns
        BY <1>7, <4>1, <4>2 DEF split, ShouldSplitAlterTableBeforeAddForeignKey
      <4>4. PICK r \in DOMAIN specs : specs[r].kind = "add_column" /\ specs[r].column = c
        BY <4>3 DEF AddedColumns
      <4>. QED  BY <2>3, <3>3, <4>4
    <3>. QED  BY <2>3, <3>2, <3>3
  <2>. QED  BY <1>1, <1>3, <1>5, <1>7, <2>2, <2>4, <2>5, SingleFacts, ContinuedStep
<1>. QED  BY <1>2, <1>6, <1>7

\* The batch is dropped.
LEMMA FallBackStep == IndInv /\ FallBack => IndInv'
<1> SUFFICES ASSUME IndInv, FallBack PROVE IndInv'
  OBVIOUS
<1>1. pc' = "raw" /\ specs' = << >> /\ statements' = << >> /\ UNCHANGED <<input, clauses, i>>
  BY DEF FallBack, Raw
<1>2. Batch' = Append(<< >>, AlterTableStatement(<< >>)) /\ i \in Nat
  BY <1>1 DEF Batch, IndInv, TypeOK
<1>3. Ordered(Batch') /\ Below(Batch', i)
  BY <1>2, EmptyFacts
<1>4. TypeOK'
  BY <1>1, EmptyFacts DEF IndInv, TypeOK
<1>. QED  BY <1>1, <1>3, <1>4, EmptyFacts DEF IndInv

\* The last statement is flushed.
LEMMA FinishStep == IndInv /\ Finish => IndInv'
<1> SUFFICES ASSUME IndInv, Finish PROVE IndInv'
  OBVIOUS
<1> DEFINE empty == AlterTableStatement(<< >>)
<1>1. /\ pc = "normalize" /\ pc' = "batch" /\ statements' = Flushed /\ specs' = << >>
      /\ UNCHANGED <<input, clauses, i>> /\ i \in Nat
  BY DEF Finish, IndInv, TypeOK
<1>2. Batch' = Append(Flushed, empty)
  BY <1>1 DEF Batch
<1>3. empty \in Statements /\ empty.specs = << >> /\ DOMAIN << >> = {}
  <2>1. << >> \in Seq(Specs) /\ DOMAIN << >> = {}
    BY EmptyFacts
  <2>. QED  BY <2>1, SpecsTypes
<1> HIDE DEF empty
<1>4. /\ Flushed \in Seq(Statements)
      /\ Ordered(Flushed) /\ Below(Flushed, i) /\ Sound(Flushed)
      /\ \A k \in Nat : \A kind : Covers(Batch, k, kind) => Covers(Flushed, k, kind)
  BY FlushedFacts
<1>5. Ordered(Batch')
  BY <1>2, <1>3, <1>4, AppendOrdered DEF InOrder
<1>6. Below(Batch', i)
  BY <1>1, <1>2, <1>3, <1>4, AppendBelow
<1>7. CoversUpTo(Batch', i - 1)
  BY <1>1, <1>2, <1>3, <1>4, AppendCovers DEF IndInv, CoversUpTo
<1>8. TypeOK'
  BY <1>1, <1>4, EmptyFacts DEF IndInv, TypeOK
<1>. QED  BY <1>1, <1>4, <1>5, <1>6, <1>7, <1>8, EmptyFacts DEF IndInv, CoversUpTo

\* Every step preserves the invariant.
LEMMA NextIndInv == IndInv /\ [Next]_vars => IndInv'
<1> SUFFICES ASSUME IndInv, [Next]_vars PROVE IndInv'
  OBVIOUS
<1>1. CASE UNCHANGED vars
  BY <1>1 DEF vars, IndInv, TypeOK, Batch, CoversUpTo
<1>. QED
  BY <1>1, ParseStep, AddInlineStep, AddUniqueKeyStep, AddForeignKeyStep, AddOrDropIndexStep,
     FallBackStep, FinishStep DEF Next

\* While a batch is built from the clauses, it is ordered, covers what was read
\* and is sound.
THEOREM Inductive == Spec => []IndInv
<1>. QED  BY InitIndInv, NextIndInv, PTL DEF Spec

-----------------------------------------------------------------------------
(* What follows for every statement.                                       *)

\* The loop of normalizeTiDBAlterTable keeps its data well formed.
THEOREM TypeCorrect == Spec => []TypeOK
<1>1. IndInv => TypeOK
  BY DEF IndInv
<1>. QED  BY Inductive, <1>1, PTL

\* The split into statements never reorders the clauses.
THEOREM OrderIsKept == Spec => []OrderKept
<1>1. IndInv => OrderKept
  BY DEF IndInv, Ordered, InOrder, OrderKept
<1>. QED  BY Inductive, <1>1, PTL

\* Nothing that a clause read so far asks for is missing from the batch, whichever
\* of its neighbours made flushAlterTable cut the statement.
THEOREM NothingIsLost == Spec => []NothingLost
<1>1. IndInv => NothingLost
  BY DEF IndInv, CoversUpTo, NothingLost
<1>. QED  BY Inductive, <1>1, PTL

\* The statement being built is sound like those before it, but for being empty.
LEMMA BatchSound ==
    ASSUME IndInv
    PROVE  \A p \in DOMAIN Batch : AloneIn(Batch[p].specs) /\ SplitIn(Batch[p].specs)
<1>1. statements \in Seq(Statements) /\ specs \in Seq(Specs)
  BY DEF IndInv, TypeOK
<1>2. AlterTableStatement(specs) \in Statements /\ AlterTableStatement(specs).specs = specs
  BY <1>1, SpecsTypes
<1>3. AloneIn(specs) /\ SplitIn(specs)
  BY DEF IndInv, NoKeys, AloneIn
<1>. QED  BY <1>1, <1>2, <1>3, AppendFacts DEF IndInv, Sound, Batch

\* Indexes and unique keys never share a statement, as PostgreSQL needs.
THEOREM KeysAreAlone == Spec => []KeysAlone
<1>1. IndInv => KeysAlone
  BY BatchSound DEF KeysAlone
<1>. QED  BY Inductive, <1>1, PTL

\* flushAlterTable never emits an ALTER TABLE without specs.
THEOREM NoEmptyStatement == Spec => []StatementsNotEmpty
<1>1. IndInv => StatementsNotEmpty
  BY DEF IndInv, Sound, StatementsNotEmpty
<1>. QED  BY Inductive, <1>1, PTL

\* shouldSplitAlterTableBeforeAddForeignKey separates a foreign key from added
\* columns unless it is over them alone.
THEOREM ForeignKeysAreSplit == Spec => []ForeignKeysSplit
<1>1. IndInv => ForeignKeysSplit
  BY BatchSound DEF ForeignKeysSplit
<1>. QED  BY Inductive, <1>1, PTL

-----------------------------------------------------------------------------
(* The conditions.                                                         *)

\* A spec has the condition of the clause it comes from.
LEMMA SpecSays ==
    ASSUME IndInv, pc = "normalize", i <= Len(clauses), NEW kind \in Kinds,
           NEW x, x = SpecOf(kind, clauses[i], i)
    PROVE  /\ x \in Specs
           /\ x.kind \in ConditionalKinds => x.conditional = clauses[x.of].conditional
<1>1. clauses[i] \in Clauses /\ i \in Nat \ {0}
  BY DEF IndInv, TypeOK
<1>2. clauses[i].conditional \in BOOLEAN
  BY <1>1 DEF Clauses
<1>. QED  BY <1>1, <1>2, SpecOfType DEF SpecOf

\* So have the specs that a clause is expanded to.
LEMMA ExpandSays ==
    ASSUME IndInv, pc = "normalize", i <= Len(clauses), clauses[i].tp \in Inline
    PROVE  Expand(clauses[i], i) \in Seq(Specs) /\ SaidIn(Expand(clauses[i], i))
<1> DEFINE Q == {x \in Specs : x.kind \in ConditionalKinds => x.conditional = clauses[x.of].conditional}
           rename == SpecOf("rename_column", clauses[i], i)
           alter == SpecOf("alter_type", clauses[i], i)
           nullness == SpecOf("set_nullness", clauses[i], i)
           same == SpecOf(clauses[i].tp, clauses[i], i)
<1>1. rename \in Q /\ alter \in Q /\ nullness \in Q /\ same \in Q
  BY SpecSays, PlainKinds
<1>2. Expand(clauses[i], i) \in {<<rename>> \o <<alter, nullness>>, <<alter, nullness>>, <<same>>}
  BY DEF Expand, Mutation
<1>3. Expand(clauses[i], i) \in Seq(Q)
  <2> HIDE DEF rename, alter, nullness, same, Q
  <2>1. \A a, b \in Q : <<a>> \in Seq(Q) /\ <<a, b>> \in Seq(Q)
    OBVIOUS
  <2>2. \A a, b, c \in Q : <<a>> \o <<b, c>> \in Seq(Q)
    OBVIOUS
  <2>. QED  BY <1>1, <1>2, <2>1, <2>2
<1>4. \A s \in DOMAIN Expand(clauses[i], i) : Expand(clauses[i], i)[s] \in Q
  BY <1>3
<1>5. Q \subseteq Specs
  OBVIOUS
<1>. QED  BY <1>3, <1>4, <1>5 DEF SaidIn

\* Patching by place puts the conditions back where they were.
LEMMA ParseSays == IndInv /\ Parse => ConditionInv'
<1> SUFFICES ASSUME IndInv, Parse, pc' = "normalize" PROVE ConditionInv'
  BY DEF Parse, Raw, ConditionInv
<1>1. UNCHANGED <<input, specs, statements>> /\ specs = << >>
  BY DEF Parse, IndInv, TypeOK
<1>2. statements = << >>
  <2>1. i = 1 /\ statements \in Seq(Statements) /\ Sound(statements) /\ Below(Batch, 1)
        /\ AlterTableStatement(specs) \in Statements
    BY SpecsTypes DEF Parse, IndInv, TypeOK
  <2>2. Below(statements, 1)
    BY <2>1, AppendBelow DEF Batch
  <2>3. ASSUME statements # << >> PROVE FALSE
    <3>1. 1 \in DOMAIN statements
      BY <2>1, <2>3
    <3>2. statements[1].specs \in Seq(Specs) /\ statements[1].specs # << >>
      BY <2>1, <3>1, SpecsField DEF Sound
    <3>3. 1 \in DOMAIN statements[1].specs
      BY <3>2
    <3>4. statements[1].specs[1].of < 1 /\ statements[1].specs[1].of \in Nat \ {0}
      BY <2>2, <3>1, <3>2, <3>3, SpecsTypes DEF Below
    <3>. QED  BY <3>4
  <2>. QED  BY <2>3
<1>3. input \in Seq(Clauses)
  BY InputsAssumption DEF IndInv, TypeOK
<1>4. Aligned => \A k \in DOMAIN input : Marked(k) = input[k].conditional
  <2> SUFFICES ASSUME Aligned, NEW k \in DOMAIN input PROVE Marked(k) = input[k].conditional
    OBVIOUS
  <2>1. input[k].conditional \in BOOLEAN
    <3>1. input[k] \in Clauses
      BY <1>3
    <3>. QED  BY <3>1 DEF Clauses
  <2>2. \A tp : k \in SpecIndexes(tp) <=> input[k].conditional /\ input[k].tp = tp
    BY DEF SpecIndexes, Aligned
  <2>. QED  BY <2>1, <2>2 DEF Marked
<1>5. /\ Len(clauses') = Len(input)
      /\ Aligned => \A k \in DOMAIN input : clauses'[k].conditional = input[k].conditional
  <2>1. CASE clauses' = input
    BY <2>1
  <2>2. CASE clauses' = [k \in DOMAIN input |-> [input[k] EXCEPT !.conditional = Marked(k)]]
    <3>1. \A k \in DOMAIN input : input[k] \in Clauses
      BY <1>3
    <3>2. \A k \in DOMAIN input : clauses'[k].conditional = Marked(k)
      BY <2>2, <3>1 DEF Clauses
    <3>3. DOMAIN clauses' = 1 .. Len(input) /\ clauses' \in Seq(Clauses) /\ Len(input) \in Nat
      BY <1>3, <2>2, MarkedType DEF IndInv, TypeOK
    <3>4. Len(clauses') = Len(input)
      BY <3>3
    <3>. QED  BY <1>4, <3>2, <3>4
  <2>. QED  BY <2>1, <2>2 DEF Parse, Raw
<1>6. Aligned' <=> Aligned
  BY <1>1 DEF Aligned, Piece
<1>7. DOMAIN << >> = {}
  BY EmptyFacts
<1>. QED  BY <1>1, <1>2, <1>5, <1>6, <1>7 DEF ConditionInv, SaidIn

\* The loop passes the conditions on with the specs.
LEMMA LoopSays ==
    ASSUME IndInv, ConditionInv, pc = "normalize", pc' \in {"normalize", "batch"},
           UNCHANGED <<input, clauses>>, SaidIn(specs'),
           \/ UNCHANGED statements
           \/ statements' = Flushed
           \/ \E x \in Statements : SaidIn(x.specs) /\ statements' = Append(Flushed, x)
    PROVE  ConditionInv'
<1>1. statements \in Seq(Statements) /\ specs \in Seq(Specs)
  BY DEF IndInv, TypeOK
<1>2. Flushed \in Seq(Statements) /\ \A p \in DOMAIN Flushed : SaidIn(Flushed[p].specs)
  <2>1. AlterTableStatement(specs) \in Statements /\ AlterTableStatement(specs).specs = specs
    BY <1>1, SpecsTypes
  <2>. QED  BY <1>1, <2>1, AppendFacts DEF Flushed, ConditionInv
<1>3. \A p \in DOMAIN statements' : SaidIn(statements'[p].specs)
  BY <1>2, AppendFacts DEF ConditionInv
<1>4. Aligned' <=> Aligned
  BY DEF Aligned, Piece
<1>5. /\ SaidIn(specs') => SaidIn(specs)'
      /\ (\A p \in DOMAIN statements' : SaidIn(statements'[p].specs)) =>
             (\A p \in DOMAIN statements : SaidIn(statements[p].specs))'
  BY DEF SaidIn
<1>. QED  BY <1>3, <1>4, <1>5 DEF ConditionInv

\* Every step does.
LEMMA NextSays == IndInv /\ ConditionInv /\ [Next]_vars => ConditionInv'
<1> SUFFICES ASSUME IndInv, ConditionInv, [Next]_vars PROVE ConditionInv'
  OBVIOUS
<1>1. specs \in Seq(Specs) /\ i \in Nat /\ (pc = "normalize" => SaidIn(specs))
  BY DEF IndInv, TypeOK, ConditionInv
<1>2. CASE UNCHANGED vars
  <2>1. /\ pc' = pc /\ clauses' = clauses /\ input' = input /\ specs' = specs /\ statements' = statements
        /\ (Aligned' <=> Aligned)
    BY <1>2 DEF vars, Aligned, Piece
  <2>2. SaidIn(specs)' <=> SaidIn(specs)
    BY <2>1 DEF SaidIn
  <2>3. (\A p \in DOMAIN statements : SaidIn(statements[p].specs))'
            <=> \A p \in DOMAIN statements : SaidIn(statements[p].specs)
    BY <2>1 DEF SaidIn
  <2>. QED  BY <2>1, <2>2, <2>3 DEF ConditionInv
<1>3. CASE Parse
  BY <1>3, ParseSays
<1>4. CASE AddInline
  <2>1. /\ pc = "normalize" /\ i <= Len(clauses) /\ clauses[i].tp \in Inline
        /\ specs' = specs \o Expand(clauses[i], i) /\ UNCHANGED <<statements, input, clauses, pc>>
    BY <1>4 DEF AddInline, Clause
  <2> DEFINE tt == Expand(clauses[i], i)
  <2>2. tt \in Seq(Specs) /\ SaidIn(tt)
    BY <2>1, ExpandSays
  <2> HIDE DEF tt
  <2>3. SaidIn(specs \o tt)
    <3>1. \A s \in DOMAIN (specs \o tt) :
              \/ s \in DOMAIN specs /\ (specs \o tt)[s] = specs[s]
              \/ s - Len(specs) \in DOMAIN tt /\ (specs \o tt)[s] = tt[s - Len(specs)]
      BY <1>1, <2>2, ConcatFacts
    <3>. QED  BY <1>1, <2>1, <2>2, <3>1 DEF SaidIn
  <2>. QED  BY <2>1, <2>3, LoopSays DEF tt
<1>5. ASSUME NEW types, Clause(types)
      PROVE  /\ pc = "normalize" /\ i <= Len(clauses) /\ clauses[i] \in Clauses /\ clauses[i].tp \in types
             /\ UNCHANGED <<input, clauses, pc>>
  BY <1>5, ClauseFacts DEF Clause, IndInv
<1>6. \A x : (x.kind \in ConditionalKinds => x.conditional = clauses[x.of].conditional) => SaidIn(<<x>>)
  <2> TAKE x
  <2>1. DOMAIN <<x>> = {1} /\ <<x>>[1] = x
    OBVIOUS
  <2>. QED  BY <2>1 DEF SaidIn
<1>7. SaidIn(<< >>)
  <2>1. DOMAIN << >> = {}
    BY EmptyFacts
  <2>. QED  BY <2>1 DEF SaidIn
<1>8. CASE AddUniqueKey
  <2> DEFINE key == SpecOf("add_unique_key", clauses[i], i)
  <2>1. /\ pc = "normalize" /\ i <= Len(clauses) /\ UNCHANGED <<input, clauses, pc>>
        /\ specs' = << >> /\ statements' = Append(Flushed, AlterTableStatement(<<key>>))
    BY <1>5, <1>8 DEF AddUniqueKey
  <2>2. "add_unique_key" \in Kinds
    BY DEF Kinds, Types
  <2>3. key \in Specs /\ SaidIn(<<key>>)
    BY <1>6, <2>1, <2>2, SpecSays
  <2> HIDE DEF key
  <2>4. AlterTableStatement(<<key>>) \in Statements /\ AlterTableStatement(<<key>>).specs = <<key>>
    BY <2>3, SingleFacts, SpecsTypes
  <2>. QED  BY <1>7, <2>1, <2>3, <2>4, LoopSays
<1>9. CASE AddOrDropIndex
  <2> DEFINE index == SpecOf(clauses[i].tp, clauses[i], i)
             x == IndexStatement(clauses[i], i)
  <2>1. /\ pc = "normalize" /\ i <= Len(clauses) /\ UNCHANGED <<input, clauses, pc>>
        /\ clauses[i].tp \in Indexes /\ specs' = << >> /\ statements' = Append(Flushed, x)
    BY <1>5, <1>9 DEF AddOrDropIndex
  <2>2. clauses[i].tp \in Kinds
    BY <2>1 DEF Kinds, Types
  <2>3. index \in Specs /\ SaidIn(<<index>>)
    BY <1>6, <2>1, <2>2, SpecSays
  <2>4. x = [op |-> clauses[i].tp, specs |-> <<index>>]
    BY DEF IndexStatement
  <2> HIDE DEF index, x
  <2>5. x \in Statements /\ x.specs = <<index>>
    BY <2>1, <2>3, <2>4, SingleFacts DEF Statements
  <2>. QED  BY <1>7, <2>1, <2>3, <2>5, LoopSays
<1>10. CASE AddForeignKey
  <2> DEFINE key == SpecOf("add_foreign_key", clauses[i], i)
  <2>1. /\ pc = "normalize" /\ i <= Len(clauses) /\ UNCHANGED <<input, clauses, pc>>
        /\ \/ statements' = Flushed /\ specs' = <<key>>
           \/ UNCHANGED statements /\ specs' = Append(specs, key)
    BY <1>5, <1>10 DEF AddForeignKey
  <2>2. "add_foreign_key" \in Kinds
    BY DEF Kinds, Types
  <2>3. key \in Specs /\ SaidIn(<<key>>) /\ (key.kind \in ConditionalKinds => key.conditional = clauses[key.of].conditional)
    BY <1>6, <2>1, <2>2, SpecSays
  <2> HIDE DEF key
  <2>4. SaidIn(Append(specs, key))
    <3>1. \A s \in DOMAIN Append(specs, key) :
              \/ s \in DOMAIN specs /\ Append(specs, key)[s] = specs[s]
              \/ Append(specs, key)[s] = key
      BY <1>1, <2>3
    <3>. QED  BY <1>1, <2>1, <2>3, <3>1 DEF SaidIn
  <2>. QED  BY <2>1, <2>3, <2>4, LoopSays
<1>11. CASE FallBack
  BY <1>11 DEF FallBack, Raw, ConditionInv
<1>12. CASE Finish
  <2>1. /\ pc = "normalize" /\ pc' = "batch" /\ UNCHANGED <<input, clauses>>
        /\ specs' = << >> /\ statements' = Flushed
    BY <1>12 DEF Finish
  <2>. QED  BY <1>7, <2>1, LoopSays
<1>. QED
  BY <1>2, <1>3, <1>4, <1>8, <1>9, <1>10, <1>11, <1>12 DEF Next

\* IF EXISTS and IF NOT EXISTS are neither lost nor given to a neighbour, however
\* the clauses are split into statements.
THEOREM ConditionsAreKept == Spec => []ConditionKept
<1>1. Init => ConditionInv
  BY DEF Init, ConditionInv
<1>2. IndInv /\ ConditionInv => ConditionKept
  <2> SUFFICES ASSUME IndInv, ConditionInv, Aligned, pc = "batch",
                      NEW p \in DOMAIN statements, NEW s \in DOMAIN statements[p].specs,
                      statements[p].specs[s].kind \in ConditionalKinds
               PROVE  statements[p].specs[s].conditional = input[statements[p].specs[s].of].conditional
    BY DEF ConditionKept, ConditionKeptBy
  <2> DEFINE k == statements[p].specs[s].of
  <2>1. statements[p].specs[s].conditional = clauses[k].conditional
    BY DEF ConditionInv, SaidIn
  <2>2. k \in Nat \ {0} /\ k < i
    <3>1. /\ statements \in Seq(Statements) /\ specs \in Seq(Specs) /\ i \in Nat /\ Below(Batch, i)
          /\ AlterTableStatement(specs) \in Statements
      BY SpecsTypes DEF IndInv, TypeOK
    <3>2. statements[p].specs \in Seq(Specs)
      BY <3>1, SpecsField
    <3>. QED  BY <3>1, <3>2, AppendBelow, SpecsTypes DEF Batch, Below
  <2>3. k \in DOMAIN input
    <3>1. i \in 1 .. Len(clauses) + 1 /\ clauses \in Seq(Clauses) /\ input \in Seq(Clauses)
      BY InputsAssumption DEF IndInv, TypeOK
    <3>2. Len(clauses) = Len(input)
      BY DEF ConditionInv
    <3>. QED  BY <2>2, <3>1, <3>2
  <2>. QED  BY <2>1, <2>3 DEF ConditionInv
<1>. QED  BY Inductive, NextSays, <1>1, <1>2, PTL DEF Spec
=============================================================================
