---------------------------- MODULE SchemaProof ----------------------------
(***************************************************************************)
(* After any sequence of portable statements the PostgreSQL has the schema *)
(* of the MySQL, for any statements, any number of them and any number of  *)
(* lost connections. First come facts about the operators of Schema: what  *)
(* a rename or a command leaves of the tables, the commands of each        *)
(* statement, and what every command makes of a database.                  *)
(***************************************************************************)
EXTENDS SchemaInv, FiniteSetTheorems, WellFoundedInduction, TLAPS

-----------------------------------------------------------------------------
(* Functions, records and sequences.                                       *)

LEMMA LeastPlace ==
    ASSUME NEW T, T \subseteq Nat, T # {}
    PROVE  \E n \in T : \A m \in T : n <= m
<1>1. IsWellFoundedOn(OpToRel(<, Nat), Nat)
  BY NatLessThanWellFounded
<1>2. PICK n \in T : \A m \in T : <<m, n>> \notin OpToRel(<, Nat)
  BY <1>1, WFMin
<1>3. \A m \in T : ~(m < n)
  BY <1>2 DEF OpToRel
<1>. QED
  BY <1>3

LEMMA AppendInjective ==
    ASSUME NEW X, NEW x \in Seq(X), NEW y \in Seq(X), NEW a \in X, NEW b \in X, Append(x, a) = Append(y, b)
    PROVE  x = y /\ a = b
<1>1. /\ Len(Append(x, a)) = Len(x) + 1 /\ Len(Append(y, b)) = Len(y) + 1
      /\ Append(x, a)[Len(x) + 1] = a /\ Append(y, b)[Len(y) + 1] = b
      /\ \A k \in 1..Len(x) : Append(x, a)[k] = x[k]
      /\ \A k \in 1..Len(y) : Append(y, b)[k] = y[k]
  OBVIOUS
<1>2. Len(x) = Len(y)
  BY <1>1
<1>. QED
  BY <1>1, <1>2

LEMMA ExceptDb ==
    ASSUME NEW d, d = Db(d.tables, d.indexes, d.functions, d.triggers), NEW x
    PROVE  /\ [d EXCEPT !.tables = x] = Db(x, d.indexes, d.functions, d.triggers)
           /\ [d EXCEPT !.indexes = x] = Db(d.tables, x, d.functions, d.triggers)
           /\ [d EXCEPT !.functions = x] = Db(d.tables, d.indexes, x, d.triggers)
           /\ [d EXCEPT !.triggers = x] = Db(d.tables, d.indexes, d.functions, x)
<1>. DEFINE a == d.tables  b == d.indexes  f == d.functions  g == d.triggers
<1>1. d = Db(a, b, f, g)
  OBVIOUS
<1>. HIDE DEF a, b, f, g
<1>2. /\ [d EXCEPT !.tables = x] = Db(x, b, f, g) /\ [d EXCEPT !.indexes = x] = Db(a, x, f, g)
      /\ [d EXCEPT !.functions = x] = Db(a, b, x, g) /\ [d EXCEPT !.triggers = x] = Db(a, b, f, x)
  BY <1>1 DEF Db
<1>. QED
  BY <1>2 DEF a, b, f, g

LEMMA DbFields ==
    ASSUME NEW a, NEW b, NEW f, NEW g
    PROVE  /\ Db(a, b, f, g).tables = a /\ Db(a, b, f, g).indexes = b
           /\ Db(a, b, f, g).functions = f /\ Db(a, b, f, g).triggers = g
  BY DEF Db

Replaced(f, old, new) == [y \in (DOMAIN f \ {old}) \cup {new} |-> IF y = new THEN f[old] ELSE f[y]]

LEMMA MovedIs ==
    ASSUME NEW f, NEW old, NEW new, old \in DOMAIN f, new \notin DOMAIN f
    PROVE  Moved(f, old, new) = Replaced(f, old, new)
<1>1. Moved(f, old, new) = With(Without(f, old), new, f[old])
  BY DEF Moved
<1>. DEFINE w == Without(f, old)
<1>2. DOMAIN w = DOMAIN f \ {old} /\ \A y \in DOMAIN f : y # old => w[y] = f[y]
  BY DEF Without, Restrict
<1>. HIDE DEF w
<1>3. With(w, new, f[old]) = Replaced(f, old, new)
  BY <1>2 DEF With, Replaced
<1>. QED
  BY <1>1, <1>3 DEF w

-----------------------------------------------------------------------------
(* The tables of the MySQL.                                                *)

LEMMA RenamingWalk ==
    ASSUME NEW tables, NEW pairs, Len(pairs) \in Nat
    PROVE  Renaming(tables, pairs) = [k \in 0..Len(pairs) |->
                IF k = 0 THEN tables ELSE Moved(Renaming(tables, pairs)[k - 1], pairs[k].old, pairs[k].new)]
<1>. DEFINE Next1(x, k) == Moved(x, pairs[k].old, pairs[k].new)
            Walk(s, n) == s = [k \in 0..n |-> IF k = 0 THEN tables ELSE Next1(s[k - 1], k)]
            T == {n \in Nat : ~ \E s : Walk(s, n)}
<1>1. T = {}
  <2>. HIDE DEF Next1
  <2>. SUFFICES ASSUME T # {} PROVE FALSE
    OBVIOUS
  <2>1. PICK n \in T : \A m \in T : n <= m
    BY LeastPlace
  <2>2. n # 0
    <3>1. Walk([k \in 0..0 |-> tables], 0)
      OBVIOUS
    <3>. QED
      BY <3>1
  <2>3. n - 1 \in Nat /\ n - 1 \notin T /\ n \in Nat
    <3>1. n \in Nat /\ \A m \in T : n <= m
      BY <2>1
    <3>. HIDE DEF T
    <3>. QED
      BY <2>2, <3>1
  <2>4. PICK s : Walk(s, n - 1)
    BY <2>3
  <2>. DEFINE t == [k \in 0..n |-> IF k = n THEN Next1(s[n - 1], n) ELSE s[k]]
  <2>5. Walk(t, n)
    <3>1. \A k \in 0..n : k # n => t[k] = IF k = 0 THEN tables ELSE Next1(t[k - 1], k)
      BY <2>3, <2>4
    <3>2. t[n] = Next1(t[n - 1], n)
      BY <2>2, <2>3
    <3>. QED
      BY <3>1, <3>2, <2>2
  <2>. QED
    BY <2>1, <2>5
<1>2. \E s : Walk(s, Len(pairs))
  BY <1>1
<1>3. Renaming(tables, pairs) = CHOOSE s : Walk(s, Len(pairs))
  BY DEF Renaming
<1>. QED
  BY <1>2, <1>3

\* One pair after the other.
LEMMA RenamingStep ==
    ASSUME NEW tables, NEW pairs \in Seq(Pairs)
    PROVE  /\ Renaming(tables, pairs)[0] = tables
           /\ \A k \in DOMAIN pairs :
                 Renaming(tables, pairs)[k] = Moved(Renaming(tables, pairs)[k - 1], pairs[k].old, pairs[k].new)
<1>. DEFINE r == Renaming(tables, pairs)  n == Len(pairs)
<1>1. n \in Nat /\ DOMAIN pairs = 1..n
  OBVIOUS
<1>2. r = [k \in 0..n |-> IF k = 0 THEN tables ELSE Moved(r[k - 1], pairs[k].old, pairs[k].new)]
  BY <1>1, RenamingWalk
<1>. HIDE DEF r, n
<1>3. r[0] = tables /\ \A k \in 1..n : r[k] = Moved(r[k - 1], pairs[k].old, pairs[k].new)
  BY <1>1, <1>2
<1>. QED
  BY <1>1, <1>3 DEF r

LEMMA TablesWith ==
    ASSUME NEW S, IsTables(S), NEW t \in Names, NEW x, IsTable(x)
    PROVE  IsTables(With(S, t, x))
<1>. DEFINE w == With(S, t, x)
<1>1. /\ DOMAIN w = DOMAIN S \cup {t} /\ w[t] = x /\ \A y \in DOMAIN S : y # t => w[y] = S[y]
      /\ IsFunction(w)
  BY DEF With, IsFunction
<1>. HIDE DEF w
<1>2. DOMAIN w \subseteq Names /\ \A y \in DOMAIN w : IsTable(w[y])
  BY <1>1 DEF IsTables
<1>. QED
  BY <1>1, <1>2 DEF IsTables, w

LEMMA TablesMoved ==
    ASSUME NEW S, IsTables(S), NEW old \in DOMAIN S, NEW new \in Names, new \notin DOMAIN S
    PROVE  IsTables(Moved(S, old, new))
<1>. DEFINE w == Moved(S, old, new)
<1>0. w = Replaced(S, old, new)
  BY MovedIs
<1>. HIDE DEF w
<1>1. /\ DOMAIN w = (DOMAIN S \ {old}) \cup {new} /\ w[new] = S[old]
      /\ \A y \in DOMAIN S : y # old => w[y] = S[y]
      /\ IsFunction(w)
  BY <1>0 DEF IsFunction, Replaced
<1>2. DOMAIN w \subseteq Names /\ \A y \in DOMAIN w : IsTable(w[y])
  BY <1>1 DEF IsTables
<1>. QED
  BY <1>1, <1>2 DEF IsTables, w

\* What holds first and is kept by each pair holds after any number of them.
LEMMA TablesRenamed ==
    ASSUME NEW S, IsTables(S), NEW pairs \in Seq(Pairs), CanRename(S, pairs),
           NEW n \in 0..Len(pairs)
    PROVE  IsTables(Renaming(S, pairs)[n])
<1>. DEFINE r == Renaming(S, pairs)
            T == {k \in Nat : k <= Len(pairs) /\ ~IsTables(r[k])}
<1>1. Len(pairs) \in Nat /\ DOMAIN pairs = 1..Len(pairs)
  OBVIOUS
<1>6. \A k \in DOMAIN pairs : pairs[k].old \in Names /\ pairs[k].new \in Names
  <2>1. \A k \in DOMAIN pairs : pairs[k] \in Pairs
    OBVIOUS
  <2>. QED
    BY <2>1 DEF Pairs
<1>2. r[0] = S /\ \A k \in DOMAIN pairs : r[k] = Moved(r[k - 1], pairs[k].old, pairs[k].new)
  BY RenamingStep
<1>3. \A k \in DOMAIN pairs : pairs[k].old \in DOMAIN r[k - 1] /\ pairs[k].new \notin DOMAIN r[k - 1]
  BY DEF CanRename
<1>. HIDE DEF r
<1>4. T = {}
  <2>. SUFFICES ASSUME T # {} PROVE FALSE
    OBVIOUS
  <2>1. PICK k \in T : \A m \in T : k <= m
    BY LeastPlace
  <2>2. k \in DOMAIN pairs /\ k - 1 \in Nat /\ k - 1 <= Len(pairs) /\ ~IsTables(r[k])
    BY <1>1, <1>2, <2>1
  <2>3. k - 1 \notin T
    <3>1. k \in Nat /\ \A m \in T : k <= m
      BY <2>1
    <3>. HIDE DEF T
    <3>. QED
      BY <2>2, <3>1
  <2>4. IsTables(r[k - 1])
    BY <2>2, <2>3
  <2>5. IsTables(Moved(r[k - 1], pairs[k].old, pairs[k].new))
    BY <1>3, <1>6, <2>2, <2>4, TablesMoved
  <2>. QED
    BY <1>2, <2>2, <2>5
<1>5. IsTables(r[n])
  BY <1>1, <1>4
<1>. QED
  BY <1>5 DEF r

-----------------------------------------------------------------------------
(* The commands of a statement.                                            *)

Flatten(f, ss, n) == f = [i \in 1..n |-> IF i = 1 THEN ss[i] ELSE f[i - 1] \o ss[i]]

LEMMA FlattenExists ==
    ASSUME NEW ss, NEW n \in Nat
    PROVE  \E f : Flatten(f, ss, n)
<1>. DEFINE Step(x, i) == x \o ss[i]
            Walk(f, m) == f = [i \in 1..m |-> IF i = 1 THEN ss[i] ELSE Step(f[i - 1], i)]
            T == {m \in Nat : ~ \E f : Walk(f, m)}
<1>1. T = {}
  <2>. HIDE DEF Step
  <2>. SUFFICES ASSUME T # {} PROVE FALSE
    OBVIOUS
  <2>1. PICK m \in T : \A k \in T : m <= k
    BY LeastPlace
  <2>2. m # 0
    <3>1. Walk([i \in 1..0 |-> 0], 0)
      OBVIOUS
    <3>. QED
      BY <3>1
  <2>3. m - 1 \in Nat /\ m - 1 \notin T /\ m \in Nat
    <3>1. m \in Nat /\ \A k \in T : m <= k
      BY <2>1
    <3>. HIDE DEF T
    <3>. QED
      BY <2>2, <3>1
  <2>4. PICK f : Walk(f, m - 1)
    BY <2>3
  <2>. DEFINE t == [i \in 1..m |-> IF i = m THEN (IF m = 1 THEN ss[m] ELSE Step(f[m - 1], m)) ELSE f[i]]
  <2>5. Walk(t, m)
    <3>1. \A i \in 1..m : i # m => t[i] = IF i = 1 THEN ss[i] ELSE Step(t[i - 1], i)
      BY <2>3, <2>4
    <3>2. t[m] = IF m = 1 THEN ss[m] ELSE Step(t[m - 1], m)
      BY <2>2, <2>3
    <3>. QED
      BY <3>1, <3>2, <2>2
  <2>. QED
    BY <2>1, <2>5
<1>. QED
  BY <1>1 DEF Flatten

LEMMA ConcatType ==
    ASSUME NEW X, NEW a \in Seq(X), NEW b \in Seq(X)
    PROVE  a \o b \in Seq(X)
  OBVIOUS

LEMMA ConcatLen ==
    ASSUME NEW X, NEW a \in Seq(X), NEW b \in Seq(X)
    PROVE  Len(a \o b) = Len(a) + Len(b)
  OBVIOUS

LEMMA ConcatFirst ==
    ASSUME NEW X, NEW a \in Seq(X), NEW b \in Seq(X)
    PROVE  \A k \in 1..Len(a) : (a \o b)[k] = a[k]
  OBVIOUS

LEMMA ConcatSecond ==
    ASSUME NEW X, NEW a \in Seq(X), NEW b \in Seq(X)
    PROVE  \A k \in 1..Len(b) : (a \o b)[Len(a) + k] = b[k]
  OBVIOUS

\* Three commands after three commands.
LEMMA FlattenThrees ==
    ASSUME NEW X, NEW n \in Nat, NEW ss \in [1..n -> Seq(X)], \A k \in 1..n : Len(ss[k]) = 3
    PROVE  /\ FlattenSeq(ss) \in Seq(X)
           /\ Len(FlattenSeq(ss)) = 3 * n
           /\ \A k \in 1..n, r \in 1..3 : FlattenSeq(ss)[3 * (k - 1) + r] = ss[k][r]
<1>1. Len(ss) = n
  OBVIOUS
<1>2. CASE n = 0
  BY <1>1, <1>2 DEF FlattenSeq
<1>3. CASE n # 0
  <2>1. PICK f : f = CHOOSE g : Flatten(g, ss, n)
    OBVIOUS
  <2>2. FlattenSeq(ss) = f[n]
    BY <1>1, <1>3, <2>1 DEF FlattenSeq, Flatten
  <2>3. Flatten(f, ss, n)
    BY <2>1, FlattenExists
  <2>4. \A i \in 1..n : f[i] = IF i = 1 THEN ss[i] ELSE f[i - 1] \o ss[i]
    BY <2>3 DEF Flatten
  <2>. DEFINE Good(i) == /\ f[i] \in Seq(X) /\ Len(f[i]) = 3 * i
                         /\ \A k \in 1..i, r \in 1..3 : f[i][3 * (k - 1) + r] = ss[k][r]
              T == {i \in Nat : i \in 1..n /\ ~Good(i)}
  <2>5. Good(1)
    <3>1. f[1] = ss[1] /\ ss[1] \in Seq(X) /\ Len(ss[1]) = 3
      BY <1>3, <2>4
    <3>. QED
      BY <3>1
  <2>6. \A i \in 2..n : Good(i - 1) => Good(i)
    <3>. SUFFICES ASSUME NEW i \in 2..n, Good(i - 1) PROVE Good(i)
      OBVIOUS
    <3>. DEFINE a == f[i - 1]  b == ss[i]
    <3>1. f[i] = a \o b
      <4>1. i \in 1..n /\ i # 1
        OBVIOUS
      <4>. QED
        BY <2>4, <4>1
    <3>2. a \in Seq(X) /\ Len(a) = 3 * (i - 1) /\ b \in Seq(X) /\ Len(b) = 3
      OBVIOUS
    <3>3. \A k \in 1..(i - 1), r \in 1..3 : a[3 * (k - 1) + r] = ss[k][r]
      OBVIOUS
    <3>. HIDE DEF a, b
    <3>. DEFINE c == a \o b  m == Len(a)
    <3>6. /\ c \in Seq(X) /\ Len(c) = m + Len(b)
          /\ \A k \in 1..m : c[k] = a[k]
          /\ \A k \in 1..Len(b) : c[m + k] = b[k]
      <4>5. a \in Seq(X) /\ b \in Seq(X)
        BY <3>2
      <4>1. c \in Seq(X)
        BY <4>5, ConcatType
      <4>2. Len(c) = m + Len(b)
        BY <4>5, ConcatLen
      <4>3. \A k \in 1..m : c[k] = a[k]
        BY <4>5, ConcatFirst
      <4>4. \A k \in 1..Len(b) : c[m + k] = b[k]
        BY <4>5, ConcatSecond
      <4>. QED
        BY <4>1, <4>2, <4>3, <4>4
    <3>7. m = 3 * (i - 1)
      BY <3>2
    <3>. HIDE DEF c, m
    <3>4. c \in Seq(X) /\ Len(c) = 3 * i
      BY <3>2, <3>6, <3>7
    <3>5. \A k \in 1..i, r \in 1..3 : c[3 * (k - 1) + r] = ss[k][r]
      <4>. SUFFICES ASSUME NEW k \in 1..i, NEW r \in 1..3
                    PROVE  c[3 * (k - 1) + r] = ss[k][r]
        OBVIOUS
      <4>1. CASE k < i
        <5>1. k \in 1..(i - 1) /\ 3 * (k - 1) + r \in 1..m
          BY <3>7, <4>1
        <5>. QED
          BY <3>3, <3>6, <5>1
      <4>2. CASE k = i
        <5>1. 3 * (k - 1) + r = m + r
          BY <3>7, <4>2
        <5>2. c[m + r] = b[r]
          BY <3>2, <3>6
        <5>. QED
          BY <4>2, <5>1, <5>2 DEF b
      <4>. QED
        BY <4>1, <4>2
    <3>8. f[i] = c
      BY <3>1 DEF c
    <3>. QED
      BY <3>4, <3>5, <3>8
  <2>. HIDE DEF Good
  <2>7. T = {}
    <3>. SUFFICES ASSUME T # {} PROVE FALSE
      OBVIOUS
    <3>1. PICK i \in T : \A m \in T : i <= m
      BY LeastPlace
    <3>2. i \in 1..n /\ i # 1 /\ ~Good(i)
      BY <2>5, <3>1
    <3>3. i - 1 \in 1..n /\ i \in 2..n /\ i - 1 \in Nat
      BY <3>2
    <3>4. i - 1 \notin T
      <4>1. i \in Nat /\ \A m \in T : i <= m
        BY <3>1
      <4>. HIDE DEF T
      <4>. QED
        BY <4>1
    <3>. QED
      BY <2>6, <3>2, <3>3, <3>4
  <2>8. Good(n)
    BY <1>3, <2>7
  <2>. QED
    BY <2>2, <2>8 DEF Good
<1>. QED
  BY <1>2, <1>3

LEMMA SetToSeqFacts ==
    ASSUME NEW C, IsFiniteSet(C)
    PROVE  /\ Cardinality(C) \in Nat /\ SetToSeq(C) \in [1..Cardinality(C) -> C]
           /\ \A a, b \in 1..Cardinality(C) : SetToSeq(C)[a] = SetToSeq(C)[b] => a = b
           /\ \A c \in C : \E k \in 1..Cardinality(C) : SetToSeq(C)[k] = c
<1>. DEFINE n == Cardinality(C)  f == SetToSeq(C)
<1>1. n \in Nat /\ ExistsBijection(1..n, C)
  BY FS_CardinalityType
<1>2. \E g \in [1..n -> C] : IsInjective(g)
  BY <1>1 DEF ExistsBijection, Bijection, Injection
<1>3. f \in [1..n -> C] /\ IsInjective(f)
  BY <1>2 DEF SetToSeq
<1>. HIDE DEF f
<1>4. f \in Injection(1..n, C)
  BY <1>3 DEF Injection
<1>5. IsFiniteSet(1..n) /\ Cardinality(1..n) = n
  BY <1>1, FS_Interval
<1>6. f \in Surjection(1..n, C)
  BY <1>4, <1>5, FS_Injection
<1>. HIDE DEF n
<1>7. \A a, b \in 1..n : f[a] = f[b] => a = b
  BY <1>3 DEF IsInjective
<1>8. \A c \in C : \E k \in 1..n : f[k] = c
  BY <1>6 DEF Surjection
<1>. QED
  BY <1>1, <1>3, <1>7, <1>8 DEF f, n

LEMMA TableFacts ==
    ASSUME NEW s, IsStatement(s), s.type = "createTable"
    PROVE  /\ s.table \in Names /\ s.ifNotExists \in BOOLEAN
           /\ IsTable(Table(s.columns, s.primary, s.keys))
           /\ IsNaming(s.columns, Columns) /\ IsNaming(s.keys, Keys)
<1>1. s.table \in Names /\ s.ifNotExists \in BOOLEAN /\ IsTable(Table(s.columns, s.primary, s.keys))
  BY DEF IsStatement
<1>. QED
  BY <1>1 DEF IsTable, Table

\* The columns ON UPDATE in some order.
LEMMA OnUpdateFacts ==
    ASSUME NEW s, IsStatement(s), s.type = "createTable"
    PROVE  LET cols == OnUpdateColumns(s)
               C == {c \in DOMAIN s.columns : s.columns[c].onUpdate}
           IN /\ Len(cols) \in Nat /\ cols \in [1..Len(cols) -> C]
              /\ \A a, b \in 1..Len(cols) : cols[a] = cols[b] => a = b
              /\ \A c \in C : \E k \in 1..Len(cols) : cols[k] = c
<1>. DEFINE cols == OnUpdateColumns(s)
            C == {c \in DOMAIN s.columns : s.columns[c].onUpdate}
            n == Cardinality(C)
<1>1. IsFiniteSet(C)
  <2>1. IsFiniteSet(DOMAIN s.columns) /\ C \in SUBSET DOMAIN s.columns
    BY TableFacts DEF IsNaming
  <2>. QED
    BY <2>1, FS_Subset
<1>2. cols = SetToSeq(C)
  BY DEF OnUpdateColumns
<1>. HIDE DEF C, cols
<1>3. /\ n \in Nat /\ cols \in [1..n -> C]
      /\ \A a, b \in 1..n : cols[a] = cols[b] => a = b
      /\ \A c \in C : \E k \in 1..n : cols[k] = c
  BY <1>1, <1>2, SetToSeqFacts
<1>. HIDE DEF n
<1>4. Len(cols) = n
  BY <1>3
<1>. QED
  BY <1>3, <1>4 DEF C, cols

LEMMA TableCommands ==
    ASSUME NEW s, IsStatement(s), s.type = "createTable"
    PROVE  LET cols == OnUpdateColumns(s)
               cmds == Commands(s)
           IN /\ \E X : cmds \in Seq(X)
              /\ Len(cmds) = 3 * Len(cols) + 1
              /\ cmds[1] = RenderCreateTable(s)
              /\ \A k \in 1..Len(cols), r \in 1..3 :
                    cmds[3 * (k - 1) + r + 1] = ArtifactsOf(s.table, cols[k])[r]
<1>. DEFINE cols == OnUpdateColumns(s)
            n == Len(cols)
            ss == [k \in 1..n |-> ArtifactsOf(s.table, cols[k])]
<1>1. n \in Nat /\ DOMAIN cols = 1..n
  <2>. HIDE DEF cols
  <2>1. Len(cols) \in Nat /\ \E C : cols \in [1..Len(cols) -> C]
    BY OnUpdateFacts DEF cols
  <2>. QED
    BY <2>1
<1>2. Commands(s) = <<RenderCreateTable(s)>> \o FlattenSeq(ss)
  BY <1>1 DEF Commands, Translation, Plan, BuildOnUpdateArtifacts, OnUpdateColumns
<1>. HIDE DEF cols, n
<1>3. \A k \in 1..n : \E x, y, z : ss[k] = <<x, y, z>>
  BY DEF ArtifactsOf
<1>5. \A k \in 1..n : ss[k] = ArtifactsOf(s.table, cols[k])
  OBVIOUS
<1>13. DOMAIN ss = 1..n /\ ss = [k \in 1..n |-> ss[k]]
  OBVIOUS
<1>. HIDE DEF ss
<1>. DEFINE X == (UNION {{ss[k][1], ss[k][2], ss[k][3]} : k \in 1..n}) \cup {RenderCreateTable(s)}
<1>4. ss \in [1..n -> Seq(X)] /\ \A k \in 1..n : Len(ss[k]) = 3
  <2>1. \A k \in 1..n : ss[k] \in Seq(X) /\ Len(ss[k]) = 3
    <3>. SUFFICES ASSUME NEW k \in 1..n PROVE ss[k] \in Seq(X) /\ Len(ss[k]) = 3
      OBVIOUS
    <3>1. PICK x, y, z : ss[k] = <<x, y, z>>
      BY <1>3
    <3>2. x \in X /\ y \in X /\ z \in X
      BY <3>1
    <3>. HIDE DEF X
    <3>. QED
      BY <3>1, <3>2
  <2>. HIDE DEF X
  <2>. QED
    BY <1>13, <2>1
<1>. DEFINE flat == FlattenSeq(ss)
<1>6. /\ flat \in Seq(X) /\ Len(flat) = 3 * n
      /\ \A k \in 1..n, r \in 1..3 : flat[3 * (k - 1) + r] = ss[k][r]
  <2>. HIDE DEF X
  <2>. QED
    BY <1>1, <1>4, FlattenThrees
<1>. DEFINE first == <<RenderCreateTable(s)>>
<1>7. first \in Seq(X) /\ Len(first) = 1 /\ first[1] = RenderCreateTable(s)
  BY DEF X
<1>. HIDE DEF flat, first
<1>. DEFINE cmds == first \o flat
<1>12. first \in Seq(X) /\ flat \in Seq(X)
  BY <1>6, <1>7
<1>8. cmds \in Seq(X) /\ Len(cmds) = 3 * n + 1
  <2>1. Len(cmds) = Len(first) + Len(flat)
    BY <1>12, ConcatLen
  <2>2. cmds \in Seq(X)
    BY <1>12, ConcatType
  <2>. HIDE DEF cmds
  <2>. QED
    BY <1>1, <1>6, <1>7, <2>1, <2>2
<1>9. cmds[1] = RenderCreateTable(s)
  <2>1. \A j \in 1..Len(first) : cmds[j] = first[j]
    BY <1>12, ConcatFirst
  <2>. HIDE DEF cmds
  <2>. QED
    BY <1>7, <2>1
<1>10. \A k \in 1..n, r \in 1..3 : cmds[3 * (k - 1) + r + 1] = ss[k][r]
  <2>. SUFFICES ASSUME NEW k \in 1..n, NEW r \in 1..3 PROVE cmds[3 * (k - 1) + r + 1] = ss[k][r]
    OBVIOUS
  <2>1. 3 * (k - 1) + r \in 1..(3 * n) /\ 3 * (k - 1) + r + 1 = 1 + (3 * (k - 1) + r)
    BY <1>1
  <2>2. \A j \in 1..Len(flat) : cmds[Len(first) + j] = flat[j]
    BY <1>12, ConcatSecond
  <2>. HIDE DEF cmds
  <2>. QED
    <3>1. cmds[1 + (3 * (k - 1) + r)] = flat[3 * (k - 1) + r]
      BY <1>6, <1>7, <2>1, <2>2
    <3>2. flat[3 * (k - 1) + r] = ss[k][r]
      BY <1>6
    <3>. QED
      BY <2>1, <3>1, <3>2
<1>11. Commands(s) = cmds
  BY <1>2 DEF first, flat
<1>. HIDE DEF cmds
<1>. QED
  BY <1>1, <1>5, <1>8, <1>9, <1>10, <1>11 DEF cols, n

LEMMA RenameCommands ==
    ASSUME NEW s, IsStatement(s), s.type = "renameTables"
    PROVE  /\ \E X : Commands(s) \in Seq(X)
           /\ s.pairs \in Seq(Pairs)
           /\ Len(Commands(s)) = Len(s.pairs)
           /\ \A k \in DOMAIN s.pairs :
                 Commands(s)[k] = [op |-> "renameTable", old |-> s.pairs[k].old, new |-> s.pairs[k].new]
<1>. DEFINE a == NormalizeTiDBRenameTable(s)  n == Len(s.pairs)
            X == {a[k] : k \in DOMAIN s.pairs}
<1>1. s.pairs \in Seq(Pairs)
  BY DEF IsStatement
<1>2. Commands(s) = a \o << >>
  BY DEF Commands, Translation, Plan
<1>3. n \in Nat /\ DOMAIN s.pairs = 1..n
  BY <1>1
<1>. HIDE DEF n
<1>4. a = [k \in 1..n |-> a[k]] /\ \A k \in 1..n : a[k] = [op |-> "renameTable", old |-> s.pairs[k].old, new |-> s.pairs[k].new]
  BY <1>3 DEF NormalizeTiDBRenameTable
<1>. HIDE DEF a
<1>5. a \in Seq(X) /\ Len(a) = n
  BY <1>3, <1>4
<1>6. a \o << >> = a
  BY <1>5
<1>. QED
  BY <1>1, <1>2, <1>3, <1>4, <1>5, <1>6 DEF n

LEMMA SingleCommand ==
    ASSUME NEW s, IsStatement(s), s.type \notin {"createTable", "renameTables"}
    PROVE  /\ \E X : Commands(s) \in Seq(X)
           /\ Len(Commands(s)) = 1
           /\ Commands(s) = Translation(s)
<1>1. \E c : Translation(s) = <<c>>
  BY DEF IsStatement, Translation
<1>2. Commands(s) = Translation(s) \o << >>
  BY DEF Commands, Plan
<1>3. PICK c : Translation(s) = <<c>>
  BY <1>1
<1>4. <<c>> \in Seq({c}) /\ <<c>> \o << >> = <<c>> /\ Len(<<c>>) = 1
  OBVIOUS
<1>. QED
  BY <1>2, <1>3, <1>4

\* What is still to be run is the end of the commands.
LEMMA TodoFacts ==
    ASSUME NEW X, NEW cmds \in Seq(X), NEW done \in 0..Len(cmds), NEW rest,
           rest = SubSeq(cmds, done + 1, Len(cmds))
    PROVE  /\ rest = << >> <=> done = Len(cmds)
           /\ rest # << >> => /\ done + 1 \in 1..Len(cmds)
                              /\ Head(rest) = cmds[done + 1]
                              /\ Tail(rest) = SubSeq(cmds, done + 2, Len(cmds))
<1>1. Len(cmds) \in Nat /\ done \in Nat /\ done <= Len(cmds)
  OBVIOUS
<1>2. CASE done = Len(cmds)
  <2>1. rest = << >>
    BY <1>1, <1>2
  <2>. QED
    BY <1>2, <2>1
<1>3. CASE done # Len(cmds)
  <2>1. done + 1 \in 1..Len(cmds)
    BY <1>1, <1>3
  <2>2. Len(rest) = Len(cmds) - done /\ rest \in Seq(X)
    BY <1>1, <2>1
  <2>3. rest # << >>
    <3>. DEFINE m == Len(rest)  n == Len(cmds)
    <3>1. m = n - done /\ n \in Nat /\ done \in Nat /\ done <= n /\ done # n
      BY <1>1, <1>3, <2>2
    <3>. HIDE DEF m, n
    <3>2. m # 0
      BY <3>1
    <3>. QED
      BY <3>2 DEF m
  <2>4. Head(rest) = cmds[done + 1]
    BY <1>1, <2>1
  <2>5. Tail(rest) = SubSeq(cmds, done + 2, Len(cmds))
    BY <1>1, <2>1, <2>2, <2>3
  <2>. QED
    BY <1>3, <2>1, <2>3, <2>4, <2>5
<1>. QED
  BY <1>2, <1>3

LEMMA AllToDo ==
    ASSUME NEW X, NEW cmds \in Seq(X)
    PROVE  cmds = SubSeq(cmds, 1, Len(cmds)) /\ Len(cmds) \in Nat
  OBVIOUS

CommandOK(c) ==
    /\ c.op \in {"createTable", "renameTable", "createIndex", "addUnique", "dropIndex", "dropConstraint",
                 "addPrimary", "addColumn", "createFunction", "dropTrigger", "createTrigger"}
    /\ c.op = "createTable" => IsFiniteSet(DOMAIN c.keys)

LEMMA CommandsOK ==
    ASSUME NEW s, IsStatement(s)
    PROVE  /\ \E X : Commands(s) \in Seq(X)
           /\ \A j \in 1..Len(Commands(s)) : CommandOK(Commands(s)[j])
<1>1. CASE s.type = "createTable"
  <2>. DEFINE cols == OnUpdateColumns(s)  cmds == Commands(s)  n == Len(cols)
  <2>1. /\ \E X : cmds \in Seq(X)
        /\ Len(cmds) = 3 * n + 1
        /\ cmds[1] = RenderCreateTable(s)
        /\ \A k \in 1..n, r \in 1..3 : cmds[3 * (k - 1) + r + 1] = ArtifactsOf(s.table, cols[k])[r]
    BY <1>1, TableCommands
  <2>2. n \in Nat
    BY <1>1, OnUpdateFacts
  <2>3. CommandOK(RenderCreateTable(s))
    BY <1>1, TableFacts DEF CommandOK, RenderCreateTable, IsNaming
  <2>4. \A k \in 1..n, r \in 1..3 : CommandOK(ArtifactsOf(s.table, cols[k])[r])
    <3>. HIDE DEF cols, n
    <3>. QED
      BY DEF CommandOK, ArtifactsOf
  <2>. HIDE DEF cols, cmds, n
  <2>5. \A j \in 1..(3 * n + 1) : j = 1 \/ \E k \in 1..n, r \in 1..3 : j = 3 * (k - 1) + r + 1
    <3>. SUFFICES ASSUME NEW j \in 2..(3 * n + 1)
                  PROVE  \E k \in 1..n, r \in 1..3 : j = 3 * (k - 1) + r + 1
      BY <2>2
    <3>. DEFINE k == (j + 1) \div 3  r == j - 1 - 3 * (k - 1)
    <3>2. k \in 1..n /\ r \in 1..3 /\ j = 3 * (k - 1) + r + 1
      BY <2>2
    <3>. QED
      BY <3>2
  <2>6. \A j \in 1..Len(cmds) : CommandOK(cmds[j])
    <3>. SUFFICES ASSUME NEW j \in 1..(3 * n + 1) PROVE CommandOK(cmds[j])
      BY <2>1
    <3>1. CASE j = 1
      BY <2>1, <2>3, <3>1
    <3>2. CASE j # 1
      <4>1. PICK k \in 1..n, r \in 1..3 : j = 3 * (k - 1) + r + 1
        BY <2>5, <3>2
      <4>2. cmds[j] = ArtifactsOf(s.table, cols[k])[r]
        BY <2>1, <4>1
      <4>. QED
        BY <2>4, <4>2
    <3>. QED
      BY <3>1, <3>2
  <2>. QED
    BY <2>1, <2>6 DEF cmds
<1>2. CASE s.type = "renameTables"
  <2>3. \A x, y : CommandOK([op |-> "renameTable", old |-> x, new |-> y])
    BY DEF CommandOK
  <2>4. \A k \in DOMAIN s.pairs :
            Commands(s)[k] = [op |-> "renameTable", old |-> s.pairs[k].old, new |-> s.pairs[k].new]
    BY <1>2, RenameCommands
  <2>1. \A k \in DOMAIN s.pairs : CommandOK(Commands(s)[k])
    BY <2>3, <2>4
  <2>2. DOMAIN s.pairs = 1..Len(Commands(s))
    BY <1>2, RenameCommands
  <2>. QED
    BY <1>2, <2>1, <2>2, RenameCommands
<1>3. CASE s.type \notin {"createTable", "renameTables"}
  <2>1. Len(Commands(s)) = 1 /\ Commands(s) = Translation(s) /\ \E X : Commands(s) \in Seq(X)
    BY <1>3, SingleCommand
  <2>2. CommandOK(Translation(s)[1])
    BY <1>3 DEF IsStatement, Translation, CommandOK, RenderCreateIndex, RenderDropIndex, RenderAlterTableAddUnique,
        RenderAlterTableAddPrimary, RenderAlterTableDropPrimaryKey, RenderAlterTableAddColumn
  <2>. QED
    BY <2>1, <2>2
<1>. QED
  BY <1>1, <1>2, <1>3

-----------------------------------------------------------------------------
(* What the commands do to the PostgreSQL.                                 *)

Shaped(d) == d = Db(d.tables, d.indexes, d.functions, d.triggers)
Trigger(name, table, function) == [name |-> name, table |-> table, function |-> function]

\* The table under its new name.
Renames(t, c) == IF t = c.old THEN c.new ELSE t

LEMMA PrimaryMade ==
    ASSUME NEW d, Shaped(d), NEW table, NEW columns
    PROVE  WithPrimary(d, table, columns) =
               Db(d.tables,
                  IF columns = {} THEN d.indexes
                  ELSE With(d.indexes, PrimaryName(d, table), Index(table, columns, TRUE, "primary")),
                  d.functions, d.triggers)
<1>1. CASE columns = {}
  BY <1>1 DEF WithPrimary, Shaped
<1>2. CASE columns # {}
  <2>. DEFINE x == With(d.indexes, PrimaryName(d, table), Index(table, columns, TRUE, "primary"))
  <2>1. WithPrimary(d, table, columns) = [d EXCEPT !.indexes = x]
    BY <1>2 DEF WithPrimary
  <2>. HIDE DEF x
  <2>2. [d EXCEPT !.indexes = x] = Db(d.tables, x, d.functions, d.triggers)
    BY ExceptDb DEF Shaped
  <2>. QED
    BY <1>2, <2>1, <2>2 DEF x
<1>. QED
  BY <1>1, <1>2

KeyIndexes(c) == [i \in DOMAIN c.keys |-> Index(c.table, c.keys[i].columns, c.keys[i].unique, "unique")]
Merged(f, g) == [i \in DOMAIN f \cup DOMAIN g |-> IF i \in DOMAIN f THEN f[i] ELSE g[i]]

LEMMA TableMade ==
    ASSUME NEW d, Shaped(d), NEW c, c.op = "createTable", c.table \notin DOMAIN d.tables
    PROVE  LET tables == With(d.tables, c.table, c.columns)
               p == WithPrimary(Db(tables, d.indexes, d.functions, d.triggers), c.table, c.primary)
           IN Apply(d, c) = Db(tables, Merged(KeyIndexes(c), p.indexes), d.functions, d.triggers)
<1>. DEFINE tables == With(d.tables, c.table, c.columns)
            e == Db(tables, d.indexes, d.functions, d.triggers)
            p == WithPrimary(e, c.table, c.primary)
            ix == p.indexes
            keys == [i \in DOMAIN c.keys \cup DOMAIN ix |->
                         IF i \in DOMAIN c.keys THEN Index(c.table, c.keys[i].columns, c.keys[i].unique, "unique")
                         ELSE ix[i]]
<1>1. [d EXCEPT !.tables = tables] = e
  <2>. HIDE DEF tables
  <2>. QED
    BY ExceptDb DEF Shaped
<1>2. Apply(d, c) = [p EXCEPT !.indexes = keys]
  <2>1. Apply(d, c) = LET t == WithPrimary([d EXCEPT !.tables = With(@, c.table, c.columns)], c.table, c.primary)
                  IN [t EXCEPT !.indexes = [i \in DOMAIN c.keys \cup DOMAIN @ |->
                         IF i \in DOMAIN c.keys THEN Index(c.table, c.keys[i].columns, c.keys[i].unique, "unique")
                         ELSE @[i]]]
    BY DEF Apply
  <2>2. [d EXCEPT !.tables = With(@, c.table, c.columns)] = [d EXCEPT !.tables = tables]
    OBVIOUS
  <2>. QED
    BY <1>1, <2>1, <2>2
<1>3. p = Db(tables, ix, d.functions, d.triggers)
  <2>1. Shaped(e) /\ e.tables = tables /\ e.functions = d.functions /\ e.triggers = d.triggers
    <3>. HIDE DEF tables
    <3>. QED
      BY DbFields DEF Shaped
  <2>. HIDE DEF e
  <2>. DEFINE x == IF c.primary = {} THEN e.indexes
                   ELSE With(e.indexes, PrimaryName(e, c.table), Index(c.table, c.primary, TRUE, "primary"))
  <2>2. p = Db(e.tables, x, e.functions, e.triggers)
    BY <2>1, PrimaryMade
  <2>. HIDE DEF x, p, tables
  <2>3. p.indexes = x
    BY <2>2, DbFields
  <2>. QED
    BY <2>1, <2>2, <2>3
<1>4. keys = Merged(KeyIndexes(c), ix)
  <2>. HIDE DEF ix
  <2>. QED
    BY DEF Merged, KeyIndexes
<1>. HIDE DEF ix, keys, tables
<1>5. [p EXCEPT !.indexes = keys] = Db(tables, keys, d.functions, d.triggers)
  <2>. HIDE DEF p
  <2>1. p.tables = tables /\ p.indexes = ix /\ p.functions = d.functions /\ p.triggers = d.triggers
    BY <1>3, DbFields
  <2>2. p = Db(p.tables, p.indexes, p.functions, p.triggers)
    BY <1>3, <2>1
  <2>. QED
    <3>1. [p EXCEPT !.indexes = keys] = Db(p.tables, keys, p.functions, p.triggers)
      BY <2>2, ExceptDb
    <3>. QED
      BY <2>1, <3>1
<1>. QED
  BY <1>2, <1>4, <1>5 DEF tables, ix

IndexBy(c) == IF c.op = "createIndex" THEN Index(c.table, c.columns, c.unique, "index")
              ELSE Index(c.table, c.columns, TRUE, "unique")

LEMMA IndexMade ==
    ASSUME NEW d, Shaped(d), NEW c, c.op \in {"createIndex", "addUnique"}, c.name \notin DOMAIN d.indexes
    PROVE  Apply(d, c) = Db(d.tables, With(d.indexes, c.name, IndexBy(c)), d.functions, d.triggers)
<1>. DEFINE x == With(d.indexes, c.name, IndexBy(c))
<1>1. Apply(d, c) = [d EXCEPT !.indexes = x]
  BY DEF Apply, IndexBy
<1>. HIDE DEF x
<1>2. [d EXCEPT !.indexes = x] = Db(d.tables, x, d.functions, d.triggers)
  BY ExceptDb DEF Shaped
<1>. QED
  BY <1>1, <1>2 DEF x

LEMMA IndexDropped ==
    ASSUME NEW d, Shaped(d), NEW c, c.op \in {"dropIndex", "dropConstraint"}
    PROVE  Apply(d, c) = Db(d.tables, Without(d.indexes, c.name), d.functions, d.triggers)
<1>. DEFINE x == Without(d.indexes, c.name)
<1>1. Apply(d, c) = [d EXCEPT !.indexes = x]
  BY DEF Apply
<1>. HIDE DEF x
<1>2. [d EXCEPT !.indexes = x] = Db(d.tables, x, d.functions, d.triggers)
  BY ExceptDb DEF Shaped
<1>. QED
  BY <1>1, <1>2 DEF x

LEMMA ColumnAdded ==
    ASSUME NEW d, Shaped(d), NEW c, c.op = "addColumn", c.table \in DOMAIN d.tables
    PROVE  \E tables : /\ Apply(d, c) = Db(tables, d.indexes, d.functions, d.triggers)
                       /\ DOMAIN tables = DOMAIN d.tables
                       /\ tables[c.table] = With(d.tables[c.table], c.name, c.column)
                       /\ \A t \in DOMAIN d.tables : t # c.table => tables[t] = d.tables[t]
<1>. DEFINE x == [d.tables EXCEPT ![c.table] = With(d.tables[c.table], c.name, c.column)]
<1>1. Apply(d, c) = [d EXCEPT !.tables = x]
  BY DEF Apply
<1>2. /\ DOMAIN x = DOMAIN d.tables /\ x[c.table] = With(d.tables[c.table], c.name, c.column)
      /\ \A t \in DOMAIN d.tables : t # c.table => x[t] = d.tables[t]
  OBVIOUS
<1>. HIDE DEF x
<1>3. [d EXCEPT !.tables = x] = Db(x, d.indexes, d.functions, d.triggers)
  BY ExceptDb DEF Shaped
<1>. QED
  BY <1>1, <1>2, <1>3

LEMMA FunctionMade ==
    ASSUME NEW d, Shaped(d), NEW c, c.op = "createFunction"
    PROVE  Apply(d, c) = Db(d.tables, d.indexes, With(d.functions, c.name, c.column), d.triggers)
<1>. DEFINE x == With(d.functions, c.name, c.column)
<1>1. Apply(d, c) = [d EXCEPT !.functions = x]
  BY DEF Apply
<1>. HIDE DEF x
<1>2. [d EXCEPT !.functions = x] = Db(d.tables, d.indexes, x, d.triggers)
  BY ExceptDb DEF Shaped
<1>. QED
  BY <1>1, <1>2 DEF x

OtherTriggers(triggers, c) == {g \in triggers : <<g.name, g.table>> # <<c.name, c.table>>}

LEMMA TriggerDropped ==
    ASSUME NEW d, Shaped(d), NEW c, c.op = "dropTrigger"
    PROVE  Apply(d, c) = Db(d.tables, d.indexes, d.functions, OtherTriggers(d.triggers, c))
<1>. DEFINE x == OtherTriggers(d.triggers, c)
<1>1. Apply(d, c) = [d EXCEPT !.triggers = x]
  BY DEF Apply, OtherTriggers
<1>. HIDE DEF x
<1>2. [d EXCEPT !.triggers = x] = Db(d.tables, d.indexes, d.functions, x)
  BY ExceptDb DEF Shaped
<1>. QED
  BY <1>1, <1>2 DEF x

LEMMA TriggerMade ==
    ASSUME NEW d, Shaped(d), NEW c, c.op = "createTrigger"
    PROVE  Apply(d, c) = Db(d.tables, d.indexes, d.functions,
                            d.triggers \cup {Trigger(c.name, c.table, c.function)})
<1>. DEFINE x == d.triggers \cup {Trigger(c.name, c.table, c.function)}
<1>1. Apply(d, c) = [d EXCEPT !.triggers = x]
  BY DEF Apply, Trigger
<1>. HIDE DEF x
<1>2. [d EXCEPT !.triggers = x] = Db(d.tables, d.indexes, d.functions, x)
  BY ExceptDb DEF Shaped
<1>. QED
  BY <1>1, <1>2 DEF x

\* Indexes and triggers stay with the table.
MovedIndexes(ix, c) ==
    [i \in DOMAIN ix |-> Index(Renames(ix[i].table, c), ix[i].columns, ix[i].unique, ix[i].kind)]
MovedTriggers(triggers, c) == {Trigger(g.name, Renames(g.table, c), g.function) : g \in triggers}

LEMMA TableRenamed ==
    ASSUME NEW d, IsDb(d), NEW c, c.op = "renameTable"
    PROVE  Apply(d, c) = Db(Moved(d.tables, c.old, c.new), MovedIndexes(d.indexes, c), d.functions,
                            MovedTriggers(d.triggers, c))
<1>. DEFINE Moving(x) == IF x.table = c.old THEN [x EXCEPT !.table = c.new] ELSE x
            a == Moved(d.tables, c.old, c.new)
            b == [i \in DOMAIN d.indexes |-> Moving(d.indexes[i])]
            g1 == {Moving(g) : g \in d.triggers}
<1>1. Apply(d, c) = [tables |-> a, indexes |-> b, functions |-> d.functions, triggers |-> g1]
  BY DEF Apply
<1>2. \A i \in DOMAIN d.indexes :
          Moving(d.indexes[i]) = Index(Renames(d.indexes[i].table, c), d.indexes[i].columns, d.indexes[i].unique,
                                       d.indexes[i].kind)
  <2>1. \A t, cs, u, k : Moving(Index(t, cs, u, k)) = Index(Renames(t, c), cs, u, k)
    BY DEF Index, Renames
  <2>2. \A x : IsIndex(x) => Moving(x) = Index(Renames(x.table, c), x.columns, x.unique, x.kind)
    <3>. HIDE DEF Moving
    <3>. QED
      BY <2>1 DEF IsIndex
  <2>. HIDE DEF Moving
  <2>. QED
    BY <2>2 DEF IsDb
<1>3. b = MovedIndexes(d.indexes, c)
  <2>. HIDE DEF Moving
  <2>. QED
    BY <1>2 DEF MovedIndexes
<1>4. \A g \in d.triggers : Moving(g) = Trigger(g.name, Renames(g.table, c), g.function)
  <2>1. \A n, t, f : Moving(Trigger(n, t, f)) = Trigger(n, Renames(t, c), f)
    BY DEF Trigger, Renames
  <2>2. \A g : IsTrigger(g) => g = Trigger(g.name, g.table, g.function)
    BY DEF IsTrigger, Trigger
  <2>. HIDE DEF Moving
  <2>. QED
    BY <2>1, <2>2 DEF IsDb
<1>5. g1 = MovedTriggers(d.triggers, c)
  <2>. HIDE DEF Moving
  <2>. QED
    BY <1>4 DEF MovedTriggers
<1>. HIDE DEF a, b, g1
<1>. QED
  BY <1>1, <1>3, <1>5 DEF a, Db

LEMMA DbMade ==
    ASSUME NEW a, NEW b, NEW f, NEW g,
           IsFiniteSet(DOMAIN a), IsFiniteSet(DOMAIN b),
           \A i \in DOMAIN b : IsIndex(b[i]) /\ b[i].table \in DOMAIN a,
           \A h \in g : IsTrigger(h) /\ h.table \in DOMAIN a /\ h.function \in DOMAIN f
    PROVE  IsDb(Db(a, b, f, g))
<1>. DEFINE d == Db(a, b, f, g)
<1>1. d.tables = a /\ d.indexes = b /\ d.functions = f /\ d.triggers = g /\ d = Db(a, b, f, g)
  BY DbFields
<1>. HIDE DEF d
<1>. QED
  BY <1>1 DEF IsDb, d

LEMMA IndexShape ==
    ASSUME NEW t, NEW cs, NEW u, NEW k
    PROVE  /\ Index(t, cs, u, k).table = t /\ Index(t, cs, u, k).columns = cs
           /\ Index(t, cs, u, k).unique = u /\ Index(t, cs, u, k).kind = k
           /\ k \in {"primary", "index", "unique"} => IsIndex(Index(t, cs, u, k))
  BY DEF Index, IsIndex

LEMMA TriggerShape ==
    ASSUME NEW n, NEW t, NEW f
    PROVE  /\ Trigger(n, t, f).name = n /\ Trigger(n, t, f).table = t /\ Trigger(n, t, f).function = f
           /\ IsTrigger(Trigger(n, t, f))
  BY DEF Trigger, IsTrigger

LEMMA DbTable ==
    ASSUME NEW d, IsDb(d), NEW c, CommandOK(c), Possible(d, c), c.op = "createTable"
    PROVE  IsDb(Apply(d, c))
<1>1. CASE c.table \in DOMAIN d.tables
  <2>1. Apply(d, c) = d
    BY <1>1 DEF Apply
  <2>. QED
    BY <2>1
<1>2. CASE c.table \notin DOMAIN d.tables
  <2>. DEFINE tables == With(d.tables, c.table, c.columns)
              e == Db(tables, d.indexes, d.functions, d.triggers)
              p == WithPrimary(e, c.table, c.primary)
              x == IF c.primary = {} THEN d.indexes
                   ELSE With(d.indexes, PrimaryName(e, c.table), Index(c.table, c.primary, TRUE, "primary"))
              keys == Merged(KeyIndexes(c), p.indexes)
  <2>1. Apply(d, c) = Db(tables, keys, d.functions, d.triggers)
    BY <1>2, TableMade DEF IsDb, Shaped
  <2>2. p.indexes = x
    <3>1. e.indexes = d.indexes /\ Shaped(e)
      BY DbFields DEF Shaped
    <3>. HIDE DEF e
    <3>2. p = Db(e.tables, x, e.functions, e.triggers)
      BY <3>1, PrimaryMade
    <3>. HIDE DEF p, x
    <3>. QED
      BY <3>2, DbFields
  <2>3. DOMAIN tables = DOMAIN d.tables \cup {c.table} /\ IsFiniteSet(DOMAIN tables)
    <3>1. DOMAIN tables = DOMAIN d.tables \cup {c.table}
      BY DEF With
    <3>. QED
      BY <3>1, FS_AddElement DEF IsDb
  <2>4. IsFiniteSet(DOMAIN x) /\ \A i \in DOMAIN x : IsIndex(x[i]) /\ x[i].table \in DOMAIN d.tables \cup {c.table}
    <3>1. CASE c.primary = {}
      BY <3>1 DEF IsDb
    <3>2. CASE c.primary # {}
      <4>. DEFINE n == PrimaryName(e, c.table)  y == Index(c.table, c.primary, TRUE, "primary")
      <4>. HIDE DEF n
      <4>1. IsIndex(y) /\ y.table = c.table
        BY DEF Index, IsIndex
      <4>. HIDE DEF y
      <4>2. x = With(d.indexes, n, y)
        BY <3>2 DEF n, y
      <4>. HIDE DEF x
      <4>3. /\ DOMAIN x = DOMAIN d.indexes \cup {n} /\ x[n] = y
            /\ \A i \in DOMAIN d.indexes : i # n => x[i] = d.indexes[i]
        BY <4>2 DEF With
      <4>4. IsFiniteSet(DOMAIN x)
        BY <4>3, FS_AddElement DEF IsDb
      <4>. QED
        BY <4>1, <4>3, <4>4 DEF IsDb
    <3>. QED
      BY <3>1, <3>2
  <2>. HIDE DEF x
  <2>. DEFINE k == KeyIndexes(c)
  <2>5. IsFiniteSet(DOMAIN k) /\ \A i \in DOMAIN k : IsIndex(k[i]) /\ k[i].table = c.table
    BY IndexShape DEF KeyIndexes, CommandOK
  <2>6. keys = Merged(k, x)
    BY <2>2
  <2>. HIDE DEF keys, k
  <2>7. /\ DOMAIN keys = DOMAIN k \cup DOMAIN x
        /\ \A i \in DOMAIN keys : keys[i] = IF i \in DOMAIN k THEN k[i] ELSE x[i]
    BY <2>6 DEF Merged
  <2>8. IsFiniteSet(DOMAIN keys)
    <3>1. IsFiniteSet(DOMAIN k \cup DOMAIN x)
      BY <2>4, <2>5, FS_Union
    <3>. QED
      BY <2>7, <3>1
  <2>9. \A i \in DOMAIN keys : IsIndex(keys[i]) /\ keys[i].table \in DOMAIN tables
    BY <2>3, <2>4, <2>5, <2>7
  <2>. HIDE DEF tables
  <2>. QED
    BY <2>1, <2>3, <2>8, <2>9, DbMade DEF IsDb
<1>. QED
  BY <1>1, <1>2

LEMMA DbRenamed ==
    ASSUME NEW d, IsDb(d), NEW c, Possible(d, c), c.op = "renameTable"
    PROVE  IsDb(Apply(d, c))
<1>. DEFINE a == Moved(d.tables, c.old, c.new)
            b == MovedIndexes(d.indexes, c)
            g == MovedTriggers(d.triggers, c)
<1>1. Apply(d, c) = Db(a, b, d.functions, g)
  BY TableRenamed
<1>2. c.old \in DOMAIN d.tables /\ c.new \notin DOMAIN d.tables
  BY DEF Possible, Relations
<1>3. DOMAIN a = (DOMAIN d.tables \ {c.old}) \cup {c.new}
  <2>1. a = Replaced(d.tables, c.old, c.new)
    BY <1>2, MovedIs
  <2>. HIDE DEF a
  <2>. QED
    BY <2>1 DEF Replaced
<1>. HIDE DEF a
<1>4. IsFiniteSet(DOMAIN a)
  <2>1. IsFiniteSet(DOMAIN d.tables)
    BY DEF IsDb
  <2>2. IsFiniteSet(DOMAIN d.tables \ {c.old})
    BY <2>1, FS_RemoveElement
  <2>3. IsFiniteSet((DOMAIN d.tables \ {c.old}) \cup {c.new})
    BY <2>2, FS_AddElement
  <2>. QED
    BY <1>3, <2>3
<1>5. \A t \in DOMAIN d.tables : Renames(t, c) \in DOMAIN a
  BY <1>2, <1>3 DEF Renames
<1>6. DOMAIN b = DOMAIN d.indexes /\ \A i \in DOMAIN b : IsIndex(b[i]) /\ b[i].table \in DOMAIN a
  <2>1. DOMAIN b = DOMAIN d.indexes
    BY DEF MovedIndexes
  <2>. SUFFICES ASSUME NEW i \in DOMAIN d.indexes PROVE IsIndex(b[i]) /\ b[i].table \in DOMAIN a
    BY <2>1
  <2>2. IsIndex(d.indexes[i]) /\ d.indexes[i].table \in DOMAIN d.tables
    BY DEF IsDb
  <2>. QED
    BY <1>5, <2>2, IndexShape DEF MovedIndexes, IsIndex
<1>7. \A h \in g : IsTrigger(h) /\ h.table \in DOMAIN a /\ h.function \in DOMAIN d.functions
  BY <1>5, TriggerShape DEF MovedTriggers, IsDb
<1>. HIDE DEF b, g
<1>. QED
  BY <1>1, <1>4, <1>6, <1>7, DbMade DEF IsDb

LEMMA DbIndexMade ==
    ASSUME NEW d, IsDb(d), NEW c, Possible(d, c), c.op \in {"createIndex", "addUnique"}
    PROVE  IsDb(Apply(d, c))
<1>1. CASE c.name \in DOMAIN d.indexes
  <2>1. c.op = "createIndex"
    BY <1>1 DEF Possible, Relations
  <2>2. Apply(d, c) = d
    BY <1>1, <2>1 DEF Apply
  <2>. QED
    BY <2>2
<1>2. CASE c.name \notin DOMAIN d.indexes
  <2>. DEFINE y == IndexBy(c)
              x == With(d.indexes, c.name, y)
  <2>1. Apply(d, c) = Db(d.tables, x, d.functions, d.triggers)
    <3>1. Shaped(d)
      BY DEF IsDb, Shaped
    <3>. QED
      BY <1>2, <3>1, IndexMade
  <2>2. IsIndex(y) /\ y.table = c.table
    BY DEF IndexBy, Index, IsIndex
  <2>. HIDE DEF y
  <2>3. c.table \in DOMAIN d.tables
    BY DEF Possible
  <2>4. /\ DOMAIN x = DOMAIN d.indexes \cup {c.name} /\ x[c.name] = y
        /\ \A i \in DOMAIN d.indexes : i # c.name => x[i] = d.indexes[i]
    BY DEF With
  <2>. HIDE DEF x
  <2>5. IsFiniteSet(DOMAIN x)
    BY <2>4, FS_AddElement DEF IsDb
  <2>6. \A i \in DOMAIN x : IsIndex(x[i]) /\ x[i].table \in DOMAIN d.tables
    BY <2>2, <2>3, <2>4 DEF IsDb
  <2>. QED
    BY <2>1, <2>5, <2>6, DbMade DEF IsDb
<1>. QED
  BY <1>1, <1>2

LEMMA DbIndexDropped ==
    ASSUME NEW d, IsDb(d), NEW c, c.op \in {"dropIndex", "dropConstraint"}
    PROVE  IsDb(Apply(d, c))
<1>. DEFINE x == Without(d.indexes, c.name)
<1>1. Apply(d, c) = Db(d.tables, x, d.functions, d.triggers)
  BY IndexDropped DEF IsDb, Shaped
<1>2. DOMAIN x = DOMAIN d.indexes \ {c.name} /\ \A i \in DOMAIN x : x[i] = d.indexes[i]
  BY DEF Without, Restrict
<1>. HIDE DEF x
<1>3. IsFiniteSet(DOMAIN x)
  <2>1. IsFiniteSet(DOMAIN d.indexes)
    BY DEF IsDb
  <2>2. IsFiniteSet(DOMAIN d.indexes \ {c.name})
    BY <2>1, FS_RemoveElement
  <2>. QED
    BY <1>2, <2>2
<1>. QED
  BY <1>1, <1>2, <1>3, DbMade DEF IsDb

LEMMA DbPrimaryAdded ==
    ASSUME NEW d, IsDb(d), NEW c, Possible(d, c), c.op = "addPrimary"
    PROVE  IsDb(Apply(d, c))
<1>. DEFINE n == PrimaryName(d, c.table)
            y == Index(c.table, c.columns, TRUE, "primary")
            x == IF c.columns = {} THEN d.indexes ELSE With(d.indexes, n, y)
<1>1. Apply(d, c) = Db(d.tables, x, d.functions, d.triggers)
  <2>1. Apply(d, c) = WithPrimary(d, c.table, c.columns)
    BY DEF Apply
  <2>. QED
    BY <2>1, PrimaryMade DEF IsDb, Shaped
<1>2. IsIndex(y) /\ y.table = c.table
  BY DEF Index, IsIndex
<1>3. c.table \in DOMAIN d.tables
  BY DEF Possible
<1>. HIDE DEF y, n
<1>4. \/ x = d.indexes
      \/ /\ DOMAIN x = DOMAIN d.indexes \cup {n} /\ x[n] = y
         /\ \A i \in DOMAIN d.indexes : i # n => x[i] = d.indexes[i]
  BY DEF With
<1>. HIDE DEF x
<1>5. IsFiniteSet(DOMAIN x)
  BY <1>4, FS_AddElement DEF IsDb
<1>6. \A i \in DOMAIN x : IsIndex(x[i]) /\ x[i].table \in DOMAIN d.tables
  BY <1>2, <1>3, <1>4 DEF IsDb
<1>. QED
  BY <1>1, <1>5, <1>6, DbMade DEF IsDb

LEMMA DbColumnAdded ==
    ASSUME NEW d, IsDb(d), NEW c, Possible(d, c), c.op = "addColumn"
    PROVE  IsDb(Apply(d, c))
<1>1. c.table \in DOMAIN d.tables
  BY DEF Possible
<1>2. PICK tables : /\ Apply(d, c) = Db(tables, d.indexes, d.functions, d.triggers)
                    /\ DOMAIN tables = DOMAIN d.tables
  BY <1>1, ColumnAdded DEF IsDb, Shaped
<1>. QED
  BY <1>2, DbMade DEF IsDb

LEMMA DbArtifact ==
    ASSUME NEW d, IsDb(d), NEW c, Possible(d, c), c.op \in {"createFunction", "dropTrigger", "createTrigger"}
    PROVE  IsDb(Apply(d, c))
<1>0. Shaped(d)
  BY DEF IsDb, Shaped
<1>1. CASE c.op = "createFunction"
  <2>. DEFINE x == With(d.functions, c.name, c.column)
  <2>1. Apply(d, c) = Db(d.tables, d.indexes, x, d.triggers)
    BY <1>0, <1>1, FunctionMade
  <2>2. DOMAIN d.functions \subseteq DOMAIN x
    BY DEF With
  <2>. HIDE DEF x
  <2>. QED
    BY <2>1, <2>2, DbMade DEF IsDb
<1>2. CASE c.op = "dropTrigger"
  <2>. DEFINE x == OtherTriggers(d.triggers, c)
  <2>1. Apply(d, c) = Db(d.tables, d.indexes, d.functions, x)
    BY <1>0, <1>2, TriggerDropped
  <2>2. x \subseteq d.triggers
    BY DEF OtherTriggers
  <2>. HIDE DEF x
  <2>. QED
    BY <2>1, <2>2, DbMade DEF IsDb
<1>3. CASE c.op = "createTrigger"
  <2>. DEFINE g == Trigger(c.name, c.table, c.function)  x == d.triggers \cup {g}
  <2>1. Apply(d, c) = Db(d.tables, d.indexes, d.functions, x)
    BY <1>0, <1>3, TriggerMade
  <2>2. IsTrigger(g) /\ g.table = c.table /\ g.function = c.function
    BY TriggerShape
  <2>3. c.table \in DOMAIN d.tables /\ c.function \in DOMAIN d.functions
    BY <1>3 DEF Possible
  <2>. HIDE DEF g
  <2>4. \A h \in x : IsTrigger(h) /\ h.table \in DOMAIN d.tables /\ h.function \in DOMAIN d.functions
    BY <2>2, <2>3 DEF IsDb
  <2>. HIDE DEF x
  <2>. QED
    BY <2>1, <2>4, DbMade DEF IsDb
<1>. QED
  BY <1>1, <1>2, <1>3

\* No command leaves an index or a trigger without its table, or a trigger without
\* its function.
LEMMA DbKept ==
    ASSUME NEW d, IsDb(d), NEW c, CommandOK(c), Possible(d, c)
    PROVE  IsDb(Apply(d, c))
<1>1. c.op \in {"createTable", "renameTable", "createIndex", "addUnique", "dropIndex", "dropConstraint",
                "addPrimary", "addColumn", "createFunction", "dropTrigger", "createTrigger"}
  BY DEF CommandOK
<1>. QED
  BY <1>1, DbTable, DbRenamed, DbIndexMade, DbIndexDropped, DbPrimaryAdded, DbColumnAdded, DbArtifact

-----------------------------------------------------------------------------
(* The tables stay tables.                                                 *)

LEMMA NamingWith ==
    ASSUME NEW X, NEW f, IsNaming(f, X), NEW x \in Names, NEW v \in X
    PROVE  IsNaming(With(f, x, v), X)
<1>. DEFINE w == With(f, x, v)
<1>1. /\ DOMAIN w = DOMAIN f \cup {x} /\ w = [y \in DOMAIN w |-> w[y]]
      /\ w[x] = v /\ \A y \in DOMAIN f : y # x => w[y] = f[y]
  BY DEF With
<1>. HIDE DEF w
<1>2. IsFiniteSet(DOMAIN f \cup {x})
  BY FS_AddElement DEF IsNaming
<1>3. \A y \in DOMAIN w : w[y] \in X
  BY <1>1 DEF IsNaming
<1>4. w \in [DOMAIN w -> X]
  BY <1>1, <1>3
<1>. QED
  BY <1>1, <1>2, <1>4 DEF IsNaming, w

LEMMA NamingWithout ==
    ASSUME NEW X, NEW f, IsNaming(f, X), NEW x
    PROVE  IsNaming(Without(f, x), X)
<1>. DEFINE w == Without(f, x)
<1>1. /\ DOMAIN w = DOMAIN f \ {x} /\ w = [y \in DOMAIN w |-> w[y]]
      /\ \A y \in DOMAIN w : w[y] = f[y]
  BY DEF Without, Restrict
<1>. HIDE DEF w
<1>2. IsFiniteSet(DOMAIN f \ {x})
  BY FS_RemoveElement DEF IsNaming
<1>3. w \in [DOMAIN w -> X]
  BY <1>1 DEF IsNaming
<1>. QED
  BY <1>1, <1>2, <1>3 DEF IsNaming, w

LEMMA TableFields ==
    ASSUME NEW c, NEW p, NEW k
    PROVE  /\ Table(c, p, k).columns = c /\ Table(c, p, k).primary = p /\ Table(c, p, k).keys = k
           /\ IsTable(Table(c, p, k)) <=> IsNaming(c, Columns) /\ IsNaming(k, Keys)
<1>. DEFINE t == Table(c, p, k)
<1>1. t.columns = c /\ t.primary = p /\ t.keys = k
  BY DEF Table
<1>. HIDE DEF t
<1>2. IsTable(t) <=> t = Table(c, p, k) /\ IsNaming(c, Columns) /\ IsNaming(k, Keys)
  BY <1>1 DEF IsTable
<1>. QED
  BY <1>1, <1>2 DEF t

LEMMA TablesExecuted ==
    ASSUME NEW S, IsTables(S), NEW s, IsStatement(s), Accepts(S, s)
    PROVE  IsTables(Execute(S, s))
<1>. DEFINE t == S[s.table]
<1>0. s.type \notin {"createTable", "renameTables"} =>
          s.table \in DOMAIN S /\ s.table \in Names /\ IsNaming(t.columns, Columns) /\ IsNaming(t.keys, Keys)
  <2>. SUFFICES ASSUME s.type \notin {"createTable", "renameTables"}
                PROVE  s.table \in DOMAIN S /\ s.table \in Names
                       /\ IsNaming(t.columns, Columns) /\ IsNaming(t.keys, Keys)
    OBVIOUS
  <2>1. s.table \in DOMAIN S
    BY DEF Accepts, IsStatement
  <2>2. s.table \in Names /\ IsTable(t)
    BY <2>1 DEF IsTables
  <2>. QED
    BY <2>1, <2>2 DEF IsTable
<1>1. CASE s.type = "createTable"
  <2>1. Execute(S, s) = IF s.table \in DOMAIN S THEN S
                        ELSE With(S, s.table, Table(s.columns, s.primary, s.keys))
    BY <1>1 DEF Execute
  <2>. QED
    BY <1>1, <2>1, TableFacts, TablesWith
<1>2. CASE s.type = "renameTables"
  <2>1. Execute(S, s) = Renaming(S, s.pairs)[Len(s.pairs)] /\ CanRename(S, s.pairs)
    BY <1>2 DEF Execute, Renamed, Accepts
  <2>2. s.pairs \in Seq(Pairs)
    BY <1>2 DEF IsStatement
  <2>3. Len(s.pairs) \in 0..Len(s.pairs)
    BY <2>2
  <2>. QED
    BY <2>1, <2>2, <2>3, TablesRenamed
<1>3. CASE s.type \in {"createIndex", "addUnique", "dropIndex"}
  <2>. DEFINE keys == CASE s.type = "createIndex" -> With(t.keys, s.name, Key(s.unique, s.columns, FALSE))
                        [] s.type = "addUnique" -> With(t.keys, s.name, Key(TRUE, s.columns, TRUE))
                        [] OTHER -> Without(t.keys, s.name)
              x == Table(t.columns, t.primary, keys)
  <2>1. Execute(S, s) = With(S, s.table, x)
    BY <1>3 DEF Execute
  <2>2. IsNaming(keys, Keys)
    <3>1. s.type = "createIndex" => Key(s.unique, s.columns, FALSE) \in Keys /\ s.name \in Names
      BY DEF Key, Keys, IsStatement
    <3>2. s.type = "addUnique" => Key(TRUE, s.columns, TRUE) \in Keys /\ s.name \in Names
      BY DEF Key, Keys, IsStatement
    <3>. HIDE DEF t
    <3>3. CASE s.type = "createIndex"
      BY <1>0, <3>1, <3>3, NamingWith
    <3>4. CASE s.type = "addUnique"
      BY <1>0, <3>2, <3>4, NamingWith
    <3>5. CASE s.type = "dropIndex"
      BY <1>0, <3>5, NamingWithout
    <3>. QED
      BY <1>3, <3>3, <3>4, <3>5
  <2>. HIDE DEF keys
  <2>3. IsTable(x)
    BY <1>0, <1>3, <2>2, TableFields
  <2>. HIDE DEF x
  <2>4. s.table \in Names
    BY <1>0, <1>3
  <2>. QED
    BY <2>1, <2>3, <2>4, TablesWith
<1>4. CASE s.type \in {"dropPrimary", "addPrimary", "addColumn"}
  <2>. DEFINE columns == IF s.type = "addColumn" THEN With(t.columns, s.name, s.column) ELSE t.columns
              primary == CASE s.type = "dropPrimary" -> {} [] s.type = "addPrimary" -> s.columns
                           [] OTHER -> t.primary
              x == Table(columns, primary, t.keys)
  <2>1. Execute(S, s) = With(S, s.table, x)
    BY <1>4 DEF Execute
  <2>2. IsNaming(columns, Columns)
    <3>1. s.type = "addColumn" => s.column \in Columns /\ s.name \in Names
      BY DEF IsStatement
    <3>. HIDE DEF t
    <3>2. CASE s.type = "addColumn"
      BY <1>0, <3>1, <3>2, NamingWith
    <3>3. CASE s.type # "addColumn"
      BY <1>0, <1>4, <3>3
    <3>. QED
      BY <3>2, <3>3
  <2>. HIDE DEF columns, primary
  <2>3. IsTable(x)
    BY <1>0, <1>4, <2>2, TableFields
  <2>. HIDE DEF x
  <2>4. s.table \in Names
    BY <1>0, <1>4
  <2>. QED
    BY <2>1, <2>3, <2>4, TablesWith
<1>. QED
  BY <1>1, <1>2, <1>3, <1>4 DEF IsStatement

-----------------------------------------------------------------------------
(* Types.                                                                  *)

LEMMA NothingIs ==
    /\ DOMAIN Nothing = {} /\ IsFiniteSet(DOMAIN Nothing) /\ IsFunction(Nothing)
    /\ EmptyDb = Db(Nothing, Nothing, Nothing, {})
<1>1. DOMAIN Nothing = {} /\ IsFunction(Nothing)
  BY DEF Nothing, IsFunction
<1>2. EmptyDb = Db(Nothing, Nothing, Nothing, {})
  BY DEF EmptyDb, Db
<1>. QED
  BY <1>1, <1>2, FS_EmptySet

LEMMA TypeInvInit == Init => TypeInv
<1>. SUFFICES ASSUME Init PROVE TypeInv
  OBVIOUS
<1>1. /\ source = Nothing /\ db = Db(Nothing, Nothing, Nothing, {}) /\ pc = "idle" /\ current = NoStatement
      /\ todo = << >> /\ portable = TRUE /\ count = 0 /\ losses = 0
  BY NothingIs DEF Init
<1>2. db.tables = Nothing /\ db.indexes = Nothing /\ db.functions = Nothing /\ db.triggers = {}
  BY <1>1, DbFields
<1>3. TypeOK
  BY <1>1, <1>2, NothingIs, BoundsAssumption DEF TypeOK
<1>4. IsTables(source)
  BY <1>1, NothingIs DEF IsTables
<1>5. IsDb(db)
  BY <1>1, <1>2, NothingIs DEF IsDb
<1>. QED
  BY <1>1, <1>3, <1>4, <1>5 DEF TypeInv

Todo(done) == todo = SubSeq(Commands(current), done + 1, Len(Commands(current)))

\* The next command and what is left after it.
LEMMA Running1 ==
    ASSUME TypeInv, pc = "running", NEW done \in 0..Len(Commands(current)), Todo(done)
    PROVE  /\ IsStatement(current) /\ Accepts(source, current)
           /\ todo = << >> <=> done = Len(Commands(current))
           /\ todo # << >> => /\ done + 1 \in 1..Len(Commands(current)) /\ done + 1 \in 0..Len(Commands(current))
                              /\ Head(todo) = Commands(current)[done + 1] /\ CommandOK(Head(todo))
                              /\ Tail(todo) = SubSeq(Commands(current), done + 1 + 1, Len(Commands(current)))
<1>1. IsStatement(current) /\ Accepts(source, current)
  BY StatementsAssumption DEF TypeInv
<1>. DEFINE cmds == Commands(current)
<1>2. /\ \E X : cmds \in Seq(X)
      /\ \A j \in 1..Len(cmds) : CommandOK(cmds[j])
  BY <1>1, CommandsOK
<1>3. PICK X : cmds \in Seq(X)
  BY <1>2
<1>4. todo = SubSeq(cmds, done + 1, Len(cmds)) /\ done \in 0..Len(cmds)
  BY DEF Todo
<1>. HIDE DEF cmds
<1>5. /\ todo = << >> <=> done = Len(cmds)
      /\ todo # << >> => /\ done + 1 \in 1..Len(cmds) /\ Head(todo) = cmds[done + 1]
                         /\ Tail(todo) = SubSeq(cmds, done + 2, Len(cmds))
  BY <1>3, <1>4, TodoFacts
<1>6. done + 2 = done + 1 + 1
  BY <1>4
<1>7. done + 1 \in 1..Len(cmds) => done + 1 \in 0..Len(cmds)
  BY <1>3, <1>4
<1>8. todo # << >> => CommandOK(Head(todo))
  BY <1>2, <1>5
<1>. QED
  BY <1>1, <1>5, <1>6, <1>7, <1>8 DEF cmds

LEMMA TypeInvSubmit == ASSUME TypeInv, NEW s \in Statements, Submit(s) PROVE TypeInv'
<1>1. /\ Accepts(source, s) /\ current' = s /\ todo' = Commands(s) /\ pc' = "running"
      /\ portable' = (portable /\ Portable(s)) /\ count' = count + 1 /\ count < MaxStatements
      /\ source' = source /\ db' = db /\ losses' = losses
  BY DEF Submit
<1>. DEFINE cmds == Commands(s)
<1>2. \E X : cmds \in Seq(X)
  BY StatementsAssumption, CommandsOK
<1>3. todo' = cmds /\ cmds = Commands(current)'
  BY <1>1
<1>. HIDE DEF cmds
<1>4. cmds = SubSeq(cmds, 1, Len(cmds)) /\ Len(cmds) \in Nat
  BY <1>2, AllToDo
<1>5. \E done \in 0..Len(cmds) : cmds = SubSeq(cmds, done + 1, Len(cmds))
  BY <1>4
<1>6. count' \in 0..MaxStatements /\ losses' \in 0..MaxLosses
  BY <1>1, BoundsAssumption DEF TypeInv, TypeOK
<1>7. portable' \in BOOLEAN
  BY <1>1
<1>8. TypeOK'
  BY <1>1, <1>3, <1>5, <1>6, <1>7 DEF TypeInv, TypeOK
<1>9. IsTables(source') /\ IsDb(db')
  BY <1>1 DEF TypeInv
<1>. QED
  BY <1>1, <1>8, <1>9 DEF TypeInv

LEMMA TypeInvRun == ASSUME TypeInv, RunCommand PROVE TypeInv'
<1>1. /\ pc = "running" /\ todo # << >> /\ Possible(db, Head(todo)) /\ db' = Apply(db, Head(todo))
      /\ todo' = Tail(todo) /\ source' = source /\ pc' = pc /\ current' = current /\ portable' = portable
      /\ count' = count /\ losses' = losses
  BY DEF RunCommand
<1>2. PICK done \in 0..Len(Commands(current)) : Todo(done)
  BY <1>1 DEF TypeInv, TypeOK, Todo
<1>3. /\ CommandOK(Head(todo)) /\ done + 1 \in 0..Len(Commands(current))
      /\ Tail(todo) = SubSeq(Commands(current), done + 1 + 1, Len(Commands(current)))
  BY <1>1, <1>2, Running1
<1>4. IsDb(db')
  BY <1>1, <1>3, DbKept DEF TypeInv
<1>5. /\ \A i \in DOMAIN db'.indexes : db'.indexes[i].table \in DOMAIN db'.tables
      /\ \A g \in db'.triggers : g.table \in DOMAIN db'.tables /\ g.function \in DOMAIN db'.functions
  BY <1>4 DEF IsDb
<1>6. \E k \in 0..Len(Commands(current)') : todo' = SubSeq(Commands(current)', k + 1, Len(Commands(current)'))
  BY <1>1, <1>3
<1>7. TypeOK'
  BY <1>1, <1>5, <1>6 DEF TypeInv, TypeOK
<1>. QED
  BY <1>1, <1>4, <1>7 DEF TypeInv

LEMMA TypeInvRefuse == ASSUME TypeInv, Refuse PROVE TypeInv'
<1>1. /\ pc = "running" /\ pc' = "failed" /\ source' = source /\ db' = db /\ current' = current /\ todo' = todo
      /\ portable' = portable /\ count' = count /\ losses' = losses
  BY DEF Refuse
<1>2. TypeOK'
  BY <1>1 DEF TypeInv, TypeOK
<1>. QED
  BY <1>1, <1>2 DEF TypeInv

LEMMA TypeInvLose == ASSUME TypeInv, LoseConnection PROVE TypeInv'
<1>1. /\ pc = "running" /\ losses < MaxLosses /\ losses' = losses + 1 /\ todo' = Commands(current)
      /\ source' = source /\ db' = db /\ pc' = pc /\ current' = current /\ portable' = portable /\ count' = count
  BY DEF LoseConnection
<1>. DEFINE cmds == Commands(current)
<1>2. \E X : cmds \in Seq(X)
  BY <1>1, StatementsAssumption, CommandsOK DEF TypeInv
<1>3. todo' = cmds /\ cmds = Commands(current)'
  BY <1>1
<1>. HIDE DEF cmds
<1>4. cmds = SubSeq(cmds, 1, Len(cmds)) /\ Len(cmds) \in Nat
  BY <1>2, AllToDo
<1>5. \E done \in 0..Len(cmds) : cmds = SubSeq(cmds, done + 1, Len(cmds))
  BY <1>4
<1>6. losses' \in 0..MaxLosses
  BY <1>1, BoundsAssumption DEF TypeInv, TypeOK
<1>7. TypeOK'
  BY <1>1, <1>3, <1>5, <1>6 DEF TypeInv, TypeOK
<1>. QED
  BY <1>1, <1>7 DEF TypeInv

LEMMA TypeInvComplete == ASSUME TypeInv, Complete PROVE TypeInv'
<1>1. /\ pc = "running" /\ todo = << >> /\ source' = Execute(source, current) /\ pc' = "idle"
      /\ current' = NoStatement /\ db' = db /\ todo' = todo /\ portable' = portable /\ count' = count
      /\ losses' = losses
  BY DEF Complete
<1>2. IsTables(source')
  BY <1>1, StatementsAssumption, TablesExecuted DEF TypeInv
<1>3. TypeOK'
  BY <1>1 DEF TypeInv, TypeOK
<1>. QED
  BY <1>1, <1>2, <1>3 DEF TypeInv

LEMMA TypeInvNext == TypeInv /\ [Next]_vars => TypeInv'
<1>. SUFFICES ASSUME TypeInv, [Next]_vars PROVE TypeInv'
  OBVIOUS
<1>1. CASE UNCHANGED vars
  <2>1. TypeOK'
    BY <1>1 DEF vars, TypeInv, TypeOK
  <2>. QED
    BY <1>1, <2>1 DEF vars, TypeInv
<1>. QED
  BY <1>1, TypeInvSubmit, TypeInvRun, TypeInvRefuse, TypeInvLose, TypeInvComplete DEF Next

LEMMA AlwaysTypeInv == Spec => []TypeInv
  BY TypeInvInit, TypeInvNext, PTL DEF Spec

\* Whatever statements are run and wherever the connection is lost, every index is of
\* a table that exists, every trigger is on one and calls a function that exists,
\* and what is still to be run is the end of the commands of the statement.
THEOREM SchemaTypes == Spec => []TypeOK
<1>1. TypeInv => TypeOK
  BY DEF TypeInv
<1>. QED
  BY <1>1, AlwaysTypeInv, PTL

-----------------------------------------------------------------------------
(* The names of the indexes of primary keys.                               *)

\* Every word of a name of the program.
Words == STRING \cup {"pkey", "1", "trg", "on", "update"}

LEMMA NameWords ==
    ASSUME NEW t \in Names
    PROVE  t \in Seq(Words) /\ Len(t) \in Nat
<1>1. Len(t) \in Nat /\ t \in [1..Len(t) -> STRING]
  BY DEF Names
<1>2. STRING \subseteq Words
  BY DEF Words
<1>. DEFINE n == Len(t)
<1>. HIDE DEF n
<1>3. n \in Nat /\ t \in [1..n -> Words]
  BY <1>1, <1>2 DEF n
<1>. QED
  BY <1>1, <1>3

LEMMA LongerName ==
    ASSUME NEW name \in Seq(Words), NEW n \in Nat
    PROVE  /\ Numbered(name, n) \in Seq(Words)
           /\ Len(Numbered(name, n)) = Len(name) + n
           /\ \A k \in 1..Len(name) : Numbered(name, n)[k] = name[k]
           /\ n > 0 => Numbered(name, n)[Len(Numbered(name, n))] = "1"
<1>. DEFINE strokes == [k \in 1..n |-> "1"]
<1>1. strokes \in Seq(Words) /\ Len(strokes) = n /\ \A k \in 1..n : strokes[k] = "1"
  <2>1. strokes \in [1..n -> Words] /\ \A k \in 1..n : strokes[k] = "1"
    BY DEF Words
  <2>. HIDE DEF strokes
  <2>2. strokes \in Seq(Words)
    BY <2>1
  <2>3. Len(strokes) = n
    BY <2>1
  <2>. QED
    BY <2>1, <2>2, <2>3
<1>2. Numbered(name, n) = name \o strokes
  BY DEF Numbered
<1>. HIDE DEF strokes
<1>. DEFINE c == name \o strokes
<1>3. c \in Seq(Words)
  BY <1>1, ConcatType
<1>4. Len(c) = Len(name) + Len(strokes)
  BY <1>1, ConcatLen
<1>5. \A k \in 1..Len(name) : c[k] = name[k]
  BY <1>1, ConcatFirst
<1>6. \A k \in 1..Len(strokes) : c[Len(name) + k] = strokes[k]
  BY <1>1, ConcatSecond
<1>. HIDE DEF c
<1>7. n > 0 => c[Len(c)] = "1"
  BY <1>1, <1>4, <1>6
<1>. QED
  BY <1>1, <1>2, <1>3, <1>4, <1>5, <1>7 DEF c

LEMMA NotPlain ==
    ASSUME NEW t \in Names
    PROVE  /\ Append(t, "pkey") \in Seq(Words) /\ Len(Append(t, "pkey")) = Len(t) + 1
           /\ Append(t, "pkey")[Len(t) + 1] = "pkey" /\ ~Plain(Append(t, "pkey"))
<1>. DEFINE name == Append(t, "pkey")
<1>1. name \in Seq(Words) /\ Len(name) = Len(t) + 1 /\ name[Len(t) + 1] = "pkey" /\ Len(t) \in Nat
  <2>1. t \in Seq(Words) /\ "pkey" \in Words
    BY NameWords DEF Words
  <2>2. name \in Seq(Words)
    BY <2>1
  <2>3. Len(name) = Len(t) + 1 /\ Len(t) \in Nat
    BY <2>1
  <2>4. name[Len(t) + 1] = "pkey"
    BY <2>1
  <2>. QED
    BY <2>2, <2>3, <2>4
<1>2. Len(t) + 1 \in DOMAIN name
  BY <1>1
<1>. HIDE DEF name
<1>3. ~Plain(name)
  BY <1>1, <1>2 DEF Plain
<1>. QED
  BY <1>1, <1>3 DEF name

\* One of the numbered names is free, there are more of them than names in use.
LEMMA SomeNameIsFree ==
    ASSUME NEW used, IsFiniteSet(used), NEW name \in Seq(Words), name \in used
    PROVE  \E n \in 1..Cardinality(used) : Numbered(name, n) \notin used
<1>. DEFINE N == Cardinality(used)
<1>1. N \in Nat
  BY FS_CardinalityType
<1>2. SUFFICES ASSUME \A n \in 1..N : Numbered(name, n) \in used PROVE FALSE
  OBVIOUS
<1>3. Numbered(name, 0) = name
  BY DEF Numbered
<1>. DEFINE f == [n \in 0..N |-> Numbered(name, n)]
<1>. HIDE DEF N
<1>4. f \in [0..N -> used]
  BY <1>1, <1>2, <1>3
<1>5. IsFiniteSet(0..N) /\ Cardinality(0..N) = N + 1
  BY <1>1, FS_Interval
<1>6. PICK x, y \in 0..N : x # y /\ f[x] = f[y]
  <2>1. Cardinality(used) < Cardinality(0..N)
    BY <1>1, <1>5 DEF N
  <2>. HIDE DEF f
  <2>. QED
    BY <1>4, <1>5, <2>1, FS_PigeonHole
<1>7. Len(Numbered(name, x)) = Len(name) + x /\ Len(Numbered(name, y)) = Len(name) + y
  BY <1>1, LongerName
<1>8. Numbered(name, x) = Numbered(name, y)
  BY <1>6
<1>. QED
  BY <1>1, <1>6, <1>7, <1>8

\* The name for the index of a primary key is free, is none of a table or a key, and
\* is the table's with pkey when that is free.
LEMMA PrimaryNameFacts ==
    ASSUME NEW d, IsFiniteSet(DOMAIN d.tables), IsFiniteSet(DOMAIN d.indexes), NEW t \in Names
    PROVE  LET n == PrimaryName(d, t)
           IN /\ n \notin Relations(d) /\ ~Plain(n)
              /\ Append(t, "pkey") \notin Relations(d) => n = Append(t, "pkey")
              /\ \A u \in Names : Append(u, "pkey") = n => u = t
<1>. DEFINE name == Append(t, "pkey")  r == Relations(d)
            free == {k \in 1..Cardinality(r) : Numbered(name, k) \notin r}
<1>1. IsFiniteSet(r)
  BY FS_Union DEF Relations
<1>2. name \in Seq(Words) /\ ~Plain(name) /\ Len(name) = Len(t) + 1 /\ name[Len(t) + 1] = "pkey"
  BY NotPlain
<1>9. Len(t) \in Nat
  BY NameWords
<1>3. PrimaryName(d, t) = IF name \notin r THEN name ELSE Numbered(name, CHOOSE k \in free : TRUE)
  BY DEF PrimaryName
<1>. HIDE DEF r, name
<1>4. CASE name \notin r
  <2>1. \A u \in Names : Append(u, "pkey") = name => u = t
    <3>1. "pkey" \in Words /\ \A u \in Names : u \in Seq(Words)
      BY NameWords DEF Words
    <3>. QED
      BY <3>1, AppendInjective DEF name
  <2>. QED
    BY <1>2, <1>3, <1>4, <2>1 DEF r, name
<1>5. CASE name \in r
  <2>1. free # {} /\ Cardinality(r) \in Nat
    BY <1>1, <1>2, <1>5, SomeNameIsFree, FS_CardinalityType
  <2>2. PICK k \in free : k = CHOOSE j \in free : TRUE
    BY <2>1
  <2>3. k \in Nat /\ k > 0 /\ Numbered(name, k) \notin r /\ PrimaryName(d, t) = Numbered(name, k)
    BY <1>3, <1>5, <2>1, <2>2
  <2>. DEFINE n == Numbered(name, k)
  <2>4. /\ n \in Seq(Words) /\ Len(n) = Len(name) + k /\ n[Len(n)] = "1"
        /\ \A j \in 1..Len(name) : n[j] = name[j]
    BY <1>2, <2>3, LongerName
  <2>. HIDE DEF n
  <2>5. ~Plain(n)
    <3>1. Len(t) + 1 \in 1..Len(n)
      BY <1>2, <1>9, <2>3, <2>4
    <3>2. n[Len(t) + 1] = "pkey"
      BY <1>2, <1>9, <2>4
    <3>3. Len(t) + 1 \in DOMAIN n
      BY <2>4, <3>1
    <3>. QED
      BY <3>2, <3>3 DEF Plain
  <2>6. \A u \in Names : Append(u, "pkey") # n
    <3>. SUFFICES ASSUME NEW u \in Names, Append(u, "pkey") = n PROVE FALSE
      OBVIOUS
    <3>1. Len(n) = Len(u) + 1 /\ n[Len(u) + 1] = "pkey"
      BY NotPlain
    <3>. QED
      BY <2>4, <3>1
  <2>. QED
    BY <1>5, <2>3, <2>5, <2>6 DEF r, name, n
<1>. QED
  BY <1>4, <1>5

-----------------------------------------------------------------------------
(* What the PostgreSQL holds, after a command.                             *)

Kept(d, S, pending, h) == Represents(d, S, pending) /\ NamesKept(d, h.renamed) /\ FunctionsKept(d, h.updated)

\* A plain name that is none of a table or a key is free.
LEMMA FreeName ==
    ASSUME NEW d, IsDb(d), NEW S, NEW p, NEW h, Kept(d, S, p, h),
           NEW name, Plain(name), name \notin KeysOf(S) \cup DOMAIN S
    PROVE  name \notin Relations(d)
<1>1. name \notin DOMAIN d.tables
  BY DEF Kept, Represents, TablesKept
<1>2. ASSUME name \in DOMAIN d.indexes PROVE FALSE
  <2>1. ~IsPrimary(d, name)
    BY <1>2 DEF Kept, NamesKept
  <2>2. name \in DOMAIN S[d.indexes[name].table].keys
    BY <1>2, <2>1 DEF Kept, Represents, KeysKept
  <2>3. d.indexes[name].table \in DOMAIN S
    BY <1>2 DEF IsDb, Kept, Represents, TablesKept
  <2>. QED
    BY <2>2, <2>3 DEF KeysOf
<1>. QED
  BY <1>1, <1>2 DEF Relations

\* Where only indexes change.
LEMMA IndexesChanged ==
    ASSUME NEW d, IsDb(d), NEW e, e.tables = d.tables, e.functions = d.functions, e.triggers = d.triggers,
           NEW S, NEW S2, DOMAIN S2 = DOMAIN S, \A t \in DOMAIN S : S2[t].columns = S[t].columns,
           NEW p, NEW h, Kept(d, S, p, h)
    PROVE  TablesKept(e, S2) /\ UpdatesKept(e, S2, p) /\ FunctionsKept(e, h.updated)
           /\ \A t \in DOMAIN e.tables : Plain(t)
<1>1. TablesKept(d, S) /\ UpdatesKept(d, S, p) /\ FunctionsKept(d, h.updated) /\ \A t \in DOMAIN d.tables : Plain(t)
  BY DEF Kept, Represents, NamesKept
<1>2. TablesKept(e, S2)
  BY <1>1 DEF TablesKept
<1>3. \A g \in d.triggers : g.table \in DOMAIN S
  BY <1>1 DEF IsDb, TablesKept
<1>4. UpdatesKept(e, S2, p)
  <2>1. \A g \in e.triggers :
            LET c == e.functions[g.function]
            IN c \in DOMAIN S2[g.table].columns /\ S2[g.table].columns[c].onUpdate
    BY <1>1, <1>3 DEF UpdatesKept
  <2>2. \A t \in DOMAIN S2 : \A c \in DOMAIN S2[t].columns :
            S2[t].columns[c].onUpdate /\ <<t, c>> \notin p =>
                \E g \in e.triggers : g.table = t /\ e.functions[g.function] = c
    BY <1>1 DEF UpdatesKept
  <2>. QED
    BY <2>1, <2>2 DEF UpdatesKept
<1>5. FunctionsKept(e, h.updated)
  BY <1>1 DEF FunctionsKept
<1>. QED
  BY <1>1, <1>2, <1>4, <1>5

\* The tables of the MySQL, one with another primary key and other keys.
IsChanged(w, S, t, p, keys) ==
    /\ DOMAIN w = DOMAIN S /\ \A u \in DOMAIN S : w[u].columns = S[u].columns
    /\ w[t].primary = p /\ w[t].keys = keys
    /\ \A u \in DOMAIN S : u # t => w[u].primary = S[u].primary /\ w[u].keys = S[u].keys

LEMMA TableChanged ==
    ASSUME NEW S, NEW t \in DOMAIN S, NEW p, NEW keys
    PROVE  IsChanged(With(S, t, Table(S[t].columns, p, keys)), S, t, p, keys)
<1>. DEFINE x == Table(S[t].columns, p, keys)  w == With(S, t, x)
<1>1. x.columns = S[t].columns /\ x.primary = p /\ x.keys = keys
  BY TableFields
<1>. HIDE DEF x
<1>2. /\ DOMAIN w = DOMAIN S /\ w[t] = x
      /\ \A u \in DOMAIN S : u # t => w[u] = S[u]
  BY DEF With
<1>. HIDE DEF w
<1>3. IsChanged(w, S, t, p, keys)
  BY <1>1, <1>2 DEF IsChanged
<1>. QED
  BY <1>3 DEF w, x

LEMMA IndexAdded ==
    ASSUME NEW d, IsDb(d), NEW S, NEW h, Kept(d, S, {}, h),
           NEW s, IsStatement(s), s.type \in {"createIndex", "addUnique"}, Accepts(S, s),
           Plain(s.name), s.name \notin KeysOf(S) \cup DOMAIN S,
           NEW c, c = Translation(s)[1]
    PROVE  Possible(d, c) /\ Kept(Apply(d, c), Execute(S, s), {}, h)
<1>. DEFINE t == s.table  name == s.name
            key == IF s.type = "createIndex" THEN Key(s.unique, s.columns, FALSE) ELSE Key(TRUE, s.columns, TRUE)
            keys == With(S[t].keys, name, key)
            w == With(S, t, Table(S[t].columns, S[t].primary, keys))
            y == IndexBy(c)
            e == Apply(d, c)
<1>1. c.op = s.type /\ c.table = t /\ c.name = name /\ c.columns = s.columns
  BY DEF Translation, RenderCreateIndex, RenderAlterTableAddUnique
<1>2. t \in DOMAIN S /\ s.columns \subseteq DOMAIN S[t].columns
  BY DEF Accepts
<1>3. Execute(S, s) = w
  BY DEF Execute
<1>4. y = IndexOf(t, key) /\ y.table = t /\ y.kind # "primary"
  <2>1. CASE s.type = "createIndex"
    <3>1. c.unique = s.unique
      BY <2>1 DEF Translation, RenderCreateIndex
    <3>. QED
      BY <1>1, <2>1, <3>1 DEF IndexBy, IndexOf, Index, Key
  <2>2. CASE s.type = "addUnique"
    BY <1>1, <2>2 DEF IndexBy, IndexOf, Index, Key
  <2>. QED
    BY <2>1, <2>2
<1>5. name \notin DOMAIN d.tables /\ name \notin DOMAIN d.indexes
  BY FreeName DEF Relations
<1>6. DOMAIN d.tables = DOMAIN S /\ \A u \in DOMAIN S : DOMAIN d.tables[u] = DOMAIN S[u].columns
  BY DEF Kept, Represents, TablesKept
<1>7. Possible(d, c)
  BY <1>1, <1>2, <1>5, <1>6 DEF Possible, Relations
<1>8. e = Db(d.tables, With(d.indexes, name, y), d.functions, d.triggers)
  <2>1. Shaped(d)
    BY DEF IsDb, Shaped
  <2>. QED
    BY <1>1, <1>5, <2>1, IndexMade
<1>. HIDE DEF y, e, key
<1>9. /\ e.tables = d.tables /\ e.indexes = With(d.indexes, name, y)
      /\ e.functions = d.functions /\ e.triggers = d.triggers
  BY <1>8, DbFields
<1>10. /\ DOMAIN e.indexes = DOMAIN d.indexes \cup {name} /\ e.indexes[name] = y
       /\ \A i \in DOMAIN d.indexes : e.indexes[i] = d.indexes[i]
  BY <1>5, <1>9 DEF With
<1>11. DOMAIN keys = DOMAIN S[t].keys \cup {name} /\ keys[name] = key
       /\ \A k \in DOMAIN S[t].keys : k # name => keys[k] = S[t].keys[k]
  BY DEF With
<1>. HIDE DEF keys
<1>19. IsChanged(w, S, t, S[t].primary, keys)
  BY <1>2, TableChanged
<1>. HIDE DEF w
<1>12. /\ DOMAIN w = DOMAIN S /\ \A u \in DOMAIN S : w[u].columns = S[u].columns
       /\ w[t].primary = S[t].primary /\ w[t].keys = keys
       /\ \A u \in DOMAIN S : u # t => w[u].primary = S[u].primary /\ w[u].keys = S[u].keys
  BY <1>19 DEF IsChanged
<1>13. TablesKept(e, w) /\ UpdatesKept(e, w, {}) /\ FunctionsKept(e, h.updated) /\ \A u \in DOMAIN e.tables : Plain(u)
  BY <1>9, <1>12, IndexesChanged
<1>14. \A i \in DOMAIN d.indexes : d.indexes[i].table \in DOMAIN S
  BY <1>6 DEF IsDb
<1>15. \A i : IsPrimary(e, i) <=> IsPrimary(d, i)
  BY <1>4, <1>5, <1>10 DEF IsPrimary
<1>16. PrimaryKept(e, w)
  <2>1. PrimaryKept(d, S) /\ \A u \in DOMAIN S : w[u].primary = S[u].primary
    BY <1>12 DEF Kept, Represents
  <2>. QED
    BY <1>4, <1>10, <1>12, <1>14, <1>15, <2>1 DEF PrimaryKept, IsPrimary
<1>17. KeysKept(e, w)
  <2>1. KeysKept(d, S)
    BY DEF Kept, Represents
  <2>2. \A i \in DOMAIN e.indexes : ~IsPrimary(e, i) => i \in DOMAIN w[e.indexes[i].table].keys
    BY <1>4, <1>10, <1>11, <1>12, <1>14, <1>15, <2>1 DEF KeysKept
  <2>3. \A u \in DOMAIN w : \A k \in DOMAIN w[u].keys :
            k \in DOMAIN e.indexes /\ e.indexes[k] = IndexOf(u, w[u].keys[k])
    <3>. SUFFICES ASSUME NEW u \in DOMAIN S, NEW k \in DOMAIN w[u].keys
                  PROVE  k \in DOMAIN e.indexes /\ e.indexes[k] = IndexOf(u, w[u].keys[k])
      BY <1>12
    <3>1. CASE u = t /\ k = name
      BY <1>4, <1>10, <1>11, <1>12, <3>1
    <3>2. CASE u # t \/ k # name
      <4>1. k \in DOMAIN S[u].keys /\ w[u].keys[k] = S[u].keys[k]
        BY <1>11, <1>12, <3>2
      <4>2. k \in DOMAIN d.indexes /\ d.indexes[k] = IndexOf(u, S[u].keys[k])
        BY <2>1, <4>1 DEF KeysKept
      <4>. QED
        BY <1>10, <4>1, <4>2
    <3>. QED
      BY <3>1, <3>2
  <2>. QED
    BY <2>2, <2>3 DEF KeysKept
<1>18. NamesKept(e, h.renamed)
  <2>1. NamesKept(d, h.renamed)
    BY DEF Kept
  <2>2. \A u \in Names : Append(u, "pkey") # name
    BY NotPlain
  <2>. HIDE DEF t, name
  <2>3. \A i \in DOMAIN e.indexes : IsPrimary(e, i) <=> ~Plain(i)
    <3>1. Plain(name) /\ ~IsPrimary(e, name)
      BY <1>4, <1>10 DEF IsPrimary, name
    <3>. QED
      BY <1>10, <1>15, <2>1, <3>1 DEF NamesKept
  <2>4. \A i \in DOMAIN e.indexes :
            IsPrimary(e, i) /\ e.indexes[i].table \notin h.renamed => i = Append(e.indexes[i].table, "pkey")
    BY <1>10, <1>15, <2>1 DEF NamesKept, IsPrimary
  <2>5. \A u \in Names \ h.renamed :
            Append(u, "pkey") \in DOMAIN e.indexes => e.indexes[Append(u, "pkey")].table = u
    BY <1>10, <2>1, <2>2 DEF NamesKept
  <2>. QED
    BY <1>13, <2>3, <2>4, <2>5 DEF NamesKept
<1>. QED
  BY <1>3, <1>7, <1>13, <1>16, <1>17, <1>18 DEF Kept, Represents, e

LEMMA IndexRemoved ==
    ASSUME NEW d, IsDb(d), NEW S, IsTables(S), NEW h, Kept(d, S, {}, h),
           NEW s, IsStatement(s), s.type = "dropIndex", Accepts(S, s), ~S[s.table].keys[s.name].constraint,
           NEW c, c = Translation(s)[1]
    PROVE  Possible(d, c) /\ Kept(Apply(d, c), Execute(S, s), {}, h)
<1>. DEFINE t == s.table  name == s.name
            keys == Without(S[t].keys, name)
            w == With(S, t, Table(S[t].columns, S[t].primary, keys))
            e == Apply(d, c)
<1>1. c.op = "dropIndex" /\ c.name = name
  BY DEF Translation, RenderDropIndex
<1>2. t \in DOMAIN S /\ name \in DOMAIN S[t].keys
  BY DEF Accepts
<1>3. Execute(S, s) = w
  BY DEF Execute
<1>4. /\ name \in DOMAIN d.indexes /\ d.indexes[name].kind = "index" /\ d.indexes[name].table = t
  <2>1. name \in DOMAIN d.indexes /\ d.indexes[name] = IndexOf(t, S[t].keys[name])
    BY <1>2 DEF Kept, Represents, KeysKept
  <2>. QED
    BY <2>1, IndexShape DEF IndexOf
<1>5. Possible(d, c)
  BY <1>1, <1>4 DEF Possible
<1>6. e = Db(d.tables, Without(d.indexes, name), d.functions, d.triggers)
  <2>1. Shaped(d)
    BY DEF IsDb, Shaped
  <2>. QED
    BY <1>1, <2>1, IndexDropped
<1>7. DOMAIN keys = DOMAIN S[t].keys \ {name} /\ \A k \in DOMAIN keys : keys[k] = S[t].keys[k]
  BY DEF Without, Restrict
<1>. HIDE DEF e, keys
<1>8. IsChanged(w, S, t, S[t].primary, keys)
  BY <1>2, TableChanged
<1>. HIDE DEF w
<1>9. /\ DOMAIN w = DOMAIN S /\ \A u \in DOMAIN S : w[u].columns = S[u].columns
      /\ w[t].primary = S[t].primary /\ w[t].keys = keys
      /\ \A u \in DOMAIN S : u # t => w[u].primary = S[u].primary /\ w[u].keys = S[u].keys
  BY <1>8 DEF IsChanged
<1>10. /\ e.tables = d.tables /\ e.indexes = Without(d.indexes, name)
       /\ e.functions = d.functions /\ e.triggers = d.triggers
  BY <1>6, DbFields
<1>11. DOMAIN e.indexes = DOMAIN d.indexes \ {name} /\ \A i \in DOMAIN e.indexes : e.indexes[i] = d.indexes[i]
  BY <1>10 DEF Without, Restrict
<1>12. TablesKept(e, w) /\ UpdatesKept(e, w, {}) /\ FunctionsKept(e, h.updated) /\ \A u \in DOMAIN e.tables : Plain(u)
  BY <1>9, <1>10, IndexesChanged
<1>13. \A i \in DOMAIN d.indexes : d.indexes[i].table \in DOMAIN S
  BY DEF IsDb, Kept, Represents, TablesKept
<1>14. \A i : IsPrimary(e, i) <=> IsPrimary(d, i)
  BY <1>4, <1>11 DEF IsPrimary
<1>15. PrimaryKept(e, w)
  <2>1. PrimaryKept(d, S) /\ \A u \in DOMAIN S : w[u].primary = S[u].primary
    BY <1>9 DEF Kept, Represents
  <2>. QED
    BY <1>4, <1>9, <1>11, <1>13, <1>14, <2>1 DEF PrimaryKept, IsPrimary
<1>16. KeysKept(e, w)
  <2>1. KeysKept(d, S)
    BY DEF Kept, Represents
  <2>2. \A i \in DOMAIN e.indexes : ~IsPrimary(e, i) => i \in DOMAIN w[e.indexes[i].table].keys
    BY <1>7, <1>9, <1>11, <1>13, <1>14, <2>1 DEF KeysKept
  <2>3. ASSUME NEW u \in DOMAIN w, NEW k \in DOMAIN w[u].keys
        PROVE  k \in DOMAIN e.indexes /\ e.indexes[k] = IndexOf(u, w[u].keys[k])
    <3>1. k \in DOMAIN S[u].keys /\ w[u].keys[k] = S[u].keys[k] /\ (u = t => k # name)
      BY <1>7, <1>9, <2>3
    <3>2. k \in DOMAIN d.indexes /\ d.indexes[k] = IndexOf(u, S[u].keys[k])
      BY <1>9, <2>1, <2>3, <3>1 DEF KeysKept
    <3>3. d.indexes[k].table = u
      BY <3>2, IndexShape DEF IndexOf
    <3>4. k # name
      BY <1>4, <3>1, <3>3
    <3>. QED
      BY <1>11, <3>1, <3>2, <3>4
  <2>. QED
    BY <2>2, <2>3 DEF KeysKept
<1>17. NamesKept(e, h.renamed)
  BY <1>11, <1>12, <1>14 DEF NamesKept, Kept
<1>. QED
  BY <1>3, <1>5, <1>12, <1>15, <1>16, <1>17 DEF Kept, Represents, e

LEMMA PrimaryRemoved ==
    ASSUME NEW d, IsDb(d), NEW S, IsTables(S), NEW h, Kept(d, S, {}, h),
           NEW s, IsStatement(s), s.type = "dropPrimary", Accepts(S, s), s.table \notin h.renamed,
           NEW c, c = Translation(s)[1]
    PROVE  Possible(d, c) /\ Kept(Apply(d, c), Execute(S, s), {}, h)
<1>. DEFINE t == s.table  name == Append(t, "pkey")
            w == With(S, t, Table(S[t].columns, {}, S[t].keys))
            e == Apply(d, c)
<1>1. c.op = "dropConstraint" /\ c.name = name /\ c.table = t
  BY DEF Translation, RenderAlterTableDropPrimaryKey
<1>2. t \in DOMAIN S /\ S[t].primary # {}
  BY DEF Accepts
<1>3. Execute(S, s) = w
  BY DEF Execute
<1>4. IsPrimary(d, name) /\ d.indexes[name].table = t
  <2>1. PICK i \in DOMAIN d.indexes : IsPrimary(d, i) /\ d.indexes[i].table = t
    BY <1>2 DEF Kept, Represents, PrimaryKept
  <2>2. i = Append(d.indexes[i].table, "pkey")
    BY <2>1 DEF Kept, NamesKept
  <2>. QED
    BY <2>1, <2>2
<1>. HIDE DEF name
<1>5. Possible(d, c)
  BY <1>1, <1>4 DEF Possible, IsPrimary
<1>6. e = Db(d.tables, Without(d.indexes, name), d.functions, d.triggers)
  <2>1. Shaped(d)
    BY DEF IsDb, Shaped
  <2>. QED
    BY <1>1, <2>1, IndexDropped
<1>. HIDE DEF e
<1>8. IsChanged(w, S, t, {}, S[t].keys)
  BY <1>2, TableChanged
<1>. HIDE DEF w
<1>9. /\ DOMAIN w = DOMAIN S /\ \A u \in DOMAIN S : w[u].columns = S[u].columns /\ w[u].keys = S[u].keys
      /\ w[t].primary = {} /\ \A u \in DOMAIN S : u # t => w[u].primary = S[u].primary
  BY <1>8 DEF IsChanged
<1>10. /\ e.tables = d.tables /\ e.indexes = Without(d.indexes, name)
       /\ e.functions = d.functions /\ e.triggers = d.triggers
  BY <1>6, DbFields
<1>11. DOMAIN e.indexes = DOMAIN d.indexes \ {name} /\ \A i \in DOMAIN e.indexes : e.indexes[i] = d.indexes[i]
  BY <1>10 DEF Without, Restrict
<1>12. TablesKept(e, w) /\ UpdatesKept(e, w, {}) /\ FunctionsKept(e, h.updated) /\ \A u \in DOMAIN e.tables : Plain(u)
  BY <1>9, <1>10, IndexesChanged
<1>13. \A i \in DOMAIN d.indexes : d.indexes[i].table \in DOMAIN S
  BY DEF IsDb, Kept, Represents, TablesKept
<1>14. \A i : IsPrimary(e, i) <=> IsPrimary(d, i) /\ i # name
  BY <1>11 DEF IsPrimary
<1>15. PrimaryKept(e, w)
  <2>1. PrimaryKept(d, S)
    BY DEF Kept, Represents
  <2>2. ASSUME NEW i \in DOMAIN e.indexes, IsPrimary(e, i) PROVE e.indexes[i].table # t
    <3>1. i \in DOMAIN d.indexes /\ IsPrimary(d, i) /\ i # name /\ e.indexes[i] = d.indexes[i]
      BY <1>11, <1>14, <2>2
    <3>2. name \in DOMAIN d.indexes
      BY <1>4 DEF IsPrimary
    <3>3. d.indexes[i].table # d.indexes[name].table
      BY <1>4, <2>1, <3>1, <3>2 DEF PrimaryKept
    <3>. QED
      BY <1>4, <3>1, <3>3
  <2>3. \A i \in DOMAIN e.indexes :
            e.indexes[i].kind = "primary" => /\ e.indexes[i].columns = w[e.indexes[i].table].primary
                                             /\ e.indexes[i].columns # {}
    BY <1>9, <1>11, <1>13, <2>1, <2>2 DEF PrimaryKept, IsPrimary
  <2>4. ASSUME NEW u \in DOMAIN w, w[u].primary # {}
        PROVE  \E i \in DOMAIN e.indexes : IsPrimary(e, i) /\ e.indexes[i].table = u
    <3>1. u # t /\ u \in DOMAIN S /\ S[u].primary # {}
      BY <1>9, <2>4
    <3>2. PICK i \in DOMAIN d.indexes : IsPrimary(d, i) /\ d.indexes[i].table = u
      BY <2>1, <3>1 DEF PrimaryKept
    <3>. QED
      BY <1>4, <1>11, <1>14, <3>1, <3>2
  <2>5. \A i, j \in DOMAIN e.indexes :
            IsPrimary(e, i) /\ IsPrimary(e, j) /\ e.indexes[i].table = e.indexes[j].table => i = j
    BY <1>11, <1>14, <2>1 DEF PrimaryKept
  <2>. QED
    BY <2>3, <2>4, <2>5 DEF PrimaryKept
<1>16. KeysKept(e, w)
  <2>1. KeysKept(d, S)
    BY DEF Kept, Represents
  <2>2. \A i \in DOMAIN e.indexes : ~IsPrimary(e, i) => i \in DOMAIN w[e.indexes[i].table].keys
    BY <1>9, <1>11, <1>13, <1>14, <2>1 DEF KeysKept
  <2>3. ASSUME NEW u \in DOMAIN w, NEW k \in DOMAIN w[u].keys
        PROVE  k \in DOMAIN e.indexes /\ e.indexes[k] = IndexOf(u, w[u].keys[k])
    <3>1. k \in DOMAIN d.indexes /\ d.indexes[k] = IndexOf(u, S[u].keys[k]) /\ w[u].keys[k] = S[u].keys[k]
      BY <1>9, <2>1, <2>3 DEF KeysKept
    <3>2. d.indexes[k].kind # "primary"
      BY <3>1, IndexShape DEF IndexOf
    <3>3. k # name
      BY <1>4, <3>2 DEF IsPrimary
    <3>. QED
      BY <1>11, <3>1, <3>3
  <2>. QED
    BY <2>2, <2>3 DEF KeysKept
<1>17. NamesKept(e, h.renamed)
  BY <1>11, <1>12, <1>14 DEF NamesKept, Kept
<1>. QED
  BY <1>3, <1>5, <1>12, <1>15, <1>16, <1>17 DEF Kept, Represents, e

LEMMA PrimaryAdded ==
    ASSUME NEW d, IsDb(d), NEW S, IsTables(S), NEW h, Kept(d, S, {}, h),
           NEW s, IsStatement(s), s.type = "addPrimary", Accepts(S, s),
           NEW c, c = Translation(s)[1]
    PROVE  Possible(d, c) /\ Kept(Apply(d, c), Execute(S, s), {}, h)
<1>. DEFINE t == s.table  name == PrimaryName(d, t)
            y == Index(t, s.columns, TRUE, "primary")
            w == With(S, t, Table(S[t].columns, s.columns, S[t].keys))
            e == Apply(d, c)
<1>1. c.op = "addPrimary" /\ c.columns = s.columns /\ c.table = t
  BY DEF Translation, RenderAlterTableAddPrimary
<1>2. t \in DOMAIN S /\ t \in Names /\ S[t].primary = {} /\ s.columns \subseteq DOMAIN S[t].columns
  BY DEF Accepts, IsStatement
<1>3. Execute(S, s) = w
  BY DEF Execute
<1>4. \A i \in DOMAIN d.indexes : d.indexes[i].table = t => ~IsPrimary(d, i)
  BY <1>2 DEF Kept, Represents, PrimaryKept, IsPrimary
<1>5. DOMAIN d.tables = DOMAIN S /\ DOMAIN d.tables[t] = DOMAIN S[t].columns
  BY <1>2 DEF Kept, Represents, TablesKept
<1>6. Possible(d, c)
  BY <1>1, <1>2, <1>4, <1>5 DEF Possible, IsPrimary
<1>7. e = Db(d.tables, IF s.columns = {} THEN d.indexes ELSE With(d.indexes, name, y), d.functions, d.triggers)
  <2>1. e = WithPrimary(d, t, s.columns)
    BY <1>1 DEF Apply
  <2>. QED
    BY <2>1, PrimaryMade DEF IsDb, Shaped
<1>8. IsChanged(w, S, t, s.columns, S[t].keys)
  BY <1>2, TableChanged
<1>. HIDE DEF w
<1>9. /\ DOMAIN w = DOMAIN S /\ \A u \in DOMAIN S : w[u].columns = S[u].columns /\ w[u].keys = S[u].keys
      /\ w[t].primary = s.columns /\ \A u \in DOMAIN S : u # t => w[u].primary = S[u].primary
  BY <1>8 DEF IsChanged
<1>10. y.table = t /\ y.columns = s.columns /\ y.kind = "primary"
  BY DEF Index
<1>11. /\ name \notin Relations(d) /\ ~Plain(name)
       /\ Append(t, "pkey") \notin Relations(d) => name = Append(t, "pkey")
       /\ \A u \in Names : Append(u, "pkey") = name => u = t
  BY <1>2, PrimaryNameFacts DEF IsDb
<1>12. t \notin h.renamed => name = Append(t, "pkey")
  <2>. SUFFICES ASSUME t \notin h.renamed, Append(t, "pkey") \in Relations(d) PROVE FALSE
    BY <1>11
  <2>1. ~Plain(Append(t, "pkey"))
    BY <1>2, NotPlain
  <2>2. Append(t, "pkey") \in DOMAIN d.indexes
    BY <2>1 DEF Relations, Kept, NamesKept
  <2>3. d.indexes[Append(t, "pkey")].table = t /\ IsPrimary(d, Append(t, "pkey"))
    BY <1>2, <2>1, <2>2 DEF Kept, NamesKept
  <2>. QED
    BY <1>4, <2>2, <2>3
<1>. HIDE DEF e, name, y
<1>13. /\ e.tables = d.tables /\ e.functions = d.functions /\ e.triggers = d.triggers
       /\ e.indexes = IF s.columns = {} THEN d.indexes ELSE With(d.indexes, name, y)
  BY <1>7, DbFields
<1>14. TablesKept(e, w) /\ UpdatesKept(e, w, {}) /\ FunctionsKept(e, h.updated) /\ \A u \in DOMAIN e.tables : Plain(u)
  BY <1>9, <1>13, IndexesChanged
<1>15. \A i \in DOMAIN d.indexes : d.indexes[i].table \in DOMAIN S
  BY <1>5 DEF IsDb
<1>16. PrimaryKept(d, S) /\ KeysKept(d, S) /\ NamesKept(d, h.renamed)
  BY DEF Kept, Represents
<1>17. CASE s.columns = {}
  <2>1. e.indexes = d.indexes /\ \A u \in DOMAIN S : w[u].primary = S[u].primary
    BY <1>2, <1>9, <1>13, <1>17
  <2>2. \A i : IsPrimary(e, i) <=> IsPrimary(d, i)
    BY <2>1 DEF IsPrimary
  <2>3. PrimaryKept(e, w)
    BY <1>9, <1>15, <1>16, <2>1, <2>2 DEF PrimaryKept
  <2>4. KeysKept(e, w)
    BY <1>9, <1>15, <1>16, <2>1, <2>2 DEF KeysKept
  <2>5. NamesKept(e, h.renamed)
    BY <1>13, <1>16, <2>1, <2>2 DEF NamesKept
  <2>. QED
    BY <1>3, <1>6, <1>14, <2>3, <2>4, <2>5 DEF Kept, Represents, e
<1>18. CASE s.columns # {}
  <2>1. /\ DOMAIN e.indexes = DOMAIN d.indexes \cup {name} /\ e.indexes[name] = y
        /\ \A i \in DOMAIN d.indexes : e.indexes[i] = d.indexes[i]
    BY <1>11, <1>13, <1>18 DEF With, Relations
  <2>2. \A i : IsPrimary(e, i) <=> IsPrimary(d, i) \/ i = name
    BY <1>10, <2>1 DEF IsPrimary
  <2>3. PrimaryKept(e, w)
    <3>1. \A i \in DOMAIN e.indexes :
              e.indexes[i].kind = "primary" => /\ e.indexes[i].columns = w[e.indexes[i].table].primary
                                               /\ e.indexes[i].columns # {}
      BY <1>4, <1>9, <1>10, <1>15, <1>16, <1>18, <2>1 DEF PrimaryKept, IsPrimary
    <3>2. \A u \in DOMAIN w :
              w[u].primary # {} => \E i \in DOMAIN e.indexes : IsPrimary(e, i) /\ e.indexes[i].table = u
      BY <1>9, <1>10, <1>16, <2>1, <2>2 DEF PrimaryKept
    <3>3. \A i, j \in DOMAIN e.indexes :
              IsPrimary(e, i) /\ IsPrimary(e, j) /\ e.indexes[i].table = e.indexes[j].table => i = j
      BY <1>4, <1>10, <1>16, <2>1, <2>2 DEF PrimaryKept
    <3>. QED
      BY <3>1, <3>2, <3>3 DEF PrimaryKept
  <2>4. KeysKept(e, w)
    BY <1>9, <1>15, <1>16, <2>1, <2>2 DEF KeysKept
  <2>5. NamesKept(e, h.renamed)
    <3>1. \A i \in DOMAIN e.indexes : IsPrimary(e, i) <=> ~Plain(i)
      BY <1>11, <1>16, <2>1, <2>2 DEF NamesKept
    <3>2. \A i \in DOMAIN e.indexes :
              IsPrimary(e, i) /\ e.indexes[i].table \notin h.renamed => i = Append(e.indexes[i].table, "pkey")
      BY <1>10, <1>12, <1>16, <2>1, <2>2 DEF NamesKept, IsPrimary
    <3>3. \A u \in Names \ h.renamed :
              Append(u, "pkey") \in DOMAIN e.indexes => e.indexes[Append(u, "pkey")].table = u
      BY <1>10, <1>11, <1>16, <2>1 DEF NamesKept
    <3>. QED
      BY <1>14, <3>1, <3>2, <3>3 DEF NamesKept
  <2>. QED
    BY <1>3, <1>6, <1>14, <2>3, <2>4, <2>5 DEF Kept, Represents, e
<1>. QED
  BY <1>17, <1>18

-----------------------------------------------------------------------------
(* Columns.                                                                *)

ColumnOf(type, auto, onUpdate) == [type |-> type, auto |-> auto, onUpdate |-> onUpdate]

LEMMA ColumnShape ==
    ASSUME NEW column \in Columns
    PROVE  /\ column = ColumnOf(column.type, column.auto, column.onUpdate)
           /\ column.onUpdate \in BOOLEAN /\ column.auto \in BOOLEAN /\ column.type \in STRING
  BY DEF Columns, ColumnOf

LEMMA ColumnRendered ==
    ASSUME NEW column \in Columns
    PROVE  RenderCreateTableColumn(column) = ColumnOf(RewriteCreateTableType(column.type), column.auto, FALSE)
<1>1. PICK v, no : v = RewriteCreateTableType(column.type) /\ no = FALSE
  OBVIOUS
<1>2. PICK a, b, u : column = ColumnOf(a, b, u) /\ b = column.auto
  BY ColumnShape
<1>. DEFINE y == [column EXCEPT !.type = v]
<1>3. RenderCreateTableColumn(column) = [y EXCEPT !.onUpdate = no]
  BY <1>1 DEF RenderCreateTableColumn
<1>4. y = ColumnOf(v, b, u)
  BY <1>2 DEF ColumnOf
<1>. HIDE DEF y
<1>5. [y EXCEPT !.onUpdate = no] = ColumnOf(v, b, no)
  BY <1>4 DEF ColumnOf
<1>. QED
  BY <1>1, <1>2, <1>3, <1>5

\* What is read back from the PostgreSQL is the column.
LEMMA ColumnReadBack ==
    ASSUME NEW column \in Columns, NEW m \in BOOLEAN, m <=> column.onUpdate,
           SourceType(RewriteCreateTableType(column.type)) = column.type
    PROVE  [RenderCreateTableColumn(column) EXCEPT !.type = SourceType(@), !.onUpdate = m] = column
<1>1. PICK r, v, a, b, u : /\ r = RenderCreateTableColumn(column) /\ v = column.type
                           /\ r = ColumnOf(a, b, u) /\ b = column.auto
                           /\ a = RewriteCreateTableType(column.type)
  BY ColumnRendered
<1>. DEFINE y == [r EXCEPT !.type = v]
<1>2. SourceType(r.type) = v
  BY <1>1 DEF ColumnOf
<1>3. [RenderCreateTableColumn(column) EXCEPT !.type = SourceType(@), !.onUpdate = m] = [y EXCEPT !.onUpdate = m]
  BY <1>1, <1>2
<1>4. y = ColumnOf(v, b, u)
  BY <1>1 DEF ColumnOf
<1>. HIDE DEF y
<1>5. [y EXCEPT !.onUpdate = m] = ColumnOf(v, b, m)
  BY <1>4 DEF ColumnOf
<1>6. m = column.onUpdate
  BY ColumnShape
<1>7. column = ColumnOf(column.type, column.auto, column.onUpdate)
  BY ColumnShape
<1>. QED
  BY <1>1, <1>3, <1>5, <1>6, <1>7

LEMMA ColumnCarried ==
    ASSUME NEW d, IsDb(d), NEW S, IsTables(S), NEW h, Kept(d, S, {}, h),
           NEW s, IsStatement(s), s.type = "addColumn", Accepts(S, s),
           RewriteCreateTableType(s.column.type) \in PgTypes, ~s.column.onUpdate,
           NEW c, c = Translation(s)[1]
    PROVE  Possible(d, c) /\ Kept(Apply(d, c), Execute(S, s), {}, h)
<1>. DEFINE t == s.table  name == s.name  column == s.column
            columns == With(S[t].columns, name, column)
            x == Table(columns, S[t].primary, S[t].keys)
            w == With(S, t, x)
            e == Apply(d, c)
<1>1. c.op = "addColumn" /\ c.name = name /\ c.table = t /\ c.column = RenderCreateTableColumn(column)
  BY DEF Translation, RenderAlterTableAddColumn
<1>2. t \in DOMAIN S /\ name \notin DOMAIN S[t].columns
  BY DEF Accepts
<1>3. Execute(S, s) = w
  BY DEF Execute
<1>4. column \in Columns
  BY DEF IsStatement
<1>5. RenderCreateTableColumn(column).type \in PgTypes
  <2>1. RenderCreateTableColumn(column).type = RewriteCreateTableType(column.type)
    BY <1>4, ColumnRendered DEF ColumnOf
  <2>. QED
    BY <2>1
<1>. HIDE DEF column
<1>6. DOMAIN d.tables = DOMAIN S
      /\ \A u \in DOMAIN S : d.tables[u] = [k \in DOMAIN S[u].columns |-> RenderCreateTableColumn(S[u].columns[k])]
  BY DEF Kept, Represents, TablesKept
<1>7. DOMAIN d.tables[t] = DOMAIN S[t].columns
  BY <1>2, <1>6
<1>8. Possible(d, c)
  BY <1>1, <1>2, <1>5, <1>6, <1>7 DEF Possible
<1>9. PICK tables : /\ e = Db(tables, d.indexes, d.functions, d.triggers)
                    /\ DOMAIN tables = DOMAIN d.tables
                    /\ tables[t] = With(d.tables[t], name, RenderCreateTableColumn(column))
                    /\ \A u \in DOMAIN d.tables : u # t => tables[u] = d.tables[u]
  BY <1>1, <1>2, <1>6, ColumnAdded DEF IsDb, Shaped
<1>. HIDE DEF e
<1>10. e.tables = tables /\ e.indexes = d.indexes /\ e.functions = d.functions /\ e.triggers = d.triggers
  BY <1>9, DbFields
<1>11. x.columns = columns /\ x.primary = S[t].primary /\ x.keys = S[t].keys
  BY TableFields
<1>. HIDE DEF x
<1>12. DOMAIN w = DOMAIN S /\ w[t] = x /\ \A u \in DOMAIN S : u # t => w[u] = S[u]
  BY <1>2 DEF With
<1>. HIDE DEF w
<1>13. /\ DOMAIN columns = DOMAIN S[t].columns \cup {name} /\ columns[name] = column
       /\ \A k \in DOMAIN S[t].columns : columns[k] = S[t].columns[k]
  BY <1>2 DEF With
<1>14. tables[t] = [k \in DOMAIN columns |-> RenderCreateTableColumn(columns[k])]
  <2>. DEFINE v == With(d.tables[t], name, RenderCreateTableColumn(column))
  <2>1. v = [k \in DOMAIN S[t].columns \cup {name} |-> IF k = name THEN RenderCreateTableColumn(column) ELSE d.tables[t][k]]
    BY <1>7 DEF With
  <2>2. \A k \in DOMAIN S[t].columns : d.tables[t][k] = RenderCreateTableColumn(S[t].columns[k])
    BY <1>2, <1>6
  <2>. HIDE DEF columns, v
  <2>3. v = [k \in DOMAIN columns |-> RenderCreateTableColumn(columns[k])]
    BY <1>13, <2>1, <2>2
  <2>. QED
    BY <1>9, <2>3 DEF v
<1>. HIDE DEF columns
<1>15. Represents(d, S, {}) /\ NamesKept(d, h.renamed) /\ FunctionsKept(d, h.updated)
  BY DEF Kept
<1>16. TablesKept(e, w)
  <2>1. \A u \in DOMAIN S : tables[u] = [k \in DOMAIN w[u].columns |-> RenderCreateTableColumn(w[u].columns[k])]
    BY <1>6, <1>9, <1>11, <1>12, <1>14
  <2>. QED
    BY <1>6, <1>9, <1>10, <1>12, <2>1 DEF TablesKept
<1>17. \A u \in DOMAIN S : w[u].primary = S[u].primary /\ w[u].keys = S[u].keys
  BY <1>11, <1>12
<1>18. \A i \in DOMAIN d.indexes : d.indexes[i].table \in DOMAIN S
  BY <1>6 DEF IsDb
<1>19. \A g \in d.triggers : g.table \in DOMAIN S
  BY <1>6 DEF IsDb
<1>20. \A i : IsPrimary(e, i) <=> IsPrimary(d, i)
  BY <1>10 DEF IsPrimary
<1>21. PrimaryKept(e, w)
  BY <1>10, <1>12, <1>15, <1>17, <1>18, <1>20 DEF Represents, PrimaryKept
<1>22. KeysKept(e, w)
  BY <1>10, <1>12, <1>15, <1>17, <1>18, <1>20 DEF Represents, KeysKept
<1>23. UpdatesKept(e, w, {})
  <2>1. UpdatesKept(d, S, {})
    BY <1>15 DEF Represents
  <2>2. \A u \in DOMAIN S : \A k \in DOMAIN S[u].columns :
            k \in DOMAIN w[u].columns /\ w[u].columns[k] = S[u].columns[k]
    BY <1>11, <1>12, <1>13
  <2>3. \A u \in DOMAIN S : \A k \in DOMAIN w[u].columns :
            k \in DOMAIN S[u].columns \/ ~w[u].columns[k].onUpdate
    BY <1>11, <1>12, <1>13 DEF column
  <2>4. \A g \in e.triggers :
          LET k == e.functions[g.function]
          IN k \in DOMAIN w[g.table].columns /\ w[g.table].columns[k].onUpdate
    BY <1>10, <1>19, <2>1, <2>2 DEF UpdatesKept
  <2>5. ASSUME NEW u \in DOMAIN w, NEW k \in DOMAIN w[u].columns, w[u].columns[k].onUpdate
        PROVE  \E g \in e.triggers : g.table = u /\ e.functions[g.function] = k
    <3>1. u \in DOMAIN S /\ k \in DOMAIN S[u].columns /\ S[u].columns[k].onUpdate
      BY <1>12, <2>2, <2>3, <2>5
    <3>. QED
      BY <1>10, <2>1, <3>1 DEF UpdatesKept
  <2>. QED
    BY <2>4, <2>5 DEF UpdatesKept
<1>24. NamesKept(e, h.renamed)
  <2>1. DOMAIN e.tables = DOMAIN d.tables
    BY <1>9, <1>10
  <2>. QED
    BY <1>10, <1>15, <1>20, <2>1 DEF NamesKept
<1>25. FunctionsKept(e, h.updated)
  BY <1>10, <1>15 DEF FunctionsKept
<1>. QED
  BY <1>3, <1>8, <1>16, <1>21, <1>22, <1>23, <1>24, <1>25 DEF Kept, Represents, e

-----------------------------------------------------------------------------
(* A table under another name.                                             *)

\* w has the things of f, old under the name new.
IsMoved(w, f, c) ==
    /\ \A t \in DOMAIN f : Renames(t, c) \in DOMAIN w /\ w[Renames(t, c)] = f[t]
    /\ \A u \in DOMAIN w : \E t \in DOMAIN f : u = Renames(t, c)

LEMMA MovedFacts ==
    ASSUME NEW f, NEW c, c.old \in DOMAIN f, c.new \notin DOMAIN f
    PROVE  IsMoved(Moved(f, c.old, c.new), f, c)
<1>. DEFINE w == Moved(f, c.old, c.new)
<1>1. w = Replaced(f, c.old, c.new)
  BY MovedIs
<1>. HIDE DEF w
<1>2. /\ DOMAIN w = (DOMAIN f \ {c.old}) \cup {c.new} /\ w[c.new] = f[c.old]
      /\ \A t \in DOMAIN f : t # c.old => w[t] = f[t]
  BY <1>1 DEF Replaced
<1>3. IsMoved(w, f, c)
  BY <1>2 DEF IsMoved, Renames
<1>. QED
  BY <1>3 DEF w

LEMMA RenameCarried ==
    ASSUME NEW d, IsDb(d), NEW S, NEW h, Kept(d, S, {}, h),
           NEW c, c.op = "renameTable", c.old \in DOMAIN S, c.new \notin DOMAIN S \cup DOMAIN d.indexes,
           Plain(c.new), c.old \in h.renamed, c.new \in h.renamed
    PROVE  /\ Possible(d, c) /\ Kept(Apply(d, c), Moved(S, c.old, c.new), {}, h)
           /\ DOMAIN Apply(d, c).indexes = DOMAIN d.indexes
<1>. DEFINE a == Moved(d.tables, c.old, c.new)
            b == MovedIndexes(d.indexes, c)
            g1 == MovedTriggers(d.triggers, c)
            w == Moved(S, c.old, c.new)
            e == Apply(d, c)
<1>1. /\ TablesKept(d, S) /\ PrimaryKept(d, S) /\ KeysKept(d, S) /\ UpdatesKept(d, S, {})
      /\ NamesKept(d, h.renamed) /\ FunctionsKept(d, h.updated)
  BY DEF Kept, Represents
<1>2. DOMAIN d.tables = DOMAIN S
  BY <1>1 DEF TablesKept
<1>3. Possible(d, c)
  BY <1>2 DEF Possible, Relations
<1>4. e = Db(a, b, d.functions, g1)
  BY TableRenamed
<1>5. IsMoved(a, d.tables, c)
  BY <1>2, MovedFacts
<1>6. IsMoved(w, S, c)
  BY MovedFacts
<1>. HIDE DEF a, b, g1, w, e
<1>7. e.tables = a /\ e.indexes = b /\ e.functions = d.functions /\ e.triggers = g1
  BY <1>4, DbFields
<1>8. \A t, u \in DOMAIN S : Renames(t, c) = Renames(u, c) => t = u
  BY DEF Renames
<1>9. DOMAIN b = DOMAIN d.indexes
      /\ \A i \in DOMAIN b : b[i] = Index(Renames(d.indexes[i].table, c), d.indexes[i].columns, d.indexes[i].unique,
                                          d.indexes[i].kind)
  BY DEF b, MovedIndexes
<1>10. \A i \in DOMAIN b : /\ b[i].table = Renames(d.indexes[i].table, c) /\ b[i].columns = d.indexes[i].columns
                           /\ b[i].kind = d.indexes[i].kind
  BY <1>9, IndexShape
<1>11. \A i \in DOMAIN d.indexes : d.indexes[i].table \in DOMAIN S /\ IsIndex(d.indexes[i])
  BY <1>2 DEF IsDb
<1>12. \A i : IsPrimary(e, i) <=> IsPrimary(d, i)
  BY <1>7, <1>9, <1>10 DEF IsPrimary
<1>13. TablesKept(e, w)
  <2>1. DOMAIN a = DOMAIN w
    BY <1>2, <1>5, <1>6 DEF IsMoved
  <2>2. ASSUME NEW u \in DOMAIN w
        PROVE  a[u] = [k \in DOMAIN w[u].columns |-> RenderCreateTableColumn(w[u].columns[k])]
    <3>1. PICK t \in DOMAIN S : u = Renames(t, c)
      BY <1>6 DEF IsMoved
    <3>2. w[u] = S[t] /\ a[u] = d.tables[t]
      BY <1>2, <1>5, <1>6, <3>1 DEF IsMoved
    <3>3. d.tables[t] = [k \in DOMAIN S[t].columns |-> RenderCreateTableColumn(S[t].columns[k])]
      BY <1>1 DEF TablesKept
    <3>. QED
      BY <3>2, <3>3
  <2>. QED
    BY <1>7, <2>1, <2>2 DEF TablesKept
<1>14. PrimaryKept(e, w)
  <2>1. \A i \in DOMAIN b : b[i].kind = "primary" => b[i].columns = w[b[i].table].primary /\ b[i].columns # {}
    BY <1>1, <1>6, <1>9, <1>10, <1>11 DEF PrimaryKept, IsMoved
  <2>2. ASSUME NEW u \in DOMAIN w, w[u].primary # {}
        PROVE  \E i \in DOMAIN b : IsPrimary(e, i) /\ b[i].table = u
    <3>1. PICK t \in DOMAIN S : u = Renames(t, c)
      BY <1>6 DEF IsMoved
    <3>2. S[t].primary # {}
      BY <1>6, <2>2, <3>1 DEF IsMoved
    <3>3. PICK i \in DOMAIN d.indexes : IsPrimary(d, i) /\ d.indexes[i].table = t
      BY <1>1, <3>2 DEF PrimaryKept
    <3>. QED
      BY <1>9, <1>10, <1>12, <3>1, <3>3
  <2>3. \A i, j \in DOMAIN b : IsPrimary(e, i) /\ IsPrimary(e, j) /\ b[i].table = b[j].table => i = j
    BY <1>1, <1>8, <1>9, <1>10, <1>11, <1>12 DEF PrimaryKept
  <2>. QED
    BY <1>7, <2>1, <2>2, <2>3 DEF PrimaryKept
<1>15. KeysKept(e, w)
  <2>1. \A i \in DOMAIN b : ~IsPrimary(e, i) => i \in DOMAIN w[b[i].table].keys
    BY <1>1, <1>6, <1>9, <1>10, <1>11, <1>12 DEF KeysKept, IsMoved
  <2>2. ASSUME NEW u \in DOMAIN w, NEW k \in DOMAIN w[u].keys
        PROVE  k \in DOMAIN b /\ b[k] = IndexOf(u, w[u].keys[k])
    <3>1. PICK t \in DOMAIN S : u = Renames(t, c)
      BY <1>6 DEF IsMoved
    <3>2. w[u] = S[t] /\ k \in DOMAIN S[t].keys
      BY <1>6, <2>2, <3>1 DEF IsMoved
    <3>. DEFINE key == S[t].keys[k]  kind == IF key.constraint THEN "unique" ELSE "index"
    <3>. HIDE DEF kind
    <3>3. k \in DOMAIN d.indexes /\ d.indexes[k] = Index(t, key.columns, key.unique, kind)
      BY <1>1, <3>2 DEF KeysKept, IndexOf, kind
    <3>. HIDE DEF key
    <3>4. b[k] = Index(u, key.columns, key.unique, kind)
      BY <1>9, <3>1, <3>3, IndexShape
    <3>. QED
      BY <1>9, <3>2, <3>3, <3>4 DEF IndexOf, key, kind
  <2>. QED
    BY <1>7, <2>1, <2>2 DEF KeysKept
<1>16. /\ \A g \in d.triggers : Trigger(g.name, Renames(g.table, c), g.function) \in g1 /\ g.table \in DOMAIN S
       /\ \A q \in g1 : \E g \in d.triggers : q = Trigger(g.name, Renames(g.table, c), g.function)
  BY <1>2 DEF g1, MovedTriggers, IsDb
<1>17. UpdatesKept(e, w, {})
  <2>1. ASSUME NEW q \in g1
        PROVE  LET k == d.functions[q.function] IN k \in DOMAIN w[q.table].columns /\ w[q.table].columns[k].onUpdate
    <3>1. PICK g \in d.triggers : q = Trigger(g.name, Renames(g.table, c), g.function)
      BY <1>16
    <3>2. q.table = Renames(g.table, c) /\ q.function = g.function
      BY <3>1, TriggerShape
    <3>3. g.table \in DOMAIN S /\ w[q.table] = S[g.table]
      BY <1>6, <1>16, <3>2 DEF IsMoved
    <3>. QED
      BY <1>1, <3>2, <3>3 DEF UpdatesKept
  <2>2. ASSUME NEW u \in DOMAIN w, NEW k \in DOMAIN w[u].columns, w[u].columns[k].onUpdate
        PROVE  \E q \in g1 : q.table = u /\ d.functions[q.function] = k
    <3>1. PICK t \in DOMAIN S : u = Renames(t, c)
      BY <1>6 DEF IsMoved
    <3>2. w[u] = S[t]
      BY <1>6, <3>1 DEF IsMoved
    <3>3. PICK g \in d.triggers : g.table = t /\ d.functions[g.function] = k
      BY <1>1, <2>2, <3>2 DEF UpdatesKept
    <3>. DEFINE q == Trigger(g.name, Renames(g.table, c), g.function)
    <3>4. q.table = u /\ q.function = g.function /\ q \in g1
      BY <1>16, <3>1, <3>3, TriggerShape
    <3>. QED
      BY <3>3, <3>4
  <2>. QED
    BY <1>7, <2>1, <2>2 DEF UpdatesKept
<1>18. NamesKept(e, h.renamed)
  <2>1. \A u \in DOMAIN a : Plain(u)
    BY <1>1, <1>5 DEF NamesKept, IsMoved, Renames
  <2>2. \A i \in DOMAIN b : IsPrimary(e, i) <=> ~Plain(i)
    BY <1>1, <1>9, <1>12 DEF NamesKept
  <2>3. \A i \in DOMAIN b : IsPrimary(e, i) /\ b[i].table \notin h.renamed => i = Append(b[i].table, "pkey")
    BY <1>1, <1>9, <1>10, <1>12 DEF NamesKept, Renames
  <2>4. \A u \in Names \ h.renamed : Append(u, "pkey") \in DOMAIN b => b[Append(u, "pkey")].table = u
    <3>1. ASSUME NEW u \in Names \ h.renamed, Append(u, "pkey") \in DOMAIN b PROVE b[Append(u, "pkey")].table = u
      <4>1. d.indexes[Append(u, "pkey")].table = u
        BY <1>1, <1>9, <3>1 DEF NamesKept
      <4>2. Renames(u, c) = u
        BY DEF Renames
      <4>. QED
        BY <1>10, <3>1, <4>1, <4>2
    <3>. QED
      BY <3>1
  <2>. QED
    BY <1>7, <2>1, <2>2, <2>3, <2>4 DEF NamesKept
<1>19. FunctionsKept(e, h.updated)
  <2>1. \A q \in g1 : q.name = Append(q.function, "trg")
    <3>1. ASSUME NEW q \in g1 PROVE q.name = Append(q.function, "trg")
      <4>1. PICK g \in d.triggers : q = Trigger(g.name, Renames(g.table, c), g.function)
        BY <1>16
      <4>2. q.name = g.name /\ q.function = g.function
        BY <4>1, TriggerShape
      <4>. QED
        BY <1>1, <4>2 DEF FunctionsKept
    <3>. QED
      BY <3>1
  <2>. QED
    BY <1>1, <1>7, <2>1 DEF FunctionsKept
<1>. QED
  BY <1>3, <1>7, <1>9, <1>13, <1>14, <1>15, <1>17, <1>18, <1>19 DEF Kept, Represents, e, w

-----------------------------------------------------------------------------
(* A new table.                                                            *)

LEMMA TableRendered ==
    ASSUME NEW s
    PROVE  LET c == RenderCreateTable(s)
           IN /\ c.op = "createTable" /\ c.table = s.table /\ c.ifNotExists = s.ifNotExists
              /\ c.primary = s.primary /\ c.keys = s.keys
              /\ c.columns = [k \in DOMAIN s.columns |-> RenderCreateTableColumn(s.columns[k])]
  BY DEF RenderCreateTable

LEMMA TableCarried ==
    ASSUME NEW d, IsDb(d), NEW S, IsTables(S), NEW h, Kept(d, S, {}, h),
           NEW s, IsStatement(s), s.type = "createTable", s.table \notin DOMAIN S,
           Plain(s.table), s.table \notin KeysOf(S) \cup DOMAIN s.keys,
           \A k \in DOMAIN s.keys : Plain(k) /\ k \notin KeysOf(S) \cup DOMAIN S /\ s.keys[k].constraint,
           \A k \in DOMAIN s.columns : RewriteCreateTableType(s.columns[k].type) \in PgTypes,
           NEW p, \A k \in DOMAIN s.columns : s.columns[k].onUpdate => <<s.table, k>> \in p,
           NEW c, c = RenderCreateTable(s)
    PROVE  Possible(d, c) /\ Kept(Apply(d, c), Execute(S, s), p, h)
<1>. DEFINE t == s.table
            x == Table(s.columns, s.primary, s.keys)
            w == With(S, t, x)
            tables == With(d.tables, t, c.columns)
            e0 == Db(tables, d.indexes, d.functions, d.triggers)
            name == PrimaryName(e0, t)
            y == Index(t, s.primary, TRUE, "primary")
            ix == IF s.primary = {} THEN d.indexes ELSE With(d.indexes, name, y)
            ks == KeyIndexes(c)
            all == Merged(ks, ix)
            e == Apply(d, c)
<1>1. /\ c.op = "createTable" /\ c.table = t /\ c.ifNotExists = s.ifNotExists
      /\ c.primary = s.primary /\ c.keys = s.keys
      /\ c.columns = [k \in DOMAIN s.columns |-> RenderCreateTableColumn(s.columns[k])]
  BY TableRendered
<1>2. t \in Names /\ IsNaming(s.columns, Columns) /\ IsNaming(s.keys, Keys)
  BY TableFacts
<1>3. Execute(S, s) = w
  BY DEF Execute
<1>4. /\ TablesKept(d, S) /\ PrimaryKept(d, S) /\ KeysKept(d, S) /\ UpdatesKept(d, S, {})
      /\ NamesKept(d, h.renamed) /\ FunctionsKept(d, h.updated)
  BY DEF Kept, Represents
<1>5. DOMAIN d.tables = DOMAIN S
  BY <1>4 DEF TablesKept
<1>6. t \notin Relations(d) /\ \A k \in DOMAIN s.keys : k \notin Relations(d)
  BY FreeName
<1>7. \A k \in DOMAIN c.columns : c.columns[k].type \in PgTypes
  <2>1. \A k \in DOMAIN s.columns : RenderCreateTableColumn(s.columns[k]).type = RewriteCreateTableType(s.columns[k].type)
    <3>1. \A v \in Columns : RenderCreateTableColumn(v).type = RewriteCreateTableType(v.type)
      BY ColumnRendered DEF ColumnOf
    <3>. QED
      BY <1>2, <3>1 DEF IsNaming
  <2>. QED
    BY <1>1, <2>1
<1>8. Possible(d, c)
  BY <1>1, <1>6, <1>7 DEF Possible
<1>9. e = Db(tables, Merged(ks, WithPrimary(e0, t, s.primary).indexes), d.functions, d.triggers)
  <2>1. Shaped(d) /\ t \notin DOMAIN d.tables
    BY <1>5 DEF IsDb, Shaped
  <2>. QED
    BY <1>1, <2>1, TableMade
<1>10. e0.tables = tables /\ e0.indexes = d.indexes /\ e0.functions = d.functions /\ e0.triggers = d.triggers
       /\ Shaped(e0)
  BY DbFields DEF Shaped
<1>11. WithPrimary(e0, t, s.primary).indexes = ix
  <2>. HIDE DEF e0, y
  <2>. DEFINE q == WithPrimary(e0, t, s.primary)
  <2>1. q = Db(e0.tables, IF s.primary = {} THEN e0.indexes ELSE With(e0.indexes, name, y), e0.functions, e0.triggers)
    <3>1. q = Db(e0.tables,
                 IF s.primary = {} THEN e0.indexes
                 ELSE With(e0.indexes, PrimaryName(e0, t), Index(t, s.primary, TRUE, "primary")),
                 e0.functions, e0.triggers)
      BY <1>10, PrimaryMade, ZenonT(40)
    <3>. QED
      BY <3>1 DEF y
  <2>. HIDE DEF q
  <2>2. q.indexes = IF s.primary = {} THEN e0.indexes ELSE With(e0.indexes, name, y)
    BY <2>1, DbFields
  <2>. QED
    BY <1>10, <2>2 DEF q
<1>12. DOMAIN tables = DOMAIN S \cup {t} /\ tables[t] = c.columns /\ \A u \in DOMAIN S : tables[u] = d.tables[u]
  BY <1>5 DEF With
<1>13. /\ name \notin DOMAIN tables \cup DOMAIN d.indexes /\ ~Plain(name)
       /\ Append(t, "pkey") \notin DOMAIN tables \cup DOMAIN d.indexes => name = Append(t, "pkey")
       /\ \A u \in Names : Append(u, "pkey") = name => u = t
  <2>1. IsFiniteSet(DOMAIN tables)
    <3>1. IsFiniteSet(DOMAIN S \cup {t})
      BY <1>5, FS_AddElement DEF IsDb
    <3>. QED
      BY <1>12, <3>1
  <2>2. IsFiniteSet(DOMAIN d.indexes)
    BY DEF IsDb
  <2>. HIDE DEF e0, tables
  <2>. QED
    BY <1>2, <1>10, <2>1, <2>2, PrimaryNameFacts DEF Relations
<1>14. y.table = t /\ y.columns = s.primary /\ y.kind = "primary"
  BY DEF Index
<1>15. DOMAIN ks = DOMAIN s.keys
       /\ \A k \in DOMAIN ks : ks[k] = IndexOf(t, s.keys[k]) /\ ks[k].table = t /\ ks[k].kind = "unique"
  BY <1>1 DEF KeyIndexes, IndexOf, Index
<1>. HIDE DEF e, e0, name, y, ks, tables
<1>16. /\ DOMAIN ix = DOMAIN d.indexes \cup (IF s.primary = {} THEN {} ELSE {name})
       /\ s.primary # {} => ix[name] = y
       /\ \A i \in DOMAIN d.indexes : ix[i] = d.indexes[i]
  BY <1>13 DEF With
<1>. HIDE DEF ix
<1>17. /\ DOMAIN all = DOMAIN ks \cup DOMAIN ix
       /\ \A i \in DOMAIN all : all[i] = IF i \in DOMAIN ks THEN ks[i] ELSE ix[i]
  BY DEF Merged
<1>18. e.tables = tables /\ e.indexes = all /\ e.functions = d.functions /\ e.triggers = d.triggers
  BY <1>9, <1>11, DbFields
<1>. HIDE DEF all
<1>19. /\ \A i \in DOMAIN d.indexes : i \in DOMAIN all /\ all[i] = d.indexes[i] /\ d.indexes[i].table \in DOMAIN S
       /\ \A k \in DOMAIN s.keys : k \in DOMAIN all /\ all[k] = IndexOf(t, s.keys[k])
                                   /\ all[k].table = t /\ all[k].kind = "unique"
       /\ s.primary # {} => name \in DOMAIN all /\ all[name] = y
       /\ \A i \in DOMAIN all : i \in DOMAIN d.indexes \/ i \in DOMAIN s.keys \/ (s.primary # {} /\ i = name)
  <2>1. \A i \in DOMAIN d.indexes : i \notin DOMAIN s.keys /\ d.indexes[i].table \in DOMAIN S
    BY <1>5, <1>6 DEF Relations, IsDb
  <2>2. name \notin DOMAIN s.keys
    BY <1>13
  <2>. QED
    BY <1>15, <1>16, <1>17, <2>1, <2>2
<1>20. x.columns = s.columns /\ x.primary = s.primary /\ x.keys = s.keys
  BY TableFields
<1>. HIDE DEF x
<1>21. DOMAIN w = DOMAIN S \cup {t} /\ w[t] = x /\ \A u \in DOMAIN S : w[u] = S[u]
  BY DEF With
<1>. HIDE DEF w
<1>22. \A i : IsPrimary(e, i) <=> IsPrimary(d, i) \/ (s.primary # {} /\ i = name)
  BY <1>6, <1>13, <1>14, <1>18, <1>19 DEF IsPrimary, Relations
<1>23. TablesKept(e, w)
  BY <1>1, <1>4, <1>12, <1>18, <1>20, <1>21 DEF TablesKept
<1>24. PrimaryKept(e, w)
  <2>1. ASSUME NEW i \in DOMAIN all, all[i].kind = "primary"
        PROVE  all[i].columns = w[all[i].table].primary /\ all[i].columns # {}
    <3>1. CASE i \in DOMAIN d.indexes
      BY <1>4, <1>19, <1>21, <2>1, <3>1 DEF PrimaryKept
    <3>2. CASE i \notin DOMAIN d.indexes
      BY <1>14, <1>19, <1>20, <1>21, <2>1, <3>2
    <3>. QED
      BY <3>1, <3>2
  <2>2. ASSUME NEW u \in DOMAIN w, w[u].primary # {}
        PROVE  \E i \in DOMAIN all : IsPrimary(e, i) /\ all[i].table = u
    <3>1. CASE u = t
      BY <1>14, <1>19, <1>20, <1>21, <1>22, <2>2, <3>1
    <3>2. CASE u # t
      <4>1. u \in DOMAIN S /\ S[u].primary # {}
        BY <1>21, <2>2, <3>2
      <4>2. PICK i \in DOMAIN d.indexes : IsPrimary(d, i) /\ d.indexes[i].table = u
        BY <1>4, <4>1 DEF PrimaryKept
      <4>. QED
        BY <1>19, <1>22, <4>2
    <3>. QED
      BY <3>1, <3>2
  <2>3. ASSUME NEW i \in DOMAIN all, NEW j \in DOMAIN all,
               IsPrimary(e, i), IsPrimary(e, j), all[i].table = all[j].table
        PROVE  i = j
    <3>1. \A k : IsPrimary(d, k) => k \in DOMAIN d.indexes /\ all[k] = d.indexes[k] /\ all[k].table \in DOMAIN S
      BY <1>19 DEF IsPrimary
    <3>2. s.primary # {} => all[name].table = t
      BY <1>14, <1>19
    <3>. QED
      BY <1>4, <1>22, <2>3, <3>1, <3>2 DEF PrimaryKept
  <2>. QED
    BY <1>18, <2>1, <2>2, <2>3 DEF PrimaryKept
<1>25. KeysKept(e, w)
  <2>1. ASSUME NEW i \in DOMAIN all, ~IsPrimary(e, i)
        PROVE  i \in DOMAIN w[all[i].table].keys
    <3>1. CASE i \in DOMAIN d.indexes
      BY <1>4, <1>19, <1>21, <1>22, <2>1, <3>1 DEF KeysKept
    <3>2. CASE i \notin DOMAIN d.indexes
      BY <1>19, <1>20, <1>21, <1>22, <2>1, <3>2
    <3>. QED
      BY <3>1, <3>2
  <2>2. ASSUME NEW u \in DOMAIN w, NEW k \in DOMAIN w[u].keys
        PROVE  k \in DOMAIN all /\ all[k] = IndexOf(u, w[u].keys[k])
    <3>1. CASE u = t
      BY <1>19, <1>20, <1>21, <2>2, <3>1
    <3>2. CASE u # t
      <4>1. u \in DOMAIN S /\ w[u] = S[u]
        BY <1>21, <2>2, <3>2
      <4>2. k \in DOMAIN d.indexes /\ d.indexes[k] = IndexOf(u, S[u].keys[k])
        BY <1>4, <2>2, <4>1 DEF KeysKept
      <4>. QED
        BY <1>19, <4>1, <4>2
    <3>. QED
      BY <3>1, <3>2
  <2>. QED
    BY <1>18, <2>1, <2>2 DEF KeysKept
<1>26. UpdatesKept(e, w, p)
  <2>1. \A g \in d.triggers : g.table \in DOMAIN S /\ w[g.table] = S[g.table]
    BY <1>5, <1>21 DEF IsDb
  <2>2. \A g \in d.triggers :
            LET k == d.functions[g.function] IN k \in DOMAIN w[g.table].columns /\ w[g.table].columns[k].onUpdate
    BY <1>4, <2>1 DEF UpdatesKept
  <2>3. ASSUME NEW u \in DOMAIN w, NEW k \in DOMAIN w[u].columns, w[u].columns[k].onUpdate, <<u, k>> \notin p
        PROVE  \E g \in d.triggers : g.table = u /\ d.functions[g.function] = k
    <3>1. u # t
      BY <1>20, <1>21, <2>3
    <3>2. u \in DOMAIN S /\ w[u] = S[u]
      BY <1>21, <2>3, <3>1
    <3>. QED
      BY <1>4, <2>3, <3>2 DEF UpdatesKept
  <2>4. \A g \in e.triggers :
            LET k == e.functions[g.function] IN k \in DOMAIN w[g.table].columns /\ w[g.table].columns[k].onUpdate
    BY <1>18, <2>2
  <2>5. \A u \in DOMAIN w : \A k \in DOMAIN w[u].columns :
            w[u].columns[k].onUpdate /\ <<u, k>> \notin p =>
                \E g \in e.triggers : g.table = u /\ e.functions[g.function] = k
    BY <1>18, <2>3
  <2>. QED
    BY <2>4, <2>5 DEF UpdatesKept
<1>27. NamesKept(e, h.renamed)
  <2>1. \A u \in DOMAIN tables : Plain(u)
    BY <1>4, <1>5, <1>12 DEF NamesKept
  <2>2. \A i \in DOMAIN all : IsPrimary(e, i) <=> ~Plain(i)
    <3>1. \A k \in DOMAIN s.keys : k \notin DOMAIN d.indexes
      BY <1>6 DEF Relations
    <3>. QED
      BY <1>4, <1>13, <1>19, <1>22, <3>1 DEF NamesKept, IsPrimary
  <2>3. t \notin h.renamed => name = Append(t, "pkey")
    <3>1. ~Plain(Append(t, "pkey"))
      BY <1>2, NotPlain
    <3>2. t \notin h.renamed => Append(t, "pkey") \notin DOMAIN d.indexes
      <4>. SUFFICES ASSUME t \notin h.renamed, Append(t, "pkey") \in DOMAIN d.indexes PROVE FALSE
        OBVIOUS
      <4>1. d.indexes[Append(t, "pkey")].table = t
        BY <1>2, <1>4 DEF NamesKept
      <4>. QED
        BY <1>19, <4>1
    <3>. QED
      BY <1>13, <2>1, <3>1, <3>2
  <2>4. \A i \in DOMAIN all : IsPrimary(e, i) /\ all[i].table \notin h.renamed => i = Append(all[i].table, "pkey")
    BY <1>4, <1>14, <1>19, <1>22, <2>3 DEF NamesKept, IsPrimary
  <2>5. ASSUME NEW u \in Names \ h.renamed, Append(u, "pkey") \in DOMAIN all
        PROVE  all[Append(u, "pkey")].table = u
    <3>1. ~Plain(Append(u, "pkey"))
      BY NotPlain
    <3>2. Append(u, "pkey") \notin DOMAIN s.keys
      BY <3>1
    <3>3. CASE Append(u, "pkey") \in DOMAIN d.indexes
      BY <1>4, <1>19, <3>3 DEF NamesKept
    <3>4. CASE Append(u, "pkey") = name /\ s.primary # {}
      BY <1>13, <1>14, <1>19, <3>4
    <3>. QED
      BY <1>19, <2>5, <3>2, <3>3, <3>4
  <2>. QED
    BY <1>18, <2>1, <2>2, <2>4, <2>5 DEF NamesKept
<1>28. FunctionsKept(e, h.updated)
  BY <1>4, <1>18 DEF FunctionsKept
<1>. QED
  BY <1>3, <1>8, <1>23, <1>24, <1>25, <1>26, <1>27, <1>28 DEF Kept, Represents, e

-----------------------------------------------------------------------------
(* The artifacts of a column ON UPDATE.                                    *)

LEMMA ArtifactWords ==
    ASSUME NEW t \in Names, NEW col \in Names, Lower(t) = t, Lower(col) = col
    PROVE  ArtifactName(t, col) \in Seq(Words)
<1>. DEFINE last == <<"on", "update">>
<1>1. t \in Seq(Words) /\ col \in Seq(Words)
  BY NameWords
<1>2. last \in Seq(Words)
  BY DEF Words
<1>3. ArtifactName(t, col) = t \o col \o last
  BY DEF ArtifactName
<1>. HIDE DEF last
<1>4. t \o col \in Seq(Words)
  BY <1>1, ConcatType
<1>5. (t \o col) \o last \in Seq(Words)
  BY <1>2, <1>4, ConcatType
<1>. QED
  BY <1>3, <1>5

\* The function of a pair keeps its column.
LEMMA ArtifactFacts ==
    ASSUME NEW updated, Distinct(updated), NEW t, NEW col, <<t, col>> \in updated,
           NEW d, FunctionsKept(d, updated), IsDb(d)
    PROVE  /\ Lower(t) = t /\ Lower(col) = col
           /\ ArtifactName(t, col) \in DOMAIN d.functions => d.functions[ArtifactName(t, col)] = col
           /\ \A g \in d.triggers : g.name = Append(ArtifactName(t, col), "trg") => g.function = ArtifactName(t, col)
<1>. DEFINE q == <<t, col>>
<1>1. /\ q \in Names \X Names /\ Lower(q[1]) = q[1] /\ Lower(q[2]) = q[2]
      /\ \A r \in updated : ArtifactName(q[1], q[2]) = ArtifactName(r[1], r[2]) => q = r
  BY DEF Distinct
<1>2. t \in Names /\ col \in Names /\ Lower(t) = t /\ Lower(col) = col /\ q[1] = t /\ q[2] = col
  BY <1>1
<1>. HIDE DEF q
<1>3. ASSUME ArtifactName(t, col) \in DOMAIN d.functions PROVE d.functions[ArtifactName(t, col)] = col
  <2>1. PICK r \in updated : ArtifactName(t, col) = ArtifactName(r[1], r[2]) /\ d.functions[ArtifactName(t, col)] = r[2]
    BY <1>3 DEF FunctionsKept
  <2>. QED
    BY <1>1, <1>2, <2>1
<1>4. ASSUME NEW g \in d.triggers, g.name = Append(ArtifactName(t, col), "trg")
      PROVE  g.function = ArtifactName(t, col)
  <2>1. PICK r \in updated : g.function = ArtifactName(r[1], r[2])
    BY DEF FunctionsKept, IsDb
  <2>2. r[1] \in Names /\ r[2] \in Names /\ Lower(r[1]) = r[1] /\ Lower(r[2]) = r[2]
    BY DEF Distinct
  <2>3. g.function \in Seq(Words) /\ ArtifactName(t, col) \in Seq(Words) /\ "trg" \in Words
    BY <1>2, <2>1, <2>2, ArtifactWords DEF Words
  <2>4. Append(g.function, "trg") = Append(ArtifactName(t, col), "trg")
    BY <1>4 DEF FunctionsKept
  <2>. QED
    BY <2>3, <2>4, AppendInjective
<1>. QED
  BY <1>2, <1>3, <1>4

LEMMA FunctionCarried ==
    ASSUME NEW d, IsDb(d), NEW S, NEW p, NEW h, Distinct(h.updated), Kept(d, S, p, h),
           NEW t, NEW col, <<t, col>> \in h.updated,
           NEW c, c = ArtifactsOf(t, col)[1]
    PROVE  /\ Possible(d, c) /\ Kept(Apply(d, c), S, p, h)
           /\ DOMAIN Apply(d, c).functions = DOMAIN d.functions \cup {ArtifactName(t, col)}
           /\ Apply(d, c).triggers = d.triggers
<1>. DEFINE name == ArtifactName(t, col)
            f == With(d.functions, name, col)
            e == Apply(d, c)
<1>1. FunctionsKept(d, h.updated) /\ Represents(d, S, p) /\ NamesKept(d, h.renamed)
  BY DEF Kept
<1>2. /\ Lower(t) = t /\ Lower(col) = col
      /\ name \in DOMAIN d.functions => d.functions[name] = col
  BY <1>1, ArtifactFacts
<1>3. c.op = "createFunction" /\ c.name = name /\ c.column = col
  BY <1>2 DEF ArtifactsOf
<1>4. Possible(d, c)
  BY <1>3 DEF Possible
<1>5. e = Db(d.tables, d.indexes, f, d.triggers)
  <2>1. Shaped(d)
    BY DEF IsDb, Shaped
  <2>. QED
    BY <1>3, <2>1, FunctionMade
<1>10. \E q \in h.updated : name = ArtifactName(q[1], q[2]) /\ col = q[2]
  <2>1. <<t, col>>[1] = t /\ <<t, col>>[2] = col
    OBVIOUS
  <2>. QED
    BY <2>1
<1>. HIDE DEF e, name
<1>6. /\ DOMAIN f = DOMAIN d.functions \cup {name} /\ f[name] = col
      /\ \A x \in DOMAIN d.functions : f[x] = d.functions[x]
  BY <1>2 DEF With
<1>. HIDE DEF f
<1>7. e.tables = d.tables /\ e.indexes = d.indexes /\ e.functions = f /\ e.triggers = d.triggers
  BY <1>5, DbFields
<1>8. \A i : IsPrimary(e, i) <=> IsPrimary(d, i)
  BY <1>7 DEF IsPrimary
<1>9. \A g \in d.triggers : f[g.function] = d.functions[g.function]
  BY <1>6 DEF IsDb
<1>11. Represents(e, S, p)
  <2>1. TablesKept(e, S)
    BY <1>1, <1>7 DEF Represents, TablesKept
  <2>2. PrimaryKept(e, S)
    BY <1>1, <1>7, <1>8 DEF Represents, PrimaryKept
  <2>3. KeysKept(e, S)
    BY <1>1, <1>7, <1>8 DEF Represents, KeysKept
  <2>4. UpdatesKept(e, S, p)
    BY <1>1, <1>7, <1>9 DEF Represents, UpdatesKept
  <2>. QED
    BY <2>1, <2>2, <2>3, <2>4 DEF Represents
<1>12. NamesKept(e, h.renamed)
  BY <1>1, <1>7, <1>8 DEF NamesKept
<1>13. FunctionsKept(e, h.updated)
  BY <1>1, <1>6, <1>7, <1>10 DEF FunctionsKept
<1>. QED
  BY <1>4, <1>6, <1>7, <1>11, <1>12, <1>13 DEF Kept, e, name

\* Where only triggers change.
LEMMA TriggersChanged ==
    ASSUME NEW d, NEW e, e.tables = d.tables, e.indexes = d.indexes, e.functions = d.functions,
           NEW S, NEW p, NEW h, Kept(d, S, p, h)
    PROVE  TablesKept(e, S) /\ PrimaryKept(e, S) /\ KeysKept(e, S) /\ NamesKept(e, h.renamed)
<1>1. TablesKept(d, S) /\ PrimaryKept(d, S) /\ KeysKept(d, S) /\ NamesKept(d, h.renamed)
  BY DEF Kept, Represents
<1>2. \A i : IsPrimary(e, i) <=> IsPrimary(d, i)
  BY DEF IsPrimary
<1>3. TablesKept(e, S)
  BY <1>1 DEF TablesKept
<1>4. PrimaryKept(e, S)
  BY <1>1, <1>2 DEF PrimaryKept
<1>5. KeysKept(e, S)
  BY <1>1, <1>2 DEF KeysKept
<1>6. NamesKept(e, h.renamed)
  BY <1>1, <1>2 DEF NamesKept
<1>. QED
  BY <1>3, <1>4, <1>5, <1>6

LEMMA DropCarried ==
    ASSUME NEW d, IsDb(d), NEW S, NEW p, NEW h, Distinct(h.updated), Kept(d, S, p, h),
           NEW t \in DOMAIN S, NEW col, <<t, col>> \in h.updated,
           NEW p2, p \subseteq p2, <<t, col>> \in p2,
           NEW c, c = ArtifactsOf(t, col)[2]
    PROVE  /\ Possible(d, c) /\ Kept(Apply(d, c), S, p2, h)
           /\ Apply(d, c).functions = d.functions
           /\ \A g \in Apply(d, c).triggers : <<g.name, g.table>> # <<Append(ArtifactName(t, col), "trg"), t>>
<1>. DEFINE name == ArtifactName(t, col)
            left == OtherTriggers(d.triggers, c)
            e == Apply(d, c)
<1>1. FunctionsKept(d, h.updated) /\ Represents(d, S, p)
  BY DEF Kept
<1>2. /\ Lower(t) = t
      /\ name \in DOMAIN d.functions => d.functions[name] = col
      /\ \A g \in d.triggers : g.name = Append(name, "trg") => g.function = name
  BY <1>1, ArtifactFacts
<1>3. c.op = "dropTrigger" /\ c.name = Append(name, "trg") /\ c.table = t
  BY <1>2 DEF ArtifactsOf
<1>4. Possible(d, c)
  BY <1>1, <1>3 DEF Possible, Represents, TablesKept
<1>5. e = Db(d.tables, d.indexes, d.functions, left)
  <2>1. Shaped(d)
    BY DEF IsDb, Shaped
  <2>. QED
    BY <1>3, <2>1, TriggerDropped
<1>. HIDE DEF e, name
<1>6. /\ left \subseteq d.triggers /\ \A g \in left : <<g.name, g.table>> # <<c.name, c.table>>
      /\ \A g \in d.triggers : g \in left \/ (g.name = c.name /\ g.table = c.table)
  BY DEF OtherTriggers
<1>. HIDE DEF left
<1>7. e.tables = d.tables /\ e.indexes = d.indexes /\ e.functions = d.functions /\ e.triggers = left
  BY <1>5, DbFields
<1>8. TablesKept(e, S) /\ PrimaryKept(e, S) /\ KeysKept(e, S) /\ NamesKept(e, h.renamed)
  BY <1>7, TriggersChanged
<1>9. UpdatesKept(e, S, p2)
  <2>1. UpdatesKept(d, S, p)
    BY <1>1 DEF Represents
  <2>2. ASSUME NEW u \in DOMAIN S, NEW k \in DOMAIN S[u].columns, S[u].columns[k].onUpdate, <<u, k>> \notin p2
        PROVE  \E g \in left : g.table = u /\ d.functions[g.function] = k
    <3>1. PICK g \in d.triggers : g.table = u /\ d.functions[g.function] = k
      BY <2>1, <2>2 DEF UpdatesKept
    <3>2. g \in left
      <4>. SUFFICES ASSUME g \notin left PROVE FALSE
        OBVIOUS
      <4>1. g.name = Append(name, "trg") /\ g.table = t
        BY <1>3, <1>6
      <4>2. g.function = name /\ name \in DOMAIN d.functions
        BY <1>2, <4>1 DEF IsDb
      <4>3. u = t /\ k = col
        BY <1>2, <3>1, <4>1, <4>2
      <4>. QED
        BY <2>2, <4>3
    <3>. QED
      BY <3>1, <3>2
  <2>3. \A g \in d.triggers :
            LET k == d.functions[g.function] IN k \in DOMAIN S[g.table].columns /\ S[g.table].columns[k].onUpdate
    BY <2>1 DEF UpdatesKept
  <2>4. \A g \in e.triggers :
            LET k == e.functions[g.function] IN k \in DOMAIN S[g.table].columns /\ S[g.table].columns[k].onUpdate
    BY <1>6, <1>7, <2>3
  <2>5. \A u \in DOMAIN S : \A k \in DOMAIN S[u].columns :
            S[u].columns[k].onUpdate /\ <<u, k>> \notin p2 =>
                \E g \in e.triggers : g.table = u /\ e.functions[g.function] = k
    BY <1>6, <1>7, <2>2
  <2>. QED
    BY <2>4, <2>5 DEF UpdatesKept
<1>10. FunctionsKept(e, h.updated)
  BY <1>1, <1>6, <1>7 DEF FunctionsKept
<1>. QED
  BY <1>3, <1>4, <1>6, <1>7, <1>8, <1>9, <1>10 DEF Kept, Represents, e, name

NoTrigger(d, t, col) == \A g \in d.triggers : <<g.name, g.table>> # <<Append(ArtifactName(t, col), "trg"), t>>
IsOnUpdate(S, t, col) == t \in DOMAIN S /\ col \in DOMAIN S[t].columns /\ S[t].columns[col].onUpdate

LEMMA TriggerCarried ==
    ASSUME NEW d, IsDb(d), NEW S, NEW p, NEW h, Distinct(h.updated), Kept(d, S, p, h),
           NEW t, NEW col, IsOnUpdate(S, t, col),
           <<t, col>> \in h.updated, ArtifactName(t, col) \in DOMAIN d.functions, NoTrigger(d, t, col),
           NEW p2, p \subseteq p2 \cup {<<t, col>>},
           NEW c, c = ArtifactsOf(t, col)[3]
    PROVE  /\ Possible(d, c) /\ Kept(Apply(d, c), S, p2, h)
           /\ Apply(d, c).functions = d.functions
<1>. DEFINE name == ArtifactName(t, col)
            new == Trigger(c.name, c.table, c.function)
            e == Apply(d, c)
<1>1. FunctionsKept(d, h.updated) /\ Represents(d, S, p)
  BY DEF Kept
<1>2. Lower(t) = t /\ d.functions[name] = col
  BY <1>1, ArtifactFacts
<1>3. c.op = "createTrigger" /\ c.name = Append(name, "trg") /\ c.table = t /\ c.function = name
  BY <1>2 DEF ArtifactsOf
<1>4. Possible(d, c)
  BY <1>1, <1>3 DEF Possible, Represents, TablesKept, NoTrigger, IsOnUpdate
<1>5. e = Db(d.tables, d.indexes, d.functions, d.triggers \cup {new})
  <2>1. Shaped(d)
    BY DEF IsDb, Shaped
  <2>. QED
    BY <1>3, <2>1, TriggerMade
<1>6. new.name = Append(name, "trg") /\ new.table = t /\ new.function = name
  BY <1>3 DEF Trigger
<1>. HIDE DEF e, name, new
<1>7. e.tables = d.tables /\ e.indexes = d.indexes /\ e.functions = d.functions /\ e.triggers = d.triggers \cup {new}
  BY <1>5, DbFields
<1>8. TablesKept(e, S) /\ PrimaryKept(e, S) /\ KeysKept(e, S) /\ NamesKept(e, h.renamed)
  BY <1>7, TriggersChanged
<1>9. UpdatesKept(e, S, p2)
  <2>1. UpdatesKept(d, S, p)
    BY <1>1 DEF Represents
  <2>2. \A g \in d.triggers \cup {new} :
            LET k == d.functions[g.function] IN k \in DOMAIN S[g.table].columns /\ S[g.table].columns[k].onUpdate
    BY <1>2, <1>6, <2>1 DEF UpdatesKept, IsOnUpdate
  <2>3. ASSUME NEW u \in DOMAIN S, NEW k \in DOMAIN S[u].columns, S[u].columns[k].onUpdate, <<u, k>> \notin p2
        PROVE  \E g \in d.triggers \cup {new} : g.table = u /\ d.functions[g.function] = k
    <3>1. CASE <<u, k>> \notin p
      BY <2>1, <2>3, <3>1 DEF UpdatesKept
    <3>2. CASE <<u, k>> \in p
      <4>1. u = t /\ k = col
        BY <2>3, <3>2
      <4>. QED
        BY <1>2, <1>6, <4>1
    <3>. QED
      BY <3>1, <3>2
  <2>4. \A g \in e.triggers :
            LET k == e.functions[g.function] IN k \in DOMAIN S[g.table].columns /\ S[g.table].columns[k].onUpdate
    BY <1>7, <2>2
  <2>5. \A u \in DOMAIN S : \A k \in DOMAIN S[u].columns :
            S[u].columns[k].onUpdate /\ <<u, k>> \notin p2 =>
                \E g \in e.triggers : g.table = u /\ e.functions[g.function] = k
    BY <1>7, <2>3
  <2>. QED
    BY <2>4, <2>5 DEF UpdatesKept
<1>10. FunctionsKept(e, h.updated)
  BY <1>1, <1>6, <1>7 DEF FunctionsKept
<1>. QED
  BY <1>4, <1>7, <1>8, <1>9, <1>10 DEF Kept, Represents, e

-----------------------------------------------------------------------------
(* One command of a statement.                                             *)

LEMMA PendingIs ==
    ASSUME NEW s, IsStatement(s), s.type = "createTable", NEW m
    PROVE  LET cols == OnUpdateColumns(s)
           IN /\ Len(cols) \in Nat /\ DOMAIN cols = 1..Len(cols)
              /\ Pending(s, m) = {<<s.table, cols[k]>> : k \in {j \in 1..Len(cols) : m <= 3 * j}}
              /\ \A k \in 1..Len(cols) : cols[k] \in DOMAIN s.columns /\ s.columns[cols[k]].onUpdate
              /\ \A c \in DOMAIN s.columns : s.columns[c].onUpdate => \E k \in 1..Len(cols) : cols[k] = c
<1>. DEFINE cols == OnUpdateColumns(s)  n == Len(cols)
            C == {c \in DOMAIN s.columns : s.columns[c].onUpdate}
<1>1. /\ n \in Nat /\ cols \in [1..n -> C]
      /\ \A c \in C : \E k \in 1..n : cols[k] = c
  BY OnUpdateFacts
<1>2. Pending(s, m) = {<<s.table, cols[k]>> : k \in {j \in DOMAIN cols : m <= 3 * j}}
  BY DEF Pending
<1>. HIDE DEF cols, n
<1>3. DOMAIN cols = 1..n /\ \A k \in 1..n : cols[k] \in C
  BY <1>1
<1>4. \A k \in 1..n : cols[k] \in DOMAIN s.columns /\ s.columns[cols[k]].onUpdate
  BY <1>3
<1>5. \A c \in DOMAIN s.columns : s.columns[c].onUpdate => \E k \in 1..n : cols[k] = c
  BY <1>1
<1>6. Pending(s, m) = {<<s.table, cols[k]>> : k \in {j \in 1..n : m <= 3 * j}}
  BY <1>2, <1>3
<1>. QED
  BY <1>1, <1>3, <1>4, <1>5, <1>6 DEF cols, n

\* Before the first trigger every column is pending, after the last none.
LEMMA PendingFirst ==
    ASSUME NEW s, IsStatement(s), s.type = "createTable"
    PROVE  /\ Pending(s, 0) = Pending(s, 1)
           /\ \A c \in DOMAIN s.columns : s.columns[c].onUpdate => <<s.table, c>> \in Pending(s, 1)
           /\ Pending(s, Len(Commands(s))) = {}
           /\ \A m \in Nat : Pending(s, m) \subseteq Pending(s, 0)
<1>. DEFINE cols == OnUpdateColumns(s)  n == Len(cols)
            Left(m) == {j \in 1..n : m <= 3 * j}
            Pairs1(J) == {<<s.table, cols[k]>> : k \in J}
<1>1. /\ n \in Nat
      /\ \A m : Pending(s, m) = Pairs1(Left(m))
      /\ \A c \in DOMAIN s.columns : s.columns[c].onUpdate => \E k \in 1..n : cols[k] = c
  BY PendingIs
<1>2. Len(Commands(s)) = 3 * n + 1
  BY TableCommands
<1>. HIDE DEF cols, n
<1>3. Left(0) = 1..n /\ Left(1) = 1..n /\ Left(3 * n + 1) = {} /\ \A m \in Nat : Left(m) \subseteq 1..n
  BY <1>1
<1>. HIDE DEF Left
<1>4. Pairs1({}) = {} /\ \A J \in SUBSET (1..n) : Pairs1(J) \subseteq Pairs1(1..n)
  OBVIOUS
<1>5. \A c \in DOMAIN s.columns : s.columns[c].onUpdate => <<s.table, c>> \in Pairs1(1..n)
  BY <1>1
<1>. HIDE DEF Pairs1
<1>6. Pending(s, 0) = Pairs1(1..n) /\ Pending(s, 1) = Pairs1(1..n)
  BY <1>1, <1>3
<1>7. Pending(s, Len(Commands(s))) = {}
  BY <1>1, <1>2, <1>3, <1>4
<1>8. \A m \in Nat : Pending(s, m) \subseteq Pairs1(1..n)
  BY <1>1, <1>3, <1>4
<1>. QED
  BY <1>5, <1>6, <1>7, <1>8

LEMMA TableStep ==
    ASSUME NEW S, IsTables(S), NEW d, IsDb(d), NEW h,
           NEW s, IsStatement(s), s.type = "createTable", Accepts(S, s), Carries(S, h, s),
           NamesKept(d, h.renamed), FunctionsKept(d, h.updated), CreatingTable(d, S, s, 0),
           NEW c, c = RenderCreateTable(s)
    PROVE  Possible(d, c) /\ Kept(Apply(d, c), Execute(S, s), Pending(s, 1), h)
<1>1. /\ \A k \in DOMAIN s.keys : s.keys[k].constraint
      /\ \A k \in DOMAIN s.columns : RewriteCreateTableType(s.columns[k].type) \in PgTypes
      /\ s.table \notin DOMAIN S =>
             /\ Plain(s.table) /\ s.table \notin KeysOf(S) \cup DOMAIN s.keys
             /\ \A k \in DOMAIN s.keys : Plain(k) /\ k \notin KeysOf(S) \cup DOMAIN S
  BY DEF Carries
<1>2. \A k \in DOMAIN s.columns : s.columns[k].onUpdate => <<s.table, k>> \in Pending(s, 1)
  BY PendingFirst
<1>3. /\ c.op = "createTable" /\ c.table = s.table /\ c.ifNotExists = s.ifNotExists /\ c.keys = s.keys
  BY TableRendered
<1>4. Execute(S, s) = IF s.table \in DOMAIN S THEN S ELSE With(S, s.table, Table(s.columns, s.primary, s.keys))
  BY DEF Execute
<1>5. CASE s.table \notin DOMAIN S /\ Represents(d, S, {})
  <2>1. Kept(d, S, {}, h)
    BY <1>5 DEF Kept
  <2>. QED
    BY <1>1, <1>2, <1>5, <2>1, TableCarried
<1>6. CASE s.table \in DOMAIN S \/ ~Represents(d, S, {})
  <2>1. s.ifNotExists /\ Represents(d, Execute(S, s), Pending(s, 1)) /\ s.table \in DOMAIN d.tables
    <3>1. CASE Represents(d, S, {})
      <4>1. Execute(S, s) = S /\ s.table \in DOMAIN S
        BY <1>4, <1>6, <3>1
      <4>2. s.ifNotExists
        BY <4>1 DEF Accepts
      <4>3. Represents(d, S, Pending(s, 1))
        BY <3>1 DEF Represents, UpdatesKept
      <4>. QED
        BY <3>1, <4>1, <4>2, <4>3 DEF Represents, TablesKept
    <3>2. CASE ~Represents(d, S, {})
      <4>1. s.ifNotExists /\ Represents(d, Execute(S, s), Pending(s, 0))
        BY <3>2 DEF CreatingTable
      <4>2. s.table \in DOMAIN Execute(S, s)
        BY <1>4 DEF With
      <4>. QED
        BY <4>1, <4>2, PendingFirst DEF Represents, TablesKept
    <3>. QED
      BY <3>1, <3>2
  <2>2. Possible(d, c)
    BY <1>1, <1>3, <2>1 DEF Possible
  <2>3. Apply(d, c) = d
    BY <1>3, <2>1 DEF Apply
  <2>. QED
    BY <2>1, <2>2, <2>3 DEF Kept
<1>. QED
  BY <1>5, <1>6

LEMMA PendingNext ==
    ASSUME NEW s, IsStatement(s), s.type = "createTable", NEW k \in 1..Len(OnUpdateColumns(s))
    PROVE  LET pair == <<s.table, OnUpdateColumns(s)[k]>>
           IN /\ Pending(s, 3 * (k - 1) + 1) = Pending(s, 3 * (k - 1) + 2)
              /\ Pending(s, 3 * (k - 1) + 2) \subseteq Pending(s, 3 * (k - 1) + 3)
              /\ pair \in Pending(s, 3 * (k - 1) + 3)
              /\ Pending(s, 3 * (k - 1) + 3) \subseteq Pending(s, 3 * (k - 1) + 4) \cup {pair}
<1>. DEFINE cols == OnUpdateColumns(s)  n == Len(cols)
            Left(m) == {j \in 1..n : m <= 3 * j}
            Pair(j) == <<s.table, cols[j]>>
            Pairs1(J) == {Pair(j) : j \in J}
<1>1. n \in Nat /\ \A m : Pending(s, m) = Pairs1(Left(m))
  BY PendingIs
<1>. HIDE DEF cols, n, Pair
<1>2. k \in Nat /\ k \in 1..n
  BY <1>1 DEF n, cols
<1>. DEFINE a == 3 * (k - 1) + 1  b == 3 * (k - 1) + 2  c == 3 * (k - 1) + 3  e == 3 * (k - 1) + 4
<1>3. Left(a) = Left(b)
  BY <1>1, <1>2
<1>4. Left(b) \subseteq Left(c) /\ k \in Left(c)
  BY <1>1, <1>2
<1>5. Left(c) \subseteq Left(e) \cup {k}
  BY <1>1, <1>2
<1>. HIDE DEF Left, a, b, c, e
<1>6. \A I, J : I \subseteq J => Pairs1(I) \subseteq Pairs1(J)
  OBVIOUS
<1>7. \A J : k \in J => Pair(k) \in Pairs1(J)
  OBVIOUS
<1>8. \A I, J : I \subseteq J \cup {k} => Pairs1(I) \subseteq Pairs1(J) \cup {Pair(k)}
  OBVIOUS
<1>. HIDE DEF Pairs1
<1>9. /\ Pending(s, a) = Pending(s, b) /\ Pending(s, b) \subseteq Pending(s, c)
      /\ Pair(k) \in Pending(s, c) /\ Pending(s, c) \subseteq Pending(s, e) \cup {Pair(k)}
  BY <1>1, <1>3, <1>4, <1>5, <1>6, <1>7, <1>8
<1>. QED
  BY <1>9 DEF a, b, c, e, Pair, cols

\* The table that is created, or was there, has the columns that are maintained.
LEMMA MaintainedColumns ==
    ASSUME NEW S, NEW h, NEW s, IsStatement(s), s.type = "createTable", Carries(S, h, s),
           NEW col \in DOMAIN s.columns, s.columns[col].onUpdate
    PROVE  LET w == Execute(S, s)
           IN s.table \in DOMAIN w /\ col \in DOMAIN w[s.table].columns /\ w[s.table].columns[col].onUpdate
<1>. DEFINE x == Table(s.columns, s.primary, s.keys)  w == Execute(S, s)
<1>1. w = IF s.table \in DOMAIN S THEN S ELSE With(S, s.table, x)
  BY DEF Execute
<1>2. x.columns = s.columns
  BY TableFields
<1>. HIDE DEF w, x
<1>3. CASE s.table \in DOMAIN S
  <2>1. col \in DOMAIN S[s.table].columns /\ S[s.table].columns[col].onUpdate
    BY <1>3 DEF Carries
  <2>. QED
    BY <1>1, <1>3, <2>1 DEF w
<1>4. CASE s.table \notin DOMAIN S
  <2>1. s.table \in DOMAIN w /\ w[s.table] = x
    BY <1>1, <1>4 DEF With
  <2>. QED
    BY <1>2, <2>1 DEF w
<1>. QED
  BY <1>3, <1>4

LEMMA ArtifactStep ==
    ASSUME NEW S, NEW d, IsDb(d), NEW h, Distinct(h.updated),
           NEW s, IsStatement(s), s.type = "createTable", Carries(S, h, s), Updated(s) \subseteq h.updated,
           NEW k \in 1..Len(OnUpdateColumns(s)), NEW r \in 1..3,
           NEW done, done = 3 * (k - 1) + r,
           Kept(d, Execute(S, s), Pending(s, done), h), ArtifactsMade(d, s, done),
           NEW c, c = ArtifactsOf(s.table, OnUpdateColumns(s)[k])[r]
    PROVE  /\ Possible(d, c) /\ Kept(Apply(d, c), Execute(S, s), Pending(s, done + 1), h)
           /\ ArtifactsMade(Apply(d, c), s, done + 1)
<1>. DEFINE t == s.table  cols == OnUpdateColumns(s)  n == Len(cols)  col == cols[k]
            w == Execute(S, s)  e == Apply(d, c)
            Name(j) == ArtifactName(t, cols[j])
            Absent(x, j) == \A g \in x.triggers : <<g.name, g.table>> # <<Append(Name(j), "trg"), t>>
<1>1. /\ n \in Nat /\ DOMAIN cols = 1..n
      /\ \A j \in 1..n : cols[j] \in DOMAIN s.columns /\ s.columns[cols[j]].onUpdate
  BY PendingIs
<1>2. t \in DOMAIN w /\ col \in DOMAIN w[t].columns /\ w[t].columns[col].onUpdate
  BY <1>1, MaintainedColumns
<1>3. <<t, col>> \in h.updated
  <2>1. col \in DOMAIN s.columns /\ s.columns[col].onUpdate
    BY <1>1
  <2>. HIDE DEF col
  <2>. QED
    BY <2>1 DEF Updated
<1>4. k \in Nat /\ k \in 1..n /\ Len(OnUpdateColumns(s)) = n
  BY <1>1
<1>5. \A m : ArtifactsMade(d, s, m) <=>
          \A j \in 1..n : (m >= 3 * j - 1 => Name(j) \in DOMAIN d.functions) /\ (m = 3 * j => Absent(d, j))
  BY <1>1 DEF ArtifactsMade
<1>6. \A m : ArtifactsMade(e, s, m) <=>
          \A j \in 1..n : (m >= 3 * j - 1 => Name(j) \in DOMAIN e.functions) /\ (m = 3 * j => Absent(e, j))
  BY <1>1 DEF ArtifactsMade
<1>7. /\ Pending(s, 3 * (k - 1) + 1) = Pending(s, 3 * (k - 1) + 2)
      /\ Pending(s, 3 * (k - 1) + 2) \subseteq Pending(s, 3 * (k - 1) + 3)
      /\ <<t, col>> \in Pending(s, 3 * (k - 1) + 3)
      /\ Pending(s, 3 * (k - 1) + 3) \subseteq Pending(s, 3 * (k - 1) + 4) \cup {<<t, col>>}
  BY <1>4, PendingNext
<1>8. c = ArtifactsOf(t, col)[r] /\ Name(k) = ArtifactName(t, col)
  OBVIOUS
<1>9. CASE r = 1
  <2>1. done = 3 * (k - 1) + 1 /\ done + 1 = 3 * (k - 1) + 2
    BY <1>4, <1>9
  <2>2. Kept(d, w, Pending(s, done + 1), h)
    BY <1>7, <2>1
  <2>. HIDE DEF col, cols, w, e, t, n, Absent, Name
  <2>3. c = ArtifactsOf(t, col)[1]
    BY <1>8, <1>9
  <2>4. /\ Possible(d, c) /\ Kept(Apply(d, c), w, Pending(s, done + 1), h)
        /\ DOMAIN Apply(d, c).functions = DOMAIN d.functions \cup {ArtifactName(t, col)}
        /\ Apply(d, c).triggers = d.triggers
    BY <1>3, <2>2, <2>3, FunctionCarried
  <2>5. DOMAIN e.functions = DOMAIN d.functions \cup {Name(k)}
    BY <1>8, <2>4 DEF e
  <2>6. \A j \in 1..n : (done + 1 >= 3 * j - 1 => j = k \/ done >= 3 * j - 1) /\ done + 1 # 3 * j
    BY <1>1, <1>4, <2>1
  <2>7. ArtifactsMade(e, s, done + 1)
    BY <1>5, <1>6, <2>5, <2>6
  <2>. QED
    BY <2>4, <2>7 DEF w, e
<1>10. CASE r = 2
  <2>1. done = 3 * (k - 1) + 2 /\ done + 1 = 3 * (k - 1) + 3
    BY <1>4, <1>10
  <2>2. Pending(s, done) \subseteq Pending(s, done + 1) /\ <<t, col>> \in Pending(s, done + 1)
    BY <1>7, <2>1
  <2>. HIDE DEF col, cols, w, e, t, n, Absent, Name
  <2>3. c = ArtifactsOf(t, col)[2]
    BY <1>8, <1>10
  <2>4. /\ Possible(d, c) /\ Kept(Apply(d, c), w, Pending(s, done + 1), h)
        /\ Apply(d, c).functions = d.functions
        /\ \A g \in Apply(d, c).triggers : <<g.name, g.table>> # <<Append(ArtifactName(t, col), "trg"), t>>
    BY <1>2, <1>3, <2>2, <2>3, DropCarried DEF w
  <2>5. e.functions = d.functions /\ Absent(e, k)
    BY <1>8, <2>4 DEF e, Absent
  <2>6. \A j \in 1..n : (done + 1 >= 3 * j - 1 => done >= 3 * j - 1) /\ (done + 1 = 3 * j => j = k)
    BY <1>1, <1>4, <2>1
  <2>7. ArtifactsMade(e, s, done + 1)
    BY <1>5, <1>6, <2>5, <2>6
  <2>. QED
    BY <2>4, <2>7 DEF w, e
<1>11. CASE r = 3
  <2>1. done = 3 * (k - 1) + 3 /\ done + 1 = 3 * (k - 1) + 4
    BY <1>4, <1>11
  <2>2. Pending(s, done) \subseteq Pending(s, done + 1) \cup {<<t, col>>}
    BY <1>7, <2>1
  <2>8. done >= 3 * k - 1 /\ done = 3 * k
    BY <1>4, <2>1
  <2>. HIDE DEF col, cols, w, e, t, n, Absent, Name
  <2>9. Name(k) \in DOMAIN d.functions /\ Absent(d, k)
    BY <1>4, <1>5, <2>8
  <2>3. c = ArtifactsOf(t, col)[3]
    BY <1>8, <1>11
  <2>10. ArtifactName(t, col) \in DOMAIN d.functions /\ NoTrigger(d, t, col) /\ IsOnUpdate(w, t, col)
    BY <1>2, <1>8, <2>9 DEF Absent, NoTrigger, IsOnUpdate
  <2>4. /\ Possible(d, c) /\ Kept(Apply(d, c), w, Pending(s, done + 1), h)
        /\ Apply(d, c).functions = d.functions
    <3>1. PICK p, p2 : p = Pending(s, done) /\ p2 = Pending(s, done + 1)
      OBVIOUS
    <3>2. Kept(d, w, p, h) /\ p \subseteq p2 \cup {<<t, col>>}
      BY <2>2, <3>1 DEF w
    <3>3. /\ Possible(d, c) /\ Kept(Apply(d, c), w, p2, h)
          /\ Apply(d, c).functions = d.functions
      BY <1>3, <2>3, <2>10, <3>2, TriggerCarried, SMTT(30)
    <3>. QED
      BY <3>1, <3>3
  <2>5. e.functions = d.functions
    BY <2>4 DEF e
  <2>6. \A j \in 1..n : (done + 1 >= 3 * j - 1 => done >= 3 * j - 1) /\ done + 1 # 3 * j
    BY <1>1, <1>4, <2>1
  <2>7. ArtifactsMade(e, s, done + 1)
    BY <1>5, <1>6, <2>5, <2>6
  <2>. QED
    BY <2>4, <2>7 DEF w, e
<1>. QED
  BY <1>9, <1>10, <1>11

LEMMA CreateStep ==
    ASSUME NEW S, IsTables(S), NEW d, IsDb(d), NEW h, Distinct(h.updated),
           NEW s, IsStatement(s), s.type = "createTable", Accepts(S, s), Carries(S, h, s), Updated(s) \subseteq h.updated,
           NamesKept(d, h.renamed), FunctionsKept(d, h.updated),
           NEW done \in 0..Len(Commands(s)), done + 1 \in 1..Len(Commands(s)), CreatingTable(d, S, s, done),
           NEW c, c = Commands(s)[done + 1]
    PROVE  /\ Possible(d, c) /\ CreatingTable(Apply(d, c), S, s, done + 1)
           /\ NamesKept(Apply(d, c), h.renamed) /\ FunctionsKept(Apply(d, c), h.updated)
<1>. DEFINE cols == OnUpdateColumns(s)  n == Len(cols)  e == Apply(d, c)
<1>1. /\ n \in Nat /\ DOMAIN cols = 1..n
  BY PendingIs
<1>2. /\ Len(Commands(s)) = 3 * n + 1
      /\ Commands(s)[1] = RenderCreateTable(s)
      /\ \A k \in 1..n, r \in 1..3 : Commands(s)[3 * (k - 1) + r + 1] = ArtifactsOf(s.table, cols[k])[r]
  BY TableCommands
<1>3. CASE done = 0
  <2>1. c = RenderCreateTable(s)
    BY <1>2, <1>3
  <2>2. Possible(d, c) /\ Kept(e, Execute(S, s), Pending(s, 1), h)
    BY <1>3, <2>1, TableStep
  <2>3. ArtifactsMade(e, s, 1)
    BY <1>1 DEF ArtifactsMade
  <2>4. CreatingTable(e, S, s, 1)
    BY <2>2, <2>3 DEF CreatingTable, Kept
  <2>. QED
    BY <1>3, <2>2, <2>4 DEF Kept
<1>4. CASE done # 0
  <2>. DEFINE k == (done + 2) \div 3  r == done - 3 * (k - 1)
  <2>1. k \in 1..n /\ r \in 1..3 /\ done = 3 * (k - 1) + r /\ done + 1 = 3 * (k - 1) + r + 1 /\ done + 1 > 0
    BY <1>1, <1>2, <1>4
  <2>2. Represents(d, Execute(S, s), Pending(s, done)) /\ ArtifactsMade(d, s, done)
    BY <1>4 DEF CreatingTable
  <2>. HIDE DEF k, r
  <2>3. c = ArtifactsOf(s.table, cols[k])[r]
    BY <1>2, <2>1
  <2>4. Kept(d, Execute(S, s), Pending(s, done), h)
    BY <2>2 DEF Kept
  <2>5. k \in 1..Len(OnUpdateColumns(s)) /\ c = ArtifactsOf(s.table, OnUpdateColumns(s)[k])[r]
    BY <2>1, <2>3
  <2>. HIDE DEF cols, n
  <2>6. /\ Possible(d, c) /\ Kept(e, Execute(S, s), Pending(s, done + 1), h)
        /\ ArtifactsMade(e, s, done + 1)
    BY <2>1, <2>2, <2>4, <2>5, ArtifactStep
  <2>7. CreatingTable(e, S, s, done + 1)
    BY <2>1, <2>6 DEF CreatingTable, Kept
  <2>. QED
    BY <2>6, <2>7 DEF Kept
<1>. QED
  BY <1>3, <1>4

LEMMA RenameStep ==
    ASSUME NEW S, IsTables(S), NEW d, IsDb(d), NEW h,
           NEW s, IsStatement(s), s.type = "renameTables", Accepts(S, s), Carries(S, h, s), RenamedBy(s) \subseteq h.renamed,
           NamesKept(d, h.renamed), FunctionsKept(d, h.updated),
           NEW done \in 0..Len(Commands(s)), done + 1 \in 1..Len(Commands(s)), RenamingTables(d, S, s, done),
           NEW c, c = Commands(s)[done + 1]
    PROVE  /\ Possible(d, c) /\ RenamingTables(Apply(d, c), S, s, done + 1)
           /\ NamesKept(Apply(d, c), h.renamed) /\ FunctionsKept(Apply(d, c), h.updated)
<1>. DEFINE r == Renaming(S, s.pairs)  e == Apply(d, c)  k == done + 1
<1>1. /\ s.pairs \in Seq(Pairs) /\ Len(Commands(s)) = Len(s.pairs)
      /\ \A j \in DOMAIN s.pairs : Commands(s)[j] = [op |-> "renameTable", old |-> s.pairs[j].old, new |-> s.pairs[j].new]
  BY RenameCommands
<1>2. k \in DOMAIN s.pairs /\ k - 1 = done
  BY <1>1
<1>3. r[k] = Moved(r[done], s.pairs[k].old, s.pairs[k].new)
  BY <1>1, <1>2, RenamingStep
<1>4. s.pairs[k].old \in DOMAIN r[done] /\ s.pairs[k].new \notin DOMAIN r[done]
  <2>1. CanRename(S, s.pairs)
    BY DEF Accepts
  <2>. QED
    BY <1>2, <2>1 DEF CanRename
<1>5. Plain(s.pairs[k].new) /\ s.pairs[k].new \notin KeysOf(S)
  BY <1>2 DEF Carries
<1>6. s.pairs[k].old \in h.renamed /\ s.pairs[k].new \in h.renamed
  BY <1>2 DEF RenamedBy
<1>7. c.op = "renameTable" /\ c.old = s.pairs[k].old /\ c.new = s.pairs[k].new
  <2>1. c = [op |-> "renameTable", old |-> s.pairs[k].old, new |-> s.pairs[k].new]
    BY <1>1, <1>2
  <2>. HIDE DEF k
  <2>. QED
    BY <2>1
<1>8. Represents(d, r[done], {}) /\ \A i \in DOMAIN d.indexes : Plain(i) => i \in KeysOf(S)
  BY DEF RenamingTables
<1>. HIDE DEF r, k, e
<1>9. c.new \notin DOMAIN d.indexes
  BY <1>5, <1>7, <1>8
<1>10. Kept(d, r[done], {}, h)
  BY <1>8 DEF Kept
<1>11. /\ Possible(d, c) /\ Kept(e, Moved(r[done], c.old, c.new), {}, h)
       /\ DOMAIN e.indexes = DOMAIN d.indexes
  BY <1>4, <1>5, <1>6, <1>7, <1>9, <1>10, RenameCarried DEF e
<1>12. Represents(e, r[k], {})
  BY <1>3, <1>7, <1>11 DEF Kept
<1>13. RenamingTables(e, S, s, k)
  BY <1>8, <1>11, <1>12 DEF RenamingTables, r
<1>. QED
  BY <1>11, <1>13 DEF Kept, e, k

LEMMA SingleStep ==
    ASSUME NEW S, IsTables(S), NEW d, IsDb(d), NEW h,
           NEW s, IsStatement(s), s.type \notin {"createTable", "renameTables"}, Accepts(S, s), Carries(S, h, s),
           NamesKept(d, h.renamed), FunctionsKept(d, h.updated), Represents(d, S, {}),
           NEW c, c = Translation(s)[1]
    PROVE  Possible(d, c) /\ Kept(Apply(d, c), Execute(S, s), {}, h)
<1>1. Kept(d, S, {}, h)
  BY DEF Kept
<1>2. CASE s.type \in {"createIndex", "addUnique"}
  <2>1. Plain(s.name) /\ s.name \notin KeysOf(S) \cup DOMAIN S
    BY <1>2 DEF Carries
  <2>. QED
    BY <1>1, <1>2, <2>1, IndexAdded
<1>3. CASE s.type = "dropIndex"
  <2>1. ~S[s.table].keys[s.name].constraint
    BY <1>3 DEF Carries
  <2>. QED
    BY <1>1, <1>3, <2>1, IndexRemoved
<1>4. CASE s.type = "dropPrimary"
  <2>1. s.table \notin h.renamed
    BY <1>4 DEF Carries
  <2>. QED
    BY <1>1, <1>4, <2>1, PrimaryRemoved
<1>5. CASE s.type = "addPrimary"
  BY <1>1, <1>5, PrimaryAdded
<1>6. CASE s.type = "addColumn"
  <2>1. RewriteCreateTableType(s.column.type) \in PgTypes /\ ~s.column.onUpdate
    BY <1>6 DEF Carries
  <2>. QED
    BY <1>1, <1>6, <2>1, ColumnCarried
<1>. QED
  BY <1>2, <1>3, <1>4, <1>5, <1>6 DEF IsStatement

\* The command of a portable statement is possible, and brings it forward.
LEMMA CommandCarried ==
    ASSUME NEW S, IsTables(S), NEW d, IsDb(d), NEW h, Distinct(h.updated),
           NEW s, IsStatement(s), Accepts(S, s), Carries(S, h, s),
           Updated(s) \subseteq h.updated, RenamedBy(s) \subseteq h.renamed,
           NamesKept(d, h.renamed), FunctionsKept(d, h.updated),
           NEW done \in 0..Len(Commands(s)), done + 1 \in 1..Len(Commands(s)), Progress(d, S, s, done),
           NEW c, c = Commands(s)[done + 1]
    PROVE  /\ Possible(d, c) /\ Progress(Apply(d, c), S, s, done + 1)
           /\ NamesKept(Apply(d, c), h.renamed) /\ FunctionsKept(Apply(d, c), h.updated)
<1>1. CASE s.type = "createTable"
  <2>1. CreatingTable(d, S, s, done)
    BY <1>1 DEF Progress
  <2>2. /\ Possible(d, c) /\ CreatingTable(Apply(d, c), S, s, done + 1)
        /\ NamesKept(Apply(d, c), h.renamed) /\ FunctionsKept(Apply(d, c), h.updated)
    BY <1>1, <2>1, CreateStep
  <2>. QED
    BY <1>1, <2>2 DEF Progress
<1>2. CASE s.type = "renameTables"
  <2>1. RenamingTables(d, S, s, done)
    BY <1>2 DEF Progress
  <2>2. /\ Possible(d, c) /\ RenamingTables(Apply(d, c), S, s, done + 1)
        /\ NamesKept(Apply(d, c), h.renamed) /\ FunctionsKept(Apply(d, c), h.updated)
    BY <1>2, <2>1, RenameStep
  <2>. QED
    BY <1>2, <2>2 DEF Progress
<1>3. CASE s.type \notin {"createTable", "renameTables"}
  <2>1. Len(Commands(s)) = 1 /\ Commands(s) = Translation(s)
    BY <1>3, SingleCommand
  <2>2. done = 0
    BY <2>1
  <2>3. c = Translation(s)[1]
    BY <2>1, <2>2
  <2>4. Represents(d, S, {})
    BY <1>3, <2>2 DEF Progress
  <2>5. Possible(d, c) /\ Kept(Apply(d, c), Execute(S, s), {}, h)
    BY <1>3, <2>3, <2>4, SingleStep
  <2>6. Progress(Apply(d, c), S, s, done + 1)
    BY <1>3, <2>2, <2>5 DEF Progress, Kept
  <2>. QED
    BY <2>5, <2>6 DEF Kept
<1>. QED
  BY <1>1, <1>2, <1>3

-----------------------------------------------------------------------------
(* What the PostgreSQL shows.                                              *)

LEMMA ViewKept ==
    ASSUME IsTables(source), IsDb(db), Represents(db, source, {}), TypesKept(source)
    PROVE  View = source /\ Broken = {}
<1>. DEFINE Of(t, kinds) == {i \in DOMAIN db.indexes : db.indexes[i].table = t /\ db.indexes[i].kind \in kinds}
            Cols(t) == [c \in DOMAIN db.tables[t] |->
                           [db.tables[t][c] EXCEPT !.type = SourceType(@), !.onUpdate = Maintained(t, c)]]
            Prim(t) == UNION {db.indexes[i].columns : i \in Of(t, {"primary"})}
            Ks(t) == [i \in Of(t, {"index", "unique"}) |->
                         Key(db.indexes[i].unique, db.indexes[i].columns, db.indexes[i].kind = "unique")]
<1>1. View = [t \in DOMAIN db.tables |-> Table(Cols(t), Prim(t), Ks(t))]
  BY DEF View
<1>2. TablesKept(db, source) /\ PrimaryKept(db, source) /\ KeysKept(db, source) /\ UpdatesKept(db, source, {})
  BY DEF Represents
<1>3. DOMAIN db.tables = DOMAIN source
  BY <1>2 DEF TablesKept
<1>4. ASSUME NEW t \in DOMAIN source
      PROVE  /\ source[t] = Table(source[t].columns, source[t].primary, source[t].keys)
             /\ source[t].columns \in [DOMAIN source[t].columns -> Columns]
             /\ source[t].keys \in [DOMAIN source[t].keys -> Keys]
  BY DEF IsTables, IsTable, IsNaming
<1>5. ASSUME NEW t \in DOMAIN source PROVE Cols(t) = source[t].columns
  <2>. DEFINE f == source[t].columns
  <2>1. db.tables[t] = [c \in DOMAIN f |-> RenderCreateTableColumn(f[c])]
    BY <1>2, <1>5 DEF TablesKept
  <2>2. ASSUME NEW c \in DOMAIN f
        PROVE  [RenderCreateTableColumn(f[c]) EXCEPT !.type = SourceType(@), !.onUpdate = Maintained(t, c)] = f[c]
    <3>1. f[c] \in Columns /\ SourceType(RewriteCreateTableType(f[c].type)) = f[c].type
      BY <1>4, <1>5 DEF TypesKept
    <3>2. Maintained(t, c) <=> f[c].onUpdate
      <4>1. ASSUME Maintained(t, c) PROVE f[c].onUpdate
        BY <1>2, <4>1 DEF Maintained, UpdatesKept
      <4>2. ASSUME f[c].onUpdate PROVE Maintained(t, c)
        BY <1>2, <1>5, <4>2 DEF Maintained, UpdatesKept
      <4>3. f[c].onUpdate \in BOOLEAN
        BY <3>1, ColumnShape
      <4>. QED
        BY <4>1, <4>2, <4>3
    <3>3. Maintained(t, c) \in BOOLEAN
      BY DEF Maintained
    <3>. HIDE DEF f
    <3>. QED
      BY <3>1, <3>2, <3>3, ColumnReadBack
  <2>3. f = [c \in DOMAIN f |-> f[c]]
    BY <1>4, <1>5
  <2>4. Cols(t) = [c \in DOMAIN f |->
                      [RenderCreateTableColumn(f[c]) EXCEPT !.type = SourceType(@), !.onUpdate = Maintained(t, c)]]
    BY <2>1
  <2>. HIDE DEF Cols
  <2>5. Cols(t) = [c \in DOMAIN f |-> f[c]]
    BY <2>2, <2>4
  <2>. QED
    BY <2>3, <2>5
<1>6. ASSUME NEW t \in DOMAIN source PROVE Prim(t) = source[t].primary
  <2>1. \A i \in Of(t, {"primary"}) : db.indexes[i].columns = source[t].primary
    BY <1>2 DEF PrimaryKept
  <2>2. CASE source[t].primary = {}
    <3>1. Of(t, {"primary"}) = {}
      BY <1>2, <2>2 DEF PrimaryKept
    <3>. QED
      BY <2>2, <3>1
  <2>3. CASE source[t].primary # {}
    <3>1. PICK i \in DOMAIN db.indexes : IsPrimary(db, i) /\ db.indexes[i].table = t
      BY <1>2, <1>6, <2>3 DEF PrimaryKept
    <3>2. i \in Of(t, {"primary"})
      BY <3>1 DEF IsPrimary
    <3>. HIDE DEF Of
    <3>. QED
      BY <2>1, <3>2
  <2>. QED
    BY <2>2, <2>3
<1>7. ASSUME NEW t \in DOMAIN source PROVE Ks(t) = source[t].keys
  <2>. DEFINE f == source[t].keys
  <2>1. ASSUME NEW i \in DOMAIN f
        PROVE  /\ i \in Of(t, {"index", "unique"})
               /\ Key(db.indexes[i].unique, db.indexes[i].columns, db.indexes[i].kind = "unique") = f[i]
    <3>1. i \in DOMAIN db.indexes /\ db.indexes[i] = IndexOf(t, f[i])
      BY <1>2, <1>7, <2>1 DEF KeysKept
    <3>2. f[i] \in Keys
      BY <1>4, <1>7, <2>1
    <3>. HIDE DEF f
    <3>3. /\ db.indexes[i].table = t /\ db.indexes[i].unique = f[i].unique /\ db.indexes[i].columns = f[i].columns
          /\ db.indexes[i].kind = IF f[i].constraint THEN "unique" ELSE "index"
      BY <3>1 DEF IndexOf, Index
    <3>4. f[i] = Key(f[i].unique, f[i].columns, f[i].constraint) /\ f[i].constraint \in BOOLEAN
      BY <3>2 DEF Keys, Key
    <3>5. (db.indexes[i].kind = "unique") = f[i].constraint
      BY <3>3, <3>4
    <3>. QED
      BY <3>1, <3>3, <3>4, <3>5
  <2>2. ASSUME NEW i \in Of(t, {"index", "unique"}) PROVE i \in DOMAIN f
    <3>1. ~IsPrimary(db, i) /\ i \in DOMAIN db.indexes /\ db.indexes[i].table = t
      BY <2>2 DEF IsPrimary
    <3>. QED
      BY <1>2, <3>1 DEF KeysKept
  <2>3. f = [i \in DOMAIN f |-> f[i]]
    BY <1>4, <1>7
  <2>4. Of(t, {"index", "unique"}) = DOMAIN f
    BY <2>1, <2>2
  <2>. HIDE DEF Of
  <2>5. Ks(t) = [i \in DOMAIN f |-> f[i]]
    BY <2>1, <2>4
  <2>. QED
    BY <2>3, <2>5
<1>. HIDE DEF Cols, Prim, Ks
<1>8. \A t \in DOMAIN source : Table(Cols(t), Prim(t), Ks(t)) = source[t]
  BY <1>4, <1>5, <1>6, <1>7
<1>9. source = [t \in DOMAIN source |-> source[t]]
  BY DEF IsTables, IsFunction
<1>10. View = source
  BY <1>1, <1>3, <1>8, <1>9
<1>11. Broken = {}
  <2>1. \A g \in db.triggers : db.functions[g.function] \in DOMAIN db.tables[g.table]
    <3>1. ASSUME NEW g \in db.triggers PROVE db.functions[g.function] \in DOMAIN db.tables[g.table]
      <4>1. g.table \in DOMAIN source /\ db.functions[g.function] \in DOMAIN source[g.table].columns
        BY <1>2, <1>3 DEF IsDb, UpdatesKept
      <4>2. DOMAIN db.tables[g.table] = DOMAIN source[g.table].columns
        BY <1>2, <4>1 DEF TablesKept
      <4>. QED
        BY <4>1, <4>2
    <3>. QED
      BY <3>1
  <2>. QED
    BY <2>1 DEF Broken
<1>. QED
  BY <1>10, <1>11

-----------------------------------------------------------------------------
(* Portable statements.                                                    *)

LEMMA TypesMoved ==
    ASSUME NEW S, TypesKept(S), NEW pairs \in Seq(Pairs), CanRename(S, pairs), NEW n \in 0..Len(pairs)
    PROVE  TypesKept(Renaming(S, pairs)[n])
<1>. DEFINE r == Renaming(S, pairs)
            T == {k \in Nat : k <= Len(pairs) /\ ~TypesKept(r[k])}
<1>1. Len(pairs) \in Nat /\ DOMAIN pairs = 1..Len(pairs)
  OBVIOUS
<1>2. r[0] = S /\ \A k \in DOMAIN pairs : r[k] = Moved(r[k - 1], pairs[k].old, pairs[k].new)
  BY RenamingStep
<1>3. \A k \in DOMAIN pairs : pairs[k].old \in DOMAIN r[k - 1] /\ pairs[k].new \notin DOMAIN r[k - 1]
  BY DEF CanRename
<1>. HIDE DEF r
<1>4. T = {}
  <2>. SUFFICES ASSUME T # {} PROVE FALSE
    OBVIOUS
  <2>1. PICK k \in T : \A m \in T : k <= m
    BY LeastPlace
  <2>2. k \in DOMAIN pairs /\ k - 1 \in Nat /\ k - 1 <= Len(pairs) /\ ~TypesKept(r[k])
    BY <1>1, <1>2, <2>1
  <2>3. k - 1 \notin T
    <3>1. k \in Nat /\ \A m \in T : k <= m
      BY <2>1
    <3>. HIDE DEF T
    <3>. QED
      BY <2>2, <3>1
  <2>4. TypesKept(r[k - 1])
    BY <2>2, <2>3
  <2>5. IsMoved(Moved(r[k - 1], pairs[k].old, pairs[k].new), r[k - 1], pairs[k])
    BY <1>3, <2>2, MovedFacts
  <2>6. TypesKept(Moved(r[k - 1], pairs[k].old, pairs[k].new))
    BY <2>4, <2>5 DEF TypesKept, IsMoved
  <2>. QED
    BY <1>2, <2>2, <2>6
<1>5. TypesKept(r[n])
  BY <1>1, <1>4
<1>. QED
  BY <1>5 DEF r

LEMMA TypesCarried ==
    ASSUME TypesKept(source), NEW s, IsStatement(s), Accepts(source, s), PortableTypes(s)
    PROVE  TypesKept(Execute(source, s))
<1>. DEFINE t == s.table  w == Execute(source, s)
<1>1. CASE s.type = "createTable"
  <2>. DEFINE x == Table(s.columns, s.primary, s.keys)
  <2>1. w = IF t \in DOMAIN source THEN source ELSE With(source, t, x)
    BY <1>1 DEF Execute
  <2>2. x.columns = s.columns
    BY TableFields
  <2>3. \A c \in DOMAIN s.columns : SourceType(RewriteCreateTableType(s.columns[c].type)) = s.columns[c].type
    BY <1>1 DEF PortableTypes
  <2>. HIDE DEF w, x
  <2>4. CASE t \notin DOMAIN source
    <3>1. DOMAIN w = DOMAIN source \cup {t} /\ w[t] = x /\ \A u \in DOMAIN source : w[u] = source[u]
      BY <2>1, <2>4 DEF With
    <3>2. TypesKept(w)
      BY <2>2, <2>3, <3>1 DEF TypesKept
    <3>. QED
      BY <3>2 DEF w
  <2>5. CASE t \in DOMAIN source
    BY <2>1, <2>5 DEF w
  <2>. QED
    BY <2>4, <2>5
<1>2. CASE s.type = "renameTables"
  <2>1. w = Renaming(source, s.pairs)[Len(s.pairs)] /\ CanRename(source, s.pairs)
    BY <1>2 DEF Execute, Renamed, Accepts
  <2>2. s.pairs \in Seq(Pairs)
    BY <1>2 DEF IsStatement
  <2>3. Len(s.pairs) \in 0..Len(s.pairs)
    BY <2>2
  <2>. QED
    BY <2>1, <2>2, <2>3, TypesMoved
<1>3. CASE s.type \in {"createIndex", "addUnique", "dropIndex", "dropPrimary", "addPrimary"}
  <2>1. PICK p, keys : w = With(source, t, Table(source[t].columns, p, keys))
    BY <1>3 DEF Execute
  <2>2. t \in DOMAIN source
    BY <1>3 DEF Accepts
  <2>. HIDE DEF w
  <2>3. IsChanged(w, source, t, p, keys)
    BY <2>1, <2>2, TableChanged
  <2>4. TypesKept(w)
    BY <2>3 DEF TypesKept, IsChanged
  <2>. QED
    BY <2>4 DEF w
<1>4. CASE s.type = "addColumn"
  <2>. DEFINE columns == With(source[t].columns, s.name, s.column)
              x == Table(columns, source[t].primary, source[t].keys)
  <2>1. w = With(source, t, x) /\ t \in DOMAIN source
    BY <1>4 DEF Execute, Accepts
  <2>2. x.columns = columns
    BY TableFields
  <2>3. SourceType(RewriteCreateTableType(s.column.type)) = s.column.type
    BY <1>4 DEF PortableTypes
  <2>. HIDE DEF w, x
  <2>4. DOMAIN w = DOMAIN source /\ w[t] = x /\ \A u \in DOMAIN source : u # t => w[u] = source[u]
    BY <2>1 DEF With
  <2>5. /\ DOMAIN columns = DOMAIN source[t].columns \cup {s.name} /\ columns[s.name] = s.column
        /\ \A c \in DOMAIN source[t].columns : c # s.name => columns[c] = source[t].columns[c]
    BY DEF With
  <2>. HIDE DEF columns
  <2>6. TypesKept(w)
    BY <2>2, <2>3, <2>4, <2>5 DEF TypesKept
  <2>. QED
    BY <2>6 DEF w
<1>. QED
  BY <1>1, <1>2, <1>3, <1>4 DEF IsStatement

LEMMA PortableCarries ==
    ASSUME NEW s, IsStatement(s), Accepts(source, s), Portable(s),
           NEW h, h.renamed = history.renamed \cup RenamedBy(s)
    PROVE  Carries(source, h, s)
<1>1. KeyNames = KeysOf(source)
  BY DEF KeyNames, KeysOf
<1>2. CASE s.type = "createTable"
  <2>1. \A k \in DOMAIN s.keys : s.keys[k].constraint
    BY <1>2 DEF Portable, PortableKeys
  <2>2. \A c \in DOMAIN s.columns : RewriteCreateTableType(s.columns[c].type) \in PgTypes
    BY <1>2 DEF Portable, PortableTypes
  <2>3. ASSUME s.table \notin DOMAIN source
        PROVE  /\ Plain(s.table) /\ s.table \notin KeysOf(source) \cup DOMAIN s.keys
               /\ \A k \in DOMAIN s.keys : Plain(k) /\ k \notin KeysOf(source) \cup DOMAIN source
    <3>1. NewTables(s) = {s.table} /\ NewKeys(s) = DOMAIN s.keys
      BY <1>2, <2>3 DEF NewTables, NewKeys
    <3>. QED
      BY <1>1, <3>1 DEF Portable, PortableNames
  <2>4. ASSUME s.table \in DOMAIN source, NEW c \in DOMAIN s.columns, s.columns[c].onUpdate
        PROVE  c \in DOMAIN source[s.table].columns /\ source[s.table].columns[c].onUpdate
    <3>1. <<s.table, c>> \in Updated(s)
      BY <1>2, <2>4 DEF Updated
    <3>2. \A p \in Updated(s) : p[2] \in DOMAIN source[s.table].columns /\ source[s.table].columns[p[2]].onUpdate
      BY <1>2, <2>4 DEF Portable, PortableUpdates
    <3>3. <<s.table, c>>[2] = c
      OBVIOUS
    <3>. QED
      BY <3>1, <3>2, <3>3
  <2>. QED
    BY <1>2, <2>1, <2>2, <2>3, <2>4 DEF Carries
<1>3. CASE s.type = "renameTables"
  <2>1. NewTables(s) = {s.pairs[k].new : k \in DOMAIN s.pairs}
    BY <1>3 DEF NewTables
  <2>2. \A t \in NewTables(s) : Plain(t) /\ t \notin KeysOf(source)
    BY <1>1 DEF Portable, PortableNames
  <2>. QED
    BY <1>3, <2>1, <2>2 DEF Carries
<1>4. CASE s.type \in {"createIndex", "addUnique"}
  <2>1. NewKeys(s) = {s.name}
    BY <1>4 DEF NewKeys
  <2>. QED
    BY <1>1, <1>4, <2>1 DEF Carries, Portable, PortableNames
<1>5. CASE s.type = "dropIndex"
  BY <1>5 DEF Carries, Portable, PortableKeys
<1>6. CASE s.type = "dropPrimary"
  BY <1>6 DEF Carries, Portable, PortablePrimary, RenamedBy
<1>7. CASE s.type = "addPrimary"
  BY <1>7 DEF Carries
<1>8. CASE s.type = "addColumn"
  <2>1. RewriteCreateTableType(s.column.type) \in PgTypes
    BY <1>8 DEF Portable, PortableTypes
  <2>2. ~s.column.onUpdate
    BY <1>8 DEF Portable, PortableUpdates
  <2>. QED
    BY <1>8, <2>1, <2>2 DEF Carries
<1>. QED
  BY <1>2, <1>3, <1>4, <1>5, <1>6, <1>7, <1>8 DEF IsStatement

LEMMA DistinctCarried ==
    ASSUME NEW s, IsStatement(s), PortableUpdates(s), Distinct(history.updated)
    PROVE  Distinct(history.updated \cup Updated(s))
<1>. DEFINE U == history.updated  V == Updated(s)
<1>1. \A p \in V : p \in Names \X Names
  <2>1. CASE s.type = "createTable"
    <3>1. s.table \in Names /\ DOMAIN s.columns \subseteq Names
      BY <2>1, TableFacts DEF IsNaming
    <3>2. V = {<<s.table, c>> : c \in {x \in DOMAIN s.columns : s.columns[x].onUpdate}}
      BY <2>1 DEF Updated
    <3>. HIDE DEF V
    <3>. QED
      BY <3>1, <3>2
  <2>2. CASE s.type # "createTable"
    BY <2>2 DEF Updated
  <2>. QED
    BY <2>1, <2>2
<1>2. /\ \A p \in V : Lower(p[1]) = p[1] /\ Lower(p[2]) = p[2]
      /\ \A p \in V, q \in U \cup V : ArtifactName(p[1], p[2]) = ArtifactName(q[1], q[2]) => p = q
  BY DEF PortableUpdates
<1>3. /\ \A p \in U : p \in Names \X Names /\ Lower(p[1]) = p[1] /\ Lower(p[2]) = p[2]
      /\ \A p, q \in U : ArtifactName(p[1], p[2]) = ArtifactName(q[1], q[2]) => p = q
  BY DEF Distinct
<1>. HIDE DEF U, V
<1>4. Distinct(U \cup V)
  BY <1>1, <1>2, <1>3 DEF Distinct
<1>. QED
  BY <1>4 DEF U, V

-----------------------------------------------------------------------------
(* The invariant. Before, again before and after the commands.             *)

LEMMA ProgressStart ==
    ASSUME NEW S, NEW d, IsDb(d), NEW s, IsStatement(s), NEW r, Represents(d, S, {}), NamesKept(d, r)
    PROVE  Progress(d, S, s, 0)
<1>1. CASE s.type = "createTable"
  BY <1>1 DEF Progress, CreatingTable
<1>2. CASE s.type = "renameTables"
  <2>1. Renaming(S, s.pairs)[0] = S
    BY <1>2, RenameCommands, RenamingStep
  <2>2. ASSUME NEW i \in DOMAIN d.indexes, Plain(i) PROVE i \in KeysOf(S)
    <3>1. ~IsPrimary(d, i)
      BY <2>2 DEF NamesKept
    <3>2. i \in DOMAIN S[d.indexes[i].table].keys
      BY <3>1 DEF Represents, KeysKept
    <3>3. d.indexes[i].table \in DOMAIN S
      BY DEF IsDb, Represents, TablesKept
    <3>. QED
      BY <3>2, <3>3 DEF KeysOf
  <2>. QED
    BY <1>2, <2>1, <2>2 DEF Progress, RenamingTables
<1>3. CASE s.type \notin {"createTable", "renameTables"}
  BY <1>3 DEF Progress
<1>. QED
  BY <1>1, <1>2, <1>3

LEMMA PendingMore ==
    ASSUME NEW d, NEW S, NEW few, NEW many, few \subseteq many, Represents(d, S, few)
    PROVE  Represents(d, S, many)
<1>1. UpdatesKept(d, S, many)
  BY DEF Represents, UpdatesKept
<1>. QED
  BY <1>1 DEF Represents

LEMMA ProgressAgain ==
    ASSUME NEW S, NEW d, NEW s, IsStatement(s), s.type = "createTable", s.ifNotExists,
           NEW done \in 0..Len(Commands(s)), Progress(d, S, s, done)
    PROVE  Progress(d, S, s, 0)
<1>1. CreatingTable(d, S, s, done)
  BY DEF Progress
<1>2. CASE Represents(d, S, {})
  BY <1>2 DEF Progress, CreatingTable
<1>3. CASE Represents(d, Execute(S, s), Pending(s, done))
  <2>1. Len(Commands(s)) \in Nat
    BY TableCommands
  <2>2. done \in Nat
    BY <2>1
  <2>3. Pending(s, done) \subseteq Pending(s, 0)
    BY <2>2, PendingFirst
  <2>4. Represents(d, Execute(S, s), Pending(s, 0))
    BY <1>3, <2>3, PendingMore
  <2>5. DOMAIN OnUpdateColumns(s) \subseteq Nat \ {0}
    BY PendingIs
  <2>6. ArtifactsMade(d, s, 0)
    BY <2>5 DEF ArtifactsMade
  <2>. QED
    BY <2>4, <2>6 DEF Progress, CreatingTable
<1>. QED
  BY <1>1, <1>2, <1>3 DEF CreatingTable

LEMMA ProgressEnd ==
    ASSUME NEW S, NEW d, NEW s, IsStatement(s), Progress(d, S, s, Len(Commands(s)))
    PROVE  Represents(d, Execute(S, s), {})
<1>1. CASE s.type = "createTable"
  <2>1. Len(Commands(s)) # 0
    BY <1>1, TableCommands, PendingIs
  <2>2. Represents(d, Execute(S, s), Pending(s, Len(Commands(s))))
    BY <1>1, <2>1 DEF Progress, CreatingTable
  <2>. QED
    BY <1>1, <2>2, PendingFirst
<1>2. CASE s.type = "renameTables"
  <2>1. Len(Commands(s)) = Len(s.pairs)
    BY <1>2, RenameCommands
  <2>2. Execute(S, s) = Renaming(S, s.pairs)[Len(s.pairs)]
    BY <1>2 DEF Execute, Renamed
  <2>. QED
    BY <1>2, <2>1, <2>2 DEF Progress, RenamingTables
<1>3. CASE s.type \notin {"createTable", "renameTables"}
  <2>1. Len(Commands(s)) = 1
    BY <1>3, SingleCommand
  <2>. QED
    BY <1>3, <2>1 DEF Progress
<1>. QED
  BY <1>1, <1>2, <1>3

LEMMA KeptInvInit == Init => KeptInv
<1>. SUFFICES ASSUME Init PROVE KeptInv
  OBVIOUS
<1>1. /\ source = Nothing /\ db = Db(Nothing, Nothing, Nothing, {}) /\ pc = "idle"
      /\ history = [updated |-> {}, renamed |-> {}]
  BY NothingIs DEF Init
<1>2. db.tables = Nothing /\ db.indexes = Nothing /\ db.functions = Nothing /\ db.triggers = {}
  BY <1>1, DbFields
<1>3. TypesKept(source)
  BY <1>1, NothingIs DEF TypesKept
<1>4. NamesKept(db, history.renamed)
  BY <1>2, NothingIs DEF NamesKept
<1>5. FunctionsKept(db, history.updated) /\ Distinct(history.updated)
  BY <1>1, <1>2, NothingIs DEF FunctionsKept, Distinct
<1>6. TablesKept(db, source) /\ PrimaryKept(db, source)
  BY <1>1, <1>2, NothingIs DEF TablesKept, PrimaryKept
<1>7. KeysKept(db, source) /\ UpdatesKept(db, source, {})
  BY <1>1, <1>2, NothingIs DEF KeysKept, UpdatesKept
<1>. QED
  BY <1>1, <1>3, <1>4, <1>5, <1>6, <1>7 DEF KeptInv, Represents

\* Names that are used, and pairs that were updated, are kept with more of them.
LEMMA HistoryGrows ==
    ASSUME NEW d, NEW r, NEW u, NEW r2, NEW u2, r \subseteq r2, u \subseteq u2
    PROVE  /\ NamesKept(d, r) => NamesKept(d, r2)
           /\ FunctionsKept(d, u) => FunctionsKept(d, u2)
  BY DEF NamesKept, FunctionsKept

LEMMA KeptSubmit == ASSUME TypeInv, KeptInv, NEW s \in Statements, Submit(s) PROVE KeptInv'
<1>. SUFFICES ASSUME portable' PROVE KeptInv'
  BY DEF KeptInv
<1>. DEFINE h == [updated |-> history.updated \cup Updated(s), renamed |-> history.renamed \cup RenamedBy(s)]
<1>1. /\ pc = "idle" /\ Accepts(source, s) /\ current' = s /\ todo' = Commands(s) /\ pc' = "running"
      /\ portable /\ Portable(s) /\ history' = h /\ source' = source /\ db' = db
  BY DEF Submit
<1>2. h.updated = history.updated \cup Updated(s) /\ h.renamed = history.renamed \cup RenamedBy(s)
  OBVIOUS
<1>. HIDE DEF h
<1>3. IsStatement(s)
  BY StatementsAssumption
<1>4. /\ IsDb(db) /\ TypesKept(source) /\ NamesKept(db, history.renamed) /\ FunctionsKept(db, history.updated)
      /\ Distinct(history.updated) /\ Represents(db, source, {})
  BY <1>1 DEF KeptInv, TypeInv
<1>5. Carries(source, h, s)
  BY <1>1, <1>2, <1>3, PortableCarries
<1>6. TypesKept(Execute(source, s)) /\ Distinct(h.updated)
  BY <1>1, <1>2, <1>3, <1>4, TypesCarried, DistinctCarried DEF Portable
<1>7. NamesKept(db, h.renamed) /\ FunctionsKept(db, h.updated)
  BY <1>2, <1>4, HistoryGrows
<1>8. Progress(db, source, s, 0)
  BY <1>3, <1>4, ProgressStart
<1>. DEFINE cmds == Commands(s)
<1>9. \E X : cmds \in Seq(X)
  BY <1>3, CommandsOK
<1>10. todo' = cmds /\ cmds = Commands(current)'
  BY <1>1
<1>. HIDE DEF cmds
<1>11. cmds = SubSeq(cmds, 0 + 1, Len(cmds)) /\ 0 \in 0..Len(cmds)
  BY <1>9, AllToDo
<1>12. Running'
  BY <1>1, <1>2, <1>5, <1>6, <1>8, <1>10, <1>11 DEF Running
<1>. QED
  BY <1>1, <1>4, <1>6, <1>7, <1>12 DEF KeptInv

LEMMA KeptNow ==
    ASSUME TypeInv, KeptInv, portable, pc = "running"
    PROVE  /\ IsTables(source) /\ IsDb(db) /\ IsStatement(current) /\ Accepts(source, current)
           /\ TypesKept(source) /\ Distinct(history.updated) /\ Running
           /\ NamesKept(db, history.renamed) /\ FunctionsKept(db, history.updated)
  BY StatementsAssumption DEF KeptInv, TypeInv

\* The command that is to be run next is possible, and carried.
LEMMA KeptCommand ==
    ASSUME TypeInv, KeptInv, portable, pc = "running", todo # << >>
    PROVE  /\ Possible(db, Head(todo))
           /\ NamesKept(Apply(db, Head(todo)), history.renamed) /\ FunctionsKept(Apply(db, Head(todo)), history.updated)
           /\ \E done \in 0..Len(Commands(current)) :
                 /\ Tail(todo) = SubSeq(Commands(current), done + 1, Len(Commands(current)))
                 /\ Progress(Apply(db, Head(todo)), source, current, done)
<1>1. /\ IsTables(source) /\ IsDb(db) /\ IsStatement(current) /\ Accepts(source, current)
      /\ Distinct(history.updated) /\ NamesKept(db, history.renamed) /\ FunctionsKept(db, history.updated)
      /\ Carries(source, history, current)
      /\ Updated(current) \subseteq history.updated /\ RenamedBy(current) \subseteq history.renamed
  BY KeptNow DEF Running
<1>2. PICK done \in 0..Len(Commands(current)) : Todo(done) /\ Progress(db, source, current, done)
  BY KeptNow DEF Running, Todo
<1>3. /\ done + 1 \in 1..Len(Commands(current)) /\ done + 1 \in 0..Len(Commands(current))
      /\ Head(todo) = Commands(current)[done + 1]
      /\ Tail(todo) = SubSeq(Commands(current), done + 1 + 1, Len(Commands(current)))
  BY <1>2, Running1
<1>4. /\ Possible(db, Head(todo)) /\ Progress(Apply(db, Head(todo)), source, current, done + 1)
      /\ NamesKept(Apply(db, Head(todo)), history.renamed) /\ FunctionsKept(Apply(db, Head(todo)), history.updated)
  BY <1>1, <1>2, <1>3, CommandCarried
<1>. QED
  BY <1>3, <1>4

LEMMA KeptRun == ASSUME TypeInv, KeptInv, RunCommand PROVE KeptInv'
<1>. SUFFICES ASSUME portable' PROVE KeptInv'
  BY DEF KeptInv
<1>1. /\ pc = "running" /\ pc' = pc /\ todo # << >> /\ db' = Apply(db, Head(todo)) /\ todo' = Tail(todo)
      /\ source' = source /\ current' = current /\ portable /\ history' = history
  BY DEF RunCommand
<1>2. /\ Running /\ TypesKept(source) /\ Distinct(history.updated)
  BY <1>1, KeptNow
<1>3. NamesKept(db', history.renamed) /\ FunctionsKept(db', history.updated)
  BY <1>1, KeptCommand
<1>4. PICK done \in 0..Len(Commands(current)) :
          /\ todo' = SubSeq(Commands(current), done + 1, Len(Commands(current)))
          /\ Progress(db', source, current, done)
  BY <1>1, KeptCommand
<1>5. Running'
  BY <1>1, <1>2, <1>4 DEF Running
<1>. QED
  BY <1>1, <1>2, <1>3, <1>5 DEF KeptInv

LEMMA KeptRefuse == ASSUME TypeInv, KeptInv, Refuse PROVE KeptInv'
<1>1. CASE portable
  BY <1>1, KeptCommand DEF Refuse
<1>2. CASE ~portable
  BY <1>2 DEF Refuse, KeptInv
<1>. QED
  BY <1>1, <1>2

LEMMA KeptLose == ASSUME TypeInv, KeptInv, LoseConnection PROVE KeptInv'
<1>. SUFFICES ASSUME portable' PROVE KeptInv'
  BY DEF KeptInv
<1>1. /\ pc = "running" /\ pc' = pc /\ current.type = "createTable" /\ current.ifNotExists
      /\ todo' = Commands(current) /\ source' = source /\ db' = db /\ current' = current
      /\ portable /\ history' = history
  BY DEF LoseConnection
<1>2. /\ Running /\ TypesKept(source) /\ Distinct(history.updated) /\ IsStatement(current)
      /\ NamesKept(db, history.renamed) /\ FunctionsKept(db, history.updated)
  BY <1>1, KeptNow
<1>3. Progress(db, source, current, 0)
  BY <1>1, <1>2, ProgressAgain DEF Running
<1>. DEFINE cmds == Commands(current)
<1>4. \E X : cmds \in Seq(X)
  BY <1>2, CommandsOK
<1>5. todo' = cmds /\ cmds = Commands(current)'
  BY <1>1
<1>. HIDE DEF cmds
<1>6. cmds = SubSeq(cmds, 0 + 1, Len(cmds)) /\ 0 \in 0..Len(cmds)
  BY <1>4, AllToDo
<1>7. Running'
  BY <1>1, <1>2, <1>3, <1>5, <1>6 DEF Running
<1>. QED
  BY <1>1, <1>2, <1>7 DEF KeptInv

LEMMA KeptComplete == ASSUME TypeInv, KeptInv, Complete PROVE KeptInv'
<1>. SUFFICES ASSUME portable' PROVE KeptInv'
  BY DEF KeptInv
<1>1. /\ pc = "running" /\ todo = << >> /\ source' = Execute(source, current) /\ pc' = "idle"
      /\ db' = db /\ portable /\ history' = history
  BY DEF Complete
<1>2. /\ Running /\ Distinct(history.updated) /\ IsStatement(current)
      /\ NamesKept(db, history.renamed) /\ FunctionsKept(db, history.updated)
  BY <1>1, KeptNow
<1>3. PICK done \in 0..Len(Commands(current)) : Todo(done) /\ Progress(db, source, current, done)
  BY <1>2 DEF Running, Todo
<1>4. done = Len(Commands(current))
  BY <1>1, <1>3, Running1
<1>5. Represents(db, source', {})
  BY <1>1, <1>2, <1>3, <1>4, ProgressEnd
<1>6. TypesKept(source')
  BY <1>1, <1>2 DEF Running
<1>. QED
  BY <1>1, <1>2, <1>5, <1>6 DEF KeptInv

LEMMA KeptInvNext == TypeInv /\ KeptInv /\ [Next]_vars => KeptInv'
<1>. SUFFICES ASSUME TypeInv, KeptInv, [Next]_vars PROVE KeptInv'
  OBVIOUS
<1>1. CASE UNCHANGED vars
  <2>1. Running' <=> Running
    BY <1>1 DEF vars, Running
  <2>. QED
    BY <1>1, <2>1 DEF vars, KeptInv
<1>. QED
  BY <1>1, KeptSubmit, KeptRun, KeptRefuse, KeptLose, KeptComplete DEF Next

LEMMA AlwaysKeptInv == Spec => []KeptInv
  BY KeptInvInit, KeptInvNext, AlwaysTypeInv, PTL DEF Spec

\* Whatever portable statements are run, of whatever tables, and wherever the
\* connection is lost and a CREATE TABLE IF NOT EXISTS run again, no command of one is
\* refused, and the PostgreSQL has the schema of the MySQL after each: the same
\* columns, keys on the same tables, and a trigger for exactly the columns that are
\* ON UPDATE CURRENT_TIMESTAMP.
THEOREM SchemaCarried == Spec => []SchemaKept
<1>1. TypeInv /\ KeptInv => SchemaKept
  BY ViewKept DEF KeptInv, TypeInv, SchemaKept
<1>. QED
  BY <1>1, AlwaysTypeInv, AlwaysKeptInv, PTL
=============================================================================
