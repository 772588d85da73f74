------------------------------ MODULE DmlProof ------------------------------
(***************************************************************************)
(* That a data statement is cut into pieces which are parts of its text,   *)
(* rendered in the order of the text, and therefore that no question mark  *)
(* of the text is numbered twice: for texts of every length.               *)
(***************************************************************************)
EXTENDS Dml, FiniteSetTheorems, WellFoundedInduction, TLAPS

-----------------------------------------------------------------------------
(* Sequences.                                                              *)

IsSeq(s) == \E X : s \in Seq(X)

LEMMA LeastPlace ==
    ASSUME NEW T, T \subseteq Nat, T # {}
    PROVE  \E n \in T : \A m \in T : n <= m
<1>1. IsWellFoundedOn(OpToRel(<, Nat), Nat)
  BY NatLessThanWellFounded
<1>2. PICK n \in T : \A m \in T : <<m, n>> \notin OpToRel(<, Nat)
  BY <1>1, WFMin
<1>3. \A m \in T : ~(m < n)
  BY <1>2 DEF OpToRel
<1>. QED
  BY <1>3

LEMMA SeqFacts ==
    ASSUME NEW s, IsSeq(s)
    PROVE  Len(s) \in Nat /\ DOMAIN s = 1..Len(s)
<1>1. PICK X : s \in Seq(X)
  BY DEF IsSeq
<1>. QED
  BY <1>1

LEMMA SeqMade ==
    ASSUME NEW s, NEW n \in Nat, s = [k \in 1..n |-> s[k]]
    PROVE  IsSeq(s) /\ Len(s) = n
<1>. DEFINE X == {s[k] : k \in 1..n}
<1>1. s \in [1..n -> X]
  OBVIOUS
<1>. HIDE DEF X
<1>2. s \in Seq(X) /\ Len(s) = n
  BY <1>1
<1>. QED
  BY <1>2 DEF IsSeq

Chained(s, t, r) ==
    /\ IsSeq(r) /\ Len(r) = Len(s) + Len(t)
    /\ \A k \in 1..Len(s) : r[k] = s[k]
    /\ \A k \in 1..Len(t) : r[Len(s) + k] = t[k]

LEMMA ConcatIs ==
    ASSUME NEW s, NEW t, IsSeq(s), IsSeq(t)
    PROVE  Chained(s, t, s \o t)
<1>1. PICK X : s \in Seq(X)
  BY DEF IsSeq
<1>2. PICK Y : t \in Seq(Y)
  BY DEF IsSeq
<1>. DEFINE Z == X \cup Y
<1>3. s \in Seq(Z) /\ t \in Seq(Z)
  BY <1>1, <1>2
<1>. HIDE DEF Z
<1>4. s \o t \in Seq(Z) /\ Len(s \o t) = Len(s) + Len(t)
  BY <1>3
<1>5. \A k \in 1..Len(s) : (s \o t)[k] = s[k]
  BY <1>3
<1>6. \A k \in 1..Len(t) : (s \o t)[Len(s) + k] = t[k]
  BY <1>3
<1>. QED
  BY <1>4, <1>5, <1>6 DEF IsSeq, Chained

Slice(text, p, q) == SubSeq(text, p + 1, q)

LEMMA SliceFacts ==
    ASSUME NEW t, IsSeq(t), NEW p \in 0..Len(t), NEW q \in p..Len(t)
    PROVE  /\ IsSeq(Slice(t, p, q)) /\ Len(Slice(t, p, q)) = q - p
           /\ \A i \in 1..(q - p) : Slice(t, p, q)[i] = t[p + i]
<1>1. PICK X : t \in Seq(X)
  BY DEF IsSeq
<1>2. Len(t) \in Nat /\ p \in Nat /\ q \in Nat /\ p <= q /\ q <= Len(t)
  BY <1>1
<1>3. /\ SubSeq(t, p + 1, q) \in Seq(X) /\ Len(SubSeq(t, p + 1, q)) = q - p
      /\ \A i \in 1..(q - p) : SubSeq(t, p + 1, q)[i] = t[p + i]
  BY <1>1, <1>2
<1>. QED
  BY <1>3 DEF Slice, IsSeq

\* Two sequences are equal when their elements are.
LEMMA SameSeq ==
    ASSUME NEW s, NEW t, IsSeq(s), IsSeq(t), Len(s) = Len(t), \A i \in 1..Len(s) : s[i] = t[i]
    PROVE  s = t
<1>1. PICK X : s \in Seq(X)
  BY DEF IsSeq
<1>2. PICK Y : t \in Seq(Y)
  BY DEF IsSeq
<1>. QED
  BY <1>1, <1>2

LEMMA SliceOfSlice ==
    ASSUME NEW t, IsSeq(t), NEW p \in 0..Len(t), NEW q \in p..Len(t), NEW a \in 0..(q - p), NEW b \in a..(q - p)
    PROVE  Slice(Slice(t, p, q), a, b) = Slice(t, p + a, p + b)
<1>1. /\ Len(t) \in Nat /\ p \in Nat /\ q \in Nat /\ a \in Nat /\ b \in Nat
      /\ p + a \in 0..Len(t) /\ p + b \in (p + a)..Len(t) /\ (p + b) - (p + a) = b - a
  BY SeqFacts
<1>. DEFINE s == Slice(t, p, q)
<1>2. IsSeq(s) /\ Len(s) = q - p /\ \A i \in 1..(q - p) : s[i] = t[p + i]
  BY SliceFacts
<1>. HIDE DEF s
<1>3. IsSeq(Slice(s, a, b)) /\ Len(Slice(s, a, b)) = b - a /\ \A i \in 1..(b - a) : Slice(s, a, b)[i] = s[a + i]
  <2>1. a \in 0..Len(s) /\ b \in a..Len(s)
    BY <1>2
  <2>. QED
    BY <1>2, <2>1, SliceFacts, ZenonT(40)
<1>. DEFINE x == p + a
            y == p + b
<1>4. x \in 0..Len(t) /\ y \in x..Len(t) /\ y - x = b - a
  BY <1>1
<1>5. \A i \in 1..(b - a) : a + i \in 1..(q - p) /\ p + (a + i) = x + i
  BY <1>1
<1>. HIDE DEF x, y
<1>6. /\ IsSeq(Slice(t, x, y)) /\ Len(Slice(t, x, y)) = b - a
      /\ \A i \in 1..(b - a) : Slice(t, x, y)[i] = t[x + i]
  <2>1. /\ IsSeq(Slice(t, x, y)) /\ Len(Slice(t, x, y)) = y - x
        /\ \A i \in 1..(y - x) : Slice(t, x, y)[i] = t[x + i]
    BY <1>4, SliceFacts
  <2>. QED
    BY <1>4, <2>1
<1>7. \A i \in 1..(b - a) : Slice(s, a, b)[i] = Slice(t, x, y)[i]
  BY <1>2, <1>3, <1>5, <1>6
<1>8. Slice(s, a, b) = Slice(t, x, y)
  BY <1>3, <1>6, <1>7, SameSeq
<1>. QED
  BY <1>8 DEF s, x, y

LEMMA TextParts ==
    ASSUME NEW t, IsSeq(t)
    PROVE  /\ \A i \in 1..(Len(t) + 1) : Before(t, i) = Slice(t, 0, i - 1) /\ From(t, i) = Slice(t, i - 1, Len(t))
           /\ t = Slice(t, 0, Len(t))
           /\ t # << >> => Len(t) > 0 /\ Tail(t) = Slice(t, 1, Len(t))
           /\ << >> = Slice(t, Len(t), Len(t))
<1>1. PICK X : t \in Seq(X)
  BY DEF IsSeq
<1>2. \A i \in 1..(Len(t) + 1) : 0 + 1 = 1 /\ (i - 1) + 1 = i
  BY <1>1
<1>3. \A i \in 1..(Len(t) + 1) : Before(t, i) = Slice(t, 0, i - 1) /\ From(t, i) = Slice(t, i - 1, Len(t))
  BY <1>2 DEF Before, From, Slice
<1>4. t = Slice(t, 0, Len(t))
  BY <1>1, SliceFacts, SameSeq DEF Slice
<1>5. t # << >> => Len(t) > 0 /\ Tail(t) = Slice(t, 1, Len(t))
  BY <1>1 DEF Slice
<1>6. << >> = Slice(t, Len(t), Len(t))
  BY <1>1 DEF Slice
<1>. QED
  BY <1>3, <1>4, <1>5, <1>6

-----------------------------------------------------------------------------
(* Markers.                                                                *)

\* The markers among the first n symbols of a text.
Marks(text, n) == Cardinality({i \in 1..n : text[i] = "?"})

LEMMA MarksFacts ==
    ASSUME NEW t, NEW p \in Nat, NEW q \in Nat, p <= q
    PROVE  /\ Marks(t, p) \in Nat /\ Marks(t, q) \in Nat
           /\ Cardinality({i \in (p + 1)..q : t[i] = "?"}) \in Nat
           /\ Marks(t, q) = Marks(t, p) + Cardinality({i \in (p + 1)..q : t[i] = "?"})
<1>. DEFINE S == {i \in 1..p : t[i] = "?"}
            T == {i \in (p + 1)..q : t[i] = "?"}
            U == {i \in 1..q : t[i] = "?"}
<1>1. IsFiniteSet(S) /\ IsFiniteSet(T) /\ IsFiniteSet(U)
  <2>1. IsFiniteSet(1..p) /\ IsFiniteSet((p + 1)..q) /\ IsFiniteSet(1..q)
    BY FS_Interval
  <2>. QED
    BY <2>1, FS_Subset
<1>2. U = S \cup T /\ S \cap T = {}
  OBVIOUS
<1>. HIDE DEF S, T, U
<1>3. Cardinality(U) = Cardinality(S) + Cardinality(T) - Cardinality(S \cap T)
  BY <1>1, <1>2, FS_Union
<1>4. Cardinality(S) \in Nat /\ Cardinality(T) \in Nat /\ Cardinality(S \cap T) = 0
  BY <1>1, <1>2, FS_CardinalityType, FS_EmptySet
<1>5. Cardinality(U) = Cardinality(S) + Cardinality(T) /\ Cardinality(U) \in Nat
  BY <1>3, <1>4
<1>. QED
  BY <1>4, <1>5 DEF Marks, S, T, U

LEMMA MarksOfSlice ==
    ASSUME NEW t, IsSeq(t), NEW p \in 0..Len(t), NEW q \in p..Len(t)
    PROVE  Marks(t, q) = Marks(t, p) + Marks(Slice(t, p, q), q - p)
<1>. DEFINE s == Slice(t, p, q)
            S == {i \in 1..(q - p) : s[i] = "?"}
            T == {i \in (p + 1)..q : t[i] = "?"}
            f == [i \in S |-> p + i]
<1>1. Len(t) \in Nat /\ p \in Nat /\ q \in Nat /\ p <= q
  BY SeqFacts
<1>2. \A i \in 1..(q - p) : s[i] = t[p + i]
  BY SliceFacts
<1>. HIDE DEF s
<1>3. IsFiniteSet(S)
  <2>1. IsFiniteSet(1..(q - p))
    BY <1>1, FS_Interval
  <2>. QED
    BY <2>1, FS_Subset
<1>4. f \in Bijection(S, T)
  <2>1. f \in [S -> T]
    BY <1>1, <1>2
  <2>2. \A i, j \in S : f[i] = f[j] => i = j
    BY <1>1
  <2>3. \A j \in T : j - p \in S /\ f[j - p] = j
    BY <1>1, <1>2
  <2>. HIDE DEF f, S, T
  <2>4. f \in Injection(S, T)
    BY <2>1, <2>2 DEF Injection, IsInjective
  <2>5. f \in Surjection(S, T)
    BY <2>1, <2>3 DEF Surjection
  <2>. QED
    BY <2>4, <2>5 DEF Bijection
<1>5. Cardinality(T) = Cardinality(S)
  BY <1>3, <1>4, FS_Bijection DEF ExistsBijection
<1>6. Marks(t, q) = Marks(t, p) + Cardinality(T)
  BY <1>1, MarksFacts
<1>. QED
  BY <1>5, <1>6 DEF Marks, s

-----------------------------------------------------------------------------
(* Pieces that follow each other in a text.                                *)

\* Between p and q, at[k] and upto[k] are where piece k is in the text; a piece
\* that is not of the text may be anywhere.
Follows(pieces, text, p, q, at, upto) ==
    /\ at \in [DOMAIN pieces -> p..q] /\ upto \in [DOMAIN pieces -> p..q]
    /\ \A k \in DOMAIN pieces : at[k] <= upto[k]
    /\ \A k \in DOMAIN pieces : pieces[k].raw => pieces[k].text = Slice(text, at[k], upto[k])
    /\ \A j, k \in DOMAIN pieces : j < k => upto[j] <= at[k]

Follow(pieces, text, p, q) == \E at, upto : Follows(pieces, text, p, q, at, upto)

LEMMA FollowEmpty ==
    ASSUME NEW text, NEW p, NEW q
    PROVE  IsSeq(<< >>) /\ Follow(<< >>, text, p, q)
<1>1. << >> \in Seq({}) /\ DOMAIN << >> = {}
  OBVIOUS
<1>2. Follows(<< >>, text, p, q, << >>, << >>)
  BY <1>1 DEF Follows
<1>. QED
  BY <1>1, <1>2 DEF IsSeq, Follow

LEMMA FollowVerbatim ==
    ASSUME NEW x, NEW text, NEW p \in Int, NEW q \in Int, p <= q
    PROVE  IsSeq(<<Verbatim(x)>>) /\ Follow(<<Verbatim(x)>>, text, p, q)
<1>. DEFINE P == <<Verbatim(x)>>
<1>1. P \in Seq({Verbatim(x)}) /\ DOMAIN P = {1} /\ P[1] = Verbatim(x)
  OBVIOUS
<1>2. ~Verbatim(x).raw
  BY DEF Verbatim
<1>3. Follows(P, text, p, q, [k \in {1} |-> p], [k \in {1} |-> p])
  BY <1>1, <1>2 DEF Follows
<1>. QED
  BY <1>1, <1>3 DEF IsSeq, Follow

LEMMA FollowRaw ==
    ASSUME NEW text, NEW p \in Int, NEW q \in Int, NEW a \in p..q, NEW b \in a..q
    PROVE  IsSeq(<<Rewritten(Slice(text, a, b))>>) /\ Follow(<<Rewritten(Slice(text, a, b))>>, text, p, q)
<1>. DEFINE P == <<Rewritten(Slice(text, a, b))>>
<1>1. P \in Seq({Rewritten(Slice(text, a, b))}) /\ DOMAIN P = {1} /\ P[1] = Rewritten(Slice(text, a, b))
  OBVIOUS
<1>2. P[1].text = Slice(text, a, b)
  BY <1>1 DEF Rewritten
<1>. HIDE DEF P
<1>3. Follows(P, text, p, q, [k \in {1} |-> a], [k \in {1} |-> b])
  BY <1>1, <1>2 DEF Follows
<1>. QED
  BY <1>1, <1>3 DEF IsSeq, Follow, P

LEMMA FollowWide ==
    ASSUME NEW P, NEW text, NEW p \in Int, NEW q \in Int, NEW a \in Int, NEW b \in Int, a <= p, q <= b, Follow(P, text, p, q)
    PROVE  Follow(P, text, a, b)
<1>1. PICK at, upto : Follows(P, text, p, q, at, upto)
  BY DEF Follow
<1>2. p..q \subseteq a..b
  OBVIOUS
<1>3. Follows(P, text, a, b, at, upto)
  BY <1>1, <1>2 DEF Follows
<1>. QED
  BY <1>3 DEF Follow

LEMMA FollowConcat ==
    ASSUME NEW P, NEW Q, NEW text, NEW p \in Int, NEW q \in Int, NEW r \in Int, p <= q, q <= r,
           IsSeq(P), IsSeq(Q), Follow(P, text, p, q), Follow(Q, text, q, r)
    PROVE  IsSeq(P \o Q) /\ Follow(P \o Q, text, p, r)
<1>1. PICK at, upto : Follows(P, text, p, q, at, upto)
  BY DEF Follow
<1>2. PICK bt, vpto : Follows(Q, text, q, r, bt, vpto)
  BY DEF Follow
<1>. DEFINE m == Len(P)
            n == Len(Q)
            R == P \o Q
            ct == [k \in 1..(m + n) |-> IF k <= m THEN at[k] ELSE bt[k - m]]
            wpto == [k \in 1..(m + n) |-> IF k <= m THEN upto[k] ELSE vpto[k - m]]
<1>3. /\ IsSeq(R) /\ m \in Nat /\ n \in Nat /\ DOMAIN P = 1..m /\ DOMAIN Q = 1..n /\ DOMAIN R = 1..(m + n)
      /\ \A k \in 1..m : R[k] = P[k]
      /\ \A k \in 1..n : R[m + k] = Q[k]
  <2>1. Chained(P, Q, R)
    BY ConcatIs
  <2>. HIDE DEF R
  <2>. QED
    BY <2>1, SeqFacts DEF Chained
<1>. HIDE DEF R, m, n
<1>4. \A k \in 1..(m + n) : (k <= m /\ k \in 1..m) \/ (~(k <= m) /\ k - m \in 1..n /\ m + (k - m) = k)
  BY <1>3
<1>5. /\ \A k \in 1..m : at[k] \in p..q /\ upto[k] \in p..q /\ at[k] <= upto[k]
      /\ \A k \in 1..n : bt[k] \in q..r /\ vpto[k] \in q..r /\ bt[k] <= vpto[k]
  BY <1>1, <1>2, <1>3 DEF Follows
<1>6. /\ \A k \in 1..m : k \in 1..(m + n) /\ ct[k] = at[k] /\ wpto[k] = upto[k]
      /\ \A k \in 1..n : m + k \in 1..(m + n) /\ ct[m + k] = bt[k] /\ wpto[m + k] = vpto[k]
  BY <1>3
<1>7. \A k \in 1..(m + n) : ct[k] \in p..r /\ wpto[k] \in p..r /\ ct[k] <= wpto[k]
  BY <1>4, <1>5
<1>8. ct \in [1..(m + n) -> p..r] /\ wpto \in [1..(m + n) -> p..r]
  BY <1>7
<1>. HIDE DEF ct, wpto
<1>9. \A k \in 1..(m + n) : R[k].raw => R[k].text = Slice(text, ct[k], wpto[k])
  <2>. SUFFICES ASSUME NEW k \in 1..(m + n), R[k].raw PROVE R[k].text = Slice(text, ct[k], wpto[k])
    OBVIOUS
  <2>1. CASE k \in 1..m
    BY <1>1, <1>3, <1>6, <2>1 DEF Follows
  <2>2. CASE k - m \in 1..n /\ m + (k - m) = k
    <3>. DEFINE i == k - m
    <3>1. i \in 1..n /\ R[k] = Q[i] /\ ct[k] = bt[i] /\ wpto[k] = vpto[i]
      BY <1>3, <1>6, <2>2
    <3>. HIDE DEF i
    <3>. QED
      BY <1>2, <1>3, <3>1 DEF Follows
  <2>. QED
    BY <1>4, <2>1, <2>2
<1>10. \A j, k \in 1..(m + n) : j < k => wpto[j] <= ct[k]
  <2>. SUFFICES ASSUME NEW j \in 1..(m + n), NEW k \in 1..(m + n), j < k PROVE wpto[j] <= ct[k]
    OBVIOUS
  <2>1. CASE j \in 1..m /\ k \in 1..m
    BY <1>1, <1>3, <1>6, <2>1 DEF Follows
  <2>2. CASE j \in 1..m /\ ~(k <= m)
    <3>1. wpto[j] <= q
      BY <1>5, <1>6, <2>2
    <3>2. k - m \in 1..n /\ m + (k - m) = k
      BY <1>4, <2>2
    <3>3. q <= ct[k]
      BY <1>5, <1>6, <3>2
    <3>4. wpto[j] \in Int /\ ct[k] \in Int
      BY <1>7 DEF ct, wpto
    <3>. QED
      BY <3>1, <3>3, <3>4
  <2>3. CASE ~(j <= m)
    <3>. DEFINE x == j - m
                y == k - m
    <3>1. x \in 1..n /\ y \in 1..n /\ x < y /\ m + x = j /\ m + y = k
      BY <1>3, <1>4, <2>3
    <3>2. wpto[j] = vpto[x] /\ ct[k] = bt[y]
      BY <1>6, <3>1
    <3>. HIDE DEF x, y
    <3>. QED
      BY <1>2, <1>3, <3>1, <3>2 DEF Follows
  <2>. QED
    BY <1>3, <1>4, <2>1, <2>2, <2>3
<1>11. Follows(R, text, p, r, ct, wpto)
  <2>1. \A k \in 1..(m + n) : ct[k] <= wpto[k]
    BY <1>7 DEF ct, wpto
  <2>. QED
    BY <1>3, <1>8, <1>9, <1>10, <2>1 DEF Follows
<1>. QED
  BY <1>3, <1>11 DEF Follow, R

\* What is in the text of a slice is in the text of which it is one.
LEMMA FollowInside ==
    ASSUME NEW t, IsSeq(t), NEW p \in 0..Len(t), NEW q \in p..Len(t), NEW a \in 0..(q - p), NEW b \in a..(q - p),
           NEW P, Follow(P, Slice(t, p, q), a, b)
    PROVE  Follow(P, t, p + a, p + b)
<1>1. PICK at, upto : Follows(P, Slice(t, p, q), a, b, at, upto)
  BY DEF Follow
<1>2. Len(t) \in Nat /\ p \in Nat /\ q \in Nat /\ a \in Nat /\ b \in Nat
  BY SeqFacts
<1>. DEFINE ct == [k \in DOMAIN P |-> p + at[k]]
            wpto == [k \in DOMAIN P |-> p + upto[k]]
<1>3. \A k \in DOMAIN P : at[k] \in a..b /\ upto[k] \in a..b /\ at[k] <= upto[k]
  BY <1>1 DEF Follows
<1>4. \A k \in DOMAIN P : P[k].raw => P[k].text = Slice(t, ct[k], wpto[k])
  <2>. SUFFICES ASSUME NEW k \in DOMAIN P, P[k].raw PROVE P[k].text = Slice(t, ct[k], wpto[k])
    OBVIOUS
  <2>. DEFINE x == at[k]
              y == upto[k]
  <2>1. P[k].text = Slice(Slice(t, p, q), x, y)
    BY <1>1 DEF Follows
  <2>2. x \in 0..(q - p) /\ y \in x..(q - p)
    <3>1. x \in a..b /\ y \in a..b /\ x <= y
      BY <1>3
    <3>. HIDE DEF x, y
    <3>2. a >= 0 /\ b <= q - p /\ q - p \in Int
      BY <1>2
    <3>. QED
      BY <1>2, <3>1, <3>2
  <2>. HIDE DEF x, y
  <2>3. Slice(Slice(t, p, q), x, y) = Slice(t, p + x, p + y)
    BY <2>2, SliceOfSlice
  <2>. QED
    BY <2>1, <2>3 DEF x, y
<1>5. \A k \in DOMAIN P : ct[k] \in (p + a)..(p + b) /\ wpto[k] \in (p + a)..(p + b) /\ ct[k] <= wpto[k]
  <2>. SUFFICES ASSUME NEW k \in DOMAIN P
                PROVE  ct[k] \in (p + a)..(p + b) /\ wpto[k] \in (p + a)..(p + b) /\ ct[k] <= wpto[k]
    OBVIOUS
  <2>. DEFINE x == at[k]
              y == upto[k]
  <2>1. ct[k] = p + x /\ wpto[k] = p + y /\ x \in a..b /\ y \in a..b /\ x <= y
    BY <1>3
  <2>. HIDE DEF x, y, ct, wpto
  <2>. QED
    BY <1>2, <2>1
<1>6. \A j, k \in DOMAIN P : j < k => wpto[j] <= ct[k]
  <2>1. \A j, k \in DOMAIN P : j < k => upto[j] <= at[k]
    BY <1>1 DEF Follows
  <2>. QED
    BY <1>2, <1>3, <2>1
<1>. HIDE DEF ct, wpto
<1>7. ct \in [DOMAIN P -> (p + a)..(p + b)] /\ wpto \in [DOMAIN P -> (p + a)..(p + b)]
  BY <1>5 DEF ct, wpto
<1>8. Follows(P, t, p + a, p + b, ct, wpto)
  BY <1>4, <1>5, <1>6, <1>7 DEF Follows
<1>. QED
  BY <1>8 DEF Follow

\* The first of some pieces, and the others, which come after it.
LEMMA FollowTail ==
    ASSUME NEW P, IsSeq(P), P # << >>, NEW text, NEW p \in Int, NEW q \in Int, Follow(P, text, p, q)
    PROVE  /\ IsSeq(Tail(P))
           /\ \E a, m \in p..q : /\ a <= m /\ Follow(Tail(P), text, m, q)
                                 /\ Head(P).raw => Head(P).text = Slice(text, a, m)
<1>1. PICK X : P \in Seq(X)
  BY DEF IsSeq
<1>2. PICK at, upto : Follows(P, text, p, q, at, upto)
  BY DEF Follow
<1>. DEFINE n == Len(P)
            T == Tail(P)
<1>3. /\ n \in Nat /\ n > 0 /\ DOMAIN P = 1..n /\ Head(P) = P[1] /\ T \in Seq(X) /\ DOMAIN T = 1..(n - 1)
      /\ \A k \in 1..(n - 1) : T[k] = P[k + 1]
  BY <1>1
<1>. HIDE DEF n, T
<1>4. \A k \in 1..n : at[k] \in p..q /\ upto[k] \in p..q /\ at[k] <= upto[k]
  BY <1>2, <1>3 DEF Follows
<1>. DEFINE ct == [k \in 1..(n - 1) |-> at[k + 1]]
            wpto == [k \in 1..(n - 1) |-> upto[k + 1]]
<1>5. \A k \in 1..(n - 1) : k + 1 \in 1..n /\ 1 \in 1..n /\ 1 < k + 1
  BY <1>3
<1>6. \A j, k \in 1..n : j < k => upto[j] <= at[k]
  BY <1>2, <1>3 DEF Follows
<1>7. \A k \in 1..(n - 1) : ct[k] \in upto[1]..q /\ wpto[k] \in upto[1]..q /\ ct[k] <= wpto[k]
  BY <1>4, <1>5, <1>6
<1>8. \A k \in 1..(n - 1) : T[k].raw => T[k].text = Slice(text, ct[k], wpto[k])
  BY <1>2, <1>3, <1>5 DEF Follows
<1>9. \A j, k \in 1..(n - 1) : j < k => wpto[j] <= ct[k]
  <2>1. \A j, k \in 1..(n - 1) : j < k => j + 1 < k + 1
    BY <1>3
  <2>. QED
    BY <1>5, <1>6, <2>1
<1>10. ct \in [1..(n - 1) -> upto[1]..q] /\ wpto \in [1..(n - 1) -> upto[1]..q]
  BY <1>7
<1>. HIDE DEF ct, wpto
<1>11. Follows(T, text, upto[1], q, ct, wpto)
  <2>1. \A k \in 1..(n - 1) : ct[k] <= wpto[k]
    BY <1>7 DEF ct, wpto
  <2>. QED
    BY <1>3, <1>8, <1>9, <1>10, <2>1 DEF Follows
<1>12. Head(P).raw => Head(P).text = Slice(text, at[1], upto[1])
  <2>1. 1 \in DOMAIN P
    BY <1>3
  <2>2. P[1].raw => P[1].text = Slice(text, at[1], upto[1])
    BY <1>2, <2>1 DEF Follows
  <2>. QED
    BY <1>3, <2>2
<1>13. at[1] \in p..q /\ upto[1] \in p..q /\ at[1] <= upto[1] /\ Follow(T, text, upto[1], q)
  BY <1>3, <1>4, <1>11 DEF Follow
<1>. QED
  BY <1>3, <1>12, <1>13 DEF IsSeq, T

Flatten(f, ss, n) == f = [i \in 1..n |-> IF i = 1 THEN ss[i] ELSE f[i - 1] \o ss[i]]

LEMMA FlattenExists ==
    ASSUME NEW ss, NEW n \in Nat
    PROVE  \E f : Flatten(f, ss, n)
<1>. DEFINE Step(x, i) == x \o ss[i]
            Walk(f, m) == f = [i \in 1..m |-> IF i = 1 THEN ss[i] ELSE Step(f[i - 1], i)]
            T == {m \in Nat : ~ \E f : Walk(f, m)}
<1>1. T = {}
  <2>. HIDE DEF Step
  <2>. SUFFICES ASSUME T # {} PROVE FALSE
    OBVIOUS
  <2>1. PICK m \in T : \A k \in T : m <= k
    BY LeastPlace
  <2>2. m # 0
    <3>1. Walk([i \in 1..0 |-> 0], 0)
      OBVIOUS
    <3>. QED
      BY <3>1
  <2>3. m - 1 \in Nat /\ m - 1 \notin T /\ m \in Nat
    <3>1. m \in Nat /\ \A k \in T : m <= k
      BY <2>1
    <3>. HIDE DEF T
    <3>. QED
      BY <2>2, <3>1
  <2>4. PICK f : Walk(f, m - 1)
    BY <2>3
  <2>. DEFINE t == [i \in 1..m |-> IF i = m THEN (IF m = 1 THEN ss[m] ELSE Step(f[m - 1], m)) ELSE f[i]]
  <2>5. Walk(t, m)
    <3>1. \A i \in 1..m : i # m => t[i] = IF i = 1 THEN ss[i] ELSE Step(t[i - 1], i)
      BY <2>3, <2>4
    <3>2. t[m] = IF m = 1 THEN ss[m] ELSE Step(t[m - 1], m)
      BY <2>2, <2>3
    <3>. QED
      BY <3>1, <3>2, <2>2
  <2>. QED
    BY <2>1, <2>5
<1>. QED
  BY <1>1 DEF Flatten


\* Sequences of pieces, each in its part of the text.
LEMMA FollowFlatten ==
    ASSUME NEW n \in Nat, NEW ss, ss = [k \in 1..n |-> ss[k]], NEW text, NEW c \in [0..n -> Int],
           \A k \in 1..n : c[k - 1] <= c[k],
           \A k \in 1..n : IsSeq(ss[k]) /\ Follow(ss[k], text, c[k - 1], c[k])
    PROVE  IsSeq(FlattenSeq(ss)) /\ Follow(FlattenSeq(ss), text, c[0], c[n])
<1>1. IsSeq(ss) /\ Len(ss) = n
  BY SeqMade
<1>2. CASE n = 0
  <2>1. FlattenSeq(ss) = ss
    BY <1>1, <1>2 DEF FlattenSeq
  <2>2. IsSeq(<< >>) /\ Follow(<< >>, text, c[0], c[n])
    BY FollowEmpty
  <2>3. Len(<< >>) = 0
    OBVIOUS
  <2>4. ss = << >>
    BY <1>1, <1>2, <2>2, <2>3, SameSeq
  <2>. QED
    BY <2>1, <2>2, <2>4
<1>3. CASE n # 0
  <2>1. PICK f : f = CHOOSE g : Flatten(g, ss, n)
    OBVIOUS
  <2>2. FlattenSeq(ss) = f[n]
    BY <1>1, <1>3, <2>1 DEF FlattenSeq, Flatten
  <2>3. Flatten(f, ss, n)
    BY <2>1, FlattenExists
  <2>4. \A i \in 1..n : f[i] = IF i = 1 THEN ss[i] ELSE f[i - 1] \o ss[i]
    BY <2>3 DEF Flatten
  <2>. DEFINE Good(i) == IsSeq(f[i]) /\ c[0] <= c[i] /\ Follow(f[i], text, c[0], c[i])
              T == {i \in Nat : i \in 1..n /\ ~Good(i)}
  <2>5. Good(1)
    <3>1. 1 \in 1..n /\ 1 - 1 = 0 /\ f[1] = ss[1]
      BY <1>3, <2>4
    <3>. QED
      BY <3>1
  <2>6. \A i \in 2..n : Good(i - 1) => Good(i)
    <3>. SUFFICES ASSUME NEW i \in 2..n, Good(i - 1) PROVE Good(i)
      OBVIOUS
    <3>1. i \in 1..n /\ i # 1 /\ i \in 0..n /\ i - 1 \in 0..n /\ 0 \in 0..n
      OBVIOUS
    <3>2. f[i] = f[i - 1] \o ss[i]
      BY <2>4, <3>1
    <3>. DEFINE g == f[i - 1]
                x == c[0]
                y == c[i - 1]
                z == c[i]
    <3>3. /\ x \in Int /\ y \in Int /\ z \in Int /\ x <= y /\ y <= z
          /\ IsSeq(g) /\ Follow(g, text, x, y) /\ IsSeq(ss[i]) /\ Follow(ss[i], text, y, z)
      BY <3>1
    <3>. HIDE DEF g, x, y, z
    <3>4. IsSeq(g \o ss[i]) /\ Follow(g \o ss[i], text, x, z)
      BY <3>3, FollowConcat
    <3>. QED
      BY <3>2, <3>3, <3>4 DEF g, x, y, z
  <2>. HIDE DEF Good
  <2>7. T = {}
    <3>. SUFFICES ASSUME T # {} PROVE FALSE
      OBVIOUS
    <3>1. PICK i \in T : \A j \in T : i <= j
      BY LeastPlace
    <3>2. i \in 2..n
      BY <2>5
    <3>3. i - 1 \in 1..n /\ i - 1 \in Nat /\ ~(i <= i - 1)
      BY <3>2
    <3>4. Good(i - 1)
      BY <3>1, <3>3
    <3>. QED
      BY <2>6, <3>2, <3>4
  <2>8. Good(n)
    BY <1>3, <2>7
  <2>. QED
    BY <2>2, <2>8 DEF Good
<1>. QED
  BY <1>2, <1>3

-----------------------------------------------------------------------------
(* Where the scanners cut.                                                 *)

LEMMA FirstIs ==
    ASSUME NEW P, P \subseteq Nat \ {0}
    PROVE  /\ P = {} => FirstPlace(P) = 0
           /\ P # {} => FirstPlace(P) \in P /\ \A i \in P : FirstPlace(P) <= i
<1>1. CASE P = {}
  BY <1>1 DEF FirstPlace
<1>2. CASE P # {}
  <2>1. \E i \in P : \A j \in P : i <= j
    BY <1>2, LeastPlace
  <2>2. Min(P) \in P /\ \A j \in P : Min(P) <= j
    BY <2>1 DEF Min
  <2>. QED
    BY <1>2, <2>2 DEF FirstPlace
<1>. QED
  BY <1>1, <1>2

LEMMA KeywordPlace ==
    ASSUME NEW t, IsSeq(t), NEW keyword
    PROVE  FindTopLevelKeyword(t, keyword) \in 0..Len(t)
<1>. DEFINE P == TopLevelPlaces(t, keyword)
<1>1. Len(t) \in Nat /\ DOMAIN t = 1..Len(t)
  BY SeqFacts
<1>2. P \subseteq 1..Len(t) /\ P \subseteq Nat \ {0}
  BY <1>1 DEF TopLevelPlaces
<1>. HIDE DEF P
<1>3. FirstPlace(P) = 0 \/ FirstPlace(P) \in P
  BY <1>2, FirstIs
<1>. QED
  BY <1>1, <1>2, <1>3 DEF FindTopLevelKeyword, P

LEMMA JoinPlace ==
    ASSUME NEW t, IsSeq(t)
    PROVE  FindJoin(t) \in 0..Len(t)
<1>. DEFINE P == {FindTopLevelKeyword(t, k) : k \in JoinWords}
            Q == P \ {0}
<1>1. Len(t) \in Nat
  BY SeqFacts
<1>2. P \subseteq 0..Len(t)
  BY KeywordPlace
<1>. HIDE DEF P
<1>3. Q \subseteq 1..Len(t) /\ Q \subseteq Nat \ {0}
  BY <1>1, <1>2
<1>. HIDE DEF Q
<1>4. FirstPlace(Q) = 0 \/ FirstPlace(Q) \in Q
  BY <1>3, FirstIs
<1>. QED
  BY <1>1, <1>3, <1>4 DEF FindJoin, EarliestPositive, P, Q

LEMMA ParenPlace ==
    ASSUME NEW t, IsSeq(t), NEW open \in 0..Len(t)
    PROVE  \/ FindMatchingParen(t, open) = 0
           \/ FindMatchingParen(t, open) \in open..Len(t) /\ t[FindMatchingParen(t, open)] = ")" /\ open # 0
<1>. DEFINE P == {i \in open..Len(t) : t[i] = ")" /\ AtTopLevel(TopStates(SubSeq(t, open, Len(t)))[i - open + 1])}
<1>1. Len(t) \in Nat
  BY SeqFacts
<1>2. CASE open = 0
  BY <1>2 DEF FindMatchingParen
<1>3. CASE open # 0
  <2>1. P \subseteq Nat \ {0} /\ \A i \in P : i \in open..Len(t) /\ t[i] = ")"
    BY <1>1, <1>3
  <2>2. FindMatchingParen(t, open) = FirstPlace(P)
    BY <1>3 DEF FindMatchingParen
  <2>. HIDE DEF P
  <2>3. FirstPlace(P) = 0 \/ FirstPlace(P) \in P
    BY <2>1, FirstIs
  <2>. QED
    BY <1>3, <2>1, <2>2, <2>3
<1>. QED
  BY <1>2, <1>3

LEMMA ClauseEnd ==
    ASSUME NEW t, IsSeq(t), NEW places, places \subseteq 0..Len(t)
    PROVE  /\ EndOfClause(t, places) \in 1..(Len(t) + 1)
           /\ EndOfClause(t, places) = Len(t) + 1 \/ EndOfClause(t, places) \in places
           /\ \A i \in places : i # 0 => EndOfClause(t, places) <= i
<1>. DEFINE Q == places \ {0}
<1>1. Len(t) \in Nat
  BY SeqFacts
<1>2. Q \subseteq 1..Len(t) /\ Q \subseteq Nat \ {0} /\ Q \subseteq places /\ \A i \in places : i # 0 => i \in Q
  BY <1>1
<1>3. CASE Q = {}
  BY <1>1, <1>3 DEF EndOfClause
<1>4. CASE Q # {}
  <2>1. EndOfClause(t, places) = FirstPlace(Q)
    BY <1>4 DEF EndOfClause, EarliestPositive
  <2>. HIDE DEF Q
  <2>2. FirstPlace(Q) \in Q /\ \A i \in Q : FirstPlace(Q) <= i
    BY <1>2, <1>4, FirstIs
  <2>3. FirstPlace(Q) \in 1..Len(t) /\ FirstPlace(Q) \in places
    BY <1>2, <2>2
  <2>4. \A i \in places : i # 0 => FirstPlace(Q) <= i
    BY <1>2, <2>2
  <2>. QED
    BY <1>1, <2>1, <2>3, <2>4
<1>. QED
  BY <1>3, <1>4

\* How many of some places are not after i.
Rank(places, i) == Cardinality({j \in places : j <= i})

Ranked(places, n) ==
    /\ IsFiniteSet(places) /\ Cardinality(places) \in Nat
    /\ \A i \in Nat : Rank(places, i) \in Nat
    /\ Rank(places, 0) = 0 /\ Rank(places, n) = Cardinality(places)
    /\ \A i \in Nat : Rank(places, i + 1) = Rank(places, i) + (IF i + 1 \in places THEN 1 ELSE 0)
    /\ \A i, j \in Nat : i <= j => Rank(places, i) <= Rank(places, j)

LEMMA RankFacts ==
    ASSUME NEW n \in Nat, NEW places, places \subseteq 1..n
    PROVE  Ranked(places, n)
<1>. DEFINE Upto(i) == {j \in places : j <= i}
<1>1. IsFiniteSet(places)
  <2>1. IsFiniteSet(1..n)
    BY FS_Interval
  <2>. QED
    BY <2>1, FS_Subset
<1>2. \A i \in Nat : IsFiniteSet(Upto(i)) /\ Rank(places, i) = Cardinality(Upto(i))
  BY <1>1, FS_Subset DEF Rank
<1>3. \A i \in Nat : Rank(places, i) \in Nat
  BY <1>2, FS_CardinalityType
<1>9. \A j \in places : j \in Nat /\ 1 <= j /\ j <= n
  OBVIOUS
<1>4. Upto(0) = {} /\ Upto(n) = places
  <2>1. Upto(0) = {}
    <3>1. \A j \in places : ~(j <= 0)
      BY <1>9
    <3>. QED
      BY <3>1
  <2>2. Upto(n) = places
    BY <1>9
  <2>. QED
    BY <2>1, <2>2
<1>5. Rank(places, 0) = 0 /\ Rank(places, n) = Cardinality(places)
  BY <1>2, <1>4, FS_EmptySet
<1>6. \A i \in Nat : Rank(places, i + 1) = Rank(places, i) + (IF i + 1 \in places THEN 1 ELSE 0)
  <2>. SUFFICES ASSUME NEW i \in Nat PROVE Rank(places, i + 1) = Rank(places, i) + (IF i + 1 \in places THEN 1 ELSE 0)
    OBVIOUS
  <2>1. CASE i + 1 \in places
    <3>1. Upto(i + 1) = Upto(i) \cup {i + 1} /\ i + 1 \notin Upto(i)
      <4>1. \A j \in places : j \in Nat
        BY <1>9
      <4>2. \A j \in places : j <= i + 1 <=> (j <= i \/ j = i + 1)
        BY <4>1
      <4>3. ~(i + 1 <= i)
        OBVIOUS
      <4>4. Upto(i + 1) = Upto(i) \cup {i + 1}
        BY <2>1, <4>2
      <4>. QED
        BY <4>3, <4>4
    <3>. HIDE DEF Upto
    <3>2. Cardinality(Upto(i) \cup {i + 1}) = Cardinality(Upto(i)) + 1
      BY <1>2, <3>1, FS_AddElement
    <3>. QED
      BY <1>2, <2>1, <3>1, <3>2
  <2>2. CASE i + 1 \notin places
    <3>1. Upto(i + 1) = Upto(i)
      <4>1. \A j \in places : j \in Nat /\ j # i + 1
        BY <1>9, <2>2
      <4>2. \A j \in places : j <= i + 1 <=> j <= i
        BY <4>1
      <4>. QED
        BY <4>2
    <3>2. i + 1 \in Nat
      OBVIOUS
    <3>. HIDE DEF Upto
    <3>. QED
      BY <1>2, <1>3, <2>2, <3>1, <3>2
  <2>. QED
    BY <2>1, <2>2
<1>7. \A i, j \in Nat : i <= j => Rank(places, i) <= Rank(places, j)
  <2>. SUFFICES ASSUME NEW i \in Nat, NEW j \in Nat, i <= j PROVE Rank(places, i) <= Rank(places, j)
    OBVIOUS
  <2>1. Upto(i) \subseteq Upto(j)
    <3>1. \A k \in places : k \in Nat
      BY <1>9
    <3>2. \A k \in places : k <= i => k <= j
      BY <3>1
    <3>. QED
      BY <3>2
  <2>. HIDE DEF Upto
  <2>. QED
    BY <1>2, <2>1, FS_Subset
<1>8. Cardinality(places) \in Nat
  BY <1>1, FS_CardinalityType
<1>. QED
  BY <1>1, <1>3, <1>5, <1>6, <1>7, <1>8 DEF Ranked

LEMMA OrderedIs ==
    ASSUME NEW n \in Nat, NEW places, places \subseteq 1..n
    PROVE  /\ IsSeq(Ordered(places)) /\ Len(Ordered(places)) = Cardinality(places) /\ Cardinality(places) \in Nat
           /\ \A k \in 1..Cardinality(places) : Ordered(places)[k] \in places
           /\ \A j, k \in 1..Cardinality(places) : j < k => Ordered(places)[j] < Ordered(places)[k]
<1>. DEFINE m == Cardinality(places)
            o == Ordered(places)
<1>1. /\ m \in Nat /\ \A i \in Nat : Rank(places, i) \in Nat
      /\ Rank(places, 0) = 0 /\ Rank(places, n) = m
      /\ \A i \in Nat : Rank(places, i + 1) = Rank(places, i) + (IF i + 1 \in places THEN 1 ELSE 0)
      /\ \A i, j \in Nat : i <= j => Rank(places, i) <= Rank(places, j)
  <2>1. Ranked(places, n)
    BY RankFacts
  <2>. QED
    BY <2>1 DEF Ranked
<1>2. o = [k \in 1..m |-> CHOOSE i \in places : Rank(places, i) = k]
  BY DEF Ordered, Rank
<1>. HIDE DEF m, o
<1>3. \A k \in 1..m : \E i \in places : Rank(places, i) = k
  <2>. SUFFICES ASSUME NEW k \in 1..m PROVE \E i \in places : Rank(places, i) = k
    OBVIOUS
  <2>. DEFINE T == {i \in Nat : k <= Rank(places, i)}
  <2>1. T \subseteq Nat /\ n \in T /\ 0 \notin T
    BY <1>1
  <2>2. PICK i \in T : \A j \in T : i <= j
    BY <2>1, LeastPlace
  <2>3. i \in Nat /\ i # 0 /\ i - 1 \in Nat /\ (i - 1) + 1 = i /\ i - 1 \notin T /\ k <= Rank(places, i)
    BY <2>1, <2>2
  <2>4. Rank(places, i) = Rank(places, i - 1) + (IF i \in places THEN 1 ELSE 0)
    BY <1>1, <2>3
  <2>5. Rank(places, i - 1) < k /\ Rank(places, i - 1) \in Nat /\ Rank(places, i) \in Nat
    BY <1>1, <2>3
  <2>6. k \in Nat /\ (i \in places => Rank(places, i) = Rank(places, i - 1) + 1)
        /\ (i \notin places => Rank(places, i) = Rank(places, i - 1))
    BY <1>1, <2>4, <2>5
  <2>7. i \in places /\ Rank(places, i) = k
    BY <2>3, <2>5, <2>6
  <2>. QED
    BY <2>7
<1>4. \A k \in 1..m : o[k] \in places /\ Rank(places, o[k]) = k
  BY <1>2, <1>3
<1>5. \A j, k \in 1..m : j < k => o[j] < o[k]
  <2>. SUFFICES ASSUME NEW j \in 1..m, NEW k \in 1..m, j < k, ~(o[j] < o[k]) PROVE FALSE
    OBVIOUS
  <2>1. o[j] \in Nat /\ o[k] \in Nat /\ o[k] <= o[j]
    <3>1. o[j] \in 1..n /\ o[k] \in 1..n
      BY <1>4
    <3>. QED
      BY <3>1
  <2>2. Rank(places, o[k]) <= Rank(places, o[j])
    BY <1>1, <2>1
  <2>. QED
    BY <1>4, <2>2
<1>6. IsSeq(o) /\ Len(o) = m
  <2>1. o = [k \in 1..m |-> o[k]]
    BY <1>2
  <2>. QED
    BY <1>1, <2>1, SeqMade
<1>. QED
  BY <1>1, <1>4, <1>5, <1>6 DEF m, o

\* The n parts of a text between cuts, the first before it and the last after it.
Cuts(parts, t, n, c) ==
    /\ n \in Nat \ {0} /\ c \in [0..n -> 0..(Len(t) + 1)] /\ c[0] = 0 /\ c[n] = Len(t) + 1
    /\ \A i, j \in 0..n : i < j => c[i] < c[j]
    /\ IsSeq(parts) /\ Len(parts) = n
    /\ \A k \in 1..n : parts[k] = Slice(t, c[k - 1], c[k] - 1)

\* A sequence between two elements.
Bracketed(o, x, y, r) ==
    /\ Len(r) = Len(o) + 2 /\ r[1] = x /\ r[Len(o) + 2] = y
    /\ \A k \in 1..Len(o) : r[k + 1] = o[k]

LEMMA BracketedIs ==
    ASSUME NEW s, NEW o, NEW u, IsSeq(s), IsSeq(o), IsSeq(u), Len(s) = 1, Len(u) = 1
    PROVE  Bracketed(o, s[1], u[1], s \o o \o u)
<1>. DEFINE m == Len(o)
            v == s \o o
            w == v \o u
<1>1. m \in Nat
  BY SeqFacts
<1>2. Chained(s, o, v)
  BY ConcatIs
<1>. HIDE DEF v
<1>3. Chained(v, u, w)
  <2>1. IsSeq(v)
    BY <1>2 DEF Chained
  <2>. QED
    BY <2>1, ConcatIs
<1>. HIDE DEF w
<1>4. Len(v) = m + 1 /\ Len(w) = m + 2
  BY <1>1, <1>2, <1>3 DEF Chained
<1>5. \A k \in 1..m : k + 1 \in 1..(m + 1) /\ v[k + 1] = o[k]
  <2>1. \A k \in 1..m : v[1 + k] = o[k]
    BY <1>2 DEF Chained
  <2>2. \A k \in 1..m : 1 + k = k + 1 /\ k + 1 \in 1..(m + 1)
    BY <1>1
  <2>. QED
    BY <2>1, <2>2
<1>6. \A k \in 1..(m + 1) : w[k] = v[k]
  BY <1>3, <1>4 DEF Chained
<1>7. v[1] = s[1] /\ 1 \in 1..(m + 1)
  BY <1>1, <1>2 DEF Chained
<1>8. w[m + 2] = u[1]
  <2>1. w[Len(v) + 1] = u[1]
    BY <1>3 DEF Chained
  <2>2. Len(v) + 1 = m + 2
    BY <1>1, <1>4
  <2>. QED
    BY <2>1, <2>2
<1>9. Bracketed(o, s[1], u[1], w)
  BY <1>4, <1>5, <1>6, <1>7, <1>8 DEF Bracketed
<1>. QED
  BY <1>9 DEF v, w

LEMMA One ==
    ASSUME NEW x
    PROVE  IsSeq(<<x>>) /\ Len(<<x>>) = 1 /\ <<x>>[1] = x
<1>1. <<x>> \in Seq({x})
  OBVIOUS
<1>. QED
  BY <1>1 DEF IsSeq

LEMMA SplitIs ==
    ASSUME NEW t, IsSeq(t)
    PROVE  \E n, c : Cuts(SplitTopLevelCSV(t), t, n, c)
<1>. DEFINE P == TopLevelPlaces(t, ",")
            o == Ordered(P)
            m == Cardinality(P)
            L == Len(t)
            cuts == <<0>> \o o \o <<L + 1>>
            c == [k \in 0..(m + 1) |-> cuts[k + 1]]
            parts == SplitTopLevelCSV(t)
<1>1. L \in Nat /\ DOMAIN t = 1..L
  BY SeqFacts
<1>2. P \subseteq 1..L
  BY <1>1 DEF TopLevelPlaces
<1>3. parts = Between(t, cuts)
  BY DEF SplitTopLevelCSV
<1>. HIDE DEF P, parts
<1>4. /\ IsSeq(o) /\ Len(o) = m /\ m \in Nat /\ \A k \in 1..m : o[k] \in P
      /\ \A j, k \in 1..m : j < k => o[j] < o[k]
  BY <1>1, <1>2, OrderedIs
<1>5. \A k \in 1..m : o[k] \in 1..L
  BY <1>2, <1>4
<1>. HIDE DEF o, m, L
<1>6. Len(cuts) = m + 2 /\ cuts[1] = 0 /\ cuts[m + 2] = L + 1 /\ \A k \in 1..m : cuts[k + 1] = o[k]
  <2>1. PICK s : s = <<0>>
    OBVIOUS
  <2>2. PICK u : u = <<L + 1>>
    OBVIOUS
  <2>3. IsSeq(s) /\ Len(s) = 1 /\ s[1] = 0 /\ IsSeq(u) /\ Len(u) = 1 /\ u[1] = L + 1
    BY <2>1, <2>2, One
  <2>4. cuts = s \o o \o u
    BY <2>1, <2>2
  <2>. HIDE DEF cuts
  <2>5. Bracketed(o, s[1], u[1], cuts)
    BY <1>4, <2>3, <2>4, BracketedIs
  <2>. QED
    BY <1>4, <2>3, <2>5 DEF Bracketed
<1>. HIDE DEF cuts
<1>7. \A k \in 0..(m + 1) : /\ k = 0 \/ k = m + 1 \/ (k \in 1..m /\ k + 1 \in 1..(m + 2))
                            /\ k = 0 => c[k] = 0
                            /\ k = m + 1 => c[k] = L + 1
                            /\ k \in 1..m => c[k] = o[k]
  <2>1. 0 + 1 = 1 /\ (m + 1) + 1 = m + 2 /\ 0 # m + 1 /\ 0 \notin 1..m /\ m + 1 \notin 1..m
    BY <1>4
  <2>2. \A k \in 0..(m + 1) : c[k] = cuts[k + 1]
    OBVIOUS
  <2>3. \A k \in 0..(m + 1) : k = 0 \/ k = m + 1 \/ (k \in 1..m /\ k + 1 \in 1..(m + 2))
    BY <1>4
  <2>. HIDE DEF c
  <2>. QED
    BY <1>6, <2>1, <2>2, <2>3
<1>8. \A k \in 0..(m + 1) : c[k] \in 0..(L + 1)
  BY <1>1, <1>5, <1>7 DEF L
<1>9. c \in [0..(m + 1) -> 0..(L + 1)]
  BY <1>8
<1>. HIDE DEF c
<1>10. \A i, j \in 0..(m + 1) : i < j => c[i] < c[j]
  <2>. SUFFICES ASSUME NEW i \in 0..(m + 1), NEW j \in 0..(m + 1), i < j PROVE c[i] < c[j]
    OBVIOUS
  <2>0. L \in Nat
    BY <1>1 DEF L
  <2>1. CASE i \in 1..m /\ j \in 1..m
    BY <1>4, <1>7, <2>1
  <2>2. CASE i = 0 /\ j \in 1..m
    <3>1. c[i] = 0 /\ c[j] = o[j] /\ o[j] \in 1..L
      BY <1>5, <1>7, <2>2
    <3>. QED
      BY <2>0, <3>1
  <2>3. CASE i \in 1..m /\ j = m + 1
    <3>1. c[i] = o[i] /\ c[j] = L + 1 /\ o[i] \in 1..L
      BY <1>5, <1>7, <2>3
    <3>. QED
      BY <2>0, <3>1
  <2>4. CASE i = 0 /\ j = m + 1
    <3>1. c[i] = 0 /\ c[j] = L + 1
      BY <1>7, <2>4
    <3>. QED
      BY <2>0, <3>1
  <2>5. j # 0 /\ i # m + 1
    BY <1>4
  <2>. QED
    BY <1>7, <2>1, <2>2, <2>3, <2>4, <2>5
<1>11. parts = [k \in 1..(m + 1) |-> Slice(t, c[k - 1], c[k] - 1)]
  <2>1. (m + 2) - 1 = m + 1
    BY <1>4
  <2>2. \A k \in 1..(m + 1) : c[k - 1] = cuts[k] /\ c[k] = cuts[k + 1]
    <3>1. \A k \in 1..(m + 1) : k - 1 \in 0..(m + 1) /\ k \in 0..(m + 1) /\ (k - 1) + 1 = k
      BY <1>4
    <3>. QED
      BY <3>1 DEF c
  <2>3. parts = [k \in 1..(m + 1) |-> SubSeq(t, cuts[k] + 1, cuts[k + 1] - 1)]
    BY <1>3, <1>6, <2>1 DEF Between
  <2>. QED
    BY <2>2, <2>3 DEF Slice
<1>12. IsSeq(parts) /\ Len(parts) = m + 1 /\ m + 1 \in Nat \ {0}
  <2>1. parts = [k \in 1..(m + 1) |-> parts[k]]
    BY <1>11
  <2>. QED
    BY <1>4, <2>1, SeqMade
<1>13. c[0] = 0 /\ c[m + 1] = L + 1
  BY <1>4, <1>7
<1>14. Cuts(parts, t, m + 1, c)
  BY <1>9, <1>10, <1>11, <1>12, <1>13 DEF Cuts, L
<1>. QED
  BY <1>14 DEF parts

LEMMA FollowList ==
    ASSUME NEW t, IsSeq(t), NEW parts, NEW n, NEW c, Cuts(parts, t, n, c)
    PROVE  IsSeq(RewrittenList(parts)) /\ Follow(RewrittenList(parts), t, 0, Len(t))
<1>. DEFINE P == RewrittenList(parts)
            L == Len(t)
            h == [k \in 1..(2 * n - 1) |-> (k + 1) \div 2]
            at == [k \in 1..(2 * n - 1) |-> IF k % 2 = 1 THEN c[h[k] - 1] ELSE c[h[k]] - 1]
            upto == [k \in 1..(2 * n - 1) |-> c[h[k]] - 1]
<1>1. /\ L \in Nat /\ n \in Nat \ {0} /\ Len(parts) = n
      /\ \A i \in 0..n : c[i] \in 0..(L + 1)
      /\ \A i, j \in 0..n : i < j => c[i] < c[j]
      /\ \A k \in 1..n : parts[k] = Slice(t, c[k - 1], c[k] - 1)
  BY SeqFacts DEF Cuts
<1>. HIDE DEF L
<1>2. \A k \in 1..(2 * n - 1) : /\ h[k] \in 1..n /\ h[k] \in 0..n /\ h[k] - 1 \in 0..n /\ h[k] - 1 < h[k]
                                /\ k = 2 * h[k] - 1 \/ k = 2 * h[k]
                                /\ k % 2 = 1 <=> k = 2 * h[k] - 1
  BY <1>1
<1>3. P = [k \in 1..(2 * n - 1) |-> IF k % 2 = 1 THEN Rewritten(parts[h[k]]) ELSE Verbatim(<<",">>)]
  BY <1>1 DEF RewrittenList
<1>4. IsSeq(P) /\ DOMAIN P = 1..(2 * n - 1)
  <2>. HIDE DEF P, h
  <2>1. P = [k \in 1..(2 * n - 1) |-> P[k]]
    BY <1>3
  <2>2. 2 * n - 1 \in Nat
    BY <1>1
  <2>3. IsSeq(P) /\ Len(P) = 2 * n - 1
    BY <2>1, <2>2, SeqMade
  <2>. QED
    BY <2>3, SeqFacts
<1>. HIDE DEF h, P
<1>5. \A k \in 1..(2 * n - 1) : at[k] \in 0..L /\ upto[k] \in 0..L /\ at[k] <= upto[k]
  <2>. SUFFICES ASSUME NEW k \in 1..(2 * n - 1) PROVE at[k] \in 0..L /\ upto[k] \in 0..L /\ at[k] <= upto[k]
    OBVIOUS
  <2>. DEFINE x == c[h[k] - 1]
              y == c[h[k]]
  <2>1. x \in 0..(L + 1) /\ y \in 0..(L + 1) /\ x < y
    BY <1>1, <1>2
  <2>2. upto[k] = y - 1 /\ (at[k] = x \/ at[k] = y - 1)
    OBVIOUS
  <2>. HIDE DEF x, y
  <2>. QED
    BY <1>1, <2>1, <2>2
<1>6. at \in [1..(2 * n - 1) -> 0..L] /\ upto \in [1..(2 * n - 1) -> 0..L]
  BY <1>5
<1>7. \A j, k \in 1..(2 * n - 1) : j < k => upto[j] <= at[k]
  <2>. SUFFICES ASSUME NEW j \in 1..(2 * n - 1), NEW k \in 1..(2 * n - 1), j < k PROVE upto[j] <= at[k]
    OBVIOUS
  <2>1. CASE h[j] = h[k]
    <3>1. k = 2 * h[k] /\ k # 2 * h[k] - 1
      BY <1>2, <2>1
    <3>2. k % 2 # 1
      BY <1>2, <3>1
    <3>3. at[k] = c[h[k]] - 1 /\ upto[j] = c[h[k]] - 1 /\ c[h[k]] \in Int
      BY <1>1, <1>2, <2>1, <3>2
    <3>. QED
      BY <3>3
  <2>2. CASE h[j] # h[k]
    <3>1. h[j] < h[k]
      BY <1>2, <2>2
    <3>2. h[j] = h[k] - 1 \/ h[j] < h[k] - 1
      BY <1>2, <3>1
    <3>. DEFINE w == c[h[j]]
                x == c[h[k] - 1]
                y == c[h[k]]
    <3>3. w \in 0..(L + 1) /\ x \in 0..(L + 1) /\ y \in 0..(L + 1) /\ x < y
      BY <1>1, <1>2
    <3>5. w <= x
      <4>1. CASE h[j] = h[k] - 1
        BY <3>3, <4>1
      <4>2. CASE h[j] < h[k] - 1
        <5>1. h[j] \in 0..n /\ h[k] - 1 \in 0..n
          BY <1>2
        <5>2. w < x
          BY <1>1, <4>2, <5>1
        <5>. QED
          BY <3>3, <5>2
      <4>. QED
        BY <3>2, <4>1, <4>2
    <3>4. upto[j] = w - 1 /\ (at[k] = x \/ at[k] = y - 1)
      OBVIOUS
    <3>. HIDE DEF w, x, y
    <3>. QED
      BY <1>1, <3>3, <3>4, <3>5
  <2>. QED
    BY <2>1, <2>2
<1>8. \A k \in 1..(2 * n - 1) : P[k].raw => P[k].text = Slice(t, at[k], upto[k])
  <2>. SUFFICES ASSUME NEW k \in 1..(2 * n - 1), P[k].raw PROVE P[k].text = Slice(t, at[k], upto[k])
    OBVIOUS
  <2>1. CASE k % 2 = 1
    <3>1. P[k].text = parts[h[k]]
      BY <1>3, <2>1 DEF Rewritten
    <3>. QED
      BY <1>1, <1>2, <2>1, <3>1
  <2>2. CASE k % 2 # 1
    BY <1>3, <2>2 DEF Verbatim
  <2>. QED
    BY <2>1, <2>2
<1>. HIDE DEF at, upto
<1>9. Follows(P, t, 0, L, at, upto)
  <2>1. \A k \in 1..(2 * n - 1) : at[k] <= upto[k]
    BY <1>5 DEF at, upto
  <2>. QED
    BY <1>4, <1>6, <1>7, <1>8, <2>1 DEF Follows
<1>. QED
  BY <1>4, <1>9 DEF Follow, P, L

LEMMA FollowCsv ==
    ASSUME NEW t, IsSeq(t)
    PROVE  /\ IsSeq(RewrittenList(SplitTopLevelCSV(t)))
           /\ Follow(RewrittenList(SplitTopLevelCSV(t)), t, 0, Len(t))
           /\ SplitTopLevelCSV(t) # << >>
<1>1. PICK n, c : Cuts(SplitTopLevelCSV(t), t, n, c)
  BY SplitIs
<1>2. Len(SplitTopLevelCSV(t)) # 0 /\ Len(<< >>) = 0
  BY <1>1 DEF Cuts
<1>. QED
  BY <1>1, <1>2, FollowList

-----------------------------------------------------------------------------
(* Sequences of pieces put together.                                       *)

Within(P, t, p, q) == p \in Int /\ q \in Int /\ p <= q /\ IsSeq(P) /\ Follow(P, t, p, q)

LEMMA WithinConcat ==
    ASSUME NEW P, NEW Q, NEW t, NEW p, NEW q, NEW r, Within(P, t, p, q), Within(Q, t, q, r)
    PROVE  Within(P \o Q, t, p, r)
<1>1. /\ p \in Int /\ q \in Int /\ r \in Int /\ p <= q /\ q <= r /\ p <= r
      /\ IsSeq(P) /\ Follow(P, t, p, q) /\ IsSeq(Q) /\ Follow(Q, t, q, r)
  BY DEF Within
<1>2. IsSeq(P \o Q) /\ Follow(P \o Q, t, p, r)
  BY <1>1, FollowConcat
<1>. QED
  BY <1>1, <1>2 DEF Within

LEMMA WithinWide ==
    ASSUME NEW P, NEW t, NEW p, NEW q, NEW a \in Int, NEW b \in Int, Within(P, t, p, q), a <= p, q <= b
    PROVE  Within(P, t, a, b)
<1>1. p \in Int /\ q \in Int /\ a <= b /\ IsSeq(P) /\ Follow(P, t, p, q)
  BY DEF Within
<1>2. Follow(P, t, a, b)
  BY <1>1, FollowWide
<1>. QED
  BY <1>1, <1>2 DEF Within

LEMMA WithinInside ==
    ASSUME NEW t, IsSeq(t), NEW p \in 0..Len(t), NEW q \in p..Len(t), NEW P, Within(P, Slice(t, p, q), 0, q - p)
    PROVE  Within(P, t, p, q)
<1>1. Len(t) \in Nat /\ p \in Nat /\ q \in Nat /\ p <= q
  BY SeqFacts
<1>2. 0 \in 0..(q - p) /\ q - p \in 0..(q - p) /\ p + 0 = p /\ p + (q - p) = q
  BY <1>1
<1>3. Follow(P, Slice(t, p, q), 0, q - p) /\ IsSeq(P)
  BY DEF Within
<1>4. Follow(P, t, p + 0, p + (q - p))
  BY <1>2, <1>3, FollowInside
<1>. QED
  BY <1>1, <1>2, <1>3, <1>4 DEF Within

LEMMA WithinEmpty ==
    ASSUME NEW t, NEW p \in Int, NEW q \in Int, p <= q
    PROVE  Within(<< >>, t, p, q)
  BY FollowEmpty DEF Within

LEMMA WithinVerbatim ==
    ASSUME NEW x, NEW t, NEW p \in Int, NEW q \in Int, p <= q
    PROVE  Within(<<Verbatim(x)>>, t, p, q)
  BY FollowVerbatim DEF Within

LEMMA WithinRaw ==
    ASSUME NEW t, NEW p \in Int, NEW q \in Int, NEW a \in p..q, NEW b \in a..q
    PROVE  Within(<<Rewritten(Slice(t, a, b))>>, t, p, q)
  BY FollowRaw DEF Within

LEMMA PairIs ==
    ASSUME NEW v, NEW r
    PROVE  <<v>> \o <<r>> = <<v, r>>
<1>. DEFINE s == <<v>>
            u == <<r>>
            w == <<v, r>>
            x == s \o u
<1>1. IsSeq(s) /\ Len(s) = 1 /\ s[1] = v /\ IsSeq(u) /\ Len(u) = 1 /\ u[1] = r
  BY One
<1>2. w \in Seq({v, r}) /\ Len(w) = 2 /\ w[1] = v /\ w[2] = r
  OBVIOUS
<1>. HIDE DEF s, u, w
<1>3. Chained(s, u, x)
  BY <1>1, ConcatIs
<1>. HIDE DEF x
<1>4. IsSeq(x) /\ Len(x) = 2 /\ x[1] = v /\ x[2] = r
  <2>1. 1 \in 1..1 /\ 1 + 1 = 2
    OBVIOUS
  <2>. QED
    BY <1>1, <1>3, <2>1 DEF Chained
<1>5. \A i \in 1..2 : i = 1 \/ i = 2
  OBVIOUS
<1>6. IsSeq(w)
  BY <1>2 DEF IsSeq
<1>7. \A i \in 1..Len(x) : x[i] = w[i]
  BY <1>2, <1>4, <1>5
<1>8. x = w
  BY <1>2, <1>4, <1>6, <1>7, SameSeq
<1>. QED
  BY <1>8 DEF x, s, u, w

LEMMA WithinPair ==
    ASSUME NEW x, NEW t, NEW p \in Int, NEW q \in Int, NEW a \in p..q, NEW b \in a..q
    PROVE  Within(<<Verbatim(x), Rewritten(Slice(t, a, b))>>, t, p, q)
<1>. DEFINE v == Verbatim(x)
            r == Rewritten(Slice(t, a, b))
<1>1. p <= p /\ p <= q
  OBVIOUS
<1>2. Within(<<v>>, t, p, p) /\ Within(<<r>>, t, p, q)
  BY <1>1, WithinVerbatim, WithinRaw
<1>. HIDE DEF v, r
<1>3. Within(<<v>> \o <<r>>, t, p, q)
  BY <1>2, WithinConcat
<1>4. <<v>> \o <<r>> = <<v, r>>
  BY PairIs
<1>. QED
  BY <1>3, <1>4 DEF v, r

LEMMA WithinClause ==
    ASSUME NEW t, NEW p, NEW q, NEW pieces, NEW body, NEW keyword,
           p \in Int, q \in Int, p <= q, body # Absent => Within(pieces, t, p, q)
    PROVE  Within(OptionalClause(keyword, pieces, body), t, p, q)
<1>1. CASE body = Absent
  BY <1>1, WithinEmpty DEF OptionalClause
<1>2. CASE body # Absent
  <2>. DEFINE v == <<Verbatim(<<keyword>>)>>
  <2>1. Within(v, t, p, p)
    BY WithinVerbatim
  <2>. HIDE DEF v
  <2>2. Within(v \o pieces, t, p, q)
    BY <1>2, <2>1, WithinConcat
  <2>. QED
    BY <1>2, <2>2 DEF OptionalClause, v
<1>. QED
  BY <1>1, <1>2

LEMMA WithinCsv ==
    ASSUME NEW t, IsSeq(t), NEW p \in 0..Len(t), NEW q \in p..Len(t)
    PROVE  Within(RewrittenList(SplitTopLevelCSV(Slice(t, p, q))), t, p, q)
<1>. DEFINE s == Slice(t, p, q)
            P == RewrittenList(SplitTopLevelCSV(s))
<1>1. IsSeq(s) /\ Len(s) = q - p
  BY SliceFacts
<1>. HIDE DEF s
<1>2. IsSeq(P) /\ Follow(P, s, 0, q - p)
  BY <1>1, FollowCsv
<1>. HIDE DEF P
<1>3. q - p \in Int /\ 0 <= q - p
  BY SeqFacts
<1>4. Within(P, s, 0, q - p)
  BY <1>2, <1>3 DEF Within
<1>. QED
  BY <1>4, WithinInside DEF s, P

LEMMA WithinFlatten ==
    ASSUME NEW n \in Nat, NEW ss, ss = [k \in 1..n |-> ss[k]], NEW t, NEW c \in [0..n -> Int], c[0] <= c[n],
           \A k \in 1..n : Within(ss[k], t, c[k - 1], c[k])
    PROVE  Within(FlattenSeq(ss), t, c[0], c[n])
<1>1. \A k \in 1..n : c[k - 1] <= c[k] /\ IsSeq(ss[k]) /\ Follow(ss[k], t, c[k - 1], c[k])
  BY DEF Within
<1>2. IsSeq(FlattenSeq(ss)) /\ Follow(FlattenSeq(ss), t, c[0], c[n])
  BY <1>1, FollowFlatten
<1>3. c[0] \in Int /\ c[n] \in Int
  OBVIOUS
<1>. QED
  BY <1>2, <1>3 DEF Within

\* Pieces that are of a text, wherever they are in it.
Scraps(P, t) ==
    /\ IsSeq(P)
    /\ \A k \in DOMAIN P : P[k].raw => \E a \in 0..Len(t) : \E b \in a..Len(t) : P[k].text = Slice(t, a, b)

LEMMA ScrapsOf ==
    ASSUME NEW t, IsSeq(t), NEW P, NEW p \in 0..Len(t), NEW q \in 0..Len(t), Within(P, t, p, q)
    PROVE  Scraps(P, t)
<1>1. IsSeq(P) /\ Follow(P, t, p, q)
  BY DEF Within
<1>2. PICK at, upto : Follows(P, t, p, q, at, upto)
  BY <1>1 DEF Follow
<1>3. \A k \in DOMAIN P : at[k] \in p..q /\ upto[k] \in p..q /\ at[k] <= upto[k]
                          /\ (P[k].raw => P[k].text = Slice(t, at[k], upto[k]))
  BY <1>2 DEF Follows
<1>4. Len(t) \in Nat
  BY SeqFacts
<1>5. \A k \in DOMAIN P : at[k] \in 0..Len(t) /\ upto[k] \in at[k]..Len(t)
  BY <1>3, <1>4
<1>. QED
  BY <1>1, <1>3, <1>5 DEF Scraps

LEMMA ScrapsConcat ==
    ASSUME NEW t, NEW P, NEW Q, Scraps(P, t), Scraps(Q, t)
    PROVE  Scraps(P \o Q, t)
<1>. DEFINE R == P \o Q
            m == Len(P)
            n == Len(Q)
            Scrap(x) == x.raw => \E a \in 0..Len(t) : \E b \in a..Len(t) : x.text = Slice(t, a, b)
<1>1. IsSeq(P) /\ IsSeq(Q)
  BY DEF Scraps
<1>2. Chained(P, Q, R)
  BY <1>1, ConcatIs
<1>. HIDE DEF R
<1>3. /\ m \in Nat /\ n \in Nat /\ DOMAIN P = 1..m /\ DOMAIN Q = 1..n /\ DOMAIN R = 1..(m + n) /\ IsSeq(R)
      /\ \A k \in 1..m : R[k] = P[k]
      /\ \A k \in 1..n : R[m + k] = Q[k]
  BY <1>1, <1>2, SeqFacts DEF Chained
<1>4. (\A k \in DOMAIN P : Scrap(P[k])) /\ (\A k \in DOMAIN Q : Scrap(Q[k]))
  BY DEF Scraps
<1>. HIDE DEF m, n, Scrap
<1>5. \A k \in 1..(m + n) : (k \in 1..m) \/ (k - m \in 1..n /\ m + (k - m) = k)
  BY <1>3
<1>6. \A k \in DOMAIN R : Scrap(R[k])
  <2>. SUFFICES ASSUME NEW k \in 1..(m + n) PROVE Scrap(R[k])
    BY <1>3
  <2>1. CASE k \in 1..m
    BY <1>3, <1>4, <2>1
  <2>2. CASE k - m \in 1..n /\ m + (k - m) = k
    <3>. DEFINE i == k - m
    <3>1. i \in 1..n /\ R[k] = Q[i]
      BY <1>3, <2>2
    <3>. HIDE DEF i
    <3>. QED
      BY <1>3, <1>4, <3>1
  <2>. QED
    BY <1>5, <2>1, <2>2
<1>. QED
  BY <1>3, <1>6 DEF Scraps, Scrap, R

-----------------------------------------------------------------------------
(* The pieces of a statement.                                              *)

\* The clauses of a SELECT in a text: one after the other, but for ORDER BY.
SelectPlaces(columns, table, joins, where, order, t, ordered, a, x, y, b, d, e) ==
    /\ a <= x /\ x <= y /\ table = Slice(t, x, y)
    /\ Within(RewrittenList(columns), t, 0, a)
    /\ Within(FlattenSeq([k \in DOMAIN joins |-> JoinPieces(joins[k])]), t, y, b)
    /\ Within(OptionalClause(" WHERE ", <<Rewritten(where)>>, where), t, b, d)
    /\ Within(OptionalClause(" ORDER BY ", RewrittenList(order), order), t, e, Len(t))
    /\ ordered => d <= e

SelectCut(columns, table, joins, where, order, t, ordered) ==
    \E a, x, y, b, d, e \in 0..Len(t) : SelectPlaces(columns, table, joins, where, order, t, ordered, a, x, y, b, d, e)

\* The pieces of a text, all of it, and if they are ordered one after the other.
Pieces(P, t, ordered) == Scraps(P, t) /\ (ordered => Within(P, t, 0, Len(t)))

LEMMA PiecesOf ==
    ASSUME NEW t, IsSeq(t), NEW P, Within(P, t, 0, Len(t)), NEW ordered
    PROVE  Pieces(P, t, ordered)
<1>1. 0 \in 0..Len(t) /\ Len(t) \in 0..Len(t)
  BY SeqFacts
<1>. QED
  BY <1>1, ScrapsOf DEF Pieces

LEMMA SelectPieces ==
    ASSUME NEW t, IsSeq(t), NEW s, NEW dialect, NEW ordered \in BOOLEAN,
           SelectCut(s.columns, s.table, s.joins, s.where, s.order, t, ordered)
    PROVE  Pieces(RenderSelect(s, dialect), t, ordered)
<1>. DEFINE L == Len(t)
            v == <<Verbatim(<<"SELECT ">>)>>
            A == RewrittenList(s.columns)
            B == <<Verbatim(<<" FROM ">>), Rewritten(s.table)>>
            C == FlattenSeq([k \in DOMAIN s.joins |-> JoinPieces(s.joins[k])])
            D == OptionalClause(" WHERE ", <<Rewritten(s.where)>>, s.where)
            E == OptionalClause(" ORDER BY ", RewrittenList(s.order), s.order)
            w == <<Verbatim(RenderLimit(s.limit, dialect))>>
<1>0. PICK a, x, y, b, d, e \in 0..L :
        SelectPlaces(s.columns, s.table, s.joins, s.where, s.order, t, ordered, a, x, y, b, d, e)
  BY DEF SelectCut
<1>1. /\ a <= x /\ x <= y /\ s.table = Slice(t, x, y)
      /\ Within(A, t, 0, a) /\ Within(C, t, y, b) /\ Within(D, t, b, d) /\ Within(E, t, e, L)
      /\ ordered => d <= e
  BY <1>0 DEF SelectPlaces
<1>2. L \in Nat /\ 0 <= 0 /\ 0 \in Int /\ L \in Int /\ L <= L /\ 0 \in 0..L /\ L \in 0..L
  BY SeqFacts
<1>3. Within(v, t, 0, 0) /\ Within(w, t, L, L)
  BY <1>2, WithinVerbatim
<1>4. Within(B, t, a, y)
  <2>1. a \in Int /\ y \in Int /\ x \in a..y /\ y \in x..y
    <3>1. a <= x /\ x <= y /\ a \in 0..L /\ x \in 0..L /\ y \in 0..L
      BY <1>1
    <3>. HIDE DEF L
    <3>. QED
      BY <1>2, <3>1
  <2>2. Within(<<Verbatim(<<" FROM ">>), Rewritten(Slice(t, x, y))>>, t, a, y)
    BY <2>1, WithinPair
  <2>. QED
    BY <1>1, <2>2
<1>5. RenderSelect(s, dialect) = v \o A \o B \o C \o D \o E \o w
  BY DEF RenderSelect
<1>. HIDE DEF v, A, B, C, D, E, w, L
<1>6. Within(v \o A, t, 0, a)
  BY <1>1, <1>3, WithinConcat
<1>7. Within(v \o A \o B, t, 0, y)
  BY <1>4, <1>6, WithinConcat
<1>8. Within(v \o A \o B \o C, t, 0, b)
  BY <1>1, <1>7, WithinConcat
<1>. DEFINE Q == v \o A \o B \o C \o D
<1>9. Within(Q, t, 0, d)
  BY <1>1, <1>8, WithinConcat
<1>10. Within(E \o w, t, e, L) /\ Within(E, t, e, L)
  BY <1>1, <1>3, WithinConcat
<1>. HIDE DEF Q
<1>11. Scraps(Q \o E \o w, t)
  <2>1. Scraps(Q, t) /\ Scraps(E, t) /\ Scraps(w, t)
    BY <1>1, <1>2, <1>3, <1>9, <1>10, ScrapsOf DEF L
  <2>2. Scraps(Q \o E, t)
    BY <2>1, ScrapsConcat
  <2>. QED
    BY <2>1, <2>2, ScrapsConcat
<1>12. ordered => Within(Q \o E \o w, t, 0, L)
  <2>. SUFFICES ASSUME ordered PROVE Within(Q \o E \o w, t, 0, L)
    OBVIOUS
  <2>1. d \in Int /\ e \in Int /\ d <= e /\ L <= L /\ d <= d
    BY <1>1, <1>2
  <2>2. Within(E, t, d, L)
    BY <1>2, <1>10, <2>1, WithinWide
  <2>3. Within(Q \o E, t, 0, L)
    BY <1>9, <2>2, WithinConcat
  <2>. QED
    BY <1>3, <2>3, WithinConcat
<1>. QED
  BY <1>5, <1>11, <1>12 DEF Pieces, Q, L

-----------------------------------------------------------------------------
(* SELECT.                                                                 *)

PlacesAfter(places, i, n) == places \subseteq 0..n /\ \A j \in places : j > i

\* A clause between i and e of the text r after place f of t.
ClauseAt(r, t, f, i, places, e) ==
    /\ e \in Nat
    /\ f + e - 1 \in (f + i)..Len(t)
    /\ SubSeq(r, i + 1, e - 1) = Slice(t, f + i, f + e - 1)
    /\ \A j \in places : f + e - 1 <= f + j

\* A clause goes up to the next one, as part of the text after FROM and of the
\* whole text.
LEMMA ClausePart ==
    ASSUME NEW t, IsSeq(t), NEW f \in 0..Len(t), NEW r, r = Slice(t, f, Len(t)),
           NEW i \in 0..(Len(t) - f), NEW places, PlacesAfter(places, i, Len(t) - f)
    PROVE  ClauseAt(r, t, f, i, places, EndOfClause(r, places))
<1>. DEFINE e == EndOfClause(r, places)
            L == Len(t)
            m == L - f
<1>1. L \in Nat /\ f \in Nat /\ f <= L /\ L \in f..L /\ m \in Nat
  BY SeqFacts
<1>2. IsSeq(r) /\ Len(r) = m
  BY <1>1, SliceFacts
<1>0. places \subseteq 0..m /\ \A j \in places : j > i
  BY DEF PlacesAfter
<1>3. e \in 1..(m + 1) /\ (e = m + 1 \/ e \in places) /\ \A j \in places : j # 0 => e <= j
  <2>1. places \subseteq 0..Len(r)
    BY <1>0, <1>2
  <2>2. /\ e \in 1..(Len(r) + 1) /\ (e = Len(r) + 1 \/ e \in places)
        /\ \A j \in places : j # 0 => e <= j
    BY <1>2, <2>1, ClauseEnd
  <2>. QED
    BY <1>2, <2>2
<1>. HIDE DEF e
<1>4. i \in Nat /\ i <= m /\ e \in Nat /\ e > i
  <2>1. i \in Nat /\ i <= m
    BY <1>1
  <2>. QED
    BY <1>0, <1>1, <1>3, <2>1
<1>5. i \in 0..(L - f) /\ e - 1 \in i..(L - f)
  BY <1>3, <1>4
<1>6. Slice(r, i, e - 1) = Slice(t, f + i, f + (e - 1))
  BY <1>1, <1>5, SliceOfSlice
<1>7. f + (e - 1) = f + e - 1 /\ f + e - 1 \in (f + i)..L
  BY <1>1, <1>3, <1>4
<1>8. \A j \in places : f + e - 1 <= f + j
  <2>. SUFFICES ASSUME NEW j \in places PROVE f + e - 1 <= f + j
    OBVIOUS
  <2>1. j \in Nat /\ j # 0
    BY <1>0, <1>1, <1>4
  <2>2. e <= j
    BY <1>3, <2>1
  <2>. QED
    BY <1>1, <1>4, <2>1, <2>2
<1>. QED
  BY <1>4, <1>6, <1>7, <1>8 DEF e, Slice, ClauseAt

SelectShape(s) ==
    /\ s.type = "select"
    /\ s = [type |-> "select", columns |-> s.columns, table |-> s.table, joins |-> s.joins,
            where |-> s.where, order |-> s.order, limit |-> s.limit]

LEMMA SelectClausesCut ==
    ASSUME NEW t, IsSeq(t), NEW f \in 1..Len(t), NEW r, r = Slice(t, f, Len(t)),
           NEW w \in 0..(Len(t) - f), NEW o \in 0..(Len(t) - f), NEW l \in 0..(Len(t) - f),
           NEW s, s = SelectClauses(SplitTopLevelCSV(Slice(t, 0, f - 1)), r, w, o, l)
    PROVE  /\ SelectShape(s) /\ s.joins = << >>
           /\ SelectCut(s.columns, s.table, s.joins, s.where, s.order, t, o > 0 => w < o)
<1>. DEFINE L == Len(t)
            P1 == {w, o, l}
            Q1 == P1 \ {0}
            P2 == {i \in {o, l} : i > w}
            P3 == {i \in {l} : i > o}
            e1 == EndOfClause(r, P1)
            e2 == EndOfClause(r, P2)
            e3 == EndOfClause(r, P3)
<1>1. L \in Nat /\ f \in Nat /\ f >= 1 /\ f <= L /\ f \in 0..L /\ f - 1 \in 0..L /\ 0 \in 0..L /\ L \in 0..L /\ f - 1 \in 0..L
  BY SeqFacts
<1>2. w \in Nat /\ o \in Nat /\ l \in Nat
  BY <1>1
<1>3. /\ SelectShape(s) /\ s.joins = << >>
      /\ s.columns = SplitTopLevelCSV(Slice(t, 0, f - 1))
      /\ s.table = SubSeq(r, 1, e1 - 1)
      /\ s.where = IF w = 0 THEN Absent ELSE SubSeq(r, w + 1, e2 - 1)
      /\ s.order = IF o = 0 THEN Absent ELSE SplitTopLevelCSV(IF o = 0 THEN Absent ELSE SubSeq(r, o + 1, e3 - 1))
  BY DEF SelectClauses, SelectShape, Before
<1>4. e1 = EndOfClause(r, Q1)
  <2>1. Q1 \ {0} = Q1 /\ P1 \ {0} = Q1
    OBVIOUS
  <2>. HIDE DEF P1, Q1
  <2>. QED
    BY <2>1 DEF EndOfClause, EarliestPositive
<1>5. PlacesAfter(Q1, 0, L - f) /\ 0 \in 0..(L - f)
  BY <1>1, <1>2 DEF PlacesAfter
<1>6. PlacesAfter(P2, w, L - f)
  BY <1>1, <1>2 DEF PlacesAfter
<1>7. PlacesAfter(P3, o, L - f)
  BY <1>1, <1>2 DEF PlacesAfter
<1>8. (w # 0 => w \in Q1) /\ (o # 0 => o \in Q1) /\ (o > w => o \in P2)
  OBVIOUS
<1>. HIDE DEF Q1, P1, P2, P3, L
<1>9. /\ e1 \in Nat /\ f + e1 - 1 \in (f + 0)..L /\ SubSeq(r, 0 + 1, e1 - 1) = Slice(t, f + 0, f + e1 - 1)
      /\ \A j \in Q1 : f + e1 - 1 <= f + j
  <2>1. ClauseAt(r, t, f, 0, Q1, EndOfClause(r, Q1))
    BY <1>1, <1>5, ClausePart DEF L
  <2>. QED
    BY <1>4, <2>1 DEF ClauseAt, L
<1>10. /\ e2 \in Nat /\ f + e2 - 1 \in (f + w)..L /\ SubSeq(r, w + 1, e2 - 1) = Slice(t, f + w, f + e2 - 1)
       /\ \A j \in P2 : f + e2 - 1 <= f + j
  <2>1. ClauseAt(r, t, f, w, P2, EndOfClause(r, P2))
    BY <1>1, <1>6, ClausePart DEF L
  <2>. QED
    BY <2>1 DEF ClauseAt, L
<1>11. /\ e3 \in Nat /\ f + e3 - 1 \in (f + o)..L /\ SubSeq(r, o + 1, e3 - 1) = Slice(t, f + o, f + e3 - 1)
  <2>1. ClauseAt(r, t, f, o, P3, EndOfClause(r, P3))
    BY <1>1, <1>7, ClausePart DEF L
  <2>. QED
    BY <2>1 DEF ClauseAt, L
<1>. HIDE DEF e1, e2, e3
<1>. DEFINE y == f + e1 - 1
            d == IF w = 0 THEN y ELSE f + e2 - 1
            e == IF o = 0 THEN L ELSE f + o
<1>12. y \in 0..L /\ y \in Int /\ f <= y /\ s.table = Slice(t, f, y)
  <2>1. f + 0 = f /\ 0 + 1 = 1
    BY <1>1
  <2>. QED
    BY <1>1, <1>3, <1>9, <2>1
<1>13. d \in 0..L /\ d \in Int /\ y <= d /\ (w # 0 => f + w \in y..d /\ d \in (f + w)..d)
  <2>1. CASE w = 0
    BY <1>12, <2>1
  <2>2. CASE w # 0
    <3>1. y <= f + w
      BY <1>8, <1>9, <2>2
    <3>. QED
      BY <1>1, <1>2, <1>10, <1>12, <2>2, <3>1
  <2>. QED
    BY <2>1, <2>2
<1>14. e \in 0..L /\ e \in Int /\ e <= L
  BY <1>1, <1>2 DEF L
<1>15. (o > 0 => w < o) => d <= e
  <2>. SUFFICES ASSUME o > 0 => w < o PROVE d <= e
    OBVIOUS
  <2>1. CASE o = 0
    BY <1>13, <2>1, <1>1
  <2>2. CASE o # 0 /\ w # 0
    <3>1. o \in P2
      BY <1>2, <1>8, <2>2
    <3>2. f + e2 - 1 <= f + o
      BY <1>10, <3>1
    <3>. QED
      BY <2>2, <3>2
  <2>3. CASE o # 0 /\ w = 0
    BY <1>8, <1>9, <2>3
  <2>. QED
    BY <2>1, <2>2, <2>3
<1>16. Within(RewrittenList(s.columns), t, 0, f - 1)
  <2>1. 0 \in 0..Len(t) /\ f - 1 \in 0..Len(t)
    BY <1>1 DEF L
  <2>. QED
    BY <1>3, <2>1, WithinCsv
<1>. HIDE DEF d, y, e
<1>17. Within(FlattenSeq([k \in DOMAIN s.joins |-> JoinPieces(s.joins[k])]), t, y, y)
  <2>1. [k \in DOMAIN s.joins |-> JoinPieces(s.joins[k])] = << >>
    BY <1>3
  <2>2. FlattenSeq(<< >>) = << >>
    BY DEF FlattenSeq
  <2>3. Within(<< >>, t, y, y)
    BY <1>12, WithinEmpty
  <2>. QED
    BY <2>1, <2>2, <2>3
<1>18. Within(OptionalClause(" WHERE ", <<Rewritten(s.where)>>, s.where), t, y, d)
  <2>1. s.where # Absent => Within(<<Rewritten(s.where)>>, t, y, d)
    <3>. SUFFICES ASSUME s.where # Absent PROVE Within(<<Rewritten(s.where)>>, t, y, d)
      OBVIOUS
    <3>1. w # 0
      BY <1>3
    <3>2. s.where = Slice(t, f + w, d)
      BY <1>3, <1>10, <3>1 DEF d
    <3>. QED
      BY <1>12, <1>13, <3>1, <3>2, WithinRaw
  <2>. QED
    BY <1>12, <1>13, <2>1, WithinClause
<1>19. Within(OptionalClause(" ORDER BY ", RewrittenList(s.order), s.order), t, e, L)
  <2>1. s.order # Absent => Within(RewrittenList(s.order), t, e, L)
    <3>. SUFFICES ASSUME s.order # Absent PROVE Within(RewrittenList(s.order), t, e, L)
      OBVIOUS
    <3>. DEFINE z == f + e3 - 1
    <3>1. o # 0 /\ e = f + o
      BY <1>3 DEF e
    <3>2. s.order = SplitTopLevelCSV(Slice(t, e, z))
      BY <1>3, <1>11, <3>1
    <3>3. z \in e..L /\ z \in Int
      BY <1>1, <1>2, <1>11, <3>1
    <3>. HIDE DEF z
    <3>4. Within(RewrittenList(s.order), t, e, z)
      BY <1>14, <3>2, <3>3, WithinCsv DEF L
    <3>5. e <= e /\ z <= L /\ L \in Int
      BY <1>1, <1>14, <3>3
    <3>. QED
      BY <1>14, <3>4, <3>5, WithinWide
  <2>2. L \in Int
    BY <1>1
  <2>. QED
    BY <1>14, <2>1, <2>2, WithinClause
<1>20. SelectCut(s.columns, s.table, s.joins, s.where, s.order, t, o > 0 => w < o)
  <2>1. f - 1 <= f /\ f \in 0..L /\ f - 1 \in 0..L
    BY <1>1
  <2>2. SelectPlaces(s.columns, s.table, s.joins, s.where, s.order, t, o > 0 => w < o, f - 1, f, y, y, d, e)
    BY <1>12, <1>13, <1>15, <1>16, <1>17, <1>18, <1>19, <2>1 DEF SelectPlaces, L
  <2>. QED
    BY <1>12, <1>13, <1>14, <2>1, <2>2 DEF SelectCut, L
<1>. QED
  BY <1>3, <1>20

LEMMA SelectCutWeaker ==
    ASSUME NEW columns, NEW table, NEW joins, NEW where, NEW order, NEW t, NEW p, NEW q, q => p,
           SelectCut(columns, table, joins, where, order, t, p)
    PROVE  SelectCut(columns, table, joins, where, order, t, q)
<1>1. PICK a, x, y, b, d, e \in 0..Len(t) : SelectPlaces(columns, table, joins, where, order, t, p, a, x, y, b, d, e)
  BY DEF SelectCut
<1>2. SelectPlaces(columns, table, joins, where, order, t, q, a, x, y, b, d, e)
  BY <1>1 DEF SelectPlaces
<1>. QED
  BY <1>2 DEF SelectCut

\* Where the scanners find the clauses of a text in order.
InOrder(t) ==
    LET afterFrom == From(t, FindTopLevelKeyword(t, " FROM ") + 1)
        orderIdx == FindTopLevelKeyword(afterFrom, " ORDER BY ")
    IN orderIdx > 0 => FindTopLevelKeyword(afterFrom, " WHERE ") < orderIdx

LEMMA SelectExtracted ==
    ASSUME NEW t, IsSeq(t), NEW s, s = ExtractSelectParts(t), s # Error
    PROVE  /\ SelectShape(s) /\ s.joins = << >>
           /\ SelectCut(s.columns, s.table, s.joins, s.where, s.order, t, InOrder(t))
<1>. DEFINE f == FindTopLevelKeyword(t, " FROM ")
            r == From(t, f + 1)
            w == FindTopLevelKeyword(r, " WHERE ")
            o == FindTopLevelKeyword(r, " ORDER BY ")
            l == FindTopLevelKeyword(r, " LIMIT ")
            columns == SplitTopLevelCSV(Before(t, f))
<1>1. f # 0 /\ s = SelectClauses(columns, r, w, o, l)
  BY DEF ExtractSelectParts, SelectParts
<1>2. InOrder(t) => (o > 0 => w < o)
  BY DEF InOrder
<1>. HIDE DEF f, r, w, o, l, columns
<1>3. f \in 1..Len(t) /\ Len(t) \in Nat /\ f \in 1..(Len(t) + 1) /\ f + 1 \in 1..(Len(t) + 1) /\ (f + 1) - 1 = f
  <2>1. f \in 0..Len(t) /\ Len(t) \in Nat
    BY KeywordPlace, SeqFacts DEF f
  <2>. QED
    BY <1>1, <2>1
<1>4. r = Slice(t, f, Len(t)) /\ columns = SplitTopLevelCSV(Slice(t, 0, f - 1))
  <2>1. From(t, f + 1) = Slice(t, (f + 1) - 1, Len(t)) /\ Before(t, f) = Slice(t, 0, f - 1)
    BY <1>3, TextParts
  <2>. QED
    BY <1>3, <2>1 DEF r, columns
<1>5. IsSeq(r) /\ Len(r) = Len(t) - f
  <2>1. f \in 0..Len(t) /\ Len(t) \in f..Len(t)
    BY <1>3
  <2>. QED
    BY <1>4, <2>1, SliceFacts
<1>6. w \in 0..(Len(t) - f) /\ o \in 0..(Len(t) - f) /\ l \in 0..(Len(t) - f)
  BY <1>5, KeywordPlace DEF w, o, l
<1>7. s = SelectClauses(SplitTopLevelCSV(Slice(t, 0, f - 1)), r, w, o, l)
  BY <1>1, <1>4
<1>8. /\ SelectShape(s) /\ s.joins = << >>
      /\ SelectCut(s.columns, s.table, s.joins, s.where, s.order, t, o > 0 => w < o)
  BY <1>3, <1>4, <1>6, <1>7, SelectClausesCut
<1>9. SelectCut(s.columns, s.table, s.joins, s.where, s.order, t, InOrder(t))
  BY <1>2, <1>8, SelectCutWeaker
<1>. QED
  BY <1>8, <1>9

\* The joins read from a text up to place m, each in its part of the text.
JoinsRead(js, t, c, m) ==
    /\ IsSeq(js) /\ m \in 0..Len(t) /\ c \in [0..Len(js) -> 0..Len(t)] /\ c[Len(js)] <= m
    /\ \A k \in 1..Len(js) : Within(JoinPieces(js[k]), t, c[k - 1], c[k])

LEMMA JoinAdded ==
    ASSUME NEW t, IsSeq(t), NEW js, NEW c, NEW m, JoinsRead(js, t, c, m),
           NEW j, NEW p \in 0..Len(t), Within(JoinPieces(j), t, m, p)
    PROVE  \E d : JoinsRead(Append(js, j), t, d, p)
<1>. DEFINE n == Len(js)
            L == Len(t)
            ks == Append(js, j)
            d == [k \in 0..(n + 1) |-> IF k = n + 1 THEN p ELSE c[k]]
<1>1. PICK X : js \in Seq(X)
  BY DEF JoinsRead, IsSeq
<1>. DEFINE Z == X \cup {j}
<1>2. js \in Seq(Z) /\ j \in Z
  BY <1>1
<1>. HIDE DEF Z
<1>3. /\ ks \in Seq(Z) /\ Len(ks) = n + 1 /\ n \in Nat /\ ks[n + 1] = j
      /\ \A k \in 1..n : ks[k] = js[k]
  BY <1>2
<1>4. /\ L \in Nat /\ m \in 0..L /\ c \in [0..n -> 0..L] /\ c[n] <= m
      /\ \A k \in 1..n : Within(JoinPieces(js[k]), t, c[k - 1], c[k])
  BY SeqFacts DEF JoinsRead
<1>. HIDE DEF n, L, ks
<1>5. d \in [0..(n + 1) -> 0..L]
  BY <1>3, <1>4 DEF L
<1>6. \A k \in 1..n : k \in 0..(n + 1) /\ k - 1 \in 0..(n + 1) /\ k # n + 1 /\ k - 1 # n + 1
  BY <1>3
<1>7. d[n + 1] = p /\ d[(n + 1) - 1] = c[n] /\ \A k \in 1..n : d[k] = c[k] /\ d[k - 1] = c[k - 1]
  BY <1>3, <1>6
<1>. HIDE DEF d
<1>8. Within(JoinPieces(j), t, c[n], p)
  <2>1. c[n] \in Int /\ p \in Int /\ p <= p
    BY <1>3, <1>4
  <2>. QED
    BY <1>4, <2>1, WithinWide
<1>9. \A k \in 1..(n + 1) : Within(JoinPieces(ks[k]), t, d[k - 1], d[k])
  <2>. SUFFICES ASSUME NEW k \in 1..(n + 1) PROVE Within(JoinPieces(ks[k]), t, d[k - 1], d[k])
    OBVIOUS
  <2>1. CASE k = n + 1
    BY <1>3, <1>7, <1>8, <2>1
  <2>2. CASE k \in 1..n
    BY <1>3, <1>4, <1>7, <2>2
  <2>. QED
    BY <1>3, <2>1, <2>2
<1>10. JoinsRead(ks, t, d, p)
  <2>1. d[n + 1] <= p
    BY <1>7
  <2>2. IsSeq(ks)
    BY <1>3 DEF IsSeq
  <2>. QED
    BY <1>3, <1>5, <1>9, <2>1, <2>2 DEF JoinsRead, L
<1>. QED
  BY <1>10 DEF ks

LEMMA JoinWithin ==
    ASSUME NEW t, NEW kind, NEW on, NEW p \in Int, NEW a \in Int, NEW b \in Int, NEW d \in Int, NEW q \in Int,
           p <= a, a <= b, b <= d, d <= q, on = Absent \/ on = Slice(t, d, q)
    PROVE  Within(JoinPieces(Join(kind, Slice(t, a, b), on)), t, p, q)
<1>. DEFINE j == Join(kind, Slice(t, a, b), on)
            P == <<Verbatim(<<kind>>), Rewritten(Slice(t, a, b))>>
            Q == OptionalClause(" ON ", <<Rewritten(on)>>, on)
<1>1. JoinPieces(j) = P \o Q
  BY DEF JoinPieces, Join
<1>2. a \in p..b /\ b \in a..b /\ p <= b /\ b <= q /\ d \in b..q /\ q \in d..q
  OBVIOUS
<1>3. Within(P, t, p, b)
  BY <1>2, WithinPair
<1>4. on # Absent => Within(<<Rewritten(on)>>, t, b, q)
  BY <1>2, WithinRaw
<1>5. Within(Q, t, b, q)
  BY <1>2, <1>4, WithinClause
<1>. HIDE DEF P, Q
<1>6. Within(P \o Q, t, p, q)
  BY <1>3, <1>5, WithinConcat
<1>. QED
  BY <1>1, <1>6

\* What is left of a text from a place on, and its parts as parts of the text.
Suffix(u, t, m) ==
    /\ IsSeq(u) /\ Len(u) = Len(t) - m
    /\ \A i \in 1..(Len(t) - m + 1) : From(u, i) = Slice(t, m + i - 1, Len(t)) /\ Before(u, i) = Slice(t, m, m + i - 1)
    /\ u # << >> => m < Len(t) /\ Tail(u) = Slice(t, m + 1, Len(t))

LEMMA SuffixIs ==
    ASSUME NEW t, IsSeq(t), NEW m \in 0..Len(t), NEW u, u = Slice(t, m, Len(t))
    PROVE  Suffix(u, t, m)
<1>. DEFINE L == Len(t)
            n == L - m
<1>1. L \in Nat /\ m \in Nat /\ m <= L /\ L \in m..L /\ n \in Nat /\ m + n = L
  BY SeqFacts
<1>2. IsSeq(u) /\ Len(u) = n
  BY <1>1, SliceFacts
<1>3. \A a \in 0..n : \A b \in a..n : Slice(u, a, b) = Slice(t, m + a, m + b)
  <2>. SUFFICES ASSUME NEW a \in 0..n, NEW b \in a..n PROVE Slice(u, a, b) = Slice(t, m + a, m + b)
    OBVIOUS
  <2>1. L \in m..Len(t) /\ a \in 0..(L - m) /\ b \in a..(L - m)
    BY <1>1
  <2>. HIDE DEF L
  <2>2. Slice(Slice(t, m, L), a, b) = Slice(t, m + a, m + b)
    BY <2>1, SliceOfSlice
  <2>. QED
    BY <2>2 DEF L
<1>4. \A i \in 1..(n + 1) : From(u, i) = Slice(t, m + i - 1, L) /\ Before(u, i) = Slice(t, m, m + i - 1)
  <2>. SUFFICES ASSUME NEW i \in 1..(n + 1)
                PROVE From(u, i) = Slice(t, m + i - 1, L) /\ Before(u, i) = Slice(t, m, m + i - 1)
    OBVIOUS
  <2>1. Before(u, i) = Slice(u, 0, i - 1) /\ From(u, i) = Slice(u, i - 1, n)
    <3>1. i \in 1..(Len(u) + 1)
      BY <1>2
    <3>2. Before(u, i) = Slice(u, 0, i - 1) /\ From(u, i) = Slice(u, i - 1, Len(u))
      BY <1>2, <3>1, TextParts
    <3>. QED
      BY <1>2, <3>2
  <2>. DEFINE a == i - 1
  <2>2. a \in 0..n /\ n \in a..n /\ 0 \in 0..n /\ a \in 0..n /\ m + a = m + i - 1 /\ m + 0 = m
    BY <1>1
  <2>. HIDE DEF a, n
  <2>3. Slice(u, a, n) = Slice(t, m + a, m + n)
    BY <1>3, <2>2
  <2>4. Slice(u, 0, a) = Slice(t, m + 0, m + a)
    BY <1>3, <2>2
  <2>. QED
    BY <1>1, <2>1, <2>2, <2>3, <2>4 DEF a
<1>5. u # << >> => m < L /\ Tail(u) = Slice(t, m + 1, L)
  <2>. SUFFICES ASSUME u # << >> PROVE m < L /\ Tail(u) = Slice(t, m + 1, L)
    OBVIOUS
  <2>1. Len(u) > 0 /\ Tail(u) = Slice(u, 1, Len(u))
    BY <1>2, TextParts
  <2>2. m < L /\ 1 \in 0..n /\ n \in 1..n
    BY <1>1, <1>2, <2>1
  <2>. HIDE DEF n
  <2>3. Slice(u, 1, n) = Slice(t, m + 1, m + n)
    BY <1>3, <2>2
  <2>. QED
    BY <1>1, <1>2, <2>1, <2>2, <2>3
<1>. QED
  BY <1>2, <1>4, <1>5 DEF Suffix

\* One round of the loop over the joins: what was read, and the text that is left.
Read(r, t) ==
    /\ r = [joins |-> r.joins, kind |-> r.kind, text |-> r.text]
    /\ \E c, m : JoinsRead(r.joins, t, c, m) /\ r.text = Slice(t, m, Len(t))

LEMMA ReadAdded ==
    ASSUME NEW t, IsSeq(t), NEW js, NEW c, NEW m, JoinsRead(js, t, c, m),
           NEW j, NEW p \in 0..Len(t), Within(JoinPieces(j), t, m, p),
           NEW q \in p..Len(t), NEW left, left = Slice(t, q, Len(t)), NEW kind
    PROVE  Read([joins |-> Append(js, j), kind |-> kind, text |-> left], t)
<1>1. q \in 0..Len(t) /\ m \in Int /\ q \in Int /\ p <= q /\ m <= m
  BY SeqFacts DEF JoinsRead
<1>2. Within(JoinPieces(j), t, m, q)
  BY <1>1, WithinWide
<1>3. PICK d : JoinsRead(Append(js, j), t, d, q)
  BY <1>1, <1>2, JoinAdded
<1>. QED
  BY <1>3 DEF Read

\* After a join comes nothing, the next join, or one after it.
LEMMA NextLeftIs ==
    ASSUME NEW t, IsSeq(t), NEW z \in Int, 0 <= z, z < Len(t),
           NEW remainder, remainder = Slice(t, z, Len(t)), NEW dialect
    PROVE  \E q \in z..Len(t) : NextLeft(remainder, dialect).text = Slice(t, q, Len(t))
<1>. DEFINE L == Len(t)
            u == Tail(remainder)
            again == FindJoin(u)
            y == z + 1
            r == NextLeft(remainder, dialect)
<1>1. L \in Nat /\ z \in 0..L /\ z \in z..L /\ L \in z..L /\ << >> = Slice(t, L, L)
  BY SeqFacts, TextParts
<1>2. \/ r.text = remainder
      \/ r.text = << >>
      \/ again # 0 /\ r.text = From(remainder, again + 1)
  BY DEF NextLeft, Left, NothingLeft
<1>. SUFFICES \E q \in z..L : r.text = Slice(t, q, L)
  OBVIOUS
<1>. HIDE DEF r
<1>3. Suffix(remainder, t, z)
  BY <1>1, SuffixIs
<1>4. y \in 0..L /\ u = Slice(t, y, L)
  <2>1. Len(remainder) > 0
    BY <1>1, <1>3 DEF Suffix
  <2>2. remainder # << >>
    BY <2>1
  <2>. QED
    BY <1>1, <1>3, <2>2 DEF Suffix
<1>5. again \in 0..(L - y)
  <2>. HIDE DEF y, u
  <2>1. Suffix(u, t, y)
    BY <1>4, SuffixIs DEF L
  <2>. QED
    BY <2>1, JoinPlace DEF again, Suffix, L
<1>. HIDE DEF again, u
<1>6. CASE r.text = remainder
  BY <1>1, <1>6
<1>7. CASE r.text = << >>
  BY <1>1, <1>7
<1>8. CASE again # 0 /\ r.text = From(remainder, again + 1)
  <2>1. again + 1 \in 1..(L - z + 1) /\ z + (again + 1) - 1 \in z..L
    BY <1>1, <1>5
  <2>2. From(remainder, again + 1) = Slice(t, z + (again + 1) - 1, L)
    BY <1>3, <2>1 DEF Suffix
  <2>. QED
    BY <1>8, <2>1, <2>2
<1>. QED
  BY <1>2, <1>6, <1>7, <1>8

LEMMA NextJoinReads ==
    ASSUME NEW t, IsSeq(t), NEW r, Read(r, t), NEW dialect
    PROVE  Read(NextJoin(r, dialect), t)
<1>. DEFINE L == Len(t)
            rest == AfterKeyword(r.text, dialect)
            onIdx == FindOn(rest)
            afterOn == From(rest, onIdx + 1)
            nextIdx == FindJoin(afterOn)
            remainder == From(afterOn, nextIdx)
            left == NextLeft(remainder, dialect)
            kind == r.kind
            Add(table, on, l) == [joins |-> Append(r.joins, Join(kind, table, on)), kind |-> l.kind, text |-> l.text]
<1>1. PICK c, m : JoinsRead(r.joins, t, c, m) /\ r.text = Slice(t, m, L)
  BY DEF Read
<1>2. L \in Nat /\ m \in 0..L /\ m \in Int /\ L \in Int /\ L \in 0..L /\ << >> = Slice(t, L, L) /\ L \in L..L
  BY <1>1, SeqFacts, TextParts DEF JoinsRead
<1>3. Suffix(r.text, t, m)
  BY <1>1, <1>2, SuffixIs DEF L
<1>4. /\ r.text = << >> => NextJoin(r, dialect) = r
      /\ r.text # << >> /\ onIdx = 0 /\ dialect = "postgres" => NextJoin(r, dialect) = [r EXCEPT !.text = << >>]
      /\ r.text # << >> /\ onIdx = 0 /\ dialect # "postgres" => NextJoin(r, dialect) = Add(rest, Absent, NothingLeft)
  BY DEF NextJoin
<1>5. /\ r.text # << >> /\ onIdx > 0 /\ nextIdx = 0 =>
            NextJoin(r, dialect) = Add(Before(rest, onIdx), afterOn, NothingLeft)
      /\ r.text # << >> /\ onIdx > 0 /\ nextIdx > 0 =>
            NextJoin(r, dialect) = Add(Before(rest, onIdx), Before(afterOn, nextIdx), left)
  BY DEF NextJoin
<1>0. NothingLeft.text = << >>
  BY DEF NothingLeft
<1>. HIDE DEF L, onIdx, nextIdx, left, kind
<1>6. CASE r.text = << >>
  BY <1>4, <1>6
<1>7. CASE r.text # << >>
  <2>0. PICK h \in m..L : rest = Slice(t, h, L)
    <3>1. m + 1 \in m..L /\ Tail(r.text) = Slice(t, m + 1, L) /\ m \in m..L
      BY <1>2, <1>3, <1>7 DEF Suffix, L
    <3>2. rest = r.text \/ rest = Tail(r.text)
      BY DEF AfterKeyword
    <3>. QED
      BY <1>1, <3>1, <3>2
  <2>1. h \in 0..L /\ m \in 0..L /\ h \in Int /\ m <= h /\ h <= L /\ rest = Slice(t, h, L)
    BY <1>2, <2>0
  <2>. HIDE DEF rest
  <2>2. Suffix(rest, t, h)
    BY <2>1, SuffixIs DEF L
  <2>3. CASE onIdx = 0
    <3>1. CASE dialect = "postgres"
      <4>1. NextJoin(r, dialect) = [r EXCEPT !.text = << >>]
        BY <1>4, <1>7, <2>3, <3>1
      <4>2. r = [joins |-> r.joins, kind |-> r.kind, text |-> r.text]
        BY DEF Read
      <4>3. NextJoin(r, dialect) = [joins |-> r.joins, kind |-> r.kind, text |-> << >>]
        BY <4>1, <4>2
      <4>4. JoinsRead(r.joins, t, c, L)
        <5>1. c[Len(r.joins)] \in 0..L
          BY <1>1, SeqFacts DEF JoinsRead, L
        <5>2. c[Len(r.joins)] <= L
          BY <1>2, <5>1
        <5>. QED
          BY <1>1, <1>2, <5>2 DEF JoinsRead, L
      <4>. QED
        BY <1>2, <4>3, <4>4 DEF Read, L
    <3>2. CASE dialect # "postgres"
      <4>1. NextJoin(r, dialect) = Add(rest, Absent, NothingLeft)
        BY <1>4, <1>7, <2>3, <3>2
      <4>2. Within(JoinPieces(Join(kind, Slice(t, h, L), Absent)), t, m, L)
        <5>1. L <= L
          BY <1>2
        <5>. QED
          BY <1>2, <2>1, <5>1, JoinWithin
      <4>. QED
        BY <1>0, <1>1, <1>2, <2>1, <4>1, <4>2, ReadAdded DEF L
    <3>. QED
      BY <3>1, <3>2
  <2>4. CASE onIdx # 0
    <3>1. onIdx \in 1..(L - h) /\ onIdx + 1 \in 1..(L - h + 1) /\ onIdx \in 1..(L - h + 1)
      <4>1. IsSeq(rest) /\ Len(rest) = L - h
        BY <2>2 DEF Suffix, L
      <4>2. onIdx \in 0..(L - h)
        BY <4>1, KeywordPlace DEF onIdx, FindOn
      <4>. QED
        BY <1>2, <2>1, <2>4, <4>2
    <3>. DEFINE b == h + onIdx - 1
                g == h + onIdx
    <3>2. /\ b \in 0..L /\ g \in 0..L /\ b \in Int /\ g \in Int /\ m <= h /\ h <= b /\ b <= g /\ g <= L
          /\ h + (onIdx + 1) - 1 = g
      BY <1>2, <2>1, <3>1
    <3>3. Before(rest, onIdx) = Slice(t, h, b) /\ afterOn = Slice(t, g, L)
      BY <2>2, <3>1, <3>2 DEF Suffix, L
    <3>. HIDE DEF b, g, afterOn
    <3>4. Suffix(afterOn, t, g)
      BY <3>2, <3>3, SuffixIs DEF L
    <3>5. CASE nextIdx = 0
      <4>1. NextJoin(r, dialect) = Add(Before(rest, onIdx), afterOn, NothingLeft)
        BY <1>5, <1>7, <3>1, <3>5
      <4>2. Within(JoinPieces(Join(kind, Slice(t, h, b), afterOn)), t, m, L)
        BY <1>2, <2>1, <3>2, <3>3, JoinWithin
      <4>. QED
        BY <1>0, <1>1, <1>2, <3>3, <4>1, <4>2, ReadAdded DEF L
    <3>6. CASE nextIdx # 0
      <4>1. nextIdx \in 1..(L - g) /\ nextIdx \in 1..(L - g + 1)
        <5>1. IsSeq(afterOn) /\ Len(afterOn) = L - g
          BY <3>4 DEF Suffix, L
        <5>2. nextIdx \in 0..(L - g)
          BY <5>1, JoinPlace DEF nextIdx
        <5>. QED
          BY <1>2, <3>2, <3>6, <5>2
      <4>. DEFINE z == g + nextIdx - 1
      <4>2. z \in 0..L /\ z \in Int /\ g <= z /\ z < L
        BY <1>2, <3>2, <4>1
      <4>3. Before(afterOn, nextIdx) = Slice(t, g, z) /\ remainder = Slice(t, z, L)
        BY <3>4, <4>1, <4>2 DEF Suffix, L
      <4>. HIDE DEF z, remainder
      <4>5. Within(JoinPieces(Join(kind, Slice(t, h, b), Before(afterOn, nextIdx))), t, m, z)
        BY <1>2, <2>1, <3>2, <4>2, <4>3, JoinWithin
      <4>6. NextJoin(r, dialect) = Add(Before(rest, onIdx), Before(afterOn, nextIdx), left)
        BY <1>5, <1>7, <3>1, <4>1
      <4>7. PICK q \in z..L : left.text = Slice(t, q, L)
        BY <1>2, <4>2, <4>3, NextLeftIs DEF L, left
      <4>. QED
        BY <1>1, <3>3, <4>2, <4>5, <4>6, <4>7, ReadAdded DEF L
    <3>. QED
      BY <3>5, <3>6
  <2>. QED
    BY <2>3, <2>4
<1>. QED
  BY <1>6, <1>7

\* The rounds of the loop, as many as there are symbols at most.
Rounds(f, t, dialect, n) ==
    f = [k \in 0..n |-> IF k = 0 THEN [joins |-> << >>, kind |-> KeywordOf(t[1]), text |-> t]
                       ELSE NextJoin(f[k - 1], dialect)]

LEMMA RoundsExist ==
    ASSUME NEW t, NEW dialect, NEW n \in Nat
    PROVE  \E f : Rounds(f, t, dialect, n)
<1>. DEFINE Start == [joins |-> << >>, kind |-> KeywordOf(t[1]), text |-> t]
            Step(r) == NextJoin(r, dialect)
            Walk(f, m) == f = [k \in 0..m |-> IF k = 0 THEN Start ELSE Step(f[k - 1])]
            T == {m \in Nat : ~ \E f : Walk(f, m)}
<1>1. T = {}
  <2>. HIDE DEF Step, Start
  <2>. SUFFICES ASSUME T # {} PROVE FALSE
    OBVIOUS
  <2>1. PICK m \in T : \A k \in T : m <= k
    BY LeastPlace
  <2>2. m # 0
    <3>1. Walk([k \in 0..0 |-> Start], 0)
      OBVIOUS
    <3>. QED
      BY <3>1
  <2>3. m - 1 \in Nat /\ m - 1 \notin T /\ m \in Nat
    <3>1. m \in Nat /\ \A k \in T : m <= k
      BY <2>1
    <3>. HIDE DEF T
    <3>. QED
      BY <2>2, <3>1
  <2>4. PICK f : Walk(f, m - 1)
    BY <2>3
  <2>. DEFINE g == [k \in 0..m |-> IF k = m THEN Step(f[m - 1]) ELSE f[k]]
  <2>5. Walk(g, m)
    <3>1. \A k \in 0..m : k # m => g[k] = IF k = 0 THEN Start ELSE Step(g[k - 1])
      BY <2>3, <2>4
    <3>2. g[m] = Step(g[m - 1])
      BY <2>2, <2>3
    <3>. QED
      BY <3>1, <3>2, <2>2
  <2>. QED
    BY <2>1, <2>5
<1>. QED
  BY <1>1 DEF Rounds

LEMMA JoinsAre ==
    ASSUME NEW t, IsSeq(t), NEW dialect
    PROVE  \E f : Rounds(f, t, dialect, Len(t)) /\ Joins(t, dialect) = f[Len(t)].joins
<1>. DEFINE f == CHOOSE f : Rounds(f, t, dialect, Len(t))
<1>1. Rounds(f, t, dialect, Len(t))
  BY SeqFacts, RoundsExist
<1>2. Joins(t, dialect) = f[Len(t)].joins
  BY DEF Joins, Rounds
<1>. QED
  BY <1>1, <1>2

\* The joins are read from a text one after the other.
LEMMA JoinsCut ==
    ASSUME NEW t, IsSeq(t), NEW dialect, NEW js, js = Joins(t, dialect)
    PROVE  Within(FlattenSeq([k \in DOMAIN js |-> JoinPieces(js[k])]), t, 0, Len(t))
<1>. DEFINE L == Len(t)
<1>1. PICK f : Rounds(f, t, dialect, L) /\ js = f[L].joins
  BY JoinsAre
<1>2. L \in Nat /\ t = Slice(t, 0, L)
  BY SeqFacts, TextParts
<1>. HIDE DEF L
<1>3. f[0] = [joins |-> << >>, kind |-> KeywordOf(t[1]), text |-> t] /\ \A k \in 1..L : f[k] = NextJoin(f[k - 1], dialect)
  BY <1>1, <1>2 DEF Rounds
<1>. DEFINE T == {k \in 0..L : ~Read(f[k], t)}
<1>4. T = {}
  <2>. SUFFICES ASSUME T # {} PROVE FALSE
    OBVIOUS
  <2>1. PICK k \in T : \A j \in T : k <= j
    <3>1. T \subseteq Nat
      OBVIOUS
    <3>. HIDE DEF T
    <3>. QED
      BY <3>1, LeastPlace
  <2>2. Read(f[0], t)
    <3>. DEFINE c == [k_1 \in 0..0 |-> 0]
    <3>1. IsSeq(<< >>) /\ Len(<< >>) = 0 /\ 0 \in 0..L /\ c \in [0..0 -> 0..L] /\ c[0] <= 0
      BY <1>2, FollowEmpty
    <3>2. \A i \in 1..0 : FALSE
      OBVIOUS
    <3>. HIDE DEF c
    <3>3. JoinsRead(<< >>, t, c, 0)
      BY <3>1, <3>2 DEF JoinsRead, L
    <3>. QED
      BY <1>2, <1>3, <3>3 DEF Read, L
  <2>3. k \in 1..L /\ k - 1 \in 0..L /\ k - 1 \notin T
    <3>1. k \in 0..L /\ k # 0
      BY <2>1, <2>2
    <3>2. k \in 1..L /\ k - 1 \in 0..L /\ ~(k <= k - 1)
      BY <1>2, <3>1
    <3>. HIDE DEF T
    <3>. QED
      BY <2>1, <3>2
  <2>4. Read(f[k - 1], t)
    BY <2>3
  <2>5. Read(f[k], t)
    BY <1>3, <2>3, <2>4, NextJoinReads
  <2>. QED
    BY <2>1, <2>5
<1>5. PICK c, m : JoinsRead(js, t, c, m)
  <2>1. L \in 0..L
    BY <1>2
  <2>2. Read(f[L], t)
    BY <1>4, <2>1
  <2>. QED
    BY <1>1, <2>2 DEF Read
<1>. DEFINE n == Len(js)
            ss == [k \in 1..n |-> JoinPieces(js[k])]
<1>6. /\ n \in Nat /\ DOMAIN js = 1..n /\ c \in [0..n -> 0..L] /\ c \in [0..n -> Int]
      /\ \A k \in 1..n : Within(ss[k], t, c[k - 1], c[k])
  <2>1. IsSeq(js) /\ c \in [0..n -> 0..L]
    BY <1>5 DEF JoinsRead, L
  <2>2. n \in Nat /\ DOMAIN js = 1..n
    BY <2>1, SeqFacts
  <2>3. \A k \in 1..n : Within(JoinPieces(js[k]), t, c[k - 1], c[k])
    BY <1>5 DEF JoinsRead
  <2>. HIDE DEF n
  <2>4. c \in [0..n -> Int]
    BY <1>2, <2>1
  <2>. QED
    BY <2>1, <2>2, <2>3, <2>4
<1>. HIDE DEF n
<1>7. \A k \in 1..n : c[k - 1] <= c[k]
  BY <1>6 DEF Within
<1>8. /\ ss = [k \in 1..n |-> ss[k]]
      /\ \A k \in 1..n : IsSeq(ss[k]) /\ Follow(ss[k], t, c[k - 1], c[k])
  BY <1>6 DEF Within
<1>. HIDE DEF ss
<1>9. IsSeq(FlattenSeq(ss)) /\ Follow(FlattenSeq(ss), t, c[0], c[n])
  BY <1>6, <1>7, <1>8, FollowFlatten
<1>10. c[0] \in 0..L /\ c[n] \in 0..L
  BY <1>6
<1>11. 0 \in Int /\ L \in Int /\ 0 <= L /\ 0 <= c[0] /\ c[n] <= L /\ c[0] \in Int /\ c[n] \in Int
  BY <1>2, <1>10
<1>12. Follow(FlattenSeq(ss), t, 0, L)
  BY <1>9, <1>11, FollowWide
<1>13. Within(FlattenSeq(ss), t, 0, L)
  BY <1>9, <1>11, <1>12 DEF Within
<1>. QED
  BY <1>6, <1>13 DEF L, ss

SelectWith(r, s, table, joins) ==
    /\ SelectShape(r) /\ r.table = table /\ r.joins = joins
    /\ r.columns = s.columns /\ r.where = s.where /\ r.order = s.order

LEMMA SelectFields ==
    ASSUME NEW s, SelectShape(s), NEW x, NEW y
    PROVE  /\ SelectWith([s EXCEPT !.table = x, !.joins = y], s, x, y)
           /\ SelectWith([s EXCEPT !.limit = x], s, s.table, s.joins)
<1>1. s = [type |-> "select", columns |-> s.columns, table |-> s.table, joins |-> s.joins,
           where |-> s.where, order |-> s.order, limit |-> s.limit]
  BY DEF SelectShape
<1>. DEFINE u == [s EXCEPT !.table = x]
            v == [u EXCEPT !.joins = y]
<1>2. u = [type |-> "select", columns |-> s.columns, table |-> x, joins |-> s.joins,
           where |-> s.where, order |-> s.order, limit |-> s.limit]
  BY <1>1
<1>3. v = [s EXCEPT !.table = x, !.joins = y]
  BY <1>1
<1>. HIDE DEF u
<1>4. v = [type |-> "select", columns |-> s.columns, table |-> x, joins |-> y,
           where |-> s.where, order |-> s.order, limit |-> s.limit]
  BY <1>2
<1>5. [s EXCEPT !.limit = x] = [type |-> "select", columns |-> s.columns, table |-> s.table, joins |-> s.joins,
                                where |-> s.where, order |-> s.order, limit |-> x]
  BY <1>1
<1>. HIDE DEF v
<1>6. SelectWith(v, s, x, y)
  BY <1>4 DEF SelectWith, SelectShape
<1>7. SelectWith([s EXCEPT !.limit = x], s, s.table, s.joins)
  BY <1>5 DEF SelectWith, SelectShape
<1>. QED
  BY <1>3, <1>6, <1>7

\* A SELECT whose clauses are parts of the text.
SelectOfText(s, t, ordered) ==
    SelectShape(s) /\ SelectCut(s.columns, s.table, s.joins, s.where, s.order, t, ordered)

LEMMA LimitKeepsCut ==
    ASSUME NEW t, NEW s, NEW ordered, SelectOfText(s, t, ordered), NEW x
    PROVE  SelectOfText([s EXCEPT !.limit = x], t, ordered)
<1>. DEFINE r == [s EXCEPT !.limit = x]
<1>1. SelectWith(r, s, s.table, s.joins)
  BY SelectFields DEF SelectOfText
<1>. HIDE DEF r
<1>2. SelectOfText(r, t, ordered)
  BY <1>1 DEF SelectOfText, SelectWith
<1>. QED
  BY <1>2 DEF r

\* The joins are cut from the end of the table.
LEMMA WithJoinsCut ==
    ASSUME NEW t, IsSeq(t), NEW s, NEW ordered, SelectOfText(s, t, ordered), s.joins = << >>, NEW dialect
    PROVE  SelectOfText(WithJoins(s, dialect), t, ordered)
<1>. DEFINE L == Len(t)
            table == s.table
            i == FindJoin(table)
            js == Joins(From(table, i), dialect)
            r == WithJoins(s, dialect)
            All(list) == FlattenSeq([k \in DOMAIN list |-> JoinPieces(list[k])])
            D == OptionalClause(" WHERE ", <<Rewritten(s.where)>>, s.where)
            E == OptionalClause(" ORDER BY ", RewrittenList(s.order), s.order)
            A == RewrittenList(s.columns)
<1>1. /\ i = 0 => r = s
      /\ i # 0 => r = [s EXCEPT !.table = Before(table, i), !.joins = js]
  BY DEF WithJoins
<1>0. PICK a, x, y, b, d, e \in 0..L :
        SelectPlaces(s.columns, table, s.joins, s.where, s.order, t, ordered, a, x, y, b, d, e)
  BY DEF SelectOfText, SelectCut
<1>2. /\ a <= x /\ x <= y /\ table = Slice(t, x, y)
      /\ Within(A, t, 0, a) /\ Within(All(s.joins), t, y, b) /\ Within(D, t, b, d) /\ Within(E, t, e, L)
      /\ ordered => d <= e
  BY <1>0 DEF SelectPlaces
<1>. HIDE DEF L, All, A, D, E
<1>3. L \in Nat /\ x \in 0..Len(t) /\ y \in x..Len(t) /\ x \in Nat /\ y \in Nat /\ b \in Int /\ y <= b
  <2>1. L \in Nat
    BY SeqFacts DEF L
  <2>2. y <= b
    BY <1>2 DEF Within
  <2>. QED
    BY <1>2, <2>1, <2>2 DEF L
<1>4. IsSeq(table) /\ Len(table) = y - x
  BY <1>2, <1>3, SliceFacts
<1>5. i \in 0..(y - x)
  BY <1>4, JoinPlace
<1>. HIDE DEF i, table
<1>6. CASE i = 0
  BY <1>1, <1>6
<1>7. CASE i # 0
  <2>. DEFINE h == i - 1
              z == x + h
  <2>1. i \in 1..(Len(table) + 1) /\ h \in Nat /\ h \in 0..(y - x) /\ y - x \in h..(y - x) /\ 0 \in 0..(y - x)
        /\ x + (y - x) = y /\ x + 0 = x
    BY <1>3, <1>4, <1>5, <1>7
  <2>2. Before(table, i) = Slice(table, 0, h) /\ From(table, i) = Slice(table, h, y - x)
    BY <1>4, <2>1, TextParts
  <2>3. Slice(Slice(t, x, y), 0, h) = Slice(t, x + 0, x + h) /\ Slice(Slice(t, x, y), h, y - x) = Slice(t, x + h, x + (y - x))
    BY <1>3, <2>1, SliceOfSlice
  <2>. HIDE DEF h
  <2>4. Before(table, i) = Slice(t, x, z) /\ From(table, i) = Slice(t, z, y)
    BY <1>2, <2>1, <2>2, <2>3
  <2>5. z \in 0..Len(t) /\ y \in z..Len(t) /\ z \in 0..L /\ z \in Int /\ x <= z /\ z <= z /\ a <= x
    BY <1>2, <1>3, <2>1 DEF L
  <2>. HIDE DEF z, js
  <2>6. Within(All(js), t, z, y)
    <3>. DEFINE u == Slice(t, z, y)
    <3>1. IsSeq(u) /\ Len(u) = y - z
      BY <2>5, SliceFacts
    <3>2. js = Joins(u, dialect)
      BY <2>4 DEF js
    <3>. HIDE DEF u
    <3>3. Within(All(js), u, 0, Len(u))
      BY <3>1, <3>2, JoinsCut DEF All
    <3>. QED
      BY <2>5, <3>1, <3>3, WithinInside DEF u
  <2>7. Within(All(js), t, z, b)
    BY <1>3, <2>5, <2>6, WithinWide
  <2>8. /\ SelectShape(r) /\ r.columns = s.columns /\ r.table = Slice(t, x, z) /\ r.joins = js
        /\ r.where = s.where /\ r.order = s.order
    <3>1. SelectShape(s)
      BY DEF SelectOfText
    <3>. DEFINE B == Before(table, i)
                q == [s EXCEPT !.table = B, !.joins = js]
    <3>2. r = q
      BY <1>1, <1>7
    <3>. HIDE DEF B, r
    <3>3. SelectWith(q, s, B, js)
      BY <3>1, SelectFields
    <3>4. SelectWith(r, s, B, js)
      BY <3>2, <3>3
    <3>. QED
      BY <2>4, <3>4 DEF B, SelectWith
  <2>. HIDE DEF r
  <2>9. SelectCut(s.columns, r.table, js, s.where, s.order, t, ordered)
    <3>1. SelectPlaces(s.columns, r.table, js, s.where, s.order, t, ordered, a, x, z, b, d, e)
      BY <1>2, <2>5, <2>7, <2>8 DEF SelectPlaces, L, All, A, D, E
    <3>. QED
      BY <2>5, <3>1 DEF SelectCut, L
  <2>. QED
    BY <2>8, <2>9 DEF SelectOfText, r
<1>. QED
  BY <1>6, <1>7

\* What comes of a statement: a record of one of the kinds, whose pieces are of the text.
Good(r, t, ordered) ==
    \/ r = Error
    \/ /\ r.type \in {"raw", "select", "insert", "update", "delete"}
       /\ \A dialect : Pieces(RenderStatement(r, dialect), t, ordered)

LEMMA SelectGood ==
    ASSUME NEW t, IsSeq(t), NEW s, NEW ordered \in BOOLEAN, SelectOfText(s, t, ordered)
    PROVE  Good(s, t, ordered)
<1>1. s.type = "select"
  BY DEF SelectOfText, SelectShape
<1>2. \A dialect : Pieces(RenderSelect(s, dialect), t, ordered)
  BY SelectPieces DEF SelectOfText
<1>3. \A dialect : RenderStatement(s, dialect) = RenderSelect(s, dialect)
  BY <1>1 DEF RenderStatement
<1>. QED
  BY <1>1, <1>2, <1>3 DEF Good

\* A statement that is kept whole is one piece.
LEMMA RawGood ==
    ASSUME NEW t, IsSeq(t), NEW ordered
    PROVE  Good(Raw(t), t, ordered)
<1>1. Raw(t).type = "raw" /\ Raw(t).sql = t
  BY DEF Raw
<1>2. \A dialect : RenderStatement(Raw(t), dialect) = <<Rewritten(t)>>
  BY <1>1 DEF RenderStatement
<1>3. Within(<<Rewritten(t)>>, t, 0, Len(t))
  <2>1. Len(t) \in Nat /\ t = Slice(t, 0, Len(t))
    BY SeqFacts, TextParts
  <2>2. 0 \in Int /\ Len(t) \in Int /\ 0 \in 0..Len(t) /\ Len(t) \in 0..Len(t)
    BY <2>1
  <2>3. Within(<<Rewritten(Slice(t, 0, Len(t)))>>, t, 0, Len(t))
    BY <2>2, WithinRaw
  <2>. QED
    BY <2>1, <2>3
<1>4. Pieces(<<Rewritten(t)>>, t, ordered)
  BY <1>3, PiecesOf
<1>. QED
  BY <1>1, <1>2, <1>4 DEF Good

\* SELECT as the TiDB path cuts it, and as the legacy parsers do.
LEMMA TiDBSelectGood ==
    ASSUME NEW s, IsSeq(Body(s))
    PROVE  Good(NormalizeTiDBSelect(s), Body(s), InOrder(Body(s)))
<1>. DEFINE t == Body(s)
            parts == ExtractSelectParts(t)
            r == [parts EXCEPT !.limit = s.limit]
<1>1. NormalizeTiDBSelect(s) = Error \/ (parts # Error /\ NormalizeTiDBSelect(s) = r)
  BY DEF NormalizeTiDBSelect, TiDBSelect
<1>2. CASE NormalizeTiDBSelect(s) = Error
  BY <1>2 DEF Good
<1>3. CASE parts # Error /\ NormalizeTiDBSelect(s) = r
  <2>. HIDE DEF t, r
  <2>1. IsSeq(t)
    BY DEF t
  <2>2. SelectOfText(parts, t, InOrder(t))
    BY <1>3, <2>1, SelectExtracted DEF SelectOfText
  <2>. HIDE DEF parts
  <2>3. SelectOfText(r, t, InOrder(t))
    BY <2>2, LimitKeepsCut DEF r
  <2>4. InOrder(t) \in BOOLEAN
    BY DEF InOrder
  <2>5. Good(r, t, InOrder(t))
    BY <2>1, <2>3, <2>4, SelectGood
  <2>. QED
    BY <1>3, <2>5 DEF t
<1>. QED
  BY <1>1, <1>2, <1>3

LEMMA LegacySelectGood ==
    ASSUME NEW s, IsSeq(Body(s))
    PROVE  ParseSelect(s) = Raw(SourceText(s)) \/ Good(ParseSelect(s), Body(s), InOrder(Body(s)))
<1>. DEFINE t == Body(s)
            parts == ExtractSelectParts(t)
            d == s.dialect
            limit == ParseLimit(parts.limit, d).limit
            limited == [parts EXCEPT !.limit = limit]
<1>1. \/ ParseSelect(s) = Raw(SourceText(s))
      \/ parts # Error /\ ParseSelect(s) = WithJoins(parts, d)
      \/ parts # Error /\ ParseSelect(s) = Error
      \/ parts # Error /\ ParseSelect(s) = WithJoins(limited, d)
  BY DEF ParseSelect, SelectOf, WithLimit
<1>. HIDE DEF t, d, limit
<1>2. IsSeq(t) /\ InOrder(t) \in BOOLEAN
  BY DEF t, InOrder
<1>3. parts # Error => SelectOfText(parts, t, InOrder(t)) /\ parts.joins = << >>
  BY <1>2, SelectExtracted DEF SelectOfText
<1>. HIDE DEF parts
<1>4. parts # Error => SelectOfText(limited, t, InOrder(t)) /\ limited.joins = << >>
  <2>. SUFFICES ASSUME parts # Error PROVE SelectOfText(limited, t, InOrder(t)) /\ limited.joins = << >>
    OBVIOUS
  <2>1. SelectWith(limited, parts, parts.table, parts.joins)
    BY <1>3, SelectFields DEF SelectOfText
  <2>. HIDE DEF limited
  <2>2. limited.joins = << >>
    BY <1>3, <2>1 DEF SelectWith
  <2>3. SelectOfText([parts EXCEPT !.limit = limit], t, InOrder(t))
    BY <1>3, LimitKeepsCut
  <2>. QED
    BY <2>2, <2>3 DEF limited
<1>. HIDE DEF limited
<1>5. CASE parts # Error /\ ParseSelect(s) = WithJoins(parts, d)
  <2>1. SelectOfText(WithJoins(parts, d), t, InOrder(t))
    BY <1>2, <1>3, <1>5, WithJoinsCut
  <2>2. Good(WithJoins(parts, d), t, InOrder(t))
    BY <1>2, <2>1, SelectGood
  <2>. QED
    BY <1>5, <2>2 DEF t
<1>6. CASE parts # Error /\ ParseSelect(s) = WithJoins(limited, d)
  <2>1. SelectOfText(WithJoins(limited, d), t, InOrder(t))
    BY <1>2, <1>4, <1>6, WithJoinsCut
  <2>2. Good(WithJoins(limited, d), t, InOrder(t))
    BY <1>2, <2>1, SelectGood
  <2>. QED
    BY <1>6, <2>2 DEF t
<1>7. CASE ParseSelect(s) = Error
  BY <1>7 DEF Good
<1>. QED
  BY <1>1, <1>5, <1>6, <1>7

-----------------------------------------------------------------------------
(* INSERT: the first row of the values, if there is any.                   *)

RowOfText(values, t) ==
    values = << >> \/ \E a \in 0..Len(t) : \E b \in a..Len(t) : values = SplitTopLevelCSV(Slice(t, a, b))

LEMMA FirstParenPlace ==
    ASSUME NEW t, IsSeq(t), NEW i, i = FirstPlace({k \in DOMAIN t : t[k] = "("})
    PROVE  i \in 0..Len(t) /\ (i # 0 => t[i] = "(")
<1>. DEFINE P == {k \in DOMAIN t : t[k] = "("}
<1>1. Len(t) \in Nat /\ DOMAIN t = 1..Len(t)
  BY SeqFacts
<1>2. P \subseteq Nat \ {0} /\ \A k \in P : k \in 1..Len(t) /\ t[k] = "("
  BY <1>1
<1>. HIDE DEF P
<1>3. (P = {} => FirstPlace(P) = 0) /\ (P # {} => FirstPlace(P) \in P)
  BY <1>2, FirstIs
<1>4. i = FirstPlace(P)
  BY DEF P
<1>5. CASE P = {}
  BY <1>1, <1>3, <1>4, <1>5
<1>6. CASE P # {}
  <2>1. i \in 1..Len(t) /\ t[i] = "("
    BY <1>2, <1>3, <1>4, <1>6
  <2>2. i \in 0..Len(t)
    BY <2>1
  <2>. QED
    BY <2>1, <2>2
<1>. QED
  BY <1>5, <1>6

\* The values lie between a parenthesis and the one that matches it.
Enclosed(u, open, close) ==
    open = FirstPlace({k \in DOMAIN u : u[k] = "("}) /\ close = FindMatchingParen(u, open) /\ close # 0

PartOf(text, t) == \E a \in 0..Len(t) : \E b \in a..Len(t) : text = Slice(t, a, b)

LEMMA ValuesCut ==
    ASSUME NEW t, IsSeq(t), NEW g \in 0..Len(t), NEW u, u = Slice(t, g, Len(t)),
           NEW open, NEW close, Enclosed(u, open, close)
    PROVE  PartOf(SubSeq(u, open + 1, close - 1), t)
<1>. DEFINE L == Len(t)
<1>1. L \in Nat /\ g \in Nat /\ g <= L /\ L \in g..Len(t)
  BY SeqFacts
<1>2. IsSeq(u) /\ Len(u) = L - g
  BY <1>1, SliceFacts
<1>3. open \in 0..(L - g) /\ (open # 0 => u[open] = "(")
  <2>1. open = FirstPlace({k \in DOMAIN u : u[k] = "("})
    BY DEF Enclosed
  <2>2. open \in 0..Len(u) /\ (open # 0 => u[open] = "(")
    BY <1>2, <2>1, FirstParenPlace
  <2>. QED
    BY <1>2, <2>2
<1>4. close \in open..(L - g) /\ u[close] = ")" /\ open # 0
  <2>1. open \in 0..Len(u)
    BY <1>2, <1>3
  <2>2. \/ close = 0
        \/ close \in open..Len(u) /\ u[close] = ")" /\ open # 0
    BY <1>2, <2>1, ParenPlace DEF Enclosed
  <2>3. close # 0
    BY DEF Enclosed
  <2>. QED
    BY <1>2, <2>2, <2>3
<1>5. close # open
  BY <1>3, <1>4
<1>. DEFINE q == close - 1
<1>6. open \in 0..(L - g) /\ q \in open..(L - g) /\ open \in Nat /\ q \in Nat
  BY <1>1, <1>3, <1>4, <1>5
<1>. HIDE DEF q
<1>7. Slice(u, open, q) = Slice(t, g + open, g + q)
  BY <1>1, <1>6, SliceOfSlice
<1>8. g + open \in 0..L /\ g + q \in (g + open)..L
  BY <1>1, <1>6
<1>9. SubSeq(u, open + 1, close - 1) = Slice(t, g + open, g + q)
  BY <1>7 DEF Slice, q
<1>. QED
  BY <1>8, <1>9 DEF PartOf

LEMMA PartsTypes ==
    ASSUME NEW t
    PROVE  ExtractInsertParts(t).type \in {"columnless", "error", "insert"}
<1>1. \A table, columns, has, body, open, close :
        ValuesParts(table, columns, has, body, open, close).type \in {"error", "insert"}
  BY DEF ValuesParts, Error
<1>2. \A open, close : InsertParts(t, open, close).type \in {"columnless", "error", "insert"}
  BY <1>1 DEF InsertParts, Error
<1>. QED
  BY <1>2 DEF ExtractInsertParts

LEMMA InsertExtracted ==
    ASSUME NEW t, IsSeq(t), NEW parts, parts = ExtractInsertParts(t), parts.type = "insert"
    PROVE  RowOfText(parts.values, t)
<1>. DEFINE L == Len(t)
            FirstParen(text) == FirstPlace({i \in DOMAIN text : text[i] = "("})
            openCols == FirstParen(t)
            closeCols == FindMatchingParen(t, openCols)
            columns == SplitTopLevelCSV(SubSeq(t, openCols + 1, closeCols - 1))
            table == StripIdentifier(Before(t, openCols))
            names == [k \in DOMAIN columns |-> StripIdentifier(columns[k])]
            afterCols == From(t, closeCols + 1)
            valuesIdx == FindTopLevelKeyword(afterCols, "VALUES")
            valuesBody == From(afterCols, valuesIdx + 1)
            open == FirstParen(valuesBody)
            close == FindMatchingParen(valuesBody, open)
<1>1. closeCols # 0 /\ parts = ValuesParts(table, names, valuesIdx > 0, valuesBody, open, close)
  <2>. DEFINE values == ValuesParts(table, names, valuesIdx > 0, valuesBody, open, close)
  <2>1. parts = InsertParts(t, openCols, closeCols)
    BY DEF ExtractInsertParts
  <2>2. \/ openCols = 0 /\ parts = [type |-> "columnless"]
        \/ openCols # 0 /\ closeCols = 0 /\ parts = Error
        \/ openCols # 0 /\ closeCols # 0 /\ parts = values
    BY <2>1 DEF InsertParts
  <2>. HIDE DEF values, openCols, closeCols
  <2>3. closeCols # 0 /\ parts = values
    BY <2>2 DEF Error
  <2>. QED
    BY <2>3 DEF values
<1>. HIDE DEF L, openCols, closeCols, columns, table, names, afterCols, valuesIdx, valuesBody, open, close
<1>2. \/ parts.values = << >>
      \/ close # 0 /\ parts.values = SplitTopLevelCSV(SubSeq(valuesBody, open + 1, close - 1))
  BY <1>1 DEF ValuesParts, Error
<1>3. CASE parts.values = << >>
  BY <1>3 DEF RowOfText
<1>4. CASE close # 0 /\ parts.values = SplitTopLevelCSV(SubSeq(valuesBody, open + 1, close - 1))
  <2>1. closeCols \in 1..L /\ L \in Nat
    <3>1. openCols \in 0..L /\ L \in Nat
      BY FirstParenPlace, SeqFacts DEF openCols, L
    <3>2. closeCols \in openCols..L
      BY <1>1, <3>1, ParenPlace DEF closeCols, L
    <3>. QED
      BY <1>1, <3>1, <3>2
  <2>2. afterCols = Slice(t, closeCols, L) /\ closeCols \in 0..L
    <3>1. closeCols + 1 \in 1..(L + 1) /\ (closeCols + 1) - 1 = closeCols
      BY <2>1
    <3>2. From(t, closeCols + 1) = Slice(t, (closeCols + 1) - 1, L)
      BY <3>1, TextParts DEF L
    <3>. QED
      BY <2>1, <3>1, <3>2 DEF afterCols
  <2>3. Suffix(afterCols, t, closeCols)
    BY <2>2, SuffixIs DEF L
  <2>. DEFINE g == closeCols + valuesIdx
  <2>4. valuesIdx \in 0..(L - closeCols)
    BY <2>3, KeywordPlace DEF Suffix, L, valuesIdx
  <2>5. g \in 0..L /\ valuesIdx + 1 \in 1..(L - closeCols + 1) /\ closeCols + (valuesIdx + 1) - 1 = g
    BY <2>1, <2>4
  <2>6. valuesBody = Slice(t, g, L)
    <3>1. From(afterCols, valuesIdx + 1) = Slice(t, closeCols + (valuesIdx + 1) - 1, L)
      BY <2>3, <2>5 DEF Suffix, L
    <3>. QED
      BY <2>5, <3>1 DEF valuesBody
  <2>. HIDE DEF g
  <2>7. Enclosed(valuesBody, open, close)
    BY <1>4 DEF open, close, Enclosed
  <2>8. PartOf(SubSeq(valuesBody, open + 1, close - 1), t)
    BY <2>5, <2>6, <2>7, ValuesCut DEF L
  <2>. QED
    BY <1>4, <2>8 DEF RowOfText, PartOf
<1>. QED
  BY <1>2, <1>3, <1>4

LEMMA InsertGood ==
    ASSUME NEW t, IsSeq(t), NEW s, s.type = "insert", RowOfText(s.values, t), NEW ordered
    PROVE  Good(s, t, ordered)
<1>. DEFINE L == Len(t)
            A == IF s.values = << >> THEN << >> ELSE RewrittenList(s.values)
<1>1. L \in Nat /\ 0 \in Int /\ L \in Int /\ 0 <= L /\ 0 <= 0 /\ L <= L
  BY SeqFacts
<1>2. Within(A, t, 0, L)
  <2>1. CASE s.values = << >>
    BY <1>1, <2>1, WithinEmpty
  <2>2. CASE s.values # << >>
    <3>1. PICK a \in 0..L : \E b \in a..L : s.values = SplitTopLevelCSV(Slice(t, a, b))
      BY <2>2 DEF RowOfText
    <3>2. PICK b \in a..L : s.values = SplitTopLevelCSV(Slice(t, a, b))
      BY <3>1
    <3>3. Within(RewrittenList(SplitTopLevelCSV(Slice(t, a, b))), t, a, b)
      BY WithinCsv
    <3>4. 0 <= a /\ b <= L
      BY <1>1
    <3>. HIDE DEF L
    <3>5. Within(RewrittenList(s.values), t, 0, L)
      BY <1>1, <3>2, <3>3, <3>4, WithinWide
    <3>. QED
      BY <2>2, <3>5
  <2>. QED
    BY <2>1, <2>2
<1>3. ASSUME NEW dialect PROVE Pieces(RenderStatement(s, dialect), t, ordered)
  <2>. DEFINE x == <<"INSERT INTO ">> \o QuoteIdentifierChain(s.table, dialect) \o <<"(">>
                   \o Csv([k \in DOMAIN s.columns |-> QuoteIdentifierChain(s.columns[k], dialect)])
                   \o <<")", "VALUES", "(">>
              y == <<")">> \o RenderConflict(s.conflict, dialect)
              V == <<Verbatim(x)>>
              W == <<Verbatim(y)>>
  <2>1. RenderStatement(s, dialect) = RenderInsert(s, dialect)
    BY DEF RenderStatement
  <2>2. RenderInsert(s, dialect) = V \o A \o W
    BY DEF RenderInsert
  <2>. HIDE DEF x, y, A, L
  <2>3. Within(V, t, 0, 0) /\ Within(W, t, L, L)
    BY <1>1, WithinVerbatim
  <2>. HIDE DEF V, W
  <2>4. Within(V \o A, t, 0, L)
    BY <1>2, <2>3, WithinConcat
  <2>5. Within(V \o A \o W, t, 0, L)
    BY <2>3, <2>4, WithinConcat
  <2>. QED
    BY <2>1, <2>2, <2>5, PiecesOf DEF L
<1>. QED
  BY <1>3 DEF Good

-----------------------------------------------------------------------------
(* UPDATE and DELETE.                                                      *)

AssignmentPieces(ss, list) ==
    /\ ss = [k \in DOMAIN list |-> ss[k]]
    /\ \A k \in DOMAIN list : \E v : ss[k] = <<Verbatim(v), Rewritten(list[k].value)>>

\* The values assigned are what follows the first "=" of each part of a list.
ValuesAfter(list, parts) ==
    /\ DOMAIN list = DOMAIN parts
    /\ \A k \in DOMAIN parts : \E i \in DOMAIN parts[k] : list[k].value = From(parts[k], i + 1)

LEMMA AssignmentsAre ==
    ASSUME NEW parts, \A k \in DOMAIN parts : IsSeq(parts[k]), Assignments(parts) # Error
    PROVE  ValuesAfter(Assignments(parts).list, parts)
<1>. DEFINE Equals(part) == {i \in DOMAIN part : part[i] = "="}
            First(k) == Min(Equals(parts[k]))
            list == [k \in DOMAIN parts |->
                        [column |-> StripIdentifier(Before(parts[k], First(k))), value |-> From(parts[k], First(k) + 1)]]
<1>1. (\A k \in DOMAIN parts : Equals(parts[k]) # {}) /\ Assignments(parts).list = list
  BY DEF Assignments
<1>2. ASSUME NEW k \in DOMAIN parts PROVE First(k) \in DOMAIN parts[k]
  <2>. DEFINE P == Equals(parts[k])
  <2>1. P \subseteq DOMAIN parts[k] /\ P # {}
    BY <1>1
  <2>2. P \subseteq Nat
    <3>1. Len(parts[k]) \in Nat /\ DOMAIN parts[k] = 1..Len(parts[k])
      BY SeqFacts
    <3>. HIDE DEF P
    <3>. QED
      BY <2>1, <3>1
  <2>. HIDE DEF P
  <2>3. Min(P) \in P
    <3>1. \E n \in P : \A m \in P : n <= m
      BY <2>1, <2>2, LeastPlace
    <3>. QED
      BY <3>1 DEF Min
  <2>. QED
    BY <2>1, <2>3 DEF P
<1>3. \A k \in DOMAIN parts : list[k].value = From(parts[k], First(k) + 1)
  OBVIOUS
<1>4. DOMAIN list = DOMAIN parts
  OBVIOUS
<1>. HIDE DEF list, First
<1>. QED
  BY <1>1, <1>2, <1>3, <1>4 DEF ValuesAfter

LEMMA AssignmentsCut ==
    ASSUME NEW u, IsSeq(u), NEW list, NEW parts, NEW n, NEW c, Cuts(parts, u, n, c), ValuesAfter(list, parts),
           NEW ss, AssignmentPieces(ss, list)
    PROVE  Within(FlattenSeq(ss), u, 0, Len(u))
<1>. DEFINE L == Len(u)
            d == [k \in 0..n |-> IF k = 0 THEN 0 ELSE c[k] - 1]
<1>1. /\ L \in Nat /\ n \in Nat /\ n # 0 /\ c \in [0..n -> 0..(L + 1)] /\ c[0] = 0 /\ c[n] = L + 1
      /\ \A i, j \in 0..n : i < j => c[i] < c[j]
      /\ \A k \in 1..n : parts[k] = Slice(u, c[k - 1], c[k] - 1)
      /\ DOMAIN parts = 1..n
  BY SeqFacts DEF Cuts
<1>. HIDE DEF L
<1>2. \A k \in 1..n : /\ k \in 0..n /\ k - 1 \in 0..n /\ c[k - 1] < c[k] /\ c[k] \in 0..(L + 1) /\ c[k - 1] \in 0..(L + 1)
                      /\ k # 0
  BY <1>1
<1>3. \A k \in 1..n : d[k] = c[k] - 1 /\ d[k - 1] \in Int /\ d[k] \in Int /\ d[k - 1] <= c[k - 1] /\ d[k - 1] <= d[k]
  <2>. SUFFICES ASSUME NEW k \in 1..n
                PROVE d[k] = c[k] - 1 /\ d[k - 1] \in Int /\ d[k] \in Int /\ d[k - 1] <= c[k - 1] /\ d[k - 1] <= d[k]
    OBVIOUS
  <2>1. k \in 0..n /\ k - 1 \in 0..n /\ k # 0 /\ c[k - 1] < c[k] /\ c[k] \in Nat /\ c[k - 1] \in Nat
    BY <1>1, <1>2
  <2>2. d[k] = c[k] - 1 /\ d[k - 1] = IF k - 1 = 0 THEN 0 ELSE c[k - 1] - 1
    BY <2>1
  <2>. HIDE DEF d
  <2>. QED
    BY <2>1, <2>2
<1>4. d \in [0..n -> Int]
  BY <1>1
<1>5. d[0] = 0 /\ d[n] = L
  BY <1>1
<1>. HIDE DEF d
<1>6. ASSUME NEW k \in 1..n PROVE Within(ss[k], u, d[k - 1], d[k])
  <2>. DEFINE p == c[k - 1]
              q == c[k] - 1
              part == Slice(u, p, q)
  <2>1. p \in 0..Len(u) /\ q \in p..Len(u) /\ p \in Nat /\ q \in Nat
    BY <1>1, <1>2 DEF L
  <2>2. PICK i \in DOMAIN part : list[k].value = From(part, i + 1)
    BY <1>1 DEF ValuesAfter
  <2>3. PICK v : ss[k] = <<Verbatim(v), Rewritten(list[k].value)>>
    BY <1>1 DEF AssignmentPieces, ValuesAfter
  <2>4. d[k - 1] \in Int /\ d[k] \in Int /\ d[k - 1] <= p /\ d[k] = q
    BY <1>3
  <2>. HIDE DEF p, q
  <2>5. IsSeq(part) /\ Len(part) = q - p
    BY <2>1, SliceFacts
  <2>6. i \in 1..(q - p) /\ i \in 0..(q - p) /\ q - p \in i..(q - p) /\ i + 1 \in 1..(q - p + 1) /\ (i + 1) - 1 = i
        /\ p + (q - p) = q
    <3>1. i \in 1..(q - p)
      BY <2>5, SeqFacts
    <3>. QED
      BY <2>1, <3>1
  <2>7. From(part, i + 1) = Slice(part, i, q - p)
    <3>1. From(part, i + 1) = Slice(part, (i + 1) - 1, Len(part))
      BY <2>5, <2>6, TextParts
    <3>. QED
      BY <2>5, <2>6, <3>1
  <2>8. Slice(part, i, q - p) = Slice(u, p + i, p + (q - p))
    BY <2>1, <2>6, SliceOfSlice
  <2>9. list[k].value = Slice(u, p + i, q)
    BY <2>2, <2>6, <2>7, <2>8
  <2>10. p + i \in d[k - 1]..d[k] /\ q \in (p + i)..d[k]
    BY <2>1, <2>4, <2>6
  <2>11. Within(<<Verbatim(v), Rewritten(Slice(u, p + i, q))>>, u, d[k - 1], d[k])
    BY <2>4, <2>10, WithinPair
  <2>. QED
    BY <2>3, <2>9, <2>11
<1>7. ss = [k \in 1..n |-> ss[k]]
  <2>1. DOMAIN list = 1..n
    BY <1>1 DEF ValuesAfter
  <2>. QED
    BY <2>1 DEF AssignmentPieces
<1>8. \A k \in 1..n : IsSeq(ss[k]) /\ Follow(ss[k], u, d[k - 1], d[k]) /\ d[k - 1] <= d[k]
  BY <1>6 DEF Within
<1>9. IsSeq(FlattenSeq(ss)) /\ Follow(FlattenSeq(ss), u, d[0], d[n])
  BY <1>1, <1>4, <1>7, <1>8, FollowFlatten
<1>. QED
  BY <1>1, <1>5, <1>9 DEF Within, L

\* The assignments of an UPDATE come from one part of the text, WHERE after it.
UpdateOfText(s, t) ==
    /\ s.type = "update"
    /\ \E p, q, d \in 0..Len(t) :
          /\ p <= q /\ q <= d
          /\ ParseAssignments(Slice(t, p, q)) # Error /\ s.assignments = ParseAssignments(Slice(t, p, q)).list
          /\ s.where = Absent \/ s.where = Slice(t, d, Len(t))

LEMMA UpdateExtracted ==
    ASSUME NEW t, IsSeq(t), NEW s, s = ExtractUpdateParts(t)
    PROVE  s = [type |-> "no SET"] \/ s = Error \/ UpdateOfText(s, t)
<1>. DEFINE L == Len(t)
            setIdx == FindTopLevelKeyword(t, " SET ")
            afterSet == From(t, setIdx + 1)
            table == StripIdentifier(Before(t, setIdx))
            whereIdx == FindTopLevelKeyword(afterSet, " WHERE ")
            text == IF whereIdx = 0 THEN afterSet ELSE Before(afterSet, whereIdx)
            where == IF whereIdx = 0 THEN Absent ELSE From(afterSet, whereIdx + 1)
<1>1. s = [type |-> "no SET"] \/ s = UpdateOf(table, ParseAssignments(text), where)
  BY DEF ExtractUpdateParts, UpdateParts
<1>2. L \in Nat /\ setIdx \in 0..L
  BY SeqFacts, KeywordPlace
<1>. HIDE DEF L, setIdx, table
<1>3. setIdx + 1 \in 1..(L + 1) /\ (setIdx + 1) - 1 = setIdx /\ setIdx \in Nat /\ setIdx <= L
  BY <1>2
<1>4. afterSet = Slice(t, setIdx, L)
  <2>1. From(t, setIdx + 1) = Slice(t, (setIdx + 1) - 1, L)
    BY <1>3, TextParts DEF L
  <2>. QED
    BY <1>3, <2>1
<1>. HIDE DEF afterSet
<1>5. Suffix(afterSet, t, setIdx)
  BY <1>2, <1>4, SuffixIs DEF L
<1>6. whereIdx \in 0..(L - setIdx)
  BY <1>5, KeywordPlace DEF Suffix, L
<1>. HIDE DEF whereIdx
<1>7. PICK q, d \in 0..L : /\ setIdx <= q /\ q <= d /\ text = Slice(t, setIdx, q)
                           /\ where = Absent \/ where = Slice(t, d, L)
  <2>1. CASE whereIdx = 0
    <3>1. text = Slice(t, setIdx, L) /\ where = Absent /\ L \in 0..L /\ L <= L
      BY <1>2, <1>4, <2>1
    <3>. QED
      BY <1>3, <3>1
  <2>2. CASE whereIdx # 0
    <3>1. whereIdx \in 1..(L - setIdx + 1) /\ whereIdx + 1 \in 1..(L - setIdx + 1) /\ whereIdx \in Nat
      BY <1>2, <1>3, <1>6, <2>2
    <3>2. /\ Before(afterSet, whereIdx) = Slice(t, setIdx, setIdx + whereIdx - 1)
          /\ From(afterSet, whereIdx + 1) = Slice(t, setIdx + (whereIdx + 1) - 1, L)
      BY <1>5, <3>1 DEF Suffix, L
    <3>. DEFINE q == setIdx + whereIdx - 1
                d == setIdx + (whereIdx + 1) - 1
    <3>3. q \in 0..L /\ d \in 0..L /\ setIdx <= q /\ q <= d
      BY <1>2, <1>3, <1>6, <2>2, <3>1
    <3>. HIDE DEF q, d
    <3>4. text = Slice(t, setIdx, q) /\ where = Slice(t, d, L)
      BY <2>2, <3>2 DEF q, d
    <3>. QED
      BY <3>3, <3>4
  <2>. QED
    BY <2>1, <2>2
<1>. HIDE DEF text, where
<1>8. CASE s = UpdateOf(table, ParseAssignments(text), where) /\ ParseAssignments(text) # Error
  <2>1. /\ s.type = "update" /\ s.assignments = ParseAssignments(text).list /\ s.where = where
    BY <1>8 DEF UpdateOf
  <2>. QED
    BY <1>2, <1>7, <1>8, <2>1 DEF UpdateOfText, L
<1>9. CASE s = UpdateOf(table, ParseAssignments(text), where) /\ ParseAssignments(text) = Error
  BY <1>9 DEF UpdateOf
<1>. QED
  BY <1>1, <1>8, <1>9

\* A condition that is what remains of the text.
LEMMA WhereWithin ==
    ASSUME NEW t, IsSeq(t), NEW d \in 0..Len(t), NEW p \in 0..d, NEW where, where = Absent \/ where = Slice(t, d, Len(t))
    PROVE  Within(OptionalClause(" WHERE ", <<Rewritten(where)>>, where), t, p, Len(t))
<1>. DEFINE L == Len(t)
<1>1. L \in Nat /\ p \in Int /\ L \in Int /\ p <= L /\ d \in p..L /\ L \in d..L
  BY SeqFacts
<1>2. where # Absent => Within(<<Rewritten(where)>>, t, p, L)
  <2>1. Within(<<Rewritten(Slice(t, d, L))>>, t, p, L)
    BY <1>1, WithinRaw
  <2>. QED
    BY <2>1
<1>. QED
  BY <1>1, <1>2, WithinClause

LEMMA UpdateGood ==
    ASSUME NEW t, IsSeq(t), NEW s, UpdateOfText(s, t), NEW ordered
    PROVE  Good(s, t, ordered)
<1>. DEFINE L == Len(t)
            list == s.assignments
            D == OptionalClause(" WHERE ", <<Rewritten(s.where)>>, s.where)
<1>1. PICK p, q, d \in 0..L :
        /\ p <= q /\ q <= d
        /\ ParseAssignments(Slice(t, p, q)) # Error /\ list = ParseAssignments(Slice(t, p, q)).list
        /\ s.where = Absent \/ s.where = Slice(t, d, L)
  BY DEF UpdateOfText
<1>2. L \in Nat /\ p \in 0..Len(t) /\ q \in p..Len(t) /\ q \in 0..d /\ 0 \in Int /\ 0 <= p /\ q <= q
      /\ q \in Int /\ p \in Int /\ 0 <= 0
  <2>1. L \in Nat
    BY SeqFacts
  <2>. HIDE DEF L
  <2>2. p \in 0..L /\ q \in p..L /\ q \in 0..d /\ 0 <= p /\ q \in Int /\ p \in Int
    BY <1>1, <2>1
  <2>. QED
    BY <2>1, <2>2 DEF L
<1>. DEFINE u == Slice(t, p, q)
            parts == SplitTopLevelCSV(u)
<1>3. IsSeq(u) /\ Len(u) = q - p
  BY <1>2, SliceFacts
<1>4. Assignments(parts) # Error /\ list = Assignments(parts).list
  BY <1>1 DEF ParseAssignments
<1>. HIDE DEF u, list
<1>5. PICK n, c : Cuts(parts, u, n, c)
  BY <1>3, SplitIs
<1>6. ValuesAfter(list, parts)
  <2>1. Len(u) \in Nat /\ n \in Nat /\ c \in [0..n -> 0..(Len(u) + 1)] /\ DOMAIN parts = 1..n
        /\ \A i, j \in 0..n : i < j => c[i] < c[j]
        /\ \A k \in 1..n : parts[k] = Slice(u, c[k - 1], c[k] - 1)
    BY <1>3, <1>5, SeqFacts DEF Cuts
  <2>2. \A k \in DOMAIN parts : IsSeq(parts[k])
    <3>. SUFFICES ASSUME NEW k \in 1..n PROVE IsSeq(parts[k])
      BY <2>1
    <3>. DEFINE x == c[k - 1]
                y == c[k] - 1
    <3>0. k - 1 \in 0..n /\ k \in 0..n /\ k - 1 < k
      BY <2>1
    <3>00. c[k - 1] < c[k] /\ c[k - 1] \in 0..(Len(u) + 1) /\ c[k] \in 0..(Len(u) + 1)
      BY <2>1, <3>0
    <3>1. x \in 0..Len(u) /\ y \in x..Len(u)
      BY <2>1, <3>00
    <3>2. parts[k] = Slice(u, x, y)
      BY <2>1
    <3>. HIDE DEF x, y
    <3>. QED
      BY <1>3, <3>1, <3>2, SliceFacts
  <2>. HIDE DEF parts
  <2>. QED
    BY <1>4, <2>2, AssignmentsAre
<1>7. ASSUME NEW dialect PROVE Pieces(RenderStatement(s, dialect), t, ordered)
  <2>. DEFINE Name(k) == (IF k = 1 THEN << >> ELSE <<",">>) \o QuoteIdentifierChain(list[k].column, dialect) \o <<"=">>
              ss == [k \in DOMAIN list |-> <<Verbatim(Name(k)), Rewritten(list[k].value)>>]
              F == FlattenSeq(ss)
              V == <<Verbatim(<<"UPDATE ">> \o QuoteIdentifierChain(s.table, dialect) \o <<" SET ">>)>>
  <2>1. RenderStatement(s, dialect) = RenderUpdate(s, dialect)
    BY DEF RenderStatement, UpdateOfText
  <2>2. RenderUpdate(s, dialect) = V \o F \o D
    BY DEF RenderUpdate, list
  <2>3. Within(V, t, 0, p)
    BY <1>2, WithinVerbatim
  <2>. HIDE DEF Name, D, V
  <2>4. AssignmentPieces(ss, list)
    BY DEF AssignmentPieces
  <2>. HIDE DEF ss
  <2>5. Within(F, u, 0, q - p)
    BY <1>3, <1>5, <1>6, <2>4, AssignmentsCut
  <2>6. Within(F, t, p, q)
    BY <1>2, <2>5, WithinInside DEF u
  <2>7. Within(D, t, q, L)
    BY <1>1, <1>2, WhereWithin DEF D
  <2>. HIDE DEF F, L
  <2>8. Within(V \o F, t, 0, q)
    BY <2>3, <2>6, WithinConcat
  <2>9. Within(V \o F \o D, t, 0, L)
    BY <2>7, <2>8, WithinConcat
  <2>. QED
    BY <2>1, <2>2, <2>9, PiecesOf DEF L
<1>8. s.type = "update"
  BY DEF UpdateOfText
<1>. QED
  BY <1>7, <1>8 DEF Good

LEMMA DeleteGood ==
    ASSUME NEW t, IsSeq(t), NEW ordered
    PROVE  Good(ExtractDeleteParts(t), t, ordered)
<1>. DEFINE L == Len(t)
            s == ExtractDeleteParts(t)
            i == FindTopLevelKeyword(t, " WHERE ")
            D == OptionalClause(" WHERE ", <<Rewritten(s.where)>>, s.where)
<1>1. s.type = "delete" /\ s.where = IF i = 0 THEN Absent ELSE From(t, i + 1)
  BY DEF ExtractDeleteParts
<1>2. L \in Nat /\ i \in 0..L
  BY SeqFacts, KeywordPlace
<1>. HIDE DEF s, i
<1>3. s.where = Absent \/ s.where = Slice(t, i, L)
  <2>1. i + 1 \in 1..(L + 1) /\ (i + 1) - 1 = i
    BY <1>2
  <2>2. From(t, i + 1) = Slice(t, (i + 1) - 1, L)
    BY <2>1, TextParts
  <2>. QED
    BY <1>1, <2>1, <2>2
<1>4. 0 \in 0..i /\ i \in 0..Len(t) /\ 0 \in Int /\ 0 <= 0
  BY <1>2
<1>5. Within(D, t, 0, L)
  BY <1>3, <1>4, WhereWithin
<1>6. ASSUME NEW dialect PROVE Pieces(RenderStatement(s, dialect), t, ordered)
  <2>. DEFINE V == <<Verbatim(<<"DELETE FROM ">> \o QuoteIdentifierChain(s.table, dialect))>>
  <2>1. RenderStatement(s, dialect) = RenderDelete(s, dialect)
    BY <1>1 DEF RenderStatement
  <2>2. RenderDelete(s, dialect) = V \o D
    BY DEF RenderDelete
  <2>3. Within(V, t, 0, 0)
    BY <1>4, WithinVerbatim
  <2>. HIDE DEF V, D
  <2>4. Within(V \o D, t, 0, L)
    BY <1>5, <2>3, WithinConcat
  <2>. QED
    BY <2>1, <2>2, <2>4, PiecesOf
<1>. QED
  BY <1>1, <1>6 DEF Good, s

-----------------------------------------------------------------------------
(* The text of a statement, and what is left of it without its verb.       *)

LEMMA MarksOfChain ==
    ASSUME NEW s, NEW u, NEW r, IsSeq(s), IsSeq(u), Chained(s, u, r)
    PROVE  Marks(r, Len(r)) = Marks(s, Len(s)) + Marks(u, Len(u))
<1>. DEFINE m == Len(s)
            n == Len(u)
            q == m + n
            v == Slice(r, m, q)
<1>1. m \in Nat /\ n \in Nat /\ IsSeq(r) /\ Len(r) = q /\ m \in 0..q /\ q \in m..q /\ q - m = n
  <2>1. m \in Nat /\ n \in Nat
    BY SeqFacts
  <2>2. IsSeq(r) /\ Len(r) = m + n
    BY DEF Chained
  <2>. QED
    BY <2>1, <2>2
<1>2. (\A k \in 1..m : r[k] = s[k]) /\ (\A k \in 1..n : r[m + k] = u[k])
  BY DEF Chained
<1>. HIDE DEF m, n, q
<1>3. IsSeq(v) /\ Len(v) = n /\ \A i \in 1..n : v[i] = r[m + i]
  BY <1>1, SliceFacts
<1>. HIDE DEF v
<1>4. v = u
  BY <1>2, <1>3, SameSeq DEF n
<1>5. Marks(r, q) = Marks(r, m) + Marks(v, q - m)
  BY <1>1, MarksOfSlice DEF v
<1>6. Marks(r, m) = Marks(s, m)
  <2>1. {i \in 1..m : r[i] = "?"} = {i \in 1..m : s[i] = "?"}
    BY <1>2
  <2>. QED
    BY <2>1 DEF Marks
<1>. QED
  BY <1>1, <1>4, <1>5, <1>6 DEF m, n, q

LEMMA NoMarks ==
    Marks(<< >>, Len(<< >>)) = 0 /\ \A x : x # "?" => Marks(<<x>>, Len(<<x>>)) = 0
<1>1. Len(<< >>) = 0 /\ 1..0 = {}
  OBVIOUS
<1>2. {i \in 1..0 : << >>[i] = "?"} = {}
  BY <1>1
<1>3. ASSUME NEW x, x # "?" PROVE Marks(<<x>>, Len(<<x>>)) = 0
  <2>1. Len(<<x>>) = 1 /\ <<x>>[1] = x /\ \A i \in 1..1 : i = 1
    BY One
  <2>2. {i \in 1..1 : <<x>>[i] = "?"} = {}
    BY <1>3, <2>1
  <2>. QED
    BY <2>1, <2>2, FS_EmptySet DEF Marks
<1>. QED
  BY <1>1, <1>2, <1>3, FS_EmptySet DEF Marks

LEMMA BodyFacts ==
    ASSUME NEW s, IsStatement(s)
    PROVE  /\ IsSeq(SourceText(s)) /\ IsSeq(Body(s))
           /\ Marks(Body(s), Len(Body(s))) <= Marks(SourceText(s), Len(SourceText(s)))
<1>. DEFINE t == SourceText(s)
            u == Tail(t)
            L == Len(t)
            prefix == CASE s.type = "insert" /\ s.verb = "INSERT IGNORE INTO " -> <<"E INTO ">>
                        [] s.type = "update" /\ s.verb = "UPDATE IGNORE "      -> <<"IGNORE ">>
                        [] s.type = "delete" /\ s.verb = "DELETE QUICK FROM "  -> <<"FROM ">>
                        [] OTHER -> << >>
            r == Body(s)
<1>1. IsSeq(t) /\ t # << >>
  BY DEF IsStatement, IsSeq
<1>2. r = prefix \o u
  BY DEF Body
<1>3. prefix = << >> \/ \E x : x # "?" /\ prefix = <<x>>
  OBVIOUS
<1>. HIDE DEF t, r, prefix
<1>4. L \in Nat /\ L > 0 /\ u = Slice(t, 1, L) /\ 1 \in 0..L /\ L \in 1..L
  <2>1. L \in Nat /\ L > 0 /\ u = Slice(t, 1, L)
    BY <1>1, SeqFacts, TextParts
  <2>. QED
    BY <2>1
<1>. HIDE DEF u
<1>5. IsSeq(u) /\ Len(u) = L - 1
  BY <1>1, <1>4, SliceFacts
<1>6. IsSeq(prefix) /\ Marks(prefix, Len(prefix)) = 0
  <2>1. CASE prefix = << >>
    BY <2>1, NoMarks, FollowEmpty
  <2>2. CASE prefix # << >>
    <3>1. PICK x : x # "?" /\ prefix = <<x>>
      BY <1>3, <2>2
    <3>. QED
      BY <3>1, NoMarks, One
  <2>. QED
    BY <2>1, <2>2
<1>7. Chained(prefix, u, r)
  BY <1>2, <1>5, <1>6, ConcatIs
<1>8. Marks(r, Len(r)) = Marks(prefix, Len(prefix)) + Marks(u, Len(u))
  BY <1>5, <1>6, <1>7, MarksOfChain
<1>9. Marks(t, L) = Marks(t, 1) + Marks(u, L - 1)
  BY <1>1, <1>4, MarksOfSlice
<1>. HIDE DEF L
<1>10. Marks(t, 1) \in Nat /\ Marks(u, L - 1) \in Nat
  <2>1. 1 \in Nat /\ L - 1 \in Nat /\ L - 1 <= L - 1 /\ 1 <= 1
    BY <1>4
  <2>. QED
    BY <2>1, MarksFacts
<1>11. Marks(r, Len(r)) <= Marks(t, L)
  BY <1>5, <1>6, <1>8, <1>9, <1>10
<1>. QED
  BY <1>1, <1>7, <1>11 DEF t, r, L, Chained

-----------------------------------------------------------------------------
(* What the TiDB path and the legacy parsers make of a statement.          *)

GoodOf(r, s) == \E text \in {SourceText(s), Body(s)} : Good(r, text, ClausesInOrder(s))

LEMMA SelectOrder ==
    ASSUME NEW s, s.type = "select"
    PROVE  ClausesInOrder(s) = InOrder(Body(s))
  BY DEF ClausesInOrder, InOrder

LEMMA RawGoodOf ==
    ASSUME NEW s, IsStatement(s)
    PROVE  GoodOf(Raw(SourceText(s)), s)
  BY BodyFacts, RawGood DEF GoodOf

LEMMA ErrorGoodOf ==
    ASSUME NEW s
    PROVE  GoodOf(Error, s)
  BY DEF GoodOf, Good

LEMMA TiDBGood ==
    ASSUME NEW s, IsStatement(s)
    PROVE  GoodOf(NormalizeTiDB(s), s)
<1>. DEFINE t == Body(s)
            r == NormalizeTiDB(s)
<1>1. IsSeq(t)
  BY BodyFacts
<1>2. s.type \in {"select", "insert", "update", "delete", "composed"}
  BY DEF IsStatement
<1>3. CASE s.type = "select"
  <2>1. r = NormalizeTiDBSelect(s)
    BY <1>3 DEF NormalizeTiDB
  <2>2. Good(NormalizeTiDBSelect(s), t, InOrder(t))
    BY <1>1, TiDBSelectGood
  <2>3. ClausesInOrder(s) = InOrder(t)
    BY <1>3, SelectOrder
  <2>. QED
    BY <2>1, <2>2, <2>3 DEF GoodOf
<1>4. CASE s.type = "insert"
  <2>. DEFINE parts == ExtractInsertParts(t)
  <2>1. r = TiDBInsert(s, parts)
    BY <1>4 DEF NormalizeTiDB, NormalizeTiDBInsert
  <2>2. CASE parts.type # "insert"
    BY <2>1, <2>2, ErrorGoodOf DEF TiDBInsert
  <2>3. CASE parts.type = "insert"
    <3>1. r.type = "insert" /\ r.values = parts.values
      BY <2>1, <2>3 DEF TiDBInsert
    <3>2. RowOfText(parts.values, t)
      BY <1>1, <2>3, InsertExtracted
    <3>. HIDE DEF r, t
    <3>3. Good(r, t, ClausesInOrder(s))
      BY <1>1, <3>1, <3>2, InsertGood
    <3>. QED
      BY <3>3 DEF GoodOf, r, t
  <2>. QED
    BY <2>2, <2>3
<1>5. CASE s.type = "update"
  <2>. DEFINE u == ExtractUpdateParts(t)
  <2>1. r = IF u.type = "update" THEN u ELSE Error
    BY <1>5 DEF NormalizeTiDB, NormalizeTiDBUpdate
  <2>2. u = [type |-> "no SET"] \/ u = Error \/ UpdateOfText(u, t)
    BY <1>1, UpdateExtracted
  <2>. HIDE DEF u, t, r
  <2>3. r = Error \/ (r = u /\ UpdateOfText(u, t))
    <3>1. CASE u = [type |-> "no SET"]
      BY <2>1, <3>1
    <3>2. CASE u = Error
      BY <2>1, <3>2
    <3>3. CASE UpdateOfText(u, t)
      BY <2>1, <3>3
    <3>. QED
      BY <2>2, <3>1, <3>2, <3>3
  <2>4. CASE r = Error
    BY <2>4, ErrorGoodOf DEF r
  <2>5. CASE r = u /\ UpdateOfText(u, t)
    <3>1. Good(r, t, ClausesInOrder(s))
      BY <1>1, <2>5, UpdateGood
    <3>. QED
      BY <3>1 DEF GoodOf, r, t
  <2>. QED
    BY <2>3, <2>4, <2>5
<1>6. CASE s.type = "delete"
  <2>1. r = ExtractDeleteParts(t)
    BY <1>6 DEF NormalizeTiDB
  <2>2. Good(ExtractDeleteParts(t), t, ClausesInOrder(s))
    BY <1>1, DeleteGood
  <2>. QED
    BY <2>1, <2>2 DEF GoodOf
<1>7. CASE s.type = "composed"
  <2>1. r = Raw(SourceText(s))
    BY <1>7 DEF NormalizeTiDB
  <2>. QED
    BY <2>1, RawGoodOf
<1>. QED
  BY <1>2, <1>3, <1>4, <1>5, <1>6, <1>7

LEMMA LegacyGood ==
    ASSUME NEW s, IsStatement(s)
    PROVE  GoodOf(LegacyParse(s), s)
<1>. DEFINE t == Body(s)
            r == LegacyParse(s)
<1>1. IsSeq(t)
  BY BodyFacts
<1>2. \/ s.type = "select" /\ r = ParseSelect(s)
      \/ s.type = "insert" /\ r = ParseInsert(s)
      \/ s.type = "update" /\ r = ParseUpdate(s)
      \/ s.type = "delete" /\ r = ExtractDeleteParts(t)
      \/ r = Raw(SourceText(s))
  BY DEF LegacyParse
<1>3. CASE s.type = "select" /\ r = ParseSelect(s)
  <2>1. ParseSelect(s) = Raw(SourceText(s)) \/ Good(ParseSelect(s), t, InOrder(t))
    BY <1>1, LegacySelectGood
  <2>2. ClausesInOrder(s) = InOrder(t)
    BY <1>3, SelectOrder
  <2>3. CASE ParseSelect(s) = Raw(SourceText(s))
    BY <1>3, <2>3, RawGoodOf
  <2>4. CASE Good(ParseSelect(s), t, InOrder(t))
    BY <1>3, <2>2, <2>4 DEF GoodOf
  <2>. QED
    BY <2>1, <2>3, <2>4
<1>4. CASE s.type = "insert" /\ r = ParseInsert(s)
  <2>. DEFINE parts == ExtractInsertParts(t)
              conflict == ParseConflict(parts.rest, parts.columns, s.dialect)
  <2>1. r = Raw(SourceText(s)) \/ r = Error \/ (parts.type = "insert" /\ r = WithConflict(parts, conflict))
    <3>1. parts.type \in {"columnless", "error", "insert"}
      BY PartsTypes
    <3>. HIDE DEF parts
    <3>. QED
      BY <1>4, <3>1 DEF ParseInsert, InsertOf, parts
  <2>2. CASE r = Raw(SourceText(s))
    BY <2>2, RawGoodOf
  <2>4. CASE r = Error
    BY <2>4, ErrorGoodOf
  <2>3. CASE parts.type = "insert" /\ r = WithConflict(parts, conflict)
    <3>1. RowOfText(parts.values, t)
      BY <1>1, <2>3, InsertExtracted
    <3>. HIDE DEF parts, conflict, t
    <3>2. r = Error \/ (r.type = "insert" /\ r.values = parts.values)
      <4>. HIDE DEF r
      <4>. QED
        BY <2>3 DEF WithConflict
    <3>3. CASE r = Error
      BY <3>3, ErrorGoodOf
    <3>4. CASE r.type = "insert" /\ r.values = parts.values
      <4>. HIDE DEF r
      <4>1. Good(r, t, ClausesInOrder(s))
        BY <1>1, <3>1, <3>4, InsertGood
      <4>. QED
        BY <4>1 DEF GoodOf, r, t
    <3>. QED
      BY <3>2, <3>3, <3>4
  <2>. QED
    BY <2>1, <2>2, <2>3, <2>4
<1>5. CASE s.type = "update" /\ r = ParseUpdate(s)
  <2>. DEFINE u == ExtractUpdateParts(t)
  <2>1. r = IF u.type = "no SET" THEN Raw(SourceText(s)) ELSE u
    BY <1>5 DEF ParseUpdate
  <2>2. u = [type |-> "no SET"] \/ u = Error \/ UpdateOfText(u, t)
    BY <1>1, UpdateExtracted
  <2>. HIDE DEF u, t, r
  <2>3. r = Raw(SourceText(s)) \/ r = Error \/ (r = u /\ UpdateOfText(u, t))
    <3>. DEFINE noSet == "no SET"
    <3>1. (u.type = noSet => r = Raw(SourceText(s))) /\ (u.type # noSet => r = u)
      BY <2>1
    <3>2. u = [type |-> noSet] \/ u = Error \/ UpdateOfText(u, t)
      BY <2>2
    <3>. HIDE DEF noSet
    <3>. QED
      BY <3>1, <3>2
  <2>4. CASE r = Raw(SourceText(s))
    BY <2>4, RawGoodOf DEF r
  <2>5. CASE r = Error
    BY <2>5, ErrorGoodOf DEF r
  <2>6. CASE r = u /\ UpdateOfText(u, t)
    <3>1. Good(r, t, ClausesInOrder(s))
      BY <1>1, <2>6, UpdateGood
    <3>. QED
      BY <3>1 DEF GoodOf, r, t
  <2>. QED
    BY <2>3, <2>4, <2>5, <2>6
<1>6. CASE s.type = "delete" /\ r = ExtractDeleteParts(t)
  <2>1. Good(ExtractDeleteParts(t), t, ClausesInOrder(s))
    BY <1>1, DeleteGood
  <2>. QED
    BY <1>6, <2>1 DEF GoodOf
<1>7. CASE r = Raw(SourceText(s))
  BY <1>7, RawGoodOf
<1>. QED
  BY <1>2, <1>3, <1>4, <1>5, <1>6, <1>7

-----------------------------------------------------------------------------
(* The invariant: what is still to be rendered is of one text, and no      *)
(* marker of that text before it has been left out of the count.           *)

\* The markers of a text up to a place, if the target numbers them.
Counted(text, p) == IF Numbered(to) THEN Marks(text, p) ELSE 0

\* What is rendered so far comes before place p, what is not after it.
Reached(text, p) ==
    p \in 0..Len(text) /\ Within(todo, text, p, Len(text)) /\ placeholder <= Counted(text, p)

RestOf(text) == Scraps(todo, text) /\ (ClausesInOrder(stmt) => \E p : Reached(text, p))

PiecesInOrder == pc = "render" => \E text \in {SourceText(stmt), Body(stmt)} : RestOf(text)

IInv == TypeOK /\ stmt \in Statements /\ PiecesInOrder

LEMMA CountedFacts ==
    ASSUME NEW text, NEW p \in Nat, NEW q \in Nat, p <= q
    PROVE  /\ Counted(text, p) \in Nat /\ Counted(text, q) \in Nat /\ Counted(text, p) <= Counted(text, q)
<1>1. Marks(text, p) \in Nat /\ Marks(text, q) \in Nat /\ Marks(text, p) <= Marks(text, q)
  <2>. DEFINE between == Cardinality({i \in (p + 1)..q : text[i] = "?"})
  <2>1. Marks(text, p) \in Nat /\ Marks(text, q) \in Nat /\ between \in Nat /\ Marks(text, q) = Marks(text, p) + between
    BY MarksFacts
  <2>. HIDE DEF between
  <2>. QED
    BY <2>1
<1>. QED
  BY <1>1 DEF Counted

LEMMA MarkersAre ==
    ASSUME NEW text, IsSeq(text)
    PROVE  MarkersIn(text, to) = Counted(text, Len(text)) /\ MarkersIn(text, to) \in Nat
<1>1. Len(text) \in Nat /\ DOMAIN text = 1..Len(text) /\ Len(text) <= Len(text)
  BY SeqFacts
<1>2. {i \in DOMAIN text : text[i] = "?"} = {i \in 1..Len(text) : text[i] = "?"}
  BY <1>1
<1>3. MarkersIn(text, to) = Counted(text, Len(text))
  BY <1>2 DEF MarkersIn, Counted, Marks
<1>. QED
  BY <1>1, <1>3, CountedFacts

LEMMA CountedPiece ==
    ASSUME NEW text, IsSeq(text), NEW a \in 0..Len(text), NEW b \in a..Len(text)
    PROVE  Counted(text, b) = Counted(text, a) + MarkersIn(Slice(text, a, b), to)
<1>. DEFINE s == Slice(text, a, b)
<1>1. IsSeq(s) /\ Len(s) = b - a
  BY SliceFacts
<1>2. Marks(text, b) = Marks(text, a) + Marks(s, b - a)
  BY MarksOfSlice
<1>. HIDE DEF s
<1>3. MarkersIn(s, to) = Counted(s, b - a)
  BY <1>1, MarkersAre
<1>. QED
  BY <1>2, <1>3 DEF Counted, s

\* Where all question marks are markers, they are as many.
LEMMA MarkersBound ==
    ASSUME NEW text, IsSeq(text), NEW n \in Nat, n <= MarkersIn(text, to)
    PROVE  OnlyMarkers(text) => n <= Cardinality(Markers(text))
<1>. SUFFICES ASSUME OnlyMarkers(text) PROVE n <= Cardinality(Markers(text))
  OBVIOUS
<1>. DEFINE Q == {i \in DOMAIN text : text[i] = "?"}
<1>1. Markers(text) = Q
  <2>1. Markers(text) \subseteq Q
    BY DEF Markers, CodePlaces
  <2>. QED
    BY <2>1 DEF OnlyMarkers
<1>2. Cardinality(Q) \in Nat
  <2>1. IsFiniteSet(1..Len(text)) /\ DOMAIN text = 1..Len(text)
    BY SeqFacts, FS_Interval
  <2>2. Q \subseteq 1..Len(text)
    BY <2>1
  <2>. HIDE DEF Q
  <2>. QED
    BY <2>1, <2>2, FS_Subset, FS_CardinalityType
<1>3. MarkersIn(text, to) = Cardinality(Q) \/ MarkersIn(text, to) = 0
  BY DEF MarkersIn
<1>. HIDE DEF Q
<1>. QED
  BY <1>1, <1>2, <1>3

\* The markers of either text are at most those of the statement.
LEMMA CountedBound ==
    ASSUME IsStatement(stmt), NEW text \in {SourceText(stmt), Body(stmt)}
    PROVE  /\ IsSeq(text)
           /\ \A p \in 0..Len(text) : Counted(text, p) <= MarkersIn(SourceText(stmt), to)
<1>. DEFINE t == SourceText(stmt)
<1>1. IsSeq(t) /\ IsSeq(text) /\ Marks(text, Len(text)) <= Marks(t, Len(t))
  <2>1. IsSeq(t) /\ IsSeq(Body(stmt)) /\ Marks(Body(stmt), Len(Body(stmt))) <= Marks(t, Len(t))
    BY BodyFacts
  <2>2. Len(t) \in Nat /\ Len(t) <= Len(t)
    BY <2>1, SeqFacts
  <2>3. Marks(t, Len(t)) \in Nat
    BY <2>2, MarksFacts
  <2>4. Marks(t, Len(t)) <= Marks(t, Len(t))
    BY <2>3
  <2>. QED
    BY <2>1, <2>4
<1>2. ASSUME NEW p \in 0..Len(text) PROVE Counted(text, p) <= MarkersIn(t, to)
  <2>1. p \in Nat /\ Len(text) \in Nat /\ p <= Len(text)
    BY <1>1, SeqFacts
  <2>2. Counted(text, p) \in Nat /\ Counted(text, Len(text)) \in Nat /\ Counted(text, p) <= Counted(text, Len(text))
    BY <2>1, CountedFacts
  <2>3. MarkersIn(t, to) = Counted(t, Len(t)) /\ MarkersIn(t, to) \in Nat
    BY <1>1, MarkersAre
  <2>4. Counted(text, Len(text)) <= Counted(t, Len(t))
    BY <1>1 DEF Counted
  <2>. HIDE DEF t
  <2>. QED
    BY <2>2, <2>3, <2>4
<1>. QED
  BY <1>1, <1>2

-----------------------------------------------------------------------------

\* A statement found good begins the rendering at the start of its text.
LEMMA BeginKeeps ==
    ASSUME TypeOK, stmt \in Statements, pc \in {"normalize", "legacy"},
           NEW statement, GoodOf(statement, stmt), statement # Error,
           ir' = statement, todo' = RenderStatement(statement, to), pc' = "render",
           UNCHANGED <<stmt, to, placeholder, out>>
    PROVE  IInv'
<1>1. IsStatement(stmt)
  BY StatementsAssumption
<1>2. PICK text \in {SourceText(stmt), Body(stmt)} : Good(statement, text, ClausesInOrder(stmt))
  BY DEF GoodOf
<1>3. /\ statement.type \in {"raw", "select", "insert", "update", "delete"}
      /\ Pieces(todo', text, ClausesInOrder(stmt))
  BY <1>2 DEF Good
<1>4. placeholder = 0 /\ to \in Targets
  BY DEF TypeOK
<1>5. IsSeq(text) /\ \A p \in 0..Len(text) : Counted(text, p) <= MarkersIn(SourceText(stmt), to)
  BY <1>1, CountedBound
<1>6. 0 \in 0..Len(text) /\ Len(text) \in Nat /\ 0 <= Counted(text, 0)
  <2>1. Len(text) \in Nat /\ 0 \in Nat /\ 0 <= 0
    BY <1>5, SeqFacts
  <2>2. Counted(text, 0) \in Nat
    BY <2>1, CountedFacts
  <2>. QED
    BY <2>1, <2>2
<1>7. MarkersIn(SourceText(stmt), to) \in Nat
  BY <1>1, BodyFacts, MarkersAre
<1>8. TypeOK'
  <2>1. placeholder \in Nat /\ placeholder <= MarkersIn(SourceText(stmt), to)
    BY <1>4, <1>7
  <2>2. OnlyMarkers(SourceText(stmt)) => placeholder <= Cardinality(Markers(SourceText(stmt)))
    BY <1>1, <2>1, BodyFacts, MarkersBound
  <2>. QED
    BY <1>3, <1>4, <2>1, <2>2 DEF TypeOK
<1>9. ClausesInOrder(stmt) => Reached(text, 0)'
  <2>. SUFFICES ASSUME ClausesInOrder(stmt) PROVE Reached(text, 0)'
    OBVIOUS
  <2>1. Within(todo', text, 0, Len(text))
    BY <1>3 DEF Pieces
  <2>2. Counted(text, 0)' = Counted(text, 0)
    BY DEF Counted
  <2>. QED
    BY <1>4, <1>6, <2>1, <2>2 DEF Reached
<1>10. RestOf(text)'
  BY <1>3, <1>9 DEF RestOf, Pieces
<1>. QED
  BY <1>8, <1>10 DEF IInv, PiecesInOrder

LEMMA RenderKeeps ==
    ASSUME IInv, RenderPiece
    PROVE  IInv'
<1>. DEFINE piece == Head(todo)
            added == IF piece.raw /\ stmt.dialect = "mysql" THEN MarkersIn(piece.text, to) ELSE 0
            bound == MarkersIn(SourceText(stmt), to)
<1>1. /\ pc = "render" /\ todo # << >> /\ todo' = Tail(todo) /\ UNCHANGED <<pc, stmt, to, ir>>
      /\ placeholder' = placeholder + added
  <2>1. placeholder \in Nat
    BY DEF IInv, TypeOK
  <2>2. CASE piece.raw
    BY <2>2 DEF RenderPiece
  <2>3. CASE ~piece.raw
    BY <2>1, <2>3 DEF RenderPiece
  <2>. QED
    BY <2>2, <2>3
<1>2. TypeOK /\ stmt \in Statements /\ PiecesInOrder /\ placeholder \in Nat
  BY DEF IInv, TypeOK
<1>3. IsStatement(stmt)
  BY <1>2, StatementsAssumption
<1>4. PICK text \in {SourceText(stmt), Body(stmt)} : RestOf(text)
  BY <1>1, <1>2 DEF PiecesInOrder
<1>5. IsSeq(text) /\ \A p \in 0..Len(text) : Counted(text, p) <= bound
  BY <1>3, CountedBound
<1>6. Len(text) \in Nat
  BY <1>5, SeqFacts
<1>7. Scraps(todo, text)
  BY <1>4 DEF RestOf
<1>. HIDE DEF piece, bound
<1>8. added \in Nat
  <2>1. CASE piece.raw
    <3>1. PICK a \in 0..Len(text) : \E b \in a..Len(text) : piece.text = Slice(text, a, b)
      <4>1. 1 \in DOMAIN todo /\ Head(todo) = todo[1]
        <5>1. PICK X : todo \in Seq(X)
          BY <1>7 DEF Scraps, IsSeq
        <5>. QED
          BY <1>1, <5>1
      <4>. QED
        BY <1>7, <2>1, <4>1 DEF Scraps, piece
    <3>2. IsSeq(piece.text)
      BY <1>5, <3>1, SliceFacts
    <3>3. MarkersIn(piece.text, to) \in Nat
      BY <3>2, MarkersAre
    <3>. QED
      BY <3>3
  <2>2. CASE ~piece.raw
    BY <2>2
  <2>. QED
    BY <2>1, <2>2
<1>9. Scraps(Tail(todo), text)
  <2>1. PICK X : todo \in Seq(X)
    BY <1>7 DEF Scraps, IsSeq
  <2>. DEFINE T == Tail(todo)
  <2>2. T \in Seq(X) /\ \A k \in DOMAIN T : k + 1 \in DOMAIN todo /\ T[k] = todo[k + 1]
    BY <1>1, <2>1
  <2>. HIDE DEF T
  <2>3. \A k \in DOMAIN T : T[k].raw => \E a \in 0..Len(text) : \E b \in a..Len(text) : T[k].text = Slice(text, a, b)
    BY <1>7, <2>2 DEF Scraps
  <2>. QED
    BY <2>2, <2>3 DEF Scraps, T, IsSeq
<1>10. ASSUME ClausesInOrder(stmt)
       PROVE  \E m \in 0..Len(text) : Within(Tail(todo), text, m, Len(text)) /\ placeholder + added <= Counted(text, m)
  <2>1. PICK p \in 0..Len(text) : Within(todo, text, p, Len(text)) /\ placeholder <= Counted(text, p)
    BY <1>4, <1>10 DEF RestOf, Reached
  <2>2. p \in Int /\ Len(text) \in Int /\ IsSeq(todo) /\ Follow(todo, text, p, Len(text))
    BY <2>1 DEF Within
  <2>3. /\ IsSeq(Tail(todo))
        /\ \E a, m \in p..Len(text) : /\ a <= m /\ Follow(Tail(todo), text, m, Len(text))
                                      /\ piece.raw => piece.text = Slice(text, a, m)
    BY <1>1, <2>2, FollowTail DEF piece
  <2>4. PICK a, m \in p..Len(text) : /\ a <= m /\ Follow(Tail(todo), text, m, Len(text))
                                     /\ piece.raw => piece.text = Slice(text, a, m)
    BY <2>3
  <2>5. /\ p \in Nat /\ a \in Nat /\ m \in Nat /\ p <= a /\ a <= m /\ m \in 0..Len(text) /\ a \in 0..Len(text)
        /\ m \in a..Len(text) /\ m <= Len(text) /\ p <= m
    BY <1>6, <2>4
  <2>6. Within(Tail(todo), text, m, Len(text))
    BY <2>2, <2>3, <2>4, <2>5 DEF Within
  <2>7. /\ Counted(text, p) \in Nat /\ Counted(text, a) \in Nat /\ Counted(text, m) \in Nat
        /\ Counted(text, p) <= Counted(text, a) /\ Counted(text, a) <= Counted(text, m)
    BY <2>5, CountedFacts
  <2>8. placeholder + added <= Counted(text, m)
    <3>1. CASE piece.raw
      <4>1. Counted(text, m) = Counted(text, a) + MarkersIn(Slice(text, a, m), to)
        BY <1>5, <2>5, CountedPiece
      <4>2. Counted(text, m) = Counted(text, a) + MarkersIn(piece.text, to)
        BY <2>4, <3>1, <4>1
      <4>3. CASE stmt.dialect = "mysql"
        BY <1>2, <1>8, <2>1, <2>7, <3>1, <4>2, <4>3
      <4>4. CASE stmt.dialect # "mysql"
        BY <1>2, <2>1, <2>7, <4>4
      <4>. QED
        BY <4>3, <4>4
    <3>2. CASE ~piece.raw
      BY <1>2, <2>1, <2>7, <3>2
    <3>. QED
      BY <3>1, <3>2
  <2>. QED
    BY <2>5, <2>6, <2>8
<1>. HIDE DEF added
<1>11. TypeOK'
  <2>1. ClausesInOrder(stmt) => placeholder' <= bound
    <3>. SUFFICES ASSUME ClausesInOrder(stmt) PROVE placeholder + added <= bound
      BY <1>1
    <3>1. PICK m \in 0..Len(text) : placeholder + added <= Counted(text, m)
      BY <1>10
    <3>2. Counted(text, m) \in Nat /\ bound \in Nat /\ Counted(text, m) <= bound
      <4>1. m \in Nat /\ m <= m
        BY <1>6
      <4>. QED
        BY <1>3, <1>5, <4>1, BodyFacts, CountedFacts, MarkersAre DEF bound
    <3>. QED
      BY <1>2, <1>8, <3>1, <3>2
  <2>2. placeholder' \in Nat
    BY <1>1, <1>2, <1>8
  <2>3. bound = MarkersIn(SourceText(stmt'), to')
    BY <1>1 DEF bound
  <2>4. ClausesInOrder(stmt) /\ OnlyMarkers(SourceText(stmt)) => placeholder' <= Cardinality(Markers(SourceText(stmt)))
    BY <1>3, <2>1, <2>2, BodyFacts, MarkersBound DEF bound
  <2>. QED
    BY <1>1, <1>2, <2>1, <2>2, <2>3, <2>4 DEF TypeOK
<1>12. ClausesInOrder(stmt) => \E m : Reached(text, m)'
  <2>. SUFFICES ASSUME ClausesInOrder(stmt) PROVE \E m : Reached(text, m)'
    OBVIOUS
  <2>1. PICK m \in 0..Len(text) : Within(Tail(todo), text, m, Len(text)) /\ placeholder + added <= Counted(text, m)
    BY <1>10
  <2>2. Counted(text, m)' = Counted(text, m)
    BY <1>1 DEF Counted
  <2>3. Reached(text, m)'
    BY <1>1, <2>1, <2>2 DEF Reached
  <2>. QED
    BY <2>3
<1>13. RestOf(text)'
  BY <1>1, <1>9, <1>12 DEF RestOf
<1>. QED
  BY <1>1, <1>2, <1>11, <1>13 DEF IInv, PiecesInOrder

LEMMA IInvInit == Init => IInv
<1>. SUFFICES ASSUME Init PROVE IInv
  OBVIOUS
<1>1. stmt \in Statements /\ to \in Targets /\ pc \in {"normalize", "legacy"}
  BY DEF Init
<1>2. ir = NotYet /\ todo = << >> /\ placeholder = 0 /\ out = << >>
  BY DEF Init
<1>3. IsSeq(SourceText(stmt)) /\ MarkersIn(SourceText(stmt), to) \in Nat
  BY <1>1, StatementsAssumption, BodyFacts, MarkersAre
<1>4. 0 \in Nat /\ 0 <= MarkersIn(SourceText(stmt), to)
  BY <1>3
<1>5. OnlyMarkers(SourceText(stmt)) => 0 <= Cardinality(Markers(SourceText(stmt)))
  BY <1>3, <1>4, MarkersBound
<1>. QED
  BY <1>1, <1>2, <1>4, <1>5 DEF IInv, TypeOK, PiecesInOrder, NotYet

LEMMA IInvNext == IInv /\ [Next]_vars => IInv'
<1>. SUFFICES ASSUME IInv, [Next]_vars PROVE IInv'
  OBVIOUS
<1>1. TypeOK /\ stmt \in Statements /\ PiecesInOrder /\ IsStatement(stmt)
  BY StatementsAssumption DEF IInv
<1>2. CASE Normalize
  <2>. DEFINE statement == NormalizeTiDB(stmt)
  <2>1. GoodOf(statement, stmt)
    BY <1>1, TiDBGood
  <2>2. pc = "normalize" /\ BeginOr(statement, "legacy", ir) /\ UNCHANGED <<stmt, to, placeholder, out>>
    BY <1>2 DEF Normalize
  <2>. HIDE DEF statement
  <2>3. CASE statement = Error
    <3>1. pc' = "legacy" /\ ir' = ir /\ todo' = todo
      BY <2>2, <2>3 DEF BeginOr
    <3>. QED
      BY <1>1, <2>2, <3>1 DEF IInv, TypeOK, PiecesInOrder
  <2>4. CASE statement # Error
    <3>1. ir' = statement /\ todo' = RenderStatement(statement, to) /\ pc' = "render"
      BY <2>2, <2>4 DEF BeginOr
    <3>. QED
      BY <1>1, <2>1, <2>2, <2>4, <3>1, BeginKeeps
  <2>. QED
    BY <2>3, <2>4
<1>3. CASE ParseLegacy
  <2>. DEFINE statement == LegacyParse(stmt)
  <2>1. GoodOf(statement, stmt)
    BY <1>1, LegacyGood
  <2>2. pc = "legacy" /\ BeginOr(statement, "failed", Error) /\ UNCHANGED <<stmt, to, placeholder, out>>
    BY <1>3 DEF ParseLegacy
  <2>. HIDE DEF statement
  <2>3. CASE statement = Error
    <3>1. pc' = "failed" /\ ir' = Error /\ todo' = todo
      BY <2>2, <2>3 DEF BeginOr
    <3>. QED
      BY <1>1, <2>2, <3>1 DEF IInv, TypeOK, PiecesInOrder, Error
  <2>4. CASE statement # Error
    <3>1. ir' = statement /\ todo' = RenderStatement(statement, to) /\ pc' = "render"
      BY <2>2, <2>4 DEF BeginOr
    <3>. QED
      BY <1>1, <2>1, <2>2, <2>4, <3>1, BeginKeeps
  <2>. QED
    BY <2>3, <2>4
<1>4. CASE RenderPiece
  BY <1>4, RenderKeeps
<1>5. CASE Finish
  <2>1. pc = "render" /\ pc' = "done" /\ UNCHANGED <<stmt, to, ir, todo, placeholder, out>>
    BY <1>5 DEF Finish
  <2>. QED
    BY <1>1, <2>1 DEF IInv, TypeOK, PiecesInOrder
<1>6. CASE UNCHANGED vars
  <2>1. UNCHANGED <<pc, stmt, to, ir, todo, placeholder, out>>
    BY <1>6 DEF vars
  <2>2. PiecesInOrder'
    BY <1>1, <2>1 DEF PiecesInOrder, RestOf, Reached, Counted
  <2>3. TypeOK'
    BY <1>1, <2>1 DEF TypeOK
  <2>. QED
    BY <1>1, <2>1, <2>2, <2>3 DEF IInv
<1>. QED
  BY <1>2, <1>3, <1>4, <1>5, <1>6 DEF Next

LEMMA IInvAlways == Spec => []IInv
  BY IInvInit, IInvNext, PTL DEF Spec

\* What is rendered is a statement. Of a text whose clauses the scanners find in
\* order no question mark is numbered twice, those in strings included; if there are
\* none in strings, no number is beyond the arguments of the caller
\* (render.go:28-47 and :1240).
THEOREM DmlTypes == Spec => []TypeOK
<1>1. IInv => TypeOK
  BY DEF IInv
<1>. QED
  BY <1>1, IInvAlways, PTL

\* Nothing is rendered that is not in the text, and of clauses found in order
\* nothing is rendered twice: what is still to be rewritten comes, in this order,
\* after all that has been (tidb_dml.go:157-290, the legacy parsers,
\* render.go:88-160), and so do the markers that have no number yet.
THEOREM TextInPieces == Spec => []PiecesInOrder
<1>1. IInv => PiecesInOrder
  BY DEF IInv
<1>. QED
  BY <1>1, IInvAlways, PTL
=============================================================================
