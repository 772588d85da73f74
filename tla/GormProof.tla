------------------------------ MODULE GormProof ------------------------------
(***************************************************************************)
(* Why no handle stores plain text, and why what a handle encrypted is     *)
(* found as it was given, for any number of handles and rows, whatever     *)
(* their options, whichever fields fail and however often a program tries; *)
(* and why a handle is connected to what its options say, although they    *)
(* came through one DSN or two.                                            *)
(***************************************************************************)
EXTENDS Gorm, TLAPS

\* What Dialector gives a handle, Unset among others.
Encryptors == {Dialector(a[h]).encryptor : a \in Assignments, h \in Handles} \cup {Unset}
Words == Plains \cup {Unset}
Texts == [plain : Words, keys : Seq(Encryptors)]

Types ==
    /\ assigned \in Assignments
    /\ phase \in [Handles -> {"closed", "open", "refused"}]
    /\ DOMAIN conn = Handles /\ conn = [h \in Handles |-> conn[h]]
    /\ encryptor \in [Handles -> Encryptors]
    /\ objects \in [Handles -> [Rows -> Texts]]
    /\ given \in [Handles -> [Rows -> Words]]
    /\ steps \in Nat

StoreTypes ==
    /\ DOMAIN intended = DOMAIN stored /\ DOMAIN plainBy = DOMAIN stored
    /\ \A a \in DOMAIN stored : /\ stored[a] \in [Rows -> Texts]
                                /\ intended[a] \in [Rows -> Words]
                                /\ plainBy[a] \subseteq Rows

Connected == \A h \in Handles : (phase[h] = "open") = (conn[h] # Refused)

Bounded == steps = 0 \/ \E h \in Handles : steps <= assigned[h].maxSteps

\* A text is the one it was made of, and only the last encryptor it went through
\* may write the prefix: what has the prefix is not encrypted again.
Carries(text, p) ==
    /\ text.plain = p
    /\ \A i \in 1 .. Len(text.keys) - 1 : text.keys[i] \notin Prefixing

ObjectsCarry == \A h \in Handles, r \in Rows : Carries(objects[h][r], given[h][r])
RowsCarry == \A a \in DOMAIN stored, r \in Rows : Carries(stored[a][r], intended[a][r])

Inv == Types /\ StoreTypes /\ Connected /\ Bounded /\ ObjectsCarry /\ RowsCarry /\ NeverPlainStored

-----------------------------------------------------------------------------
(* The conversions of one text.                                            *)

LEMMA PlainText ==
    ASSUME NEW p \in Words
    PROVE  Plain(p) \in Texts /\ Carries(Plain(p), p)
BY DEF Plain, Texts, Carries

LEMMA ZeroText == Zero \in Texts /\ Carries(Zero, Unset)
BY PlainText DEF Zero, Words

\* Encrypt adds an encryptor to a text without the prefix.
LEMMA EncryptedText ==
    ASSUME NEW key \in Encryptors, NEW text \in Texts, NEW p, Carries(text, p), ~Kept(text)
    PROVE  /\ Encrypt(key, text) \in Texts
           /\ Carries(Encrypt(key, text), p)
           /\ Encrypt(key, text).keys # << >>
<1>. DEFINE keys == Append(text.keys, key)
<1>1. text.keys \in Seq(Encryptors)
  BY DEF Texts
<1>2. /\ keys \in Seq(Encryptors) /\ Len(keys) = Len(text.keys) + 1
      /\ \A i \in 1 .. Len(text.keys) : keys[i] = text.keys[i]
  BY <1>1
<1>3. \A i \in 1 .. Len(text.keys) : text.keys[i] \notin Prefixing
  <2>1. CASE text.keys = << >>
    BY <2>1
  <2>2. CASE text.keys # << >>
    <3>1. text.keys[Len(text.keys)] \notin Prefixing
      BY <2>2 DEF Kept, IsPrefixed, Last
    <3>. QED
      BY <3>1, <1>1 DEF Carries
  <2>. QED
    BY <2>1, <2>2
<1>4. Encrypt(key, text) = [plain |-> text.plain, keys |-> keys]
  <2>1. Encrypt(key, text) = [text EXCEPT !.keys = keys]
    BY DEF Encrypt
  <2>. HIDE DEF keys
  <2>. QED
    BY <2>1 DEF Texts
<1>5. keys # << >>
  <2>1. Len(keys) # 0
    BY <1>1, <1>2
  <2>2. Len(<< >>) = 0
    OBVIOUS
  <2>. HIDE DEF keys
  <2>. QED
    BY <2>1, <2>2
<1>6. \A i \in 1 .. Len(keys) - 1 : keys[i] \notin Prefixing
  BY <1>1, <1>2, <1>3
<1>. HIDE DEF keys
<1>. QED
  BY <1>2, <1>4, <1>5, <1>6 DEF Texts, Carries

\* Decrypt takes the last one away, or leaves the text alone.
LEMMA DecryptedText ==
    ASSUME NEW key, NEW text \in Texts, NEW p, Carries(text, p)
    PROVE  DecryptField(key, text) \in Texts /\ Carries(DecryptField(key, text), p)
<1>1. CASE DecryptField(key, text) = text
  BY <1>1
<1>2. CASE text.keys # << >> /\ DecryptField(key, text) = [text EXCEPT !.keys = Front(text.keys)]
  <2>. DEFINE keys == Front(text.keys)
  <2>1. text.keys \in Seq(Encryptors)
    BY DEF Texts
  <2>2. /\ keys \in Seq(Encryptors) /\ Len(keys) = Len(text.keys) - 1
        /\ \A i \in 1 .. Len(keys) : keys[i] = text.keys[i]
    BY <2>1, <1>2 DEF Front
  <2>3. \A i \in 1 .. Len(keys) - 1 : keys[i] \notin Prefixing
    BY <2>1, <2>2 DEF Carries
  <2>4. DecryptField(key, text) = [plain |-> text.plain, keys |-> keys]
    BY <1>2 DEF Texts
  <2>. HIDE DEF keys
  <2>. QED
    BY <2>2, <2>3, <2>4 DEF Texts, Carries
<1>. QED
  BY <1>1, <1>2 DEF DecryptField

\* A text that only an encryptor with the prefix was used on opens at once.
LEMMA OpenedText ==
    ASSUME NEW key \in Prefixing, NEW text \in Texts, NEW p, Carries(text, p),
           \A i \in DOMAIN text.keys : text.keys[i] = key
    PROVE  DecryptField(key, text) = Plain(p)
<1>1. text.keys \in Seq(Encryptors) /\ DOMAIN text.keys = 1 .. Len(text.keys) /\ Len(text.keys) \in Nat
  BY DEF Texts
<1>2. text = [plain |-> p, keys |-> text.keys]
  BY DEF Texts, Carries
<1>3. CASE text.keys = << >>
  BY <1>2, <1>3 DEF DecryptField, Plain
<1>4. CASE text.keys # << >>
  <2>1. Len(text.keys) > 0
    BY <1>1, <1>4
  <2>2. Len(text.keys) = 1
    <3>. DEFINE n == Len(text.keys)
    <3>1. n \in Nat /\ n > 0
      BY <1>1, <2>1
    <3>2. \A i \in 1 .. n - 1 : text.keys[i] \notin Prefixing
      BY DEF Carries
    <3>3. \A i \in 1 .. n : text.keys[i] = key
      BY <1>1
    <3>. HIDE DEF n
    <3>4. ~(1 \in 1 .. n - 1)
      BY <3>1, <3>2, <3>3
    <3>5. n = 1
      BY <3>1, <3>4
    <3>. QED
      BY <3>5 DEF n
  <2>3. Last(text.keys) = key
    BY <1>1, <2>2 DEF Last
  <2>4. Front(text.keys) = << >>
    BY <1>1, <2>2 DEF Front
  <2>5. DecryptField(key, text) = [text EXCEPT !.keys = << >>]
    BY <1>4, <2>3, <2>4 DEF DecryptField, IsPrefixed
  <2>. QED
    BY <1>2, <2>5 DEF Plain
<1>. QED
  BY <1>3, <1>4

-----------------------------------------------------------------------------
(* The conversions of the rows, and the rows of all addresses.             *)

\* What may be stored by a handle with an encryptor.
MayBeStored(text) == text.keys = << >> => text.plain \in {Unset} \cup PrefixedPlains

LEMMA WalkedRows ==
    ASSUME NEW key \in Encryptors, NEW rows \in [Rows -> Texts], NEW words \in [Rows -> Words],
           \A r \in Rows : Carries(rows[r], words[r]), NEW failing
    PROVE  LET walked == EncryptFields(key, rows, failing)
           IN /\ walked \in [Rows -> Texts]
              /\ \A r \in Rows : Carries(walked[r], words[r])
              /\ failing = {} => \A r \in Rows : MayBeStored(walked[r])
<1>. DEFINE walked == EncryptFields(key, rows, failing)
<1>1. walked = [r \in Rows |-> IF r \in Convertible(rows) \ failing THEN Encrypt(key, rows[r]) ELSE rows[r]]
  BY DEF EncryptFields
<1>2. ASSUME NEW r \in Rows
      PROVE  /\ walked[r] \in Texts /\ Carries(walked[r], words[r])
             /\ failing = {} => MayBeStored(walked[r])
  <2>1. CASE r \in Convertible(rows) \ failing
    <3>1. ~Kept(rows[r]) /\ rows[r] \in Texts
      BY <2>1 DEF Convertible
    <3>2. walked[r] = Encrypt(key, rows[r])
      BY <1>1, <2>1
    <3>. QED
      BY <3>1, <3>2, EncryptedText DEF MayBeStored
  <2>2. CASE r \notin Convertible(rows) \ failing
    <3>1. walked[r] = rows[r] /\ rows[r] \in Texts
      BY <1>1, <2>2
    <3>2. failing = {} => Kept(rows[r])
      BY <2>2 DEF Convertible
    <3>3. Kept(rows[r]) => MayBeStored(rows[r])
      BY DEF Kept, IsPrefixed, Zero, Plain, MayBeStored
    <3>. QED
      BY <3>1, <3>2, <3>3
  <2>. QED
    BY <2>1, <2>2
<1>3. walked \in [Rows -> Texts]
  BY <1>1, <1>2
<1>. QED
  BY <1>2, <1>3

\* A statement that stores rows at the address of h.
LEMMA StoredRows ==
    ASSUME StoreTypes, RowsCarry, NeverPlainStored,
           NEW h \in Handles, NEW rows \in [Rows -> Texts], NEW words \in [Rows -> Words], NEW plain \in SUBSET Rows,
           \A r \in Rows : Carries(rows[r], words[r]),
           \A r \in Rows \ plain : MayBeStored(rows[r]),
           Store(h, rows, words, plain)
    PROVE  StoreTypes' /\ RowsCarry' /\ NeverPlainStored'
<1>. DEFINE a == conn[h].address
<1>1. /\ stored' = [x \in DOMAIN stored \cup {a} |-> IF x = a THEN rows ELSE stored[x]]
      /\ intended' = [x \in DOMAIN intended \cup {a} |-> IF x = a THEN words ELSE intended[x]]
      /\ plainBy' = [x \in DOMAIN plainBy \cup {a} |-> IF x = a THEN plain ELSE plainBy[x]]
  BY DEF Store, With
<1>. HIDE DEF a
<1>2. StoreTypes'
  BY <1>1 DEF StoreTypes
<1>3. RowsCarry'
  BY <1>1 DEF StoreTypes, RowsCarry
<1>4. NeverPlainStored'
  <2>. SUFFICES ASSUME NEW x \in DOMAIN stored', NEW r \in Rows \ plainBy'[x]
                PROVE  MayBeStored(stored'[x][r])
    BY DEF NeverPlainStored, MayBeStored
  <2>1. CASE x = a
    BY <1>1, <2>1 DEF StoreTypes
  <2>2. CASE x # a
    BY <1>1, <2>2 DEF StoreTypes, NeverPlainStored, MayBeStored
  <2>. QED
    BY <2>1, <2>2
<1>. QED
  BY <1>2, <1>3, <1>4

\* Steps of a program.
LEMMA StepTaken ==
    ASSUME Inv, NEW h \in Handles, Step(h), UNCHANGED assigned
    PROVE  steps' \in Nat /\ Bounded'
<1>1. assigned[h].maxSteps \in Nat /\ steps \in Nat
  BY AssignmentsAssumption DEF Inv, Types
<1>2. steps' = steps + 1 /\ steps < assigned[h].maxSteps
  BY DEF Step
<1>. QED
  BY <1>1, <1>2 DEF Bounded

-----------------------------------------------------------------------------
(* One lemma for each action.                                              *)

LEMMA Initially == Init => Inv
<1>. SUFFICES ASSUME Init PROVE Inv
  OBVIOUS
<1>1. NewRows \in [Rows -> Texts] /\ \A r \in Rows : NewRows[r] = Zero
  BY ZeroText DEF NewRows
<1>2. Types
  BY <1>1 DEF Init, Types, Encryptors, Words
<1>3. StoreTypes /\ RowsCarry /\ NeverPlainStored
  BY DEF Init, StoreTypes, RowsCarry, NeverPlainStored
<1>4. Connected /\ Bounded
  BY DEF Init, Connected, Bounded
<1>5. ObjectsCarry
  BY <1>1, ZeroText DEF Init, ObjectsCarry
<1>. QED
  BY <1>2, <1>3, <1>4, <1>5 DEF Inv

LEMMA OpenKeeps ==
    ASSUME Inv, NEW h \in Handles, Open(h)
    PROVE  Inv'
<1>. DEFINE dialector == Dialector(assigned[h])
            connector == NewConnectorFromDSN(dialector.dsn)
<1>1. dialector.encryptor \in Encryptors
  BY DEF Inv, Types, Encryptors
<1>2. \/ phase' = [phase EXCEPT ![h] = "refused"] /\ UNCHANGED <<conn, encryptor>>
      \/ /\ connector # Refused
         /\ phase' = [phase EXCEPT ![h] = "open"]
         /\ conn' = [conn EXCEPT ![h] = connector]
         /\ encryptor' = [encryptor EXCEPT ![h] = dialector.encryptor]
  BY Zenon DEF Open
<1>3. phase[h] = "closed" /\ UNCHANGED <<assigned, objects, stored, given, intended, plainBy, steps>>
  BY DEF Open
<1>. HIDE DEF dialector, connector
<1>4. Types'
  BY <1>1, <1>2, <1>3 DEF Inv, Types
<1>5. Connected'
  <2>1. ASSUME NEW g \in Handles
        PROVE  (phase'[g] = "open") = (conn'[g] # Refused)
    <3>1. (phase[g] = "open") = (conn[g] # Refused)
      BY DEF Inv, Connected
    <3>2. CASE g # h
      BY <1>2, <3>1, <3>2 DEF Inv, Types
    <3>3. CASE g = h
      BY <1>2, <1>3, <3>1, <3>3 DEF Inv, Types
    <3>. QED
      BY <3>2, <3>3
  <2>. QED
    BY <2>1 DEF Connected, Refused
<1>6. StoreTypes' /\ Bounded' /\ ObjectsCarry' /\ RowsCarry'
  BY <1>3 DEF Inv, StoreTypes, Bounded, ObjectsCarry, RowsCarry
<1>7. NeverPlainStored'
  BY <1>3 DEF Inv, NeverPlainStored
<1>. QED
  BY <1>4, <1>5, <1>6, <1>7 DEF Inv

LEMMA AssignKeeps ==
    ASSUME Inv, NEW h \in Handles, NEW r \in Rows, NEW p \in Plains, Assign(h, r, p)
    PROVE  Inv'
<1>1. /\ objects' = [objects EXCEPT ![h][r] = Plain(p)] /\ given' = [given EXCEPT ![h][r] = p]
      /\ UNCHANGED <<assigned, phase, conn, encryptor, stored, intended, plainBy>>
  BY DEF Assign
<1>2. Plain(p) \in Texts /\ Carries(Plain(p), p) /\ p \in Words
  BY PlainText DEF Words
<1>3. steps' \in Nat /\ Bounded'
  BY <1>1, StepTaken DEF Assign
<1>4. Types' /\ ObjectsCarry'
  BY <1>1, <1>2, <1>3 DEF Inv, Types, ObjectsCarry
<1>5. StoreTypes' /\ Connected' /\ RowsCarry'
  BY <1>1 DEF Inv, StoreTypes, Connected, RowsCarry
<1>6. NeverPlainStored'
  BY <1>1 DEF Inv, NeverPlainStored
<1>. QED
  BY <1>3, <1>4, <1>5, <1>6 DEF Inv

LEMMA SaveKeeps ==
    ASSUME Inv, NEW h \in Handles, NEW failing, Save(h, failing)
    PROVE  Inv'
<1>1. UNCHANGED <<assigned, phase, conn, encryptor, given>>
  BY DEF Save
<1>2. steps' \in Nat /\ Bounded'
  BY <1>1, StepTaken DEF Save
<1>3. /\ objects[h] \in [Rows -> Texts] /\ given[h] \in [Rows -> Words] /\ encryptor[h] \in Encryptors
      /\ \A r \in Rows : Carries(objects[h][r], given[h][r])
      /\ StoreTypes /\ RowsCarry /\ NeverPlainStored
  BY DEF Inv, Types, ObjectsCarry
<1>4. Connected'
  BY <1>1 DEF Inv, Connected
<1>5. CASE encryptor[h] = Unset
  <2>1. Store(h, objects[h], given[h], Rows) /\ UNCHANGED objects
    BY <1>5, Zenon DEF Save
  <2>2. StoreTypes' /\ RowsCarry' /\ NeverPlainStored'
    BY <1>3, <2>1, StoredRows
  <2>3. Types' /\ ObjectsCarry'
    BY <1>1, <1>2, <2>1 DEF Inv, Types, ObjectsCarry
  <2>. QED
    BY <1>2, <1>4, <2>2, <2>3 DEF Inv
<1>6. CASE encryptor[h] # Unset
  <2>. DEFINE rows == EncryptFields(encryptor[h], objects[h], failing)
  <2>1. /\ objects' = [objects EXCEPT ![h] = rows]
        /\ IF failing = {} THEN Store(h, rows, given[h], {}) ELSE UNCHANGED <<stored, intended, plainBy>>
    BY <1>6, Zenon DEF Save
  <2>2. /\ rows \in [Rows -> Texts] /\ \A r \in Rows : Carries(rows[r], given[h][r])
        /\ failing = {} => \A r \in Rows : MayBeStored(rows[r])
    BY <1>3, WalkedRows
  <2>. HIDE DEF rows
  <2>3. Types' /\ ObjectsCarry'
    BY <1>1, <1>2, <2>1, <2>2 DEF Inv, Types, ObjectsCarry
  <2>4. CASE failing = {}
    <3>1. StoreTypes' /\ RowsCarry' /\ NeverPlainStored'
      BY <1>3, <2>1, <2>2, <2>4, StoredRows
    <3>. QED
      BY <1>2, <1>4, <2>3, <3>1 DEF Inv
  <2>5. CASE failing # {}
    <3>1. UNCHANGED <<stored, intended, plainBy>>
      BY <2>1, <2>5
    <3>2. StoreTypes' /\ RowsCarry'
      BY <1>3, <3>1 DEF StoreTypes, RowsCarry
    <3>3. NeverPlainStored'
      BY <1>3, <3>1 DEF NeverPlainStored
    <3>. QED
      BY <1>2, <1>4, <2>3, <3>2, <3>3 DEF Inv
  <2>. QED
    BY <2>4, <2>5
<1>. QED
  BY <1>5, <1>6

LEMMA UpdateKeeps ==
    ASSUME Inv, NEW h \in Handles, NEW r \in Rows, NEW p \in Plains, NEW fails \in BOOLEAN, Update(h, r, p, fails)
    PROVE  Inv'
<1>. DEFINE a == conn[h].address
<1>1. UNCHANGED <<assigned, phase, conn, encryptor>> /\ StoredAt(h)[r] # Zero
  BY DEF Update
<1>2. steps' \in Nat /\ Bounded'
  BY <1>1, StepTaken DEF Update
<1>3. Connected'
  BY <1>1 DEF Inv, Connected
<1>4. StoreTypes /\ RowsCarry /\ NeverPlainStored
  BY DEF Inv
<1>5. CASE fails
  <2>1. UNCHANGED <<objects, given, stored, intended, plainBy>>
    BY <1>5 DEF Update
  <2>2. Types' /\ ObjectsCarry' /\ StoreTypes' /\ RowsCarry'
    BY <1>1, <1>2, <2>1 DEF Inv, Types, ObjectsCarry, StoreTypes, RowsCarry
  <2>3. NeverPlainStored'
    BY <1>4, <2>1 DEF NeverPlainStored
  <2>. QED
    BY <1>2, <1>3, <2>2, <2>3 DEF Inv
<1>6. CASE ~fails
  <2>. DEFINE rows == [stored[a] EXCEPT ![r] = Plain(p)]
              words == [intended[a] EXCEPT ![r] = p]
              plain == plainBy[a] \cup {r}
  <2>1. /\ objects' = [objects EXCEPT ![h][r] = Plain(p)] /\ given' = [given EXCEPT ![h][r] = p]
        /\ Store(h, rows, words, plain)
    BY <1>6 DEF Update
  <2>2. Plain(p) \in Texts /\ Carries(Plain(p), p) /\ p \in Words
    BY PlainText DEF Words
  <2>3. a \in DOMAIN stored
    BY <1>1 DEF StoredAt, At, NewRows
  <2>4. stored[a] \in [Rows -> Texts] /\ intended[a] \in [Rows -> Words] /\ plainBy[a] \in SUBSET Rows
    BY <1>4, <2>3 DEF StoreTypes
  <2>5. rows \in [Rows -> Texts] /\ words \in [Rows -> Words] /\ plain \in SUBSET Rows
    BY <2>2, <2>4
  <2>6. \A x \in Rows : Carries(rows[x], words[x])
    BY <1>4, <2>2, <2>3, <2>4 DEF RowsCarry
  <2>7. \A x \in Rows \ plain : MayBeStored(rows[x])
    BY <1>4, <2>3, <2>4 DEF NeverPlainStored, MayBeStored
  <2>8. Types' /\ ObjectsCarry'
    BY <1>1, <1>2, <2>1, <2>2 DEF Inv, Types, ObjectsCarry
  <2>. HIDE DEF rows, words, plain
  <2>9. StoreTypes' /\ RowsCarry' /\ NeverPlainStored'
    BY <1>4, <2>1, <2>5, <2>6, <2>7, StoredRows
  <2>. QED
    BY <1>2, <1>3, <2>8, <2>9 DEF Inv
<1>. QED
  BY <1>5, <1>6

LEMMA FindKeeps ==
    ASSUME Inv, NEW h \in Handles, Find(h)
    PROVE  Inv'
<1>. DEFINE found == [r \in Rows |-> IF encryptor[h] = Unset THEN StoredAt(h)[r]
                                     ELSE DecryptField(encryptor[h], StoredAt(h)[r])]
            words == At(intended, conn[h].address, [r \in Rows |-> Unset])
<1>1. /\ objects' = [objects EXCEPT ![h] = found] /\ given' = [given EXCEPT ![h] = words]
      /\ UNCHANGED <<assigned, phase, conn, encryptor, stored, intended, plainBy>>
  BY DEF Find
<1>2. steps' \in Nat /\ Bounded'
  BY <1>1, StepTaken DEF Find
<1>3. /\ StoredAt(h) \in [Rows -> Texts] /\ words \in [Rows -> Words]
      /\ \A r \in Rows : Carries(StoredAt(h)[r], words[r])
  <2>1. CASE conn[h].address \in DOMAIN stored
    BY <2>1 DEF Inv, StoreTypes, RowsCarry, StoredAt, At
  <2>2. CASE conn[h].address \notin DOMAIN stored
    <3>1. words = [r \in Rows |-> Unset] /\ StoredAt(h) = [r \in Rows |-> Zero]
      BY <2>2 DEF Inv, StoreTypes, StoredAt, At, NewRows
    <3>. QED
      BY <3>1, ZeroText DEF Words
  <2>. QED
    BY <2>1, <2>2
<1>4. \A r \in Rows : found[r] \in Texts /\ Carries(found[r], words[r])
  <2>. SUFFICES ASSUME NEW r \in Rows PROVE found[r] \in Texts /\ Carries(found[r], words[r])
    OBVIOUS
  <2>1. StoredAt(h)[r] \in Texts /\ Carries(StoredAt(h)[r], words[r])
    BY <1>3
  <2>2. DecryptField(encryptor[h], StoredAt(h)[r]) \in Texts
        /\ Carries(DecryptField(encryptor[h], StoredAt(h)[r]), words[r])
    BY <2>1, DecryptedText
  <2>. QED
    BY <2>1, <2>2
<1>5. found \in [Rows -> Texts]
  BY <1>4
<1>. HIDE DEF found, words
<1>6. Types' /\ ObjectsCarry'
  BY <1>1, <1>2, <1>3, <1>4, <1>5 DEF Inv, Types, ObjectsCarry
<1>7. StoreTypes' /\ Connected' /\ RowsCarry'
  BY <1>1 DEF Inv, StoreTypes, Connected, RowsCarry
<1>8. NeverPlainStored'
  BY <1>1 DEF Inv, NeverPlainStored
<1>. QED
  BY <1>2, <1>6, <1>7, <1>8 DEF Inv

LEMMA StutteringKeeps == Inv /\ UNCHANGED vars => Inv'
<1>. SUFFICES ASSUME Inv, UNCHANGED vars PROVE Inv'
  OBVIOUS
<1>1. Types' /\ StoreTypes' /\ Connected' /\ Bounded' /\ ObjectsCarry' /\ RowsCarry'
  BY DEF Inv, vars, Types, StoreTypes, Connected, Bounded, ObjectsCarry, RowsCarry
<1>2. NeverPlainStored'
  BY DEF Inv, vars, NeverPlainStored
<1>. QED
  BY <1>1, <1>2 DEF Inv

-----------------------------------------------------------------------------

\* Every reachable state has the types, and every text carries what was given for
\* it (encryptor.go:103-155).
THEOREM GormInvariant == Spec => []Inv
<1>1. Init => Inv
  BY Initially
<1>2. Inv /\ [Next]_vars => Inv'
  <2>. SUFFICES ASSUME Inv, Next PROVE Inv'
    BY StutteringKeeps
  <2>1. PICK h \in Handles :
             \/ Open(h)
             \/ Find(h)
             \/ \E r \in Rows, p \in Plains : Assign(h, r, p) \/ \E fails \in BOOLEAN : Update(h, r, p, fails)
             \/ \E failing \in SUBSET Rows : Save(h, failing)
    BY DEF Next
  <2>. QED
    BY <2>1, OpenKeeps, FindKeeps, AssignKeeps, UpdateKeeps, SaveKeeps
<1>. QED
  BY <1>1, <1>2, PTL DEF Spec

\* The type invariant of the handles and their rows (gorm.go, encryptor.go).
THEOREM GormTypes == Spec => []TypeOK
<1>1. Inv => TypeOK
  BY DEF Inv, Types, StoreTypes, Connected, Bounded, TypeOK
<1>. QED
  BY <1>1, GormInvariant, PTL

\* Of what a handle with an encryptor creates or saves only empty texts and those that
\* begin with the prefix of cipher texts are stored as they are, whichever fields fail
\* to encrypt and whatever other handles do (encryptor.go:103-155).
THEOREM PlainNeverStored == Spec => []NeverPlainStored
<1>1. Inv => NeverPlainStored
  BY DEF Inv
<1>. QED
  BY <1>1, GormInvariant, PTL

\* A row that only a handle's own encryptor was used on is found as it was given,
\* however often its cipher text was saved again (encryptor.go:103-123).
THEOREM FoundAsGiven == Spec => []ReadBack
<1>1. Inv => ReadBack
  <2>. SUFFICES ASSUME Inv, NEW h \in Handles, encryptor[h] # Unset, conn[h].address \in DOMAIN stored, NEW r \in Rows,
                       \A k \in DOMAIN stored[conn[h].address][r].keys :
                          /\ stored[conn[h].address][r].keys[k] = encryptor[h]
                          /\ encryptor[h] \in Prefixing
                PROVE  DecryptField(encryptor[h], stored[conn[h].address][r]) = Plain(intended[conn[h].address][r])
    BY DEF ReadBack
  <2>. DEFINE text == stored[conn[h].address][r]
              p == intended[conn[h].address][r]
  <2>1. text \in Texts /\ Carries(text, p)
    BY DEF Inv, StoreTypes, RowsCarry
  <2>2. CASE encryptor[h] \in Prefixing
    BY <2>1, <2>2, OpenedText
  <2>3. CASE encryptor[h] \notin Prefixing
    <3>1. text.keys \in Seq(Encryptors) /\ text = [plain |-> p, keys |-> text.keys]
      BY <2>1 DEF Texts, Carries
    <3>2. text.keys = << >>
      BY <2>3, <3>1
    <3>. QED
      BY <3>1, <3>2 DEF DecryptField, Plain
  <2>. QED
    BY <2>2, <2>3
<1>. QED
  BY <1>1, GormInvariant, PTL
-----------------------------------------------------------------------------
(* What a DSN carries: FormatDSN and ParseDSN as a round trip (types.go,   *)
(* dsn.go).                                                                *)

LEMMA SetTexts ==
    /\ "localhost" # Unset /\ "true" # Unset
    /\ DefaultTranslateFailureLogPath # Unset /\ DefaultExecutionFailureLogPath # Unset
    /\ \A d : DriverForDialect(d) # Unset
  BY Zenon DEF Unset, DefaultTranslateFailureLogPath, DefaultExecutionFailureLogPath, DriverForDialect

\* Options, as far as the proofs need their types.
Fields(o) ==
    /\ o = [input |-> o.input, target |-> o.target, driver |-> o.driver, user |-> o.user, password |-> o.password,
            host |-> o.host, port |-> o.port, database |-> o.database, parameters |-> o.parameters,
            translator |-> o.translator, encryption |-> o.encryption, logging |-> o.logging]
    /\ o.port \in Ports \cup {Unset}
    /\ o.parameters = [k \in DOMAIN o.parameters |-> o.parameters[k]]
    /\ o.translator = [input |-> o.translator.input, target |-> o.translator.target]
    /\ o.encryption = [enabled |-> o.encryption.enabled, key |-> o.encryption.key, provider |-> o.encryption.provider]
    /\ o.encryption.enabled \in BOOLEAN
    /\ o.logging = [failedSQL |-> o.logging.failedSQL, translatePath |-> o.logging.translatePath,
                    executionPath |-> o.logging.executionPath]
    /\ o.logging.failedSQL \in BOOLEAN

LEMMA OptionsFields == ASSUME NEW o, IsOptions(o) PROVE Fields(o)
  BY DEF IsOptions, Fields

LEMMA LoggingFields ==
    ASSUME NEW l, l = [failedSQL |-> l.failedSQL, translatePath |-> l.translatePath, executionPath |-> l.executionPath],
           l.failedSQL \in BOOLEAN
    PROVE  LET n == NormalizedLogging(l) IN
           /\ n = [failedSQL |-> l.failedSQL, translatePath |-> n.translatePath, executionPath |-> n.executionPath]
           /\ n.failedSQL = l.failedSQL
           /\ l.failedSQL => n.translatePath # Unset /\ n.executionPath # Unset
<1>. DEFINE translations == Or(l.translatePath, DefaultTranslateFailureLogPath)
            executions == Or(l.executionPath, DefaultExecutionFailureLogPath)
<1>1. translations # Unset /\ executions # Unset
  BY SetTexts DEF Or
<1>2. NormalizedLogging(l) = IF ~l.failedSQL THEN l
                             ELSE [l EXCEPT !.translatePath = translations, !.executionPath = executions]
  BY DEF NormalizedLogging
<1>. HIDE DEF translations, executions
<1>3. CASE l.failedSQL
  <2>1. NormalizedLogging(l) = [failedSQL |-> l.failedSQL, translatePath |-> translations, executionPath |-> executions]
    BY <1>2, <1>3
  <2>. QED
    BY <1>1, <2>1
<1>4. CASE ~l.failedSQL
  BY <1>2, <1>4
<1>. QED
  BY <1>3, <1>4

\* normalized, field by field.
LEMMA NormalizedFields ==
    ASSUME NEW o, Fields(o)
    PROVE  LET n == Normalized(o) IN
           /\ Fields(n)
           /\ n.input = o.input /\ n.target = Or(o.target, o.input)
           /\ n.driver = Or(o.driver, DriverForDialect(n.target))
           /\ n.user = o.user /\ n.password = o.password /\ n.host = o.host /\ n.port = o.port
           /\ n.database = o.database /\ n.parameters = o.parameters
           /\ n.translator = [input |-> Or(o.translator.input, o.input), target |-> Or(o.translator.target, n.target)]
           /\ n.encryption = o.encryption /\ n.logging = NormalizedLogging(o.logging)
<1>. DEFINE target == Or(o.target, o.input)
            driver == Or(o.driver, DriverForDialect(target))
            translator == [input |-> Or(o.translator.input, o.input), target |-> Or(o.translator.target, target)]
            logging == NormalizedLogging(o.logging)
<1>1. Normalized(o) = [o EXCEPT !.target = target, !.driver = driver, !.translator = translator, !.logging = logging]
  BY DEF Normalized
<1>2. translator = [input |-> translator.input, target |-> translator.target]
  OBVIOUS
<1>3. /\ logging = [failedSQL |-> logging.failedSQL, translatePath |-> logging.translatePath,
                    executionPath |-> logging.executionPath]
      /\ logging.failedSQL \in BOOLEAN
  BY LoggingFields DEF Fields
<1>. HIDE DEF target, driver, translator, logging
<1>4. Normalized(o) = [input |-> o.input, target |-> target, driver |-> driver, user |-> o.user, password |-> o.password,
                       host |-> o.host, port |-> o.port, database |-> o.database, parameters |-> o.parameters,
                       translator |-> translator, encryption |-> o.encryption, logging |-> logging]
  BY <1>1 DEF Fields
<1>5. Fields(Normalized(o))
  <2>. DEFINE n == Normalized(o)
  <2>1. /\ n.port = o.port /\ n.parameters = o.parameters /\ n.translator = translator /\ n.encryption = o.encryption
        /\ n.logging = logging
    BY <1>4
  <2>2. n = [input |-> n.input, target |-> n.target, driver |-> n.driver, user |-> n.user, password |-> n.password,
             host |-> n.host, port |-> n.port, database |-> n.database, parameters |-> n.parameters,
             translator |-> n.translator, encryption |-> n.encryption, logging |-> n.logging]
    BY <1>4
  <2>. HIDE DEF n
  <2>. QED
    BY <1>2, <1>3, <2>1, <2>2 DEF Fields, n
<1>. QED
  BY <1>4, <1>5 DEF target, driver, translator, logging

\* A query gives every reserved key the value that it was given.
LEMMA EntryRead ==
    ASSUME NEW parameters, NEW entries, NEW key \in DOMAIN entries, key \notin DOMAIN parameters
    PROVE  QueryGet(Query(parameters, entries), key) = entries[key]
  BY DEF QueryGet, Query

\* The options that a DSN stands for: those it does not carry are not set, and a
\* host that is not set is localhost.
Carried(o) ==
    LET n == Normalized(o)
    IN [input |-> n.input, target |-> n.target, driver |-> n.driver, user |-> n.user, password |-> n.password,
        host |-> Or(n.host, "localhost"), port |-> n.port, database |-> n.database, parameters |-> n.parameters,
        translator |-> [input |-> n.input, target |-> n.target],
        encryption |-> [enabled |-> n.encryption.enabled, key |-> n.encryption.key, provider |-> Unset],
        logging |-> n.logging]

\* Options of which a DSN keeps the parameters and the host.
Writable(o) ==
    /\ \A k \in DOMAIN o.parameters : LowerKey[k] \notin ReservedKeys
    /\ UrlHost[Or(o.host, "localhost")] = [name |-> Or(o.host, "localhost"), port |-> Unset]

\* What is normalized already changes in the translator's dialects only.
LEMMA NormalizedAgain ==
    ASSUME NEW o, Fields(o), NEW c, Fields(c),
           LET n == Normalized(o) IN
              /\ c.input = n.input /\ c.target = n.target /\ c.driver = n.driver /\ c.logging = n.logging
              /\ c.translator.input \in {Unset, n.input} /\ c.translator.target \in {Unset, n.target}
    PROVE  Normalized(c) = [input |-> c.input, target |-> c.target, driver |-> c.driver, user |-> c.user,
                            password |-> c.password, host |-> c.host, port |-> c.port, database |-> c.database,
                            parameters |-> c.parameters, translator |-> [input |-> c.input, target |-> c.target],
                            encryption |-> c.encryption, logging |-> c.logging]
<1>. DEFINE n == Normalized(o)
<1>1. /\ Fields(n) /\ n.input = o.input /\ n.target = Or(o.target, o.input)
      /\ n.driver = Or(o.driver, DriverForDialect(n.target)) /\ n.logging = NormalizedLogging(o.logging)
  BY NormalizedFields
<1>2. /\ Fields(n) /\ n.target = Or(o.target, n.input) /\ n.driver = Or(o.driver, DriverForDialect(n.target))
      /\ n.logging = NormalizedLogging(o.logging)
  BY <1>1 DEF Or
<1>3. /\ c.input = n.input /\ c.target = n.target /\ c.driver = n.driver /\ c.logging = n.logging
      /\ c.translator.input \in {Unset, n.input} /\ c.translator.target \in {Unset, n.target}
  OBVIOUS
<1>. DEFINE m == Normalized(c)
<1>4. /\ Fields(m)
      /\ m.input = c.input /\ m.target = Or(c.target, c.input)
      /\ m.driver = Or(c.driver, DriverForDialect(m.target))
      /\ m.user = c.user /\ m.password = c.password /\ m.host = c.host /\ m.port = c.port
      /\ m.database = c.database /\ m.parameters = c.parameters
      /\ m.translator = [input |-> Or(c.translator.input, c.input), target |-> Or(c.translator.target, m.target)]
      /\ m.encryption = c.encryption /\ m.logging = NormalizedLogging(c.logging)
  BY NormalizedFields
<1>. HIDE DEF n, m
<1>5. m.target = c.target
  BY <1>2, <1>3, <1>4 DEF Or
<1>6. m.driver = c.driver
  <2>1. n.driver # Unset
    BY <1>2, SetTexts DEF Or
  <2>. QED
    BY <1>3, <1>4, <2>1 DEF Or
<1>7. m.translator = [input |-> c.input, target |-> c.target]
  BY <1>3, <1>4, <1>5 DEF Or
<1>8. m.logging = c.logging
  <2>1. /\ n.logging.failedSQL => n.logging.translatePath # Unset /\ n.logging.executionPath # Unset
        /\ n.logging = [failedSQL |-> n.logging.failedSQL, translatePath |-> n.logging.translatePath,
                        executionPath |-> n.logging.executionPath]
    <3>1. /\ o.logging = [failedSQL |-> o.logging.failedSQL, translatePath |-> o.logging.translatePath,
                          executionPath |-> o.logging.executionPath]
          /\ o.logging.failedSQL \in BOOLEAN
      BY DEF Fields
    <3>. QED
      BY <1>2, <3>1, LoggingFields
  <2>. DEFINE l == n.logging
  <2>2. CASE l.failedSQL
    <3>1. NormalizedLogging(l) = [l EXCEPT !.translatePath = l.translatePath, !.executionPath = l.executionPath]
      BY <2>1, <2>2 DEF NormalizedLogging, Or
    <3>. HIDE DEF l
    <3>2. NormalizedLogging(l) = l
      BY <2>1, <3>1 DEF l
    <3>. QED
      BY <1>3, <1>4, <3>2 DEF l
  <2>3. CASE ~l.failedSQL
    BY <1>3, <1>4, <2>3 DEF NormalizedLogging
  <2>. QED
    BY <2>2, <2>3
<1>. QED
  BY <1>4, <1>5, <1>6, <1>7, <1>8 DEF Fields, m

LEMMA CarriedFields ==
    ASSUME NEW o, Fields(o)
    PROVE  Fields(Carried(o)) /\ Normalized(Carried(o)) = Carried(o)
<1>. DEFINE n == Normalized(o)
            c == Carried(o)
<1>1. Fields(n)
  BY NormalizedFields
<1>2. /\ c.input = n.input /\ c.target = n.target /\ c.driver = n.driver
      /\ c.port = n.port /\ c.parameters = n.parameters /\ c.logging = n.logging
      /\ c.translator = [input |-> n.input, target |-> n.target]
      /\ c.encryption = [enabled |-> n.encryption.enabled, key |-> n.encryption.key, provider |-> Unset]
      /\ c = [input |-> c.input, target |-> c.target, driver |-> c.driver, user |-> c.user, password |-> c.password,
              host |-> c.host, port |-> c.port, database |-> c.database, parameters |-> c.parameters,
              translator |-> c.translator, encryption |-> c.encryption, logging |-> c.logging]
  BY DEF Carried
<1>. HIDE DEF c, n
<1>3. Fields(c)
  BY <1>1, <1>2 DEF Fields
<1>4. Normalized(c) = [input |-> c.input, target |-> c.target, driver |-> c.driver, user |-> c.user,
                       password |-> c.password, host |-> c.host, port |-> c.port, database |-> c.database,
                       parameters |-> c.parameters, translator |-> [input |-> c.input, target |-> c.target],
                       encryption |-> c.encryption, logging |-> c.logging]
  BY <1>2, <1>3, NormalizedAgain DEF n
<1>. QED
  BY <1>2, <1>3, <1>4 DEF c

\* FormatDSN and then ParseDSN.
LEMMA RoundTrip ==
    ASSUME NEW o, Fields(o), Writable(o)
    PROVE  ParseDSN(FormatDSN(o)) = Carried(o) /\ Carried(o) # Refused
<1>. DEFINE n == Normalized(o)
            host == Or(n.host, "localhost")
            query == Query(n.parameters, Entries(n))
            Get(key) == QueryGet(query, key)
            parameters == {k \in DOMAIN query : LowerKey[k] \notin ReservedKeys}
            parsed == [input |-> Get("input"), target |-> Get("target"), driver |-> Get("driver"),
                       user |-> n.user, password |-> n.password, host |-> host, port |-> n.port,
                       database |-> Or(Get("database"), Unset),
                       parameters |-> [k \in parameters |-> query[k]],
                       translator |-> [input |-> Unset, target |-> Unset],
                       encryption |-> [enabled |-> Get("encrypt_enabled") = "true", key |-> Get("encrypt_key"),
                                       provider |-> Unset],
                       logging |-> [failedSQL |-> Get("log_failed_sql") = "true",
                                    translatePath |-> Get("translate_failure_log_path"),
                                    executionPath |-> Get("execution_failure_log_path")]]
<1>1. /\ Fields(n) /\ n.input = o.input /\ n.target = Or(o.target, o.input) /\ n.driver = Or(o.driver, DriverForDialect(n.target))
      /\ n.host = o.host /\ n.parameters = o.parameters
  BY NormalizedFields
<1>2. \A k \in DOMAIN n.parameters : LowerKey[k] \notin ReservedKeys
  BY <1>1 DEF Writable
<1>3. DOMAIN Entries(n) = ReservedKeys
  BY DEF Entries, ReservedKeys
<1>4. \A key \in ReservedKeys : Get(key) = Entries(n)[key]
  BY <1>2, <1>3, EntryRead, LowerKeyAssumption
<1>5. /\ Get("input") = n.input /\ Get("target") = n.target /\ Get("driver") = n.driver
      /\ Get("database") = n.database /\ Get("port") = n.port
      /\ Get("encrypt_enabled") = Flag(n.encryption.enabled) /\ Get("encrypt_key") = n.encryption.key
      /\ Get("log_failed_sql") = Flag(n.logging.failedSQL)
      /\ Get("translate_failure_log_path") = n.logging.translatePath
      /\ Get("execution_failure_log_path") = n.logging.executionPath
  <2>. HIDE DEF Get, n
  <2>. QED
    BY <1>4 DEF Entries, ReservedKeys
<1>6. \A b \in BOOLEAN : (Flag(b) = "true") = b
  BY SetTexts DEF Flag
<1>7. parameters = DOMAIN n.parameters
  BY <1>2, <1>3, LowerKeyAssumption DEF Query
<1>8. [k \in parameters |-> query[k]] = n.parameters
  <2>1. \A k \in DOMAIN n.parameters : query[k] = n.parameters[k]
    BY DEF Query
  <2>2. n.parameters = [k \in DOMAIN n.parameters |-> n.parameters[k]]
    BY <1>1 DEF Fields
  <2>. HIDE DEF query, n, parameters
  <2>. QED
    BY <1>7, <2>1, <2>2
<1>9. ParseDSN(FormatDSN(o)) = Normalized(parsed)
  <2>. DEFINE dsn == FormatDSN(o)
  <2>1. dsn.user = n.user /\ dsn.password = n.password /\ dsn.host = host /\ dsn.path = Unset /\ dsn.query = query
    BY DEF FormatDSN
  <2>2. UrlHost[host] = [name |-> host, port |-> Unset]
    BY <1>1 DEF Writable
  <2>3. Or(UrlHost[host].port, Get("port")) = n.port /\ n.port \in Ports \cup {Unset}
    BY <1>1, <1>5, <2>2 DEF Or, Fields
  <2>. HIDE DEF n, host, query, dsn
  <2>. QED
    BY <2>1, <2>2, <2>3 DEF ParseDSN, dsn
<1>10. parsed = [input |-> n.input, target |-> n.target, driver |-> n.driver, user |-> n.user, password |-> n.password,
                 host |-> host, port |-> n.port, database |-> n.database, parameters |-> n.parameters,
                 translator |-> [input |-> Unset, target |-> Unset],
                 encryption |-> [enabled |-> n.encryption.enabled, key |-> n.encryption.key, provider |-> Unset],
                 logging |-> n.logging]
  <2>1. (Get("encrypt_enabled") = "true") = n.encryption.enabled /\ (Get("log_failed_sql") = "true") = n.logging.failedSQL
    BY <1>1, <1>5, <1>6 DEF Fields
  <2>2. n.logging = [failedSQL |-> n.logging.failedSQL, translatePath |-> n.logging.translatePath,
                     executionPath |-> n.logging.executionPath]
    BY <1>1 DEF Fields
  <2>3. Or(n.database, Unset) = n.database
    BY DEF Or
  <2>. HIDE DEF n, host, Get, query, parameters
  <2>. QED
    BY <1>5, <1>8, <2>1, <2>2, <2>3
<1>11. Normalized(parsed) = Carried(o)
  <2>. DEFINE p == parsed
  <2>1. /\ p.input = n.input /\ p.target = n.target /\ p.driver = n.driver /\ p.logging = n.logging
        /\ p.user = n.user /\ p.password = n.password /\ p.host = host /\ p.port = n.port /\ p.database = n.database
        /\ p.parameters = n.parameters /\ p.translator = [input |-> Unset, target |-> Unset]
        /\ p.encryption = [enabled |-> n.encryption.enabled, key |-> n.encryption.key, provider |-> Unset]
        /\ p = [input |-> p.input, target |-> p.target, driver |-> p.driver, user |-> p.user, password |-> p.password,
                host |-> p.host, port |-> p.port, database |-> p.database, parameters |-> p.parameters,
                translator |-> p.translator, encryption |-> p.encryption, logging |-> p.logging]
    <3>. HIDE DEF n, host, Get, query, parameters
    <3>. QED
      BY <1>10
  <2>2. Carried(o) = [input |-> n.input, target |-> n.target, driver |-> n.driver, user |-> n.user,
                      password |-> n.password, host |-> host, port |-> n.port, database |-> n.database,
                      parameters |-> n.parameters, translator |-> [input |-> n.input, target |-> n.target],
                      encryption |-> [enabled |-> n.encryption.enabled, key |-> n.encryption.key, provider |-> Unset],
                      logging |-> n.logging]
    BY DEF Carried
  <2>. HIDE DEF parsed, p
  <2>3. Fields(p)
    <3>. HIDE DEF n, host
    <3>. QED
      BY <1>1, <2>1 DEF Fields
  <2>4. Normalized(p) = [input |-> p.input, target |-> p.target, driver |-> p.driver, user |-> p.user,
                         password |-> p.password, host |-> p.host, port |-> p.port, database |-> p.database,
                         parameters |-> p.parameters, translator |-> [input |-> p.input, target |-> p.target],
                         encryption |-> p.encryption, logging |-> p.logging]
    BY <2>1, <2>3, NormalizedAgain
  <2>. QED
    BY <2>1, <2>2, <2>4 DEF p
<1>12. Carried(o) # Refused
  BY DEF Carried, Refused
<1>. QED
  BY <1>9, <1>11, <1>12

\* Connectors of options and of what a DSN carries of them.
LEMMA ConnectorsAgree ==
    ASSUME NEW o, Fields(o), Expressible(o)
    PROVE  /\ Loopback(NewConnector(Carried(o))) = Loopback(NewConnector(o))
           /\ (NewConnector(Carried(o)) = Refused) = (NewConnector(o) = Refused)
           /\ Normalized(Normalized(o)) = Normalized(o)
<1>. DEFINE n == Normalized(o)
            c == Carried(o)
<1>1. /\ Fields(n) /\ n.input = o.input
      /\ n.translator = [input |-> Or(o.translator.input, o.input), target |-> Or(o.translator.target, n.target)]
  BY NormalizedFields
<1>2. n.translator = [input |-> n.input, target |-> n.target]
  BY <1>1 DEF Expressible, Or
<1>3. Normalized(n) = n
  <2>1. Normalized(n) = [input |-> n.input, target |-> n.target, driver |-> n.driver, user |-> n.user,
                         password |-> n.password, host |-> n.host, port |-> n.port, database |-> n.database,
                         parameters |-> n.parameters, translator |-> [input |-> n.input, target |-> n.target],
                         encryption |-> n.encryption, logging |-> n.logging]
    BY <1>1, <1>2, NormalizedAgain
  <2>. HIDE DEF n
  <2>. QED
    BY <1>1, <1>2, <2>1 DEF Fields
<1>4. Normalized(c) = c
  BY CarriedFields
<1>5. /\ c.driver = n.driver /\ c.user = n.user /\ c.password = n.password /\ c.host = Or(n.host, "localhost")
      /\ c.port = n.port /\ c.database = n.database /\ c.parameters = n.parameters
      /\ c.translator = n.translator /\ c.logging = n.logging
  BY <1>2 DEF Carried
<1>. DEFINE H(host) == IF host = "localhost" THEN "127.0.0.1" ELSE host
            A == BuildDriverDSN(n)
            B == BuildDriverDSN(c)
            Connector(address) == [address |-> address, translator |-> n.translator, logging |-> n.logging]
<1>. HIDE DEF n, c
<1>6. H(Or(c.host, "127.0.0.1")) = H(Or(n.host, "127.0.0.1"))
  BY <1>5, SetTexts DEF Or
<1>7. \/ A = Refused /\ B = Refused
      \/ A # Refused /\ A = B /\ A.driver = "sqlite"
      \/ /\ A # Refused /\ B # Refused /\ A.driver # "sqlite" /\ B.driver # "sqlite"
         /\ A = [driver |-> A.driver, host |-> A.host, port |-> A.port, user |-> A.user, password |-> A.password,
                 database |-> A.database, parameters |-> A.parameters]
         /\ B = [driver |-> A.driver, host |-> B.host, port |-> A.port, user |-> A.user, password |-> A.password,
                 database |-> A.database, parameters |-> A.parameters]
         /\ H(A.host) = H(B.host)
  <2>1. CASE n.driver = "sqlite"
    BY <1>3, <1>4, <1>5, <2>1 DEF BuildDriverDSN, Refused
  <2>2. CASE n.driver = "mysql"
    <3>. HIDE DEF H
    <3>1. /\ A = Address("mysql", n, Or(n.host, "127.0.0.1"), Or(n.port, "3306"), n.parameters)
          /\ B = Address("mysql", c, Or(c.host, "127.0.0.1"), Or(c.port, "3306"), c.parameters)
      BY <1>3, <1>4, <1>5, <2>2 DEF BuildDriverDSN
    <3>. HIDE DEF A, B
    <3>. QED
      BY <1>5, <1>6, <3>1 DEF Address, Refused
  <2>3. CASE n.driver = "postgres"
    <3>. DEFINE P == [k \in {PostgresKey(x) : x \in DOMAIN n.parameters} |->
                        LET from == CHOOSE x \in DOMAIN n.parameters : PostgresKey(x) = k
                        IN n.parameters[from]]
    <3>. HIDE DEF H
    <3>1. /\ A = Address("postgres", n, Or(n.host, "127.0.0.1"), Or(n.port, "5432"), P)
          /\ B = Address("postgres", c, Or(c.host, "127.0.0.1"), Or(c.port, "5432"), P)
      BY <1>3, <1>4, <1>5, <2>3 DEF BuildDriverDSN
    <3>. HIDE DEF A, B, P
    <3>. QED
      BY <1>5, <1>6, <3>1 DEF Address, Refused
  <2>4. CASE n.driver \notin {"sqlite", "mysql", "postgres"}
    BY <1>3, <1>4, <1>5, <2>4 DEF BuildDriverDSN
  <2>. QED
    BY <2>1, <2>2, <2>3, <2>4
<1>8. NewConnector(o) = IF n.translator.input = Unset \/ A = Refused THEN Refused ELSE Connector(A)
  BY DEF NewConnector, n
<1>9. NewConnector(c) = IF n.translator.input = Unset \/ B = Refused THEN Refused ELSE Connector(B)
  BY <1>4, <1>5 DEF NewConnector
<1>10. \A x : Connector(x) # Refused
  BY DEF Refused
<1>. HIDE DEF A, B
<1>11. (NewConnector(c) = Refused) = (NewConnector(o) = Refused)
  <2>. HIDE DEF Connector
  <2>. QED
    BY <1>7, <1>8, <1>9, <1>10
<1>12. Loopback(NewConnector(c)) = Loopback(NewConnector(o))
  <2>1. CASE n.translator.input = Unset \/ A = Refused \/ A = B
    <3>. HIDE DEF Connector, H
    <3>. QED
      BY <1>7, <1>8, <1>9, <2>1
  <2>2. CASE n.translator.input # Unset /\ A # Refused /\ A # B
    <3>1. /\ B # Refused /\ A.driver # "sqlite" /\ B.driver # "sqlite" /\ H(A.host) = H(B.host)
          /\ A = [driver |-> A.driver, host |-> A.host, port |-> A.port, user |-> A.user, password |-> A.password,
                 database |-> A.database, parameters |-> A.parameters]
          /\ B = [driver |-> A.driver, host |-> B.host, port |-> A.port, user |-> A.user, password |-> A.password,
                 database |-> A.database, parameters |-> A.parameters]
      BY <1>7, <2>2
    <3>2. Loopback(Connector(A)) = [Connector(A) EXCEPT !.address.host = H(A.host)]
      BY <1>10, <3>1 DEF Loopback
    <3>3. Loopback(Connector(B)) = [Connector(B) EXCEPT !.address.host = H(B.host)]
      BY <1>10, <3>1 DEF Loopback
    <3>. HIDE DEF H
    <3>4. [A EXCEPT !.host = H(A.host)] = [B EXCEPT !.host = H(B.host)]
      BY <3>1
    <3>5. /\ [Connector(A) EXCEPT !.address.host = H(A.host)] = Connector([A EXCEPT !.host = H(A.host)])
          /\ [Connector(B) EXCEPT !.address.host = H(B.host)] = Connector([B EXCEPT !.host = H(B.host)])
      OBVIOUS
    <3>. HIDE DEF Connector
    <3>. QED
      BY <1>8, <1>9, <2>2, <3>1, <3>2, <3>3, <3>4, <3>5
  <2>. QED
    BY <2>1, <2>2
<1>. QED
  BY <1>3, <1>11, <1>12 DEF c, n

GormTargets == {"sqlite", "postgres", "mysql"}

\* What a dialector's connection is made of, whether OpenGORM or
\* OpenGORMWithOptions made it.
LEMMA DialectorConnects ==
    ASSUME NEW a, IsOptions(a.options), a.via \in {"options", "dsn"}, Expressible(a.options)
    PROVE  LET o == a.options
               d == Dialector(a)
           IN IF Normalized(o).target \notin GormTargets THEN d = Refused
              ELSE /\ d # Refused
                   /\ NewConnectorFromDSN(d.dsn) = NewConnector(Carried(o))
                   /\ o.encryption.enabled /\ (a.via = "dsn" => o.encryption.provider = Unset)
                        => d.encryptor = Or(o.encryption.provider, o.encryption.key)
<1>. DEFINE o == a.options
            n == Normalized(o)
            c == Carried(o)
            d == Dialector(a)
<1>1. Fields(o) /\ Writable(o)
  BY OptionsFields DEF Expressible, Writable
<1>2. /\ Fields(n) /\ n.host = o.host /\ n.parameters = o.parameters /\ n.encryption = o.encryption
      /\ Fields(c) /\ Normalized(c) = c /\ Normalized(n) = n
  BY <1>1, NormalizedFields, CarriedFields, ConnectorsAgree
<1>3. /\ c.host = Or(n.host, "localhost") /\ c.parameters = n.parameters /\ c.target = n.target
      /\ c.translator = [input |-> c.input, target |-> c.target]
      /\ c.encryption = [enabled |-> o.encryption.enabled, key |-> o.encryption.key, provider |-> Unset]
  BY <1>2 DEF Carried
<1>4. Or(c.host, "localhost") = c.host
  BY <1>3, SetTexts DEF Or
<1>5. Writable(n) /\ Writable(c)
  BY <1>1, <1>2, <1>3, <1>4 DEF Writable
<1>6. Carried(n) = c
  BY <1>2 DEF Carried
<1>7. Carried(c) = c
  <2>1. Carried(c) = [input |-> c.input, target |-> c.target, driver |-> c.driver, user |-> c.user,
                      password |-> c.password, host |-> c.host, port |-> c.port, database |-> c.database,
                      parameters |-> c.parameters, translator |-> c.translator,
                      encryption |-> c.encryption, logging |-> c.logging]
    <3>1. Carried(c) = [input |-> c.input, target |-> c.target, driver |-> c.driver, user |-> c.user,
                        password |-> c.password, host |-> Or(c.host, "localhost"), port |-> c.port,
                        database |-> c.database, parameters |-> c.parameters,
                        translator |-> [input |-> c.input, target |-> c.target],
                        encryption |-> [enabled |-> c.encryption.enabled, key |-> c.encryption.key, provider |-> Unset],
                        logging |-> c.logging]
      BY <1>2 DEF Carried
    <3>. HIDE DEF c, o
    <3>. QED
      BY <1>3, <1>4, <3>1
  <2>. HIDE DEF c
  <2>. QED
    BY <1>2, <2>1 DEF Fields
\* Through one DSN.
<1>8. ASSUME NEW x, Fields(x), Writable(x), Normalized(x) = x, Carried(x) = c, x.target = n.target
      PROVE  IF n.target \notin GormTargets THEN OpenGORMWithOptions(x) = Refused
             ELSE /\ OpenGORMWithOptions(x) # Refused
                  /\ NewConnectorFromDSN(OpenGORMWithOptions(x).dsn) = NewConnector(c)
                  /\ x.encryption.enabled
                       => OpenGORMWithOptions(x).encryptor = Or(x.encryption.provider, x.encryption.key)
  <2>1. ParseDSN(FormatDSN(x)) = c /\ c # Refused
    BY <1>8, RoundTrip
  <2>2. NewConnectorFromDSN(FormatDSN(x)) = NewConnector(c)
    BY <2>1 DEF NewConnectorFromDSN
  <2>. HIDE DEF n, c
  <2>3. OpenGORMWithOptions(x) =
            IF n.target \notin GormTargets THEN Refused
            ELSE [dsn |-> FormatDSN(x),
                  encryptor |-> IF x.encryption.enabled THEN Or(x.encryption.provider, x.encryption.key) ELSE Unset]
    BY <1>8 DEF OpenGORMWithOptions, GormTargets
  <2>4. CASE n.target \in GormTargets
    <3>. DEFINE e == IF x.encryption.enabled THEN Or(x.encryption.provider, x.encryption.key) ELSE Unset
    <3>. HIDE DEF e
    <3>1. OpenGORMWithOptions(x) = [dsn |-> FormatDSN(x), encryptor |-> e]
      BY <2>3, <2>4 DEF e
    <3>2. OpenGORMWithOptions(x) # Refused
      BY <3>1 DEF Refused
    <3>3. x.encryption.enabled => e = Or(x.encryption.provider, x.encryption.key)
      BY DEF e
    <3>. QED
      BY <2>2, <2>4, <3>1, <3>2, <3>3
  <2>5. CASE n.target \notin GormTargets
    BY <2>3, <2>5
  <2>. QED
    BY <2>4, <2>5
<1>9. CASE a.via = "options"
  <2>1. OpenGORMWithOptions(o) = OpenGORMWithOptions(n)
    BY <1>2 DEF OpenGORMWithOptions
  <2>2. d = OpenGORMWithOptions(n)
    BY <1>9, <2>1 DEF Dialector
  <2>. HIDE DEF d, n, c
  <2>. QED
    BY <1>2, <1>5, <1>6, <1>8, <1>9, <2>2 DEF n, c, d
\* Through two.
<1>10. CASE a.via = "dsn"
  <2>1. ParseDSN(FormatDSN(o)) = c /\ c # Refused
    BY <1>1, RoundTrip
  <2>2. d = OpenGORMWithOptions(c)
    BY <1>10, <2>1 DEF Dialector, OpenGORM
  <2>3. /\ c.encryption.enabled = o.encryption.enabled
        /\ Or(c.encryption.provider, c.encryption.key) = o.encryption.key
        /\ Or(Unset, o.encryption.key) = o.encryption.key
    BY <1>3 DEF Or
  <2>. HIDE DEF d, n, c
  <2>. QED
    BY <1>2, <1>3, <1>5, <1>7, <1>8, <1>10, <2>2, <2>3 DEF n, c, d
<1>. QED
  BY <1>9, <1>10

\* What a handle has is what its dialector makes of its options.
Assembled ==
    /\ assigned \in Assignments
    /\ \A h \in Handles :
          LET d == Dialector(assigned[h])
              connector == NewConnectorFromDSN(d.dsn)
          IN /\ phase[h] = "open" => d # Refused /\ connector # Refused /\ conn[h] = connector /\ encryptor[h] = d.encryptor
             /\ phase[h] = "refused" => d = Refused \/ connector = Refused

\* Whatever handles do, an open one has the connector and the encryptor of the options
\* it was given, and one is refused only where its options are (gorm.go:12-68).
THEOREM HandlesAssembled == Spec => []Assembled
<1>1. Init => Assembled
  BY DEF Init, Assembled
<1>2. Inv /\ Assembled /\ [Next]_vars => Assembled'
  <2>1. ASSUME Inv, Assembled, NEW h \in Handles, Open(h) PROVE Assembled'
    <3>. SUFFICES ASSUME NEW g \in Handles
                  PROVE  LET d == Dialector(assigned[g])
                             connector == NewConnectorFromDSN(d.dsn)
                         IN /\ phase'[g] = "open" => d # Refused /\ connector # Refused
                                                     /\ conn'[g] = connector /\ encryptor'[g] = d.encryptor
                            /\ phase'[g] = "refused" => d = Refused \/ connector = Refused
      BY <2>1 DEF Open, Assembled
    <3>. DEFINE d == Dialector(assigned[h])
                connector == NewConnectorFromDSN(d.dsn)
    <3>1. \/ /\ d = Refused \/ connector = Refused
             /\ phase' = [phase EXCEPT ![h] = "refused"] /\ UNCHANGED <<conn, encryptor>>
          \/ /\ d # Refused /\ connector # Refused
             /\ phase' = [phase EXCEPT ![h] = "open"]
             /\ conn' = [conn EXCEPT ![h] = connector]
             /\ encryptor' = [encryptor EXCEPT ![h] = d.encryptor]
      BY <2>1, Zenon DEF Open
    <3>2. DOMAIN phase = Handles /\ DOMAIN conn = Handles /\ DOMAIN encryptor = Handles
      BY <2>1 DEF Inv, Types
    <3>3. CASE g # h
      <4>1. phase'[g] = phase[g] /\ conn'[g] = conn[g] /\ encryptor'[g] = encryptor[g]
        <5>. HIDE DEF d, connector
        <5>. QED
          BY <3>1, <3>2, <3>3
      <4>. QED
        BY <2>1, <4>1 DEF Assembled
    <3>4. CASE g = h
      <4>. HIDE DEF d, connector
      <4>. QED
        BY <3>1, <3>2, <3>4 DEF d, connector
    <3>. QED
      BY <3>3, <3>4
  <2>2. ASSUME Assembled, UNCHANGED <<assigned, phase, conn, encryptor>> PROVE Assembled'
    BY <2>2 DEF Assembled
  <2>3. \A h \in Handles : Find(h) => UNCHANGED <<assigned, phase, conn, encryptor>>
    BY DEF Find
  <2>4. \A h \in Handles, r \in Rows, p \in Plains : Assign(h, r, p) => UNCHANGED <<assigned, phase, conn, encryptor>>
    BY DEF Assign
  <2>5. \A h \in Handles, r \in Rows, p \in Plains, fails \in BOOLEAN :
           Update(h, r, p, fails) => UNCHANGED <<assigned, phase, conn, encryptor>>
    BY DEF Update
  <2>6. \A h \in Handles, failing \in SUBSET Rows : Save(h, failing) => UNCHANGED <<assigned, phase, conn, encryptor>>
    BY DEF Save
  <2>7. UNCHANGED vars => UNCHANGED <<assigned, phase, conn, encryptor>>
    BY DEF vars
  <2>. QED
    BY <2>1, <2>2, <2>3, <2>4, <2>5, <2>6, <2>7 DEF Next
<1>. QED
  BY <1>1, <1>2, GormInvariant, PTL DEF Spec

\* Whatever the options, as long as a DSN can carry them: a handle is connected to
\* what OpenWithOptions connects to, although the options went through one DSN or
\* two, it has the encryptor of the options, and it is refused only where they are
\* (types.go:130-185, dsn.go:12-90, gorm.go:12-68).
THEOREM OptionsCarried == Spec => []OptionsSurvive
<1>1. Assembled => OptionsSurvive
  <2>. SUFFICES ASSUME Assembled, NEW h \in Handles, Expressible(assigned[h].options)
                PROVE  LET o == assigned[h].options
                           direct == NewConnector(o)
                       IN /\ phase[h] = "open" =>
                                /\ Loopback(conn[h]) = Loopback(direct)
                                /\ o.encryption.enabled /\ (assigned[h].via = "dsn" => o.encryption.provider = Unset)
                                     => encryptor[h] = Or(o.encryption.provider, o.encryption.key)
                          /\ phase[h] = "refused" => direct = Refused \/ Normalized(o).target \notin GormTargets
    BY DEF OptionsSurvive, GormTargets
  <2>. DEFINE a == assigned[h]
              o == a.options
              d == Dialector(a)
              connector == NewConnectorFromDSN(d.dsn)
  <2>1. IsOptions(o) /\ a.via \in {"options", "dsn"}
    BY AssignmentsAssumption DEF Assembled
  <2>2. IF Normalized(o).target \notin GormTargets THEN d = Refused
        ELSE /\ d # Refused
             /\ connector = NewConnector(Carried(o))
             /\ o.encryption.enabled /\ (a.via = "dsn" => o.encryption.provider = Unset)
                  => d.encryptor = Or(o.encryption.provider, o.encryption.key)
    BY <2>1, DialectorConnects
  <2>3. /\ Loopback(NewConnector(Carried(o))) = Loopback(NewConnector(o))
        /\ (NewConnector(Carried(o)) = Refused) = (NewConnector(o) = Refused)
    BY <2>1, OptionsFields, ConnectorsAgree
  <2>4. /\ phase[h] = "open" => d # Refused /\ connector # Refused /\ conn[h] = connector /\ encryptor[h] = d.encryptor
        /\ phase[h] = "refused" => d = Refused \/ connector = Refused
    BY DEF Assembled
  <2>. HIDE DEF o, d, connector, a
  <2>. QED
    BY <2>2, <2>3, <2>4 DEF o, a
<1>. QED
  BY <1>1, HandlesAssembled, PTL
=============================================================================
