-------------------------------- MODULE Gorm --------------------------------
(***************************************************************************)
(* Programs that open databases through the GORM dialectors of gorm.go and *)
(* keep rows with a field tagged `encrypt` in them (encryptor.go). A       *)
(* handle is a *gorm.DB with the objects which its program holds; handles  *)
(* of other options may work on the same rows, with another key, with a    *)
(* provider of their own or with no encryption.                            *)
(*                                                                         *)
(* The callbacks convert the fields of the program's objects in place. A   *)
(* field that cannot be encrypted adds an error to the statement and the   *)
(* walk goes on; GORM (external) then does not run the statement. GORM     *)
(* gives the callbacks the object of a Create, Save or Find; of an update  *)
(* by column it gives them the model and not the new value.                *)
(*                                                                         *)
(* A text is [plain, keys]: what it was, and the encryptors it went        *)
(* through, the last one last. AES-GCM is external: a text opens with the  *)
(* encryptor that sealed it and with no other.                             *)
(***************************************************************************)
EXTENDS Options, Sequences, SequencesExt

CONSTANTS Handles, Rows,
          Assignments,   \* functions from handles to [options, via, maxSteps]
          Plains,        \* plain texts
          PrefixedPlains,  \* those that begin with DefaultCipherPrefix
          Prefixing      \* encryptors that write DefaultCipherPrefix: NewDefaultEncryptor's, of any key

ASSUME AssignmentsAssumption ==
    \A a \in Assignments : \A h \in Handles :
        IsOptions(a[h].options) /\ a[h].via \in {"options", "dsn"} /\ a[h].maxSteps \in Nat

VARIABLES assigned,  \* options and via of every handle, and maxSteps, which bounds steps for it
          phase,     \* "closed", "open" or "refused"
          conn,      \* the connector of an open handle
          encryptor, \* its encryptor, or Unset
          objects,   \* the field in the objects that a program holds
          stored,    \* the field in the rows of each address
          given,     \* history: what the program of a handle last gave, or found
          intended,  \* history: what was given for a row when it was stored
          plainBy,   \* history: rows that were stored without an encryptor having to convert them
          steps      \* taken by the programs so far

vars == <<assigned, phase, conn, encryptor, objects, stored, given, intended, plainBy, steps>>

Plain(p) == [plain |-> p, keys |-> << >>]
Zero == Plain(Unset)

IsPrefixed(text) ==
    IF text.keys = << >> THEN text.plain \in PrefixedPlains ELSE Last(text.keys) \in Prefixing

NewRows == [r \in Rows |-> Zero]
With(f, address, value) == [x \in DOMAIN f \cup {address} |-> IF x = address THEN value ELSE f[x]]
At(f, address, default) == IF address \in DOMAIN f THEN f[address] ELSE default

Init ==
    /\ assigned \in Assignments
    /\ phase = [h \in Handles |-> "closed"]
    /\ conn = [h \in Handles |-> Refused]
    /\ encryptor = [h \in Handles |-> Unset]
    /\ objects = [h \in Handles |-> NewRows]
    /\ stored = << >> /\ intended = << >> /\ plainBy = << >>
    /\ given = [h \in Handles |-> [r \in Rows |-> Unset]]
    /\ steps = 0

-----------------------------------------------------------------------------
(* gorm.go *)

\* OpenGORMWithOptions takes the encryptor of the options, the connection has a DSN.
OpenGORMWithOptions(o) ==
    LET n == Normalized(o)
    IN IF n.target \notin {"sqlite", "postgres", "mysql"} THEN Refused
       ELSE [dsn |-> FormatDSN(n),
             encryptor |-> IF n.encryption.enabled THEN Or(n.encryption.provider, n.encryption.key) ELSE Unset]

OpenGORM(dsn) == LET o == ParseDSN(dsn) IN IF o = Refused THEN Refused ELSE OpenGORMWithOptions(o)

Dialector(a) ==
    IF a.via = "dsn" THEN OpenGORM(FormatDSN(a.options)) ELSE OpenGORMWithOptions(a.options)

\* Mutant: an error of the base dialector's Initialize is dropped.
OpenDespiteErrors(h) ==
    LET dialector == Dialector(assigned[h])
    IN /\ phase[h] = "closed" /\ dialector # Refused
       /\ phase' = [phase EXCEPT ![h] = "open"]
       /\ conn' = [conn EXCEPT ![h] = NewConnectorFromDSN(dialector.dsn)]
       /\ encryptor' = [encryptor EXCEPT ![h] = dialector.encryptor]
       /\ UNCHANGED <<assigned, objects, stored, given, intended, plainBy, steps>>

\* Initialize opens the base dialector's connection and registers the callbacks.
Open(h) ==
    LET dialector == Dialector(assigned[h])
        connector == NewConnectorFromDSN(dialector.dsn)
    IN /\ phase[h] = "closed"
       /\ IF dialector = Refused \/ connector = Refused
          THEN phase' = [phase EXCEPT ![h] = "refused"] /\ UNCHANGED <<conn, encryptor>>
          ELSE /\ phase' = [phase EXCEPT ![h] = "open"]
               /\ conn' = [conn EXCEPT ![h] = connector]
               /\ encryptor' = [encryptor EXCEPT ![h] = dialector.encryptor]
       /\ UNCHANGED <<assigned, objects, stored, given, intended, plainBy, steps>>

-----------------------------------------------------------------------------
(* encryptor.go *)

\* Mutant: a text that is encrypted already is encrypted again.
KeptIfZero(text) == text = Zero

\* encryptFields leaves these as they are.
Kept(text) == text = Zero \/ IsPrefixed(text)

Convertible(rows) == {r \in DOMAIN rows : ~Kept(rows[r])}

Encrypt(key, text) == [text EXCEPT !.keys = Append(@, key)]

\* walkModel with encryptFields; failing are the rows whose text Encrypt refuses.
EncryptFields(key, rows, failing) ==
    [r \in DOMAIN rows |-> IF r \in Convertible(rows) \ failing THEN Encrypt(key, rows[r]) ELSE rows[r]]

\* Decrypt fails for another key and for a text that only looks like one; the text stays.
DecryptField(key, text) ==
    IF IsPrefixed(text) /\ text.keys # << >> /\ Last(text.keys) = key
    THEN [text EXCEPT !.keys = Front(@)]
    ELSE text

-----------------------------------------------------------------------------
(* What a program does with a handle.                                      *)

Step(h) == phase[h] = "open" /\ steps < assigned[h].maxSteps /\ steps' = steps + 1
StoredAt(h) == At(stored, conn[h].address, NewRows)

\* The field of an object is set by the program.
Assign(h, r, p) ==
    /\ Step(h)
    /\ objects' = [objects EXCEPT ![h][r] = Plain(p)]
    /\ given' = [given EXCEPT ![h][r] = p]
    /\ UNCHANGED <<assigned, phase, conn, encryptor, stored, intended, plainBy>>

Store(h, rows, texts, plain) ==
    LET a == conn[h].address
    IN /\ stored' = With(stored, a, rows)
       /\ intended' = With(intended, a, texts)
       /\ plainBy' = With(plainBy, a, plain)

\* Mutant: the error of a field is not added to the statement.
SaveDespiteErrors(h, failing) ==
    /\ Step(h)
    /\ failing \subseteq (IF encryptor[h] = Unset THEN {} ELSE Convertible(objects[h]))
    /\ LET rows == EncryptFields(encryptor[h], objects[h], failing)
       IN objects' = [objects EXCEPT ![h] = rows] /\ Store(h, rows, given[h], {})
    /\ UNCHANGED <<assigned, phase, conn, encryptor, given>>

\* Create or Save of the objects. They stay as they were converted, whether the
\* statement is run or not.
Save(h, failing) ==
    /\ Step(h)
    /\ IF encryptor[h] = Unset
       THEN failing = {} /\ Store(h, objects[h], given[h], Rows) /\ UNCHANGED objects
       ELSE LET rows == EncryptFields(encryptor[h], objects[h], failing)
            IN /\ failing \subseteq Convertible(objects[h])
               /\ objects' = [objects EXCEPT ![h] = rows]
               /\ IF failing = {} THEN Store(h, rows, given[h], {})
                  ELSE UNCHANGED <<stored, intended, plainBy>>
    /\ UNCHANGED <<assigned, phase, conn, encryptor, given>>

\* Model(&object).Update(column, p): the callbacks walk the object, GORM writes p
\* and sets the object's field to it.
Update(h, r, p, fails) ==
    /\ Step(h)
    /\ StoredAt(h)[r] # Zero
    /\ fails => encryptor[h] # Unset /\ ~Kept(objects[h][r])
    /\ IF fails THEN UNCHANGED <<objects, given, stored, intended, plainBy>>
       ELSE /\ objects' = [objects EXCEPT ![h][r] = Plain(p)]
            /\ given' = [given EXCEPT ![h][r] = p]
            /\ LET a == conn[h].address
               IN Store(h, [stored[a] EXCEPT ![r] = Plain(p)], [intended[a] EXCEPT ![r] = p], plainBy[a] \cup {r})
    /\ UNCHANGED <<assigned, phase, conn, encryptor>>

\* Find into the objects, then decryptFields.
Find(h) ==
    /\ Step(h)
    /\ objects' = [objects EXCEPT ![h] = [r \in Rows |-> IF encryptor[h] = Unset THEN StoredAt(h)[r]
                                                         ELSE DecryptField(encryptor[h], StoredAt(h)[r])]]
    /\ given' = [given EXCEPT ![h] = At(intended, conn[h].address, [r \in Rows |-> Unset])]
    /\ UNCHANGED <<assigned, phase, conn, encryptor, stored, intended, plainBy>>

Next ==
    \E h \in Handles :
        \/ Open(h)
        \/ Find(h)
        \/ \E r \in Rows, p \in Plains : Assign(h, r, p) \/ \E fails \in BOOLEAN : Update(h, r, p, fails)
        \/ \E failing \in SUBSET Rows : Save(h, failing)

Spec == Init /\ [][Next]_vars

-----------------------------------------------------------------------------
(* Properties.                                                             *)

\* Options that a DSN can carry: no parameter has a reserved name, the translator
\* has the dialects of the options, and a URL reads the host as it is, which it
\* does not if there is a colon in it.
Expressible(o) ==
    /\ \A k \in DOMAIN o.parameters : LowerKey[k] \notin ReservedKeys
    /\ o.translator.input \in {Unset, o.input}
    /\ o.translator.target \in {Unset, Normalized(o).target}
    /\ LET host == Or(o.host, "localhost") IN UrlHost[host] = [name |-> host, port |-> Unset]

\* A host that is not set is this one, under either name.
Loopback(c) ==
    IF c = Refused \/ c.address.driver = "sqlite" THEN c
    ELSE [c EXCEPT !.address.host = IF @ = "localhost" THEN "127.0.0.1" ELSE @]

\* A handle is open or refused, has a connector and an encryptor accordingly.
TypeOK ==
    /\ steps = 0 \/ \E h \in Handles : steps <= assigned[h].maxSteps
    /\ \A h \in Handles : phase[h] \in {"closed", "open", "refused"}
    /\ \A h \in Handles : (phase[h] = "open") = (conn[h] # Refused)
    /\ \A a \in DOMAIN stored : plainBy[a] \subseteq Rows /\ DOMAIN stored[a] = Rows

\* What a handle is connected to is what OpenWithOptions connects to with the same
\* options, in address, dialects and log files, although every option went through
\* one DSN or, with OpenGORM, two (types.go:130-185, dsn.go:12-90); it has the
\* encryptor of the options unless a provider met a DSN.
OptionsSurvive ==
    \A h \in Handles :
        LET o == assigned[h].options
            direct == NewConnector(o)
        IN Expressible(o) =>
             /\ phase[h] = "open" =>
                    /\ Loopback(conn[h]) = Loopback(direct)
                    /\ o.encryption.enabled /\ (assigned[h].via = "dsn" => o.encryption.provider = Unset)
                         => encryptor[h] = Or(o.encryption.provider, o.encryption.key)
             /\ phase[h] = "refused" => direct = Refused \/ Normalized(o).target \notin {"sqlite", "postgres", "mysql"}

\* What a handle with an encryptor creates or saves reaches the database as plain
\* text only if it is empty or begins with the prefix of cipher texts, which the
\* encryptor then takes it for; also when Encrypt fails for some of the rows and
\* the program tries again (encryptor.go:103-155). An update by column is none of
\* these: its value is not walked.
NeverPlainStored ==
    \A a \in DOMAIN stored : \A r \in Rows \ plainBy[a] :
        stored[a][r].keys = << >> => stored[a][r].plain \in {Unset} \cup PrefixedPlains

\* A row that was encrypted by a handle's own encryptor, if by any, is found there
\* as it was given, whatever was saved again after a failure, with objects that
\* hold cipher texts after a Create, or by handles that could not decrypt it
\* (encryptor.go:103-123). The encryptor must write the prefix.
ReadBack ==
    \A h \in Handles :
        LET a == conn[h].address
        IN phase[h] = "open" /\ encryptor[h] # Unset /\ a \in DOMAIN stored =>
             \A r \in Rows :
                LET text == stored[a][r]
                IN (\A k \in DOMAIN text.keys : text.keys[k] = encryptor[h] /\ encryptor[h] \in Prefixing)
                     => DecryptField(encryptor[h], text) = Plain(intended[a][r])
=============================================================================
