------------------------------- MODULE Driver -------------------------------
(***************************************************************************)
(* The virtual driver of sql_driver.go between database/sql and a base     *)
(* driver: DB.Exec and DB.Query of several clients on one pool.            *)
(*                                                                         *)
(* database/sql (external) picks a connection, calls ExecContext or        *)
(* QueryContext of the virtualConn, falls back to PrepareContext and the   *)
(* virtualStmt on driver.ErrSkip, and starts again on another connection   *)
(* on driver.ErrBadConn.  The base driver (external) answers as it likes,  *)
(* within its contract: an operation that reports ErrSkip or ErrBadConn    *)
(* had no effect.  The code in between translates, forwards, logs what     *)
(* fails and passes every error on unchanged.                              *)
(*                                                                         *)
(* The translator answers TranslateSQL, which is what TranslatorSpec       *)
(* promises to each of its callers.                                        *)
(***************************************************************************)
EXTENDS Naturals, Sequences, FiniteSets

CONSTANTS Clients,
          Conns,         \* connections of the pool, open or not
          NoConn,
          SQLs, Texts, Failed, TranslateSQL,
          Operations,    \* calls the clients make
          BaseDrivers,   \* base drivers, each by the interfaces it implements
          LogFailedSQL,  \* values of LoggingOptions.LogFailedSQL
          MaxRetries,    \* maxBadConnRetries of database/sql
          MaxIdle        \* connections the pool keeps open when unused

\* Interfaces a base connection or statement may implement.
Interfaces == {"Execer", "StmtExecContext", "SessionResetter", "Validator"}

\* DB.Exec or DB.Query of a statement; a bad argument is one that no driver
\* value represents.
ASSUME OperationsAssumption ==
    Operations \subseteq [kind : {"exec", "query"}, sql : SQLs, badArg : BOOLEAN]

ASSUME PoolAssumption ==
    /\ NoConn \notin Conns
    /\ Failed \notin Texts
    /\ TranslateSQL \in [SQLs -> Texts \cup {Failed}]
    /\ BaseDrivers \subseteq SUBSET Interfaces
    /\ LogFailedSQL \subseteq BOOLEAN
    /\ MaxRetries \in Nat /\ MaxIdle \in Nat

\* How an attempt of a call ended.  "skip" and "badconn" are driver.ErrSkip and
\* driver.ErrBadConn, "arg" a parameter that could not be converted.
Results == {"none", "ok", "translation", "arg", "base", "skip", "badconn", "connect"}

VARIABLES has,       \* the interfaces of the base driver
          logging,   \* LoggingOptions.LogFailedSQL
          idle,      \* open connections in the pool
          closed,    \* connections that are not open
          dead,      \* open connections whose server is gone
          pc, op, conn, tries, text, result, \* of the call of each client
          pending,   \* the log entry being written, and where to go on
          logMu,     \* sqlFailureLogger.mu: the client inside write, if any
          logged,    \* history: entries this call appended, oldest first
          lost,      \* history: an entry of this call could not be written
          failed,    \* history: how this call was refused or failed, oldest first
          effects,   \* history: how often the call took effect on the database
          received,  \* history: the texts the base driver got from the call
          reported   \* history: open connections that answered ErrBadConn

poolVars == <<idle, closed, dead>>
callVars == <<op, conn, tries, text, result>>
logVars  == <<pending, logMu, logged, lost>>
history  == <<failed, effects, received, reported>>
fixed    == <<has, logging>>
vars == <<fixed, poolVars, pc, callVars, logVars, history>>

NoEntry == [log |-> "none"]

\* A text the translator refused (the text is then Failed), or one the base
\* driver answered with an error; stages are those of the log entries.
Stages  == {"exec", "query", "prepare", "stmt_exec", "stmt_query"}
Errors  == {"translation", "base", "skip", "badconn"}
Failure == [stage : Stages, text : Texts \cup {Failed}, error : Errors]

\* Types; a text the base driver received is a translation, never an error.
TypeOK ==
    /\ has \subseteq Interfaces /\ logging \in BOOLEAN
    /\ idle \subseteq Conns /\ closed \subseteq Conns /\ dead \subseteq Conns
    /\ op \in [Clients -> Operations \cup {NoEntry}]
    /\ conn \in [Clients -> Conns \cup {NoConn}]
    /\ tries \in [Clients -> 0 .. MaxRetries]
    /\ text \in [Clients -> Texts \cup {Failed}]
    /\ result \in [Clients -> Results]
    /\ logMu \in Clients \cup {NoConn}
    /\ lost \in [Clients -> BOOLEAN]
    /\ failed \in [Clients -> Seq(Failure)]
    /\ effects \in [Clients -> Nat]
    /\ received \in [Clients -> SUBSET Texts]
    /\ reported \subseteq Conns

Init ==
    /\ has \in BaseDrivers
    /\ logging \in LogFailedSQL
    /\ idle = {} /\ closed = Conns /\ dead = {}
    /\ pc = [c \in Clients |-> "idle"]
    /\ op = [c \in Clients |-> NoEntry]
    /\ conn = [c \in Clients |-> NoConn]
    /\ tries = [c \in Clients |-> 0]
    /\ text = [c \in Clients |-> Failed]
    /\ result = [c \in Clients |-> "none"]
    /\ pending = [c \in Clients |-> NoEntry]
    /\ logMu = NoConn
    /\ logged = [c \in Clients |-> <<>>]
    /\ lost = [c \in Clients |-> FALSE]
    /\ failed = [c \in Clients |-> <<>>]
    /\ effects = [c \in Clients |-> 0]
    /\ received = [c \in Clients |-> {}]
    /\ reported = {}

At(c, label) == pc[c] = label
Goto(c, label) == pc' = [pc EXCEPT ![c] = label]
Alive(c) == conn[c] \notin dead

\* Leave the operation with a result: the pool gets the connection back.
Finish(c, r) == Goto(c, "release") /\ result' = [result EXCEPT ![c] = r]

-----------------------------------------------------------------------------
(* sqlFailureLogger: an entry is appended under the mutex, in the call     *)
(* that failed; what goes wrong while writing is swallowed.  A nil logger  *)
(* writes nothing.                                                         *)

\* The call ends its attempt with r, after the entry e has been written.
LogThenFinish(c, e, r, label) ==
    /\ result' = [result EXCEPT ![c] = r]
    /\ IF logging
       THEN /\ Goto(c, "log")
            /\ pending' = [pending EXCEPT ![c] = [entry |-> e, label |-> label]]
       ELSE Goto(c, label) /\ UNCHANGED pending
    /\ UNCHANGED <<logMu, logged, lost>>

\* History: what went wrong in this call, whoever logs it.
Record(c, stage, t, r) ==
    failed' = [failed EXCEPT ![c] = Append(@, [stage |-> stage, text |-> t, error |-> r])]

TranslationFailure(c, stage) ==
    [log |-> "translate", stage |-> stage, sql |-> op[c].sql]

\* Mutant: the translated text is not what the entry records.
ExecutionFailureUntranslated(c, stage, r) ==
    [log |-> "execution", stage |-> stage, sql |-> op[c].sql, text |-> Failed, error |-> r]

ExecutionFailure(c, stage, r) ==
    [log |-> "execution", stage |-> stage, sql |-> op[c].sql, text |-> text[c], error |-> r]

LogLock(c) ==
    /\ At(c, "log") /\ logMu = NoConn
    /\ logMu' = c
    /\ Goto(c, "append")
    /\ UNCHANGED <<fixed, poolVars, callVars, pending, logged, lost, history>>

\* Mutant: a log file that cannot be written is tried for ever, under the mutex.
LogAppendRetrying(c) ==
    /\ At(c, "append")
    /\ \/ /\ ~ lost[c]
          /\ logged' = [logged EXCEPT ![c] = Append(@, pending[c].entry)]
          /\ logMu' = NoConn
          /\ Goto(c, pending[c].label)
          /\ pending' = [pending EXCEPT ![c] = NoEntry]
          /\ UNCHANGED lost
       \/ lost' = [lost EXCEPT ![c] = TRUE] /\ UNCHANGED <<logged, logMu, pc, pending>>
    /\ UNCHANGED <<fixed, poolVars, callVars, history>>

LogAppend(c) ==
    /\ At(c, "append")
    /\ \/ logged' = [logged EXCEPT ![c] = Append(@, pending[c].entry)] /\ UNCHANGED lost
       \/ lost' = [lost EXCEPT ![c] = TRUE] /\ UNCHANGED logged
    /\ logMu' = NoConn
    /\ Goto(c, pending[c].label)
    /\ pending' = [pending EXCEPT ![c] = NoEntry]
    /\ UNCHANGED <<fixed, poolVars, callVars, history>>

-----------------------------------------------------------------------------
(* database/sql: a call, and the connection of each of its attempts.       *)

Call(c, o) ==
    /\ At(c, "idle")
    /\ op' = [op EXCEPT ![c] = o]
    /\ Goto(c, "getConn")
    /\ UNCHANGED <<fixed, poolVars, conn, tries, text, result, logVars, history>>

\* An unused connection is taken again, except in the last attempt.
Reuse(c) ==
    /\ At(c, "getConn") /\ tries[c] < MaxRetries
    /\ \E k \in idle : idle' = idle \ {k} /\ conn' = [conn EXCEPT ![c] = k]
    /\ Goto(c, "reset")
    /\ UNCHANGED <<fixed, closed, dead, op, tries, text, result, logVars, history>>

\* connector.Connect wraps a new base connection; its failure is not logged.
Connect(c) ==
    /\ At(c, "getConn") /\ (tries[c] = MaxRetries \/ idle = {})
    /\ \E k \in closed : closed' = closed \ {k} /\ conn' = [conn EXCEPT ![c] = k]
    /\ Goto(c, "call")
    /\ UNCHANGED <<fixed, idle, dead, op, tries, text, result, logVars, history>>

ConnectFails(c) ==
    /\ At(c, "getConn") /\ (tries[c] = MaxRetries \/ idle = {})
    /\ Finish(c, "connect")
    /\ UNCHANGED <<fixed, poolVars, op, conn, tries, text, logVars, history>>

\* virtualConn.ResetSession passes on what the base driver knows.
ResetSession(c) ==
    /\ At(c, "reset")
    /\ IF "SessionResetter" \in has /\ ~ Alive(c)
       THEN Finish(c, "badconn") /\ reported' = reported \cup {conn[c]}
       ELSE Goto(c, "call") /\ UNCHANGED <<result, reported>>
    /\ UNCHANGED <<fixed, poolVars, op, conn, tries, text, logVars, failed, effects, received>>

\* virtualConn.IsValid: the base driver's verdict, or "yes" if it has none.
IsValid(k) == "Validator" \in has => k \notin dead

\* The connection goes back to the pool, or is closed if it is known to be bad.
Release(c) ==
    /\ At(c, "release")
    /\ LET k == conn[c] IN
         IF k = NoConn THEN UNCHANGED <<poolVars, reported>>
         ELSE IF result[c] # "badconn" /\ IsValid(k) /\ Cardinality(idle) < MaxIdle
         THEN idle' = idle \cup {k} /\ UNCHANGED <<closed, dead, reported>>
         ELSE /\ closed' = closed \cup {k}
              /\ dead' = dead \ {k}
              /\ reported' = reported \ {k}
              /\ UNCHANGED idle
    /\ conn' = [conn EXCEPT ![c] = NoConn]
    /\ IF result[c] = "badconn" /\ tries[c] < MaxRetries
       THEN /\ tries' = [tries EXCEPT ![c] = @ + 1]
            /\ result' = [result EXCEPT ![c] = "none"]
            /\ Goto(c, "getConn")
       ELSE Goto(c, "return") /\ UNCHANGED <<tries, result>>
    /\ UNCHANGED <<fixed, op, text, logVars, failed, effects, received>>

\* The caller has the result; nothing of the call is left.
Return(c) ==
    /\ At(c, "return")
    /\ Goto(c, "idle")
    /\ op' = [op EXCEPT ![c] = NoEntry]
    /\ tries' = [tries EXCEPT ![c] = 0]
    /\ text' = [text EXCEPT ![c] = Failed]
    /\ result' = [result EXCEPT ![c] = "none"]
    /\ logged' = [logged EXCEPT ![c] = <<>>]
    /\ lost' = [lost EXCEPT ![c] = FALSE]
    /\ failed' = [failed EXCEPT ![c] = <<>>]
    /\ effects' = [effects EXCEPT ![c] = 0]
    /\ received' = [received EXCEPT ![c] = {}]
    /\ UNCHANGED <<fixed, poolVars, conn, pending, logMu, reported>>

-----------------------------------------------------------------------------
(* virtualConn.ExecContext and QueryContext.                               *)

\* Translate, in stage "exec", "query" or "prepare": on success go on to label.
Translate(c, stage, label) ==
    LET t == TranslateSQL[op[c].sql] IN
    /\ text' = [text EXCEPT ![c] = t]
    /\ IF t = Failed
       THEN /\ Record(c, stage, t, "translation")
            /\ LogThenFinish(c, TranslationFailure(c, stage), "translation", "release")
       ELSE Goto(c, label) /\ UNCHANGED <<failed, result, logVars>>

\* Mutant: a statement that cannot be translated is executed as it is.
ExecContextIgnoringError(c) ==
    /\ At(c, "call")
    /\ text' = [text EXCEPT ![c] = TranslateSQL[op[c].sql]]
    /\ Goto(c, IF "Execer" \in has THEN "baseExec" ELSE "prepare")
    /\ UNCHANGED <<result, logVars, fixed, poolVars, op, conn, tries, history>>

\* Without a base ExecerContext the fast path is declined before translating.
ExecContext(c) ==
    /\ At(c, "call")
    /\ IF "Execer" \in has
       THEN Translate(c, op[c].kind, "baseExec")
       ELSE Goto(c, "prepare") /\ UNCHANGED <<failed, text, result, logVars>>
    /\ UNCHANGED <<fixed, poolVars, op, conn, tries, effects, received, reported>>

\* What a base driver may answer: an error may leave the effect behind, a dead
\* connection reports ErrBadConn and does nothing.
Answers(c) == IF Alive(c) THEN {"ok", "base"} ELSE {"badconn"}

Effect(c, r) ==
    \/ r = "ok" /\ effects' = [effects EXCEPT ![c] = @ + 1]
    \/ r = "base" /\ effects' \in {effects, [effects EXCEPT ![c] = @ + 1]}
    \/ r \notin {"ok", "base"} /\ UNCHANGED effects

Report(c, r) ==
    reported' = IF r = "badconn" THEN reported \cup {conn[c]} ELSE reported

Receive(c) == received' = [received EXCEPT ![c] = @ \cup {text[c]}]

\* Mutants: every error is returned as ErrSkip; ErrBadConn is returned as
\* another error.
BaseExecSkipping(c) ==
    /\ At(c, "baseExec")
    /\ Receive(c)
    /\ \E r \in Answers(c) \cup {"skip"} :
         /\ Effect(c, r) /\ Report(c, r)
         /\ IF r = "ok" THEN Finish(c, r) /\ UNCHANGED <<failed, logVars>>
            ELSE /\ Record(c, op[c].kind, text[c], r)
                 /\ LogThenFinish(c, ExecutionFailure(c, op[c].kind, r), r, "prepare")
    /\ UNCHANGED <<fixed, poolVars, op, conn, tries, text>>

BaseExecWrapping(c) ==
    /\ At(c, "baseExec")
    /\ Receive(c)
    /\ \E r \in Answers(c) \cup {"skip"} :
         /\ Effect(c, r) /\ Report(c, r)
         /\ IF r = "ok" THEN Finish(c, r) /\ UNCHANGED <<failed, logVars>>
            ELSE /\ Record(c, op[c].kind, text[c], r)
                 /\ LogThenFinish(c, ExecutionFailure(c, op[c].kind, r), "base", "release")
    /\ UNCHANGED <<fixed, poolVars, op, conn, tries, text>>

\* Any error of the base driver is logged and returned, ErrSkip included.
BaseExec(c) ==
    /\ At(c, "baseExec")
    /\ Receive(c)
    /\ \E r \in Answers(c) \cup {"skip"} :
         /\ Effect(c, r) /\ Report(c, r)
         /\ IF r = "ok" THEN Finish(c, r) /\ UNCHANGED <<failed, logVars>>
            ELSE /\ Record(c, op[c].kind, text[c], r)
                 /\ LogThenFinish(c, ExecutionFailure(c, op[c].kind, r), r,
                                  IF r = "skip" THEN "prepare" ELSE "release")
    /\ UNCHANGED <<fixed, poolVars, op, conn, tries, text>>

-----------------------------------------------------------------------------
(* virtualConn.PrepareContext and the virtualStmt, after ErrSkip.          *)

\* Mutant: a statement that cannot be translated is not logged.
PrepareContextUnlogged(c) ==
    /\ At(c, "prepare")
    /\ text' = [text EXCEPT ![c] = TranslateSQL[op[c].sql]]
    /\ IF text'[c] = Failed THEN Record(c, "prepare", Failed, "translation") /\ Finish(c, "translation")
       ELSE Goto(c, "basePrepare") /\ UNCHANGED <<failed, result>>
    /\ UNCHANGED <<fixed, poolVars, op, conn, tries, logVars, effects, received, reported>>

PrepareContext(c) ==
    /\ At(c, "prepare")
    /\ Translate(c, "prepare", "basePrepare")
    /\ UNCHANGED <<fixed, poolVars, op, conn, tries, effects, received, reported>>

BasePrepare(c) ==
    /\ At(c, "basePrepare")
    /\ Receive(c)
    /\ \E r \in Answers(c) :
         /\ Report(c, r)
         /\ IF r = "ok" THEN Goto(c, "stmt") /\ UNCHANGED <<failed, result, logVars>>
            ELSE /\ Record(c, "prepare", text[c], r)
                 /\ LogThenFinish(c, ExecutionFailure(c, "prepare", r), r, "release")
    /\ UNCHANGED <<fixed, poolVars, op, conn, tries, text, effects>>

\* Without StmtExecContext the virtualStmt converts the parameters itself; a
\* parameter it cannot convert ends the call with no log entry.
StmtExecContext(c) ==
    /\ At(c, "stmt")
    /\ IF "StmtExecContext" \notin has /\ op[c].badArg
       THEN Finish(c, "arg")
       ELSE Goto(c, "baseStmt") /\ UNCHANGED result
    /\ UNCHANGED <<fixed, poolVars, op, conn, tries, text, logVars, history>>

StmtStage(kind) == IF kind = "exec" THEN "stmt_exec" ELSE "stmt_query"

BaseStmt(c) ==
    /\ At(c, "baseStmt")
    /\ \E r \in Answers(c) :
         /\ Effect(c, r) /\ Report(c, r)
         /\ IF r = "ok" THEN Finish(c, r) /\ UNCHANGED <<failed, logVars>>
            ELSE /\ Record(c, StmtStage(op[c].kind), text[c], r)
                 /\ LogThenFinish(c, ExecutionFailure(c, StmtStage(op[c].kind), r), r, "release")
    /\ UNCHANGED <<fixed, poolVars, op, conn, tries, text, received>>

-----------------------------------------------------------------------------
\* The server behind an open connection goes away.
ServerDies(k) ==
    /\ k \notin closed \cup dead
    /\ dead' = dead \cup {k}
    /\ UNCHANGED <<fixed, idle, closed, pc, callVars, logVars, history>>

Proceed(c) ==
    \/ Reuse(c) \/ Connect(c) \/ ConnectFails(c) \/ ResetSession(c)
    \/ ExecContext(c) \/ BaseExec(c) \/ PrepareContext(c) \/ BasePrepare(c)
    \/ StmtExecContext(c) \/ BaseStmt(c)
    \/ LogAppend(c) \/ Release(c) \/ Return(c)

Next == \/ \E c \in Clients : \/ \E o \in Operations : Call(c, o)
                              \/ Proceed(c)
                              \/ LogLock(c)
        \/ \E k \in Conns : ServerDies(k)

Spec == Init /\ [][Next]_vars

\* A client inside a call is scheduled, the base driver answers, and the
\* logger's sync.Mutex is handed over in the end to who keeps losing it.
Fairness == \A c \in Clients : WF_vars(Proceed(c)) /\ SF_vars(LogLock(c))

FairSpec == Spec /\ Fairness

-----------------------------------------------------------------------------
Returned(c) == At(c, "return")
EntriesOf(c) == {logged[c][i] : i \in 1 .. Len(logged[c])}

\* A statement that cannot be translated never reaches the base driver, on no
\* path, and what does reach it is the translation of the caller's statement.
OnlyTranslationsExecuted ==
    \A c \in Clients : \A t \in received[c] : t = TranslateSQL[op[c].sql] /\ t # Failed

\* Falling back to Prepare and retrying on another connection never make a
\* call take effect twice; a call that reports success took effect once; one
\* that could not be translated, or its parameters converted, not at all.
EffectOnce ==
    \A c \in Clients :
        /\ effects[c] <= 1
        /\ Returned(c) /\ result[c] = "ok" => effects[c] = 1
        /\ Returned(c) /\ result[c] \in {"translation", "arg", "badconn", "connect"} => effects[c] = 0

\* The entry a failure of the call must leave in the log of its kind.
EntryOf(c, f) ==
    IF f.error = "translation" THEN [log |-> "translate", stage |-> f.stage, sql |-> op[c].sql]
    ELSE [log |-> "execution", stage |-> f.stage, sql |-> op[c].sql, text |-> f.text, error |-> f.error]

\* When a call returns, the log has one entry for each time the translator or
\* the base driver refused its statement, in that order and no other: a retry or
\* a fallback loses and repeats none.  What the caller sees is the last of them if it is a
\* translation failure, an error of the base driver or ErrBadConn; ErrSkip and
\* ErrBadConn alone let a call go on.  The code logs neither a connection that
\* cannot be opened or reset nor a parameter it cannot convert (sql_driver.go:107,
\* 231, 261): a call that ends so has no entry for it.
FailureLogged ==
    \A c \in Clients : Returned(c) =>
        LET n == Len(failed[c]) IN
        /\ logging /\ ~ lost[c] => logged[c] = [i \in 1 .. n |-> EntryOf(c, failed[c][i])]
        /\ result[c] \in {"translation", "base", "badconn"} => n > 0 /\ failed[c][n].error = result[c]
        /\ \A i \in 1 .. n : failed[c][i].error \in {"translation", "base"} =>
             i = n /\ failed[c][i].error = result[c]

\* Every entry is that of something this call met: its stage, its error and the
\* text the base driver got, under the statement the caller wrote; the log never
\* has more of them than the call met, and none when it is off.  An ErrSkip of
\* the base driver has its entry even if the call then succeeds through Prepare.
LogFaithful ==
    \A c \in Clients :
        /\ \A e \in EntriesOf(c) :
             /\ \E i \in 1 .. Len(failed[c]) : e = EntryOf(c, failed[c][i])
             /\ e.log = "execution" => e.text \in received[c]
             /\ e.log = "translate" => TranslateSQL[e.sql] = Failed
        /\ Len(logged[c]) <= Len(failed[c])
        /\ ~ logging => logged[c] = <<>>

\* Every connection is unused, closed, or held by exactly one client, and one
\* that reported ErrBadConn is not used again, because the virtual connection
\* passes that error on for what it is.
PoolInv ==
    /\ idle \cap closed = {}
    /\ \A c, d \in Clients : c # d /\ conn[c] # NoConn => conn[c] # conn[d]
    /\ \A c \in Clients : conn[c] \notin idle \cup closed
    /\ Conns \ (idle \cup closed) = {conn[c] : c \in Clients} \ {NoConn}
    /\ idle \cap reported = {}

\* A call returns: retries are bounded, and a failure to log is not fatal.
EveryCallReturns == \A c \in Clients : pc[c] # "idle" ~> pc[c] = "idle"
=============================================================================
