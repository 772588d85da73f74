----------------------------- MODULE DriverProof -----------------------------
(***************************************************************************)
(* Why the virtual driver is safe with any number of clients, connections  *)
(* and retries, whatever the base driver implements and answers.  A client *)
(* that writes a log entry is, for everything but the log, where it will   *)
(* go on.                                                                  *)
(***************************************************************************)
EXTENDS Driver, TLAPS, FiniteSetTheorems

Labels == {"idle", "getConn", "reset", "call", "baseExec", "prepare", "basePrepare",
           "stmt", "baseStmt", "log", "append", "release", "return"}
BaseErrors == {"base", "skip", "badconn"}

Entries == [log : {"translate"}, stage : Stages, sql : SQLs]
           \cup [log : {"execution"}, stage : Stages, sql : SQLs, text : Texts, error : BaseErrors]

InLog(c) == pc[c] \in {"log", "append"}
After(c) == IF InLog(c) THEN pending[c].label ELSE pc[c]

MoreTypes ==
    /\ pc \in [Clients -> Labels]
    /\ pending \in [Clients -> [entry : Entries, label : {"prepare", "release"}] \cup {NoEntry}]
    /\ logged \in [Clients -> Seq(Entries)]
    /\ \A c \in Clients : InLog(c) => pending[c] # NoEntry

\* A client holds a connection between its being taken and its release.
Holding == {"reset", "call", "baseExec", "prepare", "basePrepare", "stmt", "baseStmt"}

\* The statement of a call and its translation, at each point of the call.
CallOf(c) ==
    /\ After(c) # "idle" => op[c] \in Operations
    /\ After(c) = "idle" => failed[c] = <<>> /\ logged[c] = <<>> /\ received[c] = {} /\ effects[c] = 0
    /\ After(c) \in Holding => conn[c] # NoConn
    /\ After(c) = "reset" => tries[c] < MaxRetries
    /\ After(c) \in {"baseExec", "basePrepare", "stmt", "baseStmt"} =>
         text[c] = TranslateSQL[op[c].sql] /\ text[c] # Failed

CallInv == \A c \in Clients : CallOf(c)

\* What the base driver got; a statement it prepared is the one it runs.
TextsOf(c) ==
    /\ \A t \in received[c] : t = TranslateSQL[op[c].sql] /\ t # Failed
    /\ After(c) \in {"stmt", "baseStmt"} => text[c] \in received[c]

\* Until its attempt ends a call had no effect, and after it the result tells.
Ended(c) == After(c) \in {"release", "return"}

EffectOf(c) ==
    /\ ~Ended(c) => effects[c] = 0
    /\ effects[c] <= 1
    /\ Ended(c) => /\ result[c] = "ok" => effects[c] = 1
                   /\ result[c] \in {"translation", "arg", "badconn", "connect"} => effects[c] = 0

\* What was met and recorded is about this call.
Met(c, f) ==
    /\ f.error = "translation" => TranslateSQL[op[c].sql] = Failed
    /\ f.error # "translation" => f.text \in received[c]

\* The entries written and the one under way are those of what the call met, all
\* of them and in that order unless one could not be written.
LogOf(c) ==
    /\ \A i \in 1 .. Len(failed[c]) : Met(c, failed[c][i])
    /\ \A i \in 1 .. Len(logged[c]) : \E j \in 1 .. Len(failed[c]) : logged[c][i] = EntryOf(c, failed[c][j])
    /\ InLog(c) => /\ logging /\ Len(failed[c]) > 0
                   /\ pending[c].entry = EntryOf(c, failed[c][Len(failed[c])])
                   /\ Len(logged[c]) < Len(failed[c])
    /\ ~InLog(c) => Len(logged[c]) <= Len(failed[c])
    /\ ~logging => logged[c] = <<>>
    /\ logging /\ ~lost[c] =>
         /\ Len(failed[c]) = IF InLog(c) THEN Len(logged[c]) + 1 ELSE Len(logged[c])
         /\ \A i \in 1 .. Len(logged[c]) : logged[c][i] = EntryOf(c, failed[c][i])

\* ErrSkip and ErrBadConn let a call go on and anything else ends it; ErrBadConn
\* is not the end of a call unless the base driver answered it to a statement.
FailOf(c) ==
    /\ \A i \in 1 .. Len(failed[c]) : failed[c][i].error \in {"translation", "base"} =>
         i = Len(failed[c]) /\ Ended(c) /\ result[c] = failed[c][i].error
    /\ Ended(c) /\ result[c] \in {"translation", "base", "badconn"} =>
         \/ Len(failed[c]) > 0 /\ failed[c][Len(failed[c])].error = result[c]
         \/ result[c] = "badconn" /\ After(c) = "release" /\ tries[c] < MaxRetries

ClientInv(c) == CallOf(c) /\ TextsOf(c) /\ EffectOf(c) /\ LogOf(c) /\ FailOf(c)

TypeInv == TypeOK /\ MoreTypes

\* The variables of one client at a time.
LEMMA EffectTypes ==
    ASSUME effects \in [Clients -> Nat], NEW c \in Clients, NEW r, Effect(c, r)
    PROVE  effects' \in [Clients -> Nat]
<1>1. effects' = effects \/ effects' = [effects EXCEPT ![c] = @ + 1]
  BY DEF Effect
<1>2. effects[c] + 1 \in Nat
  OBVIOUS
<1>. QED
  BY <1>1, <1>2

LEMMA ReceiveTypes ==
    ASSUME received \in [Clients -> SUBSET Texts], NEW c \in Clients, text[c] \in Texts,
           Receive(c) \/ UNCHANGED received
    PROVE  received' \in [Clients -> SUBSET Texts]
<1>1. received' = received \/ received' = [received EXCEPT ![c] = @ \cup {text[c]}]
  BY DEF Receive
<1>2. received[c] \cup {text[c]} \in SUBSET Texts
  OBVIOUS
<1>. QED
  BY <1>1, <1>2

LEMMA FinishTypes ==
    ASSUME pc \in [Clients -> Labels], result \in [Clients -> Results],
           NEW c \in Clients, NEW r \in Results, Finish(c, r)
    PROVE  /\ pc' \in [Clients -> Labels] /\ result' \in [Clients -> Results]
           /\ \A d \in Clients : InLog(d)' => InLog(d)
           /\ result' = [result EXCEPT ![c] = r]
           /\ pc' = [pc EXCEPT ![c] = "release"]
<1>1. pc' = [pc EXCEPT ![c] = "release"] /\ result' = [result EXCEPT ![c] = r]
  BY DEF Finish, Goto
<1>. QED
  BY <1>1 DEF Labels, InLog

LEMMA AppendTypes ==
    ASSUME logged \in [Clients -> Seq(Entries)], NEW c \in Clients, NEW e \in Entries
    PROVE  [logged EXCEPT ![c] = Append(@, e)] \in [Clients -> Seq(Entries)]
<1>1. Append(logged[c], e) \in Seq(Entries)
  OBVIOUS
<1>. QED
  BY <1>1

LEMMA ReleaseTypes ==
    ASSUME pc \in [Clients -> Labels], result \in [Clients -> Results], tries \in [Clients -> 0 .. MaxRetries],
           NEW c \in Clients, Release(c)
    PROVE  /\ pc' \in [Clients -> Labels] /\ result' \in [Clients -> Results]
           /\ tries' \in [Clients -> 0 .. MaxRetries]
           /\ \A d \in Clients : InLog(d)' => InLog(d)
<1>1. MaxRetries \in Nat /\ tries[c] \in 0 .. MaxRetries
  BY PoolAssumption
<1>2. CASE result[c] = "badconn" /\ tries[c] < MaxRetries
  <2>1. pc' = [pc EXCEPT ![c] = "getConn"] /\ result' = [result EXCEPT ![c] = "none"] /\ tries' = [tries EXCEPT ![c] = @ + 1]
    BY <1>2 DEF Release, Goto
  <2>2. tries[c] + 1 \in 0 .. MaxRetries
    BY <1>1, <1>2
  <2>. QED
    BY <2>1, <2>2 DEF Labels, Results, InLog
<1>3. CASE ~(result[c] = "badconn" /\ tries[c] < MaxRetries)
  <2>1. pc' = [pc EXCEPT ![c] = "return"] /\ UNCHANGED <<tries, result>>
    BY <1>3 DEF Release, Goto
  <2>. QED
    BY <2>1 DEF Labels, InLog
<1>. QED
  BY <1>2, <1>3

\* What is recorded joins what was recorded before.
LEMMA RecordTypes ==
    ASSUME failed \in [Clients -> Seq(Failure)], NEW c \in Clients, NEW stage \in Stages,
           NEW t \in Texts \cup {Failed}, NEW r \in Errors, Record(c, stage, t, r)
    PROVE  /\ failed' \in [Clients -> Seq(Failure)]
           /\ failed'[c] = Append(failed[c], [stage |-> stage, text |-> t, error |-> r])
           /\ \A d \in Clients \ {c} : failed'[d] = failed[d]
<1> DEFINE f == [stage |-> stage, text |-> t, error |-> r]
<1>1. f \in Failure
  BY DEF Failure
<1>2. failed[c] \in Seq(Failure)
  OBVIOUS
<1>3. Append(failed[c], f) \in Seq(Failure)
  BY <1>1, <1>2
<1>4. failed' = [failed EXCEPT ![c] = Append(@, f)]
  BY DEF Record
<1> HIDE DEF f
<1>5. failed' \in [Clients -> Seq(Failure)] /\ failed'[c] = Append(failed[c], f)
      /\ \A d \in Clients \ {c} : failed'[d] = failed[d]
  BY <1>3, <1>4
<1>. QED
  BY <1>5 DEF f

\* An attempt that fails goes on at label, by way of the log if there is one.
LEMMA Failing ==
    ASSUME TypeInv, NEW c \in Clients, NEW e \in Entries, NEW r \in Results,
           NEW label \in {"prepare", "release"}, LogThenFinish(c, e, r, label)
    PROVE  /\ result' = [result EXCEPT ![c] = r] /\ result' \in [Clients -> Results]
           /\ pc' \in [Clients -> Labels]
           /\ pending' \in [Clients -> [entry : Entries, label : {"prepare", "release"}] \cup {NoEntry}]
           /\ \A d \in Clients : InLog(d)' => pending'[d] # NoEntry
           /\ UNCHANGED <<logMu, logged, lost>>
           /\ After(c)' = label
           /\ \A d \in Clients \ {c} : After(d)' = After(d) /\ InLog(d)' = InLog(d) /\ pending'[d] = pending[d]
           /\ InLog(c)' => logging /\ pending'[c].entry = e
           /\ ~InLog(c)' => ~logging
<1> DEFINE p == [entry |-> e, label |-> label]
<1>1. p \in [entry : Entries, label : {"prepare", "release"}] /\ p # NoEntry /\ p.label = label /\ p.entry = e
  BY DEF NoEntry
<1>2. result' = [result EXCEPT ![c] = r] /\ UNCHANGED <<logMu, logged, lost>>
  BY DEF LogThenFinish
<1>3. CASE logging
  <2>1. pc' = [pc EXCEPT ![c] = "log"] /\ pending' = [pending EXCEPT ![c] = p]
    BY <1>3 DEF LogThenFinish, Goto
  <2>. QED
    BY <1>1, <1>2, <1>3, <2>1 DEF TypeInv, TypeOK, MoreTypes, Labels, InLog, After
<1>4. CASE ~logging
  <2>1. pc' = [pc EXCEPT ![c] = label] /\ pending' = pending
    BY <1>4 DEF LogThenFinish, Goto
  <2>. QED
    BY <1>1, <1>2, <1>4, <2>1 DEF TypeInv, TypeOK, MoreTypes, Labels, InLog, After
<1>. QED
  BY <1>3, <1>4

\* What a client has where it is.
LEMMA Here ==
    ASSUME TypeInv, CallInv, NEW c \in Clients, NEW label \in Labels \ {"log", "append"}, At(c, label)
    PROVE  /\ After(c) = label
           /\ label # "idle" => op[c] \in Operations
           /\ label \in Holding => conn[c] \in Conns
           /\ label \in {"baseExec", "basePrepare", "stmt", "baseStmt"} =>
                text[c] = TranslateSQL[op[c].sql] /\ text[c] # Failed /\ text[c] \in Texts
<1>1. After(c) = label
  BY DEF At, After, InLog, TypeInv, MoreTypes
<1>2. conn[c] \in Conns \cup {NoConn} /\ text[c] \in Texts \cup {Failed}
  BY DEF TypeInv, TypeOK
<1>. QED
  BY <1>1, <1>2 DEF CallInv, CallOf

LEMMA EntryTypes ==
    ASSUME TypeInv, NEW c \in Clients, op[c] \in Operations
    PROVE  /\ \A stage \in Stages : TranslationFailure(c, stage) \in Entries
           /\ \A stage \in Stages, r \in BaseErrors : text[c] \in Texts => ExecutionFailure(c, stage, r) \in Entries
           /\ op[c].sql \in SQLs /\ op[c].kind \in Stages /\ StmtStage(op[c].kind) \in Stages
           /\ TranslateSQL[op[c].sql] \in Texts \cup {Failed}
BY OperationsAssumption, PoolAssumption DEF TranslationFailure, ExecutionFailure, Entries, Stages, BaseErrors, StmtStage

\* What a base driver answers, in whichever call of it.
LEMMA AnsweringTypes ==
    ASSUME TypeInv, CallInv, NEW c \in Clients, NEW r \in {"ok", "base", "badconn", "skip"},
           NEW stage \in Stages, NEW label \in {"prepare", "release"},
           pc[c] \in {"baseExec", "basePrepare", "baseStmt"},
           Report(c, r), effects' \in [Clients -> Nat], Receive(c) \/ UNCHANGED received,
           UNCHANGED <<has, logging, idle, closed, dead, op, conn, tries, text>>,
           r = "ok" => /\ pc' \in [Clients -> Labels] /\ result' \in [Clients -> Results]
                       /\ \A d \in Clients : InLog(d)' => InLog(d)
                       /\ UNCHANGED <<pending, logMu, logged, lost, failed>>,
           r # "ok" => LogThenFinish(c, ExecutionFailure(c, stage, r), r, label) /\ Record(c, stage, text[c], r)
    PROVE  TypeInv'
<1>1. op[c] \in Operations /\ conn[c] \in Conns /\ text[c] \in Texts
  BY Here DEF Holding, At, Labels
<1>2. reported' \subseteq Conns
  BY <1>1 DEF Report, TypeInv, TypeOK
<1>3. received' \in [Clients -> SUBSET Texts]
  BY <1>1, ReceiveTypes DEF TypeInv, TypeOK
<1>4. CASE r = "ok"
  BY <1>2, <1>3, <1>4 DEF TypeInv, TypeOK, MoreTypes
<1>5. CASE r # "ok"
  <2>1. ExecutionFailure(c, stage, r) \in Entries /\ r \in Results
    BY <1>1, <1>5, EntryTypes DEF BaseErrors, Results
  <2>2. /\ result' \in [Clients -> Results] /\ pc' \in [Clients -> Labels]
        /\ pending' \in [Clients -> [entry : Entries, label : {"prepare", "release"}] \cup {NoEntry}]
        /\ \A d \in Clients : InLog(d)' => pending'[d] # NoEntry
        /\ UNCHANGED <<logMu, logged, lost>>
    BY <1>5, <2>1, Failing
  <2>3. failed' \in [Clients -> Seq(Failure)]
    <3>1. r \in Errors /\ text[c] \in Texts \cup {Failed} /\ failed \in [Clients -> Seq(Failure)]
      BY <1>1, <1>5 DEF Errors, TypeInv, TypeOK
    <3>2. Record(c, stage, text[c], r)
      BY <1>5
    <3>. QED
      BY <3>1, <3>2, RecordTypes
  <2>. QED
    BY <1>2, <1>3, <2>2, <2>3 DEF TypeInv, TypeOK, MoreTypes
<1>. QED
  BY <1>4, <1>5

LEMMA BaseExecTypes ==
    ASSUME TypeInv, CallInv, NEW c \in Clients, BaseExec(c)
    PROVE  TypeInv'
<1>1. PICK r \in {"ok", "base", "badconn", "skip"} :
        /\ Effect(c, r) /\ Report(c, r)
        /\ IF r = "ok" THEN Finish(c, r) /\ UNCHANGED <<failed, logVars>>
           ELSE /\ Record(c, op[c].kind, text[c], r)
                /\ LogThenFinish(c, ExecutionFailure(c, op[c].kind, r), r, IF r = "skip" THEN "prepare" ELSE "release")
  BY DEF BaseExec, Answers
<1>2. op[c].kind \in Stages
  BY Here, EntryTypes DEF BaseExec, Labels
<1>3. effects' \in [Clients -> Nat]
  BY <1>1, EffectTypes DEF TypeInv, TypeOK
<1>4. r = "ok" => /\ pc' \in [Clients -> Labels] /\ result' \in [Clients -> Results]
                  /\ \A d \in Clients : InLog(d)' => InLog(d)
                  /\ UNCHANGED <<pending, logMu, logged, lost, failed>>
  BY <1>1, FinishTypes DEF TypeInv, TypeOK, MoreTypes, Results, logVars
<1>5. r # "ok" => /\ LogThenFinish(c, ExecutionFailure(c, op[c].kind, r), r, IF r = "skip" THEN "prepare" ELSE "release")
                  /\ Record(c, op[c].kind, text[c], r)
  BY <1>1
<1>6. /\ pc[c] \in {"baseExec", "basePrepare", "baseStmt"}
      /\ Receive(c) \/ UNCHANGED received
      /\ UNCHANGED <<has, logging, idle, closed, dead, op, conn, tries, text>>
  BY DEF BaseExec, At, fixed, poolVars
<1>. QED
  BY <1>1, <1>2, <1>3, <1>4, <1>5, <1>6, AnsweringTypes

LEMMA BasePrepareTypes ==
    ASSUME TypeInv, CallInv, NEW c \in Clients, BasePrepare(c)
    PROVE  TypeInv'
<1>1. PICK r \in {"ok", "base", "badconn", "skip"} :
        /\ Report(c, r)
        /\ IF r = "ok" THEN Goto(c, "stmt") /\ UNCHANGED <<failed, result, logVars>>
           ELSE /\ Record(c, "prepare", text[c], r)
                /\ LogThenFinish(c, ExecutionFailure(c, "prepare", r), r, "release")
  BY DEF BasePrepare, Answers
<1>2. "prepare" \in Stages
  BY DEF BasePrepare, Stages
<1>3. effects' \in [Clients -> Nat]
  BY DEF BasePrepare, TypeInv, TypeOK
<1>4. r = "ok" => /\ pc' \in [Clients -> Labels] /\ result' \in [Clients -> Results]
                  /\ \A d \in Clients : InLog(d)' => InLog(d)
                  /\ UNCHANGED <<pending, logMu, logged, lost, failed>>
  <2>1. r = "ok" => /\ pc' = [pc EXCEPT ![c] = "stmt"] /\ result' = result
                    /\ UNCHANGED <<pending, logMu, logged, lost, failed>>
    BY <1>1 DEF Goto, logVars
  <2>2. pc \in [Clients -> Labels] /\ result \in [Clients -> Results]
    BY DEF TypeInv, TypeOK, MoreTypes
  <2>. QED
    BY <2>1, <2>2 DEF Labels, InLog
<1>5. r # "ok" => LogThenFinish(c, ExecutionFailure(c, "prepare", r), r, "release") /\ Record(c, "prepare", text[c], r)
  BY <1>1
<1>6. /\ pc[c] \in {"baseExec", "basePrepare", "baseStmt"}
      /\ Receive(c) \/ UNCHANGED received
      /\ UNCHANGED <<has, logging, idle, closed, dead, op, conn, tries, text>>
  BY DEF BasePrepare, At, fixed, poolVars
<1>. QED
  BY <1>1, <1>2, <1>3, <1>4, <1>5, <1>6, AnsweringTypes

LEMMA BaseStmtTypes ==
    ASSUME TypeInv, CallInv, NEW c \in Clients, BaseStmt(c)
    PROVE  TypeInv'
<1>1. PICK r \in {"ok", "base", "badconn", "skip"} :
        /\ Effect(c, r) /\ Report(c, r)
        /\ IF r = "ok" THEN Finish(c, r) /\ UNCHANGED <<failed, logVars>>
           ELSE /\ Record(c, StmtStage(op[c].kind), text[c], r)
                /\ LogThenFinish(c, ExecutionFailure(c, StmtStage(op[c].kind), r), r, "release")
  BY DEF BaseStmt, Answers
<1>2. StmtStage(op[c].kind) \in Stages
  BY Here, EntryTypes DEF BaseStmt, Labels
<1>3. effects' \in [Clients -> Nat]
  BY <1>1, EffectTypes DEF TypeInv, TypeOK
<1>4. r = "ok" => /\ pc' \in [Clients -> Labels] /\ result' \in [Clients -> Results]
                  /\ \A d \in Clients : InLog(d)' => InLog(d)
                  /\ UNCHANGED <<pending, logMu, logged, lost, failed>>
  BY <1>1, FinishTypes DEF TypeInv, TypeOK, MoreTypes, Results, logVars
<1>5. r # "ok" => /\ LogThenFinish(c, ExecutionFailure(c, StmtStage(op[c].kind), r), r, "release")
                  /\ Record(c, StmtStage(op[c].kind), text[c], r)
  BY <1>1
<1>6. /\ pc[c] \in {"baseExec", "basePrepare", "baseStmt"}
      /\ Receive(c) \/ UNCHANGED received
      /\ UNCHANGED <<has, logging, idle, closed, dead, op, conn, tries, text>>
  BY DEF BaseStmt, At, fixed, poolVars
<1>. QED
  BY <1>1, <1>2, <1>3, <1>4, <1>5, <1>6, AnsweringTypes

\* Either the attempt goes on at label or it ends, without an entry.
LEMMA GoOrFinishTypes ==
    ASSUME TypeInv, NEW c \in Clients, NEW label \in {"call", "baseStmt"}, NEW r \in Results,
           Finish(c, r) \/ (Goto(c, label) /\ UNCHANGED result),
           UNCHANGED <<fixed, poolVars, op, conn, tries, text, logVars, failed, effects, received>>, reported' \subseteq Conns
    PROVE  TypeInv'
<1>1. /\ pc' \in [Clients -> Labels] /\ result' \in [Clients -> Results]
      /\ \A d \in Clients : InLog(d)' => InLog(d)
  <2>1. CASE Finish(c, r)
    BY <2>1, FinishTypes DEF TypeInv, TypeOK, MoreTypes
  <2>2. CASE Goto(c, label) /\ UNCHANGED result
    BY <2>2 DEF Goto, InLog, Labels, TypeInv, TypeOK, MoreTypes
  <2>. QED
    BY <2>1, <2>2
<1>2. UNCHANGED <<has, logging, idle, closed, dead, op, conn, tries, text, pending, logMu, logged, lost, failed, effects, received>>
  BY DEF fixed, poolVars, logVars
<1>. QED
  BY <1>1, <1>2 DEF TypeInv, TypeOK, MoreTypes

LEMMA ResetSessionTypes ==
    ASSUME TypeInv, CallInv, NEW c \in Clients, ResetSession(c)
    PROVE  TypeInv'
<1>1. conn[c] \in Conns
  BY Here DEF ResetSession, Holding, Labels
<1>2. reported' \subseteq Conns
  BY <1>1 DEF ResetSession, TypeInv, TypeOK
<1>3. Finish(c, "badconn") \/ (Goto(c, "call") /\ UNCHANGED result)
  BY DEF ResetSession
<1>4. UNCHANGED <<fixed, poolVars, op, conn, tries, text, logVars, failed, effects, received>>
  BY DEF ResetSession
<1>. QED
  BY <1>2, <1>3, <1>4, GoOrFinishTypes DEF Results

LEMMA StmtExecContextTypes ==
    ASSUME TypeInv, NEW c \in Clients, StmtExecContext(c)
    PROVE  TypeInv'
<1>1. Finish(c, "arg") \/ (Goto(c, "baseStmt") /\ UNCHANGED result)
  BY DEF StmtExecContext
<1>2. UNCHANGED <<fixed, poolVars, op, conn, tries, text, logVars, failed, effects, received>> /\ reported' \subseteq Conns
  BY DEF StmtExecContext, history, TypeInv, TypeOK
<1>. QED
  BY <1>1, <1>2, GoOrFinishTypes DEF Results

\* Every step keeps the types.
LEMMA TypeStep == TypeInv /\ CallInv /\ [Next]_vars => TypeInv'
<1> SUFFICES ASSUME TypeInv, CallInv, [Next]_vars
             PROVE  TypeInv'
  OBVIOUS
<1> USE PoolAssumption, OperationsAssumption
    DEF TypeInv, TypeOK, MoreTypes, Labels, InLog, At, Goto, Finish, Results, fixed, poolVars, callVars, logVars, history
<1>1. ASSUME NEW c \in Clients, NEW o \in Operations, Call(c, o) PROVE TypeInv'
  BY <1>1 DEF Call
<1>2. ASSUME NEW c \in Clients, Reuse(c) PROVE TypeInv'
  BY <1>2 DEF Reuse
<1>3. ASSUME NEW c \in Clients, Connect(c) PROVE TypeInv'
  BY <1>3 DEF Connect
<1>4. ASSUME NEW c \in Clients, ConnectFails(c) PROVE TypeInv'
  BY <1>4 DEF ConnectFails
<1>5. ASSUME NEW c \in Clients, ResetSession(c) PROVE TypeInv'
  BY <1>5, ResetSessionTypes
<1>6. ASSUME NEW c \in Clients, NEW stage \in {"exec", "query", "prepare"}, NEW label \in {"baseExec", "basePrepare"},
             Translate(c, stage, label), op[c] \in Operations,
             UNCHANGED <<fixed, poolVars, op, conn, tries, effects, received, reported>>
      PROVE  TypeInv'
  <2>1. TranslationFailure(c, stage) \in Entries /\ TranslateSQL[op[c].sql] \in Texts \cup {Failed}
    BY <1>6, EntryTypes DEF Stages
  <2>2. text' \in [Clients -> Texts \cup {Failed}]
    BY <1>6, <2>1 DEF Translate
  <2>3. CASE TranslateSQL[op[c].sql] = Failed
    <3>1. LogThenFinish(c, TranslationFailure(c, stage), "translation", "release")
      BY <1>6, <2>3 DEF Translate
    <3>2. /\ result' \in [Clients -> Results] /\ pc' \in [Clients -> Labels]
          /\ pending' \in [Clients -> [entry : Entries, label : {"prepare", "release"}] \cup {NoEntry}]
          /\ \A d \in Clients : InLog(d)' => pending'[d] # NoEntry
          /\ UNCHANGED <<logMu, logged, lost>>
      BY <2>1, <3>1, Failing
    <3>3. failed' \in [Clients -> Seq(Failure)]
      <4>1. Record(c, stage, Failed, "translation") /\ stage \in Stages /\ "translation" \in Errors
        BY <1>6, <2>3 DEF Translate, Stages, Errors
      <4>. QED
        BY <4>1, RecordTypes
    <3>. QED
      BY <1>6, <2>2, <3>2, <3>3
  <2>4. CASE TranslateSQL[op[c].sql] # Failed
    <3>1. pc' = [pc EXCEPT ![c] = label] /\ UNCHANGED <<failed, result, pending, logMu, logged, lost>>
      BY <1>6, <2>4 DEF Translate
    <3>. QED
      BY <1>6, <2>2, <3>1
  <2>. QED
    BY <2>3, <2>4
<1>7. ASSUME NEW c \in Clients, ExecContext(c) PROVE TypeInv'
  <2>1. op[c] \in Operations /\ op[c].kind \in {"exec", "query"}
    BY <1>7, Here DEF ExecContext
  <2>2. CASE "Execer" \in has
    BY <1>6, <1>7, <2>1, <2>2 DEF ExecContext
  <2>3. CASE "Execer" \notin has
    BY <1>7, <2>3 DEF ExecContext
  <2>. QED
    BY <2>2, <2>3
<1>8. ASSUME NEW c \in Clients, PrepareContext(c) PROVE TypeInv'
  <2>1. op[c] \in Operations
    BY <1>8, Here DEF PrepareContext
  <2>. QED
    BY <1>6, <1>8, <2>1 DEF PrepareContext
<1>9. ASSUME NEW c \in Clients, BaseExec(c) PROVE TypeInv'
  BY <1>9, BaseExecTypes
<1>10. ASSUME NEW c \in Clients, BasePrepare(c) PROVE TypeInv'
  BY <1>10, BasePrepareTypes
<1>11. ASSUME NEW c \in Clients, BaseStmt(c) PROVE TypeInv'
  BY <1>11, BaseStmtTypes
<1>12. ASSUME NEW c \in Clients, StmtExecContext(c) PROVE TypeInv'
  BY <1>12, StmtExecContextTypes
<1>13. ASSUME NEW c \in Clients, LogAppend(c) PROVE TypeInv'
  <2>1. pending[c] \in [entry : Entries, label : {"prepare", "release"}]
    BY <1>13 DEF LogAppend
  <2>2. logged' \in [Clients -> Seq(Entries)] /\ lost' \in [Clients -> BOOLEAN]
    <3>1. pending[c].entry \in Entries
      BY <2>1
    <3>2. [logged EXCEPT ![c] = Append(@, pending[c].entry)] \in [Clients -> Seq(Entries)]
      BY <3>1, AppendTypes
    <3>. QED
      BY <1>13, <3>2 DEF LogAppend
  <2>3. pc' \in [Clients -> Labels] /\ logMu' = NoConn
        /\ pending' \in [Clients -> [entry : Entries, label : {"prepare", "release"}] \cup {NoEntry}]
    BY <1>13, <2>1 DEF LogAppend
  <2>4. \A d \in Clients : InLog(d)' => pending'[d] # NoEntry
    BY <1>13, <2>1 DEF LogAppend
  <2>. QED
    BY <1>13, <2>2, <2>3, <2>4 DEF LogAppend
<1>14. ASSUME NEW c \in Clients, Release(c) PROVE TypeInv'
  <2>1. conn' \in [Clients -> Conns \cup {NoConn}]
    BY <1>14 DEF Release
  <2>2. idle' \subseteq Conns /\ closed' \subseteq Conns /\ dead' \subseteq Conns /\ reported' \subseteq Conns
    <3>1. conn[c] \in Conns \cup {NoConn}
      OBVIOUS
    <3>. QED
      BY <1>14, <3>1 DEF Release
  <2>3. tries' \in [Clients -> 0 .. MaxRetries] /\ result' \in [Clients -> Results]
        /\ pc' \in [Clients -> Labels] /\ \A d \in Clients : InLog(d)' => InLog(d)
    BY <1>14, ReleaseTypes
  <2>. QED
    BY <1>14, <2>1, <2>2, <2>3 DEF Release
<1>15. ASSUME NEW c \in Clients, Return(c) PROVE TypeInv'
  BY <1>15 DEF Return
<1>16. ASSUME NEW c \in Clients, LogLock(c) PROVE TypeInv'
  BY <1>16 DEF LogLock
<1>17. ASSUME NEW k \in Conns, ServerDies(k) PROVE TypeInv'
  BY <1>17 DEF ServerDies
<1>18. CASE UNCHANGED vars
  BY <1>18 DEF vars
<1>. QED
  BY <1>1, <1>2, <1>3, <1>4, <1>5, <1>7, <1>8, <1>9, <1>10, <1>11, <1>12, <1>13, <1>14, <1>15,
     <1>16, <1>17, <1>18 DEF Next, Proceed

-----------------------------------------------------------------------------
\* The others stay where they are.
Only(c) ==
    \A d \in Clients \ {c} :
        /\ After(d)' = After(d) /\ op'[d] = op[d] /\ conn'[d] = conn[d] /\ text'[d] = text[d]
        /\ result'[d] = result[d] /\ effects'[d] = effects[d] /\ received'[d] = received[d]
        /\ logged'[d] = logged[d] /\ lost'[d] = lost[d] /\ pending'[d] = pending[d] /\ InLog(d)' = InLog(d)
        /\ failed'[d] = failed[d] /\ tries'[d] = tries[d]

\* The failure f joins the others, and its entry is under way unless the log is off.
Noted(c, f) ==
    /\ failed'[c] = Append(failed[c], f) /\ f \in Failure
    /\ InLog(c)' => logging /\ pending'[c].entry = EntryOf(c, f)
    /\ ~InLog(c)' => ~logging

Refusal(stage) == [stage |-> stage, text |-> Failed, error |-> "translation"]
Answer(c, stage, r) == [stage |-> stage, text |-> text[c], error |-> r]

\* Translate either goes on to label or fails.
LEMMA TranslateStep ==
    ASSUME TypeInv, NEW c \in Clients, NEW stage \in Stages, NEW label \in Labels \ {"log", "append"},
           op[c] \in Operations, ~InLog(c), Translate(c, stage, label),
           UNCHANGED <<fixed, poolVars, op, conn, tries, effects, received, reported>>
    PROVE  /\ Only(c)
           /\ UNCHANGED logged /\ UNCHANGED lost
           /\ text'[c] = TranslateSQL[op[c].sql]
           /\ \/ /\ text'[c] = Failed /\ After(c)' = "release" /\ result'[c] = "translation"
                 /\ Noted(c, Refusal(stage))
              \/ /\ text'[c] # Failed /\ After(c)' = label /\ ~InLog(c)' /\ result'[c] = result[c]
                 /\ failed'[c] = failed[c]
<1>1. text' = [text EXCEPT ![c] = TranslateSQL[op[c].sql]] /\ text'[c] = TranslateSQL[op[c].sql]
  BY DEF Translate, TypeInv, TypeOK
<1>2. CASE TranslateSQL[op[c].sql] = Failed
  <2>1. LogThenFinish(c, TranslationFailure(c, stage), "translation", "release") /\ Record(c, stage, Failed, "translation")
    BY <1>2 DEF Translate
  <2>2. TranslationFailure(c, stage) \in Entries /\ "translation" \in Results
    BY EntryTypes DEF Results
  <2>3. /\ result' = [result EXCEPT ![c] = "translation"] /\ After(c)' = "release"
        /\ UNCHANGED <<logMu, logged, lost>>
        /\ \A d \in Clients \ {c} : After(d)' = After(d) /\ InLog(d)' = InLog(d) /\ pending'[d] = pending[d]
        /\ InLog(c)' => logging /\ pending'[c].entry = TranslationFailure(c, stage)
        /\ ~InLog(c)' => ~logging
    BY <2>1, <2>2, Failing
  <2>4. failed'[c] = Append(failed[c], Refusal(stage)) /\ \A d \in Clients \ {c} : failed'[d] = failed[d]
    BY <2>1, RecordTypes DEF Refusal, Errors, TypeInv, TypeOK
  <2>5. Refusal(stage) \in Failure /\ EntryOf(c, Refusal(stage)) = TranslationFailure(c, stage)
    BY DEF Refusal, Failure, Errors, EntryOf, TranslationFailure
  <2>6. Noted(c, Refusal(stage))
    BY <2>3, <2>4, <2>5 DEF Noted
  <2>. QED
    BY <1>1, <1>2, <2>3, <2>4, <2>6 DEF Only, TypeInv, TypeOK
<1>3. CASE TranslateSQL[op[c].sql] # Failed
  <2>1. pc' = [pc EXCEPT ![c] = label] /\ UNCHANGED <<failed, result, pending, logMu, logged, lost>>
    BY <1>3 DEF Translate, Goto, logVars
  <2>. QED
    BY <1>1, <1>3, <2>1 DEF Only, After, InLog, TypeInv, TypeOK, MoreTypes
<1>. QED
  BY <1>2, <1>3

\* The base driver answers r: the attempt ends, or goes on at next.
Answered(c, r, stage, label, next) ==
    \/ /\ r = "ok" /\ After(c)' = next /\ ~InLog(c)' /\ result'[c] = IF next = "release" THEN r ELSE result[c]
       /\ failed'[c] = failed[c]
    \/ r # "ok" /\ After(c)' = label /\ result'[c] = r /\ Noted(c, Answer(c, stage, r))

LEMMA AnswerStep ==
    ASSUME TypeInv, NEW c \in Clients, NEW r \in {"ok", "base", "badconn", "skip"}, NEW stage \in Stages,
           NEW label \in {"prepare", "release"}, NEW next \in Labels \ {"log", "append"},
           op[c] \in Operations, text[c] \in Texts, ~InLog(c),
           Effect(c, r) \/ UNCHANGED effects, Receive(c) \/ UNCHANGED received,
           UNCHANGED <<has, logging, idle, closed, dead, op, conn, tries, text>>,
           r = "ok" => /\ pc' = [pc EXCEPT ![c] = next]
                       /\ result' = [result EXCEPT ![c] = IF next = "release" THEN r ELSE @]
                       /\ UNCHANGED <<pending, logMu, logged, lost, failed>>,
           r # "ok" => LogThenFinish(c, ExecutionFailure(c, stage, r), r, label) /\ Record(c, stage, text[c], r)
    PROVE  /\ Only(c)
           /\ UNCHANGED logged /\ UNCHANGED lost
           /\ Answered(c, r, stage, label, next)
<1>1. \A d \in Clients \ {c} : effects'[d] = effects[d] /\ received'[d] = received[d]
  BY DEF Effect, Receive, TypeInv, TypeOK
<1>2. CASE r = "ok"
  BY <1>1, <1>2 DEF Only, After, InLog, TypeInv, TypeOK, MoreTypes, Answered
<1>3. CASE r # "ok"
  <2>1. ExecutionFailure(c, stage, r) \in Entries /\ r \in Results
    BY <1>3, EntryTypes DEF BaseErrors, Results
  <2>2. /\ result' = [result EXCEPT ![c] = r] /\ After(c)' = label
        /\ UNCHANGED <<logMu, logged, lost>>
        /\ \A d \in Clients \ {c} : After(d)' = After(d) /\ InLog(d)' = InLog(d) /\ pending'[d] = pending[d]
        /\ InLog(c)' => logging /\ pending'[c].entry = ExecutionFailure(c, stage, r)
        /\ ~InLog(c)' => ~logging
    BY <1>3, <2>1, Failing
  <2>3. failed'[c] = Append(failed[c], Answer(c, stage, r)) /\ \A d \in Clients \ {c} : failed'[d] = failed[d]
    <3>1. r \in Errors /\ text[c] \in Texts \cup {Failed} /\ failed \in [Clients -> Seq(Failure)]
      BY <1>3 DEF Errors, TypeInv, TypeOK
    <3>2. Record(c, stage, text[c], r)
      BY <1>3
    <3>. QED
      BY <3>1, <3>2, RecordTypes DEF Answer
  <2>4. Answer(c, stage, r) \in Failure /\ EntryOf(c, Answer(c, stage, r)) = ExecutionFailure(c, stage, r)
    BY <1>3 DEF Answer, Failure, Errors, EntryOf, ExecutionFailure
  <2>5. Noted(c, Answer(c, stage, r))
    BY <2>2, <2>3, <2>4 DEF Noted
  <2>6. result'[c] = r /\ \A d \in Clients \ {c} : result'[d] = result[d]
    BY <2>2 DEF TypeInv, TypeOK
  <2>. QED
    BY <1>1, <1>3, <2>2, <2>3, <2>5, <2>6 DEF Only, Answered
<1>. QED
  BY <1>2, <1>3

LEMMA BaseExecStep ==
    ASSUME TypeInv, CallInv, NEW c \in Clients, BaseExec(c)
    PROVE  /\ Only(c) /\ UNCHANGED <<logged, lost, op, conn, tries, text, idle, closed, dead, logging>>
           /\ After(c) = "baseExec" /\ ~InLog(c) /\ op[c] \in Operations /\ conn[c] \in Conns
           /\ text[c] = TranslateSQL[op[c].sql] /\ text[c] # Failed
           /\ Receive(c)
           /\ \E r \in {"ok", "base", "badconn", "skip"} :
                /\ Effect(c, r) /\ Report(c, r)
                /\ Answered(c, r, op[c].kind, IF r = "skip" THEN "prepare" ELSE "release", "release")
<1>1. PICK r \in {"ok", "base", "badconn", "skip"} :
        /\ Effect(c, r) /\ Report(c, r)
        /\ r = "ok" => /\ pc' = [pc EXCEPT ![c] = "release"]
                       /\ result' = [result EXCEPT ![c] = IF "release" = "release" THEN r ELSE @]
                       /\ UNCHANGED <<pending, logMu, logged, lost, failed>>
        /\ r # "ok" => /\ LogThenFinish(c, ExecutionFailure(c, op[c].kind, r), r, IF r = "skip" THEN "prepare" ELSE "release")
                       /\ Record(c, op[c].kind, text[c], r)
  BY DEF BaseExec, Answers, Finish, Goto, logVars, TypeInv, TypeOK
<1>2. /\ UNCHANGED <<has, logging, idle, closed, dead, op, conn, tries, text>>
      /\ At(c, "baseExec") /\ ~InLog(c) /\ Receive(c)
  BY DEF BaseExec, At, InLog, fixed, poolVars
<1>3. /\ After(c) = "baseExec" /\ op[c] \in Operations /\ conn[c] \in Conns /\ text[c] \in Texts
      /\ text[c] = TranslateSQL[op[c].sql] /\ text[c] # Failed
  BY <1>2, Here DEF Labels, Holding
<1>4. op[c].kind \in Stages
  BY <1>3, EntryTypes DEF Stages
<1>5. Only(c) /\ UNCHANGED logged /\ UNCHANGED lost /\ Answered(c, r, op[c].kind, IF r = "skip" THEN "prepare" ELSE "release", "release")
  BY <1>1, <1>2, <1>3, <1>4, AnswerStep DEF Labels
<1>. QED
  BY <1>1, <1>2, <1>3, <1>5

LEMMA BasePrepareStep ==
    ASSUME TypeInv, CallInv, NEW c \in Clients, BasePrepare(c)
    PROVE  /\ Only(c) /\ UNCHANGED <<logged, lost, op, conn, tries, text, idle, closed, dead, logging>>
           /\ After(c) = "basePrepare" /\ ~InLog(c) /\ op[c] \in Operations /\ conn[c] \in Conns
           /\ text[c] = TranslateSQL[op[c].sql] /\ text[c] # Failed
           /\ Receive(c)
           /\ \E r \in {"ok", "base", "badconn", "skip"} :
                /\ UNCHANGED effects /\ Report(c, r)
                /\ Answered(c, r, "prepare", "release", "stmt")
<1>1. PICK r \in {"ok", "base", "badconn", "skip"} :
        /\ UNCHANGED effects /\ Report(c, r)
        /\ r = "ok" => /\ pc' = [pc EXCEPT ![c] = "stmt"]
                       /\ result' = [result EXCEPT ![c] = IF "stmt" = "release" THEN r ELSE @]
                       /\ UNCHANGED <<pending, logMu, logged, lost, failed>>
        /\ r # "ok" => LogThenFinish(c, ExecutionFailure(c, "prepare", r), r, "release") /\ Record(c, "prepare", text[c], r)
  BY DEF BasePrepare, Answers, Finish, Goto, logVars, TypeInv, TypeOK
<1>2. /\ UNCHANGED <<has, logging, idle, closed, dead, op, conn, tries, text>>
      /\ At(c, "basePrepare") /\ ~InLog(c) /\ Receive(c)
  BY DEF BasePrepare, At, InLog, fixed, poolVars
<1>3. /\ After(c) = "basePrepare" /\ op[c] \in Operations /\ conn[c] \in Conns /\ text[c] \in Texts
      /\ text[c] = TranslateSQL[op[c].sql] /\ text[c] # Failed
  BY <1>2, Here DEF Labels, Holding
<1>4. "prepare" \in Stages
  BY <1>3, EntryTypes DEF Stages
<1>5. Only(c) /\ UNCHANGED logged /\ UNCHANGED lost /\ Answered(c, r, "prepare", "release", "stmt")
  BY <1>1, <1>2, <1>3, <1>4, AnswerStep DEF Labels
<1>. QED
  BY <1>1, <1>2, <1>3, <1>5

LEMMA BaseStmtStep ==
    ASSUME TypeInv, CallInv, NEW c \in Clients, BaseStmt(c)
    PROVE  /\ Only(c) /\ UNCHANGED <<logged, lost, op, conn, tries, text, idle, closed, dead, logging>>
           /\ After(c) = "baseStmt" /\ ~InLog(c) /\ op[c] \in Operations /\ conn[c] \in Conns
           /\ text[c] = TranslateSQL[op[c].sql] /\ text[c] # Failed
           /\ UNCHANGED received
           /\ \E r \in {"ok", "base", "badconn", "skip"} :
                /\ Effect(c, r) /\ Report(c, r)
                /\ Answered(c, r, StmtStage(op[c].kind), "release", "release")
<1>1. PICK r \in {"ok", "base", "badconn", "skip"} :
        /\ Effect(c, r) /\ Report(c, r)
        /\ r = "ok" => /\ pc' = [pc EXCEPT ![c] = "release"]
                       /\ result' = [result EXCEPT ![c] = IF "release" = "release" THEN r ELSE @]
                       /\ UNCHANGED <<pending, logMu, logged, lost, failed>>
        /\ r # "ok" => /\ LogThenFinish(c, ExecutionFailure(c, StmtStage(op[c].kind), r), r, "release")
                       /\ Record(c, StmtStage(op[c].kind), text[c], r)
  BY DEF BaseStmt, Answers, Finish, Goto, logVars, TypeInv, TypeOK
<1>2. /\ UNCHANGED <<has, logging, idle, closed, dead, op, conn, tries, text>>
      /\ At(c, "baseStmt") /\ ~InLog(c) /\ UNCHANGED received
  BY DEF BaseStmt, At, InLog, fixed, poolVars
<1>3. /\ After(c) = "baseStmt" /\ op[c] \in Operations /\ conn[c] \in Conns /\ text[c] \in Texts
      /\ text[c] = TranslateSQL[op[c].sql] /\ text[c] # Failed
  BY <1>2, Here DEF Labels, Holding
<1>4. StmtStage(op[c].kind) \in Stages
  BY <1>3, EntryTypes DEF Stages
<1>5. Only(c) /\ UNCHANGED logged /\ UNCHANGED lost /\ Answered(c, r, StmtStage(op[c].kind), "release", "release")
  BY <1>1, <1>2, <1>3, <1>4, AnswerStep DEF Labels
<1>. QED
  BY <1>1, <1>2, <1>3, <1>5

\* A translation failure, or on to label.
Translated(c, stage, label) ==
    \/ text'[c] = Failed /\ After(c)' = "release" /\ result'[c] = "translation" /\ Noted(c, Refusal(stage))
    \/ /\ text'[c] # Failed /\ After(c)' = label /\ ~InLog(c)' /\ result'[c] = result[c]
       /\ failed'[c] = failed[c]

LEMMA ExecContextStep ==
    ASSUME TypeInv, CallInv, NEW c \in Clients, ExecContext(c)
    PROVE  /\ Only(c) /\ UNCHANGED <<logged, lost, op, conn, tries, effects, received, reported, idle, closed, logging>>
           /\ After(c) = "call" /\ ~InLog(c) /\ op[c] \in Operations /\ conn[c] \in Conns
           /\ \/ text'[c] = TranslateSQL[op[c].sql] /\ Translated(c, op[c].kind, "baseExec")
              \/ After(c)' = "prepare" /\ ~InLog(c)' /\ result'[c] = result[c] /\ failed'[c] = failed[c]
<1>1. /\ At(c, "call") /\ ~InLog(c)
      /\ UNCHANGED <<fixed, poolVars, op, conn, tries, effects, received, reported>>
  BY DEF ExecContext, At, InLog
<1>2. After(c) = "call" /\ op[c] \in Operations /\ conn[c] \in Conns /\ op[c].kind \in Stages
  BY <1>1, Here, EntryTypes DEF Labels, Holding
<1>3. CASE "Execer" \in has
  <2>1. Translate(c, op[c].kind, "baseExec")
    BY <1>3 DEF ExecContext
  <2>. QED
    BY <1>1, <1>2, <2>1, TranslateStep DEF Translated, Labels, fixed, poolVars
<1>4. CASE "Execer" \notin has
  <2>1. pc' = [pc EXCEPT ![c] = "prepare"] /\ UNCHANGED <<failed, text, result, pending, logged, lost>>
    BY <1>4 DEF ExecContext, Goto, logVars
  <2>. QED
    BY <1>1, <1>2, <2>1 DEF Only, After, InLog, TypeInv, MoreTypes, fixed, poolVars
<1>. QED
  BY <1>3, <1>4

LEMMA PrepareContextStep ==
    ASSUME TypeInv, CallInv, NEW c \in Clients, PrepareContext(c)
    PROVE  /\ Only(c) /\ UNCHANGED <<logged, lost, op, conn, tries, effects, received, reported, idle, closed, logging>>
           /\ After(c) = "prepare" /\ ~InLog(c) /\ op[c] \in Operations /\ conn[c] \in Conns
           /\ text'[c] = TranslateSQL[op[c].sql] /\ Translated(c, "prepare", "basePrepare")
<1>1. /\ At(c, "prepare") /\ ~InLog(c)
      /\ UNCHANGED <<fixed, poolVars, op, conn, tries, effects, received, reported>>
      /\ Translate(c, "prepare", "basePrepare")
  BY DEF PrepareContext, At, InLog
<1>2. After(c) = "prepare" /\ op[c] \in Operations /\ conn[c] \in Conns
  BY <1>1, Here DEF Labels, Holding
<1>. QED
  BY <1>1, <1>2, TranslateStep DEF Translated, Labels, Stages, fixed, poolVars

\* An entry that has been appended, or lost, leaves the client where it goes on.
LEMMA LogAppendStep ==
    ASSUME TypeInv, NEW c \in Clients, LogAppend(c)
    PROVE  /\ Only(c) /\ UNCHANGED <<op, conn, tries, text, result, failed, effects, received, reported, idle, closed, logging>>
           /\ After(c)' = After(c) /\ InLog(c) /\ ~InLog(c)' /\ pending[c].entry \in Entries
           /\ \/ logged'[c] = Append(logged[c], pending[c].entry) /\ UNCHANGED lost
              \/ logged'[c] = logged[c] /\ lost'[c] = TRUE
<1>1. /\ At(c, "append") /\ InLog(c) /\ pending[c] \in [entry : Entries, label : {"prepare", "release"}]
      /\ UNCHANGED <<fixed, poolVars, callVars, history>>
  BY DEF LogAppend, At, InLog, TypeInv, MoreTypes
<1>2. pc' = [pc EXCEPT ![c] = pending[c].label] /\ pending' = [pending EXCEPT ![c] = NoEntry]
  BY DEF LogAppend, Goto
<1>3. \/ logged' = [logged EXCEPT ![c] = Append(@, pending[c].entry)] /\ UNCHANGED lost
      \/ lost' = [lost EXCEPT ![c] = TRUE] /\ UNCHANGED logged
  BY DEF LogAppend
<1>4. /\ After(c)' = After(c) /\ ~InLog(c)'
      /\ \A d \in Clients \ {c} : After(d)' = After(d) /\ InLog(d)' = InLog(d) /\ pending'[d] = pending[d]
  BY <1>1, <1>2 DEF After, InLog, TypeInv, MoreTypes
<1>5. \A d \in Clients \ {c} : logged'[d] = logged[d] /\ lost'[d] = lost[d]
  BY <1>3 DEF TypeInv, TypeOK, MoreTypes
<1>6. \/ logged'[c] = Append(logged[c], pending[c].entry) /\ UNCHANGED lost
      \/ logged'[c] = logged[c] /\ lost'[c] = TRUE
  BY <1>3 DEF TypeInv, TypeOK, MoreTypes
<1>. QED
  BY <1>1, <1>4, <1>5, <1>6 DEF Only, fixed, poolVars, callVars, history
-----------------------------------------------------------------------------
\* Outside of the logger a client is where its program counter says.
LEMMA Moving ==
    ASSUME TypeInv, NEW c \in Clients, NEW label \in Labels \ {"log", "append"}, ~InLog(c),
           pc' = [pc EXCEPT ![c] = label], UNCHANGED pending
    PROVE  /\ After(c)' = label /\ ~InLog(c)'
           /\ \A d \in Clients \ {c} : After(d)' = After(d) /\ InLog(d)' = InLog(d) /\ pending'[d] = pending[d]
BY DEF After, InLog, TypeInv, MoreTypes

\* What is logged and met is the same if none of the variables it is about changes.
LEMMA LogSame ==
    ASSUME NEW d \in Clients, LogOf(d), UNCHANGED logging, op'[d] = op[d], received'[d] = received[d],
           failed'[d] = failed[d], logged'[d] = logged[d], lost'[d] = lost[d], pending'[d] = pending[d],
           InLog(d)' = InLog(d)
    PROVE  LogOf(d)'
<1>1. ASSUME NEW i \in 1 .. Len(failed[d])
      PROVE  Met(d, failed[d][i])' /\ EntryOf(d, failed[d][i])' = EntryOf(d, failed[d][i])
  <2>1. Met(d, failed[d][i])
    BY DEF LogOf
  <2>. QED
    BY <2>1 DEF Met, EntryOf
<1>2. ASSUME NEW i \in 1 .. Len(logged[d])
      PROVE  \E j \in 1 .. Len(failed[d]) : logged'[d][i] = EntryOf(d, failed[d][j])'
  <2>1. PICK j \in 1 .. Len(failed[d]) : logged[d][i] = EntryOf(d, failed[d][j])
    BY DEF LogOf
  <2>. QED
    BY <1>1, <2>1
<1>3. InLog(d)' => /\ logging' /\ Len(failed'[d]) > 0
                   /\ pending'[d].entry = EntryOf(d, failed[d][Len(failed[d])])'
                   /\ Len(logged'[d]) < Len(failed'[d])
  <2>1. InLog(d) => /\ logging /\ Len(failed[d]) > 0
                    /\ pending[d].entry = EntryOf(d, failed[d][Len(failed[d])])
                    /\ Len(logged[d]) < Len(failed[d])
    BY DEF LogOf
  <2>2. EntryOf(d, failed[d][Len(failed[d])])' = EntryOf(d, failed[d][Len(failed[d])])
    BY DEF EntryOf
  <2>. QED
    BY <2>1, <2>2
<1>4. ~InLog(d)' => Len(logged'[d]) <= Len(failed'[d])
  BY DEF LogOf
<1>5. ~logging' => logged'[d] = <<>>
  BY DEF LogOf
<1>6. logging' /\ ~lost'[d] =>
        /\ Len(failed'[d]) = IF InLog(d)' THEN Len(logged'[d]) + 1 ELSE Len(logged'[d])
        /\ \A i \in 1 .. Len(logged'[d]) : logged'[d][i] = EntryOf(d, failed[d][i])'
  <2>1. logging /\ ~lost[d] => Len(failed[d]) = IF InLog(d) THEN Len(logged[d]) + 1 ELSE Len(logged[d])
    BY DEF LogOf
  <2>2. ASSUME logging, ~lost[d], NEW i \in 1 .. Len(logged[d]) PROVE logged'[d][i] = EntryOf(d, failed[d][i])'
    <3>1. logged[d][i] = EntryOf(d, failed[d][i])
      BY <2>2 DEF LogOf
    <3>2. EntryOf(d, failed[d][i])' = EntryOf(d, failed[d][i])
      BY DEF EntryOf
    <3>. QED
      BY <3>1, <3>2
  <2>. QED
    BY <2>1, <2>2
<1>. QED
  BY <1>1, <1>2, <1>3, <1>4, <1>5, <1>6 DEF LogOf

\* A client that does nothing keeps what holds of it.
LEMMA Others ==
    ASSUME NEW c \in Clients, NEW d \in Clients \ {c}, Only(c), UNCHANGED logging, ClientInv(d)
    PROVE  ClientInv(d)'
<1>1. /\ After(d)' = After(d) /\ op'[d] = op[d] /\ conn'[d] = conn[d] /\ text'[d] = text[d]
      /\ result'[d] = result[d] /\ effects'[d] = effects[d] /\ received'[d] = received[d]
      /\ logged'[d] = logged[d] /\ lost'[d] = lost[d] /\ pending'[d] = pending[d] /\ InLog(d)' = InLog(d)
      /\ failed'[d] = failed[d] /\ tries'[d] = tries[d]
  BY DEF Only
<1>2. CallOf(d)' /\ TextsOf(d)' /\ EffectOf(d)'
  BY <1>1 DEF ClientInv, CallOf, TextsOf, EffectOf, Ended
<1>3. LogOf(d)'
  BY <1>1, LogSame DEF ClientInv
<1>4. FailOf(d)'
  BY <1>1 DEF ClientInv, FailOf, Ended
<1>. QED
  BY <1>2, <1>3, <1>4 DEF ClientInv

\* The log of a call that goes on, outside of the logger, or ends with nothing to log.
LEMMA LogKept ==
    ASSUME NEW c \in Clients, ClientInv(c), ~InLog(c), ~InLog(c)', ~Ended(c) \/ result[c] = "badconn",
           logged'[c] = logged[c], lost'[c] = lost[c], UNCHANGED logging, failed'[c] = failed[c],
           Ended(c)' => \/ result'[c] \in {"ok", "arg", "connect"}
                        \/ result'[c] = "badconn" /\ After(c)' = "release" /\ tries'[c] < MaxRetries,
           op'[c] = op[c] \/ failed[c] = <<>>, received[c] \subseteq received'[c]
    PROVE  LogOf(c)' /\ FailOf(c)'
<1>1. \A i \in 1 .. Len(failed[c]) : Met(c, failed[c][i])'
  BY DEF ClientInv, LogOf, Met
<1>2. \A j \in 1 .. Len(failed[c]) : EntryOf(c, failed[c][j])' = EntryOf(c, failed[c][j])
  BY DEF EntryOf
<1>3. LogOf(c)'
  <2>1. \A i \in 1 .. Len(logged[c]) : \E j \in 1 .. Len(failed[c]) : logged'[c][i] = EntryOf(c, failed[c][j])'
    BY <1>2 DEF ClientInv, LogOf
  <2>2. logging /\ ~lost[c] =>
          /\ Len(failed[c]) = Len(logged[c])
          /\ \A i \in 1 .. Len(logged[c]) : logged'[c][i] = EntryOf(c, failed[c][i])'
    BY <1>2 DEF ClientInv, LogOf
  <2>3. Len(logged[c]) <= Len(failed[c]) /\ (~logging => logged[c] = <<>>)
    BY DEF ClientInv, LogOf
  <2>. QED
    BY <1>1, <2>1, <2>2, <2>3 DEF LogOf, Met, EntryOf
<1>4. \A i \in 1 .. Len(failed[c]) : failed[c][i].error \notin {"translation", "base"}
  BY DEF ClientInv, FailOf
<1>5. FailOf(c)'
  BY <1>4 DEF FailOf
<1>. QED
  BY <1>3, <1>5

\* A call begins with an empty history.
LEMMA CallKeeps ==
    ASSUME TypeInv, CallInv, NEW c \in Clients, ClientInv(c), NEW o \in Operations, Call(c, o)
    PROVE  Only(c) /\ ClientInv(c)'
<1>1. /\ At(c, "idle") /\ ~InLog(c) /\ UNCHANGED pending /\ UNCHANGED logged /\ UNCHANGED lost /\ UNCHANGED logging
      /\ UNCHANGED failed /\ UNCHANGED effects /\ UNCHANGED received /\ UNCHANGED text
      /\ UNCHANGED tries
  BY DEF Call, At, InLog, fixed, callVars, logVars, history
<1>2. After(c) = "idle"
  BY <1>1, Here DEF Labels, Holding
<1>3. After(c)' = "getConn" /\ ~InLog(c)' /\ op'[c] = o
  BY <1>1, Moving DEF Call, Goto, Labels, TypeInv, TypeOK
<1>4. Only(c)
  BY <1>1, Moving DEF Call, Goto, Labels, TypeInv, TypeOK, Only
<1>5. CallOf(c)' /\ TextsOf(c)' /\ EffectOf(c)'
  BY <1>1, <1>2, <1>3 DEF ClientInv, CallOf, TextsOf, EffectOf, Ended, Holding
<1>6. LogOf(c)' /\ FailOf(c)'
  BY <1>1, <1>2, <1>3, LogKept DEF Ended, ClientInv, CallOf
<1>. QED
  BY <1>4, <1>5, <1>6 DEF ClientInv

\* An attempt has a connection before it does anything.
LEMMA ReuseKeeps ==
    ASSUME TypeInv, CallInv, NEW c \in Clients, ClientInv(c), Reuse(c)
    PROVE  Only(c) /\ ClientInv(c)'
<1>1. /\ At(c, "getConn") /\ ~InLog(c) /\ UNCHANGED pending /\ UNCHANGED logged /\ UNCHANGED lost /\ UNCHANGED logging
      /\ UNCHANGED failed /\ UNCHANGED effects /\ UNCHANGED received /\ UNCHANGED text
      /\ UNCHANGED tries
  BY DEF Reuse, At, InLog, fixed, callVars, logVars, history
<1>2. After(c) = "getConn"
  BY <1>1, Here DEF Labels, Holding
<1>3. After(c)' = "reset" /\ ~InLog(c)' /\ conn'[c] # NoConn /\ UNCHANGED op /\ UNCHANGED result
      /\ tries[c] < MaxRetries
  <2>1. pc' = [pc EXCEPT ![c] = "reset"] /\ UNCHANGED op /\ UNCHANGED result /\ tries[c] < MaxRetries
    BY DEF Reuse, Goto
  <2>2. conn'[c] # NoConn
    BY PoolAssumption DEF Reuse, TypeInv, TypeOK
  <2>. QED
    BY <1>1, <2>1, <2>2, Moving DEF Labels
<1>4. Only(c)
  BY <1>1, <1>3, Moving DEF Reuse, Goto, Labels, TypeInv, TypeOK, Only
<1>5. CallOf(c)' /\ TextsOf(c)' /\ EffectOf(c)'
  BY <1>1, <1>2, <1>3 DEF ClientInv, CallOf, TextsOf, EffectOf, Ended, Holding
<1>6. LogOf(c)' /\ FailOf(c)'
  BY <1>1, <1>2, <1>3, LogKept DEF Ended
<1>. QED
  BY <1>4, <1>5, <1>6 DEF ClientInv

\* An attempt has a connection before it does anything.
LEMMA ConnectKeeps ==
    ASSUME TypeInv, CallInv, NEW c \in Clients, ClientInv(c), Connect(c)
    PROVE  Only(c) /\ ClientInv(c)'
<1>1. /\ At(c, "getConn") /\ ~InLog(c) /\ UNCHANGED pending /\ UNCHANGED logged /\ UNCHANGED lost /\ UNCHANGED logging
      /\ UNCHANGED failed /\ UNCHANGED effects /\ UNCHANGED received /\ UNCHANGED text
      /\ UNCHANGED tries
  BY DEF Connect, At, InLog, fixed, callVars, logVars, history
<1>2. After(c) = "getConn"
  BY <1>1, Here DEF Labels, Holding
<1>3. After(c)' = "call" /\ ~InLog(c)' /\ conn'[c] # NoConn /\ UNCHANGED op /\ UNCHANGED result
  <2>1. pc' = [pc EXCEPT ![c] = "call"] /\ UNCHANGED op /\ UNCHANGED result
    BY DEF Connect, Goto
  <2>2. conn'[c] # NoConn
    BY PoolAssumption DEF Connect, TypeInv, TypeOK
  <2>. QED
    BY <1>1, <2>1, <2>2, Moving DEF Labels
<1>4. Only(c)
  BY <1>1, <1>3, Moving DEF Connect, Goto, Labels, TypeInv, TypeOK, Only
<1>5. CallOf(c)' /\ TextsOf(c)' /\ EffectOf(c)'
  BY <1>1, <1>2, <1>3 DEF ClientInv, CallOf, TextsOf, EffectOf, Ended, Holding
<1>6. LogOf(c)' /\ FailOf(c)'
  BY <1>1, <1>2, <1>3, LogKept DEF Ended
<1>. QED
  BY <1>4, <1>5, <1>6 DEF ClientInv

\* Without a connection the call is over and had no effect.
LEMMA ConnectFailsKeeps ==
    ASSUME TypeInv, CallInv, NEW c \in Clients, ClientInv(c), ConnectFails(c)
    PROVE  Only(c) /\ ClientInv(c)'
<1>1. /\ At(c, "getConn") /\ ~InLog(c) /\ UNCHANGED pending /\ UNCHANGED logged /\ UNCHANGED lost /\ UNCHANGED logging
      /\ UNCHANGED failed /\ UNCHANGED effects /\ UNCHANGED received /\ UNCHANGED text
      /\ UNCHANGED tries
  BY DEF ConnectFails, At, InLog, fixed, callVars, logVars, history
<1>2. After(c) = "getConn"
  BY <1>1, Here DEF Labels, Holding
<1>3. After(c)' = "release" /\ ~InLog(c)' /\ result'[c] = "connect" /\ UNCHANGED op /\ UNCHANGED conn
  BY <1>1, Moving DEF ConnectFails, Finish, Goto, Labels, TypeInv, TypeOK
<1>4. Only(c)
  BY <1>1, Moving DEF ConnectFails, Finish, Goto, Labels, TypeInv, TypeOK, Only
<1>5. CallOf(c)' /\ TextsOf(c)' /\ EffectOf(c)'
  BY <1>1, <1>2, <1>3 DEF ClientInv, CallOf, TextsOf, EffectOf, Ended, Holding
<1>6. LogOf(c)' /\ FailOf(c)'
  BY <1>1, <1>2, <1>3, LogKept DEF Ended
<1>. QED
  BY <1>4, <1>5, <1>6 DEF ClientInv

\* A connection found dead by ResetSession ends the attempt with ErrBadConn.
LEMMA ResetSessionKeeps ==
    ASSUME TypeInv, CallInv, NEW c \in Clients, ClientInv(c), ResetSession(c)
    PROVE  Only(c) /\ ClientInv(c)'
<1>1. /\ At(c, "reset") /\ ~InLog(c) /\ UNCHANGED pending /\ UNCHANGED logged /\ UNCHANGED lost /\ UNCHANGED logging
      /\ UNCHANGED failed /\ UNCHANGED effects /\ UNCHANGED received /\ UNCHANGED text
      /\ UNCHANGED tries
  BY DEF ResetSession, At, InLog, fixed, callVars, logVars, history
<1>2. After(c) = "reset" /\ op[c] \in Operations /\ conn[c] \in Conns /\ tries[c] < MaxRetries
  BY <1>1, Here DEF Labels, Holding, ClientInv, CallOf
<1>3. /\ After(c)' \in {"call", "release"} /\ ~InLog(c)' /\ UNCHANGED op /\ UNCHANGED conn
      /\ After(c)' = "release" => result'[c] = "badconn"
  BY <1>1, Moving DEF ResetSession, Finish, Goto, Labels, TypeInv, TypeOK
<1>4. Only(c)
  BY <1>1, Moving DEF ResetSession, Finish, Goto, Labels, TypeInv, TypeOK, Only
<1>5. CallOf(c)' /\ TextsOf(c)' /\ EffectOf(c)'
  BY <1>1, <1>2, <1>3 DEF ClientInv, CallOf, TextsOf, EffectOf, Ended, Holding
<1>6. LogOf(c)' /\ FailOf(c)'
  BY <1>1, <1>2, <1>3, LogKept DEF Ended
<1>. QED
  BY <1>4, <1>5, <1>6 DEF ClientInv

\* A parameter that cannot be converted ends the call before the base driver sees it.
LEMMA StmtExecContextKeeps ==
    ASSUME TypeInv, CallInv, NEW c \in Clients, ClientInv(c), StmtExecContext(c)
    PROVE  Only(c) /\ ClientInv(c)'
<1>1. /\ At(c, "stmt") /\ ~InLog(c) /\ UNCHANGED pending /\ UNCHANGED logged /\ UNCHANGED lost /\ UNCHANGED logging
      /\ UNCHANGED failed /\ UNCHANGED effects /\ UNCHANGED received /\ UNCHANGED text
      /\ UNCHANGED tries
  BY DEF StmtExecContext, At, InLog, fixed, callVars, logVars, history
<1>2. After(c) = "stmt"
  BY <1>1, Here DEF Labels, Holding
<1>3. /\ After(c)' \in {"baseStmt", "release"} /\ ~InLog(c)' /\ UNCHANGED op /\ UNCHANGED conn
      /\ After(c)' = "release" => result'[c] = "arg"
  BY <1>1, Moving DEF StmtExecContext, Finish, Goto, Labels, TypeInv, TypeOK
<1>4. Only(c)
  BY <1>1, Moving DEF StmtExecContext, Finish, Goto, Labels, TypeInv, TypeOK, Only
<1>5. CallOf(c)' /\ TextsOf(c)' /\ EffectOf(c)'
  BY <1>1, <1>2, <1>3 DEF ClientInv, CallOf, TextsOf, EffectOf, Ended, Holding
<1>6. LogOf(c)' /\ FailOf(c)'
  BY <1>1, <1>2, <1>3, LogKept DEF Ended
<1>. QED
  BY <1>4, <1>5, <1>6 DEF ClientInv
\* An attempt that ended in ErrBadConn had no effect, so that another may follow.
LEMMA ReleaseKeeps ==
    ASSUME TypeInv, CallInv, NEW c \in Clients, ClientInv(c), Release(c)
    PROVE  Only(c) /\ ClientInv(c)'
<1>1. /\ At(c, "release") /\ ~InLog(c) /\ UNCHANGED pending /\ UNCHANGED logged /\ UNCHANGED lost /\ UNCHANGED logging
      /\ UNCHANGED failed /\ UNCHANGED effects /\ UNCHANGED received /\ UNCHANGED text /\ UNCHANGED op
      /\ conn' = [conn EXCEPT ![c] = NoConn]
  BY DEF Release, At, InLog, fixed, logVars
<1>2. After(c) = "release" /\ op[c] \in Operations
  BY <1>1, Here DEF Labels, Holding
<1>3. CASE result[c] = "badconn" /\ tries[c] < MaxRetries
  <2>1. pc' = [pc EXCEPT ![c] = "getConn"] /\ result' = [result EXCEPT ![c] = "none"]
    BY <1>3 DEF Release, Goto
  <2>2. After(c)' = "getConn" /\ ~InLog(c)' /\ result'[c] = "none"
    BY <1>1, <2>1, Moving DEF Labels, TypeInv, TypeOK
  <2>3. Only(c)
    <3>1. tries' = [tries EXCEPT ![c] = @ + 1]
      BY <1>3 DEF Release
    <3>. QED
      BY <1>1, <2>1, <3>1, Moving DEF Labels, TypeInv, TypeOK, Only
  <2>4. CallOf(c)' /\ TextsOf(c)' /\ EffectOf(c)'
    BY <1>1, <1>2, <1>3, <2>2 DEF ClientInv, CallOf, TextsOf, EffectOf, Ended, Holding
  <2>5. LogOf(c)' /\ FailOf(c)'
    BY <1>1, <1>2, <1>3, <2>2, LogKept DEF Ended
  <2>. QED
    BY <2>3, <2>4, <2>5 DEF ClientInv
<1>4. CASE ~(result[c] = "badconn" /\ tries[c] < MaxRetries)
  <2>1. pc' = [pc EXCEPT ![c] = "return"] /\ UNCHANGED result
    BY <1>4 DEF Release, Goto
  <2>2. After(c)' = "return" /\ ~InLog(c)'
    BY <1>1, <2>1, Moving DEF Labels, TypeInv, TypeOK
  <2>3. Only(c)
    BY <1>1, <1>4, <2>1, Moving DEF Release, Labels, TypeInv, TypeOK, Only
  <2>4. CallOf(c)' /\ TextsOf(c)' /\ EffectOf(c)'
    BY <1>1, <1>2, <2>1, <2>2 DEF ClientInv, CallOf, TextsOf, EffectOf, Ended, Holding
  <2>5. LogOf(c)' /\ FailOf(c)'
    <3>1. LogOf(c)'
      <4>1. pending'[c] = pending[c] /\ InLog(c)' = InLog(c) /\ logged'[c] = logged[c] /\ lost'[c] = lost[c]
            /\ failed'[c] = failed[c] /\ received'[c] = received[c] /\ op'[c] = op[c] /\ UNCHANGED logging
        BY <1>1, <2>2 DEF InLog
      <4>. QED
        BY <4>1, LogSame DEF ClientInv
    <3>2. FailOf(c)'
      BY <1>1, <1>2, <1>4, <2>1, <2>2 DEF ClientInv, FailOf, Ended
    <3>. QED
      BY <3>1, <3>2
  <2>. QED
    BY <2>3, <2>4, <2>5 DEF ClientInv
<1>. QED
  BY <1>3, <1>4

\* Nothing of a call is left when it has returned.
LEMMA ReturnKeeps ==
    ASSUME TypeInv, CallInv, NEW c \in Clients, ClientInv(c), Return(c)
    PROVE  Only(c) /\ ClientInv(c)'
<1>1. /\ At(c, "return") /\ ~InLog(c) /\ UNCHANGED pending /\ UNCHANGED conn /\ UNCHANGED logging
      /\ pc' = [pc EXCEPT ![c] = "idle"]
  BY DEF Return, At, InLog, fixed, Goto
<1>2. After(c)' = "idle" /\ ~InLog(c)'
  BY <1>1, Moving DEF Labels
<1>3. Only(c)
  BY <1>1, Moving DEF Return, Labels, TypeInv, TypeOK, MoreTypes, Only
<1>4. failed'[c] = <<>> /\ logged'[c] = <<>> /\ effects'[c] = 0 /\ received'[c] = {} /\ result'[c] = "none"
  BY DEF Return, TypeInv, TypeOK, MoreTypes
<1>5. CallOf(c)' /\ TextsOf(c)' /\ EffectOf(c)'
  BY <1>2, <1>4 DEF CallOf, TextsOf, EffectOf, Ended, Holding
<1>6. LogOf(c)' /\ FailOf(c)'
  BY <1>2, <1>4 DEF LogOf, FailOf, Ended
<1>. QED
  BY <1>3, <1>5, <1>6 DEF ClientInv

\* Waiting for the mutex of the logger changes nothing else.
LEMMA LogLockKeeps ==
    ASSUME TypeInv, NEW c \in Clients, ClientInv(c), LogLock(c)
    PROVE  Only(c) /\ ClientInv(c)'
<1>1. /\ pc[c] = "log" /\ pc' = [pc EXCEPT ![c] = "append"] /\ UNCHANGED <<pending, logged, lost, logging>>
      /\ UNCHANGED <<op, conn, tries, text, result, failed, effects, received>>
  BY DEF LogLock, At, Goto, fixed, callVars, history
<1>2. \A d \in Clients : After(d)' = After(d) /\ InLog(d)' = InLog(d)
  BY <1>1 DEF After, InLog, TypeInv, MoreTypes
<1>3. Only(c)
  BY <1>1, <1>2 DEF Only
<1>4. CallOf(c)' /\ TextsOf(c)' /\ EffectOf(c)'
  BY <1>1, <1>2 DEF ClientInv, CallOf, TextsOf, EffectOf, Ended
<1>5. LogOf(c)'
  BY <1>1, <1>2, LogSame DEF ClientInv
<1>6. FailOf(c)'
  BY <1>1, <1>2 DEF ClientInv, FailOf, Ended
<1>. QED
  BY <1>3, <1>4, <1>5, <1>6 DEF ClientInv

\* The entry being written joins the others, or is lost.
LEMMA LogAppendKeeps ==
    ASSUME TypeInv, NEW c \in Clients, ClientInv(c), LogAppend(c)
    PROVE  Only(c) /\ ClientInv(c)'
<1>1. /\ Only(c) /\ UNCHANGED <<op, conn, tries, text, result, failed, effects, received, logging>>
      /\ After(c)' = After(c) /\ InLog(c) /\ ~InLog(c)' /\ pending[c].entry \in Entries
      /\ \/ logged'[c] = Append(logged[c], pending[c].entry) /\ UNCHANGED lost
         \/ logged'[c] = logged[c] /\ lost'[c] = TRUE
  BY LogAppendStep
<1>2. After(c) # "idle"
  BY <1>1 DEF After, InLog, TypeInv, MoreTypes
<1>3. CallOf(c)' /\ TextsOf(c)' /\ EffectOf(c)'
  BY <1>1, <1>2 DEF ClientInv, CallOf, TextsOf, EffectOf, Ended
<1>4. logged[c] \in Seq(Entries) /\ failed[c] \in Seq(Failure)
  BY DEF TypeInv, MoreTypes, TypeOK
<1>5. FailOf(c)'
  BY <1>1 DEF ClientInv, FailOf, Ended
<1>6. \A i \in 1 .. Len(failed[c]) : Met(c, failed[c][i])' /\ EntryOf(c, failed[c][i])' = EntryOf(c, failed[c][i])
  BY <1>1 DEF ClientInv, LogOf, Met, EntryOf
<1>7. CASE logged'[c] = logged[c] /\ lost'[c] = TRUE
  <2>1. LogOf(c)'
    BY <1>1, <1>4, <1>6, <1>7 DEF ClientInv, LogOf
  <2>. QED
    BY <1>1, <1>3, <1>5, <2>1 DEF ClientInv
<1>8. CASE logged'[c] = Append(logged[c], pending[c].entry) /\ UNCHANGED lost
  <2> DEFINE n == Len(logged[c])
  <2>1. /\ n \in Nat /\ Len(logged'[c]) = n + 1 /\ logged'[c][n + 1] = pending[c].entry
        /\ \A i \in 1 .. n : logged'[c][i] = logged[c][i]
    BY <1>1, <1>4, <1>8
  <2>2. /\ logging /\ n < Len(failed[c]) /\ Len(failed[c]) \in Nat
        /\ pending[c].entry = EntryOf(c, failed[c][Len(failed[c])])
        /\ ~lost[c] => Len(failed[c]) = n + 1
    BY <1>1, <1>4 DEF ClientInv, LogOf
  <2>3. ASSUME NEW i \in 1 .. n + 1
        PROVE  /\ \E k \in 1 .. Len(failed[c]) : logged'[c][i] = EntryOf(c, failed[c][k])'
               /\ ~lost[c] => logged'[c][i] = EntryOf(c, failed[c][i])'
    <3>1. CASE i = n + 1
      BY <1>6, <2>1, <2>2, <3>1
    <3>2. CASE i \in 1 .. n
      <4>1. /\ \E k \in 1 .. Len(failed[c]) : logged[c][i] = EntryOf(c, failed[c][k])
            /\ ~lost[c] => logged[c][i] = EntryOf(c, failed[c][i])
        BY <2>2, <3>2 DEF ClientInv, LogOf
      <4>. QED
        BY <1>6, <2>1, <2>2, <3>2, <4>1
    <3>. QED
      BY <2>1, <3>1, <3>2
  <2>4. LogOf(c)'
    <3>1. \A i \in 1 .. Len(failed[c]) : Met(c, failed[c][i])'
      BY <1>6
    <3>2. Len(logged'[c]) = n + 1 /\ n + 1 <= Len(failed[c]) /\ UNCHANGED failed /\ UNCHANGED logging /\ UNCHANGED lost
      BY <1>1, <1>8, <2>1, <2>2
    <3>3. (~lost[c] => Len(failed[c]) = n + 1) /\ logging /\ ~InLog(c)'
      BY <1>1, <2>2
    <3>4. \A i \in 1 .. Len(logged'[c]) : \E k \in 1 .. Len(failed[c]) : logged'[c][i] = EntryOf(c, failed[c][k])'
      BY <2>3, <3>2
    <3>5. ~lost[c] => \A i \in 1 .. Len(logged'[c]) : logged'[c][i] = EntryOf(c, failed[c][i])'
      BY <2>3, <3>2
    <3>. QED
      BY <3>1, <3>2, <3>3, <3>4, <3>5 DEF LogOf
  <2>. QED
    BY <1>1, <1>3, <1>5, <2>4 DEF ClientInv
<1>. QED
  BY <1>1, <1>7, <1>8

\* What an attempt meets is recorded, and its entry says it.
LEMMA EntryKept ==
    ASSUME TypeInv, NEW c \in Clients, ClientInv(c), ~InLog(c), ~Ended(c), NEW f, Noted(c, f), Met(c, f)',
           UNCHANGED op, UNCHANGED logged, UNCHANGED lost, UNCHANGED logging, received[c] \subseteq received'[c],
           f.error \in {"translation", "base"} => Ended(c)', Ended(c)' => result'[c] = f.error
    PROVE  LogOf(c)' /\ FailOf(c)'
<1> DEFINE n == Len(failed[c])
<1>1. /\ failed[c] \in Seq(Failure) /\ n \in Nat /\ Len(failed'[c]) = n + 1 /\ failed'[c][n + 1] = f
      /\ \A i \in 1 .. n : failed'[c][i] = failed[c][i]
  BY DEF TypeInv, TypeOK, Noted
<1>2. logged[c] \in Seq(Entries) /\ Len(logged[c]) \in Nat
  BY DEF TypeInv, MoreTypes
<1>3. ASSUME NEW i \in 1 .. n PROVE EntryOf(c, failed[c][i])' = EntryOf(c, failed[c][i])
  <2>1. failed'[c][i] = failed[c][i]
    BY <1>1
  <2>. QED
    BY <2>1 DEF EntryOf
<1>5. \A i \in 1 .. Len(failed'[c]) : Met(c, failed[c][i])'
  <2>1. ASSUME NEW i \in 1 .. n PROVE Met(c, failed[c][i])'
    <3>1. failed'[c][i] = failed[c][i] /\ Met(c, failed[c][i])
      BY <1>1 DEF ClientInv, LogOf
    <3>. QED
      BY <3>1 DEF Met
  <2>2. ASSUME NEW i \in 1 .. n + 1, i \notin 1 .. n PROVE Met(c, failed[c][i])'
    <3>1. i = n + 1 /\ failed'[c][i] = f
      BY <1>1, <2>2
    <3>. QED
      BY <3>1 DEF Met
  <2>. QED
    BY <1>1, <2>1, <2>2
<1>6. /\ Len(logged[c]) <= n /\ (~logging => logged[c] = <<>>)
      /\ \A i \in 1 .. Len(logged[c]) : \E j \in 1 .. n : logged[c][i] = EntryOf(c, failed[c][j])
      /\ logging /\ ~lost[c] =>
           n = Len(logged[c]) /\ \A i \in 1 .. Len(logged[c]) : logged[c][i] = EntryOf(c, failed[c][i])
  BY DEF ClientInv, LogOf
<1>7. LogOf(c)'
  <2>1. ASSUME NEW i \in 1 .. Len(logged'[c])
        PROVE  \E j \in 1 .. Len(failed'[c]) : logged'[c][i] = EntryOf(c, failed[c][j])'
    <3>1. PICK j \in 1 .. n : logged[c][i] = EntryOf(c, failed[c][j])
      BY <1>6
    <3>. QED
      BY <1>1, <1>3, <3>1
  <2>2. InLog(c)' => /\ logging' /\ Len(failed'[c]) > 0
                     /\ pending'[c].entry = EntryOf(c, failed[c][Len(failed[c])])'
                     /\ Len(logged'[c]) < Len(failed'[c])
    <3>1. EntryOf(c, failed[c][Len(failed[c])])' = EntryOf(c, f)
      <4>1. (failed[c][Len(failed[c])])' = f
        BY <1>1
      <4>. QED
        BY <4>1 DEF EntryOf
    <3>. QED
      BY <1>1, <1>2, <1>6, <3>1 DEF Noted
  <2>3. ~InLog(c)' => Len(logged'[c]) <= Len(failed'[c])
    BY <1>1, <1>2, <1>6
  <2>4. ASSUME logging', ~lost'[c]
        PROVE  /\ Len(failed'[c]) = IF InLog(c)' THEN Len(logged'[c]) + 1 ELSE Len(logged'[c])
               /\ \A i \in 1 .. Len(logged'[c]) : logged'[c][i] = EntryOf(c, failed[c][i])'
    <3>1. InLog(c)' /\ n = Len(logged[c])
      BY <1>6, <2>4 DEF Noted
    <3>2. \A i \in 1 .. n : logged[c][i] = EntryOf(c, failed[c][i])
      BY <1>6, <2>4
    <3>. QED
      BY <1>1, <1>3, <3>1, <3>2
  <2>5. ~logging' => logged'[c] = <<>>
    BY <1>6
  <2>. QED
    BY <1>5, <2>1, <2>2, <2>3, <2>4, <2>5 DEF LogOf
<1>8. FailOf(c)'
  <2>1. \A i \in 1 .. n : failed'[c][i].error \notin {"translation", "base"}
    BY <1>1 DEF ClientInv, FailOf
  <2>2. f.error \in {"translation", "base"} => Ended(c)' /\ result'[c] = f.error
    OBVIOUS
  <2>3. \A i \in 1 .. n + 1 : i = n + 1 \/ i \in 1 .. n
    BY <1>1
  <2>. QED
    BY <1>1, <2>1, <2>2, <2>3 DEF FailOf
<1>. QED
  BY <1>7, <1>8

\* A call that cannot be translated ends without an effect and with its entry.
LEMMA TranslatedKeeps ==
    ASSUME TypeInv, NEW c \in Clients, ClientInv(c), NEW stage, NEW label \in {"baseExec", "basePrepare"},
           After(c) \in {"call", "prepare"}, ~InLog(c), op[c] \in Operations, conn[c] \in Conns,
           UNCHANGED logged, UNCHANGED lost, UNCHANGED logging, UNCHANGED op, UNCHANGED conn, UNCHANGED tries,
           UNCHANGED effects, UNCHANGED received,
           text'[c] = TranslateSQL[op[c].sql], Translated(c, stage, label)
    PROVE  ClientInv(c)'
<1>0. ~Ended(c) /\ effects[c] = 0 /\ conn'[c] # NoConn
  BY PoolAssumption DEF ClientInv, EffectOf, Ended
<1>1. CASE text'[c] = Failed /\ After(c)' = "release" /\ result'[c] = "translation" /\ Noted(c, Refusal(stage))
  <2>1. CallOf(c)' /\ TextsOf(c)' /\ EffectOf(c)'
    BY <1>0, <1>1 DEF ClientInv, CallOf, TextsOf, EffectOf, Ended, Holding
  <2>2. Met(c, Refusal(stage))' /\ Refusal(stage).error = "translation"
    BY <1>1 DEF Met, Refusal
  <2>3. Ended(c)'
    BY <1>1 DEF Ended
  <2>4. PICK f : f = Refusal(stage)
    OBVIOUS
  <2>5. Met(c, f)' /\ f.error = "translation" /\ Noted(c, f)
    BY <1>1, <2>2, <2>4 DEF Met, Refusal
  <2>6. LogOf(c)' /\ FailOf(c)'
    BY <1>0, <1>1, <2>3, <2>5, EntryKept
  <2>. QED
    BY <2>1, <2>6 DEF ClientInv
<1>2. CASE /\ text'[c] # Failed /\ After(c)' = label /\ ~InLog(c)' /\ result'[c] = result[c]
           /\ failed'[c] = failed[c]
  <2>1. CallOf(c)' /\ TextsOf(c)' /\ EffectOf(c)'
    BY <1>0, <1>2 DEF ClientInv, CallOf, TextsOf, EffectOf, Ended, Holding
  <2>2. LogOf(c)' /\ FailOf(c)'
    BY <1>0, <1>2, LogKept DEF Ended
  <2>. QED
    BY <2>1, <2>2 DEF ClientInv
<1>. QED
  BY <1>1, <1>2 DEF Translated

LEMMA ExecContextKeeps ==
    ASSUME TypeInv, CallInv, NEW c \in Clients, ClientInv(c), ExecContext(c)
    PROVE  Only(c) /\ ClientInv(c)'
<1>1. /\ Only(c) /\ UNCHANGED <<logged, lost, op, conn, tries, effects, received, reported, idle, closed, logging>>
      /\ After(c) = "call" /\ ~InLog(c) /\ op[c] \in Operations /\ conn[c] \in Conns
      /\ \/ text'[c] = TranslateSQL[op[c].sql] /\ Translated(c, op[c].kind, "baseExec")
         \/ After(c)' = "prepare" /\ ~InLog(c)' /\ result'[c] = result[c] /\ failed'[c] = failed[c]
  BY ExecContextStep
<1>2. CASE text'[c] = TranslateSQL[op[c].sql] /\ Translated(c, op[c].kind, "baseExec")
  BY <1>1, <1>2, TranslatedKeeps
<1>3. CASE After(c)' = "prepare" /\ ~InLog(c)' /\ result'[c] = result[c] /\ failed'[c] = failed[c]
  <2>1. CallOf(c)' /\ TextsOf(c)' /\ EffectOf(c)'
    BY <1>1, <1>3, PoolAssumption DEF ClientInv, CallOf, TextsOf, EffectOf, Ended, Holding
  <2>2. LogOf(c)' /\ FailOf(c)'
    BY <1>1, <1>3, LogKept DEF Ended
  <2>. QED
    BY <1>1, <2>1, <2>2 DEF ClientInv
<1>. QED
  BY <1>1, <1>2, <1>3

LEMMA PrepareContextKeeps ==
    ASSUME TypeInv, CallInv, NEW c \in Clients, ClientInv(c), PrepareContext(c)
    PROVE  Only(c) /\ ClientInv(c)'
<1>1. /\ Only(c) /\ UNCHANGED <<logged, lost, op, conn, tries, effects, received, reported, idle, closed, logging>>
      /\ After(c) = "prepare" /\ ~InLog(c) /\ op[c] \in Operations /\ conn[c] \in Conns
      /\ text'[c] = TranslateSQL[op[c].sql] /\ Translated(c, "prepare", "basePrepare")
  BY PrepareContextStep
<1>. QED
  BY <1>1, TranslatedKeeps

\* An answer of the base driver: ErrSkip and ErrBadConn come without an effect,
\* and the entry has the text the base driver got, now or when it prepared it.
LEMMA AnsweredKeeps ==
    ASSUME TypeInv, NEW c \in Clients, ClientInv(c), NEW stage, NEW r \in {"ok", "base", "badconn", "skip"},
           NEW next \in {"release", "stmt"},
           After(c) \in {"baseExec", "basePrepare", "baseStmt"}, ~InLog(c), op[c] \in Operations, conn[c] \in Conns,
           text[c] = TranslateSQL[op[c].sql], text[c] # Failed,
           UNCHANGED logged, UNCHANGED lost, UNCHANGED logging, UNCHANGED op, UNCHANGED conn, UNCHANGED tries,
           UNCHANGED text,
           received'[c] = received[c] \cup {text[c]},
           IF next = "stmt" THEN UNCHANGED effects ELSE Effect(c, r),
           NEW label \in {"prepare", "release"}, label = "prepare" => r = "skip",
           Answered(c, r, stage, label, next)
    PROVE  ClientInv(c)'
<1>1. ~Ended(c) /\ effects[c] = 0 /\ conn'[c] # NoConn /\ effects \in [Clients -> Nat]
  BY PoolAssumption DEF ClientInv, EffectOf, Ended, TypeInv, TypeOK
<1>2. effects'[c] \in {0, 1} /\ (r \in {"skip", "badconn"} => effects'[c] = 0)
      /\ (r = "ok" /\ next = "release" => effects'[c] = 1) /\ (next = "stmt" => effects'[c] = 0)
  BY <1>1 DEF Effect
<1>3. TextsOf(c)'
  <2>1. (\A t \in received'[c] : t = TranslateSQL[op'[c].sql] /\ t # Failed) /\ text'[c] \in received'[c]
    BY DEF ClientInv, TextsOf
  <2>. QED
    BY <2>1 DEF TextsOf
<1>4. CASE /\ r = "ok" /\ After(c)' = next /\ ~InLog(c)' /\ result'[c] = IF next = "release" THEN r ELSE result[c]
           /\ failed'[c] = failed[c]
  <2>1. CallOf(c)' /\ EffectOf(c)'
    BY <1>1, <1>2, <1>4 DEF ClientInv, CallOf, EffectOf, Ended, Holding
  <2>2. LogOf(c)' /\ FailOf(c)'
    BY <1>1, <1>4, LogKept DEF Ended
  <2>. QED
    BY <1>3, <2>1, <2>2 DEF ClientInv
<1>5. CASE r # "ok" /\ After(c)' = label /\ result'[c] = r /\ Noted(c, Answer(c, stage, r))
  <2>1. CallOf(c)' /\ EffectOf(c)'
    BY <1>1, <1>2, <1>5 DEF ClientInv, CallOf, EffectOf, Ended, Holding
  <2>2. PICK f : f = Answer(c, stage, r)
    OBVIOUS
  <2>3. f.error = r /\ f.text = text[c] /\ Noted(c, f)
    BY <1>5, <2>2 DEF Answer
  <2>4. Met(c, f)'
    BY <2>3 DEF Met
  <2>5. r \in {"translation", "base"} => Ended(c)'
    BY <1>5 DEF Ended
  <2>6. LogOf(c)' /\ FailOf(c)'
    BY <1>1, <1>5, <2>3, <2>4, <2>5, EntryKept
  <2>. QED
    BY <1>3, <2>1, <2>6 DEF ClientInv
<1>. QED
  BY <1>4, <1>5 DEF Answered

LEMMA BaseExecKeeps ==
    ASSUME TypeInv, CallInv, NEW c \in Clients, ClientInv(c), BaseExec(c)
    PROVE  Only(c) /\ ClientInv(c)'
<1>1. /\ Only(c) /\ UNCHANGED logged /\ UNCHANGED lost /\ UNCHANGED op /\ UNCHANGED conn /\ UNCHANGED text
      /\ UNCHANGED logging /\ UNCHANGED tries
      /\ After(c) = "baseExec" /\ ~InLog(c) /\ op[c] \in Operations /\ conn[c] \in Conns
      /\ text[c] = TranslateSQL[op[c].sql] /\ text[c] # Failed
  BY BaseExecStep
<1>2. PICK r \in {"ok", "base", "badconn", "skip"} :
        /\ Effect(c, r)
        /\ Answered(c, r, op[c].kind, IF r = "skip" THEN "prepare" ELSE "release", "release")
  BY BaseExecStep
<1>3. received'[c] = received[c] \cup {text[c]}
  BY BaseExecStep DEF Receive, TypeInv, TypeOK
<1>. QED
  BY <1>1, <1>2, <1>3, AnsweredKeeps

LEMMA BasePrepareKeeps ==
    ASSUME TypeInv, CallInv, NEW c \in Clients, ClientInv(c), BasePrepare(c)
    PROVE  Only(c) /\ ClientInv(c)'
<1>1. /\ Only(c) /\ UNCHANGED logged /\ UNCHANGED lost /\ UNCHANGED op /\ UNCHANGED conn /\ UNCHANGED text
      /\ UNCHANGED logging /\ UNCHANGED tries
      /\ After(c) = "basePrepare" /\ ~InLog(c) /\ op[c] \in Operations /\ conn[c] \in Conns
      /\ text[c] = TranslateSQL[op[c].sql] /\ text[c] # Failed
  BY BasePrepareStep
<1>2. PICK r \in {"ok", "base", "badconn", "skip"} :
        /\ UNCHANGED effects
        /\ Answered(c, r, "prepare", "release", "stmt")
  BY BasePrepareStep
<1>3. received'[c] = received[c] \cup {text[c]}
  BY BasePrepareStep DEF Receive, TypeInv, TypeOK
<1>. QED
  BY <1>1, <1>2, <1>3, AnsweredKeeps

LEMMA BaseStmtKeeps ==
    ASSUME TypeInv, CallInv, NEW c \in Clients, ClientInv(c), BaseStmt(c)
    PROVE  Only(c) /\ ClientInv(c)'
<1>1. /\ Only(c) /\ UNCHANGED logged /\ UNCHANGED lost /\ UNCHANGED op /\ UNCHANGED conn /\ UNCHANGED text
      /\ UNCHANGED logging /\ UNCHANGED tries
      /\ After(c) = "baseStmt" /\ ~InLog(c) /\ op[c] \in Operations /\ conn[c] \in Conns
      /\ text[c] = TranslateSQL[op[c].sql] /\ text[c] # Failed
  BY BaseStmtStep
<1>2. PICK r \in {"ok", "base", "badconn", "skip"} :
        /\ Effect(c, r)
        /\ Answered(c, r, StmtStage(op[c].kind), "release", "release")
  BY BaseStmtStep
<1>3. received'[c] = received[c] \cup {text[c]}
  BY <1>1, BaseStmtStep DEF ClientInv, TextsOf
<1>. QED
  BY <1>1, <1>2, <1>3, AnsweredKeeps

-----------------------------------------------------------------------------
\* A step is one client's, and the others keep what holds of them, or it is the
\* server's and touches no client.
DriverInv == TypeInv /\ \A c \in Clients : ClientInv(c)

LEMMA ClientStep ==
    ASSUME TypeInv, CallInv, NEW c \in Clients, ClientInv(c),
           (\E o \in Operations : Call(c, o)) \/ Proceed(c) \/ LogLock(c)
    PROVE  Only(c) /\ ClientInv(c)'
BY CallKeeps, ReuseKeeps, ConnectKeeps, ConnectFailsKeeps, ResetSessionKeeps, ExecContextKeeps, BaseExecKeeps,
   PrepareContextKeeps, BasePrepareKeeps, StmtExecContextKeeps, BaseStmtKeeps, LogAppendKeeps, ReleaseKeeps,
   ReturnKeeps, LogLockKeeps DEF Proceed

LEMMA DriverInit == Init => DriverInv
<1> SUFFICES ASSUME Init PROVE DriverInv
  OBVIOUS
<1>1. TypeOK
  BY PoolAssumption DEF Init, TypeOK, Results, NoEntry
<1>2. MoreTypes
  BY DEF Init, MoreTypes, Labels, InLog
<1>3. ASSUME NEW c \in Clients PROVE ClientInv(c)
  <2>1. /\ After(c) = "idle" /\ ~InLog(c) /\ failed[c] = <<>> /\ logged[c] = <<>> /\ received[c] = {} /\ effects[c] = 0
        /\ result[c] = "none"
    BY DEF Init, After, InLog
  <2>2. CallOf(c) /\ TextsOf(c) /\ EffectOf(c)
    BY <2>1 DEF CallOf, TextsOf, EffectOf, Ended, Holding
  <2>3. LogOf(c) /\ FailOf(c)
    BY <2>1 DEF LogOf, FailOf, Ended
  <2>. QED
    BY <2>2, <2>3 DEF ClientInv
<1>. QED
  BY <1>1, <1>2, <1>3 DEF DriverInv, TypeInv

LEMMA DriverStep == DriverInv /\ [Next]_vars => DriverInv'
<1> SUFFICES ASSUME DriverInv, [Next]_vars PROVE DriverInv'
  OBVIOUS
<1>1. TypeInv /\ CallInv /\ \A c \in Clients : ClientInv(c)
  BY DEF DriverInv, CallInv, ClientInv
<1>2. TypeInv'
  BY <1>1, TypeStep
<1>3. ASSUME NEW c \in Clients, (\E o \in Operations : Call(c, o)) \/ Proceed(c) \/ LogLock(c)
      PROVE  \A d \in Clients : ClientInv(d)'
  <2>1. Only(c) /\ ClientInv(c)'
    BY <1>1, <1>3, ClientStep
  <2>2. UNCHANGED logging
    BY <1>3 DEF Call, Proceed, Reuse, Connect, ConnectFails, ResetSession, ExecContext, BaseExec, PrepareContext,
       BasePrepare, StmtExecContext, BaseStmt, LogAppend, Release, Return, LogLock, fixed
  <2>. QED
    BY <1>1, <2>1, <2>2, Others
<1>4. ASSUME UNCHANGED <<pc, callVars, logVars, history, fixed>> \/ \E k \in Conns : ServerDies(k)
      PROVE  \A d \in Clients : ClientInv(d)'
  <2>1. UNCHANGED <<pc, op, conn, tries, text, result, failed, effects, received, logged, lost, pending, logging>>
    BY <1>4 DEF ServerDies, callVars, logVars, history, fixed
  <2>2. ASSUME NEW d \in Clients PROVE ClientInv(d)'
    <3>1. After(d)' = After(d) /\ InLog(d)' = InLog(d) /\ ClientInv(d)
      BY <1>1, <2>1 DEF After, InLog
    <3>2. CallOf(d)' /\ TextsOf(d)' /\ EffectOf(d)'
      BY <2>1, <3>1 DEF ClientInv, CallOf, TextsOf, EffectOf, Ended
    <3>3. LogOf(d)'
      BY <2>1, <3>1, LogSame DEF ClientInv
    <3>4. FailOf(d)'
      BY <2>1, <3>1 DEF ClientInv, FailOf, Ended
    <3>. QED
      BY <3>2, <3>3, <3>4 DEF ClientInv
  <2>. QED
    BY <2>2
<1>5. \A d \in Clients : ClientInv(d)'
  BY <1>3, <1>4 DEF Next, vars
<1>. QED
  BY <1>2, <1>5 DEF DriverInv
-----------------------------------------------------------------------------
\* The connections: a client between calls or attempts has none, and one that
\* reported ErrBadConn is about to be released for that reason.
HeldOf(c) == After(c) \in {"idle", "getConn", "return"} => conn[c] = NoConn
GivenUp(k) == \E c \in Clients : conn[c] = k /\ After(c) = "release" /\ result[c] = "badconn"

Owners ==
    /\ idle \cap closed = {}
    /\ \A c, d \in Clients : c # d /\ conn[c] # NoConn => conn[c] # conn[d]
    /\ \A c \in Clients : conn[c] \notin idle \cup closed
    /\ \A k \in Conns : k \in idle \cup closed \/ \E c \in Clients : conn[c] = k

ConnInv == Owners /\ (\A c \in Clients : HeldOf(c)) /\ \A k \in reported : GivenUp(k)

\* The connections between two moves of the pool.
LEMMA ConnKept ==
    ASSUME ConnInv, NEW c \in Clients, Only(c), UNCHANGED idle, UNCHANGED closed, UNCHANGED conn,
           After(c)' \in {"idle", "getConn", "return"} => After(c) \in {"idle", "getConn", "return"},
           After(c) = "release" => After(c)' = "release" /\ result'[c] = result[c],
           \/ UNCHANGED reported
           \/ reported' = reported \cup {conn[c]} /\ After(c)' = "release" /\ result'[c] = "badconn"
    PROVE  ConnInv'
<1>1. Owners'
  BY DEF ConnInv, Owners
<1>2. \A d \in Clients : HeldOf(d)'
  BY DEF ConnInv, HeldOf, Only
<1>3. ASSUME NEW k \in reported' PROVE GivenUp(k)'
  <2>1. CASE k \in reported
    <3>1. PICK d \in Clients : conn[d] = k /\ After(d) = "release" /\ result[d] = "badconn"
      BY <2>1 DEF ConnInv, GivenUp
    <3>2. conn'[d] = k /\ After(d)' = "release" /\ result'[d] = "badconn"
      BY <3>1 DEF Only
    <3>. QED
      BY <3>2 DEF GivenUp
  <2>2. CASE k = conn[c] /\ After(c)' = "release" /\ result'[c] = "badconn"
    BY <2>2 DEF GivenUp
  <2>. QED
    BY <1>3, <2>1, <2>2
<1>. QED
  BY <1>1, <1>2, <1>3 DEF ConnInv

\* A connection is taken by a client that has none.
LEMMA ConnTaken ==
    ASSUME TypeInv, ConnInv, NEW c \in Clients, Only(c), After(c) = "getConn", After(c)' \in {"reset", "call"},
           NEW k \in idle \cup closed, conn' = [conn EXCEPT ![c] = k], UNCHANGED reported,
           idle' = idle \ {k}, closed' = closed \ {k}
    PROVE  ConnInv'
<1>0. conn \in [Clients -> Conns \cup {NoConn}] /\ k \in Conns /\ conn[c] = NoConn /\ k # NoConn
  BY PoolAssumption DEF TypeInv, TypeOK, ConnInv, HeldOf
<1>1. Owners'
  <2>1. conn'[c] = k /\ \A d \in Clients \ {c} : conn'[d] = conn[d]
    BY <1>0
  <2>2. \A d \in Clients : conn[d] # k
    BY DEF ConnInv, Owners
  <2>3. \A a, d \in Clients : a # d /\ conn'[a] # NoConn => conn'[a] # conn'[d]
    BY <2>1, <2>2 DEF ConnInv, Owners
  <2>4. \A d \in Clients : conn'[d] \notin idle' \cup closed'
    BY <2>1, <2>2 DEF ConnInv, Owners
  <2>5. ASSUME NEW j \in Conns PROVE j \in idle' \cup closed' \/ \E d \in Clients : conn'[d] = j
    <3>1. CASE j = k
      BY <2>1, <3>1
    <3>2. CASE j # k /\ \E d \in Clients : conn[d] = j
      <4>1. PICK d \in Clients : conn[d] = j
        BY <3>2
      <4>2. d # c
        BY <1>0, <4>1, PoolAssumption
      <4>. QED
        BY <2>1, <4>1, <4>2
    <3>3. CASE j # k /\ j \in idle \cup closed
      BY <3>3
    <3>. QED
      BY <3>1, <3>2, <3>3 DEF ConnInv, Owners
  <2>6. idle' \cap closed' = {}
    BY DEF ConnInv, Owners
  <2>. QED
    BY <2>3, <2>4, <2>5, <2>6 DEF Owners
<1>2. \A d \in Clients : HeldOf(d)'
  BY DEF ConnInv, HeldOf, Only
<1>3. ASSUME NEW j \in reported' PROVE GivenUp(j)'
  <2>1. PICK d \in Clients : conn[d] = j /\ After(d) = "release" /\ result[d] = "badconn"
    BY <1>3 DEF ConnInv, GivenUp
  <2>2. d # c
    BY <2>1
  <2>. QED
    BY <2>1, <2>2 DEF GivenUp, Only
<1>. QED
  BY <1>1, <1>2, <1>3 DEF ConnInv

\* A connection goes back to the pool only if it reported nothing.
LEMMA ConnReleased ==
    ASSUME TypeInv, ConnInv, NEW c \in Clients, Only(c), Release(c), After(c)' \in {"getConn", "return"}
    PROVE  ConnInv'
<1> DEFINE k == conn[c]
<1>0. conn \in [Clients -> Conns \cup {NoConn}] /\ After(c) = "release" /\ NoConn \notin Conns
  BY PoolAssumption DEF TypeInv, TypeOK, MoreTypes, Release, At, After, InLog
<1>1. conn' = [conn EXCEPT ![c] = NoConn] /\ conn'[c] = NoConn /\ \A d \in Clients \ {c} : conn'[d] = conn[d]
  BY <1>0 DEF Release
<1>2. \/ k = NoConn /\ UNCHANGED <<idle, closed, reported>>
      \/ k # NoConn /\ result[c] # "badconn" /\ idle' = idle \cup {k} /\ UNCHANGED <<closed, reported>>
      \/ k # NoConn /\ closed' = closed \cup {k} /\ UNCHANGED idle /\ reported' = reported \ {k}
  BY DEF Release, poolVars
<1>3. Owners'
  <2>1. k # NoConn => k \in Conns /\ k \notin idle \cup closed /\ \A d \in Clients \ {c} : conn[d] # k
    BY <1>0 DEF ConnInv, Owners
  <2>2. NoConn \notin idle' \cup closed'
    BY <1>0, <1>2 DEF TypeInv, TypeOK
  <2>3. idle' \cap closed' = {}
    BY <1>2, <2>1 DEF ConnInv, Owners
  <2>4. \A a, d \in Clients : a # d /\ conn'[a] # NoConn => conn'[a] # conn'[d]
    BY <1>1 DEF ConnInv, Owners
  <2>5. \A d \in Clients : conn'[d] \notin idle' \cup closed'
    BY <1>1, <1>2, <2>1, <2>2 DEF ConnInv, Owners
  <2>6. ASSUME NEW j \in Conns PROVE j \in idle' \cup closed' \/ \E d \in Clients : conn'[d] = j
    BY <1>0, <1>1, <1>2 DEF ConnInv, Owners
  <2>. QED
    BY <2>3, <2>4, <2>5, <2>6 DEF Owners
<1>4. \A d \in Clients : HeldOf(d)'
  BY <1>1 DEF ConnInv, HeldOf, Only
<1>5. ASSUME NEW j \in reported' PROVE GivenUp(j)'
  <2>1. j \in reported /\ (result[c] = "badconn" => j # k)
    BY <1>0, <1>2, <1>5 DEF TypeInv, TypeOK
  <2>2. PICK d \in Clients : conn[d] = j /\ After(d) = "release" /\ result[d] = "badconn"
    BY <2>1 DEF ConnInv, GivenUp
  <2>3. d # c
    BY <2>1, <2>2
  <2>. QED
    BY <2>2, <2>3 DEF GivenUp, Only
<1>. QED
  BY <1>3, <1>4, <1>5 DEF ConnInv
\* What each action does to the connections.
LEMMA ConnStep ==
    DriverInv /\ ConnInv /\ [Next]_vars => ConnInv'
<1> SUFFICES ASSUME DriverInv, ConnInv, [Next]_vars PROVE ConnInv'
  OBVIOUS
<1>0. TypeInv /\ CallInv /\ \A c \in Clients : ClientInv(c)
  BY DEF DriverInv, CallInv, ClientInv
<1>1. ASSUME NEW c \in Clients, NEW o \in Operations, Call(c, o) PROVE ConnInv'
  <2>1. Only(c) /\ After(c) = "idle" /\ After(c)' = "getConn"
    <3>1. At(c, "idle") /\ ~InLog(c) /\ UNCHANGED pending /\ pc' = [pc EXCEPT ![c] = "getConn"]
      BY <1>1 DEF Call, At, InLog, Goto, logVars
    <3>2. After(c) = "idle" /\ After(c)' = "getConn"
      BY <1>0, <3>1, Here, Moving DEF Labels
    <3>. QED
      BY <1>0, <1>1, <3>2, CallKeeps
  <2>. QED
    BY <1>1, <2>1, ConnKept DEF Call, poolVars, history
<1>2. ASSUME NEW c \in Clients, Reuse(c) PROVE ConnInv'
  <2>1. Only(c) /\ After(c) = "getConn" /\ After(c)' = "reset"
    <3>1. At(c, "getConn") /\ ~InLog(c) /\ UNCHANGED pending /\ pc' = [pc EXCEPT ![c] = "reset"]
      BY <1>2 DEF Reuse, At, InLog, Goto, logVars
    <3>2. After(c) = "getConn" /\ After(c)' = "reset"
      BY <1>0, <3>1, Here, Moving DEF Labels
    <3>. QED
      BY <1>0, <1>2, <3>2, ReuseKeeps
  <2>2. PICK k \in idle : idle' = idle \ {k} /\ conn' = [conn EXCEPT ![c] = k]
    BY <1>2 DEF Reuse
  <2>3. closed' = closed \ {k} /\ UNCHANGED reported
    BY <1>2, <2>2 DEF Reuse, history, ConnInv, Owners
  <2>. QED
    BY <1>0, <2>1, <2>2, <2>3, ConnTaken
<1>3. ASSUME NEW c \in Clients, Connect(c) PROVE ConnInv'
  <2>1. Only(c) /\ After(c) = "getConn" /\ After(c)' = "call"
    <3>1. At(c, "getConn") /\ ~InLog(c) /\ UNCHANGED pending /\ pc' = [pc EXCEPT ![c] = "call"]
      BY <1>3 DEF Connect, At, InLog, Goto, logVars
    <3>2. After(c) = "getConn" /\ After(c)' = "call"
      BY <1>0, <3>1, Here, Moving DEF Labels
    <3>. QED
      BY <1>0, <1>3, <3>2, ConnectKeeps
  <2>2. PICK k \in closed : closed' = closed \ {k} /\ conn' = [conn EXCEPT ![c] = k]
    BY <1>3 DEF Connect
  <2>3. idle' = idle \ {k} /\ UNCHANGED reported
    BY <1>3, <2>2 DEF Connect, history, ConnInv, Owners
  <2>. QED
    BY <1>0, <2>1, <2>2, <2>3, ConnTaken
<1>4. ASSUME NEW c \in Clients, ConnectFails(c) PROVE ConnInv'
  <2>1. Only(c) /\ After(c) = "getConn" /\ After(c)' = "release"
    <3>1. At(c, "getConn") /\ ~InLog(c) /\ UNCHANGED pending /\ pc' = [pc EXCEPT ![c] = "release"]
      BY <1>4 DEF ConnectFails, Finish, At, InLog, Goto, logVars
    <3>2. After(c) = "getConn" /\ After(c)' = "release"
      BY <1>0, <3>1, Here, Moving DEF Labels
    <3>. QED
      BY <1>0, <1>4, <3>2, ConnectFailsKeeps
  <2>. QED
    BY <1>4, <2>1, ConnKept DEF ConnectFails, poolVars, history
<1>5. ASSUME NEW c \in Clients, ResetSession(c) PROVE ConnInv'
  <2>1. Only(c) /\ After(c) = "reset"
    BY <1>0, <1>5, ResetSessionKeeps, Here DEF ResetSession, Labels
  <2>2. ~InLog(c) /\ UNCHANGED <<pending, idle, closed, conn>>
    BY <1>5 DEF ResetSession, At, InLog, logVars, poolVars
  <2>3. CASE pc' = [pc EXCEPT ![c] = "release"] /\ result' = [result EXCEPT ![c] = "badconn"]
             /\ reported' = reported \cup {conn[c]}
    <3>1. After(c)' = "release" /\ result'[c] = "badconn"
      BY <1>0, <2>2, <2>3, Moving DEF Labels, TypeInv, TypeOK
    <3>. QED
      BY <2>1, <2>2, <2>3, <3>1, ConnKept
  <2>4. CASE pc' = [pc EXCEPT ![c] = "call"] /\ UNCHANGED <<result, reported>>
    <3>1. After(c)' = "call"
      BY <1>0, <2>2, <2>4, Moving DEF Labels
    <3>. QED
      BY <2>1, <2>2, <2>4, <3>1, ConnKept
  <2>. QED
    BY <1>5, <2>3, <2>4 DEF ResetSession, Finish, Goto
<1>6. ASSUME NEW c \in Clients, ExecContext(c) PROVE ConnInv'
  <2>1. /\ Only(c) /\ UNCHANGED <<conn, reported, idle, closed>> /\ After(c) = "call"
        /\ After(c)' \in {"release", "baseExec", "prepare"}
    BY <1>0, <1>6, ExecContextStep DEF Translated
  <2>. QED
    BY <2>1, ConnKept
<1>7. ASSUME NEW c \in Clients, PrepareContext(c) PROVE ConnInv'
  <2>1. /\ Only(c) /\ UNCHANGED <<conn, reported, idle, closed>> /\ After(c) = "prepare"
        /\ After(c)' \in {"release", "basePrepare"}
    BY <1>0, <1>7, PrepareContextStep DEF Translated
  <2>. QED
    BY <2>1, ConnKept
<1>8. ASSUME NEW c \in Clients, BaseExec(c) \/ BasePrepare(c) \/ BaseStmt(c) PROVE ConnInv'
  <2>1. /\ Only(c) /\ UNCHANGED <<conn, idle, closed>> /\ After(c) \in {"baseExec", "basePrepare", "baseStmt"}
        /\ After(c)' \in {"release", "prepare", "stmt"}
        /\ \/ UNCHANGED reported
           \/ reported' = reported \cup {conn[c]} /\ After(c)' = "release" /\ result'[c] = "badconn"
    <3>1. CASE BaseExec(c)
      BY <1>0, <3>1, BaseExecStep DEF Answered, Report
    <3>2. CASE BasePrepare(c)
      BY <1>0, <3>2, BasePrepareStep DEF Answered, Report
    <3>3. CASE BaseStmt(c)
      BY <1>0, <3>3, BaseStmtStep DEF Answered, Report
    <3>. QED
      BY <1>8, <3>1, <3>2, <3>3
  <2>. QED
    BY <2>1, ConnKept
<1>9. ASSUME NEW c \in Clients, StmtExecContext(c) PROVE ConnInv'
  <2>1. Only(c) /\ After(c) = "stmt"
    BY <1>0, <1>9, StmtExecContextKeeps, Here DEF StmtExecContext, Labels
  <2>2. After(c)' \in {"release", "baseStmt"}
    BY <1>0, <1>9, Moving DEF StmtExecContext, Finish, At, InLog, Goto, Labels, logVars
  <2>. QED
    BY <1>9, <2>1, <2>2, ConnKept DEF StmtExecContext, poolVars, history
<1>10. ASSUME NEW c \in Clients, LogAppend(c) \/ LogLock(c) PROVE ConnInv'
  <2>1. CASE LogAppend(c)
    BY <1>0, <2>1, LogAppendStep, ConnKept
  <2>2. CASE LogLock(c)
    <3>1. Only(c)
      BY <1>0, <2>2, LogLockKeeps
    <3>2. After(c)' = After(c)
      BY <1>0, <2>2 DEF LogLock, At, Goto, After, InLog, TypeInv, MoreTypes
    <3>. QED
      BY <2>2, <3>1, <3>2, ConnKept DEF LogLock, poolVars, callVars, history
  <2>. QED
    BY <1>10, <2>1, <2>2
<1>11. ASSUME NEW c \in Clients, Release(c) PROVE ConnInv'
  <2>1. Only(c)
    BY <1>0, <1>11, ReleaseKeeps
  <2>2. After(c)' \in {"getConn", "return"}
    <3>1. pc' = [pc EXCEPT ![c] = "getConn"] \/ pc' = [pc EXCEPT ![c] = "return"]
      BY <1>11 DEF Release, Goto
    <3>. QED
      BY <1>0, <1>11, <3>1, Moving DEF Release, At, InLog, Labels, logVars
  <2>. QED
    BY <1>0, <1>11, <2>1, <2>2, ConnReleased
<1>12. ASSUME NEW c \in Clients, Return(c) PROVE ConnInv'
  <2>1. Only(c) /\ After(c) = "return" /\ After(c)' = "idle"
    <3>1. At(c, "return") /\ ~InLog(c) /\ UNCHANGED pending /\ pc' = [pc EXCEPT ![c] = "idle"]
      BY <1>12 DEF Return, At, InLog, Goto, logVars
    <3>2. After(c) = "return" /\ After(c)' = "idle"
      BY <1>0, <3>1, Here, Moving DEF Labels
    <3>. QED
      BY <1>0, <1>12, <3>2, ReturnKeeps
  <2>. QED
    BY <1>12, <2>1, ConnKept DEF Return, poolVars
<1>13. ASSUME UNCHANGED vars \/ \E k \in Conns : ServerDies(k) PROVE ConnInv'
  <2>1. UNCHANGED <<pc, pending, result, conn, idle, closed, reported>>
    BY <1>13 DEF vars, ServerDies, poolVars, callVars, logVars, history
  <2>2. \A d \in Clients : After(d)' = After(d)
    BY <2>1 DEF After, InLog
  <2>. QED
    BY <2>1, <2>2 DEF ConnInv, Owners, HeldOf, GivenUp
<1>. QED
  BY <1>1, <1>2, <1>3, <1>4, <1>5, <1>6, <1>7, <1>8, <1>9, <1>10, <1>11, <1>12, <1>13 DEF Next, Proceed

LEMMA ConnInit == Init => ConnInv
<1> SUFFICES ASSUME Init PROVE ConnInv
  OBVIOUS
<1>1. NoConn \notin Conns /\ \A c \in Clients : conn[c] = NoConn
  BY PoolAssumption DEF Init
<1>2. Owners
  BY <1>1 DEF Init, Owners
<1>. QED
  BY <1>1, <1>2 DEF Init, ConnInv, HeldOf

-----------------------------------------------------------------------------
\* Where every client, connection and log entry can be, at every time.
THEOREM DriverInvariant == Spec => [](DriverInv /\ ConnInv)
<1>1. Init => DriverInv /\ ConnInv
  BY DriverInit, ConnInit
<1>2. DriverInv /\ ConnInv /\ [Next]_vars => (DriverInv /\ ConnInv)'
  BY DriverStep, ConnStep
<1>. QED
  BY <1>1, <1>2, PTL DEF Spec

\* Every variable of the virtual driver keeps its type.
THEOREM DriverTypes == Spec => []TypeOK
<1>1. DriverInv => TypeOK
  BY DEF DriverInv, TypeInv
<1>. QED
  BY <1>1, DriverInvariant, PTL

\* On no path does the base driver get a statement that was not translated, or
\* the translation of another one (sql_driver.go:185-347).
THEOREM TranslationsOnly == Spec => []OnlyTranslationsExecuted
<1>1. DriverInv => OnlyTranslationsExecuted
  BY DEF DriverInv, ClientInv, TextsOf, OnlyTranslationsExecuted
<1>. QED
  BY <1>1, DriverInvariant, PTL

\* However often a call falls back to Prepare or is retried, it takes effect at
\* most once, and its result says whether it did.
THEOREM EffectsOnce == Spec => []EffectOnce
<1>1. DriverInv => EffectOnce
  <2> SUFFICES ASSUME DriverInv, NEW c \in Clients
               PROVE  /\ effects[c] <= 1
                      /\ Returned(c) /\ result[c] = "ok" => effects[c] = 1
                      /\ Returned(c) /\ result[c] \in {"translation", "arg", "badconn", "connect"} => effects[c] = 0
    BY DEF EffectOnce
  <2>1. Returned(c) => Ended(c)
    BY DEF Returned, At, Ended, After, InLog
  <2>. QED
    BY <2>1 DEF DriverInv, ClientInv, EffectOf
<1>. QED
  BY <1>1, DriverInvariant, PTL

\* Every entry of the logs is that of a refusal by the translator or an answer of
\* the base driver in the same call, with its stage, statement, text and error;
\* there are never more entries than those (sql_driver.go:192-345, logging.go).
THEOREM LogsFaithful == Spec => []LogFaithful
<1>1. DriverInv => LogFaithful
  <2> SUFFICES ASSUME DriverInv, NEW c \in Clients
               PROVE  /\ \A e \in EntriesOf(c) :
                           /\ \E i \in 1 .. Len(failed[c]) : e = EntryOf(c, failed[c][i])
                           /\ e.log = "execution" => e.text \in received[c]
                           /\ e.log = "translate" => TranslateSQL[e.sql] = Failed
                      /\ Len(logged[c]) <= Len(failed[c])
                      /\ ~logging => logged[c] = <<>>
    BY DEF LogFaithful
  <2>1. LogOf(c) /\ Len(logged[c]) \in Nat /\ Len(failed[c]) \in Nat
    BY DEF DriverInv, ClientInv, TypeInv, TypeOK, MoreTypes
  <2>2. ASSUME NEW e \in EntriesOf(c)
        PROVE  /\ \E i \in 1 .. Len(failed[c]) : e = EntryOf(c, failed[c][i])
               /\ e.log = "execution" => e.text \in received[c]
               /\ e.log = "translate" => TranslateSQL[e.sql] = Failed
    <3>1. PICK i \in 1 .. Len(failed[c]) : e = EntryOf(c, failed[c][i])
      BY <2>1, <2>2 DEF LogOf, EntriesOf
    <3>2. Met(c, failed[c][i])
      BY <2>1, <3>1 DEF LogOf
    <3>3. CASE failed[c][i].error = "translation"
      BY <3>1, <3>2, <3>3 DEF Met, EntryOf
    <3>4. CASE failed[c][i].error # "translation"
      BY <3>1, <3>2, <3>4 DEF Met, EntryOf
    <3>. QED
      BY <3>3, <3>4
  <2>. QED
    BY <2>1, <2>2 DEF LogOf
<1>. QED
  BY <1>1, DriverInvariant, PTL

\* When a call returns its log is complete: one entry for each refusal and error,
\* in order, the last being what the caller sees (sql_driver.go:192-345).
THEOREM FailuresLogged == Spec => []FailureLogged
<1>1. DriverInv => FailureLogged
  <2> SUFFICES ASSUME DriverInv, NEW c \in Clients, Returned(c), NEW n \in Nat, n = Len(failed[c])
               PROVE  /\ logging /\ ~lost[c] => logged[c] = [i \in 1 .. n |-> EntryOf(c, failed[c][i])]
                      /\ result[c] \in {"translation", "base", "badconn"} => n > 0 /\ failed[c][n].error = result[c]
                      /\ \A i \in 1 .. n : failed[c][i].error \in {"translation", "base"} =>
                           i = n /\ failed[c][i].error = result[c]
    <3>1. \A c \in Clients : Len(failed[c]) \in Nat
      BY DEF DriverInv, TypeInv, TypeOK
    <3>. QED
      BY <3>1 DEF FailureLogged
  <2>1. ~InLog(c) /\ After(c) = "return" /\ Ended(c) /\ LogOf(c) /\ FailOf(c)
    BY DEF Returned, At, InLog, Ended, After, DriverInv, ClientInv
  <2>2. ASSUME logging, ~lost[c] PROVE logged[c] = [i \in 1 .. n |-> EntryOf(c, failed[c][i])]
    <3>1. logged[c] \in Seq(Entries)
      BY DEF DriverInv, TypeInv, MoreTypes
    <3>2. Len(logged[c]) = n /\ \A i \in 1 .. n : logged[c][i] = EntryOf(c, failed[c][i])
      BY <2>1, <2>2 DEF LogOf
    <3>3. logged[c] = [i \in 1 .. n |-> logged[c][i]]
      BY <3>1, <3>2
    <3>. QED
      BY <3>2, <3>3
  <2>. QED
    BY <2>1, <2>2 DEF FailOf
<1>. QED
  BY <1>1, DriverInvariant, PTL

\* No two calls have a connection in common, none is lost to the pool, and one
\* that answered ErrBadConn never goes back.
THEOREM PoolIsSafe == Spec => []PoolInv
<1>1. DriverInv /\ ConnInv => PoolInv
  <2> SUFFICES ASSUME DriverInv, ConnInv PROVE PoolInv
    OBVIOUS
  <2>1. Conns \ (idle \cup closed) = {conn[c] : c \in Clients} \ {NoConn}
    <3>1. conn \in [Clients -> Conns \cup {NoConn}] /\ NoConn \notin Conns
      BY PoolAssumption DEF DriverInv, TypeInv, TypeOK
    <3>. QED
      BY <3>1 DEF ConnInv, Owners
  <2>2. idle \cap reported = {}
    BY DEF ConnInv, Owners, GivenUp
  <2>. QED
    BY <2>1, <2>2 DEF ConnInv, Owners, PoolInv
<1>. QED
  BY <1>1, DriverInvariant, PTL
=============================================================================
