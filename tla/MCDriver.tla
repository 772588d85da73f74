------------------------------ MODULE MCDriver ------------------------------
(* Small instances of Driver.                                              *)
EXTENDS Driver

CONSTANTS select, bad, selectText

MCTranslateSQL == [s \in SQLs |-> IF s = bad THEN Failed ELSE selectText]

\* A good and a bad statement, a good and a bad parameter, both kinds of call; and
\* one call.
SomeOperations == {[kind |-> "exec", sql |-> select, badArg |-> FALSE],
                   [kind |-> "query", sql |-> select, badArg |-> TRUE],
                   [kind |-> "query", sql |-> bad, badArg |-> FALSE]}
OneOperation == [kind : {"exec"}, sql : {select}, badArg : {FALSE}]

\* Every base driver there could be, and two: one with the fast path that finds a
\* dead connection only by using it, and one without that notices when it is taken
\* or given back.
AnyDriver  == SUBSET Interfaces
SomeDriver == {{"Execer"}, {"SessionResetter", "Validator"}}

\* What a call was refused, did and logged is recorded and never read: neither
\* guards nor PoolInv and EveryCallReturns depend on it, or on the text and the
\* entry under way beyond where they lead.  States that differ in nothing else
\* are one.
Label(c) == IF pending[c] = NoEntry THEN "none" ELSE pending[c].label
NoHistory == <<fixed, poolVars, pc, op, conn, tries, result, [c \in Clients |-> Label(c)],
               logMu, lost, reported>>
=============================================================================
