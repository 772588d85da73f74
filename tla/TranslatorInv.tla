--------------------------- MODULE TranslatorInv ---------------------------
(***************************************************************************)
(* Why the Translator is correct: what holds at each point of Translate    *)
(* and Stats.  IndInv is inductive; TranslatorProof derives the properties *)
(* of Translator and the refinement from it.                               *)
(***************************************************************************)
EXTENDS TranslatorRefinement

HoldsWrite == {"hit", "hitStore", "store", "missStore"}
HoldsRead  == {"lookup", "runlock", "statsHits", "statsMisses"}
Translating == {"translate", "lockMiss", "store", "missStore"}
Hitting == {"lockHit", "hit", "hitStore"}

\* Who holds the lock is where the goroutines are: the announced writer is the
\* one between Lock and Unlock, readers and parked readers are those between
\* RLock and RUnlock, and nobody reads or parks without the writer's consent.
LockInv ==
    /\ \A t \in Threads : mu.writer = t <=> pc[t] \in HoldsWrite
    /\ \A t \in Threads : t \in mu.readers \cup mu.parked <=> pc[t] \in HoldsRead
    /\ \A t \in mu.parked : pc[t] \in {"lookup", "statsHits"}
    /\ mu.readers \cap mu.parked = {}
    /\ mu.parked # {} => mu.writer # NoThread
    /\ \A t \in Threads : pc[t] \in {"hitStore", "missStore"} => mu.readers = {}

\* Someone's miss on s was counted, or is about to be under the write lock.
MissedOrStored(s) ==
    \/ \E u \in Threads : <<u, s>> \in missedBy
    \/ \E u \in Threads : pc[u] = "missStore" /\ sql[u] = s

\* The cache holds exactly what was missed on.
CacheInv ==
    /\ CacheCoherent
    /\ \A s \in SQLs : cache[s] # Absent <=> MissedOrStored(s)

\* The locals of a goroutine at each point of Translate.
LocalInv ==
    \A t \in Threads :
        /\ pc[t] \in {"rlock", "lookup", "runlock", "return"} \cup Translating \cup Hitting
             => sql[t] \in SQLs
        /\ pc[t] = "runlock" =>
             \/ val[t] = Absent /\ <<t, sql[t]>> \notin missedBy
             \/ val[t] = TranslateSQL[sql[t]] /\ \E u \in Threads : <<u, sql[t]>> \in missedBy
        /\ pc[t] \in Hitting =>
             /\ val[t] = TranslateSQL[sql[t]]
             /\ \E u \in Threads : <<u, sql[t]>> \in missedBy
        /\ pc[t] \in Translating => <<t, sql[t]>> \notin missedBy
        /\ pc[t] \in {"lockMiss", "store", "missStore"} =>
             val[t] = TranslateSQL[sql[t]] /\ val[t] # Failed
        /\ pc[t] = "return" => val[t] = TranslateSQL[sql[t]]

\* A register holds the counter as long as the lock is held.
CounterInv ==
    /\ \A t \in Threads :
         /\ pc[t] \in {"hitStore", "statsMisses"} => reg[t] = stats.hits
         /\ pc[t] = "missStore" => reg[t] = stats.misses
    /\ HitsExact
    /\ IsFiniteSet(missedBy)
    /\ MissesExact

\* The inductive invariant: a goroutine that is at some point of Translate or
\* Stats holds the lock, the locals and the counters that point requires.
IndInv == TypeOK /\ LockInv /\ CacheInv /\ LocalInv /\ CounterInv
=============================================================================
