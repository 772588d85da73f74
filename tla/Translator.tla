----------------------------- MODULE Translator -----------------------------
(***************************************************************************)
(* The Translator of translator.go: goroutines that share one translation  *)
(* cache and one pair of counters behind a sync.RWMutex.                   *)
(*                                                                         *)
(* A call of Translate looks the statement up under the read lock and      *)
(* drops the lock.  If it was found the call takes the write lock to count *)
(* a hit; if not it translates with no lock held, gives up on an error,    *)
(* and otherwise takes the write lock to store the text and count a miss.  *)
(* "x++" is a load and a store: reg[t] is the register between the two, so *)
(* that an update lost to another goroutine is a behaviour of the model    *)
(* unless the lock prevents it.                                            *)
(*                                                                         *)
(* The number of calls is not bounded.  The Hits counter is kept modulo    *)
(* HitRange (in Go it wraps at 2^64); Misses is exact, and MissesExact     *)
(* bounds it.                                                              *)
(***************************************************************************)
EXTENDS Naturals, FiniteSets, RWMutex

CONSTANTS SQLs,          \* statements the callers translate
          Texts,         \* translated statements
          Failed,        \* translateSQL returned an error
          Absent,        \* nothing: no entry under the key, or no value yet
          TranslateSQL,  \* t.translateSQL of a statement: a text or Failed
          HitRange       \* where the Hits counter wraps

ASSUME TranslateAssumption ==
    /\ TranslateSQL \in [SQLs -> Texts \cup {Failed}]
    /\ Failed \notin Texts
    /\ Absent \notin Texts
    /\ Absent # Failed
    /\ Absent \notin SQLs

ASSUME HitRangeAssumption == HitRange \in Nat \ {0}

VARIABLES mu,       \* t.mu
          cache,    \* t.cache: one entry per statement, the dialects being fixed
          stats,    \* t.stats
          pc,       \* where each goroutine is in Translate or Stats
          sql,      \* the statement a goroutine translates
          val,      \* its local "cached" or "translated", in the end its answer
          reg,      \* the counter value it loaded and has not stored back
          snap,     \* the counters its call of Stats copied
          hitCalls, \* history: calls answered from the cache, modulo HitRange
          missedBy  \* history: <<t, s>> once a call of t stored a text for s

vars == <<mu, cache, stats, pc, sql, val, reg, snap, hitCalls, missedBy>>

Inc(n) == IF n + 1 = HitRange THEN 0 ELSE n + 1

Steps == {"idle", "rlock", "lookup", "runlock", "lockHit", "hit", "hitStore",
          "translate", "lockMiss", "store", "missStore", "return",
          "statsRLock", "statsHits", "statsMisses", "statsReturn"}

Counters == [hits : 0 .. HitRange - 1, misses : Nat]
Zero == [hits |-> 0, misses |-> 0]

Init ==
    /\ mu = Free
    /\ cache = [s \in SQLs |-> Absent]
    /\ stats = Zero
    /\ pc = [t \in Threads |-> "idle"]
    /\ sql = [t \in Threads |-> Absent]
    /\ val = [t \in Threads |-> Absent]
    /\ reg = [t \in Threads |-> 0]
    /\ snap = [t \in Threads |-> Zero]
    /\ hitCalls = 0
    /\ missedBy = {}

Goto(t, from, to) == pc[t] = from /\ pc' = [pc EXCEPT ![t] = to]

-----------------------------------------------------------------------------
(* Translate: the lookup under the read lock.                              *)

Call(t, s) ==
    /\ Goto(t, "idle", "rlock")
    /\ sql' = [sql EXCEPT ![t] = s]
    /\ UNCHANGED <<mu, cache, stats, val, reg, snap, hitCalls, missedBy>>

LookupRLock(t) ==
    /\ Goto(t, "rlock", "lookup")
    /\ mu' = RLock(mu, t)
    /\ UNCHANGED <<cache, stats, sql, val, reg, snap, hitCalls, missedBy>>

Lookup(t) ==
    /\ MayRead(mu, t)
    /\ Goto(t, "lookup", "runlock")
    /\ val' = [val EXCEPT ![t] = cache[sql[t]]]
    /\ UNCHANGED <<mu, cache, stats, sql, reg, snap, hitCalls, missedBy>>

\* Mutant: the second result of the map lookup is ignored.
LookupIgnoringOk(t) ==
    /\ Goto(t, "runlock", "lockHit")
    /\ mu' = RUnlock(mu, t)
    /\ UNCHANGED <<cache, stats, sql, val, reg, snap, hitCalls, missedBy>>

LookupRUnlock(t) ==
    /\ Goto(t, "runlock", IF val[t] # Absent THEN "lockHit" ELSE "translate")
    /\ mu' = RUnlock(mu, t)
    /\ UNCHANGED <<cache, stats, sql, val, reg, snap, hitCalls, missedBy>>

-----------------------------------------------------------------------------
(* Translate: the statement was in the cache.                              *)

\* Mutant: the hit is counted without the write lock.
LockHitSkipped(t) ==
    /\ Goto(t, "lockHit", "hitStore")
    /\ reg' = [reg EXCEPT ![t] = stats.hits]
    /\ UNCHANGED <<mu, cache, stats, sql, val, snap, hitCalls, missedBy>>

LockHit(t) ==
    /\ MayAnnounce(mu)
    /\ Goto(t, "lockHit", "hit")
    /\ mu' = Announce(mu, t)
    /\ UNCHANGED <<cache, stats, sql, val, reg, snap, hitCalls, missedBy>>

LoadHits(t) ==
    /\ MayWrite(mu, t)
    /\ Goto(t, "hit", "hitStore")
    /\ reg' = [reg EXCEPT ![t] = stats.hits]
    /\ UNCHANGED <<mu, cache, stats, sql, val, snap, hitCalls, missedBy>>

StoreHits(t) ==
    /\ Goto(t, "hitStore", "return")
    /\ stats' = [stats EXCEPT !.hits = Inc(reg[t])]
    /\ hitCalls' = Inc(hitCalls)
    /\ mu' = Unlock(mu)
    /\ UNCHANGED <<cache, sql, val, reg, snap, missedBy>>

-----------------------------------------------------------------------------
(* Translate: the statement was not in the cache.                          *)

\* Mutants: the error of translateSQL is not looked at; it is retried for ever.
DoTranslateIgnoringError(t) ==
    /\ pc[t] = "translate"
    /\ val' = [val EXCEPT ![t] = TranslateSQL[sql[t]]]
    /\ pc' = [pc EXCEPT ![t] = "lockMiss"]
    /\ UNCHANGED <<mu, cache, stats, sql, reg, snap, hitCalls, missedBy>>

DoTranslateRetrying(t) ==
    /\ pc[t] = "translate"
    /\ val' = [val EXCEPT ![t] = TranslateSQL[sql[t]]]
    /\ pc' = [pc EXCEPT ![t] = IF val'[t] = Failed THEN "translate" ELSE "lockMiss"]
    /\ UNCHANGED <<mu, cache, stats, sql, reg, snap, hitCalls, missedBy>>

DoTranslate(t) ==
    /\ pc[t] = "translate"
    /\ val' = [val EXCEPT ![t] = TranslateSQL[sql[t]]]
    /\ pc' = [pc EXCEPT ![t] = IF val'[t] = Failed THEN "return" ELSE "lockMiss"]
    /\ UNCHANGED <<mu, cache, stats, sql, reg, snap, hitCalls, missedBy>>

LockMiss(t) ==
    /\ MayAnnounce(mu)
    /\ Goto(t, "lockMiss", "store")
    /\ mu' = Announce(mu, t)
    /\ UNCHANGED <<cache, stats, sql, val, reg, snap, hitCalls, missedBy>>

\* Mutants: the text is counted but not stored; it replaces the whole cache.
StoreTextForgotten(t) ==
    /\ MayWrite(mu, t)
    /\ Goto(t, "store", "missStore")
    /\ reg' = [reg EXCEPT ![t] = stats.misses]
    /\ UNCHANGED <<mu, cache, stats, sql, val, snap, hitCalls, missedBy>>

StoreTextDroppingDuplicate(t) ==
    /\ MayWrite(mu, t)
    /\ Goto(t, "store", "missStore")
    /\ cache' = [cache EXCEPT ![sql[t]] = IF @ = Absent THEN val[t] ELSE Absent]
    /\ reg' = [reg EXCEPT ![t] = stats.misses]
    /\ UNCHANGED <<mu, stats, sql, val, snap, hitCalls, missedBy>>

StoreText(t) ==
    /\ MayWrite(mu, t)
    /\ Goto(t, "store", "missStore")
    /\ cache' = [cache EXCEPT ![sql[t]] = val[t]]
    /\ reg' = [reg EXCEPT ![t] = stats.misses]
    /\ UNCHANGED <<mu, stats, sql, val, snap, hitCalls, missedBy>>

StoreMisses(t) ==
    /\ Goto(t, "missStore", "return")
    /\ stats' = [stats EXCEPT !.misses = reg[t] + 1]
    /\ missedBy' = missedBy \cup {<<t, sql[t]>>}
    /\ mu' = Unlock(mu)
    /\ UNCHANGED <<cache, sql, val, reg, snap, hitCalls>>

\* The caller has the answer; the locals of the call are gone.
Return(t) ==
    /\ pc[t] \in {"return", "statsReturn"}
    /\ pc' = [pc EXCEPT ![t] = "idle"]
    /\ sql' = [sql EXCEPT ![t] = Absent]
    /\ val' = [val EXCEPT ![t] = Absent]
    /\ reg' = [reg EXCEPT ![t] = 0]
    /\ snap' = [snap EXCEPT ![t] = Zero]
    /\ UNCHANGED <<mu, cache, stats, hitCalls, missedBy>>

-----------------------------------------------------------------------------
(* Stats: both counters are copied under the read lock.                    *)

CallStats(t) ==
    /\ Goto(t, "idle", "statsRLock")
    /\ UNCHANGED <<mu, cache, stats, sql, val, reg, snap, hitCalls, missedBy>>

\* Mutant: Stats reads without the lock.
StatsUnlocked(t) ==
    /\ Goto(t, "statsRLock", "statsMisses")
    /\ reg' = [reg EXCEPT ![t] = stats.hits]
    /\ UNCHANGED <<mu, cache, stats, sql, val, snap, hitCalls, missedBy>>

StatsRLock(t) ==
    /\ Goto(t, "statsRLock", "statsHits")
    /\ mu' = RLock(mu, t)
    /\ UNCHANGED <<cache, stats, sql, val, reg, snap, hitCalls, missedBy>>

CopyHits(t) ==
    /\ MayRead(mu, t)
    /\ Goto(t, "statsHits", "statsMisses")
    /\ reg' = [reg EXCEPT ![t] = stats.hits]
    /\ UNCHANGED <<mu, cache, stats, sql, val, snap, hitCalls, missedBy>>

CopyMisses(t) ==
    /\ Goto(t, "statsMisses", "statsReturn")
    /\ snap' = [snap EXCEPT ![t] = [hits |-> reg[t], misses |-> stats.misses]]
    /\ mu' = RUnlock(mu, t)
    /\ UNCHANGED <<cache, stats, sql, val, reg, hitCalls, missedBy>>

-----------------------------------------------------------------------------
\* The steps of a goroutine inside a call, the waits for the inner mutex apart.
Proceed(t) ==
    \/ LookupRLock(t) \/ Lookup(t) \/ LookupRUnlock(t)
    \/ LoadHits(t) \/ StoreHits(t)
    \/ DoTranslate(t) \/ StoreText(t) \/ StoreMisses(t)
    \/ Return(t)
    \/ StatsRLock(t) \/ CopyHits(t) \/ CopyMisses(t)

TakeLock(t) == LockHit(t) \/ LockMiss(t)

Next == \E t \in Threads :
            \/ \E s \in SQLs : Call(t, s)
            \/ CallStats(t)
            \/ Proceed(t)
            \/ TakeLock(t)

Spec == Init /\ [][Next]_vars

(***************************************************************************)
(* Callers owe nothing.  A goroutine inside a call is scheduled (WF), and  *)
(* a sync.Mutex that a goroutine keeps losing is handed to it in the end   *)
(* (starvation mode), which is strong fairness of taking it.               *)
(***************************************************************************)
Fairness == \A t \in Threads : WF_vars(Proceed(t)) /\ SF_vars(TakeLock(t))

FairSpec == Spec /\ Fairness

-----------------------------------------------------------------------------
\* Types; Hits stays within its range, the cache holds texts only.
TypeOK ==
    /\ mu \in Mutexes
    /\ cache \in [SQLs -> Texts \cup {Absent}]
    /\ stats \in Counters
    /\ pc \in [Threads -> Steps]
    /\ sql \in [Threads -> SQLs \cup {Absent}]
    /\ val \in [Threads -> Texts \cup {Failed, Absent}]
    /\ reg \in [Threads -> Nat]
    /\ snap \in [Threads -> Counters]
    /\ hitCalls \in 0 .. HitRange - 1
    /\ missedBy \subseteq Threads \X SQLs

\* Past RLock, or Lock, and about to touch the cache or the counters.
Reading(t) == \/ pc[t] \in {"lookup", "statsHits"} /\ MayRead(mu, t)
              \/ pc[t] = "statsMisses"
Writing(t) == \/ pc[t] \in {"hit", "store"} /\ MayWrite(mu, t)
              \/ pc[t] \in {"hitStore", "missStore"}

\* No data race: while a goroutine writes the cache or the counters, no other
\* goroutine reads or writes them (t.mu of Translate and Stats).
NoDataRace ==
    \A t, u \in Threads : Writing(t) /\ t # u => ~ (Writing(u) \/ Reading(u))

\* A cached text is the translation of the statement it is stored under, and
\* a statement that cannot be translated never gets an entry, whatever the
\* order in which goroutines fill the cache.
CacheCoherent ==
    \A s \in SQLs : cache[s] # Absent =>
        /\ cache[s] = TranslateSQL[s]
        /\ TranslateSQL[s] # Failed

\* What Translate returns is translateSQL of the statement it was given,
\* whether it was found in the cache or translated anew.
AnswerCorrect == \A t \in Threads : pc[t] = "return" => val[t] = TranslateSQL[sql[t]]

\* No counter update is lost: Hits counts the calls answered from the cache.
HitsExact == stats.hits = hitCalls

\* Several goroutines may translate one statement at the same time, but each
\* of them does so at most once: Misses counts the pairs of a goroutine and a
\* statement, so it never exceeds |Threads| * |SQLs|, however many calls.
MissesExact == stats.misses = Cardinality(missedBy)

\* An entry is never dropped or replaced by another text.
CacheKept == [][\A s \in SQLs : cache[s] # Absent => cache'[s] = cache[s]]_cache

\* A call returns, whoever else uses the translator and however often.
EveryCallReturns == \A t \in Threads : pc[t] # "idle" ~> pc[t] = "idle"
=============================================================================
