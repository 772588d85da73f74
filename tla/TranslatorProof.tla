-------------------------- MODULE TranslatorProof --------------------------
(***************************************************************************)
(* IndInv is inductive, for every set of goroutines and statements, every  *)
(* translateSQL and every width of the Hits counter.  The properties of    *)
(* Translator and the refinement of TranslatorSpec follow from it.  There  *)
(* is one lemma per part of IndInv, and in it one step per action.         *)
(***************************************************************************)
EXTENDS TranslatorInv, TLAPS, FiniteSetTheorems

\* A wrapped counter stays in range.
LEMMA IncInRange == ASSUME NEW n \in 0 .. HitRange - 1 PROVE Inc(n) \in 0 ..
     HitRange - 1
BY HitRangeAssumption DEF Inc

\* Every step of Translate and Stats keeps the types.
LEMMA TypeStep == IndInv /\ [Next]_vars => TypeOK'
<1> SUFFICES ASSUME IndInv, [Next]_vars
             PROVE  TypeOK'
  OBVIOUS
<1> USE NoThreadAssumption, TranslateAssumption, HitRangeAssumption
    DEF IndInv, TypeOK, Steps, Counters, Zero, Inc, Mutexes, Free, RLock,
         RUnlock, MayRead, MayAnnounce, Announce, MayWrite, Unlock
<1>1. ASSUME NEW t \in Threads, NEW s \in SQLs, Call(t, s) PROVE TypeOK'
  BY <1>1 DEF Call, Goto
<1>2. ASSUME NEW t \in Threads, CallStats(t) PROVE TypeOK'
  BY <1>2 DEF CallStats, Goto
<1>3. ASSUME NEW t \in Threads, LookupRLock(t) PROVE TypeOK'
  BY <1>3 DEF LookupRLock, Goto
<1>4. ASSUME NEW t \in Threads, Lookup(t) PROVE TypeOK'
  <2>1. sql[t] \in SQLs
    BY <1>4 DEF Lookup, Goto, LocalInv
  <2>. QED
    BY <1>4, <2>1 DEF Lookup, Goto
<1>5. ASSUME NEW t \in Threads, LookupRUnlock(t) PROVE TypeOK'
  BY <1>5 DEF LookupRUnlock, Goto
<1>6. ASSUME NEW t \in Threads, LockHit(t) PROVE TypeOK'
  BY <1>6 DEF LockHit, Goto
<1>7. ASSUME NEW t \in Threads, LoadHits(t) PROVE TypeOK'
  BY <1>7 DEF LoadHits, Goto
<1>8. ASSUME NEW t \in Threads, StoreHits(t) PROVE TypeOK'
  <2>1. reg[t] = stats.hits
    BY <1>8 DEF StoreHits, Goto, CounterInv
  <2>2. Inc(reg[t]) \in 0 .. HitRange - 1 /\ Inc(hitCalls) \in 0 .. HitRange - 1
    BY <2>1, IncInRange
  <2>3. stats' \in Counters
    BY <1>8, <2>2 DEF StoreHits
  <2>. QED
    BY <1>8, <2>2, <2>3 DEF StoreHits, Goto
<1>9. ASSUME NEW t \in Threads, DoTranslate(t) PROVE TypeOK'
  <2>1. sql[t] \in SQLs
    BY <1>9 DEF DoTranslate, LocalInv, Translating
  <2>2. TranslateSQL[sql[t]] \in Texts \cup {Failed}
    BY <2>1
  <2>. QED
    BY <1>9, <2>2 DEF DoTranslate
<1>10. ASSUME NEW t \in Threads, LockMiss(t) PROVE TypeOK'
  BY <1>10 DEF LockMiss, Goto
<1>11. ASSUME NEW t \in Threads, StoreText(t) PROVE TypeOK'
  <2>1. sql[t] \in SQLs
    BY <1>11 DEF StoreText, Goto, LocalInv, Translating
  <2>2. val[t] = TranslateSQL[sql[t]] /\ val[t] # Failed
    BY <1>11 DEF StoreText, Goto, LocalInv
  <2>3. val[t] \in Texts
    BY <2>1, <2>2
  <2>. QED
    BY <1>11, <2>1, <2>3 DEF StoreText, Goto
<1>12. ASSUME NEW t \in Threads, StoreMisses(t) PROVE TypeOK'
  <2>1. sql[t] \in SQLs
    BY <1>12 DEF StoreMisses, Goto, LocalInv, Translating
  <2>2. stats' \in Counters
    BY <1>12 DEF StoreMisses
  <2>3. missedBy' \subseteq Threads \X SQLs
    BY <1>12, <2>1 DEF StoreMisses
  <2>. QED
    BY <1>12, <2>2, <2>3 DEF StoreMisses, Goto
<1>13. ASSUME NEW t \in Threads, Return(t) PROVE TypeOK'
  BY <1>13 DEF Return, Goto
<1>14. ASSUME NEW t \in Threads, StatsRLock(t) PROVE TypeOK'
  BY <1>14 DEF StatsRLock, Goto
<1>15. ASSUME NEW t \in Threads, CopyHits(t) PROVE TypeOK'
  BY <1>15 DEF CopyHits, Goto
<1>16. ASSUME NEW t \in Threads, CopyMisses(t) PROVE TypeOK'
  BY <1>16 DEF CopyMisses, Goto, CounterInv
<1>17. CASE UNCHANGED vars
  BY <1>17 DEF vars
<1>18. QED
  BY <1>1, <1>2, <1>3, <1>4, <1>5, <1>6, <1>7, <1>8, <1>9, <1>10, <1>11, <1>12,
       <1>13, <1>14, <1>15, <1>16, <1>17 DEF Next, Proceed, TakeLock

\* RLock, RUnlock, Lock and Unlock are paired at every step.
LEMMA LockStep == IndInv /\ [Next]_vars => LockInv'
<1> SUFFICES ASSUME IndInv, [Next]_vars
             PROVE  LockInv'
  OBVIOUS
<1> USE NoThreadAssumption, TranslateAssumption, HitRangeAssumption
    DEF IndInv, TypeOK, LockInv, HoldsRead, HoldsWrite, Steps, Mutexes, Free,
         RLock, RUnlock, MayRead, MayAnnounce, Announce, MayWrite, Unlock
<1>1. ASSUME NEW t \in Threads, NEW s \in SQLs, Call(t, s) PROVE LockInv'
  BY <1>1 DEF Call, Goto
<1>2. ASSUME NEW t \in Threads, CallStats(t) PROVE LockInv'
  BY <1>2 DEF CallStats, Goto
<1>3. ASSUME NEW t \in Threads, LookupRLock(t) PROVE LockInv'
  BY <1>3 DEF LookupRLock, Goto
<1>4. ASSUME NEW t \in Threads, Lookup(t) PROVE LockInv'
  BY <1>4 DEF Lookup, Goto
<1>5. ASSUME NEW t \in Threads, LookupRUnlock(t) PROVE LockInv'
  BY <1>5 DEF LookupRUnlock, Goto
<1>6. ASSUME NEW t \in Threads, LockHit(t) PROVE LockInv'
  BY <1>6 DEF LockHit, Goto
<1>7. ASSUME NEW t \in Threads, LoadHits(t) PROVE LockInv'
  BY <1>7 DEF LoadHits, Goto
<1>8. ASSUME NEW t \in Threads, StoreHits(t) PROVE LockInv'
  BY <1>8 DEF StoreHits, Goto
<1>9. ASSUME NEW t \in Threads, DoTranslate(t) PROVE LockInv'
  BY <1>9 DEF DoTranslate, Goto
<1>10. ASSUME NEW t \in Threads, LockMiss(t) PROVE LockInv'
  BY <1>10 DEF LockMiss, Goto
<1>11. ASSUME NEW t \in Threads, StoreText(t) PROVE LockInv'
  BY <1>11 DEF StoreText, Goto
<1>12. ASSUME NEW t \in Threads, StoreMisses(t) PROVE LockInv'
  BY <1>12 DEF StoreMisses, Goto
<1>13. ASSUME NEW t \in Threads, Return(t) PROVE LockInv'
  BY <1>13 DEF Return, Goto
<1>14. ASSUME NEW t \in Threads, StatsRLock(t) PROVE LockInv'
  BY <1>14 DEF StatsRLock, Goto
<1>15. ASSUME NEW t \in Threads, CopyHits(t) PROVE LockInv'
  BY <1>15 DEF CopyHits, Goto
<1>16. ASSUME NEW t \in Threads, CopyMisses(t) PROVE LockInv'
  BY <1>16 DEF CopyMisses, Goto
<1>17. CASE UNCHANGED vars
  BY <1>17 DEF vars
<1>18. QED
  BY <1>1, <1>2, <1>3, <1>4, <1>5, <1>6, <1>7, <1>8, <1>9, <1>10, <1>11, <1>12,
       <1>13, <1>14, <1>15, <1>16, <1>17 DEF Next, Proceed, TakeLock

\* Only StoreText fills the cache, with the translation of its own statement.
LEMMA CacheStep == IndInv /\ [Next]_vars => CacheInv'
<1> SUFFICES ASSUME IndInv, [Next]_vars
             PROVE  CacheInv'
  OBVIOUS
<1> USE NoThreadAssumption, TranslateAssumption, HitRangeAssumption
    DEF IndInv, TypeOK, CacheInv, CacheCoherent, MissedOrStored, Steps
<1>1. ASSUME NEW t \in Threads, NEW s \in SQLs, Call(t, s) PROVE CacheInv'
  BY <1>1 DEF Call, Goto
<1>2. ASSUME NEW t \in Threads, CallStats(t) PROVE CacheInv'
  BY <1>2 DEF CallStats, Goto
<1>3. ASSUME NEW t \in Threads, LookupRLock(t) PROVE CacheInv'
  BY <1>3 DEF LookupRLock, Goto
<1>4. ASSUME NEW t \in Threads, Lookup(t) PROVE CacheInv'
  BY <1>4 DEF Lookup, Goto
<1>5. ASSUME NEW t \in Threads, LookupRUnlock(t) PROVE CacheInv'
  BY <1>5 DEF LookupRUnlock, Goto
<1>6. ASSUME NEW t \in Threads, LockHit(t) PROVE CacheInv'
  BY <1>6 DEF LockHit, Goto
<1>7. ASSUME NEW t \in Threads, LoadHits(t) PROVE CacheInv'
  BY <1>7 DEF LoadHits, Goto
<1>8. ASSUME NEW t \in Threads, StoreHits(t) PROVE CacheInv'
  BY <1>8 DEF StoreHits, Goto
<1>9. ASSUME NEW t \in Threads, DoTranslate(t) PROVE CacheInv'
  BY <1>9 DEF DoTranslate, Goto
<1>10. ASSUME NEW t \in Threads, LockMiss(t) PROVE CacheInv'
  BY <1>10 DEF LockMiss, Goto
<1>11. ASSUME NEW t \in Threads, StoreText(t) PROVE CacheInv'
  <2>1. sql[t] \in SQLs /\ val[t] = TranslateSQL[sql[t]] /\ val[t] # Failed
    BY <1>11 DEF StoreText, Goto, LocalInv, Translating
  <2>2. val[t] # Absent
    BY <2>1
  <2>3. CacheCoherent'
    BY <1>11, <2>1, <2>2 DEF StoreText, Goto
  <2>4. ASSUME NEW s \in SQLs
        PROVE  (cache[s] # Absent <=> MissedOrStored(s))'
    <3>1. CASE s = sql[t]
      BY <1>11, <2>1, <2>2, <3>1 DEF StoreText, Goto
    <3>2. CASE s # sql[t]
      <4>1. cache'[s] = cache[s]
        BY <1>11, <3>2 DEF StoreText
      <4>2. \A u \in Threads : pc'[u] = "missStore" /\ sql'[u] = s
                                <=> pc[u] = "missStore" /\ sql[u] = s
        BY <1>11, <3>2 DEF StoreText, Goto
      <4>. QED
        BY <1>11, <4>1, <4>2 DEF StoreText
    <3>. QED
      BY <3>1, <3>2
  <2>. QED
    BY <2>3, <2>4
<1>12. ASSUME NEW t \in Threads, StoreMisses(t) PROVE CacheInv'
  BY <1>12 DEF StoreMisses, Goto
<1>13. ASSUME NEW t \in Threads, Return(t) PROVE CacheInv'
  BY <1>13 DEF Return, Goto
<1>14. ASSUME NEW t \in Threads, StatsRLock(t) PROVE CacheInv'
  BY <1>14 DEF StatsRLock, Goto
<1>15. ASSUME NEW t \in Threads, CopyHits(t) PROVE CacheInv'
  BY <1>15 DEF CopyHits, Goto
<1>16. ASSUME NEW t \in Threads, CopyMisses(t) PROVE CacheInv'
  BY <1>16 DEF CopyMisses, Goto
<1>17. CASE UNCHANGED vars
  BY <1>17 DEF vars
<1>18. QED
  BY <1>1, <1>2, <1>3, <1>4, <1>5, <1>6, <1>7, <1>8, <1>9, <1>10, <1>11, <1>12,
       <1>13, <1>14, <1>15, <1>16, <1>17 DEF Next, Proceed, TakeLock

\* What a goroutine found under the read lock stays true after it drops the
\* lock: the cache only grows, and only its own misses are its own.
LEMMA LocalStep == IndInv /\ [Next]_vars => LocalInv'
<1> SUFFICES ASSUME IndInv, [Next]_vars
             PROVE  LocalInv'
  OBVIOUS
<1> USE NoThreadAssumption, TranslateAssumption, HitRangeAssumption
    DEF IndInv, TypeOK, LocalInv, Translating, Hitting, Steps
<1>1. ASSUME NEW t \in Threads, NEW s \in SQLs, Call(t, s) PROVE LocalInv'
  BY <1>1 DEF Call, Goto
<1>2. ASSUME NEW t \in Threads, CallStats(t) PROVE LocalInv'
  BY <1>2 DEF CallStats, Goto
<1>3. ASSUME NEW t \in Threads, LookupRLock(t) PROVE LocalInv'
  BY <1>3 DEF LookupRLock, Goto
<1>4. ASSUME NEW t \in Threads, Lookup(t) PROVE LocalInv'
  <2>1. sql[t] \in SQLs /\ pc[t] = "lookup" /\ t \in mu.readers
    BY <1>4 DEF Lookup, Goto, MayRead
  <2>2. ~ \E u \in Threads : pc[u] = "missStore"
    BY <2>1 DEF LockInv
  <2>3. CASE cache[sql[t]] = Absent
    <3>1. <<t, sql[t]>> \notin missedBy
      BY <2>1, <2>3 DEF CacheInv, MissedOrStored
    <3>. QED
      BY <1>4, <2>1, <2>3, <3>1 DEF Lookup, Goto
  <2>4. CASE cache[sql[t]] # Absent
    <3>1. \E u \in Threads : <<u, sql[t]>> \in missedBy
      BY <2>1, <2>2, <2>4 DEF CacheInv, MissedOrStored
    <3>2. cache[sql[t]] = TranslateSQL[sql[t]]
      BY <2>1, <2>4 DEF CacheInv, CacheCoherent
    <3>. QED
      BY <1>4, <2>1, <3>1, <3>2 DEF Lookup, Goto
  <2>. QED
    BY <2>3, <2>4
<1>5. ASSUME NEW t \in Threads, LookupRUnlock(t) PROVE LocalInv'
  <2>1. pc[t] = "runlock" /\ sql[t] \in SQLs
    BY <1>5 DEF LookupRUnlock, Goto
  <2>2. CASE val[t] = Absent
    <3>1. <<t, sql[t]>> \notin missedBy
      BY <2>1, <2>2
    <3>2. pc' = [pc EXCEPT ![t] = "translate"]
      BY <1>5, <2>2 DEF LookupRUnlock, Goto
    <3>. QED
      BY <1>5, <2>1, <3>1, <3>2 DEF LookupRUnlock
  <2>3. CASE val[t] # Absent
    <3>1. val[t] = TranslateSQL[sql[t]] /\ \E u \in Threads : <<u, sql[t]>> \in
         missedBy
      BY <2>1, <2>3
    <3>2. pc' = [pc EXCEPT ![t] = "lockHit"]
      BY <1>5, <2>3 DEF LookupRUnlock, Goto
    <3>. QED
      BY <1>5, <2>1, <3>1, <3>2 DEF LookupRUnlock
  <2>. QED
    BY <2>2, <2>3
<1>6. ASSUME NEW t \in Threads, LockHit(t) PROVE LocalInv'
  BY <1>6 DEF LockHit, Goto
<1>7. ASSUME NEW t \in Threads, LoadHits(t) PROVE LocalInv'
  BY <1>7 DEF LoadHits, Goto
<1>8. ASSUME NEW t \in Threads, StoreHits(t) PROVE LocalInv'
  BY <1>8 DEF StoreHits, Goto
<1>9. ASSUME NEW t \in Threads, DoTranslate(t) PROVE LocalInv'
  BY <1>9 DEF DoTranslate, Goto
<1>10. ASSUME NEW t \in Threads, LockMiss(t) PROVE LocalInv'
  BY <1>10 DEF LockMiss, Goto
<1>11. ASSUME NEW t \in Threads, StoreText(t) PROVE LocalInv'
  BY <1>11 DEF StoreText, Goto
<1>12. ASSUME NEW t \in Threads, StoreMisses(t) PROVE LocalInv'
  BY <1>12 DEF StoreMisses, Goto
<1>13. ASSUME NEW t \in Threads, Return(t) PROVE LocalInv'
  BY <1>13 DEF Return, Goto
<1>14. ASSUME NEW t \in Threads, StatsRLock(t) PROVE LocalInv'
  BY <1>14 DEF StatsRLock, Goto
<1>15. ASSUME NEW t \in Threads, CopyHits(t) PROVE LocalInv'
  BY <1>15 DEF CopyHits, Goto
<1>16. ASSUME NEW t \in Threads, CopyMisses(t) PROVE LocalInv'
  BY <1>16 DEF CopyMisses, Goto
<1>17. CASE UNCHANGED vars
  BY <1>17 DEF vars
<1>18. QED
  BY <1>1, <1>2, <1>3, <1>4, <1>5, <1>6, <1>7, <1>8, <1>9, <1>10, <1>11, <1>12,
       <1>13, <1>14, <1>15, <1>16, <1>17 DEF Next, Proceed, TakeLock

\* The lock keeps a loaded counter current until it is stored back.
LEMMA CounterStep == IndInv /\ [Next]_vars => CounterInv'
<1> SUFFICES ASSUME IndInv, [Next]_vars
             PROVE  CounterInv'
  OBVIOUS
<1> USE NoThreadAssumption, TranslateAssumption, HitRangeAssumption
    DEF IndInv, TypeOK, CounterInv, HitsExact, MissesExact, Counters, Steps
<1>1. ASSUME NEW t \in Threads, NEW s \in SQLs, Call(t, s) PROVE CounterInv'
  BY <1>1 DEF Call, Goto
<1>2. ASSUME NEW t \in Threads, CallStats(t) PROVE CounterInv'
  BY <1>2 DEF CallStats, Goto
<1>3. ASSUME NEW t \in Threads, LookupRLock(t) PROVE CounterInv'
  BY <1>3 DEF LookupRLock, Goto
<1>4. ASSUME NEW t \in Threads, Lookup(t) PROVE CounterInv'
  BY <1>4 DEF Lookup, Goto
<1>5. ASSUME NEW t \in Threads, LookupRUnlock(t) PROVE CounterInv'
  BY <1>5 DEF LookupRUnlock, Goto
<1>6. ASSUME NEW t \in Threads, LockHit(t) PROVE CounterInv'
  BY <1>6 DEF LockHit, Goto
<1>7. ASSUME NEW t \in Threads, LoadHits(t) PROVE CounterInv'
  BY <1>7 DEF LoadHits, Goto
<1>8. ASSUME NEW t \in Threads, StoreHits(t) PROVE CounterInv'
  <2>1. pc[t] = "hitStore" /\ reg[t] = stats.hits /\ stats'.hits = Inc(stats.hits)
    BY <1>8 DEF StoreHits, Goto
  <2>2. \A u \in Threads : pc'[u] \notin {"hitStore", "missStore", "statsMisses"}
    BY <1>8, <2>1 DEF StoreHits, Goto, LockInv, HoldsWrite, HoldsRead
  <2>. QED
    BY <1>8, <2>1, <2>2 DEF StoreHits
<1>9. ASSUME NEW t \in Threads, DoTranslate(t) PROVE CounterInv'
  BY <1>9 DEF DoTranslate, Goto
<1>10. ASSUME NEW t \in Threads, LockMiss(t) PROVE CounterInv'
  BY <1>10 DEF LockMiss, Goto
<1>11. ASSUME NEW t \in Threads, StoreText(t) PROVE CounterInv'
  BY <1>11 DEF StoreText, Goto
<1>12. ASSUME NEW t \in Threads, StoreMisses(t) PROVE CounterInv'
  <2>1. pc[t] = "missStore" /\ reg[t] = stats.misses /\ <<t, sql[t]>> \notin
       missedBy
    BY <1>12 DEF StoreMisses, Goto, LocalInv, Translating
  <2>2. \A u \in Threads : pc'[u] \notin {"hitStore", "missStore", "statsMisses"}
    BY <1>12, <2>1 DEF StoreMisses, Goto, LockInv, HoldsWrite, HoldsRead
  <2>3. IsFiniteSet(missedBy') /\ Cardinality(missedBy') = Cardinality(missedBy) + 1
    BY <1>12, <2>1, FS_AddElement DEF StoreMisses
  <2>. QED
    BY <1>12, <2>1, <2>2, <2>3 DEF StoreMisses
<1>13. ASSUME NEW t \in Threads, Return(t) PROVE CounterInv'
  BY <1>13 DEF Return, Goto
<1>14. ASSUME NEW t \in Threads, StatsRLock(t) PROVE CounterInv'
  BY <1>14 DEF StatsRLock, Goto
<1>15. ASSUME NEW t \in Threads, CopyHits(t) PROVE CounterInv'
  BY <1>15 DEF CopyHits, Goto
<1>16. ASSUME NEW t \in Threads, CopyMisses(t) PROVE CounterInv'
  BY <1>16 DEF CopyMisses, Goto
<1>17. CASE UNCHANGED vars
  BY <1>17 DEF vars
<1>18. QED
  BY <1>1, <1>2, <1>3, <1>4, <1>5, <1>6, <1>7, <1>8, <1>9, <1>10, <1>11, <1>12,
       <1>13, <1>14, <1>15, <1>16, <1>17 DEF Next, Proceed, TakeLock

\* An empty cache and zero counters are the service's initial state.
LEMMA RefineInit == Init => Service!Init
BY DEF Init, Zero, CallOf, InStats, Service!Init, Service!Idle

\* Each step is a step of the service or invisible to the callers.
LEMMA RefineStep == IndInv /\ [Next]_vars => [Service!Next]_Service!vars
<1> SUFFICES ASSUME IndInv, [Next]_vars
             PROVE  [Service!Next]_Service!vars
  OBVIOUS
<1> USE DEF IndInv, TypeOK, Steps, CallOf, InStats
<1>1. ASSUME NEW t \in Threads, NEW s \in SQLs, Call(t, s) PROVE
     [Service!Next]_Service!vars
  <2>1. Service!Ask(t, s)
    BY <1>1 DEF Call, Goto, Service!Ask, Service!Idle, Service!Asked
  <2>. QED
    BY <2>1 DEF Service!Next
<1>2. ASSUME NEW t \in Threads, CallStats(t) PROVE [Service!Next]_Service!vars
  <2>1. Service!AskStats(t)
    BY <1>2 DEF CallStats, Goto, Service!AskStats, Service!Idle, Service!AskedStats
  <2>. QED
    BY <2>1 DEF Service!Next
<1>3. ASSUME NEW t \in Threads, LookupRLock(t) PROVE [Service!Next]_Service!vars
  <2>1. UNCHANGED Service!vars
    BY <1>3 DEF LookupRLock, Goto, Service!vars
  <2>. QED
    BY <2>1
<1>4. ASSUME NEW t \in Threads, Lookup(t) PROVE [Service!Next]_Service!vars
  <2>1. UNCHANGED Service!vars
    BY <1>4 DEF Lookup, Goto, Service!vars
  <2>. QED
    BY <2>1
<1>5. ASSUME NEW t \in Threads, LookupRUnlock(t) PROVE [Service!Next]_Service!vars
  <2>1. UNCHANGED Service!vars
    BY <1>5 DEF LookupRUnlock, Goto, Service!vars
  <2>. QED
    BY <2>1
<1>6. ASSUME NEW t \in Threads, LockHit(t) PROVE [Service!Next]_Service!vars
  <2>1. UNCHANGED Service!vars
    BY <1>6 DEF LockHit, Goto, Service!vars
  <2>. QED
    BY <2>1
<1>7. ASSUME NEW t \in Threads, LoadHits(t) PROVE [Service!Next]_Service!vars
  <2>1. UNCHANGED Service!vars
    BY <1>7 DEF LoadHits, Goto, Service!vars
  <2>. QED
    BY <2>1
<1>8. ASSUME NEW t \in Threads, StoreHits(t) PROVE [Service!Next]_Service!vars
  <2>1. pc[t] = "hitStore" /\ sql[t] \in SQLs /\ val[t] = TranslateSQL[sql[t]]
        /\ Service!Known(sql[t])
    BY <1>8 DEF StoreHits, Goto, LocalInv, Hitting, Service!Known
  <2>2. stats' = [stats EXCEPT !.hits = Service!Inc(@)]
    BY <1>8 DEF StoreHits, Goto, CounterInv, Inc, Service!Inc
  <2>3. Service!Answer(t, TranslateSQL[sql[t]])
    BY <1>8, <2>1 DEF StoreHits, Goto, Service!Answer, Service!Answered
  <2>4. Service!Hit(t, sql[t])
    BY <1>8, <2>1, <2>2, <2>3 DEF StoreHits, Service!Hit, Service!Asked
  <2>. QED
    BY <2>1, <2>4 DEF Service!Next, Service!Serve
<1>9. ASSUME NEW t \in Threads, DoTranslate(t) PROVE [Service!Next]_Service!vars
  <2>1. pc[t] = "translate" /\ sql[t] \in SQLs
    BY <1>9 DEF DoTranslate, LocalInv, Translating
  <2>2. CASE TranslateSQL[sql[t]] = Failed
    <3>1. Service!Reject(t, sql[t])
      BY <1>9, <2>1, <2>2 DEF DoTranslate, Service!Reject, Service!Asked,
           Service!Answer, Service!Answered
    <3>. QED
      BY <2>1, <3>1 DEF Service!Next, Service!Serve
  <2>3. CASE TranslateSQL[sql[t]] # Failed
    <3>1. UNCHANGED Service!vars
      BY <1>9, <2>1, <2>3 DEF DoTranslate, Service!vars
    <3>. QED
      BY <3>1
  <2>. QED
    BY <2>2, <2>3
<1>10. ASSUME NEW t \in Threads, LockMiss(t) PROVE [Service!Next]_Service!vars
  <2>1. UNCHANGED Service!vars
    BY <1>10 DEF LockMiss, Goto, Service!vars
  <2>. QED
    BY <2>1
<1>11. ASSUME NEW t \in Threads, StoreText(t) PROVE [Service!Next]_Service!vars
  <2>1. UNCHANGED Service!vars
    BY <1>11 DEF StoreText, Goto, Service!vars
  <2>. QED
    BY <2>1
<1>12. ASSUME NEW t \in Threads, StoreMisses(t) PROVE [Service!Next]_Service!vars
  <2>1. pc[t] = "missStore" /\ sql[t] \in SQLs /\ val[t] = TranslateSQL[sql[t]]
        /\ val[t] # Failed /\ <<t, sql[t]>> \notin missedBy
    BY <1>12 DEF StoreMisses, Goto, LocalInv, Translating
  <2>2. stats' = [stats EXCEPT !.misses = @ + 1]
    BY <1>12 DEF StoreMisses, Goto, CounterInv
  <2>3. Service!Answer(t, TranslateSQL[sql[t]])
    BY <1>12, <2>1 DEF StoreMisses, Goto, Service!Answer, Service!Answered
  <2>4. Service!Miss(t, sql[t])
    BY <1>12, <2>1, <2>2, <2>3 DEF StoreMisses, Service!Miss, Service!Asked
  <2>. QED
    BY <2>1, <2>4 DEF Service!Next, Service!Serve
<1>13. ASSUME NEW t \in Threads, Return(t) PROVE [Service!Next]_Service!vars
  <2>1. Service!Return(t)
    BY <1>13 DEF Return, Service!Return, Service!Idle
  <2>. QED
    BY <2>1 DEF Service!Next, Service!Serve
<1>14. ASSUME NEW t \in Threads, StatsRLock(t) PROVE [Service!Next]_Service!vars
  <2>1. UNCHANGED Service!vars
    BY <1>14 DEF StatsRLock, Goto, Service!vars
  <2>. QED
    BY <2>1
<1>15. ASSUME NEW t \in Threads, CopyHits(t) PROVE [Service!Next]_Service!vars
  <2>1. UNCHANGED Service!vars
    BY <1>15 DEF CopyHits, Goto, Service!vars
  <2>. QED
    BY <2>1
<1>16. ASSUME NEW t \in Threads, CopyMisses(t) PROVE [Service!Next]_Service!vars
  <2>1. pc[t] = "statsMisses" /\ reg[t] = stats.hits
    BY <1>16 DEF CopyMisses, Goto, CounterInv
  <2>2. snap' = [snap EXCEPT ![t] = stats]
    BY <1>16, <2>1 DEF CopyMisses, Counters
  <2>3. Service!Report(t)
    BY <1>16, <2>1, <2>2 DEF CopyMisses, Goto, Service!Report,
         Service!AskedStats, Service!Answer, Service!Answered
  <2>. QED
    BY <2>3 DEF Service!Next, Service!Serve
<1>17. CASE UNCHANGED vars
  BY <1>17 DEF vars, Service!vars
<1>18. QED
  BY <1>1, <1>2, <1>3, <1>4, <1>5, <1>6, <1>7, <1>8, <1>9, <1>10, <1>11, <1>12,
       <1>13, <1>14, <1>15, <1>16, <1>17 DEF Next, Proceed, TakeLock

\* NewTranslator establishes the invariant.
LEMMA InitIndInv == Init => IndInv
<1> SUFFICES ASSUME Init PROVE IndInv
  OBVIOUS
<1> USE NoThreadAssumption, HitRangeAssumption DEF Init
<1>1. TypeOK
  BY DEF TypeOK, Free, Mutexes, Zero, Counters, Steps
<1>2. LockInv
  BY DEF LockInv, Free, HoldsRead, HoldsWrite
<1>3. CacheInv
  BY DEF CacheInv, CacheCoherent, MissedOrStored
<1>4. LocalInv
  BY DEF LocalInv, Translating, Hitting
<1>5. CounterInv
  BY FS_EmptySet DEF CounterInv, HitsExact, MissesExact, Zero
<1>. QED
  BY <1>1, <1>2, <1>3, <1>4, <1>5 DEF IndInv

\* What holds at each point of Translate and Stats holds in every reachable
\* state, for any number of goroutines and statements.
THEOREM Inductive == Spec => []IndInv
<1>1. IndInv /\ [Next]_vars => IndInv'
  BY TypeStep, LockStep, CacheStep, LocalStep, CounterStep DEF IndInv
<1>. QED
  BY InitIndInv, <1>1, PTL DEF Spec

\* Every variable keeps its type; in particular only texts reach the cache.
THEOREM TypeCorrect == Spec => []TypeOK
BY Inductive, PTL DEF IndInv

\* t.mu excludes a writer of the cache or the counters from everyone else.
THEOREM RaceFreedom == Spec => []NoDataRace
<1>1. IndInv => NoDataRace
  BY NoThreadAssumption DEF IndInv, LockInv, NoDataRace, Reading, Writing,
       MayRead, MayWrite, HoldsRead, HoldsWrite
<1>. QED
  BY Inductive, <1>1, PTL

\* A cached text is the translation of its own statement.
THEOREM Coherence == Spec => []CacheCoherent
<1>1. IndInv => CacheCoherent
  BY DEF IndInv, CacheInv
<1>. QED
  BY Inductive, <1>1, PTL

\* Translate answers with the translation of the statement it was asked for,
\* whoever filled the cache.
THEOREM Answers == Spec => []AnswerCorrect
<1>1. IndInv => AnswerCorrect
  BY DEF IndInv, LocalInv, AnswerCorrect
<1>. QED
  BY Inductive, <1>1, PTL

\* No increment of Hits is lost.
THEOREM ExactHits == Spec => []HitsExact
<1>1. IndInv => HitsExact
  BY DEF IndInv, CounterInv
<1>. QED
  BY Inductive, <1>1, PTL

\* No increment of Misses is lost either, and Misses is the number of pairs of
\* a goroutine and a statement it translated.
THEOREM ExactMisses == Spec => []MissesExact
<1>1. IndInv => MissesExact
  BY DEF IndInv, CounterInv
<1>. QED
  BY Inductive, <1>1, PTL

\* However goroutines race to translate the same statement, an entry of the
\* cache is never dropped and never changes.
THEOREM EntriesKept == Spec => CacheKept
<1>1. ASSUME IndInv, [Next]_vars
      PROVE  [\A s \in SQLs : cache[s] # Absent => cache'[s] = cache[s]]_cache
  <2>1. ASSUME NEW t \in Threads, StoreText(t), NEW s \in SQLs, cache[s] # Absent
        PROVE  cache'[s] = cache[s]
    <3>1. cache[s] = TranslateSQL[s]
      BY <1>1, <2>1 DEF IndInv, CacheInv, CacheCoherent
    <3>2. val[t] = TranslateSQL[sql[t]]
      BY <1>1, <2>1 DEF IndInv, LocalInv, StoreText, Goto
    <3>. QED
      BY <1>1, <2>1, <3>1, <3>2 DEF StoreText, IndInv, TypeOK
  <2>2. UNCHANGED cache \/ \E t \in Threads : StoreText(t)
    BY <1>1 DEF Next, Proceed, TakeLock, vars, Call, CallStats, LookupRLock,
         Lookup, LookupRUnlock, LockHit, LoadHits, StoreHits, DoTranslate,
         LockMiss, StoreMisses, Return, StatsRLock, CopyHits, CopyMisses
  <2>. QED
    BY <2>1, <2>2
<1>. QED
  BY Inductive, <1>1, PTL DEF Spec, CacheKept

\* The locked cache implements the atomic service of TranslatorSpec.
THEOREM Refinement == Spec => ImplementsService
BY RefineInit, RefineStep, Inductive, PTL
   DEF Spec, ImplementsService, Service!Spec
=============================================================================
