--------------------------- MODULE TranslatorSpec ---------------------------
(***************************************************************************)
(* What a Translator promises to the goroutines that share it, with no     *)
(* lock, no register and no cache lookup: a call is asked, answered in one *)
(* atomic step, and returned.                                              *)
(*                                                                         *)
(* A statement is answered as a hit only after some goroutine's miss on it *)
(* was counted.  A goroutine may miss on a statement that others have      *)
(* already translated (they raced), but never twice on the same one.       *)
(***************************************************************************)
EXTENDS Naturals

CONSTANTS Threads, SQLs, Texts, Failed, TranslateSQL, HitRange

VARIABLES call,     \* the call each goroutine is in
          stats,    \* what Stats would report now
          missedBy  \* <<t, s>>: goroutine t was answered s as a miss

vars == <<call, stats, missedBy>>

Idle        == [phase |-> "idle"]
Asked(s)    == [phase |-> "asked", sql |-> s]
AskedStats  == [phase |-> "askedStats"]
Answered(a) == [phase |-> "answered", answer |-> a]

Inc(n) == IF n + 1 = HitRange THEN 0 ELSE n + 1

Known(s) == \E u \in Threads : <<u, s>> \in missedBy

Init == /\ call = [t \in Threads |-> Idle]
        /\ stats = [hits |-> 0, misses |-> 0]
        /\ missedBy = {}

Ask(t, s) == /\ call[t] = Idle
             /\ call' = [call EXCEPT ![t] = Asked(s)]
             /\ UNCHANGED <<stats, missedBy>>

AskStats(t) == /\ call[t] = Idle
               /\ call' = [call EXCEPT ![t] = AskedStats]
               /\ UNCHANGED <<stats, missedBy>>

Answer(t, a) == call' = [call EXCEPT ![t] = Answered(a)]

Hit(t, s) == /\ call[t] = Asked(s)
             /\ Known(s)
             /\ Answer(t, TranslateSQL[s])
             /\ stats' = [stats EXCEPT !.hits = Inc(@)]
             /\ UNCHANGED missedBy

Miss(t, s) == /\ call[t] = Asked(s)
              /\ TranslateSQL[s] # Failed
              /\ <<t, s>> \notin missedBy
              /\ Answer(t, TranslateSQL[s])
              /\ stats' = [stats EXCEPT !.misses = @ + 1]
              /\ missedBy' = missedBy \cup {<<t, s>>}

Reject(t, s) == /\ call[t] = Asked(s)
                /\ TranslateSQL[s] = Failed
                /\ Answer(t, Failed)
                /\ UNCHANGED <<stats, missedBy>>

Report(t) == /\ call[t] = AskedStats
             /\ Answer(t, stats)
             /\ UNCHANGED <<stats, missedBy>>

Return(t) == /\ call[t].phase = "answered"
             /\ call' = [call EXCEPT ![t] = Idle]
             /\ UNCHANGED <<stats, missedBy>>

Serve(t) == \/ \E s \in SQLs : Hit(t, s) \/ Miss(t, s) \/ Reject(t, s)
            \/ Report(t)
            \/ Return(t)

Next == \E t \in Threads : \/ \E s \in SQLs : Ask(t, s)
                           \/ AskStats(t)
                           \/ Serve(t)

Spec == Init /\ [][Next]_vars

FairSpec == Spec /\ \A t \in Threads : WF_vars(Serve(t))
=============================================================================
