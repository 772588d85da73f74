------------------------ MODULE TranslatorRefinement ------------------------
(***************************************************************************)
(* The Translator implements TranslatorSpec.  A call takes effect when it  *)
(* releases the write lock (hit, miss), when translateSQL fails, or when   *)
(* Stats copies the second counter.                                        *)
(***************************************************************************)
EXTENDS Translator

InStats == {"statsRLock", "statsHits", "statsMisses"}

CallOf(t) ==
    CASE pc[t] = "idle"        -> [phase |-> "idle"]
      [] pc[t] = "return"      -> [phase |-> "answered", answer |-> val[t]]
      [] pc[t] = "statsReturn" -> [phase |-> "answered", answer |-> snap[t]]
      [] pc[t] \in InStats     -> [phase |-> "askedStats"]
      [] OTHER                 -> [phase |-> "asked", sql |-> sql[t]]

Service == INSTANCE TranslatorSpec WITH call <- [t \in Threads |-> CallOf(t)]

\* Every behaviour of the locked cache is one of the atomic service: each
\* answer of Translate and each snapshot of Stats is explained by a single
\* instant between the call and its return (translator.go, Translate, Stats).
ImplementsService == Service!Spec

\* Under the fairness of the scheduler and of sync.Mutex the service is live:
\* every call of Translate or Stats is answered and returns.
ImplementsLiveService == Service!FairSpec
=============================================================================
