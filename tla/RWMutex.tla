------------------------------ MODULE RWMutex ------------------------------
(***************************************************************************)
(* Go's sync.RWMutex, as the goroutines that share a Translator use it.    *)
(*                                                                         *)
(* The lock is a record: "readers" hold it for reading, "parked" readers   *)
(* asked for it while a writer was announced, and "writer" holds the inner *)
(* mutex: it has announced itself and may write as soon as the readers     *)
(* that came before it have left.  A reader that comes later parks, so a   *)
(* writer waits for finitely many readers only; Unlock hands the lock to   *)
(* every parked reader at once.                                            *)
(***************************************************************************)
CONSTANTS Threads,   \* the goroutines
          NoThread   \* "no writer is announced"

ASSUME NoThreadAssumption == NoThread \notin Threads

Mutexes == [readers : SUBSET Threads,
            parked  : SUBSET Threads,
            writer  : Threads \cup {NoThread}]

Free == [readers |-> {}, parked |-> {}, writer |-> NoThread]

RLock(m, t) == IF m.writer = NoThread
               THEN [m EXCEPT !.readers = @ \cup {t}]
               ELSE [m EXCEPT !.parked  = @ \cup {t}]

RUnlock(m, t) == [m EXCEPT !.readers = @ \ {t}]

MayRead(m, t) == t \in m.readers

\* The inner mutex is free: a call of Lock can announce a writer.
MayAnnounce(m) == m.writer = NoThread

Announce(m, t) == [m EXCEPT !.writer = t]

MayWrite(m, t) == m.writer = t /\ m.readers = {}

Unlock(m) == [readers |-> m.readers \cup m.parked,
              parked  |-> {},
              writer  |-> NoThread]
=============================================================================
