------------------------------ MODULE RWMutex ------------------------------
(***************************************************************************)
(* sync.RWMutex of the Go standard library, as internal/store uses it      *)
(* (store.go, the mu fields of entry and of partition).  The mutex is not  *)
(* part of the repository; this is what its documentation promises:        *)
(*                                                                         *)
(*   - Lock first announces the writer, which stops new readers, and then  *)
(*     waits for the readers that are already inside;                      *)
(*   - RLock succeeds at once unless a writer is announced, and otherwise  *)
(*     waits until that writer unlocks;                                    *)
(*   - Unlock hands the lock to every reader that was waiting.             *)
(*                                                                         *)
(* A mutex is a record: the announced or holding writer (Nil if none), the *)
(* goroutines that hold it for reading, and those blocked in RLock.        *)
(***************************************************************************)
CONSTANT Nil

RWMutexes(P) == [writer : P \cup {Nil}, readers : SUBSET P, blocked : SUBSET P]

Unlocked == [writer |-> Nil, readers |-> {}, blocked |-> {}]

\* Goroutine g announces itself as the writer; it needs no other announced one.
CanAnnounce(mu, g) == mu.writer \in {Nil, g}
Announce(mu, g) ==
    [writer |-> g, readers |-> mu.readers, blocked |-> mu.blocked]

\* The announced writer is alone once the readers have left.
Drained(mu) == mu.readers = {}

\* Goroutine g calls RLock, or polls a call that is already blocked.
RLock(mu, g) ==
    IF mu.writer = Nil \/ g \in mu.readers
    THEN [writer |-> mu.writer, readers |-> mu.readers \cup {g},
          blocked |-> mu.blocked]
    ELSE [writer |-> mu.writer, readers |-> mu.readers,
          blocked |-> mu.blocked \cup {g}]

RUnlock(mu, g) ==
    [writer |-> mu.writer, readers |-> mu.readers \ {g}, blocked |-> mu.blocked]

Unlock(mu) == [writer |-> Nil, readers |-> mu.blocked, blocked |-> {}]
=============================================================================
