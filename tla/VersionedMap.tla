---------------------------- MODULE VersionedMap ----------------------------
(***************************************************************************)
(* What internal/store promises its callers (entry.go and the comments on  *)
(* Store): a map from keys to values and versions on which every Get and   *)
(* every Write takes effect at one instant between its call and its        *)
(* return.  There are no locks here, no pointers and no partitions.        *)
(***************************************************************************)
EXTENDS EntryOps

CONSTANTS
    Proc,           \* the goroutines that call the store
    Workload        \* Workload[g]: the calls goroutine g may make

VARIABLES
    db,     \* db[k]: the value and the version of k; version 0 is absent
    call,   \* call[g]: the last call g made
    res     \* res[g]: its result, or Pending until it has taken effect

vars == <<db, call, res>>

-----------------------------------------------------------------------------
Init == /\ db   = [k \in Key |-> Absent]
        /\ call = [g \in Proc |-> Nil]
        /\ res  = [g \in Proc |-> NoResult]

Invoke(g) ==
    /\ res[g] # Pending
    /\ \E c \in Workload[g] : call' = [call EXCEPT ![g] = c]
    /\ res' = [res EXCEPT ![g] = Pending]
    /\ UNCHANGED db

TakeEffect(g) ==
    LET k == call[g].key IN
    /\ res[g] = Pending
    /\ db'  = [db EXCEPT ![k] = Effect(@, call[g])]
    /\ res' = [res EXCEPT ![g] = Outcome(db[k], call[g])]
    /\ UNCHANGED call

Next == \E g \in Proc : Invoke(g) \/ TakeEffect(g)

Spec == Init /\ [][Next]_vars
=============================================================================
