------------------------------- MODULE Entry -------------------------------
(***************************************************************************)
(* The vocabulary of internal/store (entry.go): what a caller asks of the  *)
(* store and what it gets back.                                            *)
(***************************************************************************)
EXTENDS Naturals

CONSTANTS
    Key, Value,     \* keys, and the JSON texts that can be stored
    Nil,            \* Go's nil
    Merge(_, _)     \* jsonmerge.Apply(current, delta)

\* Version 0 never exists in the store: it means absent.
FirstVersion == 1

\* A Get or a WriteOp, in one shape; a Get ignores all but the key.  ifVersion is
\* Nil when the write is unconditional.
Calls == [kind : {"get", "write"}, key : Key, body : Value,
          mode : {"replace", "merge"}, ifVersion : Nat \cup {Nil},
          ifAbsent : BOOLEAN]

\* A result is a snapshot (ok), absence (notFound), a VersionMismatchError with
\* the key's current version (mismatch), or ErrConflictingGuards (conflict).
Statuses == {"none", "pending", "ok", "notFound", "mismatch", "conflict"}
Results  == [status : Statuses, value : Value \cup {Nil}, version : Nat]
Result(s, v, n) == [status |-> s, value |-> v, version |-> n]
NoResult == Result("none", Nil, 0)
Pending  == Result("pending", Nil, 0)

\* The test at the head of Write.
ConflictingGuards(c) == c.ifAbsent /\ c.ifVersion # Nil

\* The value a write leaves in an entry that has the value `current`.
Compute(current, c) == IF c.mode = "merge" THEN Merge(current, c.body) ELSE c.body
=============================================================================
