------------------------------ MODULE EntryOps ------------------------------
(***************************************************************************)
(* What one call of the store does to the entry of its key, and what it    *)
(* returns, when it runs alone.                                            *)
(***************************************************************************)
EXTENDS Entry

Absent == [value |-> Nil, version |-> 0]

\* The guards of a write fail on the entry x.
GuardFails(x, c) ==
    \/ c.ifAbsent /\ x # Absent
    \/ c.ifVersion # Nil /\ (x = Absent \/ c.ifVersion # x.version)

\* The entry a write that passes its guards leaves behind.
Written(x, c) ==
    IF x = Absent
    THEN [value |-> c.body, version |-> FirstVersion]
    ELSE [value |-> Compute(x.value, c), version |-> x.version + 1]

\* What a call does to the entry of its key, and what it returns.
Effect(x, c) ==
    IF c.kind = "write" /\ ~ConflictingGuards(c) /\ ~GuardFails(x, c)
    THEN Written(x, c) ELSE x

Outcome(x, c) ==
    IF c.kind = "get"
    THEN IF x = Absent THEN Result("notFound", Nil, 0)
         ELSE Result("ok", x.value, x.version)
    ELSE IF ConflictingGuards(c) THEN Result("conflict", Nil, 0)
    ELSE IF GuardFails(x, c) THEN Result("mismatch", Nil, x.version)
    ELSE Result("ok", Written(x, c).value, Written(x, c).version)
=============================================================================
