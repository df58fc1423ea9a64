----------------------------- MODULE JsonMerge -----------------------------
(***************************************************************************)
(* internal/jsonmerge: the PATCH rules, as a pure function on JSON texts.  *)
(*                                                                         *)
(* A JSON text is a record:                                                *)
(*   ws      - it is written with white space, before or inside it;        *)
(*   kind    - "object", "null" or "other" (array, string, number, bool),  *)
(*             the distinction asObject makes;                             *)
(*   tok     - which text it is, when it is not an object;                 *)
(*   members - the members of an object in the order they are written, a   *)
(*             sequence of <<field, text>>.  A field may occur twice.      *)
(*                                                                         *)
(* Fields are natural numbers in the byte order of their names, the order  *)
(* json.Marshal writes a map in.                                           *)
(***************************************************************************)
EXTENDS Naturals, Sequences, FiniteSets

Object(members) == [ws |-> FALSE, kind |-> "object", tok |-> "{}", members |-> members]
Other(t)        == [ws |-> FALSE, kind |-> "other", tok |-> t, members |-> <<>>]
Null            == [ws |-> FALSE, kind |-> "null", tok |-> "null", members |-> <<>>]
Spaced(raw)     == [raw EXCEPT !.ws = TRUE]

\* The texts whose objects have members from Inner.
Texts(Inner) ==
    [ws : BOOLEAN, kind : {"object"}, tok : {"{}"}, members : Seq(Nat \X Inner)]
    \cup [ws : BOOLEAN, kind : {"null", "other"}, tok : STRING, members : {<<>>}]

FieldsOf(raw) == {raw.members[i][1] : i \in DOMAIN raw.members}

\* json.Unmarshal into map[string]json.RawMessage: the last of several members
\* with one name wins, member texts are kept as they are written, and null
\* decodes, without error, to a nil map.
Unmarshal(raw) ==
    [ok  |-> raw.kind \in {"object", "null"},
     map |-> [f \in FieldsOf(raw) |->
                 raw.members[CHOOSE i \in DOMAIN raw.members :
                                /\ raw.members[i][1] = f
                                /\ \A j \in DOMAIN raw.members :
                                      raw.members[j][1] = f => j <= i][2]]]

NoMap == [f \in {} |-> Null]

\* Mutant: asObject without the test of the first byte: null passes for an object.
AsObjectByDecoding(raw) == Unmarshal(raw)

\* asObject tests the first byte after leading white space, then decodes.
AsObject(raw) ==
    IF raw.kind # "object" THEN [ok |-> FALSE, map |-> NoMap]
    ELSE Unmarshal(raw)

\* json.Marshal of the map: fields in byte order, each member text compacted.
Compact(raw) == [raw EXCEPT !.ws = FALSE]

InByteOrder(fields) ==
    CHOOSE s \in [1..Cardinality(fields) -> fields] :
        \A i, j \in DOMAIN s : i < j => s[i] < s[j]

Marshal(map) ==
    LET s == InByteOrder(DOMAIN map)
    IN  Object([i \in DOMAIN s |-> <<s[i], Compact(map[s[i]])>>])

\* Mutant: the stored field survives.
CurrentWins(cur, delta) ==
    [f \in DOMAIN cur \cup DOMAIN delta |->
        IF f \in DOMAIN cur THEN cur[f] ELSE delta[f]]

\* Mutant: a null in the delta deletes the field.
NullDeletes(cur, delta) ==
    LET gone == {f \in DOMAIN delta : delta[f].kind = "null"}
    IN  [f \in (DOMAIN cur \cup DOMAIN delta) \ gone |->
            IF f \in DOMAIN delta THEN delta[f] ELSE cur[f]]

\* for k, v := range delObj { curObj[k] = v }
Overlay(cur, delta) ==
    [f \in DOMAIN cur \cup DOMAIN delta |->
        IF f \in DOMAIN delta THEN delta[f] ELSE cur[f]]

\* Apply: two objects are merged field by field, anything else is replaced by
\* the delta as it was written (clone).
Apply(current, delta) ==
    LET cur == AsObject(current)
        del == AsObject(delta)
    IN  IF ~cur.ok \/ ~del.ok THEN delta
        ELSE Marshal(Overlay(cur.map, del.map))
=============================================================================
