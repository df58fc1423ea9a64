------------------------------ MODULE Patching ------------------------------
(***************************************************************************)
(* The value of one key under a sequence of PUTs and PATCHes: the text the *)
(* store keeps (store.go, Write and compute) beside the document the API   *)
(* says it stands for.  Bodies are texts that passed json.Valid.           *)
(***************************************************************************)
EXTENDS JsonMerge

CONSTANTS Body, Nil

\* Objects nest two deep.
ASSUME PatchingAssumption ==
    Body \subseteq Texts(Texts(Texts({}))) /\ Nil \notin Texts(Texts(Texts({})))

VARIABLES
    stored,     \* the stored text, or Nil before the first write
    doc,        \* the document a client expects to read
    lost,       \* the delta of a PATCH that took effect and whose answer was lost, or Nil
    changed     \* history: the parts of the document that other writes have changed since

vars == <<stored, doc, lost, changed>>

\* What a text means: an object is a map from its fields to what their texts mean,
\* and of two members with one name the last counts (test-plan.md, R9).  Texts of
\* this model nest objects two deep.
MeaningOfMember(raw) ==
    [object |-> raw.kind = "object", tok |-> raw.tok,
     fields |-> [f \in FieldsOf(raw) |-> Unmarshal(raw).map[f].tok]]
Meaning(raw) ==
    [object |-> raw.kind = "object", tok |-> raw.tok,
     fields |-> [f \in FieldsOf(raw) |-> MeaningOfMember(Unmarshal(raw).map[f])]]

\* The PATCH rules on documents.
Patched(d, delta) ==
    IF d.object /\ delta.object
    THEN [object |-> TRUE, tok |-> d.tok,
          fields |-> [f \in DOMAIN d.fields \cup DOMAIN delta.fields |->
                         IF f \in DOMAIN delta.fields THEN delta.fields[f] ELSE d.fields[f]]]
    ELSE delta

\* The parts in which two documents differ: fields, and as Nil what the document is
\* apart from its fields.
Agree(d, e, f) ==
    /\ f \in DOMAIN d.fields <=> f \in DOMAIN e.fields
    /\ f \in DOMAIN d.fields => d.fields[f] = e.fields[f]
Diff(d, e) ==
    {f \in DOMAIN d.fields \cup DOMAIN e.fields : ~Agree(d, e, f)}
    \cup {x \in {Nil} : d.object # e.object \/ d.tok # e.tok}

Init == stored = Nil /\ doc = Nil /\ lost = Nil /\ changed = {}

\* ModeReplace: the body is stored as it came (clone).
Replace(body) ==
    /\ stored' = body
    /\ doc' = Meaning(body)

\* ModeMerge: the first write creates the key with the delta itself.
Merge(body) ==
    /\ stored' = IF stored = Nil THEN body ELSE Apply(stored, body)
    /\ doc' = IF stored = Nil THEN Meaning(body) ELSE Patched(doc, Meaning(body))

\* A write of somebody else than the client that misses an answer.
Elsewhere ==
    /\ changed' = IF lost = Nil THEN {} ELSE changed \cup Diff(doc, doc')
    /\ UNCHANGED lost

Put(body)   == Replace(body) /\ Elsewhere
Patch(body) == Merge(body) /\ Elsewhere

\* A PATCH takes effect and its client does not learn of it.
PatchUnanswered(body) ==
    /\ Merge(body)
    /\ lost' = body /\ changed' = {}

\* The client sends it again, although others may have written since.
Retry ==
    /\ lost # Nil /\ UNCHANGED lost
    /\ changed' = {}
    /\ Merge(lost)

Next ==
    \/ \E body \in Body : Put(body) \/ Patch(body) \/ PatchUnanswered(body)
    \/ Retry

Spec == Init /\ [][Next]_vars
-----------------------------------------------------------------------------
\* However many merges it went through, the stored text means what the PATCH rules
\* say: shallow, the delta wins, null is a value and not an object, and white space,
\* member order and repeated members make no difference.
TextMeansDocument == stored # Nil => Meaning(stored) = doc

\* A client that repeats a PATCH whose answer it never saw undoes what others have
\* changed since, in the fields the PATCH names (README: "a client's retry can
\* double-apply"; nodecaller.go leaves it to the client).  It does no more than that:
\* what nobody has changed since the PATCH took effect stays as it is.  In particular
\* the merge is idempotent: a repetition with no change in between has no effect.
RetryOnlyUndoes ==
    [][Retry => Diff(doc, Meaning(stored')) \subseteq changed]_vars

\* A PATCH of an object by an object never takes a field away; a null field in the
\* delta sets the field to null (merge.go, ruling R1).
PatchKeepsFields ==
    [][(/\ stored # Nil /\ stored.kind = "object"
        /\ ~(FieldsOf(stored) \subseteq FieldsOf(stored')))
         => \A body \in Body : body.kind = "object" => ~Merge(body)]_vars
=============================================================================
