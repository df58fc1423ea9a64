-------------------------------- MODULE Node --------------------------------
(***************************************************************************)
(* internal/node: what a node makes of one request for a key, in the       *)
(* service (service.go) and in the HTTP handlers around it (handler.go).   *)
(* Neither keeps any state of its own: a request is refused by the first   *)
(* check it fails, or it becomes exactly one call of the store.            *)
(*                                                                         *)
(* A request is a record with the fields method, key and body, and the     *)
(* values of the query parameters ifVersion and ifAbsent in the order they *)
(* were given.  A text that does not parse is Bad.  The configuration nd   *)
(* of a node has its partitionCount and the range it owned.                *)
(***************************************************************************)
EXTENDS EntryOps, Routing, FiniteSetsExt

CONSTANTS
    Hash,                   \* Hash[k]: the 64-bit hash of k
    TooLong,                \* the keys longer than MAX_KEY_BYTES
    TooLarge, NotJSON,      \* bodies over MAX_VALUE_BYTES; bodies that do not parse
    Unset, Bad              \* a header that is not sent; a text that does not parse

\* The requests, with any method, that a client can make for a key.
Requests == [method : STRING, key : Key, body : Value \cup TooLarge \cup NotJSON,
             ifVersion : Seq(Nat \cup {Bad}), ifAbsent : Seq(BOOLEAN \cup {Bad})]

Methods == {"GET", "PUT", "PATCH"}      \* the mux has handlers for these

\* parseGuards: the guards a request carries, and whether they are accepted.
IfVersion(r) == IF r.ifVersion = <<>> THEN Nil ELSE r.ifVersion[1]
IfAbsent(r)  == r.ifAbsent # <<>> /\ r.ifAbsent[1] = TRUE

\* Mutant: of a parameter given more than once the first is taken.
FirstGuardCounts(r) ==
    /\ r.ifVersion # <<>> => r.ifVersion[1] # Bad
    /\ r.ifAbsent # <<>> => r.ifAbsent[1] # Bad
    /\ ~(IfAbsent(r) /\ IfVersion(r) # Nil)

GuardsParse(r) ==
    /\ Len(r.ifVersion) <= 1 /\ IfVersion(r) # Bad
    /\ Len(r.ifAbsent) <= 1 /\ Bad \notin {r.ifAbsent[i] : i \in DOMAIN r.ifAbsent}
    /\ ~(IfAbsent(r) /\ IfVersion(r) # Nil)

\* The checks, each with the status that answers a request which fails it.
Check(fails, status) == [fails |-> fails, status |-> status]

\* CheckPartitionCount of the service, and the handler's check around it: the
\* count the caller hashed with, if it sends one.
PartitionCountDiffers(nd, theirs) == theirs # 0 /\ theirs # nd.partitionCount

CheckPartitionCount(nd, count) ==
    <<Check(count = Bad, 400),
      Check(count \notin {Unset, Bad} /\ PartitionCountDiffers(nd, count), 421)>>

\* Mutant: a node takes keys of every partition.
CheckKeyLength(nd, k) == <<Check(k \in TooLong, 414)>>

\* checkKey.  The mux never matches an empty key, so that check is not here.
CheckKey(nd, k) ==
    <<Check(k \in TooLong, 414),
      Check(~Contains(nd.owned, Partition(Hash[k], nd.partitionCount)), 421)>>

\* The order in which a request is checked: by get,
GetChecks(nd, r, count) == CheckPartitionCount(nd, count) \o CheckKey(nd, r.key)

\* by Service.Write,
ServiceChecks(nd, r) ==
    CheckKey(nd, r.key) \o <<Check(r.body \in TooLarge, 413), Check(r.body \in NotJSON, 400)>>

\* by write before it calls Service.Write (its 400 for a body that cannot be read answers
\* a connection that broke, so nobody sees it: that message is one never handled),
WriteChecks(nd, r, count) ==
    CheckPartitionCount(nd, count)
    \o <<Check(~GuardsParse(r), 400), Check(r.body \in TooLarge, 413)>>
    \o ServiceChecks(nd, r)

\* and by the mux before all of them.
Checks(nd, r, count) ==
    IF r.method \notin Methods THEN <<Check(TRUE, 405)>>
    ELSE IF r.method = "GET" THEN GetChecks(nd, r, count)
    ELSE WriteChecks(nd, r, count)

Failed(checks) == {i \in DOMAIN checks : checks[i].fails}
Accepts(nd, r, count) == Failed(Checks(nd, r, count)) = {}

\* put and patch.
Mode(r) == IF r.method = "PATCH" THEN "merge" ELSE "replace"

\* The call of the store that an accepted request becomes.
Call(r) ==
    [kind |-> IF r.method = "GET" THEN "get" ELSE "write",
     key |-> r.key, body |-> r.body, mode |-> Mode(r),
     ifVersion |-> IfVersion(r), ifAbsent |-> IfAbsent(r)]

\* An answer: its status and what its body says; whole until it is cut on its way.
Answer(status, value, version) ==
    [status |-> status, value |-> value, version |-> version, whole |-> TRUE]
Bare(status) == Answer(status, Nil, Nil)

\* Mutant: the 409 of an absent key says version 0, as if there were one.
ErrorAnswerWithZero(res) ==
    CASE res.status = "mismatch" -> Answer(409, Nil, res.version)
      [] res.status = "notFound" -> Bare(404)
      [] res.status = "conflict" -> Bare(400)

\* writeError.  The version of an absent key, 0, is left out of the body.
ErrorAnswer(res) ==
    CASE res.status = "mismatch" -> Answer(409, Nil, IF res.version = 0 THEN Nil
                                                    ELSE res.version)
      [] res.status = "notFound" -> Bare(404)
      [] res.status = "conflict" -> Bare(400)

\* What the node answers to r when the entry of r's key is x.
Respond(nd, x, r, count) ==
    IF Accepts(nd, r, count)
    THEN LET res == Outcome(x, Call(r)) IN
         IF res.status = "ok" THEN Answer(200, res.value, res.version)
         ELSE ErrorAnswer(res)
    ELSE LET checks == Checks(nd, r, count) IN Bare(checks[Min(Failed(checks))].status)

\* The entry it leaves behind.
After(nd, x, r, count) == IF Accepts(nd, r, count) THEN Effect(x, Call(r)) ELSE x
=============================================================================
