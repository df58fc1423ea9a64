# A verification of coda-kv-store in TLA+

coda-kv-store is an in-memory key/value store with versioned JSON values. A *node*
serves GET, PUT and PATCH on the keys of the partitions it owns; a *proxy* forwards
each request to the owning node and merges the nodes' key listings. This directory
models the parts of it that are hard to test, checks them with TLC and proves the
most important results with TLAPS. Paths below are relative to the repository.

## 1. The system

| Component | Source | State | Operations |
|---|---|---|---|
| Store | `internal/store/store.go`, `entry.go` | partitions (a map and an RWMutex each), entries (value, version and an RWMutex each) | `Get`, `Write`, `Keys`, `Len` |
| PATCH rules | `internal/jsonmerge/merge.go` | none | `Apply` |
| Routing | `internal/routing/routing.go` | the proxy's table | `Partition`, `RangeFor`, `NewTable`, `NodeFor`, `ParseRange` |
| Configuration | `internal/config/config.go` | none | `LoadNode`, `LoadProxy` |
| Binaries | `cmd/node`, `cmd/proxy` | the process | start, drain and stop on a signal |
| Node service and handler | `internal/node/*.go` | none beyond the store | validation, ownership and partition-count checks, guards, status codes, key listing |
| Proxy | `internal/proxy/*.go` | none beyond the table | `route`, `listKeys` (fan-out), `/routing` |
| Clients | `test/conformance/suite.go` | a counter being incremented | compare-and-set loop with `ifVersion` and `ifAbsent` |

**Interaction.** Handlers of one node run concurrently and share the store; each calls
`Get` or `Write` once and never reads, decides and writes back. A write takes the
partition's lock only to find or insert an entry and the entry's lock for everything
else, so the pointer to an entry is carried across a gap in which no lock is held. The
proxy and the nodes share no state: each computes the partitioning from its own
environment with the same `RangeFor`, the proxy sends its partition count along, and a
node refuses (421) keys outside its range. The proxy never retries, and what it has sent
it cannot call back: whoever stops waiting leaves a request behind that may still take
effect. A listing has one goroutine per node, all writing to one response.

**What is hard.** Two goroutines creating one key; a pointer used after the lock that
protected its lookup is gone; the guard, the merge and the increment being one step;
value and version being read as a pair; a new entry read without its lock; iteration
under concurrent creation; locks on the early returns of `Write`; processes started
with environments that disagree; the edges of the partition arithmetic; `null` as a
JSON object; requests whose answer is lost, late or cut; requests that outlive the
patience of their proxy and client; nodes that come back empty with versions that start
again; listings that break inside a line. `PROJECT.json` lists these hazards at their
lines with the properties that watch them.

**What makes each component correct.** The store is an atomic versioned map
(`Linearizable`) with no data race, and every call returns. The merge keeps the meaning
of the document. The partitioning gives every partition exactly one owner, and a
disagreeing cluster refuses rather than scatters. A definite answer to a client is true
for good, an indefinite one stands for at most one write, and every request ends. A
counter incremented by the compare-and-set loop is exact up to the increments whose
outcome their clients were not told. A listing has every key that was there throughout,
once, or names the node it has not heard out.

## 2. Modules

| Module | Models | |
|---|---|---|
| `Entry` | `entry.go`, `compute` | what callers ask and get |
| `EntryOps` | the sequential meaning of `Get` and `Write` | effect and outcome of one call on one entry |
| `RWMutex` | `sync.RWMutex` (external) | announced writer, readers, blocked readers |
| `VersionedMap` | the promise of the store | each call takes effect in one step |
| `Store` | `store.go` | one action per lock acquisition or protected access |
| `StoreProofs` | | the locking discipline of `Store` |
| `HistoryProofs` | | what callers of `Get`, `Write`, `Keys` and `Len` see; the refinement of `VersionedMap` |
| `Routing` | `routing.go` | pure operators |
| `Config` | `config.go`, checks of `run` | from an environment to a configuration or a refusal |
| `Deployment` | both `main.go`, the checks on a request's way | processes started and stopped with any environments |
| `DeploymentProofs` | | theorems about `RangeFor` and `Deployment` |
| `JsonMerge` | `merge.go` | JSON texts as records |
| `Patching` | `compute` under a sequence of writes | the text beside the document it should stand for |
| `PatchingProofs` | | theorems about `JsonMerge` and `Patching` |
| `Node` | `node/service.go`, `node/handler.go` | the checks of a request in their order, its answer |
| `Cluster` | `proxy/handler.go` (`route`), `proxy/nodecaller.go`, both `main.go` | requests and answers under way; timeouts, losses, crashes |
| `Sessions` | the client of `suite.go` | any requests against `Cluster`, and what answers mean |
| `ClusterProofs`, `SessionsProofs` | | lemmas about `Node`, `Cluster` and what answers mean; theorems about `Sessions` |
| `Counter`, `CounterProofs` | `IncrementWithIfVersion` of `suite.go` | the compare-and-set loop against `Cluster` |
| `Listing` | `listKeys`, `streamNode`, `LocalKeys`, the node's `listKeys` | the fan-out of `GET /kv` |
| `ListingProofs` | | theorems about `Listing` |
| `MCStore`, `MCDeployment`, `MCPatching`, `MCSessions`, `MCCounter`, `MCListing` | | instances for TLC |

`EntryOps` is used by `VersionedMap`, which `Store` implements, and by `Node`: the cluster
is built on the promise of the store, and the run `store_contended` and the theorem
`StoreIsAtomic` show that the code keeps the promise. `Cluster` extends `Node` and is
extended by `Sessions` and `Counter`, which only differ in what their clients do.

Operators marked "Mutant" change one definition the way a slip in the code would; they
are used by no specification, and each shows that some property notices the slip.

### Store

`pc[g]` is the point in `Get` or `Write` a goroutine has reached (the header of the
module has the list), `call[g]` its arguments, `e[g]` its local variable `e`, `res[g]`
what it returned. `m`, `ent`, `pmu`, `emu` are the maps, the entries' fields and the
mutexes. Each action is one lock acquisition or one access together with the release
that follows it; releasing only enables others, so joining it to the access before it
loses no behaviour of theirs. The assignment of the value and the increment of the
version are two steps (`Guard`, `Bump`), and so are the insertion of an entry and its
snapshot (`Insert`, `Snap`), because those gaps are what the locks are for. No action
assumes that it holds a lock; `NoDataRace` says that it does.

An address of `Ref` may be reused once nothing points to it, as the garbage collector
allows. Keys enter through their hash: `Hash` is a parameter, and with it FNV-1a.
Versions are 64-bit in the code and unbounded here; 2^64 writes of a key are out of
reach. Values are opaque in `Store`; the instance merges them with `JsonMerge`.

The refinement mapping to `VersionedMap` gives a write its effect when the value is
assigned (the version is one ahead until `Bump`) or the entry inserted, and a refusal or
a read when it returns. Aliasing of byte slices (`clone`) is not visible in the model,
where values are values.

### Deployment

An environment is a record of the variables that matter to routing, each unset,
unparsable or a value. `StartNode` and `StartProxy` are `run()` up to serving: the whole
of `LoadNode` or `LoadProxy`, and `NewTable`. `Served(q, h)` follows a request for a key
with hash `h` through `route`, `checkPartitionCount` and `checkKey`. `uint64` has
`Modulus` values. The mask `h & (n-1)` is written as a remainder and the test
`n & (n-1) == 0` as a power of two; `MCDeployment` checks that they agree.

### JsonMerge and Patching

A JSON text keeps what the code can tell apart: its first byte (object, null, other),
the order and repetition of members, and white space. `Unmarshal` and `Marshal` are
external: the last of repeated members wins, and a map is written in byte order.

`doc` is the document that the PATCH rules give, beside the text that the code stores.
`PatchUnanswered` is a PATCH that takes effect while its client gets a 503 or nothing;
`Retry` is that client sending it again, at any later time. `changed` is history: the
fields, or the kind of the document (`Nil`), that other writes have changed in between.
The repository warns of such a repetition (`nodecaller.go:60`, "No idempotency keys" in
its README), and it does undo what others wrote to the fields it names; `RetryOnlyUndoes`
says how far it reaches. It is about writes without a guard: a repetition with the same
`ifVersion` meets the version its first copy made, and is refused.

### Node and Cluster

`Node` has no state. `Checks` is the list of conditions a request is refused for, in the
order in which the mux, `write`, `parseGuards` and the service test them, each with its
status; `Respond` answers with the first that fails or with the outcome of the store's
call. Guards are sequences of query values, because a parameter may be given twice.

A request is one message, `at` the proxy, the node, or on its way back. `via` is the proxy
or node its client talks to, and `open` says that the client still waits along this
connection. A timeout of the proxy's client (`TimeOut`) turns it into a 503 on its way
back and leaves a message that is not open at the node; `GiveUp`, the client's own
timeout or the loss of its connection, leaves one wherever it was. (`Forward` passes the
client's context on, so a request whose client has gone is often cancelled; often is not
always, and the model has both: a message may stay where it is for ever.) A proxy keeps
nothing between requests, so its death is `GiveUp` for each client that waited on it.
`DeliverCut` is the failure of `io.Copy` after `WriteHeader`: `route` copies no
Content-Length and returns normally, so the client gets a complete response with a
shortened body. `Shutdown` is `srv.Shutdown`: no new connections while handlers finish;
`Crash` is the end of the process, in the middle or after draining, and empties the
store; `Restart` is `run()` again.

`log` and `since` are history: who wrote each version, and what a request's key had when
the request was made.

### Sessions and Counter

Both choose a `plan` in the initial state and keep it: which clients ask what of whom, and
which kinds of failure happen. A run is thus several instances in one, and no property
reads the plan but to say under which faults it is promised (`CounterExact` and
`AllCounted`, which a node that loses its store makes impossible, and `RequestsEnd`, which
needs the timeouts). `Counter` follows `IncrementWithIfVersion`
branch by branch; `unsure` counts the increments that returned an error after a PUT which
may have been applied. Its negative control `IncrementWithoutIfVersion` is the mutant
`Put`.

### Listing

`pc[n]` is the goroutine of node `n` in `streamNode`, `pipe[n]` what its node has sent, and
`out` the response as a sequence of texts and newlines, because `writeLine` makes two
writes under the mutex. A stream breaks (`Break`) after any line, or inside one, which then
arrives as a `Fragment`: `bufio.Scanner` delivers what is left before it reports an error.
The order in which a node walks its store is `Store`'s matter; here it lists what it had at
the start, each key once, and perhaps keys created since. `must[n]` is history: the keys
`n` had when its listing was opened.

## 3. Runs

| Run | Instance | Shows |
|---|---|---|
| `store_contended` | 3 goroutines, 1 key, between them every kind of call, versions up to 4 | `Linearizable`, `NoDataRace`, `OneEntryPerKey`, `NoLostUpdate`, `SnapshotsConsistent`, `GuardsHonoured`, `VersionsCountWrites`, `IInv` |
| `store_scan` | 2 writers and a scan, 3 keys in 2 partitions | `KeysComplete`, `LenBounded`, `NoDataRace`, `IInv` |
| `store_liveness` | 2 goroutines and a scan on 1 partition, fair | `CallsReturn` |
| `deployment` | 3 nodes, 2 proxies, 2 to 8 partitions, 15 node and 11 proxy environments | `AgreeingClusterServes`, `OneHome`, `OverrideIsExact`, `DumpIsTrue`, `TypeOK` |
| `deployment_override` | the same with any number in the override | `OverrideIsExact` fails |
| `patching` | 23 bodies, any sequence, one PATCH at a time that is repeated later | `TextMeansDocument`, `RetryOnlyUndoes`, `PatchKeepsFields` |
| `sessions` | 2 clients, 2 nodes, 3 proxies, 4 plans: 21 requests three in a row; 2 writers of a key under timeouts, losses and cuts; the same with a node that drains, dies and restarts; right and wrong proxies with a node that dies | `AnswersAreTrue`, `AppliedOnce`, `ReadsAreFresh`, `EveryGuardHolds`, `ConflictsTellHow`, `RequestsEnd`, `TypeOK` |
| `counter` | 2 clients, one behind a proxy, 3 plans: no failure, timeouts and cuts, a node that dies | `CounterExact`, `AddsOne`, `AllCounted` |
| `listing` | 2 nodes, 3 keys created at any time, streams that break anywhere, a node that hangs or dies and returns | `NothingMissing`, `ListedOnce`, `LinesIntact`, `ListingEnds`, `TypeOK` |
| `listing_final` | one node dies | `ErrorLineIsFinal` fails |
| `listing_fragment` | timeouts, one node dies | `EveryLineParses` fails |
| `listing_deadline` | no node dies, no connection breaks, a third node refuses | `HealthyNodesListed` fails |

**Bounds.** `MaxVersion` stops writers from starting when a key could pass it; four
versions let a guard be stale by more than one write and a key be recreated under a
mutant. Entries of different keys share only their partition's mutex and map, so one key
with three goroutines has all the entry races, and the scan run has keys that share a
partition and keys that do not. Two entry addresses let a mutant create a second one.
Three nodes do not divide four partitions, so remainders occur. Symmetry is used for
addresses only, which no property names.

In `sessions`, three requests in a row reach version 2 with a stale guard behind it; with
two requests each, a client's abandoned request can meet its own next one and the other
client's. Whoever gives up only leaves messages behind, and more of them repeat the same
races. The counter needs two increments of one client, so that a leftover PUT meets a later
one, and `MaxAttempts` 3, which suffices against the two writes of the other (the suite has
500); a node may die and return without limit. The checks of a
request do not depend on failures, so their plan has none. Two lines may be under way from a
node (`Buffer`), so that one arrives and the next is cut.

**Fairness.** `FairSpec` assumes strong fairness of each goroutine that is inside a
call. Strong, because a goroutine that waits to become a mutex's writer finds it free
again and again only in between; `sync.Mutex`, on which `sync.RWMutex` queues its
writers, enters starvation mode after a millisecond and hands the lock to the longest
waiter. An unlocking writer admits every blocked reader in the model as in the library,
so readers need no such assumption. Callers are never assumed to call again. A scan's
consumer is assumed to take the keys it is given.

In `Sessions`, a proxy's handler runs, its client's timeout fires while it waits for a node,
and an answer that is there is delivered; nodes are not assumed to handle anything, so
`RequestsEnd` covers a node that hangs. It needs `REQUEST_TIMEOUT` above 0, since 0 disables
the timeout of an `http.Client`. In `Counter`, `AllCounted` is about an instance in which
nothing fails: clients go on, and requests are forwarded, handled and answered (weak
fairness). In `Listing`, the goroutines are strongly fair, because they wait for a
`sync.Mutex`, and the timeout of each stream weakly; nodes need send nothing. The client of
a listing is assumed to read it.

## 4. Findings

* **OWNED_PARTITIONS wraps.** `ParseRange` adds one to the inclusive bound in a `uint64`
  (`routing.go:124`). For `0-18446744073709551615` the range is `[0, 0)`; `LoadNode`
  compares the wrapped bound with the partition count, accepts it, and the node refuses
  every key with 421 instead of failing to start. The run `deployment` shows that the
  override is exact for the other bounds.
* **The error line is not the last.** `docs/test-plan.md` (K10), `docs/design-refined.md` and
  the comment of the test call the error line of a listing the final line. Each goroutine
  writes its own as soon as its node fails (`proxy/handler.go:128`, `142`), and keys of other
  nodes may follow. A client has to look for it everywhere, which is how the test looks for
  it and `NothingMissing` counts it.
* **Fragments in a listing.** When a node's stream breaks inside a line, the scanner's last
  token is the unfinished line, and `streamNode` writes it out as a line of its own
  (`proxy/handler.go:135`). The API description says that each line is a `KeyLine` or an
  `ErrorLine`; a client that parses line by line, as the suite's does, stops at the fragment
  and does not get to the error line behind it.
* **The timeout cuts long listings.** Both binaries set no WriteTimeout so that a long listing
  is not truncated, but `REQUEST_TIMEOUT` is the `Timeout` of the `http.Client` that reads the
  nodes' listings (`nodecaller.go:43`), and that covers the body.

One disagreement shows in a single call and has no run of its own. `docs/openapi.yaml:48-49`
says that key order is preserved and `docs/openapi.yaml:146` that an empty delta leaves the
value unchanged; `Apply` re-marshals a map (`merge.go:43`), so any PATCH of an object by an
object, `{}` included, puts the members in byte order. The tests of the merge know it
(`merge_test.go:9-12`), the API description does not. `EmptyDeltaSorts` in `MCPatching`,
which TLC evaluates in the run `patching`, states it.

## 5. Proofs

The theorems hold for every value of the constants, under named assumptions that TLC
evaluates in the runs:

* `StoreAssumption`: `Nil` is none of the other values, goroutines that scan are not those
  that write, the partition count is a power of two, `Merge` gives a value, finitely many
  keys.
* `ConfigAssumption`, `DeploymentAssumption`: what an operator can write into an
  environment.
* `ClusterAssumption`: the nodes are the slots of one cluster, so that each key is owned by
  one of them, and each proxy's table names these nodes, whatever partition count it has;
  `StartedSound` and `RangesDisjoint` are why binaries that started satisfy it. `Merge` gives
  a value, and `Nil` and `Bad` are no guards.
* `SessionsAssumption`, `CounterAssumption`: the plans speak of the cluster's nodes and
  proxies, and finitely many clients count. `Methods \subseteq STRING` tells the prover what it cannot see of a literal.
* `ListingAssumption`: each key has an owner, and the buffer has a size.
* `PatchingAssumption`: bodies are JSON texts with objects two deep, as many members as they
  like, in any order and repeated or not; `Nil` is none of them.

Three theorems have a hypothesis of their own. `OverrideTakenLiterally` excludes the one
bound at which `uint64` wraps, which is the finding of section 4. `EveryWriteAddsOne`
and `IncrementsAreExact` assume that numbers are values (`Nat \subseteq Value`), because the
counter is one; TLC's instance has as many of them as its bounds let the counter reach.

* `StoreProofs`: `Invariance` proves `Spec => []IInv`; `TypeCorrect`, `UniqueEntries`
  (`OneEntryPerKey`) and `RaceFree` (`NoDataRace`) follow. Neither of the last two is
  inductive. That a lookup finds the key's only entry needs that nobody inserts beside
  it, hence who holds which partition mutex (`PartLocked`). That an access does not race
  needs the same of entries (`EntryLocked`), where the creator of an entry is the
  exception: it reads the entry without its lock, and what protects it is that no other
  goroutine has the pointer, because finding it takes the partition mutex the creator
  still holds. `PointerSet` says when a pointer is live, which makes address reuse safe,
  and `Published` that a map never has a half-built entry. There is one lemma per action
  with one step per conjunct.
* `HistoryProofs`: what callers see. `UpdatesAreKept` (`NoLostUpdate`), `SnapshotsAgree`
  (`SnapshotsConsistent`) and `GuardsAreHonoured` (`GuardsHonoured`) compare results with
  each other and with the store. Their invariant `HInv` adds that a write past its guards is
  still what they allowed, up to the increment (`Underway`), and that nobody has a snapshot
  of a key before its creator does (`NewEntries`): without the second a reader could hold
  version 1 of a key whose creator has yet to read it. Both rest on `IInv`. The action
  property `HistoryIsWrites` (`VersionsCountWrites`) follows, and so does the refinement,
  `StoreIsAtomic` (`Linearizable`): `Guard` and `Insert` are the steps of the abstract write,
  a refusal and a read are where they return, `Bump`, `Snap` and the lock steps stutter. That
  `Bump` stutters is where the mapping needs that only one goroutine at a time is between
  the value and the version of an entry.
  For `Keys` and `Len`, `IterationComplete` (`KeysComplete`) and `LengthBounded` (`LenBounded`)
  follow from `ScanInv`: a scan at partition `n` has what was there at its start in the partitions
  before `n`, and nothing that has not been there. It uses that the store never loses a key.
* `DeploymentProofs`: the ranges of `RangeFor` lie end to end (`EndToEnd`) from 0 to the
  partition count (`Ends`), so they are disjoint (`RangesDisjoint`), cover every
  partition (`RangesCover`) and differ by at most one in size (`RangesBalanced`). The
  owner of a partition is given by dividing by the larger or the smaller size. What runs
  has passed its binary's checks (`Configured`, the inductive invariant); with the routing
  theorems this gives `AgreementServes` (`AgreeingClusterServes`), `NoSplitBrain`
  (`OneHome`), `StartedSound` (`TypeOK`), `OverrideTakenLiterally` (`OverrideIsExact`) and
  `DumpToldRight` (`DumpIsTrue`).
* `ListingProofs`: `ListingTypes`, `LinesStayWhole` (`LinesIntact`), `NoKeyTwice`
  (`ListedOnce`) and `ListingComplete` (`NothingMissing`). `LInv` follows each line: whoever
  holds the mutex owes a newline (`Whole`); a line once encoded is in the stream, in the
  goroutine's hand or in the response, never in two of them, and in one of them as long as
  the stream is whole (`Accounted`), hence of a key its node encoded, which `ListingTypes`
  and, because nodes own different keys, `NoKeyTwice` use; and a goroutine is done only if its stream ended well
  and is empty, or its error line is written (`Phase`).
* `PatchingProofs`: `TextsMeanDocuments` (`TextMeansDocument`) and the action properties
  `RetriesOnlyUndo` (`RetryOnlyUndoes`) and `FieldsAreKept` (`PatchKeepsFields`), for texts
  and sequences of writes of any length. Reading and merging commute (`PatchedText`): what
  the merged text means is what merging the documents gives. This needs that the text
  `Marshal` writes reads back as the map it was given (`Marshalled`), so that the order of
  the fields exists (`Sorting`: a field's place is the number of fields not above it, and
  places are different for different fields) and has each field once (`InOrder`), and that
  leaving out white space does not change a meaning (`CompactText`). For a repetition, `PInv`
  says at every moment that it would change only what is in `changed`: nothing right after
  the PATCH (`PatchedTwice`), and each write in between adds at most what it changed itself
  (`LeftToUndo`).
* `ClusterProofs`: lemmas for the two modules below. Of a node: a request is accepted when
  it passes every check its method calls for (`Accepted`), and what the answer says of the
  entry before and after (`RespondCases`). Of requests under way: `CInv` says that a request
  has at most one message its client waits for and at most one that may still take effect
  (`OneEach`; after a timeout of the proxy these are two), that a request that may still
  take effect is in no log (`NotYet`), and that no log has a request twice (`Distinct`).
  Of answers: `Known` says that what an answer says, received or on its way, is so and stays
  so, and that a request which was refused has no message left that a node could still
  handle. Without that, a refusal is true only for the moment.
* `SessionsProofs`: `AppliedAtMostOnce` (`AppliedOnce`), `AnswersHold` (`AnswersAreTrue`),
  `ReadsFresh` (`ReadsAreFresh`), `SessionTypes` (`TypeOK`) and the action properties
  `GuardsHeld` (`EveryGuardHolds`) and `ConflictsHelp` (`ConflictsTellHow`), from `CInv`
  and `Known`.
* `CounterProofs`: `EveryWriteAddsOne` (`AddsOne`) and `IncrementsAreExact` (`CounterExact`).
  The reason for the first is that the value of the counter is its version (`Counting`), in
  the stores, in the requests of the loop and in the answers; so a write guarded by a version
  read before a crash, which finds the same version after it, finds the same value too. With
  it the counter is as long as its log, in which no request is twice. `CounterExact` compares
  totals and says nothing of the parts; the invariant is about each client (`Books`): apart
  from the PUT it waits for, at most the increments in the log that are its own (`Done`) were
  acknowledged, and those that are in the log or may still get there (`Possible`) were
  acknowledged or counted as unsure. The second half has to speak of requests that may still
  take effect, for a client moves on when its proxy answers 503, and the write may come
  after. That an acknowledged PUT is in the log, and one that got a 409 never will be, is
  `Known`. The last section adds up: `Sum` is the value of a function that is defined by
  recursion over sets of clients, which is shown to exist for finitely many (`SumsExist`), and
  the bounds for all follow from those for each along it (`AllTogether`). Induction is done by
  taking the least number of clients for which the claim fails (`Least`).

**Only model-checked.**

* Liveness (`CallsReturn`, `RequestsEnd`, `AllCounted`, `ListingEnds`): the prover does not
  reason about fairness.
* The runs that expect a violation: they show counterexamples.

## 6. Plan

1. *Done:* store, merge, routing, configuration and deployment; the first theorems.
2. *Done:* `Node`, `Cluster`, `Sessions`, `Counter` and `Listing`, with timeouts, lost, late
   and cut answers, draining, crashes and restarts; `GET /routing` in `Deployment`.
3. *Done:* the safety properties of `Store`, `Deployment`, `Sessions` and `Listing` as
   theorems, the refinement of `VersionedMap`, and `AddsOne`.
4. *Done:* `CounterExact` and the properties of `Patching` as theorems: every safety property
   that a run expects to hold is now proved.
5. Left: objects that nest deeper than two, for which `Meaning` would be recursive.

## 7. Not modelled

The wording of errors and logs; `/health`, which formats immutable configuration; the HTTP
library beyond what the components see of it (its connection pool and header parsing); the
FNV-1a hash function, of which only its being the same in both binaries matters;
`Range.String` and `itoa`; memory limits; the node's 400 for a body it could not read, which
happens only when the connection breaks in the middle of the body (nobody sees the answer and
nothing is stored, so it is a message that is never handled); the client of a listing that hangs up or stops
reading, which stops the copying (`writeLine` ignores the error of its writes) and whose
result nobody has; other clients than those of the conformance suite. The replication and
persistence that `docs/design-refined.md` discusses are not in the code.
