------------------------------- MODULE Store -------------------------------
(***************************************************************************)
(* internal/store: the partitioned in-memory store, with its two levels of *)
(* locks.  Every step is one acquisition of a lock or one access to memory *)
(* a lock is meant to protect, so goroutines interleave as finely as they  *)
(* do in the program; nothing below assumes that a lock is held.           *)
(*                                                                         *)
(* A goroutine of Proc runs one Get or Write at a time.  pc[g] is where it *)
(* is:                                                                     *)
(*                                                                         *)
(*   guards     Write tests for conflicting guards                         *)
(*   rlock      p.mu.RLock()                                               *)
(*   lookup     e, ok := p.m[key]; p.mu.RUnlock()                          *)
(*   entryRLock e.mu.RLock()                         Get, key present      *)
(*   copy       snapshot; e.mu.RUnlock(); return                           *)
(*   entryLock  e.mu.Lock()                          Write, key present    *)
(*   guard      guards; e.value = compute(...)                             *)
(*   bump       e.version++; snapshot; e.mu.Unlock(); return               *)
(*   partLock   p.mu.Lock()                          Write, key absent     *)
(*   insert     re-check; guard; p.m[key] = created                        *)
(*   snap       snapshot; p.mu.Unlock(); return                            *)
(*                                                                         *)
(* A goroutine of Scanner runs one Keys or Len at a time (spc[s]).         *)
(***************************************************************************)
EXTENDS Entry, Routing, FiniteSets

INSTANCE RWMutex

CONSTANTS
    Proc, Scanner,      \* goroutines calling Get and Write; Keys and Len
    Ref,                \* addresses an *entry can have
    Workload,           \* Workload[g]: the calls goroutine g may make
    Hash,               \* Hash[k]: the 64-bit hash of k
    PartitionCount,
    MaxVersion          \* bound: no key is written more often than this

VARIABLES
    m,      \* m[k]: the *entry the map of k's partition has for k, or Nil
    ent,    \* ent[r]: the fields value and version of the entry at r
    pmu,    \* pmu[p]: partition p's mutex
    emu,    \* emu[r]: the mutex of the entry at r
    pc,     \* pc[g]: where goroutine g is in Get or Write
    call,   \* call[g]: the call it is executing, or executed last
    e,      \* e[g]: its local variable e (Nil outside a call)
    res,    \* res[g]: what its last call returned, Pending while it runs
    spc,    \* spc[s]: where goroutine s is in Keys or Len
    scan    \* scan[s]: the local variables of Keys or Len, and what it yielded

shared == <<m, ent, pmu, emu>>
local  == <<pc, call, e, res>>
slocal == <<spc, scan>>
vars   == <<m, ent, pmu, emu, pc, call, e, res, spc, scan>>

Parts   == Partitions(PartitionCount)
PartOf(k) == Partition(Hash[k], PartitionCount)
Threads == Proc \cup Scanner

CurVersion(k) == IF m[k] = Nil THEN 0 ELSE ent[m[k]].version
ValueOf(k)    == IF m[k] = Nil THEN Nil ELSE ent[m[k]].value

\* The map the store stands for.  A writer that has installed its value and not
\* yet incremented the version has already taken effect, and so has its result.
Bumping(r) == \E g \in Proc : pc[g] = "bump" /\ e[g] = r

AbsDb == [k \in Key |-> [value   |-> ValueOf(k),
                         version |-> IF m[k] # Nil /\ Bumping(m[k])
                                     THEN CurVersion(k) + 1 ELSE CurVersion(k)]]

AbsRes == [g \in Proc |->
              IF pc[g] = "bump"
              THEN [status |-> "ok", value |-> ent[e[g]].value,
                    version |-> ent[e[g]].version + 1]
              ELSE IF pc[g] = "snap"
              THEN [status |-> "ok", value |-> ent[e[g]].value,
                    version |-> ent[e[g]].version]
              ELSE res[g]]

Abs == INSTANCE VersionedMap WITH db <- AbsDb, res <- AbsRes

ASSUME StoreAssumption ==
    /\ Nil \notin Proc \cup Scanner \cup Ref \cup Value \cup Nat \cup Calls
    /\ Proc \cap Scanner = {}
    /\ ValidPartitionCount(PartitionCount) /\ PartitionCount \in Nat
    /\ IsFiniteSet(Key)
    /\ Hash \in [Key -> Nat]
    /\ Workload \in [Proc -> SUBSET Calls]
    /\ \A v, w \in Value : Merge(v, w) \in Value
    /\ MaxVersion \in Nat

Scans  == {"keys", "len"}

\* A scan before its first partition; atStart only records what was there then.
NewScan(kind, atStart) ==
    [kind |-> kind, next |-> 0, keys |-> {}, out |-> <<>>, total |-> 0,
     atStart |-> atStart]

Present == {k \in Key : m[k] # Nil}

Init ==
    /\ m    = [k \in Key |-> Nil]
    /\ ent  = [r \in Ref |-> [value |-> Nil, version |-> 0]]
    /\ pmu  = [p \in Parts |-> Unlocked]
    /\ emu  = [r \in Ref |-> Unlocked]
    /\ pc   = [g \in Proc |-> "idle"]
    /\ call = [g \in Proc |-> Nil]
    /\ e    = [g \in Proc |-> Nil]
    /\ res  = [g \in Proc |-> NoResult]
    /\ spc  = [s \in Scanner |-> "idle"]
    /\ scan = [s \in Scanner |-> NewScan("keys", {})]
-----------------------------------------------------------------------------
(* Steps shared by the operations.                                         *)

Goto(g, l) == pc' = [pc EXCEPT ![g] = l]

\* The call of g returns r; its local pointer goes out of scope.
Return(g, r) ==
    /\ Goto(g, "idle")
    /\ res' = [res EXCEPT ![g] = r]
    /\ e' = [e EXCEPT ![g] = Nil]

\* An address is free when nothing in the program still points to it.
FreeRef(r) == (\A k \in Key : m[k] # r) /\ (\A g \in Proc : e[g] # r)

\* Writes that may still increment k's version.
Writing(k) == {g \in Proc : /\ pc[g] # "idle"
                            /\ call[g].kind = "write" /\ call[g].key = k}

\* The caller enters Get or Write.
Invoke(g) ==
    /\ pc[g] = "idle"
    /\ \E c \in Workload[g] :
          /\ c.kind = "write" =>
                CurVersion(c.key) + Cardinality(Writing(c.key)) < MaxVersion
          /\ call' = [call EXCEPT ![g] = c]
          /\ Goto(g, IF c.kind = "write" THEN "guards" ELSE "rlock")
    /\ res' = [res EXCEPT ![g] = Pending]
    /\ UNCHANGED <<shared, e, slocal>>

\* Write: conflicting guards are refused before anything is read.
CheckGuards(g) ==
    /\ pc[g] = "guards"
    /\ IF ConflictingGuards(call[g])
       THEN Return(g, Result("conflict", Nil, 0))
       ELSE Goto(g, "rlock") /\ UNCHANGED <<e, res>>
    /\ UNCHANGED <<shared, call, slocal>>

PartRLock(g) ==
    LET p == PartOf(call[g].key)
        mu == RLock(pmu[p], g)
    IN  /\ pc[g] = "rlock"
        /\ pmu' = [pmu EXCEPT ![p] = mu]
        /\ Goto(g, IF g \in mu.readers THEN "lookup" ELSE "rlock")
        /\ UNCHANGED <<m, ent, emu, call, e, res, slocal>>

\* The pointer found here is used after the partition lock is gone.
Lookup(g) ==
    LET p == PartOf(call[g].key)
        found == m[call[g].key]
        get == call[g].kind = "get"
    IN  /\ pc[g] = "lookup"
        /\ pmu' = [pmu EXCEPT ![p] = RUnlock(@, g)]
        /\ IF get /\ found = Nil
           THEN Return(g, Result("notFound", Nil, 0))
           ELSE /\ e' = [e EXCEPT ![g] = found]
                /\ Goto(g, IF get THEN "entryRLock"
                           ELSE IF found = Nil THEN "partLock" ELSE "entryLock")
                /\ UNCHANGED res
        /\ UNCHANGED <<m, ent, emu, call, slocal>>
-----------------------------------------------------------------------------
(* Get, key present.                                                       *)

\* Mutant: the entry is read without its lock.
ReadUnlocked(g) ==
    /\ pc[g] = "entryRLock"
    /\ Goto(g, "copy")
    /\ UNCHANGED <<shared, call, e, res, slocal>>

EntryRLock(g) ==
    LET mu == RLock(emu[e[g]], g) IN
    /\ pc[g] = "entryRLock"
    /\ emu' = [emu EXCEPT ![e[g]] = mu]
    /\ Goto(g, IF g \in mu.readers THEN "copy" ELSE "entryRLock")
    /\ UNCHANGED <<m, ent, pmu, call, e, res, slocal>>

Copy(g) ==
    /\ pc[g] = "copy"
    /\ emu' = [emu EXCEPT ![e[g]] = RUnlock(@, g)]
    /\ Return(g, Result("ok", ent[e[g]].value, ent[e[g]].version))
    /\ UNCHANGED <<m, ent, pmu, call, slocal>>
-----------------------------------------------------------------------------
(* Write, key present: guard, computation and increment under one lock.    *)

EntryLock(g) ==
    /\ pc[g] = "entryLock"
    /\ CanAnnounce(emu[e[g]], g)
    /\ emu' = [emu EXCEPT ![e[g]] = Announce(@, g)]
    /\ Goto(g, IF Drained(emu[e[g]]) THEN "guard" ELSE "entryLock")
    /\ UNCHANGED <<m, ent, pmu, call, e, res, slocal>>

\* Mutant: ifVersion is not looked at.
RefusedIfPresent(x, c) == c.ifAbsent

\* The guards refuse a write to the entry x.
Refused(x, c) == c.ifAbsent \/ (c.ifVersion # Nil /\ c.ifVersion # x.version)

\* Mutant: the early return forgets the lock.
RefuseHoldingLock(g) ==
    /\ Return(g, Result("mismatch", Nil, ent[e[g]].version))
    /\ UNCHANGED <<ent, emu>>

Refuse(g) ==
    /\ emu' = [emu EXCEPT ![e[g]] = Unlock(@)]
    /\ Return(g, Result("mismatch", Nil, ent[e[g]].version))
    /\ UNCHANGED ent

\* e.value = compute(e.value, op)
Assigned(g) ==
    [value |-> Compute(ent[e[g]].value, call[g]), version |-> ent[e[g]].version]

\* Mutant: the lock is released between the guard and the increment.
UpdateUnlocked(g) ==
    /\ ent' = [ent EXCEPT ![e[g]] = Assigned(g)]
    /\ emu' = [emu EXCEPT ![e[g]] = Unlock(@)]
    /\ Goto(g, "bump")
    /\ UNCHANGED <<e, res>>

Update(g) ==
    /\ ent' = [ent EXCEPT ![e[g]] = Assigned(g)]
    /\ Goto(g, "bump")
    /\ UNCHANGED <<emu, e, res>>

Guard(g) ==
    /\ pc[g] = "guard"
    /\ IF Refused(ent[e[g]], call[g]) THEN Refuse(g) ELSE Update(g)
    /\ UNCHANGED <<m, pmu, call, slocal>>

Bump(g) ==
    LET x == ent[e[g]] IN
    /\ pc[g] = "bump"
    /\ ent' = [ent EXCEPT ![e[g]] = [value |-> x.value, version |-> x.version + 1]]
    /\ emu' = [emu EXCEPT ![e[g]] = Unlock(@)]
    /\ Return(g, Result("ok", x.value, x.version + 1))
    /\ UNCHANGED <<m, pmu, call, slocal>>
-----------------------------------------------------------------------------
(* Write, key absent: insert a finished entry under the partition's lock.  *)

PartLock(g) ==
    LET p == PartOf(call[g].key) IN
    /\ pc[g] = "partLock"
    /\ CanAnnounce(pmu[p], g)
    /\ pmu' = [pmu EXCEPT ![p] = Announce(@, g)]
    /\ Goto(g, IF Drained(pmu[p]) THEN "insert" ELSE "partLock")
    /\ UNCHANGED <<m, ent, emu, call, e, res, slocal>>

\* The key is still absent: create the entry and publish it in the map.
Create(g) ==
    \E r \in Ref :
        /\ FreeRef(r)
        /\ ent' = [ent EXCEPT ![r] = [value |-> call[g].body, version |-> FirstVersion]]
        /\ emu' = [emu EXCEPT ![r] = Unlocked]
        /\ m' = [m EXCEPT ![call[g].key] = r]
        /\ e' = [e EXCEPT ![g] = r]
        /\ Goto(g, "snap")
        /\ UNCHANGED <<pmu, res>>

\* Mutant: the map is not looked at again under the write lock.
KnownAbsent(k) == TRUE

StillAbsent(k) == m[k] = Nil

Insert(g) ==
    LET p == PartOf(call[g].key) IN
    /\ pc[g] = "insert"
    /\ IF ~StillAbsent(call[g].key)
       THEN \* another goroutine created the key: back to the lookup
            /\ pmu' = [pmu EXCEPT ![p] = Unlock(@)]
            /\ Goto(g, "rlock")
            /\ UNCHANGED <<m, ent, emu, e, res>>
       ELSE IF call[g].ifVersion # Nil
       THEN /\ pmu' = [pmu EXCEPT ![p] = Unlock(@)]
            /\ Return(g, Result("mismatch", Nil, 0))
            /\ UNCHANGED <<m, ent, emu>>
       ELSE Create(g)
    /\ UNCHANGED <<call, slocal>>

\* The snapshot of the new entry is read without its lock.
Snap(g) ==
    LET p == PartOf(call[g].key) IN
    /\ pc[g] = "snap"
    /\ pmu' = [pmu EXCEPT ![p] = Unlock(@)]
    /\ Return(g, Result("ok", ent[e[g]].value, ent[e[g]].version))
    /\ UNCHANGED <<m, ent, emu, call, slocal>>
-----------------------------------------------------------------------------
(* Keys and Len: one partition at a time, never holding two locks.         *)

SGoto(s, l) == spc' = [spc EXCEPT ![s] = l]

BeginScan(s) ==
    /\ spc[s] = "idle"
    /\ \E kind \in Scans :
          scan' = [scan EXCEPT ![s] = NewScan(kind, Present)]
    /\ SGoto(s, "rlock")
    /\ UNCHANGED <<shared, local>>

\* Mutant: the map is read without the partition's lock.
ScanUnlocked(s) ==
    /\ spc[s] = "rlock"
    /\ SGoto(s, "copy")
    /\ UNCHANGED <<shared, local, scan>>

ScanRLock(s) ==
    LET p == scan[s].next
        mu == RLock(pmu[p], s)
    IN  /\ spc[s] = "rlock"
        /\ pmu' = [pmu EXCEPT ![p] = mu]
        /\ SGoto(s, IF s \in mu.readers THEN "copy" ELSE "rlock")
        /\ UNCHANGED <<m, ent, emu, local, scan>>

\* The loop goes on to the next partition, or ends.
Advance(s, sc) ==
    /\ scan' = [scan EXCEPT ![s] = [sc EXCEPT !.next = @ + 1]]
    /\ SGoto(s, IF sc.next + 1 = PartitionCount THEN "idle" ELSE "rlock")

\* Mutant: all partitions share one map.
KeysOfSharedMap(p) == Present

KeysIn(p) == {k \in Present : PartOf(k) = p}

\* The keys of the partition are copied out (Keys) or counted (Len).
ScanCopy(s) ==
    LET p == scan[s].next
        here == KeysIn(p)
    IN  /\ spc[s] = "copy"
        /\ pmu' = [pmu EXCEPT ![p] = RUnlock(@, s)]
        /\ IF scan[s].kind = "keys"
           THEN /\ scan' = [scan EXCEPT ![s].keys = here]
                /\ SGoto(s, "yield")
           ELSE Advance(s, [scan[s] EXCEPT !.total = @ + Cardinality(here)])
        /\ UNCHANGED <<m, ent, emu, local>>

\* yield(k): the keys come in any order, and the caller may stop the iteration.
Yield(s) ==
    /\ spc[s] = "yield"
    /\ \E k \in scan[s].keys :
          scan' = [scan EXCEPT ![s].out = Append(@, k), ![s].keys = @ \ {k}]
    /\ \E goOn \in BOOLEAN : SGoto(s, IF goOn THEN "yield" ELSE "idle")
    /\ UNCHANGED <<shared, local>>

NextPartition(s) ==
    /\ spc[s] = "yield"
    /\ scan[s].keys = {}
    /\ Advance(s, scan[s])
    /\ UNCHANGED <<shared, local>>
-----------------------------------------------------------------------------
Step(g) ==
    \/ CheckGuards(g) \/ PartRLock(g)  \/ Lookup(g)
    \/ EntryRLock(g)  \/ Copy(g)
    \/ EntryLock(g)   \/ Guard(g)      \/ Bump(g)
    \/ PartLock(g)    \/ Insert(g)     \/ Snap(g)

ScanStep(s) == ScanRLock(s) \/ ScanCopy(s) \/ Yield(s) \/ NextPartition(s)

Next ==
    \/ \E g \in Proc : Invoke(g) \/ Step(g)
    \/ \E s \in Scanner : BeginScan(s) \/ ScanStep(s)

Spec == Init /\ [][Next]_vars

\* Every goroutine inside a call keeps running.  Strong fairness, because a
\* goroutine waiting to announce itself as a mutex's writer finds it taken over
\* and over; sync.Mutex, on which RWMutex queues its writers, hands the lock to
\* the longest waiter once that one has waited a millisecond.  Nothing is assumed
\* of the callers: they need never call.
FairSpec ==
    /\ Spec
    /\ \A g \in Proc : SF_vars(Step(g))
    /\ \A s \in Scanner : SF_vars(ScanStep(s))
-----------------------------------------------------------------------------
(* Types.                                                                  *)

Labels  == {"idle", "guards", "rlock", "lookup", "entryRLock", "copy", "entryLock",
            "guard", "bump", "partLock", "insert", "snap"}
SLabels == {"idle", "rlock", "copy", "yield"}
ScanStates == [kind : Scans, next : Nat, keys : SUBSET Key, out : Seq(Key),
               total : Nat, atStart : SUBSET Key]

SharedTypes ==
    /\ m    \in [Key -> Ref \cup {Nil}]
    /\ ent  \in [Ref -> [value : Value \cup {Nil}, version : Nat]]
    /\ pmu  \in [Parts -> RWMutexes(Threads)]
    /\ emu  \in [Ref -> RWMutexes(Threads)]

LocalTypes ==
    /\ pc   \in [Proc -> Labels]
    /\ call \in [Proc -> Calls \cup {Nil}]
    /\ e    \in [Proc -> Ref \cup {Nil}]
    /\ res  \in [Proc -> Results]
    /\ \A g \in Proc : pc[g] # "idle" => call[g] # Nil

ScanTypes ==
    /\ spc  \in [Scanner -> SLabels]
    /\ scan \in [Scanner -> ScanStates]
    /\ \A s \in Scanner : spc[s] # "idle" => scan[s].next \in Parts

\* The variables have their types, a goroutine inside Get or Write has a call, and
\* a scan inside its loop has a partition.
TypeOK == SharedTypes /\ LocalTypes /\ ScanTypes
-----------------------------------------------------------------------------
(* Safety.                                                                 *)

\* Goroutines whose next step reads or writes the map of partition p, or the
\* fields of the entry at r.
MapReaders(p) == {g \in Proc : pc[g] = "lookup" /\ PartOf(call[g].key) = p}
                 \cup {s \in Scanner : spc[s] = "copy" /\ scan[s].next = p}
MapWriters(p) == {g \in Proc : pc[g] = "insert" /\ PartOf(call[g].key) = p}
EntryReaders(r) == {g \in Proc : pc[g] \in {"copy", "snap"} /\ e[g] = r}
EntryWriters(r) == {g \in Proc : pc[g] \in {"guard", "bump"} /\ e[g] = r}

\* No access to a map or to an entry's fields ever races with a write to it: the
\* Go runtime aborts the process on a concurrent map write, and a racing entry
\* read pairs one write's value with another's version (store.go, Get).  A new
\* entry's snapshot is read without its lock and is covered too.
NoDataRace ==
    /\ \A p \in Parts : \A w \in MapWriters(p) :
          MapWriters(p) \cup MapReaders(p) = {w}
    /\ \A r \in Ref : \A w \in EntryWriters(r) :
          EntryWriters(r) \cup EntryReaders(r) = {w}

\* The *entry a goroutine carries across the unlocked gap between its lookup and
\* its access is still the one and only entry of its key.  Otherwise two
\* goroutines would lock different entries for one key and a write would vanish
\* (store.go, the comment at the end of Write).
OneEntryPerKey ==
    /\ \A g \in Proc : e[g] # Nil => m[call[g].key] = e[g]
    /\ \A k, l \in Key : m[k] # Nil /\ m[k] = m[l] => k = l

\* The last call of g was a call for k that returned a snapshot.
Got(g, k)   == res[g].status = "ok" /\ call[g].key = k
Wrote(g, k) == Got(g, k) /\ call[g].kind = "write"

\* Two writes of one key that succeeded never report the same version: if they
\* did, one of them would have overwritten the other unseen.
NoLostUpdate ==
    \A k \in Key : \A g, h \in Proc :
        g # h /\ Wrote(g, k) /\ Wrote(h, k) => res[g].version # res[h].version

\* Snapshots of one key that carry the same version carry the same value, whoever
\* got them and whenever, and no snapshot is ahead of the store: value and version
\* are always read as the pair one write produced.
SnapshotsConsistent ==
    \A k \in Key : \A g \in Proc : Got(g, k) =>
        /\ res[g].version <= CurVersion(k)
        /\ res[g].version = CurVersion(k) /\ ~Bumping(m[k]) => res[g].value = ValueOf(k)
        /\ \A h \in Proc : Got(h, k) /\ res[h].version = res[g].version =>
                             res[h].value = res[g].value

\* A guarded write that succeeded did so on exactly the version it named, and a
\* create-only write really created the key: nothing came between the guard and
\* the increment.
GuardsHonoured ==
    \A g \in Proc : res[g].status = "ok" /\ call[g].kind = "write" =>
        /\ call[g].ifVersion # Nil => res[g].version = call[g].ifVersion + 1
        /\ call[g].ifAbsent => res[g].version = FirstVersion

\* A key's version moves by one at a time and never back, and a key's value never
\* changes while its entry is not locked for writing: the history of a key is the
\* history of its writes.
VersionsCountWrites ==
    [][\A k \in Key :
          /\ CurVersion(k)' \in {CurVersion(k), CurVersion(k) + 1}
          /\ (m[k] # Nil /\ ValueOf(k)' # ValueOf(k)) =>
                \E g \in Proc : emu[m[k]].writer = g]_vars
-----------------------------------------------------------------------------
(* The inductive invariant behind the safety properties.                   *)

EntryLabels == {"entryRLock", "copy", "entryLock", "guard", "bump", "snap"}

\* A goroutine that is about to touch a map holds the partition's mutex in the
\* mode it needs; the writer of a partition is alone in it.
PartLockedBy(g) ==
    LET mu == pmu[PartOf(call[g].key)] IN
    /\ pc[g] = "lookup" => g \in mu.readers
    /\ pc[g] \in {"insert", "snap"} => mu.writer = g /\ mu.readers = {}

PartLocked ==
    /\ \A g \in Proc : PartLockedBy(g)
    /\ \A s \in Scanner : spc[s] = "copy" => s \in pmu[scan[s].next].readers

\* The same of entries, except that the creator of an entry reads it without its
\* lock: nobody else has found the pointer yet.
EntryLockedBy(g) ==
    /\ pc[g] = "copy" => g \in emu[e[g]].readers
    /\ pc[g] \in {"guard", "bump"} => emu[e[g]].writer = g /\ emu[e[g]].readers = {}
    /\ pc[g] = "snap" => \A h \in Proc \ {g} : e[h] # e[g]

EntryLocked == \A g \in Proc : EntryLockedBy(g)

\* e is set exactly while it is used.
PointerSet == \A g \in Proc : e[g] # Nil <=> pc[g] \in EntryLabels

\* Every entry in a map has a value and a version, from the moment it is there:
\* there are no half-built entries, and version 0 never exists.
Published == \A k \in Key : m[k] # Nil => ent[m[k]].value \in Value /\ CurVersion(k) > 0

IInv == TypeOK /\ PartLocked /\ EntryLocked /\ PointerSet /\ OneEntryPerKey /\ Published
-----------------------------------------------------------------------------
(* Iteration.                                                              *)

YieldedBy(s) == {scan[s].out[i] : i \in DOMAIN scan[s].out}
Finished(s)  == spc[s] = "idle" /\ scan[s].next = PartitionCount

\* A key present for the whole of an iteration is yielded, none is yielded twice,
\* and none is yielded that was never stored (the comment on Keys), although every
\* partition is read at a different moment.
KeysComplete ==
    \A s \in Scanner :
        /\ Finished(s) /\ scan[s].kind = "keys" => scan[s].atStart \subseteq YieldedBy(s)
        /\ Cardinality(YieldedBy(s)) = Len(scan[s].out)
        /\ YieldedBy(s) \subseteq Present

\* Len returns a number of keys the store held at some moment of the call.
LenBounded ==
    \A s \in Scanner : Finished(s) /\ scan[s].kind = "len" =>
        scan[s].total \in Cardinality(scan[s].atStart)..Cardinality(Present)
-----------------------------------------------------------------------------
(* Refinement and liveness.                                                *)

\* Every behaviour of the locked, partitioned store is one of the atomic map.
Linearizable == Abs!Spec

\* Every call returns: no lock is left behind on an early return, the retry loop
\* of Write ends, and nobody waits for ever.
CallsReturn ==
    /\ \A g \in Proc : pc[g] # "idle" ~> pc[g] = "idle"
    /\ \A s \in Scanner : spc[s] # "idle" ~> spc[s] = "idle"
=============================================================================
