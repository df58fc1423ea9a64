--------------------------- MODULE HistoryProofs ---------------------------
(***************************************************************************)
(* What the callers of the store see, for every instance: no write is      *)
(* lost, snapshots are the pairs that writes produced, guarded writes      *)
(* succeed only on what they name, and a key's version counts its writes.  *)
(*                                                                         *)
(* The properties compare results with each other and with the store, so   *)
(* their invariant adds what holds inside a call (Underway) and between a  *)
(* creation and its snapshot (NewEntries).  The second part proves from    *)
(* the same invariant that the store implements VersionedMap, and the last *)
(* is about the iterations Keys and Len.                                   *)
(***************************************************************************)
EXTENDS StoreProofs

WriteLabels == {"guards", "entryLock", "guard", "bump", "partLock", "insert", "snap"}

\* A goroutine inside a call has returned nothing, goes the way of a Get or of a Write
\* as it was called, and past the guards its write is still what they allowed.
Underway ==
    \A g \in Proc :
        /\ pc[g] # "idle" => res[g] = Pending
        /\ pc[g] \in WriteLabels => call[g].kind = "write"
        /\ pc[g] \in {"entryRLock", "copy"} => call[g].kind = "get"
        /\ pc[g] \notin {"idle", "guards"} /\ call[g].kind = "write" =>
              ~ConflictingGuards(call[g])
        /\ pc[g] = "bump" => ~Refused(ent[e[g]], call[g])
        /\ pc[g] = "snap" => /\ call[g].ifVersion = Nil
                             /\ ent[e[g]].version = FirstVersion

\* Nobody has a snapshot of a key before its creator does.
NewEntries ==
    \A g, h \in Proc : pc[g] = "snap" => ~Got(h, call[g].key)

\* A snapshot is of an entry, and entries begin with version 1.
Positive == \A g \in Proc : res[g].status = "ok" => call[g] \in Calls /\ res[g].version > 0

History == Positive /\ NoLostUpdate /\ SnapshotsConsistent /\ GuardsHonoured

HInv == Underway /\ NewEntries /\ History
-----------------------------------------------------------------------------
\* A step that changes no entry, starts and ends no increment, and gives nobody a
\* snapshot leaves what the callers know as true as it was.
LEMMA HistoryFrame ==
    ASSUME IInv, History, m' = m, ent' = ent,
           \A g \in Proc : pc'[g] = "bump" <=> pc[g] = "bump",
           \A g \in Proc : pc[g] = "bump" => e'[g] = e[g],
           \A g \in Proc : res'[g].status = "ok" => res'[g] = res[g] /\ call'[g] = call[g]
    PROVE  History'
<1>1. Positive'
  BY DEF History, Positive
<1>2. \A g \in Proc, k \in Key : Got(g, k)' => Got(g, k) /\ res'[g] = res[g] /\ call'[g] = call[g]
  BY DEF Got
<1>3. NoLostUpdate'
  BY <1>2 DEF History, NoLostUpdate, Wrote
<1>4. \A r : Bumping(r)' <=> Bumping(r)
  BY DEF Bumping
<1>5. \A k \in Key : CurVersion(k)' = CurVersion(k) /\ ValueOf(k)' = ValueOf(k)
  BY DEF CurVersion, ValueOf
<1>6. SnapshotsConsistent'
  BY <1>2, <1>4, <1>5 DEF History, SnapshotsConsistent
<1>7. GuardsHonoured'
  BY DEF History, GuardsHonoured
<1> QED BY <1>1, <1>3, <1>6, <1>7 DEF History
\* A step of g that changes no entry and gives nobody a snapshot keeps the invariant,
\* if g is still underway in the sense of the invariant.
LEMMA QuietStep ==
    ASSUME IInv, HInv, NEW g \in Proc, m' = m, ent' = ent,
           \A h \in Proc \ {g} : /\ pc'[h] = pc[h] /\ call'[h] = call[h]
                                 /\ e'[h] = e[h] /\ res'[h] = res[h],
           pc[g] # "bump", pc'[g] \notin {"bump", "snap"}, res'[g].status # "ok",
           pc'[g] # "idle" => res'[g] = Pending,
           pc'[g] \in WriteLabels => call'[g].kind = "write",
           pc'[g] \in {"entryRLock", "copy"} => call'[g].kind = "get",
           pc'[g] \notin {"idle", "guards"} /\ call'[g].kind = "write" =>
               ~ConflictingGuards(call'[g])
    PROVE  HInv'
<1>1. Underway'
  BY DEF HInv, Underway
<1>2. NewEntries'
  BY DEF HInv, NewEntries, Got
<1>3. History'
  BY HistoryFrame DEF HInv
<1> QED BY <1>1, <1>2, <1>3 DEF HInv

\* The fields of results.
LEMMA PendingNotOk == Pending.status = "pending" /\ \A s, v, n : Result(s, v, n).status = s
                      /\ Result(s, v, n).value = v /\ Result(s, v, n).version = n
  BY DEF Pending, Result

\* Entering Get or Write forgets the last result.
LEMMA InvokeHistory == ASSUME IInv, HInv, NEW g \in Proc, Invoke(g) PROVE HInv'
<1> USE DEF IInv, TypeOK, LocalTypes, shared, slocal
<1>0. PICK c \in Workload[g] :
        /\ call' = [call EXCEPT ![g] = c]
        /\ Goto(g, IF c.kind = "write" THEN "guards" ELSE "rlock")
  BY DEF Invoke
<1>c. c \in Calls /\ c.kind \in {"get", "write"}
  BY StoreAssumption DEF Calls
<1>u. /\ m' = m /\ ent' = ent /\ e' = e /\ pc[g] = "idle"
      /\ res' = [res EXCEPT ![g] = Pending]
      /\ pc' = [pc EXCEPT ![g] = IF c.kind = "write" THEN "guards" ELSE "rlock"]
  BY <1>0 DEF Invoke, Goto
<1> QED BY <1>0, <1>c, <1>u, QuietStep, PendingNotOk DEF WriteLabels

\* The refusal of conflicting guards is not a snapshot, and what passes has no
\* conflicting guards.
LEMMA CheckGuardsHistory == ASSUME IInv, HInv, NEW g \in Proc, CheckGuards(g) PROVE HInv'
<1> USE DEF IInv, TypeOK, LocalTypes, shared, slocal
<1>u. /\ m' = m /\ ent' = ent /\ call' = call /\ pc[g] = "guards"
      /\ call[g].kind = "write" /\ res[g] = Pending
  BY DEF CheckGuards, HInv, Underway, WriteLabels
<1>1. CASE ConflictingGuards(call[g])
  <2>1. /\ pc' = [pc EXCEPT ![g] = "idle"] /\ e' = [e EXCEPT ![g] = Nil]
        /\ res' = [res EXCEPT ![g] = Result("conflict", Nil, 0)]
    BY <1>1 DEF CheckGuards, Return, Goto
  <2> QED BY <1>u, <2>1, QuietStep, PendingNotOk DEF WriteLabels
<1>2. CASE ~ConflictingGuards(call[g])
  <2>1. pc' = [pc EXCEPT ![g] = "rlock"] /\ e' = e /\ res' = res
    BY <1>2 DEF CheckGuards, Goto
  <2> QED BY <1>2, <1>u, <2>1, QuietStep, PendingNotOk DEF WriteLabels
<1> QED BY <1>1, <1>2

\* Locking and looking up change nothing a caller knows of.
LEMMA PartRLockHistory == ASSUME IInv, HInv, NEW g \in Proc, PartRLock(g) PROVE HInv'
<1> USE DEF IInv, TypeOK, LocalTypes, slocal
<1>u. /\ m' = m /\ ent' = ent /\ call' = call /\ e' = e /\ res' = res
      /\ pc[g] = "rlock" /\ res[g] = Pending
      /\ call[g].kind = "write" => ~ConflictingGuards(call[g])
      /\ pc' = [pc EXCEPT ![g] = "lookup"] \/ pc' = pc
  BY DEF PartRLock, Goto, HInv, Underway
<1> QED BY <1>u, QuietStep, PendingNotOk DEF WriteLabels

\* A lookup ends a Get of an absent key or goes on with what it found.
LEMMA LookupHistory == ASSUME IInv, HInv, NEW g \in Proc, Lookup(g) PROVE HInv'
<1> USE DEF IInv, TypeOK, LocalTypes, slocal
<1>u. /\ m' = m /\ ent' = ent /\ call' = call
      /\ pc[g] = "lookup" /\ res[g] = Pending
      /\ call[g].kind \in {"get", "write"}
      /\ call[g].kind = "write" => ~ConflictingGuards(call[g])
  BY DEF Lookup, Calls, HInv, Underway
<1>1. CASE call[g].kind = "get" /\ m[call[g].key] = Nil
  <2>1. /\ pc' = [pc EXCEPT ![g] = "idle"] /\ e' = [e EXCEPT ![g] = Nil]
        /\ res' = [res EXCEPT ![g] = Result("notFound", Nil, 0)]
    BY <1>1 DEF Lookup, Return, Goto
  <2> QED BY <1>u, <2>1, QuietStep, PendingNotOk DEF WriteLabels
<1>2. CASE ~(call[g].kind = "get" /\ m[call[g].key] = Nil)
  <2>1. /\ e' = [e EXCEPT ![g] = m[call[g].key]] /\ res' = res
        /\ \/ pc' = [pc EXCEPT ![g] = "entryRLock"] /\ call[g].kind = "get"
           \/ pc' = [pc EXCEPT ![g] = "partLock"] /\ call[g].kind = "write"
           \/ pc' = [pc EXCEPT ![g] = "entryLock"] /\ call[g].kind = "write"
    BY <1>2, <1>u DEF Lookup, Goto
  <2> QED BY <1>u, <2>1, QuietStep, PendingNotOk DEF WriteLabels
<1> QED BY <1>1, <1>2

\* Waiting for an entry to read shows nothing.
LEMMA EntryRLockHistory == ASSUME IInv, HInv, NEW g \in Proc, EntryRLock(g) PROVE HInv'
<1> USE DEF IInv, TypeOK, LocalTypes, slocal
<1>u. /\ m' = m /\ ent' = ent /\ call' = call /\ e' = e /\ res' = res
      /\ pc[g] = "entryRLock" /\ res[g] = Pending /\ call[g].kind = "get"
      /\ pc' = [pc EXCEPT ![g] = "copy"] \/ pc' = pc
  BY DEF EntryRLock, Goto, HInv, Underway
<1> QED BY <1>u, QuietStep, PendingNotOk DEF WriteLabels

\* Waiting for an entry to write shows nothing.
LEMMA EntryLockHistory == ASSUME IInv, HInv, NEW g \in Proc, EntryLock(g) PROVE HInv'
<1> USE DEF IInv, TypeOK, LocalTypes, slocal
<1>u. /\ m' = m /\ ent' = ent /\ call' = call /\ e' = e /\ res' = res
      /\ pc[g] = "entryLock" /\ res[g] = Pending /\ call[g].kind = "write"
      /\ ~ConflictingGuards(call[g])
      /\ pc' = [pc EXCEPT ![g] = "guard"] \/ pc' = pc
  BY DEF EntryLock, Goto, HInv, Underway, WriteLabels
<1> QED BY <1>u, QuietStep, PendingNotOk DEF WriteLabels

\* Waiting for the map to insert shows nothing.
LEMMA PartLockHistory == ASSUME IInv, HInv, NEW g \in Proc, PartLock(g) PROVE HInv'
<1> USE DEF IInv, TypeOK, LocalTypes, slocal
<1>u. /\ m' = m /\ ent' = ent /\ call' = call /\ e' = e /\ res' = res
      /\ pc[g] = "partLock" /\ res[g] = Pending /\ call[g].kind = "write"
      /\ ~ConflictingGuards(call[g])
      /\ pc' = [pc EXCEPT ![g] = "insert"] \/ pc' = pc
  BY DEF PartLock, Goto, HInv, Underway, WriteLabels
<1> QED BY <1>u, QuietStep, PendingNotOk DEF WriteLabels
-----------------------------------------------------------------------------
\* A goroutine past its lookup has the one entry of its key, which is complete.
LEMMA HasEntry ==
    ASSUME IInv, NEW g \in Proc, pc[g] \in EntryLabels
    PROVE  /\ call[g] \in Calls /\ call[g].key \in Key
           /\ e[g] \in Ref /\ m[call[g].key] = e[g] /\ e[g] # Nil
           /\ ent[e[g]].value \in Value /\ ent[e[g]].version \in Nat
           /\ ent[e[g]].version > 0
           /\ \A k \in Key : m[k] = e[g] => k = call[g].key
<1> USE DEF IInv, TypeOK
<1>1. e[g] # Nil /\ e[g] \in Ref /\ call[g] \in Calls /\ call[g].key \in Key
  BY CallFields DEF PointerSet, LocalTypes, EntryLabels
<1>2. m[call[g].key] = e[g] /\ \A k \in Key : m[k] = e[g] => k = call[g].key
  BY <1>1 DEF OneEntryPerKey
<1>3. /\ ent[e[g]].value \in Value /\ ent[e[g]].version \in Nat
      /\ ent[e[g]].version > 0
  BY <1>1, <1>2 DEF Published, CurVersion, SharedTypes
<1> QED BY <1>1, <1>2, <1>3

\* A writer that has installed its value and not yet counted it is alone on its entry.
LEMMA AloneAtBump ==
    ASSUME IInv, NEW g \in Proc, NEW h \in Proc, pc[h] = "bump", e[h] = e[g],
           pc[g] \in {"copy", "guard", "bump", "snap"}
    PROVE  h = g
  BY DEF IInv, EntryLocked, EntryLockedBy

\* A step of g that returns the snapshot of its entry keeps the invariant, if nobody
\* is about to count a write of it.  A creation must be the first to know its key.
LEMMA SnapshotStep ==
    ASSUME IInv, HInv, NEW g \in Proc, pc[g] \in {"copy", "snap"},
           m' = m, ent' = ent, call' = call,
           pc' = [pc EXCEPT ![g] = "idle"], e' = [e EXCEPT ![g] = Nil],
           res' = [res EXCEPT ![g] = Result("ok", ent[e[g]].value, ent[e[g]].version)]
    PROVE  HInv'
<1> USE DEF IInv, TypeOK
<1>k. PICK k \in Key : k = call[g].key
  BY HasEntry DEF EntryLabels
<1>x. PICK x : x = ent[e[g]]
  OBVIOUS
<1>g. /\ call[g] \in Calls /\ m[k] = e[g] /\ e[g] # Nil /\ e[g] \in Ref
      /\ x.version \in Nat /\ x.version > 0
      /\ \A l \in Key : m[l] = e[g] => l = k
  BY <1>k, <1>x, HasEntry DEF EntryLabels
<1>r. /\ res'[g].status = "ok" /\ res'[g].value = x.value /\ res'[g].version = x.version
      /\ pc'[g] = "idle"
      /\ \A h \in Proc \ {g} : res'[h] = res[h] /\ pc'[h] = pc[h] /\ e'[h] = e[h]
  BY <1>x, PendingNotOk DEF LocalTypes
<1>b. \A h \in Proc : pc[h] = "bump" => e[h] # e[g]
  BY AloneAtBump
<1>s. \A h \in Proc \ {g} : pc[h] = "snap" => call[h].key # k
  <2> SUFFICES ASSUME NEW h \in Proc \ {g}, pc[h] = "snap", call[h].key = k PROVE FALSE
    OBVIOUS
  <2>1. e[h] = e[g]
    BY <1>g, <1>k, HasEntry DEF EntryLabels
  <2> QED BY <2>1 DEF EntryLocked, EntryLockedBy
<1>c. CurVersion(k) = x.version /\ ValueOf(k) = x.value /\ ~Bumping(m[k])
  BY <1>g, <1>x, <1>b DEF CurVersion, ValueOf, Bumping
<1>d. /\ \A l \in Key : CurVersion(l)' = CurVersion(l) /\ ValueOf(l)' = ValueOf(l)
      /\ \A a : Bumping(a)' <=> Bumping(a)
  <2>1. \A h \in Proc : pc'[h] = "bump" <=> pc[h] = "bump"
    BY <1>r
  <2>2. \A h \in Proc : pc[h] = "bump" => e'[h] = e[h]
    BY <1>r
  <2> QED BY <2>1, <2>2 DEF CurVersion, ValueOf, Bumping
<1>w. call[g].kind = "write" =>
         /\ pc[g] = "snap" /\ x.version = FirstVersion /\ call[g].ifVersion = Nil
         /\ \A h \in Proc : ~Got(h, k)
  BY <1>k, <1>x DEF HInv, Underway, NewEntries, WriteLabels
<1>o. /\ \A h \in Proc \ {g}, l \in Key : Got(h, l)' <=> Got(h, l)
      /\ \A h \in Proc \ {g}, l \in Key : Wrote(h, l)' <=> Wrote(h, l)
      /\ \A l \in Key : Got(g, l)' => l = k
      /\ \A l \in Key : Wrote(g, l)' => l = k /\ call[g].kind = "write"
  BY <1>k, <1>r DEF Got, Wrote
<1>1. Underway'
  BY <1>r DEF HInv, Underway, WriteLabels
<1>2. NewEntries'
  <2> SUFFICES ASSUME NEW a \in Proc, NEW h \in Proc, pc'[a] = "snap", Got(h, call[a].key)'
               PROVE  FALSE
    BY DEF NewEntries
  <2>1. a # g /\ pc[a] = "snap"
    BY <1>r
  <2>2. call[a].key \in Key /\ call[a].key # k
    BY <2>1, <1>s, HasEntry DEF EntryLabels
  <2> QED BY <2>1, <2>2, <1>o DEF HInv, NewEntries
<1>3. Positive'
  BY <1>r, <1>g DEF HInv, History, Positive
<1>4. NoLostUpdate'
  <2> SUFFICES ASSUME NEW l \in Key, NEW a \in Proc, NEW h \in Proc,
                      a # h, Wrote(a, l)', Wrote(h, l)'
               PROVE  res'[a].version # res'[h].version
    BY DEF NoLostUpdate
  <2>1. CASE a # g /\ h # g
    BY <2>1, <1>o, <1>r DEF HInv, History, NoLostUpdate
  <2>2. CASE a = g \/ h = g
    \* g is creating l, so the other one has no snapshot of it
    BY <2>2, <1>o, <1>w DEF Wrote
  <2> QED BY <2>1, <2>2
<1>5. SnapshotsConsistent'
  <2> SUFFICES ASSUME NEW l \in Key, NEW a \in Proc, Got(a, l)'
               PROVE  /\ res'[a].version <= CurVersion(l)
                      /\ res'[a].version = CurVersion(l) /\ ~Bumping(m[l]) =>
                            res'[a].value = ValueOf(l)
                      /\ \A h \in Proc : Got(h, l)' /\ res'[h].version = res'[a].version =>
                                           res'[h].value = res'[a].value
    BY <1>d DEF SnapshotsConsistent
  <2>o. \A h \in Proc \ {g} : Got(h, k)' =>
           /\ res'[h].version <= x.version
           /\ res'[h].version = x.version => res'[h].value = x.value
    BY <1>o, <1>r, <1>c, <1>g DEF HInv, History, SnapshotsConsistent
  <2>1. CASE a = g
    BY <2>1, <2>o, <1>o, <1>r, <1>c, <1>g, SMTT(30)
  <2>2. CASE a # g
    <3>1. Got(a, l) /\ res'[a] = res[a]
      BY <2>2, <1>o, <1>r
    <3>2. ASSUME NEW h \in Proc, Got(h, l)', res'[h].version = res'[a].version
          PROVE  res'[h].value = res'[a].value
      <4>1. CASE h = g
        BY <3>2, <4>1, <2>2, <2>o, <1>o, <1>r
      <4>2. CASE h # g
        BY <3>1, <3>2, <4>2, <1>o, <1>r DEF HInv, History, SnapshotsConsistent
      <4> QED BY <4>1, <4>2
    <3> QED BY <3>1, <3>2 DEF HInv, History, SnapshotsConsistent
  <2> QED BY <2>1, <2>2
<1>6. GuardsHonoured'
  BY <1>r, <1>w DEF HInv, History, GuardsHonoured
<1> QED BY <1>1, <1>2, <1>3, <1>4, <1>5, <1>6 DEF HInv, History

\* Get returns the pair some write produced.
LEMMA CopyHistory == ASSUME IInv, HInv, NEW g \in Proc, Copy(g) PROVE HInv'
  BY SnapshotStep DEF Copy, Return, Goto

\* A creating Write returns the entry it created, and is the first to do so.
LEMMA SnapHistory == ASSUME IInv, HInv, NEW g \in Proc, Snap(g) PROVE HInv'
  BY SnapshotStep DEF Snap, Return, Goto
\* The new value is installed: the key keeps its version, and until it is counted no
\* snapshot is compared with the value.  A refusal is not a snapshot.
LEMMA GuardHistory == ASSUME IInv, HInv, NEW g \in Proc, Guard(g) PROVE HInv'
<1> USE DEF IInv, TypeOK, slocal
<1>k. PICK k \in Key : k = call[g].key
  BY HasEntry DEF EntryLabels, Guard
<1>x. PICK x : x = ent[e[g]]
  OBVIOUS
<1>g. /\ pc[g] = "guard" /\ call[g] \in Calls /\ call[g].kind = "write" /\ res[g] = Pending
      /\ m[k] = e[g] /\ e[g] # Nil /\ e[g] \in Ref /\ \A l \in Key : m[l] = e[g] => l = k
      /\ ~ConflictingGuards(call[g])
      /\ m' = m /\ call' = call
  BY <1>k, HasEntry DEF Guard, EntryLabels, HInv, Underway, WriteLabels
<1>1. CASE Refused(ent[e[g]], call[g])
  <2>1. /\ pc' = [pc EXCEPT ![g] = "idle"] /\ e' = [e EXCEPT ![g] = Nil] /\ ent' = ent
        /\ res' = [res EXCEPT ![g] = Result("mismatch", Nil, ent[e[g]].version)]
    BY <1>1 DEF Guard, Refuse, Return, Goto
  <2> QED BY <1>g, <2>1, QuietStep, PendingNotOk DEF LocalTypes, WriteLabels
<1>2. CASE ~Refused(ent[e[g]], call[g])
  <2>r. /\ \A a \in Ref : a # e[g] => ent'[a] = ent[a]
        /\ ent'[e[g]].version = x.version
        /\ \A a \in Ref : ent'[a].version = ent[a].version
        /\ pc'[g] = "bump" /\ \A h \in Proc \ {g} : pc'[h] = pc[h]
        /\ e' = e /\ res' = res
    <3>1. /\ ent' = [ent EXCEPT ![e[g]] = Assigned(g)]
          /\ pc' = [pc EXCEPT ![g] = "bump"] /\ e' = e /\ res' = res
      BY <1>2 DEF Guard, Update, Goto
    <3>2. Assigned(g).version = x.version
      BY <1>x DEF Assigned
    <3>3. \A a \in Ref : ent'[a] = IF a = e[g] THEN Assigned(g) ELSE ent[a]
      BY <3>1, <1>x, <1>g DEF SharedTypes
    <3>4. \A h \in Proc : pc'[h] = IF h = g THEN "bump" ELSE pc[h]
      BY <3>1 DEF LocalTypes
    <3> QED BY <3>1, <3>2, <3>3, <3>4, <1>x, <1>g
  <2>b. /\ Bumping(m[k])'
        /\ \A a : Bumping(a) => Bumping(a)'
    BY <2>r, <1>g DEF Bumping
  <2>d. /\ \A l \in Key : CurVersion(l)' = CurVersion(l)
        /\ \A l \in Key : l # k => ValueOf(l)' = ValueOf(l)
    BY <2>r, <1>g DEF CurVersion, ValueOf, SharedTypes
  <2>o. /\ \A h \in Proc, l \in Key : Got(h, l)' <=> Got(h, l)
        /\ \A h \in Proc, l \in Key : Wrote(h, l)' <=> Wrote(h, l)
    BY <2>r, <1>g DEF Got, Wrote
  <2>1. Underway'
    <3> SUFFICES ASSUME NEW h \in Proc
                 PROVE  /\ pc'[h] # "idle" => res'[h] = Pending
                        /\ pc'[h] \in WriteLabels => call'[h].kind = "write"
                        /\ pc'[h] \in {"entryRLock", "copy"} => call'[h].kind = "get"
                        /\ pc'[h] \notin {"idle", "guards"} /\ call'[h].kind = "write" =>
                              ~ConflictingGuards(call'[h])
                        /\ pc'[h] = "bump" => ~Refused(ent'[e'[h]], call'[h])
                        /\ pc'[h] = "snap" => /\ call'[h].ifVersion = Nil
                                              /\ ent'[e'[h]].version = FirstVersion
      BY DEF Underway
    <3>1. CASE h = g
      BY <3>1, <2>r, <1>g, <1>x, <1>2 DEF WriteLabels, Refused
    <3>2. CASE h # g
      <4>1. pc[h] \in {"bump", "snap"} => e[h] \in Ref
        BY HasEntry DEF EntryLabels
      <4> QED BY <3>2, <4>1, <2>r, <1>g DEF HInv, Underway, Refused
    <3> QED BY <3>1, <3>2
  <2>2. NewEntries'
    <3>1. \A h \in Proc : pc'[h] = "snap" => pc[h] = "snap" /\ call[h].key \in Key
      BY <2>r, HasEntry DEF EntryLabels
    <3> QED BY <3>1, <2>o, <1>g DEF HInv, NewEntries
  <2>3. Positive' /\ NoLostUpdate' /\ GuardsHonoured'
    BY <2>r, <2>o, <1>g DEF HInv, History, Positive, NoLostUpdate, GuardsHonoured
  <2>4. SnapshotsConsistent'
    <3> SUFFICES ASSUME NEW l \in Key, NEW a \in Proc, Got(a, l)'
                 PROVE  /\ res[a].version <= CurVersion(l)
                        /\ res[a].version = CurVersion(l) /\ ~Bumping(m[l])' =>
                              res[a].value = ValueOf(l)'
                        /\ \A h \in Proc : Got(h, l)' /\ res[h].version = res[a].version =>
                                             res[h].value = res[a].value
      BY <2>d, <2>r, <1>g DEF SnapshotsConsistent
    <3>1. CASE l = k
      BY <3>1, <2>o, <2>b, <1>g DEF HInv, History, SnapshotsConsistent
    <3>2. CASE l # k
      <4>1. Bumping(m[l]) => Bumping(m[l])'
        BY <2>r, <1>g DEF Bumping
      <4> QED BY <3>2, <4>1, <2>o, <2>d DEF HInv, History, SnapshotsConsistent
    <3> QED BY <3>1, <3>2
  <2> QED BY <2>1, <2>2, <2>3, <2>4 DEF HInv, History
<1> QED BY <1>1, <1>2

\* The increment: the version returned is beyond every snapshot of the key so far.
LEMMA BumpHistory == ASSUME IInv, HInv, NEW g \in Proc, Bump(g) PROVE HInv'
<1> USE DEF IInv, TypeOK, slocal
<1>k. PICK k \in Key : k = call[g].key
  BY HasEntry DEF EntryLabels, Bump
<1>x. PICK x : x = ent[e[g]]
  OBVIOUS
<1>g. /\ pc[g] = "bump" /\ call[g] \in Calls /\ call[g].kind = "write"
      /\ m[k] = e[g] /\ e[g] # Nil /\ e[g] \in Ref /\ \A l \in Key : m[l] = e[g] => l = k
      /\ ~Refused(x, call[g]) /\ x.version \in Nat
      /\ m' = m /\ call' = call
  BY <1>k, <1>x, HasEntry DEF Bump, EntryLabels, HInv, Underway, WriteLabels
<1>r. /\ \A a \in Ref : a # e[g] => ent'[a] = ent[a]
      /\ ent'[e[g]].version = x.version + 1 /\ ent'[e[g]].value = x.value
      /\ pc'[g] = "idle" /\ res'[g].status = "ok"
      /\ res'[g].value = x.value /\ res'[g].version = x.version + 1
      /\ \A h \in Proc \ {g} : pc'[h] = pc[h] /\ e'[h] = e[h] /\ res'[h] = res[h]
  BY <1>x, <1>g, PendingNotOk DEF Bump, Return, Goto, LocalTypes, SharedTypes
<1>d. /\ CurVersion(k) = x.version /\ CurVersion(k)' = x.version + 1
      /\ ValueOf(k)' = x.value
      /\ \A l \in Key : l # k => CurVersion(l)' = CurVersion(l) /\ ValueOf(l)' = ValueOf(l)
  BY <1>r, <1>g, <1>x DEF CurVersion, ValueOf, SharedTypes
<1>o. /\ \A h \in Proc \ {g}, l \in Key : Got(h, l)' <=> Got(h, l)
      /\ \A h \in Proc \ {g}, l \in Key : Wrote(h, l)' <=> Wrote(h, l)
      /\ \A l \in Key : Got(g, l)' => l = k
      /\ \A l \in Key : Wrote(g, l)' => l = k
  BY <1>k, <1>r, <1>g DEF Got, Wrote
<1>p. \A h \in Proc \ {g} : Got(h, k) => res[h].version <= x.version /\ res[h].version \in Nat
  BY <1>d DEF HInv, History, SnapshotsConsistent, LocalTypes, Results
<1>1. Underway'
  <2> SUFFICES ASSUME NEW h \in Proc
               PROVE  /\ pc'[h] # "idle" => res'[h] = Pending
                      /\ pc'[h] \in WriteLabels => call'[h].kind = "write"
                      /\ pc'[h] \in {"entryRLock", "copy"} => call'[h].kind = "get"
                      /\ pc'[h] \notin {"idle", "guards"} /\ call'[h].kind = "write" =>
                            ~ConflictingGuards(call'[h])
                      /\ pc'[h] = "bump" => ~Refused(ent'[e'[h]], call'[h])
                      /\ pc'[h] = "snap" => /\ call'[h].ifVersion = Nil
                                            /\ ent'[e'[h]].version = FirstVersion
    BY DEF Underway
  <2>1. CASE h = g
    BY <2>1, <1>r DEF WriteLabels
  <2>2. CASE h # g
    \* nobody else who relies on a version is at this entry
    <3>1. pc[h] \in {"bump", "snap"} => e[h] \in Ref /\ e[h] # e[g]
      BY <2>2, <1>g, AloneAtBump, HasEntry DEF EntryLabels
    <3> QED BY <2>2, <3>1, <1>r, <1>g DEF HInv, Underway
  <2> QED BY <2>1, <2>2
<1>2. NewEntries'
  <2> SUFFICES ASSUME NEW a \in Proc, NEW h \in Proc, pc'[a] = "snap", Got(h, call[a].key)'
               PROVE  FALSE
    BY <1>g DEF NewEntries
  <2>1. a # g /\ pc[a] = "snap" /\ call[a].key \in Key
    BY <1>r, HasEntry DEF EntryLabels
  <2>2. call[a].key # k
    BY <2>1, <1>g, AloneAtBump, HasEntry DEF EntryLabels
  <2> QED BY <2>1, <2>2, <1>o, <1>g DEF HInv, NewEntries
<1>3. Positive'
  BY <1>r, <1>g DEF HInv, History, Positive
<1>4. NoLostUpdate'
  <2> SUFFICES ASSUME NEW l \in Key, NEW a \in Proc, NEW h \in Proc,
                      a # h, Wrote(a, l)', Wrote(h, l)'
               PROVE  res'[a].version # res'[h].version
    BY DEF NoLostUpdate
  <2>1. CASE a # g /\ h # g
    BY <2>1, <1>o, <1>r DEF HInv, History, NoLostUpdate
  <2>2. CASE a = g \/ h = g
    BY <2>2, <1>o, <1>p, <1>r, <1>g DEF Wrote
  <2> QED BY <2>1, <2>2
<1>5. SnapshotsConsistent'
  <2> SUFFICES ASSUME NEW l \in Key, NEW a \in Proc, Got(a, l)'
               PROVE  /\ res'[a].version <= CurVersion(l)'
                      /\ res'[a].version = CurVersion(l)' /\ ~Bumping(m[l])' =>
                            res'[a].value = ValueOf(l)'
                      /\ \A h \in Proc : Got(h, l)' /\ res'[h].version = res'[a].version =>
                                           res'[h].value = res'[a].value
    BY DEF SnapshotsConsistent
  <2>1. CASE a = g
    BY <2>1, <1>o, <1>p, <1>r, <1>d, <1>g
  <2>2. CASE a # g /\ l = k
    <3>1. Got(a, k) /\ res'[a] = res[a] /\ res[a].version <= x.version /\ res[a].version \in Nat
      BY <2>2, <1>o, <1>p, <1>r
    <3>2. ASSUME NEW h \in Proc, Got(h, k)', res'[h].version = res'[a].version
          PROVE  res'[h].value = res'[a].value
      BY <3>1, <3>2, <1>o, <1>r, <1>g DEF HInv, History, SnapshotsConsistent
    <3> QED BY <2>2, <3>1, <3>2, <1>d, <1>g
  <2>3. CASE a # g /\ l # k
    <3>1. /\ Got(a, l) /\ res'[a] = res[a]
          /\ \A h \in Proc : Got(h, l)' => Got(h, l) /\ res'[h] = res[h]
      BY <2>3, <1>o, <1>r
    <3>2. Bumping(m[l]) => Bumping(m[l])'
      BY <2>3, <1>r, <1>g DEF Bumping
    <3> QED BY <2>3, <3>1, <3>2, <1>d DEF HInv, History, SnapshotsConsistent
  <2> QED BY <2>1, <2>2, <2>3
<1>6. GuardsHonoured'
  <2>1. ~call[g].ifAbsent /\ (call[g].ifVersion # Nil => call[g].ifVersion = x.version)
    BY <1>g DEF Refused
  <2> QED BY <2>1, <1>r, <1>g DEF HInv, History, GuardsHonoured
<1> QED BY <1>1, <1>2, <1>3, <1>4, <1>5, <1>6 DEF HInv, History
\* A creation: nobody has a snapshot of an absent key, and the new entry is nobody
\* else's.
LEMMA CreateHistory ==
    ASSUME IInv, HInv, NEW g \in Proc, pc[g] = "insert", m[call[g].key] = Nil,
           call[g].ifVersion = Nil, Create(g), call' = call
    PROVE  HInv'
<1> USE DEF IInv, TypeOK
<1>k. PICK k \in Key : k = call[g].key
  BY CallFields DEF LocalTypes
<1>0. PICK r \in Ref :
        /\ \A l \in Key : m[l] # r
        /\ \A h \in Proc : e[h] # r
        /\ ent' = [ent EXCEPT ![r] = [value |-> call[g].body, version |-> FirstVersion]]
        /\ m' = [m EXCEPT ![call[g].key] = r]
        /\ e' = [e EXCEPT ![g] = r]
        /\ pc' = [pc EXCEPT ![g] = "snap"]
        /\ res' = res
  BY DEF Create, FreeRef, Goto
<1>g. /\ call[g].kind = "write" /\ res[g] = Pending /\ ~ConflictingGuards(call[g])
      /\ m[k] = Nil /\ r # Nil
  BY <1>k, StoreAssumption DEF HInv, Underway, WriteLabels
<1>r. /\ pc'[g] = "snap" /\ e'[g] = r
      /\ \A h \in Proc \ {g} : pc'[h] = pc[h] /\ e'[h] = e[h]
      /\ ent'[r].version = FirstVersion /\ \A a \in Ref : a # r => ent'[a] = ent[a]
      /\ \A l \in Key : l # k => m'[l] = m[l]
  BY <1>0, <1>k DEF LocalTypes, SharedTypes
<1>n. \A h \in Proc : ~Got(h, k)
  \* a snapshot has a version of at least 1, and an absent key has version 0
  <2> SUFFICES ASSUME NEW h \in Proc, Got(h, k) PROVE FALSE
    OBVIOUS
  <2>1. res[h].version \in Nat /\ res[h].version > 0
    BY DEF HInv, History, Positive, Got, LocalTypes, Results
  <2>2. res[h].version <= CurVersion(k) /\ CurVersion(k) = 0
    BY <1>g DEF HInv, History, SnapshotsConsistent, CurVersion
  <2> QED BY <2>1, <2>2
<1>o. /\ \A h \in Proc, l \in Key : Got(h, l)' <=> Got(h, l)
      /\ \A h \in Proc, l \in Key : Wrote(h, l)' <=> Wrote(h, l)
  BY <1>0 DEF Got, Wrote
<1>d. \A l \in Key : l # k => CurVersion(l)' = CurVersion(l) /\ ValueOf(l)' = ValueOf(l)
  BY <1>0, <1>r DEF CurVersion, ValueOf, SharedTypes
<1>1. Underway'
  <2> SUFFICES ASSUME NEW h \in Proc
               PROVE  /\ pc'[h] # "idle" => res'[h] = Pending
                      /\ pc'[h] \in WriteLabels => call'[h].kind = "write"
                      /\ pc'[h] \in {"entryRLock", "copy"} => call'[h].kind = "get"
                      /\ pc'[h] \notin {"idle", "guards"} /\ call'[h].kind = "write" =>
                            ~ConflictingGuards(call'[h])
                      /\ pc'[h] = "bump" => ~Refused(ent'[e'[h]], call'[h])
                      /\ pc'[h] = "snap" => /\ call'[h].ifVersion = Nil
                                            /\ ent'[e'[h]].version = FirstVersion
    BY DEF Underway
  <2>1. CASE h = g
    BY <2>1, <1>0, <1>r, <1>g DEF WriteLabels
  <2>2. CASE h # g
    <3>1. pc[h] \in {"bump", "snap"} => e[h] \in Ref /\ e[h] # r
      BY <1>0, HasEntry DEF EntryLabels
    <3> QED BY <2>2, <3>1, <1>0, <1>r DEF HInv, Underway
  <2> QED BY <2>1, <2>2
<1>2. NewEntries'
  <2> SUFFICES ASSUME NEW a \in Proc, NEW h \in Proc, pc'[a] = "snap", Got(h, call[a].key)'
               PROVE  FALSE
    BY DEF NewEntries
  <2>1. call[a].key \in Key
    BY <1>k, <1>r, HasEntry DEF EntryLabels
  <2> QED BY <2>1, <1>k, <1>r, <1>o, <1>n DEF HInv, NewEntries
<1>3. Positive' /\ NoLostUpdate' /\ GuardsHonoured'
  BY <1>0, <1>o DEF HInv, History, Positive, NoLostUpdate, GuardsHonoured
<1>4. SnapshotsConsistent'
  <2> SUFFICES ASSUME NEW l \in Key, NEW a \in Proc, Got(a, l)
               PROVE  /\ res[a].version <= CurVersion(l)'
                      /\ res[a].version = CurVersion(l)' /\ ~Bumping(m[l])' =>
                            res[a].value = ValueOf(l)'
                      /\ \A h \in Proc : Got(h, l)' /\ res[h].version = res[a].version =>
                                           res[h].value = res[a].value
    BY <1>o, <1>0 DEF SnapshotsConsistent
  <2>1. l # k
    BY <1>n
  <2>2. Bumping(m[l]) => Bumping(m[l])'
    BY <2>1, <1>r DEF Bumping
  <2> QED BY <2>1, <2>2, <1>d, <1>o DEF HInv, History, SnapshotsConsistent
<1> QED BY <1>1, <1>2, <1>3, <1>4 DEF HInv, History

\* The critical section of a creating Write.
LEMMA InsertHistory == ASSUME IInv, HInv, NEW g \in Proc, Insert(g) PROVE HInv'
<1> USE DEF IInv, TypeOK, LocalTypes, slocal
<1>u. /\ call' = call /\ pc[g] = "insert" /\ res[g] = Pending
      /\ call[g].kind = "write" /\ ~ConflictingGuards(call[g])
  BY DEF Insert, HInv, Underway, WriteLabels
<1>1. CASE m[call[g].key] # Nil
  <2>1. pc' = [pc EXCEPT ![g] = "rlock"] /\ m' = m /\ ent' = ent /\ e' = e /\ res' = res
    BY <1>1 DEF Insert, StillAbsent, Goto
  <2> QED BY <1>u, <2>1, QuietStep, PendingNotOk DEF WriteLabels
<1>2. CASE m[call[g].key] = Nil /\ call[g].ifVersion # Nil
  <2>1. /\ pc' = [pc EXCEPT ![g] = "idle"] /\ e' = [e EXCEPT ![g] = Nil]
        /\ m' = m /\ ent' = ent /\ res' = [res EXCEPT ![g] = Result("mismatch", Nil, 0)]
    BY <1>2 DEF Insert, StillAbsent, Return, Goto
  <2> QED BY <1>u, <2>1, QuietStep, PendingNotOk DEF WriteLabels
<1>3. CASE m[call[g].key] = Nil /\ call[g].ifVersion = Nil
  BY <1>3, <1>u, CreateHistory DEF Insert, StillAbsent
<1> QED BY <1>1, <1>2, <1>3

\* A new store, where nobody has called yet.
LEMMA InitHInv == Init => HInv
<1> SUFFICES ASSUME Init PROVE HInv
  OBVIOUS
<1>1. \A g \in Proc : pc[g] = "idle" /\ res[g].status # "ok"
  BY DEF Init, NoResult, Result
<1> QED BY <1>1 DEF HInv, Underway, WriteLabels, NewEntries, History, Positive, NoLostUpdate,
                    SnapshotsConsistent, GuardsHonoured, Got, Wrote

\* Every step keeps the invariant; Keys and Len change nothing it speaks of.
LEMMA NextHInv == IInv /\ HInv /\ [Next]_vars => HInv'
<1> SUFFICES ASSUME IInv, HInv, [Next]_vars PROVE HInv'
  OBVIOUS
<1>1. CASE UNCHANGED <<m, ent, local>>
  <2>1. Underway' /\ NewEntries'
    BY <1>1 DEF HInv, Underway, NewEntries, Got, local
  <2>2. History'
    BY <1>1, HistoryFrame DEF HInv, local
  <2> QED BY <2>1, <2>2 DEF HInv
<1>2. ASSUME NEW g \in Proc, Invoke(g) \/ Step(g) PROVE HInv'
  BY <1>2, InvokeHistory, CheckGuardsHistory, PartRLockHistory, LookupHistory,
     EntryRLockHistory, CopyHistory, EntryLockHistory, GuardHistory, BumpHistory,
     PartLockHistory, InsertHistory, SnapHistory DEF Step
<1>3. ASSUME NEW s \in Scanner, BeginScan(s) \/ ScanStep(s) PROVE UNCHANGED <<m, ent, local>>
  BY <1>3 DEF ScanStep, BeginScan, ScanRLock, ScanCopy, Yield, NextPartition, shared
<1> QED BY <1>1, <1>2, <1>3 DEF Next, vars, local

\* What the callers know holds in every reachable state.
LEMMA HistoryInvariance == Spec => []HInv
  BY InitHInv, NextHInv, Invariance, PTL DEF Spec

\* Two writes of one key that succeeded never report the same version, whatever the
\* goroutines, the partitions and the calls: no update is lost.
THEOREM UpdatesAreKept == Spec => []NoLostUpdate
<1>1. HInv => NoLostUpdate BY DEF HInv, History
<1> QED BY <1>1, HistoryInvariance, PTL

\* Whoever reads a key at one version reads the same value, and nobody is ahead of the
\* store: snapshots never mix two writes, although value and version are written by
\* two statements.
THEOREM SnapshotsAgree == Spec => []SnapshotsConsistent
<1>1. HInv => SnapshotsConsistent BY DEF HInv, History
<1> QED BY <1>1, HistoryInvariance, PTL

\* A guarded write that succeeded did so on the version it named, and a create-only
\* write created the key.
THEOREM GuardsAreHonoured == Spec => []GuardsHonoured
<1>1. HInv => GuardsHonoured BY DEF HInv, History
<1> QED BY <1>1, HistoryInvariance, PTL
-----------------------------------------------------------------------------
\* One step of the store moves a key's version by at most one, and changes the value
\* of a present key only under its entry's lock.
LEMMA StepCountsWrites ==
    ASSUME IInv, Next, NEW k \in Key
    PROVE  /\ CurVersion(k)' \in {CurVersion(k), CurVersion(k) + 1}
           /\ (m[k] # Nil /\ ValueOf(k)' # ValueOf(k)) =>
                 \E g \in Proc : emu[m[k]].writer = g
<1> USE DEF IInv, TypeOK
<1>1. CASE UNCHANGED <<m, ent>>
  BY <1>1 DEF CurVersion, ValueOf
<1>2. ASSUME NEW g \in Proc, Guard(g), ~Refused(ent[e[g]], call[g])
      PROVE  /\ CurVersion(k)' = CurVersion(k)
             /\ ValueOf(k)' # ValueOf(k) => emu[m[k]].writer = g
  <2>1. /\ m' = m /\ e[g] \in Ref /\ emu[e[g]].writer = g
        /\ ent'[e[g]].version = ent[e[g]].version
        /\ \A a \in Ref : a # e[g] => ent'[a] = ent[a]
    BY <1>2, HasEntry
    DEF Guard, Update, Assigned, EntryLabels, EntryLocked, EntryLockedBy, SharedTypes
  <2> QED BY <2>1 DEF CurVersion, ValueOf, SharedTypes
<1>3. ASSUME NEW g \in Proc, Bump(g)
      PROVE  /\ CurVersion(k)' \in {CurVersion(k), CurVersion(k) + 1}
             /\ ValueOf(k)' = ValueOf(k)
  <2>1. /\ m' = m /\ e[g] \in Ref
        /\ ent'[e[g]].version = ent[e[g]].version + 1
        /\ ent'[e[g]].value = ent[e[g]].value
        /\ \A a \in Ref : a # e[g] => ent'[a] = ent[a]
    BY <1>3, HasEntry DEF Bump, EntryLabels, SharedTypes
  <2> QED BY <2>1 DEF CurVersion, ValueOf, SharedTypes
<1>4. ASSUME NEW g \in Proc, m[call[g].key] = Nil, Create(g), pc[g] = "insert"
      PROVE  /\ CurVersion(k)' \in {CurVersion(k), CurVersion(k) + 1}
             /\ m[k] # Nil => ValueOf(k)' = ValueOf(k)
  <2>0. call[g].key \in Key
    BY <1>4, CallFields DEF LocalTypes
  <2>1. PICK r \in Ref :
          /\ \A l \in Key : m[l] # r
          /\ ent'[r].version = FirstVersion
          /\ \A a \in Ref : a # r => ent'[a] = ent[a]
          /\ m'[call[g].key] = r /\ \A l \in Key : l # call[g].key => m'[l] = m[l]
    BY <1>4, <2>0 DEF Create, FreeRef, SharedTypes
  <2>2. CASE k = call[g].key
    BY <2>1, <2>2, <1>4, StoreAssumption DEF CurVersion, ValueOf, FirstVersion
  <2>3. CASE k # call[g].key
    BY <2>1, <2>3 DEF CurVersion, ValueOf, SharedTypes
  <2> QED BY <2>2, <2>3
<1>5. ASSUME NEW g \in Proc, Invoke(g) \/ Step(g)
      PROVE  \/ UNCHANGED <<m, ent>>
             \/ Guard(g) /\ ~Refused(ent[e[g]], call[g])
             \/ Bump(g)
             \/ m[call[g].key] = Nil /\ Create(g) /\ pc[g] = "insert"
  BY <1>5 DEF Step, Invoke, CheckGuards, PartRLock, Lookup, EntryRLock, Copy, EntryLock,
              Guard, Refuse, PartLock, Insert, StillAbsent, Snap, shared
<1>6. ASSUME NEW s \in Scanner, BeginScan(s) \/ ScanStep(s) PROVE UNCHANGED <<m, ent>>
  BY <1>6 DEF ScanStep, BeginScan, ScanRLock, ScanCopy, Yield, NextPartition, shared
<1>7. ASSUME NEW g \in Proc, Invoke(g) \/ Step(g)
      PROVE  /\ CurVersion(k)' \in {CurVersion(k), CurVersion(k) + 1}
             /\ (m[k] # Nil /\ ValueOf(k)' # ValueOf(k)) =>
                   \E h \in Proc : emu[m[k]].writer = h
  BY <1>1, <1>2, <1>3, <1>4, <1>5, <1>7
<1> QED BY <1>1, <1>6, <1>7 DEF Next

\* The history of a key is the history of its writes: its version moves by one at a
\* time and never back, and its value changes only under the entry's lock.
THEOREM HistoryIsWrites == Spec => VersionsCountWrites
<1>1. IInv /\ [Next]_vars =>
        [\A k \in Key :
            /\ CurVersion(k)' \in {CurVersion(k), CurVersion(k) + 1}
            /\ (m[k] # Nil /\ ValueOf(k)' # ValueOf(k)) =>
                  \E g \in Proc : emu[m[k]].writer = g]_vars
  BY StepCountsWrites
<1> QED BY <1>1, Invariance, PTL DEF Spec, VersionsCountWrites
-----------------------------------------------------------------------------
(* Refinement: the store implements the atomic map.  A call takes effect    *)
(* at its early return, at the notFound of a lookup, when a Get copies the  *)
(* entry, when a Write installs its value or is refused under the entry's   *)
(* lock, and when a Write creates the entry; every other step stutters.     *)

\* A goroutine outside a call has an answer.
Returned == \A g \in Proc : pc[g] = "idle" => res[g] # Pending

\* A call ends with a result, and the next one begins without.
LEMMA ReturnedStep == IInv /\ Returned /\ [Next]_vars => Returned'
<1> SUFFICES ASSUME IInv, Returned, [Next]_vars PROVE Returned'
  OBVIOUS
<1> USE DEF IInv, TypeOK, LocalTypes
<1>1. CASE UNCHANGED local
  BY <1>1 DEF Returned, local
<1>2. ASSUME NEW g \in Proc, NEW l, l # "idle", Goto(g, l),
             \A h \in Proc \ {g} : res'[h] = res[h]
      PROVE  Returned'
  BY <1>2 DEF Returned, Goto
<1>3. ASSUME NEW g \in Proc, NEW s, s # "pending", NEW v, NEW n, Return(g, Result(s, v, n))
      PROVE  Returned'
  <2>1. Result(s, v, n) # Pending
    BY <1>3, PendingNotOk
  <2> QED BY <1>3, <2>1 DEF Returned, Return, Goto
<1>4. ASSUME NEW g \in Proc, Invoke(g) PROVE Returned'
  BY <1>4, <1>2 DEF Invoke
<1>5. ASSUME NEW g \in Proc, CheckGuards(g) \/ Lookup(g) \/ Guard(g) PROVE Returned'
  BY <1>5, <1>2, <1>3 DEF CheckGuards, Lookup, Guard, Refuse, Update
<1>6. ASSUME NEW g \in Proc, PartRLock(g) \/ EntryRLock(g) \/ EntryLock(g) \/ PartLock(g)
      PROVE  Returned'
  BY <1>6, <1>2 DEF PartRLock, EntryRLock, EntryLock, PartLock
<1>7. ASSUME NEW g \in Proc, Copy(g) \/ Bump(g) \/ Snap(g) PROVE Returned'
  BY <1>7, <1>3 DEF Copy, Bump, Snap
<1>8. ASSUME NEW g \in Proc, Insert(g) PROVE Returned'
  BY <1>8, <1>2, <1>3 DEF Insert, Create
<1>9. ASSUME NEW s \in Scanner, BeginScan(s) \/ ScanStep(s) PROVE UNCHANGED local
  BY <1>9 DEF ScanStep, BeginScan, ScanRLock, ScanCopy, Yield, NextPartition
<1> QED BY <1>1, <1>4, <1>5, <1>6, <1>7, <1>8, <1>9 DEF Next, Step, vars, local

\* Outside a call there is a result, in every reachable state.
LEMMA ReturnedInvariance == Spec => []Returned
<1>1. Init => Returned
  BY DEF Init, Returned, NoResult, Pending, Result
<1> QED BY <1>1, ReturnedStep, Invariance, PTL DEF Spec

\* A step that changes no abstract entry and no abstract result is a stutter of the map.
LEMMA Stutters ==
    ASSUME \A k \in Key : AbsDb'[k] = AbsDb[k], \A g \in Proc : AbsRes'[g] = AbsRes[g],
           call' = call
    PROVE  UNCHANGED Abs!vars
<1>1. AbsDb' = AbsDb
  BY DEF AbsDb
<1>2. AbsRes' = AbsRes
  BY DEF AbsRes
<1> QED BY <1>1, <1>2 DEF Abs!vars

\* A step at which the call of g takes effect.
LEMMA TakesEffect ==
    ASSUME NEW g \in Proc, NEW k \in Key, k = call[g].key, AbsRes[g] = Pending,
           call' = call,
           \A l \in Key \ {k} : AbsDb'[l] = AbsDb[l],
           \A h \in Proc \ {g} : AbsRes'[h] = AbsRes[h],
           AbsDb'[k] = Abs!Effect(AbsDb[k], call[g]),
           AbsRes'[g] = Abs!Outcome(AbsDb[k], call[g])
    PROVE  Abs!Next
<1> DEFINE D == Abs!Effect(AbsDb[k], call[g])
           R == Abs!Outcome(AbsDb[k], call[g])
<1>1. AbsDb' = [AbsDb EXCEPT ![k] = D]
  <2> HIDE DEF D
  <2>1. AbsDb' = [l \in Key |-> AbsDb'[l]] /\ AbsDb = [l \in Key |-> AbsDb[l]]
    BY DEF AbsDb
  <2>2. AbsDb'[k] = D
    BY DEF D
  <2> QED BY <2>1, <2>2
<1>2. AbsRes' = [AbsRes EXCEPT ![g] = R]
  <2> HIDE DEF R
  <2>1. AbsRes' = [h \in Proc |-> AbsRes'[h]] /\ AbsRes = [h \in Proc |-> AbsRes[h]]
    BY DEF AbsRes
  <2>2. AbsRes'[g] = R
    BY DEF R
  <2> QED BY <2>1, <2>2
<1>3. Abs!Pending = Pending
  BY DEF Abs!Pending, Pending, Abs!Result, Result
<1>4. Abs!TakeEffect(g)
  BY <1>1, <1>2, <1>3 DEF Abs!TakeEffect
<1> QED BY <1>4 DEF Abs!Next

\* A step of g that leaves maps and entries alone and neither begins nor ends a write's
\* last step changes at most the result of g.
LEMMA QuietAbs ==
    ASSUME IInv, NEW g \in Proc, m' = m, ent' = ent,
           \A h \in Proc \ {g} : pc'[h] = pc[h] /\ e'[h] = e[h] /\ res'[h] = res[h],
           pc[g] \notin {"bump", "snap"}, pc'[g] \notin {"bump", "snap"}
    PROVE  /\ \A k \in Key : AbsDb'[k] = AbsDb[k]
           /\ \A h \in Proc \ {g} : AbsRes'[h] = AbsRes[h]
           /\ AbsRes[g] = res[g] /\ AbsRes'[g] = res'[g]
<1>1. \A r : Bumping(r)' <=> Bumping(r)
  BY DEF Bumping
<1>2. \A k \in Key : CurVersion(k)' = CurVersion(k) /\ ValueOf(k)' = ValueOf(k)
  BY DEF CurVersion, ValueOf
<1>3. \A k \in Key : AbsDb'[k] = AbsDb[k]
  BY <1>1, <1>2 DEF AbsDb
<1>4. \A h \in Proc \ {g} : AbsRes'[h] = AbsRes[h]
  BY DEF AbsRes
<1> QED BY <1>3, <1>4 DEF AbsRes

\* The abstract entry of an absent key, and of a key nobody is about to count.
LEMMA AbsEntries ==
    ASSUME IInv, NEW k \in Key
    PROVE  /\ m[k] = Nil => AbsDb[k] = Abs!Absent
           /\ m[k] # Nil => AbsDb[k] # Abs!Absent
           /\ m[k] # Nil /\ ~Bumping(m[k]) =>
                 AbsDb[k] = [value |-> ent[m[k]].value, version |-> ent[m[k]].version]
<1>1. m[k] # Nil => ent[m[k]].version \in Nat /\ ent[m[k]].version > 0
  BY DEF IInv, TypeOK, SharedTypes, Published, CurVersion
<1> QED BY <1>1 DEF AbsDb, Abs!Absent, ValueOf, CurVersion

\* The vocabulary of the map is the store's.
LEMMA AbsVocabulary ==
    ASSUME NEW c, NEW x, x # Abs!Absent
    PROVE  /\ Abs!ConflictingGuards(c) <=> ConflictingGuards(c)
           /\ \A s, v, n : Abs!Result(s, v, n) = Result(s, v, n)
           /\ Abs!GuardFails(x, c) <=> Refused(x, c)
           /\ Abs!GuardFails(Abs!Absent, c) <=> c.ifVersion # Nil
           /\ Abs!Written(x, c) = [value |-> Compute(x.value, c), version |-> x.version + 1]
           /\ Abs!Written(Abs!Absent, c) = [value |-> c.body, version |-> FirstVersion]
<1>1. Abs!Compute(x.value, c) = Compute(x.value, c)
  BY DEF Abs!Compute, Compute
<1>2. Abs!GuardFails(x, c) <=> Refused(x, c)
  BY DEF Abs!GuardFails, Refused
<1>3. Abs!GuardFails(Abs!Absent, c) <=> c.ifVersion # Nil
  BY DEF Abs!GuardFails
<1> QED BY <1>1, <1>2, <1>3 DEF Abs!ConflictingGuards, ConflictingGuards, Abs!Result, Result,
                    Abs!Written, Abs!FirstVersion, FirstVersion

\* A call of the store is a call of the map.
LEMMA InvokeRefines ==
    ASSUME IInv, HInv, Returned, NEW g \in Proc, Invoke(g) PROVE Abs!Next
<1> USE DEF IInv, TypeOK, LocalTypes, shared
<1>0. PICK c \in Workload[g] : call' = [call EXCEPT ![g] = c]
  BY DEF Invoke
<1>u. /\ m' = m /\ ent' = ent /\ pc[g] = "idle" /\ pc'[g] \in {"guards", "rlock"}
      /\ res' = [res EXCEPT ![g] = Pending] /\ res'[g] = Pending
      /\ \A h \in Proc \ {g} : pc'[h] = pc[h] /\ e'[h] = e[h] /\ res'[h] = res[h]
  BY DEF Invoke, Goto
<1>1. /\ \A k \in Key : AbsDb'[k] = AbsDb[k]
      /\ \A h \in Proc \ {g} : AbsRes'[h] = AbsRes[h]
      /\ AbsRes[g] = res[g] /\ AbsRes'[g] = res'[g]
  BY <1>u, QuietAbs
<1>2. AbsDb' = AbsDb
  BY <1>1 DEF AbsDb
<1>3. AbsRes' = [AbsRes EXCEPT ![g] = Pending]
  <2>1. AbsRes' = [h \in Proc |-> AbsRes'[h]] /\ AbsRes = [h \in Proc |-> AbsRes[h]]
    BY DEF AbsRes
  <2> QED BY <2>1, <1>1, <1>u
<1>4. AbsRes[g] # Pending
  BY <1>1, <1>u DEF Returned
<1>5. Abs!Pending = Pending
  BY DEF Abs!Pending, Pending, Abs!Result, Result
<1>6. Abs!Invoke(g)
  BY <1>0, <1>2, <1>3, <1>4, <1>5 DEF Abs!Invoke
<1> QED BY <1>6 DEF Abs!Next

\* A step of g that returns the answer the abstract map gives, and changes nothing.
LEMMA AnswerRefines ==
    ASSUME IInv, HInv, NEW g \in Proc, NEW r, m' = m, ent' = ent, call' = call,
           pc[g] \notin {"idle", "bump", "snap"}, Return(g, r),
           call[g] \in Calls,
           Abs!Effect(AbsDb[call[g].key], call[g]) = AbsDb[call[g].key],
           Abs!Outcome(AbsDb[call[g].key], call[g]) = r
    PROVE  Abs!Next
<1> USE DEF IInv, TypeOK, LocalTypes
<1>u. /\ pc'[g] = "idle" /\ res'[g] = r /\ res[g] = Pending
      /\ \A h \in Proc \ {g} : pc'[h] = pc[h] /\ e'[h] = e[h] /\ res'[h] = res[h]
  BY DEF Return, Goto, HInv, Underway
<1>1. /\ \A k \in Key : AbsDb'[k] = AbsDb[k]
      /\ \A h \in Proc \ {g} : AbsRes'[h] = AbsRes[h]
      /\ AbsRes[g] = res[g] /\ AbsRes'[g] = res'[g]
  BY <1>u, QuietAbs
<1>k. PICK k \in Key : k = call[g].key
  BY CallFields
<1> QED BY <1>u, <1>1, <1>k, TakesEffect

\* A step of g that only moves on, inside its call.
LEMMA MoveRefines ==
    ASSUME IInv, NEW g \in Proc, m' = m, ent' = ent, call' = call, res' = res,
           \A h \in Proc \ {g} : pc'[h] = pc[h] /\ e'[h] = e[h],
           pc[g] \notin {"bump", "snap"}, pc'[g] \notin {"bump", "snap"}
    PROVE  UNCHANGED Abs!vars
<1>1. /\ \A k \in Key : AbsDb'[k] = AbsDb[k]
      /\ \A h \in Proc \ {g} : AbsRes'[h] = AbsRes[h]
      /\ AbsRes[g] = res[g] /\ AbsRes'[g] = res'[g]
  BY QuietAbs
<1> QED BY <1>1, Stutters

\* Waiting for a mutex, and getting it, is a stutter of the map.
LEMMA LockRefines ==
    ASSUME IInv, NEW g \in Proc, PartRLock(g) \/ EntryRLock(g) \/ EntryLock(g) \/ PartLock(g)
    PROVE  UNCHANGED Abs!vars
<1>1. /\ m' = m /\ ent' = ent /\ call' = call /\ res' = res /\ e' = e
      /\ \A h \in Proc \ {g} : pc'[h] = pc[h]
      /\ pc[g] \notin {"bump", "snap"} /\ pc'[g] \notin {"bump", "snap"}
  BY DEF PartRLock, EntryRLock, EntryLock, PartLock, Goto, IInv, TypeOK, LocalTypes
<1> QED BY <1>1, MoveRefines

\* A write with conflicting guards takes effect at its early return.
LEMMA CheckGuardsRefines ==
    ASSUME IInv, HInv, NEW g \in Proc, CheckGuards(g) PROVE Abs!Next \/ UNCHANGED Abs!vars
<1> USE DEF IInv, TypeOK, LocalTypes, shared
<1>u. /\ m' = m /\ ent' = ent /\ call' = call /\ pc[g] = "guards"
      /\ call[g].kind = "write" /\ call[g] \in Calls
  BY DEF CheckGuards, HInv, Underway, WriteLabels
<1>1. CASE ConflictingGuards(call[g])
  <2>1. Abs!ConflictingGuards(call[g])
    BY <1>1 DEF ConflictingGuards, Abs!ConflictingGuards
  <2>2. \A x : Abs!Effect(x, call[g]) = x
               /\ Abs!Outcome(x, call[g]) = Result("conflict", Nil, 0)
    BY <2>1, <1>u DEF Abs!Effect, Abs!Outcome, Abs!Result, Result
  <2>3. Return(g, Result("conflict", Nil, 0))
    BY <1>1 DEF CheckGuards
  <2> QED BY <1>u, <2>2, <2>3, AnswerRefines
<1>2. CASE ~ConflictingGuards(call[g])
  <2>1. /\ pc'[g] = "rlock" /\ e' = e /\ res' = res
        /\ \A h \in Proc \ {g} : pc'[h] = pc[h]
    BY <1>2 DEF CheckGuards, Goto
  <2> QED BY <1>u, <2>1, MoveRefines
<1> QED BY <1>1, <1>2

\* A Get of an absent key takes effect when the map is read.
LEMMA LookupRefines ==
    ASSUME IInv, HInv, NEW g \in Proc, Lookup(g) PROVE Abs!Next \/ UNCHANGED Abs!vars
<1> USE DEF IInv, TypeOK, LocalTypes
<1>u. /\ m' = m /\ ent' = ent /\ call' = call /\ pc[g] = "lookup" /\ call[g] \in Calls
      /\ call[g].key \in Key
  BY CallFields DEF Lookup
<1>1. CASE call[g].kind = "get" /\ m[call[g].key] = Nil
  <2>1. AbsDb[call[g].key] = Abs!Absent
    BY <1>1, <1>u, AbsEntries
  <2>2. /\ Abs!Effect(AbsDb[call[g].key], call[g]) = AbsDb[call[g].key]
        /\ Abs!Outcome(AbsDb[call[g].key], call[g]) = Result("notFound", Nil, 0)
    BY <2>1, <1>1 DEF Abs!Effect, Abs!Outcome, Abs!Result, Result
  <2>3. Return(g, Result("notFound", Nil, 0))
    BY <1>1 DEF Lookup
  <2> QED BY <1>u, <2>2, <2>3, AnswerRefines
<1>2. CASE ~(call[g].kind = "get" /\ m[call[g].key] = Nil)
  <2>1. /\ pc'[g] \in {"entryRLock", "partLock", "entryLock"} /\ res' = res
        /\ \A h \in Proc \ {g} : pc'[h] = pc[h] /\ e'[h] = e[h]
    BY <1>2 DEF Lookup, Goto
  <2> QED BY <1>u, <2>1, MoveRefines
<1> QED BY <1>1, <1>2

\* A Get takes effect when it copies the entry.
LEMMA CopyRefines == ASSUME IInv, HInv, NEW g \in Proc, Copy(g) PROVE Abs!Next
<1>u. /\ m' = m /\ ent' = ent /\ call' = call /\ pc[g] = "copy" /\ call[g].kind = "get"
      /\ Return(g, Result("ok", ent[e[g]].value, ent[e[g]].version))
  BY DEF Copy, HInv, Underway
<1>1. call[g] \in Calls /\ call[g].key \in Key /\ m[call[g].key] = e[g] /\ e[g] # Nil
  BY <1>u, HasEntry DEF EntryLabels
<1>2. ~Bumping(m[call[g].key])
  BY <1>u, <1>1, AloneAtBump DEF Bumping
<1>3. /\ Abs!Effect(AbsDb[call[g].key], call[g]) = AbsDb[call[g].key]
      /\ Abs!Outcome(AbsDb[call[g].key], call[g]) =
            Result("ok", ent[e[g]].value, ent[e[g]].version)
  <2>1. PICK x : x = AbsDb[call[g].key]
    OBVIOUS
  <2>2. /\ x = [value |-> ent[e[g]].value, version |-> ent[e[g]].version]
        /\ x # Abs!Absent
    BY <2>1, <1>1, <1>2, AbsEntries
  <2>3. x.value = ent[e[g]].value /\ x.version = ent[e[g]].version
    BY <2>2
  <2> QED BY <2>1, <2>2, <2>3, <1>u DEF Abs!Effect, Abs!Outcome, Abs!Result, Result
<1> QED BY <1>u, <1>1, <1>3, AnswerRefines
\* A Write on a present key takes effect under the entry's lock: refused, or with its
\* value, although its version is counted by the next statement.
LEMMA GuardRefines == ASSUME IInv, HInv, NEW g \in Proc, Guard(g) PROVE Abs!Next
<1> USE DEF IInv, TypeOK
<1>k. PICK k \in Key : k = call[g].key
  BY HasEntry DEF EntryLabels, Guard
<1>x. PICK x : x = AbsDb[k]
  OBVIOUS
<1>u. /\ m' = m /\ call' = call /\ pc[g] = "guard" /\ call[g].kind = "write"
      /\ call[g] \in Calls /\ ~ConflictingGuards(call[g]) /\ res[g] = Pending
      /\ m[k] = e[g] /\ e[g] # Nil /\ e[g] \in Ref /\ \A l \in Key : m[l] = e[g] => l = k
      /\ ent[e[g]].version \in Nat
  BY <1>k, HasEntry DEF Guard, EntryLabels, HInv, Underway, WriteLabels
<1>b. ~Bumping(m[k])
  BY <1>u, AloneAtBump DEF Bumping
<1>1. /\ x # Abs!Absent /\ x.value = ent[e[g]].value /\ x.version = ent[e[g]].version
  <2>1. /\ AbsDb[k] = [value |-> ent[e[g]].value, version |-> ent[e[g]].version]
        /\ AbsDb[k] # Abs!Absent
    BY <1>u, <1>b, AbsEntries
  <2> QED BY <2>1, <1>x
<1>2. Abs!GuardFails(x, call[g]) <=> Refused(ent[e[g]], call[g])
  BY <1>1, AbsVocabulary DEF Refused
<1>3. ~Abs!ConflictingGuards(call[g])
  BY <1>u DEF ConflictingGuards, Abs!ConflictingGuards
<1>a. CASE Refused(ent[e[g]], call[g])
  <2>1. /\ Abs!Effect(x, call[g]) = x
        /\ Abs!Outcome(x, call[g]) = Result("mismatch", Nil, ent[e[g]].version)
    BY <1>a, <1>1, <1>2, <1>3, <1>u DEF Abs!Effect, Abs!Outcome, Abs!Result, Result
  <2>2. ent' = ent /\ Return(g, Result("mismatch", Nil, ent[e[g]].version))
    BY <1>a DEF Guard, Refuse
  <2> QED BY <2>1, <2>2, <1>k, <1>x, <1>u, AnswerRefines
<1>c. CASE ~Refused(ent[e[g]], call[g])
  <2>1. PICK v : v = Compute(ent[e[g]].value, call[g])
    OBVIOUS
  <2>w. Abs!Written(x, call[g]) = [value |-> v, version |-> x.version + 1]
    BY <2>1, <1>1, AbsVocabulary
  <2>2. /\ Abs!Effect(x, call[g]) = [value |-> v, version |-> ent[e[g]].version + 1]
        /\ Abs!Outcome(x, call[g]) = Result("ok", v, ent[e[g]].version + 1)
    BY <2>w, <1>c, <1>1, <1>2, <1>3, <1>u DEF Abs!Effect, Abs!Outcome, Abs!Result, Result
  <2>3. /\ ent'[e[g]].value = v /\ ent'[e[g]].version = ent[e[g]].version
        /\ \A a \in Ref : a # e[g] => ent'[a] = ent[a]
        /\ pc'[g] = "bump" /\ \A h \in Proc \ {g} : pc'[h] = pc[h]
        /\ e' = e /\ res' = res
    BY <1>c, <1>u, <2>1 DEF Guard, Update, Assigned, Goto, LocalTypes, SharedTypes
  <2>4. AbsDb'[k] = [value |-> v, version |-> ent[e[g]].version + 1]
    <3>1. Bumping(m[k])'
      BY <2>3, <1>u DEF Bumping
    <3>2. ValueOf(k)' = v /\ CurVersion(k)' = ent[e[g]].version
      BY <2>3, <1>u DEF ValueOf, CurVersion
    <3> QED BY <3>1, <3>2, <1>u DEF AbsDb
  <2>5. \A l \in Key \ {k} : AbsDb'[l] = AbsDb[l]
    <3> SUFFICES ASSUME NEW l \in Key \ {k} PROVE AbsDb'[l] = AbsDb[l]
      OBVIOUS
    <3>1. Bumping(m[l])' <=> Bumping(m[l])
      BY <2>3, <1>u DEF Bumping
    <3>2. ValueOf(l)' = ValueOf(l) /\ CurVersion(l)' = CurVersion(l)
      BY <2>3, <1>u DEF ValueOf, CurVersion, SharedTypes
    <3> QED BY <3>1, <3>2, <1>u DEF AbsDb
  <2>6. AbsRes'[g] = Result("ok", v, ent[e[g]].version + 1) /\ AbsRes[g] = Pending
    BY <2>3, <1>u DEF AbsRes, Result
  <2>7. \A h \in Proc \ {g} : AbsRes'[h] = AbsRes[h]
    <3>1. \A h \in Proc \ {g} : pc[h] \in {"bump", "snap"} => e[h] \in Ref /\ e[h] # e[g]
      BY <1>u, HasEntry, AloneAtBump DEF EntryLabels, EntryLocked, EntryLockedBy
    <3> QED BY <3>1, <2>3 DEF AbsRes
  <2> QED BY <2>2, <2>4, <2>5, <2>6, <2>7, <1>k, <1>x, <1>u, TakesEffect
<1> QED BY <1>a, <1>c

\* The increment shows nothing new: the write had taken effect.
LEMMA BumpRefines == ASSUME IInv, HInv, NEW g \in Proc, Bump(g) PROVE UNCHANGED Abs!vars
<1> USE DEF IInv, TypeOK
<1>k. PICK k \in Key : k = call[g].key
  BY HasEntry DEF EntryLabels, Bump
<1>x. PICK x : x = ent[e[g]]
  OBVIOUS
<1>u. /\ m' = m /\ call' = call /\ pc[g] = "bump"
      /\ m[k] = e[g] /\ e[g] # Nil /\ e[g] \in Ref /\ \A l \in Key : m[l] = e[g] => l = k
      /\ x.version \in Nat
  BY <1>k, <1>x, HasEntry DEF Bump, EntryLabels
<1>r. /\ \A a \in Ref : a # e[g] => ent'[a] = ent[a]
      /\ ent'[e[g]].version = x.version + 1 /\ ent'[e[g]].value = x.value
      /\ pc'[g] = "idle" /\ res'[g] = Result("ok", x.value, x.version + 1)
      /\ \A h \in Proc \ {g} : pc'[h] = pc[h] /\ e'[h] = e[h] /\ res'[h] = res[h]
  BY <1>x, <1>u DEF Bump, Return, Goto, LocalTypes, SharedTypes
<1>a. \A h \in Proc \ {g} : pc[h] \in {"bump", "snap"} => e[h] \in Ref /\ e[h] # e[g]
  BY <1>u, HasEntry, AloneAtBump DEF EntryLabels, EntryLocked, EntryLockedBy
<1>1. AbsDb'[k] = AbsDb[k]
  <2>1. Bumping(m[k]) /\ ~Bumping(m[k])'
    BY <1>u, <1>r, <1>a DEF Bumping
  <2>2. /\ ValueOf(k)' = x.value /\ CurVersion(k)' = x.version + 1
        /\ ValueOf(k) = x.value /\ CurVersion(k) = x.version
    BY <1>x, <1>u, <1>r DEF ValueOf, CurVersion
  <2> QED BY <2>1, <2>2, <1>u DEF AbsDb
<1>2. ASSUME NEW l \in Key \ {k} PROVE AbsDb'[l] = AbsDb[l]
  <2>1. Bumping(m[l])' <=> Bumping(m[l])
    BY <1>u, <1>r DEF Bumping
  <2>2. ValueOf(l)' = ValueOf(l) /\ CurVersion(l)' = CurVersion(l)
    BY <1>u, <1>r DEF ValueOf, CurVersion, SharedTypes
  <2> QED BY <2>1, <2>2, <1>u DEF AbsDb
<1>3. AbsRes'[g] = AbsRes[g]
  BY <1>u, <1>x, <1>r DEF AbsRes, Result
<1>4. \A h \in Proc \ {g} : AbsRes'[h] = AbsRes[h]
  BY <1>a, <1>r DEF AbsRes
<1> QED BY <1>1, <1>2, <1>3, <1>4, <1>u, Stutters

\* A creating Write takes effect when the entry is in the map.
LEMMA CreateRefines ==
    ASSUME IInv, HInv, NEW g \in Proc, pc[g] = "insert", m[call[g].key] = Nil,
           call[g].ifVersion = Nil, Create(g), call' = call
    PROVE  Abs!Next
<1> USE DEF IInv, TypeOK
<1>k. PICK k \in Key : k = call[g].key
  BY CallFields DEF LocalTypes
<1>0. PICK r \in Ref :
        /\ \A l \in Key : m[l] # r
        /\ \A h \in Proc : e[h] # r
        /\ ent' = [ent EXCEPT ![r] = [value |-> call[g].body, version |-> FirstVersion]]
        /\ m' = [m EXCEPT ![call[g].key] = r]
        /\ e' = [e EXCEPT ![g] = r]
        /\ pc' = [pc EXCEPT ![g] = "snap"]
        /\ res' = res
  BY DEF Create, FreeRef, Goto
<1>g. /\ call[g].kind = "write" /\ res[g] = Pending /\ ~ConflictingGuards(call[g])
      /\ m[k] = Nil /\ r # Nil
  BY <1>k, StoreAssumption DEF HInv, Underway, WriteLabels
<1>r. /\ pc'[g] = "snap" /\ e'[g] = r /\ m'[k] = r
      /\ \A h \in Proc \ {g} : pc'[h] = pc[h] /\ e'[h] = e[h]
      /\ ent'[r].version = FirstVersion /\ ent'[r].value = call[g].body
      /\ \A a \in Ref : a # r => ent'[a] = ent[a]
      /\ \A l \in Key : l # k => m'[l] = m[l]
  BY <1>0, <1>k DEF LocalTypes, SharedTypes
<1>1. AbsDb[k] = Abs!Absent /\ Abs!Written(Abs!Absent, call[g]) =
                                  [value |-> call[g].body, version |-> FirstVersion]
  BY <1>g, AbsEntries DEF Abs!Written, Abs!FirstVersion, FirstVersion
<1>2. ~Abs!ConflictingGuards(call[g]) /\ ~Abs!GuardFails(Abs!Absent, call[g])
  BY <1>g DEF ConflictingGuards, Abs!ConflictingGuards, Abs!GuardFails
<1>3. /\ Abs!Effect(AbsDb[k], call[g]) = [value |-> call[g].body, version |-> FirstVersion]
      /\ Abs!Outcome(AbsDb[k], call[g]) = Result("ok", call[g].body, FirstVersion)
  BY <1>1, <1>2, <1>g DEF Abs!Effect, Abs!Outcome, Abs!Result, Result
<1>4. AbsDb'[k] = [value |-> call[g].body, version |-> FirstVersion]
  <2>1. ~Bumping(m[k])'
    BY <1>0, <1>r DEF Bumping
  <2>2. ValueOf(k)' = call[g].body /\ CurVersion(k)' = FirstVersion
    BY <1>r, <1>g DEF ValueOf, CurVersion
  <2> QED BY <2>1, <2>2 DEF AbsDb
<1>5. ASSUME NEW l \in Key \ {k} PROVE AbsDb'[l] = AbsDb[l]
  <2>1. Bumping(m[l])' <=> Bumping(m[l])
    BY <1>0, <1>r DEF Bumping
  <2>2. ValueOf(l)' = ValueOf(l) /\ CurVersion(l)' = CurVersion(l)
    BY <1>0, <1>r DEF ValueOf, CurVersion, SharedTypes
  <2> QED BY <2>1, <2>2, <1>r DEF AbsDb
<1>6. AbsRes'[g] = Result("ok", call[g].body, FirstVersion) /\ AbsRes[g] = Pending
  BY <1>r, <1>g DEF AbsRes, Result
<1>7. \A h \in Proc \ {g} : AbsRes'[h] = AbsRes[h]
  <2>1. \A h \in Proc \ {g} : pc[h] \in {"bump", "snap"} => e[h] \in Ref /\ e[h] # r
    BY <1>0, HasEntry DEF EntryLabels
  <2> QED BY <2>1, <1>0, <1>r DEF AbsRes
<1> QED BY <1>3, <1>4, <1>5, <1>6, <1>7, <1>k, TakesEffect

\* Under the map's lock a write finds the key created meanwhile and starts over, is
\* refused for a version an absent key does not have, or creates the entry.
LEMMA InsertRefines ==
    ASSUME IInv, HInv, NEW g \in Proc, Insert(g) PROVE Abs!Next \/ UNCHANGED Abs!vars
<1> USE DEF IInv, TypeOK, LocalTypes
<1>u. /\ call' = call /\ pc[g] = "insert" /\ call[g].kind = "write" /\ call[g] \in Calls
      /\ ~ConflictingGuards(call[g]) /\ call[g].key \in Key
  BY CallFields DEF Insert, HInv, Underway, WriteLabels
<1>1. CASE m[call[g].key] # Nil
  <2>1. /\ pc'[g] = "rlock" /\ m' = m /\ ent' = ent /\ e' = e /\ res' = res
        /\ \A h \in Proc \ {g} : pc'[h] = pc[h]
    BY <1>1 DEF Insert, StillAbsent, Goto
  <2> QED BY <1>u, <2>1, MoveRefines
<1>2. CASE m[call[g].key] = Nil /\ call[g].ifVersion # Nil
  <2>1. /\ m' = m /\ ent' = ent /\ Return(g, Result("mismatch", Nil, 0))
    BY <1>2 DEF Insert, StillAbsent
  <2>2. AbsDb[call[g].key] = Abs!Absent /\ Abs!Absent.version = 0
    BY <1>2, <1>u, AbsEntries DEF Abs!Absent
  <2>3. Abs!GuardFails(Abs!Absent, call[g]) /\ ~Abs!ConflictingGuards(call[g])
    BY <1>2, <1>u DEF Abs!GuardFails, Abs!ConflictingGuards, ConflictingGuards
  <2>4. /\ Abs!Effect(AbsDb[call[g].key], call[g]) = AbsDb[call[g].key]
        /\ Abs!Outcome(AbsDb[call[g].key], call[g]) = Result("mismatch", Nil, 0)
    BY <2>2, <2>3, <1>u DEF Abs!Effect, Abs!Outcome, Abs!Result, Result
  <2> QED BY <1>u, <2>1, <2>4, AnswerRefines
<1>3. CASE m[call[g].key] = Nil /\ call[g].ifVersion = Nil
  BY <1>3, <1>u, CreateRefines DEF Insert, StillAbsent
<1> QED BY <1>1, <1>2, <1>3

\* The snapshot of a new entry shows nothing new either.
LEMMA SnapRefines == ASSUME IInv, HInv, NEW g \in Proc, Snap(g) PROVE UNCHANGED Abs!vars
<1> USE DEF IInv, TypeOK, LocalTypes
<1>u. /\ m' = m /\ ent' = ent /\ call' = call /\ pc[g] = "snap" /\ pc'[g] = "idle"
      /\ res'[g] = Result("ok", ent[e[g]].value, ent[e[g]].version)
      /\ \A h \in Proc \ {g} : pc'[h] = pc[h] /\ e'[h] = e[h] /\ res'[h] = res[h]
  BY DEF Snap, Return, Goto
<1>1. \A r : Bumping(r)' <=> Bumping(r)
  BY <1>u DEF Bumping
<1>2. \A k \in Key : AbsDb'[k] = AbsDb[k]
  BY <1>1, <1>u DEF AbsDb, CurVersion, ValueOf
<1>3. \A h \in Proc : AbsRes'[h] = AbsRes[h]
  BY <1>u DEF AbsRes, Result
<1> QED BY <1>2, <1>3, <1>u, Stutters

\* The empty store is the empty map.
LEMMA InitRefines == Init => Abs!Init
<1> SUFFICES ASSUME Init PROVE Abs!Init
  OBVIOUS
<1>1. AbsDb = [k \in Key |-> Abs!Absent]
  BY DEF Init, AbsDb, ValueOf, CurVersion, Abs!Absent
<1>2. AbsRes = [g \in Proc |-> Abs!NoResult]
  BY DEF Init, AbsRes, NoResult, Result, Abs!NoResult, Abs!Result
<1> QED BY <1>1, <1>2 DEF Init, Abs!Init

\* Every step of the store is a step of the map or a stutter.
LEMMA StepRefines == IInv /\ HInv /\ Returned /\ [Next]_vars => [Abs!Next]_(Abs!vars)
<1> SUFFICES ASSUME IInv, HInv, Returned, [Next]_vars PROVE Abs!Next \/ UNCHANGED Abs!vars
  OBVIOUS
<1>1. CASE UNCHANGED <<m, ent, local>>
  <2>1. \A r : Bumping(r)' <=> Bumping(r)
    BY <1>1 DEF Bumping, local
  <2>2. \A k \in Key : AbsDb'[k] = AbsDb[k]
    BY <2>1, <1>1 DEF AbsDb, CurVersion, ValueOf
  <2>3. \A h \in Proc : AbsRes'[h] = AbsRes[h]
    BY <1>1 DEF AbsRes, local
  <2> QED BY <2>2, <2>3, <1>1, Stutters DEF local
<1>2. ASSUME NEW g \in Proc, Invoke(g) \/ Step(g) PROVE Abs!Next \/ UNCHANGED Abs!vars
  BY <1>2, InvokeRefines, CheckGuardsRefines, LockRefines, LookupRefines, CopyRefines,
     GuardRefines, BumpRefines, InsertRefines, SnapRefines DEF Step
<1>3. ASSUME NEW s \in Scanner, BeginScan(s) \/ ScanStep(s) PROVE UNCHANGED <<m, ent, local>>
  BY <1>3 DEF ScanStep, BeginScan, ScanRLock, ScanCopy, Yield, NextPartition, shared
<1> QED BY <1>1, <1>2, <1>3 DEF Next, vars, local

\* The locked, partitioned store implements the atomic map, for every instance: each
\* Get and Write takes effect at one instant between its call and its return.
THEOREM StoreIsAtomic == Spec => Linearizable
  BY InitRefines, StepRefines, Invariance, HistoryInvariance, ReturnedInvariance, PTL
  DEF Spec, Linearizable, Abs!Spec
-----------------------------------------------------------------------------
(* Keys and Len: what an iteration over the partitions, each read at       *)
(* another moment, has yielded or counted.  The invariant is about one     *)
(* scan, as a relation between its local variables, where it is, and the   *)
(* keys present in the store; the store only ever gains keys.              *)

\* The keys of K in the partitions before n, and in partition n.
Before(K, n) == {k \in K : PartOf(k) < n}
At(K, n)     == {k \in K : PartOf(k) = n}

Yielded(sc) == {sc.out[i] : i \in DOMAIN sc.out}

\* What a scan at label l, with the local variables sc, knows of the partitions behind
\* it and of the one it is yielding, when the keys P are present.
Knows(sc, l, P) ==
    /\ sc.atStart \subseteq P
    /\ Yielded(sc) \subseteq P
    /\ Cardinality(Yielded(sc)) = Len(sc.out)
    /\ l \in {"rlock", "copy"} => \A k \in Yielded(sc) : PartOf(k) < sc.next
    /\ l = "yield" =>
          /\ sc.kind = "keys" /\ sc.keys \subseteq At(P, sc.next)
          /\ \A k \in Yielded(sc) : PartOf(k) <= sc.next /\ k \notin sc.keys
          /\ At(sc.atStart, sc.next) \subseteq Yielded(sc) \cup sc.keys
    /\ sc.kind = "keys" => Before(sc.atStart, sc.next) \subseteq Yielded(sc)
    /\ sc.kind = "len" =>
          /\ Cardinality(Before(sc.atStart, sc.next)) <= sc.total
          /\ sc.total <= Cardinality(Before(P, sc.next))

ScanInv == \A s \in Scanner : Knows(scan[s], spc[s], Present)
-----------------------------------------------------------------------------
\* Sets of keys are finite, and have a cardinality that grows with them.
LEMMA KeySets ==
    ASSUME NEW K \in SUBSET Key
    PROVE  /\ IsFiniteSet(K) /\ Cardinality(K) \in Nat
           /\ \A L \in SUBSET K : IsFiniteSet(L) /\ Cardinality(L) <= Cardinality(K)
<1>1. IsFiniteSet(K)
  BY StoreAssumption, FS_Subset
<1> QED BY <1>1, FS_Subset, FS_CardinalityType

\* Partitions are numbered.
LEMMA PartOfNat == \A k \in Key : PartOf(k) \in Nat
  BY PartOfType, PartsFacts

\* Going one partition further adds the keys of that partition.
LEMMA OneMore ==
    ASSUME NEW K \in SUBSET Key, NEW n \in Nat
    PROVE  /\ Before(K, n + 1) = Before(K, n) \cup At(K, n)
           /\ Cardinality(Before(K, n + 1)) = Cardinality(Before(K, n)) + Cardinality(At(K, n))
<1>1. \A k \in K : PartOf(k) \in Nat
  BY PartOfNat
<1>2. Before(K, n + 1) = Before(K, n) \cup At(K, n) /\ Before(K, n) \cap At(K, n) = {}
  BY <1>1 DEF Before, At
<1>3. /\ IsFiniteSet(Before(K, n)) /\ IsFiniteSet(At(K, n))
      /\ Cardinality(Before(K, n)) \in Nat /\ Cardinality(At(K, n)) \in Nat
  BY KeySets DEF Before, At
<1>4. Cardinality(Before(K, n) \cup At(K, n)) =
        Cardinality(Before(K, n)) + Cardinality(At(K, n)) - Cardinality(Before(K, n) \cap At(K, n))
  BY <1>3, FS_Union
<1>5. Cardinality(Before(K, n) \cap At(K, n)) = 0
  BY <1>2, FS_EmptySet
<1> QED BY <1>2, <1>3, <1>4, <1>5

\* The types of a scan's local variables.
LEMMA ScanFields ==
    ASSUME NEW sc \in ScanStates
    PROVE  /\ sc.kind \in Scans /\ sc.next \in Nat /\ sc.keys \in SUBSET Key
           /\ sc.out \in Seq(Key) /\ sc.total \in Nat /\ sc.atStart \in SUBSET Key
           /\ Yielded(sc) \in SUBSET Key
<1>1. /\ sc.kind \in Scans /\ sc.next \in Nat /\ sc.keys \in SUBSET Key
      /\ sc.out \in Seq(Key) /\ sc.total \in Nat /\ sc.atStart \in SUBSET Key
  BY DEF ScanStates
<1>2. \A i \in DOMAIN sc.out : sc.out[i] \in Key
  BY <1>1
<1> QED BY <1>1, <1>2 DEF Yielded

\* What a scan knows stays true when keys are added.
LEMMA KnowsMore ==
    ASSUME NEW sc \in ScanStates, NEW l, NEW P \in SUBSET Key, NEW Q \in SUBSET Key,
           P \subseteq Q, Knows(sc, l, P)
    PROVE  Knows(sc, l, Q)
<1>1. At(P, sc.next) \subseteq At(Q, sc.next) /\ Before(P, sc.next) \subseteq Before(Q, sc.next)
  BY DEF At, Before
<1>2. /\ Cardinality(Before(P, sc.next)) <= Cardinality(Before(Q, sc.next))
      /\ Cardinality(Before(P, sc.next)) \in Nat /\ Cardinality(Before(Q, sc.next)) \in Nat
  BY <1>1, KeySets DEF Before
<1>3. sc.total \in Nat
  BY ScanFields
<1> QED BY <1>1, <1>2, <1>3 DEF Knows

\* A scan that begins knows nothing yet.
LEMMA KnowsStart ==
    ASSUME NEW kind \in Scans, NEW P \in SUBSET Key
    PROVE  Knows(NewScan(kind, P), "rlock", P)
<1> DEFINE sc == NewScan(kind, P)
<1>1. /\ sc.atStart = P /\ sc.out = <<>> /\ sc.next = 0 /\ sc.total = 0
  BY DEF NewScan
<1>2. Yielded(sc) = {} /\ Len(sc.out) = 0
  BY <1>1 DEF Yielded
<1>3. Before(P, 0) = {}
  BY PartOfNat DEF Before
<1>e. Cardinality({}) = 0
  BY FS_EmptySet
<1> HIDE DEF sc
<1>4. Before(sc.atStart, sc.next) = {} /\ Before(P, sc.next) = {}
  BY <1>1, <1>3
<1>5. /\ Cardinality(Before(sc.atStart, sc.next)) <= sc.total
      /\ sc.total <= Cardinality(Before(P, sc.next))
  BY <1>1, <1>4, <1>e
<1>6. Cardinality(Yielded(sc)) = Len(sc.out)
  BY <1>2, <1>e
<1>7. Knows(sc, "rlock", P)
  BY <1>1, <1>2, <1>4, <1>5, <1>6 DEF Knows
<1> QED BY <1>7 DEF sc

\* Taking the partition's lock is nothing new, and stopping neither.
LEMMA KnowsLocked ==
    ASSUME NEW sc, NEW P, Knows(sc, "rlock", P) PROVE Knows(sc, "copy", P)
  BY DEF Knows

\* The keys of the partition are copied out.
LEMMA KnowsCopied ==
    ASSUME NEW sc \in ScanStates, NEW P \in SUBSET Key, sc.kind = "keys", Knows(sc, "copy", P)
    PROVE  Knows([sc EXCEPT !.keys = At(P, sc.next)], "yield", P)
<1> DEFINE new == [sc EXCEPT !.keys = At(P, sc.next)]
<1>1. /\ new.kind = sc.kind /\ new.next = sc.next /\ new.out = sc.out
      /\ new.total = sc.total /\ new.atStart = sc.atStart /\ new.keys = At(P, sc.next)
  BY DEF ScanStates
<1>2. Yielded(new) = Yielded(sc)
  BY <1>1 DEF Yielded
<1>3. At(sc.atStart, sc.next) \subseteq At(P, sc.next)
  BY DEF Knows, At
<1>4. \A k \in Yielded(sc) : PartOf(k) <= sc.next /\ k \notin At(P, sc.next)
  <2>1. sc.next \in Nat /\ \A k \in Yielded(sc) : PartOf(k) \in Nat
    BY ScanFields, PartOfNat
  <2> QED BY <2>1 DEF Knows, At
<1> HIDE DEF new
<1>5. /\ new.atStart \subseteq P /\ Yielded(new) \subseteq P
      /\ Cardinality(Yielded(new)) = Len(new.out)
      /\ Before(new.atStart, new.next) \subseteq Yielded(new)
  BY <1>1, <1>2 DEF Knows
<1>6. /\ new.kind = "keys" /\ new.keys \subseteq At(P, new.next)
      /\ \A k \in Yielded(new) : PartOf(k) <= new.next /\ k \notin new.keys
      /\ At(new.atStart, new.next) \subseteq Yielded(new) \cup new.keys
  BY <1>1, <1>2, <1>3, <1>4
<1>7. Knows(new, "yield", P)
  BY <1>5, <1>6 DEF Knows
<1> QED BY <1>7 DEF new

\* The keys of the partition are counted.
LEMMA KnowsCounted ==
    ASSUME NEW sc \in ScanStates, NEW P \in SUBSET Key, sc.kind # "keys",
           Knows(sc, "copy", P), NEW l \in {"idle", "rlock"}
    PROVE  Knows([[sc EXCEPT !.total = @ + Cardinality(At(P, sc.next))] EXCEPT !.next = @ + 1],
                 l, P)
<1> DEFINE n == Cardinality(At(P, sc.next))
           new == [[sc EXCEPT !.total = @ + n] EXCEPT !.next = @ + 1]
<1>n. n \in Nat
  BY KeySets DEF At
<1>1. /\ new.kind = sc.kind /\ new.next = sc.next + 1 /\ new.out = sc.out
      /\ new.total = sc.total + n /\ new.atStart = sc.atStart
  BY DEF ScanStates
<1>2. Yielded(new) = Yielded(sc)
  BY <1>1 DEF Yielded
<1>3. \A k \in Yielded(sc) : PartOf(k) < sc.next + 1
  <2>1. sc.next \in Nat /\ \A k \in Yielded(sc) : PartOf(k) \in Nat
    BY ScanFields, PartOfNat
  <2> QED BY <2>1 DEF Knows
<1>4. /\ Cardinality(Before(sc.atStart, sc.next + 1)) <= sc.total + n
      /\ sc.total + n <= Cardinality(Before(P, sc.next + 1))
  <2>1. sc.kind = "len" /\ sc.atStart \in SUBSET Key /\ sc.next \in Nat /\ sc.total \in Nat
    BY ScanFields DEF Scans
  <2>2. At(sc.atStart, sc.next) \subseteq At(P, sc.next) /\ At(P, sc.next) \subseteq Key
    BY DEF Knows, At
  <2>3. Cardinality(At(sc.atStart, sc.next)) <= n /\ Cardinality(At(sc.atStart, sc.next)) \in Nat
    <3>1. At(sc.atStart, sc.next) \in SUBSET Key
      BY <2>2
    <3> QED BY <2>2, <3>1, KeySets
  <2>4. Cardinality(Before(sc.atStart, sc.next)) \in Nat /\ Cardinality(Before(P, sc.next)) \in Nat
    BY <2>1, KeySets DEF Before
  <2>5. /\ Cardinality(Before(sc.atStart, sc.next)) <= sc.total
        /\ sc.total <= Cardinality(Before(P, sc.next))
    BY <2>1 DEF Knows
  <2> HIDE DEF n
  <2>6. /\ Cardinality(Before(sc.atStart, sc.next + 1)) =
              Cardinality(Before(sc.atStart, sc.next)) + Cardinality(At(sc.atStart, sc.next))
        /\ Cardinality(Before(P, sc.next + 1)) = Cardinality(Before(P, sc.next)) + n
    BY <2>1, OneMore DEF n
  <2> QED BY <2>1, <2>3, <2>4, <2>5, <2>6, <1>n
<1> HIDE DEF new, n
<1>5. Knows(new, l, P)
  BY <1>1, <1>2, <1>3, <1>4 DEF Knows
<1> QED BY <1>5 DEF new, n

\* Appending a key to what was yielded.
LEMMA YieldOne ==
    ASSUME NEW q \in Seq(Key), NEW k \in Key
    PROVE  {Append(q, k)[i] : i \in DOMAIN Append(q, k)} = {q[i] : i \in DOMAIN q} \cup {k}
<1>1. /\ DOMAIN Append(q, k) = 1..(Len(q) + 1) /\ DOMAIN q = 1..Len(q) /\ Len(q) \in Nat
      /\ Append(q, k)[Len(q) + 1] = k /\ \A i \in 1..Len(q) : Append(q, k)[i] = q[i]
  OBVIOUS
<1> DEFINE a == Append(q, k)
<1> HIDE DEF a
<1>2. /\ DOMAIN a = 1..(Len(q) + 1) /\ a[Len(q) + 1] = k /\ \A i \in 1..Len(q) : a[i] = q[i]
  BY <1>1 DEF a
<1>3. \A i \in DOMAIN a : i \in DOMAIN q \/ i = Len(q) + 1
  BY <1>1, <1>2
<1>4. \A i \in DOMAIN q : i \in DOMAIN a
  BY <1>1, <1>2
<1>5. {a[i] : i \in DOMAIN a} = {q[i] : i \in DOMAIN q} \cup {k}
  BY <1>1, <1>2, <1>3, <1>4
<1> QED BY <1>5 DEF a

\* A key is yielded: it was not yielded before.
LEMMA KnowsYielded ==
    ASSUME NEW sc \in ScanStates, NEW P \in SUBSET Key, Knows(sc, "yield", P),
           NEW k \in sc.keys, NEW l \in {"yield", "idle"}
    PROVE  Knows([sc EXCEPT !.out = Append(@, k), !.keys = @ \ {k}], l, P)
<1> DEFINE new == [sc EXCEPT !.out = Append(@, k), !.keys = @ \ {k}]
<1>k. k \in Key /\ k \in P /\ PartOf(k) = sc.next /\ k \notin Yielded(sc) /\ sc.out \in Seq(Key)
  BY ScanFields DEF Knows, At
<1>1. /\ new.kind = sc.kind /\ new.next = sc.next /\ new.out = Append(sc.out, k)
      /\ new.total = sc.total /\ new.atStart = sc.atStart /\ new.keys = sc.keys \ {k}
  BY DEF ScanStates
<1>2. Yielded(new) = Yielded(sc) \cup {k}
  BY <1>1, <1>k, YieldOne DEF Yielded
<1>3. Cardinality(Yielded(new)) = Len(new.out)
  <2>1. IsFiniteSet(Yielded(sc))
    BY ScanFields, KeySets
  <2>2. Cardinality(Yielded(sc) \cup {k}) = Cardinality(Yielded(sc)) + 1
    BY <2>1, <1>k, FS_AddElement
  <2>3. Len(Append(sc.out, k)) = Len(sc.out) + 1
    BY <1>k
  <2> QED BY <2>2, <2>3, <1>1, <1>2 DEF Knows
<1>4. sc.next \in Nat
  BY ScanFields
<1> HIDE DEF new
<1>5. Knows(new, l, P)
  BY <1>1, <1>2, <1>3, <1>4, <1>k DEF Knows
<1> QED BY <1>5 DEF new

\* The partition is done when all its keys are yielded.
LEMMA KnowsNext ==
    ASSUME NEW sc \in ScanStates, NEW P \in SUBSET Key, Knows(sc, "yield", P),
           sc.keys = {}, NEW l \in {"rlock", "idle"}
    PROVE  Knows([sc EXCEPT !.next = @ + 1], l, P)
<1> DEFINE new == [sc EXCEPT !.next = @ + 1]
<1>1. /\ new.kind = sc.kind /\ new.next = sc.next + 1 /\ new.out = sc.out
      /\ new.atStart = sc.atStart
  BY DEF ScanStates
<1>2. Yielded(new) = Yielded(sc)
  BY <1>1 DEF Yielded
<1>3. \A k \in Yielded(sc) : PartOf(k) < sc.next + 1
  <2>1. sc.next \in Nat /\ \A k \in Yielded(sc) : PartOf(k) \in Nat
    BY ScanFields, PartOfNat
  <2> QED BY <2>1 DEF Knows
<1>4. Before(sc.atStart, sc.next + 1) = Before(sc.atStart, sc.next) \cup At(sc.atStart, sc.next)
  BY ScanFields, OneMore
<1>5. sc.kind = "keys"
  BY DEF Knows
<1> HIDE DEF new
<1>6. Knows(new, l, P)
  BY <1>1, <1>2, <1>3, <1>4, <1>5 DEF Knows
<1> QED BY <1>6 DEF new
-----------------------------------------------------------------------------
\* A key once stored stays stored: nothing removes an entry from a map.
LEMMA PresentGrows == ASSUME IInv, [Next]_vars PROVE Present \subseteq Present'
<1> USE DEF IInv, TypeOK
<1>1. CASE m' = m
  BY <1>1 DEF Present
<1>2. ASSUME NEW g \in Proc, Create(g) PROVE Present \subseteq Present'
  BY <1>2, StoreAssumption DEF Create, Present, SharedTypes
<1>3. ASSUME NEW g \in Proc, Invoke(g) \/ Step(g) PROVE m' = m \/ Create(g)
  BY <1>3 DEF Step, Invoke, CheckGuards, PartRLock, Lookup, EntryRLock, Copy, EntryLock,
              Guard, Bump, PartLock, Insert, Snap, shared
<1>4. ASSUME NEW s \in Scanner, BeginScan(s) \/ ScanStep(s) PROVE m' = m
  BY <1>4 DEF ScanStep, BeginScan, ScanRLock, ScanCopy, Yield, NextPartition, shared
<1> QED BY <1>1, <1>2, <1>3, <1>4 DEF Next, vars

\* A step that is not one of s leaves s with what it knows.
LEMMA OthersKnow ==
    ASSUME IInv, ScanInv, [Next]_vars, NEW s \in Scanner, scan'[s] = scan[s], spc'[s] = spc[s]
    PROVE  Knows(scan[s], spc[s], Present)'
<1>1. scan[s] \in ScanStates /\ Present \in SUBSET Key /\ Present' \in SUBSET Key
  BY DEF IInv, TypeOK, ScanTypes, Present
<1>2. Knows(scan[s], spc[s], Present')
  BY <1>1, PresentGrows, KnowsMore DEF ScanInv
<1> QED BY <1>2 DEF Knows, Yielded

\* A step of s on its own local variables, from what was known of them.
LEMMA OneScanKnows ==
    ASSUME IInv, ScanInv, [Next]_vars, m' = m, NEW s \in Scanner, NEW sc, NEW l,
           scan' = [scan EXCEPT ![s] = sc], spc' = [spc EXCEPT ![s] = l],
           Knows(sc, l, Present)
    PROVE  ScanInv'
<1> USE DEF IInv, TypeOK, ScanTypes
<1>1. Present' = Present
  BY DEF Present
<1>2. scan'[s] = sc /\ spc'[s] = l
  OBVIOUS
<1>3. Knows(scan[s], spc[s], Present)'
  BY <1>1, <1>2 DEF Knows, Yielded
<1>4. \A t \in Scanner \ {s} : Knows(scan[t], spc[t], Present)'
  BY OthersKnow
<1> QED BY <1>3, <1>4 DEF ScanInv

\* Every step keeps what the scans know, the writers' steps because keys only come.
LEMMA NextScanInv == IInv /\ ScanInv /\ [Next]_vars => ScanInv'
<1> SUFFICES ASSUME IInv, ScanInv, [Next]_vars PROVE ScanInv'
  OBVIOUS
<1> USE DEF IInv, TypeOK, ScanTypes
<1>p. Present \in SUBSET Key
  BY DEF Present
<1>1. CASE UNCHANGED slocal
  BY <1>1, OthersKnow DEF ScanInv, slocal
<1>2. ASSUME NEW g \in Proc, Invoke(g) \/ Step(g) PROVE UNCHANGED slocal
  BY <1>2 DEF Step, Invoke, CheckGuards, PartRLock, Lookup, EntryRLock, Copy, EntryLock,
              Guard, Bump, PartLock, Insert, Snap
<1>3. ASSUME NEW s \in Scanner, BeginScan(s) PROVE ScanInv'
  <2>1. PICK kind \in Scans : scan' = [scan EXCEPT ![s] = NewScan(kind, Present)]
    BY <1>3 DEF BeginScan
  <2>2. m' = m /\ spc' = [spc EXCEPT ![s] = "rlock"]
    BY <1>3 DEF BeginScan, SGoto, shared
  <2>3. Knows(NewScan(kind, Present), "rlock", Present)
    BY <1>p, KnowsStart
  <2> QED BY <2>1, <2>2, <2>3, OneScanKnows
<1>4. ASSUME NEW s \in Scanner, ScanRLock(s) PROVE ScanInv'
  <2>1. /\ m' = m /\ scan' = [scan EXCEPT ![s] = scan[s]] /\ spc[s] = "rlock"
        /\ spc' = [spc EXCEPT ![s] = "copy"] \/ spc' = [spc EXCEPT ![s] = "rlock"]
    BY <1>4 DEF ScanRLock, SGoto
  <2>2. Knows(scan[s], "rlock", Present) /\ Knows(scan[s], "copy", Present)
    BY <2>1, KnowsLocked DEF ScanInv
  <2> QED BY <2>1, <2>2, OneScanKnows
<1>5. ASSUME NEW s \in Scanner, ScanCopy(s) PROVE ScanInv'
  <2>1. /\ m' = m /\ spc[s] = "copy" /\ scan[s] \in ScanStates
        /\ KeysIn(scan[s].next) = At(Present, scan[s].next)
        /\ Knows(scan[s], "copy", Present)
    BY <1>5 DEF ScanCopy, KeysIn, At, ScanInv
  <2>2. CASE scan[s].kind = "keys"
    <3> DEFINE new == [scan[s] EXCEPT !.keys = At(Present, scan[s].next)]
    <3>1. scan' = [scan EXCEPT ![s] = new] /\ spc' = [spc EXCEPT ![s] = "yield"]
      BY <2>1, <2>2, <1>5 DEF ScanCopy, SGoto
    <3>2. Knows(new, "yield", Present)
      BY <2>1, <2>2, <1>p, KnowsCopied
    <3> HIDE DEF new
    <3> QED BY <2>1, <3>1, <3>2, OneScanKnows
  <2>3. CASE scan[s].kind # "keys"
    <3> DEFINE sum == [scan[s] EXCEPT !.total = @ + Cardinality(At(Present, scan[s].next))]
               new == [sum EXCEPT !.next = @ + 1]
    <3>1. PICK l \in {"idle", "rlock"} :
            scan' = [scan EXCEPT ![s] = new] /\ spc' = [spc EXCEPT ![s] = l]
      BY <2>1, <2>3, <1>5 DEF ScanCopy, Advance, SGoto
    <3>2. Knows(new, l, Present)
      BY <2>1, <2>3, <1>p, KnowsCounted
    <3> HIDE DEF new
    <3> QED BY <2>1, <3>1, <3>2, OneScanKnows
  <2> QED BY <2>2, <2>3
<1>6. ASSUME NEW s \in Scanner, Yield(s) PROVE ScanInv'
  <2>1. /\ m' = m /\ spc[s] = "yield" /\ scan[s] \in ScanStates
        /\ Knows(scan[s], "yield", Present)
    BY <1>6 DEF Yield, shared, ScanInv
  <2>2. PICK k \in scan[s].keys :
          scan' = [scan EXCEPT ![s].out = Append(@, k), ![s].keys = @ \ {k}]
    BY <1>6 DEF Yield
  <2>3. PICK l \in {"yield", "idle"} : spc' = [spc EXCEPT ![s] = l]
    BY <1>6 DEF Yield, SGoto
  <2> DEFINE new == [scan[s] EXCEPT !.out = Append(@, k), !.keys = @ \ {k}]
  <2>4. scan' = [scan EXCEPT ![s] = new]
    BY <2>1, <2>2 DEF ScanStates
  <2>5. Knows(new, l, Present)
    BY <2>1, <1>p, KnowsYielded
  <2> HIDE DEF new
  <2> QED BY <2>1, <2>3, <2>4, <2>5, OneScanKnows
<1>7. ASSUME NEW s \in Scanner, NextPartition(s) PROVE ScanInv'
  <2> DEFINE new == [scan[s] EXCEPT !.next = @ + 1]
  <2>1. /\ m' = m /\ spc[s] = "yield" /\ scan[s] \in ScanStates /\ scan[s].keys = {}
        /\ Knows(scan[s], "yield", Present)
    BY <1>7 DEF NextPartition, shared, ScanInv
  <2>2. PICK l \in {"idle", "rlock"} :
          scan' = [scan EXCEPT ![s] = new] /\ spc' = [spc EXCEPT ![s] = l]
    BY <1>7 DEF NextPartition, Advance, SGoto
  <2>3. Knows(new, l, Present)
    BY <2>1, <1>p, KnowsNext
  <2> HIDE DEF new
  <2> QED BY <2>1, <2>2, <2>3, OneScanKnows
<1> QED BY <1>1, <1>2, <1>3, <1>4, <1>5, <1>6, <1>7 DEF Next, ScanStep, vars, slocal

\* What the scans know holds in every reachable state.
LEMMA ScanInvariance == Spec => []ScanInv
<1>1. Init => ScanInv
  <2> SUFFICES ASSUME Init, NEW s \in Scanner PROVE Knows(scan[s], spc[s], Present)
    BY DEF ScanInv
  <2>1. scan[s] = NewScan("keys", {}) /\ spc[s] = "idle" /\ Present = {}
    BY DEF Init, Present
  <2>2. Knows(NewScan("keys", {}), "rlock", {})
    BY KnowsStart DEF Scans
  <2> QED BY <2>1, <2>2 DEF Knows
<1> QED BY <1>1, NextScanInv, Invariance, PTL DEF Spec

\* A scan that has run to its end has been at every partition.
LEMMA AllBefore == ASSUME NEW K \in SUBSET Key PROVE Before(K, PartitionCount) = K
<1>1. \A n \in Parts : n < PartitionCount
  BY StoreAssumption DEF Parts, Partitions
<1>2. \A k \in K : PartOf(k) < PartitionCount
  BY <1>1, PartOfType
<1> QED BY <1>2 DEF Before

\* A key present for the whole of an iteration is yielded, none is yielded twice, and
\* none that was never stored, for every number of partitions and concurrent writers.
THEOREM IterationComplete == Spec => []KeysComplete
<1>1. IInv /\ ScanInv => KeysComplete
  <2> SUFFICES ASSUME IInv, ScanInv, NEW s \in Scanner
               PROVE  /\ Finished(s) /\ scan[s].kind = "keys" =>
                            scan[s].atStart \subseteq YieldedBy(s)
                      /\ Cardinality(YieldedBy(s)) = Len(scan[s].out)
                      /\ YieldedBy(s) \subseteq Present
    BY DEF KeysComplete
  <2>1. YieldedBy(s) = Yielded(scan[s])
    BY DEF YieldedBy, Yielded
  <2>2. Knows(scan[s], spc[s], Present) /\ scan[s].atStart \in SUBSET Key
    BY DEF ScanInv, IInv, TypeOK, ScanTypes, ScanStates
  <2>3. Finished(s) => Before(scan[s].atStart, scan[s].next) = scan[s].atStart
    BY <2>2, AllBefore DEF Finished
  <2> QED BY <2>1, <2>2, <2>3 DEF Knows
<1> QED BY <1>1, Invariance, ScanInvariance, PTL

\* Len returns a number between the keys there were when it began and the keys there
\* are when it ends.
THEOREM LengthBounded == Spec => []LenBounded
<1>1. IInv /\ ScanInv => LenBounded
  <2> SUFFICES ASSUME IInv, ScanInv, NEW s \in Scanner, Finished(s), scan[s].kind = "len"
               PROVE  scan[s].total \in Cardinality(scan[s].atStart)..Cardinality(Present)
    BY DEF LenBounded
  <2>1. /\ Knows(scan[s], spc[s], Present) /\ scan[s].atStart \in SUBSET Key
        /\ Present \in SUBSET Key /\ scan[s].total \in Nat
    BY DEF ScanInv, IInv, TypeOK, ScanTypes, ScanStates, Present
  <2>2. /\ Before(scan[s].atStart, scan[s].next) = scan[s].atStart
        /\ Before(Present, scan[s].next) = Present
    BY <2>1, AllBefore DEF Finished
  <2>3. Cardinality(scan[s].atStart) \in Nat /\ Cardinality(Present) \in Nat
    BY <2>1, KeySets
  <2>4. Cardinality(scan[s].atStart) <= scan[s].total /\ scan[s].total <= Cardinality(Present)
    BY <2>1, <2>2 DEF Knows
  <2> QED BY <2>1, <2>3, <2>4
<1> QED BY <1>1, Invariance, ScanInvariance, PTL
=============================================================================
