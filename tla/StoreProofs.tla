---------------------------- MODULE StoreProofs ----------------------------
(***************************************************************************)
(* Theorems about Store, for every set of goroutines, keys, entries,       *)
(* partitions and calls.                                                   *)
(*                                                                         *)
(* NoDataRace and OneEntryPerKey are not inductive by themselves.  IInv    *)
(* adds what they rest on: who holds which mutex at which point            *)
(* (PartLocked, EntryLocked), when a goroutine has a pointer (PointerSet), *)
(* and that a map has only finished entries (Published).  One lemma per    *)
(* action shows that the action keeps IInv.                                *)
(***************************************************************************)
EXTENDS Store, FiniteSetTheorems, TLAPS

\* partitionFor finds a partition of the store for every key.
LEMMA PartOfType == \A k \in Key : PartOf(k) \in Parts
<1> SUFFICES ASSUME NEW h \in Nat, NEW n \in Nat, n > 0 PROVE h % n \in 0..(n - 1)
  BY StoreAssumption DEF PartOf, Parts, Partitions, Partition, ValidPartitionCount
<1> QED OBVIOUS

\* The fields of a call have their types, and a call is not Nil.
LEMMA CallFields ==
    \A c \in Calls : /\ c.key \in Key /\ c.body \in Value /\ PartOf(c.key) \in Parts
                     /\ c.ifVersion \in Nat \cup {Nil} /\ c # Nil
  BY PartOfType, StoreAssumption DEF Calls

\* Every operation on a mutex gives a mutex.
LEMMA MutexTypes ==
    /\ Unlocked \in RWMutexes(Threads)
    /\ \A mu \in RWMutexes(Threads), g \in Threads :
          /\ RLock(mu, g) \in RWMutexes(Threads)
          /\ RUnlock(mu, g) \in RWMutexes(Threads)
          /\ Announce(mu, g) \in RWMutexes(Threads)
          /\ Unlock(mu) \in RWMutexes(Threads)
  BY DEF RWMutexes, Unlocked, RLock, RUnlock, Announce, Unlock

\* What the operations return are results.
LEMMA ResultTypes ==
    /\ Pending \in Results /\ NoResult \in Results
    /\ Result("notFound", Nil, 0) \in Results
    /\ Result("conflict", Nil, 0) \in Results
    /\ \A n \in Nat : Result("mismatch", Nil, n) \in Results
    /\ \A v \in Value \cup {Nil}, n \in Nat : Result("ok", v, n) \in Results
  BY DEF Results, Result, Pending, NoResult, Statuses

\* Entering Get or Write keeps the invariant: a goroutine starts with no pointer
\* and no lock.
LEMMA InvokePreserves == ASSUME IInv, NEW g \in Proc, Invoke(g) PROVE IInv'
<1> USE DEF IInv, TypeOK, slocal, shared
<1>0. PICK c \in Workload[g] :
        /\ call' = [call EXCEPT ![g] = c]
        /\ Goto(g, IF c.kind = "write" THEN "guards" ELSE "rlock")
  BY DEF Invoke
<1>c. c \in Calls /\ c # Nil
  BY StoreAssumption, CallFields
<1>p. pc' = [pc EXCEPT ![g] = "guards"] \/ pc' = [pc EXCEPT ![g] = "rlock"]
  BY <1>0 DEF Goto
<1>u. /\ pc[g] = "idle" /\ e[g] = Nil
      /\ UNCHANGED <<m, ent, pmu, emu, e, spc, scan>>
  BY DEF Invoke, PointerSet, EntryLabels
<1>1. TypeOK'
  <2>1. LocalTypes'
    BY <1>0, <1>c, <1>p, ResultTypes DEF Invoke, LocalTypes, Labels
  <2>2. QED BY <2>1, <1>u DEF SharedTypes, ScanTypes
<1>2. PartLocked'
  <2>1. ASSUME NEW h \in Proc PROVE PartLockedBy(h)'
    <3>1. CASE h = g BY <3>1, <1>p DEF PartLockedBy, LocalTypes
    <3>2. CASE h # g BY <3>2, <1>0, <1>p, <1>u DEF PartLockedBy, PartLocked, LocalTypes
    <3> QED BY <3>1, <3>2
  <2> QED BY <2>1, <1>u DEF PartLocked
<1>3. EntryLocked'
  BY <1>p, <1>u DEF EntryLocked, EntryLockedBy, LocalTypes
<1>4. PointerSet'
  BY <1>p, <1>u DEF PointerSet, EntryLabels, LocalTypes
<1>5. OneEntryPerKey'
  BY <1>0, <1>u DEF OneEntryPerKey, LocalTypes
<1>6. Published'
  BY <1>u DEF Published, CurVersion
<1> QED BY <1>1, <1>2, <1>3, <1>4, <1>5, <1>6

\* The test for conflicting guards keeps the invariant: the goroutine holds nothing
\* that its early return could leave behind.
LEMMA CheckGuardsPreserves == ASSUME IInv, NEW g \in Proc, CheckGuards(g) PROVE IInv'
<1> USE DEF IInv, TypeOK, slocal, shared
<1>u. /\ pc[g] = "guards" /\ e[g] = Nil
      /\ UNCHANGED <<m, ent, pmu, emu, call, spc, scan>>
  BY DEF CheckGuards, PointerSet, EntryLabels
<1>p. /\ pc' = [pc EXCEPT ![g] = "idle"] \/ pc' = [pc EXCEPT ![g] = "rlock"]
      /\ e' = e
      /\ res' = res \/ res' = [res EXCEPT ![g] = Result("conflict", Nil, 0)]
  BY <1>u DEF CheckGuards, Goto, Return, LocalTypes
<1>1. TypeOK'
  <2>1. LocalTypes'
    BY <1>u, <1>p, ResultTypes DEF LocalTypes, Labels
  <2>2. QED BY <2>1, <1>u DEF SharedTypes, ScanTypes
<1>2. PartLocked'
  BY <1>p, <1>u DEF PartLocked, PartLockedBy, LocalTypes
<1>3. EntryLocked'
  BY <1>p, <1>u DEF EntryLocked, EntryLockedBy, LocalTypes
<1>4. PointerSet'
  BY <1>p, <1>u DEF PointerSet, EntryLabels, LocalTypes
<1>5. OneEntryPerKey'
  BY <1>p, <1>u DEF OneEntryPerKey
<1>6. Published'
  BY <1>u DEF Published, CurVersion
<1> QED BY <1>1, <1>2, <1>3, <1>4, <1>5, <1>6

\* RLock never removes a reader, never changes the writer, and lets nobody in beside
\* a writer that holds the mutex.
LEMMA RLockFacts ==
    \A mu \in RWMutexes(Threads), g \in Threads :
        /\ RLock(mu, g).writer = mu.writer
        /\ mu.readers \subseteq RLock(mu, g).readers
        /\ mu.writer # Nil /\ mu.readers = {} => RLock(mu, g).readers = {}
  BY DEF RWMutexes, RLock

\* p.mu.RLock keeps the invariant.
LEMMA PartRLockPreserves == ASSUME IInv, NEW g \in Proc, PartRLock(g) PROVE IInv'
<1> DEFINE p == PartOf(call[g].key)
           mu == RLock(pmu[p], g)
<1> USE DEF IInv, TypeOK, slocal
<1>u. /\ pc[g] = "rlock" /\ e[g] = Nil /\ call[g] \in Calls /\ p \in Parts
      /\ UNCHANGED <<m, ent, emu, call, e, res, spc, scan>>
      /\ pmu' = [pmu EXCEPT ![p] = mu]
  BY CallFields DEF PartRLock, PointerSet, EntryLabels, LocalTypes
<1>p. \/ pc' = [pc EXCEPT ![g] = "lookup"] /\ g \in mu.readers
      \/ pc' = pc
  BY <1>u DEF PartRLock, Goto, LocalTypes
<1>m. pmu[p] \in RWMutexes(Threads) /\ g \in Threads
  BY <1>u DEF SharedTypes, Threads
<1> HIDE DEF p, mu
<1>1. TypeOK'
  <2>1. SharedTypes'
    BY <1>u, <1>m, MutexTypes DEF SharedTypes, mu
  <2>2. LocalTypes'
    BY <1>u, <1>p DEF LocalTypes, Labels
  <2> QED BY <2>1, <2>2, <1>u DEF ScanTypes
<1>2. PartLocked'
  <2>r. /\ mu.writer = pmu[p].writer
        /\ pmu[p].readers \subseteq mu.readers
        /\ pmu[p].writer # Nil /\ pmu[p].readers = {} => mu.readers = {}
    BY <1>m, RLockFacts DEF mu
  <2>1. ASSUME NEW h \in Proc PROVE PartLockedBy(h)'
    <3>1. CASE pc[h] = "idle"
      BY <3>1, <1>u, <1>p DEF PartLockedBy, LocalTypes
    <3>2. CASE h # g /\ pc[h] # "idle"
      <4> PartOf(call[h].key) \in Parts BY <3>2, CallFields DEF LocalTypes
      <4> PartLockedBy(h) /\ pc'[h] = pc[h] BY <3>2, <1>p DEF PartLocked, LocalTypes
      <4> QED BY <3>2, <1>u, <2>r, StoreAssumption DEF PartLockedBy, SharedTypes
    <3>3. CASE h = g
      BY <3>3, <1>u, <1>p DEF PartLockedBy, SharedTypes, LocalTypes, p
    <3> QED BY <3>1, <3>2, <3>3, <1>u
  <2>2. ASSUME NEW s \in Scanner, spc'[s] = "copy"
        PROVE  s \in pmu'[scan'[s].next].readers
    BY <2>2, <1>u, <2>r DEF PartLocked, SharedTypes
  <2> QED BY <2>1, <2>2 DEF PartLocked
<1>3. EntryLocked'
  BY <1>p, <1>u DEF EntryLocked, EntryLockedBy, LocalTypes
<1>4. PointerSet'
  BY <1>p, <1>u DEF PointerSet, EntryLabels, LocalTypes
<1>5. OneEntryPerKey'
  BY <1>u DEF OneEntryPerKey
<1>6. Published'
  BY <1>u DEF Published, CurVersion
<1> QED BY <1>1, <1>2, <1>3, <1>4, <1>5, <1>6

\* The lookup keeps the invariant: the pointer it takes out of the map belongs to its
\* key, and no creator is between its insertion and its snapshot, because that one
\* would hold the partition's mutex.
LEMMA LookupPreserves == ASSUME IInv, NEW g \in Proc, Lookup(g) PROVE IInv'
<1> DEFINE p == PartOf(call[g].key)
           found == m[call[g].key]
<1> USE DEF IInv, TypeOK, slocal
<1>u. /\ pc[g] = "lookup" /\ e[g] = Nil /\ call[g] \in Calls /\ p \in Parts
      /\ call[g].key \in Key /\ found \in Ref \cup {Nil}
      /\ UNCHANGED <<m, ent, emu, call, spc, scan>>
      /\ pmu' = [pmu EXCEPT ![p] = RUnlock(pmu[p], g)]
  BY CallFields DEF Lookup, PointerSet, EntryLabels, LocalTypes, SharedTypes
<1>p. \/ /\ pc' = [pc EXCEPT ![g] = "idle"] \/ pc' = [pc EXCEPT ![g] = "partLock"]
         /\ e' = e
         /\ res' = res \/ res' = [res EXCEPT ![g] = Result("notFound", Nil, 0)]
      \/ /\ \/ pc' = [pc EXCEPT ![g] = "entryRLock"]
            \/ pc' = [pc EXCEPT ![g] = "entryLock"]
         /\ found # Nil
         /\ e' = [e EXCEPT ![g] = found]
         /\ res' = res
  BY <1>u DEF Lookup, Goto, Return, LocalTypes
<1>m. pmu[p] \in RWMutexes(Threads) /\ g \in Threads
  BY <1>u DEF SharedTypes, Threads
<1> HIDE DEF p, found
<1>1. TypeOK'
  <2>1. SharedTypes'
    BY <1>u, <1>m, MutexTypes DEF SharedTypes
  <2>2. LocalTypes'
    <3>1. /\ pc' \in [Proc -> Labels] /\ e' \in [Proc -> Ref \cup {Nil}]
          /\ \A h \in Proc : pc'[h] # "idle" => pc[h] # "idle"
      BY <1>u, <1>p DEF LocalTypes, Labels
    <3>2. res' \in [Proc -> Results]
      BY <1>p, ResultTypes DEF LocalTypes
    <3> QED BY <1>u, <3>1, <3>2 DEF LocalTypes
  <2> QED BY <2>1, <2>2, <1>u DEF ScanTypes
<1>2. PartLocked'
  <2>1. ASSUME NEW h \in Proc PROVE PartLockedBy(h)'
    <3>1. CASE pc[h] = "idle"
      BY <3>1, <1>u, <1>p DEF PartLockedBy, LocalTypes
    <3>2. CASE h # g /\ pc[h] # "idle"
      <4> PartOf(call[h].key) \in Parts BY <3>2, CallFields DEF LocalTypes
      <4> PartLockedBy(h) /\ pc'[h] = pc[h] BY <3>2, <1>p DEF PartLocked, LocalTypes
      <4> QED BY <3>2, <1>u DEF PartLockedBy, SharedTypes, RUnlock
    <3>3. CASE h = g
      BY <3>3, <1>u, <1>p DEF PartLockedBy, LocalTypes
    <3> QED BY <3>1, <3>2, <3>3
  <2>2. ASSUME NEW s \in Scanner, spc'[s] = "copy"
        PROVE  s \in pmu'[scan'[s].next].readers
    BY <2>2, <1>u, StoreAssumption DEF PartLocked, SharedTypes, RUnlock
  <2> QED BY <2>1, <2>2 DEF PartLocked
<1>3. EntryLocked'
  <2> SUFFICES ASSUME NEW h \in Proc PROVE EntryLockedBy(h)'
    BY DEF EntryLocked
  <2>1. CASE h = g
    BY <2>1, <1>p, <1>u DEF EntryLockedBy, LocalTypes
  <2>2. CASE h # g /\ pc[h] # "snap"
    BY <2>2, <1>p, <1>u DEF EntryLockedBy, EntryLocked, LocalTypes
  <2>3. CASE h # g /\ pc[h] = "snap"
    \* g reads the map of its partition, so h, which is creating a key, is
    \* in another one: g cannot have found the entry h created.
    <3>1. call[h].key # call[g].key
      BY <2>3, <1>u DEF PartLocked, PartLockedBy, p
    <3>2. call[h].key \in Key /\ e[h] # Nil /\ m[call[h].key] = e[h]
      BY <2>3, CallFields DEF OneEntryPerKey, PointerSet, EntryLabels, LocalTypes
    <3>3. found # e[h]
      BY <3>1, <3>2, <1>u DEF OneEntryPerKey, found
    <3> QED BY <2>3, <3>3, <1>p, <1>u DEF EntryLockedBy, EntryLocked, LocalTypes
  <2> QED BY <2>1, <2>2, <2>3
<1>4. PointerSet'
  BY <1>p, <1>u DEF PointerSet, EntryLabels, LocalTypes
<1>5. OneEntryPerKey'
  BY <1>p, <1>u DEF OneEntryPerKey, LocalTypes, found
<1>6. Published'
  BY <1>u DEF Published, CurVersion
<1> QED BY <1>1, <1>2, <1>3, <1>4, <1>5, <1>6

\* e.mu.RLock in Get keeps the invariant.
LEMMA EntryRLockPreserves == ASSUME IInv, NEW g \in Proc, EntryRLock(g) PROVE IInv'
<1> DEFINE r == e[g]
           mu == RLock(emu[r], g)
<1> USE DEF IInv, TypeOK, slocal
<1>u. /\ pc[g] = "entryRLock" /\ r \in Ref
      /\ UNCHANGED <<m, ent, pmu, call, e, res, spc, scan>>
      /\ emu' = [emu EXCEPT ![r] = mu]
  BY DEF EntryRLock, PointerSet, EntryLabels, LocalTypes
<1>p. \/ pc' = [pc EXCEPT ![g] = "copy"] /\ g \in mu.readers
      \/ pc' = pc
  BY <1>u DEF EntryRLock, Goto, LocalTypes
<1>m. emu[r] \in RWMutexes(Threads) /\ g \in Threads
  BY <1>u DEF SharedTypes, Threads
<1> HIDE DEF r, mu
<1>1. TypeOK'
  <2>1. SharedTypes'
    BY <1>u, <1>m, MutexTypes DEF SharedTypes, mu
  <2>2. LocalTypes'
    BY <1>u, <1>p DEF LocalTypes, Labels
  <2> QED BY <2>1, <2>2, <1>u DEF ScanTypes
<1>2. PartLocked'
  BY <1>p, <1>u DEF PartLocked, PartLockedBy, LocalTypes
<1>3. EntryLocked'
  <2>r. /\ mu.writer = emu[r].writer
        /\ emu[r].readers \subseteq mu.readers
        /\ emu[r].writer # Nil /\ emu[r].readers = {} => mu.readers = {}
    BY <1>m, RLockFacts DEF mu
  <2> SUFFICES ASSUME NEW h \in Proc PROVE EntryLockedBy(h)'
    BY DEF EntryLocked
  <2>1. CASE h = g
    BY <2>1, <1>p, <1>u DEF EntryLockedBy, SharedTypes, LocalTypes, r
  <2>2. CASE h # g
    <3>1. EntryLockedBy(h) /\ pc'[h] = pc[h] /\ e'[h] = e[h]
      BY <2>2, <1>p, <1>u DEF EntryLocked, LocalTypes
    <3>2. pc[h] \in EntryLabels => e[h] \in Ref
      BY DEF PointerSet, LocalTypes
    <3> QED BY <3>1, <3>2, <1>u, <2>r, StoreAssumption
            DEF EntryLockedBy, SharedTypes, EntryLabels
  <2> QED BY <2>1, <2>2
<1>4. PointerSet'
  BY <1>p, <1>u DEF PointerSet, EntryLabels, LocalTypes
<1>5. OneEntryPerKey'
  BY <1>u DEF OneEntryPerKey
<1>6. Published'
  BY <1>u DEF Published, CurVersion
<1> QED BY <1>1, <1>2, <1>3, <1>4, <1>5, <1>6

\* The snapshot of Get keeps the invariant.
LEMMA CopyPreserves == ASSUME IInv, NEW g \in Proc, Copy(g) PROVE IInv'
<1> DEFINE r == e[g]
<1> USE DEF IInv, TypeOK, slocal
<1>u. /\ pc[g] = "copy" /\ r \in Ref
      /\ UNCHANGED <<m, ent, pmu, call, spc, scan>>
      /\ emu' = [emu EXCEPT ![r] = RUnlock(emu[r], g)]
      /\ pc' = [pc EXCEPT ![g] = "idle"]
      /\ e' = [e EXCEPT ![g] = Nil]
      /\ res' = [res EXCEPT ![g] = Result("ok", ent[r].value, ent[r].version)]
  BY DEF Copy, Return, Goto, PointerSet, EntryLabels, LocalTypes
<1>m. /\ emu[r] \in RWMutexes(Threads) /\ g \in Threads
      /\ ent[r].value \in Value \cup {Nil} /\ ent[r].version \in Nat
  BY <1>u DEF SharedTypes, Threads
<1> HIDE DEF r
<1>1. TypeOK'
  <2>1. SharedTypes'
    BY <1>u, <1>m, MutexTypes DEF SharedTypes
  <2>2. LocalTypes'
    BY <1>u, <1>m, ResultTypes DEF LocalTypes, Labels
  <2> QED BY <2>1, <2>2, <1>u DEF ScanTypes
<1>2. PartLocked'
  BY <1>u DEF PartLocked, PartLockedBy, LocalTypes
<1>3. EntryLocked'
  BY <1>u DEF EntryLocked, EntryLockedBy, SharedTypes, LocalTypes, PointerSet, EntryLabels, RUnlock
<1>4. PointerSet'
  BY <1>u DEF PointerSet, EntryLabels, LocalTypes
<1>5. OneEntryPerKey'
  BY <1>u DEF OneEntryPerKey, LocalTypes
<1>6. Published'
  BY <1>u DEF Published, CurVersion
<1> QED BY <1>1, <1>2, <1>3, <1>4, <1>5, <1>6

\* e.mu.Lock in Write keeps the invariant: it is granted when no reader is inside.
LEMMA EntryLockPreserves == ASSUME IInv, NEW g \in Proc, EntryLock(g) PROVE IInv'
<1> DEFINE r == e[g]
<1> USE DEF IInv, TypeOK, slocal
<1>u. /\ pc[g] = "entryLock" /\ r \in Ref
      /\ UNCHANGED <<m, ent, pmu, call, e, res, spc, scan>>
      /\ emu[r].writer \in {Nil, g}
      /\ emu' = [emu EXCEPT ![r] = Announce(emu[r], g)]
  BY DEF EntryLock, CanAnnounce, PointerSet, EntryLabels, LocalTypes
<1>p. \/ pc' = [pc EXCEPT ![g] = "guard"] /\ emu[r].readers = {}
      \/ pc' = pc
  BY <1>u DEF EntryLock, Goto, Drained, LocalTypes
<1>m. emu[r] \in RWMutexes(Threads) /\ g \in Threads
  BY <1>u DEF SharedTypes, Threads
<1> HIDE DEF r
<1>1. TypeOK'
  <2>1. SharedTypes'
    BY <1>u, <1>m, MutexTypes DEF SharedTypes
  <2>2. LocalTypes'
    BY <1>u, <1>p DEF LocalTypes, Labels
  <2> QED BY <2>1, <2>2, <1>u DEF ScanTypes
<1>2. PartLocked'
  BY <1>p, <1>u DEF PartLocked, PartLockedBy, LocalTypes
<1>3. EntryLocked'
  <2> SUFFICES ASSUME NEW h \in Proc PROVE EntryLockedBy(h)'
    BY DEF EntryLocked
  <2>1. CASE h = g
    BY <2>1, <1>p, <1>u DEF EntryLockedBy, SharedTypes, LocalTypes, Announce, r
  <2>2. CASE h # g
    <3>1. EntryLockedBy(h) /\ pc'[h] = pc[h] /\ e'[h] = e[h]
      BY <2>2, <1>p, <1>u DEF EntryLocked, LocalTypes
    <3>2. pc[h] \in EntryLabels => e[h] \in Ref
      BY DEF PointerSet, LocalTypes
    <3> QED BY <3>1, <3>2, <2>2, <1>u, StoreAssumption
            DEF EntryLockedBy, SharedTypes, EntryLabels, Announce
  <2> QED BY <2>1, <2>2
<1>4. PointerSet'
  BY <1>p, <1>u DEF PointerSet, EntryLabels, LocalTypes
<1>5. OneEntryPerKey'
  BY <1>u DEF OneEntryPerKey
<1>6. Published'
  BY <1>u DEF Published, CurVersion
<1> QED BY <1>1, <1>2, <1>3, <1>4, <1>5, <1>6

\* A writer that unlocks an entry takes nothing away from the other goroutines: they
\* hold no lock on it.
LEMMA UnlockEntryKeepsLocks ==
    ASSUME IInv, NEW g \in Proc, pc[g] \in {"guard", "bump"}, e[g] \in Ref,
           pc' = [pc EXCEPT ![g] = "idle"], e' = [e EXCEPT ![g] = Nil],
           emu' = [emu EXCEPT ![e[g]] = Unlock(emu[e[g]])]
    PROVE  EntryLocked'
<1> SUFFICES ASSUME NEW h \in Proc PROVE EntryLockedBy(h)'
  BY DEF EntryLocked
<1> USE DEF IInv, TypeOK
<1>1. CASE h = g
  BY <1>1 DEF EntryLockedBy, LocalTypes
<1>2. CASE h # g
  \* g was alone on its entry, so whoever is inside one is inside another one
  <2>1. /\ EntryLockedBy(h) /\ pc'[h] = pc[h] /\ e'[h] = e[h]
        /\ emu[e[g]].writer = g /\ emu[e[g]].readers = {}
    BY <1>2 DEF EntryLocked, EntryLockedBy, LocalTypes
  <2>2. pc[h] \in EntryLabels => e[h] \in Ref
    BY DEF PointerSet, LocalTypes
  <2>3. pc[h] \in {"copy", "guard", "bump"} => e[h] # e[g]
    BY <1>2, <2>1 DEF EntryLockedBy
  <2> QED BY <1>2, <2>1, <2>2, <2>3 DEF EntryLockedBy, SharedTypes, LocalTypes, EntryLabels, PointerSet
<1> QED BY <1>1, <1>2

\* The guards and the new value of Write keep the invariant, on the refusal and on
\* the update.
LEMMA GuardPreserves == ASSUME IInv, NEW g \in Proc, Guard(g) PROVE IInv'
<1> DEFINE r == e[g]
           x == ent[r]
<1> USE DEF IInv, TypeOK, slocal
<1>u. /\ pc[g] = "guard" /\ r \in Ref /\ g \in Threads
      /\ call[g] \in Calls /\ call[g].key \in Key /\ m[call[g].key] = r
      /\ UNCHANGED <<m, pmu, call, spc, scan>>
  BY CallFields DEF Guard, PointerSet, EntryLabels, LocalTypes, OneEntryPerKey, Threads
<1>m. /\ emu[r] \in RWMutexes(Threads)
      /\ x.value \in Value /\ x.version \in Nat /\ x.version > 0
  BY <1>u, StoreAssumption DEF SharedTypes, Published, CurVersion
<1>a. CASE Refused(x, call[g])
  <2>u. /\ emu' = [emu EXCEPT ![r] = Unlock(emu[r])]
        /\ pc' = [pc EXCEPT ![g] = "idle"]
        /\ e' = [e EXCEPT ![g] = Nil]
        /\ res' = [res EXCEPT ![g] = Result("mismatch", Nil, x.version)]
        /\ UNCHANGED ent
    BY <1>a DEF Guard, Refuse, Return, Goto
  <2> HIDE DEF r, x
  <2>1. TypeOK'
    <3>1. SharedTypes'
      BY <1>u, <2>u, <1>m, MutexTypes DEF SharedTypes
    <3>2. LocalTypes'
      BY <1>u, <2>u, <1>m, ResultTypes DEF LocalTypes, Labels
    <3> QED BY <3>1, <3>2, <1>u DEF ScanTypes
  <2>2. PartLocked'
    BY <1>u, <2>u DEF PartLocked, PartLockedBy, LocalTypes
  <2>3. EntryLocked'
    BY <1>u, <2>u, UnlockEntryKeepsLocks DEF r
  <2>4. PointerSet'
    BY <1>u, <2>u DEF PointerSet, EntryLabels, LocalTypes
  <2>5. OneEntryPerKey'
    BY <1>u, <2>u DEF OneEntryPerKey, LocalTypes
  <2>6. Published'
    BY <1>u, <2>u DEF Published, CurVersion
  <2> QED BY <2>1, <2>2, <2>3, <2>4, <2>5, <2>6
<1>b. CASE ~Refused(x, call[g])
  <2>u. /\ ent' = [ent EXCEPT ![r] = [value |-> Compute(x.value, call[g]),
                                     version |-> x.version]]
        /\ pc' = [pc EXCEPT ![g] = "bump"]
        /\ UNCHANGED <<emu, e, res>>
    BY <1>b DEF Guard, Update, Assigned, Goto
  <2>v. Compute(x.value, call[g]) \in Value
    BY <1>u, <1>m, CallFields, StoreAssumption DEF Compute
  <2> HIDE DEF r, x
  <2>1. TypeOK'
    <3>1. SharedTypes'
      BY <1>u, <2>u, <2>v, <1>m DEF SharedTypes
    <3>2. LocalTypes'
      BY <1>u, <2>u DEF LocalTypes, Labels
    <3> QED BY <3>1, <3>2, <1>u DEF ScanTypes
  <2>2. PartLocked'
    BY <1>u, <2>u DEF PartLocked, PartLockedBy, LocalTypes
  <2>3. EntryLocked'
    BY <1>u, <2>u DEF EntryLocked, EntryLockedBy, LocalTypes
  <2>4. PointerSet'
    BY <1>u, <2>u DEF PointerSet, EntryLabels, LocalTypes
  <2>5. OneEntryPerKey'
    BY <1>u, <2>u DEF OneEntryPerKey
  <2>6. Published'
    BY <1>u, <2>u, <2>v, <1>m DEF Published, CurVersion, SharedTypes
  <2> QED BY <2>1, <2>2, <2>3, <2>4, <2>5, <2>6
<1> QED BY <1>a, <1>b

\* The increment, the snapshot and the unlock of Write keep the invariant.
LEMMA BumpPreserves == ASSUME IInv, NEW g \in Proc, Bump(g) PROVE IInv'
<1> DEFINE r == e[g]
           x == ent[r]
<1> USE DEF IInv, TypeOK, slocal
<1>u. /\ pc[g] = "bump" /\ r \in Ref /\ g \in Threads
      /\ call[g].key \in Key /\ m[call[g].key] = r
      /\ UNCHANGED <<m, pmu, call, spc, scan>>
      /\ ent' = [ent EXCEPT ![r] = [value |-> x.value, version |-> x.version + 1]]
      /\ emu' = [emu EXCEPT ![r] = Unlock(emu[r])]
      /\ pc' = [pc EXCEPT ![g] = "idle"]
      /\ e' = [e EXCEPT ![g] = Nil]
      /\ res' = [res EXCEPT ![g] = Result("ok", x.value, x.version + 1)]
  BY CallFields
  DEF Bump, Return, Goto, PointerSet, EntryLabels, LocalTypes, OneEntryPerKey, Threads
<1>m. /\ emu[r] \in RWMutexes(Threads)
      /\ x.value \in Value /\ x.version \in Nat
  BY <1>u, StoreAssumption DEF SharedTypes, Published
<1> HIDE DEF r, x
<1>1. TypeOK'
  <2>1. SharedTypes'
    BY <1>u, <1>m, MutexTypes DEF SharedTypes
  <2>2. LocalTypes'
    BY <1>u, <1>m, ResultTypes DEF LocalTypes, Labels
  <2> QED BY <2>1, <2>2, <1>u DEF ScanTypes
<1>2. PartLocked'
  BY <1>u DEF PartLocked, PartLockedBy, LocalTypes
<1>3. EntryLocked'
  BY <1>u, UnlockEntryKeepsLocks DEF r
<1>4. PointerSet'
  BY <1>u DEF PointerSet, EntryLabels, LocalTypes
<1>5. OneEntryPerKey'
  BY <1>u DEF OneEntryPerKey, LocalTypes
<1>6. Published'
  BY <1>u, <1>m DEF Published, CurVersion, SharedTypes
<1> QED BY <1>1, <1>2, <1>3, <1>4, <1>5, <1>6

\* p.mu.Lock in Write keeps the invariant: it is granted when no reader is inside.
LEMMA PartLockPreserves == ASSUME IInv, NEW g \in Proc, PartLock(g) PROVE IInv'
<1> DEFINE p == PartOf(call[g].key)
<1> USE DEF IInv, TypeOK, slocal
<1>u. /\ pc[g] = "partLock" /\ p \in Parts
      /\ UNCHANGED <<m, ent, emu, call, e, res, spc, scan>>
      /\ pmu[p].writer \in {Nil, g}
      /\ pmu' = [pmu EXCEPT ![p] = Announce(pmu[p], g)]
  BY CallFields DEF PartLock, CanAnnounce, LocalTypes
<1>p. \/ pc' = [pc EXCEPT ![g] = "insert"] /\ pmu[p].readers = {}
      \/ pc' = pc
  BY <1>u DEF PartLock, Goto, Drained, LocalTypes
<1>m. pmu[p] \in RWMutexes(Threads) /\ g \in Threads
  BY <1>u DEF SharedTypes, Threads
<1> HIDE DEF p
<1>1. TypeOK'
  <2>1. SharedTypes'
    BY <1>u, <1>m, MutexTypes DEF SharedTypes
  <2>2. LocalTypes'
    BY <1>u, <1>p DEF LocalTypes, Labels
  <2> QED BY <2>1, <2>2, <1>u DEF ScanTypes
<1>2. PartLocked'
  <2>1. ASSUME NEW h \in Proc PROVE PartLockedBy(h)'
    <3>1. CASE pc[h] = "idle"
      BY <3>1, <1>u, <1>p DEF PartLockedBy, LocalTypes
    <3>2. CASE h # g /\ pc[h] # "idle"
      <4> PartOf(call[h].key) \in Parts BY <3>2, CallFields DEF LocalTypes
      <4> PartLockedBy(h) /\ pc'[h] = pc[h] BY <3>2, <1>p DEF PartLocked, LocalTypes
      <4> QED BY <3>2, <1>u, StoreAssumption DEF PartLockedBy, SharedTypes, Announce
    <3>3. CASE h = g
      BY <3>3, <1>u, <1>p DEF PartLockedBy, SharedTypes, LocalTypes, Announce, p
    <3> QED BY <3>1, <3>2, <3>3
  <2>2. ASSUME NEW s \in Scanner, spc'[s] = "copy"
        PROVE  s \in pmu'[scan'[s].next].readers
    BY <2>2, <1>u DEF PartLocked, SharedTypes, Announce
  <2> QED BY <2>1, <2>2 DEF PartLocked
<1>3. EntryLocked'
  BY <1>p, <1>u DEF EntryLocked, EntryLockedBy, LocalTypes
<1>4. PointerSet'
  BY <1>p, <1>u DEF PointerSet, EntryLabels, LocalTypes
<1>5. OneEntryPerKey'
  BY <1>u DEF OneEntryPerKey
<1>6. Published'
  BY <1>u DEF Published, CurVersion
<1> QED BY <1>1, <1>2, <1>3, <1>4, <1>5, <1>6

\* A writer that unlocks a partition takes nothing away from the other goroutines.
LEMMA UnlockPartKeepsLocks ==
    ASSUME IInv, NEW g \in Proc, pc[g] \in {"insert", "snap"}, NEW l \in {"idle", "rlock"},
           pc' = [pc EXCEPT ![g] = l],
           pmu' = [pmu EXCEPT ![PartOf(call[g].key)] = Unlock(pmu[PartOf(call[g].key)])],
           UNCHANGED <<call, spc, scan>>
    PROVE  PartLocked'
<1> DEFINE p == PartOf(call[g].key)
<1> USE DEF IInv, TypeOK
<1>p. /\ p \in Parts
      /\ pmu[p].writer = g /\ pmu[p].readers = {}
  BY CallFields DEF LocalTypes, PartLocked, PartLockedBy
<1>1. ASSUME NEW h \in Proc PROVE PartLockedBy(h)'
  <2>1. CASE h = g \/ pc[h] = "idle"
    BY <2>1 DEF PartLockedBy, LocalTypes
  <2>2. CASE h # g /\ pc[h] # "idle"
    <3> PartOf(call[h].key) \in Parts BY <2>2, CallFields DEF LocalTypes
    <3> PartLockedBy(h) /\ pc'[h] = pc[h] BY <2>2 DEF PartLocked, LocalTypes
    <3> QED BY <2>2, <1>p DEF PartLockedBy, SharedTypes
  <2> QED BY <2>1, <2>2
<1>2. ASSUME NEW s \in Scanner, spc'[s] = "copy"
      PROVE  s \in pmu'[scan'[s].next].readers
  BY <1>2, <1>p DEF PartLocked, SharedTypes
<1> QED BY <1>1, <1>2 DEF PartLocked

\* Publishing a new entry keeps the invariant: its address is free, so no key and no
\* goroutine has it, and the entry is complete when the map gets it.
LEMMA CreatePreserves ==
    ASSUME IInv, NEW g \in Proc, pc[g] = "insert", m[call[g].key] = Nil, Create(g),
           UNCHANGED <<call, slocal>>
    PROVE  IInv'
<1> DEFINE k == call[g].key
<1> USE DEF IInv, TypeOK, slocal
<1>0. PICK r \in Ref :
        /\ \A l \in Key : m[l] # r
        /\ \A h \in Proc : e[h] # r
        /\ ent' = [ent EXCEPT ![r] = [value |-> call[g].body, version |-> FirstVersion]]
        /\ emu' = [emu EXCEPT ![r] = Unlocked]
        /\ m' = [m EXCEPT ![k] = r]
        /\ e' = [e EXCEPT ![g] = r]
        /\ pc' = [pc EXCEPT ![g] = "snap"]
        /\ UNCHANGED <<pmu, res>>
  BY DEF Create, FreeRef, Goto
<1>u. /\ call[g] \in Calls /\ k \in Key /\ call[g].body \in Value /\ e[g] = Nil
      /\ UNCHANGED <<call, spc, scan>> /\ r # Nil
  BY CallFields, StoreAssumption DEF LocalTypes, PointerSet, EntryLabels
<1> HIDE DEF k
<1>1. TypeOK'
  <2>1. SharedTypes'
    BY <1>0, <1>u, MutexTypes DEF SharedTypes, FirstVersion
  <2>2. LocalTypes'
    BY <1>0, <1>u DEF LocalTypes, Labels
  <2> QED BY <2>1, <2>2, <1>u DEF ScanTypes
<1>2. PartLocked'
  BY <1>0, <1>u DEF PartLocked, PartLockedBy, LocalTypes
<1>3. EntryLocked'
  <2> SUFFICES ASSUME NEW h \in Proc PROVE EntryLockedBy(h)'
    BY DEF EntryLocked
  <2>1. CASE h = g
    BY <2>1, <1>0, <1>u DEF EntryLockedBy, LocalTypes
  <2>2. CASE h # g
    BY <2>2, <1>0, <1>u DEF EntryLockedBy, EntryLocked, LocalTypes, SharedTypes
  <2> QED BY <2>1, <2>2
<1>4. PointerSet'
  BY <1>0, <1>u DEF PointerSet, EntryLabels, LocalTypes
<1>5. OneEntryPerKey'
  <2>1. ASSUME NEW h \in Proc, e'[h] # Nil PROVE m'[call'[h].key] = e'[h]
    <3>1. CASE h = g
      BY <3>1, <1>0, <1>u DEF SharedTypes, LocalTypes, k
    <3>2. CASE h # g
      \* k was absent, so h, which has a pointer, is at another key
      BY <2>1, <3>2, <1>0, <1>u DEF OneEntryPerKey, SharedTypes, LocalTypes, k
    <3> QED BY <3>1, <3>2
  <2>2. ASSUME NEW a \in Key, NEW b \in Key, m'[a] # Nil, m'[a] = m'[b] PROVE a = b
    BY <2>2, <1>0, <1>u DEF OneEntryPerKey, SharedTypes
  <2> QED BY <2>1, <2>2 DEF OneEntryPerKey
<1>6. Published'
  BY <1>0, <1>u DEF Published, CurVersion, SharedTypes, FirstVersion
<1> QED BY <1>1, <1>2, <1>3, <1>4, <1>5, <1>6

\* The critical section of a creating Write keeps the invariant: on the lost race, on
\* the refusal of ifVersion, and on the creation.
LEMMA InsertPreserves == ASSUME IInv, NEW g \in Proc, Insert(g) PROVE IInv'
<1> DEFINE p == PartOf(call[g].key)
<1> USE DEF IInv, TypeOK, slocal
<1>a. CASE m[call[g].key] # Nil \/ call[g].ifVersion # Nil
  <2>u. /\ pc[g] = "insert" /\ p \in Parts /\ g \in Threads /\ e[g] = Nil
        /\ UNCHANGED <<m, ent, emu, call, spc, scan>>
        /\ pmu' = [pmu EXCEPT ![p] = Unlock(pmu[p])]
    BY <1>a, CallFields DEF Insert, StillAbsent, LocalTypes, Threads, PointerSet, EntryLabels
  <2>p. /\ pc' = [pc EXCEPT ![g] = "idle"] \/ pc' = [pc EXCEPT ![g] = "rlock"]
        /\ e' = e
        /\ res' = res \/ res' = [res EXCEPT ![g] = Result("mismatch", Nil, 0)]
    BY <1>a, <2>u DEF Insert, StillAbsent, Return, Goto, LocalTypes
  <2>1. TypeOK'
    <3>1. SharedTypes'
      BY <2>u, MutexTypes DEF SharedTypes
    <3>2. LocalTypes'
      BY <2>u, <2>p, ResultTypes DEF LocalTypes, Labels
    <3> QED BY <3>1, <3>2, <2>u DEF ScanTypes
  <2>2. PartLocked'
    BY <2>u, <2>p, UnlockPartKeepsLocks
  <2>3. EntryLocked'
    BY <2>u, <2>p DEF EntryLocked, EntryLockedBy, LocalTypes
  <2>4. PointerSet'
    BY <2>u, <2>p DEF PointerSet, EntryLabels, LocalTypes
  <2>5. OneEntryPerKey'
    BY <2>u, <2>p DEF OneEntryPerKey
  <2>6. Published'
    BY <2>u DEF Published, CurVersion
  <2> QED BY <2>1, <2>2, <2>3, <2>4, <2>5, <2>6
<1>b. CASE m[call[g].key] = Nil /\ call[g].ifVersion = Nil
  BY <1>b, CreatePreserves DEF Insert, StillAbsent
<1> QED BY <1>a, <1>b

\* The snapshot of a new entry and the unlock of its partition keep the invariant.
LEMMA SnapPreserves == ASSUME IInv, NEW g \in Proc, Snap(g) PROVE IInv'
<1> DEFINE p == PartOf(call[g].key)
           r == e[g]
<1> USE DEF IInv, TypeOK, slocal
<1>u. /\ pc[g] = "snap" /\ p \in Parts /\ r \in Ref /\ g \in Threads
      /\ UNCHANGED <<m, ent, emu, call, spc, scan>>
      /\ pmu' = [pmu EXCEPT ![p] = Unlock(pmu[p])]
      /\ pc' = [pc EXCEPT ![g] = "idle"]
      /\ e' = [e EXCEPT ![g] = Nil]
      /\ res' = [res EXCEPT ![g] = Result("ok", ent[r].value, ent[r].version)]
  BY CallFields
  DEF Snap, Return, Goto, PointerSet, EntryLabels, LocalTypes, Threads
<1>m. /\ pmu[p] \in RWMutexes(Threads)
      /\ ent[r].value \in Value \cup {Nil} /\ ent[r].version \in Nat
  BY <1>u DEF SharedTypes
<1>2. PartLocked'
  BY <1>u, UnlockPartKeepsLocks
<1> HIDE DEF p, r
<1>1. TypeOK'
  <2>1. SharedTypes'
    BY <1>u, <1>m, MutexTypes DEF SharedTypes
  <2>2. LocalTypes'
    BY <1>u, <1>m, ResultTypes DEF LocalTypes, Labels
  <2> QED BY <2>1, <2>2, <1>u DEF ScanTypes
<1>3. EntryLocked'
  BY <1>u DEF EntryLocked, EntryLockedBy, LocalTypes, PointerSet, EntryLabels
<1>4. PointerSet'
  BY <1>u DEF PointerSet, EntryLabels, LocalTypes
<1>5. OneEntryPerKey'
  BY <1>u DEF OneEntryPerKey, LocalTypes
<1>6. Published'
  BY <1>u DEF Published, CurVersion
<1> QED BY <1>1, <1>2, <1>3, <1>4, <1>5, <1>6

\* A step that changes only a partition mutex and the state of a scan keeps the parts
\* of the invariant about entries and pointers.
LEMMA ScanFrame ==
    ASSUME IInv, UNCHANGED <<m, ent, emu, local>>
    PROVE  LocalTypes' /\ EntryLocked' /\ PointerSet' /\ OneEntryPerKey' /\ Published'
<1> USE DEF IInv, TypeOK, local
<1>1. LocalTypes' BY DEF LocalTypes
<1>2. EntryLocked' BY DEF EntryLocked, EntryLockedBy
<1>3. PointerSet' BY DEF PointerSet
<1>4. OneEntryPerKey' BY DEF OneEntryPerKey
<1>5. Published' BY DEF Published, CurVersion
<1> QED BY <1>1, <1>2, <1>3, <1>4, <1>5

\* The partitions are numbered from 0 without a gap.
LEMMA PartsFacts == 0 \in Parts /\ Parts \subseteq Nat
                    /\ \A p \in Parts : p + 1 # PartitionCount => p + 1 \in Parts
  BY StoreAssumption DEF Parts, Partitions, ValidPartitionCount

\* A scan that begins has its type.
LEMMA NewScanType ==
    ASSUME NEW kind \in Scans, NEW K \in SUBSET Key
    PROVE  NewScan(kind, K) \in ScanStates /\ NewScan(kind, K).next \in Parts
<1> DEFINE empty == <<>>
<1>1. empty \in Seq(Key) OBVIOUS
<1> HIDE DEF empty
<1>2. [kind |-> kind, next |-> 0, keys |-> {}, out |-> empty, total |-> 0,
       atStart |-> K] \in ScanStates
  BY <1>1 DEF ScanStates
<1> QED BY <1>2, PartsFacts DEF NewScan, empty

\* Entering Keys or Len keeps the invariant.
LEMMA BeginScanPreserves == ASSUME IInv, NEW s \in Scanner, BeginScan(s) PROVE IInv'
<1> USE DEF IInv, TypeOK
<1>1. PICK kind \in Scans : scan' = [scan EXCEPT ![s] = NewScan(kind, Present)]
  BY DEF BeginScan
<1>u. UNCHANGED <<m, ent, pmu, emu, local>> /\ spc' = [spc EXCEPT ![s] = "rlock"]
  BY DEF BeginScan, SGoto, shared
<1>2. ScanTypes'
  BY <1>1, <1>u, NewScanType DEF ScanTypes, SLabels, Present
<1>3. PartLocked'
  BY <1>1, <1>u DEF PartLocked, PartLockedBy, ScanTypes, local
<1> QED BY <1>u, <1>2, <1>3, ScanFrame DEF SharedTypes

\* p.mu.RLock in Keys and Len keeps the invariant.
LEMMA ScanRLockPreserves == ASSUME IInv, NEW s \in Scanner, ScanRLock(s) PROVE IInv'
<1> DEFINE p == scan[s].next
           mu == RLock(pmu[p], s)
<1> USE DEF IInv, TypeOK
<1>u. /\ spc[s] = "rlock" /\ p \in Parts /\ s \in Threads
      /\ UNCHANGED <<m, ent, emu, local, scan>>
      /\ pmu' = [pmu EXCEPT ![p] = mu]
  BY DEF ScanRLock, ScanTypes, Threads
<1>p. \/ spc' = [spc EXCEPT ![s] = "copy"] /\ s \in mu.readers
      \/ spc' = spc
  BY <1>u DEF ScanRLock, SGoto, ScanTypes
<1>m. pmu[p] \in RWMutexes(Threads)
  BY <1>u DEF SharedTypes
<1>r. /\ mu.writer = pmu[p].writer
      /\ pmu[p].readers \subseteq mu.readers
      /\ pmu[p].writer # Nil /\ pmu[p].readers = {} => mu.readers = {}
  BY <1>u, <1>m, RLockFacts
<1>1. SharedTypes'
  BY <1>u, <1>m, MutexTypes DEF SharedTypes
<1> HIDE DEF p, mu
<1>2. ScanTypes'
  BY <1>u, <1>p DEF ScanTypes, SLabels
<1>3. PartLocked'
  <2>1. ASSUME NEW h \in Proc PROVE PartLockedBy(h)'
    <3>1. CASE pc[h] = "idle"
      BY <3>1, <1>u DEF PartLockedBy, local
    <3>2. CASE pc[h] # "idle"
      <4> PartOf(call[h].key) \in Parts BY <3>2, CallFields DEF LocalTypes
      <4> PartLockedBy(h) BY DEF PartLocked
      <4> QED BY <3>2, <1>u, <1>r, StoreAssumption DEF PartLockedBy, SharedTypes, local
    <3> QED BY <3>1, <3>2
  <2>2. ASSUME NEW t \in Scanner, spc'[t] = "copy"
        PROVE  t \in pmu'[scan'[t].next].readers
    <3>1. CASE t = s BY <2>2, <3>1, <1>u, <1>p DEF SharedTypes, p
    <3>2. CASE t # s BY <2>2, <3>2, <1>u, <1>p, <1>r DEF SharedTypes, PartLocked, ScanTypes
    <3> QED BY <3>1, <3>2
  <2> QED BY <2>1, <2>2 DEF PartLocked
<1> QED BY <1>u, <1>1, <1>2, <1>3, ScanFrame

\* Copying out keys, counting them and going to the next partition keep a scan's type.
LEMMA ScanUpdates ==
    ASSUME NEW sc \in ScanStates
    PROVE  /\ \A K \in SUBSET Key : /\ [sc EXCEPT !.keys = K] \in ScanStates
                                   /\ [sc EXCEPT !.keys = K].next = sc.next
           /\ \A n \in Nat : /\ [sc EXCEPT !.total = @ + n] \in ScanStates
                             /\ [sc EXCEPT !.total = @ + n].next = sc.next
           /\ [sc EXCEPT !.next = @ + 1] \in ScanStates
           /\ [sc EXCEPT !.next = @ + 1].next = sc.next + 1
  BY DEF ScanStates

\* Yielding a key keeps a scan's type.
LEMMA ScanYields ==
    ASSUME NEW sc \in ScanStates, NEW k \in Key
    PROVE  /\ [sc EXCEPT !.out = Append(@, k), !.keys = @ \ {k}] \in ScanStates
           /\ [sc EXCEPT !.out = Append(@, k), !.keys = @ \ {k}].next = sc.next
<1>1. sc.out \in Seq(Key) /\ sc.keys \in SUBSET Key
  BY DEF ScanStates
<1>2. Append(sc.out, k) \in Seq(Key)
  BY <1>1
<1> QED BY <1>1, <1>2 DEF ScanStates

\* Going to the next partition, or ending, leaves a scan with a partition of the store
\* or outside its loop, and touches no other scan.
LEMMA AdvanceTypes ==
    ASSUME IInv, NEW s \in Scanner, NEW sc \in ScanStates, sc.next \in Parts,
           Advance(s, sc)
    PROVE  /\ ScanTypes'
           /\ \A t \in Scanner : t # s => spc'[t] = spc[t] /\ scan'[t] = scan[t]
           /\ spc'[s] # "copy"
<1> DEFINE new == [sc EXCEPT !.next = @ + 1]
<1>1. new \in ScanStates /\ new.next = sc.next + 1
  BY ScanUpdates
<1>2. /\ scan' = [scan EXCEPT ![s] = new]
      /\ \/ spc' = [spc EXCEPT ![s] = "idle"]
         \/ spc' = [spc EXCEPT ![s] = "rlock"] /\ sc.next + 1 # PartitionCount
  BY DEF Advance, SGoto
<1> HIDE DEF new
<1> QED BY <1>1, <1>2, PartsFacts DEF IInv, TypeOK, ScanTypes, SLabels

\* Copying out or counting the keys of a partition keeps the invariant.
LEMMA ScanCopyPreserves == ASSUME IInv, NEW s \in Scanner, ScanCopy(s) PROVE IInv'
<1> DEFINE p == scan[s].next
           here == KeysIn(p)
<1> USE DEF IInv, TypeOK
<1>u. /\ spc[s] = "copy" /\ p \in Parts /\ s \in Threads /\ scan[s] \in ScanStates
      /\ UNCHANGED <<m, ent, emu, local>>
      /\ pmu' = [pmu EXCEPT ![p] = RUnlock(pmu[p], s)]
  BY DEF ScanCopy, ScanTypes, Threads
<1>h. here \in SUBSET Key /\ Cardinality(here) \in Nat
  <2>1. here \subseteq Key BY DEF Present, KeysIn
  <2>2. IsFiniteSet(here) BY <2>1, StoreAssumption, FS_Subset
  <2> QED BY <2>1, <2>2, FS_CardinalityType
<1>1. SharedTypes'
  BY <1>u, MutexTypes DEF SharedTypes
<1>2. /\ ScanTypes'
      /\ \A t \in Scanner : t # s => spc'[t] = spc[t] /\ scan'[t] = scan[t]
      /\ spc'[s] # "copy"
  <2>1. CASE scan[s].kind = "keys"
    <3> DEFINE new == [scan[s] EXCEPT !.keys = here]
    <3>1. scan' = [scan EXCEPT ![s] = new] /\ spc' = [spc EXCEPT ![s] = "yield"]
      BY <2>1 DEF ScanCopy, SGoto
    <3>2. new \in ScanStates /\ new.next = p
      BY <1>h, <1>u, ScanUpdates DEF ScanStates
    <3> HIDE DEF new
    <3> QED BY <3>1, <3>2, <1>u DEF ScanTypes, SLabels
  <2>2. CASE scan[s].kind # "keys"
    <3> DEFINE new == [scan[s] EXCEPT !.total = @ + Cardinality(here)]
    <3>1. Advance(s, new)
      BY <2>2 DEF ScanCopy
    <3>2. new \in ScanStates /\ new.next = p
      BY <1>h, <1>u, ScanUpdates DEF ScanStates
    <3> HIDE DEF new
    <3> QED BY <3>1, <3>2, <1>u, AdvanceTypes
  <2> QED BY <2>1, <2>2
<1>3. PartLocked'
  <2>1. ASSUME NEW h \in Proc PROVE PartLockedBy(h)'
    <3>1. CASE pc[h] = "idle"
      BY <3>1, <1>u DEF PartLockedBy, local
    <3>2. CASE pc[h] # "idle"
      <4> PartOf(call[h].key) \in Parts BY <3>2, CallFields DEF LocalTypes
      <4> PartLockedBy(h) BY DEF PartLocked
      <4> h # s BY StoreAssumption
      <4> QED BY <3>2, <1>u DEF PartLockedBy, SharedTypes, local, RUnlock
    <3> QED BY <3>1, <3>2
  <2>2. ASSUME NEW t \in Scanner, spc'[t] = "copy"
        PROVE  t \in pmu'[scan'[t].next].readers
    BY <2>2, <1>2, <1>u DEF PartLocked, SharedTypes, RUnlock
  <2> QED BY <2>1, <2>2 DEF PartLocked
<1> QED BY <1>u, <1>1, <1>2, <1>3, ScanFrame

\* Yielding a key keeps the invariant.
LEMMA YieldPreserves == ASSUME IInv, NEW s \in Scanner, Yield(s) PROVE IInv'
<1> USE DEF IInv, TypeOK
<1>0. PICK k \in scan[s].keys :
        scan' = [scan EXCEPT ![s].out = Append(@, k), ![s].keys = @ \ {k}]
  BY DEF Yield
<1> DEFINE new == [scan[s] EXCEPT !.out = Append(@, k), !.keys = @ \ {k}]
<1>u. /\ spc[s] = "yield" /\ scan[s].next \in Parts /\ scan[s] \in ScanStates
      /\ UNCHANGED <<m, ent, pmu, emu, local>>
      /\ spc' = [spc EXCEPT ![s] = "yield"] \/ spc' = [spc EXCEPT ![s] = "idle"]
  BY DEF Yield, SGoto, shared, ScanTypes
<1>n. scan' = [scan EXCEPT ![s] = new] /\ new \in ScanStates /\ new.next = scan[s].next
  BY <1>0, <1>u, ScanYields DEF ScanTypes, ScanStates
<1> HIDE DEF new
<1>2. ScanTypes'
  BY <1>n, <1>u DEF ScanTypes, SLabels
<1>3. PartLocked'
  BY <1>n, <1>u DEF PartLocked, PartLockedBy, ScanTypes, local
<1> QED BY <1>u, <1>2, <1>3, ScanFrame DEF SharedTypes

\* Going on after the keys of a partition keeps the invariant.
LEMMA NextPartitionPreserves == ASSUME IInv, NEW s \in Scanner, NextPartition(s) PROVE IInv'
<1> USE DEF IInv, TypeOK
<1>u. /\ scan[s].next \in Parts /\ scan[s] \in ScanStates /\ Advance(s, scan[s])
      /\ UNCHANGED <<m, ent, pmu, emu, local>>
  BY DEF NextPartition, shared, ScanTypes
<1>2. /\ ScanTypes'
      /\ \A t \in Scanner : t # s => spc'[t] = spc[t] /\ scan'[t] = scan[t]
      /\ spc'[s] # "copy"
  BY <1>u, AdvanceTypes
<1>3. PartLocked'
  BY <1>2, <1>u DEF PartLocked, PartLockedBy, local
<1> QED BY <1>u, <1>2, <1>3, ScanFrame DEF SharedTypes

\* A new store satisfies the invariant.
LEMMA InitIInv == Init => IInv
<1> SUFFICES ASSUME Init PROVE IInv
  OBVIOUS
<1> USE DEF Init
<1>1. SharedTypes
  BY MutexTypes DEF SharedTypes
<1>2. LocalTypes
  BY ResultTypes DEF LocalTypes, Labels
<1>3. ScanTypes
  BY NewScanType DEF ScanTypes, SLabels, Scans
<1>4. PartLocked
  BY DEF PartLocked, PartLockedBy
<1>5. EntryLocked
  BY DEF EntryLocked, EntryLockedBy
<1>6. PointerSet
  BY DEF PointerSet, EntryLabels
<1>7. OneEntryPerKey
  BY DEF OneEntryPerKey
<1>8. Published
  BY DEF Published
<1> QED BY <1>1, <1>2, <1>3, <1>4, <1>5, <1>6, <1>7, <1>8 DEF IInv, TypeOK

\* Every step keeps the invariant.
LEMMA NextIInv == IInv /\ [Next]_vars => IInv'
<1> SUFFICES ASSUME IInv, [Next]_vars PROVE IInv'
  OBVIOUS
<1>1. CASE UNCHANGED vars
  <2>1. LocalTypes' /\ EntryLocked' /\ PointerSet' /\ OneEntryPerKey' /\ Published'
    BY <1>1, ScanFrame DEF vars, local
  <2>2. SharedTypes' /\ ScanTypes' /\ PartLocked'
    BY <1>1 DEF vars, IInv, TypeOK, SharedTypes, ScanTypes, PartLocked, PartLockedBy
  <2> QED BY <2>1, <2>2 DEF IInv, TypeOK
<1>2. ASSUME NEW g \in Proc, Invoke(g) \/ Step(g) PROVE IInv'
  BY <1>2, InvokePreserves, CheckGuardsPreserves, PartRLockPreserves, LookupPreserves,
     EntryRLockPreserves, CopyPreserves, EntryLockPreserves, GuardPreserves,
     BumpPreserves, PartLockPreserves, InsertPreserves, SnapPreserves DEF Step
<1>3. ASSUME NEW s \in Scanner, BeginScan(s) \/ ScanStep(s) PROVE IInv'
  BY <1>3, BeginScanPreserves, ScanRLockPreserves, ScanCopyPreserves, YieldPreserves,
     NextPartitionPreserves DEF ScanStep
<1> QED BY <1>1, <1>2, <1>3 DEF Next

\* The locking discipline of the store holds in every reachable state, for any number
\* of goroutines, keys, entries and partitions and any calls.
THEOREM Invariance == Spec => []IInv
  BY InitIInv, NextIInv, PTL DEF Spec

\* Every variable of the store keeps its type; in particular a goroutine inside an
\* operation has a call, and a scan inside its loop a partition.
THEOREM TypeCorrect == Spec => []TypeOK
<1>1. IInv => TypeOK BY DEF IInv
<1> QED BY <1>1, Invariance, PTL

\* The pointer a Get or Write carries across the gap between the partition's lock and
\* the entry's is still the only entry of its key, so no two goroutines ever work on
\* two entries of one key.
THEOREM UniqueEntries == Spec => []OneEntryPerKey
<1>1. IInv => OneEntryPerKey BY DEF IInv
<1> QED BY <1>1, Invariance, PTL

\* No access to a partition's map or to an entry's fields races with a write, the
\* unlocked snapshot of a new entry included.
THEOREM RaceFree == Spec => []NoDataRace
<1>1. IInv => NoDataRace
  <2> SUFFICES ASSUME IInv PROVE NoDataRace
    OBVIOUS
  <2> USE DEF IInv
  <2>1. ASSUME NEW p \in Parts, NEW w \in MapWriters(p)
        PROVE  MapWriters(p) \cup MapReaders(p) = {w}
    <3>1. w \in Proc /\ pmu[p].writer = w /\ pmu[p].readers = {}
      BY DEF MapWriters, PartLocked, PartLockedBy
    <3>2. \A h \in MapWriters(p) : pmu[p].writer = h
      BY DEF MapWriters, PartLocked, PartLockedBy
    <3>3. \A h \in MapReaders(p) : h \in pmu[p].readers
      BY DEF MapReaders, PartLocked, PartLockedBy
    <3> QED BY <3>1, <3>2, <3>3
  <2>2. ASSUME NEW r \in Ref, NEW w \in EntryWriters(r)
        PROVE  EntryWriters(r) \cup EntryReaders(r) = {w}
    <3>1. w \in Proc /\ e[w] = r /\ emu[r].writer = w /\ emu[r].readers = {}
      BY DEF EntryWriters, EntryLocked, EntryLockedBy
    <3>2. \A h \in EntryWriters(r) : emu[r].writer = h
      BY DEF EntryWriters, EntryLocked, EntryLockedBy
    <3>3. ASSUME NEW h \in EntryReaders(r) PROVE FALSE
      <4>1. CASE pc[h] = "copy"
        BY <4>1, <3>1 DEF EntryReaders, EntryLocked, EntryLockedBy
      <4>2. CASE pc[h] = "snap"
        \* only the creator has the new entry, and it is not writing it
        <5>1. w # h
          BY <4>2 DEF EntryWriters
        <5> QED BY <4>2, <5>1, <3>1 DEF EntryReaders, EntryLocked, EntryLockedBy
      <4> QED BY <4>1, <4>2 DEF EntryReaders
    <3> QED BY <3>1, <3>2, <3>3
  <2> QED BY <2>1, <2>2 DEF NoDataRace
<1> QED BY <1>1, Invariance, PTL
=============================================================================
