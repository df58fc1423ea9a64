-------------------------- MODULE DeploymentProofs --------------------------
(***************************************************************************)
(* Routing: RangeFor divides the partitions among the nodes, for every     *)
(* number of nodes and of partitions, and NewTable is that division.  The  *)
(* proofs use of the partition count only that it is positive.             *)
(*                                                                         *)
(* Deployment: theorems for clusters of every size, every partition count  *)
(* and every environment an operator can write.  All rest on the invariant *)
(* Configured (what runs passed its binary's checks) and on the facts      *)
(* about RangeFor.                                                         *)
(***************************************************************************)
EXTENDS Deployment, FiniteSetTheorems, TLAPS

-----------------------------------------------------------------------------
(* Routing.                                                                *)

\* Division with remainder: what LoOf and SizeOf are computed from.
LEMMA Division ==
    ASSUME NEW n \in Nat, NEW N \in Nat, N > 0
    PROVE  /\ n \div N \in Nat /\ n % N \in Nat
           /\ n % N < N
           /\ n = (n \div N) * N + (n % N)
<1>1. n % N \in Nat /\ n % N < N
  OBVIOUS
<1>2. n \div N \in Nat
  OBVIOUS
<1>3. n = (n \div N) * N + (n % N)
  OBVIOUS
<1> QED BY <1>1, <1>2, <1>3

\* The ranges lie end to end: each node's ends where the next one's begins.
LEMMA EndToEnd ==
    ASSUME NEW n \in Nat, NEW N \in Nat, N > 0, NEW i \in Nat
    PROVE  /\ LoOf(i, N, n) \in Nat
           /\ LoOf(i, N, n) + SizeOf(i, N, n) = LoOf(i + 1, N, n)
<1> DEFINE b == n \div N
           x == n % N
<1>1. b \in Nat /\ x \in Nat
  BY Division
<1> HIDE DEF b, x
<1>2. (i + 1) * b = i * b + b /\ i * b \in Nat
  BY <1>1
<1>3. CASE i < x
  BY <1>1, <1>2, <1>3 DEF LoOf, SizeOf, MinOf, b, x
<1>4. CASE ~(i < x)
  BY <1>1, <1>2, <1>4 DEF LoOf, SizeOf, MinOf, b, x
<1> QED BY <1>3, <1>4

\* A node further on begins no earlier.
LEMMA LoMonotone ==
    ASSUME NEW n \in Nat, NEW N \in Nat, N > 0, NEW i \in Nat, NEW j \in Nat, i <= j
    PROVE  LoOf(i, N, n) <= LoOf(j, N, n)
<1> DEFINE b == n \div N
           x == n % N
<1>1. b \in Nat /\ x \in Nat
  BY Division
<1> HIDE DEF b, x
<1>2. i * b <= j * b /\ i * b \in Nat /\ j * b \in Nat
  BY <1>1
<1> QED BY <1>1, <1>2 DEF LoOf, MinOf, b, x

\* The ranges start at the first partition and end after the last.
LEMMA Ends ==
    ASSUME NEW n \in Nat, NEW N \in Nat, N > 0
    PROVE  LoOf(0, N, n) = 0 /\ LoOf(N, N, n) = n
<1> DEFINE b == n \div N
           x == n % N
<1>1. b \in Nat /\ x \in Nat /\ x < N /\ n = b * N + x
  BY Division
<1> HIDE DEF b, x
<1>2. 0 * b = 0 /\ N * b = b * N
  BY <1>1
<1> QED BY <1>1, <1>2 DEF LoOf, MinOf, b, x

\* No partition has two owners: two different slots have disjoint ranges.
THEOREM RangesDisjoint ==
    ASSUME NEW n \in Nat, NEW N \in Nat, N > 0, NEW i \in Nat, NEW j \in Nat, NEW p \in Nat,
           Contains(RangeFor(i, N, n), p), Contains(RangeFor(j, N, n), p)
    PROVE  i = j
<1>1. ASSUME NEW k \in Nat, NEW l \in Nat, k < l,
             Contains(RangeFor(k, N, n), p), Contains(RangeFor(l, N, n), p)
      PROVE  FALSE
  <2>1. p < LoOf(k + 1, N, n) /\ p >= LoOf(l, N, n)
    BY <1>1, EndToEnd DEF Contains, RangeFor, Range_
  <2>2. LoOf(k + 1, N, n) <= LoOf(l, N, n) /\ LoOf(k + 1, N, n) \in Nat /\ LoOf(l, N, n) \in Nat
    BY <1>1, LoMonotone, EndToEnd
  <2> QED BY <2>1, <2>2
<1> QED BY <1>1

\* Every partition has an owner: one of the N slots has it in its range.
THEOREM RangesCover ==
    ASSUME NEW n \in Nat, NEW N \in Nat, N > 0, NEW p \in Partitions(n)
    PROVE  \E i \in 0..(N - 1) : Contains(RangeFor(i, N, n), p)
<1> DEFINE b == n \div N
           x == n % N
<1>0. b \in Nat /\ x \in Nat /\ x < N /\ n = b * N + x
      /\ p \in Nat /\ p < n
  BY Division DEF Partitions
<1> HIDE DEF b, x
<1>1. CASE p < x * (b + 1)
  \* p lies in one of the x ranges of b + 1 partitions
  <2> DEFINE i == p \div (b + 1)
  <2>1. i \in Nat /\ i * (b + 1) <= p /\ p < i * (b + 1) + (b + 1)
    BY <1>0, Division
  <2> HIDE DEF i
  <2>2. i < x
    <3>1. ASSUME x <= i PROVE FALSE
      <4>1. x * (b + 1) <= i * (b + 1)
        BY <3>1, <1>0, <2>1
      <4> QED BY <4>1, <1>1, <2>1, <1>0
    <3> QED BY <3>1, <2>1, <1>0
  <2>3. LoOf(i, N, n) = i * b + i /\ SizeOf(i, N, n) = b + 1
    BY <2>1, <2>2, <1>0 DEF LoOf, SizeOf, MinOf, b, x
  <2>4. i * (b + 1) = i * b + i
    BY <2>1, <1>0
  <2>5. i * b \in Nat
    BY <2>1, <1>0
  <2>6. Contains(RangeFor(i, N, n), p)
    BY <2>1, <2>3, <2>4, <2>5, <1>0 DEF Contains, RangeFor, Range_
  <2> QED BY <2>1, <2>2, <2>6, <1>0
<1>2. CASE p >= x * (b + 1)
  \* p lies in one of the N - x ranges of b partitions that follow
  <2> DEFINE q == p - x * (b + 1)
             d == q \div b
             i == x + d
  <2>1. q \in Nat /\ x * (b + 1) = x * b + x /\ x * b \in Nat
    BY <1>0, <1>2
  <2>2. (N - x) * b = b * N - x * b
    BY <1>0
  <2>3. q < (N - x) * b
    BY <1>0, <2>1, <2>2
  <2>4. b > 0
    BY <2>3, <2>1, <1>0
  <2>5. d \in Nat /\ d * b <= q /\ q < d * b + b
    BY <2>1, <2>4, <1>0, Division
  <2> HIDE DEF d
  <2>6. d < N - x
    <3>1. ASSUME N - x <= d PROVE FALSE
      <4>1. (N - x) * b <= d * b
        BY <3>1, <1>0, <2>5
      <4> HIDE DEF q
      <4> QED BY <4>1, <2>3, <2>5, <2>1, <1>0
    <3> QED BY <3>1, <2>5, <1>0
  <2>7. i \in Nat /\ ~(i < x) /\ i < N
    BY <2>5, <2>6, <1>0
  <2>8. i * b = x * b + d * b /\ d * b \in Nat
    BY <2>5, <1>0
  <2>9. LoOf(i, N, n) = x * b + d * b + x /\ SizeOf(i, N, n) = b
    BY <2>7, <2>8, <1>0 DEF LoOf, SizeOf, MinOf, b, x
  <2>10. Contains(RangeFor(i, N, n), p)
    BY <2>9, <2>5, <2>1, <2>8, <1>0 DEF Contains, RangeFor, Range_
  <2> QED BY <2>7, <2>10, <1>0
<1> QED BY <1>0, <1>1, <1>2

\* No node owns more than one partition more than another.
THEOREM RangesBalanced ==
    ASSUME NEW n \in Nat, NEW N \in Nat, N > 0, NEW i \in Nat, NEW j \in Nat
    PROVE  Count(RangeFor(i, N, n)) <= Count(RangeFor(j, N, n)) + 1
<1> DEFINE b == n \div N
           x == n % N
<1>1. b \in Nat /\ x \in Nat
  BY Division
<1>2. LoOf(i, N, n) \in Nat /\ LoOf(j, N, n) \in Nat
  BY EndToEnd
<1> HIDE DEF b, x
<1>3. SizeOf(i, N, n) \in {b, b + 1} /\ SizeOf(j, N, n) \in {b, b + 1}
  BY <1>1 DEF SizeOf, b, x
<1>4. /\ Count(RangeFor(i, N, n)) = SizeOf(i, N, n)
      /\ Count(RangeFor(j, N, n)) = SizeOf(j, N, n)
  BY <1>1, <1>2, <1>3 DEF Count, RangeFor, Range_
<1> QED BY <1>1, <1>3, <1>4

-----------------------------------------------------------------------------
(* Deployment.                                                             *)

\* A process that runs has passed the checks at its start.
LEMMA ConfiguredInvariant == Spec => []Configured
<1>1. Init => Configured
  BY DEF Init, Configured
<1>2. Configured /\ [Next]_vars => Configured'
  <2> SUFFICES ASSUME Configured, [Next]_vars PROVE Configured'
    OBVIOUS
  <2> USE DEF Configured
  <2>1. ASSUME NEW n \in NodeID, StartNode(n) PROVE Configured'
    BY <2>1 DEF StartNode
  <2>2. ASSUME NEW n \in NodeID, StopNode(n) PROVE Configured'
    BY <2>2 DEF StopNode
  <2>3. ASSUME NEW q \in ProxyID, StartProxy(q) PROVE Configured'
    BY <2>3 DEF StartProxy
  <2>4. ASSUME NEW q \in ProxyID, StopProxy(q) PROVE Configured'
    BY <2>4 DEF StopProxy
  <2>5. CASE UNCHANGED vars
    BY <2>5 DEF vars
  <2> QED BY <2>1, <2>2, <2>3, <2>4, <2>5 DEF Next
<1> QED BY <1>1, <1>2, PTL DEF Spec

\* The partition count a binary accepts is a positive number.
LEMMA AcceptedCount ==
    ASSUME NEW env, env.partitionCount \in IntVars, PartitionCountOk(env.partitionCount)
    PROVE  PartitionCountOf(env) \in Nat /\ PartitionCountOf(env) > 0
  BY ConfigAssumption
  DEF IntVars, PartitionCountOk, PartitionCountOf, EnvIntOk, EnvInt, ValidPartitionCount

\* A node that runs in a slot owns RangeFor of its slot, and the slot exists.
LEMMA SlotOwned ==
    ASSUME Configured, NEW n \in NodeID, NodeUp(n), node[n].env.owned = Unset
    PROVE  LET index == EnvInt(node[n].env.index, 0)
               count == EnvInt(node[n].env.count, 1)
           IN  /\ index \in Nat /\ count \in Nat /\ index < count
               /\ node[n].partitionCount \in Nat /\ node[n].partitionCount > 0
               /\ node[n].owned = RangeFor(index, count, node[n].partitionCount)
<1>1. PICK env \in NodeEnvs : LoadNodeOk(env) /\ node[n] = LoadNode(env)
  BY DEF Configured, NodeUp
<1>2. /\ node[n].env = env /\ node[n].partitionCount = PartitionCountOf(env)
      /\ env.owned = Unset
      /\ node[n].owned = OwnedBySlot(env)
  BY <1>1 DEF LoadNode
<1>3. SlotOk(env) /\ PartitionCountOk(env.partitionCount)
  BY <1>1, <1>2 DEF LoadNodeOk
<1>4. env.index \in IntVars /\ env.count \in IntVars /\ env.partitionCount \in IntVars
  BY DeploymentAssumption DEF NodeEnvironments
<1>5. EnvInt(env.index, 0) \in Int /\ EnvInt(env.count, 1) \in Int
  BY <1>3, <1>4 DEF SlotOk, EnvIntOk, EnvInt, IntVars
<1>6. /\ EnvInt(env.count, 1) > 0
      /\ EnvInt(env.index, 0) >= 0 /\ EnvInt(env.index, 0) < EnvInt(env.count, 1)
  BY <1>3 DEF SlotOk, RangeForOk
<1>7. PartitionCountOf(env) \in Nat /\ PartitionCountOf(env) > 0
  BY <1>3, <1>4, AcceptedCount
<1>8. OwnedBySlot(env)
        = RangeFor(EnvInt(env.index, 0), EnvInt(env.count, 1), PartitionCountOf(env))
  BY DEF OwnedBySlot
<1> QED BY <1>2, <1>5, <1>6, <1>7, <1>8

\* A proxy that runs has a list of different nodes and a table made from it.
LEMMA ProxyTable ==
    ASSUME Configured, NEW q \in ProxyID, ProxyUp(q)
    PROVE  LET ids == proxy[q].nodeIDs
               n == proxy[q].partitionCount
           IN  /\ ids \in Seq(NodeID \cup {Bad}) /\ Len(ids) > 0
               /\ \A i, j \in DOMAIN ids : ids[i] = ids[j] => i = j
               /\ n \in Nat /\ n > 0
               /\ proxy[q].table = NewTable(ids, n)
<1>1. PICK env \in ProxyEnvs : StartProxyOk(env) /\ proxy[q] = LoadProxy(env)
  BY DEF Configured, ProxyUp
<1>2. /\ proxy[q].nodeIDs = env.nodes /\ proxy[q].partitionCount = PartitionCountOf(env)
      /\ proxy[q].table = NewTable(env.nodes, PartitionCountOf(env))
  BY <1>1 DEF LoadProxy
<1>3. LoadProxyOk(env) /\ NewTableOk(env.nodes, PartitionCountOf(env))
  BY <1>1 DEF StartProxyOk
<1>4. env.nodes \in Seq(NodeID \cup {Bad}) \cup {Unset} /\ env.partitionCount \in IntVars
  BY DeploymentAssumption DEF ProxyEnvironments
<1>5. env.nodes \in Seq(NodeID \cup {Bad})
  BY <1>3, <1>4 DEF LoadProxyOk
<1>6. Len(env.nodes) > 0
  BY <1>3, <1>5 DEF NewTableOk
<1>7. \A i, j \in DOMAIN env.nodes : env.nodes[i] = env.nodes[j] => i = j
  BY <1>3 DEF LoadProxyOk
<1>8. PartitionCountOf(env) \in Nat /\ PartitionCountOf(env) > 0
  BY <1>3, <1>4, AcceptedCount DEF LoadProxyOk
<1> QED BY <1>2, <1>5, <1>6, <1>7, <1>8

\* The partition of a key is a partition.
LEMMA PartitionType ==
    ASSUME NEW h \in Nat, NEW n \in Nat, n > 0
    PROVE  Partition(h, n) \in Partitions(n) /\ Partition(h, n) \in Nat
  BY DEF Partition, Partitions

\* NewTable gives a partition to the one node whose range has it.
LEMMA TableOwner ==
    ASSUME NEW S, NEW ids \in Seq(S), Len(ids) > 0, NEW n \in Nat, n > 0,
           NEW p \in Partitions(n)
    PROVE  \E i \in DOMAIN ids : /\ NewTable(ids, n)[p] = ids[i]
                                 /\ Contains(RangeFor(i - 1, Len(ids), n), p)
<1> DEFINE N == Len(ids)
           Owns(i) == /\ Contains(RangeFor(i - 1, N, n), p)
                      /\ \A j \in DOMAIN ids : Contains(RangeFor(j - 1, N, n), p) => j <= i
<1>1. N \in Nat /\ DOMAIN ids = 1..N /\ p \in Nat
  BY DEF Partitions
<1> HIDE DEF N
<1>2. PICK k \in 0..(N - 1) : Contains(RangeFor(k, N, n), p)
  BY <1>1, RangesCover DEF N
<1>3. k + 1 \in DOMAIN ids /\ (k + 1) - 1 = k /\ k \in Nat
  BY <1>1, <1>2
<1>4. ASSUME NEW j \in DOMAIN ids, Contains(RangeFor(j - 1, N, n), p) PROVE j <= k + 1
  <2>1. j - 1 \in Nat
    BY <1>1
  <2>2. j - 1 = k
    BY <2>1, <1>1, <1>2, <1>3, <1>4, RangesDisjoint DEF N
  <2> QED BY <2>2, <1>1, <1>3
<1>5. Owns(k + 1)
  BY <1>2, <1>3, <1>4
<1>6. \E i \in DOMAIN ids : Owns(i)
  BY <1>3, <1>5
<1>7. OwnerIndex(ids, n, p) = CHOOSE i \in DOMAIN ids : Owns(i)
  BY DEF OwnerIndex, N
<1>8. OwnerIndex(ids, n, p) \in DOMAIN ids /\ Owns(OwnerIndex(ids, n, p))
  BY <1>6, <1>7
<1>9. NewTable(ids, n)[p] = ids[OwnerIndex(ids, n, p)]
  BY DEF NewTable
<1> QED BY <1>8, <1>9 DEF N

\* The proxy's table and the nodes' own ranges are one partitioning: if the nodes on
\* a proxy's list run in the slots the list gives them, every key is served, for
\* every number of nodes and partitions.
THEOREM AgreementServes == Spec => []AgreeingClusterServes
<1>1. Configured => AgreeingClusterServes
  <2> SUFFICES ASSUME Configured, NEW q \in ProxyID, ProxyUp(q),
                      \A i \in DOMAIN proxy[q].nodeIDs :
                         /\ proxy[q].nodeIDs[i] \in NodeID
                         /\ InSlot(proxy[q].nodeIDs[i], proxy[q].nodeIDs,
                                   proxy[q].partitionCount),
                      NEW h \in Hashes
               PROVE  Served(q, h)
    BY DEF AgreeingClusterServes
  <2> DEFINE ids == proxy[q].nodeIDs
             n == proxy[q].partitionCount
             p == Partition(h, n)
  <2>1. /\ ids \in Seq(NodeID \cup {Bad}) /\ Len(ids) > 0
        /\ \A i, j \in DOMAIN ids : ids[i] = ids[j] => i = j
        /\ n \in Nat /\ n > 0 /\ proxy[q].table = NewTable(ids, n)
    BY ProxyTable
  <2>2. p \in Partitions(n) /\ p \in Nat
    BY <2>1, DeploymentAssumption, PartitionType
  <2>3. PICK i \in DOMAIN ids : /\ NewTable(ids, n)[p] = ids[i]
                                /\ Contains(RangeFor(i - 1, Len(ids), n), p)
    BY <2>1, <2>2, TableOwner
  <2> DEFINE l == ids[i]
             index == EnvInt(node[l].env.index, 0)
  <2>4. Route(q, h) = l
    BY <2>1, <2>3 DEF Route, NodeFor
  <2>5. l \in NodeID /\ InSlot(l, ids, n)
    OBVIOUS
  <2>6. /\ NodeUp(l) /\ node[l].partitionCount = n /\ node[l].env.owned = Unset
        /\ EnvInt(node[l].env.count, 1) = Len(ids) /\ ids[index + 1] = l
    BY <2>5 DEF InSlot
  <2>7. /\ index \in Nat /\ index < Len(ids)
        /\ node[l].owned = RangeFor(index, Len(ids), n)
    BY <2>5, <2>6, SlotOwned
  <2>8. index = i - 1
    <3>1. DOMAIN ids = 1..Len(ids) /\ Len(ids) \in Nat
      BY <2>1
    <3> HIDE DEF index, ids
    <3>2. index + 1 \in DOMAIN ids
      BY <3>1, <2>7
    <3>3. index + 1 = i
      BY <3>2, <2>1, <2>6 DEF l
    <3> QED BY <3>1, <3>3, <2>7
  <2>9. CheckKey(l, h)
    BY <2>3, <2>6, <2>7, <2>8 DEF CheckKey
  <2> QED BY <2>4, <2>5, <2>6, <2>9 DEF Served, CheckPartitionCount
<1> QED BY <1>1, ConfiguredInvariant, PTL

\* As long as the running nodes have slots of one cluster, no key has two homes,
\* whatever the proxies were told: two proxies that get a key served have reached the
\* same node.
THEOREM NoSplitBrain == Spec => []OneHome
<1>1. Configured => OneHome
  <2> SUFFICES ASSUME Configured, NodesAgree, NEW q \in ProxyID, NEW r \in ProxyID,
                      NEW h \in Hashes, Served(q, h), Served(r, h)
               PROVE  Route(q, h) = Route(r, h)
    BY DEF OneHome
  <2> DEFINE a == Route(q, h)
             b == Route(r, h)
             count == EnvInt(node[a].env.count, 1)
             n == node[a].partitionCount
             p == Partition(h, n)
  <2>1. /\ a \in NodeID /\ NodeUp(a) /\ CheckKey(a, h)
        /\ b \in NodeID /\ NodeUp(b) /\ CheckKey(b, h)
    BY DEF Served
  <2> HIDE DEF a, b
  <2>2. /\ node[a].env.owned = Unset /\ node[b].env.owned = Unset
        /\ n = node[b].partitionCount
        /\ count = EnvInt(node[b].env.count, 1)
    BY <2>1 DEF NodesAgree
  <2>3. /\ count \in Nat /\ count > 0 /\ n \in Nat /\ n > 0
        /\ EnvInt(node[a].env.index, 0) \in Nat /\ EnvInt(node[b].env.index, 0) \in Nat
        /\ node[a].owned = RangeFor(EnvInt(node[a].env.index, 0), count, n)
        /\ node[b].owned = RangeFor(EnvInt(node[b].env.index, 0), count, n)
    BY <2>1, <2>2, SlotOwned
  <2>4. p \in Nat
    BY <2>3, DeploymentAssumption, PartitionType
  <2>5. Contains(node[a].owned, p) /\ Contains(node[b].owned, p)
    BY <2>1, <2>2 DEF CheckKey
  <2>6. EnvInt(node[a].env.index, 0) = EnvInt(node[b].env.index, 0)
    BY <2>3, <2>4, <2>5, RangesDisjoint
  <2>7. a = b
    BY <2>1, <2>6 DEF NodesAgree
  <2> QED BY <2>7 DEF a, b
<1> QED BY <1>1, ConfiguredInvariant, PTL

\* The partitions of a slot exist.
LEMMA RangeWithin ==
    ASSUME NEW n \in Nat, n > 0, NEW N \in Nat, NEW i \in Nat, i < N
    PROVE  /\ RangeFor(i, N, n).lo \in Nat /\ RangeFor(i, N, n).hi \in 0..n
           /\ RangeFor(i, N, n).lo <= RangeFor(i, N, n).hi
<1>0. i + 1 \in Nat /\ N > 0 /\ i <= i + 1 /\ i + 1 <= N
  OBVIOUS
<1>1. /\ LoOf(i, N, n) \in Nat /\ LoOf(i + 1, N, n) \in Nat /\ LoOf(N, N, n) = n
      /\ LoOf(i, N, n) + SizeOf(i, N, n) = LoOf(i + 1, N, n)
  BY <1>0, EndToEnd, Ends
<1>2. LoOf(i, N, n) <= LoOf(i + 1, N, n) /\ LoOf(i + 1, N, n) <= LoOf(N, N, n)
  BY <1>0, LoMonotone
<1>3. RangeFor(i, N, n).lo = LoOf(i, N, n) /\ RangeFor(i, N, n).hi = LoOf(i + 1, N, n)
  BY <1>1 DEF RangeFor, Range_
<1> QED BY <1>1, <1>2, <1>3

\* The checks at start-up suffice: a node that runs owns partitions that exist, and
\* a proxy that runs knows a node for every partition.
THEOREM StartedSound == Spec => []TypeOK
<1>1. Configured => TypeOK
  <2> SUFFICES ASSUME Configured PROVE TypeOK
    OBVIOUS
  <2>1. ASSUME NEW n \in NodeID, NodeUp(n)
        PROVE  /\ ValidPartitionCount(node[n].partitionCount)
               /\ node[n].owned.lo \in Nat
               /\ node[n].owned.hi \in 0..node[n].partitionCount
    <3>1. PICK env \in NodeEnvs : LoadNodeOk(env) /\ node[n] = LoadNode(env)
      BY <2>1 DEF Configured, NodeUp
    <3>2. /\ node[n].partitionCount = PartitionCountOf(env) /\ node[n].env = env
          /\ node[n].owned = IF env.owned # Unset THEN OwnedByOverride(env)
                             ELSE OwnedBySlot(env)
          /\ PartitionCountOk(env.partitionCount)
          /\ env \in NodeEnvironments
      BY <3>1, DeploymentAssumption DEF LoadNode, LoadNodeOk
    <3>3. ValidPartitionCount(node[n].partitionCount)
      BY <3>2 DEF PartitionCountOk, PartitionCountOf
    <3>4. CASE env.owned = Unset
      <4> DEFINE index == EnvInt(env.index, 0)
                 count == EnvInt(env.count, 1)
                 parts == PartitionCountOf(env)
      <4>1. /\ index \in Nat /\ count \in Nat /\ index < count
            /\ parts \in Nat /\ parts > 0
            /\ node[n].owned = RangeFor(index, count, parts)
        BY <2>1, <3>2, <3>4, SlotOwned
      <4> QED BY <4>1, <3>2, <3>3, RangeWithin
    <3>5. CASE env.owned # Unset
      <4>1. env.owned # Bad /\ OwnedByOverride(env).hi <= PartitionCountOf(env)
        BY <3>1, <3>5 DEF LoadNodeOk, OverrideOk
      <4>2. env.owned[1] \in Nat /\ env.owned[2] \in Nat
        BY <3>2, <3>5, <4>1 DEF NodeEnvironments
      <4>3. (env.owned[2] + 1) % Modulus \in Nat
        BY <4>2, ConfigAssumption
      <4>4. PartitionCountOf(env) \in Nat
        BY <3>2, AcceptedCount DEF NodeEnvironments
      <4> QED BY <3>2, <3>3, <3>5, <4>1, <4>2, <4>3, <4>4 DEF OwnedByOverride, ParseRange, Range_
    <3> QED BY <3>3, <3>4, <3>5
  <2>2. ASSUME NEW q \in ProxyID, ProxyUp(q), NEW p \in Partitions(proxy[q].partitionCount)
        PROVE  proxy[q].table[p] \in NodeID
    <3>1. PICK env \in ProxyEnvs : StartProxyOk(env) /\ proxy[q] = LoadProxy(env)
      BY <2>2 DEF Configured, ProxyUp
    <3>2. \A i \in DOMAIN proxy[q].nodeIDs : proxy[q].nodeIDs[i] # Bad
      BY <3>1 DEF LoadProxy, StartProxyOk, LoadProxyOk
    <3>3. /\ proxy[q].nodeIDs \in Seq(NodeID \cup {Bad}) /\ Len(proxy[q].nodeIDs) > 0
          /\ proxy[q].partitionCount \in Nat /\ proxy[q].partitionCount > 0
          /\ proxy[q].table = NewTable(proxy[q].nodeIDs, proxy[q].partitionCount)
      BY <2>2, ProxyTable
    <3>4. PICK i \in DOMAIN proxy[q].nodeIDs : proxy[q].table[p] = proxy[q].nodeIDs[i]
      BY <2>2, <3>3, TableOwner
    <3> QED BY <3>2, <3>3, <3>4
  <2> QED BY <2>1, <2>2 DEF TypeOK
<1> QED BY <1>1, ConfiguredInvariant, PTL

\* An override is taken literally unless its bound is the last uint64, for which
\* hi + 1 wraps to 0 (the finding about ParseRange is that one value).
THEOREM OverrideTakenLiterally ==
    ASSUME \A env \in NodeEnvs : env.owned \notin {Unset, Bad} => env.owned[2] + 1 < Modulus
    PROVE  Spec => []OverrideIsExact
<1>1. Configured => OverrideIsExact
  <2> SUFFICES ASSUME Configured, NEW n \in NodeID, NodeUp(n), node[n].env.owned # Unset
               PROVE  {p \in 0..(Modulus - 1) : Contains(node[n].owned, p)}
                        = node[n].env.owned[1]..node[n].env.owned[2]
    BY DEF OverrideIsExact
  <2>1. PICK env \in NodeEnvs : LoadNodeOk(env) /\ node[n] = LoadNode(env)
    BY DEF Configured, NodeUp
  <2>2. node[n].env = env /\ node[n].owned = OwnedByOverride(env) /\ env.owned # Bad
    BY <2>1 DEF LoadNode, LoadNodeOk, OverrideOk
  <2>3. PICK lo \in Nat, hi \in Nat : lo = env.owned[1] /\ hi = env.owned[2]
    BY <2>2, DeploymentAssumption DEF NodeEnvironments
  <2>4. hi + 1 < Modulus
    BY <2>2, <2>3
  <2>5. (hi + 1) % Modulus = hi + 1
    BY <2>3, <2>4, ConfigAssumption
  <2>6. node[n].owned = [lo |-> lo, hi |-> hi + 1]
    BY <2>2, <2>3, <2>5 DEF OwnedByOverride, ParseRange, Range_
  <2>7. \A p : p \in 0..(Modulus - 1) /\ Contains(node[n].owned, p) <=> p \in lo..hi
    BY <2>3, <2>4, <2>6, ConfigAssumption DEF Contains
  <2> QED BY <2>2, <2>3, <2>7
<1> QED BY <1>1, ConfiguredInvariant, PTL

\* What GET /routing tells is what the proxy does: the ranges computed anew are the
\* table, and their sizes are the numbers of partitions the nodes have in it.
THEOREM DumpToldRight == Spec => []DumpIsTrue
<1>1. Configured => DumpIsTrue
  <2> SUFFICES ASSUME Configured, NEW q \in ProxyID, ProxyUp(q)
               PROVE  LET dump == RoutingTable(q) n == proxy[q].partitionCount IN
                      /\ \A h \in Hashes, id \in DOMAIN dump :
                            Route(q, h) = id <=> Contains(dump[id].partitions, Partition(h, n))
                      /\ \A id \in DOMAIN dump :
                            dump[id].count
                              = Cardinality({p \in Partitions(n) : proxy[q].table[p] = id})
    BY DEF DumpIsTrue
  <2> DEFINE ids == proxy[q].nodeIDs
             n == proxy[q].partitionCount
             N == Len(ids)
             dump == RoutingTable(q)
  <2>1. /\ ids \in Seq(NodeID \cup {Bad}) /\ N > 0 /\ N \in Nat /\ DOMAIN ids = 1..N
        /\ \A i, j \in DOMAIN ids : ids[i] = ids[j] => i = j
        /\ n \in Nat /\ n > 0 /\ proxy[q].table = NewTable(ids, n)
    BY ProxyTable
  <2> HIDE DEF ids, n, N, dump
  <2>2. DOMAIN dump = {ids[i] : i \in DOMAIN ids}
    BY DEF RoutingTable, Ranges, ids, dump
  <2>3. ASSUME NEW i \in DOMAIN ids
        PROVE  /\ dump[ids[i]].partitions = RangeFor(i - 1, N, n)
               /\ dump[ids[i]].count = Count(RangeFor(i - 1, N, n))
    <3>1. (CHOOSE j \in DOMAIN ids : ids[j] = ids[i]) = i
      BY <2>1
    <3>2. ids[i] \in {ids[j] : j \in DOMAIN ids}
      OBVIOUS
    <3>3. Ranges(ids, n)[ids[i]] = RangeFor(i - 1, N, n)
      BY <3>1, <3>2 DEF Ranges, N
    <3>4. dump[ids[i]] = [partitions |-> Ranges(ids, n)[ids[i]],
                          count |-> Count(Ranges(ids, n)[ids[i]])]
      BY <3>2 DEF RoutingTable, Ranges, ids, n, dump
    <3> QED BY <3>3, <3>4
  <2>4. ASSUME NEW i \in DOMAIN ids, NEW p \in Partitions(n)
        PROVE  proxy[q].table[p] = ids[i] <=> Contains(RangeFor(i - 1, N, n), p)
    <3>1. PICK j \in DOMAIN ids : /\ proxy[q].table[p] = ids[j]
                                  /\ Contains(RangeFor(j - 1, N, n), p)
      BY <2>1, TableOwner DEF N
    <3>2. p \in Nat /\ i - 1 \in Nat /\ j - 1 \in Nat
      BY <2>1 DEF Partitions
    <3>3. Contains(RangeFor(i - 1, N, n), p) => i - 1 = j - 1
      BY <2>1, <3>1, <3>2, RangesDisjoint
    <3> QED BY <2>1, <3>1, <3>2, <3>3
  <2>5. ASSUME NEW h \in Hashes, NEW i \in DOMAIN ids
        PROVE  Route(q, h) = ids[i]
                 <=> Contains(dump[ids[i]].partitions, Partition(h, n))
    <3>1. Partition(h, n) \in Partitions(n)
      BY <2>1, DeploymentAssumption, PartitionType
    <3>2. Route(q, h) = proxy[q].table[Partition(h, n)]
      BY DEF Route, NodeFor, n
    <3> QED BY <2>3, <2>4, <3>1, <3>2
  <2>6. ASSUME NEW i \in DOMAIN ids
        PROVE  dump[ids[i]].count
                 = Cardinality({p \in Partitions(n) : proxy[q].table[p] = ids[i]})
    <3>1. PICK lo \in Nat, hi \in 0..n : RangeFor(i - 1, N, n) = [lo |-> lo, hi |-> hi] /\ lo <= hi
      <4>1. i - 1 \in Nat /\ i - 1 < N
        BY <2>1
      <4>2. /\ RangeFor(i - 1, N, n).lo \in Nat /\ RangeFor(i - 1, N, n).hi \in 0..n
            /\ RangeFor(i - 1, N, n).lo <= RangeFor(i - 1, N, n).hi
        BY <4>1, <2>1, RangeWithin
      <4> QED BY <4>2 DEF RangeFor, Range_
    <3>2. \A p : p \in Partitions(n) /\ Contains(RangeFor(i - 1, N, n), p)
                   <=> p \in lo..(hi - 1)
      BY <3>1, <2>1 DEF Contains, Partitions
    <3>3. {p \in Partitions(n) : proxy[q].table[p] = ids[i]} = lo..(hi - 1)
      BY <2>4, <3>2
    <3>4. Cardinality(lo..(hi - 1)) = hi - lo
      <4>1. lo \in Int /\ hi - 1 \in Int
        BY <3>1, <2>1
      <4>2. Cardinality(lo..(hi - 1)) = IF lo > hi - 1 THEN 0 ELSE (hi - 1) - lo + 1
        BY <4>1, FS_Interval
      <4> QED BY <4>2, <3>1, <2>1
    <3>5. dump[ids[i]].count = hi - lo
      BY <2>3, <3>1 DEF Count
    <3> QED BY <3>3, <3>4, <3>5
  <2>7. \A h \in Hashes, id \in DOMAIN dump :
           Route(q, h) = id <=> Contains(dump[id].partitions, Partition(h, n))
    BY <2>2, <2>5
  <2>8. \A id \in DOMAIN dump :
           dump[id].count = Cardinality({p \in Partitions(n) : proxy[q].table[p] = id})
    BY <2>2, <2>6
  <2> QED BY <2>7, <2>8 DEF n, dump
<1> QED BY <1>1, ConfiguredInvariant, PTL
=============================================================================
