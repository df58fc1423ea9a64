----------------------------- MODULE Deployment -----------------------------
(***************************************************************************)
(* A cluster as its operator runs it: nodes and proxies are started, each  *)
(* with an environment of its own, and stopped, in any order.  There is no *)
(* membership protocol; the processes agree on where a key lives only      *)
(* through routing.RangeFor, the partition count a proxy sends along, and  *)
(* a node's refusal of keys it does not own.                               *)
(***************************************************************************)
EXTENDS Config

CONSTANTS
    NodeID, ProxyID,
    NodeEnvs, ProxyEnvs,    \* the environments an operator may give
    Hashes,                 \* the hashes of the keys in use
    Down, Failed            \* not running; refused to start

VARIABLES
    node,   \* node[n]: the configuration node n runs with, or Down or Failed
    proxy   \* proxy[q]: the same of proxy q

vars == <<node, proxy>>

ASSUME DeploymentAssumption ==
    /\ NodeEnvs \subseteq NodeEnvironments
    /\ ProxyEnvs \subseteq ProxyEnvironments(NodeID)
    /\ Hashes \subseteq Nat

NodeUp(n)  == node[n] \notin {Down, Failed}
ProxyUp(q) == proxy[q] \notin {Down, Failed}

Init == /\ node  = [n \in NodeID |-> Down]
        /\ proxy = [q \in ProxyID |-> Down]

\* run() of cmd/node: load the configuration, or exit.
StartNode(n) ==
    /\ ~NodeUp(n)
    /\ \E env \in NodeEnvs :
          node' = [node EXCEPT ![n] = IF LoadNodeOk(env) THEN LoadNode(env) ELSE Failed]
    /\ UNCHANGED proxy

\* run() of cmd/proxy: load the configuration and build the table, or exit.
StartProxy(q) ==
    /\ ~ProxyUp(q)
    /\ \E env \in ProxyEnvs :
          proxy' = [proxy EXCEPT ![q] =
                       IF StartProxyOk(env) THEN LoadProxy(env) ELSE Failed]
    /\ UNCHANGED node

\* A signal, or a crash.
StopNode(n) ==
    /\ NodeUp(n)
    /\ node' = [node EXCEPT ![n] = Down]
    /\ UNCHANGED proxy

StopProxy(q) ==
    /\ ProxyUp(q)
    /\ proxy' = [proxy EXCEPT ![q] = Down]
    /\ UNCHANGED node

Next == \/ \E n \in NodeID : StartNode(n) \/ StopNode(n)
        \/ \E q \in ProxyID : StartProxy(q) \/ StopProxy(q)

Spec == Init /\ [][Next]_vars
-----------------------------------------------------------------------------
(* What becomes of a request for a key with hash h.                        *)

\* Where proxy q sends it (Handler.route).
Route(q, h) == NodeFor(proxy[q].table, h, proxy[q].partitionCount)

\* What GET /routing tells of proxy q: each node's partitions and how many.
RoutingTable(q) ==
    LET ranges == Ranges(proxy[q].nodeIDs, proxy[q].partitionCount) IN
    [id \in DOMAIN ranges |-> [partitions |-> ranges[id], count |-> Count(ranges[id])]]

\* checkPartitionCount of the node's handler; the proxy always sends its count.
CheckPartitionCount(n, q) == proxy[q].partitionCount = node[n].partitionCount

\* Mutant: a node takes whatever key it is sent.
AnyKey(n, h) == TRUE

\* checkKey of the node's service: is the key in a partition the node owns?
CheckKey(n, h) == Contains(node[n].owned, Partition(h, node[n].partitionCount))

\* The request is served, not refused with 421 or failed with 503.
Served(q, h) ==
    LET n == Route(q, h) IN
    /\ n \in NodeID /\ NodeUp(n)
    /\ CheckPartitionCount(n, q)
    /\ CheckKey(n, h)
-----------------------------------------------------------------------------
\* What runs was started from an environment that its binary accepted.
Configured ==
    /\ node \in [NodeID -> {LoadNode(env) : env \in {v \in NodeEnvs : LoadNodeOk(v)}}
                           \cup {Down, Failed}]
    /\ proxy \in [ProxyID -> {LoadProxy(env) : env \in {v \in ProxyEnvs : StartProxyOk(v)}}
                             \cup {Down, Failed}]

\* A running node owns partitions that exist, and a running proxy knows a node for
\* every partition: the checks at start-up let no other configuration through.
TypeOK ==
    /\ \A n \in NodeID : NodeUp(n) =>
          /\ ValidPartitionCount(node[n].partitionCount)
          /\ node[n].owned.lo \in Nat /\ node[n].owned.hi \in 0..node[n].partitionCount
    /\ \A q \in ProxyID : ProxyUp(q) =>
          \A p \in Partitions(proxy[q].partitionCount) : proxy[q].table[p] \in NodeID

\* Node n runs in the slot that the list of ids gives it.
InSlot(n, ids, count) ==
    /\ NodeUp(n)
    /\ node[n].partitionCount = count
    /\ node[n].env.owned = Unset
    /\ EnvInt(node[n].env.count, 1) = Len(ids)
    /\ ids[EnvInt(node[n].env.index, 0) + 1] = n

\* If the nodes of a proxy's list were started with matching NODE_INDEX,
\* NODE_COUNT and PARTITION_COUNT, every key is served: the table the proxy
\* builds and the ranges the nodes compute for themselves are one partitioning
\* (the comment on RangeFor: neither side can drift from the other).
AgreeingClusterServes ==
    \A q \in ProxyID :
        /\ ProxyUp(q)
        /\ \A i \in DOMAIN proxy[q].nodeIDs :
              /\ proxy[q].nodeIDs[i] \in NodeID
              /\ InSlot(proxy[q].nodeIDs[i], proxy[q].nodeIDs, proxy[q].partitionCount)
        => \A h \in Hashes : Served(q, h)

\* The running nodes have slots of one cluster, each a slot of its own.
NodesAgree ==
    \A n, l \in NodeID : NodeUp(n) /\ NodeUp(l) =>
        /\ node[n].env.owned = Unset
        /\ node[n].partitionCount = node[l].partitionCount
        /\ EnvInt(node[n].env.count, 1) = EnvInt(node[l].env.count, 1)
        /\ EnvInt(node[n].env.index, 0) = EnvInt(node[l].env.index, 0) => n = l

\* Whatever the proxies were told (another order, another count, another list),
\* two of them that get a key served reach the same node: a write never lands
\* where no read would look.  A misconfigured proxy is refused instead
\* (config.go, the comment on Owned).
OneHome ==
    NodesAgree =>
        \A q, r \in ProxyID, h \in Hashes :
            ProxyUp(q) /\ ProxyUp(r) /\ Served(q, h) /\ Served(r, h) =>
                Route(q, h) = Route(r, h)

\* GET /routing tells where the proxy sends keys, although it is computed beside
\* the table and not from it: a key goes to the node whose range has its
\* partition, and the counts add up ("instead of something to take on trust").
DumpIsTrue ==
    \A q \in ProxyID : ProxyUp(q) =>
        LET dump == RoutingTable(q) n == proxy[q].partitionCount IN
        /\ \A h \in Hashes, id \in DOMAIN dump :
              Route(q, h) = id <=> Contains(dump[id].partitions, Partition(h, n))
        /\ \A id \in DOMAIN dump :
              dump[id].count = Cardinality({p \in Partitions(n) : proxy[q].table[p] = id})

\* A node started with OWNED_PARTITIONS=lo-hi owns exactly those partitions
\* (ParseRange: "returns the equivalent half-open Range").
OverrideIsExact ==
    \A n \in NodeID : NodeUp(n) /\ node[n].env.owned # Unset =>
        {p \in 0..(Modulus - 1) : Contains(node[n].owned, p)}
            = node[n].env.owned[1]..node[n].env.owned[2]
=============================================================================
