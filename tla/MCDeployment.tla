---------------------------- MODULE MCDeployment ----------------------------
(***************************************************************************)
(* Small clusters for TLC: three nodes, two proxies, up to eight           *)
(* partitions.                                                             *)
(***************************************************************************)
EXTENDS Deployment, Bitwise

CONSTANTS n1, n2, n3, q1, q2

\* Routing writes the mask h & (n-1) as a remainder and the test n & (n-1) = 0 as
\* a power of two; on small numbers they are the same.
ASSUME MaskIsRemainder ==
    \A n \in 1..30 : /\ ValidPartitionCount(n) <=> (n & (n - 1)) = 0
                    /\ ValidPartitionCount(n) =>
                          \A h \in 0..70 : Partition(h, n) = (h & (n - 1))

NodeEnv(count, index, nodeCount) ==
    [partitionCount |-> count, limits |-> Unset, owned |-> Unset,
     index |-> index, count |-> nodeCount]
Override(count, lo, hi) == [NodeEnv(count, 0, 1) EXCEPT !.owned = <<lo, hi>>]
ProxyEnv(count, ids) == [partitionCount |-> count, nodes |-> ids, timeout |-> Unset]

\* Slots of a cluster of three and of one, with a count that three does not
\* divide; a node that thinks of another partition count; overrides; mistakes.
MCNodeEnvs ==
    {NodeEnv(4, i, 3) : i \in 0..3} \cup {NodeEnv(8, 1, 3), NodeEnv(Unset, Unset, Unset)}
    \cup {Override(4, 0, 1), Override(4, 2, 3), Override(4, 3, 4), Override(4, 2, 1)}
    \cup {NodeEnv(6, 0, 3), NodeEnv(Bad, 0, 3), NodeEnv(4, Bad, 3),
          [NodeEnv(4, 0, 3) EXCEPT !.limits = Bad], [NodeEnv(4, 0, 3) EXCEPT !.owned = Bad]}

\* The right list, one in another order, one with another count, a shorter one;
\* and lists that are refused.
MCProxyEnvs ==
    {ProxyEnv(4, <<n1, n2, n3>>), ProxyEnv(4, <<n2, n1, n3>>), ProxyEnv(8, <<n1, n2, n3>>),
     ProxyEnv(4, <<n1>>), ProxyEnv(Unset, <<n1>>)}
    \cup {ProxyEnv(2, <<n1, n2, n3>>), ProxyEnv(4, <<n1, n1>>), ProxyEnv(4, <<n1, Bad>>),
          ProxyEnv(4, <<>>), ProxyEnv(4, Unset),
          [ProxyEnv(4, <<n1>>) EXCEPT !.timeout = Bad]}

\* A person can type any uint64.
AnyOverride == {Override(4, lo, hi) : lo \in {0, 2, 4}, hi \in 0..(Modulus - 1)}
=============================================================================
