----------------------------- MODULE MCSessions -----------------------------
(***************************************************************************)
(* Small clusters for TLC: two nodes that share four partitions, proxies   *)
(* that know them and proxies that were told something else.               *)
(***************************************************************************)
EXTENDS Sessions, TLC

CONSTANTS c1, c2, n1, n2, q1, q2, q3, k1, k2, long, a, b, ab, huge, junk

MCMerge(v, w) == IF v = w THEN v ELSE ab
MCHash == [k \in Key |-> IF k = k2 THEN 7 ELSE 5]       \* partitions 3 and 1 of 4

MCNodeConf == (n1 :> [partitionCount |-> 4, owned |-> RangeFor(0, 2, 4)])
              @@ (n2 :> [partitionCount |-> 4, owned |-> RangeFor(1, 2, 4)])
\* q2 has the list in another order, q3 another partition count.
Proxy(ids, count) == [partitionCount |-> count, table |-> NewTable(ids, count)]
MCProxyConf == (q1 :> Proxy(<<n1, n2>>, 4)) @@ (q2 :> Proxy(<<n2, n1>>, 4))
               @@ (q3 :> Proxy(<<n1, n2>>, 2))

Get(k)      == [method |-> "GET", key |-> k, body |-> a, ifVersion |-> <<>>, ifAbsent |-> <<>>]
Put(k, v)   == [Get(k) EXCEPT !.method = "PUT", !.body = v]
Patch(k, v) == [Put(k, v) EXCEPT !.method = "PATCH"]
AtVersion(r, s) == [r EXCEPT !.ifVersion = s]
IfNew(r, s)     == [r EXCEPT !.ifAbsent = s]

\* Every kind of request, the ones that are refused included.
AllRequests ==
    {Get(k1), Get(k2), Get(long), Put(long, a), Put(k1, a), Put(k2, b), Patch(k1, b),
     Put(k1, huge), Patch(k1, junk), [Get(k1) EXCEPT !.method = "DELETE"]}
    \cup {AtVersion(Put(k1, b), s) : s \in {<<0>>, <<1>>, <<2>>, <<Bad>>, <<1, 1>>, <<1, 2>>}}
    \cup {IfNew(Patch(k1, a), s) : s \in {<<TRUE>>, <<FALSE>>, <<Bad>>, <<FALSE, TRUE>>}}
    \cup {IfNew(AtVersion(Put(k1, a), <<1>>), <<TRUE>>)}
OneByOne ==
    [workload |-> [c \in Client |-> AllRequests], entrance |-> [c \in Client |-> {q1, n1, n2}],
     requests |-> (c1 :> 3) @@ (c2 :> 0), fails |-> FALSE, crashes |-> {}]

\* Two clients that write one key while everything fails, but the node stays.
Faults ==
    [workload |-> (c1 :> {Put(k1, a), AtVersion(Put(k1, b), <<1>>)})
                  @@ (c2 :> {Patch(k1, b), IfNew(Put(k1, a), <<TRUE>>)}),
     entrance |-> [c \in Client |-> {q1}],
     requests |-> [c \in Client |-> 2], fails |-> TRUE, crashes |-> {}]

\* The same with a node that comes and goes, and fewer requests.
Restarts ==
    [Faults EXCEPT !.workload = (c1 :> {Put(k1, a), Get(k1)})
                                @@ (c2 :> {Patch(k1, b), AtVersion(Put(k1, b), <<1>>)}),
                   !.requests = (c1 :> 2) @@ (c2 :> 1), !.crashes = {n1}]

\* Two keys on two nodes, one of which comes and goes, through three proxies.
Misrouted ==
    [workload |-> (c1 :> {Put(k1, a), Get(k2), AtVersion(Put(k2, b), <<1>>)})
                  @@ (c2 :> {Put(k2, b), Get(k1)}),
     entrance |-> [c \in Client |-> {q1, q2, q3}],
     requests |-> (c1 :> 2) @@ (c2 :> 1), fails |-> FALSE, crashes |-> {n2}]

MCPlans == {OneByOne, Faults, Restarts, Misrouted}
=============================================================================
