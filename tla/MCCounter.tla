----------------------------- MODULE MCCounter -----------------------------
(***************************************************************************)
(* Two clients and one counter, behind a proxy and directly.               *)
(***************************************************************************)
EXTENDS Counter, TLC

CONSTANTS c1, c2, n1, n2, q1, ctr

MCMerge(v, w) == w
MCHash == [k \in Key |-> 5]             \* partition 1 of 2
MCNodeConf == (n1 :> [partitionCount |-> 2, owned |-> RangeFor(0, 2, 2)])
              @@ (n2 :> [partitionCount |-> 2, owned |-> RangeFor(1, 2, 2)])
MCProxyConf == [q \in ProxyID |-> [partitionCount |-> 2, table |-> NewTable(<<n1, n2>>, 2)]]

\* The first client goes through the proxy, the second to the node itself.
Plan(increments, fails, crashes) ==
    [entrance |-> (c1 :> q1) @@ (c2 :> n2), increments |-> increments,
     fails |-> fails, crashes |-> crashes]

MCPlans ==
    {Plan((c1 :> 2) @@ (c2 :> 2), FALSE, {}), Plan((c1 :> 2) @@ (c2 :> 1), TRUE, {}),
     Plan((c1 :> 2) @@ (c2 :> 1), FALSE, {n2})}
=============================================================================
