------------------------------ MODULE MCStore ------------------------------
(***************************************************************************)
(* Small instances of Store for TLC.  Values are JSON texts and the merge  *)
(* is the one of JsonMerge.                                                *)
(***************************************************************************)
EXTENDS Store, TLC

CONSTANTS k1, k2, k3, g1, g2, g3, s1, r1, r2, r3, r4, a, b, ab

J == INSTANCE JsonMerge

Text(v) == CASE v = a  -> J!Object(<<<<1, J!Other("1")>>>>)
             [] v = b  -> J!Object(<<<<2, J!Other("1")>>>>)
             [] v = ab -> J!Object(<<<<1, J!Other("1")>>, <<2, J!Other("1")>>>>)

\* {"a":1}, {"b":1} and what merging them gives.
MCValue == {a, b, ab}
MCMerge(v, w) == CHOOSE x \in MCValue : Text(x) = J!Apply(Text(v), Text(w))

Get(k) == [kind |-> "get", key |-> k, body |-> a, mode |-> "replace",
           ifVersion |-> Nil, ifAbsent |-> FALSE]
Put(k, v)   == [Get(k) EXCEPT !.kind = "write", !.body = v]
Patch(k, v) == [Put(k, v) EXCEPT !.mode = "merge"]
IfVersion(c, n) == [c EXCEPT !.ifVersion = n]
IfAbsent(c)     == [c EXCEPT !.ifAbsent = TRUE]

\* Two partitions; k1 and k3 share one.
TwoPartitions == [k \in Key |-> IF k = k2 THEN 3 ELSE 6]

\* Readers and writers of one key, three at a time, and between them everything a
\* caller can ask.
ContendedWorkload ==
    (g1 :> {Patch(k1, a), IfVersion(Put(k1, b), 1), IfVersion(Put(k1, a), 2),
            IfVersion(IfAbsent(Put(k1, a)), 1)})
    @@ (g2 :> {Patch(k1, b), IfAbsent(Put(k1, b)), IfVersion(Patch(k1, b), 1)})
    @@ (g3 :> {Get(k1), Put(k1, b), IfVersion(Put(k1, b), 0)})

\* Keys created under a running scan.
ScanWorkload == (g1 :> {Put(k1, a), Put(k2, a)}) @@ (g2 :> {Put(k2, a), Put(k3, a)})

\* Readers that overlap for ever, a writer among them, and a scan.
LiveWorkload == [g \in Proc |-> {Get(k1), Put(k1, a), IfVersion(Put(k1, b), 0),
                                 IfAbsent(Put(k1, a))}]

Symmetric == Permutations(Ref)
=============================================================================
