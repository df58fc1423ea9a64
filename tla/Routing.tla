------------------------------ MODULE Routing ------------------------------
(***************************************************************************)
(* internal/routing: keys to partitions, partitions to nodes.  Pure        *)
(* functions shared by the proxy and the node.                             *)
(*                                                                         *)
(* A key enters as its FNV-1a hash; nothing below depends on which hash    *)
(* function it is, only on both binaries computing the same one.           *)
(*                                                                         *)
(* Counts and indices are Go ints; partitions and range bounds are uint64. *)
(* The sums in RangeFor stay below the partition count, so only            *)
(* ParseRange, which adds one to a number a person typed, can wrap.        *)
(***************************************************************************)
EXTENDS Integers, Sequences

\* n&(n-1) == 0 for a positive n: n is a power of two.
ValidPartitionCount(n) == n > 0 /\ \E k \in 0..n : n = 2^k

\* h & (n-1), which is h % n because n is a power of two.
Partition(h, n) == h % n

Partitions(n) == 0..(n - 1)

\* A half-open range of partitions.
Range_(lo, hi) == [lo |-> lo, hi |-> hi]
NoRange == Range_(0, 0)

Contains(r, p) == p >= r.lo /\ p < r.hi

Count(r) == r.hi - r.lo

\* The three early returns of RangeFor.
RangeForOk(index, nodeCount, n) ==
    /\ nodeCount > 0
    /\ index >= 0 /\ index < nodeCount
    /\ ValidPartitionCount(n)

MinOf(a, b) == IF a < b THEN a ELSE b

\* The first partition of the node at the index: `base` for each node before it,
\* and one more for each of those that took one of the `extra` partitions.
LoOf(index, nodeCount, n) ==
    index * (n \div nodeCount) + MinOf(index, n % nodeCount)

SizeOf(index, nodeCount, n) ==
    (n \div nodeCount) + (IF index < n % nodeCount THEN 1 ELSE 0)

RangeFor(index, nodeCount, n) ==
    Range_(LoOf(index, nodeCount, n),
           LoOf(index, nodeCount, n) + SizeOf(index, nodeCount, n))

\* The early returns of NewTable.
NewTableOk(nodeIDs, n) ==
    /\ Len(nodeIDs) # 0
    /\ ValidPartitionCount(n)
    /\ Len(nodeIDs) <= n

\* owner[p] after the loop of NewTable: nodes are visited in order and each one
\* writes its id over its range, so the last node whose range has p owns p.
\* nodeIDs[i] is the node with the zero-based index i - 1.
OwnerIndex(nodeIDs, n, p) ==
    CHOOSE i \in DOMAIN nodeIDs :
        /\ Contains(RangeFor(i - 1, Len(nodeIDs), n), p)
        /\ \A j \in DOMAIN nodeIDs :
              Contains(RangeFor(j - 1, Len(nodeIDs), n), p) => j <= i

NewTable(nodeIDs, n) ==
    [p \in Partitions(n) |-> nodeIDs[OwnerIndex(nodeIDs, n, p)]]

NodeFor(table, h, n) == table[Partition(h, n)]

\* Mutant: ranges as for a cluster with one node more.
RangesOfLarger(nodeIDs, n) ==
    [id \in {nodeIDs[i] : i \in DOMAIN nodeIDs} |->
        RangeFor((CHOOSE i \in DOMAIN nodeIDs : nodeIDs[i] = id) - 1, Len(nodeIDs) + 1, n)]

\* Table.Ranges: computed anew, not read off the table.  The ids are distinct.
Ranges(nodeIDs, n) ==
    [id \in {nodeIDs[i] : i \in DOMAIN nodeIDs} |->
        RangeFor((CHOOSE i \in DOMAIN nodeIDs : nodeIDs[i] = id) - 1, Len(nodeIDs), n)]

\* ParseRange on an inclusive "lo-hi"; hi + 1 is computed in a uint64, of which
\* `modulus` is the number of values.
ParseRangeOk(lo, hi) == hi >= lo

\* Mutant: the inclusive bound is taken for the end.
ParseRangeAsIs(lo, hi, modulus) == Range_(lo, hi)

ParseRange(lo, hi, modulus) == Range_(lo, (hi + 1) % modulus)
=============================================================================
