------------------------------- MODULE Config -------------------------------
(***************************************************************************)
(* internal/config and the start of both binaries: from the environment of *)
(* a process to the configuration it runs with, or to its refusal to       *)
(* start.                                                                  *)
(*                                                                         *)
(* An environment is a record of the variables that matter to routing.  A  *)
(* variable is Unset, Bad (text that does not parse) or its value.         *)
(***************************************************************************)
EXTENDS Routing, FiniteSets

CONSTANTS
    Unset, Bad,             \* a variable that is empty; one that does not parse
    DefaultPartitionCount,
    Modulus                 \* the number of values of a uint64

ASSUME ConfigAssumption ==
    /\ Unset # Bad
    /\ ValidPartitionCount(DefaultPartitionCount) /\ DefaultPartitionCount \in Nat
    /\ Modulus \in Nat /\ Modulus > 0

\* What an operator can write: an integer variable, and each binary's environment.
IntVars == Int \cup {Unset, Bad}
NodeEnvironments ==
    [partitionCount : IntVars, limits : IntVars, index : IntVars, count : IntVars,
     owned : (Nat \X Nat) \cup {Unset, Bad}]
ProxyEnvironments(ids) ==
    [partitionCount : IntVars, nodes : Seq(ids \cup {Bad}) \cup {Unset},
     timeout : IntVars]

\* envInt
EnvIntOk(v) == v # Bad
EnvInt(v, fallback) == IF v = Unset THEN fallback ELSE v

\* The first checks of LoadNode and of LoadProxy.
PartitionCountOk(v) ==
    EnvIntOk(v) /\ ValidPartitionCount(EnvInt(v, DefaultPartitionCount))
PartitionCountOf(env) == EnvInt(env.partitionCount, DefaultPartitionCount)
-----------------------------------------------------------------------------
(* LoadNode.  limits stands for MAX_VALUE_BYTES and MAX_KEY_BYTES, owned   *)
(* for OWNED_PARTITIONS: a pair <<lo, hi>> of inclusive bounds.            *)

OwnedByOverride(env) == ParseRange(env.owned[1], env.owned[2], Modulus)

\* Mutant: the bound is not checked.
OverrideParses(env) == env.owned # Bad /\ ParseRangeOk(env.owned[1], env.owned[2])

\* The bound is checked on the half-open range ParseRange returned.
OverrideOk(env) ==
    /\ env.owned # Bad
    /\ ParseRangeOk(env.owned[1], env.owned[2])
    /\ OwnedByOverride(env).hi <= PartitionCountOf(env)

SlotOk(env) ==
    /\ EnvIntOk(env.index) /\ EnvIntOk(env.count)
    /\ RangeForOk(EnvInt(env.index, 0), EnvInt(env.count, 1), PartitionCountOf(env))

LoadNodeOk(env) ==
    /\ PartitionCountOk(env.partitionCount)
    /\ env.limits # Bad
    /\ IF env.owned # Unset THEN OverrideOk(env) ELSE SlotOk(env)

\* Mutant: the slot of a cluster with the default partition count.
OwnedByDefault(env) ==
    RangeFor(EnvInt(env.index, 0), EnvInt(env.count, 1), DefaultPartitionCount)

OwnedBySlot(env) ==
    RangeFor(EnvInt(env.index, 0), EnvInt(env.count, 1), PartitionCountOf(env))

LoadNode(env) ==
    [env |-> env, partitionCount |-> PartitionCountOf(env),
     owned |-> IF env.owned # Unset THEN OwnedByOverride(env) ELSE OwnedBySlot(env)]
-----------------------------------------------------------------------------
(* LoadProxy, and the routing table the proxy builds from it.  nodes is    *)
(* the list of node ids in NODES, in which an entry may be Bad.            *)

LoadProxyOk(env) ==
    /\ PartitionCountOk(env.partitionCount)
    /\ env.nodes # Unset
    /\ \A i \in DOMAIN env.nodes : env.nodes[i] # Bad
    /\ \A i, j \in DOMAIN env.nodes : env.nodes[i] = env.nodes[j] => i = j
    /\ env.nodes # <<>>
    /\ env.timeout # Bad

StartProxyOk(env) == LoadProxyOk(env) /\ NewTableOk(env.nodes, PartitionCountOf(env))

LoadProxy(env) ==
    [env |-> env, partitionCount |-> PartitionCountOf(env), nodeIDs |-> env.nodes,
     table |-> NewTable(env.nodes, PartitionCountOf(env))]
=============================================================================
