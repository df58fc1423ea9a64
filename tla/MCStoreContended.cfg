SPECIFICATION Spec
CONSTANTS
    k1 = k1 k2 = k2 k3 = k3 g1 = g1 g2 = g2 g3 = g3 s1 = s1 r1 = r1 r2 = r2 r3 = r3 r4 = r4
    a = a b = b ab = ab Nil = Nil
    Key = {k1}
    Value <- MCValue
    Merge <- MCMerge
    Proc = {g1, g2, g3}
    Scanner = {}
    Ref = {r1, r2}
    Workload <- ContendedWorkload
    Hash <- TwoPartitions
    PartitionCount = 2
    MaxVersion = 4
SYMMETRY Symmetric
INVARIANTS IInv GuardsHonoured NoDataRace OneEntryPerKey NoLostUpdate SnapshotsConsistent
PROPERTIES VersionsCountWrites Linearizable
