SPECIFICATION FairSpec
CONSTANTS
    k1 = k1 k2 = k2 k3 = k3 g1 = g1 g2 = g2 g3 = g3 s1 = s1 r1 = r1 r2 = r2 r3 = r3 r4 = r4
    a = a b = b ab = ab Nil = Nil
    Key = {k1}
    Value <- MCValue
    Merge <- MCMerge
    Proc = {g1, g2}
    Scanner = {s1}
    Ref = {r1}
    Workload <- LiveWorkload
    Hash <- TwoPartitions
    PartitionCount = 1
    MaxVersion = 2
PROPERTIES CallsReturn
