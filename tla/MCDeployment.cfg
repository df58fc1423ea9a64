SPECIFICATION Spec
CONSTANTS
    n1 = n1 n2 = n2 n3 = n3 q1 = q1 q2 = q2
    Unset = Unset Bad = Bad Down = Down Failed = Failed
    NodeID = {n1, n2, n3}
    ProxyID = {q1, q2}
    NodeEnvs <- MCNodeEnvs
    ProxyEnvs <- MCProxyEnvs
    Hashes = {0, 1, 2, 3, 4, 5, 6, 7, 8, 13}
    DefaultPartitionCount = 2
    Modulus = 16
INVARIANTS TypeOK AgreeingClusterServes OneHome OverrideIsExact DumpIsTrue
