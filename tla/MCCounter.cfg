SPECIFICATION FairCounterSpec
CONSTANTS
    c1 = c1 c2 = c2 n1 = n1 n2 = n2 q1 = q1 ctr = ctr Nil = Nil Unset = Unset Bad = Bad
    Client = {c1, c2} NodeID = {n1, n2} ProxyID = {q1}
    Key = {ctr} counter = ctr Value = {0, 1, 2, 3, 4, 5}
    TooLong = {} TooLarge = {} NotJSON = {}
    Merge <- MCMerge Hash <- MCHash NodeConf <- MCNodeConf ProxyConf <- MCProxyConf
    MaxAttempts = 3 Plans <- MCPlans
CHECK_DEADLOCK FALSE
INVARIANT CounterExact
PROPERTIES AddsOne AllCounted
