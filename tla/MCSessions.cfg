SPECIFICATION FairSpec
CONSTANTS
    c1 = c1 c2 = c2 n1 = n1 n2 = n2 q1 = q1 q2 = q2 q3 = q3 k1 = k1 k2 = k2 long = long
    a = a b = b ab = ab huge = huge junk = junk Nil = Nil Unset = Unset Bad = Bad
    Key = {k1, k2, long} Value = {a, b, ab}
    TooLong = {long} TooLarge = {huge} NotJSON = {junk}
    Merge <- MCMerge Hash <- MCHash NodeConf <- MCNodeConf ProxyConf <- MCProxyConf
    NodeID = {n1, n2} ProxyID = {q1, q2, q3} Client = {c1, c2}
    Plans <- MCPlans
CHECK_DEADLOCK FALSE
INVARIANTS TypeOK AnswersAreTrue AppliedOnce ReadsAreFresh
PROPERTIES EveryGuardHolds ConflictsTellHow RequestsEnd
