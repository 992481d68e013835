SPECIFICATION Spec
CONSTANTS
    k1 = k1
    Request = {r1, r2, r3}
    Key = {k1}
    KeyOf <- MCKeyOf
    Ip = ip
    Limit <- MCLimit
    Window = 2
    MaxTime = 2
    MaxChanges = 2
    MaxConcurrent = 1
    MaxQueued = 1
SYMMETRY Alike
INVARIANT PoolOnlyForTheFit
INVARIANT KeysPayForCallsOnly
INVARIANT GrantsBounded
CHECK_DEADLOCK FALSE
