SPECIFICATION Spec
CONSTANTS
    Key = {k1, k2, k3, k4}
    Request = {q1, q2, q3, q4, q5}
    NoKey = NoKey
    NoRequest = NoRequest
SYMMETRY Symmetry
INVARIANT AnsweredKeysStayDead
INVARIANT AuditExplainsKeys
PROPERTY ImplementsKeyRing
