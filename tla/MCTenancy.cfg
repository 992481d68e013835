SPECIFICATION Spec
CONSTANTS
    u1 = u1
    u2 = u2
    o1 = o1
    o2 = o2
    b1 = b1
    b2 = b2
    User = {u1, u2}
    Organization = {o1, o2}
    Project = {p1}
    Hostname = {h1}
    Boot = {b1, b2}
    FounderOf <- MCFounderOf
    FoundedBy <- MCFoundedBy
    Invitable <- MCInvitable
    Call = {c1, c2}
    None = None
SYMMETRY Symmetry
INVARIANT NoStaleAuthority
INVARIANT DeletedProjectsGainNothing
INVARIANT OneOwnerEach
PROPERTY CallsAddNobody
