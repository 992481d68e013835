SPECIFICATION FairSpec
CONSTANTS
    c1 = c1
    c2 = c2
    c3 = c3
    i1 = i1
    i2 = i2
    e1 = e1
    pa = pa
    pb = pb
    Email = {e1}
    Password = {pa, pb}
    Invitation = {i1, i2}
    EmailOf <- MCEmailOf
    RoleOf <- MCRoleOf
    Accept = {c1, c2, c3}
    InvitationOf <- MCInvitationOf
    PasswordOf <- MCPasswordOf
    NoPassword = NoPassword
    PoolSize = 3
INVARIANT PasswordGuardsAccounts
INVARIANT MembersWereInvited
PROPERTY EveryAcceptEnds
CHECK_DEADLOCK FALSE
