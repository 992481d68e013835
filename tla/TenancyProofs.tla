---------------------------- MODULE TenancyProofs ----------------------------
(***************************************************************************)
(* Proofs about the rows of tenants: Tenancy, how they change, and Listing,*)
(* how they are read page by page, for any number of users, organizations, *)
(* projects, calls and bootstraps, and for any rows, page sizes and clock. *)
(*                                                                         *)
(* Tenancy.  Owners come from bootstraps alone, and a bootstrap commits    *)
(* only for a user that is not there yet.  A member that a call has read   *)
(* is there and no owner, so that he does not become one before the call   *)
(* writes.  What a call was granted is a role that its user has had since  *)
(* it began.                                                               *)
(*                                                                         *)
(* Listing.  A cursor divides the rows into those behind it and those      *)
(* ahead.  A page takes rows that are ahead, the first ones of them, and   *)
(* answers with a cursor that leaves what it took behind and of the rest   *)
(* only what shares a millisecond with its last row.                       *)
(***************************************************************************)
EXTENDS Tenancy, Listing, FiniteSetTheorems, TLAPS

\* Everybody that a row or a call names is in the table of users, and whom a
\* call is about to change is no owner.
NamedUsersExist ==
    /\ \A o \in Organization, u \in User : role[o][u] # "none" => u \in users
    /\ \A c \in Call :
          /\ pc[c] # "idle" => by[c] \in users /\ in[c] \in Organization
          /\ pc[c] \in {"member_read", "member_known"} =>
                about[c] \in users /\ role[in[c]][about[c]] # "owner"

\* The role that a call's user has is among those held, as is the one that the
\* call was let in with, and that one allows what the call does next.
GrantsHeld ==
    \A c \in Call :
        /\ pc[c] # "idle" => role[in[c]][by[c]] \in held[c] \cup {"none"}
        /\ pc[c] \notin {"idle", "asked"} => grant[c] \in held[c]
        /\ pc[c] = "project_read" => grant[c] \in {"owner", "admin"}
        /\ pc[c] \in {"member_read", "member_known"} => grant[c] = "owner"
        /\ pc[c] \in Writes => pc[c] \in Permissions(grant[c])

\* The projects that are not deleted now are among those that were live since
\* a call began, as is the one it has read.
ReadProjectsLived ==
    \A c \in Call :
        /\ pc[c] # "idle" => Undeleted \subseteq live[c]
        /\ pc[c] \in {"project_read", "domain.create", "api_key.create"} =>
              about[c] \in live[c]

IInv ==
    /\ TypeOK
    /\ NamedUsersExist
    /\ OneOwnerEach
    /\ GrantsHeld
    /\ ReadProjectsLived

\* What the proofs need of the matrix of roles and permissions.
LEMMA RolesPermit ==
    /\ \A r \in Roles :
          /\ Permissions(r) \subseteq OwnerPermissions
          /\ "domain.create" \in Permissions(r) \/ "api_key.create" \in Permissions(r)
                => r \in {"owner", "admin"}
          /\ "member.role.change" \in Permissions(r) \/ "member.remove" \in Permissions(r)
                => r = "owner"
    /\ \A r \in {"owner", "admin"} :
          {"domain.create", "api_key.create"} \subseteq Permissions(r)
    /\ {"member.role.change", "member.remove"} \subseteq Permissions("owner")
BY DEF Roles, Permissions, OwnerPermissions, AdminPermissions, MemberPermissions

\* Where a call can be: at one of the steps before its write, or past it.
LEMMA CallStates ==
    /\ Writes \cap (Underway \cup {"idle"}) = {}
    /\ {"asked", "granted", "project_read", "member_read", "member_known"} \subseteq Underway
    /\ "idle" \notin Underway
    /\ {"project.create", "project.update", "project.delete", "domain.create", "api_key.create",
        "member.role.change", "member.remove",
        "invitation.create.admin", "invitation.create.member"} \subseteq Writes
    /\ OtherWrites \subseteq Writes \ {"domain.create", "api_key.create"}
BY
   DEF Writes, Underway, OtherWrites, OwnerPermissions, AdminPermissions,
       MemberPermissions

\* Every step keeps the shape.
LEMMA TypeStep == IInv /\ [Next]_vars => TypeOK'
<1> SUFFICES ASSUME IInv, [Next]_vars
             PROVE  TypeOK'
  OBVIOUS
<1>1. ASSUME NEW b \in Boot, LookForUsers(b)
      PROVE  TypeOK'
  BY <1>1, CallStates DEF LookForUsers, tables, call, IInv, TypeOK, Roles
<1>2. ASSUME NEW b \in Boot, CommitBootstrap(b)
      PROVE  TypeOK'
  <2>1. FounderOf[b] \in User /\ FoundedBy[b] \in Organization
    BY TenancyAssumption
  <2>2. role \in [Organization -> [User -> Roles \cup {"none"}]] /\ "owner" \in Roles
    BY DEF IInv, TypeOK, Roles
  <2>3. role' = [role EXCEPT ![FoundedBy[b]][FounderOf[b]] = "owner"]
    BY <1>2 DEF CommitBootstrap
  <2>4. role' \in [Organization -> [User -> Roles \cup {"none"}]]
    BY <2>1, <2>2, <2>3
  <2> QED
    BY <1>2, <2>1, <2>4 DEF CommitBootstrap, call, IInv, TypeOK
<1>3. ASSUME NEW b \in Boot, BootstrapFails(b)
      PROVE  TypeOK'
  BY <1>3, CallStates DEF BootstrapFails, tables, call, IInv, TypeOK, Roles
<1>4. ASSUME NEW c \in Call, NEW u \in User, NEW o \in Organization, Arrive(c, u, o)
      PROVE  TypeOK'
  BY <1>4, CallStates DEF Arrive, tables, Undeleted, IInv, TypeOK, Roles
<1>5. ASSUME NEW c \in Call, Authorize(c)
      PROVE  TypeOK'
  <2>1. /\ by[c] \in User /\ in[c] \in Organization
    BY <1>5 DEF Authorize, NamedUsersExist, IInv, TypeOK
  <2>2. role[in[c]][by[c]] \in Roles \cup {"none"}
    BY <2>1 DEF IInv, TypeOK
  <2>3. PICK r \in Roles : grant' = [grant EXCEPT ![c] = r]
    BY <1>5, <2>2 DEF Authorize, Membership
  <2> QED
    BY <1>5, <2>3, CallStates DEF Authorize, tables, IInv, TypeOK
<1>6. ASSUME NEW c \in Call, End(c)
      PROVE  TypeOK'
  BY <1>6, CallStates DEF End, tables, call, IInv, TypeOK, Roles
<1>7. ASSUME NEW c \in Call, NEW p \in Project, CreateProject(c, p)
      PROVE  TypeOK'
  BY <1>7, CallStates
     DEF CreateProject, WriteStatus, Wrote, Granted, call, IInv, TypeOK, Roles
<1>8. ASSUME NEW c \in Call, NEW p \in Project, NEW s \in {"active", "suspended", "deleted"},
             UpdateProject(c, p, s)
      PROVE  TypeOK'
  BY <1>8, CallStates
     DEF UpdateProject, WriteStatus, Wrote, Granted, call, IInv, TypeOK, Roles
<1>9. ASSUME NEW c \in Call, NEW p \in Project, SoftDeleteProject(c, p)
      PROVE  TypeOK'
  BY <1>9, CallStates
     DEF SoftDeleteProject, WriteStatus, Wrote, Granted, call, IInv, TypeOK, Roles
<1>10. ASSUME NEW c \in Call, NEW p \in Project, ReadProject(c, p)
      PROVE  TypeOK'
  BY <1>10, CallStates
     DEF ReadProject, VisibleProjects, Granted, tables, IInv, TypeOK, Roles
<1>11. ASSUME NEW c \in Call, NEW h \in Hostname, CreateDomain(c, h)
      PROVE  TypeOK'
  <2>1. about[c] \in Project
    BY <1>11 DEF CreateDomain, ReadProjectsLived, IInv, TypeOK
  <2> QED
    BY <1>11, <2>1, CallStates DEF CreateDomain, Wrote, call, IInv, TypeOK
<1>12. ASSUME NEW c \in Call, CreateApiKey(c)
      PROVE  TypeOK'
  BY <1>12, CallStates DEF CreateApiKey, Wrote, call, tables, IInv, TypeOK, Roles
<1>13. ASSUME NEW c \in Call, NEW permission \in OtherWrites,
              WriteOther(c, permission)
      PROVE  TypeOK'
  BY <1>13, CallStates
     DEF WriteOther, Wrote, Granted, call, tables, IInv, TypeOK, Roles
<1>14. ASSUME NEW c \in Call, NEW u \in User, NEW r \in InvitationRoles,
              CreateInvitation(c, u, r)
      PROVE  TypeOK'
  <2>1. u \in User /\ in[c] \in Organization
    BY <1>14, TenancyAssumption DEF CreateInvitation
  <2>2. pc' \in [Call -> Underway \cup {"idle"} \cup Writes]
    BY <1>14, CallStates DEF CreateInvitation, Wrote, IInv, TypeOK
  <2> QED
    BY <1>14, <2>1, <2>2 DEF CreateInvitation, Wrote, call, IInv, TypeOK
<1>15. ASSUME NEW c \in Call, NEW u \in User, ReadMember(c, u)
      PROVE  TypeOK'
  BY <1>15, CallStates
     DEF ReadMember, ChangeableMembers, Members, Granted, tables, IInv, TypeOK,
         Roles
<1>16. ASSUME NEW c \in Call, ReadMemberAgain(c)
      PROVE  TypeOK'
  BY <1>16, CallStates DEF ReadMemberAgain, call, tables, IInv, TypeOK, Roles
<1>17. ASSUME NEW c \in Call, NEW r \in InvitationRoles, UpdateMemberRole(c, r)
      PROVE  TypeOK'
  <2>1. in[c] \in Organization /\ about[c] \in User /\ r \in Roles
    BY <1>17
       DEF UpdateMemberRole, NamedUsersExist, InvitationRoles, IInv, TypeOK, Roles
  <2>2. role' \in [Organization -> [User -> Roles \cup {"none"}]]
    <3>1. role \in [Organization -> [User -> Roles \cup {"none"}]]
      BY DEF IInv, TypeOK
    <3>2. role' = role \/ role' = [role EXCEPT ![in[c]][about[c]] = r]
      BY <1>17 DEF UpdateMemberRole
    <3> QED
      BY <2>1, <3>1, <3>2
  <2>3. held' \in [Call -> SUBSET Roles]
    BY <1>17, <2>1 DEF UpdateMemberRole, Holding, IInv, TypeOK
  <2> QED
    BY <1>17, <2>2, <2>3, CallStates DEF UpdateMemberRole, Wrote, call, IInv, TypeOK
<1>18. ASSUME NEW c \in Call, RemoveMember(c)
      PROVE  TypeOK'
  BY <1>18, CallStates DEF RemoveMember, Wrote, call, IInv, TypeOK, Roles
<1>19. ASSUME NEW u \in User, NEW o \in Organization, NEW r \in InvitationRoles,
              Join(u, o, r)
      PROVE  TypeOK'
  BY <1>19, CallStates
     DEF Join, Holding, Members, call, InvitationRoles, IInv, TypeOK, Roles
<1>20. CASE UNCHANGED vars
  BY <1>20 DEF vars, tables, call, IInv, TypeOK, Roles
<1>21. QED
  BY <1>1, <1>2, <1>3, <1>4, <1>5, <1>6, <1>7, <1>8, <1>9, <1>10, <1>11, <1>12,
     <1>13, <1>14, <1>15, <1>16, <1>17, <1>18, <1>19, <1>20
     DEF Next

\* Every step keeps the rows and the calls pointing at users who are there.
LEMMA NamedStep == IInv /\ [Next]_vars => NamedUsersExist'
<1> SUFFICES ASSUME IInv, [Next]_vars
             PROVE  NamedUsersExist'
  OBVIOUS
<1>1. ASSUME NEW b \in Boot, LookForUsers(b)
      PROVE  NamedUsersExist'
  BY <1>1, CallStates
     DEF LookForUsers, tables, call, IInv, TypeOK, NamedUsersExist, Roles
<1>2. ASSUME NEW b \in Boot, CommitBootstrap(b)
      PROVE  NamedUsersExist'
  BY <1>2, CallStates
     DEF CommitBootstrap, Founded, call, IInv, TypeOK, NamedUsersExist, Roles
<1>3. ASSUME NEW b \in Boot, BootstrapFails(b)
      PROVE  NamedUsersExist'
  BY <1>3, CallStates
     DEF BootstrapFails, tables, call, IInv, TypeOK, NamedUsersExist, Roles
<1>4. ASSUME NEW c \in Call, NEW u \in User, NEW o \in Organization, Arrive(c, u, o)
      PROVE  NamedUsersExist'
  BY <1>4, CallStates DEF Arrive, tables, IInv, TypeOK, NamedUsersExist, Roles
<1>5. ASSUME NEW c \in Call, Authorize(c)
      PROVE  NamedUsersExist'
  BY <1>5, CallStates
     DEF Authorize, Membership, tables, IInv, TypeOK, NamedUsersExist, Roles
<1>6. ASSUME NEW c \in Call, End(c)
      PROVE  NamedUsersExist'
  BY <1>6, CallStates DEF End, tables, call, IInv, TypeOK, NamedUsersExist, Roles
<1>7. ASSUME NEW c \in Call, NEW p \in Project, CreateProject(c, p)
      PROVE  NamedUsersExist'
  BY <1>7, CallStates
     DEF CreateProject, WriteStatus, Wrote, Granted, call, IInv, TypeOK,
         NamedUsersExist, Roles
<1>8. ASSUME NEW c \in Call, NEW p \in Project, NEW s \in {"active", "suspended", "deleted"},
             UpdateProject(c, p, s)
      PROVE  NamedUsersExist'
  BY <1>8, CallStates
     DEF UpdateProject, WriteStatus, Wrote, Granted, call, IInv, TypeOK,
         NamedUsersExist, Roles
<1>9. ASSUME NEW c \in Call, NEW p \in Project, SoftDeleteProject(c, p)
      PROVE  NamedUsersExist'
  BY <1>9, CallStates
     DEF SoftDeleteProject, WriteStatus, Wrote, Granted, call, IInv, TypeOK,
         NamedUsersExist, Roles
<1>10. ASSUME NEW c \in Call, NEW p \in Project, ReadProject(c, p)
      PROVE  NamedUsersExist'
  BY <1>10, CallStates
     DEF ReadProject, VisibleProjects, Granted, tables, IInv, TypeOK,
         NamedUsersExist, Roles
<1>11. ASSUME NEW c \in Call, NEW h \in Hostname, CreateDomain(c, h)
      PROVE  NamedUsersExist'
  BY <1>11, CallStates
     DEF CreateDomain, Wrote, call, IInv, TypeOK, NamedUsersExist, Roles
<1>12. ASSUME NEW c \in Call, CreateApiKey(c)
      PROVE  NamedUsersExist'
  BY <1>12, CallStates
     DEF CreateApiKey, Wrote, call, tables, IInv, TypeOK, NamedUsersExist, Roles
<1>13. ASSUME NEW c \in Call, NEW permission \in OtherWrites,
              WriteOther(c, permission)
      PROVE  NamedUsersExist'
  BY <1>13, CallStates
     DEF WriteOther, Wrote, Granted, call, tables, IInv, TypeOK, NamedUsersExist,
         Roles
<1>14. ASSUME NEW c \in Call, NEW u \in User, NEW r \in InvitationRoles,
              CreateInvitation(c, u, r)
      PROVE  NamedUsersExist'
  BY <1>14, CallStates
     DEF CreateInvitation, Wrote, Granted, call, IInv, TypeOK, NamedUsersExist,
         Roles
<1>15. ASSUME NEW c \in Call, NEW u \in User, ReadMember(c, u)
      PROVE  NamedUsersExist'
  BY <1>15, CallStates
     DEF ReadMember, ChangeableMembers, Members, Granted, tables, IInv, TypeOK,
         NamedUsersExist, Roles
<1>16. ASSUME NEW c \in Call, ReadMemberAgain(c)
      PROVE  NamedUsersExist'
  BY <1>16, CallStates
     DEF ReadMemberAgain, call, tables, IInv, TypeOK, NamedUsersExist, Roles
<1>17. ASSUME NEW c \in Call, NEW r \in InvitationRoles, UpdateMemberRole(c, r)
      PROVE  NamedUsersExist'
  <2>1. /\ in[c] \in Organization /\ about[c] \in users /\ users \subseteq User
        /\ r # "owner" /\ r # "none"
    BY <1>17 DEF UpdateMemberRole, InvitationRoles, NamedUsersExist, IInv, TypeOK
  <2>2. ASSUME NEW o \in Organization, NEW u \in User
        PROVE  /\ role'[o][u] # "none" => u \in users
               /\ role'[o][u] = "owner" => role[o][u] = "owner"
    <3>1. role \in [Organization -> [User -> Roles \cup {"none"}]]
      BY DEF IInv, TypeOK
    <3>2. role' = role \/ role' = [role EXCEPT ![in[c]][about[c]] = r]
      BY <1>17 DEF UpdateMemberRole
    <3>3. role[o][u] # "none" => u \in users
      BY DEF NamedUsersExist, IInv
    <3> QED
      BY <2>1, <3>1, <3>2, <3>3
  <2>3. /\ users' = users /\ by' = by /\ in' = in /\ about' = about
        /\ pc' = [pc EXCEPT ![c] = "member.role.change"]
    BY <1>17 DEF UpdateMemberRole, Wrote, call, IInv, TypeOK
  <2>4. ASSUME NEW d \in Call
        PROVE  /\ pc'[d] # "idle" => by[d] \in users /\ in[d] \in Organization
               /\ pc'[d] \in {"member_read", "member_known"} =>
                     about[d] \in users /\ role'[in[d]][about[d]] # "owner"
    <3>1. /\ pc[d] # "idle" => by[d] \in users /\ in[d] \in Organization
          /\ pc[d] \in {"member_read", "member_known"} =>
                about[d] \in users /\ role[in[d]][about[d]] # "owner"
      BY DEF NamedUsersExist, IInv
    <3>2. pc'[d] = pc[d] \/ (d = c /\ pc'[d] = "member.role.change" /\ pc[d] = "member_known")
      BY <1>17, <2>3 DEF UpdateMemberRole, IInv, TypeOK
    <3>3. pc[d] \in {"member_read", "member_known"} => pc[d] # "idle"
      OBVIOUS
    <3> QED
      BY <2>1, <2>2, <3>1, <3>2, <3>3
  <2> QED
    BY <2>2, <2>3, <2>4 DEF NamedUsersExist
<1>18. ASSUME NEW c \in Call, RemoveMember(c)
      PROVE  NamedUsersExist'
  BY <1>18, CallStates
     DEF RemoveMember, Wrote, call, IInv, TypeOK, NamedUsersExist, Roles
<1>19. ASSUME NEW u \in User, NEW o \in Organization, NEW r \in InvitationRoles,
              Join(u, o, r)
      PROVE  NamedUsersExist'
  BY <1>19, CallStates
     DEF Join, Holding, Members, call, InvitationRoles, IInv, TypeOK,
         NamedUsersExist, Roles
<1>20. CASE UNCHANGED vars
  BY <1>20 DEF vars, tables, call, IInv, TypeOK, NamedUsersExist, Roles
<1>21. QED
  BY <1>1, <1>2, <1>3, <1>4, <1>5, <1>6, <1>7, <1>8, <1>9, <1>10, <1>11, <1>12,
     <1>13, <1>14, <1>15, <1>16, <1>17, <1>18, <1>19, <1>20
     DEF Next

\* Only a bootstrap writes the role of an owner, and only calls that do not touch
\* an owner write roles over others.
LEMMA OwnerStep == IInv /\ [Next]_vars => OneOwnerEach'
<1> SUFFICES ASSUME IInv, [Next]_vars
             PROVE  OneOwnerEach'
  OBVIOUS
<1>1. ASSUME NEW b \in Boot, LookForUsers(b)
      PROVE  OneOwnerEach'
  BY <1>1
     DEF LookForUsers, tables, call, IInv, TypeOK, NamedUsersExist, OneOwnerEach
<1>2. ASSUME NEW b \in Boot, CommitBootstrap(b)
      PROVE  OneOwnerEach'
  <2> DEFINE Founders(p, done) ==
              {FounderOf[d] : d \in {d \in Boot : done[d] = "done" /\ FoundedBy[d] = p}}
  <2>1. FounderOf[b] \in User /\ FoundedBy[b] \in Organization
    BY TenancyAssumption
  <2>2. Founders(FoundedBy[b], boot) = {}
    BY <1>2 DEF CommitBootstrap, Founded, NamedUsersExist, IInv, TypeOK
  <2>3. ASSUME NEW p \in Organization
        PROVE  Founders(p, boot') = Founders(p, boot) \cup
                                      {f \in {FounderOf[b]} : p = FoundedBy[b]}
    BY <1>2, <2>1 DEF CommitBootstrap, IInv, TypeOK
  <2>4. ASSUME NEW p \in Organization, NEW u \in User
        PROVE  role'[p][u] = "owner" <=>
                 role[p][u] = "owner" \/ (p = FoundedBy[b] /\ u = FounderOf[b])
    BY <1>2, <2>1 DEF CommitBootstrap, IInv, TypeOK
  <2>5. ASSUME NEW p \in Organization
        PROVE  {u \in User : role[p][u] = "owner"} = Founders(p, boot)
    BY DEF IInv, OneOwnerEach
  <2>6. ASSUME NEW p \in Organization
        PROVE  {u \in User : role'[p][u] = "owner"} = Founders(p, boot')
    BY <2>1, <2>3, <2>4, <2>5
  <2> QED
    BY <2>6 DEF OneOwnerEach
<1>3. ASSUME NEW b \in Boot, BootstrapFails(b)
      PROVE  OneOwnerEach'
  BY <1>3
     DEF BootstrapFails, tables, call, IInv, TypeOK, NamedUsersExist, OneOwnerEach
<1>4. ASSUME NEW c \in Call, NEW u \in User, NEW o \in Organization, Arrive(c, u, o)
      PROVE  OneOwnerEach'
  BY <1>4 DEF Arrive, tables, IInv, TypeOK, NamedUsersExist, OneOwnerEach
<1>5. ASSUME NEW c \in Call, Authorize(c)
      PROVE  OneOwnerEach'
  BY <1>5
     DEF Authorize, Membership, tables, IInv, TypeOK, NamedUsersExist,
         OneOwnerEach
<1>6. ASSUME NEW c \in Call, End(c)
      PROVE  OneOwnerEach'
  BY <1>6 DEF End, tables, call, IInv, TypeOK, NamedUsersExist, OneOwnerEach
<1>7. ASSUME NEW c \in Call, NEW p \in Project, CreateProject(c, p)
      PROVE  OneOwnerEach'
  BY <1>7
     DEF CreateProject, WriteStatus, Wrote, Granted, call, IInv, TypeOK,
         NamedUsersExist, OneOwnerEach
<1>8. ASSUME NEW c \in Call, NEW p \in Project, NEW s \in {"active", "suspended", "deleted"},
             UpdateProject(c, p, s)
      PROVE  OneOwnerEach'
  BY <1>8
     DEF UpdateProject, WriteStatus, Wrote, Granted, call, IInv, TypeOK,
         NamedUsersExist, OneOwnerEach
<1>9. ASSUME NEW c \in Call, NEW p \in Project, SoftDeleteProject(c, p)
      PROVE  OneOwnerEach'
  BY <1>9
     DEF SoftDeleteProject, WriteStatus, Wrote, Granted, call, IInv, TypeOK,
         NamedUsersExist, OneOwnerEach
<1>10. ASSUME NEW c \in Call, NEW p \in Project, ReadProject(c, p)
      PROVE  OneOwnerEach'
  BY <1>10
     DEF ReadProject, VisibleProjects, Granted, tables, IInv, TypeOK,
         NamedUsersExist, OneOwnerEach
<1>11. ASSUME NEW c \in Call, NEW h \in Hostname, CreateDomain(c, h)
      PROVE  OneOwnerEach'
  BY <1>11
     DEF CreateDomain, Wrote, call, IInv, TypeOK, NamedUsersExist, OneOwnerEach
<1>12. ASSUME NEW c \in Call, CreateApiKey(c)
      PROVE  OneOwnerEach'
  BY <1>12
     DEF CreateApiKey, Wrote, call, tables, IInv, TypeOK, NamedUsersExist,
         OneOwnerEach
<1>13. ASSUME NEW c \in Call, NEW permission \in OtherWrites,
              WriteOther(c, permission)
      PROVE  OneOwnerEach'
  BY <1>13
     DEF WriteOther, Wrote, Granted, call, tables, IInv, TypeOK, NamedUsersExist,
         OneOwnerEach
<1>14. ASSUME NEW c \in Call, NEW u \in User, NEW r \in InvitationRoles,
              CreateInvitation(c, u, r)
      PROVE  OneOwnerEach'
  BY <1>14
     DEF CreateInvitation, Wrote, Granted, call, IInv, TypeOK, NamedUsersExist,
         OneOwnerEach
<1>15. ASSUME NEW c \in Call, NEW u \in User, ReadMember(c, u)
      PROVE  OneOwnerEach'
  BY <1>15
     DEF ReadMember, ChangeableMembers, Members, Granted, tables, IInv, TypeOK,
         NamedUsersExist, OneOwnerEach
<1>16. ASSUME NEW c \in Call, ReadMemberAgain(c)
      PROVE  OneOwnerEach'
  BY <1>16
     DEF ReadMemberAgain, call, tables, IInv, TypeOK, NamedUsersExist,
         OneOwnerEach
<1>17. ASSUME NEW c \in Call, NEW r \in InvitationRoles, UpdateMemberRole(c, r)
      PROVE  OneOwnerEach'
  <2>1. /\ in[c] \in Organization /\ about[c] \in User
        /\ role[in[c]][about[c]] # "owner" /\ r # "owner"
    BY <1>17 DEF UpdateMemberRole, InvitationRoles, NamedUsersExist, IInv, TypeOK
  <2>2. ASSUME NEW o \in Organization, NEW u \in User
        PROVE  role'[o][u] = "owner" <=> role[o][u] = "owner"
    BY <1>17, <2>1 DEF UpdateMemberRole, IInv, TypeOK
  <2> QED
    BY <1>17, <2>2 DEF UpdateMemberRole, Wrote, call, IInv, OneOwnerEach
<1>18. ASSUME NEW c \in Call, RemoveMember(c)
      PROVE  OneOwnerEach'
  BY <1>18
     DEF RemoveMember, Wrote, call, IInv, TypeOK, NamedUsersExist, OneOwnerEach
<1>19. ASSUME NEW u \in User, NEW o \in Organization, NEW r \in InvitationRoles,
              Join(u, o, r)
      PROVE  OneOwnerEach'
  BY <1>19
     DEF Join, Holding, Members, call, InvitationRoles, IInv, TypeOK,
         NamedUsersExist, OneOwnerEach
<1>20. CASE UNCHANGED vars
  BY <1>20 DEF vars, tables, call, IInv, TypeOK, NamedUsersExist, OneOwnerEach
<1>21. QED
  BY <1>1, <1>2, <1>3, <1>4, <1>5, <1>6, <1>7, <1>8, <1>9, <1>10, <1>11, <1>12,
     <1>13, <1>14, <1>15, <1>16, <1>17, <1>18, <1>19, <1>20
     DEF Next

\* A role that is changed or given is added to those held; one that is taken
\* away stays among them.
LEMMA GrantStep == IInv /\ [Next]_vars => GrantsHeld'
<1> SUFFICES ASSUME IInv, [Next]_vars
             PROVE  GrantsHeld'
  OBVIOUS
<1>1. ASSUME NEW b \in Boot, LookForUsers(b)
      PROVE  GrantsHeld'
  BY <1>1, CallStates, RolesPermit
     DEF LookForUsers, tables, call, IInv, TypeOK, NamedUsersExist, GrantsHeld
<1>2. ASSUME NEW b \in Boot, CommitBootstrap(b)
      PROVE  GrantsHeld'
  BY <1>2, CallStates, RolesPermit
     DEF CommitBootstrap, Founded, call, IInv, TypeOK, NamedUsersExist, GrantsHeld
<1>3. ASSUME NEW b \in Boot, BootstrapFails(b)
      PROVE  GrantsHeld'
  BY <1>3, CallStates, RolesPermit
     DEF BootstrapFails, tables, call, IInv, TypeOK, NamedUsersExist, GrantsHeld
<1>4. ASSUME NEW c \in Call, NEW u \in User, NEW o \in Organization, Arrive(c, u, o)
      PROVE  GrantsHeld'
  BY <1>4, CallStates, RolesPermit
     DEF Arrive, tables, IInv, TypeOK, NamedUsersExist, GrantsHeld
<1>5. ASSUME NEW c \in Call, Authorize(c)
      PROVE  GrantsHeld'
  BY <1>5, CallStates, RolesPermit
     DEF Authorize, Membership, tables, IInv, TypeOK, NamedUsersExist, GrantsHeld
<1>6. ASSUME NEW c \in Call, End(c)
      PROVE  GrantsHeld'
  BY <1>6, CallStates, RolesPermit
     DEF End, tables, call, IInv, TypeOK, NamedUsersExist, GrantsHeld
<1>7. ASSUME NEW c \in Call, NEW p \in Project, CreateProject(c, p)
      PROVE  GrantsHeld'
  BY <1>7, CallStates, RolesPermit
     DEF CreateProject, WriteStatus, Wrote, Granted, call, IInv, TypeOK,
         NamedUsersExist, GrantsHeld
<1>8. ASSUME NEW c \in Call, NEW p \in Project, NEW s \in {"active", "suspended", "deleted"},
             UpdateProject(c, p, s)
      PROVE  GrantsHeld'
  BY <1>8, CallStates, RolesPermit
     DEF UpdateProject, WriteStatus, Wrote, Granted, call, IInv, TypeOK,
         NamedUsersExist, GrantsHeld
<1>9. ASSUME NEW c \in Call, NEW p \in Project, SoftDeleteProject(c, p)
      PROVE  GrantsHeld'
  BY <1>9, CallStates, RolesPermit
     DEF SoftDeleteProject, WriteStatus, Wrote, Granted, call, IInv, TypeOK,
         NamedUsersExist, GrantsHeld
<1>10. ASSUME NEW c \in Call, NEW p \in Project, ReadProject(c, p)
      PROVE  GrantsHeld'
  BY <1>10, CallStates, RolesPermit
     DEF ReadProject, VisibleProjects, Granted, tables, IInv, TypeOK,
         NamedUsersExist, GrantsHeld
<1>11. ASSUME NEW c \in Call, NEW h \in Hostname, CreateDomain(c, h)
      PROVE  GrantsHeld'
  BY <1>11, CallStates, RolesPermit
     DEF CreateDomain, Wrote, call, IInv, TypeOK, NamedUsersExist, GrantsHeld
<1>12. ASSUME NEW c \in Call, CreateApiKey(c)
      PROVE  GrantsHeld'
  BY <1>12, CallStates, RolesPermit
     DEF CreateApiKey, Wrote, call, tables, IInv, TypeOK, NamedUsersExist,
         GrantsHeld
<1>13. ASSUME NEW c \in Call, NEW permission \in OtherWrites,
              WriteOther(c, permission)
      PROVE  GrantsHeld'
  BY <1>13, CallStates, RolesPermit
     DEF WriteOther, Wrote, Granted, call, tables, IInv, TypeOK, NamedUsersExist,
         GrantsHeld
<1>14. ASSUME NEW c \in Call, NEW u \in User, NEW r \in InvitationRoles,
              CreateInvitation(c, u, r)
      PROVE  GrantsHeld'
  BY <1>14, CallStates, RolesPermit
     DEF CreateInvitation, Wrote, Granted, call, IInv, TypeOK, NamedUsersExist,
         GrantsHeld
<1>15. ASSUME NEW c \in Call, NEW u \in User, ReadMember(c, u)
      PROVE  GrantsHeld'
  BY <1>15, CallStates, RolesPermit
     DEF ReadMember, ChangeableMembers, Members, Granted, tables, IInv, TypeOK,
         NamedUsersExist, GrantsHeld
<1>16. ASSUME NEW c \in Call, ReadMemberAgain(c)
      PROVE  GrantsHeld'
  BY <1>16, CallStates, RolesPermit
     DEF ReadMemberAgain, call, tables, IInv, TypeOK, NamedUsersExist, GrantsHeld
<1>17. ASSUME NEW c \in Call, NEW r \in InvitationRoles, UpdateMemberRole(c, r)
      PROVE  GrantsHeld'
  BY <1>17, CallStates, RolesPermit
     DEF UpdateMemberRole, Holding, Members, Wrote, call, InvitationRoles, IInv,
         TypeOK, NamedUsersExist, GrantsHeld
<1>18. ASSUME NEW c \in Call, RemoveMember(c)
      PROVE  GrantsHeld'
  BY <1>18, CallStates, RolesPermit
     DEF RemoveMember, Wrote, call, IInv, TypeOK, NamedUsersExist, GrantsHeld
<1>19. ASSUME NEW u \in User, NEW o \in Organization, NEW r \in InvitationRoles,
              Join(u, o, r)
      PROVE  GrantsHeld'
  BY <1>19, CallStates, RolesPermit
     DEF Join, Holding, Members, call, InvitationRoles, IInv, TypeOK,
         NamedUsersExist, GrantsHeld
<1>20. CASE UNCHANGED vars
  BY <1>20 DEF vars, tables, call, IInv, TypeOK, NamedUsersExist, GrantsHeld
<1>21. QED
  BY <1>1, <1>2, <1>3, <1>4, <1>5, <1>6, <1>7, <1>8, <1>9, <1>10, <1>11, <1>12,
     <1>13, <1>14, <1>15, <1>16, <1>17, <1>18, <1>19, <1>20
     DEF Next

\* A project that is restored is added to those that were live.
LEMMA LivedStep == IInv /\ [Next]_vars => ReadProjectsLived'
<1> SUFFICES ASSUME IInv, [Next]_vars
             PROVE  ReadProjectsLived'
  OBVIOUS
<1>1. ASSUME NEW b \in Boot, LookForUsers(b)
      PROVE  ReadProjectsLived'
  BY <1>1, CallStates
     DEF LookForUsers, tables, call, IInv, TypeOK, ReadProjectsLived, Undeleted
<1>2. ASSUME NEW b \in Boot, CommitBootstrap(b)
      PROVE  ReadProjectsLived'
  BY <1>2, CallStates
     DEF CommitBootstrap, Founded, call, IInv, TypeOK, ReadProjectsLived,
         Undeleted
<1>3. ASSUME NEW b \in Boot, BootstrapFails(b)
      PROVE  ReadProjectsLived'
  BY <1>3, CallStates
     DEF BootstrapFails, tables, call, IInv, TypeOK, ReadProjectsLived, Undeleted
<1>4. ASSUME NEW c \in Call, NEW u \in User, NEW o \in Organization, Arrive(c, u, o)
      PROVE  ReadProjectsLived'
  BY <1>4, CallStates DEF Arrive, tables, IInv, TypeOK, ReadProjectsLived, Undeleted
<1>5. ASSUME NEW c \in Call, Authorize(c)
      PROVE  ReadProjectsLived'
  BY <1>5, CallStates
     DEF Authorize, Membership, tables, IInv, TypeOK, ReadProjectsLived, Undeleted
<1>6. ASSUME NEW c \in Call, End(c)
      PROVE  ReadProjectsLived'
  BY <1>6, CallStates
     DEF End, tables, call, IInv, TypeOK, ReadProjectsLived, Undeleted
<1>7. ASSUME NEW c \in Call, NEW p \in Project, CreateProject(c, p)
      PROVE  ReadProjectsLived'
  BY <1>7, CallStates
     DEF CreateProject, WriteStatus, Wrote, Granted, call, IInv, TypeOK,
         ReadProjectsLived, Undeleted
<1>8. ASSUME NEW c \in Call, NEW p \in Project, NEW s \in {"active", "suspended", "deleted"},
             UpdateProject(c, p, s)
      PROVE  ReadProjectsLived'
  BY <1>8, CallStates
     DEF UpdateProject, WriteStatus, Wrote, Granted, call, IInv, TypeOK,
         ReadProjectsLived, Undeleted
<1>9. ASSUME NEW c \in Call, NEW p \in Project, SoftDeleteProject(c, p)
      PROVE  ReadProjectsLived'
  BY <1>9, CallStates
     DEF SoftDeleteProject, WriteStatus, Wrote, Granted, call, IInv, TypeOK,
         ReadProjectsLived, Undeleted
<1>10. ASSUME NEW c \in Call, NEW p \in Project, ReadProject(c, p)
      PROVE  ReadProjectsLived'
  BY <1>10, CallStates
     DEF ReadProject, VisibleProjects, Granted, tables, IInv, TypeOK,
         ReadProjectsLived, Undeleted
<1>11. ASSUME NEW c \in Call, NEW h \in Hostname, CreateDomain(c, h)
      PROVE  ReadProjectsLived'
  BY <1>11, CallStates
     DEF CreateDomain, Wrote, call, IInv, TypeOK, ReadProjectsLived, Undeleted
<1>12. ASSUME NEW c \in Call, CreateApiKey(c)
      PROVE  ReadProjectsLived'
  BY <1>12, CallStates
     DEF CreateApiKey, Wrote, call, tables, IInv, TypeOK, ReadProjectsLived,
         Undeleted
<1>13. ASSUME NEW c \in Call, NEW permission \in OtherWrites,
              WriteOther(c, permission)
      PROVE  ReadProjectsLived'
  BY <1>13, CallStates
     DEF WriteOther, Wrote, Granted, call, tables, IInv, TypeOK,
         ReadProjectsLived, Undeleted
<1>14. ASSUME NEW c \in Call, NEW u \in User, NEW r \in InvitationRoles,
              CreateInvitation(c, u, r)
      PROVE  ReadProjectsLived'
  BY <1>14, CallStates
     DEF CreateInvitation, Wrote, Granted, call, IInv, TypeOK, ReadProjectsLived,
         Undeleted
<1>15. ASSUME NEW c \in Call, NEW u \in User, ReadMember(c, u)
      PROVE  ReadProjectsLived'
  BY <1>15, CallStates
     DEF ReadMember, ChangeableMembers, Members, Granted, tables, IInv, TypeOK,
         ReadProjectsLived, Undeleted
<1>16. ASSUME NEW c \in Call, ReadMemberAgain(c)
      PROVE  ReadProjectsLived'
  BY <1>16, CallStates
     DEF ReadMemberAgain, call, tables, IInv, TypeOK, ReadProjectsLived, Undeleted
<1>17. ASSUME NEW c \in Call, NEW r \in InvitationRoles, UpdateMemberRole(c, r)
      PROVE  ReadProjectsLived'
  BY <1>17, CallStates
     DEF UpdateMemberRole, Holding, Members, Wrote, call, InvitationRoles, IInv,
         TypeOK, ReadProjectsLived, Undeleted
<1>18. ASSUME NEW c \in Call, RemoveMember(c)
      PROVE  ReadProjectsLived'
  BY <1>18, CallStates
     DEF RemoveMember, Wrote, call, IInv, TypeOK, ReadProjectsLived, Undeleted
<1>19. ASSUME NEW u \in User, NEW o \in Organization, NEW r \in InvitationRoles,
              Join(u, o, r)
      PROVE  ReadProjectsLived'
  BY <1>19, CallStates
     DEF Join, Holding, Members, call, InvitationRoles, IInv, TypeOK,
         ReadProjectsLived, Undeleted
<1>20. CASE UNCHANGED vars
  BY <1>20 DEF vars, tables, call, IInv, TypeOK, ReadProjectsLived, Undeleted
<1>21. QED
  BY <1>1, <1>2, <1>3, <1>4, <1>5, <1>6, <1>7, <1>8, <1>9, <1>10, <1>11, <1>12,
     <1>13, <1>14, <1>15, <1>16, <1>17, <1>18, <1>19, <1>20
     DEF Next

\* What CallsAddNobody says of a step.
RoleChangesAddNobody ==
    (\E c \in Call : pc[c] = "member_known" /\ pc'[c] = "member.role.change")
        => \A o \in Organization : Members(o)' \subseteq Members(o)

\* The step that writes a role looks for the row again.
LEMMA ChangeStep == IInv /\ [Next]_vars => RoleChangesAddNobody
<1> SUFFICES ASSUME IInv, [Next]_vars
             PROVE  RoleChangesAddNobody
  OBVIOUS
<1>1. ASSUME NEW b \in Boot, LookForUsers(b)
      PROVE  RoleChangesAddNobody
  BY <1>1
     DEF LookForUsers, tables, call, RoleChangesAddNobody, IInv, TypeOK,
         OtherWrites
<1>2. ASSUME NEW b \in Boot, CommitBootstrap(b)
      PROVE  RoleChangesAddNobody
  BY <1>2
     DEF CommitBootstrap, Founded, call, RoleChangesAddNobody, IInv, TypeOK,
         OtherWrites
<1>3. ASSUME NEW b \in Boot, BootstrapFails(b)
      PROVE  RoleChangesAddNobody
  BY <1>3
     DEF BootstrapFails, tables, call, RoleChangesAddNobody, IInv, TypeOK,
         OtherWrites
<1>4. ASSUME NEW c \in Call, NEW u \in User, NEW o \in Organization, Arrive(c, u, o)
      PROVE  RoleChangesAddNobody
  BY <1>4 DEF Arrive, tables, RoleChangesAddNobody, IInv, TypeOK, OtherWrites
<1>5. ASSUME NEW c \in Call, Authorize(c)
      PROVE  RoleChangesAddNobody
  BY <1>5
     DEF Authorize, Membership, tables, RoleChangesAddNobody, IInv, TypeOK,
         OtherWrites
<1>6. ASSUME NEW c \in Call, End(c)
      PROVE  RoleChangesAddNobody
  BY <1>6 DEF End, tables, call, RoleChangesAddNobody, IInv, TypeOK, OtherWrites
<1>7. ASSUME NEW c \in Call, NEW p \in Project, CreateProject(c, p)
      PROVE  RoleChangesAddNobody
  BY <1>7
     DEF CreateProject, WriteStatus, Wrote, Granted, call, RoleChangesAddNobody,
         IInv, TypeOK, OtherWrites
<1>8. ASSUME NEW c \in Call, NEW p \in Project, NEW s \in {"active", "suspended", "deleted"},
             UpdateProject(c, p, s)
      PROVE  RoleChangesAddNobody
  BY <1>8
     DEF UpdateProject, WriteStatus, Wrote, Granted, call, RoleChangesAddNobody,
         IInv, TypeOK, OtherWrites
<1>9. ASSUME NEW c \in Call, NEW p \in Project, SoftDeleteProject(c, p)
      PROVE  RoleChangesAddNobody
  BY <1>9
     DEF SoftDeleteProject, WriteStatus, Wrote, Granted, call,
         RoleChangesAddNobody, IInv, TypeOK, OtherWrites
<1>10. ASSUME NEW c \in Call, NEW p \in Project, ReadProject(c, p)
      PROVE  RoleChangesAddNobody
  BY <1>10
     DEF ReadProject, VisibleProjects, Granted, tables, RoleChangesAddNobody,
         IInv, TypeOK, OtherWrites
<1>11. ASSUME NEW c \in Call, NEW h \in Hostname, CreateDomain(c, h)
      PROVE  RoleChangesAddNobody
  BY <1>11
     DEF CreateDomain, Wrote, call, RoleChangesAddNobody, IInv, TypeOK,
         OtherWrites
<1>12. ASSUME NEW c \in Call, CreateApiKey(c)
      PROVE  RoleChangesAddNobody
  BY <1>12
     DEF CreateApiKey, Wrote, call, tables, RoleChangesAddNobody, IInv, TypeOK,
         OtherWrites
<1>13. ASSUME NEW c \in Call, NEW permission \in OtherWrites,
              WriteOther(c, permission)
      PROVE  RoleChangesAddNobody
  BY <1>13
     DEF WriteOther, Wrote, Granted, call, tables, RoleChangesAddNobody, IInv,
         TypeOK, OtherWrites
<1>14. ASSUME NEW c \in Call, NEW u \in User, NEW r \in InvitationRoles,
              CreateInvitation(c, u, r)
      PROVE  RoleChangesAddNobody
  BY <1>14
     DEF CreateInvitation, Wrote, Granted, call, RoleChangesAddNobody, IInv,
         TypeOK, OtherWrites
<1>15. ASSUME NEW c \in Call, NEW u \in User, ReadMember(c, u)
      PROVE  RoleChangesAddNobody
  BY <1>15
     DEF ReadMember, ChangeableMembers, Members, Granted, tables,
         RoleChangesAddNobody, IInv, TypeOK, OtherWrites
<1>16. ASSUME NEW c \in Call, ReadMemberAgain(c)
      PROVE  RoleChangesAddNobody
  BY <1>16
     DEF ReadMemberAgain, call, tables, RoleChangesAddNobody, IInv, TypeOK,
         OtherWrites
<1>17. ASSUME NEW c \in Call, NEW r \in InvitationRoles, UpdateMemberRole(c, r)
      PROVE  RoleChangesAddNobody
  <2>1. in[c] \in Organization /\ about[c] \in User
    BY <1>17 DEF UpdateMemberRole, NamedUsersExist, IInv, TypeOK
  <2> QED
    BY <1>17, <2>1 DEF UpdateMemberRole, Members, RoleChangesAddNobody, IInv, TypeOK
<1>18. ASSUME NEW c \in Call, RemoveMember(c)
      PROVE  RoleChangesAddNobody
  BY <1>18
     DEF RemoveMember, Wrote, call, RoleChangesAddNobody, IInv, TypeOK,
         OtherWrites
<1>19. ASSUME NEW u \in User, NEW o \in Organization, NEW r \in InvitationRoles,
              Join(u, o, r)
      PROVE  RoleChangesAddNobody
  BY <1>19
     DEF Join, Holding, Members, call, InvitationRoles, RoleChangesAddNobody,
         IInv, TypeOK, OtherWrites
<1>20. CASE UNCHANGED vars
  BY <1>20 DEF vars, tables, call, RoleChangesAddNobody, IInv, TypeOK, OtherWrites
<1>21. QED
  BY <1>1, <1>2, <1>3, <1>4, <1>5, <1>6, <1>7, <1>8, <1>9, <1>10, <1>11, <1>12,
     <1>13, <1>14, <1>15, <1>16, <1>17, <1>18, <1>19, <1>20
     DEF Next

\* Nobody is there and no call is in flight.
LEMMA Initially == Init => IInv
<1> SUFFICES ASSUME Init
             PROVE  IInv
  OBVIOUS
<1>1. TypeOK
  BY DEF Init, Idle, TypeOK
<1>2. NamedUsersExist /\ GrantsHeld /\ ReadProjectsLived
  BY CallStates DEF Init, NamedUsersExist, GrantsHeld, ReadProjectsLived
<1>3. OneOwnerEach
  BY DEF Init, OneOwnerEach
<1> QED
  BY <1>1, <1>2, <1>3 DEF IInv

\* The parts are kept together: each needs the others in the state before.
LEMMA Inductive == Spec => []IInv
<1>1. IInv /\ [Next]_vars => IInv'
  BY TypeStep, NamedStep, OwnerStep, GrantStep, LivedStep DEF IInv
<1> QED
  BY <1>1, Initially, PTL DEF Spec

\* The tables, the calls and the bootstraps always have their shape.
THEOREM TypeCorrect == Spec => []TypeOK
<1>1. IInv => TypeOK
  BY DEF IInv
<1> QED
  BY <1>1, Inductive, PTL

\* Every organization keeps the one owner that its bootstrap gave it, whatever
\* bootstraps and calls run at the same time (organizations.ts refuses to
\* change or remove an owner, on a read made before the write).
THEOREM OwnersStay == Spec => []OneOwnerEach
<1>1. IInv => OneOwnerEach
  BY DEF IInv
<1> QED
  BY <1>1, Inductive, PTL

\* What a call writes, its user was allowed to write there since it began
\* (requireOrganizationPermission reads the membership in every request).
THEOREM AuthorityIsFresh == Spec => []NoStaleAuthority
<1>1. IInv => NoStaleAuthority
  BY CallStates DEF IInv, GrantsHeld, NoStaleAuthority
<1> QED
  BY <1>1, Inductive, PTL

\* A project deleted before a call began gets no domain and no key from it
\* (getProjectForOrganization leaves the deleted ones out).
THEOREM DeletedStayEmpty == Spec => []DeletedProjectsGainNothing
<1>1. IInv => DeletedProjectsGainNothing
  BY DEF IInv, ReadProjectsLived, DeletedProjectsGainNothing
<1> QED
  BY <1>1, Inductive, PTL

\* A call that changes the role of a member who has been removed meanwhile
\* does not bring him back (updateMemberRole writes with an UPDATE that then
\* finds no row).
THEOREM NobodyComesBack == Spec => CallsAddNobody
<1>1. IInv /\ [Next]_vars => RoleChangesAddNobody
  BY ChangeStep
<1> QED
  BY <1>1, Inductive, PTL DEF Spec, CallsAddNobody, RoleChangesAddNobody

-----------------------------------------------------------------------------
(* Listing *)

\* The type invariant of Listing.
ListingTypeOK ==
    /\ list \in {"by_id", "by_time"}
    /\ now \in Nat
    /\ DOMAIN createdAt \subseteq Row
    /\ createdAt \in [DOMAIN createdAt -> Nat]
    /\ stored \subseteq DOMAIN createdAt
    /\ cursor \in {Start, Exhausted} \cup [at : {"row"}, id : Row, time : Nat]
    /\ listed \in [Row -> Nat]
    /\ last \subseteq DOMAIN createdAt
    /\ steady \subseteq Row

\* A row that a reader of the audit events never meets: it comes after the
\* last row of a page and shares its millisecond.
Skipped(r) ==
    /\ list = "by_time"
    /\ \E q \in last : /\ Before(q, r)
                       /\ Millisecond(createdAt[q]) = Millisecond(createdAt[r])

\* A row that a later page can still show.
Ahead(r) == cursor.at = "row" /\ Passed(cursor, r)

\* The cursor divides the rows: what was listed is behind it, and a row that
\* stays and was not listed is ahead of it, or will be skipped.
ListedOnce == \A r \in Row : listed[r] =< 1

NothingListedYet == cursor = Start => \A r \in Row : listed[r] = 0

ListedIsBehind ==
    \A r \in Row : listed[r] > 0 => r \in DOMAIN createdAt /\ ~Ahead(r)

SteadyIsStored == cursor # Start => steady \subseteq stored

SteadyIsMet ==
    cursor # Start => \A r \in steady : listed[r] = 0 => Skipped(r) \/ Ahead(r)

ListingInv ==
    /\ ListingTypeOK
    /\ ListedOnce
    /\ NothingListedYet
    /\ ListedIsBehind
    /\ SteadyIsStored
    /\ SteadyIsMet
-----------------------------------------------------------------------------
\* The rows of a list are in a strict total order.
LEMMA BeforeIsAnOrder ==
    ASSUME ListingTypeOK,
           NEW p \in DOMAIN createdAt, NEW q \in DOMAIN createdAt, NEW r \in DOMAIN createdAt
    PROVE  /\ ~Before(p, p)
           /\ Before(p, q) /\ Before(q, r) => Before(p, r)
           /\ p # q => Before(p, q) \/ Before(q, p)
<1>1. p \in Nat /\ q \in Nat /\ r \in Nat
  BY ListingAssumption DEF ListingTypeOK
<1>2. createdAt[p] \in Nat /\ createdAt[q] \in Nat /\ createdAt[r] \in Nat
  BY DEF ListingTypeOK
<1>3. QED
  BY <1>1, <1>2 DEF Before

\* Numbering rows by how many come before them leaves no gaps: the row that a
\* page ends with exists.
LEMMA PlacesAreFilled ==
    ASSUME ListingTypeOK, NEW S \in SUBSET DOMAIN createdAt
    PROVE  /\ IsFiniteSet(S)
           /\ Cardinality(S) \in Nat
           /\ \A r \in S : Place(S, r) \in Nat /\ Place(S, r) < Cardinality(S)
           /\ \A r, q \in S : Before(r, q) => Place(S, r) < Place(S, q)
           /\ \A k \in Nat : k < Cardinality(S) => /\ RowAt(S, k) \in S
                                                   /\ Place(S, RowAt(S, k)) = k
<1> DEFINE Above(r) == {q \in S : Before(q, r)}
<1>1. IsFiniteSet(S) /\ Cardinality(S) \in Nat
  BY ListingAssumption, FS_Subset, FS_CardinalityType DEF ListingTypeOK
<1>2. \A r \in S : Above(r) \in SUBSET S /\ r \notin Above(r)
  BY BeforeIsAnOrder
<1>3. \A r \in S : IsFiniteSet(Above(r)) /\ Place(S, r) = Cardinality(Above(r))
  BY <1>1, FS_Subset DEF Place
<1>4. ASSUME NEW r \in S
      PROVE  Place(S, r) \in Nat /\ Place(S, r) < Cardinality(S)
  <2>1. Above(r) # S
    BY <1>2
  <2> HIDE DEF Above
  <2>2. Cardinality(Above(r)) \in Nat
    BY <1>3, FS_CardinalityType
  <2>3. Cardinality(Above(r)) =< Cardinality(S) /\ Cardinality(Above(r)) # Cardinality(S)
    BY <1>1, <1>2, <2>1, FS_Subset
  <2>4. QED
    BY <1>1, <1>3, <2>2, <2>3
<1>5. ASSUME NEW r \in S, NEW q \in S, Before(r, q)
      PROVE  Place(S, r) < Place(S, q)
  <2>1. Above(r) \in SUBSET Above(q)
    BY <1>5, BeforeIsAnOrder
  <2>2. r \in Above(q) /\ r \notin Above(r)
    BY <1>2, <1>5
  <2> HIDE DEF Above
  <2>3. Cardinality(Above(r)) =< Cardinality(Above(q)) /\ Cardinality(Above(r)) # Cardinality(Above(q))
    BY <1>3, <2>1, <2>2, FS_Subset
  <2>4. QED
    BY <1>3, <1>4, <2>3
<1>6. ASSUME NEW k \in Nat, k < Cardinality(S)
      PROVE  RowAt(S, k) \in S /\ Place(S, RowAt(S, k)) = k
  <2> DEFINE T == 0 .. (Cardinality(S) - 1)
             place == [r \in S |-> Place(S, r)]
  <2>1. IsFiniteSet(T) /\ Cardinality(T) = Cardinality(S)
    BY <1>1, FS_Interval
  <2>2. place \in [S -> T]
    BY <1>1, <1>4
  <2>3. \A r, q \in S : place[r] = place[q] => r = q
    <3>1. SUFFICES ASSUME NEW r \in S, NEW q \in S, r # q
                   PROVE  Place(S, r) # Place(S, q)
      OBVIOUS
    <3>2. Before(r, q) \/ Before(q, r)
      BY <3>1, BeforeIsAnOrder
    <3>3. QED
      BY <1>4, <1>5, <3>2
  <2>4. place \in Injection(S, T)
    BY <2>2, <2>3 DEF Injection, IsInjective
  <2>5. place \in Surjection(S, T)
    BY <1>1, <2>1, <2>4, FS_Injection
  <2>6. \E r \in S : Place(S, r) = k
    <3>1. k \in T
      BY <1>1, <1>6
    <3>2. PICK r \in S : place[r] = k
      BY <2>5, <3>1 DEF Surjection
    <3>3. QED
      BY <3>2
  <2>7. QED
    BY <2>6 DEF RowAt
<1>7. QED
  BY <1>1, <1>4, <1>5, <1>6
-----------------------------------------------------------------------------
\* A cursor's time is not later than its row, and rows between the two share
\* the row's millisecond.
LEMMA MillisecondBelow ==
    ASSUME NEW t \in Nat
    PROVE  Millisecond(t) \in Nat /\ Millisecond(t) =< t
<1>1. PICK p \in Nat \ {0} : p = PerMillisecond
  BY ListingAssumption
<1>2. t \div p \in Nat /\ (t \div p) * p =< t
  OBVIOUS
<1>3. QED
  BY <1>1, <1>2 DEF Millisecond

\* ... which is to say that they round to the same time.
LEMMA MillisecondBetween ==
    ASSUME NEW t \in Nat, NEW u \in Nat, u =< t, Millisecond(t) =< u
    PROVE  Millisecond(u) = Millisecond(t)
<1>1. PICK p \in Nat \ {0} : p = PerMillisecond
  BY ListingAssumption
<1>2. PICK d \in Nat : d = t \div p
  OBVIOUS
<1>3. PICK e \in Nat : e = u \div p
  OBVIOUS
<1>4. d * p =< u /\ d * p =< t
  BY <1>1, <1>2, MillisecondBelow DEF Millisecond
<1>5. e * p =< u /\ u < (e + 1) * p
  BY <1>3
<1>6. t < (d + 1) * p
  BY <1>2
<1>7. d < e + 1 /\ e < d + 1
  BY <1>4, <1>5, <1>6
<1>8. QED
  BY <1>1, <1>2, <1>3, <1>7 DEF Millisecond

\* What the cursor of a row says of the others.
LEMMA CursorSplits ==
    ASSUME ListingTypeOK, NEW q \in DOMAIN createdAt, NEW r \in DOMAIN createdAt
    PROVE  /\ q = r \/ Before(r, q) => ~Passed(CursorAt(q), r)
           /\ Before(q, r) => \/ Passed(CursorAt(q), r)
                              \/ /\ list = "by_time"
                                 /\ Millisecond(createdAt[q]) = Millisecond(createdAt[r])
           /\ cursor.at = "row" /\ Passed(cursor, q) /\ Passed(CursorAt(q), r)
                => Passed(cursor, r)
<1>1. q \in Nat /\ r \in Nat /\ createdAt[q] \in Nat /\ createdAt[r] \in Nat
  BY ListingAssumption DEF ListingTypeOK
<1>2. /\ CursorAt(q).id = q /\ CursorAt(q).time = Millisecond(createdAt[q])
      /\ Millisecond(createdAt[q]) \in Nat /\ Millisecond(createdAt[q]) =< createdAt[q]
  BY <1>1, MillisecondBelow DEF CursorAt
<1>3. createdAt[r] =< createdAt[q] /\ Millisecond(createdAt[q]) =< createdAt[r]
        => Millisecond(createdAt[r]) = Millisecond(createdAt[q])
  BY <1>1, MillisecondBetween
<1>4. cursor.at = "row" => cursor.id \in Nat /\ cursor.time \in Nat
  BY ListingAssumption DEF ListingTypeOK, Start, Exhausted
<1>5. list \in {"by_id", "by_time"}
  BY DEF ListingTypeOK
<1>6. q = r \/ Before(r, q) => ~Passed(CursorAt(q), r)
  BY <1>1, <1>2, <1>5 DEF Before, Passed
<1>7. Before(q, r) => \/ Passed(CursorAt(q), r)
                     \/ /\ list = "by_time"
                        /\ Millisecond(createdAt[q]) = Millisecond(createdAt[r])
  BY <1>1, <1>2, <1>3, <1>5 DEF Before, Passed
<1>8. cursor.at = "row" /\ Passed(cursor, q) /\ Passed(CursorAt(q), r) => Passed(cursor, r)
  BY <1>1, <1>2, <1>4, <1>5 DEF Passed
<1>9. QED
  BY <1>6, <1>7, <1>8

\* What a page shows of the rows it selects: all of them, or those up to the
\* row that its cursor names.
LEMMA PageSplits ==
    ASSUME ListingTypeOK, NEW S \in SUBSET DOMAIN createdAt, NEW n \in Limit
    PROVE  /\ Cardinality(S) =< n => Shown(S, n) = S /\ Rest(S, n) = Exhausted
           /\ Cardinality(S) > n =>
                \E q \in S : /\ q = RowAt(S, n - 1)
                             /\ Rest(S, n) = CursorAt(q)
                             /\ \A r \in S : IF r = q \/ Before(r, q) THEN r \in Shown(S, n)
                                            ELSE r \notin Shown(S, n) /\ Before(q, r)
<1>1. n \in Nat /\ n > 0 /\ n - 1 \in Nat
  BY ListingAssumption
<1>2. /\ Cardinality(S) \in Nat
      /\ \A r \in S : Place(S, r) \in Nat /\ Place(S, r) < Cardinality(S)
      /\ \A r, q \in S : Before(r, q) => Place(S, r) < Place(S, q)
      /\ \A k \in Nat : k < Cardinality(S) => /\ RowAt(S, k) \in S
                                              /\ Place(S, RowAt(S, k)) = k
  BY PlacesAreFilled
<1>3. CASE Cardinality(S) =< n
  BY <1>1, <1>2, <1>3 DEF Shown, Rest
<1>4. CASE Cardinality(S) > n
  <2>1. PICK q \in S : q = RowAt(S, n - 1) /\ Place(S, q) = n - 1
    BY <1>1, <1>2, <1>4
  <2>2. Rest(S, n) = CursorAt(q)
    BY <1>1, <1>2, <1>4, <2>1 DEF Rest
  <2>3. ASSUME NEW r \in S
        PROVE  IF r = q \/ Before(r, q) THEN r \in Shown(S, n)
               ELSE r \notin Shown(S, n) /\ Before(q, r)
    <3>1. r = q \/ Before(r, q) => Place(S, r) =< Place(S, q)
      BY <1>2, <2>1
    <3>2. Before(q, r) => Place(S, q) < Place(S, r)
      BY <1>2
    <3>3. r = q \/ Before(r, q) \/ Before(q, r)
      BY BeforeIsAnOrder
    <3>4. r \in Shown(S, n) <=> Place(S, r) =< n - 1
      BY <1>1, <1>2 DEF Shown
    <3>5. QED
      BY <1>1, <1>2, <2>1, <3>1, <3>2, <3>3, <3>4
  <2>4. QED
    BY <1>1, <1>2, <1>4, <2>1, <2>2, <2>3
<1>5. QED
  BY <1>1, <1>2, <1>3, <1>4
-----------------------------------------------------------------------------
\* A row that begins changes nothing that the reader has seen.
LEMMA BeginKeepsListing ==
    ASSUME ListingInv, NEW b \in Row, Begin(b)
    PROVE  ListingInv'
<1> USE DEF ListingInv, Begin
<1>1. ListingTypeOK'
  BY DEF ListingTypeOK
<1>2. /\ DOMAIN createdAt \subseteq DOMAIN createdAt'
      /\ \A r \in DOMAIN createdAt : createdAt'[r] = createdAt[r]
  OBVIOUS
<1>3. \A r \in DOMAIN createdAt : Ahead(r)' = Ahead(r)
  BY <1>2 DEF Ahead, Passed
<1>4. \A r \in DOMAIN createdAt : Skipped(r) => Skipped(r)'
  BY <1>2 DEF Skipped, Before, Millisecond, ListingTypeOK
<1>5. (ListedOnce /\ NothingListedYet /\ SteadyIsStored)'
  BY DEF ListedOnce, NothingListedYet, SteadyIsStored
<1>6. ListedIsBehind'
  BY <1>2, <1>3 DEF ListedIsBehind
<1>7. SteadyIsMet'
  <2>1. cursor # Start => steady \subseteq DOMAIN createdAt
    BY DEF SteadyIsStored, ListingTypeOK
  <2>2. QED
    BY <1>3, <1>4, <2>1 DEF SteadyIsMet
<1>8. QED
  BY <1>1, <1>5, <1>6, <1>7

\* Neither do the other writers and the clock.
LEMMA WritersKeepListing ==
    ASSUME ListingInv,
           Tick \/ UNCHANGED listingVars \/ \E b \in Row : Commit(b) \/ Vanish(b)
    PROVE  ListingInv'
<1> USE DEF ListingInv, Commit, Vanish, Tick, listingVars
<1>1. /\ UNCHANGED <<list, createdAt, cursor, listed, last>>
      /\ now' \in Nat /\ steady' \subseteq steady
      /\ stored' \subseteq DOMAIN createdAt
      /\ steady \subseteq stored => steady' \subseteq stored'
  BY DEF ListingTypeOK
<1>2. ListingTypeOK'
  BY <1>1 DEF ListingTypeOK
<1>3. \A r \in Row : Ahead(r)' = Ahead(r) /\ Skipped(r)' = Skipped(r)
  BY <1>1 DEF Ahead, Passed, Skipped, Before, Millisecond
<1>4. (ListedOnce /\ NothingListedYet /\ SteadyIsStored)'
  BY <1>1 DEF ListedOnce, NothingListedYet, SteadyIsStored
<1>5. (ListedIsBehind /\ SteadyIsMet)'
  BY <1>1, <1>3 DEF ListedIsBehind, SteadyIsMet, ListingTypeOK
<1>6. QED
  BY <1>2, <1>4, <1>5

\* A page shows rows that were ahead, and leaves them behind.
LEMMA ReadPageKeepsListing ==
    ASSUME ListingInv, NEW n \in Limit, ReadPage(n)
    PROVE  ListingInv'
<1> DEFINE W == Wanted(cursor)
<1> USE DEF ListingInv
<1>1. W \in SUBSET DOMAIN createdAt
  BY DEF Wanted, ListingTypeOK
<1>2. /\ UNCHANGED <<list, now, createdAt, stored>>
      /\ cursor # Exhausted
      /\ cursor' = Rest(W, n)
      /\ listed' = [r \in Row |-> IF r \in Shown(W, n) THEN listed[r] + 1 ELSE listed[r]]
      /\ last' = IF Cardinality(W) > n THEN last \cup {RowAt(W, n - 1)} ELSE last
      /\ steady' = IF cursor = Start THEN stored ELSE steady
  BY DEF ReadPage
<1>3. /\ Cardinality(W) =< n => Shown(W, n) = W /\ Rest(W, n) = Exhausted
      /\ Cardinality(W) > n =>
           \E q \in W : /\ q = RowAt(W, n - 1)
                        /\ Rest(W, n) = CursorAt(q)
                        /\ \A r \in W : IF r = q \/ Before(r, q) THEN r \in Shown(W, n)
                                       ELSE r \notin Shown(W, n) /\ Before(q, r)
  BY <1>1, PageSplits
<1>4. Cardinality(W) \in Nat /\ n \in Nat
  BY <1>1, PlacesAreFilled, ListingAssumption
<1>5. Shown(W, n) \subseteq W /\ DOMAIN createdAt \subseteq Row
  BY DEF Shown, ListingTypeOK
<1>6. \A r \in W : listed[r] = 0 /\ r \in stored
  <2>1. cursor = Start \/ cursor.at = "row"
    BY <1>2 DEF ListingTypeOK
  <2>2. listed \in [Row -> Nat]
    BY DEF ListingTypeOK
  <2>3. QED
    BY <1>1, <1>5, <2>1, <2>2 DEF Wanted, NothingListedYet, ListedIsBehind, Ahead
<1>7. \A r \in Row : listed[r] \in Nat /\ listed'[r] = IF r \in Shown(W, n) THEN 1 ELSE listed[r]
  BY <1>2, <1>5, <1>6 DEF ListingTypeOK
<1>8. steady' \subseteq stored
  BY <1>2 DEF SteadyIsStored
<1>9. \A r \in steady' : listed[r] = 0 => Skipped(r) \/ r \in W
  BY <1>2, <1>8 DEF SteadyIsMet, SteadyIsStored, Wanted, Ahead, Start
<1>10. last \subseteq last'
  BY <1>2
<1>11. \A r \in Row : Skipped(r) => Skipped(r)'
  BY <1>2, <1>10 DEF Skipped, Before, Millisecond
<1> HIDE DEF W
<1>12. ASSUME Cardinality(W) =< n
       PROVE  ListingInv'
  <2>1. cursor' = Exhausted /\ Shown(W, n) = W /\ last' = last
    BY <1>2, <1>3, <1>4, <1>12
  <2>2. ListingTypeOK'
    BY <1>2, <1>5, <1>7, <1>8, <2>1 DEF ListingTypeOK
  <2>3. (ListedOnce /\ NothingListedYet /\ SteadyIsStored)'
    BY <1>2, <1>7, <1>8, <2>1
       DEF ListedOnce, NothingListedYet, SteadyIsStored, Start, Exhausted
  <2>4. ListedIsBehind'
    BY <1>1, <1>2, <1>7, <2>1 DEF ListedIsBehind, Ahead, Exhausted
  <2>5. SteadyIsMet'
    BY <1>5, <1>7, <1>8, <1>9, <1>11, <2>1 DEF SteadyIsMet, ListingTypeOK
  <2>6. QED
    BY <2>2, <2>3, <2>4, <2>5
<1>13. ASSUME Cardinality(W) > n
       PROVE  ListingInv'
  <2>1. PICK q \in W : /\ q = RowAt(W, n - 1)
                       /\ Rest(W, n) = CursorAt(q)
                       /\ \A r \in W : IF r = q \/ Before(r, q) THEN r \in Shown(W, n)
                                      ELSE r \notin Shown(W, n) /\ Before(q, r)
    BY <1>3, <1>13
  <2>2. q \in DOMAIN createdAt /\ q \in Row
    BY <1>1, <1>5
  <2>3. cursor' = CursorAt(q) /\ last' = last \cup {q}
    BY <1>2, <1>13, <2>1
  <2>4. cursor' \in [at : {"row"}, id : Row, time : Nat]
    BY <2>2, <2>3, MillisecondBelow DEF CursorAt, ListingTypeOK
  <2>5. cursor'.at = "row" /\ cursor' # Start
    BY <2>3 DEF CursorAt, Start
  <2>6. \A r \in Row : Ahead(r)' <=> Passed(CursorAt(q), r)
    BY <1>2, <2>3, <2>5 DEF Ahead, Passed
  <2>7. ListingTypeOK'
    BY <1>2, <1>5, <1>7, <1>8, <2>2, <2>3, <2>4 DEF ListingTypeOK
  <2>8. (ListedOnce /\ NothingListedYet /\ SteadyIsStored)'
    BY <1>2, <1>7, <1>8, <2>5 DEF ListedOnce, NothingListedYet, SteadyIsStored
  <2>9. ListedIsBehind'
    <3>1. SUFFICES ASSUME NEW r \in Row, listed'[r] > 0
                   PROVE  r \in DOMAIN createdAt /\ ~Passed(CursorAt(q), r)
      BY <1>2, <2>6 DEF ListedIsBehind
    <3>2. CASE r \in Shown(W, n)
      <4>1. r \in W /\ (r = q \/ Before(r, q))
        BY <1>5, <2>1, <3>2
      <4>2. QED
        BY <1>1, <2>2, <4>1, CursorSplits
    <3>3. CASE r \notin Shown(W, n)
      <4>1. listed[r] > 0
        BY <1>7, <3>1, <3>3
      <4>2. r \in DOMAIN createdAt /\ ~Ahead(r)
        BY <4>1 DEF ListedIsBehind
      <4>3. cursor.at = "row" /\ Passed(cursor, q)
        BY <1>2, <2>1, <4>1 DEF W, Wanted, NothingListedYet, ListingTypeOK
      <4>4. QED
        BY <2>2, <4>2, <4>3, CursorSplits DEF Ahead
    <3>4. QED
      BY <3>2, <3>3
  <2>10. SteadyIsMet'
    <3>1. SUFFICES ASSUME NEW r \in steady', listed'[r] = 0
                   PROVE  Skipped(r)' \/ Passed(CursorAt(q), r)
      BY <2>6, <2>7 DEF SteadyIsMet, ListingTypeOK
    <3>2. r \in Row /\ r \in DOMAIN createdAt
      BY <1>5, <1>8 DEF ListingTypeOK
    <3>3. listed[r] = 0 /\ r \notin Shown(W, n)
      BY <1>7, <3>1, <3>2
    <3>4. CASE Skipped(r)
      BY <1>11, <3>2, <3>4
    <3>5. CASE r \in W
      <4>1. Before(q, r)
        BY <2>1, <3>3, <3>5
      <4>2. CASE Passed(CursorAt(q), r)
        BY <4>2
      <4>3. CASE /\ list = "by_time"
                 /\ Millisecond(createdAt[q]) = Millisecond(createdAt[r])
        <5>1. q \in last' /\ Before(q, r)' /\ list' = "by_time"
          BY <1>2, <2>3, <4>1, <4>3 DEF Before
        <5>2. Millisecond(createdAt'[q]) = Millisecond(createdAt'[r])
          BY <1>2, <4>3
        <5>3. QED
          BY <5>1, <5>2 DEF Skipped, Millisecond
      <4>4. QED
        BY <2>2, <3>2, <4>1, <4>2, <4>3, CursorSplits
    <3>6. QED
      BY <1>9, <3>3, <3>4, <3>5
  <2>11. QED
    BY <2>7, <2>8, <2>9, <2>10
<1>14. QED
  BY <1>4, <1>12, <1>13

\* The invariant of Listing, from its initial states and each of its steps.
LEMMA ListingInvariant == ListingSpec => []ListingInv
<1>1. ListingInit => ListingInv
  <2> SUFFICES ASSUME ListingInit PROVE ListingInv
    OBVIOUS
  <2>1. ListingTypeOK
    BY DEF ListingInit, ListingTypeOK
  <2>2. QED
    BY <2>1 DEF ListingInit, ListingInv, ListedOnce, NothingListedYet, ListedIsBehind,
                SteadyIsStored, SteadyIsMet
<1>2. ListingInv /\ [ListingNext]_listingVars => ListingInv'
  BY BeginKeepsListing, WritersKeepListing, ReadPageKeepsListing DEF ListingNext
<1>3. QED
  BY <1>1, <1>2, PTL DEF ListingSpec

\* Whatever the rows, the page sizes and the writers, no reader meets a row
\* twice: what was listed is behind the cursor, and pages take what is ahead
\* (the conditions of listProjectsForOrganization and its like on the cursor).
THEOREM ListedAtMostOnce == ListingSpec => []NothingListedTwice
<1>1. ListingInv => NothingListedTwice
  BY DEF ListingInv, ListedOnce, NothingListedTwice
<1>2. QED
  BY <1>1, ListingInvariant, PTL

\* At the end of a list nothing is ahead of the cursor, so that a row which was
\* there all the time has been listed; only audit events that share their
\* millisecond with the last one of a page, and come after it, are missed.
THEOREM SteadyRowsAreListed == ListingSpec => []SteadyRowsListed
<1>1. ListingInv => SteadyRowsListed
  <2>1. cursor = Exhausted => cursor # Start /\ cursor.at # "row"
    BY DEF Exhausted, Start
  <2>2. QED
    BY <2>1 DEF ListingInv, SteadyIsMet, Ahead, Skipped, SteadyRowsListed
<1>2. QED
  BY <1>1, ListingInvariant, PTL

\* A page that is not the last ends with a row that the cursor before it let
\* pass and its own does not; what its own lets pass, the one before did.
LEMMA PageAdvances ==
    ASSUME ListingInv, NEW n \in Limit, ReadPage(n), cursor' # Exhausted
    PROVE  /\ InReach(cursor') \subseteq InReach(cursor)
           /\ InReach(cursor') # InReach(cursor)
<1> DEFINE W == Wanted(cursor)
<1>1. W \in SUBSET DOMAIN createdAt /\ ListingTypeOK
  BY DEF Wanted, ListingInv, ListingTypeOK
<1>2. cursor # Exhausted /\ cursor' = Rest(W, n)
  BY DEF ReadPage
<1>3. Cardinality(W) \in Nat /\ n \in Nat
  BY <1>1, PlacesAreFilled, ListingAssumption
<1>4. PICK q \in W : cursor' = CursorAt(q)
  <2>1. Cardinality(W) > n
    BY <1>1, <1>2, <1>3, PageSplits
  <2>2. QED
    BY <1>1, <1>2, <2>1, PageSplits
<1>5. q \in DOMAIN createdAt /\ (cursor.at = "row" => Passed(cursor, q))
  BY <1>1, <1>4 DEF Wanted
<1> HIDE DEF W
<1>6. CursorAt(q).at = "row"
  BY DEF CursorAt
<1>7. ASSUME NEW r \in InReach(cursor')
      PROVE  r \in InReach(cursor)
  <2>1. r \in DOMAIN createdAt /\ Passed(CursorAt(q), r)
    BY <1>4, <1>6, <1>7 DEF InReach
  <2>2. QED
    BY <1>1, <1>5, <2>1, CursorSplits DEF InReach
<1>8. q \in InReach(cursor)
  BY <1>5 DEF InReach
<1>9. q \notin InReach(cursor')
  BY <1>1, <1>4, <1>5, <1>6, CursorSplits DEF InReach
<1>10. QED
  BY <1>7, <1>8, <1>9

\* The pages of a list lead to its end, whatever their sizes and whatever is
\* written between them: each one but the last leaves fewer of the rows that
\* are there within reach (the cursors of tenant-repository.ts and
\* audit-service.ts).
THEOREM CursorsAdvance == ListingSpec => PagesAdvance
<1>1. ListingInv /\ [ListingNext]_listingVars =>
        [listed' # listed => \/ cursor' = Exhausted
                             \/ /\ InReach(cursor') \subseteq InReach(cursor)
                                /\ InReach(cursor') # InReach(cursor)]_listingVars
  <2> SUFFICES ASSUME ListingInv, [ListingNext]_listingVars,
                      listed' # listed, cursor' # Exhausted
               PROVE  /\ InReach(cursor') \subseteq InReach(cursor)
                      /\ InReach(cursor') # InReach(cursor)
    OBVIOUS
  <2>1. \E n \in Limit : ReadPage(n)
    BY DEF ListingNext, listingVars, Begin, Commit, Vanish, Tick
  <2>2. QED
    BY <2>1, PageAdvances
<1>2. QED
  BY <1>1, ListingInvariant, PTL DEF ListingSpec, PagesAdvance
=============================================================================
