------------------------------- MODULE Tenancy -------------------------------
(***************************************************************************)
(* The management routes of organizations (src/routes/organizations.ts):   *)
(* projects, domains, invitations and members, from the caller's role      *)
(* (src/auth) to the transaction that writes a row together with its audit *)
(* event (src/repositories/postgres/tenant-repository.ts); and the command *)
(* that creates the first owner (src/services/bootstrap-owner-service.ts). *)
(*                                                                         *)
(* A call reads the caller's role, then what it is about, and writes in a  *)
(* transaction of its own.  Statements see what was committed when they    *)
(* run.  A call is for any operation its role grants: what it is for       *)
(* becomes known when it has been let in.  One that is refused, whose      *)
(* input is not valid or that fails ends and has written nothing, no audit *)
(* event either; the events are not looked at any further.                 *)
(***************************************************************************)
EXTENDS Naturals, FiniteSets

CONSTANTS User, Organization, Project, Hostname,
          Boot,      \* runs of bootstrap-owner
          FounderOf, FoundedBy,   \* the user and the organization of each
          Invitable, \* pairs of a user and an organization that may invite him
          Call,      \* calls that may be in flight at the same time
          None       \* no project, no user, no organization

ASSUME TenancyAssumption ==
    /\ FounderOf \in [Boot -> User]
    /\ FoundedBy \in [Boot -> Organization]
    /\ Invitable \subseteq User \X Organization
    /\ None \notin Project \cup User \cup Organization

VARIABLES users,   \* rows of the table of users
          role,    \* of each user in each organization, or "none"
          status,  \* of each project, "none" before it exists
          owning,  \* the organization of each project
          domain,  \* the project that has each hostname, or None
          invited, \* invitations: the user, the organization and the role
          boot,    \* where each bootstrap is
          pc,      \* where each call is
          by, in,  \* the user it is from and the organization it is for
          grant,   \* the role that it was let in with
          about,   \* the project or the member that it has read
          held,    \* roles its user has had there since it began
          live     \* projects that were not deleted at some time since

tables == <<users, role, status, owning, domain, invited>>
call == <<by, in, grant, about>>
vars == <<tables, boot, pc, call, held, live>>

Roles == {"owner", "admin", "member"}

MemberPermissions == {"member.list", "project.read", "domain.read"}
AdminPermissions ==
    MemberPermissions \cup
    {"invitation.create.member", "invitation.create.admin", "invitation.cancel",
     "project.create", "project.update", "project.delete",
     "domain.create", "domain.verify", "domain.rotate_token",
     "sitemap.discover", "sitemap.fetch",
     "api_key.create", "api_key.revoke", "api_key.rotate", "audit.read"}
OwnerPermissions == AdminPermissions \cup {"member.role.change", "member.remove"}

\* roleHasPermission
Permissions(r) == CASE r = "owner"  -> OwnerPermissions
                    [] r = "admin"  -> AdminPermissions
                    [] r = "member" -> MemberPermissions

\* The writes among them that a call can end with.
Writes == OwnerPermissions \ {"member.list", "project.read", "domain.read", "audit.read"}

Undeleted == {p \in Project : status[p] \in {"active", "suspended"}}

Members(o) == {u \in User : role[o][u] # "none"}

Idle == [c \in Call |-> None]

Init ==
    /\ users = {}
    /\ role = [o \in Organization |-> [u \in User |-> "none"]]
    /\ status = [p \in Project |-> "none"]
    /\ owning = [p \in Project |-> None]
    /\ domain = [h \in Hostname |-> None]
    /\ invited = {}
    /\ boot = [b \in Boot |-> "new"]
    /\ pc = [c \in Call |-> "idle"]
    /\ by = Idle /\ in = Idle /\ grant = Idle /\ about = Idle
    /\ held = [c \in Call |-> {}]
    /\ live = [c \in Call |-> {}]

-----------------------------------------------------------------------------
(* Faulty variants of the definitions below: mistakes the code could have   *)
(* made, kept to check that the properties notice them.                     *)

\* The membership is searched by its user alone.
MembershipOfUser(c) == {role[o][by[c]] : o \in Organization} \ {"none"}

\* The first read does not look at the project's status.
ProjectsOf(o) == {p \in Project : owning[p] = o}

\* Every member may be changed or removed.
AnyMember(o) == Members(o)

\* The role is written as an upsert.
UpsertMemberRole(c, r) ==
    /\ pc[c] = "member_known"
    /\ role' = [role EXCEPT ![in[c]][about[c]] = r]
    /\ pc' = [pc EXCEPT ![c] = "member.role.change"]
    /\ UNCHANGED <<users, status, owning, domain, invited, boot, call, held, live>>

-----------------------------------------------------------------------------
(* Bootstrap *)

\* The table of users is looked at before the transaction and in it.
LookForUsers(b) ==
    /\ boot[b] \in {"new", "checked"}
    /\ boot' = [boot EXCEPT ![b] = IF users # {} THEN "refused"
                                   ELSE IF boot[b] = "new" THEN "checked" ELSE "creating"]
    /\ UNCHANGED <<tables, pc, call, held, live>>

\* The addresses of users and the slugs of organizations are unique.
Founded(b) ==
    \/ FounderOf[b] \in users
    \/ \E d \in Boot : boot[d] = "done" /\ FoundedBy[d] = FoundedBy[b]

CommitBootstrap(b) ==
    /\ boot[b] = "creating"
    /\ ~Founded(b)
    /\ boot' = [boot EXCEPT ![b] = "done"]
    /\ users' = users \cup {FounderOf[b]}
    /\ role' = [role EXCEPT ![FoundedBy[b]][FounderOf[b]] = "owner"]
    /\ UNCHANGED <<status, owning, domain, invited, pc, call, held, live>>

\* A conflict, or another error: the user is rolled back too, and the command
\* may be run again.
BootstrapFails(b) ==
    /\ boot[b] = "creating"
    /\ boot' = [boot EXCEPT ![b] = "new"]
    /\ UNCHANGED <<tables, pc, call, held, live>>

-----------------------------------------------------------------------------
(* The caller: requireOrganizationPermission *)

\* requireSession names the user.
Arrive(c, u, o) ==
    /\ pc[c] = "idle"
    /\ u \in users
    /\ pc' = [pc EXCEPT ![c] = "asked"]
    /\ by' = [by EXCEPT ![c] = u]
    /\ in' = [in EXCEPT ![c] = o]
    /\ held' = [held EXCEPT ![c] = {role[o][u]} \cap Roles]
    /\ live' = [live EXCEPT ![c] = Undeleted]
    /\ UNCHANGED <<tables, boot, grant, about>>

Membership(c) == {role[in[c]][by[c]]} \ {"none"}

Authorize(c) ==
    /\ pc[c] = "asked"
    /\ \E r \in Membership(c) : grant' = [grant EXCEPT ![c] = r]
    /\ pc' = [pc EXCEPT ![c] = "granted"]
    /\ UNCHANGED <<tables, boot, by, in, about, held, live>>

Granted(c, permission) ==
    pc[c] = "granted" /\ permission \in Permissions(grant[c])

\* It was refused, is done or has failed.
End(c) ==
    /\ pc[c] # "idle"
    /\ pc' = [pc EXCEPT ![c] = "idle"]
    /\ by' = [by EXCEPT ![c] = None]
    /\ in' = [in EXCEPT ![c] = None]
    /\ grant' = [grant EXCEPT ![c] = None]
    /\ about' = [about EXCEPT ![c] = None]
    /\ held' = [held EXCEPT ![c] = {}]
    /\ live' = [live EXCEPT ![c] = {}]
    /\ UNCHANGED <<tables, boot>>

\* A transaction of the call has been committed.
Wrote(c, permission) ==
    /\ pc' = [pc EXCEPT ![c] = permission]
    /\ UNCHANGED <<boot, call>>

-----------------------------------------------------------------------------
(* Projects *)

WriteStatus(c, permission, p, s) ==
    /\ status' = [status EXCEPT ![p] = s]
    /\ live' = [d \in Call |-> IF pc[d] # "idle" /\ s # "deleted"
                               THEN live[d] \cup {p} ELSE live[d]]
    /\ Wrote(c, permission)
    /\ UNCHANGED <<users, role, domain, invited, held>>

CreateProject(c, p) ==
    /\ Granted(c, "project.create")
    /\ status[p] = "none"
    /\ owning' = [owning EXCEPT ![p] = in[c]]
    /\ WriteStatus(c, "project.create", p, "active")

\* Of the organization's projects the deleted ones can be updated, too.
UpdateProject(c, p, s) ==
    /\ Granted(c, "project.update")
    /\ owning[p] = in[c]
    /\ WriteStatus(c, "project.update", p, s)
    /\ UNCHANGED owning

SoftDeleteProject(c, p) ==
    /\ Granted(c, "project.delete")
    /\ owning[p] = in[c]
    /\ WriteStatus(c, "project.delete", p, "deleted")
    /\ UNCHANGED owning

-----------------------------------------------------------------------------
(* Domains and API keys of a project *)

\* getProjectForOrganization
VisibleProjects(o) == {p \in Undeleted : owning[p] = o}

ReadProject(c, p) ==
    /\ Granted(c, "domain.create") \/ Granted(c, "api_key.create")
    /\ p \in VisibleProjects(in[c])
    /\ pc' = [pc EXCEPT ![c] = "project_read"]
    /\ about' = [about EXCEPT ![c] = p]
    /\ UNCHANGED <<tables, boot, by, in, grant, held, live>>

\* The project has to be the organization's still, but not undeleted.
CreateDomain(c, h) ==
    /\ pc[c] = "project_read"
    /\ owning[about[c]] = in[c]
    /\ domain[h] = None
    /\ domain' = [domain EXCEPT ![h] = about[c]]
    /\ Wrote(c, "domain.create")
    /\ UNCHANGED <<users, role, status, owning, invited, held, live>>

\* createKey: the project is not looked at again.  ApiKeys has the keys.
CreateApiKey(c) ==
    /\ pc[c] = "project_read"
    /\ Wrote(c, "api_key.create")
    /\ UNCHANGED <<tables, held, live>>

-----------------------------------------------------------------------------
(* What other modules tell more about: keys, verifications and sitemaps, and *)
(* cancellations, which may come too late for an acceptance (Invitations).   *)

OtherWrites ==
    {"api_key.revoke", "api_key.rotate", "domain.verify", "domain.rotate_token",
     "sitemap.discover", "sitemap.fetch", "invitation.cancel"}

WriteOther(c, permission) ==
    /\ Granted(c, permission)
    /\ Wrote(c, permission)
    /\ UNCHANGED <<tables, held, live>>

-----------------------------------------------------------------------------
(* Members *)

InvitationRoles == {"admin", "member"}

\* The permission depends on the role that the invitation is for.
CreateInvitation(c, u, r) ==
    LET permission == IF r = "admin" THEN "invitation.create.admin"
                                     ELSE "invitation.create.member" IN
    /\ Granted(c, permission)
    /\ <<u, in[c]>> \in Invitable
    /\ invited' = invited \cup {<<u, in[c], r>>}
    /\ Wrote(c, permission)
    /\ UNCHANGED <<users, role, status, owning, domain, held, live>>

ChangeableMembers(o) == {u \in Members(o) : role[o][u] # "owner"}

\* The handler reads the member and his role, the repository reads him again.
ReadMember(c, u) ==
    /\ \/ Granted(c, "member.role.change")
       \/ Granted(c, "member.remove")
    /\ u \in ChangeableMembers(in[c])
    /\ pc' = [pc EXCEPT ![c] = "member_read"]
    /\ about' = [about EXCEPT ![c] = u]
    /\ UNCHANGED <<tables, boot, by, in, grant, held, live>>

ReadMemberAgain(c) ==
    /\ pc[c] = "member_read"
    /\ about[c] \in Members(in[c])
    /\ pc' = [pc EXCEPT ![c] = "member_known"]
    /\ UNCHANGED <<tables, boot, call, held, live>>

\* The calls in flight of the user have had the role.
Holding(o, u, r) ==
    held' = [d \in Call |-> IF by[d] = u /\ in[d] = o THEN held[d] \cup {r} ELSE held[d]]

\* Nothing is written when he is gone by now.
UpdateMemberRole(c, r) ==
    LET o == in[c]  u == about[c] IN
    /\ pc[c] = "member_known"
    /\ IF u \in Members(o)
       THEN role' = [role EXCEPT ![o][u] = r] /\ Holding(o, u, r)
       ELSE UNCHANGED <<role, held>>
    /\ Wrote(c, "member.role.change")
    /\ UNCHANGED <<users, status, owning, domain, invited, live>>

RemoveMember(c) ==
    /\ pc[c] = "member_known"
    /\ role' = [role EXCEPT ![in[c]][about[c]] = "none"]
    /\ Wrote(c, "member.remove")
    /\ UNCHANGED <<users, status, owning, domain, invited, held, live>>

\* An invitation is accepted (Invitations), the one of somebody who has been
\* removed too: whoever is a member stays what he is.
Join(u, o, r) ==
    /\ <<u, o, r>> \in invited
    /\ u \notin Members(o)
    /\ users' = users \cup {u}
    /\ role' = [role EXCEPT ![o][u] = r]
    /\ Holding(o, u, r)
    /\ UNCHANGED <<status, owning, domain, invited, boot, pc, call, live>>

-----------------------------------------------------------------------------

Next ==
    \/ \E b \in Boot : LookForUsers(b) \/ CommitBootstrap(b) \/ BootstrapFails(b)
    \/ \E c \in Call :
          \/ \E u \in User, o \in Organization : Arrive(c, u, o)
          \/ Authorize(c)
          \/ End(c)
          \/ \E p \in Project :
                \/ CreateProject(c, p)
                \/ \E s \in {"active", "suspended", "deleted"} : UpdateProject(c, p, s)
                \/ SoftDeleteProject(c, p)
                \/ ReadProject(c, p)
          \/ \E h \in Hostname : CreateDomain(c, h)
          \/ CreateApiKey(c)
          \/ \E permission \in OtherWrites : WriteOther(c, permission)
          \/ \E u \in User, r \in InvitationRoles : CreateInvitation(c, u, r)
          \/ \E u \in User : ReadMember(c, u)
          \/ ReadMemberAgain(c)
          \/ \E r \in InvitationRoles : UpdateMemberRole(c, r)
          \/ RemoveMember(c)
    \/ \E u \in User, o \in Organization, r \in InvitationRoles : Join(u, o, r)

Spec == Init /\ [][Next]_vars

-----------------------------------------------------------------------------
(* Properties *)

Underway == {"asked", "granted", "project_read", "member_read", "member_known"}

\* The shape of the tables, the calls and the bootstraps.
TypeOK ==
    /\ users \subseteq User
    /\ role \in [Organization -> [User -> Roles \cup {"none"}]]
    /\ status \in [Project -> {"none", "active", "suspended", "deleted"}]
    /\ owning \in [Project -> Organization \cup {None}]
    /\ domain \in [Hostname -> Project \cup {None}]
    /\ invited \subseteq User \X Organization \X InvitationRoles
    /\ boot \in [Boot -> {"new", "checked", "creating", "done", "refused"}]
    /\ pc \in [Call -> Underway \cup {"idle"} \cup Writes]
    /\ by \in [Call -> User \cup {None}]
    /\ in \in [Call -> Organization \cup {None}]
    /\ grant \in [Call -> Roles \cup {None}]
    /\ about \in [Call -> Project \cup User \cup {None}]
    /\ held \in [Call -> SUBSET Roles]
    /\ live \in [Call -> SUBSET Project]

\* What a call writes its user was allowed to write, in that organization and
\* at some time since the call began: a role that was taken away before is of
\* no use, nor is one in another organization.  (A comment in tenant-context
\* asks for it: a change takes effect on the very next request.)
NoStaleAuthority ==
    \A c \in Call : pc[c] \in Writes =>
        \E r \in held[c] : pc[c] \in Permissions(r)

\* A project that was deleted before a call began gets neither a domain nor a
\* key from it, however often it was deleted and restored in between.
DeletedProjectsGainNothing ==
    \A c \in Call : pc[c] \in {"domain.create", "api_key.create"} => about[c] \in live[c]

\* No call makes anybody a member, also when it changes the role of one who was
\* removed after it had read him.
CallsAddNobody ==
    [][(\E c \in Call : pc[c] = "member_known" /\ pc'[c] = "member.role.change")
         => \A o \in Organization : Members(o)' \subseteq Members(o)]_vars

\* Every organization has one owner, the one it was created with: neither a
\* second bootstrap nor calls that read a member's role and write it later
\* make a second one or remove the only one.
OneOwnerEach ==
    \A o \in Organization :
        {u \in User : role[o][u] = "owner"} =
            {FounderOf[b] : b \in {b \in Boot : boot[b] = "done" /\ FoundedBy[b] = o}}
=============================================================================
