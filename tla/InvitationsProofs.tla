--------------------------- MODULE InvitationsProofs ---------------------------
(***************************************************************************)
(* Proofs about Invitations for any number of addresses, passwords,        *)
(* invitations and calls, and any pool.                                    *)
(*                                                                         *)
(* An account keeps the password it was signed up with, so that whoever    *)
(* has been identified stays so.  An invitation whose token is used has    *)
(* been created with its event, which nothing takes back.                  *)
(***************************************************************************)
EXTENDS Invitations, TLAPS

\* An invitation that is there was created, and a call has got past the search
\* only with the token of such a one.
UsedOnesCreated ==
    /\ \A i \in Invitation : status[i] # "none" => Event("created", i) \in audit
    /\ \A c \in Accept : pc[c] \in {"expiring", "found"} \cup InTransaction
          => status[InvitationOf[c]] # "none"

\* What a call is in before and after it knows who the person is.
LEMMA CallStates ==
    /\ {"new", "expiring", "found", "not_found", "expired", "already_used", "mismatch",
        "accepted", "error"} \cap InTransaction = {}
    /\ InTransaction \subseteq AcceptState
    /\ {"fresh", "sign_in", "sign_up", "identified", "joining", "known"} = InTransaction
    /\ {"new", "expiring", "found", "not_found", "expired", "already_used", "mismatch",
        "accepted", "error"} \subseteq AcceptState
BY DEF InTransaction, AcceptState

IInv ==
    /\ TypeOK
    /\ UsedOnesCreated
    /\ PasswordGuardsAccounts
    /\ MembersWereInvited

\* Events are never taken back, so that a membership stays explained.
LEMMA EventsStay ==
    ASSUME MembersWereInvited, audit \subseteq audit', role' = role
    PROVE  MembersWereInvited'
BY DEF MembersWereInvited

\* Every step keeps the shape.
LEMMA TypeStep == IInv /\ [Next]_vars => TypeOK'
<1> SUFFICES ASSUME IInv, [Next]_vars
             PROVE  TypeOK'
  OBVIOUS
<1>1. ASSUME NEW c \in Accept, Find(c)
      PROVE  TypeOK'
  BY <1>1, InvitationsAssumption, CallStates
     DEF Find, rows, IInv, TypeOK, Event, Role
<1>2. ASSUME NEW c \in Accept, MarkExpired(c)
      PROVE  TypeOK'
  BY <1>2, InvitationsAssumption, CallStates
     DEF MarkExpired, Goto, IInv, TypeOK, Event, Role
<1>3. ASSUME NEW c \in Accept, ReadFresh(c)
      PROVE  TypeOK'
  BY <1>3, InvitationsAssumption, CallStates
     DEF ReadFresh, rows, IInv, TypeOK, Event, Role
<1>4. ASSUME NEW c \in Accept, ReadUser(c)
      PROVE  TypeOK'
  BY <1>4, InvitationsAssumption, CallStates
     DEF ReadUser, rows, IInv, TypeOK, Event, Role
<1>5. ASSUME NEW c \in Accept, SignIn(c)
      PROVE  TypeOK'
  BY <1>5, InvitationsAssumption, CallStates
     DEF SignIn, rows, IInv, TypeOK, Event, Role
<1>6. ASSUME NEW c \in Accept, SignUp(c)
      PROVE  TypeOK'
  BY <1>6, InvitationsAssumption, CallStates DEF SignUp, IInv, TypeOK, Event, Role
<1>7. ASSUME NEW c \in Accept, ReadMembership(c)
      PROVE  TypeOK'
  BY <1>7, InvitationsAssumption, CallStates
     DEF ReadMembership, rows, IInv, TypeOK, Event, Role
<1>8. ASSUME NEW c \in Accept, Join(c)
      PROVE  TypeOK'
  <2>1. InvitationOf[c] \in Invitation /\ Addressee(c) \in Email
        /\ RoleOf[InvitationOf[c]] \in Role
    BY InvitationsAssumption DEF Addressee
  <2>2. role' \in [Email -> Role \cup {"none"}]
    BY <1>8, <2>1 DEF Join, IInv, TypeOK
  <2> QED
    BY <1>8, <2>1, <2>2, CallStates DEF Join, AcceptInvitation, IInv, TypeOK, Event
<1>9. ASSUME NEW c \in Accept, JoinConflict(c)
      PROVE  TypeOK'
  BY <1>9, InvitationsAssumption, CallStates
     DEF JoinConflict, Goto, rows, IInv, TypeOK, Event, Role
<1>10. ASSUME NEW c \in Accept, AcceptAsMember(c)
      PROVE  TypeOK'
  <2>1. InvitationOf[c] \in Invitation
    BY InvitationsAssumption
  <2>2. role' = role
    BY <1>10 DEF AcceptAsMember
  <2> QED
    BY <1>10, <2>1, <2>2, CallStates
    DEF AcceptAsMember, AcceptInvitation, IInv, TypeOK, Event
<1>11. ASSUME NEW c \in Accept, ConnectTimeout(c)
      PROVE  TypeOK'
  BY <1>11, InvitationsAssumption, CallStates
     DEF ConnectTimeout, rows, IInv, TypeOK, Event, Role
<1>12. ASSUME NEW c \in Accept, Abort(c)
      PROVE  TypeOK'
  BY <1>12, InvitationsAssumption, CallStates
     DEF Abort, rows, IInv, TypeOK, Event, Role
<1>13. ASSUME NEW i \in Invitation, CreateInvitation(i)
      PROVE  TypeOK'
  BY <1>13, InvitationsAssumption, CallStates
     DEF CreateInvitation, IInv, TypeOK, Event, Role
<1>14. ASSUME NEW i \in Invitation, CancelRead(i)
      PROVE  TypeOK'
  BY <1>14, InvitationsAssumption, CallStates
     DEF CancelRead, rows, IInv, TypeOK, Event, Role
<1>15. ASSUME NEW i \in Invitation, CancelCommit(i)
      PROVE  TypeOK'
  BY <1>15, InvitationsAssumption, CallStates
     DEF CancelCommit, IInv, TypeOK, Event, Role
<1>16. ASSUME NEW i \in Invitation, CancelFails(i)
      PROVE  TypeOK'
  BY <1>16, InvitationsAssumption, CallStates
     DEF CancelFails, rows, IInv, TypeOK, Event, Role
<1>17. ASSUME NEW i \in Invitation, Expire(i)
      PROVE  TypeOK'
  BY <1>17, InvitationsAssumption, CallStates
     DEF Expire, rows, IInv, TypeOK, Event, Role
<1>18. ASSUME NEW e \in Email, RemoveMember(e)
      PROVE  TypeOK'
  BY <1>18, InvitationsAssumption, CallStates
     DEF RemoveMember, IInv, TypeOK, Event, Role
<1>19. ASSUME NEW e \in Email, NEW r \in Role, UpdateMemberRole(e, r)
      PROVE  TypeOK'
  BY <1>19, InvitationsAssumption, CallStates
     DEF UpdateMemberRole, SetRole, IInv, TypeOK, Event, Role
<1>20. CASE UNCHANGED vars
  BY <1>20 DEF vars, rows, IInv, TypeOK, Event, Role
<1> QED
  BY <1>1, <1>2, <1>3, <1>4, <1>5, <1>6, <1>7, <1>8, <1>9, <1>10, <1>11, <1>12,
     <1>13, <1>14, <1>15, <1>16, <1>17, <1>18, <1>19, <1>20
     DEF Next, Progress

\* An invitation comes with its event, and is never taken out of the table.
LEMMA CreatedStep == IInv /\ [Next]_vars => UsedOnesCreated'
<1> SUFFICES ASSUME IInv, [Next]_vars
             PROVE  UsedOnesCreated'
  OBVIOUS
<1>1. ASSUME NEW c \in Accept, Find(c)
      PROVE  UsedOnesCreated'
  BY <1>1, InvitationsAssumption, CallStates
     DEF Find, rows, IInv, TypeOK, UsedOnesCreated, Event
<1>2. ASSUME NEW c \in Accept, MarkExpired(c)
      PROVE  UsedOnesCreated'
  BY <1>2, InvitationsAssumption, CallStates
     DEF MarkExpired, Goto, IInv, TypeOK, UsedOnesCreated, Event
<1>3. ASSUME NEW c \in Accept, ReadFresh(c)
      PROVE  UsedOnesCreated'
  BY <1>3, InvitationsAssumption, CallStates
     DEF ReadFresh, rows, IInv, TypeOK, UsedOnesCreated, Event
<1>4. ASSUME NEW c \in Accept, ReadUser(c)
      PROVE  UsedOnesCreated'
  BY <1>4, InvitationsAssumption, CallStates
     DEF ReadUser, rows, IInv, TypeOK, UsedOnesCreated, Event
<1>5. ASSUME NEW c \in Accept, SignIn(c)
      PROVE  UsedOnesCreated'
  BY <1>5, InvitationsAssumption, CallStates
     DEF SignIn, rows, IInv, TypeOK, UsedOnesCreated, Event
<1>6. ASSUME NEW c \in Accept, SignUp(c)
      PROVE  UsedOnesCreated'
  BY <1>6, InvitationsAssumption, CallStates
     DEF SignUp, IInv, TypeOK, UsedOnesCreated, Event
<1>7. ASSUME NEW c \in Accept, ReadMembership(c)
      PROVE  UsedOnesCreated'
  BY <1>7, InvitationsAssumption, CallStates
     DEF ReadMembership, rows, IInv, TypeOK, UsedOnesCreated, Event
<1>8. ASSUME NEW c \in Accept, Join(c)
      PROVE  UsedOnesCreated'
  BY <1>8, InvitationsAssumption, CallStates
     DEF Join, AcceptInvitation, IInv, TypeOK, UsedOnesCreated, Event
<1>9. ASSUME NEW c \in Accept, JoinConflict(c)
      PROVE  UsedOnesCreated'
  BY <1>9, InvitationsAssumption, CallStates
     DEF JoinConflict, Goto, rows, IInv, TypeOK, UsedOnesCreated, Event
<1>10. ASSUME NEW c \in Accept, AcceptAsMember(c)
      PROVE  UsedOnesCreated'
  BY <1>10, InvitationsAssumption, CallStates
     DEF AcceptAsMember, AcceptInvitation, IInv, TypeOK, UsedOnesCreated, Event
<1>11. ASSUME NEW c \in Accept, ConnectTimeout(c)
      PROVE  UsedOnesCreated'
  BY <1>11, InvitationsAssumption, CallStates
     DEF ConnectTimeout, rows, IInv, TypeOK, UsedOnesCreated, Event
<1>12. ASSUME NEW c \in Accept, Abort(c)
      PROVE  UsedOnesCreated'
  BY <1>12, InvitationsAssumption, CallStates
     DEF Abort, rows, IInv, TypeOK, UsedOnesCreated, Event
<1>13. ASSUME NEW i \in Invitation, CreateInvitation(i)
      PROVE  UsedOnesCreated'
  BY <1>13, InvitationsAssumption, CallStates
     DEF CreateInvitation, IInv, TypeOK, UsedOnesCreated, Event
<1>14. ASSUME NEW i \in Invitation, CancelRead(i)
      PROVE  UsedOnesCreated'
  BY <1>14, InvitationsAssumption, CallStates
     DEF CancelRead, rows, IInv, TypeOK, UsedOnesCreated, Event
<1>15. ASSUME NEW i \in Invitation, CancelCommit(i)
      PROVE  UsedOnesCreated'
  BY <1>15, InvitationsAssumption, CallStates
     DEF CancelCommit, IInv, TypeOK, UsedOnesCreated, Event
<1>16. ASSUME NEW i \in Invitation, CancelFails(i)
      PROVE  UsedOnesCreated'
  BY <1>16, InvitationsAssumption, CallStates
     DEF CancelFails, rows, IInv, TypeOK, UsedOnesCreated, Event
<1>17. ASSUME NEW i \in Invitation, Expire(i)
      PROVE  UsedOnesCreated'
  BY <1>17, InvitationsAssumption, CallStates
     DEF Expire, rows, IInv, TypeOK, UsedOnesCreated, Event
<1>18. ASSUME NEW e \in Email, RemoveMember(e)
      PROVE  UsedOnesCreated'
  BY <1>18, InvitationsAssumption, CallStates
     DEF RemoveMember, IInv, TypeOK, UsedOnesCreated, Event
<1>19. ASSUME NEW e \in Email, NEW r \in Role, UpdateMemberRole(e, r)
      PROVE  UsedOnesCreated'
  BY <1>19, InvitationsAssumption, CallStates
     DEF UpdateMemberRole, SetRole, IInv, TypeOK, UsedOnesCreated, Event
<1>20. CASE UNCHANGED vars
  BY <1>20 DEF vars, rows, IInv, TypeOK, UsedOnesCreated, Event
<1> QED
  BY <1>1, <1>2, <1>3, <1>4, <1>5, <1>6, <1>7, <1>8, <1>9, <1>10, <1>11, <1>12,
     <1>13, <1>14, <1>15, <1>16, <1>17, <1>18, <1>19, <1>20
     DEF Next, Progress

\* Only an address without an account gets a password.
LEMMA PasswordStep == IInv /\ [Next]_vars => PasswordGuardsAccounts'
<1> SUFFICES ASSUME IInv, [Next]_vars
             PROVE  PasswordGuardsAccounts'
  OBVIOUS
<1>1. ASSUME NEW c \in Accept, Find(c)
      PROVE  PasswordGuardsAccounts'
  BY <1>1, InvitationsAssumption, CallStates
     DEF Find, rows, IInv, TypeOK, PasswordGuardsAccounts, Addressee
<1>2. ASSUME NEW c \in Accept, MarkExpired(c)
      PROVE  PasswordGuardsAccounts'
  BY <1>2, InvitationsAssumption, CallStates
     DEF MarkExpired, Goto, IInv, TypeOK, PasswordGuardsAccounts, Addressee
<1>3. ASSUME NEW c \in Accept, ReadFresh(c)
      PROVE  PasswordGuardsAccounts'
  BY <1>3, InvitationsAssumption, CallStates
     DEF ReadFresh, rows, IInv, TypeOK, PasswordGuardsAccounts, Addressee
<1>4. ASSUME NEW c \in Accept, ReadUser(c)
      PROVE  PasswordGuardsAccounts'
  BY <1>4, InvitationsAssumption, CallStates
     DEF ReadUser, rows, IInv, TypeOK, PasswordGuardsAccounts, Addressee
<1>5. ASSUME NEW c \in Accept, SignIn(c)
      PROVE  PasswordGuardsAccounts'
  BY <1>5, InvitationsAssumption, CallStates
     DEF SignIn, rows, IInv, TypeOK, PasswordGuardsAccounts, Addressee
<1>6. ASSUME NEW c \in Accept, SignUp(c)
      PROVE  PasswordGuardsAccounts'
  BY <1>6, InvitationsAssumption, CallStates
     DEF SignUp, IInv, TypeOK, PasswordGuardsAccounts, Addressee
<1>7. ASSUME NEW c \in Accept, ReadMembership(c)
      PROVE  PasswordGuardsAccounts'
  BY <1>7, InvitationsAssumption, CallStates
     DEF ReadMembership, rows, IInv, TypeOK, PasswordGuardsAccounts, Addressee
<1>8. ASSUME NEW c \in Accept, Join(c)
      PROVE  PasswordGuardsAccounts'
  BY <1>8, InvitationsAssumption, CallStates
     DEF Join, AcceptInvitation, IInv, TypeOK, PasswordGuardsAccounts, Addressee
<1>9. ASSUME NEW c \in Accept, JoinConflict(c)
      PROVE  PasswordGuardsAccounts'
  BY <1>9, InvitationsAssumption, CallStates
     DEF JoinConflict, Goto, rows, IInv, TypeOK, PasswordGuardsAccounts, Addressee
<1>10. ASSUME NEW c \in Accept, AcceptAsMember(c)
      PROVE  PasswordGuardsAccounts'
  BY <1>10, InvitationsAssumption, CallStates
     DEF AcceptAsMember, AcceptInvitation, IInv, TypeOK, PasswordGuardsAccounts,
         Addressee
<1>11. ASSUME NEW c \in Accept, ConnectTimeout(c)
      PROVE  PasswordGuardsAccounts'
  BY <1>11, InvitationsAssumption, CallStates
     DEF ConnectTimeout, rows, IInv, TypeOK, PasswordGuardsAccounts, Addressee
<1>12. ASSUME NEW c \in Accept, Abort(c)
      PROVE  PasswordGuardsAccounts'
  BY <1>12, InvitationsAssumption, CallStates
     DEF Abort, rows, IInv, TypeOK, PasswordGuardsAccounts, Addressee
<1>13. ASSUME NEW i \in Invitation, CreateInvitation(i)
      PROVE  PasswordGuardsAccounts'
  BY <1>13, InvitationsAssumption, CallStates
     DEF CreateInvitation, IInv, TypeOK, PasswordGuardsAccounts, Addressee
<1>14. ASSUME NEW i \in Invitation, CancelRead(i)
      PROVE  PasswordGuardsAccounts'
  BY <1>14, InvitationsAssumption, CallStates
     DEF CancelRead, rows, IInv, TypeOK, PasswordGuardsAccounts, Addressee
<1>15. ASSUME NEW i \in Invitation, CancelCommit(i)
      PROVE  PasswordGuardsAccounts'
  BY <1>15, InvitationsAssumption, CallStates
     DEF CancelCommit, IInv, TypeOK, PasswordGuardsAccounts, Addressee
<1>16. ASSUME NEW i \in Invitation, CancelFails(i)
      PROVE  PasswordGuardsAccounts'
  BY <1>16, InvitationsAssumption, CallStates
     DEF CancelFails, rows, IInv, TypeOK, PasswordGuardsAccounts, Addressee
<1>17. ASSUME NEW i \in Invitation, Expire(i)
      PROVE  PasswordGuardsAccounts'
  BY <1>17, InvitationsAssumption, CallStates
     DEF Expire, rows, IInv, TypeOK, PasswordGuardsAccounts, Addressee
<1>18. ASSUME NEW e \in Email, RemoveMember(e)
      PROVE  PasswordGuardsAccounts'
  BY <1>18, InvitationsAssumption, CallStates
     DEF RemoveMember, IInv, TypeOK, PasswordGuardsAccounts, Addressee
<1>19. ASSUME NEW e \in Email, NEW r \in Role, UpdateMemberRole(e, r)
      PROVE  PasswordGuardsAccounts'
  BY <1>19, InvitationsAssumption, CallStates
     DEF UpdateMemberRole, SetRole, IInv, TypeOK, PasswordGuardsAccounts,
         Addressee
<1>20. CASE UNCHANGED vars
  BY <1>20 DEF vars, rows, IInv, TypeOK, PasswordGuardsAccounts, Addressee
<1> QED
  BY <1>1, <1>2, <1>3, <1>4, <1>5, <1>6, <1>7, <1>8, <1>9, <1>10, <1>11, <1>12,
     <1>13, <1>14, <1>15, <1>16, <1>17, <1>18, <1>19, <1>20
     DEF Next, Progress

\* A role is given in the step that commits the acceptance, and changed in one
\* that commits the event of it.
LEMMA MembersStep == IInv /\ [Next]_vars => MembersWereInvited'
<1> SUFFICES ASSUME IInv, [Next]_vars
             PROVE  MembersWereInvited'
  OBVIOUS
<1>1. ASSUME NEW c \in Accept, Find(c)
      PROVE  MembersWereInvited'
  BY <1>1, InvitationsAssumption, CallStates
     DEF Find, rows, IInv, TypeOK, UsedOnesCreated, MembersWereInvited, Addressee,
         Event
<1>2. ASSUME NEW c \in Accept, MarkExpired(c)
      PROVE  MembersWereInvited'
  BY <1>2, InvitationsAssumption, CallStates
     DEF MarkExpired, Goto, IInv, TypeOK, UsedOnesCreated, MembersWereInvited,
         Addressee, Event
<1>3. ASSUME NEW c \in Accept, ReadFresh(c)
      PROVE  MembersWereInvited'
  BY <1>3, InvitationsAssumption, CallStates
     DEF ReadFresh, rows, IInv, TypeOK, UsedOnesCreated, MembersWereInvited,
         Addressee, Event
<1>4. ASSUME NEW c \in Accept, ReadUser(c)
      PROVE  MembersWereInvited'
  BY <1>4, InvitationsAssumption, CallStates
     DEF ReadUser, rows, IInv, TypeOK, UsedOnesCreated, MembersWereInvited,
         Addressee, Event
<1>5. ASSUME NEW c \in Accept, SignIn(c)
      PROVE  MembersWereInvited'
  BY <1>5, InvitationsAssumption, CallStates
     DEF SignIn, rows, IInv, TypeOK, UsedOnesCreated, MembersWereInvited,
         Addressee, Event
<1>6. ASSUME NEW c \in Accept, SignUp(c)
      PROVE  MembersWereInvited'
  BY <1>6, InvitationsAssumption, CallStates
     DEF SignUp, IInv, TypeOK, UsedOnesCreated, MembersWereInvited, Addressee,
         Event
<1>7. ASSUME NEW c \in Accept, ReadMembership(c)
      PROVE  MembersWereInvited'
  BY <1>7, InvitationsAssumption, CallStates
     DEF ReadMembership, rows, IInv, TypeOK, UsedOnesCreated, MembersWereInvited,
         Addressee, Event
<1>8. ASSUME NEW c \in Accept, Join(c)
      PROVE  MembersWereInvited'
  <2> DEFINE i == InvitationOf[c]
  <2>1. i \in Invitation /\ Addressee(c) \in Email
    BY InvitationsAssumption DEF Addressee
  <2>2. Event("created", i) \in audit
    BY <1>8, <2>1, CallStates DEF Join, IInv, UsedOnesCreated
  <2>3. audit' = audit \cup {Event("accepted", c)}
        /\ role' = [role EXCEPT ![Addressee(c)] = RoleOf[i]]
    BY <1>8 DEF Join, AcceptInvitation
  <2>4. role'[Addressee(c)] = RoleOf[i]
    BY <2>1, <2>3 DEF IInv, TypeOK
  <2>5. ASSUME NEW e \in Email, role'[e] # "none"
        PROVE  \E d \in Accept :
                  /\ Addressee(d) = e
                  /\ {Event("created", InvitationOf[d]), Event("accepted", d)} \subseteq audit'
                  /\ RoleOf[InvitationOf[d]] = role'[e] \/ Event("role_changed", e) \in audit'
    <3>1. CASE e = Addressee(c)
      BY <2>2, <2>3, <2>4, <3>1
    <3>2. CASE e # Addressee(c)
      BY <2>3, <2>5, <3>2 DEF IInv, TypeOK, MembersWereInvited
    <3> QED
      BY <3>1, <3>2
  <2> QED
    BY <2>5 DEF MembersWereInvited
<1>9. ASSUME NEW c \in Accept, JoinConflict(c)
      PROVE  MembersWereInvited'
  BY <1>9, InvitationsAssumption, CallStates
     DEF JoinConflict, Goto, rows, IInv, TypeOK, UsedOnesCreated,
         MembersWereInvited, Addressee, Event
<1>10. ASSUME NEW c \in Accept, AcceptAsMember(c)
      PROVE  MembersWereInvited'
  BY <1>10, EventsStay DEF AcceptAsMember, AcceptInvitation, IInv
<1>11. ASSUME NEW c \in Accept, ConnectTimeout(c)
      PROVE  MembersWereInvited'
  BY <1>11, InvitationsAssumption, CallStates
     DEF ConnectTimeout, rows, IInv, TypeOK, UsedOnesCreated, MembersWereInvited,
         Addressee, Event
<1>12. ASSUME NEW c \in Accept, Abort(c)
      PROVE  MembersWereInvited'
  BY <1>12, InvitationsAssumption, CallStates
     DEF Abort, rows, IInv, TypeOK, UsedOnesCreated, MembersWereInvited,
         Addressee, Event
<1>13. ASSUME NEW i \in Invitation, CreateInvitation(i)
      PROVE  MembersWereInvited'
  BY <1>13, EventsStay DEF CreateInvitation, IInv
<1>14. ASSUME NEW i \in Invitation, CancelRead(i)
      PROVE  MembersWereInvited'
  BY <1>14, InvitationsAssumption, CallStates
     DEF CancelRead, rows, IInv, TypeOK, UsedOnesCreated, MembersWereInvited,
         Addressee, Event
<1>15. ASSUME NEW i \in Invitation, CancelCommit(i)
      PROVE  MembersWereInvited'
  BY <1>15, InvitationsAssumption, CallStates
     DEF CancelCommit, IInv, TypeOK, UsedOnesCreated, MembersWereInvited,
         Addressee, Event
<1>16. ASSUME NEW i \in Invitation, CancelFails(i)
      PROVE  MembersWereInvited'
  BY <1>16, InvitationsAssumption, CallStates
     DEF CancelFails, rows, IInv, TypeOK, UsedOnesCreated, MembersWereInvited,
         Addressee, Event
<1>17. ASSUME NEW i \in Invitation, Expire(i)
      PROVE  MembersWereInvited'
  BY <1>17, InvitationsAssumption, CallStates
     DEF Expire, rows, IInv, TypeOK, UsedOnesCreated, MembersWereInvited,
         Addressee, Event
<1>18. ASSUME NEW e \in Email, RemoveMember(e)
      PROVE  MembersWereInvited'
  BY <1>18, InvitationsAssumption, CallStates
     DEF RemoveMember, IInv, TypeOK, UsedOnesCreated, MembersWereInvited,
         Addressee, Event
<1>19. ASSUME NEW e \in Email, NEW r \in Role, UpdateMemberRole(e, r)
      PROVE  MembersWereInvited'
  BY <1>19, InvitationsAssumption, CallStates
     DEF UpdateMemberRole, SetRole, IInv, TypeOK, UsedOnesCreated,
         MembersWereInvited, Addressee, Event
<1>20. CASE UNCHANGED vars
  BY <1>20
     DEF vars, rows, IInv, TypeOK, UsedOnesCreated, MembersWereInvited, Addressee,
         Event
<1> QED
  BY <1>1, <1>2, <1>3, <1>4, <1>5, <1>6, <1>7, <1>8, <1>9, <1>10, <1>11, <1>12,
     <1>13, <1>14, <1>15, <1>16, <1>17, <1>18, <1>19, <1>20
     DEF Next, Progress

-----------------------------------------------------------------------------

LEMMA Initially == Init => IInv
<1> SUFFICES ASSUME Init
             PROVE  IInv
  OBVIOUS
<1>1. TypeOK
  BY CallStates DEF Init, TypeOK
<1>2. UsedOnesCreated /\ PasswordGuardsAccounts /\ MembersWereInvited
  BY InvitationsAssumption, CallStates
  DEF Init, UsedOnesCreated, PasswordGuardsAccounts, MembersWereInvited
<1> QED
  BY <1>1, <1>2 DEF IInv

LEMMA Inductive == Spec => []IInv
<1>1. IInv /\ [Next]_vars => IInv'
  BY TypeStep, CreatedStep, PasswordStep, MembersStep DEF IInv
<1> QED
  BY <1>1, Initially, PTL DEF Spec

\* The rows and the calls keep their shape.
THEOREM TypeCorrect == Spec => []TypeOK
<1>1. IInv => TypeOK
  BY DEF IInv
<1> QED
  BY <1>1, Inductive, PTL

\* Whoever joins as a person knows the password of that person's account
\* (acceptInvitation signs an existing user in and a new one up).
THEOREM PasswordsGuardAccounts == Spec => []PasswordGuardsAccounts
<1>1. IInv => PasswordGuardsAccounts
  BY DEF IInv
<1> QED
  BY <1>1, Inductive, PTL

\* Every member came by an invitation that was created and accepted, and has
\* the role it offered or one that the audit trail explains.
THEOREM MembersAreInvited == Spec => []MembersWereInvited
<1>1. IInv => MembersWereInvited
  BY DEF IInv
<1> QED
  BY <1>1, Inductive, PTL
=============================================================================
