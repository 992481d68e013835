----------------------------- MODULE Invitations -----------------------------
(***************************************************************************)
(* Joining one organization: the creation and the acceptance of an         *)
(* invitation (src/services/invitation-service.ts), its cancellation, and  *)
(* the changes to a membership                                             *)
(* (src/repositories/postgres/tenant-repository.ts).                       *)
(*                                                                         *)
(* An acceptance opens a transaction and, inside it, signs in or signs up  *)
(* through Better Auth, which runs its statements on a second connection   *)
(* of the same pool and commits them by itself.  Statements see what was   *)
(* committed when they run (READ COMMITTED).  The writes of the            *)
(* transaction come last and are one step: whoever is in them waits for    *)
(* nothing but others that are in them.                                    *)
(***************************************************************************)
EXTENDS Naturals, FiniteSets

CONSTANTS Email, Password,
          Invitation,   \* rows that createInvitation inserts
          EmailOf,      \* who each invitation is for
          RoleOf,       \* the role it offers
          Accept,       \* calls of POST /v1/onboarding/accept
          InvitationOf, \* the invitation whose token each call presents
          PasswordOf,   \* the password each call presents
          NoPassword,   \* of an e-mail address without an account
          PoolSize      \* connections of the pool

Role == {"member", "admin"}

ASSUME InvitationsAssumption ==
    /\ IsFiniteSet(Accept)
    /\ EmailOf \in [Invitation -> Email]
    /\ RoleOf \in [Invitation -> Role]
    /\ InvitationOf \in [Accept -> Invitation]
    /\ PasswordOf \in [Accept -> Password]
    /\ NoPassword \notin Password
    /\ PoolSize \in Nat \ {0}

VARIABLES status,     \* of each invitation's row, "none" before it is there
          expired,    \* invitations whose expiresAt has passed
          account,    \* password of each address, if it has an account
          role,       \* of each address in the organization, or "none"
          audit,      \* committed audit events
          cancelling, \* invitations that a cancellation has read as pending
          pc          \* where each acceptance is, or the answer it got

rows == <<status, account, role, audit>>
vars == <<rows, expired, cancelling, pc>>

Addressee(c) == EmailOf[InvitationOf[c]]

Event(action, x) == [action |-> action, target |-> x]

Init ==
    /\ status = [i \in Invitation |-> "none"]
    /\ expired = {}
    /\ account \in [Email -> Password \cup {NoPassword}]
    /\ role = [e \in Email |-> "none"]
    /\ audit = {}
    /\ cancelling = {}
    /\ pc = [c \in Accept |-> "new"]

Goto(c, from, to) ==
    /\ pc[c] = from
    /\ pc' = [pc EXCEPT ![c] = to]

\* Acceptances inside their transaction, each of which holds a connection.
InTransaction == {"fresh", "sign_in", "sign_up", "identified", "joining", "known"}
Holding == {c \in Accept : pc[c] \in InTransaction}

\* A statement outside these transactions takes a connection for its time.
ConnectionFree == Cardinality(Holding) < PoolSize

-----------------------------------------------------------------------------
(* Faulty variants of the definitions below: mistakes the code could have   *)
(* made, kept to check that the properties notice them.                     *)

\* The failed sign-in is caught and not looked at.
SignInUnverified(c) ==
    /\ ConnectionFree
    /\ Goto(c, "sign_in", "identified")
    /\ UNCHANGED <<rows, expired, cancelling>>

\* The membership is inserted on the pool and not on the transaction.
ReadMembershipInserts(c) ==
    /\ Goto(c, "identified", "known")
    /\ role' = [role EXCEPT ![Addressee(c)] =
                   IF @ = "none" THEN RoleOf[InvitationOf[c]] ELSE @]
    /\ UNCHANGED <<status, account, audit, expired, cancelling>>

\* A pool without connectionTimeoutMillis.
ConnectTimeoutNever(c) == FALSE /\ UNCHANGED vars

-----------------------------------------------------------------------------
(* acceptInvitation *)

\* The pending invitations are searched for the token, which nobody has before
\* the invitation is there.
Find(c) ==
    LET i == InvitationOf[c] IN
    /\ ConnectionFree
    /\ pc[c] = "new" /\ status[i] # "none"
    /\ pc' = [pc EXCEPT ![c] = IF status[i] # "pending" THEN "not_found"
                               ELSE IF i \in expired THEN "expiring" ELSE "found"]
    /\ UNCHANGED <<rows, expired, cancelling>>

\* Whatever the row has become meanwhile, it is marked as expired.
MarkExpired(c) ==
    /\ ConnectionFree
    /\ Goto(c, "expiring", "expired")
    /\ status' = [status EXCEPT ![InvitationOf[c]] = "expired"]
    /\ UNCHANGED <<account, role, audit, expired, cancelling>>

\* The transaction begins and reads the invitation again.
ReadFresh(c) ==
    /\ ConnectionFree
    /\ pc[c] = "found"
    /\ pc' = [pc EXCEPT ![c] = IF status[InvitationOf[c]] = "pending"
                               THEN "fresh" ELSE "already_used"]
    /\ UNCHANGED <<rows, expired, cancelling>>

ReadUser(c) ==
    /\ pc[c] = "fresh"
    /\ pc' = [pc EXCEPT ![c] = IF account[Addressee(c)] = NoPassword
                               THEN "sign_up" ELSE "sign_in"]
    /\ UNCHANGED <<rows, expired, cancelling>>

\* An existing account is joined with its own password only.
SignIn(c) ==
    /\ ConnectionFree
    /\ pc[c] = "sign_in"
    /\ pc' = [pc EXCEPT ![c] = IF account[Addressee(c)] = PasswordOf[c]
                               THEN "identified" ELSE "mismatch"]
    /\ UNCHANGED <<rows, expired, cancelling>>

\* The account is committed by itself; the address is unique.
SignUp(c) ==
    /\ ConnectionFree
    /\ pc[c] = "sign_up"
    /\ IF account[Addressee(c)] = NoPassword
       THEN /\ account' = [account EXCEPT ![Addressee(c)] = PasswordOf[c]]
            /\ pc' = [pc EXCEPT ![c] = "identified"]
       ELSE /\ pc' = [pc EXCEPT ![c] = "error"]
            /\ UNCHANGED account
    /\ UNCHANGED <<status, role, audit, expired, cancelling>>

ReadMembership(c) ==
    /\ pc[c] = "identified"
    /\ pc' = [pc EXCEPT ![c] = IF role[Addressee(c)] = "none"
                               THEN "joining" ELSE "known"]
    /\ UNCHANGED <<rows, expired, cancelling>>

AcceptInvitation(c) ==
    /\ pc' = [pc EXCEPT ![c] = "accepted"]
    /\ status' = [status EXCEPT ![InvitationOf[c]] = "accepted"]
    /\ audit' = audit \cup {Event("accepted", c)}
    /\ UNCHANGED <<account, expired, cancelling>>

\* The id of the membership names user and organization: a second insert of
\* it fails, and the transaction with it.
Join(c) ==
    /\ pc[c] = "joining"
    /\ role[Addressee(c)] = "none"
    /\ role' = [role EXCEPT ![Addressee(c)] = RoleOf[InvitationOf[c]]]
    /\ AcceptInvitation(c)

JoinConflict(c) ==
    /\ Goto(c, "joining", "error")
    /\ role[Addressee(c)] # "none"
    /\ UNCHANGED <<rows, expired, cancelling>>

\* An existing membership is left as it is.
AcceptAsMember(c) ==
    /\ pc[c] = "known"
    /\ AcceptInvitation(c)
    /\ UNCHANGED role

\* A statement fails or the process dies; the account remains.
Abort(c) ==
    /\ pc[c] \in {"new", "expiring", "found"} \cup InTransaction
    /\ pc' = [pc EXCEPT ![c] = "error"]
    /\ UNCHANGED <<rows, expired, cancelling>>

\* No connection became free in time.  At the sign-in every error counts as
\* a wrong password.
ConnectTimeout(c) ==
    /\ ~ConnectionFree
    /\ pc[c] \in {"new", "expiring", "found", "sign_in", "sign_up"}
    /\ pc' = [pc EXCEPT ![c] = IF pc[c] = "sign_in" THEN "mismatch" ELSE "error"]
    /\ UNCHANGED <<rows, expired, cancelling>>

-----------------------------------------------------------------------------
(* The organization's side *)

\* createInvitation: nobody looks for another invitation of the address, or
\* whether it is a member's.
CreateInvitation(i) ==
    /\ ConnectionFree
    /\ status[i] = "none"
    /\ status' = [status EXCEPT ![i] = "pending"]
    /\ audit' = audit \cup {Event("created", i)}
    /\ UNCHANGED <<account, role, expired, cancelling, pc>>

CancelRead(i) ==
    /\ ConnectionFree
    /\ status[i] = "pending"
    /\ i \notin cancelling
    /\ cancelling' = cancelling \cup {i}
    /\ UNCHANGED <<rows, expired, pc>>

\* The update is guarded, its answer and its audit event are not.
CancelCommit(i) ==
    /\ ConnectionFree
    /\ i \in cancelling
    /\ cancelling' = cancelling \ {i}
    /\ status' = [status EXCEPT ![i] = IF @ = "pending" THEN "revoked" ELSE @]
    /\ audit' = audit \cup {Event("cancelled", i)}
    /\ UNCHANGED <<account, role, expired, pc>>

CancelFails(i) ==
    /\ i \in cancelling
    /\ cancelling' = cancelling \ {i}
    /\ UNCHANGED <<rows, expired, pc>>

\* Both handlers read the membership before their transaction: it may be gone
\* when they write, and the event is written all the same.
ReadAsMember(e) == role[e] # "none" \/ Event("removed", e) \in audit

SetRole(e, r) == role' = [role EXCEPT ![e] = IF @ = "none" THEN "none" ELSE r]

UpdateMemberRole(e, r) ==
    /\ ConnectionFree
    /\ ReadAsMember(e)
    /\ SetRole(e, r)
    /\ audit' = audit \cup {Event("role_changed", e)}
    /\ UNCHANGED <<status, account, expired, cancelling, pc>>

RemoveMember(e) ==
    /\ ConnectionFree
    /\ ReadAsMember(e)
    /\ role' = [role EXCEPT ![e] = "none"]
    /\ audit' = audit \cup {Event("removed", e)}
    /\ UNCHANGED <<status, account, expired, cancelling, pc>>

\* expiresAt passes.
Expire(i) ==
    /\ status[i] # "none"
    /\ i \notin expired
    /\ expired' = expired \cup {i}
    /\ UNCHANGED <<rows, cancelling, pc>>

-----------------------------------------------------------------------------

\* What the database and the pool's timer let an acceptance do next.
Progress(c) ==
    \/ Find(c)
    \/ MarkExpired(c)
    \/ ReadFresh(c)
    \/ ReadUser(c)
    \/ SignIn(c)
    \/ SignUp(c)
    \/ ReadMembership(c)
    \/ Join(c)
    \/ JoinConflict(c)
    \/ AcceptAsMember(c)
    \/ ConnectTimeout(c)

Next ==
    \/ \E c \in Accept : Progress(c) \/ Abort(c)
    \/ \E i \in Invitation : CreateInvitation(i) \/ CancelRead(i) \/ CancelCommit(i)
                             \/ CancelFails(i) \/ Expire(i)
    \/ \E e \in Email : RemoveMember(e) \/ \E r \in Role : UpdateMemberRole(e, r)

\* Statements end and the pool's timer runs.  Nobody has to cancel, remove or
\* let an invitation expire.
Fairness == \A c \in Accept : WF_vars(Progress(c))

Spec == Init /\ [][Next]_vars
FairSpec == Spec /\ Fairness

-----------------------------------------------------------------------------
(* Properties *)

AcceptState == {"new", "expiring", "found", "not_found", "expired", "already_used",
                "mismatch", "accepted", "error"} \cup InTransaction

\* The shape of the rows and the calls.
TypeOK ==
    /\ status \in [Invitation -> {"none", "pending", "accepted", "revoked", "expired"}]
    /\ expired \subseteq Invitation
    /\ account \in [Email -> Password \cup {NoPassword}]
    /\ role \in [Email -> Role \cup {"none"}]
    /\ audit \subseteq
          [action : {"accepted"}, target : Accept]
            \cup [action : {"created", "cancelled"}, target : Invitation]
            \cup [action : {"role_changed", "removed"}, target : Email]
    /\ cancelling \subseteq Invitation
    /\ pc \in [Accept -> AcceptState]

\* A token alone never takes an account over: whoever joined as a person knows
\* the password of that person's account, also when several acceptances
\* signed up for one address at the same time.
PasswordGuardsAccounts ==
    \A c \in Accept :
        pc[c] \in {"identified", "joining", "known", "accepted"}
            => account[Addressee(c)] = PasswordOf[c]

\* Everybody in the organization came by an invitation that was created and
\* whose acceptance was committed, and has the role it offered unless the owner
\* changed it.  An acceptance that failed half way lets nobody in.
MembersWereInvited ==
    \A e \in Email : role[e] # "none" =>
        \E c \in Accept :
            /\ Addressee(c) = e
            /\ {Event("created", InvitationOf[c]), Event("accepted", c)} \subseteq audit
            /\ RoleOf[InvitationOf[c]] = role[e] \/ Event("role_changed", e) \in audit

\* Every acceptance is answered although it needs a second connection while it
\* holds one, so that a full pool may have each of them wait for the others.
EveryAcceptEnds ==
    \A c \in Accept :
        pc[c] \in InTransaction ~> pc[c] \in {"accepted", "mismatch", "error"}
=============================================================================
