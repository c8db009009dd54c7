------------------------------- MODULE Accounts -------------------------------
(***************************************************************************)
(* How accounts come to be: the first-run setup (AuthService.setup), the   *)
(* accounts an administrator creates (UsersService.create) and the ones    *)
(* users open from an invitation (InviteService).  None of the handlers    *)
(* uses a transaction of its own: each element of Procs is a request that  *)
(* stands between two awaits, may overlap another one and may die there.   *)
(*                                                                         *)
(* Names, passwords, time zones and the tokens handed out at the end are   *)
(* left out; an invitation that has expired is one nobody accepts.         *)
(***************************************************************************)
EXTENDS Naturals, Sequences, FiniteSets

CONSTANTS
  Procs,       \* concurrent requests
  Emails,      \* addresses, after toLowerCase and trim
  Ops,         \* handlers that may be called in this instance
  MaxInvites,  \* bound on invitations ever begun
  MaxFaults    \* bound on calls that die or mails that fail

AccountOps == {"setup", "create", "send", "resend", "revoke", "complete"}

ASSUME AccountsAssumption ==
  /\ Ops \subseteq AccountOps
  /\ MaxInvites \in Nat /\ MaxFaults \in Nat

VARIABLES
  orgs,         \* organizations: how many; findSingleton returns the first
  users,        \* users, in the order of their creation
  credentials,  \* the users user_credentials has a row for
  admin,        \* setup_state.adminUserId, 0 while setup is not complete
  invites,      \* invite_tokens, in the order of their creation
  minted,       \* raw tokens generated so far
  mailed,       \* the raw tokens that a delivered mail carries
  calls,        \* the request each process is serving
  faults        \* faults so far

tables == <<orgs, users, credentials, admin, invites>>
vars   == <<tables, minted, mailed, calls, faults>>

UserIds   == DOMAIN users
InviteIds == DOMAIN invites

Steps == {"idle", "setup:org", "setup:createOrg", "setup:user",
  "setup:createUser", "setup:credential", "setup:complete",
  "create:email", "create:org", "create:user", "create:credential",
  "send:email", "send:store", "resend:email", "resend:replace",
  "revoke:consume", "complete:email", "complete:consume", "complete:by"}

NewCall(step, e, i) ==
  [at |-> step, email |-> e, invite |-> i, org |-> 0, user |-> 0, token |-> 0]
Idle == NewCall("idle", "none", 0)

-----------------------------------------------------------------------------
(* Control.                                                                *)

Begins(p, op) == op \in Ops /\ calls[p] = Idle

\* SetupGuard answers every other route with 503 until setup is complete.
IsSetUp == admin # 0

At(p, step)   == calls[p].at = step
Goto(p, step) == calls' = [calls EXCEPT ![p].at = step]
Return(p)     == calls' = [calls EXCEPT ![p] = Idle]

Registered(e) == {u \in UserIds : users[u].email = e}

\* The UNIQUE constraint of users.email.
NoUniqueEmail(e) == FALSE  \* mutant: it is not declared
UniqueEmailFails(e) == Registered(e) # {}

NewUser(e, role, org, i) ==
  [email |-> e, role |-> role, org |-> org, invite |-> i]

-----------------------------------------------------------------------------
(* AuthService.setup.                                                      *)

\* The request is refused when setup is complete.
SetupStart(p) ==
  /\ Begins(p, "setup")
  /\ ~IsSetUp
  /\ \E e \in Emails :
       calls' = [calls EXCEPT ![p] = NewCall("setup:org", e, 0)]
  /\ UNCHANGED <<tables, minted, mailed, faults>>

\* 1. The organization of a prior partial attempt, or a new one.
SetupFindOrg(p) ==
  /\ At(p, "setup:org")
  /\ IF orgs > 0
     THEN calls' = [calls EXCEPT ![p].at = "setup:user", ![p].org = 1]
     ELSE Goto(p, "setup:createOrg")
  /\ UNCHANGED <<tables, minted, mailed, faults>>

SetupCreateOrg(p) ==
  /\ At(p, "setup:createOrg")
  /\ orgs' = orgs + 1
  /\ calls' = [calls EXCEPT ![p].at = "setup:user", ![p].org = orgs + 1]
  /\ UNCHANGED <<users, credentials, admin, invites, minted, mailed, faults>>

\* 2. The user of a prior partial attempt, or a new one.
PriorUserIgnored(e) == {}  \* mutant: setup does not look
PriorUser(e) == Registered(e)

\* The order of steps 3 and 4.
StateFirst      == "setup:complete"  \* mutant: 4 before 3
CredentialFirst == "setup:credential"

SetupFindUser(p) ==
  /\ At(p, "setup:user")
  /\ IF PriorUser(calls[p].email) # {}
     THEN \E u \in PriorUser(calls[p].email) :
            calls' = [calls EXCEPT ![p].at = CredentialFirst, ![p].user = u]
     ELSE Goto(p, "setup:createUser")
  /\ UNCHANGED <<tables, minted, mailed, faults>>

SetupCreateUser(p) ==
  /\ At(p, "setup:createUser")
  /\ LET c == calls[p]
     IN  IF UniqueEmailFails(c.email)
         THEN Return(p) /\ UNCHANGED users
         ELSE /\ users' = Append(users, NewUser(c.email, "owner", c.org, 0))
              /\ calls' = [calls EXCEPT ![p].at = CredentialFirst,
                                        ![p].user = Len(users) + 1]
  /\ UNCHANGED <<orgs, credentials, admin, invites, minted, mailed, faults>>

\* 3. saveCredential is an upsert.
SetupCredential(p) ==
  /\ At(p, "setup:credential")
  /\ credentials' = credentials \union {calls[p].user}
  /\ Goto(p, "setup:complete")
  /\ UNCHANGED <<orgs, users, admin, invites, minted, mailed, faults>>

\* 4. saveSetupState is an upsert of the one row.
SetupComplete(p) ==
  /\ At(p, "setup:complete")
  /\ admin' = calls[p].user
  /\ Return(p)
  /\ UNCHANGED <<orgs, users, credentials, invites, minted, mailed, faults>>

-----------------------------------------------------------------------------
(* UsersService.create, called by an administrator or by completeInvite.   *)

CreateStart(p) ==
  /\ Begins(p, "create")
  /\ IsSetUp
  /\ \E e \in Emails :
       calls' = [calls EXCEPT ![p] = NewCall("create:email", e, 0)]
  /\ UNCHANGED <<tables, minted, mailed, faults>>

\* ConflictException when the email is in use.
CreateCheckEmail(p) ==
  /\ At(p, "create:email")
  /\ IF Registered(calls[p].email) # {} THEN Return(p)
                                        ELSE Goto(p, "create:org")
  /\ UNCHANGED <<tables, minted, mailed, faults>>

CreateFindOrg(p) ==
  /\ At(p, "create:org")
  /\ IF orgs > 0
     THEN calls' = [calls EXCEPT ![p].at = "create:user", ![p].org = 1]
     ELSE Return(p)
  /\ UNCHANGED <<tables, minted, mailed, faults>>

\* An account created without a password has no credential (SSO).
CreateUser(p) ==
  /\ At(p, "create:user")
  /\ LET c == calls[p]
     IN  IF UniqueEmailFails(c.email)
         THEN Return(p) /\ UNCHANGED users
         ELSE /\ users' = Append(users, NewUser(c.email, "user", c.org, c.invite))
              /\ \/ calls' = [calls EXCEPT ![p].at = "create:credential",
                                           ![p].user = Len(users) + 1]
                 \/ c.invite = 0 /\ Return(p)
  /\ UNCHANGED <<orgs, credentials, admin, invites, minted, mailed, faults>>

CreateCredential(p) ==
  /\ At(p, "create:credential")
  /\ credentials' = credentials \union {calls[p].user}
  /\ IF calls[p].invite = 0 THEN Return(p) ELSE Goto(p, "complete:by")
  /\ UNCHANGED <<orgs, users, admin, invites, minted, mailed, faults>>

-----------------------------------------------------------------------------
(* InviteService.                                                          *)

NewInvite(e, token) ==
  [email |-> e, token |-> token, consumed |-> FALSE, by |-> 0]
Consumed(i, u) ==
  [invites EXCEPT ![i].consumed = TRUE, ![i].by = u]

Pending(i) == i \in InviteIds /\ ~invites[i].consumed

\* A token is generated, mailed and then stored: in this order.
StoreFirst(op) == IF op = "send" THEN "send:store" ELSE "resend:replace"  \* mutant: stored before it is sent
MailFirst(op)  == IF op = "send" THEN "send:email" ELSE "resend:email"

Mints(p, op, e, i) ==
  /\ minted < MaxInvites
  /\ minted' = minted + 1
  /\ calls' = [calls EXCEPT
       ![p] = [NewCall(MailFirst(op), e, i) EXCEPT !.token = minted + 1]]

\* sendInvites, for one address: nothing is sent to a registered one.
SendStart(p) ==
  /\ Begins(p, "send")
  /\ IsSetUp
  /\ \E e \in Emails : Registered(e) = {} /\ Mints(p, "send", e, 0)
  /\ UNCHANGED <<tables, mailed, faults>>

ResendStart(p) ==
  /\ Begins(p, "resend")
  /\ \E i \in InviteIds :
       Pending(i) /\ Mints(p, "resend", invites[i].email, i)
  /\ UNCHANGED <<tables, mailed, faults>>

Mail(p) ==
  /\ \/ At(p, "send:email") /\ Goto(p, "send:store")
     \/ At(p, "resend:email") /\ Goto(p, "resend:replace")
  /\ mailed' = mailed \union {calls[p].token}
  /\ UNCHANGED <<tables, minted, faults>>

Store(p) ==
  /\ At(p, "send:store")
  /\ invites' = Append(invites, NewInvite(calls[p].email, calls[p].token))
  /\ Return(p)
  /\ UNCHANGED <<orgs, users, credentials, admin, minted, mailed, faults>>

\* consumeAndReplace: one transaction, which does not look at consumed.
Replace(p) ==
  /\ At(p, "resend:replace")
  /\ invites' = Append(Consumed(calls[p].invite, 0),
                       NewInvite(calls[p].email, calls[p].token))
  /\ Return(p)
  /\ UNCHANGED <<orgs, users, credentials, admin, minted, mailed, faults>>

RevokeStart(p) ==
  /\ Begins(p, "revoke")
  /\ \E i \in InviteIds :
       /\ Pending(i)
       /\ calls' = [calls EXCEPT ![p] =
                      NewCall("revoke:consume", invites[i].email, i)]
  /\ UNCHANGED <<tables, minted, mailed, faults>>

RevokeConsume(p) ==
  /\ At(p, "revoke:consume")
  /\ invites' = Consumed(calls[p].invite, 0)
  /\ Return(p)
  /\ UNCHANGED <<orgs, users, credentials, admin, minted, mailed, faults>>

\* completeInvite: validateToken, findByEmail, consume, create, consume.
CompleteStart(p) ==
  /\ Begins(p, "complete")
  /\ \E i \in InviteIds :
       /\ Pending(i) /\ invites[i].token \in mailed
       /\ calls' = [calls EXCEPT ![p] =
                      NewCall("complete:email", invites[i].email, i)]
  /\ UNCHANGED <<tables, minted, mailed, faults>>

CompleteCheckEmail(p) ==
  /\ At(p, "complete:email")
  /\ IF Registered(calls[p].email) # {} THEN Return(p)
                                        ELSE Goto(p, "complete:consume")
  /\ UNCHANGED <<tables, minted, mailed, faults>>

\* The invitation is spent before the account exists.
Spent(i) == Consumed(i, 0)

CompleteConsume(p) ==
  /\ At(p, "complete:consume")
  /\ invites' = Spent(calls[p].invite)
  /\ Goto(p, "create:email")
  /\ UNCHANGED <<orgs, users, credentials, admin, minted, mailed, faults>>

CompleteBy(p) ==
  /\ At(p, "complete:by")
  /\ invites' = Consumed(calls[p].invite, calls[p].user)
  /\ Return(p)
  /\ UNCHANGED <<orgs, users, credentials, admin, minted, mailed, faults>>

-----------------------------------------------------------------------------
(* Faults: the pod dies between two awaits, or an await throws.            *)

Die(p) ==
  /\ calls[p] # Idle
  /\ faults < MaxFaults
  /\ faults' = faults + 1
  /\ Return(p)
  /\ UNCHANGED <<tables, minted, mailed>>

-----------------------------------------------------------------------------

Init ==
  /\ orgs = 0 /\ users = <<>> /\ credentials = {} /\ admin = 0
  /\ invites = <<>> /\ minted = 0 /\ mailed = {}
  /\ calls = [p \in Procs |-> Idle]
  /\ faults = 0

Continue(p) ==
  \/ SetupFindOrg(p) \/ SetupCreateOrg(p) \/ SetupFindUser(p)
  \/ SetupCreateUser(p) \/ SetupCredential(p) \/ SetupComplete(p)
  \/ CreateCheckEmail(p) \/ CreateFindOrg(p) \/ CreateUser(p)
  \/ CreateCredential(p)
  \/ Mail(p) \/ Store(p) \/ Replace(p)
  \/ RevokeConsume(p)
  \/ CompleteCheckEmail(p) \/ CompleteConsume(p) \/ CompleteBy(p)

Next ==
  \E p \in Procs :
    \/ SetupStart(p) \/ CreateStart(p) \/ SendStart(p) \/ ResendStart(p)
    \/ RevokeStart(p) \/ CompleteStart(p)
    \/ Continue(p) \/ Die(p)

Spec == Init /\ [][Next]_vars

\* Every await ends, and setup is tried again as long as it is not complete.
Retry == \E p \in Procs : SetupStart(p)
FairSpec == Spec /\ (\A p \in Procs : WF_vars(Continue(p))) /\ WF_vars(Retry)

-----------------------------------------------------------------------------
(* Properties.                                                             *)

Call == [at : Steps, email : Emails \union {"none"}, invite : Nat, org : Nat,
         user : Nat, token : Nat]

\* Type invariant: every reference between the tables is to a row that is
\* there.  A setup that is complete names a user who has a credential and an
\* organization (auth.service.ts:301-337).
AccountsTypeOK ==
  /\ orgs \in Nat
  /\ \A u \in UserIds :
       /\ users[u] \in [email : Emails, role : {"owner", "user"},
                        org : 1..orgs, invite : {0} \union InviteIds]
  /\ credentials \subseteq UserIds
  /\ admin \in {0} \union credentials
  /\ minted \in Nat /\ mailed \subseteq 1..minted
  /\ \A i \in InviteIds :
       invites[i] \in [email : Emails, token : 1..minted, consumed : BOOLEAN,
                       by : {0} \union UserIds]
  /\ calls \in [Procs -> Call]
  /\ faults \in 0..MaxFaults

\* An invitation opens at most one account, for the address it was sent to,
\* and is spent by then, whatever overlaps: a second acceptance, a resend or
\* a revocation (invite.service.ts:336-341).
OneAccountPerInvite ==
  \A i \in InviteIds :
    LET opened == {u \in UserIds : users[u].invite = i}
    IN  /\ Cardinality(opened) <= 1
        /\ opened # {} => invites[i].consumed
        /\ \A u \in opened : users[u].email = invites[i].email

\* No invitation is stored that no mail has carried: a delivery that fails
\* leaves none behind, in a resend the old one stays valid
\* (invite.service.ts:176-182, 281-285).
LiveInvitesWereSent ==
  \A i \in InviteIds : invites[i].token \in mailed

\* However often a setup dies and whatever other attempts overlap it, some
\* attempt is accepted and completes, and setup stays complete
\* (auth.service.ts:290-293).
SetupCompletes == <>[](admin # 0)
=============================================================================
