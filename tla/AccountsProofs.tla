---------------------------- MODULE AccountsProofs ----------------------------
(* What TLAPS proves of Accounts, for any number of requests, addresses,    *)
(* invitations and faults.                                                  *)
EXTENDS Accounts, FiniteSetTheorems, TLAPS

-----------------------------------------------------------------------------
(* The invariant.                                                          *)

UserType   == [email : Emails, role : {"owner", "user"}, org : Nat, invite : Nat]
InviteType == [email : Emails, token : Nat, consumed : BOOLEAN, by : Nat]

Types ==
  /\ orgs \in Nat
  /\ users \in Seq(UserType)
  /\ credentials \subseteq UserIds
  /\ admin \in {0} \union credentials
  /\ invites \in Seq(InviteType)
  /\ minted \in Nat /\ mailed \subseteq 1..minted
  /\ calls \in [Procs -> Call]
  /\ faults \in 0..MaxFaults

\* The references of the rows.
RowsRefer ==
  /\ \A u \in UserIds :
       /\ users[u].org \in 1..orgs
       /\ users[u].invite \in {0} \union InviteIds
  /\ \A i \in InviteIds :
       /\ invites[i].token \in 1..minted
       /\ invites[i].by \in {0} \union UserIds

\* users.email is unique, and the user an invitation opened has its address.
Opened ==
  /\ \A u, v \in UserIds : users[u].email = users[v].email => u = v
  /\ \A u \in UserIds : users[u].invite # 0 =>
       /\ invites[users[u].invite].consumed
       /\ users[u].email = invites[users[u].invite].email

\* Only a delivered token is stored.
Delivered == \A i \in InviteIds : invites[i].token \in mailed

\* What a request knows at each await is still true of the tables.
Creating(c) ==
  c.at \in {"create:email", "create:org", "create:user", "create:credential"}
Knows(c) ==
  /\ c.at # "idle" => c.email \in Emails
  /\ c.at \in {"setup:user", "setup:createUser", "create:user"} => c.org \in 1..orgs
  /\ c.at \in {"setup:credential", "setup:complete", "create:credential",
               "complete:by"} => c.user \in UserIds
  /\ c.at = "setup:complete" => c.user \in credentials
  /\ c.at \in {"send:email", "send:store", "resend:email", "resend:replace"} =>
       c.token \in 1..minted
  /\ c.at \in {"send:store", "resend:replace"} => c.token \in mailed
  /\ c.invite # 0 => c.invite \in InviteIds /\ c.email = invites[c.invite].email
  /\ c.invite # 0 /\ Creating(c) => invites[c.invite].consumed
  /\ c.at \in {"complete:email", "complete:consume"} => c.invite # 0

IInv ==
  /\ Types
  /\ RowsRefer
  /\ Opened
  /\ Delivered
  /\ \A p \in Procs : Knows(calls[p])

-----------------------------------------------------------------------------
(* Sequences that a step appends to or leaves as they are.                 *)

LEMMA Appended ==
  ASSUME NEW S, NEW s \in Seq(S), NEW x \in S
  PROVE  /\ Append(s, x) \in Seq(S)
         /\ DOMAIN s = 1..Len(s) /\ Len(s) \in Nat
         /\ DOMAIN Append(s, x) = 1..(Len(s) + 1)
         /\ \A i \in DOMAIN s : i # Len(s) + 1 /\ Append(s, x)[i] = s[i]
         /\ Append(s, x)[Len(s) + 1] = x
  OBVIOUS

\* Consuming an invitation changes nothing else of it.
LEMMA ConsumedKeeps ==
  ASSUME Types, NEW i \in Nat, NEW u \in Nat
  PROVE  /\ Consumed(i, u) \in Seq(InviteType)
         /\ DOMAIN Consumed(i, u) = InviteIds
         /\ \A j \in InviteIds :
              /\ Consumed(i, u)[j].email = invites[j].email
              /\ Consumed(i, u)[j].token = invites[j].token
              /\ invites[j].consumed => Consumed(i, u)[j].consumed
              /\ Consumed(i, u)[j].by \in {u, invites[j].by}
         /\ i \in InviteIds => Consumed(i, u)[i].consumed
<1> DEFINE c == Consumed(i, u)
<1>1. /\ DOMAIN c = InviteIds
      /\ \A j \in InviteIds :
           c[j] = IF j = i THEN [invites[j] EXCEPT !.consumed = TRUE, !.by = u]
                           ELSE invites[j]
  BY DEF Consumed, Types, InviteIds
<1>2. \A j \in InviteIds : invites[j] \in InviteType
  BY DEF Types, InviteIds
<1>3. \A j \in InviteIds : c[j] \in InviteType
  BY <1>1, <1>2 DEF InviteType
<1>4. InviteIds = 1..Len(invites) /\ Len(invites) \in Nat
  BY DEF Types, InviteIds
<1>5. c \in Seq(InviteType)
  <2>1. c = [j \in InviteIds |-> c[j]]
    BY DEF Consumed, InviteIds
  <2>2. c \in [1..Len(invites) -> InviteType]
    BY <2>1, <1>3, <1>4
  <2> QED
    BY <2>2, <1>4
<1> QED
  BY <1>1, <1>2, <1>5 DEF InviteType

-----------------------------------------------------------------------------
(* The frame: one request moves, the tables grow.                          *)

\* Rows are added, never removed, and keep what a request may know of them.
Grows ==
  /\ orgs' \in Nat /\ orgs <= orgs'
  /\ UserIds \subseteq UserIds'
  /\ credentials \subseteq credentials'
  /\ minted' \in Nat /\ minted <= minted'
  /\ mailed \subseteq mailed'
  /\ InviteIds \subseteq InviteIds'
  /\ \A i \in InviteIds :
       /\ invites'[i].email = invites[i].email
       /\ invites[i].consumed => invites'[i].consumed

\* Only p's call has changed.
Moves(p) ==
  /\ calls' \in [Procs -> Call]
  /\ \A q \in Procs : q # p => calls'[q] = calls[q]

LEMMA OthersKnow ==
  ASSUME IInv, Grows, NEW p \in Procs, Moves(p), Knows(calls[p])'
  PROVE  \A q \in Procs : Knows(calls[q])'
<1> SUFFICES ASSUME NEW q \in Procs, q # p
             PROVE  Knows(calls[q])'
  OBVIOUS
<1>1. calls'[q] = calls[q] /\ Knows(calls[q])
  BY DEF Moves, IInv
<1>2. orgs \in Nat /\ minted \in Nat
  BY DEF IInv, Types
<1> QED
  BY <1>1, <1>2 DEF Knows, Grows, Creating

\* A step that leaves the tables alone.
LEMMA Quiet ==
  ASSUME IInv, NEW p \in Procs, Moves(p), Knows(calls[p])',
         UNCHANGED <<tables, minted, mailed>>, faults' \in 0..MaxFaults
  PROVE  IInv'
<1> USE DEF IInv, Types, tables, UserIds, InviteIds
<1>1. Grows
  BY DEF Grows
<1>2. Types'
  BY DEF Moves
<1>3. RowsRefer' /\ Opened' /\ Delivered'
  BY DEF RowsRefer, Opened, Delivered
<1> QED
  BY <1>1, <1>2, <1>3, OthersKnow

LEMMA CallType ==
  ASSUME IInv, NEW p \in Procs
  PROVE  calls[p] \in Call /\ Knows(calls[p])
  BY DEF IInv, Types

LEMMA GotoMoves ==
  ASSUME IInv, NEW p \in Procs, NEW step \in Steps, Goto(p, step)
  PROVE  /\ Moves(p)
         /\ calls'[p] = [calls[p] EXCEPT !.at = step]
  BY CallType DEF Goto, Moves, IInv, Types, Call

\* As GotoMoves, for a step that also takes a field along.
LEMMA WithOrgMoves ==
  ASSUME IInv, NEW p \in Procs, NEW step \in Steps, NEW o \in Nat,
         calls' = [calls EXCEPT ![p].at = step, ![p].org = o]
  PROVE  /\ Moves(p)
         /\ calls'[p] = [at |-> step, email |-> calls[p].email,
              invite |-> calls[p].invite, org |-> o, user |-> calls[p].user,
              token |-> calls[p].token]
<1> DEFINE c == [at |-> step, email |-> calls[p].email,
              invite |-> calls[p].invite, org |-> o, user |-> calls[p].user,
              token |-> calls[p].token]
<1>1. calls[p] \in Call /\ calls \in [Procs -> Call]
  BY DEF IInv, Types
<1>2. c \in Call
  BY <1>1 DEF Call
<1>3. /\ calls' \in [Procs -> Call]
      /\ \A q \in Procs : q # p => calls'[q] = calls[q]
      /\ calls'[p].at = step /\ calls'[p].org = o
      /\ calls'[p].email = calls[p].email /\ calls'[p].invite = calls[p].invite
      /\ calls'[p].user = calls[p].user /\ calls'[p].token = calls[p].token
  BY <1>1 DEF Call
<1>4. calls'[p] = c
  BY <1>2, <1>3 DEF Call
<1> QED
  BY <1>3, <1>4 DEF Moves

LEMMA WithUserMoves ==
  ASSUME IInv, NEW p \in Procs, NEW step \in Steps, NEW u \in Nat,
         calls' = [calls EXCEPT ![p].at = step, ![p].user = u]
  PROVE  /\ Moves(p)
         /\ calls'[p] = [at |-> step, email |-> calls[p].email,
              invite |-> calls[p].invite, org |-> calls[p].org, user |-> u,
              token |-> calls[p].token]
<1> DEFINE c == [at |-> step, email |-> calls[p].email,
              invite |-> calls[p].invite, org |-> calls[p].org, user |-> u,
              token |-> calls[p].token]
<1>1. calls[p] \in Call /\ calls \in [Procs -> Call]
  BY DEF IInv, Types
<1>2. c \in Call
  BY <1>1 DEF Call
<1>3. /\ calls' \in [Procs -> Call]
      /\ \A q \in Procs : q # p => calls'[q] = calls[q]
      /\ calls'[p].at = step /\ calls'[p].user = u
      /\ calls'[p].email = calls[p].email /\ calls'[p].invite = calls[p].invite
      /\ calls'[p].org = calls[p].org /\ calls'[p].token = calls[p].token
  BY <1>1 DEF Call
<1>4. calls'[p] = c
  BY <1>2, <1>3 DEF Call
<1> QED
  BY <1>3, <1>4 DEF Moves

LEMMA IdleKnows ==
  /\ Idle \in Call
  /\ Knows(Idle) /\ Knows(Idle)'
  BY DEF Idle, NewCall, Call, Knows, Creating, Steps

LEMMA ReturnMoves ==
  ASSUME IInv, NEW p \in Procs, Return(p)
  PROVE  Moves(p) /\ calls'[p] = Idle /\ Knows(calls[p])'
<1>1. Moves(p) /\ calls'[p] = Idle
  BY IdleKnows DEF Return, Moves, IInv, Types
<1> QED
  BY <1>1, IdleKnows DEF Knows, Creating

\* A request begins.
LEMMA BeginMoves ==
  ASSUME IInv, NEW p \in Procs, NEW c \in Call,
         calls' = [calls EXCEPT ![p] = c]
  PROVE  Moves(p) /\ calls'[p] = c
  BY DEF Moves, IInv, Types

LEMMA NewCallType ==
  ASSUME NEW step \in Steps, NEW e \in Emails, NEW i \in Nat
  PROVE  /\ NewCall(step, e, i) \in Call
         /\ NewCall(step, e, i) =
              [at |-> step, email |-> e, invite |-> i, org |-> 0, user |-> 0,
               token |-> 0]
  BY DEF NewCall, Call

LEMMA InviteFacts ==
  ASSUME IInv, NEW i \in InviteIds
  PROVE  /\ i \in Nat /\ i # 0
         /\ invites[i] \in InviteType
         /\ invites[i].email \in Emails
<1>1. InviteIds = 1..Len(invites) /\ Len(invites) \in Nat
  BY DEF IInv, Types, InviteIds
<1>2. invites[i] \in InviteType
  BY <1>1 DEF IInv, Types
<1> QED
  BY <1>1, <1>2 DEF InviteType

-----------------------------------------------------------------------------
(* Steps that only move a request.                                         *)

LEMMA BeginSteps ==
  ASSUME IInv, NEW p \in Procs,
         SetupStart(p) \/ CreateStart(p) \/ RevokeStart(p) \/ CompleteStart(p)
  PROVE  IInv'
<1>0. faults \in 0..MaxFaults
  BY DEF IInv, Types
<1>1. ASSUME NEW e \in Emails,
             calls' = [calls EXCEPT ![p] = NewCall("setup:org", e, 0)],
             UNCHANGED <<tables, minted, mailed, faults>>
      PROVE  IInv'
  <2> DEFINE c == NewCall("setup:org", e, 0)
  <2>1. Moves(p) /\ calls'[p] = c
    BY <1>1, NewCallType, BeginMoves DEF Steps
  <2>2. Knows(calls[p])'
    BY <2>1 DEF Knows, Creating, NewCall
  <2> QED
    BY <1>0, <1>1, <2>1, <2>2, Quiet
<1>2. ASSUME NEW e \in Emails,
             calls' = [calls EXCEPT ![p] = NewCall("create:email", e, 0)],
             UNCHANGED <<tables, minted, mailed, faults>>
      PROVE  IInv'
  <2> DEFINE c == NewCall("create:email", e, 0)
  <2>1. Moves(p) /\ calls'[p] = c
    BY <1>2, NewCallType, BeginMoves DEF Steps
  <2>2. Knows(calls[p])'
    BY <2>1 DEF Knows, Creating, NewCall
  <2> QED
    BY <1>0, <1>2, <2>1, <2>2, Quiet
<1>3. ASSUME NEW i \in InviteIds, NEW step \in {"revoke:consume", "complete:email"},
             calls' = [calls EXCEPT ![p] = NewCall(step, invites[i].email, i)],
             UNCHANGED <<tables, minted, mailed, faults>>
      PROVE  IInv'
  <2> DEFINE c == NewCall(step, invites[i].email, i)
  <2>1. Moves(p) /\ calls'[p] = c
    BY <1>3, InviteFacts, NewCallType, BeginMoves DEF Steps
  <2>2. Knows(calls[p])'
    BY <1>3, <2>1, InviteFacts DEF Knows, Creating, NewCall, tables, InviteIds
  <2> QED
    BY <1>0, <1>3, <2>1, <2>2, Quiet
<1> QED
  BY <1>1, <1>2, <1>3
     DEF SetupStart, CreateStart, RevokeStart, CompleteStart, Pending

\* The checks that precede the writes, and the death of a request.
LEMMA ReadSteps ==
  ASSUME IInv, NEW p \in Procs,
         \/ SetupFindOrg(p) \/ SetupFindUser(p) \/ CreateCheckEmail(p)
         \/ CreateFindOrg(p) \/ CompleteCheckEmail(p) \/ Die(p)
  PROVE  IInv'
<1>0. faults \in 0..MaxFaults /\ MaxFaults \in Nat
  BY AccountsAssumption DEF IInv, Types
<1>1. ASSUME Return(p), UNCHANGED <<tables, minted, mailed>>,
             faults' \in 0..MaxFaults
      PROVE  IInv'
  BY <1>1, ReturnMoves, Quiet
<1>2. ASSUME UNCHANGED <<tables, minted, mailed, faults>>,
             NEW from, NEW to,
             At(p, from), Goto(p, to),
             <<from, to>> \in {<<"setup:org", "setup:createOrg">>,
                               <<"setup:user", "setup:createUser">>,
                               <<"create:email", "create:org">>,
                               <<"complete:email", "complete:consume">>},
             from = "complete:email" => calls[p].invite # 0
      PROVE  IInv'
  <2>1. Moves(p) /\ calls'[p] = [calls[p] EXCEPT !.at = to]
    BY <1>2, GotoMoves DEF Steps
  <2>2. Knows(calls[p])'
    BY <1>2, <2>1, CallType DEF Knows, Creating, At, Call, tables, UserIds, InviteIds
  <2> QED
    BY <1>0, <1>2, <2>1, <2>2, Quiet
\* The organization and the user of an earlier attempt are taken over.
<1>3. ASSUME UNCHANGED <<tables, minted, mailed, faults>>, orgs > 0,
             NEW from, NEW to, At(p, from),
             <<from, to>> \in {<<"setup:org", "setup:user">>,
                               <<"create:org", "create:user">>},
             calls' = [calls EXCEPT ![p].at = to, ![p].org = 1]
      PROVE  IInv'
  <2>1. to \in {"setup:user", "create:user"} /\ to \in Steps
    BY <1>3 DEF Steps
  <2>2. calls'[p] = [at |-> to, email |-> calls[p].email,
                     invite |-> calls[p].invite, org |-> 1,
                     user |-> calls[p].user, token |-> calls[p].token] /\ Moves(p)
    BY <1>3, <2>1, WithOrgMoves
  <2>3. 1 \in 1..orgs
    BY <1>3 DEF IInv, Types
  <2>4. Knows(calls[p])'
    BY <1>3, <2>1, <2>2, <2>3, CallType DEF Knows, Creating, At, tables, UserIds, InviteIds
  <2> QED
    BY <1>0, <1>3, <2>2, <2>4, Quiet
<1>4. ASSUME UNCHANGED <<tables, minted, mailed, faults>>, NEW u \in UserIds,
             At(p, "setup:user"),
             calls' = [calls EXCEPT ![p].at = "setup:credential", ![p].user = u]
      PROVE  IInv'
  <2>1. u \in Nat
    BY DEF IInv, Types, UserIds
  <2>2. calls'[p] = [at |-> "setup:credential", email |-> calls[p].email,
                     invite |-> calls[p].invite, org |-> calls[p].org,
                     user |-> u, token |-> calls[p].token] /\ Moves(p)
    BY <1>4, <2>1, WithUserMoves, ZenonT(60) DEF Steps
  <2>3. Knows(calls[p])'
    BY <1>4, <2>2, CallType DEF Knows, Creating, At, tables, UserIds, InviteIds
  <2> QED
    BY <1>0, <1>4, <2>2, <2>3, Quiet
<1>5. CASE SetupFindOrg(p)
  <2>1. CASE orgs > 0
    BY <1>3, <1>5, <2>1 DEF SetupFindOrg
  <2>2. CASE ~(orgs > 0)
    BY <1>2, <1>5, <2>2 DEF SetupFindOrg
  <2> QED
    BY <2>1, <2>2
<1>6. CASE SetupFindUser(p)
  <2>1. CASE PriorUser(calls[p].email) # {}
    BY <1>4, <1>6, <2>1 DEF SetupFindUser, PriorUser, Registered, CredentialFirst
  <2>2. CASE ~(PriorUser(calls[p].email) # {})
    BY <1>2, <1>6, <2>2 DEF SetupFindUser
  <2> QED
    BY <2>1, <2>2
<1>7. CASE CreateCheckEmail(p)
  BY <1>0, <1>1, <1>2, <1>7 DEF CreateCheckEmail
<1>8. CASE CreateFindOrg(p)
  <2>1. CASE orgs > 0
    BY <1>3, <1>8, <2>1 DEF CreateFindOrg
  <2>2. CASE ~(orgs > 0)
    BY <1>0, <1>1, <1>8, <2>2 DEF CreateFindOrg
  <2> QED
    BY <2>1, <2>2
<1>9. CASE CompleteCheckEmail(p)
  <2>1. calls[p].at = "complete:email" => calls[p].invite # 0
    BY CallType DEF Knows
  <2> QED
    BY <1>0, <1>1, <1>2, <1>9, <2>1 DEF CompleteCheckEmail, At
<1>10. CASE Die(p)
  BY <1>0, <1>1, <1>10 DEF Die
<1> QED
  BY <1>5, <1>6, <1>7, <1>8, <1>9, <1>10

-----------------------------------------------------------------------------
(* Steps that write.                                                       *)

LEMMA Together ==
  ASSUME IInv, NEW p \in Procs, Moves(p), Knows(calls[p])', Grows,
         Types', RowsRefer', Opened', Delivered'
  PROVE  IInv'
  BY OthersKnow DEF IInv

\* A user is added under an address that nobody has.
LEMMA UserAdded ==
  ASSUME IInv, NEW p \in Procs, Moves(p),
         NEW e \in Emails, Registered(e) = {},
         NEW role \in {"owner", "user"}, NEW o \in 1..orgs,
         NEW i \in {0} \union InviteIds,
         i # 0 => invites[i].consumed /\ invites[i].email = e,
         users' = Append(users, NewUser(e, role, o, i)),
         UNCHANGED <<orgs, credentials, admin, invites, minted, mailed, faults>>
  PROVE  /\ Types' /\ RowsRefer' /\ Opened' /\ Delivered' /\ Grows
         /\ Len(users) + 1 \in UserIds' /\ Len(users) + 1 \in Nat
<1> DEFINE new == NewUser(e, role, o, i)
<1>1. orgs \in Nat /\ InviteIds \subseteq Nat
  BY InviteFacts DEF IInv, Types
<1>2. new \in UserType /\ new.email = e /\ new.org = o /\ new.invite = i
  BY <1>1 DEF NewUser, UserType
<1> HIDE DEF new
<1>3. users \in Seq(UserType)
  BY DEF IInv, Types
<1>4. /\ users' \in Seq(UserType)
      /\ UserIds = 1..Len(users) /\ Len(users) \in Nat
      /\ UserIds' = 1..(Len(users) + 1)
      /\ \A u \in UserIds : users'[u] = users[u]
      /\ users'[Len(users) + 1] = new
  BY <1>2, <1>3, Appended DEF UserIds, new
<1>5. UserIds \subseteq UserIds' /\ UserIds' = UserIds \union {Len(users) + 1}
  BY <1>4
<1>6. Types'
  BY <1>4, <1>5 DEF IInv, Types, Moves, UserIds
<1>7. RowsRefer'
  BY <1>2, <1>4, <1>5 DEF IInv, RowsRefer, InviteIds
<1>8. \A u \in UserIds : users[u].email # e
  BY DEF Registered
<1>9. Opened'
  <2>1. \A u, v \in UserIds' : users'[u].email = users'[v].email => u = v
    BY <1>2, <1>4, <1>5, <1>8 DEF IInv, Opened
  <2>2. \A u \in UserIds' : users'[u].invite # 0 =>
          /\ invites'[users'[u].invite].consumed
          /\ users'[u].email = invites'[users'[u].invite].email
    BY <1>2, <1>4, <1>5 DEF IInv, Opened
  <2> QED
    BY <2>1, <2>2 DEF Opened
<1>10. Delivered' /\ Grows
  BY <1>5 DEF IInv, Types, Delivered, Grows, InviteIds
<1> QED
  BY <1>4, <1>6, <1>7, <1>9, <1>10

\* A credential is saved for a user that exists, or setup marked complete.
LEMMA CredentialSaved ==
  ASSUME IInv, NEW p \in Procs, Moves(p), Knows(calls[p])',
         credentials \subseteq credentials', credentials' \subseteq UserIds,
         admin' \in {0} \union credentials',
         UNCHANGED <<orgs, users, invites, minted, mailed, faults>>
  PROVE  IInv'
<1>1. Grows
  BY DEF IInv, Types, Grows, UserIds, InviteIds
<1>2. Types' /\ RowsRefer' /\ Opened' /\ Delivered'
  BY DEF IInv, Types, Moves, RowsRefer, Opened, Delivered, UserIds, InviteIds
<1> QED
  BY <1>1, <1>2, Together

\* A stored invitation is consumed, by u or by nobody.
LEMMA InviteConsumed ==
  ASSUME IInv, NEW p \in Procs, Moves(p), NEW i \in Nat,
         NEW u \in {0} \union UserIds,
         invites' = Consumed(i, u),
         UNCHANGED <<orgs, users, credentials, admin, minted, mailed, faults>>
  PROVE  /\ Types' /\ RowsRefer' /\ Opened' /\ Delivered' /\ Grows
         /\ InviteIds' = InviteIds
         /\ i \in InviteIds => invites'[i].consumed
<1>1. Types /\ u \in Nat
  BY DEF IInv, Types, UserIds
<1>2. /\ invites' \in Seq(InviteType)
      /\ InviteIds' = InviteIds
      /\ \A j \in InviteIds :
           /\ invites'[j].email = invites[j].email
           /\ invites'[j].token = invites[j].token
           /\ invites[j].consumed => invites'[j].consumed
           /\ invites'[j].by \in {u, invites[j].by}
      /\ i \in InviteIds => invites'[i].consumed
  BY <1>1, ConsumedKeeps DEF InviteIds
<1>3. Types' /\ Grows
  BY <1>2 DEF IInv, Types, Moves, Grows, UserIds
<1>4. RowsRefer'
  BY <1>2 DEF IInv, RowsRefer, UserIds
<1>5. Opened'
  BY <1>2 DEF IInv, Opened, RowsRefer, UserIds
<1>6. Delivered'
  BY <1>2 DEF IInv, Delivered
<1> QED
  BY <1>2, <1>3, <1>4, <1>5, <1>6

\* An invitation is added, the others keep what matters of them.
LEMMA InviteAdded ==
  ASSUME IInv, NEW p \in Procs, Moves(p), NEW kept \in Seq(InviteType),
         DOMAIN kept = InviteIds,
         \A j \in InviteIds :
           /\ kept[j].email = invites[j].email
           /\ kept[j].token = invites[j].token
           /\ invites[j].consumed => kept[j].consumed
           /\ kept[j].by \in {0, invites[j].by},
         NEW e \in Emails, NEW t \in 1..minted, t \in mailed,
         invites' = Append(kept, NewInvite(e, t)),
         UNCHANGED <<orgs, users, credentials, admin, minted, mailed, faults>>
  PROVE  Types' /\ RowsRefer' /\ Opened' /\ Delivered' /\ Grows
<1> DEFINE new == NewInvite(e, t)
<1>1. minted \in Nat
  BY DEF IInv, Types
<1>2. new \in InviteType /\ new.token = t /\ new.by = 0
  BY <1>1 DEF NewInvite, InviteType
<1> HIDE DEF new
<1>3. /\ invites' \in Seq(InviteType)
      /\ InviteIds = 1..Len(kept) /\ Len(kept) \in Nat
      /\ InviteIds' = 1..(Len(kept) + 1)
      /\ \A j \in InviteIds : invites'[j] = kept[j]
      /\ invites'[Len(kept) + 1] = new
  BY <1>2, Appended DEF InviteIds, new
<1>4. InviteIds' = InviteIds \union {Len(kept) + 1}
  BY <1>3
<1>5. Types' /\ Grows
  BY <1>3, <1>4 DEF IInv, Types, Moves, Grows, UserIds
<1>6. RowsRefer'
  BY <1>2, <1>3, <1>4 DEF IInv, RowsRefer, UserIds
<1>7. Opened'
  BY <1>3, <1>4 DEF IInv, Opened, RowsRefer, UserIds
<1>8. Delivered'
  BY <1>2, <1>3, <1>4 DEF IInv, Delivered
<1> QED
  BY <1>5, <1>6, <1>7, <1>8

-----------------------------------------------------------------------------
(* The writing steps of each handler.                                      *)

LEMMA SetupSteps ==
  ASSUME IInv, NEW p \in Procs,
         \/ SetupCreateOrg(p) \/ SetupCreateUser(p)
         \/ SetupCredential(p) \/ SetupComplete(p)
  PROVE  IInv'
<1> USE DEF At
<1>0. calls[p] \in Call /\ Knows(calls[p])
  BY CallType
<1>1. CASE SetupCreateOrg(p)
  <2>1. orgs \in Nat /\ orgs + 1 \in Nat /\ orgs + 1 \in 1..(orgs + 1)
    BY DEF IInv, Types
  <2>2. /\ Moves(p)
        /\ calls'[p] = [at |-> "setup:user", email |-> calls[p].email,
              invite |-> calls[p].invite, org |-> orgs + 1,
              user |-> calls[p].user, token |-> calls[p].token]
    BY <1>1, <2>1, WithOrgMoves, ZenonT(60) DEF SetupCreateOrg, Steps
  <2>3. Knows(calls[p])'
    BY <1>0, <1>1, <2>1, <2>2 DEF SetupCreateOrg, Knows, Creating, UserIds, InviteIds
  <2>4. Types' /\ Grows /\ Opened' /\ Delivered'
    BY <1>1, <2>1, <2>2
       DEF SetupCreateOrg, IInv, Types, Moves, Grows, Opened, Delivered, UserIds, InviteIds
  <2>5. RowsRefer'
    BY <1>1, <2>1 DEF SetupCreateOrg, IInv, RowsRefer, UserIds, InviteIds
  <2> QED
    BY <2>2, <2>3, <2>4, <2>5, Together
<1>2. CASE SetupCreateUser(p)
  <2>1. CASE UniqueEmailFails(calls[p].email)
    <3>1. Return(p) /\ UNCHANGED <<tables, minted, mailed, faults>>
      BY <1>2, <2>1 DEF SetupCreateUser, tables
    <3>2. faults' \in 0..MaxFaults
      BY <3>1 DEF IInv, Types
    <3> QED
      BY <3>1, <3>2, ReturnMoves, Quiet
  <2>2. CASE ~UniqueEmailFails(calls[p].email)
    <3> DEFINE e == calls[p].email
    <3>1. /\ users' = Append(users, NewUser(e, "owner", calls[p].org, 0))
          /\ calls' = [calls EXCEPT ![p].at = "setup:credential",
                                    ![p].user = Len(users) + 1]
          /\ UNCHANGED <<orgs, credentials, admin, invites, minted, mailed, faults>>
      BY <1>2, <2>2 DEF SetupCreateUser, CredentialFirst
    <3>2. e \in Emails /\ Registered(e) = {} /\ calls[p].org \in 1..orgs
      BY <1>0, <1>2, <2>2 DEF SetupCreateUser, Knows, UniqueEmailFails
    <3>3. Len(users) + 1 \in Nat
      BY DEF IInv, Types
    <3>4. /\ Moves(p)
          /\ calls'[p] = [at |-> "setup:credential", email |-> e,
                invite |-> calls[p].invite, org |-> calls[p].org,
                user |-> Len(users) + 1, token |-> calls[p].token]
      BY <3>1, <3>3, WithUserMoves, ZenonT(60) DEF Steps
    <3>5. /\ Types' /\ RowsRefer' /\ Opened' /\ Delivered' /\ Grows
          /\ Len(users) + 1 \in UserIds'
      BY <3>1, <3>2, <3>4, UserAdded
    <3>6. Knows(calls[p])'
      BY <1>0, <3>1, <3>2, <3>4, <3>5 DEF Knows, Creating, InviteIds
    <3> QED
      BY <3>4, <3>5, <3>6, Together
  <2> QED
    BY <2>1, <2>2
<1>3. CASE SetupCredential(p)
  <2>1. /\ Moves(p)
        /\ calls'[p] = [calls[p] EXCEPT !.at = "setup:complete"]
    BY <1>3, GotoMoves DEF SetupCredential, Steps
  <2>2. calls[p].user \in UserIds
    BY <1>0, <1>3 DEF SetupCredential, Knows
  <2>3. Knows(calls[p])'
    BY <1>0, <1>3, <2>1, <2>2
       DEF SetupCredential, Call, Knows, Creating, UserIds, InviteIds
  <2>4. /\ credentials' \subseteq UserIds
        /\ credentials \subseteq credentials'
        /\ admin' \in {0} \union credentials'
    BY <1>3, <2>2 DEF SetupCredential, IInv, Types
  <2> QED
    BY <1>3, <2>1, <2>3, <2>4, CredentialSaved DEF SetupCredential
<1>4. CASE SetupComplete(p)
  <2>1. Moves(p) /\ Knows(calls[p])'
    BY <1>4, ReturnMoves DEF SetupComplete
  <2>2. admin' \in credentials /\ credentials \subseteq UserIds
    BY <1>0, <1>4 DEF SetupComplete, Knows, IInv, Types
  <2> QED
    BY <1>4, <2>1, <2>2, CredentialSaved DEF SetupComplete
<1> QED
  BY <1>1, <1>2, <1>3, <1>4

LEMMA CreateSteps ==
  ASSUME IInv, NEW p \in Procs, CreateUser(p) \/ CreateCredential(p)
  PROVE  IInv'
<1> USE DEF At
<1>0. calls[p] \in Call /\ Knows(calls[p])
  BY CallType
<1>1. CASE CreateUser(p)
  <2>1. CASE UniqueEmailFails(calls[p].email)
    <3>1. Return(p) /\ UNCHANGED <<tables, minted, mailed, faults>>
      BY <1>1, <2>1 DEF CreateUser, tables
    <3>2. faults' \in 0..MaxFaults
      BY <3>1 DEF IInv, Types
    <3> QED
      BY <3>1, <3>2, ReturnMoves, Quiet
  <2>2. CASE ~UniqueEmailFails(calls[p].email)
    <3> DEFINE e == calls[p].email
               i == calls[p].invite
    <3>1. /\ users' = Append(users, NewUser(e, "user", calls[p].org, i))
          /\ UNCHANGED <<orgs, credentials, admin, invites, minted, mailed, faults>>
          /\ \/ calls' = [calls EXCEPT ![p].at = "create:credential",
                                       ![p].user = Len(users) + 1]
             \/ i = 0 /\ Return(p)
      BY <1>1, <2>2 DEF CreateUser
    <3>2. /\ e \in Emails /\ Registered(e) = {} /\ calls[p].org \in 1..orgs
          /\ i \in {0} \union InviteIds
          /\ i # 0 => invites[i].consumed /\ invites[i].email = e
      BY <1>0, <1>1, <2>2 DEF CreateUser, Knows, Creating, UniqueEmailFails
    <3>3. Len(users) + 1 \in Nat
      BY DEF IInv, Types
    <3>4. CASE calls' = [calls EXCEPT ![p].at = "create:credential",
                                      ![p].user = Len(users) + 1]
      <4>1. /\ Moves(p)
            /\ calls'[p] = [at |-> "create:credential", email |-> e,
                  invite |-> i, org |-> calls[p].org,
                  user |-> Len(users) + 1, token |-> calls[p].token]
        BY <3>3, <3>4, WithUserMoves, ZenonT(60) DEF Steps
      <4>2. /\ Types' /\ RowsRefer' /\ Opened' /\ Delivered' /\ Grows
            /\ Len(users) + 1 \in UserIds'
        BY <3>1, <3>2, <4>1, UserAdded
      <4>3. Knows(calls[p])'
        BY <3>1, <3>2, <4>1, <4>2 DEF Knows, Creating, InviteIds
      <4> QED
        BY <4>1, <4>2, <4>3, Together
    <3>5. CASE i = 0 /\ Return(p)
      <4>1. Moves(p) /\ Knows(calls[p])'
        BY <3>5, ReturnMoves
      <4>2. Types' /\ RowsRefer' /\ Opened' /\ Delivered' /\ Grows
        BY <3>1, <3>2, <4>1, UserAdded
      <4> QED
        BY <4>1, <4>2, Together
    <3> QED
      BY <3>1, <3>4, <3>5
  <2> QED
    BY <2>1, <2>2
<1>2. CASE CreateCredential(p)
  <2>1. calls[p].user \in UserIds
    BY <1>0, <1>2 DEF CreateCredential, Knows
  <2>2. /\ credentials' \subseteq UserIds
        /\ credentials \subseteq credentials'
        /\ admin' \in {0} \union credentials'
    BY <1>2, <2>1 DEF CreateCredential, IInv, Types
  <2>3. CASE Return(p)
    BY <1>2, <2>2, <2>3, ReturnMoves, CredentialSaved DEF CreateCredential
  <2>4. CASE Goto(p, "complete:by")
    <3>1. /\ Moves(p)
          /\ calls'[p] = [calls[p] EXCEPT !.at = "complete:by"]
      BY <2>4, GotoMoves DEF Steps
    <3>2. Knows(calls[p])'
      BY <1>0, <1>2, <2>1, <3>1
         DEF CreateCredential, Call, Knows, Creating, UserIds, InviteIds
    <3> QED
      BY <1>2, <2>2, <3>1, <3>2, CredentialSaved DEF CreateCredential
  <2> QED
    BY <1>2, <2>3, <2>4 DEF CreateCredential
<1> QED
  BY <1>1, <1>2

\* A token is generated, then mailed, then stored.
LEMMA TokenSteps ==
  ASSUME IInv, NEW p \in Procs,
         \/ SendStart(p) \/ ResendStart(p) \/ Mail(p) \/ Store(p) \/ Replace(p)
  PROVE  IInv'
<1> USE DEF At
<1>0. calls[p] \in Call /\ Knows(calls[p])
  BY CallType
<1>1. ASSUME NEW op \in {"send", "resend"}, NEW e \in Emails,
             NEW i \in {0} \union InviteIds, i # 0 => invites[i].email = e,
             Mints(p, op, e, i), UNCHANGED <<tables, mailed, faults>>
      PROVE  IInv'
  <2> DEFINE step == MailFirst(op)
             c == [at |-> step, email |-> e, invite |-> i, org |-> 0, user |-> 0,
                   token |-> minted + 1]
  <2>1. minted \in Nat /\ i \in Nat
    BY InviteFacts DEF IInv, Types
  <2>2. step \in {"send:email", "resend:email"} /\ step \in Steps
    BY DEF MailFirst, Steps
  <2>3. c \in Call
    BY <2>1, <2>2 DEF Call
  <2>4. calls' = [calls EXCEPT ![p] = c]
    <3> DEFINE d == NewCall(step, e, i)
    <3>1. d = [at |-> step, email |-> e, invite |-> i, org |-> 0, user |-> 0,
               token |-> 0]
      BY DEF NewCall
    <3> HIDE DEF d
    <3>2. [d EXCEPT !.token = minted + 1] = c
      BY <3>1
    <3>3. calls' = [calls EXCEPT ![p] = [d EXCEPT !.token = minted + 1]]
      BY <1>1 DEF Mints, d
    <3> HIDE DEF c
    <3> QED
      BY <3>2, <3>3
  <2>5. Moves(p) /\ calls'[p] = c
    BY <2>3, <2>4, BeginMoves
  <2>6. minted' = minted + 1
    BY <1>1 DEF Mints
  <2>7. Knows(calls[p])'
    BY <1>1, <2>1, <2>2, <2>5, <2>6 DEF Knows, Creating, tables, InviteIds
  <2>8. Types' /\ Grows
    BY <1>1, <2>1, <2>5, <2>6
       DEF IInv, Types, Moves, Grows, tables, UserIds, InviteIds
  <2>9. RowsRefer' /\ Opened' /\ Delivered'
    BY <1>1, <2>1, <2>6
       DEF IInv, RowsRefer, Opened, Delivered, tables, UserIds, InviteIds
  <2> QED
    BY <2>5, <2>7, <2>8, <2>9, Together
<1>2. CASE SendStart(p)
  BY <1>1, <1>2 DEF SendStart
<1>3. CASE ResendStart(p)
  BY <1>1, <1>3, InviteFacts DEF ResendStart
<1>4. CASE Mail(p)
  <2> DEFINE step == IF calls[p].at = "send:email" THEN "send:store"
                                                   ELSE "resend:replace"
  <2>1. Goto(p, step) /\ calls[p].at \in {"send:email", "resend:email"}
    BY <1>4 DEF Mail
  <2>2. Moves(p) /\ calls'[p] = [calls[p] EXCEPT !.at = step]
    BY <2>1, GotoMoves DEF Steps
  <2>3. calls[p].token \in 1..minted /\ mailed' = mailed \union {calls[p].token}
    BY <1>0, <1>4, <2>1 DEF Mail, Knows
  <2>4. Knows(calls[p])'
    BY <1>0, <1>4, <2>1, <2>2, <2>3
       DEF Mail, Call, Knows, Creating, tables, UserIds, InviteIds
  <2>5. Types' /\ Grows
    BY <1>4, <2>2, <2>3
       DEF Mail, IInv, Types, Moves, Grows, tables, UserIds, InviteIds
  <2>6. RowsRefer' /\ Opened' /\ Delivered'
    BY <1>4, <2>3
       DEF Mail, IInv, RowsRefer, Opened, Delivered, tables, UserIds, InviteIds
  <2> QED
    BY <2>2, <2>4, <2>5, <2>6, Together
<1>5. CASE Store(p)
  <2>1. /\ calls[p].email \in Emails
        /\ calls[p].token \in 1..minted /\ calls[p].token \in mailed
    BY <1>0, <1>5 DEF Store, Knows
  <2>2. Moves(p) /\ Knows(calls[p])'
    BY <1>5, ReturnMoves DEF Store
  <2>3. invites \in Seq(InviteType)
    BY DEF IInv, Types
  <2>4. Types' /\ RowsRefer' /\ Opened' /\ Delivered' /\ Grows
    BY <1>5, <2>1, <2>2, <2>3, InviteAdded DEF Store, InviteIds
  <2> QED
    BY <2>2, <2>4, Together
<1>6. CASE Replace(p)
  <2> DEFINE kept == Consumed(calls[p].invite, 0)
  <2>1. /\ calls[p].email \in Emails /\ calls[p].invite \in Nat
        /\ calls[p].token \in 1..minted /\ calls[p].token \in mailed
    BY <1>0, <1>6 DEF Replace, Knows, Call
  <2>2. Moves(p) /\ Knows(calls[p])'
    BY <1>6, ReturnMoves DEF Replace
  <2>3. /\ kept \in Seq(InviteType) /\ DOMAIN kept = InviteIds
        /\ \A j \in InviteIds :
             /\ kept[j].email = invites[j].email
             /\ kept[j].token = invites[j].token
             /\ invites[j].consumed => kept[j].consumed
             /\ kept[j].by \in {0, invites[j].by}
    BY <2>1, ConsumedKeeps DEF IInv
  <2>4. Types' /\ RowsRefer' /\ Opened' /\ Delivered' /\ Grows
    BY <1>6, <2>1, <2>2, <2>3, InviteAdded DEF Replace
  <2> QED
    BY <2>2, <2>4, Together
<1> QED
  BY <1>2, <1>3, <1>4, <1>5, <1>6

\* An invitation is revoked, or accepted.
LEMMA ConsumingSteps ==
  ASSUME IInv, NEW p \in Procs,
         RevokeConsume(p) \/ CompleteConsume(p) \/ CompleteBy(p)
  PROVE  IInv'
<1> USE DEF At
<1>0. calls[p] \in Call /\ Knows(calls[p]) /\ calls[p].invite \in Nat
  BY CallType DEF Call
<1>1. CASE RevokeConsume(p)
  <2>1. Moves(p) /\ Knows(calls[p])'
    BY <1>1, ReturnMoves DEF RevokeConsume
  <2>2. Types' /\ RowsRefer' /\ Opened' /\ Delivered' /\ Grows
    BY <1>0, <1>1, <2>1, InviteConsumed DEF RevokeConsume
  <2> QED
    BY <2>1, <2>2, Together
<1>2. CASE CompleteConsume(p)
  <2>1. /\ Moves(p)
        /\ calls'[p] = [calls[p] EXCEPT !.at = "create:email"]
    BY <1>2, GotoMoves DEF CompleteConsume, Steps
  <2>2. /\ Types' /\ RowsRefer' /\ Opened' /\ Delivered' /\ Grows
        /\ InviteIds' = InviteIds
        /\ calls[p].invite \in InviteIds => invites'[calls[p].invite].consumed
    BY <1>0, <1>2, <2>1, InviteConsumed DEF CompleteConsume, Spent
  <2>3. Knows(calls[p])'
    BY <1>0, <1>2, <2>1, <2>2 DEF CompleteConsume, Call, Knows, Creating, Grows
  <2> QED
    BY <2>1, <2>2, <2>3, Together
<1>3. CASE CompleteBy(p)
  <2>1. Moves(p) /\ Knows(calls[p])'
    BY <1>3, ReturnMoves DEF CompleteBy
  <2>2. calls[p].user \in UserIds
    BY <1>0, <1>3 DEF CompleteBy, Knows
  <2>3. Types' /\ RowsRefer' /\ Opened' /\ Delivered' /\ Grows
    BY <1>0, <1>3, <2>1, <2>2, InviteConsumed DEF CompleteBy
  <2> QED
    BY <2>1, <2>3, Together
<1> QED
  BY <1>1, <1>2, <1>3

-----------------------------------------------------------------------------
(* The theorems.                                                           *)

LEMMA InitInv == Init => IInv
<1> SUFFICES ASSUME Init PROVE IInv
  OBVIOUS
<1>1. Types
  BY AccountsAssumption, IdleKnows DEF Init, Types, UserIds
<1>2. RowsRefer /\ Opened /\ Delivered
  BY DEF Init, RowsRefer, Opened, Delivered, UserIds, InviteIds
<1>3. \A p \in Procs : Knows(calls[p])
  BY IdleKnows DEF Init
<1> QED
  BY <1>1, <1>2, <1>3 DEF IInv

LEMMA NextInv == IInv /\ [Next]_vars => IInv'
<1> SUFFICES ASSUME IInv, [Next]_vars PROVE IInv'
  OBVIOUS
<1>1. CASE UNCHANGED vars
  BY <1>1 DEF vars, tables, IInv, Types, RowsRefer, Opened, Delivered, Knows,
              Creating, UserIds, InviteIds
<1>2. CASE Next
  <2>1. PICK p \in Procs :
          \/ SetupStart(p) \/ CreateStart(p) \/ SendStart(p) \/ ResendStart(p)
          \/ RevokeStart(p) \/ CompleteStart(p)
          \/ Continue(p) \/ Die(p)
    BY <1>2 DEF Next
  <2> QED
    BY <2>1, BeginSteps, ReadSteps, SetupSteps, CreateSteps, TokenSteps,
       ConsumingSteps DEF Continue
<1> QED
  BY <1>1, <1>2

\* The inductive invariant of the tables and the requests on them.
THEOREM Invariant == Spec => []IInv
  BY InitInv, NextInv, PTL DEF Spec

\* Every reference between the tables is to a row that is there, and a setup
\* that is complete names a user who has a credential, though no handler has
\* a transaction and any may die between two awaits.
THEOREM AccountsTypeCorrect == Spec => []AccountsTypeOK
<1>1. IInv => AccountsTypeOK
  <2> SUFFICES ASSUME IInv PROVE AccountsTypeOK
    OBVIOUS
  <2>1. /\ \A u \in UserIds : users[u] \in UserType
        /\ \A i \in InviteIds : invites[i] \in InviteType
    BY DEF IInv, Types, UserIds, InviteIds
  <2>2. \A u \in UserIds :
          users[u] \in [email : Emails, role : {"owner", "user"},
                        org : 1..orgs, invite : {0} \union InviteIds]
    BY <2>1 DEF IInv, RowsRefer, UserType
  <2>3. \A i \in InviteIds :
          invites[i] \in [email : Emails, token : 1..minted, consumed : BOOLEAN,
                          by : {0} \union UserIds]
    BY <2>1 DEF IInv, RowsRefer, InviteType
  <2> QED
    BY <2>2, <2>3 DEF IInv, Types, AccountsTypeOK
<1> QED
  BY <1>1, Invariant, PTL

\* However acceptances, resends, revocations and deaths overlap, an invitation
\* opens at most one account, for its own address, and is spent by then.
THEOREM OneAccountPerInviteHolds == Spec => []OneAccountPerInvite
<1>1. IInv => OneAccountPerInvite
  <2> SUFFICES ASSUME IInv, NEW i \in InviteIds
               PROVE  LET opened == {u \in UserIds : users[u].invite = i}
                      IN  /\ Cardinality(opened) <= 1
                          /\ opened # {} => invites[i].consumed
                          /\ \A u \in opened : users[u].email = invites[i].email
    BY DEF OneAccountPerInvite
  <2> DEFINE opened == {u \in UserIds : users[u].invite = i}
  <2>1. i # 0
    BY InviteFacts
  <2>2. \A u \in opened :
          invites[i].consumed /\ users[u].email = invites[i].email
    BY <2>1 DEF IInv, Opened
  <2>3. \A u, v \in opened : u = v
    BY <2>2 DEF IInv, Opened
  <2>4. Cardinality(opened) <= 1
    <3>1. CASE opened = {}
      BY <3>1, FS_EmptySet
    <3>2. ASSUME NEW u \in opened PROVE Cardinality(opened) <= 1
      <4>1. opened = {u}
        BY <2>3, <3>2
      <4> HIDE DEF opened
      <4>2. Cardinality({u}) = 1
        BY FS_Singleton, Zenon
      <4> QED
        BY <4>1, <4>2
    <3> QED
      BY <3>1, <3>2
  <2> QED
    BY <2>2, <2>4
<1> QED
  BY <1>1, Invariant, PTL

\* No invitation is stored whose token no delivered mail has carried.
THEOREM LiveInvitesWereSentHolds == Spec => []LiveInvitesWereSent
<1>1. IInv => LiveInvitesWereSent
  BY DEF IInv, Delivered, LiveInvitesWereSent
<1> QED
  BY <1>1, Invariant, PTL
=============================================================================
