----------------------------- MODULE Marketplace -----------------------------
(***************************************************************************)
(* The marketplace life cycle of ONE skill: its submissions, its listing,  *)
(* the owner's removal requests, its version snapshots and its status, as  *)
(* the NestJS handlers change them through Postgres.                       *)
(*                                                                         *)
(* Every row a handler reads or writes is keyed by one skill id, so one    *)
(* skill is the whole of what the handlers can interfere on.  Each element *)
(* of Procs is one request being served.  A handler is a sequence of       *)
(* awaits; every await is an action of its own, and what the handler has   *)
(* read so far is kept in calls[p].  Transactions run at READ COMMITTED:   *)
(* a statement takes the row locks it needs (held[p]) and waits for a row  *)
(* another transaction holds; the writes become visible together at the    *)
(* commit.                                                                 *)
(***************************************************************************)
EXTENDS Naturals

CONSTANTS
  Procs,              \* concurrent requests
  Ops,                \* handlers that may be called in this instance
  Owner, Admins,      \* the skill's owner and the admins of the owner's org
  AllowSelfApproval,  \* organizations.marketplaceAllowSelfApproval
  InitialStatuses,    \* statuses skills are created with
  OwnerStatuses,      \* statuses the owner writes with PUT /skills/:id
  MaxSubs, MaxVersion, MaxReqs,  \* bounds on rows ever created
  Faults              \* TRUE when a call may die between two awaits

Operations == {"submit", "approve", "reject", "removeVersion",
               "requestRemoval", "approveRemoval", "rejectRemoval",
               "removeFromMarketplace", "delete", "update", "optimize"}
SkillStatuses == {"draft", "ready", "in_review", "published"}

ASSUME ConstantsAssumption ==
  /\ Ops \subseteq Operations
  /\ AllowSelfApproval \in BOOLEAN /\ Faults \in BOOLEAN
  /\ InitialStatuses \subseteq SkillStatuses
  /\ OwnerStatuses \subseteq SkillStatuses
  /\ MaxSubs \in Nat \ {0} /\ MaxVersion \in Nat \ {0} /\ MaxReqs \in Nat \ {0}

Subs     == 1..MaxSubs      \* ids in creation order: the order of submittedAt
Versions == 1..MaxVersion
Reqs     == 1..MaxReqs

VARIABLES
  skill,        \* skills.status, or "deleted"
  version,      \* skills.version
  snapshots,    \* the versions skill_versions has a row for
  evalData,     \* eval cases, runs, feedback and session messages exist
  submissions,  \* marketplace_submissions
  listing,      \* marketplace_listings: one row per skill (skillId is UNIQUE)
  requests,     \* marketplace_removal_requests
  calls,        \* the request each process is serving
  held          \* row locks of each process's open transaction

db   == <<skill, version, snapshots, evalData, submissions, listing, requests>>
vars == <<db, calls, held>>

SubStatuses     == {"pending_review", "approved", "rejected", "removed"}
ListingStatuses == {"active", "removal_requested", "removed"}
ReqStatuses     == {"pending", "approved", "rejected"}

Submission == [status : SubStatuses \cup {"none"}, version : 0..MaxVersion]
Listing    == [status : ListingStatuses \cup {"none"}, sub : 0..MaxSubs,
               version : 0..MaxVersion]
Request    == [status : ReqStatuses \cup {"none"}, target : 0..MaxSubs]

NoSubmission == [status |-> "none", version |-> 0]
NoListing    == [status |-> "none", sub |-> 0, version |-> 0]
NoRequest    == [status |-> "none", target |-> 0]

\* Where a call stands: the statement it executes next.
Steps == {"idle",
  "submit:listing", "submit:create", "submit:skill",
  "approve:snapshot", "approve:submission", "approve:listing",
  "approve:skill",
  "reject:update", "reject:live", "reject:skill",
  "removeVersion:listing", "remaining", "drop:submission", "drop:listing",
  "drop:skill", "drop:request",
  "requestRemoval:pending", "requestRemoval:target", "requestRemoval:insert",
  "requestRemoval:listing",
  "approveRemoval:target", "approveRemoval:listing", "takedown:submissions",
  "takedown:listing", "takedown:skill", "takedown:request",
  "rejectRemoval:update", "rejectRemoval:listing", "rejectRemoval:activate",
  "rejectRemoval:skill",
  "purge:submissions", "purge:listing", "purge:skill",
  "delete:pending", "delete:cleanup", "delete:row",
  "optimize:bump", "optimize:snapshot"}

\* What a call remembers: the submission, version and removal request it is
\* about, and next, the newest approved version it saw besides sub (0: none).
\* A call about to save a snapshot knows the version it is for.
Call == {c \in [at : Steps, sub : 0..MaxSubs, version : 0..MaxVersion,
                req : 0..MaxReqs, next : 0..MaxSubs] :
           c.at = "optimize:snapshot" => c.version \in Versions}
NewCall(step, i, v, r) ==
  [at |-> step, sub |-> i, version |-> v, req |-> r, next |-> 0]
Idle == NewCall("idle", 0, 0, 0)

SubmissionRow(i) == <<"submission", i>>
RequestRow(r)    == <<"request", r>>
ListingRow       == <<"listing", 0>>
SkillRow         == <<"skill", 0>>
PendingKey       == <<"pending key", 0>>  \* uq_removal_req_pending_per_skill
Rows == {SubmissionRow(i) : i \in 0..MaxSubs}
          \cup {RequestRow(r) : r \in 0..MaxReqs}
          \cup {ListingRow, SkillRow, PendingKey}

-----------------------------------------------------------------------------
(* Reads.                                                                  *)

SubsWith(s) == {i \in Subs : submissions[i].status = s}
Approved    == SubsWith("approved")
ReqsWith(s) == {r \in Reqs : requests[r].status = s}

\* i is the newest submission of S by submittedAt, 0 when there is none:
\* element 0 of a findApprovedVersionsBySkillId result.
IsNewest(i, S) == IF S = {} THEN i = 0 ELSE i \in S /\ \A j \in S : j <= i

\* assertNotSelfApproval: every submission and request is the owner's own.
MayReview(a) == a # Owner \/ AllowSelfApproval

\* submit's look for a version that awaits its review.
NoPendingReview == SubsWith("pending_review") = {}

\* approve's look for the content of the version it is about to list.
NoSnapshotCheck(v) == TRUE  \* mutant: approve does not look
HasSnapshot(v) == v \in snapshots

\* findApprovedVersionsBySkillId, without the version being removed.
RemainingUnfiltered(i) == Approved  \* mutant: with it
RemainingSubmissions(i) ==  \* mutant: findBySkillId, whatever their status
  (Subs \ SubsWith("none")) \ {i}
Remaining(i) == Approved \ {i}

\* Foreign keys refuse a row for a skill that is gone.
NoForeignKey == FALSE  \* mutant: they are not declared
ForeignKeyFails == skill = "deleted"

\* Error 23505 of the partial unique index: a request is already pending.
NoUniqueIndex == FALSE  \* mutant: the index is missing
UniqueIndexFails == ReqsWith("pending") # {}

-----------------------------------------------------------------------------
(* Writes to the listing; an UPDATE of a missing row changes nothing.      *)

ListingShows(i, v) == [status |-> "active", sub |-> i, version |-> v]

WithStatus(s) ==
  IF listing = NoListing THEN listing ELSE [listing EXCEPT !.status = s]

RemovedListing == WithStatus("removed")

ReactivatedWrongEnum == WithStatus("approved")  \* mutant: another enum's value
ReactivatedListing == WithStatus("active")

-----------------------------------------------------------------------------
(* Row locks.                                                              *)

\* The rows the next statement of a call writes, hence must lock.  A bulk
\* UPDATE ... WHERE status = 'approved' matches the committed rows only.  An
\* INSERT into the partial unique index waits for the transaction that is
\* inserting, or retiring, the conflicting pending row.
Wants(c) == {r \in Rows :
  \/ /\ c.at \in {"approve:submission", "reject:update", "drop:submission"}
     /\ r = SubmissionRow(c.sub)
  \/ /\ c.at \in {"takedown:submissions", "purge:submissions"}
     /\ \E i \in Approved : r = SubmissionRow(i)
  \/ /\ c.at \in {"approve:listing", "drop:listing", "requestRemoval:listing",
                  "takedown:listing", "purge:listing", "rejectRemoval:activate"}
     /\ r = ListingRow
  \/ /\ c.at \in {"submit:skill", "approve:skill", "reject:skill", "drop:skill",
                  "takedown:skill", "rejectRemoval:skill", "purge:skill",
                  "optimize:bump"}
     /\ r = SkillRow
  \/ /\ c.at \in {"drop:request", "takedown:request", "rejectRemoval:update"}
     /\ r = RequestRow(c.req)
  \/ /\ c.at = "requestRemoval:insert"
     /\ r = PendingKey \/ \E s \in ReqsWith("pending") : r = RequestRow(s)
  \/ c.at = "delete:row"}

HeldByOthers(p) == UNION {held[q] : q \in Procs \ {p}}
Blocked(p)      == Wants(calls[p]) \cap HeldByOthers(p) # {}

-----------------------------------------------------------------------------
(* Control.                                                                *)

\* p starts serving op; failed preconditions answer an error and change nothing.
Starts(p, op, call) ==
  /\ op \in Ops
  /\ calls[p] = Idle
  /\ skill # "deleted"
  /\ calls' = [calls EXCEPT ![p] = call]
  /\ UNCHANGED <<db, held>>

\* p is about to execute step, and holds or can take the locks it needs.
At(p, step) == calls[p].at = step /\ ~Blocked(p)

\* Mutant: the row locks of a single statement outlive it.
GotoKeepsLocks(p, step) ==
  /\ calls' = [calls EXCEPT ![p].at = step]
  /\ held' = [held EXCEPT ![p] = @ \cup Wants(calls[p])]

Goto(p, step) ==
  /\ calls' = [calls EXCEPT ![p].at = step]
  /\ UNCHANGED held

\* Mutant: an early return forgets to end its transaction.
ReturnKeepsLocks(p) ==
  /\ calls' = [calls EXCEPT ![p] = Idle]
  /\ UNCHANGED held

\* The handler returns or throws; an open transaction is over.
Return(p) ==
  /\ calls' = [calls EXCEPT ![p] = Idle]
  /\ held' = [held EXCEPT ![p] = {}]

\* One statement of an open transaction: it locks its rows, its writes wait
\* for the commit.  The last statement and the commit are one action: a
\* transaction that holds all its rows can only commit or roll back.
Statement(p, step, nextStep) ==
  /\ At(p, step)
  /\ calls' = [calls EXCEPT ![p].at = nextStep]
  /\ held' = [held EXCEPT ![p] = @ \cup Wants(calls[p])]
  /\ UNCHANGED db

\* skillRepo.update(skillId, { status }): throws when the skill is gone.
SetSkillStatus(s) == skill' = IF skill = "deleted" THEN skill ELSE s

-----------------------------------------------------------------------------
(* submit                                                                  *)

\* The two checks on existing submissions.  A non-empty submitterNote makes
\* the downgrade check vacuous, so such a call goes straight to the insert.
SubmitCheck(p) ==
  \E v \in Versions, step \in {"submit:listing", "submit:create"} :
    /\ NoPendingReview
    /\ \A i \in Approved : submissions[i].version # v
    /\ Starts(p, "submit", NewCall(step, 0, v, 0))

SubmitDowngrade(p) ==
  /\ At(p, "submit:listing")
  /\ IF listing.status = "active" /\ calls[p].version < listing.version
       THEN Return(p)
       ELSE Goto(p, "submit:create")
  /\ UNCHANGED db

\* The insert; its foreign key fails when the skill is gone.  Running out of
\* the MaxSubs ids stands for a failing insert.
SubmitCreate(p) ==
  /\ At(p, "submit:create")
  /\ LET free == SubsWith("none") IN
     IF ForeignKeyFails \/ free = {}
       THEN Return(p) /\ UNCHANGED submissions
       ELSE /\ \E i \in free :
                 /\ \A j \in free : i <= j
                 /\ submissions' = [submissions EXCEPT ![i] =
                      [status |-> "pending_review", version |-> calls[p].version]]
            /\ Goto(p, "submit:skill")
  /\ UNCHANGED <<skill, version, snapshots, evalData, listing, requests>>

SubmitSkill(p) ==
  /\ At(p, "submit:skill")
  /\ SetSkillStatus("in_review")
  /\ Return(p)
  /\ UNCHANGED <<version, snapshots, evalData, submissions, listing, requests>>

-----------------------------------------------------------------------------
(* approve                                                                 *)

ApproveCheck(p) ==
  \E i \in SubsWith("pending_review"), a \in Admins :
    /\ MayReview(a)
    /\ Starts(p, "approve",
              NewCall("approve:snapshot", i, submissions[i].version, 0))

ApproveSnapshot(p) ==
  /\ At(p, "approve:snapshot")
  /\ IF HasSnapshot(calls[p].version)
       THEN Goto(p, "approve:submission")
       ELSE Return(p)
  /\ UNCHANGED db

ApproveSubmission(p) == Statement(p, "approve:submission", "approve:listing")

\* INSERT ... ON CONFLICT ("skillId") DO UPDATE: one row whatever happens, but
\* no row for a skill that is gone (foreign key: the transaction rolls back).
ApproveListing(p) ==
  IF ForeignKeyFails
    THEN At(p, "approve:listing") /\ Return(p) /\ UNCHANGED db
    ELSE Statement(p, "approve:listing", "approve:skill")

ApproveCommit(p) ==
  /\ At(p, "approve:skill")
  /\ submissions' = [submissions EXCEPT ![calls[p].sub].status = "approved"]
  /\ listing' = ListingShows(calls[p].sub, calls[p].version)
  /\ skill' = "published"
  /\ Return(p)
  /\ UNCHANGED <<version, snapshots, evalData, requests>>

-----------------------------------------------------------------------------
(* reject                                                                  *)

RejectCheck(p) ==
  \E i \in SubsWith("pending_review"), a \in Admins :
    /\ MayReview(a)
    /\ Starts(p, "reject", NewCall("reject:update", i, 0, 0))

RejectUpdate(p) ==
  /\ At(p, "reject:update")
  /\ submissions' = [submissions EXCEPT ![calls[p].sub] =
       IF @ = NoSubmission THEN @ ELSE [@ EXCEPT !.status = "rejected"]]
  /\ Goto(p, "reject:live")
  /\ UNCHANGED <<skill, version, snapshots, evalData, listing, requests>>

RejectLive(p) ==
  /\ At(p, "reject:live")
  /\ \E n \in 0..MaxSubs :
       /\ IsNewest(n, Approved)
       /\ calls' = [calls EXCEPT ![p].at = "reject:skill", ![p].next = n]
  /\ UNCHANGED <<db, held>>

RejectSkill(p) ==
  /\ At(p, "reject:skill")
  /\ SetSkillStatus(IF calls[p].next # 0 THEN "published" ELSE "ready")
  /\ Return(p)
  /\ UNCHANGED <<version, snapshots, evalData, submissions, listing, requests>>

-----------------------------------------------------------------------------
(* removeVersion, and approveRemoval of a version: both end in             *)
(* removeApprovedVersionTx, with the versions that remain read beforehand. *)

RemoveVersionCheck(p) ==
  \E i \in Approved :
    Starts(p, "removeVersion",
           NewCall("removeVersion:listing", i, 0, 0))

ReadListing(p) ==
  /\ At(p, "removeVersion:listing")
  /\ IF listing = NoListing THEN Return(p) ELSE Goto(p, "remaining")
  /\ UNCHANGED db

ReadRemaining(p) ==
  /\ At(p, "remaining")
  /\ \E n \in 0..MaxSubs :
       /\ IsNewest(n, Remaining(calls[p].sub))
       /\ calls' = [calls EXCEPT ![p].at = "drop:submission", ![p].next = n]
  /\ UNCHANGED <<db, held>>

DropSubmission(p) == Statement(p, "drop:submission", "drop:listing")

\* The last UPDATE: of the request when the call was made for one, else of the
\* skill when no version remains, else of the listing.
LastDrop(c) == IF c.req # 0 THEN "drop:request"
               ELSE IF c.next = 0 THEN "drop:skill" ELSE "drop:listing"

DropListing(p) ==
  /\ LastDrop(calls[p]) # "drop:listing"
  /\ Statement(p, "drop:listing",
               IF calls[p].next = 0 THEN "drop:skill" ELSE "drop:request")

DropSkill(p) ==
  /\ LastDrop(calls[p]) # "drop:skill"
  /\ Statement(p, "drop:skill", "drop:request")

DropCommit(p) ==
  LET c == calls[p] IN
  /\ At(p, LastDrop(c))
  /\ submissions' = [submissions EXCEPT ![c.sub].status = "removed"]
  /\ listing' = IF c.next = 0
                  THEN RemovedListing
                  ELSE ListingShows(c.next, submissions[c.next].version)
  /\ skill' = IF c.next = 0 THEN "ready" ELSE skill
  /\ requests' = IF c.req = 0 THEN requests
                   ELSE [requests EXCEPT ![c.req].status = "approved"]
  /\ Return(p)
  /\ UNCHANGED <<version, snapshots, evalData>>

-----------------------------------------------------------------------------
(* requestRemoval: the owner asks for the skill (target 0) or one version. *)

RequestRemovalCheck(p) ==
  \E target \in 0..MaxSubs :
    /\ listing.status \in {"active", "removal_requested"}
    /\ Starts(p, "requestRemoval",
              NewCall("requestRemoval:pending", target, 0, 0))

RequestRemovalPending(p) ==
  /\ At(p, "requestRemoval:pending")
  /\ IF ReqsWith("pending") # {}
       THEN Return(p)
       ELSE Goto(p, IF calls[p].sub = 0 THEN "requestRemoval:insert"
                                        ELSE "requestRemoval:target")
  /\ UNCHANGED db

RequestRemovalTarget(p) ==
  /\ At(p, "requestRemoval:target")
  /\ IF calls[p].sub \in Approved
       THEN Goto(p, "requestRemoval:insert")
       ELSE Return(p)
  /\ UNCHANGED db

\* The key is taken, the rows it was compared with are not.  Running out of the
\* MaxReqs ids stands for a failing insert.
RequestRemovalInsert(p) ==
  /\ At(p, "requestRemoval:insert")
  /\ LET free == ReqsWith("none") IN
     IF UniqueIndexFails \/ ForeignKeyFails \/ free = {}
       THEN Return(p)
       ELSE /\ held' = [held EXCEPT ![p] = @ \cup {PendingKey}]
            /\ \E r \in free :
                 calls' = [calls EXCEPT ![p].at = "requestRemoval:listing",
                                        ![p].req = r]
  /\ UNCHANGED db

RequestRemovalCommit(p) ==
  /\ At(p, "requestRemoval:listing")
  /\ requests' = [requests EXCEPT ![calls[p].req] =
                    [status |-> "pending", target |-> calls[p].sub]]
  /\ listing' = WithStatus("removal_requested")
  /\ Return(p)
  /\ UNCHANGED <<skill, version, snapshots, evalData, submissions>>

-----------------------------------------------------------------------------
(* approveRemoval                                                          *)

ApproveRemovalCheck(p) ==
  \E r \in ReqsWith("pending"), a \in Admins :
    /\ MayReview(a)
    /\ Starts(p, "approveRemoval",
              NewCall(IF requests[r].target = 0 THEN "approveRemoval:listing"
                                                ELSE "approveRemoval:target",
                      requests[r].target, 0, r))

ApproveRemovalTarget(p) ==
  /\ At(p, "approveRemoval:target")
  /\ IF calls[p].sub \in Approved
       THEN Goto(p, "approveRemoval:listing")
       ELSE Return(p)
  /\ UNCHANGED db

ApproveRemovalListing(p) ==
  /\ At(p, "approveRemoval:listing")
  /\ IF listing = NoListing
       THEN Return(p)
       ELSE Goto(p, IF calls[p].sub = 0 THEN "takedown:submissions"
                                        ELSE "remaining")
  /\ UNCHANGED db

TakedownSubmissions(p) ==
  Statement(p, "takedown:submissions", "takedown:listing")
TakedownListing(p) == Statement(p, "takedown:listing", "takedown:skill")
TakedownSkill(p)   == Statement(p, "takedown:skill", "takedown:request")

TakedownCommit(p) ==
  /\ At(p, "takedown:request")
  /\ submissions' = [i \in Subs |->
       IF SubmissionRow(i) \in held[p]
         THEN [submissions[i] EXCEPT !.status = "removed"]
         ELSE submissions[i]]
  /\ listing' = RemovedListing
  /\ skill' = "ready"
  /\ requests' = [requests EXCEPT ![calls[p].req].status = "approved"]
  /\ Return(p)
  /\ UNCHANGED <<version, snapshots, evalData>>

-----------------------------------------------------------------------------
(* rejectRemoval: four awaits, no transaction.                             *)

RejectRemovalCheck(p) ==
  \E r \in ReqsWith("pending"), a \in Admins :
    /\ MayReview(a)
    /\ Starts(p, "rejectRemoval",
              NewCall("rejectRemoval:update", 0, 0, r))

RejectRemovalUpdate(p) ==
  /\ At(p, "rejectRemoval:update")
  /\ requests' = [requests EXCEPT ![calls[p].req].status = "rejected"]
  /\ Goto(p, "rejectRemoval:listing")
  /\ UNCHANGED <<skill, version, snapshots, evalData, submissions, listing>>

RejectRemovalListing(p) ==
  /\ At(p, "rejectRemoval:listing")
  /\ IF listing.status = "removal_requested"
       THEN Goto(p, "rejectRemoval:activate")
       ELSE Return(p)
  /\ UNCHANGED db

RejectRemovalActivate(p) ==
  /\ At(p, "rejectRemoval:activate")
  /\ listing' = ReactivatedListing
  /\ Goto(p, "rejectRemoval:skill")
  /\ UNCHANGED <<skill, version, snapshots, evalData, submissions, requests>>

RejectRemovalSkill(p) ==
  /\ At(p, "rejectRemoval:skill")
  /\ SetSkillStatus("published")
  /\ Return(p)
  /\ UNCHANGED <<version, snapshots, evalData, submissions, listing, requests>>

-----------------------------------------------------------------------------
(* removeFromMarketplace: three writes, no transaction.                    *)

PurgeCheck(p) ==
  Starts(p, "removeFromMarketplace", NewCall("purge:submissions", 0, 0, 0))

PurgeSubmissions(p) ==
  /\ At(p, "purge:submissions")
  /\ submissions' = [i \in Subs |->
       IF i \in Approved THEN [submissions[i] EXCEPT !.status = "removed"]
                         ELSE submissions[i]]
  /\ Goto(p, "purge:listing")
  /\ UNCHANGED <<skill, version, snapshots, evalData, listing, requests>>

PurgeListing(p) ==
  /\ At(p, "purge:listing")
  /\ listing' = RemovedListing
  /\ Goto(p, "purge:skill")
  /\ UNCHANGED <<skill, version, snapshots, evalData, submissions, requests>>

PurgeSkill(p) ==
  /\ At(p, "purge:skill")
  /\ SetSkillStatus("ready")
  /\ Return(p)
  /\ UNCHANGED <<version, snapshots, evalData, submissions, listing, requests>>

-----------------------------------------------------------------------------
(* Skill operations that meet the marketplace.                             *)

DeleteCheck(p) ==
  /\ SubsWith("pending_review") \cup Approved = {}
  /\ Starts(p, "delete", NewCall("delete:pending", 0, 0, 0))

DeletePending(p) ==
  /\ At(p, "delete:pending")
  /\ IF ReqsWith("pending") # {} THEN Return(p) ELSE Goto(p, "delete:cleanup")
  /\ UNCHANGED db

\* The explicit clean-ups of the child tables, one after the other.
DeleteCleanup(p) ==
  /\ At(p, "delete:cleanup")
  /\ evalData' = FALSE
  /\ Goto(p, "delete:row")
  /\ UNCHANGED <<skill, version, snapshots, submissions, listing, requests>>

\* DELETE FROM skills, one statement that waits for every row it cascades to:
\* the listing's and the removal requests' foreign keys refuse it; submissions
\* and snapshots cascade.
DeleteRow(p) ==
  /\ At(p, "delete:row")
  /\ IF listing # NoListing \/ ReqsWith("none") # Reqs
       THEN UNCHANGED db
       ELSE /\ skill' = "deleted"
            /\ evalData' = FALSE
            /\ snapshots' = {}
            /\ submissions' = [i \in Subs |-> NoSubmission]
            /\ UNCHANGED <<version, listing, requests>>
  /\ Return(p)

\* PUT /skills/:id writes whatever status the owner sends.
UpdateStatus(p) ==
  /\ "update" \in Ops /\ calls[p] = Idle /\ skill # "deleted"
  /\ SkillRow \notin HeldByOthers(p)
  /\ skill' \in OwnerStatuses
  /\ UNCHANGED <<version, snapshots, evalData, submissions, listing, requests,
                 calls, held>>

\* approveOptimization and refineSkill: snapshot the current version if it has
\* none, write version + 1, snapshot the new version.  getVersionHistory stops
\* after the first of these.
OptimizeStart(p) ==
  /\ "optimize" \in Ops /\ calls[p] = Idle /\ skill # "deleted"
  /\ snapshots' = snapshots \cup {version}
  /\ \/ UNCHANGED calls
     \/ calls' = [calls EXCEPT ![p] = NewCall("optimize:bump", 0, 0, 0)]
  /\ UNCHANGED <<skill, version, evalData, submissions, listing, requests, held>>

\* Reaching MaxVersion stands for a failing update.
OptimizeBump(p) ==
  /\ At(p, "optimize:bump")
  /\ IF skill = "deleted" \/ version = MaxVersion
       THEN Return(p) /\ UNCHANGED version
       ELSE /\ version' = version + 1
            /\ calls' = [calls EXCEPT
                 ![p] = NewCall("optimize:snapshot", 0, version + 1, 0)]
            /\ UNCHANGED held
  /\ UNCHANGED <<skill, snapshots, evalData, submissions, listing, requests>>

OptimizeSnapshot(p) ==
  /\ At(p, "optimize:snapshot")
  /\ snapshots' = IF skill = "deleted" THEN snapshots
                    ELSE snapshots \cup {calls[p].version}
  /\ Return(p)
  /\ UNCHANGED <<skill, version, evalData, submissions, listing, requests>>

-----------------------------------------------------------------------------
\* The process dies or a query throws between two awaits: an open transaction
\* rolls back, what was already committed stays.  The ConflictException of
\* skillRepo.update, when another request has just changed skills.version, is
\* one of these.
Abort(p) ==
  /\ Faults
  /\ calls[p] # Idle
  /\ Return(p)
  /\ UNCHANGED db

Init ==
  /\ skill \in InitialStatuses
  /\ version = 1
  /\ snapshots \in {{}, {1}}
  /\ evalData = TRUE
  /\ submissions = [i \in Subs |-> NoSubmission]
  /\ listing = NoListing
  /\ requests = [r \in Reqs |-> NoRequest]
  /\ calls = [p \in Procs |-> Idle]
  /\ held = [p \in Procs |-> {}]

\* A request arrives.
Begin(p) ==
  \/ SubmitCheck(p) \/ ApproveCheck(p) \/ RejectCheck(p)
  \/ RemoveVersionCheck(p) \/ RequestRemovalCheck(p)
  \/ ApproveRemovalCheck(p) \/ RejectRemovalCheck(p) \/ PurgeCheck(p)
  \/ DeleteCheck(p) \/ UpdateStatus(p) \/ OptimizeStart(p)

\* A request being served executes its next await.
Continue(p) ==
  \/ SubmitDowngrade(p) \/ SubmitCreate(p) \/ SubmitSkill(p)
  \/ ApproveSnapshot(p) \/ ApproveSubmission(p) \/ ApproveListing(p)
  \/ ApproveCommit(p)
  \/ RejectUpdate(p) \/ RejectLive(p) \/ RejectSkill(p)
  \/ ReadListing(p) \/ ReadRemaining(p) \/ DropSubmission(p)
  \/ DropListing(p) \/ DropSkill(p) \/ DropCommit(p)
  \/ RequestRemovalPending(p) \/ RequestRemovalTarget(p)
  \/ RequestRemovalInsert(p) \/ RequestRemovalCommit(p)
  \/ ApproveRemovalTarget(p) \/ ApproveRemovalListing(p)
  \/ TakedownSubmissions(p) \/ TakedownListing(p) \/ TakedownSkill(p)
  \/ TakedownCommit(p)
  \/ RejectRemovalUpdate(p) \/ RejectRemovalListing(p)
  \/ RejectRemovalActivate(p) \/ RejectRemovalSkill(p)
  \/ PurgeSubmissions(p) \/ PurgeListing(p) \/ PurgeSkill(p)
  \/ DeletePending(p) \/ DeleteCleanup(p) \/ DeleteRow(p)
  \/ OptimizeBump(p) \/ OptimizeSnapshot(p)

Next == \E p \in Procs : Begin(p) \/ Continue(p) \/ Abort(p)

Spec == Init /\ [][Next]_vars

\* Node runs every handler it has started to its next await, and Postgres
\* serves row-lock waiters in the order they queued, so a call that can go on
\* again and again does go on.
FairSpec == Spec /\ \A p \in Procs : SF_vars(Continue(p))

-----------------------------------------------------------------------------
(* Properties.                                                             *)

\* The tables, the calls and the locks hold values of their types.
TypeOK ==
  /\ skill \in SkillStatuses \cup {"deleted"}
  /\ version \in Versions
  /\ snapshots \subseteq Versions
  /\ evalData \in BOOLEAN
  /\ submissions \in [Subs -> Submission]
  /\ listing \in Listing
  /\ requests \in [Reqs -> Request]
  /\ calls \in [Procs -> Call]
  /\ held \in [Procs -> SUBSET Rows]

Quiet == \A p \in Procs : calls[p] = Idle

\* Two owners' clicks may both pass hasPendingForSkill, yet a skill never has
\* two pending removal requests (marketplace-submission.service.ts:271).
OnePendingRequest ==
  \A r, s \in ReqsWith("pending") : r = s

\* approve checks the snapshot several awaits before it writes the listing so
\* that a listed version never 404s on its detail page (service line 126); a
\* racing delete must not break that, nor a later removal re-point the listing
\* at a version without content.
ListedVersionReadable ==
  listing # NoListing =>
    /\ listing.version \in snapshots
    /\ submissions[listing.sub].version = listing.version

\* A deleted skill leaves no listing, submission, removal request, snapshot or
\* eval data behind, whatever handlers were half way when the row went.
DeletedLeavesNothing ==
  skill = "deleted" =>
    /\ listing = NoListing /\ snapshots = {} /\ ~evalData
    /\ \A i \in Subs : submissions[i] = NoSubmission
    /\ \A r \in Reqs : requests[r] = NoRequest

\* No set of open transactions waits for one another's rows: removeVersion,
\* approve, requestRemoval and approveRemoval lock submission, listing, skill,
\* request in one order (marketplace-submission.service.ts:140-176, 508-560).
NoLockCycle ==
  \A S \in (SUBSET Procs) \ {{}} :
    \E p \in S : \A q \in S \ {p} : Wants(calls[p]) \cap held[q] = {}

\* With no two handlers overlapping: the listing is live exactly while some
\* version is approved, and it shows the newest approved version.
CatalogConsistent ==
  Quiet =>
    /\ (listing.status \in {"active", "removal_requested"}) <=> (Approved # {})
    /\ Approved # {} => IsNewest(listing.sub, Approved)

\* Nothing is listed before its review: the submission the listing shows, or
\* keeps after a removal, has been reviewed, though the removal that re-points the
\* listing chose it before its transaction ("read-only, outside tx is fine",
\* marketplace-submission.service.ts:217), and other admins may approve, reject or
\* remove submissions meanwhile, reject even one that an overlapping approve has
\* listed: its status is then not approved, but never that of an unseen one.
Reviewed == SubsWith("approved") \cup SubsWith("removed") \cup SubsWith("rejected")

OnlyReviewedIsListed == listing # NoListing => listing.sub \in Reviewed

\* Every call returns: no await waits for ever on another call's locks.
CallsReturn == \A p \in Procs : calls[p] # Idle ~> calls[p] = Idle

\* After a removal and with no call running, a listing marked removed has no
\* version left approved (marketplace.service.ts:252-253).
RemovedHasNoApproved ==
  Quiet /\ listing.status = "removed" => Approved = {}
=============================================================================
