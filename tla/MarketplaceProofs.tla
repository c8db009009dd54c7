------------------------- MODULE MarketplaceProofs -------------------------
(* What TLAPS proves of Marketplace, for every value of the constants.     *)
EXTENDS Marketplace, TLAPS

USE DEF Subs, Versions, Reqs

-----------------------------------------------------------------------------
(* Types of calls and locks.                                               *)

ControlOK == calls \in [Procs -> Call] /\ held \in [Procs -> SUBSET Rows]

LEMMA NewCallType ==
  ASSUME NEW s \in Steps, NEW i \in 0..MaxSubs, NEW v \in 0..MaxVersion,
         NEW r \in 0..MaxReqs,
         s = "optimize:snapshot" => v \in Versions
  PROVE  NewCall(s, i, v, r) \in Call
  BY ConstantsAssumption DEF NewCall, Call

LEMMA IdleType == Idle \in Call
  BY NewCallType, ConstantsAssumption DEF Idle, Steps

LEMMA StartsControl ==
  ASSUME ControlOK, NEW p \in Procs, NEW op, NEW c \in Call, Starts(p, op, c)
  PROVE  ControlOK'
  BY DEF Starts, ControlOK

LEMMA StepType ==
  ASSUME ControlOK, NEW p \in Procs, NEW s \in Steps, s # "optimize:snapshot"
  PROVE  [calls EXCEPT ![p].at = s] \in [Procs -> Call]
  BY DEF ControlOK, Call

LEMMA StepNextType ==
  ASSUME ControlOK, NEW p \in Procs, NEW s \in Steps, NEW n \in 0..MaxSubs,
         s # "optimize:snapshot"
  PROVE  [calls EXCEPT ![p].at = s, ![p].next = n] \in [Procs -> Call]
  BY DEF ControlOK, Call

LEMMA StepReqType ==
  ASSUME ControlOK, NEW p \in Procs, NEW s \in Steps, NEW r \in 0..MaxReqs,
         s # "optimize:snapshot"
  PROVE  [calls EXCEPT ![p].at = s, ![p].req = r] \in [Procs -> Call]
  BY DEF ControlOK, Call

LEMMA GotoControl ==
  ASSUME ControlOK, NEW p \in Procs, NEW s \in Steps, s # "optimize:snapshot",
         Goto(p, s)
  PROVE  ControlOK'
  BY StepType DEF Goto, ControlOK

LEMMA ReturnControl ==
  ASSUME ControlOK, NEW p \in Procs, Return(p)
  PROVE  ControlOK'
  BY IdleType DEF Return, ControlOK

LEMMA StatementControl ==
  ASSUME ControlOK, NEW p \in Procs, NEW s, NEW t \in Steps, Statement(p, s, t),
         t # "optimize:snapshot"
  PROVE  ControlOK'
  BY StepType DEF Statement, ControlOK, Wants

LEMMA InitTypeOK == Init => TypeOK
  BY ConstantsAssumption, IdleType
  DEF Init, TypeOK, SkillStatuses, NoSubmission, Submission, NoListing, Listing,
      NoRequest, Request

-----------------------------------------------------------------------------
(* Types of the tables.                                                    *)

TablesOK ==
  /\ skill \in SkillStatuses \cup {"deleted"}
  /\ version \in Versions
  /\ snapshots \subseteq Versions
  /\ evalData \in BOOLEAN
  /\ submissions \in [Subs -> Submission]
  /\ listing \in Listing
  /\ requests \in [Reqs -> Request]

LEMMA TypeParts == TypeOK <=> TablesOK /\ ControlOK
  BY DEF TypeOK, TablesOK, ControlOK

LEMMA BeginControl ==
  ASSUME TypeOK, NEW p \in Procs, Begin(p)
  PROVE  ControlOK'
  <1> USE ConstantsAssumption
  <1>0. TablesOK /\ ControlOK
    BY TypeParts
  <1>1. /\ \A i \in Subs : submissions[i].version \in 0..MaxVersion
        /\ \A r \in Reqs : requests[r].target \in 0..MaxSubs
    BY <1>0 DEF TablesOK, Submission, Request
  <1>2. CASE SubmitCheck(p)
    <2>1. PICK v \in Versions, step \in {"submit:listing", "submit:create"} :
            Starts(p, "submit", NewCall(step, 0, v, 0))
      BY <1>2 DEF SubmitCheck
    <2>2. step \in Steps
      BY DEF Steps
    <2>3. NewCall(step, 0, v, 0) \in Call
      BY <2>2, NewCallType
    <2> QED  BY <1>0, <2>1, <2>3, StartsControl
  <1>3. CASE ApproveCheck(p)
    BY <1>0, <1>1, <1>3, NewCallType, StartsControl
    DEF ApproveCheck, Steps, SubsWith, ReqsWith, Approved
  <1>4. CASE RejectCheck(p)
    <2>1. PICK i \in Subs : Starts(p, "reject", NewCall("reject:update", i, 0, 0))
      BY <1>4 DEF RejectCheck, SubsWith
    <2>2. NewCall("reject:update", i, 0, 0) \in Call
      BY NewCallType DEF Steps
    <2> QED  BY <1>0, <2>1, <2>2, StartsControl
  <1>5. CASE RemoveVersionCheck(p)
    BY <1>0, <1>1, <1>5, NewCallType, StartsControl
    DEF RemoveVersionCheck, Steps, SubsWith, ReqsWith, Approved
  <1>6. CASE RequestRemovalCheck(p)
    BY <1>0, <1>1, <1>6, NewCallType, StartsControl
    DEF RequestRemovalCheck, Steps, SubsWith, ReqsWith, Approved
  <1>7. CASE ApproveRemovalCheck(p)
    BY <1>0, <1>1, <1>7, NewCallType, StartsControl
    DEF ApproveRemovalCheck, Steps, SubsWith, ReqsWith, Approved
  <1>8. CASE RejectRemovalCheck(p)
    BY <1>0, <1>1, <1>8, NewCallType, StartsControl
    DEF RejectRemovalCheck, Steps, SubsWith, ReqsWith, Approved
  <1>9. CASE PurgeCheck(p)
    BY <1>0, <1>1, <1>9, NewCallType, StartsControl
    DEF PurgeCheck, Steps, SubsWith, ReqsWith, Approved
  <1>10. CASE DeleteCheck(p)
    BY <1>0, <1>1, <1>10, NewCallType, StartsControl
    DEF DeleteCheck, Steps, SubsWith, ReqsWith, Approved
  <1>11. CASE UpdateStatus(p)
    BY <1>0, <1>11 DEF UpdateStatus, ControlOK
  <1>12. CASE OptimizeStart(p)
    <2>1. NewCall("optimize:bump", 0, 0, 0) \in Call
      BY NewCallType DEF Steps
    <2> QED  BY <1>0, <1>12, <2>1 DEF OptimizeStart, ControlOK
  <1> QED  BY <1>2, <1>3, <1>4, <1>5, <1>6, <1>7, <1>8, <1>9, <1>10, <1>11, <1>12 DEF Begin

LEMMA ContinueControl ==
  ASSUME TypeOK, NEW p \in Procs, Continue(p)
  PROVE  ControlOK'
  <1> USE ConstantsAssumption
  <1>0. TablesOK /\ ControlOK
    BY TypeParts
  <1>1. CASE SubmitDowngrade(p)
    BY <1>0, <1>1, GotoControl, ReturnControl
    DEF SubmitDowngrade, Steps
  <1>2. CASE SubmitCreate(p)
    BY <1>0, <1>2, GotoControl, ReturnControl
    DEF SubmitCreate, Steps
  <1>3. CASE SubmitSkill(p)
    BY <1>0, <1>3, ReturnControl
    DEF SubmitSkill, Steps
  <1>4. CASE ApproveSnapshot(p)
    BY <1>0, <1>4, GotoControl, ReturnControl
    DEF ApproveSnapshot, Steps
  <1>5. CASE ApproveSubmission(p)
    BY <1>0, <1>5, StatementControl
    DEF ApproveSubmission, Steps
  <1>6. CASE ApproveListing(p)
    BY <1>0, <1>6, ReturnControl, StatementControl
    DEF ApproveListing, Steps
  <1>7. CASE ApproveCommit(p)
    BY <1>0, <1>7, ReturnControl
    DEF ApproveCommit, Steps
  <1>8. CASE RejectUpdate(p)
    BY <1>0, <1>8, GotoControl
    DEF RejectUpdate, Steps
  <1>9. CASE RejectLive(p)
    <2>1. PICK n \in 0..MaxSubs :
            calls' = [calls EXCEPT ![p].at = "reject:skill", ![p].next = n]
      BY <1>9 DEF RejectLive
    <2>2. calls' \in [Procs -> Call]
      BY <1>0, <2>1, StepNextType DEF Steps
    <2> QED  BY <1>0, <1>9, <2>2 DEF RejectLive, ControlOK
  <1>10. CASE RejectSkill(p)
    BY <1>0, <1>10, ReturnControl
    DEF RejectSkill, Steps
  <1>11. CASE ReadListing(p)
    BY <1>0, <1>11, GotoControl, ReturnControl
    DEF ReadListing, Steps
  <1>12. CASE ReadRemaining(p)
    <2>1. PICK n \in 0..MaxSubs :
            calls' = [calls EXCEPT ![p].at = "drop:submission", ![p].next = n]
      BY <1>12 DEF ReadRemaining
    <2>2. calls' \in [Procs -> Call]
      BY <1>0, <2>1, StepNextType DEF Steps
    <2> QED  BY <1>0, <1>12, <2>2 DEF ReadRemaining, ControlOK
  <1>13. CASE DropSubmission(p)
    BY <1>0, <1>13, StatementControl
    DEF DropSubmission, Steps
  <1>14. CASE DropListing(p)
    BY <1>0, <1>14, StatementControl
    DEF DropListing, Steps
  <1>15. CASE DropSkill(p)
    BY <1>0, <1>15, StatementControl
    DEF DropSkill, Steps
  <1>16. CASE DropCommit(p)
    BY <1>0, <1>16, ReturnControl
    DEF DropCommit, Steps
  <1>17. CASE RequestRemovalPending(p)
    BY <1>0, <1>17, GotoControl, ReturnControl
    DEF RequestRemovalPending, Steps
  <1>18. CASE RequestRemovalTarget(p)
    BY <1>0, <1>18, GotoControl, ReturnControl
    DEF RequestRemovalTarget, Steps
  <1>19. CASE RequestRemovalInsert(p)
    <2>1. CASE Return(p)
      BY <1>0, <2>1, ReturnControl
    <2>2. CASE ~Return(p)
      <3>1. PICK r \in ReqsWith("none") :
              calls' = [calls EXCEPT ![p].at = "requestRemoval:listing",
                                     ![p].req = r]
        BY <1>19, <2>2 DEF RequestRemovalInsert
      <3>2. calls' \in [Procs -> Call]
        <4>1. r \in 0..MaxReqs /\ "requestRemoval:listing" \in Steps
          BY <3>1 DEF ReqsWith, Steps
        <4> QED  BY <1>0, <3>1, <4>1, StepReqType
      <3>3. PendingKey \in Rows
        BY DEF Rows
      <3> QED  BY <1>0, <1>19, <2>2, <3>2, <3>3 DEF RequestRemovalInsert, ControlOK
    <2> QED  BY <2>1, <2>2
  <1>20. CASE RequestRemovalCommit(p)
    BY <1>0, <1>20, ReturnControl
    DEF RequestRemovalCommit, Steps
  <1>21. CASE ApproveRemovalTarget(p)
    BY <1>0, <1>21, GotoControl, ReturnControl
    DEF ApproveRemovalTarget, Steps
  <1>22. CASE ApproveRemovalListing(p)
    BY <1>0, <1>22, GotoControl, ReturnControl
    DEF ApproveRemovalListing, Steps
  <1>23. CASE TakedownSubmissions(p)
    BY <1>0, <1>23, StatementControl
    DEF TakedownSubmissions, Steps
  <1>24. CASE TakedownListing(p)
    BY <1>0, <1>24, StatementControl
    DEF TakedownListing, Steps
  <1>25. CASE TakedownSkill(p)
    BY <1>0, <1>25, StatementControl
    DEF TakedownSkill, Steps
  <1>26. CASE TakedownCommit(p)
    BY <1>0, <1>26, ReturnControl
    DEF TakedownCommit, Steps
  <1>27. CASE RejectRemovalUpdate(p)
    BY <1>0, <1>27, GotoControl
    DEF RejectRemovalUpdate, Steps
  <1>28. CASE RejectRemovalListing(p)
    BY <1>0, <1>28, GotoControl, ReturnControl
    DEF RejectRemovalListing, Steps
  <1>29. CASE RejectRemovalActivate(p)
    BY <1>0, <1>29, GotoControl
    DEF RejectRemovalActivate, Steps
  <1>30. CASE RejectRemovalSkill(p)
    BY <1>0, <1>30, ReturnControl
    DEF RejectRemovalSkill, Steps
  <1>31. CASE PurgeSubmissions(p)
    BY <1>0, <1>31, GotoControl
    DEF PurgeSubmissions, Steps
  <1>32. CASE PurgeListing(p)
    BY <1>0, <1>32, GotoControl
    DEF PurgeListing, Steps
  <1>33. CASE PurgeSkill(p)
    BY <1>0, <1>33, ReturnControl
    DEF PurgeSkill, Steps
  <1>34. CASE DeletePending(p)
    BY <1>0, <1>34, GotoControl, ReturnControl
    DEF DeletePending, Steps
  <1>35. CASE DeleteCleanup(p)
    BY <1>0, <1>35, GotoControl
    DEF DeleteCleanup, Steps
  <1>36. CASE DeleteRow(p)
    BY <1>0, <1>36, ReturnControl
    DEF DeleteRow, Steps
  <1>37. CASE OptimizeBump(p)
    <2>1. CASE Return(p)
      BY <1>0, <2>1, ReturnControl
    <2>2. CASE ~Return(p)
      <3>1. version # MaxVersion /\ version \in Versions
        BY <1>0, <1>37, <2>2 DEF OptimizeBump, TablesOK
      <3>2. version + 1 \in Versions
        BY <3>1
      <3>3. NewCall("optimize:snapshot", 0, version + 1, 0) \in Call
        BY <3>2, NewCallType DEF Steps
      <3> QED  BY <1>0, <1>37, <2>2, <3>3 DEF OptimizeBump, ControlOK
    <2> QED  BY <2>1, <2>2
  <1>38. CASE OptimizeSnapshot(p)
    BY <1>0, <1>38, ReturnControl
    DEF OptimizeSnapshot, Steps
  <1> QED  BY <1>1, <1>2, <1>3, <1>4, <1>5, <1>6, <1>7, <1>8, <1>9, <1>10,
      <1>11, <1>12, <1>13, <1>14, <1>15, <1>16, <1>17, <1>18, <1>19, <1>20,
      <1>21, <1>22, <1>23, <1>24, <1>25, <1>26, <1>27, <1>28, <1>29, <1>30,
      <1>31, <1>32, <1>33, <1>34, <1>35, <1>36, <1>37, <1>38 DEF Continue

LEMMA BeginTables ==
  ASSUME TypeOK, NEW p \in Procs, Begin(p)
  PROVE  TablesOK'
  <1> USE ConstantsAssumption
  <1>0. TablesOK
    BY TypeParts
  <1>1. CASE UpdateStatus(p)
    BY <1>0, <1>1 DEF UpdateStatus, TablesOK
  <1>2. CASE OptimizeStart(p)
    BY <1>0, <1>2 DEF OptimizeStart, TablesOK
  <1>3. CASE UNCHANGED db
    BY <1>0, <1>3 DEF db, TablesOK
  <1> QED
    BY <1>1, <1>2, <1>3
    DEF Begin, Starts, SubmitCheck, ApproveCheck, RejectCheck,
        RemoveVersionCheck, RequestRemovalCheck, ApproveRemovalCheck,
        RejectRemovalCheck, PurgeCheck, DeleteCheck

LEMMA ContinueTables ==
  ASSUME TypeOK, NEW p \in Procs, Continue(p)
  PROVE  TablesOK'
  <1> USE ConstantsAssumption DEF TablesOK
  <1>0. TablesOK /\ calls[p] \in Call
    BY TypeParts DEF ControlOK
  <1>1. CASE SubmitCreate(p)
    <2>1. [status |-> "pending_review", version |-> calls[p].version] \in Submission
      BY <1>0 DEF Call, Submission, SubStatuses
    <2>2. submissions' \in [Subs -> Submission]
      BY <1>0, <1>1, <2>1 DEF SubmitCreate
    <2> QED  BY <1>0, <1>1, <2>2 DEF SubmitCreate
  <1>2. CASE SubmitSkill(p)
    BY <1>0, <1>2
    DEF SubmitSkill, SetSkillStatus, SkillStatuses, Call, db
  <1>3. CASE ApproveCommit(p)
    BY <1>0, <1>3
    DEF ApproveCommit, ListingShows, Listing, NoListing, ListingStatuses,
        Submission, SubStatuses, NoSubmission, SkillStatuses, Call, db
  <1>4. CASE RejectUpdate(p)
    BY <1>0, <1>4
    DEF RejectUpdate, Submission, SubStatuses, NoSubmission, Call, db
  <1>5. CASE RejectSkill(p)
    BY <1>0, <1>5
    DEF RejectSkill, SetSkillStatus, SkillStatuses, Call, db
  <1>6. CASE DropCommit(p)
    <2>1. submissions' \in [Subs -> Submission]
      BY <1>0, <1>6 DEF DropCommit, Submission, SubStatuses
    <2>2. listing' \in Listing
      <3>1. CASE calls[p].next = 0
        BY <1>0, <1>6, <3>1
        DEF DropCommit, RemovedListing, WithStatus, Listing, ListingStatuses
      <3>2. CASE calls[p].next # 0
        <4>1. calls[p].next \in Subs
          BY <1>0, <3>2 DEF Call
        <4>2. submissions[calls[p].next].version \in 0..MaxVersion
          BY <1>0, <4>1 DEF Submission
        <4> QED  BY <1>6, <3>2, <4>1, <4>2
                 DEF DropCommit, ListingShows, Listing, ListingStatuses
      <3> QED  BY <3>1, <3>2
    <2>3. requests' \in [Reqs -> Request]
      BY <1>0, <1>6 DEF DropCommit, Request, ReqStatuses
    <2> QED  BY <1>0, <1>6, <2>1, <2>2, <2>3 DEF DropCommit, SkillStatuses
  <1>7. CASE RequestRemovalCommit(p)
    BY <1>0, <1>7
    DEF RequestRemovalCommit, WithStatus, Listing, NoListing,
        ListingStatuses, Request, ReqStatuses, Call, db
  <1>8. CASE TakedownCommit(p)
    <2>1. submissions' \in [Subs -> Submission]
      BY <1>0, <1>8 DEF TakedownCommit, Submission, SubStatuses
    <2>2. listing' \in Listing
      BY <1>0, <1>8
      DEF TakedownCommit, RemovedListing, WithStatus, Listing, ListingStatuses
    <2>3. requests' \in [Reqs -> Request]
      BY <1>0, <1>8 DEF TakedownCommit, Request, ReqStatuses
    <2> QED  BY <1>0, <1>8, <2>1, <2>2, <2>3 DEF TakedownCommit, SkillStatuses
  <1>9. CASE RejectRemovalUpdate(p)
    BY <1>0, <1>9
    DEF RejectRemovalUpdate, Request, ReqStatuses, Call, db
  <1>10. CASE RejectRemovalActivate(p)
    BY <1>0, <1>10
    DEF RejectRemovalActivate, ReactivatedListing, WithStatus, Listing,
        NoListing, ListingStatuses, Call, db
  <1>11. CASE RejectRemovalSkill(p)
    BY <1>0, <1>11
    DEF RejectRemovalSkill, SetSkillStatus, SkillStatuses, Call, db
  <1>12. CASE PurgeSubmissions(p)
    BY <1>0, <1>12
    DEF PurgeSubmissions, Submission, SubStatuses, NoSubmission, Call, db
  <1>13. CASE PurgeListing(p)
    BY <1>0, <1>13
    DEF PurgeListing, RemovedListing, WithStatus, Listing, NoListing,
        ListingStatuses, Call, db
  <1>14. CASE PurgeSkill(p)
    BY <1>0, <1>14
    DEF PurgeSkill, SetSkillStatus, SkillStatuses, Call, db
  <1>15. CASE DeleteCleanup(p)
    BY <1>0, <1>15
    DEF DeleteCleanup, Call, db
  <1>16. CASE DeleteRow(p)
    <2>1. [i \in Subs |-> NoSubmission] \in [Subs -> Submission]
      BY DEF NoSubmission, Submission
    <2> QED  BY <1>0, <1>16, <2>1 DEF DeleteRow, db
  <1>17. CASE OptimizeBump(p)
    BY <1>0, <1>17
    DEF OptimizeBump, Call, db
  <1>18. CASE OptimizeSnapshot(p)
    <2>1. calls[p].version \in Versions
      BY <1>0, <1>18 DEF OptimizeSnapshot, At, Call
    <2> QED  BY <1>0, <1>18, <2>1 DEF OptimizeSnapshot
  <1>19. CASE UNCHANGED db
    BY <1>0, <1>19 DEF db
  <1> QED
    BY <1>1, <1>2, <1>3, <1>4, <1>5, <1>6, <1>7, <1>8, <1>9, <1>10, <1>11,
       <1>12, <1>13, <1>14, <1>15, <1>16, <1>17, <1>18, <1>19
    DEF Continue, Statement, SubmitDowngrade, ApproveSnapshot,
        ApproveSubmission, ApproveListing, RejectLive, ReadListing,
        ReadRemaining, DropSubmission, DropListing, DropSkill,
        RequestRemovalPending, RequestRemovalTarget, RequestRemovalInsert,
        ApproveRemovalTarget, ApproveRemovalListing, TakedownSubmissions,
        TakedownListing, TakedownSkill, RejectRemovalListing, DeletePending

-----------------------------------------------------------------------------
\* In every reachable state the tables, the calls and the locks are well typed,
\* whatever the number of requests, rows and versions.
THEOREM TypeCorrect == Spec => []TypeOK
  <1>1. Init => TypeOK
    BY InitTypeOK
  <1>2. TypeOK /\ [Next]_vars => TypeOK'
    <2> SUFFICES ASSUME TypeOK, [Next]_vars PROVE TypeOK'
      OBVIOUS
    <2>0. TablesOK /\ ControlOK
      BY TypeParts
    <2>1. ASSUME NEW p \in Procs, Begin(p) PROVE TypeOK'
      BY <2>1, BeginTables, BeginControl DEF TypeOK, TablesOK, ControlOK
    <2>2. ASSUME NEW p \in Procs, Continue(p) PROVE TypeOK'
      BY <2>2, ContinueTables, ContinueControl DEF TypeOK, TablesOK, ControlOK
    <2>3. ASSUME NEW p \in Procs, Abort(p) PROVE TypeOK'
      BY <2>0, <2>3, ReturnControl DEF Abort, db, TypeOK, TablesOK, ControlOK
    <2>4. CASE UNCHANGED vars
      BY <2>4 DEF vars, db, TypeOK
    <2> QED  BY <2>1, <2>2, <2>3, <2>4 DEF Next
  <1> QED  BY <1>1, <1>2, PTL DEF Spec
-----------------------------------------------------------------------------
(* One pending removal request.                                            *)

\* No row is locked by two transactions.
LockExclusion ==
  \A p, q \in Procs : p # q => held[p] \cap held[q] = {}

\* A call that has inserted a removal request holds the unique index's key, and
\* until it commits no request is pending.
InsertClaims ==
  \A p \in Procs : calls[p].at = "requestRemoval:listing" =>
    PendingKey \in held[p] /\ ReqsWith("pending") = {}

RequestInv == TypeOK /\ LockExclusion /\ InsertClaims /\ OnePendingRequest

\* A step of p takes locks only among rows nobody else holds.
TakesLocks(p) ==
  \E W \in SUBSET Rows : /\ W \cap HeldByOthers(p) = {}
                         /\ held' = [held EXCEPT ![p] = @ \cup W]

LEMMA StatementTakesLocks ==
  ASSUME TypeOK, NEW p \in Procs, NEW s, NEW t, Statement(p, s, t)
  PROVE  TakesLocks(p)
  <1>1. Wants(calls[p]) \in SUBSET Rows /\ ~Blocked(p)
    BY DEF Wants, Statement, At
  <1> QED  BY <1>1 DEF TakesLocks, Statement, Blocked

LEMMA InsertTakesLocks ==
  ASSUME TypeOK, NEW p \in Procs, RequestRemovalInsert(p), ~Return(p)
  PROVE  TakesLocks(p)
  <1>1. PendingKey \in Wants(calls[p]) /\ ~Blocked(p)
    BY DEF RequestRemovalInsert, At, Wants, Rows
  <1>2. {PendingKey} \in SUBSET Rows /\ {PendingKey} \cap HeldByOthers(p) = {}
    BY <1>1 DEF Blocked, Wants
  <1>3. held' = [held EXCEPT ![p] = @ \cup {PendingKey}]
    BY DEF RequestRemovalInsert
  <1> QED  BY <1>2, <1>3 DEF TakesLocks

\* What an action may do to the locks.
LEMMA LockShape ==
  ASSUME TypeOK, NEW p \in Procs, Begin(p) \/ Continue(p) \/ Abort(p)
  PROVE  UNCHANGED held \/ Return(p) \/ TakesLocks(p)
  <1>1. CASE Begin(p)
    BY <1>1 DEF Begin, Starts, SubmitCheck, ApproveCheck, RejectCheck, RemoveVersionCheck,
           RequestRemovalCheck, ApproveRemovalCheck, RejectRemovalCheck,
               PurgeCheck, DeleteCheck, UpdateStatus, OptimizeStart
  <1>2. CASE Abort(p)
    BY <1>2 DEF Abort
  <1>3. CASE RequestRemovalInsert(p)
    BY <1>3, InsertTakesLocks
  <1>4. CASE ApproveSubmission(p)
    BY <1>4, StatementTakesLocks DEF ApproveSubmission
  <1>5. CASE ApproveListing(p)
    BY <1>5, StatementTakesLocks DEF ApproveListing
  <1>6. CASE DropSubmission(p)
    BY <1>6, StatementTakesLocks DEF DropSubmission
  <1>7. CASE DropListing(p)
    BY <1>7, StatementTakesLocks DEF DropListing
  <1>8. CASE DropSkill(p)
    BY <1>8, StatementTakesLocks DEF DropSkill
  <1>9. CASE TakedownSubmissions(p)
    BY <1>9, StatementTakesLocks DEF TakedownSubmissions
  <1>10. CASE TakedownListing(p)
    BY <1>10, StatementTakesLocks DEF TakedownListing
  <1>11. CASE TakedownSkill(p)
    BY <1>11, StatementTakesLocks DEF TakedownSkill
  <1>12. CASE Continue(p)
    BY <1>12, <1>3, <1>4, <1>5, <1>6, <1>7, <1>8, <1>9, <1>10, <1>11
    DEF Continue, Goto, SubmitDowngrade, SubmitCreate, SubmitSkill,
        ApproveSnapshot, ApproveCommit, RejectUpdate, RejectLive,
        RejectSkill, ReadListing, ReadRemaining, DropCommit,
        RequestRemovalPending, RequestRemovalTarget, RequestRemovalCommit,
        ApproveRemovalTarget, ApproveRemovalListing, TakedownCommit,
        RejectRemovalUpdate, RejectRemovalListing, RejectRemovalActivate,
        RejectRemovalSkill, PurgeSubmissions, PurgeListing, PurgeSkill,
        DeletePending, DeleteCleanup, DeleteRow, OptimizeBump,
        OptimizeSnapshot
  <1> QED  BY <1>1, <1>2, <1>12

LEMMA LockExclusionStep ==
  ASSUME TypeOK, LockExclusion, NEW p \in Procs,
         UNCHANGED held \/ Return(p) \/ TakesLocks(p)
  PROVE  LockExclusion'
  <1>1. held \in [Procs -> SUBSET Rows]
    BY DEF TypeOK
  <1>2. CASE UNCHANGED held
    BY <1>2 DEF LockExclusion
  <1>3. CASE Return(p)
    BY <1>1, <1>3 DEF LockExclusion, Return
  <1>4. CASE TakesLocks(p)
    <2>1. PICK W \in SUBSET Rows : /\ W \cap HeldByOthers(p) = {}
                                   /\ held' = [held EXCEPT ![p] = @ \cup W]
      BY <1>4 DEF TakesLocks
    <2>2. \A q \in Procs : q # p => W \cap held[q] = {}
      BY <2>1 DEF HeldByOthers
    <2> QED  BY <1>1, <2>1, <2>2 DEF LockExclusion
  <1> QED  BY <1>2, <1>3, <1>4

\* Only the commit of requestRemoval makes a request pending.
LEMMA PendingShape ==
  ASSUME TypeOK, NEW p \in Procs, Begin(p) \/ Continue(p) \/ Abort(p)
  PROVE  \/ RequestRemovalCommit(p)
         \/ ReqsWith("pending")' \subseteq ReqsWith("pending")
  <1>1. CASE UNCHANGED requests
    BY <1>1 DEF ReqsWith
  <1>2. CASE DropCommit(p)
    BY <1>2 DEF DropCommit, ReqsWith, TypeOK, Request
  <1>3. CASE TakedownCommit(p)
    BY <1>3 DEF TakedownCommit, ReqsWith, TypeOK, Request
  <1>4. CASE RejectRemovalUpdate(p)
    BY <1>4 DEF RejectRemovalUpdate, ReqsWith, TypeOK, Request
  <1>5. CASE Begin(p)
    BY <1>1, <1>5 DEF Begin, Starts, db, SubmitCheck, ApproveCheck,
        RejectCheck, RemoveVersionCheck, RequestRemovalCheck,
        ApproveRemovalCheck, RejectRemovalCheck, PurgeCheck, DeleteCheck,
        UpdateStatus, OptimizeStart
  <1>6. CASE Abort(p)
    BY <1>1, <1>6 DEF Abort, db
  <1>7. CASE Continue(p)
    BY <1>1, <1>2, <1>3, <1>4, <1>7 DEF Continue, Statement, db,
        SubmitDowngrade, SubmitCreate, SubmitSkill, ApproveSnapshot,
        ApproveSubmission, ApproveListing, ApproveCommit, RejectUpdate,
        RejectLive, RejectSkill, ReadListing, ReadRemaining, DropSubmission,
        DropListing, DropSkill, RequestRemovalPending, RequestRemovalTarget,
        RequestRemovalInsert, ApproveRemovalTarget, ApproveRemovalListing,
        TakedownSubmissions, TakedownListing, TakedownSkill,
        RejectRemovalListing, RejectRemovalActivate, RejectRemovalSkill,
        PurgeSubmissions, PurgeListing, PurgeSkill, DeletePending,
        DeleteCleanup, DeleteRow, OptimizeBump, OptimizeSnapshot
  <1> QED  BY <1>5, <1>6, <1>7

\* Only the insert itself leads to the last await of requestRemoval.
LEMMA ClaimShape ==
  ASSUME TypeOK, NEW p \in Procs, Begin(p) \/ Continue(p) \/ Abort(p),
         calls'[p].at = "requestRemoval:listing"
  PROVE  /\ RequestRemovalInsert(p) /\ ~Return(p)
  <1>0. calls \in [Procs -> Call]
    BY DEF TypeOK
  <1>1. ~Return(p)
    BY <1>0 DEF Return, Idle, NewCall
  <1>2. \A s : Goto(p, s) => s = "requestRemoval:listing"
    BY <1>0 DEF Goto, Call
  <1>3. \A s, t : Statement(p, s, t) => t = "requestRemoval:listing"
    BY <1>0 DEF Statement, Call
  <1>4. ~Abort(p)
    BY <1>1 DEF Abort
  <1>5. ~Begin(p)
    BY <1>0 DEF Begin, Starts, NewCall, Idle, SubmitCheck, ApproveCheck,
        RejectCheck, RemoveVersionCheck, RequestRemovalCheck,
        ApproveRemovalCheck, RejectRemovalCheck, PurgeCheck, DeleteCheck,
        UpdateStatus, OptimizeStart
  <1>6. CASE Continue(p)
    <2>1. ~RejectLive(p) /\ ~ReadRemaining(p)
      BY <1>0 DEF RejectLive, ReadRemaining, Call
    <2>2. ~OptimizeBump(p)
      BY <1>0, <1>1 DEF OptimizeBump, NewCall
    <2>3. ~SubmitDowngrade(p) /\ ~SubmitCreate(p) /\ ~SubmitSkill(p)
          /\ ~ApproveSnapshot(p) /\ ~ApproveSubmission(p)
          /\ ~ApproveListing(p) /\ ~ApproveCommit(p) /\ ~RejectUpdate(p)
          /\ ~RejectSkill(p)
      BY <1>1, <1>2, <1>3 DEF SubmitDowngrade, SubmitCreate, SubmitSkill,
          ApproveSnapshot, ApproveSubmission, ApproveListing, ApproveCommit,
          RejectUpdate, RejectSkill
    <2>4. ~ReadListing(p) /\ ~DropSubmission(p) /\ ~DropListing(p)
          /\ ~DropSkill(p) /\ ~DropCommit(p) /\ ~RequestRemovalPending(p)
          /\ ~RequestRemovalTarget(p) /\ ~RequestRemovalCommit(p)
          /\ ~ApproveRemovalTarget(p)
      BY <1>1, <1>2, <1>3 DEF ReadListing, DropSubmission, DropListing,
          DropSkill, DropCommit, RequestRemovalPending, RequestRemovalTarget,
          RequestRemovalCommit, ApproveRemovalTarget
    <2>5. ~ApproveRemovalListing(p) /\ ~TakedownSubmissions(p)
          /\ ~TakedownListing(p) /\ ~TakedownSkill(p) /\ ~TakedownCommit(p)
          /\ ~RejectRemovalUpdate(p) /\ ~RejectRemovalListing(p)
          /\ ~RejectRemovalActivate(p) /\ ~RejectRemovalSkill(p)
      BY <1>1, <1>2, <1>3 DEF ApproveRemovalListing, TakedownSubmissions,
          TakedownListing, TakedownSkill, TakedownCommit,
          RejectRemovalUpdate, RejectRemovalListing, RejectRemovalActivate,
          RejectRemovalSkill
    <2>6. ~PurgeSubmissions(p) /\ ~PurgeListing(p) /\ ~PurgeSkill(p)
          /\ ~DeletePending(p) /\ ~DeleteCleanup(p) /\ ~DeleteRow(p)
          /\ ~OptimizeSnapshot(p)
      BY <1>1, <1>2, <1>3 DEF PurgeSubmissions, PurgeListing, PurgeSkill,
          DeletePending, DeleteCleanup, DeleteRow, OptimizeSnapshot
    <2> QED  BY <1>1, <1>6, <2>1, <2>2, <2>3, <2>4, <2>5, <2>6 DEF Continue
  <1> QED  BY <1>1, <1>4, <1>5, <1>6

\* A step of p leaves the calls and the locks of the others alone.
OthersKeep(p) ==
  \A q \in Procs \ {p} : calls'[q] = calls[q] /\ held'[q] = held[q]

LEMMA RequestInvStep ==
  ASSUME RequestInv, NEW p \in Procs, Begin(p) \/ Continue(p) \/ Abort(p),
         TypeOK', OthersKeep(p)
  PROVE  LockExclusion' /\ InsertClaims' /\ OnePendingRequest'
  <1> USE DEF RequestInv
  <1>1. LockExclusion'
    BY LockShape, LockExclusionStep
  <1>2. CASE RequestRemovalCommit(p)
    <2>1. calls[p].at = "requestRemoval:listing"
      BY <1>2 DEF RequestRemovalCommit, At
    <2>2. PendingKey \in held[p] /\ ReqsWith("pending") = {}
      BY <2>1 DEF InsertClaims
    <2>3. \A r \in Reqs : requests'[r].status = "pending" => r = calls[p].req
      BY <1>2, <2>2 DEF RequestRemovalCommit, ReqsWith, TypeOK
    <2>4. OnePendingRequest'
      BY <2>3 DEF OnePendingRequest, ReqsWith
    <2>5. \A q \in Procs : calls'[q].at # "requestRemoval:listing"
      <3>1. \A q \in Procs \ {p} : calls[q].at # "requestRemoval:listing"
        BY <2>2 DEF InsertClaims, LockExclusion
      <3>2. calls'[p].at # "requestRemoval:listing"
        BY <1>2 DEF RequestRemovalCommit, Return, TypeOK, Idle, NewCall
      <3> QED  BY <3>1, <3>2 DEF OthersKeep
    <2> QED  BY <1>1, <2>4, <2>5 DEF InsertClaims
  <1>3. CASE ReqsWith("pending")' \subseteq ReqsWith("pending")
    <2>1. OnePendingRequest'
      BY <1>3 DEF OnePendingRequest
    <2>2. ASSUME NEW q \in Procs, calls'[q].at = "requestRemoval:listing"
          PROVE  PendingKey \in held'[q] /\ ReqsWith("pending")' = {}
      <3>1. CASE q # p
        BY <1>3, <2>2, <3>1 DEF OthersKeep, InsertClaims
      <3>2. CASE q = p
        <4>1. RequestRemovalInsert(p) /\ ~Return(p)
          BY <2>2, <3>2, ClaimShape
        <4>2. PendingKey \in held'[p] /\ ReqsWith("pending") = {}
          BY <4>1 DEF RequestRemovalInsert, UniqueIndexFails, TypeOK
        <4> QED  BY <1>3, <3>2, <4>2
      <3> QED  BY <3>1, <3>2
    <2> QED  BY <1>1, <2>1, <2>2 DEF InsertClaims
  <1> QED  BY <1>2, <1>3, PendingShape

LEMMA OthersKeepStep ==
  ASSUME TypeOK, NEW p \in Procs, Begin(p) \/ Continue(p) \/ Abort(p)
  PROVE  OthersKeep(p)
  <1>0. calls \in [Procs -> Call] /\ held \in [Procs -> SUBSET Rows]
    BY DEF TypeOK
  <1>1. UNCHANGED calls \/ \A q \in Procs \ {p} : calls'[q] = calls[q]
    <2>1. CASE Begin(p)
      BY <1>0, <2>1 DEF Begin, Starts, SubmitCheck, ApproveCheck,
          RejectCheck, RemoveVersionCheck, RequestRemovalCheck,
          ApproveRemovalCheck, RejectRemovalCheck, PurgeCheck, DeleteCheck,
          UpdateStatus, OptimizeStart
    <2>2. CASE Continue(p)
      BY <1>0, <2>2 DEF Continue, Goto, Return, Statement, SubmitDowngrade,
          SubmitCreate, SubmitSkill, ApproveSnapshot, ApproveSubmission,
          ApproveListing, ApproveCommit, RejectUpdate, RejectLive,
          RejectSkill, ReadListing, ReadRemaining, DropSubmission,
          DropListing, DropSkill, DropCommit, RequestRemovalPending,
          RequestRemovalTarget, RequestRemovalInsert, RequestRemovalCommit,
          ApproveRemovalTarget, ApproveRemovalListing, TakedownSubmissions,
          TakedownListing, TakedownSkill, TakedownCommit,
          RejectRemovalUpdate, RejectRemovalListing, RejectRemovalActivate,
          RejectRemovalSkill, PurgeSubmissions, PurgeListing, PurgeSkill,
          DeletePending, DeleteCleanup, DeleteRow, OptimizeBump,
          OptimizeSnapshot
    <2>3. CASE Abort(p)
      BY <1>0, <2>3 DEF Abort, Return
    <2> QED  BY <2>1, <2>2, <2>3
  <1>2. \A q \in Procs \ {p} : held'[q] = held[q]
    BY <1>0, LockShape DEF Return, TakesLocks
  <1> QED  BY <1>1, <1>2 DEF OthersKeep

LEMMA RequestInvariant == Spec => []RequestInv
  <1>1. Init => RequestInv
    BY InitTypeOK
    DEF Init, RequestInv, LockExclusion, InsertClaims, OnePendingRequest,
        ReqsWith, NoRequest, Idle, NewCall
  <1>2. RequestInv /\ TypeOK' /\ [Next]_vars => RequestInv'
    <2> SUFFICES ASSUME RequestInv, TypeOK', [Next]_vars PROVE RequestInv'
      OBVIOUS
    <2>1. ASSUME NEW p \in Procs, Begin(p) \/ Continue(p) \/ Abort(p)
          PROVE  RequestInv'
      BY <2>1, OthersKeepStep, RequestInvStep DEF RequestInv
    <2>2. CASE UNCHANGED vars
      BY <2>2 DEF vars, db, RequestInv, LockExclusion, InsertClaims,
                  OnePendingRequest, ReqsWith
    <2> QED  BY <2>1, <2>2 DEF Next
  <1> QED  BY <1>1, <1>2, TypeCorrect, PTL DEF Spec

\* A skill never has two pending removal requests, however many of the owner's
\* requests pass hasPendingForSkill at once.
THEOREM OnePendingRequestHolds == Spec => []OnePendingRequest
  BY RequestInvariant, PTL DEF RequestInv

\* Row locks are exclusive: no two open transactions hold the same row.
THEOREM LocksAreExclusive == Spec => []LockExclusion
  BY RequestInvariant, PTL DEF RequestInv

-----------------------------------------------------------------------------
(* The order in which transactions lock rows.                              *)

\* Where a call may hold the listing's row, the skill's row, or any row.
CommitPoints  == {"drop:request", "takedown:request"}
SkillPoints   == {"approve:skill", "drop:skill", "takedown:skill"}
ListingPoints == {"approve:listing", "drop:listing", "takedown:listing",
                  "requestRemoval:listing"}
LockPoints    == CommitPoints \cup SkillPoints \cup ListingPoints

\* Submissions or the index key first, then the listing, then the skill; a
\* request's row only together with the commit.
HoldsInOrder(c, H) ==
  /\ \A r \in 0..MaxReqs : RequestRow(r) \notin H
  /\ SkillRow \in H => c.at \in CommitPoints
  /\ ListingRow \in H => c.at \in CommitPoints \cup SkillPoints
  /\ H # {} => c.at \in LockPoints
  /\ c.at = "approve:skill" => ListingRow \in H

LocksInOrder == \A p \in Procs : HoldsInOrder(calls[p], held[p])

LEMMA NothingHeld ==
  ASSUME NEW c, c.at # "approve:skill"
  PROVE  HoldsInOrder(c, {})
  BY DEF HoldsInOrder

\* A call that is not inside a transaction holds nothing, and a step that takes
\* no lock and enters no transaction keeps it so.
LEMMA OutsideHoldsNothing ==
  ASSUME LocksInOrder, NEW p \in Procs, calls[p].at \notin LockPoints
  PROVE  held[p] = {}
  BY DEF LocksInOrder, HoldsInOrder

LEMMA ReturnInOrder ==
  ASSUME TypeOK, NEW p \in Procs, Return(p)
  PROVE  HoldsInOrder(calls'[p], held'[p])
  <1>1. calls'[p] = Idle /\ held'[p] = {}
    BY DEF Return, TypeOK
  <1> QED  BY <1>1, NothingHeld DEF Idle, NewCall

LEMMA GotoInOrder ==
  ASSUME TypeOK, LocksInOrder, NEW p \in Procs, NEW s \in Steps, Goto(p, s),
         calls[p].at \notin LockPoints, s # "approve:skill"
  PROVE  HoldsInOrder(calls'[p], held'[p])
  <1>1. held'[p] = {}
    BY OutsideHoldsNothing DEF Goto
  <1>2. calls'[p].at = s
    BY DEF Goto, TypeOK, Call
  <1> QED  BY <1>1, <1>2, NothingHeld

LEMMA StatementHolds ==
  ASSUME TypeOK, NEW p \in Procs, NEW s, NEW t \in Steps, Statement(p, s, t)
  PROVE  /\ calls[p].at = s /\ calls'[p].at = t
         /\ held'[p] = held[p] \cup Wants(calls[p])
  BY DEF Statement, At, TypeOK, Call

LEMMA RowsDiffer ==
  /\ \A i, r : SubmissionRow(i) # RequestRow(r)
  /\ \A i : SubmissionRow(i) # ListingRow /\ SubmissionRow(i) # SkillRow
            /\ SubmissionRow(i) # PendingKey
  /\ \A r : RequestRow(r) # ListingRow /\ RequestRow(r) # SkillRow
            /\ RequestRow(r) # PendingKey
  /\ ListingRow # SkillRow /\ ListingRow # PendingKey /\ SkillRow # PendingKey
  /\ ListingRow \in Rows /\ SkillRow \in Rows /\ PendingKey \in Rows
  BY DEF SubmissionRow, RequestRow, ListingRow, SkillRow, PendingKey, Rows

LEMMA FirstStatementInOrder ==
  ASSUME TypeOK, LocksInOrder, NEW p \in Procs, NEW t \in ListingPoints,
         NEW s \in {"approve:submission", "drop:submission",
                    "takedown:submissions"},
         Statement(p, s, t)
  PROVE  HoldsInOrder(calls'[p], held'[p])
  <1>1. calls[p].at = s /\ calls'[p].at = t /\ held'[p] = held[p] \cup Wants(calls[p])
    <2>1. t \in Steps
      BY DEF ListingPoints, Steps
    <2> QED  BY <2>1, StatementHolds
  <1>2. held[p] = {}
    BY <1>1, OutsideHoldsNothing DEF LockPoints, CommitPoints, SkillPoints,
                                     ListingPoints
  <1>3. \A x \in Wants(calls[p]) : \E i : x = SubmissionRow(i)
    BY <1>1 DEF Wants
  <1>4. /\ \A r \in 0..MaxReqs : RequestRow(r) \notin held'[p]
        /\ SkillRow \notin held'[p] /\ ListingRow \notin held'[p]
    BY <1>1, <1>2, <1>3, RowsDiffer
  <1> QED  BY <1>1, <1>4 DEF HoldsInOrder, LockPoints, ListingPoints

LEMMA ListingStatementInOrder ==
  ASSUME TypeOK, LocksInOrder, NEW p \in Procs,
         NEW t \in SkillPoints \cup CommitPoints,
         NEW s \in {"approve:listing", "drop:listing", "takedown:listing"},
         Statement(p, s, t)
  PROVE  HoldsInOrder(calls'[p], held'[p])
  <1>1. calls[p].at = s /\ calls'[p].at = t /\ held'[p] = held[p] \cup Wants(calls[p])
    <2>1. t \in Steps
      BY DEF SkillPoints, CommitPoints, Steps
    <2> QED  BY <2>1, StatementHolds
  <1>2. Wants(calls[p]) = {ListingRow}
    BY <1>1, RowsDiffer DEF Wants
  <1>3. HoldsInOrder(calls[p], held[p])
    BY DEF LocksInOrder
  <1>4. /\ \A r \in 0..MaxReqs : RequestRow(r) \notin held'[p]
        /\ SkillRow \notin held'[p] /\ ListingRow \in held'[p]
    BY <1>1, <1>2, <1>3, RowsDiffer DEF HoldsInOrder, CommitPoints
  <1> QED  BY <1>1, <1>4 DEF HoldsInOrder, LockPoints

LEMMA SkillStatementInOrder ==
  ASSUME TypeOK, LocksInOrder, NEW p \in Procs, NEW t \in CommitPoints,
         NEW s \in {"drop:skill", "takedown:skill"},
         Statement(p, s, t)
  PROVE  HoldsInOrder(calls'[p], held'[p])
  <1>1. calls[p].at = s /\ calls'[p].at = t /\ held'[p] = held[p] \cup Wants(calls[p])
    <2>1. t \in Steps
      BY DEF CommitPoints, Steps
    <2> QED  BY <2>1, StatementHolds
  <1>2. Wants(calls[p]) = {SkillRow}
    BY <1>1, RowsDiffer DEF Wants
  <1>3. HoldsInOrder(calls[p], held[p])
    BY DEF LocksInOrder
  <1>4. \A r \in 0..MaxReqs : RequestRow(r) \notin held'[p]
    BY <1>1, <1>2, <1>3, RowsDiffer DEF HoldsInOrder
  <1> QED  BY <1>1, <1>4 DEF HoldsInOrder, LockPoints, CommitPoints

\* The listing's row is the only one taken after the index key.
LEMMA InsertInOrder ==
  ASSUME TypeOK, LocksInOrder, NEW p \in Procs, RequestRemovalInsert(p),
         ~Return(p)
  PROVE  HoldsInOrder(calls'[p], held'[p])
  <1>1. calls[p].at = "requestRemoval:insert"
    BY DEF RequestRemovalInsert, At
  <1>2. held'[p] = held[p] \cup {PendingKey}
    BY DEF RequestRemovalInsert, TypeOK
  <1>3. calls'[p].at = "requestRemoval:listing"
    BY DEF RequestRemovalInsert, TypeOK, Call
  <1>4. held[p] = {}
    BY <1>1, OutsideHoldsNothing DEF LockPoints, CommitPoints, SkillPoints,
                                     ListingPoints
  <1> QED  BY <1>2, <1>3, <1>4, RowsDiffer
           DEF HoldsInOrder, LockPoints, ListingPoints

\* Every kind of step keeps the order for the call that takes it.
LEMMA InOrderStep ==
  ASSUME TypeOK, LocksInOrder, NEW p \in Procs,
         Begin(p) \/ Continue(p) \/ Abort(p)
  PROVE  HoldsInOrder(calls'[p], held'[p])
  <1> USE DEF LockPoints, CommitPoints, SkillPoints, ListingPoints
  <1>0. calls \in [Procs -> Call] /\ held \in [Procs -> SUBSET Rows]
    BY DEF TypeOK
  <1>1. CASE Return(p)
    BY <1>1, ReturnInOrder
  <1>2. ASSUME calls[p].at \notin LockPoints, UNCHANGED held,
               calls'[p].at # "approve:skill"
        PROVE  HoldsInOrder(calls'[p], held'[p])
    BY <1>2, OutsideHoldsNothing, NothingHeld
  <1>3. CASE Begin(p)
    <2>1. /\ calls[p] = Idle /\ held'[p] = held[p]
          /\ calls'[p].at # "approve:skill"
      BY <1>0, <1>3 DEF Begin, Starts, NewCall, Idle, SubmitCheck,
          ApproveCheck, RejectCheck, RemoveVersionCheck, RequestRemovalCheck,
          ApproveRemovalCheck, RejectRemovalCheck, PurgeCheck, DeleteCheck,
          UpdateStatus, OptimizeStart
    <2>2. held'[p] = {}
      BY <2>1, OutsideHoldsNothing DEF Idle, NewCall
    <2> QED  BY <2>1, <2>2, NothingHeld
  <1>4. CASE ApproveSubmission(p)
    BY <1>4, FirstStatementInOrder DEF ApproveSubmission
  <1>5. CASE ApproveListing(p)
    BY <1>1, <1>5, ListingStatementInOrder DEF ApproveListing
  <1>6. CASE DropSubmission(p)
    BY <1>6, FirstStatementInOrder DEF DropSubmission
  <1>7. CASE DropListing(p)
    BY <1>7, ListingStatementInOrder DEF DropListing
  <1>8. CASE DropSkill(p)
    BY <1>8, SkillStatementInOrder DEF DropSkill
  <1>9. CASE TakedownSubmissions(p)
    BY <1>9, FirstStatementInOrder DEF TakedownSubmissions
  <1>10. CASE TakedownListing(p)
    BY <1>10, ListingStatementInOrder DEF TakedownListing
  <1>11. CASE TakedownSkill(p)
    BY <1>11, SkillStatementInOrder DEF TakedownSkill
  <1>12. CASE RequestRemovalInsert(p)
    BY <1>1, <1>12, InsertInOrder
  <1>13. CASE RejectLive(p)
    <2>1. calls[p].at = "reject:live" /\ calls'[p].at = "reject:skill"
      BY <1>0, <1>13 DEF RejectLive, At, Call
    <2> QED  BY <1>2, <1>13, <2>1 DEF RejectLive
  <1>14. CASE ReadRemaining(p)
    <2>1. calls[p].at = "remaining" /\ calls'[p].at = "drop:submission"
      BY <1>0, <1>14 DEF ReadRemaining, At, Call
    <2> QED  BY <1>2, <1>14, <2>1 DEF ReadRemaining
  <1>15. CASE OptimizeBump(p)
    <2>1. CASE ~Return(p)
      <3>1. calls[p].at = "optimize:bump" /\ calls'[p].at = "optimize:snapshot"
            /\ UNCHANGED held
        BY <1>0, <1>15, <2>1 DEF OptimizeBump, At, NewCall
      <3> QED  BY <1>2, <3>1
    <2> QED  BY <1>1, <2>1
  <1>16. ASSUME NEW s \in Steps, Goto(p, s), s # "approve:skill",
                calls[p].at \notin LockPoints
         PROVE  HoldsInOrder(calls'[p], held'[p])
    BY <1>16, GotoInOrder
  <1>17. CASE SubmitDowngrade(p) \/ SubmitCreate(p) \/ SubmitSkill(p)
              \/ ApproveSnapshot(p)
    BY <1>1, <1>16, <1>17 DEF SubmitDowngrade, SubmitCreate, SubmitSkill,
       ApproveSnapshot, At, Steps
  <1>18. CASE ApproveCommit(p) \/ RejectUpdate(p) \/ RejectSkill(p)
              \/ ReadListing(p) \/ DropCommit(p) \/ TakedownCommit(p)
              \/ RequestRemovalCommit(p)
    BY <1>1, <1>16, <1>18 DEF ApproveCommit, RejectUpdate, RejectSkill,
       ReadListing, DropCommit, TakedownCommit, RequestRemovalCommit, At, Steps
  <1>19. CASE RequestRemovalPending(p) \/ RequestRemovalTarget(p)
              \/ ApproveRemovalTarget(p) \/ ApproveRemovalListing(p)
    BY <1>1, <1>16, <1>19 DEF RequestRemovalPending, RequestRemovalTarget,
       ApproveRemovalTarget, ApproveRemovalListing, At, Steps
  <1>20. CASE RejectRemovalUpdate(p) \/ RejectRemovalListing(p)
              \/ RejectRemovalActivate(p) \/ RejectRemovalSkill(p)
    BY <1>1, <1>16, <1>20 DEF RejectRemovalUpdate, RejectRemovalListing,
       RejectRemovalActivate, RejectRemovalSkill, At, Steps
  <1>21. CASE PurgeSubmissions(p) \/ PurgeListing(p) \/ PurgeSkill(p)
    BY <1>1, <1>16, <1>21 DEF PurgeSubmissions, PurgeListing, PurgeSkill, At,
       Steps
  <1>22. CASE DeletePending(p) \/ DeleteCleanup(p) \/ DeleteRow(p)
              \/ OptimizeSnapshot(p)
    BY <1>1, <1>16, <1>22 DEF DeletePending, DeleteCleanup, DeleteRow,
       OptimizeSnapshot, At, Steps
  <1>23. CASE Abort(p)
    BY <1>1, <1>23 DEF Abort
  <1> QED
    BY <1>3, <1>4, <1>5, <1>6, <1>7, <1>8, <1>9, <1>10, <1>11, <1>12, <1>13,
       <1>14, <1>15, <1>17, <1>18, <1>19, <1>20, <1>21, <1>22, <1>23
    DEF Continue

LEMMA LocksInOrderInvariant == Spec => []LocksInOrder
  <1>1. Init => LocksInOrder
    BY NothingHeld DEF Init, LocksInOrder, Idle, NewCall
  <1>2. TypeOK /\ LocksInOrder /\ [Next]_vars => LocksInOrder'
    <2> SUFFICES ASSUME TypeOK, LocksInOrder, [Next]_vars PROVE LocksInOrder'
      OBVIOUS
    <2>1. ASSUME NEW p \in Procs, Begin(p) \/ Continue(p) \/ Abort(p)
          PROVE  LocksInOrder'
      BY <2>1, InOrderStep, OthersKeepStep DEF LocksInOrder, OthersKeep
    <2>2. CASE UNCHANGED vars
      BY <2>2 DEF vars, LocksInOrder
    <2> QED  BY <2>1, <2>2 DEF Next
  <1> QED  BY <1>1, <1>2, TypeCorrect, PTL DEF Spec

\* No set of open transactions waits for one another's rows: whoever holds the
\* latest row of the order, submission, listing, skill, waits for nobody.
THEOREM NoLockCycleHolds == Spec => []NoLockCycle
  <1>1. TypeOK /\ LocksInOrder => NoLockCycle
    <2> SUFFICES ASSUME TypeOK, LocksInOrder, NEW S \in (SUBSET Procs) \ {{}}
                 PROVE  \E p \in S : \A q \in S \ {p} :
                          Wants(calls[p]) \cap held[q] = {}
      BY DEF NoLockCycle
    <2>0. \A p \in S : HoldsInOrder(calls[p], held[p])
      BY DEF LocksInOrder
    <2>1. CASE \E p \in S : SkillRow \in held[p]
      <3>1. PICK p \in S : SkillRow \in held[p]
        BY <2>1
      <3>2. \A x \in Wants(calls[p]) : \E r \in 0..MaxReqs : x = RequestRow(r)
        <4>1. calls[p].at \in CommitPoints
          BY <2>0, <3>1 DEF HoldsInOrder
        <4>2. calls[p].req \in 0..MaxReqs
          BY DEF TypeOK, Call
        <4> QED  BY <4>1, <4>2 DEF Wants, CommitPoints
      <3> QED  BY <2>0, <3>2 DEF HoldsInOrder
    <2>2. CASE /\ \A p \in S : SkillRow \notin held[p]
               /\ \E p \in S : ListingRow \in held[p]
      <3>1. PICK p \in S : ListingRow \in held[p]
        BY <2>2
      <3>2. \A x \in Wants(calls[p]) :
              x = SkillRow \/ \E r \in 0..MaxReqs : x = RequestRow(r)
        <4>1. calls[p].at \in CommitPoints \cup SkillPoints
          BY <2>0, <3>1 DEF HoldsInOrder
        <4>2. calls[p].req \in 0..MaxReqs
          BY DEF TypeOK, Call
        <4> QED  BY <4>1, <4>2 DEF Wants, CommitPoints, SkillPoints
      <3> QED  BY <2>0, <2>2, <3>2 DEF HoldsInOrder
    <2>3. CASE /\ \A p \in S : SkillRow \notin held[p] /\ ListingRow \notin held[p]
               /\ \E p \in S : held[p] # {}
      <3>1. PICK p \in S : held[p] # {}
        BY <2>3
      <3>2. \A x \in Wants(calls[p]) :
              \/ x = ListingRow \/ x = SkillRow
              \/ \E r \in 0..MaxReqs : x = RequestRow(r)
        <4>1. calls[p].at \in LockPoints
          BY <2>0, <3>1 DEF HoldsInOrder
        <4>2. calls[p].req \in 0..MaxReqs
          BY DEF TypeOK, Call
        <4> QED  BY <4>1, <4>2
                 DEF Wants, LockPoints, CommitPoints, SkillPoints, ListingPoints
      <3> QED  BY <2>0, <2>3, <3>2 DEF HoldsInOrder
    <2>4. CASE \A p \in S : held[p] = {}
      <3>1. S # {}
        OBVIOUS
      <3>2. PICK p \in S : TRUE
        BY <3>1, Zenon
      <3> QED  BY <2>4, <3>2
    <2>5. CASE \A p \in S : SkillRow \notin held[p]
      <3>1. CASE \A p \in S : ListingRow \notin held[p]
        <4>1. CASE \E p \in S : held[p] # {}
          BY <2>3, <2>5, <3>1, <4>1
        <4> QED  BY <2>4, <4>1
      <3> QED  BY <2>2, <2>5, <3>1
    <2> QED  BY <2>1, <2>5
  <1> QED  BY <1>1, TypeCorrect, LocksInOrderInvariant, PTL

-----------------------------------------------------------------------------
(* What a call knows.                                                      *)

ApprovePoints  == {"approve:snapshot", "approve:submission",
                   "approve:listing", "approve:skill"}
DropPoints     == {"drop:submission", "drop:listing", "drop:skill",
                   "drop:request"}
TakedownPoints == {"takedown:submissions", "takedown:listing",
                   "takedown:skill", "takedown:request"}
VersionPoints  == {"removeVersion:listing", "approveRemoval:target",
                   "remaining"} \cup DropPoints
RemovalPoints  == VersionPoints \cup TakedownPoints
                    \cup {"approveRemoval:listing"}

Inserted(i) == i \in Subs /\ submissions[i].status # "none"

\* An approval under way: while the skill is there, so are its submission and,
\* once approve has looked for it, the snapshot.  From the upsert of the listing
\* to the commit the skill cannot go.
ApproveKnows(c) ==
  c.at \in ApprovePoints =>
    /\ c.at = "approve:skill" => skill # "deleted"
    /\ skill # "deleted" =>
         /\ Inserted(c.sub) /\ submissions[c.sub].version = c.version
         /\ c.at # "approve:snapshot" => c.version \in snapshots

\* The removal of a version: there is a listing once it has looked, and the
\* version that is to replace it there has its snapshot.
VersionRemovalKnows(c) ==
  /\ c.at \in VersionPoints => c.sub \in Subs
  /\ c.at \in {"remaining"} \cup DropPoints => listing # NoListing
  /\ c.at \in DropPoints /\ c.next # 0 =>
       Inserted(c.next) /\ submissions[c.next].version \in snapshots

TakedownKnows(c) ==
  c.at \in TakedownPoints => c.sub = 0 /\ listing # NoListing

\* The removal request a call is about: not visible before the commit of
\* requestRemoval, and the same from then on.
RequestKnows(c) ==
  /\ c.at = "requestRemoval:listing" => skill # "deleted"
  /\ c.req # 0 =>
       IF c.at = "requestRemoval:listing"
         THEN requests[c.req].status = "none"
         ELSE /\ requests[c.req].status # "none"
              /\ c.at \in RemovalPoints => requests[c.req].target = c.sub

Knows(c) == /\ ApproveKnows(c) /\ VersionRemovalKnows(c)
            /\ TakedownKnows(c) /\ RequestKnows(c)

CallsKnow == \A p \in Procs : Knows(calls[p])

\* What is listed, or may be listed by a removal, has its content.
ListingKnown ==
  listing # NoListing =>
    /\ Inserted(listing.sub)
    /\ submissions[listing.sub].version = listing.version
    /\ listing.version \in snapshots

ApprovedHaveSnapshots ==
  \A i \in Approved : submissions[i].version \in snapshots

BlankRequests ==
  \A r \in Reqs : requests[r].status = "none" => requests[r] = NoRequest

CatalogInv ==
  /\ RequestInv /\ LocksInOrder /\ CallsKnow
  /\ ListingKnown /\ ApprovedHaveSnapshots /\ BlankRequests
  /\ DeletedLeavesNothing

\* What a step may do to the tables: a row that is referred to keeps what it is
\* referred to for, unless the skill goes and takes it along.
TablesKeep ==
  /\ skill = "deleted" => skill' = "deleted"
  /\ skill' # "deleted" =>
       /\ snapshots \subseteq snapshots'
       /\ \A i \in Subs : submissions[i].status # "none" =>
            /\ submissions'[i].status # "none"
            /\ submissions'[i].version = submissions[i].version
  /\ listing # NoListing => listing' # NoListing
  /\ \A r \in Reqs : requests[r].status # "none" =>
       /\ requests'[r].status # "none"
       /\ requests'[r].target = requests[r].target

\* The actions that write a table; the others leave all of them alone.
Writes(p) ==
  \/ SubmitCreate(p) \/ SubmitSkill(p) \/ ApproveCommit(p)
  \/ RejectUpdate(p) \/ RejectSkill(p) \/ DropCommit(p)
  \/ RequestRemovalCommit(p) \/ TakedownCommit(p) \/ RejectRemovalUpdate(p)
  \/ RejectRemovalActivate(p) \/ RejectRemovalSkill(p) \/ PurgeSubmissions(p)
  \/ PurgeListing(p) \/ PurgeSkill(p) \/ DeleteCleanup(p) \/ DeleteRow(p)
  \/ UpdateStatus(p) \/ OptimizeStart(p) \/ OptimizeBump(p)
  \/ OptimizeSnapshot(p)

LEMMA WriteShape ==
  ASSUME NEW p \in Procs, Begin(p) \/ Continue(p) \/ Abort(p)
  PROVE  Writes(p) \/ UNCHANGED db
  <1>1. CASE Begin(p)
    BY <1>1 DEF Begin, Writes, Starts, SubmitCheck, ApproveCheck, RejectCheck,
        RemoveVersionCheck, RequestRemovalCheck, ApproveRemovalCheck,
        RejectRemovalCheck, PurgeCheck, DeleteCheck
  <1>2. CASE Abort(p)
    BY <1>2 DEF Abort
  <1>3. CASE Continue(p)
    BY <1>3 DEF Continue, Writes, Statement, SubmitDowngrade, ApproveSnapshot,
        ApproveSubmission, ApproveListing, RejectLive, ReadListing,
        ReadRemaining, DropSubmission, DropListing, DropSkill,
        RequestRemovalPending, RequestRemovalTarget, RequestRemovalInsert,
        ApproveRemovalTarget, ApproveRemovalListing, TakedownSubmissions,
        TakedownListing, TakedownSkill, RejectRemovalListing, DeletePending
  <1> QED  BY <1>1, <1>2, <1>3

LEMMA WithStatusKeeps ==
  ASSUME listing \in Listing, NEW s \in ListingStatuses
  PROVE  /\ WithStatus(s) = NoListing <=> listing = NoListing
         /\ WithStatus(s).sub = listing.sub
         /\ WithStatus(s).version = listing.version
         /\ listing # NoListing => WithStatus(s).status = s
  BY DEF WithStatus, Listing, NoListing, ListingStatuses

LEMMA KeepsListing ==
  ASSUME TypeOK
  PROVE  /\ RemovedListing = NoListing <=> listing = NoListing
         /\ RemovedListing.sub = listing.sub
         /\ RemovedListing.version = listing.version
         /\ listing # NoListing => RemovedListing.status = "removed"
         /\ ReactivatedListing = NoListing <=> listing = NoListing
         /\ ReactivatedListing.sub = listing.sub
         /\ ReactivatedListing.version = listing.version
         /\ WithStatus("removal_requested") = NoListing <=> listing = NoListing
         /\ WithStatus("removal_requested").sub = listing.sub
         /\ WithStatus("removal_requested").version = listing.version
  <1>1. listing \in Listing /\ {"removed", "active", "removal_requested"} \subseteq ListingStatuses
    BY DEF TypeOK, ListingStatuses
  <1> QED  BY <1>1, WithStatusKeeps DEF RemovedListing, ReactivatedListing

LEMMA ShowsAListing ==
  ASSUME NEW i, NEW v
  PROVE  /\ ListingShows(i, v) # NoListing
         /\ ListingShows(i, v).sub = i /\ ListingShows(i, v).version = v
  BY DEF ListingShows, NoListing

LEMMA TablesKeepStep ==
  ASSUME CatalogInv, NEW p \in Procs, Begin(p) \/ Continue(p) \/ Abort(p)
  PROVE  TablesKeep
  <1> USE DEF TablesKeep
  <1>0. TypeOK
    BY DEF CatalogInv, RequestInv
  <1>t. /\ submissions \in [Subs -> Submission] /\ requests \in [Reqs -> Request]
        /\ listing \in Listing
    BY <1>0 DEF TypeOK
  <1>c. calls[p] \in Call /\ Knows(calls[p])
    BY <1>0 DEF CatalogInv, CallsKnow, TypeOK
  <1>d. skill = "deleted" => listing = NoListing
    BY DEF CatalogInv, DeletedLeavesNothing
  <1>1. CASE UNCHANGED db
    BY <1>1 DEF db
  <1>2. CASE SubmitCreate(p)
    BY <1>2, <1>t DEF SubmitCreate, SubsWith, Submission
  <1>3. CASE SubmitSkill(p)
    BY <1>3 DEF SubmitSkill, SetSkillStatus
  <1>4. CASE ApproveCommit(p)
    <2>1. skill # "deleted"
      BY <1>4, <1>c DEF ApproveCommit, At, Knows, ApproveKnows, ApprovePoints
    <2>2. listing' # NoListing
      BY <1>4, ShowsAListing DEF ApproveCommit
    <2> QED  BY <1>4, <1>t, <2>1, <2>2 DEF ApproveCommit, Submission
  <1>5. CASE RejectUpdate(p)
    BY <1>5, <1>t DEF RejectUpdate, Submission
  <1>6. CASE RejectSkill(p)
    BY <1>6 DEF RejectSkill, SetSkillStatus
  <1>7. CASE DropCommit(p)
    <2>1. listing # NoListing
      BY <1>7, <1>c DEF DropCommit, LastDrop, At, Knows, VersionRemovalKnows,
                        DropPoints
    <2>2. listing' # NoListing
      BY <1>7, <1>0, <2>1, ShowsAListing, KeepsListing DEF DropCommit
    <2>3. skill # "deleted"
      BY <2>1, <1>d
    <2> QED  BY <1>7, <1>t, <2>1, <2>2, <2>3 DEF DropCommit, Submission, Request
  <1>8. CASE RequestRemovalCommit(p)
    <2>1. listing # NoListing => listing' # NoListing
      BY <1>8, <1>0, KeepsListing DEF RequestRemovalCommit
    <2>2. calls[p].req # 0 => requests[calls[p].req].status = "none"
      BY <1>8, <1>c DEF RequestRemovalCommit, At, Knows, RequestKnows
    <2>3. calls[p].req \in 0..MaxReqs
      BY <1>c DEF Call
    <2> QED  BY <1>8, <1>t, <2>1, <2>2, <2>3 DEF RequestRemovalCommit, Request
  <1>9. CASE TakedownCommit(p)
    <2>1. listing # NoListing
      BY <1>9, <1>c DEF TakedownCommit, At, Knows, TakedownKnows, TakedownPoints
    <2>2. listing' # NoListing
      BY <1>9, <1>0, <2>1, KeepsListing DEF TakedownCommit
    <2>3. skill # "deleted"
      BY <2>1, <1>d
    <2> QED  BY <1>9, <1>t, <2>1, <2>2, <2>3
             DEF TakedownCommit, Submission, Request
  <1>10. CASE RejectRemovalUpdate(p)
    BY <1>10, <1>t DEF RejectRemovalUpdate, Request
  <1>11. CASE RejectRemovalActivate(p)
    BY <1>11, <1>0, KeepsListing DEF RejectRemovalActivate
  <1>12. CASE RejectRemovalSkill(p)
    BY <1>12 DEF RejectRemovalSkill, SetSkillStatus
  <1>13. CASE PurgeSubmissions(p)
    BY <1>13, <1>t DEF PurgeSubmissions, Submission
  <1>14. CASE PurgeListing(p)
    BY <1>14, <1>0, KeepsListing DEF PurgeListing
  <1>15. CASE PurgeSkill(p)
    BY <1>15 DEF PurgeSkill, SetSkillStatus
  <1>16. CASE DeleteCleanup(p)
    BY <1>16 DEF DeleteCleanup
  <1>17. CASE DeleteRow(p)
    BY <1>17 DEF DeleteRow, db
  <1>18. CASE UpdateStatus(p)
    BY <1>18 DEF UpdateStatus
  <1>19. CASE OptimizeStart(p)
    BY <1>19 DEF OptimizeStart
  <1>20. CASE OptimizeBump(p)
    BY <1>20 DEF OptimizeBump
  <1>21. CASE OptimizeSnapshot(p)
    BY <1>21 DEF OptimizeSnapshot
  <1> QED
    BY <1>1, <1>2, <1>3, <1>4, <1>5, <1>6, <1>7, <1>8, <1>9, <1>10, <1>11,
       <1>12, <1>13, <1>14, <1>15, <1>16, <1>17, <1>18, <1>19, <1>20, <1>21,
       WriteShape DEF Writes

\* Only requestRemoval makes a request: the others write requests that are there.
LEMMA BlankStays ==
  ASSUME CatalogInv, NEW p \in Procs, Begin(p) \/ Continue(p) \/ Abort(p),
         ~RequestRemovalCommit(p),
         NEW r \in Reqs, requests[r].status = "none"
  PROVE  requests'[r] = requests[r]
  <1>0. /\ TypeOK
        /\ calls[p] \in Call /\ Knows(calls[p])
    BY DEF CatalogInv, RequestInv, CallsKnow, TypeOK
  <1>t. requests \in [Reqs -> Request]
    BY <1>0 DEF TypeOK
  <1>1. calls[p].at # "requestRemoval:listing" => calls[p].req # r
    BY <1>0 DEF Knows, RequestKnows
  <1>2. CASE DropCommit(p)
    <2>1. calls[p].req # r
      BY <1>1, <1>2 DEF DropCommit, LastDrop, At
    <2> QED  BY <1>t, <1>2, <2>1 DEF DropCommit
  <1>3. CASE TakedownCommit(p)
    <2>1. calls[p].req # r
      BY <1>1, <1>3 DEF TakedownCommit, At
    <2> QED  BY <1>t, <1>3, <2>1 DEF TakedownCommit
  <1>4. CASE RejectRemovalUpdate(p)
    <2>1. calls[p].req # r
      BY <1>1, <1>4 DEF RejectRemovalUpdate, At
    <2> QED  BY <1>t, <1>4, <2>1 DEF RejectRemovalUpdate
  <1>5. CASE UNCHANGED requests
    BY <1>5
  <1> QED
    BY <1>2, <1>3, <1>4, <1>5, WriteShape
    DEF Writes, db, SubmitCreate, SubmitSkill, ApproveCommit, RejectUpdate,
        RejectSkill, RejectRemovalActivate, RejectRemovalSkill,
        PurgeSubmissions, PurgeListing, PurgeSkill, DeleteCleanup, DeleteRow,
        UpdateStatus, OptimizeStart, OptimizeBump, OptimizeSnapshot

\* The skill goes only in a step that finds no row locked.
LEMMA DeletionWaits ==
  ASSUME CatalogInv, NEW p \in Procs, Begin(p) \/ Continue(p) \/ Abort(p),
         skill # "deleted", skill' = "deleted"
  PROVE  DeleteRow(p) /\ \A q \in Procs \ {p} : held[q] = {}
  <1>0. /\ TypeOK
        /\ calls[p] \in Call /\ Knows(calls[p])
    BY DEF CatalogInv, RequestInv, CallsKnow, TypeOK
  <1>1. DeleteRow(p)
    <2>1. ~UNCHANGED db
      BY DEF db
    <2>2. SkillStatuses \cap {"deleted"} = {}
      BY DEF SkillStatuses
    <2>3. ~SubmitCreate(p) /\ ~SubmitSkill(p) /\ ~ApproveCommit(p)
          /\ ~RejectUpdate(p) /\ ~RejectSkill(p) /\ ~DropCommit(p)
          /\ ~RequestRemovalCommit(p) /\ ~TakedownCommit(p)
          /\ ~RejectRemovalUpdate(p)
      BY DEF SubmitCreate, SubmitSkill, SetSkillStatus, ApproveCommit,
             RejectUpdate, RejectSkill, DropCommit, RequestRemovalCommit,
             TakedownCommit, RejectRemovalUpdate
    <2>4. ~RejectRemovalActivate(p) /\ ~RejectRemovalSkill(p)
          /\ ~PurgeSubmissions(p) /\ ~PurgeListing(p) /\ ~PurgeSkill(p)
          /\ ~DeleteCleanup(p) /\ ~UpdateStatus(p) /\ ~OptimizeStart(p)
          /\ ~OptimizeBump(p) /\ ~OptimizeSnapshot(p)
      BY <2>2, ConstantsAssumption
      DEF RejectRemovalActivate, RejectRemovalSkill, SetSkillStatus,
          PurgeSubmissions, PurgeListing, PurgeSkill, DeleteCleanup,
          UpdateStatus, OptimizeStart, OptimizeBump, OptimizeSnapshot
    <2> QED  BY <2>1, <2>3, <2>4, WriteShape DEF Writes
  <1>2. ASSUME NEW q \in Procs \ {p} PROVE held[q] = {}
    <2>1. Wants(calls[p]) = Rows
      BY <1>1 DEF DeleteRow, At, Wants
    <2>2. Rows \cap HeldByOthers(p) = {}
      BY <1>1, <2>1 DEF DeleteRow, At, Blocked
    <2>3. held[q] \subseteq Rows /\ held[q] \subseteq HeldByOthers(p)
      BY <1>0 DEF TypeOK, HeldByOthers
    <2> QED  BY <2>2, <2>3
  <1> QED  BY <1>1, <1>2

\* What the other calls know outlives a step of p.
LEMMA OthersKnow ==
  ASSUME CatalogInv, NEW p \in Procs, Begin(p) \/ Continue(p) \/ Abort(p),
         NEW q \in Procs, q # p, TypeOK'
  PROVE  Knows(calls[q])'
  <1>0. /\ TypeOK /\ OthersKeep(p) /\ TablesKeep
        /\ Knows(calls[q]) /\ HoldsInOrder(calls[q], held[q])
    BY OthersKeepStep, TablesKeepStep
    DEF CatalogInv, RequestInv, CallsKnow, LocksInOrder
  <1>1. calls'[q] = calls[q]
    BY <1>0 DEF OthersKeep
  <1>2. calls[q] \in Call
    BY <1>0 DEF TypeOK
  <1>3. ApproveKnows(calls[q])'
    <2>1. ASSUME calls[q].at = "approve:skill" PROVE skill' # "deleted"
      <3>1. skill # "deleted" /\ held[q] # {}
        BY <1>0, <2>1 DEF Knows, ApproveKnows, ApprovePoints, HoldsInOrder
      <3> QED  BY <3>1, DeletionWaits
    <2> QED  BY <1>0, <1>1, <2>1
             DEF Knows, ApproveKnows, ApprovePoints, TablesKeep, Inserted
  <1>4. skill = "deleted" => listing = NoListing
    BY DEF CatalogInv, DeletedLeavesNothing
  <1>5. listing # NoListing => skill' # "deleted"
    <2>1. ASSUME listing # NoListing, skill' = "deleted" PROVE FALSE
      <3>1. DeleteRow(p)
        BY <1>4, <2>1, DeletionWaits
      <3>2. UNCHANGED db
        BY <2>1, <3>1 DEF DeleteRow
      <3> QED  BY <1>4, <2>1, <3>2 DEF db
    <2> QED  BY <2>1
  <1>6. VersionRemovalKnows(calls[q])'
    BY <1>0, <1>1, <1>5
    DEF Knows, VersionRemovalKnows, VersionPoints, DropPoints, TablesKeep,
        Inserted
  <1>7. TakedownKnows(calls[q])'
    BY <1>0, <1>1 DEF Knows, TakedownKnows, TablesKeep
  <1>8. RequestKnows(calls[q])'
    <2>1. ASSUME calls[q].at = "requestRemoval:listing"
          PROVE  /\ skill' # "deleted"
                 /\ calls[q].req # 0 => requests'[calls[q].req].status = "none"
      <3>1. skill # "deleted" /\ PendingKey \in held[q]
        BY <1>0, <2>1 DEF Knows, RequestKnows, CatalogInv, RequestInv, InsertClaims
      <3>2. skill' # "deleted"
        BY <3>1, DeletionWaits
      <3>3. ~RequestRemovalCommit(p)
        BY <3>1 DEF RequestRemovalCommit, At, CatalogInv, RequestInv,
                    InsertClaims, LockExclusion
      <3>4. ASSUME NEW r \in Reqs, requests[r].status = "none"
            PROVE  requests'[r].status = "none"
        BY <3>3, <3>4, <1>0, BlankStays
      <3> QED  BY <1>0, <1>2, <2>1, <3>2, <3>4 DEF Knows, RequestKnows, Call
    <2>2. calls[q].req \in 0..MaxReqs
      BY <1>2 DEF Call
    <2> QED  BY <1>0, <1>1, <2>1, <2>2 DEF Knows, RequestKnows, TablesKeep
  <1> QED  BY <1>3, <1>6, <1>7, <1>8 DEF Knows

\* Where no transaction on the catalog is under way, only the request matters.
PlainPoints == Steps \ (ApprovePoints \cup RemovalPoints)

LEMMA PlainKnows ==
  ASSUME NEW p \in Procs, calls'[p].at \in PlainPoints, RequestKnows(calls[p])'
  PROVE  Knows(calls[p])'
  BY DEF PlainPoints, Knows, ApproveKnows, VersionRemovalKnows, TakedownKnows,
         RemovalPoints, VersionPoints

LEMMA GotoFields ==
  ASSUME TypeOK, NEW p \in Procs, NEW s \in Steps,
         calls' = [calls EXCEPT ![p].at = s]
  PROVE  /\ calls'[p].at = s /\ calls'[p].sub = calls[p].sub
         /\ calls'[p].version = calls[p].version
         /\ calls'[p].req = calls[p].req /\ calls'[p].next = calls[p].next
  BY DEF TypeOK, Call

LEMMA RequestStaysKnown ==
  ASSUME CatalogInv, TablesKeep, NEW p \in Procs, TypeOK',
         calls'[p].req = calls[p].req, calls'[p].sub = calls[p].sub,
         calls[p].at # "requestRemoval:listing",
         calls'[p].at # "requestRemoval:listing",
         calls'[p].at \in RemovalPoints => calls[p].at \in RemovalPoints
  PROVE  RequestKnows(calls[p])'
  <1>1. Knows(calls[p]) /\ calls[p].req \in 0..MaxReqs
    BY DEF CatalogInv, CallsKnow, RequestInv, TypeOK, Call
  <1> QED  BY <1>1 DEF Knows, RequestKnows, TablesKeep

LEMMA GotoKnows ==
  ASSUME CatalogInv, TablesKeep, NEW p \in Procs, TypeOK',
         NEW s \in PlainPoints, s # "requestRemoval:listing",
         calls' = [calls EXCEPT ![p].at = s],
         calls[p].at # "requestRemoval:listing"
  PROVE  Knows(calls[p])'
  <1>1. /\ calls'[p].at = s /\ calls'[p].sub = calls[p].sub
        /\ calls'[p].req = calls[p].req
    BY GotoFields DEF PlainPoints, CatalogInv, RequestInv
  <1>2. RequestKnows(calls[p])'
    BY <1>1, RequestStaysKnown DEF PlainPoints
  <1> QED  BY <1>1, <1>2, PlainKnows

LEMMA IdleKnows ==
  ASSUME NEW p \in Procs, calls'[p].at \in PlainPoints,
         calls'[p].at # "requestRemoval:listing", calls'[p].req = 0
  PROVE  Knows(calls[p])'
  BY PlainKnows DEF RequestKnows

LEMMA ReturnKnows ==
  ASSUME TypeOK, NEW p \in Procs, Return(p)
  PROVE  Knows(calls[p])'
  <1>1. calls'[p] = Idle
    BY DEF Return, TypeOK
  <1>2. Idle.at \in PlainPoints /\ Idle.at # "requestRemoval:listing" /\ Idle.req = 0
    BY DEF Idle, NewCall, PlainPoints, Steps, ApprovePoints, RemovalPoints,
           VersionPoints, DropPoints, TakedownPoints
  <1> QED  BY <1>1, <1>2, IdleKnows

LEMMA BeginKnows ==
  ASSUME CatalogInv, NEW p \in Procs, Begin(p)
  PROVE  Knows(calls[p])'
  <1> USE DEF PlainPoints, Steps, ApprovePoints, RemovalPoints, VersionPoints,
              DropPoints, TakedownPoints
  <1>0. TypeOK /\ Knows(calls[p])
    BY DEF CatalogInv, RequestInv, CallsKnow
  <1>t. /\ submissions \in [Subs -> Submission] /\ requests \in [Reqs -> Request]
        /\ calls \in [Procs -> Call]
    BY <1>0 DEF TypeOK
  <1>1. CASE SubmitCheck(p)
    <2>1. PICK v \in Versions, s \in {"submit:listing", "submit:create"} :
            calls'[p] = NewCall(s, 0, v, 0)
      BY <1>t, <1>1 DEF SubmitCheck, Starts
    <2> QED  BY <2>1, IdleKnows DEF NewCall
  <1>2. CASE ApproveCheck(p)
    <2>1. PICK i \in SubsWith("pending_review") :
            /\ calls'[p] = NewCall("approve:snapshot", i, submissions[i].version, 0)
            /\ UNCHANGED db
      BY <1>t, <1>2 DEF ApproveCheck, Starts
    <2>2. Inserted(i)
      BY <2>1 DEF SubsWith, Inserted
    <2>3. ApproveKnows(calls[p])'
      BY <2>1, <2>2 DEF ApproveKnows, NewCall, Inserted, db
    <2> QED  BY <2>1, <2>3 DEF Knows, VersionRemovalKnows, TakedownKnows,
                               RequestKnows, NewCall
  <1>3. CASE RejectCheck(p)
    <2>1. PICK i \in Subs : calls'[p] = NewCall("reject:update", i, 0, 0)
      BY <1>t, <1>3 DEF RejectCheck, Starts, SubsWith
    <2> QED  BY <2>1, IdleKnows DEF NewCall
  <1>4. CASE RemoveVersionCheck(p)
    <2>1. PICK i \in Subs :
            calls'[p] = NewCall("removeVersion:listing", i, 0, 0)
      BY <1>t, <1>4 DEF RemoveVersionCheck, Starts, Approved, SubsWith
    <2> QED  BY <2>1 DEF Knows, ApproveKnows, VersionRemovalKnows,
                         TakedownKnows, RequestKnows, NewCall
  <1>5. CASE RequestRemovalCheck(p)
    <2>1. PICK i \in 0..MaxSubs :
            calls'[p] = NewCall("requestRemoval:pending", i, 0, 0)
      BY <1>t, <1>5 DEF RequestRemovalCheck, Starts
    <2> QED  BY <2>1, IdleKnows DEF NewCall
  <1>6. CASE ApproveRemovalCheck(p)
    <2>1. PICK r \in ReqsWith("pending") :
            /\ calls'[p] = NewCall(
                 IF requests[r].target = 0 THEN "approveRemoval:listing"
                                           ELSE "approveRemoval:target",
                 requests[r].target, 0, r)
            /\ UNCHANGED db
      BY <1>t, <1>6 DEF ApproveRemovalCheck, Starts
    <2>2. r \in Reqs /\ requests[r].status = "pending"
          /\ requests[r].target \in 0..MaxSubs
      BY <1>t, <2>1 DEF ReqsWith, Request
    <2>3. VersionRemovalKnows(calls[p])'
      BY <2>1, <2>2 DEF VersionRemovalKnows, NewCall
    <2>4. RequestKnows(calls[p])'
      BY <2>1, <2>2 DEF RequestKnows, NewCall, db
    <2> QED  BY <2>1, <2>3, <2>4 DEF Knows, ApproveKnows, TakedownKnows, NewCall
  <1>7. CASE RejectRemovalCheck(p)
    <2>1. PICK r \in ReqsWith("pending") :
            /\ calls'[p] = NewCall("rejectRemoval:update", 0, 0, r)
            /\ UNCHANGED db
      BY <1>t, <1>7 DEF RejectRemovalCheck, Starts
    <2>2. RequestKnows(calls[p])'
      BY <2>1 DEF RequestKnows, NewCall, db, ReqsWith
    <2> QED  BY <2>1, <2>2, PlainKnows DEF NewCall
  <1>8. CASE PurgeCheck(p)
    <2>1. calls'[p] = NewCall("purge:submissions", 0, 0, 0)
      BY <1>t, <1>8 DEF PurgeCheck, Starts
    <2> QED  BY <2>1, IdleKnows DEF NewCall
  <1>9. CASE DeleteCheck(p)
    <2>1. calls'[p] = NewCall("delete:pending", 0, 0, 0)
      BY <1>t, <1>9 DEF DeleteCheck, Starts
    <2> QED  BY <2>1, IdleKnows DEF NewCall
  <1>10. CASE UpdateStatus(p)
    <2>1. calls'[p] = Idle
      BY <1>10 DEF UpdateStatus
    <2> QED  BY <2>1, IdleKnows DEF Idle, NewCall
  <1>11. CASE OptimizeStart(p)
    <2>1. calls'[p] = Idle \/ calls'[p] = NewCall("optimize:bump", 0, 0, 0)
      BY <1>t, <1>11 DEF OptimizeStart
    <2> QED  BY <2>1, IdleKnows DEF Idle, NewCall
  <1> QED  BY <1>1, <1>2, <1>3, <1>4, <1>5, <1>6, <1>7, <1>8, <1>9, <1>10, <1>11
           DEF Begin

LEMMA ApproveContinueKnows ==
  ASSUME CatalogInv, TypeOK', TablesKeep, NEW p \in Procs,
         ApproveSnapshot(p) \/ ApproveSubmission(p) \/ ApproveListing(p)
  PROVE  Knows(calls[p])'
  <1>0. TypeOK /\ Knows(calls[p])
    BY DEF CatalogInv, RequestInv, CallsKnow
  <1>1. CASE Return(p)
    BY <1>0, <1>1, ReturnKnows
  <1>2. CASE ~Return(p)
    <2>1. PICK s \in {"approve:submission", "approve:listing", "approve:skill"} :
            /\ calls' = [calls EXCEPT ![p].at = s]
            /\ UNCHANGED db
            /\ calls[p].at \in ApprovePoints
            /\ calls[p].at = "approve:snapshot" => calls[p].version \in snapshots
            /\ s = "approve:skill" => skill # "deleted"
      BY <1>2 DEF ApproveSnapshot, ApproveSubmission, ApproveListing, At, Goto,
                  Statement, HasSnapshot, ForeignKeyFails, ApprovePoints
    <2>2. s \in Steps
      BY DEF Steps
    <2>3. /\ calls'[p].at = s /\ calls'[p].sub = calls[p].sub
          /\ calls'[p].version = calls[p].version
          /\ calls'[p].req = calls[p].req
      BY <1>0, <2>1, <2>2, GotoFields
    <2>4. ApproveKnows(calls[p])'
      BY <1>0, <2>1, <2>3 DEF Knows, ApproveKnows, Inserted, db, ApprovePoints
    <2>5. RequestKnows(calls[p])'
      BY <2>1, <2>3, RequestStaysKnown
      DEF ApprovePoints, RemovalPoints, VersionPoints, DropPoints, TakedownPoints
    <2> QED  BY <2>3, <2>4, <2>5
             DEF Knows, VersionRemovalKnows, TakedownKnows, VersionPoints,
                 DropPoints, TakedownPoints
  <1> QED  BY <1>1, <1>2

LEMMA VersionRemovalContinueKnows ==
  ASSUME CatalogInv, TypeOK', TablesKeep, NEW p \in Procs,
         ReadListing(p) \/ ReadRemaining(p) \/ DropSubmission(p)
           \/ DropListing(p) \/ DropSkill(p)
  PROVE  Knows(calls[p])'
  <1>0. TypeOK /\ Knows(calls[p])
    BY DEF CatalogInv, RequestInv, CallsKnow
  <1>t. calls \in [Procs -> Call]
    BY <1>0 DEF TypeOK
  <1>1. CASE Return(p)
    BY <1>0, <1>1, ReturnKnows
  <1>2. ASSUME calls'[p].at \in {"remaining"} \cup DropPoints,
               calls[p].at \in VersionPoints,
               calls'[p].sub = calls[p].sub, calls'[p].req = calls[p].req,
               VersionRemovalKnows(calls[p])'
        PROVE  Knows(calls[p])'
    <2>1. RequestKnows(calls[p])'
      BY <1>2, RequestStaysKnown
      DEF RemovalPoints, VersionPoints, DropPoints
    <2> QED  BY <1>2, <2>1 DEF Knows, ApproveKnows, TakedownKnows,
                 ApprovePoints, DropPoints, TakedownPoints
  <1>3. CASE ReadListing(p) /\ ~Return(p)
    <2>1. /\ calls[p].at = "removeVersion:listing" /\ UNCHANGED db
          /\ calls' = [calls EXCEPT ![p].at = "remaining"]
          /\ listing # NoListing
      BY <1>3 DEF ReadListing, Goto, At
    <2>2. /\ calls'[p].at = "remaining" /\ calls'[p].sub = calls[p].sub
          /\ calls'[p].req = calls[p].req
      BY <1>0, <2>1, GotoFields DEF Steps
    <2>3. VersionRemovalKnows(calls[p])'
      BY <1>0, <2>1, <2>2 DEF Knows, VersionRemovalKnows, VersionPoints,
                              DropPoints, db
    <2> QED  BY <1>2, <2>1, <2>2, <2>3 DEF VersionPoints
  <1>4. CASE ReadRemaining(p)
    <2>1. PICK n \in 0..MaxSubs :
            /\ IsNewest(n, Remaining(calls[p].sub))
            /\ calls' = [calls EXCEPT ![p].at = "drop:submission", ![p].next = n]
      BY <1>4 DEF ReadRemaining
    <2>2. /\ calls[p].at = "remaining" /\ UNCHANGED db
          /\ calls'[p].at = "drop:submission" /\ calls'[p].next = n
          /\ calls'[p].sub = calls[p].sub /\ calls'[p].req = calls[p].req
      <3>1. calls[p].at = "remaining" /\ UNCHANGED db
        BY <1>4 DEF ReadRemaining, At
      <3>2. /\ calls'[p].at = "drop:submission" /\ calls'[p].next = n
            /\ calls'[p].sub = calls[p].sub /\ calls'[p].req = calls[p].req
        BY <1>t, <2>1 DEF Call
      <3> QED  BY <3>1, <3>2
    <2>3. n # 0 => n \in Approved
      BY <2>1 DEF IsNewest, Remaining
    <2>4. n # 0 => Inserted(n) /\ submissions[n].version \in snapshots
      BY <2>3 DEF CatalogInv, ApprovedHaveSnapshots, Inserted, Approved, SubsWith
    <2>5. VersionRemovalKnows(calls[p])'
      BY <1>0, <2>2, <2>4 DEF Knows, VersionRemovalKnows, VersionPoints,
                              DropPoints, db, Inserted
    <2> QED  BY <1>2, <2>2, <2>5 DEF VersionPoints, DropPoints
  <1>5. CASE DropSubmission(p) \/ DropListing(p) \/ DropSkill(p)
    <2>1. PICK s \in DropPoints :
            /\ calls' = [calls EXCEPT ![p].at = s]
            /\ calls[p].at \in DropPoints /\ UNCHANGED db
      BY <1>5 DEF DropSubmission, DropListing, DropSkill, Statement, At,
                  DropPoints
    <2>2. /\ calls'[p].at = s /\ calls'[p].sub = calls[p].sub
          /\ calls'[p].req = calls[p].req /\ calls'[p].next = calls[p].next
      BY <1>0, <2>1, GotoFields DEF Steps, DropPoints
    <2>3. VersionRemovalKnows(calls[p])'
      BY <1>0, <2>1, <2>2 DEF Knows, VersionRemovalKnows, VersionPoints, db,
                              Inserted
    <2> QED  BY <1>2, <2>1, <2>2, <2>3 DEF VersionPoints
  <1> QED  BY <1>1, <1>3, <1>4, <1>5

LEMMA TakedownContinueKnows ==
  ASSUME CatalogInv, TypeOK', TablesKeep, NEW p \in Procs,
         ApproveRemovalTarget(p) \/ ApproveRemovalListing(p)
           \/ TakedownSubmissions(p) \/ TakedownListing(p) \/ TakedownSkill(p)
  PROVE  Knows(calls[p])'
  <1>0. TypeOK /\ Knows(calls[p]) /\ calls[p].sub \in 0..MaxSubs
    BY DEF CatalogInv, RequestInv, CallsKnow, TypeOK, Call
  <1>1. CASE Return(p)
    BY <1>0, <1>1, ReturnKnows
  <1>2. CASE ~Return(p)
    <2>1. PICK s \in RemovalPoints :
            /\ calls' = [calls EXCEPT ![p].at = s]
            /\ calls[p].at \in RemovalPoints /\ UNCHANGED db
            /\ s \in {"approveRemoval:listing", "remaining"} \cup TakedownPoints
            /\ s \in {"remaining"} \cup TakedownPoints => listing # NoListing
            /\ s = "remaining" => calls[p].sub # 0
            /\ s \in TakedownPoints => calls[p].sub = 0
      <3>1. CASE ApproveRemovalTarget(p)
        BY <1>2, <3>1 DEF ApproveRemovalTarget, Goto, At, RemovalPoints,
                          VersionPoints, TakedownPoints
      <3>2. CASE ApproveRemovalListing(p)
        BY <1>2, <3>2 DEF ApproveRemovalListing, Goto, At, RemovalPoints,
                          VersionPoints, TakedownPoints
      <3>3. CASE TakedownSubmissions(p) \/ TakedownListing(p) \/ TakedownSkill(p)
        BY <1>0, <3>3
        DEF TakedownSubmissions, TakedownListing, TakedownSkill, Statement, At,
            RemovalPoints, TakedownPoints, Knows, TakedownKnows
      <3> QED  BY <3>1, <3>2, <3>3
    <2>2. s \in Steps
      BY DEF Steps, RemovalPoints, VersionPoints, DropPoints, TakedownPoints
    <2>3. /\ calls'[p].at = s /\ calls'[p].sub = calls[p].sub
          /\ calls'[p].req = calls[p].req
      BY <1>0, <2>1, <2>2, GotoFields
    <2>4. RequestKnows(calls[p])'
      BY <2>1, <2>3, RequestStaysKnown
      DEF RemovalPoints, VersionPoints, DropPoints, TakedownPoints
    <2>5. VersionRemovalKnows(calls[p])'
      BY <1>0, <2>1, <2>3
      DEF VersionRemovalKnows, VersionPoints, DropPoints, TakedownPoints, db
    <2>6. TakedownKnows(calls[p])'
      BY <2>1, <2>3 DEF TakedownKnows, db
    <2>7. ApproveKnows(calls[p])'
      BY <2>1, <2>3 DEF ApproveKnows, ApprovePoints, TakedownPoints
    <2> QED  BY <2>4, <2>5, <2>6, <2>7 DEF Knows
  <1> QED  BY <1>1, <1>2

LEMMA InsertKnows ==
  ASSUME CatalogInv, NEW p \in Procs, RequestRemovalInsert(p)
  PROVE  Knows(calls[p])'
  <1>0. TypeOK /\ calls \in [Procs -> Call]
    BY DEF CatalogInv, RequestInv, TypeOK
  <1>1. CASE Return(p)
    BY <1>0, <1>1, ReturnKnows
  <1>2. CASE ~Return(p)
    <2>1. PICK r \in ReqsWith("none") :
            calls' = [calls EXCEPT ![p].at = "requestRemoval:listing",
                                   ![p].req = r]
      BY <1>2 DEF RequestRemovalInsert
    <2>2. skill # "deleted" /\ UNCHANGED db
      BY <1>2 DEF RequestRemovalInsert, ForeignKeyFails
    <2>3. calls'[p].at = "requestRemoval:listing" /\ calls'[p].req = r
      BY <1>0, <2>1 DEF Call
    <2>4. RequestKnows(calls[p])'
      BY <2>1, <2>2, <2>3 DEF RequestKnows, ReqsWith, db
    <2> QED  BY <2>3, <2>4, PlainKnows
             DEF PlainPoints, Steps, ApprovePoints, RemovalPoints,
                 VersionPoints, DropPoints, TakedownPoints
  <1> QED  BY <1>1, <1>2

\* The remaining steps return, or go on outside every transaction.
LEMMA OwnKnows ==
  ASSUME CatalogInv, TypeOK', NEW p \in Procs,
         Begin(p) \/ Continue(p) \/ Abort(p)
  PROVE  Knows(calls[p])'
  <1>0. TypeOK /\ TablesKeep /\ calls \in [Procs -> Call]
    BY TablesKeepStep DEF CatalogInv, RequestInv, TypeOK
  <1>1. CASE Return(p)
    BY <1>0, <1>1, ReturnKnows
  <1>2. ASSUME NEW s \in PlainPoints, s # "requestRemoval:listing",
               Goto(p, s), calls[p].at # "requestRemoval:listing"
        PROVE  Knows(calls[p])'
    BY <1>0, <1>2, GotoKnows DEF Goto
  <1>p. {"submit:create", "submit:skill", "reject:live",
         "requestRemoval:insert", "requestRemoval:target",
         "rejectRemoval:listing", "rejectRemoval:activate",
         "rejectRemoval:skill", "purge:listing", "purge:skill",
         "delete:cleanup", "delete:row"} \subseteq PlainPoints
    BY DEF PlainPoints, Steps, ApprovePoints, RemovalPoints, VersionPoints,
           DropPoints, TakedownPoints
  <1>3. CASE RejectLive(p)
    <2>1. /\ calls'[p].at = "reject:skill" /\ calls'[p].req = calls[p].req
          /\ calls'[p].sub = calls[p].sub /\ calls[p].at = "reject:live"
      BY <1>0, <1>3 DEF RejectLive, At, Call
    <2>2. "reject:skill" \in PlainPoints
      BY DEF PlainPoints, Steps, ApprovePoints, RemovalPoints, VersionPoints,
             DropPoints, TakedownPoints
    <2>3. RequestKnows(calls[p])'
      BY <1>0, <2>1, <2>2, RequestStaysKnown DEF PlainPoints
    <2> QED  BY <2>1, <2>2, <2>3, PlainKnows
  <1>4. CASE OptimizeBump(p)
    <2>1. CASE ~Return(p)
      <3>1. calls'[p].at = "optimize:snapshot" /\ calls'[p].req = 0
        BY <1>0, <1>4, <2>1 DEF OptimizeBump, NewCall
      <3>2. "optimize:snapshot" \in PlainPoints
        BY DEF PlainPoints, Steps, ApprovePoints, RemovalPoints, VersionPoints,
               DropPoints, TakedownPoints
      <3> QED  BY <3>1, <3>2, IdleKnows
    <2> QED  BY <1>1, <2>1
  <1>5. CASE SubmitDowngrade(p) \/ SubmitCreate(p) \/ SubmitSkill(p)
             \/ RejectUpdate(p) \/ RejectSkill(p)
    BY <1>1, <1>2, <1>p, <1>5 DEF SubmitDowngrade, SubmitCreate, SubmitSkill,
       RejectUpdate, RejectSkill, At
  <1>6. CASE RequestRemovalPending(p) \/ RequestRemovalTarget(p)
             \/ RejectRemovalUpdate(p) \/ RejectRemovalListing(p)
             \/ RejectRemovalActivate(p) \/ RejectRemovalSkill(p)
    BY <1>1, <1>2, <1>p, <1>6 DEF RequestRemovalPending, RequestRemovalTarget,
       RejectRemovalUpdate, RejectRemovalListing, RejectRemovalActivate,
       RejectRemovalSkill, At
  <1>7. CASE PurgeSubmissions(p) \/ PurgeListing(p) \/ PurgeSkill(p)
             \/ DeletePending(p) \/ DeleteCleanup(p) \/ DeleteRow(p)
             \/ OptimizeSnapshot(p)
    BY <1>1, <1>2, <1>p, <1>7 DEF PurgeSubmissions, PurgeListing, PurgeSkill,
       DeletePending, DeleteCleanup, DeleteRow, OptimizeSnapshot, At
  <1>8. CASE ApproveCommit(p) \/ DropCommit(p) \/ RequestRemovalCommit(p)
             \/ TakedownCommit(p) \/ Abort(p)
    BY <1>1, <1>8 DEF ApproveCommit, DropCommit, RequestRemovalCommit,
       TakedownCommit, Abort
  <1> QED
    BY <1>0, <1>3, <1>4, <1>5, <1>6, <1>7, <1>8, BeginKnows,
       ApproveContinueKnows, VersionRemovalContinueKnows,
       TakedownContinueKnows, InsertKnows
    DEF Continue

-----------------------------------------------------------------------------
(* What the tables promise.                                                *)

\* Whatever a call still executes after the skill went, nothing comes back.
LEMMA GoneStays ==
  ASSUME CatalogInv, NEW p \in Procs, Begin(p) \/ Continue(p) \/ Abort(p),
         skill = "deleted"
  PROVE  UNCHANGED <<snapshots, evalData, submissions, listing, requests>>
  <1>0. /\ listing = NoListing /\ snapshots = {} /\ evalData = FALSE
        /\ \A i \in Subs : submissions[i] = NoSubmission
        /\ \A r \in Reqs : requests[r] = NoRequest
    BY DEF CatalogInv, RequestInv, TypeOK, DeletedLeavesNothing
  <1>c. calls[p] \in Call /\ Knows(calls[p])
    BY DEF CatalogInv, CallsKnow, RequestInv, TypeOK
  <1>t. /\ submissions \in [Subs -> Submission] /\ requests \in [Reqs -> Request]
    BY DEF CatalogInv, RequestInv, TypeOK
  <1>n. \A r \in Reqs : requests[r].status = "none"
    BY <1>0 DEF NoRequest
  <1>w. \A s : WithStatus(s) = listing
    BY <1>0 DEF WithStatus
  <1>1. CASE UNCHANGED db
    BY <1>1 DEF db
  <1>2. ~SubmitCreate(p) \/ UNCHANGED submissions
    BY DEF SubmitCreate, ForeignKeyFails
  <1>3. ~ApproveCommit(p) /\ ~DropCommit(p) /\ ~TakedownCommit(p)
        /\ ~RequestRemovalCommit(p)
    BY <1>0, <1>c
    DEF ApproveCommit, DropCommit, TakedownCommit, RequestRemovalCommit, At,
        LastDrop, Knows, ApproveKnows, VersionRemovalKnows, TakedownKnows,
        RequestKnows, ApprovePoints, DropPoints, TakedownPoints
  <1>4. RejectUpdate(p) => UNCHANGED submissions
    BY <1>0, <1>t DEF RejectUpdate
  <1>5. RejectRemovalUpdate(p) => UNCHANGED requests
    <2>1. ASSUME RejectRemovalUpdate(p) PROVE calls[p].req \notin Reqs
      BY <1>c, <1>n, <2>1
      DEF RejectRemovalUpdate, At, Knows, RequestKnows, Call
    <2> QED  BY <1>t, <2>1 DEF RejectRemovalUpdate
  <1>6. PurgeSubmissions(p) => UNCHANGED submissions
    <2>1. Approved = {}
      BY <1>0 DEF Approved, SubsWith, NoSubmission
    <2> QED  BY <1>t, <2>1 DEF PurgeSubmissions
  <1>7. DeleteRow(p) => UNCHANGED <<snapshots, evalData, submissions, listing, requests>>
    BY <1>0, <1>t DEF DeleteRow, db
  <1>8. RejectRemovalActivate(p) \/ PurgeListing(p) => UNCHANGED listing
    BY <1>w DEF RejectRemovalActivate, PurgeListing, ReactivatedListing,
                RemovedListing
  <1>9. DeleteCleanup(p) => UNCHANGED evalData
    BY <1>0 DEF DeleteCleanup
  <1>10. ~UpdateStatus(p) /\ ~OptimizeStart(p)
    BY DEF UpdateStatus, OptimizeStart
  <1>11. OptimizeSnapshot(p) => UNCHANGED snapshots
    BY DEF OptimizeSnapshot
  <1> QED
    BY <1>1, <1>2, <1>3, <1>4, <1>5, <1>6, <1>7, <1>8, <1>9, <1>10, <1>11,
       WriteShape
    DEF Writes, SubmitCreate, SubmitSkill, RejectUpdate, RejectSkill,
        RejectRemovalUpdate, RejectRemovalActivate, RejectRemovalSkill,
        PurgeSubmissions, PurgeListing, PurgeSkill, DeleteCleanup,
        OptimizeBump, OptimizeSnapshot

LEMMA DeletedLeavesNothingStep ==
  ASSUME CatalogInv, NEW p \in Procs, Begin(p) \/ Continue(p) \/ Abort(p)
  PROVE  DeletedLeavesNothing'
  <1> SUFFICES ASSUME skill' = "deleted" PROVE DeletedLeavesNothing'
    BY DEF DeletedLeavesNothing
  <1>1. CASE skill = "deleted"
    BY <1>1, GoneStays DEF CatalogInv, DeletedLeavesNothing
  <1>2. CASE skill # "deleted"
    <2>1. DeleteRow(p)
      BY <1>2, DeletionWaits
    <2>2. /\ listing = NoListing /\ ReqsWith("none") = Reqs
          /\ UNCHANGED <<listing, requests>> /\ evalData' = FALSE
          /\ snapshots' = {} /\ submissions' = [i \in Subs |-> NoSubmission]
      BY <1>2, <2>1 DEF DeleteRow, db
    <2>3. \A r \in Reqs : requests[r] = NoRequest
      BY <2>2 DEF ReqsWith, CatalogInv, BlankRequests
    <2> QED  BY <2>2, <2>3 DEF DeletedLeavesNothing
  <1> QED  BY <1>1, <1>2

LEMMA BlankRequestsStep ==
  ASSUME CatalogInv, NEW p \in Procs, Begin(p) \/ Continue(p) \/ Abort(p)
  PROVE  BlankRequests'
  <1> SUFFICES ASSUME NEW r \in Reqs, requests'[r].status = "none"
               PROVE  requests'[r] = NoRequest
    BY DEF BlankRequests
  <1>1. requests[r].status = "none" /\ requests[r] = NoRequest
    BY TablesKeepStep DEF TablesKeep, CatalogInv, BlankRequests
  <1>2. CASE RequestRemovalCommit(p)
    BY <1>1, <1>2 DEF RequestRemovalCommit, CatalogInv, RequestInv, TypeOK
  <1>3. CASE ~RequestRemovalCommit(p)
    BY <1>1, <1>3, BlankStays
  <1> QED  BY <1>2, <1>3

\* Only approve and the removal of a version point the listing at a submission.
LEMMA ListingShape ==
  ASSUME CatalogInv, NEW p \in Procs, Begin(p) \/ Continue(p) \/ Abort(p)
  PROVE  \/ ApproveCommit(p)
         \/ DropCommit(p) /\ calls[p].next # 0
         \/ /\ listing' = NoListing <=> listing = NoListing
            /\ listing'.sub = listing.sub /\ listing'.version = listing.version
  <1>0. TypeOK
    BY DEF CatalogInv, RequestInv
  <1>1. CASE UNCHANGED listing
    BY <1>1
  <1>2. CASE DropCommit(p) /\ calls[p].next = 0
    BY <1>0, <1>2, KeepsListing DEF DropCommit
  <1>3. CASE RequestRemovalCommit(p) \/ TakedownCommit(p)
             \/ RejectRemovalActivate(p) \/ PurgeListing(p)
    BY <1>0, <1>3, KeepsListing
    DEF RequestRemovalCommit, TakedownCommit, RejectRemovalActivate,
        PurgeListing
  <1> QED
    BY <1>1, <1>2, <1>3, WriteShape
    DEF Writes, db, SubmitCreate, SubmitSkill, RejectUpdate, RejectSkill,
        RejectRemovalUpdate, RejectRemovalSkill, PurgeSubmissions, PurgeSkill,
        DeleteCleanup, DeleteRow, UpdateStatus, OptimizeStart, OptimizeBump,
        OptimizeSnapshot

\* Only approve approves.
LEMMA ApprovedShape ==
  ASSUME CatalogInv, NEW p \in Procs, Begin(p) \/ Continue(p) \/ Abort(p),
         NEW i \in Approved'
  PROVE  i \in Approved \/ (ApproveCommit(p) /\ i = calls[p].sub)
  <1>t. submissions \in [Subs -> Submission]
    BY DEF CatalogInv, RequestInv, TypeOK
  <1>0. i \in Subs /\ submissions'[i].status = "approved"
    BY DEF Approved, SubsWith
  <1>1. CASE UNCHANGED submissions
    BY <1>0, <1>1 DEF Approved, SubsWith
  <1>2. CASE SubmitCreate(p)
    <2>1. CASE ~UNCHANGED submissions
      <3>1. PICK j \in SubsWith("none") :
              submissions' = [submissions EXCEPT ![j] =
                [status |-> "pending_review", version |-> calls[p].version]]
        BY <1>2, <2>1 DEF SubmitCreate
      <3>2. submissions'[i] = submissions[i]
              \/ submissions'[i].status = "pending_review"
        BY <1>t, <1>0, <3>1
      <3> QED  BY <1>0, <3>2 DEF Approved, SubsWith
    <2> QED  BY <1>1, <2>1
  <1>3. CASE ApproveCommit(p)
    BY <1>t, <1>0, <1>3 DEF ApproveCommit, Approved, SubsWith
  <1>4. CASE RejectUpdate(p)
    BY <1>t, <1>0, <1>4 DEF RejectUpdate, Approved, SubsWith, Submission
  <1>5. CASE DropCommit(p)
    BY <1>t, <1>0, <1>5 DEF DropCommit, Approved, SubsWith, Submission
  <1>6. CASE TakedownCommit(p)
    BY <1>t, <1>0, <1>6 DEF TakedownCommit, Approved, SubsWith, Submission
  <1>7. CASE PurgeSubmissions(p)
    BY <1>t, <1>0, <1>7 DEF PurgeSubmissions, Approved, SubsWith, Submission
  <1>8. CASE DeleteRow(p)
    <2>1. UNCHANGED submissions \/ submissions' = [j \in Subs |-> NoSubmission]
      BY <1>8 DEF DeleteRow, db
    <2>2. UNCHANGED submissions \/ submissions'[i] = NoSubmission
      BY <1>0, <2>1
    <2> QED  BY <1>0, <1>1, <2>2 DEF NoSubmission
  <1> QED
    BY <1>1, <1>2, <1>3, <1>4, <1>5, <1>6, <1>7, <1>8, WriteShape
    DEF Writes, db, SubmitSkill, RejectSkill, RequestRemovalCommit,
        RejectRemovalUpdate, RejectRemovalActivate, RejectRemovalSkill,
        PurgeListing, PurgeSkill, DeleteCleanup, UpdateStatus, OptimizeStart,
        OptimizeBump, OptimizeSnapshot

LEMMA ApproveCommitKnows ==
  ASSUME CatalogInv, NEW p \in Procs, ApproveCommit(p)
  PROVE  /\ skill' # "deleted" /\ Inserted(calls[p].sub)
         /\ submissions[calls[p].sub].version = calls[p].version
         /\ calls[p].version \in snapshots
  BY DEF CatalogInv, CallsKnow, Knows, ApproveKnows, ApprovePoints,
         ApproveCommit, At

LEMMA ListingKnownStep ==
  ASSUME CatalogInv, NEW p \in Procs, Begin(p) \/ Continue(p) \/ Abort(p)
  PROVE  ListingKnown'
  <1> SUFFICES ASSUME listing' # NoListing
               PROVE  /\ Inserted(listing.sub)'
                      /\ submissions'[listing'.sub].version = listing'.version
                      /\ listing'.version \in snapshots'
    BY DEF ListingKnown
  <1>0. TablesKeep
    BY TablesKeepStep
  <1>1. CASE ApproveCommit(p)
    <2>1. listing'.sub = calls[p].sub /\ listing'.version = calls[p].version
      BY <1>1, ShowsAListing DEF ApproveCommit
    <2> QED  BY <1>0, <1>1, <2>1, ApproveCommitKnows DEF TablesKeep, Inserted
  <1>2. CASE DropCommit(p) /\ calls[p].next # 0
    <2>1. /\ listing'.sub = calls[p].next
          /\ listing'.version = submissions[calls[p].next].version
      BY <1>2, ShowsAListing DEF DropCommit
    <2>2. /\ Inserted(calls[p].next)
          /\ submissions[calls[p].next].version \in snapshots
          /\ listing # NoListing
      BY <1>2 DEF CatalogInv, CallsKnow, Knows, VersionRemovalKnows,
                  DropCommit, At, LastDrop, DropPoints
    <2>3. skill' # "deleted"
      BY <1>2, <2>2 DEF DropCommit, CatalogInv, DeletedLeavesNothing
    <2> QED  BY <1>0, <2>1, <2>2, <2>3 DEF TablesKeep, Inserted
  <1>3. CASE /\ listing' = NoListing <=> listing = NoListing
             /\ listing'.sub = listing.sub /\ listing'.version = listing.version
    <2>1. listing # NoListing /\ ListingKnown
      BY <1>3 DEF CatalogInv
    <2>2. skill' # "deleted"
      BY DeletedLeavesNothingStep DEF DeletedLeavesNothing
    <2> QED  BY <1>0, <1>3, <2>1, <2>2 DEF TablesKeep, ListingKnown, Inserted
  <1> QED  BY <1>1, <1>2, <1>3, ListingShape

LEMMA ApprovedHaveSnapshotsStep ==
  ASSUME CatalogInv, NEW p \in Procs, Begin(p) \/ Continue(p) \/ Abort(p)
  PROVE  ApprovedHaveSnapshots'
  <1> SUFFICES ASSUME NEW i \in Approved'
               PROVE  submissions'[i].version \in snapshots'
    BY DEF ApprovedHaveSnapshots
  <1>0. TablesKeep
    BY TablesKeepStep
  <1>1. skill' # "deleted"
    BY DeletedLeavesNothingStep DEF DeletedLeavesNothing, Approved, SubsWith,
                                    NoSubmission
  <1>2. CASE ApproveCommit(p) /\ i = calls[p].sub
    BY <1>0, <1>1, <1>2, ApproveCommitKnows DEF TablesKeep, Inserted
  <1>3. CASE i \in Approved
    <2>1. /\ i \in Subs /\ submissions[i].status # "none"
          /\ submissions[i].version \in snapshots
      BY <1>3 DEF Approved, SubsWith, CatalogInv, ApprovedHaveSnapshots
    <2> QED  BY <1>0, <1>1, <2>1 DEF TablesKeep
  <1> QED  BY <1>2, <1>3, ApprovedShape

LEMMA CatalogInvariant == Spec => []CatalogInv
  <1>1. Init => CatalogInv
    <2> SUFFICES ASSUME Init PROVE CatalogInv
      OBVIOUS
    <2>1. RequestInv
      BY InitTypeOK DEF Init, RequestInv, LockExclusion, InsertClaims,
         OnePendingRequest, ReqsWith, NoRequest, Idle, NewCall
    <2>2. LocksInOrder
      BY NothingHeld DEF Init, LocksInOrder, Idle, NewCall
    <2>3. CallsKnow
      BY DEF Init, CallsKnow, Knows, ApproveKnows, VersionRemovalKnows,
             TakedownKnows, RequestKnows, ApprovePoints, VersionPoints,
             DropPoints, TakedownPoints, Idle, NewCall
    <2>4. ListingKnown /\ ApprovedHaveSnapshots /\ BlankRequests
      BY DEF Init, ListingKnown, ApprovedHaveSnapshots, Approved, SubsWith,
             NoSubmission, BlankRequests
    <2>5. DeletedLeavesNothing
      BY ConstantsAssumption DEF Init, DeletedLeavesNothing, SkillStatuses
    <2> QED  BY <2>1, <2>2, <2>3, <2>4, <2>5 DEF CatalogInv
  <1>2. CatalogInv /\ RequestInv' /\ LocksInOrder' /\ [Next]_vars => CatalogInv'
    <2> SUFFICES ASSUME CatalogInv, RequestInv', LocksInOrder', [Next]_vars
                 PROVE  CatalogInv'
      OBVIOUS
    <2>0. TypeOK'
      BY DEF RequestInv
    <2>1. ASSUME NEW p \in Procs, Begin(p) \/ Continue(p) \/ Abort(p)
          PROVE  CatalogInv'
      <3>1. CallsKnow'
        <4>1. \A q \in Procs : Knows(calls[q])'
          BY <2>0, <2>1, OwnKnows, OthersKnow
        <4> QED  BY <4>1 DEF CallsKnow
      <3> QED  BY <2>1, <3>1, ListingKnownStep, ApprovedHaveSnapshotsStep,
                  BlankRequestsStep, DeletedLeavesNothingStep DEF CatalogInv
    <2>2. CASE UNCHANGED vars
      <3>1. CallsKnow'
        BY <2>2 DEF vars, db, CatalogInv, CallsKnow, Knows, ApproveKnows,
           VersionRemovalKnows, TakedownKnows, RequestKnows, Inserted
      <3> QED  BY <2>2, <3>1 DEF vars, db, CatalogInv, ListingKnown, Inserted,
                  ApprovedHaveSnapshots, Approved, SubsWith, BlankRequests,
                  DeletedLeavesNothing
    <2> QED  BY <2>1, <2>2 DEF Next
  <1> QED  BY <1>1, <1>2, RequestInvariant, LocksInOrderInvariant, PTL DEF Spec

\* What the marketplace lists can be read: a listing shows a submission that is
\* there, with its version, and the version's snapshot exists, however approve,
\* the removals and delete interleave and wherever they die.
THEOREM ListedVersionReadableHolds == Spec => []ListedVersionReadable
  <1>1. CatalogInv => ListedVersionReadable
    BY DEF CatalogInv, ListingKnown, ListedVersionReadable
  <1> QED  BY <1>1, CatalogInvariant, PTL

\* A deleted skill leaves no row behind, whatever handler was half way when the
\* row went.
THEOREM DeletedLeavesNothingHolds == Spec => []DeletedLeavesNothing
  <1>1. CatalogInv => DeletedLeavesNothing
    BY DEF CatalogInv
  <1> QED  BY <1>1, CatalogInvariant, PTL

-----------------------------------------------------------------------------
(* What is listed has been reviewed.                                       *)

\* A removal re-points the listing at what was approved when it looked.
ListsReviewed ==
  /\ OnlyReviewedIsListed
  /\ \A p \in Procs : calls[p].at \in DropPoints /\ calls[p].next # 0 =>
       calls[p].next \in Reviewed

\* A review is not taken back while there is a listing.
LEMMA ReviewedStays ==
  ASSUME CatalogInv, NEW p \in Procs, Begin(p) \/ Continue(p) \/ Abort(p),
         NEW i \in Reviewed, listing # NoListing
  PROVE  i \in Reviewed'
  <1>t. /\ submissions \in [Subs -> Submission] /\ i \in Subs
        /\ submissions[i].status \in {"approved", "removed", "rejected"}
    BY DEF CatalogInv, RequestInv, TypeOK, Reviewed, SubsWith
  <1> SUFFICES submissions'[i].status \in {"approved", "removed", "rejected"}
    BY <1>t DEF Reviewed, SubsWith
  <1>1. CASE UNCHANGED submissions
    BY <1>t, <1>1
  <1>2. CASE SubmitCreate(p)
    <2>1. CASE ~UNCHANGED submissions
      <3>1. PICK j \in SubsWith("none") :
              submissions' = [submissions EXCEPT ![j] =
                [status |-> "pending_review", version |-> calls[p].version]]
        BY <1>2, <2>1 DEF SubmitCreate
      <3>2. j # i
        BY <1>t, <3>1 DEF SubsWith
      <3> QED  BY <1>t, <3>1, <3>2
    <2> QED  BY <1>1, <2>1
  <1>3. CASE ApproveCommit(p)
    BY <1>t, <1>3 DEF ApproveCommit, Submission
  <1>4. CASE RejectUpdate(p)
    BY <1>t, <1>4 DEF RejectUpdate, Submission
  <1>5. CASE DropCommit(p)
    BY <1>t, <1>5 DEF DropCommit, Submission
  <1>6. CASE TakedownCommit(p)
    BY <1>t, <1>6 DEF TakedownCommit, Submission
  <1>7. CASE PurgeSubmissions(p)
    BY <1>t, <1>7 DEF PurgeSubmissions, Submission
  <1>8. CASE DeleteRow(p)
    BY <1>1, <1>8 DEF DeleteRow, db
  <1> QED
    BY <1>1, <1>2, <1>3, <1>4, <1>5, <1>6, <1>7, <1>8, WriteShape
    DEF Writes, db, SubmitSkill, RejectSkill, RequestRemovalCommit,
        RejectRemovalUpdate, RejectRemovalActivate, RejectRemovalSkill,
        PurgeListing, PurgeSkill, DeleteCleanup, UpdateStatus, OptimizeStart,
        OptimizeBump, OptimizeSnapshot

\* A removal gets to its transaction by reading what remains, and does not read
\* it again.
LEMMA DropsGoOn ==
  ASSUME TypeOK, NEW p \in Procs, Begin(p) \/ Continue(p) \/ Abort(p),
         NEW q \in Procs, calls'[q].at \in DropPoints
  PROVE  \/ ReadRemaining(p) /\ q = p
         \/ calls'[q].next = calls[q].next /\ calls[q].at \in DropPoints
  <1>0. calls \in [Procs -> Call]
    BY DEF TypeOK
  <1>1. CASE calls'[q] = calls[q]
    BY <1>1
  <1>2. CASE calls'[p] = Idle /\ q = p
    BY <1>2 DEF Idle, NewCall, DropPoints
  <1>3. CASE Begin(p) /\ q = p
    BY <1>0, <1>1, <1>3 DEF Begin, Starts, SubmitCheck, ApproveCheck, RejectCheck,
        RemoveVersionCheck, RequestRemovalCheck, ApproveRemovalCheck,
        RejectRemovalCheck, PurgeCheck, DeleteCheck, UpdateStatus, OptimizeStart,
        NewCall, Call, DropPoints
  <1>4. CASE q = p /\ (DropSubmission(p) \/ DropListing(p) \/ DropSkill(p))
    BY <1>0, <1>4 DEF DropSubmission, DropListing, DropSkill, Statement, At, Call,
                LastDrop, DropPoints
  <1>5. CASE q = p /\ Continue(p)
    <2>1. CASE \/ SubmitDowngrade(p) \/ SubmitCreate(p) \/ SubmitSkill(p)
               \/ ApproveSnapshot(p) \/ ApproveSubmission(p) \/ ApproveListing(p)
               \/ ApproveCommit(p) \/ RejectUpdate(p) \/ RejectLive(p)
               \/ RejectSkill(p)
      BY <1>0, <1>2, <1>5, <2>1
      DEF Goto, Return, Statement, SubmitDowngrade, SubmitCreate, SubmitSkill,
          ApproveSnapshot, ApproveSubmission, ApproveListing, ApproveCommit,
          RejectUpdate, RejectLive, RejectSkill, NewCall, Call, DropPoints
    <2>2. CASE \/ ReadListing(p) \/ ReadRemaining(p) \/ DropCommit(p)
               \/ RequestRemovalPending(p) \/ RequestRemovalTarget(p)
               \/ RequestRemovalInsert(p) \/ RequestRemovalCommit(p)
               \/ ApproveRemovalTarget(p) \/ ApproveRemovalListing(p)
      BY <1>0, <1>2, <1>5, <2>2
      DEF Goto, Return, Statement, ReadListing, DropCommit,
          RequestRemovalPending, RequestRemovalTarget, RequestRemovalInsert,
          RequestRemovalCommit, ApproveRemovalTarget, ApproveRemovalListing,
          NewCall, Call, DropPoints
    <2>3. CASE \/ TakedownSubmissions(p) \/ TakedownListing(p)
               \/ TakedownSkill(p) \/ TakedownCommit(p)
               \/ RejectRemovalUpdate(p) \/ RejectRemovalListing(p)
               \/ RejectRemovalActivate(p) \/ RejectRemovalSkill(p)
      BY <1>0, <1>2, <1>5, <2>3
      DEF Goto, Return, Statement, TakedownSubmissions, TakedownListing,
          TakedownSkill, TakedownCommit, RejectRemovalUpdate,
          RejectRemovalListing, RejectRemovalActivate, RejectRemovalSkill,
          NewCall, Call, DropPoints
    <2>4. CASE \/ PurgeSubmissions(p) \/ PurgeListing(p) \/ PurgeSkill(p)
               \/ DeletePending(p) \/ DeleteCleanup(p) \/ DeleteRow(p)
               \/ OptimizeBump(p) \/ OptimizeSnapshot(p)
      BY <1>0, <1>2, <1>5, <2>4
      DEF Goto, Return, Statement, PurgeSubmissions, PurgeListing, PurgeSkill,
          DeletePending, DeleteCleanup, DeleteRow, OptimizeBump,
          OptimizeSnapshot, NewCall, Call, DropPoints
    <2> QED
      BY <1>4, <1>5, <2>1, <2>2, <2>3, <2>4 DEF Continue
  <1>6. CASE Abort(p) /\ q = p
    BY <1>0, <1>2, <1>6 DEF Abort, Return
  <1>7. CASE q # p
    BY <1>1, <1>7, OthersKeepStep DEF OthersKeep
  <1> QED  BY <1>3, <1>5, <1>6, <1>7

LEMMA ListsReviewedStep ==
  ASSUME CatalogInv, ListsReviewed, NEW p \in Procs, Begin(p) \/ Continue(p) \/ Abort(p)
  PROVE  ListsReviewed'
  <1>0. /\ TypeOK /\ calls \in [Procs -> Call] /\ submissions \in [Subs -> Submission]
    BY DEF CatalogInv, RequestInv, TypeOK
  <1>1. OnlyReviewedIsListed'
    <2> SUFFICES ASSUME listing' # NoListing PROVE listing'.sub \in Reviewed'
      BY DEF OnlyReviewedIsListed
    <2>1. CASE ApproveCommit(p)
      <3>1. calls[p].sub \in Subs /\ listing'.sub = calls[p].sub
        BY <2>1, ApproveCommitKnows, ShowsAListing DEF ApproveCommit, Inserted
      <3>2. submissions'[calls[p].sub].status = "approved"
        BY <1>0, <2>1, <3>1 DEF ApproveCommit, Submission
      <3> QED  BY <3>1, <3>2 DEF Reviewed, SubsWith
    <2>2. CASE DropCommit(p) /\ calls[p].next # 0
      <3>1. calls[p].at \in DropPoints
        BY <2>2 DEF DropCommit, At, LastDrop, DropPoints
      <3>2. calls[p].next \in Reviewed /\ listing # NoListing
        BY <2>2, <3>1 DEF ListsReviewed, CatalogInv, CallsKnow, Knows,
                          VersionRemovalKnows
      <3>3. listing'.sub = calls[p].next
        BY <2>2, ShowsAListing DEF DropCommit
      <3> QED  BY <3>2, <3>3, ReviewedStays
    <2>3. CASE /\ listing' = NoListing <=> listing = NoListing
               /\ listing'.sub = listing.sub /\ listing'.version = listing.version
      <3>1. listing # NoListing /\ listing.sub \in Reviewed
        BY <2>3 DEF ListsReviewed, OnlyReviewedIsListed
      <3> QED  BY <2>3, <3>1, ReviewedStays
    <2> QED  BY <2>1, <2>2, <2>3, ListingShape
  <1>2. ASSUME NEW q \in Procs, calls'[q].at \in DropPoints, calls'[q].next # 0
        PROVE  calls'[q].next \in Reviewed'
    <2>1. CASE ReadRemaining(p) /\ q = p
      <3>1. PICK n \in 0..MaxSubs :
              /\ IsNewest(n, Remaining(calls[p].sub))
              /\ calls' = [calls EXCEPT ![p].at = "drop:submission", ![p].next = n]
        BY <2>1 DEF ReadRemaining
      <3>2. calls'[q].next = n /\ n \in Approved /\ UNCHANGED submissions
        BY <1>0, <1>2, <2>1, <3>1
        DEF IsNewest, Remaining, Call, ReadRemaining, db
      <3> QED  BY <3>2 DEF Approved, Reviewed, SubsWith
    <2>2. CASE calls'[q].next = calls[q].next /\ calls[q].at \in DropPoints
      <3>1. calls[q].next \in Reviewed /\ listing # NoListing
        BY <1>2, <2>2 DEF ListsReviewed, CatalogInv, CallsKnow, Knows,
                          VersionRemovalKnows
      <3> QED  BY <2>2, <3>1, ReviewedStays
    <2>3. \/ ReadRemaining(p) /\ q = p
          \/ calls'[q].next = calls[q].next /\ calls[q].at \in DropPoints
      BY <1>0, <1>2, DropsGoOn
    <2> QED  BY <2>1, <2>2, <2>3
  <1> QED  BY <1>1, <1>2 DEF ListsReviewed

\* Whatever is listed has been reviewed, for any number of admins and submissions
\* and wherever the awaits of a removal are cut.
THEOREM OnlyReviewedIsListedHolds == Spec => []OnlyReviewedIsListed
  <1>1. Init => ListsReviewed
    BY DEF Init, ListsReviewed, OnlyReviewedIsListed, Idle, NewCall, DropPoints
  <1>2. CatalogInv /\ ListsReviewed /\ [Next]_vars => ListsReviewed'
    <2> SUFFICES ASSUME CatalogInv, ListsReviewed, [Next]_vars
                 PROVE  ListsReviewed'
      OBVIOUS
    <2>1. CASE UNCHANGED vars
      BY <2>1 DEF vars, db, ListsReviewed, OnlyReviewedIsListed, Reviewed, SubsWith
    <2> QED  BY <2>1, ListsReviewedStep DEF Next
  <1>3. ListsReviewed => OnlyReviewedIsListed
    BY DEF ListsReviewed
  <1> QED  BY <1>1, <1>2, <1>3, CatalogInvariant, PTL DEF Spec

-----------------------------------------------------------------------------
(* One request at a time.                                                  *)

Live == listing.status \in {"active", "removal_requested"}

\* The listing is live exactly while a version is approved, and shows the newest.
Shown ==
  /\ Live <=> Approved # {}
  /\ Approved # {} => IsNewest(listing.sub, Approved)

\* Submissions are inserted in the order of their ids, and the one that awaits
\* its review is the newest.
InsertedInOrder ==
  \A i, j \in Subs :
    i < j /\ submissions[j].status # "none" => submissions[i].status # "none"

PendingIsNewest ==
  \A i \in SubsWith("pending_review") :
    \A j \in Subs : submissions[j].status # "none" => j <= i

RemainingPoints ==
  {"removeVersion:listing", "approveRemoval:listing", "remaining"} \cup DropPoints

\* What a call that nobody overlaps has seen is still so.
SoloKnows(c, H) ==
  /\ c.at \in {"submit:listing", "submit:create"} => NoPendingReview
  /\ c.at \in ApprovePoints \cup {"reject:update"} =>
       c.sub \in SubsWith("pending_review")
  /\ c.at \in RemainingPoints /\ c.sub # 0 => Inserted(c.sub)
  /\ c.at \in DropPoints => IsNewest(c.next, Remaining(c.sub))
  /\ c.at \in TakedownPoints \ {"takedown:submissions"} =>
       \A i \in Subs : SubmissionRow(i) \in H <=> i \in Approved
  /\ c.at \in {"requestRemoval:pending", "requestRemoval:target",
               "requestRemoval:insert", "requestRemoval:listing"} => Live
  /\ c.at = "rejectRemoval:activate" => listing.status = "removal_requested"
  /\ IF c.at = "purge:listing" THEN Approved = {} ELSE Shown

\* There is one process, and its calls do not die.
Alone == ~Faults /\ \E solo : Procs = {solo}

SoloInv == /\ CatalogInv /\ InsertedInOrder /\ PendingIsNewest
           /\ \A p \in Procs : SoloKnows(calls[p], held[p])

\* Where a call relies on nothing it has seen before.
FreePoints ==
  Steps \ ({"submit:listing", "submit:create", "reject:update",
            "requestRemoval:pending", "requestRemoval:target",
            "requestRemoval:insert", "requestRemoval:listing",
            "rejectRemoval:activate", "purge:listing"}
             \cup ApprovePoints \cup RemainingPoints
             \cup (TakedownPoints \ {"takedown:submissions"}))

LEMMA FreeKnows ==
  ASSUME NEW p \in Procs, calls'[p].at \in FreePoints, Shown'
  PROVE  SoloKnows(calls[p], held[p])'
  BY DEF SoloKnows, FreePoints, RemainingPoints

LEMMA SubmissionsAlone ==
  ASSUME SoloInv,
         \A i \in Subs : submissions'[i].status = "none"
                           <=> submissions[i].status = "none",
         \A i \in Subs : submissions'[i].status = "pending_review"
                           => submissions[i].status = "pending_review"
  PROVE  InsertedInOrder' /\ PendingIsNewest'
  BY DEF SoloInv, InsertedInOrder, PendingIsNewest, SubsWith

\* Reading, and moving on, leaves what the call has seen as it was.
LEMMA SoloBegin ==
  ASSUME SoloInv, NEW p \in Procs, Begin(p)
  PROVE  SoloKnows(calls[p], held[p])' /\ UNCHANGED <<submissions, listing>>
  <1> USE DEF ApprovePoints, DropPoints, TakedownPoints, RemainingPoints
  <1>0. /\ calls \in [Procs -> Call] /\ SoloKnows(calls[p], held[p])
        /\ calls[p] = Idle
    BY DEF SoloInv, CatalogInv, RequestInv, TypeOK, Begin, Starts, SubmitCheck,
           ApproveCheck, RejectCheck, RemoveVersionCheck, RequestRemovalCheck,
           ApproveRemovalCheck, RejectRemovalCheck, PurgeCheck, DeleteCheck,
           UpdateStatus, OptimizeStart
  <1>1. Shown
    BY <1>0 DEF SoloKnows, Idle, NewCall
  <1>2. UNCHANGED <<submissions, listing>>
    BY DEF Begin, Starts, db, SubmitCheck,
           ApproveCheck, RejectCheck, RemoveVersionCheck, RequestRemovalCheck,
           ApproveRemovalCheck, RejectRemovalCheck, PurgeCheck, DeleteCheck,
           UpdateStatus, OptimizeStart
  <1>3. Shown'
    BY <1>1, <1>2 DEF Shown, Live, Approved, SubsWith
  <1>4. CASE SubmitCheck(p)
    <2>1. PICK v \in Versions, s \in {"submit:listing", "submit:create"} :
            NoPendingReview /\ calls'[p] = NewCall(s, 0, v, 0)
      BY <1>0, <1>4 DEF SubmitCheck, Starts
    <2> QED  BY <1>2, <1>3, <2>1
             DEF SoloKnows, NewCall, NoPendingReview, SubsWith
  <1>5. CASE ApproveCheck(p)
    <2>1. PICK i \in SubsWith("pending_review") :
            calls'[p] = NewCall("approve:snapshot", i, submissions[i].version, 0)
      BY <1>0, <1>5 DEF ApproveCheck, Starts
    <2> QED  BY <1>2, <1>3, <2>1 DEF SoloKnows, NewCall, SubsWith
  <1>6. CASE RejectCheck(p)
    <2>1. PICK i \in SubsWith("pending_review") :
            calls'[p] = NewCall("reject:update", i, 0, 0)
      BY <1>0, <1>6 DEF RejectCheck, Starts
    <2> QED  BY <1>2, <1>3, <2>1 DEF SoloKnows, NewCall, SubsWith
  <1>7. CASE RequestRemovalCheck(p)
    <2>1. PICK i \in 0..MaxSubs :
            Live /\ calls'[p] = NewCall("requestRemoval:pending", i, 0, 0)
      BY <1>0, <1>7 DEF RequestRemovalCheck, Starts, Live
    <2> QED  BY <1>2, <1>3, <2>1 DEF SoloKnows, NewCall, Live
  <1>9. CASE RemoveVersionCheck(p)
    <2>1. PICK i \in Approved :
            calls'[p] = NewCall("removeVersion:listing", i, 0, 0)
      BY <1>0, <1>9 DEF RemoveVersionCheck, Starts
    <2>2. Inserted(i)'
      BY <1>2 DEF Inserted, Approved, SubsWith
    <2> QED  BY <1>2, <1>3, <2>1, <2>2 DEF SoloKnows, NewCall
  <1>10. CASE ApproveRemovalCheck(p)
    <2>1. PICK r \in ReqsWith("pending") :
            calls'[p] = NewCall(
              IF requests[r].target = 0 THEN "approveRemoval:listing"
                                        ELSE "approveRemoval:target",
              requests[r].target, 0, r)
      BY <1>0, <1>10 DEF ApproveRemovalCheck, Starts
    <2> QED  BY <1>2, <1>3, <2>1 DEF SoloKnows, NewCall
  <1>8. CASE RejectRemovalCheck(p) \/ PurgeCheck(p) \/ DeleteCheck(p)
             \/ UpdateStatus(p) \/ OptimizeStart(p)
    <2>1. calls'[p].at \in {"rejectRemoval:update", "purge:submissions",
            "delete:pending", "idle", "optimize:bump"}
      BY <1>0, <1>8 DEF RejectRemovalCheck, PurgeCheck, DeleteCheck, UpdateStatus,
         OptimizeStart, Starts, NewCall, Idle
    <2>2. calls'[p].at \in FreePoints
      BY <2>1 DEF FreePoints, Steps
    <2> QED  BY <1>2, <1>3, <2>2, FreeKnows
  <1> QED  BY <1>4, <1>5, <1>6, <1>7, <1>8, <1>9, <1>10 DEF Begin

LEMMA SoloReads ==
  ASSUME SoloInv, NEW p \in Procs, Continue(p),
         UNCHANGED <<submissions, listing>>, ~PurgeListing(p),
         ~PurgeSubmissions(p)
  PROVE  SoloKnows(calls[p], held[p])'
  <1> USE DEF ApprovePoints, DropPoints, TakedownPoints, RemainingPoints
  <1>0. /\ TypeOK /\ calls \in [Procs -> Call] /\ held \in [Procs -> SUBSET Rows]
        /\ SoloKnows(calls[p], held[p])
    BY DEF SoloInv, CatalogInv, RequestInv, TypeOK
  <1>1. calls[p].at # "purge:listing"
    BY DEF Continue, At, Statement, SubmitDowngrade, SubmitCreate, SubmitSkill,
        ApproveSnapshot, ApproveSubmission, ApproveListing, ApproveCommit,
        RejectUpdate, RejectLive, RejectSkill, ReadListing, ReadRemaining,
        DropSubmission, DropListing, DropSkill, DropCommit, LastDrop,
        RequestRemovalPending, RequestRemovalTarget, RequestRemovalInsert,
        RequestRemovalCommit, ApproveRemovalTarget, ApproveRemovalListing,
        TakedownSubmissions, TakedownListing, TakedownSkill, TakedownCommit,
        RejectRemovalUpdate, RejectRemovalListing, RejectRemovalActivate,
        RejectRemovalSkill, PurgeSkill, DeletePending, DeleteCleanup,
        DeleteRow, OptimizeBump, OptimizeSnapshot
  <1>2. Shown'
    BY <1>0, <1>1 DEF SoloKnows, Shown, Live, Approved, SubsWith
  <1>3. CASE Return(p)
    <2>1. calls'[p].at \in FreePoints
      BY <1>0, <1>3 DEF Return, Idle, NewCall, FreePoints, Steps
    <2> QED  BY <1>2, <2>1, FreeKnows
  <1>4. ASSUME NEW s \in FreePoints, calls'[p].at = s
        PROVE  SoloKnows(calls[p], held[p])'
    BY <1>2, <1>4, FreeKnows
  <1>5. ASSUME NEW s \in Steps, Goto(p, s)
        PROVE  /\ calls'[p].at = s /\ calls'[p].sub = calls[p].sub
               /\ calls'[p].next = calls[p].next /\ held'[p] = held[p]
    BY <1>0, <1>5, GotoFields DEF Goto
  <1>6. ASSUME NEW s, NEW t \in Steps, Statement(p, s, t)
        PROVE  /\ calls'[p].at = t /\ calls'[p].sub = calls[p].sub
               /\ calls'[p].next = calls[p].next /\ held[p] \subseteq held'[p]
               /\ calls[p].at = s /\ held'[p] = held[p] \cup Wants(calls[p])
    BY <1>0, <1>6, GotoFields DEF Statement, At
  <1>7. CASE SubmitDowngrade(p)
    <2>1. CASE Goto(p, "submit:create")
      <3>1. NoPendingReview
        BY <1>0, <1>7 DEF SubmitDowngrade, At, SoloKnows
      <3> QED  BY <1>2, <1>5, <2>1, <3>1
               DEF Steps, SoloKnows, NoPendingReview, SubsWith
    <2> QED  BY <1>3, <1>7, <2>1 DEF SubmitDowngrade
  <1>8. CASE ApproveSnapshot(p) \/ ApproveSubmission(p) \/ ApproveListing(p)
    <2>1. CASE ~Return(p)
      <3>1. /\ calls[p].at \in ApprovePoints /\ calls'[p].at \in ApprovePoints
            /\ calls'[p].sub = calls[p].sub
        BY <1>5, <1>6, <1>8, <2>1
        DEF ApproveSnapshot, ApproveSubmission, ApproveListing, Steps, At
      <3> QED  BY <1>0, <1>2, <3>1 DEF SoloKnows, SubsWith
    <2> QED  BY <1>3, <2>1
  <1>9. CASE ReadRemaining(p)
    <2>1. PICK n \in 0..MaxSubs :
            /\ IsNewest(n, Remaining(calls[p].sub))
            /\ calls' = [calls EXCEPT ![p].at = "drop:submission", ![p].next = n]
      BY <1>9 DEF ReadRemaining
    <2>2. /\ calls'[p].at = "drop:submission" /\ calls'[p].next = n
          /\ calls'[p].sub = calls[p].sub
      BY <1>0, <2>1 DEF Call
    <2>3. IsNewest(calls[p].next, Remaining(calls[p].sub))'
      BY <2>1, <2>2 DEF IsNewest, Remaining, Approved, SubsWith
    <2>4. Inserted(calls[p].sub)' \/ calls[p].sub = 0
      BY <1>0, <1>9 DEF ReadRemaining, At, SoloKnows, Inserted
    <2> QED  BY <1>2, <2>2, <2>3, <2>4 DEF SoloKnows, Inserted
  <1>10. CASE DropSubmission(p) \/ DropListing(p) \/ DropSkill(p)
    <2>1. /\ calls[p].at \in DropPoints /\ calls'[p].at \in DropPoints
          /\ calls'[p].sub = calls[p].sub /\ calls'[p].next = calls[p].next
      BY <1>6, <1>10 DEF DropSubmission, DropListing, DropSkill, Steps
    <2>2. IsNewest(calls[p].next, Remaining(calls[p].sub))'
      BY <1>0, <2>1 DEF SoloKnows, IsNewest, Remaining, Approved, SubsWith
    <2>3. Inserted(calls[p].sub)' \/ calls'[p].sub = 0
      BY <1>0, <2>1 DEF SoloKnows, Inserted
    <2> QED  BY <1>2, <2>1, <2>2, <2>3 DEF SoloKnows
  <1>11. CASE RequestRemovalPending(p) \/ RequestRemovalTarget(p)
              \/ RequestRemovalInsert(p)
    <2>1. CASE ~Return(p)
      <3>1. calls'[p].at \in {"requestRemoval:target", "requestRemoval:insert",
                              "requestRemoval:listing"}
        <4>1. CASE RequestRemovalInsert(p)
          BY <1>0, <2>1, <4>1 DEF RequestRemovalInsert, Call
        <4>2. CASE ~RequestRemovalInsert(p)
          BY <1>5, <1>11, <2>1, <4>2
          DEF RequestRemovalPending, RequestRemovalTarget, Steps
        <4> QED  BY <4>1, <4>2
      <3>2. Live
        BY <1>0, <1>11 DEF SoloKnows, RequestRemovalPending,
           RequestRemovalTarget, RequestRemovalInsert, At
      <3> QED  BY <1>2, <3>1, <3>2 DEF SoloKnows, Live
    <2> QED  BY <1>3, <2>1
  <1>12. CASE TakedownSubmissions(p)
    <2>1. /\ calls'[p].at = "takedown:listing"
          /\ held'[p] = held[p] \cup Wants(calls[p])
          /\ calls[p].at = "takedown:submissions"
      BY <1>6, <1>12 DEF TakedownSubmissions, Steps
    <2>2. held[p] = {}
      BY <2>1, OutsideHoldsNothing
      DEF SoloInv, CatalogInv, LockPoints, CommitPoints, SkillPoints,
          ListingPoints
    <2>3. \A i \in Subs : SubmissionRow(i) \in held'[p] <=> i \in Approved
      <3>1. \A i \in Subs : SubmissionRow(i) \in Rows
        BY ConstantsAssumption DEF Rows
      <3>2. \A i, j : SubmissionRow(i) = SubmissionRow(j) => i = j
        BY DEF SubmissionRow
      <3>3. Wants(calls[p]) =
              {r \in Rows : \E i \in Approved : r = SubmissionRow(i)}
        BY <2>1 DEF Wants
      <3> QED  BY <2>1, <2>2, <3>1, <3>2, <3>3
    <2>4. Approved' = Approved
      BY DEF Approved, SubsWith
    <2> QED  BY <1>2, <2>1, <2>3, <2>4 DEF SoloKnows
  <1>13. CASE TakedownListing(p) \/ TakedownSkill(p)
    <2>1. /\ calls'[p].at \in {"takedown:skill", "takedown:request"}
          /\ calls[p].at \in {"takedown:listing", "takedown:skill"}
          /\ held'[p] = held[p] \cup Wants(calls[p])
      BY <1>6, <1>13 DEF TakedownListing, TakedownSkill, Steps
    <2>2. Approved' = Approved
      BY DEF Approved, SubsWith
    <2>3. \A i \in Subs : SubmissionRow(i) \in held'[p] <=> i \in Approved'
      <3>1. \A i : SubmissionRow(i) \notin Wants(calls[p])
        BY <2>1, RowsDiffer DEF Wants
      <3> QED  BY <1>0, <2>1, <2>2, <3>1 DEF SoloKnows
    <2> QED  BY <1>2, <2>1, <2>3 DEF SoloKnows
  <1>14. CASE RejectRemovalListing(p)
    <2>1. CASE ~Return(p)
      <3>1. calls'[p].at = "rejectRemoval:activate"
            /\ listing'.status = "removal_requested"
        BY <1>5, <1>14, <2>1 DEF RejectRemovalListing, Steps
      <3> QED  BY <1>2, <3>1 DEF SoloKnows
    <2> QED  BY <1>3, <2>1
  <1>f. {"submit:skill", "reject:live", "reject:skill",
         "takedown:submissions", "rejectRemoval:listing", "rejectRemoval:skill", "purge:skill",
         "delete:cleanup", "delete:row", "optimize:snapshot"} \subseteq FreePoints
    BY DEF FreePoints, Steps
  <1>20. CASE ReadListing(p) \/ ApproveRemovalTarget(p)
              \/ ApproveRemovalListing(p)
    <2>1. CASE ~Return(p)
      <3>1. /\ calls'[p].at \in {"remaining", "approveRemoval:listing",
                                 "takedown:submissions"}
            /\ calls'[p].sub = calls[p].sub
        BY <1>5, <1>20, <2>1
        DEF ReadListing, ApproveRemovalTarget, ApproveRemovalListing, Steps
      <3>2. calls[p].sub # 0 => Inserted(calls[p].sub)
        BY <1>0, <1>20, <2>1
        DEF ReadListing, ApproveRemovalTarget, ApproveRemovalListing, At,
            SoloKnows, Inserted, Approved, SubsWith
      <3> QED  BY <1>2, <3>1, <3>2 DEF SoloKnows, Inserted
    <2> QED  BY <1>3, <2>1
  <1>15. CASE SubmitCreate(p) \/ SubmitSkill(p) \/ RejectUpdate(p)
              \/ RejectSkill(p)
    BY <1>3, <1>4, <1>5, <1>f, <1>15
    DEF SubmitCreate, SubmitSkill, RejectUpdate, RejectSkill, Steps
  <1>16. CASE RejectRemovalUpdate(p) \/ RejectRemovalActivate(p)
              \/ RejectRemovalSkill(p) \/ PurgeSkill(p) \/ DeletePending(p)
              \/ DeleteCleanup(p) \/ DeleteRow(p) \/ OptimizeSnapshot(p)
    BY <1>3, <1>4, <1>5, <1>f, <1>16
    DEF RejectRemovalUpdate, RejectRemovalActivate, RejectRemovalSkill,
        PurgeSkill, DeletePending, DeleteCleanup, DeleteRow, OptimizeSnapshot,
        Steps
  <1>17. CASE ApproveCommit(p) \/ DropCommit(p) \/ RequestRemovalCommit(p)
              \/ TakedownCommit(p)
    BY <1>3, <1>17 DEF ApproveCommit, DropCommit, RequestRemovalCommit,
       TakedownCommit
  <1>18. CASE RejectLive(p)
    <2>1. calls'[p].at = "reject:skill"
      BY <1>0, <1>18 DEF RejectLive, Call
    <2> QED  BY <1>4, <1>f, <2>1
  <1>19. CASE OptimizeBump(p)
    <2>1. CASE ~Return(p)
      <3>1. calls'[p].at = "optimize:snapshot"
        BY <1>0, <1>19, <2>1 DEF OptimizeBump, NewCall
      <3> QED  BY <1>4, <1>f, <3>1
    <2> QED  BY <1>3, <2>1
  <1> QED
    BY <1>7, <1>8, <1>9, <1>10, <1>11, <1>12, <1>13, <1>14, <1>15, <1>16,
       <1>17, <1>18, <1>19, <1>20 DEF Continue

\* The steps that change what is approved, or what is listed.
LEMMA SoloWrites ==
  ASSUME SoloInv, TypeOK', NEW p \in Procs, Continue(p),
         PurgeListing(p) \/ PurgeSubmissions(p)
           \/ ~UNCHANGED <<submissions, listing>>
  PROVE  SoloKnows(calls[p], held[p])' /\ InsertedInOrder' /\ PendingIsNewest'
  <1> USE DEF ApprovePoints, DropPoints, TakedownPoints, RemainingPoints
  <1>0. /\ TypeOK /\ calls \in [Procs -> Call]
        /\ SoloKnows(calls[p], held[p]) /\ Knows(calls[p])
        /\ submissions \in [Subs -> Submission] /\ listing \in Listing
    BY DEF SoloInv, CatalogInv, CallsKnow, RequestInv, TypeOK
  <1>r. Return(p) => calls'[p].at \in FreePoints
    BY <1>0 DEF Return, Idle, NewCall, FreePoints, Steps
  <1>g. ASSUME NEW s \in {"submit:skill", "reject:live", "rejectRemoval:skill",
                          "purge:skill"}, Goto(p, s)
        PROVE  calls'[p].at \in FreePoints
    BY <1>0, <1>g, GotoFields DEF Goto, FreePoints, Steps
  <1>1. CASE SubmitCreate(p)
    <2>1. PICK i \in SubsWith("none") :
            /\ \A j \in SubsWith("none") : i <= j
            /\ submissions' = [submissions EXCEPT ![i] =
                 [status |-> "pending_review", version |-> calls[p].version]]
            /\ Goto(p, "submit:skill") /\ UNCHANGED listing
      BY <1>1 DEF SubmitCreate, PurgeListing, PurgeSubmissions, At
    <2>2. SubsWith("pending_review") = {}
      BY <1>0, <1>1 DEF SubmitCreate, At, SoloKnows, NoPendingReview
    <2>3. i \in Subs /\ submissions[i].status = "none"
      BY <2>1 DEF SubsWith
    <2>4. /\ submissions'[i].status = "pending_review"
          /\ \A j \in Subs : j # i => submissions'[j] = submissions[j]
      BY <1>0, <2>1, <2>3
    <2>5. \A j \in Subs : j < i => submissions[j].status # "none"
      BY <2>1, <2>3 DEF SubsWith
    <2>6. \A j \in Subs : submissions[j].status # "none" => j < i
      BY <2>3 DEF SoloInv, InsertedInOrder
    <2>7. InsertedInOrder'
      <3>1. ASSUME NEW a \in Subs, NEW b \in Subs, a < b,
                   submissions'[b].status # "none"
            PROVE  submissions'[a].status # "none"
        <4>1. a < i
          BY <2>3, <2>4, <2>6, <3>1
        <4>2. submissions'[a] = submissions[a]
          BY <2>3, <2>4, <4>1
        <4> QED  BY <2>5, <4>1, <4>2
      <3> QED  BY <3>1 DEF InsertedInOrder
    <2>8. PendingIsNewest'
      BY <2>2, <2>4, <2>6 DEF PendingIsNewest, SubsWith
    <2>9. Approved' = Approved
      BY <2>3, <2>4 DEF Approved, SubsWith
    <2>10. Shown'
      BY <1>0, <1>1, <2>1, <2>9 DEF SubmitCreate, At, SoloKnows, Shown, Live
    <2> QED  BY <1>g, <2>1, <2>7, <2>8, <2>10, FreeKnows
  <1>2. CASE ApproveCommit(p)
    <2> DEFINE i == calls[p].sub
    <2>1. i \in Subs /\ submissions[i].status = "pending_review"
      BY <1>0, <1>2 DEF ApproveCommit, At, SoloKnows, SubsWith
    <2>2. /\ submissions'[i].status = "approved"
          /\ \A j \in Subs : j # i => submissions'[j] = submissions[j]
      BY <1>0, <1>2, <2>1 DEF ApproveCommit, Submission
    <2>3. InsertedInOrder' /\ PendingIsNewest'
      BY <2>1, <2>2, SubmissionsAlone
    <2>4. Approved' = Approved \cup {i}
      BY <2>1, <2>2 DEF Approved, SubsWith
    <2>5. \A j \in Approved : j <= i
      BY <2>1 DEF SoloInv, PendingIsNewest, Approved, SubsWith
    <2>6. listing'.status = "active" /\ listing'.sub = i
      BY <1>2 DEF ApproveCommit, ListingShows
    <2>7. Shown'
      <3>1. IsNewest(i, Approved')
        BY <2>1, <2>4, <2>5 DEF IsNewest
      <3> QED  BY <2>4, <2>6, <3>1 DEF Shown, Live
    <2> QED  BY <1>2, <1>r, <2>3, <2>7, FreeKnows DEF ApproveCommit
  <1>3. CASE RejectUpdate(p)
    <2> DEFINE i == calls[p].sub
    <2>1. i \in Subs /\ submissions[i].status = "pending_review"
      BY <1>0, <1>3 DEF RejectUpdate, At, SoloKnows, SubsWith
    <2>2. /\ submissions'[i].status = "rejected"
          /\ \A j \in Subs : j # i => submissions'[j] = submissions[j]
      BY <1>0, <1>3, <2>1 DEF RejectUpdate, Submission, NoSubmission
    <2>3. InsertedInOrder' /\ PendingIsNewest'
      BY <2>1, <2>2, SubmissionsAlone
    <2>4. Approved' = Approved
      BY <2>1, <2>2 DEF Approved, SubsWith
    <2>5. Shown'
      BY <1>0, <1>3, <2>4 DEF RejectUpdate, At, SoloKnows, Shown, Live
    <2> QED  BY <1>3, <1>g, <2>3, <2>5, FreeKnows DEF RejectUpdate
  <1>4. CASE DropCommit(p)
    <2> DEFINE i == calls[p].sub
               n == calls[p].next
    <2>1. /\ calls[p].at \in DropPoints /\ i \in Subs /\ listing # NoListing
          /\ IsNewest(n, Remaining(i))
      BY <1>0, <1>4 DEF DropCommit, LastDrop, At, SoloKnows, Knows,
                        VersionRemovalKnows, VersionPoints
    <2>2. submissions[i].status # "none"
      BY <1>0, <2>1 DEF SoloKnows, Inserted
    <2>3. /\ submissions'[i].status = "removed"
          /\ \A j \in Subs : j # i => submissions'[j] = submissions[j]
      BY <1>0, <1>4, <2>1 DEF DropCommit, Submission
    <2>4. InsertedInOrder' /\ PendingIsNewest'
      BY <2>2, <2>3, SubmissionsAlone
    <2>5. Approved' = Remaining(i)
      BY <2>1, <2>3 DEF Approved, SubsWith, Remaining
    <2>6. CASE n = 0
      <3>1. Remaining(i) = {}
        BY <2>1, <2>6 DEF IsNewest, Remaining, Approved, SubsWith
      <3>2. listing'.status = "removed"
        BY <1>0, <1>4, <2>1, <2>6, KeepsListing DEF DropCommit
      <3>3. Shown'
        BY <2>5, <3>1, <3>2 DEF Shown, Live
      <3> QED  BY <1>4, <1>r, <2>4, <3>3, FreeKnows DEF DropCommit
    <2>7. CASE n # 0
      <3>1. Remaining(i) # {}
        BY <2>1, <2>7 DEF IsNewest
      <3>2. listing'.status = "active" /\ listing'.sub = n
        BY <1>4, <2>7 DEF DropCommit, ListingShows
      <3>3. Shown'
        BY <2>1, <2>5, <3>1, <3>2 DEF Shown, Live
      <3> QED  BY <1>4, <1>r, <2>4, <3>3, FreeKnows DEF DropCommit
    <2> QED  BY <2>6, <2>7
  <1>5. CASE RequestRemovalCommit(p)
    <2>1. Live /\ Shown
      BY <1>0, <1>5 DEF RequestRemovalCommit, At, SoloKnows
    <2>2. listing # NoListing
      BY <2>1 DEF Live, NoListing
    <2>3. listing'.status = "removal_requested" /\ listing'.sub = listing.sub
      BY <1>0, <1>5, <2>2, WithStatusKeeps DEF RequestRemovalCommit, ListingStatuses
    <2>4. UNCHANGED submissions
      BY <1>5 DEF RequestRemovalCommit
    <2>5. Shown'
      BY <2>1, <2>3, <2>4 DEF Shown, Live, Approved, SubsWith
    <2>6. InsertedInOrder' /\ PendingIsNewest'
      BY <2>4, SubmissionsAlone
    <2> QED  BY <1>5, <1>r, <2>5, <2>6, FreeKnows DEF RequestRemovalCommit
  <1>6. CASE TakedownCommit(p)
    <2>1. /\ \A i \in Subs : SubmissionRow(i) \in held[p] <=> i \in Approved
          /\ listing # NoListing
      BY <1>0, <1>6 DEF TakedownCommit, At, SoloKnows, Knows, TakedownKnows
    <2>2. \A i \in Subs :
            \/ submissions'[i] = submissions[i] /\ i \notin Approved
            \/ submissions'[i].status = "removed" /\ i \in Approved
      BY <1>0, <1>6, <2>1 DEF TakedownCommit, Submission
    <2>3. InsertedInOrder' /\ PendingIsNewest'
      BY <2>2, SubmissionsAlone DEF Approved, SubsWith
    <2>4. Approved' = {}
      BY <2>2 DEF Approved, SubsWith
    <2>5. listing'.status = "removed"
      BY <1>0, <1>6, <2>1, KeepsListing DEF TakedownCommit
    <2>6. Shown'
      BY <2>4, <2>5 DEF Shown, Live
    <2> QED  BY <1>6, <1>r, <2>3, <2>6, FreeKnows DEF TakedownCommit
  <1>7. CASE RejectRemovalActivate(p)
    <2>1. listing.status = "removal_requested" /\ Shown
      BY <1>0, <1>7 DEF RejectRemovalActivate, At, SoloKnows
    <2>2. listing # NoListing
      BY <2>1 DEF NoListing
    <2>3. listing'.status = "active" /\ listing'.sub = listing.sub
      BY <1>0, <1>7, <2>2, WithStatusKeeps
      DEF RejectRemovalActivate, ReactivatedListing, ListingStatuses
    <2>4. UNCHANGED submissions
      BY <1>7 DEF RejectRemovalActivate
    <2>5. Shown'
      BY <2>1, <2>3, <2>4 DEF Shown, Live, Approved, SubsWith
    <2>6. InsertedInOrder' /\ PendingIsNewest'
      BY <2>4, SubmissionsAlone
    <2> QED  BY <1>7, <1>g, <2>5, <2>6, FreeKnows DEF RejectRemovalActivate
  <1>8. CASE PurgeSubmissions(p)
    <2>1. \A i \in Subs :
            \/ submissions'[i] = submissions[i] /\ i \notin Approved
            \/ submissions'[i].status = "removed" /\ i \in Approved
      BY <1>0, <1>8 DEF PurgeSubmissions, Submission
    <2>2. InsertedInOrder' /\ PendingIsNewest'
      BY <2>1, SubmissionsAlone DEF Approved, SubsWith
    <2>3. Approved' = {}
      BY <2>1 DEF Approved, SubsWith
    <2>4. calls'[p].at = "purge:listing"
      BY <1>0, <1>8, GotoFields DEF PurgeSubmissions, Goto, Steps
    <2> QED  BY <2>2, <2>3, <2>4 DEF SoloKnows
  <1>9. CASE PurgeListing(p)
    <2>1. Approved = {} /\ UNCHANGED submissions
      BY <1>0, <1>9 DEF PurgeListing, At, SoloKnows
    <2>2. listing'.status \in {"none", "removed"}
      BY <1>0, <1>9, KeepsListing DEF PurgeListing, NoListing
    <2>3. Shown'
      BY <2>1, <2>2 DEF Shown, Live, Approved, SubsWith
    <2>4. InsertedInOrder' /\ PendingIsNewest'
      BY <2>1, SubmissionsAlone
    <2> QED  BY <1>9, <1>g, <2>3, <2>4, FreeKnows DEF PurgeListing
  <1>10. CASE DeleteRow(p)
    <2>1. submissions' = [i \in Subs |-> NoSubmission] /\ listing' = NoListing
      BY <1>10 DEF DeleteRow, db, PurgeListing, PurgeSubmissions, At
    <2>2. \A i \in Subs : submissions'[i].status = "none"
      BY <2>1 DEF NoSubmission
    <2>3. InsertedInOrder' /\ PendingIsNewest' /\ Approved' = {}
      BY <2>2 DEF InsertedInOrder, PendingIsNewest, Approved, SubsWith
    <2>4. Shown'
      BY <2>1, <2>3 DEF Shown, Live, NoListing
    <2> QED  BY <1>10, <1>r, <2>3, <2>4, FreeKnows DEF DeleteRow
  <1> QED
    BY <1>1, <1>2, <1>3, <1>4, <1>5, <1>6, <1>7, <1>8, <1>9, <1>10,
       WriteShape
    DEF Writes, db, SubmitSkill, RejectSkill, RejectRemovalUpdate,
        RejectRemovalSkill, PurgeSkill, DeleteCleanup, UpdateStatus,
        OptimizeStart, OptimizeBump, OptimizeSnapshot

LEMMA SoloInvariant == Alone /\ Spec => [](Alone /\ SoloInv)
  <1> DEFINE Inv == Alone /\ SoloInv
  <1>1. Alone /\ Init /\ CatalogInv => Inv
    <2> SUFFICES ASSUME Alone, Init, CatalogInv PROVE Inv
      OBVIOUS
    <2>1. \A i \in Subs : submissions[i].status = "none"
      BY DEF Init, NoSubmission
    <2>2. InsertedInOrder /\ PendingIsNewest /\ Approved = {}
      BY <2>1 DEF InsertedInOrder, PendingIsNewest, Approved, SubsWith
    <2>3. Shown
      BY <2>2 DEF Init, Shown, Live, NoListing
    <2>4. \A p \in Procs : SoloKnows(calls[p], held[p])
      BY <2>3 DEF Init, SoloKnows, Idle, NewCall, ApprovePoints, DropPoints,
                  TakedownPoints, RemainingPoints
    <2> QED  BY <2>2, <2>4 DEF SoloInv
  <1>2. Inv /\ CatalogInv' /\ [Next]_vars => Inv'
    <2> SUFFICES ASSUME Inv, CatalogInv', [Next]_vars PROVE Inv'
      OBVIOUS
    <2>0. Alone' /\ SoloInv /\ TypeOK'
      BY DEF Alone, CatalogInv, RequestInv
    <2>1. ASSUME NEW p \in Procs, Begin(p) \/ Continue(p)
          PROVE  SoloInv'
      <3>1. \A q \in Procs : q = p
        BY <2>0 DEF Alone
      <3>2. SoloKnows(calls[p], held[p])' /\ InsertedInOrder' /\ PendingIsNewest'
        <4>1. CASE UNCHANGED submissions
          BY <2>0, <2>1, <4>1, SubmissionsAlone, SoloBegin, SoloReads, SoloWrites
        <4>2. CASE ~UNCHANGED submissions
          BY <2>0, <2>1, <4>2, SoloBegin, SoloWrites
        <4> QED  BY <4>1, <4>2
      <3> QED  BY <3>1, <3>2 DEF SoloInv
    <2>2. CASE UNCHANGED vars
      BY <2>0, <2>2 DEF vars, db, SoloInv, InsertedInOrder, PendingIsNewest,
         SubsWith, SoloKnows, NoPendingReview, Inserted, Approved, Remaining,
         IsNewest, Live, Shown
    <2>3. ASSUME NEW p \in Procs PROVE ~Abort(p)
      BY <2>0 DEF Alone, Abort
    <2> QED  BY <2>0, <2>1, <2>2, <2>3 DEF Next
  <1> QED  BY <1>1, <1>2, CatalogInvariant, PTL DEF Spec

\* With one request at a time, and none that dies, the listing is live exactly
\* while some version is approved, and shows the newest approved one, after any
\* sequence of the handlers.
THEOREM CatalogConsistentHolds == Alone /\ Spec => []CatalogConsistent
  <1>1. Alone /\ SoloInv => CatalogConsistent
    <2> SUFFICES ASSUME Alone, SoloInv, Quiet PROVE Shown
      BY DEF CatalogConsistent, Shown, Live
    <2>1. PICK p \in Procs : SoloKnows(calls[p], held[p]) /\ calls[p] = Idle
      BY DEF Alone, SoloInv, Quiet
    <2> QED  BY <2>1 DEF SoloKnows, Idle, NewCall
  <1> QED  BY <1>1, SoloInvariant, PTL
=============================================================================
