---------------------------- MODULE SkillVersions ----------------------------
(***************************************************************************)
(* One skill's row and what is filed under its versions: the snapshots,    *)
(* the diagrams and the prompts of its session, as generation, refinement, *)
(* optimization, editing and deletion change them through Postgres.        *)
(*                                                                         *)
(* As in Marketplace, each element of Procs is one request, every await is *)
(* an action, and calls[p] keeps what the handler has read so far.  The    *)
(* texts of the skill are abstracted to an identity: the c-th text ever    *)
(* written to the row is c, and contents[c] remembers the version it was   *)
(* written under and the text it was derived from.  Names are left out, a  *)
(* rename counts for the front matter it rewrites.                         *)
(***************************************************************************)
EXTENDS Naturals, Sequences, FiniteSets

CONSTANTS
  Procs,         \* concurrent requests
  Ops,           \* handlers and background jobs that may run in this instance
  InitialStates, \* "none"; "live": the skill exists; "legacy": and is older
                 \* than the snapshots
  DrawVersions,  \* versions a diagram may be asked for, 0: the current one
  MaxContents,   \* bound on the texts ever written
  MaxMessages,   \* SESSION_MAX_MESSAGES
  Faults         \* TRUE when a call may die between two awaits

Operations == {"generate", "create", "refine", "approve", "edit", "rename",
               "history", "draw", "redraw", "delete"}

ASSUME ConstantsAssumption ==
  /\ IsFiniteSet(Procs)
  /\ Ops \subseteq Operations
  /\ InitialStates \subseteq {"none", "live", "legacy"}
  /\ DrawVersions \subseteq 0..MaxContents
  /\ MaxContents \in Nat \ {0} /\ MaxMessages \in Nat \ {0}
  /\ Faults \in BOOLEAN

Contents  == 1..MaxContents
Versions  == 1..MaxContents  \* a version has at least one text of its own
Positions == 1..MaxContents  \* session_messages.sequence: one prompt per text

VARIABLES
  skill,      \* the skills row: is it there, its version and its text
  contents,   \* history: [version, base] of every text written so far
  snapshots,  \* skill_versions: the text filed under a version, 0: no row
  diagrams,   \* skill_diagrams: the text a version's diagram shows, 0: no row
  session,    \* session_messages: the text a prompt asked for, 0: no row
  calls,      \* the request each process is serving
  orphaned,   \* history: versions whose writer died before its snapshot
  raced       \* history: a session append has overlapped another, or a delete's
              \* clearing of the session

tables == <<snapshots, diagrams, session>>
ghosts == <<orphaned, raced>>
svVars == <<skill, contents, tables, calls, ghosts>>

Steps == {"idle", "generate:join", "generate:check", "generate:model",
  "generate:create", "create:insert",
  "refine:reads", "refine:skill", "refine:history", "refine:presave",
  "refine:model",
  "heal:list", "heal:full", "heal:save",
  "bump:expect", "bump:write", "snapshot", "update:expect", "update:write",
  "session:read", "session:lock", "session:append",
  "diagram:skill", "diagram:snapshot", "diagram:cached", "diagram:model",
  "diagram:save",
  "delete:session", "delete:messages", "delete:row"}

\* What a call remembers: a version and a text of the skill, and the keys of
\* the rows its last SELECT returned.
Call == [op : Operations \cup {"none"}, at : Steps, version : 0..MaxContents,
         content : 0..MaxContents, rows : SUBSET Contents]
NewCall(o, step) ==
  [op |-> o, at |-> step, version |-> 0, content |-> 0, rows |-> {}]
Idle == NewCall("none", "idle")

Live     == skill.state = "live"
Numbers(f) == {n \in DOMAIN f : f[n] # 0}

-----------------------------------------------------------------------------
(* Control.                                                                *)

\* Calls that will still write a text of their own: the bound on contents.
Writers == {q \in Procs :
  /\ calls[q].op \in {"generate", "create", "refine", "approve", "edit", "rename"}
  /\ calls[q].at \notin {"snapshot", "session:read", "session:lock",
                         "session:append", "generate:join"}}
Room == Len(contents) + Cardinality(Writers) < MaxContents

Starts(p, op, call) ==
  /\ op \in Ops
  /\ calls[p] = Idle
  /\ calls' = [calls EXCEPT ![p] = call]
  /\ UNCHANGED <<skill, contents, tables, ghosts>>

At(p, step) == calls[p].at = step

\* The handler returns or throws, and with it the calls that wait for the same
\* generateSkill promise.
Return(p) ==
  calls' = [q \in Procs |->
    IF q = p \/ (calls[p].op = "generate" /\ At(q, "generate:join"))
      THEN Idle ELSE calls[q]]

Goto(p, step) == calls' = [calls EXCEPT ![p].at = step]

\* A call that only reads on its way to step, or returns.
Reads(p) == UNCHANGED <<skill, contents, tables, ghosts>>
-----------------------------------------------------------------------------
(* Writes shared by the handlers.                                          *)

\* The row's text and version become c and v: c was derived from base.
Write(v, base) ==
  /\ contents' = Append(contents, [version |-> v, base |-> base])
  /\ skill' = [state |-> "live", version |-> v, content |-> Len(contents) + 1]

\* saveVersionSnapshot, then next: versionRepo.save looks for the row of (skillId,
\* version), then updates or inserts it.  The insert fails when the row has been
\* committed after that look, or when the skill is gone, and the handler throws.
SaveSnapshot(p, next) ==
  /\ \/ /\ Live
        /\ snapshots' = [snapshots EXCEPT ![calls[p].version] = calls[p].content]
        /\ next
     \/ /\ ~Live \/ snapshots[calls[p].version] # 0
        /\ Return(p)
        /\ UNCHANGED snapshots
  /\ UNCHANGED <<skill, contents, diagrams, session, ghosts>>

\* updateAndIncrementVersion and update read the version they expect in the
\* transaction that writes, not when the handler started.
Expect(p, step, nextStep) ==
  /\ At(p, step)
  /\ IF Live
       THEN calls' = [calls EXCEPT ![p].at = nextStep, ![p].version = skill.version]
       ELSE Return(p)
  /\ Reads(p)

\* UPDATE ... WHERE id = :id AND version = :expectedVersion matches the row.
Matches(p) == Live /\ skill.version = calls[p].version

-----------------------------------------------------------------------------
(* generateSkill and POST /skills: one owner, one name.                    *)

\* The entry of generateInflight under the owner and name.
NoInflight == {}  \* mutant: callers do not look in the map
Inflight == {q \in Procs : calls[q].op = "generate" /\ ~At(q, "generate:join")}

GenerateStart(p) ==
  /\ skill.state # "deleted"
  /\ Room
  /\ Starts(p, "generate",
       NewCall("generate",
               IF Inflight = {} THEN "generate:check" ELSE "generate:join"))

\* findByName: 409 when the name is taken.
GenerateCheck(p) ==
  /\ At(p, "generate:check")
  /\ IF Live THEN Return(p) ELSE Goto(p, "generate:model")
  /\ Reads(p)

GenerateModel(p) ==
  /\ At(p, "generate:model")
  /\ Goto(p, "generate:create") \/ Return(p)  \* the model answers, or fails
  /\ Reads(p)

\* uq_skills_owner_name: the insert of a second skill of that name fails.
NameTaken == Live

\* skillRepo.create: the row and its first snapshot in one transaction.  A row
\* created after the deletion is another skill's, and leaves this model.
Creates(p, nextStep) ==
  IF NameTaken \/ skill.state = "deleted"
    THEN Return(p) /\ UNCHANGED <<skill, contents, tables, ghosts>>
    ELSE /\ Write(1, 0)
         /\ snapshots' = [snapshots EXCEPT ![1] = Len(contents')]
         /\ IF nextStep = "idle" THEN Return(p)
            ELSE calls' = [calls EXCEPT ![p].at = nextStep, ![p].version = 1,
                                        ![p].content = Len(contents')]
         /\ UNCHANGED <<diagrams, session, ghosts>>

GenerateCreate(p) == At(p, "generate:create") /\ Creates(p, "session:read")

CreateStart(p) ==  \* nameExists
  /\ skill.state = "none"
  /\ Room
  /\ Starts(p, "create", NewCall("create", "create:insert"))

\* The diagram is drawn after the answer, on the same continuation.
CreateInsert(p) ==
  /\ At(p, "create:insert")
  /\ Creates(p, IF "draw" \in Ops THEN "diagram:skill" ELSE "idle")

-----------------------------------------------------------------------------
(* refineSkill                                                             *)

RefineStart(p) ==
  /\ Live
  /\ Room
  /\ Starts(p, "refine", NewCall("refine", "refine:reads"))

NoPresave(v, rows) == "refine:model"  \* mutant: the state before is not filed
\* The step after both of the parallel reads: a snapshot is taken first when
\* the history showed none of the version that was read.
AfterReads(v, rows) == IF v \in rows THEN "refine:model" ELSE "refine:presave"

\* findById and getVersionHistory run in parallel and answer in either order.
RefineReadSkill(p) ==
  /\ calls[p].at \in {"refine:reads", "refine:skill"}
  /\ IF Live
       THEN calls' = [calls EXCEPT
              ![p].at = IF @ = "refine:reads" THEN "refine:history"
                          ELSE AfterReads(skill.version, calls[p].rows),
              ![p].version = skill.version, ![p].content = skill.content,
              ![p].rows = {}]
       ELSE Return(p)
  /\ Reads(p)

RefineReadHistory(p) ==
  /\ calls[p].at \in {"refine:reads", "refine:history"}
  /\ calls' = [calls EXCEPT
       ![p].at = IF @ = "refine:reads" THEN "refine:skill"
                   ELSE AfterReads(calls[p].version, Numbers(snapshots)),
       ![p].rows = IF At(p, "refine:reads") THEN Numbers(snapshots) ELSE {}]
  /\ Reads(p)

RefinePresave(p) == At(p, "refine:presave") /\ SaveSnapshot(p, Goto(p, "refine:model"))

RefineModel(p) ==
  /\ At(p, "refine:model")
  /\ Goto(p, "bump:expect") \/ Return(p)
  /\ Reads(p)

BumpExpect(p) == Expect(p, "bump:expect", "bump:write")

\* The text a bump was derived from: what refineSkill read before it asked the
\* model; approveOptimization stores a draft of the client's.
BaseOf(p) == IF calls[p].op = "approve" THEN 0 ELSE calls[p].content

BumpWriteUnchecked(p) ==  \* mutant: result.affected is not looked at
  /\ At(p, "bump:write")
  /\ Live
  /\ IF Matches(p) THEN Write(skill.version + 1, BaseOf(p))
                   ELSE UNCHANGED <<skill, contents>>
  /\ calls' = [calls EXCEPT ![p].at = "snapshot",
                 ![p].version = skill'.version, ![p].content = skill'.content]
  /\ UNCHANGED <<tables, ghosts>>

BumpWrite(p) ==
  /\ At(p, "bump:write")
  /\ IF Matches(p)
       THEN /\ Write(skill.version + 1, BaseOf(p))
            /\ calls' = [calls EXCEPT ![p].at = "snapshot",
                 ![p].version = skill.version + 1, ![p].content = Len(contents')]
       ELSE Return(p) /\ UNCHANGED <<skill, contents>>  \* ConflictException
  /\ UNCHANGED <<tables, ghosts>>

\* Then the prompt (refine), or the diagram in the background (approve).
AfterSnapshot(p) ==
  IF calls[p].op = "refine" THEN Goto(p, "session:read")
  ELSE IF "redraw" \in Ops THEN Goto(p, "diagram:skill")
  ELSE Return(p)

SnapshotNew(p) == At(p, "snapshot") /\ SaveSnapshot(p, AfterSnapshot(p))

-----------------------------------------------------------------------------
(* approveOptimization and getVersionHistory: both first file a snapshot   *)
(* of the current version when there is none.                              *)

ApproveStart(p) ==  \* findMetadataById
  /\ Live
  /\ Room
  /\ Starts(p, "approve",
       [NewCall("approve", "heal:list") EXCEPT !.version = skill.version])

HistoryStart(p) ==
  /\ Live
  /\ Starts(p, "history",
       [NewCall("history", "heal:list") EXCEPT !.version = skill.version])

AfterHeal(p) ==
  IF calls[p].op = "approve" THEN Goto(p, "bump:expect") ELSE Return(p)

HealList(p) ==
  /\ At(p, "heal:list")
  /\ IF calls[p].version \in Numbers(snapshots)
       THEN AfterHeal(p)
       ELSE Goto(p, "heal:full")
  /\ Reads(p)

\* Mutant: the text read now is filed under the version the check was about.
HealFullKeepsVersion(p) ==
  /\ At(p, "heal:full")
  /\ IF Live
       THEN calls' = [calls EXCEPT ![p].at = "heal:save", ![p].content = skill.content]
       ELSE AfterHeal(p)
  /\ Reads(p)

HealFull(p) ==
  /\ At(p, "heal:full")
  /\ IF Live
       THEN calls' = [calls EXCEPT ![p].at = "heal:save",
              ![p].version = skill.version, ![p].content = skill.content]
       ELSE AfterHeal(p)
  /\ Reads(p)

HealSave(p) == At(p, "heal:save") /\ SaveSnapshot(p, AfterHeal(p))

-----------------------------------------------------------------------------
(* PUT /skills/:id                                                         *)

EditStart(p) ==
  /\ Live
  /\ Room
  /\ Starts(p, "edit", NewCall("edit", "update:expect"))

\* A rename without a text rewrites the front matter of the text it reads.
RenameStart(p) ==
  /\ Live
  /\ Room
  /\ Starts(p, "rename",
       [NewCall("rename", "update:expect") EXCEPT !.content = skill.content])

UpdateExpect(p) == Expect(p, "update:expect", "update:write")

UpdateWrite(p) ==
  /\ At(p, "update:write")
  /\ IF Matches(p)
       THEN Write(skill.version, calls[p].content)
       ELSE UNCHANGED <<skill, contents>>
  /\ Return(p)
  /\ UNCHANGED <<tables, ghosts>>

-----------------------------------------------------------------------------
(* saveUserPrompt: appendWithEviction, one transaction.                    *)

Newest(S) == IF S = {} THEN 0 ELSE CHOOSE n \in S : \A m \in S : m <= n

EvictedTooFew(S) ==  \* mutant: no room is made for the new message
  {n \in S : Cardinality({m \in S : m >= n}) > MaxMessages}
\* The oldest rows, so that with the new message MaxMessages remain.
Evicted(S) == {n \in S : Cardinality({m \in S : m >= n}) >= MaxMessages}

\* A statement on the session fixes the rows it is about when it starts,
FixesRows(p, step, nextStep) ==
  /\ At(p, step)
  /\ calls' = [calls EXCEPT ![p].at = nextStep, ![p].rows = Numbers(session)]
  /\ raced' = (raced \/ \E q \in Procs \ {p} : calls[q].at \in
                          {"session:lock", "session:append", "delete:messages"})
  /\ UNCHANGED <<skill, contents, tables, orphaned>>

\* SELECT ... FOR UPDATE:
SessionRead(p) == FixesRows(p, "session:read", "session:lock")

LockedByOthers(p) ==
  UNION {calls[q].rows : q \in {r \in Procs \ {p} : At(r, "session:append")}}

\* waits for each of them, and drops those deleted meanwhile; rows inserted
\* meanwhile it never sees.
SessionLock(p) ==
  /\ At(p, "session:lock")
  /\ calls[p].rows \cap LockedByOthers(p) = {}
  /\ calls' = [calls EXCEPT ![p].at = "session:append",
                            ![p].rows = @ \cap Numbers(session)]
  /\ Reads(p)

\* The eviction, the insert and the commit.  A row that has the new sequence
\* number already is overwritten, or fails the insert when it was committed
\* after TypeORM's look for it; every failure is logged and swallowed.
SessionAppend(p) ==
  LET rows == calls[p].rows
      next == Newest(rows) + 1 IN
  /\ At(p, "session:append")
  /\ next \notin LockedByOthers(p)
  /\ \/ /\ Live
        /\ session' = [n \in Positions |->
             IF n = next THEN calls[p].content
             ELSE IF n \in Evicted(rows) THEN 0 ELSE session[n]]
     \/ /\ ~Live \/ session[next] # 0
        /\ UNCHANGED session
  /\ Return(p)
  /\ UNCHANGED <<skill, contents, snapshots, diagrams, ghosts>>

-----------------------------------------------------------------------------
(* generateDiagram: asked for by the owner for a version (0: the current   *)
(* one), or started when a create or an approval has answered.             *)

DrawStart(p) ==
  \E op \in {"draw", "redraw"}, v \in DrawVersions :
    /\ Live
    /\ Starts(p, op, [NewCall(op, "diagram:skill") EXCEPT !.version = v])

Forced(p) == calls[p].op \in {"redraw", "approve"}
AfterTarget(p) == IF Forced(p) THEN "diagram:model" ELSE "diagram:cached"

\* A background call draws the version that is current by now.
DiagramSkill(p) ==
  /\ At(p, "diagram:skill")
  /\ IF ~Live THEN Return(p)
     ELSE IF calls[p].op \in {"draw", "redraw"}
               /\ calls[p].version \notin {0, skill.version}
       THEN Goto(p, "diagram:snapshot")
       ELSE calls' = [calls EXCEPT ![p].at = AfterTarget(p),
              ![p].version = skill.version, ![p].content = skill.content]
  /\ Reads(p)

DiagramSnapshot(p) ==
  /\ At(p, "diagram:snapshot")
  /\ LET c == snapshots[calls[p].version] IN
     IF c = 0
       THEN Return(p)  \* 404
       ELSE calls' = [calls EXCEPT ![p].at = AfterTarget(p), ![p].content = c]
  /\ Reads(p)

\* diagramInflight: unforced calls for a version share one promise.
Drawing(v) == {q \in Procs : /\ calls[q].at \in {"diagram:model", "diagram:save"}
                             /\ ~Forced(q) /\ calls[q].version = v}

\* The cached diagram, or the promise in flight, answers the call.
DiagramCached(p) ==
  /\ At(p, "diagram:cached")
  /\ IF diagrams[calls[p].version] # 0 \/ Drawing(calls[p].version) # {}
       THEN Return(p)
       ELSE Goto(p, "diagram:model")
  /\ Reads(p)

DiagramModel(p) ==
  /\ At(p, "diagram:model")
  /\ Goto(p, "diagram:save") \/ Return(p)
  /\ Reads(p)

DiagramSave(p) ==
  /\ At(p, "diagram:save")
  /\ diagrams' = IF Live THEN [diagrams EXCEPT ![calls[p].version] = calls[p].content]
                         ELSE diagrams
  /\ Return(p)
  /\ UNCHANGED <<skill, contents, snapshots, session, ghosts>>

-----------------------------------------------------------------------------
(* delete: the clean-ups, each of which may fail and is then only logged,  *)
(* and the row.  The checks of the marketplace come first, and refuse; the *)
(* clean-ups of the evals are steps of EvalRuns, and leave this module's   *)
(* state alone.                                                            *)

DeleteStart(p) ==  \* SkillOwnerGuard
  /\ Live
  /\ Starts(p, "delete", NewCall("delete", "delete:session"))

\* deleteSession: a DELETE of the rows there are when it starts,
DeleteSession(p) == FixesRows(p, "delete:session", "delete:messages")

\* which waits for those an append has locked.
DeleteMessages(p) ==
  /\ At(p, "delete:messages")
  /\ \/ /\ calls[p].rows \cap LockedByOthers(p) = {}
        /\ session' = [n \in Positions |->
                         IF n \in calls[p].rows THEN 0 ELSE session[n]]
     \/ Faults /\ UNCHANGED session
  /\ calls' = [calls EXCEPT ![p].at = "delete:row", ![p].rows = {}]
  /\ UNCHANGED <<skill, contents, snapshots, diagrams, ghosts>>

NoRows == [n \in 1..MaxContents |-> 0]

\* The row, and by ON DELETE CASCADE what is filed under it,
DeleteSkill(p) ==
  /\ At(p, "delete:row")
  /\ Live
  /\ LockedByOthers(p) = {}
  /\ skill' = [state |-> "deleted", version |-> 0, content |-> 0]
  /\ snapshots' = NoRows /\ diagrams' = NoRows /\ session' = NoRows
  /\ Return(p)
  /\ UNCHANGED <<contents, ghosts>>

\* unless a listing or a removal request refers to it: the DELETE fails, and the
\* clean-ups stay done.  Or it is gone already.
DeleteRefused(p) == At(p, "delete:row") /\ Return(p) /\ Reads(p)

\* The process dies between two awaits; a session transaction rolls back.
Abort(p) ==
  /\ Faults
  /\ calls[p] # Idle
  /\ Return(p)
  /\ orphaned' = IF At(p, "snapshot") THEN orphaned \cup {calls[p].version}
                                      ELSE orphaned
  /\ UNCHANGED <<skill, contents, tables, raced>>

-----------------------------------------------------------------------------
Init ==
  /\ \/ /\ "none" \in InitialStates
        /\ skill = [state |-> "none", version |-> 0, content |-> 0]
        /\ contents = <<>>
        /\ snapshots = NoRows
     \/ /\ skill = [state |-> "live", version |-> 1, content |-> 1]
        /\ contents = <<[version |-> 1, base |-> 0]>>
        /\ \/ "live" \in InitialStates /\ snapshots = [NoRows EXCEPT ![1] = 1]
           \/ "legacy" \in InitialStates /\ snapshots = NoRows
  /\ diagrams = NoRows
  /\ session = NoRows
  /\ calls = [p \in Procs |-> Idle]
  /\ orphaned = {}
  /\ raced = FALSE

Begin(p) ==
  \/ GenerateStart(p) \/ CreateStart(p) \/ RefineStart(p) \/ ApproveStart(p)
  \/ HistoryStart(p) \/ EditStart(p) \/ RenameStart(p) \/ DrawStart(p)
  \/ DeleteStart(p)

Continue(p) ==
  \/ GenerateCheck(p) \/ GenerateModel(p) \/ GenerateCreate(p) \/ CreateInsert(p)
  \/ RefineReadSkill(p) \/ RefineReadHistory(p) \/ RefinePresave(p)
  \/ RefineModel(p) \/ BumpExpect(p) \/ BumpWrite(p) \/ SnapshotNew(p)
  \/ HealList(p) \/ HealFull(p) \/ HealSave(p)
  \/ UpdateExpect(p) \/ UpdateWrite(p)
  \/ SessionRead(p) \/ SessionLock(p) \/ SessionAppend(p)
  \/ DiagramSkill(p) \/ DiagramSnapshot(p) \/ DiagramCached(p)
  \/ DiagramModel(p) \/ DiagramSave(p)

\* The steps of a delete.
Deletes(p) ==
  \/ DeleteSession(p) \/ DeleteMessages(p) \/ DeleteSkill(p) \/ DeleteRefused(p)

SkillNext ==
  \E p \in Procs : Begin(p) \/ Continue(p) \/ Deletes(p) \/ Abort(p)

SkillSpec == Init /\ [][SkillNext]_svVars

-----------------------------------------------------------------------------
(* Properties.                                                             *)

\* The rows and the calls hold values of their types.
SkillTypeOK ==
  /\ skill \in [state : {"none", "live", "deleted"}, version : 0..MaxContents,
                content : 0..MaxContents]
  /\ contents \in Seq([version : Versions, base : 0..MaxContents])
  /\ Len(contents) <= MaxContents
  /\ snapshots \in [Versions -> 0..MaxContents]
  /\ diagrams \in [Versions -> 0..MaxContents]
  /\ session \in [Positions -> 0..MaxContents]
  /\ calls \in [Procs -> Call]
  /\ orphaned \subseteq Versions
  /\ raced \in BOOLEAN

Settled == \A p \in Procs : calls[p] = Idle

\* Whatever calls overlapped, a snapshot or a diagram filed under a version
\* shows a text the skill had at that version (generation.service.ts:234,
\* skills.service.ts:331, generation.service.ts:505).
FiledUnderItsVersion ==
  \A v \in Versions :
    /\ snapshots[v] # 0 => contents[snapshots[v]].version = v
    /\ diagrams[v] # 0 => contents[diagrams[v]].version = v

\* With no call running every version of the skill has its snapshot, but for
\* the first of an old skill that nothing has touched and those whose writer
\* died before it saved one ("snapshots are saved both before and after the
\* change", generation.service.ts:168).
HistoryComplete ==
  Settled /\ Live =>
    \A v \in 1..skill.version :
      snapshots[v] # 0 \/ v \in orphaned \/ skill.version = 1

\* One generation runs for the owner's name, and one unforced diagram of a
\* version is drawn, at a time.
OneCallPerKey ==
  \A p, q \in Procs : p # q =>
    /\ ~(/\ calls[p].at \in {"generate:check", "generate:model", "generate:create"}
         /\ calls[q].at \in {"generate:check", "generate:model", "generate:create"})
    /\ ~(/\ At(p, "diagram:model") /\ At(q, "diagram:model")
         /\ calls[p].version = calls[q].version
         /\ ~Forced(p) /\ ~Forced(q))

\* A caller that joined a generation is waiting for one that still runs, so it
\* is answered when that one ends, however it ends.
JoinersHaveAPromise ==
  (\E p \in Procs : At(p, "generate:join")) => Inflight # {}

\* Duplicate clicks are coalesced and answered (generation.service.ts:68, 469).
OneModelCall == OneCallPerKey /\ JoinersHaveAPromise

\* While appends overlap neither each other nor the clearing of the session by
\* a delete, the session holds its newest MaxMessages prompts and nothing else
\* (session.service.ts:12), also after a delete that was refused.
SessionKeepsNewest ==
  ~raced => Numbers(session) =
              {n \in 1..Newest(Numbers(session)) :
                 n + MaxMessages > Newest(Numbers(session))}

\* A generation, refinement or approval that has got past its write is answered
\* with the text it wrote, and so is the prompt in the session: no two of them
\* claim one text, however they overlapped.  The one that lost the race for the
\* version throws (skill.repository.ts:125, 163).
Authors == {p \in Procs : calls[p].at \in
              {"snapshot", "session:read", "session:lock", "session:append"}}

AnswersAreOwn ==
  /\ \A p, q \in Authors : calls[p].content = calls[q].content => p = q
  /\ \A m, n \in Numbers(session) : session[m] = session[n] => m = n
  /\ \A p \in Authors : \A n \in Numbers(session) : session[n] # calls[p].content

\* No refinement is lost: a text derived from another replaces that other
\* ("eliminates the race condition ... losing one update",
\* generation.service.ts:222-224).
NoUpdateLost ==
  [][Len(contents') > Len(contents) =>
       contents'[Len(contents')].base \in {0, skill.content}]_svVars
=============================================================================
