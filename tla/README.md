# SkillSpell: formal models and proofs

SkillSpell is a NestJS backend (`src/packages/backend`) over Postgres and Redis, a
React frontend, a CLI and a shared package. Users write *skills* with the help of a
language model, evaluate and optimise them, and publish them in their
organisation's marketplace. The backend runs as several pods behind a load
balancer, so a user's requests meet each other, other users' requests, and pods
that come and go.

This directory models the parts where that matters, model-checks them with TLC and
proves the central properties with TLAPS.

| module | what it is | instances |
| --- | --- | --- |
| `Marketplace` | review, listing, removal and deletion of one skill under overlapping requests | `MCMarketplace`, `Marketplace*.cfg` |
| `MarketplaceProofs` | all safety properties of its passing runs | |
| `StreamGateway` | sockets, long-running requests, cancel, grace period, drain | `MCStreamGateway`, `StreamGateway.cfg` |
| `StreamGatewayProofs` | all safety properties of the run `gateway_sockets` | |
| `SkillVersions` | one skill's text, versions, snapshots, diagrams and session | `MCSkillVersions`, `SkillVersions*.cfg` |
| `SkillVersionsProofs` | type correctness and all properties of the run `skill_versions` | |
| `EvalRuns` | eval batches, shared executions and benchmarks, composed with `SkillVersions` | `MCEvalRuns`, `EvalRuns.cfg` |
| `EvalRunsProofs` | all properties of the run `eval_runs`; that it implements `SkillVersions` | |
| `BestDraft` | what the optimizer promises (abstract) | |
| `OptimizationLoop` | one run of the optimizer, shown to implement `BestDraft` | `MCOptimizationLoop`, `OptimizationLoop.cfg` |
| `OptimizationLoopProofs` | the refinement of `BestDraft` and all safety properties of the run `optimization` | |
| `Accounts` | first-run setup, invitations and the creation of accounts | `MCAccounts`, `Accounts.cfg` |
| `AccountsProofs` | type correctness, one account per invitation, no link that was not mailed | |
| `StreamClient` | the browser's end of the streaming connection | (with the page) |
| `OptimizerPage` | the optimizer's page over `StreamClient` | `MCOptimizerPage`, `OptimizerPage*.cfg` |
| `StreamClientProofs` | what every step of the connection keeps | |
| `OptimizerPageProofs` | all five properties of the run `optimizer_page` | |

Paths below are relative to `src/packages/` unless they start with `src/`.

## 1. Inventory

### The parts, their state and what makes them correct

**Marketplace review and removal** (`backend/src/marketplace`, repositories and
migrations under `storage/postgres/src`). *State*: `marketplace_submissions` (one
row per version sent in), `marketplace_listings` (one row per skill, never
deleted), `marketplace_removal_requests`, and `skills.status`. *Operations*:
submit, approve, reject, removeVersion, requestRemoval, approveRemoval,
rejectRemoval, removeFromMarketplace. *Interaction*: shared rows only; four of the
operations are transactions of several statements, the others are sequences of
separate writes. *Correct when* the listing shows a version that is approved and
readable, at most one removal request is pending, an approved removal really took
place, and no order of locks lets two admins block each other.

**Skill records and version snapshots** (`backend/src/skills`,
`skill.repository.ts`). *State*: `skills`, `skill_versions`, `skill_diagrams`.
*Operations*: create, update, delete, refine, approveOptimization, version history
with self-healing, diagrams. *Correct when* what is filed under a version is of
that version, every version has a snapshot, a delete leaves nothing behind or
changes nothing, and a slow refinement does not silently overwrite an edit.

**Session history** (`backend/src/generation/session`). *State*: a bounded
sequence of prompts per skill. *Correct when* it holds the newest ones.

**Streaming gateway** (`backend/src/streaming`). *State*: per socket a map of abort
controllers, per pod a draining flag, in Redis the per-user rooms. *Operations*:
connect, disconnect, six long operations (generate, refine, optimize-draft,
run-evals, generate-evals, optimize-skill), cancel, shutdown. *Interaction*: calls
the generation, eval and optimisation services with an abort signal, and publishes
their events to the user's room across pods. *Correct when* all work stays
stoppable, nothing is stopped without a reason, and nobody waits for an answer
that cannot come.

**The browser's streaming connection** (`frontend/src/utils/streamingSocket.ts`,
`hooks/useAuth.tsx`). *State*: one socket and one promise of a socket per tab, and
what the callers have hung on them. *Operations*: connect, close, emitStream,
reconnection, token refresh, logout. *Correct when* there is one connection, every
caller that listens can be answered, and no promise is shared that cannot settle.

**The optimizer's page** (`hooks/useSkillContentOptimizer.ts`,
`components/optimizer`). *State*: the step it shows, an abort controller, the
result, the gap fix in progress. *Correct when* Cancel reaches the run that is
shown, and a cancelled run stays silent.

**Eval execution and benchmarks** (`backend/src/eval`). *State*: eval cases and
runs, benchmark snapshots, an in-memory map of executions in flight. *Correct
when* runs carry the version they executed, the stored benchmark is that of the
runs that exist, and requests that share an execution all get its answer.

**Optimisation loop** (`backend/src/eval/optimization`). *State*: current and best
draft, iterations, drafts in Redis. *Correct when* the draft offered is the best
one seen, the loop ends, answers and cleans up.

**Setup, invitations and accounts** (`backend/src/auth/auth.service.ts`,
`backend/src/users`). *State*: organizations, users, credentials, the setup row,
invite rows with a consumed flag. *Correct when* a setup that died can be
finished, one invitation yields at most one account, and no link is stored that
nobody was sent.

**Tokens, sessions and login** (`backend/src/auth`). *State*: refresh-token rows,
lockout counters, CLI codes in Redis, personal access tokens. *Correct when* a
used or revoked token family is dead and a one-time code works once.

**Upvotes, favourites, downloads** (`marketplace.service.ts`). *State*: upvote
rows and a cached count. *Correct when* the cache ends equal to the count.

The others keep no state of interest for interleavings: prompts, grading, LLM
transports, SSO strategies, organisation settings, email, analytics, categories,
export, public API, SSE endpoints, guards, the other frontend views, the CLI.
`PROJECT.json` lists each with its reason.

### Hard behaviours

There are few in-process data structures and many awaits. What goes wrong, when
something does, is (1) a row read in one await and acted on several awaits later;
(2) several writes that are not one transaction, with a crash or another request
between them; (3) row locks taken in different orders; (4) a disconnect, a cancel,
a completion and a SIGTERM that arrive in any order; (5) an answer used after an
await that made it stale. `PROJECT.json` lists each place with the line it is at
and the properties that cover it.

## 2. Plan

Done, in this order: `Marketplace`, the product's one multi-party workflow, where
several tables must agree; `StreamGateway`, the in-memory concurrency of the
backend; `SkillVersions` and, over it, `EvalRuns`, the writes that take minutes
between their read and their write; `OptimizationLoop` against the abstract
`BestDraft`; `Accounts`; `StreamClient` and `OptimizerPage`, the other end of the
gateway's connection. Of each, the type invariant and the properties of section 1
are checked; what is proved is in section 6.

`EvalRuns` EXTENDS `SkillVersions` and runs beside it: a deletion takes the rows of
both, and versions move under running batches. `OptimizerPage` EXTENDS
`StreamClient` and is one of its callers. `StreamClient` has the gateway as far as
one tab can tell; `StreamGateway` has its inside.

Every safety and action property of a passing run, and the refinement, is proved
(section 6). Worth doing next: the safety half of the liveness properties, which the
prover could do - a measure that each step of a run, a call or a setup makes smaller,
so that TLC's fairness has only to say that steps are taken; and, in the models,
`updateEvalCase` and the refusal branch of the browser's connection.

Left out on purpose: refresh tokens, CLI codes and the lockout counter (unguarded
reads followed by writes, of which no text promises more than a sequential reader
sees), upvotes, and everything in section 8.

## 3. Marketplace

### State and actions

One skill. Every row the handlers touch is keyed by one skill id, so handlers of
different skills do not meet. `submissions`, `listing`, `requests`, `skill`,
`version`, `snapshots` are the tables; `evalData` stands for the child tables that
`delete` empties. A process of `Procs` serves one request at a time; `calls[p]`
says at which await it is and what it has read; `held[p]` is the set of row locks
of its open transaction.

Every await that touches the database is an action, named for the handler and the
statement: `ApproveCheck`, `ApproveSnapshot`, `ApproveSubmission`,
`ApproveListing`, `ApproveCommit`. Reads that follow each other and whose results
no other handler can disturb in a way the properties tell apart are merged into
one action. A transaction runs as Postgres runs it at READ COMMITTED: a statement
is enabled when no other open transaction holds a row it needs, takes the locks,
and the writes appear at the commit (deferred writes are equivalent here, because
no statement of these transactions reads what an earlier one wrote).
`removeApprovedVersionTx` is shared by removeVersion and approveRemoval and is
modelled once, as `Drop*`. Partial unique index and foreign keys are the
conditions under which a statement fails. `Abort` is a crashed process or a
failing query between two awaits, and also the ConflictException of
`skillRepo.update`.

Abstractions to know of:

- `DELETE FROM skills` with its cascades and foreign-key tests is one statement
  that waits for every row lock it needs. In Postgres it takes them one after the
  other and could meet an approval's foreign-key lock in the opposite order; the
  server then aborts one of the two, which `Abort` covers as an outcome.
- Organisation membership and roles have been verified before a handler starts;
  the one guard with a choice in it, assertNotSelfApproval, is `MayReview`.
- Titles, reasons, actors and timestamps are left out; the order of submission ids
  is the order of `submittedAt`.
- The version bump and snapshot steps of approveOptimization are there for what
  they do to snapshots; content is the business of `SkillVersions`.

### Runs

| run | instance | shows |
| --- | --- | --- |
| `market_serial` | 1 process, all handlers, 3 submissions, 2 versions, 2 requests | `CatalogConsistent`: live listing iff some version approved, and it shows the newest |
| `market_races` | 2 processes, faults, `ReviewOps`, 2 submissions, 2 versions, 1 request | `ListedVersionReadable`, `DeletedLeavesNothing`, `NoLockCycle`, `OnlyReviewedIsListed`, `TypeOK` |
| `market_requests` | 2 processes, no faults, `RemovalOps`, 1 submission, 2 requests, fairness | `OnePendingRequest`, `CallsReturn` |
| `market_remove_race` | 2 processes: submit, approve, removeFromMarketplace | violation, see section 7 |

`ReviewOps` is delete and the marketplace's handlers without
`removeFromMarketplace`, whose awaits hold no lock together; `RemovalOps` takes it in
and leaves out delete and reject (`MCMarketplace`).

*Why the bounds are enough.* Two processes: every hazard of section 1 is a pair of
handlers, and every lock cycle here can be closed by two transactions because all
of them lock the same single listing and skill row. Three submissions in the
sequential run are the least with which "the newest of the remaining" differs
from both "the newest" and "the oldest". Two versions separate a snapshot that
exists from one that does not. `MaxVersion`, `MaxSubs` and `MaxReqs` bound rows ever
created; a bound reached is an operation not taken (an update that fails, for
`MaxVersion`). Processes are interchangeable, so `market_races` uses symmetry, which
is sound there: no liveness property in it.

`CatalogConsistent` is claimed only when handlers do not overlap. With overlap it
does not hold (an approval and a rejection of the same submission are
last-writer-wins), and no text of the repository says it should; `PROJECT.json`
lists this as a hazard without a property. What overlap can and cannot do to the
choice of the next version is `OnlyReviewedIsListed`: removeVersion and approveRemoval
read `remaining` before their transaction ("read-only, outside tx is fine", `:217`), so
the listing may come to show a submission that another admin has removed or rejected by
then, but never one that nobody has reviewed. That an approved removal took its version
down is no property: status and takedown are written by one transaction, and a formula
about it would only restate the commit. `DeletedLeavesNothing` speaks of a
deletion that succeeds: no row of the skill is left, its eval data included.

*Fairness.* Only `CallsReturn` needs any: strong fairness of `Continue(p)`. Node
resumes every handler whose await has an answer, and Postgres queues the waiters
of a row, so a call that is enabled again and again is eventually served. A call
that nobody has to start is not assumed to start.

*Deadlock* is not looked for by TLC in these runs: a finite number of rows may be
used up, and the skill may be deleted. Waiting on locks is covered by
`NoLockCycle` and `CallsReturn` instead.

### Proofs (`MarketplaceProofs`)

For any number of processes, submissions, versions and requests, crashes included,
from `ConstantsAssumption` alone: `TypeCorrect`, `OnePendingRequestHolds`,
`LocksAreExclusive`, `NoLockCycleHolds`, `ListedVersionReadableHolds`,
`DeletedLeavesNothingHolds` and `OnlyReviewedIsListedHolds`.

*One pending request.* `OnePendingRequest` is not inductive: an insert has evaluated
the unique index in one step and becomes visible at its commit, in a later step. The
invariant that is, `RequestInv`, adds `LockExclusion` (two transactions never hold one
row) and `InsertClaims` (a call between its insert and its commit holds the index key,
and while someone holds the key nothing is pending). A request becomes pending only
at such a commit; the key was held, so no other was pending, and it is released in
the same step. There is one lemma for the type of each group of actions, then one for
what each action does to the locks and to the pending set (`OthersKeep` says a step of
one process leaves the others' calls and locks alone).

*No lock cycle.* `LocksInOrder` says, of every await, which rows may be held there:
each transaction takes its submissions or the index key first, then the listing, then
the skill, and a request's row only together with its commit. In a set of calls that
wait for one another, one that holds the latest row in that order would wait for
nobody, so there is no such set.

*What is listed can be read; a deleted skill leaves nothing.* `CatalogInv` adds
`CallsKnow`: what a call has in its hand at an await - the submission to approve or
remove, the next to list, the target of a request - was inserted, and its version
has a snapshot, unless the skill is gone; and what follows from it for the rows
(`ListingKnown`, `ApprovedHaveSnapshots`, `BlankRequests`). It is stable under every
other request because of `TablesKeep`: rows keep the columns others refer to until the
deletion of the skill takes all of them at once, and then the writes of the calls that
are half way fail or find no row. `OnlyReviewedIsListed` needs in addition that what a
removal holds as its next version was approved when it was read (`ListsReviewed`), and
that no step takes a submission back to an unreviewed state.

*The catalog* (`CatalogConsistentHolds`) is proved of `Alone /\ Spec`, where `Alone` is
one process and no faults, because only there does it hold (see above); the run is such
an instance. The numbers of rows are arbitrary. `SoloInv` says what a single sequence
of handlers may rely on: submissions are inserted in the order of their ids, one that
awaits its review is the newest, and what a call has read is still so when it writes
(`SoloKnows`); the listing is as it should be at every await but one, between the bulk
UPDATE of removeFromMarketplace and the UPDATE of the listing.

## 4. StreamGateway

### State and actions

One user: rooms, presence and controllers are per user. `conn` and `pod` say what a
socket id is and where; a reconnection is a new socket id. `active[s]` is
`client.data.activeRequests`, the map whose *presence in the right place* is what
the module is about; `aborted` the controllers that have fired; `op[r]` where r's
handler is; `told[r]` the terminal events sent for it; `grace[s]` the disconnect
timer (`timer`) and the answer "nobody there" that is used after an await
(`absent`). `stopping` and `draining` are the two ends of NestJS's shutdown: destroy
hooks first (the optimiser aborts its loops), `onApplicationShutdown` of the gateway
last, with awaits in between in which handlers go on.

The six operations share one skeleton (guard, drain test, register, work, one
terminal event, `finally`), which is `Drop`, `Reject`, `Start`, `Complete`, `Fail`.
optimize-skill differs: it also registers with the optimiser (`EnterLoop`) and
awaits the clean-up of its drafts between its terminal event and its `finally`
(state `cleanup`), so a cancel or a drain can still meet it there. What the services
do with an abort signal is left open: an aborted operation may still complete.

NestJS closes the socket server between the destroy hooks and
`onApplicationShutdown`, depending on version and adapter; the model covers both
orders, since a socket may be disconnected at any time. Event delivery through
Redis, payload validation and progress events are not modelled. A refused
authentication is a `Disconnect` before the socket was open.

### Runs

`gateway_sockets`: two pods of which one may stop or crash (`Stoppable`), two
sockets, one optimize-skill and one other request.

- `ControllersTracked`: unaborted work is always in its own socket's map, and a map
  holds only live work - so cancel, grace timer and drain can all reach it.
- `AbortHasCause`: work is aborted only on a cancel, after its own socket is gone or
  on a stopping pod; another socket's drop never takes it along.
- `DrainedIsToldAndAborted`: on a draining pod a connected client has nothing running
  that it was not told to retry, also when its authentication ends after the drain.
- `NoErrorAfterInterrupt`: the error that the shutdown's own abort provokes is not
  reported after the retryable event.
- `AbandonedStops`: work held for the grace period is kept because the user came
  back, or is aborted, lost or over - also when the presence check throws.
- `TypeOK`, in particular every terminal event is one the client's listener knows.

*Why the bounds are enough.* Interference is between a socket and its successor, a
request and another of the same user, and a pod that stops and one that does not;
two of each are all the roles there are. A second stopping pod repeats the first.
TLC's deadlock search is off because sockets and requests are used once.

*Fairness.* Weak fairness of `CheckPresence` and `AbortGone` only: a Node timer fires
and a presence check is answered or times out in the Redis adapter. No model
answer, user action or pod event is assumed to happen.

### Proofs (`StreamGatewayProofs`)

For any number of pods, sockets and requests: `GatewayTypeCorrect`,
`ControllersTrackedHolds`, `AbortHasCauseHolds`, `DrainedHolds`,
`NoErrorAfterInterruptHolds`. One inductive invariant, `Tracking`, serves them all. It
adds to the properties: `SentOnASocket` (a request that was sent has a socket that
has been connected; only such a request is aborted), `TimerAfterClose` (a grace
timer belongs to a closed socket and a non-empty map to an authenticated one, so a
socket that authenticates on a draining pod has nothing running) and
`InterruptedIsOver` (what was told to retry was aborted or never started).
`NoErrorAfterInterrupt` is an action property: the only step that tells an error is
`Fail` of work that is not aborted, which by `InterruptedIsOver` was not told to
retry. The proofs assume `GatewayAssumption` only.

## 5. The other modules

### SkillVersions

One skill. `skill` is its row, `snapshots`, `diagrams` and `session` what is filed
under its versions, `calls[p]` the request process `p` serves, as in `Marketplace`.
A text is abstracted to the order in which it was written: `contents[c]` remembers
the version the c-th text was written under and the text it was derived from,
which is all the properties need to tell a stale write from a fresh one.
`generateInflight` and `diagramInflight` are derived from the calls that stand
between their entry and their removal (`Inflight`, `Drawing`); one pod is modelled,
because the maps are per process.

The conditional UPDATE of `update` and `updateAndIncrementVersion` is `Matches`,
with the version that `Expect` reads in the writing transaction, not when the
handler began. `SELECT ... FOR UPDATE` of appendWithEviction is two steps: the rows
it will return are fixed when it starts (`SessionRead`), and it then waits for their
locks (`SessionLock`). A snapshot is saved by TypeORM's look for the row and an insert or
update: the insert fails on the key when another request has filed it in between, and
the handler throws (`SaveSnapshot`). A deletion is its awaits: the rows of the session,
which it fixes and then waits for as an append does (`DeleteSession`, `DeleteMessages`),
each clean-up possibly failing and then only logged, and the row with its cascades
(`DeleteSkill`), or the refusal of that DELETE after the clean-ups (`DeleteRefused`). The
clean-ups of the evals are in `EvalRuns`. `Abort` is a process that dies between two
awaits.

`skill_versions`: two processes, every operation, three texts, `MaxMessages` = 2,
with a skill that is absent, present, or older than the snapshots.

- `FiledUnderItsVersion`: a snapshot or diagram filed under a version shows a text of
  that version, though both are written several awaits after the text was read.
- `HistoryComplete`: no version loses its snapshot, but by a crash between the two
  writes.
- `OneModelCall`: double clicks share one call, and whoever joined one is answered.
- `SessionKeepsNewest`: appends that overlap neither each other nor the clearing of a
  delete keep the newest prompts, also after a delete that was refused.
- `AnswersAreOwn`: of two requests that write over one version, each one that goes on
  to file, answer and log its prompt does so with the text it wrote. That rests on the
  test of `result.affected`: without it the loser would read the winner's row back.

That the version never moves back is no property of the run: a write keeps the version
or adds one by its own statement. Nor is it said that an old text never returns: a
rename writes back the text it read before its write (`skills.service.ts:230-239`).

`skill_refine` is a violation, see section 7. *Bounds*: every hazard is a pair of
requests; three texts are the skill as it was and one of each request, or two by one
request after another; two messages are the least with which evicting the oldest
differs from evicting all; diagrams are asked for of the versions in `DrawVersions`. A
request that would need a fourth text is not begun (`Room`). *Deadlock* is not looked for: texts may be used up.

### EvalRuns

EXTENDS `SkillVersions` with the eval tables. `jobs[e]` is a request on the evals;
an *execution* is a call of doExecuteAndGrade and not part of its request: it is in
`executions` from its start to its end, which is also its entry in `evalInflight`,
and `jobs[e].waits` are the promises `Promise.all` waits for. `Resolve` and `Reject`
give the answer to every request that holds the promise. Execution and grading by
the model are one step with an arbitrary outcome; storing the run is a step of its
own, whose foreign key fails when the case is gone, and a failed run is stored
instead. A benchmark is the set of runs it was computed from. The delete of the skill
cleans up runs, cases and benchmarks one await after the other (`CleanRuns`,
`CleanCases`, `CleanBenchmarks`), each of which may fail, before the session and the row
of `SkillVersions`; requests on the evals go on in between, and a delete that is refused
or dies leaves the skill with what is left.

`eval_runs`: one process that approves a new version or deletes the skill (`MaxCalls`),
two requests on the evals, batches of two, one case repeated twice. Of the two ways to
run a batch, the one whose client cannot cancel is left out (`StreamedEvalOps`): its
steps are those of a stream that nobody cancels.

- `RunsLabelledTruthfully`: the version a run carries is that of the text executed.
- `OneExecutionPerKey`, `BatchIsComplete`: duplicates are shared, but repetitions of a
  case in a batch are not.
- `WaitersAreAnswered`: whoever waits, waits for an execution that still runs - also
  when the request that started it was cancelled, or failed in `Promise.all`.
- `BenchmarksExact`: a stored benchmark counts the runs that exist, while nothing has
  overlapped or failed since the start, or since the benchmarks were all deleted with
  nothing else running: an invalidation repairs what an overlap has left stale.
- `EvalTypeOK`.

*Bounds*: two requests share or do not share executions; two positions with
concurrency two make one batch of siblings, and with the next request's batch every
order of starting, answering and failing. Creations of cases take turns (the limit is
a read followed by an insert, and no text promises more). No fairness is needed: what
`WaitersAreAnswered` says is a state property, and nothing assumes the model answers.

### OptimizationLoop and BestDraft

`OptimizationLoop` is runLoop, one action per await; between two awaits everything
is one step. Scores are arbitrary at each evaluation, so a score is not a function of
the draft, which is what the regression guard is for. `drafts` and `index` are the
two kinds of keys of the Redis store, which is written in that order. `LoseKey` is
an expiry or eviction, `Crash` the pod's end; the hooks of a shutdown abort the
controller (`Shutdown`) without waiting for the loop. `err` is what the catch block has
caught: a cancellation - the loop's own message or an error named AbortError, whoever
threw it - or another failure. isCancellation takes both the aborted signal and the
error for one (`IsCancellation`), and such a run sends no terminal event.

`BestDraft` says what the run promises, with no iterations, guard or cache: each
trial builds on the best content so far, and the answer is the first of the best, or
nothing. `KeepsTheBest` is the refinement: test evaluations are the trials, and what
the cache yields at the end is the answer. It is a real question because the answer
is not taken from the loop's variables but from scores stored per iteration, among
them those of reverted drafts.

`optimization`: up to four iterations (a plateau needs three, and a regression guard
that has been used must be followed by another iteration), scores of 0 to 2, targets
1 and 2. Besides the refinement: `EarlyStopIsConfirmed`, `FeedbackIsUsed`,
`DraftsCleaned`, `EveryRunIsAnswered`, `OptTypeOK`. `EveryRunIsAnswered` says that a run
that was neither aborted nor ended by a cancellation error has sent its completion, and
one that failed its error, followed by another error if the clean-up failed; the
exception of the AbortError is in section 7. *Fairness*: weak fairness of the
loop's own steps - every await ends, since calls to model and cache return or fail;
cancel, shutdown, loss of keys and crash need not happen.

### Accounts

`orgs`, `users`, `credentials`, `admin` (the setup row) and `invites` are the tables;
`mailed` are the tokens that reached a mailbox. No handler has a transaction of its
own except consumeAndReplace (`Replace`), so each await is an action, and `Die` may
strike between any two. Constraints of the schema are the guards under which a write
fails (`UniqueEmailFails`).

`accounts`: two requests at a time, two addresses, two invitations, two faults.

- `OneAccountPerInvite`: accepted twice, resent or revoked meanwhile, an invitation
  opens one account, for its own address, and is spent by then.
- `LiveInvitesWereSent`: no stored link that no mail carried.
- `SetupCompletes`: some attempt completes setup, whatever died before.
- `AccountsTypeOK`: references resolve; a completed setup names a user who can log in.

*Fairness*: each request's awaits end, and the operator sends the setup form again
while setup is not complete - an assumption on the operator, not on the code; with
`MaxFaults` bounding the failures it says that a setup interrupted at any point can be
finished.

### StreamClient and OptimizerPage

`net` are the two module variables of `streamingSocket.ts`, every socket ever opened
and the server's room; `calls` the requests of this tab and what becomes of each at
the server (`work`), with `attached` for "its entry is in the map of a connection that
still stands". `emitStream` rejects on `disconnect` (kind `emit`); the optimizer's own
listener has no such handler (kind `run`). A caller that still waits for the socket when
a refresh or a logout disconnects it is `stuck`: its promise never settles. Work may also
end without an event (`silent`), as the optimizer's does after an AbortError. `Join` sets
the socket's map and puts it in the room in one step, although handleConnection awaits
the join: the Redis adapter's join is the in-memory one, done before that await yields,
so no request is taken up in between. What a callback does up to its next await is
one step, because JavaScript runs to completion; two effects of one socket event on
several callers are one step as well, since no other event comes between them.
`OptimizerPage` adds the hook: `controller` is `abortRef.current`, `fixes` the
executions of executeGapFix in progress - the plural is real, a cancelled one goes on.

`optimizer_page`: two sockets (one and its successor), three requests, of which other
dialogs make one at most (`MaxDialogs`), gaps of one or two, and every happening of
the connection. Two calls of a gap fix and the run that follows are three requests.

- `OneConnection`: one open or opening socket, known to the module, and no shared
  promise that cannot settle.
- `EmitsAreTold`: a caller of emitStream that listens does so on an open socket over
  which its answer still comes, and one that waits shares the promise of the socket
  being opened. Two callers may wait for ever and are outside the formula: one whose
  request was dropped before authentication, and one that is stuck (section 7).
- `SpinnerHasALiveRun`: the controller behind the step "running" is that of a run that
  has neither ended nor been aborted. A run that waits for its connection is sent even
  after Cancel, and one that is cut off or ends silently leaves the page in the step:
  both are in section 7.
- `CancelledStaysSilent`: a run cancelled after it was sent puts neither a result nor
  an iteration on the page.
- `PageTypeOK`.

`optimizer_refresh` is a violation, see section 7; its fairness is that a connection
is established in the end and that the server takes up and ends what it runs.

Left out: the branch of `connect_error` that refreshes the token and tries again,
which needs the server to refuse the handshake (this gateway accepts it and then
disconnects, `Refuse`); analyzeGaps and clearGapFix, which do not touch the
connection; progress events; leaving the page.

### The proofs of `SkillVersionsProofs`

Assumption: `ConstantsAssumption`; its `IsFiniteSet(Procs)` is there because the room
for texts is a count of requests (a backend serves finitely many at a time). The
theorems are of `SkillSpec`: `TypeCorrect`, `FiledUnderItsVersionHolds`,
`HistoryCompleteHolds`, `OneModelCallHolds`, `SessionKeepsNewestHolds`,
`AnswersAreOwnHolds`. `SkillInv` is:

- `SkillTypeOK`;
- `InOrder`: which handler can be at which await, one generation and one drawing of a
  diagram per version in flight, and a promise for whoever joined one. `Orderly` says
  what a step has to respect, and every action is shown to;
- `RoomKept`: the texts written and those the requests in progress may still write fit,
  so that a request that was begun is never stopped by the bound;
- `DataInv`: what is filed shows a text of its version, and what a call has in its hand
  is such a text too (`CallKnows`). It is stable because texts are only added and
  versions only grow (`Grows`); that is why a version read minutes ago may still be
  filed under. `HistoryFilling` says who still owes the snapshot of a version that has
  none, and so that nobody does when all requests have ended;
- `SessionInv`: while appends did not overlap (`~raced`), at most one is between its
  lock and its write, it has seen all rows, and the session is a window of the prompts
  of the last texts. Positions stay within their bound because each append still to
  come belongs to a text already written.

`AnswersAreOwnHolds` adds `Prompted` (a prompt is of a text already written, so the one
a step writes is new to the session) to `SkillInv`: only a write that matched the row
makes an author, of the text it appended (`OwnInv`).

### The proofs of `EvalRunsProofs`

Assumptions: `EvalAssumption` and `SkillVersions`' `ConstantsAssumption`. `EvalRuns`
runs beside `SkillVersions`, and the proofs do too: `EvalsKeepTheSkill` (`Spec =>
SkillSpec`) says that the evals do not disturb a skill's requests, so the theorems above
hold beside them, and `SkillInv` is a conjunct of `EvalInv` that needs no second proof.
The others are

- `EvalTypes`;
- `Control`: what holds of each request by itself (`Sound`), among it `Book`: of every
  position started, the request has the answer or waits for it, never both, and it has
  no other. `BatchIsComplete` follows because at the end nothing is waited for, and the
  results are then in one-to-one correspondence with the positions (`BookBalances`).
  What a request knows of the tables (`Knows`): each promise it waits for is of an
  execution in progress - that is `WaitersAreAnswered` -, and the text it executes is of
  the version it labels with, which is stable under the skill's steps by `Grows`. One
  execution per key, and an execution runs the text of its key's version;
- `RunsKnown`, `Gone`: runs show a text of their version; with the skill its rows go;
- `Tidy`: while `undisturbed`, one request is busy, the executions are
  its own, and at each of its awaits it is known which benchmarks are exact and for
  which set of runs (`Settles`) - the runs stored or the runs it read before its batch.

A run's iteration is the greatest so far plus one; that a finite set of numbers has a
greatest (`NewestExists`) is proved from the well-foundedness of the naturals.

### The proofs of `OptimizationLoopProofs`

Assumption: `OptimizationAssumption` (limits are positive and finitely many, targets are
scores). `IInv` has, besides the types and the properties: `Measures` (which iteration
has been scored and finished at which await), `BestLeads` (the loop's best draft is the
first with the highest score), `DraftBuilds` (the current draft has a best content, or
was made from one and is about to be scored), `CacheHolds` and `CacheIntact` (what the
cache holds in any case, and what it holds while no key was lost and no call failed: of
every iteration its own draft, or the best so far if it was reverted), `Cleanable` (the
index names every draft that is to be deleted), `FeedbackGiven`.

`KeepsTheBestHolds` is the refinement, step by step: a test evaluation that was not
cancelled is a trial (`TestEvalTries`); whatever leaves the loop - the result, a failed
call, a crash - closes the run with an answer or without (`LoopCloses`); a lost key or a
failed call of the cache is `Forget`; the other steps stutter. The point that needs an
argument is `BestIsFirst`: the result is looked up by the score stored for each
iteration, and a reverted iteration is stored with the best draft's score, so the first
entry with the highest score must be shown to be one that was not reverted.

### The proof of `AccountsProofs`

Assumption: `AccountsAssumption` (the address `none` is not one, bounds are numbers).
The properties are not inductive: OneAccountPerInvite compares users with invitations,
while the two writes that connect them are made by one request at two different
awaits. `IInv` therefore has, besides the types and the references of the rows, one
part per idea: addresses of users are unique and the user an invitation opened has
its address while the invitation is spent (`Opened`), a stored token was mailed
(`Delivered`), and what each request *knows* at its await is still true of the tables
(`Knows`: the organization it found exists, the user it is about to give a credential
exists, the invitation it consumed is consumed, the token in its hand was mailed). The
last is stable because rows are only added and the columns it speaks of only move one
way (`Grows`); the lemma `Together` says so once, and each action has to show only
what it does to its own request and to the rows it writes. OneAccountPerInvite follows
because two users of one invitation would share an address.

### The proofs of `StreamClientProofs` and `OptimizerPageProofs`

Assumptions: `StreamClientAssumption`, `PageAssumption` (bounds and gaps are numbers).
`NetOK` is OneConnection together with "the room holds open sockets only", without
which a refused connection could leave a socket behind. `CallOK` is EmitsAreTold
strengthened by what holds of *every* request, runs included. One that waits shares the
promise of the module's socket, which is connecting (`SharedOrClosed`: a step keeps that
promise or closes its socket, and then the caller is stuck). One that is in the map of its
connection: it is listened to on an open socket, is not over, and runs
only when that socket is in the room - that is why an answer is heard. `ClientStep`
says what a step of the connection, the server or a caller leaves: the invariant
again, no request forgotten, and a run that ends, ends with an answer, with a refused
connection, or because its own controller was aborted. The page's proof uses nothing
else of the connection. SpinnerHasALiveRun is then inductive over `PageTypes` and
the fact that a run's controller is its own (`OwnController`): of the ways to end, the
page handles all but an abort, and only the page aborts a run.
CancelledStaysSilent needs `Silent`: what was aborted while it listened has ended, and
what has ended does not end again.

## 6. What is proved and what is model-checked only

Proved, for every value of the constants that the named assumptions allow:

| module | theorem | of |
| --- | --- | --- |
| `MarketplaceProofs` | `TypeOK`, `OnePendingRequest`, `NoLockCycle`, `ListedVersionReadable`, `DeletedLeavesNothing`, `OnlyReviewedIsListed`; row locks are exclusive | `Spec` |
| | `CatalogConsistent` | `Alone /\ Spec` |
| `StreamGatewayProofs` | `TypeOK`, `ControllersTracked`, `AbortHasCause`, `DrainedIsToldAndAborted`, `NoErrorAfterInterrupt` | `Spec` |
| `SkillVersionsProofs` | `SkillTypeOK`, `FiledUnderItsVersion`, `HistoryComplete`, `OneModelCall`, `SessionKeepsNewest`, `AnswersAreOwn` | `SkillSpec` |
| `EvalRunsProofs` | `EvalTypeOK`, `RunsLabelledTruthfully`, `OneExecutionPerKey`, `BatchIsComplete`, `BenchmarksExact`, `WaitersAreAnswered`; `SkillSpec` | `Spec` |
| `OptimizationLoopProofs` | `OptTypeOK`, `EarlyStopIsConfirmed`, `FeedbackIsUsed`, `DraftsCleaned`; the refinement `KeepsTheBest` | `Spec` |
| `AccountsProofs` | `AccountsTypeOK`, `OneAccountPerInvite`, `LiveInvitesWereSent` | `Spec` |
| `OptimizerPageProofs` | `PageTypeOK`, `OneConnection`, `EmitsAreTold`, `SpinnerHasALiveRun`, `CancelledStaysSilent` | `Spec` |

A bound of an instance (`MaxSockets`, `MaxInvites`, ...) is a constant like any other
here, so the theorems hold for any of its values.

Only model-checked: liveness (`CallsReturn`, `AbandonedStops`, `EveryRunIsAnswered`,
`SetupCompletes`), because the prover has no ENABLED and no fairness reasoning; and the
three violations, which are counterexamples (section 7). The invariants were checked by
TLC on the runs' instances before they were proved.

Each property of a passing run has a *mutant*: a variant of one definition, next to
it in the module and marked as such, that changes the model the way a plausible bug
would change the code (a dropped test, a missing index, one map for all sockets).
With the mutant in place TLC finds the property violated.

## 7. Where code and comments disagree, and other behaviours

### With a run

- `market_remove_race`. `marketplace.service.ts:252-253` says the bulk UPDATE of
  removeFromMarketplace avoids the race with a concurrent approve. The three writes
  are not one transaction: an approval that commits between the bulk UPDATE and the
  UPDATE of the listing leaves its submission approved under a removed listing.
- `skill_refine`. `generation.service.ts:222-224` says that incrementing atomically
  eliminates the race of two refinements that lose one update. The version compared is
  read when writing, after the model answered: the second refinement replaces a text
  it never saw.
- `optimizer_refresh`. `streaming.gateway.ts:242-244` says a reconnect keeps receiving
  the events of running work. A token refresh replaces the socket object; the
  optimizer's listener stays on the old one, and the page shows the run for ever.

### Without a run

Found while reading for, or checking, the models; the models contain the behaviours,
and the properties exclude them by name.

- *Deletion*. `skills.service.ts:278-279` calls the explicit clean-ups "defensive no-ops
  under CASCADE". For a skill that was ever listed the RESTRICT foreign key refuses the
  DELETE that follows them: the skill stays, its eval data is gone. A delete that dies
  after its first clean-up leaves benchmarks of runs that are gone.
- *Drain*. `streaming.gateway.ts:197-198` and `:326-328` say that every in-flight request
  of a draining pod is notified. Work held for a dropped socket is in no connected
  socket's map, and its user is told nothing. That an optimize run "resumes from its
  last DraftStore checkpoint" (`:329-330`) is not in the code.
- *Kept work* is not watched after the first grace period: a second drop lets it run to
  its end for nobody, and a cancel on the new socket does not find it.
- *A request sent before authentication has finished* is dropped without an answer, and
  the client's wait for it has no bound.
- *Cancel while connecting*. `useSkillContentOptimizer.ts:40` says cancel aborts the
  stream. A run that still waits for the connection is sent all the same when it opens.
- *A cancelled gap fix* (`useSkillContentOptimizer.ts:326`) goes on with the HTTP writes
  that follow and starts a run at their end; after the cancel `abortRef` is null, and
  the next fix has no signal at all.
- *Callers of a promise whose socket a refresh or a logout closes* never settle: the
  closed socket emits neither event the promise waits for (`streamingSocket.ts:122-125`,
  `:133-144`). They and the dropped requests above are the two callers EmitsAreTold does
  not speak of. And the first
  failed automatic reconnection disconnects the module's socket for good.
- *Setup*. `auth.service.ts:267-268` speaks of a database constraint against concurrent
  calls. There is none: overlapping setups with different addresses create two owners
  and two organizations.
- *Invitations*. `invite.service.ts:137-138` says a resend replaces the old link
  atomically to prevent races. The replacement does not test `consumed`: two
  overlapping resends leave two live links, a resend overlapping an acceptance leaves
  one. "No replay" (`:341-343`) does not cover a failure between the user's row and the
  credential: the account exists without a password.
- *Deactivation*. `UsersService.deactivate` refuses to let owners deactivate themselves;
  `update` allows it.
- *Sessions*. `session.repository.ts:48-49` says the row locks serialize appends. On an
  empty session there is no row to lock, and two appends take the same number.
- *Refinement*. `generation.service.ts:167-169` promises snapshots before and after the
  change; an edit saved since the last snapshot changes the text under the same
  version, and the snapshot before is not of the edited text.
- *Evals*. `eval-execution.service.ts:434-435` says executeAndGradeEval never throws; a
  failed run whose case was deleted makes it throw. "Aggregates ALL runs" (`:202`) does
  not hold after overlapping or cancelled batches. createEvalCase reads the number of
  cases and then inserts.
- *Silent ends*. isCancellation (`skill-optimization.service.ts:606-613`) also takes an
  error for a cancellation that merely has the name AbortError, whoever threw it,
  or the loop's message. In a run nobody cancelled no terminal event is then
  sent - `skill-optimization.runloop.spec.ts:239-248` pins that - and the page shows the
  run in progress for ever.
- *Optimizer*. The baseline of "is it better" is iteration 1's score, after its
  improvement (compare `docs/skill-tests-wiki.md:737-740`); feedbackApplied is true
  though the improvement was rejected (`skill-optimization.service.ts:572-574`); an
  iteration that "validates stability" (`:250-252`) may score another draft; a run
  cancelled between iterations still emits its completion; a failing clean-up emits an
  error after it.
- *Marketplace*. Two overlapping submits insert two reviews; a rejection that overlaps an
  approval overwrites it.

## 8. Not modelled, and why

- Refresh-token rotation, lockout, CLI codes, personal access tokens: find, check and
  write without a lock; sequentially they are simple, and overlapping calls are
  guarded by nothing that a property could rest on.
- Upvotes, favourites, downloads: a toggle and a counter.
- LLM transports, SSO strategies, email, analytics, categories, export, telemetry,
  health, public API: pure I/O, single-row writes or read-only queries.
- SSE endpoints: the HTTP twin of the gateway, one connection per request.
- The frontend's other views and the CLI: clients; what they send is the environment of
  the modules above.
- Prompts, parsing and validation of the model's answers, scores and statistics: data
  that no property of the control tells apart.

These parts make up most of the repository's lines (the frontend's views alone are
about half); the models cover the parts whose state is shared between actors.

## 9. Running

    tlc -workers 2 -config MarketplaceRaces.cfg MCMarketplace
    tlc -workers 2 -config OptimizerPage.cfg MCOptimizerPage
    tlapm MarketplaceProofs.tla

and the same for the other instances and proof modules of the first table. The
longest run (`eval_runs`, 2.0 million states) takes about three minutes on two cores; the
proofs of `MarketplaceProofs`, `SkillVersionsProofs`, `EvalRunsProofs` and
`OptimizationLoopProofs` take two to five minutes each from nothing, the others less.
