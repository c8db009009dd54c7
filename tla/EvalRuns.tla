------------------------------- MODULE EvalRuns -------------------------------
(***************************************************************************)
(* The evals of one skill: its cases, the batches that execute and grade   *)
(* them against a version of the skill, the runs they store and the        *)
(* benchmark snapshots kept of them, beside the skill of SkillVersions,    *)
(* which requests of its own change and delete meanwhile.                  *)
(*                                                                         *)
(* Each element of EvalProcs is one request on the evals.  The executions  *)
(* of a batch are not part of its request: they run concurrently, a second *)
(* request may wait for one of them, and they go on when their request has *)
(* failed.  Scores are left out: a run is graded, and counts, or is not;   *)
(* a benchmark is the set of runs it was computed from.                    *)
(***************************************************************************)
EXTENDS SkillVersions

CONSTANTS
  EvalProcs,     \* concurrent requests on the evals
  EvalOps,       \* handlers that may be called in this instance
  Concurrency,   \* EVAL_CONCURRENCY
  CaseLimit,     \* MAX_EVAL_CASES_PER_SKILL
  InitialCases,  \* numbers of cases the skill may start with
  RunsPerCase,   \* values of dto.runsPerCase
  MaxCases,      \* bound on cases ever created
  MaxRequests,   \* bound on the requests on the evals ever served
  MaxCalls       \* bound on the requests on the skill ever served

EvalOperations == {"run", "stream", "createCase", "deleteCase", "deleteRun",
                   "benchmark"}

ASSUME EvalAssumption ==
  /\ EvalOps \subseteq EvalOperations
  /\ Concurrency \in Nat \ {0} /\ CaseLimit \in Nat
  /\ InitialCases \subseteq 0..MaxCases
  /\ RunsPerCase \subseteq Nat \ {0} /\ IsFiniteSet(RunsPerCase)
  /\ MaxCases \in Nat /\ MaxRequests \in Nat /\ MaxCalls \in Nat

VARIABLES
  cases,       \* createdAtVersion of every case ever created
  caseRows,    \* the cases that are stored
  runs,        \* the runs that are stored
  benchmarks,  \* eval_benchmarks: the runs counted for a version, 0: for all
  executions,  \* calls of doExecuteAndGrade that have not ended
  jobs,        \* the request each process is serving
  started,     \* requests on the evals so far
  undisturbed, \* history: no overlap, cancellation or failure so far, or since
               \* the benchmarks were all deleted with nothing else running
  cleanups,    \* clean-ups of these tables that a delete of the skill has done
  called       \* requests on the skill so far

evalTables == <<cases, caseRows, runs, benchmarks>>
evalVars   == <<evalTables, executions, jobs, started, undisturbed>>
vars       == <<svVars, evalVars, cleanups, called>>

CaseIds  == DOMAIN cases
NoRow    == [stored |-> FALSE, of |-> {}]
Row(S)   == [stored |-> TRUE, of |-> S]
Slots    == 0..MaxContents
NoBenchmarks == [v \in Slots |-> NoRow]

JobSteps == {"idle", "prepare:snapshot", "prepare:cases", "prepare:runs",
  "batch", "persist:global", "persist:version", "createCase:version",
  "createCase:insert", "deleteCase:row", "deleteRun:row", "invalidate",
  "benchmark:compute", "benchmark:save"}

NewJob(o, step) ==
  [op |-> o, at |-> step, id |-> 0, version |-> 0, content |-> 0,
   targeted |-> FALSE,
   cases |-> {}, repeat |-> 1, existing |-> {}, iteration |-> 0, pos |-> 0,
   waits |-> {}, results |-> {}, aborted |-> FALSE]
Resting == NewJob("none", "idle")

-----------------------------------------------------------------------------
(* Control.                                                                *)

Busy == {e \in EvalProcs : jobs[e] # Resting}

BeginsJob(e, op, job) ==
  /\ started < MaxRequests
  /\ op \in EvalOps
  /\ jobs[e] = Resting
  /\ Live  \* SkillOwnerGuard
  /\ started' = started + 1
  /\ jobs' = [jobs EXCEPT ![e] = [job EXCEPT !.id = started + 1]]
  /\ undisturbed' = (undisturbed /\ Busy = {} /\ executions = {})

AtJob(e, step) == jobs[e].at = step
EndJob(e) == jobs' = [jobs EXCEPT ![e] = Resting]
JobGoto(e, step) == jobs' = [jobs EXCEPT ![e].at = step]

\* A step that changes the request, and of the rest only what it says.
OnlyJob == UNCHANGED <<svVars, evalTables, executions, started, undisturbed>>

-----------------------------------------------------------------------------
(* createEvalCase and bulkCreateEvalCases: repeat is the number of cases.  *)

\* Bound: creations take turns.
Creating == {e \in EvalProcs : jobs[e].op = "createCase"}

CreateCasesStart(e) ==
  \E n \in 1..MaxCases :
    /\ Cardinality(caseRows) + n <= CaseLimit
    /\ Creating = {} /\ Len(cases) + n <= MaxCases
    /\ BeginsJob(e, "createCase",
         [NewJob("createCase", "createCase:version") EXCEPT !.repeat = n])
    /\ UNCHANGED <<svVars, evalTables, executions>>

CreateCasesVersion(e) ==
  /\ AtJob(e, "createCase:version")
  /\ IF Live
       THEN jobs' = [jobs EXCEPT ![e].at = "createCase:insert",
                                 ![e].version = skill.version]
       ELSE EndJob(e)
  /\ OnlyJob

\* One of the parallel inserts.  A failing one fails the request.
CreateCasesInsert(e) ==
  /\ AtJob(e, "createCase:insert")
  /\ IF ~Live THEN EndJob(e) /\ UNCHANGED <<cases, caseRows>>
     ELSE /\ cases' = Append(cases, jobs[e].version)
          /\ caseRows' = caseRows \cup {Len(cases')}
          /\ IF jobs[e].repeat = 1 THEN EndJob(e)
             ELSE jobs' = [jobs EXCEPT ![e].repeat = @ - 1]
  /\ UNCHANGED <<svVars, runs, benchmarks, executions, started, undisturbed>>

-----------------------------------------------------------------------------
(* prepareEvalRun.                                                         *)

\* findById: the current version, or a target version whose snapshot is read.
JobStart(e) ==
  \E op \in {"run", "stream"}, target \in 0..skill.version, n \in RunsPerCase :
    /\ BeginsJob(e, op,
         [NewJob(op, IF target = 0 THEN "prepare:cases" ELSE "prepare:snapshot")
            EXCEPT !.repeat = n,
                   !.targeted = (target # 0),
                   !.version = IF target = 0 THEN skill.version ELSE target,
                   !.content = IF target = 0 THEN skill.content ELSE 0])
    /\ UNCHANGED <<svVars, evalTables, executions>>

PrepareSnapshot(e) ==
  /\ AtJob(e, "prepare:snapshot")
  /\ LET c == snapshots[jobs[e].version] IN
     IF c = 0 THEN EndJob(e)  \* 404
              ELSE jobs' = [jobs EXCEPT ![e].at = "prepare:cases", ![e].content = c]
  /\ OnlyJob

\* getEvalCases: all of them or the requested ones; with a target version only
\* those that existed at that version.
Eligible(e, c) == jobs[e].targeted => cases[c] <= jobs[e].version

PrepareCases(e) ==
  /\ AtJob(e, "prepare:cases")
  /\ \E S \in {caseRows} \cup {{c} : c \in caseRows} :
       LET chosen == {c \in S : Eligible(e, c)} IN
       IF chosen = {} THEN EndJob(e)
         ELSE jobs' = [jobs EXCEPT ![e].at = "prepare:runs", ![e].cases = chosen,
                                   ![e].targeted = FALSE]
  /\ OnlyJob

SameIteration(S) == Newest({0} \cup {r.iteration : r \in S})  \* mutant: no + 1
NextIteration(S) == Newest({0} \cup {r.iteration : r \in S}) + 1

PrepareRuns(e) ==
  /\ AtJob(e, "prepare:runs")
  /\ jobs' = [jobs EXCEPT ![e].at = "batch", ![e].existing = runs,
                          ![e].iteration = NextIteration(runs)]
  /\ OnlyJob

-----------------------------------------------------------------------------
(* The batches of runEvals and runEvalsStreamed.                           *)

\* The i-th (from 0) of the cases of a job, in their order of creation, all of
\* them repeated repeat times.
Total(j) == Cardinality(j.cases) * j.repeat
CaseAt(j, i) == CHOOSE c \in j.cases :
  Cardinality({d \in j.cases : d < c}) = i % Cardinality(j.cases)

\* dedupKey, within the skill.
KeyWithoutIndex(j, i) == <<CaseAt(j, i), j.version, 0>>  \* mutant
Key(j, i) == <<CaseAt(j, i), j.version, i>>

\* evalInflight.has(k)
NeverInFlight(k) == FALSE  \* mutant: the map is not consulted
InFlight(k) == \E x \in executions : x.key = k

\* All positions of the batch start together; a position whose key is in
\* flight waits for that execution.
StartBatch(e) ==
  LET j     == jobs[e]
      last  == IF j.pos + Concurrency < Total(j) THEN j.pos + Concurrency
                                                 ELSE Total(j)
      batch == j.pos..last - 1 IN
  /\ AtJob(e, "batch") /\ j.waits = {}
  /\ j.pos < Total(j) /\ ~j.aborted
  /\ executions' = executions \cup
       {[job |-> j.id, key |-> Key(j, i), case |-> CaseAt(j, i),
         version |-> j.version, content |-> j.content,
         iteration |-> j.iteration, aborted |-> FALSE, stage |-> "executing"]
          : i \in {n \in batch : ~InFlight(Key(j, n))}}
  /\ jobs' = [jobs EXCEPT ![e].pos = last, ![e].waits = {Key(j, i) : i \in batch}]
  /\ UNCHANGED <<svVars, evalTables, started, undisturbed>>

\* Every batch has run, or the signal was aborted at a batch boundary.
EndBatches(e) ==
  /\ AtJob(e, "batch") /\ jobs[e].waits = {}
  /\ jobs[e].pos = Total(jobs[e]) \/ jobs[e].aborted
  /\ JobGoto(e, "persist:global")
  /\ OnlyJob

\* The client of a stream cancels, or is gone.  Once the batches have run the
\* signal is read by nothing that changes a table.
Cancel(e) ==
  /\ jobs[e].op = "stream" /\ ~jobs[e].aborted
  /\ jobs[e].at \notin {"persist:global", "persist:version"}
  /\ jobs' = [jobs EXCEPT ![e].aborted = TRUE]
  /\ executions' = {IF x.job = jobs[e].id THEN [x EXCEPT !.aborted = TRUE] ELSE x
                      : x \in executions}
  /\ undisturbed' = FALSE
  /\ UNCHANGED <<svVars, evalTables, started>>

-----------------------------------------------------------------------------
(* executeAndGradeEval and doExecuteAndGrade.                              *)

Waiting(x) == {e \in EvalProcs : x.key \in jobs[e].waits}

\* Mutant: only the request that started the execution gets its answer.
ResolveOwner(x, r) ==
  /\ executions' = executions \ {x}
  /\ jobs' = [e \in EvalProcs |->
       IF e \in Waiting(x) /\ jobs[e].id = x.job
         THEN [jobs[e] EXCEPT !.waits = @ \ {x.key}, !.results = @ \cup {r}]
         ELSE jobs[e]]

\* The promise resolves with run r, for every request that holds it.
Resolve(x, r) ==
  /\ executions' = executions \ {x}
  /\ jobs' = [e \in EvalProcs |->
       IF e \in Waiting(x)
         THEN [jobs[e] EXCEPT !.waits = @ \ {x.key}, !.results = @ \cup {r}]
         ELSE jobs[e]]

\* It rejects: Promise.all fails every request that waits for it, cancelled or
\* not, and leaves the other executions of their batches running.
Reject(x) ==
  /\ executions' = executions \ {x}
  /\ jobs' = [e \in EvalProcs |-> IF e \in Waiting(x) THEN Resting ELSE jobs[e]]
  /\ undisturbed' = FALSE
  /\ UNCHANGED <<svVars, evalTables, started>>

ToStage(x, s) ==
  /\ executions' = (executions \ {x}) \cup {[x EXCEPT !.stage = s]}
  /\ UNCHANGED <<svVars, evalTables, jobs, started, undisturbed>>

\* The model executes and, unless that failed, the grader grades; both take
\* minutes and store nothing, and an abort noticed before, between or after
\* them throws.  gradeRun answers even when the grading model fails, with a
\* gradingError; which it was is told apart when the run is saved.
ExecuteAndGrade(x) ==
  /\ x.stage = "executing"
  /\ IF x.aborted THEN Reject(x)
     ELSE \E s \in {"completed", "failing"} : ToStage(x, s)

\* createEvalRun needs the case, hence the skill, to be there still.
CaseExists(x) == x.case \in caseRows

CurrentLabel(x) == skill.version  \* mutant: read again when the run is saved
Label(x) == x.version

Stores(x, isGraded) ==
  LET run == [job |-> x.job, key |-> x.key, case |-> x.case,
              version |-> Label(x), content |-> x.content,
              iteration |-> x.iteration, graded |-> isGraded] IN
  /\ runs' = runs \cup {run}
  /\ Resolve(x, run)
  /\ UNCHANGED <<svVars, cases, caseRows, benchmarks, started, undisturbed>>

SaveRun(x) ==
  /\ x.stage = "completed"
  /\ IF CaseExists(x) THEN \E isGraded \in BOOLEAN : Stores(x, isGraded)
     ELSE IF x.aborted THEN Reject(x)
     ELSE ToStage(x, "failing")

\* The failed run is stored instead; its foreign key may fail just the same.
SaveFailedRun(x) ==
  /\ x.stage = "failing"
  /\ IF CaseExists(x) THEN Stores(x, FALSE) ELSE Reject(x)

Progress(x) == ExecuteAndGrade(x) \/ SaveRun(x) \/ SaveFailedRun(x)

-----------------------------------------------------------------------------
(* Benchmarks.                                                             *)

\* computeBenchmark: completed runs without a gradingError, of version v or
\* (0) of every version.
Counted(S, v) == {r \in S : r.graded /\ (v = 0 \/ r.version = v)}

\* saveBenchmarkSnapshot; a failure, the skill being gone among them, is
\* logged and ends what the caller was doing with benchmarks.
SavesBenchmark(e, v, S, next) ==
  \/ /\ Live
     /\ benchmarks' = [benchmarks EXCEPT ![v] = Row(S)]
     /\ next
     /\ UNCHANGED undisturbed
  \/ /\ ~Live \/ Faults
     /\ EndJob(e)
     /\ undisturbed' = FALSE
     /\ UNCHANGED benchmarks

AllRuns(e) == jobs[e].existing \cup jobs[e].results

PersistGlobal(e) ==
  /\ AtJob(e, "persist:global")
  /\ SavesBenchmark(e, 0, Counted(AllRuns(e), 0), JobGoto(e, "persist:version"))
  /\ UNCHANGED <<svVars, cases, caseRows, runs, executions, started>>

PersistVersion(e) ==
  /\ AtJob(e, "persist:version")
  /\ LET v == jobs[e].version IN
     SavesBenchmark(e, v, Counted(AllRuns(e), v), EndJob(e))
  /\ UNCHANGED <<svVars, cases, caseRows, runs, executions, started>>

\* getBenchmark with nothing cached: the current runs are counted and saved.
BenchmarkStart(e) ==
  \E v \in 0..skill.version :
    /\ benchmarks[v] = NoRow
    /\ BeginsJob(e, "benchmark",
         [NewJob("benchmark", "benchmark:compute") EXCEPT !.version = v])
    /\ UNCHANGED <<svVars, evalTables, executions>>

BenchmarkCompute(e) ==
  /\ AtJob(e, "benchmark:compute")
  /\ jobs' = [jobs EXCEPT ![e].at = "benchmark:save", ![e].results = runs]
  /\ OnlyJob

BenchmarkSave(e) ==
  /\ AtJob(e, "benchmark:save")
  /\ LET v == jobs[e].version IN
     SavesBenchmark(e, v, Counted(jobs[e].results, v), EndJob(e))
  /\ UNCHANGED <<svVars, cases, caseRows, runs, executions, started>>

-----------------------------------------------------------------------------
(* deleteEvalRun and deleteEvalCase: the row, then the stale benchmarks.   *)

DeleteRunStart(e) ==
  \E r \in runs :
    /\ BeginsJob(e, "deleteRun",
         [NewJob("deleteRun", "deleteRun:row") EXCEPT !.results = {r}])
    /\ UNCHANGED <<svVars, evalTables, executions>>

DeleteRunRow(e) ==
  /\ AtJob(e, "deleteRun:row")
  /\ runs' = runs \ jobs[e].results
  /\ JobGoto(e, "invalidate")
  /\ UNCHANGED <<svVars, cases, caseRows, benchmarks, executions, started,
                 undisturbed>>

DeleteCaseStart(e) ==
  \E c \in caseRows :
    /\ BeginsJob(e, "deleteCase",
         [NewJob("deleteCase", "deleteCase:row") EXCEPT !.cases = {c}])
    /\ UNCHANGED <<svVars, evalTables, executions>>

\* ON DELETE CASCADE takes the runs of the case along.
DeleteCaseRow(e) ==
  /\ AtJob(e, "deleteCase:row")
  /\ caseRows' = caseRows \ jobs[e].cases
  /\ runs' = {r \in runs : r.case \notin jobs[e].cases}
  /\ JobGoto(e, "invalidate")
  /\ UNCHANGED <<svVars, cases, benchmarks, executions, started, undisturbed>>

NothingForgotten == benchmarks  \* mutant: the snapshots are kept
Forgotten == NoBenchmarks

\* deleteBenchmarkSnapshots: best effort.
Invalidate(e) ==
  /\ AtJob(e, "invalidate")
  /\ \/ /\ benchmarks' = Forgotten
        /\ undisturbed' = (undisturbed \/ (Busy = {e} /\ executions = {}))
     \/ Faults /\ UNCHANGED benchmarks /\ undisturbed' = FALSE
  /\ EndJob(e)
  /\ UNCHANGED <<svVars, cases, caseRows, runs, executions, started>>

-----------------------------------------------------------------------------
(* delete of the skill: before the session and the row it cleans up these  *)
(* tables, one await after the other; what fails is logged and stays.      *)

Cleans(p, n) ==
  /\ At(p, "delete:session")
  /\ cleanups[p] = n
  /\ cleanups' = [cleanups EXCEPT ![p] = n + 1]
  /\ UNCHANGED <<svVars, cases, executions, jobs, started, called>>

CleanRuns(p) ==
  /\ Cleans(p, 0)
  /\ \/ runs' = {}
     \/ Faults /\ UNCHANGED runs
  /\ undisturbed' = FALSE
  /\ UNCHANGED <<caseRows, benchmarks>>

\* The runs saved since then go with their cases.
CleanCases(p) ==
  /\ Cleans(p, 1)
  /\ \/ caseRows' = {} /\ runs' = {}
     \/ Faults /\ UNCHANGED <<caseRows, runs>>
  /\ undisturbed' = FALSE
  /\ UNCHANGED benchmarks

CleanBenchmarks(p) ==
  /\ Cleans(p, 2)
  /\ \/ /\ benchmarks' = Forgotten
        /\ undisturbed' = (undisturbed \/ (Busy = {} /\ executions = {}))
     \/ Faults /\ UNCHANGED <<benchmarks, undisturbed>>
  /\ UNCHANGED <<caseRows, runs>>

CleansUp(p) == CleanRuns(p) \/ CleanCases(p) \/ CleanBenchmarks(p)

\* The session is next.
CleansSession(p) ==
  /\ cleanups[p] = 3
  /\ DeleteSession(p)
  /\ cleanups' = [cleanups EXCEPT ![p] = 0]
  /\ UNCHANGED <<evalVars, called>>

\* ON DELETE CASCADE: what the clean-ups left, or requests have added since.
Delete(p) ==
  /\ DeleteSkill(p)
  /\ caseRows' = {} /\ runs' = {} /\ benchmarks' = NoBenchmarks
  /\ UNCHANGED <<cases, executions, jobs, started, undisturbed, cleanups,
                 called>>

\* The other steps of the skill's requests; the death of one ends its clean-ups.
SkillStep(p) ==
  /\ \/ /\ called < MaxCalls
        /\ Begin(p)
        /\ called' = called + 1
        /\ UNCHANGED cleanups
     \/ /\ calls[p] # Idle
        /\ Continue(p) \/ DeleteMessages(p) \/ DeleteRefused(p)
        /\ UNCHANGED <<cleanups, called>>
     \/ /\ Abort(p)
        /\ cleanups' = [cleanups EXCEPT ![p] = 0]
        /\ UNCHANGED called
  /\ UNCHANGED evalVars

EvalInit ==
  /\ Init
  /\ \E n \in InitialCases : cases = [c \in 1..n |-> 1] /\ caseRows = 1..n
  /\ runs = {}
  /\ benchmarks = NoBenchmarks
  /\ executions = {}
  /\ jobs = [e \in EvalProcs |-> Resting]
  /\ started = 0
  /\ undisturbed = TRUE
  /\ cleanups = [p \in Procs |-> 0]
  /\ called = 0

JobBegin(e) ==
  \/ CreateCasesStart(e) \/ JobStart(e) \/ BenchmarkStart(e)
  \/ DeleteRunStart(e) \/ DeleteCaseStart(e)

JobContinue(e) ==
  \/ CreateCasesVersion(e) \/ CreateCasesInsert(e)
  \/ PrepareSnapshot(e) \/ PrepareCases(e) \/ PrepareRuns(e)
  \/ StartBatch(e) \/ EndBatches(e) \/ PersistGlobal(e) \/ PersistVersion(e)
  \/ BenchmarkCompute(e) \/ BenchmarkSave(e)
  \/ DeleteRunRow(e) \/ DeleteCaseRow(e) \/ Invalidate(e)

EvalNext ==
  \/ \E e \in EvalProcs : JobBegin(e)
  \/ \E e \in Busy : JobContinue(e) \/ Cancel(e)
  \/ \E x \in executions : Progress(x)

Next ==
  \/ EvalNext /\ UNCHANGED <<cleanups, called>>
  \/ \E p \in Procs : SkillStep(p) \/ CleansUp(p) \/ CleansSession(p) \/ Delete(p)

Spec == EvalInit /\ [][Next]_vars

-----------------------------------------------------------------------------
(* Properties.                                                             *)

\* The tables and the requests hold values of their types.
EvalTypeOK ==
  /\ SkillTypeOK
  /\ cases \in Seq(Versions) /\ Len(cases) <= MaxCases
  /\ caseRows \subseteq CaseIds
  /\ \A r \in runs \cup UNION {benchmarks[v].of : v \in Slots} :
       /\ r.job \in 1..MaxRequests /\ r.case \in CaseIds
       /\ r.version \in Versions /\ r.content \in Contents
       /\ r.iteration \in Nat \ {0} /\ r.graded \in BOOLEAN
  /\ \A v \in Slots : benchmarks[v].of # {} => benchmarks[v].stored
  /\ \A e \in EvalProcs : jobs[e].at \in JobSteps /\ jobs[e].id \in 0..MaxRequests
  /\ started \in 0..MaxRequests
  /\ undisturbed \in BOOLEAN
  /\ cleanups \in [Procs -> 0..3]
  /\ called \in 0..MaxCalls

\* A run is labelled with the version whose text was executed, though the
\* skill may have been edited, refined or deleted since the batch read it
\* (eval-execution.service.ts:82-108).
RunsLabelledTruthfully ==
  \A r \in runs : contents[r.content].version = r.version

\* Double clicks share executions: no two calls in flight run the same
\* position of the same cases (eval-execution.service.ts:447-452).
OneExecutionPerKey ==
  \A x, y \in executions : x.key = y.key => x = y

\* A batch that was not cancelled has one run of its own for every repetition
\* of every case, shared executions notwithstanding ("NOT collapsed into a
\* single execution", eval-execution.service.ts:448-451).
BatchIsComplete ==
  \A e \in EvalProcs :
    AtJob(e, "persist:global") /\ ~jobs[e].aborted =>
      Cardinality(jobs[e].results) = Total(jobs[e])

\* While requests on the evals have neither overlapped nor failed nor been
\* cancelled, a stored benchmark counts exactly the graded runs of its scope
\* ("aggregates ALL runs across ALL versions", eval-execution.service.ts:202).
\* Whatever went wrong before, that is so again once the deletion of a run, of a
\* case or, if it is refused in the end, of the skill has forgotten the
\* benchmarks with no other request under way (eval-case.service.ts:152).
BenchmarksExact ==
  undisturbed /\ Busy = {} =>
    \A v \in Slots : benchmarks[v] \in {NoRow, Row(Counted(runs, v))}

\* No request waits for an answer that has been given already: each promise it
\* waits for belongs to an execution that still runs, whoever started it, and
\* ends with its own batch or with the first rejection.
WaitersAreAnswered ==
  \A e \in EvalProcs : jobs[e].waits \subseteq {x.key : x \in executions}
=============================================================================
