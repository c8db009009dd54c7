--------------------------- MODULE EvalRunsProofs ---------------------------
(* What TLAPS proves of EvalRuns, for every value of the constants.  The     *)
(* steps of the skill beside the evals keep the invariant that               *)
(* SkillVersionsProofs proves of them.                                       *)
EXTENDS EvalRuns, SkillVersionsProofs, WellFoundedInduction

-----------------------------------------------------------------------------
(* Types.                                                                  *)

\* CaseAt always chooses, whether or not there is such a case.
CaseOf(C, i) ==
  CHOOSE c \in C : Cardinality({d \in C : d < c}) = i % Cardinality(C)
CaseChoices == {CaseOf(C, i) : C \in SUBSET (1..MaxCases), i \in Nat}
Keys == CaseChoices \X Versions \X Nat

Run == [job : 1..MaxRequests, key : Keys, case : 1..MaxCases,
        version : Versions, content : Contents, iteration : Nat \ {0},
        graded : BOOLEAN]
Stages == {"executing", "completed", "failing"}
Execution == [job : 1..MaxRequests, key : Keys, case : CaseChoices,
              version : Versions, content : Contents, iteration : Nat \ {0},
              aborted : BOOLEAN, stage : Stages]
Job == [op : EvalOperations \cup {"none"}, at : JobSteps, id : 0..MaxRequests,
        version : 0..MaxContents, content : 0..MaxContents, targeted : BOOLEAN,
        cases : SUBSET (1..MaxCases), repeat : Nat \ {0}, existing : SUBSET Run,
        iteration : Nat, pos : Nat, waits : SUBSET Keys, results : SUBSET Run,
        aborted : BOOLEAN]
Benchmark == {NoRow} \cup {Row(S) : S \in SUBSET Run}

EvalTypes ==
  /\ cases \in Seq(Versions) /\ Len(cases) <= MaxCases
  /\ caseRows \in SUBSET CaseIds
  /\ runs \in SUBSET Run /\ IsFiniteSet(runs)
  /\ benchmarks \in [Slots -> Benchmark]
  /\ executions \in SUBSET Execution
  /\ jobs \in [EvalProcs -> Job]
  /\ started \in 0..MaxRequests
  /\ undisturbed \in BOOLEAN

LEMMA NewJobType ==
  ASSUME NEW o \in EvalOperations \cup {"none"}, NEW s \in JobSteps
  PROVE  /\ NewJob(o, s) \in Job
         /\ NewJob(o, s).op = o /\ NewJob(o, s).at = s
         /\ NewJob(o, s).id = 0 /\ NewJob(o, s).version = 0 /\ NewJob(o, s).content = 0
         /\ NewJob(o, s).pos = 0 /\ NewJob(o, s).waits = {}
         /\ NewJob(o, s).existing = {} /\ NewJob(o, s).results = {}
         /\ NewJob(o, s).repeat = 1
<1>1. MaxContents \in Nat /\ MaxRequests \in Nat /\ MaxCases \in Nat
  BY ConstantsAssumption, EvalAssumption
<1> QED
  BY <1>1 DEF NewJob, Job

LEMMA RestingFacts ==
  /\ Resting \in Job /\ Resting.op = "none" /\ Resting.at = "idle"
  /\ Resting.waits = {} /\ Resting.existing = {} /\ Resting.results = {}
<1>1. "none" \in EvalOperations \cup {"none"} /\ "idle" \in JobSteps
  BY DEF JobSteps
<1> QED
  BY <1>1, NewJobType DEF Resting

-----------------------------------------------------------------------------
(* What a request knows.                                                   *)

PreparePoints == {"prepare:snapshot", "prepare:cases", "prepare:runs"}
CreatePoints  == {"createCase:version", "createCase:insert"}
TextPoints    == {"prepare:cases", "prepare:runs", "batch"}
BatchPoints   == {"batch", "persist:global", "persist:version"}

\* The keys of the positions that have been started.
StartedKeys(j) == {Key(j, i) : i \in 0..j.pos - 1}

\* Of every position started, the request has the answer or waits for it, not
\* both, and it has no other and no two answers of one position.
Book(j) ==
  /\ j.pos <= Total(j)
  /\ j.waits \subseteq StartedKeys(j)
  /\ \A r \in j.results : r.key \in StartedKeys(j) \ j.waits
  /\ \A k \in StartedKeys(j) \ j.waits : \E r \in j.results : r.key = k
  /\ \A r, s \in j.results : r.key = s.key => r = s

\* What holds of a request by itself.
Sound(j) ==
  /\ j.at = "idle" => j = Resting
  /\ j.at # "idle" => j.id # 0
  /\ j.at \in CreatePoints <=> j.op = "createCase"
  /\ j.at \in PreparePoints => j.pos = 0 /\ j.results = {}
  /\ j.at \in {"prepare:snapshot", "createCase:insert", "batch"} => j.version \in Versions
  /\ j.waits # {} => j.at = "batch"
  /\ j.at = "batch" => j.iteration # 0 /\ Book(j)
  /\ j.at \in BatchPoints => \A r \in j.results : r.version = j.version
  /\ j.at = "persist:global" /\ ~j.aborted => Cardinality(j.results) = Total(j)

\* The run shows a text of its version, and its case was created.
RunKnown(r) == r.case \in CaseIds /\ WrittenUnder(r.content, r.version)

Knows(e) ==
  /\ jobs[e].at \in TextPoints => WrittenUnder(jobs[e].content, jobs[e].version)
  /\ jobs[e].at \in CreatePoints => Len(cases) + jobs[e].repeat <= MaxCases
  /\ \A r \in jobs[e].existing \cup jobs[e].results : RunKnown(r)
  /\ jobs[e].waits \subseteq {x.key : x \in executions}

\* An execution runs the text of the version its runs will be labelled with.
ExecutionKnown(x) ==
  WrittenUnder(x.content, x.version) /\ x.key[2] = x.version

RunsKnown ==
  /\ \A r \in runs : RunKnown(r)
  /\ \A v \in Slots : \A r \in benchmarks[v].of : RunKnown(r)

\* Without the skill there is nothing to its evals, and there is nothing to
\* execute once it is gone.
Gone ==
  /\ ~Live => runs = {} /\ benchmarks = NoBenchmarks
  /\ skill.state = "deleted" => caseRows = {}
  /\ skill.state = "none" => executions = {} /\ Busy = {}

\* The benchmark of v counts what S has for v, if there is one.
Exact(S, v) == benchmarks[v] \in {NoRow, Row(Counted(S, v))}

\* What a request on its own leaves exact, and when.
Settles(e) ==
  /\ jobs[e].at \in PreparePoints \cup CreatePoints
       \cup {"benchmark:compute", "benchmark:save", "deleteRun:row", "deleteCase:row"} =>
         \A v \in Slots : Exact(runs, v)
  /\ jobs[e].at \in BatchPoints => runs = AllRuns(e)
  /\ jobs[e].at \in {"batch", "persist:global"} =>
       \A v \in Slots : Exact(jobs[e].existing, v)
  /\ jobs[e].at = "persist:version" =>
       /\ Exact(runs, 0)
       /\ \A v \in Slots \ {0} : Exact(jobs[e].existing, v)
  /\ jobs[e].at = "benchmark:save" => jobs[e].results = runs

\* While undisturbed, one request runs at a time and with it its executions.
Tidy ==
  undisturbed =>
    /\ \A e, f \in Busy : e = f
    /\ \A x \in executions : \E e \in EvalProcs : x.key \in jobs[e].waits
    /\ Live => /\ Busy = {} => \A v \in Slots : Exact(runs, v)
               /\ \A e \in Busy : Settles(e)

Control ==
  /\ \A e \in EvalProcs : Sound(jobs[e]) /\ Knows(e)
  /\ \A e, f \in Creating : e = f
  /\ \A x \in executions : ExecutionKnown(x)
  /\ OneExecutionPerKey

EvalInv ==
  /\ SkillInv
  /\ EvalTypes
  /\ Control
  /\ RunsKnown
  /\ Gone
  /\ Tidy

-----------------------------------------------------------------------------
(* The operators.                                                          *)

LEMMA KeyFacts ==
  ASSUME NEW j \in Job, NEW i \in Nat, j.version \in Versions
  PROVE  /\ Key(j, i) \in Keys /\ CaseAt(j, i) \in CaseChoices
         /\ Key(j, i)[2] = j.version /\ Key(j, i)[3] = i
<1>1. CaseAt(j, i) = CaseOf(j.cases, i)
  BY DEF CaseAt, CaseOf
<1>2. j.cases \in SUBSET (1..MaxCases)
  BY DEF Job
<1>3. CaseOf(j.cases, i) \in CaseChoices
  BY <1>2 DEF CaseChoices
<1>4. CaseAt(j, i) \in CaseChoices
  BY <1>1, <1>3
<1> QED
  BY <1>4 DEF Key, Keys

LEMMA TotalType ==
  ASSUME NEW j \in Job
  PROVE  IsFiniteSet(j.cases) /\ Total(j) \in Nat
<1>1. j.cases \in SUBSET (1..MaxCases) /\ j.repeat \in Nat
  BY DEF Job
<1>2. IsFiniteSet(1..MaxCases)
  BY EvalAssumption, FS_Interval
<1>3. IsFiniteSet(j.cases) /\ Cardinality(j.cases) \in Nat
  BY <1>1, <1>2, FS_Subset, FS_CardinalityType
<1> QED
  BY <1>1, <1>3 DEF Total

\* Finitely many numbers, listed by f, have a greatest.
LEMMA NewestExists ==
  ASSUME NEW S \in SUBSET Nat, S # {}, NEW n \in Nat, NEW f \in [1..n -> S],
         \A y \in S : \E i \in 1..n : f[i] = y
  PROVE  Newest(S) \in S /\ \A m \in S : m <= Newest(S)
<1> DEFINE Above(m) == \E y \in S : \A i \in 1..(n - m) : f[i] <= y
           Lasts == {m \in 0..n : Above(m)}
           R == OpToRel(<, Nat)
<1>1. Lasts \subseteq Nat /\ Lasts # {}
  <2>1. n - n = 0 /\ n \in 0..n /\ 0..n \subseteq Nat
    OBVIOUS
  <2>2. \A i \in 1..(n - n) : FALSE
    BY <2>1
  <2>3. Above(n)
    BY <2>2
  <2>4. \A k : k \in Lasts <=> k \in 0..n /\ Above(k)
    OBVIOUS
  <2> HIDE DEF Lasts, Above
  <2> QED
    BY <2>1, <2>3, <2>4
<1>2. PICK m \in Lasts : \A k \in Lasts : <<k, m>> \notin R
  <2> HIDE DEF Lasts
  <2> QED
    BY <1>1, NatLessThanWellFounded, WFMin
<1>3. \A k \in Lasts : ~(k < m)
  BY <1>1, <1>2 DEF OpToRel
<1>4. m \in 0..n /\ n - m \in 0..n
  <2>1. m \in 0..n
    BY <1>2
  <2> QED
    BY <2>1
<1>5. PICK y \in S : \A i \in 1..(n - m) : f[i] <= y
  BY <1>2
<1>6. m = 0
  <2> SUFFICES ASSUME m # 0 PROVE FALSE
    OBVIOUS
  <2> DEFINE b == n - m + 1
             z == IF f[b] <= y THEN y ELSE f[b]
  <2>1. /\ b \in 1..n /\ m - 1 \in 0..n /\ n - (m - 1) = b
        /\ \A i \in 1..b : i \in 1..n /\ (i = b \/ i \in 1..(n - m))
    BY <1>4
  <2>2. f[b] \in Nat /\ y \in Nat /\ f[b] \in S
    BY <2>1
  <2>3. z \in S /\ z \in Nat /\ f[b] <= z /\ y <= z
    BY <2>2
  <2>4. \A i \in 1..b : f[i] <= z
    <3> SUFFICES ASSUME NEW i \in 1..b PROVE f[i] <= z
      OBVIOUS
    <3>1. i \in 1..n /\ (i = b \/ i \in 1..(n - m))
      BY <2>1
    <3>2. f[i] \in Nat
      BY <3>1
    <3>3. i # b => f[i] <= y
      BY <3>1, <1>5
    <3> HIDE DEF z, b
    <3> QED
      BY <3>2, <3>3, <2>2, <2>3
  <2>5. Above(m - 1)
    <3> HIDE DEF z, b
    <3> QED
      BY <2>1, <2>3, <2>4
  <2>6. m - 1 \in Lasts /\ m - 1 < m
    BY <2>1, <2>5, <1>4
  <2> QED
    BY <2>6, <1>3
<1>7. \A x \in S : x <= y
  <2> SUFFICES ASSUME NEW x \in S PROVE x <= y
    OBVIOUS
  <2>1. PICK i \in 1..n : f[i] = x
    OBVIOUS
  <2>2. i \in 1..(n - m)
    BY <1>6
  <2> QED
    BY <2>1, <2>2, <1>5
<1> QED
  BY <1>7 DEF Newest

LEMMA NextIterationType ==
  ASSUME NEW S \in SUBSET Run, IsFiniteSet(S)
  PROVE  NextIteration(S) \in Nat \ {0}
<1> DEFINE I == {0} \cup {r.iteration : r \in S}
<1>1. PICK n \in Nat : Surjection(1..n, S) # {}
  BY FS_NatSurjection DEF ExistsSurjection
<1>2. PICK f : f \in Surjection(1..n, S)
  BY <1>1
<1>3. f \in [1..n -> S] /\ \A r \in S : \E i \in 1..n : f[i] = r
  BY <1>2 DEF Surjection
<1>4. I \in SUBSET Nat /\ I # {}
  BY DEF Run
<1> DEFINE g == [i \in 1..(n + 1) |-> IF i \in 1..n THEN f[i].iteration ELSE 0]
<1>5. g \in [1..(n + 1) -> I]
  <2> SUFFICES ASSUME NEW i \in 1..(n + 1) PROVE g[i] \in I
    OBVIOUS
  <2> QED
    BY <1>3
<1>6. \A y \in I : \E i \in 1..(n + 1) : g[i] = y
  <2> SUFFICES ASSUME NEW y \in I PROVE \E i \in 1..(n + 1) : g[i] = y
    OBVIOUS
  <2>1. CASE y = 0
    <3>1. n + 1 \in 1..(n + 1) /\ n + 1 \notin 1..n
      OBVIOUS
    <3>2. g[n + 1] = 0
      BY <3>1
    <3> QED
      BY <3>1, <3>2, <2>1
  <2>2. CASE y # 0
    <3>1. PICK r \in S : r.iteration = y
      BY <2>2
    <3>2. PICK i \in 1..n : f[i] = r
      BY <1>3
    <3> QED
      BY <3>1, <3>2
  <2> QED
    BY <2>1, <2>2
<1>7. n + 1 \in Nat
  OBVIOUS
<1>8. Newest(I) \in I
  <2> HIDE DEF I, g
  <2> QED
    BY <1>4, <1>5, <1>6, <1>7, NewestExists
<1>9. Newest(I) \in Nat
  BY <1>4, <1>8
<1> QED
  BY <1>9 DEF NextIteration

-----------------------------------------------------------------------------
(* The skill beside the evals.                                             *)

\* No text is forgotten or rewritten.
TextsKept ==
  \A c \in 1..Len(contents) : c \in 1..Len(contents') /\ contents'[c] = contents[c]

\* The skill is not deleted by this step.
StaysLive ==
  /\ Live => Live'
  /\ skill'.state = "deleted" <=> skill.state = "deleted"
  /\ skill'.state = "none" => skill.state = "none"

LEMMA WriteGrows ==
  ASSUME SkillTypeOK, NEW v, NEW b, Write(v, b)
  PROVE  TextsKept /\ skill'.state = "live"
<1> DEFINE e == [version |-> v, base |-> b]
           R == [version : Versions, base : 0..MaxContents]
           T == R \cup {e}
<1>1. contents \in Seq(T) /\ e \in T
  <2>1. contents \in Seq(R)
    BY DEF SkillTypeOK
  <2>2. \A s \in Seq(R) : s \in Seq(T)
    <3> HIDE DEF R, e
    <3> QED
      OBVIOUS
  <2> QED
    BY <2>1, <2>2
<1>2. contents' = Append(contents, e)
  BY DEF Write
<1>3. /\ Len(contents) \in Nat /\ Len(contents') = Len(contents) + 1
      /\ \A c \in 1..Len(contents) : contents'[c] = contents[c]
  <2> HIDE DEF e, R, T
  <2> QED
    BY <1>1, <1>2
<1>4. skill'.state = "live"
  BY DEF Write
<1> QED
  BY <1>3, <1>4 DEF TextsKept

LEMMA ContinueGrows ==
  ASSUME SkillTypeOK, NEW p \in Procs, Continue(p)
  PROVE  TextsKept /\ StaysLive
<1>1. CASE UNCHANGED <<skill, contents>>
  BY <1>1 DEF TextsKept, StaysLive, Live
<1>2. CASE \E v, b : Write(v, b) /\ skill.state # "deleted"
  BY <1>2, WriteGrows DEF StaysLive, Live
<1>3. CASE GenerateCreate(p) \/ CreateInsert(p)
  BY <1>1, <1>2, <1>3 DEF GenerateCreate, CreateInsert, Creates
<1>4. CASE BumpWrite(p)
  BY <1>1, <1>2, <1>4 DEF BumpWrite, Matches, Live
<1>5. CASE UpdateWrite(p)
  BY <1>1, <1>2, <1>5 DEF UpdateWrite, Matches, Live
<1>6. CASE RefinePresave(p) \/ SnapshotNew(p) \/ HealSave(p) \/ SessionAppend(p)
           \/ DiagramSave(p) \/ SessionRead(p)
  BY <1>1, <1>6 DEF RefinePresave, SnapshotNew, HealSave, SaveSnapshot, SessionAppend,
                    DiagramSave, SessionRead, FixesRows
<1>7. CASE GenerateCheck(p) \/ GenerateModel(p) \/ RefineReadSkill(p)
           \/ RefineReadHistory(p) \/ RefineModel(p) \/ BumpExpect(p) \/ HealList(p)
           \/ HealFull(p) \/ UpdateExpect(p) \/ SessionLock(p) \/ DiagramSkill(p)
           \/ DiagramSnapshot(p) \/ DiagramCached(p) \/ DiagramModel(p)
  BY <1>1, <1>7 DEF GenerateCheck, GenerateModel, RefineReadSkill, RefineReadHistory,
     RefineModel, BumpExpect, HealList, HealFull, UpdateExpect, Expect, SessionLock,
     DiagramSkill, DiagramSnapshot, DiagramCached, DiagramModel, Reads
<1> QED
  BY <1>3, <1>4, <1>5, <1>6, <1>7 DEF Continue

LEMMA SkillGrows ==
  ASSUME SkillTypeOK, NEW p \in Procs,
         Begin(p) \/ Continue(p) \/ DeleteSession(p) \/ DeleteMessages(p)
           \/ DeleteRefused(p) \/ Abort(p)
  PROVE  TextsKept /\ StaysLive
<1>1. CASE UNCHANGED <<skill, contents>>
  BY <1>1 DEF TextsKept, StaysLive, Live
<1>2. CASE Begin(p)
  BY <1>1, <1>2 DEF Begin, GenerateStart, CreateStart, RefineStart, ApproveStart,
     HistoryStart, EditStart, RenameStart, DrawStart, DeleteStart, Starts
<1>3. CASE DeleteSession(p) \/ DeleteMessages(p) \/ DeleteRefused(p) \/ Abort(p)
  BY <1>1, <1>3 DEF DeleteSession, FixesRows, DeleteMessages, DeleteRefused, Reads, Abort
<1> QED
  BY <1>2, <1>3, ContinueGrows

\* A step on the evals leaves the skill to its own requests.
LEMMA NextSkill == [Next]_vars => [SkillNext]_svVars
<1> SUFFICES ASSUME Next PROVE [SkillNext]_svVars
  BY DEF vars
<1>1. ASSUME NEW p \in Procs, SkillStep(p) \/ CleansSession(p) \/ Delete(p)
      PROVE  SkillNext
  BY <1>1 DEF SkillNext, SkillStep, CleansSession, Delete, Deletes
<1>2. ASSUME NEW e \in EvalProcs, JobBegin(e) PROVE UNCHANGED svVars
  BY <1>2 DEF JobBegin, CreateCasesStart, JobStart, BenchmarkStart, DeleteRunStart,
              DeleteCaseStart
<1>3. ASSUME NEW e \in Busy, JobContinue(e) \/ Cancel(e) PROVE UNCHANGED svVars
  BY <1>3 DEF JobContinue, CreateCasesVersion, CreateCasesInsert, PrepareSnapshot,
     PrepareCases, PrepareRuns, StartBatch, EndBatches, PersistGlobal, PersistVersion,
     BenchmarkCompute, BenchmarkSave, DeleteRunRow, DeleteCaseRow, Invalidate, Cancel,
     OnlyJob
<1>4. ASSUME NEW x \in executions, Progress(x) PROVE UNCHANGED svVars
  BY <1>4 DEF Progress, ExecuteAndGrade, SaveRun, SaveFailedRun, Reject, ToStage, Stores
<1>5. ASSUME NEW p \in Procs, CleansUp(p) PROVE UNCHANGED svVars
  BY <1>5 DEF CleansUp, CleanRuns, CleanCases, CleanBenchmarks, Cleans
<1>6. CASE EvalNext
  BY <1>2, <1>3, <1>4, <1>6 DEF EvalNext
<1>7. CASE \E p \in Procs : SkillStep(p) \/ CleansUp(p) \/ CleansSession(p) \/ Delete(p)
  BY <1>1, <1>5, <1>7
<1> QED
  BY <1>6, <1>7 DEF Next

-----------------------------------------------------------------------------
(* What stays known.                                                       *)

LEMMA WrittenStays ==
  ASSUME TextsKept, NEW c, NEW v, WrittenUnder(c, v)
  PROVE  WrittenUnder(c, v)'
  BY DEF TextsKept, WrittenUnder

LEMMA RunStays ==
  ASSUME TextsKept, CaseIds \subseteq CaseIds', NEW r, RunKnown(r)
  PROVE  RunKnown(r)'
<1>1. PICK c, v : c = r.content /\ v = r.version
  OBVIOUS
<1>2. WrittenUnder(c, v)
  BY <1>1 DEF RunKnown
<1>3. WrittenUnder(c, v)'
  BY <1>2, WrittenStays
<1> QED
  BY <1>1, <1>3 DEF RunKnown

LEMMA ExecutionStays ==
  ASSUME TextsKept, NEW x, ExecutionKnown(x)
  PROVE  ExecutionKnown(x)'
<1>1. PICK c, v : c = x.content /\ v = x.version
  OBVIOUS
<1>2. WrittenUnder(c, v)'
  BY <1>1, WrittenStays DEF ExecutionKnown
<1> QED
  BY <1>1, <1>2 DEF ExecutionKnown

LEMMA StillKnows ==
  ASSUME TextsKept, CaseIds \subseteq CaseIds', NEW e, Knows(e), jobs'[e] = jobs[e],
         jobs[e].at \in CreatePoints => Len(cases') = Len(cases),
         \A k \in jobs[e].waits : \E x \in executions' : x.key = k
  PROVE  Knows(e)'
<1>1. PICK j : j = jobs[e] /\ j = jobs'[e]
  OBVIOUS
<1>2. PICK c, v : c = j.content /\ v = j.version
  OBVIOUS
<1>3. j.at \in TextPoints => WrittenUnder(c, v)'
  BY <1>1, <1>2, WrittenStays DEF Knows
<1>4. \A r \in j.existing \cup j.results : RunKnown(r)'
  BY <1>1, RunStays DEF Knows
<1>5. j.at \in CreatePoints => Len(cases') + j.repeat <= MaxCases
  BY <1>1 DEF Knows
<1>6. j.waits \subseteq {x.key : x \in executions'}
  BY <1>1
<1> QED
  BY <1>1, <1>2, <1>3, <1>4, <1>5, <1>6 DEF Knows

LEMMA RunsStay ==
  ASSUME TextsKept, CaseIds \subseteq CaseIds', RunsKnown,
         runs' \subseteq runs, UNCHANGED benchmarks
  PROVE  RunsKnown'
<1>1. \A r \in runs' : RunKnown(r)'
  BY RunStays DEF RunsKnown
<1>2. \A v \in Slots : \A r \in benchmarks[v].of : RunKnown(r)'
  BY RunStays DEF RunsKnown
<1> QED
  BY <1>1, <1>2 DEF RunsKnown

-----------------------------------------------------------------------------
(* Steps of the skill.                                                     *)

LEMMA NoneCounted ==
  ASSUME NEW v
  PROVE  Counted({}, v) = {} /\ NoRow.of = {}
  BY DEF Counted, NoRow

\* The requests on the evals keep what they know of a skill that changes.
LEMMA ControlStays ==
  ASSUME EvalInv, TextsKept, UNCHANGED <<cases, executions, jobs>>
  PROVE  Control'
<1>1. \A e \in EvalProcs : Sound(jobs'[e])
  BY DEF EvalInv, Control
<1>2. ASSUME NEW e \in EvalProcs PROVE Knows(e)'
  <2>1. Knows(e) /\ CaseIds \subseteq CaseIds'
    BY DEF EvalInv, Control, CaseIds
  <2>2. \A k \in jobs[e].waits : \E x \in executions' : x.key = k
    BY <2>1 DEF Knows
  <2> QED
    BY <2>1, <2>2, StillKnows
<1>3. \A e, f \in Creating' : e = f
  BY DEF EvalInv, Control, Creating
<1>4. \A x \in executions' : ExecutionKnown(x)'
  BY ExecutionStays DEF EvalInv, Control
<1>5. OneExecutionPerKey'
  BY DEF EvalInv, Control, OneExecutionPerKey
<1> QED
  BY <1>1, <1>2, <1>3, <1>4, <1>5 DEF Control

LEMMA SkillStepKeeps ==
  ASSUME EvalInv, SkillInv', TextsKept, StaysLive, UNCHANGED evalVars
  PROVE  EvalInv'
<1>1. UNCHANGED <<cases, caseRows, runs, benchmarks, executions, jobs, started,
                  undisturbed>>
  BY DEF evalVars, evalTables
<1>2. EvalTypes'
  BY <1>1 DEF EvalInv, EvalTypes, CaseIds
<1>3. Control'
  BY <1>1, ControlStays
<1>4. RunsKnown'
  BY <1>1, RunsStay DEF EvalInv, CaseIds
<1>5. Gone'
  BY <1>1 DEF EvalInv, Gone, StaysLive, Busy
<1>6. Tidy'
  <2> SUFFICES ASSUME undisturbed PROVE Tidy'
    BY <1>1 DEF Tidy
  <2>1. /\ \A e, f \in Busy' : e = f
        /\ \A x \in executions' : \E e \in EvalProcs : x.key \in jobs'[e].waits
    BY <1>1 DEF EvalInv, Tidy, Busy
  <2>2. CASE Live
    <3>1. /\ Busy = {} => \A v \in Slots : Exact(runs, v)
          /\ \A e \in Busy : Settles(e)
      BY <2>2 DEF EvalInv, Tidy
    <3>2. Busy' = {} => \A v \in Slots : Exact(runs, v)'
      BY <1>1, <3>1 DEF Exact, Busy
    <3>3. \A e \in Busy' : Settles(e)'
      BY <1>1, <3>1 DEF Settles, Exact, AllRuns, Busy
    <3> QED
      BY <2>1, <3>2, <3>3 DEF Tidy
  <2>3. CASE ~Live /\ Live'
    <3>1. skill.state = "none"
      BY <2>3 DEF StaysLive, Live, EvalInv, SkillInv, SkillTypeOK
    <3>2. Busy = {} /\ runs = {} /\ benchmarks = NoBenchmarks
      BY <2>3, <3>1 DEF EvalInv, Gone
    <3>3. \A v \in Slots : Exact(runs, v)'
      BY <1>1, <3>2 DEF Exact, NoBenchmarks
    <3> QED
      BY <1>1, <2>1, <3>2, <3>3 DEF Tidy, Busy
  <2>4. CASE ~Live'
    BY <2>1, <2>4 DEF Tidy
  <2> QED
    BY <2>2, <2>3, <2>4
<1> QED
  BY <1>2, <1>3, <1>4, <1>5, <1>6 DEF EvalInv

LEMMA DeleteStepKeeps ==
  ASSUME EvalInv, SkillInv', NEW p \in Procs, Delete(p)
  PROVE  EvalInv'
<1>1. /\ caseRows' = {} /\ runs' = {} /\ benchmarks' = NoBenchmarks
      /\ UNCHANGED <<cases, executions, jobs, started, undisturbed>>
      /\ UNCHANGED contents /\ skill'.state = "deleted"
  BY DEF Delete, DeleteSkill
<1>2. EvalTypes'
  <2>1. NoBenchmarks \in [Slots -> Benchmark]
    BY DEF NoBenchmarks, Benchmark
  <2> QED
    BY <1>1, <2>1, FS_EmptySet DEF EvalInv, EvalTypes, CaseIds
<1>3. TextsKept
  BY <1>1 DEF TextsKept
<1>4. Control'
  BY <1>1, <1>3, ControlStays
<1>5. RunsKnown'
  BY <1>1, NoneCounted DEF RunsKnown, NoBenchmarks
<1>6. Gone'
  BY <1>1 DEF Gone, Live
<1>7. Tidy'
  BY <1>1 DEF EvalInv, Tidy, Live, Busy
<1> QED
  BY <1>2, <1>4, <1>5, <1>6, <1>7 DEF EvalInv

-----------------------------------------------------------------------------
(* Steps of one request.                                                   *)

\* The request of e becomes j, the others stay.
Puts(e, j) ==
  /\ jobs' \in [EvalProcs -> Job]
  /\ jobs'[e] = j
  /\ \A f \in EvalProcs \ {e} : jobs'[f] = jobs[f]

LEMMA PutFacts ==
  ASSUME EvalInv, NEW e \in EvalProcs, NEW j \in Job, jobs' = [jobs EXCEPT ![e] = j]
  PROVE  Puts(e, j)
  BY DEF EvalInv, EvalTypes, Puts

LEMMA SkillSame ==
  ASSUME EvalInv, UNCHANGED svVars
  PROVE  /\ SkillInv' /\ TextsKept
         /\ UNCHANGED <<skill, contents, snapshots>>
<1>1. SkillInv'
  BY StepInv DEF EvalInv
<1>2. UNCHANGED <<skill, contents, snapshots>>
  BY DEF svVars, tables
<1> QED
  BY <1>1, <1>2 DEF TextsKept

LEMMA PutControl ==
  ASSUME EvalInv, NEW e \in EvalProcs, NEW j \in Job, Puts(e, j),
         UNCHANGED <<svVars, cases, executions>>, Sound(j), Knows(e)',
         j.op = "createCase" => jobs[e].op = "createCase" \/ Creating = {}
  PROVE  Control'
<1>1. \A f \in EvalProcs : Sound(jobs'[f])
  BY DEF Puts, EvalInv, Control
<1>2. ASSUME NEW f \in EvalProcs, f # e PROVE Knows(f)'
  <2>1. Knows(f) /\ CaseIds \subseteq CaseIds' /\ jobs'[f] = jobs[f]
    BY <1>2 DEF Puts, EvalInv, Control, CaseIds
  <2>2. \A k \in jobs[f].waits : \E x \in executions' : x.key = k
    BY <2>1 DEF Knows
  <2> QED
    BY <2>1, <2>2, StillKnows, SkillSame
<1>3. \A f, g \in Creating' : f = g
  BY DEF Puts, EvalInv, Control, Creating
<1>4. \A x \in executions' : ExecutionKnown(x)'
  BY ExecutionStays, SkillSame DEF EvalInv, Control
<1>5. OneExecutionPerKey'
  BY DEF EvalInv, Control, OneExecutionPerKey
<1> QED
  BY <1>1, <1>2, <1>3, <1>4, <1>5 DEF Control

LEMMA PutTidy ==
  ASSUME EvalInv, NEW e \in EvalProcs, NEW j \in Job, Puts(e, j),
         UNCHANGED executions, undisturbed' => undisturbed,
         j.waits = jobs[e].waits,
         undisturbed' => e \in Busy \/ Busy = {},
         undisturbed' /\ Live' => IF j = Resting THEN \A v \in Slots : Exact(runs, v)'
                                                 ELSE Settles(e)'
  PROVE  Tidy'
<1> SUFFICES ASSUME undisturbed' PROVE Tidy'
  BY DEF Tidy
<1>1. Busy' = IF j = Resting THEN {} ELSE {e}
  <2>1. \A f \in EvalProcs \ {e} : jobs[f] = Resting
    BY DEF EvalInv, Tidy, Busy
  <2> QED
    BY <2>1 DEF Puts, Busy
<1>2. \A x \in executions' : \E f \in EvalProcs : x.key \in jobs'[f].waits
  <2> SUFFICES ASSUME NEW x \in executions
               PROVE  \E f \in EvalProcs : x.key \in jobs'[f].waits
    OBVIOUS
  <2>1. PICK f \in EvalProcs : x.key \in jobs[f].waits
    BY DEF EvalInv, Tidy
  <2>2. jobs'[f].waits = jobs[f].waits
    BY DEF Puts
  <2> QED
    BY <2>1, <2>2
<1> QED
  BY <1>1, <1>2 DEF Tidy

LEMMA OnlyJobKeeps ==
  ASSUME EvalInv, NEW e \in EvalProcs, NEW j \in Job, jobs' = [jobs EXCEPT ![e] = j],
         OnlyJob, jobs[e] # Resting, Sound(j), Knows(e)', j.waits = jobs[e].waits,
         j.op = "createCase" => jobs[e].op = "createCase",
         undisturbed /\ Live => IF j = Resting THEN \A v \in Slots : Exact(runs, v)
                                               ELSE Settles(e)'
  PROVE  EvalInv'
<1>1. Puts(e, j)
  BY PutFacts
<1>2. /\ UNCHANGED <<cases, caseRows, runs, benchmarks>>
      /\ UNCHANGED <<executions, started, undisturbed, svVars>>
  BY DEF OnlyJob, evalTables
<1>3. SkillInv' /\ TextsKept /\ UNCHANGED skill
  BY <1>2, SkillSame
<1>4. EvalTypes'
  BY <1>1, <1>2 DEF Puts, EvalInv, EvalTypes, CaseIds
<1>5. Control'
  BY <1>1, <1>2, PutControl
<1>6. RunsKnown'
  BY <1>2, <1>3, RunsStay DEF EvalInv, CaseIds
<1>7. e \in Busy
  BY DEF Busy
<1>8. Gone'
  BY <1>2, <1>3, <1>7 DEF EvalInv, Gone, Live
<1>9. Tidy'
  <2>1. (\A v \in Slots : Exact(runs, v)) => \A v \in Slots : Exact(runs, v)'
    BY <1>2 DEF Exact
  <2>2. Live' => Live
    BY <1>3 DEF Live
  <2> QED
    BY <1>1, <1>2, <1>7, <2>1, <2>2, PutTidy
<1> QED
  BY <1>3, <1>4, <1>5, <1>6, <1>8, <1>9 DEF EvalInv

LEMMA RestingSound ==
  ASSUME NEW e, jobs'[e] = Resting
  PROVE  Sound(Resting) /\ Knows(e)'
<1>1. Sound(Resting)
  BY RestingFacts DEF Sound, CreatePoints, PreparePoints, BatchPoints
<1>2. Knows(e)'
  BY RestingFacts DEF Knows, TextPoints, CreatePoints
<1> QED
  BY <1>1, <1>2

\* A request that is over leaves exact what it says it leaves so.
LEMMA EndJobKeeps ==
  ASSUME EvalInv, NEW e \in EvalProcs, jobs[e] # Resting, jobs[e].waits = {},
         EndJob(e), OnlyJob,
         undisturbed /\ Live => \A v \in Slots : Exact(runs, v)
  PROVE  EvalInv'
<1>1. Resting \in Job /\ Resting.waits = {} /\ Resting.op = "none"
  BY RestingFacts
<1>2. jobs' = [jobs EXCEPT ![e] = Resting]
  BY DEF EndJob
<1>3. jobs'[e] = Resting
  BY <1>2 DEF EvalInv, EvalTypes
<1>4. Sound(Resting) /\ Knows(e)'
  BY <1>3, RestingSound
<1> QED
  BY <1>1, <1>2, <1>4, OnlyJobKeeps

LEMMA AtWork ==
  ASSUME EvalInv, NEW e \in EvalProcs, jobs[e].at # "idle"
  PROVE  /\ jobs[e] \in Job /\ Sound(jobs[e]) /\ Knows(e) /\ jobs[e] # Resting
         /\ jobs[e].at # "batch" => jobs[e].waits = {}
         /\ undisturbed /\ Live => Settles(e)
<1>1. jobs[e] \in Job /\ Sound(jobs[e]) /\ Knows(e)
  BY DEF EvalInv, EvalTypes, Control
<1>2. jobs[e] # Resting
  BY RestingFacts
<1>3. jobs[e].at # "batch" => jobs[e].waits = {}
  BY <1>1 DEF Sound
<1> QED
  BY <1>1, <1>2, <1>3 DEF EvalInv, Tidy, Busy

LEMMA CreateCasesVersionKeeps ==
  ASSUME EvalInv, NEW e \in EvalProcs, CreateCasesVersion(e)
  PROVE  EvalInv'
<1>1. jobs[e].at = "createCase:version" /\ OnlyJob
  BY DEF CreateCasesVersion, AtJob
<1>2. /\ jobs[e] \in Job /\ Sound(jobs[e]) /\ Knows(e) /\ jobs[e] # Resting
      /\ jobs[e].waits = {} /\ (undisturbed /\ Live => Settles(e))
  BY <1>1, AtWork
<1>3. undisturbed /\ Live => \A v \in Slots : Exact(runs, v)
  BY <1>1, <1>2 DEF Settles, CreatePoints
<1>4. CASE Live
  <2>1. PICK o \in Job : o = jobs[e]
    BY <1>2
  <2>2. PICK v \in Versions : v = skill.version
    BY <1>4, RowText DEF EvalInv
  <2> DEFINE j == [o EXCEPT !.at = "createCase:insert", !.version = v]
  <2>3. jobs' = [jobs EXCEPT ![e] = j]
    BY <1>1, <1>4, <2>1, <2>2 DEF CreateCasesVersion, EvalInv, EvalTypes
  <2>4. j \in Job
    <3>1. v \in 0..MaxContents /\ "createCase:insert" \in JobSteps
      BY ConstantsAssumption DEF Versions, JobSteps
    <3> QED
      BY <3>1 DEF Job
  <2>5. /\ j.at = "createCase:insert" /\ j.version = v /\ j.waits = o.waits /\ j.op = o.op
        /\ j.id = o.id /\ j.repeat = o.repeat /\ j.results = o.results
        /\ j.existing = o.existing
    BY DEF Job
  <2>6. Sound(j)
    <3> HIDE DEF j
    <3> QED
      BY <1>1, <1>2, <2>1, <2>5 DEF Sound, CreatePoints, PreparePoints, BatchPoints
  <2> HIDE DEF j
  <2>7. jobs'[e] = j /\ UNCHANGED <<cases, executions, benchmarks, runs, contents, skill>>
    BY <1>1, <2>3 DEF OnlyJob, evalTables, svVars, EvalInv, EvalTypes
  <2>8. Knows(e)'
    BY <1>1, <1>2, <2>1, <2>5, <2>7 DEF Knows, TextPoints, CreatePoints, RunKnown,
       WrittenUnder, CaseIds
  <2>9. undisturbed /\ Live => Settles(e)'
    BY <1>3, <2>5, <2>7 DEF Settles, BatchPoints, Exact
  <2>10. j # Resting
    BY <2>5, RestingFacts
  <2> QED
    BY <1>1, <1>2, <2>1, <2>3, <2>4, <2>5, <2>6, <2>8, <2>9, <2>10, OnlyJobKeeps
<1>5. CASE ~Live
  <2>1. EndJob(e)
    BY <1>5 DEF CreateCasesVersion
  <2> QED
    BY <1>1, <1>2, <1>3, <2>1, EndJobKeeps
<1> QED
  BY <1>4, <1>5

LEMMA PrepareSnapshotKeeps ==
  ASSUME EvalInv, NEW e \in EvalProcs, PrepareSnapshot(e)
  PROVE  EvalInv'
<1>1. jobs[e].at = "prepare:snapshot" /\ OnlyJob
  BY DEF PrepareSnapshot, AtJob
<1>2. /\ jobs[e] \in Job /\ Sound(jobs[e]) /\ Knows(e) /\ jobs[e] # Resting
      /\ jobs[e].waits = {} /\ (undisturbed /\ Live => Settles(e))
  BY <1>1, AtWork
<1>3. undisturbed /\ Live => \A v \in Slots : Exact(runs, v)
  BY <1>1, <1>2 DEF Settles, PreparePoints
<1>4. PICK o \in Job : o = jobs[e]
  BY <1>2
<1>5. o.version \in Versions
  BY <1>1, <1>2, <1>4 DEF Sound
<1>6. PICK c \in 0..MaxContents : c = snapshots[o.version]
  BY <1>5 DEF EvalInv, SkillInv, SkillTypeOK
<1>7. CASE c # 0
  <2> DEFINE j == [o EXCEPT !.at = "prepare:cases", !.content = c]
  <2>1. jobs' = [jobs EXCEPT ![e] = j]
    BY <1>4, <1>6, <1>7 DEF PrepareSnapshot, EvalInv, EvalTypes
  <2>2. j \in Job
    <3>1. "prepare:cases" \in JobSteps
      BY DEF JobSteps
    <3> QED
      BY <3>1 DEF Job
  <2>3. /\ j.at = "prepare:cases" /\ j.content = c /\ j.version = o.version
        /\ j.waits = o.waits /\ j.op = o.op /\ j.id = o.id /\ j.results = o.results
        /\ j.existing = o.existing /\ j.pos = o.pos
    BY DEF Job
  <2> HIDE DEF j
  <2>4. Sound(j)
    BY <1>1, <1>2, <1>4, <2>3 DEF Sound, CreatePoints, PreparePoints, BatchPoints
  <2>5. jobs'[e] = j /\ UNCHANGED <<cases, executions, benchmarks, runs, contents, skill>>
    BY <1>1, <2>1 DEF OnlyJob, evalTables, svVars, EvalInv, EvalTypes
  <2>6. WrittenUnder(c, o.version)
    BY <1>5, <1>6, <1>7 DEF EvalInv, SkillInv, DataInv, Filed
  <2>7. Knows(e)'
    BY <1>1, <1>2, <1>4, <2>3, <2>5, <2>6 DEF Knows, TextPoints, CreatePoints, RunKnown,
       WrittenUnder, CaseIds
  <2>8. undisturbed /\ Live => Settles(e)'
    BY <1>3, <2>3, <2>5 DEF Settles, BatchPoints, Exact
  <2>9. j # Resting
    BY <2>3, RestingFacts
  <2> QED
    BY <1>1, <1>2, <1>4, <2>1, <2>2, <2>3, <2>4, <2>7, <2>8, <2>9, OnlyJobKeeps
<1>8. CASE c = 0
  <2>1. EndJob(e)
    BY <1>4, <1>6, <1>8 DEF PrepareSnapshot
  <2> QED
    BY <1>1, <1>2, <1>3, <2>1, EndJobKeeps
<1> QED
  BY <1>7, <1>8

LEMMA PrepareCasesKeeps ==
  ASSUME EvalInv, NEW e \in EvalProcs, PrepareCases(e)
  PROVE  EvalInv'
<1>1. jobs[e].at = "prepare:cases" /\ OnlyJob
  BY DEF PrepareCases, AtJob
<1>2. /\ jobs[e] \in Job /\ Sound(jobs[e]) /\ Knows(e) /\ jobs[e] # Resting
      /\ jobs[e].waits = {} /\ (undisturbed /\ Live => Settles(e))
  BY <1>1, AtWork
<1>3. undisturbed /\ Live => \A v \in Slots : Exact(runs, v)
  BY <1>1, <1>2 DEF Settles, PreparePoints
<1>4. PICK o \in Job : o = jobs[e]
  BY <1>2
<1>5. PICK S \in {caseRows} \cup {{c} : c \in caseRows} :
        LET chosen == {c \in S : Eligible(e, c)} IN
        IF chosen = {} THEN EndJob(e)
          ELSE jobs' = [jobs EXCEPT ![e].at = "prepare:runs", ![e].cases = chosen,
                                    ![e].targeted = FALSE]
  BY DEF PrepareCases
<1>6. PICK C : C = {c \in S : Eligible(e, c)}
  OBVIOUS
<1>7. CASE C # {}
  <2> DEFINE j == [o EXCEPT !.at = "prepare:runs", !.cases = C, !.targeted = FALSE]
  <2>1. jobs' = [jobs EXCEPT ![e] = j]
    BY <1>4, <1>5, <1>6, <1>7 DEF EvalInv, EvalTypes
  <2>2. C \in SUBSET (1..MaxCases)
    <3>1. S \subseteq caseRows /\ caseRows \subseteq 1..MaxCases
      BY EvalAssumption DEF EvalInv, EvalTypes, CaseIds
    <3> QED
      BY <1>6, <3>1
  <2>3. j \in Job
    <3>1. "prepare:runs" \in JobSteps
      BY DEF JobSteps
    <3> QED
      BY <2>2, <3>1 DEF Job
  <2>4. /\ j.at = "prepare:runs" /\ j.content = o.content /\ j.version = o.version
        /\ j.waits = o.waits /\ j.op = o.op /\ j.id = o.id /\ j.results = o.results
        /\ j.existing = o.existing /\ j.pos = o.pos
    BY DEF Job
  <2> HIDE DEF j
  <2>5. Sound(j)
    BY <1>1, <1>2, <1>4, <2>4 DEF Sound, CreatePoints, PreparePoints, BatchPoints
  <2>6. jobs'[e] = j /\ UNCHANGED <<cases, executions, benchmarks, runs, contents, skill>>
    BY <1>1, <2>1 DEF OnlyJob, evalTables, svVars, EvalInv, EvalTypes
  <2>7. Knows(e)'
    BY <1>1, <1>2, <1>4, <2>4, <2>6 DEF Knows, TextPoints, CreatePoints, RunKnown,
       WrittenUnder, CaseIds
  <2>8. undisturbed /\ Live => Settles(e)'
    BY <1>3, <2>4, <2>6 DEF Settles, BatchPoints, Exact
  <2>9. j # Resting
    BY <2>4, RestingFacts
  <2> QED
    BY <1>1, <1>2, <1>4, <2>1, <2>3, <2>4, <2>5, <2>7, <2>8, <2>9, OnlyJobKeeps
<1>8. CASE C = {}
  <2>1. EndJob(e)
    BY <1>5, <1>6, <1>8
  <2> QED
    BY <1>1, <1>2, <1>3, <2>1, EndJobKeeps
<1> QED
  BY <1>7, <1>8

\* A batch that has not started has nothing to account for.
LEMMA BookOpens ==
  ASSUME NEW j \in Job, j.pos = 0, j.waits = {}, j.results = {}
  PROVE  Book(j)
<1>1. Total(j) \in Nat
  BY TotalType
<1>2. 0..(0 - 1) = {} /\ 0 <= Total(j)
  BY <1>1
<1>3. StartedKeys(j) = {}
  BY <1>2 DEF StartedKeys
<1> QED
  BY <1>2, <1>3 DEF Book

LEMMA PrepareRunsKeeps ==
  ASSUME EvalInv, NEW e \in EvalProcs, PrepareRuns(e)
  PROVE  EvalInv'
<1>1. jobs[e].at = "prepare:runs" /\ OnlyJob
  BY DEF PrepareRuns, AtJob
<1>2. /\ jobs[e] \in Job /\ Sound(jobs[e]) /\ Knows(e) /\ jobs[e] # Resting
      /\ jobs[e].waits = {} /\ (undisturbed /\ Live => Settles(e))
  BY <1>1, AtWork
<1>3. undisturbed /\ Live => \A v \in Slots : Exact(runs, v)
  BY <1>1, <1>2 DEF Settles, PreparePoints
<1>4. PICK o \in Job : o = jobs[e]
  BY <1>2
<1>5. PICK S \in SUBSET Run : S = runs
  BY DEF EvalInv, EvalTypes
<1>6. PICK i \in Nat \ {0} : i = NextIteration(S)
  BY <1>5, NextIterationType DEF EvalInv, EvalTypes
<1> DEFINE j == [o EXCEPT !.at = "batch", !.existing = S, !.iteration = i]
<1>7. jobs' = [jobs EXCEPT ![e] = j]
  BY <1>4, <1>5, <1>6 DEF PrepareRuns, EvalInv, EvalTypes
<1>8. j \in Job
  <2>1. "batch" \in JobSteps
    BY DEF JobSteps
  <2> QED
    BY <2>1 DEF Job
<1>9. /\ j.at = "batch" /\ j.content = o.content /\ j.version = o.version
      /\ j.waits = o.waits /\ j.op = o.op /\ j.id = o.id /\ j.results = o.results
      /\ j.existing = S /\ j.pos = o.pos /\ j.iteration = i
  BY DEF Job
<1> HIDE DEF j
<1>10. o.pos = 0 /\ o.results = {} /\ o.waits = {}
  BY <1>1, <1>2, <1>4 DEF Sound, PreparePoints
<1>11. UNCHANGED <<cases, executions, benchmarks, runs, contents, skill>>
  BY <1>1 DEF OnlyJob, evalTables, svVars
<1>12. jobs'[e] = j
  BY <1>7 DEF EvalInv, EvalTypes
<1>13. WrittenUnder(o.content, o.version) /\ o.version \in Versions
  <2>1. WrittenUnder(o.content, o.version)
    BY <1>1, <1>2, <1>4 DEF Knows, TextPoints
  <2>2. \A c \in 1..Len(contents) : contents[c].version \in Versions
    BY TextVersion DEF EvalInv, SkillInv, SkillTypeOK
  <2> QED
    BY <2>1, <2>2 DEF WrittenUnder
<1>14. Sound(j)
  <2>1. Book(j)
    BY <1>8, <1>9, <1>10, BookOpens
  <2> QED
    BY <1>1, <1>2, <1>4, <1>9, <1>10, <1>13, <2>1
    DEF Sound, CreatePoints, PreparePoints, BatchPoints
<1>15. Knows(e)'
  <2>1. \A r \in j.existing \cup j.results : RunKnown(r)
    BY <1>5, <1>9, <1>10 DEF EvalInv, RunsKnown
  <2>2. \A r \in j.existing \cup j.results : RunKnown(r)'
    BY <1>11, <2>1 DEF RunKnown, WrittenUnder, CaseIds
  <2> QED
    BY <1>9, <1>10, <1>11, <1>12, <1>13, <2>2 DEF Knows, TextPoints, CreatePoints,
       WrittenUnder
<1>16. undisturbed /\ Live => Settles(e)'
  BY <1>3, <1>5, <1>9, <1>10, <1>11, <1>12 DEF Settles, PreparePoints, CreatePoints,
     BatchPoints, Exact, AllRuns
<1>17. j # Resting
  BY <1>9, RestingFacts
<1> QED
  BY <1>1, <1>2, <1>4, <1>7, <1>8, <1>9, <1>14, <1>15, <1>16, <1>17, OnlyJobKeeps

LEMMA BookBalances ==
  ASSUME NEW j \in Job, j.version \in Versions, Book(j), j.waits = {}, j.pos = Total(j)
  PROVE  Cardinality(j.results) = Total(j)
<1>1. PICK t \in Nat : t = Total(j)
  BY TotalType
<1> DEFINE I == 0..t - 1
           R == j.results
           k(i) == Key(j, i)
           h == [i \in I |-> CHOOSE r \in R : r.key = k(i)]
<1>2. IsFiniteSet(I) /\ Cardinality(I) = t
  <2>1. 0 \in Int /\ t - 1 \in Int
    OBVIOUS
  <2>2. IsFiniteSet(I) /\ Cardinality(I) = IF 0 > t - 1 THEN 0 ELSE t - 1 - 0 + 1
    BY <2>1, FS_Interval
  <2> QED
    BY <2>2
<1>3. \A i \in I : i \in Nat /\ k(i)[3] = i
  <2> SUFFICES ASSUME NEW i \in I PROVE i \in Nat /\ k(i)[3] = i
    OBVIOUS
  <2>1. i \in Nat
    OBVIOUS
  <2> QED
    BY <2>1, KeyFacts
<1>4. StartedKeys(j) = {k(i) : i \in I}
  BY <1>1 DEF StartedKeys
<1>5. /\ \A r \in R : \E i \in I : r.key = k(i)
      /\ \A i \in I : \E r \in R : r.key = k(i)
      /\ \A r, s \in R : r.key = s.key => r = s
  <2> HIDE DEF k, I
  <2> QED
    BY <1>4 DEF Book
<1> HIDE DEF I, R, k
<1>6. \A i \in I : h[i] \in R /\ h[i].key = k(i)
  BY <1>5
<1> HIDE DEF h
<1>7. h \in [I -> R]
  BY <1>6 DEF h
<1>8. \A a, b \in I : h[a] = h[b] => a = b
  BY <1>3, <1>6
<1>9. \A r \in R : \E i \in I : h[i] = r
  BY <1>5, <1>6
<1>10. h \in Bijection(I, R)
  BY <1>7, <1>8, <1>9 DEF Bijection, Injection, Surjection, IsInjective
<1>11. Cardinality(R) = Cardinality(I)
  BY <1>2, <1>10, FS_Bijection DEF ExistsBijection
<1> QED
  BY <1>1, <1>2, <1>11 DEF R

LEMMA EndBatchesKeeps ==
  ASSUME EvalInv, NEW e \in EvalProcs, EndBatches(e)
  PROVE  EvalInv'
<1>1. /\ jobs[e].at = "batch" /\ OnlyJob /\ jobs[e].waits = {}
      /\ jobs[e].pos = Total(jobs[e]) \/ jobs[e].aborted
  BY DEF EndBatches, AtJob
<1>2. /\ jobs[e] \in Job /\ Sound(jobs[e]) /\ Knows(e) /\ jobs[e] # Resting
      /\ (undisturbed /\ Live => Settles(e))
  BY <1>1, AtWork
<1>3. PICK o \in Job : o = jobs[e]
  BY <1>2
<1> DEFINE j == [o EXCEPT !.at = "persist:global"]
<1>4. jobs' = [jobs EXCEPT ![e] = j]
  BY <1>3 DEF EndBatches, JobGoto, EvalInv, EvalTypes
<1>5. j \in Job
  <2>1. "persist:global" \in JobSteps
    BY DEF JobSteps
  <2> QED
    BY <2>1 DEF Job
<1>6. /\ j.at = "persist:global" /\ j.content = o.content /\ j.version = o.version
      /\ j.waits = o.waits /\ j.op = o.op /\ j.id = o.id /\ j.results = o.results
      /\ j.existing = o.existing /\ j.pos = o.pos /\ j.aborted = o.aborted
      /\ j.cases = o.cases /\ j.repeat = o.repeat
  BY DEF Job
<1> HIDE DEF j
<1>7. Total(j) = Total(o)
  BY <1>6 DEF Total
<1>8. Sound(j)
  <2>1. ~o.aborted => Cardinality(o.results) = Total(o)
    BY <1>1, <1>2, <1>3, BookBalances DEF Sound
  <2> QED
    BY <1>1, <1>2, <1>3, <1>6, <1>7, <2>1 DEF Sound, CreatePoints, PreparePoints, BatchPoints
<1>9. jobs'[e] = j /\ UNCHANGED <<cases, executions, benchmarks, runs, contents, skill>>
  BY <1>1, <1>4 DEF OnlyJob, evalTables, svVars, EvalInv, EvalTypes
<1>10. Knows(e)'
  BY <1>1, <1>2, <1>3, <1>6, <1>9 DEF Knows, TextPoints, CreatePoints, RunKnown,
     WrittenUnder, CaseIds
<1>11. undisturbed /\ Live => Settles(e)'
  BY <1>1, <1>2, <1>3, <1>6, <1>9 DEF Settles, BatchPoints, PreparePoints, CreatePoints,
     Exact, AllRuns
<1>12. j # Resting
  BY <1>6, RestingFacts
<1> QED
  BY <1>1, <1>2, <1>3, <1>4, <1>5, <1>6, <1>8, <1>10, <1>11, <1>12, OnlyJobKeeps

LEMMA BenchmarkComputeKeeps ==
  ASSUME EvalInv, NEW e \in EvalProcs, BenchmarkCompute(e)
  PROVE  EvalInv'
<1>1. jobs[e].at = "benchmark:compute" /\ OnlyJob
  BY DEF BenchmarkCompute, AtJob
<1>2. /\ jobs[e] \in Job /\ Sound(jobs[e]) /\ Knows(e) /\ jobs[e] # Resting
      /\ jobs[e].waits = {} /\ (undisturbed /\ Live => Settles(e))
  BY <1>1, AtWork
<1>3. PICK o \in Job : o = jobs[e]
  BY <1>2
<1>4. PICK S \in SUBSET Run : S = runs
  BY DEF EvalInv, EvalTypes
<1> DEFINE j == [o EXCEPT !.at = "benchmark:save", !.results = S]
<1>5. jobs' = [jobs EXCEPT ![e] = j]
  BY <1>3, <1>4 DEF BenchmarkCompute, EvalInv, EvalTypes
<1>6. j \in Job
  <2>1. "benchmark:save" \in JobSteps
    BY DEF JobSteps
  <2> QED
    BY <2>1 DEF Job
<1>7. /\ j.at = "benchmark:save" /\ j.waits = o.waits /\ j.op = o.op /\ j.id = o.id
      /\ j.results = S /\ j.existing = o.existing
  BY DEF Job
<1> HIDE DEF j
<1>8. Sound(j)
  BY <1>1, <1>2, <1>3, <1>7 DEF Sound, CreatePoints, PreparePoints, BatchPoints
<1>9. jobs'[e] = j /\ UNCHANGED <<cases, executions, benchmarks, runs, contents, skill>>
  BY <1>1, <1>5 DEF OnlyJob, evalTables, svVars, EvalInv, EvalTypes
<1>10. Knows(e)'
  <2>1. \A r \in j.existing \cup j.results : RunKnown(r)
    BY <1>2, <1>3, <1>4, <1>7 DEF EvalInv, RunsKnown, Knows
  <2>2. \A r \in j.existing \cup j.results : RunKnown(r)'
    BY <1>9, <2>1 DEF RunKnown, WrittenUnder, CaseIds
  <2> QED
    BY <1>2, <1>3, <1>7, <1>9, <2>2 DEF Knows, TextPoints, CreatePoints
<1>11. undisturbed /\ Live => Settles(e)'
  BY <1>1, <1>2, <1>3, <1>4, <1>7, <1>9 DEF Settles, BatchPoints, PreparePoints,
     CreatePoints, Exact
<1>12. j # Resting
  BY <1>7, RestingFacts
<1> QED
  BY <1>1, <1>2, <1>3, <1>5, <1>6, <1>7, <1>8, <1>10, <1>11, <1>12, OnlyJobKeeps

-----------------------------------------------------------------------------
(* Requests begin.                                                         *)

BeginPoints == {"createCase:version", "prepare:snapshot", "prepare:cases",
                "benchmark:compute", "deleteRun:row", "deleteCase:row"}

LEMMA BeginsKeeps ==
  ASSUME EvalInv, NEW e \in EvalProcs, NEW op, NEW job \in Job, BeginsJob(e, op, job),
         UNCHANGED <<svVars, evalTables, executions>>,
         job.at \in BeginPoints, job.at = "createCase:version" <=> job.op = "createCase",
         job.pos = 0, job.waits = {}, job.existing = {}, job.results \subseteq runs,
         job.results # {} => job.at = "deleteRun:row",
         job.at = "prepare:snapshot" => job.version \in Versions,
         job.at = "prepare:cases" => WrittenUnder(job.content, job.version),
         job.op = "createCase" => Creating = {} /\ Len(cases) + job.repeat <= MaxCases
  PROVE  EvalInv'
<1>1. /\ jobs[e] = Resting /\ started < MaxRequests /\ Live /\ started' = started + 1
      /\ jobs' = [jobs EXCEPT ![e] = [job EXCEPT !.id = started + 1]]
      /\ undisturbed' = (undisturbed /\ Busy = {} /\ executions = {})
  BY DEF BeginsJob
<1>2. PICK n \in 1..MaxRequests : n = started + 1
  BY <1>1, EvalAssumption DEF EvalInv, EvalTypes
<1> DEFINE j == [job EXCEPT !.id = n]
<1>3. jobs' = [jobs EXCEPT ![e] = j]
  BY <1>1, <1>2
<1>4. j \in Job
  <2>1. n \in 0..MaxRequests
    BY EvalAssumption
  <2> QED
    BY <2>1 DEF Job
<1>5. /\ j.at = job.at /\ j.content = job.content /\ j.version = job.version
      /\ j.waits = {} /\ j.op = job.op /\ j.id = n /\ j.results = job.results
      /\ j.existing = {} /\ j.pos = 0 /\ j.repeat = job.repeat
  BY DEF Job
<1> HIDE DEF j
<1>6. Puts(e, j) /\ jobs'[e] = j
  BY <1>3, <1>4, PutFacts DEF Puts
<1>7. UNCHANGED <<cases, caseRows, runs, benchmarks, executions, svVars>>
  BY DEF evalTables
<1>8. SkillInv' /\ TextsKept /\ UNCHANGED <<skill, contents>>
  BY <1>7, SkillSame
<1>9. EvalTypes'
  <2>1. started' \in 0..MaxRequests /\ undisturbed' \in BOOLEAN
    BY <1>1, <1>2, EvalAssumption
  <2> QED
    BY <1>6, <1>7, <2>1 DEF Puts, EvalInv, EvalTypes, CaseIds
<1>10. Sound(j)
  <2>1. n # 0
    BY EvalAssumption
  <2> QED
    BY <1>5, <2>1 DEF Sound, BeginPoints, CreatePoints, PreparePoints, BatchPoints
<1>11. Knows(e)'
  <2>1. \A r \in j.existing \cup j.results : RunKnown(r)'
    BY <1>5, <1>7, <1>8 DEF EvalInv, RunsKnown, RunKnown, WrittenUnder, CaseIds
  <2>2. j.at \in TextPoints => WrittenUnder(j.content, j.version)'
    BY <1>5, <1>8 DEF TextPoints, BeginPoints, WrittenUnder
  <2>3. j.at \in CreatePoints => Len(cases') + j.repeat <= MaxCases
    BY <1>5, <1>7 DEF CreatePoints, BeginPoints
  <2> QED
    BY <1>5, <1>6, <2>1, <2>2, <2>3 DEF Knows
<1>12. Control'
  BY <1>4, <1>5, <1>6, <1>7, <1>10, <1>11, PutControl
<1>13. RunsKnown'
  BY <1>7, <1>8, RunsStay DEF EvalInv, CaseIds
<1>14. Gone'
  BY <1>1, <1>8 DEF Gone, Live
<1>15. Tidy'
  <2>1. jobs[e].waits = {} /\ j # Resting
    BY <1>1, <1>5, RestingFacts DEF BeginPoints
  <2>2. ASSUME undisturbed' PROVE Settles(e)'
    <3>1. \A v \in Slots : Exact(runs, v)
      BY <1>1, <2>2 DEF EvalInv, Tidy
    <3>2. \A v \in Slots : Exact(runs, v)'
      BY <1>7, <3>1 DEF Exact
    <3> QED
      BY <1>5, <1>6, <3>2 DEF Settles, BeginPoints, BatchPoints
  <2>3. undisturbed' => undisturbed /\ Busy = {}
    BY <1>1
  <2> QED
    BY <1>4, <1>5, <1>6, <1>7, <2>1, <2>2, <2>3, PutTidy
<1> QED
  BY <1>8, <1>9, <1>12, <1>13, <1>14, <1>15 DEF EvalInv

LEMMA CreateCasesStartKeeps ==
  ASSUME EvalInv, NEW e \in EvalProcs, CreateCasesStart(e)
  PROVE  EvalInv'
<1>1. PICK n \in 1..MaxCases :
        /\ Creating = {} /\ Len(cases) + n <= MaxCases
        /\ BeginsJob(e, "createCase",
             [NewJob("createCase", "createCase:version") EXCEPT !.repeat = n])
        /\ UNCHANGED <<svVars, evalTables, executions>>
  BY DEF CreateCasesStart
<1>2. PICK o \in Job : /\ o = NewJob("createCase", "createCase:version")
                       /\ o.op = "createCase" /\ o.at = "createCase:version"
                       /\ o.pos = 0 /\ o.waits = {} /\ o.existing = {} /\ o.results = {}
  <2>1. "createCase" \in EvalOperations \cup {"none"} /\ "createCase:version" \in JobSteps
    BY DEF EvalOperations, JobSteps
  <2> QED
    BY <2>1, NewJobType
<1> DEFINE j == [o EXCEPT !.repeat = n]
<1>3. n \in Nat \ {0}
  BY EvalAssumption
<1>4. BeginsJob(e, "createCase", j)
  BY <1>1, <1>2
<1>5. /\ j \in Job /\ j.op = "createCase" /\ j.at = "createCase:version"
      /\ j.pos = 0 /\ j.waits = {} /\ j.existing = {} /\ j.results = {} /\ j.repeat = n
  BY <1>2, <1>3 DEF Job
<1> HIDE DEF j
<1> QED
  BY <1>1, <1>4, <1>5, BeginsKeeps DEF BeginPoints

LEMMA JobStartKeeps ==
  ASSUME EvalInv, NEW e \in EvalProcs, JobStart(e)
  PROVE  EvalInv'
<1>1. PICK op \in {"run", "stream"}, target \in 0..skill.version, n \in RunsPerCase :
        /\ BeginsJob(e, op,
             [NewJob(op, IF target = 0 THEN "prepare:cases" ELSE "prepare:snapshot")
                EXCEPT !.repeat = n,
                       !.targeted = (target # 0),
                       !.version = IF target = 0 THEN skill.version ELSE target,
                       !.content = IF target = 0 THEN skill.content ELSE 0])
        /\ UNCHANGED <<svVars, evalTables, executions>>
  BY DEF JobStart
<1>2. PICK s \in {"prepare:cases", "prepare:snapshot"} :
        s = IF target = 0 THEN "prepare:cases" ELSE "prepare:snapshot"
  OBVIOUS
<1>3. PICK o \in Job : /\ o = NewJob(op, s) /\ o.op = op /\ o.at = s
                       /\ o.pos = 0 /\ o.waits = {} /\ o.existing = {} /\ o.results = {}
  <2>1. op \in EvalOperations \cup {"none"} /\ s \in JobSteps
    BY DEF EvalOperations, JobSteps
  <2> QED
    BY <2>1, NewJobType
<1>4. Live
  BY <1>1 DEF BeginsJob
<1>5. /\ WrittenUnder(skill.content, skill.version) /\ skill.version \in Versions
      /\ skill.content \in 0..MaxContents /\ MaxContents \in Nat
  BY <1>4, RowText, ConstantsAssumption DEF EvalInv, SkillInv, SkillTypeOK
<1>6. PICK v \in Versions : v = IF target = 0 THEN skill.version ELSE target
  BY <1>5 DEF Versions
<1>7. PICK c \in 0..MaxContents : c = IF target = 0 THEN skill.content ELSE 0
  BY <1>5
<1>8. PICK t \in BOOLEAN : t = (target # 0)
  OBVIOUS
<1> DEFINE j == [o EXCEPT !.repeat = n, !.targeted = t, !.version = v, !.content = c]
<1>9. BeginsJob(e, op, j)
  BY <1>1, <1>2, <1>3, <1>6, <1>7, <1>8
<1>10. /\ j \in Job /\ j.op = op /\ j.at = s /\ j.pos = 0 /\ j.waits = {}
       /\ j.existing = {} /\ j.results = {} /\ j.version = v /\ j.content = c
  <2>1. n \in Nat \ {0} /\ v \in 0..MaxContents
    BY <1>5, EvalAssumption DEF Versions
  <2> QED
    BY <1>3, <2>1 DEF Job
<1> HIDE DEF j
<1>11. j.at = "prepare:cases" => WrittenUnder(j.content, j.version)
  BY <1>2, <1>5, <1>6, <1>7, <1>10
<1> QED
  BY <1>1, <1>9, <1>10, <1>11, BeginsKeeps DEF BeginPoints

LEMMA BenchmarkStartKeeps ==
  ASSUME EvalInv, NEW e \in EvalProcs, BenchmarkStart(e)
  PROVE  EvalInv'
<1>1. PICK v \in 0..skill.version :
        /\ BeginsJob(e, "benchmark",
             [NewJob("benchmark", "benchmark:compute") EXCEPT !.version = v])
        /\ UNCHANGED <<svVars, evalTables, executions>>
  BY DEF BenchmarkStart
<1>2. PICK o \in Job : /\ o = NewJob("benchmark", "benchmark:compute")
                       /\ o.op = "benchmark" /\ o.at = "benchmark:compute"
                       /\ o.pos = 0 /\ o.waits = {} /\ o.existing = {} /\ o.results = {}
  <2>1. "benchmark" \in EvalOperations \cup {"none"} /\ "benchmark:compute" \in JobSteps
    BY DEF EvalOperations, JobSteps
  <2> QED
    BY <2>1, NewJobType
<1> DEFINE j == [o EXCEPT !.version = v]
<1>3. v \in 0..MaxContents
  BY ConstantsAssumption DEF EvalInv, SkillInv, SkillTypeOK
<1>4. BeginsJob(e, "benchmark", j)
  BY <1>1, <1>2
<1>5. /\ j \in Job /\ j.op = "benchmark" /\ j.at = "benchmark:compute"
      /\ j.pos = 0 /\ j.waits = {} /\ j.existing = {} /\ j.results = {}
  BY <1>2, <1>3 DEF Job
<1> HIDE DEF j
<1> QED
  BY <1>1, <1>4, <1>5, BeginsKeeps DEF BeginPoints

LEMMA DeleteRunStartKeeps ==
  ASSUME EvalInv, NEW e \in EvalProcs, DeleteRunStart(e)
  PROVE  EvalInv'
<1>1. PICK r \in runs :
        /\ BeginsJob(e, "deleteRun",
             [NewJob("deleteRun", "deleteRun:row") EXCEPT !.results = {r}])
        /\ UNCHANGED <<svVars, evalTables, executions>>
  BY DEF DeleteRunStart
<1>2. PICK o \in Job : /\ o = NewJob("deleteRun", "deleteRun:row")
                       /\ o.op = "deleteRun" /\ o.at = "deleteRun:row"
                       /\ o.pos = 0 /\ o.waits = {} /\ o.existing = {}
  <2>1. "deleteRun" \in EvalOperations \cup {"none"} /\ "deleteRun:row" \in JobSteps
    BY DEF EvalOperations, JobSteps
  <2> QED
    BY <2>1, NewJobType
<1> DEFINE j == [o EXCEPT !.results = {r}]
<1>3. {r} \in SUBSET Run
  BY DEF EvalInv, EvalTypes
<1>4. BeginsJob(e, "deleteRun", j)
  BY <1>1, <1>2
<1>5. /\ j \in Job /\ j.op = "deleteRun" /\ j.at = "deleteRun:row"
      /\ j.pos = 0 /\ j.waits = {} /\ j.existing = {} /\ j.results = {r}
  BY <1>2, <1>3 DEF Job
<1> HIDE DEF j
<1> QED
  BY <1>1, <1>4, <1>5, BeginsKeeps DEF BeginPoints

LEMMA DeleteCaseStartKeeps ==
  ASSUME EvalInv, NEW e \in EvalProcs, DeleteCaseStart(e)
  PROVE  EvalInv'
<1>1. PICK c \in caseRows :
        /\ BeginsJob(e, "deleteCase",
             [NewJob("deleteCase", "deleteCase:row") EXCEPT !.cases = {c}])
        /\ UNCHANGED <<svVars, evalTables, executions>>
  BY DEF DeleteCaseStart
<1>2. PICK o \in Job : /\ o = NewJob("deleteCase", "deleteCase:row")
                       /\ o.op = "deleteCase" /\ o.at = "deleteCase:row"
                       /\ o.pos = 0 /\ o.waits = {} /\ o.existing = {} /\ o.results = {}
  <2>1. "deleteCase" \in EvalOperations \cup {"none"} /\ "deleteCase:row" \in JobSteps
    BY DEF EvalOperations, JobSteps
  <2> QED
    BY <2>1, NewJobType
<1> DEFINE j == [o EXCEPT !.cases = {c}]
<1>3. {c} \in SUBSET (1..MaxCases)
  BY EvalAssumption DEF EvalInv, EvalTypes, CaseIds
<1>4. BeginsJob(e, "deleteCase", j)
  BY <1>1, <1>2
<1>5. /\ j \in Job /\ j.op = "deleteCase" /\ j.at = "deleteCase:row"
      /\ j.pos = 0 /\ j.waits = {} /\ j.existing = {} /\ j.results = {}
  BY <1>2, <1>3 DEF Job
<1> HIDE DEF j
<1> QED
  BY <1>1, <1>4, <1>5, BeginsKeeps DEF BeginPoints

-----------------------------------------------------------------------------
(* Cases are inserted.                                                     *)

LEMMA CaseInserted ==
  ASSUME EvalInv, NEW v \in Versions, cases' = Append(cases, v)
  PROVE  /\ cases' \in Seq(Versions) /\ Len(cases') = Len(cases) + 1
         /\ Len(cases) \in Nat /\ CaseIds \subseteq CaseIds' /\ Len(cases') \in CaseIds'
<1>1. cases \in Seq(Versions)
  BY DEF EvalInv, EvalTypes
<1> HIDE DEF Versions
<1>2. cases' \in Seq(Versions) /\ Len(cases') = Len(cases) + 1 /\ Len(cases) \in Nat
  BY <1>1
<1>3. DOMAIN cases = 1..Len(cases) /\ DOMAIN cases' = 1..Len(cases')
  BY <1>1, <1>2
<1> QED
  BY <1>2, <1>3 DEF CaseIds

LEMMA CreateCasesInsertKeeps ==
  ASSUME EvalInv, NEW e \in EvalProcs, CreateCasesInsert(e)
  PROVE  EvalInv'
<1>1. /\ jobs[e].at = "createCase:insert"
      /\ UNCHANGED <<svVars, runs, benchmarks, executions, started, undisturbed>>
  BY DEF CreateCasesInsert, AtJob
<1>2. /\ jobs[e] \in Job /\ Sound(jobs[e]) /\ Knows(e) /\ jobs[e] # Resting
      /\ jobs[e].waits = {} /\ (undisturbed /\ Live => Settles(e))
  BY <1>1, AtWork
<1>3. undisturbed /\ Live => \A v \in Slots : Exact(runs, v)
  BY <1>1, <1>2 DEF Settles, CreatePoints
<1>4. PICK o \in Job : o = jobs[e]
  BY <1>2
<1>5. CASE ~Live
  <2>1. EndJob(e) /\ OnlyJob
    BY <1>1, <1>5 DEF CreateCasesInsert, OnlyJob, evalTables
  <2> QED
    BY <1>1, <1>2, <1>3, <2>1, EndJobKeeps
<1>6. CASE Live
  <2>1. PICK w \in Versions : w = o.version
    BY <1>1, <1>2, <1>4 DEF Sound
  <2>2. cases' = Append(cases, w) /\ caseRows' = caseRows \cup {Len(cases')}
    BY <1>4, <1>6, <2>1 DEF CreateCasesInsert
  <2>3. /\ cases' \in Seq(Versions) /\ Len(cases') = Len(cases) + 1
        /\ Len(cases) \in Nat /\ CaseIds \subseteq CaseIds' /\ Len(cases') \in CaseIds'
    BY <2>2, CaseInserted
  <2>4. o.repeat \in Nat \ {0} /\ Len(cases) + o.repeat <= MaxCases /\ MaxCases \in Nat
    BY <1>1, <1>2, <1>4, EvalAssumption DEF Knows, CreatePoints, Job
  <2> DEFINE j == IF o.repeat = 1 THEN Resting ELSE [o EXCEPT !.repeat = o.repeat - 1]
  <2>5. jobs' = [jobs EXCEPT ![e] = j]
    BY <1>4, <1>6 DEF CreateCasesInsert, EndJob, EvalInv, EvalTypes
  <2>6. o.op = "createCase" /\ o.id # 0
    BY <1>1, <1>2, <1>4 DEF Sound, CreatePoints
  <2>7. \/ j = Resting
        \/ /\ j \in Job /\ j.at = o.at /\ j.op = o.op /\ j.id = o.id
           /\ j.version = o.version /\ j.waits = o.waits /\ j.results = o.results
           /\ j.existing = o.existing /\ j.repeat = o.repeat - 1
           /\ j # Resting
    <3>1. CASE o.repeat # 1
      <4>1. o.repeat - 1 \in Nat \ {0}
        BY <2>4, <3>1
      <4>2. /\ j \in Job /\ j.at = o.at /\ j.op = o.op /\ j.id = o.id
            /\ j.version = o.version /\ j.waits = o.waits /\ j.results = o.results
            /\ j.existing = o.existing /\ j.repeat = o.repeat - 1
        BY <3>1, <4>1 DEF Job
      <4>3. j # Resting
        BY <4>2, <1>1, <1>4, RestingFacts
      <4> QED
        BY <4>2, <4>3
    <3> QED
      BY <3>1
  <2> HIDE DEF j
  <2>8. j \in Job /\ j.waits = {} /\ (j.op = "createCase" => jobs[e].op = "createCase")
    BY <1>2, <1>4, <2>6, <2>7, RestingFacts
  <2>9. Puts(e, j) /\ jobs'[e] = j
    BY <2>5, <2>8, PutFacts DEF Puts
  <2>10. SkillInv' /\ TextsKept /\ UNCHANGED <<skill, contents>>
    BY <1>1, SkillSame
  <2>11. Sound(j)
    <3>1. CASE j # Resting
      BY <1>1, <1>2, <1>4, <2>7, <3>1 DEF Sound, CreatePoints, PreparePoints, BatchPoints
    <3> QED
      BY <2>9, <3>1, RestingSound
  <2>12. Knows(e)'
    <3>1. CASE j # Resting
      <4>1. \A r \in j.existing \cup j.results : RunKnown(r)'
        BY <1>2, <1>4, <2>3, <2>7, <2>10, <3>1, RunStays DEF Knows
      <4>2. Len(cases') + j.repeat <= MaxCases
        BY <2>3, <2>4, <2>7, <3>1
      <4> QED
        BY <1>1, <1>2, <1>4, <2>7, <2>9, <3>1, <4>1, <4>2 DEF Knows, TextPoints, CreatePoints
    <3> QED
      BY <2>9, <3>1, RestingSound
  <2>13. Control'
    <3>1. \A f \in EvalProcs : Sound(jobs'[f])
      BY <2>9, <2>11 DEF Puts, EvalInv, Control
    <3>2. ASSUME NEW f \in EvalProcs, f # e PROVE Knows(f)'
      <4>1. Knows(f) /\ jobs'[f] = jobs[f] /\ Sound(jobs[f])
        BY <2>9, <3>2 DEF Puts, EvalInv, Control
      <4>2. jobs[f].op # "createCase"
        BY <1>4, <2>6, <3>2 DEF EvalInv, Control, Creating
      <4>3. jobs[f].at \notin CreatePoints
        BY <4>1, <4>2 DEF Sound
      <4>4. \A k \in jobs[f].waits : \E x \in executions' : x.key = k
        BY <1>1, <4>1 DEF Knows
      <4> QED
        BY <2>3, <2>10, <4>1, <4>3, <4>4, StillKnows
    <3>3. \A f, g \in Creating' : f = g
      BY <2>8, <2>9 DEF Puts, EvalInv, Control, Creating
    <3>4. \A x \in executions' : ExecutionKnown(x)'
      BY <1>1, <2>10, ExecutionStays DEF EvalInv, Control
    <3>5. OneExecutionPerKey'
      BY <1>1 DEF EvalInv, Control, OneExecutionPerKey
    <3> QED
      BY <2>12, <3>1, <3>2, <3>3, <3>4, <3>5 DEF Control
  <2>14. EvalTypes'
    <3>1. caseRows' \in SUBSET CaseIds'
      BY <2>2, <2>3 DEF EvalInv, EvalTypes
    <3>2. Len(cases') <= MaxCases
      BY <2>3, <2>4
    <3> QED
      BY <1>1, <2>3, <2>9, <3>1, <3>2 DEF Puts, EvalInv, EvalTypes
  <2>15. RunsKnown'
    BY <1>1, <2>3, <2>10, RunsStay DEF EvalInv
  <2>16. e \in Busy
    BY <1>2 DEF Busy
  <2>17. Gone'
    BY <1>1, <1>6, <2>10 DEF Gone, Live
  <2>18. Tidy'
    <3>1. undisturbed => \A v \in Slots : Exact(runs, v)'
      BY <1>1, <1>3, <1>6 DEF Exact
    <3>2. undisturbed /\ j # Resting => Settles(e)'
      BY <1>1, <1>4, <2>7, <2>9, <3>1 DEF Settles, BatchPoints
    <3> QED
      BY <1>1, <1>2, <2>8, <2>9, <2>16, <3>1, <3>2, PutTidy
  <2> QED
    BY <2>10, <2>13, <2>14, <2>15, <2>17, <2>18 DEF EvalInv
<1> QED
  BY <1>5, <1>6

-----------------------------------------------------------------------------
(* Benchmarks are saved and forgotten, rows deleted.                       *)

\* The request of e becomes j; the rows may only become fewer.
LEMMA TableStepKeeps ==
  ASSUME EvalInv, NEW e \in EvalProcs, NEW j \in Job, jobs' = [jobs EXCEPT ![e] = j],
         UNCHANGED <<svVars, cases, executions, started>>, jobs[e].at # "idle",
         Sound(j), Knows(e)', j.waits = jobs[e].waits,
         j.op = "createCase" => jobs[e].op = "createCase",
         undisturbed' \in BOOLEAN, undisturbed' => undisturbed,
         caseRows' \subseteq caseRows, runs' \subseteq runs,
         benchmarks' \in [Slots -> Benchmark],
         \A v \in Slots : \A r \in benchmarks'[v].of : RunKnown(r),
         ~Live => benchmarks' = NoBenchmarks,
         undisturbed' /\ Live' => IF j = Resting THEN \A v \in Slots : Exact(runs, v)'
                                                 ELSE Settles(e)'
  PROVE  EvalInv'
<1>1. Puts(e, j)
  BY PutFacts
<1>2. SkillInv' /\ TextsKept /\ UNCHANGED <<skill, contents>>
  BY SkillSame
<1>3. EvalTypes'
  <2>1. runs' \in SUBSET Run /\ IsFiniteSet(runs')
    BY FS_Subset DEF EvalInv, EvalTypes
  <2> QED
    BY <1>1, <2>1 DEF Puts, EvalInv, EvalTypes, CaseIds
<1>4. Control'
  BY <1>1, PutControl
<1>5. RunsKnown'
  BY <1>2 DEF EvalInv, RunsKnown, RunKnown, WrittenUnder, CaseIds
<1>6. e \in Busy
  BY RestingFacts DEF Busy
<1>7. Gone'
  BY <1>2, <1>6 DEF EvalInv, Gone, Live
<1>8. Tidy'
  BY <1>1, <1>6, PutTidy
<1> QED
  BY <1>2, <1>3, <1>4, <1>5, <1>7, <1>8 DEF EvalInv

LEMMA RowType ==
  ASSUME EvalInv, NEW v \in Slots, NEW S \in SUBSET Run, \A r \in S : RunKnown(r),
         benchmarks' = [benchmarks EXCEPT ![v] = Row(S)]
  PROVE  /\ benchmarks' \in [Slots -> Benchmark] /\ benchmarks'[v] = Row(S)
         /\ \A w \in Slots : w # v => benchmarks'[w] = benchmarks[w]
         /\ \A w \in Slots : \A r \in benchmarks'[w].of : RunKnown(r)
<1>1. Row(S) \in Benchmark /\ Row(S).of = S
  BY DEF Benchmark, Row
<1>2. /\ benchmarks' \in [Slots -> Benchmark] /\ benchmarks'[v] = Row(S)
      /\ \A w \in Slots : w # v => benchmarks'[w] = benchmarks[w]
  BY <1>1 DEF EvalInv, EvalTypes
<1>3. ASSUME NEW w \in Slots, NEW r \in benchmarks'[w].of PROVE RunKnown(r)
  BY <1>1, <1>2, <1>3 DEF EvalInv, RunsKnown
<1> QED
  BY <1>2, <1>3

\* The request of e ends after it changed benchmarks, or failed to.
LEMMA EndTableKeeps ==
  ASSUME EvalInv, NEW e \in EvalProcs, jobs[e].at \notin {"idle", "batch"}, EndJob(e),
         UNCHANGED <<svVars, cases, caseRows, runs, executions, started>>,
         undisturbed' \in BOOLEAN, undisturbed' => undisturbed,
         benchmarks' \in [Slots -> Benchmark],
         \A v \in Slots : \A r \in benchmarks'[v].of : RunKnown(r),
         ~Live => benchmarks' = NoBenchmarks,
         undisturbed' /\ Live' => \A v \in Slots : Exact(runs, v)'
  PROVE  EvalInv'
<1>1. Resting \in Job /\ Resting.waits = {} /\ Resting.op = "none"
  BY RestingFacts
<1>2. jobs' = [jobs EXCEPT ![e] = Resting]
  BY DEF EndJob
<1>3. jobs'[e] = Resting
  BY <1>2 DEF EvalInv, EvalTypes
<1>4. Sound(Resting) /\ Knows(e)'
  BY <1>3, RestingSound
<1>5. jobs[e].waits = {}
  BY AtWork
<1> QED
  BY <1>1, <1>2, <1>4, <1>5, TableStepKeeps

LEMMA SaveFails ==
  ASSUME EvalInv, NEW e \in EvalProcs, jobs[e].at \notin {"idle", "batch"},
         EndJob(e), undisturbed' = FALSE, UNCHANGED benchmarks,
         UNCHANGED <<svVars, cases, caseRows, runs, executions, started>>
  PROVE  EvalInv'
<1>1. /\ benchmarks' \in [Slots -> Benchmark]
      /\ \A v \in Slots : \A r \in benchmarks'[v].of : RunKnown(r)
      /\ ~Live => benchmarks' = NoBenchmarks
  BY DEF EvalInv, EvalTypes, RunsKnown, Gone
<1> QED
  BY <1>1, EndTableKeeps

LEMMA CountedKnown ==
  ASSUME NEW S \in SUBSET Run, NEW v, \A r \in S : RunKnown(r)
  PROVE  Counted(S, v) \in SUBSET Run /\ \A r \in Counted(S, v) : RunKnown(r)
  BY DEF Counted

LEMMA BenchmarkSaveKeeps ==
  ASSUME EvalInv, NEW e \in EvalProcs, BenchmarkSave(e)
  PROVE  EvalInv'
<1>1. /\ jobs[e].at = "benchmark:save"
      /\ UNCHANGED <<svVars, cases, caseRows, runs, executions, started>>
      /\ SavesBenchmark(e, jobs[e].version, Counted(jobs[e].results, jobs[e].version),
                        EndJob(e))
  BY DEF BenchmarkSave, AtJob
<1>2. /\ jobs[e] \in Job /\ Knows(e) /\ (undisturbed /\ Live => Settles(e))
  BY <1>1, AtWork
<1>3. PICK o \in Job : o = jobs[e]
  BY <1>2
<1>4. PICK v \in Slots : v = o.version
  BY DEF Job, Slots
<1>5. PICK S : S = Counted(o.results, v)
  OBVIOUS
<1>6. S \in SUBSET Run /\ \A r \in S : RunKnown(r)
  BY <1>2, <1>3, <1>5, CountedKnown DEF Knows, Job
<1>7. CASE Live /\ benchmarks' = [benchmarks EXCEPT ![v] = Row(S)] /\ EndJob(e)
           /\ UNCHANGED undisturbed
  <2>1. /\ benchmarks' \in [Slots -> Benchmark] /\ benchmarks'[v] = Row(S)
        /\ \A w \in Slots : w # v => benchmarks'[w] = benchmarks[w]
        /\ \A w \in Slots : \A r \in benchmarks'[w].of : RunKnown(r)
    BY <1>6, <1>7, RowType
  <2>2. ASSUME undisturbed PROVE \A w \in Slots : Exact(runs, w)'
    <3>1. o.results = runs /\ \A w \in Slots : Exact(runs, w)
      BY <1>1, <1>2, <1>3, <1>7, <2>2 DEF Settles
    <3> QED
      BY <1>1, <1>5, <2>1, <3>1 DEF Exact
  <2>3. undisturbed \in BOOLEAN
    BY DEF EvalInv, EvalTypes
  <2> QED
    BY <1>1, <1>7, <2>1, <2>2, <2>3, EndTableKeeps
<1>8. CASE EndJob(e) /\ undisturbed' = FALSE /\ UNCHANGED benchmarks
  BY <1>1, <1>8, SaveFails
<1> QED
  BY <1>1, <1>3, <1>4, <1>5, <1>7, <1>8 DEF SavesBenchmark

LEMMA PersistVersionKeeps ==
  ASSUME EvalInv, NEW e \in EvalProcs, PersistVersion(e)
  PROVE  EvalInv'
<1>1. /\ jobs[e].at = "persist:version"
      /\ UNCHANGED <<svVars, cases, caseRows, runs, executions, started>>
      /\ SavesBenchmark(e, jobs[e].version, Counted(AllRuns(e), jobs[e].version), EndJob(e))
  BY DEF PersistVersion, AtJob
<1>2. /\ jobs[e] \in Job /\ Sound(jobs[e]) /\ Knows(e)
      /\ (undisturbed /\ Live => Settles(e))
  BY <1>1, AtWork
<1>3. PICK o \in Job : o = jobs[e]
  BY <1>2
<1>4. PICK v \in Slots : v = o.version
  BY DEF Job, Slots
<1>5. PICK A \in SUBSET Run : A = o.existing \cup o.results
  BY DEF Job
<1>6. PICK S : S = Counted(A, v)
  OBVIOUS
<1>7. S \in SUBSET Run /\ \A r \in S : RunKnown(r)
  BY <1>2, <1>3, <1>5, <1>6, CountedKnown DEF Knows
<1>8. CASE Live /\ benchmarks' = [benchmarks EXCEPT ![v] = Row(S)] /\ EndJob(e)
           /\ UNCHANGED undisturbed
  <2>1. /\ benchmarks' \in [Slots -> Benchmark] /\ benchmarks'[v] = Row(S)
        /\ \A w \in Slots : w # v => benchmarks'[w] = benchmarks[w]
        /\ \A w \in Slots : \A r \in benchmarks'[w].of : RunKnown(r)
    BY <1>7, <1>8, RowType
  <2>2. ASSUME undisturbed, NEW w \in Slots PROVE Exact(runs, w)'
    <3>1. /\ A = runs /\ Exact(runs, 0)
          /\ \A u \in Slots \ {0} : Exact(o.existing, u)
      BY <1>1, <1>2, <1>3, <1>5, <1>8, <2>2 DEF Settles, BatchPoints, AllRuns
    <3>2. \A r \in o.results : r.version = v
      BY <1>1, <1>2, <1>3, <1>4 DEF Sound, BatchPoints
    <3>3. CASE w = v
      BY <1>1, <1>6, <2>1, <3>1, <3>3 DEF Exact
    <3>4. CASE w = 0 /\ w # v
      BY <1>1, <2>1, <3>1, <3>4 DEF Exact
    <3>5. CASE w # 0 /\ w # v
      <4>1. Counted(o.existing, w) = Counted(A, w)
        BY <1>5, <3>2, <3>5 DEF Counted
      <4>2. Exact(o.existing, w)
        BY <3>1, <3>5
      <4>3. benchmarks'[w] = benchmarks[w]
        BY <2>1, <3>5
      <4> QED
        BY <1>1, <3>1, <4>1, <4>2, <4>3 DEF Exact
    <3> QED
      BY <3>3, <3>4, <3>5
  <2>3. undisturbed \in BOOLEAN
    BY DEF EvalInv, EvalTypes
  <2> QED
    BY <1>1, <1>8, <2>1, <2>2, <2>3, EndTableKeeps
<1>9. CASE EndJob(e) /\ undisturbed' = FALSE /\ UNCHANGED benchmarks
  BY <1>1, <1>9, SaveFails
<1> QED
  BY <1>1, <1>3, <1>4, <1>5, <1>6, <1>8, <1>9 DEF SavesBenchmark, AllRuns

LEMMA PersistGlobalKeeps ==
  ASSUME EvalInv, NEW e \in EvalProcs, PersistGlobal(e)
  PROVE  EvalInv'
<1>1. /\ jobs[e].at = "persist:global"
      /\ UNCHANGED <<svVars, cases, caseRows, runs, executions, started>>
      /\ SavesBenchmark(e, 0, Counted(AllRuns(e), 0), JobGoto(e, "persist:version"))
  BY DEF PersistGlobal, AtJob
<1>2. /\ jobs[e] \in Job /\ Sound(jobs[e]) /\ Knows(e)
      /\ (undisturbed /\ Live => Settles(e))
  BY <1>1, AtWork
<1>3. PICK o \in Job : o = jobs[e]
  BY <1>2
<1>4. PICK A \in SUBSET Run : A = o.existing \cup o.results
  BY DEF Job
<1>5. PICK S : S = Counted(A, 0)
  OBVIOUS
<1>6. S \in SUBSET Run /\ \A r \in S : RunKnown(r)
  BY <1>2, <1>3, <1>4, <1>5, CountedKnown DEF Knows
<1>7. CASE Live /\ benchmarks' = [benchmarks EXCEPT ![0] = Row(S)]
           /\ JobGoto(e, "persist:version") /\ UNCHANGED undisturbed
  <2>1. /\ benchmarks' \in [Slots -> Benchmark] /\ benchmarks'[0] = Row(S)
        /\ \A w \in Slots : w # 0 => benchmarks'[w] = benchmarks[w]
        /\ \A w \in Slots : \A r \in benchmarks'[w].of : RunKnown(r)
    <3>1. 0 \in Slots
      BY ConstantsAssumption DEF Slots
    <3> QED
      BY <1>6, <1>7, <3>1, RowType
  <2> DEFINE j == [o EXCEPT !.at = "persist:version"]
  <2>2. jobs' = [jobs EXCEPT ![e] = j]
    BY <1>3, <1>7 DEF JobGoto, EvalInv, EvalTypes
  <2>3. j \in Job
    <3>1. "persist:version" \in JobSteps
      BY DEF JobSteps
    <3> QED
      BY <3>1 DEF Job
  <2>4. /\ j.at = "persist:version" /\ j.version = o.version
        /\ j.waits = o.waits /\ j.op = o.op /\ j.id = o.id /\ j.results = o.results
        /\ j.existing = o.existing
    BY DEF Job
  <2> HIDE DEF j
  <2>5. Sound(j)
    BY <1>1, <1>2, <1>3, <2>4 DEF Sound, CreatePoints, PreparePoints, BatchPoints
  <2>6. jobs'[e] = j /\ UNCHANGED <<contents, skill>>
    BY <1>1, <2>2 DEF svVars, EvalInv, EvalTypes
  <2>7. Knows(e)'
    BY <1>1, <1>2, <1>3, <2>4, <2>6 DEF Knows, TextPoints, CreatePoints, RunKnown,
       WrittenUnder, CaseIds
  <2>8. ASSUME undisturbed PROVE Settles(e)'
    <3>1. A = runs /\ \A u \in Slots : Exact(o.existing, u)
      BY <1>1, <1>2, <1>3, <1>4, <1>7, <2>8 DEF Settles, BatchPoints, AllRuns
    <3>2. Exact(runs, 0)'
      BY <1>1, <1>5, <2>1, <3>1 DEF Exact
    <3>3. \A u \in Slots \ {0} : Exact(o.existing, u)'
      BY <2>1, <3>1 DEF Exact
    <3>4. runs' = AllRuns(e)'
      BY <1>1, <1>4, <2>4, <2>6, <3>1 DEF AllRuns
    <3> QED
      BY <2>4, <2>6, <3>2, <3>3, <3>4 DEF Settles, BatchPoints, PreparePoints, CreatePoints
  <2>9. j # Resting /\ undisturbed \in BOOLEAN
    BY <2>4, RestingFacts DEF EvalInv, EvalTypes
  <2> QED
    BY <1>1, <1>3, <1>7, <2>1, <2>2, <2>3, <2>4, <2>5, <2>7, <2>8, <2>9, TableStepKeeps
<1>8. CASE EndJob(e) /\ undisturbed' = FALSE /\ UNCHANGED benchmarks
  BY <1>1, <1>8, SaveFails
<1> QED
  BY <1>1, <1>3, <1>4, <1>5, <1>7, <1>8 DEF SavesBenchmark, AllRuns

LEMMA NothingStored ==
  ASSUME EvalInv, benchmarks' = NoBenchmarks
  PROVE  /\ benchmarks' \in [Slots -> Benchmark]
         /\ \A v \in Slots : benchmarks'[v] = NoRow /\ benchmarks'[v].of = {}
  BY DEF NoBenchmarks, Benchmark, NoRow

\* With nothing stored everything is exact, whatever went before.
LEMMA InvalidateKeeps ==
  ASSUME EvalInv, NEW e \in EvalProcs, Invalidate(e)
  PROVE  EvalInv'
<1>1. /\ jobs[e].at = "invalidate" /\ EndJob(e)
      /\ UNCHANGED <<svVars, cases, caseRows, runs, executions, started>>
  BY DEF Invalidate, AtJob
<1>2. CASE /\ benchmarks' = NoBenchmarks
           /\ undisturbed' = (undisturbed \/ (Busy = {e} /\ executions = {}))
  <2>1. /\ benchmarks' \in [Slots -> Benchmark]
        /\ \A v \in Slots : benchmarks'[v] = NoRow /\ benchmarks'[v].of = {}
    BY <1>2, NothingStored
  <2>2. \A v \in Slots : Exact(runs, v)'
    BY <2>1 DEF Exact
  <2>3. undisturbed \in BOOLEAN
    BY DEF EvalInv, EvalTypes
  <2>4. CASE undisturbed' = undisturbed
    BY <1>1, <1>2, <2>1, <2>2, <2>3, <2>4, EndTableKeeps
  <2>5. CASE Busy = {e} /\ executions = {}
    <3>1. jobs' = [jobs EXCEPT ![e] = Resting] /\ Resting \in Job /\ Resting.op = "none"
      BY <1>1, RestingFacts DEF EndJob
    <3>2. Puts(e, Resting)
      BY <3>1, PutFacts
    <3>3. SkillInv' /\ TextsKept /\ UNCHANGED <<skill, contents>>
      BY <1>1, SkillSame
    <3>4. EvalTypes'
      BY <1>1, <1>2, <2>1, <2>3, <3>2 DEF Puts, EvalInv, EvalTypes, CaseIds
    <3>5. Sound(Resting) /\ Knows(e)'
      BY <3>2, RestingSound DEF Puts
    <3>6. Control'
      BY <1>1, <3>1, <3>2, <3>5, PutControl
    <3>7. RunsKnown'
      BY <1>1, <2>1, <3>3 DEF EvalInv, RunsKnown, RunKnown, WrittenUnder, CaseIds
    <3>8. Gone'
      BY <1>1, <1>2, <2>5, <3>3 DEF EvalInv, Gone, Live
    <3>9. Busy' = {}
      BY <2>5, <3>2 DEF Puts, Busy
    <3>10. Tidy'
      BY <1>1, <2>2, <2>5, <3>9 DEF Tidy
    <3> QED
      BY <3>3, <3>4, <3>6, <3>7, <3>8, <3>10 DEF EvalInv
  <2> QED
    BY <1>2, <2>3, <2>4, <2>5
<1>3. CASE undisturbed' = FALSE /\ UNCHANGED benchmarks
  BY <1>1, <1>3, SaveFails
<1> QED
  BY <1>2, <1>3 DEF Invalidate, Forgotten

-----------------------------------------------------------------------------
(* The clean-ups of a delete.                                              *)

LEMMA CleanRowsKeeps ==
  ASSUME EvalInv, NEW p \in Procs, CleanRuns(p) \/ CleanCases(p)
  PROVE  EvalInv'
<1>1. /\ runs' \subseteq runs /\ caseRows' \subseteq caseRows /\ undisturbed' = FALSE
      /\ UNCHANGED <<svVars, cases, benchmarks, executions, jobs, started>>
  BY DEF CleanRuns, CleanCases, Cleans
<1>2. SkillInv' /\ TextsKept /\ UNCHANGED <<skill, contents>>
  BY <1>1, SkillSame
<1>3. EvalTypes'
  <2>1. runs' \in SUBSET Run /\ IsFiniteSet(runs')
    BY <1>1, FS_Subset DEF EvalInv, EvalTypes
  <2> QED
    BY <1>1, <2>1 DEF EvalInv, EvalTypes, CaseIds
<1>4. Control'
  BY <1>1, <1>2, ControlStays
<1>5. RunsKnown'
  BY <1>1, <1>2, RunsStay DEF EvalInv, CaseIds
<1>6. Gone'
  BY <1>1, <1>2 DEF EvalInv, Gone, Live, Busy
<1>7. Tidy'
  BY <1>1 DEF Tidy
<1> QED
  BY <1>2, <1>3, <1>4, <1>5, <1>6, <1>7 DEF EvalInv

LEMMA CleanBenchmarksKeeps ==
  ASSUME EvalInv, NEW p \in Procs, CleanBenchmarks(p)
  PROVE  EvalInv'
<1>1. UNCHANGED <<svVars, cases, caseRows, runs, executions, jobs, started>>
  BY DEF CleanBenchmarks, Cleans
<1>2. SkillInv' /\ TextsKept /\ UNCHANGED <<skill, contents>>
  BY <1>1, SkillSame
<1>3. CASE UNCHANGED <<benchmarks, undisturbed>>
  <2>1. UNCHANGED evalVars /\ StaysLive
    BY <1>1, <1>2, <1>3 DEF evalVars, evalTables, StaysLive, Live
  <2> QED
    BY <1>2, <2>1, SkillStepKeeps
<1>4. CASE /\ benchmarks' = NoBenchmarks
           /\ undisturbed' = (undisturbed \/ (Busy = {} /\ executions = {}))
  <2>1. /\ benchmarks' \in [Slots -> Benchmark]
        /\ \A v \in Slots : benchmarks'[v] = NoRow /\ benchmarks'[v].of = {}
    BY <1>4, NothingStored
  <2>2. EvalTypes'
    BY <1>1, <1>4, <2>1 DEF EvalInv, EvalTypes, CaseIds
  <2>3. Control'
    BY <1>1, <1>2, ControlStays
  <2>4. RunsKnown'
    BY <1>1, <1>2, <2>1 DEF EvalInv, RunsKnown, RunKnown, WrittenUnder, CaseIds
  <2>5. Gone'
    BY <1>1, <1>2, <1>4 DEF EvalInv, Gone, Live, Busy
  <2>6. \A v \in Slots : Exact(runs, v)'
    BY <2>1 DEF Exact
  <2>7. ASSUME undisturbed PROVE Tidy'
    <3>1. /\ \A e, f \in Busy : e = f
          /\ \A x \in executions : \E e \in EvalProcs : x.key \in jobs[e].waits
          /\ Live => \A e \in Busy : Settles(e)
      BY <2>7 DEF EvalInv, Tidy
    <3>2. Busy' = Busy /\ (Live' <=> Live)
      BY <1>1, <1>2 DEF Busy, Live
    <3>3. ASSUME Live, NEW e \in Busy PROVE Settles(e)'
      <4>1. Settles(e) /\ \A v \in Slots : Exact(jobs[e].existing, v)'
        BY <2>1, <3>1, <3>3 DEF Exact
      <4>2. 0 \in Slots
        BY ConstantsAssumption DEF Slots
      <4> QED
        BY <1>1, <2>6, <4>1, <4>2 DEF Settles, AllRuns
    <3> QED
      BY <1>1, <2>6, <3>1, <3>2, <3>3 DEF Tidy
  <2>8. ASSUME Busy = {}, executions = {} PROVE Tidy'
    <3>1. Busy' = {} /\ executions' = {}
      BY <1>1, <2>8 DEF Busy
    <3> QED
      BY <2>6, <3>1 DEF Tidy
  <2>9. ASSUME ~undisturbed' PROVE Tidy'
    BY <2>9 DEF Tidy
  <2>10. Tidy'
    BY <1>4, <2>7, <2>8, <2>9
  <2> QED
    BY <1>2, <2>2, <2>3, <2>4, <2>5, <2>10 DEF EvalInv
<1> QED
  BY <1>3, <1>4 DEF CleanBenchmarks, Forgotten

LEMMA RowsDeletedKeeps ==
  ASSUME EvalInv, NEW e \in EvalProcs,
         jobs[e].at \in {"deleteRun:row", "deleteCase:row"}, JobGoto(e, "invalidate"),
         caseRows' \subseteq caseRows, runs' \subseteq runs,
         UNCHANGED <<svVars, cases, benchmarks, executions, started, undisturbed>>
  PROVE  EvalInv'
<1>1. /\ jobs[e] \in Job /\ Sound(jobs[e]) /\ Knows(e) /\ jobs[e].waits = {}
  BY AtWork
<1>2. PICK o \in Job : o = jobs[e]
  BY <1>1
<1> DEFINE j == [o EXCEPT !.at = "invalidate"]
<1>3. jobs' = [jobs EXCEPT ![e] = j]
  BY <1>2 DEF JobGoto, EvalInv, EvalTypes
<1>4. j \in Job
  <2>1. "invalidate" \in JobSteps
    BY DEF JobSteps
  <2> QED
    BY <2>1 DEF Job
<1>5. /\ j.at = "invalidate" /\ j.waits = o.waits /\ j.op = o.op /\ j.id = o.id
      /\ j.results = o.results /\ j.existing = o.existing
  BY DEF Job
<1> HIDE DEF j
<1>6. Sound(j)
  BY <1>1, <1>2, <1>5 DEF Sound, CreatePoints, PreparePoints, BatchPoints
<1>7. jobs'[e] = j /\ UNCHANGED <<contents, skill>>
  BY <1>3 DEF svVars, EvalInv, EvalTypes
<1>8. Knows(e)'
  BY <1>1, <1>2, <1>5, <1>7 DEF Knows, TextPoints, CreatePoints, RunKnown,
     WrittenUnder, CaseIds
<1>9. Settles(e)'
  BY <1>5, <1>7 DEF Settles, BatchPoints, PreparePoints, CreatePoints
<1>10. /\ j # Resting /\ undisturbed \in BOOLEAN /\ benchmarks \in [Slots -> Benchmark]
       /\ \A v \in Slots : \A r \in benchmarks[v].of : RunKnown(r)
       /\ ~Live => benchmarks = NoBenchmarks
  BY <1>5, RestingFacts DEF EvalInv, EvalTypes, RunsKnown, Gone
<1> QED
  BY <1>2, <1>3, <1>4, <1>5, <1>6, <1>8, <1>9, <1>10, TableStepKeeps

LEMMA DeleteRowsKeep ==
  ASSUME EvalInv, NEW e \in EvalProcs, DeleteRunRow(e) \/ DeleteCaseRow(e)
  PROVE  EvalInv'
<1>1. CASE DeleteRunRow(e)
  BY <1>1, RowsDeletedKeeps DEF DeleteRunRow, AtJob
<1>2. CASE DeleteCaseRow(e)
  BY <1>2, RowsDeletedKeeps DEF DeleteCaseRow, AtJob
<1> QED
  BY <1>1, <1>2

-----------------------------------------------------------------------------
(* Batches and cancellation.                                               *)

LEMMA KeySame ==
  ASSUME NEW o, NEW j, j.cases = o.cases, j.version = o.version, j.repeat = o.repeat
  PROVE  Total(j) = Total(o) /\ \A i : Key(j, i) = Key(o, i)
<1>1. Total(j) = Total(o)
  BY DEF Total
<1>2. ASSUME NEW i PROVE Key(j, i) = Key(o, i)
  BY DEF Key, CaseAt
<1> QED
  BY <1>1, <1>2

LEMMA BookSame ==
  ASSUME NEW o, NEW j, j.cases = o.cases, j.version = o.version, j.repeat = o.repeat,
         j.pos = o.pos, j.waits = o.waits, j.results = o.results, Book(o)
  PROVE  Book(j)
<1>1. Total(j) = Total(o) /\ \A i : Key(j, i) = Key(o, i)
  BY KeySame
<1>2. StartedKeys(j) = StartedKeys(o)
  BY <1>1 DEF StartedKeys
<1> QED
  BY <1>1, <1>2 DEF Book

\* The positions from pos to last - 1 start: none of them was started before.
LEMMA BookAdvances ==
  ASSUME NEW o \in Job, o.version \in Versions, Book(o), o.waits = {},
         NEW last \in Nat, o.pos <= last, last <= Total(o),
         NEW j \in Job, j.cases = o.cases, j.version = o.version, j.repeat = o.repeat,
         j.pos = last, j.results = o.results,
         j.waits = {Key(o, i) : i \in o.pos..last - 1}
  PROVE  Book(j)
<1> DEFINE k(i) == Key(o, i)
<1>1. Total(j) = Total(o) /\ \A i : Key(j, i) = k(i)
  BY KeySame
<1>2. PICK p \in Nat : p = o.pos
  BY DEF Job
<1>3. \A i \in Nat : k(i)[3] = i
  BY KeyFacts
<1> HIDE DEF k
<1>4. StartedKeys(o) = {k(i) : i \in 0..p - 1} /\ StartedKeys(j) = {k(i) : i \in 0..last - 1}
  BY <1>1, <1>2 DEF StartedKeys, k
<1>5. j.waits = {k(i) : i \in p..last - 1}
  BY <1>2 DEF k
<1>6. \A i \in 0..p - 1 : i \in 0..last - 1 /\ i \in Nat /\ i \notin p..last - 1
  BY <1>2
<1>7. \A i \in p..last - 1 : i \in 0..last - 1 /\ i \in Nat
  BY <1>2
<1>8. \A i \in 0..last - 1 : i \in 0..p - 1 \/ i \in p..last - 1
  BY <1>2
<1>9. j.waits \subseteq StartedKeys(j)
  BY <1>4, <1>5, <1>7
<1>10. ASSUME NEW r \in j.results PROVE r.key \in StartedKeys(j) \ j.waits
  <2>1. PICK i \in 0..p - 1 : r.key = k(i)
    BY <1>4 DEF Book
  <2>2. r.key \in StartedKeys(j)
    BY <1>4, <1>6, <2>1
  <2>3. r.key \notin j.waits
    BY <1>3, <1>5, <1>6, <1>7, <2>1
  <2> QED
    BY <2>2, <2>3
<1>11. ASSUME NEW q \in StartedKeys(j) \ j.waits PROVE \E r \in j.results : r.key = q
  <2>1. q \in StartedKeys(o)
    BY <1>4, <1>5, <1>8
  <2> QED
    BY <2>1 DEF Book
<1>12. \A r, s \in j.results : r.key = s.key => r = s
  BY DEF Book
<1> QED
  BY <1>1, <1>9, <1>10, <1>11, <1>12 DEF Book

LEMMA StartBatchKeeps ==
  ASSUME EvalInv, NEW e \in EvalProcs, StartBatch(e)
  PROVE  EvalInv'
<1>1. /\ jobs[e].at = "batch" /\ jobs[e].waits = {} /\ ~jobs[e].aborted
      /\ UNCHANGED <<svVars, evalTables, started, undisturbed>>
  BY DEF StartBatch, AtJob
<1>2. /\ jobs[e] \in Job /\ Sound(jobs[e]) /\ Knows(e) /\ jobs[e] # Resting
      /\ (undisturbed /\ Live => Settles(e))
  BY <1>1, AtWork
<1>3. PICK o \in Job : o = jobs[e]
  BY <1>2
<1>4. PICK t \in Nat : t = Total(o)
  BY TotalType
<1>5. PICK last : last = IF o.pos + Concurrency < t THEN o.pos + Concurrency ELSE t
  OBVIOUS
<1> DEFINE batch == o.pos..last - 1
           k(i) == Key(o, i)
           x(i) == [job |-> o.id, key |-> k(i), case |-> CaseAt(o, i),
                    version |-> o.version, content |-> o.content,
                    iteration |-> o.iteration, aborted |-> FALSE, stage |-> "executing"]
           W == {k(i) : i \in batch}
           X == {x(i) : i \in {n \in batch : ~InFlight(k(n))}}
           j == [o EXCEPT !.pos = last, !.waits = W]
<1>6. o.pos \in Nat /\ o.pos < t
  BY <1>3, <1>4 DEF StartBatch, Job
<1>7. last \in Nat /\ o.pos <= last /\ last <= t /\ \A i \in batch : i \in Nat
  BY <1>5, <1>6, EvalAssumption
<1>8. executions' = executions \cup X
  BY <1>3, <1>4, <1>5 DEF StartBatch
<1>9. jobs' = [jobs EXCEPT ![e] = j]
  <2>1. jobs' = [jobs EXCEPT ![e].pos = last, ![e].waits = W]
    BY <1>3, <1>4, <1>5 DEF StartBatch
  <2> HIDE DEF W
  <2> QED
    BY <1>3, <2>1 DEF EvalInv, EvalTypes
<1>10. /\ o.version \in Versions /\ o.iteration # 0 /\ o.id # 0 /\ Book(o)
       /\ WrittenUnder(o.content, o.version)
  BY <1>1, <1>2, <1>3 DEF Sound, Knows, TextPoints
<1>11. \A i \in batch : /\ k(i) \in Keys /\ CaseAt(o, i) \in CaseChoices
                        /\ k(i)[2] = o.version /\ k(i)[3] = i
  BY <1>7, <1>10, KeyFacts
<1>12. X \subseteq Execution
  <2>1. /\ o.id \in 1..MaxRequests /\ o.version \in Versions /\ o.content \in Contents
        /\ o.iteration \in Nat \ {0} /\ FALSE \in BOOLEAN /\ "executing" \in Stages
    <3>1. o.id \in 1..MaxRequests /\ o.iteration \in Nat \ {0}
      BY <1>10, EvalAssumption DEF Job
    <3>2. o.content \in 1..MaxContents
      BY <1>10, ConstantsAssumption DEF WrittenUnder, EvalInv, SkillInv, SkillTypeOK
    <3> QED
      BY <1>10, <3>1, <3>2 DEF Contents, Stages
  <2> SUFFICES ASSUME NEW i \in batch PROVE x(i) \in Execution
    OBVIOUS
  <2>2. k(i) \in Keys /\ CaseAt(o, i) \in CaseChoices
    BY <1>11
  <2> HIDE DEF k
  <2> QED
    BY <2>1, <2>2 DEF Execution
<1>13. j \in Job
  <2>1. W \in SUBSET Keys
    BY <1>11
  <2> HIDE DEF W
  <2> QED
    BY <1>7, <2>1 DEF Job
<1>14. /\ j.at = o.at /\ j.content = o.content /\ j.version = o.version
       /\ j.waits = W /\ j.op = o.op /\ j.id = o.id /\ j.results = o.results
       /\ j.existing = o.existing /\ j.pos = last /\ j.iteration = o.iteration
       /\ j.cases = o.cases /\ j.repeat = o.repeat
  <2> HIDE DEF W
  <2> QED
    BY DEF Job
<1> HIDE DEF j
<1>15. Book(j)
  <2>1. W = {Key(o, i) : i \in o.pos..last - 1}
    OBVIOUS
  <2> HIDE DEF W
  <2> QED
    BY <1>1, <1>3, <1>4, <1>7, <1>10, <1>13, <1>14, <2>1, BookAdvances
<1>16. \A q \in W : \E y \in executions' : y.key = q
  <2> SUFFICES ASSUME NEW i \in batch PROVE \E y \in executions' : y.key = k(i)
    OBVIOUS
  <2>1. CASE InFlight(k(i))
    BY <1>8, <2>1 DEF InFlight
  <2>2. CASE ~InFlight(k(i))
    <3>1. x(i) \in executions' /\ x(i).key = k(i)
      BY <1>8, <2>2
    <3> QED
      BY <3>1
  <2> QED
    BY <2>1, <2>2
<1>17. \A y \in X : /\ ~InFlight(y.key) /\ y.key \in W
                    /\ y.version = o.version /\ y.content = o.content
                    /\ y.key[2] = o.version
  <2> SUFFICES ASSUME NEW i \in batch, ~InFlight(k(i))
               PROVE  /\ ~InFlight(x(i).key) /\ x(i).key \in W
                      /\ x(i).version = o.version /\ x(i).content = o.content
                      /\ x(i).key[2] = o.version
    OBVIOUS
  <2> QED
    BY <1>11
<1>18. \A y, z \in X : y.key = z.key => y = z
  <2> SUFFICES ASSUME NEW a \in batch, NEW b \in batch, x(a).key = x(b).key
               PROVE  x(a) = x(b)
    OBVIOUS
  <2>1. k(a) = k(b)
    OBVIOUS
  <2>2. a = b
    BY <1>11, <2>1
  <2> QED
    BY <2>2
<1> HIDE DEF W, X, x, k, batch
<1>19. Puts(e, j) /\ jobs'[e] = j
  BY <1>9, <1>13, PutFacts DEF Puts
<1>20. UNCHANGED <<cases, caseRows, runs, benchmarks>>
  BY <1>1 DEF evalTables
<1>21. SkillInv' /\ TextsKept /\ UNCHANGED <<skill, contents>>
  BY <1>1, SkillSame
<1>22. EvalTypes'
  BY <1>1, <1>8, <1>12, <1>19, <1>20 DEF Puts, EvalInv, EvalTypes, CaseIds
<1>23. Control'
  <2>1. Sound(j)
    BY <1>1, <1>2, <1>3, <1>14, <1>15 DEF Sound, CreatePoints, PreparePoints, BatchPoints
  <2>2. \A f \in EvalProcs : Sound(jobs'[f])
    BY <1>19, <2>1 DEF Puts, EvalInv, Control
  <2>3. Knows(e)'
    <3>1. \A r \in j.existing \cup j.results : RunKnown(r)'
      BY <1>2, <1>3, <1>14, <1>20, <1>21 DEF Knows, RunKnown, WrittenUnder, CaseIds
    <3>2. j.waits \subseteq {y.key : y \in executions'}
      BY <1>14, <1>16
    <3>3. WrittenUnder(j.content, j.version)'
      BY <1>10, <1>14, <1>21 DEF WrittenUnder
    <3> QED
      BY <1>1, <1>3, <1>14, <1>19, <3>1, <3>2, <3>3 DEF Knows, CreatePoints
  <2>4. ASSUME NEW f \in EvalProcs, f # e PROVE Knows(f)'
    <3>1. Knows(f) /\ CaseIds \subseteq CaseIds' /\ jobs'[f] = jobs[f]
      BY <1>19, <1>20, <2>4 DEF Puts, EvalInv, Control, CaseIds
    <3>2. \A q \in jobs[f].waits : \E y \in executions' : y.key = q
      BY <1>8, <3>1 DEF Knows
    <3> QED
      BY <1>20, <1>21, <3>1, <3>2, StillKnows
  <2>5. \A f, g \in Creating' : f = g
    BY <1>3, <1>14, <1>19 DEF Puts, EvalInv, Control, Creating
  <2>6. ASSUME NEW y \in executions' PROVE ExecutionKnown(y)'
    <3>1. CASE y \in executions
      BY <1>21, <3>1, ExecutionStays DEF EvalInv, Control
    <3>2. CASE y \in X
      BY <1>10, <1>17, <1>21, <3>2 DEF ExecutionKnown, WrittenUnder
    <3> QED
      BY <1>8, <3>1, <3>2
  <2>7. OneExecutionPerKey'
    BY <1>8, <1>17, <1>18 DEF EvalInv, Control, OneExecutionPerKey, InFlight
  <2> QED
    BY <2>2, <2>3, <2>4, <2>5, <2>6, <2>7 DEF Control
<1>24. RunsKnown'
  BY <1>20, <1>21, RunsStay DEF EvalInv, CaseIds
<1>25. e \in Busy
  BY <1>2 DEF Busy
<1>26. Gone'
  BY <1>20, <1>21, <1>25 DEF EvalInv, Gone, Live
<1>27. Tidy'
  <2> SUFFICES ASSUME undisturbed PROVE Tidy'
    BY <1>1 DEF Tidy
  <2>1. \A f \in EvalProcs \ {e} : jobs[f] = Resting /\ jobs[f].waits = {}
    BY <1>25, RestingFacts DEF EvalInv, Tidy, Busy
  <2>2. executions = {}
    BY <1>1, <2>1 DEF EvalInv, Tidy
  <2>3. \A y \in executions' : y.key \in jobs'[e].waits
    BY <1>8, <1>14, <1>17, <1>19, <2>2
  <2>4. Busy' = {e}
    BY <1>1, <1>3, <1>14, <1>19, <2>1, RestingFacts DEF Puts, Busy
  <2>5. Live => Settles(e)'
    BY <1>1, <1>2, <1>3, <1>14, <1>19, <1>20 DEF Settles, BatchPoints, PreparePoints,
       CreatePoints, Exact, AllRuns
  <2> QED
    BY <1>21, <2>3, <2>4, <2>5 DEF Tidy, Live
<1> QED
  BY <1>21, <1>22, <1>23, <1>24, <1>26, <1>27 DEF EvalInv

LEMMA CancelKeeps ==
  ASSUME EvalInv, NEW e \in EvalProcs, Cancel(e)
  PROVE  EvalInv'
<1>1. /\ jobs[e].op = "stream" /\ undisturbed' = FALSE
      /\ jobs' = [jobs EXCEPT ![e].aborted = TRUE]
      /\ executions' = {IF x.job = jobs[e].id THEN [x EXCEPT !.aborted = TRUE] ELSE x
                          : x \in executions}
      /\ UNCHANGED <<svVars, cases, caseRows, runs, benchmarks, started>>
  BY DEF Cancel, evalTables
<1>2. jobs[e] \in Job /\ Sound(jobs[e]) /\ Knows(e) /\ jobs[e].at # "idle"
  <2>1. jobs[e] \in Job /\ Sound(jobs[e]) /\ Knows(e)
    BY DEF EvalInv, EvalTypes, Control
  <2> QED
    BY <1>1, <2>1, RestingFacts DEF Sound
<1>3. PICK o \in Job : o = jobs[e]
  BY <1>2
<1> DEFINE j == [o EXCEPT !.aborted = TRUE]
           c(x) == IF x.job = o.id THEN [x EXCEPT !.aborted = TRUE] ELSE x
<1>4. jobs' = [jobs EXCEPT ![e] = j]
  BY <1>1, <1>3 DEF EvalInv, EvalTypes
<1>5. /\ j \in Job /\ j.at = o.at /\ j.content = o.content /\ j.version = o.version
      /\ j.waits = o.waits /\ j.op = o.op /\ j.id = o.id /\ j.results = o.results
      /\ j.existing = o.existing /\ j.pos = o.pos /\ j.iteration = o.iteration
      /\ j.cases = o.cases /\ j.repeat = o.repeat /\ j.aborted = TRUE
  BY DEF Job
<1>6. executions' = {c(x) : x \in executions}
  BY <1>1, <1>3
<1>7. \A x \in executions : /\ c(x) \in Execution /\ c(x).key = x.key
                            /\ c(x).version = x.version /\ c(x).content = x.content
  <2> SUFFICES ASSUME NEW x \in Execution
               PROVE  /\ c(x) \in Execution /\ c(x).key = x.key
                      /\ c(x).version = x.version /\ c(x).content = x.content
    BY DEF EvalInv, EvalTypes
  <2> QED
    BY DEF Execution
<1> HIDE DEF j, c
<1>8. Puts(e, j) /\ jobs'[e] = j
  BY <1>4, <1>5, PutFacts DEF Puts
<1>9. SkillInv' /\ TextsKept /\ UNCHANGED <<skill, contents>>
  BY <1>1, SkillSame
<1>10. EvalTypes'
  <2>1. executions' \in SUBSET Execution
    BY <1>6, <1>7
  <2> QED
    BY <1>1, <1>8, <2>1 DEF Puts, EvalInv, EvalTypes, CaseIds
<1>11. \A f \in EvalProcs : \A k \in jobs[f].waits : \E x \in executions' : x.key = k
  BY <1>6, <1>7 DEF EvalInv, Control, Knows
<1>12. Control'
  <2>1. Sound(j)
    <3>1. Book(o) => Book(j)
      BY <1>5, BookSame
    <3>2. j.at # "idle"
      BY <1>2, <1>3, <1>5
    <3> QED
      BY <1>2, <1>3, <1>5, <3>1, <3>2 DEF Sound
  <2>2. \A f \in EvalProcs : Sound(jobs'[f])
    BY <1>8, <2>1 DEF Puts, EvalInv, Control
  <2>3. Knows(e)'
    <3>1. \A r \in j.existing \cup j.results : RunKnown(r)'
      BY <1>1, <1>2, <1>3, <1>5, <1>9 DEF Knows, RunKnown, WrittenUnder, CaseIds
    <3>2. j.waits \subseteq {x.key : x \in executions'}
      BY <1>3, <1>5, <1>11
    <3>3. j.at \in TextPoints => WrittenUnder(j.content, j.version)'
      BY <1>2, <1>3, <1>5, <1>9 DEF Knows, WrittenUnder
    <3>4. j.at \in CreatePoints => Len(cases') + j.repeat <= MaxCases
      BY <1>1, <1>2, <1>3, <1>5 DEF Knows
    <3> QED
      BY <1>8, <3>1, <3>2, <3>3, <3>4 DEF Knows
  <2>4. ASSUME NEW f \in EvalProcs, f # e PROVE Knows(f)'
    <3>1. Knows(f) /\ CaseIds \subseteq CaseIds' /\ jobs'[f] = jobs[f]
      BY <1>1, <1>8, <2>4 DEF Puts, EvalInv, Control, CaseIds
    <3> QED
      BY <1>1, <1>9, <1>11, <3>1, StillKnows
  <2>5. \A f, g \in Creating' : f = g
    BY <1>3, <1>5, <1>8 DEF Puts, EvalInv, Control, Creating
  <2>6. ASSUME NEW x \in executions PROVE ExecutionKnown(c(x))'
    <3>1. ExecutionKnown(x)'
      BY <1>9, ExecutionStays DEF EvalInv, Control
    <3> QED
      BY <1>7, <3>1 DEF ExecutionKnown
  <2>7. \A y \in executions' : ExecutionKnown(y)'
    BY <1>6, <2>6
  <2>8. OneExecutionPerKey'
    BY <1>6, <1>7 DEF EvalInv, Control, OneExecutionPerKey
  <2> QED
    BY <2>2, <2>3, <2>4, <2>5, <2>7, <2>8 DEF Control
<1>13. RunsKnown'
  BY <1>1, <1>9, RunsStay DEF EvalInv, CaseIds
<1>14. Gone'
  <2>1. e \in Busy
    BY <1>2, RestingFacts DEF Busy
  <2> QED
    BY <1>1, <1>9, <2>1 DEF EvalInv, Gone, Live
<1>15. Tidy'
  BY <1>1 DEF Tidy
<1> QED
  BY <1>9, <1>10, <1>12, <1>13, <1>14, <1>15 DEF EvalInv

-----------------------------------------------------------------------------
(* Executions.                                                             *)

LEMMA ExecutionFacts ==
  ASSUME EvalInv, NEW x \in executions
  PROVE  /\ x \in Execution /\ ExecutionKnown(x) /\ skill.state # "none"
         /\ \A y \in executions : y.key = x.key => y = x
  BY DEF EvalInv, EvalTypes, Control, Gone, OneExecutionPerKey

LEMMA RejectKeeps ==
  ASSUME EvalInv, NEW x \in executions, Reject(x)
  PROVE  EvalInv'
<1>1. /\ executions' = executions \ {x} /\ undisturbed' = FALSE
      /\ jobs' = [e \in EvalProcs |-> IF e \in Waiting(x) THEN Resting ELSE jobs[e]]
      /\ UNCHANGED <<svVars, cases, caseRows, runs, benchmarks, started>>
  BY DEF Reject, evalTables
<1>2. SkillInv' /\ TextsKept /\ UNCHANGED <<skill, contents>>
  BY <1>1, SkillSame
<1>3. jobs \in [EvalProcs -> Job] /\ Resting \in Job
  BY RestingFacts DEF EvalInv, EvalTypes
<1>4. /\ jobs' \in [EvalProcs -> Job]
      /\ \A e \in EvalProcs : \/ jobs'[e] = Resting
                              \/ jobs'[e] = jobs[e] /\ x.key \notin jobs[e].waits
  BY <1>1, <1>3 DEF Waiting
<1>5. EvalTypes'
  BY <1>1, <1>4 DEF EvalInv, EvalTypes, CaseIds
<1>6. Control'
  <2>1. ASSUME NEW e \in EvalProcs PROVE Sound(jobs'[e]) /\ Knows(e)'
    <3>1. CASE jobs'[e] = Resting
      BY <3>1, RestingSound
    <3>2. CASE jobs'[e] = jobs[e] /\ x.key \notin jobs[e].waits
      <4>1. Knows(e) /\ CaseIds \subseteq CaseIds' /\ Sound(jobs[e])
        BY <1>1 DEF EvalInv, Control, CaseIds
      <4>2. \A k \in jobs[e].waits : \E y \in executions' : y.key = k
        BY <1>1, <3>2, <4>1 DEF Knows
      <4> QED
        BY <1>1, <1>2, <3>2, <4>1, <4>2, StillKnows
    <3> QED
      BY <1>4, <3>1, <3>2
  <2>2. \A f, g \in Creating' : f = g
    BY <1>4, RestingFacts DEF EvalInv, Control, Creating
  <2>3. \A y \in executions' : ExecutionKnown(y)'
    BY <1>1, <1>2, ExecutionStays DEF EvalInv, Control
  <2>4. OneExecutionPerKey'
    BY <1>1 DEF EvalInv, Control, OneExecutionPerKey
  <2> QED
    BY <2>1, <2>2, <2>3, <2>4 DEF Control
<1>7. RunsKnown'
  BY <1>1, <1>2, RunsStay DEF EvalInv, CaseIds
<1>8. Gone'
  BY <1>1, <1>2, ExecutionFacts DEF EvalInv, Gone, Live
<1>9. Tidy'
  BY <1>1 DEF Tidy
<1> QED
  BY <1>2, <1>5, <1>6, <1>7, <1>8, <1>9 DEF EvalInv

LEMMA ToStageKeeps ==
  ASSUME EvalInv, NEW x \in executions, NEW s \in Stages, ToStage(x, s)
  PROVE  EvalInv'
<1> DEFINE y == [x EXCEPT !.stage = s]
<1>1. /\ executions' = (executions \ {x}) \cup {y}
      /\ UNCHANGED <<svVars, cases, caseRows, runs, benchmarks, jobs, started, undisturbed>>
  BY DEF ToStage, evalTables
<1>2. SkillInv' /\ TextsKept /\ UNCHANGED <<skill, contents>>
  BY <1>1, SkillSame
<1>3. /\ x \in Execution /\ ExecutionKnown(x) /\ skill.state # "none"
      /\ \A z \in executions : z.key = x.key => z = x
  BY ExecutionFacts
<1>4. /\ y \in Execution /\ y.key = x.key /\ y.version = x.version
      /\ y.content = x.content
  BY <1>3 DEF Execution
<1> HIDE DEF y
<1>5. EvalTypes'
  BY <1>1, <1>4 DEF EvalInv, EvalTypes, CaseIds
<1>6. Control'
  <2>1. ASSUME NEW e \in EvalProcs PROVE Sound(jobs'[e]) /\ Knows(e)'
    <3>1. Knows(e) /\ CaseIds \subseteq CaseIds' /\ Sound(jobs[e])
      BY <1>1 DEF EvalInv, Control, CaseIds
    <3>2. \A k \in jobs[e].waits : \E z \in executions' : z.key = k
      BY <1>1, <1>4, <3>1 DEF Knows
    <3> QED
      BY <1>1, <1>2, <3>1, <3>2, StillKnows
  <2>2. \A f, g \in Creating' : f = g
    BY <1>1 DEF EvalInv, Control, Creating
  <2>3. ASSUME NEW z \in executions' PROVE ExecutionKnown(z)'
    <3>1. CASE z \in executions
      BY <1>2, <3>1, ExecutionStays DEF EvalInv, Control
    <3>2. CASE z = y
      <4>1. ExecutionKnown(x)'
        BY <1>2, <1>3, ExecutionStays
      <4> QED
        BY <1>4, <3>2, <4>1 DEF ExecutionKnown
    <3> QED
      BY <1>1, <3>1, <3>2
  <2>4. OneExecutionPerKey'
    BY <1>1, <1>3, <1>4 DEF EvalInv, Control, OneExecutionPerKey
  <2> QED
    BY <2>1, <2>2, <2>3, <2>4 DEF Control
<1>7. RunsKnown'
  BY <1>1, <1>2, RunsStay DEF EvalInv, CaseIds
<1>8. Gone'
  BY <1>1, <1>2, <1>3 DEF EvalInv, Gone, Live, Busy
<1>9. Tidy'
  <2> SUFFICES ASSUME undisturbed PROVE Tidy'
    BY <1>1 DEF Tidy
  <2>1. \A z \in executions' : \E e \in EvalProcs : z.key \in jobs'[e].waits
    BY <1>1, <1>4 DEF EvalInv, Tidy
  <2>2. \A e, f \in Busy' : e = f
    BY <1>1 DEF EvalInv, Tidy, Busy
  <2>3. Live' => /\ Busy' = {} => \A v \in Slots : Exact(runs, v)'
                 /\ \A e \in Busy' : Settles(e)'
    BY <1>1, <1>2 DEF EvalInv, Tidy, Live, Busy, Settles, Exact, AllRuns
  <2> QED
    BY <2>1, <2>2, <2>3 DEF Tidy
<1> QED
  BY <1>2, <1>5, <1>6, <1>7, <1>8, <1>9 DEF EvalInv

\* An answer that was waited for is entered once.
LEMMA BookAnswered ==
  ASSUME NEW o \in Job, o.version \in Versions, Book(o), NEW k \in o.waits,
         NEW r, r.key = k,
         NEW j, j.cases = o.cases, j.version = o.version, j.repeat = o.repeat,
         j.pos = o.pos, j.waits = o.waits \ {k}, j.results = o.results \cup {r}
  PROVE  Book(j) /\ k[2] = o.version
<1>1. Total(j) = Total(o) /\ \A i : Key(j, i) = Key(o, i)
  BY KeySame
<1>2. StartedKeys(j) = StartedKeys(o)
  BY <1>1 DEF StartedKeys
<1>3. Book(j)
  BY <1>1, <1>2 DEF Book
<1>4. k[2] = o.version
  <2>1. k \in StartedKeys(o)
    BY DEF Book
  <2>2. PICK i \in 0..o.pos - 1 : k = Key(o, i)
    BY <2>1 DEF StartedKeys
  <2>3. i \in Nat
    OBVIOUS
  <2> QED
    BY <2>2, <2>3, KeyFacts
<1> QED
  BY <1>3, <1>4

LEMMA StoresKeeps ==
  ASSUME EvalInv, NEW x \in executions, NEW g \in BOOLEAN, CaseExists(x), Stores(x, g)
  PROVE  EvalInv'
<1> DEFINE r == [job |-> x.job, key |-> x.key, case |-> x.case, version |-> Label(x),
                 content |-> x.content, iteration |-> x.iteration, graded |-> g]
           a(e) == [jobs[e] EXCEPT !.waits = @ \ {x.key}, !.results = @ \cup {r}]
<1>1. /\ runs' = runs \cup {r} /\ executions' = executions \ {x}
      /\ jobs' = [e \in EvalProcs |-> IF e \in Waiting(x) THEN a(e) ELSE jobs[e]]
      /\ UNCHANGED <<svVars, cases, caseRows, benchmarks, started, undisturbed>>
  BY DEF Stores, Resolve
<1>2. /\ x \in Execution /\ ExecutionKnown(x) /\ skill.state # "none"
      /\ \A y \in executions : y.key = x.key => y = x
  BY ExecutionFacts
<1>3. x.case \in CaseIds /\ x.case \in 1..MaxCases /\ Live
  <2>1. x.case \in CaseIds
    BY DEF CaseExists, EvalInv, EvalTypes
  <2>2. x.case \in 1..MaxCases
    BY <2>1, EvalAssumption DEF EvalInv, EvalTypes, CaseIds
  <2>3. Live
    BY <1>2 DEF CaseExists, EvalInv, Gone, Live, SkillInv, SkillTypeOK
  <2> QED
    BY <2>1, <2>2, <2>3
<1>4. /\ r \in Run /\ r.key = x.key /\ r.version = x.version /\ RunKnown(r)
  <2>1. r \in Run /\ r.key = x.key /\ r.version = x.version
        /\ r.case = x.case /\ r.content = x.content
    BY <1>2, <1>3 DEF Label, Run, Execution
  <2> HIDE DEF r
  <2> QED
    BY <1>2, <1>3, <2>1 DEF RunKnown, ExecutionKnown
<1> HIDE DEF r
<1>5. SkillInv' /\ TextsKept /\ UNCHANGED <<skill, contents>>
  BY <1>1, SkillSame
<1>6. RunKnown(r)'
  BY <1>1, <1>4, <1>5, RunStays DEF CaseIds
<1>7. jobs \in [EvalProcs -> Job]
  BY DEF EvalInv, EvalTypes
<1>8. ASSUME NEW e \in EvalProcs
      PROVE  \/ x.key \notin jobs[e].waits /\ jobs'[e] = jobs[e]
             \/ x.key \in jobs[e].waits /\ jobs'[e] = a(e)
  BY <1>1 DEF Waiting
<1>9. ASSUME NEW o \in Job
      PROVE  LET j == [o EXCEPT !.waits = @ \ {x.key}, !.results = @ \cup {r}] IN
             /\ j \in Job /\ j.at = o.at /\ j.content = o.content /\ j.version = o.version
             /\ j.waits = o.waits \ {x.key} /\ j.op = o.op /\ j.id = o.id
             /\ j.results = o.results \cup {r} /\ j.existing = o.existing
             /\ j.pos = o.pos /\ j.iteration = o.iteration /\ j.cases = o.cases
             /\ j.repeat = o.repeat /\ j.aborted = o.aborted
  BY <1>4 DEF Job
<1> HIDE DEF a
<1>10. ASSUME NEW e \in EvalProcs, x.key \in jobs[e].waits
       PROVE  /\ jobs'[e] \in Job /\ jobs'[e].at = jobs[e].at
              /\ jobs'[e].content = jobs[e].content /\ jobs'[e].version = jobs[e].version
              /\ jobs'[e].waits = jobs[e].waits \ {x.key} /\ jobs'[e].op = jobs[e].op
              /\ jobs'[e].id = jobs[e].id /\ jobs'[e].results = jobs[e].results \cup {r}
              /\ jobs'[e].existing = jobs[e].existing /\ jobs'[e].pos = jobs[e].pos
              /\ jobs'[e].iteration = jobs[e].iteration /\ jobs'[e].cases = jobs[e].cases
              /\ jobs'[e].repeat = jobs[e].repeat /\ jobs'[e].aborted = jobs[e].aborted
  <2>1. PICK o \in Job : o = jobs[e]
    BY <1>7
  <2>2. jobs'[e] = [o EXCEPT !.waits = @ \ {x.key}, !.results = @ \cup {r}]
    BY <1>8, <1>10, <2>1 DEF a
  <2>3. PICK j : j = [o EXCEPT !.waits = @ \ {x.key}, !.results = @ \cup {r}]
    OBVIOUS
  <2>4. /\ j \in Job /\ j.at = o.at /\ j.content = o.content /\ j.version = o.version
        /\ j.waits = o.waits \ {x.key} /\ j.op = o.op /\ j.id = o.id
        /\ j.results = o.results \cup {r} /\ j.existing = o.existing
        /\ j.pos = o.pos /\ j.iteration = o.iteration /\ j.cases = o.cases
        /\ j.repeat = o.repeat /\ j.aborted = o.aborted
    BY <1>9, <2>3
  <2>5. jobs'[e] = j
    BY <2>2, <2>3
  <2> QED
    BY <2>1, <2>4, <2>5
<1>11. ASSUME NEW e \in EvalProcs PROVE Sound(jobs[e]) /\ Knows(e)
  BY DEF EvalInv, Control
<1>12. jobs' \in [EvalProcs -> Job]
  <2>1. \A e \in EvalProcs : jobs'[e] \in Job
    BY <1>7, <1>8, <1>10
  <2> QED
    BY <1>1, <2>1
<1>13. EvalTypes'
  <2>1. runs' \in SUBSET Run /\ IsFiniteSet(runs')
    BY <1>1, <1>4, FS_AddElement DEF EvalInv, EvalTypes
  <2>2. executions' \in SUBSET Execution
    BY <1>1 DEF EvalInv, EvalTypes
  <2> QED
    BY <1>1, <1>12, <2>1, <2>2 DEF EvalInv, EvalTypes, CaseIds
<1>14. ASSUME NEW e \in EvalProcs, x.key \in jobs[e].waits
       PROVE  jobs[e].at = "batch" /\ Sound(jobs'[e]) /\ Knows(e)'
  <2>1. PICK o \in Job, j \in Job : o = jobs[e] /\ j = jobs'[e]
    BY <1>7, <1>10, <1>14
  <2>2. /\ j.at = o.at /\ j.content = o.content /\ j.version = o.version
        /\ j.waits = o.waits \ {x.key} /\ j.op = o.op /\ j.id = o.id
        /\ j.results = o.results \cup {r} /\ j.existing = o.existing
        /\ j.pos = o.pos /\ j.iteration = o.iteration /\ j.cases = o.cases
        /\ j.repeat = o.repeat
    BY <1>10, <1>14, <2>1
  <2>3. o.at = "batch" /\ Book(o) /\ o.version \in Versions /\ Sound(o)
    BY <1>11, <1>14, <2>1 DEF Sound
  <2>4. Book(j) /\ x.key[2] = o.version
    BY <1>4, <1>14, <2>1, <2>2, <2>3, BookAnswered
  <2>5. r.version = o.version
    BY <1>2, <1>4, <2>4 DEF ExecutionKnown
  <2>6. Sound(j)
    BY <2>2, <2>3, <2>4, <2>5 DEF Sound, CreatePoints, PreparePoints, BatchPoints
  <2>7. \A s \in j.existing \cup j.results : RunKnown(s)'
    BY <1>1, <1>5, <1>6, <1>11, <2>1, <2>2, RunStays DEF Knows, CaseIds
  <2>8. j.waits \subseteq {y.key : y \in executions'}
    BY <1>1, <1>11, <2>1, <2>2 DEF Knows
  <2>9. WrittenUnder(j.content, j.version)'
    BY <1>5, <1>11, <2>1, <2>2, <2>3 DEF Knows, TextPoints, WrittenUnder
  <2>10. Knows(e)'
    BY <2>1, <2>2, <2>3, <2>7, <2>8, <2>9 DEF Knows, CreatePoints
  <2> QED
    BY <2>1, <2>3, <2>6, <2>10
<1>15. Control'
  <2>1. ASSUME NEW e \in EvalProcs PROVE Sound(jobs'[e]) /\ Knows(e)'
    <3>1. CASE x.key \in jobs[e].waits
      BY <1>14, <3>1
    <3>2. CASE x.key \notin jobs[e].waits
      <4>1. Knows(e) /\ CaseIds \subseteq CaseIds' /\ Sound(jobs[e]) /\ jobs'[e] = jobs[e]
        BY <1>1, <1>8, <1>11, <3>2 DEF CaseIds
      <4>2. \A k \in jobs[e].waits : \E y \in executions' : y.key = k
        BY <1>1, <3>2, <4>1 DEF Knows
      <4> QED
        BY <1>1, <1>5, <4>1, <4>2, StillKnows
    <3> QED
      BY <3>1, <3>2
  <2>2. \A f, h \in Creating' : f = h
    <3>1. \A e \in EvalProcs : jobs'[e].op = jobs[e].op
      BY <1>8, <1>10
    <3> QED
      BY <3>1 DEF EvalInv, Control, Creating
  <2>3. \A y \in executions' : ExecutionKnown(y)'
    BY <1>1, <1>5, ExecutionStays DEF EvalInv, Control
  <2>4. OneExecutionPerKey'
    BY <1>1 DEF EvalInv, Control, OneExecutionPerKey
  <2> QED
    BY <2>1, <2>2, <2>3, <2>4 DEF Control
<1>16. RunsKnown'
  <2>1. \A s \in runs' : RunKnown(s)'
    BY <1>1, <1>5, <1>6, RunStays DEF EvalInv, RunsKnown, CaseIds
  <2>2. \A v \in Slots : \A s \in benchmarks[v].of : RunKnown(s)'
    BY <1>1, <1>5, RunStays DEF EvalInv, RunsKnown, CaseIds
  <2> QED
    BY <1>1, <2>1, <2>2 DEF RunsKnown
<1>17. Gone'
  BY <1>3, <1>5 DEF Gone, Live
<1>18. Tidy'
  <2> SUFFICES ASSUME undisturbed PROVE Tidy'
    BY <1>1 DEF Tidy
  <2>1. PICK e \in EvalProcs : x.key \in jobs[e].waits
    BY DEF EvalInv, Tidy
  <2>2. jobs[e].at = "batch" /\ e \in Busy
    BY <1>14, <2>1, RestingFacts DEF Busy
  <2>3. \A f \in EvalProcs \ {e} : jobs[f] = Resting /\ jobs'[f] = Resting
    <3>1. \A f \in EvalProcs \ {e} : jobs[f] = Resting
      BY <2>2 DEF EvalInv, Tidy, Busy
    <3> QED
      BY <1>8, <3>1, RestingFacts
  <2>4. Busy' = {e}
    BY <1>10, <2>1, <2>2, <2>3, RestingFacts DEF Busy
  <2>5. ASSUME NEW y \in executions' PROVE y.key \in jobs'[e].waits
    <3>1. y \in executions /\ y.key # x.key
      BY <1>1, <1>2
    <3>2. PICK f \in EvalProcs : y.key \in jobs[f].waits
      BY <3>1 DEF EvalInv, Tidy
    <3>3. f = e
      BY <2>3, <3>2, RestingFacts
    <3> QED
      BY <1>10, <2>1, <3>1, <3>2, <3>3
  <2>6. Settles(e)'
    <3>1. runs = jobs[e].existing \cup jobs[e].results
          /\ \A v \in Slots : Exact(jobs[e].existing, v)
      BY <1>3, <2>2 DEF EvalInv, Tidy, Settles, BatchPoints, AllRuns
    <3>2. PICK j \in Job, E \in SUBSET Run :
            /\ j = jobs'[e] /\ j.at = "batch" /\ j.existing = E /\ E = jobs[e].existing
            /\ j.results = jobs[e].results \cup {r}
      BY <1>10, <2>1, <2>2 DEF Job
    <3>3. \A v \in Slots : Exact(E, v)'
      BY <1>1, <3>1, <3>2 DEF Exact
    <3>4. runs' = AllRuns(e)'
      BY <1>1, <3>1, <3>2 DEF AllRuns
    <3> QED
      BY <3>2, <3>3, <3>4 DEF Settles, BatchPoints, PreparePoints, CreatePoints
  <2> QED
    BY <2>4, <2>5, <2>6 DEF Tidy
<1> QED
  BY <1>5, <1>13, <1>15, <1>16, <1>17, <1>18 DEF EvalInv

LEMMA ProgressKeeps ==
  ASSUME EvalInv, NEW x \in executions, Progress(x)
  PROVE  EvalInv'
<1>1. CASE Reject(x)
  BY <1>1, RejectKeeps
<1>2. CASE \E s \in Stages : ToStage(x, s)
  BY <1>2, ToStageKeeps
<1>3. CASE CaseExists(x) /\ \E g \in BOOLEAN : Stores(x, g)
  BY <1>3, StoresKeeps
<1>4. CASE ExecuteAndGrade(x)
  BY <1>1, <1>2, <1>4 DEF ExecuteAndGrade, Stages
<1>5. CASE SaveRun(x)
  BY <1>1, <1>2, <1>3, <1>5 DEF SaveRun, Stages
<1>6. CASE SaveFailedRun(x)
  BY <1>1, <1>3, <1>6 DEF SaveFailedRun
<1> QED
  BY <1>4, <1>5, <1>6 DEF Progress

-----------------------------------------------------------------------------
(* The invariant.                                                          *)

LEMMA EvalInitInv == EvalInit => EvalInv
<1> SUFFICES ASSUME EvalInit PROVE EvalInv
  OBVIOUS
<1>1. /\ SkillInv /\ runs = {} /\ benchmarks = NoBenchmarks /\ executions = {}
      /\ jobs = [e \in EvalProcs |-> Resting] /\ started = 0 /\ undisturbed = TRUE
  BY InitInv DEF EvalInit
<1>2. PICK n \in InitialCases : cases = [c \in 1..n |-> 1] /\ caseRows = 1..n
  BY DEF EvalInit
<1>3. n \in Nat /\ n <= MaxCases
  BY EvalAssumption
<1>4. cases \in Seq(Versions) /\ Len(cases) = n /\ CaseIds = 1..n
  <2>1. 1 \in Versions
    BY ConstantsAssumption DEF Versions
  <2> HIDE DEF Versions
  <2> QED
    BY <1>2, <1>3, <2>1 DEF CaseIds
<1>5. \A e \in EvalProcs : jobs[e] = Resting
  BY <1>1
<1>6. EvalTypes
  <2>1. NoBenchmarks \in [Slots -> Benchmark] /\ jobs \in [EvalProcs -> Job]
    BY <1>1, RestingFacts DEF NoBenchmarks, Benchmark
  <2>2. started \in 0..MaxRequests /\ undisturbed \in BOOLEAN
    BY <1>1, EvalAssumption
  <2> QED
    BY <1>1, <1>2, <1>3, <1>4, <2>1, <2>2, FS_EmptySet DEF EvalTypes
<1>7. Control
  <2>1. Sound(Resting)
    BY RestingFacts DEF Sound, CreatePoints, PreparePoints, BatchPoints
  <2>2. \A e \in EvalProcs : Knows(e)
    BY <1>5, RestingFacts DEF Knows, TextPoints, CreatePoints
  <2>3. Creating = {}
    BY <1>5, RestingFacts DEF Creating
  <2> QED
    BY <1>1, <1>5, <2>1, <2>2, <2>3 DEF Control, OneExecutionPerKey
<1>8. RunsKnown
  BY <1>1, NoneCounted DEF RunsKnown, NoBenchmarks
<1>9. Busy = {}
  BY <1>5 DEF Busy
<1>10. skill.state # "deleted"
  BY DEF EvalInit, Init
<1>11. Gone
  BY <1>1, <1>9, <1>10 DEF Gone
<1>12. \A v \in Slots : Exact(runs, v)
  BY <1>1 DEF Exact, NoBenchmarks
<1>13. Tidy
  BY <1>1, <1>9, <1>12 DEF Tidy
<1> QED
  BY <1>1, <1>6, <1>7, <1>8, <1>11, <1>13 DEF EvalInv

LEMMA EvalStepInv == EvalInv /\ [Next]_vars => EvalInv'
<1> SUFFICES ASSUME EvalInv, [Next]_vars PROVE EvalInv'
  OBVIOUS
<1>1. SkillInv' /\ SkillTypeOK
  BY NextSkill, StepInv DEF EvalInv, SkillInv
<1>2. ASSUME NEW e \in EvalProcs, JobBegin(e) PROVE EvalInv'
  BY <1>2, CreateCasesStartKeeps, JobStartKeeps, BenchmarkStartKeeps,
     DeleteRunStartKeeps, DeleteCaseStartKeeps DEF JobBegin
<1>0. Busy \subseteq EvalProcs
  BY DEF Busy
<1>3. ASSUME NEW e \in Busy, JobContinue(e) PROVE EvalInv'
  BY <1>0, <1>3, CreateCasesVersionKeeps, CreateCasesInsertKeeps, PrepareSnapshotKeeps,
     PrepareCasesKeeps, PrepareRunsKeeps, StartBatchKeeps, EndBatchesKeeps,
     PersistGlobalKeeps, PersistVersionKeeps, BenchmarkComputeKeeps,
     BenchmarkSaveKeeps, DeleteRowsKeep, InvalidateKeeps DEF JobContinue
<1>4. ASSUME NEW e \in Busy, Cancel(e) PROVE EvalInv'
  BY <1>0, <1>4, CancelKeeps
<1>5. ASSUME NEW x \in executions, Progress(x) PROVE EvalInv'
  BY <1>5, ProgressKeeps
<1>6. ASSUME NEW p \in Procs, SkillStep(p) \/ CleansSession(p) PROVE EvalInv'
  BY <1>1, <1>6, SkillGrows, SkillStepKeeps DEF SkillStep, CleansSession
<1>7. ASSUME NEW p \in Procs, Delete(p) PROVE EvalInv'
  BY <1>1, <1>7, DeleteStepKeeps
<1>9. ASSUME NEW p \in Procs, CleansUp(p) PROVE EvalInv'
  BY <1>9, CleanRowsKeeps, CleanBenchmarksKeeps DEF CleansUp
<1>8. CASE UNCHANGED vars
  <2>1. UNCHANGED evalVars /\ UNCHANGED <<skill, contents>>
    BY <1>8 DEF vars, svVars
  <2>2. TextsKept /\ StaysLive
    BY <2>1 DEF TextsKept, StaysLive, Live
  <2> QED
    BY <1>1, <2>1, <2>2, SkillStepKeeps
<1>10. CASE EvalNext
  BY <1>2, <1>3, <1>4, <1>5, <1>10 DEF EvalNext
<1>11. CASE \E p \in Procs : SkillStep(p) \/ CleansUp(p) \/ CleansSession(p) \/ Delete(p)
  BY <1>6, <1>7, <1>9, <1>11
<1> QED
  BY <1>8, <1>10, <1>11 DEF Next

\* How far the deletes of the skill are.
DeleteTypes == cleanups \in [Procs -> 0..3] /\ called \in 0..MaxCalls

LEMMA DeleteTypesHold == Spec => []DeleteTypes
<1>1. EvalInit => DeleteTypes
  BY EvalAssumption DEF EvalInit, DeleteTypes
<1>2. DeleteTypes /\ [Next]_vars => DeleteTypes'
  <2> SUFFICES ASSUME DeleteTypes, [Next]_vars PROVE DeleteTypes'
    OBVIOUS
  <2>1. ASSUME NEW p \in Procs, CleansUp(p) PROVE DeleteTypes'
    BY <2>1 DEF CleansUp, CleanRuns, CleanCases, CleanBenchmarks, Cleans, DeleteTypes
  <2>2. ASSUME NEW p \in Procs, SkillStep(p) PROVE DeleteTypes'
    BY <2>2, EvalAssumption DEF SkillStep, DeleteTypes
  <2>3. ASSUME NEW p \in Procs, CleansSession(p) \/ Delete(p) PROVE DeleteTypes'
    BY <2>3 DEF CleansSession, Delete, DeleteTypes
  <2>4. CASE UNCHANGED <<cleanups, called>>
    BY <2>4 DEF DeleteTypes
  <2> QED
    BY <2>1, <2>2, <2>3, <2>4 DEF Next, vars
<1> QED
  BY <1>1, <1>2, PTL DEF Spec

LEMMA EvalInvHolds == Spec => []EvalInv
  BY EvalInitInv, EvalStepInv, PTL DEF Spec

-----------------------------------------------------------------------------
(* The theorems.                                                           *)

\* The evals are an addition to the skill: what SkillVersionsProofs proves of
\* its requests holds beside the evals too.
THEOREM EvalsKeepTheSkill == Spec => SkillSpec
<1>1. EvalInit => Init
  BY DEF EvalInit
<1> QED
  BY <1>1, NextSkill, PTL DEF Spec, SkillSpec

\* The tables and the requests hold values of their types; runs and benchmarks
\* are only of cases that were created.
THEOREM EvalTypesCorrect == Spec => []EvalTypeOK
<1>1. EvalInv /\ DeleteTypes => EvalTypeOK
  <2> SUFFICES ASSUME EvalInv, DeleteTypes PROVE EvalTypeOK
    OBVIOUS
  <2>1. ASSUME NEW r \in Run, RunKnown(r)
        PROVE  /\ r.job \in 1..MaxRequests /\ r.case \in CaseIds
               /\ r.version \in Versions /\ r.content \in Contents
               /\ r.iteration \in Nat \ {0} /\ r.graded \in BOOLEAN
    BY <2>1 DEF Run, RunKnown
  <2>2. ASSUME NEW v \in Slots
        PROVE  /\ benchmarks[v].of \in SUBSET Run
               /\ benchmarks[v].of # {} => benchmarks[v].stored
    <3>1. benchmarks[v] \in Benchmark
      BY DEF EvalInv, EvalTypes
    <3> QED
      BY <3>1 DEF Benchmark, NoRow, Row
  <2>3. \A r \in runs \cup UNION {benchmarks[v].of : v \in Slots} : r \in Run /\ RunKnown(r)
    BY <2>2 DEF EvalInv, EvalTypes, RunsKnown
  <2>4. \A e \in EvalProcs : jobs[e].at \in JobSteps /\ jobs[e].id \in 0..MaxRequests
    <3>1. \A e \in EvalProcs : jobs[e] \in Job
      BY DEF EvalInv, EvalTypes
    <3> QED
      BY <3>1 DEF Job
  <2> QED
    BY <2>1, <2>2, <2>3, <2>4 DEF EvalTypeOK, EvalInv, SkillInv, EvalTypes, DeleteTypes
<1> QED
  BY <1>1, EvalInvHolds, DeleteTypesHold, PTL

\* Whatever becomes of the skill while a batch runs, a run carries the version
\* whose text was executed.
THEOREM RunsLabelledTruthfullyHolds == Spec => []RunsLabelledTruthfully
<1>1. EvalInv => RunsLabelledTruthfully
  BY DEF EvalInv, RunsKnown, RunKnown, WrittenUnder, RunsLabelledTruthfully
<1> QED
  BY <1>1, EvalInvHolds, PTL

\* However many requests run the same cases, a position is executed once at a
\* time.
THEOREM OneExecutionPerKeyHolds == Spec => []OneExecutionPerKey
<1>1. EvalInv => OneExecutionPerKey
  BY DEF EvalInv, Control
<1> QED
  BY <1>1, EvalInvHolds, PTL

\* For every number of cases and repetitions and every size of a batch, a
\* request that was not cancelled ends its batches with one run per position.
THEOREM BatchIsCompleteHolds == Spec => []BatchIsComplete
<1>1. EvalInv => BatchIsComplete
  BY DEF EvalInv, Control, Sound, AtJob, BatchIsComplete
<1> QED
  BY <1>1, EvalInvHolds, PTL

\* While requests on the evals come one at a time and none fails, or again since
\* the benchmarks were forgotten with nothing else running, a stored benchmark
\* counts the graded runs of its scope, all of them and no other.
THEOREM BenchmarksExactHolds == Spec => []BenchmarksExact
<1>1. EvalInv => BenchmarksExact
  <2> SUFFICES ASSUME EvalInv, undisturbed, Busy = {}, NEW v \in Slots
               PROVE  Exact(runs, v)
    BY DEF BenchmarksExact, Exact
  <2>1. CASE Live
    BY <2>1 DEF EvalInv, Tidy
  <2>2. CASE ~Live
    BY <2>2 DEF EvalInv, Gone, Exact, NoBenchmarks
  <2> QED
    BY <2>1, <2>2
<1> QED
  BY <1>1, EvalInvHolds, PTL

\* Every promise a request waits for belongs to an execution that still runs.
THEOREM WaitersAreAnsweredHolds == Spec => []WaitersAreAnswered
<1>1. EvalInv => WaitersAreAnswered
  BY DEF EvalInv, Control, Knows, WaitersAreAnswered
<1> QED
  BY <1>1, EvalInvHolds, PTL
=============================================================================
