--------------------------- MODULE OptimizationLoop ---------------------------
(***************************************************************************)
(* One run of the skill optimizer (SkillOptimizationService.runLoop): an   *)
(* iteration scores the current draft on the train cases, lets the model   *)
(* improve it, scores the result on the test cases, reverts to the best    *)
(* draft when the score has dropped, and saves the draft to the cache, of  *)
(* which the best one is returned at the end.  Every await is a step; the  *)
(* user may cancel, and the server shut down, between any two.             *)
(*                                                                         *)
(* Contents are numbered: 0 is the skill as it was, n the answer to the    *)
(* n-th improvement.  A score is the share of the cases that pass, out of  *)
(* Top; the model and the grader are not deterministic, so every           *)
(* evaluation may give any score, of the same content too.                 *)
(***************************************************************************)
EXTENDS Naturals, Sequences, FiniteSets, Functions

CONSTANTS
  Limits,   \* values of config.maxIterations
  Top,      \* the score of a draft that passes every case
  Targets,  \* values of config.targetPassRate
  Faults    \* whether calls may fail, keys be lost and the pod crash

ASSUME OptimizationAssumption ==
  /\ Limits \subseteq Nat \ {0} /\ IsFiniteSet(Limits) /\ Limits # {}
  /\ Top \in Nat \ {0}
  /\ Targets \subseteq 0..Top /\ Targets # {}
  /\ Faults \in BOOLEAN

VARIABLES
  at,          \* the await runLoop stands at
  config,      \* maxIterations, targetPassRate, includeFeedback
  feedback,    \* feedbackPreamble # undefined
  draft,       \* state.currentDraft
  best,        \* state.bestDraft
  iterations,  \* state.iterations: the test score of every finished one
  score,       \* testScore of this iteration
  generated,   \* improvements answered so far
  aborted,     \* signal.aborted
  active,      \* the controller is in activeSignals
  drafts,      \* cache: the draft saved for an iteration
  index,       \* cache: the iterations saved, in order, with their scores
  events,      \* the terminal events emitted, in order
  err,         \* what the catch block of runLoop caught
  result,      \* bestIteration of optimization-complete
  \* history
  measured,    \* the draft and score of every test evaluation
  rejected,    \* contents that failed validation
  briefed,     \* an improvement was asked for with the feedback
  cacheFailed  \* a call to the cache failed or a key was lost

loopVars  == <<at, config, feedback, draft, best, iterations, score, generated,
               err>>
cacheVars == <<drafts, index>>
history   == <<measured, rejected, briefed, cacheFailed>>
vars == <<loopVars, aborted, active, cacheVars, events, result, history>>

Scores  == 0..Top
NoDraft == [iteration |-> 0]
Errors  == {"none", "cancellation", "failure"}
Steps   == {"load", "train", "analyze", "improve", "test", "saveDraft",
            "saveIndex", "assemble", "cleanup", "ended", "crashed"}
KeptFromZero(i, d) ==  \* mutant: counted from 0
  [iteration |-> i - 1, content |-> d.content, test |-> d.test]
Kept(i, d) == [iteration |-> i, content |-> d.content, test |-> d.test]
Iteration  == Len(iterations) + 1

-----------------------------------------------------------------------------
(* Control.                                                                *)

Goto(step) == at' = step

AnyFailure(e) == TRUE  \* mutant: every error is taken for one
\* isCancellation: the run was aborted, or the error is named AbortError or
\* has the message of OptimizationCancelledError, whoever threw it.
IsCancellation(e) == aborted \/ e = "cancellation"

ThrowSkipsCleanup(e) ==  \* mutant: no finally
  /\ Goto("ended")
  /\ active' = FALSE
  /\ err' = e
  /\ events' = IF IsCancellation(e) THEN events ELSE Append(events, "error")

\* The catch block and the first statement of the finally block.
Throw(e) ==
  /\ Goto("cleanup")
  /\ active' = FALSE
  /\ err' = e
  /\ events' = IF IsCancellation(e) THEN events ELSE Append(events, "error")

\* An evaluation, or another call of the model, that does not return: it
\* notices that the run was aborted, or it fails, with an AbortError of its
\* own (a request that was given up) or with any other error.
CallFails(step) ==
  /\ at = step
  /\ Faults \/ aborted
  /\ \E e \in {"cancellation", "failure"} : Throw(e)
  /\ UNCHANGED <<config, feedback, draft, best, iterations, score, generated,
                 aborted, cacheVars, result, history>>

\* The loop is left: by break, by its condition or by shouldStop.
Leave == Goto("assemble")

\* resolveEffectiveConfig: feedback needs a second iteration.
RequestedLimit == config.limit  \* mutant: the request is taken as it is
EffectiveLimit ==
  IF feedback /\ config.limit < 2 THEN 2 ELSE config.limit

-----------------------------------------------------------------------------
(* Before the loop.                                                        *)

\* findById, getEvalCases, loadFeedbackPreamble.  The feedback is optional:
\* failing to load it is not an error.
Load ==
  /\ at = "load"
  /\ Goto(IF aborted THEN "assemble" ELSE "train")
  /\ feedback' \in {FALSE, config.includeFeedback}
  /\ UNCHANGED <<config, draft, best, iterations, score, generated, aborted,
                 err, active, cacheVars, events, result, history>>

\* The skill is gone, it has no eval cases, or the database fails.
LoadFails ==
  /\ at = "load"
  /\ Throw("failure")
  /\ UNCHANGED <<config, feedback, draft, best, iterations, score, generated,
                 aborted, cacheVars, result, history>>

-----------------------------------------------------------------------------
(* Steps A and B: score on the train cases, improve.                       *)

\* Feedback captures what the cases do not: it forces one improvement.
PendingFeedback == Iteration = 1 /\ feedback
NeedsImprovement(train) == train < config.target \/ PendingFeedback

\* runTrainEvalPhase returns; an aborted batch may return what it has.
TrainEval ==
  /\ at = "train"
  /\ \E train \in Scores :
       Goto(IF aborted THEN "assemble"
            ELSE IF Iteration < EffectiveLimit /\ NeedsImprovement(train)
                 THEN "analyze" ELSE "test")
  /\ UNCHANGED <<config, feedback, draft, best, iterations, score, generated,
                 err, aborted, active, cacheVars, events, result, history>>

\* The delay before the prompt is built.
Analyze ==
  /\ at = "analyze"
  /\ Goto(IF aborted THEN "assemble" ELSE "improve")
  /\ briefed' = (briefed \/ (PendingFeedback /\ ~aborted))
  /\ UNCHANGED <<config, feedback, draft, best, iterations, score, generated,
                 err, aborted, active, cacheVars, events, result, measured,
                 rejected, cacheFailed>>

\* A draft with validation errors is dropped, the current one stays.
Accepted(valid) ==
  IF valid THEN [content |-> generated + 1, from |-> draft.content, test |-> 0]
  ELSE draft

Improve ==
  /\ at = "improve"
  /\ generated' = generated + 1
  /\ \/ aborted /\ Leave /\ UNCHANGED <<draft, rejected>>
     \/ /\ ~aborted
        /\ Goto("test")
        /\ \E valid \in BOOLEAN :
             /\ draft' = Accepted(valid)
             /\ rejected' = IF valid THEN rejected
                                     ELSE rejected \union {generated + 1}
  /\ UNCHANGED <<config, feedback, best, iterations, score, aborted, active,
                 err, cacheVars, events, result, measured, briefed,
                 cacheFailed>>

-----------------------------------------------------------------------------
(* Steps C to H: score on the test cases, guard, save, stop.               *)

BestScore == IF best = NoDraft THEN 0 ELSE best.draft.test
NeverRegressed(s) == FALSE  \* mutant: no regression guard
Regressed(s) == best # NoDraft /\ s < BestScore
IsNewPeak(s) == best = NoDraft \/ s > BestScore

\* runTestEvalPhase returns; the draft of a worse iteration is replaced by
\* the best one, with the best one's scores.
TestEval ==
  /\ at = "test"
  /\ \/ aborted /\ Leave /\ UNCHANGED <<draft, best, score, measured>>
     \/ /\ ~aborted
        /\ Goto("saveDraft")
        /\ \E s \in Scores :
             LET stamped == [draft EXCEPT !.test = s]
             IN  /\ score' = s
                 /\ measured' = Append(measured, stamped)
                 /\ draft' = IF Regressed(s) THEN best.draft ELSE stamped
                 /\ best' = IF IsNewPeak(s)
                            THEN [iteration |-> Iteration, draft |-> stamped]
                            ELSE best
  /\ UNCHANGED <<config, feedback, iterations, generated, aborted, active,
                 err, cacheVars, events, result, rejected, briefed,
                 cacheFailed>>

\* RedisDraftStore.save: the draft, then the index.
SaveDraft ==
  /\ at = "saveDraft"
  /\ drafts' = [i \in DOMAIN drafts \union {Iteration} |->
                  IF i = Iteration THEN draft ELSE drafts[i]]
  /\ Goto("saveIndex")
  /\ UNCHANGED <<config, feedback, draft, best, iterations, score, generated,
                 err, aborted, active, index, events, result, history>>

Plateaued(its) ==
  /\ Len(its) >= 3
  /\ its[Len(its)] <= its[Len(its) - 2]

\* The target was reached by an iteration that set no new best.
TargetReached(peak) == score >= config.target  \* mutant: the peak is not looked at
TargetHolds(peak) == score >= config.target /\ ~peak

\* best was updated before the save: this iteration set it, or not.
ShouldStop(its) ==
  \/ TargetHolds(best.iteration = Iteration) /\ ~PendingFeedback
  \/ Plateaued(its)

\* The iterations of the index.
Indexed == {index[i].iteration : i \in DOMAIN index}

\* The index without the entry of this iteration, if it has one.
OtherEntries ==
  IF Iteration \in Indexed
  THEN SelectSeq(index, LAMBDA e : e.iteration # Iteration)
  ELSE index

\* The index is saved; the iteration is recorded and the loop goes on.
SaveIndex ==
  /\ at = "saveIndex"
  /\ index' = Append(OtherEntries,
                     [iteration |-> Iteration, score |-> draft.test])
  /\ LET its == Append(iterations, score)
     IN  /\ iterations' = its
         /\ Goto(IF ShouldStop(its) \/ Len(its) >= EffectiveLimit \/ aborted
                 THEN "assemble" ELSE "train")
  /\ UNCHANGED <<config, feedback, draft, best, score, generated, aborted,
                 err, active, drafts, events, result, history>>

-----------------------------------------------------------------------------
(* After the loop.                                                         *)

\* index.reduce: the first entry with the highest score.
FirstBest(i) ==
  /\ \A j \in DOMAIN index : index[j].score <= index[i].score
  /\ \A j \in 1..(i - 1) : index[j].score < index[i].score

\* RedisDraftStore.getBest; null when the index or its draft is not there.
GetBest ==
  IF index = <<>> THEN NoDraft
  ELSE LET i == index[CHOOSE i \in DOMAIN index : FirstBest(i)].iteration
       IN  IF i \in DOMAIN drafts THEN Kept(i, drafts[i]) ELSE NoDraft

Baseline == IF iterations = <<>> THEN 0 ELSE iterations[1]
FeedbackApplied == feedback /\ Len(iterations) > 1

\* assembleAndEmitResult, and the first statement of the finally block.
Assemble ==
  /\ at = "assemble"
  /\ Goto("cleanup")
  /\ active' = FALSE
  /\ events' = Append(events, "complete")
  /\ LET b == GetBest
     IN  result' = IF b # NoDraft /\ (b.test > Baseline \/ FeedbackApplied)
                   THEN b ELSE NoDraft
  /\ UNCHANGED <<config, feedback, draft, best, iterations, score, generated,
                 err, aborted, cacheVars, history>>

\* RedisDraftStore.cleanup deletes the drafts that the index names.
Cleanup ==
  /\ at = "cleanup"
  /\ Goto("ended")
  /\ drafts' = Restrict(drafts, DOMAIN drafts \ Indexed)
  /\ index' = <<>>
  /\ UNCHANGED <<config, feedback, draft, best, iterations, score, generated,
                 err, aborted, active, events, result, history>>

-----------------------------------------------------------------------------
(* Cancellation, shutdown and faults.                                      *)

\* The gateway's cancel handler, its grace timer, or the SSE connection.
Cancel ==
  /\ at \notin {"ended", "crashed"}
  /\ ~aborted
  /\ aborted' = TRUE
  /\ UNCHANGED <<loopVars, active, cacheVars, events, result, history>>

\* onModuleDestroy.
Shutdown ==
  /\ active
  /\ aborted' = TRUE
  /\ active' = FALSE
  /\ UNCHANGED <<loopVars, cacheVars, events, result, history>>

\* save or getBest throws inside the loop.
CacheFails ==
  /\ Faults
  /\ at \in {"saveDraft", "saveIndex", "assemble"}
  /\ Throw("failure")
  /\ cacheFailed' = TRUE
  /\ UNCHANGED <<config, feedback, draft, best, iterations, score, generated,
                 aborted, cacheVars, result, measured, rejected, briefed>>

\* cleanup throws: runLoop rejects, and the gateway's handler reports it.
CleanupFails ==
  /\ Faults
  /\ at = "cleanup"
  /\ Goto("ended")
  /\ events' = IF aborted THEN events ELSE Append(events, "error")
  /\ cacheFailed' = TRUE
  /\ UNCHANGED <<config, feedback, draft, best, iterations, score, generated,
                 err, aborted, active, cacheVars, result, measured, rejected,
                 briefed>>

\* A key expires or the cache restarts without it.  (Bound: at most one loss
\* a run, before any other failure of the cache.)
LoseKey ==
  /\ Faults /\ ~cacheFailed
  /\ at \notin {"ended", "crashed"}
  /\ \/ \E i \in DOMAIN drafts :
          drafts' = Restrict(drafts, DOMAIN drafts \ {i}) /\ UNCHANGED index
     \/ index # <<>> /\ index' = <<>> /\ UNCHANGED drafts
  /\ cacheFailed' = TRUE
  /\ UNCHANGED <<loopVars, aborted, active, events, result, measured,
                 rejected, briefed>>

Crash ==
  /\ Faults
  /\ at \notin {"ended", "crashed"}
  /\ Goto("crashed")
  /\ active' = FALSE
  /\ UNCHANGED <<config, feedback, draft, best, iterations, score, generated,
                 err, aborted, cacheVars, events, result, history>>

-----------------------------------------------------------------------------

Init ==
  /\ at = "load"
  /\ config \in [limit : Limits, target : Targets, includeFeedback : BOOLEAN]
  /\ feedback = FALSE
  /\ draft = [content |-> 0, from |-> 0, test |-> 0]
  /\ best = NoDraft
  /\ iterations = <<>>
  /\ score = 0
  /\ generated = 0
  /\ aborted = FALSE
  /\ active = TRUE
  /\ drafts = <<>>
  /\ index = <<>>
  /\ events = <<>>
  /\ err = "none"
  /\ result = NoDraft
  /\ measured = <<>>
  /\ rejected = {}
  /\ briefed = FALSE
  /\ cacheFailed = FALSE

ModelCallFails ==
  \E step \in {"train", "improve", "test"} : CallFails(step)

Run ==
  \/ Load \/ LoadFails \/ TrainEval \/ Analyze \/ Improve \/ TestEval
  \/ SaveDraft \/ SaveIndex \/ Assemble \/ Cleanup
  \/ ModelCallFails \/ CacheFails \/ CleanupFails

Next == Run \/ Cancel \/ Shutdown \/ LoseKey \/ Crash

Spec == Init /\ [][Next]_vars

\* Every await ends: calls of the model and the cache return or fail.
FairSpec == Spec /\ WF_vars(Run)

-----------------------------------------------------------------------------
(* Properties.                                                             *)

Drafts == [content : 0..generated, from : 0..generated, test : Scores]
Results == [iteration : DOMAIN measured, content : 0..generated, test : Scores]

\* Type invariant.  The best draft is one of an iteration that was scored,
\* the cache holds drafts of such iterations only, and nothing that failed
\* validation was ever scored.
OptTypeOK ==
  /\ at \in Steps
  /\ config \in [limit : Limits, target : Targets, includeFeedback : BOOLEAN]
  /\ feedback \in BOOLEAN /\ (feedback => config.includeFeedback)
  /\ generated \in Nat /\ draft \in Drafts
  /\ best = NoDraft \/ best \in [iteration : DOMAIN measured, draft : Drafts]
  /\ iterations \in Seq(Scores) /\ score \in Scores
  /\ Len(measured) \in {Len(iterations), Iteration}
  /\ aborted \in BOOLEAN /\ active \in BOOLEAN
  /\ DOMAIN drafts \subseteq DOMAIN measured
  /\ \A i \in DOMAIN drafts : drafts[i] \in Drafts
  /\ index \in Seq([iteration : DOMAIN measured, score : Scores])
  /\ events \in Seq({"complete", "error"}) /\ err \in Errors
  /\ result = NoDraft \/ result \in Results
  /\ measured \in Seq(Drafts) /\ rejected \subseteq 1..generated
  /\ \A i \in DOMAIN measured : measured[i].content \notin rejected

\* The run as its promise sees it: the test evaluations are the trials, the
\* cache is the memory.
Closed == at \in {"cleanup", "ended", "crashed"}
Promise == INSTANCE BestDraft WITH
  trials <- measured, answer <- result, closed <- Closed,
  intact <- ~cacheFailed

\* The optimizer implements BestDraft.  A worse draft never takes the place
\* of a better one: whatever was generated, rejected or reverted, what is
\* improved and scored next is a content that holds the highest score so
\* far.  What is returned is found by the scores in the cache, where a
\* reverted iteration is stored under the best draft's score, and is still
\* the content of the first iteration with the highest score of all; and it
\* is a content with its own score even when the cache has lost keys.
KeepsTheBest == Promise!Spec

\* The loop stops early only when the best score has been followed by at
\* least one iteration that did not beat it: never on the iteration that
\* set it, at the target or on a plateau.
EarlyStopIsConfirmed ==
  at = "assemble" /\ ~aborted /\ Len(iterations) < EffectiveLimit =>
    \A i \in DOMAIN measured :
      Promise!LeadsFirst(i) => i < Len(iterations)

\* A run that is not cancelled and was given the users' feedback has asked
\* for an improvement with it and has scored the outcome in two iterations,
\* even when every train case passed and one iteration was asked for.
FeedbackIsUsed ==
  at = "assemble" /\ ~aborted /\ feedback =>
    briefed /\ Len(iterations) >= 2

\* No draft is left in the cache by a run whose calls to it succeeded, on
\* any of the ways out of the loop.
DraftsCleaned ==
  at = "ended" /\ ~cacheFailed => drafts = <<>> /\ index = <<>>

\* Unless its pod crashes, every run ends, and one that nobody cancelled and
\* no AbortError ended has told its client how: completion or an error, and
\* after it at most the failure to clean up.  A run that is ended by an
\* AbortError of a call tells its client nothing, aborted or not: the code
\* takes it for a cancellation.
Ending == IF err = "none" THEN "complete" ELSE "error"
Answered ==
  /\ at = "ended"
  /\ \/ aborted \/ err = "cancellation"
     \/ events \in {<<Ending>>, <<Ending, "error">>}
EveryRunIsAnswered == <>(Answered \/ at = "crashed")
=============================================================================
