---------------------------- MODULE OptimizerPage ----------------------------
(***************************************************************************)
(* The optimizer's page (useSkillContentOptimizer and the buttons of       *)
(* SkillContentOptimizer) over the tab's streaming connection: runs are    *)
(* started, watched, cancelled and repeated, and coverage gaps are fixed   *)
(* by generating eval cases and starting again.  A run is a call of kind   *)
(* "run" and stands for its AbortController too; abortRef.current is       *)
(* controller.                                                             *)
(***************************************************************************)
EXTENDS StreamClient

CONSTANT Gaps  \* the numbers of coverage gaps a result may report

ASSUME PageAssumption == Gaps \subseteq Nat

VARIABLES
  step,        \* the page's step
  controller,  \* abortRef.current: the run it belongs to, 0 for null
  shown,       \* the run whose result is shown, and those that added iterations
  fixing,      \* fixingGaps: the modal is open
  fixes,       \* the executions of executeGapFix in progress
  applying,    \* applyMutation is in flight
  \* history
  silenced     \* runs aborted once their request was sent

pageVars == <<step, controller, shown, fixing, fixes, applying>>
vars     == <<clientVars, pageVars, silenced>>

Blank == [result |-> 0, iterations |-> {}]
Runs  == {c \in DOMAIN calls : calls[c].kind = "run"}

-----------------------------------------------------------------------------
(* What the page does with the events of its runs.                         *)

EndsAs(c, outcomes) ==
  calls[c].at # "ended" /\ calls'[c].at = "ended"
    /\ calls'[c].outcome \in outcomes

Completed == {c \in Runs : EndsAs(c, {"complete"})}

DeafToRestarts ==  \* mutant: 'interrupted' is not handled
  {c \in Runs : EndsAs(c, {"error"}) \/ (EndsAs(c, {"failed"}) /\ c \notin aborted)}
\* optimization-error, interrupted, or the catch block.
Troubled ==
  {c \in Runs : \/ EndsAs(c, {"error", "interrupted"})
                \/ EndsAs(c, {"failed"}) /\ c \notin aborted}

PageFollows ==
  /\ step' = IF Completed # {} THEN "review"
             ELSE IF Troubled # {} THEN "configure" ELSE step
  /\ shown' = IF Completed = {} THEN shown
              ELSE [shown EXCEPT !.result = CHOOSE c \in Completed : TRUE]
  /\ UNCHANGED <<controller, fixing, fixes, applying, silenced>>

\* The other dialogs of the tab.
Others == (Emit \/ Cancel) /\ PageFollows

Hear == (Connection \/ Server) /\ PageFollows

\* 'iteration-complete' is appended to the list, whichever run sent it.
Iteration(c) ==
  /\ calls[c].kind = "run" /\ calls[c].work = "running" /\ Hears(c)
  /\ shown' = [shown EXCEPT !.iterations = @ \union {c}]
  /\ UNCHANGED <<clientVars, step, controller, fixing, fixes, applying, silenced>>

-----------------------------------------------------------------------------
(* Starting and cancelling.                                                *)

\* startOptimization.
StartOptimization ==
  /\ Request("run", Len(calls) + 1)
  /\ controller' = Len(calls) + 1
  /\ step' = "running"
  /\ shown' = Blank
  /\ UNCHANGED aborted

Start ==
  /\ step = "configure"
  /\ StartOptimization
  /\ UNCHANGED <<fixing, fixes, applying, silenced>>

\* abortRef.current?.abort()
AbortCurrent ==
  IF controller = 0 THEN UNCHANGED <<clientVars, silenced>>
  ELSE /\ Abort(controller)
       /\ silenced' = IF Listening(controller) THEN silenced \union {controller}
                      ELSE silenced
       /\ UNCHANGED net

CancelRun ==
  /\ step = "running"
  /\ AbortCurrent
  /\ step' = IF shown.iterations # {} THEN "review" ELSE "configure"
  /\ UNCHANGED <<controller, shown, fixing, fixes, applying>>

\* reset: "Run Again"; the modal of a fix covers the button.
Reset ==
  /\ step = "review" /\ ~fixing
  /\ AbortCurrent
  /\ step' = "configure"
  /\ shown' = Blank
  /\ UNCHANGED <<controller, fixing, fixes, applying>>

\* applyBest: the best draft is saved over HTTP; what the user does
\* meanwhile does not change what happens at its end.
Apply ==
  /\ step = "review" /\ shown.result # 0 /\ ~fixing /\ ~applying
  /\ applying' = TRUE
  /\ UNCHANGED <<clientVars, step, controller, shown, fixing, fixes, silenced>>

Applied ==
  /\ applying
  /\ applying' = FALSE
  /\ step' \in {"applied", step}
  /\ UNCHANGED <<clientVars, controller, shown, fixing, fixes, silenced>>

-----------------------------------------------------------------------------
(* Fixing coverage gaps.                                                   *)

GenerateWithCurrent(signal) ==  \* mutant: abortRef.current is read again
  /\ controller \notin aborted
  /\ Request("emit", controller)
  /\ UNCHANGED aborted
\* generateTestEvals: nothing is generated for a signal that is aborted, and
\* the empty answer is thrown as an error.
Generate(signal) ==
  /\ signal \notin aborted
  /\ Request("emit", signal)
  /\ UNCHANGED aborted

Becomes(f, g) == (fixes \ {f}) \union {g}

\* The end of executeGapFix, with or without an error.
GapFixOver(f) ==
  /\ fixing' = FALSE
  /\ fixes' = fixes \ {f}

ExecuteGapFix ==
  /\ step = "review" /\ shown.result # 0 /\ ~fixing
  /\ Generate(controller)
  /\ fixing' = TRUE
  /\ \E gaps \in Gaps \ {0} :
       fixes' = fixes \union
         {[at |-> "generating", signal |-> controller, call |-> Len(calls) + 1,
           left |-> gaps]}
  /\ UNCHANGED <<step, controller, shown, applying, silenced>>

\* generateTestEvals returns: the cases are created, or there are none.
Generated(f) ==
  /\ f.at = "generating"
  /\ calls[f.call].outcome = "complete"
  /\ fixes' = Becomes(f, [f EXCEPT !.at = "creating"])
  /\ UNCHANGED <<clientVars, step, controller, shown, fixing, applying, silenced>>

\* One of the awaits throws.
GapFixFails(f) ==
  /\ \/ f.at = "generating" /\ calls[f.call].at = "ended"
     \/ f.at = "creating"
  /\ GapFixOver(f)
  /\ UNCHANGED <<clientVars, step, controller, shown, applying, silenced>>

NextGap(f) ==
  /\ f.at = "creating" /\ f.left > 1
  /\ Generate(f.signal)
  /\ fixes' = Becomes(f, [f EXCEPT !.at = "generating", !.call = Len(calls) + 1,
                                   !.left = @ - 1])
  /\ UNCHANGED <<step, controller, shown, fixing, applying, silenced>>

\* bulkCreateEvalCases has returned for the last gap: run again.
RunAgain(f) ==
  /\ f.at = "creating" /\ f.left = 1
  /\ GapFixOver(f)
  /\ StartOptimization
  /\ UNCHANGED <<applying, silenced>>

\* cancelGapFix, from the modal, which is part of the review.
CancelGapFix ==
  /\ step = "review" /\ fixing
  /\ AbortCurrent
  /\ controller' = 0
  /\ fixing' = FALSE
  /\ UNCHANGED <<step, shown, fixes, applying>>

-----------------------------------------------------------------------------

Init ==
  /\ ClientInit
  /\ step = "configure"
  /\ controller = 0
  /\ shown = Blank
  /\ fixing = FALSE
  /\ fixes = {}
  /\ applying = FALSE
  /\ silenced = {}

GapFix ==
  \/ ExecuteGapFix
  \/ CancelGapFix
  \/ \E f \in fixes :
       Generated(f) \/ GapFixFails(f) \/ NextGap(f) \/ RunAgain(f)

Next ==
  \/ Hear
  \/ Others
  \/ \E c \in DOMAIN calls : Iteration(c)
  \/ Start \/ CancelRun \/ Reset \/ Apply \/ Applied
  \/ GapFix

Spec == Init /\ [][Next]_vars

\* The connection is established in the end, the server takes up what
\* arrives and ends what it runs.
Establish(s) == s \in DOMAIN net.sockets /\ (Connect(s) \/ Join(s)) /\ PageFollows
Serve(c) == c \in DOMAIN calls /\ (TakeUp(c) \/ Finish(c)) /\ PageFollows
FairSpec ==
  /\ Spec
  /\ \A s \in 1..MaxSockets : WF_vars(Establish(s))
  /\ \A c \in 1..MaxCalls : WF_vars(Serve(c))

-----------------------------------------------------------------------------
(* Properties.                                                             *)

\* Type invariant.
PageTypeOK ==
  /\ ClientTypeOK
  /\ step \in {"configure", "running", "review", "applied"}
  /\ controller \in {0} \union Runs
  /\ shown.result \in {0} \union Runs /\ shown.iterations \subseteq Runs
  /\ fixing \in BOOLEAN /\ applying \in BOOLEAN
  /\ \A f \in fixes :
       /\ f.at \in {"generating", "creating"}
       /\ f.left \in Nat \ {0}
       /\ calls[f.call].kind = "emit"
       /\ calls[f.call].ctl = f.signal
  /\ silenced \subseteq Runs

\* While the page shows a run in progress, abortRef belongs to a run whose
\* promise has neither settled nor been aborted: an end of the run that its
\* listener hears of takes the page out of the step, and Cancel aborts the
\* run shown.  (That one may still wait for its connection, and is then sent
\* all the same, or listen where nothing comes any more.)
SpinnerHasALiveRun ==
  step = "running" =>
    /\ controller \in Runs \ aborted
    /\ calls[controller].at # "ended"

\* A run cancelled once its request was sent does not add to the result and
\* the iterations that the page shows, not even when its events were on
\* their way.
CancelledStaysSilent ==
  [][\A c \in silenced :
       /\ shown'.result = c => shown.result = c
       /\ c \in shown'.iterations => c \in shown.iterations]_vars

\* "so a reconnect (even to another pod) keeps receiving events"
\* (streaming.gateway.ts:243-244): a run that is shown in progress, and that
\* the server has taken up, is over for the page some time.
InProgress ==
  step = "running" /\ controller # 0 /\ calls[controller].work = "running"
RunsSettle == InProgress ~> step # "running"
=============================================================================
