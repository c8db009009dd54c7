------------------------- MODULE OptimizerPageProofs -------------------------
(* What TLAPS proves of OptimizerPage, for any number of sockets, requests  *)
(* and coverage gaps and whatever may happen, from StreamClientAssumption   *)
(* and PageAssumption.                                                      *)
EXTENDS OptimizerPage, StreamClientProofs

-----------------------------------------------------------------------------
(* The invariant.                                                          *)

PageSteps == {"configure", "running", "review", "applied"}
Shows     == [result : Nat, iterations : SUBSET Nat]
Fixes     == [at : {"generating", "creating"}, signal : Nat, call : Nat,
              left : Nat \ {0}]

\* The call an execution of executeGapFix waits for, or has waited for, was
\* made with the signal it read at its start.
FixOK(f) ==
  /\ f \in Fixes
  /\ f.call \in DOMAIN calls
  /\ calls[f.call].kind = "emit" /\ calls[f.call].ctl = f.signal

PageTypes ==
  /\ step \in PageSteps
  /\ controller \in {0} \union Runs
  /\ shown \in Shows
  /\ shown.result \in {0} \union Runs /\ shown.iterations \subseteq Runs
  /\ fixing \in BOOLEAN /\ applying \in BOOLEAN
  /\ \A f \in fixes : FixOK(f)
  /\ silenced \subseteq Runs

\* A run that was listening when it was aborted listens no longer.
Silent == \A c \in silenced : calls[c].at = "ended"

IInv == ClientInv /\ PageTypes /\ Silent /\ SpinnerHasALiveRun

-----------------------------------------------------------------------------
(* What every step keeps.                                                  *)

\* Requests are never forgotten and stay what they are.
LEMMA Remembered ==
  ASSUME IInv, ClientStep
  PROVE  /\ DOMAIN calls \subseteq DOMAIN calls' /\ Runs \subseteq Runs'
         /\ \A f \in fixes : FixOK(f)'
         /\ \A c \in Runs : calls[c].at = "ended" => calls'[c].at = "ended"
<1>1. /\ DOMAIN calls = 1..Len(calls) /\ Len(calls) \in Nat
      /\ DOMAIN calls' = 1..Len(calls') /\ Len(calls') \in Nat
      /\ Len(calls) <= Len(calls')
  BY SeqFacts DEF IInv, ClientInv, ClientStep
<1>2. DOMAIN calls \subseteq DOMAIN calls'
  BY <1>1
<1>3. \A c \in DOMAIN calls :
        /\ calls'[c].kind = calls[c].kind /\ calls'[c].ctl = calls[c].ctl
        /\ calls[c].at = "ended" => calls'[c].at = "ended"
  BY DEF ClientStep, Changes
<1> QED
  BY <1>2, <1>3 DEF Runs, FixOK, IInv, PageTypes

\* What is left to show of a step of the page.
LEMMA PageKeeps ==
  ASSUME IInv, ClientStep,
         step' \in PageSteps, controller' \in {0} \union Runs',
         shown' \in Shows,
         shown'.result \in {0} \union Runs', shown'.iterations \subseteq Runs',
         fixing' \in BOOLEAN, applying' \in BOOLEAN,
         \A f \in fixes' : f \in fixes \/ FixOK(f)',
         \A c \in silenced' : c \in silenced \/ (c \in Runs /\ calls'[c].at = "ended"),
         SpinnerHasALiveRun'
  PROVE  IInv'
<1>1. PageTypes'
  BY Remembered DEF IInv, PageTypes
<1>2. Silent'
  BY Remembered DEF IInv, PageTypes, Silent
<1> QED
  BY <1>1, <1>2 DEF IInv, ClientStep

\* The page's part of the state does not change, but for its step.
LEMMA PageIdles ==
  ASSUME IInv, ClientStep, UNCHANGED <<controller, silenced>>,
         shown' = shown \/ shown' = Blank,
         step' \in PageSteps, fixing' \in BOOLEAN, applying' \in BOOLEAN,
         \A f \in fixes' : f \in fixes \/ FixOK(f)',
         SpinnerHasALiveRun'
  PROVE  IInv'
<1>1. Blank \in Shows /\ Blank.result = 0 /\ Blank.iterations = {}
  BY DEF Blank, Shows
<1> QED
  BY <1>1, PageKeeps, Remembered DEF IInv, PageTypes

\* The run shown in progress is still the controller's when a step leaves
\* both, and the calls that were there, as they are.
LEMMA SpinnerStays ==
  ASSUME IInv, ClientStep, UNCHANGED controller,
         step' = "running" => step = "running",
         \A c \in Runs : c \in aborted' => c \in aborted,
         \A c \in Runs : c = controller /\ calls'[c].at = "ended" =>
           calls[c].at = "ended"
  PROVE  SpinnerHasALiveRun'
  BY Remembered DEF IInv, SpinnerHasALiveRun

LEMMA PageStarts == Init => IInv
<1> SUFFICES ASSUME Init PROVE IInv
  OBVIOUS
<1>1. ClientInv /\ calls = <<>>
  BY ClientStarts DEF Init, ClientInit
<1>2. PageTypes /\ Silent /\ SpinnerHasALiveRun
  BY <1>1
     DEF Init, PageTypes, PageSteps, Shows, Blank, Silent, SpinnerHasALiveRun, Runs
<1> QED
  BY <1>1, <1>2 DEF IInv

-----------------------------------------------------------------------------
(* The connection, the server and the other dialogs.                       *)

LEMMA ClientSteps ==
  ASSUME IInv, Connection \/ Server \/ Emit \/ Cancel
  PROVE  ClientStep /\ \A c \in Runs : c \in aborted' => c \in aborted
<1>1. ClientInv
  BY DEF IInv
<1>2. CASE Connection \/ Server
  BY <1>1, <1>2, ConnectionSteps, ServerSteps
<1>3. CASE Emit
  <2>1. Request("emit", Len(calls) + 1) /\ UNCHANGED aborted
    BY <1>3 DEF Emit
  <2>2. Len(calls) + 1 \in 0..MaxCalls
    BY <1>1, <2>1, Facts, StreamClientAssumption DEF Request
  <2> QED
    BY <1>1, <2>1, <2>2, Requests
<1>4. CASE Cancel
  <2>1. PICK c \in Dialogs : Abort(c) /\ UNCHANGED net
    BY <1>4 DEF Cancel
  <2>2. c \in DOMAIN calls /\ calls[c].kind = "emit"
    BY DEF Dialogs
  <2>3. ClientStep /\ aborted' = aborted \union {c}
    BY <1>1, <2>1, <2>2, Aborts
  <2> QED
    BY <2>2, <2>3 DEF Runs
<1> QED
  BY <1>2, <1>3, <1>4

\* However a run ends that was not aborted, the page leaves the step in which
\* it is shown.
LEMMA Follows ==
  ASSUME IInv, ClientStep, \A c \in Runs : c \in aborted' => c \in aborted,
         PageFollows
  PROVE  IInv'
<1>1. Completed \subseteq Runs /\ Troubled \subseteq Runs
  BY DEF Completed, Troubled
<1>2. /\ step' = IF Completed # {} THEN "review"
                 ELSE IF Troubled # {} THEN "configure" ELSE step
      /\ UNCHANGED <<controller, fixing, fixes, applying, silenced>>
  BY DEF PageFollows
<1>3. \/ shown' = shown
      \/ \E c \in Runs : shown' = [shown EXCEPT !.result = c]
  BY <1>1 DEF PageFollows
<1>4. /\ shown' \in Shows /\ shown'.result \in {0} \union Runs
      /\ shown'.iterations \subseteq Runs
  <2>1. Runs \subseteq Nat
    BY SeqFacts DEF IInv, ClientInv, Runs
  <2> QED
    BY <1>3, <2>1 DEF IInv, PageTypes, Shows
<1>5. SpinnerHasALiveRun'
  <2> SUFFICES ASSUME step' = "running"
               PROVE  /\ controller \in Runs' \ aborted'
                      /\ calls'[controller].at # "ended"
    BY <1>2 DEF SpinnerHasALiveRun
  <2>1. step = "running" /\ Completed = {} /\ Troubled = {}
    BY <1>2
  <2>2. controller \in Runs \ aborted /\ calls[controller].at # "ended"
    BY <2>1 DEF IInv, SpinnerHasALiveRun
  <2>3. controller \in DOMAIN calls /\ calls[controller].kind = "run"
        /\ calls[controller].ctl = controller /\ controller \notin aborted'
    BY <2>2 DEF Runs, IInv, ClientInv, OwnController
  <2>4. Changes(calls[controller], calls'[controller])
    BY <2>3 DEF ClientStep
  <2>5. calls'[controller].at # "ended"
    <3> SUFFICES ASSUME calls'[controller].at = "ended" PROVE FALSE
      OBVIOUS
    <3>1. calls'[controller].outcome \in Answers
      BY <2>2, <2>3, <2>4 DEF Changes
    <3>2. controller \in Completed \/ controller \in Troubled
      BY <2>2, <3>1 DEF Completed, Troubled, EndsAs, Answers
    <3> QED
      BY <2>1, <3>2
  <2> QED
    BY <2>2, <2>3, <2>5, Remembered
<1> QED
  BY <1>2, <1>4, <1>5, PageKeeps, Remembered DEF IInv, PageTypes, PageSteps

LEMMA Iterations ==
  ASSUME IInv, NEW c \in DOMAIN calls, Iteration(c)
  PROVE  IInv'
<1>1. ClientStep
  BY Idles DEF IInv, Iteration
<1>2. c \in Runs /\ shown' = [shown EXCEPT !.iterations = @ \union {c}]
      /\ UNCHANGED <<calls, aborted, step, controller, fixing, fixes, applying, silenced>>
  BY DEF Iteration, Runs, clientVars
<1>3. Runs \subseteq Nat /\ shown \in Shows
  BY SeqFacts DEF IInv, PageTypes, ClientInv, Runs
<1>4. shown' \in Shows /\ shown'.result = shown.result
      /\ shown'.iterations = shown.iterations \union {c}
  BY <1>2, <1>3 DEF Shows
<1>5. SpinnerHasALiveRun'
  BY <1>2 DEF IInv, SpinnerHasALiveRun, Runs
<1> QED
  BY <1>1, <1>2, <1>4, <1>5, PageKeeps, Remembered DEF IInv, PageTypes

-----------------------------------------------------------------------------
(* Starting and cancelling.                                                *)

LEMMA StartsRun ==
  ASSUME IInv, StartOptimization, fixing' \in BOOLEAN, applying' \in BOOLEAN,
         fixes' \subseteq fixes, silenced' = silenced
  PROVE  IInv'
<1> DEFINE c == Len(calls) + 1
<1>1. Request("run", c) /\ UNCHANGED aborted /\ controller' = c
      /\ step' = "running" /\ shown' = Blank
  BY DEF StartOptimization
<1>2. c \in 0..MaxCalls /\ ClientInv
  BY <1>1, Facts, StreamClientAssumption DEF Request, IInv
<1>3. /\ ClientStep /\ DOMAIN calls' = 1..c
      /\ calls'[c].kind = "run" /\ calls'[c].at # "ended"
  BY <1>1, <1>2, Requests
<1>4. c \in Runs' /\ c \notin aborted'
  BY <1>1, <1>2, <1>3, Facts DEF Runs, ClientInv
<1>5. SpinnerHasALiveRun'
  BY <1>1, <1>3, <1>4 DEF SpinnerHasALiveRun
<1>6. Blank \in Shows /\ Blank.result = 0 /\ Blank.iterations = {}
  BY DEF Blank, Shows
<1> QED
  BY <1>1, <1>3, <1>4, <1>5, <1>6, PageKeeps DEF IInv, PageTypes, PageSteps

\* abortRef.current?.abort(), in a step after which no run is shown in
\* progress.
LEMMA AbortsCurrent ==
  ASSUME IInv, AbortCurrent
  PROVE  /\ ClientStep
         /\ \A c \in silenced' :
              c \in silenced \/ (c \in Runs /\ calls'[c].at = "ended")
<1>1. CASE controller = 0
  BY <1>1, Idles DEF AbortCurrent, IInv
<1>2. CASE controller # 0
  <2>1. Abort(controller) /\ UNCHANGED net
        /\ silenced' = IF Listening(controller) THEN silenced \union {controller}
                       ELSE silenced
    BY <1>2 DEF AbortCurrent
  <2>2. controller \in Runs /\ controller \in DOMAIN calls
        /\ calls[controller].ctl = controller
    BY <1>2 DEF IInv, PageTypes, ClientInv, OwnController, Runs
  <2>3. ClientStep /\ (Listening(controller) => calls'[controller].at = "ended")
    BY <2>1, <2>2, Aborts DEF IInv
  <2> QED
    BY <2>1, <2>2, <2>3
<1> QED
  BY <1>1, <1>2

LEMMA Cancelled ==
  ASSUME IInv, AbortCurrent, step' \in PageSteps \ {"running"},
         controller' \in {controller, 0}, shown' \in {shown, Blank},
         fixing' \in BOOLEAN, UNCHANGED <<fixes, applying>>
  PROVE  IInv'
<1>1. Blank \in Shows /\ Blank.result = 0 /\ Blank.iterations = {}
  BY DEF Blank, Shows
<1>2. SpinnerHasALiveRun'
  BY DEF SpinnerHasALiveRun
<1>3. /\ ClientStep
      /\ \A c \in silenced' :
           c \in silenced \/ (c \in Runs /\ calls'[c].at = "ended")
  BY AbortsCurrent
<1> QED
  BY <1>1, <1>2, <1>3, PageKeeps, Remembered DEF IInv, PageTypes

-----------------------------------------------------------------------------
(* Fixing coverage gaps.                                                   *)

LEMMA Generates ==
  ASSUME IInv, NEW signal \in 0..MaxCalls, Generate(signal),
         step' = step, UNCHANGED <<controller, shown, silenced>>,
         fixing' \in BOOLEAN, applying' \in BOOLEAN,
         \A f \in fixes' :
           f \in fixes \/ (f \in Fixes /\ f.signal = signal /\ f.call = Len(calls) + 1)
  PROVE  IInv'
<1>1. Request("emit", signal) /\ UNCHANGED aborted /\ ClientInv
  BY DEF Generate, IInv
<1>2. /\ ClientStep /\ DOMAIN calls' = 1..(Len(calls) + 1)
      /\ \A c \in DOMAIN calls : calls'[c] = calls[c]
      /\ calls'[Len(calls) + 1].kind = "emit"
      /\ calls'[Len(calls) + 1].ctl = signal
  BY <1>1, Requests
<1>3. \A f \in fixes' : f \in fixes \/ FixOK(f)'
  BY <1>1, <1>2, Facts DEF FixOK
<1>4. SpinnerHasALiveRun'
  BY <1>1, <1>2, Remembered DEF IInv, SpinnerHasALiveRun, Runs
<1> QED
  BY <1>2, <1>3, <1>4, PageIdles DEF IInv, PageTypes

LEMMA GapFixes ==
  ASSUME IInv, GapFix
  PROVE  IInv'
<1>0. ClientInv /\ MaxCalls \in Nat
  BY StreamClientAssumption DEF IInv
<1>1. CASE ExecuteGapFix
  <2>1. controller \in 0..MaxCalls
    BY <1>0, Facts DEF IInv, PageTypes, Runs
  <2>2. /\ Generate(controller) /\ fixing' = TRUE
        /\ UNCHANGED <<step, controller, shown, applying, silenced>>
        /\ \E gaps \in Gaps \ {0} :
             fixes' = fixes \union
               {[at |-> "generating", signal |-> controller,
                 call |-> Len(calls) + 1, left |-> gaps]}
    BY <1>1 DEF ExecuteGapFix
  <2>3. \A f \in fixes' : f \in fixes \/
          (f \in Fixes /\ f.signal = controller /\ f.call = Len(calls) + 1)
    BY <1>0, <2>1, <2>2, Facts, PageAssumption DEF Fixes
  <2> QED
    BY <2>1, <2>2, <2>3, Generates DEF IInv, PageTypes
<1>2. CASE CancelGapFix
  BY <1>2, Cancelled DEF CancelGapFix, PageSteps
<1>3. ASSUME NEW f \in fixes, Generated(f) \/ GapFixFails(f)
      PROVE  IInv'
  <2>1. FixOK(f)
    BY DEF IInv, PageTypes
  <2>2. ClientStep /\ UNCHANGED <<calls, aborted, step, controller, shown, silenced>>
        /\ fixing' \in BOOLEAN /\ applying' \in BOOLEAN
    BY <1>0, <1>3, Idles
       DEF Generated, GapFixFails, GapFixOver, clientVars, IInv, PageTypes
  <2>3. [f EXCEPT !.at = "creating"] \in Fixes
        /\ [f EXCEPT !.at = "creating"].call = f.call
        /\ [f EXCEPT !.at = "creating"].signal = f.signal
    BY <2>1 DEF FixOK, Fixes
  <2>4. FixOK([f EXCEPT !.at = "creating"])'
    BY <2>1, <2>2, <2>3 DEF FixOK
  <2>5. \A g \in fixes' : g \in fixes \/ g = [f EXCEPT !.at = "creating"]
    BY <1>3 DEF Generated, GapFixFails, GapFixOver, Becomes
  <2>6. SpinnerHasALiveRun'
    BY <2>2 DEF IInv, SpinnerHasALiveRun, Runs
  <2>7. \A g \in fixes' : g \in fixes \/ FixOK(g)'
    BY <2>4, <2>5
  <2> QED
    BY <2>2, <2>6, <2>7, PageIdles DEF IInv, PageTypes
<1>4. ASSUME NEW f \in fixes, NextGap(f)
      PROVE  IInv'
  <2> DEFINE g == [f EXCEPT !.at = "generating", !.call = Len(calls) + 1,
                            !.left = @ - 1]
  <2>1. FixOK(f) /\ f.signal \in 0..MaxCalls
    BY <1>0, Facts DEF IInv, PageTypes, FixOK, Call
  <2>2. Generate(f.signal) /\ fixes' = Becomes(f, g) /\ f.left > 1
        /\ UNCHANGED <<step, controller, shown, fixing, applying, silenced>>
    BY <1>4 DEF NextGap
  <2>3. g \in Fixes /\ g.signal = f.signal /\ g.call = Len(calls) + 1
    <3>1. Len(calls) + 1 \in Nat /\ f.left - 1 \in Nat \ {0} /\ f \in Fixes
      BY <1>0, <2>1, <2>2, Facts DEF FixOK, Fixes
    <3> QED
      BY <3>1 DEF Fixes
  <2> HIDE DEF g
  <2>4. \A h \in fixes' : h \in fixes \/
          (h \in Fixes /\ h.signal = f.signal /\ h.call = Len(calls) + 1)
    BY <2>2, <2>3 DEF Becomes
  <2> QED
    BY <2>1, <2>2, <2>4, Generates DEF IInv, PageTypes
<1>5. ASSUME NEW f \in fixes, RunAgain(f)
      PROVE  IInv'
  BY <1>5, StartsRun DEF RunAgain, GapFixOver, IInv, PageTypes
<1> QED
  BY <1>1, <1>2, <1>3, <1>4, <1>5 DEF GapFix

-----------------------------------------------------------------------------
(* The steps together.                                                     *)

LEMMA PageStep ==
  ASSUME IInv, [Next]_vars
  PROVE  IInv'
<1>1. CASE Hear \/ Others
  BY <1>1, ClientSteps, Follows DEF Hear, Others
<1>2. CASE \E c \in DOMAIN calls : Iteration(c)
  BY <1>2, Iterations
<1>3. CASE Start
  BY <1>3, StartsRun DEF Start, IInv, PageTypes
<1>4. CASE CancelRun \/ Reset
  BY <1>4, Cancelled DEF CancelRun, Reset, IInv, PageTypes, PageSteps
<1>5. CASE Apply \/ Applied
  <2>1. ClientStep /\ UNCHANGED <<calls, aborted, controller, shown, fixing, fixes, silenced>>
        /\ step' \in {"applied", step} /\ applying' \in BOOLEAN
    BY <1>5, Idles DEF Apply, Applied, clientVars, IInv
  <2>2. SpinnerHasALiveRun'
    BY <2>1 DEF IInv, SpinnerHasALiveRun, Runs
  <2> QED
    BY <2>1, <2>2, PageIdles DEF IInv, PageTypes, PageSteps
<1>6. CASE GapFix
  BY <1>6, GapFixes
<1>7. CASE UNCHANGED vars
  <2>1. ClientStep
    BY <1>7, Idles DEF vars, IInv
  <2>2. UNCHANGED <<net, calls, aborted, step, controller, shown, fixing, fixes,
                    applying, silenced>>
    BY <1>7 DEF vars, clientVars, pageVars
  <2>3. SpinnerHasALiveRun'
    BY <2>2 DEF IInv, SpinnerHasALiveRun, Runs
  <2> QED
    BY <2>1, <2>2, <2>3, PageIdles DEF IInv, PageTypes
<1> QED
  BY <1>1, <1>2, <1>3, <1>4, <1>5, <1>6, <1>7 DEF Next

\* The inductive invariant of the page over its connection.
THEOREM Invariant == Spec => []IInv
<1>1. Init => IInv
  BY PageStarts
<1>2. IInv /\ [Next]_vars => IInv'
  BY PageStep
<1> QED
  BY <1>1, <1>2, PTL DEF Spec

-----------------------------------------------------------------------------
(* The properties.                                                         *)

\* Type correctness of the page and the connection under it.
THEOREM PageTypeCorrect == Spec => []PageTypeOK
<1>1. IInv => PageTypeOK
  BY ClientMeans
     DEF IInv, PageTypes, PageTypeOK, PageSteps, Shows, FixOK, Fixes
<1> QED
  BY <1>1, Invariant, PTL

\* One socket is open or being opened, the module knows it, and a promise that
\* callers share can settle.
THEOREM OneConnectionHolds == Spec => []OneConnection
<1>1. IInv => OneConnection
  BY ClientMeans DEF IInv
<1> QED
  BY <1>1, Invariant, PTL

\* A caller of emitStream that listens has an open connection, in the room once
\* its work runs, and work that is not over; a caller that waits for a
\* connection waits for the one being opened.
THEOREM EmitsAreToldHolds == Spec => []EmitsAreTold
<1>1. IInv => EmitsAreTold
  BY ClientMeans DEF IInv
<1> QED
  BY <1>1, Invariant, PTL

\* The run that the page shows in progress is the one Cancel aborts, and it has
\* neither ended nor been aborted.
THEOREM SpinnerHasALiveRunHolds == Spec => []SpinnerHasALiveRun
<1>1. IInv => SpinnerHasALiveRun
  BY DEF IInv
<1> QED
  BY <1>1, Invariant, PTL

\* A run that was cancelled once its request was sent never puts a result or an
\* iteration on the page again.
THEOREM CancelledStaysSilentHolds == Spec => CancelledStaysSilent
<1> DEFINE Quiet(c) == /\ shown'.result = c => shown.result = c
                       /\ c \in shown'.iterations => c \in shown.iterations
<1>1. IInv /\ [Next]_vars => \A c \in silenced : Quiet(c)
  <2> SUFFICES ASSUME IInv, [Next]_vars, NEW c \in silenced PROVE Quiet(c)
    OBVIOUS
  <2>1. calls[c].at = "ended" /\ c # 0 /\ shown \in Shows
    BY SeqFacts DEF IInv, PageTypes, Silent, Runs, ClientInv
  <2>2. CASE Hear \/ Others
    <3>1. c \notin Completed
      BY <2>1 DEF Completed, EndsAs
    <3>2. shown' = shown \/ \E d \in Completed : shown' = [shown EXCEPT !.result = d]
      BY <2>2 DEF Hear, Others, PageFollows
    <3> QED
      BY <2>1, <3>1, <3>2 DEF Shows
  <2>3. ASSUME NEW d \in DOMAIN calls, Iteration(d) PROVE Quiet(c)
    <3>1. c # d
      BY <2>1, <2>3 DEF Iteration, Hears, Listening
    <3> QED
      BY <2>1, <2>3, <3>1 DEF Iteration, Shows
  <2>4. CASE shown' = shown \/ shown' = Blank
    BY <2>1, <2>4 DEF Blank
  <2>5. CASE Start \/ CancelRun \/ Reset \/ Apply \/ Applied \/ GapFix
    BY <2>4, <2>5
       DEF Start, StartOptimization, CancelRun, Reset, Apply, Applied, GapFix,
           ExecuteGapFix, CancelGapFix, Generated, GapFixFails, NextGap, RunAgain
  <2>6. CASE UNCHANGED vars
    BY <2>4, <2>6 DEF vars, pageVars
  <2> QED
    BY <2>2, <2>3, <2>5, <2>6 DEF Next
<1>2. IInv /\ [Next]_vars => [\A c \in silenced : Quiet(c)]_vars
  BY <1>1
<1> QED
  BY <1>2, Invariant, PTL DEF Spec, CancelledStaysSilent
=============================================================================
