------------------------ MODULE StreamGatewayProofs ------------------------
(* What TLAPS proves of StreamGateway, for any number of pods, sockets and *)
(* requests.  The types first; then one inductive invariant, Tracking, that *)
(* adds to the safety invariants what a socket, a timer and a request of   *)
(* each state have gone through.                                           *)
EXTENDS StreamGateway, TLAPS

USE GatewayAssumption

-----------------------------------------------------------------------------
(* Types.                                                                  *)

LEMMA TypeInit == Init => TypeOK
  BY DEF Init, TypeOK, ConnStates, GraceStates, OpStates, Events

LEMMA TypeSocketStep ==
  ASSUME TypeOK, NEW s \in Sockets, SocketStep(s)
  PROVE  TypeOK'
  <1> USE DEF TypeOK, opVars, podVars
  <1>1. CASE \E p \in Pods : Connect(s, p)
    BY <1>1 DEF Connect, ConnStates
  <1>2. CASE Authenticated(s)
    BY <1>2 DEF Authenticated, ConnStates
  <1>3. CASE Disconnect(s)
    BY <1>3 DEF Disconnect, ConnStates, GraceStates
  <1>4. CASE CheckPresence(s)
    BY <1>4 DEF CheckPresence, PresenceFailed, GraceStates
  <1>5. CASE AbortGone(s)
    BY <1>5 DEF AbortGone, GraceTargets, GraceStates
  <1> QED  BY <1>1, <1>2, <1>3, <1>4, <1>5 DEF SocketStep

LEMMA TypeMessage ==
  ASSUME TypeOK, NEW r \in Requests, NEW s \in Sockets, Message(r, s)
  PROVE  TypeOK'
  <1> USE DEF TypeOK, sockVars, podVars
  <1>1. CASE Drop(r, s)
    BY <1>1 DEF Drop, OpStates
  <1>2. CASE Reject(r, s)
    BY <1>2 DEF Reject, Interrupted, Tell, OpStates, Events
  <1>3. CASE Start(r, s)
    BY <1>3 DEF Start, OpStates
  <1>4. CASE Cancel(r, s)
    BY <1>4 DEF Cancel, CancelTargets
  <1> QED  BY <1>1, <1>2, <1>3, <1>4 DEF Message

LEMMA TypeFinally ==
  ASSUME TypeOK, NEW r \in Requests, Finally(r)
  PROVE  op' \in [Requests -> OpStates] /\ active' \in [Sockets -> SUBSET Requests]
  BY DEF TypeOK, Finally, OpStates

LEMMA TypeWork ==
  ASSUME TypeOK, NEW r \in Requests, Work(r)
  PROVE  TypeOK'
  <1> USE DEF TypeOK, sockVars, podVars
  <1>1. CASE EnterLoop(r)
    BY <1>1 DEF EnterLoop, OpStates
  <1>2. CASE Complete(r)
    BY <1>2, TypeFinally DEF Complete, Tell, OpStates, Events
  <1>3. CASE Fail(r)
    BY <1>3, TypeFinally DEF Fail, Tell, OpStates, Events
  <1>4. CASE CleanedUp(r)
    BY <1>4, TypeFinally DEF CleanedUp
  <1> QED  BY <1>1, <1>2, <1>3, <1>4 DEF Work

LEMMA TypePodStep ==
  ASSUME TypeOK, NEW p \in Pods, PodStep(p)
  PROVE  TypeOK'
  <1> USE DEF TypeOK, sockVars, opVars
  <1>1. CASE ModuleDestroy(p)
    BY <1>1 DEF ModuleDestroy
  <1>2. CASE Shutdown(p)
    <2>1. Notified(p) \subseteq Requests
      BY DEF Notified
    <2> QED  BY <1>2, <2>1 DEF Shutdown, Interrupted, Tell, Events
  <1>3. CASE Kill(p)
    BY <1>3 DEF Kill, ConnStates, GraceStates, OpStates
  <1> QED  BY <1>1, <1>2, <1>3 DEF PodStep

\* Every variable keeps its type.
THEOREM GatewayTypeCorrect == Spec => []TypeOK
  <1>1. TypeOK /\ [Next]_vars => TypeOK'
    <2> SUFFICES ASSUME TypeOK, [Next]_vars PROVE TypeOK'
      OBVIOUS
    <2>1. CASE UNCHANGED vars
      BY <2>1 DEF vars, TypeOK
    <2> QED
      BY <2>1, TypeSocketStep, TypeMessage, TypeWork, TypePodStep DEF Next
  <1> QED  BY <1>1, TypeInit, PTL DEF Spec

-----------------------------------------------------------------------------
(* The inductive invariant.                                                *)

\* A request that was ever sent has a socket, which was connected then; only
\* such a request can be aborted.
SentOnASocket ==
  \A r \in Requests :
    /\ op[r] # "idle" => owner[r] \in Sockets /\ conn[owner[r]] # "new"
    /\ r \in aborted => op[r] # "idle"

\* A timer belongs to a socket that is gone, a map to one that was authenticated.
TimerAfterClose ==
  \A s \in Sockets : /\ grace[s] # "none" => conn[s] = "closed"
                     /\ active[s] # {} => conn[s] \in {"open", "closed"}

\* Work that is told to be retried was aborted, or never started.
InterruptedIsOver ==
  \A r \in Requests : "interrupted" \in told[r] => r \in aborted \/ op[r] = "rejected"

Tracking == /\ TypeOK
            /\ SentOnASocket /\ TimerAfterClose /\ InterruptedIsOver
            /\ ControllersTracked /\ AbortHasCause /\ DrainedIsToldAndAborted

LEMMA TrackingInit == Init => Tracking
  BY TypeInit
  DEF Init, Tracking, SentOnASocket, TimerAfterClose, InterruptedIsOver,
      ControllersTracked, AbortHasCause, DrainedIsToldAndAborted, Live

USE DEF Tracking, TypeOK, SentOnASocket, TimerAfterClose, InterruptedIsOver,
        ControllersTracked, AbortHasCause, DrainedIsToldAndAborted, Live, PodOf

\* Sockets: a socket that authenticates has an empty map (TimerAfterClose), and
\* what a timer aborts belongs to a socket that is gone.
LEMMA TrackingSocketStep ==
  ASSUME Tracking, TypeOK', NEW s \in Sockets, SocketStep(s)
  PROVE  Tracking'
  <1> USE DEF opVars, podVars
  <1>1. CASE \E p \in Pods : Connect(s, p)
    BY <1>1 DEF Connect
  <1>2. CASE Authenticated(s)
    BY <1>2 DEF Authenticated
  <1>3. CASE Disconnect(s)
    BY <1>3 DEF Disconnect
  <1>4. CASE CheckPresence(s)
    BY <1>4 DEF CheckPresence, PresenceFailed
  <1>5. CASE AbortGone(s)
    BY <1>5 DEF AbortGone, GraceTargets
  <1> QED  BY <1>1, <1>2, <1>3, <1>4, <1>5 DEF SocketStep

\* Messages: a request that starts is in no map and not aborted (SentOnASocket);
\* one that is cancelled leaves the map only if it is its own socket's, and then
\* it is aborted.
LEMMA TrackingMessage ==
  ASSUME Tracking, TypeOK', NEW r \in Requests, NEW s \in Sockets, Message(r, s)
  PROVE  Tracking'
  <1> USE DEF sockVars, podVars
  <1>1. CASE Drop(r, s)
    BY <1>1 DEF Drop
  <1>2. CASE Reject(r, s)
    BY <1>2 DEF Reject, Interrupted, Tell
  <1>3. CASE Start(r, s)
    BY <1>3 DEF Start, Draining
  <1>4. CASE Cancel(r, s)
    BY <1>4 DEF Cancel, CancelTargets
  <1> QED  BY <1>1, <1>2, <1>3, <1>4 DEF Message

\* Work: a controller leaves its map exactly when its handler is over.
LEMMA TrackingWork ==
  ASSUME Tracking, TypeOK', NEW r \in Requests, Work(r)
  PROVE  Tracking'
  <1> USE DEF Finally, Tell, sockVars, podVars
  <1>1. CASE EnterLoop(r)
    BY <1>1 DEF EnterLoop
  <1>2. CASE Complete(r)
    BY <1>2 DEF Complete
  <1>3. CASE Fail(r)
    BY <1>3 DEF Fail
  <1>4. CASE CleanedUp(r)
    BY <1>4 DEF CleanedUp
  <1> QED  BY <1>1, <1>2, <1>3, <1>4 DEF Work

\* Pods: whatever a stopping pod aborts is its own.
LEMMA TrackingPodStep ==
  ASSUME Tracking, TypeOK', NEW p \in Pods, PodStep(p)
  PROVE  Tracking'
  <1> USE DEF sockVars, opVars
  <1>1. CASE ModuleDestroy(p)
    BY <1>1 DEF ModuleDestroy
  <1>2. CASE Shutdown(p)
    BY <1>2 DEF Shutdown, Notified, Interrupted, Tell
  <1>3. CASE Kill(p)
    BY <1>3 DEF Kill
  <1> QED  BY <1>1, <1>2, <1>3 DEF PodStep

LEMMA TrackingStutter == Tracking /\ UNCHANGED vars => Tracking'
  BY DEF vars

HIDE DEF Tracking, TypeOK, SentOnASocket, TimerAfterClose, InterruptedIsOver,
         ControllersTracked, AbortHasCause, DrainedIsToldAndAborted, Live, PodOf

LEMMA TrackingInvariant == Spec => []Tracking
  <1>1. Tracking /\ TypeOK' /\ [Next]_vars => Tracking'
    BY TrackingSocketStep, TrackingMessage, TrackingWork, TrackingPodStep,
       TrackingStutter DEF Next
  <1> QED  BY <1>1, TrackingInit, GatewayTypeCorrect, PTL DEF Spec

-----------------------------------------------------------------------------
(* The properties.                                                         *)

\* Unaborted work is always reachable through its socket's map, and the maps
\* hold nothing else.
THEOREM ControllersTrackedHolds == Spec => []ControllersTracked
  BY TrackingInvariant, PTL DEF Tracking

\* Work is only aborted for a reason of its own: a cancel, its own socket's end
\* or its pod's.
THEOREM AbortHasCauseHolds == Spec => []AbortHasCause
  BY TrackingInvariant, PTL DEF Tracking

\* On a draining pod, what a connected client still has running was aborted and
\* reported as interrupted.
THEOREM DrainedHolds == Spec => []DrainedIsToldAndAborted
  BY TrackingInvariant, PTL DEF Tracking

\* The error that follows from a shutdown's abort is never reported.
THEOREM NoErrorAfterInterruptHolds == Spec => NoErrorAfterInterrupt
  <1> DEFINE Quiet(r) == "interrupted" \in told[r] /\ "error" \notin told[r]
                           => "error" \notin told'[r]
  <1>1. Tracking /\ [Next]_vars => \A r \in Requests : Quiet(r)
    <2> SUFFICES ASSUME Tracking, [Next]_vars PROVE \A r \in Requests : Quiet(r)
      OBVIOUS
    <2>1. ASSUME NEW r \in Requests, Fail(r) PROVE \A q \in Requests : Quiet(q)
      \* Only r may get an error, and then it was not aborted: it was not told
      \* to retry either.
      BY <2>1 DEF Fail, Reports, Finally, Tell, Tracking, TypeOK, InterruptedIsOver
    <2>2. CASE UNCHANGED told
      BY <2>2
    <2>3. CASE \E R \in SUBSET Requests, e \in {"complete", "interrupted"} : Tell(R, e)
      BY <2>3 DEF Tell
    <2>4. ASSUME NEW p \in Pods, Shutdown(p) PROVE \A q \in Requests : Quiet(q)
      BY <2>4 DEF Shutdown, Interrupted, Tell
    <2>5. ASSUME NEW s \in Sockets, SocketStep(s) PROVE UNCHANGED told
      BY <2>5 DEF SocketStep, Connect, Authenticated, Disconnect, CheckPresence, AbortGone
    <2>6. ASSUME NEW r \in Requests, NEW s \in Sockets, Message(r, s)
          PROVE  UNCHANGED told \/ Tell({r}, "interrupted")
      BY <2>6 DEF Message, Drop, Reject, Interrupted, Start, Cancel
    <2>7. ASSUME NEW r \in Requests, Work(r)
          PROVE  UNCHANGED told \/ Tell({r}, "complete") \/ Fail(r)
      BY <2>7 DEF Work, EnterLoop, Complete, CleanedUp
    <2>8. ASSUME NEW p \in Pods, PodStep(p) PROVE UNCHANGED told \/ Shutdown(p)
      BY <2>8 DEF PodStep, ModuleDestroy, Kill
    <2>9. CASE UNCHANGED vars
      BY <2>9 DEF vars
    <2> QED  BY <2>1, <2>2, <2>3, <2>4, <2>5, <2>6, <2>7, <2>8, <2>9 DEF Next
  <1>2. Tracking /\ [Next]_vars => [\A r \in Requests : Quiet(r)]_vars
    BY <1>1
  <1> QED  BY <1>2, TrackingInvariant, PTL DEF Spec, NoErrorAfterInterrupt
=============================================================================
