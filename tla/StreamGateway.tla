--------------------------- MODULE StreamGateway ---------------------------
(***************************************************************************)
(* The WebSocket gateway of the backend (streaming.gateway.ts): sockets    *)
(* that open, drop and reconnect to another pod, the long model operations *)
(* they start, and the four ways one is aborted - the user's cancel, the   *)
(* grace period after a disconnect, the drain of a pod on SIGTERM and the  *)
(* optimizer's own shutdown hook.                                          *)
(*                                                                         *)
(* One user: rooms, presence and controllers are per user and users do not *)
(* meet.  A socket id and a request id are used once (socket.io ids and    *)
(* crypto.randomUUID() of the client).  An action is the code from one     *)
(* await to the next.  Terminal events are recorded when they are emitted  *)
(* to the user's room; started and progress events are left out.           *)
(***************************************************************************)
EXTENDS FiniteSets

CONSTANTS Pods,      \* backend processes
          Sockets,   \* socket ids of the user
          Requests,  \* request ids of the user
          Loops,     \* the requests that are optimize-skill
          Stoppable, \* bound: the pods that may stop or crash
          None       \* no pod, no socket

ASSUME GatewayAssumption == /\ Loops \subseteq Requests
                            /\ Stoppable \subseteq Pods
                            /\ None \notin Pods \cup Sockets

VARIABLES
  conn,      \* [Sockets -> ...] the connection; "open" = authenticated, in the room
  pod,       \* [Sockets -> Pods] the process that holds the socket
  active,    \* [Sockets -> SUBSET Requests] client.data.activeRequests
  grace,     \* [Sockets -> ...] the disconnect timer and its presence check
  op,        \* [Requests -> ...] where the handler is
  owner,     \* [Requests -> Sockets] the socket whose handler it is
  aborted,   \* requests whose AbortController has been aborted
  told,      \* [Requests -> SUBSET Events] terminal events emitted
  asked,     \* requests the user cancelled (history)
  stopping,  \* pods on which the destroy hooks have run
  draining,  \* pods with shuttingDown = true
  down       \* pods that no longer run

sockVars == <<conn, pod, grace>>
opVars   == <<op, owner, active>>
podVars  == <<stopping, draining, down>>
vars     == <<conn, pod, active, grace, op, owner, aborted, told, asked,
              stopping, draining, down>>

ConnStates  == {"new", "connecting", "open", "closed"}
GraceStates == {"none", "timer", "absent"}
OpStates    == {"idle", "dropped", "rejected", "running", "looping", "cleanup",
                "ended", "lost"}
\* The terminal events a client's listener knows.
Events      == {"complete", "error", "interrupted"}

\* The handler has not returned yet.
Live(r)   == op[r] \in {"running", "looping", "cleanup"}
\* The pod whose memory holds r's work.
PodOf(r)  == pod[owner[r]]
\* fetchSockets() of the user's room, which spans all pods.
Online    == \E s \in Sockets : conn[s] = "open"
Tell(R, e) == told' = [r \in Requests |-> IF r \in R THEN told[r] \cup {e} ELSE told[r]]

Init ==
  /\ conn = [s \in Sockets |-> "new"]
  /\ pod = [s \in Sockets |-> None]
  /\ active = [s \in Sockets |-> {}]
  /\ grace = [s \in Sockets |-> "none"]
  /\ op = [r \in Requests |-> "idle"]
  /\ owner = [r \in Requests |-> None]
  /\ told = [r \in Requests |-> {}]
  /\ aborted = {} /\ asked = {}
  /\ stopping = {} /\ draining = {} /\ down = {}

-----------------------------------------------------------------------------
(* Sockets.                                                                *)

\* A transport is accepted by some pod; handleConnection starts and awaits
\* authenticate.
Connect(s, p) ==
  /\ conn[s] = "new" /\ p \notin down
  /\ conn' = [conn EXCEPT ![s] = "connecting"]
  /\ pod' = [pod EXCEPT ![s] = p]
  /\ UNCHANGED <<grace, opVars, aborted, told, asked, podVars>>

\* authenticate answered: the map is created and the socket joins the room.
Authenticated(s) ==
  /\ conn[s] = "connecting"
  /\ conn' = [conn EXCEPT ![s] = "open"]
  /\ UNCHANGED <<pod, grace, opVars, aborted, told, asked, podVars>>

\* handleDisconnect: a socket with pending requests gets a grace timer.  The
\* connection may drop at any time: network, tab, or the framework closing the
\* socket server of a stopping pod.  A socket that authenticate refuses ends
\* here too, before it had a map.
Disconnect(s) ==
  /\ conn[s] \in {"connecting", "open"}
  /\ conn' = [conn EXCEPT ![s] = "closed"]
  /\ grace' = [grace EXCEPT ![s] = IF active[s] = {} THEN "none" ELSE "timer"]
  /\ UNCHANGED <<pod, opVars, aborted, told, asked, podVars>>

\* (mutant) A presence check that fails keeps the work running.
PresenceFailedKeeps == "none"
\* A presence check that fails counts as nobody there.
PresenceFailed == "absent"

\* The grace timer fires: nothing to do when the map is empty; otherwise the
\* cluster is asked who is there.  The answer is used after the await.
CheckPresence(s) ==
  /\ grace[s] = "timer"
  /\ \/ /\ active[s] = {} \/ Online
        /\ grace' = [grace EXCEPT ![s] = "none"]
     \/ /\ active[s] # {} /\ ~Online
        /\ grace' = [grace EXCEPT ![s] = "absent"]
     \/ /\ active[s] # {}
        /\ grace' = [grace EXCEPT ![s] = PresenceFailed]
  /\ UNCHANGED <<conn, pod, opVars, aborted, told, asked, podVars>>

\* (mutant) One map for all the sockets of the user.
GraceTargetsUser(s) == UNION {active[t] : t \in Sockets}
\* The controllers the timer captured: those of its own socket.
GraceTargets(s) == active[s]

\* The answer was "nobody": abort what is still in the map.
AbortGone(s) ==
  /\ grace[s] = "absent"
  /\ grace' = [grace EXCEPT ![s] = "none"]
  /\ aborted' = aborted \cup GraceTargets(s)
  /\ UNCHANGED <<conn, pod, opVars, told, asked, podVars>>

-----------------------------------------------------------------------------
(* Requests: handleGenerate, handleRefine, handleOptimizeDraft,            *)
(* handleRunEvals, handleGenerateEvals and handleOptimizeSkill.            *)

\* A message before the map exists is ignored: no work, no event.
Drop(r, s) ==
  /\ op[r] = "idle" /\ conn[s] = "connecting"
  /\ op' = [op EXCEPT ![r] = "dropped"]
  /\ owner' = [owner EXCEPT ![r] = s]
  /\ UNCHANGED <<sockVars, active, aborted, told, asked, podVars>>

\* (mutant) rejectIfDraining is not called.
NeverDraining(s) == FALSE
\* rejectIfDraining
Draining(s) == pod[s] \in draining

\* (mutant) The reason is sent as the type.
InterruptedAsReason == "server-restart"
\* The type of the retryable terminal event.
Interrupted == "interrupted"

\* A draining pod answers interrupted and starts nothing.
Reject(r, s) ==
  /\ op[r] = "idle" /\ conn[s] = "open" /\ Draining(s)
  /\ op' = [op EXCEPT ![r] = "rejected"]
  /\ owner' = [owner EXCEPT ![r] = s]
  /\ Tell({r}, Interrupted)
  /\ UNCHANGED <<sockVars, active, aborted, asked, podVars>>

\* The controller is registered and the work begins.
Start(r, s) ==
  /\ op[r] = "idle" /\ conn[s] = "open" /\ ~Draining(s)
  /\ op' = [op EXCEPT ![r] = "running"]
  /\ owner' = [owner EXCEPT ![r] = s]
  /\ active' = [active EXCEPT ![s] = @ \cup {r}]
  /\ UNCHANGED <<sockVars, aborted, told, asked, podVars>>

\* optimize-skill, ownership checked: runLoop adds the controller to its own
\* activeSignals.
EnterLoop(r) ==
  /\ r \in Loops /\ op[r] = "running"
  /\ op' = [op EXCEPT ![r] = "looping"]
  /\ UNCHANGED <<sockVars, owner, active, aborted, told, asked, podVars>>

\* The handler's finally: the controller leaves the map.
Finally(r) ==
  /\ op' = [op EXCEPT ![r] = "ended"]
  /\ active' = [active EXCEPT ![owner[r]] = @ \ {r}]

\* The work is done and says so, even if it was aborted too late to matter.
\* The optimizer still has to clean its drafts up (an await) before finally.
Complete(r) ==
  /\ \/ r \notin Loops /\ op[r] = "running" /\ Finally(r)
     \/ op[r] = "looping" /\ op' = [op EXCEPT ![r] = "cleanup"] /\ UNCHANGED active
  /\ Tell({r}, "complete")
  /\ UNCHANGED <<sockVars, owner, aborted, asked, podVars>>

\* (mutant) The catch block reports every error.
ReportsAlways(r) == TRUE
\* An error of aborted work is swallowed.
Reports(r) == r \notin aborted

\* The work throws, because it failed or because its signal was aborted; in
\* runLoop also when the cleanup of the drafts fails.
Fail(r) ==
  /\ \/ op[r] \in {"running", "cleanup"} /\ Finally(r)
     \/ op[r] = "looping" /\ op' = [op EXCEPT ![r] = "cleanup"] /\ UNCHANGED active
  /\ Tell(IF Reports(r) THEN {r} ELSE {}, "error")
  /\ UNCHANGED <<sockVars, owner, aborted, asked, podVars>>

\* draftStore.cleanup answered: runLoop returns.
CleanedUp(r) ==
  /\ op[r] = "cleanup" /\ Finally(r)
  /\ UNCHANGED <<sockVars, owner, aborted, told, asked, podVars>>

\* (mutant) handleCancel removes the controller without aborting it.
CancelForgets(r, s) == {}
\* The controller handleCancel finds in the map of the socket it came on.
CancelTargets(r, s) == active[s] \cap {r}

\* handleCancel: on any open socket; elsewhere than on the owner it finds nothing.
Cancel(r, s) ==
  /\ conn[s] = "open" /\ Live(r)
  /\ asked' = asked \cup {r}
  /\ aborted' = aborted \cup CancelTargets(r, s)
  /\ active' = [active EXCEPT ![s] = @ \ {r}]
  /\ UNCHANGED <<sockVars, op, owner, told, podVars>>

-----------------------------------------------------------------------------
(* Pods.                                                                   *)

\* SIGTERM: the destroy hooks run first; the optimizer aborts its loops.
ModuleDestroy(p) ==
  /\ p \notin stopping \cup down
  /\ stopping' = stopping \cup {p}
  /\ aborted' = aborted \cup {r \in Requests : op[r] = "looping" /\ PodOf(r) = p}
  /\ UNCHANGED <<sockVars, opVars, told, asked, draining, down>>

\* The requests in the maps of the pod's connected sockets.
Notified(p) == UNION {active[s] : s \in {t \in Sockets : conn[t] = "open" /\ pod[t] = p}}

\* onApplicationShutdown: refuse new work, notify and abort what is in flight.
Shutdown(p) ==
  /\ p \in stopping \ (draining \cup down)
  /\ draining' = draining \cup {p}
  /\ Tell(Notified(p), Interrupted)
  /\ aborted' = aborted \cup Notified(p)
  /\ UNCHANGED <<sockVars, opVars, asked, stopping, down>>

\* The process exits, after its shutdown or in a crash; what it ran is lost.
Kill(p) ==
  /\ p \notin down
  /\ down' = down \cup {p}
  /\ conn' = [s \in Sockets |-> IF pod[s] = p THEN "closed" ELSE conn[s]]
  /\ grace' = [s \in Sockets |-> IF pod[s] = p THEN "none" ELSE grace[s]]
  /\ active' = [s \in Sockets |-> IF pod[s] = p THEN {} ELSE active[s]]
  /\ op' = [r \in Requests |-> IF Live(r) /\ PodOf(r) = p THEN "lost" ELSE op[r]]
  /\ UNCHANGED <<pod, owner, aborted, told, asked, stopping, draining>>

-----------------------------------------------------------------------------
SocketStep(s) == \/ \E p \in Pods : Connect(s, p)
                 \/ Authenticated(s) \/ Disconnect(s)
                 \/ CheckPresence(s) \/ AbortGone(s)
Message(r, s) == Drop(r, s) \/ Reject(r, s) \/ Start(r, s) \/ Cancel(r, s)
Work(r)       == EnterLoop(r) \/ Complete(r) \/ Fail(r) \/ CleanedUp(r)
PodStep(p)    == ModuleDestroy(p) \/ Shutdown(p) \/ Kill(p)

Next == \/ \E s \in Sockets : SocketStep(s)
        \/ \E r \in Requests, s \in Sockets : Message(r, s)
        \/ \E r \in Requests : Work(r)
        \/ \E p \in Stoppable : PodStep(p)

\* A timer fires and its presence check answers or fails (the adapter gives up
\* after its own timeout).  Nothing else is promised: the model's answer, the
\* user and the cluster may take for ever.
Fairness == \A s \in Sockets : WF_vars(CheckPresence(s)) /\ WF_vars(AbortGone(s))

Spec == Init /\ [][Next]_vars /\ Fairness

-----------------------------------------------------------------------------
(* Properties.                                                             *)

\* Every variable has its type.
TypeOK ==
  /\ conn \in [Sockets -> ConnStates]
  /\ pod \in [Sockets -> Pods \cup {None}]
  /\ active \in [Sockets -> SUBSET Requests]
  /\ grace \in [Sockets -> GraceStates]
  /\ op \in [Requests -> OpStates]
  /\ owner \in [Requests -> Sockets \cup {None}]
  /\ told \in [Requests -> SUBSET Events]
  /\ aborted \subseteq Requests /\ asked \subseteq Requests
  /\ stopping \subseteq Pods /\ draining \subseteq Pods /\ down \subseteq Pods

\* Work that has not been aborted is always in the map of the socket it came
\* on, where the cancel, the grace timer and the drain look for it, and no map
\* keeps a controller whose handler is over.
ControllersTracked ==
  /\ \A r \in Requests : Live(r) /\ r \notin aborted => r \in active[owner[r]]
  /\ \A s \in Sockets : \A r \in active[s] : Live(r) /\ owner[r] = s

\* Work is only ever aborted because the user cancelled it, because its own
\* socket is gone, or because its pod is stopping: never because another
\* socket of the same user dropped.
AbortHasCause ==
  \A r \in aborted : \/ r \in asked
                     \/ conn[owner[r]] = "closed"
                     \/ PodOf(r) \in stopping

\* On a draining pod a connected client has nothing running that it was not
\* told to retry, not even when its authentication ended after the drain.
DrainedIsToldAndAborted ==
  \A s \in Sockets : conn[s] = "open" /\ pod[s] \in draining =>
     \A r \in active[s] : r \in aborted /\ "interrupted" \in told[r]

\* A request that was reported interrupted (retry it) is not reported as
\* failed afterwards by the work that the shutdown aborted.
NoErrorAfterInterrupt ==
  [][\A r \in Requests : "interrupted" \in told[r] /\ "error" \notin told[r]
        => "error" \notin told'[r]]_vars

\* Work held for the grace period does not run on for nobody: either the user
\* is back at some point, or all of it is aborted, lost or over, also when the
\* presence check fails.  (After a return that the timer saw, a second drop has
\* no timer of its own: the map belongs to the first socket.)
AbandonedStops ==
  \A s \in Sockets : (grace[s] = "timer" /\ active[s] # {})
                       ~> (Online \/ active[s] \subseteq aborted)
=============================================================================
