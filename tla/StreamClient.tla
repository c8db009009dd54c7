----------------------------- MODULE StreamClient -----------------------------
(***************************************************************************)
(* The browser's end of the streaming connection: connectStreamingSocket,  *)
(* closeStreamingSocket and emitStream of streamingSocket.ts, in one tab,  *)
(* with the server reduced to what the tab can tell of it: a request is    *)
(* taken up or dropped, runs, and ends with an event to the sockets the    *)
(* user has in the room.  Callers are of two kinds: emitStream rejects     *)
(* when its socket disconnects; the hooks that run evaluations and the     *)
(* optimizer listen on the socket and have no such handler.                *)
(*                                                                         *)
(* JavaScript runs to completion: what a callback does up to its next      *)
(* await of the network is one step.                                       *)
(***************************************************************************)
EXTENDS Naturals, Sequences, FiniteSets

CONSTANTS
  MaxSockets,  \* bound: sockets opened
  MaxCalls,    \* bound: requests made
  MaxDialogs,  \* bound: those of them that dialogs make
  Happenings   \* what may happen besides requests and their answers

ASSUME StreamClientAssumption ==
  /\ MaxSockets \in Nat \ {0}
  /\ MaxCalls \in Nat /\ MaxDialogs \in Nat
  /\ Happenings \subseteq
       {"refresh", "logout", "drop", "fail", "late", "restart", "silent"}

VARIABLES
  net,     \* the module's sockets and what the server knows of them
  calls,   \* the requests, in the order they were made
  aborted  \* the calls whose AbortController was aborted

clientVars == <<net, calls, aborted>>

SocketStates == {"connecting", "open", "reconnecting", "closed"}
Outcomes     == {"none", "complete", "error", "interrupted", "disconnected",
                 "aborted", "failed"}
WorkStates   == {"none", "sent", "running", "over", "dropped"}

Happens(h) == h \in Happenings

-----------------------------------------------------------------------------
(* connectStreamingSocket and closeStreamingSocket.  net.socket and        *)
(* net.connecting are the module's variables socket and connectingPromise  *)
(* (the socket it waits for), 0 for null; net.room are the connections the *)
(* server has authenticated.                                               *)

IsOpen(n, s) == s # 0 /\ n.sockets[s] = "open"

Closed(n, s) == IF s = 0 THEN n.sockets ELSE [n.sockets EXCEPT ![s] = "closed"]

Opened(n, before) ==
  [sockets    |-> Append(before, "connecting"),
   room       |-> n.room \ {n.socket},
   socket     |-> Len(before) + 1,
   connecting |-> Len(before) + 1]

KeepTheOld(n) ==  \* mutant: the old socket is left to reconnect
  IF IsOpen(n, n.socket) \/ n.connecting # 0 THEN n ELSE Opened(n, n.sockets)

\* A caller that finds neither an open socket nor a promise to share
\* disconnects the old socket and opens another.
ConnectStreamingSocket(n) ==
  IF IsOpen(n, n.socket) \/ n.connecting # 0 THEN n
  ELSE Opened(n, Closed(n, n.socket))

CloseStreamingSocket(n) ==
  [n EXCEPT !.sockets = Closed(n, n.socket), !.room = @ \ {n.socket},
            !.socket = 0, !.connecting = 0]

-----------------------------------------------------------------------------
(* Requests.                                                               *)

Waiting(c)   == calls[c].at = "waiting"
Listening(c) == calls[c].at = "listening"
Running      == {c \in DOMAIN calls : calls[c].work = "running"}

\* The promise has settled, the listeners are off the socket.
Ended(call, outcome) ==
  [call EXCEPT !.at = "ended", !.outcome = outcome, !.sock = 0]

\* The awaited promise settled: getStreamingSocket, the listeners, sock.emit.
Send(call) ==
  [call EXCEPT !.at = "listening", !.work = "sent", !.attached = TRUE]

NobodyIsTold(call) == [call EXCEPT !.attached = FALSE]  \* mutant: no handler
\* 'disconnect': emitStream rejects.  At the server the request's entry is
\* lost with the connection it came over.
CutOff(call) ==
  IF call.at = "listening" /\ call.kind = "emit"
  THEN [Ended(call, "disconnected") EXCEPT !.attached = FALSE]
  ELSE [call EXCEPT !.attached = FALSE]

\* The socket was disconnected before it had connected: its promise never
\* settles, and neither does what awaits it.
Stranded(call) == [call EXCEPT !.at = "stuck"]

\* The calls once the sockets are those of n.
After(n) ==
  [c \in DOMAIN calls |->
     IF IsOpen(net, calls[c].sock) /\ ~IsOpen(n, calls[c].sock)
     THEN CutOff(calls[c])
     ELSE IF Waiting(c) /\ n.sockets[calls[c].sock] = "closed"
     THEN Stranded(calls[c]) ELSE calls[c]]

\* A caller awaits connectStreamingSocket; on an open socket it goes on at
\* once.  ctl is the call whose AbortController it was given, 0 for none.
NewCall(kind, n, ctl) ==
  LET call == [kind |-> kind, at |-> "waiting", ctl |-> ctl, outcome |-> "none",
               sock |-> n.socket, work |-> "none", attached |-> FALSE]
  IN  IF IsOpen(n, n.socket) THEN Send(call) ELSE call

Request(kind, ctl) ==
  LET n == ConnectStreamingSocket(net)
  IN  /\ Len(calls) < MaxCalls
      /\ Len(n.sockets) <= MaxSockets
      /\ net' = n
      /\ calls' = Append(calls, NewCall(kind, n, ctl))

\* abort(): every caller that is listening with this controller's signal
\* sends 'cancel', which finds the request only in the connection it came
\* over, and stops listening.  A caller that still waits does not notice.
AbortUnheard(ctl) ==  \* mutant: the listener is left in place
  /\ calls' = [c \in DOMAIN calls |->
                 IF calls[c].ctl = ctl /\ Listening(c) /\ calls[c].attached
                 THEN [calls[c] EXCEPT !.attached = FALSE] ELSE calls[c]]
  /\ aborted' = aborted \union {ctl}
Abort(ctl) ==
  /\ calls' = [c \in DOMAIN calls |->
                 IF calls[c].ctl = ctl /\ Listening(c)
                 THEN [Ended(calls[c], "aborted") EXCEPT !.attached = FALSE,
                         !.work = IF calls[c].attached THEN "over" ELSE @]
                 ELSE calls[c]]
  /\ aborted' = aborted \union {ctl}

-----------------------------------------------------------------------------
(* The connection.                                                         *)

\* 'connect': the promise resolves and everyone who awaits it sends.  The
\* server may still be authenticating the connection (handleConnection).
Connect(s) ==
  /\ net.sockets[s] \in {"connecting", "reconnecting"}
  /\ \E late \in BOOLEAN :
       /\ late => Happens("late")
       /\ net' = [net EXCEPT !.sockets[s] = "open",
                             !.room = IF late THEN @ ELSE @ \union {s},
                             !.connecting = IF @ = s THEN 0 ELSE @]
  /\ calls' = [c \in DOMAIN calls |->
                 IF Waiting(c) /\ calls[c].sock = s THEN Send(calls[c])
                 ELSE calls[c]]
  /\ UNCHANGED aborted

Authenticating(s) == net.sockets[s] = "open" /\ s \notin net.room

\* The socket is put into the map of controllers and joins its user's room in
\* one turn of the event loop: the join of socket.io's Redis adapter is that of
\* the adapter in memory, which is done when it returns.
Join(s) ==
  /\ Authenticating(s)
  /\ net' = [net EXCEPT !.room = @ \union {s}]
  /\ UNCHANGED <<calls, aborted>>

\* The token is refused: the server disconnects, the client stays down.
Refuse(s) ==
  /\ Authenticating(s)
  /\ net' = [net EXCEPT !.sockets[s] = "closed"]
  /\ calls' = After(net')
  /\ UNCHANGED aborted

\* 'connect_error', of the first attempt or of a reconnection: the module's
\* socket is disconnected and the callers who await it are rejected.
ConnectError(s) ==
  /\ Happens("fail")
  /\ net.sockets[s] \in {"connecting", "reconnecting"}
  /\ net' = [net EXCEPT !.sockets = Closed(net, net.socket),
                        !.connecting = IF @ = s THEN 0 ELSE @]
  /\ calls' = [c \in DOMAIN calls |->
                 IF Waiting(c) /\ calls[c].sock = s
                 THEN Ended(calls[c], "failed") ELSE calls[c]]
  /\ UNCHANGED aborted

\* The transport is lost and socket.io starts to reconnect; when the pod has
\* died, work is lost with it.
Drop(s) ==
  /\ Happens("drop")
  /\ net.sockets[s] = "open"
  /\ net' = [net EXCEPT !.sockets[s] = "reconnecting",
                        !.room = @ \ {s}]
  /\ \E lost \in SUBSET Running :
       /\ lost # {} => Happens("restart")
       /\ calls' = [c \in DOMAIN calls |->
                      IF c \in lost THEN [After(net')[c] EXCEPT !.work = "over"]
                      ELSE After(net')[c]]
  /\ UNCHANGED aborted

\* useAuth: the session changed (a login, a silent refresh of the token).
TokenRefreshed ==
  /\ Happens("refresh")
  /\ net' = ConnectStreamingSocket(CloseStreamingSocket(net))
  /\ Len(net'.sockets) <= MaxSockets
  /\ calls' = After(net')
  /\ UNCHANGED aborted

SessionCleared ==
  /\ Happens("logout")
  /\ net' = CloseStreamingSocket(net)
  /\ calls' = After(net')
  /\ UNCHANGED aborted

-----------------------------------------------------------------------------
(* The server, as the gateway treats a request.                            *)

\* A request of a connection that is not authenticated is dropped silently;
\* one that was sent before its connection was lost may have arrived.
TakeUp(c) ==
  /\ calls[c].work = "sent"
  /\ \E work \in {"running", "dropped"} :
       /\ calls[c].attached =>
            (work = "running" <=> calls[c].sock \in net.room)
       /\ calls' = [calls EXCEPT ![c].work = work]
  /\ UNCHANGED <<net, aborted>>

\* An event reaches the listener of the call's own socket.
Hears(c) ==
  Listening(c) /\ IsOpen(net, calls[c].sock) /\ calls[c].sock \in net.room

Answered(c, outcome) ==
  LET over == [calls[c] EXCEPT !.work = "over", !.attached = FALSE]
  IN  IF Hears(c) THEN Ended(over, outcome) ELSE over

\* The work ends with its terminal event; an optimizer run that an AbortError
\* of a model call ends has none (OptimizationLoop, IsCancellation).
Finish(c) ==
  /\ calls[c].work = "running"
  /\ \/ \E outcome \in {"complete", "error"} :
          calls' = [calls EXCEPT ![c] = Answered(c, outcome)]
     \/ /\ Happens("silent") /\ calls[c].kind = "run"
        /\ calls' = [calls EXCEPT ![c].work = "over", ![c].attached = FALSE]
  /\ UNCHANGED <<net, aborted>>

\* onApplicationShutdown of a pod that runs some of the work: requests that
\* are in the map of a connection are interrupted, others end untold.
Restart ==
  /\ Happens("restart")
  /\ \E some \in (SUBSET Running) \ {{}} :
       calls' = [c \in DOMAIN calls |->
                   IF c \notin some THEN calls[c]
                   ELSE IF calls[c].attached THEN Answered(c, "interrupted")
                   ELSE [calls[c] EXCEPT !.work = "over"]]
  /\ UNCHANGED <<net, aborted>>

\* The grace window ended and the user is connected nowhere.
AbortIfUserGone(c) ==
  /\ calls[c].work = "running" /\ ~calls[c].attached
  /\ net.room = {}
  /\ calls' = [calls EXCEPT ![c].work = "over"]
  /\ UNCHANGED <<net, aborted>>

-----------------------------------------------------------------------------

ClientInit ==
  /\ net = [sockets |-> <<>>, room |-> {}, socket |-> 0, connecting |-> 0]
  /\ calls = <<>>
  /\ aborted = {}

Connection ==
  \/ \E s \in DOMAIN net.sockets :
       Connect(s) \/ Join(s) \/ Refuse(s) \/ ConnectError(s) \/ Drop(s)
  \/ TokenRefreshed
  \/ SessionCleared

Server ==
  \/ \E c \in DOMAIN calls : TakeUp(c) \/ Finish(c) \/ AbortIfUserGone(c)
  \/ Restart

\* emitStream's callers: generate, refine, optimize-draft, explain, ...; a
\* dialog that is closed aborts.
Dialogs == {c \in DOMAIN calls : calls[c].kind = "emit" /\ calls[c].ctl = c}
Emit ==
  /\ Cardinality(Dialogs) < MaxDialogs
  /\ Request("emit", Len(calls) + 1)
  /\ UNCHANGED aborted
Cancel ==
  \E c \in Dialogs :
    /\ calls[c].at # "ended" /\ c \notin aborted
    /\ Abort(c) /\ UNCHANGED net

-----------------------------------------------------------------------------
(* Properties.                                                             *)

Call ==
  [kind : {"emit", "run"}, at : {"waiting", "stuck", "listening", "ended"},
   ctl : 0..MaxCalls, outcome : Outcomes, sock : 0..MaxSockets,
   work : WorkStates, attached : BOOLEAN]

\* Types of the connection's part.  The server's room holds open connections
\* only, and what listens or runs has been sent.
ClientTypeOK ==
  /\ net.sockets \in Seq(SocketStates) /\ Len(net.sockets) <= MaxSockets
  /\ net.socket \in 0..Len(net.sockets)
  /\ net.connecting \in 0..Len(net.sockets)
  /\ \A s \in net.room : s \in DOMAIN net.sockets /\ IsOpen(net, s)
  /\ calls \in Seq(Call) /\ Len(calls) <= MaxCalls
  /\ \A c \in DOMAIN calls :
       calls[c].at = "ended" \/ calls[c].sock \in DOMAIN net.sockets
  /\ aborted \subseteq DOMAIN calls

\* No socket but the module's own is open or being opened.
OneSocket ==
  \A s \in DOMAIN net.sockets :
    net.sockets[s] # "closed" => s = net.socket

\* A promise that new callers would share waits for the module's own socket,
\* which is still trying.
PromiseIsLive ==
  net.connecting # 0 =>
    net.connecting = net.socket /\ net.sockets[net.socket] = "connecting"

\* Whatever callers, reconnections, token refreshes and logouts overlap, one
\* connection is open or being opened, the module knows it, nobody joins a
\* promise that cannot settle, and no socket is left behind in the room.
OneConnection == OneSocket /\ PromiseIsLive

\* A caller of emitStream that listens for its answer can get one: its
\* socket is open, the connection its request came over is too and, once its
\* work runs, is in the room the events go to; its work is not over.  One
\* that waits for a connection waits for the one that is being opened.  So
\* through drops, refused tokens, refreshes, logouts and restarts every other
\* caller has been answered or rejected, with two exceptions that the formula
\* lets pass: a request that was dropped because its connection was not yet
\* authenticated is listened for in vain, and a caller whose connection was
\* replaced or closed while it was being opened is stuck.
EmitsAreTold ==
  \A c \in DOMAIN calls :
    /\ calls[c].kind = "emit" /\ Listening(c) =>
         /\ calls[c].attached
         /\ IsOpen(net, calls[c].sock)
         /\ calls[c].work # "over"
         /\ calls[c].work = "running" => calls[c].sock \in net.room
    /\ Waiting(c) =>
         /\ calls[c].sock = net.connecting
         /\ net.sockets[calls[c].sock] = "connecting"
=============================================================================
