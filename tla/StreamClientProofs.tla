-------------------------- MODULE StreamClientProofs --------------------------
(* What every step of the browser's connection preserves, for any number of *)
(* sockets and requests and whatever may happen.  The page that makes the   *)
(* requests (OptimizerPageProofs) has its theorems from these lemmas.       *)
EXTENDS StreamClient, TLAPS

-----------------------------------------------------------------------------
(* The invariant.                                                          *)

NetStates ==
  [sockets : Seq(SocketStates), room : SUBSET Nat, socket : Nat, connecting : Nat]

\* The module's variables and the server's room, for a state n of the
\* connection: no socket but the module's own is tried or open, a shared
\* promise waits for that one, and the room holds open connections.
NetOK(n) ==
  /\ n \in NetStates
  /\ n.socket \in 0..Len(n.sockets) /\ n.connecting \in 0..Len(n.sockets)
  /\ \A s \in n.room : s \in DOMAIN n.sockets /\ n.sockets[s] = "open"
  /\ \A s \in DOMAIN n.sockets : n.sockets[s] # "closed" => s = n.socket
  /\ n.connecting # 0 =>
       n.connecting = n.socket /\ n.sockets[n.socket] = "connecting"

\* A request over the connection n: one the server still has in the map of
\* its connection is listened to on an open socket and is not over, it runs
\* only when that socket is in the room, and a caller of emitStream listens
\* to no other.  A caller that waits shares the module's promise.
CallOK(n, call) ==
  /\ call \in Call
  /\ call.at = "ended" \/ call.sock \in DOMAIN n.sockets
  /\ call.attached =>
       /\ call.at = "listening" /\ IsOpen(n, call.sock) /\ call.work # "over"
       /\ call.work = "running" => call.sock \in n.room
  /\ call.kind = "emit" /\ call.at = "listening" => call.attached
  /\ call.at = "waiting" => call.sock = n.connecting

\* A run is its own AbortController.
OwnController == \A c \in DOMAIN calls : calls[c].kind = "run" => calls[c].ctl = c

ClientInv ==
  /\ NetOK(net) /\ Len(net.sockets) <= MaxSockets
  /\ calls \in Seq(Call) /\ Len(calls) <= MaxCalls
  /\ \A c \in DOMAIN calls : CallOK(net, calls[c])
  /\ OwnController
  /\ aborted \subseteq DOMAIN calls

\* What a step may make of a request: it stays what it is, what has ended
\* stays so, and a run ends with an answer, a refused connection, or because
\* its controller was aborted.
Answers == {"complete", "error", "interrupted", "failed"}
Changes(old, new) ==
  /\ new.kind = old.kind /\ new.ctl = old.ctl
  /\ old.at = "ended" => new.at = "ended"
  /\ old.kind = "run" /\ old.at # "ended" /\ new.at = "ended" =>
       new.outcome \in Answers \/ new.ctl \in aborted'

ClientStep ==
  /\ ClientInv'
  /\ Len(calls) <= Len(calls')
  /\ \A c \in DOMAIN calls : Changes(calls[c], calls'[c])

-----------------------------------------------------------------------------
(* Sequences.                                                              *)

LEMMA SeqFacts ==
  ASSUME NEW S, NEW s \in Seq(S)
  PROVE  DOMAIN s = 1..Len(s) /\ Len(s) \in Nat
  OBVIOUS

LEMMA Appended ==
  ASSUME NEW S, NEW s \in Seq(S), NEW x \in S
  PROVE  /\ Append(s, x) \in Seq(S)
         /\ Len(Append(s, x)) = Len(s) + 1
         /\ DOMAIN Append(s, x) = 1..(Len(s) + 1)
         /\ \A i \in DOMAIN s : i # Len(s) + 1 /\ Append(s, x)[i] = s[i]
         /\ Append(s, x)[Len(s) + 1] = x
  OBVIOUS

LEMMA Mapped ==
  ASSUME NEW S, NEW s \in Seq(S), NEW f,
         f = [c \in DOMAIN s |-> f[c]], \A c \in DOMAIN s : f[c] \in S
  PROVE  f \in Seq(S) /\ Len(f) = Len(s) /\ DOMAIN f = DOMAIN s
  OBVIOUS

LEMMA Excepted ==
  ASSUME NEW S, NEW s \in Seq(S), NEW i \in DOMAIN s, NEW x \in S
  PROVE  /\ [s EXCEPT ![i] = x] \in Seq(S)
         /\ Len([s EXCEPT ![i] = x]) = Len(s)
         /\ DOMAIN [s EXCEPT ![i] = x] = DOMAIN s
         /\ [s EXCEPT ![i] = x][i] = x
         /\ \A j \in DOMAIN s : j # i => [s EXCEPT ![i] = x][j] = s[j]
  OBVIOUS

-----------------------------------------------------------------------------
(* The module's sockets.                                                   *)

LEMMA NetFacts ==
  ASSUME NEW n, NetOK(n)
  PROVE  /\ n.sockets \in Seq(SocketStates) /\ n.room \subseteq Nat
         /\ n.socket \in Nat /\ n.connecting \in Nat
         /\ Len(n.sockets) \in Nat /\ DOMAIN n.sockets = 1..Len(n.sockets)
         /\ \A s \in DOMAIN n.sockets : n.sockets[s] \in SocketStates
  BY DEF NetOK, NetStates

\* Closing the module's socket leaves every socket closed.
LEMMA ClosedFacts ==
  ASSUME NEW n, NetOK(n)
  PROVE  /\ Closed(n, n.socket) \in Seq(SocketStates)
         /\ Len(Closed(n, n.socket)) = Len(n.sockets)
         /\ DOMAIN Closed(n, n.socket) = DOMAIN n.sockets
         /\ \A s \in DOMAIN n.sockets : Closed(n, n.socket)[s] = "closed"
<1>1. CASE n.socket = 0
  BY <1>1, NetFacts DEF Closed, NetOK
<1>2. CASE n.socket # 0
  <2>1. n.socket \in DOMAIN n.sockets /\ "closed" \in SocketStates
    BY <1>2, NetFacts DEF NetOK, SocketStates
  <2> QED
    BY <1>2, <2>1, NetFacts, Excepted DEF Closed, NetOK
<1> QED
  BY <1>1, <1>2

\* connectStreamingSocket keeps to one socket, and forgets none that is open.
LEMMA ConnectKeeps ==
  ASSUME NEW n, NetOK(n)
  PROVE  /\ NetOK(ConnectStreamingSocket(n))
         /\ Len(n.sockets) <= Len(ConnectStreamingSocket(n).sockets)
         /\ ConnectStreamingSocket(n).socket \in DOMAIN ConnectStreamingSocket(n).sockets
         /\ \A s \in DOMAIN n.sockets : n.sockets[s] = "open" =>
              ConnectStreamingSocket(n) = n
         /\ n.connecting # 0 => ConnectStreamingSocket(n) = n
         /\ LET m == ConnectStreamingSocket(n)
            IN  IsOpen(m, m.socket) \/ m.connecting = m.socket
<1> DEFINE m == ConnectStreamingSocket(n)
<1>0. DOMAIN n.sockets = 1..Len(n.sockets) /\ Len(n.sockets) \in Nat
  BY NetFacts
<1>1. CASE IsOpen(n, n.socket) \/ n.connecting # 0
  <2>1. m = n
    BY <1>1 DEF ConnectStreamingSocket
  <2> QED
    BY <1>0, <1>1, <2>1, NetFacts DEF NetOK, IsOpen
<1>2. CASE ~(IsOpen(n, n.socket) \/ n.connecting # 0)
  <2> DEFINE before == Closed(n, n.socket)
             after  == Append(before, "connecting")
  <2>1. m = [sockets |-> after, room |-> n.room \ {n.socket},
             socket |-> Len(before) + 1, connecting |-> Len(before) + 1]
    BY <1>2 DEF ConnectStreamingSocket, Opened
  <2>2. /\ before \in Seq(SocketStates) /\ Len(before) = Len(n.sockets)
        /\ \A s \in DOMAIN n.sockets : before[s] = "closed"
        /\ DOMAIN before = DOMAIN n.sockets
    BY ClosedFacts
  <2> HIDE DEF before
  <2>3. /\ after \in Seq(SocketStates) /\ Len(after) = Len(n.sockets) + 1
        /\ DOMAIN after = 1..(Len(n.sockets) + 1)
        /\ \A s \in DOMAIN n.sockets : s # Len(n.sockets) + 1 /\ after[s] = "closed"
        /\ after[Len(n.sockets) + 1] = "connecting"
    BY <2>2, Appended DEF SocketStates
  <2> HIDE DEF after
  <2>4. n.room \subseteq {n.socket}
    BY NetFacts DEF NetOK
  <2>5. n.room \ {n.socket} = {}
    BY <2>4
  <2>6. m \in NetStates
    BY <1>0, <2>1, <2>2, <2>3, <2>5 DEF NetStates
  <2>7. NetOK(m)
    <3>1. m.sockets = after /\ m.room = {} /\ m.socket = Len(n.sockets) + 1
            /\ m.connecting = Len(n.sockets) + 1
      BY <2>1, <2>2, <2>5
    <3> HIDE DEF m
    <3> QED
      BY <1>0, <2>3, <2>6, <3>1 DEF NetOK
  <2>8. \A s \in DOMAIN n.sockets : n.sockets[s] # "open"
    BY <1>0, <1>2 DEF NetOK, IsOpen
  <2>9. m.connecting = m.socket
    BY <2>1
  <2> QED
    BY <1>0, <1>2, <2>1, <2>2, <2>3, <2>7, <2>8, <2>9
<1> QED
  BY <1>1, <1>2

LEMMA CloseKeeps ==
  ASSUME NEW n, NetOK(n)
  PROVE  /\ NetOK(CloseStreamingSocket(n))
         /\ Len(CloseStreamingSocket(n).sockets) = Len(n.sockets)
         /\ \A s \in DOMAIN n.sockets : CloseStreamingSocket(n).sockets[s] = "closed"
<1>1. n.room \ {n.socket} = {} /\ Closed(n, n.socket) \in Seq(SocketStates)
  BY NetFacts, ClosedFacts DEF NetOK
<1>2. \A b \in Seq(SocketStates), r \in SUBSET Nat :
        LET m == [n EXCEPT !.sockets = b, !.room = r, !.socket = 0, !.connecting = 0]
        IN  /\ m.sockets = b /\ m.room = r /\ m.socket = 0 /\ m.connecting = 0
            /\ m \in NetStates
  BY DEF NetOK, NetStates
<1> DEFINE k == [n EXCEPT !.sockets = Closed(n, n.socket), !.room = {},
                           !.socket = 0, !.connecting = 0]
<1>3. k.sockets = Closed(n, n.socket) /\ k.room = {} /\ k.socket = 0
        /\ k.connecting = 0 /\ k \in NetStates
  <2> DEFINE b == Closed(n, n.socket)
  <2>1. b \in Seq(SocketStates) /\ {} \in SUBSET Nat
    BY <1>1
  <2> HIDE DEF b
  <2> QED
    BY <1>2, <2>1 DEF b
<1>4. CloseStreamingSocket(n) = k
  BY <1>1, Zenon DEF CloseStreamingSocket
<1> HIDE DEF k
<1> QED
  BY <1>3, <1>4, ClosedFacts, NetFacts DEF NetOK

-----------------------------------------------------------------------------
(* The requests.                                                           *)

LEMMA Facts ==
  ASSUME ClientInv
  PROVE  /\ NetOK(net) /\ calls \in Seq(Call) /\ Len(calls) \in Nat
         /\ DOMAIN calls = 1..Len(calls) /\ Len(calls) <= MaxCalls
         /\ \A c \in DOMAIN calls : calls[c] \in Call /\ CallOK(net, calls[c])
         /\ \A c \in DOMAIN calls : calls[c].attached => calls[c].sock = net.socket
  BY NetFacts DEF ClientInv, CallOK, IsOpen, NetOK

\* The records that the steps make of a call.
Same(x, call) == x.kind = call.kind /\ x.ctl = call.ctl

LEMMA Works ==
  ASSUME NEW call \in Call, NEW w \in WorkStates
  PROVE  LET x == [call EXCEPT !.work = w]
         IN  /\ x \in Call /\ Same(x, call) /\ x.work = w /\ x.at = call.at
             /\ x.sock = call.sock /\ x.attached = call.attached
             /\ x.outcome = call.outcome
  BY DEF Call, Same

LEMMA Detached ==
  ASSUME NEW call \in Call
  PROVE  LET x == [call EXCEPT !.attached = FALSE]
         IN  /\ x \in Call /\ Same(x, call) /\ x.attached = FALSE /\ x.at = call.at
             /\ x.sock = call.sock /\ x.work = call.work
             /\ x.outcome = call.outcome
  BY DEF Call, Same

LEMMA Ends ==
  ASSUME NEW call \in Call, NEW o \in Outcomes
  PROVE  LET x == Ended(call, o)
         IN  /\ x \in Call /\ Same(x, call) /\ x.at = "ended" /\ x.outcome = o
             /\ x.work = call.work /\ x.attached = call.attached
<1>1. 0 \in 0..MaxSockets
  BY StreamClientAssumption
<1> QED
  BY <1>1 DEF Call, Ended, Same

LEMMA Sends ==
  ASSUME NEW call \in Call
  PROVE  LET x == Send(call)
         IN  /\ x \in Call /\ Same(x, call) /\ x.at = "listening"
             /\ x.work = "sent" /\ x.attached = TRUE /\ x.sock = call.sock
  BY DEF Call, Send, WorkStates, Same

LEMMA CutOffFacts ==
  ASSUME NEW call \in Call
  PROVE  LET x == CutOff(call)
         IN  /\ x \in Call /\ Same(x, call) /\ x.attached = FALSE
             /\ IF call.at = "listening" /\ call.kind = "emit" THEN x.at = "ended"
                ELSE x.at = call.at /\ x.sock = call.sock
<1>1. CASE call.at = "listening" /\ call.kind = "emit"
  <2> DEFINE e == Ended(call, "disconnected")
  <2>1. e \in Call /\ e.at = "ended" /\ Same(e, call)
    BY Ends DEF Outcomes
  <2>2. CutOff(call) = [e EXCEPT !.attached = FALSE]
    BY <1>1, Zenon DEF CutOff
  <2> HIDE DEF e
  <2>3. LET x == [e EXCEPT !.attached = FALSE]
        IN  x \in Call /\ Same(x, e) /\ x.attached = FALSE /\ x.at = e.at
    BY <2>1, Detached
  <2> QED
    BY <1>1, <2>1, <2>2, <2>3 DEF Same
<1>2. CASE ~(call.at = "listening" /\ call.kind = "emit")
  <2>1. CutOff(call) = [call EXCEPT !.attached = FALSE]
    BY <1>2, Zenon DEF CutOff
  <2> QED
    BY <1>2, <2>1, Detached
<1> QED
  BY <1>1, <1>2

LEMMA Strands ==
  ASSUME NEW call \in Call
  PROVE  LET x == Stranded(call)
         IN  /\ x \in Call /\ Same(x, call) /\ x.at = "stuck"
             /\ x.sock = call.sock /\ x.attached = call.attached
  BY DEF Call, Stranded, Same

\* A call that a step leaves alone.
LEMMA Untouched ==
  ASSUME NEW n, NEW m, NEW call, CallOK(n, call),
         call.at = "waiting" => call.sock = m.connecting,
         DOMAIN n.sockets \subseteq DOMAIN m.sockets,
         call.attached => IsOpen(m, call.sock),
         \A s \in n.room : IsOpen(m, s) => s \in m.room
  PROVE  CallOK(m, call)
  BY DEF CallOK

LEMMA Unchanged == \A call : Changes(call, call)
  BY DEF Changes

\* The socket that the shared promise waits for is still the same, or closed.
SharedOrClosed(n) ==
  net.connecting # 0 =>
    n.connecting = net.connecting \/ n.sockets[net.connecting] = "closed"

\* 'disconnect': every call whose socket closes is cut off or stuck.
LEMMA AfterOK ==
  ASSUME ClientInv, NEW n, NetOK(n), SharedOrClosed(n),
         DOMAIN net.sockets \subseteq DOMAIN n.sockets,
         \A s \in net.room : IsOpen(n, s) => s \in n.room
  PROVE  /\ After(n) = [c \in DOMAIN calls |-> After(n)[c]]
         /\ \A c \in DOMAIN calls :
              /\ CallOK(n, After(n)[c]) /\ Changes(calls[c], After(n)[c])
              /\ After(n)[c].attached => IsOpen(n, After(n)[c].sock)
<1>1. After(n) = [c \in DOMAIN calls |-> After(n)[c]]
  BY DEF After
<1>2. ASSUME NEW c \in DOMAIN calls
      PROVE  CallOK(n, After(n)[c]) /\ Changes(calls[c], After(n)[c])
  <2> DEFINE call == calls[c]
  <2>1. call \in Call /\ CallOK(net, call)
    BY Facts
  <2>2. CASE IsOpen(net, call.sock) /\ ~IsOpen(n, call.sock)
    <3>1. After(n)[c] = CutOff(call)
      BY <2>2 DEF After
    <3>2. call.at # "waiting"
      BY <2>1, <2>2, Facts DEF CallOK, NetOK, IsOpen
    <3>3. CallOK(n, CutOff(call)) /\ Changes(call, CutOff(call))
      BY <2>1, <3>2, CutOffFacts DEF CallOK, Changes, Same
    <3> QED
      BY <3>1, <3>3
  <2> DEFINE stranded == Waiting(c) /\ n.sockets[call.sock] = "closed"
  <2>3. CASE ~(IsOpen(net, call.sock) /\ ~IsOpen(n, call.sock)) /\ stranded
    <3>1. After(n)[c] = Stranded(call)
      BY <2>3 DEF After
    <3>2. ~call.attached /\ call.at = "waiting"
      BY <2>1, <2>3 DEF CallOK, Waiting
    <3>3. CallOK(n, Stranded(call)) /\ Changes(call, Stranded(call))
      BY <2>1, <3>2, Strands DEF CallOK, Changes, Same
    <3> QED
      BY <3>1, <3>3
  <2>4. CASE ~(IsOpen(net, call.sock) /\ ~IsOpen(n, call.sock)) /\ ~stranded
    <3>1. After(n)[c] = call
      BY <2>4 DEF After
    <3>2. call.attached => IsOpen(n, call.sock)
      BY <2>1, <2>4 DEF CallOK
    <3>3. call.at = "waiting" => call.sock = n.connecting
      <4> SUFFICES ASSUME call.at = "waiting" PROVE call.sock = n.connecting
        OBVIOUS
      <4>1. call.sock = net.connecting /\ call.sock # 0
        BY <2>1, Facts, NetFacts DEF CallOK
      <4> QED
        BY <2>4, <4>1 DEF SharedOrClosed, Waiting
    <3> QED
      BY <2>1, <3>1, <3>2, <3>3, Untouched, Unchanged
  <2> QED
    BY <2>2, <2>3, <2>4
<1> QED
  BY <1>1, <1>2 DEF CallOK

\* What is left to show of a step that makes no request.
LEMMA Keeps ==
  ASSUME ClientInv, NetOK(net'), Len(net.sockets') <= MaxSockets,
         calls' = [c \in DOMAIN calls |-> calls'[c]],
         \A c \in DOMAIN calls :
           CallOK(net', calls'[c]) /\ Changes(calls[c], calls'[c]),
         aborted' \subseteq DOMAIN calls
  PROVE  ClientStep /\ Len(calls') = Len(calls)
<1>1. \A c \in DOMAIN calls : calls'[c] \in Call
  BY DEF CallOK
<1>2. calls' \in Seq(Call) /\ Len(calls') = Len(calls) /\ DOMAIN calls' = DOMAIN calls
  BY <1>1, Facts, Mapped
<1>3. OwnController'
  BY <1>2 DEF ClientInv, OwnController, Changes
<1> QED
  BY <1>2, <1>3, Facts DEF ClientStep, ClientInv

LEMMA Idles ==
  ASSUME ClientInv, UNCHANGED clientVars
  PROVE  ClientStep /\ Len(calls') = Len(calls)
  BY Facts, Unchanged
     DEF ClientStep, ClientInv, clientVars, OwnController, Changes

-----------------------------------------------------------------------------
(* Requests and AbortControllers.                                          *)

LEMMA Requests ==
  ASSUME ClientInv, NEW kind \in {"emit", "run"}, NEW ctl \in 0..MaxCalls,
         kind = "run" => ctl = Len(calls) + 1,
         Request(kind, ctl), UNCHANGED aborted
  PROVE  /\ ClientStep /\ Len(calls') = Len(calls) + 1
         /\ DOMAIN calls' = 1..(Len(calls) + 1)
         /\ \A c \in DOMAIN calls : calls'[c] = calls[c]
         /\ LET new == calls'[Len(calls) + 1]
            IN  new.kind = kind /\ new.ctl = ctl /\ new.at # "ended"
<1> DEFINE n   == ConnectStreamingSocket(net)
           new == NewCall(kind, n, ctl)
<1>1. Len(calls) < MaxCalls /\ Len(n.sockets) <= MaxSockets /\ net' = n
      /\ calls' = Append(calls, new)
  BY DEF Request
<1>2. /\ NetOK(n) /\ Len(net.sockets) <= Len(n.sockets)
      /\ n.socket \in DOMAIN n.sockets
      /\ \A s \in DOMAIN net.sockets : net.sockets[s] = "open" => n = net
      /\ net.connecting # 0 => n = net
      /\ IsOpen(n, n.socket) \/ n.connecting = n.socket
  BY ConnectKeeps, Facts
<1>3. /\ DOMAIN net.sockets = 1..Len(net.sockets) /\ Len(net.sockets) \in Nat
      /\ DOMAIN n.sockets = 1..Len(n.sockets) /\ Len(n.sockets) \in Nat
  BY <1>2, Facts, NetFacts
<1> HIDE DEF n
<1>4. n.socket \in 0..MaxSockets
  BY <1>1, <1>2, <1>3, StreamClientAssumption
<1> DEFINE call == [kind |-> kind, at |-> "waiting", ctl |-> ctl,
                    outcome |-> "none", sock |-> n.socket, work |-> "none",
                    attached |-> FALSE]
<1>5. call \in Call /\ call.kind = kind /\ call.ctl = ctl /\ call.at = "waiting"
      /\ call.sock = n.socket /\ call.attached = FALSE
  BY <1>4 DEF Call, Outcomes, WorkStates
<1>6. new = IF IsOpen(n, n.socket) THEN Send(call) ELSE call
  BY DEF NewCall
<1> HIDE DEF new, call
<1>7. new.kind = kind /\ new.ctl = ctl /\ new.at # "ended" /\ CallOK(n, new)
  BY <1>2, <1>5, <1>6, Sends DEF CallOK, Same
<1>8. /\ calls' \in Seq(Call) /\ Len(calls') = Len(calls) + 1
      /\ DOMAIN calls' = 1..(Len(calls) + 1)
      /\ \A c \in DOMAIN calls : calls'[c] = calls[c] /\ c # Len(calls) + 1
      /\ calls'[Len(calls) + 1] = new
  BY <1>1, <1>7, Appended, Facts DEF CallOK
<1>9. \A c \in DOMAIN calls : CallOK(n, calls[c])
  <2> TAKE c \in DOMAIN calls
  <2>1. CASE n = net
    BY <2>1, Facts
  <2>2. CASE n # net
    <3>1. \A s \in DOMAIN net.sockets : net.sockets[s] # "open"
      BY <1>2, <2>2
    <3>2. CallOK(net, calls[c]) /\ NetOK(net)
      BY Facts
    <3>3. ~calls[c].attached /\ net.room = {}
      BY <1>3, <3>1, <3>2, NetFacts DEF CallOK, NetOK, IsOpen
    <3>4. calls[c].at # "waiting"
      BY <1>2, <1>3, <2>2, <3>2 DEF CallOK
    <3> QED
      BY <1>2, <1>3, <3>2, <3>3, <3>4 DEF CallOK
  <2> QED
    BY <2>1, <2>2
<1>10. \A c \in 1..(Len(calls) + 1) : c \in DOMAIN calls \/ c = Len(calls) + 1
  BY Facts
<1>11. OwnController'
  BY <1>7, <1>8, <1>10 DEF ClientInv, OwnController
<1>12. \A c \in DOMAIN calls' : CallOK(n, calls'[c])
  BY <1>7, <1>8, <1>9, <1>10
<1>13. aborted' \subseteq DOMAIN calls' /\ Len(calls') <= MaxCalls
  BY <1>1, <1>8, Facts, StreamClientAssumption DEF ClientInv
<1>14. ClientInv'
  BY <1>1, <1>2, <1>8, <1>11, <1>12, <1>13 DEF ClientInv
<1> QED
  BY <1>7, <1>8, <1>14, Facts, Unchanged DEF ClientStep

\* abort() ends the calls that listen with this controller, and no others.
LEMMA Aborts ==
  ASSUME ClientInv, NEW ctl \in DOMAIN calls, Abort(ctl), UNCHANGED net
  PROVE  /\ ClientStep /\ Len(calls') = Len(calls)
         /\ aborted' = aborted \union {ctl}
         /\ Listening(ctl) /\ calls[ctl].ctl = ctl => calls'[ctl].at = "ended"
<1>1. /\ calls' = [c \in DOMAIN calls |-> calls'[c]]
      /\ aborted' = aborted \union {ctl}
  BY DEF Abort
<1>2. ASSUME NEW c \in DOMAIN calls
      PROVE  /\ CallOK(net, calls'[c]) /\ Changes(calls[c], calls'[c])
             /\ calls[c].ctl = ctl /\ Listening(c) => calls'[c].at = "ended"
  <2> DEFINE e == Ended(calls[c], "aborted")
             w == IF calls[c].attached THEN "over" ELSE calls[c].work
             d == [e EXCEPT !.attached = FALSE]
  <2>1. calls[c] \in Call /\ CallOK(net, calls[c])
    BY Facts
  <2>2. CASE calls[c].ctl = ctl /\ Listening(c)
    <3>1. e \in Call /\ Same(e, calls[c]) /\ e.at = "ended" /\ e.work = calls[c].work
      BY <2>1, Ends DEF Outcomes
    <3>2. calls'[c] = [e EXCEPT !.attached = FALSE,
                                !.work = IF calls[c].attached THEN "over" ELSE @]
      BY <2>2, Zenon DEF Abort
    <3> HIDE DEF e
    <3>3. calls'[c] = [d EXCEPT !.work = w]
      BY <3>1, <3>2 DEF Call
    <3>4. d \in Call /\ Same(d, e) /\ d.at = "ended" /\ d.attached = FALSE
      BY <3>1, Detached
    <3>5. w \in WorkStates
      BY <2>1 DEF Call, WorkStates
    <3> HIDE DEF d, w
    <3>6. calls'[c] \in Call /\ Same(calls'[c], d) /\ calls'[c].at = "ended"
          /\ calls'[c].attached = FALSE
      BY <3>3, <3>4, <3>5, Works
    <3> QED
      BY <1>1, <2>2, <3>1, <3>4, <3>6 DEF CallOK, Changes, Same
  <2>3. CASE ~(calls[c].ctl = ctl /\ Listening(c))
    <3>1. calls'[c] = calls[c]
      BY <2>3 DEF Abort
    <3> QED
      BY <2>1, <2>3, <3>1, Unchanged
  <2> QED
    BY <2>2, <2>3
<1>3. NetOK(net') /\ Len(net.sockets') <= MaxSockets /\ aborted' \subseteq DOMAIN calls
  BY <1>1 DEF ClientInv
<1> QED
  BY <1>1, <1>2, <1>3, Keeps

-----------------------------------------------------------------------------
(* The connection.                                                         *)

\* One socket changes its state.
With(n, s, state, r, k) ==
  [n EXCEPT !.sockets[s] = state, !.room = r, !.connecting = k]

IsWith(m, n, s, state, r, k) ==
  /\ m \in NetStates
  /\ m.sockets = [n.sockets EXCEPT ![s] = state]
  /\ m.room = r /\ m.connecting = k /\ m.socket = n.socket
  /\ Len(m.sockets) = Len(n.sockets) /\ DOMAIN m.sockets = DOMAIN n.sockets
  /\ m.sockets[s] = state
  /\ \A t \in DOMAIN n.sockets : t # s => m.sockets[t] = n.sockets[t]

LEMMA NetWith ==
  ASSUME NEW n, NetOK(n), NEW s \in DOMAIN n.sockets, NEW state \in SocketStates,
         NEW r, r \in SUBSET Nat, NEW k \in Nat
  PROVE  IsWith(With(n, s, state, r, k), n, s, state, r, k)
<1> DEFINE b == [n.sockets EXCEPT ![s] = state]
           m == With(n, s, state, r, k)
<1>1. /\ b \in Seq(SocketStates) /\ Len(b) = Len(n.sockets)
      /\ DOMAIN b = DOMAIN n.sockets /\ b[s] = state
      /\ \A t \in DOMAIN n.sockets : t # s => b[t] = n.sockets[t]
  BY NetFacts, Excepted
<1>2. m = [n EXCEPT !.sockets = b, !.room = r, !.connecting = k]
  BY DEF NetOK, NetStates, With
<1> HIDE DEF b, m
<1>3. /\ m \in NetStates /\ m.sockets = b
      /\ m.room = r /\ m.connecting = k /\ m.socket = n.socket
  BY <1>1, <1>2 DEF NetOK, NetStates
<1>4. IsWith(m, n, s, state, r, k)
  BY <1>1, <1>3 DEF b, IsWith
<1> QED
  BY <1>4 DEF m

LEMMA Connects ==
  ASSUME ClientInv, NEW s \in DOMAIN net.sockets, Connect(s)
  PROVE  ClientStep /\ Len(calls') = Len(calls)
<1>1. PICK late \in BOOLEAN :
        net' = [net EXCEPT !.sockets[s] = "open",
                           !.room = IF late THEN @ ELSE @ \union {s},
                           !.connecting = IF @ = s THEN 0 ELSE @]
  BY DEF Connect
<1> DEFINE r == IF late THEN net.room ELSE net.room \union {s}
           k == IF net.connecting = s THEN 0 ELSE net.connecting
<1>2. net.sockets[s] \in {"connecting", "reconnecting"} /\ s = net.socket
  BY Facts DEF Connect, NetOK
<1>3. r \in SUBSET Nat /\ k \in Nat /\ "open" \in SocketStates
  BY Facts, NetFacts DEF SocketStates
<1>4. net' = With(net, s, "open", r, k)
  BY <1>1 DEF With
<1>5. /\ net' \in NetStates /\ net'.room = r /\ net'.connecting = k
      /\ net'.socket = net.socket /\ Len(net'.sockets) = Len(net.sockets)
      /\ DOMAIN net'.sockets = DOMAIN net.sockets /\ net'.sockets[s] = "open"
      /\ \A t \in DOMAIN net.sockets : t # s => net'.sockets[t] = net.sockets[t]
  <2> HIDE DEF r, k
  <2>1. NetOK(net)
    BY Facts
  <2>2. IsWith(net', net, s, "open", r, k)
    BY <1>3, <1>4, <2>1, NetWith
  <2> QED
    BY <2>2 DEF IsWith
<1>6. k = 0
  BY <1>2, Facts DEF NetOK
<1>7. NetOK(net')
  BY <1>2, <1>5, <1>6, Facts, NetFacts DEF NetOK
<1>8. ASSUME NEW c \in DOMAIN calls
      PROVE  CallOK(net', calls'[c]) /\ Changes(calls[c], calls'[c])
  <2>1. calls[c] \in Call /\ CallOK(net, calls[c])
    BY Facts
  <2>2. CASE Waiting(c) /\ calls[c].sock = s
    <3>1. calls'[c] = Send(calls[c])
      BY <2>2, Zenon DEF Connect
    <3> DEFINE x == Send(calls[c])
    <3>2. /\ x \in Call /\ Same(x, calls[c]) /\ x.at = "listening"
          /\ x.work = "sent" /\ x.attached = TRUE /\ x.sock = s
      BY <2>1, <2>2, Sends
    <3> HIDE DEF x
    <3>3. s \in DOMAIN net'.sockets /\ IsOpen(net', s)
      BY <1>5, Facts, NetFacts DEF IsOpen
    <3>4. CallOK(net', x)
      BY <3>2, <3>3 DEF CallOK
    <3>5. Changes(calls[c], x)
      BY <2>2, <3>2 DEF Changes, Same, Waiting
    <3> QED
      BY <3>1, <3>4, <3>5 DEF x
  <2>3. CASE ~(Waiting(c) /\ calls[c].sock = s)
    <3>1. calls'[c] = calls[c]
      BY <2>3 DEF Connect
    <3>2. ~calls[c].attached
      BY <1>2, <2>1, Facts DEF CallOK, IsOpen
    <3>3. calls[c].at # "waiting"
      BY <1>2, <2>1, <2>3, Facts, NetFacts DEF CallOK, NetOK, Waiting
    <3> QED
      BY <1>5, <2>1, <3>1, <3>2, <3>3, Unchanged DEF CallOK
  <2> QED
    BY <2>2, <2>3
<1>9. /\ calls' = [c \in DOMAIN calls |-> calls'[c]]
      /\ Len(net'.sockets) <= MaxSockets /\ aborted' \subseteq DOMAIN calls
  BY <1>5 DEF Connect, ClientInv
<1> QED
  BY <1>7, <1>8, <1>9, Keeps

LEMMA Joins ==
  ASSUME ClientInv, NEW s \in DOMAIN net.sockets, Join(s)
  PROVE  ClientStep /\ Len(calls') = Len(calls)
<1>1. net.sockets[s] = "open" /\ net' = [net EXCEPT !.room = @ \union {s}]
      /\ calls' = calls /\ aborted' = aborted
  BY DEF Join, Authenticating
<1>2. /\ net' \in NetStates /\ net'.room = net.room \union {s}
      /\ net'.sockets = net.sockets /\ net'.socket = net.socket
      /\ net'.connecting = net.connecting
  BY <1>1, Facts, NetFacts DEF NetOK, NetStates
<1>3. NetOK(net')
  BY <1>1, <1>2, Facts DEF NetOK
<1>4. \A c \in DOMAIN calls : CallOK(net', calls'[c])
  BY <1>1, <1>2, Facts DEF CallOK, IsOpen
<1>5. /\ calls' = [c \in DOMAIN calls |-> calls'[c]]
      /\ Len(net'.sockets) <= MaxSockets /\ aborted' \subseteq DOMAIN calls
  BY <1>1, <1>2, Facts DEF ClientInv
<1> QED
  BY <1>1, <1>3, <1>4, <1>5, Keeps, Unchanged

\* The connection is that of net', and the calls are those after it.
LEMMA Cuts ==
  ASSUME ClientInv, NetOK(net'), Len(net'.sockets) <= MaxSockets,
         SharedOrClosed(net'),
         DOMAIN net.sockets \subseteq DOMAIN net'.sockets,
         \A s \in net.room : IsOpen(net', s) => s \in net'.room,
         calls' = After(net'), UNCHANGED aborted
  PROVE  ClientStep /\ Len(calls') = Len(calls)
<1>1. /\ calls' = [c \in DOMAIN calls |-> calls'[c]]
      /\ \A c \in DOMAIN calls :
           CallOK(net', calls'[c]) /\ Changes(calls[c], calls'[c])
  BY AfterOK
<1> QED
  BY <1>1, Keeps DEF ClientInv

LEMMA Refuses ==
  ASSUME ClientInv, NEW s \in DOMAIN net.sockets, Refuse(s)
  PROVE  ClientStep /\ Len(calls') = Len(calls)
<1>1. net.sockets[s] = "open" /\ s \notin net.room /\ calls' = After(net')
      /\ net' = [net EXCEPT !.sockets[s] = "closed"] /\ aborted' = aborted
  BY DEF Refuse, Authenticating
<1>2. net' = With(net, s, "closed", net.room, net.connecting)
  BY <1>1, Facts DEF NetOK, NetStates, With
<1>3. /\ net' \in NetStates /\ net'.room = net.room
      /\ net'.connecting = net.connecting
      /\ net'.socket = net.socket /\ Len(net'.sockets) = Len(net.sockets)
      /\ DOMAIN net'.sockets = DOMAIN net.sockets /\ net'.sockets[s] = "closed"
      /\ \A t \in DOMAIN net.sockets : t # s => net'.sockets[t] = net.sockets[t]
  <2>1. NetOK(net) /\ net.room \in SUBSET Nat /\ net.connecting \in Nat
        /\ "closed" \in SocketStates
    BY Facts, NetFacts DEF SocketStates
  <2>2. IsWith(net', net, s, "closed", net.room, net.connecting)
    BY <1>2, <2>1, NetWith
  <2> QED
    BY <2>2 DEF IsWith
<1>4. NetOK(net') /\ Len(net'.sockets) <= MaxSockets
  BY <1>1, <1>3, Facts DEF NetOK, ClientInv
<1> QED
  BY <1>1, <1>3, <1>4, Cuts DEF SharedOrClosed

LEMMA ConnectErrors ==
  ASSUME ClientInv, NEW s \in DOMAIN net.sockets, ConnectError(s)
  PROVE  ClientStep /\ Len(calls') = Len(calls)
<1> DEFINE b == Closed(net, net.socket)
           k == IF net.connecting = s THEN 0 ELSE net.connecting
<1>1. net.sockets[s] \in {"connecting", "reconnecting"} /\ s = net.socket
      /\ aborted' = aborted /\ net.room = {}
      /\ net' = [net EXCEPT !.sockets = b,
                            !.connecting = IF @ = s THEN 0 ELSE @]
      /\ calls' = [c \in DOMAIN calls |->
                     IF Waiting(c) /\ calls[c].sock = s
                     THEN Ended(calls[c], "failed") ELSE calls[c]]
  BY Facts DEF ConnectError, NetOK
<1>2. /\ b \in Seq(SocketStates) /\ Len(b) = Len(net.sockets)
      /\ DOMAIN b = DOMAIN net.sockets /\ \A t \in DOMAIN net.sockets : b[t] = "closed"
  BY Facts, ClosedFacts
<1>3. k = 0
  BY <1>1, Facts DEF NetOK
<1> HIDE DEF b
<1>4. /\ net' \in NetStates /\ net'.sockets = b /\ net'.room = {}
      /\ net'.socket = net.socket /\ net'.connecting = 0
  BY <1>1, <1>2, <1>3, Facts DEF NetOK, NetStates
<1>5. NetOK(net') /\ Len(net'.sockets) <= MaxSockets
  BY <1>2, <1>4, Facts, NetFacts DEF NetOK, ClientInv
<1>6. ASSUME NEW c \in DOMAIN calls
      PROVE  CallOK(net', calls'[c]) /\ Changes(calls[c], calls'[c])
  <2>1. calls[c] \in Call /\ CallOK(net, calls[c]) /\ ~calls[c].attached
    BY <1>1, Facts DEF CallOK, IsOpen
  <2>2. CASE Waiting(c) /\ calls[c].sock = s
    <3>1. calls'[c] = Ended(calls[c], "failed")
      BY <1>1, <2>2, Zenon
    <3> QED
      BY <2>1, <3>1, Ends DEF CallOK, Changes, Same, Outcomes, Answers
  <2>3. CASE ~(Waiting(c) /\ calls[c].sock = s)
    <3>1. calls'[c] = calls[c]
      BY <1>1, <2>3
    <3>2. calls[c].at # "waiting"
      BY <1>1, <2>1, <2>3, Facts, NetFacts DEF CallOK, NetOK, Waiting
    <3> QED
      BY <1>2, <1>4, <2>1, <3>1, <3>2, Unchanged DEF CallOK
  <2> QED
    BY <2>2, <2>3
<1>7. calls' = [c \in DOMAIN calls |-> calls'[c]] /\ aborted' \subseteq DOMAIN calls
  BY <1>1 DEF ClientInv
<1> QED
  BY <1>5, <1>6, <1>7, Keeps

LEMMA Drops ==
  ASSUME ClientInv, NEW s \in DOMAIN net.sockets, Drop(s)
  PROVE  ClientStep /\ Len(calls') = Len(calls)
<1>1. net.sockets[s] = "open" /\ s = net.socket /\ aborted' = aborted
      /\ net' = With(net, s, "reconnecting", net.room \ {s}, net.connecting)
      /\ net.connecting = 0
  BY Facts, NetFacts DEF Drop, NetOK, NetStates, With
<1>2. IsWith(net', net, s, "reconnecting", net.room \ {s}, net.connecting)
  <2>1. NetOK(net) /\ net.room \ {s} \in SUBSET Nat /\ net.connecting \in Nat
        /\ "reconnecting" \in SocketStates
    BY Facts, NetFacts DEF SocketStates
  <2> QED
    BY <1>1, <2>1, NetWith
<1>3. NetOK(net') /\ Len(net'.sockets) <= MaxSockets
  <2>1. /\ net' \in NetStates /\ net'.room = net.room \ {s}
        /\ net'.connecting = 0 /\ net'.socket = net.socket
        /\ Len(net'.sockets) = Len(net.sockets)
        /\ DOMAIN net'.sockets = DOMAIN net.sockets
        /\ \A t \in DOMAIN net.sockets : t # s => net'.sockets[t] = net.sockets[t]
    BY <1>1, <1>2 DEF IsWith
  <2>2. NetOK(net')
    BY <1>1, <2>1, Facts DEF NetOK
  <2> QED
    BY <2>1, <2>2 DEF ClientInv
<1>4. \A t \in DOMAIN net.sockets : ~IsOpen(net', t)
  BY <1>1, <1>2, Facts DEF IsWith, NetOK, IsOpen
<1>5. /\ DOMAIN net.sockets \subseteq DOMAIN net'.sockets
      /\ \A t \in net.room : IsOpen(net', t) => t \in net'.room
  BY <1>2, <1>4, Facts DEF IsWith, NetOK
<1>6. \A c \in DOMAIN calls :
        /\ CallOK(net', After(net')[c]) /\ Changes(calls[c], After(net')[c])
        /\ ~After(net')[c].attached
  <2>1. \A c \in DOMAIN calls :
          /\ CallOK(net', After(net')[c]) /\ Changes(calls[c], After(net')[c])
          /\ After(net')[c].attached => IsOpen(net', After(net')[c].sock)
    BY <1>1, <1>3, <1>5, AfterOK DEF SharedOrClosed
  <2>2. DOMAIN net'.sockets = DOMAIN net.sockets
    BY <1>2 DEF IsWith
  <2> QED
    BY <1>4, <2>1, <2>2 DEF CallOK, IsOpen
<1>7. PICK lost \in SUBSET Running :
        calls' = [c \in DOMAIN calls |->
                    IF c \in lost THEN [After(net')[c] EXCEPT !.work = "over"]
                    ELSE After(net')[c]]
  BY DEF Drop
<1>8. ASSUME NEW c \in DOMAIN calls
      PROVE  CallOK(net', calls'[c]) /\ Changes(calls[c], calls'[c])
  <2> DEFINE x == After(net')[c]
  <2>1. CallOK(net', x) /\ Changes(calls[c], x) /\ ~x.attached
    BY <1>6
  <2>2. calls'[c] = IF c \in lost THEN [x EXCEPT !.work = "over"] ELSE x
    BY <1>7
  <2> HIDE DEF x
  <2>3. CASE c \in lost
    <3>1. x \in Call /\ "over" \in WorkStates
      BY <2>1 DEF CallOK, WorkStates
    <3>2. calls'[c] = [x EXCEPT !.work = "over"]
      BY <2>2, <2>3
    <3>3. /\ calls'[c] \in Call /\ Same(calls'[c], x) /\ calls'[c].at = x.at
          /\ calls'[c].sock = x.sock /\ calls'[c].attached = x.attached
          /\ calls'[c].outcome = x.outcome
      BY <3>1, <3>2, Works
    <3> QED
      BY <2>1, <3>3 DEF CallOK, Changes, Same
  <2> QED
    BY <2>1, <2>2, <2>3
<1>9. calls' = [c \in DOMAIN calls |-> calls'[c]] /\ aborted' \subseteq DOMAIN calls
  BY <1>1, <1>7 DEF ClientInv
<1> QED
  BY <1>3, <1>8, <1>9, Keeps

LEMMA SessionClears ==
  ASSUME ClientInv, SessionCleared
  PROVE  ClientStep /\ Len(calls') = Len(calls)
<1>1. net' = CloseStreamingSocket(net) /\ calls' = After(net') /\ aborted' = aborted
  BY DEF SessionCleared
<1>2. /\ NetOK(net') /\ Len(net'.sockets) = Len(net.sockets)
      /\ \A s \in DOMAIN net.sockets : net'.sockets[s] = "closed"
  BY <1>1, Facts, CloseKeeps
<1>3. DOMAIN net'.sockets = DOMAIN net.sockets
  BY <1>2, Facts, NetFacts
<1>4. \A s \in net.room : ~IsOpen(net', s)
  BY <1>2, Facts DEF IsOpen, NetOK
<1>5. SharedOrClosed(net')
  BY <1>2, Facts, NetFacts DEF SharedOrClosed, NetOK
<1> QED
  BY <1>1, <1>2, <1>3, <1>4, <1>5, Cuts DEF ClientInv

LEMMA TokenRefreshes ==
  ASSUME ClientInv, TokenRefreshed
  PROVE  ClientStep /\ Len(calls') = Len(calls)
<1> DEFINE m == CloseStreamingSocket(net)
<1>1. /\ net' = ConnectStreamingSocket(m) /\ Len(net'.sockets) <= MaxSockets
      /\ calls' = After(net') /\ aborted' = aborted
  BY DEF TokenRefreshed
<1>2. /\ NetOK(m) /\ Len(m.sockets) = Len(net.sockets)
      /\ \A s \in DOMAIN net.sockets : m.sockets[s] = "closed"
  BY Facts, CloseKeeps
<1>3. m.socket = 0 /\ m.connecting = 0 /\ DOMAIN m.sockets = DOMAIN net.sockets
  <2>1. m.socket = 0 /\ m.connecting = 0
    BY Facts DEF CloseStreamingSocket, NetOK, NetStates
  <2> QED
    BY <1>2, <2>1, Facts, NetFacts
<1> HIDE DEF m
<1>4. net'.sockets = Append(m.sockets, "connecting")
  BY <1>1, <1>3 DEF ConnectStreamingSocket, IsOpen, Opened, Closed
<1>5. /\ DOMAIN net.sockets \subseteq DOMAIN net'.sockets
      /\ \A s \in DOMAIN net.sockets : net'.sockets[s] = "closed"
  BY <1>2, <1>3, <1>4, NetFacts, Appended DEF SocketStates
<1>6. NetOK(net')
  BY <1>1, <1>2, ConnectKeeps
<1>7. \A s \in net.room : ~IsOpen(net', s)
  BY <1>5, Facts DEF IsOpen, NetOK
<1>8. SharedOrClosed(net')
  BY <1>5, Facts, NetFacts DEF SharedOrClosed, NetOK
<1> QED
  BY <1>1, <1>5, <1>6, <1>7, <1>8, Cuts

LEMMA ConnectionSteps ==
  ASSUME ClientInv, Connection
  PROVE  ClientStep /\ Len(calls') = Len(calls) /\ aborted' = aborted
<1>1. aborted' = aborted
  BY DEF Connection, Connect, Join, Refuse, ConnectError, Drop, TokenRefreshed,
         SessionCleared
<1> QED
  BY <1>1, Connects, Joins, Refuses, ConnectErrors, Drops, TokenRefreshes,
     SessionClears DEF Connection

-----------------------------------------------------------------------------
(* The server.                                                             *)

\* A step that changes one call and nothing else.
LEMMA OneCall ==
  ASSUME ClientInv, NEW c \in DOMAIN calls, NEW x, calls' = [calls EXCEPT ![c] = x],
         CallOK(net, x), Changes(calls[c], x), UNCHANGED <<net, aborted>>
  PROVE  ClientStep /\ Len(calls') = Len(calls)
<1>1. calls' = [d \in DOMAIN calls |-> IF d = c THEN x ELSE calls[d]]
  BY Facts
<1>2. /\ calls' = [d \in DOMAIN calls |-> calls'[d]]
      /\ \A d \in DOMAIN calls :
           CallOK(net', calls'[d]) /\ Changes(calls[d], calls'[d])
  BY <1>1, Facts, Unchanged
<1>3. NetOK(net') /\ Len(net'.sockets) <= MaxSockets /\ aborted' \subseteq DOMAIN calls
  BY DEF ClientInv
<1> QED
  BY <1>2, <1>3, Keeps

\* Work that is over leaves the call well, provided that whoever listens to
\* it as emitStream does hears of it.
LEMMA AnsweredOK ==
  ASSUME ClientInv, NEW c \in DOMAIN calls, calls[c].work = "running",
         NEW outcome \in {"complete", "error", "interrupted"}
  PROVE  CallOK(net, Answered(c, outcome)) /\ Changes(calls[c], Answered(c, outcome))
<1> DEFINE w    == [calls[c] EXCEPT !.work = "over"]
           over == [w EXCEPT !.attached = FALSE]
           e    == Ended(over, outcome)
<1>0. calls[c] \in Call /\ CallOK(net, calls[c]) /\ "over" \in WorkStates
      /\ outcome \in Outcomes
  BY Facts DEF WorkStates, Outcomes
<1>1. /\ w \in Call /\ Same(w, calls[c]) /\ w.at = calls[c].at
      /\ w.sock = calls[c].sock /\ w.attached = calls[c].attached
  BY <1>0, Works
<1>2. over = [calls[c] EXCEPT !.work = "over", !.attached = FALSE]
  BY <1>0 DEF Call
<1>3. Answered(c, outcome) = IF Hears(c) THEN e ELSE over
  BY <1>2, Zenon DEF Answered
<1> HIDE DEF w
<1>4. /\ over \in Call /\ Same(over, w) /\ over.attached = FALSE /\ over.at = w.at
      /\ over.sock = w.sock
  BY <1>1, Detached
<1> HIDE DEF over
<1>5. /\ e \in Call /\ Same(e, over) /\ e.at = "ended" /\ e.outcome = outcome
      /\ e.attached = over.attached
  BY <1>0, <1>4, Ends
<1> HIDE DEF e
<1>6. CASE Hears(c)
  BY <1>0, <1>1, <1>3, <1>4, <1>5, <1>6 DEF CallOK, Changes, Same, Answers
<1>7. CASE ~Hears(c)
  <2>1. ~(calls[c].kind = "emit" /\ calls[c].at = "listening")
    BY <1>0, <1>7 DEF CallOK, Hears, Listening
  <2> QED
    BY <1>0, <1>1, <1>3, <1>4, <1>7, <2>1 DEF CallOK, Changes, Same
<1> QED
  BY <1>6, <1>7

\* Work that ends untold was not attached.
LEMMA OverOK ==
  ASSUME ClientInv, NEW c \in DOMAIN calls, ~calls[c].attached
  PROVE  LET x == [calls[c] EXCEPT !.work = "over"]
         IN  CallOK(net, x) /\ Changes(calls[c], x)
<1> DEFINE x == [calls[c] EXCEPT !.work = "over"]
<1>1. calls[c] \in Call /\ CallOK(net, calls[c]) /\ "over" \in WorkStates
  BY Facts DEF WorkStates
<1>2. /\ x \in Call /\ Same(x, calls[c]) /\ x.at = calls[c].at
      /\ x.sock = calls[c].sock /\ x.attached = calls[c].attached
      /\ x.outcome = calls[c].outcome
  BY <1>1, Works
<1> HIDE DEF x
<1>3. CallOK(net, x) /\ Changes(calls[c], x)
  BY <1>1, <1>2 DEF CallOK, Changes, Same
<1> QED
  BY <1>3 DEF x

LEMMA TakesUp ==
  ASSUME ClientInv, NEW c \in DOMAIN calls, TakeUp(c)
  PROVE  ClientStep /\ Len(calls') = Len(calls)
<1>1. PICK work \in {"running", "dropped"} :
        /\ calls[c].attached => (work = "running" <=> calls[c].sock \in net.room)
        /\ calls' = [calls EXCEPT ![c].work = work]
  BY DEF TakeUp
<1> DEFINE x == [calls[c] EXCEPT !.work = work]
<1>2. calls[c] \in Call /\ CallOK(net, calls[c]) /\ work \in WorkStates
  BY Facts DEF WorkStates
<1>3. /\ x \in Call /\ Same(x, calls[c]) /\ x.at = calls[c].at /\ x.work = work
      /\ x.sock = calls[c].sock /\ x.attached = calls[c].attached
      /\ x.outcome = calls[c].outcome
  BY <1>2, Works
<1>4. calls' = [calls EXCEPT ![c] = x]
  BY <1>1
<1> HIDE DEF x
<1>5. CallOK(net, x) /\ Changes(calls[c], x)
  BY <1>1, <1>2, <1>3 DEF CallOK, Changes, Same
<1>6. UNCHANGED <<net, aborted>>
  BY DEF TakeUp
<1> QED
  BY <1>4, <1>5, <1>6, OneCall

LEMMA Finishes ==
  ASSUME ClientInv, NEW c \in DOMAIN calls, Finish(c)
  PROVE  ClientStep /\ Len(calls') = Len(calls)
<1> DEFINE w == [calls[c] EXCEPT !.work = "over"]
           x == [w EXCEPT !.attached = FALSE]
<1>1. CASE \E outcome \in {"complete", "error"} :
             calls' = [calls EXCEPT ![c] = Answered(c, outcome)]
  BY <1>1, AnsweredOK, OneCall DEF Finish
<1>2. CASE /\ calls[c].kind = "run"
           /\ calls' = [calls EXCEPT ![c].work = "over", ![c].attached = FALSE]
  <2>1. calls[c] \in Call /\ CallOK(net, calls[c]) /\ "over" \in WorkStates
    BY Facts DEF WorkStates
  <2>2. /\ w \in Call /\ Same(w, calls[c]) /\ w.at = calls[c].at
        /\ w.sock = calls[c].sock /\ w.outcome = calls[c].outcome
    BY <2>1, Works
  <2>3. calls' = [calls EXCEPT ![c] = x]
    BY <1>2, <2>1, Facts
  <2> HIDE DEF w
  <2>4. /\ x \in Call /\ Same(x, w) /\ x.at = w.at /\ x.sock = w.sock
        /\ x.outcome = w.outcome /\ x.attached = FALSE
    BY <2>2, Detached
  <2> HIDE DEF x
  <2>5. CallOK(net, x) /\ Changes(calls[c], x)
    BY <1>2, <2>1, <2>2, <2>4 DEF CallOK, Changes, Same
  <2> QED
    BY <2>3, <2>5, OneCall DEF Finish
<1> QED
  BY <1>1, <1>2 DEF Finish

LEMMA AbortsIfUserGone ==
  ASSUME ClientInv, NEW c \in DOMAIN calls, AbortIfUserGone(c)
  PROVE  ClientStep /\ Len(calls') = Len(calls)
<1> DEFINE x == [calls[c] EXCEPT !.work = "over"]
<1>1. CallOK(net, x) /\ Changes(calls[c], x)
  BY OverOK DEF AbortIfUserGone
<1>2. calls' = [calls EXCEPT ![c] = x] /\ UNCHANGED <<net, aborted>>
  BY DEF AbortIfUserGone
<1> HIDE DEF x
<1> QED
  BY <1>1, <1>2, OneCall

LEMMA Restarts ==
  ASSUME ClientInv, Restart
  PROVE  ClientStep /\ Len(calls') = Len(calls)
<1>1. PICK some \in (SUBSET Running) \ {{}} :
        calls' = [c \in DOMAIN calls |->
                    IF c \notin some THEN calls[c]
                    ELSE IF calls[c].attached THEN Answered(c, "interrupted")
                    ELSE [calls[c] EXCEPT !.work = "over"]]
  BY DEF Restart
<1>2. UNCHANGED <<net, aborted>>
  BY DEF Restart
<1>3. ASSUME NEW c \in DOMAIN calls
      PROVE  CallOK(net, calls'[c]) /\ Changes(calls[c], calls'[c])
  <2>1. CASE c \notin some
    BY <1>1, <2>1, Facts, Unchanged
  <2>2. CASE c \in some /\ calls[c].attached
    <3>1. calls[c].work = "running" /\ calls'[c] = Answered(c, "interrupted")
      BY <1>1, <2>2 DEF Running
    <3> QED
      BY <3>1, AnsweredOK
  <2>3. CASE c \in some /\ ~calls[c].attached
    <3>1. calls'[c] = [calls[c] EXCEPT !.work = "over"]
      BY <1>1, <2>3
    <3> QED
      BY <2>3, <3>1, OverOK
  <2> QED
    BY <2>1, <2>2, <2>3
<1>4. /\ calls' = [c \in DOMAIN calls |-> calls'[c]]
      /\ NetOK(net') /\ Len(net'.sockets) <= MaxSockets /\ aborted' \subseteq DOMAIN calls
      /\ \A c \in DOMAIN calls :
           CallOK(net', calls'[c]) /\ Changes(calls[c], calls'[c])
  BY <1>1, <1>2, <1>3 DEF ClientInv
<1> QED
  BY <1>4, Keeps

LEMMA ServerSteps ==
  ASSUME ClientInv, Server
  PROVE  ClientStep /\ Len(calls') = Len(calls) /\ aborted' = aborted
<1>1. aborted' = aborted
  BY DEF Server, TakeUp, Finish, AbortIfUserGone, Restart
<1> QED
  BY <1>1, TakesUp, Finishes, AbortsIfUserGone, Restarts DEF Server

-----------------------------------------------------------------------------
(* The start, and what the invariant says.                                 *)

LEMMA ClientStarts ==
  ASSUME ClientInit
  PROVE  ClientInv
<1>1. net = [sockets |-> <<>>, room |-> {}, socket |-> 0, connecting |-> 0]
      /\ calls = <<>> /\ aborted = {}
  BY DEF ClientInit
<1>2. NetOK(net) /\ Len(net.sockets) = 0
  BY <1>1 DEF NetOK, NetStates
<1>3. calls \in Seq(Call) /\ Len(calls) = 0 /\ DOMAIN calls = {}
  BY <1>1
<1> QED
  BY <1>1, <1>2, <1>3, StreamClientAssumption DEF ClientInv, OwnController

LEMMA ClientMeans ==
  ASSUME ClientInv
  PROVE  ClientTypeOK /\ OneConnection /\ EmitsAreTold
<1>1. ClientTypeOK
  BY Facts, NetFacts DEF ClientInv, ClientTypeOK, NetOK, IsOpen, CallOK
<1>2. OneConnection
  BY Facts, NetFacts DEF OneConnection, OneSocket, PromiseIsLive, NetOK
<1>3. EmitsAreTold
  <2> SUFFICES ASSUME NEW c \in DOMAIN calls
               PROVE  /\ calls[c].kind = "emit" /\ Listening(c) =>
                           /\ calls[c].attached
                           /\ IsOpen(net, calls[c].sock)
                           /\ calls[c].work # "over"
                           /\ calls[c].work = "running" =>
                                calls[c].sock \in net.room
                      /\ Waiting(c) =>
                           /\ calls[c].sock = net.connecting
                           /\ net.sockets[calls[c].sock] = "connecting"
    BY DEF EmitsAreTold
  <2>1. CallOK(net, calls[c]) /\ NetOK(net)
    BY Facts
  <2>2. 0 \notin DOMAIN net.sockets
    BY <2>1, NetFacts
  <2> QED
    BY <2>1, <2>2 DEF Listening, Waiting, CallOK, NetOK
<1> QED
  BY <1>1, <1>2, <1>3
=============================================================================
