------------------------------ MODULE SdkSandbox ------------------------------
(***************************************************************************)
(* What a program does with a Sandbox of the Go SDK (sdks/go/sandbox.go):  *)
(* file requests, ExecStream, OpenTerminal with OnData, WatchFiles,        *)
(* OnPortOpen and Close, over one WSTransport.  A listener is one such     *)
(* use: the handlers it registers and the messages the peer has for it.    *)
(*                                                                         *)
(* The messages for a listener are numbered.  Those of a command are its   *)
(* output and, as the last one, its exit.  What the peer does for one      *)
(* connection (a command, a terminal, a watch) it does not do for the next *)
(* one; port events go to every connection.                                *)
(***************************************************************************)
EXTENDS SdkTransport

CONSTANTS
  MaxUses,  \* bound: requests and listeners that are ever started
  Chunks,   \* messages for each listener, the exit of a command not counted
  Cap       \* the buffer of ExecStream's channel, 64 in the code

ASSUME SandboxAssumption == MaxUses \in Nat /\ Chunks \in Nat /\ Cap \in Nat \ {0}

VARIABLES
  stage,   \* listener -> "idle", "registered", "open", "failed", "ended"
  served,  \* the listeners the peer has something to do for
  next,    \* listener -> the number of the next message for it
  buf,     \* listener -> ExecStream's channel
  got      \* listener -> what the caller received, in order

listenVars == <<stage, served, next, buf, got>>
vars == <<transportVars, listenVars>>

Exit == Chunks + 1
FinalItem(l) == IF Kind[l] = "exec" THEN Exit ELSE Chunks
Stages == {"idle", "registered", "open", "failed", "ended"}

TypeOK ==
  /\ TransportTypeOK
  /\ stage \in [Listeners -> Stages]
  /\ served \subseteq Listeners
  /\ next \in [Listeners -> 1 .. Exit + 1]
  /\ buf \in [Listeners -> Seq(1 .. Exit)]
  /\ got \in [Listeners -> Seq(1 .. Exit)]
  /\ \A l \in Listeners :
       /\ Len(buf[l]) <= Cap
       /\ Kind[l] \in {"exec", "data"} => Len(got[l]) <= Exit

Init ==
  /\ TransportInit
  /\ stage = [l \in Listeners |-> "idle"]
  /\ served = {}
  /\ next = [l \in Listeners |-> 1]
  /\ buf = [l \in Listeners |-> <<>>]
  /\ got = [l \in Listeners |-> <<>>]

-------------------------------------------------------------------------------
\* ensureWS: the first caller connects, under wsMu; a failed dial changes
\* nothing.  From then on s.ws is set until Close, whatever becomes of it.
EnsureWS ==
  /\ link = "none" /\ Connected
  /\ UNCHANGED listenVars

HasTransport == link # "none" /\ closer = "idle"

MayStart == Cardinality({r \in Requests : call[r] # "idle"}
                        \cup {l \in Listeners : stage[l] # "idle"}) < MaxUses

StaysConnected ==
  UNCHANGED <<link, worker, workerVars, closer, requestVars, msg, todo, losses, owed>>

\* Send of the message that makes the peer start: on a connection whose loss
\* has not been noticed it is lost.
Sends(l) ==
  /\ link \in {"up", "lost"}
  /\ served' = IF link = "up" THEN served \cup {l} ELSE served

\* ExecStream and WatchFiles register first and send then.
Registers(l) ==
  /\ stage[l] = "idle" /\ Kind[l] \in {"exec", "files"} /\ HasTransport /\ MayStart
  /\ handlers' = Registered(l)
  /\ stage' = [stage EXCEPT ![l] = "registered"]
  /\ StaysConnected /\ UNCHANGED <<served, next, buf, got>>

StartSends(l) ==
  /\ stage[l] = "registered" /\ Kind[l] # "data"
  /\ Sends(l)
  /\ stage' = [stage EXCEPT ![l] = "open"]
  /\ StaysConnected /\ UNCHANGED <<handlers, next, buf, got>>

\* WatchFiles cleans up when the send fails, ExecStream does not.
StartFails(l) ==
  /\ stage[l] = "registered" /\ Kind[l] # "data" /\ link # "up"
  /\ stage' = [stage EXCEPT ![l] = "failed"]
  /\ handlers' = IF Kind[l] = "files" THEN Unregistered(l) ELSE handlers
  /\ StaysConnected /\ UNCHANGED <<served, next, buf, got>>

\* OpenTerminal sends; its output has no handler before OnData.
OpenTerminal(l) ==
  /\ stage[l] = "idle" /\ Kind[l] = "data" /\ HasTransport /\ MayStart
  /\ Sends(l)
  /\ stage' = [stage EXCEPT ![l] = "registered"]
  /\ StaysConnected /\ UNCHANGED <<handlers, next, buf, got>>

OnData(l) ==
  /\ stage[l] = "registered" /\ Kind[l] = "data"
  /\ handlers' = Registered(l)
  /\ stage' = [stage EXCEPT ![l] = "open"]
  /\ StaysConnected /\ UNCHANGED <<served, next, buf, got>>

\* OnPortOpen only listens: the peer sends port events to everyone.
OnPortOpen(l) ==
  /\ stage[l] = "idle" /\ Kind[l] = "ports" /\ HasTransport /\ MayStart
  /\ handlers' = Registered(l)
  /\ stage' = [stage EXCEPT ![l] = "open"]
  /\ served' = served \cup {l}
  /\ StaysConnected /\ UNCHANGED <<next, buf, got>>

\* A CancelFunc, or Terminal.Close: nothing stops a caller from calling it
\* twice.  That of WatchFiles also asks the peer to stop.
Cancel(l) ==
  /\ stage[l] \in {"open", "ended"} /\ Kind[l] # "exec"
  /\ handlers' = Unregistered(l)
  /\ stage' = [stage EXCEPT ![l] = "ended"]
  /\ served' = IF Kind[l] = "files" /\ link = "up" THEN served \ {l} ELSE served
  /\ StaysConnected /\ UNCHANGED <<next, buf, got>>

-------------------------------------------------------------------------------
\* The read loop takes the next message the peer has for l.
TypeOfMessage(l, n) ==
  CASE Kind[l] = "exec"  -> IF n = Exit THEN {"exit"} ELSE {"stdout", "stderr"}
    [] Kind[l] = "data"  -> {"stdout"}
    [] Kind[l] = "files" -> {"fsEvent"}
    [] Kind[l] = "ports" -> {"portOpen"}

Receives(l) ==
  /\ l \in served /\ next[l] <= FinalItem(l)
  /\ \E t \in TypeOfMessage(l, next[l]) :
       ReadMessage([type |-> t, to |-> l, item |-> next[l]])
  /\ next' = [next EXCEPT ![l] = @ + 1]
  /\ UNCHANGED <<link, workerVars, closer, requestVars, handlers, owed, losses,
                 stage, served, buf, got>>

\* A handler of a command or a terminal compares the channel of the message.
Wants(l) == Kind[l] \in {"files", "ports"} \/ msg.to = l

NextHandler == /\ todo' = Tail(todo)
               /\ UNCHANGED <<link, worker, workerVars, closer, requestVars, msg, owed,
                              losses, served, next>>

HandlerSkips ==
  /\ worker = "dispatch" /\ todo # <<>> /\ ~Wants(Head(todo))
  /\ NextHandler /\ UNCHANGED <<handlers, stage, buf, got>>

\* A callback runs to its end in the read loop.
HandlerCallsBack ==
  /\ worker = "dispatch" /\ todo # <<>>
  /\ LET l == Head(todo) IN
       /\ Wants(l) /\ Kind[l] # "exec"
       /\ got' = [got EXCEPT ![l] = Append(@, msg.item)]
  /\ NextHandler /\ UNCHANGED <<handlers, stage, buf>>

\* Mutant: events that find the channel full are dropped.
HandlerPushes_Drop ==
  /\ worker = "dispatch" /\ todo # <<>>
  /\ LET l == Head(todo) IN
       /\ Wants(l) /\ Kind[l] = "exec"
       /\ buf' = [buf EXCEPT ![l] = IF Len(@) < Cap THEN Append(@, msg.item) ELSE @]
       /\ IF msg.type = "exit"
          THEN handlers' = Unregistered(l) /\ stage' = [stage EXCEPT ![l] = "ended"]
          ELSE UNCHANGED <<handlers, stage>>
  /\ NextHandler /\ UNCHANGED got

\* ExecStream's handlers send to its channel, and the read loop waits while it
\* is full.  The exit unregisters all three and closes the channel.
HandlerPushes ==
  /\ worker = "dispatch" /\ todo # <<>>
  /\ LET l == Head(todo) IN
       /\ Wants(l) /\ Kind[l] = "exec" /\ Len(buf[l]) < Cap
       /\ buf' = [buf EXCEPT ![l] = Append(@, msg.item)]
       /\ IF msg.type = "exit"
          THEN handlers' = Unregistered(l) /\ stage' = [stage EXCEPT ![l] = "ended"]
          ELSE UNCHANGED <<handlers, stage>>
  /\ NextHandler /\ UNCHANGED got

\* The caller of ExecStream takes an event from the channel.
CallerTakes(l) ==
  /\ buf[l] # <<>>
  /\ got' = [got EXCEPT ![l] = Append(@, Head(buf[l]))]
  /\ buf' = [buf EXCEPT ![l] = Tail(@)]
  /\ UNCHANGED <<transportVars, stage, served, next>>

\* The peer's work for this connection is gone with it.
ConnectionLost ==
  /\ LoseLink
  /\ served' = {l \in served : Kind[l] = "ports"}
  /\ UNCHANGED <<stage, next, buf, got>>

Close ==
  /\ CloseSteps
  /\ served' = IF link' = "closed" THEN {} ELSE served
  /\ UNCHANGED <<stage, next, buf, got>>

-------------------------------------------------------------------------------
\* A request starts once ensureWS has returned the transport.
Request(r) == /\ link # "none" /\ (call[r] = "idle" => MayStart)
              /\ RequestSteps(r) /\ UNCHANGED listenVars
Cancelled(r) == RequestCancelled(r) /\ UNCHANGED listenVars
Answer(r) == ReadAnswer(r) /\ UNCHANGED listenVars

Start(l) == Registers(l) \/ StartSends(l) \/ StartFails(l) \/ OpenTerminal(l)
            \/ OnData(l) \/ OnPortOpen(l)

ReadLoop ==
  \/ (ReadTop \/ ReadFails \/ Dispatched) /\ UNCHANGED listenVars
  \/ HandlerSkips \/ HandlerCallsBack \/ HandlerPushes

Reconnect == ReconnectSteps /\ UNCHANGED listenVars

Next ==
  \/ EnsureWS \/ ReadLoop \/ Reconnect \/ ConnectionLost \/ Close
  \/ \E r \in Requests : Request(r) \/ Cancelled(r) \/ Answer(r)
  \/ \E l \in Listeners : Start(l) \/ Cancel(l) \/ Receives(l) \/ CallerTakes(l)

Spec == Init /\ [][Next]_vars

\* Goroutines run; the peer answers what it received; the caller of
\* ExecStream keeps receiving.  Nothing is assumed of dials, cancels or Close.
\* What each of these disjunctions can do is finite, so fairness to one is
\* fairness to every request and every listener.
Fairness ==
  /\ WF_vars(ReadLoop) /\ WF_vars(Reconnect)
  /\ WF_vars(\E r \in Requests : Request(r))
  /\ WF_vars(\E r \in Requests : Answer(r))
  /\ WF_vars(\E l \in Listeners : CallerTakes(l) \/ Receives(l))

FairSpec == Spec /\ Fairness

-------------------------------------------------------------------------------
(* Properties *)

Received(l) == got[l] \o buf[l]

\* What the caller of a command or a terminal receives is what was sent, in
\* order and without a gap, a command's from its first message on; the exit,
\* the last message, is therefore not seen before all output
\* (sandbox.go, ExecStream; ws.go, handleMessage).
OutputInOrder ==
  \A l \in Listeners : Kind[l] \in {"exec", "data"} =>
    LET s == Received(l) IN
      /\ \A i \in 1 .. Len(s) - 1 : s[i + 1] = s[i] + 1
      /\ Kind[l] = "exec" /\ s # <<>> => s[1] = 1

\* A listener that was started and has neither ended nor been cancelled has
\* all its handlers registered (ws.go, On and the function it returns).
OpenListenerIsHeard ==
  \A l \in Listeners : stage[l] = "open" =>
    \A t \in TypesOf(Kind[l]) : l \in ToSet(handlers[t])

\* A request the peer received returns, unless the connection it was sent on
\* is lost or Close is called (ws.go, Request and readLoop).
RequestEnds ==
  \A r \in Requests :
    (call[r] = "sent" /\ r \in owed)
      ~> (call[r] \in Returned \/ link # "up" \/ closer # "idle")

\* A lost connection is replaced, or given up for good after so many attempts
\* (ws.go, attemptReconnect; README "auto-reconnect").
LossIsSettled == (link = "lost") ~> (link = "up" \/ worker = "stopped")
===============================================================================
