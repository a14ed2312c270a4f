----------------------------- MODULE SdkTransport -----------------------------
(***************************************************************************)
(* The WebSocket transport of the Go SDK (sdks/go/transport/ws.go).  One   *)
(* WSTransport is shared by the goroutines that call Request, by those     *)
(* that register handlers with On, by the goroutine that calls Close, and  *)
(* by the read loop with the reconnects it spawns: these follow one        *)
(* another, so they are one process, `worker'.                             *)
(*                                                                         *)
(* Its fields url, token and mu have no state of interest.  The fields     *)
(* conn, done, closeOnce, intentionallyClosed and reconnectAttempts are    *)
(* read and written without a lock: each read or write is a step.  A `done'*)
(* channel is the number of the channel that was made.                     *)
(*                                                                         *)
(* The other end (the agent's proxy and the sidecar behind it) is external:*)
(* it answers a request with its id, in any order, as the sidecar does,    *)
(* which handles every message in a goroutine of its own.                  *)
(***************************************************************************)
EXTENDS Integers, Sequences, FiniteSets, SequencesExt

CONSTANTS
  MaxRequests,           \* bound: calls of Request
  Listeners,             \* handlers, or groups of handlers, registered with On
  Kind,                  \* listener -> which function literal it registers
  MaxReconnectAttempts,  \* 5 in NewWSTransport
  MaxLosses,             \* bound: how often the network loses the connection
  None

Types == {"stdout", "stderr", "exit", "fsEvent", "portOpen"}
Kinds == {"exec", "data", "files", "ports"}

Requests == 1 .. MaxRequests   \* in the order in which they start

ASSUME SdkAssumption ==
  /\ MaxRequests \in Nat
  /\ None \notin Requests \cup Listeners
  /\ Kind \in [Listeners -> Kinds]
  /\ MaxReconnectAttempts \in Nat /\ MaxLosses \in Nat

VARIABLES
  link,       \* ws.conn: "none" (nil), "up", "lost" (peer or network), "closed"
  worker,     \* the goroutine in readLoop or attemptReconnect, and where it is
  flag,       \* ws.intentionallyClosed
  attempts,   \* ws.reconnectAttempts
  done,       \* ws.done
  closedDones,\* the done channels that are closed
  onceUsed,   \* ws.closeOnce has run
  closer,     \* the goroutine in Close, and where it is
  nextID,     \* ws.nextID
  pending,    \* ws.pending: id -> the request whose channel is stored, or None
  call,       \* request -> where it is in Request
  id,         \* request -> the id it was given
  reply,      \* request -> the answer in pr.ch: the request it answers
  waitsOn,    \* request -> the done channel its select took
  handlers,   \* ws.handlers: type -> the registered listeners, in order
  msg,        \* the message being dispatched, or None
  todo,       \* the handlers copied for it that are still to be called
  owed,       \* the requests the peer has received on this connection
  losses      \* how often the connection was lost

workerVars == <<flag, attempts, done, closedDones, onceUsed>>
requestVars == <<nextID, pending, call, id, reply, waitsOn>>
readVars == <<handlers, msg, todo>>
transportVars == <<link, worker, workerVars, closer, requestVars, readVars, owed,
                   losses>>

Ids == 0 .. MaxRequests
DoneIds == 0 .. (MaxLosses + 2) * MaxReconnectAttempts
Message == [type : Types, to : Listeners, item : Nat]

WorkerStates == {"none", "top", "read", "dispatch", "check", "sleep", "reset",
                 "renew", "dial", "adopt", "stopped"}
CallStates == {"idle", "stored", "sent", "waiting", "answered", "failed",
               "rejected", "cancelled"}
Returned == {"answered", "failed", "rejected", "cancelled"}

TransportTypeOK ==
  /\ link \in {"none", "up", "lost", "closed"}
  /\ worker \in WorkerStates
  /\ flag \in BOOLEAN /\ onceUsed \in BOOLEAN
  /\ attempts \in 0 .. MaxReconnectAttempts
  /\ done \in DoneIds /\ closedDones \subseteq DoneIds
  /\ closer \in {"idle", "flagged", "done", "closed"}
  /\ nextID \in Nat
  /\ pending \in [Ids -> Requests \cup {None}]
  /\ call \in [Requests -> CallStates]
  /\ id \in [Requests -> Ids]
  /\ reply \in [Requests -> Requests \cup {None}]
  /\ waitsOn \in [Requests -> DoneIds]
  /\ handlers \in [Types -> Seq(Listeners)]
  /\ msg \in Message \cup {None} /\ todo \in Seq(Listeners)
  /\ owed \subseteq Requests
  /\ losses \in 0 .. MaxLosses

TransportInit ==
  /\ link = "none" /\ worker = "none"
  /\ flag = FALSE /\ onceUsed = FALSE
  /\ attempts = 0
  /\ done = 0 /\ closedDones = {}
  /\ closer = "idle"
  /\ nextID = 1
  /\ pending = [i \in Ids |-> None]
  /\ call = [r \in Requests |-> "idle"]
  /\ id = [r \in Requests |-> 0]
  /\ reply = [r \in Requests |-> None]
  /\ waitsOn = [r \in Requests |-> 0]
  /\ handlers = [t \in Types |-> <<>>]
  /\ msg = None /\ todo = <<>>
  /\ owed = {}
  /\ losses = 0

-------------------------------------------------------------------------------
(* Request *)

\* nextID.Add and pending.Store.
RequestStores(r) ==
  /\ call[r] = "idle" /\ \A q \in 1 .. r - 1 : call[q] # "idle"
  /\ id' = [id EXCEPT ![r] = nextID]
  /\ pending' = [pending EXCEPT ![nextID] = r]
  /\ nextID' = nextID + 1
  /\ call' = [call EXCEPT ![r] = "stored"]
  /\ UNCHANGED <<link, worker, workerVars, closer, reply, waitsOn, readVars,
                 owed, losses>>

\* The deferred pending.Delete of a call that returns.
Returns(r, how) ==
  /\ call' = [call EXCEPT ![r] = how]
  /\ pending' = [pending EXCEPT ![id[r]] = None]

\* A write to a connection whose loss has not been noticed may succeed.
RequestSends(r) ==
  /\ call[r] = "stored" /\ link \in {"up", "lost"}
  /\ call' = [call EXCEPT ![r] = "sent"]
  /\ owed' = IF link = "up" THEN owed \cup {r} ELSE owed
  /\ UNCHANGED <<link, worker, workerVars, closer, nextID, pending, id, reply, waitsOn,
                 readVars, losses>>

RequestSendFails(r) ==
  /\ call[r] = "stored" /\ link # "up"
  /\ Returns(r, "failed")
  /\ UNCHANGED <<link, worker, workerVars, closer, nextID, id, reply, waitsOn,
                 readVars, owed, losses>>

\* The select evaluates ws.done once.
RequestSelects(r) ==
  /\ call[r] = "sent"
  /\ waitsOn' = [waitsOn EXCEPT ![r] = done]
  /\ call' = [call EXCEPT ![r] = "waiting"]
  /\ UNCHANGED <<link, worker, workerVars, closer, nextID, pending, id, reply,
                 readVars, owed, losses>>

RequestReturns(r) ==
  /\ call[r] = "waiting"
  /\ \/ reply[r] # None /\ Returns(r, "answered")
     \/ waitsOn[r] \in closedDones /\ Returns(r, "rejected")
  /\ UNCHANGED <<link, worker, workerVars, closer, nextID, id, reply, waitsOn,
                 readVars, owed, losses>>

\* The caller's context ends.
RequestCancelled(r) ==
  /\ call[r] = "waiting"
  /\ Returns(r, "cancelled")
  /\ UNCHANGED <<link, worker, workerVars, closer, nextID, id, reply, waitsOn,
                 readVars, owed, losses>>

-------------------------------------------------------------------------------
(* On, and the function it returns *)

TypesOf(kind) ==
  CASE kind = "exec"  -> {"stdout", "stderr", "exit"}
    [] kind = "data"  -> {"stdout"}
    [] kind = "files" -> {"fsEvent"}
    [] kind = "ports" -> {"portOpen"}

Registered(l) ==
  [t \in Types |-> IF t \in TypesOf(Kind[l]) THEN Append(handlers[t], l)
                   ELSE handlers[t]]

\* Two handlers are taken for the same if %p prints the same for both: it
\* prints the code of a function literal, which all its closures share.
SamePointer(l, m) == Kind[l] = Kind[m]

\* Mutant: the first handler of the type, whatever it is.
Unregistered_First(l) ==
  [t \in Types |-> IF t \in TypesOf(Kind[l]) /\ handlers[t] # <<>> THEN Tail(handlers[t])
                   ELSE handlers[t]]

Unregistered(l) ==
  [t \in Types |-> IF t \in TypesOf(Kind[l])
                   THEN RemoveFirstMatch(handlers[t], LAMBDA m : SamePointer(l, m))
                   ELSE handlers[t]]

-------------------------------------------------------------------------------
(* readLoop and handleMessage *)

ReadTop ==
  /\ worker = "top"
  /\ worker' = IF done \in closedDones THEN "stopped" ELSE "read"
  /\ UNCHANGED <<link, workerVars, closer, requestVars, readVars, owed, losses>>

ReadFails ==
  /\ worker = "read" /\ link \in {"lost", "closed"}
  /\ worker' = "check"
  /\ UNCHANGED <<link, workerVars, closer, requestVars, readVars, owed, losses>>

\* The answer to r: an Ack, a result or an Error with its id.  No handler is
\* ever registered for the types of answers, so a late one is dropped.
ReadAnswer(r) ==
  /\ worker = "read" /\ link = "up" /\ r \in owed
  /\ owed' = owed \ {r}
  /\ LET to == pending[id[r]] IN
       IF to = None THEN UNCHANGED <<pending, reply>>
       ELSE /\ reply' = [reply EXCEPT ![to] = r]
            /\ pending' = [pending EXCEPT ![id[r]] = None]
  /\ worker' = "top"
  /\ UNCHANGED <<link, workerVars, closer, nextID, call, id, waitsOn, readVars, losses>>

\* A message for the handlers of its type: the list is copied.
ReadMessage(m) ==
  /\ worker = "read" /\ link = "up"
  /\ msg' = m /\ todo' = handlers[m.type]
  /\ worker' = "dispatch"

Dispatched ==
  /\ worker = "dispatch" /\ todo = <<>>
  /\ msg' = None /\ worker' = "top"
  /\ UNCHANGED <<link, workerVars, closer, requestVars, handlers, todo, owed, losses>>

-------------------------------------------------------------------------------
(* attemptReconnect and Connect *)

\* closeOnce.Do(func() { close(ws.done) })
CloseDoneOnce ==
  /\ onceUsed' = TRUE
  /\ closedDones' = IF onceUsed THEN closedDones ELSE closedDones \cup {done}

\* Mutant: one attempt too many.
GivesUp_Late == flag \/ attempts > MaxReconnectAttempts

GivesUp == flag \/ attempts >= MaxReconnectAttempts

ReconnectChecks ==
  /\ worker = "check"
  /\ IF GivesUp
     THEN /\ CloseDoneOnce
          /\ worker' = "stopped"
          /\ UNCHANGED attempts
     ELSE /\ attempts' = attempts + 1
          /\ worker' = "sleep"
          /\ UNCHANGED <<closedDones, onceUsed>>
  /\ UNCHANGED <<link, flag, done, closer, requestVars, readVars, owed, losses>>

ReconnectWakes ==
  /\ worker = "sleep"
  /\ worker' = IF flag THEN "stopped" ELSE "reset"
  /\ UNCHANGED <<link, workerVars, closer, requestVars, readVars, owed, losses>>

ReconnectResetsOnce ==
  /\ worker = "reset"
  /\ onceUsed' = FALSE
  /\ worker' = "renew"
  /\ UNCHANGED <<link, flag, attempts, done, closedDones, closer, requestVars, readVars,
                 owed, losses>>

ReconnectRenewsDone ==
  /\ worker = "renew"
  /\ done' = done + 1
  /\ worker' = "dial"
  /\ UNCHANGED <<link, flag, attempts, closedDones, onceUsed, closer, requestVars,
                 readVars, owed, losses>>

ReconnectDials ==
  /\ worker = "dial"
  /\ worker' = "adopt"
  /\ UNCHANGED <<link, workerVars, closer, requestVars, readVars, owed, losses>>

\* Mutant: nobody tries again.
ReconnectFails_NoRetry ==
  /\ worker = "dial"
  /\ worker' = "none"
  /\ UNCHANGED <<link, workerVars, closer, requestVars, readVars, owed, losses>>

ReconnectFails ==
  /\ worker = "dial"
  /\ worker' = "check"
  /\ UNCHANGED <<link, workerVars, closer, requestVars, readVars, owed, losses>>

\* Mutant: the ids start again with every connection.
Connected_NewIds ==
  /\ link' = "up" /\ attempts' = 0 /\ flag' = FALSE /\ worker' = "top" /\ owed' = {}
  /\ nextID' = 1
  /\ UNCHANGED <<done, closedDones, onceUsed, closer, pending, call, id, reply, waitsOn,
                 readVars, losses>>

\* The end of Connect: ws.conn is the new connection, and the read loop starts.
Connected ==
  /\ link' = "up" /\ attempts' = 0 /\ flag' = FALSE /\ worker' = "top" /\ owed' = {}
  /\ UNCHANGED <<done, closedDones, onceUsed, closer, requestVars, readVars, losses>>

ReconnectAdopts == worker = "adopt" /\ Connected

-------------------------------------------------------------------------------
(* Close *)

CloseFlags ==
  /\ closer = "idle" /\ link # "none"
  /\ flag' = TRUE
  /\ closer' = "flagged"
  /\ UNCHANGED <<link, worker, attempts, done, closedDones, onceUsed, requestVars,
                 readVars, owed, losses>>

CloseClosesDone ==
  /\ closer = "flagged"
  /\ CloseDoneOnce
  /\ closer' = IF onceUsed THEN "closed" ELSE "done"
  /\ UNCHANGED <<link, worker, flag, attempts, done, requestVars, readVars, owed, losses>>

CloseClosesConn ==
  /\ closer = "done"
  /\ link' = "closed" /\ owed' = {}
  /\ pending' = [i \in Ids |-> None]
  /\ closer' = "closed"
  /\ UNCHANGED <<worker, workerVars, nextID, call, id, reply, waitsOn, readVars, losses>>

\* The network or the peer drops the connection: what it owes is lost.
LoseLink ==
  /\ link = "up" /\ losses < MaxLosses
  /\ link' = "lost" /\ owed' = {}
  /\ losses' = losses + 1
  /\ UNCHANGED <<worker, workerVars, closer, requestVars, readVars>>

-------------------------------------------------------------------------------
RequestSteps(r) ==
  RequestStores(r) \/ RequestSends(r) \/ RequestSendFails(r) \/ RequestSelects(r)
  \/ RequestReturns(r)

ReconnectSteps ==
  \/ ReconnectChecks \/ ReconnectWakes \/ ReconnectResetsOnce \/ ReconnectRenewsDone
  \/ ReconnectDials \/ ReconnectFails \/ ReconnectAdopts

CloseSteps == CloseFlags \/ CloseClosesDone \/ CloseClosesConn
===============================================================================
