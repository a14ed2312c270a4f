---------------------------- MODULE SidecarSession ----------------------------
(***************************************************************************)
(* The WebSocket server of a sidecar (sidecar/internal/ws/server.go), its  *)
(* processes (ExecManager) and the agent's side of a connection that runs  *)
(* one command (ExecSync, agent/internal/proxy/ws_proxy.go).               *)
(*                                                                         *)
(* Every connection has a handler that sets it up and then reads it; every *)
(* message is handled by a goroutine of its own, so the messages of inbox  *)
(* are handled in any order.  A process has two goroutines that send its   *)
(* output and one that reports its exit.  A goroutine takes one step for   *)
(* each lock, write or system call that another could come between.        *)
(***************************************************************************)
EXTENDS ExecManager, FiniteSets

CONSTANTS
  Clients,      \* connections of clients, through HandleClientWS
  Calls,        \* connections of ExecSync
  None,         \* no connection
  Ops,          \* what clients ask for
  MaxRequests,  \* bound: requests of a connection
  MayStop       \* whether the sidecar may be told to stop

\* "file" is a request to read, write, list, remove or watch files.
AllOps == {"exec", "terminal", "stdin", "kill", "ping", "unknown", "file"}

ASSUME SessionAssumption ==
  /\ Clients \cap Calls = {} /\ None \notin Clients \cup Calls
  /\ Ops \subseteq AllOps
  /\ MaxRequests \in Nat
  /\ MayStop \in BOOLEAN

Conns == Clients \cup Calls

VARIABLES
  sidecar,  \* "serving", "stopping" (main.go after KillAll) or "stopped"
  active,   \* Server.active
  pc,       \* where the handler of a connection is
  open,     \* the connections whose peer is still there
  inbox,    \* requests sent to the sidecar and not handled yet
  asked,    \* requests sent so far
  sent,     \* what the sidecar wrote to each connection, in order
  owner,    \* the connection each process answers
  calls     \* ExecSync, by connection

conns == <<pc, open, active>>
queues == <<inbox, asked>>
execs == <<nextID, registered, procs, owner>>
vars == <<sidecar, conns, queues, sent, execs, calls>>

MessageTypes == {"ready", "pong", "ack", "reply", "error", "exit"} \cup Streams

\* from is the connection a message is about, for a request or a process of
\* it; why says what failed.
Message ==
  [type : MessageTypes, from : Conns, id : Nat, proc : Nat, n : Int,
   why : {"none", "unknown", "runtime", "start", "fs"}]

Request == [id : Nat, op : AllOps, to : Nat, proc : Nat]

Call ==
  [pc : {"idle", "hello", "reading", "returned", "failed"}, read : Nat,
   out : [Streams -> Nat], code : Int]

NoCall == [pc |-> "idle", read |-> 0, out |-> [s \in Streams |-> 0], code |-> 0]

TypeOK ==
  /\ ExecTypeOK
  /\ sidecar \in {"serving", "stopping", "stopped"}
  /\ active \in Conns \cup {None}
  /\ pc \in [Conns -> {"new", "accepted", "ready", "closed"}]
  /\ open \subseteq Conns
  /\ inbox \in [Conns -> SUBSET Request]
  /\ asked \in [Conns -> Nat]
  /\ sent \in [Conns -> Seq(Message)]
  /\ owner \in [ProcIds -> Conns \cup {None}]
  /\ calls \in [Calls -> Call]

Init ==
  /\ ExecInit
  /\ sidecar = "serving"
  /\ active = None
  /\ pc = [c \in Conns |-> "new"]
  /\ open = {}
  /\ inbox = [c \in Conns |-> {}]
  /\ asked = [c \in Conns |-> 0]
  /\ sent = [c \in Conns |-> <<>>]
  /\ owner = [p \in ProcIds |-> None]
  /\ calls = [c \in Calls |-> NoCall]

Msg(type, from) ==
  [type |-> type, from |-> from, id |-> 0, proc |-> 0, n |-> 0, why |-> "none"]

\* sendEnvelope: a write to a connection whose peer is gone is an error that
\* is logged.
Send(c, m) ==
  sent' = IF c \in open THEN [sent EXCEPT ![c] = Append(@, m)] ELSE sent

Mentions(c, m) == \E i \in DOMAIN sent[c] : sent[c][i] = m

\* The running sidecar.
Up == sidecar # "stopped"

-------------------------------------------------------------------------------
(* The handler of a connection.                                             *)

Advance(c, from, to) ==
  /\ Up /\ pc[c] = from
  /\ pc' = [pc EXCEPT ![c] = to]

\* A peer connects; from now on the connection is the active one.
Accept(c) ==
  /\ sidecar = "serving"
  /\ Advance(c, "new", "accepted")
  /\ open' = open \cup {c}
  /\ active' = c
  /\ calls' = IF c \in Calls THEN [calls EXCEPT ![c].pc = "hello"] ELSE calls
  /\ UNCHANGED <<sidecar, queues, sent, execs>>

\* The port detector and the watcher have been started (SidecarMonitors).
SendReady(c) ==
  /\ Advance(c, "accepted", "ready")
  /\ Send(c, Msg("ready", c))
  /\ UNCHANGED <<sidecar, open, active, queues, execs, calls>>

\* readLoop fails.  Nothing clears the active connection.
Leave(c) ==
  /\ c \notin open
  /\ Advance(c, "ready", "closed")
  /\ UNCHANGED <<sidecar, open, active, queues, sent, execs, calls>>

-------------------------------------------------------------------------------
(* Clients.                                                                 *)

Ask(c, r) ==
  /\ asked' = [asked EXCEPT ![c] = @ + 1]
  /\ inbox' = [inbox EXCEPT ![c] = @ \cup {[r EXCEPT !.id = asked[c] + 1]}]

NewRequest(op) == [id |-> 0, op |-> op, to |-> 0, proc |-> 0]

Acked(c, p) ==
  \E i \in DOMAIN sent[c] : sent[c][i].type = "ack" /\ sent[c][i].proc = p

\* The processes a request is for, and how it names them: the clients of the
\* repository leave the process id 0; others take it from the Ack.
Targets(c, op) ==
  IF op \in {"stdin", "kill"}
  THEN {[NewRequest(op) EXCEPT !.to = x[1], !.proc = x[2]] :
          x \in {y \in ProcIds \X (ProcIds \cup {0}) :
                    y[2] \in {0, y[1]} /\ Acked(c, y[1])}}
  ELSE {NewRequest(op)}

ClientAsks(c) ==
  /\ c \in Clients \cap open /\ asked[c] < MaxRequests
  /\ Mentions(c, Msg("ready", c))
  /\ \E op \in Ops : \E r \in Targets(c, op) : Ask(c, r)
  /\ UNCHANGED <<sidecar, conns, sent, execs, calls>>

\* A peer goes away: of what it sent, a part was not read yet and is lost.
HangUp(c) ==
  /\ open' = open \ {c}
  /\ \E k \in 0..asked[c] :
       inbox' = [inbox EXCEPT ![c] = {r \in @ : r.id <= k}]
  /\ UNCHANGED asked

ClientLeaves(c) ==
  /\ c \in Clients \cap open
  /\ HangUp(c)
  /\ UNCHANGED <<sidecar, pc, active, sent, execs, calls>>

-------------------------------------------------------------------------------
(* handleMessage.                                                           *)

Take(c, r) ==
  /\ Up /\ pc[c] \in {"ready", "closed"} /\ r \in inbox[c]
  /\ inbox' = [inbox EXCEPT ![c] = @ \ {r}]
  /\ UNCHANGED <<sidecar, conns, asked, calls>>

HandlePing(c, r) ==
  /\ r.op = "ping" /\ Take(c, r)
  /\ Send(active, [Msg("pong", c) EXCEPT !.id = r.id])
  /\ UNCHANGED execs

HandleUnknown(c, r) ==
  /\ r.op = "unknown" /\ Take(c, r)
  /\ Send(active, [Msg("error", c) EXCEPT !.id = r.id, !.why = "unknown"])
  /\ UNCHANGED execs

Starts(r) == r.op \in {"exec", "terminal"}

\* Start forks the command.
ExecForks(c, r) ==
  /\ Starts(r) /\ Forks(SysProcAttr(r.op = "terminal"))
  /\ Take(c, r)
  /\ Fork(nextID)
  /\ owner' = [owner EXCEPT ![nextID] = c]
  /\ UNCHANGED sent

\* It does not: there is no runtime container, or the kernel refuses.
NoRuntime(c, r) ==
  /\ Starts(r) /\ Take(c, r)
  /\ Send(c, [Msg("error", c) EXCEPT !.id = r.id, !.why = "runtime"])
  /\ UNCHANGED execs

ForkRefused(c, r) ==
  /\ Starts(r) /\ ~Forks(SysProcAttr(r.op = "terminal"))
  /\ Take(c, r)
  /\ LoseId
  /\ Send(c, [Msg("error", c) EXCEPT !.id = r.id, !.why = "start"])
  /\ UNCHANGED owner

HandleStdin(c, r) ==
  /\ r.op = "stdin" /\ Take(c, r)
  /\ IF r.proc \in registered THEN WriteStdin(r.proc, r.id) ELSE UNCHANGED procs
  /\ UNCHANGED <<sent, nextID, registered, owner>>

HandleSignal(c, r) ==
  /\ r.op = "kill" /\ Take(c, r)
  /\ IF r.proc \in registered THEN Kill(r.proc) ELSE UNCHANGED procs
  /\ UNCHANGED <<sent, nextID, registered, owner>>

\* The file handlers answer the sender.  What a watch request does to the
\* watchers is in SidecarMonitors.
HandleFile(c, r) ==
  /\ r.op = "file" /\ Take(c, r)
  /\ \/ Send(c, [Msg("reply", c) EXCEPT !.id = r.id])
     \/ Send(c, [Msg("error", c) EXCEPT !.id = r.id, !.why = "fs"])
  /\ UNCHANGED execs

Handle(c, r) ==
  \/ HandlePing(c, r) \/ HandleUnknown(c, r)
  \/ ExecForks(c, r) \/ NoRuntime(c, r) \/ ForkRefused(c, r)
  \/ HandleStdin(c, r) \/ HandleSignal(c, r) \/ HandleFile(c, r)

-------------------------------------------------------------------------------
(* handleExecStart from the fork on, and the goroutines of a process.       *)

ExecRegisters(p) ==
  /\ Up /\ Register(p)
  /\ UNCHANGED <<sidecar, conns, queues, sent, owner, calls>>

ExecAcks(p) ==
  /\ Up /\ procs[p].pc = "started"
  /\ Goto(p, "streaming")
  /\ Send(owner[p], [Msg("ack", owner[p]) EXCEPT !.proc = p])
  /\ UNCHANGED <<sidecar, conns, queues, nextID, registered, owner, calls>>

\* Mutant: the end of a pipe is taken for a chunk.
StreamReads_Blind(p, s) ==
  /\ Up /\ procs[p].pc = "streaming" /\ ~procs[p].held[s] /\ ~procs[p].eof[s]
  /\ procs' = [procs EXCEPT ![p].piped[s] = @ - 1, ![p].held[s] = TRUE]
  /\ UNCHANGED <<sidecar, conns, queues, sent, nextID, registered, owner, calls>>

\* streamOutputTo: one Read, then the write of what it returned.
StreamReads(p, s) ==
  /\ Up /\ procs[p].pc = "streaming" /\ ~procs[p].held[s] /\ ~procs[p].eof[s]
  /\ \/ /\ procs[p].piped[s] > 0
        /\ procs' = [procs EXCEPT ![p].piped[s] = @ - 1, ![p].held[s] = TRUE]
     \/ /\ procs[p].piped[s] = 0 /\ ~Writers(p)
        /\ procs' = [procs EXCEPT ![p].eof[s] = TRUE]
  /\ UNCHANGED <<sidecar, conns, queues, sent, nextID, registered, owner, calls>>

\* Mutant: output goes to the active connection, as events do.
StreamSends_Active(p, s) ==
  /\ Up /\ procs[p].held[s]
  /\ procs' = [procs EXCEPT ![p].held[s] = FALSE]
  /\ Send(active, [Msg(s, owner[p]) EXCEPT
                     !.proc = p, !.n = procs[p].written[s] - procs[p].piped[s]])
  /\ UNCHANGED <<sidecar, conns, queues, nextID, registered, owner, calls>>

\* The chunk that is held is the first one not sent.
StreamSends(p, s) ==
  /\ Up /\ procs[p].held[s]
  /\ procs' = [procs EXCEPT ![p].held[s] = FALSE]
  /\ Send(owner[p], [Msg(s, owner[p]) EXCEPT
                       !.proc = p, !.n = procs[p].written[s] - procs[p].piped[s]])
  /\ UNCHANGED <<sidecar, conns, queues, nextID, registered, owner, calls>>

\* Mutant: only stdout is waited for.
ExitIsDue_StdoutOnly(p) ==
  procs[p].pc = "streaming" /\ procs[p].done /\ procs[p].eof["stdout"]

\* The process is done and both streams are at their end.
ExitIsDue(p) ==
  /\ procs[p].pc = "streaming" /\ procs[p].done
  /\ \A s \in Streams : procs[p].eof[s]

\* Mutant: the goroutine gives up when the connection is gone.
ReportExit_WhileOpen(p) ==
  /\ Up /\ ExitIsDue(p) /\ owner[p] \in open
  /\ Goto(p, "reported")
  /\ Send(owner[p], [Msg("exit", owner[p]) EXCEPT !.proc = p, !.n = procs[p].code])
  /\ UNCHANGED <<sidecar, conns, queues, nextID, registered, owner, calls>>

ReportExit(p) ==
  /\ Up /\ ExitIsDue(p)
  /\ Goto(p, "reported")
  /\ Send(owner[p], [Msg("exit", owner[p]) EXCEPT !.proc = p, !.n = procs[p].code])
  /\ UNCHANGED <<sidecar, conns, queues, nextID, registered, owner, calls>>

\* Mutant: a process is removed as soon as it is done.
Forget_OnDone(p) ==
  /\ Up /\ procs[p].done /\ p \in registered
  /\ registered' = registered \ {p}
  /\ UNCHANGED <<sidecar, conns, queues, sent, procs, nextID, owner, calls>>

\* Close and Remove.
Forget(p) ==
  /\ Up /\ procs[p].pc = "reported"
  /\ Goto(p, "over")
  /\ registered' = registered \ {p}
  /\ UNCHANGED <<sidecar, conns, queues, sent, nextID, owner, calls>>

Reap(p) ==
  /\ Up /\ WaitReturns(p)
  /\ UNCHANGED <<sidecar, conns, queues, sent, owner, calls>>

ProcStep(p) ==
  /\ Up /\ OsStep(p)
  /\ UNCHANGED <<sidecar, conns, queues, sent, owner, calls>>

-------------------------------------------------------------------------------
(* ExecSync, from the connection on.                                        *)

\* It reads the next message that has arrived.
NextMessage(c) == sent[c][calls[c].read + 1]
Arrived(c) == c \in open /\ calls[c].read < Len(sent[c])

\* The first message is thrown away, whatever it is, and the command is sent.
CallHello(c) ==
  /\ calls[c].pc = "hello" /\ Arrived(c)
  /\ calls' = [calls EXCEPT ![c].pc = "reading", ![c].read = @ + 1]
  /\ Ask(c, NewRequest("exec"))
  /\ UNCHANGED <<sidecar, conns, sent, execs>>

CallReads(c) ==
  /\ calls[c].pc = "reading" /\ Arrived(c)
  /\ NextMessage(c).type \notin {"exit", "error"}
  /\ calls' = [calls EXCEPT ![c].read = @ + 1,
                            ![c].out = [s \in Streams |->
                               IF NextMessage(c).type = s THEN @[s] + 1 ELSE @[s]]]
  /\ UNCHANGED <<sidecar, conns, queues, sent, execs>>

CallReturns(c) ==
  /\ calls[c].pc = "reading" /\ Arrived(c) /\ NextMessage(c).type = "exit"
  /\ calls' = [calls EXCEPT ![c].pc = "returned", ![c].code = NextMessage(c).n]
  /\ HangUp(c)
  /\ UNCHANGED <<sidecar, pc, active, sent, execs>>

CallFails(c) ==
  /\ calls[c].pc = "reading" /\ Arrived(c) /\ NextMessage(c).type = "error"
  /\ calls' = [calls EXCEPT ![c].pc = "failed"]
  /\ HangUp(c)
  /\ UNCHANGED <<sidecar, pc, active, sent, execs>>

CallTimesOut(c) ==
  /\ calls[c].pc \in {"hello", "reading"}
  /\ calls' = [calls EXCEPT ![c].pc = "failed"]
  /\ HangUp(c)
  /\ UNCHANGED <<sidecar, pc, active, sent, execs>>

CallStep(c) == CallHello(c) \/ CallReads(c) \/ CallReturns(c) \/ CallFails(c)

-------------------------------------------------------------------------------
(* The end of the sidecar.                                                  *)

\* main: KillAll, then the listeners are closed.
Stop ==
  /\ MayStop /\ sidecar = "serving"
  /\ sidecar' = "stopping"
  /\ KillAll
  /\ UNCHANGED <<conns, queues, sent, nextID, registered, owner, calls>>

\* The sidecar exits.
Halt ==
  /\ sidecar = "stopping"
  /\ sidecar' = "stopped"
  /\ open' = {}
  /\ UNCHANGED <<pc, active, queues, sent, execs, calls>>

SetUp(c) == SendReady(c) \/ Leave(c)

Stream(p, s) == StreamReads(p, s) \/ StreamSends(p, s)

Next ==
  \/ \E c \in Conns : Accept(c) \/ SetUp(c)
  \/ \E c \in Clients : ClientAsks(c) \/ ClientLeaves(c)
  \/ \E c \in Conns : \E r \in inbox[c] : Handle(c, r)
  \/ \E p \in ProcIds : \/ ExecRegisters(p) \/ ExecAcks(p)
                        \/ ReportExit(p) \/ Forget(p) \/ Reap(p) \/ ProcStep(p)
                        \/ \E s \in Streams : Stream(p, s)
  \/ \E c \in Calls : CallStep(c) \/ CallTimesOut(c)
  \/ Stop \/ Halt

Spec == Init /\ [][Next]_vars

\* Go runs every goroutine that can run; ExecSync has a deadline.  Nothing is
\* asked of clients, of commands or of the end of the sidecar.
Fairness ==
  /\ \A c \in Conns : WF_vars(SetUp(c)) /\ WF_vars(\E r \in inbox[c] : Handle(c, r))
  /\ \A p \in ProcIds :
       /\ WF_vars(ExecRegisters(p) \/ ExecAcks(p)) /\ WF_vars(ReportExit(p) \/ Forget(p))
       /\ WF_vars(Reap(p))
       /\ \A s \in Streams : WF_vars(Stream(p, s))
  /\ \A c \in Calls : WF_vars(CallStep(c)) /\ WF_vars(CallTimesOut(c))

FairSpec == Spec /\ Fairness

-------------------------------------------------------------------------------
(* What the session promises.                                               *)

\* Where the messages of a type about p are in what its connection was sent.
Places(p, type) ==
  IF owner[p] = None THEN {}
  ELSE {i \in DOMAIN sent[owner[p]] :
          sent[owner[p]][i].type = type /\ sent[owner[p]][i].proc = p}

Carried(p, i) == sent[owner[p]][i].n

Received(p, type) == Places(p, type) # {}

ChannelOf(p) ==
  CASE Received(p, "exit") -> "closed"
    [] ~Received(p, "ack") -> "idle"
    [] OTHER -> IF owner[p] \in open THEN "open" ELSE "lost"

\* The place of the kth of them.
Nth(P, k) == CHOOSE i \in P : Cardinality({j \in P : j <= i}) = k

Got(p, s) ==
  [k \in 1 .. Cardinality(Places(p, s)) |-> Carried(p, Nth(Places(p, s), k))]

Told(p) ==
  IF Received(p, "exit") THEN Carried(p, Nth(Places(p, "exit"), 1)) ELSE 0

\* The commands of a sidecar are commands of ExecChannel: what was sent to
\* the connection a command was started on is its channel.
Channels == INSTANCE ExecChannel WITH
  Commands <- ProcIds, Pipes <- Streams, Codes <- ExitCodes,
  channel <- [p \in ProcIds |-> ChannelOf(p)],
  made <- [p \in ProcIds |-> procs[p].written],
  got <- [p \in ProcIds |-> [s \in Streams |-> Got(p, s)]],
  ended <- {p \in ProcIds : procs[p].pc # "none" /\ ~Writers(p)},
  code <- [p \in ProcIds |-> procs[p].code],
  told <- [p \in ProcIds |-> Told(p)]

\* The output of a command reaches its own client, complete, in order, between
\* the Ack and the exit, however the goroutines that send it interleave and
\* whatever happens to other connections (server.go:252-280).
OutputBeforeExit == Channels!Spec

\* A client that was told of a process and not yet of its exit can still
\* reach it: its id is in the map (server.go:305, 320).
AckedIsReachable ==
  \A p \in ProcIds :
    ChannelOf(p) = "open" => p \in registered

\* A command that ExecSync reports as finished was started for this call, and
\* the result is all of its output and its own exit code (ws_proxy.go:211-233).
ResultIsComplete ==
  \A c \in Calls :
    calls[c].pc = "returned" =>
      \E p \in ProcIds :
        /\ owner[p] = c /\ ~Writers(p)
        /\ calls[c].code = procs[p].code
        /\ calls[c].out = procs[p].written

\* A process that is over, with nobody left on its pipes, is forgotten even
\* when its connection is gone (server.go:272-280).
FinishedIsForgotten ==
  \A p \in ProcIds :
    (p \in registered /\ ~Writers(p)) ~> (p \notin registered \/ ~Up)
===============================================================================
