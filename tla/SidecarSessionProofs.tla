------------------------- MODULE SidecarSessionProofs -------------------------
(***************************************************************************)
(* Theorems about SidecarSession for every value of its constants: any     *)
(* number of connections, calls, requests, processes and chunks.           *)
(***************************************************************************)
EXTENDS SidecarSession, FiniteSetTheorems, SequenceTheorems, TLAPS

-----------------------------------------------------------------------------
(* Types.                                                                   *)

\* What the sidecar writes is a sequence of messages for every connection.
LEMMA SendType ==
  ASSUME sent \in [Conns -> Seq(Message)], open \subseteq Conns,
         NEW c, NEW m \in Message, Send(c, m)
  PROVE  sent' \in [Conns -> Seq(Message)]
<1>1. CASE c \in open
  <2>1. c \in Conns /\ sent' = [sent EXCEPT ![c] = Append(@, m)]
    BY <1>1 DEF Send
  <2>2. Append(sent[c], m) \in Seq(Message)
    BY <2>1
  <2> QED
    BY <2>1, <2>2
<1>2. CASE c \notin open
  BY <1>2 DEF Send
<1> QED
  BY <1>1, <1>2

\* The messages of the handlers.
LEMMA AnswerType ==
  ASSUME NEW c \in Conns, NEW type \in MessageTypes, NEW id \in Nat,
         NEW why \in {"none", "unknown", "runtime", "start", "fs"}
  PROVE  [Msg(type, c) EXCEPT !.id = id, !.why = why] \in Message
<1>1. Msg(type, c) \in Message
  BY DEF Msg, Message
<1> QED
  BY <1>1 DEF Message

\* The messages of the goroutines of a process.
LEMMA ReportType ==
  ASSUME NEW c \in Conns, NEW type \in MessageTypes, NEW proc \in Nat, NEW n \in Int
  PROVE  [Msg(type, c) EXCEPT !.proc = proc, !.n = n] \in Message
<1>1. Msg(type, c) \in Message
  BY DEF Msg, Message
<1> QED
  BY <1>1 DEF Message

\* The messages that say no more than their type.
LEMMA PlainType ==
  ASSUME NEW c \in Conns, NEW type \in MessageTypes
  PROVE  /\ Msg(type, c) \in Message
         /\ \A k \in Nat : [Msg(type, c) EXCEPT !.id = k] \in Message
         /\ \A k \in Nat : [Msg(type, c) EXCEPT !.proc = k] \in Message
<1>1. Msg(type, c) \in Message
  BY DEF Msg, Message
<1>2. ASSUME NEW k \in Nat
      PROVE  /\ [Msg(type, c) EXCEPT !.id = k] \in Message
             /\ [Msg(type, c) EXCEPT !.proc = k] \in Message
  <2>1. [Msg(type, c) EXCEPT !.id = k] \in Message
    BY <1>1 DEF Message
  <2>2. [Msg(type, c) EXCEPT !.proc = k] \in Message
    BY <1>1 DEF Message
  <2> QED
    BY <2>1, <2>2
<1> QED
  BY <1>1, <1>2

\* The processes of the manager keep their form when one of them changes.
LEMMA OneProcess ==
  ASSUME procs \in [ProcIds -> ProcRecord], NEW p \in ProcIds, NEW q \in ProcRecord,
         procs' = [procs EXCEPT ![p] = q]
  PROVE  procs' \in [ProcIds -> ProcRecord]
OBVIOUS

\* A process that is killed is a process.
LEMMA KilledType ==
  ASSUME NEW q \in ProcRecord
  PROVE  AfterKill(q) \in ProcRecord
BY DEF AfterKill, ProcRecord, ExitCodes, Killed

\* No process is a process.
LEMMA NoProcType == NoProc \in ProcRecord
BY DEF NoProc, ProcRecord, ExitCodes

\* What the kernel and the commands do keeps the processes in form.
LEMMA OsType ==
  ASSUME ExecTypeOK, NEW p \in ProcIds, OsStep(p)
  PROVE  ExecTypeOK'
<1>1. procs[p] \in ProcRecord
  BY DEF ExecTypeOK
<1>2. UNCHANGED <<nextID, registered>>
  BY DEF OsStep
<1>3. ASSUME NEW s \in Streams, Writes(p, s) PROVE procs' \in [ProcIds -> ProcRecord]
  <2>1. procs[p].written[s] + 1 \in Nat /\ procs[p].piped[s] + 1 \in Nat
    BY <1>1 DEF ProcRecord
  <2> QED
    BY <1>1, <1>3, <2>1 DEF Writes, ExecTypeOK, ProcRecord
<1>4. ASSUME NEW kind \in Children, LeavesChild(p, kind) PROVE procs' \in [ProcIds -> ProcRecord]
  BY <1>1, <1>4, ExecAssumption DEF LeavesChild, ExecTypeOK, ProcRecord
<1>5. ASSUME NEW code \in {Returned, Killed}, Exits(p, code)
      PROVE procs' \in [ProcIds -> ProcRecord]
  BY <1>1, <1>5 DEF Exits, ExecTypeOK, ProcRecord, ExitCodes
<1>6. ASSUME ChildExits(p) PROVE procs' \in [ProcIds -> ProcRecord]
  BY <1>1, <1>6 DEF ChildExits, ExecTypeOK, ProcRecord
<1> QED
  BY <1>2, <1>3, <1>4, <1>5, <1>6 DEF OsStep, ExecTypeOK

\* A request is handled in the types.
LEMMA HandleType ==
  ASSUME TypeOK, NEW c \in Conns, NEW r \in inbox[c], Handle(c, r)
  PROVE  TypeOK'
<1>1. r \in Request /\ r.id \in Nat
  BY DEF TypeOK, Request
<1>0. /\ ExecTypeOK /\ sent \in [Conns -> Seq(Message)] /\ open \subseteq Conns
      /\ owner \in [ProcIds -> Conns \cup {None}]
  BY DEF TypeOK
<1>2. Take(c, r)
  BY DEF Handle, HandlePing, HandleUnknown, ExecForks, NoRuntime, ForkRefused, HandleStdin,
         HandleSignal, HandleFile
<1>3. /\ UNCHANGED <<sidecar, active, pc, open, asked, calls>>
      /\ inbox' \in [Conns -> SUBSET Request]
  BY <1>2 DEF Take, conns, TypeOK
<1> SUFFICES ExecTypeOK' /\ sent' \in [Conns -> Seq(Message)] /\ owner' \in [ProcIds -> Conns \cup {None}]
  BY <1>3 DEF TypeOK
<1>12. ASSUME NEW type \in {"pong", "reply", "error"},
              NEW why \in {"none", "unknown", "runtime", "start", "fs"}, NEW d,
              \/ Send(d, [Msg(type, c) EXCEPT !.id = r.id])
              \/ Send(d, [Msg(type, c) EXCEPT !.id = r.id, !.why = why])
       PROVE  sent' \in [Conns -> Seq(Message)]
  <2>1. type \in MessageTypes
    BY DEF MessageTypes
  <2>2. /\ [Msg(type, c) EXCEPT !.id = r.id] \in Message
        /\ [Msg(type, c) EXCEPT !.id = r.id, !.why = why] \in Message
    BY <1>1, <2>1, AnswerType, PlainType
  <2> QED
    BY <1>0, <1>12, <2>2, SendType
<1>4. CASE HandlePing(c, r)
  BY <1>0, <1>4, <1>12 DEF HandlePing, execs, ExecTypeOK
<1>5. CASE HandleUnknown(c, r)
  BY <1>0, <1>5, <1>12 DEF HandleUnknown, execs, ExecTypeOK
<1>6. CASE ExecForks(c, r)
  <2>1. nextID \in ProcIds /\ nextID' = nextID + 1 /\ nextID' \in 1 .. MaxProcs + 1
    BY <1>0, <1>6, ExecAssumption DEF ExecForks, Fork, ExecTypeOK, ProcIds
  <2>2. [NoProc EXCEPT !.pc = "forked", !.alive = TRUE] \in ProcRecord
    BY NoProcType DEF ProcRecord
  <2> QED
    BY <1>0, <1>6, <2>1, <2>2 DEF ExecForks, Fork, ExecTypeOK
<1>7. CASE NoRuntime(c, r)
  BY <1>0, <1>7, <1>12 DEF NoRuntime, execs, ExecTypeOK
<1>8. CASE ForkRefused(c, r)
  <2>1. nextID' \in 1 .. MaxProcs + 1 /\ UNCHANGED <<registered, procs>>
    BY <1>0, <1>8, ExecAssumption DEF ForkRefused, LoseId, ExecTypeOK, ProcIds
  <2> QED
    BY <1>0, <1>8, <1>12, <2>1 DEF ForkRefused, ExecTypeOK
<1>9. CASE HandleStdin(c, r)
  <2>1. ASSUME r.proc \in registered PROVE procs' \in [ProcIds -> ProcRecord]
    <3>1. r.proc \in ProcIds /\ procs[r.proc] \in ProcRecord
      BY <1>0, <2>1 DEF ExecTypeOK
    <3>2. Append(procs[r.proc].stdin, r.id) \in Seq(Nat)
      BY <1>1, <3>1 DEF ProcRecord
    <3> DEFINE q == [procs[r.proc] EXCEPT !.stdin = Append(@, r.id)]
    <3>3. q \in ProcRecord
      BY <3>1, <3>2 DEF ProcRecord
    <3>4. procs' = procs \/ procs' = [procs EXCEPT ![r.proc] = q]
      BY <1>0, <1>9, <2>1 DEF HandleStdin, WriteStdin
    <3> HIDE DEF q
    <3> QED
      BY <1>0, <3>1, <3>3, <3>4, OneProcess DEF ExecTypeOK
  <2>2. ASSUME r.proc \notin registered PROVE procs' \in [ProcIds -> ProcRecord]
    BY <1>0, <1>9, <2>2 DEF HandleStdin, ExecTypeOK
  <2>3. procs' \in [ProcIds -> ProcRecord]
    BY <2>1, <2>2
  <2> QED
    BY <1>0, <1>9, <2>3 DEF HandleStdin, ExecTypeOK
<1>10. CASE HandleSignal(c, r)
  <2>1. ASSUME r.proc \in registered PROVE procs' \in [ProcIds -> ProcRecord]
    <3>1. r.proc \in ProcIds /\ procs[r.proc] \in ProcRecord
      BY <1>0, <2>1 DEF ExecTypeOK
    <3>2. AfterKill(procs[r.proc]) \in ProcRecord
      BY <3>1, KilledType
    <3>3. procs' = [procs EXCEPT ![r.proc] = AfterKill(procs[r.proc])]
      BY <1>0, <1>10, <2>1 DEF HandleSignal, Kill
    <3> QED
      BY <1>0, <3>1, <3>2, <3>3, OneProcess DEF ExecTypeOK
  <2>2. ASSUME r.proc \notin registered PROVE procs' \in [ProcIds -> ProcRecord]
    BY <1>0, <1>10, <2>2 DEF HandleSignal, ExecTypeOK
  <2>3. procs' \in [ProcIds -> ProcRecord]
    BY <2>1, <2>2
  <2> QED
    BY <1>0, <1>10, <2>3 DEF HandleSignal, ExecTypeOK
<1>11. CASE HandleFile(c, r)
  BY <1>0, <1>11, <1>12 DEF HandleFile, execs, ExecTypeOK
<1> QED
  BY <1>4, <1>5, <1>6, <1>7, <1>8, <1>9, <1>10, <1>11 DEF Handle

\* The goroutines of a process keep the types.
LEMMA ProcessType ==
  ASSUME TypeOK, NEW p \in ProcIds,
         \/ ExecRegisters(p) \/ ExecAcks(p) \/ ReportExit(p) \/ Forget(p)
         \/ Reap(p) \/ ProcStep(p) \/ \E s \in Streams : Stream(p, s)
  PROVE  TypeOK'
<1> USE DEF TypeOK
<1>1. UNCHANGED <<sidecar, active, pc, open, inbox, asked, owner, calls>>
  BY DEF ExecRegisters, ExecAcks, ReportExit, Forget, Reap, ProcStep, Stream, StreamReads,
         StreamSends, conns, queues
<1> SUFFICES ExecTypeOK' /\ sent' \in [Conns -> Seq(Message)]
  BY <1>1 DEF TypeOK
<1>2. procs[p] \in ProcRecord /\ p \in Nat
  BY ExecAssumption DEF ExecTypeOK, ProcIds
<1>3. owner[p] \in open => owner[p] \in Conns
  OBVIOUS
<1>4. ASSUME NEW type \in MessageTypes, NEW n \in Int, owner[p] \in Conns
      PROVE  /\ [Msg(type, owner[p]) EXCEPT !.proc = p] \in Message
             /\ [Msg(type, owner[p]) EXCEPT !.proc = p, !.n = n] \in Message
  BY <1>2, <1>4, PlainType, ReportType
<1>5. ASSUME NEW m, Send(owner[p], m), owner[p] \in Conns => m \in Message
      PROVE  sent' \in [Conns -> Seq(Message)]
  BY <1>3, <1>5, SendType DEF Send
<1>6. CASE ExecRegisters(p)
  BY <1>2, <1>6 DEF ExecRegisters, Register, Goto, ExecTypeOK, ProcRecord
<1>7. CASE ExecAcks(p)
  <2>1. procs' \in [ProcIds -> ProcRecord] /\ UNCHANGED <<nextID, registered>>
    BY <1>2, <1>7 DEF ExecAcks, Goto, ExecTypeOK, ProcRecord
  <2>2. "ack" \in MessageTypes
    BY DEF MessageTypes
  <2>3. Send(owner[p], [Msg("ack", owner[p]) EXCEPT !.proc = p])
    BY <1>7 DEF ExecAcks
  <2>4. owner[p] \in Conns => [Msg("ack", owner[p]) EXCEPT !.proc = p] \in Message
    BY <1>2, <2>2, PlainType
  <2>5. sent' \in [Conns -> Seq(Message)]
    BY <1>5, <2>3, <2>4
  <2> QED
    BY <2>1, <2>5 DEF ExecTypeOK
<1>8. CASE ReportExit(p)
  <2>1. procs' \in [ProcIds -> ProcRecord] /\ UNCHANGED <<nextID, registered>>
    BY <1>2, <1>8 DEF ReportExit, Goto, ExecTypeOK, ProcRecord
  <2>2. procs[p].code \in Int
    BY <1>2 DEF ProcRecord, ExitCodes, Returned, Killed
  <2>3. sent' \in [Conns -> Seq(Message)]
    BY <1>4, <1>5, <1>8, <2>2 DEF ReportExit, MessageTypes
  <2> QED
    BY <2>1, <2>3 DEF ExecTypeOK
<1>9. CASE Forget(p)
  BY <1>2, <1>9 DEF Forget, Goto, ExecTypeOK, ProcRecord
<1>10. CASE Reap(p)
  BY <1>2, <1>10 DEF Reap, WaitReturns, ExecTypeOK, ProcRecord
<1>11. CASE ProcStep(p)
  BY <1>11, OsType DEF ProcStep
<1>12. ASSUME NEW s \in Streams, StreamReads(p, s) PROVE ExecTypeOK' /\ UNCHANGED sent
  <2>1. /\ procs[p].piped[s] \in Nat
        /\ procs[p].piped[s] > 0 => procs[p].piped[s] - 1 \in Nat
    BY <1>2 DEF ProcRecord
  <2>2. CASE procs' = [procs EXCEPT ![p].piped[s] = @ - 1, ![p].held[s] = TRUE] /\ procs[p].piped[s] > 0
    BY <1>2, <1>12, <2>1, <2>2 DEF StreamReads, ExecTypeOK, ProcRecord
  <2>3. CASE procs' = [procs EXCEPT ![p].eof[s] = TRUE]
    BY <1>2, <1>12, <2>3 DEF StreamReads, ExecTypeOK, ProcRecord
  <2> QED
    BY <1>12, <2>2, <2>3 DEF StreamReads
<1>13. ASSUME NEW s \in Streams, StreamSends(p, s)
       PROVE  ExecTypeOK' /\ sent' \in [Conns -> Seq(Message)]
  <2>1. ExecTypeOK'
    BY <1>2, <1>13 DEF StreamSends, ExecTypeOK, ProcRecord
  <2>2. procs[p].written[s] - procs[p].piped[s] \in Int /\ s \in MessageTypes
    BY <1>2 DEF ProcRecord, MessageTypes
  <2> QED
    BY <1>4, <1>5, <1>13, <2>1, <2>2 DEF StreamSends
<1> QED
  BY <1>6, <1>7, <1>8, <1>9, <1>10, <1>11, <1>12, <1>13 DEF Stream

\* A peer that goes leaves a part of the requests it sent.
LEMMA HangUpType ==
  ASSUME TypeOK, NEW c \in Conns, HangUp(c)
  PROVE  /\ open' \subseteq Conns /\ inbox' \in [Conns -> SUBSET Request]
         /\ asked' = asked /\ \A d \in Conns : inbox'[d] \subseteq inbox[d]
<1>1. PICK k \in 0 .. asked[c] : inbox' = [inbox EXCEPT ![c] = {r \in @ : r.id <= k}]
  BY DEF HangUp
<1>2. {r \in inbox[c] : r.id <= k} \subseteq inbox[c]
  OBVIOUS
<1>3. open' = open \ {c} /\ asked' = asked
  BY DEF HangUp
<1> QED
  BY <1>1, <1>2, <1>3 DEF TypeOK

\* A request that is sent is a request.
LEMMA AskType ==
  ASSUME TypeOK, NEW c \in Conns, NEW r \in Request, Ask(c, r)
  PROVE  inbox' \in [Conns -> SUBSET Request] /\ asked' \in [Conns -> Nat]
<1>1. asked[c] + 1 \in Nat
  BY DEF TypeOK
<1>2. [r EXCEPT !.id = asked[c] + 1] \in Request
  BY <1>1 DEF Request
<1> QED
  BY <1>1, <1>2 DEF TypeOK, Ask

\* Every step keeps the types.
LEMMA TypeStep ==
  ASSUME TypeOK, [Next]_vars
  PROVE  TypeOK'
<1>1. ASSUME NEW c \in Conns, Accept(c) PROVE TypeOK'
  BY <1>1 DEF TypeOK, Accept, Advance, queues, execs, ExecTypeOK, Call
<1>2. ASSUME NEW c \in Conns, SetUp(c) PROVE TypeOK'
  <2>1. CASE SendReady(c)
    <3>2. Msg("ready", c) \in Message
      BY PlainType DEF MessageTypes
    <3>1. sent' \in [Conns -> Seq(Message)]
      BY <2>1, <3>2, SendType DEF SendReady, TypeOK
    <3> QED
      BY <2>1, <3>1 DEF SendReady, Advance, TypeOK, queues, execs, ExecTypeOK
  <2>2. CASE Leave(c)
    BY <2>2 DEF Leave, Advance, TypeOK, queues, execs, ExecTypeOK
  <2> QED
    BY <1>2, <2>1, <2>2 DEF SetUp
<1>4. NewRequest("exec") \in Request
  BY DEF NewRequest, Request, AllOps
<1>5. ASSUME NEW c \in Clients, ClientAsks(c) PROVE TypeOK'
  <2>1. PICK op \in Ops : \E r \in Targets(c, op) : Ask(c, r)
    BY <1>5 DEF ClientAsks
  <2>2. PICK r \in Targets(c, op) : Ask(c, r)
    BY <2>1
  <2>3. op \in AllOps
    BY SessionAssumption
  <2>4. r \in Request
    <3>1. NewRequest(op) \in Request
      BY <2>3 DEF NewRequest, Request
    <3>2. ProcIds \subseteq Nat
      BY ExecAssumption DEF ProcIds
    <3>3. ASSUME NEW p \in ProcIds, NEW q \in ProcIds \cup {0}
          PROVE  [NewRequest(op) EXCEPT !.to = p, !.proc = q] \in Request
      <4>1. p \in Nat /\ q \in Nat
        BY <3>2
      <4> QED
        BY <3>1, <4>1 DEF Request
    <3>4. CASE op \in {"stdin", "kill"}
      <4>1. PICK x \in ProcIds \X (ProcIds \cup {0}) :
              r = [NewRequest(op) EXCEPT !.to = x[1], !.proc = x[2]]
        BY <3>4, <2>2 DEF Targets
      <4> QED
        BY <4>1, <3>3
    <3>5. CASE op \notin {"stdin", "kill"}
      BY <3>5, <3>1, <2>2 DEF Targets
    <3> QED
      BY <3>4, <3>5
  <2> QED
    BY AskType, <1>5, <2>2, <2>4 DEF ClientAsks, Conns, TypeOK, conns, execs, ExecTypeOK
<1>6. ASSUME NEW c \in Clients, ClientLeaves(c) PROVE TypeOK'
  BY <1>6, HangUpType DEF ClientLeaves, Conns, TypeOK, execs, ExecTypeOK
<1>7. ASSUME NEW c \in Calls, CallHello(c) PROVE TypeOK'
  <2>2. calls[c] \in Call /\ calls[c].read + 1 \in Nat
    BY DEF TypeOK, Call
  <2>1. calls' \in [Calls -> Call]
    BY <1>7, <2>2 DEF CallHello, TypeOK, Call
  <2> QED
    BY AskType, <1>4, <1>7, <2>1 DEF CallHello, Conns, TypeOK, conns, execs, ExecTypeOK
<1>8. ASSUME NEW c \in Calls, CallReads(c) PROVE TypeOK'
  <2> DEFINE out == [s \in Streams |-> IF NextMessage(c).type = s THEN calls[c].out[s] + 1
                                       ELSE calls[c].out[s]]
  <2>2. calls[c] \in Call
    BY DEF TypeOK
  <2>3. calls[c].read + 1 \in Nat /\ out \in [Streams -> Nat]
    BY <2>2 DEF Call
  <2>4. calls' = [calls EXCEPT ![c].read = calls[c].read + 1, ![c].out = out]
    BY <1>8 DEF CallReads
  <2> HIDE DEF out
  <2>1. calls' \in [Calls -> Call]
    BY <2>2, <2>3, <2>4 DEF TypeOK, Call
  <2> QED
    BY <1>8, <2>1 DEF CallReads, TypeOK, conns, queues, execs, ExecTypeOK
<1>9. ASSUME NEW c \in Calls, CallReturns(c) PROVE TypeOK'
  <2>1. calls[c].read \in Nat /\ sent[c] \in Seq(Message)
    BY DEF TypeOK, Call, Conns
  <2>2. NextMessage(c) \in Message
    BY <1>9, <2>1 DEF CallReturns, Arrived, NextMessage
  <2>3. NextMessage(c).n \in Int
    BY <2>2 DEF Message
  <2>4. calls' \in [Calls -> Call]
    BY <1>9, <2>3 DEF CallReturns, TypeOK, Call
  <2> QED
    BY <1>9, <2>4, HangUpType DEF CallReturns, Conns, TypeOK, execs, ExecTypeOK
<1>10. ASSUME NEW c \in Calls, CallFails(c) \/ CallTimesOut(c) PROVE TypeOK'
  <2>1. calls' \in [Calls -> Call]
    BY <1>10 DEF CallFails, CallTimesOut, TypeOK, Call
  <2> QED
    BY <1>10, <2>1, HangUpType DEF CallFails, CallTimesOut, Conns, TypeOK, execs, ExecTypeOK
<1>11. CASE Stop
  <2>1. procs' \in [ProcIds -> ProcRecord]
    BY <1>11, KilledType DEF Stop, KillAll, TypeOK, ExecTypeOK
  <2> QED
    BY <1>11, <2>1 DEF Stop, TypeOK, conns, queues, ExecTypeOK
<1>12. CASE Halt
  BY <1>12 DEF Halt, TypeOK, queues, execs, ExecTypeOK
<1>13. CASE UNCHANGED vars
  BY <1>13 DEF vars, TypeOK, conns, queues, execs, ExecTypeOK
<1> QED
  BY <1>1, <1>2, <1>5, <1>6, <1>7, <1>8, <1>9, <1>10, <1>11, <1>12, <1>13, HandleType, ProcessType
     DEF Next, CallStep

\* The initial state has the types.
LEMMA TypeInit == Init => TypeOK
<1>1. Init => ExecTypeOK
  BY NoProcType, ExecAssumption DEF Init, ExecInit, ExecTypeOK
<1>2. NoCall \in Call
  BY DEF NoCall, Call
<1>3. <<>> \in Seq(Message)
  OBVIOUS
<1> QED
  BY <1>1, <1>2, <1>3 DEF Init, TypeOK

\* Every process is where its goroutines can be, every message has its form,
\* and nothing is counted below zero: a chunk is only read where there is one.
THEOREM SessionTypes == Spec => []TypeOK
<1>1. TypeOK /\ [Next]_vars => TypeOK'
  BY TypeStep
<1> QED
  BY TypeInit, <1>1, PTL DEF Spec

-----------------------------------------------------------------------------
(* Processes.                                                               *)

\* Where a process is decides who knows it: it answers a connection from the
\* fork on, it is in the map from its registration until it is forgotten, and
\* it has an exit code as soon as it has exited.
Life(p) ==
  /\ procs[p].pc = "none" <=> owner[p] = None
  /\ procs[p].pc = "none" => procs[p] = NoProc
  /\ p >= nextID => procs[p].pc = "none"
  /\ procs[p].pc # "none" => (procs[p].alive <=> procs[p].code = 0)
  /\ p \in registered <=> procs[p].pc \in {"started", "streaming", "reported"}

\* Of every pipe, what was written is sent, held or still in the pipe; it is
\* read only after the Ack, and to its end before the exit is reported.
Shipped(p, s) ==
  procs[p].written[s] - procs[p].piped[s] - (IF procs[p].held[s] THEN 1 ELSE 0)

Pipe(p, s) ==
  /\ Shipped(p, s) >= 0
  /\ procs[p].pc \in {"forked", "started"} =>
       procs[p].piped[s] = procs[p].written[s] /\ ~procs[p].held[s] /\ ~procs[p].eof[s]
  /\ procs[p].eof[s] => procs[p].piped[s] = 0 /\ ~procs[p].held[s] /\ ~Writers(p)
  /\ procs[p].pc \in {"reported", "over"} => procs[p].eof[s]

Pipes(p) == \A s \in Streams : Pipe(p, s)

ProcInv == \A p \in ProcIds : Life(p) /\ Pipes(p)

\* A process that a step does not touch stays as it was.
LEMMA OthersStay ==
  ASSUME ProcInv, NEW p \in ProcIds, procs'[p] = procs[p], owner'[p] = owner[p],
         p \in registered' <=> p \in registered, nextID' >= nextID, nextID \in Int, nextID' \in Int
  PROVE  Life(p)' /\ Pipes(p)'
<1>1. Life(p) /\ Pipes(p)
  BY DEF ProcInv
<1>2. p \in Int
  BY ExecAssumption DEF ProcIds
<1>3. Life(p)'
  BY <1>1, <1>2 DEF Life
<1>4. Pipes(p)'
  BY <1>1 DEF Pipes, Pipe, Shipped, Writers
<1> QED
  BY <1>3, <1>4

\* A step that changes one process keeps the others.
LEMMA OneChanges ==
  ASSUME TypeOK, TypeOK', ProcInv, NEW p \in ProcIds, NEW q,
         procs' = [procs EXCEPT ![p] = q],
         UNCHANGED <<owner, nextID>>,
         \A x \in ProcIds \ {p} : x \in registered' <=> x \in registered,
         Life(p)', Pipes(p)'
  PROVE  ProcInv'
<1>1. nextID \in Int /\ procs \in [ProcIds -> ProcRecord]
  BY DEF TypeOK, ExecTypeOK
<1>2. ASSUME NEW x \in ProcIds, x # p PROVE Life(x)' /\ Pipes(x)'
  <2>1. procs'[x] = procs[x] /\ owner'[x] = owner[x]
    BY <1>1, <1>2
  <2> QED
    BY <1>1, <1>2, <2>1, OthersStay
<1> QED
  BY <1>2 DEF ProcInv

\* A process that is killed keeps its place and its pipes; it is dead, and so
\* is what it left in its group.
LEMMA KillKeeps ==
  ASSUME TypeOK, ProcInv, NEW p \in ProcIds, procs[p].pc # "none",
         procs'[p] = AfterKill(procs[p]), owner'[p] = owner[p], nextID' = nextID,
         p \in registered' <=> p \in registered
  PROVE  Life(p)' /\ Pipes(p)'
<1>1. procs[p] \in ProcRecord /\ Life(p) /\ Pipes(p)
  BY DEF TypeOK, ExecTypeOK, ProcInv
<1> DEFINE old == procs[p]
           new == procs'[p]
<1>2. /\ new.pc = old.pc /\ ~new.alive
      /\ new.code = (IF old.alive THEN Killed ELSE old.code)
      /\ new.child = (IF old.child = "group" THEN "none" ELSE old.child)
      /\ new.written = old.written /\ new.piped = old.piped
      /\ new.held = old.held /\ new.eof = old.eof
  BY <1>1 DEF AfterKill, ProcRecord
<1>3. Life(p)'
  BY <1>1, <1>2 DEF Life, Killed
<1>4. ASSUME NEW s \in Streams PROVE Pipe(p, s)'
  <2>1. Pipe(p, s)
    BY <1>1 DEF Pipes
  <2>2. Shipped(p, s)' = Shipped(p, s)
    BY <1>2 DEF Shipped
  <2>3. Writers(p)' => Writers(p)
    BY <1>2 DEF Writers
  <2> QED
    BY <1>2, <2>1, <2>2, <2>3 DEF Pipe
<1> QED
  BY <1>3, <1>4 DEF Pipes

\* What the kernel and the commands do.
LEMMA OsKeeps ==
  ASSUME TypeOK, TypeOK', ProcInv, NEW p \in ProcIds, OsStep(p), owner' = owner
  PROVE  ProcInv'
<1>1. procs[p] \in ProcRecord /\ Life(p) /\ Pipes(p) /\ UNCHANGED <<nextID, registered>>
  BY DEF TypeOK, ExecTypeOK, ProcInv, OsStep
<1>0. procs \in [ProcIds -> ProcRecord]
  BY DEF TypeOK, ExecTypeOK
<1>2. Writers(p) => procs[p].pc # "none"
  BY <1>1 DEF Writers, Life, NoProc
<1>3. ASSUME NEW s \in Streams, Writes(p, s) PROVE ProcInv'
  <2>1. procs[p].pc # "none" /\ ~procs[p].eof[s]
    BY <1>1, <1>2, <1>3 DEF Writes, Pipes, Pipe
  <2>2. \A t \in Streams : procs[p].written[t] \in Int /\ procs[p].piped[t] \in Int
    BY <1>1 DEF ProcRecord
  <2> DEFINE q == [procs[p] EXCEPT !.written[s] = @ + 1, !.piped[s] = @ + 1]
  <2>3. procs' = [procs EXCEPT ![p] = q]
    BY <1>3 DEF Writes
  <2>4. procs'[p] = q
    BY <2>3, <1>0
  <2>5. /\ q.pc = procs[p].pc /\ q.alive = procs[p].alive /\ q.code = procs[p].code
        /\ q.child = procs[p].child /\ q.held = procs[p].held /\ q.eof = procs[p].eof
        /\ \A t \in Streams : q.written[t] - q.piped[t] = procs[p].written[t] - procs[p].piped[t]
        /\ \A t \in Streams \ {s} : q.piped[t] = procs[p].piped[t]
    BY <1>1, <2>2 DEF ProcRecord
  <2> HIDE DEF q
  <2>6. Life(p)'
    BY <1>1, <2>1, <2>4, <2>5 DEF Life
  <2>7. ASSUME NEW t \in Streams PROVE Pipe(p, t)'
    <3>1. Pipe(p, t) /\ procs[p].written[t] \in Int /\ procs[p].piped[t] \in Int
      BY <1>1, <2>2 DEF Pipes
    <3>2. q.written[t] \in Int /\ q.piped[t] \in Int
      <4>1. q \in ProcRecord
        BY <2>4 DEF TypeOK, ExecTypeOK
      <4> QED
        BY <4>1 DEF ProcRecord
    <3>3. Shipped(p, t)' = Shipped(p, t)
      BY <2>4, <2>5, <3>1, <3>2 DEF Shipped
    <3>4. q.piped[t] = q.written[t] <=> procs[p].piped[t] = procs[p].written[t]
      BY <2>5, <3>1, <3>2
    <3>5. procs[p].eof[t] => t # s /\ q.piped[t] = procs[p].piped[t]
      BY <2>1, <2>5
    <3>6. Writers(p)' <=> Writers(p)
      BY <2>4, <2>5 DEF Writers
    <3> QED
      BY <2>4, <2>5, <3>1, <3>3, <3>4, <3>5, <3>6 DEF Pipe
  <2> QED
    BY <1>1, <2>3, <2>6, <2>7, OneChanges DEF Pipes
<1>4. ASSUME NEW q, procs' = [procs EXCEPT ![p] = q],
             q.pc = procs[p].pc, q.written = procs[p].written, q.piped = procs[p].piped,
             q.held = procs[p].held, q.eof = procs[p].eof, procs[p].pc # "none",
             q.alive <=> q.code = 0,
             (q.alive \/ q.child # "none") => Writers(p)
      PROVE  ProcInv'
  <2>1. procs'[p] = q
    BY <1>0, <1>4
  <2>2. Life(p)'
    BY <1>1, <1>4, <2>1 DEF Life
  <2>3. Pipes(p)'
    BY <1>1, <1>4, <2>1 DEF Pipes, Pipe, Shipped, Writers
  <2> QED
    BY <1>1, <1>4, <2>2, <2>3, OneChanges
<1>5. ASSUME NEW kind \in Children, LeavesChild(p, kind) PROVE ProcInv'
  <2> DEFINE q == [procs[p] EXCEPT !.child = kind]
  <2>1. procs' = [procs EXCEPT ![p] = q] /\ Writers(p)
    BY <1>5 DEF LeavesChild, Writers
  <2>2. /\ q.pc = procs[p].pc /\ q.alive = procs[p].alive /\ q.code = procs[p].code
        /\ q.held = procs[p].held /\ q.eof = procs[p].eof
        /\ q.written = procs[p].written /\ q.piped = procs[p].piped
    BY <1>1 DEF ProcRecord
  <2>3. q.alive <=> q.code = 0
    BY <1>1, <1>2, <2>1, <2>2 DEF Life
  <2> HIDE DEF q
  <2> QED
    BY <1>2, <1>4, <2>1, <2>2, <2>3
<1>6. ASSUME NEW code \in {Returned, Killed}, Exits(p, code) PROVE ProcInv'
  <2> DEFINE q == [procs[p] EXCEPT !.alive = FALSE, !.code = code]
  <2>1. procs' = [procs EXCEPT ![p] = q] /\ Writers(p)
    BY <1>6 DEF Exits, Writers
  <2>2. /\ q.pc = procs[p].pc /\ ~q.alive /\ q.code = code
        /\ q.held = procs[p].held /\ q.eof = procs[p].eof
        /\ q.written = procs[p].written /\ q.piped = procs[p].piped
    BY <1>1 DEF ProcRecord
  <2>3. code # 0
    BY <1>6 DEF Returned, Killed
  <2> HIDE DEF q
  <2> QED
    BY <1>2, <1>4, <2>1, <2>2, <2>3
<1>7. ASSUME ChildExits(p) PROVE ProcInv'
  <2> DEFINE q == [procs[p] EXCEPT !.child = "none"]
  <2>1. procs' = [procs EXCEPT ![p] = q] /\ Writers(p)
    BY <1>7 DEF ChildExits, Writers
  <2>2. /\ q.pc = procs[p].pc /\ q.alive = procs[p].alive /\ q.code = procs[p].code
        /\ q.held = procs[p].held /\ q.eof = procs[p].eof
        /\ q.written = procs[p].written /\ q.piped = procs[p].piped
    BY <1>1 DEF ProcRecord
  <2>3. q.alive <=> q.code = 0
    BY <1>1, <1>2, <2>1, <2>2 DEF Life
  <2> HIDE DEF q
  <2> QED
    BY <1>2, <1>4, <2>1, <2>2, <2>3
<1> QED
  BY <1>3, <1>5, <1>6, <1>7 DEF OsStep

\* A goroutine of a process moves on: the process is where it says, its pipes
\* are as they were.
LEMMA MoveKeeps ==
  ASSUME TypeOK, TypeOK', ProcInv, NEW p \in ProcIds, NEW to, Goto(p, to),
         UNCHANGED <<owner, nextID>>, procs[p].pc # "none", to # "none",
         \A x \in ProcIds \ {p} : x \in registered' <=> x \in registered,
         p \in registered' <=> to \in {"started", "streaming", "reported"},
         to \in {"forked", "started"} => procs[p].pc \in {"forked", "started"},
         to \in {"reported", "over"} => \A s \in Streams : procs[p].eof[s]
  PROVE  ProcInv'
<1> DEFINE q == [procs[p] EXCEPT !.pc = to]
<1>1. procs[p] \in ProcRecord /\ procs \in [ProcIds -> ProcRecord] /\ Life(p) /\ Pipes(p)
  BY DEF TypeOK, ExecTypeOK, ProcInv
<1>2. procs' = [procs EXCEPT ![p] = q] /\ procs'[p] = q
  BY <1>1 DEF Goto
<1>3. /\ q.pc = to /\ q.alive = procs[p].alive /\ q.code = procs[p].code
      /\ q.child = procs[p].child
      /\ q.held = procs[p].held /\ q.eof = procs[p].eof
      /\ q.written = procs[p].written /\ q.piped = procs[p].piped
  BY <1>1 DEF ProcRecord
<1> HIDE DEF q
<1>4. Life(p)'
  BY <1>1, <1>2, <1>3 DEF Life
<1>5. Pipes(p)'
  BY <1>1, <1>2, <1>3 DEF Pipes, Pipe, Shipped, Writers
<1> QED
  BY <1>2, <1>4, <1>5, OneChanges

\* The goroutines of a process keep the invariant of the processes.
LEMMA GoroutinesKeep ==
  ASSUME TypeOK, TypeOK', ProcInv, NEW p \in ProcIds,
         \/ ExecRegisters(p) \/ ExecAcks(p) \/ ReportExit(p) \/ Forget(p)
         \/ Reap(p) \/ ProcStep(p) \/ \E s \in Streams : Stream(p, s)
  PROVE  ProcInv'
<1>1. procs[p] \in ProcRecord /\ procs \in [ProcIds -> ProcRecord] /\ Life(p) /\ Pipes(p)
  BY DEF TypeOK, ExecTypeOK, ProcInv
<1>2. UNCHANGED <<owner, nextID>>
  BY DEF ExecRegisters, ExecAcks, ReportExit, Forget, Reap, ProcStep, Stream, StreamReads,
         StreamSends, Register, WaitReturns, OsStep
<1>3. CASE ExecRegisters(p)
  BY <1>1, <1>2, <1>3, MoveKeeps DEF ExecRegisters, Register
<1>4. CASE ExecAcks(p)
  BY <1>1, <1>2, <1>4, MoveKeeps DEF ExecAcks, Life
<1>5. CASE ReportExit(p)
  BY <1>1, <1>2, <1>5, MoveKeeps DEF ReportExit, ExitIsDue, Life
<1>6. CASE Forget(p)
  <2>1. \A s \in Streams : procs[p].eof[s]
    BY <1>1, <1>6 DEF Forget, Pipes, Pipe
  <2> QED
    BY <1>1, <1>2, <1>6, <2>1, MoveKeeps DEF Forget
<1>7. CASE Reap(p)
  <2> DEFINE q == [procs[p] EXCEPT !.done = TRUE]
  <2>1. procs' = [procs EXCEPT ![p] = q] /\ registered' = registered /\ procs[p].pc # "none"
    BY <1>7 DEF Reap, WaitReturns
  <2>2. procs'[p] = q
    BY <1>1, <2>1
  <2>3. /\ q.pc = procs[p].pc /\ q.alive = procs[p].alive /\ q.code = procs[p].code
        /\ q.child = procs[p].child
        /\ q.held = procs[p].held /\ q.eof = procs[p].eof
        /\ q.written = procs[p].written /\ q.piped = procs[p].piped
    BY <1>1 DEF ProcRecord
  <2> HIDE DEF q
  <2>4. Life(p)'
    BY <1>1, <1>2, <2>1, <2>2, <2>3 DEF Life
  <2>5. Pipes(p)'
    BY <1>1, <2>2, <2>3 DEF Pipes, Pipe, Shipped, Writers
  <2> QED
    BY <1>2, <2>1, <2>4, <2>5, OneChanges
<1>8. CASE ProcStep(p)
  BY <1>8, OsKeeps DEF ProcStep
<1>9. ASSUME NEW s \in Streams, StreamReads(p, s) PROVE ProcInv'
  <2>1. /\ procs[p].pc = "streaming" /\ ~procs[p].held[s] /\ ~procs[p].eof[s]
        /\ registered' = registered
    BY <1>9 DEF StreamReads
  <2>2. ASSUME NEW q, procs' = [procs EXCEPT ![p] = q], q.pc = procs[p].pc, q.alive = procs[p].alive,
               q.code = procs[p].code, q.child = procs[p].child,
               \A t \in Streams \ {s} :
                 /\ q.piped[t] = procs[p].piped[t] /\ q.held[t] = procs[p].held[t]
                 /\ q.eof[t] = procs[p].eof[t],
               q.written = procs[p].written, Pipe(p, s)'
        PROVE  ProcInv'
    <3>1. procs'[p] = q
      BY <1>1, <2>2
    <3>2. Life(p)'
      BY <1>1, <1>2, <2>1, <2>2, <3>1 DEF Life
    <3>3. ASSUME NEW t \in Streams PROVE Pipe(p, t)'
      <4>1. CASE t = s
        BY <4>1, <2>2
      <4>2. CASE t # s
        BY <1>1, <2>2, <3>1, <4>2 DEF Pipes, Pipe, Shipped, Writers
      <4> QED
        BY <4>1, <4>2
    <3> QED
      BY <1>2, <2>1, <2>2, <3>2, <3>3, OneChanges DEF Pipes
  <2>3. /\ Pipe(p, s) /\ procs[p].written[s] \in Nat /\ procs[p].piped[s] \in Nat
        /\ procs[p].held \in [Streams -> BOOLEAN] /\ procs[p].eof \in [Streams -> BOOLEAN]
        /\ procs[p].piped \in [Streams -> Nat]
    BY <1>1 DEF Pipes, ProcRecord
  <2>4. CASE /\ procs[p].piped[s] > 0
             /\ procs' = [procs EXCEPT ![p].piped[s] = @ - 1, ![p].held[s] = TRUE]
    <3> DEFINE q == [procs[p] EXCEPT !.piped[s] = @ - 1, !.held[s] = TRUE]
    <3>1. procs' = [procs EXCEPT ![p] = q] /\ procs'[p] = q
      BY <1>1, <2>4
    <3>2. /\ q.pc = procs[p].pc /\ q.alive = procs[p].alive /\ q.code = procs[p].code
          /\ q.child = procs[p].child /\ q.eof = procs[p].eof /\ q.written = procs[p].written
          /\ q.piped[s] = procs[p].piped[s] - 1 /\ q.held[s]
          /\ \A t \in Streams \ {s} :
               q.piped[t] = procs[p].piped[t] /\ q.held[t] = procs[p].held[t]
      BY <1>1, <2>3 DEF ProcRecord
    <3> HIDE DEF q
    <3>3. Shipped(p, s)' = Shipped(p, s)
      BY <2>1, <2>3, <3>1, <3>2 DEF Shipped
    <3>4. Pipe(p, s)'
      BY <2>1, <2>3, <3>1, <3>2, <3>3 DEF Pipe
    <3> QED
      BY <2>2, <3>1, <3>2, <3>4
  <2>5. CASE /\ procs[p].piped[s] = 0 /\ ~Writers(p)
             /\ procs' = [procs EXCEPT ![p].eof[s] = TRUE]
    <3> DEFINE q == [procs[p] EXCEPT !.eof[s] = TRUE]
    <3>1. procs' = [procs EXCEPT ![p] = q] /\ procs'[p] = q
      BY <1>1, <2>5
    <3>2. /\ q.pc = procs[p].pc /\ q.alive = procs[p].alive /\ q.code = procs[p].code
          /\ q.child = procs[p].child /\ q.written = procs[p].written
          /\ q.piped = procs[p].piped /\ q.held = procs[p].held
          /\ \A t \in Streams \ {s} : q.eof[t] = procs[p].eof[t]
      BY <1>1, <2>3 DEF ProcRecord
    <3> HIDE DEF q
    <3>4. Pipe(p, s)'
      BY <2>1, <2>3, <2>5, <3>1, <3>2 DEF Pipe, Shipped, Writers
    <3> QED
      BY <2>2, <3>1, <3>2, <3>4
  <2> QED
    BY <1>9, <2>4, <2>5 DEF StreamReads
<1>10. ASSUME NEW s \in Streams, StreamSends(p, s) PROVE ProcInv'
  <2> DEFINE q == [procs[p] EXCEPT !.held[s] = FALSE]
  <2>1. procs' = [procs EXCEPT ![p] = q] /\ registered' = registered /\ procs[p].held[s]
    BY <1>10 DEF StreamSends
  <2>2. procs'[p] = q
    BY <1>1, <2>1
  <2>3. procs[p].held \in [Streams -> BOOLEAN]
    BY <1>1 DEF ProcRecord
  <2>4. /\ q.pc = procs[p].pc /\ q.alive = procs[p].alive /\ q.code = procs[p].code
        /\ q.child = procs[p].child /\ q.eof = procs[p].eof
        /\ q.written = procs[p].written /\ q.piped = procs[p].piped
        /\ ~q.held[s] /\ \A t \in Streams \ {s} : q.held[t] = procs[p].held[t]
    BY <1>1, <2>3 DEF ProcRecord
  <2> HIDE DEF q
  <2>5. procs[p].pc # "none"
    BY <2>1 DEF NoProc, Life, ProcInv
  <2>6. Life(p)'
    BY <1>1, <1>2, <2>5, <2>1, <2>2, <2>4 DEF Life
  <2>7. ASSUME NEW t \in Streams PROVE Pipe(p, t)'
    <3>1. Pipe(p, t) /\ procs[p].written[t] \in Int /\ procs[p].piped[t] \in Int
      BY <1>1 DEF Pipes, ProcRecord
    <3> QED
      BY <2>1, <2>2, <2>4, <3>1 DEF Pipe, Shipped, Writers
  <2> QED
    BY <1>2, <2>1, <2>6, <2>7, OneChanges DEF Pipes
<1> QED
  BY <1>3, <1>4, <1>5, <1>6, <1>7, <1>8, <1>9, <1>10 DEF Stream

\* The handlers: a fork takes an id nobody had, a refusal leaves the id unused.
LEMMA HandlersKeep ==
  ASSUME TypeOK, TypeOK', ProcInv, NEW c \in Conns, NEW r \in inbox[c], Handle(c, r)
  PROVE  ProcInv'
<1>1. /\ procs \in [ProcIds -> ProcRecord] /\ owner \in [ProcIds -> Conns \cup {None}]
      /\ nextID \in Int /\ registered \subseteq ProcIds
  BY DEF TypeOK, ExecTypeOK
<1>2. CASE UNCHANGED execs
  BY <1>1, <1>2, OthersStay DEF execs, ProcInv
<1>3. CASE ExecForks(c, r)
  <2>0. PICK p \in ProcIds : p = nextID
    BY <1>3 DEF ExecForks, Fork
  <2> DEFINE q == [NoProc EXCEPT !.pc = "forked", !.alive = TRUE]
  <2>1. /\ procs' = [procs EXCEPT ![p] = q]
        /\ nextID' = nextID + 1 /\ registered' = registered
        /\ owner' = [owner EXCEPT ![p] = c]
    BY <1>3, <2>0 DEF ExecForks, Fork
  <2>2. /\ q.pc = "forked" /\ q.alive /\ q.code = 0 /\ q.child = "none"
        /\ \A s \in Streams : q.written[s] = 0 /\ q.piped[s] = 0 /\ ~q.held[s] /\ ~q.eof[s]
    BY DEF NoProc
  <2>3. procs'[p] = q /\ owner'[p] = c /\ c # None /\ p \notin registered
    <3>1. procs[p].pc = "none" /\ Life(p)
      BY <2>0, <1>1, ExecAssumption DEF ProcInv, Life, ProcIds
    <3> QED
      BY <1>1, <2>1, <3>1, SessionAssumption DEF Life, Conns
  <2> HIDE DEF q
  <2>4. Life(p)'
    BY <2>0, <2>1, <2>2, <2>3, <1>1 DEF Life
  <2>5. Pipes(p)'
    BY <2>2, <2>3 DEF Pipes, Pipe, Shipped, Writers
  <2>6. ASSUME NEW x \in ProcIds, x # p PROVE Life(x)' /\ Pipes(x)'
    <3>1. procs'[x] = procs[x] /\ owner'[x] = owner[x]
      BY <1>1, <2>1, <2>6
    <3>2. nextID' >= nextID /\ nextID' \in Int
      BY <1>1, <2>1
    <3> QED
      BY <1>1, <2>1, <3>1, <3>2, OthersStay
  <2> QED
    BY <2>4, <2>5, <2>6 DEF ProcInv
<1>4. CASE ForkRefused(c, r)
  <2>1. /\ UNCHANGED <<procs, registered, owner>> /\ nextID' >= nextID /\ nextID' \in Int
    BY <1>1, <1>4 DEF ForkRefused, LoseId
  <2> QED
    BY <1>1, <2>1, OthersStay DEF ProcInv
<1>5. CASE HandleStdin(c, r) /\ procs' # procs
  <2> DEFINE p == r.proc
             q == [procs[p] EXCEPT !.stdin = Append(@, r.id)]
  <2>1. /\ p \in registered /\ procs' = [procs EXCEPT ![p] = q]
        /\ UNCHANGED <<nextID, registered, owner>>
    BY <1>5 DEF HandleStdin, WriteStdin
  <2>2. p \in ProcIds /\ procs[p] \in ProcRecord /\ Life(p) /\ Pipes(p)
    BY <1>1, <2>1 DEF ProcInv
  <2>3. procs'[p] = q
    BY <1>1, <2>1, <2>2
  <2>4. /\ q.pc = procs[p].pc /\ q.alive = procs[p].alive /\ q.code = procs[p].code
        /\ q.child = procs[p].child
        /\ q.held = procs[p].held /\ q.eof = procs[p].eof
        /\ q.written = procs[p].written /\ q.piped = procs[p].piped
    BY <2>2 DEF ProcRecord
  <2>5. procs[p].pc # "none"
    BY <2>1, <2>2 DEF Life
  <2> HIDE DEF q
  <2>6. Life(p)'
    BY <2>1, <2>2, <2>3, <2>4, <2>5 DEF Life
  <2>7. Pipes(p)'
    BY <2>2, <2>3, <2>4 DEF Pipes, Pipe, Shipped, Writers
  <2> QED
    BY <2>1, <2>2, <2>6, <2>7, OneChanges
<1>6. CASE HandleSignal(c, r) /\ r.proc \in registered
  <2> DEFINE p == r.proc
  <2>1. /\ p \in ProcIds /\ procs' = [procs EXCEPT ![p] = AfterKill(procs[p])]
        /\ UNCHANGED <<nextID, registered, owner>>
    BY <1>1, <1>6 DEF HandleSignal, Kill
  <2>2. procs[p].pc # "none" /\ procs'[p] = AfterKill(procs[p])
    BY <1>1, <1>6, <2>1 DEF ProcInv, Life
  <2>3. Life(p)' /\ Pipes(p)'
    BY <2>1, <2>2, KillKeeps
  <2> QED
    BY <2>1, <2>3, OneChanges
<1>7. CASE (HandleStdin(c, r) /\ procs' = procs) \/ (HandleSignal(c, r) /\ r.proc \notin registered)
  BY <1>2, <1>7 DEF HandleStdin, HandleSignal, execs
<1>8. CASE HandlePing(c, r) \/ HandleUnknown(c, r) \/ NoRuntime(c, r) \/ HandleFile(c, r)
  BY <1>2, <1>8 DEF HandlePing, HandleUnknown, NoRuntime, HandleFile
<1> QED
  BY <1>3, <1>4, <1>5, <1>6, <1>7, <1>8 DEF Handle

\* Every step keeps the invariant of the processes.
LEMMA ProcStepKeeps ==
  ASSUME TypeOK, TypeOK', ProcInv, [Next]_vars
  PROVE  ProcInv'
<1>1. CASE UNCHANGED execs
  <2>1. nextID \in Int
    BY DEF TypeOK, ExecTypeOK
  <2> QED
    BY <1>1, <2>1, OthersStay DEF execs, ProcInv
<1>2. ASSUME NEW c \in Conns, Accept(c) \/ SetUp(c) PROVE ProcInv'
  BY <1>1, <1>2 DEF Accept, SetUp, SendReady, Leave
<1>3. ASSUME NEW c \in Clients, ClientAsks(c) \/ ClientLeaves(c) PROVE ProcInv'
  BY <1>1, <1>3 DEF ClientAsks, ClientLeaves
<1>4. ASSUME NEW c \in Calls, CallStep(c) \/ CallTimesOut(c) PROVE ProcInv'
  BY <1>1, <1>4 DEF CallStep, CallHello, CallReads, CallReturns, CallFails, CallTimesOut
<1>5. CASE Stop
  <2>1. /\ procs' = [p \in ProcIds |-> IF p \in registered THEN AfterKill(procs[p]) ELSE procs[p]]
        /\ UNCHANGED <<nextID, registered, owner>> /\ nextID \in Int
    BY <1>5 DEF Stop, KillAll, TypeOK, ExecTypeOK
  <2>2. ASSUME NEW p \in ProcIds PROVE Life(p)' /\ Pipes(p)'
    <3>1. CASE p \in registered
      <4>1. procs[p].pc # "none" /\ procs'[p] = AfterKill(procs[p])
        BY <2>1, <3>1 DEF ProcInv, Life
      <4> QED
        BY <2>1, <4>1, KillKeeps
    <3>2. CASE p \notin registered
      <4>1. procs'[p] = procs[p]
        BY <2>1, <3>2
      <4> QED
        BY <2>1, <4>1, OthersStay
    <3> QED
      BY <3>1, <3>2
  <2> QED
    BY <2>2 DEF ProcInv
<1>6. CASE Halt \/ UNCHANGED vars
  BY <1>1, <1>6 DEF Halt, vars, execs
<1> QED
  BY <1>2, <1>3, <1>4, <1>5, <1>6, HandlersKeep, GoroutinesKeep DEF Next

-----------------------------------------------------------------------------
(* What was sent.                                                           *)

\* The messages about a process.
About == {"ack", "exit"} \cup Streams

\* A message about a process is only sent to the connection of that process.
Addressed(c) ==
  \A i \in DOMAIN sent[c] :
    sent[c][i].type \in About =>
      sent[c][i].proc \in ProcIds /\ owner[sent[c][i].proc] = c

\* Nobody connects twice: what is open, or has started a process, was accepted.
Accepted(c) == (c \in open \/ \E p \in ProcIds : owner[p] = c) => pc[c] # "new"

\* What the connection of p was told of it, and when it was told everything.
Reports(p) ==
  /\ Received(p, "ack") => procs[p].pc \in {"streaming", "reported", "over"}
  /\ Received(p, "exit") =>
       /\ Received(p, "ack") /\ procs[p].pc \in {"reported", "over"}
       /\ \A s \in Streams : Cardinality(Places(p, s)) = procs[p].written[s]
  /\ \A i \in Places(p, "exit") :
       /\ Carried(p, i) = procs[p].code
       /\ \A s \in Streams : \A j \in Places(p, s) : j < i
  /\ owner[p] \in open =>
       /\ \A s \in Streams : Cardinality(Places(p, s)) = Shipped(p, s)
       /\ procs[p].pc \in {"streaming", "reported", "over"} => Received(p, "ack")
       /\ procs[p].pc \in {"reported", "over"} => Received(p, "exit")

SentInv ==
  /\ \A c \in Conns : Addressed(c) /\ Accepted(c)
  /\ \A p \in ProcIds : Reports(p)

\* The places of a connection's messages are finitely many.
LEMMA PlacesFinite ==
  ASSUME TypeOK, NEW p \in ProcIds, NEW type
  PROVE  /\ IsFiniteSet(Places(p, type)) /\ Cardinality(Places(p, type)) \in Nat
         /\ Places(p, type) \subseteq Nat
         /\ owner[p] # None => Places(p, type) \subseteq 1 .. Len(sent[owner[p]])
         /\ owner[p] \in Conns \/ owner[p] = None
<1>1. owner[p] \in Conns \/ owner[p] = None
  BY DEF TypeOK
<1>2. CASE owner[p] = None
  <2>1. Places(p, type) = {}
    BY <1>2 DEF Places
  <2> QED
    BY <1>2, <2>1, FS_EmptySet
<1>3. CASE owner[p] # None
  <2>1. sent[owner[p]] \in Seq(Message)
    BY <1>1, <1>3 DEF TypeOK
  <2>2. Places(p, type) \subseteq 1 .. Len(sent[owner[p]]) /\ Len(sent[owner[p]]) \in Nat
    BY <1>3, <2>1 DEF Places
  <2>3. IsFiniteSet(1 .. Len(sent[owner[p]]))
    BY <2>2, FS_Interval
  <2>4. IsFiniteSet(Places(p, type))
    BY <2>2, <2>3, FS_Subset
  <2> QED
    BY <1>1, <1>3, <2>2, <2>4, FS_CardinalityType
<1> QED
  BY <1>2, <1>3

\* A write adds a message at the end, to an open connection.
LEMMA SendGrows ==
  ASSUME TypeOK, NEW c, NEW m \in Message, Send(c, m)
  PROVE  \A d \in Conns :
           /\ sent[d] \in Seq(Message) /\ sent'[d] \in Seq(Message)
           /\ \A i \in 1 .. Len(sent[d]) : sent'[d][i] = sent[d][i]
           /\ c \in open /\ d = c =>
                Len(sent'[d]) = Len(sent[d]) + 1 /\ sent'[d][Len(sent[d]) + 1] = m
           /\ ~(c \in open /\ d = c) => sent'[d] = sent[d]
<1> SUFFICES ASSUME NEW d \in Conns
             PROVE  /\ sent[d] \in Seq(Message) /\ sent'[d] \in Seq(Message)
                    /\ \A i \in 1 .. Len(sent[d]) : sent'[d][i] = sent[d][i]
                    /\ c \in open /\ d = c =>
                         Len(sent'[d]) = Len(sent[d]) + 1 /\ sent'[d][Len(sent[d]) + 1] = m
                    /\ ~(c \in open /\ d = c) => sent'[d] = sent[d]
  OBVIOUS
<1>1. sent \in [Conns -> Seq(Message)] /\ sent[d] \in Seq(Message) /\ open \subseteq Conns
  BY DEF TypeOK
<1>2. CASE c \in open /\ d = c
  <2>1. sent'[d] = Append(sent[d], m)
    BY <1>1, <1>2 DEF Send
  <2> QED
    BY <1>1, <1>2, <2>1
<1>3. CASE ~(c \in open /\ d = c)
  <2>1. sent'[d] = sent[d]
    BY <1>1, <1>3 DEF Send
  <2> QED
    BY <1>1, <1>3, <2>1
<1> QED
  BY <1>2, <1>3

\* The message is at a place of its process and of its type, and at no other.
LEMMA PlacesGrow ==
  ASSUME TypeOK, NEW c, NEW m \in Message, Send(c, m), NEW p \in ProcIds, NEW type,
         owner'[p] = owner[p]
  PROVE  /\ c \in open /\ owner[p] = c /\ m.type = type /\ m.proc = p =>
              /\ Places(p, type)' = Places(p, type) \cup {Len(sent[c]) + 1}
              /\ \A i : i = Len(sent[c]) + 1 => Carried(p, i)' = m.n
              /\ \A i \in Places(p, type) : i <= Len(sent[c])
         /\ ~(c \in open /\ owner[p] = c /\ m.type = type /\ m.proc = p) =>
              Places(p, type)' = Places(p, type)
         /\ \A i \in Places(p, type) : Carried(p, i)' = Carried(p, i)
<1>1. CASE owner[p] = None
  <2>1. None \notin open
    BY SessionAssumption DEF TypeOK, Conns
  <2> QED
    BY <1>1, <2>1 DEF Places
<1>2. CASE owner[p] # None
  <2>1. PICK d \in Conns : d = owner[p]
    BY <1>2 DEF TypeOK
  <2>2. /\ sent[d] \in Seq(Message) /\ sent'[d] \in Seq(Message)
        /\ \A i \in 1 .. Len(sent[d]) : sent'[d][i] = sent[d][i]
        /\ c \in open /\ d = c =>
             Len(sent'[d]) = Len(sent[d]) + 1 /\ sent'[d][Len(sent[d]) + 1] = m
        /\ ~(c \in open /\ d = c) => sent'[d] = sent[d]
    BY SendGrows
  <2>3. /\ Places(p, type) = {i \in 1 .. Len(sent[d]) : sent[d][i].type = type /\ sent[d][i].proc = p}
        /\ Places(p, type)' = {i \in 1 .. Len(sent'[d]) :
                                 sent'[d][i].type = type /\ sent'[d][i].proc = p}
    BY <1>2, <2>1, <2>2 DEF Places
  <2>4. \A i : Carried(p, i) = sent[d][i].n /\ Carried(p, i)' = sent'[d][i].n
    BY <2>1 DEF Carried
  <2>5. CASE c \in open /\ d = c
    <3>1. Len(sent[d]) \in Nat
      BY <2>2
    <3>2. 1 .. Len(sent'[d]) = 1 .. Len(sent[d]) \cup {Len(sent[d]) + 1}
      BY <2>2, <2>5, <3>1
    <3>3. \A i \in Places(p, type) : i \in 1 .. Len(sent[d])
      BY <2>3
    <3>4. ASSUME m.type = type, m.proc = p
          PROVE  Places(p, type)' = Places(p, type) \cup {Len(sent[d]) + 1}
      BY <2>2, <2>3, <2>5, <3>1, <3>2, <3>4
    <3>5. ASSUME ~(m.type = type /\ m.proc = p)
          PROVE  Places(p, type)' = Places(p, type)
      BY <2>2, <2>3, <2>5, <3>1, <3>2, <3>5
    <3>6. /\ \A i : i = Len(sent[d]) + 1 => Carried(p, i)' = m.n
          /\ \A i \in Places(p, type) : Carried(p, i)' = Carried(p, i)
      BY <2>2, <2>4, <2>5, <3>3
    <3> QED
      BY <2>1, <2>5, <3>1, <3>3, <3>4, <3>5, <3>6
  <2>6. CASE ~(c \in open /\ d = c)
    BY <2>1, <2>2, <2>3, <2>4, <2>6
  <2> QED
    BY <2>5, <2>6
<1> QED
  BY <1>1, <1>2

\* Nothing is sent: the places are as they were.
LEMMA PlacesStay ==
  ASSUME NEW p \in ProcIds, NEW type, sent' = sent, owner'[p] = owner[p]
  PROVE  /\ Places(p, type)' = Places(p, type)
         /\ \A i : Carried(p, i)' = Carried(p, i)
BY DEF Places, Carried

\* A process that is not known yet was not told of.
LEMMA NothingBeforeFork ==
  ASSUME TypeOK, SentInv, NEW c \in Conns, NEW p \in ProcIds, owner[p] = None,
         NEW i \in DOMAIN sent[c], sent[c][i].type \in About
  PROVE  sent[c][i].proc # p
BY SessionAssumption DEF SentInv, Addressed, Conns

\* What a step leaves of a process when it tells its client nothing of it.
Steady(p) ==
  /\ owner'[p] = owner[p]
  /\ procs'[p].pc \in {"streaming", "reported", "over"} <=>
       procs[p].pc \in {"streaming", "reported", "over"}
  /\ procs'[p].pc \in {"reported", "over"} <=> procs[p].pc \in {"reported", "over"}
  /\ \A s \in Streams : Shipped(p, s)' = Shipped(p, s)
  /\ procs[p].pc \in {"reported", "over"} =>
       procs'[p].written = procs[p].written /\ procs'[p].code = procs[p].code

\* A process whose exit was reported is dead, and so is what it left behind.
LEMMA ReportedIsDead ==
  ASSUME ProcInv, NEW p \in ProcIds, procs[p].pc \in {"reported", "over"}
  PROVE  ~Writers(p)
<1>1. \A s \in Streams : Pipe(p, s)
  BY DEF ProcInv, Pipes
<1> QED
  BY <1>1 DEF Pipe, Streams

\* All of its output has left its pipes.
LEMMA ReportedIsShipped ==
  ASSUME TypeOK, ProcInv, NEW p \in ProcIds, NEW s \in Streams,
         procs[p].eof[s] \/ procs[p].pc \in {"reported", "over"}
  PROVE  Shipped(p, s) = procs[p].written[s]
<1>1. Pipe(p, s)
  BY DEF ProcInv, Pipes
<1>2. procs[p].written[s] \in Int
  BY DEF TypeOK, ExecTypeOK, ProcRecord
<1> QED
  BY <1>1, <1>2 DEF Pipe, Shipped

\* A process that a step leaves alone.
LEMMA SteadySame ==
  ASSUME NEW p \in ProcIds, procs'[p] = procs[p], owner'[p] = owner[p]
  PROVE  Steady(p)
BY DEF Steady, Shipped

\* A record that says the same of a process.
LEMMA SteadyRecord ==
  ASSUME ProcInv, NEW p \in ProcIds, owner'[p] = owner[p], NEW q, procs'[p] = q,
         q.pc = procs[p].pc, q.written = procs[p].written, q.piped = procs[p].piped,
         q.held = procs[p].held,
         q.code = procs[p].code \/ procs[p].alive
  PROVE  Steady(p)
<1>1. procs[p].pc \in {"reported", "over"} => ~procs[p].alive
  BY ReportedIsDead DEF Writers
<1> QED
  BY <1>1 DEF Steady, Shipped

\* Killing a process tells nobody anything.
LEMMA KillIsSteady ==
  ASSUME TypeOK, ProcInv, NEW p \in ProcIds, owner'[p] = owner[p],
         procs'[p] = AfterKill(procs[p])
  PROVE  Steady(p)
<1>1. procs[p] \in ProcRecord
  BY DEF TypeOK, ExecTypeOK
<1> DEFINE q == AfterKill(procs[p])
<1>2. /\ q.pc = procs[p].pc /\ q.written = procs[p].written /\ q.piped = procs[p].piped
      /\ q.held = procs[p].held
      /\ q.code = procs[p].code \/ procs[p].alive
  BY <1>1 DEF AfterKill, ProcRecord
<1> HIDE DEF q
<1>3. procs'[p] = q
  BY DEF q
<1> QED
  BY <1>2, <1>3, SteadyRecord

\* Nor does what the kernel and the commands do.
LEMMA OsIsSteady ==
  ASSUME TypeOK, ProcInv, NEW p \in ProcIds, OsStep(p), owner' = owner
  PROVE  Steady(p)
<1>1. procs[p] \in ProcRecord /\ procs \in [ProcIds -> ProcRecord] /\ owner'[p] = owner[p]
  BY DEF TypeOK, ExecTypeOK
<1>3. ASSUME NEW s \in Streams, Writes(p, s) PROVE Steady(p)
  <2> DEFINE q == [procs[p] EXCEPT !.written[s] = @ + 1, !.piped[s] = @ + 1]
  <2>1. procs' = [procs EXCEPT ![p] = q] /\ Writers(p)
    BY <1>3 DEF Writes
  <2>2. procs'[p] = q
    BY <2>1, <1>1
  <2>3. \A t \in Streams : procs[p].written[t] \in Int /\ procs[p].piped[t] \in Int
    BY <1>1 DEF ProcRecord
  <2>4. /\ q.pc = procs[p].pc /\ q.held = procs[p].held
        /\ \A t \in Streams : q.written[t] - q.piped[t] = procs[p].written[t] - procs[p].piped[t]
    BY <1>1, <2>3 DEF ProcRecord
  <2> HIDE DEF q
  <2>5. procs[p].pc \notin {"reported", "over"}
    BY <2>1, ReportedIsDead
  <2>6. \A s1 \in Streams : Shipped(p, s1)' = Shipped(p, s1)
    BY <2>2, <2>4 DEF Shipped
  <2> QED
    BY <1>1, <2>2, <2>4, <2>5, <2>6 DEF Steady
<1>5. ASSUME NEW kind \in Children, LeavesChild(p, kind) PROVE Steady(p)
  <2> DEFINE q == [procs[p] EXCEPT !.child = kind]
  <2>1. procs'[p] = q
    BY <1>1, <1>5 DEF LeavesChild
  <2>2. /\ q.pc = procs[p].pc /\ q.code = procs[p].code
        /\ q.held = procs[p].held /\ q.written = procs[p].written /\ q.piped = procs[p].piped
    BY <1>1 DEF ProcRecord
  <2> HIDE DEF q
  <2> QED
    BY <1>1, <2>1, <2>2, SteadyRecord
<1>6. ASSUME NEW code \in {Returned, Killed}, Exits(p, code) PROVE Steady(p)
  <2> DEFINE q == [procs[p] EXCEPT !.alive = FALSE, !.code = code]
  <2>1. procs'[p] = q /\ procs[p].alive
    BY <1>1, <1>6 DEF Exits
  <2>2. /\ q.pc = procs[p].pc
        /\ q.held = procs[p].held /\ q.written = procs[p].written /\ q.piped = procs[p].piped
    BY <1>1 DEF ProcRecord
  <2> HIDE DEF q
  <2> QED
    BY <1>1, <2>1, <2>2, SteadyRecord
<1>7. ASSUME ChildExits(p) PROVE Steady(p)
  <2> DEFINE q == [procs[p] EXCEPT !.child = "none"]
  <2>1. procs'[p] = q
    BY <1>1, <1>7 DEF ChildExits
  <2>2. /\ q.pc = procs[p].pc /\ q.code = procs[p].code
        /\ q.held = procs[p].held /\ q.written = procs[p].written /\ q.piped = procs[p].piped
    BY <1>1 DEF ProcRecord
  <2> HIDE DEF q
  <2> QED
    BY <1>1, <2>1, <2>2, SteadyRecord
<1> QED
  BY <1>3, <1>5, <1>6, <1>7 DEF OsStep

\* The steps that tell the client of p something of it.
Tells(p) == ExecAcks(p) \/ ReportExit(p) \/ \E s \in Streams : StreamSends(p, s)

\* p is forked.
Begins(p) == \E c \in Conns : \E r \in inbox[c] : ExecForks(c, r) /\ nextID = p

\* A step of p that tells its client nothing, or a step of another process.
LEMMA ProcessIsSteady ==
  ASSUME TypeOK, ProcInv, NEW p \in ProcIds, NEW x \in ProcIds,
         \/ ExecRegisters(x) \/ ExecAcks(x) \/ ReportExit(x) \/ Forget(x)
         \/ Reap(x) \/ ProcStep(x) \/ \E s \in Streams : Stream(x, s)
  PROVE  Steady(p) \/ Tells(p)
<1>1. owner'[p] = owner[p] /\ procs \in [ProcIds -> ProcRecord] /\ procs[p] \in ProcRecord
  BY DEF TypeOK, ExecTypeOK, ExecRegisters, ExecAcks, ReportExit, Forget, Reap, ProcStep, Stream,
         StreamReads, StreamSends
<1>2. CASE p # x
  <2>1. procs'[p] = procs[p]
    BY <1>1, <1>2 DEF ExecRegisters, Register, ExecAcks, ReportExit, Forget, Goto, Reap, WaitReturns,
       ProcStep, OsStep, Writes, LeavesChild, Exits, ChildExits, Stream, StreamReads, StreamSends
  <2> QED
    BY <1>1, <2>1, SteadySame
<1>3. CASE p = x
  <2>1. ASSUME NEW to, Goto(p, to), <<procs[p].pc, to>> \in {<<"forked", "started">>, <<"reported", "over">>}
        PROVE  Steady(p)
    <3> DEFINE q == [procs[p] EXCEPT !.pc = to]
    <3>1. procs'[p] = q
      BY <1>1, <2>1 DEF Goto
    <3>2. /\ q.pc = to /\ q.code = procs[p].code /\ q.held = procs[p].held
          /\ q.written = procs[p].written /\ q.piped = procs[p].piped
      BY <1>1 DEF ProcRecord
    <3> HIDE DEF q
    <3> QED
      BY <1>1, <2>1, <3>1, <3>2 DEF Steady, Shipped
  <2>2. CASE ExecRegisters(p)
    BY <2>1, <2>2 DEF ExecRegisters, Register
  <2>3. CASE Forget(p)
    BY <2>1, <2>3 DEF Forget
  <2>4. CASE Reap(p)
    <3> DEFINE q == [procs[p] EXCEPT !.done = TRUE]
    <3>1. procs'[p] = q
      BY <1>1, <2>4 DEF Reap, WaitReturns
    <3>2. /\ q.pc = procs[p].pc /\ q.code = procs[p].code /\ q.held = procs[p].held
          /\ q.written = procs[p].written /\ q.piped = procs[p].piped
      BY <1>1 DEF ProcRecord
    <3> HIDE DEF q
    <3> QED
      BY <1>1, <3>1, <3>2, SteadyRecord
  <2>5. CASE ProcStep(p)
    BY <2>5, OsIsSteady DEF ProcStep
  <2>6. ASSUME NEW s \in Streams, StreamReads(p, s) PROVE Steady(p)
    <3>1. procs[p].pc = "streaming" /\ ~procs[p].held[s]
      BY <2>6 DEF StreamReads
    <3>2. \A t \in Streams : procs[p].written[t] \in Int /\ procs[p].piped[t] \in Int
      BY <1>1 DEF ProcRecord
    <3>3. CASE procs' = [procs EXCEPT ![p].piped[s] = @ - 1, ![p].held[s] = TRUE]
      <4> DEFINE q == [procs[p] EXCEPT !.piped[s] = @ - 1, !.held[s] = TRUE]
      <4>1. procs'[p] = q
        BY <1>1, <3>3
      <4>2. /\ q.pc = procs[p].pc /\ q.written = procs[p].written
            /\ q.piped[s] = procs[p].piped[s] - 1 /\ q.held[s]
            /\ \A t \in Streams \ {s} : q.piped[t] = procs[p].piped[t] /\ q.held[t] = procs[p].held[t]
        BY <1>1 DEF ProcRecord
      <4> HIDE DEF q
      <4>3. \A t \in Streams : Shipped(p, t)' = Shipped(p, t)
        BY <3>1, <3>2, <4>1, <4>2 DEF Shipped
      <4> QED
        BY <1>1, <3>1, <4>1, <4>2, <4>3 DEF Steady
    <3>4. CASE procs' = [procs EXCEPT ![p].eof[s] = TRUE]
      <4> DEFINE q == [procs[p] EXCEPT !.eof[s] = TRUE]
      <4>1. procs'[p] = q
        BY <1>1, <3>4
      <4>2. /\ q.pc = procs[p].pc /\ q.code = procs[p].code /\ q.held = procs[p].held
            /\ q.written = procs[p].written /\ q.piped = procs[p].piped
        BY <1>1 DEF ProcRecord
      <4> HIDE DEF q
      <4> QED
        BY <1>1, <4>1, <4>2, SteadyRecord
    <3> QED
      BY <2>6, <3>3, <3>4 DEF StreamReads
  <2> QED
    BY <1>3, <2>2, <2>3, <2>4, <2>5, <2>6 DEF Tells, Stream
<1> QED
  BY <1>2, <1>3

\* Every step: a process is forked, its client is told of it, or it is steady.
LEMMA StepIsSteady ==
  ASSUME TypeOK, ProcInv, NEW p \in ProcIds, [Next]_vars
  PROVE  Steady(p) \/ Tells(p) \/ Begins(p)
<1>0. /\ procs \in [ProcIds -> ProcRecord] /\ owner \in [ProcIds -> Conns \cup {None}]
      /\ registered \subseteq ProcIds
  BY DEF TypeOK, ExecTypeOK
<1>1. ASSUME UNCHANGED <<procs, owner>> PROVE Steady(p)
  BY <1>1, SteadySame
<1>2. ASSUME NEW c \in Conns, Accept(c) \/ SetUp(c) PROVE Steady(p)
  BY <1>1, <1>2 DEF Accept, SetUp, SendReady, Leave, execs
<1>3. ASSUME NEW c \in Clients, ClientAsks(c) \/ ClientLeaves(c) PROVE Steady(p)
  BY <1>1, <1>3 DEF ClientAsks, ClientLeaves, execs
<1>4. ASSUME NEW c \in Calls, CallStep(c) \/ CallTimesOut(c) PROVE Steady(p)
  BY <1>1, <1>4 DEF CallStep, CallHello, CallReads, CallReturns, CallFails, CallTimesOut, execs
<1>5. CASE Stop
  <2>1. /\ procs'[p] = (IF p \in registered THEN AfterKill(procs[p]) ELSE procs[p])
        /\ owner'[p] = owner[p]
    BY <1>5 DEF Stop, KillAll
  <2> QED
    BY <2>1, KillIsSteady, SteadySame
<1>6. CASE Halt \/ UNCHANGED vars
  BY <1>1, <1>6 DEF Halt, vars, execs
<1>7. ASSUME NEW c \in Conns, NEW r \in inbox[c], Handle(c, r) PROVE Steady(p) \/ Begins(p)
  <2>1. CASE HandlePing(c, r) \/ HandleUnknown(c, r) \/ NoRuntime(c, r) \/ ForkRefused(c, r)
             \/ HandleFile(c, r)
    BY <1>1, <2>1 DEF HandlePing, HandleUnknown, NoRuntime, ForkRefused, HandleFile, LoseId, execs
  <2>2. CASE HandleStdin(c, r)
    <3>1. CASE UNCHANGED procs
      BY <1>1, <2>2, <3>1 DEF HandleStdin
    <3>2. CASE r.proc \in registered /\ procs' = [procs EXCEPT ![r.proc].stdin = Append(@, r.id)]
      <4> DEFINE q == [procs[r.proc] EXCEPT !.stdin = Append(@, r.id)]
      <4>1. r.proc \in ProcIds /\ procs[r.proc] \in ProcRecord
        BY <1>0, <3>2
      <4>2. procs' = [procs EXCEPT ![r.proc] = q] /\ owner'[p] = owner[p]
        BY <2>2, <3>2 DEF HandleStdin
      <4>3. CASE p = r.proc
        <5>1. procs'[p] = q
          BY <1>0, <4>1, <4>2, <4>3
        <5>2. /\ q.pc = procs[p].pc /\ q.code = procs[p].code /\ q.held = procs[p].held
              /\ q.written = procs[p].written /\ q.piped = procs[p].piped
          BY <4>1, <4>3 DEF ProcRecord
        <5> HIDE DEF q
        <5> QED
          BY <4>2, <5>1, <5>2, SteadyRecord
      <4>4. CASE p # r.proc
        <5>1. procs'[p] = procs[p]
          BY <1>0, <4>2, <4>4
        <5> QED
          BY <4>2, <5>1, SteadySame
      <4> QED
        BY <4>3, <4>4
    <3> QED
      BY <2>2, <3>1, <3>2 DEF HandleStdin, WriteStdin
  <2>3. CASE HandleSignal(c, r)
    <3>1. /\ procs'[p] = procs[p] \/ procs'[p] = AfterKill(procs[p])
          /\ owner'[p] = owner[p]
      BY <1>0, <2>3 DEF HandleSignal, Kill
    <3> QED
      BY <3>1, KillIsSteady, SteadySame
  <2>4. CASE ExecForks(c, r) /\ nextID # p
    <3>1. procs'[p] = procs[p] /\ owner'[p] = owner[p]
      BY <1>0, <2>4 DEF ExecForks, Fork
    <3> QED
      BY <3>1, SteadySame
  <2>5. CASE ExecForks(c, r) /\ nextID = p
    BY <2>5 DEF Begins
  <2> QED
    BY <1>7, <2>1, <2>2, <2>3, <2>4, <2>5 DEF Handle
<1> QED
  BY <1>2, <1>3, <1>4, <1>5, <1>6, <1>7, ProcessIsSteady DEF Next

\* Every step: nothing is sent, or a message that is about no process, or a
\* client is told of its process.
LEMMA StepSends ==
  ASSUME TypeOK, [Next]_vars
  PROVE  \/ sent' = sent
         \/ \E c : \E m \in Message : m.type \notin About /\ Send(c, m)
         \/ \E p \in ProcIds : Tells(p)
<1>1. ASSUME NEW c \in Conns, NEW type \in {"ready", "pong", "reply", "error"}, NEW id \in Nat,
             NEW why \in {"none", "unknown", "runtime", "start", "fs"}, NEW d,
             \/ Send(d, Msg(type, c)) \/ Send(d, [Msg(type, c) EXCEPT !.id = id])
             \/ Send(d, [Msg(type, c) EXCEPT !.id = id, !.why = why])
      PROVE  \E e : \E m \in Message : m.type \notin About /\ Send(e, m)
  <2>1. type \in MessageTypes /\ type \notin About
    BY DEF MessageTypes, About, Streams
  <2>2. /\ Msg(type, c) \in Message
        /\ [Msg(type, c) EXCEPT !.id = id] \in Message
        /\ [Msg(type, c) EXCEPT !.id = id, !.why = why] \in Message
    BY <2>1, PlainType, AnswerType
  <2>3. /\ Msg(type, c).type = type
        /\ [Msg(type, c) EXCEPT !.id = id].type = type
        /\ [Msg(type, c) EXCEPT !.id = id, !.why = why].type = type
    BY DEF Msg
  <2>4. ASSUME NEW m \in Message, m.type = type, Send(d, m)
        PROVE  \E e : \E n \in Message : n.type \notin About /\ Send(e, n)
    BY <2>1, <2>4
  <2>5. CASE Send(d, Msg(type, c))
    BY <2>2, <2>3, <2>4, <2>5
  <2>6. CASE Send(d, [Msg(type, c) EXCEPT !.id = id])
    BY <2>2, <2>3, <2>4, <2>6
  <2>7. CASE Send(d, [Msg(type, c) EXCEPT !.id = id, !.why = why])
    BY <2>2, <2>3, <2>4, <2>7
  <2> QED
    BY <1>1, <2>5, <2>6, <2>7
<1>2. ASSUME NEW c \in Conns, Accept(c) \/ SetUp(c)
      PROVE  sent' = sent \/ \E e : \E m \in Message : m.type \notin About /\ Send(e, m)
  BY <1>1, <1>2 DEF Accept, SetUp, SendReady, Leave
<1>3. ASSUME NEW c \in Conns, NEW r \in inbox[c], Handle(c, r)
      PROVE  sent' = sent \/ \E e : \E m \in Message : m.type \notin About /\ Send(e, m)
  <2>1. r.id \in Nat
    BY DEF TypeOK, Request
  <2>2. CASE HandlePing(c, r)
    BY <1>1, <2>1, <2>2 DEF HandlePing
  <2>3. CASE HandleUnknown(c, r) \/ NoRuntime(c, r) \/ ForkRefused(c, r)
    BY <1>1, <2>1, <2>3 DEF HandleUnknown, NoRuntime, ForkRefused
  <2>4. CASE HandleFile(c, r)
    BY <1>1, <2>1, <2>4 DEF HandleFile
  <2>5. CASE ExecForks(c, r) \/ HandleStdin(c, r) \/ HandleSignal(c, r)
    BY <2>5 DEF ExecForks, HandleStdin, HandleSignal
  <2> QED
    BY <1>3, <2>2, <2>3, <2>4, <2>5 DEF Handle
<1>4. ASSUME NEW c \in Clients, ClientAsks(c) \/ ClientLeaves(c) PROVE sent' = sent
  BY <1>4 DEF ClientAsks, ClientLeaves
<1>5. ASSUME NEW c \in Calls, CallStep(c) \/ CallTimesOut(c) PROVE sent' = sent
  BY <1>5 DEF CallStep, CallHello, CallReads, CallReturns, CallFails, CallTimesOut
<1>6. CASE Stop \/ Halt \/ UNCHANGED vars
  BY <1>6 DEF Stop, Halt, vars
<1>7. ASSUME NEW p \in ProcIds,
             \/ ExecRegisters(p) \/ ExecAcks(p) \/ ReportExit(p) \/ Forget(p)
             \/ Reap(p) \/ ProcStep(p) \/ \E s \in Streams : Stream(p, s)
      PROVE  sent' = sent \/ Tells(p)
  BY <1>7 DEF ExecRegisters, Forget, Reap, ProcStep, Stream, StreamReads, Tells
<1> QED
  BY <1>2, <1>3, <1>4, <1>5, <1>6, <1>7 DEF Next

\* What a client is told: a message of its own process, sent to the connection
\* of that process by a process that has started.
LEMMA Telling ==
  ASSUME TypeOK, ProcInv, NEW p \in ProcIds, Tells(p)
  PROVE  /\ owner[p] \in Conns /\ owner' = owner /\ open' = open /\ nextID' = nextID /\ pc' = pc
         /\ \E m \in Message :
              /\ Send(owner[p], m) /\ m.proc = p
              /\ \/ ExecAcks(p) /\ m.type = "ack"
                 \/ ReportExit(p) /\ m.type = "exit" /\ m.n = procs[p].code
                 \/ \E s \in Streams :
                      /\ StreamSends(p, s) /\ m.type = s
                      /\ m.n = procs[p].written[s] - procs[p].piped[s]
<1>1. owner' = owner /\ open' = open /\ nextID' = nextID /\ pc' = pc
  BY DEF Tells, ExecAcks, ReportExit, StreamSends, conns
<1>2. procs[p].pc # "none"
  <2>1. ASSUME procs[p].pc = "none", NEW s \in Streams PROVE ~procs[p].held[s]
    <3>1. procs[p] = NoProc
      BY <2>1 DEF ProcInv, Life
    <3> QED
      BY <3>1 DEF NoProc
  <2> QED
    BY <2>1 DEF Tells, ExecAcks, ReportExit, ExitIsDue, StreamSends
<1>3. owner[p] \in Conns
  BY <1>2 DEF TypeOK, ProcInv, Life
<1>4. PICK c \in Conns : c = owner[p]
  BY <1>3
<1>5. p \in Nat /\ procs[p] \in ProcRecord
  BY ExecAssumption DEF ProcIds, TypeOK, ExecTypeOK
<1>6. CASE ExecAcks(p)
  <2> DEFINE m == [Msg("ack", c) EXCEPT !.proc = p]
  <2>1. m \in Message
    BY <1>5, PlainType DEF MessageTypes
  <2>2. m.proc = p /\ m.type = "ack" /\ Send(c, m)
    BY <1>4, <1>6 DEF Msg, ExecAcks
  <2> HIDE DEF m
  <2> QED
    BY <1>1, <1>3, <1>4, <1>6, <2>1, <2>2
<1>7. CASE ReportExit(p)
  <2> DEFINE m == [Msg("exit", c) EXCEPT !.proc = p, !.n = procs[p].code]
  <2>1. procs[p].code \in Int
    BY <1>5 DEF ProcRecord, ExitCodes, Returned, Killed
  <2>2. m \in Message
    BY <1>5, <2>1, ReportType DEF MessageTypes
  <2>3. m.proc = p /\ m.type = "exit" /\ m.n = procs[p].code /\ Send(c, m)
    BY <1>4, <1>7 DEF Msg, ReportExit
  <2> HIDE DEF m
  <2> QED
    BY <1>1, <1>3, <1>4, <1>7, <2>2, <2>3
<1>8. ASSUME NEW s \in Streams, StreamSends(p, s)
      PROVE  \E m \in Message :
               /\ Send(owner[p], m) /\ m.proc = p /\ m.type = s
               /\ m.n = procs[p].written[s] - procs[p].piped[s]
  <2> DEFINE m == [Msg(s, c) EXCEPT !.proc = p, !.n = procs[p].written[s] - procs[p].piped[s]]
  <2>1. procs[p].written[s] - procs[p].piped[s] \in Int
    BY <1>5 DEF ProcRecord
  <2>2. m \in Message
    BY <1>5, <2>1, ReportType DEF MessageTypes
  <2>3. /\ m.proc = p /\ m.type = s /\ m.n = procs[p].written[s] - procs[p].piped[s]
        /\ Send(c, m)
    BY <1>4, <1>8 DEF Msg, StreamSends
  <2> HIDE DEF m
  <2> QED
    BY <1>4, <2>2, <2>3
<1> QED
  BY <1>1, <1>3, <1>6, <1>7, <1>8 DEF Tells

\* What a fork does: the id is new, so no message is about it.
LEMMA Beginning ==
  ASSUME TypeOK, ProcInv, NEW p \in ProcIds, Begins(p)
  PROVE  /\ \E c \in Conns : owner' = [owner EXCEPT ![p] = c] /\ pc[c] # "new"
         /\ owner[p] = None /\ procs[p] = NoProc
         /\ procs'[p] = [NoProc EXCEPT !.pc = "forked", !.alive = TRUE]
         /\ \A x \in ProcIds \ {p} : procs'[x] = procs[x]
         /\ sent' = sent /\ open' = open /\ pc' = pc
<1>1. PICK c \in Conns : \E r \in inbox[c] : ExecForks(c, r) /\ nextID = p
  BY DEF Begins
<1>2. /\ owner' = [owner EXCEPT ![p] = c] /\ pc[c] # "new"
      /\ sent' = sent /\ open' = open /\ pc' = pc
      /\ procs' = [procs EXCEPT ![p] = [NoProc EXCEPT !.pc = "forked", !.alive = TRUE]]
  BY <1>1 DEF ExecForks, Take, Fork, conns
<1>3. procs[p].pc = "none" /\ Life(p)
  BY <1>1, ExecAssumption DEF ProcInv, Life, ProcIds
<1>4. owner[p] = None /\ procs[p] = NoProc
  BY <1>3 DEF Life
<1>5. procs \in [ProcIds -> ProcRecord]
  BY DEF TypeOK, ExecTypeOK
<1> QED
  BY <1>2, <1>4, <1>5

\* Who is connected, and who owns the processes, after a step.
LEMMA Connecting ==
  ASSUME TypeOK, [Next]_vars
  PROVE  /\ \A c \in Conns : pc[c] # "new" => pc'[c] # "new"
         /\ \A c \in Conns : c \in open' => c \in open \/ (pc[c] = "new" /\ pc'[c] # "new")
         /\ owner' = owner \/ \E p \in ProcIds : Begins(p)
<1>0. pc \in [Conns -> {"new", "accepted", "ready", "closed"}]
  BY DEF TypeOK
<1>1. ASSUME NEW c \in Conns, Accept(c) \/ SetUp(c)
      PROVE  /\ \A d \in Conns : pc[d] # "new" => pc'[d] # "new"
             /\ \A d \in Conns : d \in open' => d \in open \/ (pc[d] = "new" /\ pc'[d] # "new")
             /\ owner' = owner
  BY <1>0, <1>1 DEF Accept, SetUp, SendReady, Leave, Advance, execs
<1>2. ASSUME NEW c \in Conns, NEW r \in inbox[c], Handle(c, r)
      PROVE  UNCHANGED <<pc, open>> /\ (owner' = owner \/ \E p \in ProcIds : Begins(p))
  <2>1. CASE ExecForks(c, r)
    BY <2>1 DEF ExecForks, Take, conns, Fork, Begins
  <2>2. CASE HandlePing(c, r) \/ HandleUnknown(c, r) \/ NoRuntime(c, r) \/ ForkRefused(c, r)
             \/ HandleStdin(c, r) \/ HandleSignal(c, r) \/ HandleFile(c, r)
    BY <2>2 DEF HandlePing, HandleUnknown, NoRuntime, ForkRefused, HandleStdin, HandleSignal,
                HandleFile, Take, conns, execs
  <2> QED
    BY <1>2, <2>1, <2>2 DEF Handle
<1>3. ASSUME NEW c \in Clients, ClientAsks(c) \/ ClientLeaves(c)
      PROVE  open' \subseteq open /\ UNCHANGED <<pc, owner>>
  BY <1>3 DEF ClientAsks, ClientLeaves, HangUp, conns, execs
<1>4. ASSUME NEW c \in Calls, CallStep(c) \/ CallTimesOut(c)
      PROVE  open' \subseteq open /\ UNCHANGED <<pc, owner>>
  BY <1>4 DEF CallStep, CallHello, CallReads, CallReturns, CallFails, CallTimesOut, HangUp,
              conns, execs
<1>5. CASE Stop \/ Halt \/ UNCHANGED vars
  BY <1>5 DEF Stop, Halt, vars, conns, execs
<1>6. ASSUME NEW p \in ProcIds,
             \/ ExecRegisters(p) \/ ExecAcks(p) \/ ReportExit(p) \/ Forget(p)
             \/ Reap(p) \/ ProcStep(p) \/ \E s \in Streams : Stream(p, s)
      PROVE  UNCHANGED <<pc, open, owner>>
  BY <1>6 DEF ExecRegisters, ExecAcks, ReportExit, Forget, Reap, ProcStep, Stream, StreamReads,
              StreamSends, conns
<1> QED
  BY <1>1, <1>2, <1>3, <1>4, <1>5, <1>6 DEF Next

\* Nobody connects twice, and messages go where they belong.
LEMMA AddressedStep ==
  ASSUME TypeOK, TypeOK', ProcInv, SentInv, [Next]_vars, NEW c \in Conns
  PROVE  Addressed(c)' /\ Accepted(c)'
<1>1. Addressed(c) /\ Accepted(c) /\ c # None
  BY SessionAssumption DEF SentInv, Conns
<1>2. Accepted(c)'
  <2>1. CASE owner' = owner
    BY <1>1, <2>1, Connecting DEF Accepted
  <2>2. ASSUME NEW p \in ProcIds, Begins(p) PROVE Accepted(c)'
    <3>1. PICK d \in Conns : owner' = [owner EXCEPT ![p] = d] /\ pc[d] # "new"
      BY <2>2, Beginning
    <3>2. \A x \in ProcIds : owner'[x] = c => owner[x] = c \/ d = c
      BY <3>1 DEF TypeOK
    <3>3. open' = open /\ pc' = pc
      BY <2>2, Beginning
    <3> QED
      BY <1>1, <3>1, <3>2, <3>3 DEF Accepted
  <2> QED
    BY <2>1, <2>2, Connecting
<1>3. \A x \in ProcIds : owner[x] = c => owner'[x] = c
  <2>1. ASSUME NEW p \in ProcIds, Begins(p), NEW x \in ProcIds, owner[x] = c PROVE owner'[x] = c
    BY <1>1, <2>1, Beginning DEF TypeOK
  <2> QED
    BY <2>1, Connecting
<1>4. ASSUME NEW i \in DOMAIN sent[c], sent[c][i].type \in About
      PROVE  sent[c][i].proc \in ProcIds /\ owner'[sent[c][i].proc] = c
  BY <1>1, <1>3, <1>4 DEF Addressed
<1>5. sent[c] \in Seq(Message) /\ sent'[c] \in Seq(Message)
  BY DEF TypeOK
<1>6. ASSUME NEW d, NEW m \in Message, Send(d, m),
             m.type \in About => m.proc \in ProcIds /\ owner'[m.proc] = d
      PROVE  Addressed(c)'
  <2>1. /\ \A i \in 1 .. Len(sent[c]) : sent'[c][i] = sent[c][i]
        /\ d \in open /\ c = d =>
             Len(sent'[c]) = Len(sent[c]) + 1 /\ sent'[c][Len(sent[c]) + 1] = m
        /\ ~(d \in open /\ c = d) => sent'[c] = sent[c]
    BY <1>6, SendGrows
  <2>2. CASE d \in open /\ c = d
    <3>1. ASSUME NEW i \in DOMAIN sent'[c], sent'[c][i].type \in About
          PROVE  sent'[c][i].proc \in ProcIds /\ owner'[sent'[c][i].proc] = c
      <4>1. i \in 1 .. Len(sent[c]) \/ i = Len(sent[c]) + 1
        BY <1>5, <2>1, <2>2
      <4>2. CASE i \in 1 .. Len(sent[c])
        BY <1>4, <1>5, <2>1, <3>1, <4>2
      <4>3. CASE i = Len(sent[c]) + 1
        BY <1>6, <2>1, <2>2, <3>1, <4>3
      <4> QED
        BY <4>1, <4>2, <4>3
    <3> QED
      BY <3>1 DEF Addressed
  <2>3. CASE ~(d \in open /\ c = d)
    BY <1>4, <2>1, <2>3 DEF Addressed
  <2> QED
    BY <2>2, <2>3
<1>7. ASSUME sent' = sent PROVE Addressed(c)'
  BY <1>4, <1>7 DEF Addressed
<1>8. ASSUME NEW d, NEW m \in Message, m.type \notin About, Send(d, m) PROVE Addressed(c)'
  BY <1>6, <1>8
<1>9. ASSUME NEW p \in ProcIds, Tells(p) PROVE Addressed(c)'
  <2>1. PICK m \in Message : Send(owner[p], m) /\ m.proc = p
    BY <1>9, Telling
  <2>2. owner' = owner
    BY <1>9, Telling
  <2> QED
    BY <1>6, <2>1, <2>2
<1> QED
  BY <1>2, <1>7, <1>8, <1>9, StepSends

\* The steps that are silent about p leave what it was told as it was.
LEMMA ReportsStay ==
  ASSUME TypeOK, TypeOK', ProcInv, SentInv, [Next]_vars, NEW p \in ProcIds, Steady(p),
         ~Tells(p)
  PROVE  Reports(p)'
<1>1. Reports(p) /\ owner'[p] = owner[p]
  BY DEF SentInv, Steady
<1>2. \A type \in About :
        /\ Places(p, type)' = Places(p, type)
        /\ \A i \in Places(p, type) : Carried(p, i)' = Carried(p, i)
  <2>1. CASE sent' = sent
    BY <1>1, <2>1, PlacesStay
  <2>2. ASSUME NEW d, NEW m \in Message, Send(d, m), m.type \notin About \/ m.proc # p,
               NEW type \in About
        PROVE  /\ Places(p, type)' = Places(p, type)
               /\ \A i \in Places(p, type) : Carried(p, i)' = Carried(p, i)
    <3>1. ~(m.type = type /\ m.proc = p)
      BY <2>2
    <3> QED
      BY <1>1, <2>2, <3>1, PlacesGrow
  <2>3. ASSUME NEW x \in ProcIds, Tells(x)
        PROVE  \E m \in Message : Send(owner[x], m) /\ m.proc # p
    <3>1. x # p
      BY <2>3
    <3> QED
      BY <2>3, <3>1, Telling
  <2> QED
    BY <2>1, <2>2, <2>3, StepSends
<1>3. owner[p] \in open' => owner[p] \in open
  <2>1. owner[p] \in open' => owner[p] \in Conns
    BY DEF TypeOK
  <2>2. owner[p] \in Conns => pc[owner[p]] # "new"
    BY DEF SentInv, Accepted
  <2> QED
    BY <2>1, <2>2, Connecting
<1>4. {"ack", "exit"} \subseteq About /\ Streams \subseteq About
  BY DEF About
<1>5. \A type \in About : Received(p, type)' <=> Received(p, type)
  BY <1>2 DEF Received
<1>6. ASSUME Received(p, "exit") \/ Places(p, "exit") # {}
      PROVE  procs'[p].written = procs[p].written /\ procs'[p].code = procs[p].code
  BY <1>1, <1>6 DEF Reports, Received, Steady
<1>7. \A s \in Streams : Cardinality(Places(p, s))' = Cardinality(Places(p, s))
  BY <1>2, <1>4
<1> QED
  BY <1>1, <1>2, <1>3, <1>4, <1>5, <1>6, <1>7 DEF Reports, Steady

\* A process that has just been forked was told nobody.
LEMMA ReportsBegin ==
  ASSUME TypeOK, TypeOK', ProcInv, SentInv, NEW p \in ProcIds, Begins(p)
  PROVE  Reports(p)' /\ \A type \in About : Places(p, type)' = {} /\ Places(p, type) = {}
<1>1. PICK c \in Conns : owner' = [owner EXCEPT ![p] = c]
  BY Beginning
<1>2. /\ owner[p] = None /\ sent' = sent /\ owner'[p] = c /\ c # None
      /\ procs'[p] = [NoProc EXCEPT !.pc = "forked", !.alive = TRUE]
  BY <1>1, Beginning, SessionAssumption DEF TypeOK, Conns
<1>3. ASSUME NEW type \in About PROVE Places(p, type)' = {} /\ Places(p, type) = {}
  <2>1. Places(p, type)' = {i \in DOMAIN sent[c] : sent[c][i].type = type /\ sent[c][i].proc = p}
    BY <1>2 DEF Places
  <2> QED
    BY <1>2, <1>3, <2>1, NothingBeforeFork DEF Places
<1>4. /\ ~Received(p, "ack")' /\ ~Received(p, "exit")' /\ Places(p, "exit")' = {}
      /\ \A s \in Streams : Places(p, s)' = {}
  BY <1>3 DEF Received, About
<1>5. \A s \in Streams : Cardinality(Places(p, s))' = 0
  BY <1>4, FS_EmptySet
<1>6. procs'[p].pc = "forked" /\ \A s \in Streams : Shipped(p, s)' = 0
  <2> DEFINE q == [NoProc EXCEPT !.pc = "forked", !.alive = TRUE]
  <2>1. /\ q.pc = "forked"
        /\ \A s \in Streams : q.written[s] = 0 /\ q.piped[s] = 0 /\ ~q.held[s]
    BY DEF NoProc
  <2>2. procs'[p] = q
    BY <1>2
  <2> HIDE DEF q
  <2> QED
    BY <2>1, <2>2 DEF Shipped
<1> QED
  BY <1>3, <1>4, <1>5, <1>6 DEF Reports

\* The goroutines tell the client in turn: the Ack first, the output as it is
\* read, the exit last.
LEMMA ReportsGrow ==
  ASSUME TypeOK, TypeOK', ProcInv, SentInv, NEW p \in ProcIds, Tells(p)
  PROVE  Reports(p)'
<1> USE DEF About
<1>1. Reports(p) /\ Pipes(p) /\ procs \in [ProcIds -> ProcRecord] /\ procs[p] \in ProcRecord
  BY DEF SentInv, ProcInv, TypeOK, ExecTypeOK
<1>2. PICK c \in Conns : c = owner[p]
  BY Telling
<1>3. PICK m \in Message :
        /\ Send(c, m) /\ m.proc = p
        /\ \/ ExecAcks(p) /\ m.type = "ack"
           \/ ReportExit(p) /\ m.type = "exit" /\ m.n = procs[p].code
           \/ \E s \in Streams : StreamSends(p, s) /\ m.type = s
  BY <1>2, Telling
<1>4. owner'[p] = c /\ open' = open
  BY <1>2, Telling
<1>5. \A type :
        /\ c \in open /\ m.type = type =>
             /\ Places(p, type)' = Places(p, type) \cup {Len(sent[c]) + 1}
             /\ \A i : i = Len(sent[c]) + 1 => Carried(p, i)' = m.n
        /\ ~(c \in open /\ m.type = type) => Places(p, type)' = Places(p, type)
        /\ \A i \in Places(p, type) :
             i \in 1 .. Len(sent[c]) /\ Carried(p, i)' = Carried(p, i)
  <2>1. ASSUME NEW type
        PROVE  /\ c \in open /\ m.type = type =>
                    /\ Places(p, type)' = Places(p, type) \cup {Len(sent[c]) + 1}
                    /\ \A i : i = Len(sent[c]) + 1 => Carried(p, i)' = m.n
               /\ ~(c \in open /\ m.type = type) => Places(p, type)' = Places(p, type)
               /\ \A i \in Places(p, type) : Carried(p, i)' = Carried(p, i)
    BY <1>2, <1>3, <1>4, PlacesGrow
  <2>2. ASSUME NEW type PROVE Places(p, type) \subseteq 1 .. Len(sent[c])
    BY <1>2, PlacesFinite, SessionAssumption DEF Conns
  <2> QED
    BY <2>1, <2>2
<1>6. Len(sent[c]) \in Nat
  BY DEF TypeOK
<1>7. CASE ExecAcks(p)
  <2> DEFINE q == [procs[p] EXCEPT !.pc = "streaming"]
  <2>1. procs'[p] = q /\ procs[p].pc = "started"
    BY <1>1, <1>7 DEF ExecAcks, Goto
  <2>2. /\ q.pc = "streaming" /\ q.code = procs[p].code /\ q.held = procs[p].held
        /\ q.written = procs[p].written /\ q.piped = procs[p].piped
    BY <1>1 DEF ProcRecord
  <2> HIDE DEF q
  <2>3. m.type = "ack" /\ m.type \notin Streams \cup {"exit"}
    <3>1. ~ReportExit(p) /\ \A s \in Streams : ~StreamSends(p, s)
      BY <2>1, <1>1 DEF ReportExit, ExitIsDue, StreamSends, Pipes, Pipe
    <3> QED
      BY <1>3, <3>1 DEF Streams
  <2>4. \A s \in Streams : Places(p, s)' = Places(p, s)
    BY <1>5, <2>3
  <2>5. Places(p, "exit")' = Places(p, "exit") /\ Places(p, "exit") = {}
    BY <1>1, <1>5, <2>1, <2>3 DEF Reports, Received
  <2>6. c \in open => Received(p, "ack")'
    BY <1>5, <2>3 DEF Received
  <2>7. \A s \in Streams : Cardinality(Places(p, s))' = Cardinality(Places(p, s))
    BY <2>4
  <2>8. \A s \in Streams : Shipped(p, s)' = Shipped(p, s)
    BY <2>1, <2>2 DEF Shipped
  <2> QED
    BY <1>1, <1>2, <1>4, <2>1, <2>2, <2>5, <2>6, <2>7, <2>8 DEF Reports, Received
<1>8. CASE ReportExit(p)
  <2> DEFINE q == [procs[p] EXCEPT !.pc = "reported"]
  <2>1. /\ procs'[p] = q /\ procs[p].pc = "streaming" /\ \A s \in Streams : procs[p].eof[s]
    BY <1>1, <1>8 DEF ReportExit, ExitIsDue, Goto
  <2>2. /\ q.pc = "reported" /\ q.code = procs[p].code /\ q.held = procs[p].held
        /\ q.written = procs[p].written /\ q.piped = procs[p].piped
    BY <1>1 DEF ProcRecord
  <2> HIDE DEF q
  <2>3. m.type = "exit" /\ m.type \notin Streams \cup {"ack"} /\ m.n = procs[p].code
    <3>1. ~ExecAcks(p) /\ \A s \in Streams : ~StreamSends(p, s)
      BY <2>1, <1>1 DEF ExecAcks, StreamSends, Pipes, Pipe
    <3> QED
      BY <1>3, <3>1 DEF Streams
  <2>4. /\ \A s \in Streams : Places(p, s)' = Places(p, s)
        /\ Places(p, "ack")' = Places(p, "ack")
    BY <1>5, <2>3
  <2>5. Places(p, "exit") = {}
    BY <1>1, <2>1 DEF Reports, Received
  <2>6. c \in open => Places(p, "exit")' = {Len(sent[c]) + 1} /\ Received(p, "exit")' /\ Received(p, "ack")'
    BY <1>1, <1>2, <1>5, <2>1, <2>3, <2>4, <2>5 DEF Received, Reports
  <2>7. c \notin open => Places(p, "exit")' = {}
    BY <1>5, <2>5
  <2>8. \A s \in Streams : Cardinality(Places(p, s))' = Cardinality(Places(p, s))
    BY <2>4
  <2>9. \A s \in Streams : Shipped(p, s)' = Shipped(p, s) /\ Shipped(p, s) = procs[p].written[s]
    BY <2>1, <2>2, ReportedIsShipped DEF Shipped
  <2>10. \A i : i = Len(sent[c]) + 1 /\ c \in open => Carried(p, i)' = procs[p].code
    BY <1>5, <2>3
  <2>11. \A s \in Streams : \A j \in Places(p, s)' : j < Len(sent[c]) + 1
    BY <1>5, <1>6, <2>4
  <2>12. Received(p, "ack")' => Received(p, "ack")
    BY <2>4 DEF Received
  <2>13. CASE c \in open
    <3>1. \A i \in Places(p, "exit")' :
            /\ Carried(p, i)' = procs'[p].code
            /\ \A s \in Streams : \A j \in Places(p, s)' : j < i
      BY <2>1, <2>2, <2>6, <2>10, <2>11, <2>13
    <3>2. \A s \in Streams : Cardinality(Places(p, s))' = Shipped(p, s)'
                             /\ Shipped(p, s)' = procs'[p].written[s]
      BY <1>1, <1>2, <2>1, <2>2, <2>8, <2>9, <2>13 DEF Reports
    <3> QED
      BY <2>1, <2>2, <2>6, <2>13, <3>1, <3>2 DEF Reports
  <2>14. CASE c \notin open
    BY <1>4, <2>1, <2>2, <2>7, <2>14 DEF Reports, Received
  <2> QED
    BY <2>13, <2>14
<1>9. ASSUME NEW s \in Streams, StreamSends(p, s) PROVE Reports(p)'
  <2> DEFINE q == [procs[p] EXCEPT !.held[s] = FALSE]
  <2>1. procs'[p] = q /\ procs[p].held[s]
    BY <1>1, <1>9 DEF StreamSends
  <2>2. procs[p].held \in [Streams -> BOOLEAN]
    BY <1>1 DEF ProcRecord
  <2>3. /\ q.pc = procs[p].pc /\ q.code = procs[p].code
        /\ q.written = procs[p].written /\ q.piped = procs[p].piped
        /\ ~q.held[s] /\ \A t \in Streams \ {s} : q.held[t] = procs[p].held[t]
    BY <1>1, <2>2 DEF ProcRecord
  <2> HIDE DEF q
  <2>4. procs[p].pc = "streaming"
    <3>1. procs[p].pc = "none" => ~procs[p].held[s]
      BY DEF ProcInv, Life, NoProc
    <3>2. procs[p].pc \notin {"forked", "started", "reported", "over"}
      BY <1>1, <2>1 DEF Pipes, Pipe
    <3> QED
      BY <1>1, <2>1, <3>1, <3>2 DEF ProcRecord
  <2>5. /\ Places(p, "exit")' = {} /\ Places(p, "exit") = {}
        /\ Places(p, "ack")' = Places(p, "ack") /\ m.type = s
    <3>1. ~ExecAcks(p) /\ ~ReportExit(p)
      BY <1>1, <2>1, <2>4 DEF ExecAcks, ReportExit, ExitIsDue, Pipes, Pipe
    <3>2. \A t \in Streams \ {s} : ~StreamSends(p, t)
      <4>1. ASSUME NEW t \in Streams \ {s}, StreamSends(p, t) PROVE FALSE
        <5>1. procs' = [procs EXCEPT ![p].held[t] = FALSE]
          BY <4>1 DEF StreamSends
        <5>2. procs'[p].held[s]
          BY <1>1, <2>1, <2>2, <4>1, <5>1 DEF ProcRecord
        <5> QED
          BY <2>1, <2>3, <5>2
      <4> QED
        BY <4>1
    <3>3. m.type = s
      BY <1>3, <3>1, <3>2
    <3>4. Places(p, "exit") = {}
      BY <1>1, <2>4 DEF Reports, Received
    <3>5. s # "exit" /\ s # "ack"
      BY DEF Streams
    <3> QED
      BY <1>5, <3>3, <3>4, <3>5
  <2>6. ASSUME NEW t \in Streams, c \in open
        PROVE  Cardinality(Places(p, t))' = Shipped(p, t)'
    <3>1. Cardinality(Places(p, t)) = Shipped(p, t)
      BY <1>1, <1>2, <2>6 DEF Reports
    <3>2. procs[p].written[t] \in Int /\ procs[p].piped[t] \in Int
      BY <1>1 DEF ProcRecord
    <3>3. CASE t = s
      <4>1. Places(p, t)' = Places(p, t) \cup {Len(sent[c]) + 1}
        BY <1>5, <2>5, <2>6, <3>3
      <4>2. Len(sent[c]) + 1 \notin Places(p, t)
        BY <1>5, <1>6
      <4>3. Cardinality(Places(p, t))' = Cardinality(Places(p, t)) + 1
        BY <4>1, <4>2, PlacesFinite, FS_AddElement
      <4>4. Shipped(p, t)' = Shipped(p, t) + 1
        BY <2>1, <2>3, <3>2, <3>3 DEF Shipped
      <4> QED
        BY <3>1, <4>3, <4>4
    <3>4. CASE t # s
      <4>1. Places(p, t)' = Places(p, t)
        BY <1>5, <2>5, <3>4
      <4>2. Shipped(p, t)' = Shipped(p, t)
        BY <2>1, <2>3, <3>4 DEF Shipped
      <4> QED
        BY <3>1, <4>1, <4>2
    <3> QED
      BY <3>3, <3>4
  <2>7. Received(p, "ack")' <=> Received(p, "ack")
    BY <2>5 DEF Received
  <2> QED
    BY <1>1, <1>2, <1>4, <2>1, <2>3, <2>4, <2>5, <2>6, <2>7 DEF Reports, Received
<1> QED
  BY <1>7, <1>8, <1>9 DEF Tells

\* Every step keeps the invariant of what was sent.
LEMMA SentStep ==
  ASSUME TypeOK, TypeOK', ProcInv, SentInv, [Next]_vars
  PROVE  SentInv'
<1>1. ASSUME NEW p \in ProcIds PROVE Reports(p)'
  BY StepIsSteady, ReportsStay, ReportsBegin, ReportsGrow
<1> QED
  BY <1>1, AddressedStep DEF SentInv

-----------------------------------------------------------------------------
(* The order of what was sent.                                              *)

\* The places of a set are numbered without a gap.
Enumerated(P) == \A k \in 1 .. Cardinality(P) : Nth(P, k) \in P

OrderInv == \A p \in ProcIds : \A type \in About : Enumerated(Places(p, type))

\* A place after all others is the last one, and the others keep their number.
LEMMA NthGrows ==
  ASSUME NEW P, IsFiniteSet(P), P \subseteq Nat, NEW m \in Nat, \A i \in P : i < m
  PROVE  /\ Cardinality(P \cup {m}) = Cardinality(P) + 1 /\ Cardinality(P) \in Nat
         /\ \A k \in 1 .. Cardinality(P) : Nth(P \cup {m}, k) = Nth(P, k)
         /\ Nth(P \cup {m}, Cardinality(P) + 1) = m
<1> DEFINE Q == P \cup {m}
           n == Cardinality(P)
<1>1. n \in Nat /\ m \notin P /\ IsFiniteSet(Q) /\ Cardinality(Q) = n + 1
  BY FS_AddElement, FS_CardinalityType
<1>2. {j \in Q : j <= m} = Q
  <2>1. \A j \in Q : j <= m
    OBVIOUS
  <2> QED
    BY <2>1
<1>3. ASSUME NEW i \in P
      PROVE  /\ {j \in Q : j <= i} = {j \in P : j <= i}
             /\ Cardinality({j \in P : j <= i}) \in Nat
             /\ Cardinality({j \in P : j <= i}) <= n
  <2>1. {j \in Q : j <= i} = {j \in P : j <= i}
    OBVIOUS
  <2>2. {j \in P : j <= i} \subseteq P
    OBVIOUS
  <2> QED
    BY <2>1, <2>2, FS_Subset, FS_CardinalityType
<1> HIDE DEF n
<1>4. ASSUME NEW k \in 1 .. n PROVE Nth(Q, k) = Nth(P, k)
  <2>1. \A i : (i \in Q /\ Cardinality({j \in Q : j <= i}) = k)
                 <=> (i \in P /\ Cardinality({j \in P : j <= i}) = k)
    <3>1. ASSUME NEW i, i \in P
          PROVE  (i \in Q /\ Cardinality({j \in Q : j <= i}) = k)
                   <=> (i \in P /\ Cardinality({j \in P : j <= i}) = k)
      <4>1. {j \in Q : j <= i} = {j \in P : j <= i} /\ i \in Q
        BY <1>3, <3>1
      <4> HIDE DEF Q
      <4> QED
        BY <3>1, <4>1
    <3>2. Cardinality({j \in Q : j <= m}) # k
      BY <1>1, <1>2
    <3> QED
      BY <1>1, <3>1, <3>2
  <2>2. (CHOOSE i \in Q : Cardinality({j \in Q : j <= i}) = k)
          = (CHOOSE i \in P : Cardinality({j \in P : j <= i}) = k)
    BY <2>1, Zenon
  <2> HIDE DEF Q
  <2> QED
    BY <2>2, Zenon DEF Nth
<1>5. Nth(Q, n + 1) = m
  <2>1. m \in Q /\ Cardinality({j \in Q : j <= m}) = n + 1
    BY <1>1, <1>2
  <2>2. ASSUME NEW i \in Q, Cardinality({j \in Q : j <= i}) = n + 1 PROVE i = m
    <3>1. ASSUME i \in P PROVE FALSE
      <4>1. {j \in Q : j <= i} = {j \in P : j <= i}
        BY <1>3, <3>1
      <4>2. Cardinality({j \in P : j <= i}) = n + 1
        BY <2>2, <4>1, Zenon
      <4> QED
        BY <1>1, <1>3, <3>1, <4>2
    <3> QED
      BY <3>1
  <2> HIDE DEF Q
  <2> QED
    BY <2>1, <2>2 DEF Nth
<1> QED
  BY <1>1, <1>4, <1>5 DEF n

\* The numbering goes on when a place is added at the end.
LEMMA EnumeratedGrows ==
  ASSUME NEW P, IsFiniteSet(P), P \subseteq Nat, NEW m \in Nat, \A i \in P : i < m, Enumerated(P)
  PROVE  Enumerated(P \cup {m})
<1>1. SUFFICES ASSUME NEW k \in 1 .. Cardinality(P \cup {m})
               PROVE  Nth(P \cup {m}, k) \in P \cup {m}
  BY DEF Enumerated
<1>2. k \in 1 .. Cardinality(P) \/ k = Cardinality(P) + 1
  <2>1. Cardinality(P \cup {m}) = Cardinality(P) + 1 /\ Cardinality(P) \in Nat
    BY NthGrows
  <2> QED
    BY <2>1
<1>3. CASE k \in 1 .. Cardinality(P)
  <2>1. Nth(P \cup {m}, k) = Nth(P, k)
    BY <1>3, NthGrows
  <2>2. Nth(P, k) \in P
    BY <1>3 DEF Enumerated
  <2> QED
    BY <2>1, <2>2
<1>4. CASE k = Cardinality(P) + 1
  <2>1. Nth(P \cup {m}, Cardinality(P) + 1) = m
    BY NthGrows
  <2> QED
    BY <1>4, <2>1
<1> QED
  BY <1>2, <1>3, <1>4

\* A write keeps the numbering of every process.
LEMMA OrderSend ==
  ASSUME TypeOK, OrderInv, NEW c, NEW m \in Message, Send(c, m), NEW p \in ProcIds,
         NEW type \in About, owner'[p] = owner[p]
  PROVE  Enumerated(Places(p, type))'
<1>1. CASE c \in open /\ owner[p] = c /\ m.type = type /\ m.proc = p
  <2>1. /\ Places(p, type)' = Places(p, type) \cup {Len(sent[c]) + 1}
        /\ \A i \in Places(p, type) : i <= Len(sent[c])
    BY <1>1, PlacesGrow
  <2>2. Len(sent[c]) + 1 \in Nat
    BY <1>1 DEF TypeOK
  <2>3. \A i \in Places(p, type) : i < Len(sent[c]) + 1
    BY <2>1, <2>2, PlacesFinite
  <2>4. Enumerated(Places(p, type))
    BY DEF OrderInv
  <2>5. Enumerated(Places(p, type) \cup {Len(sent[c]) + 1})
    BY <2>2, <2>3, <2>4, PlacesFinite, EnumeratedGrows
  <2> QED
    BY <2>1, <2>5 DEF Enumerated, Nth
<1>2. CASE ~(c \in open /\ owner[p] = c /\ m.type = type /\ m.proc = p)
  <2>1. Places(p, type)' = Places(p, type)
    BY <1>2, PlacesGrow
  <2> QED
    BY <2>1 DEF OrderInv, Enumerated, Nth
<1> QED
  BY <1>1, <1>2

\* Every step keeps it.
LEMMA OrderStep ==
  ASSUME TypeOK, TypeOK', ProcInv, SentInv, OrderInv, [Next]_vars
  PROVE  OrderInv'
<1> SUFFICES ASSUME NEW p \in ProcIds, NEW type \in About PROVE Enumerated(Places(p, type))'
  BY DEF OrderInv
<1>1. CASE Begins(p)
  <2>1. Places(p, type)' = {}
    BY <1>1, ReportsBegin
  <2> QED
    BY <2>1, FS_EmptySet DEF Enumerated
<1>2. CASE ~Begins(p)
  <2>1. owner'[p] = owner[p]
    <3>1. ASSUME NEW x \in ProcIds, Begins(x), x # p PROVE owner'[p] = owner[p]
      BY <3>1, Beginning DEF TypeOK
    <3> QED
      BY <1>2, <3>1, Connecting
  <2>2. CASE sent' = sent
    <3>1. Places(p, type)' = Places(p, type)
      BY <2>1, <2>2, PlacesStay
    <3>2. Enumerated(Places(p, type))
      BY DEF OrderInv
    <3> QED
      BY <3>1, <3>2 DEF Enumerated, Nth
  <2>3. ASSUME NEW c, NEW m \in Message, Send(c, m) PROVE Enumerated(Places(p, type))'
    BY <2>1, <2>3, OrderSend
  <2>4. ASSUME NEW x \in ProcIds, Tells(x) PROVE Enumerated(Places(p, type))'
    BY <2>3, <2>4, Telling
  <2> QED
    BY <2>2, <2>3, <2>4, StepSends
<1> QED
  BY <1>1, <1>2

-----------------------------------------------------------------------------
(* The session.                                                             *)

SessionInv == TypeOK /\ ProcInv /\ SentInv /\ OrderInv

\* Every step keeps the invariant,
LEMMA SessionStep ==
  ASSUME SessionInv, [Next]_vars
  PROVE  SessionInv'
BY TypeStep, ProcStepKeeps, SentStep, OrderStep DEF SessionInv

\* which holds at first.
LEMMA SessionInit == Init => SessionInv
<1> SUFFICES ASSUME Init PROVE SessionInv
  OBVIOUS
<1>1. TypeOK
  BY TypeInit
<1>2. \A p \in ProcIds : /\ procs[p] = NoProc /\ owner[p] = None /\ p >= nextID
                         /\ p \notin registered
  BY ExecAssumption DEF Init, ExecInit, ProcIds
<1>3. /\ NoProc.pc = "none" /\ ~NoProc.alive /\ NoProc.child = "none" /\ NoProc.code = 0
      /\ \A s \in Streams : NoProc.written[s] = 0 /\ NoProc.piped[s] = 0
                            /\ ~NoProc.held[s] /\ ~NoProc.eof[s]
  BY DEF NoProc
<1>4. ProcInv
  <2>1. ASSUME NEW p \in ProcIds PROVE Life(p)
    BY <1>2, <1>3 DEF Life
  <2>2. ASSUME NEW p \in ProcIds PROVE Pipes(p)
    <3>1. \A s \in Streams :
            /\ procs[p].written[s] = 0 /\ procs[p].piped[s] = 0
            /\ ~procs[p].held[s] /\ ~procs[p].eof[s]
      BY <1>2, <1>3
    <3>2. procs[p].pc = "none"
      BY <1>2, <1>3
    <3>3. ASSUME NEW s \in Streams PROVE Shipped(p, s) = 0
      <4>1. procs[p].written[s] - procs[p].piped[s] = 0
        BY <3>1
      <4>2. (IF procs[p].held[s] THEN 1 ELSE 0) = 0
        BY <3>1, Zenon
      <4> QED
        BY <4>1, <4>2 DEF Shipped
    <3>4. ASSUME NEW s \in Streams PROVE Pipe(p, s)
      BY <3>1, <3>2, <3>3 DEF Pipe
    <3> QED
      BY <3>4 DEF Pipes
  <2> QED
    BY <2>1, <2>2 DEF ProcInv
<1>5. \A p \in ProcIds : \A type : Places(p, type) = {}
  BY <1>2 DEF Places
<1>6. SentInv
  <2>1. ASSUME NEW c \in Conns PROVE Addressed(c) /\ Accepted(c)
    <3>1. sent[c] = <<>> /\ c \notin open /\ c # None
      BY SessionAssumption DEF Init, Conns
    <3> QED
      BY <1>2, <3>1 DEF Addressed, Accepted
  <2>2. ASSUME NEW p \in ProcIds PROVE Reports(p)
    <3>1. owner[p] \notin open
      BY DEF Init
    <3> QED
      BY <1>5, <3>1 DEF Reports, Received
  <2> QED
    BY <2>1, <2>2 DEF SentInv
<1>7. OrderInv
  BY <1>5, FS_EmptySet DEF OrderInv, Enumerated
<1> QED
  BY <1>1, <1>4, <1>6, <1>7 DEF SessionInv

\* The processes, and what their clients were told of them, agree.
THEOREM SessionAgrees == Spec => []SessionInv
<1>1. SessionInv /\ [Next]_vars => SessionInv'
  BY SessionStep
<1> QED
  BY SessionInit, <1>1, PTL DEF Spec

\* A client that was told of a process and not yet of its exit can still reach
\* it: the process is entered in the map before the Ack and leaves it after the
\* exit (server.go:305, 320).
THEOREM ClientsReachTheirProcesses == Spec => []AckedIsReachable
<1>1. SessionInv => AckedIsReachable
  <2>1. ASSUME SessionInv, NEW p \in ProcIds, ChannelOf(p) = "open" PROVE p \in registered
    <3>1. Received(p, "ack") /\ ~Received(p, "exit") /\ owner[p] \in open
      BY <2>1 DEF ChannelOf
    <3>2. procs[p].pc = "streaming"
      BY <2>1, <3>1 DEF SessionInv, SentInv, Reports
    <3> QED
      BY <2>1, <3>2 DEF SessionInv, ProcInv, Life
  <2> QED
    BY <2>1 DEF AckedIsReachable
<1> QED
  BY <1>1, SessionAgrees, PTL

-----------------------------------------------------------------------------
(* The channels of the commands.                                            *)

\* What the commands of ExecChannel see of the session.
ChannelView == [p \in ProcIds |-> ChannelOf(p)]
MadeView == [p \in ProcIds |-> procs[p].written]
GotView == [p \in ProcIds |-> [s \in Streams |-> Got(p, s)]]
EndedView == {p \in ProcIds : procs[p].pc # "none" /\ ~Writers(p)}
CodeView == [p \in ProcIds |-> procs[p].code]
ToldView == [p \in ProcIds |-> Told(p)]

\* A command writes nothing; it may end.
Ends(p) ==
  /\ procs'[p].written = procs[p].written
  /\ p \in EndedView => p \in EndedView'
  /\ procs[p].code # 0 => procs'[p].code = procs[p].code

\* A process that does nothing.
LEMMA EndsSame ==
  ASSUME NEW p \in ProcIds, procs'[p] = procs[p]
  PROVE  Ends(p)
BY DEF Ends, EndedView, Writers

\* A record that says no more of a command than that it may have ended.
LEMMA EndsRecord ==
  ASSUME TypeOK, ProcInv, NEW p \in ProcIds, NEW q, procs'[p] = q,
         q.pc # "none" \/ q.pc = procs[p].pc, q.written = procs[p].written,
         (q.alive \/ q.child # "none") => Writers(p),
         q.code = procs[p].code \/ procs[p].alive
  PROVE  Ends(p)
<1>1. procs[p].alive => procs[p].code = 0
  BY DEF ProcInv, Life, NoProc
<1> QED
  BY <1>1 DEF Ends, EndedView, Writers

\* A process that is killed may end.
LEMMA EndsKilled ==
  ASSUME TypeOK, ProcInv, NEW p \in ProcIds, procs'[p] = AfterKill(procs[p])
  PROVE  Ends(p)
<1>1. procs[p] \in ProcRecord
  BY DEF TypeOK, ExecTypeOK
<1> DEFINE q == AfterKill(procs[p])
<1>2. /\ q.pc = procs[p].pc /\ q.written = procs[p].written
      /\ ~q.alive /\ (q.child # "none" => procs[p].child # "none")
      /\ q.code = procs[p].code \/ procs[p].alive
  BY <1>1 DEF AfterKill, ProcRecord
<1> HIDE DEF q
<1>3. procs'[p] = q
  BY DEF q
<1> QED
  BY <1>2, <1>3, EndsRecord DEF Writers

\* What the kernel and the commands do: a command writes, or it may end.
LEMMA OsEnds ==
  ASSUME TypeOK, ProcInv, NEW p \in ProcIds, OsStep(p)
  PROVE  (\E s \in Streams : Writes(p, s)) \/ \A x \in ProcIds : Ends(x)
<1>1. procs[p] \in ProcRecord /\ procs \in [ProcIds -> ProcRecord]
  BY DEF TypeOK, ExecTypeOK
<1>2. ASSUME NEW q, procs' = [procs EXCEPT ![p] = q],
             q.pc = procs[p].pc, q.written = procs[p].written,
             (q.alive \/ q.child # "none") => Writers(p),
             q.code = procs[p].code \/ procs[p].alive,
             NEW x \in ProcIds
      PROVE  Ends(x)
  <2>1. CASE x = p
    <3>1. procs'[p] = q
      BY <1>1, <1>2
    <3> QED
      BY <1>2, <2>1, <3>1, EndsRecord
  <2>2. CASE x # p
    <3>1. procs'[x] = procs[x]
      BY <1>1, <1>2, <2>2
    <3> QED
      BY <3>1, EndsSame
  <2> QED
    BY <2>1, <2>2
<1>5. ASSUME NEW kind \in Children, LeavesChild(p, kind), NEW x \in ProcIds PROVE Ends(x)
  <2> DEFINE q == [procs[p] EXCEPT !.child = kind]
  <2>1. procs' = [procs EXCEPT ![p] = q] /\ procs[p].alive
    BY <1>5 DEF LeavesChild
  <2>2. /\ q.pc = procs[p].pc /\ q.code = procs[p].code /\ q.written = procs[p].written
    BY <1>1 DEF ProcRecord
  <2> HIDE DEF q
  <2> QED
    BY <1>2, <2>1, <2>2 DEF Writers
<1>6. ASSUME NEW code \in {Returned, Killed}, Exits(p, code), NEW x \in ProcIds PROVE Ends(x)
  <2> DEFINE q == [procs[p] EXCEPT !.alive = FALSE, !.code = code]
  <2>1. procs' = [procs EXCEPT ![p] = q] /\ procs[p].alive
    BY <1>6 DEF Exits
  <2>2. q.pc = procs[p].pc /\ q.written = procs[p].written
    BY <1>1 DEF ProcRecord
  <2> HIDE DEF q
  <2> QED
    BY <1>2, <2>1, <2>2 DEF Writers
<1>7. ASSUME ChildExits(p), NEW x \in ProcIds PROVE Ends(x)
  <2> DEFINE q == [procs[p] EXCEPT !.child = "none"]
  <2>1. procs' = [procs EXCEPT ![p] = q] /\ procs[p].child # "none"
    BY <1>7 DEF ChildExits
  <2>2. /\ q.pc = procs[p].pc /\ q.code = procs[p].code /\ q.written = procs[p].written
    BY <1>1 DEF ProcRecord
  <2> HIDE DEF q
  <2> QED
    BY <1>2, <2>1, <2>2 DEF Writers
<1> QED
  BY <1>5, <1>6, <1>7 DEF OsStep

\* What a step can be to the clients: a goroutine tells one of them something, a
\* command starts, writes or ends, an answer about no process is sent, or
\* somebody connects or goes away.
LEMMA StepKinds ==
  ASSUME TypeOK, ProcInv, [Next]_vars
  PROVE  \/ \E p \in ProcIds : Tells(p) \/ Begins(p)
         \/ /\ UNCHANGED <<sent, owner, open>>
            /\ \/ \A x \in ProcIds : Ends(x)
               \/ \E p \in ProcIds, s \in Streams : Writes(p, s)
         \/ /\ UNCHANGED <<procs, owner, open>>
            /\ \E d : \E m \in Message : m.type \notin About /\ Send(d, m)
         \/ UNCHANGED <<procs, owner, sent>>
<1>0. procs \in [ProcIds -> ProcRecord] /\ registered \subseteq ProcIds
  BY DEF TypeOK, ExecTypeOK
<1> DEFINE Quiet == \A x \in ProcIds : Ends(x)
           Plain == \E d : \E m \in Message : m.type \notin About /\ Send(d, m)
<1>1. UNCHANGED procs => Quiet
  BY EndsSame
<1>2. ASSUME NEW c \in Conns, Accept(c) \/ SetUp(c)
      PROVE  UNCHANGED <<procs, owner>> /\ (UNCHANGED sent \/ UNCHANGED open)
  BY <1>2 DEF Accept, SetUp, SendReady, Leave, execs
<1>3. ASSUME NEW c \in Clients, ClientAsks(c) \/ ClientLeaves(c)
      PROVE  UNCHANGED <<procs, owner, sent>>
  BY <1>3 DEF ClientAsks, ClientLeaves, execs
<1>4. ASSUME NEW c \in Calls, CallStep(c) \/ CallTimesOut(c)
      PROVE  UNCHANGED <<procs, owner, sent>>
  BY <1>4 DEF CallStep, CallHello, CallReads, CallReturns, CallFails, CallTimesOut, execs
<1>5. CASE Stop
  <2>1. /\ procs' = [p \in ProcIds |-> IF p \in registered THEN AfterKill(procs[p]) ELSE procs[p]]
        /\ UNCHANGED <<sent, owner, open>>
    BY <1>5 DEF Stop, KillAll, conns
  <2>2. ASSUME NEW x \in ProcIds PROVE Ends(x)
    <3>1. procs'[x] = procs[x] \/ procs'[x] = AfterKill(procs[x])
      BY <2>1
    <3> QED
      BY <3>1, EndsSame, EndsKilled
  <2> QED
    BY <2>1, <2>2
<1>6. CASE Halt \/ UNCHANGED vars
  BY <1>6 DEF Halt, vars, execs
<1>7. ASSUME NEW c \in Conns, NEW r \in inbox[c], Handle(c, r)
      PROVE  \/ \E p \in ProcIds : Begins(p)
             \/ UNCHANGED <<sent, owner, open>> /\ Quiet
             \/ UNCHANGED <<procs, owner, open>>
  <2>1. CASE HandlePing(c, r) \/ HandleUnknown(c, r) \/ NoRuntime(c, r) \/ ForkRefused(c, r)
             \/ HandleFile(c, r)
    BY <2>1 DEF HandlePing, HandleUnknown, NoRuntime, ForkRefused, HandleFile, LoseId, execs, Take,
                conns
  <2>2. CASE HandleStdin(c, r)
    <3>1. UNCHANGED <<sent, owner, open>>
      BY <2>2 DEF HandleStdin, Take, conns
    <3>2. CASE r.proc \in registered /\ procs' = [procs EXCEPT ![r.proc].stdin = Append(@, r.id)]
      <4> DEFINE q == [procs[r.proc] EXCEPT !.stdin = Append(@, r.id)]
      <4>1. r.proc \in ProcIds /\ procs[r.proc] \in ProcRecord
        BY <1>0, <3>2
      <4>2. procs' = [procs EXCEPT ![r.proc] = q]
        BY <3>2
      <4>3. /\ q.pc = procs[r.proc].pc /\ q.code = procs[r.proc].code
            /\ q.written = procs[r.proc].written
            /\ q.alive = procs[r.proc].alive /\ q.child = procs[r.proc].child
        BY <4>1 DEF ProcRecord
      <4>4. procs'[r.proc] = q
        BY <1>0, <4>1, <4>2
      <4>5. ASSUME NEW x \in ProcIds PROVE Ends(x)
        <5> HIDE DEF q
        <5>1. CASE x = r.proc
          BY <4>1, <4>3, <4>4, <5>1, EndsRecord DEF Writers
        <5>2. CASE x # r.proc
          <6>1. procs'[x] = procs[x]
            BY <1>0, <4>2, <5>2
          <6> QED
            BY <6>1, EndsSame
        <5> QED
          BY <5>1, <5>2
      <4> QED
        BY <3>1, <4>5
    <3>3. CASE UNCHANGED procs
      BY <1>1, <3>1, <3>3
    <3> QED
      BY <2>2, <3>2, <3>3 DEF HandleStdin, WriteStdin
  <2>3. CASE HandleSignal(c, r)
    <3>1. UNCHANGED <<sent, owner, open>>
      BY <2>3 DEF HandleSignal, Take, conns
    <3>2. ASSUME NEW x \in ProcIds PROVE Ends(x)
      <4>1. procs'[x] = procs[x] \/ procs'[x] = AfterKill(procs[x])
        BY <1>0, <2>3 DEF HandleSignal, Kill
      <4> QED
        BY <4>1, EndsSame, EndsKilled
    <3> QED
      BY <3>1, <3>2
  <2>4. CASE ExecForks(c, r)
    BY <2>4 DEF ExecForks, Fork, Begins
  <2> QED
    BY <1>7, <2>1, <2>2, <2>3, <2>4 DEF Handle
<1>8. ASSUME NEW p \in ProcIds,
             \/ ExecRegisters(p) \/ ExecAcks(p) \/ ReportExit(p) \/ Forget(p)
             \/ Reap(p) \/ ProcStep(p) \/ \E s \in Streams : Stream(p, s)
      PROVE  \/ Tells(p)
             \/ UNCHANGED <<sent, owner, open>> /\ (Quiet \/ \E s \in Streams : Writes(p, s))
  <2>1. procs[p] \in ProcRecord
    BY <1>0
  <2>2. ASSUME NEW q, procs' = [procs EXCEPT ![p] = q],
               q.pc # "none" \/ q.pc = procs[p].pc,
               q.written = procs[p].written, q.alive = procs[p].alive, q.child = procs[p].child,
               q.code = procs[p].code, NEW x \in ProcIds
        PROVE  Ends(x)
    <3>1. procs'[x] = (IF x = p THEN q ELSE procs[x])
      BY <1>0, <2>2
    <3>2. CASE x = p
      BY <2>2, <3>1, <3>2, EndsRecord DEF Writers
    <3>3. CASE x # p
      BY <3>1, <3>3, EndsSame
    <3> QED
      BY <3>2, <3>3
  <2>3. ASSUME NEW to \in {"started", "over"}, Goto(p, to) PROVE Quiet
    <3> DEFINE q == [procs[p] EXCEPT !.pc = to]
    <3>1. procs' = [procs EXCEPT ![p] = q]
      BY <2>3 DEF Goto
    <3>2. /\ q.pc # "none" /\ q.code = procs[p].code /\ q.written = procs[p].written
          /\ q.alive = procs[p].alive /\ q.child = procs[p].child
      BY <2>1 DEF ProcRecord
    <3> HIDE DEF q
    <3> QED
      BY <2>2, <3>1, <3>2
  <2>4. CASE ExecRegisters(p)
    BY <2>3, <2>4 DEF ExecRegisters, Register, conns
  <2>5. CASE Forget(p)
    BY <2>3, <2>5 DEF Forget, conns
  <2>6. CASE Reap(p)
    <3> DEFINE q == [procs[p] EXCEPT !.done = TRUE]
    <3>1. procs' = [procs EXCEPT ![p] = q] /\ UNCHANGED <<sent, owner, open>>
      BY <2>6 DEF Reap, WaitReturns, conns
    <3>2. /\ q.pc = procs[p].pc /\ q.code = procs[p].code /\ q.written = procs[p].written
          /\ q.alive = procs[p].alive /\ q.child = procs[p].child
      BY <2>1 DEF ProcRecord
    <3> HIDE DEF q
    <3> QED
      BY <2>2, <3>1, <3>2
  <2>7. CASE ProcStep(p)
    BY <2>7, OsEnds DEF ProcStep, conns
  <2>8. ASSUME NEW s \in Streams, StreamReads(p, s)
        PROVE  UNCHANGED <<sent, owner, open>> /\ Quiet
    <3>1. UNCHANGED <<sent, owner, open>>
      BY <2>8 DEF StreamReads, conns
    <3>2. ASSUME NEW q, procs' = [procs EXCEPT ![p] = q],
                 \/ q = [procs[p] EXCEPT !.piped[s] = @ - 1, !.held[s] = TRUE]
                 \/ q = [procs[p] EXCEPT !.eof[s] = TRUE]
          PROVE  Quiet
      <4>1. /\ q.pc = procs[p].pc /\ q.code = procs[p].code /\ q.written = procs[p].written
            /\ q.alive = procs[p].alive /\ q.child = procs[p].child
        BY <2>1, <3>2 DEF ProcRecord
      <4> QED
        BY <2>2, <3>2, <4>1
    <3>3. CASE procs' = [procs EXCEPT ![p].piped[s] = @ - 1, ![p].held[s] = TRUE]
      <4>1. procs' = [procs EXCEPT ![p] = [procs[p] EXCEPT !.piped[s] = @ - 1, !.held[s] = TRUE]]
        BY <3>3
      <4> HIDE DEF Quiet
      <4> QED
        BY <3>1, <3>2, <4>1
    <3>4. CASE procs' = [procs EXCEPT ![p].eof[s] = TRUE]
      <4>1. procs' = [procs EXCEPT ![p] = [procs[p] EXCEPT !.eof[s] = TRUE]]
        BY <3>4
      <4> HIDE DEF Quiet
      <4> QED
        BY <3>1, <3>2, <4>1
    <3> QED
      BY <2>8, <3>3, <3>4 DEF StreamReads
  <2> QED
    BY <1>8, <2>4, <2>5, <2>6, <2>7, <2>8 DEF Stream, Tells
<1>9. UNCHANGED sent \/ Plain \/ \E p \in ProcIds : Tells(p)
  BY StepSends
<1> HIDE DEF Quiet, Plain
<1>10. \/ \E p \in ProcIds : Tells(p) \/ Begins(p)
       \/ /\ UNCHANGED <<sent, owner, open>>
          /\ \/ Quiet
             \/ \E p \in ProcIds, s \in Streams : Writes(p, s)
       \/ UNCHANGED <<procs, owner, open>>
       \/ UNCHANGED <<procs, owner, sent>>
  <2>1. CASE Stop \/ Halt \/ UNCHANGED vars
    BY <1>5, <1>6, <2>1 DEF Quiet
  <2>2. ASSUME NEW p \in ProcIds,
               \/ ExecRegisters(p) \/ ExecAcks(p) \/ ReportExit(p) \/ Forget(p)
               \/ Reap(p) \/ ProcStep(p) \/ \E s \in Streams : Stream(p, s)
        PROVE  \/ Tells(p)
               \/ UNCHANGED <<sent, owner, open>> /\ (Quiet \/ \E s \in Streams : Writes(p, s))
    BY <1>8, <2>2
  <2> QED
    BY <1>2, <1>3, <1>4, <1>7, <2>1, <2>2 DEF Next
<1> QED
  BY <1>9, <1>10 DEF Quiet, Plain

\* What a client received of a stream is a sequence of as many chunks as there
\* are places.
LEMMA GotIsSeq ==
  ASSUME SessionInv, NEW p \in ProcIds, NEW s \in Streams
  PROVE  /\ Got(p, s) \in Seq(Int) /\ Len(Got(p, s)) = Cardinality(Places(p, s))
         /\ DOMAIN Got(p, s) = 1 .. Cardinality(Places(p, s))
         /\ \A k \in 1 .. Cardinality(Places(p, s)) :
              Got(p, s)[k] = Carried(p, Nth(Places(p, s), k))
<1> DEFINE n == Cardinality(Places(p, s))
<1>1. TypeOK /\ OrderInv /\ s \in About
  BY DEF SessionInv, About
<1>2. n \in Nat /\ Places(p, s) \subseteq Nat
  BY <1>1, PlacesFinite
<1>3. ASSUME NEW k \in 1 .. n PROVE Carried(p, Nth(Places(p, s), k)) \in Int
  <2>1. Nth(Places(p, s), k) \in Places(p, s)
    BY <1>1, <1>3 DEF OrderInv, Enumerated
  <2>2. ASSUME NEW i \in Places(p, s) PROVE Carried(p, i) \in Int
    <3>1. owner[p] # None /\ i \in DOMAIN sent[owner[p]]
      BY <2>2 DEF Places
    <3>2. sent[owner[p]] \in Seq(Message)
      BY <1>1, <3>1 DEF TypeOK
    <3>3. sent[owner[p]][i] \in Message
      BY <3>1, <3>2
    <3> QED
      BY <3>3 DEF Carried, Message
  <2> QED
    BY <2>1, <2>2
<1>4. Got(p, s) = [k \in 1 .. n |-> Carried(p, Nth(Places(p, s), k))]
  BY DEF Got
<1> HIDE DEF n
<1>5. Got(p, s) \in [1 .. n -> Int]
  BY <1>3, <1>4
<1>6. Got(p, s) \in Seq(Int) /\ Len(Got(p, s)) = n
  BY <1>2, <1>5
<1> QED
  BY <1>4, <1>5, <1>6 DEF n

\* The numbering is not disturbed where the places and what they carry are not.
LEMMA NthStays ==
  ASSUME SessionInv, NEW p \in ProcIds, NEW type \in About,
         Places(p, type)' = Places(p, type),
         \A i \in Places(p, type) : Carried(p, i)' = Carried(p, i)
  PROVE  \A k \in 1 .. Cardinality(Places(p, type)) :
           Carried(p, Nth(Places(p, type), k))' = Carried(p, Nth(Places(p, type), k))
<1> SUFFICES ASSUME NEW k \in 1 .. Cardinality(Places(p, type))
             PROVE  Carried(p, Nth(Places(p, type), k))' = Carried(p, Nth(Places(p, type), k))
  OBVIOUS
<1>1. PICK i \in Places(p, type) : i = Nth(Places(p, type), k)
  BY DEF SessionInv, OrderInv, Enumerated
<1>2. Nth(Places(p, type), k)' = i
  BY <1>1 DEF Nth
<1>3. Carried(p, Nth(Places(p, type), k))' = Carried(p, i)'
  BY <1>2 DEF Carried
<1> QED
  BY <1>1, <1>3

\* Nor is what a client received of a stream.
LEMMA GotStays ==
  ASSUME SessionInv, NEW p \in ProcIds, NEW s \in Streams,
         Places(p, s)' = Places(p, s),
         \A i \in Places(p, s) : Carried(p, i)' = Carried(p, i)
  PROVE  Got(p, s)' = Got(p, s)
<1>1. s \in About
  BY DEF About
<1>2. \A k \in 1 .. Cardinality(Places(p, s)) :
        Carried(p, Nth(Places(p, s), k))' = Carried(p, Nth(Places(p, s), k))
  BY <1>1, NthStays
<1>3. Got(p, s)' = [k \in 1 .. Cardinality(Places(p, s))' |-> Carried(p, Nth(Places(p, s), k))']
  BY DEF Got
<1>4. Got(p, s) = [k \in 1 .. Cardinality(Places(p, s)) |-> Carried(p, Nth(Places(p, s), k))]
  BY DEF Got
<1> QED
  BY <1>2, <1>3, <1>4

\* A client that is sent nothing of p sees its channel as it was.
LEMMA ViewStays ==
  ASSUME SessionInv, NEW p \in ProcIds, owner'[p] = owner[p],
         \A type \in About :
           /\ Places(p, type)' = Places(p, type)
           /\ \A i \in Places(p, type) : Carried(p, i)' = Carried(p, i)
  PROVE  /\ \A s \in Streams : Got(p, s)' = Got(p, s)
         /\ Told(p)' = Told(p)
         /\ \A type \in About : Received(p, type)' <=> Received(p, type)
         /\ (owner[p] \in open' <=> owner[p] \in open) => ChannelOf(p)' = ChannelOf(p)
<1>1. TypeOK /\ OrderInv /\ "ack" \in About /\ "exit" \in About /\ Streams \subseteq About
  BY DEF SessionInv, About
<1>2. \A type \in About : Received(p, type)' <=> Received(p, type)
  BY DEF Received
<1>4. ASSUME NEW s \in Streams PROVE Got(p, s)' = Got(p, s)
  BY <1>1, GotStays
<1>5. Told(p)' = Told(p)
  <2>1. CASE Received(p, "exit")
    <3>1. 1 \in 1 .. Cardinality(Places(p, "exit"))
      <4>1. Places(p, "exit") # {}
        BY <2>1 DEF Received
      <4>2. IsFiniteSet(Places(p, "exit")) /\ Cardinality(Places(p, "exit")) \in Nat
        BY <1>1, PlacesFinite
      <4>3. Cardinality(Places(p, "exit")) # 0
        BY <4>1, <4>2, FS_EmptySet
      <4> QED
        BY <4>2, <4>3
    <3>2. Carried(p, Nth(Places(p, "exit"), 1))' = Carried(p, Nth(Places(p, "exit"), 1))
      BY <1>1, <3>1, NthStays
    <3> QED
      BY <1>1, <1>2, <2>1, <3>2 DEF Told
  <2>2. CASE ~Received(p, "exit")
    BY <1>1, <1>2, <2>2 DEF Told
  <2> QED
    BY <2>1, <2>2
<1>6. (owner[p] \in open' <=> owner[p] \in open) => ChannelOf(p)' = ChannelOf(p)
  BY <1>1, <1>2 DEF ChannelOf
<1> QED
  BY <1>2, <1>4, <1>5, <1>6

\* What a goroutine sends changes the channel of its own process only.
LEMMA OthersAreNotTold ==
  ASSUME SessionInv, NEW x \in ProcIds, Tells(x), NEW p \in ProcIds, p # x
  PROVE  /\ \A s \in Streams : Got(p, s)' = Got(p, s)
         /\ Told(p)' = Told(p) /\ ChannelOf(p)' = ChannelOf(p)
<1>1. TypeOK /\ ProcInv
  BY DEF SessionInv
<1>2. PICK m \in Message : Send(owner[x], m) /\ m.proc = x
  BY <1>1, Telling
<1>3. owner'[p] = owner[p] /\ open' = open
  BY <1>1, Telling
<1>4. \A type \in About :
        /\ Places(p, type)' = Places(p, type)
        /\ \A i \in Places(p, type) : Carried(p, i)' = Carried(p, i)
  BY <1>1, <1>2, <1>3, PlacesGrow
<1> QED
  BY <1>3, <1>4, ViewStays

\* Nor does it change what commands write, or whether they have ended.
LEMMA TellingIsNoLife ==
  ASSUME SessionInv, NEW x \in ProcIds, Tells(x)
  PROVE  MadeView' = MadeView /\ EndedView' = EndedView /\ CodeView' = CodeView
<1>1. /\ procs \in [ProcIds -> ProcRecord] /\ procs[x] \in ProcRecord
      /\ procs[x].pc # "none"
  <2>1. TypeOK /\ ProcInv
    BY DEF SessionInv
  <2>2. owner[x] \in Conns /\ None \notin Conns
    BY <2>1, Telling, SessionAssumption DEF Conns
  <2> QED
    BY <2>1, <2>2 DEF TypeOK, ExecTypeOK, ProcInv, Life
<1>2. PICK q : /\ procs' = [procs EXCEPT ![x] = q]
               /\ q.pc # "none" /\ q.code = procs[x].code /\ q.written = procs[x].written
               /\ q.alive = procs[x].alive /\ q.child = procs[x].child
  <2>1. ASSUME NEW to \in {"streaming", "reported"}, Goto(x, to)
        PROVE  \E q : /\ procs' = [procs EXCEPT ![x] = q]
                      /\ q.pc # "none" /\ q.code = procs[x].code /\ q.written = procs[x].written
                      /\ q.alive = procs[x].alive /\ q.child = procs[x].child
    <3> DEFINE q == [procs[x] EXCEPT !.pc = to]
    <3>1. procs' = [procs EXCEPT ![x] = q]
      BY <2>1 DEF Goto
    <3>2. /\ q.pc # "none" /\ q.code = procs[x].code /\ q.written = procs[x].written
          /\ q.alive = procs[x].alive /\ q.child = procs[x].child
      BY <1>1 DEF ProcRecord
    <3> HIDE DEF q
    <3> QED
      BY <3>1, <3>2
  <2>2. ASSUME NEW s \in Streams, StreamSends(x, s)
        PROVE  \E q : /\ procs' = [procs EXCEPT ![x] = q]
                      /\ q.pc # "none" /\ q.code = procs[x].code /\ q.written = procs[x].written
                      /\ q.alive = procs[x].alive /\ q.child = procs[x].child
    <3> DEFINE q == [procs[x] EXCEPT !.held[s] = FALSE]
    <3>1. procs' = [procs EXCEPT ![x] = q]
      BY <2>2 DEF StreamSends
    <3>2. /\ q.pc # "none" /\ q.code = procs[x].code /\ q.written = procs[x].written
          /\ q.alive = procs[x].alive /\ q.child = procs[x].child
      BY <1>1 DEF ProcRecord
    <3> HIDE DEF q
    <3> QED
      BY <3>1, <3>2
  <2> QED
    BY <2>1, <2>2 DEF Tells, ExecAcks, ReportExit
<1>3. ASSUME NEW p \in ProcIds
      PROVE  /\ procs'[p].written = procs[p].written /\ procs'[p].code = procs[p].code
             /\ (procs'[p].pc # "none" /\ ~Writers(p)') <=> (procs[p].pc # "none" /\ ~Writers(p))
  BY <1>1, <1>2 DEF Writers
<1> QED
  BY <1>3 DEF MadeView, EndedView, CodeView

\* The Ack opens the channel of a command, if its client is still there.
LEMMA AckOpens ==
  ASSUME SessionInv, NEW p \in ProcIds, ExecAcks(p)
  PROVE  Channels!Open(p) \/ UNCHANGED Channels!vars
<1>1. TypeOK /\ ProcInv /\ Reports(p) /\ Tells(p) /\ Pipes(p)
  BY DEF SessionInv, SentInv, ProcInv, Tells
<1>2. procs[p].pc = "started"
  BY DEF ExecAcks
<1>3. PICK m \in Message : Send(owner[p], m) /\ m.proc = p /\ m.type = "ack"
  <2>1. ~ReportExit(p) /\ \A s \in Streams : ~StreamSends(p, s)
    BY <1>1, <1>2 DEF ReportExit, ExitIsDue, StreamSends, Pipes, Pipe
  <2> QED
    BY <1>1, <2>1, Telling
<1>4. owner'[p] = owner[p] /\ open' = open /\ owner[p] \in Conns
  BY <1>1, Telling
<1>5. /\ ~Received(p, "ack") /\ ~Received(p, "exit")
  BY <1>1, <1>2 DEF Reports
<1>6. \A type \in About \ {"ack"} :
        /\ Places(p, type)' = Places(p, type)
        /\ \A i \in Places(p, type) : Carried(p, i)' = Carried(p, i)
  BY <1>1, <1>3, <1>4, PlacesGrow
<1>7. \A i \in Places(p, "ack") : FALSE
  BY <1>5 DEF Received
<1>8. (\A s \in Streams : Got(p, s)' = Got(p, s)) /\ Told(p)' = Told(p)
  <2>1. ~Received(p, "exit")'
    BY <1>5, <1>6 DEF Received, About, Streams
  <2>2. Told(p)' = Told(p)
    BY <1>5, <2>1 DEF Told
  <2>3. ASSUME NEW s \in Streams PROVE Got(p, s)' = Got(p, s)
    <3>1. s \in About \ {"ack"}
      BY DEF About, Streams
    <3> QED
      BY <1>6, <3>1, GotStays
  <2> QED
    BY <2>2, <2>3
<1>9. /\ ChannelOf(p) = "idle"
      /\ ChannelOf(p)' = IF owner[p] \in open THEN "open" ELSE "idle"
  <2>1. ~Received(p, "exit")'
    BY <1>5, <1>6 DEF Received, About, Streams
  <2>2. Received(p, "ack")' <=> owner[p] \in open
    <3>1. owner[p] \in open => Places(p, "ack")' = Places(p, "ack") \cup {Len(sent[owner[p]]) + 1}
      BY <1>1, <1>3, <1>4, PlacesGrow
    <3>2. owner[p] \notin open => Places(p, "ack")' = Places(p, "ack")
      BY <1>1, <1>3, <1>4, PlacesGrow
    <3> QED
      BY <1>5, <3>1, <3>2 DEF Received
  <2> QED
    BY <1>4, <1>5, <2>1, <2>2 DEF ChannelOf
<1>10. ASSUME NEW x \in ProcIds, x # p
       PROVE  /\ \A s \in Streams : Got(x, s)' = Got(x, s)
              /\ Told(x)' = Told(x) /\ ChannelOf(x)' = ChannelOf(x)
  BY <1>1, <1>10, OthersAreNotTold
<1>11. GotView' = GotView /\ ToldView' = ToldView
  BY <1>8, <1>10 DEF GotView, ToldView
<1>12. MadeView' = MadeView /\ EndedView' = EndedView /\ CodeView' = CodeView
  BY <1>1, TellingIsNoLife
<1>13. CASE owner[p] \in open
  <2>1. ChannelView' = [ChannelView EXCEPT ![p] = "open"] /\ ChannelView[p] = "idle"
    BY <1>9, <1>10, <1>13 DEF ChannelView
  <2> QED
    BY <1>11, <1>12, <2>1
       DEF Channels!Open, ChannelView, GotView, ToldView, MadeView, EndedView, CodeView
<1>14. CASE owner[p] \notin open
  <2>1. ChannelView' = ChannelView
    BY <1>9, <1>10, <1>14 DEF ChannelView
  <2> QED
    BY <1>11, <1>12, <2>1
       DEF Channels!vars, ChannelView, GotView, ToldView, MadeView, EndedView, CodeView
<1> QED
  BY <1>13, <1>14

\* A chunk is the next one of its stream, and it was written before.
LEMMA OutputIsDelivered ==
  ASSUME SessionInv, SessionInv', NEW p \in ProcIds, NEW s \in Streams, StreamSends(p, s)
  PROVE  Channels!Deliver(p, s) \/ UNCHANGED Channels!vars
<1>1. TypeOK /\ ProcInv /\ Reports(p) /\ Tells(p) /\ Pipe(p, s) /\ procs[p] \in ProcRecord
      /\ s \in About /\ procs \in [ProcIds -> ProcRecord]
  BY DEF SessionInv, SentInv, ProcInv, Tells, Pipes, TypeOK, ExecTypeOK, About
<1>2. procs[p].held[s] /\ procs' = [procs EXCEPT ![p].held[s] = FALSE]
  BY DEF StreamSends
<1>3. procs[p].pc = "streaming"
  <2>1. ASSUME procs[p].pc = "none" PROVE ~procs[p].held[s]
    <3>1. procs[p] = NoProc
      BY <1>1, <2>1 DEF ProcInv, Life
    <3> QED
      BY <3>1 DEF NoProc
  <2>2. procs[p].pc \notin {"forked", "started", "reported", "over"}
    BY <1>1, <1>2 DEF Pipe
  <2> QED
    BY <1>1, <1>2, <2>1, <2>2 DEF ProcRecord
<1>4. procs[p].held \in [Streams -> BOOLEAN] /\ ~procs'[p].held[s]
  BY <1>1, <1>2 DEF ProcRecord
<1>5. \A t \in Streams \ {s} : ~StreamSends(p, t)
  <2>1. ASSUME NEW t \in Streams \ {s}, StreamSends(p, t) PROVE FALSE
    <3>1. procs' = [procs EXCEPT ![p].held[t] = FALSE]
      BY <2>1 DEF StreamSends
    <3>2. procs'[p].held[s]
      BY <1>1, <1>2, <1>4, <2>1, <3>1 DEF ProcRecord
    <3> QED
      BY <1>4, <3>2
  <2> QED
    BY <2>1
<1>6. PICK m \in Message : /\ Send(owner[p], m) /\ m.proc = p /\ m.type = s
                           /\ m.n = procs[p].written[s] - procs[p].piped[s]
  <2>1. ~ExecAcks(p) /\ ~ReportExit(p)
    <3>1. ~procs[p].eof[s]
      BY <1>1, <1>2 DEF Pipe
    <3> QED
      BY <1>3, <3>1 DEF ExecAcks, ReportExit, ExitIsDue
  <2> QED
    BY <1>1, <1>5, <2>1, Telling
<1>7. owner'[p] = owner[p] /\ open' = open /\ owner[p] \in Conns
  BY <1>1, Telling
<1>8. \A type \in About \ {s} :
        /\ Places(p, type)' = Places(p, type)
        /\ \A i \in Places(p, type) : Carried(p, i)' = Carried(p, i)
  BY <1>1, <1>6, <1>7, PlacesGrow
<1>9. \A t \in Streams \ {s} : Got(p, t)' = Got(p, t)
  BY <1>8, GotStays DEF About
<1>10. "exit" \in About \ {s} /\ "ack" \in About \ {s}
  BY DEF About, Streams
<1>11. /\ ~Received(p, "exit") /\ ~Received(p, "exit")'
       /\ (Received(p, "ack")' <=> Received(p, "ack"))
  BY <1>1, <1>3, <1>8, <1>10 DEF Reports, Received
<1>12. Told(p)' = Told(p) /\ ChannelOf(p)' = ChannelOf(p)
  BY <1>7, <1>11 DEF Told, ChannelOf
<1>13. ASSUME NEW x \in ProcIds, x # p
       PROVE  /\ \A t \in Streams : Got(x, t)' = Got(x, t)
              /\ Told(x)' = Told(x) /\ ChannelOf(x)' = ChannelOf(x)
  BY <1>1, <1>13, OthersAreNotTold
<1>14. ChannelView' = ChannelView /\ ToldView' = ToldView
  BY <1>12, <1>13 DEF ChannelView, ToldView
<1>15. MadeView' = MadeView /\ EndedView' = EndedView /\ CodeView' = CodeView
  BY <1>1, TellingIsNoLife
<1>16. CASE owner[p] \in open
  <2> DEFINE n == Cardinality(Places(p, s))
             last == Len(sent[owner[p]]) + 1
  <2>1. /\ n = Shipped(p, s) /\ Received(p, "ack") /\ n \in Nat
    BY <1>1, <1>3, <1>16, PlacesFinite DEF Reports
  <2>2. procs[p].written[s] \in Nat /\ procs[p].piped[s] \in Nat
    BY <1>1 DEF ProcRecord
  <2>3. m.n = n + 1 /\ n < procs[p].written[s]
    BY <1>2, <1>6, <2>1, <2>2 DEF Shipped
  <2>4. ChannelView[p] = "open" /\ MadeView[p][s] = procs[p].written[s]
    BY <1>11, <1>16, <2>1 DEF ChannelView, ChannelOf, MadeView
  <2>5. PICK k : k = last
    OBVIOUS
  <2>6. /\ Places(p, s)' = Places(p, s) \cup {k}
        /\ Carried(p, k)' = m.n
        /\ \A i \in Places(p, s) : i < k /\ Carried(p, i)' = Carried(p, i)
        /\ k \in Nat /\ IsFiniteSet(Places(p, s)) /\ Places(p, s) \subseteq Nat
    <3>1. last \in Nat /\ Len(sent[owner[p]]) \in Nat
      BY <1>1, <1>7 DEF TypeOK
    <3>2. Send(owner[p], m) /\ m.type = s /\ m.proc = p
      BY <1>6
    <3>4. /\ Places(p, s)' = Places(p, s) \cup {last}
          /\ \A i : i = last => Carried(p, i)' = m.n
          /\ \A i \in Places(p, s) : i <= Len(sent[owner[p]])
      BY <1>1, <1>7, <1>16, <3>2, PlacesGrow
    <3>5. \A i \in Places(p, s) : Carried(p, i)' = Carried(p, i)
      BY <1>1, <1>7, <3>2, PlacesGrow
    <3>3. IsFiniteSet(Places(p, s)) /\ Places(p, s) \subseteq Nat
      BY <1>1, PlacesFinite
    <3> QED
      BY <2>5, <3>1, <3>3, <3>4, <3>5
  <2>7. /\ Cardinality(Places(p, s) \cup {k}) = n + 1
        /\ \A j \in 1 .. n : Nth(Places(p, s) \cup {k}, j) = Nth(Places(p, s), j)
        /\ Nth(Places(p, s) \cup {k}, n + 1) = k
    BY <2>6, NthGrows
  <2>8. \A j \in 1 .. n : Nth(Places(p, s), j) \in Places(p, s)
    BY <1>1 DEF SessionInv, OrderInv, Enumerated
  <2> HIDE DEF n, last
  <2>9. Cardinality(Places(p, s))' = n + 1
    BY <2>6, <2>7
  <2>10. ASSUME NEW j \in 1 .. n + 1
         PROVE  Carried(p, Nth(Places(p, s), j))' =
                  IF j = n + 1 THEN n + 1 ELSE Carried(p, Nth(Places(p, s), j))
    <3>1. PICK i : i = Nth(Places(p, s) \cup {k}, j)
      OBVIOUS
    <3>2. Nth(Places(p, s), j)' = i
      BY <2>6, <3>1 DEF Nth
    <3>3. Carried(p, Nth(Places(p, s), j))' = Carried(p, i)'
      BY <3>2 DEF Carried
    <3>4. CASE j = n + 1
      BY <2>3, <2>6, <2>7, <3>1, <3>3, <3>4
    <3>5. CASE j # n + 1
      <4>1. j \in 1 .. n
        BY <2>1, <3>5
      <4>2. i = Nth(Places(p, s), j) /\ i \in Places(p, s)
        BY <2>7, <2>8, <3>1, <4>1
      <4>3. Carried(p, i)' = Carried(p, i)
        BY <2>6, <4>2
      <4> QED
        BY <3>3, <3>5, <4>2, <4>3
    <3> QED
      BY <3>4, <3>5
  <2>11. /\ Got(p, s) \in Seq(Int) /\ Len(Got(p, s)) = n
         /\ \A j \in 1 .. n : Got(p, s)[j] = Carried(p, Nth(Places(p, s), j))
    BY GotIsSeq DEF n
  <2>12. Got(p, s)' = [j \in 1 .. n + 1 |-> IF j = n + 1 THEN n + 1 ELSE Got(p, s)[j]]
    <3>1. Got(p, s)' = [j \in 1 .. Cardinality(Places(p, s))' |-> Carried(p, Nth(Places(p, s), j))']
      BY DEF Got
    <3>2. \A j \in 1 .. n + 1 : j # n + 1 => j \in 1 .. n
      BY <2>1
    <3>3. \A j \in 1 .. n + 1 : Carried(p, Nth(Places(p, s), j))' =
                                  IF j = n + 1 THEN n + 1 ELSE Got(p, s)[j]
      BY <2>10, <2>11, <3>2
    <3> QED
      BY <2>9, <3>1, <3>3
  <2>13. Got(p, s)' = Append(Got(p, s), n + 1)
    <3> DEFINE g == Got(p, s)
               h == Append(g, n + 1)
    <3>1. g \in Seq(Int) /\ Len(g) = n /\ n + 1 \in Int
      BY <2>1, <2>11
    <3>2. /\ h \in Seq(Int) /\ Len(h) = n + 1 /\ h[n + 1] = n + 1
          /\ \A j \in 1 .. n : h[j] = g[j]
      BY <2>1, <3>1
    <3> HIDE DEF g, h
    <3>3. DOMAIN h = 1 .. n + 1 /\ h = [j \in 1 .. n + 1 |-> h[j]]
      BY <3>2
    <3>4. ASSUME NEW j \in 1 .. n + 1 PROVE h[j] = IF j = n + 1 THEN n + 1 ELSE g[j]
      <4>1. CASE j = n + 1
        <5>1. h[j] = n + 1
          BY <3>2, <4>1
        <5> QED
          BY <4>1, <5>1
      <4>2. CASE j # n + 1
        <5>1. j \in 1 .. n
          BY <2>1, <4>2
        <5>2. h[j] = g[j]
          BY <3>2, <5>1
        <5> QED
          BY <4>2, <5>2
      <4> QED
        BY <4>1, <4>2
    <3>5. h = [j \in 1 .. n + 1 |-> IF j = n + 1 THEN n + 1 ELSE g[j]]
      BY <3>3, <3>4
    <3> QED
      BY <2>12, <3>5 DEF g, h
  <2>14. /\ GotView' = [GotView EXCEPT ![p][s] = Append(@, Len(@) + 1)]
         /\ Len(GotView[p][s]) < MadeView[p][s]
    <3>1. GotView[p][s] = Got(p, s)
      BY DEF GotView
    <3>2. Got(p, s)' = Append(GotView[p][s], Len(GotView[p][s]) + 1)
      BY <2>11, <2>13, <3>1
    <3>3. GotView' = [GotView EXCEPT ![p][s] = Append(GotView[p][s], Len(GotView[p][s]) + 1)]
      BY <1>9, <1>13, <3>2 DEF GotView
    <3> QED
      BY <2>3, <2>4, <2>11, <3>1, <3>3
  <2> QED
    BY <1>14, <1>15, <2>4, <2>14
       DEF Channels!Deliver, ChannelView, GotView, ToldView, MadeView, EndedView, CodeView
<1>17. CASE owner[p] \notin open
  <2>1. /\ Places(p, s)' = Places(p, s)
        /\ \A i \in Places(p, s) : Carried(p, i)' = Carried(p, i)
    BY <1>1, <1>6, <1>7, <1>17, PlacesGrow
  <2>2. Got(p, s)' = Got(p, s)
    BY <2>1, GotStays
  <2>3. GotView' = GotView
    BY <1>9, <1>13, <2>2 DEF GotView
  <2> QED
    BY <1>14, <1>15, <2>3
       DEF Channels!vars, ChannelView, GotView, ToldView, MadeView, EndedView, CodeView
<1> QED
  BY <1>16, <1>17

\* The exit closes the channel of a command that has ended, when everything it
\* wrote was delivered.
LEMMA ExitCloses ==
  ASSUME SessionInv, SessionInv', NEW p \in ProcIds, ReportExit(p)
  PROVE  Channels!Close(p) \/ UNCHANGED Channels!vars
<1>1. /\ TypeOK /\ ProcInv /\ Reports(p) /\ Tells(p) /\ Pipes(p) /\ Life(p)
      /\ Streams \subseteq About /\ "stdout" \in Streams
  BY DEF SessionInv, SentInv, ProcInv, Tells, About, Streams
<1>2. procs[p].pc = "streaming" /\ \A s \in Streams : procs[p].eof[s]
  BY DEF ReportExit, ExitIsDue
<1>3. PICK m \in Message : Send(owner[p], m) /\ m.proc = p /\ m.type = "exit" /\ m.n = procs[p].code
  <2>1. ~ExecAcks(p) /\ \A s \in Streams : ~StreamSends(p, s)
    BY <1>1, <1>2 DEF ExecAcks, StreamSends, Pipes, Pipe
  <2> QED
    BY <1>1, <2>1, Telling
<1>4. owner'[p] = owner[p] /\ open' = open /\ owner[p] \in Conns
  BY <1>1, Telling
<1>5. \A type \in About \ {"exit"} :
        /\ Places(p, type)' = Places(p, type)
        /\ \A i \in Places(p, type) : Carried(p, i)' = Carried(p, i)
  BY <1>1, <1>3, <1>4, PlacesGrow
<1>6. \A s \in Streams : Got(p, s)' = Got(p, s)
  <2>1. \A s \in Streams : s \in About \ {"exit"}
    BY DEF About, Streams
  <2> QED
    BY <1>5, <2>1, GotStays
<1>7. Places(p, "exit") = {} /\ ~Received(p, "exit") /\ "ack" \in About \ {"exit"}
  BY <1>1, <1>2 DEF Reports, Received, About
<1>8. Received(p, "ack")' <=> Received(p, "ack")
  BY <1>5, <1>7 DEF Received
<1>9. ASSUME NEW x \in ProcIds, x # p
      PROVE  /\ \A s \in Streams : Got(x, s)' = Got(x, s)
             /\ Told(x)' = Told(x) /\ ChannelOf(x)' = ChannelOf(x)
  BY <1>1, <1>9, OthersAreNotTold
<1>10. GotView' = GotView
  BY <1>6, <1>9 DEF GotView
<1>11. MadeView' = MadeView /\ EndedView' = EndedView /\ CodeView' = CodeView
  BY <1>1, TellingIsNoLife
<1>12. CASE owner[p] \in open
  <2>1. PICK k : k = Len(sent[owner[p]]) + 1
    OBVIOUS
  <2>2. Places(p, "exit")' = {k} /\ Carried(p, k)' = procs[p].code /\ k \in Nat
    <3>1. Send(owner[p], m) /\ m.type = "exit" /\ m.proc = p
      BY <1>3
    <3>2. /\ Places(p, "exit")' = Places(p, "exit") \cup {Len(sent[owner[p]]) + 1}
          /\ \A i : i = Len(sent[owner[p]]) + 1 => Carried(p, i)' = m.n
      BY <1>1, <1>4, <1>12, <3>1, PlacesGrow
    <3>3. Len(sent[owner[p]]) \in Nat
      BY <1>1, <1>4 DEF TypeOK
    <3> QED
      BY <1>3, <1>7, <2>1, <3>2, <3>3
  <2>3. Nth({k}, 1) = k
    <3>1. /\ IsFiniteSet({}) /\ Cardinality({}) = 0 /\ {} \subseteq Nat /\ {} \cup {k} = {k}
          /\ \A i \in {} : i < k
      BY FS_EmptySet
    <3>2. Nth({} \cup {k}, Cardinality({}) + 1) = k
      BY <2>2, <3>1, NthGrows
    <3>3. Cardinality({}) + 1 = 1
      BY <3>1
    <3> QED
      BY <3>1, <3>2, <3>3
  <2>4. Told(p)' = procs[p].code
    <3>1. Nth(Places(p, "exit"), 1)' = k
      BY <2>2, <2>3 DEF Nth
    <3>2. Carried(p, Nth(Places(p, "exit"), 1))' = Carried(p, k)'
      BY <3>1 DEF Carried
    <3>3. Received(p, "exit")'
      BY <2>2 DEF Received
    <3> QED
      BY <2>2, <3>2, <3>3 DEF Told
  <2>5. ChannelOf(p) = "open" /\ ChannelOf(p)' = "closed"
    <3>1. Received(p, "ack") /\ Received(p, "exit")'
      BY <1>1, <1>2, <1>12, <2>2 DEF Reports, Received
    <3>2. ChannelOf(p) = "open"
      BY <1>7, <1>12, <3>1 DEF ChannelOf
    <3>3. ChannelOf(p)' = "closed"
      BY <1>8, <3>1 DEF ChannelOf
    <3> QED
      BY <3>2, <3>3
  <2>6. \A s \in Streams : Len(GotView[p][s]) = MadeView[p][s]
    <3>1. ASSUME NEW s \in Streams PROVE Len(Got(p, s)) = procs[p].written[s]
      <4>1. Len(Got(p, s)) = Cardinality(Places(p, s))
        BY GotIsSeq
      <4>2. Cardinality(Places(p, s)) = Shipped(p, s)
        BY <1>1, <1>12 DEF Reports
      <4> QED
        BY <1>1, <1>2, <4>1, <4>2, ReportedIsShipped
    <3> QED
      BY <3>1 DEF GotView, MadeView
  <2>7. p \in EndedView
    BY <1>1, <1>2 DEF EndedView, Pipes, Pipe
  <2>8. /\ ChannelView[p] = "open" /\ ChannelView' = [ChannelView EXCEPT ![p] = "closed"]
        /\ ToldView' = [ToldView EXCEPT ![p] = CodeView[p]]
    BY <1>9, <2>4, <2>5 DEF ChannelView, ToldView, CodeView
  <2> QED
    BY <1>10, <1>11, <2>6, <2>7, <2>8
       DEF Channels!Close, ChannelView, GotView, ToldView, MadeView, EndedView, CodeView
<1>13. CASE owner[p] \notin open
  <2>1. Places(p, "exit")' = Places(p, "exit")
    BY <1>1, <1>3, <1>4, <1>13, PlacesGrow
  <2>2. Told(p)' = Told(p) /\ ChannelOf(p)' = ChannelOf(p)
    BY <1>4, <1>7, <1>8, <2>1 DEF Told, ChannelOf, Received
  <2>3. ChannelView' = ChannelView /\ ToldView' = ToldView
    BY <1>9, <2>2 DEF ChannelView, ToldView
  <2> QED
    BY <1>10, <1>11, <2>3
       DEF Channels!vars, ChannelView, GotView, ToldView, MadeView, EndedView, CodeView
<1> QED
  BY <1>12, <1>13

\* The views of a process that was not told anything and is not forked.
LEMMA NobodyIsTold ==
  ASSUME SessionInv, owner' = owner,
         UNCHANGED sent \/ \E d : \E m \in Message : m.type \notin About /\ Send(d, m)
  PROVE  /\ GotView' = GotView /\ ToldView' = ToldView
         /\ open' = open => ChannelView' = ChannelView
         /\ \A p \in ProcIds : \A type \in About : Received(p, type)' <=> Received(p, type)
<1>1. TypeOK
  BY DEF SessionInv
<1>2. ASSUME NEW p \in ProcIds
      PROVE  \A type \in About :
               /\ Places(p, type)' = Places(p, type)
               /\ \A i \in Places(p, type) : Carried(p, i)' = Carried(p, i)
  <2>1. owner'[p] = owner[p]
    OBVIOUS
  <2>2. CASE UNCHANGED sent
    BY <2>1, <2>2, PlacesStay
  <2>3. ASSUME NEW d, NEW m \in Message, m.type \notin About, Send(d, m), NEW type \in About
        PROVE  /\ Places(p, type)' = Places(p, type)
               /\ \A i \in Places(p, type) : Carried(p, i)' = Carried(p, i)
    BY <1>1, <2>1, <2>3, PlacesGrow
  <2> QED
    BY <2>2, <2>3
<1>3. ASSUME NEW p \in ProcIds
      PROVE  /\ \A s \in Streams : Got(p, s)' = Got(p, s)
             /\ Told(p)' = Told(p)
             /\ \A type \in About : Received(p, type)' <=> Received(p, type)
             /\ open' = open => ChannelOf(p)' = ChannelOf(p)
  BY <1>2, ViewStays
<1> QED
  BY <1>3 DEF GotView, ToldView, ChannelView

\* A fork changes nothing a client sees.
LEMMA ForkIsSilent ==
  ASSUME SessionInv, SessionInv', NEW p \in ProcIds, Begins(p)
  PROVE  UNCHANGED Channels!vars
<1>1. TypeOK /\ TypeOK' /\ ProcInv /\ SentInv
  BY DEF SessionInv
<1>2. /\ owner[p] = None /\ procs[p] = NoProc
      /\ procs'[p] = [NoProc EXCEPT !.pc = "forked", !.alive = TRUE]
      /\ \A x \in ProcIds \ {p} : procs'[x] = procs[x] /\ owner'[x] = owner[x]
      /\ sent' = sent /\ open' = open
  BY <1>1, Beginning DEF TypeOK
<1>3. \A type \in About : Places(p, type)' = {} /\ Places(p, type) = {}
  BY <1>1, ReportsBegin
<1>4. "ack" \in About /\ "exit" \in About /\ Streams \subseteq About
  BY DEF About
<1>5. /\ Told(p)' = 0 /\ Told(p) = 0 /\ ChannelOf(p)' = "idle" /\ ChannelOf(p) = "idle"
  BY <1>3, <1>4 DEF Told, ChannelOf, Received
<1>6. ASSUME NEW s \in Streams PROVE Got(p, s)' = Got(p, s)
  BY <1>3, <1>4, GotStays
<1>7. ASSUME NEW x \in ProcIds, x # p
      PROVE  /\ \A s \in Streams : Got(x, s)' = Got(x, s)
             /\ Told(x)' = Told(x) /\ ChannelOf(x)' = ChannelOf(x)
  <2>1. owner'[x] = owner[x]
    BY <1>2, <1>7
  <2>2. \A type \in About :
          /\ Places(x, type)' = Places(x, type)
          /\ \A i \in Places(x, type) : Carried(x, i)' = Carried(x, i)
    BY <1>2, <2>1, PlacesStay
  <2> QED
    BY <1>2, <2>1, <2>2, ViewStays
<1>8. ChannelView' = ChannelView /\ ToldView' = ToldView /\ GotView' = GotView
  BY <1>5, <1>6, <1>7 DEF ChannelView, ToldView, GotView
<1>9. /\ procs'[p].written = procs[p].written /\ procs'[p].code = procs[p].code
      /\ procs[p].pc = "none" /\ Writers(p)'
  <2> DEFINE q == [NoProc EXCEPT !.pc = "forked", !.alive = TRUE]
  <2>1. q.written = NoProc.written /\ q.code = NoProc.code /\ q.alive /\ NoProc.pc = "none"
    BY DEF NoProc
  <2>2. procs'[p] = q
    BY <1>2
  <2> HIDE DEF q
  <2> QED
    BY <1>2, <2>1, <2>2 DEF Writers
<1>10. MadeView' = MadeView /\ CodeView' = CodeView /\ EndedView' = EndedView
  <2>1. ASSUME NEW x \in ProcIds
        PROVE  /\ procs'[x].written = procs[x].written /\ procs'[x].code = procs[x].code
               /\ (procs'[x].pc # "none" /\ ~Writers(x)') <=> (procs[x].pc # "none" /\ ~Writers(x))
    <3>1. CASE x = p
      BY <1>9, <3>1
    <3>2. CASE x # p
      BY <1>2, <3>2 DEF Writers
    <3> QED
      BY <3>1, <3>2
  <2> QED
    BY <2>1 DEF MadeView, CodeView, EndedView
<1> QED
  BY <1>8, <1>10
     DEF Channels!vars, ChannelView, GotView, ToldView, MadeView, EndedView, CodeView

\* Commands end: what they wrote, and what was sent of it, is as it was.
LEMMA EndingIsEnd ==
  ASSUME SessionInv, SessionInv', UNCHANGED <<sent, owner, open>>, \A p \in ProcIds : Ends(p)
  PROVE  Channels!End
<1>1. GotView' = GotView /\ ToldView' = ToldView /\ ChannelView' = ChannelView
  BY NobodyIsTold
<1>2. MadeView' = MadeView
  BY DEF MadeView, Ends
<1>3. EndedView \subseteq EndedView' /\ EndedView' \subseteq ProcIds
  BY DEF EndedView, Ends
<1>4. CodeView' \in [ProcIds -> ExitCodes]
  <2>1. procs' \in [ProcIds -> ProcRecord]
    BY DEF SessionInv, TypeOK, ExecTypeOK
  <2>2. ASSUME NEW p \in ProcIds PROVE procs'[p].code \in ExitCodes
    BY <2>1 DEF ProcRecord
  <2> QED
    BY <2>2 DEF CodeView
<1>5. \A p \in ProcIds : CodeView[p] # 0 => CodeView'[p] = CodeView[p]
  BY DEF CodeView, Ends
<1>6. ASSUME NEW p \in EndedView' PROVE CodeView'[p] # 0
  <2>1. p \in ProcIds /\ procs'[p].pc # "none" /\ ~procs'[p].alive
    BY <1>6 DEF EndedView, Writers
  <2>2. Life(p)'
    BY <2>1 DEF SessionInv, ProcInv
  <2>3. procs'[p].code # 0
    BY <2>1, <2>2 DEF Life
  <2> QED
    BY <2>1, <2>3 DEF CodeView
<1> QED
  BY <1>1, <1>2, <1>3, <1>4, <1>5, <1>6
     DEF Channels!End, ChannelView, GotView, ToldView, MadeView, EndedView, CodeView

\* A command writes, while it or what it left behind is there.
LEMMA WritingIsProduce ==
  ASSUME SessionInv, UNCHANGED <<sent, owner, open>>, NEW p \in ProcIds, NEW s \in Streams,
         Writes(p, s)
  PROVE  Channels!Produce(p, s)
<1>1. GotView' = GotView /\ ToldView' = ToldView /\ ChannelView' = ChannelView
  BY NobodyIsTold
<1>2. procs \in [ProcIds -> ProcRecord] /\ procs[p] \in ProcRecord
  BY DEF SessionInv, TypeOK, ExecTypeOK
<1>3. PICK q : /\ procs' = [procs EXCEPT ![p] = q]
               /\ q.written = [procs[p].written EXCEPT ![s] = @ + 1]
               /\ q.pc = procs[p].pc /\ q.code = procs[p].code
               /\ q.alive = procs[p].alive /\ q.child = procs[p].child
  <2> DEFINE q == [procs[p] EXCEPT !.written[s] = @ + 1, !.piped[s] = @ + 1]
  <2>1. procs' = [procs EXCEPT ![p] = q]
    BY DEF Writes
  <2>2. /\ q.written = [procs[p].written EXCEPT ![s] = @ + 1]
        /\ q.pc = procs[p].pc /\ q.code = procs[p].code
        /\ q.alive = procs[p].alive /\ q.child = procs[p].child
    BY <1>2 DEF ProcRecord
  <2> HIDE DEF q
  <2> QED
    BY <2>1, <2>2
<1>4. procs'[p] = q /\ \A x \in ProcIds \ {p} : procs'[x] = procs[x]
  BY <1>2, <1>3
<1>5. p \notin EndedView
  BY DEF Writes, EndedView
<1>6. EndedView' = EndedView /\ CodeView' = CodeView
  BY <1>3, <1>4 DEF EndedView, CodeView, Writers
<1>7. MadeView' = [MadeView EXCEPT ![p][s] = @ + 1]
  <2>1. MadeView[p] = procs[p].written
    BY DEF MadeView
  <2>2. MadeView'[p] = [MadeView[p] EXCEPT ![s] = @ + 1]
    BY <1>3, <1>4, <2>1 DEF MadeView
  <2>3. \A x \in ProcIds \ {p} : MadeView'[x] = MadeView[x]
    BY <1>4 DEF MadeView
  <2>4. /\ MadeView = [x \in ProcIds |-> MadeView[x]]
        /\ MadeView' = [x \in ProcIds |-> MadeView'[x]]
    BY DEF MadeView
  <2> HIDE DEF MadeView
  <2> QED
    BY <2>2, <2>3, <2>4
<1> QED
  BY <1>1, <1>5, <1>6, <1>7
     DEF Channels!Produce, ChannelView, GotView, ToldView, MadeView, EndedView, CodeView

\* Peers go away, and with them the channels of their processes; one that is
\* gone never comes back.
LEMMA LeavingIsLose ==
  ASSUME SessionInv, [Next]_vars, UNCHANGED <<procs, owner, sent>>
  PROVE  Channels!Lose({p \in ProcIds : owner[p] \notin open'})
<1>1. TypeOK
  BY DEF SessionInv
<1>2. GotView' = GotView /\ ToldView' = ToldView
  BY NobodyIsTold
<1>3. \A p \in ProcIds : \A type \in About : Received(p, type)' <=> Received(p, type)
  BY NobodyIsTold
<1>4. MadeView' = MadeView /\ EndedView' = EndedView /\ CodeView' = CodeView
  BY DEF MadeView, EndedView, CodeView, Writers
<1>5. ASSUME NEW p \in ProcIds
      PROVE  ChannelOf(p)' = IF owner[p] \notin open' /\ ChannelOf(p) = "open" THEN "lost"
                             ELSE ChannelOf(p)
  <2>1. /\ Received(p, "ack")' <=> Received(p, "ack")
        /\ Received(p, "exit")' <=> Received(p, "exit")
        /\ Received(p, "exit") => Received(p, "ack")
    BY <1>3 DEF About, SessionInv, SentInv, Reports
  <2>2. owner'[p] = owner[p]
    OBVIOUS
  <2>3. CASE Received(p, "exit")
    BY <2>1, <2>3 DEF ChannelOf
  <2>4. CASE ~Received(p, "ack")
    BY <2>1, <2>4 DEF ChannelOf
  <2>5. CASE Received(p, "ack") /\ ~Received(p, "exit")
    <3>1. owner[p] \in Conns
      BY <1>1, <2>5 DEF Received, Places, TypeOK
    <3>2. pc[owner[p]] # "new"
      BY <3>1 DEF SessionInv, SentInv, Accepted
    <3>3. owner[p] \in open' => owner[p] \in open
      BY <1>1, <3>1, <3>2, Connecting
    <3> QED
      BY <2>1, <2>2, <2>5, <3>3 DEF ChannelOf
  <2> QED
    BY <2>3, <2>4, <2>5
<1>6. ChannelView' = [p \in ProcIds |->
                        IF p \in {x \in ProcIds : owner[x] \notin open'} /\ ChannelView[p] = "open"
                        THEN "lost" ELSE ChannelView[p]]
  BY <1>5 DEF ChannelView
<1> QED
  BY <1>2, <1>4, <1>6
     DEF Channels!Lose, ChannelView, GotView, ToldView, MadeView, EndedView, CodeView

\* An answer about no process is nothing to the channels.
LEMMA AnswersAreSilent ==
  ASSUME SessionInv, UNCHANGED <<procs, owner, open>>,
         \E d : \E m \in Message : m.type \notin About /\ Send(d, m)
  PROVE  UNCHANGED Channels!vars
<1>1. GotView' = GotView /\ ToldView' = ToldView /\ ChannelView' = ChannelView
  BY NobodyIsTold
<1>2. MadeView' = MadeView /\ EndedView' = EndedView /\ CodeView' = CodeView
  BY DEF MadeView, EndedView, CodeView, Writers
<1> QED
  BY <1>1, <1>2
     DEF Channels!vars, ChannelView, GotView, ToldView, MadeView, EndedView, CodeView

\* Every step of the session is a step of the channels, or none of theirs.
LEMMA ChannelStep ==
  ASSUME SessionInv, SessionInv', [Next]_vars
  PROVE  [Channels!Next]_(Channels!vars)
<1>1. ASSUME NEW p \in ProcIds, Tells(p) PROVE [Channels!Next]_(Channels!vars)
  <2>1. CASE ExecAcks(p)
    BY <2>1, AckOpens DEF Channels!Next
  <2>2. CASE ReportExit(p)
    BY <2>2, ExitCloses DEF Channels!Next
  <2>3. ASSUME NEW s \in Streams, StreamSends(p, s) PROVE [Channels!Next]_(Channels!vars)
    BY <2>3, OutputIsDelivered DEF Channels!Next
  <2> QED
    BY <1>1, <2>1, <2>2, <2>3 DEF Tells
<1>2. ASSUME NEW p \in ProcIds, Begins(p) PROVE [Channels!Next]_(Channels!vars)
  BY <1>2, ForkIsSilent
<1>3. ASSUME UNCHANGED <<sent, owner, open>>, \A p \in ProcIds : Ends(p)
      PROVE  [Channels!Next]_(Channels!vars)
  BY <1>3, EndingIsEnd DEF Channels!Next
<1>4. ASSUME UNCHANGED <<sent, owner, open>>, NEW p \in ProcIds, NEW s \in Streams, Writes(p, s)
      PROVE  [Channels!Next]_(Channels!vars)
  BY <1>4, WritingIsProduce DEF Channels!Next
<1>5. ASSUME UNCHANGED <<procs, owner, open>>,
             \E d : \E m \in Message : m.type \notin About /\ Send(d, m)
      PROVE  [Channels!Next]_(Channels!vars)
  BY <1>5, AnswersAreSilent
<1>6. ASSUME UNCHANGED <<procs, owner, sent>> PROVE [Channels!Next]_(Channels!vars)
  <2>1. PICK P : P = {p \in ProcIds : owner[p] \notin open'}
    OBVIOUS
  <2>2. Channels!Lose(P) /\ P \in SUBSET ProcIds
    BY <1>6, <2>1, LeavingIsLose
  <2> QED
    BY <2>2 DEF Channels!Next
<1>7. TypeOK /\ ProcInv
  BY DEF SessionInv
<1> QED
  BY <1>1, <1>2, <1>3, <1>4, <1>5, <1>6, <1>7, StepKinds

\* No command has started, and nobody was told anything.
LEMMA ChannelInit == Init => Channels!Init
<1> SUFFICES ASSUME Init PROVE Channels!Init
  OBVIOUS
<1>1. \A p \in ProcIds : procs[p] = NoProc /\ owner[p] = None
  BY DEF Init, ExecInit
<1>2. \A p \in ProcIds : \A type : Places(p, type) = {}
  BY <1>1 DEF Places
<1>3. /\ NoProc.pc = "none" /\ NoProc.code = 0
      /\ NoProc.written = [s \in Streams |-> 0]
  BY DEF NoProc
<1>4. ChannelView = [p \in ProcIds |-> "idle"] /\ ToldView = [p \in ProcIds |-> 0]
  BY <1>2 DEF ChannelView, ToldView, ChannelOf, Told, Received
<1>5. ASSUME NEW p \in ProcIds, NEW s \in Streams PROVE Got(p, s) = << >>
  <2>1. Cardinality(Places(p, s)) = 0
    BY <1>2, FS_EmptySet
  <2>2. Got(p, s) = [k \in 1 .. 0 |-> Carried(p, Nth(Places(p, s), k))]
    BY <2>1 DEF Got
  <2>3. Got(p, s) \in Seq(Int) /\ Len(Got(p, s)) = 0
    BY <2>2
  <2> QED
    BY <2>3
<1>6. GotView = [p \in ProcIds |-> [s \in Streams |-> << >>]]
  BY <1>5 DEF GotView
<1>7. /\ MadeView = [p \in ProcIds |-> [s \in Streams |-> 0]]
      /\ EndedView = {} /\ CodeView = [p \in ProcIds |-> 0]
  BY <1>1, <1>3 DEF MadeView, EndedView, CodeView
<1> QED
  BY <1>4, <1>6, <1>7
     DEF Channels!Init, ChannelView, GotView, ToldView, MadeView, EndedView, CodeView

\* The session implements ExecChannel: the output of a command reaches its own
\* client, complete, in order, between the Ack and the exit, however many
\* goroutines send at once and whoever else connects or goes away
\* (server.go:252-280).
THEOREM OutputIsOrdered == Spec => OutputBeforeExit
<1>1. SessionInv /\ SessionInv' /\ [Next]_vars => [Channels!Next]_(Channels!vars)
  BY ChannelStep
<1> QED
  BY <1>1, ChannelInit, SessionAgrees, PTL DEF Spec, OutputBeforeExit, Channels!Spec

-----------------------------------------------------------------------------
(* ExecSync.                                                                *)

\* What a call has counted of a stream: the messages of it among those read.
UpTo(c, n, s) == {i \in 1 .. n : sent[c][i].type = s}
Counted(c, s) == UpTo(c, calls[c].read, s)

\* A call that has not sent its command yet owns no process.
Fresh(c) ==
  /\ pc[c] = "new" => calls[c].pc = "idle"
  /\ calls[c].pc \in {"idle", "hello"} =>
       /\ calls[c].read = 0 /\ inbox[c] = {}
       /\ \A p \in ProcIds : owner[p] # c

\* A call asks once, so it owns at most one process, and none before that
\* request is handled.
AsksOnce(c) ==
  /\ \A r \in inbox[c] : inbox[c] = {r} /\ \A p \in ProcIds : owner[p] # c
  /\ \A p, x \in ProcIds : owner[p] = c /\ owner[x] = c => p = x

\* A call has counted what it has read.
Counts(c) ==
  /\ calls[c].read <= Len(sent[c])
  /\ calls[c].pc \in {"idle", "hello"} => \A s \in Streams : calls[c].out[s] = 0
  /\ calls[c].pc = "reading" =>
       \A s \in Streams : calls[c].out[s] = Cardinality(Counted(c, s))

\* A call that has returned has the result of its own process.
ResultOf(c, p) ==
  /\ owner[p] = c /\ procs[p].pc \in {"reported", "over"}
  /\ calls[c].code = procs[p].code /\ calls[c].out = procs[p].written

Results(c) == calls[c].pc = "returned" => \E p \in ProcIds : ResultOf(c, p)

CallInv == \A c \in Calls : Fresh(c) /\ AsksOnce(c) /\ Counts(c) /\ Results(c)

\* What was sent to a connection stays sent.
LEMMA SentGrows ==
  ASSUME SessionInv, [Next]_vars, NEW c \in Conns
  PROVE  /\ Len(sent[c]) <= Len(sent'[c])
         /\ \A i \in 1 .. Len(sent[c]) : sent'[c][i] = sent[c][i]
<1>1. TypeOK /\ ProcInv /\ sent \in [Conns -> Seq(Message)] /\ sent[c] \in Seq(Message)
  BY DEF SessionInv, TypeOK
<1>2. ASSUME NEW d, NEW m \in Message, Send(d, m)
      PROVE  /\ Len(sent[c]) <= Len(sent'[c])
             /\ \A i \in 1 .. Len(sent[c]) : sent'[c][i] = sent[c][i]
  <2>1. CASE sent'[c] = sent[c]
    BY <1>1, <2>1
  <2>2. CASE sent'[c] = Append(sent[c], m)
    BY <1>1, <1>2, <2>2
  <2> QED
    BY <1>1, <1>2, <2>1, <2>2 DEF Send
<1>3. CASE sent' = sent
  BY <1>1, <1>3
<1>4. ASSUME NEW p \in ProcIds, Tells(p) PROVE \E d : \E m \in Message : Send(d, m)
  BY <1>1, <1>4, Telling
<1> QED
  BY <1>1, <1>2, <1>3, <1>4, StepSends

\* What a call has counted is not disturbed by what others do.
LEMMA CountedStays ==
  ASSUME SessionInv, [Next]_vars, NEW c \in Calls, Counts(c), calls'[c] = calls[c],
         NEW s \in Streams
  PROVE  Counted(c, s)' = Counted(c, s)
<1>1. c \in Conns /\ calls[c] \in Call /\ sent[c] \in Seq(Message)
  BY DEF Conns, SessionInv, TypeOK
<1>2. calls[c].read \in Nat /\ calls[c].read <= Len(sent[c])
  BY <1>1 DEF Call, Counts
<1>3. \A i \in 1 .. calls[c].read : sent'[c][i] = sent[c][i]
  BY <1>1, <1>2, SentGrows
<1> QED
  BY <1>3 DEF Counted, UpTo

\* Reading a message adds it to what is counted.
LEMMA CountedGrows ==
  ASSUME NEW c \in Calls, NEW n \in Nat, NEW s
  PROVE  /\ sent[c][n + 1].type = s =>
              Cardinality(UpTo(c, n + 1, s)) = Cardinality(UpTo(c, n, s)) + 1
         /\ sent[c][n + 1].type # s => UpTo(c, n + 1, s) = UpTo(c, n, s)
<1> DEFINE A == {i \in 1 .. n : sent[c][i].type = s}
           B == {i \in 1 .. n + 1 : sent[c][i].type = s}
<1>1. CASE sent[c][n + 1].type = s
  <2>1. IsFiniteSet(A) /\ n + 1 \notin A
    <3>1. IsFiniteSet(1 .. n) /\ A \subseteq 1 .. n
      BY FS_Interval
    <3> QED
      BY <3>1, FS_Subset
  <2>2. B = A \cup {n + 1}
    BY <1>1
  <2>3. Cardinality(A \cup {n + 1}) = Cardinality(A) + 1
    BY <2>1, FS_AddElement
  <2> HIDE DEF A, B
  <2>4. Cardinality(B) = Cardinality(A) + 1
    BY <2>2, <2>3
  <2> QED
    BY <1>1, <2>4 DEF A, B, UpTo
<1>2. CASE sent[c][n + 1].type # s
  BY <1>2 DEF UpTo
<1> QED
  BY <1>1, <1>2

\* Whose step changes what a call is about.
LEMMA CallMoves ==
  ASSUME TypeOK, [Next]_vars, NEW c \in Calls
  PROVE  \/ Accept(c) \/ CallHello(c) \/ CallReads(c) \/ CallReturns(c)
         \/ CallFails(c) \/ CallTimesOut(c)
         \/ /\ calls'[c] = calls[c] /\ (pc'[c] = "new" => pc[c] = "new")
            /\ inbox'[c] \subseteq inbox[c]
            /\ \A p \in ProcIds : owner'[p] = c =>
                 owner[p] = c \/ (nextID = p /\ owner' = [owner EXCEPT ![p] = c]
                                  /\ \E r \in inbox[c] : inbox'[c] = inbox[c] \ {r})
<1> DEFINE Quiet == /\ calls'[c] = calls[c] /\ (pc'[c] = "new" => pc[c] = "new")
                    /\ inbox'[c] \subseteq inbox[c]
           Keeps == \A p \in ProcIds : owner'[p] = c => owner[p] = c
<1>0. /\ inbox \in [Conns -> SUBSET Request] /\ calls \in [Calls -> Call] /\ c \in Conns
      /\ pc \in [Conns -> {"new", "accepted", "ready", "closed"}]
      /\ owner \in [ProcIds -> Conns \cup {None}]
  BY DEF TypeOK, Conns
<1>1. ASSUME NEW d \in Conns, Accept(d) \/ SetUp(d), ~Accept(c)
      PROVE  Quiet /\ Keeps
  BY <1>0, <1>1 DEF Accept, SetUp, SendReady, Leave, Advance, execs, queues
<1>2. ASSUME NEW d \in Conns, NEW r \in inbox[d], Handle(d, r)
      PROVE  /\ Quiet
             /\ Keeps \/ \E p \in ProcIds :
                           /\ nextID = p /\ owner' = [owner EXCEPT ![p] = d]
                           /\ inbox' = [inbox EXCEPT ![d] = @ \ {r}]
  <2>1. Take(d, r)
    BY <1>2 DEF Handle, HandlePing, HandleUnknown, ExecForks, NoRuntime, ForkRefused,
                HandleStdin, HandleSignal, HandleFile
  <2>2. Quiet
    BY <1>0, <2>1 DEF Take, conns
  <2>3. CASE ExecForks(d, r)
    BY <2>2, <2>3 DEF ExecForks, Take, Fork
  <2>4. CASE ~ExecForks(d, r)
    BY <1>2, <2>2, <2>4 DEF Handle, HandlePing, HandleUnknown, NoRuntime, ForkRefused,
                HandleStdin, HandleSignal, HandleFile, execs
  <2> QED
    BY <2>3, <2>4
<1>3. ASSUME NEW d \in Clients, ClientAsks(d) \/ ClientLeaves(d)
      PROVE  Quiet /\ Keeps
  <2>1. d # c /\ d \in Conns
    BY SessionAssumption DEF Conns
  <2>2. UNCHANGED <<pc, owner, calls>>
    BY <1>3 DEF ClientAsks, ClientLeaves, conns, execs
  <2>3. inbox'[c] = inbox[c]
    BY <1>0, <1>3, <2>1 DEF ClientAsks, ClientLeaves, Ask, HangUp
  <2> QED
    BY <2>2, <2>3
<1>4. ASSUME NEW d \in Calls, CallStep(d) \/ CallTimesOut(d), d # c
      PROVE  Quiet /\ Keeps
  <2>1. UNCHANGED <<pc, owner>> /\ calls'[c] = calls[c]
    BY <1>0, <1>4 DEF CallStep, CallHello, CallReads, CallReturns, CallFails, CallTimesOut,
                      conns, execs
  <2>2. inbox'[c] = inbox[c]
    BY <1>0, <1>4 DEF CallStep, CallHello, CallReads, CallReturns, CallFails, CallTimesOut,
                      Ask, HangUp, queues
  <2> QED
    BY <2>1, <2>2
<1>5. ASSUME Stop \/ Halt \/ UNCHANGED vars PROVE Quiet /\ Keeps
  BY <1>5 DEF Stop, Halt, vars, conns, execs, queues
<1>6. ASSUME NEW p \in ProcIds,
             \/ ExecRegisters(p) \/ ExecAcks(p) \/ ReportExit(p) \/ Forget(p)
             \/ Reap(p) \/ ProcStep(p) \/ \E s \in Streams : Stream(p, s)
      PROVE  Quiet /\ Keeps
  BY <1>6 DEF ExecRegisters, ExecAcks, ReportExit, Forget, Reap, ProcStep, Stream, StreamReads,
              StreamSends, conns, queues
<1>7. ASSUME NEW d \in Conns, NEW r \in inbox[d], NEW p \in ProcIds,
             nextID = p, owner' = [owner EXCEPT ![p] = d], inbox' = [inbox EXCEPT ![d] = @ \ {r}],
             NEW x \in ProcIds, owner'[x] = c
      PROVE  owner[x] = c \/ (nextID = x /\ owner' = [owner EXCEPT ![x] = c]
                              /\ \E y \in inbox[c] : inbox'[c] = inbox[c] \ {y})
  BY <1>0, <1>7
<1>8. CASE Accept(c) \/ CallStep(c) \/ CallTimesOut(c)
  BY <1>8 DEF CallStep
<1>9. CASE ~(Accept(c) \/ CallStep(c) \/ CallTimesOut(c))
  <2>1. \/ Quiet /\ Keeps
        \/ \E d \in Conns : \E r \in inbox[d] : Handle(d, r)
    <3> HIDE DEF Quiet, Keeps
    <3> QED
      BY <1>1, <1>3, <1>4, <1>5, <1>6, <1>9 DEF Next
  <2> QED
    BY <1>2, <1>7, <2>1
<1> QED
  BY <1>8, <1>9

\* What others do leaves a call as it is; its request may become its process.
LEMMA CallWaits ==
  ASSUME SessionInv, SessionInv', [Next]_vars, NEW c \in Calls,
         Fresh(c), AsksOnce(c), Counts(c), Results(c),
         calls'[c] = calls[c], pc'[c] = "new" => pc[c] = "new", inbox'[c] \subseteq inbox[c],
         \A p \in ProcIds : owner'[p] = c =>
           owner[p] = c \/ (nextID = p /\ owner' = [owner EXCEPT ![p] = c]
                            /\ \E r \in inbox[c] : inbox'[c] = inbox[c] \ {r})
  PROVE  Fresh(c)' /\ AsksOnce(c)' /\ Counts(c)' /\ Results(c)'
<1>0. /\ TypeOK /\ ProcInv /\ c \in Conns /\ c # None
      /\ owner \in [ProcIds -> Conns \cup {None}]
      /\ calls[c] \in Call /\ sent[c] \in Seq(Message) /\ sent'[c] \in Seq(Message)
  BY SessionAssumption DEF SessionInv, TypeOK, Conns
<1>1. Fresh(c)'
  BY DEF Fresh
<1>2. AsksOnce(c)'
  <2>1. CASE \E p \in ProcIds : owner'[p] = c /\ owner[p] # c
    <3>1. PICK p \in ProcIds : /\ owner'[p] = c /\ owner' = [owner EXCEPT ![p] = c]
                               /\ \E r \in inbox[c] : inbox'[c] = inbox[c] \ {r}
      BY <2>1
    <3>2. inbox'[c] = {} /\ \A x \in ProcIds : owner[x] # c
      BY <3>1 DEF AsksOnce
    <3>3. \A x \in ProcIds : owner'[x] = c => x = p
      BY <1>0, <3>1, <3>2
    <3> QED
      BY <3>2, <3>3 DEF AsksOnce
  <2>2. CASE \A p \in ProcIds : owner'[p] = c => owner[p] = c
    BY <2>2 DEF AsksOnce
  <2> QED
    BY <2>1, <2>2
<1>3. Counts(c)'
  <2>1. calls'[c].read <= Len(sent'[c])
    <3>1. Len(sent[c]) <= Len(sent'[c])
      BY <1>0, SentGrows
    <3>2. calls[c].read \in Nat /\ Len(sent[c]) \in Nat /\ Len(sent'[c]) \in Nat
      BY <1>0 DEF Call
    <3> QED
      BY <3>1, <3>2 DEF Counts
  <2>2. \A s \in Streams : Counted(c, s)' = Counted(c, s)
    BY CountedStays
  <2> QED
    BY <2>1, <2>2 DEF Counts
<1>4. Results(c)'
  <2>1. ASSUME calls[c].pc = "returned" PROVE \E p \in ProcIds : ResultOf(c, p)'
    <3>1. PICK p \in ProcIds : ResultOf(c, p)
      BY <2>1 DEF Results
    <3>2. ~Tells(p)
      <4>1. ASSUME NEW s \in Streams PROVE ~procs[p].held[s]
        BY <1>0, <3>1 DEF ResultOf, ProcInv, Pipes, Pipe
      <4> QED
        BY <3>1, <4>1 DEF Tells, ResultOf, ExecAcks, ReportExit, ExitIsDue, StreamSends
    <3>3. ~Begins(p)
      BY <1>0, <3>1, Beginning DEF ResultOf
    <3>4. Steady(p)
      BY <1>0, <3>2, <3>3, StepIsSteady
    <3> QED
      BY <3>1, <3>4 DEF Steady, ResultOf
  <2> QED
    BY <2>1 DEF Results
<1> QED
  BY <1>1, <1>2, <1>3, <1>4

\* The first message of a connection is about no process, so a call that throws
\* it away has missed no output.
LEMMA HelloCounts ==
  ASSUME SessionInv, NEW c \in Calls, Fresh(c), AsksOnce(c), Counts(c), CallHello(c)
  PROVE  Fresh(c)' /\ AsksOnce(c)' /\ Counts(c)' /\ Results(c)'
<1>0. /\ TypeOK /\ c \in Conns /\ c # None
      /\ calls \in [Calls -> Call] /\ calls[c] \in Call /\ sent[c] \in Seq(Message)
      /\ inbox \in [Conns -> SUBSET Request] /\ asked \in [Conns -> Nat]
  BY SessionAssumption DEF SessionInv, TypeOK, Conns
<1>1. /\ calls[c].pc = "hello" /\ 0 < Len(sent[c]) /\ calls[c].read = 0
      /\ inbox[c] = {} /\ \A p \in ProcIds : owner[p] # c
      /\ sent' = sent /\ owner' = owner /\ pc' = pc /\ pc[c] # "new"
  BY DEF CallHello, Arrived, Fresh, execs, conns
<1>2. /\ calls'[c].pc = "reading" /\ calls'[c].read = 1 /\ calls'[c].out = calls[c].out
  <2>1. calls'[c] = [calls[c] EXCEPT !.pc = "reading", !.read = @ + 1]
    BY <1>0 DEF CallHello
  <2> QED
    BY <1>0, <1>1, <2>1 DEF Call
<1>3. \E r : inbox'[c] = {r}
  BY <1>0, <1>1 DEF CallHello, Ask
<1>4. Fresh(c)'
  BY <1>1, <1>2 DEF Fresh
<1>5. AsksOnce(c)'
  BY <1>1, <1>3 DEF AsksOnce
<1>6. sent[c][1].type \notin About
  <2>1. 1 \in DOMAIN sent[c]
    BY <1>0, <1>1
  <2> QED
    BY <1>0, <1>1, <2>1 DEF SessionInv, SentInv, Addressed
<1>7. ASSUME NEW s \in Streams PROVE Cardinality(Counted(c, s)') = 0
  <2>1. Counted(c, s)' = {i \in 1 .. 1 : sent[c][i].type = s}
    BY <1>1, <1>2 DEF Counted, UpTo
  <2>2. Counted(c, s)' = {}
    BY <1>6, <2>1 DEF About
  <2> QED
    BY <2>2, FS_EmptySet
<1>8. \A s \in Streams : calls[c].out[s] = 0
  BY <1>1 DEF Counts
<1>9. 1 <= Len(sent[c])
  BY <1>0, <1>1
<1>10. Counts(c)'
  BY <1>1, <1>2, <1>7, <1>8, <1>9 DEF Counts
<1> QED
  BY <1>2, <1>4, <1>5, <1>10 DEF Results

\* A message of a stream is counted for it.
LEMMA ReadingCounts ==
  ASSUME SessionInv, NEW c \in Calls, Fresh(c), AsksOnce(c), Counts(c), CallReads(c)
  PROVE  Fresh(c)' /\ AsksOnce(c)' /\ Counts(c)' /\ Results(c)'
<1>0. /\ TypeOK /\ c \in Conns
      /\ calls \in [Calls -> Call] /\ calls[c] \in Call /\ sent[c] \in Seq(Message)
  BY DEF SessionInv, TypeOK, Conns
<1>1. PICK n \in Nat : n = calls[c].read
  BY <1>0 DEF Call
<1>2. /\ calls[c].pc = "reading" /\ n < Len(sent[c])
      /\ sent' = sent /\ owner' = owner /\ pc' = pc /\ inbox' = inbox
      /\ calls' = [calls EXCEPT ![c].read = @ + 1,
                                ![c].out = [s \in Streams |->
                                   IF sent[c][n + 1].type = s THEN @[s] + 1 ELSE @[s]]]
  BY <1>1 DEF CallReads, Arrived, NextMessage, execs, conns, queues
<1>3. /\ calls'[c].pc = "reading" /\ calls'[c].read = n + 1
      /\ \A s \in Streams :
           calls'[c].out[s] = IF sent[c][n + 1].type = s THEN calls[c].out[s] + 1
                              ELSE calls[c].out[s]
  <2>1. calls'[c] = [calls[c] EXCEPT !.read = @ + 1,
                                     !.out = [s \in Streams |->
                                   IF sent[c][n + 1].type = s THEN @[s] + 1 ELSE @[s]]]
    BY <1>0, <1>2
  <2>2. calls'[c].pc = "reading" /\ calls'[c].read = n + 1
    BY <1>0, <1>1, <1>2, <2>1 DEF Call
  <2>3. calls'[c].out = [s \in Streams |->
          IF sent[c][n + 1].type = s THEN calls[c].out[s] + 1 ELSE calls[c].out[s]]
    BY <1>0, <2>1 DEF Call
  <2> QED
    BY <2>2, <2>3
<1>4. Fresh(c)' /\ AsksOnce(c)' /\ Results(c)'
  BY <1>2, <1>3 DEF Fresh, AsksOnce, Results
<1>5. ASSUME NEW s \in Streams PROVE calls'[c].out[s] = Cardinality(Counted(c, s)')
  <2>1. /\ Counted(c, s) = UpTo(c, n, s)
        /\ Counted(c, s)' = UpTo(c, n + 1, s)
    BY <1>1, <1>2, <1>3 DEF Counted, UpTo
  <2>2. calls[c].out[s] = Cardinality(Counted(c, s))
    BY <1>2 DEF Counts
  <2>3. CASE sent[c][n + 1].type = s
    <3>1. Cardinality(Counted(c, s)') = Cardinality(Counted(c, s)) + 1
      BY <2>1, <2>3, CountedGrows
    <3> QED
      BY <1>3, <2>2, <2>3, <3>1
  <2>4. CASE sent[c][n + 1].type # s
    <3>1. Counted(c, s)' = Counted(c, s)
      BY <2>1, <2>4, CountedGrows
    <3> QED
      BY <1>3, <2>2, <2>4, <3>1
  <2> QED
    BY <2>3, <2>4
<1>6. n + 1 <= Len(sent[c])
  BY <1>0, <1>2
<1> QED
  BY <1>2, <1>3, <1>4, <1>5, <1>6 DEF Counts

\* The exit is the last message about the process of a call, and everything the
\* process wrote came before it.
LEMMA ReturningIsComplete ==
  ASSUME SessionInv, NEW c \in Calls, AsksOnce(c), Counts(c), CallReturns(c)
  PROVE  \E p \in ProcIds : ResultOf(c, p)'
<1>0. /\ TypeOK /\ c \in Conns /\ c # None
      /\ calls \in [Calls -> Call] /\ calls[c] \in Call /\ sent[c] \in Seq(Message)
      /\ procs \in [ProcIds -> ProcRecord]
  BY SessionAssumption DEF SessionInv, TypeOK, ExecTypeOK, Conns
<1>1. PICK n \in Nat : n = calls[c].read
  BY <1>0 DEF Call
<1>2. /\ calls[c].pc = "reading" /\ n < Len(sent[c]) /\ sent[c][n + 1].type = "exit"
      /\ procs' = procs /\ owner' = owner
      /\ calls' = [calls EXCEPT ![c].pc = "returned", ![c].code = sent[c][n + 1].n]
  BY <1>1 DEF CallReturns, Arrived, NextMessage, execs
<1>3. calls'[c].code = sent[c][n + 1].n /\ calls'[c].out = calls[c].out
  BY <1>0, <1>2 DEF Call
<1>4. PICK p \in ProcIds : p = sent[c][n + 1].proc /\ owner[p] = c
  <2>1. n + 1 \in DOMAIN sent[c]
    BY <1>0, <1>2
  <2> QED
    BY <1>0, <1>2, <2>1 DEF SessionInv, SentInv, Addressed, About
<1>5. n + 1 \in Places(p, "exit")
  <2>1. n + 1 \in DOMAIN sent[c]
    BY <1>0, <1>2
  <2> QED
    BY <1>0, <1>2, <1>4, <2>1 DEF Places
<1>6. /\ Reports(p) /\ Received(p, "exit")
      /\ Carried(p, n + 1) = sent[c][n + 1].n
  BY <1>4, <1>5 DEF SessionInv, SentInv, Received, Carried
<1>7. procs[p].pc \in {"reported", "over"} /\ calls'[c].code = procs[p].code
  BY <1>3, <1>5, <1>6 DEF Reports
<1>8. ASSUME NEW s \in Streams PROVE calls[c].out[s] = procs[p].written[s]
  <2>1. Counted(c, s) \subseteq Places(p, s)
    <3>1. ASSUME NEW i \in 1 .. n, sent[c][i].type = s PROVE i \in Places(p, s)
      <4>1. i \in DOMAIN sent[c] /\ s \in About
        BY <1>0, <1>2 DEF About
      <4>2. sent[c][i].proc \in ProcIds /\ owner[sent[c][i].proc] = c
        BY <1>0, <3>1, <4>1 DEF SessionInv, SentInv, Addressed
      <4>3. sent[c][i].proc = p
        BY <1>4, <4>2 DEF AsksOnce
      <4> QED
        BY <1>0, <1>4, <3>1, <4>1, <4>3 DEF Places
    <3> QED
      BY <1>1, <3>1 DEF Counted, UpTo
  <2>2. Places(p, s) \subseteq Counted(c, s)
    <3>1. ASSUME NEW i \in Places(p, s) PROVE i \in 1 .. n /\ sent[c][i].type = s
      <4>1. i \in DOMAIN sent[c] /\ sent[c][i].type = s
        BY <1>0, <1>4 DEF Places
      <4>2. i < n + 1
        BY <1>5, <1>6 DEF Reports
      <4> QED
        BY <1>0, <4>1, <4>2
    <3> QED
      BY <1>1, <3>1 DEF Counted, UpTo
  <2>3. Places(p, s) = Counted(c, s)
    BY <2>1, <2>2
  <2>4. Cardinality(Places(p, s)) = procs[p].written[s]
    BY <1>6 DEF Reports
  <2>5. calls[c].out[s] = Cardinality(Counted(c, s))
    BY <1>2 DEF Counts
  <2> QED
    BY <2>3, <2>4, <2>5
<1>9. calls[c].out = procs[p].written
  <2>1. calls[c].out \in [Streams -> Nat] /\ procs[p].written \in [Streams -> Nat]
    BY <1>0 DEF Call, ProcRecord
  <2> QED
    BY <1>8, <2>1
<1> QED
  BY <1>2, <1>3, <1>4, <1>7, <1>9 DEF ResultOf

\* A call connects, or it is over: with its result, or with none.
LEMMA CallEnds ==
  ASSUME SessionInv, NEW c \in Calls, Fresh(c), AsksOnce(c), Counts(c),
         Accept(c) \/ CallReturns(c) \/ CallFails(c) \/ CallTimesOut(c)
  PROVE  Fresh(c)' /\ AsksOnce(c)' /\ Counts(c)' /\ Results(c)'
<1>0. /\ c \in Conns /\ calls \in [Calls -> Call] /\ calls[c] \in Call
      /\ inbox \in [Conns -> SUBSET Request]
      /\ pc \in [Conns -> {"new", "accepted", "ready", "closed"}]
  BY DEF SessionInv, TypeOK, Conns
<1>1. CASE Accept(c)
  <2>1. /\ pc[c] = "new" /\ pc'[c] # "new" /\ UNCHANGED <<inbox, owner, sent>>
        /\ calls' = [calls EXCEPT ![c].pc = "hello"]
    BY <1>0, <1>1 DEF Accept, Advance, queues, execs
  <2>2. /\ calls'[c].pc = "hello" /\ calls'[c].read = calls[c].read
        /\ calls'[c].out = calls[c].out
    BY <1>0, <2>1 DEF Call
  <2>3. calls[c].pc = "idle"
    BY <2>1 DEF Fresh
  <2>4. Fresh(c)' /\ AsksOnce(c)'
    BY <2>1, <2>2, <2>3 DEF Fresh, AsksOnce
  <2> QED
    BY <2>1, <2>2, <2>3, <2>4 DEF Counts, Results
<1>2. ASSUME NEW to \in {"returned", "failed"}, HangUp(c), UNCHANGED <<sent, execs, pc>>,
             calls'[c].pc = to, calls'[c].read = calls[c].read,
             calls[c].pc # "idle",
             to = "returned" => \E p \in ProcIds : ResultOf(c, p)'
      PROVE  Fresh(c)' /\ AsksOnce(c)' /\ Counts(c)' /\ Results(c)'
  <2>1. inbox'[c] \subseteq inbox[c]
    BY <1>0, <1>2 DEF HangUp
  <2>2. owner' = owner
    BY <1>2 DEF execs
  <2>3. Fresh(c)' /\ AsksOnce(c)'
    BY <1>2, <2>1, <2>2 DEF Fresh, AsksOnce
  <2>4. Counts(c)' /\ Results(c)'
    BY <1>2 DEF Counts, Results
  <2> QED
    BY <2>3, <2>4
<1>3. CASE CallReturns(c)
  <2>1. /\ HangUp(c) /\ UNCHANGED <<sent, execs, pc>> /\ calls[c].pc # "idle"
        /\ calls' = [calls EXCEPT ![c].pc = "returned", ![c].code = NextMessage(c).n]
    BY <1>3 DEF CallReturns
  <2>2. calls'[c].pc = "returned" /\ calls'[c].read = calls[c].read
    BY <1>0, <2>1 DEF Call
  <2> QED
    BY <1>2, <1>3, <2>1, <2>2, ReturningIsComplete
<1>4. CASE CallFails(c) \/ CallTimesOut(c)
  <2>1. /\ HangUp(c) /\ UNCHANGED <<sent, execs, pc>> /\ calls[c].pc # "idle"
        /\ calls' = [calls EXCEPT ![c].pc = "failed"]
    BY <1>4 DEF CallFails, CallTimesOut
  <2>2. calls'[c].pc = "failed" /\ calls'[c].read = calls[c].read
    BY <1>0, <2>1 DEF Call
  <2> QED
    BY <1>2, <2>1, <2>2
<1> QED
  BY <1>1, <1>3, <1>4

\* What the calls know agrees with what their processes did, in every step.
LEMMA CallStepKeeps ==
  ASSUME SessionInv, SessionInv', CallInv, [Next]_vars
  PROVE  CallInv'
<1> SUFFICES ASSUME NEW c \in Calls
             PROVE  Fresh(c)' /\ AsksOnce(c)' /\ Counts(c)' /\ Results(c)'
  BY DEF CallInv
<1>1. TypeOK /\ Fresh(c) /\ AsksOnce(c) /\ Counts(c) /\ Results(c)
  BY DEF SessionInv, CallInv
<1> QED
  BY <1>1, CallMoves, CallWaits, HelloCounts, ReadingCounts, CallEnds

\* No call has been made.
LEMMA CallInit == Init => CallInv
<1> SUFFICES ASSUME Init, NEW c \in Calls
             PROVE  Fresh(c) /\ AsksOnce(c) /\ Counts(c) /\ Results(c)
  BY DEF CallInv
<1>1. /\ c \in Conns /\ c # None /\ inbox[c] = {} /\ calls[c] = NoCall
      /\ \A p \in ProcIds : owner[p] = None
  BY SessionAssumption DEF Init, Conns
<1>2. /\ NoCall.pc = "idle" /\ NoCall.read = 0
      /\ \A s \in Streams : NoCall.out[s] = 0
  BY DEF NoCall
<1>3. Len(sent[c]) = 0
  BY <1>1 DEF Init
<1>4. Fresh(c) /\ AsksOnce(c)
  BY <1>1, <1>2 DEF Fresh, AsksOnce
<1> QED
  BY <1>1, <1>2, <1>3, <1>4 DEF Counts, Results

\* A command that ExecSync reports as finished was started for this call, and
\* the result is all of its output and its own exit code (ws_proxy.go:211-233).
THEOREM ExecSyncIsComplete == Spec => []ResultIsComplete
<1>1. SessionInv /\ SessionInv' /\ CallInv /\ [Next]_vars => CallInv'
  BY CallStepKeeps
<1>2. SessionInv /\ CallInv => ResultIsComplete
  <2>1. ASSUME SessionInv, CallInv, NEW c \in Calls, calls[c].pc = "returned"
        PROVE  \E p \in ProcIds : /\ owner[p] = c /\ ~Writers(p)
                                  /\ calls[c].code = procs[p].code
                                  /\ calls[c].out = procs[p].written
    <3>1. PICK p \in ProcIds : ResultOf(c, p)
      BY <2>1 DEF CallInv, Results
    <3>2. ~Writers(p)
      BY <2>1, <3>1, ReportedIsDead DEF SessionInv, ResultOf
    <3> QED
      BY <3>1, <3>2 DEF ResultOf
  <2> QED
    BY <2>1 DEF ResultIsComplete
<1> QED
  BY <1>1, <1>2, CallInit, SessionAgrees, PTL DEF Spec
=============================================================================
