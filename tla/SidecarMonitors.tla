--------------------------- MODULE SidecarMonitors ----------------------------
(***************************************************************************)
(* The events of the sidecar: what the clients of sidecar/internal/ws/     *)
(* server.go learn of files and ports.  FileWatcher and PortDetector are   *)
(* the two sources; this module has the connections that own one of each,  *)
(* any number of them open at once, the active connection all events go    *)
(* to, the watch requests, each handled in a goroutine of its own, and the *)
(* clients.                                                                *)
(*                                                                         *)
(* A client is one the SDKs make possible: after the Ack of a Watch it     *)
(* lists the path, on an event of a file it looks at the file again, and   *)
(* on the open of a port it uses the port.                                 *)
(***************************************************************************)
EXTENDS PortDetector

CONSTANTS
  Budgets  \* bound: how many watch requests, changes of files and changes of
           \* ports there may be; a behaviour begins with one of these choices

Kinds == {"requests", "files", "ports"}

ASSUME MonitorAssumption ==
  /\ Budgets \subseteq [Kinds -> Nat]
  /\ \A b \in Budgets : b["files"] < MaxTime

VARIABLES
  conn,       \* connection -> see ConnStates
  active,     \* Server.active
  request,    \* connection -> the watch request of its client in progress
  left,       \* what is left of the budget
  watching,   \* connection -> the paths its client has been told are watched
  unseen,     \* connection -> the files in these paths that have changed since
              \* its client looked at them
  announced,  \* connection -> the ports its client was told have opened
  balance,    \* history, connection -> opens less closes of each port that
              \* were sent for its detector, to whatever connection
  shared      \* history: <<c, p>> if the watcher of c was given a request for
              \* p that came on another connection

clientVars == <<watching, unseen, announced>>
historyVars == <<balance, shared>>
serverVars == <<conn, active, request>>
vars == <<disk, watcherVars, listening, detectorVars, serverVars, left,
          clientVars, historyVars>>

\* "accepted": no watcher yet.  "gone": the client has left, and Handler has
\* not returned yet.
ConnStates == {"none", "accepted", "up", "gone", "closed"}

RequestStates == {"none", "sent", "stat", "walk", "ack"}
NoRequest == [pc |-> "none", kind |-> "watch", path |-> None, owner |-> None,
              walk |-> NoWalk]

TypeOK ==
  /\ WatcherTypeOK /\ DetectorTypeOK
  /\ conn \in [Conns -> ConnStates]
  /\ active \in Conns \cup {None}
  /\ request \in [Conns -> [pc : RequestStates, kind : {"watch", "unwatch"},
                            path : Paths \cup {None}, owner : Conns \cup {None},
                            walk : Walk]]
  /\ left \in [Kinds -> Nat]
  /\ watching \in [Conns -> SUBSET Paths] /\ unseen \in [Conns -> SUBSET Files]
  /\ announced \in [Conns -> SUBSET Ports]
  /\ balance \in [Conns -> [Ports -> Int]]
  /\ shared \subseteq Conns \X Paths

Init ==
  /\ WatcherInit /\ DetectorInit
  /\ conn = [c \in Conns |-> "none"]
  /\ active = None
  /\ request = [c \in Conns |-> NoRequest]
  /\ left \in Budgets
  /\ watching = [c \in Conns |-> {}] /\ unseen = [c \in Conns |-> {}]
  /\ announced = [c \in Conns |-> {}]
  /\ balance = [c \in Conns |-> [p \in Ports |-> 0]]
  /\ shared = {}

-------------------------------------------------------------------------------
(* Events *)

Spend(kind) == left[kind] > 0 /\ left' = [left EXCEPT ![kind] = @ - 1]

Monitored == UNCHANGED <<disk, watcherVars, listening, detectorVars>>
Detected == UNCHANGED <<listening, detectorVars, announced, balance>>

\* Mutant: nothing is sent before SandboxReady.
Reached_Ready(c) == c # None /\ conn[c] = "up"

\* What is written to a connection reaches its client.
Reached(c) == c # None /\ conn[c] \in {"accepted", "up"}

\* The callback of a watcher: sendEnvelope to the active connection, one
\* message for each file.
Tell(F) ==
  unseen' = IF Reached(active) THEN [unseen EXCEPT ![active] = @ \ F] ELSE unseen

PollReport(c) ==
  /\ PollStores(c) \/ PollFindsMissing(c)
  /\ Tell(PollReports(c))
  /\ Detected /\ UNCHANGED <<left, serverVars, watching, shared>>

Poll(c) ==
  \/ PollReport(c)
  \/ /\ PollStats(c) \/ PollVisits(c)
     /\ UNCHANGED <<listening, detectorVars, left, serverVars, clientVars, historyVars>>

\* The tickers; Stop ends the loops, not the poll or the scan they are in.
TickWatcher(c) ==
  /\ conn[c] \in {"up", "gone"} /\ PollStarts(c)
  /\ UNCHANGED <<listening, detectorVars, left, serverVars, clientVars, historyVars>>

TickDetector(c) ==
  /\ conn[c] \in {"accepted", "up", "gone"} /\ ScanReads(c)
  /\ UNCHANGED <<disk, watcherVars, left, serverVars, clientVars, historyVars>>

FinishScan(c) ==
  /\ ScanStores(c)
  /\ UNCHANGED <<disk, watcherVars, left, serverVars, clientVars, historyVars>>

\* sendPortEvent
ReportPort(c, e) ==
  /\ Reports(c, e)
  /\ balance' = [balance EXCEPT ![c][e[2]] = IF e[1] = "open" THEN @ + 1 ELSE @ - 1]
  /\ announced' = IF e[1] = "open" /\ Reached(active)
                  THEN [announced EXCEPT ![active] = @ \cup {e[2]}] ELSE announced
  /\ UNCHANGED <<disk, watcherVars, left, serverVars, watching, unseen, shared>>

-------------------------------------------------------------------------------
(* Connections *)

\* A client connects, whoever else is connected; they are numbered in the order
\* in which they take connMu.
Accept(c) ==
  /\ conn[c] = "none" /\ \A b \in Conns : b < c => conn[b] # "none"
  /\ conn' = [conn EXCEPT ![c] = "accepted"]
  /\ active' = c
  /\ Monitored /\ UNCHANGED <<request, left, clientVars, historyVars>>

\* The watcher is there, SandboxReady is sent and the read loop starts.
GetReady(c) ==
  /\ conn[c] = "accepted"
  /\ conn' = [conn EXCEPT ![c] = "up"]
  /\ Monitored /\ UNCHANGED <<active, request, left, clientVars, historyVars>>

\* The client leaves, or the network loses it.
Leave(c) ==
  /\ conn[c] = "up"
  /\ conn' = [conn EXCEPT ![c] = "gone"]
  /\ watching' = [watching EXCEPT ![c] = {}]
  /\ unseen' = [unseen EXCEPT ![c] = {}]
  /\ announced' = [announced EXCEPT ![c] = {}]
  /\ Monitored /\ UNCHANGED <<active, request, left, historyVars>>

\* Handler returns and stops the two loops.  Server.active stays.
Disconnect(c) ==
  /\ conn[c] = "gone"
  /\ conn' = [conn EXCEPT ![c] = "closed"]
  /\ Monitored /\ UNCHANGED <<active, request, left, clientVars, historyVars>>

-------------------------------------------------------------------------------
(* handleFsWatch *)

FilesIn(P) == UNION {Under[p] : p \in P}

\* From the Unwatch it sends on the client expects nothing of the path.
Ask(c, kind, p) ==
  /\ conn[c] = "up" /\ request[c].pc = "none" /\ Spend("requests")
  /\ request' = [request EXCEPT ![c] = [NoRequest EXCEPT !.pc = "sent", !.kind = kind,
                                                         !.path = p]]
  /\ watching' = IF kind = "unwatch" THEN [watching EXCEPT ![c] = @ \ {p}] ELSE watching
  /\ unseen' = [unseen EXCEPT ![c] = @ \cap FilesIn(watching'[c])]
  /\ Monitored /\ UNCHANGED <<conn, active, announced, historyVars>>

\* The watcher is that of the active connection, whoever asks; one that is
\* still being set up has none, which is answered with watcher_error.
TakeWatcher(c) ==
  /\ request[c].pc = "sent"
  /\ IF conn[active] = "accepted"
     THEN request' = [request EXCEPT ![c] = NoRequest] /\ UNCHANGED shared
     ELSE /\ request' = [request EXCEPT ![c].pc = "stat", ![c].owner = active]
          /\ shared' = IF active = c THEN shared ELSE shared \cup {<<active, request[c].path>>}
  /\ Monitored /\ UNCHANGED <<conn, active, left, clientVars, balance>>

Unwatch(c) ==
  /\ request[c].pc = "stat" /\ request[c].kind = "unwatch"
  /\ UnwatchDeletes(request[c].owner, request[c].path)
  /\ request' = [request EXCEPT ![c].pc = "ack"]
  /\ UNCHANGED <<listening, detectorVars, left, conn, active, clientVars, historyVars>>

\* A path that does not exist is answered with watch_error.
WatchStats(c) ==
  /\ request[c].pc = "stat" /\ request[c].kind = "watch"
  /\ LET p == request[c].path IN
       request' = [request EXCEPT ![c] =
         IF Missing(p) THEN NoRequest ELSE [@ EXCEPT !.pc = "walk", !.walk = Begin(p)]]
  /\ Monitored /\ UNCHANGED <<conn, active, left, clientVars, historyVars>>

WatchVisits(c) ==
  /\ request[c].pc = "walk" /\ ~WalkDone(request[c].walk)
  /\ request' = [request EXCEPT ![c].walk = Visited(@)]
  /\ Monitored /\ UNCHANGED <<conn, active, left, clientVars, historyVars>>

WatchFinishes(c) ==
  /\ request[c].pc = "walk" /\ WalkDone(request[c].walk)
  /\ WatchStores(request[c].owner, request[c].path, request[c].walk.snap)
  /\ request' = [request EXCEPT ![c].pc = "ack"]
  /\ UNCHANGED <<listening, detectorVars, left, conn, active, clientVars, historyVars>>

\* The Ack goes to the connection the request came on.
AckWatch(c) ==
  /\ request[c].pc = "ack"
  /\ IF request[c].kind = "watch" /\ conn[c] = "up"
     THEN /\ watching' = [watching EXCEPT ![c] = @ \cup {request[c].path}]
          /\ unseen' = [unseen EXCEPT ![c] = @ \ Under[request[c].path]]
     ELSE UNCHANGED <<watching, unseen>>
  /\ request' = [request EXCEPT ![c] = NoRequest]
  /\ Monitored /\ UNCHANGED <<conn, active, left, announced, historyVars>>

Handle(c) == TakeWatcher(c) \/ Unwatch(c) \/ WatchStats(c) \/ WatchVisits(c)
             \/ WatchFinishes(c) \/ AckWatch(c)

-------------------------------------------------------------------------------
(* The sandbox *)

ChangeFile(f) ==
  /\ Spend("files")
  /\ \E t \in {0, MaxTime - left["files"] + 1} : DiskChanges(f, t)
  /\ unseen' = [c \in Conns |-> IF f \in FilesIn(watching[c]) THEN unseen[c] \cup {f}
                                ELSE unseen[c]]
  /\ UNCHANGED <<listening, detectorVars, serverVars, watching, announced, historyVars>>

FlipPort(p) ==
  /\ Spend("ports")
  /\ PortFlips(p)
  /\ UNCHANGED <<disk, watcherVars, serverVars, clientVars, historyVars>>

-------------------------------------------------------------------------------
Polling(c) == TickWatcher(c) \/ Poll(c)
Scanning(c) == TickDetector(c) \/ FinishScan(c)
Reporting(c) == \E e \in EventTypes \X Ports : ReportPort(c, e)

Next ==
  \/ \E c \in Conns : Polling(c) \/ Scanning(c) \/ Reporting(c) \/ Handle(c)
  \/ \E c \in Conns : Accept(c) \/ GetReady(c) \/ Leave(c) \/ Disconnect(c)
  \/ \E c \in Conns, kind \in {"watch", "unwatch"}, p \in Paths : Ask(c, kind, p)
  \/ \E f \in Files : ChangeFile(f)
  \/ \E p \in Ports : FlipPort(p)

Spec == Init /\ [][Next]_vars

\* The tickers tick and the goroutines run, those of each connection for
\* themselves.
Fairness ==
  \A c \in Conns : /\ WF_vars(Polling(c)) /\ WF_vars(Scanning(c))
                   /\ WF_vars(Reporting(c)) /\ WF_vars(Handle(c))

FairSpec == Spec /\ Fairness

-------------------------------------------------------------------------------
(* Properties *)

\* The client is about to be told that p is watched, and looks at it then.
AckIsDue(c, p) ==
  LET r == request[c] IN r.pc = "ack" /\ r.kind = "watch" /\ r.path = p

\* The connection all events go to, while its client is there.
Attended(c) == active = c /\ conn[c] = "up"

(* What WritesAreTold rests on.  While the client of the active connection has  *)
(* not seen the last write to a file it was told is watched, the watcher of     *)
(* that connection holds an older time of the file, so that the next poll tells *)
(* the client, or an Ack is due: no snapshot, taken without the lock, replaces  *)
(* another such that a write is forgotten, whatever the watchers of the other   *)
(* connections do and however their events come here (watcher.go:61-70,         *)
(* 110-157).  A path is left out once the watcher was given a request for it    *)
(* that came on another connection (server.go:448): such an Unwatch stops the   *)
(* events, and such a Watch may swallow one.                                    *)
WriteIsDue ==
  \A c \in Conns : Attended(c) =>
    \A p \in watching[c] : <<c, p>> \notin shared =>
      \A f \in unseen[c] \cap Under[p] :
        disk[f] # 0 => AckIsDue(c, p) \/ (watches[c][p] # None /\ watches[c][p][f] # disk[f])

\* A write the client of the active connection is still to be told.
Due(f) ==
  \E c \in Conns :
    /\ Attended(c) /\ f \in unseen[c] /\ disk[f] # 0
    /\ \E p \in watching[c] : f \in Under[p] /\ <<c, p>> \notin shared

(* A client that was told that a path is watched is sent an event after a file  *)
(* in it was written, however the write falls between the snapshots, requests   *)
(* and connections, the removal and return of the path itself included, as long *)
(* as it is the last that connected.  A file that is removed again need not be  *)
(* told: a polling watcher does not see what comes and goes between two polls   *)
(* (watcher.go, Watch and poll).                                                *)
WritesAreTold == \A f \in Files : Due(f) ~> ~Due(f)

(* The client that connected last has been sent the open of every port its      *)
(* detector knows, or a goroutine is about to send it, from the moment the      *)
(* connection is the active one: not only once its watcher is there and         *)
(* SandboxReady is sent, and whatever the detectors of other connections know   *)
(* (server.go:108-133, detector.go:64-78).                                      *)
OpenPortIsDue ==
  \A c \in Conns : active = c /\ Reached(c) =>
    \A p \in known[c] : p \in announced[c] \/ flying[c][<<"open", p>>] > 0

(* What PortsAreReported rests on.  Of every port, the opens sent for a         *)
(* detector are as many as the closes, and one more while it knows the port,    *)
(* once the goroutines on their way have run: no change is reported twice or    *)
(* left out, in whatever order the goroutines run and to whatever connection    *)
(* they write (detector.go:64-89).                                              *)
PortEventsAddUp ==
  \A c \in Conns, p \in Ports :
    balance[c][p] + flying[c][<<"open", p>>] - flying[c][<<"close", p>>]
      = IF p \in known[c] THEN 1 ELSE 0

Unannounced(p) ==
  p \in ListeningPorts /\ \E c \in Conns : Attended(c) /\ p \notin announced[c]

(* The client that connected last is told of every open port sooner or later,   *)
(* a port that was open before it connected included: its onPortOpen is called  *)
(* although other detectors reported the port long ago (detector.go, scan;      *)
(* server.go:112-116).                                                          *)
PortsAreAnnounced == \A p \in Ports \ Internal : Unannounced(p) ~> ~Unannounced(p)

Wrong(p) ==
  \E c \in Conns : conn[c] = "up" /\ balance[c][p] # IF p \in ListeningPorts THEN 1 ELSE 0

(* The opens and closes sent for the detector of a connection come to agree     *)
(* with the port, closes included, however often it flaps while goroutines are  *)
(* on their way (detector.go:52-89).  They agree in number only: the order in   *)
(* which a client receives them is open.                                        *)
PortsAreReported == \A p \in Ports \ Internal : Wrong(p) ~> ~Wrong(p)
===============================================================================
