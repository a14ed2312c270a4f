------------------------ MODULE SidecarMonitorsProofs -------------------------
(***************************************************************************)
(* Proofs about SidecarMonitors.  WatchInv says whose work a step may      *)
(* disturb: a request is served by the watcher of its own connection or of *)
(* one accepted later, so that while a connection is the active one, its   *)
(* own requests go to its watcher, and whatever others do to that watcher  *)
(* is in shared.  No change has the time of an earlier one, so that it is  *)
(* due wherever the file is watched.  What a detector knows, and what was  *)
(* and will be sent for it, add up for every connection by itself.         *)
(***************************************************************************)
EXTENDS SidecarMonitors, TLAPS

-------------------------------------------------------------------------------
(* Types *)

\* A walk begins, and goes on by one file, within the files there are.
LEMMA WalkTypes ==
  /\ NoFiles \in Snapshot /\ NoWalk \in Walk
  /\ \A p \in Paths : Begin(p) \in Walk
  /\ disk \in Snapshot =>
       \A w \in Walk : ~WalkDone(w) => Visited(w) \in Walk /\ Visited(w).path = w.path
<1>1. NumFiles \in Nat /\ 1 \in 1 .. NumFiles + 1
  BY WatcherAssumption
<1>2. NoFiles \in Snapshot
  BY WatcherAssumption DEF NoFiles, Snapshot, Times
<1>3. NoWalk \in Walk /\ \A p \in Paths : Begin(p) \in Walk
  BY <1>1, <1>2 DEF NoWalk, Begin, Walk
<1>4. ASSUME disk \in Snapshot, NEW w \in Walk, ~WalkDone(w)
      PROVE  Visited(w) \in Walk /\ Visited(w).path = w.path
  <2>1. w.next \in 1 .. NumFiles /\ w.snap \in [Files -> Times] /\ w.path \in Paths \cup {None}
    BY <1>1, <1>4 DEF Walk, WalkDone, Snapshot
  <2>2. PICK t \in Times : t = IF w.next \in Under[w.path] THEN disk[w.next] ELSE 0
    BY <1>4, <2>1, WatcherAssumption DEF Snapshot, Times, Files
  <2>3. w.next + 1 \in 1 .. NumFiles + 1
    BY <1>1, <2>1
  <2>4. [w.snap EXCEPT ![w.next] = t] \in Snapshot
    BY <2>1 DEF Snapshot
  <2> DEFINE s == [w.snap EXCEPT ![w.next] = t]
             n == w.next + 1
  <2>5. Visited(w) = [w EXCEPT !.next = n, !.snap = s]
    BY <2>2 DEF Visited
  <2> HIDE DEF s, n
  <2>6. [w EXCEPT !.next = n, !.snap = s] \in Walk
    BY <2>3, <2>4 DEF Walk, s, n
  <2>7. [w EXCEPT !.next = n, !.snap = s].path = w.path
    BY DEF Walk
  <2> QED BY <2>5, <2>6, <2>7
<1> QED BY <1>2, <1>3, <1>4

\* Storing a snapshot, or none, for a path keeps the types of the watches.
LEMMA StoreTypes ==
  ASSUME WatcherTypeOK, NEW c, NEW p, NEW s \in Snapshot \cup {None}
  PROVE  [watches EXCEPT ![c][p] = s] \in [Conns -> [Paths -> Snapshot \cup {None}]]
BY DEF WatcherTypeOK

\* The watcher's steps keep its types.
LEMMA WatcherTypes ==
  ASSUME WatcherTypeOK, NEW c \in Conns,
         \/ PollStarts(c) \/ PollStats(c) \/ PollVisits(c) \/ PollStores(c)
         \/ PollFindsMissing(c)
  PROVE  WatcherTypeOK'
<1>1. disk \in Snapshot /\ watches \in [Conns -> [Paths -> Snapshot \cup {None}]]
      /\ poll \in [Conns -> [pc : PollStates, paths : SUBSET Paths, walk : Walk]]
      /\ poll[c] \in [pc : PollStates, paths : SUBSET Paths, walk : Walk]
  BY DEF WatcherTypeOK
<1> DEFINE Poll1 == [pc : PollStates, paths : SUBSET Paths, walk : Walk]
<1>2. ASSUME NEW q \in Poll1, poll' = [poll EXCEPT ![c] = q],
             disk' = disk, watches' \in [Conns -> [Paths -> Snapshot \cup {None}]]
      PROVE  WatcherTypeOK'
  BY <1>1, <1>2 DEF WatcherTypeOK
<1>3. PollGoesOn(c) => \E q \in Poll1 : poll' = [poll EXCEPT ![c] = q]
  <2> DEFINE q == IF poll[c].paths = {} THEN Idle
                  ELSE [pc |-> "next", paths |-> poll[c].paths, walk |-> NoWalk]
  <2>1. q \in Poll1
    BY <1>1, WalkTypes DEF Idle, PollStates
  <2> HIDE DEF Poll1
  <2> QED BY <2>1 DEF PollGoesOn
<1>4. CASE PollStarts(c)
  <2> DEFINE q == [pc |-> "next", paths |-> {p \in Paths : watches[c][p] # None}, walk |-> NoWalk]
  <2>1. q \in Poll1
    BY WalkTypes DEF PollStates
  <2>2. poll' = [poll EXCEPT ![c] = q] /\ UNCHANGED <<disk, watches>>
    BY <1>4 DEF PollStarts
  <2> HIDE DEF Poll1, q
  <2> QED BY <1>1, <1>2, <2>1, <2>2
<1>5. CASE PollStats(c)
  <2>1. PICK p \in poll[c].paths :
          poll' = [poll EXCEPT ![c] = [pc |-> IF Missing(p) THEN "missing" ELSE "walk",
                                       paths |-> poll[c].paths \ {p}, walk |-> Begin(p)]]
    BY <1>5 DEF PollStats
  <2> DEFINE q == [pc |-> IF Missing(p) THEN "missing" ELSE "walk",
                   paths |-> poll[c].paths \ {p}, walk |-> Begin(p)]
  <2>2. q \in Poll1
    BY <1>1, WalkTypes DEF PollStates
  <2>3. UNCHANGED <<disk, watches>>
    BY <1>5 DEF PollStats
  <2> HIDE DEF Poll1
  <2> QED BY <1>1, <1>2, <2>1, <2>2, <2>3
<1>6. CASE PollVisits(c)
  <2> DEFINE q == [poll[c] EXCEPT !.walk = Visited(poll[c].walk)]
  <2>1. Visited(poll[c].walk) \in Walk
    BY <1>1, <1>6, WalkTypes DEF PollVisits
  <2>2. q \in Poll1
    BY <1>1, <2>1
  <2>3. poll' = [poll EXCEPT ![c] = q] /\ UNCHANGED <<disk, watches>>
    BY <1>6 DEF PollVisits
  <2> HIDE DEF Poll1, q
  <2> QED BY <1>1, <1>2, <2>2, <2>3
<1>7. CASE PollStores(c)
  <2>1. poll[c].walk.snap \in Snapshot
    BY <1>1 DEF Walk
  <2>2. watches' = [watches EXCEPT ![c][poll[c].walk.path] = poll[c].walk.snap]
        /\ disk' = disk /\ PollGoesOn(c)
    BY <1>7 DEF PollStores
  <2>3. watches' \in [Conns -> [Paths -> Snapshot \cup {None}]]
    BY <2>1, <2>2, StoreTypes
  <2> HIDE DEF Poll1
  <2> QED BY <1>2, <1>3, <2>2, <2>3
<1>8. CASE PollFindsMissing(c)
  <2> DEFINE p == poll[c].walk.path
             s == IF watches[c][p] = None THEN None ELSE NoFiles
  <2>1. s \in Snapshot \cup {None}
    BY WalkTypes
  <2>2. watches' = [watches EXCEPT ![c][p] = s] /\ disk' = disk /\ PollGoesOn(c)
    BY <1>8 DEF PollFindsMissing
  <2>3. watches' \in [Conns -> [Paths -> Snapshot \cup {None}]]
    BY <2>1, <2>2, StoreTypes
  <2> HIDE DEF Poll1
  <2> QED BY <1>2, <1>3, <2>2, <2>3
<1> QED BY <1>4, <1>5, <1>6, <1>7, <1>8

\* A watch request of a client names a path that can be watched.
Requests == {r \in [pc : RequestStates, kind : {"watch", "unwatch"}, path : Paths \cup {None},
                    owner : Conns \cup {None}, walk : Walk] : r.pc # "none" => r.path \in Paths}

\* Once a connection was accepted there is an active one.
SomeActive ==
  \A c \in Conns : conn[c] # "none" \/ request[c].pc # "none" => active # None

TypeInv ==
  /\ TypeOK /\ request \in [Conns -> Requests] /\ SomeActive
  /\ left["files"] < MaxTime

\* The detector's steps keep its types.
LEMMA DetectorTypes ==
  ASSUME DetectorTypeOK, NEW c \in Conns,
         ScanReads(c) \/ ScanStores(c) \/ \E e \in EventTypes \X Ports : Reports(c, e)
  PROVE  DetectorTypeOK'
<1>1. ListeningPorts \subseteq Ports
  BY DEF DetectorTypeOK, ListeningPorts
<1>2. CASE ScanReads(c)
  BY <1>1, <1>2 DEF DetectorTypeOK, ScanReads
<1>3. CASE ScanStores(c)
  <2>1. scan[c].current \subseteq Ports /\ flying[c] \in [EventTypes \X Ports -> Nat]
    BY DEF DetectorTypeOK
  <2>2. Started(c) \in [EventTypes \X Ports -> Nat]
    <3>1. \A x \in EventTypes \X Ports : flying[c][x] \in Nat /\ flying[c][x] + 1 \in Nat
      BY <2>1
    <3> QED BY <3>1 DEF Started
  <2>3. flying' \in [Conns -> [EventTypes \X Ports -> Nat]]
    BY <1>3, <2>2 DEF ScanStores, DetectorTypeOK
  <2>4. known' \in [Conns -> SUBSET Ports] /\ scan' \in [Conns -> [busy : BOOLEAN, current : SUBSET Ports]]
    BY <1>3, <2>1 DEF ScanStores, DetectorTypeOK, NoScan
  <2> QED BY <1>3, <2>3, <2>4 DEF ScanStores, DetectorTypeOK
<1>4. ASSUME NEW e \in EventTypes \X Ports, Reports(c, e) PROVE DetectorTypeOK'
  <2>1. flying[c] \in [EventTypes \X Ports -> Nat] /\ flying[c][e] - 1 \in Nat
    <3>1. flying[c] \in [EventTypes \X Ports -> Nat]
      BY DEF DetectorTypeOK
    <3>2. flying[c][e] \in Nat /\ flying[c][e] > 0
      BY <1>4, <3>1 DEF Reports
    <3> QED BY <3>1, <3>2
  <2>2. flying' = [flying EXCEPT ![c][e] = flying[c][e] - 1] /\ UNCHANGED <<listening, known, scan>>
    BY <1>4 DEF Reports
  <2>3. flying' \in [Conns -> [EventTypes \X Ports -> Nat]]
    BY <2>1, <2>2 DEF DetectorTypeOK
  <2> QED BY <2>2, <2>3 DEF DetectorTypeOK
<1> QED BY <1>2, <1>3, <1>4

\* A request's steps keep the types of the server and of the clients.
LEMMA HandleTypes ==
  ASSUME TypeInv, NEW c \in Conns, Handle(c)
  PROVE  TypeInv'
<1>1. request[c] \in Requests /\ request \in [Conns -> Requests]
  BY DEF TypeInv
<1>a. /\ WatcherTypeOK /\ DetectorTypeOK /\ conn \in [Conns -> ConnStates]
      /\ active \in Conns \cup {None} /\ left \in [Kinds -> Nat]
      /\ watching \in [Conns -> SUBSET Paths] /\ unseen \in [Conns -> SUBSET Files]
      /\ announced \in [Conns -> SUBSET Ports] /\ balance \in [Conns -> [Ports -> Int]]
      /\ shared \subseteq Conns \X Paths /\ left["files"] < MaxTime
  BY DEF TypeInv, TypeOK
<1>b. active \in Conns /\ request[c].path \in Paths /\ request[c].pc # "none"
  <2>1. request[c].pc # "none"
    BY DEF Handle, TakeWatcher, Unwatch, WatchStats, WatchVisits, WatchFinishes, AckWatch
  <2> QED BY <1>1, <1>a, <2>1 DEF TypeInv, SomeActive, Requests
<1>c. UNCHANGED <<conn, active, left, announced, balance, listening, detectorVars>>
  BY DEF Handle, TakeWatcher, Unwatch, WatchStats, WatchVisits, WatchFinishes, AckWatch, Monitored,
         clientVars, historyVars
<1>3. NoRequest \in Requests
  BY WalkTypes DEF NoRequest, Requests, RequestStates
(* What is left to show of each step. *)
<1>2. ASSUME NEW r \in Requests, request' = [request EXCEPT ![c] = r], WatcherTypeOK',
             watching' \in [Conns -> SUBSET Paths], unseen' \in [Conns -> SUBSET Files],
             shared' \subseteq Conns \X Paths
      PROVE  TypeInv'
  <2>1. request' \in [Conns -> Requests]
    BY <1>1, <1>2
  <2>2. DetectorTypeOK'
    BY <1>a, <1>c DEF DetectorTypeOK, detectorVars
  <2>3. SomeActive'
    BY <1>b, <1>c, WatcherAssumption DEF SomeActive
  <2>4. TypeOK'
    BY <1>2, <1>a, <1>c, <2>1, <2>2 DEF TypeOK, Requests
  <2> QED BY <1>a, <1>c, <2>1, <2>3, <2>4 DEF TypeInv
<1>d. UNCHANGED <<disk, watcherVars>> => WatcherTypeOK'
  BY <1>a DEF WatcherTypeOK, watcherVars
<1>4. CASE TakeWatcher(c)
  <2> DEFINE r == IF conn[active] = "accepted" THEN NoRequest
                  ELSE [request[c] EXCEPT !.pc = "stat", !.owner = active]
  <2>1. r \in Requests
    BY <1>1, <1>3, <1>b DEF Requests, RequestStates
  <2>2. request' = [request EXCEPT ![c] = r]
    BY <1>4 DEF TakeWatcher
  <2> HIDE DEF r
  <2>3. shared' \subseteq Conns \X Paths
    BY <1>4, <1>a, <1>b DEF TakeWatcher
  <2> QED BY <1>2, <1>4, <1>a, <1>d, <2>1, <2>2, <2>3 DEF TakeWatcher, Monitored, clientVars
<1>5. CASE Unwatch(c)
  <2> DEFINE r == [request[c] EXCEPT !.pc = "ack"]
  <2>1. r \in Requests
    BY <1>1, <1>b DEF Requests, RequestStates
  <2>2. request' = [request EXCEPT ![c] = r]
    BY <1>5 DEF Unwatch
  <2> HIDE DEF r
  <2>4. WatcherTypeOK'
    <3>1. UnwatchDeletes(request[c].owner, request[c].path)
      BY <1>5 DEF Unwatch
    <3>2. watches' \in [Conns -> [Paths -> Snapshot \cup {None}]]
      BY <1>a, <3>1, StoreTypes DEF UnwatchDeletes
    <3> QED BY <1>a, <3>1, <3>2 DEF WatcherTypeOK, UnwatchDeletes
  <2> QED BY <1>2, <1>5, <1>a, <2>1, <2>2, <2>4 DEF Unwatch, clientVars, historyVars
<1>6. CASE WatchStats(c)
  <2> DEFINE p == request[c].path
             r == IF Missing(p) THEN NoRequest
                  ELSE [request[c] EXCEPT !.pc = "walk", !.walk = Begin(p)]
  <2>1. Begin(p) \in Walk
    BY <1>b, WalkTypes
  <2>2. r \in Requests
    BY <1>1, <1>3, <1>b, <2>1 DEF Requests, RequestStates
  <2>3. request' = [request EXCEPT ![c] = r]
    BY <1>6 DEF WatchStats
  <2> HIDE DEF r
  <2> QED BY <1>2, <1>6, <1>a, <1>d, <2>2, <2>3 DEF WatchStats, Monitored, clientVars, historyVars
<1>7. CASE WatchVisits(c)
  <2> DEFINE w == Visited(request[c].walk)
             r == [request[c] EXCEPT !.walk = w]
  <2>1. w \in Walk
    BY <1>1, <1>7, <1>a, WalkTypes DEF WatchVisits, Requests, WatcherTypeOK
  <2>2. request' = [request EXCEPT ![c] = r]
    BY <1>7 DEF WatchVisits
  <2> HIDE DEF w
  <2>3. r \in Requests
    BY <1>1, <2>1 DEF Requests
  <2> HIDE DEF r
  <2> QED BY <1>2, <1>7, <1>a, <1>d, <2>2, <2>3 DEF WatchVisits, Monitored, clientVars, historyVars
<1>8. CASE WatchFinishes(c)
  <2> DEFINE r == [request[c] EXCEPT !.pc = "ack"]
  <2>1. r \in Requests
    BY <1>1, <1>b DEF Requests, RequestStates
  <2>2. request' = [request EXCEPT ![c] = r]
    BY <1>8 DEF WatchFinishes
  <2> HIDE DEF r
  <2>4. WatcherTypeOK'
    <3>1. WatchStores(request[c].owner, request[c].path, request[c].walk.snap)
      BY <1>8 DEF WatchFinishes
    <3>2. request[c].walk.snap \in Snapshot
      BY <1>1 DEF Requests, Walk
    <3>3. watches' \in [Conns -> [Paths -> Snapshot \cup {None}]]
      BY <1>a, <3>1, <3>2, StoreTypes DEF WatchStores
    <3> QED BY <1>a, <3>1, <3>3 DEF WatcherTypeOK, WatchStores
  <2> QED BY <1>2, <1>8, <1>a, <2>1, <2>2, <2>4 DEF WatchFinishes, clientVars, historyVars
<1>9. CASE AckWatch(c)
  <2>1. request' = [request EXCEPT ![c] = NoRequest]
    BY <1>9 DEF AckWatch
  <2>2. watching' \in [Conns -> SUBSET Paths]
    <3>1. watching[c] \cup {request[c].path} \in SUBSET Paths
      BY <1>a, <1>b
    <3> QED BY <1>9, <1>a, <3>1 DEF AckWatch
  <2>3. unseen' \in [Conns -> SUBSET Files]
    <3>1. unseen[c] \ Under[request[c].path] \in SUBSET Files
      BY <1>a
    <3> QED BY <1>9, <1>a, <3>1 DEF AckWatch
  <2> QED BY <1>2, <1>3, <1>9, <1>a, <1>d, <2>1, <2>2, <2>3 DEF AckWatch, Monitored, historyVars
<1> QED BY <1>4, <1>5, <1>6, <1>7, <1>8, <1>9 DEF Handle

\* The sidecar starts with the types.
LEMMA TypeInit == Init => TypeInv
<1> SUFFICES ASSUME Init PROVE TypeInv
  OBVIOUS
<1>1. WatcherTypeOK
  <2>1. left \in Budgets /\ left["files"] < MaxTime /\ left["files"] \in Nat
    BY MonitorAssumption DEF Init, Kinds
  <2>2. disk \in Snapshot
    BY <2>1, WatcherAssumption DEF Init, WatcherInit, Snapshot, Times
  <2>3. watches \in [Conns -> [Paths -> Snapshot \cup {None}]]
    BY DEF Init, WatcherInit
  <2>4. poll \in [Conns -> [pc : PollStates, paths : SUBSET Paths, walk : Walk]]
    BY WalkTypes DEF Init, WatcherInit, Idle, PollStates
  <2> QED BY <2>2, <2>3, <2>4 DEF WatcherTypeOK
<1>2. DetectorTypeOK
  BY DetectorAssumption DEF Init, DetectorInit, DetectorTypeOK, NoScan
<1>3. request \in [Conns -> Requests]
  BY WalkTypes DEF Init, NoRequest, Requests, RequestStates
<1>4. SomeActive
  BY DEF Init, SomeActive, NoRequest
<1>5. left \in [Kinds -> Nat] /\ conn \in [Conns -> ConnStates]
  BY MonitorAssumption DEF Init, ConnStates
<1>6. left["files"] < MaxTime
  BY MonitorAssumption DEF Init
<1> QED BY <1>1, <1>2, <1>3, <1>4, <1>5, <1>6 DEF Init, TypeInv, TypeOK, Requests

\* What is left of a budget after a step that needs one of its kind.
LEMMA SpendTypes ==
  ASSUME left \in [Kinds -> Nat], NEW kind \in Kinds, Spend(kind)
  PROVE  /\ left' \in [Kinds -> Nat] /\ left'[kind] = left[kind] - 1
         /\ \A k \in Kinds : k # kind => left'[k] = left[k]
<1>1. left[kind] \in Nat /\ left[kind] - 1 \in Nat
  BY DEF Spend
<1> QED BY <1>1 DEF Spend

\* Every step keeps the types.
LEMMA TypeNext ==
  ASSUME TypeInv, [Next]_vars
  PROVE  TypeInv'
<1>1. /\ WatcherTypeOK /\ DetectorTypeOK /\ conn \in [Conns -> ConnStates]
      /\ active \in Conns \cup {None} /\ left \in [Kinds -> Nat] /\ request \in [Conns -> Requests]
      /\ watching \in [Conns -> SUBSET Paths] /\ unseen \in [Conns -> SUBSET Files]
      /\ announced \in [Conns -> SUBSET Ports] /\ balance \in [Conns -> [Ports -> Int]]
      /\ shared \subseteq Conns \X Paths /\ SomeActive /\ left["files"] < MaxTime
  BY DEF TypeInv, TypeOK
<1>a. ASSUME UNCHANGED <<conn, active, request>> PROVE SomeActive' /\ request' \in [Conns -> Requests]
  BY <1>1, <1>a DEF SomeActive
<1>2. CASE UNCHANGED vars
  BY <1>1, <1>2, <1>a DEF vars, TypeInv, TypeOK, WatcherTypeOK, DetectorTypeOK, watcherVars,
     detectorVars, serverVars, clientVars, historyVars, Requests
<1>3. ASSUME NEW c \in Conns, Polling(c) PROVE TypeInv'
  <2>1. WatcherTypeOK'
    BY <1>1, <1>3, WatcherTypes DEF Polling, TickWatcher, Poll, PollReport
  <2>2. unseen' \in [Conns -> SUBSET Files]
    BY <1>1, <1>3 DEF Polling, TickWatcher, Poll, PollReport, Tell, clientVars
  <2>3. UNCHANGED <<listening, detectorVars, left, serverVars, watching, announced, historyVars>>
    BY <1>3 DEF Polling, TickWatcher, Poll, PollReport, Detected, clientVars, historyVars
  <2> QED BY <1>1, <1>a, <2>1, <2>2, <2>3 DEF TypeInv, TypeOK, DetectorTypeOK, detectorVars,
            serverVars, historyVars, Requests
<1>4. ASSUME NEW c \in Conns, Scanning(c) PROVE TypeInv'
  <2>2. DetectorTypeOK'
    BY <1>1, <1>4, DetectorTypes DEF Scanning, TickDetector, FinishScan
  <2>3. UNCHANGED <<disk, watcherVars, left, serverVars, clientVars, historyVars>>
    BY <1>4 DEF Scanning, TickDetector, FinishScan
  <2> QED BY <1>1, <1>a, <2>2, <2>3 DEF TypeInv, TypeOK, WatcherTypeOK, watcherVars, serverVars,
            clientVars, historyVars, Requests
<1>5. ASSUME NEW c \in Conns, NEW e \in EventTypes \X Ports, ReportPort(c, e) PROVE TypeInv'
  <2>1. DetectorTypeOK'
    BY <1>1, <1>5, DetectorTypes DEF ReportPort
  <2>2. e[2] \in Ports
    BY <1>5
  <2>3. announced' \in [Conns -> SUBSET Ports]
    BY <1>1, <1>5, <2>2 DEF ReportPort
  <2>4. balance' \in [Conns -> [Ports -> Int]]
    <3>1. PICK n \in Int : n = IF e[1] = "open" THEN balance[c][e[2]] + 1 ELSE balance[c][e[2]] - 1
      BY <1>1, <2>2
    <3>2. balance' = [balance EXCEPT ![c][e[2]] = n]
      BY <1>5, <3>1 DEF ReportPort
    <3> QED BY <1>1, <3>2
  <2>5. UNCHANGED <<disk, watcherVars, left, serverVars, watching, unseen, shared>>
    BY <1>5 DEF ReportPort
  <2> QED BY <1>1, <1>a, <2>1, <2>3, <2>4, <2>5 DEF TypeInv, TypeOK, WatcherTypeOK, watcherVars,
            serverVars, Requests
<1>6. ASSUME NEW c \in Conns, Accept(c) \/ GetReady(c) \/ Leave(c) \/ Disconnect(c) PROVE TypeInv'
  <2>1. conn' \in [Conns -> ConnStates] /\ active' \in Conns \cup {None}
    BY <1>1, <1>6 DEF Accept, GetReady, Leave, Disconnect, ConnStates
  <2>2. /\ watching' \in [Conns -> SUBSET Paths] /\ unseen' \in [Conns -> SUBSET Files]
        /\ announced' \in [Conns -> SUBSET Ports]
    BY <1>1, <1>6 DEF Accept, GetReady, Leave, Disconnect, clientVars
  <2>3. UNCHANGED <<request, left, historyVars>> /\ Monitored
    BY <1>6 DEF Accept, GetReady, Leave, Disconnect
  <2>4. SomeActive'
    <3>1. CASE Accept(c)
      BY <3>1, WatcherAssumption DEF Accept, SomeActive
    <3>2. CASE GetReady(c) \/ Leave(c) \/ Disconnect(c)
      <4>1. active' = active /\ active # None
        BY <1>1, <3>2 DEF GetReady, Leave, Disconnect, SomeActive
      <4> QED BY <4>1 DEF SomeActive
    <3> QED BY <1>6, <3>1, <3>2
  <2> QED BY <1>1, <2>1, <2>2, <2>3, <2>4 DEF TypeInv, TypeOK, Monitored, WatcherTypeOK,
            DetectorTypeOK, watcherVars, detectorVars, historyVars, Requests
<1>7. ASSUME NEW c \in Conns, NEW kind \in {"watch", "unwatch"}, NEW p \in Paths, Ask(c, kind, p)
      PROVE  TypeInv'
  <2> DEFINE r == [NoRequest EXCEPT !.pc = "sent", !.kind = kind, !.path = p]
  <2>1. r \in Requests
    BY <1>7, WalkTypes DEF NoRequest, Requests, RequestStates
  <2>2. request' = [request EXCEPT ![c] = r] /\ conn[c] = "up"
    BY <1>7 DEF Ask
  <2> HIDE DEF r
  <2>3. request' \in [Conns -> Requests]
    BY <1>1, <2>1, <2>2
  <2>4. left' \in [Kinds -> Nat] /\ left'["files"] = left["files"]
    BY <1>1, <1>7, SpendTypes DEF Ask, Kinds
  <2>5. watching' \in [Conns -> SUBSET Paths]
    BY <1>1, <1>7 DEF Ask
  <2>6. unseen' \in [Conns -> SUBSET Files]
    BY <1>1, <1>7, <2>5 DEF Ask
  <2>7. SomeActive'
    <3>1. active # None /\ active' = active
      BY <1>1, <1>7, <2>2 DEF SomeActive, Ask
    <3> QED BY <3>1 DEF SomeActive
  <2> QED BY <1>1, <1>7, <2>3, <2>4, <2>5, <2>6, <2>7 DEF Ask, Monitored, TypeInv, TypeOK, Requests,
            WatcherTypeOK, DetectorTypeOK, watcherVars, detectorVars, historyVars
<1>8. ASSUME NEW f \in Files, ChangeFile(f) PROVE TypeInv'
  <2>1. PICK t \in {0, MaxTime - left["files"] + 1} : DiskChanges(f, t)
    BY <1>8 DEF ChangeFile
  <2>2. left' \in [Kinds -> Nat] /\ left["files"] > 0 /\ left["files"] \in Nat
    BY <1>1, <1>8, SpendTypes DEF ChangeFile, Spend, Kinds
  <2>3. left["files"] < MaxTime /\ left'["files"] < MaxTime
    BY <1>1, <1>8, <2>2, SpendTypes, WatcherAssumption DEF ChangeFile, Kinds
  <2>4. t \in Times
    BY <2>1, <2>2, <2>3, WatcherAssumption DEF Times
  <2>5. disk' \in Snapshot
    BY <1>1, <2>1, <2>4 DEF DiskChanges, WatcherTypeOK, Snapshot
  <2>6. unseen' \in [Conns -> SUBSET Files]
    <3>1. \A c \in Conns : (IF f \in FilesIn(watching[c]) THEN unseen[c] \cup {f} ELSE unseen[c])
                            \subseteq Files
      BY <1>1
    <3> QED BY <1>8, <3>1 DEF ChangeFile
  <2>7. UNCHANGED <<watcherVars, listening, detectorVars, serverVars, watching, announced, historyVars>>
    BY <1>8, <2>1 DEF ChangeFile, DiskChanges
  <2> QED BY <1>1, <1>a, <2>2, <2>3, <2>5, <2>6, <2>7 DEF TypeInv, TypeOK, WatcherTypeOK,
            DetectorTypeOK, watcherVars, detectorVars, serverVars, historyVars, Requests
<1>9. ASSUME NEW p \in Ports, FlipPort(p) PROVE TypeInv'
  <2>1. listening' \subseteq Ports /\ UNCHANGED detectorVars
    BY <1>1, <1>9 DEF FlipPort, PortFlips, DetectorTypeOK
  <2>2. left' \in [Kinds -> Nat] /\ left'["files"] = left["files"]
    BY <1>1, <1>9, SpendTypes DEF FlipPort, Kinds
  <2> QED BY <1>1, <1>9, <1>a, <2>1, <2>2 DEF FlipPort, TypeInv, TypeOK, WatcherTypeOK,
            DetectorTypeOK, watcherVars, detectorVars, serverVars, clientVars, historyVars, Requests
<1> QED
  BY <1>2, <1>3, <1>4, <1>5, <1>6, <1>7, <1>8, <1>9, HandleTypes DEF Next, Reporting

\* Every variable keeps its type: a walk ends at the last file, a request names
\* a path, and no more events are sent than changes were found (watcher.go,
\* detector.go, server.go:441-500).
THEOREM MonitorTypes == Spec => []TypeOK
<1>1. TypeInv => TypeOK
  BY DEF TypeInv
<1>2. TypeInv /\ [Next]_vars => TypeInv'
  BY TypeNext
<1> QED BY <1>1, <1>2, TypeInit, PTL DEF Spec

-------------------------------------------------------------------------------
(* Ports *)

\* No scan is made for a connection before it is accepted.
Quiet == \A c \in Conns : conn[c] = "none" => known[c] = {} /\ ~scan[c].busy

PortsInv == Quiet /\ OpenPortIsDue /\ PortEventsAddUp

\* What is counted for each port.
LEMMA Counted ==
  ASSUME TypeInv, NEW c \in Conns
  PROVE  /\ flying[c] \in [EventTypes \X Ports -> Nat] /\ balance[c] \in [Ports -> Int]
         /\ known[c] \subseteq Ports /\ announced[c] \subseteq Ports /\ scan[c].current \subseteq Ports
         /\ \A p \in Ports : /\ <<"open", p>> \in EventTypes \X Ports
                             /\ <<"close", p>> \in EventTypes \X Ports
                             /\ flying[c][<<"open", p>>] \in Nat /\ flying[c][<<"close", p>>] \in Nat
                             /\ balance[c][p] \in Int
<1>1. flying[c] \in [EventTypes \X Ports -> Nat] /\ balance[c] \in [Ports -> Int]
  BY DEF TypeInv, TypeOK, DetectorTypeOK
<1>2. \A p \in Ports : <<"open", p>> \in EventTypes \X Ports /\ <<"close", p>> \in EventTypes \X Ports
  BY DEF EventTypes
<1>3. known[c] \subseteq Ports /\ announced[c] \subseteq Ports /\ scan[c].current \subseteq Ports
  BY DEF TypeInv, TypeOK, DetectorTypeOK
<1> QED BY <1>1, <1>2, <1>3

\* The end of a scan starts a goroutine for every port it finds changed, in the
\* same critical section in which it stores the ports.
LEMMA ScanAddsUp ==
  ASSUME TypeInv, PortsInv, NEW c \in Conns, FinishScan(c)
  PROVE  PortsInv'
<1>1. /\ UNCHANGED <<conn, active, announced, balance>>
      /\ scan[c].busy /\ scan' = [scan EXCEPT ![c] = NoScan]
      /\ known' = [known EXCEPT ![c] = scan[c].current]
      /\ flying' = [flying EXCEPT ![c] = Started(c)]
  BY DEF FinishScan, ScanStores, serverVars, clientVars, historyVars
<1>2. /\ \A b \in Conns : b # c => /\ scan'[b] = scan[b] /\ known'[b] = known[b]
                                   /\ flying'[b] = flying[b]
      /\ known'[c] = scan[c].current /\ flying'[c] = Started(c) /\ ~scan'[c].busy
  BY <1>1 DEF TypeInv, TypeOK, DetectorTypeOK, NoScan
<1>3. ASSUME NEW p \in Ports
      PROVE  /\ flying'[c][<<"open", p>>] = IF p \in scan[c].current \ known[c]
                                            THEN flying[c][<<"open", p>>] + 1 ELSE flying[c][<<"open", p>>]
             /\ flying'[c][<<"close", p>>] = IF p \in known[c] \ scan[c].current
                                             THEN flying[c][<<"close", p>>] + 1 ELSE flying[c][<<"close", p>>]
  BY <1>2, <1>3, Counted DEF Started, Opened, Shut
<1>4. Quiet'
  <2>1. conn[c] # "none"
    BY <1>1 DEF PortsInv, Quiet
  <2> QED BY <1>1, <1>2, <2>1 DEF PortsInv, Quiet
<1>5. OpenPortIsDue'
  <2> SUFFICES ASSUME NEW b \in Conns, active = b, Reached(b), NEW p \in known'[b]
               PROVE  p \in announced[b] \/ flying'[b][<<"open", p>>] > 0
    BY <1>1 DEF OpenPortIsDue, Reached
  <2>1. CASE b # c
    BY <1>2, <2>1 DEF PortsInv, OpenPortIsDue
  <2>2. CASE b = c
    <3>1. p \in Ports /\ p \in scan[c].current /\ flying[c][<<"open", p>>] \in Nat
      BY <1>2, <2>2, Counted
    <3>2. CASE p \in known[c]
      <4>1. p \in announced[c] \/ flying[c][<<"open", p>>] > 0
        BY <2>2, <3>2 DEF PortsInv, OpenPortIsDue
      <4> QED BY <1>3, <2>2, <3>1, <3>2, <4>1
    <3>3. CASE p \notin known[c]
      <4>1. flying'[c][<<"open", p>>] = flying[c][<<"open", p>>] + 1
        BY <1>3, <3>1, <3>3
      <4> QED BY <2>2, <3>1, <4>1
    <3> QED BY <3>2, <3>3
  <2> QED BY <2>1, <2>2
<1>6. PortEventsAddUp'
  <2> SUFFICES ASSUME NEW b \in Conns, NEW p \in Ports
               PROVE  balance[b][p] + flying'[b][<<"open", p>>] - flying'[b][<<"close", p>>]
                        = IF p \in known'[b] THEN 1 ELSE 0
    BY <1>1 DEF PortEventsAddUp
  <2>1. CASE b # c
    BY <1>2, <2>1 DEF PortsInv, PortEventsAddUp
  <2>2. CASE b = c
    <3>1. balance[c][p] + flying[c][<<"open", p>>] - flying[c][<<"close", p>>]
            = IF p \in known[c] THEN 1 ELSE 0
      BY DEF PortsInv, PortEventsAddUp
    <3>2. balance[c][p] \in Int /\ flying[c][<<"open", p>>] \in Nat /\ flying[c][<<"close", p>>] \in Nat
      BY Counted
    <3>3. CASE p \in known[c] /\ p \in scan[c].current
      BY <1>2, <1>3, <2>2, <3>1, <3>2, <3>3
    <3>4. CASE p \in known[c] /\ p \notin scan[c].current
      BY <1>2, <1>3, <2>2, <3>1, <3>2, <3>4
    <3>5. CASE p \notin known[c] /\ p \in scan[c].current
      BY <1>2, <1>3, <2>2, <3>1, <3>2, <3>5
    <3>6. CASE p \notin known[c] /\ p \notin scan[c].current
      BY <1>2, <1>3, <2>2, <3>1, <3>2, <3>6
    <3> QED BY <3>3, <3>4, <3>5, <3>6
  <2> QED BY <2>1, <2>2
<1> QED BY <1>4, <1>5, <1>6 DEF PortsInv

\* A goroutine moves its event from those under way to those sent; if the
\* connection of its detector is the active one, its client has it then.
LEMMA ReportAddsUp ==
  ASSUME TypeInv, PortsInv, NEW c \in Conns, NEW e \in EventTypes \X Ports, ReportPort(c, e)
  PROVE  PortsInv'
<1>1. PICK type \in EventTypes, q \in Ports : e = <<type, q>>
  OBVIOUS
<1>2. /\ UNCHANGED <<conn, active, known, scan>> /\ flying[c][e] > 0
      /\ flying' = [flying EXCEPT ![c][e] = flying[c][e] - 1]
      /\ balance' = [balance EXCEPT ![c][q] = IF type = "open" THEN balance[c][q] + 1 ELSE balance[c][q] - 1]
      /\ announced' = IF type = "open" /\ Reached(active)
                      THEN [announced EXCEPT ![active] = announced[active] \cup {q}] ELSE announced
  BY <1>1 DEF ReportPort, Reports, serverVars
<1>3. /\ \A b \in Conns : b # c => flying'[b] = flying[b] /\ balance'[b] = balance[b]
      /\ flying'[c][e] = flying[c][e] - 1
      /\ \A x \in EventTypes \X Ports : x # e => flying'[c][x] = flying[c][x]
      /\ balance'[c][q] = IF type = "open" THEN balance[c][q] + 1 ELSE balance[c][q] - 1
      /\ \A p \in Ports : p # q => balance'[c][p] = balance[c][p]
  <2>1. /\ DOMAIN flying = Conns /\ DOMAIN balance = Conns
        /\ flying[c] \in [EventTypes \X Ports -> Nat] /\ balance[c] \in [Ports -> Int]
    BY Counted DEF TypeInv, TypeOK, DetectorTypeOK
  <2> QED BY <1>2, <2>1
<1>4. \A b \in Conns : announced[b] \subseteq announced'[b]
  BY <1>2 DEF TypeInv, TypeOK
<1>5. Quiet'
  BY <1>2 DEF PortsInv, Quiet
<1>6. OpenPortIsDue'
  <2> SUFFICES ASSUME NEW b \in Conns, active = b, Reached(b), NEW p \in known[b]
               PROVE  p \in announced'[b] \/ flying'[b][<<"open", p>>] > 0
    BY <1>2 DEF OpenPortIsDue, Reached
  <2>1. p \in Ports /\ <<"open", p>> \in EventTypes \X Ports
        /\ (p \in announced[b] \/ flying[b][<<"open", p>>] > 0)
    BY Counted DEF PortsInv, OpenPortIsDue
  <2>2. CASE b = c /\ e = <<"open", p>>
    <3>1. type = "open" /\ q = p
      BY <1>1, <2>2
    <3>2. p \in announced'[b]
      BY <1>2, <3>1 DEF TypeInv, TypeOK
    <3> QED BY <3>2
  <2>3. CASE ~(b = c /\ e = <<"open", p>>)
    BY <1>3, <1>4, <2>1, <2>3
  <2> QED BY <2>2, <2>3
<1>7. PortEventsAddUp'
  <2> SUFFICES ASSUME NEW b \in Conns, NEW p \in Ports
               PROVE  balance'[b][p] + flying'[b][<<"open", p>>] - flying'[b][<<"close", p>>]
                        = IF p \in known[b] THEN 1 ELSE 0
    BY <1>2 DEF PortEventsAddUp
  <2>1. balance[b][p] + flying[b][<<"open", p>>] - flying[b][<<"close", p>>]
          = IF p \in known[b] THEN 1 ELSE 0
    BY DEF PortsInv, PortEventsAddUp
  <2>2. /\ balance[b][p] \in Int /\ flying[b][<<"open", p>>] \in Nat /\ flying[b][<<"close", p>>] \in Nat
        /\ <<"open", p>> \in EventTypes \X Ports /\ <<"close", p>> \in EventTypes \X Ports
    BY Counted
  <2>3. CASE b # c
    BY <1>3, <2>1, <2>3
  <2>4. CASE b = c /\ p # q
    <3>1. e # <<"open", p>> /\ e # <<"close", p>>
      BY <1>1, <2>4
    <3> QED BY <1>3, <2>1, <2>2, <2>4, <3>1
  <2>5. CASE b = c /\ p = q /\ type = "open"
    <3>1. e = <<"open", p>> /\ e # <<"close", p>>
      BY <1>1, <2>5
    <3> QED BY <1>3, <2>1, <2>2, <2>5, <3>1
  <2>6. CASE b = c /\ p = q /\ type = "close"
    <3>1. e = <<"close", p>> /\ e # <<"open", p>>
      BY <1>1, <2>6
    <3> QED BY <1>3, <2>1, <2>2, <2>6, <3>1
  <2> QED BY <2>3, <2>4, <2>5, <2>6 DEF EventTypes
<1> QED BY <1>5, <1>6, <1>7 DEF PortsInv

\* A connection is accepted with a detector that knows nothing yet.
LEMMA PortsStep ==
  ASSUME TypeInv, PortsInv, [Next]_vars
  PROVE  PortsInv'
<1>1. ASSUME UNCHANGED <<conn, active, known, scan, flying, announced, balance>> PROVE PortsInv'
  BY <1>1 DEF PortsInv, Quiet, OpenPortIsDue, PortEventsAddUp, Reached
<1>2. ASSUME NEW c \in Conns, TickDetector(c) PROVE PortsInv'
  <2>1. UNCHANGED <<conn, active, known, flying, announced, balance>> /\ conn[c] # "none"
        /\ \A b \in Conns : b # c => scan'[b] = scan[b]
    BY <1>2 DEF TickDetector, ScanReads, serverVars, clientVars, historyVars, TypeInv, TypeOK, DetectorTypeOK
  <2> QED BY <2>1 DEF PortsInv, Quiet, OpenPortIsDue, PortEventsAddUp, Reached
<1>3. ASSUME NEW c \in Conns, Accept(c) \/ GetReady(c) \/ Leave(c) \/ Disconnect(c) PROVE PortsInv'
  <2>1. /\ UNCHANGED <<known, scan, flying, balance>> /\ conn' = [conn EXCEPT ![c] = conn'[c]]
        /\ DOMAIN conn = Conns
    BY <1>3 DEF Accept, GetReady, Leave, Disconnect, Monitored, detectorVars, historyVars, TypeInv, TypeOK
  <2>2. Quiet'
    <3>1. conn'[c] # "none"
      BY <1>3, <2>1 DEF Accept, GetReady, Leave, Disconnect
    <3> QED BY <2>1, <3>1 DEF PortsInv, Quiet
  <2>3. PortEventsAddUp'
    BY <2>1 DEF PortsInv, PortEventsAddUp
  <2>4. OpenPortIsDue'
    <3> SUFFICES ASSUME NEW b \in Conns, active' = b, Reached(b)', NEW p \in known[b]
                 PROVE  p \in announced'[b] \/ flying[b][<<"open", p>>] > 0
      BY <2>1 DEF OpenPortIsDue
    <3>1. CASE Accept(c)
      <4>1. b = c /\ conn[c] = "none"
        BY <3>1 DEF Accept
      <4> QED BY <4>1 DEF PortsInv, Quiet
    <3>2. CASE GetReady(c)
      <4>1. active = b /\ announced' = announced /\ Reached(b)
        BY <2>1, <3>2 DEF GetReady, Reached, clientVars
      <4> QED BY <4>1 DEF PortsInv, OpenPortIsDue
    <3>3. CASE Leave(c) \/ Disconnect(c)
      <4>1. b # c /\ active = b
        BY <2>1, <3>3 DEF Leave, Disconnect, Reached
      <4>2. announced'[b] = announced[b] /\ conn'[b] = conn[b]
        BY <3>3, <4>1 DEF Leave, Disconnect, clientVars, TypeInv, TypeOK
      <4> QED BY <4>1, <4>2 DEF PortsInv, OpenPortIsDue, Reached
    <3> QED BY <1>3, <3>1, <3>2, <3>3
  <2> QED BY <2>2, <2>3, <2>4 DEF PortsInv
<1>4. ASSUME NEW c \in Conns, \/ Polling(c) \/ Handle(c)
                              \/ \E kind, p : Ask(c, kind, p)
      PROVE  UNCHANGED <<conn, active, known, scan, flying, announced, balance>>
  BY <1>4 DEF Polling, TickWatcher, Poll, PollReport, Detected, Handle, TakeWatcher, Unwatch, WatchStats,
     WatchVisits, WatchFinishes, AckWatch, Ask, Monitored, detectorVars, serverVars, clientVars, historyVars
<1>5. ASSUME NEW f, ChangeFile(f)
      PROVE  UNCHANGED <<conn, active, known, scan, flying, announced, balance>>
  BY <1>5 DEF ChangeFile, serverVars, detectorVars, historyVars
<1>6. ASSUME NEW p, FlipPort(p)
      PROVE  UNCHANGED <<conn, active, known, scan, flying, announced, balance>>
  BY <1>6 DEF FlipPort, PortFlips, serverVars, detectorVars, clientVars, historyVars
<1>7. ASSUME UNCHANGED vars
      PROVE  UNCHANGED <<conn, active, known, scan, flying, announced, balance>>
  BY <1>7 DEF vars, serverVars, detectorVars, clientVars, historyVars
<1> QED
  BY <1>1, <1>2, <1>3, <1>4, <1>5, <1>6, <1>7, ScanAddsUp, ReportAddsUp DEF Next, Scanning, Reporting

\* No detector knows a port at first.
LEMMA PortsInit == Init => PortsInv
BY DEF Init, DetectorInit, PortsInv, Quiet, OpenPortIsDue, PortEventsAddUp, NoScan, EventTypes

\* The ports invariant holds whatever is connected, and in whatever order the
\* goroutines run.
LEMMA PortsHold == Spec => []PortsInv
<1>1. TypeInv /\ PortsInv /\ [Next]_vars => PortsInv'
  BY PortsStep
<1> QED BY <1>1, TypeInit, TypeNext, PortsInit, PTL DEF Spec

\* The opens and closes of every port add up for every detector, for any number
\* of connections and of ports, however scans, goroutines and connections
\* interleave (detector.go:64-89, server.go:112-116, 497).
THEOREM PortEventsAgree == Spec => []PortEventsAddUp
<1>1. PortsInv => PortEventsAddUp
  BY DEF PortsInv
<1> QED BY <1>1, PortsHold, PTL

\* The client that connected last has been told of every port its detector
\* knows, or is about to be, also while its connection is still being set up
\* (detector.go:64-78, server.go:108-133).
THEOREM OpensAreDue == Spec => []OpenPortIsDue
<1>1. PortsInv => OpenPortIsDue
  BY DEF PortsInv
<1> QED BY <1>1, PortsHold, PTL

-------------------------------------------------------------------------------
(* Files *)

\* The connections are accepted in order, and the latest is the active one.
InOrder ==
  \/ active = None /\ \A c \in Conns : conn[c] = "none"
  \/ active \in Conns /\ \A c \in Conns : (c > active) <=> (conn[c] = "none")

Taken == {"stat", "walk", "ack"}

\* A request is served by the watcher of its connection or of a later one, and
\* if it is another's, that is in shared.
RequestFits(c) ==
  LET r == request[c] IN
  /\ r.pc # "none" => conn[c] # "none"
  /\ r.pc \in Taken => /\ r.owner \in Conns /\ c <= r.owner /\ r.owner <= active
                       /\ r.owner # c => <<r.owner, r.path>> \in shared
  /\ r.pc = "walk" => r.kind = "watch"
  /\ r.pc = "ack" /\ r.kind = "watch" /\ active = c /\ <<c, r.path>> \notin shared =>
       watches[c][r.path] # None
  /\ r.pc # "none" /\ r.kind = "unwatch" => r.path \notin watching[c]

PollFits(q) == q.pc \in {"missing", "walk"} => q.walk.path \in Paths

\* A client is told of watches while it is connected only.
NoneIsWatched == \A c \in Conns : conn[c] # "up" => watching[c] = {}

\* A new change has a time that nobody has stored.
Old(s) == \A f \in Files : s[f] <= MaxTime - left["files"]

TimesAreOld ==
  /\ Old(disk)
  /\ \A c \in Conns : /\ \A p \in Paths : watches[c][p] # None => Old(watches[c][p])
                      /\ Old(poll[c].walk.snap) /\ Old(request[c].walk.snap)

\* The watcher of c has the paths its client was told are watched, and an older
\* time of every file that has changed since the client looked at it.
DueAt(c) ==
  \A p \in watching[c] : <<c, p>> \notin shared =>
    /\ watches[c][p] # None
    /\ \A f \in unseen[c] \cap Under[p] :
         disk[f] # 0 => AckIsDue(c, p) \/ watches[c][p][f] # disk[f]

WatchInv ==
  /\ InOrder /\ NoneIsWatched /\ TimesAreOld
  /\ \A c \in Conns : RequestFits(c) /\ PollFits(poll[c]) /\ (Attended(c) => DueAt(c))

\* A file that a walk visits has the time of the last change at most.
LEMMA VisitedIsOld ==
  ASSUME TypeInv, TimesAreOld, NEW w \in Walk, ~WalkDone(w), Old(w.snap)
  PROVE  Old(Visited(w).snap)
<1>1. w.next \in Files /\ w.snap \in [Files -> Times] /\ left["files"] \in Nat
      /\ left["files"] < MaxTime /\ MaxTime \in Nat
  BY WatcherAssumption DEF Walk, WalkDone, Snapshot, TypeInv, TypeOK, Files, Kinds
<1>2. PICK t : t = IF w.next \in Under[w.path] THEN disk[w.next] ELSE 0
  OBVIOUS
<1>3. t <= MaxTime - left["files"]
  BY <1>1, <1>2 DEF TimesAreOld, Old
<1>4. Visited(w).snap = [w.snap EXCEPT ![w.next] = t]
  BY <1>2 DEF Visited, Walk
<1> QED BY <1>1, <1>3, <1>4 DEF Old

\* No step of a poll but the last for a path changes what is stored or told.
LEMMA PollGoesKeeps ==
  ASSUME TypeInv, WatchInv, NEW c \in Conns,
         TickWatcher(c) \/ (Poll(c) /\ ~PollReport(c))
  PROVE  WatchInv'
<1>0. /\ disk \in Snapshot /\ poll \in [Conns -> [pc : PollStates, paths : SUBSET Paths, walk : Walk]]
      /\ left["files"] \in Nat /\ left["files"] < MaxTime /\ MaxTime \in Nat
  BY WatcherAssumption DEF TypeInv, TypeOK, WatcherTypeOK, Kinds
<1>1. UNCHANGED <<conn, active, request, watching, unseen, shared, disk, left, watches>>
  BY DEF TickWatcher, PollStarts, Poll, PollStats, PollVisits, serverVars, clientVars, historyVars
<1>2. \E q : /\ poll' = [poll EXCEPT ![c] = q]
             /\ q.pc \in {"missing", "walk"} => q.walk.path \in Paths
             /\ Old(q.walk.snap)
  <2>2. Old(NoFiles)
    BY <1>0 DEF Old, NoFiles
  <2>3. CASE TickWatcher(c)
    <3> DEFINE q == [pc |-> "next", paths |-> {p \in Paths : watches[c][p] # None}, walk |-> NoWalk]
    <3>1. poll' = [poll EXCEPT ![c] = q]
      BY <2>3 DEF TickWatcher, PollStarts
    <3>2. Old(q.walk.snap) /\ q.pc = "next"
      BY <2>2 DEF NoWalk
    <3> QED BY <3>1, <3>2
  <2>4. CASE PollStats(c)
    <3>1. PICK p \in poll[c].paths :
            poll' = [poll EXCEPT ![c] = [pc |-> IF Missing(p) THEN "missing" ELSE "walk",
                                         paths |-> poll[c].paths \ {p}, walk |-> Begin(p)]]
      BY <2>4 DEF PollStats
    <3>2. p \in Paths
      BY <1>0
    <3> DEFINE q == [pc |-> IF Missing(p) THEN "missing" ELSE "walk",
                     paths |-> poll[c].paths \ {p}, walk |-> Begin(p)]
    <3>3. q.walk.path = p /\ q.walk.snap = NoFiles
      BY DEF Begin
    <3>4. poll' = [poll EXCEPT ![c] = q]
      BY <3>1
    <3> HIDE DEF q
    <3> QED BY <2>2, <3>2, <3>3, <3>4
  <2>5. CASE PollVisits(c)
    <3> DEFINE w == Visited(poll[c].walk)
               q == [poll[c] EXCEPT !.walk = w]
    <3>1. poll' = [poll EXCEPT ![c] = q] /\ poll[c].pc = "walk" /\ ~WalkDone(poll[c].walk)
      BY <2>5 DEF PollVisits
    <3>2. poll[c].walk \in Walk /\ Old(poll[c].walk.snap) /\ poll[c].walk.path \in Paths
      BY <1>0, <3>1 DEF WatchInv, TimesAreOld, PollFits
    <3>3. w.path = poll[c].walk.path
      BY <1>0, <3>1, <3>2, WalkTypes
    <3>4. Old(w.snap)
      BY <1>0, <3>1, <3>2, VisitedIsOld DEF WatchInv
    <3> HIDE DEF w
    <3>5. q.pc = poll[c].pc /\ q.walk = w
      BY <1>0
    <3> QED BY <3>1, <3>2, <3>3, <3>4, <3>5
  <2> QED BY <2>3, <2>4, <2>5 DEF Poll
<1>3. PICK q : /\ poll' = [poll EXCEPT ![c] = q] /\ Old(q.walk.snap)
               /\ q.pc \in {"missing", "walk"} => q.walk.path \in Paths
  BY <1>2
<1>4. \A b \in Conns : poll'[b] = IF b = c THEN q ELSE poll[b]
  BY <1>0, <1>3
<1>5. \A b \in Conns : PollFits(poll'[b])
  BY <1>3, <1>4 DEF WatchInv, PollFits
<1>6. TimesAreOld'
  BY <1>0, <1>1, <1>3, <1>4 DEF WatchInv, TimesAreOld, Old
<1>7. \A b \in Conns : RequestFits(b)' /\ (Attended(b)' => DueAt(b)')
  BY <1>1 DEF WatchInv, RequestFits, Attended, DueAt, AckIsDue
<1>8. InOrder' /\ NoneIsWatched'
  BY <1>1 DEF WatchInv, InOrder, NoneIsWatched
<1> QED BY <1>5, <1>6, <1>7, <1>8 DEF WatchInv, PollFits

\* Storing the snapshot of a poll tells the active connection of all it changes:
\* for its own watcher this is all that was due, for another's it is more.
LEMMA PollReportKeeps ==
  ASSUME TypeInv, WatchInv, NEW c \in Conns, PollReport(c)
  PROVE  WatchInv'
<1>0. /\ disk \in Snapshot /\ poll \in [Conns -> [pc : PollStates, paths : SUBSET Paths, walk : Walk]]
      /\ watches \in [Conns -> [Paths -> Snapshot \cup {None}]] /\ left["files"] \in Nat
      /\ left["files"] < MaxTime /\ MaxTime \in Nat
      /\ request \in [Conns -> Requests] /\ watching \in [Conns -> SUBSET Paths]
      /\ unseen \in [Conns -> SUBSET Files] /\ None \notin Snapshot /\ None \notin Conns
  BY WatcherAssumption DEF TypeInv, TypeOK, WatcherTypeOK, Kinds
<1>1. UNCHANGED <<conn, active, request, watching, shared, disk, left>>
  BY DEF PollReport, PollStores, PollFindsMissing, serverVars
<1> DEFINE p == poll[c].walk.path
<1>2. p \in Paths
  BY DEF PollReport, PollStores, PollFindsMissing, WatchInv, PollFits
<1> HIDE DEF p
<1>a. /\ \A b \in Conns : unseen'[b] \subseteq unseen[b]
      /\ \A b \in Conns : Attended(b) => unseen'[b] = unseen[b] \ PollReports(c)
  BY <1>0 DEF PollReport, Tell, Attended, Reached
<1>3. \E s \in Snapshot \cup {None} :
        /\ watches' = [watches EXCEPT ![c][p] = s]
        /\ s = None => watches[c][p] = None
        /\ s # None => Old(s)
        /\ \A f \in Files : f \notin PollReports(c) /\ watches[c][p] # None =>
             s # None /\ s[f] = watches[c][p][f]
  <2>1. CASE PollStores(c)
    <3> DEFINE s == poll[c].walk.snap
    <3>1. s \in Snapshot /\ Old(s)
      BY <1>0 DEF Walk, WatchInv, TimesAreOld
    <3>2. watches' = [watches EXCEPT ![c][p] = s]
      BY <2>1 DEF PollStores, p
    <3>3. PollReports(c) = {f \in Files : Stored(c, p)[f] # s[f]}
      BY <2>1 DEF PollReports, PollStores, Changed, p
    <3> HIDE DEF s
    <3>4. ASSUME NEW f \in Files, f \notin PollReports(c), watches[c][p] # None
          PROVE  s[f] = watches[c][p][f]
      BY <3>3, <3>4 DEF Stored
    <3> QED BY <1>0, <3>1, <3>2, <3>4
  <2>2. CASE PollFindsMissing(c)
    <3> DEFINE s == IF watches[c][p] = None THEN None ELSE NoFiles
    <3>1. s \in Snapshot \cup {None}
      BY WalkTypes
    <3>2. Old(NoFiles)
      BY <1>0 DEF Old, NoFiles
    <3>3. watches' = [watches EXCEPT ![c][p] = s]
      BY <2>2 DEF PollFindsMissing, p
    <3>4. PollReports(c) = {f \in Files : Stored(c, p)[f] # 0}
      BY <2>2 DEF PollReports, PollFindsMissing, p
    <3>5. NoFiles # None /\ \A f \in Files : NoFiles[f] = 0
      BY <1>0, WalkTypes DEF NoFiles
    <3>6. ASSUME NEW f \in Files, f \notin PollReports(c), watches[c][p] # None
          PROVE  s # None /\ s[f] = watches[c][p][f]
      BY <3>4, <3>5, <3>6 DEF Stored
    <3>7. s # None => Old(s)
      BY <3>2
    <3>8. s = None => watches[c][p] = None
      BY <3>5
    <3> HIDE DEF s
    <3> QED BY <3>1, <3>3, <3>6, <3>7, <3>8
  <2> QED BY <2>1, <2>2 DEF PollReport
<1>4. PICK s \in Snapshot \cup {None} :
        /\ watches' = [watches EXCEPT ![c][p] = s]
        /\ s = None => watches[c][p] = None
        /\ s # None => Old(s)
        /\ \A f \in Files : f \notin PollReports(c) /\ watches[c][p] # None =>
             s # None /\ s[f] = watches[c][p][f]
  BY <1>3
<1>5. /\ \A b \in Conns : b # c => watches'[b] = watches[b]
      /\ \A q \in Paths : watches'[c][q] = IF q = p THEN s ELSE watches[c][q]
      /\ \A b \in Conns, q \in Paths : watches[b][q] # None => watches'[b][q] # None
  BY <1>0, <1>2, <1>4
<1>6. /\ \A b \in Conns : b # c => poll'[b] = poll[b]
      /\ PollFits(poll[c])' /\ Old(poll'[c].walk.snap)
  <2>1. PollGoesOn(c)
    BY DEF PollReport, PollStores, PollFindsMissing
  <2>2. poll'[c].pc \in {"idle", "next"} /\ poll'[c].walk = NoWalk
    BY <1>0, <2>1 DEF PollGoesOn, Idle
  <2>3. Old(NoFiles)
    BY <1>0 DEF Old, NoFiles
  <2> QED BY <1>0, <2>1, <2>2, <2>3 DEF PollGoesOn, PollFits, NoWalk
<1>7. ASSUME NEW b \in Conns PROVE RequestFits(b)' /\ PollFits(poll[b])'
  <2>1. RequestFits(b)'
    <3>1. request[b] \in Requests /\ RequestFits(b)
      BY <1>0 DEF WatchInv
    <3>2. CASE request[b].pc = "ack" /\ request[b].kind = "watch" /\ active = b
               /\ <<b, request[b].path>> \notin shared
      <4>1. request[b].path \in Paths /\ watches[b][request[b].path] # None
        BY <3>1, <3>2 DEF RequestFits, Requests
      <4>2. watches'[b][request[b].path] # None
        BY <1>5, <4>1
      <4> QED BY <1>1, <3>1, <4>2 DEF RequestFits
    <3>3. CASE ~(request[b].pc = "ack" /\ request[b].kind = "watch" /\ active = b
                 /\ <<b, request[b].path>> \notin shared)
      BY <1>1, <3>1, <3>3 DEF RequestFits
    <3> QED BY <3>2, <3>3
  <2>2. PollFits(poll[b])'
    BY <1>6 DEF WatchInv, PollFits
  <2> QED BY <2>1, <2>2
<1>8. TimesAreOld'
  <2>1. ASSUME NEW b \in Conns, NEW q \in Paths, watches'[b][q] # None
        PROVE  Old(watches'[b][q])
    BY <1>4, <1>5, <2>1 DEF WatchInv, TimesAreOld
  <2>2. ASSUME NEW b \in Conns PROVE Old(poll'[b].walk.snap) /\ Old(request[b].walk.snap)
    BY <1>6 DEF WatchInv, TimesAreOld
  <2>3. Old(disk)
    BY DEF WatchInv, TimesAreOld
  <2> QED BY <1>1, <2>1, <2>2, <2>3 DEF TimesAreOld, Old
<1>9. ASSUME NEW b \in Conns, Attended(b) PROVE DueAt(b)'
  <2> SUFFICES ASSUME NEW q \in watching[b], <<b, q>> \notin shared
               PROVE  /\ watches'[b][q] # None
                      /\ \A f \in unseen'[b] \cap Under[q] :
                           disk[f] # 0 => AckIsDue(b, q)' \/ watches'[b][q][f] # disk[f]
    BY <1>1 DEF DueAt
  <2>1. q \in Paths /\ watches[b][q] # None
    BY <1>0, <1>9 DEF WatchInv, DueAt
  <2>2. watches'[b][q] # None
    BY <1>5, <2>1
  <2>3. ASSUME NEW f \in unseen'[b] \cap Under[q], disk[f] # 0
        PROVE  AckIsDue(b, q)' \/ watches'[b][q][f] # disk[f]
    <3>1. f \in unseen[b] \cap Under[q] /\ f \in Files /\ f \notin PollReports(c)
      BY <1>0, <1>9, <1>a
    <3>2. AckIsDue(b, q) \/ watches[b][q][f] # disk[f]
      BY <1>9, <2>3, <3>1 DEF WatchInv, DueAt
    <3>3. watches'[b][q][f] = watches[b][q][f]
      BY <1>4, <1>5, <2>1, <3>1
    <3>4. AckIsDue(b, q)' = AckIsDue(b, q)
      BY <1>1 DEF AckIsDue
    <3> QED BY <3>2, <3>3, <3>4
  <2> QED BY <2>2, <2>3
<1>10. InOrder' /\ NoneIsWatched'
  BY <1>1 DEF WatchInv, InOrder, NoneIsWatched
<1>11. \A b \in Conns : Attended(b)' = Attended(b)
  BY <1>1 DEF Attended
<1> QED BY <1>7, <1>8, <1>9, <1>10, <1>11 DEF WatchInv


\* A request of c stores at most one snapshot, in the watcher it was given, and
\* touches no other connection.
Disturbs(c) ==
  /\ UNCHANGED <<conn, active, disk, poll>> /\ left'["files"] = left["files"]
  /\ shared \subseteq shared'
  /\ \A b \in Conns, p \in Paths : watches'[b][p] # watches[b][p] =>
       /\ request[c].pc \in Taken /\ b = request[c].owner /\ p = request[c].path
       /\ watches'[b][p] # None => Old(watches'[b][p])
  /\ \A b \in Conns : b # c => watching'[b] = watching[b] /\ unseen'[b] = unseen[b]

\* A request of c becomes q, which fits what is stored, told and due then.
Becomes(c, q) ==
  /\ request' = [request EXCEPT ![c] = q] /\ Old(q.walk.snap)
  /\ q.pc # "none" => conn[c] # "none"
  /\ q.pc \in Taken => /\ q.owner \in Conns /\ c <= q.owner /\ q.owner <= active
                       /\ q.owner # c => <<q.owner, q.path>> \in shared'
  /\ q.pc = "walk" => q.kind = "watch"
  /\ q.pc = "ack" /\ q.kind = "watch" /\ active = c /\ <<c, q.path>> \notin shared' =>
       watches'[c][q.path] # None
  /\ q.pc # "none" /\ q.kind = "unwatch" => q.path \notin watching'[c]
  /\ conn[c] # "up" => watching'[c] = {}
  /\ Attended(c) => DueAt(c)'

\* The requests of one connection disturb another only where that is shared.
LEMMA OthersKeep ==
  ASSUME TypeInv, WatchInv, NEW c \in Conns, NEW q, Disturbs(c), Becomes(c, q)
  PROVE  WatchInv'
<1>0. /\ request \in [Conns -> Requests] /\ watching \in [Conns -> SUBSET Paths]
      /\ RequestFits(c) /\ TimesAreOld
  BY DEF TypeInv, TypeOK, WatchInv
<1>1. /\ UNCHANGED <<conn, active, disk, poll>> /\ left'["files"] = left["files"]
      /\ shared \subseteq shared'
      /\ request'[c] = q /\ \A b \in Conns : b # c => request'[b] = request[b]
  BY <1>0 DEF Disturbs, Becomes
<1>2. ASSUME NEW b \in Conns, b # c, NEW p \in Paths, watches'[b][p] # watches[b][p]
      PROVE  <<b, p>> \in shared'
  BY <1>0, <1>1, <1>2 DEF Disturbs, RequestFits
<1>3. ASSUME NEW b \in Conns, b # c PROVE RequestFits(b)' /\ (Attended(b) => DueAt(b)')
  <2>1. request'[b] = request[b] /\ watching'[b] = watching[b] /\ unseen'[b] = unseen[b]
    BY <1>1, <1>3 DEF Disturbs
  <2>2. request[b] \in Requests /\ RequestFits(b)
    BY <1>0 DEF WatchInv
  <2>3. RequestFits(b)'
    <3>1. CASE request[b].pc = "ack" /\ request[b].kind = "watch" /\ active = b
               /\ <<b, request[b].path>> \notin shared'
      <4>1. request[b].path \in Paths /\ watches[b][request[b].path] # None
        BY <1>1, <2>2, <3>1 DEF RequestFits, Requests
      <4>2. watches'[b][request[b].path] # None
        BY <1>2, <1>3, <3>1, <4>1
      <4> QED BY <1>1, <2>1, <2>2, <4>2 DEF RequestFits
    <3>2. CASE ~(request[b].pc = "ack" /\ request[b].kind = "watch" /\ active = b
                 /\ <<b, request[b].path>> \notin shared')
      BY <1>1, <2>1, <2>2, <3>2 DEF RequestFits
    <3> QED BY <3>1, <3>2
  <2>4. ASSUME Attended(b) PROVE DueAt(b)'
    <3>1. ASSUME NEW p \in watching[b], <<b, p>> \notin shared'
          PROVE  p \in Paths /\ <<b, p>> \notin shared /\ watches'[b][p] = watches[b][p]
      BY <1>0, <1>1, <1>2, <1>3, <3>1
    <3>2. \A p : AckIsDue(b, p)' = AckIsDue(b, p)
      BY <2>1 DEF AckIsDue
    <3>3. DueAt(b)
      BY <2>4 DEF WatchInv
    <3> QED BY <1>1, <2>1, <3>1, <3>2, <3>3 DEF DueAt
  <2> QED BY <2>3, <2>4
<1>4. RequestFits(c)' /\ (Attended(c) => DueAt(c)')
  BY <1>1 DEF Becomes, RequestFits
<1>5. TimesAreOld'
  <2>1. ASSUME NEW b \in Conns
        PROVE  /\ \A p \in Paths : watches'[b][p] # None => Old(watches'[b][p])
               /\ Old(poll'[b].walk.snap) /\ Old(request'[b].walk.snap)
    <3>1. \A p \in Paths : watches'[b][p] # None => Old(watches'[b][p])
      BY <1>0 DEF Disturbs, TimesAreOld
    <3>2. Old(request'[b].walk.snap)
      BY <1>0, <1>1 DEF Becomes, TimesAreOld
    <3> QED BY <1>0, <1>1, <3>1, <3>2 DEF TimesAreOld
  <2> QED BY <1>0, <1>1, <2>1 DEF TimesAreOld, Old
<1>6. InOrder' /\ NoneIsWatched'
  BY <1>1 DEF WatchInv, InOrder, NoneIsWatched, Disturbs, Becomes
<1>7. \A b \in Conns : Attended(b)' = Attended(b) /\ PollFits(poll[b])'
  BY <1>1 DEF Attended, WatchInv, PollFits
<1> QED BY <1>3, <1>4, <1>5, <1>6, <1>7 DEF WatchInv

\* A request that stores nothing yet, or that the client only sends, keeps what
\* is due; an Ack settles it, a snapshot that is stored has one to come.
LEMMA RequestKeeps ==
  ASSUME TypeInv, WatchInv, NEW c \in Conns,
         Handle(c) \/ \E kind \in {"watch", "unwatch"}, p \in Paths : Ask(c, kind, p)
  PROVE  WatchInv'
<1>0. /\ watches \in [Conns -> [Paths -> Snapshot \cup {None}]] /\ left \in [Kinds -> Nat]
      /\ request \in [Conns -> Requests] /\ request[c] \in Requests
      /\ watching \in [Conns -> SUBSET Paths] /\ unseen \in [Conns -> SUBSET Files]
      /\ None \notin Snapshot /\ None \notin Conns /\ active \in Conns \cup {None}
      /\ conn \in [Conns -> ConnStates] /\ shared \subseteq Conns \X Paths
      /\ RequestFits(c) /\ TimesAreOld /\ Old(request[c].walk.snap) /\ InOrder
      /\ NoneIsWatched /\ (Attended(c) => DueAt(c))
  BY WatcherAssumption DEF TypeInv, TypeOK, WatcherTypeOK, WatchInv, TimesAreOld
<1> DEFINE r == request[c]
<1>1. UNCHANGED <<conn, active, disk, poll>> /\ left'["files"] = left["files"]
      /\ shared \subseteq shared'
      /\ \A b \in Conns : b # c => watching'[b] = watching[b] /\ unseen'[b] = unseen[b]
  <2>1. CASE Handle(c)
    BY <1>0, <2>1 DEF Handle, TakeWatcher, Unwatch, WatchStats, WatchVisits, WatchFinishes,
       AckWatch, Monitored, UnwatchDeletes, WatchStores, watcherVars, clientVars, historyVars
  <2>2. ASSUME NEW kind \in {"watch", "unwatch"}, NEW p \in Paths, Ask(c, kind, p)
        PROVE  UNCHANGED <<conn, active, disk, poll>> /\ left'["files"] = left["files"]
               /\ shared \subseteq shared'
               /\ \A b \in Conns : b # c => watching'[b] = watching[b] /\ unseen'[b] = unseen[b]
    <3>1. left'["files"] = left["files"]
      BY <1>0, <2>2, SpendTypes DEF Ask, Kinds
    <3> QED BY <1>0, <2>2, <3>1 DEF Ask, Monitored, watcherVars, historyVars
  <2> QED BY <2>1, <2>2
<1>2. Old(NoFiles)
  <2>1. left["files"] \in Nat /\ left["files"] < MaxTime /\ MaxTime \in Nat
    BY <1>0, WatcherAssumption DEF TypeInv, Kinds
  <2> QED BY <2>1 DEF Old, NoFiles
<1>3. NoRequest.pc = "none" /\ NoRequest.kind = "watch" /\ NoRequest.walk.snap = NoFiles
  BY DEF NoRequest, NoWalk
<1>4. r.pc \in Taken /\ active = c => r.owner = c
  BY <1>0 DEF RequestFits, Conns
(* As long as nothing is stored and no Ack was due, what is due stays. *)
<1>5. ASSUME NEW q, request' = [request EXCEPT ![c] = q], Old(q.walk.snap), UNCHANGED watches,
             watching'[c] \subseteq watching[c], unseen'[c] \subseteq unseen[c],
             r.pc # "ack", q.pc # "ack", q.pc # "none" => conn[c] # "none",
             q.pc \in Taken => /\ q.owner \in Conns /\ c <= q.owner /\ q.owner <= active
                               /\ q.owner # c => <<q.owner, q.path>> \in shared',
             q.pc = "walk" => q.kind = "watch",
             q.pc # "none" /\ q.kind = "unwatch" => q.path \notin watching'[c]
      PROVE  WatchInv'
  <2>1. Disturbs(c)
    BY <1>1, <1>5 DEF Disturbs
  <2>2. Attended(c) => DueAt(c)'
    <3>1. ASSUME NEW p, AckIsDue(c, p) PROVE FALSE
      BY <1>5, <3>1 DEF AckIsDue
    <3> QED BY <1>0, <1>1, <1>5, <3>1 DEF DueAt
  <2>3. Becomes(c, q)
    BY <1>0, <1>1, <1>5, <2>2 DEF Becomes, NoneIsWatched
  <2> QED BY <2>1, <2>3, OthersKeep
<1>6. CASE TakeWatcher(c)
  <2>1. UNCHANGED <<watches, unseen, watching>> /\ r.pc = "sent"
    BY <1>6 DEF TakeWatcher, Monitored, watcherVars, clientVars
  <2>2. CASE conn[active] = "accepted"
    <3>1. request' = [request EXCEPT ![c] = NoRequest]
      BY <1>6, <2>2 DEF TakeWatcher
    <3> QED BY <1>2, <1>3, <1>5, <2>1, <3>1 DEF Taken
  <2>3. CASE conn[active] # "accepted"
    <3> DEFINE q == [r EXCEPT !.pc = "stat", !.owner = active]
    <3>1. request' = [request EXCEPT ![c] = q]
          /\ shared' = IF active = c THEN shared ELSE shared \cup {<<active, r.path>>}
      BY <1>6, <2>3 DEF TakeWatcher
    <3>2. q.pc = "stat" /\ q.owner = active /\ q.walk = r.walk /\ q.kind = r.kind /\ q.path = r.path
      BY <1>0 DEF Requests
    <3>3. conn[c] # "none"
      BY <1>0, <2>1 DEF RequestFits
    <3>4. active \in Conns /\ c <= active /\ active <= active
      BY <1>0, <3>3 DEF InOrder, Conns
    <3> HIDE DEF q
    <3>5. active # c => <<active, r.path>> \in shared'
      BY <3>1
    <3>6. q.kind = "unwatch" => q.path \notin watching'[c]
      BY <1>0, <2>1, <3>2 DEF RequestFits
    <3> QED BY <1>0, <1>5, <2>1, <3>1, <3>2, <3>3, <3>4, <3>5, <3>6
  <2> QED BY <2>2, <2>3
<1>7. CASE WatchStats(c)
  <2>1. UNCHANGED <<watches, unseen, watching, shared>> /\ r.pc = "stat" /\ r.kind = "watch"
    BY <1>7 DEF WatchStats, Monitored, watcherVars, clientVars, historyVars
  <2>2. CASE Missing(r.path)
    <3>1. request' = [request EXCEPT ![c] = NoRequest]
      BY <1>7, <2>2 DEF WatchStats
    <3> QED BY <1>2, <1>3, <1>5, <2>1, <3>1 DEF Taken
  <2>3. CASE ~Missing(r.path)
    <3> DEFINE q == [r EXCEPT !.pc = "walk", !.walk = Begin(r.path)]
    <3>1. request' = [request EXCEPT ![c] = q]
      BY <1>7, <2>3 DEF WatchStats
    <3>2. q.pc = "walk" /\ q.owner = r.owner /\ q.walk.snap = NoFiles /\ q.kind = "watch"
          /\ q.path = r.path
      BY <1>0, <2>1 DEF Requests, Begin
    <3> HIDE DEF q
    <3> QED BY <1>0, <1>2, <1>5, <2>1, <3>1, <3>2 DEF RequestFits, Taken
  <2> QED BY <2>2, <2>3
<1>8. CASE WatchVisits(c)
  <2>1. UNCHANGED <<watches, unseen, watching, shared>> /\ r.pc = "walk" /\ ~WalkDone(r.walk)
    BY <1>8 DEF WatchVisits, Monitored, watcherVars, clientVars, historyVars
  <2> DEFINE w == Visited(r.walk)
             q == [r EXCEPT !.walk = w]
  <2>2. request' = [request EXCEPT ![c] = q]
    BY <1>8 DEF WatchVisits
  <2>3. Old(w.snap)
    BY <1>0, <2>1, VisitedIsOld DEF Requests
  <2> HIDE DEF w
  <2>4. q.pc = "walk" /\ q.walk = w /\ q.owner = r.owner /\ q.kind = r.kind /\ q.path = r.path
    BY <1>0, <2>1 DEF Requests
  <2> HIDE DEF q
  <2> QED BY <1>0, <1>5, <2>1, <2>2, <2>3, <2>4 DEF RequestFits, Taken
(* One snapshot is stored, or deleted. *)
<1>9. ASSUME Unwatch(c) \/ WatchFinishes(c) PROVE WatchInv'
  <2> DEFINE q == [r EXCEPT !.pc = "ack"]
             s == IF r.kind = "unwatch" THEN None ELSE r.walk.snap
  <2>1. /\ UNCHANGED <<watching, unseen, shared>> /\ r.pc \in {"stat", "walk"}
        /\ request' = [request EXCEPT ![c] = q]
        /\ watches' = [watches EXCEPT ![r.owner][r.path] = s]
    BY <1>0, <1>9 DEF Unwatch, UnwatchDeletes, WatchFinishes, WatchStores, clientVars, historyVars,
       RequestFits
  <2>2. r.owner \in Conns /\ r.path \in Paths /\ r.walk.snap \in Snapshot
    BY <1>0, <2>1 DEF RequestFits, Requests, Walk, Taken
  <2>3. q.pc = "ack" /\ q.walk = r.walk /\ q.owner = r.owner /\ q.kind = r.kind /\ q.path = r.path
    BY <1>0, <2>1 DEF Requests
  <2>4. r.kind = "watch" => s # None
    BY <1>0, <2>2
  <2>5. s # None => Old(s)
    BY <1>0
  <2> HIDE DEF s, q
  <2>6. \A b \in Conns, p \in Paths :
          watches'[b][p] = IF b = r.owner /\ p = r.path THEN s ELSE watches[b][p]
    BY <1>0, <2>1, <2>2
  <2>7. Disturbs(c)
    BY <1>1, <2>1, <2>5, <2>6 DEF Disturbs, Taken
  <2>8. ASSUME Attended(c) PROVE DueAt(c)'
    <3>1. active = c /\ r.owner = c
      BY <1>4, <2>1, <2>8 DEF Attended, Taken
    <3> SUFFICES ASSUME NEW p \in watching[c], <<c, p>> \notin shared
                 PROVE  /\ watches'[c][p] # None
                        /\ \A f \in unseen[c] \cap Under[p] :
                             disk[f] # 0 => AckIsDue(c, p)' \/ watches'[c][p][f] # disk[f]
      BY <1>1, <2>1 DEF DueAt
    <3>2. p \in Paths /\ watches[c][p] # None
      BY <1>0, <2>8 DEF DueAt
    <3>3. CASE p = r.path
      <4>1. r.kind = "watch"
        BY <1>0, <2>1, <2>2, <3>3 DEF RequestFits, Requests
      <4>2. AckIsDue(c, p)'
        BY <1>0, <2>1, <2>3, <3>3, <4>1 DEF AckIsDue
      <4> QED BY <2>4, <2>6, <3>1, <3>2, <3>3, <4>1, <4>2
    <3>4. CASE p # r.path
      <4>1. watches'[c][p] = watches[c][p] /\ ~AckIsDue(c, p)
        BY <2>1, <2>6, <3>2, <3>4 DEF AckIsDue
      <4> QED BY <1>0, <2>8, <3>2, <4>1 DEF DueAt
    <3> QED BY <3>3, <3>4
  <2>9. Becomes(c, q)
    <3>1. active = c /\ q.kind = "watch" => watches'[c][q.path] # None
      BY <1>4, <2>1, <2>2, <2>3, <2>4, <2>6 DEF Taken
    <3>2. /\ Old(q.walk.snap) /\ conn[c] # "none"
          /\ c <= q.owner /\ q.owner <= active
          /\ q.owner # c => <<q.owner, q.path>> \in shared'
          /\ q.kind = "unwatch" => q.path \notin watching'[c]
      BY <1>0, <2>1, <2>3 DEF RequestFits, Taken
    <3> QED BY <1>0, <2>1, <2>2, <2>3, <2>8, <3>1, <3>2 DEF Becomes, NoneIsWatched
  <2> QED BY <2>7, <2>9, OthersKeep
<1>10. CASE AckWatch(c)
  <2> DEFINE heard == r.kind = "watch" /\ conn[c] = "up"
  <2>1. /\ UNCHANGED <<watches, shared>> /\ r.pc = "ack"
        /\ request' = [request EXCEPT ![c] = NoRequest]
        /\ watching'[c] = IF heard THEN watching[c] \cup {r.path} ELSE watching[c]
        /\ unseen'[c] = IF heard THEN unseen[c] \ Under[r.path] ELSE unseen[c]
    BY <1>0, <1>10 DEF AckWatch, Monitored, watcherVars, historyVars
  <2>2. Disturbs(c)
    BY <1>1, <2>1 DEF Disturbs
  <2>3. ASSUME Attended(c) PROVE DueAt(c)'
    <3> SUFFICES ASSUME NEW p \in watching'[c], <<c, p>> \notin shared
                 PROVE  /\ watches[c][p] # None
                        /\ \A f \in unseen'[c] \cap Under[p] : disk[f] # 0 => watches[c][p][f] # disk[f]
      BY <1>1, <2>1 DEF DueAt
    <3>1. CASE heard /\ p = r.path
      <4>1. watches[c][p] # None
        BY <1>0, <2>1, <2>3, <3>1 DEF RequestFits, Attended
      <4> QED BY <2>1, <3>1, <4>1
    <3>2. CASE ~(heard /\ p = r.path)
      <4>1. p \in watching[c] /\ unseen'[c] \subseteq unseen[c]
        BY <2>1, <3>2
      <4>2. ~AckIsDue(c, p)
        BY <2>3, <3>2 DEF AckIsDue, Attended
      <4> QED BY <1>0, <2>3, <4>1, <4>2 DEF DueAt
    <3> QED BY <3>1, <3>2
  <2>4. Becomes(c, NoRequest)
    BY <1>0, <1>2, <1>3, <2>1, <2>3 DEF Becomes, NoneIsWatched, Taken
  <2> QED BY <2>2, <2>4, OthersKeep
<1>11. ASSUME NEW kind \in {"watch", "unwatch"}, NEW p \in Paths, Ask(c, kind, p)
       PROVE  WatchInv'
  <2> DEFINE q == [NoRequest EXCEPT !.pc = "sent", !.kind = kind, !.path = p]
  <2>1. /\ UNCHANGED watches /\ r.pc = "none" /\ request' = [request EXCEPT ![c] = q]
        /\ conn[c] = "up"
        /\ watching'[c] = IF kind = "unwatch" THEN watching[c] \ {p} ELSE watching[c]
        /\ unseen'[c] \subseteq unseen[c]
    BY <1>0, <1>11 DEF Ask, Monitored, watcherVars
  <2>2. q.pc = "sent" /\ q.kind = kind /\ q.path = p /\ q.walk.snap = NoFiles
    BY DEF NoRequest, NoWalk
  <2> HIDE DEF q
  <2> QED BY <1>2, <1>5, <2>1, <2>2 DEF Taken
<1> QED BY <1>6, <1>7, <1>8, <1>9, <1>10, <1>11 DEF Handle

\* A change has a time that no snapshot has, so that it is due wherever the file
\* is watched.
LEMMA ChangeKeeps ==
  ASSUME TypeInv, WatchInv, NEW f \in Files, ChangeFile(f)
  PROVE  WatchInv'
<1>0. /\ disk \in Snapshot /\ watches \in [Conns -> [Paths -> Snapshot \cup {None}]]
      /\ left["files"] \in Nat /\ MaxTime \in Nat /\ left["files"] < MaxTime
      /\ left \in [Kinds -> Nat]
      /\ watching \in [Conns -> SUBSET Paths] /\ unseen \in [Conns -> SUBSET Files]
  BY WatcherAssumption DEF TypeInv, TypeOK, WatcherTypeOK, Kinds
<1> DEFINE now == MaxTime - left["files"] + 1
<1>1. PICK t \in {0, now} : disk' = [disk EXCEPT ![f] = t]
  BY DEF ChangeFile, DiskChanges
<1>2. /\ UNCHANGED <<conn, active, request, watching, watches, poll, shared>>
      /\ MaxTime - left'["files"] = now
      /\ \A b \in Conns : /\ unseen'[b] \subseteq unseen[b] \cup {f}
                          /\ unseen[b] \subseteq unseen'[b]
  <2>1. left'["files"] = left["files"] - 1
    BY <1>0, SpendTypes DEF ChangeFile, Kinds
  <2> QED BY <1>0, <2>1 DEF ChangeFile, DiskChanges, watcherVars, serverVars, historyVars
<1> HIDE DEF now
<1>3. now = MaxTime - left["files"] + 1 /\ now \in Nat
  BY <1>0 DEF now
<1>4. \A g \in Files : disk'[g] = IF g = f THEN t ELSE disk[g]
  BY <1>0, <1>1 DEF Snapshot
<1>5. ASSUME NEW s \in Snapshot, Old(s) PROVE \A g \in Files : s[g] < now /\ s[g] \in Nat
  BY <1>0, <1>3, <1>5 DEF Old, Snapshot, Times
<1>6. \A b \in Conns : RequestFits(b)' /\ PollFits(poll[b])' /\ (Attended(b)' = Attended(b))
  BY <1>2 DEF WatchInv, RequestFits, PollFits, Attended
<1>7. TimesAreOld'
  <2>1. \A g \in Files : disk'[g] <= now
    BY <1>0, <1>1, <1>3, <1>4, <1>5 DEF WatchInv, TimesAreOld
  <2>2. ASSUME NEW b \in Conns
        PROVE  /\ \A p \in Paths : watches[b][p] # None => \A g \in Files : watches[b][p][g] <= now
               /\ \A g \in Files : poll[b].walk.snap[g] <= now /\ request[b].walk.snap[g] <= now
    <3>1. poll[b].walk.snap \in Snapshot /\ request[b].walk.snap \in Snapshot
      BY DEF TypeInv, TypeOK, WatcherTypeOK, Requests, Walk
    <3>2. Old(poll[b].walk.snap) /\ Old(request[b].walk.snap)
      BY DEF WatchInv, TimesAreOld
    <3>3. ASSUME NEW p \in Paths, watches[b][p] # None
          PROVE  watches[b][p] \in Snapshot /\ Old(watches[b][p])
      BY <1>0, <3>3 DEF WatchInv, TimesAreOld
    <3> QED BY <1>3, <1>5, <3>1, <3>2, <3>3
  <2> QED BY <1>2, <2>1, <2>2 DEF TimesAreOld, Old
<1>8. ASSUME NEW b \in Conns, Attended(b) PROVE DueAt(b)'
  <2> SUFFICES ASSUME NEW p \in watching[b], <<b, p>> \notin shared
               PROVE  /\ watches[b][p] # None
                      /\ \A g \in unseen'[b] \cap Under[p] :
                           disk'[g] # 0 => AckIsDue(b, p)' \/ watches[b][p][g] # disk'[g]
    BY <1>2 DEF DueAt
  <2>1. p \in Paths /\ watches[b][p] # None /\ DueAt(b)
    BY <1>0, <1>8 DEF WatchInv, DueAt
  <2>2. watches[b][p] \in Snapshot /\ Old(watches[b][p])
    BY <1>0, <2>1 DEF WatchInv, TimesAreOld
  <2>3. ASSUME NEW g \in unseen'[b] \cap Under[p], disk'[g] # 0
        PROVE  AckIsDue(b, p)' \/ watches[b][p][g] # disk'[g]
    <3>1. CASE g = f
      <4>1. watches[b][p][f] < now /\ watches[b][p][f] \in Nat
        BY <1>5, <2>2
      <4>2. disk'[f] = now
        BY <1>1, <1>4, <2>3, <3>1
      <4> QED BY <1>3, <3>1, <4>1, <4>2
    <3>2. CASE g # f
      <4>1. g \in unseen[b] \cap Under[p] /\ g \in Files
        BY <1>0, <1>2, <2>3, <3>2
      <4>2. disk[g] # 0 /\ disk'[g] = disk[g]
        BY <1>4, <2>3, <3>2, <4>1
      <4>3. AckIsDue(b, p)' = AckIsDue(b, p)
        BY <1>2 DEF AckIsDue
      <4> QED BY <2>1, <4>1, <4>2, <4>3 DEF DueAt
    <3> QED BY <3>1, <3>2
  <2> QED BY <2>1, <2>3
<1>9. InOrder' /\ NoneIsWatched'
  BY <1>2 DEF WatchInv, InOrder, NoneIsWatched
<1> QED BY <1>2, <1>6, <1>7, <1>8, <1>9 DEF WatchInv

\* A connection that comes has nothing due yet, one that goes has nothing due
\* any more, and the others keep what they have.
LEMMA ConnKeeps ==
  ASSUME TypeInv, WatchInv, NEW c \in Conns, Accept(c) \/ GetReady(c) \/ Leave(c) \/ Disconnect(c)
  PROVE  WatchInv'
<1>0. /\ conn \in [Conns -> ConnStates] /\ active \in Conns \cup {None}
      /\ watching \in [Conns -> SUBSET Paths] /\ unseen \in [Conns -> SUBSET Files]
      /\ request \in [Conns -> Requests] /\ InOrder /\ NoneIsWatched /\ None \notin Conns
  BY WatcherAssumption DEF TypeInv, TypeOK, WatchInv
<1>1. /\ UNCHANGED <<request, disk, left, watches, poll, shared>>
      /\ \A b \in Conns : b # c => /\ conn'[b] = conn[b] /\ watching'[b] = watching[b]
                                   /\ unseen'[b] = unseen[b]
  BY <1>0 DEF Accept, GetReady, Leave, Disconnect, Monitored, watcherVars, clientVars, historyVars
<1>2. TimesAreOld'
  BY <1>1 DEF WatchInv, TimesAreOld, Old
<1>3. \A b \in Conns : PollFits(poll[b])'
  BY <1>1 DEF WatchInv, PollFits
<1>4. CASE Accept(c)
  <2>1. /\ conn[c] = "none" /\ conn'[c] = "accepted" /\ active' = c
        /\ \A b \in Conns : b < c => conn[b] # "none"
        /\ UNCHANGED <<watching, unseen>>
    BY <1>0, <1>4 DEF Accept, clientVars
  <2>2. InOrder'
    BY <1>0, <1>1, <2>1 DEF InOrder, Conns
  <2>3. active # None => active \in Conns /\ active < c
    BY <1>0, <2>1 DEF InOrder, Conns
  <2>4. ASSUME NEW b \in Conns PROVE RequestFits(b)'
    <3>1. CASE b = c
      <4>1. request[c].pc = "none"
        BY <1>0, <2>1 DEF WatchInv, RequestFits
      <4> QED BY <1>1, <3>1, <4>1 DEF RequestFits, Taken
    <3>2. CASE b # c
      <4>1. RequestFits(b) /\ active' # b
        BY <2>1, <3>2 DEF WatchInv
      <4>2. request[b].pc \in Taken => request[b].owner <= active'
        <5> SUFFICES ASSUME request[b].pc \in Taken PROVE request[b].owner <= c
          BY <2>1
        <5>1. conn[b] # "none" /\ request[b].owner \in Conns /\ request[b].owner <= active
          BY <4>1 DEF RequestFits, Taken
        <5>2. active # None
          BY <1>0, <5>1 DEF InOrder
        <5> QED BY <2>3, <5>1, <5>2 DEF Conns
      <4> QED BY <1>1, <2>1, <3>2, <4>1, <4>2 DEF RequestFits
    <3> QED BY <3>1, <3>2
  <2>5. NoneIsWatched' /\ \A b \in Conns : ~Attended(b)'
    BY <1>0, <1>1, <2>1 DEF NoneIsWatched, Attended
  <2> QED BY <1>2, <1>3, <2>2, <2>4, <2>5 DEF WatchInv
<1>5. CASE GetReady(c) \/ Leave(c) \/ Disconnect(c)
  <2>1. /\ active' = active /\ conn[c] # "none" /\ conn'[c] # "none" /\ watching'[c] = {}
    BY <1>0, <1>5 DEF GetReady, Leave, Disconnect, clientVars, NoneIsWatched
  <2>2. InOrder'
    BY <1>0, <1>1, <2>1 DEF InOrder
  <2>3. \A b \in Conns : RequestFits(b)'
    BY <1>0, <1>1, <2>1 DEF WatchInv, RequestFits
  <2>4. NoneIsWatched'
    BY <1>0, <1>1, <2>1 DEF NoneIsWatched
  <2>5. ASSUME NEW b \in Conns, Attended(b)' PROVE DueAt(b)'
    <3>1. CASE b = c
      BY <2>1, <3>1 DEF DueAt
    <3>2. CASE b # c
      <4>1. DueAt(b)
        BY <1>1, <2>1, <2>5, <3>2 DEF WatchInv, Attended
      <4> QED BY <1>1, <3>2, <4>1 DEF DueAt, AckIsDue
    <3> QED BY <3>1, <3>2
  <2> QED BY <1>2, <1>3, <2>2, <2>3, <2>4, <2>5 DEF WatchInv
<1> QED BY <1>4, <1>5

\* No step loses a write.
LEMMA WatchStep ==
  ASSUME TypeInv, WatchInv, [Next]_vars
  PROVE  WatchInv'
<1>1. ASSUME UNCHANGED <<conn, active, request, watching, unseen, shared, disk, watches, poll>>,
             left'["files"] = left["files"]
      PROVE  WatchInv'
  BY <1>1 DEF WatchInv, InOrder, NoneIsWatched, RequestFits, PollFits, TimesAreOld, Old, Attended,
              DueAt, AckIsDue
<1>2. CASE UNCHANGED vars
  BY <1>1, <1>2 DEF vars, serverVars, clientVars, historyVars, watcherVars
<1>3. ASSUME NEW c \in Conns, Scanning(c) \/ Reporting(c) PROVE WatchInv'
  BY <1>1, <1>3 DEF Scanning, TickDetector, FinishScan, Reporting, ReportPort, serverVars,
     clientVars, historyVars, watcherVars
<1>4. ASSUME NEW p \in Ports, FlipPort(p) PROVE WatchInv'
  <2>1. left'["files"] = left["files"]
    BY <1>4, SpendTypes DEF FlipPort, Kinds, TypeInv, TypeOK
  <2> QED BY <1>1, <1>4, <2>1 DEF FlipPort, serverVars, clientVars, historyVars, watcherVars
<1>5. ASSUME NEW c \in Conns, Polling(c) PROVE WatchInv'
  BY <1>5, PollGoesKeeps, PollReportKeeps DEF Polling
<1> QED
  BY <1>2, <1>3, <1>4, <1>5, RequestKeeps, ChangeKeeps, ConnKeeps DEF Next

\* Nobody watches anything at first.
LEMMA WatchInit == Init => WatchInv
<1> SUFFICES ASSUME Init PROVE WatchInv
  OBVIOUS
<1>1. left["files"] \in Nat /\ left["files"] < MaxTime /\ MaxTime \in Nat
  BY MonitorAssumption, WatcherAssumption DEF Init, Kinds
<1>2. Old(NoFiles) /\ Old(disk)
  BY <1>1 DEF Old, NoFiles, Init, WatcherInit
<1>3. InOrder /\ NoneIsWatched
  BY DEF Init, InOrder, NoneIsWatched
<1>4. TimesAreOld
  BY <1>2 DEF TimesAreOld, Init, WatcherInit, Idle, NoWalk, NoRequest
<1>5. \A c \in Conns : RequestFits(c) /\ PollFits(poll[c]) /\ ~Attended(c)
  BY DEF Init, WatcherInit, RequestFits, PollFits, Attended, NoRequest, Idle, Taken
<1> QED BY <1>3, <1>4, <1>5 DEF WatchInv

\* While the client of the active connection has not seen the last write to a
\* file it was told is watched, the watcher of that connection holds an older
\* time or an Ack is due, for any number of connections, files, paths and
\* requests, however many connections are open at once: no snapshot that a poll
\* or a Watch took without the lock replaces another such that a write is
\* forgotten, and no event of another connection's watcher is taken for one of
\* it (watcher.go:61-70, 110-157).
THEOREM NoWriteIsLost == Spec => []WriteIsDue
<1>1. WatchInv => WriteIsDue
  BY DEF WatchInv, WriteIsDue, DueAt
<1>2. Init => TypeInv /\ WatchInv
  BY TypeInit, WatchInit
<1>3. TypeInv /\ WatchInv /\ [Next]_vars => TypeInv' /\ WatchInv'
  BY TypeNext, WatchStep
<1> QED BY <1>1, <1>2, <1>3, PTL DEF Spec
===============================================================================
