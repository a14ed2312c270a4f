----------------------------- MODULE PortDetector -----------------------------
(***************************************************************************)
(* The port detector of the sidecar (sidecar/internal/port/detector.go),   *)
(* one for each connection.  A scan reads the listening ports and compares *)
(* them with the known ones under the lock; every change is reported by a  *)
(* goroutine of its own.                                                   *)
(***************************************************************************)
EXTENDS FileWatcher   \* for the connections

CONSTANTS
  Ports,     \* ports a program in the sandbox may listen on
  Open,      \* the ports that are open when the sidecar starts
  Internal   \* the sidecar's own ports, 9000 and 9001: never reported

ASSUME DetectorAssumption == Internal \subseteq Ports /\ Open \subseteq Ports

VARIABLES
  listening,  \* the ports in state LISTEN
  known,      \* connection -> Detector.known
  scan,       \* connection -> the ports the scan in progress has read
  flying      \* connection -> the goroutines that report a change its detector
              \* found: how many of each event

detectorVars == <<known, scan, flying>>

EventTypes == {"open", "close"}
NoScan == [busy |-> FALSE, current |-> {}]

DetectorTypeOK ==
  /\ listening \subseteq Ports
  /\ known \in [Conns -> SUBSET Ports]
  /\ scan \in [Conns -> [busy : BOOLEAN, current : SUBSET Ports]]
  /\ flying \in [Conns -> [EventTypes \X Ports -> Nat]]

DetectorInit ==
  /\ listening = Open
  /\ known = [c \in Conns |-> {}]
  /\ scan = [c \in Conns |-> NoScan]
  /\ flying = [c \in Conns |-> [e \in EventTypes \X Ports |-> 0]]

\* getListeningPorts, which leaves out the sidecar's own ports.
ListeningPorts == listening \ Internal

\* Only the scans of a detector change what it knows, one after another: one
\* that reads what is known already ends as it began, and is left out.
ScanReads(c) ==
  /\ ~scan[c].busy /\ ListeningPorts # known[c]
  /\ scan' = [scan EXCEPT ![c] = [busy |-> TRUE, current |-> ListeningPorts]]
  /\ UNCHANGED <<listening, known, flying>>

\* Mutant: the known ports are those of all detectors together.
Opened_Shared(c) == scan[c].current \ UNION {known[b] : b \in Conns}

Opened(c) == scan[c].current \ known[c]
Shut(c) == known[c] \ scan[c].current

\* Mutant: a port that is shut is forgotten, and not reported.
Started_OpensOnly(c) ==
  [e \in EventTypes \X Ports |->
     IF e[1] = "open" /\ e[2] \in Opened(c) THEN flying[c][e] + 1 ELSE flying[c][e]]

\* A goroutine for every change.
Started(c) ==
  [e \in EventTypes \X Ports |->
     IF e[2] \in (IF e[1] = "open" THEN Opened(c) ELSE Shut(c))
     THEN flying[c][e] + 1 ELSE flying[c][e]]

\* Mutant: a port that is shut stays known.
ScanStores_KeepShut(c) ==
  /\ scan[c].busy
  /\ known' = [known EXCEPT ![c] = @ \cup scan[c].current]
  /\ flying' = [flying EXCEPT ![c] = Started(c)]
  /\ scan' = [scan EXCEPT ![c] = NoScan]
  /\ UNCHANGED listening

ScanStores(c) ==
  /\ scan[c].busy
  /\ known' = [known EXCEPT ![c] = scan[c].current]
  /\ flying' = [flying EXCEPT ![c] = Started(c)]
  /\ scan' = [scan EXCEPT ![c] = NoScan]
  /\ UNCHANGED listening

\* A goroutine calls onOpen or onClose; which one runs first is open.
Reports(c, e) ==
  /\ flying[c][e] > 0
  /\ flying' = [flying EXCEPT ![c][e] = @ - 1]
  /\ UNCHANGED <<listening, known, scan>>

\* A program starts or stops listening.
PortFlips(p) ==
  /\ listening' = IF p \in listening THEN listening \ {p} ELSE listening \cup {p}
  /\ UNCHANGED detectorVars
===============================================================================
