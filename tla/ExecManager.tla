----------------------------- MODULE ExecManager -----------------------------
(***************************************************************************)
(* The processes a sidecar starts (sidecar/internal/exec/exec.go), with    *)
(* the two pipes each one writes to.  A process is forked, then entered in *)
(* the map of the manager, and forgotten once its exit has been reported.  *)
(* The operating system's part (the process runs, writes, leaves a child   *)
(* behind that holds the pipes, exits) is in here too.                     *)
(***************************************************************************)
EXTENDS Integers, Sequences

Streams == {"stdout", "stderr"}

CONSTANTS
  MaxProcs,   \* bound: processes started
  MaxChunks,  \* bound: how many chunks a process writes to each pipe
  Children    \* where what a command leaves running may be: "group" is its
              \* process group, "daemon" one of its own

ASSUME ExecAssumption ==
  MaxProcs \in Nat /\ MaxChunks \in [Streams -> Nat] /\ Children \subseteq {"group", "daemon"}

ProcIds == 1..MaxProcs
Killed == -1   \* the exit code of a process that died of a signal
Returned == 1  \* stands for every code a program returns
ExitCodes == {0, Returned, Killed}   \* 0 until it has exited

VARIABLES
  nextID,      \* Manager.nextID
  registered,  \* Manager.processes: the ids in the map
  procs        \* id -> the process and its pipes

\* A chunk is what one Read of a pipe returns.  written, piped and held count
\* the chunks written by the process, waiting in the pipe, and read but not
\* yet sent; stdin holds the request ids of the input written to the process.
\* A child is what the command left running with its pipes open.
ProcRecord ==
  [pc : {"none", "forked", "started", "streaming", "reported", "over"},
   alive : BOOLEAN, child : {"none", "group", "daemon"}, code : ExitCodes,
   done : BOOLEAN, stdin : Seq(Nat),
   written : [Streams -> Nat], piped : [Streams -> Nat],
   held : [Streams -> BOOLEAN], eof : [Streams -> BOOLEAN]]

NoProc ==
  [pc |-> "none", alive |-> FALSE, child |-> "none", code |-> 0, done |-> FALSE,
   stdin |-> <<>>, written |-> [s \in Streams |-> 0], piped |-> [s \in Streams |-> 0],
   held |-> [s \in Streams |-> FALSE], eof |-> [s \in Streams |-> FALSE]]

ExecTypeOK ==
  /\ nextID \in 1..(MaxProcs + 1)
  /\ registered \subseteq ProcIds
  /\ procs \in [ProcIds -> ProcRecord]

ExecInit ==
  /\ nextID = 1
  /\ registered = {}
  /\ procs = [p \in ProcIds |-> NoProc]

Goto(p, pc) == procs' = [procs EXCEPT ![p].pc = pc]

-------------------------------------------------------------------------------
(* The manager. *)

\* The kernel refuses to move a session leader to another process group.
Forks(attr) == ~("Setsid" \in attr /\ "Setpgid" \in attr)

\* What Start asks of the kernel: always a process group, and with a TTY the
\* session that pty.StartWithSize adds.
SysProcAttr(tty) == {"Setpgid"} \cup (IF tty THEN {"Setsid", "Setctty"} ELSE {})

\* Start up to the fork: the id has been taken before.
Fork(p) ==
  /\ p = nextID /\ p \in ProcIds
  /\ nextID' = nextID + 1
  /\ procs' = [procs EXCEPT ![p] = [NoProc EXCEPT !.pc = "forked", !.alive = TRUE]]
  /\ UNCHANGED registered

\* Start when the kernel refuses.
LoseId ==
  /\ nextID \in ProcIds
  /\ nextID' = nextID + 1
  /\ UNCHANGED <<registered, procs>>

\* Start after the fork: the goroutine that waits runs already.
Register(p) ==
  /\ procs[p].pc = "forked"
  /\ registered' = registered \cup {p}
  /\ Goto(p, "started")
  /\ UNCHANGED nextID

\* cmd.Wait returns when the process itself is gone, whatever holds its pipes.
WaitReturns(p) ==
  /\ procs[p].pc # "none" /\ ~procs[p].alive /\ ~procs[p].done
  /\ procs' = [procs EXCEPT ![p].done = TRUE]
  /\ UNCHANGED <<nextID, registered>>

\* Kill: the whole process group, through the id of its leader.
AfterKill(proc) ==
  [proc EXCEPT !.alive = FALSE,
               !.code = IF proc.alive THEN Killed ELSE @,
               !.child = IF @ = "group" THEN "none" ELSE @]

Kill(p) == procs' = [procs EXCEPT ![p] = AfterKill(@)]

KillAll ==
  procs' = [p \in ProcIds |->
              IF p \in registered THEN AfterKill(procs[p]) ELSE procs[p]]

\* WriteStdin: input for a process that is gone is an error nobody looks at.
WriteStdin(p, input) ==
  procs' = IF procs[p].alive THEN [procs EXCEPT ![p].stdin = Append(@, input)]
           ELSE procs

-------------------------------------------------------------------------------
(* The process and its children. *)

Writers(p) == procs[p].alive \/ procs[p].child # "none"

Writes(p, s) ==
  /\ Writers(p) /\ procs[p].written[s] < MaxChunks[s]
  /\ procs' = [procs EXCEPT ![p].written[s] = @ + 1, ![p].piped[s] = @ + 1]

LeavesChild(p, kind) ==
  /\ procs[p].alive /\ procs[p].child = "none"
  /\ procs' = [procs EXCEPT ![p].child = kind]

Exits(p, code) ==
  /\ procs[p].alive
  /\ procs' = [procs EXCEPT ![p].alive = FALSE, ![p].code = code]

ChildExits(p) ==
  /\ procs[p].child # "none"
  /\ procs' = [procs EXCEPT ![p].child = "none"]

OsStep(p) ==
  /\ \/ \E s \in Streams : Writes(p, s)
     \/ \E kind \in Children : LeavesChild(p, kind)
     \/ \E code \in {Returned, Killed} : Exits(p, code)
     \/ ChildExits(p)
  /\ UNCHANGED <<nextID, registered>>
===============================================================================
