----------------------------- MODULE FileWatcher ------------------------------
(***************************************************************************)
(* The polling file watcher of the sidecar (sidecar/internal/fs/watcher.go)*)
(* and the callers of its Watch and Unwatch.  There is one watcher for each*)
(* connection.  A poll copies the list of watched paths under the lock,    *)
(* takes each snapshot without it, file by file, and compares and stores   *)
(* it under the lock again.                                                *)
(*                                                                         *)
(* A modification time is a number that no two changes share, 0 if there is*)
(* no file.  A snapshot maps every file to its time, 0 for the files       *)
(* outside the path.  Directories are never removed.                       *)
(***************************************************************************)
EXTENDS Integers, FiniteSets

CONSTANTS
  NumConns,  \* connections, in the order in which they are accepted
  NumFiles,  \* files, in the order in which filepath.Walk visits them
  AtFirst,   \* the files there are when the sidecar starts
  Paths,     \* paths that may be watched
  Under,     \* path -> the files in it, recursively
  Dirs,      \* the paths that are directories
  MaxTime,   \* bound: modification times
  None

Conns == 1 .. NumConns
Files == 1 .. NumFiles
Times == 0 .. MaxTime
Snapshot == [Files -> Times]
NoFiles == [f \in Files |-> 0]

ASSUME WatcherAssumption ==
  /\ NumConns \in Nat /\ NumFiles \in Nat /\ MaxTime \in Nat
  /\ Dirs \subseteq Paths /\ AtFirst \subseteq 1 .. NumFiles
  /\ Under \in [Paths -> SUBSET Files]
  /\ None \notin Conns \cup Paths \cup Snapshot

VARIABLES
  disk,     \* file -> its modification time
  watches,  \* connection -> (path -> the stored snapshot, or None)
  poll      \* connection -> the poll of its pollLoop

watcherVars == <<watches, poll>>

\* A walk that snapshot() has begun: the next file it looks at, and the result.
Walk == [path : Paths \cup {None}, next : 1 .. NumFiles + 1, snap : Snapshot]
NoWalk == [path |-> None, next |-> 1, snap |-> NoFiles]

PollStates == {"idle", "next", "missing", "walk"}
Idle == [pc |-> "idle", paths |-> {}, walk |-> NoWalk]

WatcherTypeOK ==
  /\ disk \in Snapshot
  /\ watches \in [Conns -> [Paths -> Snapshot \cup {None}]]
  /\ poll \in [Conns -> [pc : PollStates, paths : SUBSET Paths, walk : Walk]]

WatcherInit ==
  /\ disk = [f \in Files |-> IF f \in AtFirst THEN 1 ELSE 0]
  /\ watches = [c \in Conns |-> [p \in Paths |-> None]]
  /\ poll = [c \in Conns |-> Idle]

-------------------------------------------------------------------------------
(* snapshot *)

\* os.Stat fails.
Missing(p) == p \notin Dirs /\ \A f \in Under[p] : disk[f] = 0

Begin(p) == [path |-> p, next |-> 1, snap |-> NoFiles]

\* One call of the function that filepath.Walk is given.
Visited(w) ==
  [w EXCEPT !.next = @ + 1,
            !.snap[w.next] = IF w.next \in Under[w.path] THEN disk[w.next] ELSE 0]

\* Mutant: one file too many.
WalkDone_Late(w) == w.next > NumFiles + 1

WalkDone(w) == w.next > NumFiles

-------------------------------------------------------------------------------
(* poll *)

PollStarts(c) ==
  /\ poll[c].pc = "idle"
  /\ LET P == {p \in Paths : watches[c][p] # None} IN
       /\ P # {}
       /\ poll' = [poll EXCEPT ![c] = [pc |-> "next", paths |-> P, walk |-> NoWalk]]
  /\ UNCHANGED <<disk, watches>>

PollStats(c) ==
  /\ poll[c].pc = "next"
  /\ \E p \in poll[c].paths :
       poll' = [poll EXCEPT ![c] = [pc |-> IF Missing(p) THEN "missing" ELSE "walk",
                                    paths |-> @.paths \ {p}, walk |-> Begin(p)]]
  /\ UNCHANGED <<disk, watches>>

PollVisits(c) ==
  /\ poll[c].pc = "walk" /\ ~WalkDone(poll[c].walk)
  /\ poll' = [poll EXCEPT ![c].walk = Visited(@)]
  /\ UNCHANGED <<disk, watches>>

PollGoesOn(c) ==
  poll' = [poll EXCEPT ![c] = IF @.paths = {} THEN Idle
                              ELSE [pc |-> "next", paths |-> @.paths, walk |-> NoWalk]]

Stored(c, p) == IF watches[c][p] = None THEN NoFiles ELSE watches[c][p]

\* Mutant: a file that was not there before is not told.
Changed_NotCreated(c, p, s) == {f \in Files : Stored(c, p)[f] \notin {0, s[f]}}

\* The files the callback is called for when the snapshot s of p is compared:
\* created, modified and deleted ones.
Changed(c, p, s) == {f \in Files : Stored(c, p)[f] # s[f]}

PollStores(c) ==
  /\ poll[c].pc = "walk" /\ WalkDone(poll[c].walk)
  /\ watches' = [watches EXCEPT ![c][poll[c].walk.path] = poll[c].walk.snap]
  /\ PollGoesOn(c)
  /\ UNCHANGED disk

\* Mutant: a path that is gone is not watched any more.
PollFindsMissing_Forget(c) ==
  /\ poll[c].pc = "missing"
  /\ watches' = [watches EXCEPT ![c][poll[c].walk.path] = None]
  /\ PollGoesOn(c)
  /\ UNCHANGED disk

\* The path is gone: unlike PollStores, this leaves an unwatched path alone.
PollFindsMissing(c) ==
  /\ poll[c].pc = "missing"
  /\ watches' = [watches EXCEPT ![c][poll[c].walk.path] =
                   IF @ = None THEN None ELSE NoFiles]
  /\ PollGoesOn(c)
  /\ UNCHANGED disk

\* The files the callback is called for by the next step of the poll.
PollReports(c) ==
  LET w == poll[c].walk IN
    CASE poll[c].pc = "walk" /\ WalkDone(w) -> Changed(c, w.path, w.snap)
      [] poll[c].pc = "missing" -> {f \in Files : Stored(c, w.path)[f] # 0}
      [] OTHER -> {}

-------------------------------------------------------------------------------
(* Watch and Unwatch, once the snapshot is taken *)

WatchStores(c, p, s) ==
  /\ watches' = [watches EXCEPT ![c][p] = s]
  /\ UNCHANGED <<disk, poll>>

UnwatchDeletes(c, p) ==
  /\ watches' = [watches EXCEPT ![c][p] = None]
  /\ UNCHANGED <<disk, poll>>

-------------------------------------------------------------------------------
\* Something in the sandbox writes or removes a file.
DiskChanges(f, t) ==
  /\ disk[f] # t
  /\ disk' = [disk EXCEPT ![f] = t]
  /\ UNCHANGED watcherVars
===============================================================================
