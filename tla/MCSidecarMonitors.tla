-------------------------- MODULE MCSidecarMonitors ---------------------------
(* Instances of SidecarMonitors for TLC. *)
EXTENDS SidecarMonitors

CONSTANTS dir, file

\* The directory holds every file, and the first is watched by itself too.
DirAndFile == [p \in Paths |-> IF p = dir THEN Files ELSE {1}]

\* Files and ports have nothing in common but the active connection.
FilesOrPorts == {[requests |-> 2, files |-> 1, ports |-> 0],
                 [requests |-> 1, files |-> 2, ports |-> 0],
                 [requests |-> 0, files |-> 0, ports |-> 4]}
===============================================================================
