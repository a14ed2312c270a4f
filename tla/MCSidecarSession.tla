-------------------------- MODULE MCSidecarSession --------------------------
(* Instances of SidecarSession for TLC. *)
EXTENDS SidecarSession

\* What a command may write, by pipe.
Silent == [s \in Streams |-> 0]
OneLine == [s \in Streams |-> IF s = "stdout" THEN 1 ELSE 0]
TwoOut == [s \in Streams |-> IF s = "stdout" THEN 2 ELSE 1]
=============================================================================
