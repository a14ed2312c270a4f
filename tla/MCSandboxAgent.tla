--------------------------- MODULE MCSandboxAgent ---------------------------
(* Instances of SandboxAgent for TLC. *)
EXTENDS SandboxAgent, TLC

NoTarget == [k \in Keys |-> 0]
OneEach == [k \in Keys |-> 1]
\* A target for every pool but the one a mutant takes for granted.
AllButDefault == [k \in Keys |-> IF k = CHOOSE d \in Keys : TRUE THEN 0 ELSE 1]

\* A limit of n for the kinds in K, and none of the others.
Upto(n, K) == [d \in Disturbances |-> IF d \in K THEN n ELSE 0]
Calm == Upto(0, {})
Crashes == Upto(1, {"restart"})
CrashesAndFaults == Upto(1, {"restart", "fault"})
BrokenWatches == Upto(1, {"rewatch", "flap"})
Flaps == Upto(1, {"flap"})
Unreliable == Upto(1, {"restart", "rewatch", "flap"})
Failing == Upto(1, {"fault", "evict"})
Everything == Upto(1, Disturbances)

Symmetry == Permutations(Requests) \cup Permutations(Callbacks)
            \cup Permutations(SandboxIds) \cup Permutations(WarmIds)
=============================================================================
