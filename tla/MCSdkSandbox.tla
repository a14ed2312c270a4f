----------------------------- MODULE MCSdkSandbox -----------------------------
(* Instances of SdkSandbox for TLC. *)
EXTENDS SdkSandbox

CONSTANTS e, t, w, p

OneOfEach ==
  [l \in Listeners |-> CASE l = e -> "exec" [] l = t -> "data" [] l = w -> "files"
                         [] l = p -> "ports"]
Commands == [l \in Listeners |-> "exec"]
===============================================================================
