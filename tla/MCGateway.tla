----------------------------- MODULE MCGateway -----------------------------
(* Instances of Gateway for TLC. *)
EXTENDS Gateway, TLC

CONSTANTS s1, s2, conn, other, r1, r2

\* The slots are alike: no property names one.
SlotSymmetry == Permutations(Slots)

KeyRoles == [adminKey |-> "admin", userKey |-> "user"]

SdkKeys == [c \in Sdks |-> "adminKey"]

UserAndStranger == {ApiKeyOf("userKey"), Missing}

\* A few requests with a credential, or the more that it takes for the tokens of
\* two windows to add up, which are turned away after the limiter.
CallsOrStrangers == {[calls |-> 3, strangers |-> 0, ticks |-> 4],
                    [calls |-> 0, strangers |-> 6, ticks |-> 6]}

\* A uuid cut after twelve characters has one dash in it and may end in digits.
IdTexts == [s \in SandboxIds |-> IF s = s1 THEN <<"a", "-", "80">> ELSE <<"80", "-", "a">>]

PortNumbers == [p \in {"0", "80", "99999"} |->
                  CASE p = "0" -> 0 [] p = "80" -> 80 [] p = "99999" -> 99999]
=============================================================================
