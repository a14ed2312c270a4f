----------------------------- MODULE ExecChannel -----------------------------
(***************************************************************************)
(* What a client is promised of the commands it runs: after the Ack it     *)
(* receives what the command writes, each pipe in order and nothing twice; *)
(* the exit comes once, last, after everything that was ever written to    *)
(* both pipes, and carries the command's own code.  A connection that goes *)
(* away ends the channels of its commands, nothing else does.              *)
(***************************************************************************)
EXTENDS Integers, Sequences

CONSTANTS Commands, Pipes, Codes

VARIABLES
  channel,  \* command -> "idle", "open", "closed" (exit delivered) or "lost"
  made,     \* chunks the command wrote to each pipe
  got,      \* the chunks that were delivered, in order
  ended,    \* the commands that are over and left nobody behind
  code,     \* their exit codes
  told      \* the code that was delivered

vars == <<channel, made, got, ended, code, told>>

Init ==
  /\ channel = [p \in Commands |-> "idle"]
  /\ made = [p \in Commands |-> [s \in Pipes |-> 0]]
  /\ got = [p \in Commands |-> [s \in Pipes |-> <<>>]]
  /\ ended = {}
  /\ code = [p \in Commands |-> 0]
  /\ told = [p \in Commands |-> 0]

Open(p) ==
  /\ channel[p] = "idle"
  /\ channel' = [channel EXCEPT ![p] = "open"]
  /\ UNCHANGED <<made, got, ended, code, told>>

Produce(p, s) ==
  /\ p \notin ended
  /\ made' = [made EXCEPT ![p][s] = @ + 1]
  /\ UNCHANGED <<channel, got, ended, code, told>>

Deliver(p, s) ==
  /\ channel[p] = "open" /\ Len(got[p][s]) < made[p][s]
  /\ got' = [got EXCEPT ![p][s] = Append(@, Len(@) + 1)]
  /\ UNCHANGED <<channel, made, ended, code, told>>

\* Commands exit, and what they left running goes: both in any number.
End ==
  /\ ended \subseteq ended' /\ ended' \subseteq Commands
  /\ code' \in [Commands -> Codes]
  /\ \A p \in Commands : code[p] # 0 => code'[p] = code[p]
  /\ \A p \in ended' : code'[p] # 0
  /\ UNCHANGED <<channel, made, got, told>>

Close(p) ==
  /\ channel[p] = "open" /\ p \in ended
  /\ \A s \in Pipes : Len(got[p][s]) = made[p][s]
  /\ channel' = [channel EXCEPT ![p] = "closed"]
  /\ told' = [told EXCEPT ![p] = code[p]]
  /\ UNCHANGED <<made, got, ended, code>>

Lose(P) ==
  /\ channel' = [p \in Commands |-> IF p \in P /\ channel[p] = "open" THEN "lost"
                                    ELSE channel[p]]
  /\ UNCHANGED <<made, got, ended, code, told>>

Next ==
  \/ \E p \in Commands : Open(p) \/ Close(p)
  \/ \E p \in Commands, s \in Pipes : Produce(p, s) \/ Deliver(p, s)
  \/ \E P \in SUBSET Commands : Lose(P)
  \/ End

Spec == Init /\ [][Next]_vars
===============================================================================
