--------------------------- MODULE PreviewRouter ---------------------------
(* The preview router (agent/internal/proxy/router.go).  A host name is the    *)
(* sequence of its parts, "-" among them, and the domain it ends in.           *)
EXTENDS Integers, Sequences, FiniteSetsExt

CONSTANTS
  SandboxIds,
  IdText,      \* the text of an id, a function: an id has a dash in it
  PortNumber   \* what Atoi gives for a part that is a number, a function

\* "-" is no number, and an id is its text.
ASSUME RouterAssumption ==
  /\ DOMAIN PortNumber \subseteq STRING \ {"-"}
  /\ PortNumber \in [DOMAIN PortNumber -> Nat]
  /\ \A s \in SandboxIds : IdText[s] \in Seq(STRING) \ {<<>>}
  /\ \A s, t \in SandboxIds : IdText[s] = IdText[t] => s = t

VARIABLE
  registry     \* per id: "absent", "starting" (no address yet), "running"

\* The address of a pod is the id of its sandbox.
RouterTypeOK == registry \in [SandboxIds -> {"absent", "starting", "running"}]

RouterInit == registry = [s \in SandboxIds |-> "absent"]

MaxPort == 65535

\* The ports an address can have; a preview URL is made of one of them.
PortTexts == {t \in DOMAIN PortNumber : PortNumber[t] \in 1 .. MaxPort}

PreviewURL(id, port) ==
  [domain |-> "preview", sub |-> <<"sbx", "-">> \o IdText[id] \o <<"-", port>>]

HasPrefix(sub) == Len(sub) >= 2 /\ SubSeq(sub, 1, 2) = <<"sbx", "-">>

\* Mutant: the port begins after the first dash.
LastDash_First(rest) ==
  LET dashes == {i \in 1 .. Len(rest) : rest[i] = "-"}
  IN  IF dashes = {} THEN 0 ELSE Min(dashes)

\* Where the last dash of the rest is; 0 if there is none.
LastDash(rest) ==
  LET dashes == {i \in 1 .. Len(rest) : rest[i] = "-"}
  IN  IF dashes = {} THEN 0 ELSE Max(dashes)

\* The id and the port of sbx-{id}-{port}; ok is FALSE where the code has an error.
ParseSubdomain(sub) ==
  LET rest == SubSeq(sub, 3, Len(sub))
      dash == LastDash(rest)
      id   == SubSeq(rest, 1, dash - 1)
      port == SubSeq(rest, dash + 1, Len(rest))
  IN  IF /\ HasPrefix(sub)
         /\ dash > 1
         /\ Len(port) = 1
         /\ port[1] \in PortTexts
        THEN [ok |-> TRUE, id |-> id, port |-> port[1]]
        ELSE [ok |-> FALSE, id |-> <<>>, port |-> ""]

Known(text) == {s \in SandboxIds : IdText[s] = text /\ registry[s] # "absent"}

NoTarget == [pod |-> "", port |-> ""]

\* What Handler answers itself, or the pod and the port it proxies to.
Route(host) ==
  LET parsed == ParseSubdomain(host.sub) IN
  IF host.domain # "preview" THEN [status |-> 404, target |-> NoTarget]
  ELSE IF ~parsed.ok THEN [status |-> 400, target |-> NoTarget]
  ELSE IF Known(parsed.id) = {} THEN [status |-> 404, target |-> NoTarget]
  ELSE LET s == CHOOSE x \in Known(parsed.id) : TRUE IN
       IF registry[s] = "starting" THEN [status |-> 503, target |-> NoTarget]
       ELSE [status |-> 200, target |-> [pod |-> s, port |-> parsed.port]]

-----------------------------------------------------------------------------
(* The preview URL the agent gives out for a port of a sandbox leads to that   *)
(* port of that sandbox as long as it runs, to 503 before it has an address    *)
(* and to 404 once it is gone: ids have a dash in them and may end in what     *)
(* reads as a port (router.go:96-135, manager.go:190).                         *)
PreviewReachesItsSandbox ==
  \A s \in SandboxIds, p \in PortTexts :
    Route(PreviewURL(s, p)) =
      CASE registry[s] = "running"  -> [status |-> 200, target |-> [pod |-> s, port |-> p]]
        [] registry[s] = "starting" -> [status |-> 503, target |-> NoTarget]
        [] registry[s] = "absent"   -> [status |-> 404, target |-> NoTarget]
=============================================================================
