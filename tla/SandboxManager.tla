---------------------------- MODULE SandboxManager ----------------------------
(***************************************************************************)
(* The agent's registry of sandboxes (agent/internal/sandbox/manager.go):  *)
(* a Go map guarded by one RWMutex.  Every method is one critical section, *)
(* hence one action on the variable `sandboxes'; SandboxAgent conjoins     *)
(* them with the program counters of the goroutines that call them.        *)
(*                                                                         *)
(* An address (PodIP) is represented by the pod that has it, and the       *)
(* template and capability set of a sandbox by the pool key they           *)
(* determine (k8s/warm_pool.go, poolSpec.Key).                             *)
(***************************************************************************)
EXTENDS Integers, Functions

CONSTANTS
  SandboxIds,   \* ids generateID can return
  WarmIds,      \* ids of pre-created pods, "warm-..." in the code
  Keys,         \* pool keys: a template with a normalised capability set
  None          \* the empty PodIP, or no id

PodIds == SandboxIds \cup WarmIds

ASSUME IdsAssumption ==
  /\ SandboxIds \cap WarmIds = {}
  /\ None \notin PodIds

VARIABLE sandboxes   \* Manager.sandboxes: id -> Sandbox

Statuses == {"starting", "running", "stopping", "stopped"}

SandboxRecord ==
  [status : Statuses, key : Keys, expiresAt : Int, podIP : PodIds \cup {None}]

\* A Go map is a function whose domain is the set of its keys.
IsMap(f, K, V) == DOMAIN f \subseteq K /\ f \in [DOMAIN f -> V]
EmptyMap == [x \in {} |-> x]
Put(f, k, v) == [x \in DOMAIN f \cup {k} |-> IF x = k THEN v ELSE f[x]]
Delete(f, k) == Restrict(f, DOMAIN f \ {k})

ManagerTypeOK == IsMap(sandboxes, SandboxIds, SandboxRecord)

ManagerInit == sandboxes = EmptyMap

Tracked == DOMAIN sandboxes

-------------------------------------------------------------------------------
Create(id, key, expiresAt) ==
  sandboxes' = Put(sandboxes, id,
                   [status |-> "starting", key |-> key,
                    expiresAt |-> expiresAt, podIP |-> None])

\* Mutant: a setter that enters an id it does not find.
SetStatus_Upsert(id, status) ==
  sandboxes' = IF id \in Tracked THEN [sandboxes EXCEPT ![id].status = status]
               ELSE Put(sandboxes, id, [status |-> status, expiresAt |-> 0,
                                        key |-> CHOOSE k \in Keys : TRUE, podIP |-> None])

\* The setters ignore an id that is not in the map.
SetStatus(id, status) ==
  sandboxes' = IF id \in Tracked
               THEN [sandboxes EXCEPT ![id].status = status] ELSE sandboxes

SetPodIP(id, ip) ==
  sandboxes' = IF id \in Tracked
               THEN [sandboxes EXCEPT ![id].podIP = ip] ELSE sandboxes

Remove(id) == sandboxes' = Delete(sandboxes, id)

ExtendTimeout(id, expiresAt) ==
  /\ id \in Tracked
  /\ sandboxes' = [sandboxes EXCEPT ![id].expiresAt = expiresAt]

\* Mutant: expired at the deadline instead of after it.
Expired_AtDeadline(t) ==
  {id \in Tracked : t >= sandboxes[id].expiresAt
                    /\ sandboxes[id].status # "stopped"}

Expired(t) ==
  {id \in Tracked : t > sandboxes[id].expiresAt
                    /\ sandboxes[id].status # "stopped"}

\* Mutant: a recovered pod is taken to be ready.
RecoveredRecord_Running(key, ip, expiresAt, ready) ==
  [status |-> "running", key |-> key, expiresAt |-> expiresAt, podIP |-> ip]

\* The record Recover stores for a pod found in the cluster at start-up.
RecoveredRecord(key, ip, expiresAt, ready) ==
  [status |-> IF ready THEN "running" ELSE "starting", key |-> key,
   expiresAt |-> expiresAt, podIP |-> ip]
===============================================================================
