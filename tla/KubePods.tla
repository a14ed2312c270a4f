------------------------------- MODULE KubePods -------------------------------
(***************************************************************************)
(* The part of the Kubernetes API the agent relies on: the pods of the     *)
(* sandbox namespace and the stream of watch events.  None of this is code *)
(* of the repository; it is modelled from the calls of k8s/pod_manager.go. *)
(*                                                                         *)
(* A pod is named "sbx-" + id and labelled with the same id, so it is      *)
(* identified by that id.  Its labels and annotations are those given at   *)
(* creation and never change.  The pod of a uuid is created at most once.  *)
(***************************************************************************)
EXTENDS SandboxManager, Sequences, FiniteSets

VARIABLES
  pods,       \* the cluster's pods
  watching,   \* whether the agent has a watch open
  events      \* watch events sent and not yet received

\* `ip' is TRUE once the pod has been given an address, which it is before
\* it is first ready.  expiresAt 0 stands for an absent annotation.
PodRecord ==
  [phase : {"none", "live", "deleting", "gone"}, ready : BOOLEAN,
   ip : BOOLEAN, key : Keys, expiresAt : Int]

\* "update" stands for Added and Modified, which the agent treats alike.
EventRecord ==
  [type : {"update", "deleted"}, pod : PodIds, ready : BOOLEAN,
   ip : BOOLEAN, key : Keys]

KubeTypeOK ==
  /\ pods \in [PodIds -> PodRecord]
  /\ watching \in BOOLEAN
  /\ events \in Seq(EventRecord)

kubeVars == <<pods, watching, events>>

Uncreated ==
  [phase |-> "none", ready |-> FALSE, ip |-> FALSE,
   key |-> CHOOSE k \in Keys : TRUE, expiresAt |-> 0]

KubeInit ==
  /\ pods = [p \in PodIds |-> Uncreated]
  /\ watching = FALSE
  /\ events = <<>>

Exists(p) == pods[p].phase \in {"live", "deleting"}
Existing == {p \in PodIds : Exists(p)}

Event(type, p, pod) ==
  [type |-> type, pod |-> p, ready |-> pod.ready, ip |-> pod.ip, key |-> pod.key]

\* Pod p changes to `pod' and the open watch, if any, is told.
Change(type, p, pod) ==
  /\ pods' = [pods EXCEPT ![p] = pod]
  /\ events' = IF watching THEN Append(events, Event(type, p, pod)) ELSE events
  /\ UNCHANGED watching

-------------------------------------------------------------------------------
\* API calls of the agent that take effect.

KubeCreate(p, key, expiresAt) ==
  /\ pods[p].phase = "none"
  /\ Change("update", p, [phase |-> "live", ready |-> FALSE, ip |-> FALSE,
                          key |-> key, expiresAt |-> expiresAt])

\* Delete with a grace period: the pod is marked and stays until it has
\* terminated.  A second delete of a marked pod is accepted as well.
KubeDelete(p) ==
  /\ Exists(p)
  /\ IF pods[p].phase = "live"
     THEN Change("update", p, [pods[p] EXCEPT !.phase = "deleting"])
     ELSE UNCHANGED kubeVars

\* Delete with no grace period: the pod is gone at once.
KubeForceDelete(p) ==
  /\ Exists(p)
  /\ Change("deleted", p, [pods[p] EXCEPT !.phase = "gone", !.ready = FALSE])

\* A watch opened with no resource version begins with one synthetic Added
\* per existing pod, in any order; whatever the previous watch still had to
\* deliver is lost, the Deleted events in particular.
KubeOpenWatch ==
  /\ \E order \in [1..Cardinality(Existing) -> Existing] :
       /\ \A i, j \in DOMAIN order : order[i] = order[j] => i = j
       /\ events' = [i \in DOMAIN order |-> Event("update", order[i], pods[order[i]])]
  /\ watching' = TRUE
  /\ UNCHANGED pods

\* The agent process is gone and its watch with it.
KubeDropWatch ==
  /\ watching' = FALSE
  /\ events' = <<>>
  /\ UNCHANGED pods

-------------------------------------------------------------------------------
\* What the cluster does by itself.

PodBecomesReady(p) ==
  /\ pods[p].phase = "live"
  /\ ~pods[p].ready
  /\ Change("update", p, [pods[p] EXCEPT !.ready = TRUE, !.ip = TRUE])

\* The readiness probe fails, or a container exits (restartPolicy: Never).
PodLosesReadiness(p) ==
  /\ Exists(p)
  /\ pods[p].ready
  /\ Change("update", p, [pods[p] EXCEPT !.ready = FALSE])

\* Any change of the pod object that leaves its readiness alone.
PodTouched(p) ==
  /\ Exists(p)
  /\ Change("update", p, pods[p])

\* A pod marked for deletion has terminated, or a live one was evicted.
PodGone(p) ==
  /\ Exists(p)
  /\ Change("deleted", p, [pods[p] EXCEPT !.phase = "gone", !.ready = FALSE])
===============================================================================
