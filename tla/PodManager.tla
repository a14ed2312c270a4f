------------------------------ MODULE PodManager ------------------------------
(***************************************************************************)
(* The agent's view of the cluster (agent/internal/k8s/pod_manager.go): a  *)
(* cache of pod information by sandbox id, filled by the watch loop and by *)
(* recovery, edited by RemapPod and by the deletes.  The cache is guarded  *)
(* by one RWMutex; every definition below is one critical section.         *)
(***************************************************************************)
EXTENDS KubePods

VARIABLE cache   \* PodManager.pods: sandbox id -> PodInfo

\* PodInfo: the pod behind the id, and what the last event said of it.
PodInfo == [pod : PodIds, ready : BOOLEAN, ip : BOOLEAN, key : Keys]

CacheTypeOK == IsMap(cache, PodIds, PodInfo)

CacheInit == cache = EmptyMap

Cached == DOMAIN cache

Info(e) == [pod |-> e.pod, ready |-> e.ready, ip |-> e.ip, key |-> e.key]

Address(info) == IF info.ip THEN info.pod ELSE None

-------------------------------------------------------------------------------
\* watchPods: an update replaces the entry of the pod's own label, whatever
\* it held; a deletion drops it.
Observe(e) ==
  cache' = IF e.type = "update" THEN Put(cache, e.pod, Info(e))
           ELSE Delete(cache, e.pod)

\* Mutant: a pod seen for the first time is taken to have been ready before.
Announces_KnownOnly(e) ==
  /\ e.type = "update"
  /\ e.ready
  /\ e.pod \in Cached /\ ~cache[e.pod].ready

\* The transition that makes the watch loop start an onReady goroutine.
Announces(e) ==
  /\ e.type = "update"
  /\ e.ready
  /\ ~(e.pod \in Cached /\ cache[e.pod].ready)

RemapPod(oldId, newId) ==
  cache' = IF oldId \in Cached
           THEN Delete(Put(cache, newId, cache[oldId]), oldId)
           ELSE cache

\* The last section of DeletePod and ForceDeletePod.
Forget(id) == cache' = Delete(cache, id)

\* RecoverExistingPods lists every pod, terminating ones included, and skips
\* those whose label has the "warm-" prefix.
Recoverable == {p \in SandboxIds : Exists(p)}

RecoverCache ==
  cache' = [p \in Recoverable |->
              [pod |-> p, ready |-> pods[p].ready, ip |-> pods[p].ip,
               key |-> pods[p].key]]
===============================================================================
