--------------------------- MODULE SandboxAgentKeys ---------------------------
(***************************************************************************)
(* Two theorems about SandboxAgent for every value of its constants: an id *)
(* that has left the registry does not come back, and the pod that serves  *)
(* a sandbox has the template and the capabilities the sandbox asked for.  *)
(*                                                                         *)
(* ExactMatch is not inductive: the address a handler stores was read from *)
(* the cache two steps before, the cache was filled from events sent       *)
(* earlier still.  KeyInv says of every place a pod's key or address is    *)
(* held on its way to the registry that it agrees with the pod.            *)
(***************************************************************************)
EXTENDS SandboxAgentProofs

Created(p) == pods[p].phase # "none"

\* Pod p was created with this key.
Keyed(p, key) == Created(p) /\ pods[p].key = key

\* If the registry holds id, it is with this key.
Assigned(id, key) == id \in Tracked => sandboxes[id].key = key

SandboxesKeyed ==
  \A id \in Tracked :
    /\ id \in issued
    /\ sandboxes[id].podIP # None => Keyed(sandboxes[id].podIP, sandboxes[id].key)

PodsKeyed ==
  \A id \in SandboxIds : Created(id) => id \in issued /\ Assigned(id, pods[id].key)

EventsKeyed == \A i \in DOMAIN events : Keyed(events[i].pod, events[i].key)

CacheKeyed ==
  \A id \in Cached :
    /\ Keyed(cache[id].pod, cache[id].key)
    /\ id \in WarmIds => cache[id].pod = id
    /\ id \in SandboxIds => id \in issued /\ Assigned(id, cache[id].key)

PoolKeyed == \A k \in Keys : \A i \in DOMAIN pool[k] : Keyed(pool[k][i], k)

\* The phases of a create request with an address read and not yet stored.
Addressed == {"remap", "setip"}

RequestsKeyed ==
  \A r \in Requests :
    /\ requests[r].pc \in Creating => Assigned(requests[r].id, requests[r].key)
    /\ requests[r].pc \in Claimed => Keyed(requests[r].warm, requests[r].key)
    /\ requests[r].pc \in Addressed /\ requests[r].ip # None =>
         Keyed(requests[r].ip, requests[r].key)

CallbacksKeyed ==
  \A c \in Callbacks :
    /\ callbacks[c].pc # "idle" => Created(callbacks[c].id)
    /\ callbacks[c].pc = "setip" =>
         /\ callbacks[c].id \in SandboxIds
         /\ callbacks[c].ip # None =>
              /\ Created(callbacks[c].ip)
              /\ Assigned(callbacks[c].id, pods[callbacks[c].ip].key)
    /\ callbacks[c].pc \in {"dial", "store", "mark"} /\ callbacks[c].id \in WarmIds =>
         pods[callbacks[c].id].key = callbacks[c].key

\* While the agent is down nothing of it runs.
DownIsQuiet ==
  agent = "down" =>
    /\ ~watching
    /\ \A r \in Requests : requests[r].pc = "idle"
    /\ \A c \in Callbacks : callbacks[c].pc = "idle"

KeyInv ==
  /\ SandboxesKeyed /\ PodsKeyed /\ EventsKeyed /\ CacheKeyed /\ PoolKeyed
  /\ RequestsKeyed /\ CallbacksKeyed /\ DownIsQuiet

-------------------------------------------------------------------------------
(* What no step of the running agent undoes.                                *)

\* A pod that was created stays created, with the key it was given.
PodsStay ==
  \A p \in PodIds : Created(p) => Created(p)' /\ pods'[p].key = pods[p].key

\* An id given out never enters the registry again nor changes its key.
SandboxesStay ==
  \A id \in issued : id \in Tracked' => id \in Tracked /\ sandboxes'[id].key = sandboxes[id].key

\* A change of a pod that exists keeps its key.
LEMMA ChangeStays ==
  ASSUME KubeTypeOK, NEW type, NEW p \in PodIds, NEW pod,
         Change(type, p, pod), pod.phase # "none",
         Created(p) => pod.key = pods[p].key
  PROVE  PodsStay
BY DEF Change, PodsStay, Created, KubeTypeOK

\* So do the agent's calls to the API server.
LEMMA KubeCallsStay ==
  ASSUME KubeTypeOK, NEW p \in PodIds
  PROVE  /\ \A k, t : KubeCreate(p, k, t) => PodsStay
         /\ KubeDelete(p) => PodsStay
         /\ KubeForceDelete(p) => PodsStay
         /\ PodBecomesReady(p) => PodsStay
         /\ PodLosesReadiness(p) => PodsStay
         /\ PodTouched(p) => PodsStay
         /\ PodGone(p) => PodsStay
         /\ UNCHANGED pods => PodsStay
<1>0. pods[p] \in PodRecord
  BY DEF KubeTypeOK
<1>1. ASSUME NEW k, NEW t, KubeCreate(p, k, t)
      PROVE  PodsStay
  BY <1>1, ChangeStays DEF KubeCreate, Created
<1>2. UNCHANGED pods => PodsStay
  BY DEF PodsStay, Created
<1>3. KubeDelete(p) => PodsStay
  BY <1>0, <1>2, ChangeStays DEF KubeDelete, Created, kubeVars, PodRecord
<1>4. /\ KubeForceDelete(p) => PodsStay
      /\ PodGone(p) => PodsStay
  BY <1>0, ChangeStays DEF KubeForceDelete, PodGone, PodRecord
<1>5. /\ PodBecomesReady(p) => PodsStay
      /\ PodLosesReadiness(p) => PodsStay
      /\ PodTouched(p) => PodsStay
  BY <1>0, ChangeStays DEF PodBecomesReady, PodLosesReadiness, PodTouched, Exists, PodRecord
<1> QED BY <1>1, <1>2, <1>3, <1>4, <1>5

\* The calls of the manager keep the keys of its sandboxes.
LEMMA ManagerCallsStay ==
  ASSUME ManagerTypeOK
  PROVE  /\ \A id, k, t : id \notin issued /\ Create(id, k, t) => SandboxesStay
         /\ \A id, s : SetStatus(id, s) => SandboxesStay
         /\ \A id, ip : SetPodIP(id, ip) => SandboxesStay
         /\ \A id : Remove(id) => SandboxesStay
         /\ \A id, t : ExtendTimeout(id, t) => SandboxesStay
         /\ UNCHANGED sandboxes => SandboxesStay
<1> USE DEF ManagerTypeOK, IsMap, SandboxRecord, SandboxesStay, Tracked
<1>1. ASSUME NEW id, NEW k, NEW t, id \notin issued, Create(id, k, t)
      PROVE  SandboxesStay
  BY <1>1 DEF Create, Put
<1>2. ASSUME NEW id, NEW s, SetStatus(id, s)
      PROVE  SandboxesStay
  BY <1>2 DEF SetStatus
<1>3. ASSUME NEW id, NEW ip, SetPodIP(id, ip)
      PROVE  SandboxesStay
  BY <1>3 DEF SetPodIP
<1>4. ASSUME NEW id, Remove(id)
      PROVE  SandboxesStay
  BY <1>4 DEF Remove, Delete, Restrict
<1>5. ASSUME NEW id, NEW t, ExtendTimeout(id, t)
      PROVE  SandboxesStay
  BY <1>5 DEF ExtendTimeout
<1>6. UNCHANGED sandboxes => SandboxesStay
  OBVIOUS
<1> QED BY <1>1, <1>2, <1>3, <1>4, <1>5, <1>6

\* No step forgets a pod, and none but recovery brings an id back.
LEMMA StepsStay ==
  ASSUME TypeInv, [Next]_vars
  PROVE  /\ PodsStay
         /\ SandboxesStay \/ \E dialed \in SUBSET SandboxIds : Recovery(dialed)
         /\ issued \subseteq issued'
<1> USE DEF SharedOK
<1>0. SharedOK /\ RequestsOK /\ ReaperOK
  BY TypeInvParts
<1>U. /\ UNCHANGED kube => PodsStay
      /\ KubeDropWatch => PodsStay
      /\ UNCHANGED issued => issued \subseteq issued'
  BY DEF kube, PodsStay, Created, KubeDropWatch
<1>1. CASE Client
  BY <1>0, <1>1, <1>U, ManagerCallsStay DEF Client, CreateRequest, DeleteRequest, Keepalive, history
<1>2. ASSUME NEW r \in Requests, RequestStep(r)
      PROVE  PodsStay /\ SandboxesStay /\ UNCHANGED issued
  <2>1. requests[r].pc # "idle" => requests[r].id \in PodIds
    BY <1>0 DEF RequestsOK, RequestSlots, PodIds
  <2>2. PodsStay
    BY <1>0, <1>2, <1>U, <2>1, KubeCallsStay
       DEF RequestStep, ClaimWarm, ClaimNothing, ClaimInfo, ClaimRemap, ClaimSetIP, ClaimDone,
           ColdCreate, ColdCreateFails, CreateRollback, DeletePod, DeletePodFails, DeleteForget,
           DeleteDisconnect, DeleteStop, DeleteRemove
  <2>3. SandboxesStay
    BY <1>0, <1>2, ManagerCallsStay
       DEF RequestStep, ClaimWarm, ClaimNothing, ClaimInfo, ClaimRemap, ClaimSetIP, ClaimDone,
           ColdCreate, ColdCreateFails, CreateRollback, DeletePod, DeletePodFails, DeleteForget,
           DeleteDisconnect, DeleteStop, DeleteRemove
  <2>4. UNCHANGED issued
    BY <1>0, <1>2, RequestType, TypeInvParts
       DEF RequestStep, ClaimWarm, ClaimNothing, ClaimInfo, ClaimRemap, ClaimSetIP, ClaimDone,
           ColdCreate, ColdCreateFails, CreateRollback, DeletePod, DeletePodFails, DeleteForget,
           DeleteDisconnect, DeleteStop, DeleteRemove, history
  <2> QED BY <2>2, <2>3, <2>4
<1>3. ASSUME NEW c \in Callbacks, CallbackStep(c)
      PROVE  PodsStay /\ SandboxesStay /\ UNCHANGED issued
  <2>1. SandboxesStay
    BY <1>0, <1>3, ManagerCallsStay
       DEF CallbackStep, CallbackSkips, CallbackBegins, CallbackInfo, CallbackSetIP, CallbackDials,
           CallbackDialFails, CallbackStores, CallbackMarks
  <2> QED BY <1>3, <1>U, <2>1, CallbackType, TypeInvParts DEF CallbackStep
<1>4. ASSUME NEW f \in Fillers, FillStep(f)
      PROVE  PodsStay /\ SandboxesStay /\ UNCHANGED issued
  BY <1>0, <1>4, <1>U, KubeCallsStay, ManagerCallsStay
     DEF FillStep, FillCount, FillCreate, FillFails, history, PodIds
<1>5. CASE ReaperStep
  <2>1. SandboxIds \subseteq PodIds
    BY DEF PodIds
  <2>2. PodsStay
    BY <1>0, <1>5, <1>U, <2>1, KubeCallsStay
       DEF ReaperStep, ReaperTick, ReaperForces, ReaperForceFails, ReaperStops, ReaperForceForgets,
           ReaperScans, ReaperDeletes, ReaperDeleteFails, ReaperForgets, ReaperDisconnects,
           ReaperRemoves, ReaperOK, ReaperSlot
  <2>3. SandboxesStay
    BY <1>0, <1>5, ManagerCallsStay
       DEF ReaperStep, ReaperTick, ReaperForces, ReaperForceFails, ReaperStops, ReaperForceForgets,
           ReaperScans, ReaperDeletes, ReaperDeleteFails, ReaperForgets, ReaperDisconnects,
           ReaperRemoves
  <2> QED BY <1>5, <1>U, <2>2, <2>3 DEF ReaperStep, history
<1>6. CASE WatchLoop
  <2>1. UNCHANGED pods
    BY <1>6 DEF WatchLoop, WatchStep, WatchOpens, WatchBreaks, KubeOpenWatch, KubeDropWatch
  <2> QED BY <1>0, <1>6, <1>U, <2>1, ManagerCallsStay DEF WatchLoop, history, PodsStay, Created
<1>7. CASE Boot
  BY <1>0, <1>7, <1>U, ManagerCallsStay DEF Boot, Recovery, RecoveryFails, BootFill, BootServe, history
<1>8. CASE Crash
  BY <1>8, <1>U DEF Crash, history, SandboxesStay, Tracked, EmptyMap
<1>9. ASSUME NEW p \in PodIds, PodStep(p)
      PROVE  PodsStay /\ SandboxesStay /\ UNCHANGED issued
  BY <1>0, <1>9, KubeCallsStay, ManagerCallsStay DEF PodStep, agentVars, history
<1>10. CASE Tick \/ UNCHANGED vars
  BY <1>0, <1>10, <1>U, ManagerCallsStay DEF Tick, agentVars, vars, history
<1> QED BY <1>1, <1>2, <1>3, <1>4, <1>5, <1>6, <1>7, <1>8, <1>9, <1>10 DEF Next

\* While the agent runs, an id that has left the registry never comes back
\* (manager.go:89-111: the setters ignore unknown ids, and Create draws a
\* fresh one).
THEOREM NeverResurrected == Spec => NoResurrection
<1>1. TypeInv /\ [Next]_vars =>
        (agent # "down" => \A id \in issued : id \notin Tracked => id \notin Tracked')
  BY StepsStay DEF SandboxesStay, Recovery
<1>2. TypeInv /\ [Next]_vars =>
        [agent # "down" => \A id \in issued : id \notin Tracked => id \notin Tracked']_vars
  BY <1>1
<1> QED BY <1>2, TypeCorrect, PTL DEF Spec, NoResurrection

-------------------------------------------------------------------------------
(* ExactMatch.                                                              *)

\* What is in the watch's queue are events of pods.
LEMMA EventTypes ==
  ASSUME KubeTypeOK, NEW i \in DOMAIN events
  PROVE  events[i] \in EventRecord /\ events[i].pod \in PodIds
<1>1. events[i] \in EventRecord
  BY DEF KubeTypeOK
<1> QED BY <1>1 DEF EventRecord

\* A part of KeyInv whose own variables do not change is kept.
LEMMA PartsKept ==
  ASSUME TypeInv, TypeInv', KeyInv, PodsStay, SandboxesStay, issued \subseteq issued'
  PROVE  /\ UNCHANGED sandboxes => SandboxesKeyed'
         /\ UNCHANGED pods => PodsKeyed'
         /\ UNCHANGED events => EventsKeyed'
         /\ UNCHANGED cache => CacheKeyed'
         /\ UNCHANGED pool => PoolKeyed'
         /\ UNCHANGED requests => RequestsKeyed'
         /\ UNCHANGED callbacks => CallbacksKeyed'
         /\ UNCHANGED <<agent, watching, requests, callbacks>> => DownIsQuiet'
<1>0. /\ SharedOK /\ RequestsOK /\ CallbacksOK
      /\ SandboxIds \subseteq PodIds /\ WarmIds \subseteq PodIds
  BY TypeInvParts DEF PodIds
<1>K. ASSUME NEW p \in PodIds, NEW key, Keyed(p, key)
      PROVE  pods'[p].phase # "none" /\ pods'[p].key = key
  BY <1>K DEF PodsStay, Keyed, Created
<1>A. ASSUME NEW id \in issued, NEW key, Assigned(id, key)
      PROVE  id \in Tracked' => sandboxes'[id].key = key
  BY <1>A DEF SandboxesStay, Assigned
<1>1. ASSUME UNCHANGED sandboxes
      PROVE  SandboxesKeyed'
  <2>1. ASSUME NEW id \in Tracked
        PROVE  sandboxes[id].podIP \in PodIds \cup {None}
    BY <1>0, <2>1 DEF SharedOK, ManagerTypeOK, IsMap, SandboxRecord, Tracked
  <2> QED BY <1>1, <1>K, <2>1 DEF SandboxesKeyed, KeyInv, Tracked, Keyed, Created
<1>2. ASSUME UNCHANGED pods
      PROVE  PodsKeyed'
  BY <1>2, <1>A DEF PodsKeyed, KeyInv, Created, Assigned, Tracked
<1>3. ASSUME UNCHANGED events
      PROVE  EventsKeyed'
  <2>1. ASSUME NEW i \in DOMAIN events
        PROVE  events[i].pod \in PodIds
    BY <1>0, <2>1, EventTypes DEF SharedOK
  <2>2. ASSUME NEW i \in DOMAIN events
        PROVE  Keyed(events[i].pod, events[i].key)
    BY <2>2 DEF KeyInv, EventsKeyed
  <2> QED BY <1>3, <1>K, <2>1, <2>2 DEF EventsKeyed, Keyed, Created
<1>4. ASSUME UNCHANGED cache
      PROVE  CacheKeyed'
  <2>1. ASSUME NEW id \in Cached
        PROVE  cache[id].pod \in PodIds
    BY <1>0, <2>1 DEF SharedOK, CacheTypeOK, IsMap, PodInfo, Cached
  <2>2. ASSUME NEW id \in Cached
        PROVE  /\ Keyed(cache[id].pod, cache[id].key)
               /\ id \in WarmIds => cache[id].pod = id
               /\ id \in SandboxIds => id \in issued /\ Assigned(id, cache[id].key)
    BY <2>2 DEF KeyInv, CacheKeyed
  <2> QED BY <1>4, <1>K, <1>A, <2>1, <2>2 DEF CacheKeyed, Cached, Keyed, Created, Assigned, Tracked
<1>5. ASSUME UNCHANGED pool
      PROVE  PoolKeyed'
  <2>1. ASSUME NEW k \in Keys, NEW i \in DOMAIN pool[k]
        PROVE  pool[k][i] \in PodIds
    BY <1>0, <2>1 DEF SharedOK, PoolTypeOK
  <2> QED BY <1>5, <1>K, <2>1 DEF PoolKeyed, KeyInv, Keyed, Created
<1>6. ASSUME UNCHANGED requests
      PROVE  RequestsKeyed'
  <2>1. ASSUME NEW r \in Requests
        PROVE  /\ requests[r].pc \in Creating => requests[r].id \in issued
               /\ requests[r].pc \in Claimed => requests[r].warm \in PodIds
               /\ requests[r].ip # None => requests[r].ip \in PodIds
    BY <1>0, <2>1 DEF RequestsOK, RequestSlots, RequestRecord, Creating
  <2>2. ASSUME NEW r \in Requests
        PROVE  /\ requests[r].pc \in Creating => Assigned(requests[r].id, requests[r].key)
               /\ requests[r].pc \in Claimed => Keyed(requests[r].warm, requests[r].key)
               /\ requests[r].pc \in Addressed /\ requests[r].ip # None =>
                    Keyed(requests[r].ip, requests[r].key)
    BY <2>2 DEF KeyInv, RequestsKeyed
  <2>3. ASSUME NEW r \in Requests
        PROVE  /\ requests[r].pc \in Creating =>
                    (requests[r].id \in Tracked' =>
                       sandboxes'[requests[r].id].key = requests[r].key)
               /\ requests[r].pc \in Claimed =>
                    /\ pods'[requests[r].warm].phase # "none"
                    /\ pods'[requests[r].warm].key = requests[r].key
               /\ requests[r].pc \in Addressed /\ requests[r].ip # None =>
                    /\ pods'[requests[r].ip].phase # "none"
                    /\ pods'[requests[r].ip].key = requests[r].key
    BY <1>K, <1>A, <2>1, <2>2
  <2> QED BY <1>6, <2>3 DEF RequestsKeyed, Keyed, Created, Assigned, Tracked
<1>7. ASSUME UNCHANGED callbacks
      PROVE  CallbacksKeyed'
  <2> SUFFICES ASSUME NEW c \in Callbacks
               PROVE  /\ callbacks[c].pc # "idle" => Created(callbacks[c].id)'
                      /\ callbacks[c].pc = "setip" =>
                           /\ callbacks[c].id \in SandboxIds
                           /\ callbacks[c].ip # None =>
                                /\ Created(callbacks[c].ip)'
                                /\ callbacks[c].id \in Tracked' =>
                                     sandboxes'[callbacks[c].id].key = pods'[callbacks[c].ip].key
                      /\ callbacks[c].pc \in {"dial", "store", "mark"} /\ callbacks[c].id \in WarmIds =>
                           pods'[callbacks[c].id].key = callbacks[c].key
    BY <1>7 DEF CallbacksKeyed, Created, Assigned, Tracked
  <2>1. /\ callbacks[c].pc # "idle" => callbacks[c].id \in PodIds
        /\ callbacks[c].ip # None => callbacks[c].ip \in PodIds
    BY <1>0 DEF CallbacksOK, CallbackSlots, CallbackRecord
  <2>2. /\ callbacks[c].pc # "idle" => Created(callbacks[c].id)
        /\ callbacks[c].pc = "setip" =>
             /\ callbacks[c].id \in SandboxIds
             /\ callbacks[c].ip # None =>
                  /\ Created(callbacks[c].ip)
                  /\ Assigned(callbacks[c].id, pods[callbacks[c].ip].key)
        /\ callbacks[c].pc \in {"dial", "store", "mark"} /\ callbacks[c].id \in WarmIds =>
             pods[callbacks[c].id].key = callbacks[c].key
    BY DEF KeyInv, CallbacksKeyed
  <2>3. callbacks[c].pc # "idle" /\ callbacks[c].id \in SandboxIds => callbacks[c].id \in issued
    BY <2>2 DEF KeyInv, PodsKeyed
  <2>4. /\ callbacks[c].pc # "idle" => Created(callbacks[c].id)'
        /\ callbacks[c].pc = "setip" /\ callbacks[c].ip # None =>
             /\ Created(callbacks[c].ip)'
             /\ pods'[callbacks[c].ip].key = pods[callbacks[c].ip].key
        /\ callbacks[c].pc \in {"dial", "store", "mark"} /\ callbacks[c].id \in WarmIds =>
             pods'[callbacks[c].id].key = pods[callbacks[c].id].key
    BY <1>7, <2>1, <2>2 DEF PodsStay, Created
  <2> QED BY <1>A, <2>2, <2>3, <2>4
<1>8. ASSUME UNCHANGED <<agent, watching, requests, callbacks>>
      PROVE  DownIsQuiet'
  BY <1>8 DEF KeyInv, DownIsQuiet
<1> QED BY <1>1, <1>2, <1>3, <1>4, <1>5, <1>6, <1>7, <1>8

\* A change the cluster makes or takes keeps what is known of pods and events,
\* and so does a creation that agrees with the registry.
LEMMA KubeKeyed ==
  ASSUME TypeInv, TypeInv', KeyInv, PodsStay, SandboxesStay, issued \subseteq issued',
         NEW p \in PodIds
  PROVE  /\ \A k \in Keys, t \in Int :
               /\ KubeCreate(p, k, t)
               /\ p \in SandboxIds => p \in issued /\ Assigned(p, k)
               => PodsKeyed' /\ EventsKeyed'
         /\ KubeDelete(p) => PodsKeyed' /\ EventsKeyed'
         /\ KubeForceDelete(p) => PodsKeyed' /\ EventsKeyed'
         /\ PodBecomesReady(p) => PodsKeyed' /\ EventsKeyed'
         /\ PodLosesReadiness(p) => PodsKeyed' /\ EventsKeyed'
         /\ PodTouched(p) => PodsKeyed' /\ EventsKeyed'
         /\ PodGone(p) => PodsKeyed' /\ EventsKeyed'
<1>0. SharedOK /\ pods[p] \in PodRecord
  BY TypeInvParts DEF SharedOK, KubeTypeOK
<1>A. ASSUME NEW id \in issued, NEW key, Assigned(id, key)
      PROVE  id \in Tracked' => sandboxes'[id].key = key
  BY <1>A DEF SandboxesStay, Assigned
<1>1. ASSUME NEW type, NEW pod, Change(type, p, pod), pod.phase # "none",
             Created(p) => pod.key = pods[p].key,
             p \in SandboxIds => p \in issued /\ Assigned(p, pod.key)
      PROVE  PodsKeyed' /\ EventsKeyed'
  <2>0. /\ pods'[p] = pod
        /\ \A q \in PodIds : q # p => pods'[q] = pods[q]
    BY <1>0, <1>1 DEF Change, SharedOK, KubeTypeOK
  <2>1. PodsKeyed'
    <3> SUFFICES ASSUME NEW id \in SandboxIds, pods'[id].phase # "none"
                 PROVE  id \in issued /\ (id \in Tracked' => sandboxes'[id].key = pods'[id].key)
      BY DEF PodsKeyed, Assigned, Created, Tracked
    <3>1. CASE id = p
      BY <1>1, <1>A, <2>0, <3>1
    <3>2. CASE id # p
      <4>1. pods'[id] = pods[id]
        BY <2>0, <3>2 DEF PodIds
      <4>2. id \in issued /\ Assigned(id, pods[id].key)
        BY <4>1 DEF KeyInv, PodsKeyed, Created
      <4> QED BY <1>A, <4>1, <4>2
    <3> QED BY <3>1, <3>2
  <2>2. EventsKeyed'
    <3>1. ASSUME NEW i \in DOMAIN events
          PROVE  /\ pods'[events[i].pod].phase # "none"
                 /\ pods'[events[i].pod].key = events[i].key
      <4>1. events[i].pod \in PodIds
        BY <1>0, <3>1, EventTypes DEF SharedOK
      <4>2. Keyed(events[i].pod, events[i].key)
        BY <3>1 DEF KeyInv, EventsKeyed
      <4> QED BY <4>1, <4>2 DEF PodsStay, Keyed, Created
    <3>2. CASE UNCHANGED events
      BY <3>1, <3>2 DEF EventsKeyed, Keyed, Created
    <3>3. CASE events' = Append(events, Event(type, p, pod))
      <4>1. /\ events \in Seq(EventRecord)
            /\ Event(type, p, pod).pod = p /\ Event(type, p, pod).key = pod.key
        BY <1>0 DEF SharedOK, KubeTypeOK, Event
      <4> HIDE DEF Event
      <4> QED BY <1>1, <2>0, <3>1, <3>3, <4>1 DEF EventsKeyed, Keyed, Created
    <3> QED BY <1>1, <3>2, <3>3 DEF Change
  <2> QED BY <2>1, <2>2
<1>2. ASSUME NEW k \in Keys, NEW t \in Int, KubeCreate(p, k, t),
             p \in SandboxIds => p \in issued /\ Assigned(p, k)
      PROVE  PodsKeyed' /\ EventsKeyed'
  BY <1>1, <1>2 DEF KubeCreate, Created
<1>3. Exists(p) => /\ Created(p)
                   /\ p \in SandboxIds => p \in issued /\ Assigned(p, pods[p].key)
  BY DEF Exists, Created, KeyInv, PodsKeyed
<1>4. KubeDelete(p) => PodsKeyed' /\ EventsKeyed'
  BY <1>0, <1>1, <1>3, PartsKept DEF KubeDelete, kubeVars, PodRecord
<1>5. /\ KubeForceDelete(p) => PodsKeyed' /\ EventsKeyed'
      /\ PodGone(p) => PodsKeyed' /\ EventsKeyed'
  BY <1>0, <1>1, <1>3 DEF KubeForceDelete, PodGone, PodRecord
<1>6. /\ PodBecomesReady(p) => PodsKeyed' /\ EventsKeyed'
      /\ PodLosesReadiness(p) => PodsKeyed' /\ EventsKeyed'
      /\ PodTouched(p) => PodsKeyed' /\ EventsKeyed'
  BY <1>0, <1>1, <1>3 DEF PodBecomesReady, PodLosesReadiness, PodTouched, PodRecord, Exists, Created
<1> QED BY <1>2, <1>4, <1>5, <1>6

\* The assumptions under which each kind of step is considered below.
Stays == /\ TypeInv /\ TypeInv' /\ KeyInv
         /\ PodsStay /\ SandboxesStay /\ issued \subseteq issued'

\* What a change of the registry must respect to keep SandboxesKeyed.
LEMMA SandboxKeyed ==
  ASSUME Stays
  PROVE  /\ \A id \in SandboxIds : \A k, t : Create(id, k, t) /\ id \in issued' => SandboxesKeyed'
         /\ \A id, s : SetStatus(id, s) => SandboxesKeyed'
         /\ \A id, ip : /\ SetPodIP(id, ip)
                        /\ id \in Tracked /\ ip # None =>
                             ip \in PodIds /\ Created(ip) /\ Assigned(id, pods[ip].key)
                        => SandboxesKeyed'
         /\ \A id : Remove(id) => SandboxesKeyed'
         /\ \A id, t : ExtendTimeout(id, t) => SandboxesKeyed'
         /\ UNCHANGED sandboxes => SandboxesKeyed'
<1>0. SharedOK
  BY TypeInvParts DEF Stays
<1>1. ASSUME NEW id \in Tracked
      PROVE  /\ id \in issued'
             /\ sandboxes[id].podIP # None =>
                  /\ pods'[sandboxes[id].podIP].phase # "none"
                  /\ pods'[sandboxes[id].podIP].key = sandboxes[id].key
  <2>1. sandboxes[id].podIP \in PodIds \cup {None}
    BY <1>0, <1>1 DEF SharedOK, ManagerTypeOK, IsMap, SandboxRecord, Tracked
  <2>2. id \in issued /\ (sandboxes[id].podIP # None => Keyed(sandboxes[id].podIP, sandboxes[id].key))
    BY <1>1 DEF Stays, KeyInv, SandboxesKeyed
  <2> QED BY <2>1, <2>2 DEF Stays, PodsStay, Keyed, Created
<1>2. /\ sandboxes \in [DOMAIN sandboxes -> SandboxRecord]
      /\ Tracked = DOMAIN sandboxes /\ Tracked' = DOMAIN sandboxes'
  BY <1>0 DEF SharedOK, ManagerTypeOK, IsMap, Tracked
<1> USE DEF SandboxesKeyed, Keyed, Created
<1>3. ASSUME NEW id \in SandboxIds, NEW k, NEW t, Create(id, k, t), id \in issued'
      PROVE  SandboxesKeyed'
  BY <1>1, <1>2, <1>3 DEF Create, Put
<1>4. ASSUME NEW id, NEW s, SetStatus(id, s)
      PROVE  SandboxesKeyed'
  BY <1>1, <1>2, <1>4 DEF SetStatus, SandboxRecord
<1>5. ASSUME NEW id, NEW ip, SetPodIP(id, ip),
             id \in Tracked /\ ip # None =>
               ip \in PodIds /\ Created(ip) /\ Assigned(id, pods[ip].key)
      PROVE  SandboxesKeyed'
  <2>1. id \in Tracked /\ ip # None =>
          pods'[ip].phase # "none" /\ pods'[ip].key = sandboxes[id].key
    BY <1>5 DEF Stays, PodsStay, Assigned
  <2> QED BY <1>1, <1>2, <1>5, <2>1 DEF SetPodIP, SandboxRecord
<1>6. ASSUME NEW id, Remove(id)
      PROVE  SandboxesKeyed'
  BY <1>1, <1>2, <1>6 DEF Remove, Delete, Restrict
<1>7. ASSUME NEW id, NEW t, ExtendTimeout(id, t)
      PROVE  SandboxesKeyed'
  BY <1>1, <1>2, <1>7 DEF ExtendTimeout, SandboxRecord
<1> QED BY <1>3, <1>4, <1>5, <1>6, <1>7, PartsKept DEF Stays

\* ... a change of the cache, to keep CacheKeyed ...
LEMMA CacheCallsKeyed ==
  ASSUME Stays
  PROVE  /\ \A i \in DOMAIN events : Observe(events[i]) => CacheKeyed'
         /\ \A old \in WarmIds, new \in issued :
              /\ RemapPod(old, new)
              /\ old \in Cached => Assigned(new, cache[old].key)
              => CacheKeyed'
         /\ \A id : Forget(id) => CacheKeyed'
         /\ UNCHANGED cache => CacheKeyed'
<1>0. SharedOK
  BY TypeInvParts DEF Stays
<1>A. ASSUME NEW id \in issued, NEW key, Assigned(id, key)
      PROVE  id \in Tracked' => sandboxes'[id].key = key
  BY <1>A DEF Stays, SandboxesStay, Assigned
<1>1. ASSUME NEW id \in Cached
      PROVE  /\ pods'[cache[id].pod].phase # "none"
             /\ pods'[cache[id].pod].key = cache[id].key
             /\ id \in WarmIds => cache[id].pod = id
             /\ id \in SandboxIds => id \in issued' /\ (id \in Tracked' => sandboxes'[id].key = cache[id].key)
  <2>1. cache[id].pod \in PodIds
    BY <1>0, <1>1 DEF SharedOK, CacheTypeOK, IsMap, PodInfo, Cached
  <2>2. /\ Keyed(cache[id].pod, cache[id].key)
        /\ id \in WarmIds => cache[id].pod = id
        /\ id \in SandboxIds => id \in issued /\ Assigned(id, cache[id].key)
    BY <1>1 DEF Stays, KeyInv, CacheKeyed
  <2> QED BY <1>A, <2>1, <2>2 DEF Stays, PodsStay, Keyed, Created
<1>2. /\ cache \in [DOMAIN cache -> PodInfo]
      /\ Cached = DOMAIN cache /\ Cached' = DOMAIN cache'
  BY <1>0 DEF SharedOK, CacheTypeOK, IsMap, Cached
<1> USE DEF CacheKeyed, Keyed, Created, Assigned
<1>3. ASSUME NEW i \in DOMAIN events, Observe(events[i])
      PROVE  CacheKeyed'
  <2>1. events[i].pod \in PodIds
    BY <1>0, EventTypes DEF SharedOK
  <2>2. Keyed(events[i].pod, events[i].key)
    BY DEF Stays, KeyInv, EventsKeyed
  <2>3. pods'[events[i].pod].phase # "none" /\ pods'[events[i].pod].key = events[i].key
    BY <2>1, <2>2 DEF Stays, PodsStay
  <2>4. events[i].pod \in SandboxIds =>
          /\ events[i].pod \in issued'
          /\ events[i].pod \in Tracked' => sandboxes'[events[i].pod].key = events[i].key
    <3>1. ASSUME events[i].pod \in SandboxIds
          PROVE  events[i].pod \in issued /\ Assigned(events[i].pod, events[i].key)
      BY <2>2, <3>1 DEF Stays, KeyInv, PodsKeyed
    <3> QED BY <1>A, <3>1 DEF Stays
  <2>5. Info(events[i]).pod = events[i].pod /\ Info(events[i]).key = events[i].key
    BY DEF Info
  <2>6. CASE cache' = Put(cache, events[i].pod, Info(events[i]))
    <3>1. DOMAIN cache' = DOMAIN cache \cup {events[i].pod}
      BY <2>6 DEF Put
    <3>2. \A x \in DOMAIN cache' :
            cache'[x] = IF x = events[i].pod THEN Info(events[i]) ELSE cache[x]
      BY <2>6 DEF Put
    <3> QED BY <1>1, <1>2, <2>3, <2>4, <2>5, <3>1, <3>2
  <2>7. CASE cache' = Delete(cache, events[i].pod)
    BY <1>1, <1>2, <2>7 DEF Delete, Restrict
  <2> QED BY <1>3, <2>6, <2>7 DEF Observe
<1>4. ASSUME NEW old \in WarmIds, NEW new \in issued, RemapPod(old, new),
             old \in Cached => Assigned(new, cache[old].key)
      PROVE  CacheKeyed'
  <2>1. CASE old \in Cached
    <3>1. new \in Tracked' => sandboxes'[new].key = cache[old].key
      BY <1>4, <1>A, <2>1
    <3>2. new \notin WarmIds /\ new \in issued'
      BY <1>0, IdsAssumption DEF SharedOK, Stays
    <3>3. /\ DOMAIN cache' \subseteq Cached \cup {new}
          /\ \A x \in DOMAIN cache' : cache'[x] = IF x = new THEN cache[old] ELSE cache[x]
      BY <1>2, <1>4, <2>1 DEF RemapPod, Put, Delete, Restrict
    <3> QED BY <1>1, <1>2, <2>1, <3>1, <3>2, <3>3
  <2>2. CASE old \notin Cached
    BY <1>4, <2>2, PartsKept DEF RemapPod, Stays
  <2> QED BY <2>1, <2>2
<1>5. ASSUME NEW id, Forget(id)
      PROVE  CacheKeyed'
  BY <1>1, <1>2, <1>5 DEF Forget, Delete, Restrict
<1> QED BY <1>3, <1>4, <1>5, PartsKept DEF Stays

\* Removing an element leaves only elements that were there.
LEMMA ConcatIncludes ==
  ASSUME NEW S, NEW a \in Seq(S), NEW b \in Seq(S), NEW j \in DOMAIN (a \o b)
  PROVE  \/ j \in DOMAIN a /\ (a \o b)[j] = a[j]
         \/ \E m \in DOMAIN b : (a \o b)[j] = b[m]
<1>1. /\ Len(a) \in Nat /\ Len(b) \in Nat /\ j \in 1..(Len(a) + Len(b))
      /\ DOMAIN a = 1..Len(a) /\ DOMAIN b = 1..Len(b)
  OBVIOUS
<1>2. CASE j <= Len(a)
  BY <1>1, <1>2
<1>3. CASE j > Len(a)
  <2>1. (a \o b)[j] = b[j - Len(a)] /\ j - Len(a) \in 1..Len(b)
    BY <1>1, <1>3
  <2> QED BY <1>1, <2>1
<1> QED BY <1>1, <1>2, <1>3

\* What RemoveAt leaves was there before.
LEMMA RemoveAtIncludes ==
  ASSUME NEW S, NEW s \in Seq(S), NEW i \in DOMAIN s, NEW j \in DOMAIN Seqs!RemoveAt(s, i)
  PROVE  \E m \in DOMAIN s : Seqs!RemoveAt(s, i)[j] = s[m]
<1> DEFINE before == SubSeq(s, 1, i - 1)
           after == SubSeq(s, i + 1, Len(s))
<1>1. i \in 1..Len(s) /\ Len(s) \in Nat /\ DOMAIN s = 1..Len(s)
  OBVIOUS
<1>2. before \in Seq(S) /\ \A m \in DOMAIN before : m \in DOMAIN s /\ before[m] = s[m]
  BY <1>1
<1>3. after \in Seq(S) /\ \A m \in DOMAIN after : m + i \in DOMAIN s /\ after[m] = s[m + i]
  BY <1>1
<1>4. Seqs!RemoveAt(s, i) = before \o after
  BY DEF Seqs!RemoveAt
<1> HIDE DEF before, after
<1>5. \/ j \in DOMAIN before /\ (before \o after)[j] = before[j]
      \/ \E m \in DOMAIN after : (before \o after)[j] = after[m]
  BY <1>2, <1>3, <1>4, ConcatIncludes
<1> QED BY <1>2, <1>3, <1>4, <1>5

\* ... and of the pool.
LEMMA PoolCallsKeyed ==
  ASSUME Stays
  PROVE  /\ \A k \in Keys, w \in WarmIds : ClaimHit(k, w) => PoolKeyed' /\ Keyed(w, k)
         /\ \A k \in Keys, w \in WarmIds : MarkReady(w, k) /\ Keyed(w, k) => PoolKeyed'
         /\ UNCHANGED pool => PoolKeyed'
<1>0. PoolTypeOK
  BY TypeInvParts DEF Stays, SharedOK
<1>1. ASSUME NEW k \in Keys, NEW i \in DOMAIN pool[k]
      PROVE  /\ pool[k][i] \in PodIds
             /\ Keyed(pool[k][i], k)
             /\ pods'[pool[k][i]].phase # "none" /\ pods'[pool[k][i]].key = k
  <2>1. pool[k][i] \in PodIds
    BY <1>0, <1>1 DEF PoolTypeOK, PodIds
  <2>2. Keyed(pool[k][i], k)
    BY <1>1 DEF Stays, KeyInv, PoolKeyed
  <2> QED BY <2>1, <2>2 DEF Stays, PodsStay, Keyed, Created
<1>2. ASSUME NEW k \in Keys, NEW w \in WarmIds, ClaimHit(k, w)
      PROVE  PoolKeyed' /\ Keyed(w, k)
  <2>1. PICK i \in DOMAIN pool[k] : w = pool[k][i] /\ pool' = [pool EXCEPT ![k] = Seqs!RemoveAt(@, i)]
    BY <1>2 DEF ClaimHit
  <2>2. pool[k] \in Seq(WarmIds)
    BY <1>0 DEF PoolTypeOK
  <2>3. ASSUME NEW j \in DOMAIN Seqs!RemoveAt(pool[k], i)
        PROVE  \E m \in DOMAIN pool[k] : Seqs!RemoveAt(pool[k], i)[j] = pool[k][m]
    BY <2>2, <2>3, RemoveAtIncludes
  <2>4. ASSUME NEW l \in Keys, NEW j \in DOMAIN pool'[l]
        PROVE  pods'[pool'[l][j]].phase # "none" /\ pods'[pool'[l][j]].key = l
    <3>1. CASE l = k
      <4>1. pool'[k] = Seqs!RemoveAt(pool[k], i)
        BY <1>0, <2>1 DEF PoolTypeOK
      <4>2. PICK m \in DOMAIN pool[k] : pool'[k][j] = pool[k][m]
        BY <2>3, <2>4, <3>1, <4>1
      <4> QED BY <1>1, <3>1, <4>2
    <3>2. CASE l # k
      <4>1. pool'[l] = pool[l]
        BY <1>0, <2>1, <3>2 DEF PoolTypeOK
      <4> QED BY <1>1, <2>4, <4>1
    <3> QED BY <3>1, <3>2
  <2> QED BY <1>1, <2>1, <2>4 DEF PoolKeyed, Keyed, Created
<1>3. ASSUME NEW k \in Keys, NEW w \in WarmIds, MarkReady(w, k), Keyed(w, k)
      PROVE  PoolKeyed'
  <2>1. pods'[w].phase # "none" /\ pods'[w].key = k
    BY <1>3 DEF Stays, PodsStay, Keyed, Created, PodIds
  <2>2. pool[k] \in Seq(WarmIds) /\ pool' = [pool EXCEPT ![k] = Append(@, w)]
    BY <1>0, <1>3 DEF PoolTypeOK, MarkReady
  <2>3. ASSUME NEW l \in Keys, NEW j \in DOMAIN pool'[l]
        PROVE  pods'[pool'[l][j]].phase # "none" /\ pods'[pool'[l][j]].key = l
    <3>1. CASE l = k
      <4>1. pool'[k] = Append(pool[k], w)
        BY <1>0, <2>2 DEF PoolTypeOK
      <4>2. pool'[k][j] = w \/ (j \in DOMAIN pool[k] /\ pool'[k][j] = pool[k][j])
        BY <2>2, <2>3, <3>1, <4>1
      <4> QED BY <1>1, <2>1, <3>1, <4>2
    <3>2. CASE l # k
      <4>1. pool'[l] = pool[l]
        BY <1>0, <2>2, <3>2 DEF PoolTypeOK
      <4> QED BY <1>1, <2>3, <4>1
    <3> QED BY <3>1, <3>2
  <2> QED BY <2>3 DEF PoolKeyed, Keyed, Created
<1> QED BY <1>2, <1>3, PartsKept DEF Stays

-------------------------------------------------------------------------------
\* A create request's key, until its end, and what it has of its claimed pod.
LEMMA RequestKeyed ==
  ASSUME Stays, NEW r \in Requests, RequestStep(r)
  PROVE  KeyInv'
<1> USE DEF Stays
<1>0. /\ SharedOK /\ RequestsOK
      /\ requests[r] \in RequestRecord
      /\ requests[r].pc # "idle" => requests[r].id \in issued /\ requests[r].id \in SandboxIds
      /\ requests[r].pc # "idle" => requests[r].id \in PodIds
      /\ requests[r].pc \in Creating => /\ requests[r].key \in Keys
                                        /\ Assigned(requests[r].id, requests[r].key)
      /\ requests[r].pc \in Claimed => /\ requests[r].warm \in WarmIds
                                       /\ Keyed(requests[r].warm, requests[r].key)
      /\ requests[r].ip # None => requests[r].ip \in PodIds
      /\ requests[r].pc \in Addressed /\ requests[r].ip # None => Keyed(requests[r].ip, requests[r].key)
      /\ requests[r].pc # "idle" => promise[requests[r].id].last \in Int
  BY TypeInvParts DEF SharedOK, RequestsOK, RequestSlots, RequestRecord, KeyInv, RequestsKeyed, PodIds
<1>K. CallbacksKeyed' /\ agent' = agent /\ requests[r].pc # "idle" /\ UNCHANGED callbacks
  BY <1>0, PartsKept
     DEF RequestStep, ClaimWarm, ClaimNothing, ClaimInfo, ClaimRemap, ClaimSetIP, ClaimDone,
         ColdCreate, ColdCreateFails, CreateRollback, DeletePod, DeletePodFails, DeleteForget,
         DeleteDisconnect, DeleteStop, DeleteRemove, control
<1>D. DownIsQuiet'
  BY <1>K DEF KeyInv, DownIsQuiet
<1>R. \* What the next state of the slot must satisfy.
      ASSUME NEW next,
             requests' = [requests EXCEPT ![r] = next],
             next.pc \in Creating => next.id = requests[r].id /\ next.key = requests[r].key
                                     /\ requests[r].pc \in Creating,
             next.pc \in Claimed => /\ next.warm \in PodIds
                                    /\ Keyed(next.warm, next.key),
             next.pc \in Addressed /\ next.ip # None => next.ip \in PodIds /\ Keyed(next.ip, next.key)
      PROVE  RequestsKeyed'
  <2> SUFFICES ASSUME NEW q \in Requests
               PROVE  /\ requests'[q].pc \in Creating =>
                           (requests'[q].id \in Tracked' =>
                              sandboxes'[requests'[q].id].key = requests'[q].key)
                      /\ requests'[q].pc \in Claimed =>
                           /\ pods'[requests'[q].warm].phase # "none"
                           /\ pods'[requests'[q].warm].key = requests'[q].key
                      /\ requests'[q].pc \in Addressed /\ requests'[q].ip # None =>
                           /\ pods'[requests'[q].ip].phase # "none"
                           /\ pods'[requests'[q].ip].key = requests'[q].key
    BY DEF RequestsKeyed, Assigned, Keyed, Created, Tracked
  <2>1. CASE q = r
    <3>1. requests'[q] = next
      BY <1>0, <1>R, <2>1 DEF RequestsOK
    <3>2. next.pc \in Creating =>
            (next.id \in Tracked' => sandboxes'[next.id].key = next.key)
      BY <1>0, <1>R, <1>K DEF SandboxesStay, Assigned
    <3>3. /\ next.pc \in Claimed =>
               pods'[next.warm].phase # "none" /\ pods'[next.warm].key = next.key
          /\ next.pc \in Addressed /\ next.ip # None =>
               pods'[next.ip].phase # "none" /\ pods'[next.ip].key = next.key
      BY <1>R DEF PodsStay, Keyed, Created
    <3> QED BY <3>1, <3>2, <3>3
  <2>2. CASE q # r
    <3>1. requests'[q] = requests[q]
      BY <1>0, <1>R, <2>2 DEF RequestsOK
    <3>2. /\ requests[q].pc \in Creating => requests[q].id \in issued
          /\ requests[q].pc \in Creating => Assigned(requests[q].id, requests[q].key)
          /\ requests[q].pc \in Claimed => Keyed(requests[q].warm, requests[q].key)
          /\ requests[q].pc \in Claimed => requests[q].warm \in PodIds
          /\ requests[q].ip # None => requests[q].ip \in PodIds
          /\ requests[q].pc \in Addressed /\ requests[q].ip # None => Keyed(requests[q].ip, requests[q].key)
      BY <1>0 DEF RequestsOK, RequestSlots, RequestRecord, KeyInv, RequestsKeyed, PodIds, Creating
    <3> QED BY <3>1, <3>2 DEF PodsStay, SandboxesStay, Keyed, Created, Assigned
  <2> QED BY <2>1, <2>2
<1>N. Respond(r) => RequestsKeyed'
  <2>1. NoRequest.pc \notin Creating /\ NoRequest.pc \notin Claimed /\ NoRequest.pc \notin Addressed
    BY DEF NoRequest, Creating, Claimed, Addressed
  <2> QED BY <1>R, <2>1 DEF Respond
<1>A. ASSUME NEW warm \in WarmIds, ClaimWarm(r, warm)
      PROVE  KeyInv'
  <2>1. PoolKeyed' /\ Keyed(warm, requests[r].key)
    BY <1>0, <1>A, PoolCallsKeyed DEF ClaimWarm, Creating
  <2>2. RequestsKeyed'
    <3> DEFINE next == [requests[r] EXCEPT !.pc = "info", !.warm = warm]
    <3>1. /\ next.pc = "info" /\ next.warm = warm /\ warm \in PodIds
          /\ next.id = requests[r].id /\ next.key = requests[r].key
      BY <1>0 DEF RequestRecord, PodIds
    <3>2. requests' = [requests EXCEPT ![r] = next]
      BY <1>0, <1>A DEF ClaimWarm, RequestsOK, RequestRecord
    <3>3. requests[r].pc = "claim"
      BY <1>A DEF ClaimWarm
    <3> HIDE DEF next
    <3> QED BY <1>R, <2>1, <3>1, <3>2, <3>3 DEF Creating, Claimed, Addressed
  <2> QED BY <1>A, <1>K, <1>D, <2>1, <2>2, PartsKept DEF ClaimWarm, KeyInv, kube
<1>B. ASSUME ClaimNothing(r)
      PROVE  KeyInv'
  <2>1. RequestsKeyed'
    <3> DEFINE next == [requests[r] EXCEPT !.pc = "create"]
    <3>1. /\ next.pc = "create" /\ next.id = requests[r].id /\ next.key = requests[r].key
          /\ next.warm = requests[r].warm /\ next.ip = requests[r].ip
      BY <1>0 DEF RequestRecord
    <3>2. requests' = [requests EXCEPT ![r] = next] /\ requests[r].pc = "claim"
      BY <1>0, <1>B DEF ClaimNothing, Goto, RequestsOK, RequestRecord
    <3> HIDE DEF next
    <3> QED BY <1>0, <1>R, <3>1, <3>2 DEF Creating, Claimed, Addressed
  <2> QED BY <1>B, <1>K, <1>D, <2>1, PartsKept DEF ClaimNothing, KeyInv, kube
<1>E. ASSUME ClaimInfo(r)
      PROVE  KeyInv'
  <2>1. RequestsKeyed'
    <3>1. CASE requests[r].warm \in Cached
      <4> DEFINE next == [requests[r] EXCEPT !.pc = "remap", !.ip = Address(cache[requests[r].warm])]
      <4>1. /\ next.pc = "remap" /\ next.id = requests[r].id /\ next.key = requests[r].key
            /\ next.warm = requests[r].warm /\ next.ip = Address(cache[requests[r].warm])
        BY <1>0 DEF RequestRecord
      <4>2. requests' = [requests EXCEPT ![r] = next] /\ requests[r].pc = "info"
        BY <1>0, <1>E, <3>1 DEF ClaimInfo, RequestsOK, RequestRecord
      <4>3. requests[r].warm \in PodIds
        BY <1>0, <4>2 DEF Claimed, PodIds
      <4>4. next.ip # None => next.ip = requests[r].warm
        BY <1>0, <3>1, <4>1, <4>2 DEF KeyInv, CacheKeyed, Address, Claimed
      <4> HIDE DEF next
      <4> QED BY <1>0, <1>R, <4>1, <4>2, <4>3, <4>4 DEF Creating, Claimed, Addressed
    <3>2. CASE requests[r].warm \notin Cached
      <4> DEFINE next == [requests[r] EXCEPT !.pc = "create"]
      <4>1. /\ next.pc = "create" /\ next.id = requests[r].id /\ next.key = requests[r].key
        BY <1>0 DEF RequestRecord
      <4>2. requests' = [requests EXCEPT ![r] = next] /\ requests[r].pc = "info"
        BY <1>0, <1>E, <3>2 DEF ClaimInfo, RequestsOK, RequestRecord
      <4> HIDE DEF next
      <4> QED BY <1>0, <1>R, <4>1, <4>2 DEF Creating, Claimed, Addressed
    <3> QED BY <3>1, <3>2
  <2> QED BY <1>E, <1>K, <1>D, <2>1, PartsKept DEF ClaimInfo, KeyInv, kube
<1>F. ASSUME ClaimRemap(r)
      PROVE  KeyInv'
  <2>1. RequestsKeyed'
    <3> DEFINE next == [requests[r] EXCEPT !.pc = "setip"]
    <3>1. /\ next.pc = "setip" /\ next.id = requests[r].id /\ next.key = requests[r].key
          /\ next.ip = requests[r].ip
      BY <1>0 DEF RequestRecord
    <3>2. requests' = [requests EXCEPT ![r] = next] /\ requests[r].pc = "remap"
      BY <1>0, <1>F DEF ClaimRemap, Goto, RequestsOK, RequestRecord
    <3> HIDE DEF next
    <3> QED BY <1>0, <1>R, <3>1, <3>2 DEF Creating, Claimed, Addressed
  <2>2. CacheKeyed'
    <3>1. requests[r].pc = "remap" /\ RemapPod(requests[r].warm, requests[r].id)
      BY <1>F DEF ClaimRemap
    <3>2. requests[r].warm \in Cached => cache[requests[r].warm].key = requests[r].key
      BY <1>0, <3>1 DEF KeyInv, CacheKeyed, Keyed, Claimed
    <3>3. /\ requests[r].warm \in WarmIds /\ requests[r].id \in issued
          /\ Assigned(requests[r].id, requests[r].key)
      BY <1>0, <3>1 DEF Creating, Claimed
    <3> QED BY <3>1, <3>2, <3>3, CacheCallsKeyed
  <2> QED BY <1>F, <1>K, <1>D, <2>1, <2>2, PartsKept DEF ClaimRemap, KeyInv, kube
<1>G. ASSUME ClaimSetIP(r)
      PROVE  KeyInv'
  <2>1. RequestsKeyed'
    <3> DEFINE next == [requests[r] EXCEPT !.pc = "setrunning"]
    <3>1. next.pc = "setrunning" /\ next.id = requests[r].id /\ next.key = requests[r].key
      BY <1>0 DEF RequestRecord
    <3>2. requests' = [requests EXCEPT ![r] = next] /\ requests[r].pc = "setip"
      BY <1>0, <1>G DEF ClaimSetIP, Goto, RequestsOK, RequestRecord
    <3> HIDE DEF next
    <3> QED BY <1>0, <1>R, <3>1, <3>2 DEF Creating, Claimed, Addressed
  <2>2. SandboxesKeyed'
    <3>1. requests[r].pc = "setip" /\ SetPodIP(requests[r].id, requests[r].ip)
      BY <1>G DEF ClaimSetIP
    <3>2. requests[r].id \in Tracked /\ requests[r].ip # None =>
            /\ requests[r].ip \in PodIds /\ Created(requests[r].ip)
            /\ Assigned(requests[r].id, pods[requests[r].ip].key)
      BY <1>0, <3>1 DEF Creating, Addressed, Keyed
    <3> QED BY <3>1, <3>2, SandboxKeyed
  <2> QED BY <1>G, <1>K, <1>D, <2>1, <2>2, PartsKept DEF ClaimSetIP, KeyInv, kube
<1>H. ASSUME ClaimDone(r)
      PROVE  KeyInv'
  <2>1. RequestsKeyed'
    BY <1>N, <1>H DEF ClaimDone
  <2>2. SandboxesKeyed'
    BY <1>H, SandboxKeyed DEF ClaimDone
  <2> QED BY <1>H, <1>K, <1>D, <2>1, <2>2, PartsKept DEF ClaimDone, KeyInv, kube
<1>I. ASSUME ColdCreate(r)
      PROVE  KeyInv'
  <2>1. RequestsKeyed'
    BY <1>N, <1>I DEF ColdCreate
  <2>2. PodsKeyed' /\ EventsKeyed'
    BY <1>0, <1>I, KubeKeyed DEF ColdCreate, Creating
  <2> QED BY <1>I, <1>K, <1>D, <2>1, <2>2, PartsKept DEF ColdCreate, KeyInv, kube
<1>J. ASSUME ColdCreateFails(r)
      PROVE  KeyInv'
  <2>1. RequestsKeyed'
    <3> DEFINE next == [requests[r] EXCEPT !.pc = "rollback"]
    <3>1. /\ next.pc = "rollback" /\ next.id = requests[r].id /\ next.key = requests[r].key
          /\ next.warm = requests[r].warm /\ next.ip = requests[r].ip
      BY <1>0 DEF RequestRecord
    <3>2. requests' = [requests EXCEPT ![r] = next] /\ requests[r].pc = "create"
      BY <1>0, <1>J DEF ColdCreateFails, Goto, RequestsOK, RequestRecord
    <3> HIDE DEF next
    <3> QED BY <1>0, <1>R, <3>1, <3>2 DEF Creating, Claimed, Addressed
  <2>2. PodsKeyed' /\ EventsKeyed'
    BY <1>0, <1>J, KubeKeyed, PartsKept DEF ColdCreateFails, Creating, kube
  <2> QED BY <1>J, <1>K, <1>D, <2>1, <2>2, PartsKept DEF ColdCreateFails, KeyInv, kube
<1>L. ASSUME CreateRollback(r)
      PROVE  KeyInv'
  <2>1. RequestsKeyed'
    BY <1>N, <1>L DEF CreateRollback
  <2>2. SandboxesKeyed'
    BY <1>L, SandboxKeyed DEF CreateRollback
  <2> QED BY <1>L, <1>K, <1>D, <2>1, <2>2, PartsKept DEF CreateRollback, KeyInv, kube
<1>M. ASSUME DeletePod(r)
      PROVE  KeyInv'
  <2>1. RequestsKeyed'
    <3>1. ASSUME NEW pc \in {"forget", "disconnect"},
                 requests' = [requests EXCEPT ![r].pc = pc]
          PROVE  RequestsKeyed'
      <4> DEFINE next == [requests[r] EXCEPT !.pc = pc]
      <4>1. next.pc = pc
        BY <1>0 DEF RequestRecord
      <4>2. requests' = [requests EXCEPT ![r] = next]
        BY <1>0, <3>1 DEF RequestsOK, RequestRecord
      <4> HIDE DEF next
      <4> QED BY <1>R, <4>1, <4>2 DEF Creating, Claimed, Addressed
    <3> QED BY <1>M, <3>1 DEF DeletePod, Goto
  <2>2. PodsKeyed' /\ EventsKeyed'
    BY <1>0, <1>M, KubeKeyed, PartsKept DEF DeletePod, kube
  <2> QED BY <1>M, <1>K, <1>D, <2>1, <2>2, PartsKept DEF DeletePod, KeyInv, kube
<1>O. ASSUME DeletePodFails(r)
      PROVE  KeyInv'
  <2>1. RequestsKeyed'
    BY <1>N, <1>O DEF DeletePodFails
  <2>2. PodsKeyed' /\ EventsKeyed'
    BY <1>0, <1>O, KubeKeyed, PartsKept DEF DeletePodFails, kube
  <2> QED BY <1>O, <1>K, <1>D, <2>1, <2>2, PartsKept DEF DeletePodFails, KeyInv, kube
<1>P. ASSUME DeleteForget(r)
      PROVE  KeyInv'
  <2>1. RequestsKeyed'
    <3> DEFINE next == [requests[r] EXCEPT !.pc = "disconnect"]
    <3>1. /\ next.pc = "disconnect" /\ next.id = requests[r].id /\ next.key = requests[r].key
          /\ next.warm = requests[r].warm /\ next.ip = requests[r].ip
      BY <1>0 DEF RequestRecord
    <3>2. requests' = [requests EXCEPT ![r] = next] /\ requests[r].pc = "forget"
      BY <1>0, <1>P DEF DeleteForget, Goto, RequestsOK, RequestRecord
    <3> HIDE DEF next
    <3> QED BY <1>0, <1>R, <3>1, <3>2 DEF Creating, Claimed, Addressed
  <2>2. CacheKeyed'
    BY <1>P, CacheCallsKeyed DEF DeleteForget
  <2> QED BY <1>P, <1>K, <1>D, <2>1, <2>2, PartsKept DEF DeleteForget, KeyInv, kube
<1>Q. ASSUME DeleteDisconnect(r)
      PROVE  KeyInv'
  <2>1. RequestsKeyed'
    <3> DEFINE next == [requests[r] EXCEPT !.pc = "stop"]
    <3>1. /\ next.pc = "stop" /\ next.id = requests[r].id /\ next.key = requests[r].key
          /\ next.warm = requests[r].warm /\ next.ip = requests[r].ip
      BY <1>0 DEF RequestRecord
    <3>2. requests' = [requests EXCEPT ![r] = next] /\ requests[r].pc = "disconnect"
      BY <1>0, <1>Q DEF DeleteDisconnect, Goto, RequestsOK, RequestRecord
    <3> HIDE DEF next
    <3> QED BY <1>0, <1>R, <3>1, <3>2 DEF Creating, Claimed, Addressed
  <2> QED BY <1>Q, <1>K, <1>D, <2>1, PartsKept DEF DeleteDisconnect, KeyInv, kube
<1>S. ASSUME DeleteStop(r)
      PROVE  KeyInv'
  <2>1. RequestsKeyed'
    <3> DEFINE next == [requests[r] EXCEPT !.pc = "remove"]
    <3>1. /\ next.pc = "remove" /\ next.id = requests[r].id /\ next.key = requests[r].key
          /\ next.warm = requests[r].warm /\ next.ip = requests[r].ip
      BY <1>0 DEF RequestRecord
    <3>2. requests' = [requests EXCEPT ![r] = next] /\ requests[r].pc = "stop"
      BY <1>0, <1>S DEF DeleteStop, Goto, RequestsOK, RequestRecord
    <3> HIDE DEF next
    <3> QED BY <1>0, <1>R, <3>1, <3>2 DEF Creating, Claimed, Addressed
  <2>2. SandboxesKeyed'
    BY <1>S, SandboxKeyed DEF DeleteStop
  <2> QED BY <1>S, <1>K, <1>D, <2>1, <2>2, PartsKept DEF DeleteStop, KeyInv, kube
<1>T. ASSUME DeleteRemove(r)
      PROVE  KeyInv'
  <2>1. RequestsKeyed'
    BY <1>N, <1>T DEF DeleteRemove
  <2>2. SandboxesKeyed'
    BY <1>T, SandboxKeyed DEF DeleteRemove
  <2> QED BY <1>T, <1>K, <1>D, <2>1, <2>2, PartsKept DEF DeleteRemove, KeyInv, kube
<1> QED BY <1>A, <1>B, <1>E, <1>F, <1>G, <1>H, <1>I, <1>J, <1>L, <1>M, <1>O, <1>P, <1>Q, <1>S, <1>T
     DEF RequestStep

\* A create enters the registry with a fresh id, which nothing else knows of.
LEMMA ClientKeyed ==
  ASSUME Stays, Client
  PROVE  KeyInv'
<1> USE DEF Stays
<1>0. SharedOK /\ RequestsOK
  BY TypeInvParts
<1>K. UNCHANGED <<pods, events, watching, cache, pool, callbacks, agent>> /\ agent = "serving"
  BY DEF Client, CreateRequest, DeleteRequest, Keepalive, control, kube
<1>P. PodsKeyed' /\ EventsKeyed' /\ CacheKeyed' /\ PoolKeyed' /\ CallbacksKeyed' /\ DownIsQuiet'
  BY <1>K, PartsKept DEF DownIsQuiet
<1>1. ASSUME NEW r \in Requests, NEW id \in SandboxIds, NEW key \in Keys,
             NEW timeout \in Timeouts, CreateRequest(r, id, key, timeout)
      PROVE  KeyInv'
  <2>1. SandboxesKeyed'
    BY <1>1, SandboxKeyed DEF CreateRequest
  <2>2. RequestsKeyed'
    <3> DEFINE started == [NoRequest EXCEPT !.pc = "claim", !.id = id, !.key = key]
    <3>1. started.pc = "claim" /\ started.id = id /\ started.key = key
      BY DEF NoRequest
    <3> HIDE DEF started
    <3>2. requests' = [requests EXCEPT ![r] = started]
      BY <1>1 DEF CreateRequest, started
    <3>3. sandboxes'[id].key = key
      BY <1>1 DEF CreateRequest, Create, Put
    <3>4. requests'[r] = started /\ \A q \in Requests : q # r => requests'[q] = requests[q]
      BY <1>0, <3>2 DEF RequestsOK
    <3>5. ASSUME NEW q \in Requests, q # r
          PROVE  /\ requests[q].pc \in Creating =>
                      (requests[q].id \in Tracked' =>
                         sandboxes'[requests[q].id].key = requests[q].key)
                 /\ requests[q].pc \in Claimed => Keyed(requests[q].warm, requests[q].key)
                 /\ requests[q].pc \in Addressed /\ requests[q].ip # None =>
                      Keyed(requests[q].ip, requests[q].key)
      <4>1. requests[q].pc \in Creating => requests[q].id \in issued
        BY <1>0 DEF RequestsOK, RequestSlots, Creating
      <4>2. /\ requests[q].pc \in Creating => Assigned(requests[q].id, requests[q].key)
            /\ requests[q].pc \in Claimed => Keyed(requests[q].warm, requests[q].key)
            /\ requests[q].pc \in Addressed /\ requests[q].ip # None =>
                 Keyed(requests[q].ip, requests[q].key)
        BY DEF KeyInv, RequestsKeyed
      <4> QED BY <4>1, <4>2 DEF SandboxesStay, Assigned
    <3> QED BY <1>K, <3>1, <3>3, <3>4, <3>5
            DEF RequestsKeyed, Assigned, Keyed, Created, Tracked, Creating, Claimed, Addressed
  <2> QED BY <1>P, <2>1, <2>2 DEF KeyInv
<1>2. ASSUME NEW r \in Requests, NEW id \in SandboxIds, DeleteRequest(r, id)
      PROVE  KeyInv'
  <2>1. SandboxesKeyed' /\ UNCHANGED sandboxes
    BY <1>2, SandboxKeyed DEF DeleteRequest
  <2>2. RequestsKeyed'
    <3> DEFINE started == [NoRequest EXCEPT !.pc = "delete", !.id = id]
    <3>1. started.pc = "delete"
      BY DEF NoRequest
    <3> HIDE DEF started
    <3>2. requests' = [requests EXCEPT ![r] = started]
      BY <1>2 DEF DeleteRequest, started
    <3>3. requests'[r] = started /\ \A q \in Requests : q # r => requests'[q] = requests[q]
      BY <1>0, <3>2 DEF RequestsOK
    <3>4. started.pc \notin Creating /\ started.pc \notin Claimed /\ started.pc \notin Addressed
      BY <3>1 DEF Creating, Claimed, Addressed
    <3>5. RequestsKeyed
      BY DEF KeyInv
    <3> QED BY <1>K, <2>1, <3>3, <3>4, <3>5 DEF RequestsKeyed, Assigned, Keyed, Created, Tracked
  <2> QED BY <1>P, <2>1, <2>2 DEF KeyInv
<1>3. ASSUME NEW id \in SandboxIds, Keepalive(id)
      PROVE  KeyInv'
  <2>1. SandboxesKeyed'
    BY <1>3, SandboxKeyed DEF Keepalive
  <2> QED BY <1>3, <1>P, <2>1, PartsKept DEF Keepalive, KeyInv
<1> QED BY <1>1, <1>2, <1>3 DEF Client

\* What an onReady goroutine read from the cache agrees with the pod.
LEMMA CallbackKeyed ==
  ASSUME Stays, NEW c \in Callbacks, CallbackStep(c)
  PROVE  KeyInv'
<1> USE DEF Stays
<1>0. /\ SharedOK /\ CallbacksOK
      /\ callbacks[c] \in CallbackRecord
      /\ callbacks[c].pc # "idle" => callbacks[c].id \in PodIds /\ Created(callbacks[c].id)
      /\ callbacks[c].ip # None => callbacks[c].ip \in PodIds
      /\ callbacks[c].pc = "mark" => callbacks[c].id \in WarmIds
      /\ callbacks[c].pc \in {"setip", "dial", "store", "mark"} => callbacks[c].key \in Keys
      /\ callbacks[c].pc = "setip" =>
           /\ callbacks[c].id \in SandboxIds
           /\ callbacks[c].ip # None =>
                /\ Created(callbacks[c].ip)
                /\ Assigned(callbacks[c].id, pods[callbacks[c].ip].key)
      /\ callbacks[c].pc \in {"dial", "store", "mark"} /\ callbacks[c].id \in WarmIds =>
           pods[callbacks[c].id].key = callbacks[c].key
  BY TypeInvParts DEF CallbacksOK, CallbackSlots, CallbackRecord, KeyInv, CallbacksKeyed
<1>K. /\ UNCHANGED <<pods, events, watching, cache, requests, agent>>
      /\ callbacks[c].pc # "idle"
  BY DEF CallbackStep, CallbackSkips, CallbackBegins, CallbackInfo, CallbackSetIP, CallbackDials,
         CallbackDialFails, CallbackStores, CallbackMarks, kube, control
<1>P. PodsKeyed' /\ EventsKeyed' /\ CacheKeyed' /\ RequestsKeyed' /\ DownIsQuiet'
  BY <1>K, PartsKept DEF KeyInv, DownIsQuiet
<1>R. \* What the next state of the slot must satisfy.
      ASSUME NEW next,
             callbacks' = [callbacks EXCEPT ![c] = next],
             next.pc # "idle" => next.id = callbacks[c].id,
             next.pc = "setip" =>
               /\ next.id \in SandboxIds
               /\ next.ip # None =>
                    next.ip \in PodIds /\ Created(next.ip) /\ Assigned(next.id, pods[next.ip].key),
             next.pc \in {"dial", "store", "mark"} /\ next.id \in WarmIds =>
               pods[next.id].key = next.key
      PROVE  CallbacksKeyed'
  <2>1. callbacks'[c] = next /\ \A q \in Callbacks : q # c => callbacks'[q] = callbacks[q]
    BY <1>0, <1>R DEF CallbacksOK
  <2>2. ASSUME NEW id \in SandboxIds, Created(id), NEW key, Assigned(id, key)
        PROVE  id \in Tracked' => sandboxes'[id].key = key
    BY <2>2 DEF KeyInv, PodsKeyed, SandboxesStay, Assigned
  <2>3. /\ next.pc # "idle" => Created(next.id)
        /\ next.pc = "setip" /\ next.ip # None =>
             (next.id \in Tracked' => sandboxes'[next.id].key = pods[next.ip].key)
    BY <1>0, <1>K, <1>R, <2>2
  <2>4. ASSUME NEW q \in Callbacks
        PROVE  /\ callbacks[q].pc # "idle" => Created(callbacks[q].id)
               /\ callbacks[q].pc = "setip" =>
                    /\ callbacks[q].id \in SandboxIds
                    /\ callbacks[q].ip # None =>
                         /\ Created(callbacks[q].ip)
                         /\ Assigned(callbacks[q].id, pods[callbacks[q].ip].key)
               /\ callbacks[q].pc \in {"dial", "store", "mark"} /\ callbacks[q].id \in WarmIds =>
                    pods[callbacks[q].id].key = callbacks[q].key
    BY DEF KeyInv, CallbacksKeyed
  <2>5. ASSUME NEW q \in Callbacks, callbacks[q].pc = "setip", callbacks[q].ip # None
        PROVE  callbacks[q].id \in Tracked' =>
                 sandboxes'[callbacks[q].id].key = pods[callbacks[q].ip].key
    BY <2>2, <2>4, <2>5
  <2> QED BY <1>K, <1>R, <2>1, <2>3, <2>4, <2>5 DEF CallbacksKeyed, Created, Assigned, Tracked
<1>N. Return(c) => CallbacksKeyed'
  <2>1. NoCallback.pc = "idle"
    BY DEF NoCallback
  <2> QED BY <1>R, <2>1 DEF Return
<1>G. \* Advancing to a phase that needs no more than the present one.
      ASSUME NEW pc \in {"info", "dial", "store", "mark"},
             callbacks' = [callbacks EXCEPT ![c].pc = pc],
             pc # "info" /\ callbacks[c].id \in WarmIds => callbacks[c].pc \in {"dial", "store", "mark"}
      PROVE  CallbacksKeyed'
  <2> DEFINE next == [callbacks[c] EXCEPT !.pc = pc]
  <2>1. /\ next.pc = pc /\ next.id = callbacks[c].id /\ next.key = callbacks[c].key
    BY <1>0 DEF CallbackRecord
  <2>2. callbacks' = [callbacks EXCEPT ![c] = next]
    BY <1>0, <1>G DEF CallbacksOK, CallbackRecord
  <2> HIDE DEF next
  <2> QED BY <1>0, <1>G, <1>R, <2>1, <2>2
<1>1. ASSUME CallbackSkips(c)
      PROVE  KeyInv'
  BY <1>1, <1>N, <1>P, PartsKept DEF CallbackSkips, KeyInv
<1>2. ASSUME CallbackBegins(c)
      PROVE  KeyInv'
  <2>1. SandboxesKeyed'
    BY <1>2, SandboxKeyed DEF CallbackBegins
  <2> QED BY <1>2, <1>G, <1>P, <2>1, PartsKept DEF CallbackBegins, KeyInv
<1>3. ASSUME CallbackInfo(c)
      PROVE  KeyInv'
  <2>1. CASE callbacks[c].id \notin Cached
    <3>1. Return(c)
      BY <1>3, <2>1 DEF CallbackInfo, Return
    <3> QED BY <1>3, <1>N, <1>P, <3>1, PartsKept DEF CallbackInfo, KeyInv
  <2>2. CASE callbacks[c].id \in Cached
    <3> DEFINE id == callbacks[c].id
               next == [pc |-> IF id \in WarmIds THEN "dial" ELSE "setip", id |-> id,
                        ip |-> Address(cache[id]), key |-> cache[id].key]
    <3>1. callbacks' = [callbacks EXCEPT ![c] = next]
      BY <1>3, <2>2 DEF CallbackInfo
    <3>2. /\ Keyed(cache[id].pod, cache[id].key)
          /\ id \in WarmIds => cache[id].pod = id
          /\ id \in SandboxIds => Assigned(id, cache[id].key)
      BY <2>2 DEF KeyInv, CacheKeyed
    <3>3. cache[id].pod \in PodIds
      BY <1>0, <2>2 DEF SharedOK, CacheTypeOK, IsMap, PodInfo, Cached
    <3>4. next.ip # None => next.ip = cache[id].pod
      BY DEF Address
    <3>5. id \notin WarmIds => id \in SandboxIds
      BY <1>0, <1>K DEF PodIds
    <3>6. next.pc = "setip" =>
            /\ next.id \in SandboxIds
            /\ next.ip # None =>
                 next.ip \in PodIds /\ Created(next.ip) /\ Assigned(next.id, pods[next.ip].key)
      <4>1. next.pc = "setip" => id \notin WarmIds
        OBVIOUS
      <4> QED BY <3>2, <3>3, <3>4, <3>5, <4>1 DEF Keyed
    <3>7. next.pc \in {"dial", "store", "mark"} /\ next.id \in WarmIds =>
            pods[next.id].key = next.key
      BY <3>2 DEF Keyed
    <3>8. next.pc # "idle" => next.id = callbacks[c].id
      OBVIOUS
    <3> HIDE DEF next
    <3>9. CallbacksKeyed'
      BY <1>R, <3>1, <3>6, <3>7, <3>8
    <3> QED BY <1>3, <1>P, <3>9, PartsKept DEF CallbackInfo, KeyInv
  <2> QED BY <2>1, <2>2
<1>4. ASSUME CallbackSetIP(c)
      PROVE  KeyInv'
  <2>1. SandboxesKeyed'
    BY <1>0, <1>4, SandboxKeyed DEF CallbackSetIP
  <2>2. callbacks[c].id \notin WarmIds
    BY <1>0, <1>4, IdsAssumption DEF CallbackSetIP
  <2> QED BY <1>4, <1>G, <1>P, <2>1, <2>2, PartsKept DEF CallbackSetIP, KeyInv
<1>5. ASSUME CallbackDials(c)
      PROVE  KeyInv'
  BY <1>5, <1>G, <1>P, PartsKept DEF CallbackDials, KeyInv
<1>6. ASSUME CallbackDialFails(c)
      PROVE  KeyInv'
  BY <1>6, <1>N, <1>P, PartsKept DEF CallbackDialFails, KeyInv
<1>7. ASSUME CallbackStores(c)
      PROVE  KeyInv'
  <2>1. CallbacksKeyed'
    <3>1. CASE callbacks[c].id \in WarmIds
      BY <1>7, <1>G, <3>1 DEF CallbackStores
    <3>2. CASE callbacks[c].id \notin WarmIds
      BY <1>7, <1>N, <3>2 DEF CallbackStores, Return
    <3> QED BY <3>1, <3>2
  <2> QED BY <1>7, <1>P, <2>1, PartsKept DEF CallbackStores, KeyInv
<1>8. ASSUME CallbackMarks(c)
      PROVE  KeyInv'
  <2>1. PoolKeyed'
    BY <1>0, <1>8, PoolCallsKeyed DEF CallbackMarks, Keyed
  <2> QED BY <1>8, <1>N, <1>P, <2>1, PartsKept DEF CallbackMarks, KeyInv
<1> QED BY <1>1, <1>2, <1>3, <1>4, <1>5, <1>6, <1>7, <1>8 DEF CallbackStep

\* A fill creates pods of warm ids only, under the key of their pool.
LEMMA FillKeyed ==
  ASSUME Stays, NEW f \in Fillers, FillStep(f)
  PROVE  KeyInv'
<1> USE DEF Stays
<1>P. /\ SandboxesKeyed' /\ CacheKeyed' /\ PoolKeyed' /\ RequestsKeyed' /\ CallbacksKeyed'
  BY PartsKept DEF FillStep
<1>1. CASE UNCHANGED kube
  BY <1>1, <1>P, PartsKept DEF FillStep, KeyInv, kube, control
<1>2. ASSUME NEW warm \in WarmIds, FillCreate(f, warm)
      PROVE  KeyInv'
  <2>1. fills[f].key \in Keys
    BY <1>2, TypeInvParts DEF FillCreate, FillsOK, FillSlots
  <2>2. warm \in PodIds /\ warm \notin SandboxIds
    BY IdsAssumption DEF PodIds
  <2>3. PodsKeyed' /\ EventsKeyed'
    BY <1>2, <2>1, <2>2, KubeKeyed DEF FillCreate
  <2>4. DownIsQuiet'
    BY <1>2, PartsKept DEF FillStep, FillCreate, KubeCreate, Change, control
  <2> QED BY <1>P, <2>3, <2>4 DEF KeyInv
<1> QED BY <1>1, <1>2 DEF FillStep, FillCount, FillFails

\* The expiry loop deletes pods and entries, and sets no key or address.
LEMMA ReaperKeyed ==
  ASSUME Stays, ReaperStep
  PROVE  KeyInv'
<1> USE DEF Stays
<1>0. /\ ReaperSlot
      /\ SandboxIds \subseteq PodIds
  BY TypeInvParts DEF ReaperOK, PodIds
<1>P. PoolKeyed' /\ RequestsKeyed' /\ CallbacksKeyed'
  BY PartsKept DEF ReaperStep
<1>1. SandboxesKeyed'
  BY SandboxKeyed
     DEF ReaperStep, ReaperTick, ReaperForces, ReaperForceFails, ReaperStops, ReaperForceForgets,
         ReaperScans, ReaperDeletes, ReaperDeleteFails, ReaperForgets, ReaperDisconnects,
         ReaperRemoves
<1>2. CacheKeyed'
  BY CacheCallsKeyed
     DEF ReaperStep, ReaperTick, ReaperForces, ReaperForceFails, ReaperStops, ReaperForceForgets,
         ReaperScans, ReaperDeletes, ReaperDeleteFails, ReaperForgets, ReaperDisconnects,
         ReaperRemoves
<1>3. /\ UNCHANGED kube => PodsKeyed' /\ EventsKeyed' /\ UNCHANGED watching
      /\ \A id \in SandboxIds :
           KubeDelete(id) \/ KubeForceDelete(id) =>
             PodsKeyed' /\ EventsKeyed' /\ UNCHANGED watching
  BY <1>0, PartsKept, KubeKeyed DEF kube, kubeVars, KubeDelete, KubeForceDelete, Change
<1>4. PodsKeyed' /\ EventsKeyed' /\ UNCHANGED watching
  BY <1>0, <1>3
     DEF ReaperStep, ReaperTick, ReaperForces, ReaperForceFails, ReaperStops, ReaperForceForgets,
         ReaperScans, ReaperDeletes, ReaperDeleteFails, ReaperForgets, ReaperDisconnects,
         ReaperRemoves, ReaperSlot
<1>5. DownIsQuiet'
  BY <1>4, PartsKept DEF ReaperStep, control
<1> QED BY <1>P, <1>1, <1>2, <1>4, <1>5 DEF KeyInv

\* The watch loop passes on what events say, and a new watch starts from the
\* pods there are.
LEMMA WatchLoopKeyed ==
  ASSUME Stays, WatchLoop
  PROVE  KeyInv'
<1> USE DEF Stays
<1>0. /\ SharedOK /\ CallbacksOK /\ KubeTypeOK
      /\ DownIsQuiet /\ EventsKeyed /\ CallbacksKeyed
  BY TypeInvParts DEF SharedOK, KeyInv
<1>P. SandboxesKeyed' /\ PoolKeyed' /\ RequestsKeyed'
  BY PartsKept DEF WatchLoop
<1>1. ASSUME WatchStep
      PROVE  KeyInv'
  <2> DEFINE e == events[1]
  <2>1. /\ 1 \in DOMAIN events /\ Head(events) = e
        /\ Tail(events) \in Seq(EventRecord)
        /\ \A i \in DOMAIN Tail(events) : i + 1 \in DOMAIN events /\ Tail(events)[i] = events[i + 1]
    BY <1>0, <1>1 DEF WatchStep, KubeTypeOK
  <2> HIDE DEF e
  <2>2. CacheKeyed'
    BY <1>1, <2>1, CacheCallsKeyed DEF WatchStep, e
  <2>3. PodsKeyed' /\ UNCHANGED <<pods, watching>>
    BY <1>1, PartsKept DEF WatchStep
  <2>4. EventsKeyed'
    BY <1>0, <1>1, <2>1, <2>3 DEF WatchStep, EventsKeyed, Keyed, Created
  <2>5. CallbacksKeyed'
    <3>1. CASE UNCHANGED callbacks
      BY <3>1, PartsKept
    <3>2. ASSUME NEW c \in Callbacks,
                 callbacks' = [callbacks EXCEPT ![c] =
                                 [NoCallback EXCEPT !.pc = "begin", !.id = Head(events).pod]]
          PROVE  CallbacksKeyed'
      <4> DEFINE new == [NoCallback EXCEPT !.pc = "begin", !.id = Head(events).pod]
      <4>1. new.pc = "begin" /\ new.id = Head(events).pod
        BY DEF NoCallback
      <4> HIDE DEF new
      <4>2. /\ callbacks'[c] = new
            /\ \A q \in Callbacks : q # c => callbacks'[q] = callbacks[q]
        BY <1>0, <3>2 DEF CallbacksOK, new
      <4>3. Created(new.id)
        BY <1>0, <2>1, <4>1 DEF EventsKeyed, Keyed, e
      <4>4. UNCHANGED sandboxes
        BY DEF WatchLoop
      <4> QED BY <1>0, <2>3, <4>1, <4>2, <4>3, <4>4
              DEF CallbacksKeyed, Created, Assigned, Tracked
    <3> QED BY <1>1, <3>1, <3>2 DEF WatchStep
  <2>6. DownIsQuiet'
    BY <1>0, <1>1, <2>3 DEF WatchLoop, WatchStep, DownIsQuiet, control
  <2> QED BY <1>P, <2>2, <2>3, <2>4, <2>5, <2>6 DEF KeyInv
<1>2. ASSUME WatchOpens
      PROVE  KeyInv'
  <2>1. CacheKeyed' /\ PodsKeyed' /\ CallbacksKeyed' /\ UNCHANGED pods
    BY <1>2, PartsKept DEF WatchOpens, KubeOpenWatch
  <2>2. EventsKeyed'
    <3>1. PICK order \in [1..Cardinality(Existing) -> Existing] :
            events' = [i \in DOMAIN order |-> Event("update", order[i], pods[order[i]])]
      BY <1>2 DEF WatchOpens, KubeOpenWatch
    <3>2. ASSUME NEW i \in DOMAIN events'
          PROVE  /\ order[i] \in Existing
                 /\ events'[i].pod = order[i] /\ events'[i].key = pods[order[i]].key
      BY <3>1, <3>2 DEF Event
    <3> QED BY <2>1, <3>2 DEF EventsKeyed, Keyed, Created, Existing, Exists
  <2>3. DownIsQuiet'
    BY <1>2 DEF WatchOpens, WatchLoop, DownIsQuiet, control
  <2> QED BY <1>P, <2>1, <2>2, <2>3 DEF KeyInv
<1>3. ASSUME WatchBreaks
      PROVE  KeyInv'
  <2>1. CacheKeyed' /\ PodsKeyed' /\ CallbacksKeyed'
    BY <1>3, PartsKept DEF WatchBreaks, KubeDropWatch
  <2>2. EventsKeyed' /\ DownIsQuiet'
    BY <1>0, <1>3 DEF WatchBreaks, KubeDropWatch, EventsKeyed, DownIsQuiet, WatchLoop, control
  <2> QED BY <1>P, <2>1, <2>2 DEF KeyInv
<1> QED BY <1>1, <1>2, <1>3 DEF WatchLoop

\* Recovery takes both the key and the address from the pod itself.
LEMMA RecoveryKeyed ==
  ASSUME TypeInv, KeyInv, Boot, NEW dialed \in SUBSET SandboxIds, Recovery(dialed)
  PROVE  KeyInv'
<1>0. /\ UNCHANGED <<kube, pool, requests, callbacks, history>>
      /\ UNCHANGED <<pods, events, watching, issued>>
      /\ agent = "down" /\ agent' # "down"
  BY DEF Boot, Recovery, kube, history
<1>1. \A id \in Recoverable : id \in issued /\ Created(id) /\ id \in SandboxIds
  BY DEF KeyInv, PodsKeyed, Recoverable, Exists, Created
<1>2. /\ Tracked' = Recoverable
      /\ \A id \in Recoverable : sandboxes'[id].key = pods[id].key
      /\ \A id \in Recoverable : sandboxes'[id].podIP \in {id, None}
  BY DEF Recovery, RecoveredRecord, Tracked
<1>3. /\ Cached' = Recoverable
      /\ \A id \in Recoverable : cache'[id].pod = id /\ cache'[id].key = pods[id].key
  BY DEF Recovery, RecoverCache, Cached
<1>4. SandboxesKeyed'
  BY <1>0, <1>1, <1>2 DEF SandboxesKeyed, Keyed, Created
<1>5. PodsKeyed'
  BY <1>0, <1>2 DEF KeyInv, PodsKeyed, Created, Assigned
<1>6. CacheKeyed'
  BY <1>0, <1>1, <1>2, <1>3, IdsAssumption DEF CacheKeyed, Keyed, Created, Assigned
<1>7. EventsKeyed' /\ PoolKeyed'
  BY <1>0 DEF KeyInv, EventsKeyed, PoolKeyed, Keyed, Created
<1>8. /\ \A r \in Requests : requests[r].pc = "idle"
      /\ \A c \in Callbacks : callbacks[c].pc = "idle"
  BY <1>0 DEF KeyInv, DownIsQuiet
<1>9. RequestsKeyed' /\ CallbacksKeyed' /\ DownIsQuiet'
  BY <1>0, <1>8 DEF RequestsKeyed, CallbacksKeyed, DownIsQuiet, Creating, Claimed, Addressed
<1> QED BY <1>4, <1>5, <1>6, <1>7, <1>9 DEF KeyInv

\* A crash of the agent keeps the invariant: it forgets all that could be wrong.
LEMMA CrashKeyed ==
  ASSUME KeyInv, Crash
  PROVE  KeyInv'
<1>0. /\ UNCHANGED <<pods, issued>> /\ events' = <<>> /\ ~watching'
      /\ Tracked' = {} /\ Cached' = {}
      /\ pool' = [k \in Keys |-> <<>>]
      /\ \A r \in Requests : requests'[r].pc = "idle"
      /\ \A c \in Callbacks : callbacks'[c].pc = "idle"
  BY DEF Crash, KubeDropWatch, history, Tracked, Cached, EmptyMap, NoRequest, NoCallback
<1>1. SandboxesKeyed' /\ CacheKeyed' /\ EventsKeyed' /\ PoolKeyed' /\ DownIsQuiet'
  BY <1>0 DEF SandboxesKeyed, CacheKeyed, EventsKeyed, PoolKeyed, DownIsQuiet
<1>2. PodsKeyed'
  BY <1>0 DEF KeyInv, PodsKeyed, Created, Assigned
<1>3. RequestsKeyed' /\ CallbacksKeyed'
  BY <1>0 DEF RequestsKeyed, CallbacksKeyed, Creating, Claimed, Addressed
<1> QED BY <1>1, <1>2, <1>3 DEF KeyInv

\* The invariant holds at first,
LEMMA InitKeyed == Init => KeyInv
<1> SUFFICES ASSUME Init PROVE KeyInv
  OBVIOUS
<1>1. /\ Tracked = {} /\ Cached = {} /\ events = <<>> /\ ~watching
      /\ pool = [k \in Keys |-> <<>>]
      /\ \A p \in PodIds : ~Created(p)
      /\ \A r \in Requests : requests[r].pc = "idle"
      /\ \A c \in Callbacks : callbacks[c].pc = "idle"
  BY DEF Init, ManagerInit, CacheInit, KubeInit, PoolInit, Tracked, Cached, EmptyMap, Created,
         Uncreated, NoRequest, NoCallback
<1>2. \A id \in SandboxIds : id \in PodIds
  BY DEF PodIds
<1> QED BY <1>1, <1>2
        DEF KeyInv, SandboxesKeyed, PodsKeyed, EventsKeyed, CacheKeyed, PoolKeyed, RequestsKeyed,
            CallbacksKeyed, DownIsQuiet, Creating, Claimed, Addressed

\* and every step keeps it.
LEMMA NextKeyed == TypeInv /\ KeyInv /\ [Next]_vars => KeyInv'
<1> SUFFICES ASSUME TypeInv, KeyInv, [Next]_vars PROVE KeyInv'
  OBVIOUS
<1>0. TypeInv' /\ PodsStay /\ issued \subseteq issued'
  BY NextType, StepsStay
<1>1. CASE \E dialed \in SUBSET SandboxIds : Recovery(dialed)
  <2>1. agent = "down" /\ agent' = "filling"
    BY <1>1 DEF Recovery
  <2>2. Boot
    BY <1>1, <2>1
       DEF Next, Client, CreateRequest, DeleteRequest, Keepalive, RequestStep, CallbackStep,
           FillStep, ReaperStep, WatchLoop, Crash, PodStep, Tick, agentVars, control, vars
  <2> QED BY <1>1, <2>2, RecoveryKeyed
<1>2. CASE SandboxesStay
  <2>1. Stays
    BY <1>0, <1>2 DEF Stays
  <2>2. CASE Client
    BY <2>1, <2>2, ClientKeyed
  <2>3. ASSUME NEW r \in Requests, RequestStep(r)
        PROVE  KeyInv'
    BY <2>1, <2>3, RequestKeyed
  <2>4. ASSUME NEW c \in Callbacks, CallbackStep(c)
        PROVE  KeyInv'
    BY <2>1, <2>4, CallbackKeyed
  <2>5. ASSUME NEW f \in Fillers, FillStep(f)
        PROVE  KeyInv'
    BY <2>1, <2>5, FillKeyed
  <2>6. CASE ReaperStep
    BY <2>1, <2>6, ReaperKeyed
  <2>7. CASE WatchLoop
    BY <2>1, <2>7, WatchLoopKeyed
  <2>8. CASE Boot
    <3>1. CASE \E dialed \in SUBSET SandboxIds : Recovery(dialed)
      BY <2>8, <3>1, RecoveryKeyed
    <3>2. CASE RecoveryFails \/ (\E key \in Keys : BootFill(key)) \/ BootServe
      <4>1. UNCHANGED <<sandboxes, pods, events, cache, pool, requests, callbacks>> /\ agent' # "down"
        BY <2>8, <3>2 DEF Boot, RecoveryFails, BootFill, BootServe, kube
      <4> QED BY <2>1, <4>1, PartsKept DEF Stays, KeyInv, DownIsQuiet
    <3> QED BY <2>8, <3>1, <3>2 DEF Boot
  <2>9. CASE Crash
    BY <2>9, CrashKeyed
  <2>10. ASSUME NEW p \in PodIds, PodStep(p)
         PROVE  KeyInv'
    <3>1. UNCHANGED <<sandboxes, cache, pool, requests, callbacks, agent>>
      BY <2>10 DEF PodStep, agentVars, control
    <3>2. PodsKeyed' /\ EventsKeyed'
      BY <2>1, <2>10, KubeKeyed DEF PodStep, Stays
    <3>3. UNCHANGED watching
      BY <2>10 DEF PodStep, PodBecomesReady, PodGone, PodLosesReadiness, PodTouched, Change
    <3> QED BY <2>1, <3>1, <3>2, <3>3, PartsKept DEF Stays, KeyInv
  <2>11. CASE Tick \/ UNCHANGED vars
    BY <2>1, <2>11, PartsKept DEF Stays, KeyInv, Tick, vars, agentVars, kube, control
  <2> QED BY <2>2, <2>3, <2>4, <2>5, <2>6, <2>7, <2>8, <2>9, <2>10, <2>11 DEF Next
<1> QED BY <1>1, <1>2, StepsStay

\* Wherever the agent holds the key or the address of a pod, in the registry,
\* the cache, the pool, an event or a goroutine, it agrees with the pod.
THEOREM KeysAgree == Spec => []KeyInv
BY InitKeyed, NextKeyed, TypeCorrect, PTL DEF Spec

\* The pod that serves a sandbox has the template and the capabilities the
\* sandbox was created with (http.go:332-372, warm_pool.go:177-193).
THEOREM ExactMatches == Spec => []ExactMatch
<1>1. KeyInv => ExactMatch
  BY DEF KeyInv, SandboxesKeyed, Keyed, ExactMatch
<1> QED BY <1>1, KeysAgree, PTL
===============================================================================
