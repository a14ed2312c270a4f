------------------------- MODULE SandboxAgentAddresses -------------------------
(***************************************************************************)
(* Theorems about SandboxAgent for every value of its constants: a sandbox *)
(* is running only if its pod was ready, its address does not move, and a  *)
(* warm pod serves no more sandboxes than it was put into the pool for.    *)
(*                                                                         *)
(* None of them is inductive.  A pod's address travels from the pod over   *)
(* watch events and the cache to a goroutine, which stores it later: each  *)
(* of these may hold an old state of the pod, and only their order in the  *)
(* watch says that an address seen once is seen from then on (Places).     *)
(* That a sandbox is never given two pods rests on a request creating the  *)
(* pod of its id only when it has claimed none (Owning).                   *)
(***************************************************************************)
EXTENDS SandboxAgentKeys

\* Nothing the agent has yet to read of pod p says it has no address.
Settled(p) ==
  /\ pods[p].ip
  /\ p \in Cached /\ cache[p].pod = p => cache[p].ip
  /\ \A i \in DOMAIN events : events[i].pod = p => events[i].ip

PodsAddressed ==
  \A p \in PodIds : (pods[p].ready => pods[p].ip) /\ (pods[p].ip => Created(p))

EventsAddressed ==
  /\ ~watching => events = <<>>
  /\ \A i \in DOMAIN events :
       /\ events[i].ready => events[i].ip
       /\ events[i].ip =>
            /\ pods[events[i].pod].ip
            /\ \A j \in DOMAIN events : i < j /\ events[j].pod = events[i].pod => events[j].ip

CacheAddressed ==
  \A x \in Cached :
    /\ cache[x].ready => cache[x].ip
    /\ cache[x].ip => Settled(cache[x].pod)

Places == PodsAddressed /\ EventsAddressed /\ CacheAddressed

-------------------------------------------------------------------------------
(* How addresses travel from the cluster to the cache.                      *)

IPsStay == \A p \in PodIds : pods[p].ip => pods'[p].ip

SettledStay == \A p \in PodIds : Settled(p) => Settled(p)'

\* The cluster changes a pod, or leaves it, and tells the watch.
KubeMoves ==
  /\ IPsStay
  /\ PodsAddressed'
  /\ UNCHANGED watching
  /\ \/ UNCHANGED events
     \/ /\ watching
        /\ \E e \in EventRecord :
             /\ events' = Append(events, e)
             /\ e.ready => e.ip
             /\ e.ip = pods'[e.pod].ip

CacheShrinks == \A x \in Cached' : x \in Cached /\ cache'[x] = cache[x]

\* A change that takes no address away is told with the address.
LEMMA ChangeMoves ==
  ASSUME KubeTypeOK, PodsAddressed, NEW type \in {"update", "deleted"}, NEW p \in PodIds,
         NEW pod \in PodRecord, Change(type, p, pod),
         pods[p].ip => pod.ip, pod.ready => pod.ip, pod.ip => pod.phase # "none"
  PROVE  KubeMoves
<1>1. /\ pods' = [pods EXCEPT ![p] = pod]
      /\ pods \in [PodIds -> PodRecord]
      /\ UNCHANGED watching
  BY DEF Change, KubeTypeOK
<1>2. IPsStay /\ PodsAddressed'
  BY <1>1 DEF IPsStay, PodsAddressed, Created
<1>3. CASE watching
  <2> DEFINE e == Event(type, p, pod)
  <2>1. e \in EventRecord /\ e.ready = pod.ready /\ e.ip = pod.ip /\ e.pod = p
    BY DEF Event, EventRecord, PodRecord
  <2>2. events' = Append(events, e)
    BY <1>3 DEF Change
  <2> HIDE DEF e
  <2>3. e.ip = pods'[e.pod].ip
    BY <1>1, <2>1
  <2> QED
    BY <1>1, <1>2, <1>3, <2>1, <2>2, <2>3 DEF KubeMoves
<1>4. CASE ~watching
  BY <1>1, <1>2, <1>4 DEF Change, KubeMoves
<1> QED
  BY <1>3, <1>4

\* Every API call, and everything the cluster does by itself, is such a change.
LEMMA KubeCallsMove ==
  ASSUME KubeTypeOK, PodsAddressed, NEW p \in PodIds
  PROVE  /\ \A k \in Keys, t \in Int : KubeCreate(p, k, t) => KubeMoves
         /\ KubeDelete(p) => KubeMoves
         /\ KubeForceDelete(p) => KubeMoves
         /\ PodBecomesReady(p) => KubeMoves
         /\ PodLosesReadiness(p) => KubeMoves
         /\ PodTouched(p) => KubeMoves
         /\ PodGone(p) => KubeMoves
         /\ UNCHANGED kube => KubeMoves
<1>0. /\ pods[p] \in PodRecord
      /\ (pods[p].ready => pods[p].ip) /\ (pods[p].ip => pods[p].phase # "none")
  BY DEF KubeTypeOK, PodsAddressed, Created
<1>1. UNCHANGED kube => KubeMoves
  BY DEF kube, KubeMoves, IPsStay, PodsAddressed, Created
<1>2. ASSUME NEW k \in Keys, NEW t \in Int, KubeCreate(p, k, t) PROVE KubeMoves
  <2> DEFINE pod == [phase |-> "live", ready |-> FALSE, ip |-> FALSE, key |-> k, expiresAt |-> t]
  <2>1. pod \in PodRecord /\ ~pod.ready /\ ~pod.ip
    BY DEF PodRecord
  <2>2. Change("update", p, pod) /\ pods[p].phase = "none"
    BY <1>2 DEF KubeCreate
  <2> HIDE DEF pod
  <2> QED
    BY <1>0, <2>1, <2>2, ChangeMoves
<1>3. ASSUME KubeDelete(p) PROVE KubeMoves
  <2> DEFINE pod == [pods[p] EXCEPT !.phase = "deleting"]
  <2>1. pod \in PodRecord /\ pod.ready = pods[p].ready /\ pod.ip = pods[p].ip /\ pod.phase = "deleting"
    BY <1>0 DEF PodRecord
  <2>2. Change("update", p, pod) \/ UNCHANGED kube
    BY <1>3 DEF KubeDelete, kube, kubeVars
  <2> HIDE DEF pod
  <2> QED
    BY <1>0, <1>1, <2>1, <2>2, ChangeMoves
<1>4. ASSUME KubeForceDelete(p) \/ PodGone(p) PROVE KubeMoves
  <2> DEFINE pod == [pods[p] EXCEPT !.phase = "gone", !.ready = FALSE]
  <2>1. pod \in PodRecord /\ ~pod.ready /\ pod.ip = pods[p].ip /\ pod.phase = "gone"
    BY <1>0 DEF PodRecord
  <2>2. Change("deleted", p, pod)
    BY <1>4 DEF KubeForceDelete, PodGone
  <2> HIDE DEF pod
  <2> QED
    BY <1>0, <2>1, <2>2, ChangeMoves
<1>5. ASSUME PodBecomesReady(p) PROVE KubeMoves
  <2> DEFINE pod == [pods[p] EXCEPT !.ready = TRUE, !.ip = TRUE]
  <2>1. pod \in PodRecord /\ pod.ip /\ pod.phase = pods[p].phase
    BY <1>0 DEF PodRecord
  <2>2. Change("update", p, pod) /\ pods[p].phase = "live"
    BY <1>5 DEF PodBecomesReady
  <2> HIDE DEF pod
  <2> QED
    BY <1>0, <2>1, <2>2, ChangeMoves
<1>6. ASSUME PodLosesReadiness(p) PROVE KubeMoves
  <2> DEFINE pod == [pods[p] EXCEPT !.ready = FALSE]
  <2>1. pod \in PodRecord /\ ~pod.ready /\ pod.ip = pods[p].ip /\ pod.phase = pods[p].phase
    BY <1>0 DEF PodRecord
  <2>2. Change("update", p, pod) /\ pods[p].phase # "none"
    BY <1>6 DEF PodLosesReadiness, Exists
  <2> HIDE DEF pod
  <2> QED
    BY <1>0, <2>1, <2>2, ChangeMoves
<1>7. ASSUME PodTouched(p) PROVE KubeMoves
  BY <1>0, <1>7, ChangeMoves DEF PodTouched
<1> QED
  BY <1>1, <1>2, <1>3, <1>4, <1>5, <1>6, <1>7

\* What is appended to the watch agrees with the pod, so what was settled is.
LEMMA MovesSettle ==
  ASSUME KubeTypeOK, CacheTypeOK, Places, KubeMoves, CacheShrinks
  PROVE  Places' /\ SettledStay /\ IPsStay
<1>0. /\ IPsStay /\ PodsAddressed' /\ UNCHANGED watching
      /\ \A i \in DOMAIN events : events[i].pod \in PodIds
      /\ \A x \in Cached : cache[x].pod \in PodIds
      /\ events \in Seq(EventRecord)
  BY EventTypes DEF KubeMoves, KubeTypeOK, CacheTypeOK, IsMap, PodInfo, Cached
<1>1. EventsAddressed' /\ \A p \in PodIds :
          Settled(p) => \A i \in DOMAIN events' : events'[i].pod = p => events'[i].ip
  <2>1. CASE UNCHANGED events
    BY <1>0, <2>1 DEF Places, EventsAddressed, Settled, IPsStay
  <2>2. ASSUME watching, NEW e \in EventRecord, events' = Append(events, e), e.ready => e.ip,
               e.ip = pods'[e.pod].ip
        PROVE  EventsAddressed' /\ \A p \in PodIds :
                 Settled(p) => \A i \in DOMAIN events' : events'[i].pod = p => events'[i].ip
    <3>1. ASSUME NEW i \in DOMAIN events'
          PROVE  \/ i \in DOMAIN events /\ events'[i] = events[i]
                 \/ i = Len(events) + 1 /\ events'[i] = e
      BY <1>0, <2>2, <3>1
    <3>2. DOMAIN events = 1..Len(events) /\ Len(events) \in Nat
      BY <1>0
    <3>3. e.pod \in PodIds
      BY DEF EventRecord
    <3>4. ASSUME NEW i \in DOMAIN events'
          PROVE  /\ events'[i].ready => events'[i].ip
                 /\ events'[i].ip => pods'[events'[i].pod].ip
      <4>1. CASE i \in DOMAIN events /\ events'[i] = events[i]
        BY <1>0, <4>1 DEF Places, EventsAddressed, IPsStay
      <4>2. CASE i = Len(events) + 1 /\ events'[i] = e
        BY <2>2, <4>2
      <4> QED
        BY <3>1, <4>1, <4>2
    <3>5. ASSUME NEW i \in DOMAIN events', NEW j \in DOMAIN events', events'[i].ip, i < j,
                 events'[j].pod = events'[i].pod
          PROVE  events'[j].ip
      <4>1. i \in DOMAIN events /\ events'[i] = events[i]
        BY <3>1, <3>2, <3>5
      <4>2. CASE j \in DOMAIN events /\ events'[j] = events[j]
        BY <3>5, <4>1, <4>2 DEF Places, EventsAddressed
      <4>3. CASE events'[j] = e
        BY <2>2, <3>4, <3>5, <4>3
      <4> QED
        BY <3>1, <4>2, <4>3
    <3>6. ASSUME NEW p \in PodIds, Settled(p), NEW i \in DOMAIN events', events'[i].pod = p
          PROVE  events'[i].ip
      <4>1. CASE i \in DOMAIN events /\ events'[i] = events[i]
        BY <3>6, <4>1 DEF Settled
      <4>2. CASE events'[i] = e
        BY <1>0, <2>2, <3>6, <4>2 DEF Settled, IPsStay
      <4> QED
        BY <3>1, <4>1, <4>2
    <3> QED
      BY <1>0, <2>2, <3>4, <3>5, <3>6 DEF EventsAddressed
  <2> QED
    BY <2>1, <2>2 DEF KubeMoves
<1>2. SettledStay
  BY <1>0, <1>1 DEF SettledStay, Settled, IPsStay, CacheShrinks, Cached
<1>3. CacheAddressed'
  <2> SUFFICES ASSUME NEW x \in Cached'
               PROVE  /\ cache'[x].ready => cache'[x].ip
                      /\ cache'[x].ip => Settled(cache[x].pod)'
    BY DEF CacheAddressed, Cached
  <2>1. x \in Cached /\ cache'[x] = cache[x]
    BY DEF CacheShrinks
  <2>2. /\ cache[x].ready => cache[x].ip
        /\ cache[x].ip => Settled(cache[x].pod)
    BY <2>1 DEF Places, CacheAddressed
  <2>3. PICK p \in PodIds : p = cache[x].pod
    BY <1>0, <2>1
  <2>4. Settled(p) => Settled(p)'
    BY <1>2 DEF SettledStay
  <2>5. p = cache'[x].pod
    BY <2>1, <2>3
  <2> QED
    BY <2>1, <2>2, <2>3, <2>4, <2>5
<1> QED
  BY <1>0, <1>1, <1>2, <1>3 DEF Places

\* Receiving an event: whatever the watch still holds of its pod came later,
\* and has the address if this event has.
LEMMA ObserveSettles ==
  ASSUME KubeTypeOK, CacheTypeOK, Places, WatchStep
  PROVE  /\ Places' /\ SettledStay /\ IPsStay
         /\ \A p \in PodIds : Announces(Head(events)) /\ p = Head(events).pod => Settled(p)'
<1> DEFINE e == events[1]
<1>1. /\ 1 \in DOMAIN events /\ Head(events) = e
      /\ e \in EventRecord /\ e.pod \in PodIds
      /\ \A i \in DOMAIN events' : i + 1 \in DOMAIN events /\ events'[i] = events[i + 1] /\ 1 < i + 1
      /\ \A i, j \in DOMAIN events' : i < j => i + 1 < j + 1
      /\ UNCHANGED <<pods, watching>>
  BY EventTypes DEF WatchStep, KubeTypeOK
<1> HIDE DEF e
<1>2. /\ \A x \in Cached : cache[x].pod \in PodIds
      /\ Observe(e)
  BY <1>1 DEF WatchStep, CacheTypeOK, IsMap, PodInfo, Cached
<1>3. PodsAddressed' /\ IPsStay
  BY <1>1 DEF Places, PodsAddressed, IPsStay, Created
<1>4. /\ e.ready => e.ip
      /\ e.ip => pods[e.pod].ip /\ \A i \in DOMAIN events' : events'[i].pod = e.pod => events'[i].ip
  BY <1>1 DEF Places, EventsAddressed, e
<1>5. EventsAddressed'
  <2>1. watching
    BY DEF WatchStep
  <2>2. ASSUME NEW i \in DOMAIN events'
        PROVE  /\ events'[i].ready => events'[i].ip
               /\ events'[i].ip => pods'[events'[i].pod].ip
    BY <1>1, <2>2 DEF Places, EventsAddressed
  <2>3. ASSUME NEW i \in DOMAIN events', NEW j \in DOMAIN events', events'[i].ip, i < j,
               events'[j].pod = events'[i].pod
        PROVE  events'[j].ip
    <3>1. /\ i + 1 \in DOMAIN events /\ j + 1 \in DOMAIN events /\ i + 1 < j + 1
          /\ events'[i] = events[i + 1] /\ events'[j] = events[j + 1]
      BY <1>1, <2>3
    <3> QED
      BY <2>3, <3>1 DEF Places, EventsAddressed
  <2> QED
    BY <1>1, <2>1, <2>2, <2>3 DEF EventsAddressed
<1>6. ASSUME NEW x \in Cached'
      PROVE  \/ x = e.pod /\ cache'[x] = Info(e)
             \/ x \in Cached /\ cache'[x] = cache[x]
  BY <1>2, <1>6 DEF Observe, Put, Delete, Restrict, Cached
<1>7. SettledStay
  <2> SUFFICES ASSUME NEW p \in PodIds, Settled(p) PROVE Settled(p)'
    BY DEF SettledStay
  <2>1. /\ pods'[p].ip /\ (e.pod = p => e.ip)
        /\ \A i \in DOMAIN events' : events'[i].pod = p => events'[i].ip
    BY <1>1 DEF Settled, e
  <2>2. ASSUME p \in Cached', cache'[p].pod = p PROVE cache'[p].ip
    BY <1>6, <2>1, <2>2 DEF Settled, Info
  <2> QED
    BY <2>1, <2>2 DEF Settled, Cached
<1>8. ASSUME NEW p \in PodIds, p = e.pod, e.ip, e.type = "update" PROVE Settled(p)'
  <2>1. cache'[e.pod] = Info(e)
    BY <1>2, <1>8 DEF Observe, Put
  <2> QED
    BY <1>1, <1>4, <1>8, <2>1 DEF Settled, Cached, Info
<1>9. CacheAddressed'
  <2> SUFFICES ASSUME NEW x \in Cached'
               PROVE  /\ cache'[x].ready => cache'[x].ip
                      /\ cache'[x].ip => Settled(cache[x].pod)'
    BY DEF CacheAddressed, Cached
  <2>1. CASE x = e.pod /\ cache'[x] = Info(e)
    <3>1. e.type = "update"
      BY <1>2, <2>1 DEF Observe, Delete, Restrict, Cached
    <3>2. cache'[x].pod = e.pod /\ cache'[x].ip = e.ip /\ cache'[x].ready = e.ready
      BY <2>1 DEF Info
    <3>3. PICK p \in PodIds : p = e.pod
      BY <1>1
    <3>4. e.ip => Settled(p)'
      BY <1>8, <3>1, <3>3
    <3> QED
      BY <1>4, <3>2, <3>3, <3>4
  <2>2. CASE x \in Cached /\ cache'[x] = cache[x]
    <3>1. /\ cache[x].ready => cache[x].ip
          /\ cache[x].ip => Settled(cache[x].pod)
      BY <2>2 DEF Places, CacheAddressed
    <3>2. PICK p \in PodIds : p = cache[x].pod
      BY <1>2, <2>2
    <3>3. (Settled(p) => Settled(p)') /\ p = cache'[x].pod
      BY <1>7, <2>2, <3>2 DEF SettledStay
    <3> QED
      BY <2>2, <3>1, <3>2, <3>3
  <2> QED
    BY <1>6, <2>1, <2>2
<1>10. \A p \in PodIds : Announces(e) /\ p = e.pod => Settled(p)'
  BY <1>4, <1>8 DEF Announces
<1> QED
  BY <1>1, <1>3, <1>5, <1>7, <1>9, <1>10 DEF Places

\* A new watch begins with what the pods are now; a broken one has nothing.
LEMMA WatchSettles ==
  ASSUME KubeTypeOK, CacheTypeOK, Places, WatchOpens \/ WatchBreaks
  PROVE  Places' /\ SettledStay /\ IPsStay
<1>1. UNCHANGED <<pods, cache>>
  BY DEF WatchOpens, WatchBreaks, KubeOpenWatch, KubeDropWatch
<1>2. /\ ~watching' => events' = <<>>
      /\ \A i \in DOMAIN events' :
           events'[i].pod \in PodIds /\ events'[i].ready = pods[events'[i].pod].ready
                                     /\ events'[i].ip = pods[events'[i].pod].ip
  <2>1. CASE WatchBreaks
    BY <2>1 DEF WatchBreaks, KubeDropWatch
  <2>2. CASE WatchOpens
    <3>1. PICK order \in [1..Cardinality(Existing) -> Existing] :
            events' = [i \in DOMAIN order |-> Event("update", order[i], pods[order[i]])]
      BY <2>2 DEF WatchOpens, KubeOpenWatch
    <3>2. ASSUME NEW i \in DOMAIN events'
          PROVE  /\ order[i] \in Existing
                 /\ events'[i].pod = order[i] /\ events'[i].ready = pods[order[i]].ready
                 /\ events'[i].ip = pods[order[i]].ip
      BY <3>1, <3>2 DEF Event
    <3>3. watching' /\ Existing \subseteq PodIds
      BY <2>2 DEF WatchOpens, KubeOpenWatch, Existing
    <3> QED
      BY <3>2, <3>3
  <2> QED
    BY <2>1, <2>2
<1>3. PodsAddressed' /\ EventsAddressed' /\ IPsStay
  BY <1>1, <1>2 DEF Places, PodsAddressed, EventsAddressed, IPsStay, Created
<1>4. ASSUME NEW p \in PodIds, Settled(p) PROVE Settled(p)'
  BY <1>1, <1>2, <1>4 DEF Settled, Cached
<1>5. CacheAddressed'
  <2> SUFFICES ASSUME NEW x \in Cached
               PROVE  /\ cache[x].ready => cache[x].ip
                      /\ cache[x].ip => Settled(cache[x].pod)'
    BY <1>1 DEF CacheAddressed, Cached
  <2>1. /\ cache[x].ready => cache[x].ip
        /\ cache[x].ip => Settled(cache[x].pod)
    BY DEF Places, CacheAddressed
  <2>2. PICK p \in PodIds : p = cache[x].pod
    BY DEF CacheTypeOK, IsMap, PodInfo, Cached
  <2> QED
    BY <1>1, <1>4, <2>1, <2>2
<1> QED
  BY <1>3, <1>4, <1>5 DEF Places, SettledStay

\* A claim moves the cache entry of a warm pod under the id of the sandbox;
\* it is still an entry about the warm pod.
LEMMA RemapSettles ==
  ASSUME TypeInv, KeyInv, Places, NEW warm \in WarmIds, NEW id \in SandboxIds,
         RemapPod(warm, id), UNCHANGED kube
  PROVE  Places' /\ SettledStay /\ IPsStay
<1>0. /\ \A x \in Cached : cache[x].pod \in PodIds
      /\ warm \in Cached => cache[warm].pod = warm
      /\ warm # id /\ UNCHANGED <<pods, watching, events>>
  BY TypeInvParts, IdsAssumption
     DEF SharedOK, CacheTypeOK, IsMap, PodInfo, Cached, KeyInv, CacheKeyed, kube
<1>1. ASSUME NEW x \in Cached'
      PROVE  \/ x \in Cached /\ cache'[x] = cache[x]
             \/ x = id /\ warm \in Cached /\ cache'[x] = cache[warm]
  BY <1>0, <1>1 DEF RemapPod, Put, Delete, Restrict, Cached
<1>2. PodsAddressed' /\ EventsAddressed' /\ IPsStay
  BY <1>0 DEF Places, PodsAddressed, EventsAddressed, IPsStay, Created
<1>3. ASSUME NEW p \in PodIds, Settled(p) PROVE Settled(p)'
  <2>1. ASSUME p \in Cached', cache'[p].pod = p PROVE cache'[p].ip
    BY <1>0, <1>1, <1>3, <2>1 DEF Settled
  <2> QED
    BY <1>0, <1>3, <2>1 DEF Settled, Cached
<1>4. CacheAddressed'
  <2> SUFFICES ASSUME NEW x \in Cached'
               PROVE  /\ cache'[x].ready => cache'[x].ip
                      /\ cache'[x].ip => Settled(cache[x].pod)'
    BY DEF CacheAddressed, Cached
  <2>1. PICK y \in Cached : cache'[x] = cache[y]
    BY <1>1
  <2>2. /\ cache[y].ready => cache[y].ip
        /\ cache[y].ip => Settled(cache[y].pod)
    BY DEF Places, CacheAddressed
  <2>3. PICK p \in PodIds : p = cache[y].pod
    BY <1>0
  <2>4. (Settled(p) => Settled(p)') /\ p = cache'[x].pod
    BY <1>3, <2>1, <2>3
  <2> QED
    BY <2>1, <2>2, <2>3, <2>4
<1> QED
  BY <1>2, <1>3, <1>4 DEF Places, SettledStay

\* The listing at start-up reads the pods themselves, before any watch.
LEMMA RecoverySettles ==
  ASSUME KeyInv, Places, Boot, NEW dialed \in SUBSET SandboxIds, Recovery(dialed)
  PROVE  Places' /\ SettledStay /\ IPsStay
<1>0. /\ UNCHANGED <<pods, watching, events>>
      /\ events = <<>>
  BY DEF Boot, Recovery, kube, KeyInv, DownIsQuiet, Places, EventsAddressed
<1>1. \A x \in Cached' : /\ cache'[x].pod = x /\ cache'[x].ready = pods[x].ready
                         /\ cache'[x].ip = pods[x].ip /\ x \in PodIds
  BY DEF Recovery, RecoverCache, Cached, Recoverable, PodIds
<1>2. PodsAddressed' /\ EventsAddressed' /\ IPsStay
  BY <1>0 DEF Places, PodsAddressed, EventsAddressed, IPsStay, Created
<1>3. ASSUME NEW p \in PodIds, pods[p].ip PROVE Settled(p)'
  BY <1>0, <1>1, <1>3 DEF Settled, Cached
<1>4. CacheAddressed'
  <2> SUFFICES ASSUME NEW x \in Cached'
               PROVE  /\ cache'[x].ready => cache'[x].ip
                      /\ cache'[x].ip => Settled(cache[x].pod)'
    BY DEF CacheAddressed, Cached
  <2>1. x = cache'[x].pod
    BY <1>1
  <2> QED
    BY <1>1, <1>3, <2>1 DEF Places, PodsAddressed
<1> QED
  BY <1>2, <1>3, <1>4 DEF Places, SettledStay, Settled

\* Every step.
LEMMA PlacesStep ==
  ASSUME TypeInv, KeyInv, Places, [Next]_vars
  PROVE  Places' /\ SettledStay /\ IPsStay
<1>0. /\ SharedOK /\ RequestsOK /\ ReaperOK /\ FillsOK /\ KubeTypeOK /\ CacheTypeOK
      /\ PodsAddressed /\ SandboxIds \subseteq PodIds
      /\ \A id \in SandboxIds : promise[id].last \in Int
  BY TypeInvParts DEF SharedOK, Places, PodIds
<1>U. UNCHANGED kube => KubeMoves
  BY <1>0 DEF kube, KubeMoves, IPsStay, PodsAddressed, Created
<1>C. /\ UNCHANGED cache => CacheShrinks
      /\ \A id : Forget(id) => CacheShrinks
  BY DEF CacheShrinks, Cached, Forget, Delete, Restrict
<1>M. KubeMoves /\ CacheShrinks => Places' /\ SettledStay /\ IPsStay
  BY <1>0, MovesSettle
<1>1. CASE Client
  BY <1>1, <1>U, <1>C, <1>M DEF Client, CreateRequest, DeleteRequest, Keepalive
<1>2. ASSUME NEW r \in Requests, RequestStep(r)
      PROVE  Places' /\ SettledStay /\ IPsStay
  <2>1. /\ requests[r].pc # "idle" => requests[r].id \in PodIds /\ requests[r].id \in SandboxIds
        /\ requests[r].pc = "create" => requests[r].key \in Keys
        /\ requests[r].pc = "remap" => requests[r].warm \in WarmIds
    BY <1>0 DEF RequestsOK, RequestSlots, Creating, Claimed, SharedOK
  <2>2. CASE ClaimRemap(r)
    BY <2>1, <2>2, RemapSettles DEF ClaimRemap, kube
  <2>3. CASE ColdCreate(r) \/ ColdCreateFails(r)
    BY <1>0, <1>U, <1>C, <1>M, <2>1, <2>3, KubeCallsMove DEF ColdCreate, ColdCreateFails
  <2>4. CASE DeletePod(r) \/ DeletePodFails(r)
    BY <1>0, <1>U, <1>C, <1>M, <2>1, <2>4, KubeCallsMove DEF DeletePod, DeletePodFails
  <2> QED
    BY <1>2, <1>U, <1>C, <1>M, <2>2, <2>3, <2>4
       DEF RequestStep, ClaimWarm, ClaimNothing, ClaimInfo, ClaimSetIP, ClaimDone, CreateRollback,
           DeleteForget, DeleteDisconnect, DeleteStop, DeleteRemove
<1>3. ASSUME NEW c \in Callbacks, CallbackStep(c)
      PROVE  Places' /\ SettledStay /\ IPsStay
  BY <1>3, <1>U, <1>C, <1>M DEF CallbackStep
<1>4. ASSUME NEW f \in Fillers, FillStep(f)
      PROVE  Places' /\ SettledStay /\ IPsStay
  <2>1. fills[f].pc # "idle" => fills[f].key \in Keys
    BY <1>0 DEF FillsOK, FillSlots
  <2>2. KubeMoves
    BY <1>0, <1>4, <1>U, <2>1, KubeCallsMove DEF FillStep, FillCount, FillCreate, FillFails, PodIds
  <2> QED
    BY <1>4, <1>C, <1>M, <2>2 DEF FillStep
<1>5. CASE ReaperStep
  <2>1. /\ UNCHANGED kube => KubeMoves
        /\ \A id \in SandboxIds : KubeDelete(id) \/ KubeForceDelete(id) => KubeMoves
    BY <1>0, <1>U, KubeCallsMove
  <2>2. KubeMoves
    BY <1>0, <1>5, <2>1
       DEF ReaperStep, ReaperTick, ReaperForces, ReaperForceFails, ReaperStops, ReaperForceForgets,
           ReaperScans, ReaperDeletes, ReaperDeleteFails, ReaperForgets, ReaperDisconnects,
           ReaperRemoves, ReaperOK, ReaperSlot
  <2>3. CacheShrinks
    BY <1>5, <1>C
       DEF ReaperStep, ReaperTick, ReaperForces, ReaperForceFails, ReaperStops, ReaperForceForgets,
           ReaperScans, ReaperDeletes, ReaperDeleteFails, ReaperForgets, ReaperDisconnects,
           ReaperRemoves
  <2> QED
    BY <1>M, <2>2, <2>3
<1>6. CASE WatchLoop
  BY <1>0, <1>6, ObserveSettles, WatchSettles DEF WatchLoop
<1>7. CASE Boot
  <2>1. ASSUME NEW dialed \in SUBSET SandboxIds, Recovery(dialed)
        PROVE  Places' /\ SettledStay /\ IPsStay
    BY <1>7, <2>1, RecoverySettles
  <2>2. CASE RecoveryFails \/ (\E key \in Keys : BootFill(key)) \/ BootServe
    BY <1>7, <1>U, <1>C, <1>M, <2>2 DEF Boot, RecoveryFails, BootFill, BootServe
  <2> QED
    BY <1>7, <2>1, <2>2 DEF Boot
<1>8. CASE Crash
  <2>1. UNCHANGED pods /\ events' = <<>> /\ Cached' = {}
    BY <1>8 DEF Crash, KubeDropWatch, Cached, EmptyMap
  <2> QED
    BY <2>1 DEF Places, PodsAddressed, EventsAddressed, CacheAddressed, SettledStay, Settled,
                IPsStay, Created
<1>9. ASSUME NEW p \in PodIds, PodStep(p)
      PROVE  Places' /\ SettledStay /\ IPsStay
  BY <1>0, <1>9, <1>C, <1>M, KubeCallsMove DEF PodStep, agentVars
<1>10. CASE Tick \/ UNCHANGED vars
  BY <1>10, <1>U, <1>C, <1>M DEF Tick, vars, agentVars
<1> QED
  BY <1>1, <1>2, <1>3, <1>4, <1>5, <1>6, <1>7, <1>8, <1>9, <1>10 DEF Next

-------------------------------------------------------------------------------
(* Which pod a sandbox may have: the one created for it, or one it claimed. *)

\* The phases of a create request that may still give its sandbox a pod, and
\* those before it has set an address and before it has moved a cache entry.
Provisioning == {"claim", "info", "remap", "setip", "setrunning", "create"}
Unaddressed == {"claim", "info", "remap", "setip", "create"}
Unmapped == {"claim", "info", "remap", "create"}

\* A sandbox with a pod of its own has no other.
PodsOwned ==
  \A id \in SandboxIds : Created(id) =>
    /\ id \in Cached => cache[id].pod = id
    /\ id \in Tracked => sandboxes[id].podIP \in {None, id}

RequestOwns(r) ==
  /\ requests[r].pc \in Provisioning => ~Created(requests[r].id)
  /\ requests[r].pc \in Unaddressed /\ requests[r].id \in Tracked =>
       sandboxes[requests[r].id].podIP = None
  /\ requests[r].pc \in Unmapped => requests[r].id \notin Cached

RequestsOwn == \A r \in Requests : RequestOwns(r)

OneCreator ==
  \A r, q \in Requests :
    r # q /\ requests[r].pc \in Creating /\ requests[q].pc \in Creating =>
      requests[r].id # requests[q].id

CallbacksAddressed ==
  \A c \in Callbacks :
    /\ callbacks[c].pc # "idle" => Settled(callbacks[c].id)
    /\ callbacks[c].pc = "setip" => callbacks[c].ip = callbacks[c].id

DownIsEmpty == agent = "down" => Tracked = {}

Owning == PodsOwned /\ RequestsOwn /\ OneCreator /\ CallbacksAddressed /\ DownIsEmpty

-------------------------------------------------------------------------------
\* What leaves the pod, the cache entry and the address of an id alone, or
\* takes them away.
PodQuiet(x) == Created(x)' => Created(x)
CacheQuiet(x) == x \in Cached' => x \in Cached /\ cache'[x].pod = cache[x].pod
SandboxQuiet(x) ==
  x \in Tracked' => x \in Tracked /\ sandboxes'[x].podIP = sandboxes[x].podIP

\* Only CreatePod creates a pod, and only the one it is asked for.
LEMMA KubeCallsQuiet ==
  ASSUME KubeTypeOK, NEW p \in PodIds, NEW x \in PodIds
  PROVE  /\ \A k, t : x # p /\ KubeCreate(p, k, t) => PodQuiet(x)
         /\ KubeDelete(p) => PodQuiet(x)
         /\ KubeForceDelete(p) => PodQuiet(x)
         /\ PodBecomesReady(p) => PodQuiet(x)
         /\ PodLosesReadiness(p) => PodQuiet(x)
         /\ PodTouched(p) => PodQuiet(x)
         /\ PodGone(p) => PodQuiet(x)
         /\ UNCHANGED pods => PodQuiet(x)
<1>0. pods \in [PodIds -> PodRecord]
  BY DEF KubeTypeOK
<1>1. ASSUME NEW type, NEW pod, Change(type, p, pod), x = p => Created(p)
      PROVE  PodQuiet(x)
  BY <1>0, <1>1 DEF Change, PodQuiet, Created
<1>2. UNCHANGED pods => PodQuiet(x)
  BY DEF PodQuiet, Created
<1>3. \A k, t : x # p /\ KubeCreate(p, k, t) => PodQuiet(x)
  BY <1>1 DEF KubeCreate
<1>4. KubeDelete(p) => PodQuiet(x)
  BY <1>1, <1>2 DEF KubeDelete, kubeVars, Exists, Created
<1>5. /\ KubeForceDelete(p) => PodQuiet(x)
      /\ PodGone(p) => PodQuiet(x)
  BY <1>1 DEF KubeForceDelete, PodGone, Exists, Created
<1>6. /\ PodBecomesReady(p) => PodQuiet(x)
      /\ PodLosesReadiness(p) => PodQuiet(x)
      /\ PodTouched(p) => PodQuiet(x)
  BY <1>1 DEF PodBecomesReady, PodLosesReadiness, PodTouched, Exists, Created
<1> QED
  BY <1>2, <1>3, <1>4, <1>5, <1>6

\* Of the calls of the registry only Create and SetPodIP touch an address.
LEMMA ManagerCallsQuiet ==
  ASSUME ManagerTypeOK, NEW x
  PROVE  /\ \A id, k, t : x # id /\ Create(id, k, t) => SandboxQuiet(x)
         /\ \A id, s : SetStatus(id, s) => SandboxQuiet(x)
         /\ \A id, ip : x # id /\ SetPodIP(id, ip) => SandboxQuiet(x)
         /\ \A id : Remove(id) => SandboxQuiet(x)
         /\ \A id, t : ExtendTimeout(id, t) => SandboxQuiet(x)
         /\ UNCHANGED sandboxes => SandboxQuiet(x)
<1> USE DEF ManagerTypeOK, IsMap, SandboxRecord, SandboxQuiet, Tracked
<1>1. ASSUME NEW id, NEW k, NEW t, x # id, Create(id, k, t) PROVE SandboxQuiet(x)
  BY <1>1 DEF Create, Put
<1>2. ASSUME NEW id, NEW s, SetStatus(id, s) PROVE SandboxQuiet(x)
  BY <1>2 DEF SetStatus
<1>3. ASSUME NEW id, NEW ip, x # id, SetPodIP(id, ip) PROVE SandboxQuiet(x)
  BY <1>3 DEF SetPodIP
<1>4. ASSUME NEW id, Remove(id) PROVE SandboxQuiet(x)
  BY <1>4 DEF Remove, Delete, Restrict
<1>5. ASSUME NEW id, NEW t, ExtendTimeout(id, t) PROVE SandboxQuiet(x)
  BY <1>5 DEF ExtendTimeout
<1> QED
  BY <1>1, <1>2, <1>3, <1>4, <1>5

\* Of those of the cache, Observe and RemapPod touch the entry they enter.
LEMMA CacheCallsQuiet ==
  ASSUME NEW x
  PROVE  /\ \A e : x # e.pod /\ Observe(e) => CacheQuiet(x)
         /\ \A old, new : x # new /\ RemapPod(old, new) => CacheQuiet(x)
         /\ \A id : Forget(id) => CacheQuiet(x)
         /\ UNCHANGED cache => CacheQuiet(x)
<1> USE DEF CacheQuiet, Cached, Delete, Restrict, Put
<1>1. ASSUME NEW e, x # e.pod, Observe(e) PROVE CacheQuiet(x)
  BY <1>1 DEF Observe
<1>2. ASSUME NEW old, NEW new, x # new, RemapPod(old, new) PROVE CacheQuiet(x)
  BY <1>2 DEF RemapPod
<1>3. ASSUME NEW id, Forget(id) PROVE CacheQuiet(x)
  BY <1>3 DEF Forget
<1> QED
  BY <1>1, <1>2, <1>3

\* A request none of whose id's state moves keeps what it relies on.
LEMMA RequestOwnsKept ==
  ASSUME NEW r \in Requests, RequestOwns(r), requests'[r] = requests[r],
         requests[r].pc \in Provisioning =>
           /\ PodQuiet(requests[r].id)
           /\ CacheQuiet(requests[r].id)
           /\ SandboxQuiet(requests[r].id)
  PROVE  RequestOwns(r)'
BY DEF RequestOwns, Provisioning, Unaddressed, Unmapped, PodQuiet, CacheQuiet, SandboxQuiet,
       Created, Cached, Tracked

\* A callback stays about an address that is settled.
LEMMA CallbacksAddressedKept ==
  ASSUME TypeInv, CallbacksAddressed, SettledStay, UNCHANGED callbacks
  PROVE  CallbacksAddressed'
<1> SUFFICES ASSUME NEW c \in Callbacks
             PROVE  /\ callbacks[c].pc # "idle" => Settled(callbacks[c].id)'
                    /\ callbacks[c].pc = "setip" => callbacks[c].ip = callbacks[c].id
  BY DEF CallbacksAddressed
<1>1. ASSUME callbacks[c].pc # "idle" PROVE Settled(callbacks[c].id)'
  <2>1. PICK p \in PodIds : p = callbacks[c].id
    BY <1>1, TypeInvParts DEF CallbacksOK, CallbackSlots
  <2>2. Settled(p)'
    BY <1>1, <2>1 DEF CallbacksAddressed, SettledStay
  <2> QED
    BY <2>1, <2>2
<1> QED
  BY <1>1 DEF CallbacksAddressed

\* What one step of a handler can move: its own slot, forwards, and of its
\* id the pod, the cache entry or the address, each in a phase of its own.
LEMMA RequestFrames ==
  ASSUME TypeInv, NEW r \in Requests, RequestStep(r)
  PROVE  /\ \A q \in Requests : q # r => requests'[q] = requests[q]
         /\ requests'[r].pc \in Creating =>
              requests[r].pc \in Creating /\ requests'[r].id = requests[r].id
         /\ requests'[r].pc \in Provisioning => requests[r].pc \in {"claim", "info", "remap", "setip"}
         /\ requests'[r].pc \in Unaddressed => requests[r].pc \in {"claim", "info", "remap"}
         /\ requests'[r].pc \in Unmapped => requests[r].pc \in {"claim", "info"}
         /\ \A x \in PodIds : PodQuiet(x) \/ (requests[r].pc = "create" /\ x = requests[r].id)
         /\ \A x \in PodIds : CacheQuiet(x) \/ (requests[r].pc = "remap" /\ x = requests[r].id)
         /\ \A x \in PodIds : SandboxQuiet(x) \/ (requests[r].pc = "setip" /\ x = requests[r].id)
         /\ UNCHANGED <<callbacks, agent>>
<1>0. /\ SharedOK /\ RequestsOK /\ KubeTypeOK /\ ManagerTypeOK
      /\ requests \in [Requests -> RequestRecord] /\ requests[r] \in RequestRecord
      /\ requests[r].pc # "idle" => requests[r].id \in PodIds
  BY TypeInvParts DEF SharedOK, RequestsOK, RequestSlots, PodIds
<1>1. \A q \in Requests : q # r => requests'[q] = requests[q]
  BY <1>0 DEF RequestStep, ClaimWarm, ClaimNothing, ClaimInfo, ClaimRemap, ClaimSetIP, ClaimDone,
           ColdCreate, ColdCreateFails, CreateRollback, DeletePod, DeletePodFails, DeleteForget,
           DeleteDisconnect, DeleteStop, DeleteRemove, Goto, Respond
<1>2. /\ requests'[r].pc \in Creating =>
           requests[r].pc \in Creating /\ requests'[r].id = requests[r].id
      /\ requests'[r].pc \in Provisioning => requests[r].pc \in {"claim", "info", "remap", "setip"}
      /\ requests'[r].pc \in Unaddressed => requests[r].pc \in {"claim", "info", "remap"}
      /\ requests'[r].pc \in Unmapped => requests[r].pc \in {"claim", "info"}
  <2> USE DEF Creating, Provisioning, Unaddressed, Unmapped, RequestRecord
  <2>1. CASE \E warm \in WarmIds : ClaimWarm(r, warm)
    BY <1>0, <2>1 DEF ClaimWarm
  <2>2. CASE ClaimNothing(r)
    BY <1>0, <2>2 DEF ClaimNothing, Goto
  <2>3. CASE ClaimInfo(r)
    BY <1>0, <2>3 DEF ClaimInfo
  <2>4. CASE ClaimRemap(r) \/ ClaimSetIP(r)
    BY <1>0, <2>4 DEF ClaimRemap, ClaimSetIP, Goto
  <2>5. CASE ClaimDone(r) \/ ColdCreate(r) \/ CreateRollback(r) \/ DeletePodFails(r) \/ DeleteRemove(r)
    BY <1>0, <2>5
       DEF ClaimDone, ColdCreate, CreateRollback, DeletePodFails, DeleteRemove, Respond, NoRequest
  <2>6. CASE ColdCreateFails(r)
    BY <1>0, <2>6 DEF ColdCreateFails, Goto
  <2>7. CASE DeletePod(r) \/ DeleteForget(r) \/ DeleteDisconnect(r) \/ DeleteStop(r)
    BY <1>0, <2>7 DEF DeletePod, DeleteForget, DeleteDisconnect, DeleteStop, Goto
  <2> QED
    BY <2>1, <2>2, <2>3, <2>4, <2>5, <2>6, <2>7 DEF RequestStep
<1>3. ASSUME NEW x \in PodIds
      PROVE  PodQuiet(x) \/ (requests[r].pc = "create" /\ x = requests[r].id)
  <2>1. UNCHANGED kube => PodQuiet(x)
    BY DEF PodQuiet, Created, kube
  <2>2. CASE ColdCreate(r) \/ ColdCreateFails(r)
    BY <1>0, <2>1, <2>2, KubeCallsQuiet DEF ColdCreate, ColdCreateFails
  <2>3. CASE DeletePod(r) \/ DeletePodFails(r)
    BY <1>0, <2>1, <2>3, KubeCallsQuiet DEF DeletePod, DeletePodFails
  <2> QED
    BY <2>1, <2>2, <2>3
       DEF RequestStep, ClaimWarm, ClaimNothing, ClaimInfo, ClaimRemap, ClaimSetIP, ClaimDone,
           CreateRollback, DeleteForget, DeleteDisconnect, DeleteStop, DeleteRemove
<1>4. ASSUME NEW x \in PodIds
      PROVE  CacheQuiet(x) \/ (requests[r].pc = "remap" /\ x = requests[r].id)
  BY CacheCallsQuiet
     DEF RequestStep, ClaimWarm, ClaimNothing, ClaimInfo, ClaimRemap, ClaimSetIP, ClaimDone,
         ColdCreate, ColdCreateFails, CreateRollback, DeletePod, DeletePodFails, DeleteForget,
         DeleteDisconnect, DeleteStop, DeleteRemove
<1>5. ASSUME NEW x \in PodIds
      PROVE  SandboxQuiet(x) \/ (requests[r].pc = "setip" /\ x = requests[r].id)
  BY <1>0, ManagerCallsQuiet
     DEF RequestStep, ClaimWarm, ClaimNothing, ClaimInfo, ClaimRemap, ClaimSetIP, ClaimDone,
         ColdCreate, ColdCreateFails, CreateRollback, DeletePod, DeletePodFails, DeleteForget,
         DeleteDisconnect, DeleteStop, DeleteRemove
<1> QED
  BY <1>1, <1>2, <1>3, <1>4, <1>5 DEF RequestStep, control

\* A handler creates the pod of its id when it has claimed none, and claims
\* one when no pod of its id was or will be created.
LEMMA RequestOwning ==
  ASSUME TypeInv, Owning, SettledStay, NEW r \in Requests, RequestStep(r)
  PROVE  Owning'
<1>0. /\ PodsOwned /\ RequestsOwn /\ OneCreator /\ CallbacksAddressed /\ DownIsEmpty
      /\ \A q \in Requests : requests[q].pc # "idle" => requests[q].id \in PodIds
      /\ SandboxIds \subseteq PodIds /\ Tracked' \subseteq PodIds
  <2>1. TypeInv'
    BY NextType DEF Next
  <2> QED
    BY <2>1, TypeInvParts
       DEF Owning, RequestsOK, RequestSlots, SharedOK, PodIds, TypeInv, TypeOK, ManagerTypeOK, IsMap,
           Tracked
<1>1. CallbacksAddressed'
  BY <1>0, CallbacksAddressedKept, RequestFrames
<1>2. OneCreator'
  BY <1>0, RequestFrames DEF OneCreator
<1>3. DownIsEmpty'
  <2>1. requests[r].pc # "idle" => requests[r].id \in PodIds
    BY <1>0
  <2>2. ASSUME NEW x \in Tracked' PROVE x \in Tracked
    <3>1. CASE SandboxQuiet(x)
      BY <2>2, <3>1 DEF SandboxQuiet
    <3>2. CASE ClaimSetIP(r)
      BY <2>2, <3>2 DEF ClaimSetIP, SetPodIP, Tracked
    <3>3. requests[r].pc = "setip" => ClaimSetIP(r)
      BY DEF RequestStep, ClaimWarm, ClaimNothing, ClaimInfo, ClaimRemap, ClaimSetIP, ClaimDone,
             ColdCreate, ColdCreateFails, CreateRollback, DeletePod, DeletePodFails, DeleteForget,
             DeleteDisconnect, DeleteStop, DeleteRemove
    <3> QED
      BY <1>0, <2>2, <3>1, <3>2, <3>3, RequestFrames
  <2> QED
    BY <1>0, <2>2, RequestFrames DEF DownIsEmpty
<1>4. PodsOwned'
  <2> SUFFICES ASSUME NEW id \in SandboxIds, Created(id)'
               PROVE  /\ id \in Cached' => cache'[id].pod = id
                      /\ id \in Tracked' => sandboxes'[id].podIP \in {None, id}
    BY DEF PodsOwned, Created, Cached, Tracked
  <2>1. id \in PodIds
    BY <1>0
  <2>2. CASE id # requests[r].id \/ requests[r].pc \notin {"create", "remap", "setip"}
    <3>1. PodQuiet(id) /\ CacheQuiet(id) /\ SandboxQuiet(id)
      BY <2>1, <2>2, RequestFrames
    <3> QED
      BY <1>0, <3>1 DEF PodsOwned, PodQuiet, CacheQuiet, SandboxQuiet
  <2>3. CASE id = requests[r].id /\ requests[r].pc = "create"
    <3>1. CacheQuiet(id) /\ SandboxQuiet(id)
      BY <2>1, <2>3, RequestFrames
    <3>2. id \notin Cached /\ (id \in Tracked => sandboxes[id].podIP = None)
      BY <1>0, <2>3 DEF RequestsOwn, RequestOwns, Unaddressed, Unmapped
    <3> QED
      BY <3>1, <3>2 DEF CacheQuiet, SandboxQuiet
  <2>4. CASE id = requests[r].id /\ requests[r].pc \in {"remap", "setip"}
    <3>1. PodQuiet(id)
      BY <2>1, <2>4, RequestFrames
    <3>2. ~Created(id)
      BY <1>0, <2>4 DEF RequestsOwn, RequestOwns, Provisioning
    <3> QED
      BY <3>1, <3>2 DEF PodQuiet
  <2> QED
    BY <2>2, <2>3, <2>4
<1>5. RequestsOwn'
  <2>1. ASSUME NEW q \in Requests, q # r PROVE RequestOwns(q)'
    <3>1. requests'[q] = requests[q] /\ RequestOwns(q)
      BY <1>0, <2>1, RequestFrames DEF RequestsOwn
    <3>2. ASSUME requests[q].pc \in Provisioning
          PROVE  /\ PodQuiet(requests[q].id)
                 /\ CacheQuiet(requests[q].id)
                 /\ SandboxQuiet(requests[q].id)
      <4>1. PICK x \in PodIds : x = requests[q].id
        BY <1>0, <3>2 DEF Provisioning
      <4>2. requests[r].pc \in Creating => requests[r].id # x
        BY <1>0, <2>1, <3>2, <4>1 DEF OneCreator, Creating, Provisioning
      <4>3. PodQuiet(x) /\ CacheQuiet(x) /\ SandboxQuiet(x)
        BY <4>2, RequestFrames DEF Creating
      <4> QED
        BY <4>1, <4>3
    <3> QED
      BY <3>1, <3>2, RequestOwnsKept
  <2>2. RequestOwns(r)'
    <3> SUFFICES ASSUME requests'[r].pc \in Provisioning PROVE RequestOwns(r)'
      BY DEF RequestOwns, Provisioning, Unaddressed, Unmapped
    <3>1. /\ requests[r].pc \in {"claim", "info", "remap", "setip"}
          /\ requests'[r].id = requests[r].id
      BY RequestFrames DEF Provisioning, Creating
    <3>2. PICK x \in PodIds : x = requests[r].id
      BY <1>0, <3>1
    <3>3. RequestOwns(r)
      BY <1>0 DEF RequestsOwn
    <3>4. ~Created(x)'
      <4>1. ~Created(x)
        BY <3>1, <3>2, <3>3 DEF RequestOwns, Provisioning
      <4>2. PodQuiet(x)
        BY <3>1, RequestFrames
      <4> QED
        BY <4>1, <4>2 DEF PodQuiet
    <3>5. ASSUME requests'[r].pc \in Unaddressed, x \in Tracked' PROVE sandboxes'[x].podIP = None
      <4>1. requests[r].pc \in {"claim", "info", "remap"}
        BY <3>5, RequestFrames
      <4>2. SandboxQuiet(x)
        BY <4>1, RequestFrames
      <4> QED
        BY <3>2, <3>3, <3>5, <4>1, <4>2 DEF RequestOwns, Unaddressed, SandboxQuiet
    <3>6. ASSUME requests'[r].pc \in Unmapped PROVE x \notin Cached'
      <4>1. requests[r].pc \in {"claim", "info"}
        BY <3>6, RequestFrames
      <4>2. CacheQuiet(x)
        BY <4>1, RequestFrames
      <4> QED
        BY <3>2, <3>3, <4>1, <4>2 DEF RequestOwns, Unmapped, CacheQuiet
    <3>7. x = requests'[r].id
      BY <3>1, <3>2
    <3> QED
      BY <3>4, <3>5, <3>6, <3>7 DEF RequestOwns, Created, Tracked, Cached
  <2> QED
    BY <2>1, <2>2 DEF RequestsOwn
<1> QED
  BY <1>1, <1>2, <1>3, <1>4, <1>5 DEF Owning

\* All that matters to Owning is quiet.
LEMMA QuietOwning ==
  ASSUME TypeInv, Owning, SettledStay, UNCHANGED <<requests, callbacks>>,
         agent' = "down" => agent = "down",
         \A x \in SandboxIds : PodQuiet(x) /\ CacheQuiet(x) /\ SandboxQuiet(x),
         Tracked' \subseteq SandboxIds
  PROVE  Owning'
<1>0. PodsOwned /\ RequestsOwn /\ OneCreator /\ CallbacksAddressed /\ DownIsEmpty
  BY DEF Owning
<1>1. PodsOwned'
  BY <1>0 DEF PodsOwned, PodQuiet, CacheQuiet, SandboxQuiet, Created, Cached, Tracked
<1>2. RequestsOwn'
  <2>1. ASSUME NEW r \in Requests PROVE RequestOwns(r)'
    <3>1. requests[r].pc \in Provisioning => requests[r].id \in SandboxIds
      BY TypeInvParts DEF RequestsOK, RequestSlots, SharedOK, Provisioning
    <3>2. RequestOwns(r) /\ requests'[r] = requests[r]
      BY <1>0 DEF RequestsOwn
    <3>3. requests[r].pc \in Provisioning =>
            /\ PodQuiet(requests[r].id)
            /\ CacheQuiet(requests[r].id)
            /\ SandboxQuiet(requests[r].id)
      BY <3>1
    <3> QED
      BY <3>2, <3>3, RequestOwnsKept
  <2> QED
    BY <2>1 DEF RequestsOwn
<1>3. OneCreator'
  BY <1>0 DEF OneCreator
<1>4. CallbacksAddressed'
  BY <1>0, CallbacksAddressedKept
<1>5. DownIsEmpty'
  BY <1>0 DEF DownIsEmpty, SandboxQuiet
<1> QED
  BY <1>1, <1>2, <1>3, <1>4, <1>5 DEF Owning

\* A create starts from an id nothing of which exists.
LEMMA CreateOwning ==
  ASSUME TypeInv, KeyInv, Owning, SettledStay, NEW r \in Requests, NEW id \in SandboxIds,
         NEW key \in Keys, NEW timeout \in Timeouts, CreateRequest(r, id, key, timeout),
         UNCHANGED <<callbacks, agent>>
  PROVE  Owning'
<1>0. /\ PodsOwned /\ RequestsOwn /\ OneCreator /\ CallbacksAddressed /\ DownIsEmpty
      /\ SharedOK /\ ManagerTypeOK /\ requests \in [Requests -> RequestRecord]
      /\ UNCHANGED <<kube, cache>> /\ id \notin issued /\ agent = "serving"
  BY TypeInvParts DEF Owning, RequestsOK, SharedOK, CreateRequest
<1>1. ~Created(id) /\ id \notin Cached
  BY <1>0 DEF KeyInv, PodsKeyed, CacheKeyed
<1>2. \A x \in SandboxIds : PodQuiet(x) /\ CacheQuiet(x) /\ (x # id => SandboxQuiet(x))
  BY <1>0, ManagerCallsQuiet DEF CreateRequest, PodQuiet, CacheQuiet, Created, Cached, kube
<1>3. /\ requests'[r].pc = "claim" /\ requests'[r].id = id
      /\ \A q \in Requests : q # r => requests'[q] = requests[q]
  BY <1>0 DEF CreateRequest, NoRequest
<1>4. \A q \in Requests : requests[q].pc # "idle" => requests[q].id # id /\ requests[q].id \in SandboxIds
  BY <1>0, TypeInvParts DEF RequestsOK, RequestSlots, SharedOK
<1>5. PodsOwned'
  BY <1>0, <1>1, <1>2 DEF PodsOwned, PodQuiet, CacheQuiet, SandboxQuiet, Created, Cached, Tracked, kube
<1>6. RequestsOwn'
  <2>1. ASSUME NEW q \in Requests, q # r PROVE RequestOwns(q)'
    <3>1. RequestOwns(q) /\ requests'[q] = requests[q]
      BY <1>0, <1>3, <2>1 DEF RequestsOwn
    <3>2. requests[q].pc \in Provisioning =>
            /\ PodQuiet(requests[q].id)
            /\ CacheQuiet(requests[q].id)
            /\ SandboxQuiet(requests[q].id)
      BY <1>2, <1>4 DEF Provisioning
    <3> QED
      BY <3>1, <3>2, RequestOwnsKept
  <2>2. RequestOwns(r)'
    <3>1. sandboxes'[id].podIP = None
      BY DEF CreateRequest, Create, Put
    <3> QED
      BY <1>0, <1>1, <1>3, <3>1 DEF RequestOwns, Created, Cached, Tracked, kube
  <2> QED
    BY <2>1, <2>2 DEF RequestsOwn
<1>7. OneCreator'
  BY <1>0, <1>3, <1>4 DEF OneCreator, Creating
<1>8. CallbacksAddressed'
  BY <1>0, CallbacksAddressedKept
<1>9. DownIsEmpty'
  BY <1>0 DEF DownIsEmpty
<1> QED
  BY <1>5, <1>6, <1>7, <1>8, <1>9 DEF Owning

\* An onReady goroutine of a sandbox's own pod stores that pod's address.
LEMMA CallbackOwning ==
  ASSUME TypeInv, KeyInv, Owning, Places, SettledStay, NEW c \in Callbacks, CallbackStep(c)
  PROVE  Owning'
<1>0. /\ PodsOwned /\ RequestsOwn /\ OneCreator /\ CallbacksAddressed /\ DownIsEmpty
      /\ SharedOK /\ ManagerTypeOK /\ callbacks[c] \in CallbackRecord
      /\ callbacks \in [Callbacks -> CallbackRecord]
      /\ UNCHANGED <<kube, cache, agent, requests>>
      /\ \A b \in Callbacks : callbacks[b].pc # "idle" => callbacks[b].id \in PodIds /\ Settled(callbacks[b].id)
  BY TypeInvParts DEF Owning, CallbacksOK, CallbackSlots, SharedOK, CallbackStep, control, CallbacksAddressed
<1>1. \A x : PodQuiet(x) /\ CacheQuiet(x)
  BY <1>0 DEF PodQuiet, CacheQuiet, Created, Cached, kube
<1>2. ASSUME NEW x, callbacks[c].pc # "setip" \/ x # callbacks[c].id PROVE SandboxQuiet(x)
  BY <1>0, <1>2, ManagerCallsQuiet
     DEF CallbackStep, CallbackSkips, CallbackBegins, CallbackInfo, CallbackSetIP, CallbackDials,
         CallbackDialFails, CallbackStores, CallbackMarks
<1>3. callbacks[c].pc = "setip" =>
        /\ CallbackSetIP(c) /\ callbacks[c].id \in SandboxIds
        /\ callbacks[c].ip = callbacks[c].id /\ Created(callbacks[c].id)
  <2>1. callbacks[c].pc = "setip" => CallbackSetIP(c)
    BY DEF CallbackStep, CallbackSkips, CallbackBegins, CallbackInfo, CallbackSetIP, CallbackDials,
           CallbackDialFails, CallbackStores, CallbackMarks
  <2> QED
    BY <1>0, <2>1 DEF CallbacksAddressed, KeyInv, CallbacksKeyed
<1>4. DownIsEmpty'
  <2>1. ASSUME NEW x \in Tracked' PROVE x \in Tracked
    <3>1. CASE CallbackSetIP(c)
      BY <2>1, <3>1 DEF CallbackSetIP, SetPodIP, Tracked
    <3> QED
      BY <1>2, <1>3, <2>1, <3>1 DEF SandboxQuiet
  <2> QED
    BY <1>0, <2>1 DEF DownIsEmpty
<1>5. PodsOwned'
  <2> SUFFICES ASSUME NEW id \in SandboxIds, Created(id)
               PROVE  /\ id \in Cached => cache[id].pod = id
                      /\ id \in Tracked' => sandboxes'[id].podIP \in {None, id}
    BY <1>0 DEF PodsOwned, Created, Cached, Tracked, kube
  <2>1. CASE SandboxQuiet(id)
    BY <1>0, <2>1 DEF PodsOwned, SandboxQuiet
  <2>2. CASE callbacks[c].pc = "setip" /\ id = callbacks[c].id
    <3>1. SetPodIP(id, id)
      BY <1>3, <2>2 DEF CallbackSetIP
    <3>2. id \in Tracked' => sandboxes'[id].podIP = id
      BY <1>0, <3>1 DEF SetPodIP, ManagerTypeOK, IsMap, SandboxRecord, Tracked
    <3> QED
      BY <1>0, <3>2 DEF PodsOwned
  <2> QED
    BY <1>2, <2>1, <2>2
<1>6. RequestsOwn'
  <2>1. ASSUME NEW q \in Requests PROVE RequestOwns(q)'
    <3>1. RequestOwns(q) /\ requests'[q] = requests[q]
      BY <1>0 DEF RequestsOwn
    <3>2. requests[q].pc \in Provisioning => SandboxQuiet(requests[q].id)
      BY <1>2, <1>3, <3>1 DEF RequestOwns
    <3> QED
      BY <1>1, <3>1, <3>2, RequestOwnsKept
  <2> QED
    BY <2>1 DEF RequestsOwn
<1>7. OneCreator'
  BY <1>0 DEF OneCreator
<1>8. CallbacksAddressed'
  <2>1. /\ \A b \in Callbacks : b # c => callbacks'[b] = callbacks[b]
        /\ callbacks'[c].pc # "idle" => callbacks[c].pc # "idle" /\ callbacks'[c].id = callbacks[c].id
    BY <1>0 DEF CallbackRecord, CallbackStep, CallbackSkips, CallbackBegins, CallbackInfo,
           CallbackSetIP, CallbackDials, CallbackDialFails, CallbackStores, CallbackMarks, Return,
           NoCallback
  <2>2. callbacks'[c].pc = "setip" => callbacks'[c].ip = callbacks'[c].id
    <3> SUFFICES ASSUME callbacks'[c].pc = "setip" PROVE callbacks'[c].ip = callbacks'[c].id
      OBVIOUS
    <3> DEFINE id == callbacks[c].id
    <3>1. CallbackInfo(c)
      BY <1>0 DEF CallbackRecord, CallbackStep, CallbackSkips, CallbackBegins, CallbackInfo,
             CallbackSetIP, CallbackDials, CallbackDialFails, CallbackStores, CallbackMarks, Return,
             NoCallback
    <3>2. /\ id \in Cached /\ id \notin WarmIds /\ callbacks[c].pc # "idle"
          /\ callbacks'[c].ip = Address(cache[id]) /\ callbacks'[c].id = id
      BY <1>0, <3>1 DEF CallbackInfo, NoCallback
    <3>3. id \in SandboxIds /\ Created(id) /\ Settled(id)
      BY <1>0, <3>2 DEF PodIds, KeyInv, CallbacksKeyed
    <3>4. cache[id].pod = id
      BY <1>0, <3>2, <3>3 DEF PodsOwned
    <3>5. cache[id].ip
      BY <3>2, <3>3, <3>4 DEF Settled
    <3> QED
      BY <3>2, <3>4, <3>5 DEF Address
  <2>3. ASSUME NEW b \in Callbacks, callbacks'[b].pc # "idle" PROVE Settled(callbacks[b].id)'
    <3>1. callbacks[b].pc # "idle" /\ callbacks'[b].id = callbacks[b].id
      BY <2>1, <2>3
    <3>2. PICK p \in PodIds : p = callbacks[b].id /\ Settled(p)
      BY <1>0, <3>1
    <3>3. Settled(p)' /\ p = callbacks'[b].id
      BY <3>1, <3>2 DEF SettledStay
    <3> QED
      BY <3>3
  <2>4. ASSUME NEW b \in Callbacks, callbacks'[b].pc = "setip" PROVE callbacks'[b].ip = callbacks'[b].id
    BY <1>0, <2>1, <2>2, <2>4 DEF CallbacksAddressed
  <2> QED
    BY <2>3, <2>4 DEF CallbacksAddressed
<1> QED
  BY <1>4, <1>5, <1>6, <1>7, <1>8 DEF Owning

\* An event enters under the id of its own pod, which was created.
LEMMA WatchOwning ==
  ASSUME TypeInv, KeyInv, Owning, Places, SettledStay, WatchStep,
         UNCHANGED <<sandboxes, agent, requests>>
  PROVE  Owning'
<1> DEFINE e == events[1]
<1>0. /\ PodsOwned /\ RequestsOwn /\ OneCreator /\ CallbacksAddressed /\ DownIsEmpty
      /\ KubeTypeOK /\ CacheTypeOK /\ callbacks \in [Callbacks -> CallbackRecord]
      /\ UNCHANGED pods
  BY TypeInvParts DEF Owning, SharedOK, CallbacksOK, WatchStep
<1>1. /\ Head(events) = e /\ e.pod \in PodIds /\ Created(e.pod)
  BY <1>0, EventTypes DEF WatchStep, KubeTypeOK, KeyInv, EventsKeyed, Keyed
<1> HIDE DEF e
<1>2. /\ \A x : PodQuiet(x) /\ SandboxQuiet(x)
      /\ \A x : x # e.pod => CacheQuiet(x)
      /\ e.pod \in Cached' => cache'[e.pod].pod = e.pod
  <2>1. Observe(e)
    BY <1>1 DEF WatchStep
  <2>2. e.pod \in Cached' => cache'[e.pod].pod = e.pod
    BY <2>1 DEF Observe, Cached, Put, Delete, Restrict, Info
  <2> QED
    BY <1>0, <2>1, <2>2, CacheCallsQuiet DEF PodQuiet, SandboxQuiet, Created, Tracked
<1>3. PodsOwned'
  BY <1>0, <1>2 DEF PodsOwned, CacheQuiet, Created, Cached, Tracked
<1>4. RequestsOwn'
  <2>1. ASSUME NEW q \in Requests PROVE RequestOwns(q)'
    <3>1. RequestOwns(q) /\ requests'[q] = requests[q]
      BY <1>0 DEF RequestsOwn
    <3>2. requests[q].pc \in Provisioning => CacheQuiet(requests[q].id)
      BY <1>1, <1>2, <3>1 DEF RequestOwns
    <3> QED
      BY <1>2, <3>1, <3>2, RequestOwnsKept
  <2> QED
    BY <2>1 DEF RequestsOwn
<1>5. OneCreator' /\ DownIsEmpty'
  BY <1>0 DEF OneCreator, DownIsEmpty, Tracked
<1>6. CallbacksAddressed'
  <2>1. CASE UNCHANGED callbacks
    BY <1>0, <2>1, CallbacksAddressedKept
  <2>2. ASSUME NEW c \in Callbacks, Announces(e),
               callbacks' = [callbacks EXCEPT ![c] =
                               [NoCallback EXCEPT !.pc = "begin", !.id = e.pod]]
        PROVE  CallbacksAddressed'
    <3>1. /\ callbacks'[c].pc = "begin" /\ callbacks'[c].id = e.pod
          /\ \A b \in Callbacks : b # c => callbacks'[b] = callbacks[b]
      BY <1>0, <2>2 DEF NoCallback
    <3>2. ASSUME NEW b \in Callbacks, callbacks'[b].pc # "idle" PROVE Settled(callbacks[b].id)'
      <4>1. CASE b = c
        <5>1. PICK p \in PodIds : p = e.pod
          BY <1>1
        <5>2. Settled(p)' /\ p = callbacks'[b].id
          BY <1>0, <1>1, <2>2, <3>1, <4>1, <5>1, ObserveSettles
        <5> QED
          BY <5>2
      <4>2. CASE b # c
        <5>1. callbacks[b].pc # "idle" /\ callbacks'[b].id = callbacks[b].id
          BY <3>1, <3>2, <4>2
        <5>2. PICK p \in PodIds : p = callbacks[b].id /\ Settled(p)
          BY <1>0, <5>1, TypeInvParts DEF CallbacksAddressed, CallbacksOK, CallbackSlots
        <5>3. Settled(p)' /\ p = callbacks'[b].id
          BY <5>1, <5>2 DEF SettledStay
        <5> QED
          BY <5>3
      <4> QED
        BY <4>1, <4>2
    <3>3. ASSUME NEW b \in Callbacks, callbacks'[b].pc = "setip"
          PROVE  callbacks'[b].ip = callbacks'[b].id
      BY <1>0, <3>1, <3>3 DEF CallbacksAddressed
    <3> QED
      BY <3>2, <3>3 DEF CallbacksAddressed
  <2> QED
    BY <1>1, <2>1, <2>2 DEF WatchStep
<1> QED
  BY <1>3, <1>4, <1>5, <1>6 DEF Owning

\* After a restart every entry is about the sandbox's own pod.
LEMMA RecoveryOwning ==
  ASSUME TypeInv, KeyInv, Boot, NEW dialed \in SUBSET SandboxIds, Recovery(dialed)
  PROVE  Owning'
<1>0. /\ UNCHANGED <<pods, requests, callbacks>>
      /\ agent = "down" /\ agent' # "down"
      /\ \A r \in Requests : requests[r].pc = "idle"
      /\ \A c \in Callbacks : callbacks[c].pc = "idle"
  BY DEF Boot, Recovery, kube, KeyInv, DownIsQuiet
<1>1. /\ \A x \in Cached' : cache'[x].pod = x
      /\ \A x \in Tracked' : sandboxes'[x].podIP \in {None, x}
  BY DEF Recovery, RecoverCache, RecoveredRecord, Cached, Tracked
<1>2. PodsOwned'
  BY <1>1 DEF PodsOwned, Cached, Tracked
<1>3. RequestsOwn' /\ OneCreator' /\ CallbacksAddressed' /\ DownIsEmpty'
  BY <1>0 DEF RequestsOwn, RequestOwns, OneCreator, CallbacksAddressed, DownIsEmpty, Provisioning,
              Unaddressed, Unmapped, Creating
<1> QED
  BY <1>2, <1>3 DEF Owning

\* A crash leaves nothing that could own a pod.
LEMMA CrashOwning == Crash => Owning'
<1> SUFFICES ASSUME Crash PROVE Owning'
  OBVIOUS
<1>1. /\ Tracked' = {} /\ Cached' = {}
      /\ \A r \in Requests : requests'[r].pc = "idle"
      /\ \A c \in Callbacks : callbacks'[c].pc = "idle"
  BY DEF Crash, Tracked, Cached, EmptyMap, NoRequest, NoCallback
<1>2. PodsOwned' /\ DownIsEmpty'
  BY <1>1 DEF PodsOwned, DownIsEmpty
<1>3. RequestsOwn' /\ OneCreator' /\ CallbacksAddressed'
  BY <1>1 DEF RequestsOwn, RequestOwns, OneCreator, CallbacksAddressed, Provisioning, Unaddressed,
              Unmapped, Creating
<1> QED
  BY <1>2, <1>3 DEF Owning

\* Every step.
LEMMA OwningStep ==
  ASSUME TypeInv, KeyInv, Places, Owning, [Next]_vars
  PROVE  Owning'
<1>0. /\ SettledStay /\ SharedOK /\ KubeTypeOK /\ ManagerTypeOK /\ SandboxIds \subseteq PodIds
      /\ ReaperOK
      /\ Tracked' \subseteq SandboxIds
  <2>1. TypeInv'
    BY NextType
  <2> QED
    BY <2>1, PlacesStep, TypeInvParts DEF SharedOK, PodIds, TypeInv, TypeOK, ManagerTypeOK, IsMap, Tracked
<1>U. /\ UNCHANGED kube => \A x : PodQuiet(x)
      /\ UNCHANGED cache => \A x : CacheQuiet(x)
      /\ UNCHANGED sandboxes => \A x : SandboxQuiet(x)
  BY <1>0, CacheCallsQuiet, ManagerCallsQuiet DEF kube, PodQuiet, Created
<1>1. CASE Client
  <2>1. ASSUME NEW r \in Requests, NEW id \in SandboxIds, NEW key \in Keys, NEW timeout \in Timeouts,
               CreateRequest(r, id, key, timeout)
        PROVE  Owning'
    BY <1>0, <1>1, <2>1, CreateOwning DEF Client, control
  <2>2. ASSUME NEW r \in Requests, NEW id \in SandboxIds, DeleteRequest(r, id)
        PROVE  Owning'
    <3>1. /\ \A q \in Requests : q # r => requests'[q] = requests[q]
          /\ requests'[r].pc = "delete"
          /\ UNCHANGED <<kube, cache, sandboxes, callbacks, agent>>
      BY <1>1, <2>2, TypeInvParts DEF Client, DeleteRequest, RequestsOK, NoRequest, control
    <3>2. RequestsOwn'
      <4>1. ASSUME NEW q \in Requests, q # r PROVE RequestOwns(q)'
        BY <1>U, <3>1, <4>1, RequestOwnsKept DEF Owning, RequestsOwn
      <4>2. RequestOwns(r)'
        BY <3>1 DEF RequestOwns, Provisioning, Unaddressed, Unmapped
      <4> QED
        BY <4>1, <4>2 DEF RequestsOwn
    <3>3. OneCreator'
      BY <3>1 DEF Owning, OneCreator, Creating
    <3>4. PodsOwned' /\ DownIsEmpty'
      BY <3>1 DEF Owning, PodsOwned, DownIsEmpty, Created, Cached, Tracked, kube
    <3>5. CallbacksAddressed'
      BY <1>0, <3>1, CallbacksAddressedKept DEF Owning
    <3> QED
      BY <3>2, <3>3, <3>4, <3>5 DEF Owning
  <2>3. ASSUME NEW id \in SandboxIds, Keepalive(id)
        PROVE  Owning'
    <3>1. /\ UNCHANGED <<requests, callbacks, agent, kube, cache>>
          /\ \A x : SandboxQuiet(x)
      BY <1>0, <1>1, <2>3, ManagerCallsQuiet DEF Client, Keepalive, control
    <3> QED
      BY <1>0, <1>U, <3>1, QuietOwning
  <2> QED
    BY <1>1, <2>1, <2>2, <2>3 DEF Client
<1>2. ASSUME NEW r \in Requests, RequestStep(r) PROVE Owning'
  BY <1>0, <1>2, RequestOwning
<1>3. ASSUME NEW c \in Callbacks, CallbackStep(c) PROVE Owning'
  BY <1>0, <1>3, CallbackOwning
<1>4. ASSUME NEW f \in Fillers, FillStep(f) PROVE Owning'
  <2>1. \A x \in SandboxIds : PodQuiet(x)
    <3>1. ASSUME NEW warm \in WarmIds, FillCreate(f, warm), NEW x \in SandboxIds PROVE PodQuiet(x)
      BY <1>0, <3>1, KubeCallsQuiet, IdsAssumption DEF FillCreate, PodIds
    <3> QED
      BY <1>4, <1>U, <3>1 DEF FillStep, FillCount, FillFails
  <2> QED
    BY <1>0, <1>4, <1>U, <2>1, QuietOwning DEF FillStep, control
<1>5. CASE ReaperStep
  <2>1. /\ UNCHANGED kube => \A x \in SandboxIds : PodQuiet(x)
        /\ \A id \in SandboxIds : KubeDelete(id) \/ KubeForceDelete(id) =>
             \A x \in SandboxIds : PodQuiet(x)
    BY <1>0, <1>U, KubeCallsQuiet
  <2>2. \A x \in SandboxIds : PodQuiet(x)
    BY <1>0, <1>5, <2>1
       DEF ReaperStep, ReaperTick, ReaperForces, ReaperForceFails, ReaperStops, ReaperForceForgets,
           ReaperScans, ReaperDeletes, ReaperDeleteFails, ReaperForgets, ReaperDisconnects,
           ReaperRemoves, ReaperOK, ReaperSlot
  <2>3. \A x \in SandboxIds : CacheQuiet(x)
    BY <1>5, CacheCallsQuiet
       DEF ReaperStep, ReaperTick, ReaperForces, ReaperForceFails, ReaperStops, ReaperForceForgets,
           ReaperScans, ReaperDeletes, ReaperDeleteFails, ReaperForgets, ReaperDisconnects,
           ReaperRemoves
  <2>4. \A x \in SandboxIds : SandboxQuiet(x)
    BY <1>0, <1>5, ManagerCallsQuiet
       DEF ReaperStep, ReaperTick, ReaperForces, ReaperForceFails, ReaperStops, ReaperForceForgets,
           ReaperScans, ReaperDeletes, ReaperDeleteFails, ReaperForgets, ReaperDisconnects,
           ReaperRemoves
  <2> QED
    BY <1>0, <1>5, <2>2, <2>3, <2>4, QuietOwning DEF ReaperStep, control
<1>6. CASE WatchLoop
  <2>1. UNCHANGED <<sandboxes, agent, requests>>
    BY <1>6 DEF WatchLoop, control
  <2>2. CASE WatchStep
    BY <1>0, <2>1, <2>2, WatchOwning
  <2>3. CASE WatchOpens \/ WatchBreaks
    <3>1. UNCHANGED <<pods, cache, callbacks>>
      BY <2>3 DEF WatchOpens, WatchBreaks, KubeOpenWatch, KubeDropWatch
    <3> QED
      BY <1>0, <1>U, <2>1, <3>1, QuietOwning DEF PodQuiet, Created
  <2> QED
    BY <1>6, <2>2, <2>3 DEF WatchLoop
<1>7. CASE Boot
  <2>1. ASSUME NEW dialed \in SUBSET SandboxIds, Recovery(dialed)
        PROVE  Owning'
    BY <1>7, <2>1, RecoveryOwning
  <2>2. CASE RecoveryFails \/ (\E key \in Keys : BootFill(key)) \/ BootServe
    <3>1. /\ UNCHANGED <<kube, cache, sandboxes, requests, callbacks>>
          /\ agent' = "down" => agent = "down"
      BY <1>7, <2>2 DEF Boot, RecoveryFails, BootFill, BootServe
    <3> QED
      BY <1>0, <1>U, <3>1, QuietOwning
  <2> QED
    BY <1>7, <2>1, <2>2 DEF Boot
<1>8. CASE Crash
  BY <1>8, CrashOwning
<1>9. ASSUME NEW p \in PodIds, PodStep(p) PROVE Owning'
  <2>1. \A x \in SandboxIds : PodQuiet(x)
    BY <1>0, <1>9, KubeCallsQuiet DEF PodStep
  <2> QED
    BY <1>0, <1>9, <1>U, <2>1, QuietOwning DEF PodStep, agentVars, control
<1>10. CASE Tick \/ UNCHANGED vars
  <2>1. UNCHANGED <<kube, cache, sandboxes, requests, callbacks, agent>>
    BY <1>10 DEF Tick, vars, agentVars, control
  <2> QED
    BY <1>0, <1>U, <2>1, QuietOwning
<1> QED
  BY <1>1, <1>2, <1>3, <1>4, <1>5, <1>6, <1>7, <1>8, <1>9, <1>10 DEF Next

\* At first there are no pods, no sandboxes and nothing running.
LEMMA AddressInit == Init => Places /\ Owning
<1> SUFFICES ASSUME Init PROVE Places /\ Owning
  OBVIOUS
<1>1. /\ Tracked = {} /\ Cached = {} /\ events = <<>> /\ ~watching
      /\ \A p \in PodIds : ~Created(p) /\ ~pods[p].ready /\ ~pods[p].ip
      /\ \A r \in Requests : requests[r].pc = "idle"
      /\ \A c \in Callbacks : callbacks[c].pc = "idle"
  BY DEF Init, ManagerInit, CacheInit, KubeInit, Tracked, Cached, EmptyMap, Created, Uncreated,
         NoRequest, NoCallback
<1>2. Places
  BY <1>1 DEF Places, PodsAddressed, EventsAddressed, CacheAddressed
<1>3. PodsOwned /\ DownIsEmpty
  BY <1>1 DEF PodsOwned, DownIsEmpty
<1>4. RequestsOwn /\ OneCreator /\ CallbacksAddressed
  BY <1>1 DEF RequestsOwn, RequestOwns, OneCreator, CallbacksAddressed, Provisioning, Unaddressed,
              Unmapped, Creating
<1> QED
  BY <1>2, <1>3, <1>4 DEF Owning

\* Addresses are read in the order pods get them, and a sandbox has one pod.
LEMMA AddressesHold == Spec => [](Places /\ Owning)
<1>1. TypeInv /\ KeyInv /\ Places /\ Owning /\ [Next]_vars => Places' /\ Owning'
  BY PlacesStep, OwningStep
<1> QED
  BY <1>1, AddressInit, TypeCorrect, KeysAgree, PTL DEF Spec

-------------------------------------------------------------------------------
(* What the registry says of a sandbox's pod.                               *)

AddressKept ==
  \A id \in Tracked \cap Tracked' :
    sandboxes[id].podIP # None => sandboxes'[id].podIP = sandboxes[id].podIP

\* A handler sets the address of a sandbox that has none, an onReady goroutine
\* that of the sandbox's own pod, which is the only one it can have had.
LEMMA AddressKeptStep ==
  TypeInv /\ KeyInv /\ Places /\ Owning /\ [Next]_vars => AddressKept
<1>1. ASSUME TypeInv, KeyInv, Places, Owning, [Next]_vars
      PROVE  AddressKept
  <2> SUFFICES ASSUME NEW id \in Tracked, id \in Tracked', sandboxes[id].podIP # None
               PROVE  sandboxes'[id].podIP = sandboxes[id].podIP
    BY DEF AddressKept
  <2>0. /\ SharedOK /\ ManagerTypeOK /\ id \in SandboxIds /\ id \in PodIds
        /\ id \in issued
        /\ agent # "down"
    BY <1>1, TypeInvParts
       DEF SharedOK, ManagerTypeOK, IsMap, Tracked, PodIds, KeyInv, SandboxesKeyed, Owning, DownIsEmpty
  <2>1. SandboxQuiet(id) => sandboxes'[id].podIP = sandboxes[id].podIP
    BY DEF SandboxQuiet
  <2>2. ASSUME NEW r \in Requests, RequestStep(r) PROVE SandboxQuiet(id)
    <3>1. ~(requests[r].pc = "setip" /\ id = requests[r].id)
      BY <1>1 DEF Owning, RequestsOwn, RequestOwns, Unaddressed
    <3> QED
      BY <1>1, <2>0, <2>2, <3>1, RequestFrames
  <2>3. ASSUME NEW c \in Callbacks, CallbackStep(c)
        PROVE  sandboxes'[id].podIP = sandboxes[id].podIP
    <3>1. CASE CallbackSetIP(c) /\ id = callbacks[c].id
      <4>1. callbacks[c].ip = id /\ Settled(id)
        BY <1>1, <3>1 DEF CallbackSetIP, Owning, CallbacksAddressed
      <4>2. Created(id)
        BY <1>1, <2>0, <4>1 DEF Settled, Places, PodsAddressed
      <4>3. sandboxes[id].podIP = id
        BY <1>1, <2>0, <4>2 DEF Owning, PodsOwned
      <4> QED
        BY <2>0, <3>1, <4>1, <4>3 DEF CallbackSetIP, SetPodIP, ManagerTypeOK, IsMap, SandboxRecord, Tracked
    <3>2. CASE ~(CallbackSetIP(c) /\ id = callbacks[c].id)
      <4>1. SandboxQuiet(id)
        BY <2>0, <2>3, <3>2, ManagerCallsQuiet
           DEF CallbackStep, CallbackSkips, CallbackBegins, CallbackInfo, CallbackSetIP,
               CallbackDials, CallbackDialFails, CallbackStores, CallbackMarks
      <4> QED
        BY <2>1, <4>1
    <3> QED
      BY <3>1, <3>2
  <2>4. ASSUME Client PROVE SandboxQuiet(id)
    BY <2>0, <2>4, ManagerCallsQuiet DEF Client, CreateRequest, DeleteRequest, Keepalive
  <2>5. ASSUME ReaperStep PROVE SandboxQuiet(id)
    BY <2>0, <2>5, ManagerCallsQuiet
       DEF ReaperStep, ReaperTick, ReaperForces, ReaperForceFails, ReaperStops, ReaperForceForgets,
           ReaperScans, ReaperDeletes, ReaperDeleteFails, ReaperForgets, ReaperDisconnects,
           ReaperRemoves
  <2>6. ASSUME Boot PROVE SandboxQuiet(id)
    BY <2>0, <2>6, ManagerCallsQuiet DEF Boot, Recovery, RecoveryFails, BootFill, BootServe
  <2>7. ~Crash
    BY DEF Crash, EmptyMap, Tracked
  <2>8. ASSUME \/ \E f \in Fillers : FillStep(f)
               \/ WatchLoop
               \/ \E p \in PodIds : PodStep(p)
               \/ Tick \/ UNCHANGED vars
        PROVE  SandboxQuiet(id)
    BY <2>0, <2>8, ManagerCallsQuiet DEF FillStep, WatchLoop, PodStep, Tick, vars, agentVars
  <2> QED
    BY <1>1, <2>1, <2>2, <2>3, <2>4, <2>5, <2>6, <2>7, <2>8 DEF Next
<1> QED
  BY <1>1

\* The address of a sandbox, once known, does not move to another pod, though
\* a handler and an onReady goroutine both set it (http.go:352, main.go:84).
THEOREM AddressStaysPut == Spec => AddressIsStable
<1>1. TypeInv /\ KeyInv /\ (Places /\ Owning) /\ [Next]_vars => [AddressKept]_vars
  BY AddressKeptStep
<1>2. AddressIsStable <=> [][AddressKept]_vars
  BY DEF AddressIsStable, AddressKept
<1> QED
  BY <1>1, <1>2, AddressesHold, TypeCorrect, KeysAgree, PTL DEF Spec

\* What a create request holds of its pod: a claimed one is settled, the
\* address it is about to store is the claimed pod's, and when it says running
\* the address is there.
RequestAddressed(r) ==
  /\ requests[r].pc = "info" => Settled(requests[r].warm)
  /\ requests[r].pc \in Addressed =>
       requests[r].ip \in WarmIds /\ requests[r].ip = requests[r].warm /\ pods[requests[r].ip].ip
  /\ requests[r].pc = "setrunning" /\ requests[r].id \in Tracked =>
       sandboxes[requests[r].id].podIP # None

SandboxServed(x) ==
  /\ sandboxes[x].podIP # None => pods[sandboxes[x].podIP].ip
  /\ sandboxes[x].status = "running" => pods[x].ip \/ sandboxes[x].podIP # None

Serving ==
  /\ \A r \in Requests : RequestAddressed(r)
  /\ \A x \in Tracked : SandboxServed(x)

\* A request that does not move keeps what it holds: sandboxes given out do
\* not come back without their address.
LEMMA RequestAddressedKept ==
  ASSUME TypeInv, NEW r \in Requests, RequestAddressed(r), SettledStay, IPsStay, AddressKept,
         SandboxesStay, requests'[r] = requests[r]
  PROVE  RequestAddressed(r)'
<1>1. ASSUME requests[r].pc = "info" PROVE Settled(requests[r].warm)'
  <2>1. PICK p \in PodIds : p = requests[r].warm
    BY <1>1, TypeInvParts DEF RequestsOK, RequestSlots, Claimed, PodIds
  <2>2. Settled(p)' /\ p = requests'[r].warm
    BY <1>1, <2>1 DEF RequestAddressed, SettledStay
  <2> QED
    BY <2>2
<1>2. requests[r].pc \in Addressed => pods'[requests[r].ip].ip
  BY DEF RequestAddressed, IPsStay, PodIds
<1>3. ASSUME requests[r].pc = "setrunning", requests[r].id \in Tracked'
      PROVE  sandboxes'[requests[r].id].podIP # None
  <2>1. requests[r].id \in issued
    BY <1>3, TypeInvParts DEF RequestsOK, RequestSlots
  <2>2. requests[r].id \in Tracked
    BY <1>3, <2>1 DEF SandboxesStay
  <2> QED
    BY <1>3, <2>2 DEF RequestAddressed, AddressKept
<1> QED
  BY <1>1, <1>2, <1>3 DEF RequestAddressed, Tracked

\* One step of a claim: only a pod whose cached state is ready is claimed,
\* so its address is known all the way to the registry.
LEMMA RequestServing ==
  ASSUME TypeInv, KeyInv, Places, NEW r \in Requests, RequestAddressed(r), SettledStay,
         RequestStep(r)
  PROVE  RequestAddressed(r)'
<1>0. /\ SharedOK /\ ManagerTypeOK /\ requests \in [Requests -> RequestRecord]
      /\ requests[r] \in RequestRecord
      /\ requests[r].pc \in Claimed => requests[r].warm \in WarmIds
      /\ \A w \in WarmIds : w \in PodIds /\ w # None
  BY TypeInvParts, IdsAssumption DEF SharedOK, RequestsOK, RequestSlots, PodIds
<1>1. ASSUME NEW warm \in WarmIds, ClaimWarm(r, warm) PROVE RequestAddressed(r)'
  <2>1. /\ requests'[r].pc = "info" /\ requests'[r].warm = warm
        /\ warm \in Cached /\ cache[warm].ready
    BY <1>0, <1>1 DEF ClaimWarm, ClaimHit, Serves, RequestRecord
  <2>2. cache[warm].pod = warm
    BY <2>1 DEF KeyInv, CacheKeyed
  <2>3. Settled(warm)
    BY <2>1, <2>2 DEF Places, CacheAddressed
  <2>4. Settled(warm)'
    BY <1>0, <2>3 DEF SettledStay
  <2> QED
    BY <2>1, <2>4 DEF RequestAddressed, Addressed
<1>2. ASSUME ClaimInfo(r) PROVE RequestAddressed(r)'
  <2> DEFINE warm == requests[r].warm
  <2>1. warm \in WarmIds /\ Settled(warm)
    BY <1>0, <1>2 DEF ClaimInfo, RequestAddressed, Claimed
  <2>2. CASE warm \notin Cached
    <3>1. requests'[r].pc = "create"
      BY <1>0, <1>2, <2>2 DEF ClaimInfo, RequestRecord
    <3> QED
      BY <3>1 DEF RequestAddressed, Addressed
  <2>3. CASE warm \in Cached
    <3>1. /\ requests'[r].pc = "remap" /\ requests'[r].warm = warm
          /\ requests'[r].ip = Address(cache[warm])
      BY <1>0, <1>2, <2>3 DEF ClaimInfo, RequestRecord
    <3>2. cache[warm].pod = warm /\ cache[warm].ip
      BY <2>1, <2>3 DEF KeyInv, CacheKeyed, Settled
    <3>3. pods'[warm].ip
      BY <1>2, <2>1 DEF ClaimInfo, kube, Settled
    <3> QED
      BY <2>1, <3>1, <3>2, <3>3 DEF RequestAddressed, Address, Addressed
  <2> QED
    BY <2>2, <2>3
<1>3. ASSUME ClaimRemap(r) PROVE RequestAddressed(r)'
  <2>1. /\ requests'[r].pc = "setip" /\ requests'[r].warm = requests[r].warm
        /\ requests'[r].ip = requests[r].ip /\ UNCHANGED pods /\ requests[r].pc = "remap"
    BY <1>0, <1>3 DEF ClaimRemap, Goto, RequestRecord, kube
  <2> QED
    BY <2>1 DEF RequestAddressed, Addressed
<1>4. ASSUME ClaimSetIP(r) PROVE RequestAddressed(r)'
  <2>1. /\ requests'[r].pc = "setrunning" /\ requests'[r].id = requests[r].id
        /\ requests[r].pc = "setip"
    BY <1>0, <1>4 DEF ClaimSetIP, Goto, RequestRecord
  <2>2. requests[r].ip # None
    BY <1>0, <2>1 DEF RequestAddressed, Addressed
  <2>3. requests[r].id \in Tracked' => sandboxes'[requests[r].id].podIP = requests[r].ip
    BY <1>0, <1>4 DEF ClaimSetIP, SetPodIP, ManagerTypeOK, IsMap, SandboxRecord, Tracked
  <2> QED
    BY <2>1, <2>2, <2>3 DEF RequestAddressed, Addressed, Tracked
<1>5. CASE ~(\E warm \in WarmIds : ClaimWarm(r, warm)) /\ ~ClaimInfo(r) /\ ~ClaimRemap(r)
           /\ ~ClaimSetIP(r)
  <2>1. requests'[r].pc \notin {"info", "remap", "setip", "setrunning"}
    BY <1>0, <1>5
       DEF RequestRecord, RequestStep, ClaimNothing, ClaimDone, ColdCreate, ColdCreateFails,
           CreateRollback, DeletePod, DeletePodFails, DeleteForget, DeleteDisconnect, DeleteStop,
           DeleteRemove, Goto, Respond, NoRequest
  <2> QED
    BY <2>1 DEF RequestAddressed, Addressed
<1> QED
  BY <1>1, <1>2, <1>3, <1>4, <1>5

\* Sandboxes that neither get another address nor become running.
Calm == \A x \in Tracked' :
  /\ x \in Tracked
  /\ sandboxes'[x].podIP = sandboxes[x].podIP
  /\ sandboxes'[x].status = "running" => sandboxes[x].status = "running"

\* What the calls of the manager do to the statuses.
LEMMA ManagerCallsCalm ==
  ASSUME ManagerTypeOK
  PROVE  /\ \A id, s : s # "running" /\ SetStatus(id, s) => Calm
         /\ \A id : Remove(id) => Calm
         /\ \A id, t : ExtendTimeout(id, t) => Calm
         /\ UNCHANGED sandboxes => Calm
<1> USE DEF ManagerTypeOK, IsMap, SandboxRecord, Calm, Tracked
<1>1. ASSUME NEW id, NEW s, s # "running", SetStatus(id, s) PROVE Calm
  BY <1>1 DEF SetStatus
<1>2. ASSUME NEW id, Remove(id) PROVE Calm
  BY <1>2 DEF Remove, Delete, Restrict
<1>3. ASSUME NEW id, NEW t, ExtendTimeout(id, t) PROVE Calm
  BY <1>3 DEF ExtendTimeout
<1> QED
  BY <1>1, <1>2, <1>3

\* What the setters of a known address and of a status do to every sandbox.
LEMMA SetterServes ==
  ASSUME TypeInv, IPsStay, \A x \in Tracked : SandboxServed(x)
  PROVE  /\ Calm => \A x \in Tracked' : SandboxServed(x)'
         /\ \A id : \A ip \in PodIds : SetPodIP(id, ip) /\ pods'[ip].ip =>
              \A x \in Tracked' : SandboxServed(x)'
         /\ \A id :
              SetStatus(id, "running") /\ (id \in Tracked => pods'[id].ip \/ sandboxes[id].podIP # None)
                => \A x \in Tracked' : SandboxServed(x)'
<1>0. /\ ManagerTypeOK
      /\ \A x \in Tracked : x \in PodIds /\ sandboxes[x].podIP \in PodIds \cup {None}
      /\ None \notin PodIds
  BY TypeInvParts, IdsAssumption DEF SharedOK, ManagerTypeOK, IsMap, Tracked, SandboxRecord, PodIds
<1>1. ASSUME NEW x \in Tracked', x \in Tracked,
             sandboxes'[x].podIP # None => pods'[sandboxes'[x].podIP].ip,
             sandboxes'[x].status = "running" => pods'[x].ip \/ sandboxes'[x].podIP # None
      PROVE  SandboxServed(x)'
  BY <1>1 DEF SandboxServed
<1>2. ASSUME NEW x \in Tracked
      PROVE  /\ sandboxes[x].podIP # None => pods'[sandboxes[x].podIP].ip
             /\ sandboxes[x].status = "running" => pods'[x].ip \/ sandboxes[x].podIP # None
  BY <1>0 DEF SandboxServed, IPsStay
<1>3. ASSUME Calm, NEW x \in Tracked' PROVE SandboxServed(x)'
  BY <1>1, <1>2, <1>3 DEF Calm
<1>4. ASSUME NEW id, NEW ip \in PodIds, SetPodIP(id, ip), pods'[ip].ip, NEW x \in Tracked'
      PROVE  SandboxServed(x)'
  <2>1. /\ x \in Tracked
        /\ x # id => sandboxes'[x] = sandboxes[x]
        /\ x = id => sandboxes'[x].podIP = ip
    BY <1>0, <1>4 DEF SetPodIP, ManagerTypeOK, IsMap, SandboxRecord, Tracked
  <2> QED
    BY <1>0, <1>1, <1>2, <1>4, <2>1
<1>5. ASSUME NEW id, SetStatus(id, "running"),
             id \in Tracked => pods'[id].ip \/ sandboxes[id].podIP # None, NEW x \in Tracked'
      PROVE  SandboxServed(x)'
  <2>1. /\ x \in Tracked
        /\ x # id => sandboxes'[x] = sandboxes[x]
        /\ sandboxes'[x].podIP = sandboxes[x].podIP
    BY <1>0, <1>5 DEF SetStatus, ManagerTypeOK, IsMap, SandboxRecord, Tracked
  <2> QED
    BY <1>1, <1>2, <1>5, <2>1
<1> QED
  BY <1>3, <1>4, <1>5

\* Every step.
LEMMA ServingStep ==
  ASSUME TypeInv, KeyInv, Places, Owning, Serving, [Next]_vars
  PROVE  Serving'
<1>0. /\ SettledStay /\ IPsStay /\ AddressKept /\ Places'
      /\ SharedOK /\ ManagerTypeOK /\ RequestsOK
      /\ \A r \in Requests : RequestAddressed(r)
      /\ \A x \in Tracked : SandboxServed(x)
      /\ SandboxesStay \/ \E dialed \in SUBSET SandboxIds : Recovery(dialed)
  BY PlacesStep, AddressKeptStep, TypeInvParts, StepsStay DEF SharedOK, Serving
<1>R. ASSUME SandboxesStay, UNCHANGED requests
      PROVE  \A r \in Requests : RequestAddressed(r)'
  BY <1>0, <1>R, RequestAddressedKept
<1>C. ASSUME Calm PROVE \A x \in Tracked' : SandboxServed(x)'
  BY <1>0, <1>C, SetterServes
<1>I. ASSUME NEW r \in Requests, requests'[r].pc \in {"idle", "claim", "delete"}
      PROVE  RequestAddressed(r)'
  BY <1>I DEF RequestAddressed, Addressed
<1>N. ~(\E dialed \in SUBSET SandboxIds : Recovery(dialed)) => SandboxesStay
  BY <1>0
<1>1. CASE Client
  <2>0. SandboxesStay
    BY <1>N, <1>1 DEF Client, Recovery, control
  <2>1. ASSUME NEW r \in Requests, NEW id \in SandboxIds, NEW key \in Keys, NEW timeout \in Timeouts,
               CreateRequest(r, id, key, timeout)
        PROVE  Serving'
    <3>1. /\ requests'[r].pc = "claim"
          /\ \A q \in Requests : q # r => requests'[q] = requests[q]
      BY <1>0, <2>1 DEF CreateRequest, NoRequest, RequestsOK
    <3>2. ASSUME NEW q \in Requests PROVE RequestAddressed(q)'
      BY <1>0, <1>I, <2>0, <3>1, <3>2, RequestAddressedKept
    <3>3. ASSUME NEW x \in Tracked' PROVE SandboxServed(x)'
      <4>1. CASE x = id
        <5>1. sandboxes'[x].podIP = None /\ sandboxes'[x].status = "starting"
          BY <2>1, <4>1 DEF CreateRequest, Create, Put
        <5> QED
          BY <5>1 DEF SandboxServed
      <4>2. CASE x # id
        <5>1. x \in Tracked /\ sandboxes'[x] = sandboxes[x]
          BY <2>1, <3>3, <4>2 DEF CreateRequest, Create, Put, Tracked
        <5>2. UNCHANGED pods
          BY <2>1 DEF CreateRequest, kube
        <5> QED
          BY <1>0, <5>1, <5>2 DEF SandboxServed
      <4> QED
        BY <4>1, <4>2
    <3> QED
      BY <3>2, <3>3 DEF Serving, Tracked
  <2>2. ASSUME NEW r \in Requests, NEW id \in SandboxIds, DeleteRequest(r, id)
        PROVE  Serving'
    <3>1. /\ requests'[r].pc = "delete"
          /\ \A q \in Requests : q # r => requests'[q] = requests[q]
      BY <1>0, <2>2 DEF DeleteRequest, NoRequest, RequestsOK
    <3>2. ASSUME NEW q \in Requests PROVE RequestAddressed(q)'
      BY <1>0, <1>I, <2>0, <3>1, <3>2, RequestAddressedKept
    <3>3. Calm
      BY <1>0, <2>2, ManagerCallsCalm DEF DeleteRequest
    <3> QED
      BY <1>C, <3>2, <3>3 DEF Serving, Tracked
  <2>3. ASSUME NEW id \in SandboxIds, Keepalive(id)
        PROVE  Serving'
    <3>1. Calm /\ UNCHANGED requests
      BY <1>0, <2>3, ManagerCallsCalm DEF Keepalive
    <3> QED
      BY <1>C, <1>R, <2>0, <3>1 DEF Serving, Tracked
  <2> QED
    BY <1>1, <2>1, <2>2, <2>3 DEF Client
<1>2. ASSUME NEW r \in Requests, RequestStep(r) PROVE Serving'
  <2>0. SandboxesStay
    BY <1>N, <1>2 DEF RequestStep, Recovery, control
  <2>1. ASSUME NEW q \in Requests PROVE RequestAddressed(q)'
    <3>1. CASE q = r
      BY <1>0, <1>2, <3>1, RequestServing
    <3>2. CASE q # r
      BY <1>0, <1>2, <2>0, <3>2, RequestAddressedKept, RequestFrames
    <3> QED
      BY <3>1, <3>2
  <2>2. CASE ClaimSetIP(r)
    <3>1. PICK ip \in PodIds : ip = requests[r].ip /\ pods[ip].ip
      BY <1>0, <2>2 DEF ClaimSetIP, RequestAddressed, Addressed, PodIds
    <3>2. SetPodIP(requests[r].id, ip) /\ pods'[ip].ip
      BY <1>0, <2>2, <3>1 DEF ClaimSetIP, IPsStay
    <3> QED
      BY <1>0, <2>1, <3>2, SetterServes DEF Serving, Tracked
  <2>3. CASE ClaimDone(r)
    <3>1. requests[r].id \in Tracked => sandboxes[requests[r].id].podIP # None
      BY <1>0, <2>3 DEF ClaimDone, RequestAddressed
    <3>2. SetStatus(requests[r].id, "running")
      BY <2>3 DEF ClaimDone
    <3> QED
      BY <1>0, <2>1, <3>1, <3>2, SetterServes DEF Serving, Tracked
  <2>4. CASE ~ClaimSetIP(r) /\ ~ClaimDone(r)
    <3>1. Calm
      BY <1>0, <1>2, <2>4, ManagerCallsCalm
         DEF RequestStep, ClaimWarm, ClaimNothing, ClaimInfo, ClaimRemap, ColdCreate, ColdCreateFails,
             CreateRollback, DeletePod, DeletePodFails, DeleteForget, DeleteDisconnect, DeleteStop,
             DeleteRemove
    <3> QED
      BY <1>C, <2>1, <3>1 DEF Serving, Tracked
  <2> QED
    BY <2>2, <2>3, <2>4
<1>3. ASSUME NEW c \in Callbacks, CallbackStep(c) PROVE Serving'
  <2>0. SandboxesStay /\ UNCHANGED requests
    BY <1>N, <1>3 DEF CallbackStep, Recovery, control
  <2>1. callbacks[c].pc # "idle" => callbacks[c].id \in PodIds /\ Settled(callbacks[c].id)
    BY TypeInvParts DEF CallbacksOK, CallbackSlots, Owning, CallbacksAddressed
  <2>2. CASE CallbackSetIP(c)
    <3>1. PICK ip \in PodIds : ip = callbacks[c].ip /\ pods[ip].ip
      BY <2>1, <2>2 DEF CallbackSetIP, Owning, CallbacksAddressed, Settled
    <3>2. SetPodIP(callbacks[c].id, ip) /\ pods'[ip].ip
      BY <1>0, <2>2, <3>1 DEF CallbackSetIP, IPsStay
    <3> QED
      BY <1>0, <1>R, <2>0, <3>2, SetterServes DEF Serving, Tracked
  <2>3. CASE CallbackBegins(c) /\ callbacks[c].id \notin WarmIds
    <3>1. SetStatus(callbacks[c].id, "running")
      BY <2>3 DEF CallbackBegins
    <3>2. pods'[callbacks[c].id].ip
      BY <1>0, <2>1, <2>3 DEF CallbackBegins, Settled, IPsStay
    <3> QED
      BY <1>0, <1>R, <2>0, <3>1, <3>2, SetterServes DEF Serving, Tracked
  <2>4. CASE ~CallbackSetIP(c) /\ ~(CallbackBegins(c) /\ callbacks[c].id \notin WarmIds)
    <3>1. UNCHANGED sandboxes
      BY <1>3, <2>4
         DEF CallbackStep, CallbackSkips, CallbackBegins, CallbackInfo, CallbackDials,
             CallbackDialFails, CallbackStores, CallbackMarks
    <3>2. Calm
      BY <1>0, <3>1, ManagerCallsCalm
    <3> QED
      BY <1>C, <1>R, <2>0, <3>2 DEF Serving, Tracked
  <2> QED
    BY <2>2, <2>3, <2>4
<1>4. CASE ReaperStep
  <2>0. SandboxesStay /\ UNCHANGED requests
    BY <1>N, <1>4 DEF ReaperStep, Recovery, control
  <2>1. Calm
    BY <1>0, <1>4, ManagerCallsCalm
       DEF ReaperStep, ReaperTick, ReaperForces, ReaperForceFails, ReaperStops, ReaperForceForgets,
           ReaperScans, ReaperDeletes, ReaperDeleteFails, ReaperForgets, ReaperDisconnects,
           ReaperRemoves
  <2> QED
    BY <1>C, <1>R, <2>0, <2>1 DEF Serving, Tracked
<1>5. CASE Boot
  <2>1. ASSUME NEW dialed \in SUBSET SandboxIds, Recovery(dialed)
        PROVE  Serving'
    <3>1. ASSUME NEW r \in Requests PROVE RequestAddressed(r)'
      <4>1. requests'[r].pc = "idle"
        BY <1>5, <2>1 DEF Boot, Recovery, KeyInv, DownIsQuiet
      <4> QED
        BY <1>I, <4>1
    <3>2. ASSUME NEW x \in Tracked' PROVE SandboxServed(x)'
      <4>1. /\ x \in PodIds /\ UNCHANGED pods
            /\ sandboxes'[x].podIP = IF pods[x].ip THEN x ELSE None
            /\ sandboxes'[x].status = IF pods[x].ready THEN "running" ELSE "starting"
        BY <1>5, <2>1, <3>2 DEF Boot, Recovery, RecoveredRecord, Tracked, kube, Recoverable, PodIds
      <4>2. pods[x].ready => pods[x].ip
        BY <4>1 DEF Places, PodsAddressed
      <4> QED
        BY <4>1, <4>2 DEF SandboxServed
    <3> QED
      BY <3>1, <3>2 DEF Serving, Tracked
  <2>2. CASE RecoveryFails \/ (\E key \in Keys : BootFill(key)) \/ BootServe
    <3>1. UNCHANGED <<requests, sandboxes>>
      BY <1>5, <2>2 DEF Boot, RecoveryFails, BootFill, BootServe
    <3>2. Calm /\ SandboxesStay
      BY <1>0, <3>1, ManagerCallsCalm, ManagerCallsStay
    <3> QED
      BY <1>C, <1>R, <3>1, <3>2 DEF Serving, Tracked
  <2> QED
    BY <1>5, <2>1, <2>2 DEF Boot
<1>6. CASE Crash
  <2>1. Tracked' = {} /\ \A r \in Requests : requests'[r].pc = "idle"
    BY <1>6 DEF Crash, Tracked, EmptyMap, NoRequest
  <2> QED
    BY <1>I, <2>1 DEF Serving, Tracked
<1>7. CASE \/ \E f \in Fillers : FillStep(f)
           \/ WatchLoop
           \/ \E p \in PodIds : PodStep(p)
           \/ Tick \/ UNCHANGED vars
  <2>1. UNCHANGED <<requests, sandboxes>>
    BY <1>7 DEF FillStep, WatchLoop, PodStep, Tick, vars, agentVars
  <2>2. Calm /\ SandboxesStay
    BY <1>0, <2>1, ManagerCallsCalm, ManagerCallsStay
  <2> QED
    BY <1>C, <1>R, <2>1, <2>2 DEF Serving, Tracked
<1> QED
  BY <1>1, <1>2, <1>3, <1>4, <1>5, <1>6, <1>7 DEF Next

\* What claims hold and what sandboxes show, in every reachable state.
LEMMA ServingHolds == Spec => []Serving
<1>1. Init => Serving
  BY DEF Init, ManagerInit, EmptyMap, Tracked, NoRequest, Serving, RequestAddressed, Addressed
<1>2. TypeInv /\ KeyInv /\ (Places /\ Owning) /\ Serving /\ [Next]_vars => Serving'
  BY ServingStep
<1> QED
  BY <1>1, <1>2, AddressesHold, TypeCorrect, KeysAgree, PTL DEF Spec

\* A sandbox is reported running only when the pod that is to serve it has
\* been ready, whether it was created, claimed or recovered (http.go:354,
\* main.go:80, manager.go:155).
THEOREM RunningMeansReady == Spec => []RunningWasReady
<1>1. Serving => RunningWasReady
  BY DEF Serving, SandboxServed, RunningWasReady
<1> QED
  BY <1>1, ServingHolds, PTL

-------------------------------------------------------------------------------
(* How many sandboxes a warm pod serves.                                    *)

Positions(s, w) == {i \in DOMAIN s : s[i] = w}

\* An appended element takes one place more.
LEMMA AppendCounts ==
  ASSUME NEW S, NEW s \in Seq(S), NEW e \in S, NEW w
  PROVE  /\ IsFiniteSet(Positions(s, w)) /\ Cardinality(Positions(s, w)) \in Nat
         /\ e = w => Cardinality(Positions(Append(s, e), w)) = Cardinality(Positions(s, w)) + 1
         /\ e # w => Positions(Append(s, e), w) = Positions(s, w)
<1>1. DOMAIN s = 1..Len(s) /\ Len(s) \in Nat /\ 1 \in Int
  OBVIOUS
<1>2. IsFiniteSet(1..Len(s))
  BY <1>1, FS_Interval
<1>3. Positions(s, w) \subseteq 1..Len(s)
  BY <1>1 DEF Positions
<1>4. IsFiniteSet(Positions(s, w)) /\ Cardinality(Positions(s, w)) \in Nat
  BY <1>2, <1>3, FS_Subset, FS_CardinalityType
<1>5. Append(s, e) \in Seq(S) /\ DOMAIN Append(s, e) = 1..(Len(s) + 1)
  BY <1>1
<1>6. /\ \A i \in 1..Len(s) : Append(s, e)[i] = s[i]
      /\ Append(s, e)[Len(s) + 1] = e
      /\ \A i \in 1..(Len(s) + 1) : i \in 1..Len(s) \/ i = Len(s) + 1
      /\ Len(s) + 1 \notin 1..Len(s) /\ Len(s) + 1 \in 1..(Len(s) + 1)
      /\ \A i \in 1..Len(s) : i \in 1..(Len(s) + 1)
  BY <1>1
<1>7. ASSUME e = w
      PROVE  Cardinality(Positions(Append(s, e), w)) = Cardinality(Positions(s, w)) + 1
  <2>1. Positions(Append(s, e), w) = Positions(s, w) \cup {Len(s) + 1}
    BY <1>1, <1>5, <1>6, <1>7 DEF Positions
  <2>2. Len(s) + 1 \notin Positions(s, w)
    BY <1>3, <1>6
  <2> QED
    BY <1>4, <2>1, <2>2, FS_AddElement
<1>8. ASSUME e # w PROVE Positions(Append(s, e), w) = Positions(s, w)
  BY <1>1, <1>5, <1>6, <1>8 DEF Positions
<1> QED
  BY <1>4, <1>7, <1>8

\* Where an element of a list was before RemoveAt.
LEMMA RemoveAtMoves ==
  ASSUME NEW S, NEW s \in Seq(S), NEW i \in DOMAIN s, NEW j \in DOMAIN Seqs!RemoveAt(s, i)
  PROVE  /\ j \in Int /\ i \in Int
         /\ j < i => j \in DOMAIN s /\ Seqs!RemoveAt(s, i)[j] = s[j]
         /\ ~(j < i) => j + 1 \in DOMAIN s /\ j + 1 # i /\ Seqs!RemoveAt(s, i)[j] = s[j + 1]
<1> DEFINE before == SubSeq(s, 1, i - 1)
           after == SubSeq(s, i + 1, Len(s))
<1>1. i \in 1..Len(s) /\ Len(s) \in Nat /\ DOMAIN s = 1..Len(s)
  OBVIOUS
<1>2. /\ before \in Seq(S) /\ Len(before) = i - 1
      /\ \A m \in 1..(i - 1) : before[m] = s[m]
  BY <1>1
<1>3. /\ after \in Seq(S) /\ Len(after) = Len(s) - i
      /\ \A m \in 1..(Len(s) - i) : after[m] = s[m + i]
  BY <1>1
<1>4. Seqs!RemoveAt(s, i) = before \o after
  BY DEF Seqs!RemoveAt
<1> HIDE DEF before, after
<1>5. /\ DOMAIN (before \o after) = 1..(Len(s) - 1)
      /\ \A m \in 1..(Len(s) - 1) :
           /\ m <= i - 1 => (before \o after)[m] = before[m]
           /\ ~(m <= i - 1) => (before \o after)[m] = after[m - (i - 1)]
  <2>1. /\ Len(before) \in Nat /\ Len(after) \in Nat
        /\ Len(before) = i - 1 /\ Len(before) + Len(after) = Len(s) - 1
    BY <1>1, <1>2, <1>3
  <2>2. /\ DOMAIN (before \o after) = 1..(Len(before) + Len(after))
        /\ \A m \in 1..(Len(before) + Len(after)) :
             /\ m <= Len(before) => (before \o after)[m] = before[m]
             /\ ~(m <= Len(before)) => (before \o after)[m] = after[m - Len(before)]
    BY <1>2, <1>3
  <2> QED
    BY <2>1, <2>2
<1>6. j \in 1..(Len(s) - 1)
  BY <1>4, <1>5
<1>7. ASSUME j < i PROVE j \in DOMAIN s /\ Seqs!RemoveAt(s, i)[j] = s[j]
  <2>1. j <= i - 1 /\ j \in 1..(i - 1) /\ j \in DOMAIN s
    BY <1>1, <1>6, <1>7
  <2> QED
    BY <1>2, <1>4, <1>5, <1>6, <2>1
<1>8. ASSUME ~(j < i)
      PROVE  j + 1 \in DOMAIN s /\ j + 1 # i /\ Seqs!RemoveAt(s, i)[j] = s[j + 1]
  <2>1. /\ ~(j <= i - 1) /\ j - (i - 1) \in 1..(Len(s) - i) /\ j - (i - 1) + i = j + 1
        /\ j + 1 \in DOMAIN s /\ j + 1 # i
    BY <1>1, <1>6, <1>8
  <2>2. after[j - (i - 1)] = s[j + 1]
    BY <1>3, <2>1
  <2> QED
    BY <1>4, <1>5, <1>6, <2>1, <2>2
<1> QED
  BY <1>1, <1>6, <1>7, <1>8

\* A removed element frees one place, and none is taken.
LEMMA RemoveAtCounts ==
  ASSUME NEW S, NEW s \in Seq(S), NEW i \in DOMAIN s, NEW w
  PROVE  /\ IsFiniteSet(Positions(Seqs!RemoveAt(s, i), w))
         /\ Cardinality(Positions(Seqs!RemoveAt(s, i), w)) <= Cardinality(Positions(s, w))
         /\ s[i] = w =>
              Cardinality(Positions(Seqs!RemoveAt(s, i), w)) + 1 <= Cardinality(Positions(s, w))
<1> DEFINE new == Positions(Seqs!RemoveAt(s, i), w)
           old == Positions(s, w) \ {i}
           move == [j \in new |-> IF j < i THEN j ELSE j + 1]
<1>1. IsFiniteSet(Positions(s, w)) /\ Cardinality(Positions(s, w)) \in Nat
  <2>1. IsFiniteSet(1..Len(s)) /\ Positions(s, w) \subseteq 1..Len(s)
    BY FS_Interval DEF Positions
  <2> QED
    BY <2>1, FS_Subset, FS_CardinalityType
<1>2. /\ IsFiniteSet(old) /\ Cardinality(old) <= Cardinality(Positions(s, w))
      /\ s[i] = w => Cardinality(old) + 1 = Cardinality(Positions(s, w))
  <2>1. s[i] = w => i \in Positions(s, w)
    BY DEF Positions
  <2>2. /\ IsFiniteSet(old)
        /\ i \in Positions(s, w) => Cardinality(old) = Cardinality(Positions(s, w)) - 1
        /\ i \notin Positions(s, w) => Cardinality(old) = Cardinality(Positions(s, w))
    BY <1>1, FS_RemoveElement
  <2> QED
    BY <1>1, <2>1, <2>2
<1>3. ASSUME NEW j \in new
      PROVE  j \in Int /\ i \in Int /\ (IF j < i THEN j ELSE j + 1) \in old
  <2>1. j \in DOMAIN Seqs!RemoveAt(s, i) /\ Seqs!RemoveAt(s, i)[j] = w
    BY <1>3 DEF Positions
  <2>2. /\ j \in Int /\ i \in Int
        /\ j < i => j \in DOMAIN s /\ s[j] = w
        /\ ~(j < i) => j + 1 \in DOMAIN s /\ j + 1 # i /\ s[j + 1] = w
    BY <2>1, RemoveAtMoves
  <2> QED
    BY <2>2 DEF Positions
<1>4. move \in Injection(new, old)
  <2>1. move \in [new -> old]
    BY <1>3
  <2>2. ASSUME NEW a \in new, NEW b \in new, move[a] = move[b] PROVE a = b
    BY <1>3, <2>2
  <2> QED
    BY <2>1, <2>2 DEF Injection, IsInjective
<1>5. IsFiniteSet(new) /\ Cardinality(new) <= Cardinality(old)
  BY <1>2, <1>4, FS_Injection
<1>6. Cardinality(new) \in Nat /\ Cardinality(old) \in Nat
  BY <1>2, <1>5, FS_CardinalityType
<1> QED
  BY <1>1, <1>2, <1>5, <1>6

\* The phases of a create request whose claimed pod the registry may not show.
Held == {"info", "remap", "setip"}

\* The sandboxes that have warm pod w, or are about to, and its pool places.
Users(w) ==
  {id \in SandboxIds :
     \/ id \in Tracked /\ sandboxes[id].podIP = w
     \/ \E r \in Requests :
          requests[r].pc \in Held /\ requests[r].warm = w /\ requests[r].id = id}

Slots(w) == Positions(pool[pods[w].key], w)

\* A claim takes a place out of the pool, and only MarkReady puts one in.
MarksCount ==
  \A w \in WarmIds : Cardinality(Users(w)) + Cardinality(Slots(w)) <= marks[w]

\* A warm pod has finitely many users.
LEMMA UsersFinite ==
  ASSUME NEW w
  PROVE  IsFiniteSet(Users(w)) /\ Cardinality(Users(w)) \in Nat
<1>1. IsFiniteSet(SandboxIds)
  BY AgentAssumption, FS_Subset DEF PodIds
<1>2. Users(w) \subseteq SandboxIds
  BY DEF Users
<1> QED
  BY <1>1, <1>2, FS_Subset, FS_CardinalityType

\* Both sets only shrink when no claim and no MarkReady happens.
LEMMA MarksKept ==
  ASSUME TypeInv, TypeInv', MarksCount, NEW w \in WarmIds, UNCHANGED marks,
         Users(w)' \subseteq Users(w), Slots(w)' \subseteq Slots(w)
  PROVE  (Cardinality(Users(w)) + Cardinality(Slots(w)) <= marks[w])'
<1>1. /\ IsFiniteSet(Users(w)) /\ Cardinality(Users(w)) \in Nat
      /\ Cardinality(Users(w)') \in Nat /\ Cardinality(Users(w)') <= Cardinality(Users(w))
  BY UsersFinite, FS_Subset, FS_CardinalityType
<1>2. pool[pods[w].key] \in Seq(WarmIds)
  BY TypeInvParts DEF SharedOK, PoolTypeOK, KubeTypeOK, PodRecord, PodIds
<1>3. /\ IsFiniteSet(Slots(w)) /\ Cardinality(Slots(w)) \in Nat
      /\ Cardinality(Slots(w)') \in Nat /\ Cardinality(Slots(w)') <= Cardinality(Slots(w))
  BY <1>2, AppendCounts, FS_Subset, FS_CardinalityType DEF Slots
<1>4. marks[w] \in Nat /\ marks'[w] = marks[w]
  BY TypeInvParts DEF SharedOK
<1>5. Cardinality(Users(w)) + Cardinality(Slots(w)) <= marks[w]
  BY DEF MarksCount
<1> QED
  BY <1>1, <1>3, <1>4, <1>5

\* While the pool is left alone a pod gets no place: one that is created only
\* now was in no pool under any key.
LEMMA SlotsKept ==
  ASSUME TypeInv, TypeInv', KeyInv, PodsStay, NEW w \in WarmIds, UNCHANGED pool
  PROVE  Slots(w)' \subseteq Slots(w)
<1>0. w \in PodIds
  BY DEF PodIds
<1>1. CASE Created(w)
  BY <1>0, <1>1 DEF PodsStay, Slots, Positions
<1>2. CASE ~Created(w)
  <2>1. \A k \in Keys : \A i \in DOMAIN pool[k] : pool[k][i] # w
    BY <1>2 DEF KeyInv, PoolKeyed, Keyed
  <2>2. pods'[w].key \in Keys
    BY <1>0 DEF TypeInv, TypeOK, KubeTypeOK, PodRecord
  <2> QED
    BY <2>1, <2>2 DEF Slots, Positions
<1> QED
  BY <1>1, <1>2

\* What a step must do to give a warm pod no sandbox it did not have.
UsersStay ==
  /\ \A x \in Tracked' : \A w \in WarmIds : sandboxes'[x].podIP = w => x \in Users(w)
  /\ \A r \in Requests : requests'[r].pc \in Held =>
       /\ requests[r].pc \in Held
       /\ requests'[r].warm = requests[r].warm
       /\ requests'[r].id = requests[r].id

\* A step that adds no user of a warm pod.
LEMMA UsersKept ==
  ASSUME UsersStay, NEW w \in WarmIds
  PROVE  Users(w)' \subseteq Users(w)
BY DEF UsersStay, Users, Tracked

\* A sandbox whose address does not change is no new user.
LEMMA QuietUsers ==
  ASSUME TypeInv, NEW x \in SandboxIds, SandboxQuiet(x), x \in Tracked', NEW w,
         sandboxes'[x].podIP = w
  PROVE  x \in Users(w)
BY DEF SandboxQuiet, Users

\* A claim: the handler takes the place the pod had.
LEMMA ClaimCounts ==
  ASSUME TypeInv, TypeInv', KeyInv, MarksCount, PodsStay, NEW r \in Requests,
         NEW warm \in WarmIds, ClaimWarm(r, warm)
  PROVE  MarksCount'
<1>0. /\ requests \in [Requests -> RequestRecord] /\ pool \in [Keys -> Seq(WarmIds)]
      /\ requests[r].key \in Keys /\ pods \in [PodIds -> PodRecord]
      /\ \A w \in WarmIds : w \in PodIds /\ pods[w].key \in Keys /\ marks[w] \in Nat
      /\ UNCHANGED <<pods, marks, sandboxes>>
  BY TypeInvParts DEF SharedOK, RequestsOK, RequestSlots, Creating, ClaimWarm, PoolTypeOK,
                      KubeTypeOK, PodRecord, PodIds, kube, history
<1>k. PICK k \in Keys : k = requests[r].key
  BY <1>0
<1>1. PICK i \in DOMAIN pool[k] :
        /\ pool[k][i] = warm
        /\ pool' = [pool EXCEPT ![k] = Seqs!RemoveAt(pool[k], i)]
  BY <1>0, <1>k DEF ClaimWarm, ClaimHit
<1>2. pods[warm].key = k
  BY <1>1 DEF KeyInv, PoolKeyed, Keyed
<1>3. /\ requests'[r].pc = "info" /\ requests'[r].warm = warm /\ requests'[r].id = requests[r].id
      /\ \A q \in Requests : q # r => requests'[q] = requests[q]
  BY <1>0 DEF ClaimWarm, RequestRecord
<1>4. \A w \in WarmIds : Users(w)' \subseteq Users(w) \cup (IF w = warm THEN {requests[r].id} ELSE {})
  BY <1>0, <1>3 DEF Users, Tracked
<1>5. ASSUME NEW w \in WarmIds
      PROVE  /\ IsFiniteSet(Slots(w)) /\ Cardinality(Slots(w)) \in Nat
             /\ Cardinality(Slots(w)') \in Nat
             /\ Cardinality(Slots(w)') <= Cardinality(Slots(w))
             /\ w = warm => Cardinality(Slots(w)') + 1 <= Cardinality(Slots(w))
  <2>1. pool[pods[w].key] \in Seq(WarmIds) /\ pool[k] \in Seq(WarmIds)
    BY <1>0
  <2>2. IsFiniteSet(Slots(w)) /\ Cardinality(Slots(w)) \in Nat
    BY <2>1, AppendCounts DEF Slots
  <2>3. CASE pods[w].key = k
    <3>1. Slots(w)' = Positions(Seqs!RemoveAt(pool[k], i), w) /\ Slots(w) = Positions(pool[k], w)
      BY <1>0, <1>1, <2>3 DEF Slots
    <3>2. /\ IsFiniteSet(Slots(w)')
          /\ Cardinality(Slots(w)') <= Cardinality(Slots(w))
          /\ pool[k][i] = w => Cardinality(Slots(w)') + 1 <= Cardinality(Slots(w))
      BY <2>1, <3>1, RemoveAtCounts
    <3> QED
      BY <1>1, <2>2, <3>2, FS_CardinalityType
  <2>4. CASE pods[w].key # k
    <3>1. Slots(w)' = Slots(w) /\ w # warm
      BY <1>0, <1>1, <1>2, <2>4 DEF Slots
    <3> QED
      BY <2>2, <3>1
  <2> QED
    BY <2>3, <2>4
<1>6. ASSUME NEW w \in WarmIds
      PROVE  /\ Cardinality(Users(w)) \in Nat /\ Cardinality(Users(w)') \in Nat
             /\ w # warm => Cardinality(Users(w)') <= Cardinality(Users(w))
             /\ Cardinality(Users(w)') <= Cardinality(Users(w)) + 1
  <2>1. IsFiniteSet(Users(w)) /\ Cardinality(Users(w)) \in Nat
    BY UsersFinite
  <2>2. CASE w # warm
    <3>1. Users(w)' \subseteq Users(w)
      BY <1>4, <2>2
    <3>2. Cardinality(Users(w)') \in Nat /\ Cardinality(Users(w)') <= Cardinality(Users(w))
      BY <2>1, <3>1, FS_Subset, FS_CardinalityType
    <3> QED
      BY <2>1, <3>2
  <2>3. CASE w = warm
    <3> DEFINE more == Users(w) \cup {requests[r].id}
    <3>1. Users(w)' \subseteq more
      BY <1>4, <2>3
    <3>2. /\ IsFiniteSet(more)
          /\ Cardinality(more) = Cardinality(Users(w)) \/ Cardinality(more) = Cardinality(Users(w)) + 1
      BY <2>1, FS_AddElement
    <3>3. Cardinality(Users(w)') \in Nat /\ Cardinality(Users(w)') <= Cardinality(more)
      BY <3>1, <3>2, FS_Subset, FS_CardinalityType
    <3> QED
      BY <2>1, <2>3, <3>2, <3>3
  <2> QED
    BY <2>2, <2>3
<1>7. ASSUME NEW w \in WarmIds
      PROVE  Cardinality(Users(w)') + Cardinality(Slots(w)') <= marks'[w]
  <2>1. Cardinality(Users(w)) + Cardinality(Slots(w)) <= marks[w] /\ marks'[w] = marks[w]
    BY <1>0 DEF MarksCount
  <2>2. marks[w] \in Nat
    BY <1>0
  <2> QED
    BY <1>5, <1>6, <2>1, <2>2
<1> QED
  BY <1>7 DEF MarksCount

\* MarkReady: the pod gets a place and a mark.
LEMMA MarkCounts ==
  ASSUME TypeInv, TypeInv', KeyInv, MarksCount, PodsStay, NEW c \in Callbacks,
         CallbackMarks(c), UNCHANGED <<pods, requests>>
  PROVE  MarksCount'
<1> DEFINE id == callbacks[c].id
           k == callbacks[c].key
<1>0. /\ pool \in [Keys -> Seq(WarmIds)] /\ marks \in [WarmIds -> Nat]
      /\ id \in WarmIds /\ k \in Keys /\ pods[id].key = k
      /\ \A w \in WarmIds : w \in PodIds /\ pods[w].key \in Keys
      /\ pool' = [pool EXCEPT ![k] = Append(pool[k], id)]
      /\ marks' = [marks EXCEPT ![id] = marks[id] + 1]
      /\ UNCHANGED sandboxes
  BY TypeInvParts DEF SharedOK, PoolTypeOK, CallbacksOK, CallbackSlots, CallbackMarks, MarkReady,
                      KeyInv, CallbacksKeyed, KubeTypeOK, PodRecord, PodIds
<1> HIDE DEF id, k
<1>1. ASSUME NEW w \in WarmIds
      PROVE  Cardinality(Users(w)') + Cardinality(Slots(w)') <= marks'[w]
  <2>1. Users(w)' = Users(w)
    BY <1>0 DEF Users, Tracked
  <2>2. /\ Cardinality(Users(w)) + Cardinality(Slots(w)) <= marks[w]
        /\ marks[w] \in Nat /\ Cardinality(Users(w)) \in Nat
    BY <1>0, UsersFinite DEF MarksCount
  <2>3. pool[k] \in Seq(WarmIds) /\ pool[pods[w].key] \in Seq(WarmIds)
    BY <1>0
  <2>4. Cardinality(Slots(w)) \in Nat
    BY <2>3, AppendCounts DEF Slots
  <2>5. CASE w = id
    <3>1. Slots(w)' = Positions(Append(pool[k], id), w) /\ Slots(w) = Positions(pool[k], w)
      BY <1>0, <2>5 DEF Slots
    <3>2. Cardinality(Slots(w)') = Cardinality(Slots(w)) + 1
      BY <1>0, <2>3, <2>5, <3>1, AppendCounts
    <3>3. marks'[w] = marks[w] + 1
      BY <1>0, <2>5
    <3> QED
      BY <2>1, <2>2, <2>4, <3>2, <3>3
  <2>6. CASE w # id
    <3>1. Positions(Append(pool[k], id), w) = Positions(pool[k], w)
      BY <1>0, <2>3, <2>6, AppendCounts
    <3>2. Slots(w)' = Slots(w) /\ marks'[w] = marks[w]
      BY <1>0, <2>6, <3>1 DEF Slots
    <3> QED
      BY <2>1, <2>2, <3>2
  <2> QED
    BY <2>5, <2>6
<1> QED
  BY <1>1 DEF MarksCount

\* Sandboxes that are quiet, and handlers that stand, bring no new user.
LEMMA QuietUsersStay ==
  ASSUME TypeInv, TypeInv', UNCHANGED requests, \A x \in SandboxIds : SandboxQuiet(x)
  PROVE  UsersStay
<1>1. Tracked' \subseteq SandboxIds
  BY DEF TypeInv, TypeOK, ManagerTypeOK, IsMap, Tracked
<1>2. ASSUME NEW x \in Tracked', NEW w \in WarmIds, sandboxes'[x].podIP = w PROVE x \in Users(w)
  BY <1>1, <1>2, QuietUsers
<1> QED
  BY <1>2 DEF UsersStay

\* A handler that has claimed a pod stores the address of that pod.
LEMMA RequestUsers ==
  ASSUME TypeInv, TypeInv', Serving, NEW r \in Requests, RequestStep(r),
         ~(\E warm \in WarmIds : ClaimWarm(r, warm))
  PROVE  UsersStay /\ UNCHANGED <<pool, marks>>
<1>0. /\ ManagerTypeOK /\ requests \in [Requests -> RequestRecord] /\ requests[r] \in RequestRecord
      /\ Tracked' \subseteq SandboxIds
      /\ requests[r].pc # "idle" => requests[r].id \in SandboxIds
  BY TypeInvParts DEF RequestsOK, RequestSlots, SharedOK, TypeInv, TypeOK, ManagerTypeOK, IsMap, Tracked
<1>1. UNCHANGED <<pool, marks>>
  BY DEF RequestStep, ClaimNothing, ClaimInfo, ClaimRemap, ClaimSetIP, ClaimDone, ColdCreate,
         ColdCreateFails, CreateRollback, DeletePod, DeletePodFails, DeleteForget,
         DeleteDisconnect, DeleteStop, DeleteRemove, history
<1>2. requests'[r].pc \in Held =>
        /\ requests[r].pc \in Held
        /\ requests'[r].warm = requests[r].warm
        /\ requests'[r].id = requests[r].id
  <2>1. CASE ClaimInfo(r)
    BY <1>0, <2>1 DEF ClaimInfo, RequestRecord, Held
  <2>2. CASE ClaimRemap(r)
    BY <1>0, <2>2 DEF ClaimRemap, Goto, RequestRecord, Held
  <2>3. CASE ~ClaimInfo(r) /\ ~ClaimRemap(r)
    <3>1. requests'[r].pc \notin Held
      BY <1>0, <2>3
         DEF RequestRecord, Held, RequestStep, ClaimNothing, ClaimSetIP, ClaimDone, ColdCreate,
             ColdCreateFails, CreateRollback, DeletePod, DeletePodFails, DeleteForget,
             DeleteDisconnect, DeleteStop, DeleteRemove, Goto, Respond, NoRequest
    <3> QED
      BY <3>1
  <2> QED
    BY <2>1, <2>2, <2>3
<1>3. ASSUME NEW q \in Requests, requests'[q].pc \in Held
      PROVE  /\ requests[q].pc \in Held
             /\ requests'[q].warm = requests[q].warm
             /\ requests'[q].id = requests[q].id
  <2>1. CASE q = r
    BY <1>2, <1>3, <2>1
  <2>2. CASE q # r
    BY <1>3, <2>2, RequestFrames
  <2> QED
    BY <2>1, <2>2
<1>4. ASSUME NEW x \in Tracked', NEW w \in WarmIds, sandboxes'[x].podIP = w PROVE x \in Users(w)
  <2>0. x \in SandboxIds /\ x \in PodIds
    BY <1>0 DEF PodIds
  <2>1. CASE SandboxQuiet(x)
    BY <1>4, <2>0, <2>1, QuietUsers
  <2>2. CASE requests[r].pc = "setip" /\ x = requests[r].id
    <3>1. ClaimSetIP(r)
      BY <2>2 DEF RequestStep, ClaimWarm, ClaimNothing, ClaimInfo, ClaimRemap, ClaimSetIP, ClaimDone,
             ColdCreate, ColdCreateFails, CreateRollback, DeletePod, DeletePodFails, DeleteForget,
             DeleteDisconnect, DeleteStop, DeleteRemove
    <3>2. SetPodIP(x, requests[r].ip)
      BY <2>2, <3>1 DEF ClaimSetIP
    <3>3. x \in Tracked /\ sandboxes'[x].podIP = requests[r].ip
      BY <1>0, <1>4, <3>2 DEF SetPodIP, ManagerTypeOK, IsMap, SandboxRecord, Tracked
    <3>4. requests[r].warm = w
      BY <1>4, <2>2, <3>3 DEF Serving, RequestAddressed, Addressed
    <3> QED
      BY <2>0, <2>2, <3>4 DEF Users, Held
  <2> QED
    BY <2>0, <2>1, <2>2, RequestFrames
<1> QED
  BY <1>1, <1>3, <1>4 DEF UsersStay

\* An onReady goroutine stores the address of the sandbox's own pod, never a
\* warm one.
LEMMA CallbackUsers ==
  ASSUME TypeInv, TypeInv', KeyInv, Owning, NEW c \in Callbacks, CallbackStep(c), ~CallbackMarks(c)
  PROVE  UsersStay /\ UNCHANGED <<pool, marks>>
<1>0. /\ ManagerTypeOK /\ UNCHANGED requests /\ Tracked' \subseteq SandboxIds
  BY TypeInvParts DEF SharedOK, CallbackStep, TypeInv, TypeOK, ManagerTypeOK, IsMap, Tracked
<1>1. UNCHANGED <<pool, marks>>
  BY DEF CallbackStep, CallbackSkips, CallbackBegins, CallbackInfo, CallbackSetIP, CallbackDials,
         CallbackDialFails, CallbackStores, history
<1>2. ASSUME NEW x \in Tracked', NEW w \in WarmIds, sandboxes'[x].podIP = w PROVE x \in Users(w)
  <2>0. x \in SandboxIds
    BY <1>0
  <2>1. CASE CallbackSetIP(c) /\ x = callbacks[c].id
    <3>1. SetPodIP(x, callbacks[c].ip) /\ callbacks[c].pc = "setip"
      BY <2>1 DEF CallbackSetIP
    <3>2. sandboxes'[x].podIP = callbacks[c].ip
      BY <1>0, <1>2, <3>1 DEF SetPodIP, ManagerTypeOK, IsMap, SandboxRecord, Tracked
    <3>3. callbacks[c].ip = x
      BY <2>1, <3>1 DEF Owning, CallbacksAddressed
    <3> QED
      BY <1>2, <2>0, <3>2, <3>3, IdsAssumption
  <2>2. CASE ~(CallbackSetIP(c) /\ x = callbacks[c].id)
    <3>1. SandboxQuiet(x)
      BY <1>0, <2>2, ManagerCallsQuiet
         DEF CallbackStep, CallbackSkips, CallbackBegins, CallbackInfo, CallbackSetIP, CallbackDials,
             CallbackDialFails, CallbackStores, CallbackMarks
    <3> QED
      BY <1>2, <2>0, <3>1, QuietUsers
  <2> QED
    BY <2>1, <2>2
<1> QED
  BY <1>0, <1>1, <1>2 DEF UsersStay

\* What the rest of a running agent does: a new sandbox has no address, and a
\* recovered one its own.
LEMMA OtherUsers ==
  ASSUME TypeInv, TypeInv', KeyInv, [Next]_vars, ~Crash,
         ~(\E r \in Requests : RequestStep(r)), ~(\E c \in Callbacks : CallbackStep(c))
  PROVE  UsersStay /\ UNCHANGED <<pool, marks>>
<1>0. /\ ManagerTypeOK /\ requests \in [Requests -> RequestRecord]
      /\ Tracked' \subseteq SandboxIds /\ \A w \in WarmIds : w # None /\ w \notin SandboxIds
  BY TypeInvParts, IdsAssumption
     DEF RequestsOK, SharedOK, TypeInv, TypeOK, ManagerTypeOK, IsMap, Tracked, PodIds
<1>Q. ASSUME UNCHANGED requests, \A x \in SandboxIds : SandboxQuiet(x) PROVE UsersStay
  BY <1>Q, QuietUsersStay
<1>U. ASSUME UNCHANGED <<requests, sandboxes>> PROVE UsersStay
  BY <1>0, <1>U, <1>Q, ManagerCallsQuiet
<1>1. CASE Client
  <2>1. ASSUME NEW r \in Requests, NEW id \in SandboxIds, NEW key \in Keys, NEW timeout \in Timeouts,
               CreateRequest(r, id, key, timeout)
        PROVE  UsersStay /\ UNCHANGED <<pool, marks>>
    <3>1. /\ requests'[r].pc = "claim"
          /\ \A q \in Requests : q # r => requests'[q] = requests[q]
      BY <1>0, <2>1 DEF CreateRequest, NoRequest
    <3>2. ASSUME NEW x \in Tracked', NEW w \in WarmIds, sandboxes'[x].podIP = w PROVE x \in Users(w)
      <4>1. CASE x = id
        BY <1>0, <2>1, <3>2, <4>1 DEF CreateRequest, Create, Put
      <4>2. CASE x # id
        <5>1. SandboxQuiet(x)
          BY <1>0, <2>1, <4>2, ManagerCallsQuiet DEF CreateRequest
        <5> QED
          BY <1>0, <3>2, <5>1, QuietUsers
      <4> QED
        BY <4>1, <4>2
    <3>3. \A q \in Requests : requests'[q].pc \in Held => q # r
      BY <3>1 DEF Held
    <3> QED
      BY <2>1, <3>1, <3>2, <3>3 DEF UsersStay, CreateRequest
  <2>2. ASSUME NEW r \in Requests, NEW id \in SandboxIds, DeleteRequest(r, id)
        PROVE  UsersStay /\ UNCHANGED <<pool, marks>>
    <3>1. /\ requests'[r].pc = "delete"
          /\ \A q \in Requests : q # r => requests'[q] = requests[q]
          /\ UNCHANGED <<sandboxes, pool, marks>>
      BY <1>0, <2>2 DEF DeleteRequest, NoRequest, history
    <3>2. ASSUME NEW x \in Tracked', NEW w \in WarmIds, sandboxes'[x].podIP = w PROVE x \in Users(w)
      BY <1>0, <3>1, <3>2, ManagerCallsQuiet, QuietUsers
    <3>3. \A q \in Requests : requests'[q].pc \in Held => q # r
      BY <3>1 DEF Held
    <3> QED
      BY <3>1, <3>2, <3>3 DEF UsersStay
  <2>3. ASSUME NEW id \in SandboxIds, Keepalive(id)
        PROVE  UsersStay /\ UNCHANGED <<pool, marks>>
    <3>1. UNCHANGED <<requests, pool, marks>>
      BY <2>3 DEF Keepalive
    <3>2. \A x \in SandboxIds : SandboxQuiet(x)
      BY <1>0, <2>3, ManagerCallsQuiet DEF Keepalive
    <3> QED
      BY <1>Q, <3>1, <3>2
  <2> QED
    BY <1>1, <2>1, <2>2, <2>3 DEF Client
<1>2. CASE ReaperStep
  <2>1. UNCHANGED <<requests, pool, marks>>
    BY <1>2 DEF ReaperStep, history
  <2>2. \A x \in SandboxIds : SandboxQuiet(x)
    BY <1>0, <1>2, ManagerCallsQuiet
       DEF ReaperStep, ReaperTick, ReaperForces, ReaperForceFails, ReaperStops, ReaperForceForgets,
           ReaperScans, ReaperDeletes, ReaperDeleteFails, ReaperForgets, ReaperDisconnects,
           ReaperRemoves
  <2> QED
    BY <1>Q, <2>1, <2>2
<1>3. CASE Boot
  <2>0. UNCHANGED <<requests, pool, marks>>
    BY <1>3 DEF Boot, history
  <2>1. ASSUME NEW dialed \in SUBSET SandboxIds, Recovery(dialed)
        PROVE  UsersStay
    <3>1. \A r \in Requests : requests'[r].pc = "idle"
      BY <2>0, <2>1 DEF Recovery, KeyInv, DownIsQuiet
    <3>2. \A x \in Tracked' : sandboxes'[x].podIP \in {x, None}
      BY <2>1 DEF Recovery, RecoveredRecord, Tracked
    <3> QED
      BY <1>0, <3>1, <3>2 DEF UsersStay, Held
  <2>2. CASE RecoveryFails \/ (\E key \in Keys : BootFill(key)) \/ BootServe
    <3>1. UNCHANGED sandboxes
      BY <2>2 DEF RecoveryFails, BootFill, BootServe
    <3> QED
      BY <1>U, <2>0, <3>1
  <2> QED
    BY <1>3, <2>0, <2>1, <2>2 DEF Boot
<1>4. CASE \/ \E f \in Fillers : FillStep(f)
           \/ WatchLoop
           \/ \E p \in PodIds : PodStep(p)
           \/ Tick \/ UNCHANGED vars
  <2>1. UNCHANGED <<requests, sandboxes, pool, marks>>
    BY <1>4 DEF FillStep, WatchLoop, PodStep, Tick, vars, agentVars, history
  <2> QED
    BY <1>U, <2>1
<1> QED
  BY <1>1, <1>2, <1>3, <1>4 DEF Next

\* Every step.
LEMMA MarksStep ==
  ASSUME TypeInv, KeyInv, Owning, Serving, MarksCount, [Next]_vars
  PROVE  MarksCount'
<1>0. TypeInv' /\ PodsStay
  BY NextType, StepsStay
<1>1. ASSUME NEW r \in Requests, NEW warm \in WarmIds, ClaimWarm(r, warm) PROVE MarksCount'
  BY <1>0, <1>1, ClaimCounts
<1>2. ASSUME NEW c \in Callbacks, CallbackStep(c), CallbackMarks(c) PROVE MarksCount'
  BY <1>0, <1>2, MarkCounts DEF CallbackStep, kube
<1>3. CASE Crash
  <2>1. ASSUME NEW w \in WarmIds
        PROVE  Cardinality(Users(w)') + Cardinality(Slots(w)') <= marks'[w]
    <3>1. Users(w)' = {}
      BY <1>3 DEF Crash, EmptyMap, Users, Tracked, NoRequest, Held
    <3>2. Slots(w)' = {}
      <4>1. pods'[w].key \in Keys /\ pool' = [k \in Keys |-> <<>>]
        BY <1>0, <1>3 DEF TypeInv, TypeOK, KubeTypeOK, PodRecord, PodIds, Crash
      <4> QED
        BY <4>1 DEF Slots, Positions
    <3>3. marks'[w] \in Nat
      BY <1>0 DEF TypeInv, TypeOK
    <3> QED
      BY <3>1, <3>2, <3>3, FS_EmptySet
  <2> QED
    BY <2>1 DEF MarksCount
<1>4. CASE UsersStay /\ UNCHANGED <<pool, marks>>
  <2>1. ASSUME NEW w \in WarmIds
        PROVE  (Cardinality(Users(w)) + Cardinality(Slots(w)) <= marks[w])'
    <3>1. Users(w)' \subseteq Users(w)
      BY <1>4, UsersKept
    <3>2. Slots(w)' \subseteq Slots(w)
      BY <1>0, <1>4, SlotsKept
    <3> QED
      BY <1>0, <1>4, <3>1, <3>2, MarksKept
  <2> QED
    BY <2>1 DEF MarksCount
<1>5. ASSUME NEW r \in Requests, RequestStep(r) PROVE MarksCount'
  BY <1>0, <1>1, <1>4, <1>5, RequestUsers
<1>6. ASSUME NEW c \in Callbacks, CallbackStep(c) PROVE MarksCount'
  BY <1>0, <1>2, <1>4, <1>6, CallbackUsers
<1> QED
  BY <1>0, <1>3, <1>4, <1>5, <1>6, OtherUsers

\* A warm pod serves no more sandboxes than it was put into the pool for: a
\* claim consumes what one MarkReady added, whatever the interleaving of
\* handlers, goroutines and crashes (warm_pool.go Claim and MarkReady).
THEOREM ClaimsConsumeMarks == Spec => []NoMoreHoldersThanMarks
<1>1. TypeInv /\ Init => MarksCount
  <2> SUFFICES ASSUME TypeInv, Init, NEW w \in WarmIds
               PROVE  Cardinality(Users(w)) + Cardinality(Slots(w)) <= marks[w]
    BY DEF MarksCount
  <2>1. Users(w) = {}
    BY DEF Init, ManagerInit, EmptyMap, Users, Tracked, NoRequest, Held
  <2>2. Slots(w) = {}
    <3>1. pods[w].key \in Keys /\ pool = [k \in Keys |-> <<>>]
      BY DEF TypeInv, TypeOK, KubeTypeOK, PodRecord, PodIds, Init, PoolInit
    <3> QED
      BY <3>1 DEF Slots, Positions
  <2>3. marks[w] = 0
    BY DEF Init
  <2> QED
    BY <2>1, <2>2, <2>3, FS_EmptySet
<1>2. TypeInv /\ KeyInv /\ (Places /\ Owning) /\ Serving /\ MarksCount /\ [Next]_vars => MarksCount'
  BY MarksStep
<1>3. TypeInv /\ MarksCount => NoMoreHoldersThanMarks
  <2> SUFFICES ASSUME TypeInv, MarksCount, NEW w \in WarmIds
               PROVE  Cardinality({id \in Tracked : sandboxes[id].podIP = w}) <= marks[w]
    BY DEF NoMoreHoldersThanMarks
  <2> DEFINE holders == {id \in Tracked : sandboxes[id].podIP = w}
  <2>1. holders \subseteq Users(w)
    BY TypeInvParts DEF Users, SharedOK, ManagerTypeOK, IsMap, Tracked
  <2>2. /\ Cardinality(holders) \in Nat /\ Cardinality(holders) <= Cardinality(Users(w))
        /\ Cardinality(Users(w)) \in Nat
    BY <2>1, UsersFinite, FS_Subset, FS_CardinalityType
  <2>3. Cardinality(Slots(w)) \in Nat
    <3>1. pool[pods[w].key] \in Seq(WarmIds)
      BY TypeInvParts DEF SharedOK, PoolTypeOK, KubeTypeOK, PodRecord, PodIds
    <3> QED
      BY <3>1, AppendCounts DEF Slots
  <2>4. Cardinality(Users(w)) + Cardinality(Slots(w)) <= marks[w] /\ marks[w] \in Nat
    BY TypeInvParts DEF MarksCount, SharedOK
  <2> QED
    BY <2>2, <2>3, <2>4
<1> QED
  BY <1>1, <1>2, <1>3, ServingHolds, AddressesHold, TypeCorrect, KeysAgree, PTL DEF Spec
===============================================================================
