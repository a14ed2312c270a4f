-------------------------- MODULE SandboxAgentProofs --------------------------
(***************************************************************************)
(* Theorems about SandboxAgent for every value of its constants.           *)
(***************************************************************************)
EXTENDS SandboxAgent, FiniteSetTheorems, TLAPS

\* The phases of a create request, and those with a claimed pod in hand.
Creating == {"claim", "info", "remap", "setip", "setrunning", "create", "rollback"}
Claimed == {"info", "remap"}

\* What a slot holds while it is busy: the fields its next step reads.
RequestSlots ==
  \A r \in Requests :
    /\ requests[r].pc # "idle" => requests[r].id \in issued
    /\ requests[r].pc \in Creating => requests[r].key \in Keys
    /\ requests[r].pc \in Claimed => requests[r].warm \in WarmIds

CallbackSlots ==
  \A c \in Callbacks :
    /\ callbacks[c].pc # "idle" => callbacks[c].id \in PodIds
    /\ callbacks[c].pc = "mark" => callbacks[c].id \in WarmIds
    /\ callbacks[c].pc \in {"setip", "dial", "store", "mark"} => callbacks[c].key \in Keys

FillSlots ==
  \A f \in Fillers :
    /\ fills[f].pc # "idle" => fills[f].key \in Keys
    /\ fills[f].pc = "create" => fills[f].left > 0

ReaperSlot ==
  reaper.pc \in {"forceforget", "delete", "forget", "disconnect", "remove"} =>
    reaper.id \in SandboxIds

TypeInv == TypeOK /\ RequestSlots /\ CallbackSlots /\ FillSlots /\ ReaperSlot

-------------------------------------------------------------------------------
(* Maps, pools and the cluster.                                             *)

\* A map with an entry more,
LEMMA PutIsMap ==
  ASSUME NEW K, NEW V, NEW f, IsMap(f, K, V), NEW k \in K, NEW v \in V
  PROVE  IsMap(Put(f, k, v), K, V)
BY DEF IsMap, Put

\* with one less,
LEMMA DeleteIsMap ==
  ASSUME NEW K, NEW V, NEW f, IsMap(f, K, V), NEW k
  PROVE  IsMap(Delete(f, k), K, V)
BY DEF IsMap, Delete, Restrict

\* and with none.
LEMMA EmptyIsMap ==
  ASSUME NEW K, NEW V
  PROVE  IsMap(EmptyMap, K, V)
BY DEF IsMap, EmptyMap

\* Every way the registry changes keeps its type.
LEMMA ManagerType ==
  ASSUME ManagerTypeOK
  PROVE  /\ \A id \in SandboxIds, k \in Keys, t \in Int : Create(id, k, t) => ManagerTypeOK'
         /\ \A id : \A s \in Statuses : SetStatus(id, s) => ManagerTypeOK'
         /\ \A id : \A ip \in PodIds \cup {None} : SetPodIP(id, ip) => ManagerTypeOK'
         /\ \A id : Remove(id) => ManagerTypeOK'
         /\ \A id : \A t \in Int : ExtendTimeout(id, t) => ManagerTypeOK'
         /\ UNCHANGED sandboxes => ManagerTypeOK'
<1>1. ASSUME NEW id \in SandboxIds, NEW k \in Keys, NEW t \in Int, Create(id, k, t)
      PROVE  ManagerTypeOK'
  <2> DEFINE rec == [status |-> "starting", key |-> k, expiresAt |-> t, podIP |-> None]
  <2>1. rec \in SandboxRecord
    BY DEF SandboxRecord, Statuses
  <2>2. IsMap(Put(sandboxes, id, rec), SandboxIds, SandboxRecord)
    BY <2>1, PutIsMap DEF ManagerTypeOK
  <2> QED BY <1>1, <2>2 DEF Create, ManagerTypeOK
<1>2. ASSUME NEW id, NEW s \in Statuses, SetStatus(id, s)
      PROVE  ManagerTypeOK'
  BY <1>2 DEF SetStatus, ManagerTypeOK, IsMap, Tracked, SandboxRecord
<1>3. ASSUME NEW id, NEW ip \in PodIds \cup {None}, SetPodIP(id, ip)
      PROVE  ManagerTypeOK'
  BY <1>3 DEF SetPodIP, ManagerTypeOK, IsMap, Tracked, SandboxRecord
<1>4. ASSUME NEW id, Remove(id)
      PROVE  ManagerTypeOK'
  BY <1>4, DeleteIsMap DEF Remove, ManagerTypeOK
<1>5. ASSUME NEW id, NEW t \in Int, ExtendTimeout(id, t)
      PROVE  ManagerTypeOK'
  BY <1>5 DEF ExtendTimeout, ManagerTypeOK, IsMap, Tracked, SandboxRecord
<1>6. ASSUME UNCHANGED sandboxes
      PROVE  ManagerTypeOK'
  BY <1>6 DEF ManagerTypeOK, IsMap
<1> QED BY <1>1, <1>2, <1>3, <1>4, <1>5, <1>6

\* ... and so does every way the cluster changes.
LEMMA ChangeType ==
  ASSUME KubeTypeOK, NEW type \in {"update", "deleted"}, NEW p \in PodIds,
         NEW pod \in PodRecord, Change(type, p, pod)
  PROVE  KubeTypeOK'
<1>1. Event(type, p, pod) \in EventRecord
  BY DEF Event, EventRecord, PodRecord
<1> QED BY <1>1 DEF Change, KubeTypeOK

\* The calls to the API server keep its types.
LEMMA KubeCallType ==
  ASSUME KubeTypeOK, NEW p \in PodIds
  PROVE  /\ \A k \in Keys, t \in Int : KubeCreate(p, k, t) => KubeTypeOK'
         /\ KubeDelete(p) => KubeTypeOK'
         /\ KubeForceDelete(p) => KubeTypeOK'
         /\ PodBecomesReady(p) => KubeTypeOK'
         /\ PodLosesReadiness(p) => KubeTypeOK'
         /\ PodTouched(p) => KubeTypeOK'
         /\ PodGone(p) => KubeTypeOK'
         /\ UNCHANGED kube => KubeTypeOK'
<1>1. pods[p] \in PodRecord
  BY DEF KubeTypeOK
<1>2. ASSUME NEW pod \in PodRecord
      PROVE  /\ Change("update", p, pod) => KubeTypeOK'
             /\ Change("deleted", p, pod) => KubeTypeOK'
  BY ChangeType
<1>3. ASSUME NEW k \in Keys, NEW t \in Int, KubeCreate(p, k, t)
      PROVE  KubeTypeOK'
  <2>1. [phase |-> "live", ready |-> FALSE, ip |-> FALSE, key |-> k, expiresAt |-> t]
          \in PodRecord
    BY DEF PodRecord
  <2> QED BY <1>2, <1>3, <2>1 DEF KubeCreate
<1>4. UNCHANGED kube => KubeTypeOK'
  BY DEF kube, KubeTypeOK
<1>5. /\ [pods[p] EXCEPT !.phase = "deleting"] \in PodRecord
      /\ [pods[p] EXCEPT !.phase = "gone", !.ready = FALSE] \in PodRecord
      /\ [pods[p] EXCEPT !.ready = TRUE, !.ip = TRUE] \in PodRecord
      /\ [pods[p] EXCEPT !.ready = FALSE] \in PodRecord
  BY <1>1 DEF PodRecord
<1>6. KubeDelete(p) => KubeTypeOK'
  BY <1>2, <1>4, <1>5 DEF KubeDelete, kubeVars, kube
<1>7. /\ KubeForceDelete(p) => KubeTypeOK'
      /\ PodGone(p) => KubeTypeOK'
  BY <1>2, <1>5 DEF KubeForceDelete, PodGone
<1>8. /\ PodBecomesReady(p) => KubeTypeOK'
      /\ PodLosesReadiness(p) => KubeTypeOK'
      /\ PodTouched(p) => KubeTypeOK'
  BY <1>1, <1>2, <1>5 DEF PodBecomesReady, PodLosesReadiness, PodTouched
<1> QED BY <1>3, <1>4, <1>6, <1>7, <1>8

\* So do the ends and beginnings of a watch.
LEMMA WatchType ==
  ASSUME KubeTypeOK
  PROVE  /\ KubeOpenWatch => KubeTypeOK'
         /\ KubeDropWatch => KubeTypeOK'
<1>1. Cardinality(Existing) \in Nat
  <2>1. IsFiniteSet(Existing)
    BY AgentAssumption, FS_Subset DEF Existing
  <2> QED BY <2>1, FS_CardinalityType
<1>2. ASSUME KubeOpenWatch
      PROVE  KubeTypeOK'
  <2>1. PICK order \in [1..Cardinality(Existing) -> Existing] :
          events' = [i \in DOMAIN order |-> Event("update", order[i], pods[order[i]])]
    BY <1>2 DEF KubeOpenWatch
  <2>2. ASSUME NEW i \in DOMAIN order
        PROVE  Event("update", order[i], pods[order[i]]) \in EventRecord
    BY DEF Existing, Event, EventRecord, KubeTypeOK, PodRecord
  <2>3. events' \in Seq(EventRecord)
    BY <1>1, <2>1, <2>2
  <2> QED BY <1>2, <2>3 DEF KubeOpenWatch, KubeTypeOK
<1>3. ASSUME KubeDropWatch
      PROVE  KubeTypeOK'
  <2>1. <<>> \in Seq(EventRecord)
    OBVIOUS
  <2> QED BY <1>3, <2>1 DEF KubeDropWatch, KubeTypeOK
<1> QED BY <1>2, <1>3

\* The calls of the pod manager keep the types of its cache.
LEMMA CacheType ==
  ASSUME CacheTypeOK, KubeTypeOK
  PROVE  /\ \A e \in EventRecord : Observe(e) => CacheTypeOK'
         /\ \A old \in PodIds, new \in PodIds : RemapPod(old, new) => CacheTypeOK'
         /\ \A id : Forget(id) => CacheTypeOK'
         /\ RecoverCache => CacheTypeOK'
         /\ UNCHANGED cache => CacheTypeOK'
<1>1. ASSUME NEW e \in EventRecord, Observe(e)
      PROVE  CacheTypeOK'
  <2>1. Info(e) \in PodInfo /\ e.pod \in PodIds
    BY DEF Info, PodInfo, EventRecord
  <2> QED BY <1>1, <2>1, PutIsMap, DeleteIsMap DEF Observe, CacheTypeOK
<1>2. ASSUME NEW old \in PodIds, NEW new \in PodIds, RemapPod(old, new)
      PROVE  CacheTypeOK'
  <2>1. CASE old \in Cached
    <3>1. IsMap(Put(cache, new, cache[old]), PodIds, PodInfo)
      BY <2>1, PutIsMap DEF CacheTypeOK, Cached, IsMap
    <3> QED BY <1>2, <2>1, <3>1, DeleteIsMap DEF RemapPod, CacheTypeOK
  <2>2. CASE old \notin Cached
    BY <1>2, <2>2 DEF RemapPod, CacheTypeOK, IsMap
  <2> QED BY <2>1, <2>2
<1>3. ASSUME NEW id, Forget(id)
      PROVE  CacheTypeOK'
  BY <1>3, DeleteIsMap DEF Forget, CacheTypeOK
<1>4. ASSUME RecoverCache
      PROVE  CacheTypeOK'
  BY <1>4 DEF RecoverCache, CacheTypeOK, IsMap, PodInfo, KubeTypeOK, PodRecord,
              Recoverable, PodIds
<1> QED BY <1>1, <1>2, <1>3, <1>4 DEF CacheTypeOK, IsMap

\* The calls of the warm pool keep the types of its pool.
LEMMA PoolType ==
  ASSUME PoolTypeOK
  PROVE  /\ \A k \in Keys : \A w : ClaimHit(k, w) => PoolTypeOK'
         /\ \A k \in Keys : \A w \in WarmIds : MarkReady(w, k) => PoolTypeOK'
         /\ UNCHANGED pool => PoolTypeOK'
         /\ \A k \in Keys : Needed(k) \in Nat
<1>1. ASSUME NEW k \in Keys, NEW w, ClaimHit(k, w)
      PROVE  PoolTypeOK'
  <2>1. PICK i \in DOMAIN pool[k] : pool' = [pool EXCEPT ![k] = Seqs!RemoveAt(@, i)]
    BY <1>1 DEF ClaimHit
  <2>2. Seqs!RemoveAt(pool[k], i) \in Seq(WarmIds)
    BY DEF PoolTypeOK, Seqs!RemoveAt
  <2> QED BY <2>1, <2>2 DEF PoolTypeOK
<1>2. ASSUME NEW k \in Keys, NEW w \in WarmIds, MarkReady(w, k)
      PROVE  PoolTypeOK'
  BY <1>2 DEF MarkReady, PoolTypeOK
<1>3. UNCHANGED pool => PoolTypeOK'
  BY DEF PoolTypeOK
<1>4. ASSUME NEW k \in Keys
      PROVE  Needed(k) \in Nat
  <2>1. Target[k] \in Nat /\ Len(pool[k]) \in Nat
    BY TargetAssumption DEF PoolTypeOK
  <2> QED BY <2>1 DEF Needed
<1> QED BY <1>1, <1>2, <1>3, <1>4

-------------------------------------------------------------------------------
(* Type correctness.                                                        *)

\* The conjuncts of TypeInv about the shared state ...
SharedOK ==
  /\ ManagerTypeOK /\ KubeTypeOK /\ CacheTypeOK /\ PoolTypeOK
  /\ IsMap(conns, PodIds, PodIds \cup {None})
  /\ now \in Nat
  /\ spent \in [Disturbances -> Nat]
  /\ issued \subseteq SandboxIds
  /\ marks \in [WarmIds -> Nat]
  /\ promise \in [SandboxIds -> [low : Nat, last : Nat]]

\* ... and about the goroutines, one kind each.
RequestsOK == requests \in [Requests -> RequestRecord] /\ RequestSlots
CallbacksOK == callbacks \in [Callbacks -> CallbackRecord] /\ CallbackSlots
FillsOK == fills \in [Fillers -> FillRecord] /\ FillSlots
ReaperOK == reaper \in ReaperRecord /\ ReaperSlot /\ pendingDeletes \subseteq SandboxIds
BootOK == agent \in {"down", "filling", "serving"} /\ unfilled \subseteq Keys

\* The invariant by its parts, one for each process of the agent.
LEMMA TypeInvParts ==
  TypeInv <=> /\ SharedOK /\ RequestsOK /\ CallbacksOK /\ FillsOK
              /\ ReaperOK /\ BootOK
BY DEF TypeInv, TypeOK, SharedOK, RequestsOK, CallbacksOK, FillsOK, ReaperOK, BootOK

\* A disturbance takes from its bound and no time.
LEMMA SpendType ==
  ASSUME SharedOK, NEW d \in Disturbances, Spend(d)
  PROVE  now' \in Nat /\ spent' \in [Disturbances -> Nat]
BY DEF SharedOK, Spend

\* A step that leaves the API server alone.
LEMMA KubeKept ==
  UNCHANGED kube /\ KubeTypeOK => KubeTypeOK'
BY DEF kube, KubeTypeOK

\* A conjunct none of whose variables change is kept.
LEMMA Kept ==
  /\ UNCHANGED <<requests, issued>> /\ RequestsOK => RequestsOK'
  /\ UNCHANGED callbacks /\ CallbacksOK => CallbacksOK'
  /\ UNCHANGED fills /\ FillsOK => FillsOK'
  /\ UNCHANGED reaping /\ ReaperOK => ReaperOK'
  /\ UNCHANGED control /\ BootOK => BootOK'
BY DEF RequestsOK, RequestSlots, CallbacksOK, CallbackSlots, FillsOK, FillSlots,
       ReaperOK, ReaperSlot, reaping, BootOK, control

\* The steps of an HTTP handler, one by one.
LEMMA RequestType ==
  ASSUME SharedOK, RequestsOK, FillsOK, NEW r \in Requests, RequestStep(r)
  PROVE  SharedOK' /\ RequestsOK' /\ FillsOK'
<1> USE DEF Creating, Claimed
<1>0. /\ requests[r] \in RequestRecord
      /\ requests[r].pc # "idle" =>
           /\ requests[r].id \in SandboxIds
           /\ requests[r].id \in PodIds
           /\ promise[requests[r].id].last \in Int
      /\ requests[r].ip \in PodIds \cup {None}
      /\ requests[r].pc \in Creating => requests[r].key \in Keys
      /\ requests[r].pc \in Claimed => requests[r].warm \in WarmIds /\ requests[r].warm \in PodIds
  BY DEF RequestsOK, RequestSlots, SharedOK, RequestRecord, PodIds
<1>1. ASSUME NEW warm \in WarmIds, ClaimWarm(r, warm)
      PROVE  SharedOK' /\ RequestsOK' /\ FillsOK'
  <2>1. SharedOK'
    BY <1>0, <1>1, ManagerType, KubeCallType, CacheType, PoolType
       DEF SharedOK, ClaimWarm, history, bounds
  <2>2. RequestsOK'
    BY <1>0, <1>1 DEF RequestsOK, RequestSlots, RequestRecord, ClaimWarm, history
  <2> QED BY <1>1, <2>1, <2>2, Kept DEF ClaimWarm
<1>2. ASSUME ClaimNothing(r)
      PROVE  SharedOK' /\ RequestsOK' /\ FillsOK'
  <2>1. SharedOK'
    BY <1>0, <1>2, ManagerType, KubeCallType, CacheType, PoolType
       DEF SharedOK, ClaimNothing, history, bounds
  <2>2. RequestsOK'
    BY <1>0, <1>2 DEF RequestsOK, RequestSlots, RequestRecord, ClaimNothing, history, Goto
  <2> QED BY <1>2, <2>1, <2>2, Kept DEF ClaimNothing
<1>3. ASSUME ClaimInfo(r)
      PROVE  SharedOK' /\ RequestsOK' /\ FillsOK'
  <2>1. SharedOK'
    BY <1>0, <1>3, ManagerType, KubeCallType, CacheType, PoolType
       DEF SharedOK, ClaimInfo, history, bounds
  <2>2. RequestsOK'
    <3>1. requests[r].warm \in Cached => Address(cache[requests[r].warm]) \in PodIds \cup {None}
      BY DEF SharedOK, CacheTypeOK, IsMap, PodInfo, Address, Cached
    <3> QED BY <1>0, <1>3, <3>1 DEF RequestsOK, RequestSlots, RequestRecord, ClaimInfo, history
  <2> QED BY <1>3, <2>1, <2>2, Kept DEF ClaimInfo
<1>4. ASSUME ClaimRemap(r)
      PROVE  SharedOK' /\ RequestsOK' /\ FillsOK'
  <2>1. SharedOK'
    BY <1>0, <1>4, ManagerType, KubeCallType, CacheType, PoolType
       DEF SharedOK, ClaimRemap, history, bounds
  <2>2. RequestsOK'
    BY <1>0, <1>4 DEF RequestsOK, RequestSlots, RequestRecord, ClaimRemap, history, Goto
  <2> QED BY <1>4, <2>1, <2>2, Kept DEF ClaimRemap
<1>5. ASSUME ClaimSetIP(r)
      PROVE  SharedOK' /\ RequestsOK' /\ FillsOK'
  <2>1. SharedOK'
    BY <1>0, <1>5, ManagerType, KubeCallType, CacheType, PoolType
       DEF SharedOK, ClaimSetIP, history, bounds
  <2>2. RequestsOK'
    BY <1>0, <1>5 DEF RequestsOK, RequestSlots, RequestRecord, ClaimSetIP, history, Goto
  <2> QED BY <1>5, <2>1, <2>2, Kept DEF ClaimSetIP
<1>6. ASSUME ClaimDone(r)
      PROVE  SharedOK' /\ RequestsOK' /\ FillsOK'
  <2>1. SharedOK'
    <3>1. ManagerTypeOK'
      BY <1>6, ManagerType DEF SharedOK, ClaimDone, Statuses
    <3> QED BY <1>0, <1>6, <3>1, KubeCallType, CacheType, PoolType DEF SharedOK, ClaimDone, history, bounds
  <2>2. RequestsOK'
    BY <1>0, <1>6 DEF RequestsOK, RequestSlots, RequestRecord, ClaimDone, history, Respond, NoRequest
  <2>3. FillsOK'
    <3>1. CASE UNCHANGED fills
      BY <3>1, Kept
    <3>2. CASE \E f \in Fillers :
                 fills' = [fills EXCEPT ![f] = [NoFill EXCEPT !.pc = "count",
                                                            !.key = requests[r].key]]
      <4> DEFINE started == [NoFill EXCEPT !.pc = "count", !.key = requests[r].key]
      <4>1. requests[r].key \in Keys
        BY <1>0, <1>6 DEF ClaimDone
      <4>2. /\ started \in FillRecord
            /\ started.pc = "count"
            /\ started.key = requests[r].key
        BY <4>1 DEF NoFill, FillRecord
      <4> HIDE DEF started
      <4>3. PICK f \in Fillers : fills' = [fills EXCEPT ![f] = started]
        BY <3>2 DEF started
      <4> QED BY <4>1, <4>2, <4>3 DEF FillsOK, FillSlots
    <3> QED BY <1>6, <3>1, <3>2, Zenon DEF ClaimDone, StartFill
  <2> QED BY <2>1, <2>2, <2>3
<1>7. ASSUME ColdCreate(r)
      PROVE  SharedOK' /\ RequestsOK' /\ FillsOK'
  <2>1. SharedOK'
    BY <1>0, <1>7, ManagerType, KubeCallType, CacheType, PoolType
       DEF SharedOK, ColdCreate, history, bounds
  <2>2. RequestsOK'
    BY <1>0, <1>7 DEF RequestsOK, RequestSlots, RequestRecord, ColdCreate, history, Respond, NoRequest
  <2> QED BY <1>7, <2>1, <2>2, Kept DEF ColdCreate
<1>8. ASSUME ColdCreateFails(r)
      PROVE  SharedOK' /\ RequestsOK' /\ FillsOK'
  <2>1. SharedOK'
    BY <1>0, <1>8, ManagerType, KubeCallType, CacheType, PoolType, SpendType
       DEF SharedOK, ColdCreateFails, history, Disturbances
  <2>2. RequestsOK'
    BY <1>0, <1>8 DEF RequestsOK, RequestSlots, RequestRecord, ColdCreateFails, history, Goto
  <2> QED BY <1>8, <2>1, <2>2, Kept DEF ColdCreateFails
<1>9. ASSUME CreateRollback(r)
      PROVE  SharedOK' /\ RequestsOK' /\ FillsOK'
  <2>1. SharedOK'
    BY <1>0, <1>9, ManagerType, KubeCallType, CacheType, PoolType
       DEF SharedOK, CreateRollback, history, bounds
  <2>2. RequestsOK'
    BY <1>0, <1>9 DEF RequestsOK, RequestSlots, RequestRecord, CreateRollback, history, Respond, NoRequest
  <2> QED BY <1>9, <2>1, <2>2, Kept DEF CreateRollback
<1>10. ASSUME DeletePod(r)
      PROVE  SharedOK' /\ RequestsOK' /\ FillsOK'
  <2>1. SharedOK'
    BY <1>0, <1>10, ManagerType, KubeCallType, CacheType, PoolType
       DEF SharedOK, DeletePod, history, bounds
  <2>2. RequestsOK'
    BY <1>0, <1>10 DEF RequestsOK, RequestSlots, RequestRecord, DeletePod, history, Goto
  <2> QED BY <1>10, <2>1, <2>2, Kept DEF DeletePod
<1>11. ASSUME DeletePodFails(r)
      PROVE  SharedOK' /\ RequestsOK' /\ FillsOK'
  <2>1. SharedOK'
    BY <1>0, <1>11, ManagerType, KubeCallType, CacheType, PoolType, SpendType
       DEF SharedOK, DeletePodFails, history, Disturbances
  <2>2. RequestsOK'
    BY <1>0, <1>11 DEF RequestsOK, RequestSlots, RequestRecord, DeletePodFails, history, Respond, NoRequest
  <2> QED BY <1>11, <2>1, <2>2, Kept DEF DeletePodFails
<1>12. ASSUME DeleteForget(r)
      PROVE  SharedOK' /\ RequestsOK' /\ FillsOK'
  <2>1. SharedOK'
    BY <1>0, <1>12, ManagerType, KubeCallType, CacheType, PoolType
       DEF SharedOK, DeleteForget, history, bounds
  <2>2. RequestsOK'
    BY <1>0, <1>12 DEF RequestsOK, RequestSlots, RequestRecord, DeleteForget, history, Goto
  <2> QED BY <1>12, <2>1, <2>2, Kept DEF DeleteForget
<1>13. ASSUME DeleteDisconnect(r)
      PROVE  SharedOK' /\ RequestsOK' /\ FillsOK'
  <2>1. SharedOK'
    BY <1>0, <1>13, ManagerType, KubeCallType, CacheType, PoolType, DeleteIsMap
       DEF SharedOK, DeleteDisconnect, history, bounds
  <2>2. RequestsOK'
    BY <1>0, <1>13 DEF RequestsOK, RequestSlots, RequestRecord, DeleteDisconnect, history, Goto
  <2> QED BY <1>13, <2>1, <2>2, Kept DEF DeleteDisconnect
<1>14. ASSUME DeleteStop(r)
      PROVE  SharedOK' /\ RequestsOK' /\ FillsOK'
  <2>1. SharedOK'
    <3>1. ManagerTypeOK'
      BY <1>14, ManagerType DEF SharedOK, DeleteStop, Statuses
    <3> QED BY <1>0, <1>14, <3>1, KubeCallType, CacheType, PoolType DEF SharedOK, DeleteStop, history, bounds
  <2>2. RequestsOK'
    BY <1>0, <1>14 DEF RequestsOK, RequestSlots, RequestRecord, DeleteStop, history, Goto
  <2> QED BY <1>14, <2>1, <2>2, Kept DEF DeleteStop
<1>15. ASSUME DeleteRemove(r)
      PROVE  SharedOK' /\ RequestsOK' /\ FillsOK'
  <2>1. SharedOK'
    BY <1>0, <1>15, ManagerType, KubeCallType, CacheType, PoolType
       DEF SharedOK, DeleteRemove, history, bounds
  <2>2. RequestsOK'
    BY <1>0, <1>15 DEF RequestsOK, RequestSlots, RequestRecord, DeleteRemove, history, Respond, NoRequest
  <2> QED BY <1>15, <2>1, <2>2, Kept DEF DeleteRemove
<1> QED BY <1>1, <1>2, <1>3, <1>4, <1>5, <1>6, <1>7, <1>8, <1>9, <1>10, <1>11, <1>12, <1>13, <1>14, <1>15 DEF RequestStep

\* A client's request: a create enters the registry, a delete only a slot.
LEMMA ClientType ==
  ASSUME SharedOK, RequestsOK, Client
  PROVE  SharedOK' /\ RequestsOK' /\ UNCHANGED fills
<1>1. ASSUME NEW r \in Requests, NEW id \in SandboxIds, NEW key \in Keys,
             NEW timeout \in Timeouts, CreateRequest(r, id, key, timeout)
      PROVE  SharedOK' /\ RequestsOK'
  <2>1. now + timeout \in Nat /\ now + timeout \in Int
    BY AgentAssumption DEF SharedOK
  <2>2. SharedOK'
    <3>1. ManagerTypeOK'
      BY <1>1, <2>1, ManagerType DEF SharedOK, CreateRequest
    <3>2. promise' \in [SandboxIds -> [low : Nat, last : Nat]]
      BY <1>1, <2>1 DEF SharedOK, CreateRequest
    <3> QED BY <1>1, <3>1, <3>2, KubeKept, CacheType, PoolType DEF SharedOK, CreateRequest, bounds
  <2>3. RequestsOK'
    <3> DEFINE started == [NoRequest EXCEPT !.pc = "claim", !.id = id, !.key = key]
    <3>1. started \in RequestRecord /\ started.pc = "claim" /\ started.id = id /\ started.key = key
      BY DEF NoRequest, RequestRecord
    <3> HIDE DEF started
    <3>2. requests' = [requests EXCEPT ![r] = started] /\ issued' = issued \cup {id}
      BY <1>1 DEF CreateRequest, started
    <3> QED BY <3>1, <3>2 DEF RequestsOK, RequestSlots, Creating, Claimed
  <2> QED BY <2>2, <2>3
<1>2. ASSUME NEW r \in Requests, NEW id \in SandboxIds, DeleteRequest(r, id)
      PROVE  SharedOK' /\ RequestsOK'
  <2>1. SharedOK'
    BY <1>2, ManagerType, KubeKept, CacheType, PoolType DEF SharedOK, DeleteRequest, bounds, history
  <2>2. RequestsOK'
    <3> DEFINE started == [NoRequest EXCEPT !.pc = "delete", !.id = id]
    <3>1. started \in RequestRecord /\ started.pc = "delete" /\ started.id = id
      BY DEF NoRequest, RequestRecord
    <3> HIDE DEF started
    <3>2. /\ requests' = [requests EXCEPT ![r] = started]
          /\ issued' = issued /\ id \in issued
      BY <1>2 DEF DeleteRequest, started, history
    <3> QED BY <3>1, <3>2 DEF RequestsOK, RequestSlots, Creating, Claimed
  <2> QED BY <2>1, <2>2
<1>3. ASSUME NEW id \in SandboxIds, Keepalive(id)
      PROVE  SharedOK' /\ RequestsOK'
  <2>1. now + DefaultTimeout \in Nat /\ now + DefaultTimeout \in Int
    BY AgentAssumption DEF SharedOK
  <2>2. ManagerTypeOK'
    BY <1>3, <2>1, ManagerType DEF SharedOK, Keepalive
  <2>3. promise' \in [SandboxIds -> [low : Nat, last : Nat]]
    BY <1>3, <2>1 DEF SharedOK, Keepalive
  <2>4. SharedOK'
    BY <1>3, <2>2, <2>3, KubeKept, CacheType, PoolType DEF SharedOK, Keepalive, bounds
  <2> QED BY <1>3, <2>4, Kept DEF Keepalive
<1> QED BY <1>1, <1>2, <1>3 DEF Client, CreateRequest, DeleteRequest, Keepalive

\* The steps of an onReady goroutine.
LEMMA CallbackType ==
  ASSUME SharedOK, CallbacksOK, NEW c \in Callbacks, CallbackStep(c)
  PROVE  SharedOK' /\ CallbacksOK' /\ issued' = issued
<1>0. /\ callbacks[c] \in CallbackRecord
      /\ callbacks[c].pc # "idle" => callbacks[c].id \in PodIds
      /\ callbacks[c].pc = "mark" => callbacks[c].id \in WarmIds
      /\ callbacks[c].ip \in PodIds \cup {None}
      /\ callbacks[c].pc \in {"setip", "dial", "store", "mark"} => callbacks[c].key \in Keys
  BY DEF CallbacksOK, CallbackSlots, CallbackRecord
<1>K. KubeTypeOK' /\ CacheTypeOK'
  BY KubeKept, CacheType DEF SharedOK, CallbackStep
<1>N. NoCallback \in CallbackRecord /\ NoCallback.pc = "idle"
  BY DEF NoCallback, CallbackRecord
<1>1. ASSUME CallbackSkips(c)
      PROVE  SharedOK' /\ CallbacksOK' /\ issued' = issued
  <2>1. SharedOK'
    BY <1>0, <1>K, <1>1, ManagerType, PoolType DEF SharedOK, CallbackSkips, history, bounds
  <2>2. CallbacksOK'
    BY <1>0, <1>N, <1>1 DEF CallbacksOK, CallbackSlots, CallbackRecord, CallbackSkips, Return
  <2> QED BY <1>1, <2>1, <2>2 DEF CallbackSkips, history
<1>2. ASSUME CallbackBegins(c)
      PROVE  SharedOK' /\ CallbacksOK' /\ issued' = issued
  <2>1. SharedOK'
    <3>1. ManagerTypeOK'
      BY <1>2, ManagerType DEF SharedOK, CallbackBegins, Statuses
    <3> QED BY <1>K, <1>2, <3>1, PoolType DEF SharedOK, CallbackBegins, history, bounds
  <2>2. CallbacksOK'
    BY <1>0, <1>N, <1>2 DEF CallbacksOK, CallbackSlots, CallbackRecord, CallbackBegins
  <2> QED BY <1>2, <2>1, <2>2 DEF CallbackBegins, history
<1>3. ASSUME CallbackInfo(c)
      PROVE  SharedOK' /\ CallbacksOK' /\ issued' = issued
  <2>1. SharedOK'
    BY <1>0, <1>K, <1>3, ManagerType, PoolType DEF SharedOK, CallbackInfo, history, bounds
  <2>2. CallbacksOK'
    <3>1. callbacks[c].id \in Cached =>
            /\ Address(cache[callbacks[c].id]) \in PodIds \cup {None}
            /\ cache[callbacks[c].id].key \in Keys
      BY DEF SharedOK, CacheTypeOK, IsMap, PodInfo, Address, Cached
    <3> QED BY <1>0, <1>N, <1>3, <3>1 DEF CallbacksOK, CallbackSlots, CallbackRecord, CallbackInfo
  <2> QED BY <1>3, <2>1, <2>2 DEF CallbackInfo, history
<1>4. ASSUME CallbackSetIP(c)
      PROVE  SharedOK' /\ CallbacksOK' /\ issued' = issued
  <2>1. SharedOK'
    BY <1>0, <1>K, <1>4, ManagerType, PoolType DEF SharedOK, CallbackSetIP, history, bounds
  <2>2. CallbacksOK'
    BY <1>0, <1>N, <1>4 DEF CallbacksOK, CallbackSlots, CallbackRecord, CallbackSetIP
  <2> QED BY <1>4, <2>1, <2>2 DEF CallbackSetIP, history
<1>5. ASSUME CallbackDials(c)
      PROVE  SharedOK' /\ CallbacksOK' /\ issued' = issued
  <2>1. SharedOK'
    BY <1>0, <1>K, <1>5, ManagerType, PoolType DEF SharedOK, CallbackDials, history, bounds
  <2>2. CallbacksOK'
    BY <1>0, <1>N, <1>5 DEF CallbacksOK, CallbackSlots, CallbackRecord, CallbackDials
  <2> QED BY <1>5, <2>1, <2>2 DEF CallbackDials, history
<1>6. ASSUME CallbackDialFails(c)
      PROVE  SharedOK' /\ CallbacksOK' /\ issued' = issued
  <2>1. SharedOK'
    BY <1>0, <1>K, <1>6, ManagerType, PoolType, SpendType DEF SharedOK, CallbackDialFails, history, bounds, Disturbances
  <2>2. CallbacksOK'
    BY <1>0, <1>N, <1>6 DEF CallbacksOK, CallbackSlots, CallbackRecord, CallbackDialFails, Return
  <2> QED BY <1>6, <2>1, <2>2 DEF CallbackDialFails, history
<1>7. ASSUME CallbackStores(c)
      PROVE  SharedOK' /\ CallbacksOK' /\ issued' = issued
  <2>1. SharedOK'
    BY <1>0, <1>K, <1>7, ManagerType, PoolType, PutIsMap DEF SharedOK, CallbackStores, history, bounds
  <2>2. CallbacksOK'
    BY <1>0, <1>N, <1>7 DEF CallbacksOK, CallbackSlots, CallbackRecord, CallbackStores
  <2> QED BY <1>7, <2>1, <2>2 DEF CallbackStores, history
<1>8. ASSUME CallbackMarks(c)
      PROVE  SharedOK' /\ CallbacksOK' /\ issued' = issued
  <2>1. SharedOK'
    BY <1>0, <1>K, <1>8, ManagerType, PoolType DEF SharedOK, CallbackMarks, history, bounds
  <2>2. CallbacksOK'
    BY <1>0, <1>N, <1>8 DEF CallbacksOK, CallbackSlots, CallbackRecord, CallbackMarks, Return
  <2> QED BY <1>8, <2>1, <2>2 DEF CallbackMarks, history
<1> QED BY <1>1, <1>2, <1>3, <1>4, <1>5, <1>6, <1>7, <1>8 DEF CallbackStep

\* The steps of fill.
LEMMA FillType ==
  ASSUME SharedOK, FillsOK, NEW f \in Fillers, FillStep(f)
  PROVE  SharedOK' /\ FillsOK' /\ issued' = issued
<1>0. /\ fills[f] \in FillRecord
      /\ fills[f].pc # "idle" => fills[f].key \in Keys
      /\ fills[f].pc = "create" => fills[f].left \in Nat /\ fills[f].left > 0
  BY DEF FillsOK, FillSlots, FillRecord
<1>K. ManagerTypeOK' /\ CacheTypeOK' /\ PoolTypeOK'
  BY ManagerType, CacheType, PoolType DEF SharedOK, FillStep
<1>N. NoFill \in FillRecord /\ NoFill.pc = "idle"
  BY DEF NoFill, FillRecord
<1>1. ASSUME FillCount(f)
      PROVE  SharedOK' /\ FillsOK'
  <2>1. Needed(fills[f].key) \in Nat
    BY <1>0, <1>1, PoolType DEF FillCount, SharedOK
  <2>2. PICK needed \in Nat :
          /\ fills[f].pc = "count"
          /\ fills' = IF needed = 0 THEN [fills EXCEPT ![f] = NoFill]
                      ELSE [fills EXCEPT ![f] = [pc |-> "create", key |-> @.key, left |-> needed]]
    BY <1>1, <2>1 DEF FillCount
  <2>3. FillsOK'
    <3>1. CASE needed = 0
      BY <1>N, <2>2, <3>1 DEF FillsOK, FillSlots
    <3>2. CASE needed > 0
      BY <1>0, <2>2, <3>2 DEF FillsOK, FillSlots, FillRecord
    <3> QED BY <3>1, <3>2
  <2>4. SharedOK'
    BY <1>K, <1>1, KubeKept DEF SharedOK, FillCount, FillStep, history, bounds
  <2> QED BY <2>3, <2>4
<1>2. ASSUME NEW warm \in WarmIds, FillCreate(f, warm)
      PROVE  SharedOK' /\ FillsOK'
  <2>1. FillsOK'
    BY <1>0, <1>N, <1>2 DEF FillCreate, FillsOK, FillSlots, FillRecord
  <2>2. KubeTypeOK'
    BY <1>0, <1>2, AgentAssumption, KubeCallType DEF FillCreate, SharedOK, PodIds
  <2>3. SharedOK'
    BY <1>K, <1>2, <2>2 DEF SharedOK, FillCreate, FillStep, history, bounds
  <2> QED BY <2>1, <2>3
<1>3. ASSUME FillFails(f)
      PROVE  SharedOK' /\ FillsOK'
  <2>1. FillsOK'
    BY <1>0, <1>N, <1>3 DEF FillFails, FillsOK, FillSlots, FillRecord
  <2>2. now' \in Nat /\ spent' \in [Disturbances -> Nat]
    BY <1>3, SpendType DEF FillFails, SharedOK, bounds, Disturbances
  <2>3. SharedOK'
    BY <1>K, <1>3, <2>2, KubeKept DEF SharedOK, FillFails, FillStep, history
  <2> QED BY <2>1, <2>3
<1> QED BY <1>1, <1>2, <1>3 DEF FillStep, history

\* The steps of the expiry loop.
LEMMA ReaperType ==
  ASSUME SharedOK, ReaperOK, ReaperStep
  PROVE  SharedOK' /\ ReaperOK' /\ issued' = issued
<1>0. /\ ReaperSlot /\ reaper \in ReaperRecord
      /\ SandboxIds \subseteq PodIds
      /\ Expired(now) \subseteq SandboxIds
      /\ pendingDeletes \subseteq SandboxIds
  BY DEF ReaperOK, Expired, Tracked, SharedOK, ManagerTypeOK, IsMap, PodIds
<1>K. PoolTypeOK'
  BY PoolType DEF SharedOK, ReaperStep
<1>N. NoReaping \in ReaperRecord /\ NoReaping.pc = "idle"
  BY DEF NoReaping, ReaperRecord
<1>E. ASSUME NEW todo \in SUBSET SandboxIds
      PROVE  /\ [NoReaping EXCEPT !.pc = "reap", !.todo = todo] \in ReaperRecord
             /\ [NoReaping EXCEPT !.pc = "reap", !.todo = todo].pc = "reap"
  BY DEF NoReaping, ReaperRecord
<1>1. ASSUME NEW due \in SUBSET pendingDeletes, ReaperTick(due)
      PROVE  SharedOK' /\ ReaperOK'
  <2>1. SharedOK'
    BY <1>0, <1>K, <1>1, ManagerType, KubeCallType, KubeKept, CacheType, DeleteIsMap
       DEF SharedOK, ReaperTick, ReaperStep, ReaperSlot, history, bounds
  <2>2. ReaperOK'
    BY <1>0, <1>N, <1>E, <1>1 DEF ReaperTick, ReaperOK, ReaperSlot, ReaperRecord
  <2> QED BY <2>1, <2>2
<1>2. ASSUME NEW id \in SandboxIds, ReaperForces(id)
      PROVE  SharedOK' /\ ReaperOK'
  <2>1. SharedOK'
    BY <1>0, <1>K, <1>2, ManagerType, KubeCallType, KubeKept, CacheType, DeleteIsMap
       DEF SharedOK, ReaperForces, ReaperStep, ReaperSlot, history, bounds
  <2>2. ReaperOK'
    BY <1>0, <1>N, <1>E, <1>2 DEF ReaperForces, ReaperOK, ReaperSlot, ReaperRecord
  <2> QED BY <2>1, <2>2
<1>3. ASSUME NEW id \in SandboxIds, ReaperForceFails(id)
      PROVE  SharedOK' /\ ReaperOK'
  <2>1. SharedOK'
    BY <1>0, <1>K, <1>3, ManagerType, KubeCallType, KubeKept, CacheType, DeleteIsMap, SpendType
       DEF SharedOK, ReaperForceFails, ReaperStep, ReaperSlot, history, bounds, Disturbances
  <2>2. ReaperOK'
    BY <1>0, <1>N, <1>E, <1>3 DEF ReaperForceFails, ReaperOK, ReaperSlot, ReaperRecord
  <2> QED BY <2>1, <2>2
<1>4. ASSUME NEW id \in SandboxIds, ReaperStops(id)
      PROVE  SharedOK' /\ ReaperOK'
  <2>1. SharedOK'
    <3>1. ManagerTypeOK'
      BY <1>4, ManagerType DEF SharedOK, ReaperStops, Statuses
    <3> QED BY <1>K, <1>4, <3>1, KubeKept, CacheType DEF SharedOK, ReaperStops, ReaperStep, history, bounds
  <2>2. ReaperOK'
    BY <1>0, <1>N, <1>E, <1>4 DEF ReaperStops, ReaperOK, ReaperSlot, ReaperRecord
  <2> QED BY <2>1, <2>2
<1>5. ASSUME ReaperForceForgets
      PROVE  SharedOK' /\ ReaperOK'
  <2>1. SharedOK'
    BY <1>0, <1>K, <1>5, ManagerType, KubeCallType, KubeKept, CacheType, DeleteIsMap
       DEF SharedOK, ReaperForceForgets, ReaperStep, ReaperSlot, history, bounds
  <2>2. ReaperOK'
    BY <1>0, <1>N, <1>E, <1>5 DEF ReaperForceForgets, ReaperOK, ReaperSlot, ReaperRecord
  <2> QED BY <2>1, <2>2
<1>6. ASSUME ReaperScans
      PROVE  SharedOK' /\ ReaperOK'
  <2>1. SharedOK'
    BY <1>0, <1>K, <1>6, ManagerType, KubeCallType, KubeKept, CacheType, DeleteIsMap
       DEF SharedOK, ReaperScans, ReaperStep, ReaperSlot, history, bounds
  <2>2. ReaperOK'
    BY <1>0, <1>N, <1>E, <1>6 DEF ReaperScans, ReaperOK, ReaperSlot, ReaperRecord
  <2> QED BY <2>1, <2>2
<1>7. ASSUME ReaperDeletes
      PROVE  SharedOK' /\ ReaperOK'
  <2>1. SharedOK'
    BY <1>0, <1>K, <1>7, ManagerType, KubeCallType, KubeKept, CacheType, DeleteIsMap
       DEF SharedOK, ReaperDeletes, ReaperStep, ReaperSlot, history, bounds
  <2>2. ReaperOK'
    BY <1>0, <1>N, <1>E, <1>7 DEF ReaperDeletes, ReaperOK, ReaperSlot, ReaperRecord
  <2> QED BY <2>1, <2>2
<1>8. ASSUME ReaperDeleteFails
      PROVE  SharedOK' /\ ReaperOK'
  <2>1. SharedOK'
    BY <1>0, <1>K, <1>8, ManagerType, KubeCallType, KubeKept, CacheType, DeleteIsMap, SpendType
       DEF SharedOK, ReaperDeleteFails, ReaperStep, ReaperSlot, history, bounds, Disturbances
  <2>2. ReaperOK'
    BY <1>0, <1>N, <1>E, <1>8 DEF ReaperDeleteFails, ReaperOK, ReaperSlot, ReaperRecord
  <2> QED BY <2>1, <2>2
<1>9. ASSUME ReaperForgets
      PROVE  SharedOK' /\ ReaperOK'
  <2>1. SharedOK'
    BY <1>0, <1>K, <1>9, ManagerType, KubeCallType, KubeKept, CacheType, DeleteIsMap
       DEF SharedOK, ReaperForgets, ReaperStep, ReaperSlot, history, bounds
  <2>2. ReaperOK'
    BY <1>0, <1>N, <1>E, <1>9 DEF ReaperForgets, ReaperOK, ReaperSlot, ReaperRecord
  <2> QED BY <2>1, <2>2
<1>10. ASSUME ReaperDisconnects
      PROVE  SharedOK' /\ ReaperOK'
  <2>1. SharedOK'
    BY <1>0, <1>K, <1>10, ManagerType, KubeCallType, KubeKept, CacheType, DeleteIsMap
       DEF SharedOK, ReaperDisconnects, ReaperStep, ReaperSlot, history, bounds
  <2>2. ReaperOK'
    BY <1>0, <1>N, <1>E, <1>10 DEF ReaperDisconnects, ReaperOK, ReaperSlot, ReaperRecord
  <2> QED BY <2>1, <2>2
<1>11. ASSUME ReaperRemoves
      PROVE  SharedOK' /\ ReaperOK'
  <2>1. SharedOK'
    BY <1>0, <1>K, <1>11, ManagerType, KubeCallType, KubeKept, CacheType, DeleteIsMap
       DEF SharedOK, ReaperRemoves, ReaperStep, ReaperSlot, history, bounds
  <2>2. ReaperOK'
    BY <1>0, <1>N, <1>E, <1>11 DEF ReaperRemoves, ReaperOK, ReaperSlot, ReaperRecord
  <2> QED BY <2>1, <2>2
<1> QED BY <1>1, <1>2, <1>3, <1>4, <1>5, <1>6, <1>7, <1>8, <1>9, <1>10, <1>11 DEF ReaperStep, history

\* The watch loop.
LEMMA WatchLoopType ==
  ASSUME SharedOK, CallbacksOK, WatchLoop
  PROVE  SharedOK' /\ CallbacksOK' /\ issued' = issued
<1>K. ManagerTypeOK' /\ PoolTypeOK'
  BY ManagerType, PoolType DEF SharedOK, WatchLoop
<1>1. ASSUME WatchStep
      PROVE  SharedOK' /\ CallbacksOK'
  <2>1. Head(events) \in EventRecord /\ Tail(events) \in Seq(EventRecord)
    BY <1>1 DEF WatchStep, SharedOK, KubeTypeOK
  <2>2. KubeTypeOK'
    BY <1>1, <2>1 DEF WatchStep, SharedOK, KubeTypeOK
  <2>3. CacheTypeOK'
    BY <1>1, <2>1, CacheType DEF WatchStep, SharedOK
  <2>4. SharedOK'
    BY <1>K, <1>1, <2>2, <2>3 DEF SharedOK, WatchStep, WatchLoop, bounds, history
  <2>5. CallbacksOK'
    <3> DEFINE started == [NoCallback EXCEPT !.pc = "begin", !.id = Head(events).pod]
    <3>1. started \in CallbackRecord /\ started.pc = "begin" /\ started.id \in PodIds
      BY <2>1 DEF NoCallback, CallbackRecord, EventRecord
    <3> HIDE DEF started
    <3>2. \/ UNCHANGED callbacks
          \/ \E c \in Callbacks : callbacks' = [callbacks EXCEPT ![c] = started]
      BY <1>1 DEF WatchStep, started
    <3>3. ASSUME NEW c \in Callbacks, callbacks' = [callbacks EXCEPT ![c] = started]
          PROVE  CallbacksOK'
      BY <3>1, <3>3 DEF CallbacksOK, CallbackSlots
    <3> QED BY <3>2, <3>3, Kept
  <2> QED BY <2>4, <2>5
<1>2. ASSUME WatchOpens
      PROVE  SharedOK' /\ CallbacksOK'
  <2>1. SharedOK'
    BY <1>K, <1>2, WatchType, CacheType DEF SharedOK, WatchOpens, WatchLoop, bounds, history
  <2> QED BY <1>2, <2>1, Kept DEF WatchOpens
<1>3. ASSUME WatchBreaks
      PROVE  SharedOK' /\ CallbacksOK'
  <2>1. SharedOK'
    BY <1>K, <1>3, WatchType, CacheType, SpendType
       DEF SharedOK, WatchBreaks, WatchLoop, history, Disturbances
  <2> QED BY <1>3, <2>1, Kept DEF WatchBreaks
<1> QED BY <1>1, <1>2, <1>3 DEF WatchLoop, history

\* Start-up.
LEMMA BootType ==
  ASSUME SharedOK, FillsOK, BootOK, Boot
  PROVE  SharedOK' /\ FillsOK' /\ BootOK' /\ issued' = issued
<1>K. KubeTypeOK' /\ PoolTypeOK'
  BY KubeKept, PoolType DEF SharedOK, Boot
<1>1. ASSUME NEW dialed \in SUBSET SandboxIds, Recovery(dialed)
      PROVE  SharedOK' /\ FillsOK' /\ BootOK'
  <2>1. ASSUME NEW id \in Recoverable
        PROVE  RecoveredRecord(pods[id].key, IF pods[id].ip THEN id ELSE None,
                               IF pods[id].expiresAt = 0 THEN now + DefaultTimeout
                               ELSE pods[id].expiresAt,
                               pods[id].ready) \in SandboxRecord
    <3>1. pods[id] \in PodRecord /\ id \in PodIds
      BY DEF Recoverable, SharedOK, KubeTypeOK, PodIds
    <3>2. now + DefaultTimeout \in Int
      BY AgentAssumption DEF SharedOK
    <3> QED BY <3>1, <3>2 DEF RecoveredRecord, SandboxRecord, Statuses, PodRecord
  <2>2. Recoverable \subseteq SandboxIds
    BY DEF Recoverable
  <2>3. ManagerTypeOK'
    BY <1>1, <2>1, <2>2 DEF Recovery, ManagerTypeOK, IsMap
  <2>4. IsMap(conns', PodIds, PodIds \cup {None})
    BY <1>1, <2>2 DEF Recovery, IsMap, PodIds
  <2>5. CacheTypeOK'
    BY <1>1, CacheType DEF Recovery, SharedOK
  <2>6. SharedOK'
    BY <1>K, <1>1, <2>3, <2>4, <2>5 DEF SharedOK, Recovery, Boot, bounds, history
  <2> QED BY <1>1, <2>6, Kept DEF Recovery, BootOK
<1>2. ASSUME RecoveryFails
      PROVE  SharedOK' /\ FillsOK' /\ BootOK'
  <2>1. SharedOK'
    BY <1>K, <1>2, ManagerType, CacheType, SpendType
       DEF SharedOK, RecoveryFails, Boot, history, Disturbances
  <2> QED BY <1>2, <2>1, Kept DEF RecoveryFails, BootOK
<1>3. ASSUME NEW key \in Keys, BootFill(key)
      PROVE  SharedOK' /\ FillsOK' /\ BootOK'
  <2>1. SharedOK'
    BY <1>K, <1>3, ManagerType, CacheType DEF SharedOK, BootFill, Boot, bounds, history
  <2>2. FillsOK'
    <3> DEFINE started == [NoFill EXCEPT !.pc = "count", !.key = key]
    <3>1. started \in FillRecord /\ started.pc = "count" /\ started.key = key
      BY DEF NoFill, FillRecord
    <3> HIDE DEF started
    <3>2. fills' = [fills EXCEPT ![Main] = started]
      BY <1>3 DEF BootFill, started
    <3> QED BY <3>1, <3>2, AgentAssumption DEF FillsOK, FillSlots
  <2> QED BY <1>3, <2>1, <2>2 DEF BootFill, BootOK
<1>4. ASSUME BootServe
      PROVE  SharedOK' /\ FillsOK' /\ BootOK'
  <2>1. SharedOK'
    BY <1>K, <1>4, ManagerType, CacheType DEF SharedOK, BootServe, Boot, bounds, history
  <2> QED BY <1>4, <2>1, Kept DEF BootServe, BootOK
<1> QED BY <1>1, <1>2, <1>3, <1>4 DEF Boot, history

\* The end of the process resets everything but the cluster and the clock.
LEMMA CrashType ==
  ASSUME SharedOK, Crash
  PROVE  SharedOK' /\ RequestsOK' /\ CallbacksOK' /\ FillsOK' /\ ReaperOK' /\ BootOK'
<1>1. SharedOK'
  <2>1. ManagerTypeOK' /\ CacheTypeOK' /\ IsMap(conns', PodIds, PodIds \cup {None})
    BY EmptyIsMap DEF Crash, ManagerTypeOK, CacheTypeOK
  <2>2. PoolTypeOK'
    BY DEF Crash, PoolTypeOK
  <2>3. KubeTypeOK'
    BY WatchType DEF SharedOK, Crash
  <2> QED BY <2>1, <2>2, <2>3, SpendType DEF SharedOK, Crash, history, Disturbances
<1>2. RequestsOK'
  BY DEF Crash, RequestsOK, RequestSlots, RequestRecord, NoRequest, Creating, Claimed
<1>3. CallbacksOK'
  BY DEF Crash, CallbacksOK, CallbackSlots, CallbackRecord, NoCallback
<1>4. FillsOK' /\ ReaperOK' /\ BootOK'
  BY DEF Crash, FillsOK, FillSlots, FillRecord, NoFill, ReaperOK, ReaperSlot,
         ReaperRecord, NoReaping, BootOK
<1> QED BY <1>1, <1>2, <1>3, <1>4

\* The cluster and the clock.
LEMMA WorldType ==
  ASSUME SharedOK, (\E p \in PodIds : PodStep(p)) \/ Tick
  PROVE  SharedOK' /\ UNCHANGED agentVars
<1>1. ASSUME NEW p \in PodIds, PodStep(p)
      PROVE  SharedOK'
  <2>1. KubeTypeOK'
    BY <1>1, KubeCallType DEF SharedOK, PodStep
  <2>2. now' \in Nat /\ spent' \in [Disturbances -> Nat]
    BY <1>1, SpendType DEF SharedOK, PodStep, Disturbances, bounds
  <2> QED BY <1>1, <2>1, <2>2, ManagerType, CacheType, PoolType
          DEF SharedOK, PodStep, agentVars, history
<1>2. ASSUME Tick
      PROVE  SharedOK'
  BY <1>2, KubeKept, ManagerType, CacheType, PoolType DEF SharedOK, Tick, agentVars, history
<1> QED BY <1>1, <1>2 DEF PodStep, Tick

\* The types hold at first,
LEMMA InitType == Init => TypeInv
<1> SUFFICES ASSUME Init PROVE TypeInv
  OBVIOUS
<1> USE DEF Init
<1>1. ManagerTypeOK /\ CacheTypeOK /\ IsMap(conns, PodIds, PodIds \cup {None})
  BY EmptyIsMap DEF ManagerInit, ManagerTypeOK, CacheInit, CacheTypeOK
<1>2. KubeTypeOK
  <2>1. <<>> \in Seq(EventRecord)
    OBVIOUS
  <2>2. Uncreated \in PodRecord
    BY AgentAssumption DEF Uncreated, PodRecord
  <2> QED BY <2>1, <2>2 DEF KubeInit, KubeTypeOK
<1>3. PoolTypeOK
  BY DEF PoolInit, PoolTypeOK
<1>4. SharedOK
  BY <1>1, <1>2, <1>3 DEF SharedOK
<1>5. RequestsOK
  BY DEF RequestsOK, RequestSlots, RequestRecord, NoRequest, Creating, Claimed
<1>6. CallbacksOK
  BY DEF CallbacksOK, CallbackSlots, CallbackRecord, NoCallback
<1>7. FillsOK /\ ReaperOK /\ BootOK
  BY DEF FillsOK, FillSlots, FillRecord, NoFill, ReaperOK, ReaperSlot, ReaperRecord,
         NoReaping, BootOK
<1> QED BY <1>4, <1>5, <1>6, <1>7, TypeInvParts

\* and every step keeps them.
LEMMA NextType == TypeInv /\ [Next]_vars => TypeInv'
<1> SUFFICES ASSUME TypeInv, [Next]_vars PROVE TypeInv'
  OBVIOUS
<1>0. SharedOK /\ RequestsOK /\ CallbacksOK /\ FillsOK /\ ReaperOK /\ BootOK
  BY TypeInvParts
<1>P. SharedOK' /\ RequestsOK' /\ CallbacksOK' /\ FillsOK' /\ ReaperOK' /\ BootOK' => TypeInv'
  BY DEF TypeInv, TypeOK, SharedOK, RequestsOK, CallbacksOK, FillsOK, ReaperOK, BootOK
<1>1. CASE Client
  BY <1>0, <1>P, <1>1, ClientType, Kept DEF Client
<1>2. ASSUME NEW r \in Requests, RequestStep(r)
      PROVE  TypeInv'
  BY <1>0, <1>P, <1>2, RequestType, Kept DEF RequestStep
<1>3. ASSUME NEW c \in Callbacks, CallbackStep(c)
      PROVE  TypeInv'
  BY <1>0, <1>P, <1>3, CallbackType, Kept DEF CallbackStep
<1>4. ASSUME NEW f \in Fillers, FillStep(f)
      PROVE  TypeInv'
  BY <1>0, <1>P, <1>4, FillType, Kept DEF FillStep
<1>5. CASE ReaperStep
  BY <1>0, <1>P, <1>5, ReaperType, Kept DEF ReaperStep
<1>6. CASE WatchLoop
  BY <1>0, <1>P, <1>6, WatchLoopType, Kept DEF WatchLoop
<1>7. CASE Boot
  BY <1>0, <1>P, <1>7, BootType, Kept DEF Boot
<1>8. CASE Crash
  BY <1>0, <1>P, <1>8, CrashType
<1>9. CASE (\E p \in PodIds : PodStep(p)) \/ Tick
  BY <1>0, <1>P, <1>9, WorldType, Kept DEF agentVars, history
<1>10. CASE UNCHANGED vars
  <2>1. SharedOK'
    BY <1>0, <1>10, ManagerType, KubeKept, CacheType, PoolType DEF SharedOK, vars, bounds, history
  <2> QED BY <1>0, <1>P, <1>10, <2>1, Kept DEF vars, history
<1> QED BY <1>1, <1>2, <1>3, <1>4, <1>5, <1>6, <1>7, <1>8, <1>9, <1>10 DEF Next

\* Type correctness: in every state every variable has its type, and every
\* goroutine in progress holds the ids, keys and counts its next step reads.
THEOREM TypeCorrect == Spec => []TypeInv
BY InitType, NextType, PTL DEF Spec

\* Every variable of the agent and the cluster keeps its type: no handler,
\* goroutine or restart stores an unclaimed id or an empty key.
THEOREM TypeCorrectness == Spec => []TypeOK
<1>1. TypeInv => TypeOK
  BY DEF TypeInv
<1> QED BY <1>1, TypeCorrect, PTL
===============================================================================
