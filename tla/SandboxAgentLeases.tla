-------------------------- MODULE SandboxAgentLeases --------------------------
(***************************************************************************)
(* A theorem about SandboxAgent for every value of its constants: the      *)
(* expiry loop takes no sandbox before the earliest expiry its clients     *)
(* were told, whatever restarts and keepalives come in between.            *)
(*                                                                         *)
(* ReapsOnlyExpired is not inductive: the loop works through a list it     *)
(* made some time ago from the registry, and the registry may have been    *)
(* read back from the annotations of the pods.  LeaseInv says of each of   *)
(* them that no expiry it holds is earlier than the promise.               *)
(***************************************************************************)
EXTENDS SandboxAgentKeys

SandboxesLeased == \A id \in Tracked : promise[id].low <= sandboxes[id].expiresAt

\* The annotation of a sandbox's pod is there, and no earlier than promised.
PodsLeased ==
  \A id \in SandboxIds :
    Created(id) => 0 < pods[id].expiresAt /\ promise[id].low <= pods[id].expiresAt

PromisesOrdered ==
  \A id \in issued : 0 < promise[id].last /\ promise[id].low <= promise[id].last

\* The phases of the loop that are about one id of its list.
Reaping == {"delete", "forget", "disconnect", "remove"}

ReaperLeased ==
  /\ \A id \in reaper.todo : id \in issued /\ promise[id].low < now
  /\ reaper.pc \in Reaping => reaper.id \in reaper.todo
  /\ reaper.pc \notin Reaping \cup {"forceforget"} => reaper.id = None

LeaseInv == SandboxesLeased /\ PodsLeased /\ PromisesOrdered /\ ReaperLeased

-------------------------------------------------------------------------------
(* What a step does to promises, annotations and leases.                    *)

\* A promise is made once; a keepalive can only make it earlier.
LEMMA PromisesFall ==
  ASSUME TypeInv, KeyInv, PromisesOrdered, [Next]_vars
  PROVE  /\ \A id \in issued : promise'[id].low <= promise[id].low
         /\ PromisesOrdered'
<1>0. /\ promise \in [SandboxIds -> [low : Nat, last : Nat]] /\ now \in Nat
      /\ issued \subseteq SandboxIds
      /\ \A id \in Tracked : id \in issued
      /\ \A id \in SandboxIds : promise[id].low \in Nat /\ promise[id].last \in Nat
  BY TypeInvParts DEF SharedOK, KeyInv, SandboxesKeyed
<1>1. CASE UNCHANGED <<promise, issued>>
  BY <1>0, <1>1 DEF PromisesOrdered
<1>2. ASSUME NEW r \in Requests, NEW id \in SandboxIds, NEW key \in Keys,
             NEW timeout \in Timeouts, CreateRequest(r, id, key, timeout)
      PROVE  /\ \A x \in issued : promise'[x].low <= promise[x].low
             /\ PromisesOrdered'
  <2>1. now + timeout \in Nat /\ 0 < now + timeout
    BY <1>0, AgentAssumption
  <2>2. PICK t \in Nat : t = now + timeout /\ 0 < t
    BY <2>1
  <2>3. /\ id \notin issued /\ issued' = issued \cup {id}
        /\ promise' = [promise EXCEPT ![id] = [low |-> t, last |-> t]]
    BY <1>2, <2>2 DEF CreateRequest
  <2>4. /\ promise'[id].low = t /\ promise'[id].last = t
        /\ \A x \in issued : promise'[x] = promise[x]
    BY <1>0, <2>3
  <2> QED
    BY <1>0, <2>2, <2>3, <2>4 DEF PromisesOrdered
<1>3. ASSUME NEW id \in SandboxIds, Keepalive(id)
      PROVE  /\ \A x \in issued : promise'[x].low <= promise[x].low
             /\ PromisesOrdered'
  <2>1. PICK t \in Nat : t = now + DefaultTimeout /\ 0 < t
    BY <1>0, AgentAssumption
  <2>2. PICK low \in Nat : /\ low = IF promise[id].low < t THEN promise[id].low ELSE t
                           /\ low <= promise[id].low /\ low <= t
    <3>1. CASE promise[id].low < t
      BY <1>0, <2>1, <3>1
    <3>2. CASE ~(promise[id].low < t)
      BY <1>0, <2>1, <3>2
    <3> QED
      BY <3>1, <3>2
  <2>3. /\ promise' = [promise EXCEPT ![id] = [low |-> low, last |-> t]]
        /\ UNCHANGED issued
    BY <1>3, <2>1, <2>2 DEF Keepalive
  <2>4. /\ promise'[id].low = low /\ promise'[id].last = t
        /\ \A x \in SandboxIds \ {id} : promise'[x] = promise[x]
    BY <1>0, <2>3
  <2> QED
    BY <1>0, <2>1, <2>2, <2>3, <2>4 DEF PromisesOrdered
<1>4. CASE Client
  <2>1. ASSUME NEW r \in Requests, NEW id \in SandboxIds, DeleteRequest(r, id)
        PROVE  UNCHANGED <<promise, issued>>
    BY <2>1 DEF DeleteRequest, history
  <2> QED
    BY <1>1, <1>2, <1>3, <1>4, <2>1 DEF Client
<1>5. ASSUME NEW r \in Requests, RequestStep(r) PROVE UNCHANGED <<promise, issued>>
  BY <1>5 DEF RequestStep, ClaimWarm, ClaimNothing, ClaimInfo, ClaimRemap, ClaimSetIP, ClaimDone,
           ColdCreate, ColdCreateFails, CreateRollback, DeletePod, DeletePodFails, DeleteForget,
           DeleteDisconnect, DeleteStop, DeleteRemove, history
<1>6. ASSUME NEW c \in Callbacks, CallbackStep(c) PROVE UNCHANGED <<promise, issued>>
  BY <1>6 DEF CallbackStep, CallbackSkips, CallbackBegins, CallbackInfo, CallbackSetIP,
           CallbackDials, CallbackDialFails, CallbackStores, CallbackMarks, history
<1>7. ASSUME \/ \E f \in Fillers : FillStep(f)
             \/ ReaperStep \/ WatchLoop \/ Boot \/ Crash
             \/ \E p \in PodIds : PodStep(p)
             \/ Tick \/ UNCHANGED vars
      PROVE  UNCHANGED <<promise, issued>>
  BY <1>7 DEF FillStep, ReaperStep, WatchLoop, Boot, Crash, PodStep, Tick, vars, agentVars, history
<1> QED
  BY <1>1, <1>4, <1>5, <1>6, <1>7 DEF Next

\* Pods that were created before keep the expiry in their annotations.
ExpiriesStay ==
  \A p \in PodIds : Created(p)' => Created(p) /\ pods'[p].expiresAt = pods[p].expiresAt

\* An API call leaves the annotations of every pod there was.
LEMMA KubeCallsExpire ==
  ASSUME KubeTypeOK, NEW p \in PodIds
  PROVE  /\ \A k, t : KubeCreate(p, k, t) =>
              \A x \in PodIds : Created(x)' =>
                \/ x = p /\ pods'[x].expiresAt = t
                \/ Created(x) /\ pods'[x].expiresAt = pods[x].expiresAt
         /\ KubeDelete(p) => ExpiriesStay
         /\ KubeForceDelete(p) => ExpiriesStay
         /\ PodBecomesReady(p) => ExpiriesStay
         /\ PodLosesReadiness(p) => ExpiriesStay
         /\ PodTouched(p) => ExpiriesStay
         /\ PodGone(p) => ExpiriesStay
         /\ UNCHANGED pods => ExpiriesStay
<1>0. pods[p] \in PodRecord /\ pods \in [PodIds -> PodRecord]
  BY DEF KubeTypeOK
<1>1. ASSUME NEW k, NEW t, KubeCreate(p, k, t), NEW x \in PodIds, Created(x)'
      PROVE  \/ x = p /\ pods'[x].expiresAt = t
             \/ Created(x) /\ pods'[x].expiresAt = pods[x].expiresAt
  BY <1>0, <1>1 DEF KubeCreate, Change, Created
<1>2. ASSUME NEW type, NEW pod, Change(type, p, pod), pod.expiresAt = pods[p].expiresAt, Created(p)
      PROVE  ExpiriesStay
  BY <1>0, <1>2 DEF Change, ExpiriesStay, Created
<1>3. UNCHANGED pods => ExpiriesStay
  BY DEF ExpiriesStay, Created
<1>4. KubeDelete(p) => ExpiriesStay
  BY <1>0, <1>2, <1>3 DEF KubeDelete, Exists, Created, kubeVars, PodRecord
<1>5. /\ KubeForceDelete(p) => ExpiriesStay
      /\ PodGone(p) => ExpiriesStay
  BY <1>0, <1>2 DEF KubeForceDelete, PodGone, Exists, Created, PodRecord
<1>6. /\ PodBecomesReady(p) => ExpiriesStay
      /\ PodLosesReadiness(p) => ExpiriesStay
      /\ PodTouched(p) => ExpiriesStay
  BY <1>0, <1>2 DEF PodBecomesReady, PodLosesReadiness, PodTouched, Exists, Created, PodRecord
<1> QED
  BY <1>1, <1>3, <1>4, <1>5, <1>6

\* The pod of a sandbox is created with the last expiry set for it.
LEMMA PodsLeasedStep ==
  ASSUME TypeInv, KeyInv, PromisesOrdered, PodsLeased, [Next]_vars
  PROVE  PodsLeased'
<1>0. /\ SharedOK /\ RequestsOK /\ ReaperOK /\ KubeTypeOK
      /\ SandboxIds \subseteq PodIds /\ SandboxIds \cap WarmIds = {}
      /\ promise \in [SandboxIds -> [low : Nat, last : Nat]] /\ pods \in [PodIds -> PodRecord]
  BY TypeInvParts, IdsAssumption DEF SharedOK, KubeTypeOK, PodIds
<1>F. ASSUME NEW id \in issued PROVE promise'[id].low <= promise[id].low
  BY <1>F, PromisesFall
<1>T. promise' \in [SandboxIds -> [low : Nat, last : Nat]]
  <2>1. TypeInv'
    BY NextType
  <2> QED
    BY <2>1 DEF TypeInv, TypeOK
<1>K. UNCHANGED kube => ExpiriesStay
  BY <1>0, KubeCallsExpire DEF kube, ExpiriesStay, Created
<1>1. ASSUME ExpiriesStay PROVE PodsLeased'
  <2> SUFFICES ASSUME NEW id \in SandboxIds, Created(id)'
               PROVE  0 < pods'[id].expiresAt /\ promise'[id].low <= pods'[id].expiresAt
    BY DEF PodsLeased
  <2>1. Created(id) /\ pods'[id].expiresAt = pods[id].expiresAt
    BY <1>0, <1>1 DEF ExpiriesStay
  <2>2. id \in issued /\ 0 < pods[id].expiresAt /\ promise[id].low <= pods[id].expiresAt
    BY <2>1 DEF KeyInv, PodsKeyed, PodsLeased
  <2>3. promise'[id].low \in Int /\ promise[id].low \in Int /\ pods[id].expiresAt \in Int
    BY <1>0, <1>T DEF PodRecord
  <2> QED
    BY <1>F, <2>1, <2>2, <2>3
<1>2. ASSUME NEW p \in issued, NEW k, KubeCreate(p, k, promise[p].last), UNCHANGED promise
      PROVE  PodsLeased'
  <2> SUFFICES ASSUME NEW id \in SandboxIds, Created(id)'
               PROVE  0 < pods'[id].expiresAt /\ promise[id].low <= pods'[id].expiresAt
    BY <1>2 DEF PodsLeased
  <2>1. p \in PodIds
    BY <1>0 DEF SharedOK
  <2>2. \/ id = p /\ pods'[id].expiresAt = promise[p].last
        \/ Created(id) /\ pods'[id].expiresAt = pods[id].expiresAt
    BY <1>0, <1>2, <2>1, KubeCallsExpire
  <2> QED
    BY <2>2 DEF PodsLeased, PromisesOrdered
<1>3. ASSUME NEW r \in Requests, RequestStep(r) PROVE PodsLeased'
  <2>1. CASE UNCHANGED kube
    BY <1>1, <1>K, <2>1
  <2>2. UNCHANGED promise
    BY <1>3 DEF RequestStep, ClaimWarm, ClaimNothing, ClaimInfo, ClaimRemap, ClaimSetIP, ClaimDone,
           ColdCreate, ColdCreateFails, CreateRollback, DeletePod, DeletePodFails, DeleteForget,
           DeleteDisconnect, DeleteStop, DeleteRemove, history
  <2>3. requests[r].pc # "idle" => requests[r].id \in issued /\ requests[r].id \in PodIds
    BY <1>0 DEF RequestsOK, RequestSlots, SharedOK
  <2>4. CASE ColdCreate(r) \/ ColdCreateFails(r)
    BY <1>2, <2>1, <2>2, <2>3, <2>4 DEF ColdCreate, ColdCreateFails
  <2>5. CASE DeletePod(r) \/ DeletePodFails(r)
    BY <1>0, <1>1, <2>1, <2>3, <2>5, KubeCallsExpire DEF DeletePod, DeletePodFails
  <2> QED
    BY <1>3, <2>1, <2>4, <2>5
       DEF RequestStep, ClaimWarm, ClaimNothing, ClaimInfo, ClaimRemap, ClaimSetIP, ClaimDone,
           CreateRollback, DeleteForget, DeleteDisconnect, DeleteStop, DeleteRemove
<1>4. ASSUME NEW f \in Fillers, FillStep(f) PROVE PodsLeased'
  <2>1. CASE UNCHANGED kube
    BY <1>1, <1>K, <2>1
  <2>2. ASSUME NEW warm \in WarmIds, FillCreate(f, warm) PROVE PodsLeased'
    <3>1. \A id \in SandboxIds : id # warm
      BY <1>0
    <3>2. warm \in PodIds /\ KubeCreate(warm, fills[f].key, 0) /\ UNCHANGED promise
      BY <1>4, <2>2 DEF FillCreate, FillStep, history, PodIds
    <3>3. \A id \in SandboxIds : Created(id)' => Created(id) /\ pods'[id].expiresAt = pods[id].expiresAt
      BY <1>0, <3>1, <3>2, KubeCallsExpire
    <3> QED
      BY <3>2, <3>3 DEF PodsLeased
  <2> QED
    BY <1>4, <2>1, <2>2 DEF FillStep, FillCount, FillFails
<1>5. CASE ReaperStep
  <2>1. /\ UNCHANGED kube => ExpiriesStay
        /\ \A id \in SandboxIds : KubeDelete(id) \/ KubeForceDelete(id) => ExpiriesStay
    BY <1>0, <1>K, KubeCallsExpire
  <2>2. ExpiriesStay
    BY <1>0, <1>5, <2>1
       DEF ReaperStep, ReaperTick, ReaperForces, ReaperForceFails, ReaperStops, ReaperForceForgets,
           ReaperScans, ReaperDeletes, ReaperDeleteFails, ReaperForgets, ReaperDisconnects,
           ReaperRemoves, ReaperOK, ReaperSlot
  <2> QED
    BY <1>1, <2>2
<1>6. ASSUME NEW p \in PodIds, PodStep(p) PROVE PodsLeased'
  BY <1>0, <1>1, <1>6, KubeCallsExpire DEF PodStep
<1>7. CASE Client \/ WatchLoop \/ Boot \/ Crash \/ Tick \/ UNCHANGED vars
  <2>1. UNCHANGED pods
    <3>1. CASE Client
      BY <3>1 DEF Client, CreateRequest, DeleteRequest, Keepalive, kube
    <3>2. CASE WatchLoop
      BY <3>2 DEF WatchLoop, WatchStep, WatchOpens, WatchBreaks, KubeOpenWatch, KubeDropWatch
    <3>3. CASE Boot \/ Crash \/ Tick \/ UNCHANGED vars
      BY <3>3 DEF Boot, Crash, KubeDropWatch, Tick, vars, kube
    <3> QED
      BY <1>7, <3>1, <3>2, <3>3
  <2> QED
    BY <1>0, <1>1, <2>1, KubeCallsExpire DEF ExpiriesStay, Created
<1>8. ASSUME NEW c \in Callbacks, CallbackStep(c) PROVE PodsLeased'
  BY <1>1, <1>8, <1>K DEF CallbackStep
<1> QED
  BY <1>3, <1>4, <1>5, <1>6, <1>7, <1>8 DEF Next

-------------------------------------------------------------------------------
(* The registry.                                                            *)

\* No sandbox is new to the registry and none has another expiry.
LeasesStay ==
  \A id \in Tracked' : id \in Tracked /\ sandboxes'[id].expiresAt = sandboxes[id].expiresAt

\* The setters of status and address, and Remove, move no expiry.
LEMMA ManagerCallsLease ==
  ASSUME ManagerTypeOK
  PROVE  /\ \A id, s : SetStatus(id, s) => LeasesStay
         /\ \A id, ip : SetPodIP(id, ip) => LeasesStay
         /\ \A id : Remove(id) => LeasesStay
         /\ UNCHANGED sandboxes => LeasesStay
<1> USE DEF ManagerTypeOK, IsMap, SandboxRecord, LeasesStay, Tracked
<1>1. ASSUME NEW id, NEW s, SetStatus(id, s) PROVE LeasesStay
  BY <1>1 DEF SetStatus
<1>2. ASSUME NEW id, NEW ip, SetPodIP(id, ip) PROVE LeasesStay
  BY <1>2 DEF SetPodIP
<1>3. ASSUME NEW id, Remove(id) PROVE LeasesStay
  BY <1>3 DEF Remove, Delete, Restrict
<1>4. UNCHANGED sandboxes => LeasesStay
  OBVIOUS
<1> QED
  BY <1>1, <1>2, <1>3, <1>4

\* Besides those, Create and ExtendTimeout store the expiry just promised and
\* recovery takes it from the annotation of the pod.
LEMMA SandboxesLeasedStep ==
  ASSUME TypeInv, KeyInv, PromisesOrdered, PodsLeased, SandboxesLeased, [Next]_vars
  PROVE  SandboxesLeased'
<1>0. /\ SharedOK /\ ManagerTypeOK /\ KubeTypeOK /\ now \in Nat
      /\ promise \in [SandboxIds -> [low : Nat, last : Nat]]
      /\ \A id \in Tracked : id \in issued /\ id \in SandboxIds /\ sandboxes[id].expiresAt \in Int
      /\ \A id \in SandboxIds : promise[id].low \in Int /\ promise[id].last \in Int
  BY TypeInvParts DEF SharedOK, KeyInv, SandboxesKeyed, ManagerTypeOK, IsMap, Tracked, SandboxRecord
<1>T. \A id \in SandboxIds : promise'[id].low \in Int
  <2>1. TypeInv'
    BY NextType
  <2>2. promise' \in [SandboxIds -> [low : Nat, last : Nat]]
    BY <2>1 DEF TypeInv, TypeOK
  <2> QED
    BY <2>2
<1>F. ASSUME NEW id \in issued PROVE promise'[id].low <= promise[id].low
  BY <1>F, PromisesFall
<1>S. ASSUME LeasesStay PROVE SandboxesLeased'
  <2> SUFFICES ASSUME NEW id \in Tracked'
               PROVE  promise'[id].low <= sandboxes'[id].expiresAt
    BY DEF SandboxesLeased
  <2>1. id \in Tracked /\ sandboxes'[id].expiresAt = sandboxes[id].expiresAt
    BY <1>S DEF LeasesStay
  <2>2. promise[id].low <= sandboxes[id].expiresAt
    BY <2>1 DEF SandboxesLeased
  <2> QED
    BY <1>0, <1>T, <1>F, <2>1, <2>2
<1>1. ASSUME NEW r \in Requests, NEW id \in SandboxIds, NEW key \in Keys,
             NEW timeout \in Timeouts, CreateRequest(r, id, key, timeout)
      PROVE  SandboxesLeased'
  <2>1. PICK t \in Nat : t = now + timeout
    BY <1>0, AgentAssumption
  <2>2. /\ Create(id, key, t)
        /\ promise' = [promise EXCEPT ![id] = [low |-> t, last |-> t]]
    BY <1>1, <2>1 DEF CreateRequest
  <2>3. /\ Tracked' = Tracked \cup {id} /\ sandboxes'[id].expiresAt = t
        /\ \A x \in Tracked \ {id} : sandboxes'[x] = sandboxes[x]
    BY <2>2 DEF Create, Put, Tracked
  <2>4. /\ promise'[id].low = t
        /\ \A x \in SandboxIds \ {id} : promise'[x] = promise[x]
    BY <1>0, <2>2
  <2> QED
    BY <1>0, <2>1, <2>3, <2>4 DEF SandboxesLeased
<1>2. ASSUME NEW id \in SandboxIds, Keepalive(id) PROVE SandboxesLeased'
  <2>1. PICK t \in Nat : t = now + DefaultTimeout
    BY <1>0, AgentAssumption
  <2>2. PICK low \in Nat : low = (IF promise[id].low < t THEN promise[id].low ELSE t) /\ low <= t
    <3>1. CASE promise[id].low < t
      BY <1>0, <2>1, <3>1
    <3>2. CASE ~(promise[id].low < t)
      BY <1>0, <2>1, <3>2
    <3> QED
      BY <3>1, <3>2
  <2>3. /\ ExtendTimeout(id, t)
        /\ promise' = [promise EXCEPT ![id] = [low |-> low, last |-> t]]
    BY <1>2, <2>1, <2>2 DEF Keepalive
  <2>4. /\ id \in Tracked /\ Tracked' = Tracked /\ sandboxes'[id].expiresAt = t
        /\ \A x \in Tracked \ {id} : sandboxes'[x] = sandboxes[x]
    BY <1>0, <2>3 DEF ExtendTimeout, Tracked, ManagerTypeOK, IsMap, SandboxRecord
  <2>5. /\ promise'[id].low = low
        /\ \A x \in SandboxIds \ {id} : promise'[x] = promise[x]
    BY <1>0, <2>3
  <2> QED
    BY <1>0, <2>1, <2>2, <2>4, <2>5 DEF SandboxesLeased
<1>3. CASE Client
  <2>1. ASSUME NEW r \in Requests, NEW id \in SandboxIds, DeleteRequest(r, id)
        PROVE  LeasesStay
    BY <1>0, <2>1, ManagerCallsLease DEF DeleteRequest
  <2> QED
    BY <1>1, <1>2, <1>3, <1>S, <2>1 DEF Client
<1>4. ASSUME NEW r \in Requests, RequestStep(r) PROVE LeasesStay
  BY <1>0, <1>4, ManagerCallsLease
     DEF RequestStep, ClaimWarm, ClaimNothing, ClaimInfo, ClaimRemap, ClaimSetIP, ClaimDone,
         ColdCreate, ColdCreateFails, CreateRollback, DeletePod, DeletePodFails, DeleteForget,
         DeleteDisconnect, DeleteStop, DeleteRemove
<1>5. ASSUME NEW c \in Callbacks, CallbackStep(c) PROVE LeasesStay
  BY <1>0, <1>5, ManagerCallsLease
     DEF CallbackStep, CallbackSkips, CallbackBegins, CallbackInfo, CallbackSetIP, CallbackDials,
         CallbackDialFails, CallbackStores, CallbackMarks
<1>6. ASSUME ReaperStep PROVE LeasesStay
  BY <1>0, <1>6, ManagerCallsLease
     DEF ReaperStep, ReaperTick, ReaperForces, ReaperForceFails, ReaperStops, ReaperForceForgets,
         ReaperScans, ReaperDeletes, ReaperDeleteFails, ReaperForgets, ReaperDisconnects,
         ReaperRemoves
<1>7. ASSUME NEW dialed \in SUBSET SandboxIds, Recovery(dialed), Boot PROVE SandboxesLeased'
  <2>1. UNCHANGED promise
    BY <1>7 DEF Boot, history
  <2>2. Tracked' = Recoverable
    BY <1>7 DEF Recovery, Tracked
  <2>3. ASSUME NEW id \in Recoverable
        PROVE  promise[id].low <= sandboxes'[id].expiresAt
    <3>1. /\ id \in SandboxIds /\ Created(id)
      BY <2>3 DEF Recoverable, Exists, Created
    <3>2. 0 < pods[id].expiresAt /\ promise[id].low <= pods[id].expiresAt
      BY <3>1 DEF PodsLeased
    <3>3. sandboxes'[id].expiresAt = pods[id].expiresAt
      BY <1>7, <2>3, <3>2 DEF Recovery, RecoveredRecord
    <3> QED
      BY <3>2, <3>3
  <2> QED
    BY <2>1, <2>2, <2>3 DEF SandboxesLeased
<1>8. CASE Boot
  <2>1. ASSUME RecoveryFails \/ (\E key \in Keys : BootFill(key)) \/ BootServe
        PROVE  LeasesStay
    BY <1>0, <2>1, ManagerCallsLease DEF RecoveryFails, BootFill, BootServe
  <2> QED
    BY <1>7, <1>8, <1>S, <2>1 DEF Boot
<1>9. ASSUME Crash PROVE LeasesStay
  BY <1>9 DEF Crash, EmptyMap, LeasesStay, Tracked
<1>10. ASSUME \/ \E f \in Fillers : FillStep(f)
              \/ WatchLoop
              \/ \E p \in PodIds : PodStep(p)
              \/ Tick \/ UNCHANGED vars
       PROVE  LeasesStay
  BY <1>0, <1>10, ManagerCallsLease DEF FillStep, WatchLoop, PodStep, Tick, vars, agentVars
<1> QED
  BY <1>3, <1>4, <1>5, <1>6, <1>8, <1>9, <1>10, <1>S DEF Next

-------------------------------------------------------------------------------
(* The expiry loop.                                                         *)

\* What GetExpired returns has passed the promise made for it.
LEMMA ExpiredIsDue ==
  ASSUME TypeInv, KeyInv, SandboxesLeased
  PROVE  \A id \in Expired(now) : id \in issued /\ promise[id].low < now
<1>0. /\ \A id \in Tracked : id \in issued /\ id \in SandboxIds /\ sandboxes[id].expiresAt \in Int
      /\ \A id \in SandboxIds : promise[id].low \in Int
      /\ now \in Int
  BY TypeInvParts DEF SharedOK, KeyInv, SandboxesKeyed, ManagerTypeOK, IsMap, Tracked, SandboxRecord
<1> SUFFICES ASSUME NEW id \in Tracked, now > sandboxes[id].expiresAt
             PROVE  id \in issued /\ promise[id].low < now
  BY DEF Expired
<1>1. promise[id].low <= sandboxes[id].expiresAt
  BY DEF SandboxesLeased
<1> QED
  BY <1>0, <1>1

\* The loop works through a list of such sandboxes and no other.
LEMMA ReaperLeasedStep ==
  ASSUME TypeInv, KeyInv, PromisesOrdered, SandboxesLeased, ReaperLeased, [Next]_vars
  PROVE  ReaperLeased'
<1>0. /\ reaper \in ReaperRecord /\ now \in Nat /\ issued \subseteq SandboxIds
      /\ \A id \in SandboxIds : promise[id].low \in Int
  BY TypeInvParts DEF SharedOK, ReaperOK
<1>T. (\A id \in SandboxIds : promise'[id].low \in Int) /\ now' \in Nat
  <2>1. TypeInv'
    BY NextType
  <2> QED
    BY <2>1 DEF TypeInv, TypeOK
<1>F. ASSUME NEW id \in issued PROVE promise'[id].low <= promise[id].low
  BY <1>F, PromisesFall
<1>I. issued \subseteq issued'
  BY StepsStay
<1>S. ASSUME UNCHANGED reaper, now <= now' PROVE ReaperLeased'
  <2>1. ASSUME NEW id \in reaper.todo PROVE id \in issued' /\ promise'[id].low < now'
    <3>1. id \in issued /\ promise[id].low < now
      BY <2>1 DEF ReaperLeased
    <3> QED
      BY <1>0, <1>T, <1>F, <1>I, <1>S, <3>1
  <2> QED
    BY <1>S, <2>1 DEF ReaperLeased
<1>1. CASE ReaperStep
  <2>1. UNCHANGED <<issued, promise>> /\ now' = now
    BY <1>1 DEF ReaperStep, history, ReaperTick, ReaperForces, ReaperForceFails, ReaperStops,
           ReaperForceForgets, ReaperScans, ReaperDeletes, ReaperDeleteFails, ReaperForgets,
           ReaperDisconnects, ReaperRemoves, bounds, Spend
  <2>2. \A id \in reaper.todo : id \in issued /\ promise[id].low < now
    BY DEF ReaperLeased
  <2>3. reaper.pc \in {"idle", "force", "reap"} => reaper.id = None
    BY DEF ReaperLeased, Reaping
  <2>4. reaper.pc \in Reaping => reaper.id \in reaper.todo
    BY DEF ReaperLeased
  <2>5. ASSUME NEW due \in SUBSET pendingDeletes, ReaperTick(due)
        PROVE  ReaperLeased'
    BY <1>0, <2>1, <2>2, <2>3, <2>5 DEF ReaperTick, ReaperLeased, Reaping, ReaperRecord
  <2>6. ASSUME NEW id \in SandboxIds, ReaperForces(id)
        PROVE  ReaperLeased'
    BY <1>0, <2>1, <2>2, <2>6 DEF ReaperForces, ReaperLeased, Reaping, ReaperRecord
  <2>7. ASSUME NEW id \in SandboxIds, ReaperForceFails(id)
        PROVE  ReaperLeased'
    BY <1>0, <2>1, <2>2, <2>3, <2>7 DEF ReaperForceFails, ReaperLeased, Reaping, ReaperRecord
  <2>8. ASSUME NEW id \in SandboxIds, ReaperStops(id)
        PROVE  ReaperLeased'
    BY <1>0, <2>1, <2>2, <2>8 DEF ReaperStops, ReaperLeased, Reaping, ReaperRecord
  <2>9. CASE ReaperForceForgets
    BY <1>0, <2>1, <2>2, <2>9 DEF ReaperForceForgets, ReaperLeased, Reaping, ReaperRecord
  <2>10. CASE ReaperScans
    BY <1>0, <2>1, <2>10, ExpiredIsDue DEF ReaperScans, ReaperLeased, Reaping, NoReaping
  <2>11. CASE ReaperDeletes \/ ReaperDeleteFails \/ ReaperForgets \/ ReaperDisconnects
    BY <1>0, <2>1, <2>2, <2>4, <2>11
       DEF ReaperDeletes, ReaperDeleteFails, ReaperForgets, ReaperDisconnects, ReaperLeased,
           Reaping, ReaperRecord
  <2>12. CASE ReaperRemoves
    BY <1>0, <2>1, <2>2, <2>12 DEF ReaperRemoves, ReaperLeased, Reaping, NoReaping
  <2> QED
    BY <1>1, <2>5, <2>6, <2>7, <2>8, <2>9, <2>10, <2>11, <2>12 DEF ReaperStep
<1>2. CASE Crash
  BY <1>2 DEF Crash, NoReaping, ReaperLeased, Reaping
<1>3. CASE Tick
  BY <1>0, <1>3, <1>S DEF Tick, agentVars, reaping
<1>4. ASSUME NEW r \in Requests, RequestStep(r) PROVE ReaperLeased'
  BY <1>0, <1>4, <1>S
     DEF RequestStep, ClaimWarm, ClaimNothing, ClaimInfo, ClaimRemap, ClaimSetIP, ClaimDone,
         ColdCreate, ColdCreateFails, CreateRollback, DeletePod, DeletePodFails, DeleteForget,
         DeleteDisconnect, DeleteStop, DeleteRemove, bounds, Spend, reaping
<1>5. ASSUME NEW c \in Callbacks, CallbackStep(c) PROVE ReaperLeased'
  BY <1>0, <1>5, <1>S
     DEF CallbackStep, CallbackSkips, CallbackBegins, CallbackInfo, CallbackSetIP, CallbackDials,
         CallbackDialFails, CallbackStores, CallbackMarks, bounds, Spend, reaping
<1>6. ASSUME NEW f \in Fillers, FillStep(f) PROVE ReaperLeased'
  BY <1>0, <1>6, <1>S DEF FillStep, FillCount, FillCreate, FillFails, bounds, Spend, reaping
<1>7. CASE Client \/ WatchLoop
  <2>1. UNCHANGED reaper
    BY <1>7 DEF Client, WatchLoop, reaping
  <2>2. CASE Client
    <3>1. now' = now
      BY <2>2 DEF Client, CreateRequest, DeleteRequest, Keepalive, bounds
    <3> QED
      BY <1>0, <1>S, <2>1, <3>1
  <2>3. CASE WatchLoop
    BY <1>0, <1>S, <2>1, <2>3 DEF WatchLoop, WatchStep, WatchOpens, WatchBreaks, bounds, Spend
  <2> QED
    BY <1>7, <2>2, <2>3
<1>8. CASE Boot \/ UNCHANGED vars
  <2>1. UNCHANGED reaper
    BY <1>8 DEF Boot, vars, reaping
  <2>2. now' = now
    BY <1>8 DEF Boot, Recovery, RecoveryFails, BootFill, BootServe, vars, bounds, Spend
  <2> QED
    BY <1>0, <1>S, <2>1, <2>2
<1>9. ASSUME NEW p \in PodIds, PodStep(p) PROVE ReaperLeased'
  BY <1>0, <1>9, <1>S DEF PodStep, bounds, Spend, agentVars, reaping
<1> QED
  BY <1>1, <1>2, <1>3, <1>4, <1>5, <1>6, <1>7, <1>8, <1>9 DEF Next

-------------------------------------------------------------------------------
\* Nothing has been promised and no pod carries an expiry at first.
LEMMA LeaseInit == Init => LeaseInv
<1> SUFFICES ASSUME Init PROVE LeaseInv
  OBVIOUS
<1>1. /\ Tracked = {} /\ issued = {} /\ reaper = NoReaping
      /\ \A p \in PodIds : ~Created(p)
  BY DEF Init, ManagerInit, KubeInit, Uncreated, Tracked, EmptyMap, Created
<1> QED
  BY <1>1 DEF LeaseInv, SandboxesLeased, PodsLeased, PromisesOrdered, ReaperLeased, Reaping,
              NoReaping, PodIds

\* Every expiry the agent works from, in the registry, in the annotations of
\* the pods or on the loop's list, is one that was promised, or a later one.
LEMMA LeasesHold == Spec => []LeaseInv
<1>1. TypeInv /\ KeyInv /\ LeaseInv /\ [Next]_vars => LeaseInv'
  <2> SUFFICES ASSUME TypeInv, KeyInv, LeaseInv, [Next]_vars PROVE LeaseInv'
    OBVIOUS
  <2>1. SandboxesLeased /\ PodsLeased /\ PromisesOrdered /\ ReaperLeased
    BY DEF LeaseInv
  <2> QED
    BY <2>1, PromisesFall, PodsLeasedStep, SandboxesLeasedStep, ReaperLeasedStep DEF LeaseInv
<1> QED
  BY <1>1, LeaseInit, TypeCorrect, KeysAgree, PTL DEF Spec

\* The expiry loop takes no sandbox before the earliest expiry its clients
\* were told (main.go:129-180 with http.go:433-448 and manager.go:126-139).
THEOREM ExpiryIsHonoured == Spec => []ReapsOnlyExpired
<1>1. TypeInv /\ LeaseInv => ReapsOnlyExpired
  <2> SUFFICES ASSUME TypeInv, LeaseInv, reaper.id # None, reaper.pc # "forceforget"
               PROVE  now > promise[reaper.id].low
    BY DEF ReapsOnlyExpired
  <2>1. reaper.id \in reaper.todo
    BY DEF LeaseInv, ReaperLeased
  <2>2. reaper.id \in issued /\ promise[reaper.id].low < now
    BY <2>1 DEF LeaseInv, ReaperLeased
  <2>3. promise[reaper.id].low \in Int /\ now \in Int
    BY <2>2, TypeInvParts DEF SharedOK
  <2> QED
    BY <2>2, <2>3
<1> QED
  BY <1>1, LeasesHold, TypeCorrect, PTL
===============================================================================
