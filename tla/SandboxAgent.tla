----------------------------- MODULE SandboxAgent -----------------------------
(***************************************************************************)
(* The agent process as a whole: HTTP handlers, the onReady goroutines the *)
(* watch loop starts, the goroutines that fill the warm pool, the expiry   *)
(* loop, start-up and crashes, all sharing the registry (SandboxManager),  *)
(* the pod cache (PodManager), the warm pool (WarmPool), the sidecar       *)
(* connections and the cluster (KubePods).                                 *)
(*                                                                         *)
(* A goroutine takes one step per critical section or API call.  Requests, *)
(* Callbacks and Fillers are slots: they bound how many goroutines of each *)
(* kind run at once.  Limit bounds the disturbances of each kind, MaxNow   *)
(* the clock.                                                              *)
(***************************************************************************)
EXTENDS WarmPool

CONSTANTS
  Requests,        \* slots of HTTP handlers
  Callbacks,       \* slots of onReady goroutines
  Fillers, Main,   \* slots of fill; Main is the one main.go runs itself
  Timeouts,        \* lifetimes a create may ask for, after clamping
  DefaultTimeout,  \* what keepalive grants from now
  MaxNow,          \* bound of the clock
  Operations,      \* which requests clients send
  Limit            \* kind of disturbance -> how many may happen

Disturbances == {"restart", "rewatch", "flap", "evict", "fault"}

ASSUME AgentAssumption ==
  /\ IsFiniteSet(PodIds)
  /\ None \notin Keys
  /\ Keys # {}
  /\ Main \in Fillers
  /\ Timeouts \subseteq Nat \ {0}
  /\ DefaultTimeout \in Nat \ {0}
  /\ MaxNow \in Nat
  /\ Operations \subseteq {"create", "delete", "keepalive"}
  /\ Limit \in [Disturbances -> Nat]

VARIABLES
  agent,      \* "down", "filling" (main.go before it listens) or "serving"
  unfilled,   \* pools Start has still to fill
  conns,      \* WSProxy.conns: sandbox id -> pod it is connected to
  requests,   \* HTTP handlers in progress
  callbacks,  \* onReady goroutines
  fills,      \* fill in progress
  reaper,     \* the expiry loop
  pendingDeletes, \* ids whose DeletePod failed in the expiry loop
  now,        \* the clock
  spent,      \* disturbances so far
  issued,     \* history: sandbox ids given out
  marks,      \* history: warm id -> how often MarkReady added it
  promise     \* history: id -> the earliest and the last ExpiresAt that the
              \* Sandbox Create made for it has had, even after a Remove

kube == <<pods, watching, events>>
bounds == <<now, spent>>
history == <<issued, marks, promise>>
control == <<agent, unfilled>>
reaping == <<reaper, pendingDeletes>>

vars == <<sandboxes, kube, cache, pool, conns, control, requests, callbacks,
          fills, reaping, bounds, history>>

-------------------------------------------------------------------------------
NoRequest == [pc |-> "idle", id |-> None, key |-> None, warm |-> None, ip |-> None]
NoCallback == [pc |-> "idle", id |-> None, ip |-> None, key |-> None]
NoFill == [pc |-> "idle", key |-> None, left |-> 0]
NoReaping == [pc |-> "idle", force |-> {}, todo |-> {}, id |-> None]

RequestRecord ==
  [pc : {"idle", "claim", "info", "remap", "setip", "setrunning", "create",
         "rollback", "delete", "forget", "disconnect", "stop", "remove"},
   id : SandboxIds \cup {None}, key : Keys \cup {None},
   warm : WarmIds \cup {None}, ip : PodIds \cup {None}]

CallbackRecord ==
  [pc : {"idle", "begin", "info", "setip", "dial", "store", "mark"},
   id : PodIds \cup {None}, ip : PodIds \cup {None}, key : Keys \cup {None}]

FillRecord ==
  [pc : {"idle", "count", "create"}, key : Keys \cup {None}, left : Nat]

ReaperRecord ==
  [pc : {"idle", "force", "forceforget", "reap", "delete", "forget",
         "disconnect", "remove"},
   force : SUBSET SandboxIds, todo : SUBSET SandboxIds,
   id : SandboxIds \cup {None}]

TypeOK ==
  /\ ManagerTypeOK /\ KubeTypeOK /\ CacheTypeOK /\ PoolTypeOK
  /\ agent \in {"down", "filling", "serving"}
  /\ unfilled \subseteq Keys
  /\ IsMap(conns, PodIds, PodIds \cup {None})
  /\ requests \in [Requests -> RequestRecord]
  /\ callbacks \in [Callbacks -> CallbackRecord]
  /\ fills \in [Fillers -> FillRecord]
  /\ reaper \in ReaperRecord
  /\ pendingDeletes \subseteq SandboxIds
  /\ now \in Nat
  /\ spent \in [Disturbances -> Nat]
  /\ issued \subseteq SandboxIds
  /\ marks \in [WarmIds -> Nat]
  /\ promise \in [SandboxIds -> [low : Nat, last : Nat]]

Init ==
  /\ ManagerInit /\ KubeInit /\ CacheInit /\ PoolInit
  /\ agent = "down"
  /\ unfilled = {}
  /\ conns = EmptyMap
  /\ requests = [r \in Requests |-> NoRequest]
  /\ callbacks = [c \in Callbacks |-> NoCallback]
  /\ fills = [f \in Fillers |-> NoFill]
  /\ reaper = NoReaping
  /\ pendingDeletes = {}
  /\ now = 0
  /\ spent = [d \in Disturbances |-> 0]
  /\ issued = {}
  /\ marks = [w \in WarmIds |-> 0]
  /\ promise = [id \in SandboxIds |-> [low |-> 0, last |-> 0]]

\* One more disturbance of kind d.
Spend(d) ==
  /\ spent[d] < Limit[d]
  /\ spent' = [spent EXCEPT ![d] = @ + 1]
  /\ UNCHANGED now

\* The next step, and the end, of a handler and of a callback.
Goto(r, pc) == requests' = [requests EXCEPT ![r].pc = pc]
Respond(r) == requests' = [requests EXCEPT ![r] = NoRequest]
Return(c) == callbacks' = [callbacks EXCEPT ![c] = NoCallback]

-------------------------------------------------------------------------------
(* POST /sandboxes: handleCreateSandbox and provisionSandboxPod.            *)

CreateRequest(r, id, key, timeout) ==
  /\ agent = "serving" /\ "create" \in Operations
  /\ requests[r].pc = "idle"
  /\ id \notin issued
  /\ Create(id, key, now + timeout)
  /\ issued' = issued \cup {id}
  /\ promise' = [promise EXCEPT ![id] = [low |-> now + timeout, last |-> now + timeout]]
  /\ requests' = [requests EXCEPT ![r] = [NoRequest EXCEPT !.pc = "claim",
                                                           !.id = id, !.key = key]]
  /\ UNCHANGED <<kube, cache, pool, conns, fills, bounds, marks>>

ClaimWarm(r, warm) ==
  /\ requests[r].pc = "claim"
  /\ ClaimHit(requests[r].key, warm)
  /\ requests' = [requests EXCEPT ![r].pc = "info", ![r].warm = warm]
  /\ UNCHANGED <<sandboxes, kube, cache, conns, fills, bounds, history>>

ClaimNothing(r) ==
  /\ requests[r].pc = "claim"
  /\ ClaimMisses(requests[r].key)
  /\ Goto(r, "create")
  /\ UNCHANGED <<sandboxes, kube, cache, pool, conns, fills, bounds, history>>

\* GetPodInfo of the claimed id; when its entry is gone by now the claimed
\* pod is dropped and a fresh one is created.
ClaimInfo(r) ==
  /\ requests[r].pc = "info"
  /\ LET warm == requests[r].warm IN
     requests' = IF warm \in Cached
       THEN [requests EXCEPT ![r].pc = "remap", ![r].ip = Address(cache[warm])]
       ELSE [requests EXCEPT ![r].pc = "create"]
  /\ UNCHANGED <<sandboxes, kube, cache, pool, conns, fills, bounds, history>>

ClaimRemap(r) ==
  /\ requests[r].pc = "remap"
  /\ RemapPod(requests[r].warm, requests[r].id)
  /\ Goto(r, "setip")
  /\ UNCHANGED <<sandboxes, kube, pool, conns, fills, bounds, history>>

ClaimSetIP(r) ==
  /\ requests[r].pc = "setip"
  /\ SetPodIP(requests[r].id, requests[r].ip)
  /\ Goto(r, "setrunning")
  /\ UNCHANGED <<kube, cache, pool, conns, fills, bounds, history>>

\* Replenish: a fill in a goroutine of its own, which returns at once when
\* the pool of this key has no target.
StartFill(key) ==
  IF Target[key] = 0 THEN UNCHANGED fills
  ELSE \E f \in Fillers \ {Main} :
         /\ fills[f].pc = "idle"
         /\ fills' = [fills EXCEPT ![f] = [NoFill EXCEPT !.pc = "count", !.key = key]]

\* Mutant: the handler goes on to CreatePod after a successful claim.
ClaimDone_NoReturn(r) ==
  /\ requests[r].pc = "setrunning"
  /\ SetStatus(requests[r].id, "running")
  /\ StartFill(requests[r].key)
  /\ Goto(r, "create")
  /\ UNCHANGED <<kube, cache, pool, conns, bounds, history>>

ClaimDone(r) ==
  /\ requests[r].pc = "setrunning"
  /\ SetStatus(requests[r].id, "running")
  /\ StartFill(requests[r].key)
  /\ Respond(r)
  /\ UNCHANGED <<kube, cache, pool, conns, bounds, history>>

\* CreatePod.  The expiry it writes into the annotations is read through the
\* handler's pointer to the Sandbox: the last one set, even after a Remove.
ColdCreate(r) ==
  /\ requests[r].pc = "create"
  /\ KubeCreate(requests[r].id, requests[r].key, promise[requests[r].id].last)
  /\ Respond(r)
  /\ UNCHANGED <<sandboxes, cache, pool, conns, fills, bounds, history>>

\* CreatePod returns an error; when the call was cut off (r.Context() ends
\* with the client's connection) the pod may exist all the same.
ColdCreateFails(r) ==
  /\ requests[r].pc = "create"
  /\ Spend("fault")
  /\ \/ KubeCreate(requests[r].id, requests[r].key, promise[requests[r].id].last)
     \/ UNCHANGED kube
  /\ Goto(r, "rollback")
  /\ UNCHANGED <<sandboxes, cache, pool, conns, fills, history>>

CreateRollback(r) ==
  /\ requests[r].pc = "rollback"
  /\ Remove(requests[r].id)
  /\ Respond(r)
  /\ UNCHANGED <<kube, cache, pool, conns, fills, bounds, history>>

-------------------------------------------------------------------------------
(* DELETE /sandboxes/{id}: handleDeleteSandbox.  The handler does not look  *)
(* the id up first; List shows an id to clients from Create on.             *)

DeleteRequest(r, id) ==
  /\ agent = "serving" /\ "delete" \in Operations
  /\ requests[r].pc = "idle"
  /\ id \in issued
  /\ requests' = [requests EXCEPT ![r] = [NoRequest EXCEPT !.pc = "delete", !.id = id]]
  /\ UNCHANGED <<sandboxes, kube, cache, pool, conns, fills, bounds, history>>

\* DeletePod deletes "sbx-" + id and touches the cache only on success.
\* NotFound counts as deleted.
DeletePod(r) ==
  /\ requests[r].pc = "delete"
  /\ LET id == requests[r].id IN
     \/ /\ KubeDelete(id)
        /\ Goto(r, "forget")
     \/ /\ ~Exists(id)
        /\ Goto(r, "disconnect")
        /\ UNCHANGED kube
  /\ UNCHANGED <<sandboxes, cache, pool, conns, fills, bounds, history>>

\* Any other error is a 500, with or without the pod deleted.
DeletePodFails(r) ==
  /\ requests[r].pc = "delete"
  /\ Spend("fault")
  /\ KubeDelete(requests[r].id) \/ UNCHANGED kube
  /\ Respond(r)
  /\ UNCHANGED <<sandboxes, cache, pool, conns, fills, history>>

DeleteForget(r) ==
  /\ requests[r].pc = "forget"
  /\ Forget(requests[r].id)
  /\ Goto(r, "disconnect")
  /\ UNCHANGED <<sandboxes, kube, pool, conns, fills, bounds, history>>

DeleteDisconnect(r) ==
  /\ requests[r].pc = "disconnect"
  /\ conns' = Delete(conns, requests[r].id)
  /\ Goto(r, "stop")
  /\ UNCHANGED <<sandboxes, kube, cache, pool, fills, bounds, history>>

DeleteStop(r) ==
  /\ requests[r].pc = "stop"
  /\ SetStatus(requests[r].id, "stopped")
  /\ Goto(r, "remove")
  /\ UNCHANGED <<kube, cache, pool, conns, fills, bounds, history>>

DeleteRemove(r) ==
  /\ requests[r].pc = "remove"
  /\ Remove(requests[r].id)
  /\ Respond(r)
  /\ UNCHANGED <<kube, cache, pool, conns, fills, bounds, history>>

-------------------------------------------------------------------------------
\* POST /sandboxes/{id}/keepalive: one critical section, and only in memory.
Keepalive(id) ==
  /\ agent = "serving" /\ "keepalive" \in Operations
  /\ ExtendTimeout(id, now + DefaultTimeout)
  /\ promise' = [promise EXCEPT ![id] =
                   [low |-> IF @.low < now + DefaultTimeout THEN @.low
                            ELSE now + DefaultTimeout,
                    last |-> now + DefaultTimeout]]
  /\ UNCHANGED <<kube, cache, pool, conns, requests, fills, bounds, issued,
                 marks>>

-------------------------------------------------------------------------------
(* The watch loop and the onReady goroutines it starts (watchPods, main.go). *)

\* Receive one event; on a transition to ready, start a goroutine.
WatchStep ==
  /\ watching
  /\ events # <<>>
  /\ Observe(Head(events))
  /\ events' = Tail(events)
  /\ IF Announces(Head(events))
     THEN \E c \in Callbacks :
            /\ callbacks[c].pc = "idle"
            /\ callbacks' = [callbacks EXCEPT ![c] =
                 [NoCallback EXCEPT !.pc = "begin", !.id = Head(events).pod]]
     ELSE UNCHANGED callbacks
  /\ UNCHANGED <<pods, watching, bounds>>

WatchOpens ==
  /\ agent # "down"
  /\ ~watching
  /\ KubeOpenWatch
  /\ UNCHANGED <<cache, callbacks, bounds>>

WatchBreaks ==
  /\ watching
  /\ Spend("rewatch")
  /\ KubeDropWatch
  /\ UNCHANGED <<cache, callbacks>>

\* An id that is in the pool already needs nothing.
CallbackSkips(c) ==
  /\ callbacks[c].pc = "begin"
  /\ IsWarm(callbacks[c].id)
  /\ Return(c)
  /\ UNCHANGED <<sandboxes, pool, conns, bounds, history>>

\* Any other id with the "warm-" prefix is on its way into the pool; the
\* rest are sandboxes, which are running from now on.
CallbackBegins(c) ==
  /\ callbacks[c].pc = "begin"
  /\ ~IsWarm(callbacks[c].id)
  /\ IF callbacks[c].id \in WarmIds THEN UNCHANGED sandboxes
     ELSE SetStatus(callbacks[c].id, "running")
  /\ callbacks' = [callbacks EXCEPT ![c].pc = "info"]
  /\ UNCHANGED <<pool, conns, bounds, history>>

\* Mutant: every warm pod goes into the pool of one fixed key.
CallbackInfo_FixedPool(c) ==
  /\ callbacks[c].pc = "info"
  /\ LET id == callbacks[c].id IN
     callbacks' = [callbacks EXCEPT ![c] =
       IF id \notin Cached THEN NoCallback
       ELSE [pc |-> IF id \in WarmIds THEN "dial" ELSE "setip", id |-> id,
             ip |-> Address(cache[id]), key |-> CHOOSE k \in Keys : TRUE]]
  /\ UNCHANGED <<sandboxes, pool, conns, bounds, history>>

\* GetPodInfo; PoolKeyFor of its labels is the key the pod will go under.
CallbackInfo(c) ==
  /\ callbacks[c].pc = "info"
  /\ LET id == callbacks[c].id IN
     callbacks' = [callbacks EXCEPT ![c] =
       IF id \notin Cached THEN NoCallback
       ELSE [pc |-> IF id \in WarmIds THEN "dial" ELSE "setip", id |-> id,
             ip |-> Address(cache[id]), key |-> cache[id].key]]
  /\ UNCHANGED <<sandboxes, pool, conns, bounds, history>>

CallbackSetIP(c) ==
  /\ callbacks[c].pc = "setip"
  /\ SetPodIP(callbacks[c].id, callbacks[c].ip)
  /\ callbacks' = [callbacks EXCEPT ![c].pc = "dial"]
  /\ UNCHANGED <<pool, conns, bounds, history>>

\* The sidecar can be reached only while its pod exists.
Reachable(ip) == ip # None /\ Exists(ip)

CallbackDials(c) ==
  /\ callbacks[c].pc = "dial"
  /\ Reachable(callbacks[c].ip)
  /\ callbacks' = [callbacks EXCEPT ![c].pc = "store"]
  /\ UNCHANGED <<sandboxes, pool, conns, bounds, history>>

\* Nothing dials again: a warm pod that could not be reached is left out.
CallbackDialFails(c) ==
  /\ callbacks[c].pc = "dial"
  /\ IF Reachable(callbacks[c].ip) THEN Spend("fault") ELSE UNCHANGED bounds
  /\ Return(c)
  /\ UNCHANGED <<sandboxes, pool, conns, history>>

CallbackStores(c) ==
  /\ callbacks[c].pc = "store"
  /\ conns' = Put(conns, callbacks[c].id, callbacks[c].ip)
  /\ callbacks' = IF callbacks[c].id \in WarmIds
                  THEN [callbacks EXCEPT ![c].pc = "mark"]
                  ELSE [callbacks EXCEPT ![c] = NoCallback]
  /\ UNCHANGED <<sandboxes, pool, bounds, history>>

CallbackMarks(c) ==
  /\ callbacks[c].pc = "mark"
  /\ MarkReady(callbacks[c].id, callbacks[c].key)
  /\ marks' = [marks EXCEPT ![callbacks[c].id] = @ + 1]
  /\ Return(c)
  /\ UNCHANGED <<sandboxes, conns, bounds, issued, promise>>

-------------------------------------------------------------------------------
(* WarmPool.fill, run by main.go at start-up and after every claim.         *)

\* The count is taken under the lock; the pods are created after it.
FillCount(f) ==
  /\ fills[f].pc = "count"
  /\ LET needed == Needed(fills[f].key) IN
     fills' = IF needed = 0 THEN [fills EXCEPT ![f] = NoFill]
              ELSE [fills EXCEPT ![f] = [pc |-> "create", key |-> @.key, left |-> needed]]
  /\ UNCHANGED <<kube, bounds>>

FillCreate(f, warm) ==
  /\ fills[f].pc = "create"
  /\ KubeCreate(warm, fills[f].key, 0)
  /\ fills' = IF fills[f].left = 1 THEN [fills EXCEPT ![f] = NoFill]
              ELSE [fills EXCEPT ![f].left = @ - 1]
  /\ UNCHANGED bounds

\* The first error ends the fill.  WarmIds running out stands for the
\* namespace quota.
FillFails(f) ==
  /\ fills[f].pc = "create"
  /\ IF \E w \in WarmIds : pods[w].phase = "none" THEN Spend("fault")
     ELSE UNCHANGED bounds
  /\ fills' = [fills EXCEPT ![f] = NoFill]
  /\ UNCHANGED kube

-------------------------------------------------------------------------------
(* The expiry loop of main.go, every 10 seconds.                            *)

\* A tick finds work: deletes that failed more than 30 seconds ago (`due'),
\* or expired sandboxes.  A tick that finds neither changes nothing.
ReaperTick(due) ==
  /\ agent # "down"
  /\ reaper.pc = "idle"
  /\ due \subseteq pendingDeletes
  /\ due # {} \/ Expired(now) # {}
  /\ reaper' = [reaper EXCEPT !.pc = "force", !.force = due]
  /\ UNCHANGED <<sandboxes, kube, cache, conns, pendingDeletes, bounds>>

ReaperForces(id) ==
  /\ reaper.pc = "force"
  /\ id \in reaper.force
  /\ KubeForceDelete(id)
  /\ reaper' = [reaper EXCEPT !.pc = "forceforget", !.id = id]
  /\ UNCHANGED <<sandboxes, cache, conns, pendingDeletes, bounds>>

\* A failed force delete is only logged: the id is dropped either way.
ReaperForceFails(id) ==
  /\ reaper.pc = "force"
  /\ id \in reaper.force
  /\ IF Exists(id) THEN Spend("fault") ELSE UNCHANGED bounds
  /\ reaper' = [reaper EXCEPT !.force = @ \ {id}]
  /\ pendingDeletes' = pendingDeletes \ {id}
  /\ UNCHANGED <<sandboxes, kube, cache, conns>>

ReaperForceForgets ==
  /\ reaper.pc = "forceforget"
  /\ Forget(reaper.id)
  /\ reaper' = [reaper EXCEPT !.pc = "force", !.force = @ \ {reaper.id}, !.id = None]
  /\ pendingDeletes' = pendingDeletes \ {reaper.id}
  /\ UNCHANGED <<sandboxes, kube, conns, bounds>>

\* GetExpired, once for the whole pass.
ReaperScans ==
  /\ reaper.pc = "force"
  /\ reaper.force = {}
  /\ reaper' = IF Expired(now) = {} THEN NoReaping
               ELSE [NoReaping EXCEPT !.pc = "reap", !.todo = Expired(now)]
  /\ UNCHANGED <<sandboxes, kube, cache, conns, pendingDeletes, bounds>>

ReaperStops(id) ==
  /\ reaper.pc = "reap"
  /\ id \in reaper.todo
  /\ SetStatus(id, "stopping")
  /\ reaper' = [reaper EXCEPT !.pc = "delete", !.id = id]
  /\ UNCHANGED <<kube, cache, conns, pendingDeletes, bounds>>

ReaperDeletes ==
  /\ reaper.pc = "delete"
  /\ KubeDelete(reaper.id)
  /\ reaper' = [reaper EXCEPT !.pc = "forget"]
  /\ UNCHANGED <<sandboxes, cache, conns, pendingDeletes, bounds>>

\* Mutant: an error leaves the sandbox for the next tick.
ReaperDeleteFails_Continue ==
  /\ reaper.pc = "delete"
  /\ \/ ~Exists(reaper.id) /\ UNCHANGED <<bounds, kube>>
     \/ Spend("fault") /\ (KubeDelete(reaper.id) \/ UNCHANGED kube)
  /\ reaper' = NoReaping
  /\ UNCHANGED <<sandboxes, cache, conns, pendingDeletes>>

\* Any error, NotFound included, queues the id for a force delete.
ReaperDeleteFails ==
  /\ reaper.pc = "delete"
  /\ \/ ~Exists(reaper.id) /\ UNCHANGED <<bounds, kube>>
     \/ Spend("fault") /\ (KubeDelete(reaper.id) \/ UNCHANGED kube)
  /\ reaper' = [reaper EXCEPT !.pc = "disconnect"]
  /\ pendingDeletes' = pendingDeletes \cup {reaper.id}
  /\ UNCHANGED <<sandboxes, cache, conns>>

ReaperForgets ==
  /\ reaper.pc = "forget"
  /\ Forget(reaper.id)
  /\ reaper' = [reaper EXCEPT !.pc = "disconnect"]
  /\ UNCHANGED <<sandboxes, kube, conns, pendingDeletes, bounds>>

ReaperDisconnects ==
  /\ reaper.pc = "disconnect"
  /\ conns' = Delete(conns, reaper.id)
  /\ reaper' = [reaper EXCEPT !.pc = "remove"]
  /\ UNCHANGED <<sandboxes, kube, cache, pendingDeletes, bounds>>

ReaperRemoves ==
  /\ reaper.pc = "remove"
  /\ Remove(reaper.id)
  /\ reaper' = IF reaper.todo = {reaper.id} THEN NoReaping
               ELSE [NoReaping EXCEPT !.pc = "reap", !.todo = reaper.todo \ {reaper.id}]
  /\ UNCHANGED <<kube, cache, conns, pendingDeletes, bounds>>

-------------------------------------------------------------------------------
(* Start-up and the end of the agent process (main.go).                     *)

\* RecoverExistingPods and the loop over what it returns.  Nothing else of
\* the agent runs yet.  `dialed' are the sidecars that answered.
Recovery(dialed) ==
  /\ agent = "down"
  /\ dialed \subseteq {id \in Recoverable : pods[id].ready}
  /\ RecoverCache
  /\ sandboxes' = [id \in Recoverable |->
       RecoveredRecord(pods[id].key, IF pods[id].ip THEN id ELSE None,
                       IF pods[id].expiresAt = 0 THEN now + DefaultTimeout
                       ELSE pods[id].expiresAt,
                       pods[id].ready)]
  /\ conns' = [id \in dialed |-> id]
  /\ agent' = "filling"
  /\ unfilled' = {k \in Keys : Target[k] > 0}
  /\ UNCHANGED <<fills, bounds>>

\* The listing failed: a warning, and the agent goes on with nothing.
RecoveryFails ==
  /\ agent = "down"
  /\ Spend("fault")
  /\ agent' = "filling"
  /\ unfilled' = {k \in Keys : Target[k] > 0}
  /\ UNCHANGED <<sandboxes, cache, conns, fills>>

\* WarmPool.Start fills one pool after the other ...
BootFill(key) ==
  /\ agent = "filling"
  /\ fills[Main].pc = "idle"
  /\ key \in unfilled
  /\ fills' = [fills EXCEPT ![Main] = [NoFill EXCEPT !.pc = "count", !.key = key]]
  /\ unfilled' = unfilled \ {key}
  /\ UNCHANGED <<sandboxes, cache, conns, agent, bounds>>

\* ... before the HTTP server listens.
BootServe ==
  /\ agent = "filling"
  /\ fills[Main].pc = "idle"
  /\ unfilled = {}
  /\ agent' = "serving"
  /\ UNCHANGED <<sandboxes, cache, conns, unfilled, fills, bounds>>

\* The process ends, by a crash or a rollout, and all its memory with it.
Crash ==
  /\ agent # "down"
  /\ Spend("restart")
  /\ agent' = "down"
  /\ unfilled' = {}
  /\ sandboxes' = EmptyMap
  /\ cache' = EmptyMap
  /\ pool' = [k \in Keys |-> <<>>]
  /\ conns' = EmptyMap
  /\ requests' = [r \in Requests |-> NoRequest]
  /\ callbacks' = [c \in Callbacks |-> NoCallback]
  /\ fills' = [f \in Fillers |-> NoFill]
  /\ reaper' = NoReaping
  /\ pendingDeletes' = {}
  /\ KubeDropWatch
  /\ UNCHANGED history

-------------------------------------------------------------------------------
(* The cluster and the clock.                                               *)

agentVars == <<sandboxes, cache, pool, conns, control, requests, callbacks,
               fills, reaping, history>>

PodStep(p) ==
  /\ \/ PodBecomesReady(p) /\ UNCHANGED bounds
     \/ pods[p].phase = "deleting" /\ PodGone(p) /\ UNCHANGED bounds
     \/ pods[p].phase = "live" /\ PodGone(p) /\ Spend("evict")
     \/ PodLosesReadiness(p) /\ Spend("flap")
     \/ PodTouched(p) /\ Spend("flap")
  /\ UNCHANGED agentVars

Tick ==
  /\ now < MaxNow
  /\ now' = now + 1
  /\ UNCHANGED <<agentVars, kube, spent>>

-------------------------------------------------------------------------------
\* What a handler in progress does next.
RequestStep(r) ==
  /\ \/ \E warm \in WarmIds : ClaimWarm(r, warm)
     \/ ClaimNothing(r) \/ ClaimInfo(r) \/ ClaimRemap(r) \/ ClaimSetIP(r)
     \/ ClaimDone(r) \/ ColdCreate(r) \/ ColdCreateFails(r) \/ CreateRollback(r)
     \/ DeletePod(r) \/ DeletePodFails(r) \/ DeleteForget(r)
     \/ DeleteDisconnect(r) \/ DeleteStop(r) \/ DeleteRemove(r)
  /\ UNCHANGED <<callbacks, control, reaping>>

Client ==
  /\ \/ \E r \in Requests, id \in SandboxIds :
          \/ \E key \in Keys, timeout \in Timeouts : CreateRequest(r, id, key, timeout)
          \/ DeleteRequest(r, id)
     \/ \E id \in SandboxIds : Keepalive(id)
  /\ UNCHANGED <<callbacks, control, reaping>>

CallbackStep(c) ==
  /\ \/ CallbackSkips(c) \/ CallbackBegins(c) \/ CallbackInfo(c)
     \/ CallbackSetIP(c) \/ CallbackDials(c) \/ CallbackDialFails(c)
     \/ CallbackStores(c) \/ CallbackMarks(c)
  /\ UNCHANGED <<kube, cache, control, requests, fills, reaping>>

FillStep(f) ==
  /\ \/ FillCount(f) \/ FillFails(f)
     \/ \E warm \in WarmIds : FillCreate(f, warm)
  /\ UNCHANGED <<sandboxes, cache, pool, conns, control, requests, callbacks,
                 reaping, history>>

ReaperStep ==
  /\ \/ \E due \in SUBSET pendingDeletes : ReaperTick(due)
     \/ \E id \in SandboxIds :
          ReaperForces(id) \/ ReaperForceFails(id) \/ ReaperStops(id)
     \/ ReaperForceForgets \/ ReaperScans \/ ReaperDeletes \/ ReaperDeleteFails
     \/ ReaperForgets \/ ReaperDisconnects \/ ReaperRemoves
  /\ UNCHANGED <<pool, control, requests, callbacks, fills, history>>

WatchLoop ==
  /\ WatchStep \/ WatchOpens \/ WatchBreaks
  /\ UNCHANGED <<sandboxes, pool, conns, control, requests, fills, reaping,
                 history>>

Boot ==
  /\ \/ \E dialed \in SUBSET SandboxIds : Recovery(dialed)
     \/ RecoveryFails
     \/ \E key \in Keys : BootFill(key)
     \/ BootServe
  /\ UNCHANGED <<kube, pool, requests, callbacks, reaping, history>>

Next ==
  \/ Client
  \/ \E r \in Requests : RequestStep(r)
  \/ \E c \in Callbacks : CallbackStep(c)
  \/ \E f \in Fillers : FillStep(f)
  \/ ReaperStep
  \/ WatchLoop
  \/ Boot \/ Crash
  \/ \E p \in PodIds : PodStep(p)
  \/ Tick

Spec == Init /\ [][Next]_vars

\* Goroutines that can run do run, and API calls and dials are answered.
\* Clients, the cluster and the clock owe nothing.
Fairness ==
  /\ \A r \in Requests : WF_vars(RequestStep(r))
  /\ \A c \in Callbacks : WF_vars(CallbackStep(c))
  /\ \A f \in Fillers : WF_vars(FillStep(f))
  /\ WF_vars(ReaperStep)
  /\ WF_vars(WatchLoop)
  /\ WF_vars(Boot)

FairSpec == Spec /\ Fairness

-------------------------------------------------------------------------------
(* Properties.                                                              *)

\* The pod that serves a sandbox has the template and the capabilities the
\* sandbox was created with (warm_pool.go:17-21: a claim is an exact match),
\* whichever way the pod came to it: created, claimed or recovered.
ExactMatch ==
  \A id \in Tracked :
    sandboxes[id].podIP # None => pods[sandboxes[id].podIP].key = sandboxes[id].key

\* A warm pod serves at most as many sandboxes as it was put into the pool:
\* Claim consumes what MarkReady added, whatever the interleaving.
NoMoreHoldersThanMarks ==
  \A w \in WarmIds :
    Cardinality({id \in Tracked : sandboxes[id].podIP = w}) <= marks[w]

\* A sandbox is reported running only when the pod that is to serve it has
\* been ready (http.go:354, main.go:80, manager.go:155).
RunningWasReady ==
  \A id \in Tracked :
    sandboxes[id].status = "running" =>
      \/ pods[id].ip
      \/ sandboxes[id].podIP # None /\ pods[sandboxes[id].podIP].ip

\* The expiry loop takes no sandbox before the earliest expiry its clients
\* were ever told, restarts and keepalives notwithstanding.
ReapsOnlyExpired ==
  reaper.id # None /\ reaper.pc # "forceforget" => now > promise[reaper.id].low

\* While the agent runs, an id that has left the registry never comes back:
\* a late onReady or claim cannot resurrect a sandbox (manager.go:89-104).
NoResurrection ==
  [][agent # "down" => \A id \in issued : id \notin Tracked => id \notin Tracked']_vars

\* The address of a sandbox, once known, does not move to another pod.
AddressIsStable ==
  [][\A id \in Tracked \cap Tracked' :
       sandboxes[id].podIP # None => sandboxes'[id].podIP = sandboxes[id].podIP]_vars

\* A sandbox past its expiry is removed, or its lease is extended.
ExpiredIsReaped ==
  \A id \in SandboxIds :
    (id \in Tracked /\ now > sandboxes[id].expiresAt)
      ~> ~(id \in Tracked /\ now > sandboxes[id].expiresAt)

\* A sandbox whose own pod is ready does not stay "starting": the
\* transition is noticed, across lost watches and restarts.
ReadyIsNoticed ==
  \A id \in SandboxIds :
    (id \in Tracked /\ sandboxes[id].status = "starting" /\ pods[id].ready)
      ~> ~(id \in Tracked /\ sandboxes[id].status = "starting" /\ pods[id].ready)

-------------------------------------------------------------------------------
(* What the documentation says of the agent and the code does not do.       *)

\* README.md:7: "Each sandbox runs in a dedicated K8s pod".
DedicatedPod ==
  \A a, b \in Tracked :
    a # b /\ sandboxes[a].podIP # None => sandboxes[a].podIP # sandboxes[b].podIP
===============================================================================
