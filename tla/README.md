# xgen-sandbox: models, checks and proofs

xgen-sandbox gives clients disposable sandboxes: Kubernetes pods in which a
sidecar runs commands, serves files and reports open ports. An agent process
creates the pods, keeps a registry of sandboxes, a pool of pre-created ("warm")
pods and WebSocket connections to the sidecars, and removes sandboxes that have
expired. SDKs in four languages talk to the agent.

This directory holds TLA+ models of the agent's core and of the way of a request
through its API, of the sidecar's sessions, processes, file watchers and port
detectors, and of the transport of the Go SDK; TLC runs over them and TLAPS
proofs. All source paths below are relative to the repository root.

## The system

| component | state | operations | hard because |
|---|---|---|---|
| sandbox manager (`agent/internal/sandbox/manager.go`) | map id -> Sandbox under one RWMutex | Create, SetStatus, SetPodIP, Remove, ExtendTimeout, GetExpired, Recover | callers hold no lock between two calls; the setters ignore ids that are gone |
| pod manager (`agent/internal/k8s/pod_manager.go`) | cache id -> PodInfo under one RWMutex | watch loop, CreatePod, DeletePod, ForceDeletePod, RemapPod, RecoverExistingPods | the cache lags the cluster; watches end and start afresh; API calls fail after taking effect |
| warm pool (`agent/internal/k8s/warm_pool.go`) | key -> list of warm ids under one mutex | Start, Claim, Replenish, MarkReady, IsWarm, fill | claims, fills and announcements interleave; the pool is rebuilt from watch events after a restart |
| agent process (`agent/cmd/agent/main.go`) | none of its own besides the expiry loop's `pendingDeletes` | start-up and recovery, the onReady callback, the expiry loop, shutdown | every callback runs in its own goroutine next to the HTTP handlers |
| REST handlers (`agent/internal/server/http.go`, `http_v2.go`) | none | create, delete, keepalive, exec, files, services | several critical sections per request, none atomic with the others |
| sidecar connections (`agent/internal/proxy/ws_proxy.go`) | map id -> connection | ConnectToSidecar, DisconnectSidecar, HandleClientWS, ExecSync | connections stored after their sandbox is gone |
| preview router (`agent/internal/proxy/router.go`) | none | ParseHost, Handler | ids with dashes; reads the address of a sandbox that may be going |
| rate limiter (`agent/internal/server/ratelimit.go`) | key -> bucket under one mutex | allow, cleanup | windows that begin with a request; buckets deleted behind them |
| authentication (`agent/internal/auth/auth.go`) | none: a token carries its expiry | GenerateToken, ValidateToken, Middleware, RequirePermission | a token that expires on its way |
| audit log (`agent/internal/audit/store.go`, `server/audit.go`) | ring of entries under one mutex | Add, Query | entries move while somebody pages through them; which middleware answers decides what is logged |
| metrics (`agent/internal/server/metrics.go`) | gauges | | kept by hand at every call |
| sidecar session (`sidecar/internal/ws/server.go`) | active connection | one goroutine per message | replies and events to the right connection, in order |
| sidecar exec (`sidecar/internal/exec/exec.go`) | id -> process | Start, WriteStdin, Signal, Resize, Remove, KillAll | output, exit and acknowledgement must arrive in order |
| file watcher, port detector (`sidecar/internal/fs/watcher.go`, `port/detector.go`) | snapshots, known ports | polling loops | a change of the watch set during a poll |
| Go SDK (`sdks/go/sandbox.go`, `transport/ws.go`, `transport/http.go`) | pending requests, handlers, connection, cached token | Request, On, Close, reconnect, ExecStream, WatchFiles, terminals, ensureToken | answers, disconnects, retries and Close race; most fields have no lock |
| SDKs in Python, TypeScript and Rust | the same | the same | |
| dashboard, browser components, helm charts, runtime images, examples | none of their own | | |

Interaction: an HTTP handler calls the registry, the pool, the pod manager and
the connections one after the other. The pod manager's watch loop receives
events of the cluster, updates the cache and starts an onReady goroutine on a
transition to ready; that goroutine calls the registry or the pool, and dials
the sidecar. The expiry loop reads the registry and calls the pod manager, the
connections and the registry. Nothing but `pods` of the cluster survives a
restart of the agent.

In the pod, the sidecar serves one WebSocket connection for each client (proxied
by `HandleClientWS`), for each call of the REST exec (`ExecSync`, which opens one,
runs one command and closes it) and for the agent itself. Each connection has a
port detector and a file watcher of its own. The connections share the process
map and one pointer, `active`, to the connection that was accepted last.

A request of the REST API passes the limiter, the authentication, the audit and
the permission check before its handler. The SDK puts a token on it that it
fetches and caches. For streams it opens one WebSocket connection per sandbox,
which all its callers share: one read loop hands answers to the pending requests
and events to the registered handlers, and reconnects when the connection is lost.

## Modules

| module | models | state |
|---|---|---|
| `SandboxManager` | the registry; one operator per method | `sandboxes` |
| `KubePods` | the Kubernetes API and the cluster as the agent uses them (external) | `pods`, `watching`, `events` |
| `PodManager` | the pod cache | `cache` |
| `WarmPool` | the pool | `pool` |
| `SandboxAgent` | the agent: handlers, onReady, fill, expiry loop, start-up, crash; all properties | `agent`, `unfilled`, `conns`, `requests`, `callbacks`, `fills`, `reaper`, `pendingDeletes`, and the bounds and history variables |
| `MCSandboxAgent` | instances for TLC | |
| `SandboxAgentProofs` | proofs: type correctness | |
| `SandboxAgentKeys` | proofs: `NoResurrection` and `ExactMatch` | |
| `SandboxAgentLeases` | proofs: `ReapsOnlyExpired` | |
| `SandboxAgentAddresses` | proofs: `AddressIsStable`, `RunningWasReady`, `NoMoreHoldersThanMarks` | |
| `ExecManager` | processes, their pipes, and the process map | `nextID`, `registered`, `procs` |
| `SidecarSession` | the sidecar's connections, message handlers and goroutines, its shutdown, and `ExecSync` | `sidecar`, `active`, `pc`, `open`, `inbox`, `asked`, `sent`, `owner`, `calls` |
| `ExecChannel` | the abstract specification of what a client receives of a command | `channel`, `made`, `got`, `ended`, `code`, `told` |
| `MCSidecarSession` | instances for TLC | |
| `SidecarSessionProofs` | proofs: `TypeOK`, `AckedIsReachable`, `OutputBeforeExit`, `ResultIsComplete` | |
| `FileWatcher` | the polling watcher of a connection and the files it looks at | `disk`, `watches`, `poll` |
| `PortDetector` | the port detector of a connection and the ports it reads | `listening`, `known`, `scan`, `flying` |
| `SidecarMonitors` | connections that overlap, the active one, watch requests, and the clients | `conn`, `active`, `request`, `left`, `watching`, `unseen`, `announced`, and the history `balance`, `shared` |
| `MCSidecarMonitors` | instances for TLC | |
| `SidecarMonitorsProofs` | proofs: `TypeOK`, `WriteIsDue`, `OpenPortIsDue`, `PortEventsAddUp` | |
| `SdkTransport` | the WebSocket transport of the Go SDK: requests, handlers, read loop, reconnect, Close | `link`, `worker`, `flag`, `attempts`, `done`, `pending`, `handlers` and others |
| `SdkSandbox` | what a program does with it: exec streams, terminals, file watches, port handlers | `stage`, `served`, `next`, `buf`, `got` |
| `MCSdkSandbox` | instances for TLC | |
| `SdkSandboxProofs` | proofs: `TypeOK`, `OutputInOrder`, `OpenListenerIsHeard` | |
| `RateLimiter` | the buckets | `now`, `buckets`, `admitted` (history) |
| `Authenticator` | credentials, tokens, roles and permissions | none: operators |
| `AuditStore` | the ring and its query | `entries`, `audited` (history) |
| `PreviewRouter` | host names and the target of a preview request | `registry` |
| `Gateway` | a request from the SDK through the middlewares to the answer, and a reader of the audit log | `tokens`, `requests`, `left`, `reading` |
| `MCGateway` | instances for TLC | |
| `GatewayProofs` | proofs: every property of the run `gateway` | |

`SidecarSession` extends `ExecManager`, `SidecarMonitors` extends `PortDetector`
and that `FileWatcher`, `SdkSandbox` extends `SdkTransport`, and `Gateway` extends
the four modules above it; these groups are independent of one another and of the
agent's modules. Where a group meets another it takes of it what it promises:
`Gateway` has a registry that a create or a delete changes in one step, and the
peer of `SdkTransport` answers requests in any order and sends the messages of a
command in order, which is what `SidecarSession` shows. Of the agent's modules, each extends the one above it (`SandboxManager`, `KubePods`,
`PodManager`, `WarmPool`, `SandboxAgent`), so that the operators of one
component are predicates on its own variable and `SandboxAgent` conjoins them
with the program counter of the goroutine that calls them.

### How state and actions correspond to the code

* A goroutine takes one step per critical section or API call: what happens
  under one lock is one action, what happens under two locks is two actions and
  anything may come between. `requests`, `callbacks` and `fills` are slots of
  HTTP handlers, onReady goroutines and fills; the field `pc` names the call the
  goroutine makes next.
* An id is a model value. `SandboxIds` are the ids `generateID` returns,
  `WarmIds` the ids `fill` makes up (prefix `warm-`). A pod is named and
  labelled by an id and never changes either, so it is identified by it. A pod
  is created at most once, because ids are uuids.
* A key (`Keys`) stands for a template with a normalised capability set, the
  value `poolSpec.Key` computes. The template and the capabilities of a sandbox
  are one key.
* The address of a pod is the pod itself; `ip` says whether it has one yet.
* Time is the counter `now`. The expiry loop acts at any moment rather than
  every 10 seconds, and the 30 seconds of `pendingDeletes` are left to chance:
  the behaviours of the code are among those of the model.
* `promise` is a history variable: the earliest and the last expiry of the
  Sandbox a Create made. Its `last` is also what CreatePod writes into the
  annotations, since the handler reads it through its pointer to the Sandbox,
  which it keeps when the sandbox is removed from the registry meanwhile.
* API calls fail with or without taking effect (`ColdCreateFails`,
  `DeletePodFails`, `ReaperDeleteFails`).
* `Crash` stands for a crash, a rollout and a graceful shutdown: handlers may be
  cut short in each (the shutdown waits 15 seconds at most), and none of them
  persists anything.
* A watch opened without a resource version begins with an Added event per pod;
  what an earlier watch had not delivered is lost (`KubeOpenWatch`).

In `SidecarSession`:

* `Got` and `Told`, which read off `sent[c]` what a client has of a command, do so by
  the places of its messages in the sequence (`Places`, `Nth`).
* `sent[c]` is what the sidecar wrote to connection c; a write to a connection
  whose peer is gone (`c \notin open`) is an error the code logs and drops. The
  field `from` of a message is the connection it is about, which the code does
  not send: properties read it.
* `inbox[c]` is a set, since `readLoop` starts a goroutine for every message and
  Go orders none of them. A connection that closes loses the messages that were
  not read yet, a suffix of what was sent. A handler other than that of ExecStart
  is one step: what it does between its locks touches nothing shared.
* `procs[p].pc` is where `handleExecStart` and the goroutine that reports the exit
  are: forked, in the map (`started`), acknowledged and streaming, `reported`,
  forgotten (`over`). A chunk is what one Read of a pipe returns; a stream
  goroutine takes one step to read it and one to send it. A command may leave a
  child running that holds its pipes, in its process group or outside of it
  (which Kill does not reach).
* `ExecSync` reads `sent[c]` in order; its deadline may pass at any moment.
* The clients of the repository put process id 0 into ExecStdin; the model also
  has clients that name the process of an Ack.
* `OutputBeforeExit` is `ExecChannel!Spec` under the mapping that reads the channel
  of a process off `sent`: it is open once the Ack is in it, closed once the exit
  is, and lost when the peer goes in between.

In `SidecarMonitors`:

* A modification time is a number that grows with every write, 0 where there is no
  file. `Under` says which files a path contains. A poll copies the watched paths,
  stats one, visits its files one by one and compares: each is a step, and files
  and watches may change between any two. So does `Watch` before it stores its
  baseline.
* Any connection may be accepted at any time, next to others that are open, being set
  up, or leaving: the agent's own, one for each ExecSync, and one for each client. The
  accepted one becomes `active` at once, before it has a watcher and reads; nothing
  takes it back. A client that leaves during the set-up is one that leaves just after
  it: the read loop is what notices.
* Every connection has its own watcher and detector, whose events go to whatever
  connection is active when they are sent, and may be lost there. A watch request is
  served by the watcher of the connection that is active when its goroutine looks, or
  is answered with an error while that one has none yet; the Ack goes to the
  connection the request came on.
* `watching` is what a client was told is watched; `unseen` are the files in it that
  have changed since it looked at them: an event about a file clears it (the client
  looks at the file then), and so does the Ack of a Watch for what the path contains,
  since a client that was acknowledged reads what it wants to follow. `announced` are
  the ports it was told of. All are gone when the client leaves.
* `shared` has the pair of a connection and a path as soon as the watcher of the
  connection is given a request for the path that came on another: the code serves
  it, and its baseline or its Unwatch replaces what the owner asked for. `WriteIsDue`
  and `WritesAreTold` say nothing of such a pair; without this TLC finds them violated.
* A client has one watch request under way at a time. `handleMessage` runs in a
  goroutine per message, so that a client that does not wait for its Acks can have
  two requests of its own overtake one another.
* `flying` counts the goroutines that report a port, in no order: they may be delayed
  past any number of scans, and the close of a port may overtake its open. `balance`
  counts, for each detector, the opens less the closes that were sent, to whatever
  connection. A scan that reads what is known already changes nothing and is left out.

In `SdkTransport` and `SdkSandbox`:

* The read loop and `attemptReconnect` call one another by `go`, one at a time: one
  process, `worker`. The fields without a lock are read and written in steps of
  their own, in the order of the code. A `done` channel is its number, so that a
  request that selects on an old one is seen to.
* `link = "lost"` is a connection whose loss nobody has noticed: writes to it may
  succeed. Ids of requests continue through a reconnect.
* A listener is one use of the handlers: a stream, a terminal, a watch, a port
  handler. `Kind` gives the function literal it registers, and `SamePointer` is
  what comparing `%p` of two functions decides.
* Requests start in the order of their numbers, which is no restriction: they are
  alike. A caller of ExecStream may take as long as it likes; its buffer of 64 has
  `Cap` places.

In `Gateway`:

* A slot of `requests` is the goroutine of a client and then that of the agent: the
  call to ensureToken, with its mutex, the fetch, the middlewares in the order of
  `apiHandler`, the handler, and the audit when it has answered.
* The clock is one for the SDK and the agent. `since` is when the HTTP call that is
  under way began; after `Timeout` the client gives up on it, and the agent may
  still handle it.
* A token is its expiry, its role and whether the agent signed it. A host name is
  the sequence of its parts, dashes among them.
* What a handler does to a sandbox is one step (`SandboxAgent` has it in detail);
  `HandlerFails` stands for everything a handler can refuse or fail at.
* The entries a query of the audit log matches are the set of their places in the
  ring, and the offset of a place is the number of newer matches (`Before`): a page
  is a set of places.
* `admitted` and `audited` are history: when requests of a key were let through,
  and every entry that should be in the log.

## Runs

The `cold_`, `warm_`, `expiry_` and pod runs are of `MCSandboxAgent`, the `exec_` runs of
`MCSidecarSession`. Symmetry is used in safety runs of the agent and in `gateway`
(its slots are alike); a run with a liveness property has none.

| run | expects | shows |
|---|---|---|
| `cold_lifecycle` | pass | `ReapsOnlyExpired`: the expiry loop takes no sandbox before the earliest expiry its clients were told. `NoResurrection`: an id that left the registry never returns while the agent runs. Two handlers, a callback and the expiry loop around one sandbox, clock up to 3. |
| `cold_restarts` | pass | `RunningWasReady`: running is reported only once the pod has been ready. `ReadyIsNoticed`: a ready pod makes its sandbox running. Both across a restart, a lost watch and a flap. |
| `warm_claims` | pass | `TypeOK`, `ExactMatch` (the serving pod has the key asked for), `AddressIsStable` (an address does not move): two creates over two keys, one of them with a pool. |
| `warm_crashes` | pass | `NoMoreHoldersThanMarks`: a warm pod serves at most as many sandboxes as it was marked ready, across a crash and an API error. |
| `expiry_live` | pass | `ExpiredIsReaped`: an expired sandbox goes, whatever call fails. |
| `exec_output` | pass | `OutputBeforeExit` (refinement of `ExecChannel`: output complete, in order, between Ack and exit), `AckedIsReachable` (a process its client knows is in the map), `FinishedIsForgotten` (a process that is over leaves the map, whatever became of its connection), `TypeOK`: one command, two chunks on one pipe and one on the other, children left behind, SIGKILL, input, a terminal that does not start, a client that leaves, a shutdown. |
| `exec_sync` | pass | `ResultIsComplete`: a result of ExecSync is all the output and the exit code of its own command, next to a client's command and to replies that belong to that client. |
| `events` | pass | `WritesAreTold`: after a file in a watched path was written, the client that connected last is sent an event, wherever the write falls between the steps of polls and watch requests, its own and those of other connections. `PortsAreAnnounced`: that client is told of every open port, one that was open before it came included. `PortsAreReported`: the opens and closes sent for a detector come to agree with the port, however it flaps while reports are on their way. `WriteIsDue`, `OpenPortIsDue` and `PortEventsAddUp` are the invariants these rest on: a write the client was not told of is in a snapshot still to be compared, a known port it was not told of is about to be announced, and the reports under way make up for the rest. Two connections that may overlap in every way, a directory and a file in it. |
| `sdk` | pass | `OutputInOrder` (no gap and no reordering in a stream, its exit last), `OpenListenerIsHeard` (nothing but its own end unregisters a listener), `RequestEnds`, `LossIsSettled` (a lost connection is replaced or given up): any two of: two requests, a stream, a terminal, a watch and a port handler; one loss, two attempts, Close at any moment. |
| `gateway` | pass | `FewerThanTwoRates` (what passes in an interval that spans two windows), `RefusedOnlyAtLimit`, `SdkTokenIsLive` (a cached token does not expire on its way), `AuditKeepsTheLatest`, `PagingSkipsNothing`, `PreviewReachesItsSandbox` (the host of a preview URL leads to its sandbox and port, whatever dashes and digits the id has). Two requests at a time, of an SDK and of another client with an API key, or of clients without a credential, which the limiter counts before they are turned away. |
| `dedicated_pod` | violation | `DedicatedPod`, README.md:7: a flap of a claimed warm pod puts it back into the pool, and a second sandbox is given it. |
| `other_stream` | violation | `OpenListenerIsHeard`, sdks/go/transport/ws.go:138 and sandbox.go:108: with two exec streams of one sandbox, the end of one unregisters the handlers of the other. |

The violations are disagreements between what the repository says and what the
code does; `PROJECT.json` describes each under "findings".

### Other disagreements

Met while modelling. No run is kept for them. Those of the agent's core, the
sidecar and the SDK's transport are behaviours of the models.

The agent's core:

* docs/api-reference.md:170, "Extend the sandbox timeout": a keepalive between the
  scan of the expiry loop and its delete is acknowledged, and the sandbox is
  removed all the same (main.go:156).
* docs/api-reference.md:322, starting, running, stopping, stopped in this order:
  an onReady callback that comes late sets a stopping sandbox to running
  (main.go:80).
* docs/security.md:268-270, force delete after 30 seconds: only ids whose delete
  call failed are retried, never a pod whose delete was accepted and that does not
  terminate (main.go:147-159).
* docs/api-reference.md:332, stopped means "Pod deleted; sandbox removed": DeletePod
  names the pod by the sandbox, and a warm pod is named by its warm id. The delete
  of a sandbox on a warm pod is answered NotFound, the sandbox is reported stopped
  and removed, and the pod lives on (pod_manager.go:496).

The sidecar:

* sidecar/internal/ws/server.go:77, "isolated from other connections": the error
  about an unknown message, and Pong, go to the active connection (489, 171), so
  that a REST exec can fail for a message of another client; and a watch request is
  registered with the active connection's watcher (448), which may have closed,
  and acknowledged to the sender. Port and file events go to the active connection
  as well (499): with two clients the events of the older one reach the newer, or,
  once that has closed, nobody, since nothing clears `active`. All of this is in
  `SidecarMonitors`, whose properties are about the connection that was accepted last
  (`Attended`) and the watches only its own requests have touched (`shared`): of the
  events of an older connection, and so of any client beside an ExecSync, nothing is
  promised.
* browser/src/components/SandboxTerminal.tsx:221, "process_id = 0 (will be resolved
  by channel)", as in the SDKs: handleExecStdin looks for the process of that id
  only (server.go:304); ids start at 1, and the input is dropped.
* sidecar/internal/exec/exec.go:231, "KillAll sends SIGKILL to all running
  processes": one that is forked and not in the map yet is missed (190-211).
* README.md:12 and docs/architecture.md:141, terminals: Start sets Setpgid and
  pty.StartWithSize adds Setsid; the kernel refuses setpgid to a session leader,
  so every start with a TTY fails (`ForkRefused`).
* docs/architecture.md:69, "streams stdin": two inputs of a connection are handled
  by two goroutines and may be written in either order (server.go:164).
* The watcher: a poll that took its snapshot before an Unwatch stores it after, and
  the path is watched again (watcher.go:154, against 73); a Watch of a watched path
  replaces its baseline, and a change since the last poll is not reported; a file
  that comes and goes between two polls leaves no event.
* Port events are sent by goroutines of their own (detector.go:75): the close of a port can
  overtake its open, and a client that takes the last event for the state of the port
  is wrong until it flaps again. The model does this; `PortsAreReported` is about the
  number of opens and closes, not about their order.

The Go SDK:

* sdks/go/transport/ws.go:81, "Close closes the WebSocket connection": a reconnect
  past its last look at the flag connects after Close, and Connect clears the flag
  (198 to 214): the connection stays open.
* ws.go:90, "Reject all pending requests": they are only deleted from the map. What
  ends a request is the done channel, and one that selected on a channel an earlier
  reconnect has replaced waits for its own context.
* A CancelFunc that is called twice removes the handler of another listener of the same
  kind (ws.go:152); ExecStream leaves its handlers behind when its send fails
  (sandbox.go).
* docs/security.md:51, "SDKs handle token exchange and refresh automatically": a
  reconnect of the WebSocket sends the token the transport was made with, which may
  have expired.
* Handlers of file events get those of every watched path, whatever path they were
  registered for; the exit code is decoded from `exitCode`, which the sidecar writes
  as `exit_code`, and is always 0.

The agent's API:

* docs/security.md:288 and docs/architecture.md:62, a limit per client IP: the key
  is RemoteAddr, which has the port of the connection in it, or whatever
  X-Forwarded-For says (ratelimit.go). Up to one request less than
  twice the rate passes within a minute (`FewerThanTwoRates`), and the route that issues tokens is not behind the limiter.
* audit.go:21, "mutating or sensitive operations": the comparison that should
  include the WebSocket route is with the literal `{id}`, so that no GET is audited.
  The sandbox of a v2 route is not extracted. A delete of an id that does not exist
  is answered 204.
* http.go:279: a timeout of more than 2^63 nanoseconds can wrap around to a negative
  one, which is not above the maximum and makes a sandbox that is born expired.

### Bounds

`Requests`, `Callbacks` and `Fillers` bound the goroutines of each kind that run
at once; two suffice for every race between two of a kind, and a watch event
that needs a third callback waits. `Limit` bounds the disturbances of each kind:
`restart`, `rewatch` (a watch ends), `flap` (a pod loses readiness or changes
otherwise), `evict` (a live pod goes) and `fault` (an API call or a dial fails).
One of each kind is enough for every hazard listed: none needs the same
disturbance twice. `MaxNow` bounds the clock; 3 leaves time for an expiry, a
keepalive and the expiry of the extended lease. `Timeouts = {1}` and
`DefaultTimeout = 1` are the shortest lifetimes that are not expired at once;
`cold_restarts`, `warm_claims` and `warm_crashes` need no clock at all.
`Target` is 0 for a pool that is not pre-warmed and 1 otherwise.

For the sidecar, `MaxProcs`, `MaxChunks` and `MaxRequests` bound the
commands, their chunks per pipe and the requests of a connection. One
command with two chunks on a pipe and one on the other has every interleaving of
its goroutines; two commands of two connections (`exec_sync`) have every exchange
between them, and there they write to one pipe only. A connection is not reused:
a client that reconnects is another member of `Clients`. `Children` says where
children may be left running.

`events`: `Budgets` are what there may be of watch requests, changes of files and
changes of ports in one behaviour. Two changes of a file let it go and return while a
poll is between two of its steps; two requests are a Watch before and one after
another connection comes, two watches of one connection, one of each of two, or a
Watch and an Unwatch, with one write anywhere between; four changes of a port have an
open and a close of it under way at once, whichever of the connections they are for. Files and ports
share nothing but `active` and `conn`, so that no behaviour needs both. Two
connections have every order of set-up, requests, events and closing of an older and
a newer one; one file watched twice, by itself and through its directory, has
overlapping watches. `MaxTime` only numbers the writes.

`sdk`: `MaxUses = 2` gives every pair of uses; a race of three would need three that
share a step, and all they share is the read loop, the list of handlers and the map
of pending requests, on each of which two conflict. `MaxLosses = 1` and two attempts have a failed attempt, a
success, the loss of it by Close, and giving up. `Chunks = 2` with `Cap = 1` fills the
buffer. Each kind of listener is there once: two of one kind are the violation.

`gateway`: with `Rate = 2` and `Interval = 2` a window has room for a request at its
start and one at its end, so that three requests, one less than twice the rate, pass in
less than an interval around the boundary of two windows. `Budgets` are requests with a
credential, requests without, and ticks: three of the first within the lifetime of
a token and a tick after it, or six of the second and six ticks, which are three full
windows and reach past the age at which a bucket is deleted. The theorems hold
for every rate and interval. `MaxSize = 2` and `Limit = 1`
page through a store that evicts on the third entry. `TTL = 3`, `Margin = 2` and
`Timeout = 1` stand for the 15 minutes, the minute and the 30 seconds of the code in
their order; an id that ends in digits and one that begins with them are those a port
could be confused with.

Deadlock checking is off where the bounds let the system come to rest
(`MaxNow = 0` with every id given out; a sidecar whose connections are closed, or
that has exited); elsewhere a client can always send a
request or a pod still terminate.

### Fairness

`FairSpec` assumes weak fairness of every handler, callback and fill, of the
expiry loop, of the watch loop and of start-up: goroutines are scheduled, API
calls and dials return (all are made with timeouts or answered by the API
server), and the tickers tick. Clients, the cluster and the clock owe nothing:
in particular no pod need become ready or terminate.

`FairSpec` of `SidecarSession` assumes weak fairness of the handler of each
connection, of the goroutine of each message, of the four goroutines of a process,
and of `ExecSync` and its deadline. Writes to a connection return: to one that is
gone with an error. A client that stays and never reads could block them for ever,
which is not modelled. Clients and commands owe nothing: a command need not exit.

`FairSpec` of `SidecarMonitors` assumes weak fairness, for each connection, of its
poller, of its detector, of its watch request, and of the goroutines that report its
ports: tickers tick and goroutines are scheduled. The last is weaker than fairness of
every single goroutine, and enough: as ports change finitely often, those of a
connection all run in the end. Connections, files and ports owe nothing.

`FairSpec` of `SdkSandbox` assumes weak fairness of the read loop and of the
reconnect, of the goroutines that call Request, of the answers of the peer, and of
the caller of ExecStream together with the arrival of messages: goroutines are scheduled, the
sidecar answers what it received, and a caller keeps receiving from its channel, as
the API asks. A caller that stops would hold up the read loop and every other use,
which is the code's behaviour and outside of this assumption. A dial may fail every
time, and nothing is assumed of cancels, of the network or of Close.

## Proofs

Every safety property a passing run checks is stated by a theorem, for every value
of the constants that satisfies the assumptions named below. Only
the `TypeOK` of `SidecarSession` and, given the types, `AuditKeepsTheLatest` are
inductive as they stand; of every other property the section says what the invariant it is derived
from adds, and why.

### The agent

From `IdsAssumption`, `TargetAssumption` and `AgentAssumption` (ids of the two kinds
differ, there are finitely many, timeouts are positive, and so on). The invariants
of later items are proved on top of those of the earlier ones.

* `TypeCorrectness`: `Spec => []TypeOK`. `TypeOK` is not inductive: a handler in
  the phase "setip" stores the id its slot holds, and only the phase says that
  the slot holds one. `TypeInv` adds what every busy slot holds
  (`RequestSlots`, `CallbackSlots`, `FillSlots`, `ReaperSlot`).
* `NeverResurrected`: `Spec => NoResurrection`. From `TypeInv`, step by step
  (`StepsStay`): no step but recovery, which is taken only while the agent is
  down, enters an issued id into the registry.
* `ExactMatches`: `Spec => []ExactMatch`. `ExactMatch` is about the registry
  only; the address it stores has travelled from the cluster through events, the
  cache and a handler or callback. `KeyInv` says at each of these places that
  the key held agrees with the pod: `PodsKeyed` (a pod named by a sandbox has the
  sandbox's key), `EventsKeyed`, `CacheKeyed` (with: the entry of a warm id is the
  pod of that id), `PoolKeyed`, `RequestsKeyed`, `CallbacksKeyed`, and
  `DownIsQuiet`, which recovery needs. Each kind of step has a lemma; the parts
  whose variables it leaves alone are kept because created pods and registered
  keys never change (`PodsStay`, `SandboxesStay`, `PartsKept`).
* `ExpiryIsHonoured` (`SandboxAgentLeases`): `Spec => []ReapsOnlyExpired`. The loop
  works through a list it made some time ago, and the registry that list came from
  may have been read back from annotations. `LeaseInv` says that no expiry held by
  the registry (`SandboxesLeased`) or by an annotation (`PodsLeased`) is earlier than
  the promise, and that every id of the list was expired when it was entered
  (`ReaperLeased`). A keepalive only lowers the promise, so that what was
  listed stays listed rightly.
* `AddressStaysPut` (`SandboxAgentAddresses`): `Spec => AddressIsStable`. `Places`
  follows an address from the pod through events and cache to a goroutine: a pod
  that was seen with an address once is seen with it by everything read after.
  `Owning` says that a sandbox is given one pod only: a handler creates the pod
  named by its id only if it has claimed none.
* `RunningMeansReady`: `Spec => []RunningWasReady`, from `Serving`: where "running"
  is about to be set, or is set, the pod that serves has been ready.
* `ClaimsConsumeMarks`: `Spec => []NoMoreHoldersThanMarks`. A claim moves a place of
  the pool to a handler, so that what is bounded by the marks is users and places of
  a warm id together (`MarksCount`), counted as sets.

### The way of a request

`GatewayProofs`, from `GatewayAssumption` and the assumptions of the modules it
extends (a positive rate, interval and capacity; a timeout shorter than the
renewal margin and at most half of a token's lifetime, as the code's constants are):

* `TypeCorrect`: `Spec => []TypeOK`. What a slot holds depends on where it is;
  `SlotsInv` adds it: a slot between the fetch and the authentication has a
  credential that lives long enough after `since` (`Sound`). Together they are `TypeInv`.
* `RateBound`: `Spec => []FewerThanTwoRates`. The requests let through are a sequence;
  `Windows` says where in it the current window of a key and the one before
  begin, that they begin an interval apart, and that each has at most a rate of
  requests (`LimiterInv`). When the cleanup deletes a bucket its window is over, and
  the next request opens one after it. The first and the last of twice the rate in a row
  are therefore never in one window; when theirs follow one another the first request
  opens the earlier one, and else a whole window lies between.
* `NeverRefusedBelowLimit`: `Spec => RefusedOnlyAtLimit`. An empty bucket within its
  window has spent a rate of tokens since the window began (`Bounded`).
* `LiveToken`: `Spec => []SdkTokenIsLive`, from `Sound` and the assumption on the
  timeout.
* `AuditIsComplete`: `Spec => []AuditKeepsTheLatest`. Inductive given the
  types; the lemma
  it rests on (`LatestOfAppend`) is about sequences: evicting from the latest and
  appending is the latest of the longer sequence.
* `NothingIsSkipped`: `Spec => []PagingSkipsNothing`. New entries push those of the
  first answer to higher offsets, and evictions take entries from behind. `PagingInv`
  says that an entry of the first answer that the reader has not seen is still in the
  store and at an offset it has yet to ask for, or was evicted (`Awaited`), and that
  entries are numbered in the order of the store (`Numbered`). The lemmas count
  newer matches before and after an Add (`Before`).
* `PreviewFindsSandbox`: `Spec => []PreviewReachesItsSandbox`, from `RouterAssumption`
  (no text of a port contains a dash, no id is empty, and ids differ in their texts):
  the last dash of the host name is the one `PreviewURL` put before the port
  (`DashBeforePort`), whatever the id contains.

The inductive invariant of the first four is `IInv == TypeInv /\ LimiterInv`.

### The sidecar's sessions

`SidecarSessionProofs`, from the assumptions of `ExecManager` and `SidecarSession`:

* `SessionTypes`: `Spec => []TypeOK`, here inductive.
* `SessionAgrees`: `Spec => []SessionInv`, the invariant of the other three. `ProcInv`:
  where a process is decides who knows it, and of every pipe what was written is
  sent, held by its goroutine or still in the pipe. `SentInv`: what the connection of a
  process was told is what its goroutines have sent, and nothing about it was sent
  to another connection. `OrderInv`: the messages of one type about one process can
  be numbered without a gap, which the mapping to the channel needs.
* `ClientsReachTheirProcesses`: `Spec => []AckedIsReachable`.
* `OutputIsOrdered`: `Spec => OutputBeforeExit`, the refinement of `ExecChannel`: the
  initial states map to initial states, and each step that tells a client something
  (`Tells`) or ends a command (`Ends`) to one action of the channel, every other to a
  stutter. It is safety only: `ExecChannel!Spec` promises no progress.
* `ExecSyncIsComplete`: `Spec => []ResultIsComplete`. `CallInv` says that a call asks
  once and owns at most one process (`AsksOnce`), and that what it counted is what is
  in the part of the sequence it has read (`Counts`); the rest is `SessionInv`: the
  exit of a process is behind all its output.

### The sidecar's watchers and detectors

`SidecarMonitorsProofs`, from `WatcherAssumption`, `DetectorAssumption` and
`MonitorAssumption` (finitely many changes of files, so that each has a time of its
own), for any number of connections that overlap in any way:

* `MonitorTypes`: `Spec => []TypeOK`. `TypeInv` adds that a request under way names a
  path and that there is an active connection once one was accepted.
* `NoWriteIsLost`: `Spec => []WriteIsDue`. `WatchInv` says that connections are accepted
  in order (`InOrder`); that a request is served by the watcher of its own connection or
  of a later one, at most the active one, and is in `shared` if that is not its own
  (`RequestFits`): so what a connection's request does to the active connection's
  watcher is either the owner's wish or exempt (`OthersKeep`); that the watcher has every
  path its client was told is watched, which a request about to be acknowledged must
  have entered and an Unwatch under way must have been taken off (`DueAt`); and that no
  time stored or in a walk is later than the last change (`TimesAreOld`), so that the
  next write differs from every snapshot there is, whenever it was taken.
* `OpensAreDue` and `PortEventsAgree`: `Spec => []OpenPortIsDue` and
  `Spec => []PortEventsAddUp`, from `PortsInv`: they are preserved together, given that
  a connection nobody has made knows of no port (`Quiet`). A scan starts an open or a
  close exactly for what it changes in `known` (`ScanAddsUp`), whatever is under way.

### The Go SDK

`SdkSandboxProofs`, from the assumptions of `SdkTransport` and `SdkSandbox`:

* `SdkTypes`: `Spec => []TypeOK`. The bounds on ids and channels rest on how many
  reconnects the losses allow (`ShapeInv`), that of what a caller received on the
  order of it (`OutputInv`), which is why the types are proved last.
* `OutputIsInOrder`: `Spec => []OutputInOrder`, for any number of commands and
  terminals, those that share a literal included. `HandlersInv`: a handler is in its list
  once, and the three of a command come and go together and in one order, although
  `off` takes the first handler that prints the same pointer. `OutputInv`: what is
  delivered, buffered, in the read loop and yet to come of a listener follow one
  another without a gap.
* `AloneIsHeard`: a listener that shares its function literal with no other has all
  its handlers registered until it ends, whatever the others do. `ListenersAreHeard`
  is `OpenListenerIsHeard` from it under `OneOfAKind`. The case it excludes is the
  finding of `other_stream`, so the hypothesis is exactly what the code lacks.

### What stays with TLC

The liveness properties: `ReadyIsNoticed`, `ExpiredIsReaped`, `FinishedIsForgotten`,
`RequestEnds`, `LossIsSettled`, `WritesAreTold`, `PortsAreAnnounced` and
`PortsAreReported`. TLAPS does not reason about ENABLED, and so not about fairness. For
the last three the invariants above are what a proof would rest on. The two violations are counterexamples, found by TLC.

## Not modelled, and the plan

In this order; each step adds its runs, and proofs where a theorem is named.

1. `SandboxService`: the abstract life of a sandbox that clients see, and
   `SandboxAgent` shown to implement it, by TLC and then by TLAPS from
   `SandboxAgentKeys` and `SandboxAgentAddresses`.
2. Invariants under the other liveness properties, like `WriteIsDue` under
   `WritesAreTold`: which step is due while a ready pod has not made its sandbox
   running, or a loss is not settled.
3. The gauges of `metrics.go` next to the registry they count.

Not modelled, of the parts above: the network policies of `pod_manager.go` and the
contents of a pod spec (each is one call whose outcome the agent does not keep);
the validation of a request, one failing outcome in `Gateway`; the copying of bytes
by the preview proxy; how `fs.go` resolves a path and what it reads; the
byte layout of the wire protocol; `client.go`, which wraps single REST calls; and
the SDKs in Python, TypeScript and Rust, whose concurrency differs from that of Go.

Left out for good: the dashboard and the browser components (views over the
SDK), the helm charts, runtime images and examples (no state), logging and
configuration. Two agents running at once during a rolling update is not
modelled: the charts set one replica by default, and nothing in the code
coordinates two.
