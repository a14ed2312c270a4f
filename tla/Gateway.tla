------------------------------- MODULE Gateway -------------------------------
(***************************************************************************)
(* The way of a request through the agent's API: the SDK that puts a token *)
(* on it (sdks/go/transport/http.go), the middlewares in the order of      *)
(* apiHandler (agent/internal/server/http.go) - limiter, authentication,   *)
(* audit, permission - and the handler.  What the handlers do to sandboxes *)
(* is in SandboxAgent; here they change the registry in one step.          *)
(***************************************************************************)
EXTENDS RateLimiter, Authenticator, AuditStore, PreviewRouter

CONSTANTS
  Slots,        \* requests under way at once
  Sdks,         \* clients that use an SDK
  NoSdk,        \* the client is not an SDK
  SdkKey,       \* the API key of each SDK client, a function
  Credentials,  \* what other clients send
  SdkOps,       \* the operations SDK clients ask for
  OtherOps,     \* and the others
  Filters,      \* what the audit log is filtered by: a method, or "any"
  Margin,       \* an SDK renews a token this long before it expires
  Timeout,      \* the timeout of an SDK's HTTP client
  Budgets       \* bound: how many requests of each kind there may be, and how
                \* many ticks; a behaviour begins with one of these choices

Mutating == {"create", "keepalive", "exec", "delete"}
AllOps == Mutating \cup {"list", "get", "ws", "services", "admin"}

\* "calls" are requests with a credential, "strangers" those without.
Kinds == {"calls", "strangers", "ticks"}

Credential == [scheme : {"Bearer", "ApiKey", "none"}, token : Token,
               key : DOMAIN KeyRole \cup {NoKey}]

ASSUME GatewayAssumption ==
  /\ Timeout \in Nat /\ Margin \in Nat
  /\ Timeout < Margin
  /\ 2 * Timeout <= TTL
  /\ NoSdk \notin Sdks
  /\ SdkOps \cup OtherOps \subseteq AllOps
  /\ SdkKey \in [Sdks -> DOMAIN KeyRole]
  /\ KeyRole \in [DOMAIN KeyRole -> Roles]
  /\ Credentials \subseteq Credential
  /\ Budgets \subseteq [Kinds -> Nat]

VARIABLES
  tokens,    \* per SDK client: HTTPTransport.token, with its expireAt
  requests,  \* per slot: the goroutine of the client and then of the agent
  left,      \* what is left of the budget
  reading    \* the reader of the audit log, page by page

vars == <<now, buckets, admitted, entries, audited, registry, tokens, requests,
          left, reading>>

-----------------------------------------------------------------------------
(* Routes.                                                                    *)

Method(op) ==
  CASE op \in {"create", "keepalive", "exec"}       -> "POST"
    [] op = "delete"                                -> "DELETE"
    [] op \in {"list", "get", "ws", "services", "admin"} -> "GET"

\* The permission RequirePermission asks for; admin routes ask for the role.
Permission(op) ==
  CASE op = "create"    -> "create"
    [] op = "delete"    -> "delete"
    [] op = "keepalive" -> "write"
    [] op \in {"exec", "ws"} -> "exec"
    [] op \in {"list", "get", "services", "admin"} -> "read"

Allowed(role, op) ==
  IF op = "admin" THEN role = "admin" ELSE HasPermission(role, Permission(op))

\* Mutant: what was refused is not audited.
Audits_Successes(op, status) == Method(op) # "GET" /\ status < 400

\* auditLog: a GET is not audited.  The comparison that would except the
\* WebSocket route is with the route's pattern, which no path equals.
Audits(op, status) == Method(op) # "GET"

-----------------------------------------------------------------------------
Idle == [pc |-> "idle", sdk |-> NoSdk, op |-> "list", key |-> NoHeader,
         cred |-> Missing, role |-> "viewer", since |-> 0, status |-> 0]

NotReading == [on |-> FALSE, done |-> FALSE, filter |-> "any", offset |-> 0,
               first |-> {}, seen |-> {}]

Init ==
  /\ LimiterInit
  /\ StoreInit
  /\ RouterInit
  /\ tokens = [c \in Sdks |-> NoToken]
  /\ requests = [r \in Slots |-> Idle]
  /\ left \in Budgets
  /\ reading = NotReading

Spent(kind) == left[kind] > 0 /\ left' = [left EXCEPT ![kind] = @ - 1]

Finish(r) == requests' = [requests EXCEPT ![r] = Idle]

-----------------------------------------------------------------------------
(* The SDK.                                                                   *)

\* Do calls ensureToken, which takes the mutex.
SdkCalls(r, c, op, addr, fwd) ==
  /\ requests[r].pc = "idle"
  /\ Spent("calls")
  /\ requests' = [requests EXCEPT ![r] =
       [Idle EXCEPT !.pc = "ensure", !.sdk = c, !.op = op,
                    !.key = LimitKey(addr, fwd)]]
  /\ UNCHANGED <<now, limiterVars, storeVars, registry, tokens, reading>>

MutexIsFree(c) ==
  \A r \in Slots : requests[r].sdk = c => requests[r].pc \notin {"fetching", "issued"}

\* Mutant: the margin is added to the expiry.
Fresh_Late(token) == token.signed /\ now < token.exp + Margin

Fresh(token) == token.signed /\ now < token.exp - Margin

UseCachedToken(r) ==
  /\ requests[r].pc = "ensure"
  /\ MutexIsFree(requests[r].sdk)
  /\ Fresh(tokens[requests[r].sdk])
  /\ requests' = [requests EXCEPT ![r].pc = "sent", ![r].since = now,
                                  ![r].cred = BearerOf(tokens[requests[r].sdk])]
  /\ UNCHANGED <<now, limiterVars, storeVars, registry, tokens, left, reading>>

FetchToken(r) ==
  /\ requests[r].pc = "ensure"
  /\ MutexIsFree(requests[r].sdk)
  /\ ~Fresh(tokens[requests[r].sdk])
  /\ requests' = [requests EXCEPT ![r].pc = "fetching", ![r].since = now]
  /\ UNCHANGED <<now, limiterVars, storeVars, registry, tokens, left, reading>>

\* handleAuthToken, which is not behind the middlewares.
IssueToken(r) ==
  /\ requests[r].pc = "fetching"
  /\ requests' = [requests EXCEPT ![r].pc = "issued",
                    ![r].cred = BearerOf(GenerateToken(SdkKey[requests[r].sdk], now))]
  /\ UNCHANGED <<now, limiterVars, storeVars, registry, tokens, left, reading>>

\* The answer comes in time: it is stored and the call itself is sent.
StoreToken(r) ==
  /\ requests[r].pc = "issued"
  /\ now - requests[r].since <= Timeout
  /\ tokens' = [tokens EXCEPT ![requests[r].sdk] = requests[r].cred.token]
  /\ requests' = [requests EXCEPT ![r].pc = "sent", ![r].since = now]
  /\ UNCHANGED <<now, limiterVars, storeVars, registry, left, reading>>

\* The fetch fails or times out, and the call with it.
FetchFails(r) ==
  /\ requests[r].pc \in {"fetching", "issued"}
  /\ Finish(r)
  /\ UNCHANGED <<now, limiterVars, storeVars, registry, tokens, left, reading>>

\* Any other client.
OtherCalls(r, cred, op, addr, fwd) ==
  /\ requests[r].pc = "idle"
  /\ Spent(IF cred = Missing THEN "strangers" ELSE "calls")
  /\ requests' = [requests EXCEPT ![r] =
       [Idle EXCEPT !.pc = "sent", !.op = op, !.cred = cred,
                    !.key = LimitKey(addr, fwd)]]
  /\ UNCHANGED <<now, limiterVars, storeVars, registry, tokens, reading>>

-----------------------------------------------------------------------------
(* The agent.                                                                 *)

PassLimiter(r) ==
  /\ requests[r].pc = "sent"
  /\ Admit(requests[r].key)
  /\ requests' = [requests EXCEPT ![r].pc = "auth"]
  /\ UNCHANGED <<now, storeVars, registry, tokens, left, reading>>

\* 429, before the audit.
TurnAway(r) ==
  /\ requests[r].pc = "sent"
  /\ Refuse(requests[r].key)
  /\ Finish(r)
  /\ UNCHANGED <<now, storeVars, registry, tokens, left, reading>>

Authenticate(r) ==
  /\ requests[r].pc = "auth"
  /\ Accepts(requests[r].cred, now)
  /\ requests' = [requests EXCEPT ![r].pc = "handler", ![r].since = 0,
                    ![r].cred = Missing, ![r].role = RoleOf(requests[r].cred)]
  /\ UNCHANGED <<now, limiterVars, storeVars, registry, tokens, left, reading>>

\* 401, before the audit too.
Unauthorized(r) ==
  /\ requests[r].pc = "auth"
  /\ ~Accepts(requests[r].cred, now)
  /\ Finish(r)
  /\ UNCHANGED <<now, limiterVars, storeVars, registry, tokens, left, reading>>

Answer(r, status) ==
  requests' = [requests EXCEPT ![r].pc = "audit", ![r].status = status]

Forbidden(r) ==
  /\ requests[r].pc = "handler"
  /\ ~Allowed(requests[r].role, requests[r].op)
  /\ Answer(r, 403)
  /\ UNCHANGED <<now, limiterVars, storeVars, registry, tokens, left, reading>>

HandleCreate(r, s) ==
  /\ requests[r].pc = "handler" /\ requests[r].op = "create"
  /\ Allowed(requests[r].role, "create")
  /\ registry[s] = "absent"
  /\ registry' = [registry EXCEPT ![s] = "starting"]
  /\ Answer(r, 201)
  /\ UNCHANGED <<now, limiterVars, storeVars, tokens, left, reading>>

\* A delete of an id that is not there is answered 204 as well.
HandleDelete(r, s) ==
  /\ requests[r].pc = "handler" /\ requests[r].op = "delete"
  /\ Allowed(requests[r].role, "delete")
  /\ registry' = [registry EXCEPT ![s] = "absent"]
  /\ Answer(r, 204)
  /\ UNCHANGED <<now, limiterVars, storeVars, tokens, left, reading>>

\* What a handler that changes no registry answers when it succeeds.
StatusOf(op, s) ==
  IF op \in {"list", "admin"} THEN 200
  ELSE IF registry[s] = "absent" THEN 404
  ELSE IF op = "keepalive" THEN 204 ELSE 200

HandleOther(r, s) ==
  /\ requests[r].pc = "handler" /\ requests[r].op \notin {"create", "delete"}
  /\ Allowed(requests[r].role, requests[r].op)
  /\ Answer(r, StatusOf(requests[r].op, s))
  /\ UNCHANGED <<now, limiterVars, storeVars, registry, tokens, left, reading>>

\* A request that is not valid, or a pod or a sidecar that does not answer: a
\* create is rolled back, a delete given up.
HandlerFails(r) ==
  /\ requests[r].pc = "handler" /\ requests[r].op \in {"create", "delete", "exec"}
  /\ Allowed(requests[r].role, requests[r].op)
  /\ Answer(r, 500)
  /\ UNCHANGED <<now, limiterVars, storeVars, registry, tokens, left, reading>>

\* auditLog, after the handler has answered.  The number stands for the time
\* stamp of an entry, which tells it from the others.
Record(r) ==
  LET q == requests[r]
      entry == [number |-> Len(audited) + 1, method |-> Method(q.op), status |-> q.status]
  IN  /\ q.pc = "audit"
      /\ IF Audits(q.op, q.status) THEN Add(entry) ELSE UNCHANGED entries
      /\ audited' = IF q.op \in Mutating THEN Append(audited, entry) ELSE audited
      /\ Finish(r)
      /\ UNCHANGED <<now, limiterVars, registry, tokens, left, reading>>

\* onReady of the agent gives a sandbox its address.
GetsAddress(s) ==
  /\ registry[s] = "starting"
  /\ registry' = [registry EXCEPT ![s] = "running"]
  /\ UNCHANGED <<now, limiterVars, storeVars, tokens, requests, left, reading>>

-----------------------------------------------------------------------------
(* An admin pages through the audit log: the dashboard asks for the next page  *)
(* while offset + limit < total.                                               *)

Numbers(places) == {entries[i].number : i \in places}

ReadFirstPage(filter) ==
  LET p == Page(filter, 0) IN
  /\ ~reading.on
  /\ reading' = [on |-> TRUE, done |-> Limit >= p.total, filter |-> filter,
                 offset |-> Limit, first |-> Numbers(Filtered(filter)),
                 seen |-> Numbers(p.page)]
  /\ UNCHANGED <<now, limiterVars, storeVars, registry, tokens, requests, left>>

ReadNextPage ==
  LET p == Page(reading.filter, reading.offset) IN
  /\ reading.on /\ ~reading.done
  /\ reading' = [reading EXCEPT !.done = reading.offset + Limit >= p.total,
                                !.offset = @ + Limit,
                                !.seen = @ \cup Numbers(p.page)]
  /\ UNCHANGED <<now, limiterVars, storeVars, registry, tokens, requests, left>>

CleanBuckets ==
  /\ Cleanup
  /\ UNCHANGED <<now, storeVars, registry, tokens, requests, left, reading>>

Tick ==
  /\ Spent("ticks")
  /\ now' = now + 1
  /\ UNCHANGED <<limiterVars, storeVars, registry, tokens, requests, reading>>

Calls(r) ==
  \E addr \in LimitKeys, fwd \in LimitKeys \cup {NoHeader} :
    \/ \E c \in Sdks, op \in SdkOps : SdkCalls(r, c, op, addr, fwd)
    \/ \E cred \in Credentials, op \in OtherOps : OtherCalls(r, cred, op, addr, fwd)

Step(r) ==
  \/ UseCachedToken(r)
  \/ FetchToken(r)
  \/ IssueToken(r)
  \/ StoreToken(r)
  \/ FetchFails(r)
  \/ PassLimiter(r)
  \/ TurnAway(r)
  \/ Authenticate(r)
  \/ Unauthorized(r)
  \/ Forbidden(r)
  \/ HandlerFails(r)
  \/ \E s \in SandboxIds : HandleCreate(r, s) \/ HandleDelete(r, s) \/ HandleOther(r, s)
  \/ Record(r)

Next ==
  \/ \E r \in Slots : Calls(r) \/ Step(r)
  \/ \E s \in SandboxIds : GetsAddress(s)
  \/ \E filter \in Filters : ReadFirstPage(filter)
  \/ ReadNextPage
  \/ CleanBuckets
  \/ Tick

Spec == Init /\ [][Next]_vars

-----------------------------------------------------------------------------
Entry == [number : Nat, method : {"GET", "POST", "DELETE"}, status : Nat]

Request == [pc : {"idle", "ensure", "fetching", "issued", "sent", "auth", "handler", "audit"},
            sdk : Sdks \cup {NoSdk}, op : AllOps,
            key : LimitKeys \cup {NoHeader}, cred : Credential, role : Roles,
            since : Nat, status : Nat]

(* The types of the variables: a bucket of the limiter never holds more tokens *)
(* than its rate nor less than none (ratelimit.go:60-76), and the audit store  *)
(* never more entries than its capacity (store.go:57-60).                      *)
TypeOK ==
  /\ LimiterTypeOK
  /\ RouterTypeOK
  /\ tokens \in [Sdks -> Token]
  /\ requests \in [Slots -> Request]
  /\ left \in [Kinds -> Nat]
  /\ entries \in Seq(Entry) /\ Len(entries) <= MaxSize
  /\ audited \in Seq(Entry)

(* A client is refused only when the requests of its key that were let         *)
(* through in the last interval are as many as the rate, whatever the clock    *)
(* and the cleanup did to its bucket (ratelimit.go:66-74).                     *)
RefusedOnlyAtLimit ==
  [][\A r \in Slots :
       requests[r].pc = "sent" /\ requests'[r].pc = "idle"
         => AtLimit(requests[r].key)]_vars

(* A request of an SDK that reaches the agent before the client gives up on it *)
(* is never refused for the age of its token, cached by another call or just   *)
(* fetched (transport/http.go:48-89, auth.go:153).                             *)
SdkTokenIsLive ==
  \A r \in Slots :
    /\ requests[r].pc = "auth"
    /\ requests[r].sdk \in Sdks
    /\ now - requests[r].since <= Timeout
    => Accepts(requests[r].cred, now)

Latest(s) ==
  IF Len(s) <= MaxSize THEN s ELSE SubSeq(s, Len(s) - MaxSize + 1, Len(s))

(* The audit log is the latest of all the requests to change something that    *)
(* were authenticated, those that were forbidden included, each once and in    *)
(* the order in which they ended (audit.go:16-53, store.go:53-62).             *)
AuditKeepsTheLatest == entries = Latest(audited)

(* Who pages through the log while it changes has at the end seen every entry  *)
(* that was there from the first page to the last: additions and evictions     *)
(* between two pages may repeat an entry, never skip one (store.go:65-98).     *)
PagingSkipsNothing ==
  reading.done => reading.first \cap Numbers(DOMAIN entries) \subseteq reading.seen
=============================================================================
