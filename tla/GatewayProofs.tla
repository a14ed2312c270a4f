---------------------------- MODULE GatewayProofs ----------------------------
(***************************************************************************)
(* Theorems about Gateway for every value of its constants.                *)
(***************************************************************************)
EXTENDS Gateway, SequenceTheorems, FiniteSetTheorems, TLAPS

-----------------------------------------------------------------------------
(* The limiter.                                                             *)

\* What relates a bucket to the history of its key: the current window began
\* with request f, the one before it with request p (0: there was none).
Windows(k) ==
  LET a == admitted[k]
      n == Len(a)
      b == buckets[k]
  IN  /\ \A i \in 1 .. n : a[i] <= now
      /\ \A i, j \in 1 .. n : i <= j => a[i] <= a[j]
      /\ n = 0 => ~b.known
      /\ n > 0 => \E f \in 1 .. n : \E p \in 0 .. f - 1 :
           /\ b.known => b.lastReset = a[f] /\ b.tokens = Rate - (n - f + 1)
           /\ ~b.known => now - a[f] >= Interval
           /\ n - f + 1 <= Rate
           /\ f - p <= Rate
           /\ p > 0 => a[f] - a[p] >= Interval

Bounded(k) ==
  \A i \in 1 .. Len(admitted[k]) :
    i + 2 * Rate - 1 <= Len(admitted[k])
      => admitted[k][i + 2 * Rate - 1] - admitted[k][i] >= Interval

LimiterInv == LimiterTypeOK /\ \A k \in LimitKeys : Windows(k) /\ Bounded(k)

\* A request that is let through keeps the windows of its key and its bound.
LEMMA AdmitKeepsWindows ==
  ASSUME LimiterTypeOK, NEW k \in LimitKeys, Windows(k), Bounded(k), Admit(k), now' = now
  PROVE  LimiterTypeOK' /\ Windows(k)' /\ Bounded(k)'
<1> DEFINE a == admitted[k]
           n == Len(a)
           b == buckets[k]
           a2 == admitted'[k]
           b2 == buckets'[k]
<1>1. Rate \in Nat \ {0} /\ Interval \in Nat \ {0} /\ now \in Nat
  BY LimiterAssumption DEF LimiterTypeOK
<1>2. a \in Seq(Nat) /\ n \in Nat /\ b \in Bucket
  BY DEF LimiterTypeOK
<1>3. a2 = Append(a, now) /\ b2 = Spend(Current(b))
  BY DEF Admit, LimiterTypeOK
<1>4. /\ a2 \in Seq(Nat) /\ Len(a2) = n + 1
      /\ \A i \in 1 .. n : a2[i] = a[i]
      /\ a2[n + 1] = now
  BY <1>1, <1>2, <1>3
<1>5. Current(b) \in Bucket /\ Current(b).known /\ Current(b).tokens > 0
  BY <1>1, <1>2 DEF Admit, Current, Bucket
<1>6. /\ b2 \in Bucket /\ b2.known
      /\ b2.lastReset = Current(b).lastReset
      /\ b2.tokens = Current(b).tokens - 1
  BY <1>1, <1>3, <1>5 DEF Bucket, Spend
<1>7. LimiterTypeOK'
  BY <1>3, <1>4, <1>6 DEF LimiterTypeOK, Admit
<1>8. /\ \A i \in 1 .. n : a[i] <= now
      /\ \A i, j \in 1 .. n : i <= j => a[i] <= a[j]
      /\ n = 0 => ~b.known
      /\ n > 0 => \E f \in 1 .. n : \E p \in 0 .. f - 1 :
           /\ b.known => b.lastReset = a[f] /\ b.tokens = Rate - (n - f + 1)
           /\ ~b.known => now - a[f] >= Interval
           /\ n - f + 1 <= Rate
           /\ f - p <= Rate
           /\ p > 0 => a[f] - a[p] >= Interval
  BY DEF Windows
<1>12. \A i \in 1 .. n : i + 2 * Rate - 1 <= n => a[i + 2 * Rate - 1] - a[i] >= Interval
  BY DEF Bounded
<1>13. now' = now
  OBVIOUS
<1>14. /\ \A i \in 1 .. n : a[i] \in Nat
       /\ \A i \in 1 .. n + 1 : a2[i] \in Nat
  BY <1>2, <1>4
<1> HIDE DEF a, n, b, a2, b2
<1>15. /\ \A i \in 1 .. n + 1 : a2[i] <= now
       /\ \A i, j \in 1 .. n + 1 : i <= j => a2[i] <= a2[j]
  <2>1. ASSUME NEW i \in 1 .. n + 1 PROVE a2[i] <= now
    <3>1. i \in 1 .. n \/ i = n + 1
      BY <1>2
    <3> QED BY <1>1, <1>4, <1>8, <3>1
  <2>2. ASSUME NEW i \in 1 .. n + 1, NEW j \in 1 .. n + 1, i <= j PROVE a2[i] <= a2[j]
    <3>1. CASE j \in 1 .. n
      <4>1. i \in 1 .. n
        BY <1>2, <2>2, <3>1
      <4> QED BY <1>4, <1>8, <2>2, <3>1, <4>1
    <3>2. CASE j = n + 1
      BY <1>4, <2>1, <3>2
    <3> QED BY <1>2, <3>1, <3>2
  <2> QED BY <2>1, <2>2
<1>9. \E f \in 1 .. n + 1 : \E p \in 0 .. f - 1 :
         /\ b2.lastReset = a2[f] /\ b2.tokens = Rate - (n + 1 - f + 1)
         /\ n + 1 - f + 1 <= Rate
         /\ f - p <= Rate
         /\ p > 0 => a2[f] - a2[p] >= Interval
  <2>1. CASE n = 0
    <3>1. ~b.known
      BY <2>1, <1>8
    <3>2. b2.lastReset = now /\ b2.tokens = Rate - 1
      BY <1>6, <3>1 DEF Current
    <3>3. 1 \in 1 .. n + 1 /\ 0 \in 0 .. 1 - 1
      BY <1>2
    <3> QED BY <1>1, <1>4, <2>1, <3>2, <3>3
  <2>2. CASE n > 0
    <3>1. PICK f \in 1 .. n : \E p \in 0 .. f - 1 :
             /\ b.known => b.lastReset = a[f] /\ b.tokens = Rate - (n - f + 1)
             /\ ~b.known => now - a[f] >= Interval
             /\ n - f + 1 <= Rate
             /\ f - p <= Rate
             /\ p > 0 => a[f] - a[p] >= Interval
      BY <2>2, <1>8
    <3>2. PICK p \in 0 .. f - 1 :
             /\ b.known => b.lastReset = a[f] /\ b.tokens = Rate - (n - f + 1)
             /\ ~b.known => now - a[f] >= Interval
             /\ n - f + 1 <= Rate
             /\ f - p <= Rate
             /\ p > 0 => a[f] - a[p] >= Interval
      BY <3>1
    <3>3. CASE ~b.known \/ now - b.lastReset >= Interval
      <4>1. b2.lastReset = now /\ b2.tokens = Rate - 1
        BY <1>6, <3>3 DEF Current
      <4>2. now - a[f] >= Interval
        BY <3>2, <3>3
      <4>3. n + 1 \in 1 .. n + 1 /\ f \in 0 .. n + 1 - 1
        BY <1>2
      <4> QED BY <1>1, <1>2, <1>4, <3>2, <4>1, <4>2, <4>3
    <3>4. CASE b.known /\ ~(now - b.lastReset >= Interval)
      <4>1. b2.lastReset = b.lastReset /\ b2.tokens = b.tokens - 1 /\ b.tokens > 0
        BY <1>5, <1>6, <3>4 DEF Current
      <4>2. f \in 1 .. n + 1 /\ p \in 0 .. f - 1 /\ (p > 0 => p \in 1 .. n)
        BY <1>2
      <4> QED BY <1>1, <1>2, <1>4, <3>2, <3>4, <4>1, <4>2
    <3> QED BY <3>3, <3>4
  <2> QED BY <1>2, <2>1, <2>2
<1>10. Windows(k)'
  <2>1. /\ \A i \in 1 .. Len(a2) : a2[i] <= now'
        /\ \A i, j \in 1 .. Len(a2) : i <= j => a2[i] <= a2[j]
        /\ Len(a2) # 0
    BY <1>2, <1>4, <1>13, <1>15
  <2>2. \E f \in 1 .. Len(a2) : \E p \in 0 .. f - 1 :
           /\ b2.known => b2.lastReset = a2[f] /\ b2.tokens = Rate - (Len(a2) - f + 1)
           /\ ~b2.known => now' - a2[f] >= Interval
           /\ Len(a2) - f + 1 <= Rate
           /\ f - p <= Rate
           /\ p > 0 => a2[f] - a2[p] >= Interval
    <3>1. PICK f \in 1 .. n + 1 : \E p \in 0 .. f - 1 :
             /\ b2.lastReset = a2[f] /\ b2.tokens = Rate - (n + 1 - f + 1)
             /\ n + 1 - f + 1 <= Rate
             /\ f - p <= Rate
             /\ p > 0 => a2[f] - a2[p] >= Interval
      BY <1>9
    <3>2. Len(a2) = n + 1 /\ b2.known
      BY <1>4, <1>6
    <3>3. f \in 1 .. Len(a2)
      BY <3>2
    <3>4. PICK p \in 0 .. f - 1 :
             /\ b2.lastReset = a2[f] /\ b2.tokens = Rate - (n + 1 - f + 1)
             /\ n + 1 - f + 1 <= Rate
             /\ f - p <= Rate
             /\ p > 0 => a2[f] - a2[p] >= Interval
      BY <3>1
    <3>5. /\ b2.lastReset = a2[f] /\ b2.tokens = Rate - (Len(a2) - f + 1)
          /\ Len(a2) - f + 1 <= Rate
      BY <1>1, <1>2, <3>2, <3>4
    <3> QED BY <3>2, <3>3, <3>4, <3>5, Zenon
  <2> QED BY <2>1, <2>2 DEF Windows, a2, b2
<1>11. Bounded(k)'
  <2> SUFFICES ASSUME NEW i \in 1 .. n + 1, i + 2 * Rate - 1 <= n + 1
               PROVE  a2[i + 2 * Rate - 1] - a2[i] >= Interval
    BY <1>4 DEF Bounded, a, n, a2
  <2>1. CASE i + 2 * Rate - 1 <= n
    <3>1. i \in 1 .. n /\ i + 2 * Rate - 1 \in 1 .. n
      BY <1>1, <1>2, <2>1
    <3> QED BY <1>4, <1>12, <2>1, <3>1
  <2>2. CASE i + 2 * Rate - 1 = n + 1
    <3>1. PICK f \in 1 .. n + 1 : \E p \in 0 .. f - 1 :
             /\ n + 1 - f + 1 <= Rate
             /\ f - p <= Rate
             /\ p > 0 => a2[f] - a2[p] >= Interval
      BY <1>9
    <3>2. PICK p \in 0 .. f - 1 :
             /\ n + 1 - f + 1 <= Rate
             /\ f - p <= Rate
             /\ p > 0 => a2[f] - a2[p] >= Interval
      BY <3>1
    <3>3. p >= i /\ p \in 1 .. n + 1 /\ i \in 1 .. n + 1
      BY <1>1, <1>2, <2>2, <3>2
    <3>4. a2[i] <= a2[p] /\ a2[f] <= a2[n + 1] /\ a2[f] - a2[p] >= Interval
      BY <1>2, <1>15, <3>2, <3>3
    <3>5. a2[i] \in Nat /\ a2[p] \in Nat /\ a2[f] \in Nat /\ a2[n + 1] \in Nat
      BY <1>14, <3>3, <1>2
    <3> QED BY <1>1, <2>2, <3>4, <3>5
  <2> QED BY <1>1, <1>2, <2>1, <2>2
<1> QED BY <1>7, <1>10, <1>11

\* A request is refused only if its bucket, empty, is that of a full window.
LEMMA RefuseKeepsBuckets ==
  ASSUME LimiterTypeOK, NEW k \in LimitKeys, Windows(k), Refuse(k)
  PROVE  buckets' = buckets /\ AtLimit(k)
<1> DEFINE a == admitted[k]
           n == Len(a)
           b == buckets[k]
<1>1. /\ Rate \in Nat \ {0} /\ Interval \in Nat \ {0} /\ now \in Nat
      /\ a \in Seq(Nat) /\ n \in Nat /\ b \in Bucket
  BY LimiterAssumption DEF LimiterTypeOK
<1>2. b.known /\ ~(now - b.lastReset >= Interval) /\ b.tokens <= 0 /\ Current(b) = b
  BY <1>1 DEF Refuse, Current, Bucket
<1>3. buckets' = buckets
  BY <1>2 DEF Refuse, LimiterTypeOK
<1>4. n > 0
  BY <1>1, <1>2 DEF Windows
<1>5. PICK f \in 1 .. n : \E p \in 0 .. f - 1 :
         /\ b.known => b.lastReset = a[f] /\ b.tokens = Rate - (n - f + 1)
         /\ n - f + 1 <= Rate
  BY <1>4 DEF Windows
<1>6. b.lastReset = a[f] /\ b.tokens = Rate - (n - f + 1) /\ n - f + 1 <= Rate
  BY <1>2, <1>5
<1>7. b.tokens \in Int /\ a[f] \in Nat /\ f \in Int
  <2>1. f \in 1 .. n
    BY <1>5
  <2>2. f \in Int /\ a[f] \in Nat
    BY <1>1, <2>1
  <2>3. b.tokens \in Int
    BY <1>1 DEF Bucket
  <2> QED BY <2>2, <2>3
<1> HIDE DEF b, n
<1>8. f = n - Rate + 1 /\ n >= Rate
  BY <1>1, <1>2, <1>5, <1>6, <1>7
<1>9. now - a[n - Rate + 1] < Interval
  <2>1. a[n - Rate + 1] = b.lastReset
    BY <1>6, <1>8
  <2>2. b.lastReset \in Nat
    BY <1>1 DEF Bucket
  <2> QED BY <1>1, <1>2, <2>1, <2>2
<1> QED BY <1>3, <1>8, <1>9 DEF AtLimit, n

\* The windows of a key whose history stays: its bucket stays too, or is deleted
\* two intervals after its window began, and time goes by.
LEMMA RestKeepsWindows ==
  ASSUME LimiterTypeOK, NEW k \in LimitKeys, Windows(k), Bounded(k),
         admitted'[k] = admitted[k], now' \in Nat, now' >= now,
         \/ buckets'[k] = buckets[k]
         \/ buckets'[k] = NoBucket /\ IsStale(buckets[k])
  PROVE  Windows(k)' /\ Bounded(k)'
<1> DEFINE a == admitted[k]
           n == Len(a)
           b == buckets[k]
           b2 == buckets'[k]
<1>1. /\ Rate \in Nat \ {0} /\ Interval \in Nat \ {0} /\ now \in Nat
      /\ a \in Seq(Nat) /\ n \in Nat /\ b \in Bucket
  BY LimiterAssumption DEF LimiterTypeOK
<1>2. Bounded(k)'
  BY DEF Bounded
<1>3. /\ \A i \in 1 .. n : a[i] \in Nat /\ a[i] <= now
      /\ \A i, j \in 1 .. n : i <= j => a[i] <= a[j]
      /\ n = 0 => ~b.known
  BY <1>1 DEF Windows
<1>4. /\ \A i \in 1 .. n : a[i] <= now'
      /\ n = 0 => ~b2.known
  BY <1>1, <1>3 DEF NoBucket
<1>5. ASSUME n > 0
      PROVE  \E f \in 1 .. n : \E p \in 0 .. f - 1 :
               /\ b2.known => b2.lastReset = a[f] /\ b2.tokens = Rate - (n - f + 1)
               /\ ~b2.known => now' - a[f] >= Interval
               /\ n - f + 1 <= Rate
               /\ f - p <= Rate
               /\ p > 0 => a[f] - a[p] >= Interval
  <2>1. PICK f \in 1 .. n : \E p \in 0 .. f - 1 :
           /\ b.known => b.lastReset = a[f] /\ b.tokens = Rate - (n - f + 1)
           /\ ~b.known => now - a[f] >= Interval
           /\ n - f + 1 <= Rate
           /\ f - p <= Rate
           /\ p > 0 => a[f] - a[p] >= Interval
    BY <1>5 DEF Windows
  <2>2. PICK p \in 0 .. f - 1 :
           /\ b.known => b.lastReset = a[f] /\ b.tokens = Rate - (n - f + 1)
           /\ ~b.known => now - a[f] >= Interval
           /\ n - f + 1 <= Rate
           /\ f - p <= Rate
           /\ p > 0 => a[f] - a[p] >= Interval
    BY <2>1
  <2>3. a[f] \in Nat
    BY <1>3
  <2>4. CASE b2 = b
    <3>1. ~b2.known => now' - a[f] >= Interval
      BY <1>1, <2>2, <2>3, <2>4
    <3>2. b2.known => b2.lastReset = a[f] /\ b2.tokens = Rate - (n - f + 1)
      BY <2>2, <2>4, Zenon
    <3> QED BY <2>2, <3>1, <3>2, Zenon
  <2>5. CASE b2 = NoBucket /\ IsStale(b)
    <3>1. b.known /\ now - b.lastReset > 2 * Interval /\ b.lastReset = a[f]
      BY <2>2, <2>5 DEF IsStale
    <3>2. now' - a[f] >= Interval
      BY <1>1, <2>3, <3>1
    <3>3. ~b2.known
      BY <2>5 DEF NoBucket
    <3> QED BY <2>2, <3>2, <3>3, Zenon
  <2> QED BY <2>4, <2>5
<1> HIDE DEF b2
<1>6. Windows(k)'
  BY <1>3, <1>4, <1>5, Zenon DEF Windows, b2
<1> QED BY <1>2, <1>6

-----------------------------------------------------------------------------
(* The types, and the tokens of the requests of an SDK.                     *)

LivesUntil(cred, t) ==
  cred.scheme = "Bearer" /\ cred.token.signed /\ cred.token.exp >= t

\* What the request q of a slot holds at time t.
Sound(q, t) ==
  /\ q.pc # "idle" => q.key \in LimitKeys
  /\ q.pc \in {"ensure", "fetching", "issued"} => q.sdk \in Sdks
  /\ q.pc \in {"fetching", "issued"} => q.since <= t
  /\ q.pc = "issued" => LivesUntil(q.cred, q.since + TTL)
  /\ q.pc \in {"sent", "auth"} /\ q.sdk \in Sdks => LivesUntil(q.cred, q.since + Timeout)

SlotsInv == \A r \in Slots : requests[r] \in Request /\ Sound(requests[r], now)

TypeInv == TypeOK /\ SlotsInv

IInv == TypeInv /\ LimiterInv

\* A request that becomes a sound one leaves the slots sound.
LEMMA SlotChange ==
  ASSUME TypeInv, NEW r \in Slots, NEW q \in Request, now' = now, Sound(q, now),
         requests' = [requests EXCEPT ![r] = q]
  PROVE  requests' \in [Slots -> Request] /\ SlotsInv'
BY DEF TypeInv, TypeOK, SlotsInv

\* The actions, by what they change besides the slot they run in.
SlotOnly(r) ==
  \/ UseCachedToken(r) \/ FetchToken(r) \/ IssueToken(r) \/ FetchFails(r)
  \/ Authenticate(r) \/ Unauthorized(r) \/ Forbidden(r) \/ HandlerFails(r)
  \/ \E s \in SandboxIds : HandleOther(r, s)

\* So does one that ends,
LEMMA FinishKeeps ==
  ASSUME TypeInv, NEW r \in Slots, Finish(r), now' = now
  PROVE  requests' \in [Slots -> Request] /\ SlotsInv'
<1>1. NoToken \in Token /\ Missing \in Credential
  BY DEF NoToken, Token, Roles, Missing, Credential
<1>2. Idle \in Request
  BY <1>1 DEF Idle, Request, AllOps, Roles
<1>3. Sound(Idle, now)
  BY DEF Sound, Idle
<1> QED BY <1>2, <1>3, SlotChange DEF Finish

\* (what is left of a budget is a number,)
LEMMA SpentTypes ==
  ASSUME left \in [Kinds -> Nat], NEW kind \in Kinds, Spent(kind)
  PROVE  left' \in [Kinds -> Nat]
<1>1. left[kind] \in Nat /\ left[kind] - 1 \in Nat
  BY DEF Spent
<1> QED BY <1>1 DEF Spent

\* one that begins,
LEMMA CallsKeep ==
  ASSUME TypeInv, NEW r \in Slots, Calls(r)
  PROVE  requests' \in [Slots -> Request] /\ SlotsInv' /\ left' \in [Kinds -> Nat]
<1>1. NoToken \in Token /\ Missing \in Credential
  BY DEF NoToken, Token, Roles, Missing, Credential
<1>2. PICK addr \in LimitKeys, fwd \in LimitKeys \cup {NoHeader} :
        \/ \E c \in Sdks, op \in SdkOps : SdkCalls(r, c, op, addr, fwd)
        \/ \E cred \in Credentials, op \in OtherOps : OtherCalls(r, cred, op, addr, fwd)
  BY DEF Calls
<1>3. LimitKey(addr, fwd) \in LimitKeys
  BY <1>2 DEF LimitKey
<1>4. ASSUME NEW c \in Sdks, NEW op \in SdkOps, SdkCalls(r, c, op, addr, fwd)
      PROVE  requests' \in [Slots -> Request] /\ SlotsInv' /\ left' \in [Kinds -> Nat]
  <2> DEFINE q == [Idle EXCEPT !.pc = "ensure", !.sdk = c, !.op = op,
                               !.key = LimitKey(addr, fwd)]
  <2>1. q \in Request
    BY <1>1, <1>3, GatewayAssumption DEF Idle, Request, AllOps, Roles
  <2>2. Sound(q, now)
    BY <1>3 DEF Sound, Idle
  <2>3. now' = now /\ requests' = [requests EXCEPT ![r] = q] /\ left' \in [Kinds -> Nat]
    BY <1>4, SpentTypes DEF SdkCalls, TypeInv, TypeOK, Kinds
  <2> QED BY <2>1, <2>2, <2>3, SlotChange
<1>5. ASSUME NEW cred \in Credentials, NEW op \in OtherOps, OtherCalls(r, cred, op, addr, fwd)
      PROVE  requests' \in [Slots -> Request] /\ SlotsInv' /\ left' \in [Kinds -> Nat]
  <2> DEFINE q == [Idle EXCEPT !.pc = "sent", !.op = op, !.cred = cred,
                               !.key = LimitKey(addr, fwd)]
  <2>1. q \in Request
    BY <1>1, <1>3, GatewayAssumption DEF Idle, Request, AllOps, Roles
  <2>2. Sound(q, now)
    BY <1>3, GatewayAssumption DEF Sound, Idle
  <2>3. now' = now /\ requests' = [requests EXCEPT ![r] = q] /\ left' \in [Kinds -> Nat]
    BY <1>5, SpentTypes DEF OtherCalls, TypeInv, TypeOK, Kinds
  <2> QED BY <2>1, <2>2, <2>3, SlotChange
<1> QED BY <1>2, <1>4, <1>5

\* one that is answered,
LEMMA AnswerKeeps ==
  ASSUME TypeInv, NEW r \in Slots, requests[r].pc = "handler", NEW status \in Nat,
         Answer(r, status), now' = now
  PROVE  requests' \in [Slots -> Request] /\ SlotsInv'
<1> DEFINE q == requests[r]
           q2 == [q EXCEPT !.pc = "audit", !.status = status]
<1>1. q \in Request /\ Sound(q, now)
  BY DEF TypeInv, SlotsInv
<1>2. q2 \in Request /\ Sound(q2, now)
  BY <1>1 DEF Request, Sound
<1>3. requests' = [requests EXCEPT ![r] = q2]
  BY DEF Answer, TypeInv, TypeOK
<1> QED BY <1>2, <1>3, SlotChange

\* and one that a middleware passes on.
LEMMA SlotOnlyKeeps ==
  ASSUME TypeInv, NEW r \in Slots, SlotOnly(r)
  PROVE  requests' \in [Slots -> Request] /\ SlotsInv'
<1> DEFINE q == requests[r]
<1>1. /\ q \in Request /\ Sound(q, now)
      /\ now \in Nat /\ Timeout \in Nat /\ Margin \in Nat /\ TTL \in Nat
      /\ Timeout < Margin /\ 2 * Timeout <= TTL
      /\ tokens \in [Sdks -> Token]
      /\ NoToken \in Token /\ Missing \in Credential
  BY GatewayAssumption, AuthAssumption
  DEF TypeInv, TypeOK, SlotsInv, LimiterTypeOK, NoToken, Token, Roles, Missing, Credential
<1>2. CASE UseCachedToken(r)
  <2> DEFINE t == tokens[q.sdk]
             q2 == [q EXCEPT !.pc = "sent", !.since = now, !.cred = BearerOf(t)]
  <2>1. q.sdk \in Sdks /\ t \in Token /\ t.signed /\ t.exp >= now + Timeout
    BY <1>1, <1>2 DEF UseCachedToken, Fresh, Sound, Token
  <2>2. BearerOf(t) \in Credential /\ LivesUntil(BearerOf(t), now + Timeout)
    BY <2>1 DEF BearerOf, Credential, LivesUntil
  <2>3. q2 \in Request
    BY <1>1, <2>2 DEF Request
  <2>4. Sound(q2, now)
    BY <1>1, <1>2, <2>2 DEF Sound, UseCachedToken, Request
  <2>5. now' = now /\ requests' = [requests EXCEPT ![r] = q2]
    BY <1>2 DEF UseCachedToken, TypeInv, TypeOK
  <2> QED BY <2>3, <2>4, <2>5, SlotChange
<1>3. CASE FetchToken(r)
  <2> DEFINE q2 == [q EXCEPT !.pc = "fetching", !.since = now]
  <2>1. q2 \in Request
    BY <1>1 DEF Request
  <2>2. q2.pc = "fetching" /\ q2.since = now /\ q2.key = q.key /\ q2.sdk = q.sdk
    BY <1>1 DEF Request
  <2>3. q.key \in LimitKeys /\ q.sdk \in Sdks
    BY <1>1, <1>3 DEF Sound, FetchToken
  <2>4. Sound(q2, now)
    BY <1>1, <2>2, <2>3 DEF Sound
  <2>5. now' = now /\ requests' = [requests EXCEPT ![r] = q2]
    BY <1>3 DEF FetchToken, TypeInv, TypeOK
  <2> QED BY <2>1, <2>4, <2>5, SlotChange
<1>4. CASE IssueToken(r)
  <2> DEFINE t == GenerateToken(SdkKey[q.sdk], now)
             q2 == [q EXCEPT !.pc = "issued", !.cred = BearerOf(t)]
  <2>1. q.sdk \in Sdks /\ q.since \in Nat /\ q.since <= now
    BY <1>1, <1>4 DEF IssueToken, Sound, Request
  <2>2. t \in Token /\ t.signed /\ t.exp = now + TTL
    BY <1>1, <2>1, GatewayAssumption DEF GenerateToken, Token
  <2>3. BearerOf(t) \in Credential /\ LivesUntil(BearerOf(t), q.since + TTL)
    BY <1>1, <2>1, <2>2 DEF BearerOf, Credential, LivesUntil
  <2>4. q2 \in Request /\ Sound(q2, now)
    BY <1>1, <1>4, <2>1, <2>3 DEF Request, Sound, IssueToken
  <2>5. now' = now /\ requests' = [requests EXCEPT ![r] = q2]
    BY <1>4 DEF IssueToken, TypeInv, TypeOK
  <2> QED BY <2>4, <2>5, SlotChange
<1>5. CASE FetchFails(r)
  BY <1>5, FinishKeeps DEF FetchFails
<1>6. CASE Authenticate(r)
  <2> DEFINE q2 == [q EXCEPT !.pc = "handler", !.since = 0, !.cred = Missing,
                             !.role = RoleOf(q.cred)]
  <2>1. RoleOf(q.cred) \in Roles
    BY <1>1, <1>6, GatewayAssumption
    DEF Authenticate, Accepts, RoleOf, Request, Credential, Token
  <2>2. q2 \in Request /\ Sound(q2, now)
    BY <1>1, <1>6, <2>1 DEF Request, Sound, Authenticate
  <2>3. now' = now /\ requests' = [requests EXCEPT ![r] = q2]
    BY <1>6 DEF Authenticate, TypeInv, TypeOK
  <2> QED BY <2>2, <2>3, SlotChange
<1>7. CASE Unauthorized(r)
  BY <1>7, FinishKeeps DEF Unauthorized
<1>9. CASE Forbidden(r)
  BY <1>1, <1>9, AnswerKeeps DEF Forbidden
<1>10. ASSUME NEW s \in SandboxIds, HandleOther(r, s)
       PROVE  requests' \in [Slots -> Request] /\ SlotsInv'
  <2>1. StatusOf(q.op, s) \in Nat
    BY DEF StatusOf
  <2> QED BY <1>1, <1>10, <2>1, AnswerKeeps DEF HandleOther
<1>11. CASE HandlerFails(r)
  BY <1>1, <1>11, AnswerKeeps DEF HandlerFails
<1> QED BY <1>2, <1>3, <1>4, <1>5, <1>6, <1>7, <1>9, <1>10, <1>11 DEF SlotOnly

\* Every step keeps the types and the slots sound.
LEMMA TypeNext ==
  ASSUME IInv, [Next]_vars
  PROVE  TypeInv'
<1> USE DEF IInv
<1>1. CASE UNCHANGED vars
  BY <1>1 DEF vars, TypeInv, TypeOK, SlotsInv, LimiterTypeOK, RouterTypeOK
<1>2. ASSUME NEW r \in Slots, Calls(r)
      PROVE  TypeInv'
  <2>1. UNCHANGED <<now, limiterVars, storeVars, registry, tokens>>
    BY <1>2 DEF Calls, SdkCalls, OtherCalls
  <2> QED BY <1>2, <2>1, CallsKeep
          DEF TypeInv, TypeOK, LimiterTypeOK, RouterTypeOK, limiterVars, storeVars
<1>3. ASSUME NEW r \in Slots, SlotOnly(r)
      PROVE  TypeInv'
  <2>1. UNCHANGED <<now, limiterVars, storeVars, registry, tokens, left>>
    BY <1>3 DEF SlotOnly, UseCachedToken, FetchToken, IssueToken, FetchFails, Authenticate,
                Unauthorized, Forbidden, HandlerFails, HandleOther
  <2> QED BY <1>3, <2>1, SlotOnlyKeeps
          DEF TypeInv, TypeOK, LimiterTypeOK, RouterTypeOK, limiterVars, storeVars
<1>4. ASSUME NEW r \in Slots, StoreToken(r)
      PROVE  TypeInv'
  <2> DEFINE q == requests[r]
             q2 == [q EXCEPT !.pc = "sent", !.since = now]
  <2>1. q \in Request /\ Sound(q, now) /\ q.pc = "issued" /\ now \in Nat
    BY <1>4 DEF TypeInv, TypeOK, SlotsInv, LimiterTypeOK, StoreToken
  <2>2. /\ q.key \in LimitKeys /\ q.sdk \in Sdks /\ q.cred \in Credential
        /\ q.since \in Nat /\ q.cred.token \in Token /\ q.cred.token.exp \in Nat
    BY <2>1 DEF Sound, Request, Credential, Token
  <2>3. LivesUntil(q.cred, q.since + TTL)
    BY <2>1 DEF Sound
  <2>4. LivesUntil(q.cred, now + Timeout)
    BY <1>4, <2>1, <2>2, <2>3, GatewayAssumption, AuthAssumption DEF LivesUntil, StoreToken
  <2>5. /\ q2 \in Request /\ q2.pc = "sent" /\ q2.since = now /\ q2.cred = q.cred
        /\ q2.key = q.key
    BY <2>1 DEF Request
  <2>6. Sound(q2, now)
    BY <2>2, <2>4, <2>5 DEF Sound
  <2>7. /\ UNCHANGED <<now, limiterVars, storeVars, registry, left>>
        /\ requests' = [requests EXCEPT ![r] = q2]
    BY <1>4 DEF StoreToken, TypeInv, TypeOK
  <2>8. requests' \in [Slots -> Request] /\ SlotsInv'
    BY <2>5, <2>6, <2>7, SlotChange
  <2>9. tokens' \in [Sdks -> Token]
    BY <1>4, <2>2 DEF StoreToken, TypeInv, TypeOK
  <2> QED BY <2>7, <2>8, <2>9
          DEF TypeInv, TypeOK, LimiterTypeOK, RouterTypeOK, limiterVars, storeVars
<1>5. ASSUME NEW r \in Slots, PassLimiter(r)
      PROVE  TypeInv'
  <2> DEFINE q == requests[r]
             q2 == [q EXCEPT !.pc = "auth"]
  <2>1. q \in Request /\ Sound(q, now) /\ q.pc = "sent"
    BY <1>5 DEF TypeInv, TypeOK, SlotsInv, PassLimiter
  <2>2. /\ q2 \in Request /\ q2.pc = "auth" /\ q2.since = q.since /\ q2.cred = q.cred
        /\ q2.key = q.key /\ q2.sdk = q.sdk
    BY <2>1 DEF Request
  <2>3. Sound(q2, now)
    BY <2>1, <2>2 DEF Sound
  <2>4. /\ UNCHANGED <<now, storeVars, registry, tokens, left>>
        /\ requests' = [requests EXCEPT ![r] = q2]
    BY <1>5 DEF PassLimiter, TypeInv, TypeOK
  <2>5. requests' \in [Slots -> Request] /\ SlotsInv'
    BY <2>2, <2>3, <2>4, SlotChange
  <2>6. LimiterTypeOK'
    <3>1. q.key \in LimitKeys /\ Admit(q.key)
      BY <1>5, <2>1 DEF Sound, PassLimiter
    <3> QED BY <2>4, <3>1, AdmitKeepsWindows DEF LimiterInv
  <2> QED BY <2>4, <2>5, <2>6 DEF TypeInv, TypeOK, RouterTypeOK, storeVars
<1>6. ASSUME NEW r \in Slots, TurnAway(r)
      PROVE  TypeInv'
  <2>1. /\ UNCHANGED <<now, admitted, storeVars, registry, tokens, left>>
        /\ Finish(r)
    BY <1>6 DEF TurnAway, Refuse
  <2>2. requests[r].key \in LimitKeys /\ Refuse(requests[r].key)
    BY <1>6 DEF TurnAway, TypeInv, SlotsInv, Sound
  <2>3. buckets' = buckets
    BY <2>2, RefuseKeepsBuckets DEF LimiterInv
  <2> QED BY <2>1, <2>3, FinishKeeps
          DEF TypeInv, TypeOK, LimiterTypeOK, RouterTypeOK, storeVars
<1>7. ASSUME NEW r \in Slots, NEW s \in SandboxIds, HandleCreate(r, s) \/ HandleDelete(r, s)
      PROVE  TypeInv'
  <2>1. /\ UNCHANGED <<now, limiterVars, storeVars, tokens, left>>
        /\ requests[r].pc = "handler"
        /\ Answer(r, 201) \/ Answer(r, 204)
    BY <1>7 DEF HandleCreate, HandleDelete
  <2>2. requests' \in [Slots -> Request] /\ SlotsInv'
    BY <2>1, AnswerKeeps
  <2>3. RouterTypeOK'
    BY <1>7 DEF HandleCreate, HandleDelete, TypeInv, TypeOK, RouterTypeOK
  <2> QED BY <2>1, <2>2, <2>3
          DEF TypeInv, TypeOK, LimiterTypeOK, limiterVars, storeVars
<1>8. ASSUME NEW r \in Slots, Record(r)
      PROVE  TypeInv'
  <2> DEFINE q == requests[r]
             entry == [number |-> Len(audited) + 1, method |-> Method(q.op),
                       status |-> q.status]
  <2>1. q \in Request
    BY DEF TypeInv, SlotsInv
  <2>2. Method(q.op) \in {"GET", "POST", "DELETE"}
    BY <2>1 DEF Request, AllOps, Mutating, Method
  <2>3. entry \in Entry
    BY <2>1, <2>2 DEF Entry, Request, TypeInv, TypeOK
  <2>4. /\ entries \in Seq(Entry) /\ Len(entries) <= MaxSize /\ audited \in Seq(Entry)
        /\ MaxSize \in Nat \ {0}
    BY StoreAssumption DEF TypeInv, TypeOK
  <2>5. audited' \in Seq(Entry)
    <3>1. audited' = Append(audited, entry) \/ audited' = audited
      BY <1>8 DEF Record
    <3> HIDE DEF entry
    <3> QED BY <2>3, <2>4, <3>1
  <2>6. entries' \in Seq(Entry) /\ Len(entries') <= MaxSize
    <3>1. entries' = Append(Evicted(entries), entry) \/ entries' = entries
      BY <1>8 DEF Record, Add
    <3> HIDE DEF entry
    <3>2. Evicted(entries) \in Seq(Entry) /\ Len(Evicted(entries)) <= MaxSize - 1
      BY <2>4 DEF Evicted
    <3> QED BY <2>3, <2>4, <3>1, <3>2
  <2>7. UNCHANGED <<now, limiterVars, registry, tokens, left>> /\ Finish(r)
    BY <1>8 DEF Record
  <2> QED BY <2>5, <2>6, <2>7, FinishKeeps
          DEF TypeInv, TypeOK, LimiterTypeOK, RouterTypeOK, limiterVars
<1>9. ASSUME NEW s \in SandboxIds, GetsAddress(s)
      PROVE  TypeInv'
  BY <1>9 DEF GetsAddress, TypeInv, TypeOK, SlotsInv, LimiterTypeOK, RouterTypeOK,
              limiterVars, storeVars
<1>10. CASE ReadNextPage \/ \E filter \in Filters : ReadFirstPage(filter)
  <2>1. UNCHANGED <<now, limiterVars, storeVars, registry, tokens, requests, left>>
    BY <1>10 DEF ReadFirstPage, ReadNextPage
  <2> QED BY <2>1 DEF TypeInv, TypeOK, SlotsInv, LimiterTypeOK, RouterTypeOK,
                      limiterVars, storeVars
<1>11. CASE CleanBuckets
  <2>1. buckets' \in [LimitKeys -> Bucket]
    BY <1>11, LimiterAssumption
    DEF CleanBuckets, Cleanup, TypeInv, TypeOK, LimiterTypeOK, NoBucket, Bucket
  <2> QED BY <1>11, <2>1 DEF CleanBuckets, Cleanup, TypeInv, TypeOK, SlotsInv, LimiterTypeOK,
                             RouterTypeOK, storeVars
<1>12. CASE Tick
  <2>1. now \in Nat /\ now' = now + 1
        /\ UNCHANGED <<limiterVars, storeVars, registry, tokens, requests>>
        /\ left' \in [Kinds -> Nat]
    BY <1>12, SpentTypes DEF Tick, TypeInv, TypeOK, LimiterTypeOK, Kinds
  <2>2. \A r \in Slots : Sound(requests[r], now')
    BY <2>1 DEF TypeInv, SlotsInv, Sound, Request
  <2> QED BY <2>1, <2>2 DEF TypeInv, TypeOK, SlotsInv, LimiterTypeOK, RouterTypeOK,
                            limiterVars, storeVars
<1> QED BY <1>1, <1>2, <1>3, <1>4, <1>5, <1>6, <1>7, <1>8, <1>9, <1>10, <1>11, <1>12
        DEF Next, Step, SlotOnly

\* Every step keeps what the limiter has granted within its rates.
LEMMA LimiterNext ==
  ASSUME IInv, [Next]_vars
  PROVE  LimiterInv'
<1> USE DEF IInv
<1>1. LimiterTypeOK /\ LimiterTypeOK'
  BY TypeNext DEF TypeInv, TypeOK
<1>2. /\ now \in Nat /\ now' \in Nat
      /\ buckets \in [LimitKeys -> Bucket] /\ admitted \in [LimitKeys -> Seq(Nat)]
  BY <1>1 DEF LimiterTypeOK
<1> SUFFICES ASSUME NEW k \in LimitKeys
             PROVE  Windows(k)' /\ Bounded(k)'
  BY <1>1 DEF LimiterInv
<1>3. Windows(k) /\ Bounded(k)
  BY DEF LimiterInv
<1>4. CASE UNCHANGED <<now, buckets, admitted>>
  BY <1>1, <1>2, <1>3, <1>4, RestKeepsWindows
<1>5. ASSUME NEW r \in Slots, PassLimiter(r)
      PROVE  Windows(k)' /\ Bounded(k)'
  <2>1. requests[r].key \in LimitKeys /\ Admit(requests[r].key) /\ now' = now
    BY <1>5 DEF PassLimiter, TypeInv, SlotsInv, Sound
  <2>2. CASE requests[r].key = k
    BY <1>1, <1>3, <2>1, <2>2, AdmitKeepsWindows
  <2>3. CASE requests[r].key # k
    <3>1. admitted'[k] = admitted[k] /\ buckets'[k] = buckets[k]
      BY <1>2, <2>1, <2>3 DEF Admit
    <3> QED BY <1>1, <1>2, <1>3, <2>1, <3>1, RestKeepsWindows
  <2> QED BY <2>2, <2>3
<1>6. ASSUME NEW r \in Slots, TurnAway(r)
      PROVE  Windows(k)' /\ Bounded(k)'
  <2>1. /\ requests[r].key \in LimitKeys /\ Refuse(requests[r].key)
        /\ now' = now /\ admitted' = admitted
    BY <1>6 DEF TurnAway, Refuse, TypeInv, SlotsInv, Sound
  <2>2. buckets' = buckets
    BY <1>1, <2>1, RefuseKeepsBuckets DEF LimiterInv
  <2> QED BY <1>1, <1>2, <1>3, <2>1, <2>2, RestKeepsWindows
<1>7. CASE CleanBuckets
  <2>1. /\ now' = now /\ admitted' = admitted
        /\ \/ buckets'[k] = buckets[k]
           \/ buckets'[k] = NoBucket /\ IsStale(buckets[k])
    BY <1>7 DEF CleanBuckets, Cleanup
  <2> QED BY <1>1, <1>2, <1>3, <2>1, RestKeepsWindows
<1>8. CASE Tick
  <2>1. now' = now + 1 /\ admitted' = admitted /\ buckets' = buckets
    BY <1>8 DEF Tick, limiterVars
  <2> QED BY <1>1, <1>2, <1>3, <2>1, RestKeepsWindows
<1>9. ASSUME NEW r \in Slots, Calls(r)
      PROVE  UNCHANGED <<now, buckets, admitted>>
  BY <1>9 DEF Calls, SdkCalls, OtherCalls, limiterVars
<1>10. ASSUME NEW r \in Slots, Step(r)
       PROVE  PassLimiter(r) \/ TurnAway(r) \/ UNCHANGED <<now, buckets, admitted>>
  BY <1>10 DEF Step, UseCachedToken, FetchToken, IssueToken, StoreToken, FetchFails,
               Authenticate, Unauthorized, Forbidden, HandleCreate, HandleDelete, HandleOther,
               HandlerFails, Record, limiterVars
<1>11. ASSUME \/ UNCHANGED vars
              \/ \E s \in SandboxIds : GetsAddress(s)
              \/ \E filter \in Filters : ReadFirstPage(filter)
              \/ ReadNextPage
       PROVE  UNCHANGED <<now, buckets, admitted>>
  BY <1>11 DEF vars, GetsAddress, ReadFirstPage, ReadNextPage, limiterVars
<1> QED BY <1>4, <1>5, <1>6, <1>7, <1>8, <1>9, <1>10, <1>11 DEF Next

\* The invariant holds at first,
LEMMA IInvInit == Init => IInv
<1> SUFFICES ASSUME Init PROVE IInv
  OBVIOUS
<1>1. /\ NoToken \in Token /\ Missing \in Credential
      /\ Rate \in Nat \ {0} /\ MaxSize \in Nat \ {0}
  BY LimiterAssumption, StoreAssumption DEF NoToken, Token, Roles, Missing, Credential
<1>2. NoBucket \in Bucket
  BY <1>1 DEF NoBucket, Bucket
<1>3. LimiterTypeOK
  BY <1>2 DEF Init, LimiterInit, LimiterTypeOK
<1>4. Idle \in Request /\ Sound(Idle, now)
  BY <1>1 DEF Idle, Request, AllOps, Roles, Sound
<1>5. TypeInv
  BY <1>1, <1>3, <1>4, GatewayAssumption
  DEF Init, TypeInv, TypeOK, SlotsInv, RouterInit, RouterTypeOK, StoreInit
<1>6. \A k \in LimitKeys : Windows(k) /\ Bounded(k)
  <2> SUFFICES ASSUME NEW k \in LimitKeys PROVE Windows(k) /\ Bounded(k)
    OBVIOUS
  <2>1. admitted[k] = <<>> /\ Len(admitted[k]) = 0 /\ ~buckets[k].known
    BY DEF Init, LimiterInit, NoBucket
  <2> QED BY <2>1 DEF Windows, Bounded
<1> QED BY <1>3, <1>5, <1>6 DEF IInv, LimiterInv

\* and in every reachable state.
LEMMA IInvHolds == Spec => []IInv
<1>1. IInv /\ [Next]_vars => IInv'
  BY TypeNext, LimiterNext DEF IInv
<1> QED BY <1>1, IInvInit, PTL DEF Spec

-----------------------------------------------------------------------------
(* The theorems.                                                            *)

(* Buckets, tokens, requests and the audit log keep their types and bounds in  *)
(* every behaviour, whatever the rate, the clock and the number of requests.   *)
THEOREM TypeCorrect == Spec => []TypeOK
<1>1. IInv => TypeOK
  BY DEF IInv, TypeInv
<1> QED BY <1>1, IInvHolds, PTL

(* Of every key fewer requests than twice the rate are let through in any      *)
(* interval, for every rate and interval (ratelimit.go:54-77).                 *)
THEOREM RateBound == Spec => []FewerThanTwoRates
<1>1. IInv => FewerThanTwoRates
  BY DEF IInv, LimiterInv, Bounded, FewerThanTwoRates
<1> QED BY <1>1, IInvHolds, PTL

(* A request is refused only if its key has used the rate up in the interval   *)
(* that ends at that moment (ratelimit.go:66-74).                              *)
THEOREM NeverRefusedBelowLimit == Spec => RefusedOnlyAtLimit
<1>1. IInv /\ [Next]_vars =>
        [\A r \in Slots : requests[r].pc = "sent" /\ requests'[r].pc = "idle"
           => AtLimit(requests[r].key)]_vars
  <2> SUFFICES ASSUME IInv, Next, NEW r \in Slots,
                      requests[r].pc = "sent", requests'[r].pc = "idle"
               PROVE  AtLimit(requests[r].key)
    OBVIOUS
  <2>1. TurnAway(r)
    <3>1. requests \in [Slots -> Request]
      BY DEF IInv, TypeInv, TypeOK
    <3>2. ASSUME NEW s \in Slots, Calls(s) PROVE FALSE
      BY <3>1, <3>2 DEF Calls, SdkCalls, OtherCalls, Request, Idle
    <3>3. ASSUME NEW s \in Slots, Step(s) PROVE TurnAway(r)
      BY <3>1, <3>3 DEF Step, UseCachedToken, FetchToken, IssueToken, StoreToken, FetchFails,
                        PassLimiter, TurnAway, Authenticate, Unauthorized, Forbidden,
                        HandleCreate, HandleDelete, HandleOther, HandlerFails, Record, Finish, Answer, Request
    <3>4. ASSUME requests' = requests PROVE FALSE
      BY <3>4
    <3> QED BY <3>2, <3>3, <3>4
            DEF Next, GetsAddress, ReadFirstPage, ReadNextPage, CleanBuckets, Tick
  <2>2. requests[r].key \in LimitKeys /\ Refuse(requests[r].key)
    BY <2>1 DEF TurnAway, IInv, TypeInv, SlotsInv, Sound
  <2> QED BY <2>2, RefuseKeepsBuckets DEF IInv, LimiterInv
<1> QED BY <1>1, IInvHolds, PTL DEF Spec, RefusedOnlyAtLimit

(* A call of an SDK is never refused for the age of its token while the client *)
(* waits, for every lifetime, margin and timeout the assumption admits: the    *)
(* code has 900, 60 and 30 seconds (transport/http.go:48-89, auth.go:111).     *)
THEOREM LiveToken == Spec => []SdkTokenIsLive
<1>1. IInv => SdkTokenIsLive
  <2> SUFFICES ASSUME IInv, NEW r \in Slots, requests[r].pc = "auth", requests[r].sdk \in Sdks,
                      now - requests[r].since <= Timeout
               PROVE  Accepts(requests[r].cred, now)
    BY DEF SdkTokenIsLive
  <2>1. /\ LivesUntil(requests[r].cred, requests[r].since + Timeout)
        /\ requests[r].since \in Nat /\ requests[r].cred.token.exp \in Nat
        /\ now \in Nat /\ Timeout \in Nat
    BY GatewayAssumption
    DEF IInv, TypeInv, TypeOK, LimiterTypeOK, SlotsInv, Sound, Request, Credential, Token
  <2> QED BY <2>1 DEF LivesUntil, Accepts, ValidToken
<1> QED BY <1>1, IInvHolds, PTL

\* The store evicts just what is no longer among the latest.
LEMMA LatestOfAppend ==
  ASSUME NEW s \in Seq(Entry), NEW e \in Entry
  PROVE  Append(Evicted(Latest(s)), e) = Latest(Append(s, e))
<1>1. MaxSize \in Nat \ {0} /\ Len(s) \in Nat
  BY StoreAssumption
<1> DEFINE n == Len(s)
           m == MaxSize
           t == Append(s, e)
<1>2. /\ t \in Seq(Entry) /\ Len(t) = n + 1
      /\ \A i \in 1 .. n : t[i] = s[i]
      /\ t[n + 1] = e
  OBVIOUS
<1>3. CASE n < m
  <2>1. Latest(s) = s /\ Evicted(s) = s /\ Latest(t) = t
    BY <1>1, <1>2, <1>3 DEF Latest, Evicted
  <2> QED BY <2>1
<1>4. CASE n >= m
  <2> DEFINE kept == Evicted(Latest(s))
             lhs == Append(kept, e)
             rhs == SubSeq(t, n + 1 - m + 1, n + 1)
  <2>1. Latest(t) = rhs
    BY <1>1, <1>2, <1>4 DEF Latest
  <2>2. rhs \in Seq(Entry) /\ Len(rhs) = m /\ \A i \in 1 .. m : rhs[i] = t[n + 1 - m + i]
    BY <1>1, <1>2, <1>4, SubSeqProperties
  <2>3. /\ Latest(s) \in Seq(Entry) /\ Len(Latest(s)) = m
        /\ \A i \in 1 .. m : Latest(s)[i] = s[n - m + i]
    <3>1. CASE n = m
      BY <1>1, <3>1 DEF Latest
    <3>2. CASE n > m
      BY <1>1, <3>2, SubSeqProperties DEF Latest
    <3> QED BY <1>1, <1>4, <3>1, <3>2
  <2>4. /\ kept = Tail(Latest(s))
        /\ kept \in Seq(Entry) /\ Len(kept) = m - 1
        /\ \A i \in 1 .. m - 1 : kept[i] = s[n - m + i + 1]
    BY <1>1, <1>4, <2>3 DEF Evicted
  <2> HIDE DEF kept
  <2>5. /\ lhs \in Seq(Entry) /\ Len(lhs) = m
        /\ \A i \in 1 .. m - 1 : lhs[i] = kept[i]
        /\ lhs[m] = e
    BY <1>1, <2>4
  <2>6. \A i \in 1 .. m : lhs[i] = rhs[i]
    <3> SUFFICES ASSUME NEW i \in 1 .. m PROVE lhs[i] = rhs[i]
      OBVIOUS
    <3>1. rhs[i] = t[n + 1 - m + i]
      BY <2>2
    <3>2. CASE i = m
      <4>1. n + 1 - m + i = n + 1
        BY <1>1, <3>2
      <4> QED BY <1>2, <2>5, <3>1, <3>2, <4>1
    <3>3. CASE i \in 1 .. m - 1
      <4>1. n + 1 - m + i \in 1 .. n /\ n + 1 - m + i = n - m + i + 1
        BY <1>1, <1>4, <3>3
      <4>2. t[n + 1 - m + i] = s[n - m + i + 1]
        BY <1>2, <4>1
      <4>3. lhs[i] = kept[i] /\ kept[i] = s[n - m + i + 1]
        BY <2>4, <2>5, <3>3
      <4> QED BY <3>1, <4>2, <4>3
    <3>4. i = m \/ i \in 1 .. m - 1
      BY <1>1
    <3> QED BY <3>2, <3>3, <3>4
  <2> HIDE DEF lhs, rhs
  <2>7. lhs = rhs
    BY <2>2, <2>5, <2>6, SeqEqual
  <2> QED BY <2>1, <2>7 DEF lhs, kept
<1> QED BY <1>1, <1>3, <1>4

\* Only the audit adds to the log, and each entry once; its number is the next.
LEMMA StoreStep ==
  ASSUME IInv, [Next]_vars
  PROVE  \/ UNCHANGED <<entries, audited>>
         \/ \E e \in Entry : /\ e.number = Len(audited) + 1
                            /\ entries' = Append(Evicted(entries), e)
                            /\ audited' = Append(audited, e)
                            /\ reading' = reading
<1> DEFINE Goal == \/ UNCHANGED <<entries, audited>>
                   \/ \E e \in Entry : /\ e.number = Len(audited) + 1
                                      /\ entries' = Append(Evicted(entries), e)
                                      /\ audited' = Append(audited, e)
                                      /\ reading' = reading
<1>1. ASSUME NEW r \in Slots, Record(r) PROVE Goal
  <2> DEFINE q == requests[r]
             entry == [number |-> Len(audited) + 1, method |-> Method(q.op),
                       status |-> q.status]
  <2>1. q \in Request /\ audited \in Seq(Entry)
    BY DEF IInv, TypeInv, TypeOK, SlotsInv
  <2>2. Audits(q.op, q.status) <=> q.op \in Mutating
    BY <2>1 DEF Request, AllOps, Mutating, Method, Audits
  <2>3. entry \in Entry /\ entry.number = Len(audited) + 1
    BY <2>1 DEF Entry, Request, AllOps, Mutating, Method
  <2>4. \/ UNCHANGED <<entries, audited>>
        \/ /\ entries' = Append(Evicted(entries), entry) /\ audited' = Append(audited, entry)
           /\ reading' = reading
    BY <1>1, <2>2 DEF Record, Add
  <2> HIDE DEF entry
  <2> QED BY <2>3, <2>4
<1>2. ASSUME NEW r \in Slots, Calls(r) PROVE Goal
  BY <1>2 DEF Calls, SdkCalls, OtherCalls, storeVars
<1>3. ASSUME NEW r \in Slots, Step(r) PROVE Goal
  <2>1. Record(r) \/ UNCHANGED <<entries, audited>>
    BY <1>3 DEF Step, UseCachedToken, FetchToken, IssueToken, StoreToken, FetchFails,
                PassLimiter, TurnAway, Authenticate, Unauthorized, Forbidden, HandleCreate,
                HandleDelete, HandleOther, HandlerFails, storeVars
  <2> QED BY <1>1, <2>1
<1>4. ASSUME \/ UNCHANGED vars
             \/ \E s \in SandboxIds : GetsAddress(s)
             \/ \E filter \in Filters : ReadFirstPage(filter)
             \/ ReadNextPage \/ CleanBuckets \/ Tick
      PROVE  Goal
  BY <1>4 DEF vars, GetsAddress, ReadFirstPage, ReadNextPage, CleanBuckets, Tick, storeVars
<1> QED BY <1>2, <1>3, <1>4 DEF Next

(* The audit log is the latest of what was to be audited, for every capacity   *)
(* (audit.go:16-53, store.go:53-62).                                           *)
THEOREM AuditIsComplete == Spec => []AuditKeepsTheLatest
<1>1. Init => AuditKeepsTheLatest
  BY StoreAssumption DEF Init, StoreInit, AuditKeepsTheLatest, Latest
<1>2. IInv /\ AuditKeepsTheLatest /\ [Next]_vars => AuditKeepsTheLatest'
  <2> SUFFICES ASSUME IInv, AuditKeepsTheLatest, [Next]_vars PROVE AuditKeepsTheLatest'
    OBVIOUS
  <2>1. CASE UNCHANGED <<entries, audited>>
    BY <2>1 DEF AuditKeepsTheLatest, Latest
  <2>2. ASSUME NEW e \in Entry, entries' = Append(Evicted(entries), e),
               audited' = Append(audited, e)
        PROVE  AuditKeepsTheLatest'
    <3>1. audited \in Seq(Entry)
      BY DEF IInv, TypeInv, TypeOK
    <3>2. Append(Evicted(Latest(audited)), e) = Latest(Append(audited, e))
      BY <3>1, LatestOfAppend
    <3> QED BY <2>2, <3>2 DEF AuditKeepsTheLatest, Latest
  <2> QED BY <2>1, <2>2, StoreStep
<1> QED BY <1>1, <1>2, IInvHolds, PTL DEF Spec

-----------------------------------------------------------------------------
(* Paging.                                                                  *)

\* The numbers of the entries follow one another up to the last one audited.
Numbered ==
  /\ Len(entries) <= Len(audited)
  /\ \A i \in DOMAIN entries : entries[i].number = Len(audited) - Len(entries) + i

\* An entry of the first answer that the reader has not seen is still to come.
Awaited(i) ==
  /\ i \in Filtered(reading.filter)
  /\ \/ entries[i].number \in reading.seen
     \/ ~reading.done /\ Before(reading.filter, i) >= reading.offset

PagingInv ==
  /\ Numbered
  /\ reading \in [on : BOOLEAN, done : BOOLEAN, filter : Filters \cup {"any"}, offset : Nat,
                  first : SUBSET Nat, seen : SUBSET Nat]
  /\ reading.first \subseteq 1 .. Len(audited)
  /\ ~reading.on => ~reading.done /\ reading.first = {}
  /\ \A i \in DOMAIN entries : entries[i].number \in reading.first => Awaited(i)

\* The places of an answer are finitely many, and those before a place fewer.
LEMMA FilteredIsFinite ==
  ASSUME entries \in Seq(Entry), NEW filter
  PROVE  /\ IsFiniteSet(Filtered(filter)) /\ Filtered(filter) \subseteq DOMAIN entries
         /\ Cardinality(Filtered(filter)) \in Nat
         /\ \A i \in Filtered(filter) :
              /\ Before(filter, i) \in Nat
              /\ Before(filter, i) < Cardinality(Filtered(filter))
<1>1. IsFiniteSet(Filtered(filter)) /\ Filtered(filter) \subseteq DOMAIN entries
  <2>1. IsFiniteSet(1 .. Len(entries)) /\ Filtered(filter) \subseteq 1 .. Len(entries)
    BY FS_Interval DEF Filtered
  <2> QED BY <2>1, FS_Subset DEF Filtered
<1>2. Cardinality(Filtered(filter)) \in Nat
  BY <1>1, FS_CardinalityType
<1>3. ASSUME NEW i \in Filtered(filter)
      PROVE  Before(filter, i) \in Nat /\ Before(filter, i) < Cardinality(Filtered(filter))
  <2> DEFINE rest == Filtered(filter) \ {i}
             before == {j \in Filtered(filter) : j > i}
  <2>1. IsFiniteSet(rest) /\ Cardinality(rest) = Cardinality(Filtered(filter)) - 1
    BY <1>1, FS_RemoveElement
  <2>2. before \subseteq rest
    BY <1>1
  <2>3. IsFiniteSet(before) /\ Cardinality(before) <= Cardinality(rest)
    BY <2>1, <2>2, FS_Subset
  <2>4. Cardinality(before) \in Nat
    BY <2>3, FS_CardinalityType
  <2> QED BY <1>2, <2>1, <2>3, <2>4 DEF Before
<1> QED BY <1>1, <1>2, <1>3

\* An entry that is added is the last; the others move by k, one or none.
Moves(k, e) ==
  /\ k \in {0, 1} /\ k <= Len(entries) /\ Len(entries') = Len(entries) + 1 - k
  /\ entries' \in Seq(Entry)
  /\ \A i \in 1 .. Len(entries) - k : entries'[i] = entries[i + k]
  /\ entries'[Len(entries')] = e

\* When an entry is added, the ones that stay move by one or none.
LEMMA AddMoves ==
  ASSUME entries \in Seq(Entry), NEW e \in Entry, entries' = Append(Evicted(entries), e)
  PROVE  \E k \in {0, 1} : Moves(k, e)
<1>1. MaxSize \in Nat \ {0} /\ Len(entries) \in Nat
  BY StoreAssumption
<1>2. CASE Len(entries) < MaxSize
  <2>1. entries' = Append(entries, e)
    BY <1>1, <1>2 DEF Evicted
  <2>2. Moves(0, e)
    BY <1>1, <2>1 DEF Moves
  <2> QED BY <2>2
<1>3. CASE Len(entries) >= MaxSize
  <2> DEFINE t == Tail(entries)
  <2>1. entries' = Append(t, e)
    BY <1>1, <1>3 DEF Evicted
  <2>2. /\ t \in Seq(Entry) /\ Len(t) = Len(entries) - 1
        /\ \A i \in 1 .. Len(t) : t[i] = entries[i + 1]
    BY <1>1, <1>3, EmptySeq, HeadTailProperties
  <2> HIDE DEF t
  <2>3. Moves(1, e)
    BY <1>1, <1>3, <2>1, <2>2 DEF Moves
  <2> QED BY <2>3
<1> QED BY <1>1, <1>2, <1>3

\* No fewer entries of an answer come before one of them when one is added.
LEMMA BeforeGrows ==
  ASSUME entries \in Seq(Entry), NEW e, NEW k \in {0, 1}, Moves(k, e), NEW filter,
         NEW i \in 1 .. Len(entries) - k, i + k \in Filtered(filter)
  PROVE  /\ i \in Filtered(filter)'
         /\ Before(filter, i + k) \in Nat /\ Before(filter, i)' \in Nat
         /\ Before(filter, i)' >= Before(filter, i + k)
<1> DEFINE old == {j \in Filtered(filter) : j > i + k}
           new == {j \in Filtered(filter)' : j > i}
           move == [j \in old |-> j - k]
<1>1. Len(entries) \in Nat /\ DOMAIN entries = 1 .. Len(entries) /\ entries' \in Seq(Entry)
      /\ DOMAIN entries' = 1 .. Len(entries) + 1 - k
  BY DEF Moves
<1>2. ASSUME NEW j \in Filtered(filter), j > k
      PROVE  j \in Int /\ j - k \in Filtered(filter)'
  <2>1. j \in 1 .. Len(entries) /\ filter \in {"any", entries[j].method}
    BY <1>1 DEF Filtered
  <2>2. j - k \in 1 .. Len(entries) - k /\ j - k \in DOMAIN entries' /\ (j - k) + k = j
    BY <1>1, <1>2, <2>1
  <2>3. entries'[j - k] = entries[j]
    BY <2>2 DEF Moves
  <2> QED BY <2>1, <2>2, <2>3 DEF Filtered
<1>3. i \in Filtered(filter)' /\ i \in Int /\ i > 0
  <2>1. i + k > k /\ (i + k) - k = i /\ i \in Int /\ i > 0
    BY <1>1
  <2> QED BY <1>2, <2>1
<1>4. \A j \in old : j \in Int /\ j - k \in new
  <2> SUFFICES ASSUME NEW j \in old PROVE j \in Int /\ j - k \in new
    OBVIOUS
  <2>1. j \in Int
    BY <1>1 DEF Filtered
  <2>2. j > k /\ j - k > i
    BY <1>3, <2>1
  <2> QED BY <1>2, <2>2
<1>5. IsFiniteSet(new)
  <2>1. new \subseteq 1 .. Len(entries) + 1 - k
    BY <1>1 DEF Filtered
  <2>2. IsFiniteSet(1 .. Len(entries) + 1 - k)
    BY <1>1, FS_Interval
  <2> QED BY <2>1, <2>2, FS_Subset
<1>6. move \in Injection(old, new)
  <2>1. move \in [old -> new]
    BY <1>4
  <2>2. \A a, b \in old : move[a] = move[b] => a = b
    BY <1>4
  <2> QED BY <2>1, <2>2 DEF Injection, IsInjective
<1>7. IsFiniteSet(old) /\ Cardinality(old) <= Cardinality(new)
  BY <1>5, <1>6, FS_Injection
<1>8. Cardinality(old) \in Nat /\ Cardinality(new) \in Nat
  BY <1>5, <1>7, FS_CardinalityType
<1>9. Before(filter, i + k) = Cardinality(old) /\ Before(filter, i)' = Cardinality(new)
  BY DEF Before
<1> QED BY <1>3, <1>7, <1>8, <1>9

\* The reader misses nothing of what there was at first, whatever is added.
LEMMA PagingStep ==
  ASSUME IInv, PagingInv, [Next]_vars
  PROVE  PagingInv'
<1>0. /\ entries \in Seq(Entry) /\ audited \in Seq(Entry) /\ Limit \in Nat \ {0}
      /\ Len(entries) \in Nat /\ Len(audited) \in Nat
      /\ \A i \in DOMAIN entries : entries[i].number \in Nat
  <2>1. entries \in Seq(Entry) /\ audited \in Seq(Entry) /\ Limit \in Nat \ {0}
    BY StoreAssumption DEF IInv, TypeInv, TypeOK
  <2>2. ASSUME NEW i \in DOMAIN entries PROVE entries[i].number \in Nat
    <3>1. entries[i] \in Entry
      BY <2>1
    <3> QED BY <3>1 DEF Entry
  <2> QED BY <2>1, <2>2
<1>1. ASSUME UNCHANGED <<entries, audited, reading>> PROVE PagingInv'
  BY <1>1 DEF PagingInv, Numbered, Awaited, Filtered, Before
<1>2. ASSUME NEW e \in Entry, e.number = Len(audited) + 1, entries' = Append(Evicted(entries), e),
             audited' = Append(audited, e), reading' = reading
      PROVE  PagingInv'
  <2>1. PICK k \in {0, 1} : Moves(k, e)
    BY <1>0, <1>2, AddMoves
  <2>2. /\ k <= Len(entries) /\ Len(entries') = Len(entries) + 1 - k
        /\ DOMAIN entries' = 1 .. Len(entries) + 1 - k
        /\ \A i \in 1 .. Len(entries) - k : entries'[i] = entries[i + k] /\ i + k \in DOMAIN entries
        /\ entries'[Len(entries) + 1 - k] = e
        /\ Len(audited') = Len(audited) + 1
    BY <1>0, <1>2, <2>1 DEF Moves
  <2>3. \A i \in DOMAIN entries' : i \in 1 .. Len(entries) - k \/ i = Len(entries) + 1 - k
    BY <1>0, <2>2
  <2>4. Numbered'
    <3>1. Len(entries') <= Len(audited')
      BY <1>0, <2>2 DEF PagingInv, Numbered
    <3>2. ASSUME NEW i \in 1 .. Len(entries) - k
          PROVE  entries'[i].number = Len(audited') - Len(entries') + i
      <4>1. entries'[i] = entries[i + k] /\ i + k \in DOMAIN entries
        BY <2>2
      <4>2. entries[i + k].number = Len(audited) - Len(entries) + (i + k)
        BY <4>1 DEF PagingInv, Numbered
      <4>3. Len(audited) - Len(entries) + (i + k)
              = (Len(audited) + 1) - (Len(entries) + 1 - k) + i
        BY <1>0
      <4> QED BY <2>2, <4>1, <4>2, <4>3
    <3>3. ASSUME NEW i, i = Len(entries) + 1 - k
          PROVE  entries'[i].number = Len(audited') - Len(entries') + i
      BY <1>0, <1>2, <2>2, <3>3
    <3> QED BY <2>3, <3>1, <3>2, <3>3 DEF Numbered
  <2>5. PICK f : f = reading.filter
    OBVIOUS
  <2>6. ASSUME NEW i \in DOMAIN entries', entries'[i].number \in reading.first
        PROVE  Awaited(i)'
    <3>1. i \in 1 .. Len(entries) - k
      <4>1. Len(audited) + 1 \notin reading.first
        BY <1>0 DEF PagingInv
      <4> QED BY <1>2, <2>2, <2>3, <2>6, <4>1
    <3>2. /\ i + k \in DOMAIN entries /\ entries'[i] = entries[i + k]
          /\ i + k \in Filtered(f)
          /\ entries[i + k].number \in reading.seen
               \/ (~reading.done /\ Before(f, i + k) >= reading.offset)
      <4>1. i + k \in DOMAIN entries /\ entries'[i] = entries[i + k]
        BY <2>2, <3>1
      <4>2. entries[i + k].number \in reading.first
        BY <2>6, <4>1
      <4>3. PICK j \in DOMAIN entries : j = i + k
        BY <4>1
      <4>4. Awaited(j)
        BY <4>2, <4>3 DEF PagingInv
      <4>5. j \in Filtered(f) /\ (entries[j].number \in reading.seen
                                   \/ (~reading.done /\ Before(f, j) >= reading.offset))
        BY <2>5, <4>4 DEF Awaited
      <4> QED BY <4>1, <4>3, <4>5
    <3>3. /\ i \in Filtered(f)' /\ Before(f, i + k) \in Nat /\ Before(f, i)' \in Nat
          /\ Before(f, i)' >= Before(f, i + k)
      BY <1>0, <2>1, <3>1, <3>2, BeforeGrows
    <3>4. reading.offset \in Nat
      BY DEF PagingInv
    <3>5. Awaited(i)' <=> /\ i \in Filtered(f)'
                          /\ \/ entries'[i].number \in reading.seen
                             \/ ~reading.done /\ Before(f, i)' >= reading.offset
      BY <1>2, <2>5 DEF Awaited, Filtered, Before
    <3> QED BY <3>2, <3>3, <3>4, <3>5
  <2>7. reading.first \subseteq 1 .. Len(audited')
    BY <1>0, <2>2 DEF PagingInv
  <2> QED BY <1>2, <2>4, <2>6, <2>7 DEF PagingInv
<1>3. ASSUME NEW f, UNCHANGED <<entries, audited>>
      PROVE  Filtered(f)' = Filtered(f) /\ (\A i : Before(f, i)' = Before(f, i)) /\ Numbered'
  BY <1>3 DEF Filtered, Before, PagingInv, Numbered
<1>4. \A i, j \in DOMAIN entries : entries[i].number = entries[j].number => i = j
  BY <1>0 DEF PagingInv, Numbered
<1>5. ASSUME NEW f \in Filters, ReadFirstPage(f) PROVE PagingInv'
  <2> DEFINE p == Page(f, 0)
             r == [on |-> TRUE, done |-> Limit >= p.total, filter |-> f, offset |-> Limit,
                   first |-> Numbers(Filtered(f)), seen |-> Numbers(p.page)]
  <2>1. UNCHANGED <<entries, audited>> /\ reading' = r
    BY <1>5 DEF ReadFirstPage, storeVars
  <2>2. /\ p.total = Cardinality(Filtered(f))
        /\ p.page = {i \in Filtered(f) : Before(f, i) \in 0 .. 0 + Limit - 1}
    BY DEF Page
  <2>3. /\ Filtered(f) \subseteq DOMAIN entries /\ p.total \in Nat
        /\ \A i \in Filtered(f) : Before(f, i) \in Nat /\ Before(f, i) < p.total
    BY <1>0, <2>2, FilteredIsFinite
  <2>4. p.page \subseteq Filtered(f)
    BY <2>2
  <2> HIDE DEF p
  <2>5. r \in [on : BOOLEAN, done : BOOLEAN, filter : Filters \cup {"any"}, offset : Nat,
               first : SUBSET Nat, seen : SUBSET Nat]
    <3>1. Numbers(Filtered(f)) \subseteq Nat /\ Numbers(p.page) \subseteq Nat
      BY <1>0, <2>3, <2>4 DEF Numbers
    <3> QED BY <1>0, <3>1
  <2>6. r.first \subseteq 1 .. Len(audited)
    BY <1>0, <2>3 DEF Numbers, PagingInv, Numbered
  <2>7. ASSUME NEW i \in DOMAIN entries, entries[i].number \in r.first
        PROVE  /\ i \in Filtered(f)
               /\ entries[i].number \in r.seen \/ (~r.done /\ Before(f, i) >= r.offset)
    <3>1. i \in Filtered(f)
      BY <1>4, <2>3, <2>7 DEF Numbers
    <3>2. CASE i \in p.page
      BY <3>1, <3>2 DEF Numbers
    <3>3. CASE i \notin p.page
      <4>1. Before(f, i) >= Limit
        BY <1>0, <2>2, <2>3, <3>1, <3>3
      <4>2. ~(Limit >= p.total)
        BY <1>0, <2>3, <3>1, <4>1
      <4> QED BY <3>1, <4>1, <4>2
    <3> QED BY <3>2, <3>3
  <2>8. r.on /\ r.filter = f
    OBVIOUS
  <2> HIDE DEF r
  <2>9. \A i \in DOMAIN entries' : entries'[i].number \in reading'.first => Awaited(i)'
    BY <1>3, <2>1, <2>7, <2>8 DEF Awaited, Filtered, Before
  <2> QED BY <1>3, <2>1, <2>5, <2>6, <2>8, <2>9 DEF PagingInv
<1>6. ASSUME ReadNextPage PROVE PagingInv'
  <2> DEFINE p == Page(reading.filter, reading.offset)
             r == [reading EXCEPT !.done = reading.offset + Limit >= p.total,
                                  !.offset = reading.offset + Limit,
                                  !.seen = reading.seen \cup Numbers(p.page)]
  <2>0. PICK f : f = reading.filter
    OBVIOUS
  <2>1. UNCHANGED <<entries, audited>> /\ reading' = r /\ reading.on /\ ~reading.done
    BY <1>6 DEF ReadNextPage, storeVars
  <2>2. /\ p.total = Cardinality(Filtered(f))
        /\ p.page = {i \in Filtered(f) :
                       Before(f, i) \in reading.offset .. reading.offset + Limit - 1}
    BY <2>0 DEF Page
  <2>3. /\ Filtered(f) \subseteq DOMAIN entries /\ p.total \in Nat
        /\ \A i \in Filtered(f) : Before(f, i) \in Nat /\ Before(f, i) < p.total
    BY <1>0, <2>2, FilteredIsFinite
  <2>4. p.page \subseteq DOMAIN entries
    BY <2>2, <2>3
  <2> HIDE DEF p
  <2>5. /\ reading \in [on : BOOLEAN, done : BOOLEAN, filter : Filters \cup {"any"}, offset : Nat,
                        first : SUBSET Nat, seen : SUBSET Nat]
        /\ reading.first \subseteq 1 .. Len(audited)
    BY DEF PagingInv
  <2>6. Numbers(p.page) \subseteq Nat
    BY <1>0, <2>4 DEF Numbers
  <2>7. /\ r \in [on : BOOLEAN, done : BOOLEAN, filter : Filters \cup {"any"}, offset : Nat,
                  first : SUBSET Nat, seen : SUBSET Nat]
        /\ r.done = (reading.offset + Limit >= p.total) /\ r.offset = reading.offset + Limit
        /\ r.seen = reading.seen \cup Numbers(p.page) /\ r.first = reading.first
        /\ r.filter = f /\ r.on
    <3> DEFINE finished == reading.offset + Limit >= p.total
               next == reading.offset + Limit
               known == reading.seen \cup Numbers(p.page)
    <3>1. finished \in BOOLEAN /\ next \in Nat /\ known \in SUBSET Nat
      BY <1>0, <2>5, <2>6
    <3>2. r = [reading EXCEPT !.done = finished, !.offset = next, !.seen = known]
      OBVIOUS
    <3>3. finished = (reading.offset + Limit >= p.total) /\ next = reading.offset + Limit
          /\ known = reading.seen \cup Numbers(p.page)
      OBVIOUS
    <3> HIDE DEF finished, next, known, r
    <3>4. /\ r \in [on : BOOLEAN, done : BOOLEAN, filter : Filters \cup {"any"}, offset : Nat,
                    first : SUBSET Nat, seen : SUBSET Nat]
          /\ r.done = finished /\ r.offset = next /\ r.seen = known
          /\ r.first = reading.first /\ r.filter = reading.filter /\ r.on = reading.on
      BY <2>5, <3>1, <3>2
    <3> QED BY <2>0, <2>1, <3>3, <3>4
  <2> HIDE DEF r
  <2>8. ASSUME NEW i \in DOMAIN entries, entries[i].number \in reading.first
        PROVE  /\ i \in Filtered(f)
               /\ entries[i].number \in r.seen \/ (~r.done /\ Before(f, i) >= r.offset)
    <3>1. /\ i \in Filtered(f)
          /\ entries[i].number \in reading.seen \/ Before(f, i) >= reading.offset
      BY <2>0, <2>8 DEF PagingInv, Awaited
    <3>2. CASE i \in p.page
      BY <2>7, <3>1, <3>2 DEF Numbers
    <3>3. CASE entries[i].number \in reading.seen
      BY <2>7, <3>1, <3>3
    <3>4. CASE i \notin p.page /\ Before(f, i) >= reading.offset
      <4>1. Before(f, i) >= reading.offset + Limit
        BY <1>0, <2>2, <2>3, <2>5, <3>1, <3>4
      <4>2. ~(reading.offset + Limit >= p.total)
        BY <1>0, <2>3, <2>5, <3>1, <4>1
      <4> QED BY <2>7, <3>1, <4>1, <4>2
    <3> QED BY <3>1, <3>2, <3>3, <3>4
  <2>9. \A i \in DOMAIN entries' : entries'[i].number \in reading'.first => Awaited(i)'
    BY <1>3, <2>1, <2>7, <2>8 DEF Awaited, Filtered, Before
  <2> QED BY <1>3, <2>1, <2>5, <2>7, <2>9 DEF PagingInv
<1>7. CASE UNCHANGED <<entries, audited>>
  <2>1. CASE \E f \in Filters : ReadFirstPage(f)
    BY <1>5, <2>1
  <2>2. CASE UNCHANGED reading
    BY <1>1, <1>7, <2>2
  <2>3. CASE UNCHANGED vars
    BY <1>1, <2>3 DEF vars
  <2>4. ASSUME NEW r \in Slots, Calls(r) \/ Step(r) PROVE UNCHANGED reading
    BY <2>4 DEF Calls, SdkCalls, OtherCalls, Step, UseCachedToken, FetchToken, IssueToken,
                StoreToken, FetchFails, PassLimiter, TurnAway, Authenticate, Unauthorized, Forbidden,
                HandleCreate, HandleDelete, HandleOther, HandlerFails, Record
  <2>5. ASSUME \/ \E s \in SandboxIds : GetsAddress(s)
               \/ CleanBuckets \/ Tick
        PROVE  UNCHANGED reading
    BY <2>5 DEF GetsAddress, CleanBuckets, Tick
  <2> QED BY <1>6, <2>1, <2>2, <2>3, <2>4, <2>5 DEF Next
<1> QED BY <1>2, <1>7, StoreStep

(* Who pages through the audit log while entries are added and evicted has at  *)
(* the end seen every entry that was there from the first page to the last,    *)
(* for every page size, capacity and filter (store.go:60-97, admin.go:63-92).  *)
THEOREM NothingIsSkipped == Spec => []PagingSkipsNothing
<1>1. Init => PagingInv
  BY DEF Init, StoreInit, NotReading, PagingInv, Numbered
<1>2. IInv /\ PagingInv /\ [Next]_vars => PagingInv'
  BY PagingStep
<1>3. PagingInv => PagingSkipsNothing
  <2> SUFFICES ASSUME PagingInv, reading.done, NEW i \in DOMAIN entries,
                      entries[i].number \in reading.first
               PROVE  entries[i].number \in reading.seen
    BY DEF PagingSkipsNothing, Numbers
  <2> QED BY DEF PagingInv, Awaited
<1> QED BY <1>1, <1>2, <1>3, IInvHolds, PTL DEF Spec

-----------------------------------------------------------------------------
(* Preview URLs: the id has dashes, the port none, so that what is after the  *)
(* last dash is the port and what is before it the id.                        *)

\* What a host name is made of.
Parts == STRING \cup {"sbx", "-"}

\* An id, or the "sbx-" before it, is made of parts.
LEMMA PartsProperties ==
  /\ "-" \in Parts /\ "sbx" \in Parts
  /\ \A p \in STRING : p \in Parts
  /\ \A t \in Seq(STRING) : t \in Seq(Parts)
BY DEF Parts

\* The last dash of an id, a dash and a port is the one between the two.
LEMMA DashBeforePort ==
  ASSUME NEW id \in Seq(Parts), NEW p \in Parts, p # "-"
  PROVE  LastDash(id \o <<"-", p>>) = Len(id) + 1
<1> DEFINE rest == id \o <<"-", p>>
           dashes == {i \in 1 .. Len(rest) : rest[i] = "-"}
<1>1. /\ Len(id) \in Nat /\ Len(rest) = Len(id) + 2
      /\ rest[Len(id) + 1] = "-" /\ rest[Len(id) + 2] = p
  <2>1. <<"-", p>> \in Seq(Parts) /\ Len(<<"-", p>>) = 2
    BY PartsProperties
  <2> QED BY <2>1, ConcatProperties
<1> HIDE DEF rest
<1>2. Len(id) + 1 \in dashes /\ \A i \in dashes : i <= Len(id) + 1
  BY <1>1
<1>3. \A m \in dashes : (\A i \in dashes : m >= i) => m = Len(id) + 1
  BY <1>1, <1>2
<1>4. Max(dashes) = Len(id) + 1
  BY <1>1, <1>2, <1>3 DEF Max
<1> QED BY <1>2, <1>4 DEF LastDash, rest

\* parseSubdomain gives back what the URL was made of.
LEMMA ParsesBack ==
  ASSUME NEW s \in SandboxIds, NEW p \in PortTexts
  PROVE  ParseSubdomain(PreviewURL(s, p).sub) = [ok |-> TRUE, id |-> IdText[s], port |-> p]
<1> DEFINE id == IdText[s]
           tail == <<"-", p>>
           rest == id \o tail
           head == <<"sbx", "-">>
           sub == head \o rest
<1>1. /\ p \in Parts /\ p # "-"
      /\ id \in Seq(Parts) /\ id # <<>> /\ Len(id) \in Nat /\ Len(id) # 0
  <2>1. p \in STRING /\ p # "-"
    BY RouterAssumption DEF PortTexts
  <2>2. id \in Seq(STRING) /\ id # <<>>
    BY RouterAssumption
  <2> QED BY <2>1, <2>2, PartsProperties, EmptySeq
<1> HIDE DEF id
<1>2. tail \in Seq(Parts) /\ Len(tail) = 2 /\ tail[2] = p
  BY <1>1, PartsProperties
<1>3. head \in Seq(Parts) /\ Len(head) = 2 /\ head[1] = "sbx" /\ head[2] = "-"
  BY PartsProperties
<1>4. PreviewURL(s, p).sub = sub
  <2>1. PreviewURL(s, p).sub = (head \o id) \o tail
    BY DEF PreviewURL, id
  <2> QED BY <1>1, <1>2, <1>3, <2>1, ConcatAssociative
<1>5. LastDash(rest) = Len(id) + 1
  BY <1>1, DashBeforePort
<1> HIDE DEF tail, head
<1>6. /\ rest \in Seq(Parts) /\ Len(rest) = Len(id) + 2
      /\ \A i \in 1 .. Len(id) : rest[i] = id[i]
      /\ rest[Len(id) + 2] = p
  <2>1. /\ rest \in Seq(Parts) /\ Len(rest) = Len(id) + Len(tail)
        /\ \A i \in 1 .. Len(id) + Len(tail) :
             rest[i] = IF i <= Len(id) THEN id[i] ELSE tail[i - Len(id)]
    BY <1>1, <1>2, ConcatProperties
  <2> HIDE DEF rest
  <2>2. rest[Len(id) + 2] = p
    BY <1>1, <1>2, <2>1
  <2>3. \A i \in 1 .. Len(id) : rest[i] = id[i]
    BY <1>1, <1>2, <2>1
  <2> QED BY <1>2, <2>1, <2>2, <2>3
<1> HIDE DEF rest
<1>7. /\ sub \in Seq(Parts) /\ Len(sub) = Len(rest) + 2 /\ sub[1] = "sbx" /\ sub[2] = "-"
      /\ \A i \in 1 .. Len(rest) : sub[i + 2] = rest[i]
  <2>1. /\ sub \in Seq(Parts) /\ Len(sub) = Len(head) + Len(rest)
        /\ \A i \in 1 .. Len(head) + Len(rest) :
             sub[i] = IF i <= Len(head) THEN head[i] ELSE rest[i - Len(head)]
    BY <1>3, <1>6, ConcatProperties
  <2> HIDE DEF sub
  <2>2. sub[1] = "sbx" /\ sub[2] = "-"
    BY <1>1, <1>3, <1>6, <2>1
  <2>3. \A i \in 1 .. Len(rest) : sub[i + 2] = rest[i]
    <3> SUFFICES ASSUME NEW i \in 1 .. Len(rest) PROVE sub[i + 2] = rest[i]
      OBVIOUS
    <3>1. i + 2 \in 1 .. Len(head) + Len(rest) /\ ~(i + 2 <= Len(head)) /\ (i + 2) - Len(head) = i
      BY <1>1, <1>3, <1>6
    <3> QED BY <2>1, <3>1
  <2> QED BY <1>1, <1>3, <1>6, <2>1, <2>2, <2>3
<1> HIDE DEF sub
<1>8. HasPrefix(sub)
  <2>1. SubSeq(sub, 1, 2) = <<"sbx", "-">>
    <3>1. SubSeq(sub, 1, 2) \in Seq(Parts) /\ Len(SubSeq(sub, 1, 2)) = 2
          /\ SubSeq(sub, 1, 2)[1] = sub[1] /\ SubSeq(sub, 1, 2)[2] = sub[2]
      BY <1>1, <1>6, <1>7
    <3>2. head = SubSeq(sub, 1, 2)
      BY <1>3, <1>7, <3>1, SeqEqual
    <3> QED BY <3>2 DEF head
  <2> QED BY <1>1, <1>6, <1>7, <2>1 DEF HasPrefix
<1>9. SubSeq(sub, 3, Len(sub)) = rest
  BY <1>1, <1>6, <1>7
<1>10. SubSeq(rest, 1, Len(id)) = id
  BY <1>1, <1>6
<1>11. SubSeq(rest, Len(id) + 2, Len(rest)) = <<p>>
  <2> DEFINE last == SubSeq(rest, Len(id) + 2, Len(rest))
             port == <<p>>
  <2>1. last \in Seq(Parts) /\ Len(last) = 1 /\ last[1] = rest[Len(id) + 2]
    BY <1>1, <1>6
  <2>2. port \in Seq(Parts) /\ Len(port) = 1 /\ port[1] = p
    BY <1>1
  <2> HIDE DEF last, port
  <2>3. last = port
    BY <1>6, <2>1, <2>2, SeqEqual
  <2> QED BY <2>3 DEF last, port
<1>12. Len(<<p>>) = 1 /\ <<p>>[1] = p
  OBVIOUS
<1>13. (Len(id) + 1) - 1 = Len(id) /\ (Len(id) + 1) + 1 = Len(id) + 2 /\ Len(id) + 1 > 1
  BY <1>1
<1> QED BY <1>4, <1>5, <1>8, <1>9, <1>10, <1>11, <1>12, <1>13 DEF ParseSubdomain, id

(* A preview URL leads to its sandbox and port, for every set of ids that the *)
(* assumption admits and every port (router.go:34-60, 110-139).                *)
THEOREM PreviewFindsSandbox == Spec => []PreviewReachesItsSandbox
<1>1. TypeOK => PreviewReachesItsSandbox
  <2> SUFFICES ASSUME TypeOK, NEW s \in SandboxIds, NEW p \in PortTexts
               PROVE  Route(PreviewURL(s, p)) =
                        CASE registry[s] = "running"  -> [status |-> 200, target |-> [pod |-> s, port |-> p]]
                          [] registry[s] = "starting" -> [status |-> 503, target |-> NoTarget]
                          [] registry[s] = "absent"   -> [status |-> 404, target |-> NoTarget]
    BY DEF PreviewReachesItsSandbox
  <2>1. registry[s] \in {"absent", "starting", "running"}
    BY DEF TypeOK, RouterTypeOK
  <2>2. PreviewURL(s, p).domain = "preview"
    BY DEF PreviewURL
  <2>3. ParseSubdomain(PreviewURL(s, p).sub) = [ok |-> TRUE, id |-> IdText[s], port |-> p]
    BY ParsesBack
  <2>4. Known(IdText[s]) = IF registry[s] = "absent" THEN {} ELSE {s}
    BY RouterAssumption DEF Known
  <2>5. CASE registry[s] = "absent"
    BY <2>2, <2>3, <2>4, <2>5 DEF Route
  <2>6. CASE registry[s] # "absent"
    <3>1. Known(ParseSubdomain(PreviewURL(s, p).sub).id) = {s}
      BY <2>3, <2>4, <2>6
    <3>2. (CHOOSE x \in Known(ParseSubdomain(PreviewURL(s, p).sub).id) : TRUE) = s
      BY <3>1
    <3>3. CASE registry[s] = "starting"
      BY <2>2, <2>3, <3>1, <3>2, <3>3 DEF Route
    <3>4. CASE registry[s] = "running"
      BY <2>2, <2>3, <3>1, <3>2, <3>4 DEF Route
    <3> QED BY <2>1, <2>6, <3>3, <3>4
  <2> QED BY <2>5, <2>6
<1> QED BY <1>1, TypeCorrect, PTL
=============================================================================
