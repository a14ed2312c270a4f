---------------------------- MODULE RateLimiter ----------------------------
(* The request limiter of the agent (agent/internal/server/ratelimit.go): a    *)
(* map of buckets under one mutex.  Each operator is one critical section.     *)
EXTENDS Integers, Sequences

CONSTANTS
  LimitKeys,  \* what a request is counted under: see LimitKey
  NoHeader,   \* a request has no X-Forwarded-For header
  Rate,       \* requestsPerMinute
  Interval    \* the minute, in ticks of the clock

ASSUME LimiterAssumption ==
  /\ Rate \in Nat \ {0}
  /\ Interval \in Nat \ {0}
  /\ NoHeader \notin LimitKeys

VARIABLES
  now,       \* time.Now()
  buckets,   \* the limiter's map
  admitted   \* history: when requests of each key were let through

limiterVars == <<buckets, admitted>>

Bucket == [known : BOOLEAN, tokens : 0 .. Rate, lastReset : Nat]

\* A key that is not in the map.
NoBucket == [known |-> FALSE, tokens |-> 0, lastReset |-> 0]

LimiterTypeOK ==
  /\ now \in Nat
  /\ buckets \in [LimitKeys -> Bucket]
  /\ admitted \in [LimitKeys -> Seq(Nat)]

LimiterInit ==
  /\ now = 0
  /\ buckets = [k \in LimitKeys |-> NoBucket]
  /\ admitted = [k \in LimitKeys |-> <<>>]

\* RemoteAddr has the port of the connection in it.
LimitKey(remoteAddr, forwarded) ==
  IF forwarded = NoHeader THEN remoteAddr ELSE forwarded

\* Mutant: a bucket that is in the map is never refilled.
Current_NoRefill(b) ==
  IF ~b.known THEN [known |-> TRUE, tokens |-> Rate, lastReset |-> now] ELSE b

\* The bucket allow decides on: a new one, a refilled one, or as it was.
Current(b) ==
  IF ~b.known \/ now - b.lastReset >= Interval
    THEN [known |-> TRUE, tokens |-> Rate, lastReset |-> now]
    ELSE b

Spend(b) == [b EXCEPT !.tokens = @ - 1]

Admit(k) ==
  /\ Current(buckets[k]).tokens > 0
  /\ buckets' = [buckets EXCEPT ![k] = Spend(Current(buckets[k]))]
  /\ admitted' = [admitted EXCEPT ![k] = Append(@, now)]

Refuse(k) ==
  /\ Current(buckets[k]).tokens <= 0
  /\ buckets' = [buckets EXCEPT ![k] = Current(buckets[k])]
  /\ UNCHANGED admitted

\* Mutant: cleanup takes every bucket that is out of tokens.
IsStale_Empty(b) == b.known /\ b.tokens = 0

\* cleanup, at a tick of its own ticker.
IsStale(b) == b.known /\ now - b.lastReset > 2 * Interval

Cleanup ==
  /\ \E k \in LimitKeys : IsStale(buckets[k])
  /\ buckets' = [k \in LimitKeys |->
                   IF IsStale(buckets[k]) THEN NoBucket ELSE buckets[k]]
  /\ UNCHANGED admitted

-----------------------------------------------------------------------------
(* Fewer requests than twice the rate are let through in any interval: the     *)
(* windows of a key start an interval apart whatever the cleanup deletes in    *)
(* between (ratelimit.go:54-77).  It is not the rate, since a window begins    *)
(* with a request, and the tokens left may be spent at its end, next to all    *)
(* those of the window after it.                                               *)
FewerThanTwoRates ==
  \A k \in LimitKeys : \A i \in 1 .. Len(admitted[k]) :
    i + 2 * Rate - 1 <= Len(admitted[k])
      => admitted[k][i + 2 * Rate - 1] - admitted[k][i] >= Interval

\* Rate requests of k were let through in the interval that ends now.
AtLimit(k) ==
  /\ Len(admitted[k]) >= Rate
  /\ now - admitted[k][Len(admitted[k]) - Rate + 1] < Interval
=============================================================================
