---------------------------- MODULE SdkSandboxProofs ---------------------------
(***************************************************************************)
(* Theorems about SdkSandbox for every value of its constants: its types,  *)
(* that the caller of a command or a terminal receives output in order and *)
(* without a gap, and that a listener has its handlers registered as long  *)
(* as no two listeners share a function literal.                           *)
(*                                                                         *)
(* Order is not inductive by itself: it rests on every handler being in    *)
(* its list at most once, on the handlers of a command entering and        *)
(* leaving the lists of stdout, stderr and exit together, in one order     *)
(* (although `off' takes the first handler that prints the same pointer,   *)
(* which may be another command's), and on the read loop finishing one     *)
(* message before it takes the next.                                       *)
(***************************************************************************)
EXTENDS SdkSandbox, SequenceTheorems, WellFoundedInduction, TLAPS

\* What a list of handlers says: each is in it once, and which come first.
NoRepeats(s) == \A i, j \in DOMAIN s : s[i] = s[j] => i = j
Precedes(s, a, b) == \E i, j \in DOMAIN s : i < j /\ s[i] = a /\ s[j] = b

\* A list of numbers without a gap.
CountsUp(s) == \A i \in DOMAIN s : s[i] = s[1] + (i - 1)

-------------------------------------------------------------------------------
(* The invariant: connection, requests, and the message in the read loop.   *)

Away == {"check", "sleep", "reset", "renew", "dial", "adopt"}

\* Every loss of a connection, and Close, allow so many reconnects more.
Allowed(breaks) == MaxReconnectAttempts * breaks
Breaks == losses + (IF closer = "closed" THEN 1 ELSE 0)

LinkOK ==
  /\ link \in {"none", "up", "lost", "closed"}
  /\ worker \in WorkerStates
  /\ flag \in BOOLEAN /\ onceUsed \in BOOLEAN
  /\ attempts \in 0 .. MaxReconnectAttempts
  /\ done \in DoneIds /\ closedDones \subseteq DoneIds
  /\ closer \in {"idle", "flagged", "done", "closed"}
  /\ losses \in 0 .. MaxLosses
  /\ link = "none" => worker = "none"
  /\ worker \in Away => link \in {"lost", "closed"}
  /\ link \in {"none", "up"} => attempts = 0 /\ done <= Allowed(Breaks)
  /\ link \in {"lost", "closed"} =>
       /\ done + MaxReconnectAttempts <= Allowed(Breaks) + attempts
       /\ worker \in {"sleep", "reset", "renew"} =>
            done + 1 + MaxReconnectAttempts <= Allowed(Breaks) + attempts

\* Requests take their ids in the order in which they start.
CallsOK ==
  /\ pending \in [Ids -> Requests \cup {None}]
  /\ call \in [Requests -> CallStates]
  /\ id \in [Requests -> Ids]
  /\ reply \in [Requests -> Requests \cup {None}]
  /\ waitsOn \in [Requests -> DoneIds]
  /\ owed \subseteq Requests
  /\ nextID \in 1 .. MaxRequests + 1
  /\ \A r \in Requests : call[r] = "idle" <=> nextID <= r

\* The read loop has a message only while it dispatches it.
ListenOK ==
  /\ handlers \in [Types -> Seq(Listeners)]
  /\ todo \in Seq(Listeners)
  /\ stage \in [Listeners -> Stages]
  /\ served \subseteq Listeners
  /\ next \in [Listeners -> 1 .. Exit + 1]
  /\ buf \in [Listeners -> Seq(1 .. Exit)]
  /\ got \in [Listeners -> Seq(1 .. Exit)]
  /\ \A l \in Listeners : Len(buf[l]) <= Cap
  /\ worker # "dispatch" => todo = <<>> /\ msg = None
  /\ worker = "dispatch" =>
       /\ msg \in Message
       /\ msg.type \in TypesOf(Kind[msg.to])
       /\ msg.item \in 1 .. FinalItem(msg.to)
       /\ next[msg.to] = msg.item + 1

ShapeInv == LinkOK /\ CallsOK /\ ListenOK

-------------------------------------------------------------------------------
(* The invariant: handlers.                                                 *)

\* A listener that has its handlers in the lists, or had.
Began(l) == stage[l] \notin IF Kind[l] = "data" THEN {"idle", "registered"} ELSE {"idle"}

HandlersKnown ==
  \A y \in Types :
    /\ NoRepeats(handlers[y])
    /\ \A l \in ToSet(handlers[y]) : y \in TypesOf(Kind[l]) /\ Began(l)

\* The three handlers of a command come and go together.
CommandsTogether ==
  /\ handlers["stderr"] = handlers["exit"]
  /\ \A a \in Listeners : Kind[a] = "exec" =>
       (a \in ToSet(handlers["stdout"]) <=> a \in ToSet(handlers["exit"]))
  /\ \A a, b \in Listeners : Kind[a] = "exec" /\ Kind[b] = "exec" =>
       (Precedes(handlers["stdout"], a, b) <=> Precedes(handlers["exit"], a, b))

TodoKnown ==
  /\ NoRepeats(todo)
  /\ \A l \in ToSet(todo) : msg.type \in TypesOf(Kind[l]) /\ Began(l)

HandlersInv == HandlersKnown /\ CommandsTogether /\ TodoKnown

-------------------------------------------------------------------------------
(* The invariant: output.                                                   *)

Hears(l) == l \in ToSet(handlers["stdout"])
Awaits(l) == worker = "dispatch" /\ msg.to = l /\ l \in ToSet(todo)
Expected(l) == IF Awaits(l) THEN msg.item ELSE next[l]

Ordered(l) ==
  /\ CountsUp(Received(l))
  /\ Kind[l] = "data" => buf[l] = <<>>
  /\ Kind[l] = "exec" /\ Received(l) # <<>> => Received(l)[1] = 1
  /\ ~Began(l) => Received(l) = <<>>
  /\ Kind[l] = "exec" /\ stage[l] \in {"idle", "registered"} => l \notin served /\ next[l] = 1
  /\ Hears(l) \/ Awaits(l) =>
       IF Received(l) = <<>> THEN Kind[l] = "exec" => Expected(l) = 1
       ELSE Expected(l) = Received(l)[Len(Received(l))] + 1

OutputInv == \A l \in Listeners : Kind[l] \in {"exec", "data"} => Ordered(l)

-------------------------------------------------------------------------------
(* What Append and the removal of the first match do to a list of handlers. *)

\* A listener registered for the first time is the last of the list.
LEMMA AppendHandler ==
  ASSUME NEW s \in Seq(Listeners), NEW x \in Listeners, x \notin ToSet(s), NoRepeats(s)
  PROVE  /\ Append(s, x) \in Seq(Listeners)
         /\ ToSet(Append(s, x)) = ToSet(s) \cup {x}
         /\ NoRepeats(Append(s, x))
         /\ \A a, b : Precedes(Append(s, x), a, b) <=> Precedes(s, a, b) \/ (a \in ToSet(s) /\ b = x)
<1>1. /\ Append(s, x) \in Seq(Listeners) /\ Len(s) \in Nat
      /\ DOMAIN s = 1 .. Len(s) /\ DOMAIN Append(s, x) = 1 .. Len(s) + 1
      /\ \A i \in 1 .. Len(s) : Append(s, x)[i] = s[i]
      /\ Append(s, x)[Len(s) + 1] = x
  OBVIOUS
<1>2. \A i \in 1 .. Len(s) + 1 : i \in 1 .. Len(s) \/ i = Len(s) + 1
  BY <1>1
<1>3. /\ \A i \in 1 .. Len(s) : i \in 1 .. Len(s) + 1 /\ i < Len(s) + 1 /\ s[i] # x
      /\ Len(s) + 1 \in 1 .. Len(s) + 1
  BY <1>1 DEF ToSet
<1>4. ToSet(Append(s, x)) = ToSet(s) \cup {x}
  BY <1>1, <1>2, <1>3 DEF ToSet
<1>5. NoRepeats(Append(s, x))
  BY <1>1, <1>2, <1>3 DEF NoRepeats
<1>6. ASSUME NEW a, NEW b, Precedes(Append(s, x), a, b)
      PROVE  Precedes(s, a, b) \/ (a \in ToSet(s) /\ b = x)
  <2>1. PICK i \in 1 .. Len(s) + 1, j \in 1 .. Len(s) + 1 :
          i < j /\ Append(s, x)[i] = a /\ Append(s, x)[j] = b
    BY <1>1, <1>6 DEF Precedes
  <2>2. i \in 1 .. Len(s) /\ s[i] = a
    BY <1>1, <2>1
  <2>3. CASE j \in 1 .. Len(s)
    BY <1>1, <2>1, <2>2, <2>3 DEF Precedes
  <2>4. CASE j = Len(s) + 1
    BY <1>1, <2>1, <2>2, <2>4 DEF ToSet
  <2> QED
    BY <1>2, <2>3, <2>4
<1>7. ASSUME NEW a, NEW b, Precedes(s, a, b)
      PROVE  Precedes(Append(s, x), a, b)
  BY <1>1, <1>3, <1>7 DEF Precedes
<1>8. ASSUME NEW a \in ToSet(s)
      PROVE  Precedes(Append(s, x), a, x)
  <2>1. PICK i \in 1 .. Len(s) : s[i] = a
    BY <1>1, <1>8 DEF ToSet
  <2> QED
    BY <1>1, <1>3, <2>1 DEF Precedes
<1> QED
  BY <1>1, <1>4, <1>5, <1>6, <1>7, <1>8

\* Which element is where after RemoveAt.
LEMMA RemoveAtShifts ==
  ASSUME NEW s \in Seq(Listeners), NEW i \in DOMAIN s
  PROVE  /\ RemoveAt(s, i) \in Seq(Listeners)
         /\ DOMAIN RemoveAt(s, i) = 1 .. Len(s) - 1
         /\ \A j \in 1 .. Len(s) - 1 : j < i => RemoveAt(s, i)[j] = s[j]
         /\ \A j \in 1 .. Len(s) - 1 : j >= i => RemoveAt(s, i)[j] = s[j + 1]
<1> DEFINE before == SubSeq(s, 1, i - 1)
           after == SubSeq(s, i + 1, Len(s))
<1>1. i \in 1 .. Len(s) /\ Len(s) \in Nat /\ DOMAIN s = 1 .. Len(s)
  OBVIOUS
<1>2. /\ before \in Seq(Listeners) /\ Len(before) = i - 1
      /\ \A m \in 1 .. i - 1 : before[m] = s[m]
  BY <1>1
<1>3. /\ after \in Seq(Listeners) /\ Len(after) = Len(s) - i
      /\ \A m \in 1 .. Len(s) - i : after[m] = s[m + i]
  BY <1>1
<1>4. RemoveAt(s, i) = before \o after
  BY DEF RemoveAt
<1> HIDE DEF before, after
<1>5. Len(before) \in Nat /\ Len(after) \in Nat /\ Len(before) + Len(after) = Len(s) - 1
  BY <1>1, <1>2, <1>3
<1>6. /\ before \o after \in Seq(Listeners)
      /\ DOMAIN (before \o after) = 1 .. Len(before) + Len(after)
      /\ \A m \in 1 .. Len(before) + Len(after) :
           /\ m <= Len(before) => (before \o after)[m] = before[m]
           /\ ~(m <= Len(before)) => (before \o after)[m] = after[m - Len(before)]
  BY <1>2, <1>3
<1>7. ASSUME NEW j \in 1 .. Len(s) - 1, j < i PROVE RemoveAt(s, i)[j] = s[j]
  <2>1. j \in 1 .. i - 1 /\ j <= Len(before) /\ j \in 1 .. Len(before) + Len(after)
    BY <1>1, <1>2, <1>5, <1>7
  <2> QED
    BY <1>2, <1>4, <1>6, <2>1
<1>8. ASSUME NEW j \in 1 .. Len(s) - 1, j >= i PROVE RemoveAt(s, i)[j] = s[j + 1]
  <2>1. /\ ~(j <= Len(before)) /\ j \in 1 .. Len(before) + Len(after)
        /\ j - Len(before) = j - (i - 1) /\ j - (i - 1) \in 1 .. Len(s) - i
        /\ j - (i - 1) + i = j + 1
    BY <1>1, <1>2, <1>5, <1>8
  <2> QED
    BY <1>3, <1>4, <1>6, <2>1
<1> QED
  BY <1>4, <1>5, <1>6, <1>7, <1>8

\* Without one of its elements, a list without repeats keeps its order.
LEMMA RemoveAtKeeps ==
  ASSUME NEW s \in Seq(Listeners), NEW i \in DOMAIN s, NoRepeats(s)
  PROVE  /\ RemoveAt(s, i) \in Seq(Listeners)
         /\ ToSet(RemoveAt(s, i)) = ToSet(s) \ {s[i]}
         /\ NoRepeats(RemoveAt(s, i))
         /\ \A a, b : Precedes(RemoveAt(s, i), a, b) <=> Precedes(s, a, b) /\ a # s[i] /\ b # s[i]
<1> DEFINE u == RemoveAt(s, i)
           old(j) == IF j < i THEN j ELSE j + 1
           new(j) == IF j < i THEN j ELSE j - 1
<1>0. i \in 1 .. Len(s) /\ Len(s) \in Nat /\ DOMAIN s = 1 .. Len(s)
  OBVIOUS
<1>1. u \in Seq(Listeners) /\ DOMAIN u = 1 .. Len(s) - 1
  BY RemoveAtShifts
<1>2. \A j \in 1 .. Len(s) - 1 : old(j) \in 1 .. Len(s) /\ old(j) # i /\ u[j] = s[old(j)]
  <2> SUFFICES ASSUME NEW j \in 1 .. Len(s) - 1
               PROVE  old(j) \in 1 .. Len(s) /\ old(j) # i /\ u[j] = s[old(j)]
    OBVIOUS
  <2>1. old(j) \in 1 .. Len(s) /\ old(j) # i
    BY <1>0
  <2>2. CASE j < i
    BY <2>2, RemoveAtShifts
  <2>3. CASE j >= i
    <3>1. u[j] = s[j + 1]
      BY <2>3, RemoveAtShifts
    <3>2. ~(j < i)
      BY <1>0, <2>3
    <3> QED
      BY <2>1, <3>1, <3>2
  <2> QED
    BY <1>0, <2>1, <2>2, <2>3
<1>3. \A j \in 1 .. Len(s) : j # i => new(j) \in 1 .. Len(s) - 1 /\ old(new(j)) = j
  BY <1>0
<1>4. \A j, k \in 1 .. Len(s) - 1 : (j < k <=> old(j) < old(k)) /\ (old(j) = old(k) => j = k)
  BY <1>0
<1>5. \A j, k \in 1 .. Len(s) : j < k /\ j # i /\ k # i => new(j) < new(k)
  BY <1>0
<1>6. \A j \in 1 .. Len(s) : j # i => u[new(j)] = s[j]
  BY <1>2, <1>3
<1> HIDE DEF u, old, new
<1>7. \A j \in 1 .. Len(s) : s[j] = s[i] => j = i
  BY <1>0 DEF NoRepeats
<1>8. ToSet(u) = ToSet(s) \ {s[i]}
  <2>1. ASSUME NEW j \in 1 .. Len(s) - 1 PROVE u[j] \in ToSet(s) /\ u[j] # s[i]
    BY <1>0, <1>2, <1>7 DEF ToSet
  <2>2. ASSUME NEW j \in 1 .. Len(s), s[j] # s[i] PROVE s[j] \in ToSet(u)
    BY <1>1, <1>3, <1>6, <2>2 DEF ToSet
  <2> QED
    BY <1>0, <1>1, <2>1, <2>2 DEF ToSet
<1>9. NoRepeats(u)
  BY <1>0, <1>1, <1>2, <1>4 DEF NoRepeats
<1>10. ASSUME NEW a, NEW b, Precedes(u, a, b) PROVE Precedes(s, a, b) /\ a # s[i] /\ b # s[i]
  <2>1. PICK j \in 1 .. Len(s) - 1, k \in 1 .. Len(s) - 1 : j < k /\ u[j] = a /\ u[k] = b
    BY <1>1, <1>10 DEF Precedes
  <2> QED
    BY <1>0, <1>2, <1>4, <1>7, <2>1 DEF Precedes
<1>11. ASSUME NEW a, NEW b, Precedes(s, a, b), a # s[i], b # s[i] PROVE Precedes(u, a, b)
  <2>1. PICK j \in 1 .. Len(s), k \in 1 .. Len(s) : j < k /\ s[j] = a /\ s[k] = b
    BY <1>0, <1>11 DEF Precedes
  <2>2. j # i /\ k # i
    BY <1>11, <2>1
  <2> QED
    BY <1>1, <1>3, <1>5, <1>6, <2>1, <2>2 DEF Precedes
<1> QED
  BY <1>1, <1>8, <1>9, <1>10, <1>11 DEF u

\* The list that the function On returned leaves.
Off(l, s) == RemoveFirstMatch(s, LAMBDA m : SamePointer(l, m))

\* It is without the first handler of the listener's kind, if there is one.
LEMMA OffRemoves ==
  ASSUME NEW s \in Seq(Listeners), NEW l \in Listeners
  PROVE  \/ Off(l, s) = s /\ \A a \in ToSet(s) : Kind[a] # Kind[l]
         \/ \E i \in DOMAIN s :
              /\ Off(l, s) = RemoveAt(s, i)
              /\ Kind[s[i]] = Kind[l]
              /\ \A j \in DOMAIN s : Kind[s[j]] = Kind[l] => i <= j
<1> DEFINE Matches == {i \in 1 .. Len(s) : SamePointer(l, s[i])}
<1>0. Len(s) \in Nat /\ DOMAIN s = 1 .. Len(s) /\ Matches \subseteq Nat
  OBVIOUS
<1>1. CASE Matches = {}
  <2>1. Off(l, s) = s
    BY <1>1 DEF RemoveFirstMatch, Off
  <2>2. \A a \in ToSet(s) : Kind[a] # Kind[l]
    BY <1>0, <1>1 DEF ToSet, SamePointer
  <2> QED
    BY <2>1, <2>2
<1>2. CASE Matches # {}
  <2>1. PICK i \in Matches : \A j \in Matches : i <= j
    <3>1. PICK i \in Matches : \A j \in Matches : ~(<<j, i>> \in OpToRel(<, Nat))
      BY <1>0, <1>2, WFMin, NatLessThanWellFounded, Zenon
    <3>2. \A j \in Matches : ~(j < i)
      BY <1>0, <3>1 DEF OpToRel
    <3> QED
      BY <1>0, <3>2
  <2>2. SelectInSeq(s, LAMBDA m : SamePointer(l, m)) = i
    <3>1. \A j \in Matches : (\A k \in Matches : j <= k) => j = i
      BY <1>0, <2>1
    <3>2. Min(Matches) = i
      BY <2>1, <3>1 DEF Min
    <3> QED
      BY <1>2, <3>2 DEF SelectInSeq
  <2>3. Off(l, s) = RemoveAt(s, i)
    BY <1>2, <2>2 DEF RemoveFirstMatch, Off
  <2> QED
    BY <1>0, <2>1, <2>3 DEF SamePointer
<1> QED
  BY <1>1, <1>2

\* x, the first listener of its kind in s, is what u lacks.
FirstGone(s, u, kind, x) ==
  /\ x \in ToSet(s) /\ Kind[x] = kind
  /\ \A a \in ToSet(s) : Kind[a] = kind /\ a # x => Precedes(s, x, a)
  /\ ToSet(u) = ToSet(s) \ {x}
  /\ \A a, b : Precedes(u, a, b) <=> Precedes(s, a, b) /\ a # x /\ b # x

\* It keeps the order of the others.
LEMMA OffKeeps ==
  ASSUME NEW s \in Seq(Listeners), NEW l \in Listeners, NoRepeats(s)
  PROVE  /\ NoRepeats(Off(l, s)) /\ ToSet(Off(l, s)) \subseteq ToSet(s)
         /\ (\A a \in ToSet(s) : Kind[a] # Kind[l]) => Off(l, s) = s
         /\ (\E a \in ToSet(s) : Kind[a] = Kind[l]) =>
              \E x : FirstGone(s, Off(l, s), Kind[l], x)
<1> DEFINE u == Off(l, s)
<1>0. Len(s) \in Nat /\ DOMAIN s = 1 .. Len(s)
  OBVIOUS
<1>1. CASE u = s /\ \A a \in ToSet(s) : Kind[a] # Kind[l]
  BY <1>1
<1>2. CASE \E i \in DOMAIN s : /\ u = RemoveAt(s, i)
                               /\ Kind[s[i]] = Kind[l]
                               /\ \A j \in DOMAIN s : Kind[s[j]] = Kind[l] => i <= j
  <2>1. PICK i \in DOMAIN s : /\ u = RemoveAt(s, i)
                              /\ Kind[s[i]] = Kind[l]
                              /\ \A j \in DOMAIN s : Kind[s[j]] = Kind[l] => i <= j
    BY <1>2
  <2>2. s[i] \in ToSet(s)
    BY <2>1 DEF ToSet
  <2>3. ASSUME NEW a \in ToSet(s), Kind[a] = Kind[l], a # s[i] PROVE Precedes(s, s[i], a)
    <3>1. PICK j \in DOMAIN s : s[j] = a
      BY DEF ToSet
    <3>2. i < j
      BY <1>0, <2>1, <2>3, <3>1
    <3> QED
      BY <2>1, <3>1, <3>2 DEF Precedes
  <2>4. /\ NoRepeats(u) /\ ToSet(u) = ToSet(s) \ {s[i]}
        /\ \A a, b : Precedes(u, a, b) <=> Precedes(s, a, b) /\ a # s[i] /\ b # s[i]
    BY <2>1, RemoveAtKeeps
  <2>5. FirstGone(s, u, Kind[l], s[i])
    BY <2>1, <2>2, <2>3, <2>4 DEF FirstGone
  <2> HIDE DEF u
  <2>6. ToSet(u) \subseteq ToSet(s)
    BY <2>4
  <2>7. \E a \in ToSet(s) : Kind[a] = Kind[l]
    BY <2>1, <2>2
  <2> QED
    BY <2>4, <2>5, <2>6, <2>7 DEF u
<1> QED
  BY <1>1, <1>2, OffRemoves

-------------------------------------------------------------------------------
(* The types.                                                               *)

linkVars == <<link, worker, workerVars, closer, losses>>

\* A break allows a round of reconnects more, and there are so many breaks.
LEMMA AllowedGrows ==
  /\ \A b \in Nat : Allowed(b) \in Nat /\ Allowed(b + 1) = Allowed(b) + MaxReconnectAttempts
  /\ \A b \in 0 .. MaxLosses + 1 : Allowed(b) <= (MaxLosses + 2) * MaxReconnectAttempts
<1>1. MaxReconnectAttempts \in Nat /\ MaxLosses \in Nat
  BY SdkAssumption
<1>2. ASSUME NEW m \in Nat, NEW b \in Nat
      PROVE  m * b \in Nat /\ m * (b + 1) = m * b + m
  OBVIOUS
<1>3. ASSUME NEW m \in Nat, NEW c \in Nat, NEW b \in 0 .. c + 1
      PROVE  m * b <= (c + 2) * m
  <2>1. (c + 2) * m = m * b + m * (c + 2 - b)
    OBVIOUS
  <2>2. m * (c + 2 - b) \in Nat /\ m * b \in Nat
    OBVIOUS
  <2> QED
    BY <2>1, <2>2
<1> QED
  BY <1>1, <1>2, <1>3 DEF Allowed

\* A break more allows a round of reconnects more.
LEMMA BreaksGrow ==
  ASSUME losses \in 0 .. MaxLosses
  PROVE  /\ Breaks \in 0 .. MaxLosses + 1
         /\ Allowed(Breaks) \in Nat
         /\ Allowed(Breaks + 1) = Allowed(Breaks) + MaxReconnectAttempts
         /\ Allowed(Breaks) <= (MaxLosses + 2) * MaxReconnectAttempts
<1>1. MaxLosses \in Nat
  BY SdkAssumption
<1>2. Breaks \in 0 .. MaxLosses + 1
  BY <1>1 DEF Breaks
<1>3. Breaks \in Nat
  BY <1>1, <1>2
<1> QED
  BY <1>2, <1>3, AllowedGrows

\* What becomes of the connection, whoever moves.
LEMMA LinkStep ==
  ASSUME LinkOK, ListenOK, [Next]_vars
  PROVE  LinkOK'
<1>0. /\ MaxReconnectAttempts \in Nat /\ MaxLosses \in Nat
      /\ Breaks \in 0 .. MaxLosses + 1 /\ Allowed(Breaks) \in Nat
      /\ Allowed(Breaks + 1) = Allowed(Breaks) + MaxReconnectAttempts
      /\ done <= Allowed(Breaks)
      /\ done \in Nat
  <2>1. Allowed(Breaks) \in Nat /\ MaxReconnectAttempts \in Nat /\ done \in Nat
    BY SdkAssumption, BreaksGrow DEF LinkOK, DoneIds
  <2> QED
    BY <2>1, SdkAssumption, BreaksGrow DEF LinkOK
<1>B. /\ closer' = closer /\ losses' = losses => Breaks' = Breaks
      /\ closer' = "closed" /\ closer # "closed" /\ losses' = losses => Breaks' = Breaks + 1
      /\ closer' = closer /\ losses' = losses + 1 => Breaks' = Breaks + 1
      /\ closer' # "closed" /\ closer # "closed" /\ losses' = losses => Breaks' = Breaks
  BY DEF Breaks, LinkOK
<1>D. 0 .. (MaxLosses + 2) * MaxReconnectAttempts = DoneIds /\ DoneIds \subseteq Int
  BY DEF DoneIds
<1> HIDE DEF Breaks, Allowed, DoneIds
<1> USE DEF WorkerStates, Away
<1>1. ASSUME UNCHANGED linkVars PROVE LinkOK'
  BY <1>1, <1>B DEF LinkOK, linkVars, workerVars, Allowed
<1>2. ASSUME Connected, link = "none" \/ worker = "adopt" PROVE LinkOK'
  <2>1. Breaks' = Breaks
    BY <1>2, <1>B DEF Connected
  <2>2. Allowed(Breaks)' = Allowed(Breaks)
    BY <2>1 DEF Allowed
  <2>3. UNCHANGED <<done, closedDones, onceUsed, closer, losses>>
    BY <1>2 DEF Connected
  <2>4. 0 \in 0 .. MaxReconnectAttempts
    BY <1>0
  <2> QED
    BY <1>0, <1>2, <2>2, <2>3, <2>4 DEF Connected, LinkOK
<1>3. CASE ReadLoop
  <2>1. CASE ReadTop \/ ReadFails \/ Dispatched
    <3>1. Breaks' = Breaks
      BY <1>B, <2>1 DEF ReadTop, ReadFails, Dispatched
    <3> QED
      BY <2>1, <3>1 DEF LinkOK, ReadTop, ReadFails, Dispatched, workerVars, Allowed
  <2>2. CASE HandlerSkips \/ HandlerCallsBack \/ HandlerPushes
    BY <1>1, <2>2 DEF HandlerSkips, HandlerCallsBack, HandlerPushes, NextHandler, linkVars
  <2> QED
    BY <1>3, <2>1, <2>2 DEF ReadLoop
<1>4. CASE Reconnect
  <2>0. ASSUME ~ReconnectAdopts PROVE Breaks' = Breaks
    BY <1>4, <1>B, <2>0
       DEF Reconnect, ReconnectSteps, ReconnectChecks, ReconnectWakes, ReconnectResetsOnce,
           ReconnectRenewsDone, ReconnectDials, ReconnectFails
  <2>1. CASE ReconnectChecks
    <3>1. Breaks' = Breaks /\ (worker \in Away => link \in {"lost", "closed"})
      BY <1>B, <2>1 DEF ReconnectChecks, LinkOK
    <3>2. closedDones' \subseteq DoneIds /\ onceUsed' \in BOOLEAN
      BY <2>1 DEF ReconnectChecks, CloseDoneOnce, LinkOK
    <3>3. CASE GivesUp
      BY <2>1, <3>1, <3>2, <3>3 DEF ReconnectChecks, LinkOK, Allowed
    <3>4. CASE ~GivesUp
      BY <1>0, <1>D, <2>1, <3>1, <3>2, <3>4 DEF ReconnectChecks, GivesUp, LinkOK, Allowed
    <3> QED
      BY <3>3, <3>4
  <2>2. CASE ReconnectWakes \/ ReconnectResetsOnce \/ ReconnectDials \/ ReconnectFails
    BY <1>0, <1>B, <1>D, <2>2
       DEF ReconnectWakes, ReconnectResetsOnce, ReconnectDials, ReconnectFails, workerVars, LinkOK,
           Allowed
  <2>3. CASE ReconnectRenewsDone
    <3>1. Breaks' = Breaks /\ done' = done + 1 /\ attempts' = attempts /\ link \in {"lost", "closed"}
      BY <1>B, <2>3 DEF ReconnectRenewsDone, LinkOK
    <3>2. done + 1 <= Allowed(Breaks)
      BY <1>0, <2>3, <3>1 DEF ReconnectRenewsDone, LinkOK
    <3>3. done + 1 \in DoneIds
      <4>1. /\ Allowed(Breaks) <= (MaxLosses + 2) * MaxReconnectAttempts
            /\ (MaxLosses + 2) * MaxReconnectAttempts \in Int
        BY <1>0, BreaksGrow DEF LinkOK
      <4> QED
        BY <1>0, <1>D, <3>2, <4>1
    <3> QED
      BY <1>0, <1>D, <2>3, <3>1, <3>3 DEF ReconnectRenewsDone, LinkOK, Allowed
  <2>4. CASE ReconnectAdopts
    BY <1>2, <2>4 DEF ReconnectAdopts
  <2> QED
    BY <1>4, <2>1, <2>2, <2>3, <2>4 DEF Reconnect, ReconnectSteps
<1>5. CASE ConnectionLost
  <2>1. Breaks' = Breaks + 1 /\ losses' \in 0 .. MaxLosses
    BY <1>0, <1>5, <1>B DEF ConnectionLost, LoseLink, LinkOK
  <2>2. Allowed(Breaks)' = Allowed(Breaks) + MaxReconnectAttempts
    BY <1>0, <2>1 DEF Allowed
  <2> QED
    BY <1>0, <1>5, <2>1, <2>2 DEF ConnectionLost, LoseLink, LinkOK, workerVars
<1>6. CASE Close
  <2>1. Breaks' \in {Breaks, Breaks + 1} /\ (link' # link => Breaks' = Breaks + 1)
    BY <1>6, <1>B DEF Close, CloseSteps, CloseFlags, CloseClosesDone, CloseClosesConn, LinkOK
  <2>2. /\ Allowed(Breaks)' \in Nat
        /\ Allowed(Breaks)' \in {Allowed(Breaks), Allowed(Breaks) + MaxReconnectAttempts}
        /\ link' # link => Allowed(Breaks)' = Allowed(Breaks) + MaxReconnectAttempts
    <3>1. Breaks' = Breaks => Allowed(Breaks)' = Allowed(Breaks)
      BY DEF Allowed
    <3>2. Breaks' = Breaks + 1 => Allowed(Breaks)' = Allowed(Breaks + 1)
      BY DEF Allowed
    <3> QED
      BY <1>0, <2>1, <3>1, <3>2
  <2>3. /\ UNCHANGED <<worker, attempts, done, losses>>
        /\ link' \in {link, "closed"}
        /\ closedDones' \subseteq DoneIds /\ onceUsed' \in BOOLEAN /\ flag' \in BOOLEAN
        /\ closer' \in {"idle", "flagged", "done", "closed"}
    <3>1. CASE CloseFlags
      BY <3>1 DEF CloseFlags, LinkOK
    <3>2. CASE CloseClosesDone
      BY <3>2 DEF CloseClosesDone, CloseDoneOnce, LinkOK
    <3>3. CASE CloseClosesConn
      BY <3>3 DEF CloseClosesConn, workerVars, LinkOK
    <3> QED
      BY <1>6, <3>1, <3>2, <3>3 DEF Close, CloseSteps
  <2>4. CASE link' = link
    BY <1>0, <1>D, <2>2, <2>3, <2>4 DEF LinkOK
  <2>5. CASE link' # link
    BY <1>0, <1>D, <1>6, <2>2, <2>3, <2>5
       DEF LinkOK, Close, CloseSteps, CloseFlags, CloseClosesDone, CloseClosesConn
  <2> QED
    BY <2>4, <2>5
<1>7. ASSUME NEW r \in Requests, Request(r) \/ Cancelled(r)
      PROVE  LinkOK'
  BY <1>1, <1>7 DEF Request, Cancelled, RequestSteps, RequestStores, RequestSends, RequestSendFails,
                    RequestSelects, RequestReturns, RequestCancelled, linkVars
<1>8. ASSUME NEW r \in Requests, Answer(r)
      PROVE  LinkOK'
  <2>1. Breaks' = Breaks
    BY <1>8, <1>B DEF Answer, ReadAnswer
  <2> QED
    BY <1>8, <2>1 DEF Answer, ReadAnswer, LinkOK, workerVars, Allowed
<1>9. ASSUME NEW l \in Listeners, Start(l) \/ Cancel(l) \/ CallerTakes(l)
      PROVE  LinkOK'
  BY <1>1, <1>9 DEF Start, Registers, StartSends, StartFails, OpenTerminal, OnData, OnPortOpen, Cancel,
                    CallerTakes, StaysConnected, linkVars, transportVars
<1>10. ASSUME NEW l \in Listeners, Receives(l)
       PROVE  LinkOK'
  <2>1. Breaks' = Breaks
    BY <1>10, <1>B DEF Receives, ReadMessage
  <2> QED
    BY <1>10, <2>1 DEF Receives, ReadMessage, LinkOK, workerVars, Allowed
<1>11. CASE EnsureWS \/ UNCHANGED vars
  BY <1>1, <1>2, <1>11 DEF EnsureWS, vars, transportVars, linkVars
<1> QED
  BY <1>3, <1>4, <1>5, <1>6, <1>7, <1>8, <1>9, <1>10, <1>11 DEF Next

callVars == <<requestVars, owed>>

\* The requests: an id is the number of the request that took it.
LEMMA CallsStep ==
  ASSUME LinkOK, CallsOK, [Next]_vars
  PROVE  CallsOK'
<1>0. /\ MaxRequests \in Nat /\ Requests = 1 .. MaxRequests /\ Ids = 0 .. MaxRequests
      /\ done \in DoneIds
  BY SdkAssumption DEF Requests, Ids, LinkOK
<1> HIDE DEF DoneIds, Ids, Requests
<1>1. ASSUME UNCHANGED callVars PROVE CallsOK'
  BY <1>1 DEF CallsOK, callVars, requestVars
<1>2. ASSUME UNCHANGED requestVars, owed' = {} PROVE CallsOK'
  BY <1>2 DEF CallsOK, requestVars
<1>3. ASSUME NEW r \in Requests, NEW how \in Returned, Returns(r, how), call[r] # "idle",
             UNCHANGED <<nextID, id, reply, waitsOn, owed>>
      PROVE  CallsOK'
  <2>1. call' \in [Requests -> CallStates] /\ pending' \in [Ids -> Requests \cup {None}]
    BY <1>3 DEF Returns, CallsOK, Returned, CallStates
  <2>2. \A x \in Requests : call'[x] = "idle" <=> call[x] = "idle"
    BY <1>3 DEF Returns, CallsOK, Returned
  <2> QED
    BY <1>3, <2>1, <2>2 DEF CallsOK
<1>4. ASSUME NEW r \in Requests, RequestStores(r) PROVE CallsOK'
  <2>1. nextID = r /\ r \in Ids /\ r + 1 \in 1 .. MaxRequests + 1 /\ r \in Nat
    <3>1. nextID <= r /\ nextID \in Nat /\ nextID >= 1 /\ r \in Nat /\ r <= MaxRequests
      BY <1>0, <1>4 DEF RequestStores, CallsOK
    <3>2. ASSUME nextID # r PROVE FALSE
      <4>1. nextID \in 1 .. r - 1 /\ nextID \in Requests
        BY <1>0, <3>1, <3>2
      <4>2. call[nextID] # "idle"
        BY <1>4, <4>1 DEF RequestStores
      <4> QED
        BY <3>1, <4>1, <4>2 DEF CallsOK
    <3> QED
      BY <1>0, <3>1, <3>2
  <2>2. \A x \in Requests : call'[x] = "idle" <=> r + 1 <= x
    BY <1>0, <1>4, <2>1 DEF RequestStores, CallsOK
  <2> QED
    BY <1>4, <2>1, <2>2 DEF RequestStores, CallsOK, CallStates
<1>5. ASSUME NEW r \in Requests, RequestSends(r) \/ RequestSelects(r) PROVE CallsOK'
  <2>1. \A x \in Requests : call'[x] = "idle" <=> call[x] = "idle"
    BY <1>5 DEF RequestSends, RequestSelects, CallsOK
  <2>2. call' \in [Requests -> CallStates] /\ waitsOn' \in [Requests -> DoneIds] /\ owed' \subseteq Requests
    BY <1>0, <1>5 DEF RequestSends, RequestSelects, CallsOK, CallStates
  <2> QED
    BY <1>5, <2>1, <2>2 DEF RequestSends, RequestSelects, CallsOK
<1>6. ASSUME NEW r \in Requests, RequestSendFails(r) \/ RequestReturns(r) \/ RequestCancelled(r)
      PROVE  CallsOK'
  BY <1>3, <1>6 DEF RequestSendFails, RequestReturns, RequestCancelled, Returned
<1>7. ASSUME NEW r \in Requests, ReadAnswer(r) PROVE CallsOK'
  <2>1. UNCHANGED <<call, nextID, id, waitsOn>> /\ owed' \subseteq Requests
    BY <1>7 DEF ReadAnswer, CallsOK
  <2>2. /\ pending' \in [Ids -> Requests \cup {None}]
        /\ reply' \in [Requests -> Requests \cup {None}]
    BY <1>7 DEF ReadAnswer, CallsOK
  <2> QED
    BY <2>1, <2>2 DEF CallsOK
<1>8. CASE ReadLoop
  BY <1>1, <1>8 DEF ReadLoop, ReadTop, ReadFails, Dispatched, HandlerSkips, HandlerCallsBack,
                    HandlerPushes, NextHandler, callVars, requestVars
<1>9. CASE Reconnect \/ EnsureWS
  <2>1. CASE Connected
    BY <1>2, <2>1 DEF Connected
  <2>2. CASE Reconnect /\ ~Connected
    BY <1>1, <2>2 DEF Reconnect, ReconnectSteps, ReconnectChecks, ReconnectWakes,
           ReconnectResetsOnce, ReconnectRenewsDone, ReconnectDials, ReconnectFails, ReconnectAdopts,
           callVars, requestVars
  <2> QED
    BY <1>9, <2>1, <2>2 DEF EnsureWS
<1>10. CASE ConnectionLost
  BY <1>2, <1>10 DEF ConnectionLost, LoseLink
<1>11. CASE Close
  <2>1. CASE CloseFlags \/ CloseClosesDone
    BY <1>1, <2>1 DEF CloseFlags, CloseClosesDone, callVars
  <2>2. CASE CloseClosesConn
    BY <2>2 DEF CloseClosesConn, CallsOK
  <2> QED
    BY <1>11, <2>1, <2>2 DEF Close, CloseSteps
<1>12. ASSUME NEW l \in Listeners, Start(l) \/ Cancel(l) \/ Receives(l) \/ CallerTakes(l)
       PROVE  CallsOK'
  BY <1>1, <1>12 DEF Start, Registers, StartSends, StartFails, OpenTerminal, OnData, OnPortOpen, Cancel,
                     Receives, CallerTakes, StaysConnected, transportVars, callVars
<1> QED
  BY <1>1, <1>4, <1>5, <1>6, <1>7, <1>8, <1>9, <1>10, <1>11, <1>12
     DEF Next, Request, RequestSteps, Cancelled, Answer, vars, transportVars, callVars

-------------------------------------------------------------------------------
(* The lists of handlers, each with its members.                            *)

\* The function On returned, for every list.
LEMMA UnregisteredLists ==
  ASSUME handlers \in [Types -> Seq(Listeners)], NEW l \in Listeners, NEW y \in Types
  PROVE  Unregistered(l)[y] = IF y \in TypesOf(Kind[l]) THEN Off(l, handlers[y]) ELSE handlers[y]
BY DEF Unregistered, Off

\* What On, and the function it returned, leave are lists of listeners.
LEMMA RegistersTypes ==
  ASSUME handlers \in [Types -> Seq(Listeners)], NEW l \in Listeners
  PROVE  /\ Registered(l) \in [Types -> Seq(Listeners)]
         /\ Unregistered(l) \in [Types -> Seq(Listeners)]
<1>1. Registered(l) \in [Types -> Seq(Listeners)]
  BY DEF Registered
<1>2. ASSUME NEW y \in Types PROVE Unregistered(l)[y] \in Seq(Listeners)
  <2>1. Off(l, handlers[y]) \in Seq(Listeners)
    BY OffRemoves, RemoveAtShifts
  <2> QED
    BY <2>1, UnregisteredLists
<1>3. Unregistered(l) = [y \in Types |-> Unregistered(l)[y]]
  BY DEF Unregistered
<1> QED
  BY <1>1, <1>2, <1>3

\* What one message and one caller do to the listeners.
LEMMA ListenStep ==
  ASSUME LinkOK, ListenOK, [Next]_vars
  PROVE  ListenOK'
<1>0. /\ Chunks \in Nat /\ Exit \in Nat /\ Cap \in Nat
      /\ \A l \in Listeners : FinalItem(l) \in 0 .. Exit
      /\ \A l \in Listeners : Kind[l] \in Kinds
      /\ \A m \in Message : m.type \in Types /\ m.to \in Listeners /\ m.item \in Nat
  BY SandboxAssumption, SdkAssumption DEF FinalItem, Exit, Message
<1>A. \A l \in Listeners : Registered(l) \in [Types -> Seq(Listeners)]
                           /\ Unregistered(l) \in [Types -> Seq(Listeners)]
  BY RegistersTypes DEF ListenOK
<1> HIDE DEF Exit
<1>1. ASSUME UNCHANGED <<readVars, listenVars>>,
             worker' = worker \/ (worker # "dispatch" /\ worker' # "dispatch")
      PROVE  ListenOK'
  BY <1>1 DEF ListenOK, readVars, listenVars, FinalItem
<1>2. ASSUME StaysConnected, handlers' \in [Types -> Seq(Listeners)],
             stage' \in [Listeners -> Stages], served' \subseteq Listeners, UNCHANGED <<next, buf, got>>
      PROVE  ListenOK'
  BY <1>2 DEF StaysConnected, ListenOK
<1>3. CASE ReadLoop
  <2>1. CASE (ReadTop \/ ReadFails) /\ UNCHANGED listenVars
    BY <1>1, <2>1 DEF ReadTop, ReadFails
  <2>2. CASE Dispatched /\ UNCHANGED listenVars
    BY <2>2 DEF Dispatched, ListenOK, listenVars
  <2>3. ASSUME worker = "dispatch", todo # <<>>
        PROVE  /\ Head(todo) \in Listeners /\ Tail(todo) \in Seq(Listeners)
               /\ msg.item \in 1 .. Exit
    BY <1>0, <2>3 DEF ListenOK, Message
  <2>4. CASE HandlerSkips
    BY <2>3, <2>4 DEF HandlerSkips, NextHandler, ListenOK
  <2>5. CASE HandlerCallsBack
    <3>1. Head(todo) \in Listeners /\ Tail(todo) \in Seq(Listeners) /\ msg.item \in 1 .. Exit
      BY <2>3, <2>5 DEF HandlerCallsBack
    <3>2. got' \in [Listeners -> Seq(1 .. Exit)]
      BY <2>5, <3>1 DEF HandlerCallsBack, ListenOK
    <3> QED
      BY <2>5, <3>1, <3>2 DEF HandlerCallsBack, NextHandler, ListenOK
  <2>6. CASE HandlerPushes
    <3>1. PICK l \in Listeners : l = Head(todo)
      BY <2>3, <2>6 DEF HandlerPushes
    <3>2. Tail(todo) \in Seq(Listeners) /\ msg.item \in 1 .. Exit
      BY <2>3, <2>6 DEF HandlerPushes
    <3>3. /\ buf' = [buf EXCEPT ![l] = Append(buf[l], msg.item)]
          /\ buf[l] \in Seq(1 .. Exit) /\ Len(buf[l]) < Cap
      BY <2>6, <3>1 DEF HandlerPushes, ListenOK
    <3>4. /\ Append(buf[l], msg.item) \in Seq(1 .. Exit)
          /\ Len(Append(buf[l], msg.item)) <= Cap
      BY <1>0, <3>2, <3>3
    <3>5. buf' \in [Listeners -> Seq(1 .. Exit)] /\ \A m \in Listeners : Len(buf'[m]) <= Cap
      BY <3>3, <3>4 DEF ListenOK
    <3>6. handlers' \in [Types -> Seq(Listeners)] /\ stage' \in [Listeners -> Stages]
      BY <1>A, <2>6, <3>1 DEF HandlerPushes, ListenOK, Stages
    <3> QED
      BY <2>6, <3>2, <3>5, <3>6 DEF HandlerPushes, NextHandler, ListenOK
  <2> QED
    BY <1>3, <2>1, <2>2, <2>4, <2>5, <2>6 DEF ReadLoop
<1>4. CASE Reconnect \/ EnsureWS
  BY <1>1, <1>4 DEF Reconnect, EnsureWS, ReconnectSteps, ReconnectChecks, ReconnectWakes,
                    ReconnectResetsOnce, ReconnectRenewsDone, ReconnectDials, ReconnectFails,
                    ReconnectAdopts, Connected, LinkOK
<1>5. CASE ConnectionLost
  BY <1>5 DEF ConnectionLost, LoseLink, readVars, ListenOK
<1>6. CASE Close
  <2>1. UNCHANGED <<worker, readVars, stage, next, buf, got>> /\ served' \subseteq served
    BY <1>6 DEF Close, CloseSteps, CloseFlags, CloseClosesDone, CloseClosesConn
  <2> QED
    BY <2>1 DEF readVars, ListenOK
<1>7. ASSUME NEW r \in Requests, Request(r) \/ Cancelled(r) \/ Answer(r)
      PROVE  ListenOK'
  BY <1>1, <1>7 DEF Request, Cancelled, Answer, RequestSteps, RequestStores, RequestSends,
                    RequestSendFails, RequestSelects, RequestReturns, RequestCancelled, ReadAnswer
<1>8. ASSUME NEW l \in Listeners, Start(l) \/ Cancel(l)
      PROVE  ListenOK'
  <2>1. StaysConnected /\ UNCHANGED <<next, buf, got>>
    BY <1>8 DEF Start, Registers, StartSends, StartFails, OpenTerminal, OnData, OnPortOpen, Cancel
  <2>2. handlers' \in [Types -> Seq(Listeners)]
    BY <1>8, <1>A DEF Start, Registers, StartSends, StartFails, OpenTerminal, OnData, OnPortOpen, Cancel,
                      ListenOK
  <2>3. stage' \in [Listeners -> Stages] /\ served' \subseteq Listeners
    BY <1>8 DEF Start, Registers, StartSends, StartFails, OpenTerminal, OnData, OnPortOpen, Cancel,
                Sends, ListenOK, Stages
  <2> QED
    BY <1>2, <2>1, <2>2, <2>3
<1>9. ASSUME NEW l \in Listeners, Receives(l)
      PROVE  ListenOK'
  <2>1. PICK y \in TypeOfMessage(l, next[l]) : ReadMessage([type |-> y, to |-> l, item |-> next[l]])
    BY <1>9 DEF Receives
  <2>2. y \in TypesOf(Kind[l]) /\ y \in Types
    BY <1>0, <2>1 DEF TypeOfMessage, TypesOf, Types, Kinds
  <2>3. next[l] \in 1 .. FinalItem(l) /\ next[l] + 1 \in 1 .. Exit + 1 /\ next[l] \in Nat
    BY <1>0, <1>9 DEF Receives, ListenOK
  <2>4. msg' = [type |-> y, to |-> l, item |-> next[l]] /\ todo' = handlers[y] /\ worker' = "dispatch"
    BY <2>1 DEF ReadMessage
  <2>5. /\ msg' \in Message /\ msg'.type = y /\ msg'.to = l /\ msg'.item = next[l]
        /\ todo' \in Seq(Listeners)
    BY <2>2, <2>3, <2>4 DEF Message, ListenOK
  <2>6. next' \in [Listeners -> 1 .. Exit + 1] /\ next'[l] = next[l] + 1
    BY <1>9, <2>3 DEF Receives, ListenOK
  <2> QED
    BY <1>9, <2>2, <2>3, <2>4, <2>5, <2>6 DEF Receives, ListenOK, FinalItem
<1>10. ASSUME NEW l \in Listeners, CallerTakes(l)
       PROVE  ListenOK'
  <2>1. /\ buf[l] \in Seq(1 .. Exit) /\ got[l] \in Seq(1 .. Exit) /\ buf[l] # <<>>
        /\ Len(buf[l]) <= Cap
    BY <1>10 DEF CallerTakes, ListenOK
  <2>2. /\ Tail(buf[l]) \in Seq(1 .. Exit) /\ Len(Tail(buf[l])) <= Cap
        /\ Append(got[l], Head(buf[l])) \in Seq(1 .. Exit)
    <3>0. Len(buf[l]) \in Nat
      BY <2>1, LenProperties
    <3>1. Tail(buf[l]) \in Seq(1 .. Exit) /\ Len(Tail(buf[l])) <= Cap
      <4>1. Tail(buf[l]) \in Seq(1 .. Exit) /\ Len(Tail(buf[l])) = Len(buf[l]) - 1
        BY <2>1, HeadTailProperties
      <4> QED
        BY <1>0, <2>1, <3>0, <4>1
    <3>2. Head(buf[l]) \in 1 .. Exit
      BY <2>1, HeadTailProperties
    <3>3. Append(got[l], Head(buf[l])) \in Seq(1 .. Exit)
      BY <2>1, <3>2
    <3> QED
      BY <3>1, <3>3
  <2>3. /\ buf' \in [Listeners -> Seq(1 .. Exit)] /\ got' \in [Listeners -> Seq(1 .. Exit)]
        /\ \A m \in Listeners : Len(buf'[m]) <= Cap
    BY <1>10, <2>2 DEF CallerTakes, ListenOK
  <2> QED
    BY <1>10, <2>3 DEF CallerTakes, transportVars, readVars, ListenOK
<1>11. CASE UNCHANGED vars
  BY <1>1, <1>11 DEF vars, transportVars
<1> QED
  BY <1>3, <1>4, <1>5, <1>6, <1>7, <1>8, <1>9, <1>10, <1>11 DEF Next

\* The first part of the invariant, in every reachable state.
LEMMA ShapeHolds == Spec => []ShapeInv
<1>1. Init => ShapeInv
  <2> SUFFICES ASSUME Init PROVE ShapeInv
    OBVIOUS
  <2>0. /\ MaxRequests \in Nat /\ MaxReconnectAttempts \in Nat /\ MaxLosses \in Nat
        /\ Chunks \in Nat /\ Cap \in Nat /\ 0 \in DoneIds
    <3>1. ASSUME NEW m \in Nat, NEW c \in Nat PROVE 0 \in 0 .. (c + 2) * m
      <4>1. (c + 2) * m \in Nat
        OBVIOUS
      <4> QED
        BY <4>1
    <3> QED
      BY <3>1, SdkAssumption, SandboxAssumption DEF DoneIds
  <2>1. LinkOK
    <3>1. Breaks = 0 /\ Allowed(Breaks) \in Nat
      BY <2>0, AllowedGrows DEF Init, TransportInit, Breaks
    <3>2. /\ link = "none" /\ worker = "none" /\ attempts = 0 /\ done = 0 /\ closedDones = {}
          /\ closer = "idle" /\ losses = 0 /\ flag \in BOOLEAN /\ onceUsed \in BOOLEAN
      BY DEF Init, TransportInit
    <3>3. 0 <= Allowed(Breaks) /\ 0 \in 0 .. MaxReconnectAttempts /\ 0 \in 0 .. MaxLosses
      BY <2>0, <3>1
    <3> QED
      BY <2>0, <3>2, <3>3 DEF LinkOK, WorkerStates, Away
  <2>2. CallsOK
    BY <2>0 DEF Init, TransportInit, CallsOK, CallStates, Ids, Requests
  <2>3. ListenOK
    BY <2>0 DEF Init, TransportInit, ListenOK, Stages, Exit
  <2> QED
    BY <2>1, <2>2, <2>3 DEF ShapeInv
<1>2. ShapeInv /\ [Next]_vars => ShapeInv'
  BY LinkStep, CallsStep, ListenStep DEF ShapeInv
<1> QED
  BY <1>1, <1>2, PTL DEF Spec

-------------------------------------------------------------------------------
(* The handlers.                                                            *)

\* In a list without repeats, one of two comes first.
LEMMA PrecedesOneWay ==
  ASSUME NEW s \in Seq(Listeners), NoRepeats(s), NEW a, NEW b, Precedes(s, a, b)
  PROVE  ~Precedes(s, b, a)
<1>0. Len(s) \in Nat /\ DOMAIN s = 1 .. Len(s)
  OBVIOUS
<1>1. SUFFICES ASSUME Precedes(s, b, a) PROVE FALSE
  OBVIOUS
<1>2. PICK i \in DOMAIN s, j \in DOMAIN s : i < j /\ s[i] = a /\ s[j] = b
  BY DEF Precedes
<1>3. PICK k \in DOMAIN s, m \in DOMAIN s : k < m /\ s[k] = b /\ s[m] = a
  BY <1>1 DEF Precedes
<1>4. i = m /\ j = k
  BY <1>2, <1>3 DEF NoRepeats
<1> QED
  BY <1>0, <1>2, <1>3, <1>4

\* No listener goes back to where it had not begun.
BeganStay == \A m \in Listeners : Began(m) => Began(m)'

\* The lists after On.
LEMMA RegisterKeeps ==
  ASSUME ListenOK, HandlersKnown, CommandsTogether, NEW l \in Listeners,
         ~Began(l), Began(l)', BeganStay, handlers' = Registered(l)
  PROVE  HandlersKnown' /\ CommandsTogether'
<1>0. /\ handlers \in [Types -> Seq(Listeners)] /\ Kind[l] \in Kinds
      /\ \A y \in Types : l \notin ToSet(handlers[y])
  BY SdkAssumption DEF ListenOK, HandlersKnown
<1>1. ASSUME NEW y \in Types
      PROVE  /\ y \in TypesOf(Kind[l]) => handlers'[y] = Append(handlers[y], l)
             /\ y \notin TypesOf(Kind[l]) => handlers'[y] = handlers[y]
  BY <1>0 DEF Registered
<1>2. ASSUME NEW y \in Types, y \in TypesOf(Kind[l])
      PROVE  /\ ToSet(handlers'[y]) = ToSet(handlers[y]) \cup {l}
             /\ NoRepeats(handlers'[y])
             /\ \A a, b : Precedes(handlers'[y], a, b)
                            <=> Precedes(handlers[y], a, b) \/ (a \in ToSet(handlers[y]) /\ b = l)
  <2>1. handlers[y] \in Seq(Listeners) /\ NoRepeats(handlers[y]) /\ l \notin ToSet(handlers[y])
    BY <1>0 DEF HandlersKnown
  <2>2. handlers'[y] = Append(handlers[y], l)
    BY <1>1, <1>2
  <2> QED
    BY <2>1, <2>2, AppendHandler
<1>3. HandlersKnown'
  <2> SUFFICES ASSUME NEW y \in Types
               PROVE  /\ NoRepeats(handlers'[y])
                      /\ \A m \in ToSet(handlers'[y]) : y \in TypesOf(Kind[m]) /\ Began(m)'
    BY DEF HandlersKnown, Began
  <2>1. \A m \in ToSet(handlers[y]) : m \in Listeners /\ y \in TypesOf(Kind[m]) /\ Began(m)'
    <3>1. handlers[y] \in Seq(Listeners)
      BY <1>0
    <3>2. ToSet(handlers[y]) \subseteq Listeners
      BY <3>1 DEF ToSet
    <3> QED
      BY <3>2 DEF HandlersKnown, BeganStay
  <2> QED
    BY <1>1, <1>2, <2>1 DEF HandlersKnown
<1>T. CommandsTogether' <=>
        /\ handlers'["stderr"] = handlers'["exit"]
        /\ \A a \in Listeners : Kind[a] = "exec" =>
             (a \in ToSet(handlers'["stdout"]) <=> a \in ToSet(handlers'["exit"]))
        /\ \A a, b \in Listeners : Kind[a] = "exec" /\ Kind[b] = "exec" =>
             (Precedes(handlers'["stdout"], a, b) <=> Precedes(handlers'["exit"], a, b))
  BY DEF CommandsTogether
<1>4. {"stdout", "stderr", "exit"} \subseteq Types
  BY DEF Types
<1>5. CASE Kind[l] = "exec"
  <2>1. TypesOf(Kind[l]) = {"stdout", "stderr", "exit"}
    BY <1>5 DEF TypesOf
  <2>2. handlers'["stderr"] = handlers'["exit"]
    BY <1>1, <1>4, <2>1 DEF CommandsTogether
  <2>3. \A a \in Listeners : Kind[a] = "exec" =>
          (a \in ToSet(handlers'["stdout"]) <=> a \in ToSet(handlers'["exit"]))
    BY <1>2, <1>4, <2>1 DEF CommandsTogether
  <2>4. \A a, b \in Listeners : Kind[a] = "exec" /\ Kind[b] = "exec" =>
          (Precedes(handlers'["stdout"], a, b) <=> Precedes(handlers'["exit"], a, b))
    BY <1>2, <1>4, <2>1 DEF CommandsTogether
  <2> QED
    BY <1>3, <1>T, <2>2, <2>3, <2>4
<1>6. CASE Kind[l] # "exec"
  <2>1. "stderr" \notin TypesOf(Kind[l]) /\ "exit" \notin TypesOf(Kind[l])
    BY <1>0, <1>6 DEF TypesOf, Kinds
  <2>2. handlers'["stderr"] = handlers["stderr"] /\ handlers'["exit"] = handlers["exit"]
    BY <1>1, <1>4, <2>1
  <2>3. \A a, b \in Listeners : Kind[a] = "exec" /\ Kind[b] = "exec" =>
          /\ a \in ToSet(handlers'["stdout"]) <=> a \in ToSet(handlers["stdout"])
          /\ Precedes(handlers'["stdout"], a, b) <=> Precedes(handlers["stdout"], a, b)
    BY <1>1, <1>2, <1>4, <1>6
  <2> QED
    BY <1>3, <1>T, <2>2, <2>3 DEF CommandsTogether
<1> QED
  BY <1>3, <1>5, <1>6

\* The lists after the function On returned.
LEMMA UnregisterKeeps ==
  ASSUME ListenOK, HandlersKnown, CommandsTogether, NEW l \in Listeners,
         BeganStay, handlers' = Unregistered(l)
  PROVE  HandlersKnown' /\ CommandsTogether'
<1>0. handlers \in [Types -> Seq(Listeners)] /\ Kind[l] \in Kinds
  BY SdkAssumption DEF ListenOK
<1>1. ASSUME NEW y \in Types
      PROVE  /\ handlers[y] \in Seq(Listeners) /\ NoRepeats(handlers[y])
             /\ ToSet(handlers[y]) \subseteq Listeners
             /\ y \in TypesOf(Kind[l]) => handlers'[y] = Off(l, handlers[y])
             /\ y \notin TypesOf(Kind[l]) => handlers'[y] = handlers[y]
  <2>1. handlers[y] \in Seq(Listeners) /\ NoRepeats(handlers[y])
    BY <1>0 DEF HandlersKnown
  <2>2. ToSet(handlers[y]) \subseteq Listeners
    BY <2>1 DEF ToSet
  <2> QED
    BY <1>0, <2>1, <2>2, UnregisteredLists
<1>2. HandlersKnown'
  <2> SUFFICES ASSUME NEW y \in Types
               PROVE  /\ NoRepeats(handlers'[y])
                      /\ \A m \in ToSet(handlers'[y]) : y \in TypesOf(Kind[m]) /\ Began(m)'
    BY DEF HandlersKnown, Began
  <2>1. NoRepeats(handlers'[y]) /\ ToSet(handlers'[y]) \subseteq ToSet(handlers[y])
    BY <1>1, OffKeeps
  <2>2. \A m \in ToSet(handlers[y]) : y \in TypesOf(Kind[m]) /\ Began(m)'
    BY <1>1 DEF HandlersKnown, BeganStay
  <2> QED
    BY <2>1, <2>2
<1>T. CommandsTogether' <=>
        /\ handlers'["stderr"] = handlers'["exit"]
        /\ \A a \in Listeners : Kind[a] = "exec" =>
             (a \in ToSet(handlers'["stdout"]) <=> a \in ToSet(handlers'["exit"]))
        /\ \A a, b \in Listeners : Kind[a] = "exec" /\ Kind[b] = "exec" =>
             (Precedes(handlers'["stdout"], a, b) <=> Precedes(handlers'["exit"], a, b))
  BY DEF CommandsTogether
<1>3. {"stdout", "stderr", "exit"} \subseteq Types
  BY DEF Types
<1>4. CASE Kind[l] = "exec"
  <2> DEFINE out == handlers["stdout"]
             ex == handlers["exit"]
  <2>1. TypesOf(Kind[l]) = {"stdout", "stderr", "exit"}
    BY <1>4 DEF TypesOf
  <2>2. /\ handlers'["stdout"] = Off(l, out) /\ handlers'["exit"] = Off(l, ex)
        /\ handlers'["stderr"] = handlers'["exit"]
        /\ out \in Seq(Listeners) /\ NoRepeats(out) /\ ToSet(out) \subseteq Listeners
        /\ ex \in Seq(Listeners) /\ NoRepeats(ex) /\ ToSet(ex) \subseteq Listeners
    BY <1>1, <1>3, <2>1 DEF CommandsTogether
  <2>3. /\ \A a \in Listeners : Kind[a] = "exec" => (a \in ToSet(out) <=> a \in ToSet(ex))
        /\ \A a, b \in Listeners : Kind[a] = "exec" /\ Kind[b] = "exec" =>
             (Precedes(out, a, b) <=> Precedes(ex, a, b))
    BY DEF CommandsTogether
  <2> HIDE DEF out, ex
  <2>4. CASE \A a \in ToSet(ex) : Kind[a] # "exec"
    <3>1. \A a \in ToSet(out) : Kind[a] # "exec"
      BY <2>2, <2>3, <2>4
    <3>2. Off(l, out) = out /\ Off(l, ex) = ex
      BY <1>4, <2>2, <2>4, <3>1, OffKeeps
    <3> QED
      BY <1>2, <1>T, <2>2, <2>3, <3>2
  <2>5. CASE \E a \in ToSet(ex) : Kind[a] = "exec"
    <3>1. PICK x : FirstGone(ex, Off(l, ex), "exec", x)
      BY <1>4, <2>2, <2>5, OffKeeps
    <3>2. \E a \in ToSet(out) : Kind[a] = "exec"
      BY <2>2, <2>3, <2>5
    <3>3. PICK z : FirstGone(out, Off(l, out), "exec", z)
      BY <1>4, <2>2, <3>2, OffKeeps
    <3>4. x = z
      <4>1. SUFFICES ASSUME x # z PROVE FALSE
        OBVIOUS
      <4>2. x \in Listeners /\ z \in Listeners /\ x \in ToSet(out) /\ z \in ToSet(ex)
        BY <2>2, <2>3, <3>1, <3>3 DEF FirstGone
      <4>3. Precedes(ex, x, z) /\ Precedes(out, z, x)
        BY <3>1, <3>3, <4>1, <4>2 DEF FirstGone
      <4>4. Precedes(ex, z, x)
        BY <2>3, <3>1, <3>3, <4>2, <4>3 DEF FirstGone
      <4> QED
        BY <2>2, <4>3, <4>4, PrecedesOneWay
    <3>5. \A a \in Listeners : Kind[a] = "exec" =>
            (a \in ToSet(Off(l, out)) <=> a \in ToSet(Off(l, ex)))
      BY <2>3, <3>1, <3>3, <3>4 DEF FirstGone
    <3>6. \A a, b \in Listeners : Kind[a] = "exec" /\ Kind[b] = "exec" =>
            (Precedes(Off(l, out), a, b) <=> Precedes(Off(l, ex), a, b))
      BY <2>3, <3>1, <3>3, <3>4 DEF FirstGone
    <3> QED
      BY <1>2, <1>T, <2>2, <3>5, <3>6
  <2> QED
    BY <2>4, <2>5
<1>5. CASE Kind[l] # "exec"
  <2>1. "stderr" \notin TypesOf(Kind[l]) /\ "exit" \notin TypesOf(Kind[l])
    BY <1>0, <1>5 DEF TypesOf, Kinds
  <2>2. handlers'["stderr"] = handlers["stderr"] /\ handlers'["exit"] = handlers["exit"]
    BY <1>1, <1>3, <2>1
  <2>3. ASSUME NEW a \in Listeners, NEW b \in Listeners, Kind[a] = "exec", Kind[b] = "exec"
        PROVE  /\ a \in ToSet(handlers'["stdout"]) <=> a \in ToSet(handlers["stdout"])
               /\ Precedes(handlers'["stdout"], a, b) <=> Precedes(handlers["stdout"], a, b)
    <3>1. CASE "stdout" \notin TypesOf(Kind[l])
      BY <1>1, <1>3, <3>1
    <3>2. CASE "stdout" \in TypesOf(Kind[l]) /\ \A m \in ToSet(handlers["stdout"]) : Kind[m] # Kind[l]
      BY <1>1, <1>3, <3>2, OffKeeps
    <3>3. CASE "stdout" \in TypesOf(Kind[l]) /\ \E m \in ToSet(handlers["stdout"]) : Kind[m] = Kind[l]
      <4>1. handlers'["stdout"] = Off(l, handlers["stdout"])
        BY <1>1, <1>3, <3>3
      <4>2. PICK x : FirstGone(handlers["stdout"], handlers'["stdout"], Kind[l], x)
        BY <1>1, <1>3, <3>3, <4>1, OffKeeps
      <4>3. x # a /\ x # b
        BY <1>5, <2>3, <4>2 DEF FirstGone
      <4> QED
        BY <4>2, <4>3 DEF FirstGone
    <3> QED
      BY <3>1, <3>2, <3>3
  <2> QED
    BY <1>2, <1>T, <2>2, <2>3 DEF CommandsTogether
<1> QED
  BY <1>2, <1>4, <1>5

\* Without its first element, a list without repeats lacks that element.
LEMMA TailKeeps ==
  ASSUME NEW s \in Seq(Listeners), s # <<>>, NoRepeats(s)
  PROVE  /\ Head(s) \in ToSet(s) /\ Tail(s) \in Seq(Listeners)
         /\ NoRepeats(Tail(s)) /\ ToSet(Tail(s)) = ToSet(s) \ {Head(s)}
<1>1. /\ Len(s) \in Nat /\ Len(s) > 0 /\ DOMAIN s = 1 .. Len(s) /\ Head(s) = s[1]
      /\ Tail(s) \in Seq(Listeners) /\ DOMAIN Tail(s) = 1 .. Len(s) - 1
      /\ \A i \in 1 .. Len(s) - 1 : Tail(s)[i] = s[i + 1]
  <2>1. Len(s) \in Nat /\ Len(s) # 0
    BY EmptySeq, LenProperties
  <2>2. /\ Tail(s) \in Seq(Listeners) /\ Len(Tail(s)) = Len(s) - 1
        /\ \A i \in 1 .. Len(Tail(s)) : Tail(s)[i] = s[i + 1]
    BY HeadTailProperties
  <2> QED
    BY <2>1, <2>2
<1>2. 1 \in 1 .. Len(s) /\ \A i \in 1 .. Len(s) - 1 : i + 1 \in 1 .. Len(s) /\ i + 1 # 1
  BY <1>1
<1>3. \A i \in 1 .. Len(s) : i = 1 \/ (i - 1 \in 1 .. Len(s) - 1 /\ (i - 1) + 1 = i)
  BY <1>1
<1>4. NoRepeats(Tail(s))
  BY <1>1, <1>2 DEF NoRepeats
<1>5. ASSUME NEW i \in 1 .. Len(s) - 1 PROVE Tail(s)[i] \in ToSet(s) \ {Head(s)}
  BY <1>1, <1>2 DEF NoRepeats, ToSet
<1>6. ASSUME NEW i \in 1 .. Len(s), s[i] # Head(s) PROVE s[i] \in ToSet(Tail(s))
  <2>1. i - 1 \in 1 .. Len(s) - 1 /\ (i - 1) + 1 = i
    BY <1>1, <1>3, <1>6
  <2>2. Tail(s)[i - 1] = s[i]
    BY <1>1, <2>1
  <2> QED
    BY <1>1, <2>1, <2>2 DEF ToSet
<1>7. ToSet(Tail(s)) = ToSet(s) \ {Head(s)}
  <2>1. ToSet(Tail(s)) = {Tail(s)[i] : i \in 1 .. Len(s) - 1} /\ ToSet(s) = {s[i] : i \in 1 .. Len(s)}
    BY <1>1 DEF ToSet
  <2> QED
    BY <1>5, <1>6, <2>1
<1> QED
  BY <1>1, <1>2, <1>4, <1>7 DEF ToSet

\* The lists, and the copy that the read loop goes through, after any step.
LEMMA HandlersStep ==
  ASSUME ListenOK, HandlersInv, [Next]_vars
  PROVE  HandlersInv' /\ BeganStay
<1>0. HandlersKnown /\ CommandsTogether /\ TodoKnown /\ Kind \in [Listeners -> Kinds]
  BY SdkAssumption DEF HandlersInv
<1>A. /\ handlers \in [Types -> Seq(Listeners)] /\ stage \in [Listeners -> Stages]
      /\ todo \in Seq(Listeners) /\ ToSet(todo) \subseteq Listeners
  BY DEF ListenOK, ToSet
<1>1. ASSUME UNCHANGED <<handlers, stage>>
      PROVE  HandlersKnown' /\ CommandsTogether' /\ BeganStay /\ \A m \in Listeners : Began(m)' = Began(m)
  BY <1>0, <1>1 DEF HandlersKnown, CommandsTogether, BeganStay, Began
<1>2. ASSUME UNCHANGED <<handlers, stage, todo>>, UNCHANGED msg \/ todo = <<>>
      PROVE  HandlersInv' /\ BeganStay
  <2>1. TodoKnown'
    BY <1>0, <1>1, <1>2, <1>A DEF TodoKnown, ToSet
  <2> QED
    BY <1>1, <1>2, <2>1 DEF HandlersInv
<1>3. ASSUME UNCHANGED <<msg, todo>>, HandlersKnown', CommandsTogether', BeganStay
      PROVE  HandlersInv' /\ BeganStay
  <2>1. TodoKnown'
    BY <1>0, <1>3, <1>A DEF TodoKnown, BeganStay
  <2> QED
    BY <1>3, <2>1 DEF HandlersInv
<1>4. ASSUME NEW l \in Listeners, stage' = [stage EXCEPT ![l] = "ended"] \/ stage' = [stage EXCEPT ![l] = "failed"]
      PROVE  BeganStay
  BY <1>4, <1>A DEF BeganStay, Began
<1>5. ASSUME todo # <<>>, todo' = Tail(todo), UNCHANGED msg, HandlersKnown', CommandsTogether', BeganStay
      PROVE  HandlersInv' /\ BeganStay
  <2>1. NoRepeats(Tail(todo)) /\ ToSet(Tail(todo)) \subseteq ToSet(todo)
    BY <1>0, <1>5, <1>A, TailKeeps DEF TodoKnown
  <2>2. TodoKnown'
    BY <1>0, <1>5, <1>A, <2>1 DEF TodoKnown, BeganStay
  <2> QED
    BY <1>5, <2>2 DEF HandlersInv
<1>6. CASE ReadLoop
  <2>1. CASE (ReadTop \/ ReadFails \/ Dispatched) /\ UNCHANGED listenVars
    BY <1>2, <2>1 DEF ReadTop, ReadFails, Dispatched, readVars, listenVars
  <2>2. CASE HandlerSkips \/ HandlerCallsBack
    BY <1>1, <1>5, <2>2 DEF HandlerSkips, HandlerCallsBack, NextHandler
  <2>3. CASE HandlerPushes
    <3>1. PICK l \in Listeners : l = Head(todo)
      BY <1>0, <1>A, <2>3, TailKeeps DEF HandlerPushes, TodoKnown
    <3>2. CASE UNCHANGED <<handlers, stage>>
      BY <1>1, <1>5, <2>3, <3>2 DEF HandlerPushes, NextHandler
    <3>3. CASE handlers' = Unregistered(l) /\ stage' = [stage EXCEPT ![l] = "ended"]
      <4>1. BeganStay
        BY <1>4, <3>3
      <4>2. HandlersKnown' /\ CommandsTogether'
        BY <1>0, <3>3, <4>1, UnregisterKeeps
      <4> QED
        BY <1>5, <2>3, <4>1, <4>2 DEF HandlerPushes, NextHandler
    <3> QED
      BY <2>3, <3>1, <3>2, <3>3 DEF HandlerPushes
  <2> QED
    BY <1>6, <2>1, <2>2, <2>3 DEF ReadLoop
<1>7. CASE Reconnect \/ EnsureWS
  BY <1>2, <1>7 DEF Reconnect, EnsureWS, ReconnectSteps, ReconnectChecks, ReconnectWakes,
                    ReconnectResetsOnce, ReconnectRenewsDone, ReconnectDials, ReconnectFails,
                    ReconnectAdopts, Connected, readVars, listenVars
<1>8. CASE ConnectionLost \/ Close
  BY <1>2, <1>8 DEF ConnectionLost, LoseLink, Close, CloseSteps, CloseFlags, CloseClosesDone,
                    CloseClosesConn, readVars
<1>9. ASSUME NEW r \in Requests, Request(r) \/ Cancelled(r) \/ Answer(r)
      PROVE  HandlersInv' /\ BeganStay
  BY <1>2, <1>9 DEF Request, Cancelled, Answer, RequestSteps, RequestStores, RequestSends,
                    RequestSendFails, RequestSelects, RequestReturns, RequestCancelled, ReadAnswer,
                    readVars, listenVars
<1>10. ASSUME NEW l \in Listeners, CallerTakes(l)
       PROVE  HandlersInv' /\ BeganStay
  BY <1>2, <1>10 DEF CallerTakes, transportVars, readVars
<1>11. ASSUME NEW l \in Listeners, Receives(l)
       PROVE  HandlersInv' /\ BeganStay
  <2>1. PICK y \in TypeOfMessage(l, next[l]) : ReadMessage([type |-> y, to |-> l, item |-> next[l]])
    BY <1>11 DEF Receives
  <2>2. y \in Types
    BY <1>0, <2>1 DEF TypeOfMessage, Types, Kinds
  <2>3. UNCHANGED <<handlers, stage>> /\ todo' = handlers[y] /\ msg'.type = y
    BY <1>11, <2>1 DEF Receives, ReadMessage
  <2>4. TodoKnown'
    <3>1. handlers[y] \in Seq(Listeners) /\ ToSet(handlers[y]) \subseteq Listeners
      BY <1>A, <2>2 DEF ToSet
    <3> QED
      BY <1>0, <1>1, <2>2, <2>3, <3>1 DEF HandlersKnown, TodoKnown
  <2> QED
    BY <1>1, <2>3, <2>4 DEF HandlersInv
<1>12. ASSUME NEW l \in Listeners, Start(l)
       PROVE  HandlersInv' /\ BeganStay
  <2>0. UNCHANGED <<msg, todo>>
    BY <1>12 DEF Start, Registers, StartSends, StartFails, OpenTerminal, OnData, OnPortOpen, StaysConnected
  <2>1. BeganStay
    BY <1>12, <1>A DEF Start, Registers, StartSends, StartFails, OpenTerminal, OnData, OnPortOpen,
                       BeganStay, Began, Stages
  <2>2. CASE Registers(l) \/ OnData(l) \/ OnPortOpen(l)
    <3>1. ~Began(l) /\ Began(l)' /\ handlers' = Registered(l)
      BY <1>A, <2>2 DEF Registers, OnData, OnPortOpen, Began
    <3> QED
      BY <1>0, <1>3, <2>0, <2>1, <3>1, RegisterKeeps
  <2>3. CASE UNCHANGED handlers
    <3>1. HandlersKnown' /\ CommandsTogether'
      <4>1. \A y \in Types : ToSet(handlers[y]) \subseteq Listeners
        BY <1>A DEF ToSet
      <4> QED
        BY <1>0, <2>1, <2>3, <4>1 DEF HandlersKnown, CommandsTogether, BeganStay
    <3> QED
      BY <1>3, <2>0, <2>1, <3>1
  <2>4. CASE handlers' = Unregistered(l)
    BY <1>0, <1>3, <2>0, <2>1, <2>4, UnregisterKeeps
  <2> QED
    BY <1>12, <2>2, <2>3, <2>4 DEF Start, StartSends, StartFails, OpenTerminal
<1>13. ASSUME NEW l \in Listeners, Cancel(l)
       PROVE  HandlersInv' /\ BeganStay
  <2>1. BeganStay /\ UNCHANGED <<msg, todo>> /\ handlers' = Unregistered(l)
    BY <1>4, <1>13 DEF Cancel, StaysConnected
  <2> QED
    BY <1>0, <1>3, <2>1, UnregisterKeeps
<1>14. CASE UNCHANGED vars
  BY <1>2, <1>14 DEF vars, transportVars, readVars, listenVars
<1> QED
  BY <1>6, <1>7, <1>8, <1>9, <1>10, <1>11, <1>12, <1>13, <1>14 DEF Next

-------------------------------------------------------------------------------
(* Output.                                                                  *)

\* A list that counts up goes on counting with the number after its last.
LEMMA CountsOn ==
  ASSUME NEW s \in Seq(Int), NEW x \in Int, CountsUp(s), s = <<>> \/ x = s[Len(s)] + 1
  PROVE  /\ Append(s, x) \in Seq(Int) /\ Append(s, x) # <<>> /\ CountsUp(Append(s, x))
         /\ Append(s, x)[1] = (IF s = <<>> THEN x ELSE s[1])
         /\ Append(s, x)[Len(Append(s, x))] = x
<1> DEFINE u == Append(s, x)
<1>1. /\ Len(s) \in Nat /\ DOMAIN s = 1 .. Len(s) /\ (s = <<>> <=> Len(s) = 0)
      /\ u \in Seq(Int) /\ Len(u) = Len(s) + 1 /\ DOMAIN u = 1 .. Len(s) + 1
      /\ \A i \in 1 .. Len(s) : u[i] = s[i] /\ s[i] \in Int
      /\ u[Len(s) + 1] = x
  BY EmptySeq, LenProperties, AppendProperties
<1> HIDE DEF u
<1>2. CASE Len(s) = 0
  <2>1. CountsUp(u)
    BY <1>1, <1>2 DEF CountsUp
  <2> QED
    BY <1>1, <1>2, <2>1, EmptySeq DEF u
<1>3. CASE Len(s) # 0
  <2>1. /\ 1 \in 1 .. Len(s) /\ Len(s) \in 1 .. Len(s)
        /\ \A i \in 1 .. Len(s) + 1 : i \in 1 .. Len(s) \/ i = Len(s) + 1
    BY <1>1, <1>3
  <2>2. u[1] = s[1] /\ x = s[1] + Len(s) /\ \A i \in 1 .. Len(s) : u[i] = s[1] + (i - 1)
    <3>1. \A i \in 1 .. Len(s) : s[i] = s[1] + (i - 1)
      BY <1>1 DEF CountsUp
    <3>2. x = s[Len(s)] + 1 /\ s[Len(s)] = s[1] + (Len(s) - 1)
      BY <1>1, <1>3, <2>1, <3>1
    <3> QED
      BY <1>1, <2>1, <3>1, <3>2
  <2>3. CountsUp(u)
    BY <1>1, <2>1, <2>2 DEF CountsUp
  <2> QED
    BY <1>1, <1>3, <2>2, <2>3, EmptySeq DEF u
<1> QED
  BY <1>1, <1>2, <1>3

\* What moves from the channel to the caller, and what enters the channel.
LEMMA MovesAlong ==
  ASSUME NEW a \in Seq(1 .. Exit), NEW b \in Seq(1 .. Exit), NEW x \in 1 .. Exit
  PROVE  /\ a \o b \in Seq(Int)
         /\ a \o Append(b, x) = Append(a \o b, x)
         /\ b # <<>> => Append(a, Head(b)) \o Tail(b) = a \o b
         /\ a \o <<>> = a
<1>1. Exit \in Nat
  BY SandboxAssumption DEF Exit
<1> HIDE DEF Exit
<1>2. /\ Len(a) \in Nat /\ Len(b) \in Nat
      /\ a \o b \in Seq(1 .. Exit) /\ Len(a \o b) = Len(a) + Len(b)
      /\ \A i \in 1 .. Len(a) + Len(b) :
           (a \o b)[i] = IF i <= Len(a) THEN a[i] ELSE b[i - Len(a)]
  BY ConcatProperties, LenProperties
<1>3. a \o Append(b, x) = Append(a \o b, x)
  <2>1. Append(b, x) = b \o <<x>> /\ Append(a \o b, x) = (a \o b) \o <<x>> /\ <<x>> \in Seq(1 .. Exit)
    BY <1>2, AppendIsConcat
  <2> QED
    BY <2>1, ConcatAssociative
<1>4. ASSUME b # <<>> PROVE Append(a, Head(b)) \o Tail(b) = a \o b
  <2>1. /\ Head(b) \in 1 .. Exit /\ Tail(b) \in Seq(1 .. Exit) /\ <<Head(b)>> \in Seq(1 .. Exit)
        /\ b = <<Head(b)>> \o Tail(b)
    <3>1. Head(b) \in 1 .. Exit /\ Tail(b) \in Seq(1 .. Exit)
      BY <1>4, HeadTailProperties
    <3>2. <<Head(b)>> \in Seq(1 .. Exit) /\ Len(<<Head(b)>>) = 1 /\ <<Head(b)>>[1] = Head(b)
      BY <3>1
    <3>3. /\ Len(Tail(b)) = Len(b) - 1 /\ Head(b) = b[1] /\ Len(b) > 0
          /\ \A i \in 1 .. Len(Tail(b)) : Tail(b)[i] = b[i + 1]
      BY <1>2, <1>4, EmptySeq, HeadTailProperties
    <3> DEFINE c == <<Head(b)>> \o Tail(b)
    <3>4. /\ c \in Seq(1 .. Exit) /\ Len(c) = Len(b)
          /\ \A i \in 1 .. Len(b) : c[i] = IF i <= 1 THEN Head(b) ELSE Tail(b)[i - 1]
      <4>1. /\ c \in Seq(1 .. Exit) /\ Len(c) = Len(<<Head(b)>>) + Len(Tail(b))
            /\ \A i \in 1 .. Len(<<Head(b)>>) + Len(Tail(b)) :
                 c[i] = IF i <= Len(<<Head(b)>>) THEN <<Head(b)>>[i]
                        ELSE Tail(b)[i - Len(<<Head(b)>>)]
        BY <3>1, <3>2, ConcatProperties
      <4> HIDE DEF c
      <4>2. 1 + Len(Tail(b)) = Len(b)
        BY <1>2, <3>3
      <4>3. ASSUME NEW i \in 1 .. Len(b)
            PROVE  c[i] = IF i <= 1 THEN Head(b) ELSE Tail(b)[i - 1]
        <5>1. i <= 1 => i = 1
          BY <1>2
        <5> QED
          BY <3>2, <4>1, <4>2, <5>1
      <4> QED
        BY <3>2, <4>1, <4>2, <4>3
    <3> HIDE DEF c
    <3>5. ASSUME NEW i \in 1 .. Len(b) PROVE c[i] = b[i]
      <4>1. CASE i <= 1
        BY <1>2, <3>3, <3>4, <4>1
      <4>2. CASE ~(i <= 1)
        <5>1. i - 1 \in 1 .. Len(Tail(b)) /\ (i - 1) + 1 = i
          BY <1>2, <3>3, <4>2
        <5> QED
          BY <3>3, <3>4, <4>2, <5>1
      <4> QED
        BY <4>1, <4>2
    <3>6. b = c
      BY <3>4, <3>5, SeqEqual
    <3> QED
      BY <3>1, <3>2, <3>6 DEF c
  <2>2. Append(a, Head(b)) = a \o <<Head(b)>>
    BY <2>1, AppendIsConcat
  <2> QED
    BY <2>1, <2>2, ConcatAssociative
<1>5. a \o <<>> = a
  BY ConcatEmptySeq
<1>6. a \o b \in Seq(Int)
  BY <1>1, <1>2
<1> QED
  BY <1>3, <1>4, <1>5, <1>6

\* A step that neither brings the listener a message nor hands it one.
LEMMA OrderedStays ==
  ASSUME NEW l \in Listeners, Ordered(l), Received(l)' = Received(l),
         Kind[l] = "data" /\ buf[l] = <<>> => buf'[l] = <<>>,
         next'[l] = next[l], Began(l) => Began(l)', Hears(l)' => Hears(l),
         Awaits(l)' = Awaits(l), Awaits(l) => msg'.item = msg.item,
         Kind[l] = "exec" /\ stage'[l] \in {"idle", "registered"} =>
           stage[l] \in {"idle", "registered"} /\ (l \in served' => l \in served)
  PROVE  Ordered(l)'
<1> DEFINE s == Received(l)
<1>1. Expected(l)' = Expected(l)
  BY DEF Expected
<1>2. Received(l)' = s
  OBVIOUS
<1>3. /\ CountsUp(s)
      /\ Kind[l] = "data" => buf[l] = <<>>
      /\ Kind[l] = "exec" /\ s # <<>> => s[1] = 1
      /\ ~Began(l) => s = <<>>
      /\ Kind[l] = "exec" /\ stage[l] \in {"idle", "registered"} => l \notin served /\ next[l] = 1
      /\ Hears(l) \/ Awaits(l) => IF s = <<>> THEN Kind[l] = "exec" => Expected(l) = 1
                                  ELSE Expected(l) = s[Len(s)] + 1
  BY DEF Ordered
<1> HIDE DEF s
<1>4. Ordered(l)' <=>
        /\ CountsUp(s)
        /\ Kind[l] = "data" => buf'[l] = <<>>
        /\ Kind[l] = "exec" /\ s # <<>> => s[1] = 1
        /\ ~Began(l)' => s = <<>>
        /\ Kind[l] = "exec" /\ stage'[l] \in {"idle", "registered"} => l \notin served' /\ next'[l] = 1
        /\ Hears(l)' \/ Awaits(l)' => IF s = <<>> THEN Kind[l] = "exec" => Expected(l)' = 1
                                      ELSE Expected(l)' = s[Len(s)] + 1
  BY <1>2 DEF Ordered, CountsUp
<1> QED
  BY <1>1, <1>3, <1>4

\* A step that hands the listener the message it awaits.
LEMMA OrderedGrows ==
  ASSUME NEW l \in Listeners, Ordered(l), NEW x \in 1 .. Exit, Received(l) \in Seq(Int),
         Awaits(l), ~Awaits(l)', msg.item = x, next'[l] = x + 1,
         Received(l)' = Append(Received(l), x), Kind[l] = "data" => buf'[l] = <<>>,
         Began(l)', Kind[l] = "exec" => stage'[l] \notin {"idle", "registered"}
  PROVE  Ordered(l)'
<1>0. Exit \in Nat /\ x \in Int
  BY SandboxAssumption DEF Exit
<1> HIDE DEF Exit
<1>1. Expected(l) = x /\ Expected(l)' = x + 1
  BY DEF Expected
<1> DEFINE s == Received(l)
           u == Append(s, x)
<1>2. /\ CountsUp(s) /\ s \in Seq(Int)
      /\ Kind[l] = "exec" /\ s # <<>> => s[1] = 1
      /\ IF s = <<>> THEN Kind[l] = "exec" => x = 1 ELSE x = s[Len(s)] + 1
  BY <1>1 DEF Ordered
<1>3. Received(l)' = u
  OBVIOUS
<1> HIDE DEF s
<1>4. /\ u # <<>> /\ CountsUp(u) /\ u[1] = (IF s = <<>> THEN x ELSE s[1]) /\ u[Len(u)] = x
  <2>1. s = <<>> \/ x = s[Len(s)] + 1
    BY <1>2
  <2> QED
    BY <1>0, <1>2, <2>1, CountsOn
<1> HIDE DEF u
<1>5. Ordered(l)' <=>
        /\ CountsUp(u)
        /\ Kind[l] = "data" => buf'[l] = <<>>
        /\ Kind[l] = "exec" /\ u # <<>> => u[1] = 1
        /\ ~Began(l)' => u = <<>>
        /\ Kind[l] = "exec" /\ stage'[l] \in {"idle", "registered"} => l \notin served' /\ next'[l] = 1
        /\ Hears(l)' \/ Awaits(l)' => IF u = <<>> THEN Kind[l] = "exec" => Expected(l)' = 1
                                      ELSE Expected(l)' = u[Len(u)] + 1
  BY <1>3 DEF Ordered, CountsUp
<1> QED
  BY <1>1, <1>2, <1>4, <1>5

\* What the function On returned leaves was there before.
LEMMA UnregisteredHears ==
  ASSUME ListenOK, HandlersKnown, NEW m \in Listeners, handlers' = Unregistered(m)
  PROVE  \A l \in Listeners : Hears(l)' => Hears(l)
<1>1. "stdout" \in Types /\ handlers["stdout"] \in Seq(Listeners) /\ NoRepeats(handlers["stdout"])
  BY DEF Types, ListenOK, HandlersKnown
<1>2. ToSet(Off(m, handlers["stdout"])) \subseteq ToSet(handlers["stdout"])
  BY <1>1, OffKeeps
<1> QED
  BY <1>1, <1>2, UnregisteredLists DEF Hears, ListenOK

\* What On adds is the listener that calls it.
LEMMA RegisteredHears ==
  ASSUME ListenOK, HandlersKnown, NEW m \in Listeners, ~Began(m), handlers' = Registered(m)
  PROVE  \A l \in Listeners : Hears(l)' => Hears(l) \/ (l = m /\ "stdout" \in TypesOf(Kind[m]))
<1>1. "stdout" \in Types /\ handlers["stdout"] \in Seq(Listeners) /\ NoRepeats(handlers["stdout"])
      /\ m \notin ToSet(handlers["stdout"])
  BY DEF Types, ListenOK, HandlersKnown
<1>2. ToSet(Append(handlers["stdout"], m)) = ToSet(handlers["stdout"]) \cup {m}
  BY <1>1, AppendHandler
<1> QED
  BY <1>1, <1>2 DEF Hears, ListenOK, Registered

\* The output of every listener, after any step.
LEMMA OutputStep ==
  ASSUME LinkOK, ListenOK, HandlersInv, BeganStay, OutputInv, [Next]_vars
  PROVE  OutputInv'
<1> SUFFICES ASSUME NEW l \in Listeners, Kind[l] \in {"exec", "data"}
             PROVE  Ordered(l)'
  BY DEF OutputInv
<1>0. /\ HandlersKnown /\ CommandsTogether /\ TodoKnown /\ Ordered(l)
      /\ Kind \in [Listeners -> Kinds] /\ Exit \in Nat
      /\ \A m \in Listeners : FinalItem(m) \in 0 .. Exit
      /\ \A m \in Listeners : Began(m) => Began(m)'
  BY SdkAssumption, SandboxAssumption DEF HandlersInv, OutputInv, FinalItem, Exit, BeganStay
<1>A. /\ handlers \in [Types -> Seq(Listeners)] /\ stage \in [Listeners -> Stages]
      /\ buf \in [Listeners -> Seq(1 .. Exit)] /\ got \in [Listeners -> Seq(1 .. Exit)]
      /\ next \in [Listeners -> 1 .. Exit + 1]
      /\ todo \in Seq(Listeners) /\ ToSet(todo) \subseteq Listeners
  BY DEF ListenOK, ToSet
<1>B. Received(l) \in Seq(Int)
  <2>1. <<>> \in Seq(1 .. Exit)
    OBVIOUS
  <2> QED
    BY <1>0, <1>A DEF Received
<1> HIDE DEF Exit, FinalItem
\* What the caller has and its channel stay.
<1>C. got'[l] = got[l] /\ buf'[l] = buf[l] => Received(l)' = Received(l)
  BY DEF Received
<1>1. ASSUME UNCHANGED <<readVars, stage, next, buf, got>>, served' \subseteq served,
             worker' = worker \/ (worker # "dispatch" /\ worker' # "dispatch")
      PROVE  Ordered(l)'
  BY <1>0, <1>1, <1>C, OrderedStays DEF Awaits, Hears, readVars
\* What a caller of the SDK does leaves the read loop alone.
<1>2. ASSUME StaysConnected, UNCHANGED <<next, buf, got>>, Hears(l)' => Hears(l),
             Kind[l] = "exec" /\ stage'[l] \in {"idle", "registered"} =>
               stage[l] \in {"idle", "registered"} /\ (l \in served' => l \in served)
      PROVE  Ordered(l)'
  BY <1>0, <1>2, <1>C, OrderedStays DEF Awaits, StaysConnected
<1>3. CASE ReadLoop
  <2>1. CASE (ReadTop \/ ReadFails) /\ UNCHANGED listenVars
    BY <1>1, <2>1 DEF ReadTop, ReadFails, listenVars
  <2>2. CASE Dispatched /\ UNCHANGED listenVars
    <3>1. Awaits(l)' = FALSE /\ Awaits(l) = FALSE
      BY <2>2 DEF Dispatched, Awaits, ToSet
    <3> QED
      BY <1>0, <1>C, <2>2, <3>1, OrderedStays DEF Dispatched, Hears, listenVars
  <2>3. ASSUME worker = "dispatch", todo # <<>>, NextHandler
        PROVE  /\ Head(todo) \in Listeners /\ Began(Head(todo))
               /\ msg.type \in TypesOf(Kind[Head(todo)])
               /\ msg.item \in 1 .. Exit /\ next'[msg.to] = msg.item + 1 /\ next' = next /\ msg' = msg
               /\ Awaits(l) <=> msg.to = l /\ l \in ToSet(todo)
               /\ Awaits(l)' <=> msg.to = l /\ l \in ToSet(todo) /\ l # Head(todo)
               /\ Head(todo) \in ToSet(todo)
    <3>1. Head(todo) \in ToSet(todo) /\ ToSet(Tail(todo)) = ToSet(todo) \ {Head(todo)}
      BY <1>0, <1>A, <2>3, TailKeeps DEF TodoKnown
    <3>2. msg.item \in 1 .. Exit /\ next[msg.to] = msg.item + 1
      <4>1. msg.to \in Listeners /\ msg.item \in 1 .. FinalItem(msg.to) /\ next[msg.to] = msg.item + 1
        BY <2>3 DEF ListenOK, Message
      <4> QED
        BY <1>0, <4>1
    <3> QED
      BY <1>0, <1>A, <2>3, <3>1, <3>2 DEF NextHandler, Awaits, TodoKnown
  <2>4. CASE HandlerSkips
    <3>1. Awaits(l)' = Awaits(l) /\ msg' = msg /\ next' = next
      BY <2>3, <2>4 DEF HandlerSkips, Wants, Awaits
    <3> QED
      BY <1>0, <1>C, <2>4, <3>1, OrderedStays DEF HandlerSkips, NextHandler, Hears
  <2>5. CASE HandlerCallsBack
    <3>1. PICK h \in Listeners : h = Head(todo)
      BY <2>3, <2>5 DEF HandlerCallsBack
    <3>2. /\ got' = [got EXCEPT ![h] = Append(got[h], msg.item)] /\ NextHandler
          /\ UNCHANGED <<handlers, stage, buf>> /\ Wants(h) /\ Kind[h] # "exec"
          /\ worker = "dispatch" /\ todo # <<>>
      BY <2>5, <3>1 DEF HandlerCallsBack
    <3>3. CASE h # l
      <4>1. Awaits(l)' = Awaits(l) /\ msg' = msg /\ next' = next
        BY <2>3, <3>1, <3>2, <3>3 DEF Awaits
      <4> QED
        BY <1>0, <1>A, <1>C, <3>2, <3>3, <4>1, OrderedStays DEF NextHandler, Hears
    <3>4. CASE h = l
      <4>1. Kind[l] = "data" /\ msg.to = l
        BY <3>2, <3>4 DEF Wants
      <4>2. buf[l] = <<>> /\ buf'[l] = <<>>
        BY <1>0, <3>2, <4>1 DEF Ordered
      <4>3. Awaits(l) /\ ~Awaits(l)' /\ next'[l] = msg.item + 1 /\ msg.item \in 1 .. Exit
        BY <2>3, <3>1, <3>2, <3>4, <4>1
      <4>4. Received(l)' = Append(Received(l), msg.item)
        <5>1. got'[l] = Append(got[l], msg.item)
          BY <1>A, <3>2, <3>4
        <5>2. got[l] \in Seq(1 .. Exit) /\ Append(got[l], msg.item) \in Seq(1 .. Exit) /\ <<>> \in Seq(1 .. Exit)
          BY <1>A, <4>3
        <5>3. Received(l) = got[l] /\ Received(l)' = Append(got[l], msg.item)
          BY <4>2, <4>3, <5>1, <5>2, MovesAlong DEF Received
        <5> QED
          BY <5>3
      <4>5. Began(l)'
        BY <1>0, <2>3, <3>1, <3>2, <3>4
      <4> QED
        BY <1>0, <1>B, <4>1, <4>2, <4>3, <4>4, <4>5, OrderedGrows
    <3> QED
      BY <3>3, <3>4
  <2>6. CASE HandlerPushes
    <3>1. PICK h \in Listeners : h = Head(todo)
      BY <2>3, <2>6 DEF HandlerPushes
    <3>2. /\ buf' = [buf EXCEPT ![h] = Append(buf[h], msg.item)] /\ NextHandler
          /\ UNCHANGED got /\ Wants(h) /\ Kind[h] = "exec"
          /\ worker = "dispatch" /\ todo # <<>>
          /\ \/ UNCHANGED <<handlers, stage>>
             \/ handlers' = Unregistered(h) /\ stage' = [stage EXCEPT ![h] = "ended"]
      BY <2>6, <3>1 DEF HandlerPushes
    <3>3. CASE h # l
      <4>1. Awaits(l)' = Awaits(l) /\ msg' = msg /\ next' = next
        BY <2>3, <3>1, <3>2, <3>3 DEF Awaits
      <4>2. Hears(l)' => Hears(l)
        BY <1>0, <3>2, UnregisteredHears DEF Hears
      <4>3. stage'[l] = stage[l] /\ served' = served /\ buf'[l] = buf[l] /\ got' = got
        BY <1>A, <3>2, <3>3 DEF NextHandler
      <4> QED
        BY <1>0, <1>C, <4>1, <4>2, <4>3, OrderedStays
    <3>4. CASE h = l
      <4>1. Kind[l] = "exec" /\ msg.to = l
        BY <3>2, <3>4 DEF Wants
      <4>2. Awaits(l) /\ ~Awaits(l)' /\ next'[l] = msg.item + 1 /\ msg.item \in 1 .. Exit /\ next' = next
        BY <2>3, <3>1, <3>2, <3>4, <4>1
      <4>3. Received(l)' = Append(Received(l), msg.item)
        <5>1. buf'[l] = Append(buf[l], msg.item) /\ got' = got
          BY <1>A, <3>2, <3>4
        <5> QED
          BY <1>A, <4>2, <5>1, MovesAlong DEF Received
      <4>4. Began(l)'
        BY <1>0, <2>3, <3>1, <3>2, <3>4
      <4>5. stage'[l] \notin {"idle", "registered"}
        <5>1. stage[l] \in {"idle", "registered"} => next[l] = 1
          BY <1>0, <4>1 DEF Ordered
        <5>2. next[l] # 1
          BY <1>0, <4>2
        <5> QED
          BY <1>A, <3>2, <3>4, <5>1, <5>2
      <4> QED
        BY <1>0, <1>B, <4>1, <4>2, <4>3, <4>4, <4>5, OrderedGrows
    <3> QED
      BY <3>3, <3>4
  <2> QED
    BY <1>3, <2>1, <2>2, <2>4, <2>5, <2>6 DEF ReadLoop
<1>4. CASE Reconnect \/ EnsureWS
  BY <1>1, <1>4 DEF Reconnect, EnsureWS, ReconnectSteps, ReconnectChecks, ReconnectWakes,
                    ReconnectResetsOnce, ReconnectRenewsDone, ReconnectDials, ReconnectFails,
                    ReconnectAdopts, Connected, LinkOK, listenVars
<1>5. CASE ConnectionLost
  BY <1>1, <1>5 DEF ConnectionLost, LoseLink
<1>6. CASE Close
  <2>1. UNCHANGED <<worker, readVars, stage, next, buf, got>> /\ served' \subseteq served
    BY <1>6 DEF Close, CloseSteps, CloseFlags, CloseClosesDone, CloseClosesConn
  <2> QED
    BY <1>1, <2>1
<1>7. ASSUME NEW r \in Requests, Request(r) \/ Cancelled(r) \/ Answer(r)
      PROVE  Ordered(l)'
  BY <1>1, <1>7 DEF Request, Cancelled, Answer, RequestSteps, RequestStores, RequestSends,
                    RequestSendFails, RequestSelects, RequestReturns, RequestCancelled, ReadAnswer,
                    listenVars
<1>8. ASSUME NEW m \in Listeners, CallerTakes(m)
      PROVE  Ordered(l)'
  <2>1. /\ UNCHANGED <<worker, handlers, msg, todo, stage, served, next>>
        /\ buf[m] # <<>>
        /\ got' = [got EXCEPT ![m] = Append(got[m], Head(buf[m]))]
        /\ buf' = [buf EXCEPT ![m] = Tail(buf[m])]
    BY <1>8 DEF CallerTakes, transportVars, readVars
  <2>2. Received(l)' = Received(l)
    <3>1. CASE m # l
      BY <1>A, <1>C, <2>1, <3>1
    <3>2. CASE m = l
      <4>1. got'[l] = Append(got[l], Head(buf[l])) /\ buf'[l] = Tail(buf[l])
        BY <1>A, <2>1, <3>2
      <4>2. Head(buf[l]) \in 1 .. Exit
        BY <1>A, <2>1, <3>2, HeadTailProperties
      <4> QED
        BY <1>A, <2>1, <3>2, <4>1, <4>2, MovesAlong DEF Received
    <3> QED
      BY <3>1, <3>2
  <2>3. Kind[l] = "data" /\ buf[l] = <<>> => buf'[l] = <<>>
    BY <1>A, <2>1
  <2> QED
    BY <1>0, <2>1, <2>2, <2>3, OrderedStays DEF Awaits, Hears
<1>9. ASSUME NEW m \in Listeners, Receives(m)
      PROVE  Ordered(l)'
  <2>1. PICK y \in TypeOfMessage(m, next[m]) : ReadMessage([type |-> y, to |-> m, item |-> next[m]])
    BY <1>9 DEF Receives
  <2>2. /\ m \in served /\ next' = [next EXCEPT ![m] = next[m] + 1]
        /\ UNCHANGED <<handlers, stage, served, buf, got>>
        /\ msg'.to = m /\ msg'.item = next[m] /\ todo' = handlers[y]
        /\ worker # "dispatch" /\ worker' = "dispatch"
    BY <1>9, <2>1 DEF Receives, ReadMessage
  <2>3. ~Awaits(l) /\ Hears(l)' = Hears(l) /\ Began(l)' = Began(l)
    BY <2>2 DEF Awaits, Hears, Began
  <2>4. CASE m # l
    <3>1. Awaits(l)' = Awaits(l) /\ next'[l] = next[l]
      BY <1>A, <2>2, <2>4 DEF Awaits
    <3> QED
      BY <1>0, <1>C, <2>2, <2>3, <3>1, OrderedStays
  <2>5. CASE m = l
    <3>1. Awaits(l)' <=> Hears(l)
      <4>1. Awaits(l)' <=> l \in ToSet(handlers[y])
        BY <2>2, <2>5 DEF Awaits
      <4>2. CASE Kind[l] = "data"
        BY <2>1, <2>5, <4>1, <4>2 DEF TypeOfMessage, Hears
      <4>3. CASE Kind[l] = "exec"
        <5>1. y \in {"stdout", "stderr", "exit"}
          BY <2>1, <2>5, <4>3 DEF TypeOfMessage
        <5> QED
          BY <1>0, <4>1, <4>3, <5>1 DEF CommandsTogether, Hears
      <4> QED
        BY <4>2, <4>3
    <3>2. Expected(l) = next[l] /\ (Awaits(l)' => Expected(l)' = next[l])
      BY <2>2, <2>3, <2>5 DEF Expected
    <3>3. Received(l)' = Received(l) /\ buf' = buf
      BY <1>C, <2>2
    <3>4. Kind[l] = "exec" => stage'[l] \notin {"idle", "registered"}
      BY <1>0, <2>2, <2>5 DEF Ordered
    <3> DEFINE s == Received(l)
    <3>5. /\ CountsUp(s)
          /\ Kind[l] = "data" => buf[l] = <<>>
          /\ Kind[l] = "exec" /\ s # <<>> => s[1] = 1
          /\ ~Began(l) => s = <<>>
          /\ Hears(l) \/ Awaits(l) => IF s = <<>> THEN Kind[l] = "exec" => Expected(l) = 1
                                      ELSE Expected(l) = s[Len(s)] + 1
      BY <1>0 DEF Ordered
    <3>6. Received(l)' = s
      BY <3>3
    <3> HIDE DEF s
    <3>7. Ordered(l)' <=>
            /\ CountsUp(s)
            /\ Kind[l] = "data" => buf'[l] = <<>>
            /\ Kind[l] = "exec" /\ s # <<>> => s[1] = 1
            /\ ~Began(l)' => s = <<>>
            /\ Kind[l] = "exec" /\ stage'[l] \in {"idle", "registered"} => l \notin served' /\ next'[l] = 1
            /\ Hears(l)' \/ Awaits(l)' => IF s = <<>> THEN Kind[l] = "exec" => Expected(l)' = 1
                                          ELSE Expected(l)' = s[Len(s)] + 1
      BY <3>6 DEF Ordered, CountsUp
    <3> QED
      BY <2>3, <3>1, <3>2, <3>3, <3>4, <3>5, <3>7
  <2> QED
    BY <2>4, <2>5
<1>10. ASSUME NEW m \in Listeners, Start(m)
       PROVE  Ordered(l)'
  <2>1. StaysConnected /\ UNCHANGED <<next, buf, got>>
    BY <1>10 DEF Start, Registers, StartSends, StartFails, OpenTerminal, OnData, OnPortOpen
  <2>2. Kind[l] = "exec" /\ stage'[l] \in {"idle", "registered"} =>
          stage[l] \in {"idle", "registered"} /\ (l \in served' => l \in served)
    BY <1>10, <1>A DEF Start, Registers, StartSends, StartFails, OpenTerminal, OnData, OnPortOpen, Sends
  <2>3. CASE UNCHANGED handlers \/ handlers' = Unregistered(m)
    BY <1>0, <1>2, <2>1, <2>2, <2>3, UnregisteredHears DEF Hears
  <2>4. CASE Registers(m) \/ OnData(m) \/ OnPortOpen(m)
    <3>1. ~Began(m) /\ Began(m)' /\ handlers' = Registered(m)
      BY <1>A, <2>4 DEF Registers, OnData, OnPortOpen, Began
    <3>2. Hears(l)' => Hears(l) \/ l = m
      BY <1>0, <3>1, RegisteredHears
    <3>3. CASE m # l
      BY <1>2, <2>1, <2>2, <3>2, <3>3
    <3>4. CASE m = l
      <4>1. Received(l) = <<>> /\ Received(l)' = <<>>
        BY <1>0, <1>C, <2>1, <3>1, <3>4 DEF Ordered
      <4>2. Kind[l] = "exec" => /\ next'[l] = 1 /\ next[l] = 1
                                /\ l \notin served /\ served' = served /\ ~Awaits(l)'
        <5>1. l \notin ToSet(todo)
          BY <1>0, <3>1, <3>4 DEF TodoKnown
        <5>2. ~Awaits(l)'
          BY <2>1, <5>1 DEF Awaits, StaysConnected
        <5> QED
          BY <1>0, <2>1, <2>4, <3>4, <5>2 DEF Ordered, Registers, OnData, OnPortOpen
      <4>3. Kind[l] = "data" => buf'[l] = <<>>
        BY <1>0, <2>1 DEF Ordered
      <4> QED
        BY <3>1, <3>4, <4>1, <4>2, <4>3 DEF Ordered, Expected, CountsUp
    <3> QED
      BY <3>3, <3>4
  <2> QED
    BY <1>10, <2>3, <2>4 DEF Start, StartSends, StartFails, OpenTerminal
<1>11. ASSUME NEW m \in Listeners, Cancel(m)
       PROVE  Ordered(l)'
  <2>1. /\ StaysConnected /\ UNCHANGED <<next, buf, got>> /\ handlers' = Unregistered(m)
        /\ served' \subseteq served
    BY <1>11 DEF Cancel
  <2>2. stage'[l] \in {"idle", "registered"} => stage[l] \in {"idle", "registered"}
    BY <1>11, <1>A DEF Cancel
  <2> QED
    BY <1>0, <1>2, <2>1, <2>2, UnregisteredHears
<1>12. CASE UNCHANGED vars
  BY <1>1, <1>12 DEF vars, transportVars, listenVars
<1> QED
  BY <1>3, <1>4, <1>5, <1>6, <1>7, <1>8, <1>9, <1>10, <1>11, <1>12 DEF Next

\* The invariant in every reachable state.
LEMMA OutputHolds == Spec => [](ShapeInv /\ HandlersInv /\ OutputInv)
<1>1. Init => HandlersInv /\ OutputInv
  <2> SUFFICES ASSUME Init PROVE HandlersInv /\ OutputInv
    OBVIOUS
  <2>1. /\ \A y \in Types : handlers[y] = <<>>
        /\ todo = <<>> /\ worker = "none" /\ served = {}
        /\ \A l \in Listeners : stage[l] = "idle" /\ next[l] = 1 /\ buf[l] = <<>> /\ got[l] = <<>>
    BY DEF Init, TransportInit
  <2>2. /\ NoRepeats(<<>>) /\ ToSet(<<>>) = {} /\ CountsUp(<<>>) /\ <<>> \o <<>> = <<>>
        /\ \A a, b : ~Precedes(<<>>, a, b)
    <3>1. DOMAIN <<>> = {}
      OBVIOUS
    <3>2. NoRepeats(<<>>) /\ CountsUp(<<>>) /\ \A a, b : ~Precedes(<<>>, a, b)
      BY <3>1 DEF NoRepeats, CountsUp, Precedes
    <3>3. ToSet(<<>>) = {} /\ <<>> \o <<>> = <<>>
      BY DEF ToSet
    <3> QED
      BY <3>2, <3>3
  <2>3. {"stdout", "stderr", "exit"} \subseteq Types
    BY DEF Types
  <2>4. HandlersInv
    BY <2>1, <2>2, <2>3 DEF HandlersInv, HandlersKnown, CommandsTogether, TodoKnown
  <2>5. OutputInv
    BY <2>1, <2>2, <2>3 DEF OutputInv, Ordered, Received, Hears, Awaits, Expected
  <2> QED
    BY <2>4, <2>5
<1>2. ShapeInv /\ HandlersInv /\ OutputInv /\ [Next]_vars => HandlersInv' /\ OutputInv'
  BY HandlersStep, OutputStep DEF ShapeInv
<1> QED
  BY <1>1, <1>2, ShapeHolds, PTL DEF Spec

\* What the caller of a command or a terminal receives is in the order in
\* which it was sent and without a gap, and begins with the first message of a
\* command, for any number of commands and terminals on one connection, through
\* losses and reconnects (sandbox.go, ExecStream; ws.go, handleMessage).
THEOREM OutputIsInOrder == Spec => []OutputInOrder
<1>1. ShapeInv /\ OutputInv => OutputInOrder
  <2> SUFFICES ASSUME ShapeInv, OutputInv, NEW l \in Listeners, Kind[l] \in {"exec", "data"}
               PROVE  /\ \A i \in 1 .. Len(Received(l)) - 1 : Received(l)[i + 1] = Received(l)[i] + 1
                      /\ Kind[l] = "exec" /\ Received(l) # <<>> => Received(l)[1] = 1
    BY DEF OutputInOrder
  <2>1. CountsUp(Received(l)) /\ (Kind[l] = "exec" /\ Received(l) # <<>> => Received(l)[1] = 1)
    BY DEF OutputInv, Ordered
  <2>2. Received(l) \in Seq(Int)
    <3>1. Exit \in Nat /\ buf[l] \in Seq(1 .. Exit) /\ got[l] \in Seq(1 .. Exit)
      BY SandboxAssumption DEF ShapeInv, ListenOK, Exit
    <3> QED
      BY <3>1 DEF Received
  <2> DEFINE s == Received(l)
  <2>3. ASSUME NEW i \in 1 .. Len(s) - 1 PROVE s[i + 1] = s[i] + 1
    <3> HIDE DEF s
    <3>1. /\ Len(s) \in Nat /\ DOMAIN s = 1 .. Len(s) /\ s \in Seq(Int) /\ CountsUp(s)
      BY <2>1, <2>2, LenProperties DEF s
    <3>2. 1 \in DOMAIN s /\ i \in DOMAIN s /\ i + 1 \in DOMAIN s /\ i \in Int
      BY <3>1
    <3>3. s[1] \in Int
      BY <3>1, <3>2
    <3>4. s[i] = s[1] + (i - 1) /\ s[i + 1] = s[1] + ((i + 1) - 1)
      BY <3>1, <3>2 DEF CountsUp
    <3> QED
      BY <3>2, <3>3, <3>4
  <2> QED
    BY <2>1, <2>3
<1> QED
  BY <1>1, OutputHolds, PTL

\* Every variable has its type: the ids and `done' channels stay in the range
\* the losses and attempts allow, ExecStream's channel within its capacity, and
\* a caller gets no more than the messages there are.
THEOREM SdkTypes == Spec => []TypeOK
<1>1. ShapeInv /\ OutputInv => TypeOK
  <2> SUFFICES ASSUME ShapeInv, OutputInv PROVE TypeOK
    OBVIOUS
  <2>0. Exit \in Nat /\ LinkOK /\ CallsOK /\ ListenOK
    BY SandboxAssumption DEF ShapeInv, Exit
  <2> HIDE DEF Exit
  <2>1. TransportTypeOK
    <3>1. nextID \in Nat
      BY <2>0, SdkAssumption DEF CallsOK
    <3>2. msg \in Message \cup {None}
      BY <2>0 DEF ListenOK
    <3> QED
      BY <2>0, <3>1, <3>2 DEF LinkOK, CallsOK, ListenOK, TransportTypeOK
  <2>2. ASSUME NEW l \in Listeners, Kind[l] \in {"exec", "data"}
        PROVE  Len(got[l]) <= Exit
    <3> DEFINE s == got[l]
               t == Received(l)
    <3>1. /\ s \in Seq(1 .. Exit) /\ Len(s) \in Nat /\ DOMAIN t = 1 .. Len(s) + Len(buf[l])
          /\ Len(buf[l]) \in Nat /\ CountsUp(t)
          /\ \A i \in 1 .. Len(s) : t[i] = s[i] /\ s[i] \in 1 .. Exit
      <4>1. s \in Seq(1 .. Exit) /\ buf[l] \in Seq(1 .. Exit)
        BY <2>0 DEF ListenOK
      <4>2. CountsUp(t)
        BY <2>2 DEF OutputInv, Ordered
      <4>3. Len(s) \in Nat /\ Len(buf[l]) \in Nat
        BY <4>1, LenProperties
      <4>4. /\ t \in Seq(1 .. Exit) /\ Len(t) = Len(s) + Len(buf[l])
            /\ \A i \in 1 .. Len(s) + Len(buf[l]) :
                 t[i] = IF i <= Len(s) THEN s[i] ELSE buf[l][i - Len(s)]
        BY <4>1, ConcatProperties DEF Received
      <4> HIDE DEF s, t
      <4>5. DOMAIN t = 1 .. Len(s) + Len(buf[l])
        BY <4>4, LenProperties
      <4>6. \A i \in 1 .. Len(s) : s[i] \in 1 .. Exit
        BY <4>1, ElementOfSeq
      <4>7. \A i \in 1 .. Len(s) : i \in 1 .. Len(s) + Len(buf[l]) /\ i <= Len(s)
        BY <4>3
      <4> QED
        BY <4>1, <4>2, <4>3, <4>4, <4>5, <4>6, <4>7
    <3> HIDE DEF s, t
    <3>2. CASE Len(s) = 0
      BY <2>0, <3>1, <3>2 DEF s
    <3>3. CASE Len(s) > 0
      <4>1. 1 \in 1 .. Len(s) /\ Len(s) \in 1 .. Len(s) /\ Len(s) \in DOMAIN t
        BY <3>1, <3>3
      <4>2. t[Len(s)] = t[1] + (Len(s) - 1)
        BY <3>1, <4>1 DEF CountsUp
      <4>3. t[1] \in 1 .. Exit /\ t[Len(s)] \in 1 .. Exit
        BY <3>1, <4>1
      <4>4. Len(s) <= Exit
        BY <2>0, <3>1, <4>2, <4>3
      <4> QED
        BY <4>4 DEF s
    <3> QED
      BY <3>1, <3>2, <3>3
  <2> QED
    BY <2>0, <2>1, <2>2 DEF TypeOK, ListenOK
<1> QED
  BY <1>1, OutputHolds, PTL

-------------------------------------------------------------------------------
(* Listeners that are heard.                                                *)

\* No other listener is a closure of l's function literal.  With another one,
\* `off' of the one may remove the other, as run other_stream shows: this is
\* the whole of what that divergence needs.
Alone(l) == \A m \in Listeners : Kind[l] = Kind[m] => l = m
OneOfAKind == \A l \in Listeners : Alone(l)

\* Such a listener is in its lists from On until it is cancelled, fails or ends.
HeardInv ==
  \A l \in Listeners :
    Alone(l) /\ (stage[l] = "open" \/ (stage[l] = "registered" /\ Kind[l] # "data")) =>
      \A y \in TypesOf(Kind[l]) : l \in ToSet(handlers[y])

\* The function On returned removes no other listener's handlers.
LEMMA OffIsOwn ==
  ASSUME ListenOK, HandlersKnown, NEW m \in Listeners, NEW l \in Listeners \ {m}, Alone(l),
         NEW y \in Types, l \in ToSet(handlers[y])
  PROVE  l \in ToSet(Unregistered(m)[y])
<1>1. handlers[y] \in Seq(Listeners) /\ NoRepeats(handlers[y]) /\ ToSet(handlers[y]) \subseteq Listeners
  BY DEF ListenOK, HandlersKnown, ToSet
<1>2. Unregistered(m)[y] \in {Off(m, handlers[y]), handlers[y]}
  BY UnregisteredLists DEF ListenOK
<1>3. CASE \A a \in ToSet(handlers[y]) : Kind[a] # Kind[m]
  BY <1>1, <1>2, <1>3, OffKeeps
<1>4. CASE \E a \in ToSet(handlers[y]) : Kind[a] = Kind[m]
  <2>1. PICK x : FirstGone(handlers[y], Off(m, handlers[y]), Kind[m], x)
    BY <1>1, <1>4, OffKeeps
  <2>2. x \in ToSet(handlers[y]) /\ Kind[x] = Kind[m]
        /\ ToSet(Off(m, handlers[y])) = ToSet(handlers[y]) \ {x}
    BY <2>1 DEF FirstGone
  <2>3. x # l
    BY <2>2 DEF Alone
  <2> QED
    BY <1>2, <2>2, <2>3
<1> QED
  BY <1>3, <1>4

\* Every step keeps the handlers of a listener that has begun and not ended.
LEMMA HeardStep ==
  ASSUME ListenOK, HandlersInv, HeardInv, [Next]_vars
  PROVE  HeardInv'
<1>0. HandlersKnown /\ Kind \in [Listeners -> Kinds] /\ TodoKnown
      /\ handlers \in [Types -> Seq(Listeners)] /\ stage \in [Listeners -> Stages]
      /\ todo \in Seq(Listeners) /\ ToSet(todo) \subseteq Listeners
  BY SdkAssumption DEF HandlersInv, ListenOK, ToSet
<1>T. \A k \in Kinds : TypesOf(k) \subseteq Types
  BY DEF Kinds, TypesOf, Types
<1>1. ASSUME UNCHANGED <<handlers, stage>> PROVE HeardInv'
  BY <1>1 DEF HeardInv
<1>2. ASSUME NEW m \in Listeners, handlers' = Unregistered(m),
             stage' \in {[stage EXCEPT ![m] = "ended"], [stage EXCEPT ![m] = "failed"]}
      PROVE  HeardInv'
  <2> SUFFICES ASSUME NEW l \in Listeners, Alone(l),
                      stage'[l] = "open" \/ (stage'[l] = "registered" /\ Kind[l] # "data"),
                      NEW y \in TypesOf(Kind[l])
               PROVE  l \in ToSet(handlers'[y])
    BY DEF HeardInv
  <2>1. l # m /\ stage'[l] = stage[l]
    BY <1>0, <1>2
  <2>2. y \in Types /\ l \in ToSet(handlers[y])
    BY <1>0, <1>T, <2>1 DEF HeardInv
  <2> QED
    BY <1>0, <1>2, <2>1, <2>2, OffIsOwn
<1>3. ASSUME NEW m \in Listeners, handlers' = Registered(m), ~Began(m),
             stage' \in {[stage EXCEPT ![m] = "open"], [stage EXCEPT ![m] = "registered"]}
      PROVE  HeardInv'
  <2> SUFFICES ASSUME NEW l \in Listeners, Alone(l),
                      stage'[l] = "open" \/ (stage'[l] = "registered" /\ Kind[l] # "data"),
                      NEW y \in TypesOf(Kind[l])
               PROVE  l \in ToSet(handlers'[y])
    BY DEF HeardInv
  <2>1. y \in Types
    BY <1>0, <1>T
  <2>2. handlers[y] \in Seq(Listeners) /\ NoRepeats(handlers[y]) /\ m \notin ToSet(handlers[y])
    BY <1>0, <1>3, <2>1 DEF HandlersKnown
  <2>3. ToSet(Append(handlers[y], m)) = ToSet(handlers[y]) \cup {m}
    BY <2>2, AppendHandler
  <2>4. handlers'[y] = IF y \in TypesOf(Kind[m]) THEN Append(handlers[y], m) ELSE handlers[y]
    BY <1>3, <2>1 DEF Registered
  <2>5. CASE l = m
    BY <2>3, <2>4, <2>5
  <2>6. CASE l # m
    <3>1. stage'[l] = stage[l]
      BY <1>0, <1>3, <2>6
    <3>2. l \in ToSet(handlers[y])
      BY <3>1 DEF HeardInv
    <3> QED
      BY <2>3, <2>4, <3>2
  <2> QED
    BY <2>5, <2>6
<1>4. CASE ReadLoop
  <2>1. CASE HandlerPushes
    <3>1. PICK h \in Listeners : h = Head(todo)
      BY <1>0, <2>1, TailKeeps DEF HandlerPushes, TodoKnown
    <3> QED
      BY <1>1, <1>2, <2>1, <3>1 DEF HandlerPushes
  <2>2. CASE ~HandlerPushes
    BY <1>1, <1>4, <2>2 DEF ReadLoop, ReadTop, ReadFails, Dispatched, HandlerSkips, HandlerCallsBack,
                            NextHandler, readVars, listenVars
  <2> QED
    BY <2>1, <2>2
<1>5. CASE Reconnect \/ EnsureWS \/ ConnectionLost \/ Close
  BY <1>1, <1>5 DEF Reconnect, EnsureWS, ReconnectSteps, ReconnectChecks, ReconnectWakes,
                    ReconnectResetsOnce, ReconnectRenewsDone, ReconnectDials, ReconnectFails,
                    ReconnectAdopts, Connected, ConnectionLost, LoseLink, Close, CloseSteps, CloseFlags,
                    CloseClosesDone, CloseClosesConn, readVars, listenVars
<1>6. ASSUME NEW r \in Requests, Request(r) \/ Cancelled(r) \/ Answer(r)
      PROVE  HeardInv'
  BY <1>1, <1>6 DEF Request, Cancelled, Answer, RequestSteps, RequestStores, RequestSends,
                    RequestSendFails, RequestSelects, RequestReturns, RequestCancelled, ReadAnswer,
                    readVars, listenVars
<1>7. ASSUME NEW m \in Listeners, Receives(m) \/ CallerTakes(m)
      PROVE  HeardInv'
  BY <1>1, <1>7 DEF Receives, CallerTakes, transportVars, readVars
<1>8. ASSUME NEW m \in Listeners, Cancel(m)
      PROVE  HeardInv'
  BY <1>2, <1>8 DEF Cancel
<1>9. ASSUME NEW m \in Listeners, Start(m)
      PROVE  HeardInv'
  <2>1. CASE Registers(m) \/ OnData(m) \/ OnPortOpen(m)
    <3>1. ~Began(m)
      BY <2>1 DEF Registers, OnData, OnPortOpen, Began
    <3> QED
      BY <1>3, <2>1, <3>1 DEF Registers, OnData, OnPortOpen
  <2>2. CASE OpenTerminal(m)
    BY <1>0, <2>2 DEF OpenTerminal, HeardInv
  <2>3. CASE StartSends(m)
    BY <1>0, <2>3 DEF StartSends, HeardInv
  <2>4. CASE StartFails(m)
    <3>1. CASE Kind[m] = "files"
      BY <1>2, <2>4, <3>1 DEF StartFails
    <3>2. CASE Kind[m] # "files"
      BY <1>0, <2>4, <3>2 DEF StartFails, HeardInv
    <3> QED
      BY <3>1, <3>2
  <2> QED
    BY <1>9, <2>1, <2>2, <2>3, <2>4 DEF Start
<1>10. CASE UNCHANGED vars
  BY <1>1, <1>10 DEF vars, transportVars, readVars, listenVars
<1> QED
  BY <1>4, <1>5, <1>6, <1>7, <1>8, <1>9, <1>10 DEF Next

\* A listener that was started and has neither ended nor been cancelled has
\* all its handlers registered, unless another listener shares its function
\* literal, whatever the others share among themselves (ws.go, On and the
\* function it returns).
THEOREM AloneIsHeard ==
  Spec => [](\A l \in Listeners : Alone(l) /\ stage[l] = "open" =>
               \A t \in TypesOf(Kind[l]) : l \in ToSet(handlers[t]))
<1>1. Init => HeardInv
  BY DEF Init, HeardInv
<1>2. HeardInv /\ ShapeInv /\ HandlersInv /\ [Next]_vars => HeardInv'
  BY HeardStep DEF ShapeInv
<1>3. HeardInv => \A l \in Listeners : Alone(l) /\ stage[l] = "open" =>
                    \A t \in TypesOf(Kind[l]) : l \in ToSet(handlers[t])
  BY DEF HeardInv
<1> QED
  BY <1>1, <1>2, <1>3, OutputHolds, PTL DEF Spec

\* So every listener is heard when no two share a literal.
THEOREM ListenersAreHeard == OneOfAKind /\ Spec => []OpenListenerIsHeard
<1>1. OneOfAKind => OneOfAKind'
  BY DEF OneOfAKind, Alone
<1>2. OneOfAKind /\ (\A l \in Listeners : Alone(l) /\ stage[l] = "open" =>
                      \A t \in TypesOf(Kind[l]) : l \in ToSet(handlers[t]))
        => OpenListenerIsHeard
  BY DEF OneOfAKind, OpenListenerIsHeard
<1> QED
  BY <1>1, <1>2, AloneIsHeard, PTL DEF Spec
===============================================================================
