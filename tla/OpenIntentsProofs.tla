------------------------- MODULE OpenIntentsProofs -------------------------
(* What holds of the requests to open something for every set of start lines,  *)
(* files and directories, every capacity and every bound: the order and the     *)
(* numbers of the requests (Numbered, InOrder), where the head of the queue is   *)
(* known (Headed), and what the answer of the active one has brought (Brought,   *)
(* Granted).                                                                     *)
EXTENDS OpenIntents, TLAPS

Window == {active} \cup Range(waiting)

\* Each request is numbered: the window W, the answer h for the head and the queue Q know
\* a number as one request, and what is still in the queue is not before what they had of it.
Numbered(W, h, Q, n) ==
  /\ \A w \in W : Backend(w) => w.id < n /\ \A q \in Q : w.id < q.id \/ w = q
  /\ \A q \in Q : q.id # 0 /\ q.id < n
  /\ h # None => /\ h.id # 0 /\ h.id < n
                 /\ \A q \in Q : h.id < q.id \/ h = q
                 /\ \A w \in W : Backend(w) => w.id < h.id \/ w = h

\* What is active (a) and what waits (w) comes in its order, after what is settled (s).
InOrder(a, w, s) ==
  /\ \A i \in {a} \cup Range(w) : Backend(i) => i.id > s
  /\ \A i \in DOMAIN w : Backend(a) /\ Backend(w[i]) => a.id < w[i].id
  /\ \A i, j \in DOMAIN w : i < j /\ Backend(w[i]) /\ Backend(w[j]) => w[i].id < w[j].id

\* The window knows the head of the queue, or is going to ask for it.
Headed ==
  \/ queue = <<>> \/ unheard \/ modal \/ poll.phase = "asked" \/ Abandoned \/ active # None \/ waiting # <<>>
  \/ poll.phase = "answered" /\ poll.head = Head(queue)

\* The receipts are what the answer under way has brought.
Brought == unsure \/ receipts \subseteq
  (IF work.phase \in {"answered", "settling"} THEN work.reply.receipts
   ELSE IF work.phase = "committing" THEN {"file"} ELSE {})
\* Between its answer and its settlement the workspace is shown before it is granted.
Granted ==
  IF work.phase = "settling"
  THEN work.reply.kind = "folder" /\ (unsure \/ (granted = work.prior /\ shown = work.reply.workspace))
  ELSE unsure \/ shown = granted

IntentInv ==
  /\ TypeOK /\ nextId # 0
  /\ Numbered(Window, poll.head, Range(queue), nextId) /\ InOrder(active, waiting, settled)
  /\ Headed /\ Brought /\ Granted

(***************************************************************************)
(* Requests and sequences of them                                          *)
(***************************************************************************)
\* A request is not None.
LEMMA Requests == ASSUME IntentConstants
  PROVE  /\ \A i \in Intents : i # None /\ i.id \in Nat
         /\ Local \in Intents /\ Local.id = 0 /\ Intent(0, Local.target) = Local
         /\ \A n \in Nat, t \in Targets : Intent(n, t) \in Intents /\ Intent(n, t).id = n
         /\ Restoration \in Targets /\ Capacity \in Nat \ {0} /\ MaxMoves \in Nat /\ MaxFaults \in Nat
         /\ Saved \in Folders \cup {None} /\ None \notin Folders
  <1>1. \A i \in Intents : i # None /\ i.id \in Nat
    BY DEF IntentConstants, Intents
  <1>2. Local.target \in Targets /\ Restoration \in Targets
    BY DEF Targets
  <1>3. Local \in Intents /\ Local.id = 0 /\ Intent(0, Local.target) = Local
    BY <1>2 DEF Intents, Local, Intent
  <1>4. \A n \in Nat, t \in Targets : Intent(n, t) \in Intents /\ Intent(n, t).id = n
    BY DEF Intents, Intent
  <1> QED
    BY <1>1, <1>2, <1>3, <1>4 DEF IntentConstants

LEMMA Appended ==
  ASSUME NEW S, NEW s \in Seq(S), NEW e \in S
  PROVE  /\ Append(s, e) \in Seq(S) /\ Len(Append(s, e)) = Len(s) + 1 /\ Append(s, e) # <<>>
         /\ DOMAIN Append(s, e) = 1 .. Len(s) + 1 /\ DOMAIN s = 1 .. Len(s)
         /\ \A i \in DOMAIN s : Append(s, e)[i] = s[i]
         /\ Append(s, e)[Len(s) + 1] = e
         /\ Range(Append(s, e)) = Range(s) \cup {e}
         /\ s # <<>> => Head(Append(s, e)) = Head(s)
         /\ s = <<>> => Head(Append(s, e)) = e
  <1>1. /\ Append(s, e) \in Seq(S) /\ Len(Append(s, e)) = Len(s) + 1 /\ Append(s, e) # <<>>
        /\ DOMAIN Append(s, e) = 1 .. Len(s) + 1 /\ DOMAIN s = 1 .. Len(s)
        /\ \A i \in DOMAIN s : Append(s, e)[i] = s[i]
        /\ Append(s, e)[Len(s) + 1] = e /\ (s # <<>> => Head(s) = s[1] /\ Len(s) # 0)
        /\ (s = <<>> => Len(s) = 0)
    OBVIOUS
  <1> DEFINE u == Append(s, e)
  <1> HIDE DEF u
  <1>2. /\ DOMAIN u = 1 .. Len(s) + 1 /\ DOMAIN s = 1 .. Len(s) /\ Len(s) \in Nat
        /\ \A i \in DOMAIN s : u[i] = s[i]
        /\ u[Len(s) + 1] = e
    BY <1>1 DEF u
  <1>3. \A i \in DOMAIN u : i \in DOMAIN s \/ i = Len(s) + 1
    BY <1>2
  <1>4. DOMAIN s \subseteq DOMAIN u /\ Len(s) + 1 \in DOMAIN u
    BY <1>2
  <1>5. Range(u) = Range(s) \cup {e}
    BY ONLY <1>2, <1>3, <1>4 DEF Range
  <1>6. u \in Seq(S) /\ u # <<>>
    BY <1>1 DEF u
  <1>7. Head(u) = u[1]
    BY <1>6
  <1> QED
    BY <1>1, <1>2, <1>5, <1>7 DEF u

LEMMA Tailed ==
  ASSUME NEW S, NEW s \in Seq(S), s # <<>>
  PROVE  /\ Tail(s) \in Seq(S) /\ Len(Tail(s)) = Len(s) - 1 /\ Head(s) \in S /\ Head(s) = s[1]
         /\ 1 \in DOMAIN s
         /\ \A i \in DOMAIN Tail(s) : i + 1 \in DOMAIN s /\ Tail(s)[i] = s[i + 1] /\ i \in Nat /\ 1 < i + 1
         /\ Range(s) = Range(Tail(s)) \cup {Head(s)}
  <1>1. /\ Tail(s) \in Seq(S) /\ Len(Tail(s)) = Len(s) - 1 /\ Head(s) \in S /\ Head(s) = s[1]
        /\ 1 \in DOMAIN s /\ DOMAIN s = 1 .. Len(s) /\ Len(s) \in Nat \ {0}
        /\ DOMAIN Tail(s) = 1 .. Len(s) - 1
        /\ \A i \in DOMAIN Tail(s) : i + 1 \in DOMAIN s /\ Tail(s)[i] = s[i + 1] /\ i \in Nat /\ 1 < i + 1
    OBVIOUS
  <1> DEFINE u == Tail(s)
  <1> HIDE DEF u
  <1>2. /\ DOMAIN u = 1 .. Len(s) - 1 /\ DOMAIN s = 1 .. Len(s) /\ Len(s) \in Nat \ {0} /\ Head(s) = s[1]
        /\ \A i \in DOMAIN u : i + 1 \in DOMAIN s /\ u[i] = s[i + 1]
    BY <1>1 DEF u
  <1>3. \A j \in DOMAIN s : j = 1 \/ (j - 1 \in DOMAIN u /\ u[j - 1] = s[j])
    BY <1>2
  <1>4. 1 \in DOMAIN s
    BY <1>2
  <1>5. Range(s) = Range(u) \cup {Head(s)}
    BY ONLY <1>2, <1>3, <1>4 DEF Range
  <1> QED
    BY <1>1, <1>5 DEF u

LEMMA Ranged ==
  ASSUME NEW S, NEW s \in Seq(S)
  PROVE  Range(s) \subseteq S /\ (\A i \in DOMAIN s : s[i] \in Range(s)) /\ Range(<<>>) = {}
         /\ \A e \in Range(s) : \E i \in DOMAIN s : e = s[i]
  BY DEF Range

(***************************************************************************)
(* The queue and the front of the window                                   *)
(***************************************************************************)
QueueOK ==
  /\ queue \in Seq(Intents) /\ Len(queue) <= Capacity /\ nextId \in Nat
  /\ \A i \in DOMAIN queue : queue[i].id < nextId
  /\ \A i, j \in DOMAIN queue : i < j => queue[i].id < queue[j].id
FrontOK == active \in Intents \cup {None} /\ waiting \in Seq(Intents) /\ settled \in Nat
PollOK ==
  poll \in [phase : {"idle", "asked"}, head : {None}] \cup [phase : {"answered"}, head : Intents \cup {None}]

LEMMA TypeParts == TypeOK => QueueOK /\ FrontOK /\ PollOK
  BY DEF TypeOK, QueueOK, FrontOK, PollOK

LEMMA PoppedQueue ==
  ASSUME IntentConstants, QueueOK
  PROVE  /\ Popped \in Seq(Intents) /\ Len(Popped) <= Capacity
         /\ \A i \in DOMAIN Popped : Popped[i].id < nextId
         /\ \A i, j \in DOMAIN Popped : i < j => Popped[i].id < Popped[j].id
         /\ Range(Popped) \subseteq Range(queue)
  <1>1. CASE queue # <<>>
    <2> DEFINE u == Tail(queue)
    <2>1. /\ u \in Seq(Intents) /\ Len(u) = Len(queue) - 1 /\ Range(u) \subseteq Range(queue)
          /\ \A i \in DOMAIN u : i + 1 \in DOMAIN queue /\ u[i] = queue[i + 1] /\ i \in Nat
      BY <1>1, Tailed DEF QueueOK
    <2>2. Len(queue) \in Nat /\ Capacity \in Nat
      BY Requests DEF QueueOK
    <2> HIDE DEF u
    <2>3. Len(u) <= Capacity /\ \A i \in DOMAIN u : u[i].id < nextId
      BY <2>1, <2>2 DEF QueueOK
    <2>4. ASSUME NEW i \in DOMAIN u, NEW j \in DOMAIN u, i < j
          PROVE  u[i].id < u[j].id
      <3>1. i + 1 < j + 1
        BY <2>1, <2>4
      <3> QED
        BY <2>1, <3>1 DEF QueueOK
    <2>5. Popped = u \/ Popped = queue
      BY DEF Popped, u
    <2> QED
      BY <2>1, <2>3, <2>4, <2>5 DEF QueueOK
  <1>2. CASE queue = <<>>
    BY <1>2 DEF Popped, QueueOK
  <1> QED
    BY <1>1, <1>2

LEMMA Enqueued ==
  ASSUME IntentConstants, QueueOK, NEW t \in Targets, Enqueue(t)
  PROVE  /\ QueueOK' /\ nextId' = nextId + 1 /\ nextId \in Nat /\ queue' # <<>>
         /\ Range(queue') = Range(queue) \cup {Intent(nextId, t)} /\ Intent(nextId, t).id = nextId
         /\ Intent(nextId, t) \in Intents
         /\ queue # <<>> => Head(queue') = Head(queue)
  <1> DEFINE e == Intent(nextId, t)
  <1>1. e \in Intents /\ e.id = nextId /\ nextId \in Nat
    BY Requests DEF QueueOK
  <1>2. queue' = Append(queue, e) /\ nextId' = nextId + 1 /\ Len(queue) < Capacity
    BY DEF Enqueue
  <1> HIDE DEF e
  <1>3. /\ queue' \in Seq(Intents) /\ Len(queue') = Len(queue) + 1 /\ queue' # <<>>
        /\ DOMAIN queue' = 1 .. Len(queue) + 1 /\ DOMAIN queue = 1 .. Len(queue)
        /\ \A i \in DOMAIN queue : queue'[i] = queue[i]
        /\ queue'[Len(queue) + 1] = e
        /\ Range(queue') = Range(queue) \cup {e}
        /\ queue # <<>> => Head(queue') = Head(queue)
    <2>1. queue \in Seq(Intents)
      BY DEF QueueOK
    <2> QED
      BY ONLY <1>1, <1>2, <2>1, Appended
  <1>4. Len(queue) \in Nat /\ Capacity \in Nat
    BY Requests DEF QueueOK
  <1>5. Len(queue') <= Capacity
    BY <1>2, <1>3, <1>4
  <1>6. \A i \in DOMAIN queue' : i \in Nat /\ (i \in DOMAIN queue \/ (i = Len(queue) + 1 /\ queue'[i] = e))
    BY <1>3, <1>4
  <1>7. \A i \in DOMAIN queue : queue[i].id < nextId /\ queue[i].id \in Nat /\ i <= Len(queue) /\ i \in Nat
    <2>1. \A i \in DOMAIN queue : queue[i] \in Intents
      BY DEF QueueOK
    <2> QED
      BY <2>1, <1>3, <1>4, Requests DEF QueueOK
  <1>8. \A i \in DOMAIN queue' : queue'[i].id < nextId'
    BY <1>1, <1>2, <1>3, <1>6, <1>7
  <1>9. ASSUME NEW i \in DOMAIN queue', NEW j \in DOMAIN queue', i < j
        PROVE  queue'[i].id < queue'[j].id
    <2>1. i \in DOMAIN queue
      BY <1>3, <1>4, <1>6, <1>9
    <2>2. CASE j \in DOMAIN queue
      BY <1>3, <1>9, <2>1, <2>2 DEF QueueOK
    <2>3. CASE j = Len(queue) + 1
      BY <1>1, <1>3, <1>7, <2>1, <2>3
    <2> QED
      BY <1>6, <2>2, <2>3
  <1> QED
    BY <1>1, <1>2, <1>3, <1>5, <1>8, <1>9 DEF QueueOK, e

LEMMA TypeQueue ==
  ASSUME IntentConstants, QueueOK,
         \/ queue' \in {queue, Popped} /\ nextId' = nextId
         \/ \E t \in Targets : Enqueue(t)
  PROVE  QueueOK'
  <1>1. CASE queue' = queue /\ nextId' = nextId
    BY <1>1 DEF QueueOK
  <1>2. CASE queue' = Popped /\ nextId' = nextId
    BY <1>2, PoppedQueue DEF QueueOK
  <1> QED
    BY <1>1, <1>2, Enqueued

\* The first of those that wait becomes active, or nothing does.
LEMMA Drained ==
  ASSUME IntentConstants, NEW a \in Intents \cup {None}, NEW w \in Seq(Intents), NEW b, NEW s,
         InOrder(a, w, s), Drain(a, w, b)
  PROVE  /\ active' \in Intents \cup {None} /\ waiting' \in Seq(Intents)
         /\ InOrder(active', waiting', s)
         /\ {active'} \cup Range(waiting') \subseteq {a} \cup Range(w)
         /\ a # None => active' = a
         /\ w # <<>> => active' # None \/ waiting' # <<>>
  <1>1. CASE active' = a /\ waiting' = w
    BY <1>1
  <1>2. CASE a = None /\ w # <<>> /\ active' = Head(w) /\ waiting' = Tail(w)
    <2>1. /\ waiting' \in Seq(Intents) /\ active' \in Intents /\ active' = w[1] /\ 1 \in DOMAIN w
          /\ \A i \in DOMAIN waiting' :
               i + 1 \in DOMAIN w /\ waiting'[i] = w[i + 1] /\ i \in Nat /\ 1 < i + 1
          /\ Range(w) = Range(waiting') \cup {active'}
      BY <1>2, Tailed
    <2>2. \A i, j \in DOMAIN waiting' : i < j => i + 1 < j + 1
      BY <2>1
    <2>3. InOrder(active', waiting', s)
      BY <2>1, <2>2 DEF InOrder
    <2>4. active' # None
      BY <2>1, Requests
    <2> QED
      BY <1>2, <2>1, <2>3, <2>4
  <1> QED
    BY <1>1, <1>2 DEF Drain

\* Another request waits: one that has not been settled and is behind the rest.
LEMMA Joins ==
  ASSUME IntentConstants, FrontOK, InOrder(active, waiting, settled), NEW e \in Intents,
         Backend(e) => e.id > settled /\ \A i \in Window : Backend(i) => i.id < e.id
  PROVE  /\ InOrder(active, Append(waiting, e), settled) /\ Append(waiting, e) \in Seq(Intents)
         /\ {active} \cup Range(Append(waiting, e)) = Window \cup {e} /\ Append(waiting, e) # <<>>
  <1> DEFINE u == Append(waiting, e)
  <1>1. /\ u \in Seq(Intents) /\ u # <<>> /\ Range(u) = Range(waiting) \cup {e} /\ Len(waiting) \in Nat
        /\ DOMAIN u = 1 .. Len(waiting) + 1 /\ DOMAIN waiting = 1 .. Len(waiting)
        /\ \A i \in DOMAIN waiting : u[i] = waiting[i]
        /\ u[Len(waiting) + 1] = e
    BY Appended DEF FrontOK
  <1> HIDE DEF u
  <1>2. \A i \in DOMAIN waiting : waiting[i] \in Window
    BY Ranged DEF Window, FrontOK
  <1>3. \A i \in DOMAIN u : i \in DOMAIN waiting \/ (i = Len(waiting) + 1 /\ u[i] = e)
    BY <1>1
  <1>4. \A i, j \in DOMAIN u : i < j => i \in DOMAIN waiting
    BY <1>1
  <1>5. active \in Window
    BY DEF Window
  <1>6. InOrder(active, u, settled)
    BY <1>1, <1>2, <1>3, <1>4, <1>5 DEF InOrder
  <1> QED
    BY <1>1, <1>6 DEF Window, u

\* The end of the active request: what waits next is later than all that has been settled.
LEMMA SettleStep ==
  ASSUME IntentConstants, FrontOK, InOrder(active, waiting, settled), active # None, Settle
  PROVE  /\ FrontOK' /\ InOrder(active', waiting', settled')
         /\ Window' \subseteq Window \cup {None} /\ work' = AtRest /\ (waiting # <<>> => active' # None \/ waiting' # <<>>)
         /\ poll' = (IF modal THEN NoPoll ELSE Asking)
  <1> DEFINE s == IF active.id > settled THEN active.id ELSE settled
  <1>1. /\ active \in Intents /\ active.id \in Nat /\ waiting \in Seq(Intents) /\ settled \in Nat
        /\ s \in Nat /\ s >= settled /\ s >= active.id /\ s \in {settled, active.id}
    BY Requests DEF FrontOK
  <1>2. settled' = s /\ Drain(None, waiting, modal) /\ work' = AtRest /\ poll' = (IF modal THEN NoPoll ELSE Asking)
    BY DEF Settle, Ask
  <1> HIDE DEF s
  <1>3. \A i \in Range(waiting) : Backend(i) => i.id > s
    <2> SUFFICES ASSUME NEW i \in Range(waiting), Backend(i) PROVE i.id > s
      OBVIOUS
    <2>1. i.id > settled /\ i \in Intents /\ i.id \in Nat
      BY <1>1, Ranged, Requests DEF InOrder
    <2>2. CASE active.id = 0
      BY <1>1, <2>1, <2>2
    <2>3. CASE active.id # 0
      <3>1. PICK k \in DOMAIN waiting : i = waiting[k]
        BY <1>1, Ranged
      <3>2. active.id < i.id
        BY <2>3, <3>1 DEF InOrder, Backend
      <3> QED
        BY <1>1, <2>1, <3>2
    <2> QED
      BY <2>2, <2>3
  <1>4. InOrder(None, waiting, s)
    BY <1>3 DEF InOrder, Backend
  <1>5. /\ active' \in Intents \cup {None} /\ waiting' \in Seq(Intents)
        /\ InOrder(active', waiting', s)
        /\ {active'} \cup Range(waiting') \subseteq {None} \cup Range(waiting)
        /\ waiting # <<>> => active' # None \/ waiting' # <<>>
    BY <1>1, <1>2, <1>4, Drained
  <1> QED
    BY <1>1, <1>2, <1>5 DEF FrontOK, Window

\* What a step does to the window's requests, to the queue and to the question for its head.
FrontStep ==
  \/ UNCHANGED front
  \/ active # None /\ Settle
  \/ \E e \in Intents \cap {Local, poll.head} :
       ~ Known(e) /\ Drain(active, Append(waiting, e), modal) /\ settled' = settled
  \/ Drain(active, waiting, FALSE) /\ settled' = settled
QueueStep ==
  \/ queue' \in {queue, Popped} /\ nextId' = nextId
  \/ \E t \in Targets : Enqueue(t)
PollStep ==
  \/ poll' \in {poll, NoPoll, Asking}
  \/ /\ poll' = [phase |-> "answered", head |-> IF queue = <<>> THEN None ELSE Head(queue)]
     /\ UNCHANGED front /\ UNCHANGED <<queue, nextId>>

LEMMA Busy == ASSUME TypeOK PROVE work # AtRest => active # None
  BY DEF TypeOK

LEMMA NotAtRest == ASSUME work.phase # "rest" PROVE work # AtRest
  BY DEF AtRest, Work

LEMMA Steps ==
  ASSUME IntentConstants, TypeOK, [Next]_vars
  PROVE  FrontStep /\ QueueStep /\ PollStep
  <1> USE DEF front
  <1>0. CASE UNCHANGED vars
    BY <1>0 DEF vars, FrontStep, QueueStep, PollStep
  <1>1. CASE Launch
    <2>1. PICK args \in Launches : Target(args) # None /\ Enqueue(Target(args)) /\ Pending /\ UNCHANGED front
      BY <1>1 DEF Launch
    <2>2. Target(args) \in Targets
      BY <2>1 DEF Targets
    <2> QED
      BY <2>1, <2>2 DEF FrontStep, QueueStep, PollStep, Pending, Ask
  <1>2. CASE PollAnswers
    BY <1>2 DEF PollAnswers, FrontStep, QueueStep, PollStep
  <1>3. CASE PollTaken
    <2>1. /\ QueueStep /\ PollStep
      BY <1>3 DEF PollTaken, QueueStep, PollStep
    <2>2. poll.phase = "answered" => poll.head \in Intents \cup {None}
      BY DEF TypeOK
    <2>3. FrontStep
      BY <1>3, <2>2 DEF PollTaken, FrontStep
    <2> QED
      BY <2>1, <2>3
  <1>4. CASE PollFails
    BY <1>4 DEF PollFails, FrontStep, QueueStep, PollStep
  <1>5. CASE LocalIntent
    BY <1>5, Requests DEF LocalIntent, FrontStep, QueueStep, PollStep
  <1>6. CASE ModalOpens
    BY <1>6 DEF ModalOpens, FrontStep, QueueStep, PollStep
  <1>7. CASE ModalCloses
    BY <1>7 DEF ModalCloses, FrontStep, QueueStep, PollStep
  <1>8. CASE ListenersReady
    BY <1>8, Requests DEF ListenersReady, FrontStep, QueueStep, PollStep, Ask
  <1>9. CASE LocaleChanges
    BY <1>9 DEF LocaleChanges, FrontStep, QueueStep, PollStep, Ask
  <1>10. CASE Edit
    BY <1>10 DEF Edit, FrontStep, QueueStep, PollStep
  <1>11. CASE Process
    BY <1>11 DEF Process, FrontStep, QueueStep, PollStep
  <1>12. CASE Cancel
    BY <1>12 DEF Cancel, Undecided, Settle, Ask, FrontStep, QueueStep, PollStep
  <1>13. CASE Request
    <2>1. active # None
      BY <1>13, Busy, NotAtRest DEF Request
    <2> QED
      BY <1>13, <2>1 DEF Request, Settle, Ask, FrontStep, QueueStep, PollStep
  <1>14. CASE Resolve
    BY <1>14 DEF Resolve, Answer, FrontStep, QueueStep, PollStep
  <1>15. CASE ResolveFails
    BY <1>15 DEF ResolveFails, Answer, FrontStep, QueueStep, PollStep
  <1>16. CASE MoveOn
    BY <1>16 DEF MoveOn, FrontStep, QueueStep, PollStep
  <1>17. CASE Stale
    <2>1. active # None
      BY <1>17, Busy, NotAtRest DEF Stale
    <2> QED
      BY <1>17, <2>1 DEF Stale, Settle, Ask, FrontStep, QueueStep, PollStep
  <1>18. CASE Apply
    <2>1. active # None
      BY <1>18, Busy, NotAtRest DEF Apply
    <2> QED
      BY <1>18, <2>1 DEF Apply, Unsettled, Settle, Ask, FrontStep, QueueStep, PollStep
  <1>19. CASE SettleWorkspace
    <2>1. active # None
      BY <1>19, Busy, NotAtRest DEF SettleWorkspace
    <2> QED
      BY <1>19, <2>1 DEF SettleWorkspace, Unsettled, Settle, Ask, FrontStep, QueueStep, PollStep
  <1>20. CASE Commit
    <2>1. active # None
      BY <1>20, Busy, NotAtRest DEF Commit
    <2> QED
      BY <1>20, <2>1 DEF Commit, Settle, Ask, FrontStep, QueueStep, PollStep
  <1>21. CASE Expire
    BY <1>21 DEF Expire, FrontStep, QueueStep, PollStep
  <1> QED
    BY <1>0, <1>1, <1>2, <1>3, <1>4, <1>5, <1>6, <1>7, <1>8, <1>9, <1>10, <1>11, <1>12, <1>13,
       <1>14, <1>15, <1>16, <1>17, <1>18, <1>19, <1>20, <1>21 DEF Next

\* The window's requests keep their order; what is new among them was the head of the queue.
LEMMA FrontKept ==
  ASSUME IntentConstants, TypeOK, InOrder(active, waiting, settled), FrontStep,
         Numbered(Window, poll.head, Range(queue), nextId)
  PROVE  /\ FrontOK' /\ InOrder(active', waiting', settled')
         /\ \A i \in Window' : Backend(i) => i \in Window \/ i = poll.head
         /\ UNCHANGED front \/ (active # None /\ Settle) \/ active' # None \/ waiting' # <<>> \/ Drain(active, waiting, FALSE)
         /\ (active # None => active' = active) \/ (active # None /\ Settle)
  <1>0. FrontOK
    BY TypeParts
  <1>1. CASE UNCHANGED front
    BY <1>0, <1>1 DEF front, FrontOK, Window
  <1>2. CASE active # None /\ Settle
    BY <1>0, <1>2, SettleStep DEF Backend
  <1>3. CASE \E e \in Intents \cap {Local, poll.head} :
               ~ Known(e) /\ Drain(active, Append(waiting, e), modal) /\ settled' = settled
    <2>1. PICK e \in Intents : /\ e \in {Local, poll.head} /\ ~ Known(e) /\ settled' = settled
                               /\ Drain(active, Append(waiting, e), modal)
      BY <1>3
    <2>2. e # None /\ e.id \in Nat /\ settled \in Nat
      BY <1>0, Requests DEF FrontOK
    <2>3. ASSUME Backend(e)
          PROVE  e.id > settled /\ \A i \in Window : Backend(i) => i.id < e.id
      <3>1. e # Local /\ e = poll.head
        BY <2>1, <2>3, Requests DEF Backend
      <3>2. e.id > settled
        BY <2>1, <2>2, <3>1 DEF Known
      <3>3. ASSUME NEW i \in Window, Backend(i)
            PROVE  i.id < e.id
        <4>1. i.id < e.id \/ i = e
          BY <2>2, <3>1, <3>3 DEF Numbered
        <4>2. i # e
          BY <2>1, <3>3 DEF Known, Window, Backend
        <4> QED
          BY <4>1, <4>2
      <3> QED
        BY <3>2, <3>3
    <2>4. /\ InOrder(active, Append(waiting, e), settled) /\ Append(waiting, e) \in Seq(Intents)
          /\ {active} \cup Range(Append(waiting, e)) = Window \cup {e} /\ Append(waiting, e) # <<>>
      BY <1>0, <2>3, Joins
    <2> DEFINE u == Append(waiting, e)
    <2>5. /\ InOrder(active, u, settled) /\ u \in Seq(Intents) /\ u # <<>> /\ {active} \cup Range(u) = Window \cup {e}
          /\ Drain(active, u, modal) /\ active \in Intents \cup {None}
      BY <1>0, <2>1, <2>4 DEF FrontOK
    <2> HIDE DEF u
    <2>6. /\ active' \in Intents \cup {None} /\ waiting' \in Seq(Intents)
          /\ InOrder(active', waiting', settled)
          /\ {active'} \cup Range(waiting') \subseteq {active} \cup Range(u)
          /\ active # None => active' = active
          /\ u # <<>> => active' # None \/ waiting' # <<>>
      BY <2>5, Drained
    <2>7. \A i \in Window' : Backend(i) => i \in Window \/ i = poll.head
      BY <2>1, <2>5, <2>6, Requests DEF Window, Backend
    <2> QED
      BY <1>0, <2>1, <2>5, <2>6, <2>7 DEF FrontOK
  <1>4. CASE Drain(active, waiting, FALSE) /\ settled' = settled
    <2>1. /\ active' \in Intents \cup {None} /\ waiting' \in Seq(Intents)
          /\ InOrder(active', waiting', settled)
          /\ {active'} \cup Range(waiting') \subseteq {active} \cup Range(waiting)
          /\ active # None => active' = active
      BY <1>0, <1>4, Drained DEF FrontOK
    <2> QED
      BY <1>0, <1>4, <2>1 DEF FrontOK, Window
  <1> QED
    BY <1>1, <1>2, <1>3, <1>4 DEF FrontStep

\* The numbers tell the requests apart whatever leaves the queue, joins it at its end or is
\* forgotten by the window.
LEMMA Renumbered ==
  ASSUME NEW W, NEW h, NEW Q, NEW n \in Nat, NEW V, NEW g, NEW R, NEW m,
         Numbered(W, h, Q, n), \A q \in Q : q.id \in Nat /\ q # None,
         \A w \in W : Backend(w) => w.id \in Nat, h # None => h.id \in Nat,
         \A i \in V : Backend(i) => i \in W \/ i = h,
         g \in {None, h},
         \/ R \subseteq Q /\ m = n
         \/ \E e : R = Q \cup {e} /\ e.id = n /\ n # 0 /\ m = n + 1
  PROVE  Numbered(V, g, R, m)
  <1>1. m \in Nat /\ m >= n /\ \A k \in Nat : k < n => k < m
    OBVIOUS
  <1>2. \A q \in R : q \in Q \/ (q.id = n /\ n # 0 /\ m = n + 1)
    OBVIOUS
  <1>3. \A q \in R : q.id # 0 /\ q.id < m
    BY <1>1, <1>2 DEF Numbered
  <1>4. ASSUME h # None
        PROVE  h.id # 0 /\ h.id < m /\ \A q \in R : h.id < q.id \/ h = q
    BY <1>1, <1>2, <1>4 DEF Numbered
  <1>5. ASSUME NEW w \in V, Backend(w)
        PROVE  w.id < m /\ \A q \in R : w.id < q.id \/ w = q
    <2>1. CASE w = h
      BY <1>4, <1>5, <2>1 DEF Backend
    <2>2. CASE w \in W
      BY <1>1, <1>2, <1>5, <2>2 DEF Numbered
    <2> QED
      BY <1>5, <2>1, <2>2
  <1>6. ASSUME g # None, NEW w \in V, Backend(w)
        PROVE  w.id < g.id \/ w = g
    BY <1>6 DEF Numbered
  <1> QED
    BY <1>3, <1>4, <1>5, <1>6 DEF Numbered

LEMMA NumberedKept ==
  ASSUME IntentConstants, TypeOK, InOrder(active, waiting, settled), FrontStep, QueueStep, PollStep,
         Numbered(Window, poll.head, Range(queue), nextId), nextId # 0
  PROVE  Numbered(Window', poll'.head, Range(queue'), nextId')
  <1>1. QueueOK /\ FrontOK /\ PollOK
    BY TypeParts
  <1>2. /\ \A q \in Range(queue) : q \in Intents /\ q.id \in Nat /\ q # None
        /\ \A w \in Window : Backend(w) => w.id \in Nat
        /\ poll.head # None => poll.head.id \in Nat
        /\ nextId \in Nat
    BY <1>1, Ranged, Requests DEF QueueOK, FrontOK, PollOK, Window, Backend
  <1>3. \A i \in Window' : Backend(i) => i \in Window \/ i = poll.head
    BY FrontKept
  <1>4. \/ Range(queue') \subseteq Range(queue) /\ nextId' = nextId
        \/ \E e : Range(queue') = Range(queue) \cup {e} /\ e.id = nextId /\ nextId # 0 /\ nextId' = nextId + 1
    BY <1>1, PoppedQueue, Enqueued DEF QueueStep
  <1>5. CASE poll'.head \in {None, poll.head}
    BY <1>2, <1>3, <1>4, <1>5, Renumbered
  <1>6. CASE poll' \in {poll, NoPoll, Asking}
    BY <1>5, <1>6 DEF NoPoll, Asking
  <1>7. CASE /\ poll' = [phase |-> "answered", head |-> IF queue = <<>> THEN None ELSE Head(queue)]
             /\ UNCHANGED front /\ UNCHANGED <<queue, nextId>>
    <2>1. CASE queue = <<>>
      BY <1>5, <1>7, <2>1
    <2>2. CASE queue # <<>>
      <3> DEFINE h == Head(queue)
      <3>1. h \in Range(queue) /\ h = queue[1] /\ 1 \in DOMAIN queue
        BY <1>1, <2>2, Tailed DEF QueueOK
      <3> HIDE DEF h
      <3>2. \A q \in Range(queue) : h.id < q.id \/ h = q
        <4> SUFFICES ASSUME NEW q \in Range(queue) PROVE h.id < q.id \/ h = q
          OBVIOUS
        <4>1. PICK k \in DOMAIN queue : q = queue[k]
          BY <1>1, Ranged DEF QueueOK
        <4>2. k = 1 \/ 1 < k
          BY <1>1 DEF QueueOK
        <4> QED
          BY <1>1, <3>1, <4>1, <4>2 DEF QueueOK
      <3>3. \A w \in Window : Backend(w) => w.id < h.id \/ w = h
        BY <3>1 DEF Numbered
      <3>4. h # None /\ h.id # 0 /\ h.id < nextId
        BY <1>2, <3>1 DEF Numbered
      <3>5. Numbered(Window, h, Range(queue), nextId)
        BY <3>2, <3>3, <3>4 DEF Numbered
      <3>6. poll'.head = h /\ Window' = Window
        BY <1>7, <2>2 DEF h, front, Window
      <3> QED
        BY <1>7, <3>5, <3>6
    <2> QED
      BY <2>1, <2>2
  <1> QED
    BY <1>6, <1>7 DEF PollStep

LEMMA FirstKept ==
  ASSUME QueueStep, nextId \in Nat \ {0}
  PROVE  nextId' \in Nat \ {0}
  BY DEF QueueStep, Enqueue

\* The window goes on knowing the head, or being about to ask for it.
LEMMA HeadedKept ==
  ASSUME IntentConstants, TypeOK, InOrder(active, waiting, settled), Headed, FrontStep,
         Numbered(Window, poll.head, Range(queue), nextId), [Next]_vars
  PROVE  Headed'
  <1> USE DEF Headed
  <1>0. CASE UNCHANGED vars
    BY <1>0 DEF vars, front, Abandoned
  <1>a. ASSUME active # None, Settle, modal' = modal
        PROVE  Headed'
    BY <1>a DEF Settle, Ask, Asking
  <1>b. ASSUME UNCHANGED <<front, queue, unheard, modal, poll>>
        PROVE  Headed'
    BY <1>b DEF front, Abandoned
  <1>c. ASSUME UNCHANGED front, active # None
        PROVE  Headed'
    BY <1>c DEF front
  <1>1. CASE Launch
    BY <1>1 DEF Launch, Pending, Ask, Asking
  <1>2. CASE PollAnswers
    BY <1>2 DEF PollAnswers
  <1>3. CASE PollTaken
    <2>1. QueueOK /\ PollOK /\ FrontOK
      BY TypeParts
    <2>2. CASE poll.head # None /\ ~ Known(poll.head)
      <3> DEFINE u == Append(waiting, poll.head)
      <3>1. Drain(active, u, modal)
        BY <1>3, <2>2 DEF PollTaken
      <3>2. u # <<>> /\ u \in Seq(Intents \cup {None}) /\ Head(u) \in Intents
        BY <2>1, <2>2 DEF PollOK, FrontOK
      <3> HIDE DEF u
      <3>3. active' # None \/ waiting' # <<>>
        BY <3>1, <3>2, Requests DEF Drain
      <3> QED
        BY <3>3
    <2>3. CASE poll.head = None \/ Known(poll.head)
      <3>1. UNCHANGED <<front, queue, unheard, modal>> /\ poll.phase = "answered"
        BY <1>3, <2>3 DEF PollTaken
      <3>2. CASE queue # <<>> /\ poll.head = Head(queue)
        <4>1. Head(queue) \in Intents /\ Head(queue) \in Range(queue)
          BY <2>1, <3>2, Tailed DEF QueueOK
        <4>2. poll.head # None /\ Known(poll.head) /\ poll.head # Local
          BY <2>3, <3>2, <4>1, Requests DEF Numbered
        <4>3. CASE poll.head.id <= settled
          BY <3>1, <3>2, <4>3 DEF Abandoned, front
        <4>4. CASE \E i \in Window : i # None
          <5>1. active # None \/ waiting # <<>>
            BY <2>1, <4>4, Ranged DEF Window, FrontOK
          <5> QED
            BY <3>1, <5>1 DEF front
        <4> QED
          BY <4>2, <4>3, <4>4 DEF Known, Window
      <3>3. CASE ~ (queue # <<>> /\ poll.head = Head(queue))
        BY <3>1, <3>3 DEF front, Abandoned
      <3> QED
        BY <3>2, <3>3
    <2> QED
      BY <2>2, <2>3
  <1>4. CASE PollFails
    BY <1>4 DEF PollFails
  <1>5. CASE LocalIntent
    <2>1. FrontOK /\ Local \in Intents
      BY TypeParts, Requests
    <2> DEFINE u == Append(waiting, Local)
    <2>2. u \in Seq(Intents) /\ u # <<>>
      BY <2>1, Appended DEF FrontOK
    <2>3. Drain(active, u, modal)
      BY <1>5 DEF LocalIntent
    <2> HIDE DEF u
    <2>4. Head(u) \in Intents
      BY <2>2
    <2> QED
      BY <2>2, <2>3, <2>4, Requests DEF Drain
  <1>6. CASE ModalOpens
    BY <1>6 DEF ModalOpens
  <1>7. CASE ModalCloses
    BY <1>7 DEF ModalCloses, Asking
  <1>8. CASE ListenersReady
    BY <1>8, <1>b DEF ListenersReady, Ask, Asking, front, Abandoned
  <1>9. CASE LocaleChanges
    BY <1>9 DEF LocaleChanges, Ask, Asking
  <1>10. CASE Edit
    BY <1>10, <1>b DEF Edit
  <1>11. CASE Process
    BY <1>11, <1>b DEF Process
  <1>12. CASE Cancel
    BY <1>12, <1>a, <1>c DEF Cancel, Undecided
  <1>13. CASE Request
    BY <1>13, <1>a, <1>c, Busy, NotAtRest DEF Request
  <1>14. CASE Resolve
    BY <1>14, <1>c, Busy, NotAtRest DEF Resolve, Answer
  <1>15. CASE ResolveFails
    BY <1>15, <1>c, Busy, NotAtRest DEF ResolveFails, Answer
  <1>16. CASE MoveOn
    BY <1>16, <1>b DEF MoveOn
  <1>17. CASE Stale
    BY <1>17, <1>a, Busy, NotAtRest DEF Stale
  <1>18. CASE Apply
    BY <1>18, <1>a, <1>c, Busy, NotAtRest DEF Apply, Unsettled
  <1>19. CASE SettleWorkspace
    BY <1>19, <1>a, <1>c, Busy, NotAtRest DEF SettleWorkspace, Unsettled
  <1>20. CASE Commit
    BY <1>20, <1>a, Busy, NotAtRest DEF Commit
  <1>21. CASE Expire
    BY <1>21, <1>b DEF Expire
  <1> QED
    BY <1>0, <1>1, <1>2, <1>3, <1>4, <1>5, <1>6, <1>7, <1>8, <1>9, <1>10, <1>11, <1>12, <1>13,
       <1>14, <1>15, <1>16, <1>17, <1>18, <1>19, <1>20, <1>21 DEF Next

(***************************************************************************)
(* What the active request is at                                           *)
(***************************************************************************)
WorkOK ==
  /\ work \in [phase : {"rest", "ready", "asked"}, reply : {None}, prior : {None}, fresh : BOOLEAN]
              \cup [phase : {"answered", "committing", "settling"}, reply : Replies,
                     prior : Folders \cup {None}, fresh : BOOLEAN]
  /\ active = None => work = AtRest
  /\ {granted, shown} \subseteq Folders \cup {None} /\ receipts \subseteq {"file", "folder"}

\* What the backend answers is an answer: it brings receipts with a file or a directory only.
LEMMA Answers ==
  ASSUME IntentConstants
  PROVE  /\ \A target : Found(target) \subseteq Replies
         /\ Failed \in Replies /\ Failed.receipts = {}
         /\ \A r \in Replies : /\ r.receipts \subseteq {"file", "folder"} /\ r.workspace \in Folders \cup {None}
                               /\ r.kind \in {"error", "nothing"} => r.receipts = {}
                               /\ r.kind = "file" => r.receipts = {"file"}
                               /\ r.kind = "folder" => r.workspace \in Folders
                               /\ r.kind \in {"error", "nothing", "file", "folder"}
  <1>1. Failed \in Replies /\ Failed.receipts = {}
    BY DEF Failed, Reply, Replies
  <1>2. ASSUME NEW target
        PROVE  Found(target) \subseteq Replies
    BY <1>1, Requests DEF Found, Reply, Replies
  <1> QED
    BY <1>1, <1>2 DEF Replies

LEMMA WorkKept ==
  ASSUME IntentConstants, TypeOK, Brought, Granted, [Next]_vars,
         active # None => active' = active \/ Settle
  PROVE  WorkOK' /\ Brought' /\ Granted'
  <1>1. WorkOK /\ FrontOK
    BY TypeParts DEF TypeOK, WorkOK
  <1>2. AtRest \in [phase : {"rest", "ready", "asked"}, reply : {None}, prior : {None}, fresh : BOOLEAN]
        /\ AtRest.phase = "rest"
    BY DEF AtRest, Work
  <1>3. active # None \/ work' = work => (active' = None => work' = AtRest)
    BY <1>1 DEF WorkOK, Settle
  <1>b. unsure \in BOOLEAN
    BY DEF TypeOK
  <1>u. ASSUME UNCHANGED <<work, granted, shown>>, receipts' \subseteq receipts, unsure' \in {unsure, TRUE}
        PROVE  WorkOK' /\ Brought' /\ Granted'
    <2>1. WorkOK'
      BY <1>1, <1>3, <1>u DEF WorkOK
    <2>2. CASE unsure' = TRUE
      <3>1. Granted => (work.phase = "settling" => work.reply.kind = "folder")
        BY DEF Granted
      <3> QED
        BY <1>u, <2>1, <2>2, <3>1 DEF Brought, Granted
    <2>3. CASE unsure' = unsure
      <3>1. Brought'
        BY <1>u, <2>3 DEF Brought
      <3>2. Granted'
        BY <1>u, <2>3 DEF Granted
      <3> QED
        BY <2>1, <3>1, <3>2
    <2> QED
      BY <1>u, <2>2, <2>3
  <1>s. ASSUME Settle, {granted', shown'} \subseteq Folders \cup {None}, receipts' \subseteq {"file", "folder"},
               unsure' \/ (receipts' = {} /\ shown' = granted')
        PROVE  WorkOK' /\ Brought' /\ Granted'
    <2>1. work' = AtRest
      BY <1>s DEF Settle
    <2> QED
      BY <1>2, <1>s, <2>1 DEF WorkOK, Brought, Granted
  <1>q. ASSUME active # None, {granted', shown'} \subseteq Folders \cup {None}, receipts' \subseteq {"file", "folder"},
               work' \in [phase : {"rest", "ready", "asked"}, reply : {None}, prior : {None}, fresh : BOOLEAN]
                        \cup [phase : {"answered", "committing", "settling"}, reply : Replies,
                              prior : Folders \cup {None}, fresh : BOOLEAN]
        PROVE  WorkOK'
    BY <1>3, <1>q DEF WorkOK
  <1>r. /\ {granted, shown} \subseteq Folders \cup {None} /\ receipts \subseteq {"file", "folder"}
        /\ work # AtRest => active # None
        /\ work.phase # "rest" => work # AtRest
    BY <1>1, <1>2 DEF WorkOK
  <1>w. /\ work.phase \in {"rest", "ready", "asked"} => work.reply = None /\ work.prior = None /\ work.fresh \in BOOLEAN
        /\ work.phase \in {"answered", "committing", "settling"} =>
             work.reply \in Replies /\ work.prior \in Folders \cup {None} /\ work.fresh \in BOOLEAN
    BY <1>1 DEF WorkOK
  <1>0. CASE UNCHANGED vars
    BY <1>0, <1>u DEF vars
  <1>1x. CASE Launch
    BY <1>1x, <1>u DEF Launch
  <1>2x. CASE PollAnswers
    BY <1>2x, <1>u DEF PollAnswers
  <1>3x. CASE PollTaken
    BY <1>3x, <1>u DEF PollTaken
  <1>4x. CASE PollFails
    BY <1>4x, <1>u DEF PollFails, Fault
  <1>5x. CASE LocalIntent
    BY <1>5x, <1>u DEF LocalIntent
  <1>6x. CASE ModalOpens
    BY <1>6x, <1>u DEF ModalOpens
  <1>7x. CASE ModalCloses
    BY <1>7x, <1>u DEF ModalCloses
  <1>8x. CASE ListenersReady
    BY <1>8x, <1>u DEF ListenersReady, Fault
  <1>9x. CASE LocaleChanges
    BY <1>9x, <1>u DEF LocaleChanges
  <1>10. CASE Edit
    BY <1>10, <1>u DEF Edit
  <1>11. CASE Process
    <2>1. active # None /\ work = AtRest /\ work' = Work("ready", None, None, TRUE)
      BY <1>11 DEF Process, Undecided, AtRest, Work
    <2>2. UNCHANGED <<receipts, granted, shown, unsure>>
      BY <1>11 DEF Process
    <2>3. WorkOK'
      BY <1>q, <1>r, <2>1, <2>2 DEF Work
    <2> QED
      BY <1>2, <2>1, <2>2, <2>3 DEF Brought, Granted, Work
  <1>12. CASE Cancel
    <2>1. UNCHANGED <<receipts, granted, shown>> /\ work = AtRest
      BY <1>12 DEF Cancel, Undecided
    <2>2. CASE Settle /\ unsure' = unsure
      BY <1>2, <1>s, <1>r, <2>1, <2>2 DEF Brought, Granted
    <2>3. CASE Fault /\ work' = work
      BY <1>u, <2>1, <2>3 DEF Fault
    <2> QED
      BY <1>12, <2>2, <2>3 DEF Cancel
  <1>13. CASE Request
    <2>1. UNCHANGED <<receipts, granted, shown, unsure>> /\ work.phase = "ready" /\ active # None
      BY <1>13, <1>r DEF Request
    <2>2. CASE Settle
      BY <1>s, <1>r, <2>1, <2>2 DEF Brought, Granted
    <2>3. CASE work' = [work EXCEPT !.phase = "asked"]
      <3>1. /\ work' \in [phase : {"rest", "ready", "asked"}, reply : {None}, prior : {None}, fresh : BOOLEAN]
            /\ work'.phase = "asked"
        BY <1>1, <2>1, <2>3 DEF WorkOK
      <3> QED
        BY <1>q, <1>r, <2>1, <3>1 DEF Brought, Granted
    <2>4. CASE work' = AtRest
      BY <1>2, <1>q, <1>r, <2>1, <2>4 DEF Brought, Granted
    <2> QED
      BY <1>13, <2>2, <2>3, <2>4 DEF Request
  <1>14. CASE Resolve
    <2>1. /\ work.phase = "asked" /\ active # None /\ UNCHANGED <<granted, shown>>
          /\ work.reply = None /\ work.prior = None /\ work.fresh \in BOOLEAN
      BY <1>14, <1>r, <1>w DEF Resolve, Answer
    <2>2. PICK reply \in Replies :
            \/ Answer(reply, reply.receipts) /\ UNCHANGED unsure
            \/ Answer(Failed, reply.receipts) /\ Fault
      BY <1>14, Answers DEF Resolve
    <2>3. PICK f \in Replies : /\ work' = [work EXCEPT !.phase = "answered", !.reply = f]
                               /\ receipts' = receipts \cup reply.receipts
                               /\ (f = reply /\ unsure' = unsure) \/ unsure' = TRUE
      BY <2>2, Answers DEF Answer, Fault
    <2>4. /\ work' \in [phase : {"answered", "committing", "settling"}, reply : Replies,
                        prior : Folders \cup {None}, fresh : BOOLEAN]
          /\ work'.phase = "answered" /\ work'.reply = f
      BY <1>1, <2>1, <2>3 DEF WorkOK
    <2>5. WorkOK'
      BY <1>q, <1>r, <2>1, <2>3, <2>4, Answers
    <2>6. unsure \/ receipts = {}
      BY <2>1 DEF Brought
    <2>7. CASE unsure' = TRUE
      BY <2>4, <2>5, <2>7 DEF Brought, Granted
    <2>8. CASE f = reply /\ unsure' = unsure
      BY <2>1, <2>3, <2>4, <2>5, <2>6, <2>8 DEF Brought, Granted
    <2> QED
      BY <2>3, <2>7, <2>8
  <1>15. CASE ResolveFails
    <2>1. /\ work.phase = "asked" /\ active # None /\ UNCHANGED <<granted, shown>> /\ unsure' = TRUE
          /\ work.reply = None /\ work.prior = None /\ work.fresh \in BOOLEAN
          /\ receipts' = receipts /\ work' = [work EXCEPT !.phase = "answered", !.reply = Failed]
      BY <1>15, <1>r, <1>w DEF ResolveFails, Answer, Fault
    <2>2. /\ work' \in [phase : {"answered", "committing", "settling"}, reply : Replies,
                        prior : Folders \cup {None}, fresh : BOOLEAN]
          /\ work'.phase = "answered"
      BY <1>1, <2>1, Answers DEF WorkOK
    <2> QED
      BY <1>q, <1>r, <2>1, <2>2 DEF Brought, Granted
  <1>16. CASE MoveOn
    <2>1. /\ UNCHANGED <<receipts, granted, shown, unsure>> /\ work' = [work EXCEPT !.fresh = FALSE]
          /\ work.phase # "rest"
      BY <1>16 DEF MoveOn
    <2>2. /\ work' \in [phase : {"rest", "ready", "asked"}, reply : {None}, prior : {None}, fresh : BOOLEAN]
                       \cup [phase : {"answered", "committing", "settling"}, reply : Replies,
                             prior : Folders \cup {None}, fresh : BOOLEAN]
          /\ work'.phase = work.phase /\ work'.reply = work.reply /\ work'.prior = work.prior
      BY <1>1, <2>1 DEF WorkOK
    <2>3. WorkOK'
      BY <1>q, <1>r, <2>1, <2>2
    <2>4. Brought'
      BY <2>1, <2>2 DEF Brought
    <2>5. Granted'
      BY <2>1, <2>2 DEF Granted
    <2> QED
      BY <2>3, <2>4, <2>5
  <1>17. CASE Stale
    <2>1. /\ work.phase = "answered" /\ Settle /\ UNCHANGED <<granted, shown>> /\ receipts' \subseteq receipts
          /\ (receipts' = receipts \ work.reply.receipts /\ unsure' = unsure) \/ unsure' = TRUE
      BY <1>17 DEF Stale, Give, Quiet, Fault
    <2>2. unsure \/ (receipts \subseteq work.reply.receipts /\ shown = granted)
      BY <2>1 DEF Brought, Granted
    <2>3. unsure' \/ (receipts' = {} /\ shown' = granted')
      BY <2>1, <2>2
    <2> QED
      BY <1>s, <1>r, <2>1, <2>3
  <1>18. CASE Apply
    <2> DEFINE r == work.reply
    <2>1. /\ work.phase = "answered" /\ UNCHANGED <<granted, unsure>> /\ receipts' \subseteq receipts
          /\ r \in Replies /\ work.prior \in Folders \cup {None} /\ work.fresh \in BOOLEAN /\ active # None
      BY <1>18, <1>r, <1>w DEF Apply, Give, Quiet
    <2>2. unsure \/ (receipts \subseteq r.receipts /\ shown = granted)
      BY <2>1 DEF Brought, Granted
    <2>3. CASE r.kind \in {"error", "nothing"}
      <3>1. Settle /\ UNCHANGED <<receipts, shown>>
        BY <1>18, <2>3 DEF Apply
      <3>2. unsure' \/ (receipts' = {} /\ shown' = granted')
        BY <2>1, <2>2, <2>3, <3>1, Answers
      <3> QED
        BY <1>s, <1>r, <2>1, <3>1, <3>2
    <2>4. CASE r.kind = "file" /\ Settle
      <3>1. shown' = shown /\ (receipts' = receipts \ {"file"} \/ work' # AtRest)
        BY <1>18, <2>1, <2>4, <1>2 DEF Apply, Give
      <3>2. receipts' = receipts \ {"file"}
        BY <2>4, <3>1 DEF Settle
      <3>3. unsure' \/ (receipts' = {} /\ shown' = granted')
        BY <2>1, <2>2, <2>4, <3>1, <3>2, Answers
      <3> QED
        BY <1>s, <1>r, <2>1, <2>4, <3>1, <3>3
    <2>5. CASE r.kind = "file" /\ work' = [work EXCEPT !.phase = "committing"]
      <3>1. shown' = shown
        BY <1>18, <2>5 DEF Apply
      <3>2. /\ work' \in [phase : {"answered", "committing", "settling"}, reply : Replies,
                          prior : Folders \cup {None}, fresh : BOOLEAN]
            /\ work'.phase = "committing"
        BY <1>1, <2>1, <2>5 DEF WorkOK
      <3>3. WorkOK'
        BY <1>q, <1>r, <2>1, <3>1, <3>2
      <3>4. Brought'
        BY <2>1, <2>2, <2>5, <3>2, Answers DEF Brought
      <3>5. Granted'
        BY <2>1, <2>2, <3>1, <3>2 DEF Granted
      <3> QED
        BY <3>3, <3>4, <3>5
    <2>6. CASE r.kind = "folder"
      <3>1. /\ shown' = r.workspace /\ work' = [work EXCEPT !.phase = "settling", !.prior = shown]
            /\ receipts' = receipts
        BY <1>18, <2>6 DEF Apply
      <3>2. /\ work' \in [phase : {"answered", "committing", "settling"}, reply : Replies,
                          prior : Folders \cup {None}, fresh : BOOLEAN]
            /\ work'.phase = "settling" /\ work'.reply = r /\ work'.prior = shown
        BY <1>1, <1>r, <2>1, <3>1 DEF WorkOK
      <3>3. WorkOK'
        BY <1>q, <1>r, <2>1, <3>1, <3>2, Answers
      <3>4. Brought'
        BY <2>1, <2>2, <3>1, <3>2 DEF Brought
      <3>5. Granted'
        BY <2>1, <2>2, <2>6, <3>1, <3>2 DEF Granted
      <3> QED
        BY <3>3, <3>4, <3>5
    <2>7. \/ r.kind \in {"error", "nothing"} \/ r.kind = "folder"
          \/ r.kind = "file" /\ (Settle \/ work' = [work EXCEPT !.phase = "committing"])
      BY <1>18 DEF Apply
    <2> QED
      BY <2>3, <2>4, <2>5, <2>6, <2>7
  <1>19. CASE SettleWorkspace
    <2> DEFINE r == work.reply
               file == {"file"} \cap work.reply.receipts
               held == "folder" \in receipts
    <2>1. /\ work.phase = "settling" /\ r \in Replies /\ work.prior \in Folders \cup {None}
          /\ work.fresh \in BOOLEAN /\ active # None /\ receipts' \subseteq receipts
      BY <1>19, <1>r, <1>w DEF SettleWorkspace, Give
    <2>2. r.kind = "folder" /\ (unsure \/ (receipts \subseteq r.receipts /\ granted = work.prior /\ shown = r.workspace))
      BY <2>1 DEF Brought, Granted
    <2>3. r.workspace \in Folders /\ r.receipts \subseteq {"file", "folder"}
      BY <2>1, <2>2, Answers
    <2>4. CASE /\ held /\ granted' = r.workspace /\ receipts' = receipts \ {"folder"}
               /\ UNCHANGED <<unsure, shown>>
               /\ IF file = {} THEN Settle
                  ELSE work' = [work EXCEPT !.phase = "committing"]
      <3>1. CASE file = {}
        <4>1. unsure' \/ (receipts' = {} /\ shown' = granted')
          BY <2>2, <2>3, <2>4, <3>1
        <4> QED
          BY <1>s, <1>r, <2>1, <2>3, <2>4, <3>1, <4>1
      <3>2. CASE file # {}
        <4>1. /\ work' \in [phase : {"answered", "committing", "settling"}, reply : Replies,
                            prior : Folders \cup {None}, fresh : BOOLEAN]
              /\ work'.phase = "committing"
          BY <1>1, <2>1, <2>4, <3>2 DEF WorkOK
        <4>2. WorkOK'
          BY <1>q, <1>r, <2>1, <2>3, <2>4, <4>1
        <4>3. Brought'
          BY <2>2, <2>3, <2>4, <4>1 DEF Brought
        <4>4. Granted'
          BY <2>2, <2>4, <4>1 DEF Granted
        <4> QED
          BY <4>2, <4>3, <4>4
      <3> QED
        BY <3>1, <3>2
    <2>5. CASE ~ held /\ shown' = work.prior /\ Settle /\ receipts' = receipts \ file /\ UNCHANGED <<unsure, granted>>
      <3>1. unsure' \/ (receipts' = {} /\ shown' = granted')
        BY <2>2, <2>3, <2>5
      <3> QED
        BY <1>s, <1>r, <2>1, <2>5, <3>1
    <2>6. CASE unsure' = TRUE /\ shown' = work.prior /\ Settle /\ granted' \in {granted, r.workspace}
      BY <1>s, <1>r, <2>1, <2>3, <2>6
    <2> QED
      BY <1>19, <2>4, <2>5, <2>6 DEF SettleWorkspace, Give, Quiet, Fault
  <1>20. CASE Commit
    <2>1. /\ work.phase = "committing" /\ Settle /\ UNCHANGED <<granted, shown>> /\ receipts' \subseteq receipts
          /\ (receipts' = receipts \ {"file"} /\ unsure' = unsure) \/ unsure' = TRUE
      BY <1>20 DEF Commit, Give, Quiet, Fault
    <2>2. unsure \/ (receipts \subseteq {"file"} /\ shown = granted)
      BY <2>1 DEF Brought, Granted
    <2>3. unsure' \/ (receipts' = {} /\ shown' = granted')
      BY <2>1, <2>2
    <2> QED
      BY <1>s, <1>r, <2>1, <2>3
  <1>21. CASE Expire
    BY <1>21, <1>u DEF Expire, Give
  <1> QED
    BY <1>0, <1>1x, <1>2x, <1>3x, <1>4x, <1>5x, <1>6x, <1>7x, <1>8x, <1>9x, <1>10, <1>11, <1>12, <1>13,
       <1>14, <1>15, <1>16, <1>17, <1>18, <1>19, <1>20, <1>21 DEF Next

(***************************************************************************)
(* The invariant                                                           *)
(***************************************************************************)
\* The counters, the flags and the question for the head.
FlagsOK ==
  /\ {listening, modal, dirty, unsure, unheard} \subseteq BOOLEAN
  /\ restore \in {"pending", "requested", "settled"}
  /\ moves \in 0 .. MaxMoves /\ faults \in 0 .. MaxFaults

LEMMA FlagsKept ==
  ASSUME IntentConstants, FlagsOK, [Next]_vars
  PROVE  FlagsOK'
  <1>1. MaxMoves \in Nat /\ MaxFaults \in Nat
    BY Requests
  <1>2. /\ moves \in Nat /\ moves <= MaxMoves /\ faults \in Nat /\ faults <= MaxFaults
        /\ {listening, modal, dirty, unsure, unheard} \subseteq BOOLEAN
        /\ restore \in {"pending", "requested", "settled"}
    BY <1>1 DEF FlagsOK
  <1>3. moves' \in {moves, moves + 1} /\ (moves' = moves \/ moves < MaxMoves) => moves' \in 0 .. MaxMoves
    BY <1>1, <1>2
  <1>4. faults' \in {faults, faults + 1} /\ (faults' = faults \/ faults < MaxFaults) => faults' \in 0 .. MaxFaults
    BY <1>1, <1>2
  <1> DEFINE Ms == moves' \in {moves, moves + 1} /\ (moves' = moves \/ moves < MaxMoves)
             Fs == faults' \in {faults, faults + 1} /\ (faults' = faults \/ faults < MaxFaults)
             Bs == /\ {listening', modal', dirty', unsure', unheard'} \subseteq BOOLEAN
                   /\ restore' \in {"pending", "requested", "settled"}
  <1>5. ASSUME UNCHANGED vars
        PROVE  Ms /\ Fs /\ Bs
    BY <1>2, <1>5 DEF vars
  <1>6. ASSUME Launch
        PROVE  Ms /\ Fs /\ Bs
    BY <1>2, <1>6 DEF Launch, Move, Fault, Pending
  <1>7. ASSUME PollAnswers
        PROVE  Ms /\ Fs /\ Bs
    BY <1>2, <1>7 DEF PollAnswers, Move, Fault
  <1>8. ASSUME PollTaken
        PROVE  Ms /\ Fs /\ Bs
    BY <1>2, <1>8 DEF PollTaken, Move, Fault
  <1>9. ASSUME PollFails
        PROVE  Ms /\ Fs /\ Bs
    BY <1>2, <1>9 DEF PollFails, Move, Fault
  <1>10. ASSUME LocalIntent
        PROVE  Ms /\ Fs /\ Bs
    BY <1>2, <1>10 DEF LocalIntent, Move, Fault
  <1>11. ASSUME ModalOpens
        PROVE  Ms /\ Fs /\ Bs
    BY <1>2, <1>11 DEF ModalOpens, Move, Fault
  <1>12. ASSUME ModalCloses
        PROVE  Ms /\ Fs /\ Bs
    BY <1>2, <1>12 DEF ModalCloses, Move, Fault
  <1>13. ASSUME ListenersReady
        PROVE  Ms /\ Fs /\ Bs
    BY <1>2, <1>13 DEF ListenersReady, Move, Fault
  <1>14. ASSUME LocaleChanges
        PROVE  Ms /\ Fs /\ Bs
    BY <1>2, <1>14 DEF LocaleChanges, Move, Fault
  <1>15. ASSUME Edit
        PROVE  Ms /\ Fs /\ Bs
    BY <1>2, <1>15 DEF Edit, Move, Fault
  <1>16. ASSUME Process
        PROVE  Ms /\ Fs /\ Bs
    BY <1>2, <1>16 DEF Process, Move, Fault
  <1>17. ASSUME Cancel
        PROVE  Ms /\ Fs /\ Bs
    BY <1>2, <1>17 DEF Cancel, Move, Fault, Settle
  <1>18. ASSUME Request
        PROVE  Ms /\ Fs /\ Bs
    BY <1>2, <1>18 DEF Request, Move, Fault, Settle
  <1>19. ASSUME Resolve
        PROVE  Ms /\ Fs /\ Bs
    BY <1>2, <1>19 DEF Resolve, Move, Fault, Answer
  <1>20. ASSUME ResolveFails
        PROVE  Ms /\ Fs /\ Bs
    BY <1>2, <1>20 DEF ResolveFails, Move, Fault, Answer
  <1>21. ASSUME MoveOn
        PROVE  Ms /\ Fs /\ Bs
    BY <1>2, <1>21 DEF MoveOn, Move, Fault
  <1>22. ASSUME Stale
        PROVE  Ms /\ Fs /\ Bs
    BY <1>2, <1>22 DEF Stale, Move, Fault, Quiet, Settle
  <1>23. ASSUME Apply
        PROVE  Ms /\ Fs /\ Bs
    BY <1>2, <1>23 DEF Apply, Move, Fault, Quiet, Settle, Unsettled
  <1>24. ASSUME SettleWorkspace
        PROVE  Ms /\ Fs /\ Bs
    BY <1>2, <1>24 DEF SettleWorkspace, Move, Fault, Quiet, Settle, Unsettled
  <1>25. ASSUME Commit
        PROVE  Ms /\ Fs /\ Bs
    BY <1>2, <1>25 DEF Commit, Move, Fault, Quiet, Settle
  <1>26. ASSUME Expire
        PROVE  Ms /\ Fs /\ Bs
    BY <1>2, <1>26 DEF Expire, Move, Fault
  <1>27. Ms /\ Fs /\ Bs
    BY <1>5, <1>6, <1>7, <1>8, <1>9, <1>10, <1>11, <1>12, <1>13, <1>14, <1>15, <1>16, <1>17, <1>18,
       <1>19, <1>20, <1>21, <1>22, <1>23, <1>24, <1>25, <1>26 DEF Next
  <1> QED
    BY <1>3, <1>4, <1>27 DEF FlagsOK

LEMMA PollKept ==
  ASSUME IntentConstants, QueueOK, PollOK, PollStep
  PROVE  PollOK'
  <1>1. queue # <<>> => Head(queue) \in Intents
    BY Tailed DEF QueueOK
  <1> QED
    BY <1>1 DEF PollStep, PollOK, NoPoll, Asking

LEMMA TypeWhole == QueueOK /\ FrontOK /\ PollOK /\ WorkOK /\ FlagsOK => TypeOK
  BY DEF TypeOK, QueueOK, FrontOK, PollOK, WorkOK, FlagsOK

\* The request of the start, if there is one, is the first of the queue.
LEMMA AtStart == ASSUME IntentConstants, Init PROVE IntentInv
  <1>1. PICK start \in Launches :
          IF Target(start) = None THEN queue = <<>> /\ nextId = 1
          ELSE queue = <<Intent(1, Target(start))>> /\ nextId = 2
    BY DEF Init
  <1> DEFINE e == Intent(1, Target(start))
  <1>2. /\ active = None /\ waiting = <<>> /\ settled = 0 /\ poll = [phase |-> "asked", head |-> None]
        /\ work = Work("rest", None, None, TRUE) /\ receipts = {} /\ granted = None /\ shown = None
    BY DEF Init, AtRest, Asking
  <1>3. Target(start) # None => e \in Intents /\ e.id = 1
    BY Requests DEF Targets
  <1>4. \/ queue = <<>> /\ nextId = 1
        \/ e \in Intents /\ e.id = 1 /\ queue = <<e>> /\ nextId = 2
    BY <1>1, <1>3
  <1> HIDE DEF e
  <1>5. QueueOK /\ nextId # 0 /\ Range(queue) \subseteq {e} /\ (Range(queue) = {} \/ (e.id = 1 /\ nextId = 2))
    <2>1. CASE queue = <<>> /\ nextId = 1
      <3>1. queue \in Seq(Intents) /\ Len(queue) = 0 /\ DOMAIN queue = {}
        BY <2>1
      <3>2. Range(queue) = {}
        BY <3>1 DEF Range
      <3> QED
        BY <2>1, <3>1, <3>2, Requests DEF QueueOK
    <2>2. CASE e \in Intents /\ e.id = 1 /\ queue = <<e>> /\ nextId = 2
      <3>1. /\ queue \in Seq(Intents) /\ Len(queue) = 1 /\ DOMAIN queue = {1} /\ queue[1] = e
        BY <2>2
      <3>2. Range(queue) = {e}
        BY <3>1 DEF Range
      <3> QED
        BY <2>2, <3>1, <3>2, Requests DEF QueueOK
    <2> QED
      BY <1>4, <2>1, <2>2
  <1>6. FrontOK /\ PollOK /\ Range(waiting) = {} /\ DOMAIN waiting = {}
    <2>1. waiting \in Seq(Intents) /\ DOMAIN waiting = {}
      BY <1>2
    <2> QED
      BY <1>2, <2>1 DEF FrontOK, PollOK, Range
  <1>7. WorkOK /\ Brought /\ Granted
    BY <1>2 DEF WorkOK, Brought, Granted, AtRest, Work
  <1>8. FlagsOK
    <2>1. 0 \in 0 .. MaxMoves /\ 0 \in 0 .. MaxFaults
      BY Requests
    <2> QED
      BY <2>1 DEF Init, FlagsOK
  <1>9. Numbered(Window, poll.head, Range(queue), nextId)
    BY <1>2, <1>5, <1>6 DEF Numbered, Window, Backend
  <1>10. InOrder(active, waiting, settled)
    BY <1>2, <1>6 DEF InOrder, Backend
  <1>11. Headed
    BY <1>2 DEF Headed
  <1> QED
    BY <1>5, <1>6, <1>7, <1>8, <1>9, <1>10, <1>11, TypeWhole DEF IntentInv

LEMMA IntentStep == ASSUME IntentConstants, IntentInv, [Next]_vars PROVE IntentInv'
  <1>1. /\ TypeOK /\ nextId # 0 /\ Numbered(Window, poll.head, Range(queue), nextId)
        /\ InOrder(active, waiting, settled) /\ Headed /\ Brought /\ Granted
    BY DEF IntentInv
  <1>2. QueueOK /\ FrontOK /\ PollOK /\ FlagsOK
    BY <1>1, TypeParts DEF TypeOK, FlagsOK
  <1>3. FrontStep /\ QueueStep /\ PollStep
    BY <1>1, Steps
  <1>4. FrontOK' /\ InOrder(active', waiting', settled') /\ (active # None => active' = active \/ Settle)
    BY <1>1, <1>3, FrontKept
  <1>5. QueueOK'
    BY <1>2, <1>3, TypeQueue DEF QueueStep
  <1>6. PollOK' /\ FlagsOK'
    BY <1>2, <1>3, PollKept, FlagsKept
  <1>7. WorkOK' /\ Brought' /\ Granted'
    BY <1>1, <1>4, WorkKept
  <1>8. TypeOK'
    <2>1. QueueOK' /\ FrontOK' /\ PollOK' /\ WorkOK' /\ FlagsOK'
      BY <1>4, <1>5, <1>6, <1>7
    <2> QED
      BY <2>1 DEF TypeOK, QueueOK, FrontOK, PollOK, WorkOK, FlagsOK
  <1>9. Headed'
    BY <1>1, <1>3, HeadedKept
  <1>10. nextId' # 0
    BY <1>1, <1>2, <1>3, FirstKept DEF QueueOK
  <1>11. Numbered(Window', poll'.head, Range(queue'), nextId')
    BY <1>1, <1>3, NumberedKept
  <1> QED
    BY <1>4, <1>7, <1>8, <1>9, <1>10, <1>11 DEF IntentInv

LEMMA IntentInvariant == ASSUME IntentConstants PROVE Spec => []IntentInv
  <1>1. Init => IntentInv
    BY AtStart
  <1>2. IntentInv /\ [Next]_vars => IntentInv'
    BY IntentStep
  <1> QED
    BY <1>1, <1>2, PTL DEF Spec

\* The queue keeps its capacity and the order of its numbers, and every variable its type, with
\* what the answer under way may hold (open_intent.rs, openIntentCoordinator.ts).
THEOREM IntentTypeCorrect == ASSUME IntentConstants PROVE Spec => []TypeOK
  <1>1. IntentInv => TypeOK
    BY DEF IntentInv
  <1> QED
    BY <1>1, IntentInvariant, PTL

\* However events, questions for the head, dialogs, failures and expiries interleave: no request is
\* forgotten, each is carried out once and in its turn, the receipts of its answer end with it, and
\* the workspace shown is the one granted (openIntentCoordinator.ts, useDocumentSession.ts).
THEOREM RequestsAreKeptCorrect == ASSUME IntentConstants PROVE Spec => []RequestsAreKept
  <1>1. IntentInv => RequestsAreKept
    <2> SUFFICES ASSUME IntentInv PROVE RequestsAreKept
      OBVIOUS
    <2>1. NoRequestForgotten
      BY DEF IntentInv, Headed, NoRequestForgotten, NoPoll
    <2>2. RequestsInOrder
      BY DEF IntentInv, InOrder, RequestsInOrder
    <2>3. ReceiptsEnd
      BY DEF IntentInv, Brought, ReceiptsEnd
    <2>4. ShownIsGranted
      BY DEF IntentInv, Granted, ShownIsGranted
    <2> QED
      BY <2>1, <2>2, <2>3, <2>4 DEF RequestsAreKept
  <1> QED
    BY <1>1, IntentInvariant, PTL
=============================================================================
