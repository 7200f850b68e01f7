----------------------- MODULE DocumentSessionProofs -----------------------
(* A reservation of authority for a save-as is never forgotten: it goes with   *)
(* the save-as or with the token that holds it. A save replaces only what its  *)
(* window has seen. The types hold, and with them the capacity of the tokens.  *)
(* For all sets of paths and texts, any capacity of tokens and all bounds.     *)
EXTENDS DocumentSession, FiniteSetTheorems, WellFoundedInduction, TLAPS

(***************************************************************************)
(* The invariant. A save-as that has passed its dialog holds its reservation *)
(* itself only until it has a token or an answer, so an operation that leaves *)
(* the queue holds none; what a token is chosen by, its number, is its own.   *)
(***************************************************************************)
Reservations == [id : Nat, path : Paths, generation : Nat]
TokenOK(t) ==
  t = [id |-> t.id, path |-> t.path, version |-> t.version, text |-> t.text, op |-> t.op,
       generation |-> t.generation, pending |-> t.pending, expired |-> t.expired]

\* A state of the tokens whose reservations are held by them or by one of `held`.
IsState(s) ==
  s = [tokens |-> s.tokens, reserved |-> s.reserved, generation |-> s.generation, serial |-> s.serial]
Numbered(s) ==
  /\ s.serial \in Nat /\ s.generation \in Nat
  /\ \A t \in s.tokens : TokenOK(t) /\ t.id \in Nat /\ t.id <= s.serial
  /\ \A t, u \in s.tokens : t.id = u.id => t = u
Held(s, held) ==
  /\ IsState(s) /\ Numbered(s)
  /\ s.reserved \subseteq Reservations
  /\ \A q \in s.reserved : q \in held \/ \E t \in s.tokens : t.pending = q

OpOK(o) == /\ {"kind", "stage", "answer"} \subseteq DOMAIN o
           /\ o.kind = "save as" => "pending" \in DOMAIN o
QueueOK == /\ queue \in Seq({queue[i] : i \in DOMAIN queue})
           /\ \A i \in DOMAIN queue : OpOK(queue[i])
Holding == queue # <<>> /\ Op.kind = "save as" /\ Op.stage \in {"issue", "create"}
Waiting == IF Holding THEN {Op.pending} ELSE {}
HeldInv == QueueOK /\ Held(State, Waiting)

(***************************************************************************)
(* The operators on states.                                                *)
(***************************************************************************)
LEMMA NoneIsFree == SaveConstants => None \notin Reservations
  BY DEF SaveConstants, Reservations

\* What EXCEPT makes of a state, one field after the other.
LEMMA StateExcept ==
  ASSUME NEW s, IsState(s), NEW a, NEW b
  PROVE  /\ [s EXCEPT !.reserved = a, !.generation = b] =
              [tokens |-> s.tokens, reserved |-> a, generation |-> b, serial |-> s.serial]
         /\ [s EXCEPT !.tokens = a, !.serial = b] =
              [tokens |-> a, reserved |-> s.reserved, generation |-> s.generation, serial |-> b]
  <1> DEFINE r == [s EXCEPT !.reserved = a]
             t == [s EXCEPT !.tokens = a]
  <1>1. r = [tokens |-> s.tokens, reserved |-> a, generation |-> s.generation, serial |-> s.serial]
    BY DEF IsState
  <1>2. t = [tokens |-> a, reserved |-> s.reserved, generation |-> s.generation, serial |-> s.serial]
    BY DEF IsState
  <1> HIDE DEF r, t
  <1>3. [r EXCEPT !.generation = b] =
          [tokens |-> s.tokens, reserved |-> a, generation |-> b, serial |-> s.serial]
    BY <1>1
  <1>4. [t EXCEPT !.serial = b] =
          [tokens |-> a, reserved |-> s.reserved, generation |-> s.generation, serial |-> b]
    BY <1>2
  <1>. QED BY <1>3, <1>4 DEF r, t

LEMMA HeldMore ==
  ASSUME NEW s, NEW held, NEW more, Held(s, held), held \subseteq more PROVE Held(s, more)
  BY DEF Held

LEMMA HeldNone ==
  ASSUME SaveConstants, NEW s, NEW held, Held(s, held \cup {None}) PROVE Held(s, held)
  BY NoneIsFree DEF Held

LEMMA InvalidatedHeld ==
  ASSUME NEW s, NEW held, NEW pendings, Held(s, held \cup pendings)
  PROVE  Held(Invalidated(s, pendings), held)
  <1> DEFINE gone == s.reserved \cap pendings
             g == IF \E q \in gone : q.generation = s.generation THEN s.generation + 1 ELSE s.generation
             n == [tokens |-> s.tokens, reserved |-> s.reserved \ gone, generation |-> g,
                   serial |-> s.serial]
  <1>1. Invalidated(s, pendings) = n
    <2> DEFINE others == s.reserved \ gone
    <2>1. Invalidated(s, pendings) = [s EXCEPT !.reserved = others, !.generation = g]
      BY DEF Invalidated
    <2>2. n = [tokens |-> s.tokens, reserved |-> others, generation |-> g, serial |-> s.serial]
      OBVIOUS
    <2>3. IsState(s)
      BY DEF Held
    <2> HIDE DEF n, g, others
    <2>. QED BY <2>1, <2>2, <2>3, StateExcept
  <1>2. g \in Nat
    BY DEF Held, Numbered
  <1>3. Numbered(n)
    BY <1>2 DEF Held, Numbered
  <1>4. IsState(n)
    BY DEF IsState
  <1>5. n.reserved \subseteq Reservations /\ n.reserved = s.reserved \ pendings
    BY DEF Held
  <1>6. \A q \in n.reserved : q \in held \/ \E t \in n.tokens : t.pending = q
    BY <1>5 DEF Held
  <1> HIDE DEF n
  <1>. QED BY <1>1, <1>3, <1>4, <1>5, <1>6 DEF Held

LEMMA CancelledHeld ==
  ASSUME SaveConstants, NEW s, NEW pending, Held(s, {pending}) PROVE Held(Cancelled(s, pending), {})
  <1>1. CASE pending = None
    <2>1. Held(s, {} \cup {None})
      BY <1>1, HeldMore
    <2>2. Held(s, {})
      BY <2>1, HeldNone
    <2>3. Held(s, {} \cup ({pending} \ {None}))
      BY <2>2, HeldMore
    <2>. QED BY <2>3, InvalidatedHeld DEF Cancelled
  <1>2. CASE pending # None
    <2>1. {pending} \ {None} = {pending}
      BY <1>2
    <2>2. Held(s, {} \cup ({pending} \ {None}))
      BY <2>1, HeldMore
    <2>. QED BY <2>2, InvalidatedHeld DEF Cancelled
  <1>. QED BY <1>1, <1>2

\* Tokens that go leave their reservations to whoever drops them.
LEMMA WithoutHeld ==
  ASSUME NEW s, NEW held, NEW kept, NEW pendings, Held(s, held), kept \subseteq s.tokens,
         \A t \in s.tokens \ kept : t.pending \in pendings
  PROVE  Held([s EXCEPT !.tokens = kept], held \cup pendings)
  <1> DEFINE n == [tokens |-> kept, reserved |-> s.reserved, generation |-> s.generation,
                   serial |-> s.serial]
  <1>1. [s EXCEPT !.tokens = kept] = n
    BY DEF Held, IsState
  <1>2. IsState(n) /\ Numbered(n) /\ n.reserved \subseteq Reservations
    BY DEF Held, IsState, Numbered
  <1>3. \A q \in n.reserved : q \in held \cup pendings \/ \E t \in n.tokens : t.pending = q
    BY DEF Held
  <1> HIDE DEF n
  <1>. QED BY <1>1, <1>2, <1>3 DEF Held

LEMMA EvictedHeld ==
  ASSUME NEW s, NEW held, Held(s, held) PROVE Held(Evicted(s), held)
  <1> DEFINE kept == s.tokens \ Dropped(s)
             pendings == {t.pending : t \in Dropped(s)}
  <1>1. kept \subseteq s.tokens /\ \A t \in s.tokens \ kept : t.pending \in pendings
    OBVIOUS
  <1>2. Held([s EXCEPT !.tokens = kept], held \cup pendings)
    BY <1>1, WithoutHeld
  <1>3. Evicted(s) = Invalidated([s EXCEPT !.tokens = kept], pendings)
    BY DEF Evicted
  <1> HIDE DEF kept, pendings
  <1>. QED BY <1>2, <1>3, InvalidatedHeld

LEMMA CancelTokenHeld ==
  ASSUME NEW s, NEW held, NEW token, Held(s, held) PROVE Held(CancelToken(s, token), held)
  <1> DEFINE kept == {t \in s.tokens : t.id # token}
             pendings == {t.pending : t \in {u \in s.tokens : u.id = token}}
  <1>1. kept \subseteq s.tokens /\ \A t \in s.tokens \ kept : t.pending \in pendings
    OBVIOUS
  <1>2. Held([s EXCEPT !.tokens = kept], held \cup pendings)
    BY <1>1, WithoutHeld
  <1>3. CancelToken(s, token) = Invalidated([s EXCEPT !.tokens = kept], pendings)
    BY DEF CancelToken, Taken
  <1> HIDE DEF kept, pendings
  <1>. QED BY <1>2, <1>3, InvalidatedHeld

\* A token that is issued for a reservation holds it.
LEMMA IssuedHeld ==
  ASSUME NEW s, NEW path, NEW text, NEW op, NEW pending, NEW held, Held(s, held)
  PROVE  LET issued == Issued(s, path, text, op, pending)
         IN  /\ Held(issued.state, held)
             /\ issued.token # None => Held(issued.state, held \ {pending})
  <1> DEFINE e == Evicted(s)
             t == NewToken(e, path, disk[path].version, text, op, pending)
             n == [tokens |-> e.tokens \cup {t}, reserved |-> e.reserved,
                   generation |-> e.generation, serial |-> e.serial + 1]
             issued == Issued(s, path, text, op, pending)
  <1>1. Held(e, held)
    BY EvictedHeld
  <1>2. TokenOK(t) /\ t.id = e.serial + 1 /\ t.pending = pending
    BY DEF NewToken, TokenOK
  <1>3. [e EXCEPT !.tokens = @ \cup {t}, !.serial = @ + 1] = n
    <2> DEFINE live == e.tokens \cup {t}
               next == e.serial + 1
    <2>1. IsState(e)
      BY <1>1 DEF Held
    <2> HIDE DEF e, t, live, next
    <2>2. [e EXCEPT !.tokens = live, !.serial = next] =
            [tokens |-> live, reserved |-> e.reserved, generation |-> e.generation, serial |-> next]
      BY <2>1, StateExcept
    <2>. QED BY <2>2 DEF live, next
  <1>4. \/ issued.state = e /\ issued.token = None
        \/ issued.state = n
    <2> HIDE DEF e
    <2>1. CASE pending # None /\ ~Matches(e, pending, path)
      <3>1. issued = [state |-> e, token |-> None]
        BY <2>1 DEF Issued, e
      <3>. QED BY <3>1
    <2>2. CASE ~(pending # None /\ ~Matches(e, pending, path))
      <3>1. issued = [state |-> n, token |-> t]
        BY <2>2, <1>3 DEF Issued, e
      <3>. QED BY <3>1
    <2>. QED BY <2>1, <2>2
  <1>5. Held(n, held \ {pending})
    <2> HIDE DEF e, t
    <2>1. IsState(n) /\ n.reserved \subseteq Reservations
      BY <1>1 DEF Held, IsState
    <2>2. Numbered(n)
      BY <1>1, <1>2 DEF Held, Numbered
    <2>3. \A q \in n.reserved : q \in held \ {pending} \/ \E u \in n.tokens : u.pending = q
      BY <1>1, <1>2 DEF Held
    <2>. QED BY <2>1, <2>2, <2>3 DEF Held
  <1> HIDE DEF e, t, n, issued
  <1>. QED BY <1>1, <1>4, <1>5, HeldMore DEF issued

LEMMA IssueTokenHeld ==
  ASSUME SaveConstants, NEW path, NEW text, NEW op, NEW pending, Held(State, {pending})
  PROVE  LET issued == IssueToken(path, text, op, pending)
         IN  /\ Held(issued.state, {pending})
             /\ issued.token # None => Held(issued.state, {})
  <1> DEFINE issued == IssueToken(path, text, op, pending)
  <1>1. CASE ~Entitled(State, pending, path)
    <2>1. issued = [state |-> Cancelled(State, pending), token |-> None]
      BY <1>1 DEF IssueToken
    <2>2. Held(Cancelled(State, pending), {})
      BY CancelledHeld
    <2> HIDE DEF issued
    <2>. QED BY <2>1, <2>2, HeldMore DEF issued
  <1>2. CASE Entitled(State, pending, path) /\ disk[path] = Missing
    <2>1. issued = [state |-> State, token |-> None]
      BY <1>2 DEF IssueToken
    <2> HIDE DEF issued
    <2>. QED BY <2>1 DEF issued
  <1>3. CASE Entitled(State, pending, path) /\ disk[path] # Missing
    <2>1. issued = Issued(State, path, text, op, pending)
      BY <1>3 DEF IssueToken
    <2>2. {pending} \ {pending} = {}
      OBVIOUS
    <2> HIDE DEF issued
    <2>. QED BY <2>1, <2>2, IssuedHeld DEF issued
  <1>. QED BY <1>1, <1>2, <1>3

(***************************************************************************)
(* The calls.                                                              *)
(***************************************************************************)
LEMMA BecomesHeld ==
  ASSUME NEW s, NEW held, Held(s, held), Becomes(s) PROVE Held(State, held)'
  <1>1. State' = s
    BY DEF Held, IsState, Becomes, State
  <1>. QED BY <1>1

LEMMA SettledHeld ==
  ASSUME SaveConstants, NEW s, NEW pending, NEW path, Held(s, {pending})
  PROVE  Held(Settled(s, pending, path), {})
  <1> DEFINE s1 == IF pending = None THEN s
                   ELSE [s EXCEPT !.reserved = @ \ {pending}, !.generation = @ + 1]
  <1>1. Held(s1, {})
    <2>1. CASE pending = None
      BY <2>1, HeldNone, HeldMore
    <2>2. CASE pending # None
      <3> DEFINE rest == s.reserved \ {pending}
                 g == s.generation + 1
                 n == [tokens |-> s.tokens, reserved |-> rest, generation |-> g, serial |-> s.serial]
      <3>1. s1 = [s EXCEPT !.reserved = rest, !.generation = g]
        BY <2>2
      <3>2. s1 = n
        <4>1. IsState(s)
          BY DEF Held
        <4> HIDE DEF s1, rest, g
        <4>. QED BY <3>1, <4>1, StateExcept
      <3>3. IsState(n) /\ Numbered(n) /\ n.reserved \subseteq Reservations
        BY DEF Held, IsState, Numbered
      <3>4. \A q \in n.reserved : \E t \in n.tokens : t.pending = q
        BY DEF Held
      <3> HIDE DEF n
      <3>. QED BY <3>2, <3>3, <3>4 DEF Held
    <2>. QED BY <2>1, <2>2
  <1>2. Settled(s, pending, path) = s1 \/ Settled(s, pending, path) = [s1 EXCEPT !.generation = @ + 1]
    BY DEF Settled
  <1>3. Held([s1 EXCEPT !.generation = @ + 1], {})
    <2> DEFINE n == [tokens |-> s1.tokens, reserved |-> s1.reserved, generation |-> s1.generation + 1,
                     serial |-> s1.serial]
    <2> HIDE DEF s1
    <2>1. [s1 EXCEPT !.generation = @ + 1] = n
      BY <1>1 DEF Held, IsState
    <2>2. IsState(n) /\ Numbered(n) /\ n.reserved \subseteq Reservations
      BY <1>1 DEF Held, IsState, Numbered
    <2>3. \A q \in n.reserved : \E t \in n.tokens : t.pending = q
      BY <1>1 DEF Held
    <2> HIDE DEF n
    <2>. QED BY <2>1, <2>2, <2>3 DEF Held
  <1>. QED BY <1>1, <1>2, <1>3

LEMMA WritesHeld ==
  ASSUME SaveConstants, NEW s, NEW pending, NEW path, NEW text, NEW expected, NEW faulty, NEW answer,
         Held(s, {pending}), Writes(s, pending, path, text, expected, faulty, answer)
  PROVE  Held(State, {})'
  <1>1. Becomes(Settled(s, pending, path)) \/ Becomes(Cancelled(s, pending))
    BY DEF Writes, Commit
  <1>. QED BY <1>1, SettledHeld, CancelledHeld, BecomesHeld

LEMMA FailsHeld ==
  ASSUME NEW s, NEW answer, Held(s, {}), Fails(s, answer) PROVE Held(State, {})'
  BY BecomesHeld DEF Fails

LEMMA SaveExpectedHeld ==
  ASSUME SaveConstants, NEW path, NEW text, NEW expected, NEW faulty, NEW answer,
         Held(State, {}), SaveExpected(path, text, expected, faulty, answer)
  PROVE  Held(State, {})'
  <1>1. Held(State, {None})
    BY HeldMore
  <1>. QED BY <1>1, WritesHeld, FailsHeld DEF SaveExpected

LEMMA SaveAsExpectedHeld ==
  ASSUME SaveConstants, NEW pending, NEW path, NEW text, NEW op, NEW faulty, NEW answer,
         Held(State, {pending}), SaveAsExpected(pending, path, text, op, faulty, answer)
  PROVE  Held(State, {})'
  <1> DEFINE issued == Issued(State, path, text, op, pending)
  <1>1. CASE Fails(Cancelled(State, pending), answer)
    BY <1>1, CancelledHeld, FailsHeld
  <1>2. CASE Writes(State, pending, path, text, 0, faulty, answer)
    BY <1>2, WritesHeld
  <1>3. Held(issued.state, {pending}) /\ (issued.token # None => Held(issued.state, {}))
    <2>1. {pending} \ {pending} = {}
      OBVIOUS
    <2>. QED BY <2>1, IssuedHeld
  <1>4. CASE Fails(Cancelled(issued.state, pending), answer)
    <2> HIDE DEF issued
    <2>. QED BY <1>3, <1>4, CancelledHeld, FailsHeld
  <1>5. CASE issued.token # None /\ Becomes(issued.state)
    <2> HIDE DEF issued
    <2>. QED BY <1>3, <1>5, BecomesHeld
  <1>. QED BY <1>1, <1>2, <1>4, <1>5 DEF SaveAsExpected

\* The token that is retried is the only one of its number: no other goes with it.
LEMMA RetryHeld ==
  ASSUME SaveConstants, NEW token, NEW path, NEW text, NEW op, NEW faulty, NEW answer,
         Held(State, {}), Retry(token, path, text, op, faulty, answer)
  PROVE  Held(State, {})'
  <1> DEFINE held == {t \in tokens : t.id = token}
             t == CHOOSE u \in held : TRUE
             kept == {u \in State.tokens : u.id # token}
             s == Taken(State, token)
  <1>1. CASE held = {}
    BY <1>1, FailsHeld DEF Retry
  <1>2. CASE held # {}
    <2>1. t \in held
      BY <1>2
    <2>2. kept \subseteq State.tokens /\ \A u \in State.tokens \ kept : u.pending \in {t.pending}
      <3>1. State.tokens = tokens
        BY DEF State
      <3>2. \A u \in State.tokens \ kept : u = t
        BY <2>1, <3>1 DEF Held, Numbered
      <3>. QED BY <3>2
    <2>3. Held([State EXCEPT !.tokens = kept], {} \cup {t.pending})
      <3> HIDE DEF kept, t
      <3>. QED BY <2>2, WithoutHeld
    <2>4. s = [State EXCEPT !.tokens = kept]
      BY DEF Taken
    <2>5. Held(s, {t.pending})
      <3> HIDE DEF kept, t, s
      <3>. QED BY <2>3, <2>4, HeldMore
    <2>6. \/ Writes(s, t.pending, path, text, t.version, faulty, answer)
          \/ Fails(Cancelled(s, t.pending), answer)
      BY <1>2 DEF Retry
    <2> HIDE DEF s, t
    <2>. QED BY <2>5, <2>6, WritesHeld, CancelledHeld, FailsHeld
  <1>. QED BY <1>1, <1>2

(***************************************************************************)
(* The queue.                                                              *)
(***************************************************************************)
LEMMA OperationOK ==
  ASSUME NEW kind, NEW rest, kind = "save as" => "pending" \in DOMAIN rest
  PROVE  OpOK(Operation(kind, rest))
  BY DEF Operation, OpOK

LEMMA ExceptOK ==
  ASSUME NEW o, OpOK(o), NEW f, f # "kind", NEW v
  PROVE  LET new == [o EXCEPT ![f] = v]
         IN  /\ OpOK(new) /\ new.kind = o.kind
             /\ f \in DOMAIN o => new[f] = v
             /\ \A g \in DOMAIN o \ {f} : new[g] = o[g]
             /\ DOMAIN new = DOMAIN o
  BY DEF OpOK

LEMMA StagedOK ==
  ASSUME QueueOK, queue # <<>>, NEW new, OpOK(new), Stage(new)
  PROVE  QueueOK' /\ queue' # <<>> /\ Op' = new
  <1> DEFINE S == {queue[i] : i \in DOMAIN queue} \cup {new}
  <1>1. queue \in Seq(S) /\ Len(queue) \in Nat \ {0}
    BY DEF QueueOK
  <1>2. <<new>> \in Seq(S) /\ Tail(queue) \in Seq(S)
    BY <1>1
  <1>3. /\ queue' \in Seq(S) /\ Len(queue') = Len(queue)
        /\ \A i \in 1 .. Len(queue) : queue'[i] = IF i = 1 THEN new ELSE queue[i]
    BY <1>1, <1>2 DEF Stage
  <1>4. \A i \in DOMAIN queue' : OpOK(queue'[i])
    BY <1>1, <1>3 DEF QueueOK
  <1>. QED BY <1>1, <1>3, <1>4 DEF QueueOK, Op

LEMMA DoneOK ==
  ASSUME QueueOK, queue # <<>>, Done
  PROVE  QueueOK'
  <1> DEFINE S == {queue[i] : i \in DOMAIN queue}
  <1>1. queue \in Seq(S) /\ Len(queue) \in Nat \ {0}
    BY DEF QueueOK
  <1>2. /\ queue' \in Seq(S) /\ Len(queue') = Len(queue) - 1
        /\ \A i \in 1 .. Len(queue') : queue'[i] = queue[i + 1]
    BY <1>1 DEF Done
  <1>3. \A i \in DOMAIN queue' : OpOK(queue'[i])
    BY <1>1, <1>2 DEF QueueOK
  <1>. QED BY <1>2, <1>3 DEF QueueOK

LEMMA AppendOK ==
  ASSUME QueueOK, NEW o, OpOK(o), queue' = Append(queue, o)
  PROVE  QueueOK' /\ (queue # <<>> => Op' = Op)
  <1> DEFINE S == {queue[i] : i \in DOMAIN queue} \cup {o}
  <1>1. queue \in Seq(S) /\ o \in S
    BY DEF QueueOK
  <1>2. /\ queue' \in Seq(S) /\ Len(queue') = Len(queue) + 1
        /\ \A i \in 1 .. Len(queue') : queue'[i] = IF i = Len(queue) + 1 THEN o ELSE queue[i]
    BY <1>1
  <1>3. \A i \in DOMAIN queue' : OpOK(queue'[i])
    BY <1>1, <1>2 DEF QueueOK
  <1>4. queue # <<>> => Op' = Op
    BY <1>1, <1>2 DEF Op
  <1>. QED BY <1>2, <1>3, <1>4 DEF QueueOK

Entries(q) == {q[i] : i \in DOMAIN q}
LEMMA OwnElements ==
  ASSUME NEW S, NEW q, q \in Seq(S) PROVE q \in Seq(Entries(q))
  <1>1. /\ Len(q) \in Nat /\ DOMAIN q = 1 .. Len(q)
        /\ q = [i \in 1 .. Len(q) |-> q[i]]
    OBVIOUS
  <1>2. \A i \in 1 .. Len(q) : q[i] \in {q[j] : j \in DOMAIN q}
    BY <1>1
  <1>. QED BY <1>1, <1>2 DEF Entries

LEMMA TailAppendOK ==
  ASSUME QueueOK, queue # <<>>, NEW o, OpOK(o), queue' = Append(Tail(queue), o)
  PROVE  QueueOK'
  <1> DEFINE S == {queue[i] : i \in DOMAIN queue} \cup {o}
             n == Len(queue)
             rest == Tail(queue)
  <1>1. queue \in Seq(S) /\ n \in Nat \ {0} /\ o \in S
    BY DEF QueueOK
  <1>2. rest \in Seq(S) /\ Len(rest) = n - 1 /\ \A i \in 1 .. n - 1 : rest[i] = queue[i + 1]
    BY <1>1
  <1>3. \A i \in 1 .. n - 1 : OpOK(rest[i])
    <2>1. \A i \in 1 .. n - 1 : i + 1 \in DOMAIN queue
      BY <1>1
    <2>. QED BY <1>2, <2>1 DEF QueueOK
  <1>4. queue' = Append(rest, o)
    OBVIOUS
  <1> HIDE DEF S, n, rest
  <1>5. /\ queue' \in Seq(S) /\ Len(queue') = n
        /\ \A i \in 1 .. n : queue'[i] = IF i = n THEN o ELSE rest[i]
    BY <1>1, <1>2, <1>4
  <1>6. \A i \in DOMAIN queue' : OpOK(queue'[i])
    BY <1>1, <1>3, <1>5
  <1>7. queue' \in Seq({queue'[i] : i \in DOMAIN queue'})
    <2>1. queue' \in Seq(Entries(queue'))
      BY <1>5, OwnElements
    <2>. QED BY <2>1 DEF Entries
  <1>. QED BY <1>6, <1>7 DEF QueueOK

LEMMA HeadIs ==
  ASSUME QueueOK, queue # <<>> PROVE 1 \in DOMAIN queue /\ Op = queue[1]
  <1>1. Len(queue) \in Nat \ {0}
    BY DEF QueueOK
  <1>. QED BY <1>1 DEF QueueOK, Op

LEMMA HeadOK == ASSUME QueueOK, queue # <<>> PROVE OpOK(Op)
  BY HeadIs DEF QueueOK

\* An operation that has its answer, or moves on, is what it was but for that.
LEMMA AnsweredOK ==
  ASSUME QueueOK, queue # <<>>, NEW answer, Answered(answer)
  PROVE  QueueOK'
  <1> DEFINE o == [Op EXCEPT !.stage = "answered"]
             new == [o EXCEPT !.answer = answer]
  <1>1. OpOK(o)
    BY HeadOK, ExceptOK
  <1>2. OpOK(new)
    <2> HIDE DEF o
    <2>. QED BY <1>1, ExceptOK
  <1>3. Stage(new)
    BY DEF Answered
  <1> HIDE DEF new
  <1>. QED BY <1>2, <1>3, StagedOK

(***************************************************************************)
(* Steps, by what they do to tokens and queue.                             *)
(***************************************************************************)
LEMMA Parts == HeldInv <=> QueueOK /\ Held(State, Waiting)
  BY DEF HeldInv

\* Whoever waits after the step, nothing is held by the queue alone.
LEMMA FreeStep ==
  ASSUME QueueOK', Held(State, {})' PROVE HeldInv'
  <1>1. Held(State', {})
    BY DEF Held
  <1>2. Held(State', Waiting')
    BY <1>1, HeldMore
  <1>. QED BY <1>2 DEF HeldInv

LEMMA SameStore ==
  ASSUME NEW held, Held(State, held), UNCHANGED store PROVE Held(State, held)'
  BY DEF store, State

\* The running operation does not hold a reservation itself.
LEMMA NotHolding ==
  ASSUME HeldInv, ~Holding PROVE Held(State, {})
  BY DEF HeldInv, Waiting

LEMMA AskedStep ==
  ASSUME HeldInv, NEW o, OpOK(o), queue' = Append(queue, o), UNCHANGED store PROVE HeldInv'
  <1>1. QueueOK' /\ (queue # <<>> => Op' = Op)
    BY AppendOK DEF HeldInv
  <1>2. CASE queue = <<>>
    BY <1>1, <1>2, NotHolding, SameStore, FreeStep DEF Holding
  <1>3. CASE queue # <<>>
    <2>1. queue' # <<>>
      BY <1>3 DEF HeldInv, QueueOK
    <2>2. Waiting' = Waiting
      BY <1>1, <1>3, <2>1 DEF Waiting, Holding
    <2>3. State' = State
      BY DEF store, State
    <2>. QED BY <1>1, <2>2, <2>3 DEF HeldInv
  <1>. QED BY <1>2, <1>3

\* The queue stays as it is, whatever becomes of the tokens.
LEMMA SameQueue ==
  ASSUME HeldInv, NEW s, Held(s, Waiting), Becomes(s), UNCHANGED queue PROVE HeldInv'
  <1>1. State' = s
    BY DEF Held, IsState, Becomes, State
  <1>2. QueueOK' /\ Waiting' = Waiting
    BY DEF HeldInv, QueueOK, Waiting, Holding, Op
  <1>. QED BY <1>1, <1>2 DEF HeldInv

LEMMA Unchanged ==
  ASSUME HeldInv, UNCHANGED <<store, queue>> PROVE HeldInv'
  <1>1. Becomes(State)
    BY DEF Becomes, State, store
  <1>. QED BY <1>1, SameQueue DEF HeldInv

\* The running operation ends; it held nothing itself.
LEMMA DoneStep ==
  ASSUME HeldInv, ~Holding, queue # <<>>, Done, NEW s, Held(s, {}), Becomes(s) PROVE HeldInv'
  BY DoneOK, BecomesHeld, FreeStep DEF HeldInv

LEMMA AnsweredStep ==
  ASSUME HeldInv, queue # <<>>, NEW answer, Answered(answer), Held(State, {})' PROVE HeldInv'
  BY AnsweredOK, FreeStep DEF HeldInv

LEMMA DropTokenHeld ==
  ASSUME NEW held, Held(State, held) PROVE Held(DropToken(State), held)
  BY CancelTokenHeld DEF DropToken

(***************************************************************************)
(* The actions.                                                            *)
(***************************************************************************)
LEMMA HeldInit == Init => HeldInv
  <1> SUFFICES ASSUME Init PROVE HeldInv
    OBVIOUS
  <1>1. tokens = {} /\ reserved = {} /\ generation = 1 /\ serial = 0 /\ queue = <<>>
    BY DEF Init
  <1>2. QueueOK
    BY <1>1 DEF QueueOK
  <1>3. Held(State, Waiting)
    BY <1>1 DEF Held, IsState, Numbered, State
  <1>. QED BY <1>2, <1>3 DEF HeldInv

LEMMA ClickedIs ==
  ASSUME NEW c, NEW q
  PROVE  \/ Clicked(c, q).queue = q
         \/ Clicked(c, q).queue = Append(q, Operation("overwrite", [pending |-> c, token |-> c.token]))
  BY DEF Clicked

LEMMA SaveRequested == HeldInv /\ (Save \/ SaveAs) => HeldInv'
  <1> SUFFICES ASSUME HeldInv, Save \/ SaveAs PROVE HeldInv'
    OBVIOUS
  <1>1. "pending" \in DOMAIN SaveRequest
    BY DEF SaveRequest
  <1>2. OpOK(Operation("save", SaveRequest)) /\ OpOK(Operation("save as", SaveRequest))
    BY <1>1, OperationOK
  <1>3. UNCHANGED store
    BY DEF Save, SaveAs, backend, store
  <1>. QED BY <1>2, <1>3, AskedStep DEF Save, SaveAs, Ask

LEMMA UserStep == HeldInv /\ User => HeldInv'
  <1> SUFFICES ASSUME HeldInv, User PROVE HeldInv'
    OBVIOUS
  <1>1. CASE Type \/ New \/ CloseDeletedDraft
    <2>1. UNCHANGED <<store, queue>>
      BY <1>1 DEF Type, New, CloseDeletedDraft, backend, store
    <2>. QED BY <2>1, Unchanged
  <1>2. CASE Save \/ SaveAs
    BY <1>2, SaveRequested
  <1>3. CASE Open
    <2>1. PICK p \in Paths : Ask(Operation("open", [path |-> p, gen |-> doc.gen])) /\ UNCHANGED backend
      BY <1>3 DEF Open
    <2>2. OpOK(Operation("open", [path |-> p, gen |-> doc.gen]))
      BY OperationOK
    <2>3. UNCHANGED store
      BY <2>1 DEF backend, store
    <2>. QED BY <2>1, <2>2, <2>3, AskedStep DEF Ask
  <1>4. CASE Overwrite
    <2> DEFINE o == Operation("overwrite", [pending |-> conflict, token |-> conflict.token])
    <2>1. OpOK(o)
      BY OperationOK
    <2>2. queue' = queue \/ queue' = Append(queue, o)
      BY <1>4, ClickedIs DEF Overwrite
    <2>3. UNCHANGED store
      BY <1>4 DEF Overwrite, backend, store
    <2> HIDE DEF o
    <2>. QED BY <2>1, <2>2, <2>3, AskedStep, Unchanged
  <1>5. CASE CancelConflict
    <2>1. Held(DropToken(State), Waiting)
      BY DropTokenHeld DEF HeldInv
    <2>. QED BY <1>5, <2>1, SameQueue DEF CancelConflict
  <1>6. CASE Resolve
    <2>1. PICK choice \in {"keep", "use"} :
            /\ Ask(Operation("resolve", [op |-> left["clicks"], choice |-> choice,
                                         watch |-> accepted.for, gen |-> accepted.gen]))
            /\ UNCHANGED backend
      BY <1>6 DEF Resolve
    <2> DEFINE o == Operation("resolve", [op |-> left["clicks"], choice |-> choice,
                                         watch |-> accepted.for, gen |-> accepted.gen])
    <2>2. OpOK(o)
      BY OperationOK
    <2>3. UNCHANGED store
      BY <2>1 DEF backend, store
    <2> HIDE DEF o
    <2>. QED BY <2>1, <2>2, <2>3, AskedStep DEF Ask, o
  <1>. QED BY <1>1, <1>2, <1>3, <1>4, <1>5, <1>6 DEF User

LEMMA ReserveHeld ==
  ASSUME NEW held, Held(State, held), NEW p \in Paths, Reserve(p)
  PROVE  Held(State', {Reservation(p)})
  <1>1. /\ tokens' = tokens /\ reserved' = {Reservation(p)} /\ generation' = generation + 1
        /\ serial' = serial + 1
    BY DEF Reserve, Becomes, State
  <1>2. /\ serial \in Nat /\ generation \in Nat
        /\ \A t \in tokens : TokenOK(t) /\ t.id \in Nat /\ t.id <= serial
        /\ \A t, u \in tokens : t.id = u.id => t = u
    BY DEF Held, State, Numbered
  <1>3. serial + 1 \in Nat /\ generation + 1 \in Nat /\ \A t \in tokens : t.id <= serial + 1
    BY <1>2
  <1>4. Reservation(p) \in Reservations
    BY <1>3 DEF Reservation, Reservations
  <1>5. IsState(State')
    BY DEF IsState, State
  <1>6. /\ State'.tokens = tokens /\ State'.reserved = {Reservation(p)}
        /\ State'.generation = generation + 1 /\ State'.serial = serial + 1
    BY <1>1 DEF State
  <1>7. Numbered(State')
    BY <1>2, <1>3, <1>6 DEF Numbered
  <1>. QED BY <1>4, <1>5, <1>6, <1>7 DEF Held

\* The user accepts a path: the one reservation is this operation's.
LEMMA AcceptStep ==
  ASSUME HeldInv, Running("save as", "asked"), NEW p \in Paths, Accept(p) PROVE HeldInv'
  <1> DEFINE o1 == [Op EXCEPT !.path = p]
             o2 == [o1 EXCEPT !.pending = Reservation(p)]
             stage == IF disk[p] = Missing THEN "create" ELSE "issue"
             new == [o2 EXCEPT !.stage = stage]
  <1>1. QueueOK /\ queue # <<>> /\ Op.kind = "save as" /\ OpOK(Op)
    BY HeadOK DEF HeldInv, Running
  <1>2. OpOK(o1) /\ o1.kind = "save as"
    BY <1>1 DEF OpOK
  <1>3. OpOK(o2) /\ o2.kind = "save as" /\ o2.pending = Reservation(p)
    <2> HIDE DEF o1
    <2>. QED BY <1>2, ExceptOK DEF OpOK
  <1>4. OpOK(new) /\ new.kind = "save as" /\ new.pending = Reservation(p) /\ new.stage = stage
    <2> HIDE DEF o2, stage
    <2>. QED BY <1>3, ExceptOK DEF OpOK
  <1>5. Stage(new)
    BY DEF Accept
  <1>6. QueueOK' /\ queue' # <<>> /\ Op' = new
    <2> HIDE DEF new
    <2>. QED BY <1>1, <1>4, <1>5, StagedOK
  <1>7. Waiting' = {Reservation(p)}
    <2> HIDE DEF new
    <2>. QED BY <1>4, <1>6 DEF Waiting, Holding
  <1>8. Held(State', {Reservation(p)})
    <2> HIDE DEF new
    <2>. QED BY ReserveHeld DEF Accept, HeldInv
  <1>. QED BY <1>6, <1>7, <1>8 DEF HeldInv

LEMMA RunSaveAsStep ==
  ASSUME SaveConstants, HeldInv, RunSaveAs PROVE HeldInv'
  <1>1. PICK a \in Outcomes(Op.path) :
          /\ IF Op.stage = "create"
               THEN SaveAsExpected(Op.pending, Op.path, Op.text, Op.op, left["faults"] > 0, a)
               ELSE Retry(Op.answer, Op.path, Op.text, Op.op, left["faults"] > 0, a)
          /\ Answered(a)
    BY DEF RunSaveAs
  <1>2. queue # <<>> /\ Op.kind = "save as" /\ Op.stage \in {"replace", "create"}
    BY DEF RunSaveAs, Running
  <1>3. Held(State, {})'
    <2>1. CASE Op.stage = "create"
      <3>1. Held(State, {Op.pending})
        BY <1>2, <2>1 DEF HeldInv, Waiting, Holding
      <3>. QED BY <1>1, <2>1, <3>1, SaveAsExpectedHeld
    <2>2. CASE Op.stage = "replace"
      <3>1. Held(State, {})
        BY <2>2, NotHolding DEF Holding
      <3>. QED BY <1>1, <2>2, <3>1, RetryHeld
    <2>. QED BY <1>2, <2>1, <2>2
  <1>. QED BY <1>1, <1>2, <1>3, AnsweredStep

LEMMA RunIssueStep ==
  ASSUME SaveConstants, HeldInv, RunIssue PROVE HeldInv'
  <1> DEFINE issued == IssueToken(Op.path, Op.text, Op.op, Op.pending)
             o == [Op EXCEPT !.stage = "replace"]
             new == [o EXCEPT !.answer = issued.token.id]
  <1>1. queue # <<>> /\ QueueOK /\ Held(State, {Op.pending})
    BY DEF RunIssue, Running, HeldInv, Waiting, Holding
  <1>2. Held(issued.state, {Op.pending}) /\ (issued.token # None => Held(issued.state, {}))
    BY <1>1, IssueTokenHeld
  <1>3. \/ Becomes(Cancelled(issued.state, Op.pending)) /\ Answered(Refused)
        \/ issued.token # None /\ Becomes(issued.state) /\ Stage(new)
    BY DEF RunIssue
  <1>4. OpOK(o)
    BY <1>1, HeadOK, ExceptOK
  <1>5. OpOK(new)
    <2> HIDE DEF o, issued
    <2>. QED BY <1>4, ExceptOK
  <1> HIDE DEF issued, new
  <1>6. CASE Becomes(Cancelled(issued.state, Op.pending)) /\ Answered(Refused)
    BY <1>1, <1>2, <1>6, CancelledHeld, BecomesHeld, AnsweredStep
  <1>7. CASE issued.token # None /\ Becomes(issued.state) /\ Stage(new)
    BY <1>1, <1>2, <1>5, <1>7, BecomesHeld, StagedOK, FreeStep
  <1>. QED BY <1>3, <1>6, <1>7

LEMMA RunOverwriteIssueStep ==
  ASSUME SaveConstants, HeldInv, RunOverwriteIssue PROVE HeldInv'
  <1> DEFINE c == Op.pending
             issued == IssueToken(c.path, c.text, c.op, None)
             o == [Op EXCEPT !.stage = "retry"]
             new == [o EXCEPT !.token = issued.token.id]
  <1>1. queue # <<>> /\ QueueOK /\ Held(State, {})
    BY NotHolding DEF RunOverwriteIssue, Running, HeldInv, Holding
  <1>2. Held(issued.state, {})
    <2>1. Held(State, {None})
      BY <1>1, HeldMore
    <2>2. Held(issued.state, {None})
      BY <2>1, IssueTokenHeld
    <2> HIDE DEF issued
    <2>3. Held(issued.state, {} \cup {None})
      BY <2>2, HeldMore
    <2>. QED BY <2>3, HeldNone
  <1>3. \/ Stage(o) /\ UNCHANGED store
        \/ Becomes(issued.state) /\ Answered(Refused)
        \/ Becomes(issued.state) /\ Stage(new)
    BY DEF RunOverwriteIssue
  <1>4. OpOK(o)
    BY <1>1, HeadOK, ExceptOK
  <1>5. OpOK(new)
    <2> HIDE DEF o, issued
    <2>. QED BY <1>4, ExceptOK
  <1> HIDE DEF issued, new, o
  <1>. QED BY <1>1, <1>2, <1>3, <1>4, <1>5, BecomesHeld, SameStore, StagedOK, FreeStep, AnsweredStep

LEMMA RunsStep == SaveConstants /\ HeldInv /\ Runs => HeldInv'
  <1> SUFFICES ASSUME SaveConstants, HeldInv, Runs PROVE HeldInv'
    OBVIOUS
  <1>1. CASE RunSave
    <2>1. PICK a \in Outcomes(Op.path) :
            SaveExpected(Op.path, Op.text, Op.expected, left["faults"] > 0, a) /\ Answered(a)
      BY <1>1 DEF RunSave
    <2>2. queue # <<>> /\ Held(State, {})
      BY <1>1, NotHolding DEF RunSave, Running, Holding
    <2>. QED BY <2>1, <2>2, SaveExpectedHeld, AnsweredStep
  <1>2. CASE RunDialog
    <2>1. Running("save as", "asked") /\ queue # <<>> /\ Held(State, {})
      BY <1>2, NotHolding DEF RunDialog, Running, Holding
    <2>. QED BY <1>2, <2>1, AcceptStep, SameStore, AnsweredStep DEF RunDialog
  <1>3. CASE RunIssue
    BY <1>3, RunIssueStep
  <1>4. CASE RunSaveAs
    BY <1>4, RunSaveAsStep
  <1>5. CASE RunOverwriteLate
    <2>1. queue # <<>> /\ Held(State, {})
      BY <1>5, NotHolding DEF RunOverwriteLate, Running, Holding
    <2>2. Answered(None) /\ (UNCHANGED store \/ Becomes(CancelToken(State, Op.token)))
      BY <1>5 DEF RunOverwriteLate
    <2>. QED BY <2>1, <2>2, SameStore, CancelTokenHeld, BecomesHeld, AnsweredStep
  <1>6. CASE RunOverwriteIssue
    BY <1>6, RunOverwriteIssueStep
  <1>7. CASE RunOverwrite
    <2>1. PICK a \in Outcomes(Op.pending.path) :
            /\ Retry(Op.token, Op.pending.path, Op.pending.text, Op.pending.op, left["faults"] > 0, a)
            /\ Answered(a)
      BY <1>7 DEF RunOverwrite
    <2>2. queue # <<>> /\ Held(State, {})
      BY <1>7, NotHolding DEF RunOverwrite, Running, Holding
    <2>. QED BY <2>1, <2>2, RetryHeld, AnsweredStep
  <1>8. CASE RunResolve
    <2>1. queue # <<>> /\ Held(State, {}) /\ UNCHANGED store
      BY <1>8, NotHolding DEF RunResolve, Running, Holding, backend, store
    <2>2. \E answer : Answered(answer)
      BY <1>8 DEF RunResolve
    <2>. QED BY <2>1, <2>2, SameStore, AnsweredStep
  <1>9. CASE RunOpen
    <2>1. queue # <<>> /\ Held(State, {})
      BY <1>9, NotHolding DEF RunOpen, Running, Holding
    <2>2. \E answer : Answered(answer)
      BY <1>9 DEF RunOpen
    <2>3. UNCHANGED <<tokens, reserved, serial>> /\ generation' \in {generation, generation + 1}
      BY <1>9 DEF RunOpen
    <2>4. Held(State, {})'
      BY <2>1, <2>3 DEF Held, IsState, Numbered, State
    <2>. QED BY <2>1, <2>2, <2>4, AnsweredStep
  <1>. QED BY <1>1, <1>2, <1>3, <1>4, <1>5, <1>6, <1>7, <1>8, <1>9 DEF Runs

LEMMA AppliesStep == HeldInv /\ Applies => HeldInv'
  <1> SUFFICES ASSUME HeldInv, Applies PROVE HeldInv'
    OBVIOUS
  <1>0. Becomes(State) <=> UNCHANGED store
    BY DEF Becomes, State, store
  <1>1. CASE ApplySave \/ ApplySaveAs \/ ApplyOverwrite \/ ApplyOpen
    <2>1. queue # <<>> /\ Done /\ ~Holding /\ UNCHANGED store
      BY <1>1 DEF ApplySave, ApplySaveAs, ApplyOverwrite, ApplyOpen, Finished, Running, Holding,
                  backend, store
    <2>. QED BY <1>0, <2>1, NotHolding, DoneStep
  <1>2. CASE ApplyEvent \/ ApplyRegister
    <2>1. queue # <<>> /\ Done /\ ~Holding
      BY <1>2 DEF ApplyEvent, ApplyRegister, Holding
    <2>2. Becomes(DropToken(State)) \/ Becomes(State)
      <3>1. CASE UNCHANGED store
        BY <1>0, <3>1
      <3>2. CASE \E event, heard, w : Decide(event, heard, w)
        BY <3>2 DEF Decide
      <3>. QED BY <1>2, <3>1, <3>2 DEF ApplyEvent, ApplyRegister, store
    <2>. QED BY <2>1, <2>2, NotHolding, DropTokenHeld, DoneStep
  <1>3. CASE ApplyResolve
    <2>1. queue # <<>> /\ ~Holding
      BY <1>3 DEF ApplyResolve, Running, Holding
    <2>2. Becomes(DropToken(State)) \/ Becomes(State)
      BY <1>3 DEF ApplyResolve
    <2>3. Held(State, {})'
      BY <2>1, <2>2, NotHolding, DropTokenHeld, BecomesHeld
    <2>4. \/ queue' = Tail(queue)
          \/ \E c : queue' = Append(Tail(queue),
                                    Operation("overwrite", [pending |-> c, token |-> c.token]))
      BY <1>3, ClickedIs DEF ApplyResolve
    <2>5. QueueOK'
      <3>1. CASE queue' = Tail(queue)
        BY <2>1, <3>1, DoneOK DEF Done, HeldInv
      <3>2. ASSUME NEW c, queue' = Append(Tail(queue),
                                 Operation("overwrite", [pending |-> c, token |-> c.token]))
            PROVE  QueueOK'
        <4> DEFINE o == Operation("overwrite", [pending |-> c, token |-> c.token])
        <4>1. OpOK(o)
          BY OperationOK
        <4> HIDE DEF o
        <4>. QED BY <2>1, <3>2, <4>1, TailAppendOK DEF HeldInv, o
      <3>. QED BY <2>4, <3>1, <3>2
    <2>. QED BY <2>3, <2>5, FreeStep
  <1>. QED BY <1>1, <1>2, <1>3 DEF Applies

LEMMA WatchesStep == HeldInv /\ Watches => HeldInv'
  <1> SUFFICES ASSUME HeldInv, Watches PROVE HeldInv'
    OBVIOUS
  <1>1. UNCHANGED store
    BY DEF Watches, WatchRuns, Deliver, Rewatch, backend, store
  <1>2. \/ UNCHANGED queue
        \/ \E kind \in {"event", "register"} : \E e : queue' = Append(queue, Operation(kind, [event |-> e]))
    BY DEF Watches, WatchRuns, Deliver, Rewatch, session
  <1>3. CASE UNCHANGED queue
    BY <1>1, <1>3, Unchanged
  <1>4. ASSUME NEW kind \in {"event", "register"}, NEW e,
               queue' = Append(queue, Operation(kind, [event |-> e]))
        PROVE  HeldInv'
    <2> DEFINE o == Operation(kind, [event |-> e])
    <2>1. OpOK(o)
      BY OperationOK
    <2> HIDE DEF o
    <2>. QED BY <1>1, <1>4, <2>1, AskedStep DEF o
  <1>. QED BY <1>2, <1>3, <1>4

LEMMA LateToken ==
  ASSUME NEW t, TokenOK(t), NEW b
  PROVE  LET u == [t EXCEPT !.expired = b] IN TokenOK(u) /\ u.id = t.id /\ u.pending = t.pending
  <1> DEFINE u == [t EXCEPT !.expired = b]
             n == [id |-> t.id, path |-> t.path, version |-> t.version, text |-> t.text,
                   op |-> t.op, generation |-> t.generation, pending |-> t.pending, expired |-> b]
  <1>1. u = n
    BY DEF TokenOK
  <1>2. TokenOK(n) /\ n.id = t.id /\ n.pending = t.pending
    BY DEF TokenOK
  <1> HIDE DEF u, n
  <1>. QED BY <1>1, <1>2 DEF u

LEMMA ExpireHeld ==
  ASSUME NEW held, Held(State, held), Expire PROVE Held(State', held)
  <1>1. PICK t \in tokens : /\ tokens' = (tokens \ {t}) \cup {[t EXCEPT !.expired = TRUE]}
                            /\ UNCHANGED <<reserved, generation, serial>>
    BY DEF Expire
  <1> DEFINE u == [t EXCEPT !.expired = TRUE]
  <1>2. /\ serial \in Nat /\ generation \in Nat
        /\ \A x \in tokens : TokenOK(x) /\ x.id \in Nat /\ x.id <= serial
        /\ \A x, y \in tokens : x.id = y.id => x = y
        /\ reserved \subseteq Reservations
        /\ \A q \in reserved : q \in held \/ \E x \in tokens : x.pending = q
    BY DEF Held, State, Numbered
  <1>3. TokenOK(u) /\ u.id = t.id /\ u.pending = t.pending
    BY <1>2, LateToken
  <1> HIDE DEF u
  <1>4. tokens' = (tokens \ {t}) \cup {u}
    BY <1>1 DEF u
  <1>5. /\ \A x \in tokens' : TokenOK(x) /\ x.id \in Nat /\ x.id <= serial
        /\ \A x, y \in tokens' : x.id = y.id => x = y
    BY <1>2, <1>3, <1>4
  <1>6. \A q \in reserved : q \in held \/ \E x \in tokens' : x.pending = q
    BY <1>2, <1>3, <1>4
  <1>7. IsState(State')
    BY DEF IsState, State
  <1>8. /\ State'.tokens = tokens' /\ State'.reserved = reserved /\ State'.generation = generation
        /\ State'.serial = serial
    BY <1>1 DEF State
  <1>9. Numbered(State')
    BY <1>2, <1>5, <1>8 DEF Numbered
  <1>. QED BY <1>2, <1>6, <1>7, <1>8, <1>9 DEF Held

LEMMA ElsewhereHeld ==
  ASSUME NEW held, Held(State, held), Elsewhere PROVE Held(State', held)
  <1>1. generation' = generation + 1 /\ UNCHANGED <<tokens, reserved, serial>>
    BY DEF Elsewhere
  <1>2. generation \in Nat
    BY DEF Held, State, Numbered
  <1>3. generation + 1 \in Nat
    BY <1>2
  <1>. QED BY <1>1, <1>3 DEF Held, IsState, Numbered, State

LEMMA OutsideStep == HeldInv /\ (Foreign \/ OtherCommand \/ TokenExpires) => HeldInv'
  <1> SUFFICES ASSUME HeldInv, Foreign \/ OtherCommand \/ TokenExpires PROVE HeldInv'
    OBVIOUS
  <1>1. UNCHANGED queue
    BY DEF Foreign, OtherCommand, TokenExpires, session
  <1>2. QueueOK' /\ Waiting' = Waiting
    BY <1>1 DEF HeldInv, QueueOK, Waiting, Holding, Op
  <1>3. CASE Foreign
    <2>1. UNCHANGED store
      BY <1>3 DEF Foreign, ForeignWrite, ForeignRemove, store
    <2>. QED BY <1>1, <2>1, Unchanged
  <1>4. CASE OtherCommand
    BY <1>2, <1>4, ElsewhereHeld DEF OtherCommand, HeldInv
  <1>5. CASE TokenExpires
    BY <1>2, <1>5, ExpireHeld DEF TokenExpires, HeldInv
  <1>. QED BY <1>3, <1>4, <1>5

LEMMA HeldStep == SaveConstants /\ HeldInv /\ [Next]_vars => HeldInv'
  <1> SUFFICES ASSUME SaveConstants, HeldInv, [Next]_vars PROVE HeldInv'
    OBVIOUS
  <1>1. CASE UNCHANGED vars
    BY <1>1, Unchanged DEF vars, backend, session, store
  <1>. QED BY <1>1, UserStep, RunsStep, AppliesStep, WatchesStep, OutsideStep DEF Next

LEMMA HeldMeans == HeldInv => ReservationsAreHeld
  <1> SUFFICES ASSUME HeldInv, NEW q \in reserved
               PROVE  \/ \E t \in tokens : t.pending = q
                      \/ \E i \in DOMAIN queue : queue[i].kind = "save as" /\ queue[i].pending = q
    BY DEF ReservationsAreHeld
  <1>1. q \in Waiting \/ \E t \in tokens : t.pending = q
    BY DEF HeldInv, Held, State
  <1>2. CASE q \in Waiting
    <2>1. queue # <<>> /\ Op.kind = "save as" /\ Op.pending = q
      BY <1>2 DEF Waiting, Holding
    <2>2. 1 \in DOMAIN queue /\ Op = queue[1]
      BY <2>1, HeadIs DEF HeldInv
    <2>. QED BY <2>1, <2>2
  <1>. QED BY <1>1, <1>2

(***************************************************************************)
(* A reservation of authority for a save-as is held by a save-as that is     *)
(* under way or by a token, whatever expires, is evicted, refused or         *)
(* cancelled on the way (document_save.rs, path_auth.rs).                    *)
(***************************************************************************)
THEOREM HeldCorrect == Spec => []ReservationsAreHeld
  <1>1. HeldInv /\ [Next]_vars => HeldInv'
    BY HeldStep, SaveAssumption
  <1>. QED BY <1>1, HeldInit, HeldMeans, PTL DEF Spec

(***************************************************************************)
(* Saves rest on what was seen. A text fits a version of a path if the file, *)
(* should it have that version, holds that text. Numbers of versions do not  *)
(* come back, so what fits fits for good (d and c: disk and clock), whatever *)
(* any program writes next.                                                  *)
(***************************************************************************)
DiskOK(d, c) ==
  c \in Nat /\ d = [p \in Paths |-> d[p]] /\ \A p \in Paths : d[p].version \in 0 .. c
Fits(d, c, p, v, t) ==
  p \in Paths => v \in 0 .. c /\ (v # 0 /\ d[p].version = v => d[p].text = t)
Grows(d, c, d2, c2) ==
  DiskOK(d2, c2) /\ \A p, v, t : Fits(d, c, p, v, t) => Fits(d2, c2, p, v, t)

DocFits(d, c, m) ==
  /\ m = [id |-> m.id, path |-> m.path, content |-> m.content, saved |-> m.saved, base |-> m.base,
          gen |-> m.gen, known |-> m.known]
  /\ m.path \in Paths \cup {None} /\ Fits(d, c, m.path, m.base, m.saved)
EventFits(d, c, e) == Fits(d, c, e.watch.path, e.file.version, e.file.text)
DialogOK(x) ==
  /\ {"kind", "path", "source", "busy"} \subseteq DOMAIN x
  /\ IF x.kind = "save as" THEN x.path \in Paths ELSE x.path = x.source

\* What an operation writes, and where.
Writer(o) == o.kind \in {"save", "save as", "overwrite"}
Target(o) == IF o.kind = "overwrite" THEN o.pending.path ELSE o.path
Written(o) == IF o.kind = "overwrite" THEN o.pending.text ELSE o.text
AnswerFits(d, c, o, a) ==
  /\ Writer(o) /\ (o.kind = "save" \/ a # None) /\ a.status = "committed" =>
       a.path = Target(o) /\ Fits(d, c, a.path, a.version, Written(o))
  /\ o.kind = "save as" /\ a # None /\ a.status \in {"committed", "conflict"} => a.path \in Paths
  /\ o.kind = "open" /\ a # Refused => Fits(d, c, o.path, a.version, a.text)
  /\ o.kind = "resolve" /\ a # Refused => EventFits(d, c, a) /\ a.watch = o.watch
Fields(kind) ==
  CASE kind \in {"save", "save as"} -> {"path", "source", "text", "pending"}
    [] kind = "overwrite" -> {"pending", "token"}
    [] kind = "open" -> {"path"}
    [] kind = "resolve" -> {"watch"}
    [] kind \in {"event", "register"} -> {"event"}
OpFits(d, c, o) ==
  /\ o.kind \in {"save", "save as", "overwrite", "open", "resolve", "event", "register"}
  /\ {"kind", "stage", "answer"} \cup Fields(o.kind) \subseteq DOMAIN o
  /\ o.kind = "save" => o.path = o.source
  /\ o.kind = "open" \/ (o.kind = "save as" /\ o.stage \in {"issue", "create", "replace"}) => o.path \in Paths
  /\ o.kind = "overwrite" => DialogOK(o.pending)
  /\ o.kind \in {"event", "register"} => EventFits(d, c, o.event)
  /\ o.stage = "answered" => AnswerFits(d, c, o, o.answer)

\* Only the first operation runs; the document gets no other base below its answer.
QueueFits(d, c, q) ==
  /\ q \in Seq(Entries(q)) /\ \A o \in Entries(q) : OpFits(d, c, o)
  /\ \A i \in DOMAIN q : i # 1 => q[i].stage = "asked"
Choosing(o, m) ==
  /\ o.kind = "resolve" /\ o.stage = "answered" /\ o.answer # Refused
  /\ m.path \in Paths /\ m.path = o.watch.path
Chosen(d, c, q, m) ==
  q # <<>> /\ Choosing(Head(q), m) => Fits(d, c, m.path, m.base, Head(q).answer.file.text)
WireFits(d, c, w) == w \in Seq(Entries(w)) /\ \A e \in Entries(w) : EventFits(d, c, e)
SeenBy(d, c, m, x, q, w) ==
  /\ DiskOK(d, c) /\ DocFits(d, c, m) /\ WireFits(d, c, w)
  /\ x # None => DialogOK(x)
  /\ QueueFits(d, c, q) /\ Chosen(d, c, q, m)
SeenInv == SeenBy(disk, clock, doc, conflict, queue, wire)

(***************************************************************************)
(* The disk.                                                               *)
(***************************************************************************)
LEMMA StillGrows == ASSUME NEW d, NEW c, DiskOK(d, c) PROVE Grows(d, c, d, c)
  BY DEF Grows

LEMMA WriteGrows ==
  ASSUME DiskOK(disk, clock), NEW path, NEW text, Write(path, text)
  PROVE  Grows(disk, clock, disk', clock') /\ Fits(disk', clock', path, clock + 1, text)
  <1>1. /\ clock \in Nat /\ clock' = clock + 1 /\ clock' \in Nat
        /\ \A p \in Paths : disk[p].version \in 0 .. clock
    BY DEF DiskOK, Write
  <1>2. disk' = [p \in Paths |-> IF p = path THEN [text |-> text, version |-> clock + 1] ELSE disk[p]]
    BY DEF DiskOK, Write
  <1>3. \A p \in Paths : IF p = path THEN disk'[p].version = clock + 1 /\ disk'[p].text = text
                         ELSE disk'[p] = disk[p]
    BY <1>2
  <1>4. DiskOK(disk', clock')
    BY <1>1, <1>2, <1>3 DEF DiskOK
  <1>5. ASSUME NEW p, NEW v, NEW t, Fits(disk, clock, p, v, t) PROVE Fits(disk', clock', p, v, t)
    BY <1>1, <1>3, <1>5 DEF Fits
  <1>. QED BY <1>1, <1>3, <1>4, <1>5 DEF Grows, Fits

LEMMA RemoveGrows ==
  ASSUME DiskOK(disk, clock), ForeignRemove
  PROVE  Grows(disk, clock, disk', clock')
  <1>1. PICK path \in Paths : disk' = [disk EXCEPT ![path] = Missing] /\ clock' = clock
    BY DEF ForeignRemove
  <1>2. clock \in Nat /\ \A p \in Paths : disk[p].version \in 0 .. clock
    BY DEF DiskOK
  <1>3. disk' = [p \in Paths |-> IF p = path THEN Missing ELSE disk[p]] /\ Missing.version = 0
    BY <1>1 DEF DiskOK, Missing
  <1>4. DiskOK(disk', clock')
    BY <1>1, <1>2, <1>3 DEF DiskOK
  <1>5. ASSUME NEW p, NEW v, NEW t, Fits(disk, clock, p, v, t) PROVE Fits(disk', clock', p, v, t)
    BY <1>1, <1>2, <1>3, <1>5 DEF Fits
  <1>. QED BY <1>4, <1>5 DEF Grows

\* What is read now fits any version there has been.
LEMMA ReadFits ==
  ASSUME NEW d, NEW c, DiskOK(d, c), NEW p
  PROVE  /\ Fits(d, c, p, d[p].version, d[p].text)
         /\ \A v \in 0 .. c : Fits(d, c, p, v, d[p].text)
  BY DEF DiskOK, Fits

LEMMA AnswerGrows ==
  ASSUME NEW d, NEW c, NEW d2, NEW c2, Grows(d, c, d2, c2), NEW o, NEW a, AnswerFits(d, c, o, a)
  PROVE  AnswerFits(d2, c2, o, a)
  BY DEF AnswerFits, EventFits, Grows

LEMMA OpGrows ==
  ASSUME NEW d, NEW c, NEW d2, NEW c2, Grows(d, c, d2, c2), NEW o, OpFits(d, c, o)
  PROVE  OpFits(d2, c2, o)
  <1>1. EventFits(d, c, o.event) => EventFits(d2, c2, o.event)
    BY DEF Grows, EventFits
  <1>. QED BY <1>1, AnswerGrows DEF OpFits

LEMMA QueueGrows ==
  ASSUME NEW d, NEW c, NEW d2, NEW c2, Grows(d, c, d2, c2), NEW q, QueueFits(d, c, q)
  PROVE  QueueFits(d2, c2, q)
  BY OpGrows DEF QueueFits

LEMMA RestGrows ==
  ASSUME NEW d, NEW c, NEW d2, NEW c2, Grows(d, c, d2, c2), NEW m, NEW q, NEW w
  PROVE  /\ DocFits(d, c, m) => DocFits(d2, c2, m)
         /\ WireFits(d, c, w) => WireFits(d2, c2, w)
         /\ Chosen(d, c, q, m) => Chosen(d2, c2, q, m)
  BY DEF Grows, DocFits, WireFits, EventFits, Chosen

(***************************************************************************)
(* The calls.                                                              *)
(***************************************************************************)
\* A call writes what it was asked to and says so, or does not say so.
Called(path, text, a) ==
  \/ UNCHANGED <<disk, clock>> /\ a.status # "committed" /\ (a.status = "conflict" => a.path = path)
  \/ /\ Write(path, text) /\ a.status # "conflict"
     /\ a.status = "committed" => a = Answer("committed", path, clock + 1, 0)

LEMMA WritesCalled ==
  ASSUME NEW s, NEW pending, NEW path, NEW text, NEW expected, NEW faulty, NEW a,
         Writes(s, pending, path, text, expected, faulty, a)
  PROVE  Called(path, text, a)
  <1>1. \/ Write(path, text) /\ a = Answer("committed", path, clock + 1, 0)
        \/ UNCHANGED <<disk, clock>> /\ a = Answer("conflict", path, disk[path].version, 0)
        \/ UNCHANGED <<disk, clock>> /\ a \in {Answer("denied", path, 0, 0), Answer("unknown", path, 0, 0)}
        \/ Write(path, text) /\ a = Answer("unknown", path, 0, 0)
    BY DEF Writes, Commit
  <1>. QED BY <1>1 DEF Called, Answer

LEMMA FailsCalled ==
  ASSUME NEW s, NEW path, NEW text, NEW a, Fails(s, a) PROVE Called(path, text, a)
  BY DEF Fails, Called, Refused, Answer

LEMMA SaveCalled ==
  ASSUME NEW path, NEW text, NEW expected, NEW faulty, NEW a,
         SaveExpected(path, text, expected, faulty, a)
  PROVE  Called(path, text, a)
  BY WritesCalled, FailsCalled DEF SaveExpected

LEMMA SaveAsCalled ==
  ASSUME NEW pending, NEW path, NEW text, NEW op, NEW faulty, NEW a,
         SaveAsExpected(pending, path, text, op, faulty, a)
  PROVE  Called(path, text, a)
  <1>1. \/ \E s : Fails(s, a)
        \/ Writes(State, pending, path, text, 0, faulty, a)
        \/ UNCHANGED <<disk, clock>> /\ \E v, t : a = Answer("conflict", path, v, t)
    BY DEF SaveAsExpected
  <1>2. CASE UNCHANGED <<disk, clock>> /\ \E v, t : a = Answer("conflict", path, v, t)
    BY <1>2 DEF Called, Answer
  <1>. QED BY <1>1, <1>2, WritesCalled, FailsCalled

LEMMA RetryCalled ==
  ASSUME NEW token, NEW path, NEW text, NEW op, NEW faulty, NEW a,
         Retry(token, path, text, op, faulty, a)
  PROVE  Called(path, text, a)
  <1>1. \/ \E s : Fails(s, a)
        \/ \E s, t : Writes(s, t.pending, path, text, t.version, faulty, a)
    BY DEF Retry
  <1>. QED BY <1>1, WritesCalled, FailsCalled

LEMMA CalledFits ==
  ASSUME DiskOK(disk, clock), NEW path, NEW text, NEW a, Called(path, text, a)
  PROVE  /\ Grows(disk, clock, disk', clock')
         /\ a.status \in {"committed", "conflict"} => a.path = path
         /\ a.status = "committed" => Fits(disk', clock', path, a.version, text)
  <1>1. CASE UNCHANGED <<disk, clock>> /\ a.status # "committed" /\ (a.status = "conflict" => a.path = path)
    BY <1>1, StillGrows
  <1>2. CASE /\ Write(path, text) /\ a.status # "conflict"
             /\ a.status = "committed" => a = Answer("committed", path, clock + 1, 0)
    BY <1>2, WriteGrows DEF Answer
  <1>. QED BY <1>1, <1>2 DEF Called

(***************************************************************************)
(* The queue.                                                              *)
(***************************************************************************)
LEMMA SeqIs ==
  ASSUME NEW q, q \in Seq(Entries(q))
  PROVE  /\ Len(q) \in Nat /\ DOMAIN q = 1 .. Len(q) /\ (q # <<>> <=> Len(q) > 0)
         /\ q # <<>> => Head(q) = q[1] /\ q[1] \in Entries(q)
  BY DEF Entries

LEMMA AppendFits ==
  ASSUME NEW d, NEW c, NEW q, QueueFits(d, c, q), NEW o, OpFits(d, c, o), o.stage = "asked", NEW m
  PROVE  /\ QueueFits(d, c, Append(q, o))
         /\ Chosen(d, c, q, m) => Chosen(d, c, Append(q, o), m)
  <1> DEFINE r == Append(q, o)
             S == Entries(q) \cup {o}
  <1>1. q \in Seq(S) /\ Len(q) \in Nat /\ DOMAIN q = 1 .. Len(q)
    BY SeqIs DEF QueueFits
  <1>2. /\ r \in Seq(S) /\ Len(r) = Len(q) + 1 /\ DOMAIN r = 1 .. Len(r)
        /\ \A i \in 1 .. Len(r) : r[i] = IF i = Len(q) + 1 THEN o ELSE q[i]
    BY <1>1
  <1> HIDE DEF r
  <1>3. r \in Seq(Entries(r))
    BY <1>2, OwnElements
  <1>4. Entries(r) \subseteq S
    BY <1>1, <1>2 DEF Entries
  <1>5. QueueFits(d, c, r)
    <2>1. \A e \in Entries(r) : OpFits(d, c, e)
      BY <1>4 DEF QueueFits
    <2>2. \A i \in DOMAIN r : i # 1 => r[i].stage = "asked"
      BY <1>1, <1>2 DEF QueueFits
    <2>. QED BY <1>3, <2>1, <2>2 DEF QueueFits
  <1>6. r # <<>> /\ Head(r) = r[1] /\ (q # <<>> => Head(q) = q[1])
    BY <1>2, <1>3, SeqIs DEF QueueFits
  <1>7. Head(r) = IF q = <<>> THEN o ELSE Head(q)
    BY <1>1, <1>2, <1>6
  <1>. QED BY <1>5, <1>7 DEF r, Chosen, Choosing

LEMMA StageFits ==
  ASSUME NEW d, NEW c, NEW q, QueueFits(d, c, q), q # <<>>, NEW o, OpFits(d, c, o)
  PROVE  LET r == <<o>> \o Tail(q)
         IN  QueueFits(d, c, r) /\ r # <<>> /\ Head(r) = o
  <1> DEFINE S == Entries(q) \cup {o}
             tail == Tail(q)
             r == <<o>> \o tail
  <1>1. q \in Seq(S) /\ Len(q) \in Nat /\ DOMAIN q = 1 .. Len(q) /\ Len(q) > 0
    BY SeqIs DEF QueueFits
  <1>2. <<o>> \in Seq(S) /\ tail \in Seq(S)
    BY <1>1
  <1>3. r \in Seq(S) /\ Len(r) = Len(q) /\ DOMAIN r = 1 .. Len(q)
    BY <1>1, <1>2
  <1>4. \A i \in 1 .. Len(q) : r[i] = IF i = 1 THEN o ELSE q[i]
    BY <1>1, <1>2
  <1> HIDE DEF r, tail
  <1>5. r \in Seq(Entries(r)) /\ r # <<>>
    BY <1>1, <1>3, OwnElements
  <1>6. Entries(r) \subseteq S
    BY <1>1, <1>3, <1>4 DEF Entries
  <1>7. QueueFits(d, c, r)
    <2>1. \A e \in Entries(r) : OpFits(d, c, e)
      BY <1>6 DEF QueueFits
    <2>2. \A i \in DOMAIN r : i # 1 => r[i].stage = "asked"
      BY <1>1, <1>3, <1>4 DEF QueueFits
    <2>. QED BY <1>5, <2>1, <2>2 DEF QueueFits
  <1>8. Head(r) = o
    BY <1>1, <1>4, <1>5, SeqIs
  <1>. QED BY <1>5, <1>7, <1>8 DEF r, tail

LEMMA TailFits ==
  ASSUME NEW d, NEW c, NEW q, QueueFits(d, c, q), q # <<>>, NEW m
  PROVE  QueueFits(d, c, Tail(q)) /\ Chosen(d, c, Tail(q), m)
  <1> DEFINE S == Entries(q)
             r == Tail(q)
  <1>1. q \in Seq(S) /\ Len(q) \in Nat /\ DOMAIN q = 1 .. Len(q) /\ Len(q) > 0
    BY SeqIs DEF QueueFits
  <1>2. /\ r \in Seq(S) /\ Len(r) = Len(q) - 1 /\ DOMAIN r = 1 .. Len(q) - 1
        /\ \A i \in 1 .. Len(q) - 1 : r[i] = q[i + 1]
    BY <1>1
  <1> HIDE DEF r
  <1>3. r \in Seq(Entries(r))
    BY <1>2, OwnElements
  <1>4. Entries(r) \subseteq S
    BY <1>1, <1>2 DEF Entries
  <1>5. \A i \in DOMAIN r : r[i].stage = "asked"
    BY <1>1, <1>2 DEF QueueFits
  <1>6. QueueFits(d, c, r)
    <2>1. \A e \in Entries(r) : OpFits(d, c, e)
      BY <1>4 DEF QueueFits
    <2>. QED BY <1>3, <1>5, <2>1 DEF QueueFits
  <1>7. r # <<>> => Head(r).stage = "asked"
    BY <1>2, <1>3, <1>5, SeqIs
  <1>. QED BY <1>6, <1>7 DEF r, Chosen, Choosing

LEMMA HeadFits ==
  ASSUME NEW d, NEW c, NEW q, QueueFits(d, c, q), q # <<>> PROVE OpFits(d, c, Head(q))
  BY SeqIs DEF QueueFits

\* Operations as they are asked for.
LEMMA OverwriteFits ==
  ASSUME NEW d, NEW c, NEW x, DialogOK(x)
  PROVE  LET o == Operation("overwrite", [pending |-> x, token |-> x.token])
         IN  OpFits(d, c, o) /\ o.stage = "asked"
  <1> DEFINE o == Operation("overwrite", [pending |-> x, token |-> x.token])
  <1>1. /\ o.kind = "overwrite" /\ o.stage = "asked" /\ o.pending = x
        /\ {"kind", "stage", "answer", "pending", "token"} \subseteq DOMAIN o
    BY DEF Operation
  <1> HIDE DEF o
  <1>2. OpFits(d, c, o)
    BY <1>1 DEF OpFits, Fields
  <1>. QED BY <1>1, <1>2 DEF o

LEMMA EventOpFits ==
  ASSUME NEW d, NEW c, NEW kind \in {"event", "register"}, NEW e, EventFits(d, c, e)
  PROVE  LET o == Operation(kind, [event |-> e]) IN OpFits(d, c, o) /\ o.stage = "asked"
  <1> DEFINE o == Operation(kind, [event |-> e])
  <1>1. /\ o.kind = kind /\ o.stage = "asked" /\ o.event = e
        /\ {"kind", "stage", "answer", "event"} \subseteq DOMAIN o
    BY DEF Operation
  <1> HIDE DEF o
  <1>2. OpFits(d, c, o)
    BY <1>1 DEF OpFits, Fields
  <1>. QED BY <1>1, <1>2 DEF o

LEMMA SaveOpFits ==
  ASSUME NEW d, NEW c, NEW kind \in {"save", "save as"}
  PROVE  LET o == Operation(kind, SaveRequest) IN OpFits(d, c, o) /\ o.stage = "asked"
  <1> DEFINE o == Operation(kind, SaveRequest)
  <1>1. /\ o.kind = kind /\ o.stage = "asked" /\ o.path = o.source
        /\ {"kind", "stage", "answer", "path", "source", "text", "pending"} \subseteq DOMAIN o
    BY DEF Operation, SaveRequest
  <1> HIDE DEF o
  <1>2. OpFits(d, c, o)
    BY <1>1 DEF OpFits, Fields
  <1>. QED BY <1>1, <1>2 DEF o

LEMMA OpenOpFits ==
  ASSUME NEW d, NEW c, NEW p \in Paths, NEW gen
  PROVE  LET o == Operation("open", [path |-> p, gen |-> gen]) IN OpFits(d, c, o) /\ o.stage = "asked"
  <1> DEFINE o == Operation("open", [path |-> p, gen |-> gen])
  <1>1. /\ o.kind = "open" /\ o.stage = "asked" /\ o.path = p
        /\ {"kind", "stage", "answer", "path"} \subseteq DOMAIN o
    BY DEF Operation
  <1> HIDE DEF o
  <1>2. OpFits(d, c, o)
    BY <1>1 DEF OpFits, Fields
  <1>. QED BY <1>1, <1>2 DEF o

LEMMA ResolveOpFits ==
  ASSUME NEW d, NEW c, NEW op, NEW choice, NEW watched, NEW gen
  PROVE  LET o == Operation("resolve", [op |-> op, choice |-> choice, watch |-> watched, gen |-> gen])
         IN  OpFits(d, c, o) /\ o.stage = "asked"
  <1> DEFINE o == Operation("resolve", [op |-> op, choice |-> choice, watch |-> watched, gen |-> gen])
  <1>1. /\ o.kind = "resolve" /\ o.stage = "asked"
        /\ {"kind", "stage", "answer", "watch"} \subseteq DOMAIN o
    BY DEF Operation
  <1> HIDE DEF o
  <1>2. OpFits(d, c, o)
    BY <1>1 DEF OpFits, Fields
  <1>. QED BY <1>1, <1>2 DEF o

\* The answer changes nothing else of an operation.
Concluded(o, a) == [o EXCEPT !.stage = "answered", !.answer = a]
LEMMA AnsweredFits ==
  ASSUME NEW d, NEW c, NEW o, OpFits(d, c, o), NEW a, AnswerFits(d, c, o, a)
  PROVE  LET n == Concluded(o, a)
         IN  /\ OpFits(d, c, n) /\ n.answer = a /\ n.kind = o.kind
             /\ o.kind = "resolve" => n.watch = o.watch
  <1> DEFINE n == Concluded(o, a)
             kept == DOMAIN o \ {"stage", "answer"}
  <1>1. {"kind", "stage", "answer"} \cup Fields(o.kind) \subseteq DOMAIN o
    BY DEF OpFits
  <1>2. DOMAIN n = DOMAIN o /\ n.stage = "answered" /\ n.answer = a /\ \A f \in kept : n[f] = o[f]
    BY <1>1 DEF Concluded
  <1> HIDE DEF n
  <1>3. /\ n.kind = o.kind
        /\ n.kind \in {"save", "save as"} => n.path = o.path /\ n.source = o.source /\ n.text = o.text
        /\ n.kind = "overwrite" => n.pending = o.pending
        /\ n.kind = "open" => n.path = o.path
        /\ n.kind = "resolve" => n.watch = o.watch
        /\ n.kind \in {"event", "register"} => n.event = o.event
    <2>1. n.kind = o.kind
      BY <1>1, <1>2
    <2>. QED BY <1>1, <1>2, <2>1 DEF Fields
  <1>4. AnswerFits(d, c, n, a)
    BY <1>3 DEF AnswerFits, Writer, Target, Written
  <1>5. OpFits(d, c, n)
    BY <1>1, <1>2, <1>3, <1>4 DEF OpFits
  <1>. QED BY <1>2, <1>3, <1>5 DEF n

(***************************************************************************)
(* The document.                                                           *)
(***************************************************************************)
LEMMA ClearedFits ==
  ASSUME SaveConstants, NEW d, NEW c, NEW q PROVE DocFits(d, c, Cleared) /\ Chosen(d, c, q, Cleared)
  <1>1. None \notin Paths
    BY DEF SaveConstants
  <1>2. Cleared = [id |-> doc.id + 1, path |-> None, content |-> Blank, saved |-> Blank, base |-> 0,
                   gen |-> doc.gen + 1, known |-> TRUE]
    BY DEF Cleared, Document
  <1>. QED BY <1>1, <1>2 DEF DocFits, Fits, Chosen, Choosing

LEMMA ExceptFits ==
  ASSUME NEW d, NEW c, NEW m, DocFits(d, c, m), NEW t
  PROVE  /\ LET n == [m EXCEPT !.content = t] IN DocFits(d, c, n) /\ n.path = m.path /\ n.base = m.base
         /\ DocFits(d, c, [m EXCEPT !.known = t])
         /\ Fits(d, c, m.path, m.base, t) => DocFits(d, c, [m EXCEPT !.saved = t])
  <1>1. m = [id |-> m.id, path |-> m.path, content |-> m.content, saved |-> m.saved, base |-> m.base,
             gen |-> m.gen, known |-> m.known]
    BY DEF DocFits
  <1>2. [m EXCEPT !.content = t] =
          [id |-> m.id, path |-> m.path, content |-> t, saved |-> m.saved, base |-> m.base,
           gen |-> m.gen, known |-> m.known]
    BY <1>1
  <1>3. [m EXCEPT !.known = t] =
          [id |-> m.id, path |-> m.path, content |-> m.content, saved |-> m.saved, base |-> m.base,
           gen |-> m.gen, known |-> t]
    BY <1>1
  <1>4. [m EXCEPT !.saved = t] =
          [id |-> m.id, path |-> m.path, content |-> m.content, saved |-> t, base |-> m.base,
           gen |-> m.gen, known |-> m.known]
    BY <1>1
  <1>. QED BY <1>2, <1>3, <1>4 DEF DocFits

\* What was written, or read, becomes the document's base and its saved text.
LEMMA CommittedFits ==
  ASSUME NEW d, NEW c, DocFits(d, c, doc), NEW v, NEW t, Fits(d, c, doc.path, v, t)
  PROVE  DocFits(d, c, Committed(v, t))
  <1> DEFINE n == [doc EXCEPT !.base = v]
  <1>1. n = [id |-> doc.id, path |-> doc.path, content |-> doc.content, saved |-> doc.saved, base |-> v,
             gen |-> doc.gen, known |-> doc.known]
    BY DEF DocFits
  <1>2. Committed(v, t) = [n EXCEPT !.saved = t]
    BY DEF Committed
  <1> HIDE DEF n
  <1>3. Committed(v, t) =
          [id |-> doc.id, path |-> doc.path, content |-> doc.content, saved |-> t, base |-> v,
           gen |-> doc.gen, known |-> doc.known]
    BY <1>1, <1>2
  <1>. QED BY <1>3 DEF DocFits

LEMMA ReloadedFits ==
  ASSUME NEW d, NEW c, DocFits(d, c, doc), NEW file, Fits(d, c, doc.path, file.version, file.text)
  PROVE  DocFits(d, c, Reloaded(file))
  <1> DEFINE n == [doc EXCEPT !.content = file.text]
             k == [n EXCEPT !.saved = file.text]
  <1>1. n = [id |-> doc.id, path |-> doc.path, content |-> file.text, saved |-> doc.saved, base |-> doc.base,
             gen |-> doc.gen, known |-> doc.known]
    BY DEF DocFits
  <1>2. Reloaded(file) = [k EXCEPT !.base = file.version]
    BY DEF Reloaded
  <1> HIDE DEF n
  <1>3. k = [id |-> doc.id, path |-> doc.path, content |-> file.text, saved |-> file.text, base |-> doc.base,
             gen |-> doc.gen, known |-> doc.known]
    BY <1>1
  <1> HIDE DEF k
  <1>4. Reloaded(file) =
          [id |-> doc.id, path |-> doc.path, content |-> file.text, saved |-> file.text,
           base |-> file.version, gen |-> doc.gen, known |-> doc.known]
    BY <1>2, <1>3
  <1>. QED BY <1>4 DEF DocFits

LEMMA RenamedFits ==
  ASSUME NEW d, NEW c, DocFits(d, c, doc), NEW p \in Paths, NEW v, NEW t, Fits(d, c, p, v, t)
  PROVE  DocFits(d, c, Renamed(p, v, t))
  <1>1. doc = [id |-> doc.id, path |-> doc.path, content |-> doc.content, saved |-> doc.saved,
               base |-> doc.base, gen |-> doc.gen, known |-> doc.known]
    BY DEF DocFits
  <1>2. Renamed(p, v, t) =
          [id |-> doc.id, path |-> p, content |-> doc.content, saved |-> t, base |-> v,
           gen |-> doc.gen + 1, known |-> doc.known]
    <2> DEFINE m1 == [doc EXCEPT !.gen = @ + 1]
               m2 == [m1 EXCEPT !.base = v]
               m3 == [m2 EXCEPT !.path = p]
    <2>1. m1 = [id |-> doc.id, path |-> doc.path, content |-> doc.content, saved |-> doc.saved,
                base |-> doc.base, gen |-> doc.gen + 1, known |-> doc.known]
      BY <1>1
    <2> HIDE DEF m1
    <2>2. m2 = [id |-> doc.id, path |-> doc.path, content |-> doc.content, saved |-> doc.saved,
                base |-> v, gen |-> doc.gen + 1, known |-> doc.known]
      BY <2>1
    <2> HIDE DEF m2
    <2>3. m3 = [id |-> doc.id, path |-> p, content |-> doc.content, saved |-> doc.saved,
                base |-> v, gen |-> doc.gen + 1, known |-> doc.known]
      BY <2>2
    <2> HIDE DEF m3
    <2>4. Renamed(p, v, t) = [m3 EXCEPT !.saved = t]
      BY DEF Renamed, m3, m2, m1
    <2>. QED BY <2>3, <2>4
  <1>. QED BY <1>2 DEF DocFits

LEMMA BusyOK ==
  ASSUME NEW x, DialogOK(x), NEW b PROVE DialogOK([x EXCEPT !.busy = b])
  <1> DEFINE y == [x EXCEPT !.busy = b]
  <1>1. DOMAIN y = DOMAIN x /\ y.kind = x.kind /\ y.path = x.path /\ y.source = x.source
    BY DEF DialogOK
  <1> HIDE DEF y
  <1>2. DialogOK(y)
    BY <1>1 DEF DialogOK
  <1>. QED BY <1>2 DEF y

(***************************************************************************)
(* Steps, by what they do to queue and document.                           *)
(***************************************************************************)
LEMMA SeenParts ==
  SeenInv => /\ DiskOK(disk, clock) /\ DocFits(disk, clock, doc) /\ WireFits(disk, clock, wire)
             /\ conflict # None => DialogOK(conflict)
             /\ QueueFits(disk, clock, queue) /\ Chosen(disk, clock, queue, doc)
             /\ queue # <<>> => OpFits(disk, clock, Op)
  BY HeadFits DEF SeenInv, SeenBy, Op

\* A request is queued: document and files stay.
LEMMA RequestSeen ==
  ASSUME SeenInv, NEW o, OpFits(disk, clock, o), o.stage = "asked", queue' = Append(queue, o),
         UNCHANGED <<disk, clock, doc, wire>>, conflict' # None => DialogOK(conflict')
  PROVE  SeenInv'
  <1>1. QueueFits(disk, clock, queue') /\ Chosen(disk, clock, queue', doc)
    BY SeenParts, AppendFits
  <1>2. SeenBy(disk, clock, doc, conflict', queue', wire)
    BY <1>1, SeenParts DEF SeenBy
  <1>. QED BY <1>2 DEF SeenInv

\* The running operation moves on.
LEMMA StageSeen ==
  ASSUME SeenInv, queue # <<>>, NEW o, OpFits(disk, clock, o), o.kind # "resolve", Stage(o),
         UNCHANGED <<disk, clock, doc, conflict, wire>>
  PROVE  SeenInv'
  <1>1. QueueFits(disk, clock, queue') /\ Head(queue') = o
    BY SeenParts, StageFits DEF Stage
  <1>2. Chosen(disk, clock, queue', doc)
    BY <1>1 DEF Chosen, Choosing
  <1>3. SeenBy(disk, clock, doc, conflict, queue', wire)
    BY <1>1, <1>2, SeenParts DEF SeenBy
  <1>. QED BY <1>3 DEF SeenInv

LEMMA AnsweredSeen ==
  ASSUME SeenInv, queue # <<>>, NEW a, AnswerFits(disk, clock, Op, a), Op.kind # "resolve", Answered(a),
         UNCHANGED <<disk, clock, doc, conflict, wire>>
  PROVE  SeenInv'
  <1> DEFINE n == Concluded(Op, a)
  <1>0. Stage(n)
    BY DEF Answered, Concluded
  <1>1. OpFits(disk, clock, n) /\ n.kind = Op.kind
    BY SeenParts, AnsweredFits
  <1> HIDE DEF n
  <1>. QED BY <1>0, <1>1, StageSeen

\* A call of the running operation may write what the operation asks to be written.
LEMMA CallSeen ==
  ASSUME SeenInv, queue # <<>>, Writer(Op), NEW a, Called(Target(Op), Written(Op), a), Answered(a),
         Op.kind = "save as" => Op.path \in Paths, UNCHANGED <<doc, conflict, wire>>
  PROVE  SeenInv'
  <1> DEFINE n == Concluded(Op, a)
  <1>1. /\ Grows(disk, clock, disk', clock')
        /\ a.status \in {"committed", "conflict"} => a.path = Target(Op)
        /\ a.status = "committed" => Fits(disk', clock', Target(Op), a.version, Written(Op))
    BY SeenParts, CalledFits
  <1>2. /\ DiskOK(disk', clock') /\ DocFits(disk', clock', doc) /\ WireFits(disk', clock', wire)
        /\ QueueFits(disk', clock', queue)
    BY <1>1, SeenParts, QueueGrows, RestGrows DEF Grows
  <1>3. OpFits(disk', clock', Op)
    BY <1>2, HeadFits DEF Op
  <1>4. AnswerFits(disk', clock', Op, a) /\ Op.kind # "resolve"
    BY <1>1 DEF AnswerFits, Writer, Target
  <1>5. Stage(n)
    BY DEF Answered, Concluded
  <1>6. OpFits(disk', clock', n) /\ n.kind = Op.kind
    BY ONLY <1>3, <1>4, AnsweredFits
  <1> HIDE DEF n
  <1>7. QueueFits(disk', clock', queue') /\ Head(queue') = n
    <2>1. queue' = <<n>> \o Tail(queue)
      BY <1>5 DEF Stage
    <2>2. QueueFits(disk', clock', queue) /\ queue # <<>> /\ OpFits(disk', clock', n)
      BY <1>2, <1>6
    <2>. QED BY ONLY <2>1, <2>2, StageFits
  <1>8. Chosen(disk', clock', queue', doc)
    BY <1>4, <1>6, <1>7 DEF Chosen, Choosing
  <1>9. SeenBy(disk', clock', doc, conflict, queue', wire)
    BY <1>2, <1>7, <1>8, SeenParts DEF SeenBy
  <1>. QED BY <1>9 DEF SeenInv

\* The running operation ends.
LEMMA AppliedSeen ==
  ASSUME SeenInv, queue # <<>>, Done, DocFits(disk, clock, doc'), UNCHANGED <<disk, clock, wire>>,
         conflict' # None => DialogOK(conflict')
  PROVE  SeenInv'
  <1>1. QueueFits(disk, clock, queue') /\ Chosen(disk, clock, queue', doc')
    BY SeenParts, TailFits DEF Done
  <1>2. SeenBy(disk, clock, doc', conflict', queue', wire)
    BY <1>1, SeenParts DEF SeenBy
  <1>. QED BY <1>2 DEF SeenInv

\* Another program or command acts.
LEMMA OutsideSeen ==
  ASSUME SeenInv, Grows(disk, clock, disk', clock'), UNCHANGED <<doc, conflict, queue, wire>>
  PROVE  SeenInv'
  <1>1. SeenBy(disk', clock', doc, conflict, queue, wire)
    BY SeenParts, QueueGrows, RestGrows DEF SeenBy, Grows
  <1>. QED BY <1>1 DEF SeenInv

(***************************************************************************)
(* The actions.                                                            *)
(***************************************************************************)
LEMMA SeenInit == Init => SeenInv
  <1> SUFFICES ASSUME Init PROVE SeenInv
    OBVIOUS
  <1>1. PICK p \in Paths, t \in Texts \ {Blank} :
          /\ disk = [q \in Paths |-> IF q = p THEN [text |-> t, version |-> 1] ELSE Missing]
          /\ clock = 1 /\ doc = Document(1, p, t, 1, 1)
          /\ conflict = None /\ queue = <<>> /\ wire = <<>>
    BY DEF Init
  <1>2. DiskOK(disk, clock) /\ disk[p].text = t
    BY <1>1 DEF DiskOK, Missing
  <1>3. DocFits(disk, clock, doc)
    BY <1>1, <1>2 DEF DocFits, Fits, Document
  <1>4. WireFits(disk, clock, wire) /\ QueueFits(disk, clock, queue)
    BY <1>1 DEF WireFits, QueueFits, Entries
  <1>5. Chosen(disk, clock, queue, doc)
    BY <1>1 DEF Chosen
  <1>. QED BY <1>1, <1>2, <1>3, <1>4, <1>5 DEF SeenInv, SeenBy

\* The document changes, its base does not; or there is none any more.
LEMMA EditSeen ==
  ASSUME SeenInv, DocFits(disk, clock, doc'), Chosen(disk, clock, queue, doc'),
         UNCHANGED <<disk, clock, queue, wire>>, conflict' # None => DialogOK(conflict')
  PROVE  SeenInv'
  <1>1. SeenBy(disk, clock, doc', conflict', queue, wire)
    BY SeenParts DEF SeenBy
  <1>. QED BY <1>1 DEF SeenInv

LEMMA UserSeen == SaveConstants /\ SeenInv /\ User => SeenInv'
  <1> SUFFICES ASSUME SaveConstants, SeenInv, User PROVE SeenInv'
    OBVIOUS
  <1>0. conflict # None => DialogOK(conflict)
    BY SeenParts
  <1>1. CASE Type
    <2>1. PICK t : doc' = [doc EXCEPT !.content = t]
      BY <1>1 DEF Type
    <2>2. DocFits(disk, clock, doc') /\ doc'.path = doc.path /\ doc'.base = doc.base
      BY <2>1, SeenParts, ExceptFits
    <2>3. Chosen(disk, clock, queue, doc')
      BY <2>2, SeenParts DEF Chosen, Choosing
    <2>. QED BY <1>0, <1>1, <2>2, <2>3, EditSeen DEF Type, backend, watch
  <1>2. CASE New \/ CloseDeletedDraft
    <2>1. doc' = Cleared /\ UNCHANGED <<disk, clock, queue, wire>> /\ conflict' \in {conflict, None}
      BY <1>2 DEF New, CloseDeletedDraft, backend, watch
    <2>. QED BY <1>0, <2>1, ClearedFits, EditSeen
  <1>3. CASE Save \/ SaveAs
    <2>1. PICK kind \in {"save", "save as"} : queue' = Append(queue, Operation(kind, SaveRequest))
      BY <1>3 DEF Save, SaveAs, Ask
    <2> DEFINE o == Operation(kind, SaveRequest)
    <2>2. OpFits(disk, clock, o) /\ o.stage = "asked"
      BY SaveOpFits
    <2>3. UNCHANGED <<disk, clock, doc, conflict, wire>>
      BY <1>3 DEF Save, SaveAs, backend, watch
    <2> HIDE DEF o
    <2>. QED BY <1>0, <2>1, <2>2, <2>3, RequestSeen DEF o
  <1>4. CASE Open
    <2>1. PICK p \in Paths : queue' = Append(queue, Operation("open", [path |-> p, gen |-> doc.gen]))
      BY <1>4 DEF Open, Ask
    <2> DEFINE o == Operation("open", [path |-> p, gen |-> doc.gen])
    <2>2. OpFits(disk, clock, o) /\ o.stage = "asked"
      BY OpenOpFits
    <2>3. UNCHANGED <<disk, clock, doc, conflict, wire>>
      BY <1>4 DEF Open, backend, watch
    <2>4. queue' = Append(queue, o)
      BY <2>1
    <2> HIDE DEF o
    <2>. QED BY <1>0, <2>2, <2>3, <2>4, RequestSeen
  <1>5. CASE Overwrite
    <2> DEFINE o == Operation("overwrite", [pending |-> conflict, token |-> conflict.token])
               busy == [conflict EXCEPT !.busy = TRUE]
    <2>1. conflict # None /\ conflict' = busy /\ queue' = Append(queue, o)
      BY <1>5 DEF Overwrite, Clicked
    <2>2. OpFits(disk, clock, o) /\ o.stage = "asked"
      BY <1>0, <2>1, OverwriteFits
    <2>3. DialogOK(busy)
      BY <1>0, <2>1, BusyOK
    <2>4. UNCHANGED <<disk, clock, doc, wire>>
      BY <1>5 DEF Overwrite, backend, watch
    <2> HIDE DEF o, busy
    <2>. QED BY <2>1, <2>2, <2>3, <2>4, RequestSeen
  <1>6. CASE CancelConflict
    <2>1. UNCHANGED <<disk, clock, doc, queue, wire>> /\ conflict' = None
      BY <1>6 DEF CancelConflict, watch
    <2>. QED BY <2>1, SeenParts, EditSeen
  <1>7. CASE Resolve
    <2>1. PICK choice \in {"keep", "use"} :
            queue' = Append(queue, Operation("resolve",
                       [op |-> left["clicks"], choice |-> choice, watch |-> accepted.for, gen |-> accepted.gen]))
      BY <1>7 DEF Resolve, Ask
    <2> DEFINE o == Operation("resolve",
                      [op |-> left["clicks"], choice |-> choice, watch |-> accepted.for, gen |-> accepted.gen])
    <2>2. OpFits(disk, clock, o) /\ o.stage = "asked"
      BY ResolveOpFits
    <2>3. UNCHANGED <<disk, clock, doc, conflict, wire>>
      BY <1>7 DEF Resolve, backend, watch
    <2>4. queue' = Append(queue, o)
      BY <2>1
    <2> HIDE DEF o
    <2>. QED BY <1>0, <2>2, <2>3, <2>4, RequestSeen
  <1>. QED BY <1>1, <1>2, <1>3, <1>4, <1>5, <1>6, <1>7 DEF User

\* A file is accepted in the dialog: the operation gets its path and its reservation.
LEMMA AcceptSeen ==
  ASSUME SeenInv, Running("save as", "asked"), NEW p \in Paths, Accept(p), UNCHANGED <<disk, clock, doc, conflict, wire>>
  PROVE  SeenInv'
  <1> DEFINE stage == IF disk[p] = Missing THEN "create" ELSE "issue"
             n == [Op EXCEPT !.path = p, !.pending = Reservation(p), !.stage = stage]
  <1>1. queue # <<>> /\ Op.kind = "save as" /\ OpFits(disk, clock, Op)
    BY SeenParts DEF Running
  <1>2. Stage(n)
    BY DEF Accept
  <1>3. {"kind", "stage", "answer", "path", "source", "text", "pending"} \subseteq DOMAIN Op
    BY <1>1 DEF OpFits, Fields
  <1>4. n.kind = "save as" /\ n.stage = stage /\ n.path = p /\ DOMAIN n = DOMAIN Op
    <2> HIDE DEF stage
    <2>. QED BY <1>1, <1>3
  <1> HIDE DEF n
  <1>5. stage # "answered"
    OBVIOUS
  <1>6. OpFits(disk, clock, n)
    BY <1>3, <1>4, <1>5 DEF OpFits, Fields
  <1>. QED BY <1>1, <1>2, <1>4, <1>6, StageSeen

LEMMA RunDialogSeen == ASSUME SeenInv, RunDialog PROVE SeenInv'
  <1>1. queue # <<>> /\ Running("save as", "asked") /\ Op.kind = "save as"
    BY DEF RunDialog, Running
  <1>2. UNCHANGED <<disk, clock, doc, conflict, wire>>
    BY DEF RunDialog, watch
  <1>3. CASE Answered(None)
    <2>1. AnswerFits(disk, clock, Op, None)
      BY <1>1 DEF AnswerFits, Writer
    <2>. QED BY <1>1, <1>2, <1>3, <2>1, AnsweredSeen
  <1>. QED BY <1>1, <1>2, <1>3, AcceptSeen DEF RunDialog

LEMMA RefusedFits ==
  ASSUME NEW o, NEW d, NEW c PROVE AnswerFits(d, c, o, Refused)
  BY DEF AnswerFits, Refused, Answer

LEMMA RunIssueSeen == ASSUME SeenInv, RunIssue PROVE SeenInv'
  <1> DEFINE id == IssueToken(Op.path, Op.text, Op.op, Op.pending).token.id
             n == [Op EXCEPT !.stage = "replace", !.answer = id]
  <1>1. queue # <<>> /\ Op.kind = "save as" /\ OpFits(disk, clock, Op) /\ Op.path \in Paths
    BY SeenParts DEF RunIssue, Running, OpFits
  <1>2. UNCHANGED <<disk, clock, doc, conflict, wire>>
    BY DEF RunIssue, watch
  <1>3. Answered(Refused) \/ Stage(n)
    BY DEF RunIssue
  <1>4. CASE Answered(Refused)
    BY <1>1, <1>2, <1>4, RefusedFits, AnsweredSeen
  <1>5. CASE Stage(n)
    <2> HIDE DEF id
    <2>1. {"kind", "stage", "answer", "path", "source", "text", "pending"} \subseteq DOMAIN Op
      BY <1>1 DEF OpFits, Fields
    <2>2. n.kind = "save as" /\ n.stage = "replace" /\ n.path = Op.path /\ DOMAIN n = DOMAIN Op
      BY <1>1, <2>1
    <2> HIDE DEF n
    <2>3. OpFits(disk, clock, n)
      BY <1>1, <2>1, <2>2 DEF OpFits, Fields
    <2>. QED BY <1>1, <1>2, <1>5, <2>2, <2>3, StageSeen
  <1>. QED BY <1>3, <1>4, <1>5

LEMMA RunOverwriteIssueSeen == ASSUME SeenInv, RunOverwriteIssue PROVE SeenInv'
  <1> DEFINE c == Op.pending
             id == IssueToken(c.path, c.text, c.op, None).token.id
             n == [Op EXCEPT !.stage = "retry"]
             k == [Op EXCEPT !.stage = "retry", !.token = id]
  <1>1. queue # <<>> /\ Op.kind = "overwrite" /\ OpFits(disk, clock, Op)
    BY SeenParts DEF RunOverwriteIssue, Running
  <1>2. UNCHANGED <<disk, clock, doc, conflict, wire>>
    BY DEF RunOverwriteIssue, watch
  <1>3. Answered(Refused) \/ Stage(n) \/ Stage(k)
    BY DEF RunOverwriteIssue
  <1>4. CASE Answered(Refused)
    BY <1>1, <1>2, <1>4, RefusedFits, AnsweredSeen
  <1> HIDE DEF id, c
  <1>5. {"kind", "stage", "answer", "pending", "token"} \subseteq DOMAIN Op /\ DialogOK(Op.pending)
    BY <1>1 DEF OpFits, Fields
  <1>6. CASE Stage(n)
    <2>1. n.kind = "overwrite" /\ n.stage = "retry" /\ DOMAIN n = DOMAIN Op /\ n.pending = Op.pending
      BY <1>1, <1>5
    <2> HIDE DEF n
    <2>2. OpFits(disk, clock, n)
      BY <1>5, <2>1 DEF OpFits, Fields
    <2>. QED BY <1>1, <1>2, <1>6, <2>1, <2>2, StageSeen
  <1>7. CASE Stage(k)
    <2>1. k.kind = "overwrite" /\ k.stage = "retry" /\ DOMAIN k = DOMAIN Op /\ k.pending = Op.pending
      BY <1>1, <1>5
    <2> HIDE DEF k
    <2>2. OpFits(disk, clock, k)
      BY <1>5, <2>1 DEF OpFits, Fields
    <2>. QED BY <1>1, <1>2, <1>7, <2>1, <2>2, StageSeen
  <1>. QED BY <1>3, <1>4, <1>6, <1>7

\* The file is read as it is now: it fits the document's base, whatever that is.
LEMMA RunResolveSeen == ASSUME SeenInv, RunResolve PROVE SeenInv'
  <1>1. queue # <<>> /\ Op.kind = "resolve" /\ OpFits(disk, clock, Op)
    BY SeenParts DEF RunResolve, Running
  <1>2. UNCHANGED <<disk, clock, doc, conflict, wire>>
    BY DEF RunResolve, backend
  <1>3. PICK a : /\ Answered(a)
                 /\ a = Refused \/ (entry.for = Op.watch /\ a = Snapshot(entry, entry.seq + 1))
    BY DEF RunResolve
  <1>4. a # Refused => a.watch = Op.watch /\ a.file = disk[Op.watch.path]
    BY <1>3 DEF Snapshot
  <1>5. AnswerFits(disk, clock, Op, a)
    <2>1. a # Refused => EventFits(disk, clock, a)
      BY <1>4, SeenParts, ReadFits DEF EventFits
    <2>. QED BY <1>1, <1>4, <2>1 DEF AnswerFits, Writer
  <1> DEFINE n == Concluded(Op, a)
  <1>6. Stage(n)
    BY <1>3 DEF Answered, Concluded
  <1>7. OpFits(disk, clock, n) /\ n.answer = a /\ n.kind = Op.kind /\ n.watch = Op.watch
    BY <1>1, <1>5, AnsweredFits
  <1> HIDE DEF n
  <1>8. QueueFits(disk, clock, queue') /\ Head(queue') = n
    BY <1>1, <1>6, <1>7, SeenParts, StageFits DEF Stage
  <1>9. Chosen(disk, clock, queue', doc)
    <2> SUFFICES ASSUME a # Refused, doc.path \in Paths, doc.path = Op.watch.path
                 PROVE  Fits(disk, clock, doc.path, doc.base, a.file.text)
      BY <1>7, <1>8 DEF Chosen, Choosing
    <2>1. doc.base \in 0 .. clock
      BY SeenParts DEF DocFits, Fits
    <2>. QED BY <1>4, <2>1, SeenParts, ReadFits
  <1>10. SeenBy(disk, clock, doc, conflict, queue', wire)
    BY <1>8, <1>9, SeenParts DEF SeenBy
  <1>. QED BY <1>2, <1>10 DEF SeenInv

LEMMA RunsSeen == SeenInv /\ Runs => SeenInv'
  <1> SUFFICES ASSUME SeenInv, Runs PROVE SeenInv'
    OBVIOUS
  <1>1. CASE RunSave
    <2>1. PICK a : Called(Op.path, Op.text, a) /\ Answered(a)
      BY <1>1, SaveCalled DEF RunSave
    <2>2. /\ queue # <<>> /\ Writer(Op) /\ Target(Op) = Op.path /\ Written(Op) = Op.text
          /\ Op.kind # "save as"
      BY <1>1 DEF RunSave, Running, Writer, Target, Written
    <2>3. UNCHANGED <<doc, conflict, wire>>
      BY <1>1 DEF RunSave
    <2>. QED BY <2>1, <2>2, <2>3, CallSeen
  <1>2. CASE RunSaveAs
    <2>1. PICK a : Called(Op.path, Op.text, a) /\ Answered(a)
      BY <1>2, SaveAsCalled, RetryCalled DEF RunSaveAs
    <2>2. queue # <<>> /\ Writer(Op) /\ Target(Op) = Op.path /\ Written(Op) = Op.text /\ Op.path \in Paths
      BY <1>2, SeenParts DEF RunSaveAs, Running, Writer, Target, Written, OpFits
    <2>3. UNCHANGED <<doc, conflict, wire>>
      BY <1>2 DEF RunSaveAs
    <2>. QED BY <2>1, <2>2, <2>3, CallSeen
  <1>3. CASE RunOverwrite
    <2>1. PICK a : Called(Op.pending.path, Op.pending.text, a) /\ Answered(a)
      BY <1>3, RetryCalled DEF RunOverwrite
    <2>2. /\ queue # <<>> /\ Writer(Op) /\ Target(Op) = Op.pending.path /\ Written(Op) = Op.pending.text
          /\ Op.kind # "save as"
      BY <1>3 DEF RunOverwrite, Running, Writer, Target, Written
    <2>3. UNCHANGED <<doc, conflict, wire>>
      BY <1>3 DEF RunOverwrite
    <2>. QED BY <2>1, <2>2, <2>3, CallSeen
  <1>4. CASE RunOverwriteLate
    <2>1. queue # <<>> /\ Op.kind = "overwrite" /\ Answered(None)
      BY <1>4 DEF RunOverwriteLate, Running
    <2>2. UNCHANGED <<disk, clock, doc, conflict, wire>>
      BY <1>4 DEF RunOverwriteLate, watch
    <2>3. AnswerFits(disk, clock, Op, None)
      BY <2>1 DEF AnswerFits, Writer
    <2>. QED BY <2>1, <2>2, <2>3, AnsweredSeen
  <1>5. CASE RunOpen
    <2>1. queue # <<>> /\ Op.kind = "open"
      BY <1>5 DEF RunOpen, Running
    <2>2. UNCHANGED <<disk, clock, doc, conflict, wire>>
      BY <1>5 DEF RunOpen, watch
    <2>3. Answered(Refused) \/ Answered(disk[Op.path])
      BY <1>5 DEF RunOpen
    <2>4. AnswerFits(disk, clock, Op, disk[Op.path])
      BY <2>1, SeenParts, ReadFits DEF AnswerFits, Writer
    <2>. QED BY <2>1, <2>2, <2>3, <2>4, RefusedFits, AnsweredSeen
  <1>. QED BY <1>1, <1>2, <1>3, <1>4, <1>5, RunDialogSeen, RunIssueSeen, RunOverwriteIssueSeen,
              RunResolveSeen DEF Runs

\* A dialog about a save that met another version is about the document's own path.
LEMMA DialogIs ==
  ASSUME NEW kind, NEW token, NEW path, NEW resume,
         IF kind = "save as" THEN path \in Paths ELSE path = Op.source
  PROVE  DialogOK(Dialog(kind, token, path, resume))
  BY DEF Dialog, DialogOK

LEMMA AnsweredOf ==
  ASSUME SeenInv, NEW kind, Finished(kind)
  PROVE  queue # <<>> /\ Op.kind = kind /\ Done /\ OpFits(disk, clock, Op) /\ AnswerFits(disk, clock, Op, Op.answer)
  <1>1. queue # <<>> /\ Op.kind = kind /\ Op.stage = "answered" /\ Done
    BY DEF Finished, Running
  <1>. QED BY <1>1, SeenParts DEF OpFits

LEMMA ApplySaveSeen == ASSUME SeenInv, ApplySave PROVE SeenInv'
  <1> DEFINE a == Op.answer
  <1>1. /\ queue # <<>> /\ Op.kind = "save" /\ Done /\ Op.path = Op.source
        /\ a.status = "committed" => a.path = Op.path /\ Fits(disk, clock, Op.path, a.version, Op.text)
    <2>1. /\ queue # <<>> /\ Op.kind = "save" /\ Done /\ OpFits(disk, clock, Op)
          /\ AnswerFits(disk, clock, Op, a)
      BY AnsweredOf DEF ApplySave
    <2>. QED BY <2>1 DEF OpFits, AnswerFits, Writer, Target, Written
  <1>2. UNCHANGED <<disk, clock, wire>>
    BY DEF ApplySave, backend, watch
  <1>3. \/ doc' = doc
        \/ doc' = Committed(a.version, Op.text) /\ doc.path = Op.path /\ a.status = "committed"
        \/ doc' = [doc EXCEPT !.known = @ /\ Known(a)]
    BY DEF ApplySave
  <1>4. conflict' = conflict \/ conflict' = Dialog("same file", 0, Op.path, None)
    BY DEF ApplySave
  <1>5. conflict' # None => DialogOK(conflict')
    BY <1>1, <1>4, DialogIs, SeenParts
  <1>6. DocFits(disk, clock, doc')
    <2> DEFINE known == doc.known /\ Known(a)
    <2>1. DocFits(disk, clock, [doc EXCEPT !.known = known])
      BY SeenParts, ExceptFits
    <2>2. CASE doc' = Committed(a.version, Op.text) /\ doc.path = Op.path /\ a.status = "committed"
      BY <1>1, <2>2, SeenParts, CommittedFits
    <2>. QED BY <1>3, <2>1, <2>2, SeenParts
  <1>. QED BY <1>1, <1>2, <1>5, <1>6, AppliedSeen

LEMMA ApplySaveAsSeen == ASSUME SeenInv, ApplySaveAs PROVE SeenInv'
  <1> DEFINE a == Op.answer
  <1>1. /\ queue # <<>> /\ Op.kind = "save as" /\ Done
        /\ a # None /\ a.status \in {"committed", "conflict"} => a.path \in Paths
        /\ a # None /\ a.status = "committed" => Fits(disk, clock, a.path, a.version, Op.text)
    <2>1. queue # <<>> /\ Op.kind = "save as" /\ Done /\ AnswerFits(disk, clock, Op, a)
      BY AnsweredOf DEF ApplySaveAs
    <2>. QED BY <2>1 DEF AnswerFits, Writer, Target, Written
  <1>2. UNCHANGED <<disk, clock, wire>>
    BY DEF ApplySaveAs, backend, watch
  <1>3. \/ doc' = doc
        \/ doc' = Renamed(a.path, a.version, Op.text) /\ a # None /\ a.status = "committed"
        \/ doc' = [doc EXCEPT !.known = @ /\ Known(a)]
    BY DEF ApplySaveAs
  <1>4. \/ conflict' = conflict
        \/ /\ a # None /\ a.status = "conflict"
           /\ \E resume : conflict' = Dialog("save as", a.token, a.path, resume)
    BY DEF ApplySaveAs
  <1>5. conflict' # None => DialogOK(conflict')
    BY <1>1, <1>4, DialogIs, SeenParts
  <1>6. DocFits(disk, clock, doc')
    <2> DEFINE known == doc.known /\ Known(a)
    <2>1. DocFits(disk, clock, [doc EXCEPT !.known = known])
      BY SeenParts, ExceptFits
    <2>2. CASE doc' = Renamed(a.path, a.version, Op.text) /\ a # None /\ a.status = "committed"
      BY <1>1, <2>2, SeenParts, RenamedFits
    <2>. QED BY <1>3, <2>1, <2>2, SeenParts
  <1>. QED BY <1>1, <1>2, <1>5, <1>6, AppliedSeen

LEMMA ApplyOverwriteSeen == ASSUME SeenInv, ApplyOverwrite PROVE SeenInv'
  <1> DEFINE a == Op.answer
             x == Op.pending
  <1>1. /\ queue # <<>> /\ Done /\ DialogOK(x)
        /\ a # None /\ a.status = "committed" => a.path = x.path /\ Fits(disk, clock, x.path, a.version, x.text)
    <2>1. /\ queue # <<>> /\ Op.kind = "overwrite" /\ Done /\ OpFits(disk, clock, Op)
          /\ AnswerFits(disk, clock, Op, a)
      BY AnsweredOf DEF ApplyOverwrite
    <2>. QED BY <2>1 DEF OpFits, AnswerFits, Writer, Target, Written
  <1>2. UNCHANGED <<disk, clock, wire>>
    BY DEF ApplyOverwrite, backend, watch
  <1>3. \/ doc' = doc
        \/ /\ a # None /\ a.status = "committed" /\ PendingCurrent(x)
           /\ doc' = IF x.kind = "save as" THEN Renamed(a.path, a.version, x.text)
                     ELSE Committed(a.version, x.text)
        \/ doc' = [doc EXCEPT !.known = @ /\ Known(a)]
    BY DEF ApplyOverwrite
  <1>4. conflict' = conflict \/ conflict' = None \/ conflict' = [x EXCEPT !.busy = FALSE]
    BY DEF ApplyOverwrite
  <1>5. conflict' # None => DialogOK(conflict')
    <2>1. DialogOK([x EXCEPT !.busy = FALSE])
      BY <1>1, BusyOK
    <2>. QED BY <1>4, <2>1, SeenParts
  <1>6. DocFits(disk, clock, doc')
    <2> DEFINE known == doc.known /\ Known(a)
    <2>1. DocFits(disk, clock, [doc EXCEPT !.known = known])
      BY SeenParts, ExceptFits
    <2>2. ASSUME a # None, a.status = "committed", PendingCurrent(x), x.kind = "save as",
                 doc' = Renamed(a.path, a.version, x.text)
          PROVE  DocFits(disk, clock, doc')
      BY <1>1, <2>2, SeenParts, RenamedFits DEF DialogOK
    <2>3. ASSUME a # None, a.status = "committed", PendingCurrent(x), x.kind # "save as",
                 doc' = Committed(a.version, x.text)
          PROVE  DocFits(disk, clock, doc')
      <3>1. doc.path = x.path
        BY <1>1, <2>3 DEF PendingCurrent, DialogOK
      <3>. QED BY <1>1, <2>3, <3>1, SeenParts, CommittedFits
    <2>. QED BY <1>3, <2>1, <2>2, <2>3, SeenParts
  <1>. QED BY <1>1, <1>2, <1>5, <1>6, AppliedSeen

LEMMA ApplyOpenSeen == ASSUME SeenInv, ApplyOpen PROVE SeenInv'
  <1> DEFINE a == Op.answer
             opened == Document(doc.id + 1, Op.path, a.text, a.version, doc.gen + 1)
  <1>1. /\ queue # <<>> /\ Done /\ Op.path \in Paths
        /\ a # Refused => Fits(disk, clock, Op.path, a.version, a.text)
    <2>1. /\ queue # <<>> /\ Op.kind = "open" /\ Done /\ OpFits(disk, clock, Op)
          /\ AnswerFits(disk, clock, Op, a)
      BY AnsweredOf DEF ApplyOpen
    <2>. QED BY <2>1 DEF OpFits, AnswerFits
  <1>2. UNCHANGED <<disk, clock, wire, conflict>>
    BY DEF ApplyOpen, backend, watch
  <1>3. doc' = doc \/ (a # Refused /\ doc' = opened)
    BY DEF ApplyOpen, Failed
  <1>4. a # Refused => DocFits(disk, clock, opened)
    BY <1>1 DEF DocFits, Document
  <1> HIDE DEF opened
  <1>5. DocFits(disk, clock, doc')
    BY <1>3, <1>4, SeenParts
  <1>. QED BY <1>1, <1>2, <1>5, SeenParts, AppliedSeen

\* What the window makes of a file: only a document that is known takes its text.
LEMMA DecideFits ==
  ASSUME SaveConstants, SeenInv, NEW e, NEW heard, NEW w, Decide(e, heard, w),
         EventFits(disk, clock, e), doc.known => e.watch.path = doc.path
  PROVE  DocFits(disk, clock, doc') /\ conflict' \in {conflict, None}
  <1>1. Decision(e.file) = "reload" => doc.known
    BY DEF Decision
  <1>2. \/ doc' = Reloaded(e.file) /\ doc.known
        \/ doc' = Cleared
        \/ doc' = doc
    BY <1>1 DEF Decide
  <1>3. conflict' \in {conflict, None}
    BY DEF Decide
  <1>4. doc.known => DocFits(disk, clock, Reloaded(e.file))
    BY SeenParts, ReloadedFits DEF EventFits
  <1>. QED BY <1>2, <1>3, <1>4, ClearedFits, SeenParts

LEMMA EventSeen == ASSUME SaveConstants, SeenInv, ApplyEvent \/ ApplyRegister PROVE SeenInv'
  <1>1. queue # <<>> /\ Op.kind \in {"event", "register"} /\ Done /\ UNCHANGED <<disk, clock, wire>>
    BY DEF ApplyEvent, ApplyRegister
  <1>2. EventFits(disk, clock, Op.event)
    BY <1>1, SeenParts DEF OpFits
  <1>3. \/ UNCHANGED <<doc, conflict>>
        \/ \E heard, w : Decide(Op.event, heard, w) /\ (doc.known => Op.event.watch.path = doc.path)
    <2>1. CASE ApplyEvent /\ Heard(Op.event)
      BY <2>1 DEF ApplyEvent, Heard
    <2>2. CASE ApplyRegister /\ Wanted = Op.event.watch
      <3>1. doc.known => Op.event.watch.path = doc.path
        BY <2>2 DEF Wanted
      <3>. QED BY <2>2, <3>1 DEF ApplyRegister
    <2>3. CASE UNCHANGED <<doc, conflict>>
      BY <2>3
    <2>. QED BY <2>1, <2>2, <2>3 DEF ApplyEvent, ApplyRegister
  <1>4. DocFits(disk, clock, doc') /\ conflict' \in {conflict, None}
    BY <1>2, <1>3, DecideFits, SeenParts
  <1>. QED BY <1>1, <1>4, SeenParts, AppliedSeen

\* The choice: the document takes the file's text, or takes it for saved and overwrites it.
LEMMA ApplyResolveSeen == ASSUME SaveConstants, SeenInv, ApplyResolve PROVE SeenInv'
  <1> DEFINE a == Op.answer
             gone == Resolvable /\ a.file = Missing /\ Dirty
             chosen == CASE ~Resolvable -> conflict
                         [] gone -> None
                         [] OTHER -> IF a.file # Missing /\ Op.choice = "keep" THEN Kept(a.file) ELSE conflict
             next == IF Op.choice = "keep" THEN Clicked(chosen, Tail(queue))
                     ELSE [conflict |-> chosen, queue |-> Tail(queue)]
  <1>1. /\ queue # <<>> /\ Op.kind = "resolve" /\ Op.stage = "answered"
        /\ OpFits(disk, clock, Op) /\ AnswerFits(disk, clock, Op, a)
    BY SeenParts DEF ApplyResolve, Running, OpFits
  <1>2. conflict' = next.conflict /\ queue' = next.queue /\ UNCHANGED <<disk, clock, wire>>
    BY DEF ApplyResolve
  <1>3. chosen # None => DialogOK(chosen)
    <2>1. DialogOK(Kept(a.file))
      BY DEF Kept, DialogOK
    <2>. QED BY <2>1, SeenParts
  <1> HIDE DEF chosen
  <1>4. \/ conflict' = chosen /\ queue' = Tail(queue)
        \/ /\ chosen # None /\ conflict' = [chosen EXCEPT !.busy = TRUE]
           /\ queue' = Append(Tail(queue), Operation("overwrite", [pending |-> chosen, token |-> chosen.token]))
    BY <1>2 DEF Clicked
  <1>5. conflict' # None => DialogOK(conflict')
    <2>1. chosen # None => DialogOK([chosen EXCEPT !.busy = TRUE])
      BY <1>3, BusyOK
    <2>. QED BY <1>3, <1>4, <2>1
  <1>6. QueueFits(disk, clock, queue') /\ Chosen(disk, clock, queue', doc')
    <2> DEFINE o == Operation("overwrite", [pending |-> chosen, token |-> chosen.token])
    <2>1. QueueFits(disk, clock, Tail(queue)) /\ Chosen(disk, clock, Tail(queue), doc')
      BY <1>1, SeenParts, TailFits
    <2>2. chosen # None => OpFits(disk, clock, o) /\ o.stage = "asked"
      BY <1>3, OverwriteFits
    <2>3. queue' = Tail(queue) \/ (chosen # None /\ queue' = Append(Tail(queue), o))
      BY <1>4
    <2> HIDE DEF o
    <2>. QED BY <2>1, <2>2, <2>3, AppendFits
  <1>7. DocFits(disk, clock, doc')
    <2>1. Resolvable => a # Refused /\ doc.path = Op.watch.path /\ a.watch = Op.watch
                        /\ EventFits(disk, clock, a)
      BY <1>1 DEF Resolvable, Failed, AnswerFits
    <2>2. \/ doc' = doc \/ doc' = Cleared
          \/ Resolvable /\ doc' = Reloaded(a.file)
          \/ Resolvable /\ doc' = [doc EXCEPT !.saved = a.file.text]
      BY DEF ApplyResolve, Resolution
    <2>3. Resolvable => DocFits(disk, clock, Reloaded(a.file))
      BY <2>1, SeenParts, ReloadedFits DEF EventFits
    <2>4. Resolvable => DocFits(disk, clock, [doc EXCEPT !.saved = a.file.text])
      <3>1. Resolvable => Fits(disk, clock, doc.path, doc.base, a.file.text)
        BY <1>1, <2>1, SeenParts DEF Chosen, Choosing, Op, Fits
      <3>. QED BY <3>1, SeenParts, ExceptFits
    <2>. QED BY <2>2, <2>3, <2>4, ClearedFits, SeenParts
  <1>8. SeenBy(disk, clock, doc', conflict', queue', wire)
    BY <1>5, <1>6, <1>7, SeenParts DEF SeenBy
  <1>. QED BY <1>2, <1>8 DEF SeenInv

LEMMA WatchesSeen == SeenInv /\ Watches => SeenInv'
  <1> SUFFICES ASSUME SeenInv, Watches PROVE SeenInv'
    OBVIOUS
  <1>0. UNCHANGED <<disk, clock, doc, conflict>>
    BY DEF Watches, WatchRuns, Deliver, Rewatch, backend, session
  <1>1. CASE WatchRuns
    <2> DEFINE e == Snapshot(entry, entry.seq + 1)
    <2>1. EventFits(disk, clock, e)
      BY SeenParts, ReadFits DEF Snapshot, EventFits
    <2>2. (wire' = wire \/ wire' = Append(wire, e)) /\ UNCHANGED queue
      BY <1>1 DEF WatchRuns, session
    <2> HIDE DEF e
    <2>3. WireFits(disk, clock, wire')
      <3>1. CASE wire' = wire
        BY <3>1, SeenParts
      <3>2. CASE wire' = Append(wire, e)
        <4> DEFINE S == Entries(wire) \cup {e}
        <4>1. wire \in Seq(S) /\ Len(wire) \in Nat /\ DOMAIN wire = 1 .. Len(wire)
          BY SeenParts, SeqIs DEF WireFits
        <4>2. /\ wire' \in Seq(S) /\ DOMAIN wire' = 1 .. Len(wire) + 1
              /\ \A i \in 1 .. Len(wire) + 1 : wire'[i] = IF i = Len(wire) + 1 THEN e ELSE wire[i]
          BY <3>2, <4>1
        <4>3. wire' \in Seq(Entries(wire'))
          BY <4>2, OwnElements
        <4>4. Entries(wire') \subseteq S
          BY <4>1, <4>2 DEF Entries
        <4>. QED BY <2>1, <4>3, <4>4, SeenParts DEF WireFits
      <3>. QED BY <2>2, <3>1, <3>2
    <2>4. SeenBy(disk, clock, doc, conflict, queue, wire')
      BY <2>3, SeenParts DEF SeenBy
    <2>. QED BY <1>0, <2>2, <2>4 DEF SeenInv
  <1>2. CASE Deliver
    <2> DEFINE e == Head(wire)
               o == Operation("event", [event |-> e])
    <2>1. wire # <<>> /\ wire' = Tail(wire) /\ (queue' = queue \/ queue' = Append(queue, o))
      BY <1>2 DEF Deliver
    <2>2. OpFits(disk, clock, o) /\ o.stage = "asked"
      <3>1. EventFits(disk, clock, e)
        BY <2>1, SeenParts, SeqIs DEF WireFits
      <3> HIDE DEF e
      <3>. QED BY <3>1, EventOpFits
    <2> HIDE DEF o, e
    <2>3. QueueFits(disk, clock, queue') /\ Chosen(disk, clock, queue', doc)
      BY <2>1, <2>2, SeenParts, AppendFits
    <2>4. WireFits(disk, clock, wire')
      <3> DEFINE S == Entries(wire)
      <3>1. wire \in Seq(S) /\ Len(wire) \in Nat /\ DOMAIN wire = 1 .. Len(wire) /\ Len(wire) > 0
        BY <2>1, SeenParts, SeqIs DEF WireFits
      <3>2. /\ wire' \in Seq(S) /\ DOMAIN wire' = 1 .. Len(wire) - 1
            /\ \A i \in 1 .. Len(wire) - 1 : wire'[i] = wire[i + 1]
        BY <2>1, <3>1
      <3>3. wire' \in Seq(Entries(wire'))
        BY <3>2, OwnElements
      <3>4. Entries(wire') \subseteq S
        BY <3>1, <3>2 DEF Entries
      <3>. QED BY <3>3, <3>4, SeenParts DEF WireFits
    <2>5. SeenBy(disk, clock, doc, conflict, queue', wire')
      BY <2>3, <2>4, SeenParts DEF SeenBy
    <2>. QED BY <1>0, <2>5 DEF SeenInv
  <1>3. CASE Rewatch
    <2> DEFINE e == Snapshot(Watching(doc.gen), 1)
               o == Operation("register", [event |-> e])
    <2>1. UNCHANGED wire /\ (queue' = queue \/ queue' = Append(queue, o))
      BY <1>3 DEF Rewatch
    <2>2. EventFits(disk, clock, e)
      BY SeenParts, ReadFits DEF Snapshot, EventFits
    <2>3. OpFits(disk, clock, o) /\ o.stage = "asked"
      <3> HIDE DEF e
      <3>. QED BY <2>2, EventOpFits
    <2> HIDE DEF o
    <2>4. CASE queue' = Append(queue, o)
      BY <1>0, <2>1, <2>3, <2>4, SeenParts, RequestSeen
    <2>5. CASE queue' = queue
      BY <1>0, <2>1, <2>5 DEF SeenInv
    <2>. QED BY <2>1, <2>4, <2>5
  <1>. QED BY <1>1, <1>2, <1>3 DEF Watches

LEMMA SeenStep == SaveConstants /\ SeenInv /\ [Next]_vars => SeenInv'
  <1> SUFFICES ASSUME SaveConstants, SeenInv, [Next]_vars PROVE SeenInv'
    OBVIOUS
  <1>1. CASE UNCHANGED vars
    BY <1>1 DEF vars, backend, session, watch, SeenInv
  <1>2. CASE Applies
    BY <1>2, ApplySaveSeen, ApplySaveAsSeen, ApplyOverwriteSeen, ApplyOpenSeen, EventSeen,
       ApplyResolveSeen DEF Applies
  <1>3. CASE Foreign
    <2>1. Grows(disk, clock, disk', clock')
      BY <1>3, SeenParts, WriteGrows, RemoveGrows DEF Foreign, ForeignWrite
    <2>. QED BY <1>3, <2>1, OutsideSeen DEF Foreign, session
  <1>4. CASE OtherCommand \/ TokenExpires
    <2>1. UNCHANGED <<disk, clock, doc, conflict, queue, wire>>
      BY <1>4 DEF OtherCommand, TokenExpires, Elsewhere, Expire, session, watch
    <2>. QED BY <2>1 DEF SeenInv
  <1>. QED BY <1>1, <1>2, <1>3, <1>4, UserSeen, RunsSeen, WatchesSeen DEF Next

LEMMA SeenMeans == SeenInv => SavesRestOnSeen
  BY SeenParts DEF SavesRestOnSeen, DocFits, Fits

(***************************************************************************)
(* A save replaces only what its window has seen: as long as the file is the *)
(* version the document is based on, it holds the text the document takes    *)
(* for saved, however saves, overwrites, choices about external changes,     *)
(* opens, watch events and other programs interleave                         *)
(* (useDocumentSession.ts, document_save.rs, externalDocumentChange.ts).     *)
(***************************************************************************)
THEOREM SeenCorrect == Spec => []SavesRestOnSeen
  <1>1. SeenInv /\ [Next]_vars => SeenInv'
    BY SeenStep, SaveAssumption
  <1>. QED BY <1>1, SeenInit, SeenMeans, PTL DEF Spec

(***************************************************************************)
(* Types. What is limited is the number of tokens and of reservations.     *)
(***************************************************************************)
TokensTyped(T, g) == \A t \in T : t.path \in Paths /\ t.generation \in 0 .. g
Limited(s) ==
  /\ IsFiniteSet(s.tokens) /\ Cardinality(s.tokens) <= MaxTokens
  /\ TokensTyped(s.tokens, s.generation)
  /\ s.reserved = {} \/ \E q : s.reserved = {q}

\* n has no token and no reservation that s has not, and is no earlier.
Fewer(s, n) ==
  /\ n.tokens \subseteq s.tokens /\ n.reserved \subseteq s.reserved
  /\ s.generation \in Nat /\ n.generation \in Nat /\ n.generation >= s.generation
  /\ n.serial = s.serial /\ IsState(n)

LEMMA CapacityIs == MaxTokens \in Nat \ {0}
  BY SaveAssumption DEF SaveConstants

LEMMA LimitedFewer ==
  ASSUME NEW s, NEW n, Limited(s), Fewer(s, n)
  PROVE  Limited(n)
  <1>1. IsFiniteSet(n.tokens) /\ Cardinality(n.tokens) <= Cardinality(s.tokens)
        /\ Cardinality(n.tokens) \in Nat /\ Cardinality(s.tokens) \in Nat
    BY FS_Subset, FS_CardinalityType DEF Limited, Fewer
  <1>2. Cardinality(n.tokens) <= MaxTokens
    BY <1>1, CapacityIs DEF Limited
  <1>3. TokensTyped(n.tokens, n.generation)
    BY DEF Limited, Fewer, TokensTyped
  <1>4. n.reserved = {} \/ \E q : n.reserved = {q}
    BY DEF Limited, Fewer
  <1> QED
    BY <1>1, <1>2, <1>3, <1>4 DEF Limited

LEMMA FewerTrans ==
  ASSUME NEW s, NEW m, NEW n, Fewer(s, m), Fewer(m, n) PROVE Fewer(s, n)
  BY DEF Fewer

LEMMA FewerSame ==
  ASSUME NEW s, IsState(s), s.generation \in Nat PROVE Fewer(s, s)
  BY DEF Fewer

LEMMA FewerInvalidated ==
  ASSUME NEW s, IsState(s), s.generation \in Nat, NEW pendings
  PROVE  Fewer(s, Invalidated(s, pendings))
  <1> DEFINE gone == s.reserved \cap pendings
             others == s.reserved \ gone
             g == IF \E q \in gone : q.generation = s.generation THEN s.generation + 1 ELSE s.generation
             n == [tokens |-> s.tokens, reserved |-> others, generation |-> g, serial |-> s.serial]
  <1>1. Invalidated(s, pendings) = [s EXCEPT !.reserved = others, !.generation = g]
    BY DEF Invalidated
  <1>2. g \in Nat /\ g >= s.generation
    OBVIOUS
  <1>3. others \subseteq s.reserved
    OBVIOUS
  <1> HIDE DEF g, others
  <1>4. Invalidated(s, pendings) = n
    BY <1>1, StateExcept
  <1>5. Fewer(s, n)
    BY <1>2, <1>3 DEF Fewer, IsState
  <1> QED
    BY <1>4, <1>5

LEMMA FewerCancelled ==
  ASSUME NEW s, IsState(s), s.generation \in Nat, NEW pending
  PROVE  Fewer(s, Cancelled(s, pending))
  BY FewerInvalidated DEF Cancelled

LEMMA FewerWithout ==
  ASSUME NEW s, IsState(s), s.generation \in Nat, NEW kept, kept \subseteq s.tokens
  PROVE  LET n == [s EXCEPT !.tokens = kept]
         IN  Fewer(s, n) /\ IsState(n) /\ n.generation \in Nat /\ n.tokens = kept
  <1> DEFINE n == [tokens |-> kept, reserved |-> s.reserved, generation |-> s.generation, serial |-> s.serial]
  <1>1. [s EXCEPT !.tokens = kept] = n
    BY DEF IsState
  <1>2. Fewer(s, n) /\ IsState(n) /\ n.generation \in Nat /\ n.tokens = kept
    BY DEF Fewer, IsState
  <1> QED
    BY <1>1, <1>2

LEMMA FewerTaken ==
  ASSUME NEW s, IsState(s), s.generation \in Nat, NEW token
  PROVE  Fewer(s, Taken(s, token)) /\ Fewer(s, CancelToken(s, token))
  <1> DEFINE kept == {t \in s.tokens : t.id # token}
             n == [s EXCEPT !.tokens = kept]
             pendings == {t.pending : t \in {u \in s.tokens : u.id = token}}
  <1>1. Taken(s, token) = n /\ CancelToken(s, token) = Invalidated(n, pendings)
    BY DEF Taken, CancelToken
  <1>2. kept \subseteq s.tokens
    OBVIOUS
  <1> HIDE DEF kept
  <1>3. Fewer(s, n) /\ IsState(n) /\ n.generation \in Nat
    BY <1>2, FewerWithout
  <1> HIDE DEF n, pendings
  <1>4. Fewer(n, Invalidated(n, pendings))
    BY <1>3, FewerInvalidated
  <1>5. Fewer(s, Invalidated(n, pendings))
    BY <1>3, <1>4, FewerTrans
  <1> QED
    BY <1>1, <1>3, <1>5

LEMMA FewerSettled ==
  ASSUME NEW s, IsState(s), s.generation \in Nat, NEW pending, NEW path
  PROVE  Fewer(s, Settled(s, pending, path))
  <1> DEFINE rest == s.reserved \ {pending}
             g == s.generation + 1
             n == [tokens |-> s.tokens, reserved |-> rest, generation |-> g, serial |-> s.serial]
             s1 == IF pending = None THEN s ELSE [s EXCEPT !.reserved = rest, !.generation = g]
             s2 == [s1 EXCEPT !.generation = @ + 1]
  <1>1. Settled(s, pending, path) = s1 \/ Settled(s, pending, path) = s2
    BY DEF Settled
  <1>2. rest \subseteq s.reserved /\ g \in Nat /\ g >= s.generation
    OBVIOUS
  <1> HIDE DEF rest, g
  <1>3. s1 = s \/ s1 = n
    BY StateExcept
  <1>4. Fewer(s, n)
    BY <1>2 DEF Fewer, IsState
  <1>5. Fewer(s, s1)
    BY <1>3, <1>4, FewerSame
  <1>6. IsState(s1) /\ s1.generation \in Nat
    BY <1>5 DEF Fewer
  <1> HIDE DEF s1
  <1>7. Fewer(s1, s2)
    <2> DEFINE m == [tokens |-> s1.tokens, reserved |-> s1.reserved, generation |-> s1.generation + 1,
                     serial |-> s1.serial]
    <2>1. s2 = m
      BY <1>6 DEF IsState
    <2>2. Fewer(s1, m)
      BY <1>6 DEF Fewer, IsState
    <2> QED
      BY <2>1, <2>2
  <1> QED
    BY <1>1, <1>5, <1>7, FewerTrans

(***************************************************************************)
(* A token that is issued takes the place of the oldest, if need be.       *)
(***************************************************************************)
LEMMA Least ==
  ASSUME NEW S, S \subseteq Nat, S # {}
  PROVE  \E n \in S : \A m \in S : n <= m
  <1> DEFINE R == {ss \in Nat \X Nat : ss[1] < ss[2]}
  <1>1. IsWellFoundedOn(R, Nat)
    BY NatLessThanWellFounded DEF OpToRel
  <1>2. \A i, j \in Nat : <<i, j>> \in R <=> i < j
    OBVIOUS
  <1> HIDE DEF R
  <1>3. PICK n \in S : \A m \in S : ~(<<m, n>> \in R)
    BY <1>1, WFMin
  <1>4. n \in Nat /\ \A m \in S : m \in Nat /\ ~(m < n)
    BY <1>2, <1>3
  <1>5. \A m \in S : n <= m
    BY <1>4
  <1> QED
    BY <1>5

LEMMA FewerEvicted ==
  ASSUME NEW s, IsState(s), Numbered(s), Limited(s)
  PROVE  Fewer(s, Evicted(s)) /\ Cardinality(Evicted(s).tokens) < MaxTokens
  <1> DEFINE late == {t \in s.tokens : t.expired}
             live == s.tokens \ late
             oldest == {t \in live : Cardinality(live) >= MaxTokens /\ \A u \in live : t.id <= u.id}
             kept == s.tokens \ Dropped(s)
             n == [s EXCEPT !.tokens = kept]
             pendings == {t.pending : t \in Dropped(s)}
  <1>1. Evicted(s) = Invalidated(n, pendings) /\ Dropped(s) = late \cup oldest
    BY DEF Evicted, Dropped
  <1>2. kept = live \ oldest
    BY <1>1
  <1>3. IsFiniteSet(s.tokens) /\ Cardinality(s.tokens) <= MaxTokens /\ s.generation \in Nat
        /\ \A t \in s.tokens : t.id \in Nat
    BY DEF Limited, Numbered
  <1>4. IsFiniteSet(live) /\ Cardinality(live) <= MaxTokens /\ Cardinality(live) \in Nat
    BY <1>3, FS_Subset, FS_CardinalityType, CapacityIs
  <1>5. IsFiniteSet(kept) /\ Cardinality(kept) < MaxTokens
    <2>1. CASE Cardinality(live) < MaxTokens
      <3>1. kept \subseteq live
        BY <1>2
      <3>2. IsFiniteSet(kept) /\ Cardinality(kept) <= Cardinality(live) /\ Cardinality(kept) \in Nat
        BY <1>4, <3>1, FS_Subset, FS_CardinalityType
      <3> QED
        BY <1>4, <2>1, <3>2, CapacityIs
    <2>2. CASE ~(Cardinality(live) < MaxTokens)
      <3>1. Cardinality(live) >= MaxTokens /\ Cardinality(live) # 0
        BY <1>4, <2>2, CapacityIs
      <3>2. live # {}
        BY <1>4, <3>1, FS_EmptySet
      <3> DEFINE ids == {t.id : t \in live}
      <3>3. ids \subseteq Nat /\ ids # {}
        BY <1>3, <3>2
      <3> HIDE DEF ids
      <3>4. PICK i \in ids : \A j \in ids : i <= j
        BY <3>3, Least
      <3>5. PICK t \in live : \A u \in live : t.id <= u.id
        BY <3>4 DEF ids
      <3>6. t \in oldest
        BY <3>1, <3>5
      <3> HIDE DEF live, oldest
      <3>7. kept \subseteq live \ {t}
        BY <1>2, <3>6
      <3>8. IsFiniteSet(live \ {t}) /\ Cardinality(live \ {t}) = Cardinality(live) - 1
        BY <1>4, <3>5, FS_RemoveElement
      <3>9. IsFiniteSet(kept) /\ Cardinality(kept) <= Cardinality(live \ {t}) /\ Cardinality(kept) \in Nat
        BY <3>7, <3>8, FS_Subset, FS_CardinalityType
      <3> QED
        BY <1>4, <3>8, <3>9, CapacityIs
    <2> QED
      BY <2>1, <2>2
  <1>6. kept \subseteq s.tokens
    OBVIOUS
  <1> HIDE DEF kept
  <1>7. Fewer(s, n) /\ IsState(n) /\ n.generation \in Nat /\ n.tokens = kept
    BY <1>3, <1>6, FewerWithout
  <1> HIDE DEF n, pendings
  <1>8. Fewer(n, Evicted(s)) /\ Evicted(s).tokens \subseteq kept
    BY <1>1, <1>7, FewerInvalidated DEF Fewer
  <1>9. Cardinality(Evicted(s).tokens) <= Cardinality(kept) /\ Cardinality(Evicted(s).tokens) \in Nat
        /\ Cardinality(kept) \in Nat
    BY <1>5, <1>8, FS_Subset, FS_CardinalityType
  <1> QED
    BY <1>5, <1>7, <1>8, <1>9, FewerTrans, CapacityIs

\* What the tokens and the reservation are, when the state of a call has become theirs.
LimitInv == IsState(State) /\ Numbered(State) /\ Limited(State)

LEMMA LimitHeld == HeldInv /\ Limited(State) => LimitInv
  BY DEF HeldInv, Held, LimitInv

LEMMA BecomesLimited ==
  ASSUME NEW s, IsState(s), Limited(s), Becomes(s) PROVE Limited(State)'
  <1>1. State' = s
    BY DEF IsState, Becomes, State
  <1>2. Limited(State')
    BY <1>1
  <1> QED
    BY <1>2 DEF Limited, TokensTyped

LEMMA FewerLimited ==
  ASSUME LimitInv, NEW s, Fewer(State, s), Becomes(s) PROVE Limited(State)'
  <1>1. Limited(s) /\ IsState(s)
    BY LimitedFewer DEF LimitInv, Fewer
  <1> QED
    BY <1>1, BecomesLimited

LEMMA SameLimited ==
  ASSUME Limited(State), UNCHANGED store PROVE Limited(State)'
  <1>1. State' = State
    BY DEF State, store
  <1>2. Limited(State')
    BY <1>1
  <1> QED
    BY <1>2 DEF Limited, TokensTyped

LEMMA StateFewer == LimitInv => /\ IsState(State) /\ State.generation \in Nat /\ Fewer(State, State)
  BY FewerSame DEF LimitInv, Numbered

LEMMA IssuedLimited ==
  ASSUME NEW s, IsState(s), Numbered(s), Limited(s),
         NEW path \in Paths, NEW text, NEW op, NEW pending
  PROVE  LET issued == Issued(s, path, text, op, pending)
         IN  IsState(issued.state) /\ Limited(issued.state) /\ issued.state.generation \in Nat
  <1> DEFINE e == Evicted(s)
             t == NewToken(e, path, disk[path].version, text, op, pending)
             n == [tokens |-> e.tokens \cup {t}, reserved |-> e.reserved,
                   generation |-> e.generation, serial |-> e.serial + 1]
             issued == Issued(s, path, text, op, pending)
  <1>1. Fewer(s, e) /\ Cardinality(e.tokens) < MaxTokens
    BY FewerEvicted
  <1>2. IsState(e) /\ Limited(e) /\ e.generation \in Nat
    BY <1>1, LimitedFewer DEF Fewer
  <1>3. t.path = path /\ t.generation = e.generation
    BY DEF NewToken
  <1>4. [e EXCEPT !.tokens = @ \cup {t}, !.serial = @ + 1] = n
    <2> DEFINE live == e.tokens \cup {t}
               next == e.serial + 1
    <2> HIDE DEF e, t, live, next
    <2>1. [e EXCEPT !.tokens = live, !.serial = next] =
            [tokens |-> live, reserved |-> e.reserved, generation |-> e.generation, serial |-> next]
      BY <1>2, StateExcept
    <2> QED
      BY <2>1 DEF live, next
  <1>5. issued.state = e \/ issued.state = n
    <2> HIDE DEF e
    <2>1. CASE pending # None /\ ~Matches(e, pending, path)
      <3>1. issued = [state |-> e, token |-> None]
        BY <2>1 DEF Issued, e
      <3> QED
        BY <3>1
    <2>2. CASE ~(pending # None /\ ~Matches(e, pending, path))
      <3>1. issued = [state |-> n, token |-> t]
        BY <2>2, <1>4 DEF Issued, e
      <3> QED
        BY <3>1
    <2> QED
      BY <2>1, <2>2
  <1> HIDE DEF e, t
  <1>6. IsFiniteSet(e.tokens \cup {t}) /\ Cardinality(e.tokens \cup {t}) <= MaxTokens
    <2>1. IsFiniteSet(e.tokens) /\ Cardinality(e.tokens) \in Nat
      BY <1>2, FS_CardinalityType DEF Limited
    <2>2. /\ IsFiniteSet(e.tokens \cup {t})
          /\ Cardinality(e.tokens \cup {t}) = IF t \in e.tokens THEN Cardinality(e.tokens)
                                              ELSE Cardinality(e.tokens) + 1
      BY <2>1, FS_AddElement
    <2> QED
      BY <1>1, <2>1, <2>2, CapacityIs
  <1>7. IsState(n) /\ Limited(n) /\ n.generation \in Nat
    BY <1>2, <1>3, <1>6 DEF IsState, Limited, TokensTyped
  <1> HIDE DEF n, issued
  <1> QED
    BY <1>2, <1>5, <1>7 DEF issued

LEMMA IssueTokenLimited ==
  ASSUME LimitInv, NEW path \in Paths, NEW text, NEW op, NEW pending
  PROVE  LET issued == IssueToken(path, text, op, pending)
         IN  IsState(issued.state) /\ Limited(issued.state) /\ issued.state.generation \in Nat
  <1> DEFINE issued == IssueToken(path, text, op, pending)
             issue == Issued(State, path, text, op, pending)
  <1>1. \/ issued = [state |-> Cancelled(State, pending), token |-> None]
        \/ issued = [state |-> State, token |-> None]
        \/ issued = issue
    BY DEF IssueToken
  <1>2. IsState(State) /\ Numbered(State) /\ Limited(State) /\ State.generation \in Nat
    BY StateFewer DEF LimitInv
  <1>3. Fewer(State, Cancelled(State, pending))
    BY <1>2, FewerCancelled
  <1>4. /\ IsState(Cancelled(State, pending)) /\ Limited(Cancelled(State, pending))
        /\ Cancelled(State, pending).generation \in Nat
    BY <1>2, <1>3, LimitedFewer DEF Fewer
  <1>5. IsState(issue.state) /\ Limited(issue.state) /\ issue.state.generation \in Nat
    BY <1>2, IssuedLimited
  <1> HIDE DEF issued, issue
  <1> QED
    BY <1>1, <1>2, <1>4, <1>5 DEF issued

(***************************************************************************)
(* The calls and the limits.                                               *)
(***************************************************************************)
LEMMA WritesLimited ==
  ASSUME LimitInv, NEW s, Fewer(State, s), NEW pending, NEW path, NEW text, NEW expected, NEW faulty, NEW answer,
         Writes(s, pending, path, text, expected, faulty, answer)
  PROVE  Limited(State)'
  <1>1. Becomes(Settled(s, pending, path)) \/ Becomes(Cancelled(s, pending))
    BY DEF Writes, Commit
  <1>2. IsState(s) /\ s.generation \in Nat
    BY DEF Fewer
  <1>3. Fewer(State, Settled(s, pending, path)) /\ Fewer(State, Cancelled(s, pending))
    BY <1>2, FewerSettled, FewerCancelled, FewerTrans
  <1> QED
    BY <1>1, <1>3, FewerLimited

LEMMA SaveLimited ==
  ASSUME LimitInv, NEW path, NEW text, NEW expected, NEW faulty, NEW answer,
         SaveExpected(path, text, expected, faulty, answer)
  PROVE  Limited(State)'
  BY StateFewer, WritesLimited, FewerLimited DEF SaveExpected, Fails

LEMMA SaveAsLimited ==
  ASSUME LimitInv, NEW pending, NEW path \in Paths, NEW text, NEW op, NEW faulty, NEW answer,
         SaveAsExpected(pending, path, text, op, faulty, answer)
  PROVE  Limited(State)'
  <1> DEFINE issued == Issued(State, path, text, op, pending)
             left1 == Cancelled(State, pending)
             left2 == Cancelled(issued.state, pending)
  <1>1. \/ Becomes(left1) \/ Becomes(left2) \/ Becomes(issued.state)
        \/ Writes(State, pending, path, text, 0, faulty, answer)
    BY DEF SaveAsExpected, Fails
  <1>2. IsState(issued.state) /\ Limited(issued.state) /\ issued.state.generation \in Nat
    BY StateFewer, IssuedLimited DEF LimitInv
  <1>3. Fewer(State, left1)
    BY StateFewer, FewerCancelled
  <1> HIDE DEF issued
  <1>4. IsState(left2) /\ Limited(left2)
    BY <1>2, FewerCancelled, LimitedFewer DEF Fewer
  <1> HIDE DEF left1, left2
  <1> QED
    BY <1>1, <1>2, <1>3, <1>4, StateFewer, WritesLimited, FewerLimited, BecomesLimited

LEMMA RetryLimited ==
  ASSUME LimitInv, NEW token, NEW path, NEW text, NEW op, NEW faulty, NEW answer,
         Retry(token, path, text, op, faulty, answer)
  PROVE  Limited(State)'
  <1> DEFINE s == Taken(State, token)
  <1>1. \/ Becomes(State)
        \/ \E t : \/ Writes(s, t.pending, path, text, t.version, faulty, answer)
                  \/ Becomes(Cancelled(s, t.pending))
    BY DEF Retry, Fails
  <1>2. Fewer(State, s)
    BY StateFewer, FewerTaken
  <1> HIDE DEF s
  <1>3. \A t : Fewer(State, Cancelled(s, t.pending))
    BY <1>2, FewerCancelled, FewerTrans DEF Fewer
  <1> QED
    BY <1>1, <1>2, <1>3, StateFewer, WritesLimited, FewerLimited

LEMMA ReserveLimited ==
  ASSUME LimitInv, NEW p, Reserve(p) PROVE Limited(State)'
  <1>1. /\ tokens' = tokens /\ reserved' = {Reservation(p)} /\ generation' = generation + 1
    BY DEF Reserve, Becomes, State
  <1>2. generation \in Nat /\ TokensTyped(tokens, generation) /\ IsFiniteSet(tokens) /\ Cardinality(tokens) <= MaxTokens
    BY DEF LimitInv, Numbered, Limited, State
  <1>3. TokensTyped(tokens, generation + 1)
    BY <1>2 DEF TokensTyped
  <1>4. Limited([tokens |-> tokens', reserved |-> reserved', generation |-> generation', serial |-> serial'])
    BY <1>1, <1>2, <1>3 DEF Limited
  <1> QED
    BY <1>4 DEF Limited, State, TokensTyped

\* The authorization advances, the tokens and the reservation stay.
LEMMA LaterLimited ==
  ASSUME LimitInv, generation' \in {generation, generation + 1}, UNCHANGED <<tokens, reserved>>
  PROVE  Limited(State)'
  <1>1. /\ generation \in Nat /\ TokensTyped(tokens, generation) /\ IsFiniteSet(tokens)
        /\ Cardinality(tokens) <= MaxTokens /\ (reserved = {} \/ \E q : reserved = {q})
    BY DEF LimitInv, Numbered, Limited, State
  <1>2. TokensTyped(tokens, generation')
    BY <1>1 DEF TokensTyped
  <1>3. Limited([tokens |-> tokens', reserved |-> reserved', generation |-> generation', serial |-> serial'])
    BY <1>1, <1>2 DEF Limited
  <1> QED
    BY <1>3 DEF Limited, State, TokensTyped

LEMMA ExpireLimited ==
  ASSUME LimitInv, Expire PROVE Limited(State)'
  <1>1. PICK t \in tokens : /\ tokens' = (tokens \ {t}) \cup {[t EXCEPT !.expired = TRUE]}
                            /\ UNCHANGED <<reserved, generation, serial>>
    BY DEF Expire
  <1> DEFINE u == [t EXCEPT !.expired = TRUE]
  <1>2. u.path = t.path /\ u.generation = t.generation
    <2>1. TokenOK(t)
      BY DEF LimitInv, Numbered, State
    <2> QED
      BY <2>1 DEF TokenOK
  <1> HIDE DEF u
  <1>3. tokens' = (tokens \ {t}) \cup {u}
    BY <1>1 DEF u
  <1>4. IsFiniteSet(tokens) /\ Cardinality(tokens) <= MaxTokens /\ Cardinality(tokens) \in Nat
    BY FS_CardinalityType DEF LimitInv, Limited, State
  <1>5. IsFiniteSet(tokens \ {t}) /\ Cardinality(tokens \ {t}) = Cardinality(tokens) - 1
        /\ Cardinality(tokens \ {t}) \in Nat
    BY <1>4, FS_RemoveElement, FS_CardinalityType
  <1>6. /\ IsFiniteSet(tokens')
        /\ Cardinality(tokens') \in {Cardinality(tokens \ {t}), Cardinality(tokens \ {t}) + 1}
    BY <1>3, <1>5, FS_AddElement
  <1>7. Cardinality(tokens') <= MaxTokens
    BY <1>4, <1>5, <1>6, CapacityIs
  <1> QED
    BY <1>1, <1>2, <1>3, <1>6, <1>7 DEF LimitInv, Limited, State, TokensTyped

(***************************************************************************)
(* Texts and paths, wherever they are.                                     *)
(***************************************************************************)
DiskTyped(d) == \A p \in Paths :
  d[p] = Missing \/ (d[p] = [text |-> d[p].text, version |-> d[p].version] /\ d[p].text \in Texts)
EventTyped(e) == e.watch.path \in Paths /\ (e.file = Missing \/ e.file.text \in Texts)
DialogTyped(x) == "text" \in DOMAIN x /\ x.text \in Texts /\ x.path \in Paths
DocTyped(m) == m.content \in Texts /\ m.saved \in Texts
EntryTyped(w) == {"for", "active"} \subseteq DOMAIN w /\ (w.active => w.for.path \in Paths)
OpTyped(o) ==
  /\ o.kind \in {"save", "save as"} => o.text \in Texts
  /\ o.kind = "save" => o.path \in Paths
  /\ o.kind = "overwrite" => DialogTyped(o.pending)
  /\ o.kind \in {"event", "register"} => EventTyped(o.event)
  /\ o.kind = "open" /\ o.stage = "answered" /\ o.answer # Refused => o.answer.text \in Texts
  /\ o.kind = "resolve" /\ o.stage = "answered" /\ o.answer # Refused => EventTyped(o.answer)
TypedInv ==
  /\ DiskTyped(disk) /\ DocTyped(doc) /\ EntryTyped(entry)
  /\ conflict # None => DialogTyped(conflict)
  /\ \A o \in Entries(queue) : OpTyped(o)
  /\ \A e \in Entries(wire) : EventTyped(e)

LEMMA NoneIs == None \notin Paths /\ None \notin Texts /\ Blank \in Texts
  BY SaveAssumption DEF SaveConstants

LEMMA SeqEntries ==
  ASSUME NEW q, q \in Seq(Entries(q))
  PROVE  /\ \A o : Entries(Append(q, o)) \subseteq Entries(q) \cup {o}
         /\ q # <<>> => /\ Head(q) \in Entries(q) /\ Entries(Tail(q)) \subseteq Entries(q)
                        /\ Tail(q) \in Seq(Entries(Tail(q)))
                        /\ \A o : Entries(<<o>> \o Tail(q)) \subseteq Entries(q) \cup {o}
  <1> DEFINE S == Entries(q)
  <1>1. q \in Seq(S) /\ Len(q) \in Nat /\ DOMAIN q = 1 .. Len(q)
    BY SeqIs
  <1>2. ASSUME NEW o PROVE Entries(Append(q, o)) \subseteq S \cup {o}
    <2> DEFINE r == Append(q, o)
               M == S \cup {o}
    <2>1. q \in Seq(M)
      BY <1>1
    <2>2. /\ r \in Seq(M) /\ DOMAIN r = 1 .. Len(q) + 1
          /\ \A i \in 1 .. Len(q) + 1 : r[i] = IF i = Len(q) + 1 THEN o ELSE q[i]
      BY <1>1, <2>1
    <2> HIDE DEF r
    <2> QED
      BY <1>1, <2>2 DEF Entries
  <1>3. ASSUME q # <<>>
        PROVE  /\ Head(q) \in S /\ Entries(Tail(q)) \subseteq S /\ Tail(q) \in Seq(Entries(Tail(q)))
               /\ \A o : Entries(<<o>> \o Tail(q)) \subseteq S \cup {o}
    <2> DEFINE r == Tail(q)
    <2>1. Head(q) \in S /\ Len(q) > 0
      BY <1>3, SeqIs
    <2>2. /\ r \in Seq(S) /\ Len(r) = Len(q) - 1 /\ DOMAIN r = 1 .. Len(q) - 1
          /\ \A i \in 1 .. Len(q) - 1 : r[i] = q[i + 1]
      BY <1>1, <2>1
    <2>3. r \in Seq(Entries(r))
      BY <2>2, OwnElements
    <2>4. Entries(r) \subseteq S
      BY <1>1, <2>1, <2>2 DEF Entries
    <2>5. ASSUME NEW o PROVE Entries(<<o>> \o r) \subseteq S \cup {o}
      <3> DEFINE t == <<o>> \o r
                 M == S \cup {o}
      <3>1. <<o>> \in Seq(M) /\ r \in Seq(M)
        BY <2>2
      <3> HIDE DEF r
      <3>2. t \in Seq(M)
        BY <3>1
      <3>3. Entries(t) \subseteq M
        <4> HIDE DEF t, M
        <4> QED
          BY <3>2 DEF Entries
      <3> QED
        BY <3>3
    <2> QED
      BY <2>1, <2>3, <2>4, <2>5
  <1> QED
    BY <1>2, <1>3

\* What the lemmas need of the other invariant.
LEMMA SeenIs ==
  SeenInv => /\ queue \in Seq(Entries(queue)) /\ wire \in Seq(Entries(wire))
             /\ disk = [p \in Paths |-> disk[p]] /\ doc.path \in Paths \cup {None}
             /\ conflict # None => DialogOK(conflict)
             /\ queue # <<>> => OpFits(disk, clock, Op)
  BY SeenParts DEF QueueFits, WireFits, DiskOK, DocFits

LEMMA HeadTyped == ASSUME SeenInv, TypedInv, queue # <<>> PROVE OpTyped(Op)
  BY SeenIs, SeqEntries DEF TypedInv, Op

(***************************************************************************)
(* The queue is typed                                                      *)
(***************************************************************************)
Filled == \A o \in Entries(queue) : OpTyped(o)

LEMMA AskTyped ==
  ASSUME SeenInv, TypedInv, NEW o, OpTyped(o), queue' = Append(queue, o) PROVE Filled'
  <1>1. Entries(queue') \subseteq Entries(queue) \cup {o}
    BY SeenIs, SeqEntries
  <1>2. \A x \in Entries(queue') : OpTyped(x)
    BY <1>1 DEF TypedInv
  <1> QED
    BY <1>2 DEF Filled

LEMMA StageTyped ==
  ASSUME SeenInv, TypedInv, queue # <<>>, NEW o, OpTyped(o), Stage(o) PROVE Filled'
  <1>1. Entries(queue') \subseteq Entries(queue) \cup {o}
    BY SeenIs, SeqEntries DEF Stage
  <1>2. \A x \in Entries(queue') : OpTyped(x)
    BY <1>1 DEF TypedInv
  <1> QED
    BY <1>2 DEF Filled

LEMMA DoneTyped ==
  ASSUME SeenInv, TypedInv, queue # <<>>, Done PROVE Filled'
  <1>1. Entries(queue') \subseteq Entries(queue)
    BY SeenIs, SeqEntries DEF Done
  <1>2. \A x \in Entries(queue') : OpTyped(x)
    BY <1>1 DEF TypedInv
  <1> QED
    BY <1>2 DEF Filled

LEMMA DoneAskTyped ==
  ASSUME SeenInv, TypedInv, queue # <<>>, NEW o, OpTyped(o), queue' = Append(Tail(queue), o) PROVE Filled'
  <1>1. Entries(queue') \subseteq Entries(queue) \cup {o}
    <2> DEFINE r == Tail(queue)
    <2>1. r \in Seq(Entries(r)) /\ Entries(r) \subseteq Entries(queue)
      BY SeenIs, SeqEntries
    <2> HIDE DEF r
    <2>2. Entries(Append(r, o)) \subseteq Entries(r) \cup {o}
      BY <2>1, SeqEntries
    <2> QED
      BY <2>1, <2>2 DEF r
  <1>2. \A x \in Entries(queue') : OpTyped(x)
    BY <1>1 DEF TypedInv
  <1> QED
    BY <1>2 DEF Filled

\* Operations as they are asked for are typed.
LEMMA SaveOpTyped ==
  ASSUME TypedInv, NEW kind \in {"save", "save as"}, kind = "save" => doc.path \in Paths
  PROVE  OpTyped(Operation(kind, SaveRequest))
  <1> DEFINE o == Operation(kind, SaveRequest)
  <1>1. o.kind = kind /\ o.stage = "asked" /\ o.path = doc.path /\ o.text = doc.content
    BY DEF Operation, SaveRequest
  <1> HIDE DEF o
  <1> QED
    BY <1>1 DEF OpTyped, TypedInv, DocTyped, o

LEMMA OtherOpTyped ==
  /\ \A p, g : OpTyped(Operation("open", [path |-> p, gen |-> g]))
  /\ \A op, c, w, g : OpTyped(Operation("resolve", [op |-> op, choice |-> c, watch |-> w, gen |-> g]))
  /\ \A x : DialogTyped(x) => OpTyped(Operation("overwrite", [pending |-> x, token |-> x.token]))
  /\ \A e : EventTyped(e) => /\ OpTyped(Operation("event", [event |-> e]))
                             /\ OpTyped(Operation("register", [event |-> e]))
  <1>1. ASSUME NEW p, NEW g PROVE OpTyped(Operation("open", [path |-> p, gen |-> g]))
    <2> DEFINE o == Operation("open", [path |-> p, gen |-> g])
    <2>1. o.kind = "open" /\ o.stage = "asked"
      BY DEF Operation
    <2> HIDE DEF o
    <2> QED
      BY <2>1 DEF OpTyped, o
  <1>2. ASSUME NEW op, NEW c, NEW w, NEW g
        PROVE  OpTyped(Operation("resolve", [op |-> op, choice |-> c, watch |-> w, gen |-> g]))
    <2> DEFINE o == Operation("resolve", [op |-> op, choice |-> c, watch |-> w, gen |-> g])
    <2>1. o.kind = "resolve" /\ o.stage = "asked"
      BY DEF Operation
    <2> HIDE DEF o
    <2> QED
      BY <2>1 DEF OpTyped, o
  <1>3. ASSUME NEW x, DialogTyped(x)
        PROVE  OpTyped(Operation("overwrite", [pending |-> x, token |-> x.token]))
    <2> DEFINE o == Operation("overwrite", [pending |-> x, token |-> x.token])
    <2>1. o.kind = "overwrite" /\ o.stage = "asked" /\ o.pending = x
      BY DEF Operation
    <2> HIDE DEF o
    <2> QED
      BY <1>3, <2>1 DEF OpTyped, o
  <1>4. ASSUME NEW e, EventTyped(e), NEW kind \in {"event", "register"}
        PROVE  OpTyped(Operation(kind, [event |-> e]))
    <2> DEFINE o == Operation(kind, [event |-> e])
    <2>1. o.kind = kind /\ o.stage = "asked" /\ o.event = e
      BY DEF Operation
    <2> HIDE DEF o
    <2> QED
      BY <1>4, <2>1 DEF OpTyped, o
  <1> QED
    BY <1>1, <1>2, <1>3, <1>4

\* An operation that has its answer, or moves on, is typed as it was.
LEMMA ConcludedTyped ==
  ASSUME NEW d, NEW c, NEW o, OpFits(d, c, o), OpTyped(o), NEW a,
         o.kind = "open" /\ a # Refused => a.text \in Texts,
         o.kind = "resolve" /\ a # Refused => EventTyped(a)
  PROVE  OpTyped(Concluded(o, a))
  <1> DEFINE n == Concluded(o, a)
             kept == DOMAIN o \ {"stage", "answer"}
  <1>1. {"kind", "stage", "answer"} \cup Fields(o.kind) \subseteq DOMAIN o
    BY DEF OpFits
  <1>2. DOMAIN n = DOMAIN o /\ n.stage = "answered" /\ n.answer = a /\ \A f \in kept : n[f] = o[f]
    BY <1>1 DEF Concluded
  <1> HIDE DEF n
  <1>3. /\ n.kind = o.kind
        /\ n.kind \in {"save", "save as"} => n.path = o.path /\ n.text = o.text
        /\ n.kind = "overwrite" => n.pending = o.pending
        /\ n.kind \in {"event", "register"} => n.event = o.event
    <2>1. n.kind = o.kind
      BY <1>1, <1>2
    <2> QED
      BY <1>1, <1>2, <2>1 DEF Fields
  <1> QED
    BY <1>2, <1>3 DEF OpTyped, n

LEMMA AnsweredTyped ==
  ASSUME SeenInv, TypedInv, queue # <<>>, NEW a, Answered(a),
         Op.kind = "open" /\ a # Refused => a.text \in Texts,
         Op.kind = "resolve" /\ a # Refused => EventTyped(a)
  PROVE  Filled'
  <1> DEFINE n == Concluded(Op, a)
  <1>1. Stage(n)
    BY DEF Answered, Concluded
  <1>2. OpFits(disk, clock, Op) /\ OpTyped(Op)
    BY SeenIs, HeadTyped
  <1>3. OpTyped(n)
    BY <1>2, ConcludedTyped
  <1> HIDE DEF n
  <1> QED
    BY <1>1, <1>3, StageTyped

(***************************************************************************)
(* What else is typed                                                      *)
(***************************************************************************)
LEMMA EntryExcept ==
  ASSUME NEW w, EntryTyped(w), NEW f, f \notin {"for", "active"}, NEW v
  PROVE  EntryTyped([w EXCEPT ![f] = v])
  BY DEF EntryTyped

LEMMA EntryActive ==
  ASSUME NEW w, EntryTyped(w), NEW v, v => w.for.path \in Paths
  PROVE  EntryTyped([w EXCEPT !.active = v])
  BY DEF EntryTyped

LEMMA EntryNoticed ==
  ASSUME NEW w, EntryTyped(w), NEW path, NEW text, NEW a
  PROVE  EntryTyped(Noticed(w)) /\ EntryTyped(Noticed(Expecting(w, path, text, a)))
  <1>1. ASSUME NEW x, EntryTyped(x) PROVE EntryTyped(Noticed(x))
    BY <1>1 DEF Noticed, EntryTyped
  <1>2. EntryTyped(Expecting(w, path, text, a))
    BY DEF Expecting, EntryTyped
  <1> QED
    BY <1>1, <1>2

LEMMA BusyTyped ==
  ASSUME NEW x, DialogOK(x), DialogTyped(x), NEW b PROVE DialogTyped([x EXCEPT !.busy = b])
  <1> DEFINE y == [x EXCEPT !.busy = b]
  <1>1. DOMAIN y = DOMAIN x /\ y.path = x.path /\ y.text = x.text
    BY DEF DialogOK, DialogTyped
  <1> HIDE DEF y
  <1> QED
    BY <1>1 DEF DialogTyped, y

LEMMA ExceptTyped ==
  ASSUME NEW d, NEW c, NEW m, DocFits(d, c, m), DocTyped(m), NEW t
  PROVE  /\ DocTyped([m EXCEPT !.known = t])
         /\ t \in Texts => DocTyped([m EXCEPT !.content = t]) /\ DocTyped([m EXCEPT !.saved = t])
  <1>1. m = [id |-> m.id, path |-> m.path, content |-> m.content, saved |-> m.saved, base |-> m.base,
             gen |-> m.gen, known |-> m.known]
    BY DEF DocFits
  <1>2. [m EXCEPT !.content = t] =
          [id |-> m.id, path |-> m.path, content |-> t, saved |-> m.saved, base |-> m.base,
           gen |-> m.gen, known |-> m.known]
    BY <1>1
  <1>3. [m EXCEPT !.known = t] =
          [id |-> m.id, path |-> m.path, content |-> m.content, saved |-> m.saved, base |-> m.base,
           gen |-> m.gen, known |-> t]
    BY <1>1
  <1>4. [m EXCEPT !.saved = t] =
          [id |-> m.id, path |-> m.path, content |-> m.content, saved |-> t, base |-> m.base,
           gen |-> m.gen, known |-> m.known]
    BY <1>1
  <1> QED
    BY <1>2, <1>3, <1>4 DEF DocTyped

LEMMA DocumentTyped ==
  ASSUME SeenInv, TypedInv, NEW v, NEW p, NEW t \in Texts
  PROVE  /\ DocTyped(Cleared) /\ DocTyped(Committed(v, t)) /\ DocTyped(Renamed(p, v, t))
         /\ \A f : f.text = t => DocTyped(Reloaded(f))
  <1>1. doc = [id |-> doc.id, path |-> doc.path, content |-> doc.content, saved |-> doc.saved,
               base |-> doc.base, gen |-> doc.gen, known |-> doc.known]
        /\ DOMAIN doc = {"id", "path", "content", "saved", "base", "gen", "known"}
    BY SeenParts DEF DocFits
  <1>2. doc.content \in Texts /\ doc.saved \in Texts
    BY DEF TypedInv, DocTyped
  <1>3. DocTyped(Cleared)
    BY NoneIs DEF Cleared, Document, DocTyped
  <1>4. DocTyped(Committed(v, t))
    <2> DEFINE n == [doc EXCEPT !.base = v]
    <2>1. n = [id |-> doc.id, path |-> doc.path, content |-> doc.content, saved |-> doc.saved, base |-> v,
               gen |-> doc.gen, known |-> doc.known]
      BY <1>1
    <2>2. Committed(v, t) = [n EXCEPT !.saved = t]
      BY DEF Committed
    <2> HIDE DEF n
    <2> QED
      BY <1>2, <2>1, <2>2 DEF DocTyped
  <1>5. DocTyped(Renamed(p, v, t))
    <2> DEFINE m1 == [doc EXCEPT !.gen = @ + 1]
               m2 == [m1 EXCEPT !.base = v]
               m3 == [m2 EXCEPT !.path = p]
    <2>1. DOMAIN m1 = DOMAIN doc /\ m1.content = doc.content
      BY <1>1
    <2> HIDE DEF m1
    <2>2. DOMAIN m2 = DOMAIN doc /\ m2.content = doc.content
      BY <1>1, <2>1
    <2> HIDE DEF m2
    <2>3. DOMAIN m3 = DOMAIN doc /\ m3.content = doc.content
      BY <1>1, <2>2
    <2> HIDE DEF m3
    <2>4. Renamed(p, v, t) = [m3 EXCEPT !.saved = t]
      BY DEF Renamed, m3, m2, m1
    <2> QED
      BY <1>1, <1>2, <2>3, <2>4 DEF DocTyped
  <1>6. ASSUME NEW f, f.text = t PROVE DocTyped(Reloaded(f))
    <2> DEFINE n == [doc EXCEPT !.content = f.text]
               k == [n EXCEPT !.saved = f.text]
    <2>1. DOMAIN n = DOMAIN doc /\ n.content = t
      BY <1>1, <1>6
    <2> HIDE DEF n
    <2>2. DOMAIN k = DOMAIN doc /\ k.content = t /\ k.saved = t
      BY <1>1, <1>6, <2>1
    <2> HIDE DEF k
    <2>3. Reloaded(f) = [k EXCEPT !.base = f.version]
      BY DEF Reloaded, k, n
    <2> QED
      BY <1>1, <2>2, <2>3 DEF DocTyped
  <1> QED
    BY <1>3, <1>4, <1>5, <1>6

LEMMA WriteTyped ==
  ASSUME SeenInv, TypedInv, NEW path, NEW t \in Texts, Write(path, t) PROVE DiskTyped(disk')
  <1>1. disk' = [disk EXCEPT ![path] = [text |-> t, version |-> clock + 1]]
    BY DEF Write
  <1>2. disk = [p \in Paths |-> disk[p]] /\ DiskTyped(disk)
    BY SeenIs DEF TypedInv
  <1>3. \A p \in Paths : disk'[p] = IF p = path THEN [text |-> t, version |-> clock + 1] ELSE disk[p]
    BY <1>1, <1>2
  <1> QED
    BY <1>2, <1>3 DEF DiskTyped

LEMMA CalledTyped ==
  ASSUME SeenInv, TypedInv, NEW path, NEW t \in Texts, NEW a, Called(path, t, a) PROVE DiskTyped(disk')
  BY WriteTyped DEF Called, TypedInv

LEMMA FileTyped ==
  ASSUME TypedInv, NEW p \in Paths PROVE disk[p] = Missing \/ disk[p].text \in Texts
  BY DEF TypedInv, DiskTyped

LEMMA TypedFrom ==
  ASSUME DiskTyped(disk'), DocTyped(doc'), EntryTyped(entry'), conflict' # None => DialogTyped(conflict'),
         Filled', \A e \in Entries(wire') : EventTyped(e)
  PROVE  TypedInv'
  BY DEF TypedInv, Filled

(***************************************************************************)
(* The actions and the types.                                              *)
(***************************************************************************)
\* The queue moves on, all else stays.
LEMMA QueueTyped ==
  ASSUME TypedInv, Filled', UNCHANGED <<disk, doc, conflict, entry, wire>> PROVE TypedInv'
  BY TypedFrom DEF TypedInv

\* The queue stays.
LEMMA EditTyped ==
  ASSUME TypedInv, DocTyped(doc'), EntryTyped(entry'), conflict' # None => DialogTyped(conflict'),
         UNCHANGED <<disk, queue, wire>>
  PROVE  TypedInv'
  <1>1. Filled'
    BY DEF TypedInv, Filled
  <1> QED
    BY <1>1, TypedFrom DEF TypedInv

\* The running operation ends.
LEMMA AppliedTyped ==
  ASSUME SeenInv, TypedInv, queue # <<>>, Done, DocTyped(doc'), EntryTyped(entry'),
         conflict' # None => DialogTyped(conflict'), UNCHANGED <<disk, wire>>
  PROVE  TypedInv'
  <1>1. Filled'
    BY DoneTyped
  <1> QED
    BY <1>1, TypedFrom DEF TypedInv

\* The running operation writes.
LEMMA CallTyped ==
  ASSUME SeenInv, TypedInv, queue # <<>>, Writer(Op), NEW path, NEW t \in Texts, NEW a,
         Called(path, t, a), Answered(a), Echo(path, t, a), UNCHANGED <<doc, conflict, wire>>
  PROVE  TypedInv'
  <1>1. DiskTyped(disk')
    BY CalledTyped
  <1>2. Filled'
    BY AnsweredTyped DEF Writer
  <1>3. EntryTyped(Noticed(Expecting(entry, path, t, a)))
    BY EntryNoticed DEF TypedInv
  <1>4. EntryTyped(entry')
    BY <1>3 DEF Echo
  <1> QED
    BY <1>1, <1>2, <1>4, TypedFrom DEF TypedInv

LEMMA TypedInit == Init => TypedInv
  <1> SUFFICES ASSUME Init PROVE TypedInv
    OBVIOUS
  <1>1. PICK p \in Paths, t \in Texts :
          /\ disk = [q \in Paths |-> IF q = p THEN [text |-> t, version |-> 1] ELSE Missing]
          /\ doc = Document(1, p, t, 1, 1)
          /\ conflict = None /\ queue = <<>> /\ wire = <<>>
          /\ entry = [for |-> [id |-> 1, path |-> p], gen |-> 1, seq |-> 1, last |-> 1, expects |-> None,
                      due |-> FALSE, active |-> TRUE]
    BY DEF Init
  <1>2. DiskTyped(disk)
    BY <1>1 DEF DiskTyped
  <1>3. DocTyped(doc)
    BY <1>1 DEF DocTyped, Document
  <1>4. EntryTyped(entry)
    BY <1>1 DEF EntryTyped
  <1>5. Entries(queue) = {} /\ Entries(wire) = {}
    BY <1>1 DEF Entries
  <1> QED
    BY <1>1, <1>2, <1>3, <1>4, <1>5 DEF TypedInv

LEMMA UserTyped == ASSUME SeenInv, TypedInv, User PROVE TypedInv'
  <1>0. /\ DocTyped(doc) /\ EntryTyped(entry) /\ (conflict # None => DialogTyped(conflict))
        /\ DocFits(disk, clock, doc) /\ (conflict # None => DialogOK(conflict))
    BY SeenParts DEF TypedInv
  <1>1. CASE Type
    <2>1. PICK t \in Texts : doc' = [doc EXCEPT !.content = t]
      BY <1>1 DEF Type
    <2>2. DocTyped(doc')
      BY <1>0, <2>1, ExceptTyped
    <2>3. UNCHANGED <<disk, queue, wire, entry, conflict>>
      BY <1>1 DEF Type, backend, watch
    <2> QED
      BY <1>0, <2>2, <2>3, EditTyped
  <1>2. CASE New \/ CloseDeletedDraft
    <2>1. /\ doc' = Cleared /\ UNCHANGED <<disk, queue, wire>> /\ conflict' \in {conflict, None}
          /\ entry' = entry \/ entry' = [entry EXCEPT !.active = FALSE]
      BY <1>2 DEF New, CloseDeletedDraft, backend, watch
    <2>2. DocTyped(doc')
      BY <2>1, NoneIs, DocumentTyped
    <2>3. EntryTyped([entry EXCEPT !.active = FALSE])
      BY <1>0, EntryActive
    <2> QED
      BY <1>0, <2>1, <2>2, <2>3, EditTyped
  <1>3. CASE Save \/ SaveAs
    <2>1. PICK kind \in {"save", "save as"} : /\ queue' = Append(queue, Operation(kind, SaveRequest))
                                              /\ kind = "save" => doc.path # None
      BY <1>3 DEF Save, SaveAs, Ask
    <2>2. kind = "save" => doc.path \in Paths
      BY <2>1, SeenIs
    <2> DEFINE o == Operation(kind, SaveRequest)
    <2>3. OpTyped(o)
      BY <2>2, SaveOpTyped
    <2>4. UNCHANGED <<disk, doc, conflict, entry, wire>>
      BY <1>3 DEF Save, SaveAs, backend, watch
    <2>5. queue' = Append(queue, o)
      BY <2>1
    <2> HIDE DEF o
    <2> QED
      BY <2>3, <2>4, <2>5, AskTyped, QueueTyped
  <1>4. CASE Open
    <2>1. PICK p : queue' = Append(queue, Operation("open", [path |-> p, gen |-> doc.gen]))
      BY <1>4 DEF Open, Ask
    <2> DEFINE o == Operation("open", [path |-> p, gen |-> doc.gen])
    <2>2. OpTyped(o)
      BY OtherOpTyped
    <2>3. UNCHANGED <<disk, doc, conflict, entry, wire>>
      BY <1>4 DEF Open, backend, watch
    <2>4. queue' = Append(queue, o)
      BY <2>1
    <2> HIDE DEF o
    <2> QED
      BY <2>2, <2>3, <2>4, AskTyped, QueueTyped
  <1>5. CASE Overwrite
    <2> DEFINE o == Operation("overwrite", [pending |-> conflict, token |-> conflict.token])
               busy == [conflict EXCEPT !.busy = TRUE]
    <2>1. conflict # None /\ conflict' = busy /\ queue' = Append(queue, o)
      BY <1>5 DEF Overwrite, Clicked
    <2>2. OpTyped(o)
      BY <1>0, <2>1, OtherOpTyped
    <2>3. DialogTyped(busy)
      BY <1>0, <2>1, BusyTyped
    <2>4. UNCHANGED <<disk, doc, entry, wire>>
      BY <1>5 DEF Overwrite, backend, watch
    <2> HIDE DEF o, busy
    <2>5. Filled'
      BY <2>1, <2>2, AskTyped
    <2> QED
      BY <2>1, <2>3, <2>4, <2>5, TypedFrom DEF TypedInv
  <1>6. CASE CancelConflict
    <2>1. UNCHANGED <<disk, doc, queue, wire, entry>> /\ conflict' = None
      BY <1>6 DEF CancelConflict, watch
    <2> QED
      BY <1>0, <2>1, EditTyped
  <1>7. CASE Resolve
    <2>1. PICK choice \in {"keep", "use"} :
            queue' = Append(queue, Operation("resolve",
                       [op |-> left["clicks"], choice |-> choice, watch |-> accepted.for, gen |-> accepted.gen]))
      BY <1>7 DEF Resolve, Ask
    <2> DEFINE o == Operation("resolve",
                      [op |-> left["clicks"], choice |-> choice, watch |-> accepted.for, gen |-> accepted.gen])
    <2>2. OpTyped(o)
      BY OtherOpTyped
    <2>3. UNCHANGED <<disk, doc, conflict, entry, wire>>
      BY <1>7 DEF Resolve, backend, watch
    <2>4. queue' = Append(queue, o)
      BY <2>1
    <2> HIDE DEF o
    <2> QED
      BY <2>2, <2>3, <2>4, AskTyped, QueueTyped
  <1> QED
    BY <1>1, <1>2, <1>3, <1>4, <1>5, <1>6, <1>7 DEF User

\* An operation that moves on without an answer is what it was.
LEMMA MovedTyped ==
  ASSUME NEW o, OpTyped(o), NEW n, n.kind = o.kind, n.stage # "answered",
         n.kind \in {"save as", "overwrite"},
         n.kind = "save as" => n.text = o.text, n.kind = "overwrite" => n.pending = o.pending
  PROVE  OpTyped(n)
  BY DEF OpTyped

LEMMA RunDialogTyped == ASSUME SeenInv, TypedInv, RunDialog PROVE TypedInv'
  <1>1. queue # <<>> /\ Op.kind = "save as" /\ OpFits(disk, clock, Op) /\ OpTyped(Op)
    BY SeenParts, HeadTyped DEF RunDialog, Running
  <1>2. UNCHANGED <<disk, doc, conflict, entry, wire>>
    BY DEF RunDialog, watch
  <1>3. CASE Answered(None)
    BY <1>1, <1>2, <1>3, AnsweredTyped, QueueTyped
  <1>4. ASSUME NEW p \in Paths, Accept(p) PROVE TypedInv'
    <2> DEFINE stage == IF disk[p] = Missing THEN "create" ELSE "issue"
               n == [Op EXCEPT !.path = p, !.pending = Reservation(p), !.stage = stage]
    <2>1. Stage(n)
      BY <1>4 DEF Accept
    <2>2. {"kind", "stage", "answer", "path", "source", "text", "pending"} \subseteq DOMAIN Op
      BY <1>1 DEF OpFits, Fields
    <2>3. stage # "answered"
      OBVIOUS
    <2> HIDE DEF stage
    <2>4. n.kind = "save as" /\ n.stage = stage /\ n.text = Op.text
      BY <1>1, <2>2
    <2> HIDE DEF n
    <2>5. OpTyped(n)
      BY <1>1, <2>3, <2>4, MovedTyped
    <2> QED
      BY <1>1, <1>2, <2>1, <2>5, StageTyped, QueueTyped
  <1> QED
    BY <1>3, <1>4 DEF RunDialog

LEMMA RunIssueTyped == ASSUME SeenInv, TypedInv, RunIssue PROVE TypedInv'
  <1> DEFINE id == IssueToken(Op.path, Op.text, Op.op, Op.pending).token.id
             n == [Op EXCEPT !.stage = "replace", !.answer = id]
  <1>1. queue # <<>> /\ Op.kind = "save as" /\ OpFits(disk, clock, Op) /\ OpTyped(Op)
    BY SeenParts, HeadTyped DEF RunIssue, Running
  <1>2. UNCHANGED <<disk, doc, conflict, entry, wire>>
    BY DEF RunIssue, watch
  <1>3. Answered(Refused) \/ Stage(n)
    BY DEF RunIssue
  <1>4. CASE Answered(Refused)
    BY <1>1, <1>2, <1>4, AnsweredTyped, QueueTyped
  <1>5. CASE Stage(n)
    <2> HIDE DEF id
    <2>1. {"kind", "stage", "answer", "path", "source", "text", "pending"} \subseteq DOMAIN Op
      BY <1>1 DEF OpFits, Fields
    <2>2. n.kind = "save as" /\ n.stage = "replace" /\ n.text = Op.text
      BY <1>1, <2>1
    <2> HIDE DEF n
    <2>3. OpTyped(n)
      BY <1>1, <2>2, MovedTyped
    <2> QED
      BY <1>1, <1>2, <1>5, <2>3, StageTyped, QueueTyped
  <1> QED
    BY <1>3, <1>4, <1>5

LEMMA RunOverwriteIssueTyped == ASSUME SeenInv, TypedInv, RunOverwriteIssue PROVE TypedInv'
  <1> DEFINE c == Op.pending
             id == IssueToken(c.path, c.text, c.op, None).token.id
             n == [Op EXCEPT !.stage = "retry"]
             k == [Op EXCEPT !.stage = "retry", !.token = id]
  <1>1. queue # <<>> /\ Op.kind = "overwrite" /\ OpFits(disk, clock, Op) /\ OpTyped(Op)
    BY SeenParts, HeadTyped DEF RunOverwriteIssue, Running
  <1>2. UNCHANGED <<disk, doc, conflict, entry, wire>>
    BY DEF RunOverwriteIssue, watch
  <1>3. Answered(Refused) \/ Stage(n) \/ Stage(k)
    BY DEF RunOverwriteIssue
  <1>4. CASE Answered(Refused)
    BY <1>1, <1>2, <1>4, AnsweredTyped, QueueTyped
  <1> HIDE DEF id, c
  <1>5. {"kind", "stage", "answer", "pending", "token"} \subseteq DOMAIN Op
    BY <1>1 DEF OpFits, Fields
  <1>6. CASE Stage(n)
    <2>1. n.kind = "overwrite" /\ n.stage = "retry" /\ n.pending = Op.pending
      BY <1>1, <1>5
    <2> HIDE DEF n
    <2>2. OpTyped(n)
      BY <1>1, <2>1, MovedTyped
    <2> QED
      BY <1>1, <1>2, <1>6, <2>2, StageTyped, QueueTyped
  <1>7. CASE Stage(k)
    <2>1. k.kind = "overwrite" /\ k.stage = "retry" /\ k.pending = Op.pending
      BY <1>1, <1>5
    <2> HIDE DEF k
    <2>2. OpTyped(k)
      BY <1>1, <2>1, MovedTyped
    <2> QED
      BY <1>1, <1>2, <1>7, <2>2, StageTyped, QueueTyped
  <1> QED
    BY <1>3, <1>4, <1>6, <1>7

\* A watch that is active is of a path, so its snapshot is typed.
LEMMA SnapshotTyped ==
  ASSUME TypedInv, NEW w, w.for.path \in Paths, NEW seq PROVE EventTyped(Snapshot(w, seq))
  BY FileTyped DEF Snapshot, EventTyped

LEMMA RunResolveTyped == ASSUME SeenInv, TypedInv, RunResolve PROVE TypedInv'
  <1>1. queue # <<>> /\ Op.kind = "resolve"
    BY DEF RunResolve, Running
  <1>2. UNCHANGED <<disk, doc, conflict, wire>>
    BY DEF RunResolve, backend
  <1>3. PICK a : /\ Answered(a)
                 /\ \/ a = Refused /\ UNCHANGED entry
                    \/ /\ entry.active /\ a = Snapshot(entry, entry.seq + 1)
                       /\ entry' = [entry EXCEPT !.seq = @ + 1, !.expects = None,
                                                 !.last = disk[entry.for.path].version]
    BY DEF RunResolve
  <1>4. a # Refused => EventTyped(a)
    BY <1>3, SnapshotTyped DEF TypedInv, EntryTyped
  <1>5. Filled'
    BY <1>1, <1>3, <1>4, AnsweredTyped
  <1>6. EntryTyped(entry')
    <2> DEFINE w1 == [entry EXCEPT !.seq = @ + 1]
               w2 == [w1 EXCEPT !.expects = None]
               w3 == [w2 EXCEPT !.last = disk[entry.for.path].version]
    <2>1. EntryTyped(w1)
      BY EntryExcept DEF TypedInv
    <2> HIDE DEF w1
    <2>2. EntryTyped(w2)
      BY <2>1, EntryExcept
    <2> HIDE DEF w2
    <2>3. EntryTyped(w3)
      BY <2>2, EntryExcept
    <2>4. entry' = entry \/ entry' = w3
      BY <1>3 DEF w1, w2
    <2> QED
      BY <2>3, <2>4 DEF TypedInv
  <1> QED
    BY <1>2, <1>5, <1>6, TypedFrom DEF TypedInv

LEMMA RunsTyped == ASSUME SeenInv, TypedInv, Runs PROVE TypedInv'
  <1>0. queue # <<>> => OpFits(disk, clock, Op) /\ OpTyped(Op)
    BY SeenParts, HeadTyped
  <1>1. CASE RunSave
    <2>1. PICK a : Called(Op.path, Op.text, a) /\ Answered(a) /\ Echo(Op.path, Op.text, a)
      BY <1>1, SaveCalled DEF RunSave
    <2>2. queue # <<>> /\ Writer(Op) /\ Op.text \in Texts
      BY <1>0, <1>1 DEF RunSave, Running, Writer, OpTyped
    <2>3. UNCHANGED <<doc, conflict, wire>>
      BY <1>1 DEF RunSave
    <2> QED
      BY <2>1, <2>2, <2>3, CallTyped
  <1>2. CASE RunSaveAs
    <2>1. PICK a : Called(Op.path, Op.text, a) /\ Answered(a) /\ Echo(Op.path, Op.text, a)
      BY <1>2, SaveAsCalled, RetryCalled DEF RunSaveAs
    <2>2. queue # <<>> /\ Writer(Op) /\ Op.text \in Texts
      BY <1>0, <1>2 DEF RunSaveAs, Running, Writer, OpTyped
    <2>3. UNCHANGED <<doc, conflict, wire>>
      BY <1>2 DEF RunSaveAs
    <2> QED
      BY <2>1, <2>2, <2>3, CallTyped
  <1>3. CASE RunOverwrite
    <2>1. PICK a : /\ Called(Op.pending.path, Op.pending.text, a) /\ Answered(a)
                   /\ Echo(Op.pending.path, Op.pending.text, a)
      BY <1>3, RetryCalled DEF RunOverwrite
    <2>2. queue # <<>> /\ Writer(Op) /\ Op.pending.text \in Texts
      BY <1>0, <1>3 DEF RunOverwrite, Running, Writer, OpTyped, DialogTyped
    <2>3. UNCHANGED <<doc, conflict, wire>>
      BY <1>3 DEF RunOverwrite
    <2> QED
      BY <2>1, <2>2, <2>3, CallTyped
  <1>4. CASE RunOverwriteLate
    <2>1. queue # <<>> /\ Op.kind = "overwrite" /\ Answered(None)
      BY <1>4 DEF RunOverwriteLate, Running
    <2>2. UNCHANGED <<disk, doc, conflict, entry, wire>>
      BY <1>4 DEF RunOverwriteLate, watch
    <2> QED
      BY <2>1, <2>2, AnsweredTyped, QueueTyped
  <1>5. CASE RunOpen
    <2>1. queue # <<>> /\ Op.kind = "open" /\ Op.path \in Paths
      BY <1>0, <1>5 DEF RunOpen, Running, OpFits
    <2>2. UNCHANGED <<disk, doc, conflict, entry, wire>>
      BY <1>5 DEF RunOpen, watch
    <2>3. PICK a : Answered(a) /\ (a = Refused \/ (disk[Op.path] # Missing /\ a = disk[Op.path]))
      BY <1>5 DEF RunOpen
    <2>4. a # Refused => a.text \in Texts
      BY <2>1, <2>3, FileTyped
    <2> QED
      BY <2>1, <2>2, <2>3, <2>4, AnsweredTyped, QueueTyped
  <1> QED
    BY <1>1, <1>2, <1>3, <1>4, <1>5, RunDialogTyped, RunIssueTyped, RunOverwriteIssueTyped,
       RunResolveTyped DEF Runs

LEMMA DialogTypedIs ==
  ASSUME Op.text \in Texts, NEW kind, NEW token, NEW path \in Paths, NEW resume
  PROVE  DialogTyped(Dialog(kind, token, path, resume))
  BY DEF Dialog, DialogTyped

\* What the answers of the calls make of the document.
LEMMA AnswerTyped ==
  ASSUME SeenInv, TypedInv, NEW t \in Texts, NEW a, NEW p
  PROVE  /\ DocTyped(doc) /\ DocTyped(Committed(a.version, t)) /\ DocTyped(Renamed(p, a.version, t))
         /\ DocTyped([doc EXCEPT !.known = @ /\ Known(a)])
  <1> DEFINE known == doc.known /\ Known(a)
  <1>1. DocTyped([doc EXCEPT !.known = known])
    BY SeenParts, ExceptTyped DEF TypedInv
  <1>2. DocTyped(Committed(a.version, t)) /\ DocTyped(Renamed(p, a.version, t))
    BY DocumentTyped
  <1> QED
    BY <1>1, <1>2 DEF TypedInv

LEMMA ApplySaveTyped == ASSUME SeenInv, TypedInv, ApplySave PROVE TypedInv'
  <1>1. queue # <<>> /\ Op.kind = "save" /\ Done /\ Op.text \in Texts /\ Op.path \in Paths
    BY AnsweredOf, HeadTyped DEF ApplySave, OpTyped
  <1>2. UNCHANGED <<disk, wire, entry>>
    BY DEF ApplySave, backend, watch
  <1>3. \/ doc' = doc \/ doc' = Committed(Op.answer.version, Op.text)
        \/ doc' = [doc EXCEPT !.known = @ /\ Known(Op.answer)]
    BY DEF ApplySave
  <1>4. conflict' = conflict \/ conflict' = Dialog("same file", 0, Op.path, None)
    BY DEF ApplySave
  <1>5. DocTyped(doc')
    BY <1>1, <1>3, AnswerTyped
  <1>6. conflict' # None => DialogTyped(conflict')
    BY <1>1, <1>4, DialogTypedIs DEF TypedInv
  <1>7. EntryTyped(entry')
    BY <1>2 DEF TypedInv
  <1> QED
    BY <1>1, <1>2, <1>5, <1>6, <1>7, AppliedTyped

LEMMA ApplySaveAsTyped == ASSUME SeenInv, TypedInv, ApplySaveAs PROVE TypedInv'
  <1> DEFINE a == Op.answer
  <1>1. /\ queue # <<>> /\ Op.kind = "save as" /\ Done /\ Op.text \in Texts
        /\ a # None /\ a.status = "conflict" => a.path \in Paths
    BY AnsweredOf, HeadTyped DEF ApplySaveAs, OpTyped, AnswerFits
  <1>2. UNCHANGED <<disk, wire, entry>>
    BY DEF ApplySaveAs, backend, watch
  <1>3. \/ doc' = doc \/ doc' = Renamed(a.path, a.version, Op.text)
        \/ doc' = [doc EXCEPT !.known = @ /\ Known(a)]
    BY DEF ApplySaveAs
  <1>4. \/ conflict' = conflict
        \/ /\ a # None /\ a.status = "conflict"
           /\ \E resume : conflict' = Dialog("save as", a.token, a.path, resume)
    BY DEF ApplySaveAs
  <1>5. DocTyped(doc')
    BY <1>1, <1>3, AnswerTyped
  <1>6. conflict' # None => DialogTyped(conflict')
    BY <1>1, <1>4, DialogTypedIs DEF TypedInv
  <1>7. EntryTyped(entry')
    BY <1>2 DEF TypedInv
  <1> QED
    BY <1>1, <1>2, <1>5, <1>6, <1>7, AppliedTyped

LEMMA ApplyOverwriteTyped == ASSUME SeenInv, TypedInv, ApplyOverwrite PROVE TypedInv'
  <1> DEFINE a == Op.answer
             x == Op.pending
  <1>1. queue # <<>> /\ Done /\ DialogOK(x) /\ DialogTyped(x)
    BY AnsweredOf, HeadTyped DEF ApplyOverwrite, OpTyped, OpFits
  <1>2. UNCHANGED <<disk, wire, entry>>
    BY DEF ApplyOverwrite, backend, watch
  <1>3. \/ doc' = doc \/ doc' = Renamed(a.path, a.version, x.text) \/ doc' = Committed(a.version, x.text)
        \/ doc' = [doc EXCEPT !.known = @ /\ Known(a)]
    BY DEF ApplyOverwrite
  <1>4. conflict' = conflict \/ conflict' = None \/ conflict' = [x EXCEPT !.busy = FALSE]
    BY DEF ApplyOverwrite
  <1>5. DocTyped(doc')
    BY <1>1, <1>3, AnswerTyped DEF DialogTyped
  <1>6. conflict' # None => DialogTyped(conflict')
    <2>1. DialogTyped([x EXCEPT !.busy = FALSE])
      BY <1>1, BusyTyped
    <2> QED
      BY <1>4, <2>1 DEF TypedInv
  <1>7. EntryTyped(entry')
    BY <1>2 DEF TypedInv
  <1> QED
    BY <1>1, <1>2, <1>5, <1>6, <1>7, AppliedTyped

LEMMA ApplyOpenTyped == ASSUME SeenInv, TypedInv, ApplyOpen PROVE TypedInv'
  <1> DEFINE a == Op.answer
             opened == Document(doc.id + 1, Op.path, a.text, a.version, doc.gen + 1)
  <1>1. queue # <<>> /\ Done /\ (a # Refused => a.text \in Texts)
    BY AnsweredOf, HeadTyped DEF ApplyOpen, Finished, Running, OpTyped
  <1>2. UNCHANGED <<disk, wire, entry, conflict>>
    BY DEF ApplyOpen, backend, watch
  <1>3. doc' = doc \/ (a # Refused /\ doc' = opened)
    BY DEF ApplyOpen, Failed
  <1>4. a # Refused => DocTyped(opened)
    BY <1>1 DEF DocTyped, Document
  <1> HIDE DEF opened
  <1>5. DocTyped(doc')
    BY <1>3, <1>4 DEF TypedInv
  <1>6. EntryTyped(entry') /\ (conflict' # None => DialogTyped(conflict'))
    BY <1>2 DEF TypedInv
  <1> QED
    BY <1>1, <1>2, <1>5, <1>6, AppliedTyped

LEMMA DecideTyped ==
  ASSUME SeenInv, TypedInv, NEW e, NEW heard, NEW w, Decide(e, heard, w), EventTyped(e), EntryTyped(w)
  PROVE  DocTyped(doc') /\ conflict' \in {conflict, None} /\ EntryTyped(entry')
  <1>1. Decision(e.file) = "reload" => e.file # Missing
    BY DEF Decision
  <1>2. \/ doc' = Reloaded(e.file) /\ e.file # Missing
        \/ doc' = Cleared
        \/ doc' = doc
    BY <1>1 DEF Decide
  <1>3. conflict' \in {conflict, None} /\ entry' \in {w, [w EXCEPT !.active = FALSE]}
    BY DEF Decide
  <1>4. EntryTyped([w EXCEPT !.active = FALSE])
    BY EntryActive
  <1>5. e.file # Missing => DocTyped(Reloaded(e.file))
    BY DocumentTyped DEF EventTyped
  <1>6. DocTyped(doc) /\ DocTyped(Cleared)
    BY NoneIs, DocumentTyped DEF TypedInv
  <1> QED
    BY <1>2, <1>3, <1>4, <1>5, <1>6

LEMMA EventActionTyped == ASSUME SeenInv, TypedInv, ApplyEvent \/ ApplyRegister PROVE TypedInv'
  <1>1. queue # <<>> /\ Op.kind \in {"event", "register"} /\ Done /\ UNCHANGED <<disk, wire>>
    BY DEF ApplyEvent, ApplyRegister
  <1>2. EventTyped(Op.event)
    BY <1>1, HeadTyped DEF OpTyped
  <1>3. \/ UNCHANGED <<doc, conflict, entry>>
        \/ \E heard : Decide(Op.event, heard, entry)
        \/ entry.for = Op.event.watch /\ \E heard : Decide(Op.event, heard, [entry EXCEPT !.active = TRUE])
    BY DEF ApplyEvent, ApplyRegister
  <1>4. EntryTyped(entry)
    BY DEF TypedInv
  <1>5. entry.for = Op.event.watch => EntryTyped([entry EXCEPT !.active = TRUE])
    BY <1>2, <1>4, EntryActive DEF EventTyped
  <1>6. DocTyped(doc') /\ conflict' \in {conflict, None} /\ EntryTyped(entry')
    <2>1. CASE UNCHANGED <<doc, conflict, entry>>
      BY <2>1 DEF TypedInv
    <2> QED
      BY <1>2, <1>3, <1>4, <1>5, <2>1, DecideTyped
  <1>7. conflict' # None => DialogTyped(conflict')
    BY <1>6 DEF TypedInv
  <1> QED
    BY <1>1, <1>6, <1>7, AppliedTyped

LEMMA ApplyResolveTyped == ASSUME SeenInv, TypedInv, ApplyResolve PROVE TypedInv'
  <1> DEFINE a == Op.answer
             gone == Resolvable /\ a.file = Missing /\ Dirty
             chosen == CASE ~Resolvable -> conflict
                         [] gone -> None
                         [] OTHER -> IF a.file # Missing /\ Op.choice = "keep" THEN Kept(a.file) ELSE conflict
             next == IF Op.choice = "keep" THEN Clicked(chosen, Tail(queue))
                     ELSE [conflict |-> chosen, queue |-> Tail(queue)]
  <1>1. /\ queue # <<>> /\ Op.kind = "resolve" /\ Op.stage = "answered"
        /\ AnswerFits(disk, clock, Op, a) /\ OpTyped(Op)
    BY SeenParts, HeadTyped DEF ApplyResolve, Running, OpFits
  <1>2. conflict' = next.conflict /\ queue' = next.queue /\ UNCHANGED <<disk, wire>>
    BY DEF ApplyResolve
  <1>3. Resolvable => a # Refused /\ EventTyped(a) /\ doc.path = a.watch.path /\ doc.path \in Paths
    BY <1>1 DEF Resolvable, Failed, AnswerFits, OpTyped, EventTyped
  <1>4. chosen # None => DialogOK(chosen) /\ DialogTyped(chosen)
    <2>1. DialogOK(Kept(a.file)) /\ (Resolvable => DialogTyped(Kept(a.file)))
      BY <1>3 DEF Kept, DialogOK, DialogTyped, TypedInv, DocTyped
    <2> QED
      BY <2>1, SeenParts DEF TypedInv
  <1> HIDE DEF chosen
  <1>5. \/ conflict' = chosen /\ Done
        \/ /\ chosen # None /\ conflict' = [chosen EXCEPT !.busy = TRUE]
           /\ queue' = Append(Tail(queue), Operation("overwrite", [pending |-> chosen, token |-> chosen.token]))
    BY <1>2 DEF Clicked, Done
  <1>6. conflict' # None => DialogTyped(conflict')
    <2>1. chosen # None => DialogTyped([chosen EXCEPT !.busy = TRUE])
      BY <1>4, BusyTyped
    <2> QED
      BY <1>4, <1>5, <2>1
  <1>7. Filled'
    <2> DEFINE o == Operation("overwrite", [pending |-> chosen, token |-> chosen.token])
    <2>1. chosen # None => OpTyped(o)
      BY <1>4, OtherOpTyped
    <2>2. Done \/ (chosen # None /\ queue' = Append(Tail(queue), o))
      BY <1>5
    <2> HIDE DEF o
    <2> QED
      BY <1>1, <2>1, <2>2, DoneTyped, DoneAskTyped
  <1>8. DocTyped(doc')
    <2>1. \/ doc' = doc \/ doc' = Cleared
          \/ Resolvable /\ a.file # Missing /\ doc' = Reloaded(a.file)
          \/ Resolvable /\ a.file # Missing /\ doc' = [doc EXCEPT !.saved = a.file.text]
      BY DEF ApplyResolve, Resolution
    <2>2. Resolvable /\ a.file # Missing => a.file.text \in Texts
      BY <1>3 DEF EventTyped
    <2>3. Resolvable /\ a.file # Missing => DocTyped(Reloaded(a.file))
      BY <2>2, DocumentTyped
    <2>4. Resolvable /\ a.file # Missing => DocTyped([doc EXCEPT !.saved = a.file.text])
      BY <2>2, SeenParts, ExceptTyped DEF TypedInv
    <2>5. DocTyped(doc) /\ DocTyped(Cleared)
      BY NoneIs, DocumentTyped DEF TypedInv
    <2> QED
      BY <2>1, <2>3, <2>4, <2>5
  <1>9. EntryTyped(entry')
    <2>1. entry' = entry \/ entry' = [entry EXCEPT !.active = FALSE]
      BY DEF ApplyResolve, Resolution
    <2>2. EntryTyped([entry EXCEPT !.active = FALSE])
      BY EntryActive DEF TypedInv
    <2> QED
      BY <2>1, <2>2 DEF TypedInv
  <1> QED
    BY <1>2, <1>6, <1>7, <1>8, <1>9, TypedFrom DEF TypedInv

LEMMA WatchesTyped == ASSUME SeenInv, TypedInv, Watches PROVE TypedInv'
  <1>0. /\ UNCHANGED <<disk, doc, conflict>> /\ wire \in Seq(Entries(wire)) /\ DiskTyped(disk') /\ DocTyped(doc')
        /\ EntryTyped(entry) /\ (conflict' # None => DialogTyped(conflict'))
    <2>1. UNCHANGED <<disk, doc, conflict>>
      BY DEF Watches, WatchRuns, Deliver, Rewatch, backend, session
    <2> QED
      BY <2>1, SeenIs DEF TypedInv
  <1>1. CASE WatchRuns
    <2> DEFINE e == Snapshot(entry, entry.seq + 1)
               seq == entry'.seq
               last == disk[entry.for.path].version
               w1 == [entry EXCEPT !.due = FALSE]
               w2 == [w1 EXCEPT !.expects = None]
               w3 == [w2 EXCEPT !.last = last]
    <2>1. entry.active /\ UNCHANGED queue /\ (wire' = wire \/ wire' = Append(wire, e))
      BY <1>1 DEF WatchRuns, session
    <2>2. EventTyped(e)
      BY <1>0, <2>1, SnapshotTyped DEF EntryTyped
    <2>3. \E s : entry' = [w3 EXCEPT !.seq = s]
      BY <1>1 DEF WatchRuns
    <2>4. EntryTyped(w1)
      BY <1>0, EntryExcept
    <2> HIDE DEF w1
    <2>5. EntryTyped(w2)
      BY <2>4, EntryExcept
    <2> HIDE DEF w2
    <2>6. EntryTyped(w3)
      BY <2>5, EntryExcept
    <2> HIDE DEF w3, e
    <2>7. EntryTyped(entry')
      BY <2>3, <2>6, EntryExcept
    <2>8. \A x \in Entries(wire') : EventTyped(x)
      <3>1. Entries(wire') \subseteq Entries(wire) \cup {e}
        BY <1>0, <2>1, SeqEntries
      <3> QED
        BY <2>2, <3>1 DEF TypedInv
    <2>9. Filled'
      BY <2>1 DEF TypedInv, Filled
    <2> QED
      BY <1>0, <2>7, <2>8, <2>9, TypedFrom
  <1>2. CASE Deliver
    <2> DEFINE e == Head(wire)
               o == Operation("event", [event |-> e])
    <2>1. wire # <<>> /\ wire' = Tail(wire) /\ UNCHANGED entry /\ (queue' = queue \/ queue' = Append(queue, o))
      BY <1>2 DEF Deliver
    <2>2. EventTyped(e) /\ \A x \in Entries(wire') : EventTyped(x)
      <3>1. e \in Entries(wire) /\ Entries(wire') \subseteq Entries(wire)
        BY <1>0, <2>1, SeqEntries
      <3> QED
        BY <3>1 DEF TypedInv
    <2> HIDE DEF e
    <2>3. OpTyped(o)
      BY <2>2, OtherOpTyped
    <2> HIDE DEF o
    <2>4. CASE queue' = queue
      <3>1. Filled'
        BY <2>4 DEF TypedInv, Filled
      <3> QED
        BY <1>0, <2>1, <2>2, <3>1, TypedFrom
    <2>5. CASE queue' = Append(queue, o)
      <3>1. Filled'
        BY <2>3, <2>5, AskTyped
      <3> QED
        BY <1>0, <2>1, <2>2, <3>1, TypedFrom
    <2> QED
      BY <2>1, <2>4, <2>5
  <1>3. CASE Rewatch
    <2> DEFINE e == Snapshot(Watching(doc.gen), 1)
               o == Operation("register", [event |-> e])
    <2>1. /\ UNCHANGED wire
          /\ \/ entry' = NotWatching /\ queue' = queue
             \/ Wanted.path # None /\ entry' = Watching(doc.gen) /\ queue' = Append(queue, o)
      BY <1>3 DEF Rewatch
    <2>2. \A x \in Entries(wire') : EventTyped(x)
      BY <2>1 DEF TypedInv
    <2>3. EntryTyped(NotWatching) /\ EntryTyped(Watching(doc.gen))
      BY DEF NotWatching, Watching, EntryTyped
    <2>4. Wanted.path # None => EventTyped(e)
      <3>1. Wanted.path # None => Watching(doc.gen).for.path \in Paths
        BY SeenIs DEF Wanted, Watching
      <3> QED
        BY <3>1, SnapshotTyped
    <2> HIDE DEF e
    <2>5. Wanted.path # None => OpTyped(o)
      BY <2>4, OtherOpTyped
    <2> HIDE DEF o
    <2>6. Filled'
      <3>1. CASE queue' = queue
        BY <3>1 DEF TypedInv, Filled
      <3> QED
        BY <2>1, <2>5, <3>1, AskTyped
    <2> QED
      BY <1>0, <2>1, <2>2, <2>3, <2>6, TypedFrom
  <1> QED
    BY <1>1, <1>2, <1>3 DEF Watches

LEMMA OutsideTyped == ASSUME SeenInv, TypedInv, Foreign \/ OtherCommand \/ TokenExpires PROVE TypedInv'
  <1>1. UNCHANGED <<doc, conflict, queue, wire>>
    BY DEF Foreign, OtherCommand, TokenExpires, session, watch
  <1>2. DiskTyped(disk') /\ EntryTyped(entry')
    <2>1. CASE Foreign
      <3>1. EntryTyped(entry')
        BY <2>1, EntryNoticed DEF Foreign, TypedInv
      <3>2. CASE ForeignWrite
        BY <3>1, <3>2, WriteTyped DEF ForeignWrite
      <3>3. CASE ForeignRemove
        <4>1. PICK p : disk' = [disk EXCEPT ![p] = Missing]
          BY <3>3 DEF ForeignRemove
        <4>2. disk = [q \in Paths |-> disk[q]]
          BY SeenIs
        <4>3. \A q \in Paths : disk'[q] = disk[q] \/ disk'[q] = Missing
          BY <4>1, <4>2
        <4> QED
          BY <3>1, <4>3 DEF TypedInv, DiskTyped
      <3> QED
        BY <2>1, <3>2, <3>3 DEF Foreign
    <2>2. CASE OtherCommand \/ TokenExpires
      <3>1. UNCHANGED <<disk, entry>>
        BY <2>2 DEF OtherCommand, TokenExpires, Elsewhere, Expire, watch
      <3> QED
        BY <3>1 DEF TypedInv
    <2> QED
      BY <2>1, <2>2
  <1>3. Filled' /\ \A x \in Entries(wire') : EventTyped(x)
    BY <1>1 DEF TypedInv, Filled
  <1> QED
    BY <1>1, <1>2, <1>3, TypedFrom DEF TypedInv

LEMMA TypedStep == ASSUME SeenInv, TypedInv, [Next]_vars PROVE TypedInv'
  <1>1. CASE UNCHANGED vars
    <2>1. UNCHANGED <<disk, doc, conflict, queue, entry, wire>>
      BY <1>1 DEF vars, backend, session, watch
    <2> QED
      BY <2>1 DEF TypedInv
  <1>2. CASE Applies
    BY <1>2, ApplySaveTyped, ApplySaveAsTyped, ApplyOverwriteTyped, ApplyOpenTyped, EventActionTyped,
       ApplyResolveTyped DEF Applies
  <1> QED
    BY <1>1, <1>2, UserTyped, RunsTyped, WatchesTyped, OutsideTyped DEF Next

(***************************************************************************)
(* The actions and the limits.                                             *)
(***************************************************************************)
LEMMA DropTokenLimited == ASSUME LimitInv, Becomes(DropToken(State)) PROVE Limited(State)'
  <1>1. DropToken(State) = State \/ DropToken(State) = CancelToken(State, conflict.token)
    BY DEF DropToken
  <1>2. Fewer(State, DropToken(State))
    BY <1>1, StateFewer, FewerTaken
  <1> QED
    BY <1>2, FewerLimited

LEMMA UserLimited == ASSUME LimitInv, User PROVE Limited(State)'
  <1>1. UNCHANGED store \/ Becomes(DropToken(State))
    BY DEF User, Type, Save, SaveAs, New, Open, Overwrite, CancelConflict, Resolve, CloseDeletedDraft,
           backend, store
  <1> QED
    BY <1>1, DropTokenLimited, SameLimited DEF LimitInv

LEMMA RunIssueLimited == ASSUME LimitInv, SeenInv, RunIssue PROVE Limited(State)'
  <1> DEFINE issued == IssueToken(Op.path, Op.text, Op.op, Op.pending)
             n == Cancelled(issued.state, Op.pending)
  <1>1. Op.path \in Paths
    BY SeenParts DEF RunIssue, Running, OpFits
  <1>2. IsState(issued.state) /\ Limited(issued.state) /\ issued.state.generation \in Nat
    BY <1>1, IssueTokenLimited
  <1>3. Becomes(issued.state) \/ Becomes(n)
    BY DEF RunIssue
  <1> HIDE DEF issued
  <1>4. IsState(n) /\ Limited(n)
    BY <1>2, FewerCancelled, LimitedFewer DEF Fewer
  <1> HIDE DEF n
  <1> QED
    BY <1>2, <1>3, <1>4, BecomesLimited

LEMMA RunOverwriteIssueLimited ==
  ASSUME LimitInv, SeenInv, TypedInv, RunOverwriteIssue PROVE Limited(State)'
  <1> DEFINE c == Op.pending
             issued == IssueToken(c.path, c.text, c.op, None)
  <1>1. c.path \in Paths
    BY HeadTyped DEF RunOverwriteIssue, Running, OpTyped, DialogTyped
  <1>2. IsState(issued.state) /\ Limited(issued.state)
    BY <1>1, IssueTokenLimited
  <1>3. UNCHANGED store \/ Becomes(issued.state)
    BY DEF RunOverwriteIssue
  <1> HIDE DEF issued
  <1> QED
    BY <1>2, <1>3, BecomesLimited, SameLimited DEF LimitInv

LEMMA RunsLimited == ASSUME LimitInv, SeenInv, TypedInv, Runs PROVE Limited(State)'
  <1>1. CASE RunSave
    BY <1>1, SaveLimited DEF RunSave
  <1>2. CASE RunDialog
    BY <1>2, SameLimited, ReserveLimited DEF RunDialog, Accept, LimitInv
  <1>3. CASE RunSaveAs
    <2>1. Op.path \in Paths
      BY <1>3, SeenParts DEF RunSaveAs, Running, OpFits
    <2> QED
      BY <1>3, <2>1, SaveAsLimited, RetryLimited DEF RunSaveAs
  <1>4. CASE RunOverwriteLate
    <2>1. UNCHANGED store \/ Becomes(CancelToken(State, Op.token))
      BY <1>4 DEF RunOverwriteLate
    <2>2. Fewer(State, CancelToken(State, Op.token))
      BY StateFewer, FewerTaken
    <2> QED
      BY <2>1, <2>2, FewerLimited, SameLimited DEF LimitInv
  <1>5. CASE RunOverwrite
    BY <1>5, RetryLimited DEF RunOverwrite
  <1>6. CASE RunResolve
    <2>1. UNCHANGED store
      BY <1>6 DEF RunResolve, backend, store
    <2> QED
      BY <2>1, SameLimited DEF LimitInv
  <1>7. CASE RunOpen
    <2>1. generation' \in {generation, generation + 1} /\ UNCHANGED <<tokens, reserved>>
      BY <1>7 DEF RunOpen
    <2> QED
      BY <2>1, LaterLimited
  <1> QED
    BY <1>1, <1>2, <1>3, <1>4, <1>5, <1>6, <1>7, RunIssueLimited, RunOverwriteIssueLimited DEF Runs

LEMMA AppliesLimited == ASSUME LimitInv, Applies PROVE Limited(State)'
  <1>1. UNCHANGED store \/ Becomes(State) \/ Becomes(DropToken(State))
    <2>1. CASE ApplySave \/ ApplySaveAs \/ ApplyOverwrite \/ ApplyOpen
      BY <2>1 DEF ApplySave, ApplySaveAs, ApplyOverwrite, ApplyOpen, backend, store
    <2>2. CASE ApplyEvent \/ ApplyRegister
      BY <2>2 DEF ApplyEvent, ApplyRegister, Decide
    <2>3. CASE ApplyResolve
      BY <2>3 DEF ApplyResolve
    <2> QED
      BY <2>1, <2>2, <2>3 DEF Applies
  <1>2. Becomes(State) => Limited(State)'
    BY StateFewer, FewerLimited
  <1> QED
    BY <1>1, <1>2, SameLimited, DropTokenLimited DEF LimitInv

LEMMA LimitStep == ASSUME LimitInv, SeenInv, TypedInv, [Next]_vars PROVE Limited(State)'
  <1>1. CASE UNCHANGED vars \/ Watches \/ Foreign
    <2>1. UNCHANGED store
      BY <1>1 DEF vars, Watches, WatchRuns, Deliver, Rewatch, Foreign, ForeignWrite, ForeignRemove,
                  backend, store
    <2> QED
      BY <2>1, SameLimited DEF LimitInv
  <1>2. CASE OtherCommand
    BY <1>2, LaterLimited DEF OtherCommand, Elsewhere
  <1>3. CASE TokenExpires
    BY <1>3, ExpireLimited DEF TokenExpires
  <1> QED
    BY <1>1, <1>2, <1>3, UserLimited, RunsLimited, AppliesLimited DEF Next

LEMMA LimitInit == Init => Limited(State)
  <1> SUFFICES ASSUME Init PROVE Limited(State)
    OBVIOUS
  <1>1. tokens = {} /\ reserved = {}
    BY DEF Init
  <1>2. IsFiniteSet(tokens) /\ Cardinality(tokens) = 0
    BY <1>1, FS_EmptySet
  <1> QED
    BY <1>1, <1>2, CapacityIs DEF Limited, State, TokensTyped

TypeInv == HeldInv /\ SeenInv /\ TypedInv /\ Limited(State)

LEMMA TypeStep == TypeInv /\ [Next]_vars => TypeInv'
  <1> SUFFICES ASSUME TypeInv, [Next]_vars PROVE TypeInv'
    OBVIOUS
  <1>1. HeldInv' /\ SeenInv'
    BY SaveAssumption, HeldStep, SeenStep DEF TypeInv
  <1>2. TypedInv'
    BY TypedStep DEF TypeInv
  <1>3. Limited(State)'
    BY LimitHeld, LimitStep DEF TypeInv
  <1> QED
    BY <1>1, <1>2, <1>3 DEF TypeInv

LEMMA TypeMeans == TypeInv => TypeOK
  <1> SUFFICES ASSUME TypeInv PROVE TypeOK
    OBVIOUS
  <1>1. disk \in [Paths -> [text : Texts \cup {None}, version : 0 .. clock]]
    <2>1. disk = [p \in Paths |-> disk[p]] /\ clock \in Nat /\ \A p \in Paths : disk[p].version \in 0 .. clock
      BY SeenParts DEF TypeInv, DiskOK
    <2>2. ASSUME NEW p \in Paths PROVE disk[p] \in [text : Texts \cup {None}, version : 0 .. clock]
      <3>1. disk[p].version \in 0 .. clock
        BY <2>1
      <3>2. CASE disk[p] = Missing
        BY <2>1, <3>2 DEF Missing
      <3>3. CASE disk[p] = [text |-> disk[p].text, version |-> disk[p].version] /\ disk[p].text \in Texts
        <4> DEFINE t == disk[p].text
                   v == disk[p].version
        <4>1. disk[p] = [text |-> t, version |-> v] /\ t \in Texts \cup {None} /\ v \in 0 .. clock
          BY <3>1, <3>3
        <4> HIDE DEF t, v
        <4> QED
          BY <4>1
      <3> QED
        BY <3>2, <3>3 DEF TypeInv, TypedInv, DiskTyped
    <2> QED
      BY <2>1, <2>2
  <1>2. \A t \in tokens : t.id <= serial /\ t.path \in Paths /\ t.generation <= generation
    BY DEF TypeInv, HeldInv, Held, Numbered, Limited, TokensTyped, State
  <1>3. Cardinality(tokens) <= MaxTokens
    BY DEF TypeInv, Limited, State
  <1>4. Cardinality(reserved) <= 1
    <2>1. reserved = {} \/ \E q : reserved = {q}
      BY DEF TypeInv, Limited, State
    <2>2. CASE reserved = {}
      <3>1. Cardinality(reserved) = 0
        BY <2>2, FS_EmptySet
      <3> QED
        BY <3>1
    <2>3. ASSUME NEW q, reserved = {q} PROVE Cardinality(reserved) <= 1
      <3>1. Cardinality(reserved) = 1
        BY <2>3, FS_Singleton
      <3> QED
        BY <3>1
    <2> QED
      BY <2>1, <2>2, <2>3
  <1>5. doc.path \in Paths \cup {None} /\ {doc.content, doc.saved} \subseteq Texts
    BY SeenIs DEF TypeInv, TypedInv, DocTyped
  <1> QED
    BY <1>1, <1>2, <1>3, <1>4, <1>5 DEF TypeOK

(***************************************************************************)
(* The types of the session: files hold texts under numbers of versions that *)
(* were given out, tokens are within their capacity, for paths of the        *)
(* session and of no later authorization, there is at most one reservation,  *)
(* and the document holds texts (DocumentSaveCoordinator of document_save.rs, *)
(* pending_save_authorities of path_auth.rs, useDocumentSession.ts).         *)
(***************************************************************************)
THEOREM TypeCorrect == Spec => []TypeOK
  <1>1. Init => TypeInv
    BY HeldInit, SeenInit, TypedInit, LimitInit DEF TypeInv
  <1> QED
    BY <1>1, TypeStep, TypeMeans, PTL DEF Spec
=============================================================================
