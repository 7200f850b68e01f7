------------------------- MODULE SavedSessionProofs -------------------------
(* Proofs about SavedSession, for every set of folders and files and every   *)
(* budget: the types; that a program closed in good order leaves its session *)
(* on disk, or a later one; and that nothing takes the place of the saved    *)
(* session before it has been restored.                                      *)
(*                                                                           *)
(* The inductive invariant SessionInv relates the command that runs to the   *)
(* saved session it was loaded from (JobOK) and to the record at the head of *)
(* the queue (SentOK), the records of the queue to their revisions (QueueOK) *)
(* and, the point of it, the close to the queue and the disk (DueOK): as     *)
(* long as the close waits, its record and all behind it are such that may   *)
(* be on disk in the end; once it goes on, one of them is on disk or the     *)
(* newest is still to be sent, and no destruction overtakes it.              *)
EXTENDS SavedSession, TLAPS

Sessions == Records \cup {None}
Queued == [rev : Nat, record : Records, done : {"sent", "ok", "error"}]
Jobs == [op : {"none", "restore", "persist", "trim"}, record : Sessions, staged : BOOLEAN]

\* The command that runs, the saved session, the phase and whether the restoration is over.
JobOK(d, j, ph, s) ==
  /\ d \in Records \cup {None, Broken}
  /\ j \in Jobs
  /\ j.op \in {"persist", "trim"} => j.record \in Records
  /\ j.staged => j.op \in {"persist", "trim"}
  /\ ph # "up" => j.op = "none"
  /\ j.op = "restore" => ~s /\ d = j.record
  /\ (j.op = "trim" /\ ~s) => d \in Records /\ j.record = [d EXCEPT !.active = None]
  /\ j.op = "persist" => s

\* Records are queued by their revision, and only the first may have been answered.
QueueOK(q, r) ==
  /\ r \in Nat
  /\ q \in Seq(Queued)
  /\ \A i \in 1 .. Len(q) : q[i].rev = (r - Len(q)) + i
  /\ \A i \in 2 .. Len(q) : q[i].done = "sent"
  /\ Len(q) <= r

\* The command that persists is for the first record.
SentOK(j, q) ==
  j.op = "persist" => q # <<>> /\ q[1].done = "sent" /\ q[1].record = j.record

\* What the close that waits, or goes on, relies on.
DueOK(d, q, r, c, u, s) ==
  /\ c \in Nat \cup {None}
  /\ u # {} => s /\ c # None
  /\ c \in Nat \ {0} =>
       /\ u # {} /\ q # <<>> /\ q[1].rev <= c /\ c <= r
       /\ \A i \in 1 .. Len(q) : q[i].rev >= c => q[i].record \in u
       /\ (q[1].rev = c /\ q[1].done = "ok") => d \in u
  /\ (c = 0 /\ u # {}) =>
       /\ \A i \in 1 .. Len(q) : q[i].record \in u
       /\ d \in u \/ (q # <<>> /\ q[Len(q)].done = "sent")
       /\ (q # <<>> /\ q[1].done # "sent") => d \in u

SessionInv ==
  /\ shown \in Sessions /\ settled \in BOOLEAN /\ phase \in {"down", "up", "closed"}
  /\ tree \in [roots : SUBSET Roots, files : SUBSET (Roots \X Names)]
  /\ JobOK(disk, job, phase, settled)
  /\ QueueOK(queue, rev)
  /\ SentOK(job, queue)
  /\ DueOK(disk, queue, rev, closing, due, settled)
  /\ (phase = "closed" /\ due # {}) => disk \in due

---------------------------------------------------------------------------
(* The queue: a record is put at its end, the first is answered, and leaves. *)

\* What is queued (enqueueWorkspaceSessionPersist).
LEMMA AppendIs ==
  ASSUME NEW q, NEW r, QueueOK(q, r), NEW x \in Records
  PROVE  LET p == Append(q, [rev |-> r + 1, record |-> x, done |-> "sent"])
         IN  /\ QueueOK(p, r + 1) /\ Len(p) = Len(q) + 1 /\ p # <<>>
             /\ p[Len(p)].record = x /\ p[Len(p)].done = "sent"
             /\ \A i \in 1 .. Len(q) : p[i] = q[i]
  <1> DEFINE e == [rev |-> r + 1, record |-> x, done |-> "sent"]
             p == Append(q, e)
  <1>1. r \in Nat /\ q \in Seq(Queued) /\ Len(q) \in Nat /\ Len(q) <= r
    BY DEF QueueOK
  <1>2. e \in Queued /\ e.rev = r + 1 /\ e.record = x /\ e.done = "sent"
    BY <1>1 DEF Queued
  <1> HIDE DEF e
  <1>3. /\ p \in Seq(Queued) /\ Len(p) = Len(q) + 1 /\ p[Len(p)] = e
        /\ \A i \in 1 .. Len(q) : p[i] = q[i]
    BY <1>1, <1>2
  <1>4. p # <<>>
    BY <1>1, <1>3
  <1> HIDE DEF p
  <1>5. \A i \in 1 .. Len(p) : p[i].rev = ((r + 1) - Len(p)) + i
    <2> TAKE i \in 1 .. Len(p)
    <2>1. CASE i = Len(p)
      BY <1>1, <1>2, <1>3, <2>1
    <2>2. CASE i \in 1 .. Len(q)
      <3>1. q[i].rev = (r - Len(q)) + i
        BY <2>2 DEF QueueOK
      <3>. QED BY <1>1, <1>3, <2>2, <3>1
    <2>. QED BY <1>1, <1>3, <2>1, <2>2
  <1>6. \A i \in 2 .. Len(p) : p[i].done = "sent"
    <2> TAKE i \in 2 .. Len(p)
    <2>1. CASE i = Len(p)
      BY <1>2, <1>3, <2>1
    <2>2. CASE i \in 2 .. Len(q)
      BY <1>1, <1>3, <2>2 DEF QueueOK
    <2>. QED BY <1>1, <1>3, <2>1, <2>2
  <1>7. QueueOK(p, r + 1)
    <2>1. r + 1 \in Nat /\ Len(p) <= r + 1
      BY <1>1, <1>3
    <2>. QED BY <1>3, <1>5, <1>6, <2>1 DEF QueueOK
  <1>. QED BY <1>2, <1>3, <1>4, <1>7 DEF e, p

\* What is answered (the command's result).
LEMMA AnswerIs ==
  ASSUME NEW q, NEW r, QueueOK(q, r), q # <<>>, NEW how \in {"ok", "error"}
  PROVE  LET p == [q EXCEPT ![1].done = how]
         IN  /\ QueueOK(p, r) /\ Len(p) = Len(q) /\ p # <<>> /\ Len(p) >= 1
             /\ p[1].rev = q[1].rev /\ p[1].record = q[1].record /\ p[1].done = how
             /\ \A i \in 2 .. Len(q) : p[i] = q[i]
  <1> DEFINE e == [q[1] EXCEPT !.done = how]
             p == [q EXCEPT ![1] = e]
  <1>1. r \in Nat /\ q \in Seq(Queued) /\ Len(q) \in Nat /\ Len(q) >= 1 /\ q[1] \in Queued
    BY DEF QueueOK
  <1>2. e \in Queued /\ e.rev = q[1].rev /\ e.record = q[1].record /\ e.done = how
    BY <1>1 DEF Queued
  <1> HIDE DEF e
  <1>3. /\ p \in Seq(Queued) /\ Len(p) = Len(q) /\ p[1] = e
        /\ \A i \in 2 .. Len(q) : p[i] = q[i]
    BY <1>1, <1>2
  <1>4. p # <<>>
    BY <1>1, <1>3
  <1>5. [q EXCEPT ![1].done = how] = p
    BY DEF e
  <1> HIDE DEF p
  <1>6. \A i \in 1 .. Len(p) : p[i].rev = (r - Len(p)) + i
    <2> TAKE i \in 1 .. Len(p)
    <2>1. q[i].rev = (r - Len(q)) + i
      BY <1>3 DEF QueueOK
    <2>2. p[i].rev = q[i].rev
      BY <1>1, <1>2, <1>3
    <2>. QED BY <1>3, <2>1, <2>2
  <1>7. QueueOK(p, r)
    BY <1>1, <1>3, <1>6 DEF QueueOK
  <1>. QED BY <1>1, <1>2, <1>3, <1>4, <1>5, <1>7

\* What is left when the first record has been heard of, or skipped.
LEMMA TailIs ==
  ASSUME NEW q, NEW r, QueueOK(q, r), q # <<>>
  PROVE  LET p == Tail(q)
         IN  /\ QueueOK(p, r) /\ Len(p) = Len(q) - 1 /\ Len(p) \in Nat
             /\ p = <<>> <=> Len(q) = 1
             /\ \A i \in 1 .. Len(p) : p[i] = q[i + 1] /\ p[i].done = "sent"
             /\ \A i \in 1 .. Len(p) : p[i].rev = (q[1].rev + i) /\ q[1].rev \in Nat
  <1> DEFINE p == Tail(q)
  <1>1. r \in Nat /\ q \in Seq(Queued) /\ Len(q) \in Nat /\ Len(q) >= 1 /\ Len(q) <= r
    BY DEF QueueOK
  <1>2. /\ p \in Seq(Queued) /\ Len(p) = Len(q) - 1 /\ Len(p) \in Nat
        /\ \A i \in 1 .. Len(p) : p[i] = q[i + 1]
    BY <1>1
  <1>3. p = <<>> <=> Len(q) = 1
    BY <1>1, <1>2
  <1> HIDE DEF p
  <1>4. \A i \in 1 .. Len(q) : q[i].rev = (r - Len(q)) + i
    BY DEF QueueOK
  <1>5. \A i \in 2 .. Len(q) : q[i].done = "sent"
    BY DEF QueueOK
  <1>6. \A i \in 1 .. Len(p) : p[i].done = "sent" /\ p[i].rev = (r - Len(p)) + i
                               /\ p[i].rev = (q[1].rev + i)
    <2> TAKE i \in 1 .. Len(p)
    <2>1. i + 1 \in 2 .. Len(q) /\ i + 1 \in 1 .. Len(q) /\ 1 \in 1 .. Len(q)
      BY <1>1, <1>2
    <2>2. q[i + 1].done = "sent" /\ q[i + 1].rev = (r - Len(q)) + (i + 1)
          /\ q[1].rev = (r - Len(q)) + 1
      BY <1>4, <1>5, <2>1
    <2>3. p[i] = q[i + 1]
      BY <1>2
    <2>. QED BY <1>1, <1>2, <2>2, <2>3
  <1>7. q[1].rev \in Nat
    BY <1>1, <1>4
  <1>8. QueueOK(p, r)
    BY <1>1, <1>2, <1>6 DEF QueueOK
  <1>. QED BY <1>2, <1>3, <1>6, <1>7, <1>8 DEF p
---------------------------------------------------------------------------
(* The close: what it relies on survives what happens to the queue, the disk *)
(* and the window.                                                           *)

\* The window shows something else, which is queued (Shows, Settles).
LEMMA DueAppend ==
  ASSUME NEW d, NEW q, NEW r, NEW c, NEW u, NEW s, NEW x \in Records, NEW w,
         QueueOK(q, r), DueOK(d, q, r, c, u, s), w = IF u = {} THEN u ELSE u \cup {x}
  PROVE  DueOK(d, Append(q, [rev |-> r + 1, record |-> x, done |-> "sent"]), r + 1, c, w, s)
  <1> DEFINE p == Append(q, [rev |-> r + 1, record |-> x, done |-> "sent"])
  <1>1. /\ Len(p) = Len(q) + 1 /\ p # <<>> /\ p[Len(p)].record = x /\ p[Len(p)].done = "sent"
        /\ \A i \in 1 .. Len(q) : p[i] = q[i]
    BY AppendIs
  <1>2. r \in Nat /\ Len(q) \in Nat /\ (q # <<>> => Len(q) >= 1)
    BY DEF QueueOK
  <1> HIDE DEF p
  <1>3. CASE u = {}
    BY <1>2, <1>3, SessionConstants DEF DueOK
  <1>4. CASE u # {}
    <2>1. w # {} /\ u \subseteq w /\ x \in w /\ s /\ c # None /\ c \in Nat
      BY <1>4 DEF DueOK
    <2>2. q # <<>> => p[1] = q[1]
      BY <1>1, <1>2
    <2>3. CASE c = 0
      <3>1. \A i \in 1 .. Len(q) : q[i].record \in u
        BY <1>4, <2>3 DEF DueOK
      <3>2. \A i \in 1 .. Len(p) : p[i].record \in w
        BY <1>1, <1>2, <2>1, <3>1
      <3>3. (q # <<>> /\ q[1].done # "sent") => d \in u
        BY <1>4, <2>3 DEF DueOK
      <3>4. p[1].done # "sent" => d \in w
        <4>1. CASE q = <<>>
          BY <1>1, <4>1
        <4>2. CASE q # <<>>
          BY <2>1, <2>2, <3>3, <4>2
        <4>. QED BY <4>1, <4>2
      <3>. QED BY <1>1, <2>1, <2>3, <3>2, <3>4 DEF DueOK
    <2>4. CASE c # 0
      <3>1. /\ q # <<>> /\ q[1].rev <= c /\ c <= r /\ c \in Nat \ {0}
            /\ \A i \in 1 .. Len(q) : q[i].rev >= c => q[i].record \in u
            /\ (q[1].rev = c /\ q[1].done = "ok") => d \in u
        BY <2>1, <2>4 DEF DueOK
      <3>2. \A i \in 1 .. Len(p) : p[i].rev >= c => p[i].record \in w
        BY <1>1, <1>2, <2>1, <3>1
      <3>3. p[1].rev <= c /\ c <= r + 1 /\ ((p[1].rev = c /\ p[1].done = "ok") => d \in w)
        BY <1>2, <2>1, <2>2, <3>1
      <3>. QED BY <1>1, <2>1, <2>4, <3>2, <3>3 DEF DueOK
    <2>. QED BY <2>3, <2>4
  <1>. QED BY <1>3, <1>4 DEF p

\* A close is asked for: the session it waits for is queued (flushWorkspaceSession).
LEMMA DueBegins ==
  ASSUME NEW d, NEW q, NEW r, NEW s, NEW x \in Records, QueueOK(q, r), s
  PROVE  DueOK(d, Append(q, [rev |-> r + 1, record |-> x, done |-> "sent"]), r + 1, r + 1, {x}, s)
  <1> DEFINE p == Append(q, [rev |-> r + 1, record |-> x, done |-> "sent"])
  <1>1. /\ Len(p) = Len(q) + 1 /\ p # <<>> /\ p[Len(p)].record = x /\ p[Len(p)].done = "sent"
        /\ QueueOK(p, r + 1)
    BY AppendIs
  <1>2. r \in Nat /\ Len(q) \in Nat
    BY DEF QueueOK
  <1> HIDE DEF p
  <1>3. \A i \in 1 .. Len(p) : p[i].rev = ((r + 1) - Len(p)) + i
    BY <1>1 DEF QueueOK
  <1>4. \A i \in 1 .. Len(p) : p[i].rev >= r + 1 => p[i].record \in {x}
    BY <1>1, <1>2, <1>3
  <1>5. p[1].rev <= r + 1
    BY <1>1, <1>2, <1>3
  <1>6. (p[1].rev = r + 1 /\ p[1].done = "ok") => d \in {x}
    BY <1>1, <1>2, <1>3
  <1>7. r + 1 \in Nat /\ r + 1 # 0 /\ r + 1 # None /\ r + 1 <= r + 1
    BY <1>2, SessionConstants
  <1>8. {x} # {}
    OBVIOUS
  <1> DEFINE n == r + 1
  <1> HIDE DEF n
  <1>9. DueOK(d, p, n, n, {x}, s)
    BY <1>1, <1>4, <1>5, <1>6, <1>7, <1>8 DEF DueOK, n
  <1>. QED BY <1>9 DEF p, n

\* The first record has been written, and becomes the saved session.
LEMMA DueSaved ==
  ASSUME NEW d, NEW q, NEW r, NEW c, NEW u, NEW s, QueueOK(q, r), q # <<>>, DueOK(d, q, r, c, u, s)
  PROVE  DueOK(q[1].record, [q EXCEPT ![1].done = "ok"], r, c, u, s)
  <1> DEFINE p == [q EXCEPT ![1].done = "ok"]
  <1>1. /\ Len(p) = Len(q) /\ p # <<>> /\ Len(p) >= 1
        /\ p[1].rev = q[1].rev /\ p[1].record = q[1].record
        /\ \A i \in 2 .. Len(q) : p[i] = q[i]
    BY AnswerIs
  <1>2. r \in Nat /\ Len(q) \in Nat
    BY DEF QueueOK
  <1> HIDE DEF p
  <1>3. \A i \in 1 .. Len(p) : p[i].record = q[i].record /\ p[i].rev = q[i].rev
    BY <1>1, <1>2
  <1>4. CASE c = 0 /\ u # {}
    BY <1>1, <1>2, <1>3, <1>4 DEF DueOK
  <1>5. CASE c \in Nat \ {0}
    <2>1. (q[1].rev = c) => q[1].record \in u
      BY <1>1, <1>2, <1>5 DEF DueOK
    <2>. QED BY <1>1, <1>2, <1>3, <1>5, <2>1 DEF DueOK
  <1>6. CASE u = {} /\ c \notin Nat \ {0}
    BY <1>6 DEF DueOK
  <1>7. c = 0 \/ c \notin Nat \ {0} \/ c \in Nat \ {0}
    OBVIOUS
  <1>8. u # {} => c \in Nat
    BY DEF DueOK
  <1>. QED BY <1>4, <1>5, <1>6, <1>8 DEF p

\* The first record has not been written; a close that goes on excuses it.
LEMMA DueFailed ==
  ASSUME NEW d, NEW q, NEW r, NEW c, NEW u, NEW s, QueueOK(q, r), q # <<>>,
         DueOK(d, q, r, c, u, s)
  PROVE  DueOK(d, [q EXCEPT ![1].done = "error"], r, c, IF c = 0 THEN {} ELSE u, s)
  <1> DEFINE p == [q EXCEPT ![1].done = "error"]
  <1>1. /\ Len(p) = Len(q) /\ p # <<>> /\ Len(p) >= 1
        /\ p[1].rev = q[1].rev /\ p[1].record = q[1].record /\ p[1].done = "error"
        /\ \A i \in 2 .. Len(q) : p[i] = q[i]
    BY AnswerIs
  <1>2. r \in Nat /\ Len(q) \in Nat
    BY DEF QueueOK
  <1> HIDE DEF p
  <1>3. \A i \in 1 .. Len(p) : p[i].record = q[i].record /\ p[i].rev = q[i].rev
    BY <1>1, <1>2
  <1>4. CASE c = 0
    BY <1>4, SessionConstants DEF DueOK
  <1>5. CASE c # 0
    BY <1>1, <1>2, <1>3, <1>5 DEF DueOK
  <1>. QED BY <1>4, <1>5 DEF p

\* The window hears of the first record, or skips it because a newer one waits: the close
\* that waits for it goes on.
LEMMA DueTail ==
  ASSUME NEW d, NEW q, NEW r, NEW c, NEW u, NEW s, QueueOK(q, r), q # <<>>,
         DueOK(d, q, r, c, u, s),
         NEW e, e = IF c = q[1].rev THEN 0 ELSE c,
         \/ q[1].done = "ok"
         \/ q[1].rev # r
         \/ c # q[1].rev /\ q[1].done # "sent"
  PROVE  DueOK(d, Tail(q), r, e, u, s)
  <1> DEFINE p == Tail(q)
  <1>1. /\ Len(p) = Len(q) - 1 /\ Len(p) \in Nat /\ (p = <<>> <=> Len(q) = 1)
        /\ \A i \in 1 .. Len(p) : p[i] = q[i + 1] /\ p[i].done = "sent"
                                /\ p[i].rev = (q[1].rev + i) /\ q[1].rev \in Nat
    BY TailIs
  <1>2. r \in Nat /\ Len(q) \in Nat /\ Len(q) >= 1 /\ Len(q) <= r
    BY DEF QueueOK
  <1> DEFINE k == q[1].rev
             n == Len(q)
  <1>3. k = (r - n) + 1
    BY <1>2 DEF QueueOK
  <1>8. /\ k \in Nat /\ k # 0 /\ n \in Nat
        /\ n = 1 => k = r
        /\ k # r => n # 1
    <2>1. n \in Nat /\ n >= 1 /\ n <= r /\ r \in Nat
      BY <1>2
    <2> HIDE DEF k, n
    <2>2. \A a, b \in Nat : a >= 1 /\ a <= b =>
            /\ (b - a) + 1 \in Nat /\ (b - a) + 1 # 0
            /\ a = 1 => (b - a) + 1 = b
            /\ (b - a) + 1 # b => a # 1
      OBVIOUS
    <2>. QED BY <1>3, <2>1, <2>2
  <1> HIDE DEF p
  <1>4. p # <<>> => p[1].done = "sent" /\ p[Len(p)].done = "sent" /\ p[1].rev = q[1].rev + 1
    BY <1>1, <1>2
  <1>5. CASE u = {}
    <2>1. c \notin Nat \ {0}
      BY <1>5 DEF DueOK
    <2>2. e = c
      BY <1>8, <2>1
    <2>. QED BY <1>5, <2>1, <2>2 DEF DueOK, p
  <1>6. CASE u # {} /\ c = 0
    <2>1. e = 0
      BY <1>6
    <2>2. \A i \in 1 .. Len(q) : q[i].record \in u
      BY <1>6 DEF DueOK
    <2>3. \A i \in 1 .. Len(p) : p[i].record \in u
      BY <1>1, <1>2, <2>2
    <2>4. d \in u \/ q[Len(q)].done = "sent"
      BY <1>6 DEF DueOK
    <2>5. q[1].done # "sent" => d \in u
      BY <1>6 DEF DueOK
    <2>6. ASSUME p = <<>>
          PROVE  d \in u
      <3>1. Len(q) = 1 /\ q[1].rev = r
        BY <1>1, <1>8, <2>6
      <3>2. q[1].done # "sent"
        BY <3>1
      <3>. QED BY <2>5, <3>2
    <2>7. s /\ 0 # None
      BY <1>6 DEF DueOK
    <2>. QED BY <1>4, <1>6, <2>1, <2>3, <2>6, <2>7 DEF DueOK, p
  <1>7. CASE u # {} /\ c # 0
    <2>1. /\ c \in Nat \ {0} /\ s /\ q[1].rev <= c /\ c <= r
          /\ \A i \in 1 .. Len(q) : q[i].rev >= c => q[i].record \in u
          /\ (q[1].rev = c /\ q[1].done = "ok") => d \in u
      BY <1>7 DEF DueOK
    <2>2. 0 # None /\ 0 \in Nat
      BY SessionConstants
    <2>3. CASE c = q[1].rev
      <3>1. e = 0
        BY <2>3
      <3>2. \A i \in 1 .. Len(p) : p[i].record \in u
        <4> TAKE i \in 1 .. Len(p)
        <4>1. i + 1 \in 1 .. Len(q) /\ p[i] = q[i + 1] /\ q[i + 1].rev = q[1].rev + i
          BY <1>1, <1>2
        <4>. QED BY <1>8, <2>1, <2>3, <4>1
      <3>3. ASSUME p = <<>>
            PROVE  d \in u
        <4>1. Len(q) = 1 /\ q[1].rev = r
          BY <1>1, <1>8, <3>3
        <4>2. q[1].done = "ok"
          BY <2>3, <4>1
        <4>. QED BY <2>1, <2>3, <4>2
      <3>. QED BY <1>4, <1>7, <2>1, <2>2, <3>1, <3>2, <3>3 DEF DueOK, p
    <2>4. CASE c # q[1].rev
      <3>1. e = c
        BY <2>4
      <3>2. p # <<>>
        <4>1. q[1].rev < c /\ q[1].rev # r
          BY <1>2, <1>8, <2>1, <2>4
        <4>2. Len(q) # 1
          BY <1>8, <4>1
        <4>. QED BY <1>1, <4>2
      <3>4. p[1].rev <= c
        BY <1>2, <1>4, <1>8, <2>1, <2>4, <3>2
      <3>3. \A i \in 1 .. Len(p) : p[i].rev >= c => p[i].record \in u
        <4> TAKE i \in 1 .. Len(p)
        <4>1. i + 1 \in 1 .. Len(q) /\ p[i] = q[i + 1]
          BY <1>1, <1>2
        <4>. QED BY <2>1, <4>1
      <3>. QED BY <1>4, <1>7, <2>1, <3>1, <3>2, <3>3, <3>4 DEF DueOK, p
    <2>. QED BY <2>3, <2>4
  <1>. QED BY <1>5, <1>6, <1>7
\* More may be on disk in the end, and it may be something else that may be.
LEMMA DueMore ==
  ASSUME NEW d, NEW q, NEW r, NEW c, NEW u, NEW s, NEW x, DueOK(d, q, r, c, u, s), u # {}
  PROVE  DueOK(d, q, r, c, u \cup {x}, s)
  BY DEF DueOK

LEMMA DueOther ==
  ASSUME NEW d, NEW q, NEW r, NEW c, NEW u, NEW s, NEW x, DueOK(d, q, r, c, u, s),
         u # {} => x \in u
  PROVE  DueOK(x, q, r, c, u, s)
  BY DEF DueOK

\* Without a session to keep, whatever happens to the rest is right.
LEMMA DueNone ==
  ASSUME NEW d, NEW q, NEW r, NEW c, NEW s, c \notin Nat \ {0}, c \in Nat \cup {None}
  PROVE  DueOK(d, q, r, c, {}, s)
  BY DEF DueOK

\* What the window queues keeps the queue in order and the close right.
LEMMA EffectKeeps ==
  ASSUME NEW d, NEW q, NEW r, NEW c, NEW u, NEW s, NEW x \in Sessions, NEW j, NEW w,
         QueueOK(q, r), DueOK(d, q, r, c, u, s), SentOK(j, q),
         w = IF u = {} THEN u ELSE u \cup {x},
         NEW p, NEW n,
         \/ x # None /\ n = r + 1 /\ p = Append(q, [rev |-> r + 1, record |-> x, done |-> "sent"])
         \/ n = r /\ p = q
  PROVE  QueueOK(p, n) /\ DueOK(d, p, n, c, w, s) /\ SentOK(j, p)
  <1>1. CASE x # None /\ n = r + 1
             /\ p = Append(q, [rev |-> r + 1, record |-> x, done |-> "sent"])
    <2>1. x \in Records
      BY <1>1 DEF Sessions
    <2>2. QueueOK(p, n) /\ p # <<>> /\ \A i \in 1 .. Len(q) : p[i] = q[i]
      BY ONLY <1>1, <2>1, AppendIs, QueueOK(q, r)
    <2>3. DueOK(d, p, n, c, w, s)
      BY <1>1, <2>1, DueAppend
    <2>4. q # <<>> => p[1] = q[1]
      BY <2>2 DEF QueueOK
    <2>5. SentOK(j, p)
      BY <2>2, <2>4 DEF SentOK
    <2>. QED BY <2>2, <2>3, <2>5
  <1>2. CASE n = r /\ p = q
    <2>1. CASE u = {}
      BY <1>2, <2>1
    <2>2. CASE u # {}
      BY <1>2, <2>2, DueMore
    <2>. QED BY <2>1, <2>2
  <1>. QED BY <1>1, <1>2

\* The end of the restoration, with what is on disk then.
LEMMA SettlesKeeps ==
  ASSUME SessionInv, NEW x \in Sessions, Settles(x), closing' = closing,
         NEW d, d = disk \/ (due # {} => d \in due \cup {shown'}), NEW j, SentOK(j, queue)
  PROVE  /\ QueueOK(queue, rev)' /\ DueOK(d, queue', rev', closing', due', settled')
         /\ settled' = TRUE /\ shown' \in Sessions /\ SentOK(j, queue')
  <1>1. settled' = TRUE /\ shown' \in Sessions
    BY DEF Settles, SessionInv
  <1>2. DueOK(disk, queue, rev, closing, due, settled) /\ QueueOK(queue, rev)
    BY DEF SessionInv
  <1>3. DueOK(disk, queue, rev, closing, due, TRUE)
    BY <1>2 DEF DueOK
  <1>4. due' = IF due = {} THEN due ELSE due \cup {shown'}
    BY DEF Settles
  <1>5. \/ /\ shown' # None /\ rev' = rev + 1
           /\ queue' = Append(queue, [rev |-> rev + 1, record |-> shown', done |-> "sent"])
        \/ rev' = rev /\ queue' = queue
    BY DEF Settles, Effect, Enqueued
  <1> DEFINE y == shown'
             p == queue'
             n == rev'
             w == due'
  <1>6. y \in Sessions
    BY <1>1
  <1>7. w = IF due = {} THEN due ELSE due \cup {y}
    BY <1>4
  <1>8. \/ /\ y # None /\ n = rev + 1
           /\ p = Append(queue, [rev |-> rev + 1, record |-> y, done |-> "sent"])
        \/ n = rev /\ p = queue
    BY <1>5
  <1> HIDE DEF y, p, n, w
  <1>9. QueueOK(p, n) /\ DueOK(disk, p, n, closing, w, TRUE) /\ SentOK(j, p)
    BY ONLY <1>2, <1>3, <1>6, <1>7, <1>8, EffectKeeps, SentOK(j, queue)
  <1>10. d = disk \/ (w # {} => d \in w)
    BY <1>7 DEF y
  <1>11. DueOK(d, p, n, closing, w, TRUE)
    <2>1. CASE d = disk
      BY <1>9, <2>1
    <2>2. CASE w # {} => d \in w
      BY ONLY <1>9, <2>2, DueOther
    <2>. QED BY <1>10, <2>1, <2>2
  <1>. QED BY <1>1, <1>9, <1>11 DEF p, n, w
---------------------------------------------------------------------------
(* The invariant holds at the start, and every step keeps it.                *)

LEMMA InvInit == Init => SessionInv
  <1> SUFFICES ASSUME Init
               PROVE  SessionInv
    OBVIOUS
  <1>1. Idle \in Jobs /\ Idle.op = "none" /\ Idle.staged = FALSE
    BY DEF Idle, Jobs, Sessions
  <1>2. JobOK(disk, job, phase, settled)
    BY <1>1 DEF Init, JobOK
  <1>3. QueueOK(queue, rev) /\ SentOK(job, queue) /\ DueOK(disk, queue, rev, closing, due, settled)
    BY <1>1, SessionConstants DEF Init, QueueOK, SentOK, DueOK
  <1>4. tree \in [roots : SUBSET Roots, files : SUBSET (Roots \X Names)]
    BY DEF Init
  <1>. QED BY <1>2, <1>3, <1>4 DEF Init, SessionInv, Sessions

\* What the window shows, and the start of the program.
LEMMA InvShows ==
  ASSUME SessionInv, Shows
  PROVE  SessionInv'
  <1>1. PICK x \in Records : /\ shown' = x /\ Effect(x, settled)
                             /\ due' = IF due = {} THEN due ELSE due \cup {x}
    BY DEF Shows
  <1>2. /\ UNCHANGED <<disk, tree, job, phase, settled, closing>>
        /\ phase = "up"
    BY DEF Shows
  <1>3. x \in Sessions
    BY DEF Sessions
  <1>4. \/ /\ x # None /\ rev' = rev + 1
           /\ queue' = Append(queue, [rev |-> rev + 1, record |-> x, done |-> "sent"])
        \/ rev' = rev /\ queue' = queue
    BY <1>1 DEF Effect, Enqueued
  <1>5. /\ QueueOK(queue, rev) /\ DueOK(disk, queue, rev, closing, due, settled)
        /\ SentOK(job, queue)
    BY DEF SessionInv
  <1> DEFINE p == queue'
             n == rev'
             w == due'
  <1>6. w = (IF due = {} THEN due ELSE due \cup {x})
    BY <1>1
  <1>7. \/ /\ x # None /\ n = rev + 1
           /\ p = Append(queue, [rev |-> rev + 1, record |-> x, done |-> "sent"])
        \/ n = rev /\ p = queue
    BY <1>4
  <1> HIDE DEF p, n, w
  <1>8. QueueOK(p, n) /\ DueOK(disk, p, n, closing, w, settled) /\ SentOK(job, p)
    BY ONLY <1>3, <1>5, <1>6, <1>7, EffectKeeps
  <1>9. QueueOK(queue, rev)' /\ DueOK(disk, queue, rev, closing, due, settled)' /\ SentOK(job, queue)'
    BY <1>2, <1>8 DEF p, n, w
  <1>. QED BY <1>1, <1>2, <1>3, <1>9 DEF SessionInv

LEMMA InvStarts ==
  ASSUME SessionInv, Starts
  PROVE  SessionInv'
  <1>1. /\ phase # "up" /\ phase' = "up" /\ shown' = None /\ settled' = FALSE /\ queue' = <<>>
        /\ rev' = 0 /\ closing' = None /\ due' = {} /\ UNCHANGED <<disk, tree, job>>
    BY DEF Starts
  <1>2. job.op = "none" /\ job \in Jobs
    BY <1>1 DEF SessionInv, JobOK
  <1>3. JobOK(disk, job, phase, settled)'
    BY <1>1, <1>2 DEF SessionInv, JobOK
  <1>4. QueueOK(queue, rev)' /\ SentOK(job, queue)' /\ DueOK(disk, queue, rev, closing, due, settled)'
    BY <1>1, <1>2, SessionConstants DEF QueueOK, SentOK, DueOK
  <1>. QED BY <1>1, <1>3, <1>4 DEF SessionInv, Sessions

\* The restoration that is cancelled.
LEMMA InvSettlesUnrestored ==
  ASSUME SessionInv, SettlesUnrestored
  PROVE  SessionInv'
  <1>1. /\ phase = "up" /\ ~settled /\ job.op # "restore" /\ settled' = TRUE /\ Effect(shown, TRUE)
        /\ UNCHANGED <<disk, tree, job, phase, shown, closing, due, used>>
    BY DEF SettlesUnrestored
  <1>2. due = {} /\ shown \in Sessions
    BY <1>1 DEF SessionInv, DueOK
  <1>3. Settles(None)
    BY <1>1, <1>2 DEF Settles
  <1>4. None \in Sessions /\ SentOK(job, queue) /\ closing' = closing
    BY <1>1 DEF Sessions, SessionInv
  <1>5. /\ QueueOK(queue, rev)' /\ DueOK(disk, queue', rev', closing', due', settled')
        /\ SentOK(job, queue')
    BY ONLY SessionInv, <1>2, <1>3, <1>4, SettlesKeeps
  <1>6. JobOK(disk, job, phase, settled)'
    BY <1>1 DEF SessionInv, JobOK
  <1>. QED BY <1>1, <1>5, <1>6 DEF SessionInv

\* The record is read, and one that is broken removed.
LEMMA InvLoad ==
  ASSUME SessionInv, Load
  PROVE  SessionInv'
  <1>1. /\ phase = "up" /\ ~settled /\ job = Idle
        /\ disk' = (IF disk = Broken THEN None ELSE disk) /\ job' = Save("restore", disk')
        /\ UNCHANGED <<tree, phase, shown, settled, queue, rev, closing, due, used>>
    BY DEF Load, window
  <1>2. disk' \in Sessions
    BY <1>1 DEF SessionInv, JobOK, Sessions
  <1>3. JobOK(disk, job, phase, settled)'
    BY <1>1, <1>2 DEF JobOK, Save, Jobs, Sessions
  <1>4. due = {} /\ SentOK(job, queue)'
    BY <1>1 DEF SessionInv, DueOK, SentOK, Save
  <1>5. DueOK(disk, queue, rev, closing, due, settled)'
    BY <1>1, <1>4 DEF SessionInv, DueOK
  <1>. QED BY <1>1, <1>3, <1>4, <1>5 DEF SessionInv

\* The restoration ends: without a record, with a failure, or with the record.
LEMMA InvRestored ==
  ASSUME SessionInv, RestoreNothing \/ RestoreFails \/ Restore
  PROVE  SessionInv'
  <1>1. /\ job.op = "restore" /\ job' = Idle /\ UNCHANGED <<tree, phase, closing>>
        /\ disk' \in {disk, None}
        /\ Settles(None) \/ Settles(job.record)
    BY DEF RestoreNothing, RestoreFails, Restore
  <1>2. due = {} /\ job.record \in Sessions /\ None \in Sessions
    BY <1>1 DEF SessionInv, JobOK, DueOK, Jobs, Sessions
  <1>3. SentOK(Idle, queue)
    BY DEF SentOK, Idle
  <1>4. \A d : due # {} => d \in due \cup {shown'}
    BY <1>2
  <1>5. /\ QueueOK(queue, rev)' /\ DueOK(disk', queue', rev', closing', due', settled')
        /\ settled' = TRUE /\ shown' \in Sessions /\ SentOK(Idle, queue')
    <2> DEFINE e == disk'
    <2> HIDE DEF e
    <2>1. due # {} => e \in due \cup {shown'}
      BY <1>4
    <2>2. closing' = closing
      BY <1>1
    <2>3. QueueOK(queue, rev)' /\ DueOK(e, queue', rev', closing', due', settled')
          /\ settled' = TRUE /\ shown' \in Sessions /\ SentOK(Idle, queue')
      BY ONLY SessionInv, <1>1, <1>2, <1>3, <2>1, <2>2, SettlesKeeps
    <2>. QED BY <2>3 DEF e
  <1>6. phase = "up"
    BY <1>1 DEF SessionInv, JobOK
  <1>7. JobOK(disk, job, phase, settled)'
    BY <1>1, <1>5 DEF SessionInv, JobOK, Idle, Jobs, Sessions
  <1>. QED BY <1>1, <1>5, <1>6, <1>7 DEF SessionInv

LEMMA InvRestoreWithoutFile ==
  ASSUME SessionInv, RestoreWithoutFile
  PROVE  SessionInv'
  <1> DEFINE x == [job.record EXCEPT !.active = None]
  <1>1. /\ job.op = "restore" /\ job.record # None /\ job' = Save("trim", x)
        /\ UNCHANGED <<disk, tree, phase, shown, settled, queue, rev, closing, due, used>>
    BY DEF RestoreWithoutFile, window
  <1>2. job.record \in Records /\ disk = job.record /\ ~settled /\ phase = "up"
    BY <1>1 DEF SessionInv, JobOK, Jobs, Sessions
  <1>3. x \in Records
    BY <1>2 DEF Records
  <1>4. JobOK(disk, job, phase, settled)'
    <2>1. x = [disk EXCEPT !.active = None] /\ disk \in Records
      BY <1>2
    <2> HIDE DEF x
    <2>2. Save("trim", x) \in Jobs /\ Save("trim", x).op = "trim" /\ Save("trim", x).record = x
          /\ Save("trim", x).staged = FALSE
      BY <1>3 DEF Save, Jobs, Sessions
    <2>. QED BY <1>1, <1>2, <1>3, <2>1, <2>2 DEF JobOK
  <1>5. SentOK(job, queue)'
    BY <1>1 DEF SentOK, Save
  <1>. QED BY <1>1, <1>4, <1>5 DEF SessionInv
\* The newest record is sent, and the command begins or refuses it.
LEMMA InvPersist ==
  ASSUME SessionInv, Persist
  PROVE  SessionInv'
  <1>1. /\ phase = "up" /\ queue # <<>> /\ queue[1].done = "sent" /\ settled /\ job = Idle
        /\ UNCHANGED <<disk, tree, phase, shown, settled, rev, closing, used>>
        /\ \/ job' = Save("persist", queue[1].record) /\ queue' = queue /\ due' = due
           \/ /\ queue' = [queue EXCEPT ![1].done = "error"] /\ job' = job
              /\ due' = IF closing = 0 THEN {} ELSE due
    BY DEF Persist, Sent, Answered, Excuses
  <1>2. QueueOK(queue, rev) /\ DueOK(disk, queue, rev, closing, due, settled)
    BY DEF SessionInv
  <1>3. CASE /\ job' = Save("persist", queue[1].record) /\ queue' = queue /\ due' = due
    <2> DEFINE x == queue[1].record
    <2>1. x \in Records
      <3>1. queue \in Seq(Queued) /\ queue # <<>>
        BY <1>1, <1>2 DEF QueueOK
      <3>2. queue[1] \in Queued
        BY <3>1
      <3>. QED BY <3>2 DEF Queued
    <2> HIDE DEF x
    <2>2. Save("persist", x) \in Jobs /\ Save("persist", x).op = "persist"
          /\ Save("persist", x).record = x /\ Save("persist", x).staged = FALSE
      BY <2>1 DEF Save, Jobs, Sessions
    <2>3. job' = Save("persist", x)
      BY <1>3 DEF x
    <2>4. JobOK(disk, job, phase, settled)'
      BY <1>1, <2>1, <2>2, <2>3 DEF JobOK, SessionInv
    <2>5. SentOK(job, queue)'
      BY <1>1, <1>3, <2>2, <2>3 DEF SentOK, x
    <2>. QED BY <1>1, <1>3, <2>4, <2>5 DEF SessionInv
  <1>4. CASE /\ queue' = [queue EXCEPT ![1].done = "error"] /\ job' = job
             /\ due' = IF closing = 0 THEN {} ELSE due
    <2>1. QueueOK(queue, rev)'
      BY <1>1, <1>2, <1>4, AnswerIs
    <2> DEFINE p == [queue EXCEPT ![1].done = "error"]
               w == IF closing = 0 THEN {} ELSE due
    <2>2. DueOK(disk, p, rev, closing, w, settled)
      BY <1>1, <1>2, DueFailed
    <2>3. queue' = p /\ due' = w
      BY <1>4
    <2> HIDE DEF p, w
    <2>4. DueOK(disk, queue, rev, closing, due, settled)'
      BY <1>1, <2>2, <2>3
    <2>5. SentOK(job, queue)'
      BY <1>1, <1>4 DEF SentOK, Idle
    <2>. QED BY <1>1, <1>4, <2>1, <2>4, <2>5 DEF SessionInv
  <1>. QED BY <1>1, <1>3, <1>4

\* A record that is not the newest is skipped.
LEMMA InvSkip ==
  ASSUME SessionInv, Skip
  PROVE  SessionInv'
  <1>1. /\ phase = "up" /\ queue # <<>> /\ (queue[1].rev = rev => ~settled)
        /\ job.op # "persist" /\ queue' = Tail(queue)
        /\ closing' = IF closing = queue[1].rev THEN 0 ELSE closing
        /\ UNCHANGED <<disk, tree, job, phase, shown, settled, rev, due, used>>
    BY DEF Skip, Sent
  <1>2. QueueOK(queue, rev) /\ DueOK(disk, queue, rev, closing, due, settled)
    BY DEF SessionInv
  <1>3. QueueOK(queue, rev)'
    BY <1>1, <1>2, TailIs
  <1> DEFINE e == IF closing = queue[1].rev THEN 0 ELSE closing
  <1>4. DueOK(disk, Tail(queue), rev, e, due, settled)
    <2>1. CASE queue[1].rev # rev
      BY <1>1, <1>2, <2>1, DueTail
    <2>2. CASE queue[1].rev = rev
      <3>1. due = {} /\ closing \notin Nat \ {0} /\ closing \in Nat \cup {None}
        BY <1>1, <1>2, <2>2 DEF DueOK
      <3>2. e \notin Nat \ {0} /\ e \in Nat \cup {None}
        BY <3>1
      <3>. QED BY <3>1, <3>2, DueNone
    <2>. QED BY <2>1, <2>2
  <1>5. closing' = e
    BY <1>1
  <1> HIDE DEF e
  <1>6. DueOK(disk, queue, rev, closing, due, settled)'
    BY <1>1, <1>4, <1>5
  <1>7. SentOK(job, queue)' /\ JobOK(disk, job, phase, settled)'
    BY <1>1 DEF SentOK, SessionInv
  <1>. QED BY <1>1, <1>3, <1>6, <1>7 DEF SessionInv

LEMMA InvStage ==
  ASSUME SessionInv, Stage
  PROVE  SessionInv'
  <1> DEFINE i == [job EXCEPT !.staged = TRUE]
  <1>1. /\ job.op \in {"persist", "trim"} /\ job' = i
        /\ UNCHANGED <<disk, tree, phase, shown, settled, queue, rev, closing, due, used>>
    BY DEF Stage, window
  <1>2. job \in Jobs
    BY DEF SessionInv, JobOK
  <1>3. i \in Jobs /\ i.op = job.op /\ i.record = job.record
    BY <1>2 DEF Jobs
  <1> HIDE DEF i
  <1>4. JobOK(disk, job, phase, settled)' /\ SentOK(job, queue)'
    BY <1>1, <1>3 DEF SessionInv, JobOK, SentOK
  <1>. QED BY <1>1, <1>4 DEF SessionInv

\* The record is written, or cannot be.
LEMMA InvReplace ==
  ASSUME SessionInv, Replace
  PROVE  SessionInv'
  <1>1. /\ job.staged /\ disk' = job.record /\ job' = Idle /\ Finished("ok")
        /\ UNCHANGED <<tree, phase, closing, used>>
    BY DEF Replace
  <1>2. /\ job.op \in {"persist", "trim"} /\ job.record \in Records /\ phase = "up"
        /\ job.op = "persist" => settled
        /\ QueueOK(queue, rev) /\ DueOK(disk, queue, rev, closing, due, settled)
        /\ SentOK(job, queue)
    BY <1>1 DEF SessionInv, JobOK
  <1>3. Idle \in Jobs /\ Idle.op = "none" /\ Idle.staged = FALSE
    BY DEF Idle, Jobs, Sessions
  <1>4. job.record \in Sessions
    BY <1>2 DEF Sessions
  <1>5. JobOK(disk, job, phase, settled)' /\ \A q : SentOK(Idle, q)
    BY <1>1, <1>2, <1>3 DEF JobOK, SentOK
  <1>6. CASE job.op = "persist"
    <2>1. /\ queue' = [queue EXCEPT ![1].done = "ok"] /\ due' = due
          /\ UNCHANGED <<rev, settled, shown>>
      BY <1>1, <1>6 DEF Finished, Answered
    <2>2. queue # <<>> /\ queue[1].record = job.record
      BY <1>2, <1>6 DEF SentOK
    <2>3. QueueOK(queue, rev)'
      BY <1>2, <2>1, <2>2, AnswerIs
    <2>4. DueOK(queue[1].record, [queue EXCEPT ![1].done = "ok"], rev, closing, due, settled)
      BY <1>2, <2>2, DueSaved
    <2>5. DueOK(disk, queue, rev, closing, due, settled)'
      BY <1>1, <2>1, <2>2, <2>4
    <2>. QED BY <1>1, <1>2, <1>5, <2>1, <2>3, <2>5 DEF SessionInv
  <1>7. CASE job.op = "trim"
    <2>1. Settles(job.record) /\ shown' = job.record
      BY <1>1, <1>2, <1>7, SessionConstants DEF Finished, Settles, Records
    <2>2. due # {} => job.record \in due \cup {shown'}
      BY <2>1
    <2> DEFINE x == job.record
    <2>3. x \in Sessions /\ Settles(x) /\ due # {} => x \in due \cup {shown'}
      BY <1>4, <2>1, <2>2
    <2>4. Settles(x) /\ x \in Sessions /\ closing' = closing /\ SentOK(Idle, queue)
      BY <1>1, <1>4, <1>5, <2>1
    <2>5. disk' = x
      BY <1>1
    <2> HIDE DEF x
    <2>6. /\ QueueOK(queue, rev)' /\ DueOK(x, queue', rev', closing', due', settled')
          /\ settled' = TRUE /\ shown' \in Sessions /\ SentOK(Idle, queue')
      BY ONLY SessionInv, <2>3, <2>4, SettlesKeeps
    <2>. QED BY <1>1, <1>2, <1>5, <2>5, <2>6 DEF SessionInv
  <1>. QED BY <1>2, <1>6, <1>7

LEMMA InvSaveFails ==
  ASSUME SessionInv, SaveFails
  PROVE  SessionInv'
  <1>1. /\ job.op \in {"persist", "trim"} /\ job' = Idle /\ Finished("error")
        /\ UNCHANGED <<disk, tree, phase, closing>>
    BY DEF SaveFails
  <1>2. /\ job.record \in Records /\ phase = "up"
        /\ job.op = "persist" => settled
        /\ QueueOK(queue, rev) /\ DueOK(disk, queue, rev, closing, due, settled)
        /\ SentOK(job, queue) /\ disk \in Records \cup {None, Broken}
    BY <1>1 DEF SessionInv, JobOK
  <1>3. Idle \in Jobs /\ Idle.op = "none" /\ Idle.staged = FALSE
    BY DEF Idle, Jobs, Sessions
  <1>4. job.record \in Sessions
    BY <1>2 DEF Sessions
  <1>5. JobOK(disk, job, phase, settled)' /\ \A q : SentOK(Idle, q)
    BY <1>1, <1>2, <1>3 DEF JobOK, SentOK
  <1>6. CASE job.op = "persist"
    <2> DEFINE p == [queue EXCEPT ![1].done = "error"]
               w == IF closing = 0 THEN {} ELSE due
    <2>1. queue' = p /\ due' = w /\ UNCHANGED <<rev, settled, shown>>
      BY <1>1, <1>6 DEF Finished, Answered, Excuses
    <2>2. queue # <<>>
      BY <1>2, <1>6 DEF SentOK
    <2>3. QueueOK(p, rev)
      BY <1>2, <2>2, AnswerIs
    <2>4. DueOK(disk, p, rev, closing, w, settled)
      BY <1>2, <2>2, DueFailed
    <2> HIDE DEF p, w
    <2>5. QueueOK(queue, rev)' /\ DueOK(disk, queue, rev, closing, due, settled)'
      BY <1>1, <2>1, <2>3, <2>4
    <2>. QED BY <1>1, <1>2, <1>5, <2>1, <2>5 DEF SessionInv
  <1>7. CASE job.op = "trim"
    <2>1. Settles(job.record)
      BY <1>1, <1>7 DEF Finished
    <2> DEFINE x == job.record
    <2>2. x \in Sessions /\ Settles(x) /\ closing' = closing /\ SentOK(Idle, queue)
      BY <1>1, <1>4, <1>5, <2>1
    <2> HIDE DEF x
    <2>3. /\ QueueOK(queue, rev)' /\ DueOK(disk, queue', rev', closing', due', settled')
          /\ settled' = TRUE /\ shown' \in Sessions /\ SentOK(Idle, queue')
      BY ONLY SessionInv, <2>2, SettlesKeeps
    <2>. QED BY <1>1, <1>2, <1>5, <2>3 DEF SessionInv
  <1>. QED BY <1>1, <1>6, <1>7
\* The window hears of the first record; the close that waits for it goes on, or is given up.
LEMMA InvHears ==
  ASSUME SessionInv, Hears
  PROVE  SessionInv'
  <1>1. /\ phase = "up" /\ queue # <<>> /\ queue[1].done # "sent" /\ queue' = Tail(queue)
        /\ closing' = IF closing # queue[1].rev THEN closing
                      ELSE IF queue[1].done = "ok" THEN 0 ELSE None
        /\ due' = (IF closing' = None THEN {} ELSE due)
        /\ UNCHANGED <<disk, tree, job, phase, shown, settled, rev, used>>
    BY DEF Hears
  <1>2. QueueOK(queue, rev) /\ DueOK(disk, queue, rev, closing, due, settled)
    BY DEF SessionInv
  <1>3. QueueOK(queue, rev)'
    BY <1>1, <1>2, TailIs
  <1>4. job.op # "persist"
    BY <1>1 DEF SessionInv, SentOK
  <1>5. SentOK(job, queue)' /\ JobOK(disk, job, phase, settled)'
    BY <1>1, <1>4 DEF SentOK, SessionInv
  <1> DEFINE e == IF closing = queue[1].rev THEN 0 ELSE closing
  <1>6. CASE closing # queue[1].rev \/ queue[1].done = "ok"
    <2>1. closing' = e
      <3>1. CASE closing # queue[1].rev
        BY <1>1, <3>1
      <3>2. CASE closing = queue[1].rev /\ queue[1].done = "ok"
        BY <1>1, <3>2
      <3>. QED BY <1>6, <3>1, <3>2
    <2>2. e \in Nat \cup {None} /\ (e = None => due = {})
      BY <1>2, SessionConstants DEF DueOK
    <2>3. due' = due
      BY <1>1, <2>1, <2>2
    <2>4. DueOK(disk, Tail(queue), rev, e, due, settled)
      BY <1>1, <1>2, <1>6, DueTail
    <2> HIDE DEF e
    <2>5. DueOK(disk, queue, rev, closing, due, settled)'
      BY <1>1, <2>1, <2>3, <2>4
    <2>. QED BY <1>1, <1>3, <1>5, <2>5 DEF SessionInv
  <1>7. CASE closing = queue[1].rev /\ queue[1].done # "ok"
    <2>1. closing' = None /\ due' = {}
      BY <1>1, <1>7
    <2>2. DueOK(disk, queue, rev, closing, due, settled)'
      BY <2>1, SessionConstants, DueNone
    <2>. QED BY <1>1, <1>3, <1>5, <2>2 DEF SessionInv
  <1>. QED BY <1>6, <1>7

\* The close: asked for, and carried out.
LEMMA InvCloseRequested ==
  ASSUME SessionInv, CloseRequested
  PROVE  SessionInv'
  <1>1. /\ phase = "up" /\ closing = None /\ UNCHANGED <<disk, tree, job, phase, shown, settled>>
        /\ \/ /\ settled /\ shown # None /\ rev' = rev + 1 /\ closing' = rev + 1 /\ due' = {shown}
              /\ queue' = Append(queue, [rev |-> rev + 1, record |-> shown, done |-> "sent"])
           \/ closing' = 0 /\ UNCHANGED <<queue, rev, due>>
    BY DEF CloseRequested, Await, Enqueued
  <1>2. /\ QueueOK(queue, rev) /\ DueOK(disk, queue, rev, closing, due, settled)
        /\ SentOK(job, queue) /\ JobOK(disk, job, phase, settled)
    BY DEF SessionInv
  <1>3. due = {}
    BY <1>1, <1>2 DEF DueOK
  <1>4. CASE /\ settled /\ shown # None /\ rev' = rev + 1 /\ closing' = rev + 1 /\ due' = {shown}
             /\ queue' = Append(queue, [rev |-> rev + 1, record |-> shown, done |-> "sent"])
    <2> DEFINE p == Append(queue, [rev |-> rev + 1, record |-> shown, done |-> "sent"])
               n == rev + 1
    <2>1. shown \in Records
      BY <1>4 DEF SessionInv, Sessions
    <2>2. QueueOK(p, n) /\ p # <<>> /\ (\A i \in 1 .. Len(queue) : p[i] = queue[i])
      BY <1>2, <2>1, AppendIs
    <2>3. DueOK(disk, p, n, n, {shown}, settled)
      BY <1>2, <1>4, <2>1, DueBegins
    <2>4. queue' = p /\ rev' = n /\ closing' = n
      BY <1>4
    <2> HIDE DEF p, n
    <2>5. queue # <<>> => p[1] = queue[1]
      BY <1>2, <2>2 DEF QueueOK
    <2>6. SentOK(job, p)
      BY <1>2, <2>2, <2>5 DEF SentOK
    <2>7. QueueOK(queue, rev)' /\ SentOK(job, queue)' /\ DueOK(disk, queue, rev, closing, due, settled)'
      BY <1>1, <1>4, <2>2, <2>3, <2>4, <2>6
    <2>. QED BY <1>1, <1>2, <2>7 DEF SessionInv
  <1>5. CASE closing' = 0 /\ UNCHANGED <<queue, rev, due>>
    <2>1. DueOK(disk, queue, rev, closing, due, settled)'
      BY <1>3, <1>5, DueNone
    <2>. QED BY <1>1, <1>2, <1>5, <2>1 DEF SessionInv
  <1>. QED BY <1>1, <1>4, <1>5

LEMMA InvDestroyed ==
  ASSUME SessionInv, Destroyed
  PROVE  SessionInv'
  <1>1. /\ closing = 0 /\ phase = "up" /\ job = Idle /\ phase' = "closed"
        /\ queue # <<>> => queue[1].done # "sent"
        /\ UNCHANGED <<disk, tree, job, shown, settled, queue, rev, closing, due, used>>
    BY DEF Destroyed
  <1>2. DueOK(disk, queue, rev, closing, due, settled)
    BY DEF SessionInv
  <1>3. due # {} => disk \in due
    BY <1>1, <1>2 DEF DueOK
  <1>4. JobOK(disk, job, phase, settled)'
    BY <1>1 DEF SessionInv, JobOK, Idle
  <1>. QED BY <1>1, <1>3, <1>4 DEF SessionInv

LEMMA InvKilled ==
  ASSUME SessionInv, Killed
  PROVE  SessionInv'
  <1>1. /\ phase' = "down" /\ job' = Idle
        /\ UNCHANGED <<disk, tree, shown, settled, queue, rev, closing, due>>
    BY DEF Killed
  <1>2. Idle \in Jobs /\ Idle.op = "none" /\ Idle.staged = FALSE
    BY DEF Idle, Jobs, Sessions
  <1>3. JobOK(disk, job, phase, settled)' /\ SentOK(job, queue)'
    BY <1>1, <1>2 DEF SessionInv, JobOK, SentOK
  <1>. QED BY <1>1, <1>3 DEF SessionInv

LEMMA InvForeign ==
  ASSUME SessionInv, Foreign
  PROVE  SessionInv'
  <1>1. UNCHANGED <<disk, job, phase, shown, settled, queue, rev, closing, due>>
    BY DEF Foreign, window
  <1>2. tree' \in [roots : SUBSET Roots, files : SUBSET (Roots \X Names)]
    <2>1. tree \in [roots : SUBSET Roots, files : SUBSET (Roots \X Names)]
      BY DEF SessionInv
    <2>2. CASE \E r \in Roots :
                 tree' = [tree EXCEPT !.roots = IF r \in @ THEN @ \ {r} ELSE @ \cup {r}]
      BY <2>1, <2>2
    <2>3. CASE \E f \in Roots \X Names :
                 tree' = [tree EXCEPT !.files = IF f \in @ THEN @ \ {f} ELSE @ \cup {f}]
      BY <2>1, <2>3
    <2>. QED BY <2>2, <2>3 DEF Foreign
  <1>. QED BY <1>1, <1>2 DEF SessionInv

LEMMA InvNext == SessionInv /\ [Next]_vars => SessionInv'
  <1>1. ASSUME SessionInv, UNCHANGED vars
        PROVE  SessionInv'
    BY <1>1 DEF vars, SessionInv
  <1>. QED BY <1>1, InvShows, InvStarts, InvSettlesUnrestored, InvLoad, InvRestored,
              InvRestoreWithoutFile, InvPersist, InvSkip, InvStage, InvReplace, InvSaveFails,
              InvHears, InvCloseRequested, InvDestroyed, InvKilled, InvForeign DEF Next

\* The invariant holds throughout.
THEOREM SessionInvariant == Spec => []SessionInv
  <1>1. Init => SessionInv
    BY InvInit
  <1>2. SessionInv /\ [Next]_vars => SessionInv'
    BY InvNext
  <1>. QED BY <1>1, <1>2, PTL DEF Spec

---------------------------------------------------------------------------
(* What follows from it.                                                     *)

\* Every variable has its type, and a command that saves has a record to save.
THEOREM SessionTypeCorrect == Spec => []TypeOK
  <1>1. SessionInv => TypeOK
    <2> SUFFICES ASSUME SessionInv
                 PROVE  TypeOK
      OBVIOUS
    <2>1. \A i \in DOMAIN queue : queue[i].record \in Records /\ queue[i].rev \in 1 .. rev
      <3>1. QueueOK(queue, rev)
        BY DEF SessionInv
      <3>2. rev \in Nat /\ queue \in Seq(Queued) /\ Len(queue) \in Nat /\ Len(queue) <= rev
        BY <3>1 DEF QueueOK
      <3> TAKE i \in DOMAIN queue
      <3>3. i \in 1 .. Len(queue)
        BY <3>2
      <3>4. queue[i] \in Queued
        BY <3>2, <3>3
      <3>5. queue[i].rev = (rev - Len(queue)) + i
        BY <3>1, <3>3 DEF QueueOK
      <3>6. (rev - Len(queue)) + i \in 1 .. rev
        BY <3>2, <3>3
      <3>. QED BY <3>4, <3>5, <3>6 DEF Queued
    <2>. QED BY <2>1 DEF SessionInv, TypeOK, JobOK, Sessions
  <1>. QED BY <1>1, SessionInvariant, PTL

\* A program that closed in good order left on disk the session it showed when the close
\* was asked for, or a later one (flushWorkspaceSession, the revision queue).
THEOREM CloseKeepsSessionCorrect == Spec => []CloseKeepsSession
  <1>1. SessionInv => CloseKeepsSession
    BY DEF SessionInv, CloseKeepsSession
  <1>. QED BY <1>1, SessionInvariant, PTL

\* The saved session is not replaced before the restoration is settled, except a record
\* that is broken, whose folder is gone, or whose active file is
\* (workspaceSessionRestoreSettledRef, restore_workspace_session_with_ports_inner).
THEOREM UnsettledKeepsSessionCorrect == Spec => UnsettledKeepsSession
  <1>1. SessionInv /\ [Next]_vars =>
          [(phase = "up" /\ ~settled /\ disk' # disk) =>
              \/ disk = Broken
              \/ disk' = None /\ disk.root \notin tree.roots
              \/ disk' = [disk EXCEPT !.active = None]]_vars
    <2> SUFFICES ASSUME SessionInv, Next, ~settled, disk' # disk
                 PROVE  \/ disk = Broken
                        \/ disk' = None /\ disk.root \notin tree.roots
                        \/ disk' = [disk EXCEPT !.active = None]
      BY DEF vars
    <2>1. CASE Load
      BY <2>1 DEF Load
    <2>2. CASE RestoreNothing
      BY <2>2 DEF RestoreNothing, SessionInv, JobOK
    <2>3. CASE Replace
      <3>1. disk' = job.record /\ job.staged
        BY <2>3 DEF Replace
      <3>2. job.op = "trim"
        BY <3>1 DEF SessionInv, JobOK
      <3>. QED BY <3>1, <3>2 DEF SessionInv, JobOK
    <2>4. Load \/ RestoreNothing \/ Replace
      BY DEF Next, Shows, Starts, SettlesUnrestored, RestoreFails, Restore, RestoreWithoutFile,
             Persist, Skip, Stage, SaveFails, Hears, CloseRequested, Destroyed, Killed, Foreign
    <2>. QED BY <2>1, <2>2, <2>3, <2>4
  <1>2. UnsettledKeepsSession <=>
          [][(phase = "up" /\ ~settled /\ disk' # disk) =>
              \/ disk = Broken
              \/ disk' = None /\ disk.root \notin tree.roots
              \/ disk' = [disk EXCEPT !.active = None]]_vars
    BY DEF UnsettledKeepsSession
  <1>. QED BY <1>1, <1>2, SessionInvariant, PTL DEF Spec
=============================================================================
