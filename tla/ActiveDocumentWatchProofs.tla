---------------------- MODULE ActiveDocumentWatchProofs ----------------------
(* Proofs about ActiveDocumentWatch, for every set of paths and texts and    *)
(* every budget of the environment: the types; that an entry which counts a  *)
(* run as scheduled has exactly one, on its way or in the lane; that a       *)
(* deletion is told only at the end of an undisturbed grace period; that     *)
(* what is told of a path never goes back; and that once all is quiet the    *)
(* main window has been told what is on disk.                                *)
(*                                                                           *)
(* The inductive invariant WatchInv relates each piece of work under way to  *)
(* the entry: the runs to its schedule (ScheduleOK), the holder of the lane  *)
(* to its path, write epoch and grace period (RunOK), the save to the epoch  *)
(* it announced (SaveOK), the grace period to what was seen (GraceOK), and   *)
(* what was told to where the file is (ToldOK) and to what the holder of the *)
(* lane has read (FreshOK): as long as no save has begun or ended since, it  *)
(* read the disk after the last thing told.  UnseenInv, kept together with   *)
(* it, says what else will look at the file as long as the window does not   *)
(* know what is there.                                                       *)
EXTENDS ActiveDocumentWatch, FiniteSetTheorems, TLAPS

---------------------------------------------------------------------------
(* What the steps of an entry leave as it was: which watch it is, the grace  *)
(* period, the save it expects.                                              *)

SameWatch(f, e) ==
  /\ f \in Entries
  /\ f.id = e.id /\ f.path = e.path /\ f.phase = e.phase
  /\ f.degraded /\ f.phase = "pending" => e.degraded
SameGrace(f, e) == f.missing = e.missing /\ f.token = e.token
SameSave(f, e) == f.epoch = e.epoch /\ f.expects.kind = e.expects.kind

(* One lemma for each operator on entries: finish_scheduled,                 *)
(* mark_scheduled_stale, begin_ and cancel_missing_grace,                    *)
(* clear_committed_expectation, the request for a run, note_native_hint,     *)
(* settle_snapshot and finalize_authorization_transition.                    *)
LEMMA FinishIs ==
  ASSUME NEW e \in Entries
  PROVE  LET f == FinishScheduled(e)
         IN  /\ SameWatch(f, e) /\ SameGrace(f, e) /\ SameSave(f, e)
             /\ f.scheduled => f.phase = "active"
  BY DEF Entries, FinishScheduled, SameWatch, SameGrace, SameSave

\* A run made stale leaves the watch as it is, and schedules another only if active.
LEMMA StaleIs ==
  ASSUME NEW e \in Entries
  PROVE  LET f == MarkScheduledStale(e)
         IN  /\ SameWatch(f, e) /\ SameGrace(f, e) /\ SameSave(f, e)
             /\ f.scheduled => f.phase = "active"
  <1>1. CASE Writing(e)
    <2>1. e.expects \in [kind : {"writing"}, text : Texts, again : BOOLEAN]
      BY <1>1 DEF Writing, Entries, Expectations
    <2> DEFINE w == [e.expects EXCEPT !.again = TRUE]
    <2>2. w \in Expectations /\ w.kind = e.expects.kind
      BY <2>1 DEF Expectations
    <2>3. MarkScheduledStale(e) = [e EXCEPT !.expects = w, !.scheduled = FALSE]
      BY <1>1 DEF MarkScheduledStale, Entries
    <2> HIDE DEF w
    <2>. QED BY <2>2, <2>3 DEF Entries, SameWatch, SameGrace, SameSave
  <1>2. CASE ~Writing(e)
    <2> DEFINE g == [e EXCEPT !.again = TRUE]
    <2>1. SameWatch(g, e) /\ SameGrace(g, e) /\ SameSave(g, e)
      BY DEF Entries, SameWatch, SameGrace, SameSave
    <2>2. MarkScheduledStale(e) = FinishScheduled(g)
      BY <1>2 DEF MarkScheduledStale
    <2> HIDE DEF g
    <2>. QED BY <2>1, <2>2, FinishIs DEF SameWatch, SameGrace, SameSave
  <1>. QED BY <1>1, <1>2

\* A grace period begins with a new token, unless one is under way.
LEMMA BeginGraceIs ==
  ASSUME NEW e \in Entries
  PROVE  LET f == BeginMissingGrace(e)
         IN  /\ SameWatch(f, e) /\ SameSave(f, e)
             /\ f.scheduled = e.scheduled /\ f.missing
             /\ IF e.missing THEN f.token = e.token ELSE f.token = e.token + 1
  <1> DEFINE t == e.token + 1
             g == [e EXCEPT !.missing = TRUE, !.token = t]
  <1>1. e.token \in Nat /\ t \in Nat
    BY DEF Entries
  <1>2. BeginMissingGrace(e) = IF e.missing THEN e ELSE g
    BY DEF BeginMissingGrace
  <1>3. /\ SameWatch(g, e) /\ SameSave(g, e)
        /\ g.scheduled = e.scheduled /\ g.missing /\ g.token = t
    <2> HIDE DEF t
    <2>. QED BY <1>1 DEF Entries, SameWatch, SameSave
  <1> HIDE DEF g
  <1>4. CASE e.missing
    BY <1>2, <1>4 DEF SameWatch, SameSave
  <1>5. CASE ~e.missing
    BY <1>2, <1>3, <1>5
  <1>. QED BY <1>4, <1>5

\* Afterwards no grace period is under way.
LEMMA CancelGraceIs ==
  ASSUME NEW e \in Entries
  PROVE  LET f == CancelMissingGrace(e)
         IN  SameWatch(f, e) /\ SameSave(f, e) /\ f.scheduled = e.scheduled /\ ~f.missing
  <1> DEFINE t == e.token + 1
             g == [e EXCEPT !.missing = FALSE, !.token = t]
  <1>1. e.token \in Nat /\ t \in Nat /\ e.missing \in BOOLEAN
    BY DEF Entries
  <1>2. CancelMissingGrace(e) = IF e.missing THEN g ELSE e
    BY DEF CancelMissingGrace
  <1>3. SameWatch(g, e) /\ SameSave(g, e) /\ g.scheduled = e.scheduled /\ ~g.missing
    <2> HIDE DEF t
    <2>. QED BY <1>1 DEF Entries, SameWatch, SameSave
  <1> HIDE DEF g
  <1>4. CASE e.missing
    BY <1>2, <1>3, <1>4
  <1>5. CASE ~e.missing
    BY <1>2, <1>5 DEF SameWatch, SameSave
  <1>. QED BY <1>4, <1>5

\* Only the expectation of a save and the write epoch change.
LEMMA ClearIs ==
  ASSUME NEW e \in Entries
  PROVE  LET f == ClearCommittedExpectation(e)
         IN  SameWatch(f, e) /\ SameGrace(f, e) /\ f.scheduled = e.scheduled
             /\ (e.expects.kind = "none" => f.expects.kind = "none")
  <1> DEFINE n == e.epoch + 1
             w == Unexpecting
             g == [e EXCEPT !.expects = w, !.epoch = n]
  <1>1. n \in Nat /\ w \in Expectations /\ w.kind = "none"
    BY DEF Entries, Expectations, Unexpecting
  <1>2. ClearCommittedExpectation(e) = IF e.expects.kind = "committed" THEN g ELSE e
    BY DEF ClearCommittedExpectation
  <1>3. SameWatch(g, e) /\ SameGrace(g, e) /\ g.scheduled = e.scheduled /\ g.expects = w
    <2> HIDE DEF n, w
    <2>. QED BY <1>1 DEF Entries, SameWatch, SameGrace
  <1> HIDE DEF g, w
  <1>4. CASE e.expects.kind = "committed"
    BY <1>1, <1>2, <1>3, <1>4
  <1>5. CASE e.expects.kind # "committed"
    BY <1>2, <1>5 DEF SameWatch, SameGrace
  <1>. QED BY <1>4, <1>5

\* Afterwards a run is scheduled.
LEMMA AskIs ==
  ASSUME NEW e \in Entries
  PROVE  LET f == Ask(e)
         IN  SameWatch(f, e) /\ SameGrace(f, e) /\ SameSave(f, e) /\ f.scheduled
  <1>1. CASE e.scheduled
    BY <1>1 DEF Entries, Ask, SameWatch, SameGrace, SameSave
  <1>2. CASE ~e.scheduled
    BY <1>2 DEF Entries, Ask, SameWatch, SameGrace, SameSave
  <1>. QED BY <1>1, <1>2

\* A notification may schedule a run, and only of an active watch.
LEMMA NoteIs ==
  ASSUME NEW e \in Entries, NEW hint
  PROVE  LET f == NoteNativeHint(e, hint)
         IN  /\ SameWatch(f, e) /\ SameGrace(f, e) /\ SameSave(f, e)
             /\ e.scheduled => f.scheduled
             /\ f.scheduled /\ f.phase = "pending" => e.scheduled
  <1> DEFINE g == [e EXCEPT !.moves = @ \cup ({hint} \cap Moves),
                            !.health = IF e.degraded THEN @ + 1 ELSE @,
                            !.degraded = FALSE]
             f == NoteNativeHint(e, hint)
             m == e.moves \cup ({hint} \cap Moves)
             h == IF e.degraded THEN e.health + 1 ELSE e.health
  <1>1. /\ SameWatch(g, e) /\ SameGrace(g, e) /\ SameSave(g, e)
        /\ g.scheduled = e.scheduled /\ g.expects = e.expects
    <2>1. m \in SUBSET Moves
      BY DEF Entries, Moves
    <2>2. h \in Nat
      BY DEF Entries
    <2>3. g = [e EXCEPT !.moves = m, !.health = h, !.degraded = FALSE]
      OBVIOUS
    <2> DEFINE r == [e EXCEPT !.moves = m, !.health = h, !.degraded = FALSE]
    <2>4. /\ SameWatch(r, e) /\ SameGrace(r, e) /\ SameSave(r, e)
          /\ r.scheduled = e.scheduled /\ r.expects = e.expects
      <3> HIDE DEF m, h
      <3>. QED BY <2>1, <2>2 DEF Entries, SameWatch, SameGrace, SameSave
    <2> HIDE DEF r, g
    <2>. QED BY <2>3, <2>4 DEF r
  <1>2. f = IF ~Concerns(hint, e.path) THEN e
            ELSE IF e.phase = "pending" THEN [g EXCEPT !.activation = TRUE]
            ELSE IF Writing(e) THEN [g EXCEPT !.expects.again = TRUE]
            ELSE Ask(g)
    BY DEF NoteNativeHint
  <1> HIDE DEF g, f, m, h
  <1>3. CASE ~Concerns(hint, e.path)
    BY <1>2, <1>3 DEF SameWatch, SameGrace, SameSave, f
  <1>4. CASE Concerns(hint, e.path) /\ e.phase = "pending"
    <2>1. f = [g EXCEPT !.activation = TRUE]
      BY <1>2, <1>4
    <2>. QED BY <1>1, <2>1 DEF Entries, SameWatch, SameGrace, SameSave, f
  <1>5. CASE Concerns(hint, e.path) /\ e.phase # "pending" /\ Writing(e)
    <2>1. g.expects \in [kind : {"writing"}, text : Texts, again : BOOLEAN]
      BY <1>1, <1>5 DEF Writing, SameWatch, Entries, Expectations
    <2> DEFINE w == [g.expects EXCEPT !.again = TRUE]
    <2>2. w \in Expectations /\ w.kind = g.expects.kind
      BY <2>1 DEF Expectations
    <2>3. f = [g EXCEPT !.expects = w]
      BY <1>2, <1>5
    <2> HIDE DEF w
    <2>. QED BY <1>1, <1>5, <2>2, <2>3 DEF Entries, SameWatch, SameGrace, SameSave, f
  <1>6. CASE Concerns(hint, e.path) /\ e.phase # "pending" /\ ~Writing(e)
    <2>1. f = Ask(g)
      BY <1>2, <1>6
    <2>. QED BY <1>1, <1>6, <2>1, AskIs DEF SameWatch, SameGrace, SameSave, f
  <1>. QED BY <1>3, <1>4, <1>5, <1>6

\* Only the last snapshot and the expectation of a save change.
LEMMA SettledIs ==
  ASSUME NEW e \in Entries, run.seen \in Snapshots
  PROVE  LET f == Settled(e)
         IN  SameWatch(f, e) /\ SameGrace(f, e) /\ f.scheduled = e.scheduled
             /\ (e.expects.kind = "none" => f.expects.kind = "none")
  <1> DEFINE g == ClearCommittedExpectation(e)
  <1>1. /\ SameWatch(g, e) /\ SameGrace(g, e) /\ g.scheduled = e.scheduled
        /\ e.expects.kind = "none" => g.expects.kind = "none"
    BY ClearIs
  <1>2. Settled(e) = [g EXCEPT !.last = run.seen]
    BY DEF Settled
  <1> HIDE DEF g
  <1>. QED BY <1>1, <1>2 DEF Entries, SameWatch, SameGrace

\* The entry follows the file to the path where it was seen.
LEMMA TransitionIs ==
  ASSUME NEW e \in Entries, run.seen \in Snapshots
  PROVE  LET f == Transition(e)
         IN  /\ f \in Entries /\ f.path = run.seen.path
             /\ f.id = e.id /\ f.phase = e.phase /\ f.degraded = e.degraded
             /\ SameGrace(f, e) /\ SameSave(f, e) /\ f.scheduled = e.scheduled
  BY DEF Entries, Snapshots, Transition, SameGrace, SameSave

---------------------------------------------------------------------------
(* The inductive invariant *)

PollSet == [id : Nat, health : Nat, attempts : Nat]

(* The parts of TypeOK that no step of the watch depends on.                 *)
Loose ==
  /\ hints \subseteq Hints /\ polls \subseteq PollSet
  /\ excuses \subseteq Excuses /\ left \in [Resources -> Nat]

TypeInv ==
  /\ disk \in [Paths -> Files \cup {Missing}]
  /\ clock \in Nat /\ nextId \in Nat \ {0} /\ unseen \in Nat
  /\ entry \in Entries \cup {Nobody}
  /\ threads \in SUBSET Threads /\ timers \in Seq(Threads)
  /\ run \in Contexts \cup {Nobody}
  /\ save \in Saves \cup {Nobody}
  /\ told \in Reports \cup {Nobody}

(* Nothing is heard while there is no watch.                                 *)
HintsOK == entry = Nobody => hints = {}

(* Until it is activated, a watch only gathers what it hears.                *)
PendingOK == entry # Nobody /\ entry.phase = "pending" =>
  /\ ~entry.scheduled /\ ~entry.degraded /\ ~entry.missing
  /\ entry.expects.kind = "none"
  /\ run # Nobody => run.owner = "start"

(* Ids are given out once.                                                   *)
NumbersOK ==
  /\ entry # Nobody => entry.id # 0 /\ entry.id < nextId
  /\ \A thread \in threads : thread.id < nextId

(* ScheduledHasRun, without counting.                                        *)
ScheduleOK == entry # Nobody =>
  /\ entry.scheduled <=> (Runs(entry.id) # {} \/ Underway(entry.id))
  /\ \A a, b \in Runs(entry.id) : a = b
  /\ ~(Runs(entry.id) # {} /\ Underway(entry.id))

(* The holder of the lane looks for the entry's path; the start of a watch   *)
(* and a command have the main thread to themselves; a run that confirms a   *)
(* deletion belongs to the grace period that is under way.                   *)
RunOK == run # Nobody =>
  /\ entry \in Entries /\ run.id = entry.id /\ run.path = entry.path
  /\ run.at <= clock /\ run.epoch <= entry.epoch
  /\ run.stage # "captured" => run.seen \in Readings
  /\ run.owner = "start" => /\ told = Nobody /\ run.stage # "gone"
                            /\ run.stage = "resolved" => run.seen.path = run.path
  /\ run.owner # "thread" => save = Nobody
  /\ run.owner = "thread" /\ run.token # 0 => entry.missing /\ entry.token = run.token

(* A grace period goes on exactly while nothing has seen the file.           *)
GraceOK == entry # Nobody =>
  IF entry.missing THEN unseen = entry.token /\ unseen # 0 ELSE unseen = 0

(* A save is announced to the entry, or the entry follows another path than  *)
(* the main window knows, or it is not active yet.                           *)
SaveOK == save # Nobody =>
  /\ told # Nobody
  /\ save.stage = "committed" => save.file \in Files
  /\ \/ save.token = NoToken /\ ("absorbed" \in excuses \/ entry.phase = "pending")
     \/ /\ save.token.id = entry.id /\ save.token.epoch = entry.epoch
        /\ Writing(entry) /\ entry.phase = "active"

(* The main window knows where the file is, unless a move was absorbed.      *)
ToldOK == told # Nobody =>
  /\ entry \in Entries /\ told.at <= clock
  /\ "absorbed" \notin excuses => told.path = entry.path

(* What the holder of the lane has read is newer than what was told, unless  *)
(* a save makes it stale.                                                    *)
FreshOK ==
  /\ told # Nobody /\ run # Nobody /\ run.stage # "captured"
  /\ entry.epoch = run.epoch /\ ~Writing(entry) /\ "absorbed" \notin excuses
  => told.at <= run.at

WatchInv ==
  /\ Loose /\ TypeInv /\ HintsOK /\ PendingOK /\ NumbersOK /\ ScheduleOK
  /\ RunOK /\ GraceOK /\ SaveOK /\ ToldOK /\ FreshOK

\* The program starts without a watch.
LEMMA WatchInit == Init => WatchInv
  <1> SUFFICES ASSUME Init PROVE WatchInv
    OBVIOUS
  <1>1. TypeInv
    BY DEF Init, TypeInv, Files, Threads
  <1>2. Loose
    BY BudgetAssumption DEF Init, Loose
  <1>. QED BY <1>1, <1>2 DEF Init, WatchInv, HintsOK, PendingOK, NumbersOK, ScheduleOK,
                       RunOK, GraceOK, SaveOK, ToldOK, FreshOK

---------------------------------------------------------------------------
(* One lemma per action, and lemmas for what several of them share *)

\* Steps that leave the watch alone.
LEMMA AsideKeeps ==
  ASSUME WatchInv,
         disk' \in [Paths -> Files \cup {Missing}], clock' \in Nat, clock' >= clock,
         timers' \in Seq(Threads), entry = Nobody => hints' = {},
         Loose', UNCHANGED <<entry, nextId, threads, run, save, told, excuses, unseen>>
  PROVE  WatchInv'
  <1>1. TypeInv'
    BY DEF WatchInv, TypeInv
  <1>2. HintsOK' /\ PendingOK' /\ NumbersOK' /\ GraceOK' /\ SaveOK'
    BY DEF WatchInv, HintsOK, PendingOK, NumbersOK, GraceOK, SaveOK, Writing
  <1>3. ScheduleOK' /\ FreshOK'
    BY DEF WatchInv, ScheduleOK, Runs, Underway, FreshOK, Writing
  <1>4. RunOK'
    BY <1>1 DEF WatchInv, RunOK, TypeInv, Contexts
  <1>5. ToldOK'
    BY <1>1 DEF WatchInv, ToldOK, TypeInv, Reports
  <1>. QED BY <1>1, <1>2, <1>3, <1>4, <1>5 DEF WatchInv

\* An entry that schedules a run when it spawns a thread, and only then.
LEMMA SpawnKeeps ==
  ASSUME ScheduleOK, entry \in Entries, entry # Nobody,
         NEW f \in Entries, NEW thread \in Threads, thread.id = entry.id,
         f.id = entry.id, entry.scheduled => f.scheduled,
         Becomes(f, thread), run' = run
  PROVE  ScheduleOK'
  <1>0. /\ entry' = f
        /\ threads' = IF f.scheduled /\ ~entry.scheduled THEN threads \cup {thread} ELSE threads
    BY DEF Becomes
  <1>1. CASE f.scheduled /\ ~entry.scheduled
    <2>1. Runs(entry.id) = {} /\ ~Underway(entry.id)
      BY <1>1 DEF ScheduleOK
    <2>2. Runs(f.id)' = {thread}
      BY <1>0, <1>1, <2>1 DEF Runs
    <2>3. ~Underway(f.id)'
      BY <2>1 DEF Underway
    <2>. QED BY <1>0, <1>1, <2>2, <2>3 DEF ScheduleOK
  <1>2. CASE ~(f.scheduled /\ ~entry.scheduled)
    <2>1. Runs(f.id)' = Runs(entry.id) /\ (Underway(f.id)' <=> Underway(entry.id))
      BY <1>0, <1>2 DEF Runs, Underway
    <2>2. f.scheduled = entry.scheduled
      BY <1>2 DEF Entries
    <2>. QED BY <1>0, <2>1, <2>2 DEF ScheduleOK
  <1>. QED BY <1>1, <1>2

\* Steps of the entry that ask for a run, or not.
LEMMA EntryKeeps ==
  ASSUME WatchInv, entry # Nobody, NEW f, NEW thread \in Threads, thread.id = entry.id,
         SameWatch(f, entry), SameGrace(f, entry), SameSave(f, entry),
         entry.scheduled => f.scheduled,
         f.scheduled /\ f.phase = "pending" => entry.scheduled,
         entry' = f,
         threads' = IF f.scheduled /\ ~entry.scheduled THEN threads \cup {thread} ELSE threads,
         Loose', timers' \in Seq(Threads),
         "absorbed" \in excuses' <=> "absorbed" \in excuses,
         UNCHANGED <<disk, clock, nextId, run, save, told, unseen>>
  PROVE  WatchInv'
  <1>0. entry \in Entries /\ f \in Entries
    BY DEF WatchInv, TypeInv, SameWatch
  <1>1. TypeInv'
    BY <1>0 DEF WatchInv, TypeInv
  <1>2. HintsOK'
    BY <1>0, NobodyAssumption DEF HintsOK
  <1>3. PendingOK' /\ GraceOK'
    BY <1>0 DEF WatchInv, PendingOK, GraceOK, SameWatch, SameGrace, SameSave
  <1>4. NumbersOK'
    BY <1>0 DEF WatchInv, NumbersOK, SameWatch
  <1>5. ScheduleOK'
    BY <1>0, SpawnKeeps DEF WatchInv, SameWatch, Becomes
  <1>6. RunOK' /\ ToldOK'
    BY <1>0 DEF WatchInv, RunOK, ToldOK, SameWatch, SameGrace, SameSave
  <1>7. SaveOK' /\ FreshOK'
    BY <1>0 DEF WatchInv, SaveOK, FreshOK, Writing, SameWatch, SameSave
  <1>. QED BY <1>1, <1>2, <1>3, <1>4, <1>5, <1>6, <1>7 DEF WatchInv

\* The thread of an ordinary run.
LEMMA EventIs == ASSUME NEW id \in Nat PROVE Event(id) \in Threads /\ Event(id).id = id
  BY DEF Event, Threads

\* A thread's run ends, and the run that was asked for meanwhile follows it.
LEMMA RunEnds ==
  ASSUME WatchInv, run # Nobody, run.owner = "thread",
         NEW f \in Entries, f.id = entry.id, f.phase = entry.phase,
         entry' = f, run' = Nobody,
         threads' = IF f.scheduled THEN threads \cup {Event(f.id)} ELSE threads,
         Loose', timers' \in Seq(Threads), unseen' \in Nat, told' \in Reports \cup {Nobody},
         UNCHANGED <<disk, clock, nextId, save>>,
         GraceOK', ToldOK', SaveOK'
  PROVE  WatchInv'
  <1>0. /\ entry \in Entries /\ entry # Nobody /\ entry.id \in Nat /\ entry.phase = "active"
        /\ Event(f.id) \in Threads /\ Event(f.id).id = f.id
    <2>1. entry \in Entries /\ entry # Nobody
      BY NobodyAssumption DEF WatchInv, RunOK
    <2>. QED BY <2>1, EventIs DEF WatchInv, PendingOK, Entries
  <1>1. TypeInv'
    BY <1>0 DEF WatchInv, TypeInv
  <1>2. HintsOK' /\ PendingOK' /\ RunOK' /\ FreshOK'
    BY <1>0, NobodyAssumption DEF HintsOK, PendingOK, RunOK, FreshOK
  <1>3. NumbersOK'
    BY <1>0 DEF WatchInv, NumbersOK
  <1>4. ScheduleOK'
    <2>1. Underway(entry.id)
      BY DEF WatchInv, RunOK, Underway
    <2>2. Runs(entry.id) = {}
      BY <1>0, <2>1 DEF WatchInv, ScheduleOK
    <2>3. Runs(f.id)' = IF f.scheduled THEN {Event(f.id)} ELSE {}
      BY <1>0, <2>2 DEF Runs
    <2>4. ~Underway(f.id)'
      BY DEF Underway
    <2>. QED BY <2>3, <2>4 DEF ScheduleOK
  <1>. QED BY <1>1, <1>2, <1>3, <1>4 DEF WatchInv

\* The end of a thread's run.
Settling == run # Nobody /\ run.owner = "thread" /\ run.stage = "resolved"

\* The entry is the run's, and a save under way is none of its own.
LEMMA SettlingKnows ==
  ASSUME WatchInv, Settling
  PROVE  /\ entry \in Entries /\ entry # Nobody /\ Watching(run.id) /\ entry.phase = "active"
         /\ run.seen \in Readings /\ run.at <= clock /\ run.at \in Nat
         /\ run.path = entry.path /\ run.token \in Nat
         /\ run.token # 0 => entry.missing /\ entry.token = run.token
         /\ ~Stale(entry) => (save # Nobody => save.token = NoToken /\ "absorbed" \in excuses)
  <1>1. entry \in Entries /\ entry # Nobody
    BY NobodyAssumption DEF WatchInv, RunOK, Settling
  <1>2. entry.phase = "active"
    BY <1>1 DEF WatchInv, PendingOK, Entries, Settling
  <1>3. run \in Contexts
    BY DEF WatchInv, TypeInv, Settling
  <1>4. ~Stale(entry) => (save # Nobody => save.token = NoToken /\ "absorbed" \in excuses)
    BY <1>2 DEF WatchInv, SaveOK, Stale
  <1>. QED BY <1>1, <1>2, <1>3, <1>4 DEF WatchInv, RunOK, Settling, Watching, Contexts

\* A stale run settles nothing but its schedule.
LEMMA SettleStaleKeeps == WatchInv /\ Settling /\ SettleStale => WatchInv'
  <1> SUFFICES ASSUME WatchInv, Settling, SettleStale PROVE WatchInv'
    OBVIOUS
  <1> DEFINE f == MarkScheduledStale(entry)
  <1>1. entry \in Entries /\ entry # Nobody /\ EndRun(f) /\ UNCHANGED <<timers, ghosts>>
    BY SettlingKnows DEF SettleStale
  <1>2. SameWatch(f, entry) /\ SameGrace(f, entry) /\ SameSave(f, entry)
    BY <1>1, StaleIs
  <1> HIDE DEF f
  <1>3. f \in Entries /\ f.id = entry.id /\ f.phase = entry.phase
    BY <1>2 DEF SameWatch
  <1>4. /\ entry' = f /\ run' = Nobody
        /\ threads' = IF f.scheduled THEN threads \cup {Event(f.id)} ELSE threads
        /\ UNCHANGED <<disk, clock, nextId, hints, polls, save, left, timers, told, excuses, unseen>>
    BY <1>1 DEF EndRun, disks, ghosts
  <1>5. GraceOK' /\ ToldOK' /\ SaveOK'
    BY <1>1, <1>2, <1>3, <1>4 DEF WatchInv, GraceOK, ToldOK, SaveOK, Writing, SameWatch, SameGrace, SameSave
  <1>6. Loose' /\ timers' \in Seq(Threads) /\ unseen' \in Nat /\ told' \in Reports \cup {Nobody}
    BY <1>4 DEF WatchInv, Loose, TypeInv
  <1>. QED BY <1>3, <1>4, <1>5, <1>6, RunEnds DEF Settling

\* A refused read, or an unrecognised move, tells nothing.
LEMMA SettleRefusedKeeps == WatchInv /\ Settling /\ SettleRefused => WatchInv'
  <1> SUFFICES ASSUME WatchInv, Settling, SettleRefused PROVE WatchInv'
    OBVIOUS
  <1>0. /\ entry \in Entries /\ entry # Nobody /\ ~Stale(entry)
        /\ excuses' = excuses \cup {"refused"} /\ UNCHANGED <<timers, told>>
    BY SettlingKnows DEF SettleRefused
  <1>1. ASSUME NEW e \in Entries, SameWatch(e, entry), SameSave(e, entry),
               EndRun(FinishScheduled(e)), unseen' \in Nat,
               IF e.missing THEN unseen' = e.token /\ unseen' # 0 ELSE unseen' = 0
        PROVE  WatchInv'
    <2> DEFINE f == FinishScheduled(e)
    <2>1. SameWatch(f, e) /\ SameGrace(f, e) /\ SameSave(f, e)
      BY FinishIs
    <2> HIDE DEF f
    <2>2. f \in Entries /\ f.id = entry.id /\ f.phase = entry.phase /\ f.path = entry.path
      BY <1>1, <2>1 DEF SameWatch
    <2>3. /\ entry' = f /\ run' = Nobody
          /\ threads' = IF f.scheduled THEN threads \cup {Event(f.id)} ELSE threads
          /\ UNCHANGED <<disk, clock, nextId, hints, polls, save, left>>
      BY <1>1 DEF EndRun, disks, f
    <2>4. GraceOK'
      BY <1>1, <2>1, <2>3 DEF GraceOK, SameGrace
    <2>5. ToldOK' /\ SaveOK'
      BY <1>0, <1>1, <2>1, <2>2, <2>3 DEF WatchInv, ToldOK, SaveOK, Writing, SameSave
    <2>6. Loose' /\ timers' \in Seq(Threads) /\ told' \in Reports \cup {Nobody}
      BY <1>0, <2>3 DEF WatchInv, Loose, TypeInv, Excuses
    <2>. QED BY <1>1, <2>2, <2>3, <2>4, <2>5, <2>6, RunEnds DEF Settling
  <1>2. CASE run.seen.file = Refusal
    <2>1. EndRun(FinishScheduled(entry)) /\ UNCHANGED unseen
      BY <1>2 DEF SettleRefused
    <2>2. unseen \in Nat /\ IF entry.missing THEN unseen = entry.token /\ unseen # 0 ELSE unseen = 0
      BY <1>0 DEF WatchInv, GraceOK, TypeInv
    <2>. QED BY <1>0, <1>1, <2>1, <2>2 DEF SameWatch, SameSave
  <1>3. CASE run.seen.file # Refusal
    <2>1. EndRun(FinishScheduled(CancelMissingGrace(entry))) /\ unseen' = 0
      BY <1>3 DEF SettleRefused
    <2>2. LET e == CancelMissingGrace(entry)
          IN  SameWatch(e, entry) /\ SameSave(e, entry) /\ ~e.missing
      BY <1>0, CancelGraceIs
    <2>. QED BY <1>1, <2>1, <2>2 DEF SameWatch
  <1>. QED BY <1>2, <1>3

\* A run that misses the file starts a grace period or finds one under way.
LEMMA SettleGraceKeeps == WatchInv /\ Settling /\ SettleGrace => WatchInv'
  <1> SUFFICES ASSUME WatchInv, Settling, SettleGrace PROVE WatchInv'
    OBVIOUS
  <1> DEFINE e == BeginMissingGrace(entry)
             f == FinishScheduled(e)
  <1>0. /\ entry \in Entries /\ entry # Nobody /\ EndRun(f)
        /\ timers' = Append(timers, Confirmation(e.id, e.token))
        /\ unseen' = IF unseen = 0 THEN e.token ELSE unseen
        /\ UNCHANGED <<told, excuses>>
    BY SettlingKnows DEF SettleGrace
  <1>1. /\ SameWatch(e, entry) /\ SameSave(e, entry) /\ e.missing
        /\ IF entry.missing THEN e.token = entry.token ELSE e.token = entry.token + 1
    BY <1>0, BeginGraceIs
  <1> HIDE DEF e
  <1>2. SameWatch(f, e) /\ SameGrace(f, e) /\ SameSave(f, e)
    BY <1>1, FinishIs DEF SameWatch
  <1> HIDE DEF f
  <1>3. /\ e \in Entries /\ f \in Entries
        /\ f.id = entry.id /\ f.phase = entry.phase /\ f.path = entry.path
    BY <1>1, <1>2 DEF SameWatch
  <1>4. /\ entry' = f /\ run' = Nobody
        /\ threads' = IF f.scheduled THEN threads \cup {Event(f.id)} ELSE threads
        /\ UNCHANGED <<disk, clock, nextId, hints, polls, save, left>>
    BY <1>0 DEF EndRun, disks
  <1>5. unseen' = f.token /\ unseen' \in Nat /\ unseen' # 0 /\ f.missing
    <2>1. e.token \in Nat /\ entry.token \in Nat /\ f.token = e.token /\ f.missing
      BY <1>0, <1>1, <1>2, <1>3 DEF Entries, SameGrace
    <2>2. IF entry.missing THEN unseen = entry.token /\ unseen # 0 ELSE unseen = 0
      BY <1>0 DEF WatchInv, GraceOK
    <2>. QED BY <1>0, <1>1, <2>1, <2>2
  <1>6. GraceOK' /\ ToldOK' /\ SaveOK'
    BY <1>0, <1>1, <1>2, <1>3, <1>4, <1>5
       DEF WatchInv, GraceOK, ToldOK, SaveOK, Writing, SameSave
  <1>7. Confirmation(e.id, e.token) \in Threads
    BY <1>3 DEF Confirmation, Threads, Entries
  <1>8. Loose' /\ timers' \in Seq(Threads) /\ told' \in Reports \cup {Nobody}
    BY <1>0, <1>4, <1>7 DEF WatchInv, Loose, TypeInv
  <1>. QED BY <1>3, <1>4, <1>5, <1>6, <1>8, RunEnds DEF Settling

\* What a run saw is told, or is known already.
LEMMA SettleSnapshotKeeps == WatchInv /\ Settling /\ SettleSnapshot => WatchInv'
  <1> SUFFICES ASSUME WatchInv, Settling, SettleSnapshot PROVE WatchInv'
    OBVIOUS
  <1> DEFINE seen == IF run.seen.file = Missing THEN entry ELSE CancelMissingGrace(entry)
             e == Transition(seen)
             s == Settled(e)
             f == FinishScheduled(s)
             silent == IsOwnSave(e) \/ e.last = run.seen
             returned == e.last = run.seen /\ told.file # run.seen.file /\ ~IsOwnSave(e)
  <1>0. /\ entry \in Entries /\ entry # Nobody /\ entry.phase = "active"
        /\ run.seen \in Snapshots /\ run.at <= clock /\ run.at \in Nat /\ run.path = entry.path
        /\ run.seen.file = Missing => entry.missing
        /\ save # Nobody => save.token = NoToken /\ "absorbed" \in excuses
    BY SettlingKnows DEF SettleSnapshot, Readings, Snapshots
  <1>1. /\ EndRun(f) /\ timers' = timers
        /\ IF silent THEN told' = told ELSE Tells
        /\ excuses' = (IF returned THEN excuses \cup {"returned"}
                       ELSE excuses \cap ({"strayed"} \cup
                                          IF silent \/ save # Nobody THEN {"absorbed"} ELSE {}))
                      \cup IF silent /\ Moved THEN {"absorbed"} ELSE {}
        /\ unseen' = IF run.seen.file = Missing THEN unseen ELSE 0
    BY DEF SettleSnapshot
  <1> HIDE DEF silent, returned
  <1>2. /\ seen \in Entries /\ seen.id = entry.id /\ seen.phase = entry.phase
        /\ IF run.seen.file = Missing THEN SameGrace(seen, entry) ELSE ~seen.missing
    <2>1. CASE run.seen.file = Missing
      BY <1>0, <2>1 DEF SameGrace
    <2>2. CASE run.seen.file # Missing
      BY <1>0, <2>2, CancelGraceIs DEF SameWatch
    <2>. QED BY <2>1, <2>2
  <1> HIDE DEF seen
  <1>3. /\ e \in Entries /\ e.path = run.seen.path /\ e.id = entry.id /\ e.phase = entry.phase
        /\ SameGrace(e, seen)
    BY <1>0, <1>2, TransitionIs
  <1> HIDE DEF e
  <1>4. SameWatch(s, e) /\ SameGrace(s, e)
    BY <1>0, <1>3, SettledIs
  <1> HIDE DEF s
  <1>5. SameWatch(f, s) /\ SameGrace(f, s)
    BY <1>4, FinishIs DEF SameWatch
  <1> HIDE DEF f
  <1>6. /\ f \in Entries /\ f.id = entry.id /\ f.phase = entry.phase /\ f.path = run.seen.path
        /\ SameGrace(f, seen)
    BY <1>3, <1>4, <1>5 DEF SameWatch, SameGrace
  <1>7. /\ entry' = f /\ run' = Nobody
        /\ threads' = IF f.scheduled THEN threads \cup {Event(f.id)} ELSE threads
        /\ UNCHANGED <<disk, clock, nextId, hints, polls, save, left>>
    BY <1>1 DEF EndRun, disks
  <1>8. GraceOK' /\ unseen' \in Nat
    BY <1>0, <1>1, <1>2, <1>6, <1>7 DEF WatchInv, TypeInv, GraceOK, SameGrace
  <1>9. /\ told' \in Reports \cup {Nobody}
        /\ told # Nobody => told' # Nobody
    BY <1>0, <1>1, NobodyAssumption DEF WatchInv, TypeInv, Reports, Snapshots, Tells
  <1>10. ToldOK'
    <2>1. CASE silent
      <3>1. "absorbed" \notin excuses' => "absorbed" \notin excuses /\ ~Moved
        BY <1>1, <2>1
      <3>. QED BY <1>0, <1>1, <1>6, <1>7, <2>1, <3>1 DEF WatchInv, ToldOK, Moved
    <2>2. CASE ~silent
      BY <1>0, <1>1, <1>6, <1>7, <2>2 DEF ToldOK, Tells
    <2>. QED BY <2>1, <2>2
  <1>11. SaveOK'
    <2>1. save # Nobody => "absorbed" \in excuses'
      BY <1>0, <1>1
    <2>. QED BY <1>0, <1>7, <1>9, <2>1 DEF WatchInv, SaveOK
  <1>12. Loose' /\ timers' \in Seq(Threads)
    BY <1>1, <1>7 DEF WatchInv, Loose, TypeInv, Excuses
  <1>. QED BY <1>6, <1>7, <1>8, <1>9, <1>10, <1>11, <1>12, RunEnds DEF Settling


\* Budgets stay budgets.
LEMMA SpendIs ==
  ASSUME WatchInv, NEW r \in Resources, Spend(r) PROVE left' \in [Resources -> Nat]
  <1>1. left \in [Resources -> Nat] /\ left[r] \in Nat /\ left[r] > 0
    BY DEF WatchInv, Loose, Spend
  <1>2. left[r] - 1 \in Nat
    BY <1>1
  <1>. QED BY <1>1, <1>2 DEF Spend

\* What other programs do to the disk does not concern the entry until it is read.
LEMMA DiskKeeps ==
  ASSUME WatchInv, NEW d \in [Paths -> Files \cup {Missing}], NEW n \in SUBSET Hints,
         ChangeDisk(d, n)
  PROVE  WatchInv'
  <1>1. /\ disk' = d /\ clock' = clock + 1 /\ entry # Nobody
        /\ hints' = hints \/ hints' = hints \cup n
        /\ UNCHANGED <<entry, nextId, threads, timers, polls, run, save, told, excuses, unseen>>
    BY DEF ChangeDisk, work, ghosts
  <1>2. left' \in [Resources -> Nat]
    BY SpendIs DEF ChangeDisk, Resources
  <1>3. clock' \in Nat /\ clock' >= clock
    BY <1>1 DEF WatchInv, TypeInv
  <1>4. Loose' /\ timers' \in Seq(Threads)
    BY <1>1, <1>2 DEF WatchInv, Loose, TypeInv
  <1>. QED BY <1>1, <1>3, <1>4, AsideKeeps

\* Other programs edit, replace, delete and move files.
LEMMA ProgramsKeep == WatchInv /\ (Edit \/ Replace \/ Delete \/ Move) => WatchInv'
  <1> SUFFICES ASSUME WatchInv, Edit \/ Replace \/ Delete \/ Move PROVE WatchInv'
    OBVIOUS
  <1>1. disk \in [Paths -> Files \cup {Missing}] /\ clock + 1 \in Nat
    BY DEF WatchInv, TypeInv
  <1>2. CASE Edit
    <2>1. PICK p \in Paths, t \in Texts :
            /\ disk[p] # Missing
            /\ ChangeDisk([disk EXCEPT ![p] = [@ EXCEPT !.text = t, !.stamp = clock + 1]],
                          {<<p, p>>})
      BY <1>2 DEF Edit
    <2> DEFINE file == [disk[p] EXCEPT !.text = t, !.stamp = clock + 1]
    <2>2. file \in Files
      BY <1>1, <2>1 DEF Files
    <2>3. [disk EXCEPT ![p] = [@ EXCEPT !.text = t, !.stamp = clock + 1]] = [disk EXCEPT ![p] = file]
      BY <1>1
    <2> HIDE DEF file
    <2>4. [disk EXCEPT ![p] = file] \in [Paths -> Files \cup {Missing}] /\ {<<p, p>>} \in SUBSET Hints
      BY <1>1, <2>2 DEF Hints
    <2>. QED BY <2>1, <2>3, <2>4, DiskKeeps
  <1>3. CASE Replace
    <2>1. PICK p \in Paths, t \in Texts :
            ChangeDisk([disk EXCEPT ![p] = [text |-> t, stamp |-> clock + 1, identity |-> clock + 1]],
                       {<<p, p>>})
      BY <1>3 DEF Replace
    <2>2. [text |-> t, stamp |-> clock + 1, identity |-> clock + 1] \in Files
      BY <1>1 DEF Files
    <2>3. /\ [disk EXCEPT ![p] = [text |-> t, stamp |-> clock + 1, identity |-> clock + 1]]
               \in [Paths -> Files \cup {Missing}]
          /\ {<<p, p>>} \in SUBSET Hints
      BY <1>1, <2>2 DEF Hints
    <2>. QED BY <2>1, <2>3, DiskKeeps
  <1>4. CASE Delete
    <2>1. PICK p \in Paths : ChangeDisk([disk EXCEPT ![p] = Missing], {<<p, p>>})
      BY <1>4 DEF Delete
    <2>2. [disk EXCEPT ![p] = Missing] \in [Paths -> Files \cup {Missing}] /\ {<<p, p>>} \in SUBSET Hints
      BY <1>1 DEF Hints
    <2>. QED BY <2>1, <2>2, DiskKeeps
  <1>5. CASE Move
    <2>1. PICK m \in Moves, tracked \in BOOLEAN :
            ChangeDisk([disk EXCEPT ![m[1]] = Missing, ![m[2]] = disk[m[1]]],
                       IF tracked THEN {m} ELSE {<<m[1], m[1]>>, <<m[2], m[2]>>})
      BY <1>5 DEF Move
    <2>2. m \in Paths \X Paths /\ m[1] \in Paths /\ m[2] \in Paths
      BY DEF Moves
    <2>3. [disk EXCEPT ![m[1]] = Missing, ![m[2]] = disk[m[1]]] \in [Paths -> Files \cup {Missing}]
      BY <1>1, <2>2
    <2>4. (IF tracked THEN {m} ELSE {<<m[1], m[1]>>, <<m[2], m[2]>>}) \in SUBSET Hints
      BY <2>2 DEF Hints
    <2>. QED BY <2>1, <2>3, <2>4, DiskKeeps
  <1>. QED BY <1>2, <1>3, <1>4, <1>5

\* note_native_hint keeps the invariant.
LEMMA HearKeeps == WatchInv /\ Hear => WatchInv'
  <1> SUFFICES ASSUME WatchInv, Hear PROVE WatchInv'
    OBVIOUS
  <1>1. PICK hint \in hints :
          /\ hints' = hints \ {hint}
          /\ Becomes(NoteNativeHint(entry, hint), Event(entry.id))
          /\ excuses' = IF Strays(hint) THEN excuses \cup {"strayed"} ELSE excuses
          /\ UNCHANGED <<disk, clock, nextId, timers, polls, run, save, told, unseen, left>>
    BY DEF Hear, disks
  <1>2. entry \in Entries /\ entry # Nobody /\ entry.id \in Nat
    BY DEF WatchInv, TypeInv, HintsOK, Entries
  <1> DEFINE f == NoteNativeHint(entry, hint)
  <1>3. /\ SameWatch(f, entry) /\ SameGrace(f, entry) /\ SameSave(f, entry)
        /\ entry.scheduled => f.scheduled
        /\ f.scheduled /\ f.phase = "pending" => entry.scheduled
    BY <1>2, NoteIs
  <1>4. Becomes(f, Event(entry.id))
    BY <1>1
  <1> HIDE DEF f
  <1>5. Loose' /\ timers' \in Seq(Threads)
    BY <1>1 DEF WatchInv, Loose, TypeInv, Excuses
  <1>6. "absorbed" \in excuses' <=> "absorbed" \in excuses
    BY <1>1
  <1>. QED BY <1>1, <1>2, <1>3, <1>4, <1>5, <1>6, EventIs, EntryKeeps DEF Becomes

\* note_native_error keeps it.
LEMMA ErrorKeeps == WatchInv /\ NativeError => WatchInv'
  <1> SUFFICES ASSUME WatchInv, NativeError PROVE WatchInv'
    OBVIOUS
  <1>1. /\ entry \in Entries /\ entry # Nobody /\ entry.id \in Nat
        /\ hints' = {}
        /\ UNCHANGED <<disk, clock, nextId, timers, run, save, told, excuses, unseen>>
    BY DEF WatchInv, TypeInv, NativeError, disks, ghosts, Entries
  <1>2. left' \in [Resources -> Nat]
    BY SpendIs DEF NativeError, Resources
  <1>3. Event(entry.id) \in Threads /\ Event(entry.id).id = entry.id
    BY <1>1, EventIs
  <1>4. CASE entry.phase = "pending"
    <2> DEFINE f == [entry EXCEPT !.unhealthy = TRUE, !.activation = TRUE]
    <2>1. entry' = f /\ UNCHANGED <<threads, polls>>
      BY <1>4 DEF NativeError
    <2>2. /\ SameWatch(f, entry) /\ SameGrace(f, entry) /\ SameSave(f, entry)
          /\ f.scheduled = entry.scheduled
      BY <1>1 DEF Entries, SameWatch, SameGrace, SameSave
    <2> HIDE DEF f
    <2>3. Loose' /\ timers' \in Seq(Threads)
      BY <1>1, <1>2, <2>1 DEF WatchInv, Loose, TypeInv
    <2>. QED BY <1>1, <1>3, <2>1, <2>2, <2>3, EntryKeeps
  <1>5. CASE entry.phase # "pending"
    <2> DEFINE h == IF entry.degraded THEN entry.health ELSE entry.health + 1
               g == [entry EXCEPT !.degraded = TRUE, !.health = h]
               f == Ask(g)
               poll == [id |-> entry.id, health |-> entry.health + 1, attempts |-> left["polls"]]
    <2>1. Becomes(f, Event(entry.id)) /\ (polls' = polls \/ polls' = polls \cup {poll})
      BY <1>5 DEF NativeError
    <2>2. h \in Nat /\ poll \in PollSet
      BY <1>1 DEF Entries, PollSet, WatchInv, Loose, Resources
    <2> HIDE DEF h, poll
    <2>3. SameWatch(g, entry) /\ SameGrace(g, entry) /\ SameSave(g, entry) /\ g \in Entries
      BY <1>1, <1>5, <2>2 DEF Entries, SameWatch, SameGrace, SameSave
    <2> HIDE DEF g
    <2>4. SameWatch(f, g) /\ SameGrace(f, g) /\ SameSave(f, g) /\ f.scheduled
      BY <2>3, AskIs
    <2> HIDE DEF f
    <2>5. /\ SameWatch(f, entry) /\ SameGrace(f, entry) /\ SameSave(f, entry)
          /\ f.phase # "pending"
      BY <1>5, <2>3, <2>4 DEF SameWatch, SameGrace, SameSave
    <2>6. Loose' /\ timers' \in Seq(Threads)
      BY <1>1, <1>2, <2>1, <2>2 DEF WatchInv, Loose, TypeInv
    <2>. QED BY <1>1, <1>3, <2>1, <2>4, <2>5, <2>6, EntryKeeps DEF Becomes
  <1>. QED BY <1>4, <1>5

\* A run that a poller or the end of a grace period asks for.
LEMMA AskKeeps ==
  ASSUME WatchInv, entry # Nobody, entry.phase = "active",
         NEW thread \in Threads, thread.id = entry.id, Becomes(Ask(entry), thread),
         Loose', timers' \in Seq(Threads),
         UNCHANGED <<disk, clock, nextId, run, save, told, excuses, unseen>>
  PROVE  WatchInv'
  <1> DEFINE f == Ask(entry)
  <1>1. entry \in Entries
    BY DEF WatchInv, TypeInv
  <1>2. /\ SameWatch(f, entry) /\ SameGrace(f, entry) /\ SameSave(f, entry) /\ f.scheduled
        /\ Becomes(f, thread)
    BY <1>1, AskIs
  <1> HIDE DEF f
  <1>. QED BY <1>2, EntryKeeps DEF Becomes, SameWatch

\* The fallback poller keeps it.
LEMMA PollsKeep == WatchInv /\ (PollAsks \/ PollEnds \/ PollGivesUp) => WatchInv'
  <1> SUFFICES ASSUME WatchInv, PollAsks \/ PollEnds \/ PollGivesUp PROVE WatchInv'
    OBVIOUS
  <1>1. CASE PollAsks
    <2>1. PICK poll \in polls :
            /\ Concerned(poll) /\ poll.attempts > 0
            /\ polls' = (polls \ {poll}) \cup {[poll EXCEPT !.attempts = @ - 1]}
            /\ Becomes(Ask(entry), Event(entry.id))
            /\ UNCHANGED <<disk, clock, nextId, hints, timers, run, save, told, excuses, unseen, left>>
      BY <1>1 DEF PollAsks, disks, ghosts
    <2>2. entry \in Entries /\ entry # Nobody /\ entry.phase = "active" /\ entry.id \in Nat
      BY <2>1 DEF WatchInv, TypeInv, PendingOK, Concerned, Watching, Entries
    <2>3. poll \in PollSet /\ poll.attempts - 1 \in Nat
      BY <2>1 DEF WatchInv, Loose, PollSet
    <2>4. [poll EXCEPT !.attempts = @ - 1] \in PollSet
      BY <2>3 DEF PollSet
    <2>5. Loose' /\ timers' \in Seq(Threads)
      BY <2>1, <2>4 DEF WatchInv, Loose, TypeInv
    <2>. QED BY <2>1, <2>2, <2>5, EventIs, AskKeeps
  <1>2. CASE PollEnds
    <2>1. /\ polls' \subseteq polls
          /\ UNCHANGED <<disk, clock, entry, nextId, hints, threads, timers, run, save, told,
                         excuses, unseen, left>>
      BY <1>2 DEF PollEnds, disks, watch, ghosts
    <2>2. Loose' /\ timers' \in Seq(Threads) /\ disk' \in [Paths -> Files \cup {Missing}]
          /\ clock' \in Nat /\ clock' >= clock /\ (entry = Nobody => hints' = {})
      BY <2>1 DEF WatchInv, Loose, TypeInv, HintsOK
    <2>. QED BY <2>1, <2>2, AsideKeeps
  <1>3. CASE PollGivesUp
    <2> DEFINE f == [entry EXCEPT !.handle = FALSE]
    <2>1. /\ polls' \subseteq polls /\ entry # Nobody /\ hints' = {} /\ entry' = f
          /\ UNCHANGED <<disk, clock, nextId, threads, timers, run, save, told, excuses, unseen, left>>
      BY <1>3 DEF PollGivesUp, Concerned, Watching, disks, ghosts
    <2>2. entry \in Entries /\ entry.id \in Nat
      BY <2>1 DEF WatchInv, TypeInv, Entries
    <2>3. /\ SameWatch(f, entry) /\ SameGrace(f, entry) /\ SameSave(f, entry)
          /\ f.scheduled = entry.scheduled
      BY <2>2 DEF Entries, SameWatch, SameGrace, SameSave
    <2> HIDE DEF f
    <2>4. Loose' /\ timers' \in Seq(Threads)
      BY <2>1 DEF WatchInv, Loose, TypeInv
    <2>. QED BY <2>1, <2>2, <2>3, <2>4, EventIs, EntryKeeps
  <1>. QED BY <1>1, <1>2, <1>3

\* schedule_missing_confirmation keeps it.
LEMMA TimerKeeps == WatchInv /\ TimerFires => WatchInv'
  <1> SUFFICES ASSUME WatchInv, TimerFires PROVE WatchInv'
    OBVIOUS
  <1> DEFINE timer == Head(timers)
  <1>1. /\ timers # <<>> /\ timers' = Tail(timers)
        /\ IF Watching(timer.id) /\ entry.missing /\ entry.token = timer.token
             THEN Becomes(Ask(entry), timer) ELSE UNCHANGED <<entry, threads>>
        /\ UNCHANGED <<disk, clock, nextId, hints, polls, run, save, told, excuses, unseen, left>>
    BY DEF TimerFires, disks, ghosts
  <1>2. timer \in Threads /\ timers' \in Seq(Threads)
    BY <1>1 DEF WatchInv, TypeInv
  <1> HIDE DEF timer
  <1>3. Loose'
    BY <1>1 DEF WatchInv, Loose
  <1>4. CASE Watching(timer.id) /\ entry.missing /\ entry.token = timer.token
    <2>1. entry # Nobody /\ timer.id = entry.id /\ entry.phase = "active"
      BY <1>4 DEF Watching, WatchInv, PendingOK, TypeInv, Entries
    <2>. QED BY <1>1, <1>2, <1>3, <1>4, <2>1, AskKeeps
  <1>5. CASE ~(Watching(timer.id) /\ entry.missing /\ entry.token = timer.token)
    <2>1. disk' \in [Paths -> Files \cup {Missing}] /\ clock' \in Nat /\ clock' >= clock
          /\ (entry = Nobody => hints' = {})
      BY <1>1 DEF WatchInv, TypeInv, HintsOK
    <2>. QED BY <1>1, <1>2, <1>3, <1>5, <2>1, AsideKeeps
  <1>. QED BY <1>4, <1>5

\* The end of SELF_WRITE_EXPECTATION_TTL keeps it.
LEMMA ExpiresKeeps == WatchInv /\ ExpectationExpires => WatchInv'
  <1> SUFFICES ASSUME WatchInv, ExpectationExpires PROVE WatchInv'
    OBVIOUS
  <1> DEFINE w == [entry.expects EXCEPT !.expired = TRUE]
             f == [entry EXCEPT !.expects = w]
  <1>1. /\ entry \in Entries /\ entry # Nobody /\ entry.id \in Nat
        /\ entry.expects.kind = "committed" /\ entry' = f
        /\ UNCHANGED <<disk, clock, nextId, hints, threads, timers, polls, run, save, told,
                       excuses, unseen>>
    BY DEF WatchInv, TypeInv, ExpectationExpires, disks, work, ghosts, Entries
  <1>2. w \in Expectations /\ w.kind = "committed"
    BY <1>1 DEF Entries, Expectations
  <1> HIDE DEF w
  <1>3. /\ SameWatch(f, entry) /\ SameGrace(f, entry) /\ SameSave(f, entry)
        /\ f.scheduled = entry.scheduled
    BY <1>1, <1>2 DEF Entries, SameWatch, SameGrace, SameSave
  <1> HIDE DEF f
  <1>4. left' \in [Resources -> Nat]
    BY SpendIs DEF ExpectationExpires, Resources
  <1>5. Loose' /\ timers' \in Seq(Threads)
    BY <1>1, <1>4 DEF WatchInv, Loose, TypeInv
  <1>. QED BY <1>1, <1>3, <1>5, EventIs, EntryKeeps


\* A waiting run that finds its watch.
LEMMA TakenIs ==
  ASSUME WatchInv, run = Nobody, NEW thread \in threads, Watching(thread.id)
  PROVE  /\ entry \in Entries /\ entry # Nobody /\ entry.phase = "active" /\ entry.scheduled
         /\ thread.id = entry.id /\ Runs(entry.id) = {thread}
  <1>1. entry \in Entries /\ entry # Nobody /\ thread.id = entry.id
    BY DEF WatchInv, TypeInv, Watching
  <1>2. Runs(entry.id) = {thread} /\ entry.scheduled
    BY <1>1 DEF WatchInv, ScheduleOK, Runs
  <1>. QED BY <1>1, <1>2 DEF WatchInv, PendingOK, Entries

\* It gives up.
LEMMA GivingUpKeeps ==
  ASSUME WatchInv, run = Nobody, NEW thread \in threads, Watching(thread.id), NEW f,
         SameWatch(f, entry), SameGrace(f, entry), SameSave(f, entry), ~f.scheduled,
         entry' = f, threads' = threads \ {thread}, Loose',
         "absorbed" \in excuses' <=> "absorbed" \in excuses,
         UNCHANGED <<disk, clock, nextId, hints, timers, run, save, told, unseen>>
  PROVE  WatchInv'
  <1>1. /\ entry \in Entries /\ entry # Nobody /\ entry.phase = "active"
        /\ f \in Entries /\ Runs(entry.id) = {thread}
    BY TakenIs DEF SameWatch
  <1>2. TypeInv' /\ HintsOK' /\ NumbersOK' /\ RunOK' /\ FreshOK'
    BY <1>1, NobodyAssumption
       DEF WatchInv, TypeInv, HintsOK, NumbersOK, RunOK, FreshOK, SameWatch
  <1>3. PendingOK' /\ GraceOK' /\ SaveOK' /\ ToldOK'
    BY <1>1 DEF WatchInv, PendingOK, GraceOK, SaveOK, ToldOK, Writing, SameWatch, SameGrace, SameSave
  <1>4. ScheduleOK'
    <2>1. Runs(f.id)' = {} /\ ~Underway(f.id)'
      BY <1>1 DEF Runs, Underway, SameWatch
    <2>. QED BY <2>1 DEF ScheduleOK
  <1>. QED BY <1>2, <1>3, <1>4 DEF WatchInv

\* A run starts from the entry as it is.
LEMMA RunIs ==
  ASSUME NEW owner \in {"thread", "start", "command"}, NEW e \in Entries, NEW token \in Nat
  PROVE  LET r == Run(owner, e, token)
         IN  /\ r \in Contexts /\ r # Nobody
             /\ r.owner = owner /\ r.id = e.id /\ r.token = token /\ r.path = e.path
             /\ r.epoch = e.epoch /\ r.stage = "captured" /\ r.at = 0
  <1>1. Run(owner, e, token) \in Contexts
    BY DEF Run, Contexts, Entries
  <1>. QED BY <1>1, NobodyAssumption DEF Run

\* capture_scheduled_context keeps it, whether the run goes on or gives up.
LEMMA CaptureKeeps == WatchInv /\ Capture => WatchInv'
  <1> SUFFICES ASSUME WatchInv, Capture PROVE WatchInv'
    OBVIOUS
  <1>1. PICK thread \in threads :
          /\ run = Nobody /\ threads' = threads \ {thread}
          /\ IF ~Watching(thread.id) THEN UNCHANGED <<entry, run>>
             ELSE IF Cancelled(thread)
               THEN entry' = [entry EXCEPT !.scheduled = FALSE] /\ UNCHANGED run
             ELSE IF Writing(entry)
               THEN entry' = [entry EXCEPT !.scheduled = FALSE, !.expects.again = TRUE] /\ UNCHANGED run
             ELSE run' = Run("thread", entry, thread.token) /\ entry' = [entry EXCEPT !.moves = {}]
          /\ excuses' = IF Watching(thread.id) /\ Cancelled(thread)
                          THEN excuses \cup {"abandoned"} ELSE excuses
          /\ UNCHANGED <<disk, clock, nextId, hints, timers, polls, save, told, unseen, left>>
    BY DEF Capture, disks
  <1>2. Loose' /\ ("absorbed" \in excuses' <=> "absorbed" \in excuses) /\ timers' \in Seq(Threads)
    BY <1>1 DEF WatchInv, Loose, Excuses, TypeInv
  <1>3. CASE ~Watching(thread.id)
    <2>1. UNCHANGED <<entry, run>>
      BY <1>1, <1>3
    <2>2. entry # Nobody => Runs(entry.id)' = Runs(entry.id)
      BY <1>1, <1>3, <2>1 DEF Runs, Watching
    <2>3. ScheduleOK'
      BY <2>1, <2>2 DEF WatchInv, ScheduleOK, Underway
    <2>4. TypeInv' /\ HintsOK' /\ PendingOK' /\ NumbersOK' /\ RunOK'
      BY <1>1, <2>1 DEF WatchInv, TypeInv, HintsOK, PendingOK, NumbersOK, RunOK
    <2>5. GraceOK' /\ SaveOK' /\ ToldOK' /\ FreshOK'
      BY <1>1, <1>2, <2>1 DEF WatchInv, GraceOK, SaveOK, ToldOK, FreshOK, Writing
    <2>. QED BY <1>2, <2>3, <2>4, <2>5 DEF WatchInv
  <1>4. CASE Watching(thread.id) /\ Cancelled(thread)
    <2> DEFINE f == [entry EXCEPT !.scheduled = FALSE]
    <2>1. entry' = f /\ UNCHANGED run
      BY <1>1, <1>4
    <2>2. SameWatch(f, entry) /\ SameGrace(f, entry) /\ SameSave(f, entry) /\ ~f.scheduled
      BY <1>1, <1>4, TakenIs DEF Entries, SameWatch, SameGrace, SameSave
    <2> HIDE DEF f
    <2>. QED BY <1>1, <1>2, <1>4, <2>1, <2>2, GivingUpKeeps
  <1>5. CASE Watching(thread.id) /\ ~Cancelled(thread) /\ Writing(entry)
    <2>1. entry \in Entries
      BY <1>1, <1>5, TakenIs
    <2> DEFINE w == [entry.expects EXCEPT !.again = TRUE]
               f == [entry EXCEPT !.scheduled = FALSE, !.expects = w]
    <2>2. w \in Expectations /\ w.kind = entry.expects.kind
      <3>1. entry.expects \in [kind : {"writing"}, text : Texts, again : BOOLEAN]
        BY <1>5, <2>1 DEF Writing, Entries, Expectations
      <3>. QED BY <3>1 DEF Expectations
    <2>3. entry' = f /\ UNCHANGED run
      BY <1>1, <1>5, <2>1 DEF Entries
    <2> HIDE DEF w
    <2>4. SameWatch(f, entry) /\ SameGrace(f, entry) /\ SameSave(f, entry) /\ ~f.scheduled
      BY <2>1, <2>2 DEF Entries, SameWatch, SameGrace, SameSave
    <2> HIDE DEF f
    <2>. QED BY <1>1, <1>2, <1>5, <2>3, <2>4, GivingUpKeeps
  <1>6. CASE Watching(thread.id) /\ ~Cancelled(thread) /\ ~Writing(entry)
    <2>1. /\ entry \in Entries /\ entry # Nobody /\ entry.phase = "active" /\ entry.scheduled
          /\ thread.id = entry.id /\ Runs(entry.id) = {thread} /\ thread.token \in Nat
      BY <1>1, <1>6, TakenIs DEF WatchInv, TypeInv, Threads
    <2> DEFINE f == [entry EXCEPT !.moves = {}]
               r == Run("thread", entry, thread.token)
    <2>2. entry' = f /\ run' = r
      BY <1>1, <1>6
    <2>3. /\ SameWatch(f, entry) /\ SameGrace(f, entry) /\ f.scheduled
          /\ f.epoch = entry.epoch /\ f.expects = entry.expects
      BY <2>1 DEF Entries, SameWatch, SameGrace
    <2>4. /\ r \in Contexts /\ r # Nobody
          /\ r.owner = "thread" /\ r.id = entry.id /\ r.token = thread.token /\ r.path = entry.path
          /\ r.epoch = entry.epoch /\ r.stage = "captured" /\ r.at = 0
      BY <2>1, RunIs
    <2> HIDE DEF f, r
    <2>5. TypeInv' /\ HintsOK' /\ PendingOK' /\ NumbersOK'
      BY <1>1, <2>1, <2>2, <2>3, <2>4, NobodyAssumption
         DEF WatchInv, TypeInv, HintsOK, PendingOK, NumbersOK, SameWatch
    <2>6. GraceOK' /\ SaveOK' /\ ToldOK' /\ FreshOK'
      BY <1>1, <1>2, <2>1, <2>2, <2>3, <2>4
         DEF WatchInv, GraceOK, SaveOK, ToldOK, FreshOK, Writing, SameWatch, SameGrace
    <2>7. ScheduleOK'
      <3>1. entry'.id = entry.id /\ entry'.scheduled
        BY <2>2, <2>3 DEF SameWatch
      <3>2. Runs(entry.id)' = {} /\ Underway(entry.id)'
        BY <1>1, <2>1, <2>2, <2>4, <3>1 DEF Runs, Underway
      <3>. QED BY <3>1, <3>2 DEF ScheduleOK
    <2>8. RunOK'
      <3>1. thread.token # 0 => entry.missing /\ entry.token = thread.token
        BY <1>6 DEF Cancelled
      <3>2. 0 <= clock /\ entry.epoch \in Nat
        BY <2>1 DEF WatchInv, TypeInv, Entries
      <3>. QED BY <1>1, <2>2, <2>3, <2>4, <3>1, <3>2 DEF RunOK, SameWatch, SameGrace
    <2>. QED BY <1>2, <2>5, <2>6, <2>7, <2>8 DEF WatchInv
  <1>. QED BY <1>3, <1>4, <1>5, <1>6

\* What the holder of the lane reads is as new as the disk.
LEMMA SeesKeeps ==
  ASSUME WatchInv, run # Nobody, NEW stage \in {"gone", "resolved"}, NEW snapshot \in Readings,
         run.owner = "start" => stage # "gone" /\ snapshot.path = run.path,
         Sees(stage, snapshot), left' \in [Resources -> Nat]
  PROVE  WatchInv'
  <1> DEFINE r == [run EXCEPT !.stage = stage, !.seen = snapshot, !.at = clock]
  <1>1. /\ run' = r
        /\ UNCHANGED <<disk, clock, entry, nextId, hints, threads, timers, polls, save, told,
                       excuses, unseen>>
    BY DEF Sees, disks, watch, work, ghosts
  <1>2. run \in Contexts /\ clock \in Nat
    BY DEF WatchInv, TypeInv
  <1>3. /\ r \in Contexts /\ r # Nobody /\ r.stage = stage /\ r.seen = snapshot /\ r.at = clock
        /\ r.owner = run.owner /\ r.id = run.id /\ r.token = run.token /\ r.path = run.path
        /\ r.epoch = run.epoch
    <2>1. r \in Contexts
      BY <1>2 DEF Contexts
    <2>. QED BY <1>2, <2>1, NobodyAssumption DEF Contexts
  <1> HIDE DEF r
  <1>4. TypeInv' /\ HintsOK' /\ PendingOK' /\ NumbersOK' /\ GraceOK' /\ SaveOK' /\ ToldOK'
    BY <1>1, <1>3
       DEF WatchInv, TypeInv, HintsOK, PendingOK, NumbersOK, GraceOK, SaveOK, ToldOK, Writing
  <1>5. ScheduleOK'
    BY <1>1, <1>3 DEF WatchInv, ScheduleOK, Runs, Underway
  <1>6. RunOK'
    BY <1>1, <1>2, <1>3 DEF WatchInv, RunOK
  <1>7. FreshOK'
    BY <1>1, <1>3 DEF WatchInv, FreshOK, ToldOK
  <1>8. Loose'
    BY <1>1 DEF WatchInv, Loose
  <1>. QED BY <1>4, <1>5, <1>6, <1>7, <1>8 DEF WatchInv

\* read_authorized_disk and resolve_disk_state keep it.
LEMMA ReadingKeeps == WatchInv /\ (Look \/ Follow \/ Refuse) => WatchInv'
  <1> SUFFICES ASSUME WatchInv, Look \/ Follow \/ Refuse PROVE WatchInv'
    OBVIOUS
  <1>1. /\ run # Nobody /\ run \in Contexts /\ run.path \in Paths
        /\ disk \in [Paths -> Files \cup {Missing}] /\ left \in [Resources -> Nat]
    BY DEF WatchInv, TypeInv, Loose, Look, Follow, Refuse, Contexts
  <1>2. CASE Look
    <2> DEFINE stage == IF disk[run.path] = Missing /\ run.owner # "start" THEN "gone" ELSE "resolved"
               snapshot == [path |-> run.path, file |-> disk[run.path]]
    <2>1. Sees(stage, snapshot) /\ left' = left
      BY <1>2 DEF Look
    <2>2. /\ stage \in {"gone", "resolved"} /\ snapshot \in Readings
          /\ run.owner = "start" => stage # "gone" /\ snapshot.path = run.path
      BY <1>1 DEF Readings
    <2>. QED BY <1>1, <2>1, <2>2, SeesKeeps
  <1>3. CASE Follow
    <2>1. run.seen \in Readings /\ run.owner # "start" /\ left' = left
      BY <1>1, <1>3 DEF WatchInv, RunOK, Follow
    <2>2. CASE Cardinality(Candidates) = 1
      <3>1. PICK q \in Candidates : Sees("resolved", [path |-> q, file |-> disk[q]])
        BY <1>3, <2>2 DEF Follow
      <3>2. [path |-> q, file |-> disk[q]] \in Readings
        BY <1>1 DEF Candidates, Readings
      <3>. QED BY <1>1, <2>1, <3>1, <3>2, SeesKeeps
    <2>3. CASE Cardinality(Candidates) # 1
      BY <1>1, <1>3, <2>1, <2>3, SeesKeeps DEF Follow
    <2>. QED BY <2>2, <2>3
  <1>4. CASE Refuse
    <2>1. Sees("resolved", [path |-> run.path, file |-> Refusal])
      BY <1>4 DEF Refuse
    <2>2. left' \in [Resources -> Nat]
      BY <1>4, SpendIs DEF Refuse, Resources
    <2>3. [path |-> run.path, file |-> Refusal] \in Readings
      BY <1>1 DEF Readings
    <2>. QED BY <1>1, <2>1, <2>2, <2>3, SeesKeeps
  <1>. QED BY <1>2, <1>3, <1>4


\* A new watch is pending, and nothing is scheduled or expected.
LEMMA PendingIs ==
  ASSUME NEW id \in Nat, NEW p \in Paths
  PROVE  LET e == Pending(id, p)
         IN  /\ e \in Entries /\ e # Nobody /\ e.id = id /\ e.path = p /\ e.phase = "pending"
             /\ ~e.scheduled /\ ~e.degraded /\ ~e.missing /\ e.expects.kind = "none" /\ e.epoch = 0
  <1> DEFINE w == Unexpecting
             m == {}
  <1>1. w \in Expectations /\ w.kind = "none" /\ m \in SUBSET Moves
    BY DEF Unexpecting, Expectations
  <1>2. Pending(id, p) =
          [id |-> id, path |-> p, identity |-> 0, phase |-> "pending",
           activation |-> FALSE, unhealthy |-> FALSE, scheduled |-> FALSE, again |-> FALSE,
           moves |-> m, missing |-> FALSE, token |-> 0,
           last |-> Nobody, epoch |-> 0, expects |-> w,
           degraded |-> FALSE, health |-> 0, handle |-> TRUE]
    BY DEF Pending
  <1> HIDE DEF w, m
  <1>3. Pending(id, p) \in Entries
    BY <1>1, <1>2 DEF Entries
  <1>4. Pending(id, p) # Nobody
    BY <1>3, NobodyAssumption
  <1>. QED
    <2> DEFINE e == Pending(id, p)
    <2>1. /\ e.id = id /\ e.path = p /\ e.phase = "pending" /\ e.scheduled = FALSE
          /\ e.degraded = FALSE /\ e.missing = FALSE /\ e.expects = w /\ e.epoch = 0
      BY <1>2
    <2> HIDE DEF e
    <2>. QED BY <1>1, <1>3, <1>4, <2>1 DEF e

\* start_active_document_watch keeps it: no thread knows the new id yet.
LEMMA StartWatchKeeps == WatchInv /\ StartWatch => WatchInv'
  <1> SUFFICES ASSUME WatchInv, StartWatch PROVE WatchInv'
    OBVIOUS
  <1>1. PICK p \in Paths :
          /\ save = Nobody /\ run = Nobody
          /\ entry' = Pending(nextId, p) /\ nextId' = nextId + 1 /\ hints' = {}
          /\ run' = Run("start", entry', 0)
          /\ told' = Nobody /\ excuses' = {} /\ unseen' = 0
          /\ left' = left \/ Spend("other")
          /\ UNCHANGED <<disk, clock, threads, timers, polls, save>>
    BY DEF StartWatch, MainIdle, disks, work
  <1>2. nextId \in Nat /\ nextId # 0 /\ nextId + 1 \in Nat \ {0} /\ nextId < nextId + 1
        /\ clock \in Nat
    BY DEF WatchInv, TypeInv
  <1>3. /\ entry' \in Entries /\ entry' # Nobody /\ entry'.id = nextId /\ entry'.path = p
        /\ entry'.phase = "pending" /\ ~entry'.scheduled /\ ~entry'.degraded /\ ~entry'.missing
        /\ entry'.expects.kind = "none" /\ entry'.epoch = 0
    BY <1>1, <1>2, PendingIs
  <1>4. /\ run' \in Contexts /\ run' # Nobody /\ run'.owner = "start" /\ run'.id = nextId
        /\ run'.path = p /\ run'.epoch = 0 /\ run'.stage = "captured" /\ run'.at = 0
    BY <1>1, <1>3, RunIs
  <1>5. left' \in [Resources -> Nat]
    BY <1>1, SpendIs DEF WatchInv, Loose, Resources
  <1>6. TypeInv' /\ Loose'
    BY <1>1, <1>2, <1>3, <1>4, <1>5 DEF WatchInv, TypeInv, Loose
  <1>7. HintsOK' /\ PendingOK' /\ GraceOK' /\ SaveOK' /\ ToldOK' /\ FreshOK'
    BY <1>1, <1>3, <1>4 DEF HintsOK, PendingOK, GraceOK, SaveOK, ToldOK, FreshOK
  <1>8. NumbersOK'
    <2>1. \A thread \in threads : thread.id < nextId /\ thread.id \in Nat
      BY DEF WatchInv, NumbersOK, TypeInv, Threads
    <2>. QED BY <1>1, <1>2, <1>3, <2>1 DEF NumbersOK
  <1>9. ScheduleOK'
    <2>1. \A thread \in threads : thread.id # nextId
      BY <1>2 DEF WatchInv, NumbersOK, TypeInv, Threads
    <2>2. Runs(entry.id)' = {} /\ ~Underway(entry.id)'
      BY <1>1, <1>3, <1>4, <2>1 DEF Runs, Underway
    <2>. QED BY <1>3, <2>2 DEF ScheduleOK
  <1>10. RunOK'
    BY <1>1, <1>2, <1>3, <1>4 DEF RunOK
  <1>. QED BY <1>6, <1>7, <1>8, <1>9, <1>10 DEF WatchInv

\* finalize_registration keeps it.
LEMMA FinishRegistrationKeeps == WatchInv /\ FinishRegistration => WatchInv'
  <1> SUFFICES ASSUME WatchInv, FinishRegistration PROVE WatchInv'
    OBVIOUS
  <1>1. /\ run # Nobody /\ run.owner = "start" /\ run.stage = "resolved" /\ run' = Nobody
        /\ IF run.seen.file = Refusal
             THEN entry' = Nobody /\ hints' = {} /\ UNCHANGED told
             ELSE /\ entry' = [entry EXCEPT
                       !.last = run.seen,
                       !.identity = IF run.seen.file = Missing THEN 0 ELSE run.seen.file.identity]
                  /\ Tells
                  /\ UNCHANGED hints
        /\ UNCHANGED <<disk, clock, nextId, threads, timers, polls, save, excuses, unseen, left>>
    BY DEF FinishRegistration, disks, work
  <1>2. /\ entry \in Entries /\ entry # Nobody /\ save = Nobody /\ told = Nobody
        /\ run.seen \in Readings /\ run.seen.path = run.path /\ run.path = entry.path
        /\ run.at <= clock /\ run.at \in Nat
    BY <1>1, NobodyAssumption DEF WatchInv, RunOK, TypeInv, Contexts
  <1>3. Loose' /\ SaveOK' /\ FreshOK' /\ RunOK'
    BY <1>1, <1>2 DEF WatchInv, Loose, SaveOK, FreshOK, RunOK
  <1>4. CASE run.seen.file = Refusal
    <2>1. entry' = Nobody /\ hints' = {} /\ told' = told
      BY <1>1, <1>4
    <2>2. TypeInv' /\ HintsOK' /\ PendingOK' /\ NumbersOK' /\ ScheduleOK' /\ GraceOK' /\ ToldOK'
      BY <1>1, <1>2, <2>1
         DEF WatchInv, TypeInv, HintsOK, PendingOK, NumbersOK, ScheduleOK, GraceOK, ToldOK
    <2>. QED BY <1>3, <2>2 DEF WatchInv
  <1>5. CASE run.seen.file # Refusal
    <2> DEFINE i == IF run.seen.file = Missing THEN 0 ELSE run.seen.file.identity
               f == [entry EXCEPT !.last = run.seen, !.identity = i]
    <2>1. entry' = f /\ Tells /\ hints' = hints
      BY <1>1, <1>5
    <2>2. i \in Nat /\ run.seen \in Snapshots
      BY <1>2, <1>5 DEF Readings, Snapshots, Files
    <2> HIDE DEF i
    <2>3. /\ SameWatch(f, entry) /\ SameGrace(f, entry) /\ SameSave(f, entry)
          /\ f.scheduled = entry.scheduled
      BY <1>2, <2>2 DEF Entries, SameWatch, SameGrace, SameSave
    <2> HIDE DEF f
    <2>4. told' \in Reports
      BY <1>2, <2>1, <2>2 DEF Tells, Reports, Snapshots
    <2>5. TypeInv' /\ HintsOK' /\ NumbersOK'
      BY <1>1, <1>2, <2>1, <2>3, <2>4, NobodyAssumption
         DEF WatchInv, TypeInv, HintsOK, NumbersOK, SameWatch
    <2>6. PendingOK' /\ GraceOK'
      BY <1>1, <1>2, <2>1, <2>3 DEF WatchInv, PendingOK, GraceOK, SameWatch, SameGrace, SameSave
    <2>7. ToldOK'
      BY <1>1, <1>2, <2>1, <2>3 DEF ToldOK, Tells, SameWatch
    <2>8. ScheduleOK'
      <3>1. entry'.id = entry.id /\ entry'.scheduled = entry.scheduled
        BY <2>1, <2>3 DEF SameWatch
      <3>2. Runs(entry.id)' = Runs(entry.id) /\ ~Underway(entry.id) /\ ~Underway(entry.id)'
        BY <1>1, <3>1 DEF Runs, Underway
      <3>. QED BY <1>2, <3>1, <3>2 DEF WatchInv, ScheduleOK
    <2>. QED BY <1>3, <2>5, <2>6, <2>7, <2>8 DEF WatchInv
  <1>. QED BY <1>4, <1>5

\* activate keeps it: what was heard before schedules the first run.
LEMMA ActivateKeeps == WatchInv /\ Activate => WatchInv'
  <1> SUFFICES ASSUME WatchInv, Activate PROVE WatchInv'
    OBVIOUS
  <1> DEFINE h == IF entry.unhealthy THEN entry.health + 1 ELSE entry.health
             poll == [id |-> entry.id, health |-> entry.health + 1, attempts |-> left["polls"]]
             f == [entry EXCEPT !.phase = "active", !.scheduled = entry.activation,
                                !.activation = FALSE, !.degraded = entry.unhealthy,
                                !.unhealthy = FALSE, !.health = h]
  <1>1. /\ entry # Nobody /\ entry.phase = "pending" /\ save = Nobody /\ run = Nobody
        /\ Becomes(f, Event(entry.id))
        /\ polls' = polls \/ polls' = polls \cup {poll}
        /\ UNCHANGED <<disk, clock, nextId, hints, timers, run, save, told, excuses, unseen, left>>
    BY DEF Activate, MainIdle, disks, ghosts, WatchInv, PendingOK
  <1>2. /\ entry \in Entries /\ entry.id \in Nat /\ ~entry.scheduled /\ ~entry.missing
        /\ entry.expects.kind = "none" /\ h \in Nat /\ poll \in PollSet
    BY <1>1 DEF WatchInv, TypeInv, PendingOK, Entries, PollSet, Loose, Resources
  <1> HIDE DEF h, poll
  <1>3. /\ f \in Entries /\ f.id = entry.id /\ f.path = entry.path /\ f.phase = "active"
        /\ SameGrace(f, entry) /\ SameSave(f, entry)
    BY <1>2 DEF Entries, SameGrace, SameSave
  <1> HIDE DEF f
  <1>4. /\ entry' = f
        /\ threads' = threads \/ threads' = threads \cup {Event(entry.id)}
    BY <1>1 DEF Becomes
  <1>5. Event(entry.id) \in Threads /\ Event(entry.id).id = entry.id
    BY <1>2, EventIs
  <1>6. TypeInv' /\ Loose'
    BY <1>1, <1>2, <1>3, <1>4, <1>5 DEF WatchInv, TypeInv, Loose
  <1>7. HintsOK' /\ PendingOK' /\ RunOK' /\ SaveOK' /\ FreshOK'
    BY <1>1, <1>3, <1>4, NobodyAssumption DEF HintsOK, PendingOK, RunOK, SaveOK, FreshOK
  <1>8. NumbersOK' /\ GraceOK' /\ ToldOK'
    BY <1>1, <1>2, <1>3, <1>4, <1>5 DEF WatchInv, NumbersOK, GraceOK, ToldOK, SameGrace
  <1>9. ScheduleOK'
    BY <1>1, <1>2, <1>3, <1>5, SpawnKeeps DEF WatchInv
  <1>. QED BY <1>6, <1>7, <1>8, <1>9 DEF WatchInv

\* capture_command_context keeps it.
LEMMA StartReconcileKeeps == WatchInv /\ StartReconcile => WatchInv'
  <1> SUFFICES ASSUME WatchInv, StartReconcile PROVE WatchInv'
    OBVIOUS
  <1>1. /\ save = Nobody /\ run = Nobody /\ entry # Nobody /\ entry.phase = "active"
        /\ run' = Run("command", entry, 0)
        /\ UNCHANGED <<disk, clock, entry, nextId, hints, threads, timers, polls, save, told,
                       excuses, unseen>>
    BY DEF StartReconcile, MainIdle, disks, watch, work, ghosts
  <1>2. entry \in Entries /\ entry.epoch \in Nat /\ clock \in Nat
    BY <1>1 DEF WatchInv, TypeInv, Entries
  <1>3. /\ run' \in Contexts /\ run' # Nobody /\ run'.owner = "command" /\ run'.id = entry.id
        /\ run'.path = entry.path /\ run'.epoch = entry.epoch /\ run'.stage = "captured" /\ run'.at = 0
    BY <1>1, <1>2, RunIs
  <1>4. left' \in [Resources -> Nat]
    BY SpendIs DEF StartReconcile, Resources
  <1>5. TypeInv' /\ Loose' /\ HintsOK' /\ PendingOK' /\ NumbersOK' /\ GraceOK' /\ SaveOK' /\ ToldOK'
    BY <1>1, <1>3, <1>4
       DEF WatchInv, TypeInv, Loose, HintsOK, PendingOK, NumbersOK, GraceOK, SaveOK, ToldOK
  <1>6. ScheduleOK'
    BY <1>1, <1>3 DEF WatchInv, ScheduleOK, Runs, Underway
  <1>7. RunOK' /\ FreshOK'
    BY <1>1, <1>2, <1>3 DEF RunOK, FreshOK
  <1>. QED BY <1>5, <1>6, <1>7 DEF WatchInv

\* reconcile_command keeps it.
LEMMA FinishReconcileKeeps == WatchInv /\ FinishReconcile => WatchInv'
  <1> SUFFICES ASSUME WatchInv, FinishReconcile PROVE WatchInv'
    OBVIOUS
  <1>1. /\ run # Nobody /\ run.owner = "command" /\ run.stage = "resolved" /\ run' = Nobody
        /\ IF Stale(entry) \/ run.seen.file = Refusal \/ Unrecognised(entry)
             THEN UNCHANGED <<entry, told, excuses, unseen>>
             ELSE /\ entry' = Settled(CancelMissingGrace(Transition(entry)))
                  /\ Tells
                  /\ excuses' = excuses \cap {"strayed"} /\ unseen' = 0
        /\ UNCHANGED <<disk, clock, nextId, hints, threads, timers, polls, save, left>>
    BY DEF FinishReconcile, disks, work, ghosts
  <1>2. /\ entry \in Entries /\ entry # Nobody /\ save = Nobody /\ run.seen \in Readings
        /\ run.at <= clock /\ run.at \in Nat
    BY <1>1, NobodyAssumption DEF WatchInv, RunOK, TypeInv, Contexts
  <1>3. entry.phase = "active"
    BY <1>1, <1>2 DEF WatchInv, PendingOK, Entries
  <1>4. Loose' /\ SaveOK' /\ FreshOK' /\ RunOK'
    BY <1>1, <1>2 DEF WatchInv, Loose, SaveOK, FreshOK, RunOK, Excuses
  <1>5. ASSUME entry'.id = entry.id, entry'.scheduled = entry.scheduled PROVE ScheduleOK'
    <2>1. Runs(entry.id)' = Runs(entry.id) /\ ~Underway(entry.id) /\ ~Underway(entry.id)'
      BY <1>1, <1>5 DEF Runs, Underway
    <2>. QED BY <1>2, <1>5, <2>1 DEF WatchInv, ScheduleOK
  <1>6. CASE Stale(entry) \/ run.seen.file = Refusal \/ Unrecognised(entry)
    <2>1. UNCHANGED <<entry, told, excuses, unseen>>
      BY <1>1, <1>6
    <2>2. TypeInv' /\ HintsOK' /\ PendingOK' /\ NumbersOK' /\ GraceOK' /\ ToldOK'
      BY <1>1, <2>1 DEF WatchInv, TypeInv, HintsOK, PendingOK, NumbersOK, GraceOK, ToldOK
    <2>. QED BY <1>4, <1>5, <2>1, <2>2 DEF WatchInv
  <1>7. CASE ~(Stale(entry) \/ run.seen.file = Refusal \/ Unrecognised(entry))
    <2> DEFINE e == Transition(entry)
               c == CancelMissingGrace(e)
               f == Settled(c)
    <2>1. /\ entry' = f /\ Tells
          /\ excuses' = excuses \cap {"strayed"} /\ unseen' = 0
      BY <1>1, <1>7
    <2>2. run.seen \in Snapshots
      BY <1>2, <1>7 DEF Readings, Snapshots
    <2>3. /\ e \in Entries /\ e.path = run.seen.path /\ e.id = entry.id /\ e.phase = entry.phase
          /\ e.scheduled = entry.scheduled
      BY <1>2, <2>2, TransitionIs
    <2> HIDE DEF e
    <2>4. SameWatch(c, e) /\ c.scheduled = e.scheduled /\ ~c.missing
      BY <2>3, CancelGraceIs
    <2> HIDE DEF c
    <2>5. SameWatch(f, c) /\ SameGrace(f, c) /\ f.scheduled = c.scheduled
      BY <2>2, <2>4, SettledIs DEF SameWatch
    <2> HIDE DEF f
    <2>6. /\ f \in Entries /\ f.id = entry.id /\ f.path = run.seen.path /\ f.phase = "active"
          /\ f.scheduled = entry.scheduled /\ ~f.missing
      BY <1>3, <2>3, <2>4, <2>5 DEF SameWatch, SameGrace
    <2>7. told' \in Reports
      BY <1>2, <2>1, <2>2 DEF Tells, Reports, Snapshots
    <2>8. TypeInv' /\ HintsOK' /\ PendingOK' /\ NumbersOK' /\ GraceOK'
      BY <1>1, <1>2, <2>1, <2>6, <2>7, NobodyAssumption
         DEF WatchInv, TypeInv, HintsOK, PendingOK, NumbersOK, GraceOK
    <2>9. ToldOK'
      BY <1>1, <1>2, <2>1, <2>6 DEF ToldOK, Tells
    <2>. QED BY <1>4, <1>5, <2>1, <2>6, <2>8, <2>9 DEF WatchInv
  <1>. QED BY <1>6, <1>7

\* stop and stop_all keep it.
LEMMA StopKeeps == WatchInv /\ Stop => WatchInv'
  <1> SUFFICES ASSUME WatchInv, Stop PROVE WatchInv'
    OBVIOUS
  <1>1. /\ save = Nobody /\ run = Nobody /\ entry' = Nobody /\ hints' = {}
        /\ told' = Nobody /\ excuses' = {} /\ unseen' = 0
        /\ UNCHANGED <<disk, clock, nextId, threads, timers, polls, run, save>>
    BY DEF Stop, MainIdle, disks, work
  <1>2. left' \in [Resources -> Nat]
    BY SpendIs DEF Stop, Resources
  <1>3. TypeInv' /\ Loose'
    BY <1>1, <1>2 DEF WatchInv, TypeInv, Loose
  <1>4. /\ HintsOK' /\ PendingOK' /\ NumbersOK' /\ ScheduleOK' /\ RunOK' /\ GraceOK' /\ SaveOK'
        /\ ToldOK' /\ FreshOK'
    BY <1>1 DEF WatchInv, HintsOK, PendingOK, NumbersOK, ScheduleOK, RunOK, GraceOK, SaveOK,
                ToldOK, FreshOK
  <1>. QED BY <1>3, <1>4 DEF WatchInv


\* begin_app_write keeps it: what the lane has read is stale from here on.
LEMMA BeginAppWriteKeeps == WatchInv /\ BeginAppWrite => WatchInv'
  <1> SUFFICES ASSUME WatchInv, BeginAppWrite PROVE WatchInv'
    OBVIOUS
  <1> DEFINE announced == entry # Nobody /\ entry.phase = "active" /\ entry.path = told.path
  <1>1. PICK t \in Texts, forced \in BOOLEAN :
          /\ save = Nobody /\ (run = Nobody \/ run.owner = "thread")
          /\ told # Nobody /\ told.file # Missing
          /\ entry' = IF announced
                        THEN [entry EXCEPT !.epoch = @ + 1,
                                !.expects = [kind |-> "writing", text |-> t, again |-> FALSE]]
                        ELSE entry
          /\ save' = [path |-> told.path, expected |-> told.file, text |-> t,
                      forced |-> forced, file |-> Missing, stage |-> "begun",
                      token |-> IF announced THEN [id |-> entry.id, epoch |-> entry.epoch + 1]
                                ELSE NoToken]
          /\ UNCHANGED <<disk, clock, nextId, hints, threads, timers, polls, run, told, excuses, unseen>>
    BY DEF BeginAppWrite, MainIdle, disks, work, ghosts
  <1> HIDE DEF announced
  <1>2. /\ entry \in Entries /\ entry # Nobody /\ entry.id \in Nat /\ entry.epoch \in Nat
        /\ told \in Reports /\ told.path \in Paths /\ told.file \in Files
    BY <1>1, NobodyAssumption DEF WatchInv, ToldOK, TypeInv, Entries, Reports
  <1>3. left' \in [Resources -> Nat]
    BY SpendIs DEF BeginAppWrite, Resources
  <1>4. Loose'
    BY <1>1, <1>3 DEF WatchInv, Loose
  <1>5. /\ save' \in Saves /\ save'.stage = "begun"
        /\ save'.token = IF announced THEN [id |-> entry.id, epoch |-> entry.epoch + 1] ELSE NoToken
    <2> DEFINE token == IF announced THEN [id |-> entry.id, epoch |-> entry.epoch + 1] ELSE NoToken
    <2>1. token \in [id : Nat, epoch : Nat]
      BY <1>2 DEF NoToken
    <2>2. save' = [path |-> told.path, expected |-> told.file, text |-> t,
                   forced |-> forced, file |-> Missing, stage |-> "begun", token |-> token]
      BY <1>1
    <2> HIDE DEF token
    <2>3. save' \in Saves /\ save'.stage = "begun" /\ save'.token = token
      BY <1>2, <2>1, <2>2 DEF Saves
    <2>. QED BY <2>3 DEF token
  <1>6. CASE announced
    <2> DEFINE n == entry.epoch + 1
               w == [kind |-> "writing", text |-> t, again |-> FALSE]
               f == [entry EXCEPT !.epoch = n, !.expects = w]
    <2>1. entry' = f /\ save'.token.id = entry.id /\ save'.token.epoch = n
      BY <1>1, <1>5, <1>6
    <2>2. n \in Nat /\ n > entry.epoch /\ w \in Expectations /\ w.kind = "writing"
      BY <1>2 DEF Expectations
    <2> HIDE DEF n, w
    <2>3. /\ SameWatch(f, entry) /\ SameGrace(f, entry) /\ f.scheduled = entry.scheduled
          /\ f.epoch = n /\ f.expects = w
      BY <1>2, <2>2 DEF Entries, SameWatch, SameGrace
    <2> HIDE DEF f
    <2>4. entry.phase = "active"
      BY <1>6 DEF announced
    <2>5. TypeInv' /\ HintsOK' /\ NumbersOK'
      BY <1>1, <1>2, <1>5, <2>1, <2>3, NobodyAssumption
         DEF WatchInv, TypeInv, HintsOK, NumbersOK, SameWatch
    <2>6. PendingOK' /\ GraceOK' /\ ToldOK' /\ FreshOK' /\ SaveOK'
      BY <1>1, <1>2, <1>5, <2>1, <2>2, <2>3, <2>4
         DEF WatchInv, PendingOK, GraceOK, ToldOK, FreshOK, SaveOK, Writing, SameWatch, SameGrace
    <2>7. ScheduleOK'
      <3>1. entry'.id = entry.id /\ entry'.scheduled = entry.scheduled
        BY <2>1, <2>3 DEF SameWatch
      <3>2. Runs(entry.id)' = Runs(entry.id) /\ (Underway(entry.id)' <=> Underway(entry.id))
        BY <1>1, <3>1 DEF Runs, Underway
      <3>. QED BY <1>2, <3>1, <3>2 DEF WatchInv, ScheduleOK
    <2>8. RunOK'
      <3>1. run # Nobody => run.epoch \in Nat /\ run.epoch <= entry.epoch
        BY DEF WatchInv, RunOK, TypeInv, Contexts
      <3>2. run # Nobody => run.epoch <= n
        BY <1>2, <2>2, <3>1
      <3>. QED BY <1>1, <1>2, <2>1, <2>3, <3>2 DEF WatchInv, RunOK, SameWatch, SameGrace
    <2>. QED BY <1>4, <2>5, <2>6, <2>7, <2>8 DEF WatchInv
  <1>7. CASE ~announced
    <2>1. entry' = entry /\ save'.token = NoToken
      BY <1>1, <1>5, <1>7
    <2>2. "absorbed" \in excuses \/ entry.phase = "pending"
      BY <1>1, <1>2, <1>7 DEF WatchInv, ToldOK, announced, Entries
    <2>3. TypeInv' /\ HintsOK' /\ NumbersOK' /\ PendingOK' /\ GraceOK' /\ ToldOK' /\ FreshOK'
      BY <1>1, <1>5, <2>1
         DEF WatchInv, TypeInv, HintsOK, NumbersOK, PendingOK, GraceOK, ToldOK, FreshOK, Writing
    <2>4. ScheduleOK' /\ RunOK'
      BY <1>1, <2>1 DEF WatchInv, ScheduleOK, Runs, Underway, RunOK
    <2>5. SaveOK'
      BY <1>1, <1>5, <2>1, <2>2 DEF SaveOK
    <2>. QED BY <1>4, <2>3, <2>4, <2>5 DEF WatchInv
  <1>. QED BY <1>6, <1>7

\* The replacement of the file keeps it.
LEMMA CommitSaveKeeps == WatchInv /\ CommitSave => WatchInv'
  <1> SUFFICES ASSUME WatchInv, CommitSave PROVE WatchInv'
    OBVIOUS
  <1> DEFINE file == [text |-> save.text, stamp |-> clock + 1, identity |-> clock + 1]
             note == [path |-> save.path, file |-> file, at |-> clock + 1]
  <1>1. /\ save # Nobody /\ clock' = clock + 1
        /\ disk' = [disk EXCEPT ![save.path] = file]
        /\ save' = [save EXCEPT !.stage = "committed", !.file = file]
        /\ told' = IF told.path = save.path THEN note ELSE told
        /\ hints' = hints \/ hints' = hints \cup {<<save.path, save.path>>}
        /\ entry = Nobody => hints' = hints
        /\ UNCHANGED <<entry, nextId, threads, timers, polls, run, excuses, unseen, left>>
    BY DEF CommitSave, work
  <1>2. save \in Saves /\ clock \in Nat /\ clock + 1 \in Nat /\ save.path \in Paths
    BY <1>1 DEF WatchInv, TypeInv, Saves
  <1>3. file \in Files
    BY <1>2 DEF Files, Saves
  <1> HIDE DEF file
  <1>4. note \in Reports /\ note.at = clock + 1 /\ note.path = save.path
    BY <1>2, <1>3 DEF Reports
  <1> HIDE DEF note
  <1>5. save' \in Saves /\ save'.token = save.token /\ save'.file \in Files
    BY <1>1, <1>2, <1>3 DEF Saves
  <1>6. disk' \in [Paths -> Files \cup {Missing}]
    BY <1>1, <1>3 DEF WatchInv, TypeInv
  <1>7. TypeInv' /\ Loose'
    <2>1. {<<save.path, save.path>>} \subseteq Hints
      BY <1>2 DEF Hints
    <2>. QED BY <1>1, <1>2, <1>4, <1>5, <1>6, <2>1 DEF WatchInv, TypeInv, Loose
  <1>8. HintsOK' /\ PendingOK' /\ NumbersOK' /\ GraceOK'
    BY <1>1 DEF WatchInv, HintsOK, PendingOK, NumbersOK, GraceOK
  <1>9. ScheduleOK'
    BY <1>1 DEF WatchInv, ScheduleOK, Runs, Underway
  <1>10. told # Nobody /\ told' # Nobody /\ entry \in Entries /\ told.at \in Nat /\ told.at <= clock
    BY <1>1, <1>4, NobodyAssumption DEF WatchInv, SaveOK, ToldOK, TypeInv, Reports
  <1>11. RunOK'
    <2>1. run # Nobody => run.owner = "thread" /\ run.at \in Nat /\ run.at <= clock
      BY <1>1 DEF WatchInv, RunOK, TypeInv, Contexts
    <2>2. run # Nobody => run.at <= clock'
      BY <1>1, <1>2, <2>1
    <2>. QED BY <1>1, <2>1, <2>2 DEF WatchInv, RunOK
  <1>12. SaveOK'
    BY <1>1, <1>5, <1>10 DEF WatchInv, SaveOK, Writing
  <1>13. ToldOK'
    <2>1. told'.at <= clock'
      BY <1>1, <1>2, <1>4, <1>10
    <2>2. told'.path = told.path
      BY <1>1, <1>4
    <2>. QED BY <1>1, <1>10, <2>1, <2>2 DEF WatchInv, ToldOK
  <1>14. FreshOK'
    <2>1. "absorbed" \in excuses \/ Writing(entry) \/ entry.phase = "pending"
      BY <1>1 DEF WatchInv, SaveOK
    <2>2. run # Nobody => entry.phase # "pending"
      BY <1>1, <1>10, NobodyAssumption DEF WatchInv, PendingOK, RunOK
    <2>. QED BY <1>1, <2>1, <2>2 DEF FreshOK, Writing
  <1>. QED BY <1>7, <1>8, <1>9, <1>11, <1>12, <1>13, <1>14 DEF WatchInv

\* A save that replaces nothing keeps it.
LEMMA FailSaveKeeps == WatchInv /\ FailSave => WatchInv'
  <1> SUFFICES ASSUME WatchInv, FailSave PROVE WatchInv'
    OBVIOUS
  <1>1. /\ save # Nobody /\ save' = [save EXCEPT !.stage = "failed"]
        /\ UNCHANGED <<disk, clock, entry, nextId, hints, threads, timers, polls, run, told,
                       excuses, unseen, left>>
    BY DEF FailSave, disks, watch, work, ghosts
  <1>2. save' \in Saves /\ save'.token = save.token /\ save'.stage = "failed"
    BY <1>1 DEF WatchInv, TypeInv, Saves
  <1>3. /\ TypeInv' /\ Loose' /\ HintsOK' /\ PendingOK' /\ NumbersOK' /\ GraceOK' /\ SaveOK'
        /\ ToldOK' /\ FreshOK'
    BY <1>1, <1>2 DEF WatchInv, TypeInv, Loose, HintsOK, PendingOK, NumbersOK, GraceOK, SaveOK,
                      ToldOK, FreshOK, Writing
  <1>4. ScheduleOK' /\ RunOK'
    BY <1>1 DEF WatchInv, ScheduleOK, Runs, Underway, RunOK
  <1>. QED BY <1>3, <1>4 DEF WatchInv

\* settle_app_write_and_schedule keeps it: a read during the save stays stale.
LEMMA SettleSaveKeeps == WatchInv /\ SettleSave => WatchInv'
  <1> SUFFICES ASSUME WatchInv, SettleSave PROVE WatchInv'
    OBVIOUS
  <1>1. /\ save # Nobody /\ save.stage # "begun" /\ save' = Nobody
        /\ IF Watching(save.token.id) /\ entry.epoch = save.token.epoch
             THEN Becomes(SettleAppWrite(entry), Event(entry.id)) ELSE UNCHANGED <<entry, threads>>
        /\ UNCHANGED <<disk, clock, nextId, hints, timers, polls, run, told, excuses, unseen, left>>
    BY DEF SettleSave, disks, ghosts
  <1>2. Loose' /\ SaveOK'
    BY <1>1 DEF WatchInv, Loose, SaveOK
  <1>3. CASE ~(Watching(save.token.id) /\ entry.epoch = save.token.epoch)
    <2>1. UNCHANGED <<entry, threads>>
      BY <1>1, <1>3
    <2>2. TypeInv' /\ HintsOK' /\ PendingOK' /\ NumbersOK' /\ GraceOK' /\ ToldOK' /\ FreshOK'
      BY <1>1, <2>1 DEF WatchInv, TypeInv, HintsOK, PendingOK, NumbersOK, GraceOK, ToldOK, FreshOK, Writing
    <2>3. ScheduleOK' /\ RunOK'
      BY <1>1, <2>1 DEF WatchInv, ScheduleOK, Runs, Underway, RunOK
    <2>. QED BY <1>2, <2>2, <2>3 DEF WatchInv
  <1>4. CASE Watching(save.token.id) /\ entry.epoch = save.token.epoch
    <2>1. /\ entry \in Entries /\ entry # Nobody /\ entry.id \in Nat /\ entry.epoch \in Nat
          /\ Writing(entry) /\ entry.phase = "active" /\ save \in Saves
      <3>1. entry \in Entries /\ entry # Nobody /\ save \in Saves
        BY <1>1, <1>4 DEF WatchInv, TypeInv, Watching
      <3>2. save.token # NoToken
        BY <1>4, <3>1 DEF WatchInv, NumbersOK, Watching, NoToken
      <3>. QED BY <1>1, <3>1, <3>2 DEF WatchInv, SaveOK, Entries
    <2> DEFINE committed == save.stage = "committed"
               n == entry.epoch + 1
               s == entry.scheduled \/ entry.expects.again \/ entry.again
               i == IF committed THEN save.file.identity ELSE entry.identity
               w == IF committed
                      THEN [kind |-> "committed", text |-> entry.expects.text, expired |-> FALSE]
                      ELSE Unexpecting
               f == [entry EXCEPT !.epoch = n, !.again = FALSE, !.scheduled = s,
                                  !.identity = i, !.expects = w]
    <2>2. Becomes(f, Event(entry.id))
      BY <1>1, <1>4 DEF SettleAppWrite
    <2>3. n \in Nat /\ n > entry.epoch
      BY <2>1
    <2>4. entry.expects \in [kind : {"writing"}, text : Texts, again : BOOLEAN]
      BY <2>1 DEF Writing, Entries, Expectations
    <2>5. s \in BOOLEAN /\ (entry.scheduled => s)
      BY <2>1, <2>4 DEF Entries
    <2>6. w \in Expectations
      BY <2>4 DEF Expectations, Unexpecting
    <2>7. i \in Nat
      BY <1>1, <2>1 DEF WatchInv, SaveOK, Files, Entries
    <2> HIDE DEF n, s, i, w
    <2>8. /\ SameWatch(f, entry) /\ SameGrace(f, entry) /\ f.scheduled = s /\ f.epoch = n
      BY <2>1, <2>3, <2>5, <2>6, <2>7 DEF Entries, SameWatch, SameGrace
    <2> HIDE DEF f
    <2>9. /\ entry' = f
          /\ threads' = threads \/ threads' = threads \cup {Event(entry.id)}
      BY <2>2 DEF Becomes
    <2>10. Event(entry.id) \in Threads /\ Event(entry.id).id = entry.id
      BY <2>1, EventIs
    <2>11. TypeInv' /\ HintsOK' /\ NumbersOK'
      BY <1>1, <2>1, <2>8, <2>9, <2>10, NobodyAssumption
         DEF WatchInv, TypeInv, HintsOK, NumbersOK, SameWatch
    <2>12. PendingOK' /\ GraceOK' /\ ToldOK'
      BY <1>1, <2>1, <2>8, <2>9 DEF WatchInv, PendingOK, GraceOK, ToldOK, SameWatch, SameGrace
    <2>13. ScheduleOK'
      BY <1>1, <2>1, <2>2, <2>5, <2>8, <2>10, SpawnKeeps DEF WatchInv, SameWatch
    <2>14. run # Nobody => run.epoch \in Nat /\ run.epoch <= entry.epoch /\ run.epoch < n
      <3>1. run # Nobody => run.epoch \in Nat /\ run.epoch <= entry.epoch
        BY DEF WatchInv, RunOK, TypeInv, Contexts
      <3>. QED BY <2>1, <2>3, <3>1
    <2>15. RunOK' /\ FreshOK'
      BY <1>1, <2>1, <2>3, <2>8, <2>9, <2>14 DEF WatchInv, RunOK, FreshOK, SameWatch, SameGrace
    <2>. QED BY <1>2, <2>11, <2>12, <2>13, <2>15 DEF WatchInv
  <1>. QED BY <1>3, <1>4


\* run_scheduled_reconcile keeps it, whatever it found.
LEMMA SettlingKeeps == WatchInv /\ RunScheduledReconcile => WatchInv'
  BY SettleStaleKeeps, SettleRefusedKeeps, SettleGraceKeeps, SettleSnapshotKeeps
     DEF RunScheduledReconcile, Settling

\* Every step keeps it.
LEMMA WatchStep == WatchInv /\ [Next]_vars => WatchInv'
  <1> SUFFICES ASSUME WatchInv, [Next]_vars PROVE WatchInv'
    OBVIOUS
  <1>1. CASE Environment
    BY <1>1, ProgramsKeep, ErrorKeeps, ReadingKeeps, ExpiresKeeps DEF Environment
  <1>2. CASE Commands
    BY <1>2, StartWatchKeeps, StartReconcileKeeps, StopKeeps, BeginAppWriteKeeps DEF Commands
  <1>3. CASE Service
    <2>1. CASE Hear \/ PollAsks \/ PollEnds \/ PollGivesUp \/ TimerFires
      BY <2>1, HearKeeps, PollsKeep, TimerKeeps
    <2>2. CASE Capture \/ Look \/ Follow \/ RunScheduledReconcile
      BY <2>2, CaptureKeeps, ReadingKeeps, SettlingKeeps
    <2>3. CASE FinishRegistration \/ Activate \/ FinishReconcile
      BY <2>3, FinishRegistrationKeeps, ActivateKeeps, FinishReconcileKeeps
    <2>4. CASE CommitSave \/ FailSave \/ SettleSave
      BY <2>4, CommitSaveKeeps, FailSaveKeeps, SettleSaveKeeps
    <2>. QED BY <1>3, <2>1, <2>2, <2>3, <2>4 DEF Service
  <1>4. CASE UNCHANGED vars
    <2>1. UNCHANGED <<disk, clock, entry, nextId, hints, threads, timers, polls, run, save, told,
                      excuses, unseen, left>>
      BY <1>4 DEF vars, disks, watch, work, ghosts
    <2>2. Loose' /\ timers' \in Seq(Threads) /\ disk' \in [Paths -> Files \cup {Missing}]
          /\ clock' \in Nat /\ clock' >= clock /\ (entry = Nobody => hints' = {})
      BY <2>1 DEF WatchInv, Loose, TypeInv, HintsOK
    <2>. QED BY <2>1, <2>2, AsideKeeps
  <1>. QED BY <1>1, <1>2, <1>3, <1>4 DEF Next

---------------------------------------------------------------------------
(* The theorems *)

\* The inductive invariant holds.
THEOREM WatchCorrect == Spec => []WatchInv
  BY WatchInit, WatchStep, PTL DEF Spec

\* Every variable of the monitor keeps its type (WatchState, WatchEntry and the
\* contexts of its runs).
THEOREM TypeCorrect == Spec => []TypeOK
  <1>1. WatchInv => TypeOK
    BY DEF WatchInv, Loose, TypeInv, TypeOK, PollSet
  <1>. QED BY <1>1, WatchCorrect, PTL

\* An entry that counts a run as scheduled has one, and only one: on its way to
\* the lane or holding it (spawn_scheduled_reconcile, finish_scheduled,
\* mark_scheduled_stale, settle_app_write).
THEOREM ScheduledCorrect == Spec => []ScheduledHasRun
  <1>1. WatchInv => ScheduledHasRun
    <2> SUFFICES ASSUME WatchInv, entry # Nobody
                 PROVE  /\ entry.scheduled <=> (Runs(entry.id) # {} \/ Underway(entry.id))
                        /\ Cardinality(Runs(entry.id)) + (IF Underway(entry.id) THEN 1 ELSE 0) <= 1
      BY DEF ScheduledHasRun
    <2>1. CASE Runs(entry.id) = {}
      BY <2>1, FS_EmptySet DEF WatchInv, ScheduleOK
    <2>2. CASE Runs(entry.id) # {}
      <3>1. PICK a \in Runs(entry.id) : Runs(entry.id) = {a}
        BY <2>2 DEF WatchInv, ScheduleOK
      <3>2. Cardinality(Runs(entry.id)) = 1
        BY <3>1, FS_Singleton
      <3>. QED BY <2>2, <3>2 DEF WatchInv, ScheduleOK
    <2>. QED BY <2>1, <2>2
  <1>. QED BY <1>1, WatchCorrect, PTL


\* Which steps tell the main window something else, and what.
LEMMA Tellers ==
  ASSUME WatchInv, Next, told' # told, told' # Nobody, told # Nobody \/ (run # Nobody /\ run.owner = "thread")
  PROVE  \/ /\ Settling /\ SettleSnapshot /\ Tells
         \/ /\ run # Nobody /\ run.owner = "command" /\ run.stage = "resolved"
            /\ ~Stale(entry) /\ Tells
         \/ /\ told'.file \in Files /\ told'.at = clock + 1
  <1>1. CASE Environment
    BY <1>1 DEF Environment, Edit, Replace, Delete, Move, ChangeDisk, NativeError, Refuse, Sees,
                ExpectationExpires, ghosts
  <1>2. CASE Commands
    BY <1>2 DEF Commands, StartWatch, StartReconcile, Stop, BeginAppWrite, ghosts
  <1>3. CASE Service
    <2>1. CASE Hear \/ PollAsks \/ PollEnds \/ PollGivesUp \/ TimerFires \/ Capture
      BY <2>1 DEF Hear, PollAsks, PollEnds, PollGivesUp, TimerFires, Capture, ghosts
    <2>2. CASE Look \/ Follow \/ Activate \/ FailSave \/ SettleSave
      BY <2>2 DEF Look, Follow, Sees, Activate, FailSave, SettleSave, ghosts
    <2>3. CASE RunScheduledReconcile
      <3>1. Settling
        BY <2>3 DEF RunScheduledReconcile, Settling
      <3>2. SettleSnapshot
        BY <2>3 DEF RunScheduledReconcile, SettleStale, SettleRefused, SettleGrace, ghosts
      <3>. QED BY <3>1, <3>2 DEF SettleSnapshot
    <2>4. CASE FinishRegistration
      BY <2>4 DEF WatchInv, RunOK, FinishRegistration
    <2>5. CASE FinishReconcile
      BY <2>5 DEF FinishReconcile, ghosts
    <2>6. CASE CommitSave
      <3> DEFINE file == [text |-> save.text, stamp |-> clock + 1, identity |-> clock + 1]
      <3>1. told' = [path |-> save.path, file |-> file, at |-> clock + 1]
        BY <2>6 DEF CommitSave
      <3>2. file \in Files
        BY <2>6 DEF CommitSave, WatchInv, TypeInv, Saves, Files
      <3> HIDE DEF file
      <3>. QED BY <3>1, <3>2
    <2>. QED BY <1>3, <2>1, <2>2, <2>3, <2>4, <2>5, <2>6 DEF Service
  <1>. QED BY <1>1, <1>2, <1>3 DEF Next

\* A deletion is told only by the end of a grace period in which nothing saw the
\* file, and what is told of a path is never older than what was told before
\* (settle_missing_grace, run_scheduled_reconcile, reconcile_command).
THEOREM EventsCorrect == Spec => EventsAreSound
  <1>1. WatchInv /\ [Next]_vars =>
          [told' # told /\ told' # Nobody /\ run # Nobody /\ run.owner = "thread" =>
             (told'.file = Missing => unseen # 0 /\ run.token = unseen)]_vars
    <2> SUFFICES ASSUME WatchInv, Next, told' # told, told' # Nobody,
                        run # Nobody, run.owner = "thread", told'.file = Missing
                 PROVE  unseen # 0 /\ run.token = unseen
      BY DEF vars, ghosts
    <2>1. Settling /\ SettleSnapshot /\ Tells
      BY Tellers, NobodyAssumption
    <2>2. run.seen.file = Missing /\ run.token # 0
      BY <2>1 DEF Tells, SettleSnapshot
    <2>3. entry # Nobody /\ entry.missing /\ entry.token = run.token
      BY <2>1, <2>2, SettlingKnows
    <2>. QED BY <2>2, <2>3 DEF WatchInv, GraceOK
  <1>2. WatchInv /\ [Next]_vars =>
          [told # Nobody /\ told' # Nobody /\ told'.path = told.path /\ "absorbed" \notin excuses
             => told'.at >= told.at]_vars
    <2> SUFFICES ASSUME WatchInv, Next, told # Nobody, told' # Nobody, "absorbed" \notin excuses
                 PROVE  told'.at >= told.at
      BY DEF vars, ghosts
    <2>1. told.at \in Nat /\ told.at <= clock /\ clock \in Nat
      BY DEF WatchInv, TypeInv, ToldOK, Reports
    <2>2. CASE told' = told
      BY <2>1, <2>2
    <2>3. CASE Settling /\ SettleSnapshot /\ Tells
      <3>1. run # Nobody /\ run.stage # "captured" /\ entry.epoch = run.epoch /\ ~Writing(entry)
        BY <2>3 DEF Settling, SettleSnapshot, Stale
      <3>. QED BY <2>3, <3>1 DEF WatchInv, FreshOK, Tells
    <2>4. CASE run # Nobody /\ run.stage = "resolved" /\ ~Stale(entry) /\ Tells
      BY <2>4 DEF WatchInv, FreshOK, Tells, Stale
    <2>5. CASE told'.at = clock + 1
      BY <2>1, <2>5
    <2>. QED BY <2>2, <2>3, <2>4, <2>5, Tellers
  <1>. QED BY <1>1, <1>2, WatchCorrect, PTL DEF Spec, EventsAreSound, MissingIsConfirmed,
                                               ToldNeverGoesBack

---------------------------------------------------------------------------
(* What the main window knows: the inductive invariant of NothingUnseen.     *)
(*                                                                           *)
(* Every change of the disk leaves a notification, and every step that takes *)
(* a notification, a run or a grace period away leaves another sign that the *)
(* file will be looked at again (Coming), or what the window was told is     *)
(* what is there (KnownOK).  A run that has read the file is itself such a   *)
(* sign only while its reading stands (ReadOK), and the snapshots that are   *)
(* settled in silence are known to the window (ExpectsOK, FollowedOK).       *)

(* The window was told what is there, up to the stamp of the file.           *)
Agrees(f, file) ==
  IF file = Missing THEN f = Missing ELSE f # Missing /\ f.text = file.text

(* A notification about a path that nobody has heard yet.                    *)
Noted(p) == \E hint \in hints : Concerns(hint, p)

(* The grace period under way will end.                                      *)
GraceEnds ==
  entry.missing /\ \E i \in DOMAIN timers : timers[i] = Confirmation(entry.id, entry.token)

(* Something that leads to another look at the file.                         *)
Coming ==
  \/ Noted(entry.path)
  \/ entry.phase = "pending" /\ entry.activation
  \/ Writing(entry) /\ entry.expects.again
  \/ entry.scheduled
  \/ GraceEnds

(* What the lane's holder read is still there, or its end will not be the    *)
(* last look: it is stale, or followed by another run.                       *)
ReadStands ==
  \/ run.seen.file = disk[run.seen.path]
  \/ Noted(run.seen.path)
  \/ Writing(entry) \/ entry.epoch # run.epoch
  \/ run.owner = "start" /\ entry.activation
  \/ run.owner = "thread" /\ entry.again
  \/ run.owner = "command" /\ entry.scheduled

ReadOK ==
  /\ run # Nobody /\ run.stage # "captured" /\ run.seen.file # Refusal
  /\ entry.handle /\ "strayed" \notin excuses
  => ReadStands

(* A run follows the file only to a path that a rename notification names;   *)
(* a watch starts pending, and is not activated before the window was told.  *)
FollowedOK ==
  /\ run # Nobody /\ run.stage # "captured" /\ run.seen.path # run.path
       => <<run.path, run.seen.path>> \in run.moves
  /\ run # Nobody /\ run.owner = "start" => entry.phase = "pending" /\ run.epoch = entry.epoch
  /\ entry # Nobody /\ (entry.phase = "active" \/ entry.last # Nobody) => told # Nobody

(* An entry that expects the bytes of a save belongs to the save under way,  *)
(* and one that expects to see them was told of them.                        *)
ExpectsOK ==
  /\ entry # Nobody /\ Writing(entry) =>
       /\ save # Nobody /\ told # Nobody
       /\ told.path = save.path /\ told.path = entry.path
       /\ save.token.id = entry.id /\ save.token.epoch = entry.epoch
       /\ entry.expects.text = save.text
       /\ save.stage = "committed" => told.file = save.file /\ save.file.text = save.text
  /\ entry # Nobody /\ entry.expects.kind = "committed" =>
       /\ save = Nobody /\ told # Nobody /\ told.path = entry.path
       /\ told.file # Missing /\ told.file.text = entry.expects.text

(* What the window was told is there, or a look at it is coming.             *)
KnownOK ==
  entry # Nobody /\ entry.handle /\ told # Nobody /\ excuses = {} =>
    Agrees(told.file, disk[entry.path]) \/ Coming

UnseenInv == ReadOK /\ FollowedOK /\ ExpectsOK /\ KnownOK

(* An entry loses nothing of what it was asked to do.                        *)
Mindful(f, e) ==
  /\ f.last = e.last /\ f.handle = e.handle
  /\ e.scheduled => f.scheduled
  /\ e.again => f.again
  /\ e.activation => f.activation
  /\ e.expects.kind # "none" => f.expects.text = e.expects.text
  /\ Writing(e) /\ e.expects.again => f.expects.again

(* It has taken up a request for another look.                               *)
Roused(f, e) ==
  IF f.phase = "pending" THEN f.activation
  ELSE IF Writing(f) THEN f.scheduled \/ f.expects.again
  ELSE f.scheduled /\ (e.scheduled => f.again)

(* What the operators on entries show of it: finish_scheduled,               *)
(* mark_scheduled_stale, the grace period, the request for a run,            *)
(* note_native_hint and settle_snapshot.                                     *)
LEMMA FinishShows ==
  ASSUME NEW e \in Entries
  PROVE  LET f == FinishScheduled(e)
         IN  /\ f.last = e.last /\ f.handle = e.handle /\ f.expects = e.expects
             /\ e.again /\ e.phase = "active" /\ ~Writing(e) => f.scheduled
  BY DEF Entries, FinishScheduled

\* A stale run is followed by another one, or by the end of the save.
LEMMA StaleShows ==
  ASSUME NEW e \in Entries
  PROVE  LET f == MarkScheduledStale(e)
         IN  /\ f.last = e.last /\ f.handle = e.handle
             /\ e.expects.kind # "none" => f.expects.text = e.expects.text
             /\ e.phase = "active" => f.scheduled \/ (Writing(f) /\ f.expects.again)
  <1>1. CASE Writing(e)
    <2>1. e.expects \in [kind : {"writing"}, text : Texts, again : BOOLEAN]
      BY <1>1 DEF Writing, Entries, Expectations
    <2> DEFINE w == [e.expects EXCEPT !.again = TRUE]
    <2>2. w.kind = "writing" /\ w.again /\ w.text = e.expects.text
      BY <2>1
    <2>3. MarkScheduledStale(e) = [e EXCEPT !.expects = w, !.scheduled = FALSE]
      BY <1>1 DEF MarkScheduledStale, Entries
    <2> HIDE DEF w
    <2>. QED BY <2>2, <2>3 DEF Entries, Writing
  <1>2. CASE ~Writing(e)
    <2> DEFINE g == [e EXCEPT !.again = TRUE]
    <2>1. /\ g \in Entries /\ g.again /\ g.phase = e.phase
          /\ g.last = e.last /\ g.handle = e.handle /\ g.expects = e.expects
      BY DEF Entries
    <2>2. MarkScheduledStale(e) = FinishScheduled(g)
      BY <1>2 DEF MarkScheduledStale
    <2> HIDE DEF g
    <2>. QED BY <1>2, <2>1, <2>2, FinishShows DEF Writing
  <1>. QED BY <1>1, <1>2

\* The grace period is all that changes.
LEMMA GraceShows ==
  ASSUME NEW e \in Entries, NEW f, f = BeginMissingGrace(e) \/ f = CancelMissingGrace(e)
  PROVE  f.last = e.last /\ f.handle = e.handle /\ f.expects = e.expects /\ f.again = e.again
  BY DEF Entries, BeginMissingGrace, CancelMissingGrace

\* A run that is asked for is scheduled, or follows the one that is.
LEMMA AskMinds ==
  ASSUME NEW e \in Entries
  PROVE  LET f == Ask(e) IN Mindful(f, e) /\ f.scheduled /\ (e.scheduled => f.again)
                            /\ f.expects = e.expects
  BY DEF Entries, Ask, Mindful, Writing

\* A notification that concerns the watch rouses it.
LEMMA NoteMinds ==
  ASSUME NEW e \in Entries, NEW hint
  PROVE  LET f == NoteNativeHint(e, hint)
         IN  Mindful(f, e) /\ (Concerns(hint, e.path) => Roused(f, e))
  <1> DEFINE m == e.moves \cup ({hint} \cap Moves)
             h == IF e.degraded THEN e.health + 1 ELSE e.health
             g == [e EXCEPT !.moves = m, !.health = h, !.degraded = FALSE]
             f == NoteNativeHint(e, hint)
  <1>1. /\ g \in Entries /\ g.last = e.last /\ g.handle = e.handle /\ g.scheduled = e.scheduled
        /\ g.again = e.again /\ g.activation = e.activation /\ g.expects = e.expects
        /\ g.phase = e.phase
    <2>1. m \in SUBSET Moves /\ h \in Nat
      BY DEF Entries, Moves
    <2> HIDE DEF m, h
    <2>. QED BY <2>1 DEF Entries
  <1>2. f = IF ~Concerns(hint, e.path) THEN e
            ELSE IF e.phase = "pending" THEN [g EXCEPT !.activation = TRUE]
            ELSE IF Writing(e) THEN [g EXCEPT !.expects.again = TRUE]
            ELSE Ask(g)
    BY DEF NoteNativeHint
  <1> HIDE DEF g, f, m, h
  <1>3. CASE ~Concerns(hint, e.path)
    BY <1>2, <1>3 DEF Mindful, f
  <1>4. CASE Concerns(hint, e.path) /\ e.phase = "pending"
    <2>1. f = [g EXCEPT !.activation = TRUE]
      BY <1>2, <1>4
    <2>. QED BY <1>1, <1>4, <2>1 DEF Entries, Mindful, Roused, Writing, f
  <1>5. CASE Concerns(hint, e.path) /\ e.phase # "pending" /\ Writing(e)
    <2>1. g.expects \in [kind : {"writing"}, text : Texts, again : BOOLEAN]
      BY <1>1, <1>5 DEF Writing, Entries, Expectations
    <2> DEFINE w == [g.expects EXCEPT !.again = TRUE]
    <2>2. w.kind = "writing" /\ w.again /\ w.text = e.expects.text
      BY <1>1, <2>1
    <2>3. f = [g EXCEPT !.expects = w]
      BY <1>2, <1>5
    <2> HIDE DEF w
    <2>. QED BY <1>1, <1>5, <2>2, <2>3 DEF Entries, Mindful, Roused, Writing, f
  <1>6. CASE Concerns(hint, e.path) /\ e.phase # "pending" /\ ~Writing(e)
    <2>1. f = Ask(g)
      BY <1>2, <1>6
    <2>2. Mindful(f, g) /\ f.scheduled /\ (g.scheduled => f.again) /\ f.expects = g.expects
      BY <1>1, <2>1, AskMinds
    <2>3. f.phase = g.phase
      BY <1>1, <2>1, AskIs DEF SameWatch
    <2>. QED BY <1>1, <1>6, <2>2, <2>3 DEF Mindful, Roused, Writing, f
  <1>. QED BY <1>3, <1>4, <1>5, <1>6

\* A settled snapshot is the last one, and no bytes are expected any more.
LEMMA SettledShows ==
  ASSUME NEW e \in Entries
  PROVE  LET f == Settled(e)
         IN  /\ f.last = run.seen /\ f.handle = e.handle /\ f.again = e.again
             /\ f.expects.kind # "committed" /\ (~Writing(e) => ~Writing(f))
  <1> DEFINE n == e.epoch + 1
             w == Unexpecting
             g == ClearCommittedExpectation(e)
  <1>1. /\ g \in Entries /\ g.handle = e.handle /\ g.again = e.again
        /\ g.expects.kind # "committed" /\ (~Writing(e) => ~Writing(g))
    <2>1. g \in Entries
      BY ClearIs DEF SameWatch
    <2>2. CASE e.expects.kind = "committed"
      <3>1. g = [e EXCEPT !.expects = w, !.epoch = n] /\ w.kind = "none"
        BY <2>2 DEF ClearCommittedExpectation, Unexpecting
      <3> HIDE DEF n, w, g
      <3>. QED BY <2>1, <3>1 DEF Entries, Writing, g
    <2>3. CASE e.expects.kind # "committed"
      BY <2>1, <2>3 DEF ClearCommittedExpectation
    <2>. QED BY <2>2, <2>3
  <1>2. Settled(e) = [g EXCEPT !.last = run.seen]
    BY DEF Settled
  <1> HIDE DEF g
  <1>. QED BY <1>1, <1>2 DEF Entries, Writing

---------------------------------------------------------------------------
(* One lemma for the steps of the entry that lose nothing, one per action    *)

\* A notification stays until it is heard.
LEMMA NotedStays == ASSUME hints \subseteq hints', NEW p, Noted(p) PROVE Noted(p)'
  BY DEF Noted, Concerns

\* The entry of a run is there, and starts pending.
LEMMA RunKnows ==
  ASSUME WatchInv, run # Nobody
  PROVE  /\ entry \in Entries /\ entry # Nobody /\ run \in Contexts
         /\ run.owner \in {"thread", "start", "command"}
         /\ run.owner = "thread" => entry.scheduled
  <1>1. entry \in Entries /\ entry # Nobody /\ run \in Contexts
    BY NobodyAssumption DEF WatchInv, RunOK, TypeInv
  <1>2. run.owner \in {"thread", "start", "command"}
    BY <1>1 DEF Contexts
  <1>3. run.owner = "thread" => Underway(entry.id)
    BY DEF WatchInv, RunOK, Underway
  <1>. QED BY <1>1, <1>2, <1>3 DEF WatchInv, ScheduleOK

\* What is asked of the entry is not forgotten: a notification that is taken
\* away rouses it, or strays.
LEMMA AskingKnows ==
  ASSUME WatchInv, UnseenInv, entry # Nobody,
         NEW f, SameWatch(f, entry), SameGrace(f, entry), SameSave(f, entry), Mindful(f, entry),
         entry' = f, UNCHANGED <<disk, run, save, told>>,
         excuses \subseteq excuses',
         Noted(entry.path) => Noted(entry.path)' \/ Roused(f, entry),
         run # Nobody /\ run.stage # "captured" /\ Noted(run.seen.path)
           => Noted(run.seen.path)' \/ Roused(f, entry) \/ "strayed" \in excuses',
         GraceEnds => GraceEnds' \/ f.scheduled
  PROVE  UnseenInv'
  <1>0. /\ entry \in Entries /\ f \in Entries /\ f.path = entry.path /\ f.phase = entry.phase
        /\ f.id = entry.id /\ f.epoch = entry.epoch /\ f.expects.kind = entry.expects.kind
        /\ f # Nobody /\ f.phase \in {"pending", "active"}
    <2>1. entry \in Entries
      BY DEF WatchInv, TypeInv
    <2>. QED BY <2>1, NobodyAssumption DEF SameWatch, SameSave, Entries
  <1>1. ReadOK'
    <2> SUFFICES ASSUME run # Nobody, run.stage # "captured", run.seen.file # Refusal,
                        f.handle, "strayed" \notin excuses'
                 PROVE  ReadStands'
      BY DEF ReadOK
    <2>1. ReadStands
      BY <1>0 DEF UnseenInv, ReadOK, Mindful
    <2>2. /\ run.owner \in {"thread", "start", "command"}
          /\ run.owner = "thread" => entry.scheduled
          /\ run.owner = "start" <=> entry.phase = "pending"
      BY RunKnows DEF WatchInv, PendingOK, UnseenInv, FollowedOK
    <2>3. CASE Noted(run.seen.path) /\ ~Noted(run.seen.path)'
      BY <1>0, <2>2, <2>3 DEF Roused, ReadStands, Writing, Mindful
    <2>4. CASE ~(Noted(run.seen.path) /\ ~Noted(run.seen.path)')
      <3>1. Noted(run.seen.path) => Noted(run.seen.path)'
        BY <2>4
      <3>. QED BY <1>0, <2>1, <3>1 DEF ReadStands, Writing, Mindful
    <2>. QED BY <2>3, <2>4
  <1>2. FollowedOK'
    BY <1>0 DEF UnseenInv, FollowedOK, Mindful
  <1>3. ExpectsOK'
    BY <1>0 DEF UnseenInv, ExpectsOK, Mindful, Writing
  <1>4. KnownOK'
    <2> SUFFICES ASSUME f.handle, told # Nobody, excuses' = {}, ~Agrees(told.file, disk[entry.path])
                 PROVE  Coming'
      BY <1>0 DEF KnownOK, Agrees
    <2>1. Coming
      BY <1>0 DEF UnseenInv, KnownOK, Mindful
    <2>2. CASE Roused(f, entry)
      BY <1>0, <2>2 DEF Roused, Coming, Writing
    <2>3. CASE Noted(entry.path) /\ Noted(entry.path)'
      BY <1>0, <2>3 DEF Coming, Noted
    <2>4. CASE GraceEnds
      BY <1>0, <2>4 DEF Coming
    <2>5. CASE ~Noted(entry.path) /\ ~GraceEnds
      BY <1>0, <2>1, <2>5 DEF Coming, Mindful, Writing
    <2>. QED BY <2>2, <2>3, <2>4, <2>5
  <1>. QED BY <1>1, <1>2, <1>3, <1>4 DEF UnseenInv

\* Every change of the disk by others leaves a notification about the path.
LEMMA DiskKnows ==
  ASSUME WatchInv, UnseenInv, NEW d, NEW n, ChangeDisk(d, n),
         \A p \in Paths : d[p] # disk[p] => \E hint \in n : Concerns(hint, p)
  PROVE  UnseenInv'
  <1>1. /\ disk' = d /\ entry # Nobody /\ hints' = IF entry.handle THEN hints \cup n ELSE hints
        /\ UNCHANGED <<entry, timers, run, save, told, excuses>>
    BY DEF ChangeDisk, work, ghosts
  <1>2. FollowedOK' /\ ExpectsOK'
    BY <1>1 DEF UnseenInv, FollowedOK, ExpectsOK, Writing
  <1>3. ASSUME NEW p \in Paths, entry.handle
        PROVE  disk'[p] = disk[p] \/ Noted(p)'
    <2>1. CASE d[p] # disk[p]
      <3>1. PICK hint \in n : Concerns(hint, p)
        BY <2>1
      <3>. QED BY <1>1, <1>3, <3>1 DEF Noted, Concerns
    <2>. QED BY <1>1, <2>1
  <1>4. \A p : entry.handle /\ Noted(p) => Noted(p)'
    BY <1>1, NotedStays
  <1>5. entry.path \in Paths
    BY <1>1 DEF WatchInv, TypeInv, Entries
  <1>6. ReadOK'
    <2> SUFFICES ASSUME run # Nobody, run.stage # "captured", run.seen.file # Refusal,
                        entry.handle, "strayed" \notin excuses
                 PROVE  ReadStands'
      BY <1>1 DEF ReadOK
    <2>1. run.seen.path \in Paths
      BY DEF WatchInv, RunOK, Readings
    <2>2. ReadStands
      BY DEF UnseenInv, ReadOK
    <2>. QED BY <1>1, <1>3, <1>4, <2>1, <2>2 DEF ReadStands, Writing
  <1>7. KnownOK'
    <2> SUFFICES ASSUME entry.handle, told # Nobody, excuses = {}
                 PROVE  Agrees(told.file, disk'[entry.path]) \/ Coming'
      BY <1>1 DEF KnownOK, Agrees
    <2>1. Agrees(told.file, disk[entry.path]) \/ Coming
      BY <1>1 DEF UnseenInv, KnownOK
    <2>2. CASE disk'[entry.path] = disk[entry.path]
      BY <1>1, <1>4, <2>1, <2>2 DEF Coming, GraceEnds, Writing
    <2>3. CASE \E hint \in hints' : Concerns(hint, entry.path)
      BY <1>1, <2>3 DEF Coming, Noted, Concerns
    <2>4. disk'[entry.path] = disk[entry.path] \/ \E hint \in hints' : Concerns(hint, entry.path)
      BY <1>3, <1>5 DEF Noted, Concerns
    <2>. QED BY <2>2, <2>3, <2>4
  <1>. QED BY <1>2, <1>6, <1>7 DEF UnseenInv

\* Other programs edit, replace, delete and move files.
LEMMA ProgramsKnow == WatchInv /\ UnseenInv /\ (Edit \/ Replace \/ Delete \/ Move) => UnseenInv'
  <1> SUFFICES ASSUME WatchInv, UnseenInv, Edit \/ Replace \/ Delete \/ Move PROVE UnseenInv'
    OBVIOUS
  <1>1. disk \in [Paths -> Files \cup {Missing}]
    BY DEF WatchInv, TypeInv
  <1>2. ASSUME NEW p \in Paths, NEW file, ChangeDisk([disk EXCEPT ![p] = file], {<<p, p>>})
        PROVE  UnseenInv'
    <2>1. \A q \in Paths : [disk EXCEPT ![p] = file][q] # disk[q]
                             => \E hint \in {<<p, p>>} : Concerns(hint, q)
      BY <1>1 DEF Concerns
    <2>. QED BY <1>2, <2>1, DiskKnows
  <1>3. CASE Edit
    <2>1. PICK p \in Paths, t \in Texts :
            ChangeDisk([disk EXCEPT ![p] = [@ EXCEPT !.text = t, !.stamp = clock + 1]], {<<p, p>>})
      BY <1>3 DEF Edit
    <2>2. [disk EXCEPT ![p] = [@ EXCEPT !.text = t, !.stamp = clock + 1]]
            = [disk EXCEPT ![p] = [disk[p] EXCEPT !.text = t, !.stamp = clock + 1]]
      BY <1>1
    <2>. QED BY <1>2, <2>1, <2>2
  <1>4. CASE Replace
    BY <1>2, <1>4 DEF Replace
  <1>5. CASE Delete
    BY <1>2, <1>5 DEF Delete
  <1>6. CASE Move
    <2>1. PICK m \in Moves, tracked \in BOOLEAN :
            ChangeDisk([disk EXCEPT ![m[1]] = Missing, ![m[2]] = disk[m[1]]],
                       IF tracked THEN {m} ELSE {<<m[1], m[1]>>, <<m[2], m[2]>>})
      BY <1>6 DEF Move
    <2>2. m[1] \in Paths /\ m[2] \in Paths
      BY DEF Moves
    <2>3. ASSUME NEW q \in Paths,
                 [disk EXCEPT ![m[1]] = Missing, ![m[2]] = disk[m[1]]][q] # disk[q]
          PROVE  \E hint \in (IF tracked THEN {m} ELSE {<<m[1], m[1]>>, <<m[2], m[2]>>}) :
                   Concerns(hint, q)
      <3>1. q = m[1] \/ q = m[2]
        BY <1>1, <2>2, <2>3
      <3>. QED BY <3>1 DEF Concerns
    <2>. QED BY <2>1, <2>3, DiskKnows
  <1>. QED BY <1>3, <1>4, <1>5, <1>6

\* A notification that is heard rouses the entry, or concerns another path.
LEMMA HearKnows == WatchInv /\ UnseenInv /\ Hear => UnseenInv'
  <1> SUFFICES ASSUME WatchInv, UnseenInv, Hear PROVE UnseenInv'
    OBVIOUS
  <1>1. PICK hint \in hints :
          /\ hints' = hints \ {hint}
          /\ entry' = NoteNativeHint(entry, hint)
          /\ excuses' = IF Strays(hint) THEN excuses \cup {"strayed"} ELSE excuses
          /\ UNCHANGED <<disk, timers, run, save, told>>
    BY DEF Hear, Becomes, disks
  <1>2. entry \in Entries /\ entry # Nobody
    BY DEF WatchInv, TypeInv, HintsOK
  <1> DEFINE f == NoteNativeHint(entry, hint)
  <1>3. /\ SameWatch(f, entry) /\ SameGrace(f, entry) /\ SameSave(f, entry)
        /\ Mindful(f, entry) /\ (Concerns(hint, entry.path) => Roused(f, entry))
    BY <1>2, NoteIs, NoteMinds
  <1>4. entry' = f
    BY <1>1
  <1> HIDE DEF f
  <1>5. ASSUME NEW p, Noted(p), ~Concerns(hint, p) PROVE Noted(p)'
    <2>1. PICK other \in hints : Concerns(other, p)
      BY <1>5 DEF Noted
    <2>. QED BY <1>1, <1>5, <2>1 DEF Noted, Concerns
  <1>6. Noted(entry.path) => (\E other \in hints' : Concerns(other, entry.path)) \/ Roused(f, entry)
    BY <1>3, <1>5 DEF Noted, Concerns
  <1>7. GraceEnds => GraceEnds'
    BY <1>1, <1>3, <1>4 DEF GraceEnds, SameWatch, SameGrace
  <1>8. entry'.path = entry.path
    BY <1>3, <1>4 DEF SameWatch
  <1>9. Noted(entry.path)' <=> \E other \in hints' : Concerns(other, entry.path)
    BY <1>8 DEF Noted, Concerns
  <1>10. ASSUME run # Nobody, run.stage # "captured", Noted(run.seen.path)
         PROVE  Noted(run.seen.path)' \/ Roused(f, entry) \/ "strayed" \in excuses'
    <2>1. CASE ~Concerns(hint, run.seen.path)
      BY <1>1, <1>5, <1>10, <2>1 DEF Noted, Concerns
    <2>2. CASE Concerns(hint, run.seen.path) /\ Concerns(hint, entry.path)
      BY <1>3, <2>2
    <2>3. CASE Concerns(hint, run.seen.path) /\ ~Concerns(hint, entry.path)
      <3>1. run.seen.path # run.path
        BY <1>10, <2>3 DEF WatchInv, RunOK
      <3>2. <<run.path, run.seen.path>> \in run.moves
        BY <1>10, <3>1 DEF UnseenInv, FollowedOK
      <3>3. Strays(hint)
        BY <1>10, <2>3, <3>2 DEF Strays
      <3>. QED BY <1>1, <3>3
    <2>. QED BY <2>1, <2>2, <2>3
  <1>. QED BY <1>1, <1>2, <1>3, <1>4, <1>6, <1>7, <1>9, <1>10, AskingKnows

\* A watcher that lost notifications asks for a run in their place.
LEMMA ErrorKnows == WatchInv /\ UnseenInv /\ NativeError => UnseenInv'
  <1> SUFFICES ASSUME WatchInv, UnseenInv, NativeError PROVE UnseenInv'
    OBVIOUS
  <1>1. /\ entry \in Entries /\ entry # Nobody
        /\ UNCHANGED <<disk, timers, run, save, told, excuses>>
    BY DEF WatchInv, TypeInv, NativeError, disks, ghosts
  <1>2. ASSUME NEW f, entry' = f, SameWatch(f, entry), SameGrace(f, entry), SameSave(f, entry),
               Mindful(f, entry), Roused(f, entry)
        PROVE  UnseenInv'
    <2>1. GraceEnds => GraceEnds'
      BY <1>1, <1>2 DEF GraceEnds, SameWatch, SameGrace
    <2>. QED BY <1>1, <1>2, <2>1, AskingKnows
  <1>3. CASE entry.phase = "pending"
    <2> DEFINE f == [entry EXCEPT !.unhealthy = TRUE, !.activation = TRUE]
    <2>1. entry' = f
      BY <1>3 DEF NativeError
    <2>2. /\ SameWatch(f, entry) /\ SameGrace(f, entry) /\ SameSave(f, entry)
          /\ Mindful(f, entry) /\ Roused(f, entry)
      BY <1>1, <1>3 DEF Entries, SameWatch, SameGrace, SameSave, Mindful, Roused, Writing
    <2> HIDE DEF f
    <2>. QED BY <1>2, <2>1, <2>2
  <1>4. CASE entry.phase # "pending"
    <2> DEFINE h == IF entry.degraded THEN entry.health ELSE entry.health + 1
               g == [entry EXCEPT !.degraded = TRUE, !.health = h]
               f == Ask(g)
    <2>1. entry' = f
      BY <1>4 DEF NativeError, Becomes
    <2>2. h \in Nat
      BY <1>1 DEF Entries
    <2> HIDE DEF h
    <2>3. /\ g \in Entries /\ SameWatch(g, entry) /\ SameGrace(g, entry) /\ SameSave(g, entry)
          /\ Mindful(g, entry) /\ g.scheduled = entry.scheduled /\ g.expects = entry.expects
      BY <1>1, <1>4, <2>2 DEF Entries, SameWatch, SameGrace, SameSave, Mindful, Writing
    <2> HIDE DEF g
    <2>4. /\ SameWatch(f, g) /\ SameGrace(f, g) /\ SameSave(f, g)
          /\ Mindful(f, g) /\ f.scheduled /\ (g.scheduled => f.again)
      BY <2>3, AskIs, AskMinds
    <2> HIDE DEF f
    <2>5. SameWatch(f, entry) /\ SameGrace(f, entry) /\ SameSave(f, entry)
      BY <1>4, <2>3, <2>4 DEF SameWatch, SameGrace, SameSave
    <2>6. Mindful(f, entry) /\ Roused(f, entry)
      BY <1>4, <2>3, <2>4, <2>5 DEF Mindful, Roused, Writing, SameWatch
    <2>. QED BY <1>2, <2>1, <2>5, <2>6
  <1>. QED BY <1>3, <1>4

\* A poller and the end of a grace period ask for a run.
LEMMA PollsKnow ==
  WatchInv /\ UnseenInv /\ (PollAsks \/ PollEnds \/ PollGivesUp \/ TimerFires) => UnseenInv'
  <1> SUFFICES ASSUME WatchInv, UnseenInv, PollAsks \/ PollEnds \/ PollGivesUp \/ TimerFires
               PROVE  UnseenInv'
    OBVIOUS
  <1>1. entry # Nobody => entry \in Entries
    BY DEF WatchInv, TypeInv
  <1>2. UNCHANGED <<disk, run, save, told, excuses>>
    BY DEF PollAsks, PollEnds, PollGivesUp, TimerFires, disks, ghosts
  <1>3. ASSUME entry # Nobody, entry' = Ask(entry), hints' = hints PROVE UnseenInv'
    <2> DEFINE f == Ask(entry)
    <2>1. /\ SameWatch(f, entry) /\ SameGrace(f, entry) /\ SameSave(f, entry)
          /\ Mindful(f, entry) /\ f.scheduled
      BY <1>1, <1>3, AskIs, AskMinds
    <2> HIDE DEF f
    <2>2. entry' = f
      BY <1>3 DEF f
    <2>3. Noted(entry.path) => Noted(entry.path)'
      BY <1>3, <2>1, <2>2 DEF Noted, SameWatch
    <2>4. Noted(run.seen.path) => Noted(run.seen.path)'
      BY <1>2, <1>3 DEF Noted
    <2>. QED BY <1>2, <1>3, <2>1, <2>2, <2>3, <2>4, AskingKnows
  <1>4. ASSUME UNCHANGED <<entry, hints>>, entry # Nobody /\ GraceEnds => GraceEnds'
        PROVE  UnseenInv'
    <2>1. ReadOK' /\ FollowedOK' /\ ExpectsOK'
      BY <1>2, <1>4 DEF UnseenInv, ReadOK, ReadStands, FollowedOK, ExpectsOK, Noted, Writing
    <2>2. KnownOK'
      BY <1>2, <1>4 DEF UnseenInv, KnownOK, Coming, Noted, Writing, Agrees
    <2>. QED BY <2>1, <2>2 DEF UnseenInv
  <1>5. CASE PollAsks
    BY <1>3, <1>5 DEF PollAsks, Concerned, Watching, Becomes
  <1>6. CASE PollEnds
    BY <1>4, <1>6 DEF PollEnds, watch, GraceEnds
  <1>7. CASE PollGivesUp
    <2> DEFINE f == [entry EXCEPT !.handle = FALSE]
    <2>1. entry' = f /\ entry \in Entries /\ entry # Nobody
      BY <1>1, <1>7 DEF PollGivesUp, Concerned, Watching
    <2>2. /\ f \in Entries /\ ~f.handle /\ f.path = entry.path /\ f.phase = entry.phase
          /\ f.last = entry.last /\ f.expects = entry.expects /\ f.id = entry.id
          /\ f.epoch = entry.epoch
      BY <2>1 DEF Entries
    <2> HIDE DEF f
    <2>. QED BY <1>2, <2>1, <2>2, NobodyAssumption
             DEF UnseenInv, ReadOK, FollowedOK, ExpectsOK, KnownOK, Writing
  <1>8. CASE TimerFires
    <2>1. timers # <<>> /\ timers' = Tail(timers) /\ hints' = hints
      BY <1>8 DEF TimerFires
    <2>2. CASE Watching(Head(timers).id) /\ entry.missing /\ entry.token = Head(timers).token
      BY <1>3, <1>8, <2>1, <2>2 DEF TimerFires, Watching, Becomes
    <2>3. CASE ~(Watching(Head(timers).id) /\ entry.missing /\ entry.token = Head(timers).token)
      <3>1. entry' = entry
        BY <1>8, <2>3 DEF TimerFires
      <3>2. ASSUME entry # Nobody, GraceEnds PROVE GraceEnds'
        <4>1. PICK i \in DOMAIN timers : timers[i] = Confirmation(entry.id, entry.token)
          BY <3>2 DEF GraceEnds
        <4>2. timers \in Seq(Threads) /\ i \in 1..Len(timers)
          BY <4>1 DEF WatchInv, TypeInv
        <4>3. i # 1
          BY <2>1, <2>3, <3>2, <4>1, <4>2 DEF GraceEnds, Watching, Confirmation
        <4>4. i - 1 \in DOMAIN Tail(timers) /\ Tail(timers)[i - 1] = timers[i]
          BY <2>1, <4>2, <4>3
        <4>. QED BY <2>1, <3>1, <3>2, <4>1, <4>4 DEF GraceEnds
      <3>. QED BY <1>4, <2>1, <3>1, <3>2
    <2>. QED BY <2>2, <2>3
  <1>. QED BY <1>5, <1>6, <1>7, <1>8

\* capture_scheduled_context: the run gives way to a save, which notes it, or
\* leaves an excuse, or takes the lane.
LEMMA CaptureKnows == WatchInv /\ UnseenInv /\ Capture => UnseenInv'
  <1> SUFFICES ASSUME WatchInv, UnseenInv, Capture PROVE UnseenInv'
    OBVIOUS
  <1>1. PICK thread \in threads :
          /\ run = Nobody
          /\ IF ~Watching(thread.id) THEN UNCHANGED <<entry, run>>
             ELSE IF Cancelled(thread)
               THEN /\ entry' = [entry EXCEPT !.scheduled = FALSE]
                    /\ UNCHANGED run
             ELSE IF Writing(entry)
               THEN /\ entry' = [entry EXCEPT !.scheduled = FALSE, !.expects.again = TRUE]
                    /\ UNCHANGED run
             ELSE /\ run' = Run("thread", entry, thread.token)
                  /\ entry' = [entry EXCEPT !.moves = {}]
          /\ excuses' = IF Watching(thread.id) /\ Cancelled(thread)
                          THEN excuses \cup {"abandoned"} ELSE excuses
    BY DEF Capture
  <1>2. UNCHANGED <<disk, hints, timers, save, told>>
    BY DEF Capture, disks
  <1>3. entry # Nobody => entry \in Entries
    BY DEF WatchInv, TypeInv
  <1>4. CASE ~Watching(thread.id)
    <2>1. UNCHANGED <<entry, run, excuses>>
      BY <1>1, <1>4
    <2>2. ReadOK' /\ FollowedOK' /\ ExpectsOK'
      BY <1>2, <2>1 DEF UnseenInv, ReadOK, ReadStands, FollowedOK, ExpectsOK, Noted, Writing
    <2>3. KnownOK'
      BY <1>2, <2>1 DEF UnseenInv, KnownOK, Coming, Noted, Writing, Agrees, GraceEnds
    <2>. QED BY <2>2, <2>3 DEF UnseenInv
  <1>5. CASE Watching(thread.id) /\ Cancelled(thread)
    <2> DEFINE f == [entry EXCEPT !.scheduled = FALSE]
    <2>1. entry' = f /\ run' = run /\ excuses' # {} /\ entry \in Entries /\ entry # Nobody
      BY <1>1, <1>3, <1>5 DEF Watching
    <2>2. /\ f \in Entries /\ f.path = entry.path /\ f.phase = entry.phase
          /\ f.last = entry.last /\ f.expects = entry.expects /\ f.id = entry.id
          /\ f.epoch = entry.epoch
      BY <2>1 DEF Entries
    <2> HIDE DEF f
    <2>. QED BY <1>1, <1>2, <2>1, <2>2, NobodyAssumption
             DEF UnseenInv, ReadOK, FollowedOK, ExpectsOK, KnownOK, Writing
  <1>6. CASE Watching(thread.id) /\ ~Cancelled(thread) /\ Writing(entry)
    <2>1. entry \in Entries /\ entry # Nobody
      BY <1>3, <1>6 DEF Watching
    <2> DEFINE w == [entry.expects EXCEPT !.again = TRUE]
               f == [entry EXCEPT !.scheduled = FALSE, !.expects = w]
    <2>2. entry' = f /\ run' = run /\ excuses' = excuses
      BY <1>1, <1>6
    <2>3. entry.expects \in [kind : {"writing"}, text : Texts, again : BOOLEAN]
      BY <1>6, <2>1 DEF Writing, Entries, Expectations
    <2>4. w \in Expectations /\ w.kind = "writing" /\ w.again /\ w.text = entry.expects.text
      BY <2>3 DEF Expectations
    <2> HIDE DEF w
    <2>5. /\ f \in Entries /\ f.path = entry.path /\ f.phase = entry.phase
          /\ f.last = entry.last /\ f.expects = w /\ f.id = entry.id
          /\ f.epoch = entry.epoch
      BY <2>1, <2>4 DEF Entries
    <2> HIDE DEF f
    <2>6. ReadOK' /\ FollowedOK'
      BY <1>1, <2>1, <1>2, <2>2, <2>5, NobodyAssumption DEF UnseenInv, ReadOK, FollowedOK
    <2>7. ExpectsOK'
      BY <1>2, <1>6, <2>1, <2>2, <2>4, <2>5 DEF UnseenInv, ExpectsOK, Writing
    <2>8. KnownOK'
      BY <2>2, <2>4, <2>5 DEF KnownOK, Coming, Writing
    <2>. QED BY <2>6, <2>7, <2>8 DEF UnseenInv
  <1>7. CASE Watching(thread.id) /\ ~Cancelled(thread) /\ ~Writing(entry)
    <2> DEFINE f == [entry EXCEPT !.moves = {}]
    <2>1. /\ entry \in Entries /\ entry # Nobody
          /\ entry' = f /\ run' = Run("thread", entry, thread.token) /\ excuses' = excuses
      BY <1>1, <1>3, <1>7 DEF Watching
    <2>2. /\ f \in Entries /\ f.path = entry.path /\ f.phase = entry.phase
          /\ f.last = entry.last /\ f.expects = entry.expects /\ f.id = entry.id
          /\ f.epoch = entry.epoch /\ f.handle = entry.handle /\ f.activation = entry.activation
          /\ f.scheduled = entry.scheduled /\ f.missing = entry.missing /\ f.token = entry.token
      BY <2>1 DEF Entries
    <2> HIDE DEF f
    <2>3. run'.stage = "captured" /\ run'.owner = "thread"
      BY <2>1 DEF Run
    <2>4. ReadOK' /\ FollowedOK' /\ ExpectsOK'
      BY <1>2, <2>1, <2>2, <2>3, NobodyAssumption
         DEF UnseenInv, ReadOK, FollowedOK, ExpectsOK, Writing
    <2>5. KnownOK'
      BY <1>2, <2>1, <2>2, NobodyAssumption
         DEF UnseenInv, KnownOK, Coming, Noted, Writing, Agrees, GraceEnds
    <2>. QED BY <2>4, <2>5 DEF UnseenInv
  <1>. QED BY <1>4, <1>5, <1>6, <1>7

\* The reads of the lane's holder: what is read now stands.
LEMMA ReadingKnows == WatchInv /\ UnseenInv /\ (Look \/ Follow \/ Refuse) => UnseenInv'
  <1> SUFFICES ASSUME WatchInv, UnseenInv, Look \/ Follow \/ Refuse PROVE UnseenInv'
    OBVIOUS
  <1>0. run # Nobody /\ run \in Contexts /\ run.stage # "resolved"
    BY RunKnows DEF Look, Follow, Refuse
  <1>1. ASSUME NEW stage, NEW snapshot, Sees(stage, snapshot),
               snapshot.file = Refusal \/ snapshot.file = disk[snapshot.path]
                 \/ (run.stage = "gone" /\ snapshot = run.seen),
               snapshot.path # run.path => <<run.path, snapshot.path>> \in run.moves
        PROVE  UnseenInv'
    <2>1. /\ run'.seen = snapshot /\ run'.path = run.path /\ run'.moves = run.moves
          /\ run'.owner = run.owner /\ run'.epoch = run.epoch
      BY <1>0, <1>1 DEF Sees, Contexts
    <2>2. UNCHANGED <<disk, hints, entry, timers, save, told, excuses>>
      BY <1>1 DEF Sees, disks, watch, work, ghosts
    <2>3. FollowedOK'
      BY <1>0, <1>1, <2>1, <2>2 DEF UnseenInv, FollowedOK
    <2>4. ExpectsOK' /\ KnownOK'
      BY <2>2 DEF UnseenInv, ExpectsOK, KnownOK, Coming, Noted, Writing, Agrees, GraceEnds
    <2>5. ReadOK'
      <3>1. CASE snapshot.file = Refusal
        BY <2>1, <3>1 DEF ReadOK
      <3>2. CASE snapshot.file = disk[snapshot.path]
        BY <2>1, <2>2, <3>2 DEF ReadOK, ReadStands
      <3>3. CASE run.stage = "gone" /\ snapshot = run.seen
        BY <1>0, <2>1, <2>2, <3>3 DEF UnseenInv, ReadOK, ReadStands, Noted, Writing
      <3>. QED BY <1>1, <3>1, <3>2, <3>3
    <2>. QED BY <2>3, <2>4, <2>5 DEF UnseenInv
  <1>2. CASE Look
    <2> DEFINE stage == IF disk[run.path] = Missing /\ run.owner # "start" THEN "gone" ELSE "resolved"
               snapshot == [path |-> run.path, file |-> disk[run.path]]
    <2>1. Sees(stage, snapshot)
      BY <1>2 DEF Look
    <2>2. snapshot.path = run.path /\ snapshot.file = disk[snapshot.path]
      OBVIOUS
    <2> HIDE DEF stage, snapshot
    <2>. QED BY <1>1, <2>1, <2>2
  <1>3. CASE Follow
    <2>1. CASE Cardinality(Candidates) = 1
      <3>1. PICK q \in Candidates : Sees("resolved", [path |-> q, file |-> disk[q]])
        BY <1>3, <2>1 DEF Follow
      <3> DEFINE snapshot == [path |-> q, file |-> disk[q]]
      <3>2. /\ snapshot.file = disk[snapshot.path]
            /\ <<run.path, snapshot.path>> \in run.moves
        BY <3>1 DEF Candidates
      <3>3. Sees("resolved", snapshot)
        BY <3>1
      <3> HIDE DEF snapshot
      <3>. QED BY <1>1, <3>2, <3>3
    <2>2. CASE Cardinality(Candidates) # 1
      BY <1>0, <1>1, <1>3, <2>2 DEF Follow, UnseenInv, FollowedOK
    <2>. QED BY <2>1, <2>2
  <1>4. CASE Refuse
    <2> DEFINE snapshot == [path |-> run.path, file |-> Refusal]
    <2>1. Sees("resolved", snapshot)
      BY <1>4 DEF Refuse
    <2>2. snapshot.path = run.path /\ snapshot.file = Refusal
      OBVIOUS
    <2> HIDE DEF snapshot
    <2>. QED BY <1>1, <2>1, <2>2
  <1>. QED BY <1>2, <1>3, <1>4

\* The end of a run leaves the expectations and the last snapshot, or what
\* follows from settling one.
LEMMA EndKnows ==
  ASSUME UnseenInv, run' = Nobody, NEW f, entry' = f, f # Nobody, entry # Nobody,
         f.phase = entry.phase, f.last = entry.last, f.path = entry.path,
         f.id = entry.id, f.epoch = entry.epoch, f.expects.kind = entry.expects.kind,
         f.expects.kind # "none" => f.expects.text = entry.expects.text,
         UNCHANGED <<save, told>>, KnownOK'
  PROVE  UnseenInv'
  <1>1. ReadOK' /\ FollowedOK'
    BY DEF UnseenInv, ReadOK, FollowedOK
  <1>2. ExpectsOK'
    BY DEF UnseenInv, ExpectsOK, Writing
  <1>. QED BY <1>1, <1>2 DEF UnseenInv

\* A stale run is followed by another one, or by the end of the save.
LEMMA SettleStaleKnows == WatchInv /\ UnseenInv /\ Settling /\ SettleStale => UnseenInv'
  <1> SUFFICES ASSUME WatchInv, UnseenInv, Settling, SettleStale PROVE UnseenInv'
    OBVIOUS
  <1> DEFINE f == MarkScheduledStale(entry)
  <1>1. /\ entry \in Entries /\ entry # Nobody /\ entry.phase = "active"
        /\ EndRun(f) /\ UNCHANGED <<told, excuses>>
    BY SettlingKnows DEF SettleStale, ghosts
  <1>2. /\ SameWatch(f, entry) /\ SameSave(f, entry) /\ f.last = entry.last
        /\ entry.expects.kind # "none" => f.expects.text = entry.expects.text
        /\ f.scheduled \/ (Writing(f) /\ f.expects.again)
    BY <1>1, StaleIs, StaleShows
  <1>3. entry' = f /\ run' = Nobody /\ UNCHANGED <<disk, save>>
    BY <1>1 DEF EndRun, disks
  <1> HIDE DEF f
  <1>4. /\ f # Nobody /\ f.phase = entry.phase /\ f.path = entry.path
        /\ f.id = entry.id /\ f.epoch = entry.epoch /\ f.expects.kind = entry.expects.kind
    BY <1>2, NobodyAssumption DEF SameWatch, SameSave
  <1>5. KnownOK'
    BY <1>2, <1>3 DEF KnownOK, Coming, Writing
  <1>. QED BY <1>1, <1>2, <1>3, <1>4, <1>5, EndKnows

\* A refused read leaves an excuse.
LEMMA SettleRefusedKnows == WatchInv /\ UnseenInv /\ Settling /\ SettleRefused => UnseenInv'
  <1> SUFFICES ASSUME WatchInv, UnseenInv, Settling, SettleRefused PROVE UnseenInv'
    OBVIOUS
  <1>1. /\ entry \in Entries /\ entry # Nobody /\ excuses' # {} /\ told' = told
    BY SettlingKnows DEF SettleRefused
  <1>2. PICK e \in {entry, CancelMissingGrace(entry)} : EndRun(FinishScheduled(e))
    BY DEF SettleRefused
  <1>3. SameWatch(e, entry) /\ SameSave(e, entry) /\ e.last = entry.last /\ e.expects = entry.expects
    BY <1>1, <1>2, CancelGraceIs, GraceShows DEF SameWatch, SameSave
  <1> DEFINE f == FinishScheduled(e)
  <1>4. SameWatch(f, e) /\ SameSave(f, e) /\ f.last = e.last /\ f.expects = e.expects
    BY <1>3, FinishIs, FinishShows DEF SameWatch
  <1>5. entry' = f /\ run' = Nobody /\ save' = save
    BY <1>2 DEF EndRun
  <1> HIDE DEF f
  <1>6. /\ f # Nobody /\ f.phase = entry.phase /\ f.path = entry.path /\ f.last = entry.last
        /\ f.id = entry.id /\ f.epoch = entry.epoch /\ f.expects = entry.expects
    BY <1>3, <1>4, NobodyAssumption DEF SameWatch, SameSave
  <1>7. KnownOK'
    BY <1>1 DEF KnownOK
  <1>. QED BY <1>1, <1>5, <1>6, <1>7, EndKnows

\* A run that misses the file leaves a grace period, which will end.
LEMMA SettleGraceKnows == WatchInv /\ UnseenInv /\ Settling /\ SettleGrace => UnseenInv'
  <1> SUFFICES ASSUME WatchInv, UnseenInv, Settling, SettleGrace PROVE UnseenInv'
    OBVIOUS
  <1> DEFINE e == BeginMissingGrace(entry)
             f == FinishScheduled(e)
  <1>0. /\ entry \in Entries /\ entry # Nobody /\ EndRun(f)
        /\ timers' = Append(timers, Confirmation(e.id, e.token)) /\ told' = told
    BY SettlingKnows DEF SettleGrace
  <1>1. /\ SameWatch(e, entry) /\ SameSave(e, entry) /\ e.missing
        /\ e.last = entry.last /\ e.expects = entry.expects
    BY <1>0, BeginGraceIs, GraceShows
  <1> HIDE DEF e
  <1>2. SameWatch(f, e) /\ SameGrace(f, e) /\ SameSave(f, e) /\ f.last = e.last /\ f.expects = e.expects
    BY <1>1, FinishIs, FinishShows DEF SameWatch
  <1>3. entry' = f /\ run' = Nobody /\ save' = save
    BY <1>0 DEF EndRun
  <1> HIDE DEF f
  <1>4. /\ f # Nobody /\ f.phase = entry.phase /\ f.path = entry.path /\ f.last = entry.last
        /\ f.id = entry.id /\ f.epoch = entry.epoch /\ f.expects = entry.expects
        /\ f.id = e.id /\ f.token = e.token /\ f.missing
    BY <1>1, <1>2, NobodyAssumption DEF SameWatch, SameSave, SameGrace
  <1>5. GraceEnds'
    <2>1. timers \in Seq(Threads)
      BY DEF WatchInv, TypeInv
    <2>2. /\ Len(timers) + 1 \in DOMAIN timers'
          /\ timers'[Len(timers) + 1] = Confirmation(e.id, e.token)
      BY <1>0, <2>1
    <2>. QED BY <1>3, <1>4, <2>2 DEF GraceEnds, Confirmation
  <1>6. KnownOK'
    BY <1>5 DEF KnownOK, Coming
  <1>. QED BY <1>0, <1>3, <1>4, <1>6, EndKnows

\* What stands of a settled reading is what is there, or a look at it is coming.
LEMMA StandingKnows ==
  ASSUME ReadOK, run # Nobody, run.stage # "captured", run.seen.file # Refusal, ~Stale(entry),
         "strayed" \notin excuses, UNCHANGED <<disk, hints>>,
         NEW f, entry' = f, f.path = run.seen.path, entry.handle,
         run.owner = "thread" /\ entry.again => f.scheduled,
         run.owner = "command" /\ entry.scheduled => f.scheduled,
         run.owner = "start" /\ entry.activation => f.phase = "pending" /\ f.activation
  PROVE  run.seen.file = disk'[f.path] \/ Coming'
  <1>1. ReadStands
    BY DEF ReadOK
  <1>2. CASE Noted(run.seen.path)
    BY <1>2 DEF Noted, Coming
  <1>3. CASE ~Noted(run.seen.path)
    BY <1>1, <1>3 DEF ReadStands, Coming, Stale
  <1>. QED BY <1>2, <1>3

\* A snapshot is told, or known already, and stands or is looked at again.
LEMMA SettleSnapshotKnows == WatchInv /\ UnseenInv /\ Settling /\ SettleSnapshot => UnseenInv'
  <1> SUFFICES ASSUME WatchInv, UnseenInv, Settling, SettleSnapshot PROVE UnseenInv'
    OBVIOUS
  <1> DEFINE seen == IF run.seen.file = Missing THEN entry ELSE CancelMissingGrace(entry)
             e == Transition(seen)
             s == Settled(e)
             f == FinishScheduled(s)
             silent == IsOwnSave(e) \/ e.last = run.seen
             returned == e.last = run.seen /\ told.file # run.seen.file /\ ~IsOwnSave(e)
  <1>0. /\ entry \in Entries /\ entry # Nobody /\ entry.phase = "active"
        /\ run.seen \in Snapshots /\ run.seen.file # Refusal
        /\ run # Nobody /\ run.owner = "thread" /\ run.stage # "captured" /\ ~Stale(entry)
    BY SettlingKnows DEF SettleSnapshot, Readings, Snapshots, Settling
  <1>1. /\ EndRun(f)
        /\ IF silent THEN told' = told ELSE Tells
        /\ excuses' = (IF returned THEN excuses \cup {"returned"}
                       ELSE excuses \cap ({"strayed"} \cup
                                          IF silent \/ save # Nobody THEN {"absorbed"} ELSE {}))
                      \cup IF silent /\ Moved THEN {"absorbed"} ELSE {}
    BY DEF SettleSnapshot
  <1>2. /\ seen \in Entries /\ seen.phase = entry.phase /\ seen.handle = entry.handle
        /\ seen.expects = entry.expects /\ seen.again = entry.again /\ seen.last = entry.last
    <2>1. CASE run.seen.file = Missing
      BY <1>0, <2>1
    <2>2. CASE run.seen.file # Missing
      BY <1>0, <2>2, CancelGraceIs, GraceShows DEF SameWatch
    <2>. QED BY <2>1, <2>2
  <1> HIDE DEF seen
  <1>3. /\ e \in Entries /\ e.path = run.seen.path /\ e.phase = entry.phase
        /\ e.handle = entry.handle /\ e.expects = entry.expects /\ e.again = entry.again
        /\ e.last = entry.last
    <2>1. e \in Entries /\ e.path = run.seen.path /\ e.phase = seen.phase
      BY <1>0, <1>2, TransitionIs
    <2>2. /\ e.handle = seen.handle /\ e.expects = seen.expects /\ e.again = seen.again
          /\ e.last = seen.last
      BY <1>2 DEF Transition, Entries
    <2>. QED BY <1>2, <2>1, <2>2
  <1>4. silent => IsOwnSave(e) \/ e.last = run.seen
    OBVIOUS
  <1>5. returned <=> (e.last = run.seen /\ told.file # run.seen.file /\ ~IsOwnSave(e))
    OBVIOUS
  <1> HIDE DEF e, silent, returned
  <1>6. ~Writing(e)
    BY <1>0, <1>3 DEF Stale, Writing
  <1>7. /\ s \in Entries /\ s.path = e.path /\ s.phase = e.phase
        /\ s.last = run.seen /\ s.handle = e.handle /\ s.again = e.again
        /\ s.expects.kind # "committed" /\ ~Writing(s)
    BY <1>0, <1>3, <1>6, SettledIs, SettledShows DEF SameWatch
  <1> HIDE DEF s
  <1>8. /\ f \in Entries /\ f.path = run.seen.path /\ f.phase = "active"
        /\ f.last = run.seen /\ f.handle = entry.handle
        /\ f.expects.kind # "committed" /\ ~Writing(f)
        /\ entry.again => f.scheduled
    BY <1>0, <1>3, <1>7, FinishIs, FinishShows DEF SameWatch, Writing
  <1>9. entry' = f /\ run' = Nobody /\ UNCHANGED <<disk, hints, save>>
    BY <1>1 DEF EndRun, disks
  <1> HIDE DEF f
  <1>10. f # Nobody
    BY <1>8, NobodyAssumption
  <1>11. told # Nobody /\ told' # Nobody
    BY <1>0, <1>1, NobodyAssumption DEF UnseenInv, FollowedOK, Tells, Reports, Snapshots,
                                        WatchInv, TypeInv, Contexts
  <1>12. ReadOK' /\ FollowedOK' /\ ExpectsOK'
    <2>1. ReadOK'
      BY <1>9 DEF ReadOK
    <2>2. FollowedOK'
      BY <1>8, <1>9, <1>11 DEF FollowedOK
    <2>3. ExpectsOK'
      BY <1>8, <1>9 DEF ExpectsOK, Writing
    <2>. QED BY <2>1, <2>2, <2>3
  <1>13. KnownOK'
    <2> SUFFICES ASSUME f.handle, excuses' = {}, ~Coming' PROVE Agrees(told'.file, disk'[f.path])
      BY <1>9, <1>10 DEF KnownOK, Agrees
    <2>1. ~returned /\ "strayed" \notin excuses
      BY <1>1
    <2>2. run.seen.file = disk'[f.path]
      BY <1>0, <1>8, <1>9, <2>1, StandingKnows DEF UnseenInv
    <2>3. CASE ~silent
      BY <1>1, <2>2, <2>3 DEF Tells, Agrees
    <2>4. CASE silent /\ ~IsOwnSave(e)
      BY <1>1, <1>4, <1>5, <2>1, <2>2, <2>4 DEF Agrees
    <2>5. CASE silent /\ IsOwnSave(e)
      <3>1. /\ entry.expects.kind = "committed" /\ run.seen.file # Missing
            /\ run.seen.file.text = entry.expects.text
        BY <1>3, <2>5 DEF IsOwnSave
      <3>2. told.file # Missing /\ told.file.text = entry.expects.text
        BY <1>0, <3>1 DEF UnseenInv, ExpectsOK
      <3>. QED BY <1>1, <2>2, <2>5, <3>1, <3>2 DEF Agrees
    <2>. QED BY <2>3, <2>4, <2>5
  <1>. QED BY <1>12, <1>13 DEF UnseenInv

\* run_scheduled_reconcile, whatever it found.
LEMMA SettlingKnowsIt == WatchInv /\ UnseenInv /\ RunScheduledReconcile => UnseenInv'
  BY SettleStaleKnows, SettleRefusedKnows, SettleGraceKnows, SettleSnapshotKnows
     DEF RunScheduledReconcile, Settling

\* The start of a watch, of a command and of nothing leave nothing unseen.
LEMMA BeginningsKnow == WatchInv /\ UnseenInv /\ (StartWatch \/ StartReconcile \/ Stop) => UnseenInv'
  <1> SUFFICES ASSUME WatchInv, UnseenInv, StartWatch \/ StartReconcile \/ Stop PROVE UnseenInv'
    OBVIOUS
  <1>1. CASE StartWatch
    <2>1. PICK p \in Paths : /\ entry' = Pending(nextId, p)
                             /\ run' = Run("start", entry', 0) /\ told' = Nobody
      BY <1>1 DEF StartWatch
    <2>2. /\ entry'.phase = "pending" /\ entry'.last = Nobody
          /\ entry'.expects.kind = "none"
          /\ run'.stage = "captured" /\ run'.epoch = entry'.epoch
      BY <2>1 DEF Pending, Unexpecting, Run
    <2>. QED BY <2>1, <2>2 DEF UnseenInv, ReadOK, FollowedOK, ExpectsOK, KnownOK, Writing
  <1>2. CASE StartReconcile
    <2>1. /\ run' = Run("command", entry, 0)
          /\ UNCHANGED <<disk, hints, entry, timers, save, told, excuses>>
      BY <1>2 DEF StartReconcile, disks, watch, work, ghosts
    <2>2. run'.stage = "captured" /\ run'.owner = "command"
      BY <2>1 DEF Run
    <2>3. ReadOK' /\ FollowedOK' /\ ExpectsOK'
      BY <2>1, <2>2 DEF UnseenInv, ReadOK, FollowedOK, ExpectsOK, Writing
    <2>4. KnownOK'
      BY <2>1 DEF UnseenInv, KnownOK, Coming, Noted, Writing, Agrees, GraceEnds
    <2>. QED BY <2>3, <2>4 DEF UnseenInv
  <1>3. CASE Stop
    BY <1>3 DEF Stop, UnseenInv, ReadOK, FollowedOK, ExpectsOK, KnownOK
  <1>. QED BY <1>1, <1>2, <1>3

\* The first snapshot is told, and stands or is looked at again.
LEMMA FinishRegistrationKnows == WatchInv /\ UnseenInv /\ FinishRegistration => UnseenInv'
  <1> SUFFICES ASSUME WatchInv, UnseenInv, FinishRegistration PROVE UnseenInv'
    OBVIOUS
  <1>1. /\ run # Nobody /\ run.owner = "start" /\ run.stage = "resolved" /\ run' = Nobody
        /\ UNCHANGED <<disk, timers, save, excuses>>
    BY DEF FinishRegistration, disks, work
  <1>2. /\ entry \in Entries /\ entry # Nobody /\ entry.phase = "pending"
        /\ run.seen.path = entry.path /\ ~Stale(entry) /\ entry.expects.kind = "none"
    BY <1>1, RunKnows DEF WatchInv, RunOK, PendingOK, UnseenInv, FollowedOK, Stale, Writing
  <1>3. CASE run.seen.file = Refusal
    BY <1>1, <1>3 DEF FinishRegistration, UnseenInv, ReadOK, FollowedOK, ExpectsOK, KnownOK
  <1>4. CASE run.seen.file # Refusal
    <2> DEFINE i == IF run.seen.file = Missing THEN 0 ELSE run.seen.file.identity
               f == [entry EXCEPT !.last = run.seen, !.identity = i]
    <2>1. entry' = f /\ Tells /\ hints' = hints
      BY <1>4 DEF FinishRegistration
    <2>2. /\ f.path = entry.path /\ f.phase = entry.phase /\ f.expects = entry.expects
          /\ f.activation = entry.activation /\ f.handle = entry.handle
      BY <1>2 DEF Entries
    <2> HIDE DEF i, f
    <2>3. told'.file = run.seen.file /\ told' # Nobody
      <3>1. told' \in Reports
        BY <1>1, <1>4, <2>1, RunKnows DEF Tells, Reports, WatchInv, RunOK, Readings, Contexts
      <3>. QED BY <2>1, <3>1, NobodyAssumption DEF Tells
    <2>4. ReadOK' /\ FollowedOK' /\ ExpectsOK'
      BY <1>1, <1>2, <2>1, <2>2, <2>3 DEF ReadOK, FollowedOK, ExpectsOK, Writing
    <2>5. KnownOK'
      <3> SUFFICES ASSUME f.handle, excuses = {} PROVE run.seen.file = disk'[f.path] \/ Coming'
        BY <1>1, <2>1, <2>3 DEF KnownOK, Agrees
      <3>. QED BY <1>1, <1>2, <1>4, <2>1, <2>2, StandingKnows DEF UnseenInv
    <2>. QED BY <2>4, <2>5 DEF UnseenInv
  <1>. QED BY <1>3, <1>4

\* activate_active_document_watch schedules a run for what was heard before.
LEMMA ActivateKnows == WatchInv /\ UnseenInv /\ Activate => UnseenInv'
  <1> SUFFICES ASSUME WatchInv, UnseenInv, Activate PROVE UnseenInv'
    OBVIOUS
  <1> DEFINE h == IF entry.unhealthy THEN entry.health + 1 ELSE entry.health
             f == [entry EXCEPT !.phase = "active",
                                !.scheduled = entry.activation, !.activation = FALSE,
                                !.degraded = entry.unhealthy, !.unhealthy = FALSE,
                                !.health = h]
  <1>1. /\ entry \in Entries /\ entry # Nobody /\ entry.phase = "pending" /\ entry.last # Nobody
        /\ entry' = f /\ UNCHANGED <<disk, hints, timers, run, save, told, excuses>>
    BY DEF Activate, Becomes, WatchInv, TypeInv, disks, ghosts
  <1>2. run = Nobody /\ ~entry.scheduled /\ entry.expects.kind = "none"
    BY <1>1 DEF Activate, MainIdle, WatchInv, PendingOK
  <1>3. /\ f.scheduled = entry.activation /\ f.last = entry.last /\ f.path = entry.path
        /\ f.handle = entry.handle /\ f.expects = entry.expects /\ f.id = entry.id
        /\ f.missing = entry.missing /\ f.token = entry.token
    BY <1>1 DEF Entries
  <1> HIDE DEF h, f
  <1>4. ReadOK' /\ FollowedOK' /\ ExpectsOK'
    BY <1>1, <1>2, <1>3 DEF UnseenInv, ReadOK, FollowedOK, ExpectsOK, Writing
  <1>5. KnownOK'
    BY <1>1, <1>2, <1>3 DEF UnseenInv, KnownOK, Coming, Noted, Writing, Agrees, GraceEnds
  <1>. QED BY <1>4, <1>5 DEF UnseenInv

\* A command that settles tells what it saw, which stands or is looked at again.
LEMMA FinishReconcileKnows == WatchInv /\ UnseenInv /\ FinishReconcile => UnseenInv'
  <1> SUFFICES ASSUME WatchInv, UnseenInv, FinishReconcile PROVE UnseenInv'
    OBVIOUS
  <1>1. /\ run # Nobody /\ run.owner = "command" /\ run.stage = "resolved" /\ run' = Nobody
        /\ UNCHANGED <<disk, hints, timers, save>>
    BY DEF FinishReconcile, disks, work
  <1>2. entry \in Entries /\ entry # Nobody /\ run.seen \in Readings /\ run \in Contexts
    BY <1>1, RunKnows DEF WatchInv, RunOK
  <1>3. CASE Stale(entry) \/ run.seen.file = Refusal \/ Unrecognised(entry)
    <2>1. UNCHANGED <<entry, told, excuses>>
      BY <1>3 DEF FinishReconcile, ghosts
    <2>2. ReadOK' /\ FollowedOK' /\ ExpectsOK'
      BY <1>1, <2>1 DEF UnseenInv, ReadOK, FollowedOK, ExpectsOK, Writing
    <2>3. KnownOK'
      BY <1>1, <2>1 DEF UnseenInv, KnownOK, Coming, Noted, Writing, Agrees, GraceEnds
    <2>. QED BY <2>2, <2>3 DEF UnseenInv
  <1>4. CASE ~Stale(entry) /\ run.seen.file # Refusal /\ ~Unrecognised(entry)
    <2> DEFINE e == Transition(entry)
               c == CancelMissingGrace(e)
               f == Settled(c)
    <2>1. entry' = f /\ Tells /\ excuses' = excuses \cap {"strayed"}
      BY <1>4 DEF FinishReconcile
    <2>2. run.seen \in Snapshots
      BY <1>2, <1>4 DEF Readings, Snapshots
    <2>3. /\ e \in Entries /\ e.path = run.seen.path /\ e.handle = entry.handle
          /\ e.expects = entry.expects /\ e.scheduled = entry.scheduled
      BY <1>2, <2>2, TransitionIs DEF Transition, Entries
    <2> HIDE DEF e
    <2>4. /\ c \in Entries /\ c.path = e.path /\ c.handle = e.handle
          /\ c.expects = e.expects /\ c.scheduled = e.scheduled
      BY <2>3, CancelGraceIs, GraceShows DEF SameWatch
    <2> HIDE DEF c
    <2>5. /\ f.path = run.seen.path /\ f.handle = entry.handle /\ f.scheduled = entry.scheduled
          /\ f.expects.kind # "committed" /\ ~Writing(f)
      BY <1>4, <2>2, <2>3, <2>4, SettledIs, SettledShows DEF SameWatch, Stale, Writing
    <2> HIDE DEF f
    <2>6. told'.file = run.seen.file /\ told' # Nobody
      <3>1. told' \in Reports
        BY <1>2, <2>1, <2>2 DEF Tells, Reports, Snapshots, Contexts
      <3>. QED BY <2>1, <3>1, NobodyAssumption DEF Tells
    <2>7. ReadOK' /\ FollowedOK' /\ ExpectsOK'
      BY <1>1, <2>1, <2>5, <2>6 DEF ReadOK, FollowedOK, ExpectsOK, Writing
    <2>8. KnownOK'
      <3> SUFFICES ASSUME f.handle, excuses' = {} PROVE run.seen.file = disk'[f.path] \/ Coming'
        BY <2>1, <2>6 DEF KnownOK, Agrees
      <3>1. "strayed" \notin excuses
        BY <2>1
      <3>. QED BY <1>1, <1>4, <2>1, <2>5, <3>1, StandingKnows DEF UnseenInv
    <2>. QED BY <2>7, <2>8 DEF UnseenInv
  <1>. QED BY <1>3, <1>4

\* begin_app_write announces the bytes to an entry that expects no others.
LEMMA BeginAppWriteKnows == WatchInv /\ UnseenInv /\ BeginAppWrite => UnseenInv'
  <1> SUFFICES ASSUME WatchInv, UnseenInv, BeginAppWrite PROVE UnseenInv'
    OBVIOUS
  <1> DEFINE announced == entry # Nobody /\ entry.phase = "active" /\ entry.path = told.path
  <1>1. PICK t \in Texts, forced \in BOOLEAN :
          /\ entry' = IF announced
                        THEN [entry EXCEPT !.epoch = @ + 1,
                               !.expects = [kind |-> "writing", text |-> t, again |-> FALSE]]
                        ELSE entry
          /\ save' = [path |-> told.path, expected |-> told.file, text |-> t,
                      forced |-> forced, file |-> Missing, stage |-> "begun",
                      token |-> IF announced THEN [id |-> entry.id, epoch |-> entry.epoch + 1]
                                ELSE NoToken]
    BY DEF BeginAppWrite
  <1>2. /\ save = Nobody /\ told # Nobody
        /\ UNCHANGED <<disk, hints, timers, run, told, excuses>>
    BY DEF BeginAppWrite, MainIdle, disks, work, ghosts
  <1>3. entry # Nobody => entry \in Entries /\ ~Writing(entry)
    BY <1>2 DEF WatchInv, TypeInv, UnseenInv, ExpectsOK
  <1>4. CASE announced
    <2> DEFINE n == entry.epoch + 1
               w == [kind |-> "writing", text |-> t, again |-> FALSE]
               f == [entry EXCEPT !.epoch = n, !.expects = w]
    <2>1. /\ entry' = f /\ save'.path = told.path /\ save'.text = t /\ save'.stage = "begun"
          /\ save'.token = [id |-> entry.id, epoch |-> n] /\ entry \in Entries
      BY <1>1, <1>3, <1>4
    <2>2. n \in Nat /\ w.kind = "writing" /\ w.text = t /\ entry.expects \in Expectations
      BY <2>1 DEF Entries
    <2> HIDE DEF w, n
    <2>3. /\ f.epoch = n /\ f.expects = w /\ f.id = entry.id /\ f.path = entry.path
          /\ f.phase = entry.phase /\ f.last = entry.last /\ f.handle = entry.handle
          /\ f.scheduled = entry.scheduled /\ f.missing = entry.missing /\ f.token = entry.token
      BY <2>1 DEF Entries
    <2> HIDE DEF f
    <2>4. save' # Nobody
      <3>1. told \in Reports /\ told.path \in Paths
        BY <1>2 DEF WatchInv, TypeInv, Reports
      <3>2. told.file \in Files
        BY <1>2, <3>1 DEF BeginAppWrite, Reports
      <3>3. save' \in Saves
        BY <1>1, <1>4, <2>1, <2>2, <3>1, <3>2 DEF Saves, Entries
      <3>. QED BY <3>3, NobodyAssumption
    <2>5. ReadOK' /\ FollowedOK'
      BY <1>2, <1>4, <2>1, <2>2, <2>3 DEF UnseenInv, ReadOK, ReadStands, FollowedOK, Writing
    <2>6. ExpectsOK'
      BY <1>2, <1>4, <2>1, <2>2, <2>3, <2>4 DEF ExpectsOK, Writing
    <2>7. KnownOK'
      BY <1>2, <1>3, <1>4, <2>1, <2>3 DEF UnseenInv, KnownOK, Coming, Noted, Writing, Agrees, GraceEnds
    <2>. QED BY <2>5, <2>6, <2>7 DEF UnseenInv
  <1>5. CASE ~announced
    <2>1. entry' = entry
      BY <1>1, <1>5
    <2>2. entry # Nobody => entry.expects.kind # "committed"
      BY <1>3, <1>5 DEF WatchInv, PendingOK, UnseenInv, ExpectsOK, Entries
    <2>3. ReadOK' /\ FollowedOK' /\ ExpectsOK'
      BY <1>2, <1>3, <2>1, <2>2
         DEF UnseenInv, ReadOK, ReadStands, FollowedOK, ExpectsOK, Noted, Writing
    <2>4. KnownOK'
      BY <1>2, <2>1 DEF UnseenInv, KnownOK, Coming, Noted, Writing, Agrees, GraceEnds
    <2>. QED BY <2>3, <2>4 DEF UnseenInv
  <1>. QED BY <1>4, <1>5

\* The save's own replacement is told, and leaves a notification.
LEMMA CommitSaveKnows == WatchInv /\ UnseenInv /\ CommitSave => UnseenInv'
  <1> SUFFICES ASSUME WatchInv, UnseenInv, CommitSave PROVE UnseenInv'
    OBVIOUS
  <1> DEFINE file == [text |-> save.text, stamp |-> clock + 1, identity |-> clock + 1]
             note == [path |-> save.path, file |-> file, at |-> clock + 1]
  <1>1. /\ save # Nobody
        /\ disk' = [disk EXCEPT ![save.path] = file]
        /\ save' = [save EXCEPT !.stage = "committed", !.file = file]
        /\ told' = IF told.path = save.path THEN note ELSE told
        /\ hints' = IF entry # Nobody /\ entry.handle
                      THEN hints \cup {<<save.path, save.path>>} ELSE hints
        /\ UNCHANGED <<entry, timers, run, excuses>>
    BY DEF CommitSave, work
  <1>2. /\ save \in Saves /\ clock + 1 \in Nat /\ told # Nobody
        /\ disk \in [Paths -> Files \cup {Missing}]
    BY <1>1 DEF WatchInv, TypeInv, SaveOK
  <1>3. file \in Files /\ file.text = save.text
    BY <1>2 DEF Files, Saves
  <1>4. /\ \A p \in Paths \ {save.path} : disk'[p] = disk[p]
        /\ save.path \in Paths => disk'[save.path] = file
    BY <1>1, <1>2
  <1> HIDE DEF file
  <1>5. note.path = save.path /\ note.file = file /\ note \in Reports
    BY <1>2, <1>3 DEF Saves, Reports
  <1>6. /\ save'.path = save.path /\ save'.text = save.text /\ save'.token = save.token
        /\ save'.file = file /\ save' \in Saves
    BY <1>1, <1>2, <1>3 DEF Saves
  <1> HIDE DEF note
  <1>7. /\ file # Missing /\ note # Nobody /\ save' # Nobody
    BY <1>3, <1>5, <1>6, NobodyAssumption
  <1>8. told' # Nobody /\ told'.path = told.path
    BY <1>1, <1>2, <1>5, <1>7
  <1>9. FollowedOK'
    BY <1>1, <1>8 DEF UnseenInv, FollowedOK
  <1>10. ExpectsOK'
    BY <1>1, <1>3, <1>5, <1>6, <1>7, <1>8 DEF UnseenInv, ExpectsOK, Writing
  <1>11. ASSUME NEW p \in Paths, entry # Nobody, entry.handle
         PROVE  disk'[p] = disk[p] \/ \E hint \in hints' : Concerns(hint, p)
    <2>1. CASE p = save.path
      <3>1. <<save.path, save.path>> \in hints'
        BY <1>1, <1>11
      <3>2. Concerns(<<save.path, save.path>>, p)
        BY <2>1 DEF Concerns
      <3>. QED BY <3>1, <3>2
    <2>2. CASE p # save.path
      BY <1>4, <2>2
    <2>. QED BY <2>1, <2>2
  <1>12. \A p : (\E hint \in hints : Concerns(hint, p)) => \E hint \in hints' : Concerns(hint, p)
    BY <1>1
  <1>13. ReadOK'
    <2> SUFFICES ASSUME run # Nobody, run.stage # "captured", run.seen.file # Refusal,
                        entry.handle, "strayed" \notin excuses
                 PROVE  ReadStands'
      BY <1>1 DEF ReadOK
    <2>1. run.seen.path \in Paths /\ entry # Nobody
      BY RunKnows DEF WatchInv, RunOK, Readings
    <2>2. ReadStands
      BY DEF UnseenInv, ReadOK
    <2>3. disk'[run.seen.path] = disk[run.seen.path] \/ \E hint \in hints' : Concerns(hint, run.seen.path)
      BY <1>11, <2>1
    <2>. QED BY <1>1, <1>12, <2>2, <2>3 DEF ReadStands, Noted, Concerns, Writing
  <1>14. KnownOK'
    <2> SUFFICES ASSUME entry # Nobody, entry.handle, excuses = {}
                 PROVE  Agrees(told'.file, disk'[entry.path]) \/ Coming'
      BY <1>1 DEF KnownOK, Agrees
    <2>1. entry.path = told.path /\ entry.path \in Paths
      BY <1>2 DEF WatchInv, ToldOK, TypeInv, Entries
    <2>2. CASE entry.path = save.path
      BY <1>1, <1>4, <1>5, <1>7, <2>1, <2>2 DEF Agrees
    <2>3. CASE entry.path # save.path
      <3>1. Agrees(told.file, disk[entry.path]) \/ Coming
        BY <1>2 DEF UnseenInv, KnownOK
      <3>2. told' = told /\ disk'[entry.path] = disk[entry.path]
        BY <1>1, <1>4, <2>1, <2>3
      <3>. QED BY <1>1, <1>12, <3>1, <3>2 DEF Coming, Noted, Concerns, Writing, GraceEnds
    <2>. QED BY <2>2, <2>3
  <1>. QED BY <1>9, <1>10, <1>13, <1>14 DEF UnseenInv

\* A save that replaces nothing changes nothing that is seen.
LEMMA FailSaveKnows == WatchInv /\ UnseenInv /\ FailSave => UnseenInv'
  <1> SUFFICES ASSUME WatchInv, UnseenInv, FailSave PROVE UnseenInv'
    OBVIOUS
  <1>1. /\ save # Nobody /\ save' = [save EXCEPT !.stage = "failed"]
        /\ UNCHANGED <<disk, hints, entry, timers, run, told, excuses>>
    BY DEF FailSave, disks, watch, work, ghosts
  <1>2. /\ save' \in Saves /\ save'.token = save.token /\ save'.stage = "failed"
        /\ save'.path = save.path /\ save'.text = save.text
    BY <1>1 DEF WatchInv, TypeInv, Saves
  <1>3. save' # Nobody
    BY <1>2, NobodyAssumption
  <1>4. ReadOK' /\ FollowedOK'
    BY <1>1 DEF UnseenInv, ReadOK, ReadStands, FollowedOK, Noted, Writing
  <1>5. ExpectsOK'
    BY <1>1, <1>2, <1>3 DEF UnseenInv, ExpectsOK, Writing
  <1>6. KnownOK'
    BY <1>1 DEF UnseenInv, KnownOK, Coming, Noted, Writing, Agrees, GraceEnds
  <1>. QED BY <1>4, <1>5, <1>6 DEF UnseenInv

\* settle_app_write_and_schedule schedules a run for what was heard meanwhile.
LEMMA SettleSaveKnows == WatchInv /\ UnseenInv /\ SettleSave => UnseenInv'
  <1> SUFFICES ASSUME WatchInv, UnseenInv, SettleSave PROVE UnseenInv'
    OBVIOUS
  <1>1. /\ save # Nobody /\ save.stage # "begun" /\ save' = Nobody
        /\ IF Watching(save.token.id) /\ entry.epoch = save.token.epoch
             THEN entry' = SettleAppWrite(entry) ELSE entry' = entry
        /\ UNCHANGED <<disk, hints, timers, run, told, excuses>>
    BY DEF SettleSave, Becomes, disks, ghosts
  <1>2. CASE ~(Watching(save.token.id) /\ entry.epoch = save.token.epoch)
    <2>1. entry' = entry
      BY <1>1, <1>2
    <2>2. entry # Nobody => ~Writing(entry) /\ entry.expects.kind # "committed"
      BY <1>1, <1>2 DEF UnseenInv, ExpectsOK, Watching
    <2>3. ReadOK' /\ FollowedOK' /\ ExpectsOK'
      BY <1>1, <2>1, <2>2
         DEF UnseenInv, ReadOK, ReadStands, FollowedOK, ExpectsOK, Noted, Writing
    <2>4. KnownOK'
      BY <1>1, <2>1 DEF UnseenInv, KnownOK, Coming, Noted, Writing, Agrees, GraceEnds
    <2>. QED BY <2>3, <2>4 DEF UnseenInv
  <1>3. CASE Watching(save.token.id) /\ entry.epoch = save.token.epoch
    <2>1. /\ entry \in Entries /\ entry # Nobody
          /\ Writing(entry) /\ entry.phase = "active"
      <3>1. entry \in Entries /\ entry # Nobody
        BY <1>1, <1>3 DEF WatchInv, TypeInv, Watching
      <3>2. save.token # NoToken
        BY <1>3, <3>1 DEF WatchInv, NumbersOK, Watching, NoToken
      <3>. QED BY <1>1, <3>1, <3>2 DEF WatchInv, SaveOK
    <2> DEFINE committed == save.stage = "committed"
               n == entry.epoch + 1
               s == entry.scheduled \/ entry.expects.again \/ entry.again
               i == IF committed THEN save.file.identity ELSE entry.identity
               w == IF committed
                      THEN [kind |-> "committed", text |-> entry.expects.text, expired |-> FALSE]
                      ELSE Unexpecting
               f == [entry EXCEPT !.epoch = n, !.again = FALSE, !.scheduled = s,
                                  !.identity = i, !.expects = w]
    <2>2. entry' = f
      BY <1>1, <1>3 DEF SettleAppWrite
    <2>3. w.kind = "committed" => save.stage = "committed" /\ w.text = entry.expects.text
      BY DEF Unexpecting
    <2>4. w.kind # "writing"
      BY DEF Unexpecting
    <2>5. run # Nobody => run.epoch # n
      <3>1. run # Nobody => run.epoch \in Nat /\ run.epoch <= entry.epoch
        BY DEF WatchInv, RunOK, TypeInv, Contexts
      <3>2. entry.epoch \in Nat
        BY <2>1 DEF Entries
      <3>. QED BY <3>1, <3>2
    <2>6. s <=> (entry.scheduled \/ entry.expects.again \/ entry.again)
      OBVIOUS
    <2> HIDE DEF n, s, i, w
    <2>7. /\ f.epoch = n /\ f.expects = w /\ f.id = entry.id /\ f.path = entry.path
          /\ f.phase = entry.phase /\ f.last = entry.last /\ f.handle = entry.handle
          /\ f.scheduled = s /\ f.missing = entry.missing /\ f.token = entry.token
      BY <2>1 DEF Entries
    <2> HIDE DEF f
    <2>8. ReadOK'
      BY <1>1, <2>2, <2>5, <2>7 DEF ReadOK, ReadStands
    <2>9. FollowedOK'
      BY <1>1, <2>1, <2>2, <2>7 DEF UnseenInv, FollowedOK
    <2>10. ExpectsOK'
      <3>1. /\ told # Nobody /\ told.path = entry.path /\ entry.expects.text = save.text
            /\ save.stage = "committed" => told.file = save.file /\ save.file.text = save.text
        BY <2>1 DEF UnseenInv, ExpectsOK
      <3>2. save.stage = "committed" => save.file # Missing
        BY <1>1, NobodyAssumption DEF WatchInv, SaveOK
      <3>. QED BY <1>1, <2>2, <2>3, <2>4, <2>7, <3>1, <3>2 DEF ExpectsOK, Writing
    <2>11. KnownOK'
      BY <1>1, <2>1, <2>2, <2>6, <2>7
         DEF UnseenInv, KnownOK, Coming, Noted, Writing, Agrees, GraceEnds
    <2>. QED BY <2>8, <2>9, <2>10, <2>11 DEF UnseenInv
  <1>. QED BY <1>2, <1>3

\* The expectation of a save runs out; what was told stays known.
LEMMA ExpiresKnows == WatchInv /\ UnseenInv /\ ExpectationExpires => UnseenInv'
  <1> SUFFICES ASSUME WatchInv, UnseenInv, ExpectationExpires PROVE UnseenInv'
    OBVIOUS
  <1>1. /\ entry \in Entries /\ entry # Nobody /\ entry.expects.kind = "committed"
        /\ entry' = [entry EXCEPT !.expects.expired = TRUE]
        /\ UNCHANGED <<disk, hints, timers, run, save, told, excuses>>
    BY DEF ExpectationExpires, WatchInv, TypeInv, disks, work, ghosts
  <1> DEFINE w == [entry.expects EXCEPT !.expired = TRUE]
             f == [entry EXCEPT !.expects = w]
  <1>2. entry.expects \in [kind : {"committed"}, text : Texts, expired : BOOLEAN]
    BY <1>1 DEF Entries, Expectations
  <1>3. w \in Expectations /\ w.kind = "committed" /\ w.text = entry.expects.text
    BY <1>2 DEF Expectations
  <1>4. entry' = f
    BY <1>1
  <1> HIDE DEF w
  <1>5. /\ SameWatch(f, entry) /\ SameGrace(f, entry) /\ SameSave(f, entry) /\ Mindful(f, entry)
    BY <1>1, <1>3 DEF Entries, SameWatch, SameGrace, SameSave, Mindful, Writing
  <1> HIDE DEF f
  <1>6. /\ Noted(entry.path) => Noted(entry.path)'
        /\ Noted(run.seen.path) => Noted(run.seen.path)'
        /\ GraceEnds => GraceEnds'
    BY <1>1, <1>4, <1>5 DEF Noted, GraceEnds, SameWatch, SameGrace
  <1>. QED BY <1>1, <1>4, <1>5, <1>6, AskingKnows

\* Every step keeps the window informed.
LEMMA UnseenStep == WatchInv /\ UnseenInv /\ [Next]_vars => UnseenInv'
  <1> SUFFICES ASSUME WatchInv, UnseenInv, [Next]_vars PROVE UnseenInv'
    OBVIOUS
  <1>1. CASE Environment
    BY <1>1, ProgramsKnow, ErrorKnows, ReadingKnows, ExpiresKnows DEF Environment
  <1>2. CASE Commands
    BY <1>2, BeginningsKnow, BeginAppWriteKnows DEF Commands
  <1>3. CASE Service
    <2>1. CASE Hear \/ PollAsks \/ PollEnds \/ PollGivesUp \/ TimerFires
      BY <2>1, HearKnows, PollsKnow
    <2>2. CASE Capture \/ Look \/ Follow \/ RunScheduledReconcile
      BY <2>2, CaptureKnows, ReadingKnows, SettlingKnowsIt
    <2>3. CASE FinishRegistration \/ Activate \/ FinishReconcile
      BY <2>3, FinishRegistrationKnows, ActivateKnows, FinishReconcileKnows
    <2>4. CASE CommitSave \/ FailSave \/ SettleSave
      BY <2>4, CommitSaveKnows, FailSaveKnows, SettleSaveKnows
    <2>. QED BY <1>3, <2>1, <2>2, <2>3, <2>4 DEF Service
  <1>4. CASE UNCHANGED vars
    <2>1. UNCHANGED <<disk, hints, entry, timers, run, save, told, excuses>>
      BY <1>4 DEF vars, disks, watch, work, ghosts
    <2>2. ReadOK' /\ FollowedOK' /\ ExpectsOK'
      BY <2>1 DEF UnseenInv, ReadOK, ReadStands, FollowedOK, ExpectsOK, Noted, Writing
    <2>3. KnownOK'
      BY <2>1 DEF UnseenInv, KnownOK, Coming, Noted, Writing, Agrees, GraceEnds
    <2>. QED BY <2>2, <2>3 DEF UnseenInv
  <1>. QED BY <1>1, <1>2, <1>3, <1>4 DEF Next

\* The entry never waits for a run that does not come, and once notifications,
\* runs and grace periods are over, the main window has been told where its
\* document is and what it holds, or that it is gone (note_native_hint,
\* run_scheduled_reconcile, settle_app_write, schedule_missing_confirmation).
THEOREM KeepsUpCorrect == Spec => []WatchKeepsUp
  <1>1. Init => UnseenInv
    BY DEF Init, UnseenInv, ReadOK, FollowedOK, ExpectsOK, KnownOK
  <1>2. WatchInv /\ UnseenInv => NothingUnseen
    <2> SUFFICES ASSUME WatchInv, UnseenInv, Quiet, excuses = {}
                 PROVE  told.path = entry.path /\ Agrees(told.file, disk[entry.path])
      BY DEF NothingUnseen, Agrees
    <2>1. told # Nobody /\ ~Writing(entry)
      BY DEF UnseenInv, FollowedOK, ExpectsOK, Quiet
    <2>2. ~entry.scheduled
      BY DEF WatchInv, ScheduleOK, Runs, Underway, Quiet
    <2>3. timers = <<>> => DOMAIN timers = {}
      OBVIOUS
    <2>4. ~Coming
      BY <2>1, <2>2, <2>3 DEF Coming, Noted, GraceEnds, Quiet
    <2>. QED BY <2>1, <2>4 DEF UnseenInv, KnownOK, WatchInv, ToldOK, Quiet
  <1>3. Spec => []NothingUnseen
    BY <1>1, <1>2, UnseenStep, WatchCorrect, PTL DEF Spec
  <1>. QED BY <1>3, ScheduledCorrect, PTL DEF WatchKeepsUp

=============================================================================
