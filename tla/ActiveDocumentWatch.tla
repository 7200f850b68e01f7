------------------------ MODULE ActiveDocumentWatch ------------------------
(* The monitor of the document that is open in the main window              *)
(* (src-tauri/src/active_document_watch.rs).  It holds at most one watch     *)
(* entry.  The operating system's notifications are hints: each asks for a   *)
(* reconcile run, a thread that takes the reconcile lane, notes what to look *)
(* at, reads the disk outside the state's lock, and settles what it read     *)
(* against an entry that may have changed since.  A vanished file is         *)
(* reported only after a grace period, a move is followed when exactly one   *)
(* rename notification explains it, and the program's own saves are kept     *)
(* from coming back as changes made by others.                               *)
(*                                                                           *)
(* The main window calls the commands (start, activate, reconcile, stop,     *)
(* save) one at a time; other programs change the same directory.  All paths *)
(* are siblings of one kind, inside the workspace folder, whose authority    *)
(* the model FileAuthorization covers.                                       *)
EXTENDS Integers, Sequences, FiniteSets

CONSTANTS Paths,        \* canonical paths of sibling files of one kind
          Texts,        \* what files may hold
          Missing,      \* no file at a path
          Refusal,      \* a file that is there but could not be read
          Nobody,       \* no watch, no run, no call
          Budgets       \* how often the environment may do each thing

(* "other" pays for every watch after the first, stops, reconcile commands,  *)
(* watcher errors, refused reads and expirations.                            *)
Resources == {"foreign", "saves", "other", "polls"}

ASSUME BudgetAssumption == Budgets # {} /\ Budgets \subseteq [Resources -> Nat]
ASSUME PathsAssumption == Paths # {} /\ Texts # {}

VARIABLES disk,      \* Paths -> the file there, or Missing
          clock,     \* counts the changes of the disk: stamps and identities
          entry,     \* WatchState.current, or Nobody
          nextId,    \* WatchState.next_watch_id
          hints,     \* notifications of the current watcher not yet delivered
          threads,   \* reconcile runs that wait for the lane
          timers,    \* grace periods under way, in the order they end
          polls,     \* fallback pollers
          run,       \* who holds the lane and what it has read, or Nobody
          save,      \* the save the main thread is in, or Nobody
          told,      \* what the main window was last told of its document
          excuses,   \* what kept the main window from knowing the disk
          unseen,    \* the grace period begun since the file was last seen, or 0
          left       \* what is left of a budget

disks == <<disk, clock>>
watch == <<entry, nextId, hints>>
work == <<threads, timers, polls>>
ghosts == <<told, excuses, unseen>>
vars == <<disk, clock, watch, work, run, save, ghosts, left>>

Spend(r) == left[r] > 0 /\ left' = [left EXCEPT ![r] = @ - 1]

---------------------------------------------------------------------------
(* The shapes of the state *)

(* A version of a file: its text, when it was written, which file it is.     *)
Files == [text : Texts, stamp : Nat, identity : Nat]
Snapshots == [path : Paths, file : Files \cup {Missing}]
Readings == [path : Paths, file : Files \cup {Missing, Refusal}]
Moves == {m \in Paths \X Paths : m[1] # m[2]}

(* Notifications: one path renamed to another, or <<p, p>>: p changed.       *)
Hints == Paths \X Paths

(* AppWriteExpectation *)
Expectations == [kind : {"none"}]
           \cup [kind : {"writing"}, text : Texts, again : BOOLEAN]
           \cup [kind : {"committed"}, text : Texts, expired : BOOLEAN]
Unexpecting == [kind |-> "none"]

Entries ==
  [id : Nat, path : Paths, identity : Nat, phase : {"pending", "active"},
   activation : BOOLEAN, unhealthy : BOOLEAN, scheduled : BOOLEAN, again : BOOLEAN,
   moves : SUBSET Moves, missing : BOOLEAN, token : Nat,
   last : Snapshots \cup {Nobody}, epoch : Nat, expects : Expectations,
   degraded : BOOLEAN, health : Nat, handle : BOOLEAN]

(* A reconcile run that waits, or a grace period: the token of the deletion  *)
(* it is to confirm, or 0.                                                   *)
Threads == [id : Nat, token : Nat]

(* ReconcileContext and what was read for it.                                *)
Contexts ==
  [owner : {"thread", "start", "command"}, id : Nat, token : Nat, path : Paths,
   epoch : Nat, moves : SUBSET Moves, stage : {"captured", "gone", "resolved"},
   seen : Readings \cup {Nobody}, at : Nat]

Saves ==
  [path : Paths, expected : Files, text : Texts, forced : BOOLEAN,
   file : Files \cup {Missing}, stage : {"begun", "committed", "failed"},
   token : [id : Nat, epoch : Nat]]

(* What the main window was told, and when that was read.                    *)
Reports == [path : Paths, file : Files \cup {Missing}, at : Nat]

ASSUME NobodyAssumption ==
  /\ Missing # Refusal /\ Nobody # Missing
  /\ {Missing, Refusal} \cap Files = {}
  /\ Nobody \notin Entries \cup Contexts \cup Saves \cup Reports

(* replace_pending: a watch that has not been activated yet.                 *)
Pending(id, p) ==
  [id |-> id, path |-> p, identity |-> 0, phase |-> "pending",
   activation |-> FALSE, unhealthy |-> FALSE, scheduled |-> FALSE, again |-> FALSE,
   moves |-> {}, missing |-> FALSE, token |-> 0,
   last |-> Nobody, epoch |-> 0, expects |-> Unexpecting,
   degraded |-> FALSE, health |-> 0, handle |-> TRUE]

Watching(id) == entry # Nobody /\ entry.id = id
Writing(e) == e.expects.kind = "writing"

Init ==
  /\ \E p \in Paths, t \in Texts :
       disk = [q \in Paths |-> IF q = p THEN [text |-> t, stamp |-> 1, identity |-> 1]
                               ELSE Missing]
  /\ clock = 1
  /\ entry = Nobody /\ nextId = 1
  /\ hints = {} /\ threads = {} /\ timers = <<>> /\ polls = {}
  /\ run = Nobody /\ save = Nobody
  /\ told = Nobody /\ excuses = {} /\ unseen = 0
  /\ left \in Budgets

---------------------------------------------------------------------------
(* Steps of an entry *)

(* mark_scheduled_stale and finish_scheduled: the run that owned the         *)
(* schedule ends, and a run asked for meanwhile follows it.                  *)
FinishScheduled(e) ==
  IF e.again /\ e.phase = "active" /\ ~Writing(e)
    THEN [e EXCEPT !.again = FALSE, !.scheduled = TRUE]
    ELSE [e EXCEPT !.scheduled = FALSE]

(* Mutant: a run made stale by a save does not ask for another.              *)
StaleForgets(e) ==
  IF Writing(e) THEN [e EXCEPT !.scheduled = FALSE] ELSE FinishScheduled(e)

MarkScheduledStale(e) ==
  IF Writing(e) THEN [e EXCEPT !.expects.again = TRUE, !.scheduled = FALSE]
  ELSE FinishScheduled([e EXCEPT !.again = TRUE])

BeginMissingGrace(e) ==
  IF e.missing THEN e ELSE [e EXCEPT !.missing = TRUE, !.token = @ + 1]

CancelMissingGrace(e) ==
  IF e.missing THEN [e EXCEPT !.missing = FALSE, !.token = @ + 1] ELSE e

ClearCommittedExpectation(e) ==
  IF e.expects.kind = "committed"
    THEN [e EXCEPT !.expects = Unexpecting, !.epoch = @ + 1] ELSE e

(* Asks for a run: at once, or after the one that is scheduled.              *)
Ask(e) ==
  IF e.scheduled THEN [e EXCEPT !.again = TRUE] ELSE [e EXCEPT !.scheduled = TRUE]

Event(id) == [id |-> id, token |-> 0]
Confirmation(id, token) == [id |-> id, token |-> token]

(* A step of the entry that spawns a thread exactly when it schedules a run. *)
Becomes(e, thread) ==
  /\ entry' = e
  /\ threads' = IF e.scheduled /\ ~entry.scheduled THEN threads \cup {thread} ELSE threads

---------------------------------------------------------------------------
(* Other programs.  Nothing looks at the disk while there is no watch.       *)

ChangeDisk(d, notifications) ==
  /\ entry # Nobody
  /\ Spend("foreign")
  /\ clock' = clock + 1
  /\ disk' = d
  /\ hints' = IF entry.handle THEN hints \cup notifications ELSE hints
  /\ UNCHANGED <<entry, nextId, work, run, save, ghosts>>

Edit == \E p \in Paths, t \in Texts :
  /\ disk[p] # Missing
  /\ ChangeDisk([disk EXCEPT ![p] = [@ EXCEPT !.text = t, !.stamp = clock + 1]], {<<p, p>>})

(* Creates a file, or replaces the one there by another.                     *)
Replace == \E p \in Paths, t \in Texts :
  ChangeDisk([disk EXCEPT ![p] = [text |-> t, stamp |-> clock + 1, identity |-> clock + 1]],
             {<<p, p>>})

Delete == \E p \in Paths :
  /\ disk[p] # Missing
  /\ ChangeDisk([disk EXCEPT ![p] = Missing], {<<p, p>>})

(* The system may report a move as one rename or as two separate changes.    *)
Move == \E m \in Moves, tracked \in BOOLEAN :
  /\ disk[m[1]] # Missing
  /\ ChangeDisk([disk EXCEPT ![m[1]] = Missing, ![m[2]] = disk[m[1]]],
                IF tracked THEN {m} ELSE {<<m[1], m[1]>>, <<m[2], m[2]>>})

---------------------------------------------------------------------------
(* Notifications *)

Concerns(hint, p) == p \in {hint[1], hint[2]}

(* note_native_hint *)
NoteNativeHint(e, hint) ==
  LET heard == [e EXCEPT !.moves = @ \cup ({hint} \cap Moves),
                         !.health = IF e.degraded THEN @ + 1 ELSE @,
                         !.degraded = FALSE]
  IN  IF ~Concerns(hint, e.path) THEN e
      ELSE IF e.phase = "pending" THEN [heard EXCEPT !.activation = TRUE]
      ELSE IF Writing(e) THEN [heard EXCEPT !.expects.again = TRUE]
      ELSE Ask(heard)

(* It is about the path to which the document moves, and comes before the    *)
(* run that follows the move has settled: the entry does not know the path.  *)
Strays(hint) ==
  run # Nobody /\ ~Concerns(hint, entry.path) /\ \E m \in run.moves : Concerns(hint, m[2])

Hear == \E hint \in hints :
  /\ hints' = hints \ {hint}
  /\ Becomes(NoteNativeHint(entry, hint), Event(entry.id))
  /\ excuses' = IF Strays(hint) THEN excuses \cup {"strayed"} ELSE excuses
  /\ UNCHANGED <<disks, nextId, timers, polls, run, save, told, unseen, left>>

(* note_native_error: the watcher lost notifications.                        *)
NativeError ==
  /\ entry # Nobody /\ entry.handle
  /\ Spend("other")
  /\ hints' = {}
  /\ IF entry.phase = "pending"
       THEN /\ entry' = [entry EXCEPT !.unhealthy = TRUE, !.activation = TRUE]
            /\ UNCHANGED <<threads, polls>>
       ELSE /\ Becomes(Ask([entry EXCEPT !.degraded = TRUE,
                                         !.health = IF entry.degraded THEN @ ELSE @ + 1]),
                       Event(entry.id))
            /\ polls' = IF entry.degraded THEN polls
                        ELSE polls \cup {[id |-> entry.id, health |-> entry.health + 1,
                                          attempts |-> left["polls"]]}
  /\ UNCHANGED <<disks, nextId, timers, run, save, ghosts>>

(* One round of spawn_fallback_polling.                                      *)
Concerned(poll) ==
  Watching(poll.id) /\ entry.degraded /\ entry.health = poll.health

(* Mutant: the poller does not stop asking.                                  *)
PollsForever == \E poll \in polls :
  /\ Concerned(poll)
  /\ polls' = (polls \ {poll}) \cup {[poll EXCEPT !.attempts = @ - 1]}
  /\ Becomes(Ask(entry), Event(entry.id))
  /\ UNCHANGED <<disks, nextId, hints, timers, run, save, ghosts, left>>

PollAsks == \E poll \in polls :
  /\ Concerned(poll) /\ poll.attempts > 0
  /\ polls' = (polls \ {poll}) \cup {[poll EXCEPT !.attempts = @ - 1]}
  /\ Becomes(Ask(entry), Event(entry.id))
  /\ UNCHANGED <<disks, nextId, hints, timers, run, save, ghosts, left>>

PollEnds == \E poll \in polls :
  /\ ~Concerned(poll)
  /\ polls' = polls \ {poll}
  /\ UNCHANGED <<disks, watch, threads, timers, run, save, ghosts, left>>

(* All attempts are spent: monitoring stops for good.                        *)
PollGivesUp == \E poll \in polls :
  /\ Concerned(poll) /\ poll.attempts = 0
  /\ polls' = polls \ {poll}
  /\ entry' = [entry EXCEPT !.handle = FALSE]
  /\ hints' = {}
  /\ UNCHANGED <<disks, nextId, threads, timers, run, save, ghosts, left>>

(* The end of a grace period: schedule_missing_confirmation.                 *)
TimerFires ==
  /\ timers # <<>>
  /\ timers' = Tail(timers)
  /\ LET timer == Head(timers)
     IN  IF Watching(timer.id) /\ entry.missing /\ entry.token = timer.token
           THEN Becomes(Ask(entry), timer)
           ELSE UNCHANGED <<entry, threads>>
  /\ UNCHANGED <<disks, nextId, hints, polls, run, save, ghosts, left>>

---------------------------------------------------------------------------
(* The reconcile lane.  Its holder captures what to look at, reads the path, *)
(* looks at the rename candidates when the path is gone, and settles.        *)

Run(owner, e, token) ==
  [owner |-> owner, id |-> e.id, token |-> token, path |-> e.path, epoch |-> e.epoch,
   moves |-> e.moves, stage |-> "captured", seen |-> Nobody, at |-> 0]

(* capture_scheduled_context: a confirmation whose grace period was          *)
(* cancelled, or a run that meets a save, gives up; others take the moves.   *)
Cancelled(thread) ==
  thread.token # 0 /\ ~(entry.missing /\ entry.token = thread.token)

Capture == \E thread \in threads :
  /\ run = Nobody
  /\ threads' = threads \ {thread}
  /\ IF ~Watching(thread.id) THEN UNCHANGED <<entry, run>>
     ELSE IF Cancelled(thread)
       THEN /\ entry' = [entry EXCEPT !.scheduled = FALSE]
            /\ UNCHANGED run
     ELSE IF Writing(entry)
       THEN /\ entry' = [entry EXCEPT !.scheduled = FALSE, !.expects.again = TRUE]
            /\ UNCHANGED run
     ELSE /\ run' = Run("thread", entry, thread.token)
          /\ entry' = [entry EXCEPT !.moves = {}]
  /\ excuses' = IF Watching(thread.id) /\ Cancelled(thread)
                  THEN excuses \cup {"abandoned"} ELSE excuses
  /\ UNCHANGED <<disks, nextId, hints, timers, polls, save, told, unseen, left>>

Sees(stage, snapshot) ==
  /\ run' = [run EXCEPT !.stage = stage, !.seen = snapshot, !.at = clock]
  /\ UNCHANGED <<disks, watch, work, save, ghosts>>

(* read_authorized_disk *)
Look ==
  /\ run # Nobody /\ run.stage = "captured"
  /\ Sees(IF disk[run.path] = Missing /\ run.owner # "start" THEN "gone" ELSE "resolved",
          [path |-> run.path, file |-> disk[run.path]])
  /\ UNCHANGED left

(* resolve_disk_state once the path is gone: the one candidate that exists.  *)
Candidates == {q \in Paths : <<run.path, q>> \in run.moves /\ disk[q] # Missing}

Follow ==
  /\ run # Nobody /\ run.stage = "gone"
  /\ IF Cardinality(Candidates) = 1
       THEN \E q \in Candidates : Sees("resolved", [path |-> q, file |-> disk[q]])
       ELSE Sees("resolved", run.seen)
  /\ UNCHANGED left

(* The file is there but cannot be opened or read.                           *)
Refuse ==
  /\ run # Nobody /\ run.stage # "resolved"
  /\ Spend("other")
  /\ Sees("resolved", [path |-> run.path, file |-> Refusal])

---------------------------------------------------------------------------
(* Settling what the lane's holder read *)

(* Mutant: only a save still under way makes a read stale.                   *)
StaleWhileWriting(e) == Writing(e)

Stale(e) == e.epoch # run.epoch \/ Writing(e)

Moved == run.seen.path # run.path

(* finalize_authorization_transition: a move is followed to the same file.   *)
Unrecognised(e) ==
  /\ run.seen.file \notin {Missing, Refusal} /\ Moved
  /\ e.identity = 0 \/ e.identity # run.seen.file.identity

Transition(e) == [e EXCEPT !.path = run.seen.path]

(* committed_write_matches *)
IsOwnSave(e) ==
  /\ e.expects.kind = "committed" /\ ~e.expects.expired
  /\ run.seen.file # Missing
  /\ run.seen.path = e.path
  /\ run.seen.file.text = e.expects.text

Settled(e) == [ClearCommittedExpectation(e) EXCEPT !.last = run.seen]

Tells == told' = [path |-> run.seen.path, file |-> run.seen.file, at |-> run.at]

(* run_scheduled_reconcile, under the lock after the read: what becomes of   *)
(* the entry, and whether the main window is told.                           *)
EndRun(e) ==
  /\ run' = Nobody
  /\ entry' = e
  /\ threads' = IF e.scheduled THEN threads \cup {Event(e.id)} ELSE threads
  /\ UNCHANGED <<disks, nextId, hints, polls, save, left>>

SettleStale ==
  /\ IF Watching(run.id)
       THEN Stale(entry) /\ EndRun(MarkScheduledStale(entry))
       ELSE run' = Nobody /\ UNCHANGED <<disks, watch, threads, polls, save, left>>
  /\ UNCHANGED <<timers, ghosts>>

SettleRefused ==
  /\ Watching(run.id) /\ ~Stale(entry)
  /\ IF run.seen.file = Refusal
       THEN EndRun(FinishScheduled(entry)) /\ UNCHANGED unseen
       ELSE /\ Unrecognised(entry)
            /\ EndRun(FinishScheduled(CancelMissingGrace(entry)))
            /\ unseen' = 0
  /\ excuses' = excuses \cup {"refused"}
  /\ UNCHANGED <<timers, told>>

SettleGrace ==
  /\ Watching(run.id) /\ ~Stale(entry) /\ run.seen.file # Refusal
  /\ run.seen.file = Missing /\ run.token = 0
  /\ LET e == BeginMissingGrace(entry)
     IN  /\ timers' = Append(timers, Confirmation(e.id, e.token))
         /\ EndRun(FinishScheduled(e))
         /\ unseen' = IF unseen = 0 THEN e.token ELSE unseen
  /\ UNCHANGED <<told, excuses>>

SettleSnapshot ==
  /\ Watching(run.id) /\ ~Stale(entry) /\ run.seen.file # Refusal
  /\ run.seen.file = Missing => run.token # 0
  /\ ~Unrecognised(entry)
  /\ LET seen == IF run.seen.file = Missing THEN entry ELSE CancelMissingGrace(entry)
         e == Transition(seen)
         silent == IsOwnSave(e) \/ e.last = run.seen
         returned == e.last = run.seen /\ told.file # run.seen.file /\ ~IsOwnSave(e)
     IN  /\ EndRun(FinishScheduled(Settled(e)))
         /\ IF silent THEN UNCHANGED told ELSE Tells
         /\ excuses' = (IF returned THEN excuses \cup {"returned"}
                        ELSE excuses \cap ({"strayed"} \cup
                                           IF silent \/ save # Nobody THEN {"absorbed"} ELSE {}))
                       \cup IF silent /\ Moved THEN {"absorbed"} ELSE {}
  /\ unseen' = IF run.seen.file = Missing THEN unseen ELSE 0
  /\ UNCHANGED timers

RunScheduledReconcile ==
  /\ run # Nobody /\ run.owner = "thread" /\ run.stage = "resolved"
  /\ \/ SettleStale
     \/ SettleRefused
     \/ SettleGrace
     \/ SettleSnapshot

---------------------------------------------------------------------------
(* Commands of the main window, on the main thread                           *)

MainIdle == save = Nobody /\ IF run = Nobody THEN TRUE ELSE run.owner = "thread"

(* start_active_document_watch: replaces the watch of the previous document  *)
(* and keeps the lane until the file has been read.                          *)
StartWatch == \E p \in Paths :
  /\ MainIdle /\ run = Nobody
  /\ disk[p] # Missing
  /\ IF nextId = 1 THEN UNCHANGED left ELSE Spend("other")
  /\ entry' = Pending(nextId, p) /\ nextId' = nextId + 1
  /\ hints' = {}
  /\ run' = Run("start", entry', 0)
  /\ told' = Nobody /\ excuses' = {} /\ unseen' = 0
  /\ UNCHANGED <<disks, work, save>>

(* finalize_registration; a file that cannot be read is not watched.         *)
FinishRegistration ==
  /\ run # Nobody /\ run.owner = "start" /\ run.stage = "resolved"
  /\ run' = Nobody
  /\ IF run.seen.file = Refusal
       THEN entry' = Nobody /\ hints' = {} /\ UNCHANGED told
       ELSE /\ entry' = [entry EXCEPT
                 !.last = run.seen,
                 !.identity = IF run.seen.file = Missing THEN 0 ELSE run.seen.file.identity]
            /\ Tells
            /\ UNCHANGED hints
  /\ UNCHANGED <<disks, nextId, work, save, excuses, unseen, left>>

(* activate_active_document_watch, once the registration has been applied.   *)
Activate ==
  /\ MainIdle
  /\ entry # Nobody /\ entry.phase = "pending" /\ entry.last # Nobody
  /\ Becomes([entry EXCEPT !.phase = "active",
                           !.scheduled = entry.activation, !.activation = FALSE,
                           !.degraded = entry.unhealthy, !.unhealthy = FALSE,
                           !.health = IF entry.unhealthy THEN @ + 1 ELSE @],
             Event(entry.id))
  /\ polls' = IF entry.unhealthy
                THEN polls \cup {[id |-> entry.id, health |-> entry.health + 1,
                                  attempts |-> left["polls"]]}
                ELSE polls
  /\ UNCHANGED <<disks, nextId, hints, timers, run, save, ghosts, left>>

(* reconcile_active_document_watch: the user settles a conflict.             *)
StartReconcile ==
  /\ MainIdle /\ run = Nobody
  /\ entry # Nobody /\ entry.phase = "active"
  /\ Spend("other")
  /\ run' = Run("command", entry, 0)
  /\ UNCHANGED <<disks, watch, work, save, ghosts>>

FinishReconcile ==
  /\ run # Nobody /\ run.owner = "command" /\ run.stage = "resolved"
  /\ run' = Nobody
  /\ IF Stale(entry) \/ run.seen.file = Refusal \/ Unrecognised(entry)
       THEN UNCHANGED <<entry, ghosts>>
       ELSE /\ entry' = Settled(CancelMissingGrace(Transition(entry)))
            /\ Tells
            /\ excuses' = excuses \cap {"strayed"} /\ unseen' = 0
  /\ UNCHANGED <<disks, nextId, hints, work, save, left>>

(* stop_active_document_watch and stop_all.                                  *)
Stop ==
  /\ MainIdle /\ run = Nobody
  /\ entry # Nobody
  /\ Spend("other")
  /\ entry' = Nobody /\ hints' = {}
  /\ told' = Nobody /\ excuses' = {} /\ unseen' = 0
  /\ UNCHANGED <<disks, nextId, work, run, save>>

---------------------------------------------------------------------------
(* Saves.  write_file announces the bytes to the watch, replaces the file if *)
(* it is exactly the version the main window knows (a forced save: whatever  *)
(* version it is), and reports the outcome to the watch.                     *)

NoToken == [id |-> 0, epoch |-> 0]

(* begin_app_write *)
BeginAppWrite == \E t \in Texts, forced \in BOOLEAN :
  /\ MainIdle
  /\ told # Nobody /\ told.file # Missing
  /\ Spend("saves")
  /\ LET announced == entry # Nobody /\ entry.phase = "active" /\ entry.path = told.path
     IN  /\ entry' = IF announced
                       THEN [entry EXCEPT !.epoch = @ + 1,
                              !.expects = [kind |-> "writing", text |-> t, again |-> FALSE]]
                       ELSE entry
         /\ save' = [path |-> told.path, expected |-> told.file, text |-> t,
                     forced |-> forced, file |-> Missing, stage |-> "begun",
                     token |-> IF announced THEN [id |-> entry.id, epoch |-> entry.epoch + 1]
                               ELSE NoToken]
  /\ UNCHANGED <<disks, nextId, hints, work, run, ghosts>>

(* save_expected and its durable replacement (model DurableWrite).           *)
CommitSave ==
  /\ save # Nobody /\ save.stage = "begun"
  /\ disk[save.path] # Missing
  /\ save.forced \/ disk[save.path] = save.expected
  /\ clock' = clock + 1
  /\ LET file == [text |-> save.text, stamp |-> clock + 1, identity |-> clock + 1]
     IN  /\ disk' = [disk EXCEPT ![save.path] = file]
         /\ save' = [save EXCEPT !.stage = "committed", !.file = file]
         /\ told' = IF told.path = save.path
                      THEN [path |-> save.path, file |-> file, at |-> clock + 1] ELSE told
  /\ hints' = IF entry # Nobody /\ entry.handle THEN hints \cup {<<save.path, save.path>>} ELSE hints
  /\ UNCHANGED <<entry, nextId, work, run, excuses, unseen, left>>

(* A conflict, or a failure before anything was replaced.                    *)
FailSave ==
  /\ save # Nobody /\ save.stage = "begun"
  /\ save' = [save EXCEPT !.stage = "failed"]
  /\ UNCHANGED <<disks, watch, work, run, ghosts, left>>

(* settle_app_write_and_schedule *)
SettleAppWrite(e) ==
  LET committed == save.stage = "committed"
  IN  [e EXCEPT !.epoch = @ + 1, !.again = FALSE,
         !.scheduled = @ \/ e.expects.again \/ e.again,
         !.identity = IF committed THEN save.file.identity ELSE @,
         !.expects = IF committed
                       THEN [kind |-> "committed", text |-> @.text, expired |-> FALSE]
                       ELSE Unexpecting]

SettleSave ==
  /\ save # Nobody /\ save.stage # "begun"
  /\ save' = Nobody
  /\ IF Watching(save.token.id) /\ entry.epoch = save.token.epoch
       THEN Becomes(SettleAppWrite(entry), Event(entry.id))
       ELSE UNCHANGED <<entry, threads>>
  /\ UNCHANGED <<disks, nextId, hints, timers, polls, run, ghosts, left>>

(* SELF_WRITE_EXPECTATION_TTL passes.                                        *)
ExpectationExpires ==
  /\ entry # Nobody /\ entry.expects.kind = "committed" /\ ~entry.expects.expired
  /\ Spend("other")
  /\ entry' = [entry EXCEPT !.expects.expired = TRUE]
  /\ UNCHANGED <<disks, nextId, hints, work, run, save, ghosts>>

---------------------------------------------------------------------------

Environment == Edit \/ Replace \/ Delete \/ Move \/ NativeError \/ Refuse \/ ExpectationExpires
Commands == StartWatch \/ StartReconcile \/ Stop \/ BeginAppWrite
Service == \/ Hear \/ PollAsks \/ PollEnds \/ PollGivesUp \/ TimerFires
           \/ Capture \/ Look \/ Follow \/ RunScheduledReconcile
           \/ FinishRegistration \/ Activate \/ FinishReconcile
           \/ CommitSave \/ FailSave \/ SettleSave

Next == Environment \/ Commands \/ Service

Spec == Init /\ [][Next]_vars

---------------------------------------------------------------------------

(* The ways in which the code is known to lose a change:                     *)
(*   "refused"    a read failed, or a move was not recognised, and nothing   *)
(*                retries it;                                                *)
(*   "strayed"    a notification about the path to which the document was    *)
(*                moving came before the move had been followed;             *)
(*   "abandoned"  a run that came to confirm a deletion found it refuted and *)
(*                gave up together with what had been asked of it meanwhile; *)
(*   "returned"   the version from before a save came back, and is taken for *)
(*                the version reported last;                                 *)
(*   "absorbed"   the file was moved right after a save: the run follows the *)
(*                move, finds the saved text there and takes it for the save *)
(*                itself, so the main window keeps the old path.             *)
Excuses == {"refused", "strayed", "abandoned", "returned", "absorbed"}

TypeOK ==
  /\ disk \in [Paths -> Files \cup {Missing}]
  /\ clock \in Nat
  /\ entry \in Entries \cup {Nobody}
  /\ nextId \in Nat \ {0}
  /\ hints \subseteq Hints
  /\ threads \subseteq Threads
  /\ timers \in Seq(Threads)
  /\ polls \subseteq [id : Nat, health : Nat, attempts : Nat]
  /\ run \in Contexts \cup {Nobody}
  /\ save \in Saves \cup {Nobody}
  /\ told \in Reports \cup {Nobody}
  /\ excuses \subseteq Excuses
  /\ unseen \in Nat
  /\ left \in [Resources -> Nat]

(* Every run that an entry counts as scheduled is really under way, and only *)
(* one is: otherwise the entry would wait for it forever, or two would race. *)
Runs(id) == {thread \in threads : thread.id = id}
Underway(id) == run # Nobody /\ run.owner = "thread" /\ run.id = id

ScheduledHasRun ==
  entry # Nobody =>
    /\ entry.scheduled <=> (Runs(entry.id) # {} \/ Underway(entry.id))
    /\ Cardinality(Runs(entry.id)) + (IF Underway(entry.id) THEN 1 ELSE 0) <= 1

(* Nothing is left to do for the watch.                                      *)
Quiet ==
  /\ entry # Nobody /\ entry.phase = "active" /\ entry.handle
  /\ run = Nobody /\ save = Nobody
  /\ hints = {} /\ threads = {} /\ timers = <<>>

(* Once notifications, runs and grace periods are over, the main window has  *)
(* been told where its document is, and the text that is there or that the   *)
(* file is gone, whatever order other programs, saves and runs came in.      *)
NothingUnseen ==
  Quiet /\ excuses = {} =>
    /\ told.path = entry.path
    /\ IF disk[entry.path] = Missing THEN told.file = Missing
       ELSE told.file # Missing /\ told.file.text = disk[entry.path].text

(* A deletion is announced only by the end of a grace period during which no *)
(* run and no command saw the file.                                          *)
MissingIsConfirmed ==
  [][told' # told /\ told' # Nobody /\ run # Nobody /\ run.owner = "thread" =>
       (told'.file = Missing => unseen # 0 /\ run.token = unseen)]_vars

(* What the main window is told of a path is never older than what it was    *)
(* told of it before: no read from before a save is announced after it.  (A  *)
(* window that does not know the path saves where no watch expects it.)      *)
ToldNeverGoesBack ==
  [][told # Nobody /\ told' # Nobody /\ told'.path = told.path /\ "absorbed" \notin excuses
       => told'.at >= told.at]_vars

(* The entry never waits for a run that does not come, and once all is quiet *)
(* the window has been told what is on disk (schedule, run_scheduled_reconcile). *)
WatchKeepsUp == ScheduledHasRun /\ NothingUnseen

(* A deletion is told after the grace period only, and no read from before   *)
(* what was told is told after it (settle_missing_grace, settle_reconcile).  *)
EventsAreSound == MissingIsConfirmed /\ ToldNeverGoesBack

=============================================================================
