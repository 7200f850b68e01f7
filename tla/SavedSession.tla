---------------------------- MODULE SavedSession ----------------------------
(***************************************************************************)
(* The workspace that is open when the program ends and opens again when   *)
(* it starts: the record and its store (workspace_session.rs), the command *)
(* that writes it and the one that restores it (commands.rs,               *)
(* open_intent_commands.rs), and the queue, the gate and the close of the  *)
(* main window (useDocumentSession.ts, useProgramCloseGuard.ts).  Both     *)
(* commands are synchronous: one runs at a time, and the program may be    *)
(* killed between its steps.                                               *)
(***************************************************************************)
EXTENDS Naturals, Sequences, FiniteSets

CONSTANTS Roots,     \* folders
          Names,     \* files, by the name they have in every folder
          None,
          MaxShows,  \* bound on what the window opens and the closes asked for
          MaxRuns,   \* bound on starts
          MaxTrouble \* bound on failures, kills and changes by other programs

Records == [root : Roots, active : Names \cup {None}]
Broken == [root |-> None, active |-> None]

\* None is no folder, no record and no revision.
ASSUME SessionConstants ==
  /\ None \notin Roots /\ None \notin Nat
  /\ None \notin [root : Roots \cup {None}, active : Names \cup {None}]

VARIABLES disk,     \* workspace-session-v1.json: a record, one that cannot be read, or none
          tree,     \* the folders that exist, and the files in them
          job,      \* the command that runs, or what it still has to write
          phase,    \* of the program: down, up, closed in good order
          shown,    \* the workspace and active file of the window
          settled,  \* the restoration is over
          queue,    \* records to persist, the first one sent
          rev,      \* the newest revision put in the queue
          closing,  \* the revision a close waits for, 0 when for nothing
          due,      \* what may be on disk after the close that waits for it (history)
          used      \* shows and closes, runs and trouble so far

vars == <<disk, tree, job, phase, shown, settled, queue, rev, closing, due, used>>
window == <<phase, shown, settled, queue, rev, closing, due>>

Idle == [op |-> "none", record |-> None, staged |-> FALSE]
Save(op, record) == [op |-> op, record |-> record, staged |-> FALSE]
Exists(record) == record.root \in tree.roots
                  /\ (record.active = None \/ <<record.root, record.active>> \in tree.files)

Init ==
  /\ tree = [roots |-> Roots, files |-> Roots \X Names]
  /\ disk \in Records \cup {None, Broken}
  /\ job = Idle /\ phase = "down" /\ shown = None /\ settled = FALSE
  /\ queue = <<>> /\ rev = 0 /\ closing = None /\ due = {}
  /\ used = [shows |-> 0, runs |-> 0, trouble |-> 0]

Trouble == /\ used.trouble < MaxTrouble
           /\ used' = [used EXCEPT !.trouble = @ + 1]

(***************************************************************************)
(* The window.  What it shows is queued to be persisted, but not before    *)
(* the restoration is settled.                                             *)
(***************************************************************************)
Enqueued(record) ==
  /\ rev' = rev + 1
  /\ queue' = Append(queue, [rev |-> rev + 1, record |-> record, done |-> "sent"])

Effect(record, over) ==
  IF over /\ record # None THEN Enqueued(record) ELSE UNCHANGED <<queue, rev>>

Shows ==
  /\ phase = "up" /\ used.shows < MaxShows
  /\ \E r \in Records : /\ Exists(r) /\ r # shown
                        /\ shown' = r
                        /\ Effect(r, settled)
                        /\ due' = IF due = {} THEN due ELSE due \cup {r}
  /\ used' = [used EXCEPT !.shows = @ + 1]
  /\ UNCHANGED <<disk, tree, job, phase, settled, closing>>

Starts ==
  /\ phase # "up" /\ used.runs < MaxRuns
  /\ phase' = "up" /\ shown' = None /\ settled' = FALSE
  /\ queue' = <<>> /\ rev' = 0 /\ closing' = None /\ due' = {}
  /\ used' = [used EXCEPT !.runs = @ + 1]
  /\ UNCHANGED <<disk, tree, job>>

\* The restoration is cancelled, or cannot be asked for.
SettlesUnrestored ==
  /\ phase = "up" /\ ~settled /\ job.op # "restore"
  /\ settled' = TRUE
  /\ Effect(shown, TRUE)
  /\ UNCHANGED <<disk, tree, job, phase, shown, closing, due, used>>

(***************************************************************************)
(* The restoration: a record that cannot be read, or whose folder is gone, *)
(* is removed; one whose active file is gone is written without it.        *)
(***************************************************************************)
Settles(record) ==
  /\ settled' = TRUE
  /\ shown' = IF record = None THEN shown ELSE record
  /\ Effect(shown', TRUE)
  /\ due' = IF due = {} THEN due ELSE due \cup {shown'}

Load ==
  /\ phase = "up" /\ ~settled /\ job = Idle
  /\ disk' = IF disk = Broken THEN None ELSE disk
  /\ job' = Save("restore", disk')
  /\ UNCHANGED <<tree, window, used>>

RestoreNothing ==
  /\ job.op = "restore" /\ ~job.staged
  /\ \/ job.record = None /\ UNCHANGED disk
     \/ job.record # None /\ job.record.root \notin tree.roots /\ disk' = None
  /\ job' = Idle
  /\ Settles(None)
  /\ UNCHANGED <<tree, phase, closing, used>>

\* A mutant: whatever the failure, the record is removed.
RestoreFailsForGood ==
  /\ job.op = "restore" /\ job.record # None /\ Trouble
  /\ disk' = None /\ job' = Idle
  /\ Settles(None)
  /\ UNCHANGED <<tree, phase, closing>>

\* The folder cannot be opened for now; its record is left alone.
RestoreFails ==
  /\ job.op = "restore" /\ job.record # None /\ Trouble
  /\ job' = Idle
  /\ Settles(None)
  /\ UNCHANGED <<disk, tree, phase, closing>>

Restore ==
  /\ job.op = "restore" /\ job.record # None /\ Exists(job.record)
  /\ job' = Idle
  /\ Settles(job.record)
  /\ UNCHANGED <<disk, tree, phase, closing, used>>

RestoreWithoutFile ==
  /\ job.op = "restore" /\ job.record # None /\ ~Exists(job.record)
  /\ job.record.root \in tree.roots
  /\ job' = Save("trim", [job.record EXCEPT !.active = None])
  /\ UNCHANGED <<disk, tree, window, used>>

(***************************************************************************)
(* The queue: the first record is sent when the one before is answered,    *)
(* and persisted if it is still the newest and names what exists.          *)
(***************************************************************************)
Sent == phase = "up" /\ queue # <<>> /\ Head(queue).done = "sent"
Answered(how) == queue' = [queue EXCEPT ![1].done = how]

\* A close does not learn that a record which took its record's turn was not saved.
Excuses == due' = IF closing = 0 THEN {} ELSE due

Persist ==
  /\ Sent /\ settled /\ job = Idle /\ Head(queue).rev = rev
  /\ IF Exists(Head(queue).record)
     THEN job' = Save("persist", Head(queue).record) /\ UNCHANGED <<queue, due>>
     ELSE Answered("error") /\ Excuses /\ UNCHANGED job
  /\ UNCHANGED <<disk, tree, phase, shown, settled, rev, closing, used>>

\* A record that is not the newest is not sent, and the window goes on at once.
Skip ==
  /\ Sent /\ (Head(queue).rev = rev => ~settled)
  /\ job.op # "persist"
  /\ queue' = Tail(queue)
  /\ closing' = IF closing = Head(queue).rev THEN 0 ELSE closing
  /\ UNCHANGED <<disk, tree, job, phase, shown, settled, rev, due, used>>

\* persist_locked: a complete image under another name, then one replacement.
Stage ==
  /\ job.op \in {"persist", "trim"} /\ ~job.staged
  /\ job' = [job EXCEPT !.staged = TRUE]
  /\ UNCHANGED <<disk, tree, window, used>>

Finished(how) ==
  IF job.op = "persist"
  THEN /\ Answered(how) /\ UNCHANGED <<rev, settled, shown>>
       /\ IF how = "ok" THEN UNCHANGED due ELSE Excuses
  ELSE Settles(job.record)

Replace ==
  /\ job.staged
  /\ disk' = job.record
  /\ job' = Idle
  /\ Finished("ok")
  /\ UNCHANGED <<tree, phase, closing, used>>

\* The store is locked by another process, or the image cannot be staged or take its
\* place; the staged image is removed.
SaveFails ==
  /\ job.op \in {"persist", "trim"} /\ Trouble
  /\ job' = Idle
  /\ Finished("error")
  /\ UNCHANGED <<disk, tree, phase, closing>>

\* The answer reaches the window; a close that waited for it goes on, or is given up.
Hears ==
  /\ phase = "up" /\ queue # <<>> /\ Head(queue).done # "sent"
  /\ queue' = Tail(queue)
  /\ closing' = IF closing # Head(queue).rev THEN closing
                ELSE IF Head(queue).done = "ok" THEN 0 ELSE None
  /\ due' = IF closing' = None THEN {} ELSE due
  /\ UNCHANGED <<disk, tree, job, phase, shown, settled, rev, used>>

(***************************************************************************)
(* The close: the session is persisted first, and a failure keeps the      *)
(* window open.                                                            *)
(***************************************************************************)
\* A mutant: the close does not wait.
AwaitNothing(revision) == 0
Await(revision) == revision

CloseRequested ==
  /\ phase = "up" /\ closing = None /\ used.shows < MaxShows
  /\ used' = [used EXCEPT !.shows = @ + 1]
  /\ IF settled /\ shown # None
     THEN Enqueued(shown) /\ closing' = Await(rev + 1) /\ due' = {shown}
     ELSE closing' = 0 /\ UNCHANGED <<queue, rev, due>>
  /\ UNCHANGED <<disk, tree, job, phase, shown, settled>>

\* What was sent before runs before the window is destroyed; so does what waits behind
\* records that are skipped, as the pop-outs are closed in between.
Destroyed ==
  /\ closing = 0 /\ phase = "up" /\ job = Idle
  /\ queue # <<>> => Head(queue).done # "sent"
  /\ phase' = "closed"
  /\ UNCHANGED <<disk, tree, job, shown, settled, queue, rev, closing, due, used>>

Killed ==
  /\ phase = "up" /\ Trouble
  /\ phase' = "down" /\ job' = Idle
  /\ UNCHANGED <<disk, tree, shown, settled, queue, rev, closing, due>>

\* Other programs remove a folder or a file, or put it back.
Foreign ==
  /\ Trouble
  /\ \/ \E r \in Roots : tree' = [tree EXCEPT !.roots = IF r \in @ THEN @ \ {r} ELSE @ \cup {r}]
     \/ \E f \in Roots \X Names :
          tree' = [tree EXCEPT !.files = IF f \in @ THEN @ \ {f} ELSE @ \cup {f}]
  /\ UNCHANGED <<disk, job, window>>

Next == \/ Shows \/ Starts \/ SettlesUnrestored
        \/ Load \/ RestoreNothing \/ RestoreFails \/ Restore \/ RestoreWithoutFile
        \/ Persist \/ Skip \/ Stage \/ Replace \/ SaveFails \/ Hears
        \/ CloseRequested \/ Destroyed \/ Killed \/ Foreign

Spec == Init /\ [][Next]_vars

-----------------------------------------------------------------------------
\* Every variable has its type, and a command that saves has a record to save.
TypeOK ==
  /\ disk \in Records \cup {None, Broken}
  /\ shown \in Records \cup {None}
  /\ tree.roots \subseteq Roots /\ tree.files \subseteq Roots \X Names
  /\ job.op \in {"persist", "trim"} => job.record \in Records
  /\ phase \in {"down", "up", "closed"} /\ settled \in BOOLEAN
  /\ \A i \in DOMAIN queue : queue[i].record \in Records /\ queue[i].rev \in 1 .. rev

\* A program that closed in good order left on disk the session it showed when the
\* close was asked for, or a later one (flushWorkspaceSession, the revision queue).
CloseKeepsSession ==
  (phase = "closed" /\ due # {}) => disk \in due

\* The saved session is not replaced by what a window shows before the restoration is
\* settled (workspaceSessionRestoreSettledRef): only a record that is not valid goes.
UnsettledKeepsSession ==
  [][(phase = "up" /\ ~settled /\ disk' # disk) =>
        \/ disk = Broken
        \/ disk' = None /\ disk.root \notin tree.roots
        \/ disk' = [disk EXCEPT !.active = None]]_vars
=============================================================================
