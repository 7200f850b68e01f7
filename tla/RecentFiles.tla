---------------------------- MODULE RecentFiles ----------------------------
(* The list of recent files on disk, the receipts that an open is committed    *)
(* with, and the outcomes a window may ask for afterwards (recent_files.rs),   *)
(* their commands and the menu they feed (commands.rs), and the window that    *)
(* opens a document (documentSession.ts).  Every command holds the runtime     *)
(* lock and the lock on the store from its first to its last access.           *)
EXTENDS Naturals, FiniteSets, Sequences, SequencesExt

CONSTANTS
  Files,        \* supported files
  Windows,      \* labels of windows
  MaxRecent,    \* MAX_RECENT_FILES
  MaxPending,   \* MAX_PENDING_RECEIPTS
  MaxTerminal,  \* MAX_TERMINAL_OUTCOMES
  Checks,       \* OPEN_COMMIT_STATUS_CHECK_LIMIT
  MaxOps,       \* bound: receipts issued
  MaxFaults     \* bound: failures of the file system, the grant, the menu, the transport

RecentConstants ==
  /\ {MaxRecent, MaxPending, MaxTerminal, Checks} \subseteq Nat \ {0}
  /\ {MaxOps, MaxFaults} \subseteq Nat

VARIABLES
  disk,      \* the entries of the stored list, first the most recent
  present,   \* files that are there
  pending,   \* receipts that await their commit, first the oldest
  outcomes,  \* outcomes of the commits, first the oldest
  serial,    \* receipts and identifiers given out
  menu,      \* the entries the native menu shows
  win,       \* what each window is at
  applied,   \* history: the opens whose grant has been applied
  unsure,    \* history: the program has said that list or menu may be wrong
  faults

vars == <<disk, present, pending, outcomes, serial, menu, win, applied, unsure, faults>>

Entry(id, file) == [id |-> id, file |-> file]
At(phase, op, checks) == [phase |-> phase, op |-> op, checks |-> checks]
Fail(n) == faults + n <= MaxFaults /\ faults' = faults + n

(***************************************************************************)
(* The store                                                               *)
(***************************************************************************)
(* What is read: entries that are not supported files, or repeat an earlier one, *)
(* go, and so do those above the limit.  A changed list is written back.          *)
Repaired(entries) ==
  FoldLeft(LAMBDA kept, e :
             IF \/ Len(kept) = MaxRecent
                \/ e.file \notin present
                \/ \E k \in Range(kept) : k.id = e.id \/ k.file = e.file
             THEN kept ELSE Append(kept, e),
           <<>>, entries)

Promoted(entries, file, id) ==
  LET known == SelectSeq(entries, LAMBDA e : e.file = file)
      first == IF known = <<>> THEN <<Entry(id, file)>> ELSE known
      all == first \o SelectSeq(entries, LAMBDA e : e.file # file)
  IN  SubSeq(all, 1, IF Len(all) < MaxRecent THEN Len(all) ELSE MaxRecent)

(* Nothing else is ever written. *)
Valid(entries) ==
  /\ Len(entries) <= MaxRecent
  /\ \A i, j \in DOMAIN entries :
       i # j => entries[i].id # entries[j].id /\ entries[i].file # entries[j].file

(* Outcomes of writing the list entries over the stored one; replace_complete_image *)
(* is atomic, and a failure before it leaves the old list.                           *)
Persist(old, entries) ==
  {[ok |-> TRUE, now |-> e, n |-> 0] : e \in {x \in {entries} : Valid(x)}} \cup
  {[ok |-> FALSE, now |-> old, n |-> 1]}

Load == IF Repaired(disk) = disk THEN {[ok |-> TRUE, now |-> disk, n |-> 0]}
        ELSE Persist(disk, Repaired(disk))

(***************************************************************************)
(* Receipts and outcomes.  Time is left open: the oldest may expire.       *)
(***************************************************************************)
Receipt(owner, file) == [op |-> serial + 1, owner |-> owner, file |-> file]

IssueOneMore(owner, file) ==
  /\ serial < MaxOps
  /\ serial' = serial + 1
  /\ pending' = Append(pending, Receipt(owner, file))
  /\ win' = [win EXCEPT ![owner] = At("prepared", serial', 0)]
Issue(owner, file) ==
  /\ serial < MaxOps
  /\ serial' = serial + 1
  /\ pending' = Append(IF Len(pending) >= MaxPending THEN Tail(pending) ELSE pending,
                       Receipt(owner, file))
  /\ win' = [win EXCEPT ![owner] = At("prepared", serial', 0)]

TakeReceipt(r) == pending' = SelectSeq(pending, LAMBDA p : p.op # r.op)

WithOutcome(r, verdict) ==
  Append(IF Len(outcomes) >= MaxTerminal THEN Tail(outcomes) ELSE outcomes,
         [op |-> r.op, owner |-> r.owner, verdict |-> verdict])
Forgetting == IF Len(outcomes) >= MaxTerminal THEN Tail(outcomes) ELSE outcomes

StatusOf(w, op) ==
  IF \E p \in Range(pending) : p.owner = w /\ p.op = op THEN "pending"
  ELSE IF \E o \in Range(outcomes) : o.owner = w /\ o.op = op
  THEN (CHOOSE o \in Range(outcomes) : o.owner = w /\ o.op = op).verdict
  ELSE "unknown"

(* The menu takes the list; if that fails, it takes the list as it is read again. *)
Converge(entries, now) ==
  \/ /\ menu' = entries
     /\ unsure' = unsure
     /\ disk' = now
     /\ Fail(0)
  \/ /\ Fail(1)
     /\ menu' = Repaired(now)
     /\ disk' = Repaired(now)
     /\ unsure' = unsure
  \/ /\ Fail(2)
     /\ menu' \in {menu, entries}
     /\ disk' = now
     /\ unsure' = TRUE

(* The start of the program reads, and repairs, whatever list is stored. *)
Init ==
  /\ present = Files
  /\ \E stored \in {<<>>} \cup {<<Entry(0, f), Entry(0, g), Entry(1, f), Entry(1, g)>> : f, g \in Files} :
       disk = Repaired(stored)
  /\ pending = <<>> /\ outcomes = <<>> /\ serial = 1
  /\ menu = Repaired(disk)
  /\ win = [w \in Windows |-> At("none", 0, 0)]
  /\ applied = {} /\ unsure = FALSE /\ faults = 0

(***************************************************************************)
(* The commands                                                            *)
(***************************************************************************)
Resting(w) == win[w].phase \notin {"prepared", "asking"}

(* open_file_dialog, open_workspace_file: the document is read, a receipt is issued. *)
PrepareOpen(w, f) ==
  /\ Resting(w)
  /\ f \in present
  /\ Issue(w, f)
  /\ UNCHANGED <<disk, present, outcomes, menu, applied, unsure, faults>>

(* open_recent_file on an entry of the menu: if it is gone, the menu is updated. *)
Listed(e, entries) == {k \in Range(entries) : k.id = e.id}
OpensListed(w, e, entries) ==
  /\ \E k \in Listed(e, entries) : Issue(w, k.file)
  /\ disk' = entries
PrepareRecent(w, e) ==
  /\ Resting(w)
  /\ \E load \in Load :
       IF load.ok /\ Listed(e, load.now) # {}
       THEN OpensListed(w, e, load.now) /\ UNCHANGED <<menu, unsure, faults>>
       ELSE /\ load.n = 0 \/ faults + load.n <= MaxFaults
            /\ Converge(Repaired(disk), Repaired(disk))
            /\ UNCHANGED <<serial, pending, win>>
  /\ UNCHANGED <<present, outcomes, applied>>

(* The commit of an open that cannot proceed: the list cannot be read, the file is *)
(* not what it was, or the grant cannot be prepared.  Nothing was persisted.        *)
CommitRefused(r) ==
  /\ \E load \in Load :
       /\ \/ /\ load.ok
             /\ r.file \in present
             /\ Fail(1)
          \/ /\ ~load.ok
             /\ Fail(1)
          \/ /\ load.ok
             /\ r.file \notin present
             /\ Fail(0)
       /\ disk' = load.now
  /\ outcomes' = WithOutcome(r, "notCommitted")
  /\ win' = [win EXCEPT ![r.owner] = At("notCommitted", r.op, 0)]
  /\ UNCHANGED <<menu, serial, applied, unsure>>

(* The list is persisted, then the grant applied; answered or not, the menu follows. *)
CommitDone(r) ==
  LET promoted == Promoted(Repaired(disk), r.file, serial + 1)
  IN  /\ r.file \in present
      /\ Valid(promoted)
      /\ serial' = serial + 1
      /\ applied' = applied \cup {r.op}
      /\ outcomes' = WithOutcome(r, "committed")
      /\ Converge(promoted, promoted)
      /\ \/ win' = [win EXCEPT ![r.owner] = At("committed", r.op, 0)]
         \/ /\ faults' < MaxFaults
            /\ win' = [win EXCEPT ![r.owner] = At("asking", r.op, 0)]

(* The grant fails after the list was persisted: the list is rolled back, or nobody *)
(* can say what the outcome is.                                                      *)
CommitTellsAnyway(r) ==
  /\ r.file \in present
  /\ Fail(1)
  /\ disk' = Repaired(disk)
  /\ outcomes' = WithOutcome(r, "committed")
  /\ win' = [win EXCEPT ![r.owner] = At("asking", r.op, 0)]
  /\ serial' = serial + 1
  /\ UNCHANGED <<menu, applied, unsure>>

CommitUndone(r) ==
  /\ r.file \in present
  /\ serial' = serial + 1
  /\ \/ /\ Fail(1)
        /\ disk' = Repaired(disk)
        /\ outcomes' = WithOutcome(r, "notCommitted")
        /\ win' = [win EXCEPT ![r.owner] = At("notCommitted", r.op, 0)]
        /\ UNCHANGED unsure
     \/ /\ Fail(2)
        /\ disk' = Promoted(Repaired(disk), r.file, serial')
        /\ outcomes' = Forgetting
        /\ win' = [win EXCEPT ![r.owner] = At("asking", r.op, 0)]
        /\ unsure' = TRUE
  /\ UNCHANGED <<menu, applied>>

CommitOpen(w) ==
  /\ win[w].phase = "prepared"
  /\ \E r \in Range(pending) :
       /\ r.op = win[w].op
       /\ TakeReceipt(r)
       /\ CommitRefused(r) \/ CommitDone(r) \/ CommitUndone(r)
  /\ UNCHANGED present

(* The receipt has expired or was displaced. *)
CommitUnknown(w) ==
  /\ win[w].phase = "prepared"
  /\ \A r \in Range(pending) : r.op # win[w].op
  /\ win' = [win EXCEPT ![w].phase = "asking"]
  /\ UNCHANGED <<disk, present, pending, outcomes, serial, menu, applied, unsure, faults>>

(* After an error of the commit the window asks for its outcome. *)
AskStatus(w) ==
  /\ win[w].phase = "asking"
  /\ LET status == StatusOf(w, win[w].op)
     IN  IF status = "pending" /\ win[w].checks + 1 < Checks
         THEN win' = [win EXCEPT ![w].checks = @ + 1]
         ELSE win' = [win EXCEPT ![w] = At(IF status = "pending" THEN "unknown" ELSE status, @.op, 0)]
  /\ UNCHANGED <<disk, present, pending, outcomes, serial, menu, applied, unsure, faults>>

Discard(w) ==
  /\ win[w].phase = "prepared"
  /\ pending' = SelectSeq(pending, LAMBDA p : p.op # win[w].op)
  /\ win' = [win EXCEPT ![w] = At("none", 0, 0)]
  /\ UNCHANGED <<disk, present, outcomes, serial, menu, applied, unsure, faults>>

(* remove_recent_file, clear_recent_files: an error leaves the list and the menu. *)
Edit(Change(_)) ==
  /\ \E load \in Load :
       LET left == Change(load.now)
       IN  \/ load.ok /\ Converge(left, left)
           \/ /\ ~load.ok \/ left # load.now
              /\ Fail(1)
              /\ disk' = load.now
              /\ UNCHANGED <<menu, unsure>>
  /\ UNCHANGED <<present, pending, outcomes, serial, win, applied>>

RemoveRecent(e) == Edit(LAMBDA entries : SelectSeq(entries, LAMBDA k : k.id # e.id))
ClearRecent == disk # <<>> /\ Edit(LAMBDA entries : <<>>)

(* list_recent_files repairs the list and leaves the menu. *)
ListRecent ==
  /\ Repaired(disk) # disk
  /\ disk' = Repaired(disk)
  /\ UNCHANGED <<present, pending, outcomes, serial, menu, win, applied, unsure, faults>>

Expire ==
  /\ \/ /\ pending # <<>>
        /\ pending' = Tail(pending)
        /\ UNCHANGED outcomes
     \/ /\ outcomes # <<>>
        /\ outcomes' = Tail(outcomes)
        /\ UNCHANGED pending
  /\ UNCHANGED <<disk, present, serial, menu, win, applied, unsure, faults>>

CloseWindow(w) ==
  /\ win[w].phase # "none"
  /\ pending' = SelectSeq(pending, LAMBDA p : p.owner # w)
  /\ outcomes' = SelectSeq(outcomes, LAMBDA o : o.owner # w)
  /\ win' = [win EXCEPT ![w] = At("none", 0, 0)]
  /\ UNCHANGED <<disk, present, serial, menu, applied, unsure, faults>>

(* The program stops, possibly between the two halves of a commit, and starts again. *)
Restart ==
  /\ Fail(1)
  /\ \E entries \in {disk} \cup {Promoted(Repaired(disk), r.file, serial + 1) :
                                   r \in {p \in Range(pending) : p.file \in present}} :
       /\ disk' = Repaired(entries)
       /\ menu' = Repaired(entries)
  /\ serial' = serial + 1
  /\ pending' = <<>> /\ outcomes' = <<>> /\ unsure' = FALSE
  /\ win' = [w \in Windows |-> At("none", 0, 0)]
  /\ UNCHANGED <<present, applied>>

(* Files come and go. *)
Change(f) ==
  /\ Fail(1)
  /\ present' = IF f \in present THEN present \ {f} ELSE present \cup {f}
  /\ UNCHANGED <<disk, pending, outcomes, serial, menu, win, applied, unsure>>

Next ==
  \/ \E w \in Windows : \/ \E f \in Files : PrepareOpen(w, f)
                        \/ \E e \in Range(menu) : PrepareRecent(w, e)
                        \/ CommitOpen(w) \/ CommitUnknown(w) \/ AskStatus(w)
                        \/ Discard(w) \/ CloseWindow(w)
  \/ \E e \in Range(menu) : RemoveRecent(e)
  \/ \E f \in Files : Change(f)
  \/ ClearRecent \/ ListRecent \/ Expire \/ Restart

Spec == Init /\ [][Next]_vars

-----------------------------------------------------------------------------
TypeOK ==
  /\ Len(disk) <= MaxRecent + 1 /\ Len(menu) <= MaxRecent
  /\ Len(pending) <= MaxPending /\ Len(outcomes) <= MaxTerminal
  /\ faults \in 0..MaxFaults
  /\ \A p, q \in Range(pending) : p.op = q.op => p = q

(* What a window concludes of an open is what has become of its grant, whatever was *)
(* lost, displaced or expired in between: documentSession.ts resolveOpenCommitOutcome *)
(* on commit_open_with_post_commit.  It may always conclude that it does not know.    *)
VerdictIsTrue ==
  \A w \in Windows :
    /\ win[w].phase = "committed" => win[w].op \in applied
    /\ win[w].phase = "notCommitted" => win[w].op \notin applied

(* Whatever fails, the stored list is a part of what the menu shows, in its order:  *)
(* a file that was not opened is in neither.  Unless the user was told.              *)
MenuFollowsStore ==
  ~unsure => Repaired(disk) = SelectSeq(menu, LAMBDA e : e \in Range(Repaired(disk)))
=============================================================================
