-------------------------- MODULE WorkspaceEntries --------------------------
(* The entries of a workspace: create, rename, move and move to Trash          *)
(* (commands.rs, path_auth.rs, workspace_trash.rs, workspace_trash_native.rs). *)
(* The authorization lock is held from the checks to the change of the disk;   *)
(* other programs do not know it.  A change that reports an error is observed  *)
(* before the window is told what became of it.                                *)
EXTENDS Naturals, FiniteSets, Sequences, SequencesExt, TLC

CONSTANTS
  Names,     \* names of entries
  None,
  MaxSlot,   \* bound: suffixes of names in the Trash (10,000 in the code)
  MaxOps,    \* bound: commands
  MaxFaults, \* bound: failures
  MaxForeign \* bound: changes by other programs

EntriesConstants == {MaxSlot, MaxOps, MaxFaults, MaxForeign} \subseteq Nat

(* Paths below the root of the workspace. *)
Paths == {<<n>> : n \in Names} \cup {<<n, o>> : n, o \in Names}

VARIABLES
  disk,    \* the entries: a function from paths that are there
  bin,     \* the Trash: of which kind, its files, and what info it has of them
  grants,  \* exact authority: the paths where it is active, and where suspended
  op,      \* the command that runs
  answer,  \* what the last command has answered
  touched, \* history: other programs have acted since the command began
  removed, \* history: entries other programs have removed
  misread, \* history: a rename has reported an error and taken place
  left     \* what is left of the bounds

vars == <<disk, bin, grants, op, answer, touched, removed, misread, left>>

Entry(id, kind) == [id |-> id, kind |-> kind]
Spend(what) == left[what] > 0 /\ left' = [left EXCEPT ![what] = @ - 1]
Fault == Spend("faults")
Under(q, p) == IsPrefix(p, q)
Rebased(q, from, to) == to \o SubSeq(q, Len(from) + 1, Len(q))
Parent(p) == Front(p)
IsDirectory(p) == p = <<>> \/ (p \in DOMAIN disk /\ disk[p].kind = "dir")
Below(d, p) == {q \in DOMAIN d : Under(q, p)}
Subtree(p) == {disk[q] : q \in Below(disk, p)}
Gone(p) == Restrict(disk, DOMAIN disk \ Below(disk, p))
With(p, entry) == [q \in DOMAIN disk \cup {p} |-> IF q = p THEN entry ELSE disk[q]]
Moved(from, to) ==
  LET kept == DOMAIN disk \ Below(disk, from)
      come == {Rebased(q, from, to) : q \in Below(disk, from)}
  IN  [q \in kept \cup come |-> IF q \in come THEN disk[Rebased(q, to, from)] ELSE disk[q]]

(***************************************************************************)
(* Commands and answers                                                    *)
(***************************************************************************)
Confirmed == "committed"
Unchanged == "not committed"
Unsure == "indeterminate"
Failed == "error"
NoEntry == Entry(0, None)
Begin(kind, at, from, to) ==
  /\ op = None /\ Spend("ops") /\ touched' = FALSE /\ answer' = None
  /\ op' = [kind |-> kind, at |-> at, from |-> from, to |-> to, changed |-> {}, old |-> None,
            new |-> None, entry |-> IF from \in DOMAIN disk THEN disk[from] ELSE NoEntry,
            slot |-> None, error |-> FALSE]
  /\ UNCHANGED <<disk, bin, grants, removed, misread>>
(* A command whose checks fail: nothing has been done. *)
Refuse(kind, verdict, from, to) ==
  /\ op = None /\ Spend("ops") /\ touched' = FALSE
  /\ answer' = [verdict |-> verdict, kind |-> kind, from |-> from, to |-> to,
                entry |-> IF from \in DOMAIN disk THEN disk[from] ELSE NoEntry,
                listing |-> None, done |-> FALSE]
  /\ UNCHANGED <<disk, bin, grants, op, removed, misread>>
At(kind, stage) == op # None /\ op.kind = kind /\ op.at = stage
To(stage) == op' = [op EXCEPT !.at = stage] /\ UNCHANGED answer
Answers(verdict, listing, done) ==
  /\ op' = None
  /\ answer' = [verdict |-> verdict, kind |-> op.kind, from |-> op.from, to |-> op.to,
                entry |-> op.entry, listing |-> listing, done |-> done]
(* capture_post_commit_workspace_receipt: fresh with a listing, or stale. *)
Receipt == \E listing \in {None, DOMAIN disk} : Answers(Confirmed, listing, TRUE)
(* The lock is released.  The previews of what has moved or gone are retired; *)
(* if that fails, the window is told to look at the workspace again.          *)
Retired ==
  \/ Receipt /\ UNCHANGED left
  \/ Fault /\ Answers(Unsure, None, TRUE)
ConcludeCreate ==
  /\ At("create dir", "done") /\ Receipt
  /\ UNCHANGED <<disk, bin, grants, touched, removed, misread, left>>
ConcludeRelocation ==
  At("rename", "done") /\ Retired /\ UNCHANGED <<disk, bin, grants, touched, removed, misread>>
ConcludeTrash ==
  At("trash", "done") /\ Retired /\ UNCHANGED <<disk, bin, grants, touched, removed, misread>>

(***************************************************************************)
(* Authority (FileAuthorization takes it apart)                            *)
(***************************************************************************)
UnderEither(p) == Under(p, op.from) \/ Under(p, op.to)
Active == {p \in grants.on : UnderEither(p)}
Granted(p) == [on |-> grants.on \cup {p}, off |-> grants.off \ {p}]
Suspended(paths) == [on |-> grants.on \ paths, off |-> grants.off \cup paths]
Restored(g, paths) == [on |-> g.on \cup (paths \cap g.off), off |-> g.off \ paths]
Revoked(p) == [on |-> {q \in grants.on : ~Under(q, p)}, off |-> {q \in grants.off : ~Under(q, p)}]
Relocated(g, from, to) ==
  LET at(paths) == {IF Under(q, from) THEN Rebased(q, from, to) ELSE q : q \in paths}
  IN  [on |-> at(g.on), off |-> at(g.off) \ at(g.on)]

(***************************************************************************)
(* Create                                                                  *)
(***************************************************************************)
CreateKinds == {"create file", "create dir"}
Creatable(p) == IsDirectory(Parent(p)) /\ p \notin DOMAIN disk
CreateFile == \E p \in Paths : Creatable(p) /\ Begin("create file", "create", p, p)
CreateDirectory == \E p \in Paths : Creatable(p) /\ Begin("create dir", "create", p, p)
(* A file that is there already is an error of its command, a directory a *)
(* confirmed refusal, and so is a parent that is none.                    *)
CreateRefused == \E p \in Paths, kind \in CreateKinds :
  /\ ~Creatable(p)
  /\ Refuse(kind, IF kind = "create file" /\ IsDirectory(Parent(p)) THEN Failed ELSE Unchanged, p, p)
Creating == op # None /\ op.at = "create"
(* create_new, create_dir: refused if something is there by now. *)
CreateFindsEntry ==
  /\ Creating /\ op.from \in DOMAIN disk /\ Answers(Unchanged, None, FALSE)
  /\ UNCHANGED <<disk, bin, grants, touched, removed, misread, left>>
Created == Entry(left["ids"], IF op.kind = "create file" THEN "file" ELSE "dir")
(* Any other error: the file may be there, empty or with a part of the scene *)
(* that was to be its contents, and without a grant.                         *)
CreateFails ==
  /\ Creating /\ op.from \notin DOMAIN disk
  /\ IF IsDirectory(Parent(op.from))
       THEN Fault /\ disk' \in {disk, With(op.from, Created)}
       ELSE UNCHANGED <<disk, left>>
  /\ Answers(Unsure, None, FALSE)
  /\ UNCHANGED <<bin, grants, touched, removed, misread>>
CreateSucceeds ==
  /\ Creating /\ Creatable(op.from)
  /\ disk' = With(op.from, Created) /\ left' = [left EXCEPT !["ids"] = @ - 1]
  /\ op' = [op EXCEPT !.at = IF op.kind = "create file" THEN "created" ELSE "done", !.entry = Created]
  /\ grants' = IF op.kind = "create file" THEN Granted(op.from) ELSE grants
  /\ UNCHANGED <<bin, answer, touched, removed, misread>>
(* The file that was created is read back for the window, without the lock. *)
ReadBack ==
  /\ At("create file", "created")
  /\ \/ op.from \in DOMAIN disk /\ disk[op.from].kind = "file" /\ Receipt /\ UNCHANGED left
     \/ /\ IF op.from \in DOMAIN disk /\ disk[op.from].kind = "file" THEN Fault ELSE UNCHANGED left
        /\ Answers(Unsure, None, TRUE)
  /\ UNCHANGED <<disk, bin, grants, touched, removed, misread>>

(***************************************************************************)
(* Rename and move                                                         *)
(***************************************************************************)
Relocatable(from, to) ==
  /\ from \in DOMAIN disk /\ IsDirectory(Parent(to)) /\ to # from /\ to \notin DOMAIN disk
  /\ disk[from].kind = "dir" => ~Under(Parent(to), from)
  /\ \A q \in Below(disk, from) : Rebased(q, from, to) \in Paths
Relocate(from, to) ==
  IF Relocatable(from, to) THEN Begin("rename", "rename", from, to)
  ELSE Refuse("rename", Unchanged, from, to)
Rename == \E from, to \in Paths : Parent(from) = Parent(to) /\ Relocate(from, to)
Move == \E from, to \in Paths :
  Parent(from) # Parent(to) /\ Last(from) = Last(to) /\ Relocate(from, to)

(* rename_no_replace: what is there by now decides, not what was checked. *)
RenameReplacing == op.from \in DOMAIN disk /\ IsDirectory(Parent(op.to))
CanRename == op.from \in DOMAIN disk /\ op.to \notin DOMAIN disk /\ IsDirectory(Parent(op.to))
RenameSucceeds ==
  /\ At("rename", "rename") /\ CanRename
  /\ disk' = Moved(op.from, op.to) /\ grants' = Relocated(grants, op.from, op.to) /\ To("done")
  /\ UNCHANGED <<bin, touched, removed, misread, left>>
(* An error, perhaps about a rename that has taken place: the authority under *)
(* both paths is suspended and the lock released.                             *)
RenameFails ==
  /\ At("rename", "rename")
  /\ IF CanRename THEN Fault /\ disk' \in {disk, Moved(op.from, op.to)}
     ELSE UNCHANGED <<disk, left>>
  /\ misread' = (misread \/ disk' # disk)
  /\ grants' = Suspended(Active) /\ op' = [op EXCEPT !.at = "old", !.changed = Active]
  /\ UNCHANGED <<bin, answer, touched, removed>>

(* observe_rename_after_error: the two paths, one after the other; either *)
(* observation may fail.                                                  *)
Evidence(p) ==
  IF p \notin DOMAIN disk THEN "missing"
  ELSE IF disk[p].kind = op.entry.kind THEN "matches" ELSE "unexpected"
Observed(p, evidence) ==
  \/ evidence = Evidence(p) /\ UNCHANGED left
  \/ evidence = "failed" /\ Fault
ObserveOld ==
  /\ At("rename", "old")
  /\ \E e \in {"missing", "matches", "unexpected", "failed"} :
       Observed(op.from, e) /\ op' = [op EXCEPT !.at = "new", !.old = e]
  /\ UNCHANGED <<disk, bin, grants, answer, touched, removed, misread>>
ObserveNew ==
  /\ At("rename", "new")
  /\ \E e \in {"missing", "matches", "unexpected", "failed"} :
       Observed(op.to, e) /\ op' = [op EXCEPT !.at = "reconcile", !.new = e]
  /\ UNCHANGED <<disk, bin, grants, answer, touched, removed, misread>>
(* finalize_indeterminate_rename: what was opened meanwhile is suspended too. *)
Closed == Suspended(Active)
Reconcile ==
  /\ At("rename", "reconcile")
  /\ CASE op.old = "matches" /\ op.new = "missing" ->
            grants' = Restored(grants, op.changed) /\ Answers(Unchanged, None, FALSE)
       [] op.old = "missing" /\ op.new = "matches" ->
            grants' = Relocated(Restored(grants, op.changed), op.from, op.to) /\ To("done")
       [] OTHER -> grants' = Closed /\ Answers(Unsure, None, FALSE)
  /\ UNCHANGED <<disk, bin, touched, removed, misread, left>>

(* Another command opens a file; not while the lock is held. *)
Locked == op # None /\ op.at \notin {"old", "new", "reconcile", "created", "done"}
OpenFile == \E p \in DOMAIN disk :
  /\ ~Locked /\ disk[p].kind = "file" /\ p \notin grants.on /\ Spend("opens")
  /\ grants' = Granted(p)
  /\ UNCHANGED <<disk, bin, op, answer, touched, removed, misread>>

(***************************************************************************)
(* Trash                                                                   *)
(***************************************************************************)
Trash == \E p \in Paths :
  IF p \in DOMAIN disk THEN Begin("trash", "capture", p, p) ELSE Refuse("trash", Unchanged, p, p)
(* The call is rejected, without a receipt. *)
Rejected == [op EXCEPT !.at = "observe", !.error = TRUE, !.slot = None]
(* capture_source_identity: the entry of the checked kind that is there by now. *)
Capture ==
  /\ At("trash", "capture")
  /\ \/ /\ op.from \in DOMAIN disk /\ disk[op.from].kind = op.entry.kind /\ UNCHANGED left
        /\ op' = [op EXCEPT !.at = IF bin.kind = "shell" THEN "shell" ELSE "reserve",
                            !.entry = disk[op.from]]
     \/ /\ IF op.from \in DOMAIN disk /\ disk[op.from].kind = op.entry.kind THEN Fault
           ELSE UNCHANGED left
        /\ op' = [Rejected EXCEPT !.entry = NoEntry]
  /\ UNCHANGED <<disk, bin, grants, answer, touched, removed, misread>>
(* ensure_identity_unchanged *)
IsSource == op.from \in DOMAIN disk /\ disk[op.from] = op.entry

(* The Trash of Linux.  reserve_unique_entry: a name neither in files nor in *)
(* info; its info is created first.                                          *)
Slots == {<<Last(op.from), n>> : n \in 0 .. MaxSlot}
Free == {s \in Slots : s \notin DOMAIN bin.files \cup DOMAIN bin.infos}
WithInfo(slot, path) ==
  [bin EXCEPT !.infos = [s \in DOMAIN bin.infos \cup {slot} |-> IF s = slot THEN path ELSE bin.infos[s]]]
WithFile(b, slot) ==
  [b EXCEPT !.files = [s \in DOMAIN bin.files \cup {slot} |->
     IF s = slot THEN [top |-> disk[op.from], all |-> Subtree(op.from)] ELSE bin.files[s]]]
Reserve ==
  /\ At("trash", "reserve")
  /\ \/ /\ IsSource /\ Free # {} /\ UNCHANGED left
        /\ LET slot == CHOOSE s \in Free : \A t \in Free : s[2] <= t[2]
           IN  bin' = WithInfo(slot, None) /\ op' = [op EXCEPT !.at = "write", !.slot = slot]
     \/ /\ IF IsSource /\ Free # {} THEN Fault ELSE UNCHANGED left
        /\ op' = Rejected /\ UNCHANGED bin
  /\ UNCHANGED <<disk, grants, answer, touched, removed, misread>>
(* error_with_reserved_info_cleanup: the info is removed, if it can be. *)
Dropped(b) == [b EXCEPT !.infos = Restrict(b.infos, DOMAIN b.infos \ {op.slot})]
WriteInfo ==
  /\ At("trash", "write")
  /\ \/ bin' = WithInfo(op.slot, op.from) /\ To("move") /\ UNCHANGED left
     \/ Fault /\ bin' \in {bin, Dropped(bin)} /\ op' = Rejected /\ UNCHANGED answer
  /\ UNCHANGED <<disk, grants, touched, removed, misread>>
(* The rename into the Trash takes what is there by now.  It may take place *)
(* and report an error, and the directories may not be synchronized.        *)
Place ==
  /\ At("trash", "move") /\ op.from \in DOMAIN disk /\ op.slot \notin DOMAIN bin.files
  /\ disk' = Gone(op.from)
  /\ \/ bin' = WithFile(bin, op.slot) /\ op' = [op EXCEPT !.at = "observe"] /\ UNCHANGED <<misread, left>>
     \/ /\ Fault /\ bin' = WithFile(bin, op.slot) /\ UNCHANGED misread
        /\ op' = [op EXCEPT !.at = "observe", !.error = TRUE]
     \/ /\ Fault /\ bin' \in {WithFile(bin, op.slot), WithFile(Dropped(bin), op.slot)}
        /\ op' = Rejected /\ misread' = TRUE
  /\ UNCHANGED <<grants, answer, touched, removed>>
PlaceFails ==
  /\ At("trash", "move")
  /\ IF op.from \in DOMAIN disk THEN Fault ELSE UNCHANGED left
  /\ op' = Rejected /\ bin' \in {bin, Dropped(bin)}
  /\ UNCHANGED <<disk, grants, answer, touched, removed, misread>>

(* The Trash of macOS and of Windows: one call, which may fail before or      *)
(* after it has moved the entry, and may lose the receipt.  On macOS it takes *)
(* what is there by now.  The slot is named by the system.                    *)
Shell ==
  /\ At("trash", "shell") /\ op.from \in DOMAIN disk
  /\ LET slot == <<Last(op.from), Cardinality(DOMAIN bin.files)>>
     IN  /\ disk' = Gone(op.from) /\ bin' = WithFile(bin, slot)
         /\ \/ op' = [op EXCEPT !.at = "observe", !.slot = slot] /\ UNCHANGED left
            \/ Fault /\ \E s \in {None, slot} : op' = [Rejected EXCEPT !.slot = s]
  /\ UNCHANGED <<grants, answer, touched, removed, misread>>
ShellFails ==
  /\ At("trash", "shell")
  /\ IF IsSource THEN Fault ELSE UNCHANGED left
  /\ op' = Rejected
  /\ UNCHANGED <<disk, bin, grants, answer, touched, removed, misread>>

(* classify_trash: the source is observed, then what the receipt names. *)
TrashUnchanged == Answers(Unchanged, None, FALSE) /\ UNCHANGED <<grants, left>>
TrashUnsure ==
  /\ grants' = Suspended({p \in grants.on : Under(p, op.from)})
  /\ Answers(Unsure, None, FALSE)
ObserveSource ==
  /\ At("trash", "observe")
  /\ \/ IsSource /\ op.error /\ TrashUnchanged
     \/ op.from \in DOMAIN disk /\ ~(IsSource /\ op.error) /\ TrashUnsure /\ UNCHANGED left
     \/ op.from \notin DOMAIN disk /\ op.slot = None /\ TrashUnsure /\ UNCHANGED left
     \/ op.from \notin DOMAIN disk /\ op.slot # None /\ To("verify") /\ UNCHANGED <<grants, left>>
     \/ Fault /\ TrashUnsure
  /\ UNCHANGED <<disk, bin, touched, removed, misread>>
(* verify_placement: the entry itself, and on Linux the info as it was written. *)
Proven ==
  /\ op.slot \in DOMAIN bin.files /\ bin.files[op.slot].top = op.entry
  /\ bin.kind = "xdg" => op.slot \in DOMAIN bin.infos /\ bin.infos[op.slot] = op.from
Verify ==
  /\ At("trash", "verify")
  /\ \/ Proven /\ grants' = Revoked(op.from) /\ To("done") /\ UNCHANGED left
     \/ ~Proven /\ TrashUnsure /\ UNCHANGED left
     \/ Fault /\ TrashUnsure
  /\ UNCHANGED <<disk, bin, touched, removed, misread>>

(***************************************************************************)
(* Faults and specification                                                *)
(***************************************************************************)
(* Other programs remove an entry, or put a new file there or in its place. *)
Foreign == \E p \in Paths :
  /\ Spend("foreign") /\ touched' = TRUE
  /\ \/ p \in DOMAIN disk /\ disk' = Gone(p) /\ removed' = removed \cup Subtree(p)
     \/ /\ IsDirectory(Parent(p)) /\ (p \in DOMAIN disk => disk[p].kind = "file")
        /\ disk' = With(p, Entry(left["foreign"] + 100, "file"))
        /\ removed' = removed \cup (IF p \in DOMAIN disk THEN {disk[p]} ELSE {})
  /\ UNCHANGED <<bin, grants, op, answer, misread>>
(* The program ends in the middle and is started again: no authority. *)
Crash ==
  /\ op # None /\ Fault
  /\ op' = None /\ answer' = None /\ grants' = [on |-> {}, off |-> {}]
  /\ UNCHANGED <<disk, bin, touched, removed, misread>>

Init == \E d, f \in Names, kind \in {"xdg", "shell"} :
  /\ d # f
  /\ disk = (<<d>> :> Entry(1, "dir")) @@ (<<d, f>> :> Entry(2, "file")) @@ (<<f>> :> Entry(3, "file"))
  /\ bin = [kind |-> kind, files |-> <<>>, infos |-> <<>>]
  /\ grants = [on |-> {<<d, f>>}, off |-> {}]
  /\ op = None /\ answer = None /\ touched = FALSE /\ removed = {} /\ misread = FALSE
  /\ left = [ids |-> 10 + MaxOps, ops |-> MaxOps, faults |-> MaxFaults, foreign |-> MaxForeign,
             opens |-> 1]

Next == \/ CreateFile \/ CreateDirectory \/ CreateRefused \/ CreateFindsEntry \/ CreateFails
        \/ CreateSucceeds \/ ReadBack \/ Rename \/ Move \/ RenameSucceeds \/ RenameFails
        \/ ObserveOld \/ ObserveNew \/ Reconcile \/ OpenFile
        \/ ConcludeCreate \/ ConcludeRelocation \/ ConcludeTrash
        \/ Trash \/ Capture \/ Reserve \/ WriteInfo \/ Place \/ PlaceFails \/ Shell \/ ShellFails
        \/ ObserveSource \/ Verify \/ Foreign \/ Crash
Spec == Init /\ [][Next]_vars

(***************************************************************************)
(* Properties                                                              *)
(***************************************************************************)
TypeOK ==
  /\ DOMAIN disk \subseteq Paths /\ \A p \in DOMAIN disk : IsDirectory(Parent(p))
  /\ grants.on \cup grants.off \subseteq Paths /\ grants.on \cap grants.off = {}
  /\ answer # None => answer.verdict \in {Confirmed, Unchanged, Unsure, Failed}

(* What a command answers is what happened: an entry confirmed to be moved is *)
(* where it was to go, one confirmed not to be is where it was, and a listing *)
(* that comes with the answer shows it; unless others have acted meanwhile.   *)
AnswersAreTrue == answer # None /\ ~touched =>
  LET there(p) == p \in DOMAIN disk /\ disk[p] = answer.entry
  IN  /\ answer.verdict = Confirmed /\ answer.kind # "trash" => there(answer.to)
      /\ answer.verdict = Confirmed /\ answer.kind = "rename" => ~there(answer.from)
      /\ answer.verdict = Confirmed /\ answer.kind = "trash" =>
           \E s \in DOMAIN bin.files :
              bin.files[s].top = answer.entry /\ (bin.kind = "xdg" => s \in DOMAIN bin.infos)
      /\ answer.verdict = Unchanged /\ answer.kind \in {"rename", "trash"}
           /\ answer.entry # NoEntry => there(answer.from)
      /\ answer.listing # None => (answer.to \in answer.listing) = (answer.kind # "trash")

(* The program removes nothing: an entry is among the entries or in the Trash *)
(* until another program removes it.                                          *)
Everything == {disk[p] : p \in DOMAIN disk} \cup UNION {bin.files[s].all : s \in DOMAIN bin.files}
NothingIsLost == Everything \ removed' \subseteq Everything'

(* What is in the Trash can be put back: its info is there and names the path *)
(* it had; unless the rename into the Trash denied what it had done.          *)
TrashIsRecoverable ==
  bin.kind = "xdg" => \A s \in DOMAIN bin.files :
    misread \/ (s \in DOMAIN bin.infos /\ bin.infos[s] # None)

(* When the window is told that the outcome of a rename or a removal is not   *)
(* known, nothing under its paths may be written; where only the previews     *)
(* could not be retired, the outcome is known.                                *)
UnsureIsClosed ==
  answer' # answer /\ answer' # None /\ answer'.verdict = Unsure
    /\ answer'.kind \in {"rename", "trash"} /\ ~answer'.done
    => \A p \in grants'.on : ~Under(p, answer'.from) /\ ~Under(p, answer'.to)
=============================================================================
