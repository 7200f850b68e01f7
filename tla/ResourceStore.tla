---------------------------- MODULE ResourceStore ----------------------------
(* The files that mmd writes beside a Markdown document (resource_store.rs): a *)
(* pasted image, named by the digest of its bytes, and the pair of pictures    *)
(* generated from an Excalidraw drawing, whose stable names an ownership file  *)
(* reserves.  Every file is staged under another name and published by a       *)
(* rename; the directory is opened again by its path for each of them, and     *)
(* other programs work in it and with it all the time.                         *)
EXTENDS Naturals, FiniteSets

CONSTANTS
  Versions,   \* of an image, and of a drawing and its pictures
  None,
  MaxDirs,    \* bound: directories that have been at the path of the resources
  MaxOps,     \* bound: commands
  MaxFaults,  \* bound: failures of the file system
  MaxForeign  \* bound: acts of other programs and of other threads

ResourceConstants == {MaxDirs, MaxOps, MaxFaults, MaxForeign} \subseteq Nat

Source == "the path of the drawing"
Other == "what another program has written"
Pair == {"svg", "png"}
Names == {"own"} \cup Pair \cup Versions
Contents == Versions \cup {Source, Other, None}
Empty == [name \in Names |-> None]

VARIABLES
  dirs,    \* directories: what each of them holds
  path,    \* the one at the path of the resources; None: there is none
  blocked, \* something else is at the path
  source,  \* version of the drawing
  current, \* ensure_workspace_is_current
  op,      \* the command that holds RESOURCE_WRITE_LOCK
  leaked,  \* staged files that have been left behind
  left     \* what is left of the bounds

vars == <<dirs, path, blocked, source, current, op, leaked, left>>

Spend(what) == left[what] > 0 /\ left' = [left EXCEPT ![what] = @ - 1]
Held == IF path = None THEN Empty ELSE dirs[path]

(***************************************************************************)
(* secure_fs                                                               *)
(***************************************************************************)
(* mkdirs_open_final: the directory is made when there is none. *)
Made == CHOOSE d \in 1..(MaxDirs + 1) : d \notin DOMAIN dirs
Opens(d) ==
  /\ ~blocked
  /\ IF path = None
       THEN /\ d = Made /\ d <= MaxDirs /\ path' = d
            /\ dirs' = [x \in DOMAIN dirs \cup {d} |-> IF x = d THEN Empty ELSE dirs[x]]
       ELSE d = path /\ UNCHANGED <<dirs, path>>
(* open_existing_file_at, file_bytes_match *)
Existing(d, name) == dirs'[d][name]
(* publish_no_replace, publish_replace *)
Put(d, name, content) == dirs' = [dirs EXCEPT ![d][name] = content]
(* unlink_at, of whose failure nobody hears: those that are kept remain. *)
Unlinked(d, names, kept) ==
  /\ IF names = kept THEN UNCHANGED dirs
     ELSE dirs' = [dirs EXCEPT ![d] = [name \in Names |-> IF name \in names \ kept THEN None ELSE @[name]]]
  /\ IF kept = {} THEN UNCHANGED left ELSE Spend("faults")
(* The staged file is unlinked likewise. *)
Discarded == UNCHANGED <<leaked, left>> \/ (Spend("faults") /\ leaked' = TRUE)

(***************************************************************************)
(* Commands                                                                *)
(***************************************************************************)
(* A command publishes one file after the other: the picture; or the ownership *)
(* file, the SVG and the PNG, and, when that fails, the SVG that was there.    *)
NewOp(file, at, v) ==
  [file |-> file, at |-> at, v |-> v, dir |-> None, handle |-> None, created |-> FALSE, previous |-> None,
   ok |-> FALSE, before |-> Held, excused |-> FALSE, disturbed |-> FALSE]
At(stage) == op # None /\ op.at = stage
Name == CASE op.file = "image" -> op.v [] op.file = "back" -> "svg" [] OTHER -> op.file
Content == CASE op.file = "own" -> Source [] op.file = "back" -> op.previous [] OTHER -> op.v
Replaces == op.file \in {"svg", "png", "back"}
To(stage) == op' = [op EXCEPT !.at = stage]
Publishes(o, file) == [o EXCEPT !.file = file, !.at = "stage"]
Ends(ok) == op' = [op EXCEPT !.at = "ended", !.ok = ok]
(* create_staged_file: under another name, in the directory that is open. *)
Staged(d) == [op EXCEPT !.at = "recheck", !.dir = d]
(* validate_directory, and any other error *)
Fault == Spend("faults") \/ (blocked /\ UNCHANGED left)

(* write_workspace_resource_inner, up to publish_resource_no_replace *)
WriteImage == \E v \in Versions :
  /\ op = None /\ current /\ Spend("ops") /\ op' = NewOp("image", "stage", v)
  /\ UNCHANGED <<dirs, path, blocked, source, current, leaked>>
(* write_excalidraw_asset_pair_inner: the drawing is still what was rendered. *)
WritePair ==
  /\ op = None /\ current /\ Spend("ops") /\ op' = NewOp("own", "ensure", source)
  /\ UNCHANGED <<dirs, path, blocked, source, current, leaked>>
(* ensure_excalidraw_asset_ownership *)
Ensure ==
  /\ At("ensure")
  /\ \/ /\ \E d \in 1..MaxDirs :
             /\ Opens(d)
             /\ LET own == Existing(d, "own")
                    free == own = None /\ \A name \in Pair : Existing(d, name) = None
                IN  op' = [op EXCEPT !.created = free,
                                     !.at = CASE own = Source -> "snapshot" [] free -> "stage" [] OTHER -> "ended"]
        /\ UNCHANGED left
     \/ Fault /\ Ends(FALSE) /\ UNCHANGED <<dirs, path>>
  /\ UNCHANGED <<blocked, source, current, leaked>>
(* The SVG that may have to be put back; the directory it is in stays open. *)
Snapshot ==
  /\ At("snapshot")
  /\ \/ /\ \E d \in 1..MaxDirs :
             /\ Opens(d)
             /\ op' = [Publishes(op, "svg") EXCEPT !.handle = d, !.previous = Existing(d, "svg")]
        /\ UNCHANGED left
     \/ /\ Spend("faults")
        /\ \E d \in 1..MaxDirs : Opens(d) /\ op' = [op EXCEPT !.file = "svg", !.at = "failed", !.handle = d]
     \/ Fault /\ Ends(FALSE) /\ UNCHANGED <<dirs, path>>
  /\ UNCHANGED <<blocked, source, current, leaked>>

(***************************************************************************)
(* publish_resource_no_replace, publish_resource_replace                   *)
(***************************************************************************)
(* Nothing is written when a picture is what it should be. *)
Stage ==
  /\ At("stage")
  /\ \/ /\ \E d \in 1..MaxDirs :
             /\ Opens(d)
             /\ op' = IF Replaces /\ Existing(d, Name) = Content THEN [op EXCEPT !.at = "published"]
                      ELSE Staged(d)
        /\ UNCHANGED <<leaked, left>>
     \/ Fault /\ To("failed") /\ leaked' \in {leaked, leaked \/ ~blocked} /\ UNCHANGED <<dirs, path>>
  /\ UNCHANGED <<blocked, source, current>>
(* The directory at the path is still the one that holds the staged file. *)
Recheck ==
  /\ At("recheck")
  /\ \/ \E d \in 1..MaxDirs :
          /\ Opens(d) /\ To(IF d = op.dir THEN "publish" ELSE "failed")
          /\ IF d = op.dir THEN UNCHANGED <<leaked, left>> ELSE Discarded
     \/ /\ Fault /\ To("failed") /\ UNCHANGED <<dirs, path>>
        /\ leaked' \in IF Replaces THEN {TRUE} ELSE {leaked, TRUE}
  /\ UNCHANGED <<blocked, source, current>>

Publish ==
  /\ At("publish")
  /\ LET there == dirs[op.dir][Name]
     IN  \/ (Replaces \/ there = None) /\ Put(op.dir, Name, Content) /\ To("verify") /\ UNCHANGED <<leaked, left>>
         \/ /\ ~Replaces /\ there # None
            /\ To(IF there = Content THEN "published" ELSE "failed") /\ UNCHANGED dirs /\ Discarded
         \/ Spend("faults") /\ To("failed") /\ UNCHANGED dirs /\ leaked' \in {leaked, TRUE}
  /\ UNCHANGED <<path, blocked, source, current>>
(* What fails from here on is in place all the same. *)
Verify ==
  /\ At("verify")
  /\ \/ To(IF Replaces /\ dirs[op.dir][Name] # Content THEN "failed" ELSE "published") /\ UNCHANGED left
     \/ Spend("faults") /\ op' = [op EXCEPT !.at = "failed", !.excused = TRUE]
  /\ UNCHANGED <<dirs, path, blocked, source, current, leaked>>

(***************************************************************************)
(* What follows                                                            *)
(***************************************************************************)
Continue ==
  /\ At("published") /\ op.file # "back"
  /\ CASE op.file = "own" -> To("snapshot")
       [] op.file = "svg" -> op' = Publishes(op, "png")
       [] OTHER -> Ends(current)
  /\ UNCHANGED <<dirs, path, blocked, source, current, leaked, left>>
(* A PNG that has failed takes the SVG with it: the one that was there is put back, *)
(* or the new one is unlinked; and so is an ownership file that is new.             *)
Mine ==
  (IF op.created /\ op.file # "own" THEN {"own"} ELSE {}) \cup (IF op.file = "png" THEN {"svg"} ELSE {})
PutBack ==
  /\ At("failed") /\ op.file = "png" /\ op.previous # None
  /\ op' = Publishes(op, "back")
  /\ UNCHANGED <<dirs, path, blocked, source, current, leaked, left>>
GiveUp ==
  /\ At("failed") \/ (At("published") /\ op.file = "back")
  /\ op.file = "png" => op.previous = None
  /\ \E kept \in SUBSET Mine :
       /\ Unlinked(op.handle, Mine, kept)
       /\ op' = [op EXCEPT !.at = "ended", !.excused = @ \/ "svg" \in kept \/ (op.file = "back" /\ At("failed"))]
  /\ UNCHANGED <<path, blocked, source, current, leaked>>
Answer ==
  /\ At("ended") /\ op' = None
  /\ UNCHANGED <<dirs, path, blocked, source, current, leaked, left>>

(***************************************************************************)
(* Everyone else                                                           *)
(***************************************************************************)
Disturbed == op' = IF op = None THEN None ELSE [op EXCEPT !.disturbed = TRUE]
(* Another directory is moved to the path, or none, or a link. *)
Swap ==
  /\ Spend("foreign") /\ Disturbed
  /\ \/ blocked' = ~blocked /\ UNCHANGED path
     \/ path' \in (DOMAIN dirs \cup {None}) \ {path} /\ UNCHANGED blocked
  /\ UNCHANGED <<dirs, source, current, leaked>>
Tamper == \E name \in Names, content \in {None, Other} :
  /\ Spend("foreign") /\ Disturbed /\ path # None /\ dirs[path][name] # content
  /\ Put(path, name, content)
  /\ UNCHANGED <<path, blocked, source, current, leaked>>
SaveDrawing ==
  /\ Spend("foreign") /\ source' \in Versions \ {source}
  /\ UNCHANGED <<dirs, path, blocked, current, op, leaked>>
Authorize ==
  /\ Spend("foreign") /\ current' = ~current /\ Disturbed
  /\ UNCHANGED <<dirs, path, blocked, source, leaked>>
Crash ==
  /\ op # None /\ Spend("faults") /\ op' = None /\ leaked' = (leaked \/ op.at \in {"recheck", "publish"})
  /\ UNCHANGED <<dirs, path, blocked, source, current>>

Init ==
  /\ dirs = <<>> /\ path = None /\ blocked = FALSE /\ source \in Versions /\ current = TRUE /\ op = None
  /\ leaked = FALSE /\ left = [ops |-> MaxOps, faults |-> MaxFaults, foreign |-> MaxForeign]
Next == \/ WriteImage \/ WritePair \/ Ensure \/ Snapshot \/ Stage \/ Recheck \/ Publish \/ Verify
        \/ Continue \/ PutBack \/ GiveUp \/ Answer \/ Swap \/ Tamper \/ SaveDrawing \/ Authorize \/ Crash
Spec == Init /\ [][Next]_vars

(***************************************************************************)
(* Properties                                                              *)
(***************************************************************************)
TypeOK ==
  /\ \A d \in DOMAIN dirs : \A name \in Names : dirs[d][name] \in Contents
  /\ path \in DOMAIN dirs \cup {None} /\ source \in Versions /\ {blocked, current, leaked} \subseteq BOOLEAN

(* What a command answers is so: the pictures that it says it has written are all *)
(* there and of one version; and when it fails, every picture is what it was      *)
(* before or, where the end of its publication or the undoing of it failed too,   *)
(* the one that was to be written. None is lost.                                  *)
AnswersAreKept == (At("ended") /\ ~op.disturbed) =>
  /\ op.ok => IF op.file = "image" THEN Held[op.v] = op.v
              ELSE Held["own"] = Source /\ \A name \in Pair : Held[name] = op.v
  /\ ~op.ok => \A name \in Names \ {"own"} :
                 Held[name] = op.before[name] \/ (op.excused /\ Held[name] = op.v)

(* A picture that is named by its digest is never written over, whoever put it *)
(* there and whenever: between any two steps of the command.                   *)
ImagesAreLeft ==
  \A d \in DOMAIN dirs : \A v \in Versions :
     (op # None /\ dirs[d][v] # None /\ dirs'[d][v] # dirs[d][v]) => left'.foreign < left.foreign
=============================================================================
