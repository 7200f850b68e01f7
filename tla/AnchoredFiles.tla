---------------------------- MODULE AnchoredFiles ----------------------------
(* How mmd opens a file that it has the authority to read, while other programs *)
(* move the directories and the files about and put links in their places:      *)
(* name by name beneath the directory of a workspace that is held open          *)
(* (open_regular_file_beneath_directory), beneath a parent that is checked once *)
(* it is open (open_regular_file_without_following_links), and, in the server   *)
(* of HTML previews, by the path with a check of where the file is that was     *)
(* opened (open_authorized_file_with); and how much of the file is then sent.   *)
EXTENDS Integers, Sequences, FiniteSets

CONSTANTS
  Dirs, Files, Links, \* what there can be in the tree: inodes
  Names,
  None,
  Top,        \* the directory every path starts from
  Granted,    \* the directory that was granted, and the path it was granted by
  GrantedPath,
  GrantedFile,\* the file that was opened or saved, with its identity
  LinkTo,     \* the path that a link leads to
  Start,      \* where everything is in the beginning
  Limit,      \* PDF_SOURCE_LIMIT_BYTES, DOCX_SOURCE_LIMIT_BYTES
  MaxSize,    \* bound: of a file
  MaxOps,     \* bound: files that are opened
  MaxForeign  \* bound: acts of other programs

Inodes == Dirs \cup Files \cup Links
AnchoredConstants ==
  /\ {Top, Granted} \subseteq Dirs /\ GrantedFile \in Files /\ GrantedPath \in Seq(Names)
  /\ {Limit, MaxSize, MaxOps, MaxForeign} \subseteq Nat

VARIABLES
  at,    \* inode: the directory it is in, and its name there
  size,  \* of the files
  op,    \* the file that is being opened
  been,  \* what has been where the file may be taken from, since it was asked for
  left   \* what is left of the bounds

vars == <<at, size, op, been, left>>

Spend(what) == left[what] > 0 /\ left' = [left EXCEPT ![what] = @ - 1]

(***************************************************************************)
(* Paths                                                                   *)
(***************************************************************************)
Child == [d \in Inodes \cup {None}, name \in Names |->
  IF \E i \in Inodes : at[i] = [dir |-> d, name |-> name]
    THEN CHOOSE i \in Inodes : at[i] = [dir |-> d, name |-> name] ELSE None]
(* openat with O_NOFOLLOW, for one name after the other *)
Lookup(path) ==
  LET reached[n \in 0..Len(path)] == IF n = 0 THEN Top ELSE Child[reached[n - 1], path[n]]
  IN  reached[Len(path)]
(* open: the links on the way are followed. *)
Follow(path) ==
  LET reached[n \in 0..Len(path)] ==
        IF n = 0 THEN Top
        ELSE LET i == Child[reached[n - 1], path[n]] IN IF i \in Links THEN Lookup(LinkTo) ELSE i
  IN  reached[Len(path)]
Depth == Cardinality(Dirs) - 1
Paths == UNION {[1..n -> Names] : n \in 1..Depth}
(* The inodes, and all that is in them and below. *)
Under(roots) ==
  LET within[i \in Inodes] == i \in roots \/ (at[i] # None /\ within[at[i].dir])
  IN  {i \in Inodes : within[i]}
(* F_GETPATH, /proc/self/fd, GetFinalPathNameByHandleW *)
PathOf(inode) ==
  LET path[i \in Inodes] == IF i = Top THEN <<>> ELSE Append(path[at[i].dir], at[i].name)
  IN  IF inode \in Under({Top}) THEN path[inode] ELSE None
(* normalize_existing_path *)
Canonical(path) == IF Follow(path) = None THEN None ELSE PathOf(Follow(path))
Beneath(path, root) == path # None /\ Len(path) > Len(root) /\ SubSeq(path, 1, Len(root)) = root
Parent(path) == SubSeq(path, 1, Len(path) - 1)
Last(path) == path[Len(path)]

(***************************************************************************)
(* Opening                                                                 *)
(***************************************************************************)
(* Where a file may be taken from: in a workspace all that is beneath the directory *)
(* that was granted; otherwise the directory at the path of the parent; for a       *)
(* preview, the files beneath the root.                                             *)
Anchored(kind, path) ==
  CASE kind = "workspace" -> Under({Granted})
    [] kind = "exact" -> {Follow(Parent(path))} \cap {Lookup(Parent(path))}
    [] kind = "request" -> {f \in Files : Beneath(PathOf(f), GrantedPath)}

At(step) == op # None /\ op.at = step
NewOp(kind, path, step) ==
  [kind |-> kind, path |-> path, at |-> step, dir |-> None, rest |-> <<>>, file |-> None,
   status |-> None, range |-> None, first |-> 0, last |-> -1, bytes |-> 0]
To(step) == op' = [op EXCEPT !.at = step]
Fail(status) == op' = [op EXCEPT !.at = "ended", !.status = status, !.file = None]
Kept == UNCHANGED <<at, size, been, left>>

(* open_file_for_read: the path is made canonical; then its authority is looked up, *)
(* which opens the root again and compares its identity.                            *)
OpenForRead ==
  /\ op = None /\ Spend("ops")
  /\ \E path \in Paths, kind \in {"workspace", "exact"} :
       /\ Follow(path) \in Files
       /\ op' = NewOp(kind, Canonical(path), "authority") /\ been' = Anchored(kind, Canonical(path))
  /\ UNCHANGED <<at, size>>
Authority ==
  /\ At("authority")
  /\ CASE op.kind = "workspace" /\ Beneath(op.path, GrantedPath) /\ Lookup(GrantedPath) = Granted ->
            op' = [op EXCEPT !.at = "walk", !.dir = Granted,
                             !.rest = SubSeq(op.path, Len(GrantedPath) + 1, Len(op.path))]
       [] op.kind = "exact" /\ op.path = PathOf(GrantedFile) -> To("parent")
       [] OTHER -> Fail("refused")
  /\ Kept
(* open_regular_file_beneath_directory *)
Walk ==
  /\ At("walk")
  /\ LET next == Child[op.dir, Head(op.rest)]
     IN  IF Len(op.rest) > 1
           THEN IF next \in Dirs THEN op' = [op EXCEPT !.dir = next, !.rest = Tail(@)] ELSE Fail("refused")
           ELSE IF next \in Files THEN op' = [op EXCEPT !.at = "measure", !.file = next] ELSE Fail("refused")
  /\ Kept
(* open_verified_parent: only the last name of the parent is not followed; where *)
(* the directory is that was opened is looked up after that.                     *)
OpenParent ==
  /\ At("parent")
  /\ LET above == IF Len(op.path) > 2 THEN Follow(Parent(Parent(op.path))) ELSE Top
         d == IF Len(op.path) > 1 THEN Child[above, Last(Parent(op.path))] ELSE Top
     IN  IF d \in Dirs THEN op' = [op EXCEPT !.at = "verify", !.dir = d] ELSE Fail("refused")
  /\ Kept
VerifyParent ==
  /\ At("verify")
  /\ IF Lookup(Parent(op.path)) = op.dir THEN To("child") ELSE Fail("refused")
  /\ Kept
(* The file in it, which is the one of the grant when the grant has an identity. *)
OpenChild == \E identified \in BOOLEAN :
  /\ At("child")
  /\ LET i == Child[op.dir, Last(op.path)]
     IN  IF i \in Files /\ (identified => i = GrantedFile)
           THEN op' = [op EXCEPT !.at = "measure", !.file = i] ELSE Fail("refused")
  /\ Kept

(***************************************************************************)
(* read_open_binary_file_bounded                                           *)
(***************************************************************************)
Measure ==
  /\ At("measure") /\ Kept
  /\ IF size[op.file] > Limit THEN Fail("too large") ELSE To("read")
(* No more than the limit is taken, and one byte to see that there is more. *)
Read ==
  /\ At("read") /\ Kept
  /\ LET taken == IF size[op.file] > Limit THEN Limit + 1 ELSE size[op.file]
     IN  IF taken > Limit THEN Fail("too large")
         ELSE op' = [op EXCEPT !.at = "ended", !.status = "read", !.bytes = taken]

(***************************************************************************)
(* route_request                                                           *)
(***************************************************************************)
(* The client is not local, the method is another one, the path is no text, none, *)
(* or goes up.                                                                    *)
Refuse == \E status \in {"421", "405", "400", "404", "403"} :
  /\ op = None /\ Spend("ops")
  /\ op' = [NewOp("request", GrantedPath, "ended") EXCEPT !.status = status]
  /\ UNCHANGED <<at, size, been>>
Request ==
  /\ op = None /\ Spend("ops")
  /\ \E path \in {p \in Paths : Beneath(p, GrantedPath)} :
       /\ op' = IF Follow(path) = None THEN [NewOp("request", path, "ended") EXCEPT !.status = "404"]
                ELSE [NewOp("request", path, "opened") EXCEPT !.file = Follow(path)]
       /\ been' = Anchored("request", path)
  /\ UNCHANGED <<at, size>>
(* opened_file_path, and then where that path leads *)
OpenedPath ==
  /\ At("opened") /\ Kept
  /\ IF PathOf(op.file) = None THEN Fail("404") ELSE op' = [op EXCEPT !.at = "canonical", !.path = PathOf(op.file)]
CanonicalPath ==
  /\ At("canonical") /\ Kept
  /\ IF Canonical(op.path) = None THEN Fail("404")
     ELSE op' = [op EXCEPT !.at = "retained", !.path = Canonical(op.path)]
Retained ==
  /\ At("retained") /\ Kept
  /\ IF op.file \in Files /\ PathOf(op.file) = op.path /\ Beneath(op.path, GrantedPath)
       THEN op' = [op EXCEPT !.at = "respond", !.bytes = size[op.file]] ELSE Fail("404")

(* What may be asked for: everything, from a byte to another one or to the end, or *)
(* so many bytes from the end.                                                     *)
Ranges == [kind : {"all", "unreadable"}] \cup [kind : {"from"}, from : 0..MaxSize, to : (0..MaxSize) \cup {None}]
            \cup [kind : {"end"}, count : 0..MaxSize]
Smaller(a, b) == IF a < b THEN a ELSE b
(* requested_byte_range: the first and the last byte; None: 416 *)
RequestedByteRange(range, length) ==
  CASE range.kind = "unreadable" \/ length = 0 -> None
    [] range.kind = "end" ->
         IF range.count = 0 THEN None ELSE <<length - Smaller(range.count, length), length - 1>>
    [] range.kind = "from" ->
         LET end == IF range.to = None THEN length - 1 ELSE Smaller(range.to, length - 1)
         IN  IF range.from >= length \/ end < range.from THEN None ELSE <<range.from, end>>
(* The draft of the document that is previewed is sent in its place. *)
RespondDraft == \E status \in {"200", "500"} :
  /\ At("respond") /\ op.file = GrantedFile /\ Fail(status) /\ Kept
Respond ==
  /\ At("respond") /\ Kept /\ \E range \in Ranges :
     IF range.kind = "all" THEN op' = [op EXCEPT !.at = "ended", !.status = "200", !.range = range]
     ELSE LET asked == RequestedByteRange(range, op.bytes)
          IN  op' = IF asked = None THEN [op EXCEPT !.at = "ended", !.status = "416", !.range = range]
                    ELSE [op EXCEPT !.at = "ended", !.status = "206", !.range = range,
                                    !.first = asked[1], !.last = asked[2]]
Ended == At("ended") /\ op' = None /\ been' = {} /\ UNCHANGED <<at, size, left>>

(***************************************************************************)
(* Other programs                                                          *)
(***************************************************************************)
(* While nothing is being opened it does not matter what they do.  A rename, over a file or a link if
   there is one; or something is removed. *)
Move ==
  /\ op # None /\ ~At("ended") /\ Spend("foreign")
  /\ \E i \in Inodes \ {Top}, d \in Dirs \cup {None}, name \in Names :
       /\ IF d = None THEN at[i] # None ELSE d \notin Under({i})
       /\ LET there == IF d = None THEN None ELSE Child[d, name]
          IN  /\ there # i /\ there \notin Dirs
              /\ at' = [j \in DOMAIN at |-> IF j = i /\ d # None THEN [dir |-> d, name |-> name]
                                            ELSE IF j \in {i, there} THEN None ELSE at[j]]
  /\ UNCHANGED <<size, op>>
  /\ been' = been \cup Anchored(op.kind, op.path)' \cup
       (IF op.kind = "workspace" THEN UNION {Under({d})' : d \in been} ELSE {})
Resize == \E f \in Files, n \in 0..MaxSize :
  /\ op # None /\ op.file # None /\ ~At("ended") /\ Spend("foreign") /\ n # size[f] /\ size' = [size EXCEPT ![f] = n]
  /\ UNCHANGED <<at, op, been>>

Init ==
  /\ at = Start /\ size = [f \in Files |-> 1] /\ op = None /\ been = {}
  /\ left = [ops |-> MaxOps, foreign |-> MaxForeign]
Next == \/ OpenForRead \/ Authority \/ Walk \/ OpenParent \/ VerifyParent \/ OpenChild \/ Measure \/ Read
        \/ Refuse \/ Request \/ OpenedPath \/ CanonicalPath \/ Retained \/ RespondDraft \/ Respond \/ Ended
        \/ Move \/ Resize
Spec == Init /\ [][Next]_vars

(***************************************************************************)
(* Properties                                                              *)
(***************************************************************************)
TypeOK ==
  /\ at[Top] = None
  /\ \A i \in Inodes : at[i] = None \/ (at[i].dir \in Dirs /\ at[i].name \in Names)
  /\ op # None => op.file \in Dirs \cup Files \cup {None} /\ op.bytes \in 0..MaxSize

(* A file that is read out of a workspace was taken from the granted directory      *)
(* through real directories, never through a link: it has been beneath that         *)
(* directory, or beneath one that had been there before.  More is not so: what is   *)
(* put into a directory after it was moved away is found there by a walk that holds *)
(* it.  A file that is read by its own grant was in the directory at its path, and  *)
(* one that a preview is sent has itself been beneath the root of the preview.      *)
OpenedIsAnchored ==
  (op # None /\ op.file # None /\ op.at \in {"measure", "read", "respond", "ended"}) =>
    IF op.kind = "exact" THEN op.dir \in been ELSE op.file \in been

(* No more is read than the limit, though the file grows after its size was looked *)
(* at; and a part of a file is exactly the bytes of it that were asked for.        *)
BytesAreAsked == At("ended") =>
  /\ op.status = "read" => op.bytes <= Limit
  /\ op.status = "206" =>
       op.first..op.last = {b \in 0..op.bytes - 1 :
         IF op.range.kind = "end" THEN b >= op.bytes - op.range.count
         ELSE b >= op.range.from /\ (op.range.to # None => b <= op.range.to)}
=============================================================================
