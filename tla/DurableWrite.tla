----------------------------- MODULE DurableWrite -----------------------------
(***************************************************************************)
(* The exact-version file primitives of src-tauri/src/durable_write.rs:    *)
(* durable_write replaces or creates one destination only if it still is   *)
(* the version the caller observed, and durable_remove_exact deletes it    *)
(* under the same condition.  Every system call that reads or changes the  *)
(* directory is an action, so that other programs (which do not take       *)
(* DURABLE_WRITE_LOCK), I/O failures and a power loss can fall between     *)
(* any two of them.                                                        *)
(*                                                                         *)
(* A file is an object (its platform identity) reached through leaves of a *)
(* directory.  A version is what FileVersion compares: the object, its     *)
(* bytes and its modification stamp; length and digest are functions of    *)
(* the bytes.  Stamps come from the count of foreign steps, so two writes  *)
(* never share one.                                                        *)
(*                                                                         *)
(* Each directory reaches the disk by itself and in order: a power loss    *)
(* may bring any of them back as it was when it was last synchronized or   *)
(* at any moment since.                                                    *)
(***************************************************************************)
EXTENDS Naturals, FiniteSets

CONSTANTS
  Ops,          \* the calls made by MMD threads, each made at most once
  NoOp,         \* the holder of a free lock
  Images,       \* file contents
  Nothing,      \* an absent file, version or reply
  Platform,     \* "unix" or "windows"
  MaxObjects,   \* bound: files ever created
  MaxForeign,   \* bound: steps of other programs
  MaxPowerLoss  \* bound: power losses

ASSUME PlatformAssumption == Platform \in {"unix", "windows"}
ASSUME NoOpAssumption     == NoOp \notin Ops
ASSUME NothingAssumption  ==
  /\ Images # {}
  /\ Nothing \notin Images
  /\ Nothing \notin 1..MaxObjects
(* Win32 has no parent directory fsync, so durable_write claims nothing of *)
(* a power loss there.                                                     *)
ASSUME PowerLossAssumption == Platform = "windows" => MaxPowerLoss = 0
ASSUME BoundAssumption    ==
  /\ MaxObjects \in Nat \ {0}
  /\ MaxForeign \in Nat
  /\ MaxPowerLoss \in Nat

Objects == 1..MaxObjects

(* The path of the destination's parent leads to one of two directories:   *)
(* another program may swap them.  "temp" is std::env::temp_dir().         *)
Parents == {"home", "other"}
Dirs    == Parents \union {"temp"}

(* The leaves of one call carry its random suffix; Dest is shared.         *)
Roles == {"staged", "recovery", "displaced", "quarantine", "spare", "copy"}
Dest  == <<"dest", NoOp>>
Leaves == {Dest} \union (Roles \X Ops)

Staged(o)     == <<"staged", o>>
Recovery(o)   == <<"recovery", o>>
Quarantine(o) == <<"quarantine", o>>
Spare(o)      == <<"spare", o>>
Copy(o)       == <<"copy", o>>

(* RENAME_EXCHANGE leaves the displaced file under the staged name,        *)
(* ReplaceFileW under a backup name of its own.                            *)
Displaced(o) == IF Platform = "unix" THEN Staged(o) ELSE <<"displaced", o>>

Versions == [object : Objects, bytes : Images, stamp : 0..MaxForeign]
Optional(S) == S \union {Nothing}

Requests == [kind : {"write", "remove"}, expected : Optional(Versions),
             bytes : Optional(Images)]
Kinds    == {"committed", "notCommitted", "conflict", "indeterminate", "error",
             "deleted", "notDeleted", "died"}
Replies  == [kind : Kinds, version : Optional(Versions), recovery : SUBSET Leaves]
(* An absent version or outcome (Option::None) is none of them.            *)
ASSUME VersionAssumption == Nothing \notin Versions \union Replies

VARIABLES
  names,      \* the directories: names[d][l] is the object at leaf l of d
  data,       \* the bytes and stamp of every object, and the directory it is in
  born,       \* how many objects exist
  here,       \* the directory the destination's parent path leads to
  lock,       \* DURABLE_WRITE_LOCK
  pc,         \* where each call is
  request,    \* its arguments
  home,       \* the parent identity captured at its start
  place,      \* the directory in which it changed the destination
  handle,     \* the object of its open staged file
  staged,     \* staged_version
  seen,       \* observed_new
  saved,      \* displaced_bytes
  reply,      \* its outcome
  onDisk,     \* the states of the directories a power loss may bring back
  foreign,    \* count of the steps other programs have taken
  losses,     \* count of power losses
  strayed,    \* the synchronizations (call and label) that another program
              \* made miss by swapping the parent directory before them
  \* History: what the properties speak of.
  documents,  \* the objects that have been at the destination
  dropped,    \* the objects whose name another program removed
  effect,     \* {} or {v}: v was at the destination when the call changed it
  destroyed   \* the versions whose last name a call unlinked

ns    == <<names, effect, documents, dropped, destroyed>>
local == <<request, home, place, handle, staged, seen, saved>>
bounds == <<foreign, losses, strayed>>
vars  == <<ns, local, bounds, data, born, here, lock, pc, reply, onDisk>>

Init ==
  /\ born \in {0, 1}
  /\ data = [x \in Objects |-> [bytes |-> CHOOSE b \in Images : TRUE, stamp |-> 0,
                           dir |-> "home"]]
  /\ names = [d \in Dirs |-> [l \in Leaves |->
                IF d = "home" /\ l = Dest /\ born = 1 THEN 1 ELSE Nothing]]
  /\ documents = 1..born
  /\ here = "home"
  /\ lock = NoOp
  /\ pc = [o \in Ops |-> "idle"]
  /\ request = [o \in Ops |-> [kind |-> "write", expected |-> Nothing, bytes |-> Nothing]]
  /\ home = [o \in Ops |-> "home"]
  /\ place = [o \in Ops |-> "home"]
  /\ handle = [o \in Ops |-> Nothing]
  /\ staged = [o \in Ops |-> Nothing]
  /\ seen = [o \in Ops |-> Nothing]
  /\ saved = [o \in Ops |-> Nothing]
  /\ reply = [o \in Ops |-> Nothing]
  /\ dropped = {}
  /\ effect = [o \in Ops |-> {}]
  /\ destroyed = {}
  /\ foreign = 0
  /\ losses = 0
  /\ strayed = {}
  /\ onDisk = {[names |-> names, effect |-> effect, documents |-> documents,
                dropped |-> dropped, destroyed |-> destroyed]}

-------------------------------------------------------------------------------
(* The file system.                                                        *)

VersionOf(x) == [object |-> x, bytes |-> data[x].bytes, stamp |-> data[x].stamp]

(* capture_file_version of a leaf below the parent path.                   *)
Capture(l) == IF names[here][l] = Nothing THEN Nothing ELSE VersionOf(names[here][l])

(* FileVersion::is_displaced_version_of: equality but for the path.        *)
IsDisplacedVersionOf(v, w) == v # Nothing /\ v = w

Named(x) == \E d \in Dirs, l \in Leaves : names[d][l] = x

Image == [names |-> names, effect |-> effect, documents |-> documents,
          dropped |-> dropped, destroyed |-> destroyed]

(* An image with the directories of D as they are now.  A file never       *)
(* leaves its directory, and a call changes the destination in one, so     *)
(* their history belongs to that directory.                                *)
Renewed(old, now, D) ==
  {x \in old : data[x].dir \notin D} \union {x \in now : data[x].dir \in D}

Current(s, D) ==
  [names     |-> [d \in Dirs |-> IF d \in D THEN names[d] ELSE s.names[d]],
   effect    |-> [o \in Ops |-> IF place[o] \in D THEN effect[o] ELSE s.effect[o]],
   documents |-> Renewed(s.documents, documents, D),
   dropped   |-> Renewed(s.dropped, dropped, D),
   destroyed |-> {v \in s.destroyed : data[v.object].dir \notin D}
                   \union {v \in destroyed : data[v.object].dir \in D}]

(* What a change of the directories D may leave on the disk, and what      *)
(* their synchronization leaves: the others stay as uncertain as before.   *)
(* Of Windows nothing is claimed and nothing recorded.                     *)
Journal(D) ==
  onDisk' = IF Platform = "unix" THEN onDisk \union {Current(s, D)' : s \in onDisk} ELSE onDisk
Settle(D) ==
  onDisk' = IF Platform = "unix" THEN {Current(s, D)' : s \in onDisk} ELSE onDisk

(* sync_parent_directory_if_required opens the path of the parent again:   *)
(* it settles the directory to which it leads now.                         *)
Flush == Settle({here})

Bind(l, x) == names' = [names EXCEPT ![here][l] = x]

(* create_named_temp and the write of the bytes: a new object at leaf l.   *)
Create(l, b) ==
  /\ born < MaxObjects
  /\ born' = born + 1
  /\ data' = [data EXCEPT ![born + 1] = [bytes |-> b, stamp |-> foreign, dir |-> here]]
  /\ Bind(l, born + 1)

Goto(o, from, to) == pc[o] = from /\ pc' = [pc EXCEPT ![o] = to]

(* Mutant of Return: an early return that leaks the lock.                  *)
ReturnHoldingLock(o, kind, version, recovery) ==
  /\ reply' = [reply EXCEPT ![o] =
                 [kind |-> kind, version |-> version, recovery |-> recovery]]
  /\ pc' = [pc EXCEPT ![o] = "done"]
  /\ lock' = lock

(* Returning: the guard on DURABLE_WRITE_LOCK is dropped with the frame.   *)
Return(o, kind, version, recovery) ==
  /\ reply' = [reply EXCEPT ![o] =
                 [kind |-> kind, version |-> version, recovery |-> recovery]]
  /\ pc' = [pc EXCEPT ![o] = "done"]
  /\ lock' = NoOp

ReturnPure(o, kind, version, recovery) ==
  /\ Return(o, kind, version, recovery)
  /\ UNCHANGED <<ns, local, bounds, data, born, here, onDisk>>

(* existing_recovery_paths.                                                *)
Existing(ls) == {l \in ls : names[here][l] # Nothing}

(* The calls that only read or only move the control on.                   *)
Quiet == UNCHANGED <<ns, bounds, data, born, here, lock, reply, onDisk>>

-------------------------------------------------------------------------------
(* A call arrives with the version its caller saw, or with Absent.         *)
Call(o) ==
  /\ pc[o] = "idle"
  /\ \/ \E expected \in {Capture(Dest), Nothing}, b \in Images :
          request' = [request EXCEPT ![o] =
                        [kind |-> "write", expected |-> expected, bytes |-> b]]
     \/ /\ Capture(Dest) # Nothing
        /\ request' = [request EXCEPT ![o] =
                         [kind |-> "remove", expected |-> Capture(Dest), bytes |-> Nothing]]
  /\ pc' = [pc EXCEPT ![o] = "waiting"]
  /\ UNCHANGED <<ns, bounds, data, born, here, lock, reply, onDisk, home, place,
                 handle, staged, seen, saved>>

(* DURABLE_WRITE_LOCK, and the identity of the parent directory.           *)
Acquire(o) ==
  /\ pc[o] = "waiting"
  /\ lock = NoOp
  /\ lock' = o
  /\ pc' = [pc EXCEPT ![o] = IF request[o].kind = "write" THEN "stage" ELSE "inspect"]
  /\ home' = [home EXCEPT ![o] = here]
  /\ UNCHANGED <<ns, bounds, data, born, here, reply, onDisk, request, place,
                 handle, staged, seen, saved>>

-------------------------------------------------------------------------------
(* durable_write up to the mutation boundary.                              *)

(* The staged file: created, written, synchronized and captured under a    *)
(* random private name, which no other program knows before it exists.     *)
Stage(o) ==
  /\ Goto(o, "stage", "retain")
  /\ Create(Staged(o), request[o].bytes)
  /\ handle' = [handle EXCEPT ![o] = born + 1]
  /\ staged' = [staged EXCEPT ![o] =
                  [object |-> born + 1, bytes |-> request[o].bytes, stamp |-> foreign]]
  /\ UNCHANGED <<effect, documents, dropped, destroyed, bounds, here, lock, reply,
                 request, home, place, seen, saved>>
  /\ Journal({here})

(* create_recovery_image: the intended bytes once more, file synchronized. *)
Retain(o) ==
  /\ Goto(o, "retain", "retainSync")
  /\ Create(Recovery(o), request[o].bytes)
  /\ UNCHANGED <<effect, documents, dropped, destroyed, local, bounds, here, lock, reply>>
  /\ Journal({here})

(* create_synced_image, its last step: the directory of the image.         *)
RetainSync(o) ==
  /\ Goto(o, "retainSync", "compare")
  /\ UNCHANGED <<ns, local, bounds, data, born, here, lock, reply>>
  /\ Flush

(* Until the comparison every failure is the Err of the function.          *)
StagingFails(o) ==
  /\ pc[o] \in {"stage", "retain", "retainSync", "compare"}
  /\ ReturnPure(o, "error", Nothing, {})

(* The destination must be what the caller saw.                            *)
CompareMatches(o) ==
  /\ Goto(o, "compare", "parent")
  /\ Capture(Dest) = request[o].expected
  /\ Quiet /\ UNCHANGED local

CompareConflicts(o) ==
  /\ pc[o] = "compare"
  /\ Capture(Dest) # request[o].expected
  /\ Return(o, "conflict", Capture(Dest), {Recovery(o)})
  /\ Bind(Staged(o), Nothing)
  /\ UNCHANGED <<effect, documents, dropped, destroyed, local, bounds, data, born, here>>
  /\ Journal({here})

(* A spare of the intended bytes in directory d, a copy of image in the    *)
(* temp directory.                                                         *)
WithSpares(intended, image, d) ==
  [data EXCEPT ![born + 1] = [bytes |-> intended, stamp |-> foreign, dir |-> d],
               ![born + 2] = [bytes |-> IF image = Nothing THEN intended ELSE image,
                              stamp |-> foreign, dir |-> "temp"]]

(* parent_change_indeterminate: the known evidence that the new tree still *)
(* shows, a spare of the intended bytes in the new tree or in the temp     *)
(* directory, a copy of the displaced bytes in the temp directory; either  *)
(* may fail to be made.                                                    *)
ParentChanged(o, known, image) ==
  /\ here # home[o]
  /\ born + 2 <= MaxObjects
  /\ born' = born + 2
  /\ \E kept \in SUBSET ({Spare(o)} \union IF image = Nothing THEN {} ELSE {Copy(o)}),
        at \in {here, "temp"} :
       /\ names' = [d \in Dirs |-> [l \in Leaves |->
                      IF d = at /\ l = Spare(o) /\ l \in kept THEN born + 1
                      ELSE IF d = "temp" /\ l = Copy(o) /\ l \in kept THEN born + 2
                      ELSE names[d][l]]]
       /\ data' = WithSpares(request[o].bytes, image, at)
       /\ Return(o, "indeterminate", Nothing, Existing(known) \union kept)
       /\ UNCHANGED <<effect, documents, dropped, destroyed, local, bounds, here>>
       /\ LET made == {d \in Dirs : \/ d = at /\ Spare(o) \in kept
                                    \/ d = "temp" /\ Copy(o) \in kept}
          IN  Settle(made)

CheckParent(o) ==
  \/ /\ Goto(o, "parent", "revalidate")
     /\ here = home[o]
     /\ Quiet /\ UNCHANGED local
  \/ /\ pc[o] = "parent"
     /\ ParentChanged(o, {Recovery(o)}, Nothing)

(* The staged path must still be the image that was synchronized.          *)
CheckStaged(o) ==
  /\ Goto(o, "revalidate", "install")
  /\ Capture(Staged(o)) = staged[o]
  /\ Quiet /\ UNCHANGED local

(* The staged path changed or could not be read.                           *)
CheckStagedFails(o) ==
  /\ Goto(o, "revalidate", "classify")
  /\ Quiet /\ UNCHANGED local

-------------------------------------------------------------------------------
(* The mutation.                                                           *)

Mutates(o, to) ==
  /\ Goto(o, "install", to)
  /\ names[here][Staged(o)] # Nothing
  /\ documents' = documents \union {names[here][Staged(o)]}
  /\ effect' = [effect EXCEPT ![o] = {Capture(Dest)}]
  /\ place' = [place EXCEPT ![o] = here]
  /\ UNCHANGED <<dropped, destroyed, request, home, handle, staged, seen, saved, bounds, data,
                 born, here, lock, reply>>
  /\ Journal({here})

(* install_expected_absent: hard_link keeps the staged alias, MoveFileExW  *)
(* does not; neither replaces an existing destination.                     *)
InstallAbsent(o) ==
  /\ request[o].expected = Nothing
  /\ names[here][Dest] = Nothing
  /\ names' = [names EXCEPT
                 ![here][Dest] = names[here][Staged(o)],
                 ![here][Staged(o)] = IF Platform = "unix" THEN @ ELSE Nothing]
  /\ Mutates(o, "created")

InstallFindsFile(o) ==
  /\ Goto(o, "install", "exists")
  /\ request[o].expected = Nothing
  /\ names[here][Dest] # Nothing
  /\ Quiet /\ UNCHANGED local

(* Mutant of Replace: rename(2), which keeps no backup.                    *)
ReplaceByRename(o) ==
  /\ request[o].expected # Nothing
  /\ names[here][Dest] # Nothing
  /\ names' = [names EXCEPT ![here][Dest] = names[here][Staged(o)],
                            ![here][Staged(o)] = Nothing]
  /\ Mutates(o, "replaced")

(* atomic_replace_with_backup.                                             *)
Replace(o) ==
  /\ request[o].expected # Nothing
  /\ names[here][Dest] # Nothing
  /\ names' = [names EXCEPT
                 ![here][Dest] = names[here][Staged(o)],
                 ![here][Staged(o)] = Nothing,
                 ![here][Displaced(o)] = names[here][Dest]]
  /\ Mutates(o, "replaced")

(* ReplaceFileW errors 1177 (the destination moved to the backup name, the *)
(* stage stayed) and 1176 (nothing moved).                                 *)
ReplacePartially(o) ==
  /\ Platform = "windows"
  /\ Goto(o, "install", "partial")
  /\ request[o].expected # Nothing
  /\ names[here][Dest] # Nothing
  /\ \/ /\ names' = [names EXCEPT ![here][Dest] = Nothing,
                                  ![here][Displaced(o)] = names[here][Dest]]
        /\ effect' = [effect EXCEPT ![o] = {Capture(Dest)}]
     \/ UNCHANGED <<names, effect>>
  /\ place' = [place EXCEPT ![o] = here]
  /\ UNCHANGED <<documents, dropped, destroyed, request, home, handle, staged, seen, saved,
                 bounds, data, born, here, lock, reply>>
  /\ Journal({here})

ReportPartial(o) ==
  /\ pc[o] = "partial"
  /\ ReturnPure(o, "indeterminate", Nothing, Existing({Recovery(o), Displaced(o)}))

(* Any other failure of the primitive.                                     *)
InstallFails(o) ==
  /\ Goto(o, "install", IF request[o].expected = Nothing THEN "classify" ELSE "classifyReplace")
  /\ Quiet /\ UNCHANGED local

(* classify_failed_attempt: only a destination that is still the expected  *)
(* version proves that nothing was committed.                              *)
Classify(o) ==
  LET evidence == {Recovery(o)} \union
                  IF pc[o] = "classify" THEN {} ELSE Existing({Displaced(o)})
  IN  /\ pc[o] \in {"classify", "classifyReplace"}
      /\ \/ /\ Capture(Dest) = request[o].expected
            /\ ReturnPure(o, "notCommitted", Capture(Dest), evidence)
         \/ ReturnPure(o, "indeterminate", Nothing, evidence)

ReportExisting(o) ==
  /\ pc[o] = "exists"
  /\ \/ /\ Capture(Dest) # Nothing
        /\ ReturnPure(o, "conflict", Capture(Dest), {Recovery(o)})
     \/ ReturnPure(o, "indeterminate", Nothing, {Recovery(o)})

-------------------------------------------------------------------------------
(* After a creation.                                                       *)

(* creation_indeterminate retires the staging alias.                       *)
CreationIndeterminate(o) ==
  /\ pc[o] \in {"createdHandle", "createdObserve"}
  /\ names' = [names EXCEPT ![here][Staged(o)] = IF Platform = "unix" THEN Nothing ELSE @]
  /\ Return(o, "indeterminate", Nothing, Existing({Recovery(o)}))
  /\ UNCHANGED <<effect, documents, dropped, destroyed, local, bounds, data, born, here>>
  /\ Journal({here})

CreatedCheckParent(o) ==
  \/ /\ Goto(o, "created", "createdHandle")
     /\ here = home[o]
     /\ Quiet /\ UNCHANGED local
  \/ /\ pc[o] = "created"
     /\ ParentChanged(o, {Recovery(o)}, Nothing)

(* open_file_matches_bytes on the staged handle.                           *)
CreatedCheckHandle(o) ==
  /\ Goto(o, "createdHandle", "createdObserve")
  /\ data[handle[o]].bytes = request[o].bytes
  /\ Quiet /\ UNCHANGED local

CreatedObserve(o) ==
  /\ Goto(o, "createdObserve", IF Platform = "unix" THEN "createdAlias" ELSE "createdSync")
  /\ Capture(Dest) # Nothing
  /\ Capture(Dest).bytes = request[o].bytes
  /\ seen' = [seen EXCEPT ![o] = Capture(Dest)]
  /\ Quiet /\ UNCHANGED <<request, home, place, handle, staged, saved>>

CreatedRetireAlias(o) ==
  /\ Goto(o, "createdAlias", "createdSync")
  /\ names[here][Staged(o)] # Nothing
  /\ Bind(Staged(o), Nothing)
  /\ UNCHANGED <<effect, documents, dropped, destroyed, local, bounds, data, born, here,
                 lock, reply>>
  /\ Journal({here})

(* Mutant of CreatedSync: success reported before the directory is synced. *)
CreatedSyncForgotten(o) ==
  /\ pc[o] = "createdSync"
  /\ Return(o, "committed", seen[o], {Recovery(o)})
  /\ UNCHANGED <<ns, local, bounds, data, born, here, onDisk>>

CreatedSync(o) ==
  /\ pc[o] = "createdSync"
  /\ Return(o, "committed", seen[o], {Recovery(o)})
  /\ UNCHANGED <<ns, local, bounds, data, born, here>>
  /\ Flush

CreatedFinishFails(o) ==
  /\ pc[o] \in {"createdAlias", "createdSync"}
  /\ ReturnPure(o, "indeterminate", Nothing,
                IF pc[o] = "createdAlias" THEN Existing({Recovery(o)}) ELSE {Recovery(o)})

-------------------------------------------------------------------------------
(* After a replacement.                                                    *)

(* fs::read of the displaced file, whose failure is not an error.          *)
SaveDisplacedBytes(o) ==
  /\ Goto(o, "replaced", "replacedParent")
  /\ \E image \in {Nothing} \union
                  IF Capture(Displaced(o)) = Nothing THEN {}
                                                     ELSE {Capture(Displaced(o)).bytes} :
       saved' = [saved EXCEPT ![o] = image]
  /\ Quiet /\ UNCHANGED <<request, home, place, handle, staged, seen>>

ReplacedCheckParent(o) ==
  \/ /\ Goto(o, "replacedParent", IF Platform = "unix" THEN "replacedHandle" ELSE "replacedNew")
     /\ here = home[o]
     /\ Quiet /\ UNCHANGED local
  \/ /\ pc[o] = "replacedParent"
     /\ ParentChanged(o, {Recovery(o), Displaced(o)}, saved[o])

ReplacedCheckHandle(o) ==
  /\ Goto(o, "replacedHandle", "replacedNew")
  /\ data[handle[o]].bytes = request[o].bytes
  /\ Quiet /\ UNCHANGED local

ReplacedHandleFails(o) ==
  /\ pc[o] = "replacedHandle"
  /\ ReturnPure(o, "indeterminate", Nothing, Existing({Recovery(o), Displaced(o)}))

(* Mutant of ReplacedObserveNew: the metadata observed, not the bytes.     *)
ReplacedObserveMetadata(o) ==
  /\ Goto(o, "replacedNew", "replacedOld")
  /\ seen' = [seen EXCEPT ![o] = IF Capture(Dest) = Nothing THEN Nothing
                                 ELSE [Capture(Dest) EXCEPT !.bytes = Nothing]]
  /\ Quiet /\ UNCHANGED <<request, home, place, handle, staged, saved>>

ReplacedObserveNew(o) ==
  /\ Goto(o, "replacedNew", "replacedOld")
  /\ seen' = [seen EXCEPT ![o] = Capture(Dest)]
  /\ Quiet /\ UNCHANGED <<request, home, place, handle, staged, saved>>

(* Mutant of ReplacedCompare: only the destination is compared.            *)
ReplacedCompareNewOnly(o) ==
  /\ Goto(o, "replacedOld", "replacedSync")
  /\ IsDisplacedVersionOf(seen[o], staged[o])
  /\ Quiet /\ UNCHANGED local

(* The displaced file must be the expected version and the destination the *)
(* synchronized stage.                                                     *)
ReplacedCompare(o) ==
  /\ Goto(o, "replacedOld", "replacedSync")
  /\ IsDisplacedVersionOf(Capture(Displaced(o)), request[o].expected)
  /\ IsDisplacedVersionOf(seen[o], staged[o])
  /\ Quiet /\ UNCHANGED local

ReplacedSync(o) ==
  /\ Goto(o, "replacedSync", "replacedBind")
  /\ UNCHANGED <<ns, local, bounds, data, born, here, lock, reply>>
  /\ Flush

(* capture_committed_file_version keeps the object open.                   *)
ReplacedBind(o) ==
  /\ Goto(o, "replacedBind", "replacedRetire")
  /\ Capture(Dest) = seen[o]
  /\ Quiet /\ UNCHANGED local

ReplacedRetire(o) ==
  /\ pc[o] = "replacedRetire"
  /\ names[here][Recovery(o)] # Nothing
  /\ Bind(Recovery(o), Nothing)
  /\ Return(o, "committed", seen[o], {Displaced(o)})
  /\ UNCHANGED <<effect, documents, dropped, destroyed, local, bounds, data, born, here>>
  /\ Journal({here})

(* Mutant of ReplacedFails: a failure after the replacement called a       *)
(* failure to commit.                                                      *)
ReplacedFailsAsNotCommitted(o) ==
  /\ pc[o] \in {"replacedNew", "replacedOld", "replacedSync", "replacedBind", "replacedRetire"}
  /\ ReturnPure(o, "notCommitted", Nothing, {Recovery(o), Displaced(o)})

(* One of these checks came out wrong or could not be made.                *)
ReplacedFails(o) ==
  /\ pc[o] \in {"replacedNew", "replacedOld", "replacedSync", "replacedBind", "replacedRetire"}
  /\ ReturnPure(o, "indeterminate", Nothing, {Recovery(o), Displaced(o)})

-------------------------------------------------------------------------------
(* durable_remove_exact.                                                   *)

Inspect(o) ==
  \/ /\ Goto(o, "inspect", "quarantine")
     /\ Capture(Dest) = request[o].expected
     /\ Quiet /\ UNCHANGED local
  \/ /\ pc[o] = "inspect"
     /\ Capture(Dest) = Nothing
     /\ ReturnPure(o, "notDeleted", Nothing, {})
  \/ /\ pc[o] = "inspect"
     /\ Capture(Dest) \notin {Nothing, request[o].expected}
     /\ ReturnPure(o, "conflict", Capture(Dest), {})

(* atomic_move_no_replace to a random private name.                        *)
MoveToQuarantine(o) ==
  /\ Goto(o, "quarantine", "quarantineSync")
  /\ names[here][Dest] # Nothing
  /\ names' = [names EXCEPT ![here][Quarantine(o)] = names[here][Dest],
                            ![here][Dest] = Nothing]
  /\ effect' = [effect EXCEPT ![o] = {Capture(Dest)}]
  /\ place' = [place EXCEPT ![o] = here]
  /\ UNCHANGED <<documents, dropped, destroyed, request, home, handle, staged, seen, saved,
                 bounds, data, born, here, lock, reply>>
  /\ Journal({here})

MoveFails(o) ==
  /\ Goto(o, "quarantine", "reinspect")
  /\ Quiet /\ UNCHANGED local

Reinspect(o) ==
  /\ pc[o] = "reinspect"
  /\ ReturnPure(o, IF Capture(Dest) = request[o].expected THEN "notDeleted" ELSE "conflict",
                Capture(Dest), {})

QuarantineSync(o) ==
  /\ Goto(o, "quarantineSync", "examine")
  /\ UNCHANGED <<ns, local, bounds, data, born, here, lock, reply>>
  /\ Flush

(* What was moved must be the expected version; otherwise it goes back to  *)
(* a destination that is still free, or stays as evidence.                 *)
Examine(o) ==
  /\ Goto(o, "examine",
          IF IsDisplacedVersionOf(Capture(Quarantine(o)), request[o].expected)
          THEN "unlink" ELSE "assess")
  /\ Quiet /\ UNCHANGED local

Assess(o) ==
  \/ /\ Goto(o, "assess", "restore")
     /\ Quiet /\ UNCHANGED local
  \/ /\ pc[o] = "assess"
     /\ Capture(Dest) # Nothing
     /\ ReturnPure(o, "conflict", Capture(Dest), {Quarantine(o)})

Restore(o) ==
  /\ Goto(o, "restore", "restoreSync")
  /\ names[here][Quarantine(o)] # Nothing
  /\ names[here][Dest] = Nothing
  /\ names' = [names EXCEPT ![here][Dest] = names[here][Quarantine(o)],
                            ![here][Quarantine(o)] = Nothing]
  /\ effect' = [effect EXCEPT ![o] = {}]
  /\ UNCHANGED <<documents, dropped, destroyed, local, bounds, data, born, here, lock, reply>>
  /\ Journal({here})

RestoreFails(o) ==
  /\ pc[o] = "restore"
  /\ ReturnPure(o, "conflict", Nothing, {Quarantine(o)})

RestoreSync(o) ==
  /\ pc[o] = "restoreSync"
  /\ Return(o, "conflict", Capture(Dest), {})
  /\ UNCHANGED <<ns, local, bounds, data, born, here>>
  /\ Flush

(* Mutant of Unlink: the version not verified again.                       *)
UnlinkUnverified(o) ==
  /\ Goto(o, "unlink", "unlinkSync")
  /\ names[here][Quarantine(o)] # Nothing
  /\ Bind(Quarantine(o), Nothing)
  /\ destroyed' = destroyed \union {Capture(Quarantine(o))}
  /\ UNCHANGED <<effect, documents, dropped, local, bounds, data, born, here, lock, reply>>
  /\ Journal({here})

(* delete_quarantine_exact.  POSIX cannot unlink by handle: the code       *)
(* promises the check and the unlink as one step only against other MMD    *)
(* instances, which is what one action says.                               *)
Unlink(o) ==
  /\ Goto(o, "unlink", "unlinkSync")
  /\ IsDisplacedVersionOf(Capture(Quarantine(o)), request[o].expected)
  /\ Bind(Quarantine(o), Nothing)
  /\ destroyed' = destroyed \union {Capture(Quarantine(o))}
  /\ UNCHANGED <<effect, documents, dropped, local, bounds, data, born, here, lock, reply>>
  /\ Journal({here})

UnlinkMismatch(o) ==
  /\ pc[o] = "unlink"
  /\ Capture(Quarantine(o)) \notin {Nothing, request[o].expected}
  /\ ReturnPure(o, "conflict", Capture(Dest), {Quarantine(o)})

UnlinkSync(o) ==
  /\ pc[o] = "unlinkSync"
  /\ Return(o, "deleted", Nothing, {})
  /\ UNCHANGED <<ns, local, bounds, data, born, here>>
  /\ Flush

RemoveFails(o) ==
  \/ /\ pc[o] \in {"inspect", "quarantine", "reinspect"}
     /\ ReturnPure(o, "indeterminate", Nothing, {})
  \/ /\ pc[o] \in {"quarantineSync", "examine", "restoreSync", "unlink", "unlinkSync"}
     /\ ReturnPure(o, "indeterminate", Nothing, {Quarantine(o)})

-------------------------------------------------------------------------------
(* Other programs: they write, replace and remove the destination, touch   *)
(* the private leaves of the running call (except the recovery image), and *)
(* swap the parent directory.  An in-place write may go through a handle   *)
(* opened before the file moved, so it reaches displaced files too.        *)
Private == IF lock = NoOp THEN {} ELSE {Staged(lock), Displaced(lock), Quarantine(lock)}

Foreign ==
  /\ foreign < MaxForeign
  /\ foreign' = foreign + 1
  /\ UNCHANGED <<local, losses, lock, pc, reply, effect, destroyed>>

ForeignWrites ==
  /\ Foreign
  /\ \E l \in {Dest} \union Private, b \in Images :
       /\ names[here][l] # Nothing
       /\ data' = [data EXCEPT ![names[here][l]] = [bytes |-> b, stamp |-> foreign + 1, dir |-> here]]
  /\ UNCHANGED <<names, documents, dropped, born, here, strayed, onDisk>>

ForeignReplaces ==
  /\ Foreign
  /\ born < MaxObjects
  /\ born' = born + 1
  /\ \E l \in {Dest} \union (IF lock = NoOp THEN {} ELSE {Staged(lock)}), b \in Images :
       /\ l # Dest => names[here][l] # Nothing
       /\ Bind(l, born + 1)
       /\ data' = [data EXCEPT ![born + 1] = [bytes |-> b, stamp |-> foreign + 1, dir |-> here]]
       /\ documents' = IF l = Dest THEN documents \union {born + 1} ELSE documents
       /\ dropped' = dropped \union ({names[here][l]} \ {Nothing})
  /\ UNCHANGED <<here, strayed>>
  /\ Journal({here})

ForeignRemoves ==
  /\ Foreign
  /\ \E l \in {Dest} \union (IF lock = NoOp THEN {} ELSE {Staged(lock)}) :
       /\ names[here][l] # Nothing
       /\ Bind(l, Nothing)
       /\ dropped' = dropped \union {names[here][l]}
  /\ UNCHANGED <<data, documents, born, here, strayed>>
  /\ Journal({here})

(* The path leads to another directory from here on, also for a call that  *)
(* is about to synchronize what it has changed.                            *)
Syncs == {"retainSync", "createdSync", "replacedSync", "restoreSync", "unlinkSync"}

SwapParent ==
  /\ Foreign
  /\ here' \in Parents \ {here}
  /\ strayed' = strayed \union {<<o, pc[o]>> : o \in {p \in Ops : pc[p] \in Syncs}}
  /\ UNCHANGED <<names, data, documents, dropped, born, onDisk>>

(* The machine stops: every call ends without an answer, and each          *)
(* directory comes back as it was at its last synchronization or later.    *)
PowerLoss ==
  /\ losses < MaxPowerLoss
  /\ losses' = losses + 1
  /\ \E image \in onDisk :
       /\ names' = image.names
       /\ effect' = image.effect
       /\ documents' = image.documents
       /\ dropped' = image.dropped
       /\ destroyed' = image.destroyed
  /\ onDisk' = {Image'}
  /\ pc' = [o \in Ops |-> IF pc[o] = "idle" THEN "idle" ELSE "done"]
  /\ reply' = [o \in Ops |->
                 IF pc[o] \in {"idle", "done"} THEN reply[o]
                 ELSE [kind |-> "died", version |-> Nothing, recovery |-> {}]]
  /\ lock' = NoOp
  /\ UNCHANGED <<local, foreign, strayed, data, born, here>>

WriteStep(o) ==
  \/ Stage(o) \/ Retain(o) \/ RetainSync(o) \/ StagingFails(o)
  \/ CompareMatches(o) \/ CompareConflicts(o)
  \/ CheckParent(o) \/ CheckStaged(o) \/ CheckStagedFails(o)
  \/ InstallAbsent(o) \/ InstallFindsFile(o) \/ Replace(o) \/ ReplacePartially(o)
  \/ ReportPartial(o) \/ InstallFails(o) \/ Classify(o) \/ ReportExisting(o)
  \/ CreationIndeterminate(o) \/ CreatedCheckParent(o) \/ CreatedCheckHandle(o)
  \/ CreatedObserve(o) \/ CreatedRetireAlias(o) \/ CreatedSync(o) \/ CreatedFinishFails(o)
  \/ SaveDisplacedBytes(o) \/ ReplacedCheckParent(o) \/ ReplacedCheckHandle(o)
  \/ ReplacedHandleFails(o) \/ ReplacedObserveNew(o) \/ ReplacedCompare(o)
  \/ ReplacedSync(o) \/ ReplacedBind(o) \/ ReplacedRetire(o) \/ ReplacedFails(o)

RemoveStep(o) ==
  \/ Inspect(o) \/ MoveToQuarantine(o) \/ MoveFails(o) \/ Reinspect(o) \/ QuarantineSync(o)
  \/ Examine(o) \/ Assess(o) \/ Restore(o) \/ RestoreFails(o) \/ RestoreSync(o)
  \/ Unlink(o) \/ UnlinkMismatch(o) \/ UnlinkSync(o) \/ RemoveFails(o)

OpStep(o) == Acquire(o) \/ WriteStep(o) \/ RemoveStep(o)

Environment == ForeignWrites \/ ForeignReplaces \/ ForeignRemoves \/ SwapParent \/ PowerLoss

Next == (\E o \in Ops : Call(o) \/ OpStep(o)) \/ Environment

(* A thread that runs keeps running, and no system call blocks for ever.   *)
Spec == Init /\ [][Next]_vars /\ \A o \in Ops : WF_vars(OpStep(o))

-------------------------------------------------------------------------------
WriteLabels == {"stage", "retain", "retainSync", "compare", "parent", "revalidate", "install", "exists",
  "partial", "classify", "classifyReplace", "created", "createdHandle", "createdObserve",
  "createdAlias", "createdSync", "replaced", "replacedParent", "replacedHandle",
  "replacedNew", "replacedOld", "replacedSync", "replacedBind", "replacedRetire"}
RemoveLabels == {"inspect", "quarantine", "reinspect", "quarantineSync", "examine", "assess",
  "restore", "restoreSync", "unlink", "unlinkSync"}
Labels == {"idle", "waiting", "done"} \union WriteLabels \union RemoveLabels

Namespaces == [Dirs -> [Leaves -> Optional(Objects)]]
DiskImages == [names : Namespaces, effect : [Ops -> SUBSET Optional(Versions)],
               documents : SUBSET Objects, dropped : SUBSET Objects,
               destroyed : SUBSET Versions]

(* The type of every variable.                                             *)
TypeOK ==
  /\ Image \in DiskImages
  /\ data \in [Objects -> [bytes : Images, stamp : 0..MaxForeign, dir : Dirs]]
  /\ born \in 0..MaxObjects
  /\ here \in Parents
  /\ lock \in Ops \union {NoOp}
  /\ pc \in [Ops -> Labels]
  /\ request \in [Ops -> Requests]
  /\ home \in [Ops -> Parents]
  /\ place \in [Ops -> Parents]
  /\ handle \in [Ops -> Optional(Objects)]
  /\ staged \in [Ops -> Optional(Versions)]
  /\ seen \in [Ops -> Optional(Versions)]
  /\ saved \in [Ops -> Optional(Images)]
  /\ reply \in [Ops -> Optional(Replies)]
  /\ onDisk \subseteq DiskImages
  /\ foreign \in 0..MaxForeign
  /\ losses \in 0..MaxPowerLoss
  /\ strayed \subseteq Ops \X Syncs

Answered(o, kinds) == reply[o] # Nothing /\ reply[o].kind \in kinds

(* Another program swapped the parent directory between what the call did  *)
(* in it and its synchronization, after every check the code makes: the    *)
(* synchronization settled another directory (or the same one, if it was   *)
(* swapped back).                                                          *)
Missed(o, syncs) == \E l \in syncs : <<o, l>> \in strayed
Adrift(o) == Missed(o, {"createdSync", "replacedSync", "restoreSync", "unlinkSync"})

(* A file that has been at the destination keeps a name until another      *)
(* program removes it or a delete has verified it: replacement, creation,  *)
(* quarantine and their failures displace files and never lose one.        *)
NoDocumentLost ==
  \A x \in documents :
    Named(x) \/ x \in dropped \/ \E v \in destroyed : v.object = x

(* durable_remove_exact unlinks nothing but the very version its caller    *)
(* saw, even if the destination changes at the mutation boundary or a file *)
(* is edited in quarantine.                                                *)
OnlyExpectedDestroyed ==
  \A v \in destroyed : \E o \in Ops :
    request[o].kind = "remove" /\ request[o].expected = v /\ effect[o] = {v}

(* A confirmed commit displaced exactly the version its caller expected    *)
(* (or created the file where there was none) and the version it reports   *)
(* has the caller's bytes; a confirmed deletion removed exactly that       *)
(* version.  Only a power loss after a missed synchronization undoes it.   *)
ConfirmedIsExact ==
  \A o \in Ops :
    /\ Answered(o, {"committed", "deleted"}) =>
         effect[o] = {request[o].expected} \/ (Adrift(o) /\ losses > 0)
    /\ Answered(o, {"committed"}) => reply[o].version.bytes = request[o].bytes

(* "Not committed", "not deleted", an error, the conflict of a write and a *)
(* conflict of a delete that reports no quarantine all mean that the call  *)
(* left the destination alone, or put it back where a power loss after a   *)
(* missed synchronization may take it again.                               *)
DeniedIsUntouched ==
  \A o \in Ops :
    \/ Answered(o, {"notCommitted", "notDeleted", "error"})
    \/ Answered(o, {"conflict"}) /\ (request[o].kind = "write" \/ reply[o].recovery = {})
    => effect[o] = {} \/ (Adrift(o) /\ losses > 0)

(* From the comparison until the commit is confirmed the intended bytes    *)
(* are in the recovery image, whatever fails, whoever touches the other    *)
(* files, and (on unix) in every state a power loss can leave, unless the  *)
(* synchronization of the image was missed.                                *)
AwaitingCommit(o) ==
  \/ pc[o] \in WriteLabels \ {"stage", "retain", "retainSync"}
  \/ request[o].kind = "write" /\ Answered(o, {"notCommitted", "conflict", "indeterminate"})

Retained(o, m) ==
  \E d \in Dirs : /\ m[d][Recovery(o)] # Nothing
                  /\ data[m[d][Recovery(o)]].bytes = request[o].bytes

IntendedRetained ==
  \A o \in Ops : AwaitingCommit(o) =>
    LET missed == Missed(o, {"retainSync"})
    IN  /\ (missed /\ losses > 0) \/ Retained(o, names)
        /\ Platform = "unix" /\ ~ missed => \A s \in onDisk : Retained(o, s.names)

(* What was confirmed cannot be undone by a power loss, whatever other     *)
(* programs do to the files and to the parent directory, except by         *)
(* swapping that directory in the one moment between the last look the     *)
(* code takes at its own change and the synchronization that follows: the  *)
(* path then leads to a directory that was not changed.                    *)
ConfirmedIsDurable ==
  Platform = "unix" =>
    \A o \in Ops : Answered(o, {"committed", "deleted"}) /\ ~ Adrift(o) =>
      \A s \in onDisk : s.effect[o] = effect[o]

(* A waiting call is answered (or dies with the machine): nobody keeps     *)
(* DURABLE_WRITE_LOCK and no failure path forgets to return.               *)
EveryCallReturns == \A o \in Ops : pc[o] = "waiting" ~> pc[o] = "done"

-------------------------------------------------------------------------------
(* The contract the rest of the program relies on.                         *)
Contract == INSTANCE ExactFile WITH
  cell   <- Capture(Dest),
  adrift <- {o \in Ops : Adrift(o)},
  answer <- [o \in Ops |-> IF reply[o] = Nothing THEN "none"
                           ELSE IF reply[o].kind = "conflict" /\ request[o].kind = "remove"
                                   /\ reply[o].recovery # {} THEN "indeterminate"
                           ELSE reply[o].kind]

ImplementsContract == Contract!Spec
===============================================================================
