-------------------------- MODULE DurableWriteProofs --------------------------
(***************************************************************************)
(* Theorems about DurableWrite, for every set of calls, every set of file  *)
(* contents and every value of the bounds: the types; that no call, and no *)
(* failure or power loss in one, makes a document disappear; that every    *)
(* answer is exact, the intended bytes are kept until a commit is          *)
(* confirmed, and the calls implement the contract of ExactFile.           *)
(***************************************************************************)
EXTENDS MCDurableWrite, TLAPS

LEMMA LeafType ==
  ASSUME NEW o \in Ops
  PROVE  {Dest, Staged(o), Recovery(o), Quarantine(o), Spare(o), Copy(o), Displaced(o)}
           \subseteq Leaves
  BY DEF Leaves, Roles, Dest, Staged, Recovery, Quarantine, Spare, Copy, Displaced

LEMMA LabelsApart ==
  /\ {"idle", "waiting", "done"} \intersect (WriteLabels \union RemoveLabels) = {}
  /\ WriteLabels \intersect RemoveLabels = {}
  BY DEF WriteLabels, RemoveLabels

-------------------------------------------------------------------------------
(* Types.                                                                  *)

(* A write is asked with bytes, and each kind of call stays on its path.   *)
RequestOK ==
  \A o \in Ops :
    /\ request[o].kind = "write" /\ pc[o] # "idle" => request[o].bytes \in Images
    /\ pc[o] \in WriteLabels => request[o].kind = "write"
    /\ pc[o] \in RemoveLabels => request[o].kind = "remove"

TypeInv == TypeOK /\ RequestOK

(* The invariant in parts, each of which most actions leave alone.         *)
NamesOK ==
  /\ names \in Namespaces
  /\ effect \in [Ops -> SUBSET Optional(Versions)]
  /\ documents \in SUBSET Objects
  /\ dropped \in SUBSET Objects
  /\ destroyed \in SUBSET Versions

FilesOK ==
  /\ data \in [Objects -> [bytes : Images, stamp : 0..MaxForeign, dir : Dirs]]
  /\ born \in 0..MaxObjects
  /\ here \in Parents
  /\ foreign \in 0..MaxForeign
  /\ losses \in 0..MaxPowerLoss
  /\ strayed \subseteq Ops \X Syncs

ControlOK ==
  /\ lock \in Ops \union {NoOp}
  /\ pc \in [Ops -> Labels]
  /\ request \in [Ops -> Requests]
  /\ reply \in [Ops -> Optional(Replies)]
  /\ RequestOK

LocalOK ==
  /\ home \in [Ops -> Parents]
  /\ place \in [Ops -> Parents]
  /\ handle \in [Ops -> Optional(Objects)]
  /\ staged \in [Ops -> Optional(Versions)]
  /\ seen \in [Ops -> Optional(Versions)]
  /\ saved \in [Ops -> Optional(Images)]

DiskOK == onDisk \subseteq DiskImages

LEMMA Parts ==
  /\ TypeInv <=> NamesOK /\ FilesOK /\ ControlOK /\ LocalOK /\ DiskOK
  /\ TypeInv' <=> NamesOK' /\ FilesOK' /\ ControlOK' /\ LocalOK' /\ DiskOK'
  BY DEF TypeInv, TypeOK, NamesOK, FilesOK, ControlOK, LocalOK, DiskOK, Image, DiskImages

(* A captured version is a version of an existing file.                    *)
LEMMA BoundType ==
  ASSUME NamesOK, FilesOK, NEW l \in Leaves
  PROVE  names[here][l] \in Optional(Objects)
  BY DEF NamesOK, FilesOK, Namespaces, Parents, Dirs

LEMMA CaptureType ==
  ASSUME NamesOK, FilesOK, NEW l \in Leaves
  PROVE  Capture(l) \in Optional(Versions)
  BY BoundType DEF FilesOK, Capture, VersionOf, Versions, Optional

(* What a step leaves on the disk: images that were there, or such images  *)
(* with some directories as they are now.                                  *)
DiskStep ==
  \A t \in onDisk' : t \in onDisk \/ \E s \in onDisk : \E D : t = Current(s, D)'

LEMMA HereDisk ==
  ASSUME here' = here, Journal({here}) \/ Flush
  PROVE  DiskStep
  BY DEF Journal, Flush, Settle, DiskStep

LEMMA SameDisk ==
  ASSUME onDisk' = onDisk
  PROVE  DiskStep
  BY DEF DiskStep

LEMMA CurrentType ==
  ASSUME NamesOK', NEW s \in DiskImages, NEW D
  PROVE  Current(s, D)' \in DiskImages
  <1>1. /\ s.names \in Namespaces /\ s.effect \in [Ops -> SUBSET Optional(Versions)]
        /\ s.documents \in SUBSET Objects /\ s.dropped \in SUBSET Objects
        /\ s.destroyed \in SUBSET Versions
    BY DEF DiskImages
  <1>2. [d \in Dirs |-> IF d \in D THEN names'[d] ELSE s.names[d]] \in Namespaces
    BY <1>1 DEF NamesOK, Namespaces
  <1>3. [o \in Ops |-> IF place'[o] \in D THEN effect'[o] ELSE s.effect[o]]
          \in [Ops -> SUBSET Optional(Versions)]
    BY <1>1 DEF NamesOK
  <1>4. /\ Renewed(s.documents, documents, D)' \in SUBSET Objects
        /\ Renewed(s.dropped, dropped, D)' \in SUBSET Objects
        /\ ({v \in s.destroyed : data[v.object].dir \notin D}
              \union {v \in destroyed : data[v.object].dir \in D})' \in SUBSET Versions
    BY <1>1 DEF NamesOK, Renewed
  <1>5. QED
    BY <1>2, <1>3, <1>4 DEF Current, DiskImages

LEMMA JournalType ==
  ASSUME DiskOK, NamesOK', DiskStep
  PROVE  DiskOK'
  BY CurrentType DEF DiskOK, DiskStep

LEMMA GotoType ==
  ASSUME ControlOK, NEW o \in Ops, NEW from, NEW to, Goto(o, from, to),
         {from, to} \subseteq WriteLabels \/ {from, to} \subseteq RemoveLabels,
         UNCHANGED <<lock, request, reply>>
  PROVE  ControlOK'
  <1>1. pc' \in [Ops -> Labels]
    BY DEF ControlOK, Goto, Labels
  <1>2. RequestOK'
    BY LabelsApart DEF ControlOK, RequestOK, Goto
  <1>3. QED
    BY <1>1, <1>2 DEF ControlOK

LEMMA ReturnType ==
  ASSUME ControlOK, NEW o \in Ops, pc[o] \in WriteLabels \union RemoveLabels,
         NEW k \in Kinds, NEW v \in Optional(Versions), NEW r \in SUBSET Leaves,
         Return(o, k, v, r), UNCHANGED request
  PROVE  ControlOK'
  <1>1. reply' \in [Ops -> Optional(Replies)]
    BY DEF ControlOK, Return, Replies, Optional
  <1>2. pc' \in [Ops -> Labels]
    BY DEF ControlOK, Return, Labels
  <1>3. RequestOK'
    BY LabelsApart DEF ControlOK, Return, RequestOK
  <1>4. QED
    BY <1>1, <1>2, <1>3 DEF ControlOK, Return

(* A step that only reads and moves on.                                    *)
LEMMA QuietType ==
  ASSUME TypeInv, NEW o \in Ops, NEW from, NEW to, Goto(o, from, to),
         {from, to} \subseteq WriteLabels \/ {from, to} \subseteq RemoveLabels,
         Quiet, UNCHANGED request, LocalOK'
  PROVE  TypeInv'
  <1>1. ControlOK'
    BY Parts, GotoType DEF Quiet
  <1>2. NamesOK' /\ FilesOK' /\ DiskOK'
    BY Parts DEF Quiet, ns, bounds, NamesOK, FilesOK, DiskOK
  <1>3. QED
    BY <1>1, <1>2, Parts

(* A step that only returns.                                               *)
LEMMA PureReturnType ==
  ASSUME TypeInv, NEW o \in Ops, pc[o] \in WriteLabels \union RemoveLabels,
         NEW k \in Kinds, NEW v \in Optional(Versions), NEW r \in SUBSET Leaves,
         ReturnPure(o, k, v, r)
  PROVE  TypeInv'
  <1>1. ControlOK'
    BY Parts, ReturnType DEF ReturnPure, local
  <1>2. NamesOK' /\ FilesOK' /\ DiskOK' /\ LocalOK'
    BY Parts DEF ReturnPure, ns, bounds, local, NamesOK, FilesOK, DiskOK, LocalOK
  <1>3. QED
    BY <1>1, <1>2, Parts

(* A step that changes a directory or synchronizes it.                     *)
LEMMA ChangeType ==
  ASSUME TypeInv, NamesOK', FilesOK', ControlOK', UNCHANGED local, DiskStep
  PROVE  TypeInv'
  <1>1. LocalOK'
    BY Parts DEF local, LocalOK
  <1>2. DiskOK'
    BY Parts, JournalType
  <1>3. QED
    BY <1>1, <1>2, Parts

(* A step that changes the destination, and notes in which directory.      *)
LEMMA PlaceType ==
  ASSUME TypeInv, NEW o \in Ops, NamesOK', FilesOK', ControlOK', DiskStep,
         place' = [place EXCEPT ![o] = here],
         UNCHANGED <<home, handle, staged, seen, saved>>
  PROVE  TypeInv'
  <1>1. LocalOK'
    BY Parts DEF LocalOK, FilesOK
  <1>2. DiskOK'
    BY Parts, JournalType
  <1>3. QED
    BY <1>1, <1>2, Parts

(* Binding one leaf.                                                       *)
LEMMA BindType ==
  ASSUME names \in Namespaces, here \in Parents, NEW l \in Leaves, NEW x \in Optional(Objects)
  PROVE  [names EXCEPT ![here][l] = x] \in Namespaces
  BY DEF Namespaces, Parents, Dirs

LEMMA ExistingType ==
  ASSUME NEW ls \in SUBSET Leaves
  PROVE  Existing(ls) \in SUBSET Leaves
  BY DEF Existing

LEMMA TypeInitial == Init => TypeInv
  <1>1. SUFFICES ASSUME Init PROVE TypeInv
    OBVIOUS
  <1>2. NamesOK
    BY <1>1, NothingAssumption, BoundAssumption
       DEF Init, NamesOK, Namespaces, Optional, Objects, Dirs
  <1>3. FilesOK
    BY <1>1, NothingAssumption, BoundAssumption DEF Init, FilesOK, Parents, Dirs
  <1>4. ControlOK
    BY <1>1, NothingAssumption
       DEF Init, ControlOK, RequestOK, Labels, WriteLabels, RemoveLabels, Requests, Optional
  <1>5. LocalOK
    BY <1>1 DEF Init, LocalOK, Optional, Parents
  <1>6. DiskOK
    BY <1>1, <1>2 DEF Init, DiskOK, DiskImages, NamesOK
  <1>7. QED
    BY <1>2, <1>3, <1>4, <1>5, <1>6, Parts
(* The reading steps of both kinds of call.                                *)
LEMMA QuietLocalType ==
  ASSUME TypeInv, NEW o \in Ops, NEW from, NEW to, Goto(o, from, to),
         {from, to} \subseteq WriteLabels \/ {from, to} \subseteq RemoveLabels,
         Quiet, UNCHANGED local
  PROVE  TypeInv'
  <1>1. LocalOK'
    BY Parts DEF local, LocalOK
  <1>2. QED
    BY <1>1, QuietType DEF local

LEMMA CallType ==
  ASSUME TypeInv, NEW o \in Ops, Call(o)
  PROVE  TypeInv'
  <1>1. Capture(Dest) \in Optional(Versions)
    BY Parts, CaptureType, LeafType
  <1>2. request' \in [Ops -> Requests]
    BY <1>1, Parts DEF Call, ControlOK, Requests, Optional
  <1>3. RequestOK'
    BY Parts, LabelsApart DEF Call, ControlOK, RequestOK, Requests
  <1>4. ControlOK'
    BY <1>2, <1>3, Parts DEF Call, ControlOK, Labels
  <1>5. NamesOK' /\ FilesOK' /\ LocalOK' /\ DiskOK'
    BY Parts DEF Call, ns, bounds, NamesOK, FilesOK, LocalOK, DiskOK
  <1>6. QED
    BY <1>4, <1>5, Parts

LEMMA AcquireType ==
  ASSUME TypeInv, NEW o \in Ops, Acquire(o)
  PROVE  TypeInv'
  <1>1. pc' \in [Ops -> Labels]
    BY Parts DEF Acquire, ControlOK, Labels, WriteLabels, RemoveLabels
  <1>2. RequestOK'
    BY Parts DEF Acquire, ControlOK, RequestOK, Requests, WriteLabels, RemoveLabels
  <1>3. ControlOK'
    BY <1>1, <1>2, Parts DEF Acquire, ControlOK
  <1>4. LocalOK'
    BY Parts DEF Acquire, LocalOK, FilesOK
  <1>5. NamesOK' /\ FilesOK' /\ DiskOK'
    BY Parts DEF Acquire, ns, bounds, NamesOK, FilesOK, DiskOK
  <1>6. QED
    BY <1>3, <1>4, <1>5, Parts

(* A new file at a leaf.                                                   *)
LEMMA CreateType ==
  ASSUME NamesOK, FilesOK, NEW l \in Leaves, NEW b \in Images, Create(l, b),
         UNCHANGED <<effect, documents, dropped, destroyed, bounds, here>>
  PROVE  /\ born + 1 \in Objects
         /\ NamesOK'
         /\ FilesOK'
  <1>1. born + 1 \in Objects
    BY BoundAssumption DEF Create, FilesOK, Objects
  <1>2. names' \in Namespaces
    BY <1>1, BindType DEF NamesOK, FilesOK, Create, Bind, Optional
  <1>3. data' \in [Objects -> [bytes : Images, stamp : 0..MaxForeign, dir : Dirs]]
    BY <1>1 DEF FilesOK, Create, Dirs
  <1>4. born' \in 0..MaxObjects
    BY BoundAssumption DEF FilesOK, Create
  <1>5. QED
    BY <1>1, <1>2, <1>3, <1>4 DEF NamesOK, FilesOK, bounds

LEMMA StageType ==
  ASSUME TypeInv, NEW o \in Ops, Stage(o)
  PROVE  TypeInv'
  <1>1. ControlOK'
    BY Parts, GotoType DEF Stage, WriteLabels
  <1>2. request[o].bytes \in Images
    BY Parts, LabelsApart DEF Stage, Goto, ControlOK, RequestOK, WriteLabels
  <1>3. born + 1 \in Objects /\ NamesOK' /\ FilesOK'
    BY <1>2, Parts, CreateType, LeafType DEF Stage
  <1>4. LocalOK'
    BY <1>2, <1>3, Parts DEF Stage, LocalOK, FilesOK, Optional, Versions
  <1>5. DiskOK'
    BY <1>3, Parts, JournalType, HereDisk DEF Stage
  <1>6. QED
    BY <1>1, <1>3, <1>4, <1>5, Parts

LEMMA RetainType ==
  ASSUME TypeInv, NEW o \in Ops, Retain(o)
  PROVE  TypeInv'
  <1>1. ControlOK'
    BY Parts, GotoType DEF Retain, WriteLabels, local
  <1>2. request[o].bytes \in Images
    BY Parts, LabelsApart DEF Retain, Goto, ControlOK, RequestOK, WriteLabels
  <1>3. NamesOK' /\ FilesOK'
    BY <1>2, Parts, CreateType, LeafType DEF Retain
  <1>4. QED
    BY <1>1, <1>3, ChangeType, HereDisk DEF Retain

LEMMA QuietWritesType ==
  ASSUME TypeInv, NEW o \in Ops,
         \/ CompareMatches(o) \/ CheckStaged(o) \/ CheckStagedFails(o) \/ InstallFindsFile(o)
         \/ InstallFails(o) \/ CreatedCheckHandle(o) \/ ReplacedCheckHandle(o)
         \/ ReplacedCompare(o) \/ ReplacedBind(o)
  PROVE  TypeInv'
  <1>1. CASE CompareMatches(o)
    BY <1>1, QuietLocalType DEF CompareMatches, WriteLabels
  <1>2. CASE CheckStaged(o)
    BY <1>2, QuietLocalType DEF CheckStaged, WriteLabels
  <1>3. CASE CheckStagedFails(o)
    BY <1>3, QuietLocalType DEF CheckStagedFails, WriteLabels
  <1>4. CASE InstallFindsFile(o)
    BY <1>4, QuietLocalType DEF InstallFindsFile, WriteLabels
  <1>5. CASE InstallFails(o)
    BY <1>5, QuietLocalType DEF InstallFails, WriteLabels
  <1>6. CASE CreatedCheckHandle(o)
    BY <1>6, QuietLocalType DEF CreatedCheckHandle, WriteLabels
  <1>7. CASE ReplacedCheckHandle(o)
    BY <1>7, QuietLocalType DEF ReplacedCheckHandle, WriteLabels
  <1>8. CASE ReplacedCompare(o)
    BY <1>8, QuietLocalType DEF ReplacedCompare, WriteLabels
  <1>9. CASE ReplacedBind(o)
    BY <1>9, QuietLocalType DEF ReplacedBind, WriteLabels
  <1>10. QED
    BY <1>1, <1>2, <1>3, <1>4, <1>5, <1>6, <1>7, <1>8, <1>9

LEMMA QuietRemovesType ==
  ASSUME TypeInv, NEW o \in Ops, MoveFails(o) \/ Examine(o)
  PROVE  TypeInv'
  <1>1. CASE MoveFails(o)
    BY <1>1, QuietLocalType DEF MoveFails, RemoveLabels
  <1>2. CASE Examine(o)
    BY <1>2, QuietLocalType DEF Examine, RemoveLabels
  <1>3. QED
    BY <1>1, <1>2

(* The observations that are kept.                                         *)
LEMMA ObserveType ==
  ASSUME TypeInv, NEW o \in Ops,
         CreatedObserve(o) \/ SaveDisplacedBytes(o) \/ ReplacedObserveNew(o)
  PROVE  TypeInv'
  <1>1. Capture(Dest) \in Optional(Versions) /\ Capture(Displaced(o)) \in Optional(Versions)
    BY Parts, CaptureType, LeafType
  <1>2. CASE CreatedObserve(o)
    <2>1. LocalOK'
      BY <1>1, <1>2, Parts DEF CreatedObserve, LocalOK
    <2>2. QED
      BY <1>2, <2>1, QuietType DEF CreatedObserve, WriteLabels
  <1>3. CASE SaveDisplacedBytes(o)
    <2>1. \A image \in Optional({Capture(Displaced(o)).bytes}) :
            Capture(Displaced(o)) # Nothing => image \in Optional(Images)
      BY <1>1 DEF Optional, Versions
    <2>2. LocalOK'
      BY <1>3, <2>1, Parts DEF SaveDisplacedBytes, LocalOK, Optional
    <2>3. QED
      BY <1>3, <2>2, QuietType DEF SaveDisplacedBytes, WriteLabels
  <1>4. CASE ReplacedObserveNew(o)
    <2>1. LocalOK'
      BY <1>1, <1>4, Parts DEF ReplacedObserveNew, LocalOK
    <2>2. QED
      BY <1>4, <2>1, QuietType DEF ReplacedObserveNew, WriteLabels
  <1>5. QED
    BY <1>2, <1>3, <1>4

(* The steps that only return.                                             *)
LEMMA FailureType ==
  ASSUME TypeInv, NEW o \in Ops,
         \/ StagingFails(o) \/ ReportPartial(o) \/ Classify(o) \/ ReportExisting(o)
         \/ CreatedFinishFails(o) \/ ReplacedHandleFails(o) \/ ReplacedFails(o) \/ Reinspect(o)
         \/ RestoreFails(o) \/ UnlinkMismatch(o) \/ RemoveFails(o)
  PROVE  TypeInv'
  <1>a. /\ Capture(Dest) \in Optional(Versions)
        /\ Nothing \in Optional(Versions)
    BY Parts, CaptureType, LeafType DEF Optional
  <1>b. /\ {Dest, Staged(o), Recovery(o), Quarantine(o), Displaced(o)} \subseteq Leaves
        /\ Existing({Recovery(o)}) \in SUBSET Leaves
        /\ Existing({Displaced(o)}) \in SUBSET Leaves
        /\ Existing({Recovery(o), Displaced(o)}) \in SUBSET Leaves
    BY LeafType, ExistingType
  <1>1. CASE StagingFails(o)
    BY <1>a, <1>b, <1>1, PureReturnType DEF StagingFails, WriteLabels, Kinds
  <1>2. CASE ReportPartial(o)
    BY <1>a, <1>b, <1>2, PureReturnType DEF ReportPartial, WriteLabels, Kinds
  <1>3. CASE Classify(o)
    <2> DEFINE evidence == {Recovery(o)} \union
                 IF pc[o] = "classify" THEN {} ELSE Existing({Displaced(o)})
    <2>1. evidence \in SUBSET Leaves
      BY <1>b
    <2>2. /\ pc[o] \in WriteLabels
          /\ \/ ReturnPure(o, "notCommitted", Capture(Dest), evidence)
             \/ ReturnPure(o, "indeterminate", Nothing, evidence)
      BY <1>3 DEF Classify, WriteLabels
    <2> HIDE DEF evidence
    <2>3. QED
      BY <1>a, <2>1, <2>2, PureReturnType DEF Kinds
  <1>4. CASE ReportExisting(o)
    BY <1>a, <1>b, <1>4, PureReturnType DEF ReportExisting, WriteLabels, Kinds
  <1>5. CASE CreatedFinishFails(o)
    <2> DEFINE evidence == IF pc[o] = "createdAlias" THEN Existing({Recovery(o)})
                                                     ELSE {Recovery(o)}
    <2>1. evidence \in SUBSET Leaves
      BY <1>b
    <2>2. pc[o] \in WriteLabels /\ ReturnPure(o, "indeterminate", Nothing, evidence)
      BY <1>5 DEF CreatedFinishFails, WriteLabels
    <2> HIDE DEF evidence
    <2>3. QED
      BY <1>a, <2>1, <2>2, PureReturnType DEF Kinds
  <1>6. CASE ReplacedHandleFails(o)
    BY <1>a, <1>b, <1>6, PureReturnType DEF ReplacedHandleFails, WriteLabels, Kinds
  <1>7. CASE ReplacedFails(o)
    BY <1>a, <1>b, <1>7, PureReturnType DEF ReplacedFails, WriteLabels, Kinds
  <1>8. CASE Reinspect(o)
    BY <1>a, <1>b, <1>8, PureReturnType DEF Reinspect, RemoveLabels, Kinds
  <1>9. CASE RestoreFails(o)
    BY <1>a, <1>b, <1>9, PureReturnType DEF RestoreFails, RemoveLabels, Kinds
  <1>10. CASE UnlinkMismatch(o)
    BY <1>a, <1>b, <1>10, PureReturnType DEF UnlinkMismatch, RemoveLabels, Kinds
  <1>11. CASE RemoveFails(o)
    BY <1>a, <1>b, <1>11, PureReturnType DEF RemoveFails, RemoveLabels, Kinds
  <1>12. QED
    BY <1>1, <1>2, <1>3, <1>4, <1>5, <1>6, <1>7, <1>8, <1>9, <1>10, <1>11
LEMMA ParentChangedType ==
  ASSUME TypeInv, NEW o \in Ops, pc[o] \in WriteLabels, NEW known \in SUBSET Leaves,
         NEW image \in Optional(Images), ParentChanged(o, known, image)
  PROVE  TypeInv'
  <1>1. request[o].bytes \in Images
    BY Parts, LabelsApart DEF ControlOK, RequestOK
  <1>2. born + 1 \in Objects /\ born + 2 \in Objects
    BY Parts, BoundAssumption DEF ParentChanged, FilesOK, Objects
  <1>3. FilesOK'
    <2>1. data' \in [Objects -> [bytes : Images, stamp : 0..MaxForeign, dir : Dirs]]
      BY <1>1, <1>2, Parts DEF ParentChanged, WithSpares, FilesOK, Optional, Dirs
    <2>2. born' \in 0..MaxObjects
      BY Parts, BoundAssumption DEF ParentChanged, FilesOK
    <2>3. QED
      BY <2>1, <2>2, Parts DEF ParentChanged, FilesOK, bounds
  <1>4. PICK kept \in SUBSET ({Spare(o)} \union IF image = Nothing THEN {} ELSE {Copy(o)}),
             at \in {here, "temp"} :
          /\ names' = [d \in Dirs |-> [l \in Leaves |->
                         IF d = at /\ l = Spare(o) /\ l \in kept THEN born + 1
                         ELSE IF d = "temp" /\ l = Copy(o) /\ l \in kept THEN born + 2
                         ELSE names[d][l]]]
          /\ Return(o, "indeterminate", Nothing, Existing(known) \union kept)
          /\ UNCHANGED <<effect, documents, dropped, destroyed, local, bounds, here>>
          /\ Settle({d \in Dirs : \/ d = at /\ Spare(o) \in kept
                                  \/ d = "temp" /\ Copy(o) \in kept})
    BY DEF ParentChanged
  <1>5. NamesOK'
    <2>1. names' \in Namespaces
      BY <1>2, <1>4, Parts DEF NamesOK, Namespaces, Optional
    <2>2. QED
      BY <1>4, <2>1, Parts DEF NamesOK
  <1>6. ControlOK'
    <2>1. Existing(known) \union kept \in SUBSET Leaves
      BY <1>4, LeafType, ExistingType
    <2>2. QED
      BY <1>4, <2>1, Parts, ReturnType DEF Kinds, Optional, local
  <1>7. DiskStep
    BY <1>4 DEF Settle, DiskStep
  <1>8. QED
    BY <1>3, <1>4, <1>5, <1>6, <1>7, ChangeType

LEMMA CheckParentType ==
  ASSUME TypeInv, NEW o \in Ops,
         CheckParent(o) \/ CreatedCheckParent(o) \/ ReplacedCheckParent(o)
  PROVE  TypeInv'
  <1>1. /\ {Recovery(o)} \in SUBSET Leaves /\ {Recovery(o), Displaced(o)} \in SUBSET Leaves
        /\ Nothing \in Optional(Images) /\ saved[o] \in Optional(Images)
    BY LeafType, Parts DEF LocalOK, Optional
  <1>2. CASE CheckParent(o)
    BY <1>1, <1>2, QuietLocalType, ParentChangedType DEF CheckParent, WriteLabels
  <1>3. CASE CreatedCheckParent(o)
    BY <1>1, <1>3, QuietLocalType, ParentChangedType DEF CreatedCheckParent, WriteLabels
  <1>4. CASE ReplacedCheckParent(o)
    BY <1>1, <1>4, QuietLocalType, ParentChangedType DEF ReplacedCheckParent, WriteLabels
  <1>5. QED
    BY <1>2, <1>3, <1>4

(* The mutations of a write.                                               *)
LEMMA MutatesType ==
  ASSUME TypeInv, NEW o \in Ops, NEW to \in WriteLabels, Mutates(o, to),
         names' \in Namespaces
  PROVE  TypeInv'
  <1>1. Capture(Dest) \in Optional(Versions) /\ names[here][Staged(o)] \in Objects
    BY Parts, CaptureType, BoundType, LeafType DEF Mutates, Optional
  <1>2. NamesOK'
    BY <1>1, Parts DEF Mutates, NamesOK
  <1>3. FilesOK'
    BY Parts DEF Mutates, FilesOK, bounds
  <1>4. ControlOK'
    BY Parts, GotoType DEF Mutates, WriteLabels
  <1>5. QED
    BY <1>2, <1>3, <1>4, PlaceType, HereDisk DEF Mutates

LEMMA InstallType ==
  ASSUME TypeInv, NEW o \in Ops, InstallAbsent(o) \/ Replace(o) \/ ReplacePartially(o)
  PROVE  TypeInv'
  <1>1. /\ {Dest, Staged(o), Displaced(o)} \subseteq Leaves
        /\ names[here][Dest] \in Optional(Objects)
        /\ names[here][Staged(o)] \in Optional(Objects)
        /\ Capture(Dest) \in Optional(Versions)
        /\ names \in Namespaces /\ here \in Dirs
    BY Parts, BoundType, CaptureType, LeafType DEF NamesOK, FilesOK, Dirs
  <1>2. CASE InstallAbsent(o)
    <2>1. names' \in Namespaces
      BY <1>1, <1>2 DEF InstallAbsent, Namespaces, Optional
    <2>2. QED
      BY <1>2, <2>1, MutatesType DEF InstallAbsent, WriteLabels
  <1>3. CASE Replace(o)
    <2>1. names' \in Namespaces
      BY <1>1, <1>3 DEF Replace, Namespaces, Optional
    <2>2. QED
      BY <1>3, <2>1, MutatesType DEF Replace, WriteLabels
  <1>4. CASE ReplacePartially(o)
    <2>1. names' \in Namespaces
      BY <1>1, <1>4 DEF ReplacePartially, Namespaces, Optional
    <2>2. NamesOK' /\ FilesOK'
      BY <1>1, <1>4, <2>1, Parts DEF ReplacePartially, NamesOK, FilesOK, bounds
    <2>3. ControlOK'
      BY <1>4, Parts, GotoType DEF ReplacePartially, WriteLabels
    <2>4. QED
      BY <1>4, <2>2, <2>3, PlaceType, HereDisk DEF ReplacePartially
  <1>5. QED
    BY <1>2, <1>3, <1>4

(* Steps that free one private leaf and return or go on.                   *)
LEMMA RetireType ==
  ASSUME TypeInv, NEW o \in Ops,
         \/ CompareConflicts(o) \/ CreationIndeterminate(o)
         \/ CreatedRetireAlias(o) \/ ReplacedRetire(o)
  PROVE  TypeInv'
  <1>1. /\ {Staged(o), Recovery(o), Displaced(o)} \subseteq Leaves
        /\ Capture(Dest) \in Optional(Versions) /\ Nothing \in Optional(Versions)
        /\ Existing({Recovery(o)}) \in SUBSET Leaves
        /\ seen[o] \in Optional(Versions)
        /\ Nothing \in Optional(Objects)
        /\ names[here][Staged(o)] \in Optional(Objects)
    BY Parts, BoundType, CaptureType, LeafType, ExistingType DEF Optional, LocalOK
  <1>2. NamesOK' /\ FilesOK'
    <2>1. \A l \in {Staged(o), Recovery(o)}, x \in {Nothing, names[here][Staged(o)]} :
            [names EXCEPT ![here][l] = x] \in Namespaces
      BY <1>1, Parts, BindType DEF NamesOK, FilesOK
    <2>2. /\ names' \in Namespaces
          /\ UNCHANGED <<effect, documents, dropped, destroyed, bounds, data, born, here>>
      BY <1>1, <2>1 DEF CompareConflicts, CreationIndeterminate, CreatedRetireAlias,
         ReplacedRetire, Bind
    <2>3. QED
      BY <2>2, Parts DEF NamesOK, FilesOK, bounds
  <1>3. ControlOK'
    <2>1. CASE CreatedRetireAlias(o)
      BY <2>1, Parts, GotoType DEF CreatedRetireAlias, WriteLabels, local
    <2>2. CASE CompareConflicts(o)
      BY <1>1, <2>2, Parts, ReturnType DEF CompareConflicts, WriteLabels, Kinds, local
    <2>3. CASE CreationIndeterminate(o)
      BY <1>1, <2>3, Parts, ReturnType DEF CreationIndeterminate, WriteLabels, Kinds, local
    <2>4. CASE ReplacedRetire(o)
      BY <1>1, <2>4, Parts, ReturnType DEF ReplacedRetire, WriteLabels, Kinds, local
    <2>5. QED
      BY <2>1, <2>2, <2>3, <2>4
  <1>4. UNCHANGED local /\ DiskStep
    BY HereDisk DEF CompareConflicts, CreationIndeterminate, CreatedRetireAlias, ReplacedRetire
  <1>5. QED
    BY <1>2, <1>3, <1>4, ChangeType

(* Directory synchronizations.                                             *)
LEMMA SyncType ==
  ASSUME TypeInv, NEW o \in Ops,
         \/ RetainSync(o) \/ CreatedSync(o) \/ ReplacedSync(o) \/ QuarantineSync(o)
         \/ RestoreSync(o) \/ UnlinkSync(o)
  PROVE  TypeInv'
  <1>1. /\ {Recovery(o)} \in SUBSET Leaves /\ {} \in SUBSET Leaves
        /\ Capture(Dest) \in Optional(Versions) /\ Nothing \in Optional(Versions)
        /\ seen[o] \in Optional(Versions)
    BY Parts, CaptureType, LeafType DEF Optional, LocalOK
  <1>2. UNCHANGED <<ns, local, bounds, data, born, here>> /\ DiskStep
    BY HereDisk
       DEF RetainSync, CreatedSync, ReplacedSync, QuarantineSync, RestoreSync, UnlinkSync
  <1>3. NamesOK' /\ FilesOK'
    BY <1>2, Parts DEF NamesOK, FilesOK, ns, bounds
  <1>4. ControlOK'
    <2>1. CASE CreatedSync(o)
      BY <1>1, <2>1, Parts, ReturnType DEF CreatedSync, WriteLabels, Kinds, local
    <2>2. CASE ReplacedSync(o)
      BY <2>2, Parts, GotoType DEF ReplacedSync, WriteLabels, local
    <2>3. CASE QuarantineSync(o)
      BY <2>3, Parts, GotoType DEF QuarantineSync, RemoveLabels, local
    <2>4. CASE RestoreSync(o)
      BY <1>1, <2>4, Parts, ReturnType DEF RestoreSync, RemoveLabels, Kinds, local
    <2>5. CASE UnlinkSync(o)
      BY <1>1, <2>5, Parts, ReturnType DEF UnlinkSync, RemoveLabels, Kinds, local
    <2>6. CASE RetainSync(o)
      BY <2>6, Parts, GotoType DEF RetainSync, WriteLabels, local
    <2>7. QED
      BY <2>1, <2>2, <2>3, <2>4, <2>5, <2>6
  <1>5. QED
    BY <1>2, <1>3, <1>4, ChangeType

LEMMA MoveType ==
  ASSUME TypeInv, NEW o \in Ops, MoveToQuarantine(o) \/ Restore(o) \/ Unlink(o)
  PROVE  TypeInv'
  <1>1. /\ {Dest, Quarantine(o)} \subseteq Leaves
        /\ names[here][Dest] \in Optional(Objects)
        /\ names[here][Quarantine(o)] \in Optional(Objects)
        /\ Capture(Dest) \in Optional(Versions)
        /\ Capture(Quarantine(o)) \in Optional(Versions)
        /\ names \in Namespaces /\ here \in Dirs
    BY Parts, BoundType, CaptureType, LeafType DEF NamesOK, FilesOK, Dirs
  <1>2. NamesOK'
    <2>1. CASE MoveToQuarantine(o)
      <3>1. names' \in Namespaces
        BY <1>1, <2>1 DEF MoveToQuarantine, Namespaces, Optional
      <3>2. QED
        BY <1>1, <2>1, <3>1, Parts DEF MoveToQuarantine, NamesOK
    <2>2. CASE Restore(o)
      <3>1. names' \in Namespaces
        BY <1>1, <2>2 DEF Restore, Namespaces, Optional
      <3>2. QED
        BY <1>1, <2>2, <3>1, Parts DEF Restore, NamesOK
    <2>3. CASE Unlink(o)
      <3>1. names' \in Namespaces
        BY <1>1, <2>3 DEF Unlink, Bind, Namespaces, Optional
      <3>2. QED
        BY <1>1, <2>3, <3>1, Parts DEF Unlink, NamesOK, IsDisplacedVersionOf, Optional
    <2>4. QED
      BY <2>1, <2>2, <2>3
  <1>3. FilesOK'
    BY Parts DEF MoveToQuarantine, Restore, Unlink, FilesOK, bounds
  <1>4. ControlOK'
    BY Parts, GotoType DEF MoveToQuarantine, Restore, Unlink, RemoveLabels, local
  <1>5. DiskStep
    BY HereDisk DEF MoveToQuarantine, Restore, Unlink
  <1>6. QED
    BY <1>2, <1>3, <1>4, <1>5, ChangeType, PlaceType DEF MoveToQuarantine, Restore, Unlink

LEMMA InspectType ==
  ASSUME TypeInv, NEW o \in Ops, Inspect(o) \/ Assess(o)
  PROVE  TypeInv'
  <1>1. /\ {} \in SUBSET Leaves /\ {Quarantine(o)} \in SUBSET Leaves
        /\ Capture(Dest) \in Optional(Versions) /\ Nothing \in Optional(Versions)
    BY Parts, CaptureType, LeafType DEF Optional
  <1>2. CASE Inspect(o)
    BY <1>1, <1>2, QuietLocalType, PureReturnType DEF Inspect, RemoveLabels, Kinds
  <1>3. CASE Assess(o)
    BY <1>1, <1>3, QuietLocalType, PureReturnType DEF Assess, RemoveLabels, Kinds
  <1>4. QED
    BY <1>2, <1>3

(* Other programs and power losses.                                        *)
LEMMA EnvironmentType ==
  ASSUME TypeInv, Environment
  PROVE  TypeInv'
  <1>1. CASE PowerLoss
    <2>1. PICK image \in onDisk :
             /\ names' = image.names
             /\ effect' = image.effect
             /\ documents' = image.documents
             /\ dropped' = image.dropped
             /\ destroyed' = image.destroyed
      BY <1>1 DEF PowerLoss
    <2>2. image \in DiskImages
      BY <2>1, Parts DEF DiskOK
    <2>3. NamesOK'
      BY <2>1, <2>2 DEF NamesOK, DiskImages
    <2>4. DiskOK'
      BY <1>1, <2>3 DEF PowerLoss, DiskOK, NamesOK, DiskImages, Image
    <2>5. FilesOK' /\ LocalOK'
      BY <1>1, Parts, BoundAssumption DEF PowerLoss, FilesOK, LocalOK, local, bounds
    <2>6. reply' \in [Ops -> Optional(Replies)]
      BY <1>1, Parts DEF PowerLoss, ControlOK, Optional, Replies, Kinds
    <2>7. pc' \in [Ops -> Labels]
      BY <1>1 DEF PowerLoss, Labels
    <2>8. RequestOK'
      BY <1>1, Parts, LabelsApart DEF PowerLoss, ControlOK, RequestOK, local
    <2>9. ControlOK'
      BY <1>1, <2>6, <2>7, <2>8, Parts DEF PowerLoss, ControlOK, local
    <2>10. QED
      BY <2>3, <2>4, <2>5, <2>9, Parts
  <1>2. ASSUME Foreign
        PROVE  /\ foreign + 1 \in 0..MaxForeign /\ foreign' = foreign + 1
               /\ ControlOK' /\ LocalOK' /\ losses' = losses
               /\ UNCHANGED <<effect, destroyed>>
    BY <1>2, Parts, BoundAssumption
       DEF Foreign, FilesOK, ControlOK, LocalOK, local, RequestOK
  <1>3. CASE SwapParent
    <2>1. strayed' \subseteq Ops \X Syncs
      BY <1>3, Parts DEF SwapParent, FilesOK
    <2>2. NamesOK' /\ FilesOK' /\ DiskOK'
      BY <1>2, <1>3, <2>1, Parts DEF SwapParent, NamesOK, FilesOK, DiskOK
    <2>3. QED
      BY <1>2, <1>3, <2>2, Parts DEF SwapParent
  <1>4. Private \subseteq Leaves /\ {Dest} \subseteq Leaves
        /\ (lock # NoOp => {Staged(lock)} \subseteq Leaves)
    BY LeafType, Parts DEF Private, ControlOK, Leaves
  <1>5. CASE ForeignWrites
    <2>1. PICK l \in {Dest} \union Private, b \in Images :
             /\ names[here][l] # Nothing
             /\ data' = [data EXCEPT ![names[here][l]] =
                           [bytes |-> b, stamp |-> foreign + 1, dir |-> here]]
      BY <1>5 DEF ForeignWrites
    <2>2. data' \in [Objects -> [bytes : Images, stamp : 0..MaxForeign, dir : Dirs]]
      BY <1>2, <1>5, <2>1, Parts DEF ForeignWrites, FilesOK, Dirs
    <2>3. NamesOK' /\ FilesOK' /\ DiskOK'
      BY <1>2, <1>5, <2>2, Parts DEF ForeignWrites, NamesOK, FilesOK, DiskOK
    <2>4. QED
      BY <1>2, <1>5, <2>3, Parts DEF ForeignWrites
  <1>6. CASE ForeignReplaces
    <2>1. born + 1 \in Objects /\ born' \in 0..MaxObjects
      BY <1>6, Parts, BoundAssumption DEF ForeignReplaces, FilesOK, Objects
    <2>2. PICK l \in {Dest} \union (IF lock = NoOp THEN {} ELSE {Staged(lock)}), b \in Images :
             /\ Bind(l, born + 1)
             /\ data' = [data EXCEPT ![born + 1] =
                           [bytes |-> b, stamp |-> foreign + 1, dir |-> here]]
             /\ documents' = IF l = Dest THEN documents \union {born + 1} ELSE documents
             /\ dropped' = dropped \union ({names[here][l]} \ {Nothing})
      BY <1>6 DEF ForeignReplaces
    <2>3. l \in Leaves /\ names[here][l] \in Optional(Objects)
      BY <1>4, <2>2, Parts, BoundType
    <2>4. names' \in Namespaces
      BY <2>1, <2>2, <2>3, Parts, BindType DEF Bind, NamesOK, FilesOK, Optional
    <2>5. NamesOK'
      BY <1>2, <1>6, <2>1, <2>2, <2>3, <2>4, Parts DEF ForeignReplaces, NamesOK, Optional
    <2>6. FilesOK'
      BY <1>2, <1>6, <2>1, <2>2, Parts DEF ForeignReplaces, FilesOK, Dirs
    <2>7. DiskOK'
      BY <1>6, <2>5, Parts, JournalType, HereDisk DEF ForeignReplaces
    <2>8. QED
      BY <1>2, <1>6, <2>5, <2>6, <2>7, Parts DEF ForeignReplaces
  <1>7. CASE ForeignRemoves
    <2>1. PICK l \in {Dest} \union (IF lock = NoOp THEN {} ELSE {Staged(lock)}) :
             /\ names[here][l] # Nothing
             /\ Bind(l, Nothing)
             /\ dropped' = dropped \union {names[here][l]}
      BY <1>7 DEF ForeignRemoves
    <2>2. l \in Leaves /\ names[here][l] \in Objects
      BY <1>4, <2>1, Parts, BoundType DEF Optional
    <2>3. names' \in Namespaces
      BY <2>1, <2>2, Parts, BindType DEF Bind, NamesOK, FilesOK, Optional
    <2>4. NamesOK'
      BY <1>2, <1>7, <2>1, <2>2, <2>3, Parts DEF ForeignRemoves, NamesOK
    <2>5. FilesOK'
      BY <1>2, <1>7, Parts DEF ForeignRemoves, FilesOK
    <2>6. DiskOK'
      BY <1>7, <2>4, Parts, JournalType, HereDisk DEF ForeignRemoves
    <2>7. QED
      BY <1>2, <1>7, <2>4, <2>5, <2>6, Parts DEF ForeignRemoves
  <1>8. QED
    BY <1>1, <1>3, <1>5, <1>6, <1>7 DEF Environment

LEMMA StutterType == ASSUME TypeInv, UNCHANGED vars PROVE TypeInv'
  BY Parts DEF vars, ns, local, bounds, NamesOK, FilesOK, ControlOK, LocalOK, DiskOK, RequestOK

LEMMA TypeStep == TypeInv /\ [Next]_vars => TypeInv'
  <1>1. SUFFICES ASSUME TypeInv, [Next]_vars PROVE TypeInv'
    OBVIOUS
  <1>2. ASSUME NEW o \in Ops, WriteStep(o) PROVE TypeInv'
    BY <1>1, <1>2, StageType, RetainType, QuietWritesType, ObserveType, FailureType,
       CheckParentType, InstallType, RetireType, SyncType DEF WriteStep
  <1>3. ASSUME NEW o \in Ops, RemoveStep(o) PROVE TypeInv'
    BY <1>1, <1>3, QuietRemovesType, FailureType, SyncType, MoveType, InspectType
       DEF RemoveStep
  <1>4. QED
    BY <1>1, <1>2, <1>3, CallType, AcquireType, EnvironmentType, StutterType DEF Next, OpStep

(* Every reachable state is well typed, and every running call was asked   *)
(* what its path of the code needs: a write has bytes, a delete has none.  *)
THEOREM TypeCorrect == Spec => []TypeOK
  <1>1. Init => TypeInv
    BY TypeInitial
  <1>2. TypeInv /\ [Next]_vars => TypeInv'
    BY TypeStep
  <1>3. TypeInv => TypeOK
    BY DEF TypeInv
  <1>4. QED
    BY <1>1, <1>2, <1>3, PTL DEF Spec

-------------------------------------------------------------------------------
(* The files at the leaves.                                                *)
LEMMA LeafNames ==
  ASSUME NEW o \in Ops
  PROVE  /\ \A r \in Roles : <<r, o>> \in Leaves /\ <<r, o>> # Dest
         /\ Dest \in Leaves
         /\ {Staged(o), Recovery(o), Quarantine(o), Spare(o), Copy(o), Displaced(o)}
              \subseteq {<<r, o>> : r \in Roles}
         /\ Displaced(o) # Recovery(o) /\ Staged(o) # Recovery(o)
  BY DEF Roles, Leaves, Dest, Staged, Recovery, Quarantine, Spare, Copy, Displaced

LEMMA NothingIsNoFile ==
  ASSUME TypeInv
  PROVE  /\ Nothing \notin documents /\ Nothing \notin 1..born
         /\ born \in Nat /\ here \in Dirs /\ lock \in Ops \union {NoOp}
  BY NothingAssumption, BoundAssumption, Parts
     DEF NamesOK, FilesOK, ControlOK, Objects, Dirs

LEMMA BindAt ==
  ASSUME TypeInv, NEW l \in Leaves, NEW x, Bind(l, x)
  PROVE  \A d \in Dirs, m \in Leaves :
           names'[d][m] = IF d = here /\ m = l THEN x ELSE names[d][m]
  BY Parts DEF NamesOK, Namespaces, Bind, FilesOK, Dirs

SetTwo(l, x, m, y) == names' = [names EXCEPT ![here][l] = x, ![here][m] = y]

LEMMA BindTwo ==
  ASSUME TypeInv, NEW l \in Leaves, NEW m \in Leaves, NEW x, NEW y, l # m, SetTwo(l, x, m, y)
  PROVE  \A d \in Dirs, n \in Leaves :
           names'[d][n] = IF d = here /\ n = l THEN x
                          ELSE IF d = here /\ n = m THEN y ELSE names[d][n]
  BY Parts DEF NamesOK, Namespaces, FilesOK, Dirs, SetTwo

SetThree(l, x, m, y, n, z) ==
  names' = [names EXCEPT ![here][l] = x, ![here][m] = y, ![here][n] = z]

LEMMA BindThree ==
  ASSUME TypeInv, NEW l \in Leaves, NEW m \in Leaves, NEW n \in Leaves,
         NEW x, NEW y, NEW z, l # m, l # n, SetThree(l, x, m, y, n, z)
  PROVE  \A d \in Dirs, k \in Leaves :
           names'[d][k] = IF d = here /\ k = n THEN z
                          ELSE IF d = here /\ k = m THEN y
                          ELSE IF d = here /\ k = l THEN x ELSE names[d][k]
  BY Parts DEF NamesOK, Namespaces, FilesOK, Dirs, SetThree

LEMMA RoleApart ==
  ASSUME NEW o \in Ops
  PROVE  /\ {Spare(o), Copy(o), Recovery(o)} \intersect {Dest, Staged(o), Displaced(o), Quarantine(o)} = {}
         /\ \A p \in Ops \ {o}, q \in Roles :
              /\ <<q, p>> \in Leaves
              /\ <<q, p>> \notin {Dest, Staged(o), Displaced(o), Quarantine(o)}
         /\ {Dest, Staged(o), Displaced(o), Quarantine(o), Spare(o), Copy(o), Recovery(o)} \subseteq Leaves
         /\ Dest \notin {Staged(o), Displaced(o), Quarantine(o)}
         /\ Platform # "unix" => Displaced(o) = <<"displaced", o>> /\ Displaced(o) # Staged(o)
         /\ Platform = "unix" => Displaced(o) = Staged(o)
  BY DEF Dest, Staged, Displaced, Quarantine, Spare, Copy, Recovery, Leaves, Roles

(* What one step of a call does to the files: it binds leaves of K to      *)
(* nothing, to files it creates, or to files it moves from leaves of S of  *)
(* the same directory.                                                     *)
Moved(o) == {Dest, Staged(o), Displaced(o), Quarantine(o)}

Binds(K, S) ==
  /\ born' \in Nat /\ born' >= born
  /\ \A x \in 1..born : data'[x] = data[x]
  /\ \A d \in Dirs, l \in Leaves :
       \/ names'[d][l] = names[d][l]
       \/ /\ l \in K
          /\ \/ names'[d][l] = Nothing
             \/ /\ names'[d][l] \in (born + 1)..born'
                /\ data'[names'[d][l]].dir = d
             \/ \E k \in S : names'[d][l] = names[d][k]

LEMMA SameBinds ==
  ASSUME TypeInv, NEW o \in Ops, UNCHANGED <<names, data, born>>
  PROVE  Binds({}, {})
  BY NothingIsNoFile DEF Binds

LEMMA UnbindBinds ==
  ASSUME TypeInv, NEW o \in Ops, NEW l \in Leaves, Bind(l, Nothing), UNCHANGED <<data, born>>
  PROVE  Binds({l}, {})
  BY NothingIsNoFile, BindAt DEF Binds

LEMMA CreateBinds ==
  ASSUME TypeInv, NEW o \in Ops, NEW l \in Leaves, NEW b, Create(l, b)
  PROVE  Binds({l}, {})
  <1>1. born \in Nat /\ born' = born + 1
    BY NothingIsNoFile DEF Create
  <1>2. \A d \in Dirs, m \in Leaves :
          names'[d][m] = IF d = here /\ m = l THEN born + 1 ELSE names[d][m]
    BY BindAt DEF Create
  <1>3. \A x \in 1..born : data'[x] = data[x]
    BY <1>1, Parts DEF Create, FilesOK, Objects
  <1>4. data'[born + 1].dir = here
    BY <1>1, Parts, BoundAssumption DEF Create, FilesOK, Objects
  <1>. QED BY <1>1, <1>2, <1>3, <1>4 DEF Binds

(* The steps that leave every file where it is.                            *)
StillWrite(o) ==
  \/ RetainSync(o) \/ CompareMatches(o) \/ CheckStaged(o) \/ CheckStagedFails(o) \/ InstallFindsFile(o)
  \/ InstallFails(o) \/ CreatedCheckHandle(o) \/ CreatedObserve(o) \/ SaveDisplacedBytes(o)
  \/ ReplacedCheckHandle(o) \/ ReplacedObserveNew(o) \/ ReplacedCompare(o) \/ ReplacedSync(o)
  \/ ReplacedBind(o)

StillRemove(o) == MoveFails(o) \/ QuarantineSync(o) \/ Examine(o)

(* The answers that are given without a change of the directory.           *)
Reports(o) ==
  \/ StagingFails(o) \/ ReportPartial(o) \/ Classify(o) \/ ReportExisting(o)
  \/ CreatedFinishFails(o) \/ ReplacedHandleFails(o) \/ ReplacedFails(o)
  \/ Reinspect(o) \/ RestoreFails(o) \/ UnlinkMismatch(o) \/ RemoveFails(o)

Confirms(o) == CreatedSync(o) \/ RestoreSync(o) \/ UnlinkSync(o)

Retires(o) == CompareConflicts(o) \/ CreationIndeterminate(o) \/ CreatedRetireAlias(o)

LEMMA StillBinds ==
  ASSUME TypeInv, NEW o \in Ops,
         StillWrite(o) \/ StillRemove(o) \/ Reports(o) \/ Confirms(o) \/ Call(o) \/ Acquire(o)
  PROVE  /\ Binds({}, {})
         /\ UNCHANGED <<names, data, born, here, bounds, effect, documents, dropped, destroyed, place>>
         /\ DiskStep
  <1>1. CASE StillWrite(o)
    <2>1. /\ UNCHANGED <<names, data, born, here, bounds, effect, documents, dropped, destroyed, place>>
          /\ onDisk' = onDisk \/ Flush
      BY <1>1 DEF StillWrite, RetainSync, CompareMatches, CheckStaged, CheckStagedFails,
         InstallFindsFile, InstallFails, CreatedCheckHandle, CreatedObserve, SaveDisplacedBytes,
         ReplacedCheckHandle, ReplacedObserveNew, ReplacedCompare, ReplacedSync, ReplacedBind,
         Quiet, ns, local
    <2>. QED BY <2>1, SameBinds, HereDisk, SameDisk
  <1>2. CASE StillRemove(o) \/ Confirms(o)
    <2>1. /\ UNCHANGED <<names, data, born, here, bounds, effect, documents, dropped, destroyed, place>>
          /\ onDisk' = onDisk \/ Flush
      BY <1>2 DEF StillRemove, Confirms, MoveFails, QuarantineSync, Examine, CreatedSync,
         RestoreSync, UnlinkSync, Quiet, ns, local
    <2>. QED BY <2>1, SameBinds, HereDisk, SameDisk
  <1>3. CASE Reports(o)
    <2>1. PICK k, v, r : ReturnPure(o, k, v, r)
      BY <1>3 DEF Reports, StagingFails, ReportPartial, Classify, ReportExisting,
         CreatedFinishFails, ReplacedHandleFails, ReplacedFails, Reinspect, RestoreFails,
         UnlinkMismatch, RemoveFails
    <2>. QED BY <2>1, SameBinds, SameDisk DEF ReturnPure, ns, local
  <1>4. CASE Call(o) \/ Acquire(o)
    BY <1>4, SameBinds, SameDisk DEF Call, Acquire, ns
  <1>. QED BY <1>1, <1>2, <1>3, <1>4

LEMMA RetiresBinds ==
  ASSUME TypeInv, NEW o \in Ops, Retires(o)
  PROVE  /\ Binds({Staged(o)}, {})
         /\ UNCHANGED <<data, born, here, bounds, effect, documents, dropped, destroyed, place>>
         /\ DiskStep
  <1>1. /\ UNCHANGED <<data, born, here, bounds, effect, documents, dropped, destroyed, place>>
        /\ DiskStep
    BY HereDisk DEF Retires, CompareConflicts, CreationIndeterminate, CreatedRetireAlias, local
  <1>2. Bind(Staged(o), Nothing) \/ UNCHANGED names
    <2>1. CASE CompareConflicts(o) \/ CreatedRetireAlias(o)
      BY <2>1 DEF CompareConflicts, CreatedRetireAlias
    <2>2. CASE CreationIndeterminate(o)
      <3>1. names' = [names EXCEPT ![here][Staged(o)] =
                        IF Platform = "unix" THEN Nothing ELSE names[here][Staged(o)]]
        BY <2>2 DEF CreationIndeterminate
      <3>2. here \in Dirs /\ Staged(o) \in Leaves
        BY NothingIsNoFile, LeafType
      <3>. QED BY <3>1, <3>2, Parts DEF Bind, NamesOK, Namespaces
    <2>. QED BY <2>1, <2>2 DEF Retires
  <1>3. CASE Bind(Staged(o), Nothing)
    BY <1>1, <1>3, UnbindBinds, LeafType
  <1>4. CASE UNCHANGED names
    BY <1>1, <1>4, NothingIsNoFile DEF Binds
  <1>. QED BY <1>1, <1>2, <1>3, <1>4

LEMMA CreatesBind ==
  ASSUME TypeInv, NEW o \in Ops
  PROVE  /\ Stage(o) => Binds({Staged(o)}, {})
         /\ Retain(o) => Binds({Recovery(o)}, {})
         /\ ReplacedRetire(o) => Binds({Recovery(o)}, {})
         /\ Unlink(o) => Binds({Quarantine(o)}, {})
  <1>1. {Staged(o), Recovery(o), Quarantine(o)} \subseteq Leaves
    BY LeafType
  <1>2. Stage(o) => Create(Staged(o), request[o].bytes)
    BY DEF Stage
  <1>3. Retain(o) => Create(Recovery(o), request[o].bytes)
    BY DEF Retain
  <1>4. ReplacedRetire(o) => Bind(Recovery(o), Nothing) /\ UNCHANGED <<data, born>>
    BY DEF ReplacedRetire
  <1>5. Unlink(o) => Bind(Quarantine(o), Nothing) /\ UNCHANGED <<data, born>>
    BY DEF Unlink
  <1>. QED BY <1>1, <1>2, <1>3, <1>4, <1>5, CreateBinds, UnbindBinds

LEMMA ParentChangedBinds ==
  ASSUME TypeInv, NEW o \in Ops, NEW known, NEW image, ParentChanged(o, known, image)
  PROVE  Binds({Spare(o), Copy(o)}, {})
  <1>1. born \in Nat /\ born' = born + 2
    BY NothingIsNoFile DEF ParentChanged
  <1>2. PICK kept \in SUBSET ({Spare(o)} \union IF image = Nothing THEN {} ELSE {Copy(o)}),
             at \in {here, "temp"} :
          /\ names' = [d \in Dirs |-> [l \in Leaves |->
                         IF d = at /\ l = Spare(o) /\ l \in kept THEN born + 1
                         ELSE IF d = "temp" /\ l = Copy(o) /\ l \in kept THEN born + 2
                         ELSE names[d][l]]]
          /\ data' = WithSpares(request[o].bytes, image, at)
    BY DEF ParentChanged
  <1>3. {born + 1, born + 2} \subseteq (born + 1)..born'
    BY <1>1
  <1>4. \A x \in 1..born : data'[x] = data[x]
    <2>1. \A x \in 1..born : x # born + 1 /\ x # born + 2
      BY <1>1
    <2>2. 1..born \subseteq Objects
      BY Parts, BoundAssumption DEF FilesOK, Objects
    <2>. QED BY <1>2, <2>1, <2>2, Parts DEF FilesOK, WithSpares
  <1>5. data'[born + 1].dir = at /\ data'[born + 2].dir = "temp"
    <2>1. born + 1 \in Objects /\ born + 2 \in Objects /\ born + 1 # born + 2
      BY <1>1, Parts, BoundAssumption DEF ParentChanged, FilesOK, Objects
    <2>. QED BY <1>2, <2>1, Parts DEF FilesOK, WithSpares
  <1>6. ASSUME NEW d \in Dirs, NEW l \in Leaves, names'[d][l] # names[d][l]
        PROVE  /\ l \in {Spare(o), Copy(o)}
               /\ names'[d][l] \in (born + 1)..born'
               /\ data'[names'[d][l]].dir = d
    <2>1. \/ l = Spare(o) /\ d = at /\ names'[d][l] = born + 1
          \/ l = Copy(o) /\ d = "temp" /\ names'[d][l] = born + 2
      BY <1>2, <1>6
    <2>. QED BY <1>3, <1>5, <2>1
  <1>. QED BY <1>1, <1>4, <1>6 DEF Binds

(* The three moves at the destination.                                     *)
LEMMA InstallAbsentNames ==
  ASSUME TypeInv, NEW o \in Ops, InstallAbsent(o)
  PROVE  \A d \in Dirs, n \in Leaves :
           names'[d][n] = IF d = here /\ n = Dest THEN names[here][Staged(o)]
                          ELSE IF d = here /\ n = Staged(o)
                               THEN IF Platform = "unix" THEN names[here][Staged(o)] ELSE Nothing
                          ELSE names[d][n]
  <1>. DEFINE x == names[here][Staged(o)]
              y == IF Platform = "unix" THEN x ELSE Nothing
  <1>0. Dest \in Leaves /\ Staged(o) \in Leaves /\ Dest # Staged(o)
    BY LeafNames
  <1>1. SetTwo(Dest, x, Staged(o), y)
    <2>1. names' = [names EXCEPT ![here][Dest] = x, ![here][Staged(o)] = y]
      BY <1>0, Parts DEF InstallAbsent, NamesOK, Namespaces
    <2>. QED BY <2>1 DEF SetTwo
  <1>. HIDE DEF x, y
  <1>2. \A d \in Dirs, n \in Leaves :
          names'[d][n] = IF d = here /\ n = Dest THEN x
                         ELSE IF d = here /\ n = Staged(o) THEN y ELSE names[d][n]
    BY <1>0, <1>1, BindTwo
  <1>. QED BY <1>2 DEF x, y

LEMMA ReplaceNames ==
  ASSUME TypeInv, NEW o \in Ops, Replace(o)
  PROVE  \A d \in Dirs, n \in Leaves :
           names'[d][n] = IF d = here /\ n = Displaced(o) THEN names[here][Dest]
                          ELSE IF d = here /\ n = Staged(o) THEN Nothing
                          ELSE IF d = here /\ n = Dest THEN names[here][Staged(o)]
                          ELSE names[d][n]
  <1>. DEFINE x == names[here][Staged(o)]
              z == names[here][Dest]
  <1>0. /\ Dest \in Leaves /\ Staged(o) \in Leaves /\ Displaced(o) \in Leaves
        /\ Dest # Staged(o) /\ Dest # Displaced(o)
    BY RoleApart
  <1>1. SetThree(Dest, x, Staged(o), Nothing, Displaced(o), z)
    BY DEF Replace, SetThree
  <1>. HIDE DEF x, z
  <1>2. \A d \in Dirs, n \in Leaves :
           names'[d][n] = IF d = here /\ n = Displaced(o) THEN z
                          ELSE IF d = here /\ n = Staged(o) THEN Nothing
                          ELSE IF d = here /\ n = Dest THEN x ELSE names[d][n]
    BY <1>0, <1>1, BindThree
  <1>. QED BY <1>2 DEF x, z

(* A file moved from the destination to a private leaf, or back.           *)
MovesTo(from, to) ==
  \A d \in Dirs, n \in Leaves :
    names'[d][n] = IF d = here /\ n = to THEN names[here][from]
                   ELSE IF d = here /\ n = from THEN Nothing ELSE names[d][n]

LEMMA MoveNames ==
  ASSUME TypeInv, NEW o \in Ops
  PROVE  /\ ReplacePartially(o) =>
              \/ /\ MovesTo(Dest, Displaced(o))
                 /\ effect' = [effect EXCEPT ![o] = {Capture(Dest)}]
              \/ UNCHANGED <<names, effect>>
         /\ MoveToQuarantine(o) => MovesTo(Dest, Quarantine(o))
         /\ Restore(o) => MovesTo(Quarantine(o), Dest)
  <1>0. /\ {Dest, Displaced(o), Quarantine(o)} \subseteq Leaves
        /\ Dest # Displaced(o) /\ Dest # Quarantine(o)
    BY RoleApart
  <1>1. ASSUME NEW l \in Leaves, NEW m \in Leaves, l # m, NEW x, NEW y, SetTwo(l, x, m, y)
        PROVE  \A d \in Dirs, n \in Leaves :
                 names'[d][n] = IF d = here /\ n = l THEN x
                                ELSE IF d = here /\ n = m THEN y ELSE names[d][n]
    BY <1>1, BindTwo
  <1>2. ASSUME ReplacePartially(o), ~ UNCHANGED <<names, effect>>
        PROVE  MovesTo(Dest, Displaced(o)) /\ effect' = [effect EXCEPT ![o] = {Capture(Dest)}]
    <2>. DEFINE x == names[here][Dest]
    <2>1. SetTwo(Dest, Nothing, Displaced(o), x) /\ effect' = [effect EXCEPT ![o] = {Capture(Dest)}]
      BY <1>2 DEF ReplacePartially, SetTwo
    <2>. HIDE DEF x
    <2>2. \A d \in Dirs, n \in Leaves :
            names'[d][n] = IF d = here /\ n = Dest THEN Nothing
                           ELSE IF d = here /\ n = Displaced(o) THEN x ELSE names[d][n]
      BY <1>0, <2>1, BindTwo
    <2>. QED BY <1>0, <2>1, <2>2 DEF MovesTo, x
  <1>3. ASSUME MoveToQuarantine(o) PROVE MovesTo(Dest, Quarantine(o))
    <2>. DEFINE x == names[here][Dest]
    <2>1. SetTwo(Quarantine(o), x, Dest, Nothing)
      BY <1>3 DEF MoveToQuarantine, SetTwo
    <2>. HIDE DEF x
    <2>2. \A d \in Dirs, n \in Leaves :
            names'[d][n] = IF d = here /\ n = Quarantine(o) THEN x
                           ELSE IF d = here /\ n = Dest THEN Nothing ELSE names[d][n]
      BY <1>0, <2>1, BindTwo
    <2>. QED BY <2>2 DEF MovesTo, x
  <1>4. ASSUME Restore(o) PROVE MovesTo(Quarantine(o), Dest)
    <2>. DEFINE x == names[here][Quarantine(o)]
    <2>1. SetTwo(Dest, x, Quarantine(o), Nothing)
      BY <1>4 DEF Restore, SetTwo
    <2>. HIDE DEF x
    <2>2. \A d \in Dirs, n \in Leaves :
            names'[d][n] = IF d = here /\ n = Dest THEN x
                           ELSE IF d = here /\ n = Quarantine(o) THEN Nothing ELSE names[d][n]
      BY <1>0, <2>1, BindTwo
    <2>. QED BY <2>2 DEF MovesTo, x
  <1>. QED BY <1>2, <1>3, <1>4

Mutation(o) ==
  \/ InstallAbsent(o) \/ Replace(o) \/ ReplacePartially(o)
  \/ MoveToQuarantine(o) \/ Restore(o)

LEMMA MutationBinds ==
  ASSUME TypeInv, NEW o \in Ops, Mutation(o)
  PROVE  Binds(Moved(o), Moved(o))
  <1>0. /\ Moved(o) \subseteq Leaves /\ here \in Dirs /\ born \in Nat
        /\ UNCHANGED <<data, born>>
    BY RoleApart, NothingIsNoFile
       DEF Moved, Mutation, InstallAbsent, Replace, Mutates, ReplacePartially,
           MoveToQuarantine, Restore
  <1>1. ASSUME NEW d \in Dirs, NEW l \in Leaves, names'[d][l] # names[d][l]
        PROVE  /\ l \in Moved(o)
               /\ \/ names'[d][l] = Nothing
                  \/ \E k \in Moved(o) : names'[d][l] = names[d][k]
    <2>1. CASE InstallAbsent(o)
      BY <1>1, <2>1, InstallAbsentNames DEF Moved
    <2>2. CASE Replace(o)
      BY <1>1, <2>2, ReplaceNames DEF Moved
    <2>3. CASE ReplacePartially(o) \/ MoveToQuarantine(o) \/ Restore(o)
      BY <1>1, <2>3, MoveNames DEF Moved, MovesTo
    <2>. QED BY <2>1, <2>2, <2>3 DEF Mutation
  <1>. QED BY <1>0, <1>1 DEF Binds

(* One step of a call: the leaves it binds, and what it leaves alone.      *)
Evidence(o) == {Recovery(o), Spare(o), Copy(o)}

Frame(o) ==
  /\ \E K \in SUBSET (Moved(o) \union Evidence(o)), S \in SUBSET Moved(o) :
       /\ Binds(K, S)
       /\ Recovery(o) \in K => Retain(o) \/ ReplacedRetire(o)
       /\ Dest \in K => Mutation(o)
       /\ S # {} => Mutation(o)
  /\ here' = here /\ UNCHANGED bounds /\ DiskStep /\ pc'[o] # "idle"
  /\ \A p \in Ops \ {o} :
       /\ pc'[p] = pc[p] /\ request'[p] = request[p] /\ reply'[p] = reply[p]
       /\ effect'[p] = effect[p] /\ staged'[p] = staged[p] /\ seen'[p] = seen[p]
       /\ place'[p] = place[p]
  /\ request' = request \/ Call(o)
  /\ UNCHANGED <<effect, place>> \/ Mutation(o)
  /\ destroyed' = destroyed \/ Unlink(o)

LEMMA FrameBinds ==
  ASSUME NEW o \in Ops, NEW K, Binds(K, {}), K \subseteq {Staged(o), Quarantine(o), Spare(o), Copy(o)},
         UNCHANGED <<here, bounds, effect, place>>, DiskStep, request' = request \/ Call(o),
         pc'[o] # "idle",
         \A p \in Ops \ {o} :
           /\ pc'[p] = pc[p] /\ request'[p] = request[p] /\ reply'[p] = reply[p]
           /\ staged'[p] = staged[p] /\ seen'[p] = seen[p],
         destroyed' = destroyed \/ Unlink(o)
  PROVE  Frame(o)
  <1>1. K \in SUBSET (Moved(o) \union Evidence(o))
    BY DEF Moved, Evidence
  <1>2. Recovery(o) \notin K /\ Dest \notin K
    BY DEF Staged, Quarantine, Spare, Copy, Recovery, Dest
  <1>. QED BY <1>1, <1>2 DEF Frame

LEMMA ReturnOthers ==
  ASSUME TypeInv, NEW o \in Ops, NEW k, NEW v, NEW r, Return(o, k, v, r)
  PROVE  /\ pc'[o] = "done"
         /\ \A p \in Ops \ {o} : pc'[p] = pc[p] /\ reply'[p] = reply[p]
  BY Parts DEF Return, ControlOK

LEMMA GotoOthers ==
  ASSUME TypeInv, NEW o \in Ops, NEW from, NEW to, Goto(o, from, to)
  PROVE  pc'[o] = to /\ \A p \in Ops \ {o} : pc'[p] = pc[p]
  BY Parts DEF Goto, ControlOK

LEMMA StillFrame ==
  ASSUME TypeInv, NEW o \in Ops,
         StillWrite(o) \/ StillRemove(o) \/ Reports(o) \/ Confirms(o) \/ Call(o) \/ Acquire(o)
  PROVE  Frame(o)
  <1>1. /\ Binds({}, {}) /\ UNCHANGED <<here, bounds, effect, destroyed, place>> /\ DiskStep
    BY StillBinds
  <1>2. CASE StillWrite(o)
    <2>1. (\E from, to : Goto(o, from, to) /\ to # "idle") /\ UNCHANGED <<request, reply>>
      BY <1>2 DEF StillWrite, RetainSync, CompareMatches, CheckStaged, CheckStagedFails,
         InstallFindsFile, InstallFails, CreatedCheckHandle, CreatedObserve, SaveDisplacedBytes,
         ReplacedCheckHandle, ReplacedObserveNew, ReplacedCompare, ReplacedSync, ReplacedBind,
         Quiet, local
    <2>2. UNCHANGED staged
      BY <1>2 DEF StillWrite, RetainSync, CompareMatches, CheckStaged, CheckStagedFails,
         InstallFindsFile, InstallFails, CreatedCheckHandle, CreatedObserve, SaveDisplacedBytes,
         ReplacedCheckHandle, ReplacedObserveNew, ReplacedCompare, ReplacedSync, ReplacedBind,
         local
    <2>3. \A p \in Ops \ {o} : seen'[p] = seen[p]
      BY <1>2, Parts DEF StillWrite, RetainSync, CompareMatches, CheckStaged, CheckStagedFails,
         InstallFindsFile, InstallFails, CreatedCheckHandle, CreatedObserve, SaveDisplacedBytes,
         ReplacedCheckHandle, ReplacedObserveNew, ReplacedCompare, ReplacedSync, ReplacedBind,
         local, LocalOK
    <2>. QED BY <1>1, <2>1, <2>2, <2>3, GotoOthers, FrameBinds
  <1>3. CASE StillRemove(o)
    <2>1. (\E from, to : Goto(o, from, to) /\ to # "idle") /\ UNCHANGED <<request, reply, staged, seen>>
      BY <1>3 DEF StillRemove, MoveFails, QuarantineSync, Examine, Quiet, local
    <2>. QED BY <1>1, <2>1, GotoOthers, FrameBinds
  <1>4. CASE Reports(o) \/ Confirms(o)
    <2>1. PICK k, v, r : Return(o, k, v, r)
      BY <1>4 DEF Reports, StagingFails, ReportPartial, Classify, ReportExisting,
         CreatedFinishFails, ReplacedHandleFails, ReplacedFails, Reinspect, RestoreFails,
         UnlinkMismatch, RemoveFails, ReturnPure, Confirms, CreatedSync, RestoreSync, UnlinkSync
    <2>2. UNCHANGED <<request, staged, seen>>
      BY <1>4 DEF Reports, StagingFails, ReportPartial, Classify, ReportExisting,
         CreatedFinishFails, ReplacedHandleFails, ReplacedFails, Reinspect, RestoreFails,
         UnlinkMismatch, RemoveFails, ReturnPure, Confirms, CreatedSync, RestoreSync, UnlinkSync,
         local
    <2>. QED BY <1>1, <2>1, <2>2, ReturnOthers, FrameBinds
  <1>5. CASE Call(o) \/ Acquire(o)
    <2>1. pc'[o] # "idle" /\ \A p \in Ops \ {o} : request'[p] = request[p] /\ pc'[p] = pc[p]
      BY <1>5, Parts DEF Call, Acquire, ControlOK
    <2>2. UNCHANGED <<reply, staged, seen>> /\ (request' = request \/ Call(o))
      BY <1>5 DEF Call, Acquire
    <2>. QED BY <1>1, <2>1, <2>2, FrameBinds
  <1>. QED BY <1>2, <1>3, <1>4, <1>5

LEMMA RetireFrame ==
  ASSUME TypeInv, NEW o \in Ops, Retires(o)
  PROVE  Frame(o)
  <1>1. /\ Binds({Staged(o)}, {}) /\ UNCHANGED <<here, bounds, effect, destroyed, place>> /\ DiskStep
    BY RetiresBinds
  <1>2. UNCHANGED <<request, staged, seen>>
    BY DEF Retires, CompareConflicts, CreationIndeterminate, CreatedRetireAlias, local
  <1>3. pc'[o] # "idle" /\ \A p \in Ops \ {o} : pc'[p] = pc[p] /\ reply'[p] = reply[p]
    <2>1. CASE CreatedRetireAlias(o)
      BY <2>1, GotoOthers DEF CreatedRetireAlias
    <2>2. CASE CompareConflicts(o) \/ CreationIndeterminate(o)
      BY <2>2, ReturnOthers DEF CompareConflicts, CreationIndeterminate
    <2>. QED BY <2>1, <2>2 DEF Retires
  <1>. QED BY <1>1, <1>2, <1>3, FrameBinds

LEMMA CreateFrame ==
  ASSUME TypeInv, NEW o \in Ops, Stage(o) \/ Retain(o) \/ ReplacedRetire(o) \/ Unlink(o)
  PROVE  Frame(o)
  <1>1. UNCHANGED <<here, bounds, effect, request, seen, place>> /\ DiskStep
    BY HereDisk DEF Stage, Retain, ReplacedRetire, Unlink, local
  <1>2. pc'[o] # "idle" /\ \A p \in Ops \ {o} :
          pc'[p] = pc[p] /\ request'[p] = request[p] /\ reply'[p] = reply[p]
          /\ staged'[p] = staged[p] /\ seen'[p] = seen[p]
    <2>1. CASE Stage(o)
      BY <1>1, <2>1, GotoOthers, Parts DEF Stage, LocalOK
    <2>2. CASE Retain(o) \/ Unlink(o)
      BY <1>1, <2>2, GotoOthers DEF Retain, Unlink, local
    <2>3. CASE ReplacedRetire(o)
      BY <1>1, <2>3, ReturnOthers DEF ReplacedRetire, local
    <2>. QED BY <2>1, <2>2, <2>3
  <1>3. destroyed' = destroyed \/ Unlink(o)
    BY DEF Stage, Retain, ReplacedRetire
  <1>4. CASE Stage(o) \/ Unlink(o)
    BY <1>1, <1>2, <1>3, <1>4, CreatesBind, FrameBinds
  <1>5. CASE Retain(o) \/ ReplacedRetire(o)
    <2>1. Binds({Recovery(o)}, {})
      BY <1>5, CreatesBind
    <2>2. {Recovery(o)} \in SUBSET (Moved(o) \union Evidence(o)) /\ Dest \notin {Recovery(o)}
      BY DEF Evidence, Recovery, Dest
    <2>. QED BY <1>1, <1>2, <1>3, <1>5, <2>1, <2>2 DEF Frame
  <1>. QED BY <1>4, <1>5

LEMMA QuietFrame ==
  ASSUME TypeInv, NEW o \in Ops, NEW from, NEW to, Goto(o, from, to), to # "idle",
         Quiet, UNCHANGED local
  PROVE  Frame(o)
  <1>1. UNCHANGED <<names, data, born, here, bounds, effect, destroyed, request, reply, staged, seen, place>>
        /\ DiskStep
    BY SameDisk DEF Quiet, ns, local
  <1>. QED BY <1>1, SameBinds, GotoOthers, FrameBinds

LEMMA PureFrame ==
  ASSUME TypeInv, NEW o \in Ops, NEW k, NEW v, NEW r, ReturnPure(o, k, v, r)
  PROVE  Frame(o)
  <1>1. UNCHANGED <<names, data, born, here, bounds, effect, destroyed, request, staged, seen, place>>
        /\ DiskStep /\ Return(o, k, v, r)
    BY SameDisk DEF ReturnPure, ns, local
  <1>. QED BY <1>1, SameBinds, ReturnOthers, FrameBinds

LEMMA CheckFrame ==
  ASSUME TypeInv, NEW o \in Ops,
         \/ CheckParent(o) \/ CreatedCheckParent(o) \/ ReplacedCheckParent(o)
         \/ Inspect(o) \/ Assess(o)
  PROVE  Frame(o)
  <1>1. ASSUME NEW known, NEW image, ParentChanged(o, known, image) PROVE Frame(o)
    <2>1. UNCHANGED <<here, bounds, effect, destroyed, request, staged, seen, place>> /\ DiskStep
      <3>1. \E made : Settle(made)
        BY <1>1 DEF ParentChanged
      <3>2. DiskStep
        BY <3>1 DEF Settle, DiskStep
      <3>. QED BY <1>1, <3>2 DEF ParentChanged, local
    <2>2. PICK r : Return(o, "indeterminate", Nothing, r)
      BY <1>1 DEF ParentChanged
    <2>. QED BY <1>1, <2>1, <2>2, ParentChangedBinds, ReturnOthers, FrameBinds
  <1>2. CASE CheckParent(o) \/ CreatedCheckParent(o) \/ ReplacedCheckParent(o)
    BY <1>1, <1>2, QuietFrame DEF CheckParent, CreatedCheckParent, ReplacedCheckParent
  <1>3. CASE Inspect(o) \/ Assess(o)
    BY <1>3, QuietFrame, PureFrame DEF Inspect, Assess
  <1>. QED BY <1>2, <1>3

LEMMA MutationFrame ==
  ASSUME TypeInv, NEW o \in Ops, Mutation(o)
  PROVE  Frame(o)
  <1>1. /\ UNCHANGED <<here, bounds, destroyed, request, reply, staged, seen>> /\ DiskStep
    BY HereDisk DEF Mutation, InstallAbsent, Replace, Mutates, ReplacePartially, MoveToQuarantine,
       Restore, local
  <1>2. pc'[o] # "idle" /\ \A p \in Ops \ {o} :
          effect'[p] = effect[p] /\ pc'[p] = pc[p] /\ place'[p] = place[p]
    BY Parts DEF Mutation, InstallAbsent, Replace, Mutates, ReplacePartially, MoveToQuarantine,
       Restore, Goto, ControlOK, NamesOK, LocalOK, local
  <1>3. Recovery(o) \notin Moved(o)
    BY RoleApart DEF Moved
  <1>. QED BY <1>1, <1>2, <1>3, MutationBinds DEF Frame

(* Every step of a call has this frame.                                    *)
LEMMA StepFrame ==
  ASSUME TypeInv, NEW o \in Ops, Call(o) \/ OpStep(o)
  PROVE  Frame(o)
  <1>1. CASE WriteStep(o)
    BY <1>1, StillFrame, RetireFrame, CreateFrame, CheckFrame, MutationFrame
       DEF WriteStep, StillWrite, Reports, Confirms, Retires, Mutation
  <1>2. CASE RemoveStep(o)
    BY <1>2, StillFrame, CreateFrame, CheckFrame, MutationFrame
       DEF RemoveStep, StillRemove, Reports, Confirms, Mutation
  <1>. QED BY <1>1, <1>2, StillFrame DEF OpStep

-------------------------------------------------------------------------------
(* A file never leaves its directory, in no tree a power loss may bring    *)
(* back: this is what lets the directories reach the disk one by one.      *)
Placed(m) ==
  \A d \in Dirs, l \in Leaves :
    m[d][l] # Nothing => m[d][l] \in 1..born /\ data[m[d][l]].dir = d

PlacedInv == Placed(names) /\ \A s \in onDisk : Placed(s.names)

(* No step moves a file that exists.                                       *)
FilesStay ==
  /\ born \in Nat /\ born' \in Nat /\ born' >= born
  /\ \A x \in 1..born : data'[x].dir = data[x].dir

LEMMA PlacedStays ==
  ASSUME FilesStay, NEW m, Placed(m)
  PROVE  Placed(m)'
  <1>1. \A x \in 1..born : x \in 1..born'
    BY DEF FilesStay
  <1>. QED BY <1>1 DEF Placed, FilesStay

LEMMA PlacedMixed ==
  ASSUME NEW s, NEW D, Placed(s.names)', Placed(names)'
  PROVE  Placed(Current(s, D).names)'
  <1>1. \A d \in Dirs : Current(s, D).names'[d] = IF d \in D THEN names'[d] ELSE s.names[d]
    BY DEF Current
  <1>. QED BY <1>1 DEF Placed

LEMMA PlacedDisk ==
  ASSUME PlacedInv, FilesStay, DiskStep, Placed(names)'
  PROVE  PlacedInv'
  <1>1. ASSUME NEW s \in onDisk PROVE Placed(s.names)'
    BY PlacedStays DEF PlacedInv
  <1>2. ASSUME NEW t \in onDisk' PROVE Placed(t.names)'
    <2>1. CASE t \in onDisk
      BY <1>1, <2>1
    <2>2. CASE t \notin onDisk
      <3>1. PICK s \in onDisk : \E D : t = Current(s, D)'
        BY <2>2 DEF DiskStep
      <3>2. PICK D : t = Current(s, D)'
        BY <3>1
      <3>3. Placed(Current(s, D).names)'
        BY <1>1, PlacedMixed
      <3>. QED BY <3>2, <3>3 DEF Placed
    <2>. QED BY <2>1, <2>2
  <1>. QED BY <1>2 DEF PlacedInv

(* What every step but a power loss does: the files stay where they are    *)
(* and the disk is a mixture of what it was and of what is there now.      *)
OrdinaryStep ==
  /\ FilesStay /\ DiskStep
  /\ \A p \in Ops : pc'[p] = "idle" => pc[p] = "idle"

LEMMA PlacedCallStep ==
  ASSUME TypeInv, PlacedInv, NEW o \in Ops, Call(o) \/ OpStep(o)
  PROVE  PlacedInv' /\ OrdinaryStep
  <1>1. Frame(o)
    BY StepFrame
  <1>2. PICK K, S :
          /\ K \subseteq Moved(o) \union Evidence(o) /\ S \subseteq Moved(o)
          /\ Binds(K, S)
    BY <1>1 DEF Frame
  <1>3. FilesStay
    BY <1>2, NothingIsNoFile DEF Binds, FilesStay
  <1>4. ASSUME NEW d \in Dirs, NEW l \in Leaves, names'[d][l] # Nothing
        PROVE  names'[d][l] \in 1..born' /\ data'[names'[d][l]].dir = d
    <2>1. CASE names'[d][l] \in (born + 1)..born' /\ data'[names'[d][l]].dir = d
      BY <1>3, <2>1 DEF FilesStay
    <2>2. CASE \E k \in Leaves : names'[d][l] = names[d][k]
      <3>1. PICK k \in Leaves : names'[d][l] = names[d][k]
        BY <2>2
      <3>2. names[d][k] \in 1..born /\ data[names[d][k]].dir = d
        BY <1>4, <3>1 DEF PlacedInv, Placed
      <3>. QED BY <1>3, <3>1, <3>2 DEF FilesStay
    <2>3. Moved(o) \subseteq Leaves
      BY RoleApart DEF Moved
    <2>. QED BY <1>2, <1>4, <2>1, <2>2, <2>3 DEF Binds
  <1>5. Placed(names)'
    BY <1>4 DEF Placed
  <1>. QED BY <1>1, <1>3, <1>5, PlacedDisk DEF Frame, OrdinaryStep

LEMMA PlacedEnvironment ==
  ASSUME TypeInv, PlacedInv, Environment
  PROVE  PlacedInv' /\ (PowerLoss \/ OrdinaryStep)
  <1>0. /\ born \in Nat /\ here \in Dirs /\ Placed(names)
        /\ \A x \in 1..born : x \in Objects
    BY NothingIsNoFile, Parts, BoundAssumption DEF FilesOK, Objects, PlacedInv
  <1>9. PowerLoss \/ UNCHANGED pc
    BY DEF Environment, ForeignWrites, ForeignReplaces, ForeignRemoves, SwapParent, Foreign
  <1>1. CASE SwapParent
    <2>1. FilesStay /\ UNCHANGED <<names, data, born, onDisk>>
      BY <1>0, <1>1 DEF SwapParent, FilesStay
    <2>2. Placed(names)'
      BY <1>0, <2>1 DEF Placed
    <2>. QED BY <1>9, <2>1, <2>2, PlacedDisk, SameDisk DEF OrdinaryStep
  <1>2. CASE ForeignWrites
    <2>1. PICK l \in {Dest} \union Private, b \in Images :
             /\ names[here][l] # Nothing
             /\ data' = [data EXCEPT ![names[here][l]] =
                           [bytes |-> b, stamp |-> foreign + 1, dir |-> here]]
      BY <1>2 DEF ForeignWrites
    <2>2. l \in Leaves
      BY LeafType, LeafNames, Parts DEF Private, ControlOK, Leaves
    <2>3. names[here][l] \in 1..born /\ data[names[here][l]].dir = here
      BY <1>0, <2>1, <2>2 DEF Placed
    <2>4. \A x \in Objects : data'[x].dir = data[x].dir
      BY <1>0, <2>1, <2>3, Parts DEF FilesOK
    <2>5. FilesStay /\ UNCHANGED <<names, born, onDisk>>
      BY <1>0, <1>2, <2>4 DEF ForeignWrites, FilesStay
    <2>6. Placed(names)'
      BY <1>0, <2>4, <2>5 DEF Placed
    <2>. QED BY <1>9, <2>5, <2>6, PlacedDisk, SameDisk DEF OrdinaryStep
  <1>3. CASE ForeignReplaces
    <2>1. PICK l \in {Dest} \union (IF lock = NoOp THEN {} ELSE {Staged(lock)}), b \in Images :
             /\ Bind(l, born + 1)
             /\ data' = [data EXCEPT ![born + 1] =
                           [bytes |-> b, stamp |-> foreign + 1, dir |-> here]]
      BY <1>3 DEF ForeignReplaces
    <2>2. l \in Leaves
      BY LeafType, LeafNames, Parts DEF ControlOK, Leaves
    <2>3. \A d \in Dirs, m \in Leaves :
            names'[d][m] = IF d = here /\ m = l THEN born + 1 ELSE names[d][m]
      BY <2>1, <2>2, BindAt
    <2>4. born + 1 \in Objects /\ born' = born + 1 /\ here' = here
      BY <1>0, <1>3, BoundAssumption DEF ForeignReplaces, Objects
    <2>5. data'[born + 1].dir = here /\ \A x \in 1..born : data'[x] = data[x]
      BY <1>0, <2>1, <2>4, Parts DEF FilesOK
    <2>6. FilesStay
      BY <1>0, <2>4, <2>5 DEF FilesStay
    <2>7. Placed(names)'
      BY <1>0, <2>3, <2>4, <2>5 DEF Placed
    <2>8. DiskStep
      BY <1>3, <2>4, HereDisk DEF ForeignReplaces
    <2>. QED BY <1>9, <2>6, <2>7, <2>8, PlacedDisk DEF OrdinaryStep
  <1>4. CASE ForeignRemoves
    <2>1. PICK l \in {Dest} \union (IF lock = NoOp THEN {} ELSE {Staged(lock)}) :
             Bind(l, Nothing)
      BY <1>4 DEF ForeignRemoves
    <2>2. l \in Leaves
      BY LeafType, LeafNames, Parts DEF ControlOK, Leaves
    <2>3. \A d \in Dirs, m \in Leaves :
            names'[d][m] = IF d = here /\ m = l THEN Nothing ELSE names[d][m]
      BY <2>1, <2>2, BindAt
    <2>4. FilesStay /\ UNCHANGED <<data, born, here>>
      BY <1>0, <1>4 DEF ForeignRemoves, FilesStay
    <2>5. Placed(names)'
      BY <1>0, <2>3, <2>4 DEF Placed
    <2>6. DiskStep
      BY <1>4, <2>4, HereDisk DEF ForeignRemoves
    <2>. QED BY <1>9, <2>4, <2>5, <2>6, PlacedDisk DEF OrdinaryStep
  <1>5. CASE PowerLoss
    <2>1. PICK image \in onDisk : names' = image.names
      BY <1>5 DEF PowerLoss
    <2>2. onDisk' = {Image'} /\ UNCHANGED <<data, born>> /\ Image'.names = names'
      BY <1>5 DEF PowerLoss, Image
    <2>3. Placed(names)'
      BY <2>1, <2>2 DEF PlacedInv, Placed
    <2>. QED BY <1>5, <2>2, <2>3 DEF PlacedInv, Placed
  <1>. QED BY <1>1, <1>2, <1>3, <1>4, <1>5 DEF Environment

LEMMA PlacedInitial == ASSUME Init PROVE PlacedInv
  <1>1. /\ \A d \in Dirs, l \in Leaves :
             names[d][l] # Nothing => d = "home" /\ names[d][l] = 1 /\ born = 1
        /\ \A x \in Objects : data[x].dir = "home"
        /\ \A s \in onDisk : s.names = names
    BY DEF Init
  <1>2. 1 \in Objects
    BY BoundAssumption DEF Objects
  <1>. QED BY <1>1, <1>2 DEF PlacedInv, Placed

LEMMA PlacedStep ==
  ASSUME TypeInv, PlacedInv, [Next]_vars
  PROVE  PlacedInv' /\ (PowerLoss \/ OrdinaryStep)
  <1>1. CASE UNCHANGED vars
    <2>1. born \in Nat /\ UNCHANGED <<names, data, born, pc, onDisk>>
      BY <1>1, NothingIsNoFile DEF vars, ns
    <2>. QED BY <2>1, SameDisk DEF PlacedInv, Placed, OrdinaryStep, FilesStay
  <1>. QED BY <1>1, PlacedCallStep, PlacedEnvironment DEF Next

-------------------------------------------------------------------------------
(* The invariant.  A power loss may bring back any image of the            *)
(* directories, so it speaks of each of them.                              *)

Kept(s) ==
  \A x \in s.documents :
    \/ \E d \in Dirs, l \in Leaves : s.names[d][l] = x
    \/ x \in s.dropped
    \/ \E v \in s.destroyed : v.object = x

(* A file that is created next is at no leaf and has not been a document.  *)
Fresh(s) ==
  /\ s.documents \subseteq 1..born
  /\ \A d \in Dirs, l \in Leaves : s.names[d][l] # Nothing => s.names[d][l] \in 1..born

Unused(o, s) == \A d \in Dirs, r \in Roles : s.names[d][<<r, o>>] = Nothing

ImageOK(s) == Kept(s) /\ Fresh(s) /\ \A o \in Ops : pc[o] = "idle" => Unused(o, s)

Exclusive == \A o \in Ops : pc[o] \notin {"idle", "waiting", "done"} => lock = o

(* Before its mutation a write has put nothing of value at its leaves.     *)
Unmutated == {"stage", "retain", "retainSync", "compare", "parent", "revalidate", "install"}
(* After a creation the staged alias is at the destination too.            *)
Aliased   == {"created", "createdHandle", "createdObserve", "createdAlias"}

(* The leaves a call is about to bind are free, and what it is about to    *)
(* unlink is no document or has another name.                              *)
LeafOK(o) ==
  /\ pc[o] = "waiting" => Unused(o, Image)
  /\ pc[o] = "stage" => \A d \in Dirs : names[d][Staged(o)] = Nothing
  /\ pc[o] \in {"stage", "retain"} => \A d \in Dirs : names[d][Recovery(o)] = Nothing
  /\ pc[o] \in {"inspect", "quarantine"} => \A d \in Dirs : names[d][Quarantine(o)] = Nothing
  /\ pc[o] \in WriteLabels => \A d \in Dirs :
       /\ names[d][Spare(o)] = Nothing
       /\ names[d][Copy(o)] = Nothing
       /\ names[d][Recovery(o)] \notin documents
  /\ pc[o] \in Unmutated => \A d \in Dirs :
       /\ names[d][Staged(o)] \notin documents
       /\ names[d][<<"displaced", o>>] = Nothing
       /\ \A e \in Dirs : names[e][Recovery(o)] # Nothing =>
                            names[e][Recovery(o)] # names[d][Staged(o)]
  /\ pc[o] \in Aliased => \A d \in Dirs :
       names[d][Staged(o)] \in documents =>
         \/ names[d][Staged(o)] \in dropped
         \/ \E e \in Dirs : names[e][Dest] = names[d][Staged(o)]

(* The present directories, and all of them.                               *)
KeptNow == ImageOK(Image) /\ Exclusive /\ \A o \in Ops : LeafOK(o)

KeptInv == KeptNow /\ \A s \in onDisk : ImageOK(s)

-------------------------------------------------------------------------------
(* The documents a step must account for.                                  *)
LEMMA KeptNext ==
  ASSUME Kept(Image), dropped \subseteq dropped', destroyed \subseteq destroyed',
         \A x \in documents' \ documents : \E d \in Dirs, l \in Leaves : names'[d][l] = x,
         \A d \in Dirs, l \in Leaves : names[d][l] \in documents =>
            \/ \E e \in Dirs, m \in Leaves : names'[e][m] = names[d][l]
            \/ names[d][l] \in dropped'
            \/ \E v \in destroyed' : v.object = names[d][l]
  PROVE  Kept(Image)'
  <1>. SUFFICES ASSUME NEW x \in documents'
                PROVE  \/ \E d \in Dirs, l \in Leaves : names'[d][l] = x
                       \/ x \in dropped'
                       \/ \E v \in destroyed' : v.object = x
    BY DEF Kept, Image
  <1>1. CASE x \notin documents
    BY <1>1
  <1>2. CASE x \in documents
    <2>1. \/ \E d \in Dirs, l \in Leaves : names[d][l] = x
          \/ x \in dropped
          \/ \E v \in destroyed : v.object = x
      BY <1>2 DEF Kept, Image
    <2>. QED BY <1>2, <2>1
  <1>. QED BY <1>1, <1>2

(* A step of one call: what is left to show of it.                         *)
LEMMA OwnStep ==
  ASSUME TypeInv, KeptInv, NEW o \in Ops, NEW to,
         pc' = [pc EXCEPT ![o] = to], to # "idle", to # "waiting",
         \A p \in Ops \ {o} : pc[p] \in {"idle", "waiting", "done"},
         to = "done" \/ lock' = o,
         \A d \in Dirs, p \in Ops \ {o}, r \in Roles : names'[d][<<r, p>>] = names[d][<<r, p>>],
         born' \in Nat, born' >= born,
         Kept(Image)', Fresh(Image)', LeafOK(o)'
  PROVE  KeptNow'
  <1>0. born \in Nat /\ pc \in [Ops -> Labels]
    BY NothingIsNoFile, Parts DEF ControlOK
  <1>1. /\ pc'[o] = to
        /\ \A p \in Ops \ {o} : pc'[p] = pc[p]
    BY <1>0
  <1>3. ASSUME NEW p \in Ops, p # o, pc[p] \in {"idle", "waiting"}
        PROVE  Unused(p, Image)'
    <2>1. Unused(p, Image)
      BY <1>3 DEF KeptInv, KeptNow, ImageOK, LeafOK
    <2>. QED BY <1>3, <2>1 DEF Unused, Image
  <1>5. ImageOK(Image)'
    <2>1. \A p \in Ops : pc'[p] = "idle" => Unused(p, Image)'
      BY <1>1, <1>3
    <2>. QED BY <2>1 DEF ImageOK
  <1>7. Exclusive'
    BY <1>1 DEF Exclusive
  <1>8. ASSUME NEW p \in Ops PROVE LeafOK(p)'
    <2>1. CASE p = o
      BY <2>1
    <2>2. CASE p # o
      <3>1. pc'[p] \in {"idle", "waiting", "done"}
        BY <1>1, <2>2
      <3>2. pc'[p] = "waiting" => Unused(p, Image)'
        BY <1>1, <1>3, <2>2
      <3>. QED BY <3>1, <3>2 DEF LeafOK, WriteLabels, Unmutated, Aliased
    <2>. QED BY <2>1, <2>2
  <1>. QED BY <1>5, <1>7, <1>8 DEF KeptNow

(* Who runs holds the lock, and nobody else runs.                          *)
LEMMA AloneInside ==
  ASSUME KeptInv, NEW o \in Ops, pc[o] \notin {"idle", "waiting", "done"}
  PROVE  lock = o /\ \A p \in Ops \ {o} : pc[p] \in {"idle", "waiting", "done"}
  BY DEF KeptInv, KeptNow, Exclusive

(* A step that changes no name.                                            *)
LEMMA SameNames ==
  ASSUME KeptInv, TypeInv, UNCHANGED <<ns, born>>
  PROVE  Kept(Image)' /\ Fresh(Image)'
  BY DEF KeptInv, KeptNow, ImageOK, Kept, Fresh, Image, ns

-------------------------------------------------------------------------------
(* The steps that change no name.                                          *)

(* What holds at a label holds at the one a quiet step leads to.           *)
Follows(from, to) ==
  /\ from \notin {"idle", "waiting", "done"}
  /\ to \notin {"idle", "waiting", "done", "stage"}
  /\ to = "retain" => from \in {"stage", "retain"}
  /\ to \in {"inspect", "quarantine"} => from \in {"inspect", "quarantine"}
  /\ to \in WriteLabels => from \in WriteLabels
  /\ to \in Unmutated => from \in Unmutated
  /\ to \in Aliased => from \in Aliased

LEMMA GotoKept ==
  ASSUME TypeInv, KeptInv, NEW o \in Ops, NEW from, NEW to, Goto(o, from, to),
         Follows(from, to), UNCHANGED <<ns, born, lock>>
  PROVE  KeptNow'
  <1>1. /\ pc[o] = from /\ pc' = [pc EXCEPT ![o] = to] /\ pc'[o] = to
      BY Parts DEF Goto, ControlOK
  <1>2. lock' = o /\ \A p \in Ops \ {o} : pc[p] \in {"idle", "waiting", "done"}
    BY <1>1, AloneInside DEF Follows
  <1>3. LeafOK(o)'
    <2>1. LeafOK(o)
      BY DEF KeptInv, KeptNow
    <2>. QED BY <1>1, <2>1 DEF LeafOK, Follows, ns
  <1>4. born' \in Nat /\ born' >= born
    BY NothingIsNoFile
  <1>5. to # "idle" /\ to # "waiting" /\ names' = names
    BY DEF Follows, ns
  <1>6. Kept(Image)' /\ Fresh(Image)'
    BY SameNames
  <1>. QED BY <1>1, <1>2, <1>3, <1>4, <1>5, <1>6, OwnStep

LEMMA ReturnKept ==
  ASSUME TypeInv, KeptInv, NEW o \in Ops, NEW k, NEW v, NEW r, Return(o, k, v, r),
         pc[o] \notin {"idle", "waiting", "done"},
         \A d \in Dirs, p \in Ops \ {o}, q \in Roles : names'[d][<<q, p>>] = names[d][<<q, p>>],
         born' \in Nat, born' >= born, Kept(Image)', Fresh(Image)'
  PROVE  KeptNow'
  <1>1. pc' = [pc EXCEPT ![o] = "done"] /\ pc'[o] = "done"
    BY Parts DEF Return, ControlOK
  <1>2. \A p \in Ops \ {o} : pc[p] \in {"idle", "waiting", "done"}
    BY AloneInside
  <1>3. LeafOK(o)'
    BY <1>1 DEF LeafOK, WriteLabels, Unmutated, Aliased
  <1>. QED BY <1>1, <1>2, <1>3, OwnStep

LEMMA StillReturnKept ==
  ASSUME TypeInv, KeptInv, NEW o \in Ops, NEW k, NEW v, NEW r, Return(o, k, v, r),
         pc[o] \notin {"idle", "waiting", "done"}, UNCHANGED <<ns, born>>
  PROVE  KeptNow'
  <1>1. Kept(Image)' /\ Fresh(Image)'
    BY SameNames
  <1>2. born' \in Nat /\ born' >= born /\ names' = names
    BY NothingIsNoFile DEF ns
  <1>. QED BY <1>1, <1>2, ReturnKept

LEMMA QuietWritesKept ==
  ASSUME TypeInv, KeptInv, NEW o \in Ops,
         \/ RetainSync(o) \/ CompareMatches(o) \/ CheckStaged(o) \/ CheckStagedFails(o)
         \/ InstallFindsFile(o) \/ InstallFails(o) \/ CreatedCheckHandle(o) \/ CreatedObserve(o)
         \/ SaveDisplacedBytes(o) \/ ReplacedCheckHandle(o) \/ ReplacedObserveNew(o)
         \/ ReplacedCompare(o) \/ ReplacedSync(o) \/ ReplacedBind(o)
  PROVE  KeptNow'
  <1>1. UNCHANGED <<ns, born, lock>>
    BY DEF RetainSync, CompareMatches, CheckStaged, CheckStagedFails, InstallFindsFile,
       InstallFails, CreatedCheckHandle, CreatedObserve, SaveDisplacedBytes,
       ReplacedCheckHandle, ReplacedObserveNew, ReplacedCompare, ReplacedSync, ReplacedBind, Quiet
  <1>2. PICK from, to : Goto(o, from, to) /\ Follows(from, to)
    BY DEF Follows, WriteLabels, Unmutated, Aliased, RetainSync, CompareMatches, CheckStaged,
       CheckStagedFails, InstallFindsFile, InstallFails, CreatedCheckHandle, CreatedObserve,
       SaveDisplacedBytes, ReplacedCheckHandle, ReplacedObserveNew, ReplacedCompare,
       ReplacedSync, ReplacedBind
  <1>. QED BY <1>1, <1>2, GotoKept

LEMMA QuietRemovesKept ==
  ASSUME TypeInv, KeptInv, NEW o \in Ops, MoveFails(o) \/ QuarantineSync(o) \/ Examine(o)
  PROVE  KeptNow'
  <1>1. UNCHANGED <<ns, born, lock>>
    BY DEF MoveFails, QuarantineSync, Examine, Quiet
  <1>2. PICK from, to : Goto(o, from, to) /\ Follows(from, to)
    BY DEF Follows, WriteLabels, Unmutated, Aliased, MoveFails, QuarantineSync, Examine
  <1>. QED BY <1>1, <1>2, GotoKept

(* Answers that leave the directory as it is.                              *)
LEMMA FailuresKept ==
  ASSUME TypeInv, KeptInv, NEW o \in Ops,
         \/ StagingFails(o) \/ ReportPartial(o) \/ Classify(o) \/ ReportExisting(o)
         \/ CreatedFinishFails(o) \/ ReplacedHandleFails(o) \/ ReplacedFails(o)
         \/ Reinspect(o) \/ RestoreFails(o) \/ UnlinkMismatch(o) \/ RemoveFails(o)
         \/ CreatedSync(o) \/ RestoreSync(o) \/ UnlinkSync(o)
  PROVE  KeptNow'
  <1>1. pc[o] \notin {"idle", "waiting", "done"}
    BY DEF StagingFails, ReportPartial, Classify, ReportExisting, CreatedFinishFails,
       ReplacedHandleFails, ReplacedFails, Reinspect, RestoreFails, UnlinkMismatch,
       RemoveFails, CreatedSync, RestoreSync, UnlinkSync
  <1>2. CASE CreatedSync(o) \/ RestoreSync(o) \/ UnlinkSync(o)
    <2>1. UNCHANGED <<ns, born>>
      BY <1>2 DEF CreatedSync, RestoreSync, UnlinkSync
    <2>2. PICK k, v, r : Return(o, k, v, r)
      BY <1>2 DEF CreatedSync, RestoreSync, UnlinkSync
    <2>. QED BY <1>1, <2>1, <2>2, StillReturnKept
  <1>3. CASE ~ (CreatedSync(o) \/ RestoreSync(o) \/ UnlinkSync(o))
    <2>1. PICK k, v, r : ReturnPure(o, k, v, r)
      BY <1>3 DEF StagingFails, ReportPartial, Classify, ReportExisting, CreatedFinishFails,
         ReplacedHandleFails, ReplacedFails, Reinspect, RestoreFails, UnlinkMismatch,
         RemoveFails
    <2>2. UNCHANGED <<ns, born>>
      BY <2>1 DEF ReturnPure
    <2>. QED BY <1>1, <2>1, <2>2, StillReturnKept DEF ReturnPure
  <1>. QED BY <1>2, <1>3

LEMMA InspectKept ==
  ASSUME TypeInv, KeptInv, NEW o \in Ops, Inspect(o) \/ Assess(o)
  PROVE  KeptNow'
  <1>1. CASE Goto(o, "inspect", "quarantine") /\ Quiet
    BY <1>1, GotoKept DEF Follows, WriteLabels, Unmutated, Aliased, Quiet
  <1>2. CASE Goto(o, "assess", "restore") /\ Quiet
    BY <1>2, GotoKept DEF Follows, WriteLabels, Unmutated, Aliased, Quiet
  <1>3. CASE pc[o] \in {"inspect", "assess"} /\ \E k, v, r : ReturnPure(o, k, v, r)
    BY <1>3, StillReturnKept DEF ReturnPure
  <1>. QED BY <1>1, <1>2, <1>3 DEF Inspect, Assess

LEMMA CallKept ==
  ASSUME TypeInv, KeptInv, NEW o \in Ops, Call(o)
  PROVE  KeptNow'
  <1>1. /\ pc[o] = "idle" /\ pc'[o] = "waiting"
        /\ \A p \in Ops \ {o} : pc'[p] = pc[p]
        /\ UNCHANGED <<ns, born, lock>>
    BY Parts DEF Call, ControlOK
  <1>2. ImageOK(Image)'
    BY <1>1 DEF KeptInv, KeptNow, ImageOK, Kept, Fresh, Unused, Image, ns
  <1>3. Exclusive'
    BY <1>1 DEF KeptInv, KeptNow, Exclusive
  <1>4. Unused(o, Image)
    BY <1>1 DEF KeptInv, KeptNow, ImageOK
  <1>5. LeafOK(o)'
    BY <1>1, <1>4 DEF LeafOK, WriteLabels, Unmutated, Aliased, Unused, Image, ns
  <1>6. ASSUME NEW p \in Ops, p # o PROVE LeafOK(p)'
    <2>1. LeafOK(p)
      BY DEF KeptInv, KeptNow
    <2>. QED BY <1>1, <1>6, <2>1 DEF LeafOK, Unused, Image, ns
  <1>. QED BY <1>2, <1>3, <1>5, <1>6 DEF KeptNow

LEMMA AcquireKept ==
  ASSUME TypeInv, KeptInv, NEW o \in Ops, Acquire(o)
  PROVE  KeptNow'
  <1>. DEFINE to == IF request[o].kind = "write" THEN "stage" ELSE "inspect"
  <1>1. /\ pc[o] = "waiting" /\ pc' = [pc EXCEPT ![o] = to] /\ pc'[o] = to
        /\ lock = NoOp /\ lock' = o
        /\ UNCHANGED <<ns, born>>
    BY Parts DEF Acquire, ControlOK
  <1>2. \A p \in Ops \ {o} : pc[p] \in {"idle", "waiting", "done"}
    BY <1>1, NoOpAssumption DEF KeptInv, KeptNow, Exclusive
  <1>3. LeafOK(o)'
    <2>1. Unused(o, Image)
      BY <1>1 DEF KeptInv, KeptNow, LeafOK
    <2>2. \A d \in Dirs, r \in Roles : names'[d][<<r, o>>] = Nothing
      BY <1>1, <2>1 DEF Unused, Image, ns
    <2>3. Nothing \notin documents'
      BY <1>1, NothingIsNoFile DEF ns
    <2>. QED BY <1>1, <2>2, <2>3, LeafNames
             DEF LeafOK, Aliased, Roles, Staged, Recovery, Quarantine, Spare, Copy
  <1>4. Kept(Image)' /\ Fresh(Image)'
    BY <1>1, SameNames
  <1>5. born' \in Nat /\ born' >= born /\ names' = names
    BY <1>1, NothingIsNoFile DEF ns
  <1>6. to # "idle" /\ to # "waiting"
    OBVIOUS
  <1>. HIDE DEF to
  <1>. QED BY <1>1, <1>2, <1>3, <1>4, <1>5, <1>6, OwnStep

-------------------------------------------------------------------------------
(* The steps that bind or unbind private leaves.                           *)

LEMMA FreshNow ==
  ASSUME TypeInv, KeptInv
  PROVE  /\ documents \subseteq 1..born /\ born + 1 \notin documents
         /\ \A d \in Dirs, l \in Leaves :
              names[d][l] # Nothing => names[d][l] \in 1..born /\ names[d][l] # born + 1
  <1>1. Fresh(Image)
    BY DEF KeptInv, KeptNow, ImageOK
  <1>2. /\ documents \subseteq 1..born
        /\ \A d \in Dirs, l \in Leaves : names[d][l] # Nothing => names[d][l] \in 1..born
    BY <1>1 DEF Fresh, Image
  <1>3. born \in Nat
    BY NothingIsNoFile
  <1>. QED BY <1>2, <1>3

LEMMA CreateKept ==
  ASSUME TypeInv, KeptInv, NEW o \in Ops, NEW r \in Roles, NEW b, Create(<<r, o>>, b),
         names[here][<<r, o>>] = Nothing, UNCHANGED <<documents, dropped, destroyed>>
  PROVE  /\ Kept(Image)' /\ Fresh(Image)'
         /\ born' \in Nat /\ born' >= born
         /\ \A d \in Dirs, p \in Ops \ {o}, q \in Roles :
              names'[d][<<q, p>>] = names[d][<<q, p>>]
         /\ \A d \in Dirs, m \in Leaves :
              names'[d][m] = IF d = here /\ m = <<r, o>> THEN born + 1 ELSE names[d][m]
  <1>1. born \in Nat /\ born' = born + 1 /\ here \in Dirs
    BY NothingIsNoFile DEF Create
  <1>2. <<r, o>> \in Leaves
    BY LeafNames
  <1>3. \A d \in Dirs, m \in Leaves :
          names'[d][m] = IF d = here /\ m = <<r, o>> THEN born + 1 ELSE names[d][m]
    BY <1>2, BindAt DEF Create
  <1>4. Kept(Image) /\ Fresh(Image)
    BY DEF KeptInv, KeptNow, ImageOK
  <1>5. ASSUME NEW d \in Dirs, NEW l \in Leaves, names[d][l] \in documents
        PROVE  names'[d][l] = names[d][l]
    BY <1>3, <1>5, NothingIsNoFile
  <1>6. Kept(Image)'
    BY <1>4, <1>5, KeptNext
  <1>7. Fresh(Image)'
    <2>1. \A x \in 1..born : x \in 1..(born + 1)
      BY <1>1
    <2>2. born + 1 \in 1..(born + 1)
      BY <1>1
    <2>. QED BY <1>1, <1>3, <1>4, <2>1, <2>2 DEF Fresh, Image
  <1>8. \A d \in Dirs, p \in Ops \ {o}, q \in Roles : names'[d][<<q, p>>] = names[d][<<q, p>>]
    BY <1>3, LeafNames
  <1>. QED BY <1>1, <1>3, <1>6, <1>7, <1>8

LEMMA StageKept ==
  ASSUME TypeInv, KeptInv, NEW o \in Ops, Stage(o)
  PROVE  KeptNow'
  <1>1. /\ pc[o] = "stage" /\ pc' = [pc EXCEPT ![o] = "retain"] /\ pc'[o] = "retain"
        /\ Create(Staged(o), request[o].bytes)
        /\ UNCHANGED <<documents, dropped, destroyed, lock>>
    BY Parts DEF Stage, Goto, ControlOK
  <1>2. Staged(o) = <<"staged", o>> /\ "staged" \in Roles
    BY DEF Staged, Roles
  <1>3. LeafOK(o) /\ here \in Dirs /\ born \in Nat /\ Nothing \notin documents
    BY NothingIsNoFile DEF KeptInv, KeptNow
  <1>4. names[here][<<"staged", o>>] = Nothing
    BY <1>1, <1>2, <1>3 DEF LeafOK
  <1>5. /\ Kept(Image)' /\ Fresh(Image)'
        /\ born' \in Nat /\ born' >= born
        /\ \A d \in Dirs, p \in Ops \ {o}, q \in Roles :
             names'[d][<<q, p>>] = names[d][<<q, p>>]
        /\ \A d \in Dirs, m \in Leaves :
             names'[d][m] = IF d = here /\ m = <<"staged", o>> THEN born + 1 ELSE names[d][m]
    BY <1>1, <1>2, <1>4, CreateKept
  <1>6. born + 1 \notin documents
    BY FreshNow
  <1>7. ASSUME NEW d \in Dirs
        PROVE  /\ \A r \in Roles : r # "staged" => names'[d][<<r, o>>] = names[d][<<r, o>>]
               /\ names'[d][Staged(o)] \in {Nothing, born + 1}
    BY <1>1, <1>2, <1>3, <1>5, LeafNames DEF LeafOK
  <1>8. /\ \A d \in Dirs : names[d][<<"displaced", o>>] = Nothing
        /\ \A d \in Dirs : names[d][Recovery(o)] = Nothing
        /\ \A d \in Dirs : names[d][Spare(o)] = Nothing /\ names[d][Copy(o)] = Nothing
    BY <1>1, <1>3 DEF LeafOK, Unmutated, WriteLabels
  <1>9. LeafOK(o)'
    <2>1. \A d \in Dirs :
            /\ names'[d][<<"displaced", o>>] = Nothing
            /\ names'[d][Recovery(o)] = Nothing
            /\ names'[d][Spare(o)] = Nothing /\ names'[d][Copy(o)] = Nothing
            /\ names'[d][Staged(o)] \notin documents
      BY <1>3, <1>6, <1>7, <1>8 DEF Recovery, Spare, Copy, Roles
    <2>. QED BY <1>1, <1>3, <2>1 DEF LeafOK, Aliased
  <1>10. lock' = o /\ \A p \in Ops \ {o} : pc[p] \in {"idle", "waiting", "done"}
    BY <1>1, AloneInside
  <1>. QED BY <1>1, <1>5, <1>9, <1>10, OwnStep

LEMMA RetainKept ==
  ASSUME TypeInv, KeptInv, NEW o \in Ops, Retain(o)
  PROVE  KeptNow'
  <1>1. /\ pc[o] = "retain" /\ pc' = [pc EXCEPT ![o] = "retainSync"] /\ pc'[o] = "retainSync"
        /\ Create(Recovery(o), request[o].bytes)
        /\ UNCHANGED <<documents, dropped, destroyed, lock>>
    BY Parts DEF Retain, Goto, ControlOK
  <1>2. Recovery(o) = <<"recovery", o>> /\ "recovery" \in Roles
    BY DEF Recovery, Roles
  <1>3. LeafOK(o) /\ here \in Dirs /\ born \in Nat /\ Nothing \notin documents
    BY NothingIsNoFile DEF KeptInv, KeptNow
  <1>4. names[here][<<"recovery", o>>] = Nothing
    BY <1>1, <1>2, <1>3 DEF LeafOK
  <1>5. /\ Kept(Image)' /\ Fresh(Image)'
        /\ born' \in Nat /\ born' >= born
        /\ \A d \in Dirs, p \in Ops \ {o}, q \in Roles :
             names'[d][<<q, p>>] = names[d][<<q, p>>]
        /\ \A d \in Dirs, m \in Leaves :
             names'[d][m] = IF d = here /\ m = <<"recovery", o>> THEN born + 1 ELSE names[d][m]
    BY <1>1, <1>2, <1>4, CreateKept
  <1>6. /\ born + 1 \notin documents
        /\ \A d \in Dirs, l \in Leaves : names[d][l] # Nothing => names[d][l] # born + 1
    BY FreshNow
  <1>7. ASSUME NEW d \in Dirs
        PROVE  /\ \A r \in Roles : r # "recovery" => names'[d][<<r, o>>] = names[d][<<r, o>>]
               /\ names'[d][Recovery(o)] \in {Nothing, born + 1}
    BY <1>1, <1>2, <1>3, <1>5, LeafNames DEF LeafOK
  <1>8. \A d \in Dirs :
          /\ names[d][<<"displaced", o>>] = Nothing
          /\ names[d][Staged(o)] \notin documents
          /\ names[d][Spare(o)] = Nothing /\ names[d][Copy(o)] = Nothing
    BY <1>1, <1>3 DEF LeafOK, Unmutated, WriteLabels
  <1>9. LeafOK(o)'
    <2>1. \A d \in Dirs :
            /\ names'[d][<<"displaced", o>>] = Nothing
            /\ names'[d][Staged(o)] = names[d][Staged(o)]
            /\ names'[d][Spare(o)] = Nothing /\ names'[d][Copy(o)] = Nothing
            /\ names'[d][Recovery(o)] \notin documents
      BY <1>3, <1>6, <1>7, <1>8 DEF Staged, Spare, Copy, Roles
    <2>2. ASSUME NEW d \in Dirs, NEW e \in Dirs, names'[e][Recovery(o)] # Nothing
          PROVE  names'[e][Recovery(o)] # names'[d][Staged(o)]
      <3>1. names'[e][Recovery(o)] = born + 1
        BY <1>7, <2>2
      <3>2. names[d][Staged(o)] # born + 1
        <4>1. Nothing # born + 1
          BY <1>5, <2>2, <3>1
        <4>. QED BY <1>6, <4>1, LeafNames
      <3>. QED BY <2>1, <3>1, <3>2
    <2>. QED BY <1>1, <1>8, <2>1, <2>2 DEF LeafOK, Aliased
  <1>10. lock' = o /\ \A p \in Ops \ {o} : pc[p] \in {"idle", "waiting", "done"}
    BY <1>1, AloneInside
  <1>. QED BY <1>1, <1>5, <1>9, <1>10, OwnStep

(* Unlinking a private leaf loses no document if its object is none, has   *)
(* been given up or was verified for deletion.                             *)
LEMMA UnlinkKept ==
  ASSUME TypeInv, KeptInv, NEW o \in Ops, NEW r \in Roles, Bind(<<r, o>>, Nothing),
         UNCHANGED <<documents, dropped, born>>, destroyed \subseteq destroyed',
         names[here][<<r, o>>] \in documents =>
            \/ names[here][<<r, o>>] \in dropped
            \/ \E e \in Dirs : names[e][Dest] = names[here][<<r, o>>]
            \/ \E v \in destroyed' : v.object = names[here][<<r, o>>]
  PROVE  /\ Kept(Image)' /\ Fresh(Image)'
         /\ born' \in Nat /\ born' >= born
         /\ \A d \in Dirs, p \in Ops \ {o}, q \in Roles :
              names'[d][<<q, p>>] = names[d][<<q, p>>]
         /\ \A d \in Dirs, m \in Leaves :
              names'[d][m] = IF d = here /\ m = <<r, o>> THEN Nothing ELSE names[d][m]
  <1>1. born \in Nat /\ here \in Dirs /\ <<r, o>> \in Leaves /\ <<r, o>> # Dest /\ Dest \in Leaves
    BY NothingIsNoFile, LeafNames
  <1>2. \A d \in Dirs, m \in Leaves :
          names'[d][m] = IF d = here /\ m = <<r, o>> THEN Nothing ELSE names[d][m]
    BY <1>1, BindAt
  <1>3. Kept(Image) /\ Fresh(Image)
    BY DEF KeptInv, KeptNow, ImageOK
  <1>4. ASSUME NEW d \in Dirs, NEW l \in Leaves, names[d][l] \in documents
        PROVE  \/ \E e \in Dirs, m \in Leaves : names'[e][m] = names[d][l]
               \/ names[d][l] \in dropped'
               \/ \E v \in destroyed' : v.object = names[d][l]
    <2>1. CASE d = here /\ l = <<r, o>>
      <3>1. \A e \in Dirs : names'[e][Dest] = names[e][Dest]
        BY <1>1, <1>2
      <3>. QED BY <1>1, <1>4, <2>1, <3>1
    <2>2. CASE ~ (d = here /\ l = <<r, o>>)
      BY <1>2, <2>2
    <2>. QED BY <2>1, <2>2
  <1>5. Kept(Image)'
    BY <1>3, <1>4, KeptNext
  <1>6. Fresh(Image)'
    BY <1>2, <1>3 DEF Fresh, Image
  <1>7. \A d \in Dirs, p \in Ops \ {o}, q \in Roles : names'[d][<<q, p>>] = names[d][<<q, p>>]
    BY <1>2, LeafNames
  <1>. QED BY <1>1, <1>2, <1>5, <1>6, <1>7

LEMMA RetireKept ==
  ASSUME TypeInv, KeptInv, NEW o \in Ops,
         CompareConflicts(o) \/ CreationIndeterminate(o) \/ ReplacedRetire(o)
  PROVE  KeptNow'
  <1>0. LeafOK(o) /\ here \in Dirs
    BY NothingIsNoFile DEF KeptInv, KeptNow
  <1>1. /\ UNCHANGED <<documents, dropped, destroyed, born>>
        /\ pc[o] \notin {"idle", "waiting", "done"}
    BY DEF CompareConflicts, CreationIndeterminate, ReplacedRetire
  <1>2. PICK k, v, r : Return(o, k, v, r)
    BY DEF CompareConflicts, CreationIndeterminate, ReplacedRetire
  <1>3. CASE CompareConflicts(o)
    <2>1. Bind(<<"staged", o>>, Nothing) /\ names[here][<<"staged", o>>] \notin documents
      BY <1>0, <1>3 DEF CompareConflicts, LeafOK, Unmutated, Staged
    <2>2. "staged" \in Roles
      BY DEF Roles
    <2>. QED BY <1>1, <1>2, <2>1, <2>2, UnlinkKept, ReturnKept
  <1>4. CASE CreationIndeterminate(o)
    <2>1. names[here][<<"staged", o>>] \in documents =>
            \/ names[here][<<"staged", o>>] \in dropped
            \/ \E e \in Dirs : names[e][Dest] = names[here][<<"staged", o>>]
      BY <1>0, <1>4 DEF CreationIndeterminate, LeafOK, Aliased, Staged
    <2>2. "staged" \in Roles
      BY DEF Roles
    <2>3. CASE Platform = "unix"
      <3>1. Bind(<<"staged", o>>, Nothing)
        BY <1>4, <2>3 DEF CreationIndeterminate, Bind, Staged
      <3>. QED BY <1>1, <1>2, <2>1, <2>2, <3>1, UnlinkKept, ReturnKept
    <2>4. CASE Platform # "unix"
      <3>1. names' = [names EXCEPT ![here][<<"staged", o>>] = names[here][<<"staged", o>>]]
        BY <1>4, <2>4 DEF CreationIndeterminate, Staged
      <3>2. names' = names
        BY <1>0, <3>1, Parts DEF NamesOK, Namespaces
      <3>3. UNCHANGED ns
        BY <1>1, <1>4, <3>2 DEF ns, CreationIndeterminate
      <3>. QED BY <1>1, <1>2, <3>3, StillReturnKept
    <2>. QED BY <2>3, <2>4
  <1>5. CASE ReplacedRetire(o)
    <2>1. Bind(<<"recovery", o>>, Nothing) /\ names[here][<<"recovery", o>>] \notin documents
      BY <1>0, <1>5 DEF ReplacedRetire, LeafOK, WriteLabels, Recovery
    <2>2. "recovery" \in Roles
      BY DEF Roles
    <2>. QED BY <1>1, <1>2, <2>1, <2>2, UnlinkKept, ReturnKept
  <1>. QED BY <1>3, <1>4, <1>5

LEMMA RetireAliasKept ==
  ASSUME TypeInv, KeptInv, NEW o \in Ops, CreatedRetireAlias(o)
  PROVE  KeptNow'
  <1>1. /\ pc[o] = "createdAlias" /\ pc' = [pc EXCEPT ![o] = "createdSync"]
        /\ pc'[o] = "createdSync"
        /\ Bind(<<"staged", o>>, Nothing)
        /\ UNCHANGED <<documents, dropped, destroyed, born, lock>>
    BY Parts DEF CreatedRetireAlias, Goto, ControlOK, Staged
  <1>2. LeafOK(o) /\ here \in Dirs /\ Nothing \notin documents
    BY NothingIsNoFile DEF KeptInv, KeptNow
  <1>3. names[here][<<"staged", o>>] \in documents =>
          \/ names[here][<<"staged", o>>] \in dropped
          \/ \E e \in Dirs : names[e][Dest] = names[here][<<"staged", o>>]
    BY <1>1, <1>2 DEF LeafOK, Aliased, Staged
  <1>4. "staged" \in Roles
    BY DEF Roles
  <1>5. /\ Kept(Image)' /\ Fresh(Image)'
        /\ born' \in Nat /\ born' >= born
        /\ \A d \in Dirs, p \in Ops \ {o}, q \in Roles :
             names'[d][<<q, p>>] = names[d][<<q, p>>]
        /\ \A d \in Dirs, m \in Leaves :
             names'[d][m] = IF d = here /\ m = <<"staged", o>> THEN Nothing ELSE names[d][m]
    BY <1>1, <1>3, <1>4, UnlinkKept
  <1>6. LeafOK(o)'
    <2>1. \A d \in Dirs : names[d][Spare(o)] = Nothing /\ names[d][Copy(o)] = Nothing
                          /\ names[d][Recovery(o)] \notin documents
      BY <1>1, <1>2 DEF LeafOK, WriteLabels
    <2>2. \A d \in Dirs, q \in Roles :
            q # "staged" => names'[d][<<q, o>>] = names[d][<<q, o>>]
      BY <1>5, LeafNames
    <2>3. \A d \in Dirs : names'[d][Spare(o)] = Nothing /\ names'[d][Copy(o)] = Nothing
                          /\ names'[d][Recovery(o)] \notin documents
      BY <2>1, <2>2 DEF Spare, Copy, Recovery, Roles
    <2>. QED BY <1>1, <2>3 DEF LeafOK, Aliased, Unmutated
  <1>7. lock' = o /\ \A p \in Ops \ {o} : pc[p] \in {"idle", "waiting", "done"}
    BY <1>1, AloneInside
  <1>. QED BY <1>1, <1>5, <1>6, <1>7, OwnStep

LEMMA UnlinkQuarantineKept ==
  ASSUME TypeInv, KeptInv, NEW o \in Ops, Unlink(o)
  PROVE  KeptNow'
  <1>1. /\ pc[o] = "unlink" /\ pc' = [pc EXCEPT ![o] = "unlinkSync"]
        /\ pc'[o] = "unlinkSync"
        /\ Bind(<<"quarantine", o>>, Nothing)
        /\ destroyed' = destroyed \union {Capture(<<"quarantine", o>>)}
        /\ UNCHANGED <<documents, dropped, born, lock>>
    BY Parts DEF Unlink, Goto, ControlOK, Quarantine
  <1>2. names[here][<<"quarantine", o>>] \in documents =>
          \E v \in destroyed' : v.object = names[here][<<"quarantine", o>>]
    <2>. DEFINE x == names[here][<<"quarantine", o>>]
    <2>. SUFFICES ASSUME x \in documents PROVE \E v \in destroyed' : v.object = x
      OBVIOUS
    <2>1. Capture(<<"quarantine", o>>) = VersionOf(x)
      BY NothingIsNoFile DEF Capture
    <2>2. VersionOf(x).object = x
      BY DEF VersionOf
    <2>. QED BY <1>1, <2>1, <2>2
  <1>3. "quarantine" \in Roles
    BY DEF Roles
  <1>4. /\ Kept(Image)' /\ Fresh(Image)'
        /\ born' \in Nat /\ born' >= born
        /\ \A d \in Dirs, p \in Ops \ {o}, q \in Roles :
             names'[d][<<q, p>>] = names[d][<<q, p>>]
    <2>1. destroyed \subseteq destroyed'
      BY <1>1
    <2>. QED BY <1>1, <1>2, <1>3, <2>1, UnlinkKept
  <1>5. LeafOK(o)'
    BY <1>1 DEF LeafOK, Aliased, Unmutated, WriteLabels
  <1>6. lock' = o /\ \A p \in Ops \ {o} : pc[p] \in {"idle", "waiting", "done"}
    BY <1>1, AloneInside
  <1>. QED BY <1>1, <1>4, <1>5, <1>6, OwnStep

(* Spares and copies are new files at free leaves.                         *)
LEMMA ParentChangedKept ==
  ASSUME TypeInv, KeptInv, NEW o \in Ops, NEW known, NEW image,
         ParentChanged(o, known, image), pc[o] \in WriteLabels
  PROVE  KeptNow'
  <1>0. /\ LeafOK(o) /\ here \in Dirs /\ "temp" \in Dirs /\ born \in Nat
        /\ Nothing \notin documents
    BY NothingIsNoFile DEF KeptInv, KeptNow, Dirs
  <1>1. /\ born' = born + 2
        /\ UNCHANGED <<documents, dropped, destroyed>>
    BY DEF ParentChanged
  <1>2. PICK kept \in SUBSET ({Spare(o)} \union IF image = Nothing THEN {} ELSE {Copy(o)}),
             at \in {here, "temp"} :
          /\ names' = [d \in Dirs |-> [l \in Leaves |->
                         IF d = at /\ l = Spare(o) /\ l \in kept THEN born + 1
                         ELSE IF d = "temp" /\ l = Copy(o) /\ l \in kept THEN born + 2
                         ELSE names[d][l]]]
          /\ Return(o, "indeterminate", Nothing, Existing(known) \union kept)
    BY DEF ParentChanged
  <1>3. \A d \in Dirs, l \in Leaves :
          \/ names'[d][l] = names[d][l]
          \/ l \in {Spare(o), Copy(o)} /\ names'[d][l] \in {born + 1, born + 2}
    BY <1>2
  <1>4. \A d \in Dirs : names[d][Spare(o)] = Nothing /\ names[d][Copy(o)] = Nothing
    BY <1>0 DEF LeafOK
  <1>5. ASSUME NEW d \in Dirs, NEW l \in Leaves, names[d][l] \in documents
        PROVE  names'[d][l] = names[d][l]
    BY <1>0, <1>3, <1>4, <1>5
  <1>6. Kept(Image) /\ Fresh(Image)
    BY DEF KeptInv, KeptNow, ImageOK
  <1>7. Kept(Image)'
    BY <1>1, <1>5, <1>6, KeptNext
  <1>8. Fresh(Image)'
    <2>1. \A x \in 1..born : x \in 1..(born + 2)
      BY <1>0
    <2>2. born + 1 \in 1..(born + 2) /\ born + 2 \in 1..(born + 2)
      BY <1>0
    <2>3. documents' \subseteq 1..born'
      BY <1>1, <2>1, FreshNow
    <2>4. ASSUME NEW d \in Dirs, NEW l \in Leaves, names'[d][l] # Nothing
          PROVE  names'[d][l] \in 1..born'
      <3>1. CASE names'[d][l] = names[d][l]
        BY <1>1, <2>1, <2>4, <3>1, FreshNow
      <3>2. CASE names'[d][l] \in {born + 1, born + 2}
        BY <1>1, <2>2, <3>2
      <3>. QED BY <1>3, <3>1, <3>2
    <2>. QED BY <2>3, <2>4 DEF Fresh, Image
  <1>9. ASSUME NEW d \in Dirs, NEW p \in Ops \ {o}, NEW q \in Roles
        PROVE  names'[d][<<q, p>>] = names[d][<<q, p>>]
    <2>1. <<q, p>> \in Leaves /\ <<q, p>> \notin {Spare(o), Copy(o)}
      BY LeafNames DEF Spare, Copy
    <2>. QED BY <1>3, <2>1
  <1>10. born' \in Nat /\ born' >= born
    BY <1>0, <1>1
  <1>11. pc[o] \notin {"idle", "waiting", "done"}
    BY LabelsApart
  <1>. QED BY <1>1, <1>2, <1>7, <1>8, <1>9, <1>10, <1>11, ReturnKept

LEMMA CheckParentKept ==
  ASSUME TypeInv, KeptInv, NEW o \in Ops,
         CheckParent(o) \/ CreatedCheckParent(o) \/ ReplacedCheckParent(o)
  PROVE  KeptNow'
  <1>1. ASSUME Quiet PROVE UNCHANGED <<ns, born, lock>>
    BY <1>1 DEF Quiet
  <1>2. CASE CheckParent(o)
    <2>1. CASE Goto(o, "parent", "revalidate") /\ Quiet
      BY <1>1, <2>1, GotoKept DEF Follows, WriteLabels, Unmutated, Aliased
    <2>. QED BY <1>2, <2>1, ParentChangedKept DEF CheckParent, WriteLabels
  <1>3. CASE CreatedCheckParent(o)
    <2>1. CASE Goto(o, "created", "createdHandle") /\ Quiet
      BY <1>1, <2>1, GotoKept DEF Follows, WriteLabels, Unmutated, Aliased
    <2>. QED BY <1>3, <2>1, ParentChangedKept DEF CreatedCheckParent, WriteLabels
  <1>4. CASE ReplacedCheckParent(o)
    <2>1. CASE Quiet /\ \E to \in {"replacedHandle", "replacedNew"} : Goto(o, "replacedParent", to)
      BY <1>1, <2>1, GotoKept DEF Follows, WriteLabels, Unmutated, Aliased
    <2>. QED BY <1>4, <2>1, ParentChangedKept DEF ReplacedCheckParent, WriteLabels
  <1>. QED BY <1>2, <1>3, <1>4

-------------------------------------------------------------------------------
(* The steps that change the destination.                                  *)

(* Moving files between the destination and the leaves of a call.          *)
LEMMA MovedFresh ==
  ASSUME TypeInv, KeptInv, UNCHANGED born,
         \A x \in documents' : x \in documents \/ \E d \in Dirs, l \in Leaves : names[d][l] = x,
         \A d \in Dirs, l \in Leaves :
            \/ names'[d][l] = Nothing
            \/ \E e \in Dirs, m \in Leaves : names'[d][l] = names[e][m],
         Nothing \notin documents'
  PROVE  Fresh(Image)'
  <1>1. documents' \subseteq 1..born
    BY FreshNow
  <1>2. \A d \in Dirs, l \in Leaves : names'[d][l] # Nothing => names'[d][l] \in 1..born
    BY FreshNow
  <1>. QED BY <1>1, <1>2 DEF Fresh, Image

(* Before its mutation the stage of a write is no document, and no         *)
(* recovery image is the stage.                                            *)
LEMMA StageIsPrivate ==
  ASSUME TypeInv, KeptInv, NEW o \in Ops, pc[o] = "install"
  PROVE  \A d \in Dirs :
           /\ names[d][Spare(o)] = Nothing
           /\ names[d][Copy(o)] = Nothing
           /\ names[d][Recovery(o)] \notin documents
           /\ names[d][Staged(o)] \notin documents
           /\ names[d][<<"displaced", o>>] = Nothing
           /\ \A e \in Dirs : names[e][Recovery(o)] # Nothing =>
                                names[e][Recovery(o)] # names[d][Staged(o)]
  BY DEF KeptInv, KeptNow, LeafOK, WriteLabels, Unmutated

LEMMA InstallAbsentKept ==
  ASSUME TypeInv, KeptInv, NEW o \in Ops, InstallAbsent(o)
  PROVE  KeptNow'
  <1>. DEFINE x == names[here][Staged(o)]
              y == IF Platform = "unix" THEN x ELSE Nothing
  <1>0. /\ Dest \in Leaves /\ Staged(o) \in Leaves /\ Dest # Staged(o)
        /\ here \in Dirs /\ Nothing \notin documents /\ born \in Nat
    BY LeafNames, NothingIsNoFile
  <1>1. /\ pc[o] = "install" /\ pc' = [pc EXCEPT ![o] = "created"] /\ pc'[o] = "created"
        /\ x # Nothing /\ names[here][Dest] = Nothing
        /\ documents' = documents \union {x}
        /\ UNCHANGED <<dropped, destroyed, born, lock>>
    BY Parts DEF InstallAbsent, Mutates, Goto, ControlOK
  <1>2. SetTwo(Dest, x, Staged(o), y)
    <2>1. names' = [names EXCEPT ![here][Dest] = x, ![here][Staged(o)] = y]
      BY <1>0, Parts DEF InstallAbsent, NamesOK, Namespaces
    <2>. QED BY <2>1 DEF SetTwo
  <1>. HIDE DEF y
  <1>3. \A d \in Dirs, n \in Leaves :
          names'[d][n] = IF d = here /\ n = Dest THEN x
                         ELSE IF d = here /\ n = Staged(o) THEN y ELSE names[d][n]
    BY <1>0, <1>2, BindTwo
  <1>4. y \in {x, Nothing}
    BY DEF y
  <1>5. Kept(Image)'
    <2>1. Kept(Image)
      BY DEF KeptInv, KeptNow, ImageOK
    <2>2. names'[here][Dest] = x
      BY <1>0, <1>3
    <2>3. ASSUME NEW d \in Dirs, NEW l \in Leaves, names[d][l] \in documents
          PROVE  names'[d][l] = names[d][l]
      BY <1>0, <1>1, <1>3, <2>3, StageIsPrivate
    <2>. QED BY <1>0, <1>1, <2>1, <2>2, <2>3, KeptNext
  <1>6. Fresh(Image)'
    <2>1. Nothing \notin documents'
      BY <1>0, <1>1
    <2>. QED BY <1>0, <1>1, <1>3, <1>4, <2>1, MovedFresh
  <1>7. \A d \in Dirs, p \in Ops \ {o}, q \in Roles : names'[d][<<q, p>>] = names[d][<<q, p>>]
    BY <1>3, RoleApart
  <1>8. LeafOK(o)'
    <2>1. \A d \in Dirs : /\ names'[d][Spare(o)] = Nothing
                          /\ names'[d][Copy(o)] = Nothing
                          /\ names'[d][Recovery(o)] = names[d][Recovery(o)]
      BY <1>1, <1>3, StageIsPrivate, RoleApart
    <2>2. \A d \in Dirs : names'[d][Recovery(o)] \notin documents'
      BY <1>0, <1>1, <2>1, StageIsPrivate
    <2>3. names'[here][Dest] = x
      BY <1>0, <1>3
    <2>4. \A d \in Dirs : names'[d][Staged(o)] \in documents' => names'[d][Staged(o)] = x
      BY <1>0, <1>1, <1>3, <1>4, StageIsPrivate
    <2>. QED BY <1>0, <1>1, <2>1, <2>2, <2>3, <2>4 DEF LeafOK, Unmutated
  <1>9. lock' = o /\ \A p \in Ops \ {o} : pc[p] \in {"idle", "waiting", "done"}
    BY <1>1, AloneInside
  <1>10. born' \in Nat /\ born' >= born
    BY <1>0, <1>1
  <1>. QED BY <1>1, <1>5, <1>6, <1>7, <1>8, <1>9, <1>10, OwnStep

LEMMA ReplaceKept ==
  ASSUME TypeInv, KeptInv, NEW o \in Ops, Replace(o)
  PROVE  KeptNow'
  <1>. DEFINE x == names[here][Staged(o)]
              z == names[here][Dest]
  <1>0. /\ Dest \in Leaves /\ Staged(o) \in Leaves /\ Displaced(o) \in Leaves
        /\ Dest # Staged(o) /\ Dest # Displaced(o)
        /\ here \in Dirs /\ Nothing \notin documents /\ born \in Nat
    BY RoleApart, NothingIsNoFile
  <1>1. /\ pc[o] = "install" /\ pc' = [pc EXCEPT ![o] = "replaced"] /\ pc'[o] = "replaced"
        /\ x # Nothing /\ z # Nothing
        /\ documents' = documents \union {x}
        /\ UNCHANGED <<dropped, destroyed, born, lock>>
    BY Parts DEF Replace, Mutates, Goto, ControlOK
  <1>2. \A d \in Dirs, k \in Leaves :
           names'[d][k] = IF d = here /\ k = Displaced(o) THEN z
                          ELSE IF d = here /\ k = Staged(o) THEN Nothing
                          ELSE IF d = here /\ k = Dest THEN x ELSE names[d][k]
    <2>1. SetThree(Dest, x, Staged(o), Nothing, Displaced(o), z)
      BY DEF Replace, SetThree
    <2>. HIDE DEF x, z
    <2>. QED BY <1>0, <2>1, BindThree
  <1>3. names'[here][Dest] = x /\ names'[here][Displaced(o)] = z
    BY <1>0, <1>2
  <1>4. names[here][Displaced(o)] \notin documents
    BY <1>0, <1>1, StageIsPrivate, RoleApart
  <1>5. Kept(Image)'
    <2>1. Kept(Image)
      BY DEF KeptInv, KeptNow, ImageOK
    <2>2. ASSUME NEW d \in Dirs, NEW l \in Leaves, names[d][l] \in documents
          PROVE  \E e \in Dirs, m \in Leaves : names'[e][m] = names[d][l]
      <3>1. CASE d = here /\ l = Dest
        BY <1>0, <1>3, <3>1
      <3>2. CASE ~ (d = here /\ l = Dest)
        <4>1. ~ (d = here /\ l = Staged(o)) /\ ~ (d = here /\ l = Displaced(o))
          BY <1>0, <1>1, <1>4, <2>2, StageIsPrivate
        <4>. QED BY <1>2, <3>2, <4>1
      <3>. QED BY <3>1, <3>2
    <2>. QED BY <1>0, <1>1, <1>3, <2>1, <2>2, KeptNext
  <1>6. Fresh(Image)'
    <2>1. Nothing \notin documents'
      BY <1>0, <1>1
    <2>. QED BY <1>0, <1>1, <1>2, <2>1, MovedFresh
  <1>7. \A d \in Dirs, p \in Ops \ {o}, q \in Roles : names'[d][<<q, p>>] = names[d][<<q, p>>]
    <2>1. SUFFICES ASSUME NEW d \in Dirs, NEW p \in Ops \ {o}, NEW q \in Roles
                   PROVE  names'[d][<<q, p>>] = names[d][<<q, p>>]
      OBVIOUS
    <2> DEFINE k == <<q, p>>
    <2>2. k \in Leaves /\ k \notin {Dest, Staged(o), Displaced(o)}
      BY RoleApart
    <2> HIDE DEF k
    <2>3. names'[d][k] = names[d][k]
      BY <1>2, <2>2
    <2>. QED BY <2>3 DEF k
  <1>8. LeafOK(o)'
    <2>1. \A d \in Dirs : /\ names'[d][Spare(o)] = Nothing
                          /\ names'[d][Copy(o)] = Nothing
                          /\ names'[d][Recovery(o)] = names[d][Recovery(o)]
      BY <1>1, <1>2, StageIsPrivate, RoleApart
    <2>2. \A d \in Dirs : names'[d][Recovery(o)] \notin documents'
      BY <1>0, <1>1, <2>1, StageIsPrivate
    <2>. QED BY <1>1, <2>1, <2>2 DEF LeafOK, Unmutated, Aliased
  <1>9. lock' = o /\ \A p \in Ops \ {o} : pc[p] \in {"idle", "waiting", "done"}
    BY <1>1, AloneInside
  <1>10. born' \in Nat /\ born' >= born
    BY <1>0, <1>1
  <1>. QED BY <1>1, <1>5, <1>6, <1>7, <1>8, <1>9, <1>10, OwnStep

(* One move between the destination and a free leaf, either way.           *)
LEMMA MoveKept ==
  ASSUME TypeInv, KeptInv, NEW o \in Ops, NEW from \in Leaves, NEW to \in Leaves,
         {from, to} \subseteq {Dest, Displaced(o), Quarantine(o)}, from # to,
         names[here][to] \notin documents,
         \/ SetTwo(to, names[here][from], from, Nothing)
         \/ SetTwo(from, Nothing, to, names[here][from]),
         UNCHANGED <<documents, dropped, destroyed, born>>
  PROVE  /\ Kept(Image)' /\ Fresh(Image)'
         /\ \A d \in Dirs, p \in Ops \ {o}, q \in Roles :
              names'[d][<<q, p>>] = names[d][<<q, p>>]
         /\ \A d \in Dirs : /\ names'[d][Spare(o)] = names[d][Spare(o)]
                            /\ names'[d][Copy(o)] = names[d][Copy(o)]
                            /\ names'[d][Recovery(o)] = names[d][Recovery(o)]
  <1>0. here \in Dirs /\ Nothing \notin documents
    BY NothingIsNoFile
  <1>1. \A d \in Dirs, n \in Leaves :
          names'[d][n] = IF d = here /\ n = to THEN names[here][from]
                         ELSE IF d = here /\ n = from THEN Nothing ELSE names[d][n]
    <2>. DEFINE x == names[here][from]
    <2>. HIDE DEF x
    <2>1. CASE SetTwo(to, x, from, Nothing)
      BY <2>1, BindTwo DEF x
    <2>2. CASE SetTwo(from, Nothing, to, x)
      BY <2>2, BindTwo DEF x
    <2>. QED BY <2>1, <2>2 DEF x
  <1>2. Kept(Image)'
    <2>1. Kept(Image)
      BY DEF KeptInv, KeptNow, ImageOK
    <2>2. ASSUME NEW d \in Dirs, NEW l \in Leaves, names[d][l] \in documents
          PROVE  \E e \in Dirs, m \in Leaves : names'[e][m] = names[d][l]
      <3>1. CASE d = here /\ l = from
        BY <1>0, <1>1, <3>1
      <3>2. CASE ~ (d = here /\ l = from)
        BY <1>1, <2>2, <3>2
      <3>. QED BY <3>1, <3>2
    <2>. QED BY <2>1, <2>2, KeptNext
  <1>3. Fresh(Image)'
    <2>1. ASSUME NEW d \in Dirs, NEW l \in Leaves
          PROVE  \/ names'[d][l] = Nothing
                 \/ \E e \in Dirs, m \in Leaves : names'[d][l] = names[e][m]
      BY <1>0, <1>1
    <2>2. documents' \subseteq 1..born'
      BY FreshNow
    <2>3. \A d \in Dirs, l \in Leaves : names'[d][l] # Nothing => names'[d][l] \in 1..born'
      BY <2>1, FreshNow
    <2>. QED BY <2>2, <2>3 DEF Fresh, Image
  <1>4. ASSUME NEW d \in Dirs, NEW n \in Leaves, n # from, n # to
        PROVE  names'[d][n] = names[d][n]
    BY <1>1, <1>4
  <1>5. ASSUME NEW d \in Dirs, NEW p \in Ops \ {o}, NEW q \in Roles
        PROVE  names'[d][<<q, p>>] = names[d][<<q, p>>]
    <2>1. <<q, p>> \in Leaves /\ <<q, p>> # from /\ <<q, p>> # to
      BY RoleApart
    <2>. QED BY <1>4, <2>1
  <1>6. ASSUME NEW d \in Dirs, NEW n \in {Spare(o), Copy(o), Recovery(o)}
        PROVE  names'[d][n] = names[d][n]
    <2>1. n \in Leaves /\ n # from /\ n # to
      BY RoleApart
    <2>. QED BY <1>4, <2>1
  <1>. QED BY <1>2, <1>3, <1>5, <1>6

LEMMA ReplacePartiallyKept ==
  ASSUME TypeInv, KeptInv, NEW o \in Ops, ReplacePartially(o)
  PROVE  KeptNow'
  <1>0. /\ Dest \in Leaves /\ Displaced(o) \in Leaves /\ Dest # Displaced(o)
        /\ here \in Dirs /\ Nothing \notin documents /\ born \in Nat
        /\ Displaced(o) = <<"displaced", o>>
    BY RoleApart, NothingIsNoFile DEF ReplacePartially
  <1>1. /\ pc[o] = "install" /\ pc' = [pc EXCEPT ![o] = "partial"] /\ pc'[o] = "partial"
        /\ UNCHANGED <<documents, dropped, destroyed, born, lock>>
    BY Parts DEF ReplacePartially, Goto, ControlOK
  <1>2. /\ Kept(Image)' /\ Fresh(Image)'
        /\ \A d \in Dirs, p \in Ops \ {o}, q \in Roles :
             names'[d][<<q, p>>] = names[d][<<q, p>>]
        /\ \A d \in Dirs : /\ names'[d][Spare(o)] = names[d][Spare(o)]
                           /\ names'[d][Copy(o)] = names[d][Copy(o)]
                           /\ names'[d][Recovery(o)] = names[d][Recovery(o)]
    <2>1. CASE names' = [names EXCEPT ![here][Dest] = Nothing,
                                      ![here][Displaced(o)] = names[here][Dest]]
      <3>1. SetTwo(Dest, Nothing, Displaced(o), names[here][Dest])
        BY <2>1 DEF SetTwo
      <3>2. names[here][Displaced(o)] \notin documents
        BY <1>0, <1>1, StageIsPrivate
      <3>. QED BY <1>0, <1>1, <3>1, <3>2, MoveKept
    <2>2. CASE UNCHANGED <<names, effect>>
      <3>1. UNCHANGED <<ns, born>>
        BY <1>1, <2>2 DEF ns
      <3>. QED BY <2>2, <3>1, SameNames
    <2>. QED BY <2>1, <2>2 DEF ReplacePartially
  <1>3. LeafOK(o)'
    BY <1>1, <1>2, StageIsPrivate DEF LeafOK, Unmutated, Aliased
  <1>4. lock' = o /\ \A p \in Ops \ {o} : pc[p] \in {"idle", "waiting", "done"}
    BY <1>1, AloneInside
  <1>5. born' \in Nat /\ born' >= born
    BY <1>0, <1>1
  <1>. QED BY <1>1, <1>2, <1>3, <1>4, <1>5, OwnStep

LEMMA QuarantineKept ==
  ASSUME TypeInv, KeptInv, NEW o \in Ops, MoveToQuarantine(o) \/ Restore(o)
  PROVE  KeptNow'
  <1>0. /\ Dest \in Leaves /\ Quarantine(o) \in Leaves /\ Dest # Quarantine(o)
        /\ here \in Dirs /\ Nothing \notin documents /\ born \in Nat
    BY RoleApart, NothingIsNoFile
  <1>1. /\ pc[o] \in {"quarantine", "restore"}
        /\ UNCHANGED <<documents, dropped, destroyed, born, lock>>
    BY DEF MoveToQuarantine, Restore, Goto
  <1>2. PICK to \in {"quarantineSync", "restoreSync"} : pc' = [pc EXCEPT ![o] = to]
    BY DEF MoveToQuarantine, Restore, Goto
  <1>3. pc'[o] = to
    BY <1>2, Parts DEF ControlOK
  <1>4. Kept(Image)' /\ Fresh(Image)'
        /\ \A d \in Dirs, p \in Ops \ {o}, q \in Roles :
             names'[d][<<q, p>>] = names[d][<<q, p>>]
    <2>1. CASE MoveToQuarantine(o)
      <3>1. LeafOK(o)
        BY DEF KeptInv, KeptNow
      <3>2. names[here][Quarantine(o)] \notin documents
        BY <1>0, <2>1, <3>1 DEF LeafOK, MoveToQuarantine, Goto
      <3>3. SetTwo(Quarantine(o), names[here][Dest], Dest, Nothing)
        BY <2>1 DEF MoveToQuarantine, SetTwo
      <3>. QED BY <1>0, <1>1, <3>2, <3>3, MoveKept
    <2>2. CASE Restore(o)
      <3>1. names[here][Dest] \notin documents
        BY <1>0, <2>2 DEF Restore
      <3>2. SetTwo(Dest, names[here][Quarantine(o)], Quarantine(o), Nothing)
        BY <2>2 DEF Restore, SetTwo
      <3>. QED BY <1>0, <1>1, <3>1, <3>2, MoveKept
    <2>. QED BY <2>1, <2>2
  <1>5. LeafOK(o)'
    BY <1>3 DEF LeafOK, WriteLabels, Unmutated, Aliased
  <1>6. lock' = o /\ \A p \in Ops \ {o} : pc[p] \in {"idle", "waiting", "done"}
    BY <1>1, AloneInside
  <1>7. born' \in Nat /\ born' >= born
    BY <1>0, <1>1
  <1>. QED BY <1>1, <1>2, <1>4, <1>5, <1>6, <1>7, OwnStep

-------------------------------------------------------------------------------
(* Other programs and power losses.                                        *)


(* A leaf another program may bind, and what the step does to it.          *)
ForeignBinds(l, x) ==
  /\ l = Dest \/ (lock # NoOp /\ l = Staged(lock))
  /\ l # Dest => names[here][l] # Nothing
  /\ Bind(l, x)
  /\ (x = Nothing /\ born' = born) \/ (x = born + 1 /\ born' = born + 1)
  /\ documents' = IF l = Dest /\ x # Nothing THEN documents \union {x} ELSE documents
  /\ dropped' = dropped \union ({names[here][l]} \ {Nothing})
  /\ UNCHANGED <<pc, lock, destroyed>>

LEMMA ForeignBindsKept ==
  ASSUME TypeInv, KeptInv, NEW l, NEW x, ForeignBinds(l, x)
  PROVE  KeptNow'
  <1>0. /\ here \in Dirs /\ born \in Nat /\ Nothing \notin documents
        /\ Nothing \notin 1..born /\ lock \in Ops \union {NoOp}
    BY NothingIsNoFile
  <1>1. /\ l = Dest \/ (lock \in Ops /\ l = Staged(lock))
        /\ l # Dest => names[here][l] # Nothing
        /\ (x = Nothing /\ born' = born) \/ (x = born + 1 /\ born' = born + 1)
        /\ documents' = IF l = Dest /\ x # Nothing THEN documents \union {x} ELSE documents
        /\ dropped' = dropped \union ({names[here][l]} \ {Nothing})
        /\ UNCHANGED <<pc, lock, destroyed>>
    <2>1. l = Dest \/ (lock \in Ops /\ l = Staged(lock))
      BY <1>0 DEF ForeignBinds
    <2>. QED BY <2>1 DEF ForeignBinds
  <1>2. l \in Leaves
    BY <1>1, LeafNames DEF Leaves, Staged, Roles
  <1>3. \A d \in Dirs, m \in Leaves :
          names'[d][m] = IF d = here /\ m = l THEN x ELSE names[d][m]
    BY <1>2, BindAt DEF ForeignBinds
  <1>4. /\ documents \subseteq 1..born /\ x \notin documents
        /\ \A d \in Dirs, m \in Leaves : names[d][m] # Nothing =>
             names[d][m] \in 1..born /\ names[d][m] # x
    BY <1>0, <1>1, FreshNow
  <1>5. Kept(Image)'
    <2>1. Kept(Image)
      BY DEF KeptInv, KeptNow, ImageOK
    <2>2. names'[here][l] = x
      BY <1>0, <1>2, <1>3
    <2>3. ASSUME NEW d \in Dirs, NEW m \in Leaves, names[d][m] \in documents
          PROVE  names'[d][m] = names[d][m] \/ names[d][m] \in dropped'
      BY <1>0, <1>1, <1>3, <2>3
    <2>. QED BY <1>0, <1>1, <1>2, <2>1, <2>2, <2>3, KeptNext
  <1>6. Fresh(Image)'
    <2>1. \A y \in 1..born : y \in 1..born'
      BY <1>0, <1>1
    <2>2. x # Nothing => x \in 1..born'
      BY <1>0, <1>1
    <2>3. documents' \subseteq 1..born'
      BY <1>1, <1>4, <2>1, <2>2
    <2>4. \A d \in Dirs, m \in Leaves : names'[d][m] # Nothing => names'[d][m] \in 1..born'
      BY <1>3, <1>4, <2>1, <2>2
    <2>. QED BY <2>3, <2>4 DEF Fresh, Image
  <1>7. ASSUME NEW p \in Ops, NEW d \in Dirs, NEW r \in Roles
        PROVE  \/ names'[d][<<r, p>>] = names[d][<<r, p>>]
               \/ /\ r = "staged" /\ d = here /\ l = Staged(p) /\ l # Dest
                  /\ names[d][<<r, p>>] # Nothing
                  /\ names'[d][<<r, p>>] = x
    <2>1. <<r, p>> \in Leaves /\ <<r, p>> # Dest
      BY LeafNames
    <2>2. CASE d = here /\ <<r, p>> = l
      <3>1. l = <<"staged", lock>>
        BY <1>1, <2>1, <2>2 DEF Staged
      <3>. QED BY <1>1, <1>3, <2>1, <2>2, <3>1 DEF Staged
    <2>. QED BY <1>3, <2>1, <2>2
  <1>8. ASSUME NEW p \in Ops, \A d \in Dirs, r \in Roles : names[d][<<r, p>>] = Nothing
        PROVE  Unused(p, Image)'
    BY <1>7, <1>8 DEF Unused, Image
  <1>9. ASSUME NEW p \in Ops PROVE LeafOK(p)'
    <2>1. LeafOK(p)
      BY DEF KeptInv, KeptNow
    <2>2. pc[p] = "waiting" => Unused(p, Image)'
      BY <1>8, <2>1 DEF LeafOK, Unused, Image
    <2>3. ASSUME NEW d \in Dirs
          PROVE  /\ names'[d][Recovery(p)] = names[d][Recovery(p)]
                 /\ names'[d][Quarantine(p)] = names[d][Quarantine(p)]
                 /\ names'[d][Spare(p)] = names[d][Spare(p)]
                 /\ names'[d][Copy(p)] = names[d][Copy(p)]
                 /\ names'[d][<<"displaced", p>>] = names[d][<<"displaced", p>>]
      BY <1>7 DEF Recovery, Quarantine, Spare, Copy, Roles
    <2>4. ASSUME NEW d \in Dirs
          PROVE  \/ names'[d][Staged(p)] = names[d][Staged(p)]
                 \/ /\ names[d][Staged(p)] # Nothing /\ names'[d][Staged(p)] = x
                    /\ documents' = documents
      BY <1>1, <1>7 DEF Staged, Roles
    <2>5. /\ \A d \in Dirs : names[d][Recovery(p)] \in documents' =>
                               names[d][Recovery(p)] \in documents
          /\ \A d \in Dirs : names[d][Staged(p)] \in documents' =>
                               names[d][Staged(p)] \in documents
      <3>1. Recovery(p) \in Leaves /\ Staged(p) \in Leaves
        BY RoleApart
      <3>2. Nothing \notin documents'
        BY <1>0, <1>1
      <3>. QED BY <1>1, <1>4, <3>1, <3>2
    <2>6. ASSUME NEW d \in Dirs, names'[d][Staged(p)] \in documents'
          PROVE  names'[d][Staged(p)] = names[d][Staged(p)] /\ names[d][Staged(p)] \in documents
      BY <1>4, <2>4, <2>5, <2>6
    <2>7. ASSUME NEW d \in Dirs, NEW e \in Dirs, names'[e][Recovery(p)] # Nothing,
                 names[e][Recovery(p)] # Nothing => names[e][Recovery(p)] # names[d][Staged(p)]
          PROVE  names'[e][Recovery(p)] # names'[d][Staged(p)]
      <3>1. Recovery(p) \in Leaves
        BY RoleApart
      <3>. QED BY <1>4, <2>3, <2>4, <2>7, <3>1
    <2>8. pc[p] \in Aliased => \A d \in Dirs :
            names'[d][Staged(p)] \in documents' =>
              \/ names'[d][Staged(p)] \in dropped'
              \/ \E e \in Dirs : names'[e][Dest] = names'[d][Staged(p)]
      <3>1. SUFFICES ASSUME pc[p] \in Aliased, NEW d \in Dirs,
                            names'[d][Staged(p)] \in documents'
                     PROVE  \/ names'[d][Staged(p)] \in dropped'
                            \/ \E e \in Dirs : names'[e][Dest] = names'[d][Staged(p)]
        OBVIOUS
      <3>2. names'[d][Staged(p)] = names[d][Staged(p)] /\ names[d][Staged(p)] \in documents
        BY <2>6, <3>1
      <3>3. CASE names[d][Staged(p)] \in dropped
        BY <1>1, <3>2, <3>3
      <3>4. CASE \E e \in Dirs : names[e][Dest] = names[d][Staged(p)]
        <4>1. PICK e \in Dirs : names[e][Dest] = names[d][Staged(p)]
          BY <3>4
        <4>2. CASE e = here /\ l = Dest
          BY <1>0, <1>1, <3>2, <4>1, <4>2
        <4>3. CASE ~ (e = here /\ l = Dest)
          <5>1. Dest \in Leaves
            BY RoleApart
          <5>. QED BY <1>3, <3>2, <4>1, <4>3, <5>1
        <4>. QED BY <4>2, <4>3
      <3>. QED BY <2>1, <3>1, <3>2, <3>3, <3>4 DEF LeafOK
    <2>9. pc'[p] = pc[p]
      BY <1>1
    <2>10. pc[p] = "stage" => \A d \in Dirs : names'[d][Staged(p)] = Nothing
      BY <2>1, <2>4 DEF LeafOK
    <2>11. pc[p] \in WriteLabels => \A d \in Dirs :
             /\ names'[d][Spare(p)] = Nothing
             /\ names'[d][Copy(p)] = Nothing
             /\ names'[d][Recovery(p)] \notin documents'
      BY <2>1, <2>3, <2>5 DEF LeafOK
    <2>12. pc[p] \in Unmutated => \A d \in Dirs :
             /\ names'[d][Staged(p)] \notin documents'
             /\ names'[d][<<"displaced", p>>] = Nothing
             /\ \A e \in Dirs : names'[e][Recovery(p)] # Nothing =>
                                  names'[e][Recovery(p)] # names'[d][Staged(p)]
      BY <2>1, <2>3, <2>6, <2>7 DEF LeafOK
    <2>13. pc[p] \in {"stage", "retain"} => \A d \in Dirs : names'[d][Recovery(p)] = Nothing
      BY <2>1, <2>3 DEF LeafOK
    <2>14. pc[p] \in {"inspect", "quarantine"} =>
             \A d \in Dirs : names'[d][Quarantine(p)] = Nothing
      BY <2>1, <2>3 DEF LeafOK
    <2>. QED BY <2>2, <2>8, <2>9, <2>10, <2>11, <2>12, <2>13, <2>14 DEF LeafOK
  <1>10. ImageOK(Image)'
    <2>3. \A p \in Ops : pc'[p] = "idle" => Unused(p, Image)'
      <3>1. ASSUME NEW p \in Ops, pc[p] = "idle" PROVE Unused(p, Image)
        BY <3>1 DEF KeptInv, KeptNow, ImageOK
      <3>. QED BY <1>1, <1>8, <3>1 DEF Unused, Image
    <2>. QED BY <1>5, <1>6, <2>3 DEF ImageOK
  <1>11. Exclusive'
    BY <1>1 DEF KeptInv, KeptNow, Exclusive
  <1>. QED BY <1>9, <1>10, <1>11 DEF KeptNow

LEMMA EnvironmentKept ==
  ASSUME TypeInv, KeptInv, Environment
  PROVE  KeptNow'
  <1>0. born \in Nat
    BY NothingIsNoFile
  <1>1. CASE ForeignWrites \/ SwapParent
    <2>1. UNCHANGED <<names, documents, dropped, destroyed, born, pc, lock>>
      BY <1>1 DEF ForeignWrites, SwapParent, Foreign
    <2>3. ImageOK(Image)'
      <3>1. ImageOK(Image)
        BY DEF KeptInv, KeptNow
      <3>. QED BY <2>1, <3>1 DEF ImageOK, Kept, Fresh, Unused, Image
    <2>4. Exclusive' /\ \A o \in Ops : LeafOK(o)'
      BY <2>1 DEF KeptInv, KeptNow, Exclusive, LeafOK, Unused, Image
    <2>. QED BY <2>3, <2>4 DEF KeptNow
  <1>2. CASE ForeignReplaces
    <2>1. PICK l \in {Dest} \union (IF lock = NoOp THEN {} ELSE {Staged(lock)}), b \in Images :
            /\ l # Dest => names[here][l] # Nothing
            /\ Bind(l, born + 1)
            /\ documents' = IF l = Dest THEN documents \union {born + 1} ELSE documents
            /\ dropped' = dropped \union ({names[here][l]} \ {Nothing})
      BY <1>2 DEF ForeignReplaces
    <2>2. born' = born + 1 /\ born + 1 # Nothing /\ UNCHANGED <<pc, lock, destroyed>>
      <3>1. born + 1 \in Objects
        BY <1>0, <1>2, BoundAssumption DEF ForeignReplaces, Objects
      <3>. QED BY <1>2, <3>1, NothingAssumption DEF ForeignReplaces, Foreign, Objects
    <2>3. l = Dest \/ (lock # NoOp /\ l = Staged(lock))
      BY <2>1
    <2>4. ForeignBinds(l, born + 1)
      BY <2>1, <2>2, <2>3 DEF ForeignBinds
    <2>. QED BY <2>4, ForeignBindsKept
  <1>3. CASE ForeignRemoves
    <2>1. PICK l \in {Dest} \union (IF lock = NoOp THEN {} ELSE {Staged(lock)}) :
            /\ names[here][l] # Nothing
            /\ Bind(l, Nothing)
            /\ dropped' = dropped \union {names[here][l]}
      BY <1>3 DEF ForeignRemoves
    <2>2. UNCHANGED <<born, documents, pc, lock, destroyed>>
      BY <1>3 DEF ForeignRemoves, Foreign
    <2>3. dropped' = dropped \union ({names[here][l]} \ {Nothing})
      BY <2>1
    <2>4. l = Dest \/ (lock # NoOp /\ l = Staged(lock))
      BY <2>1
    <2>5. names[here][l] # Nothing /\ Bind(l, Nothing)
      BY <2>1
    <2>6. documents' = IF l = Dest /\ Nothing # Nothing THEN documents \union {Nothing}
                       ELSE documents
      BY <2>2
    <2>7. ForeignBinds(l, Nothing)
      BY <2>2, <2>3, <2>4, <2>5, <2>6, Zenon DEF ForeignBinds
    <2>. QED BY <2>7, ForeignBindsKept
  <1>4. CASE PowerLoss
    <2>1. PICK image \in onDisk :
            /\ names' = image.names
            /\ documents' = image.documents
            /\ dropped' = image.dropped
            /\ destroyed' = image.destroyed
      BY <1>4 DEF PowerLoss
    <2>2. /\ \A o \in Ops : pc'[o] = IF pc[o] = "idle" THEN "idle" ELSE "done"
          /\ born' = born
      BY <1>4 DEF PowerLoss
    <2>3. ImageOK(image)
      BY DEF KeptInv, KeptNow
    <2>4. ImageOK(Image)'
      BY <2>1, <2>2, <2>3 DEF ImageOK, Kept, Fresh, Unused, Image
    <2>5. Exclusive'
      BY <2>2 DEF Exclusive
    <2>6. \A o \in Ops : LeafOK(o)'
      BY <2>2 DEF LeafOK, WriteLabels, Unmutated, Aliased
    <2>. QED BY <2>4, <2>5, <2>6 DEF KeptNow
  <1>. QED BY <1>1, <1>2, <1>3, <1>4 DEF Environment

-------------------------------------------------------------------------------
LEMMA StutterKept ==
  ASSUME KeptInv, UNCHANGED vars
  PROVE  KeptNow'
  <1>1. UNCHANGED <<names, documents, dropped, destroyed, born, pc, lock>>
    BY DEF vars, ns, local, bounds
  <1>4. Exclusive'
    BY <1>1 DEF KeptInv, KeptNow, Exclusive
  <1>5. ASSUME NEW o \in Ops PROVE LeafOK(o)'
    <2>1. LeafOK(o)
      BY DEF KeptInv, KeptNow
    <2>. QED BY <1>1, <2>1 DEF LeafOK, Unused, Image
  <1>6. ImageOK(Image)'
    <2>1. ImageOK(Image)
      BY DEF KeptInv, KeptNow
    <2>. QED BY <1>1, <2>1 DEF ImageOK, Kept, Fresh, Unused, Image
  <1>. QED BY <1>4, <1>5, <1>6 DEF KeptNow

LEMMA KeptInitial ==
  ASSUME Init PROVE KeptInv
  <1>1. /\ \A o \in Ops : pc[o] = "idle"
        /\ documents = 1..born /\ born \in {0, 1}
        /\ \A d \in Dirs, l \in Leaves :
             names[d][l] = IF d = "home" /\ l = Dest /\ born = 1 THEN 1 ELSE Nothing
        /\ onDisk = {Image}
    BY DEF Init, Image
  <1>2. Kept(Image)
    <2>1. "home" \in Dirs /\ Dest \in Leaves
      BY DEF Dirs, Parents, Leaves
    <2>2. \A x \in documents : x = 1 /\ born = 1
      BY <1>1
    <2>. QED BY <1>1, <2>1, <2>2 DEF Kept, Image
  <1>3. Fresh(Image)
    BY <1>1 DEF Fresh, Image
  <1>4. \A o \in Ops : Unused(o, Image)
    BY <1>1, LeafNames DEF Unused, Image
  <1>5. Exclusive /\ \A o \in Ops : LeafOK(o)
    BY <1>1 DEF Exclusive, LeafOK, WriteLabels, Unmutated, Aliased
  <1>. QED BY <1>1, <1>2, <1>3, <1>4, <1>5 DEF KeptInv, KeptNow, ImageOK

LEMMA KeptNowStep ==
  ASSUME TypeInv, KeptInv, [Next]_vars
  PROVE  KeptNow'
  <1>1. ASSUME NEW o \in Ops, WriteStep(o) PROVE KeptNow'
    BY <1>1, StageKept, RetainKept, QuietWritesKept, FailuresKept, RetireKept,
       RetireAliasKept, CheckParentKept, InstallAbsentKept, ReplaceKept,
       ReplacePartiallyKept DEF WriteStep
  <1>2. ASSUME NEW o \in Ops, RemoveStep(o) PROVE KeptNow'
    BY <1>2, InspectKept, QuarantineKept, QuietRemovesKept, FailuresKept,
       UnlinkQuarantineKept DEF RemoveStep
  <1>. QED BY <1>1, <1>2, CallKept, AcquireKept, EnvironmentKept, StutterKept
           DEF Next, OpStep

(* Directories that reach the disk at different moments: a file is found   *)
(* in the directory its history belongs to.                                *)
LEMMA MixedKept ==
  ASSUME NEW s, NEW D, Nothing \notin 1..born', ImageOK(s)', ImageOK(Image)',
         Placed(s.names)', Placed(names)'
  PROVE  ImageOK(Current(s, D))'
  <1>. DEFINE t == Current(s, D)'
  <1>1. /\ \A d \in Dirs : t.names[d] = IF d \in D THEN names'[d] ELSE s.names[d]
        /\ t.documents = Renewed(s.documents, documents, D)'
        /\ t.dropped = Renewed(s.dropped, dropped, D)'
        /\ t.destroyed = {v \in s.destroyed : data'[v.object].dir \notin D}
                           \union {v \in destroyed' : data'[v.object].dir \in D}
    BY DEF Current
  <1>. HIDE DEF t
  <1>2. ASSUME NEW x \in t.documents
        PROVE  \/ \E d \in Dirs, l \in Leaves : t.names[d][l] = x
               \/ x \in t.dropped
               \/ \E v \in t.destroyed : v.object = x
    <2>1. CASE x \in documents' /\ data'[x].dir \in D
      <3>1. /\ x # Nothing
            /\ \/ \E d \in Dirs, l \in Leaves : names'[d][l] = x
               \/ x \in dropped'
               \/ \E v \in destroyed' : v.object = x
        BY <2>1 DEF ImageOK, Kept, Fresh, Image
      <3>2. \A d \in Dirs, l \in Leaves : names'[d][l] = x => d \in D
        BY <2>1, <3>1 DEF Placed
      <3>. QED BY <1>1, <2>1, <3>1, <3>2 DEF Renewed
    <2>2. CASE x \in s.documents /\ data'[x].dir \notin D
      <3>1. /\ x # Nothing
            /\ \/ \E d \in Dirs, l \in Leaves : s.names[d][l] = x
               \/ x \in s.dropped
               \/ \E v \in s.destroyed : v.object = x
        BY <2>2 DEF ImageOK, Kept, Fresh
      <3>2. \A d \in Dirs, l \in Leaves : s.names[d][l] = x => d \notin D
        BY <2>2, <3>1 DEF Placed
      <3>. QED BY <1>1, <2>2, <3>1, <3>2 DEF Renewed
    <2>. QED BY <1>1, <2>1, <2>2 DEF Renewed
  <1>3. t.documents \subseteq 1..born'
    BY <1>1 DEF ImageOK, Fresh, Image, Renewed
  <1>4. \A d \in Dirs, l \in Leaves : t.names[d][l] # Nothing => t.names[d][l] \in 1..born'
    BY <1>1 DEF ImageOK, Fresh, Image
  <1>5. \A o \in Ops : pc'[o] = "idle" =>
          \A d \in Dirs, r \in Roles : t.names[d][<<r, o>>] = Nothing
    BY <1>1 DEF ImageOK, Unused, Image
  <1>6. (Kept(Current(s, D)) /\ Fresh(Current(s, D)))'
    BY <1>2, <1>3, <1>4 DEF Kept, Fresh, t
  <1>7. (\A o \in Ops : pc[o] = "idle" => Unused(o, Current(s, D)))'
    BY <1>5 DEF Unused, t
  <1>. QED BY <1>6, <1>7 DEF ImageOK

LEMMA KeptDisk ==
  ASSUME TypeInv', KeptInv, PlacedInv', FilesStay, KeptNow', DiskStep,
         \A p \in Ops : pc'[p] = "idle" => pc[p] = "idle",
         \A s \in onDisk : Placed(s.names)'
  PROVE  KeptInv'
  <1>0. Nothing \notin 1..born'
    <2>1. born' \in 0..MaxObjects
      BY Parts DEF FilesOK
    <2>. QED BY <2>1, NothingAssumption, BoundAssumption
  <1>1. ASSUME NEW s \in onDisk PROVE ImageOK(s)'
    <2>1. \A x \in 1..born : x \in 1..born'
      BY DEF FilesStay
    <2>2. ImageOK(s)
      BY DEF KeptInv
    <2>. QED BY <2>1, <2>2 DEF ImageOK, Kept, Fresh, Unused
  <1>2. ASSUME NEW t \in onDisk' PROVE ImageOK(t)'
    <2>1. CASE t \in onDisk
      BY <1>1, <2>1
    <2>2. CASE t \notin onDisk
      <3>1. PICK s \in onDisk : \E D : t = Current(s, D)'
        BY <2>2 DEF DiskStep
      <3>2. PICK D : t = Current(s, D)'
        BY <3>1
      <3>3. ImageOK(s)' /\ ImageOK(Image)' /\ Placed(s.names)' /\ Placed(names)'
        BY <1>1 DEF KeptNow, PlacedInv
      <3>4. ImageOK(Current(s, D))'
        BY <1>0, <3>3, MixedKept
      <3>. QED BY <3>2, <3>4 DEF ImageOK, Kept, Fresh, Unused
    <2>. QED BY <2>1, <2>2
  <1>. QED BY <1>2 DEF KeptInv

LEMMA KeptStep ==
  ASSUME TypeInv, PlacedInv, KeptInv, [Next]_vars
  PROVE  KeptInv'
  <1>1. TypeInv' /\ PlacedInv' /\ KeptNow'
    BY TypeStep, PlacedStep, KeptNowStep
  <1>2. CASE PowerLoss
    <2>1. onDisk' = {Image'}
      BY <1>2 DEF PowerLoss
    <2>2. ImageOK(Image)'
      BY <1>1 DEF KeptNow
    <2>. QED BY <1>1, <2>1, <2>2 DEF KeptInv, ImageOK, Kept, Fresh, Unused
  <1>3. CASE OrdinaryStep
    <2>1. \A s \in onDisk : Placed(s.names)'
      BY <1>3, PlacedStays DEF PlacedInv, OrdinaryStep
    <2>. QED BY <1>1, <1>3, <2>1, KeptDisk DEF OrdinaryStep
  <1>. QED BY <1>2, <1>3, PlacedStep

(* A file that has been at the destination keeps a name until another      *)
(* program removes it or a delete has verified it, for any number of       *)
(* calls, of foreign steps and of power losses: replacing, creating,       *)
(* quarantining and every failure of these displace files and lose none.   *)
THEOREM DocumentKept == Spec => []NoDocumentLost
  <1>1. Init => TypeInv /\ PlacedInv /\ KeptInv
    BY TypeInitial, PlacedInitial, KeptInitial
  <1>2. TypeInv /\ PlacedInv /\ KeptInv /\ [Next]_vars => TypeInv' /\ PlacedInv' /\ KeptInv'
    BY TypeStep, PlacedStep, KeptStep
  <1>3. KeptInv => NoDocumentLost
    <2>1. KeptInv => Kept(Image)
      BY DEF KeptInv, KeptNow, ImageOK
    <2>. QED BY <2>1 DEF Kept, Image, NoDocumentLost, Named
  <1>4. QED
    BY <1>1, <1>2, <1>3, PTL DEF Spec

-------------------------------------------------------------------------------
(* The directory a call works in: until its synchronization a write finds  *)
(* its staged file, then the file it displaced, and a delete its           *)
(* quarantine, only where it changed the destination.  So a call that has  *)
(* just seen one of them synchronizes that directory, unless the path is   *)
(* swapped first.                                                          *)
Alone == {"retain", "retainSync", "compare", "parent", "revalidate", "install"}
StagedHome == Aliased \union
  {"replaced", "replacedParent", "replacedHandle", "replacedNew", "replacedOld"}
QuarantineHome == {"quarantineSync", "examine", "assess", "restore", "unlink"}
LastSyncs == {"createdSync", "replacedSync", "restoreSync", "unlinkSync"}

HomeOK(o) ==
  /\ pc[o] \in Alone => \A d, e \in Dirs :
       names[d][Staged(o)] # Nothing /\ names[e][Staged(o)] # Nothing => d = e
  /\ pc[o] \in StagedHome => \A d \in Dirs : names[d][Staged(o)] # Nothing => d = place[o]
  /\ pc[o] \in QuarantineHome => \A d \in Dirs : names[d][Quarantine(o)] # Nothing => d = place[o]
  /\ pc[o] \in LastSyncs /\ <<o, pc[o]>> \notin strayed => here = place[o]

HomeInv == Platform = "unix" => \A o \in Ops : HomeOK(o)

LEMMA OthersHome ==
  ASSUME TypeInv, NEW o \in Ops, Frame(o), NEW p \in Ops \ {o}, HomeOK(p)
  PROVE  HomeOK(p)'
  <1>1. PICK K \in SUBSET (Moved(o) \union Evidence(o)), S \in SUBSET Moved(o) : Binds(K, S)
    BY DEF Frame
  <1>2. {Staged(p), Quarantine(p)} \subseteq Leaves \ (Moved(o) \union Evidence(o))
    <2>1. {Staged(p), Quarantine(p)} \subseteq Leaves \ Moved(o)
      BY RoleApart DEF Moved, Staged, Quarantine, Roles
    <2>2. Staged(p) \notin Evidence(o) /\ Quarantine(p) \notin Evidence(o)
      BY DEF Evidence, Staged, Quarantine, Recovery, Spare, Copy
    <2>. QED BY <2>1, <2>2
  <1>3. \A d \in Dirs : /\ names'[d][Staged(p)] = names[d][Staged(p)]
                        /\ names'[d][Quarantine(p)] = names[d][Quarantine(p)]
    BY <1>1, <1>2 DEF Binds
  <1>4. pc'[p] = pc[p] /\ place'[p] = place[p] /\ here' = here /\ strayed' = strayed
    BY DEF Frame, bounds
  <1>. QED BY <1>3, <1>4 DEF HomeOK

(* Nothing new at the two leaves.                                          *)
NoNew(o) ==
  \A d \in Dirs, l \in {Staged(o), Quarantine(o)} :
    names'[d][l] # Nothing => names[d][l] # Nothing

LEMMA NoNewBinds ==
  ASSUME TypeInv, NEW o \in Ops, NEW K, Binds(K, {}),
         born' = born \/ (Staged(o) \notin K /\ Quarantine(o) \notin K)
  PROVE  NoNew(o)
  <1>1. born \in Nat /\ {Staged(o), Quarantine(o)} \subseteq Leaves
    BY NothingIsNoFile, LeafType
  <1>. QED BY <1>1 DEF NoNew, Binds

(* What holds at a label holds at the one a step leads to.                 *)
Stays(from, to) ==
  /\ to \in Alone => from \in Alone
  /\ to \in StagedHome => from \in StagedHome
  /\ to \in QuarantineHome => from \in QuarantineHome

LEMMA GotoHome ==
  ASSUME TypeInv, NEW o \in Ops, HomeOK(o), NEW from, NEW to, Goto(o, from, to),
         Stays(from, to), NoNew(o), place' = place, here' = here, strayed' = strayed,
         to \in LastSyncs => here = place[o]
  PROVE  HomeOK(o)'
  <1>1. pc[o] = from /\ pc'[o] = to
    BY Parts DEF Goto, ControlOK
  <1>2. \A d \in Dirs :
          /\ names'[d][Staged(o)] # Nothing => names[d][Staged(o)] # Nothing
          /\ names'[d][Quarantine(o)] # Nothing => names[d][Quarantine(o)] # Nothing
    BY DEF NoNew
  <1>. QED BY <1>1, <1>2 DEF HomeOK, Stays

LEMMA DoneHome ==
  ASSUME NEW o \in Ops, pc'[o] \in {"idle", "waiting", "stage", "inspect", "done"}
  PROVE  HomeOK(o)'
  BY DEF HomeOK, Alone, StagedHome, Aliased, QuarantineHome, LastSyncs

LEMMA WriteHome ==
  ASSUME TypeInv, KeptInv, Platform = "unix", NEW o \in Ops, HomeOK(o),
         StillWrite(o) \/ Retain(o) \/ CreatedRetireAlias(o)
  PROVE  HomeOK(o)'
  <1>0. here \in Dirs
    BY NothingIsNoFile
  <1>1. CASE StillWrite(o)
    <2>1. NoNew(o) /\ UNCHANGED <<here, bounds, place>>
      BY <1>1, StillBinds, NoNewBinds
    <2>2. CASE ReplacedCompare(o)
      <3>1. Goto(o, "replacedOld", "replacedSync") /\ names[here][Staged(o)] # Nothing
        BY <2>2 DEF ReplacedCompare, IsDisplacedVersionOf, Capture, Displaced
      <3>2. here = place[o]
        BY <1>0, <3>1 DEF HomeOK, Goto, StagedHome
      <3>. QED BY <2>1, <3>1, <3>2, GotoHome
               DEF Stays, Alone, StagedHome, Aliased, QuarantineHome, bounds
    <2>3. CASE ~ ReplacedCompare(o)
      <3>1. PICK from, to : Goto(o, from, to) /\ Stays(from, to) /\ to \notin LastSyncs
        BY <1>1, <2>3 DEF StillWrite, RetainSync, CompareMatches, CheckStaged, CheckStagedFails,
           InstallFindsFile, InstallFails, CreatedCheckHandle, CreatedObserve,
           SaveDisplacedBytes, ReplacedCheckHandle, ReplacedObserveNew, ReplacedSync,
           ReplacedBind, Stays, Alone, StagedHome, Aliased, QuarantineHome, LastSyncs
      <3>. QED BY <2>1, <3>1, GotoHome DEF bounds
    <2>. QED BY <2>2, <2>3
  <1>2. CASE Retain(o)
    <2>1. Binds({Recovery(o)}, {}) /\ Staged(o) # Recovery(o) /\ Quarantine(o) # Recovery(o)
      BY <1>2, CreatesBind DEF Staged, Quarantine, Recovery
    <2>2. NoNew(o)
      BY <2>1, NoNewBinds
    <2>3. Goto(o, "retain", "retainSync") /\ UNCHANGED <<here, bounds, place>>
      BY <1>2 DEF Retain, local
    <2>. QED BY <2>2, <2>3, GotoHome
             DEF Stays, Alone, StagedHome, Aliased, QuarantineHome, LastSyncs, bounds
  <1>3. CASE CreatedRetireAlias(o)
    <2>1. NoNew(o) /\ UNCHANGED <<here, bounds, place>>
      BY <1>3, RetiresBinds, NoNewBinds DEF Retires
    <2>2. Goto(o, "createdAlias", "createdSync") /\ names[here][Staged(o)] # Nothing
      BY <1>3 DEF CreatedRetireAlias
    <2>3. here = place[o]
      BY <1>0, <2>2 DEF HomeOK, Goto, StagedHome, Aliased
    <2>. QED BY <2>1, <2>2, <2>3, GotoHome
             DEF Stays, Alone, StagedHome, Aliased, QuarantineHome, bounds
  <1>. QED BY <1>1, <1>2, <1>3

LEMMA RemoveHome ==
  ASSUME TypeInv, NEW o \in Ops, HomeOK(o), StillRemove(o) \/ Unlink(o)
  PROVE  HomeOK(o)'
  <1>0. here \in Dirs
    BY NothingIsNoFile
  <1>1. CASE StillRemove(o)
    <2>1. NoNew(o) /\ UNCHANGED <<here, bounds, place>>
      BY <1>1, StillBinds, NoNewBinds
    <2>2. PICK from, to : Goto(o, from, to) /\ Stays(from, to) /\ to \notin LastSyncs
      BY <1>1 DEF StillRemove, MoveFails, QuarantineSync, Examine, Stays, Alone, StagedHome,
         Aliased, QuarantineHome, LastSyncs
    <2>. QED BY <2>1, <2>2, GotoHome DEF bounds
  <1>2. CASE Unlink(o)
    <2>1. Binds({Quarantine(o)}, {}) /\ UNCHANGED <<born, here, bounds, place>>
      BY <1>2, CreatesBind DEF Unlink, local
    <2>2. Goto(o, "unlink", "unlinkSync") /\ names[here][Quarantine(o)] # Nothing
      BY <1>2 DEF Unlink, IsDisplacedVersionOf, Capture
    <2>3. here = place[o]
      BY <1>0, <2>2 DEF HomeOK, Goto, QuarantineHome
    <2>. QED BY <2>1, <2>2, <2>3, NoNewBinds, GotoHome
             DEF Stays, Alone, StagedHome, Aliased, QuarantineHome, bounds
  <1>. QED BY <1>1, <1>2

LEMMA StageHome ==
  ASSUME TypeInv, KeptInv, NEW o \in Ops, Stage(o)
  PROVE  HomeOK(o)'
  <1>1. pc[o] = "stage" /\ pc'[o] = "retain"
    BY Parts DEF Stage, Goto, ControlOK
  <1>2. \A d \in Dirs : names[d][Staged(o)] = Nothing
    BY <1>1 DEF KeptInv, KeptNow, LeafOK
  <1>3. \A d \in Dirs : names'[d][Staged(o)] # Nothing => d = here
    BY <1>2, BindAt, LeafType DEF Stage, Create
  <1>. QED BY <1>1, <1>3 DEF HomeOK, StagedHome, Aliased, QuarantineHome, LastSyncs

LEMMA MutationHome ==
  ASSUME TypeInv, KeptInv, Platform = "unix", NEW o \in Ops, HomeOK(o), Mutation(o)
  PROVE  HomeOK(o)'
  <1>0. here \in Dirs /\ here' = here /\ Staged(o) # Dest /\ Quarantine(o) # Dest
        /\ Displaced(o) = Staged(o) /\ {Staged(o), Quarantine(o), Dest} \subseteq Leaves
    BY NothingIsNoFile, RoleApart
       DEF Mutation, InstallAbsent, Replace, Mutates, ReplacePartially, MoveToQuarantine, Restore
  <1>1. CASE InstallAbsent(o) \/ Replace(o)
    <2>1. /\ pc[o] = "install" /\ pc'[o] \in {"created", "replaced"} /\ place'[o] = here
          /\ names[here][Staged(o)] # Nothing
      BY <1>1, Parts DEF InstallAbsent, Replace, Mutates, Goto, ControlOK, LocalOK
    <2>2. \A d \in Dirs : names[d][Staged(o)] # Nothing => d = here
      BY <1>0, <2>1 DEF HomeOK, Alone
    <2>3. \A d \in Dirs : d # here => names'[d] = names[d]
      BY <1>1, Parts DEF InstallAbsent, Replace, NamesOK, Namespaces
    <2>4. \A d \in Dirs : names'[d][Staged(o)] # Nothing => d = here
      BY <2>2, <2>3
    <2>. QED BY <2>1, <2>4 DEF HomeOK, Alone, QuarantineHome, LastSyncs
  <1>2. CASE MoveToQuarantine(o)
    <2>1. pc[o] = "quarantine" /\ pc'[o] = "quarantineSync" /\ place'[o] = here
      BY <1>2, Parts DEF MoveToQuarantine, Goto, ControlOK, LocalOK
    <2>2. \A d \in Dirs : names[d][Quarantine(o)] = Nothing
      BY <2>1 DEF KeptInv, KeptNow, LeafOK
    <2>3. \A d \in Dirs : d # here => names'[d] = names[d]
      BY <1>2, Parts DEF MoveToQuarantine, NamesOK, Namespaces
    <2>4. \A d \in Dirs : names'[d][Quarantine(o)] # Nothing => d = here
      BY <2>2, <2>3
    <2>. QED BY <2>1, <2>4 DEF HomeOK, Alone, StagedHome, Aliased, LastSyncs
  <1>3. CASE Restore(o)
    <2>1. /\ pc[o] = "restore" /\ pc'[o] = "restoreSync" /\ place'[o] = place[o]
          /\ names[here][Quarantine(o)] # Nothing
      BY <1>3, Parts DEF Restore, Goto, ControlOK, local
    <2>2. here = place[o]
      BY <1>0, <2>1 DEF HomeOK, QuarantineHome
    <2>. QED BY <1>0, <2>1, <2>2 DEF HomeOK, Alone, StagedHome, Aliased, QuarantineHome
  <1>4. ~ ReplacePartially(o)
    BY DEF ReplacePartially
  <1>. QED BY <1>1, <1>2, <1>3, <1>4 DEF Mutation

LEMMA CheckHome ==
  ASSUME TypeInv, NEW o \in Ops, HomeOK(o),
         \/ CheckParent(o) \/ CreatedCheckParent(o) \/ ReplacedCheckParent(o)
         \/ Inspect(o) \/ Assess(o)
  PROVE  HomeOK(o)'
  <1>1. CASE pc'[o] = "done"
    BY <1>1, DoneHome
  <1>2. CASE pc'[o] # "done"
    <2>1. /\ ~ \E known, image : ParentChanged(o, known, image)
          /\ ~ \E k, v, r : ReturnPure(o, k, v, r)
      BY <1>2, ReturnOthers DEF ParentChanged, ReturnPure
    <2>2. /\ Quiet /\ UNCHANGED local
          /\ \E from, to : Goto(o, from, to) /\ Stays(from, to) /\ to \notin LastSyncs
      BY <2>1 DEF CheckParent, CreatedCheckParent, ReplacedCheckParent, Inspect, Assess, Stays,
         Alone, StagedHome, Aliased, QuarantineHome, LastSyncs
    <2>3. NoNew(o) /\ UNCHANGED <<here, strayed, place>>
      BY <2>2 DEF Quiet, NoNew, ns, local, bounds
    <2>. QED BY <2>2, <2>3, GotoHome
  <1>. QED BY <1>1, <1>2

LEMMA HomeCallStep ==
  ASSUME TypeInv, KeptInv, HomeInv, NEW o \in Ops, Call(o) \/ OpStep(o)
  PROVE  HomeInv'
  <1>. SUFFICES ASSUME Platform = "unix", NEW p \in Ops PROVE HomeOK(p)'
    BY DEF HomeInv
  <1>1. HomeOK(o) /\ HomeOK(p) /\ Frame(o)
    BY StepFrame DEF HomeInv
  <1>2. CASE p # o
    BY <1>1, <1>2, OthersHome
  <1>3. CASE p = o
    <2>1. CASE Call(o) \/ Acquire(o)
      <3>1. pc'[o] \in {"waiting", "stage", "inspect"}
        BY <2>1, Parts DEF Call, Acquire, ControlOK
      <3>. QED BY <1>3, <3>1, DoneHome
    <2>2. CASE \E k, v, r : Return(o, k, v, r)
      BY <1>3, <2>2, ReturnOthers, DoneHome
    <2>3. CASE WriteStep(o) /\ ~ \E k, v, r : Return(o, k, v, r)
      <3>1. \/ StillWrite(o) \/ Retain(o) \/ CreatedRetireAlias(o) \/ Stage(o) \/ Mutation(o)
            \/ CheckParent(o) \/ CreatedCheckParent(o) \/ ReplacedCheckParent(o)
        BY <2>3 DEF WriteStep, StillWrite, Mutation, StagingFails, CompareConflicts,
           ReportPartial, Classify, ReportExisting, CreationIndeterminate, CreatedSync,
           CreatedFinishFails, ReplacedHandleFails, ReplacedRetire, ReplacedFails, ReturnPure
      <3>. QED BY <1>1, <1>3, <3>1, WriteHome, StageHome, MutationHome, CheckHome
    <2>4. CASE RemoveStep(o) /\ ~ \E k, v, r : Return(o, k, v, r)
      <3>1. StillRemove(o) \/ Unlink(o) \/ Mutation(o) \/ Inspect(o) \/ Assess(o)
        BY <2>4 DEF RemoveStep, StillRemove, Mutation, Reinspect, RestoreFails, RestoreSync,
           UnlinkMismatch, UnlinkSync, RemoveFails, ReturnPure
      <3>. QED BY <1>1, <1>3, <3>1, RemoveHome, MutationHome, CheckHome
    <2>. QED BY <2>1, <2>2, <2>3, <2>4 DEF OpStep
  <1>. QED BY <1>2, <1>3

LEMMA HomeEnvironment ==
  ASSUME TypeInv, HomeInv, Environment
  PROVE  HomeInv'
  <1>. SUFFICES ASSUME Platform = "unix", NEW p \in Ops PROVE HomeOK(p)'
    BY DEF HomeInv
  <1>0. HomeOK(p) /\ here \in Dirs /\ {Staged(p), Quarantine(p)} \subseteq Leaves
    BY NothingIsNoFile, LeafType DEF HomeInv
  <1>1. CASE PowerLoss
    <2>1. pc'[p] \in {"idle", "done"}
      BY <1>1 DEF PowerLoss
    <2>. QED BY <2>1, DoneHome
  <1>2. CASE SwapParent
    <2>1. /\ UNCHANGED <<names, pc, place>> /\ strayed \subseteq strayed'
          /\ pc[p] \in Syncs => <<p, pc[p]>> \in strayed'
      BY <1>2 DEF SwapParent, Foreign, local
    <2>. QED BY <1>0, <2>1 DEF HomeOK, LastSyncs, Syncs
  <1>3. CASE ForeignWrites
    <2>1. UNCHANGED <<names, pc, place, here, strayed>>
      BY <1>3 DEF ForeignWrites, Foreign, local
    <2>. QED BY <1>0, <2>1 DEF HomeOK
  <1>4. CASE ForeignReplaces \/ ForeignRemoves
    <2>1. PICK l \in {Dest} \union (IF lock = NoOp THEN {} ELSE {Staged(lock)}) :
            \E x : /\ l # Dest => names[here][l] # Nothing
                   /\ Bind(l, x)
      BY <1>4 DEF ForeignReplaces, ForeignRemoves
    <2>2. PICK x : (l # Dest => names[here][l] # Nothing) /\ Bind(l, x)
      BY <2>1
    <2>3. l \in Leaves
      BY LeafType, LeafNames, Parts DEF ControlOK, Leaves
    <2>4. \A d \in Dirs, m \in Leaves :
            names'[d][m] = IF d = here /\ m = l THEN x ELSE names[d][m]
      BY <2>2, <2>3, BindAt
    <2>5. Staged(p) # Dest /\ Quarantine(p) # Dest
      BY RoleApart
    <2>6. \A d \in Dirs : /\ names'[d][Staged(p)] # Nothing => names[d][Staged(p)] # Nothing
                          /\ names'[d][Quarantine(p)] # Nothing => names[d][Quarantine(p)] # Nothing
      BY <1>0, <2>2, <2>4, <2>5
    <2>7. UNCHANGED <<pc, place, here, strayed>>
      BY <1>4 DEF ForeignReplaces, ForeignRemoves, Foreign, local
    <2>. QED BY <1>0, <2>6, <2>7 DEF HomeOK
  <1>. QED BY <1>1, <1>2, <1>3, <1>4 DEF Environment

LEMMA HomeInitial == ASSUME Init PROVE HomeInv
  BY DEF Init, HomeInv, HomeOK, Alone, StagedHome, Aliased, QuarantineHome, LastSyncs

LEMMA HomeStep ==
  ASSUME TypeInv, KeptInv, HomeInv, [Next]_vars
  PROVE  HomeInv'
  <1>1. CASE UNCHANGED vars
    <2>1. UNCHANGED <<names, pc, place, here, strayed>>
      BY <1>1 DEF vars, ns, local, bounds
    <2>. QED BY <2>1 DEF HomeInv, HomeOK
  <1>. QED BY <1>1, HomeCallStep, HomeEnvironment DEF Next

-------------------------------------------------------------------------------
(* A denied call left the destination alone.                               *)

(* The labels before the mutation, those of the failures that exclude it   *)
(* included.                                                               *)
UntouchedLabels == {"idle", "waiting", "stage", "retain", "retainSync", "compare", "parent",
  "revalidate", "install", "exists", "classify", "classifyReplace", "inspect", "quarantine", "reinspect"}

(* The call has not changed the destination, and no power loss can bring   *)
(* back a directory in which it had.                                       *)
Clean(o) ==
  /\ effect[o] = {}
  /\ Platform = "unix" => \A s \in onDisk : s.effect[o] = {}

IsDenial(o, kind, recovery) ==
  \/ kind \in {"notCommitted", "notDeleted", "error"}
  \/ kind = "conflict" /\ (request[o].kind = "write" \/ recovery = {})

EffectOK(o) ==
  /\ reply[o] # Nothing => pc[o] = "done"
  /\ pc[o] \in UntouchedLabels => Clean(o)
  /\ pc[o] = "restoreSync" => effect[o] = {}
  /\ reply[o] # Nothing /\ IsDenial(o, reply[o].kind, reply[o].recovery) =>
       /\ effect[o] = {} \/ (Adrift(o) /\ losses > 0)
       /\ ~ Adrift(o) => Clean(o)

EffectInv == \A o \in Ops : EffectOK(o)

(* Only a call that stands before a synchronization misses it.             *)
Straying ==
  /\ strayed \subseteq strayed'
  /\ \A x \in strayed' \ strayed : \E p \in Ops : x = <<p, pc[p]>> /\ pc[p] \in Syncs

LEMMA DriftKept ==
  ASSUME Straying, NEW p \in Ops, pc[p] \notin Syncs
  PROVE  Adrift(p)' <=> Adrift(p)
  <1>1. ASSUME NEW l, <<p, l>> \in strayed' PROVE <<p, l>> \in strayed
    BY <1>1 DEF Straying
  <1>. QED BY <1>1 DEF Straying, Adrift, Missed

LEMMA CleanKept ==
  ASSUME NEW o \in Ops, Clean(o), effect'[o] = effect[o], DiskStep
  PROVE  Clean(o)'
  BY DEF Clean, DiskStep, Current

(* What a step of one call leaves alone of another.                        *)
LEMMA OtherEffect ==
  ASSUME NEW p \in Ops, EffectOK(p), DiskStep, Straying, losses' = losses,
         pc'[p] = pc[p], reply'[p] = reply[p], request'[p] = request[p], effect'[p] = effect[p]
  PROVE  EffectOK(p)'
  <1>1. reply[p] # Nothing => (Adrift(p)' <=> Adrift(p))
    BY DriftKept DEF EffectOK, Syncs
  <1>2. Clean(p) => Clean(p)'
    BY CleanKept
  <1>. QED BY <1>1, <1>2 DEF EffectOK, IsDenial

LEMMA GotoEffect ==
  ASSUME TypeInv, EffectInv, NEW o \in Ops, NEW from, NEW to, Goto(o, from, to),
         from # "done", to # "restoreSync",
         to \in UntouchedLabels => from \in UntouchedLabels,
         UNCHANGED <<request, reply, effect>>, Frame(o)
  PROVE  EffectInv'
  <1>0. DiskStep /\ Straying /\ losses' = losses
    BY DEF Frame, Straying, bounds
  <1>1. EffectOK(o)'
    <2>1. pc[o] = from /\ pc'[o] = to /\ reply'[o] = Nothing
      BY Parts DEF Goto, ControlOK, EffectInv, EffectOK
    <2>2. pc[o] \in UntouchedLabels => Clean(o)'
      BY <1>0, CleanKept DEF EffectInv, EffectOK
    <2>3. QED
      BY <2>1, <2>2 DEF EffectOK
  <1>2. ASSUME NEW p \in Ops, p # o PROVE EffectOK(p)'
    BY <1>0, <1>2, OtherEffect, Parts DEF Goto, ControlOK, EffectInv
  <1>3. QED
    BY <1>1, <1>2 DEF EffectInv

LEMMA ReturnEffect ==
  ASSUME TypeInv, EffectInv, NEW o \in Ops, NEW k, NEW v, NEW r, Return(o, k, v, r),
         IsDenial(o, k, r) => effect'[o] = {} /\ (~ Adrift(o)' => Clean(o)'),
         UNCHANGED <<request, effect>>, Frame(o)
  PROVE  EffectInv'
  <1>0. DiskStep /\ Straying /\ losses' = losses
    BY DEF Frame, Straying, bounds
  <1>1. EffectOK(o)'
    <2>1. pc'[o] = "done" /\ reply'[o] = [kind |-> k, version |-> v, recovery |-> r]
      BY Parts DEF Return, ControlOK
    <2>2. QED
      BY <2>1 DEF EffectOK, IsDenial, UntouchedLabels
  <1>2. ASSUME NEW p \in Ops, p # o PROVE EffectOK(p)'
    BY <1>0, <1>2, OtherEffect, Parts DEF Return, ControlOK, EffectInv
  <1>3. QED
    BY <1>1, <1>2 DEF EffectInv

(* A failure may be reported as a denial only from an untouched label.     *)
LEMMA PureReturnEffect ==
  ASSUME TypeInv, EffectInv, NEW o \in Ops, NEW k, NEW v, NEW r, ReturnPure(o, k, v, r),
         IsDenial(o, k, r) => pc[o] \in UntouchedLabels
  PROVE  EffectInv'
  <1>1. DiskStep /\ UNCHANGED <<request, effect>> /\ Frame(o)
    BY SameDisk, PureFrame DEF ReturnPure, ns, local
  <1>2. pc[o] \in UntouchedLabels => effect'[o] = {} /\ Clean(o)'
    BY <1>1, CleanKept DEF EffectInv, EffectOK, Clean
  <1>3. QED
    BY <1>1, <1>2, ReturnEffect DEF ReturnPure

LEMMA EffectInitial == ASSUME Init PROVE EffectInv
  BY DEF Init, EffectInv, EffectOK, Clean

LEMMA CallEffect ==
  ASSUME TypeInv, EffectInv, NEW o \in Ops, Call(o)
  PROVE  EffectInv'
  <1>1. DiskStep /\ Straying /\ UNCHANGED <<losses, reply, effect>>
    BY SameDisk DEF Call, Straying, ns, bounds
  <1>2. EffectOK(o)'
    <2>1. reply'[o] = Nothing /\ Clean(o) /\ pc'[o] = "waiting"
      BY Parts DEF Call, ControlOK, EffectInv, EffectOK, UntouchedLabels
    <2>2. QED
      BY <1>1, <2>1, CleanKept DEF EffectOK
  <1>3. ASSUME NEW p \in Ops, p # o PROVE EffectOK(p)'
    BY <1>1, <1>3, OtherEffect, Parts DEF Call, ControlOK, EffectInv
  <1>4. QED
    BY <1>2, <1>3 DEF EffectInv

LEMMA AcquireEffect ==
  ASSUME TypeInv, EffectInv, NEW o \in Ops, Acquire(o)
  PROVE  EffectInv'
  <1>1. DiskStep /\ Straying /\ UNCHANGED <<losses, reply, effect, request>>
    BY SameDisk DEF Acquire, Straying, ns, bounds
  <1>2. EffectOK(o)'
    <2>1. reply'[o] = Nothing /\ Clean(o) /\ pc'[o] \in {"stage", "inspect"}
      BY Parts DEF Acquire, ControlOK, EffectInv, EffectOK, UntouchedLabels
    <2>2. QED
      BY <1>1, <2>1, CleanKept DEF EffectOK
  <1>3. ASSUME NEW p \in Ops, p # o PROVE EffectOK(p)'
    BY <1>1, <1>3, OtherEffect, Parts DEF Acquire, ControlOK, EffectInv
  <1>4. QED
    BY <1>2, <1>3 DEF EffectInv

(* The steps that only move on, those that create or retire a private file *)
(* or synchronize the directory included.                                  *)
AdvanceWrite(o) ==
  \/ Stage(o) \/ Retain(o) \/ RetainSync(o) \/ CompareMatches(o) \/ CheckStaged(o)
  \/ CheckStagedFails(o)
  \/ InstallFindsFile(o) \/ InstallFails(o) \/ CreatedCheckHandle(o) \/ CreatedObserve(o)
  \/ CreatedRetireAlias(o) \/ SaveDisplacedBytes(o) \/ ReplacedCheckHandle(o)
  \/ ReplacedObserveNew(o) \/ ReplacedCompare(o) \/ ReplacedSync(o) \/ ReplacedBind(o)

AdvanceRemove(o) ==
  \/ MoveFails(o) \/ QuarantineSync(o) \/ Examine(o) \/ Unlink(o)

LEMMA AdvanceEffect ==
  ASSUME TypeInv, EffectInv, NEW o \in Ops, Frame(o), AdvanceWrite(o) \/ AdvanceRemove(o)
  PROVE  EffectInv'
  <1>1. UNCHANGED <<request, reply, effect>>
    BY DEF AdvanceWrite, AdvanceRemove, Stage, Retain, RetainSync, CompareMatches, CheckStaged,
       CheckStagedFails, InstallFindsFile, InstallFails, CreatedCheckHandle, CreatedObserve,
       CreatedRetireAlias, SaveDisplacedBytes, ReplacedCheckHandle, ReplacedObserveNew,
       ReplacedCompare, ReplacedSync, ReplacedBind, MoveFails, QuarantineSync, Examine,
       Unlink, Quiet, ns, local
  <1>2. CASE AdvanceWrite(o)
    <2>1. PICK from, to :
            /\ Goto(o, from, to) /\ from # "done" /\ to # "restoreSync"
            /\ to \in UntouchedLabels => from \in UntouchedLabels
      BY <1>2 DEF AdvanceWrite, UntouchedLabels, Stage, Retain, RetainSync, CompareMatches, CheckStaged,
         CheckStagedFails, InstallFindsFile, InstallFails, CreatedCheckHandle, CreatedObserve,
         CreatedRetireAlias, SaveDisplacedBytes, ReplacedCheckHandle, ReplacedObserveNew,
         ReplacedCompare, ReplacedSync, ReplacedBind
    <2>2. QED
      BY <1>1, <2>1, GotoEffect
  <1>3. CASE AdvanceRemove(o)
    <2>1. PICK from, to :
            /\ Goto(o, from, to) /\ from # "done" /\ to # "restoreSync"
            /\ to \in UntouchedLabels => from \in UntouchedLabels
      BY <1>3 DEF AdvanceRemove, UntouchedLabels, MoveFails, QuarantineSync, Examine, Unlink
    <2>2. QED
      BY <1>1, <2>1, GotoEffect
  <1>4. QED
    BY <1>2, <1>3

LEMMA ParentChangedEffect ==
  ASSUME TypeInv, EffectInv, NEW o \in Ops, Frame(o), NEW known, NEW image,
         ParentChanged(o, known, image)
  PROVE  EffectInv'
  <1>1. UNCHANGED <<request, effect>>
    BY DEF ParentChanged, local
  <1>2. PICK r : Return(o, "indeterminate", Nothing, r)
    BY DEF ParentChanged
  <1>3. QED
    BY <1>1, <1>2, ReturnEffect DEF IsDenial

LEMMA CheckParentEffect ==
  ASSUME TypeInv, EffectInv, NEW o \in Ops, Frame(o),
         CheckParent(o) \/ CreatedCheckParent(o) \/ ReplacedCheckParent(o)
  PROVE  EffectInv'
  <1>1. ASSUME Quiet, UNCHANGED local PROVE UNCHANGED <<request, reply, effect>>
    BY <1>1 DEF Quiet, ns, local
  <1>2. CASE CheckParent(o)
    BY <1>1, <1>2, GotoEffect, ParentChangedEffect DEF CheckParent, UntouchedLabels
  <1>3. CASE CreatedCheckParent(o)
    BY <1>1, <1>3, GotoEffect, ParentChangedEffect DEF CreatedCheckParent, UntouchedLabels
  <1>4. CASE ReplacedCheckParent(o)
    BY <1>1, <1>4, GotoEffect, ParentChangedEffect DEF ReplacedCheckParent, UntouchedLabels
  <1>5. QED
    BY <1>2, <1>3, <1>4

(* The returns that change nothing: a denial comes from an untouched label *)
(* or, for a delete that left evidence, names its quarantine.              *)
LEMMA FailureEffect ==
  ASSUME TypeInv, EffectInv, NEW o \in Ops,
         \/ StagingFails(o) \/ ReportPartial(o) \/ Classify(o) \/ ReportExisting(o)
         \/ CreatedFinishFails(o) \/ ReplacedHandleFails(o) \/ ReplacedFails(o)
         \/ Reinspect(o) \/ RestoreFails(o) \/ UnlinkMismatch(o) \/ RemoveFails(o)
  PROVE  EffectInv'
  <1>1. pc[o] \in RemoveLabels => request[o].kind # "write"
    BY Parts DEF ControlOK, RequestOK
  <1>2. CASE StagingFails(o) \/ Classify(o) \/ ReportExisting(o) \/ Reinspect(o)
    <2>1. pc[o] \in UntouchedLabels
      BY <1>2 DEF StagingFails, Classify, ReportExisting, Reinspect, UntouchedLabels
    <2>2. PICK k, v, r : ReturnPure(o, k, v, r)
      BY <1>2 DEF StagingFails, Classify, ReportExisting, Reinspect
    <2>3. QED
      BY <2>1, <2>2, PureReturnEffect
  <1>3. CASE \/ ReportPartial(o) \/ CreatedFinishFails(o) \/ ReplacedHandleFails(o)
             \/ ReplacedFails(o) \/ RemoveFails(o)
    <2>1. PICK r : ReturnPure(o, "indeterminate", Nothing, r)
      BY <1>3 DEF ReportPartial, CreatedFinishFails, ReplacedHandleFails, ReplacedFails,
         RemoveFails
    <2>2. QED
      BY <2>1, PureReturnEffect DEF IsDenial
  <1>4. CASE RestoreFails(o) \/ UnlinkMismatch(o)
    <2>1. PICK v : ReturnPure(o, "conflict", v, {Quarantine(o)})
      BY <1>4 DEF RestoreFails, UnlinkMismatch
    <2>2. ~ IsDenial(o, "conflict", {Quarantine(o)})
      BY <1>1, <1>4 DEF RestoreFails, UnlinkMismatch, RemoveLabels, IsDenial
    <2>3. QED
      BY <2>1, <2>2, PureReturnEffect
  <1>5. QED
    BY <1>2, <1>3, <1>4

LEMMA InspectEffect ==
  ASSUME TypeInv, EffectInv, NEW o \in Ops, Frame(o), Inspect(o) \/ Assess(o)
  PROVE  EffectInv'
  <1>1. ASSUME Quiet, UNCHANGED local PROVE UNCHANGED <<request, reply, effect>>
    BY <1>1 DEF Quiet, ns, local
  <1>2. pc[o] \in RemoveLabels => request[o].kind # "write"
    BY Parts DEF ControlOK, RequestOK
  <1>3. CASE Inspect(o)
    <2>1. pc[o] \in UntouchedLabels
      BY <1>3 DEF Inspect, Goto, UntouchedLabels
    <2>2. CASE Goto(o, "inspect", "quarantine") /\ Quiet /\ UNCHANGED local
      BY <1>1, <2>2, GotoEffect DEF UntouchedLabels
    <2>3. CASE \E k, v, r : ReturnPure(o, k, v, r)
      BY <2>1, <2>3, PureReturnEffect
    <2>4. QED
      BY <1>3, <2>2, <2>3 DEF Inspect
  <1>4. CASE Assess(o)
    <2>1. CASE Goto(o, "assess", "restore") /\ Quiet /\ UNCHANGED local
      BY <1>1, <2>1, GotoEffect DEF UntouchedLabels
    <2>2. CASE pc[o] = "assess" /\ ReturnPure(o, "conflict", Capture(Dest), {Quarantine(o)})
      <3>1. ~ IsDenial(o, "conflict", {Quarantine(o)})
        BY <1>2, <2>2 DEF RemoveLabels, IsDenial
      <3>2. QED
        BY <2>2, <3>1, PureReturnEffect
    <2>3. QED
      BY <1>4, <2>1, <2>2 DEF Assess
  <1>5. QED
    BY <1>3, <1>4

(* The returns that change the directory or synchronize it.                *)
LEMMA FinishEffect ==
  ASSUME TypeInv, HomeInv, EffectInv, NEW o \in Ops, Frame(o),
         \/ CompareConflicts(o) \/ CreationIndeterminate(o) \/ CreatedSync(o)
         \/ ReplacedRetire(o) \/ RestoreSync(o) \/ UnlinkSync(o)
  PROVE  EffectInv'
  <1>1. DiskStep /\ UNCHANGED <<request, effect>>
    BY DEF CompareConflicts, CreationIndeterminate, CreatedSync, ReplacedRetire,
       RestoreSync, UnlinkSync, ns, local, Frame
  <1>2. CASE CompareConflicts(o)
    <2>1. Clean(o)' /\ effect'[o] = {}
      BY <1>1, <1>2, CleanKept DEF CompareConflicts, EffectInv, EffectOK, UntouchedLabels, Clean
    <2>2. QED
      BY <1>1, <1>2, <2>1, ReturnEffect DEF CompareConflicts
  <1>3. CASE RestoreSync(o)
    <2>1. effect'[o] = {} /\ pc[o] = "restoreSync" /\ Flush /\ UNCHANGED <<here, place, strayed>>
      BY <1>1, <1>3 DEF RestoreSync, EffectInv, EffectOK, local, bounds
    <2>2. ASSUME ~ Adrift(o)', Platform = "unix" PROVE here' = place'[o]
      <3>1. <<o, "restoreSync">> \notin strayed
        BY <2>1, <2>2 DEF Adrift, Missed
      <3>. QED BY <2>1, <2>2, <3>1 DEF HomeInv, HomeOK, LastSyncs
    <2>3. ~ Adrift(o)' => Clean(o)'
      BY <2>1, <2>2 DEF Clean, Flush, Settle, Current
    <2>4. QED
      BY <1>1, <1>3, <2>1, <2>3, ReturnEffect DEF RestoreSync
  <1>4. CASE CreationIndeterminate(o) \/ CreatedSync(o) \/ ReplacedRetire(o) \/ UnlinkSync(o)
    <2>1. PICK k, v, r : /\ Return(o, k, v, r)
                         /\ k \in {"indeterminate", "committed", "deleted"}
      BY <1>4 DEF CreationIndeterminate, CreatedSync, ReplacedRetire, UnlinkSync
    <2>2. QED
      BY <1>1, <2>1, ReturnEffect DEF IsDenial
  <1>5. QED
    BY <1>2, <1>3, <1>4

(* The steps that change the destination.                                  *)
LEMMA MutationEffect ==
  ASSUME TypeInv, EffectInv, NEW o \in Ops, Frame(o),
         InstallAbsent(o) \/ Replace(o) \/ ReplacePartially(o)
         \/ MoveToQuarantine(o) \/ Restore(o)
  PROVE  EffectInv'
  <1>1. DiskStep /\ Straying /\ UNCHANGED <<losses, request, reply>>
    BY DEF InstallAbsent, Replace, Mutates, ReplacePartially, MoveToQuarantine, Restore,
       Frame, Straying, bounds, local
  <1>2. \A p \in Ops : p # o => effect'[p] = effect[p] /\ pc'[p] = pc[p]
    BY Parts DEF InstallAbsent, Replace, Mutates, ReplacePartially, MoveToQuarantine, Restore,
       Goto, ControlOK, NamesOK
  <1>3. /\ pc[o] # "done"
        /\ pc'[o] \in {"created", "replaced", "partial", "quarantineSync", "restoreSync"}
        /\ pc'[o] = "restoreSync" => effect'[o] = {}
    <2>1. CASE InstallAbsent(o) \/ Replace(o)
      BY <2>1, Parts DEF InstallAbsent, Replace, Mutates, Goto, ControlOK
    <2>2. CASE ReplacePartially(o)
      BY <2>2, Parts DEF ReplacePartially, Goto, ControlOK
    <2>3. CASE MoveToQuarantine(o) \/ Restore(o)
      BY <2>3, Parts DEF MoveToQuarantine, Restore, Goto, ControlOK, NamesOK
    <2>4. QED
      BY <2>1, <2>2, <2>3
  <1>4. EffectOK(o)'
    <2>1. reply'[o] = Nothing
      BY <1>1, <1>3 DEF EffectInv, EffectOK
    <2>2. QED
      BY <1>3, <2>1 DEF EffectOK, UntouchedLabels
  <1>5. ASSUME NEW p \in Ops, p # o PROVE EffectOK(p)'
    BY <1>1, <1>2, <1>5, OtherEffect DEF EffectInv
  <1>6. QED
    BY <1>4, <1>5 DEF EffectInv

LEMMA EnvironmentEffect ==
  ASSUME TypeInv, EffectInv, Environment
  PROVE  EffectInv'
  <1>1. CASE ForeignWrites \/ ForeignReplaces \/ ForeignRemoves \/ SwapParent
    <2>1. UNCHANGED <<losses, request, reply, pc, effect>>
      BY <1>1 DEF ForeignWrites, ForeignReplaces, ForeignRemoves, SwapParent, Foreign, local
    <2>2. DiskStep
      BY <1>1, SameDisk, HereDisk
         DEF ForeignWrites, ForeignReplaces, ForeignRemoves, SwapParent
    <2>3. Straying
      BY <1>1 DEF ForeignWrites, ForeignReplaces, ForeignRemoves, SwapParent, Straying
    <2>4. QED
      BY <2>1, <2>2, <2>3, OtherEffect DEF EffectInv
  <1>2. CASE PowerLoss
    <2>1. Platform = "unix"
      BY <1>2, Parts, PlatformAssumption, PowerLossAssumption DEF PowerLoss, FilesOK
    <2>2. PICK image \in onDisk : effect' = image.effect
      BY <1>2 DEF PowerLoss
    <2>3. \A p \in Ops : Clean(p) => Clean(p)'
      BY <1>2, <2>1, <2>2 DEF PowerLoss, Clean, Image
    <2>6. losses' > 0 /\ strayed' = strayed
      BY <1>2, Parts, BoundAssumption DEF PowerLoss, FilesOK
    <2>4. ASSUME NEW p \in Ops PROVE EffectOK(p)'
      <3>1. pc'[p] \in {"idle", "done"} /\ (pc'[p] = "idle" => pc[p] = "idle")
        BY <1>2 DEF PowerLoss
      <3>2. request' = request
        BY <1>2 DEF PowerLoss, local
      <3>3. CASE pc[p] \in {"idle", "done"}
        <4>1. reply'[p] = reply[p] /\ pc'[p] = pc[p]
          BY <1>2, <3>3 DEF PowerLoss
        <4>2. Adrift(p)' <=> Adrift(p)
          BY <2>6 DEF Adrift, Missed
        <4>3. Clean(p)' => effect'[p] = {}
          BY DEF Clean
        <4>4. EffectOK(p)
          BY DEF EffectInv
        <4>5. QED
          BY <2>3, <2>6, <3>2, <3>3, <4>1, <4>2, <4>3, <4>4 DEF EffectOK, IsDenial, UntouchedLabels
      <3>4. CASE pc[p] \notin {"idle", "done"}
        <4>1. reply'[p] = [kind |-> "died", version |-> Nothing, recovery |-> {}]
              /\ pc'[p] = "done"
          BY <1>2, <3>4 DEF PowerLoss
        <4>2. QED
          BY <4>1 DEF EffectOK, IsDenial, UntouchedLabels
      <3>5. QED
        BY <3>3, <3>4
    <2>5. QED
      BY <2>4 DEF EffectInv
  <1>3. QED
    BY <1>1, <1>2 DEF Environment

LEMMA StutterEffect == ASSUME EffectInv, UNCHANGED vars PROVE EffectInv'
  BY OtherEffect, SameDisk DEF vars, ns, local, bounds, EffectInv, Straying

LEMMA EffectStep == TypeInv /\ HomeInv /\ EffectInv /\ [Next]_vars => EffectInv'
  <1>1. SUFFICES ASSUME TypeInv, HomeInv, EffectInv, [Next]_vars PROVE EffectInv'
    OBVIOUS
  <1>2. ASSUME NEW o \in Ops, WriteStep(o) PROVE EffectInv'
    <2>1. Frame(o)
      BY <1>1, <1>2, StepFrame DEF OpStep
    <2>. QED BY <1>1, <1>2, <2>1, AdvanceEffect, CheckParentEffect, FailureEffect,
                FinishEffect, MutationEffect DEF WriteStep, AdvanceWrite
  <1>3. ASSUME NEW o \in Ops, RemoveStep(o) PROVE EffectInv'
    <2>1. Frame(o)
      BY <1>1, <1>3, StepFrame DEF OpStep
    <2>. QED BY <1>1, <1>3, <2>1, AdvanceEffect, FailureEffect, InspectEffect, FinishEffect,
                MutationEffect DEF RemoveStep, AdvanceRemove
  <1>4. QED
    BY <1>1, <1>2, <1>3, CallEffect, AcquireEffect, EnvironmentEffect, StutterEffect
       DEF Next, OpStep

(* A call that answers "not committed", "not deleted", an error, or a      *)
(* conflict that reports no quarantine has left the destination alone (or  *)
(* put it back, which only a power loss after a missed synchronization     *)
(* undoes), for any number of calls, of foreign steps and of power losses: *)
(* callers such as crash_draft_store may keep their state as it was.       *)
THEOREM DeniedCorrect == Spec => []DeniedIsUntouched
  <1>1. Init => TypeInv /\ PlacedInv /\ KeptInv /\ HomeInv /\ EffectInv
    BY TypeInitial, PlacedInitial, KeptInitial, HomeInitial, EffectInitial
  <1>2. /\ TypeInv /\ PlacedInv /\ KeptInv /\ HomeInv /\ EffectInv
        /\ [Next]_vars
        => TypeInv' /\ PlacedInv' /\ KeptInv' /\ HomeInv' /\ EffectInv'
    BY TypeStep, PlacedStep, KeptStep, HomeStep, EffectStep
  <1>3. EffectInv => DeniedIsUntouched
    BY DEF EffectInv, EffectOK, IsDenial, DeniedIsUntouched, Answered
  <1>4. QED
    BY <1>1, <1>2, <1>3, PTL DEF Spec

-------------------------------------------------------------------------------
(* A confirmed call survives a power loss.                                 *)

(* Every directory a power loss may bring back shows what the call did,    *)
(* if its synchronization reached the directory it had changed.            *)
Settled(o) == Platform = "unix" => \A s \in onDisk : s.effect[o] = effect[o]

SettledOK(o) ==
  /\ ~ Adrift(o)
  /\ pc[o] \in {"replacedBind", "replacedRetire"} \/ Answered(o, {"committed", "deleted"})
  => Settled(o)

SettledInv == \A o \in Ops : SettledOK(o)

LEMMA SettledKept ==
  ASSUME NEW o \in Ops, Settled(o), effect'[o] = effect[o], DiskStep
  PROVE  Settled(o)'
  BY DEF Settled, DiskStep, Current

LEMMA AdriftStays ==
  ASSUME strayed \subseteq strayed', NEW o \in Ops
  PROVE  Adrift(o) => Adrift(o)'
  BY DEF Adrift, Missed

(* The synchronization that follows the last look at the change.           *)
LEMMA FlushSettles ==
  ASSUME HomeInv, NEW o \in Ops, pc[o] \in LastSyncs, Flush,
         UNCHANGED <<here, place, effect, strayed>>, ~ Adrift(o)'
  PROVE  Settled(o)'
  <1>1. <<o, pc[o]>> \notin strayed
    BY DEF Adrift, Missed, LastSyncs
  <1>2. Platform = "unix" => here' = place'[o]
    BY <1>1 DEF HomeInv, HomeOK
  <1>. QED BY <1>2 DEF Flush, Settle, Settled, Current

LEMMA OtherSettled ==
  ASSUME NEW p \in Ops, SettledOK(p), DiskStep, strayed \subseteq strayed',
         pc'[p] = pc[p], reply'[p] = reply[p], effect'[p] = effect[p]
  PROVE  SettledOK(p)'
  BY SettledKept, AdriftStays DEF SettledOK, Answered

LEMMA GotoSettled ==
  ASSUME TypeInv, EffectInv, SettledInv, NEW o \in Ops, NEW from, NEW to,
         Goto(o, from, to), from # "done", UNCHANGED reply, Frame(o),
         \A p \in Ops : p # o => effect'[p] = effect[p],
         to \in {"replacedBind", "replacedRetire"} /\ ~ Adrift(o)' => Settled(o)'
  PROVE  SettledInv'
  <1>0. DiskStep /\ strayed \subseteq strayed'
    BY DEF Frame, bounds
  <1>1. SettledOK(o)'
    <2>1. pc'[o] = to /\ reply'[o] = Nothing
      BY Parts DEF Goto, ControlOK, EffectInv, EffectOK
    <2>2. QED
      BY <2>1 DEF SettledOK, Answered
  <1>2. ASSUME NEW p \in Ops, p # o PROVE SettledOK(p)'
    BY <1>0, <1>2, OtherSettled, Parts DEF Goto, ControlOK, SettledInv
  <1>3. QED
    BY <1>1, <1>2 DEF SettledInv

LEMMA ReturnSettled ==
  ASSUME TypeInv, EffectInv, SettledInv, NEW o \in Ops, NEW k, NEW v, NEW r,
         Return(o, k, v, r), UNCHANGED effect, Frame(o),
         k \in {"committed", "deleted"} /\ ~ Adrift(o)' => Settled(o)'
  PROVE  SettledInv'
  <1>0. DiskStep /\ strayed \subseteq strayed'
    BY DEF Frame, bounds
  <1>1. SettledOK(o)'
    <2>1. pc'[o] = "done" /\ reply'[o] = [kind |-> k, version |-> v, recovery |-> r]
      BY Parts DEF Return, ControlOK
    <2>2. QED
      BY <2>1 DEF SettledOK, Answered
  <1>2. ASSUME NEW p \in Ops, p # o PROVE SettledOK(p)'
    BY <1>0, <1>2, OtherSettled, Parts DEF Return, ControlOK, SettledInv
  <1>3. QED
    BY <1>1, <1>2 DEF SettledInv

LEMMA ArriveSettled ==
  ASSUME TypeInv, EffectInv, SettledInv, NEW o \in Ops, Call(o) \/ Acquire(o)
  PROVE  SettledInv'
  <1>1. DiskStep /\ UNCHANGED <<strayed, reply, effect>>
    BY SameDisk DEF Call, Acquire, ns, bounds
  <1>2. SettledOK(o)'
    <2>1. reply'[o] = Nothing /\ pc'[o] \in {"waiting", "stage", "inspect"}
      BY Parts DEF Call, Acquire, ControlOK, EffectInv, EffectOK
    <2>2. QED
      BY <2>1 DEF SettledOK, Answered
  <1>3. ASSUME NEW p \in Ops, p # o PROVE SettledOK(p)'
    BY <1>1, <1>3, OtherSettled, Parts DEF Call, Acquire, ControlOK, SettledInv
  <1>4. QED
    BY <1>2, <1>3 DEF SettledInv

(* Only the synchronization after a replacement leads to the labels that   *)
(* claim it.                                                               *)
LEMMA AdvanceSettled ==
  ASSUME TypeInv, HomeInv, EffectInv, SettledInv, NEW o \in Ops, Frame(o),
         AdvanceWrite(o) \/ AdvanceRemove(o)
  PROVE  SettledInv'
  <1>1. UNCHANGED <<reply, effect>>
    BY DEF AdvanceWrite, AdvanceRemove, Stage, Retain, RetainSync, CompareMatches, CheckStaged,
       CheckStagedFails, InstallFindsFile, InstallFails, CreatedCheckHandle, CreatedObserve,
       CreatedRetireAlias, SaveDisplacedBytes, ReplacedCheckHandle, ReplacedObserveNew,
       ReplacedCompare, ReplacedSync, ReplacedBind, MoveFails, QuarantineSync, Examine,
       Unlink, Quiet, ns, local
  <1>2. CASE ReplacedSync(o)
    <2>1. pc[o] \in LastSyncs /\ Flush /\ UNCHANGED <<here, place, strayed>>
      BY <1>2 DEF ReplacedSync, Goto, LastSyncs, local, bounds
    <2>2. ~ Adrift(o)' => Settled(o)'
      BY <1>1, <2>1, FlushSettles
    <2>3. QED
      BY <1>1, <1>2, <2>2, GotoSettled DEF ReplacedSync
  <1>3. CASE ReplacedBind(o)
    <2>1. ~ Adrift(o)' => Settled(o)'
      BY <1>1, <1>3, SettledKept, AdriftStays
         DEF ReplacedBind, Goto, SettledInv, SettledOK, Frame, bounds
    <2>2. QED
      BY <1>1, <1>3, <2>1, GotoSettled DEF ReplacedBind
  <1>4. CASE AdvanceWrite(o) /\ ~ ReplacedSync(o) /\ ~ ReplacedBind(o)
    <2>1. PICK from, to : /\ Goto(o, from, to) /\ from # "done"
                          /\ to \notin {"replacedBind", "replacedRetire"}
      BY <1>4 DEF AdvanceWrite, Stage, Retain, RetainSync, CompareMatches, CheckStaged,
         CheckStagedFails, InstallFindsFile, InstallFails, CreatedCheckHandle, CreatedObserve,
         CreatedRetireAlias, SaveDisplacedBytes, ReplacedCheckHandle, ReplacedObserveNew,
         ReplacedCompare
    <2>2. QED
      BY <1>1, <2>1, GotoSettled
  <1>5. CASE AdvanceRemove(o)
    <2>1. PICK from, to : /\ Goto(o, from, to) /\ from # "done"
                          /\ to \notin {"replacedBind", "replacedRetire"}
      BY <1>5 DEF AdvanceRemove, MoveFails, QuarantineSync, Examine, Unlink
    <2>2. QED
      BY <1>1, <2>1, GotoSettled
  <1>6. QED
    BY <1>2, <1>3, <1>4, <1>5

LEMMA DeniedSettled ==
  ASSUME TypeInv, EffectInv, SettledInv, NEW o \in Ops, NEW k, NEW v, NEW r,
         ReturnPure(o, k, v, r), k \notin {"committed", "deleted"}
  PROVE  SettledInv'
  <1>1. Frame(o) /\ UNCHANGED effect
    BY PureFrame DEF ReturnPure, ns
  <1>2. QED
    BY <1>1, ReturnSettled DEF ReturnPure

LEMMA ParentChangedSettled ==
  ASSUME TypeInv, EffectInv, SettledInv, NEW o \in Ops, Frame(o), NEW known, NEW image,
         ParentChanged(o, known, image)
  PROVE  SettledInv'
  <1>1. UNCHANGED effect
    BY DEF ParentChanged
  <1>2. PICK r : Return(o, "indeterminate", Nothing, r)
    BY DEF ParentChanged
  <1>3. QED
    BY <1>1, <1>2, ReturnSettled

LEMMA CheckSettled ==
  ASSUME TypeInv, EffectInv, SettledInv, NEW o \in Ops, Frame(o),
         \/ CheckParent(o) \/ CreatedCheckParent(o) \/ ReplacedCheckParent(o)
         \/ Inspect(o) \/ Assess(o)
  PROVE  SettledInv'
  <1>1. ASSUME NEW from, NEW to, Goto(o, from, to), from # "done",
               to \notin {"replacedBind", "replacedRetire"}, Quiet
        PROVE  SettledInv'
    BY <1>1, GotoSettled DEF Quiet, ns
  <1>2. CASE CheckParent(o)
    BY <1>1, <1>2, ParentChangedSettled DEF CheckParent
  <1>3. CASE CreatedCheckParent(o)
    BY <1>1, <1>3, ParentChangedSettled DEF CreatedCheckParent
  <1>4. CASE ReplacedCheckParent(o)
    BY <1>1, <1>4, ParentChangedSettled DEF ReplacedCheckParent
  <1>5. CASE Inspect(o)
    BY <1>1, <1>5, DeniedSettled DEF Inspect
  <1>6. CASE Assess(o)
    BY <1>1, <1>6, DeniedSettled DEF Assess
  <1>7. QED
    BY <1>2, <1>3, <1>4, <1>5, <1>6

LEMMA FailureSettled ==
  ASSUME TypeInv, EffectInv, SettledInv, NEW o \in Ops,
         \/ StagingFails(o) \/ ReportPartial(o) \/ Classify(o) \/ ReportExisting(o)
         \/ CreatedFinishFails(o) \/ ReplacedHandleFails(o) \/ ReplacedFails(o)
         \/ Reinspect(o) \/ RestoreFails(o) \/ UnlinkMismatch(o) \/ RemoveFails(o)
  PROVE  SettledInv'
  <1>1. PICK k, v, r : ReturnPure(o, k, v, r) /\ k \notin {"committed", "deleted"}
    BY DEF StagingFails, ReportPartial, Classify, ReportExisting, CreatedFinishFails,
       ReplacedHandleFails, ReplacedFails, Reinspect, RestoreFails, UnlinkMismatch, RemoveFails
  <1>2. QED
    BY <1>1, DeniedSettled

(* A commit or a deletion is reported in the step that synchronizes the    *)
(* directory, or after it.                                                 *)
LEMMA FinishSettled ==
  ASSUME TypeInv, HomeInv, EffectInv, SettledInv, NEW o \in Ops, Frame(o),
         \/ CompareConflicts(o) \/ CreationIndeterminate(o) \/ CreatedSync(o)
         \/ ReplacedRetire(o) \/ RestoreSync(o) \/ UnlinkSync(o)
  PROVE  SettledInv'
  <1>1. DiskStep /\ strayed' = strayed /\ UNCHANGED effect
    BY DEF CompareConflicts, CreationIndeterminate, CreatedSync, ReplacedRetire,
       RestoreSync, UnlinkSync, ns, Frame, bounds
  <1>2. CASE CreatedSync(o) \/ UnlinkSync(o)
    <2>1. pc[o] \in LastSyncs /\ Flush /\ UNCHANGED <<here, place>>
      BY <1>2 DEF CreatedSync, UnlinkSync, LastSyncs, local
    <2>2. ~ Adrift(o)' => Settled(o)'
      BY <1>1, <2>1, FlushSettles
    <2>3. QED
      BY <1>1, <1>2, <2>2, ReturnSettled DEF CreatedSync, UnlinkSync
  <1>3. CASE ReplacedRetire(o)
    <2>1. ~ Adrift(o)' => Settled(o)'
      BY <1>1, <1>3, SettledKept, AdriftStays DEF ReplacedRetire, SettledInv, SettledOK
    <2>2. QED
      BY <1>1, <1>3, <2>1, ReturnSettled DEF ReplacedRetire
  <1>4. CASE CompareConflicts(o) \/ CreationIndeterminate(o) \/ RestoreSync(o)
    <2>1. PICK k, v, r : Return(o, k, v, r) /\ k \notin {"committed", "deleted"}
      BY <1>4 DEF CompareConflicts, CreationIndeterminate, RestoreSync
    <2>2. QED
      BY <1>1, <2>1, ReturnSettled
  <1>5. QED
    BY <1>2, <1>3, <1>4

LEMMA MutationSettled ==
  ASSUME TypeInv, EffectInv, SettledInv, NEW o \in Ops, Frame(o),
         InstallAbsent(o) \/ Replace(o) \/ ReplacePartially(o)
         \/ MoveToQuarantine(o) \/ Restore(o)
  PROVE  SettledInv'
  <1>1. UNCHANGED reply
    BY DEF InstallAbsent, Replace, Mutates, ReplacePartially, MoveToQuarantine, Restore
  <1>2. \A p \in Ops : p # o => effect'[p] = effect[p]
    BY Parts DEF InstallAbsent, Replace, Mutates, ReplacePartially, MoveToQuarantine, Restore,
       NamesOK
  <1>3. PICK from, to : /\ Goto(o, from, to) /\ from # "done"
                        /\ to \notin {"replacedBind", "replacedRetire"}
    BY DEF InstallAbsent, Replace, Mutates, ReplacePartially, MoveToQuarantine, Restore
  <1>4. QED
    BY <1>1, <1>2, <1>3, GotoSettled

LEMMA EnvironmentSettled ==
  ASSUME TypeInv, SettledInv, Environment
  PROVE  SettledInv'
  <1>1. CASE ForeignWrites \/ ForeignReplaces \/ ForeignRemoves \/ SwapParent
    <2>1. UNCHANGED <<reply, pc, effect>> /\ strayed \subseteq strayed'
      BY <1>1 DEF ForeignWrites, ForeignReplaces, ForeignRemoves, SwapParent, Foreign
    <2>2. DiskStep
      BY <1>1, SameDisk, HereDisk
         DEF ForeignWrites, ForeignReplaces, ForeignRemoves, SwapParent
    <2>3. QED
      BY <2>1, <2>2, OtherSettled DEF SettledInv
  <1>2. CASE PowerLoss
    <2>1. ASSUME NEW p \in Ops PROVE Settled(p)'
      BY <1>2 DEF PowerLoss, Settled, Image
    <2>2. QED
      BY <2>1 DEF SettledInv, SettledOK
  <1>3. QED
    BY <1>1, <1>2 DEF Environment

LEMMA StutterSettled == ASSUME SettledInv, UNCHANGED vars PROVE SettledInv'
  BY OtherSettled, SameDisk DEF vars, ns, bounds, SettledInv

LEMMA SettledStep ==
  TypeInv /\ HomeInv /\ EffectInv /\ SettledInv /\ [Next]_vars => SettledInv'
  <1>1. SUFFICES ASSUME TypeInv, HomeInv, EffectInv, SettledInv, [Next]_vars PROVE SettledInv'
    OBVIOUS
  <1>2. ASSUME NEW o \in Ops, WriteStep(o) PROVE SettledInv'
    <2>1. Frame(o)
      BY <1>1, <1>2, StepFrame DEF OpStep
    <2>. QED BY <1>1, <1>2, <2>1, AdvanceSettled, CheckSettled, FailureSettled,
                FinishSettled, MutationSettled DEF WriteStep, AdvanceWrite
  <1>3. ASSUME NEW o \in Ops, RemoveStep(o) PROVE SettledInv'
    <2>1. Frame(o)
      BY <1>1, <1>3, StepFrame DEF OpStep
    <2>. QED BY <1>1, <1>3, <2>1, AdvanceSettled, CheckSettled, FailureSettled,
                FinishSettled, MutationSettled DEF RemoveStep, AdvanceRemove
  <1>4. QED
    BY <1>1, <1>2, <1>3, ArriveSettled, EnvironmentSettled, StutterSettled DEF Next, OpStep

(* On unix a commit or a deletion that was reported is in every state of   *)
(* the directories that a power loss can bring back, for any number of     *)
(* calls and of steps of other programs, those that swap the parent        *)
(* directory included, unless one of these fell between the call's last    *)
(* look at its own change and the synchronization of the parent's path.    *)
THEOREM DurableCorrect == Spec => []ConfirmedIsDurable
  <1>1. Init => /\ TypeInv /\ PlacedInv /\ KeptInv /\ HomeInv /\ EffectInv
                /\ SettledInv
    BY TypeInitial, PlacedInitial, KeptInitial, HomeInitial, EffectInitial
       DEF Init, SettledInv, SettledOK, Settled
  <1>2. /\ TypeInv /\ PlacedInv /\ KeptInv /\ HomeInv /\ EffectInv /\ SettledInv
        /\ [Next]_vars
        => TypeInv' /\ PlacedInv' /\ KeptInv' /\ HomeInv' /\ EffectInv' /\ SettledInv'
    BY TypeStep, PlacedStep, KeptStep, HomeStep, EffectStep, SettledStep
  <1>3. SettledInv => ConfirmedIsDurable
    BY DEF SettledInv, SettledOK, Settled, ConfirmedIsDurable
  <1>4. QED
    BY <1>1, <1>2, <1>3, PTL DEF Spec

-------------------------------------------------------------------------------
(* A confirmed call did exactly what was asked.                            *)

(* Where a call finds the file it displaced.                               *)
Taken(o) == IF request[o].kind = "write" THEN Displaced(o) ELSE Quarantine(o)

(* The labels from which a call may still verify that file.                *)
Tracked == {"waiting", "stage", "retain", "retainSync", "compare", "parent", "revalidate", "install",
  "replaced", "replacedParent", "replacedHandle", "replacedNew", "replacedOld",
  "inspect", "quarantine", "quarantineSync", "examine", "unlink"}
Creating == {"created", "createdHandle", "createdObserve", "createdAlias", "createdSync"}
Observed == {"createdAlias", "createdSync"}
Compared == {"replacedSync", "replacedBind", "replacedRetire"}

(* A file there that is the expected version is the one that the call      *)
(* displaced, unchanged: a file created since has a larger identity, and   *)
(* one written since a later stamp.                                        *)
TakenOK(o) ==
  \A d \in Dirs :
    names[d][Taken(o)] # Nothing /\ VersionOf(names[d][Taken(o)]) = request[o].expected
      => effect[o] = {request[o].expected}

Dated(o) ==
  request[o].expected # Nothing =>
    request[o].expected.stamp <= foreign /\ request[o].expected.object <= born

ExactOK(o) ==
  /\ Dated(o)
  /\ pc[o] \in Tracked => TakenOK(o)
  /\ pc[o] \in WriteLabels \ {"stage"} => staged[o].bytes = request[o].bytes
  /\ pc[o] \in Creating => request[o].expected = Nothing /\ effect[o] = {Nothing}
  /\ pc[o] \in Observed => seen[o].bytes = request[o].bytes
  /\ pc[o] \in Compared => seen[o] = staged[o]
  /\ pc[o] \in Compared \union {"unlinkSync"} => effect[o] = {request[o].expected}
  /\ Answered(o, {"committed", "deleted"}) =>
       effect[o] = {request[o].expected} \/ (Adrift(o) /\ losses > 0)
  /\ Answered(o, {"committed"}) => reply[o].version.bytes = request[o].bytes

StampsOK == \A x \in Objects : data[x].stamp <= foreign

ExactInv == StampsOK /\ \A o \in Ops : ExactOK(o)

LEMMA VersionApart ==
  ASSUME FilesOK, NEW x \in Objects
  PROVE  VersionOf(x) \in Versions /\ VersionOf(x) # Nothing
  BY VersionAssumption DEF FilesOK, VersionOf, Versions

(* No step forges the expected version.                                    *)
LEMMA TakenKept ==
  ASSUME TypeInv, TypeInv', NEW o \in Ops, Dated(o), TakenOK(o),
         request'[o] = request[o], effect'[o] = effect[o],
         \A x \in 1..born : data'[x] = data[x] \/ data'[x].stamp > foreign,
         \A d \in Dirs : names'[d][Taken(o)] \in {Nothing, names[d][Taken(o)]} \union ((born + 1)..born'),
         \A d \in Dirs : names[d][Taken(o)] # Nothing => names[d][Taken(o)] \in 1..born
  PROVE  TakenOK(o)'
  <1>0. Taken(o)' = Taken(o) /\ Taken(o) \in Leaves
    BY LeafType DEF Taken, Displaced
  <1>. DEFINE w == request[o].expected
  <1>1. SUFFICES ASSUME NEW d \in Dirs, names'[d][Taken(o)] # Nothing,
                        [object |-> names'[d][Taken(o)], bytes |-> data'[names'[d][Taken(o)]].bytes,
                         stamp |-> data'[names'[d][Taken(o)]].stamp] = w
                 PROVE  effect[o] = {w}
    BY <1>0 DEF TakenOK, VersionOf
  <1>. DEFINE x == names'[d][Taken(o)]
  <1>2. x \in Objects
    BY <1>0, <1>1, Parts DEF NamesOK, Namespaces, Optional
  <1>3. w # Nothing /\ w.object = x /\ w.stamp = data'[x].stamp
    <2>1. data'[x] \in [bytes : Images, stamp : 0..MaxForeign, dir : Dirs]
      BY <1>2, Parts DEF FilesOK
    <2>2. w \in Versions
      BY <1>1, <1>2, <2>1 DEF Versions
    <2>. QED BY <1>1, <2>2, VersionAssumption
  <1>4. w.stamp <= foreign /\ w.object <= born
    BY <1>3 DEF Dated
  <1>5. /\ born \in Nat /\ born' \in Nat /\ foreign \in Nat /\ x \in Nat
        /\ data'[x].stamp \in Nat
    BY <1>2, Parts, BoundAssumption DEF FilesOK, Objects
  <1>6. x = names[d][Taken(o)] /\ x \in 1..born
    BY <1>1, <1>3, <1>4, <1>5
  <1>7. data'[x] = data[x]
    BY <1>3, <1>4, <1>5, <1>6
  <1>8. VersionOf(x) = w
    BY <1>1, <1>7 DEF VersionOf
  <1>. QED BY <1>1, <1>6, <1>8 DEF TakenOK

LEMMA TakenBound ==
  ASSUME TypeInv, KeptInv, NEW o \in Ops
  PROVE  \A d \in Dirs : names[d][Taken(o)] # Nothing => names[d][Taken(o)] \in 1..born
  BY FreshNow, LeafType DEF Taken

LEMMA StaysExact ==
  ASSUME NEW o \in Ops, ExactOK(o), born' \in Nat, born \in Nat, foreign' \in Nat, foreign \in Nat,
         born' >= born, foreign' >= foreign, losses' = losses, strayed \subseteq strayed', TypeInv,
         pc'[o] = pc[o], request'[o] = request[o], effect'[o] = effect[o], reply'[o] = reply[o],
         staged'[o] = staged[o], seen'[o] = seen[o],
         pc[o] \in Tracked => TakenOK(o)'
  PROVE  ExactOK(o)'
  <1>1. Dated(o)'
    <2>1. request[o].expected # Nothing => request[o].expected \in Versions
      BY Parts DEF ControlOK, Requests, Optional
    <2>2. \A v \in Versions : v.stamp \in Nat /\ v.object \in Nat
      BY BoundAssumption DEF Versions, Objects
    <2>. QED BY <2>1, <2>2 DEF ExactOK, Dated
  <1>. QED BY <1>1, AdriftStays DEF ExactOK, Answered

(* The other calls are not disturbed.                                      *)
LEMMA OthersExact ==
  ASSUME TypeInv, TypeInv', KeptInv, ExactInv, NEW o \in Ops, Frame(o), NEW p \in Ops, p # o
  PROVE  ExactOK(p)'
  <1>1. /\ born' \in Nat /\ born \in Nat /\ foreign' \in Nat /\ foreign \in Nat
        /\ born' >= born /\ foreign' >= foreign /\ losses' = losses /\ strayed' = strayed
    BY Parts, BoundAssumption DEF Frame, Binds, FilesOK, bounds
  <1>2. ExactOK(p)
    BY DEF ExactInv
  <1>3. PICK K \in SUBSET (Moved(o) \union Evidence(o)), S \in SUBSET Moved(o) : Binds(K, S)
    BY DEF Frame
  <1>4. Taken(p) \in Leaves /\ Taken(p) \notin K
    BY RoleApart DEF Taken, Moved, Evidence, Displaced, Quarantine, Staged, Recovery, Spare, Copy,
       Dest, Leaves, Roles
  <1>5. \A d \in Dirs : names'[d][Taken(p)] = names[d][Taken(p)]
    BY <1>3, <1>4 DEF Binds
  <1>6. \A x \in 1..born : data'[x] = data[x]
    BY <1>3 DEF Binds
  <1>7. /\ pc'[p] = pc[p] /\ request'[p] = request[p] /\ reply'[p] = reply[p]
        /\ effect'[p] = effect[p] /\ staged'[p] = staged[p] /\ seen'[p] = seen[p]
    BY DEF Frame
  <1>8. TakenOK(p) => TakenOK(p)'
    BY <1>2, <1>5, <1>6, <1>7, TakenKept, TakenBound DEF ExactOK
  <1>. QED BY <1>1, <1>2, <1>7, <1>8, StaysExact DEF ExactOK

(* A step that is no mutation tracks the displaced file on.                *)
LEMMA OwnTaken ==
  ASSUME TypeInv, TypeInv', KeptInv, ExactInv, NEW o \in Ops, Frame(o), ~ Mutation(o), ~ Call(o),
         TakenOK(o)
  PROVE  TakenOK(o)'
  <1>1. PICK K \in SUBSET (Moved(o) \union Evidence(o)), S \in SUBSET Moved(o) : Binds(K, S) /\ S = {}
    BY DEF Frame
  <1>2. Taken(o) \in Leaves
    BY LeafType DEF Taken
  <1>3. \A d \in Dirs :
          names'[d][Taken(o)] \in {Nothing, names[d][Taken(o)]} \union ((born + 1)..born')
    BY <1>1, <1>2 DEF Binds
  <1>4. /\ request'[o] = request[o] /\ effect'[o] = effect[o] /\ Dated(o)
        /\ \A x \in 1..born : data'[x] = data[x]
    BY <1>1 DEF Frame, Binds, ExactInv, ExactOK
  <1>. QED BY <1>3, <1>4, TakenKept, TakenBound

LEMMA OwnDated ==
  ASSUME TypeInv, TypeInv', NEW o \in Ops, Frame(o), ExactOK(o), request'[o] = request[o]
  PROVE  Dated(o)'
  <1>1. request[o].expected # Nothing => request[o].expected \in Versions
    BY Parts DEF ControlOK, Requests, Optional
  <1>2. \A v \in Versions : v.stamp \in Nat /\ v.object \in Nat
    BY BoundAssumption DEF Versions, Objects
  <1>3. foreign' = foreign /\ born' >= born /\ born' \in Nat /\ born \in Nat
    BY NothingIsNoFile DEF Frame, Binds, bounds
  <1>. QED BY <1>1, <1>2, <1>3 DEF ExactOK, Dated

LEMMA GotoExact ==
  ASSUME TypeInv, TypeInv', KeptInv, EffectInv, ExactInv, StampsOK', NEW o \in Ops, Frame(o),
         ~ Mutation(o), ~ Call(o), NEW from, NEW to, Goto(o, from, to), from # "done",
         reply' = reply,
         to \in Tracked => from \in Tracked,
         to \in WriteLabels \ {"stage"} => staged'[o].bytes = request[o].bytes,
         to \in Creating => from \in Creating,
         to \in Observed => seen'[o].bytes = request[o].bytes,
         to \in Compared => seen'[o] = staged'[o],
         to \in Compared \union {"unlinkSync"} => effect[o] = {request[o].expected}
  PROVE  ExactInv'
  <1>1. /\ pc[o] = from /\ pc'[o] = to /\ reply'[o] = Nothing
        /\ request'[o] = request[o] /\ effect'[o] = effect[o]
    BY Parts DEF Goto, ControlOK, EffectInv, EffectOK, Frame
  <1>2. ExactOK(o)
    BY DEF ExactInv
  <1>3. Dated(o)'
    BY <1>1, <1>2, OwnDated
  <1>4. to \in Tracked => TakenOK(o)'
    BY <1>1, <1>2, OwnTaken DEF ExactOK
  <1>5. ExactOK(o)'
    BY <1>1, <1>2, <1>3, <1>4 DEF ExactOK, Answered
  <1>. QED BY <1>5, OthersExact DEF ExactInv

LEMMA ReturnExact ==
  ASSUME TypeInv, TypeInv', KeptInv, ExactInv, StampsOK', NEW o \in Ops, Frame(o),
         ~ Mutation(o), ~ Call(o), NEW k, NEW v, NEW r, Return(o, k, v, r),
         k \in {"committed", "deleted"} => effect[o] = {request[o].expected},
         k = "committed" => v.bytes = request[o].bytes
  PROVE  ExactInv'
  <1>1. /\ pc'[o] = "done" /\ reply'[o] = [kind |-> k, version |-> v, recovery |-> r]
        /\ request'[o] = request[o] /\ effect'[o] = effect[o]
    BY Parts DEF Return, ControlOK, Frame
  <1>2. Dated(o)'
    BY <1>1, OwnDated DEF ExactInv
  <1>3. ExactOK(o)'
    BY <1>1, <1>2
       DEF ExactOK, Answered, Tracked, WriteLabels, Creating, Observed, Compared
  <1>. QED BY <1>3, OthersExact DEF ExactInv

(* A file that a call creates carries the present stamp.                   *)
LEMMA StampsKept ==
  ASSUME TypeInv, StampsOK, NEW o \in Ops, Call(o) \/ OpStep(o)
  PROVE  StampsOK'
  <1>0. foreign' = foreign /\ foreign \in Nat
    BY StepFrame, Parts, BoundAssumption DEF Frame, FilesOK, bounds
  <1>1. ASSUME UNCHANGED data PROVE StampsOK'
    BY <1>0, <1>1 DEF StampsOK
  <1>2. CASE Stage(o) \/ Retain(o)
    <2>1. PICK b, x : data' = [data EXCEPT ![x] = [bytes |-> b, stamp |-> foreign, dir |-> here]]
      BY <1>2 DEF Stage, Retain, Create
    <2>. QED BY <1>0, <2>1, Parts DEF StampsOK, FilesOK
  <1>3. ASSUME NEW known, NEW image, ParentChanged(o, known, image) PROVE StampsOK'
    <2>1. PICK d : data' = WithSpares(request[o].bytes, image, d)
      BY <1>3 DEF ParentChanged
    <2>2. \A x \in Objects : data'[x] = data[x] \/ data'[x].stamp = foreign
      BY <2>1, Parts DEF WithSpares, FilesOK
    <2>. QED BY <1>0, <2>2, Parts DEF StampsOK, FilesOK
  <1>4. CASE StillWrite(o) \/ StillRemove(o) \/ Reports(o) \/ Confirms(o) \/ Call(o) \/ Acquire(o)
    BY <1>1, <1>4, StillBinds
  <1>5. CASE Retires(o) \/ ReplacedRetire(o) \/ Unlink(o)
    BY <1>1, <1>5, RetiresBinds DEF ReplacedRetire, Unlink
  <1>6. CASE CheckParent(o) \/ CreatedCheckParent(o) \/ ReplacedCheckParent(o)
    BY <1>1, <1>3, <1>6 DEF CheckParent, CreatedCheckParent, ReplacedCheckParent, Quiet
  <1>7. CASE Inspect(o) \/ Assess(o)
    BY <1>1, <1>7 DEF Inspect, Assess, Quiet, ReturnPure
  <1>8. CASE Mutation(o)
    BY <1>1, <1>8 DEF Mutation, InstallAbsent, Replace, Mutates, ReplacePartially,
       MoveToQuarantine, Restore
  <1>9. CASE WriteStep(o)
    BY <1>2, <1>4, <1>5, <1>6, <1>8, <1>9
       DEF WriteStep, StillWrite, Reports, Confirms, Retires, Mutation
  <1>10. CASE RemoveStep(o)
    BY <1>4, <1>5, <1>7, <1>8, <1>10
       DEF RemoveStep, StillRemove, Reports, Confirms, Mutation
  <1>. QED BY <1>4, <1>9, <1>10 DEF OpStep

(* A mutation binds the destination, another step does not; a call that    *)
(* begins does nothing else.                                               *)
LEMMA Apart ==
  ASSUME TypeInv, NEW o \in Ops
  PROVE  /\ pc[o] # "idle" => ~ Call(o)
         /\ pc[o] \notin {"install", "quarantine", "restore"} => ~ Mutation(o)
         /\ ~ (pc'[o] \in {"created", "replaced", "partial", "quarantineSync", "restoreSync"})
              => ~ Mutation(o)
  BY Parts DEF Call, Mutation, InstallAbsent, Replace, Mutates, ReplacePartially,
     MoveToQuarantine, Restore, Goto, ControlOK

StepHypotheses(o) ==
  /\ TypeInv /\ TypeInv' /\ KeptInv /\ EffectInv /\ ExactInv
  /\ StampsOK' /\ Frame(o)

LEMMA StillWriteExact ==
  ASSUME NEW o \in Ops, StepHypotheses(o), StillWrite(o)
  PROVE  ExactInv'
  <1>0. /\ TypeInv /\ TypeInv' /\ KeptInv /\ EffectInv /\ ExactInv /\ StampsOK' /\ Frame(o)
        /\ ExactOK(o)
    BY DEF StepHypotheses, ExactInv
  <1>1. reply' = reply
    BY DEF StillWrite, RetainSync, CompareMatches, CheckStaged, CheckStagedFails, InstallFindsFile,
       InstallFails, CreatedCheckHandle, CreatedObserve, SaveDisplacedBytes,
       ReplacedCheckHandle, ReplacedObserveNew, ReplacedCompare, ReplacedSync, ReplacedBind, Quiet
  <1>2. staged' = staged
    BY DEF StillWrite, RetainSync, CompareMatches, CheckStaged, CheckStagedFails, InstallFindsFile,
       InstallFails, CreatedCheckHandle, CreatedObserve, SaveDisplacedBytes,
       ReplacedCheckHandle, ReplacedObserveNew, ReplacedCompare, ReplacedSync, ReplacedBind, local
  <1>3. pc[o] \in WriteLabels \ {"stage"} => staged'[o].bytes = request[o].bytes
    BY <1>0, <1>2 DEF ExactOK
  <1>4. CASE \/ RetainSync(o) \/ CompareMatches(o) \/ CheckStaged(o) \/ CheckStagedFails(o)
             \/ InstallFindsFile(o) \/ InstallFails(o)
    <2>1. PICK from, to :
            /\ Goto(o, from, to) /\ from \in WriteLabels \ {"stage"} /\ from \in Tracked
            /\ to \notin Creating \union Compared \union {"unlinkSync"}
            /\ to \notin {"created", "replaced", "partial", "quarantineSync", "restoreSync"}
      BY <1>4 DEF RetainSync, CompareMatches, CheckStaged, CheckStagedFails, InstallFindsFile, InstallFails,
         Creating, Compared, Tracked, WriteLabels
    <2>2. pc[o] = from /\ pc'[o] = to /\ from # "done" /\ from # "idle"
      BY <1>0, <2>1, Parts DEF Goto, ControlOK, WriteLabels
    <2>3. ~ Mutation(o) /\ ~ Call(o)
      BY <1>0, <2>1, <2>2, Apart
    <2>4. Observed \subseteq Creating
      BY DEF Observed, Creating
    <2>. QED BY ONLY <1>0, <1>1, <1>3, <2>1, <2>2, <2>3, <2>4, GotoExact
  <1>5. CASE CreatedCheckHandle(o) \/ CreatedObserve(o)
    <2>1. PICK from \in {"createdHandle", "createdObserve"},
               to \in {"createdObserve", "createdAlias", "createdSync"} :
            /\ Goto(o, from, to)
            /\ to # "createdObserve" => CreatedObserve(o)
      BY <1>5 DEF CreatedCheckHandle, CreatedObserve
    <2>2. pc[o] = from /\ pc'[o] = to
      BY <1>0, <2>1, Parts DEF Goto, ControlOK
    <2>3. ~ Mutation(o) /\ ~ Call(o)
      BY <1>0, <2>1, <2>2, Apart
    <2>4. to \in Observed => seen'[o].bytes = request[o].bytes
      BY <1>0, <2>1, Parts DEF CreatedObserve, Observed, LocalOK
    <2>5. from \in WriteLabels \ {"stage"} /\ from \in Creating
      BY <2>1 DEF WriteLabels, Creating
    <2>6. to \notin Tracked /\ to \notin Compared \union {"unlinkSync"} /\ from # "done"
      BY <2>1 DEF Tracked, Compared
    <2>. QED BY ONLY <1>0, <1>1, <1>3, <2>1, <2>2, <2>3, <2>4, <2>5, <2>6, GotoExact
  <1>6. CASE SaveDisplacedBytes(o) \/ ReplacedCheckHandle(o) \/ ReplacedObserveNew(o)
    <2>1. PICK from \in {"replaced", "replacedHandle", "replacedNew"},
               to \in {"replacedParent", "replacedNew", "replacedOld"} : Goto(o, from, to)
      BY <1>6 DEF SaveDisplacedBytes, ReplacedCheckHandle, ReplacedObserveNew
    <2>2. pc[o] = from /\ pc'[o] = to
      BY <1>0, <2>1, Parts DEF Goto, ControlOK
    <2>3. ~ Mutation(o) /\ ~ Call(o)
      BY <1>0, <2>1, <2>2, Apart
    <2>5. from \in WriteLabels \ {"stage"} /\ from \in Tracked /\ from # "done"
      BY <2>1 DEF WriteLabels, Tracked
    <2>6. to \notin Creating \union Observed \union Compared \union {"unlinkSync"}
      BY <2>1 DEF Creating, Observed, Compared
    <2>. QED BY ONLY <1>0, <1>1, <1>3, <2>1, <2>2, <2>3, <2>5, <2>6, GotoExact
  <1>7. CASE ReplacedCompare(o)
    <2>1. /\ Goto(o, "replacedOld", "replacedSync") /\ UNCHANGED <<staged, seen>>
          /\ Capture(Displaced(o)) # Nothing /\ Capture(Displaced(o)) = request[o].expected
          /\ seen[o] = staged[o]
      BY <1>7 DEF ReplacedCompare, IsDisplacedVersionOf, local
    <2>2. pc[o] = "replacedOld" /\ pc'[o] = "replacedSync"
      BY <1>0, <2>1, Parts DEF Goto, ControlOK
    <2>3. ~ Mutation(o) /\ ~ Call(o)
      BY <1>0, <2>2, Apart
    <2>4. TakenOK(o) /\ Taken(o) = Displaced(o)
      BY <1>0, <2>2, Parts DEF ExactOK, Tracked, Taken, ControlOK, RequestOK, WriteLabels
    <2>5. effect[o] = {request[o].expected}
      BY <1>0, <2>1, <2>4, NothingIsNoFile DEF TakenOK, Capture
    <2>6. /\ "replacedSync" \notin Tracked \union Creating \union Observed
          /\ "replacedOld" \in WriteLabels \ {"stage"}
      BY DEF Tracked, Creating, Observed, WriteLabels
    <2>7. seen'[o] = staged'[o] /\ "replacedOld" # "done"
      BY <2>1
    <2>. QED BY ONLY <1>0, <1>1, <1>3, <2>1, <2>2, <2>3, <2>5, <2>6, <2>7, GotoExact
  <1>8. CASE ReplacedSync(o) \/ ReplacedBind(o)
    <2>1. PICK from \in {"replacedSync", "replacedBind"}, to \in {"replacedBind", "replacedRetire"} :
            Goto(o, from, to) /\ UNCHANGED <<staged, seen>>
      BY <1>8 DEF ReplacedSync, ReplacedBind, local
    <2>2. pc[o] = from /\ pc'[o] = to
      BY <1>0, <2>1, Parts DEF Goto, ControlOK
    <2>3. ~ Mutation(o) /\ ~ Call(o)
      BY <1>0, <2>1, <2>2, Apart
    <2>4. from \in Compared /\ to \notin Tracked \union Creating \union Observed
          /\ from \in WriteLabels \ {"stage"} /\ from # "done"
      BY <2>1 DEF Compared, Tracked, Creating, Observed, WriteLabels
    <2>5. seen'[o] = staged'[o] /\ effect[o] = {request[o].expected}
      BY <1>0, <2>1, <2>2, <2>4 DEF ExactOK
    <2>. QED BY ONLY <1>0, <1>1, <1>3, <2>1, <2>2, <2>3, <2>4, <2>5, GotoExact
  <1>. QED BY <1>4, <1>5, <1>6, <1>7, <1>8 DEF StillWrite

LEMMA WriteExact ==
  ASSUME NEW o \in Ops, StepHypotheses(o), Stage(o) \/ Retain(o) \/ CreatedRetireAlias(o)
  PROVE  ExactInv'
  <1>0. /\ TypeInv /\ TypeInv' /\ KeptInv /\ EffectInv /\ ExactInv /\ StampsOK' /\ Frame(o)
        /\ ExactOK(o)
    BY DEF StepHypotheses, ExactInv
  <1>1. reply' = reply
    BY DEF Stage, Retain, CreatedRetireAlias
  <1>2. PICK from \in {"stage", "retain", "createdAlias"}, to \in {"retain", "retainSync", "createdSync"} :
          /\ Goto(o, from, to)
          /\ to \in Tracked => from \in Tracked
          /\ from = "stage" => Stage(o)
          /\ from = "retain" => Retain(o)
          /\ from = "createdAlias" <=> to = "createdSync"
          /\ from = "createdAlias" => CreatedRetireAlias(o)
    BY DEF Stage, Retain, CreatedRetireAlias, Tracked
  <1>3. pc[o] = from /\ pc'[o] = to
    BY <1>0, <1>2, Parts DEF Goto, ControlOK
  <1>4. ~ Mutation(o) /\ ~ Call(o)
    BY <1>0, <1>2, <1>3, Apart
  <1>5. staged'[o].bytes = request[o].bytes
    <2>1. CASE from = "stage"
      BY <1>0, <1>2, <2>1, Parts DEF Stage, LocalOK
    <2>2. CASE from # "stage"
      <3>1. from \in WriteLabels \ {"stage"} /\ staged' = staged
        BY <1>2, <2>2 DEF WriteLabels, Retain, CreatedRetireAlias, local
      <3>. QED BY <1>0, <1>3, <3>1 DEF ExactOK
    <2>. QED BY <2>1, <2>2
  <1>6. to \in Observed => seen'[o].bytes = request[o].bytes
    BY <1>0, <1>2, <1>3 DEF ExactOK, Observed, CreatedRetireAlias, local
  <1>7. /\ to \in Creating => from \in Creating
        /\ to \notin Compared \union {"unlinkSync"} /\ from # "done"
    BY <1>2 DEF Creating, Compared
  <1>. QED BY ONLY <1>0, <1>1, <1>2, <1>4, <1>5, <1>6, <1>7, GotoExact

LEMMA RemoveExact ==
  ASSUME NEW o \in Ops, StepHypotheses(o), StillRemove(o) \/ Unlink(o)
  PROVE  ExactInv'
  <1>0. /\ TypeInv /\ TypeInv' /\ KeptInv /\ EffectInv /\ ExactInv /\ StampsOK' /\ Frame(o)
        /\ ExactOK(o)
    BY DEF StepHypotheses, ExactInv
  <1>1. reply' = reply
    BY DEF StillRemove, MoveFails, QuarantineSync, Examine, Unlink, Quiet
  <1>2. PICK from \in {"quarantine", "quarantineSync", "examine", "unlink"},
             to \in {"reinspect", "examine", "unlink", "assess", "unlinkSync"} :
          /\ Goto(o, from, to)
          /\ to = "unlinkSync" => Unlink(o) /\ from = "unlink"
    BY DEF StillRemove, MoveFails, QuarantineSync, Examine, Unlink
  <1>3. pc[o] = from /\ pc'[o] = to
    BY <1>0, <1>2, Parts DEF Goto, ControlOK
  <1>4. ~ Mutation(o) /\ ~ Call(o)
    BY <1>0, <1>2, <1>3, Apart
  <1>5. from \in Tracked /\ to \notin Creating \union Observed \union Compared \union WriteLabels
        /\ from # "done"
    BY <1>2 DEF Tracked, Creating, Observed, Compared, WriteLabels
  <1>6. to = "unlinkSync" => effect[o] = {request[o].expected}
    <2>1. SUFFICES ASSUME to = "unlinkSync" PROVE effect[o] = {request[o].expected}
      OBVIOUS
    <2>2. Capture(Quarantine(o)) # Nothing /\ Capture(Quarantine(o)) = request[o].expected
      BY <1>2, <2>1 DEF Unlink, IsDisplacedVersionOf
    <2>3. TakenOK(o)
      BY <1>0, <1>3, <1>5 DEF ExactOK
    <2>4. Taken(o) = Quarantine(o)
      BY <1>0, <1>2, <1>3, <2>1, Parts DEF Taken, ControlOK, RequestOK, RemoveLabels
    <2>. QED BY <2>2, <2>3, <2>4, <1>0, NothingIsNoFile DEF TakenOK, Capture
  <1>. QED BY ONLY <1>0, <1>1, <1>2, <1>4, <1>5, <1>6, GotoExact

(* Answers that claim nothing.                                             *)
LEMMA DenialExact ==
  ASSUME NEW o \in Ops, StepHypotheses(o), NEW k, NEW v, NEW r, Return(o, k, v, r),
         k \notin {"committed", "deleted"}, pc[o] \notin {"idle", "install", "quarantine", "restore"}
  PROVE  ExactInv'
  <1>1. ~ Mutation(o) /\ ~ Call(o)
    BY Apart DEF StepHypotheses
  <1>. QED BY <1>1, ReturnExact DEF StepHypotheses

LEMMA ReportsExact ==
  ASSUME NEW o \in Ops, StepHypotheses(o), Reports(o) \/ CompareConflicts(o)
                                           \/ CreationIndeterminate(o) \/ RestoreSync(o)
  PROVE  ExactInv'
  <1>0. pc'[o] = "done" /\ ~ Mutation(o)
    <2>1. PICK k, v, r : Return(o, k, v, r)
      BY DEF Reports, StagingFails, ReportPartial, Classify, ReportExisting, CreatedFinishFails,
         ReplacedHandleFails, ReplacedFails, Reinspect, RestoreFails, UnlinkMismatch, RemoveFails,
         ReturnPure, CompareConflicts, CreationIndeterminate, RestoreSync
    <2>2. pc'[o] = "done"
      BY <2>1, Parts DEF Return, ControlOK, StepHypotheses
    <2>. QED BY <2>2, Apart DEF StepHypotheses
  <1>1. PICK k, v, r : Return(o, k, v, r) /\ k \notin {"committed", "deleted"}
    BY DEF Reports, StagingFails, ReportPartial, Classify, ReportExisting, CreatedFinishFails,
       ReplacedHandleFails, ReplacedFails, Reinspect, RestoreFails, UnlinkMismatch, RemoveFails,
       ReturnPure, CompareConflicts, CreationIndeterminate, RestoreSync
  <1>2. pc[o] # "idle"
    BY DEF Reports, StagingFails, ReportPartial, Classify, ReportExisting, CreatedFinishFails,
       ReplacedHandleFails, ReplacedFails, Reinspect, RestoreFails, UnlinkMismatch, RemoveFails,
       CompareConflicts, CreationIndeterminate, RestoreSync
  <1>3. ~ Call(o)
    BY <1>2, Apart DEF StepHypotheses
  <1>. QED BY <1>0, <1>1, <1>3, ReturnExact DEF StepHypotheses

(* The three answers that confirm.                                         *)
LEMMA ConfirmExact ==
  ASSUME NEW o \in Ops, StepHypotheses(o), CreatedSync(o) \/ ReplacedRetire(o) \/ UnlinkSync(o)
  PROVE  ExactInv'
  <1>0. /\ TypeInv /\ TypeInv' /\ KeptInv /\ EffectInv /\ ExactInv /\ StampsOK' /\ Frame(o)
        /\ ExactOK(o)
    BY DEF StepHypotheses, ExactInv
  <1>1. pc[o] \in {"createdSync", "replacedRetire", "unlinkSync"}
    BY DEF CreatedSync, ReplacedRetire, UnlinkSync
  <1>2. ~ Mutation(o) /\ ~ Call(o)
    BY <1>0, <1>1, Apart
  <1>3. CASE CreatedSync(o)
    <2>1. effect[o] = {request[o].expected} /\ seen[o].bytes = request[o].bytes
      BY <1>0, <1>3 DEF CreatedSync, ExactOK, Creating, Observed
    <2>2. Return(o, "committed", seen[o], {Recovery(o)})
      BY <1>3 DEF CreatedSync
    <2>. QED BY <1>0, <1>2, <2>1, <2>2, ReturnExact
  <1>4. CASE ReplacedRetire(o)
    <2>1. effect[o] = {request[o].expected} /\ seen[o].bytes = request[o].bytes
      BY <1>0, <1>4 DEF ReplacedRetire, ExactOK, Compared, WriteLabels
    <2>2. Return(o, "committed", seen[o], {Displaced(o)})
      BY <1>4 DEF ReplacedRetire
    <2>. QED BY <1>0, <1>2, <2>1, <2>2, ReturnExact
  <1>5. CASE UnlinkSync(o)
    <2>1. effect[o] = {request[o].expected}
      BY <1>0, <1>5 DEF UnlinkSync, ExactOK
    <2>2. Return(o, "deleted", Nothing, {})
      BY <1>5 DEF UnlinkSync
    <2>. QED BY <1>0, <1>2, <2>1, <2>2, ReturnExact
  <1>. QED BY <1>3, <1>4, <1>5

LEMMA CheckExact ==
  ASSUME NEW o \in Ops, StepHypotheses(o),
         \/ CheckParent(o) \/ CreatedCheckParent(o) \/ ReplacedCheckParent(o)
         \/ Inspect(o) \/ Assess(o)
  PROVE  ExactInv'
  <1>0. /\ TypeInv /\ TypeInv' /\ KeptInv /\ EffectInv /\ ExactInv /\ StampsOK' /\ Frame(o)
        /\ ExactOK(o)
    BY DEF StepHypotheses, ExactInv
  <1>1. pc[o] \in {"parent", "created", "replacedParent", "inspect", "assess"}
    BY DEF CheckParent, CreatedCheckParent, ReplacedCheckParent, Inspect, Assess, Goto
  <1>. DEFINE Advances ==
         \E from, to : /\ Goto(o, from, to) /\ Quiet /\ UNCHANGED local
                       /\ <<from, to>> \in {<<"parent", "revalidate">>, <<"created", "createdHandle">>,
                            <<"replacedParent", "replacedHandle">>, <<"replacedParent", "replacedNew">>,
                            <<"inspect", "quarantine">>, <<"assess", "restore">>}
       Denies == \E k, v, r : Return(o, k, v, r) /\ k \notin {"committed", "deleted"}
  <1>2. Advances \/ Denies
    <2>1. ASSUME NEW known, NEW image, ParentChanged(o, known, image) PROVE Denies
      BY <2>1 DEF ParentChanged
    <2>2. CASE CheckParent(o)
      BY <2>1, <2>2 DEF CheckParent
    <2>3. CASE CreatedCheckParent(o)
      BY <2>1, <2>3 DEF CreatedCheckParent
    <2>4. CASE ReplacedCheckParent(o)
      <3>1. CASE Quiet /\ UNCHANGED local /\ \E to \in {"replacedHandle", "replacedNew"} :
                   Goto(o, "replacedParent", to)
        BY <3>1
      <3>. QED BY <2>1, <2>4, <3>1 DEF ReplacedCheckParent
    <2>5. CASE Inspect(o)
      BY <2>5 DEF Inspect, ReturnPure
    <2>6. CASE Assess(o)
      BY <2>6 DEF Assess, ReturnPure
    <2>. QED BY <2>2, <2>3, <2>4, <2>5, <2>6
  <1>3. CASE \E k, v, r : Return(o, k, v, r) /\ k \notin {"committed", "deleted"}
    BY <1>1, <1>3, DenialExact
  <1>4. ASSUME NEW from, NEW to, Goto(o, from, to), Quiet, UNCHANGED local,
               <<from, to>> \in {<<"parent", "revalidate">>, <<"created", "createdHandle">>,
                              <<"replacedParent", "replacedHandle">>, <<"replacedParent", "replacedNew">>,
                              <<"inspect", "quarantine">>, <<"assess", "restore">>}
        PROVE  ExactInv'
    <2>1. pc[o] = from /\ pc'[o] = to
      BY <1>0, <1>4, Parts DEF Goto, ControlOK
    <2>2. ~ Mutation(o) /\ ~ Call(o)
      BY <1>0, <1>1, Apart
    <2>3. /\ to \in Tracked => from \in Tracked
          /\ to \in Creating => from \in Creating
          /\ to \notin Observed \union Compared \union {"unlinkSync"}
          /\ to \in WriteLabels => from \in WriteLabels \ {"stage"}
          /\ from # "done"
      BY <1>4 DEF Tracked, Creating, Observed, Compared, WriteLabels
    <2>4. to \in WriteLabels => staged'[o].bytes = request[o].bytes
      BY <1>0, <1>4, <2>1, <2>3 DEF ExactOK, local
    <2>5. reply' = reply
      BY <1>4 DEF Quiet
    <2>. QED BY ONLY <1>0, <1>4, <2>2, <2>3, <2>4, <2>5, GotoExact
  <1>. QED BY <1>2, <1>3, <1>4

LEMMA MutationExact ==
  ASSUME NEW o \in Ops, StepHypotheses(o), Mutation(o)
  PROVE  ExactInv'
  <1>0. /\ TypeInv /\ TypeInv' /\ KeptInv /\ EffectInv /\ ExactInv /\ StampsOK' /\ Frame(o)
        /\ ExactOK(o) /\ EffectOK(o)
    BY DEF StepHypotheses, ExactInv, EffectInv
  <1>1. /\ UNCHANGED <<request, reply, staged, seen, data, born, here>>
        /\ pc[o] \in {"install", "quarantine", "restore"}
    BY DEF Mutation, InstallAbsent, Replace, Mutates, ReplacePartially, MoveToQuarantine, Restore,
       Goto, local
  <1>2. reply'[o] = Nothing
    BY <1>0, <1>1 DEF EffectOK
  <1>3. Dated(o)'
    BY <1>0, <1>1, OwnDated
  <1>4. pc'[o] \in WriteLabels => staged'[o].bytes = request[o].bytes
    <2>1. pc'[o] \in WriteLabels => pc[o] = "install"
      BY <1>0, Parts DEF Mutation, InstallAbsent, Replace, Mutates, ReplacePartially,
         MoveToQuarantine, Restore, Goto, WriteLabels, ControlOK
    <2>2. "install" \in WriteLabels \ {"stage"}
      BY DEF WriteLabels
    <2>. QED BY <1>0, <1>1, <2>1, <2>2 DEF ExactOK
  <1>5. ASSUME NEW from \in {Dest}, NEW to \in Leaves, to # Dest, pc[o] \in {"install", "quarantine"},
               effect'[o] = {Capture(Dest)}, Taken(o) = to, names[here][Dest] # Nothing,
               \A d \in Dirs : names'[d][to] = IF d = here THEN names[here][Dest] ELSE names[d][to]
        PROVE  TakenOK(o)'
    <2>1. TakenOK(o) /\ effect[o] = {}
      BY <1>0, <1>5 DEF ExactOK, EffectOK, Clean, Tracked, UntouchedLabels
    <2>2. \A x : VersionOf(x)' = VersionOf(x)
      BY <1>1 DEF VersionOf
    <2>3. Taken(o)' = to
      BY <1>1, <1>5 DEF Taken, Displaced, Staged, Quarantine
    <2>4. Capture(Dest) = VersionOf(names[here][Dest])
      BY <1>5 DEF Capture
    <2>. QED BY <1>1, <1>5, <2>1, <2>3, <2>4 DEF TakenOK, VersionOf
  <1>6. CASE InstallAbsent(o)
    <2>1. pc'[o] = "created" /\ effect'[o] = {Capture(Dest)} /\ request[o].expected = Nothing
          /\ Capture(Dest) = Nothing
      BY <1>0, <1>6, Parts DEF InstallAbsent, Mutates, Goto, ControlOK, NamesOK, Capture
    <2>2. ExactOK(o)'
      BY <1>1, <1>2, <1>3, <1>4, <2>1
         DEF ExactOK, Answered, Tracked, Creating, Observed, Compared
    <2>. QED BY <1>0, <2>2, OthersExact DEF ExactInv
  <1>7. CASE Replace(o)
    <2>1. pc[o] = "install" /\ pc'[o] = "replaced" /\ effect'[o] = {Capture(Dest)}
          /\ names[here][Dest] # Nothing
      BY <1>0, <1>7, Parts DEF Replace, Mutates, Goto, ControlOK, NamesOK
    <2>2. Taken(o) = Displaced(o)
      BY <1>0, <2>1, Parts DEF Taken, ControlOK, RequestOK, WriteLabels
    <2>3. \A d \in Dirs : names'[d][Displaced(o)] =
                            IF d = here THEN names[here][Dest] ELSE names[d][Displaced(o)]
      BY <1>0, <1>7, ReplaceNames, RoleApart
    <2>4. TakenOK(o)'
      BY <1>5, <2>1, <2>2, <2>3, RoleApart
    <2>5. ExactOK(o)'
      BY <1>1, <1>2, <1>3, <1>4, <2>1, <2>4
         DEF ExactOK, Answered, Tracked, Creating, Observed, Compared
    <2>. QED BY <1>0, <2>5, OthersExact DEF ExactInv
  <1>8. CASE MoveToQuarantine(o)
    <2>1. pc[o] = "quarantine" /\ pc'[o] = "quarantineSync" /\ effect'[o] = {Capture(Dest)}
          /\ names[here][Dest] # Nothing
      BY <1>0, <1>8, Parts DEF MoveToQuarantine, Goto, ControlOK, NamesOK
    <2>2. Taken(o) = Quarantine(o)
      BY <1>0, <2>1, Parts DEF Taken, ControlOK, RequestOK, RemoveLabels
    <2>3. \A d \in Dirs : names'[d][Quarantine(o)] =
                            IF d = here THEN names[here][Dest] ELSE names[d][Quarantine(o)]
      BY <1>0, <1>8, MoveNames, RoleApart DEF MovesTo
    <2>4. TakenOK(o)'
      BY <1>5, <2>1, <2>2, <2>3, RoleApart
    <2>5. ExactOK(o)'
      BY <1>1, <1>2, <1>3, <2>1, <2>4
         DEF ExactOK, Answered, WriteLabels, Creating, Observed, Compared
    <2>. QED BY <1>0, <2>5, OthersExact DEF ExactInv
  <1>9. CASE ReplacePartially(o) \/ Restore(o)
    <2>1. pc'[o] \in {"partial", "restoreSync"}
      BY <1>0, <1>9, Parts DEF ReplacePartially, Restore, Goto, ControlOK
    <2>2. ExactOK(o)'
      BY <1>1, <1>2, <1>3, <1>4, <2>1
         DEF ExactOK, Answered, Tracked, Creating, Observed, Compared
    <2>. QED BY <1>0, <2>2, OthersExact DEF ExactInv
  <1>. QED BY <1>6, <1>7, <1>8, <1>9 DEF Mutation

LEMMA ArriveExact ==
  ASSUME NEW o \in Ops, StepHypotheses(o), Call(o) \/ Acquire(o)
  PROVE  ExactInv'
  <1>0. /\ TypeInv /\ TypeInv' /\ KeptInv /\ EffectInv /\ ExactInv /\ StampsOK' /\ Frame(o)
        /\ ExactOK(o) /\ EffectOK(o)
    BY DEF StepHypotheses, ExactInv, EffectInv
  <1>1. UNCHANGED <<names, data, born, foreign, here, effect, reply, staged, seen>>
        /\ pc[o] \in {"idle", "waiting"} /\ pc'[o] \in {"waiting", "stage", "inspect"}
        /\ reply'[o] = Nothing
    BY <1>0, Parts DEF Call, Acquire, ns, bounds, ControlOK, EffectOK
  <1>2. CASE Acquire(o)
    <2>1. request' = request /\ pc[o] = "waiting"
      BY <1>2 DEF Acquire
    <2>2. ~ Mutation(o) /\ ~ Call(o)
      BY <1>0, <2>1, Apart
    <2>3. Dated(o)' /\ TakenOK(o)'
      BY <1>0, <2>1, <2>2, OwnDated, OwnTaken DEF ExactOK, Tracked
    <2>4. ExactOK(o)'
      BY <1>1, <2>3 DEF ExactOK, Answered, WriteLabels, Creating, Observed, Compared
    <2>. QED BY <1>0, <2>4, OthersExact DEF ExactInv
  <1>3. CASE Call(o)
    <2>1. request'[o].expected \in {Capture(Dest), Nothing} /\ pc[o] = "idle"
      BY <1>0, <1>3, Parts DEF Call, ControlOK
    <2>2. Dated(o)'
      <3>1. CASE names[here][Dest] = Nothing
        BY <1>1, <2>1, <3>1 DEF Dated, Capture
      <3>2. CASE names[here][Dest] # Nothing
        <4>. DEFINE x == names[here][Dest]
        <4>1. x \in Objects /\ x \in 1..born
          BY <1>0, <3>2, NothingIsNoFile, FreshNow, LeafNames, Parts
             DEF NamesOK, Namespaces, Optional
        <4>2. Capture(Dest).object = x /\ Capture(Dest).stamp = data[x].stamp
          BY <3>2 DEF Capture, VersionOf
        <4>3. data[x].stamp <= foreign /\ x <= born
          BY <1>0, <4>1 DEF ExactInv, StampsOK
        <4>. QED BY <1>1, <2>1, <4>2, <4>3 DEF Dated
      <3>. QED BY <3>1, <3>2
    <2>3. TakenOK(o)'
      <3>1. Unused(o, Image)
        BY <1>0, <2>1 DEF KeptInv, KeptNow, ImageOK
      <3>2. Taken(o)' \in {<<"staged", o>>, <<"displaced", o>>, <<"quarantine", o>>}
        BY DEF Taken, Displaced, Staged, Quarantine
      <3>3. \A d \in Dirs : names'[d][Taken(o)'] = Nothing
        BY <1>1, <3>1, <3>2 DEF Unused, Image, Roles
      <3>. QED BY <3>3 DEF TakenOK
    <2>4. ExactOK(o)'
      BY <1>1, <2>2, <2>3 DEF ExactOK, Answered, WriteLabels, Creating, Observed, Compared
    <2>. QED BY <1>0, <2>4, OthersExact DEF ExactInv
  <1>. QED BY <1>2, <1>3

(* Other programs stamp what they write with a new stamp.                  *)
LEMMA ForeignFiles ==
  ASSUME TypeInv, ForeignWrites \/ ForeignReplaces \/ ForeignRemoves \/ SwapParent
  PROVE  /\ foreign' = foreign + 1 /\ foreign \in Nat
         /\ born' \in Nat /\ born' >= born
         /\ \A x \in Objects : data'[x] = data[x] \/ data'[x].stamp = foreign + 1
         /\ \A x \in 1..born : data'[x] # data[x] =>
              \E l \in {Dest} \union Private : names[here][l] = x
         /\ \A d \in Dirs, l \in Leaves :
              \/ names'[d][l] = names[d][l]
              \/ /\ l = Dest \/ (lock # NoOp /\ l = Staged(lock))
                 /\ names'[d][l] = Nothing \/ names'[d][l] \in (born + 1)..born'
         /\ UNCHANGED <<request, home, place, handle, staged, seen, saved, losses, lock, pc, reply,
                        effect, destroyed>>
         /\ strayed \subseteq strayed' /\ DiskStep
  <1>1. /\ foreign' = foreign + 1 /\ foreign \in Nat /\ born \in Nat
        /\ UNCHANGED <<request, home, place, handle, staged, seen, saved, losses, lock, pc, reply,
                       effect, destroyed>>
    BY Parts, BoundAssumption DEF ForeignWrites, ForeignReplaces, ForeignRemoves, SwapParent,
       Foreign, local, FilesOK
  <1>2. Dest \in Leaves /\ (lock # NoOp => Staged(lock) \in Leaves)
    BY LeafNames, NothingIsNoFile DEF Leaves, Staged, Roles
  <1>3. CASE ForeignWrites
    <2>1. PICK l \in {Dest} \union Private, b \in Images :
            data' = [data EXCEPT ![names[here][l]] = [bytes |-> b, stamp |-> foreign + 1, dir |-> here]]
      BY <1>3 DEF ForeignWrites
    <2>2. \A x \in Objects : \/ data'[x] = data[x]
                             \/ data'[x].stamp = foreign + 1 /\ names[here][l] = x
      <3>. DEFINE y == names[here][l]
      <3>1. data' = [data EXCEPT ![y] = [bytes |-> b, stamp |-> foreign + 1, dir |-> here]]
        BY <2>1
      <3>. HIDE DEF y
      <3>2. \A x \in Objects : \/ data'[x] = data[x]
                               \/ data'[x].stamp = foreign + 1 /\ y = x
        BY <3>1, Parts DEF FilesOK
      <3>. QED BY <3>2 DEF y
    <2>3. 1..born \subseteq Objects
      BY Parts, BoundAssumption DEF FilesOK, Objects
    <2>4. UNCHANGED <<names, born, onDisk>>
      BY <1>3 DEF ForeignWrites
    <2>5. strayed' = strayed /\ DiskStep
      BY <1>3, SameDisk DEF ForeignWrites
    <2>. QED BY <1>1, <2>2, <2>3, <2>4, <2>5
  <1>4. CASE ForeignReplaces
    <2>1. PICK l \in {Dest} \union (IF lock = NoOp THEN {} ELSE {Staged(lock)}), b \in Images :
            /\ Bind(l, born + 1)
            /\ data' = [data EXCEPT ![born + 1] = [bytes |-> b, stamp |-> foreign + 1, dir |-> here]]
      BY <1>4 DEF ForeignReplaces
    <2>2. born' = born + 1 /\ DiskStep /\ strayed' = strayed
      BY <1>4, HereDisk DEF ForeignReplaces
    <2>3. \A x \in Objects : data'[x] = data[x] \/ (x = born + 1 /\ data'[x].stamp = foreign + 1)
      BY <2>1, Parts DEF FilesOK
    <2>4. l \in Leaves
      BY <1>2, <2>1
    <2>5. \A d \in Dirs, m \in Leaves :
            names'[d][m] = IF d = here /\ m = l THEN born + 1 ELSE names[d][m]
      BY <2>1, <2>4, BindAt
    <2>6. 1..born \subseteq Objects /\ born + 1 \notin 1..born /\ born + 1 \in (born + 1)..born'
      BY <1>1, <2>2, Parts, BoundAssumption DEF FilesOK, Objects
    <2>. QED BY <1>1, <2>1, <2>2, <2>3, <2>5, <2>6
  <1>5. CASE ForeignRemoves
    <2>1. PICK l \in {Dest} \union (IF lock = NoOp THEN {} ELSE {Staged(lock)}) : Bind(l, Nothing)
      BY <1>5 DEF ForeignRemoves
    <2>2. UNCHANGED <<data, born, strayed>> /\ DiskStep
      BY <1>5, HereDisk DEF ForeignRemoves
    <2>3. \A d \in Dirs, m \in Leaves :
            names'[d][m] = IF d = here /\ m = l THEN Nothing ELSE names[d][m]
      BY <1>2, <2>1, BindAt
    <2>. QED BY <1>1, <2>1, <2>2, <2>3
  <1>6. CASE SwapParent
    BY <1>1, <1>6, SameDisk DEF SwapParent
  <1>. QED BY <1>3, <1>4, <1>5, <1>6

LEMMA ForeignExact ==
  ASSUME TypeInv, TypeInv', KeptInv, ExactInv,
         ForeignWrites \/ ForeignReplaces \/ ForeignRemoves \/ SwapParent
  PROVE  ExactInv'
  <1>1. StampsOK'
    <2>1. \A x \in Objects : data[x].stamp \in Nat
      BY Parts, BoundAssumption DEF FilesOK
    <2>. QED BY <2>1, ForeignFiles DEF ExactInv, StampsOK
  <1>2. 1..born \subseteq Objects /\ born \in Nat
    BY Parts, BoundAssumption DEF FilesOK, Objects
  <1>3. ASSUME NEW p \in Ops PROVE ExactOK(p)'
    <2>1. ExactOK(p)
      BY DEF ExactInv
    <2>2. \A x \in 1..born : data'[x] = data[x] \/ data'[x].stamp > foreign
      BY <1>2, ForeignFiles
    <2>3. Taken(p) \in Leaves
      BY LeafType DEF Taken
    <2>4. \A d \in Dirs :
            names'[d][Taken(p)] \in {Nothing, names[d][Taken(p)]} \union ((born + 1)..born')
      BY <2>3, ForeignFiles
    <2>5. TakenOK(p) => TakenOK(p)'
      BY <2>1, <2>2, <2>4, ForeignFiles, TakenKept, TakenBound DEF ExactOK
    <2>. QED BY <1>2, <2>1, <2>5, ForeignFiles, StaysExact DEF ExactOK
  <1>. QED BY <1>1, <1>3 DEF ExactInv

LEMMA PowerLossExact ==
  ASSUME TypeInv, EffectInv, SettledInv, ExactInv, PowerLoss
  PROVE  ExactInv'
  <1>1. Platform = "unix"
    BY Parts, PlatformAssumption, PowerLossAssumption DEF PowerLoss, FilesOK
  <1>2. PICK image \in onDisk : effect' = image.effect
    BY DEF PowerLoss
  <1>3. UNCHANGED <<request, staged, seen, foreign, strayed, data, born>> /\ losses' > 0
    BY Parts, BoundAssumption DEF PowerLoss, local, FilesOK
  <1>4. ASSUME NEW p \in Ops PROVE ExactOK(p)'
    <2>1. ExactOK(p) /\ EffectOK(p) /\ SettledOK(p)
      BY DEF ExactInv, EffectInv, SettledInv
    <2>2. pc'[p] \in {"idle", "done"}
          /\ (reply'[p] = reply[p] \/ reply'[p] = [kind |-> "died", version |-> Nothing, recovery |-> {}])
      BY DEF PowerLoss
    <2>3. Dated(p)'
      BY <1>3, <2>1 DEF ExactOK, Dated
    <2>4. Answered(p, {"committed", "deleted"})' =>
            effect'[p] = {request[p].expected} \/ Adrift(p)'
      <3>1. SUFFICES ASSUME Answered(p, {"committed", "deleted"})', ~ Adrift(p)'
                     PROVE  effect'[p] = {request[p].expected}
        OBVIOUS
      <3>0. ~ Adrift(p)
        BY <1>3, <3>1, AdriftStays
      <3>2. Answered(p, {"committed", "deleted"})
        BY <2>2, <3>1 DEF Answered
      <3>3. image.effect[p] = effect[p]
        BY <1>1, <1>2, <2>1, <3>0, <3>2 DEF SettledOK, Settled
      <3>. QED BY <1>2, <2>1, <3>0, <3>2, <3>3 DEF ExactOK
    <2>5. Answered(p, {"committed"})' => reply'[p].version.bytes = request[p].bytes
      BY <2>1, <2>2 DEF ExactOK, Answered
    <2>. QED BY <1>3, <2>2, <2>3, <2>4, <2>5
             DEF ExactOK, Tracked, WriteLabels, Creating, Observed, Compared
  <1>5. StampsOK'
    BY <1>3 DEF ExactInv, StampsOK
  <1>. QED BY <1>4, <1>5 DEF ExactInv

LEMMA StutterExact ==
  ASSUME TypeInv, ExactInv, UNCHANGED vars PROVE ExactInv'
  <1>1. UNCHANGED <<names, data, born, foreign, losses, strayed, effect, request, staged, seen, pc, reply>>
    BY DEF vars, ns, local, bounds
  <1>2. ASSUME NEW p \in Ops PROVE ExactOK(p)'
    <2>1. ExactOK(p)
      BY DEF ExactInv
    <2>2. TakenOK(p) => TakenOK(p)'
      BY <1>1 DEF TakenOK, Taken, VersionOf, Displaced, Staged, Quarantine
    <2>3. Dated(p)'
      BY <1>1, <2>1 DEF ExactOK, Dated
    <2>. QED BY <1>1, <2>1, <2>2, <2>3, AdriftStays DEF ExactOK, Answered
  <1>. QED BY <1>1, <1>2 DEF ExactInv, StampsOK

LEMMA ExactInitial ==
  ASSUME Init PROVE ExactInv
  <1>1. ASSUME NEW o \in Ops PROVE ExactOK(o)
    BY DEF Init, ExactOK, Dated, Answered, Tracked, WriteLabels, Creating, Observed, Compared
  <1>. QED BY <1>1 DEF Init, ExactInv, StampsOK

LEMMA ExactStep ==
  ASSUME TypeInv, TypeInv', KeptInv, EffectInv, SettledInv, ExactInv, [Next]_vars
  PROVE  ExactInv'
  <1>1. ASSUME NEW o \in Ops, Call(o) \/ OpStep(o) PROVE StepHypotheses(o)
    BY <1>1, StampsKept, StepFrame DEF StepHypotheses, ExactInv
  <1>2. ASSUME NEW o \in Ops, WriteStep(o) PROVE ExactInv'
    <2>1. StepHypotheses(o)
      BY <1>1, <1>2 DEF OpStep
    <2>. QED BY <1>2, <2>1, StillWriteExact, WriteExact, ReportsExact, ConfirmExact, CheckExact,
                MutationExact DEF WriteStep, StillWrite, Reports, Mutation
  <1>3. ASSUME NEW o \in Ops, RemoveStep(o) PROVE ExactInv'
    <2>1. StepHypotheses(o)
      BY <1>1, <1>3 DEF OpStep
    <2>. QED BY <1>3, <2>1, RemoveExact, ReportsExact, ConfirmExact, CheckExact, MutationExact
             DEF RemoveStep, StillRemove, Reports, Mutation
  <1>4. ASSUME NEW o \in Ops, Call(o) \/ Acquire(o) PROVE ExactInv'
    BY <1>1, <1>4, ArriveExact DEF OpStep
  <1>5. CASE Environment
    BY <1>5, ForeignExact, PowerLossExact DEF Environment
  <1>6. CASE UNCHANGED vars
    BY <1>6, StutterExact
  <1>. QED BY <1>2, <1>3, <1>4, <1>5, <1>6 DEF Next, OpStep

(* The invariant of everything below.                                      *)
BaseInv ==
  TypeInv /\ PlacedInv /\ KeptInv /\ HomeInv /\ EffectInv /\ SettledInv /\ ExactInv

LEMMA BaseInitial == Init => BaseInv
  BY TypeInitial, PlacedInitial, KeptInitial, HomeInitial, EffectInitial, ExactInitial
     DEF BaseInv, Init, SettledInv, SettledOK, Settled

LEMMA BaseStep == BaseInv /\ [Next]_vars => BaseInv'
  BY TypeStep, PlacedStep, KeptStep, HomeStep, EffectStep, SettledStep, ExactStep DEF BaseInv

(* A confirmed commit displaced exactly the version its caller expected    *)
(* and reports a version with its bytes; a confirmed deletion removed      *)
(* exactly that version: whatever other programs write, rename or swap     *)
(* between the calls of durable_write and durable_remove_exact.  Only a    *)
(* power loss after a missed synchronization undoes it.                    *)
THEOREM ExactCorrect == Spec => []ConfirmedIsExact
  <1>1. Init => BaseInv
    BY BaseInitial
  <1>2. BaseInv /\ [Next]_vars => BaseInv'
    BY BaseStep
  <1>3. BaseInv => ConfirmedIsExact
    BY DEF BaseInv, ExactInv, ExactOK, ConfirmedIsExact
  <1>4. QED
    BY <1>1, <1>2, <1>3, PTL DEF Spec

(* The same with the files that a call displaces, on both platforms: the   *)
(* halves of a failed ReplaceFileW lose nothing and confirm nothing.       *)
THEOREM FilesCorrect == Spec => []FilesAreKept
  <1>1. Spec => []ConfirmedIsExact
    BY ExactCorrect
  <1>2. Spec => []NoDocumentLost
    BY DocumentKept
  <1>3. ConfirmedIsExact /\ NoDocumentLost => FilesAreKept
    BY DEF FilesAreKept
  <1>4. QED
    BY <1>1, <1>2, <1>3, PTL

-------------------------------------------------------------------------------
(* No call destroys a version that nobody expected.                        *)

(* Where a call is when it takes a step of a write.                        *)
LEMMA WriteLabel ==
  ASSUME NEW o \in Ops, WriteStep(o)
  PROVE  pc[o] \in WriteLabels
  <1>1. CASE StillWrite(o)
    BY <1>1 DEF StillWrite, RetainSync, CompareMatches, CheckStaged, CheckStagedFails,
       InstallFindsFile, InstallFails, CreatedCheckHandle, CreatedObserve, SaveDisplacedBytes,
       ReplacedCheckHandle, ReplacedObserveNew, ReplacedCompare, ReplacedSync, ReplacedBind, Goto,
       WriteLabels
  <1>2. CASE \/ StagingFails(o) \/ ReportPartial(o) \/ Classify(o) \/ ReportExisting(o)
             \/ CreatedFinishFails(o) \/ ReplacedHandleFails(o) \/ ReplacedFails(o)
    BY <1>2 DEF StagingFails, ReportPartial, Classify, ReportExisting, CreatedFinishFails,
       ReplacedHandleFails, ReplacedFails, WriteLabels
  <1>3. CASE \/ Stage(o) \/ Retain(o) \/ RetainSync(o) \/ CreatedSync(o) \/ ReplacedRetire(o)
             \/ CheckParent(o) \/ CreatedCheckParent(o) \/ ReplacedCheckParent(o)
    BY <1>3 DEF Stage, Retain, RetainSync, CreatedSync, ReplacedRetire, CheckParent,
       CreatedCheckParent, ReplacedCheckParent, Goto, WriteLabels
  <1>4. CASE Retires(o) \/ InstallAbsent(o) \/ Replace(o) \/ ReplacePartially(o)
    BY <1>4 DEF Retires, CompareConflicts, CreationIndeterminate, CreatedRetireAlias,
       InstallAbsent, Replace, Mutates, ReplacePartially, Goto, WriteLabels
  <1>. QED BY <1>1, <1>2, <1>3, <1>4 DEF WriteStep, StillWrite, Retires

(* A call past its unlink can only end.                                    *)
LEMMA UnlinkedEnds ==
  ASSUME TypeInv, NEW o \in Ops, Call(o) \/ OpStep(o), pc[o] \in {"unlinkSync", "done"}
  PROVE  pc'[o] = "done" /\ ~ Call(o) /\ ~ Mutation(o)
  <1>1. ~ Call(o) /\ ~ Mutation(o)
    BY Apart
  <1>2. ~ Acquire(o) /\ ~ WriteStep(o)
    BY WriteLabel DEF Acquire, WriteLabels
  <1>3. \/ UnlinkSync(o)
        \/ ReturnPure(o, "indeterminate", Nothing, {})
        \/ ReturnPure(o, "indeterminate", Nothing, {Quarantine(o)})
    BY <1>1, <1>2 DEF OpStep, RemoveStep, Inspect, MoveFails, Reinspect, QuarantineSync, Examine,
       Assess, RestoreFails, RestoreSync, Unlink, UnlinkMismatch, RemoveFails, Mutation, Goto
  <1>. QED BY <1>1, <1>3, Parts DEF UnlinkSync, ReturnPure, Return, ControlOK

(* It unlinked the file in the directory in which it had taken it, so the  *)
(* two are undone together.                                                *)
Unlinked(o, v) ==
  /\ pc[o] \in {"unlinkSync", "done"}
  /\ request[o].kind = "remove" /\ request[o].expected = v
  /\ Platform = "unix" => v.object \in 1..born /\ data[v.object].dir = place[o]

(* In every directory a power loss may bring back.                         *)
DestroyedOK(s) == \A v \in s.destroyed : \E o \in Ops : Unlinked(o, v) /\ s.effect[o] = {v}

DestroyedInv ==
  /\ DestroyedOK(Image)
  /\ Platform = "unix" => \A s \in onDisk : DestroyedOK(s)

LEMMA DestroyedKept ==
  ASSUME NEW s, DestroyedOK(s), \A p \in Ops : \A v : Unlinked(p, v) => Unlinked(p, v)'
  PROVE  \A v \in s.destroyed : \E p \in Ops : Unlinked(p, v)' /\ s.effect[p] = {v}
  BY DEF DestroyedOK

LEMMA DestroyedNow ==
  ASSUME DestroyedInv
  PROVE  \A v \in destroyed : \E o \in Ops : Unlinked(o, v) /\ effect[o] = {v}
  <1>1. DestroyedOK(Image)
    BY DEF DestroyedInv
  <1>. QED BY <1>1 DEF DestroyedOK, Image

LEMMA DestroyedMixed ==
  ASSUME Platform = "unix", NEW s, NEW D, DestroyedOK(s)', DestroyedOK(Image)'
  PROVE  DestroyedOK(Current(s, D))'
  <1>. DEFINE t == Current(s, D)'
  <1>1. /\ \A o \in Ops : t.effect[o] = IF place'[o] \in D THEN effect'[o] ELSE s.effect[o]
        /\ t.destroyed = {v \in s.destroyed : data'[v.object].dir \notin D}
                           \union {v \in destroyed' : data'[v.object].dir \in D}
    BY DEF Current
  <1>. HIDE DEF t
  <1>2. ASSUME NEW v \in t.destroyed PROVE \E o \in Ops : Unlinked(o, v)' /\ t.effect[o] = {v}
    <2>1. CASE v \in s.destroyed /\ data'[v.object].dir \notin D
      <3>1. PICK o \in Ops : Unlinked(o, v)' /\ s.effect[o] = {v}
        BY <2>1 DEF DestroyedOK
      <3>2. place'[o] = data'[v.object].dir
        BY <3>1 DEF Unlinked
      <3>. QED BY <1>1, <2>1, <3>1, <3>2
    <2>2. CASE v \in destroyed' /\ data'[v.object].dir \in D
      <3>1. PICK o \in Ops : Unlinked(o, v)' /\ effect'[o] = {v}
        BY <2>2 DEF DestroyedOK, Image
      <3>2. place'[o] = data'[v.object].dir
        BY <3>1 DEF Unlinked
      <3>. QED BY <1>1, <2>2, <3>1, <3>2
    <2>. QED BY <1>1, <2>1, <2>2
  <1>. QED BY <1>2 DEF DestroyedOK, t

LEMMA DestroyedDisk ==
  ASSUME DestroyedInv, DiskStep, DestroyedOK(Image)',
         \A p \in Ops : \A v : Unlinked(p, v) => Unlinked(p, v)'
  PROVE  DestroyedInv'
  <1>. SUFFICES ASSUME Platform = "unix", NEW t \in onDisk' PROVE DestroyedOK(t)'
    BY DEF DestroyedInv
  <1>1. ASSUME NEW s \in onDisk PROVE DestroyedOK(s)'
    BY DestroyedKept DEF DestroyedInv, DestroyedOK
  <1>2. CASE t \in onDisk
    BY <1>1, <1>2
  <1>3. CASE t \notin onDisk
    <2>1. PICK s \in onDisk : \E D : t = Current(s, D)'
      BY <1>3 DEF DiskStep
    <2>2. PICK D : t = Current(s, D)'
      BY <2>1
    <2>3. DestroyedOK(Current(s, D))'
      BY <1>1, DestroyedMixed
    <2>. QED BY <2>2, <2>3 DEF DestroyedOK
  <1>. QED BY <1>2, <1>3

LEMMA DestroyedCallStep ==
  ASSUME BaseInv, BaseInv', DestroyedInv, NEW o \in Ops, Call(o) \/ OpStep(o)
  PROVE  DestroyedInv'
  <1>0. TypeInv /\ TypeInv' /\ PlacedInv /\ HomeInv /\ ExactInv' /\ Frame(o) /\ FilesStay
    BY StepFrame, PlacedCallStep DEF BaseInv, OrdinaryStep
  <1>1. ASSUME NEW p \in Ops, NEW v, Unlinked(p, v)
        PROVE  Unlinked(p, v)' /\ effect'[p] = effect[p]
    <2>0. v.object \in 1..born => v.object \in 1..born' /\ data'[v.object].dir = data[v.object].dir
      BY <1>0 DEF FilesStay
    <2>1. CASE p # o
      BY <1>0, <1>1, <2>0, <2>1 DEF Frame, Unlinked
    <2>2. CASE p = o
      BY <1>0, <1>1, <2>0, <2>2, UnlinkedEnds DEF Frame, Unlinked
    <2>. QED BY <2>1, <2>2
  <1>5. \A v \in destroyed : \E p \in Ops : Unlinked(p, v) /\ effect[p] = {v}
    BY DestroyedNow
  <1>2. DestroyedOK(Image)'
    <2>1. ASSUME NEW v \in destroyed PROVE \E p \in Ops : Unlinked(p, v)' /\ effect'[p] = {v}
      <3>1. PICK p \in Ops : Unlinked(p, v) /\ effect[p] = {v}
        BY <1>5
      <3>. QED BY <1>1, <3>1
    <2>2. CASE destroyed' = destroyed
      BY <2>1, <2>2 DEF DestroyedOK, Image
    <2>3. CASE Unlink(o)
      <3>1. /\ destroyed' = destroyed \union {request[o].expected}
            /\ pc[o] = "unlink" /\ pc'[o] = "unlinkSync" /\ request' = request
        BY <1>0, <2>3, Parts DEF Unlink, Goto, IsDisplacedVersionOf, ControlOK, local
      <3>2. request[o].kind = "remove"
        BY <1>0, <3>1, Parts DEF ControlOK, RequestOK, RemoveLabels
      <3>3. effect'[o] = {request'[o].expected}
        BY <1>0, <3>1 DEF ExactInv, ExactOK
      <3>4. Unlinked(o, request[o].expected)'
        <4>1. /\ names[here][Quarantine(o)] # Nothing /\ UNCHANGED <<data, born, place>>
              /\ request[o].expected = VersionOf(names[here][Quarantine(o)])
          BY <2>3 DEF Unlink, IsDisplacedVersionOf, Capture, local
        <4>2. here \in Dirs /\ Quarantine(o) \in Leaves
          BY <1>0, LeafType, NothingIsNoFile
        <4>3. /\ names[here][Quarantine(o)] \in 1..born
              /\ data[names[here][Quarantine(o)]].dir = here
          BY <1>0, <4>1, <4>2 DEF PlacedInv, Placed
        <4>4. Platform = "unix" => here = place[o]
          BY <1>0, <3>1, <4>1, <4>2 DEF HomeInv, HomeOK, QuarantineHome
        <4>5. request[o].expected.object = names[here][Quarantine(o)]
          BY <4>1 DEF VersionOf
        <4>. QED BY <3>1, <3>2, <4>1, <4>3, <4>4, <4>5 DEF Unlinked
      <3>. QED BY <2>1, <3>1, <3>3, <3>4 DEF DestroyedOK, Image
    <2>. QED BY <1>0, <2>2, <2>3 DEF Frame
  <1>. QED BY <1>0, <1>1, <1>2, DestroyedDisk DEF Frame

LEMMA DestroyedEnvironment ==
  ASSUME BaseInv, DestroyedInv, Environment
  PROVE  DestroyedInv'
  <1>0. TypeInv /\ PlacedInv /\ Platform \in {"unix", "windows"}
    BY PlatformAssumption DEF BaseInv
  <1>1. CASE PowerLoss
    <2>0. Platform = "unix"
      BY <1>0, <1>1, Parts, PlatformAssumption, PowerLossAssumption DEF PowerLoss, FilesOK
    <2>1. PICK s \in onDisk : effect' = s.effect /\ destroyed' = s.destroyed
      BY <1>1 DEF PowerLoss
    <2>2. \A p \in Ops : \A v : Unlinked(p, v) => Unlinked(p, v)'
      BY <1>1 DEF PowerLoss, Unlinked, local
    <2>3. DestroyedOK(Image)'
      BY <2>0, <2>1, <2>2, DestroyedKept DEF DestroyedInv, DestroyedOK, Image
    <2>4. \A t \in onDisk' : t = Image'
      BY <1>1 DEF PowerLoss
    <2>. QED BY <2>3, <2>4 DEF DestroyedInv, DestroyedOK
  <1>2. CASE ForeignWrites \/ ForeignReplaces \/ ForeignRemoves \/ SwapParent
    <2>1. UNCHANGED <<pc, request, place, effect, destroyed>> /\ DiskStep /\ FilesStay
      <3>1. ~ PowerLoss
        BY <1>0, <1>2, ForeignFiles, Parts DEF PowerLoss, FilesOK
      <3>2. FilesStay
        BY <1>0, <1>2, <3>1, PlacedEnvironment DEF Environment, OrdinaryStep
      <3>. QED BY <1>0, <1>2, <3>2, ForeignFiles
    <2>2. ASSUME NEW p \in Ops, NEW v, Unlinked(p, v) PROVE Unlinked(p, v)'
      <3>1. v.object \in 1..born => v.object \in 1..born' /\ data'[v.object].dir = data[v.object].dir
        BY <2>1 DEF FilesStay
      <3>. QED BY <2>1, <2>2, <3>1 DEF Unlinked
    <2>3. DestroyedOK(Image)'
      BY <2>1, <2>2, DestroyedNow DEF DestroyedOK, Image
    <2>. QED BY <2>1, <2>2, <2>3, DestroyedDisk
  <1>. QED BY <1>1, <1>2 DEF Environment

LEMMA DestroyedStep ==
  ASSUME BaseInv, BaseInv', DestroyedInv, [Next]_vars
  PROVE  DestroyedInv'
  <1>1. CASE UNCHANGED vars
    <2>1. UNCHANGED <<pc, request, place, effect, destroyed, born, data, onDisk>>
      BY <1>1 DEF vars, ns, local
    <2>2. \A p \in Ops : \A v : Unlinked(p, v) => Unlinked(p, v)'
      BY <2>1 DEF Unlinked
    <2>3. DestroyedOK(Image)'
      BY <2>1, <2>2, DestroyedNow DEF DestroyedOK, Image
    <2>. QED BY <2>1, <2>2, <2>3, DestroyedDisk, SameDisk
  <1>. QED BY <1>1, DestroyedCallStep, DestroyedEnvironment DEF Next

(* durable_remove_exact unlinks only the version its caller saw, and does  *)
(* so only after it took that very version from the destination.           *)
THEOREM DestroyedCorrect == Spec => []OnlyExpectedDestroyed
  <1>1. Init => BaseInv /\ DestroyedInv
    <2>1. Init => DestroyedInv
      BY DEF Init, DestroyedInv, DestroyedOK, Image
    <2>. QED BY <2>1, BaseInitial
  <1>2. BaseInv /\ DestroyedInv /\ [Next]_vars => BaseInv' /\ DestroyedInv'
    BY BaseStep, DestroyedStep
  <1>3. DestroyedInv => OnlyExpectedDestroyed
    BY DestroyedNow DEF Unlinked, OnlyExpectedDestroyed
  <1>4. QED
    BY <1>1, <1>2, <1>3, PTL DEF Spec

-------------------------------------------------------------------------------
(* The intended bytes are kept until a commit is confirmed.                *)

(* The recovery image of o is a file of its own: no other leaf leads to    *)
(* it, so whatever is done to the other files does not change it.          *)
KeptIn(o, x, m) ==
  /\ \E d \in Dirs : m[d][Recovery(o)] = x
  /\ \A d \in Dirs, l \in Leaves : m[d][l] = x => l = Recovery(o)

Unsettled(o) == Missed(o, {"retainSync"})

(* Until its directory is synchronized the path leads there, and from then *)
(* on the image is in every directory a power loss may bring back.         *)
RetainedIn(o, x) ==
  /\ data[x].bytes = request[o].bytes /\ KeptIn(o, x, names)
  /\ \/ Unsettled(o)
     \/ IF pc[o] = "retainSync" THEN here = data[x].dir
        ELSE Platform = "unix" => \A s \in onDisk : KeptIn(o, x, s.names)

Owing(o) == pc[o] = "retainSync" \/ AwaitingCommit(o)

RetainedOK(o) ==
  Owing(o) => (Unsettled(o) /\ losses > 0) \/ \E x \in 1..born : RetainedIn(o, x)

RetainedInv == \A o \in Ops : RetainedOK(o)

LEMMA UnsettledStays ==
  ASSUME strayed \subseteq strayed', NEW o \in Ops
  PROVE  Unsettled(o) => Unsettled(o)'
  BY DEF Unsettled, Missed

(* An image with some directories as they are now shows the file if both   *)
(* do: it is in the one directory to which it belongs.                     *)
LEMMA KeptMixed ==
  ASSUME NEW s, NEW D, NEW o \in Ops, NEW x, x # Nothing, Placed(s.names)', Placed(names)',
         KeptIn(o, x, names)', data'[x].dir \in D \/ KeptIn(o, x, s.names)
  PROVE  KeptIn(o, x, Current(s, D).names)'
  <1>. DEFINE m == Current(s, D).names'
  <1>1. \A d \in Dirs : m[d] = IF d \in D THEN names'[d] ELSE s.names[d]
    BY DEF Current
  <1>. HIDE DEF m
  <1>0. Recovery(o) \in Leaves
    BY LeafType
  <1>2. ASSUME NEW d \in Dirs, NEW l \in Leaves, m[d][l] = x PROVE l = Recovery(o)
    <2>1. CASE d \in D
      BY <1>1, <1>2, <2>1 DEF KeptIn
    <2>2. CASE d \notin D
      <3>1. s.names[d][l] = x
        BY <1>1, <1>2, <2>2
      <3>2. data'[x].dir = d
        BY <3>1 DEF Placed
      <3>. QED BY <2>2, <3>1, <3>2 DEF KeptIn
    <2>. QED BY <2>1, <2>2
  <1>3. \E d \in Dirs : m[d][Recovery(o)] = x
    <2>1. CASE data'[x].dir \in D
      <3>1. PICK d \in Dirs : names'[d][Recovery(o)] = x
        BY DEF KeptIn
      <3>2. data'[x].dir = d
        BY <1>0, <3>1 DEF Placed
      <3>. QED BY <1>1, <2>1, <3>1, <3>2
    <2>2. CASE data'[x].dir \notin D
      <3>1. PICK d \in Dirs : s.names[d][Recovery(o)] = x
        BY <2>2 DEF KeptIn
      <3>2. data'[x].dir = d
        BY <1>0, <3>1 DEF Placed
      <3>. QED BY <1>1, <2>2, <3>1, <3>2
    <2>. QED BY <2>1, <2>2
  <1>. QED BY <1>2, <1>3 DEF KeptIn, m

LEMMA RetainedDisk ==
  ASSUME BaseInv, BaseInv', FilesStay, DiskStep, strayed \subseteq strayed',
         NEW p \in Ops, NEW x \in 1..born, RetainedIn(p, x), data'[x] = data[x],
         KeptIn(p, x, names)', request'[p] = request[p],
         pc'[p] = "retainSync" <=> pc[p] = "retainSync",
         here' = here \/ pc[p] # "retainSync" \/ Unsettled(p)'
  PROVE  x \in 1..born' /\ RetainedIn(p, x)'
  <1>0. PlacedInv /\ PlacedInv' /\ x # Nothing /\ x \in 1..born'
    BY NothingIsNoFile DEF BaseInv, FilesStay
  <1>1. CASE Unsettled(p) \/ Unsettled(p)'
    BY <1>0, <1>1, UnsettledStays DEF RetainedIn
  <1>2. CASE ~ Unsettled(p) /\ ~ Unsettled(p)' /\ pc[p] = "retainSync"
    BY <1>0, <1>2 DEF RetainedIn
  <1>3. CASE ~ Unsettled(p) /\ ~ Unsettled(p)' /\ pc[p] # "retainSync"
    <2>1. ASSUME Platform = "unix", NEW t \in onDisk' PROVE KeptIn(p, x, t.names)
      <3>1. \A s \in onDisk : KeptIn(p, x, s.names) /\ Placed(s.names)'
        BY <1>0, <1>3, <2>1, PlacedStays DEF RetainedIn, PlacedInv
      <3>2. CASE t \in onDisk
        BY <3>1, <3>2
      <3>3. CASE t \notin onDisk
        <4>1. PICK s \in onDisk : \E D : t = Current(s, D)'
          BY <3>3 DEF DiskStep
        <4>2. PICK D : t = Current(s, D)'
          BY <4>1
        <4>3. KeptIn(p, x, Current(s, D).names)'
          BY <1>0, <3>1, KeptMixed DEF PlacedInv
        <4>. QED BY <4>2, <4>3
      <3>. QED BY <3>2, <3>3
    <2>. QED BY <1>0, <1>3, <2>1 DEF RetainedIn
  <1>. QED BY <1>1, <1>2, <1>3

(* Only the creation of the image leads to its synchronization.            *)
LEMMA OnlyRetain ==
  ASSUME TypeInv, NEW o \in Ops, Call(o) \/ OpStep(o), ~ Retain(o)
  PROVE  pc'[o] # "retainSync"
  <1>1. ASSUME NEW from, NEW to, Goto(o, from, to), to # "retainSync" PROVE pc'[o] # "retainSync"
    BY <1>1, Parts DEF Goto, ControlOK
  <1>2. ASSUME NEW k, NEW v, NEW r, Return(o, k, v, r) \/ ReturnPure(o, k, v, r)
        PROVE  pc'[o] # "retainSync"
    BY <1>2, Parts DEF Return, ReturnPure, ControlOK
  <1>3. CASE Call(o) \/ Acquire(o)
    BY <1>3, Parts DEF Call, Acquire, ControlOK
  <1>4. CASE StillWrite(o) \/ Stage(o)
    BY <1>1, <1>4 DEF StillWrite, RetainSync, CompareMatches, CheckStaged, CheckStagedFails,
       InstallFindsFile, InstallFails, CreatedCheckHandle, CreatedObserve, SaveDisplacedBytes,
       ReplacedCheckHandle, ReplacedObserveNew, ReplacedCompare, ReplacedSync, ReplacedBind, Stage
  <1>5. CASE \/ StagingFails(o) \/ ReportPartial(o) \/ Classify(o) \/ ReportExisting(o)
             \/ CreatedFinishFails(o) \/ ReplacedHandleFails(o) \/ ReplacedFails(o)
             \/ CreatedSync(o) \/ ReplacedRetire(o)
    BY <1>2, <1>5 DEF StagingFails, ReportPartial, Classify, ReportExisting, CreatedFinishFails,
       ReplacedHandleFails, ReplacedFails, CreatedSync, ReplacedRetire
  <1>6. CASE CheckParent(o) \/ CreatedCheckParent(o) \/ ReplacedCheckParent(o)
    <2>1. ASSUME NEW known, NEW image, ParentChanged(o, known, image) PROVE pc'[o] # "retainSync"
      <3>1. \E e : Return(o, "indeterminate", Nothing, e)
        BY <2>1 DEF ParentChanged
      <3>. QED BY <1>2, <3>1
    <2>. QED BY <1>1, <1>6, <2>1 DEF CheckParent, CreatedCheckParent, ReplacedCheckParent
  <1>7. CASE Retires(o) \/ InstallAbsent(o) \/ Replace(o) \/ ReplacePartially(o)
    BY <1>1, <1>2, <1>7 DEF Retires, CompareConflicts, CreationIndeterminate, CreatedRetireAlias,
       InstallAbsent, Replace, Mutates, ReplacePartially
  <1>8. CASE RemoveStep(o)
    BY <1>1, <1>2, <1>8 DEF RemoveStep, Inspect, MoveToQuarantine, MoveFails, Reinspect,
       QuarantineSync, Examine, Assess, Restore, RestoreFails, RestoreSync, Unlink,
       UnlinkMismatch, UnlinkSync, RemoveFails
  <1>. QED BY <1>3, <1>4, <1>5, <1>6, <1>7, <1>8 DEF OpStep, WriteStep, StillWrite, Retires

(* Only the creation of the image and its synchronization make a call owe  *)
(* it.                                                                     *)
LEMMA AwaitingBefore ==
  ASSUME BaseInv, BaseInv', NEW o \in Ops, Call(o) \/ OpStep(o), ~ Retain(o), ~ RetainSync(o), Owing(o)'
  PROVE  /\ AwaitingCommit(o) /\ request'[o] = request[o]
         /\ pc[o] # "retainSync" /\ pc'[o] # "retainSync"
  <1>0. TypeInv /\ TypeInv' /\ Frame(o) /\ EffectOK(o) /\ pc'[o] # "retainSync" /\ AwaitingCommit(o)'
    BY StepFrame, OnlyRetain DEF BaseInv, EffectInv, Owing
  <1>1. CASE Call(o) \/ Acquire(o)
    <2>1. pc[o] \in {"idle", "waiting"} /\ pc'[o] \in {"waiting", "stage", "inspect"} /\ reply' = reply
      BY <1>0, <1>1, Parts DEF Call, Acquire, ControlOK
    <2>2. reply[o] = Nothing
      BY <1>0, <2>1 DEF EffectOK
    <2>. QED BY <1>0, <2>1, <2>2 DEF AwaitingCommit, Answered, WriteLabels
  <1>2. CASE RemoveStep(o)
    <2>1. request[o].kind = "remove" /\ pc[o] # "idle"
      BY <1>0, <1>2, Parts DEF RemoveStep, Inspect, MoveToQuarantine, MoveFails, Reinspect,
         QuarantineSync, Examine, Assess, Restore, RestoreFails, RestoreSync, Unlink,
         UnlinkMismatch, UnlinkSync, RemoveFails, Goto, ControlOK, RequestOK, RemoveLabels
    <2>2. request' = request
      BY <1>0, <2>1, Apart DEF Frame
    <2>3. pc'[o] \notin WriteLabels
      BY <1>0, <2>1, <2>2, Parts DEF ControlOK, RequestOK
    <2>. QED BY <1>0, <2>1, <2>2, <2>3 DEF AwaitingCommit
  <1>3. CASE WriteStep(o)
    <2>1. pc[o] \in WriteLabels /\ pc[o] # "idle"
      BY <1>3, WriteLabel DEF WriteLabels
    <2>2. request' = request
      BY <1>0, <2>1, Apart DEF Frame
    <2>3. CASE pc[o] \notin {"stage", "retain", "retainSync"}
      BY <1>0, <2>1, <2>2, <2>3 DEF AwaitingCommit
    <2>4. CASE Stage(o)
      <3>1. pc[o] = "stage" /\ pc'[o] = "retain" /\ reply' = reply
        BY <1>0, <2>4, Parts DEF Stage, Goto, ControlOK
      <3>. QED BY <1>0, <3>1 DEF AwaitingCommit, Answered, EffectOK
    <2>5. CASE StagingFails(o)
      <3>1. pc'[o] = "done" /\ reply'[o].kind = "error"
        BY <1>0, <2>5, Parts DEF StagingFails, ReturnPure, Return, ControlOK
      <3>. QED BY <1>0, <3>1 DEF AwaitingCommit, Answered, WriteLabels
    <2>6. CASE pc[o] \in {"stage", "retain", "retainSync"} /\ ~ Stage(o) /\ ~ StagingFails(o)
      BY <1>3, <2>6 DEF WriteStep, CompareMatches, CheckStaged, CheckStagedFails,
         InstallFindsFile, InstallFails, CreatedCheckHandle, CreatedObserve, SaveDisplacedBytes,
         ReplacedCheckHandle, ReplacedObserveNew, ReplacedCompare, ReplacedSync, ReplacedBind,
         ReportPartial, Classify, ReportExisting, CreatedFinishFails, ReplacedHandleFails,
         ReplacedFails, CreatedSync, ReplacedRetire, CheckParent, CreatedCheckParent,
         ReplacedCheckParent, CompareConflicts, CreationIndeterminate, CreatedRetireAlias,
         InstallAbsent, Replace, Mutates, ReplacePartially, Goto
    <2>. QED BY <2>3, <2>4, <2>5, <2>6
  <1>. QED BY <1>1, <1>2, <1>3 DEF OpStep

(* A step that leaves the recovery leaf of p alone leaves its file alone.  *)
LEMMA RetainedStays ==
  ASSUME BaseInv, NEW p \in Ops, NEW x \in 1..born, KeptIn(p, x, names),
         NEW K, NEW S \in SUBSET Leaves, Binds(K, S), Recovery(p) \notin K, Recovery(p) \notin S
  PROVE  data'[x] = data[x] /\ KeptIn(p, x, names)'
  <1>0. born \in Nat /\ Nothing \notin 1..born /\ Recovery(p) \in Leaves
    BY NothingIsNoFile, LeafType DEF BaseInv
  <1>1. data'[x] = data[x]
    BY <1>0 DEF Binds
  <1>2. \A d \in Dirs : names'[d][Recovery(p)] = names[d][Recovery(p)]
    BY <1>0 DEF Binds
  <1>3. ASSUME NEW d \in Dirs, NEW l \in Leaves, names'[d][l] = x PROVE l = Recovery(p)
    <2>1. CASE names'[d][l] = names[d][l]
      BY <1>3, <2>1 DEF KeptIn
    <2>2. CASE names'[d][l] = Nothing \/ names'[d][l] \in (born + 1)..born'
      BY <1>0, <1>3, <2>2
    <2>3. ASSUME NEW k \in S, names'[d][l] = names[d][k] PROVE FALSE
      BY <1>3, <2>3 DEF KeptIn
    <2>. QED BY <2>1, <2>2, <2>3 DEF Binds
  <1>. QED BY <1>1, <1>2, <1>3 DEF KeptIn

(* The synchronization of the image.                                       *)
LEMMA RetainSyncRetained ==
  ASSUME BaseInv, BaseInv', NEW o \in Ops, RetainSync(o), NEW x \in 1..born, RetainedIn(o, x)
  PROVE  x \in 1..born' /\ RetainedIn(o, x)'
  <1>0. /\ PlacedInv /\ PlacedInv' /\ x # Nothing /\ pc[o] = "retainSync" /\ pc'[o] = "compare"
        /\ UNCHANGED <<names, data, born, here, request, strayed>> /\ Flush
    BY NothingIsNoFile, Parts DEF BaseInv, RetainSync, Goto, ControlOK, ns, local, bounds
  <1>1. (data[x].bytes = request[o].bytes)' /\ KeptIn(o, x, names)'
    BY <1>0 DEF RetainedIn, KeptIn
  <1>2. CASE Unsettled(o)
    BY <1>0, <1>1, <1>2, UnsettledStays DEF RetainedIn
  <1>3. ASSUME ~ Unsettled(o), Platform = "unix", NEW t \in onDisk' PROVE KeptIn(o, x, t.names)
    <2>1. \E s \in onDisk : \E D : here \in D /\ t = Current(s, D)'
      BY <1>0, <1>3 DEF Flush, Settle
    <2>2. PICK s \in onDisk : \E D : here \in D /\ t = Current(s, D)'
      BY <2>1
    <2>3. PICK D : here \in D /\ t = Current(s, D)'
      BY <2>2
    <2>4. FilesStay
      BY <1>0, NothingIsNoFile DEF BaseInv, FilesStay
    <2>5. Placed(s.names)' /\ Placed(names)'
      BY <1>0, <2>4, PlacedStays DEF PlacedInv
    <2>6. data'[x].dir \in D
      BY <1>0, <1>3, <2>3 DEF RetainedIn
    <2>7. KeptIn(o, x, Current(s, D).names)'
      BY <1>0, <1>1, <2>5, <2>6, KeptMixed
    <2>. QED BY <2>3, <2>7
  <1>4. CASE ~ Unsettled(o)
    BY <1>0, <1>1, <1>3, <1>4 DEF RetainedIn
  <1>. QED BY <1>0, <1>2, <1>4

(* The creation of the image.                                              *)
LEMMA RetainRetained ==
  ASSUME BaseInv, BaseInv', NEW o \in Ops, Retain(o)
  PROVE  \E x \in 1..born' : RetainedIn(o, x)'
  <1>0. /\ TypeInv /\ TypeInv' /\ KeptInv /\ Recovery(o) \in Leaves /\ here \in Dirs /\ born \in Nat
    BY LeafType, NothingIsNoFile DEF BaseInv
  <1>1. /\ born' = born + 1 /\ born + 1 \in Objects /\ UNCHANGED <<request, here>>
        /\ data' = [data EXCEPT ![born + 1] =
                      [bytes |-> request[o].bytes, stamp |-> foreign, dir |-> here]]
        /\ Bind(Recovery(o), born + 1) /\ pc'[o] = "retainSync"
    BY <1>0, Parts, BoundAssumption DEF Retain, Create, Goto, ControlOK, local, Objects
  <1>. PICK x \in Objects : x = born + 1
    BY <1>1
  <1>2. \A d \in Dirs, l \in Leaves :
          names'[d][l] = IF d = here /\ l = Recovery(o) THEN x ELSE names[d][l]
    BY <1>0, <1>1, BindAt
  <1>3. \A d \in Dirs, l \in Leaves : names[d][l] # x
    BY <1>0, FreshNow, NothingAssumption DEF Objects
  <1>4. KeptIn(o, x, names)'
    BY <1>0, <1>2, <1>3 DEF KeptIn
  <1>5. data'[x] = [bytes |-> request[o].bytes, stamp |-> foreign, dir |-> here]
    BY <1>0, <1>1, Parts DEF FilesOK
  <1>6. data'[x].bytes = request'[o].bytes /\ here' = data'[x].dir
    BY <1>1, <1>5
  <1>7. x \in 1..born'
    BY <1>0, <1>1
  <1>. QED BY <1>1, <1>4, <1>6, <1>7 DEF RetainedIn

LEMMA RetainedCallStep ==
  ASSUME BaseInv, BaseInv', RetainedInv, NEW o \in Ops, Call(o) \/ OpStep(o)
  PROVE  RetainedInv'
  <1>0. /\ TypeInv /\ TypeInv' /\ Frame(o) /\ DiskStep /\ FilesStay
        /\ here' = here /\ strayed' = strayed /\ losses' = losses
    BY StepFrame, PlacedCallStep DEF BaseInv, OrdinaryStep, Frame, bounds
  <1>1. PICK K \in SUBSET (Moved(o) \union Evidence(o)), S \in SUBSET Moved(o) :
          Binds(K, S) /\ (Recovery(o) \in K => Retain(o) \/ ReplacedRetire(o))
    BY <1>0 DEF Frame
  <1>3. ASSUME NEW p \in Ops, Owing(p), request'[p] = request[p], Recovery(p) \notin K,
               pc'[p] = "retainSync" <=> pc[p] = "retainSync"
        PROVE  RetainedOK(p)'
    <2>0. CASE Unsettled(p) /\ losses > 0
      BY <1>0, <2>0, UnsettledStays DEF RetainedOK
    <2>1. CASE ~ (Unsettled(p) /\ losses > 0)
      <3>1. PICK x \in 1..born : RetainedIn(p, x)
        BY <1>3, <2>1 DEF RetainedInv, RetainedOK
      <3>2. Recovery(p) \notin S /\ S \in SUBSET Leaves
        BY RoleApart DEF Moved, Recovery, Dest, Staged, Displaced, Quarantine
      <3>3. data'[x] = data[x] /\ KeptIn(p, x, names)'
        BY ONLY BaseInv, <1>1, <1>3, <3>1, <3>2, RetainedStays DEF RetainedIn
      <3>4. x \in 1..born' /\ RetainedIn(p, x)'
        BY <1>0, <1>3, <3>1, <3>3, RetainedDisk
      <3>. QED BY <3>4 DEF RetainedOK
    <2>. QED BY <2>0, <2>1
  <1>4. ASSUME NEW p \in Ops, p # o PROVE RetainedOK(p)'
    <2>1. pc'[p] = pc[p] /\ request'[p] = request[p] /\ reply'[p] = reply[p]
      BY <1>0, <1>4 DEF Frame
    <2>2. Recovery(p) \notin K
      BY <1>4 DEF Moved, Evidence, Recovery, Dest, Staged, Displaced, Quarantine, Spare, Copy
    <2>3. Owing(p)' => Owing(p)
      BY <2>1 DEF Owing, AwaitingCommit, Answered
    <2>. QED BY <1>3, <2>1, <2>2, <2>3 DEF RetainedOK
  <1>5. RetainedOK(o)'
    <2>1. CASE Retain(o)
      BY <2>1, RetainRetained DEF RetainedOK
    <2>2. CASE RetainSync(o)
      <3>1. pc[o] = "retainSync"
        BY <2>2 DEF RetainSync, Goto
      <3>2. CASE Unsettled(o) /\ losses > 0
        BY <1>0, <3>2, UnsettledStays DEF RetainedOK
      <3>3. CASE ~ (Unsettled(o) /\ losses > 0)
        <4>1. PICK x \in 1..born : RetainedIn(o, x)
          BY <3>1, <3>3 DEF RetainedInv, RetainedOK, Owing
        <4>. QED BY <2>2, <4>1, RetainSyncRetained DEF RetainedOK
      <3>. QED BY <3>2, <3>3
    <2>3. CASE ReplacedRetire(o)
      <3>1. pc'[o] = "done" /\ reply'[o].kind = "committed"
        BY <1>0, <2>3, Parts DEF ReplacedRetire, Return, ControlOK
      <3>2. ~ Owing(o)'
        BY <3>1 DEF Owing, AwaitingCommit, Answered, WriteLabels
      <3>. QED BY <3>2 DEF RetainedOK
    <2>4. CASE ~ Retain(o) /\ ~ RetainSync(o) /\ ~ ReplacedRetire(o)
      <3>1. Owing(o)' => /\ Owing(o) /\ request'[o] = request[o]
                         /\ pc'[o] = "retainSync" <=> pc[o] = "retainSync"
        BY <2>4, AwaitingBefore DEF Owing
      <3>. QED BY <1>1, <1>3, <2>4, <3>1 DEF RetainedOK
    <2>. QED BY <2>1, <2>2, <2>3, <2>4
  <1>. QED BY <1>4, <1>5 DEF RetainedInv

(* Other programs leave the image alone.                                   *)
LEMMA ForeignRetained ==
  ASSUME BaseInv, ForeignWrites \/ ForeignReplaces \/ ForeignRemoves \/ SwapParent,
         NEW p \in Ops, NEW x \in 1..born, KeptIn(p, x, names)
  PROVE  data'[x] = data[x] /\ KeptIn(p, x, names)'
  <1>0. /\ TypeInv /\ born \in Nat /\ Nothing \notin 1..born /\ lock \in Ops \union {NoOp}
        /\ Recovery(p) \in Leaves
    BY NothingIsNoFile, LeafType DEF BaseInv
  <1>1. \A l \in {Dest} \union Private : l # Recovery(p) /\ l \in Leaves
    <2>1. CASE lock = NoOp
      BY <1>0, <2>1, LeafNames DEF Private, Recovery, Dest
    <2>2. CASE lock \in Ops
      <3>1. Private = {Staged(lock), Displaced(lock), Quarantine(lock)}
        BY <2>2, NoOpAssumption DEF Private
      <3>2. {Dest} \union Private \subseteq Leaves
        BY <2>2, <3>1, LeafType
      <3>3. Recovery(p) \notin {Dest, Staged(lock), Displaced(lock), Quarantine(lock)}
        BY DEF Recovery, Dest, Staged, Displaced, Quarantine
      <3>. QED BY <3>1, <3>2, <3>3
    <2>. QED BY <1>0, <2>1, <2>2
  <1>2. data'[x] = data[x]
    BY <1>0, <1>1, ForeignFiles, NothingIsNoFile DEF KeptIn
  <1>3. ASSUME NEW d \in Dirs, NEW l \in Leaves
        PROVE  \/ names'[d][l] = names[d][l]
               \/ /\ l # Recovery(p)
                  /\ names'[d][l] = Nothing \/ names'[d][l] \in (born + 1)..born'
    BY <1>0, ForeignFiles DEF Recovery, Dest, Staged
  <1>4. \A d \in Dirs : names'[d][Recovery(p)] = names[d][Recovery(p)]
    BY <1>0, <1>3
  <1>5. ASSUME NEW d \in Dirs, NEW l \in Leaves, names'[d][l] = x PROVE l = Recovery(p)
    BY <1>0, <1>3, <1>5 DEF KeptIn
  <1>. QED BY <1>2, <1>4, <1>5 DEF KeptIn

LEMMA RetainedEnvironment ==
  ASSUME BaseInv, BaseInv', RetainedInv, Environment
  PROVE  RetainedInv'
  <1>0. TypeInv /\ PlacedInv /\ EffectInv
    BY DEF BaseInv
  <1>1. CASE ForeignWrites \/ ForeignReplaces \/ ForeignRemoves \/ SwapParent
    <2>1. /\ UNCHANGED <<pc, request, reply, losses>> /\ DiskStep /\ strayed \subseteq strayed'
          /\ losses' = losses
      BY <1>0, <1>1, ForeignFiles
    <2>2. FilesStay
      <3>1. ~ PowerLoss
        BY <1>0, <2>1, Parts DEF PowerLoss, FilesOK
      <3>. QED BY <1>0, <1>1, <3>1, PlacedEnvironment DEF Environment, OrdinaryStep
    <2>3. ASSUME NEW p \in Ops, pc[p] = "retainSync" PROVE here' = here \/ Unsettled(p)'
      BY <1>1, <2>3 DEF ForeignWrites, ForeignReplaces, ForeignRemoves, SwapParent, Unsettled,
         Missed, Syncs
    <2>4. ASSUME NEW p \in Ops PROVE RetainedOK(p)'
      <3>1. Owing(p)' => Owing(p)
        BY <2>1 DEF Owing, AwaitingCommit, Answered
      <3>2. CASE Unsettled(p) /\ losses > 0
        BY <2>1, <3>2, UnsettledStays DEF RetainedOK
      <3>3. CASE Owing(p) /\ ~ (Unsettled(p) /\ losses > 0)
        <4>1. PICK x \in 1..born : RetainedIn(p, x)
          BY <3>3 DEF RetainedInv, RetainedOK
        <4>2. data'[x] = data[x] /\ KeptIn(p, x, names)'
          BY <1>1, <4>1, ForeignRetained DEF RetainedIn
        <4>3. x \in 1..born' /\ RetainedIn(p, x)'
          BY <2>1, <2>2, <2>3, <4>1, <4>2, RetainedDisk
        <4>. QED BY <4>3 DEF RetainedOK
      <3>. QED BY <3>1, <3>2, <3>3 DEF RetainedOK
    <2>. QED BY <2>4 DEF RetainedInv
  <1>2. CASE PowerLoss
    <2>1. Platform = "unix" /\ losses' > 0
      BY <1>0, <1>2, Parts, PlatformAssumption, PowerLossAssumption, BoundAssumption
         DEF PowerLoss, FilesOK
    <2>2. PICK s \in onDisk : names' = s.names
      BY <1>2 DEF PowerLoss
    <2>3. \A t \in onDisk' : t.names = names'
      BY <1>2 DEF PowerLoss, Image
    <2>4. UNCHANGED <<request, data, born, strayed>> /\ \A p \in Ops : pc'[p] \in {"idle", "done"}
      BY <1>2 DEF PowerLoss, local
    <2>5. ASSUME NEW p \in Ops, Owing(p)' PROVE AwaitingCommit(p) /\ pc[p] = "done"
      <3>1. Answered(p, {"notCommitted", "conflict", "indeterminate"}) /\ request[p].kind = "write"
        BY <1>2, <2>4, <2>5 DEF PowerLoss, Owing, AwaitingCommit, Answered, WriteLabels
      <3>. QED BY <1>0, <3>1 DEF AwaitingCommit, Answered, EffectInv, EffectOK
    <2>6. ASSUME NEW p \in Ops, NEW x \in 1..born, RetainedIn(p, x), ~ Unsettled(p), pc[p] = "done"
          PROVE  RetainedIn(p, x)'
      BY <2>1, <2>2, <2>3, <2>4, <2>6 DEF RetainedIn
    <2>7. ASSUME NEW p \in Ops PROVE RetainedOK(p)'
      <3>1. CASE Unsettled(p)
        BY <2>1, <2>4, <3>1, UnsettledStays DEF RetainedOK
      <3>2. CASE ~ Unsettled(p)
        BY <2>4, <2>5, <2>6, <3>2 DEF RetainedInv, RetainedOK, Owing
      <3>. QED BY <3>1, <3>2
    <2>. QED BY <2>7 DEF RetainedInv
  <1>. QED BY <1>1, <1>2 DEF Environment

LEMMA RetainedStep ==
  ASSUME BaseInv, BaseInv', RetainedInv, [Next]_vars
  PROVE  RetainedInv'
  <1>1. CASE UNCHANGED vars
    <2>1. UNCHANGED <<names, data, born, here, pc, request, reply, onDisk, losses, strayed>>
      BY <1>1 DEF vars, ns, local, bounds
    <2>2. ASSUME NEW p \in Ops PROVE RetainedOK(p)'
      <3>1. RetainedOK(p)
        BY DEF RetainedInv
      <3>2. (Owing(p)' <=> Owing(p)) /\ (Unsettled(p)' <=> Unsettled(p))
        BY <2>1 DEF Owing, AwaitingCommit, Answered, Unsettled, Missed
      <3>3. \A x : RetainedIn(p, x) => RetainedIn(p, x)'
        BY <2>1, <3>2 DEF RetainedIn
      <3>. QED BY <2>1, <3>1, <3>2, <3>3 DEF RetainedOK
    <2>. QED BY <2>2 DEF RetainedInv
  <1>. QED BY <1>1, RetainedCallStep, RetainedEnvironment DEF Next

(* From create_recovery_image until a commit is confirmed the intended     *)
(* bytes are in the recovery image, in every directory a power loss may    *)
(* leave (on unix), whatever other programs do to the other files, unless  *)
(* they swap the directory just before its synchronization.                *)
THEOREM RetainedCorrect == Spec => []IntendedRetained
  <1>1. Init => BaseInv /\ RetainedInv
    <2>1. Init => RetainedInv
      BY DEF Init, RetainedInv, RetainedOK, Owing, AwaitingCommit, Answered, WriteLabels
    <2>. QED BY <2>1, BaseInitial
  <1>2. BaseInv /\ RetainedInv /\ [Next]_vars => BaseInv' /\ RetainedInv'
    BY BaseStep, RetainedStep
  <1>3. BaseInv /\ RetainedInv => IntendedRetained
    <2>. SUFFICES ASSUME BaseInv, RetainedInv, NEW o \in Ops, AwaitingCommit(o)
                  PROVE  /\ (Unsettled(o) /\ losses > 0) \/ Retained(o, names)
                         /\ Platform = "unix" /\ ~ Unsettled(o) =>
                              \A s \in onDisk : Retained(o, s.names)
      BY DEF IntendedRetained, Unsettled
    <2>1. Nothing \notin 1..born
      BY NothingIsNoFile DEF BaseInv
    <2>2. pc[o] # "retainSync"
      BY DEF BaseInv, EffectInv, EffectOK, AwaitingCommit, Answered
    <2>3. ASSUME NEW x \in 1..born, data[x].bytes = request[o].bytes, NEW m, KeptIn(o, x, m)
          PROVE  Retained(o, m)
      BY <2>1, <2>3 DEF Retained, KeptIn
    <2>4. (Unsettled(o) /\ losses > 0) \/ \E x \in 1..born : RetainedIn(o, x)
      BY DEF RetainedInv, RetainedOK, Owing
    <2>. QED BY <2>2, <2>3, <2>4 DEF RetainedIn
  <1>4. QED
    BY <1>1, <1>2, <1>3, PTL DEF Spec

(* The calls of durable_write and durable_remove_exact do what they were   *)
(* asked or say that they did not.                                         *)
THEOREM CallsCorrect == Spec => []CallsAreExact
  <1>1. OnlyExpectedDestroyed /\ ConfirmedIsExact /\ IntendedRetained => CallsAreExact
    BY DEF CallsAreExact
  <1>2. QED
    BY <1>1, DestroyedCorrect, ExactCorrect, RetainedCorrect, PTL

-------------------------------------------------------------------------------
(* The calls implement the contract of ExactFile.                          *)

(* What the contract needs besides: a delete that may put its file back    *)
(* has taken it, and no power loss gives a write another effect than none  *)
(* or its own.                                                             *)
Took == {"quarantineSync", "examine", "assess", "restore"}

TookInv == \A o \in Ops : pc[o] \in Took => effect[o] # {}

WritesInv ==
  Platform = "unix" => \A o \in Ops : request[o].kind = "write" =>
    \A s \in onDisk : s.effect[o] \in {{}, effect[o]}

LEMMA TookCallStep ==
  ASSUME BaseInv, BaseInv', TookInv, NEW o \in Ops, Call(o) \/ OpStep(o)
  PROVE  TookInv'
  <1>0. TypeInv /\ TypeInv' /\ Frame(o)
    BY StepFrame DEF BaseInv
  <1>1. ASSUME NEW p \in Ops, p # o, pc'[p] \in Took PROVE effect'[p] # {}
    BY <1>0, <1>1 DEF Frame, TookInv
  <1>2. ASSUME pc'[o] \in Took PROVE effect'[o] # {}
    <2>1. RemoveStep(o)
      <3>1. ~ Call(o) /\ ~ Acquire(o)
        BY <1>0, <1>2, Parts DEF Call, Acquire, ControlOK, Took
      <3>2. ASSUME WriteStep(o) PROVE FALSE
        <4>1. request' = request /\ request[o].kind = "write"
          BY <1>0, <3>1, <3>2, WriteLabel, Parts DEF Frame, ControlOK, RequestOK
        <4>2. pc'[o] \in RemoveLabels
          BY <1>2 DEF Took, RemoveLabels
        <4>. QED BY <1>0, <4>1, <4>2, Parts DEF ControlOK, RequestOK
      <3>. QED BY <3>1, <3>2 DEF OpStep
    <2>2. CASE MoveToQuarantine(o)
      BY <1>0, <2>2, Parts DEF MoveToQuarantine, NamesOK
    <2>3. CASE ~ MoveToQuarantine(o)
      <3>1. QuarantineSync(o) \/ Examine(o) \/ Assess(o)
        <4>1. \/ QuarantineSync(o) \/ Examine(o) \/ Assess(o)
              \/ \E from, to : Goto(o, from, to) /\ to \notin Took
              \/ \E k, v, r : Return(o, k, v, r)
          BY <2>1, <2>3 DEF RemoveStep, Inspect, MoveFails, Reinspect, Restore, RestoreFails,
             RestoreSync, Unlink, UnlinkMismatch, UnlinkSync, RemoveFails, ReturnPure, Took
        <4>2. ASSUME NEW from, NEW to, Goto(o, from, to), to \notin Took PROVE FALSE
          BY <1>0, <1>2, <4>2, Parts DEF Goto, ControlOK
        <4>3. ASSUME NEW k, NEW v, NEW r, Return(o, k, v, r) PROVE FALSE
          BY <1>0, <1>2, <4>3, Parts DEF Return, ControlOK, Took
        <4>. QED BY <4>1, <4>2, <4>3
      <3>2. pc[o] \in Took /\ effect' = effect
        BY <3>1 DEF QuarantineSync, Examine, Assess, Goto, Quiet, ReturnPure, ns, Took
      <3>. QED BY <3>2 DEF TookInv
    <2>. QED BY <2>2, <2>3
  <1>. QED BY <1>1, <1>2 DEF TookInv

LEMMA WritesDisk ==
  ASSUME DiskStep,
         Platform = "unix" => \A o \in Ops : request'[o].kind = "write" =>
           \A s \in onDisk : s.effect[o] \in {{}, effect'[o]}
  PROVE  WritesInv'
  <1>. SUFFICES ASSUME Platform = "unix", NEW o \in Ops, request'[o].kind = "write",
                       NEW t \in onDisk'
                PROVE  t.effect[o] \in {{}, effect'[o]}
    BY DEF WritesInv
  <1>1. CASE t \in onDisk
    BY <1>1
  <1>2. CASE t \notin onDisk
    <2>1. PICK s \in onDisk : \E D : t = Current(s, D)'
      BY <1>2 DEF DiskStep
    <2>2. PICK D : t = Current(s, D)'
      BY <2>1
    <2>. QED BY <2>2 DEF Current
  <1>. QED BY <1>1, <1>2

LEMMA WritesCallStep ==
  ASSUME BaseInv, BaseInv', WritesInv, NEW o \in Ops, Call(o) \/ OpStep(o)
  PROVE  WritesInv'
  <1>0. TypeInv /\ EffectOK(o) /\ Frame(o)
    BY StepFrame DEF BaseInv, EffectInv
  <1>. SUFFICES ASSUME Platform = "unix", NEW p \in Ops, request'[p].kind = "write", NEW s \in onDisk
                PROVE  s.effect[p] \in {{}, effect'[p]}
    BY <1>0, WritesDisk DEF Frame
  <1>1. CASE p # o
    BY <1>0, <1>1 DEF Frame, WritesInv
  <1>2. CASE p = o /\ ~ Mutation(o) /\ ~ Call(o)
    BY <1>0, <1>2 DEF Frame, WritesInv
  <1>3. CASE p = o /\ Call(o)
    BY <1>0, <1>3 DEF Call, EffectOK, UntouchedLabels, Clean
  <1>4. CASE p = o /\ Mutation(o) /\ ~ Call(o)
    <2>1. request' = request
      BY <1>0, <1>4 DEF Frame
    <2>2. pc[o] \in {"install", "quarantine", "restore"}
      BY <1>0, <1>4, Apart
    <2>3. pc[o] # "restore"
      BY <1>0, <1>4, <2>1, Parts DEF ControlOK, RequestOK, RemoveLabels
    <2>. QED BY <1>0, <1>4, <2>2, <2>3 DEF EffectOK, UntouchedLabels, Clean
  <1>. QED BY <1>1, <1>2, <1>3, <1>4

ContractInv == BaseInv /\ TookInv /\ WritesInv

LEMMA ContractStep == ContractInv /\ [Next]_vars => ContractInv'
  <1>. SUFFICES ASSUME ContractInv, [Next]_vars PROVE TookInv' /\ WritesInv'
    BY BaseStep DEF ContractInv
  <1>0. BaseInv /\ BaseInv' /\ TypeInv /\ TookInv /\ WritesInv
    BY BaseStep DEF ContractInv, BaseInv
  <1>1. CASE \E o \in Ops : Call(o) \/ OpStep(o)
    BY <1>0, <1>1, TookCallStep, WritesCallStep
  <1>2. CASE PowerLoss
    <2>1. /\ \A t \in onDisk' : t.effect = effect'
          /\ \A o \in Ops : pc'[o] \in {"idle", "done"}
      BY <1>2 DEF PowerLoss, Image
    <2>. QED BY <2>1 DEF TookInv, WritesInv, Took
  <1>3. CASE ForeignWrites \/ ForeignReplaces \/ ForeignRemoves \/ SwapParent
    <2>1. UNCHANGED <<pc, request, effect>> /\ DiskStep
      BY <1>0, <1>3, ForeignFiles
    <2>. QED BY <1>0, <2>1, WritesDisk DEF TookInv, WritesInv
  <1>4. CASE UNCHANGED vars
    BY <1>0, <1>4 DEF vars, ns, local, TookInv, WritesInv
  <1>. QED BY <1>1, <1>2, <1>3, <1>4 DEF Next, Environment

LEMMA ContractInitial == Init => ContractInv
  <1>1. Init => TookInv /\ WritesInv
    BY DEF Init, TookInv, WritesInv, Took
  <1>. QED BY <1>1, BaseInitial DEF ContractInv

(* The answers as the contract sees them.                                  *)
AnswerOf(o) ==
  IF reply[o] = Nothing THEN "none"
  ELSE IF reply[o].kind = "conflict" /\ request[o].kind = "remove" /\ reply[o].recovery # {}
       THEN "indeterminate"
  ELSE reply[o].kind

Cell == Capture(Dest)

LEMMA CellType ==
  ASSUME TypeInv, TypeInv'
  PROVE  Cell \in Versions \union {Nothing} /\ Cell' \in Versions \union {Nothing}
  <1>1. Cell \in Versions \union {Nothing}
    BY CaptureType, LeafNames, Parts DEF Cell, Optional, Leaves
  <1>2. Cell' \in Versions \union {Nothing}
    <2>1. names'[here'][Dest] \in Objects \union {Nothing}
      BY Parts DEF NamesOK, FilesOK, Namespaces, Optional, Dirs, Leaves
    <2>. QED BY <2>1, Parts DEF Cell, Capture, VersionOf, FilesOK, Versions
  <1>. QED BY <1>1, <1>2

(* A call changes the destination only in its mutation.                    *)
LEMMA CellStays ==
  ASSUME BaseInv, BaseInv', NEW o \in Ops, Frame(o), ~ Mutation(o)
  PROVE  Cell' = Cell
  <1>0. /\ TypeInv /\ KeptInv /\ Dest \in Leaves /\ here \in Dirs /\ here' = here
    BY LeafNames, NothingIsNoFile DEF BaseInv, Frame
  <1>1. PICK K, S : Binds(K, S) /\ Dest \notin K
    BY DEF Frame
  <1>2. names'[here][Dest] = names[here][Dest]
    BY <1>0, <1>1 DEF Binds
  <1>3. names[here][Dest] # Nothing => data'[names[here][Dest]] = data[names[here][Dest]]
    BY <1>0, <1>1, FreshNow DEF Binds
  <1>. QED BY <1>0, <1>2, <1>3 DEF Cell, Capture, VersionOf

(* Every step of a call keeps the answers or gives one, and what it says   *)
(* then is true.                                                           *)
Answering == Kinds \ {"died"}

Truthful(o, kind, recovery) ==
  /\ kind \in {"committed", "deleted"} => effect[o] = {request[o].expected}
  /\ IsDenial(o, kind, recovery) => effect[o] = {}

Returns(o) ==
  \E k \in Answering, v \in Optional(Versions), r \in SUBSET Leaves :
    Return(o, k, v, r) /\ Truthful(o, k, r)

LEMMA StepReplies ==
  ASSUME BaseInv, NEW o \in Ops, Call(o) \/ OpStep(o)
  PROVE  reply' = reply \/ Returns(o)
  <1>. USE DEF BaseInv
  <1>0. /\ Nothing \in Optional(Versions) /\ seen[o] \in Optional(Versions)
        /\ Capture(Dest) \in Optional(Versions)
        /\ {} \in SUBSET Leaves /\ {Recovery(o)} \in SUBSET Leaves
        /\ {Displaced(o)} \in SUBSET Leaves /\ {Quarantine(o)} \in SUBSET Leaves
        /\ {Recovery(o), Displaced(o)} \in SUBSET Leaves
        /\ \A s \in SUBSET Leaves : Existing(s) \in SUBSET Leaves
        /\ {"committed", "notCommitted", "conflict", "indeterminate", "error", "deleted",
            "notDeleted"} \subseteq Answering
    BY Parts, LeafType, CaptureType DEF LocalOK, Optional, Existing, Answering, Kinds
  <1>1. ASSUME NEW k \in Answering, NEW v \in Optional(Versions), NEW r \in SUBSET Leaves,
               Return(o, k, v, r) \/ ReturnPure(o, k, v, r), Truthful(o, k, r)
        PROVE  Returns(o)
    BY <1>1 DEF Returns, ReturnPure
  <1>u. pc[o] \in UntouchedLabels \union {"restoreSync"} =>
          \A k, r : k \notin {"committed", "deleted"} => Truthful(o, k, r)
    BY DEF Truthful, EffectInv, EffectOK, Clean
  <1>i. \A r : Truthful(o, "indeterminate", r)
    BY DEF Truthful, IsDenial
  <1>q. pc[o] \in RemoveLabels => Truthful(o, "conflict", {Quarantine(o)})
    <2>1. pc[o] \in RemoveLabels => request[o].kind = "remove"
      BY Parts DEF ControlOK, RequestOK
    <2>. QED BY <2>1 DEF Truthful, IsDenial
  <1>. HIDE DEF BaseInv
  <1>2. CASE StillWrite(o) \/ Mutation(o)
    BY <1>2 DEF StillWrite, RetainSync, CompareMatches, CheckStaged, CheckStagedFails,
       InstallFindsFile, InstallFails, CreatedCheckHandle, CreatedObserve, SaveDisplacedBytes,
       ReplacedCheckHandle, ReplacedObserveNew, ReplacedCompare, ReplacedSync, ReplacedBind, Quiet, Mutation,
       InstallAbsent, Replace, Mutates, ReplacePartially, MoveToQuarantine, Restore
  <1>3. CASE StillRemove(o) \/ Call(o) \/ Acquire(o) \/ Stage(o) \/ Retain(o) \/ Unlink(o)
    BY <1>3 DEF StillRemove, MoveFails, QuarantineSync, Examine, Call, Acquire, Stage, Retain,
       Unlink, Quiet
  <1>4. CASE StagingFails(o) \/ ReportPartial(o) \/ ReportExisting(o) \/ ReplacedHandleFails(o)
    BY <1>0, <1>1, <1>u, <1>i, <1>4 DEF StagingFails, ReportPartial, ReportExisting,
       ReplacedHandleFails, UntouchedLabels
  <1>5. CASE Classify(o)
    <2>. DEFINE e == {Recovery(o)} \union
                     IF pc[o] = "classify" THEN {} ELSE Existing({Displaced(o)})
    <2>1. e \in SUBSET Leaves
      BY <1>0
    <2>2. \/ ReturnPure(o, "notCommitted", Capture(Dest), e)
          \/ ReturnPure(o, "indeterminate", Nothing, e)
      BY <1>5 DEF Classify
    <2>3. pc[o] \in UntouchedLabels
      BY <1>5 DEF Classify, UntouchedLabels
    <2>. HIDE DEF e
    <2>. QED BY <1>0, <1>1, <1>u, <1>i, <2>1, <2>2, <2>3
  <1>6. CASE CreatedFinishFails(o)
    <2>1. \/ ReturnPure(o, "indeterminate", Nothing, Existing({Recovery(o)}))
          \/ ReturnPure(o, "indeterminate", Nothing, {Recovery(o)})
      BY <1>6 DEF CreatedFinishFails
    <2>. QED BY <1>0, <1>1, <1>i, <2>1
  <1>7. CASE Reinspect(o)
    <2>1. /\ pc[o] \in UntouchedLabels
          /\ \/ ReturnPure(o, "notDeleted", Capture(Dest), {})
             \/ ReturnPure(o, "conflict", Capture(Dest), {})
      BY <1>7 DEF Reinspect, UntouchedLabels
    <2>. QED BY <1>0, <1>1, <1>u, <2>1
  <1>8. CASE ReplacedFails(o) \/ RestoreFails(o) \/ UnlinkMismatch(o) \/ RemoveFails(o)
    BY <1>0, <1>1, <1>i, <1>q, <1>8 DEF ReplacedFails, RestoreFails, UnlinkMismatch, RemoveFails,
       RemoveLabels
  <1>9. CASE Confirms(o) \/ ReplacedRetire(o)
    <2>1. CASE RestoreSync(o)
      BY <1>0, <1>1, <1>u, <2>1 DEF RestoreSync
    <2>2. CASE CreatedSync(o) \/ UnlinkSync(o) \/ ReplacedRetire(o)
      <3>1. effect[o] = {request[o].expected}
        BY <2>2 DEF BaseInv, ExactInv, ExactOK, CreatedSync, UnlinkSync, ReplacedRetire, Creating,
           Compared
      <3>2. Truthful(o, "committed", {Recovery(o)}) /\ Truthful(o, "committed", {Displaced(o)})
            /\ Truthful(o, "deleted", {})
        BY <3>1 DEF Truthful, IsDenial
      <3>. QED BY <1>0, <1>1, <2>2, <3>2 DEF CreatedSync, UnlinkSync, ReplacedRetire
    <2>. QED BY <1>9, <2>1, <2>2 DEF Confirms
  <1>10. CASE Retires(o)
    BY <1>0, <1>1, <1>u, <1>i, <1>10 DEF Retires, CompareConflicts, CreationIndeterminate,
       CreatedRetireAlias, UntouchedLabels
  <1>11. ASSUME NEW known \in SUBSET Leaves, NEW image, ParentChanged(o, known, image)
         PROVE  Returns(o)
    <2>1. {Spare(o)} \union (IF image = Nothing THEN {} ELSE {Copy(o)}) \subseteq Leaves
      BY LeafType
    <2>2. PICK kept \in SUBSET ({Spare(o)} \union IF image = Nothing THEN {} ELSE {Copy(o)}) :
            Return(o, "indeterminate", Nothing, Existing(known) \union kept)
      BY <1>11 DEF ParentChanged
    <2>3. Existing(known) \union kept \in SUBSET Leaves
      BY <1>0, <2>1
    <2>. QED BY <1>0, <1>1, <1>i, <2>2, <2>3
  <1>12. CASE CheckParent(o) \/ CreatedCheckParent(o) \/ ReplacedCheckParent(o)
    BY <1>0, <1>11, <1>12 DEF CheckParent, CreatedCheckParent, ReplacedCheckParent, Quiet
  <1>13. CASE Inspect(o) \/ Assess(o)
    BY <1>0, <1>1, <1>u, <1>q, <1>13 DEF Inspect, Assess, Quiet, UntouchedLabels, RemoveLabels
  <1>14. CASE WriteStep(o)
    BY <1>2, <1>3, <1>4, <1>5, <1>6, <1>8, <1>9, <1>10, <1>12, <1>14
       DEF WriteStep, StillWrite, Confirms, Retires, Mutation
  <1>15. CASE RemoveStep(o)
    BY <1>2, <1>3, <1>7, <1>8, <1>9, <1>13, <1>15
       DEF RemoveStep, StillRemove, Confirms, Mutation
  <1>. QED BY <1>3, <1>14, <1>15 DEF OpStep

(* The running call has not been answered.                                 *)
LEMMA Unanswered ==
  ASSUME BaseInv, NEW o \in Ops, Call(o) \/ OpStep(o)
  PROVE  reply[o] = Nothing /\ pc[o] # "done"
  <1>1. pc[o] # "done"
    <2>1. RemoveStep(o) => pc[o] # "done"
      BY DEF RemoveStep, Inspect, MoveToQuarantine, MoveFails, Reinspect, QuarantineSync, Examine,
         Assess, Restore, RestoreFails, RestoreSync, Unlink, UnlinkMismatch, UnlinkSync,
         RemoveFails, Goto
    <2>. QED BY <2>1, WriteLabel DEF OpStep, Call, Acquire, WriteLabels
  <1>. QED BY <1>1 DEF BaseInv, EffectInv, EffectOK

(* The calls whose synchronization was missed, as the contract sees them.  *)
Drifting == {o \in Ops : Adrift(o)}

LEMMA DriftingStays ==
  ASSUME strayed' = strayed
  PROVE  Drifting' = Drifting
  BY DEF Drifting, Adrift, Missed

LEMMA AskStep ==
  ASSUME ContractInv, ContractInv', NEW o \in Ops, Call(o)
  PROVE  Contract!Ask(o)
  <1>0. BaseInv /\ BaseInv' /\ TypeInv /\ Frame(o) /\ EffectOK(o)
    BY StepFrame DEF ContractInv, BaseInv, EffectInv
  <1>1. reply[o] = Nothing /\ pc[o] = "idle" /\ effect[o] = {}
    BY <1>0, Unanswered DEF Call, EffectOK, UntouchedLabels, Clean
  <1>2. /\ UNCHANGED <<names, data, here, effect, reply>>
        /\ \E q : request' = [request EXCEPT ![o] = q] /\ q.expected \in {Cell, Nothing}
    <2>1. CASE \E expected \in {Cell, Nothing}, b \in Images :
                 request' = [request EXCEPT ![o] =
                               [kind |-> "write", expected |-> expected, bytes |-> b]]
      <3>1. PICK expected \in {Cell, Nothing}, b \in Images :
              request' = [request EXCEPT ![o] =
                            [kind |-> "write", expected |-> expected, bytes |-> b]]
        BY <2>1
      <3>. DEFINE q == [kind |-> "write", expected |-> expected, bytes |-> b]
      <3>2. request' = [request EXCEPT ![o] = q] /\ q.expected \in {Cell, Nothing}
        BY <3>1
      <3>. QED BY <3>2 DEF Call, ns
    <2>2. CASE request' = [request EXCEPT ![o] =
                             [kind |-> "remove", expected |-> Cell, bytes |-> Nothing]]
      <3>. DEFINE q == [kind |-> "remove", expected |-> Cell, bytes |-> Nothing]
      <3>1. request' = [request EXCEPT ![o] = q] /\ q.expected \in {Cell, Nothing}
        BY <2>2
      <3>. QED BY <3>1 DEF Call, ns
    <2>. QED BY <2>1, <2>2 DEF Call, Cell
  <1>3. request' = [request EXCEPT ![o] = request'[o]] /\ request'[o].expected \in {Cell, Nothing}
    BY <1>0, <1>2, Parts DEF ControlOK
  <1>4. Cell' = Cell
    BY <1>2 DEF Cell, Capture, VersionOf
  <1>5. \A p \in Ops : AnswerOf(p)' = AnswerOf(p)
    BY <1>0, <1>1, <1>2, <1>3, Parts DEF AnswerOf, ControlOK
  <1>6. Drifting' = Drifting
    BY DriftingStays DEF Call, bounds
  <1>. QED BY <1>1, <1>2, <1>3, <1>4, <1>5, <1>6 DEF Contract!Ask, AnswerOf, Cell, Drifting

LEMMA AnswerStep ==
  ASSUME ContractInv, ContractInv', NEW o \in Ops, OpStep(o), ~ Mutation(o),
         NEW k \in Answering, NEW v \in Optional(Versions), NEW r \in SUBSET Leaves,
         Return(o, k, v, r), Truthful(o, k, r)
  PROVE  Contract!Answer(o)
  <1>0. BaseInv /\ BaseInv' /\ TypeInv /\ Frame(o) /\ Drifting' = Drifting
    BY StepFrame, DriftingStays DEF ContractInv, BaseInv, Frame, bounds
  <1>1. /\ reply[o] = Nothing
        /\ reply' = [reply EXCEPT ![o] = [kind |-> k, version |-> v, recovery |-> r]]
        /\ pc'[o] = "done"
    BY <1>0, Unanswered, Parts DEF Return, ControlOK
  <1>2. UNCHANGED <<request, effect>>
    <2>1. ~ Call(o)
      BY <1>0, <1>1, Parts DEF Call, ControlOK
    <2>. QED BY <1>0, <2>1 DEF Frame
  <1>3. Cell' = Cell
    BY <1>0, CellStays
  <1>. DEFINE a == AnswerOf(o)'
  <1>4. reply'[o] = [kind |-> k, version |-> v, recovery |-> r] /\ reply'[o] # Nothing
    <2>1. reply'[o] = [kind |-> k, version |-> v, recovery |-> r]
      BY <1>0, <1>1, Parts DEF ControlOK
    <2>2. reply'[o] # Nothing
      <3>1. [kind |-> k, version |-> v, recovery |-> r] \in Replies
        BY DEF Replies, Answering
      <3>. QED BY <2>1, <3>1, VersionAssumption
    <2>. QED BY <2>1, <2>2
  <1>5. a = IF k = "conflict" /\ request[o].kind = "remove" /\ r # {} THEN "indeterminate" ELSE k
    BY <1>2, <1>4 DEF AnswerOf
  <1>6. a \in {"committed", "deleted"} => effect[o] = {request[o].expected}
    BY <1>5 DEF Truthful
  <1>7. a \in {"notCommitted", "notDeleted", "conflict", "error"} => effect[o] = {}
    <2>1. request[o].kind \in {"write", "remove"}
      BY <1>0, Parts DEF ControlOK, Requests
    <2>2. a \in {"notCommitted", "notDeleted", "conflict", "error"} => IsDenial(o, k, r)
      BY <1>5, <2>1 DEF IsDenial
    <2>. QED BY <2>2 DEF Truthful
  <1>8. a \in {"committed", "deleted"} \union {"notCommitted", "notDeleted", "conflict", "error"}
              \union {"indeterminate"}
    BY <1>5 DEF Answering, Kinds
  <1>9. \A p \in Ops : AnswerOf(p)' = IF p = o THEN a ELSE AnswerOf(p)
    BY <1>0, <1>1, <1>2, Parts DEF AnswerOf, ControlOK
  <1>10. AnswerOf(o) = "none"
    BY <1>1 DEF AnswerOf
  <1>. HIDE DEF a
  <1>. DEFINE before == [p \in Ops |-> AnswerOf(p)]
              after  == [p \in Ops |-> AnswerOf(p)']
  <1>11. after = [before EXCEPT ![o] = a] /\ before[o] = "none"
    BY <1>9, <1>10
  <1>. QED BY <1>0, <1>2, <1>3, <1>6, <1>7, <1>8, <1>11
           DEF Contract!Answer, Contract!Confirmed, Contract!Denied, AnswerOf, Cell, Drifting

LEMMA AnswersStay ==
  ASSUME TypeInv, UNCHANGED <<request, reply>>
  PROVE  \A p \in Ops : AnswerOf(p)' = AnswerOf(p)
  BY DEF AnswerOf

(* The first mutation of a call is the change of the contract, a restored  *)
(* quarantine its put-back, and a failure that moved nothing no step.      *)
LEMMA ChangeStep ==
  ASSUME ContractInv, ContractInv', NEW o \in Ops, Mutation(o), OpStep(o)
  PROVE  Contract!Change(o) \/ Contract!PutBack(o) \/ UNCHANGED Contract!vars
  <1>0. /\ BaseInv /\ BaseInv' /\ TypeInv /\ TypeInv' /\ EffectOK(o) /\ KeptInv
        /\ Dest \in Leaves /\ Quarantine(o) \in Leaves /\ here \in Dirs
    BY LeafNames, LeafType, NothingIsNoFile DEF ContractInv, BaseInv, EffectInv
  <1>1. /\ UNCHANGED <<request, reply, data, here, strayed>>
        /\ pc[o] \in {"install", "quarantine", "restore"}
    BY DEF Mutation, InstallAbsent, Replace, Mutates, ReplacePartially, MoveToQuarantine, Restore,
       Goto, local, bounds
  <1>d. Drifting' = Drifting
    BY <1>1, DriftingStays
  <1>2. AnswerOf(o) = "none" /\ \A p \in Ops : AnswerOf(p)' = AnswerOf(p)
    BY <1>0, <1>1, Unanswered, AnswersStay DEF AnswerOf
  <1>3. Cell' \in Versions \union {Nothing}
    BY <1>0, CellType
  <1>4. ASSUME effect[o] = {}, effect' = [effect EXCEPT ![o] = {Cell}],
               request[o].kind = "remove" => Cell # Nothing /\ Cell' = Nothing
        PROVE  Contract!Change(o)
    BY <1>1, <1>2, <1>3, <1>4, <1>d DEF Contract!Change, AnswerOf, Cell, Drifting
  <1>5. CASE \/ InstallAbsent(o) \/ Replace(o)
             \/ ReplacePartially(o) /\ ~ UNCHANGED <<names, effect>>
    <2>1. pc[o] = "install" /\ effect' = [effect EXCEPT ![o] = {Cell}]
      BY <1>5 DEF InstallAbsent, Replace, Mutates, ReplacePartially, Goto, Cell
    <2>2. request[o].kind # "remove"
      BY <1>0, <2>1, Parts DEF ControlOK, RequestOK, WriteLabels
    <2>3. effect[o] = {}
      BY <1>0, <2>1 DEF EffectOK, UntouchedLabels, Clean
    <2>. QED BY <1>4, <2>1, <2>2, <2>3
  <1>6. CASE ReplacePartially(o) /\ UNCHANGED <<names, effect>>
    <2>1. Cell' = Cell
      BY <1>1, <1>6 DEF Cell, Capture, VersionOf
    <2>. QED BY <1>1, <1>2, <1>6, <1>d, <2>1 DEF Contract!vars, AnswerOf, Cell, Drifting
  <1>7. CASE MoveToQuarantine(o)
    <2>1. pc[o] = "quarantine" /\ effect' = [effect EXCEPT ![o] = {Cell}] /\ names[here][Dest] # Nothing
      BY <1>7 DEF MoveToQuarantine, Goto, Cell
    <2>2. effect[o] = {}
      BY <1>0, <2>1 DEF EffectOK, UntouchedLabels, Clean
    <2>3. Cell # Nothing
      BY <1>0, <2>1, VersionApart, Parts DEF Cell, Capture, NamesOK, Namespaces, Optional
    <2>4. names'[here][Dest] = Nothing
      BY <1>0, <1>7, MoveNames, RoleApart DEF MovesTo
    <2>5. Cell' = Nothing
      BY <1>1, <2>4 DEF Cell, Capture
    <2>. QED BY <1>4, <2>1, <2>2, <2>3, <2>5
  <1>8. CASE Restore(o)
    <2>1. /\ pc[o] = "restore" /\ effect' = [effect EXCEPT ![o] = {}]
          /\ names[here][Dest] = Nothing /\ names[here][Quarantine(o)] # Nothing
      BY <1>8 DEF Restore, Goto
    <2>2. request[o].kind = "remove"
      BY <1>0, <2>1, Parts DEF ControlOK, RequestOK, RemoveLabels
    <2>3. effect[o] # {}
      BY <2>1 DEF ContractInv, TookInv, Took
    <2>4. names'[here][Dest] = names[here][Quarantine(o)]
      BY <1>0, <1>8, MoveNames, RoleApart DEF MovesTo
    <2>5. Cell = Nothing /\ Cell' = VersionOf(names[here][Quarantine(o)])
      BY <1>1, <2>1, <2>4 DEF Cell, Capture, VersionOf
    <2>6. Cell' # Nothing
      BY <1>0, <2>1, <2>5, VersionApart, Parts DEF NamesOK, Namespaces, Optional
    <2>. QED BY <1>1, <1>2, <1>d, <2>1, <2>2, <2>3, <2>5, <2>6
             DEF Contract!PutBack, AnswerOf, Cell, Drifting
  <1>. QED BY <1>5, <1>6, <1>7, <1>8 DEF Mutation

LEMMA CallContract ==
  ASSUME ContractInv, ContractInv', NEW o \in Ops, Call(o) \/ OpStep(o)
  PROVE  \/ Contract!Ask(o) \/ Contract!Change(o) \/ Contract!PutBack(o) \/ Contract!Answer(o)
         \/ UNCHANGED Contract!vars
  <1>0. BaseInv /\ BaseInv' /\ TypeInv /\ TypeInv' /\ Frame(o)
    BY StepFrame DEF ContractInv, BaseInv
  <1>1. CASE Call(o)
    BY <1>1, AskStep
  <1>2. CASE OpStep(o) /\ Mutation(o)
    BY <1>2, ChangeStep
  <1>3. CASE OpStep(o) /\ ~ Mutation(o) /\ Returns(o)
    BY <1>3, AnswerStep DEF Returns
  <1>4. CASE OpStep(o) /\ ~ Mutation(o) /\ ~ Call(o) /\ ~ Returns(o)
    <2>1. UNCHANGED <<request, effect, reply>> /\ Drifting' = Drifting
      BY <1>0, <1>4, StepReplies, DriftingStays DEF Frame, bounds
    <2>2. Cell' = Cell
      BY <1>0, <1>4, CellStays
    <2>3. \A p \in Ops : AnswerOf(p)' = AnswerOf(p)
      BY <1>0, <2>1, AnswersStay
    <2>. QED BY <2>1, <2>2, <2>3 DEF Contract!vars, AnswerOf, Cell, Drifting
  <1>. QED BY <1>1, <1>2, <1>3, <1>4

LEMMA EnvironmentContract ==
  ASSUME ContractInv, ContractInv', Environment
  PROVE  Contract!Foreign \/ Contract!PowerLoss
  <1>0. /\ BaseInv /\ TypeInv /\ TypeInv' /\ Cell' \in Versions \union {Nothing}
    BY CellType DEF ContractInv, BaseInv
  <1>1. CASE ForeignWrites \/ ForeignReplaces \/ ForeignRemoves \/ SwapParent
    <2>1. UNCHANGED <<request, effect, reply>>
      BY <1>0, <1>1, ForeignFiles
    <2>2. \A p \in Ops : AnswerOf(p)' = AnswerOf(p)
      BY <1>0, <2>1, AnswersStay
    <2>3. Straying
      BY <1>1 DEF ForeignWrites, ForeignReplaces, ForeignRemoves, SwapParent, Straying
    <2>4. Drifting \subseteq Drifting'
      BY <2>3, AdriftStays DEF Straying, Drifting
    <2>5. ASSUME NEW p \in Drifting' \ Drifting PROVE p \in Ops /\ AnswerOf(p) = "none"
      <3>1. p \in Ops /\ Adrift(p)' /\ ~ Adrift(p)
        BY <2>5 DEF Drifting
      <3>2. pc[p] \in Syncs
        BY <2>3, <3>1, DriftKept
      <3>. QED BY <1>0, <3>1, <3>2 DEF BaseInv, EffectInv, EffectOK, Syncs, AnswerOf
    <2>. QED BY <1>0, <2>1, <2>2, <2>4, <2>5 DEF Contract!Foreign, AnswerOf, Cell, Drifting
  <1>2. CASE PowerLoss
    <2>1. Platform = "unix" /\ request' = request /\ Drifting' = Drifting
      BY <1>0, <1>2, Parts, PlatformAssumption, PowerLossAssumption, DriftingStays
         DEF PowerLoss, FilesOK, local
    <2>2. PICK image \in onDisk : effect' = image.effect
      BY <1>2 DEF PowerLoss
    <2>3. ASSUME NEW p \in Ops
          PROVE  /\ effect'[p] \in {effect[p], {}} \/ request[p].kind = "remove"
                 /\ AnswerOf(p) \in {"committed", "deleted"} /\ p \notin Drifting =>
                      effect'[p] = effect[p]
                 /\ AnswerOf(p)' \in {AnswerOf(p), "died"}
                 /\ AnswerOf(p) # "none" => AnswerOf(p)' = AnswerOf(p)
      <3>1. effect'[p] \in {effect[p], {}} \/ request[p].kind = "remove"
        <4>1. request[p].kind \in {"write", "remove"}
          BY <1>0, Parts DEF ControlOK, Requests
        <4>. QED BY <2>1, <2>2, <4>1 DEF ContractInv, WritesInv
      <3>2. AnswerOf(p) \in {"committed", "deleted"} /\ p \notin Drifting => effect'[p] = effect[p]
        BY <1>0, <2>1, <2>2 DEF AnswerOf, BaseInv, SettledInv, SettledOK, Settled, Answered, Drifting
      <3>3. reply[p] # Nothing => reply'[p] = reply[p]
        BY <1>0, <1>2 DEF PowerLoss, BaseInv, EffectInv, EffectOK
      <3>4. reply'[p] = reply[p]
            \/ reply'[p] = [kind |-> "died", version |-> Nothing, recovery |-> {}]
        BY <1>2 DEF PowerLoss
      <3>5. [kind |-> "died", version |-> Nothing, recovery |-> {}] # Nothing
        <4>1. [kind |-> "died", version |-> Nothing, recovery |-> {}] \in Replies
          BY DEF Replies, Kinds, Optional
        <4>. QED BY <4>1, VersionAssumption
      <3>. QED BY <2>1, <3>1, <3>2, <3>3, <3>4, <3>5 DEF AnswerOf
    <2>. QED BY <1>0, <2>1, <2>3 DEF Contract!PowerLoss, Contract!Confirmed, AnswerOf, Cell, Drifting
  <1>. QED BY <1>1, <1>2 DEF Environment

LEMMA ContractNext ==
  ASSUME ContractInv, ContractInv', [Next]_vars
  PROVE  [Contract!Next]_(Contract!vars)
  <1>1. CASE \E o \in Ops : Call(o) \/ OpStep(o)
    BY <1>1, CallContract DEF Contract!Next
  <1>2. CASE Environment
    BY <1>2, EnvironmentContract DEF Contract!Next
  <1>3. CASE UNCHANGED vars
    <2>1. UNCHANGED <<names, data, here, request, effect, reply>> /\ Drifting' = Drifting
      BY <1>3, DriftingStays DEF vars, ns, local, bounds
    <2>. QED BY <2>1 DEF Contract!vars, Capture, VersionOf, Drifting
  <1>. QED BY <1>1, <1>2, <1>3 DEF Next

(* durable_write and durable_remove_exact implement the contract the rest  *)
(* of the program relies on: a call changes the destination in one step,   *)
(* at most once (a delete may put its file back), and its answer tells     *)
(* truthfully whether that step met exactly the expected version; a power  *)
(* loss undoes nothing that was confirmed, unless the directory was moved  *)
(* away from its synchronization.                                          *)
THEOREM ContractCorrect == Spec => ImplementsContract
  <1>1. Init => ContractInv /\ Contract!Init
    <2>1. ASSUME Init PROVE Contract!Init
      <3>1. Capture(Dest) \in Versions \union {Nothing}
        BY <2>1, TypeInitial, CaptureType, LeafNames, Parts DEF Optional, Leaves
      <3>2. /\ effect = [o \in Ops |-> {}]
            /\ \A o \in Ops : reply[o] = Nothing /\ ~ Adrift(o)
        BY <2>1 DEF Init, Adrift, Missed
      <3>. QED BY <3>1, <3>2 DEF Contract!Init
    <2>. QED BY <2>1, ContractInitial
  <1>2. ContractInv /\ [Next]_vars => ContractInv'
    BY ContractStep
  <1>3. ContractInv /\ ContractInv' /\ [Next]_vars => [Contract!Next]_(Contract!vars)
    BY ContractNext
  <1>4. QED
    BY <1>1, <1>2, <1>3, PTL DEF Spec, ImplementsContract, Contract!Spec
===============================================================================
