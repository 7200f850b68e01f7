------------------------- MODULE PaneReplicationProofs -------------------------
(***************************************************************************)
(* Theorems about PaneReplication, for every set of pop-outs and every     *)
(* value of the bounds.                                                    *)
(***************************************************************************)
EXTENDS PaneReplication, TLAPS

-------------------------------------------------------------------------------
(* Types.                                                                  *)

SnapshotMessages == [type : {"snapshot"}, to : Replicas, snapshot : Snapshots]
RequestMessages  == [type : {"request"}, from : Replicas]
ContentMessages  ==
    [type : {"content"}, authority : 1..MaxAuthorities, source : 0..MaxLaunches,
     sequence : Nat, doc : 1..MaxDocs, epoch : Nat, text : Texts]

(* The invariant in parts, each of which most actions leave alone.         *)
SessionOK ==
    /\ state \in States
    /\ unrendered \in BOOLEAN
    /\ opening \in States \cup {None}
    /\ watch \in Nat

PublisherOK ==
    /\ authority \in 1..MaxAuthorities
    /\ revision \in Nat
    /\ highest \in Nat
    /\ snapshot \in Snapshots \cup {None}
    /\ pending \in Snapshots \cup {None}
    /\ lastSeq \in [1..MaxLaunches -> Nat]

CacheOK == cache \in Snapshots \cup {None}

MessagesOK == messages \subseteq SnapshotMessages \cup RequestMessages \cup ContentMessages

Panes ==
    [phase : {"closed", "starting", "listening"}, source : 0..MaxLaunches,
     sequence : Nat, accepted : Snapshots \cup {None}, live : BOOLEAN,
     pin : 0..MaxAuthorities, typed : Texts \cup {None}]

ReplicasOK == replica \in [Replicas -> Panes]

CountOK ==
    count \in [docs : 1..MaxDocs, edits : 0..MaxEdits, saveAs : 0..MaxSaveAs,
               launches : 0..MaxLaunches, losses : 0..MaxLosses]

TypeInv == SessionOK /\ PublisherOK /\ CacheOK /\ MessagesOK /\ ReplicasOK /\ CountOK

LEMMA TypeParts == TypeInv => TypeOK
  BY DEF TypeInv, TypeOK, SessionOK, PublisherOK, CacheOK, ReplicasOK, Panes

(* Neither a state nor a snapshot is the absent one.                       *)
LEMMA NoneApart == None \notin States /\ None \notin Snapshots
  <1>1. ASSUME NEW s \in States PROVE s # None
    <2>1. DOMAIN s = {"doc", "epoch", "preview", "status", "kind", "text", "saved"}
      BY DEF States
    <2>2. DOMAIN None = {"none"}
      BY DEF None
    <2>. QED BY <2>1, <2>2
  <1>2. ASSUME NEW s \in Snapshots PROVE s # None
    <2>1. DOMAIN s = {"authority", "revision", "state"}
      BY DEF Snapshots
    <2>2. DOMAIN None = {"none"}
      BY DEF None
    <2>. QED BY <2>1, <2>2
  <1>. QED BY <1>1, <1>2

LEMMA NewDocument ==
  ASSUME NEW d \in 1..MaxDocs, NEW e \in Nat, NEW k \in {"text", "binary"},
         NEW status \in Statuses
  PROVE  Document(d, e, k, status) \in States
  BY BoundAssumption DEF Document, States, Texts

LEMMA NewText ==
  ASSUME CountOK, count.edits < MaxEdits, NEW home \in 1..MaxDocs
  PROVE  NextText(home) \in Texts
  BY BoundAssumption DEF CountOK, NextText, Texts

LEMMA CopiesType ==
  ASSUME NEW s \in Snapshots
  PROVE  Copies(s) \subseteq SnapshotMessages
  BY DEF Copies, SnapshotMessages

(* Setting one field keeps a record in its set.                            *)
LEMMA StateFields ==
  ASSUME NEW s \in States
  PROVE  /\ \A t \in Texts : [s EXCEPT !.text = t] \in States
         /\ \A t \in Texts : [s EXCEPT !.saved = t] \in States
         /\ \A n \in Nat : [s EXCEPT !.preview = n] \in States
         /\ \A n \in Nat : [s EXCEPT !.epoch = n] \in States
  <1>1. ASSUME NEW t \in Texts
        PROVE  [s EXCEPT !.text = t] \in States /\ [s EXCEPT !.saved = t] \in States
    BY DEF States
  <1>2. ASSUME NEW n \in Nat
        PROVE  [s EXCEPT !.preview = n] \in States /\ [s EXCEPT !.epoch = n] \in States
    BY DEF States
  <1>. QED BY <1>1, <1>2

LEMMA SnapshotFields ==
  ASSUME NEW s \in Snapshots
  PROVE  /\ \A n \in Nat : [s EXCEPT !.revision = n] \in Snapshots
         /\ \A t \in States : [s EXCEPT !.state = t] \in Snapshots
  BY DEF Snapshots

LEMMA PaneFields ==
  ASSUME NEW p \in Panes
  PROVE  /\ \A t \in Texts : [p EXCEPT !.typed = t] \in Panes
         /\ \A n \in Nat : [p EXCEPT !.sequence = n] \in Panes
         /\ \A n \in 0..MaxLaunches : [p EXCEPT !.source = n] \in Panes
         /\ \A a \in Snapshots \cup {None} : [p EXCEPT !.accepted = a] \in Panes
         /\ [p EXCEPT !.phase = "starting"] \in Panes
  <1>1. ASSUME NEW t \in Texts PROVE [p EXCEPT !.typed = t] \in Panes
    BY DEF Panes
  <1>2. ASSUME NEW n \in Nat PROVE [p EXCEPT !.sequence = n] \in Panes
    BY DEF Panes
  <1>3. ASSUME NEW n \in 0..MaxLaunches PROVE [p EXCEPT !.source = n] \in Panes
    BY DEF Panes
  <1>4. ASSUME NEW a \in Snapshots \cup {None} PROVE [p EXCEPT !.accepted = a] \in Panes
    BY DEF Panes
  <1>5. [p EXCEPT !.phase = "starting"] \in Panes
    BY DEF Panes
  <1>. QED BY <1>1, <1>2, <1>3, <1>4, <1>5

(* The snapshot that stands for accepted text.                             *)
LEMMA TextSnapshot ==
  ASSUME NEW s \in Snapshots, NEW n \in Nat, NEW t \in Texts
  PROVE  [s EXCEPT !.revision = n, !.state.text = t] \in Snapshots
  <1>. DEFINE u == [s EXCEPT !.revision = n]
              v == [u.state EXCEPT !.text = t]
  <1>1. u \in Snapshots
    BY SnapshotFields
  <1>2. u.state \in States
    BY <1>1 DEF Snapshots
  <1>3. v \in States
    BY <1>2, StateFields
  <1>4. [u EXCEPT !.state = v] \in Snapshots
    BY <1>1, <1>3, SnapshotFields
  <1>. QED BY <1>4

LEMMA Counting ==
  ASSUME CountOK
  PROVE  /\ count.docs < MaxDocs /\ Counted("docs") =>
              CountOK' /\ count.docs + 1 \in 1..MaxDocs
         /\ count.edits < MaxEdits /\ Counted("edits") => CountOK'
         /\ count.saveAs < MaxSaveAs /\ Counted("saveAs") => CountOK'
         /\ count.launches < MaxLaunches /\ Counted("launches") =>
              CountOK' /\ count.launches + 1 \in 0..MaxLaunches
         /\ count.losses < MaxLosses /\ Counted("losses") => CountOK'
  BY BoundAssumption DEF CountOK, Counted

LEMMA TypeInit == Init => TypeInv
  <1>. SUFFICES ASSUME Init PROVE TypeInv
    OBVIOUS
  <1>1. SessionOK
    BY NewDocument, BoundAssumption DEF Init, SessionOK, Statuses
  <1>2. PublisherOK /\ CacheOK /\ MessagesOK
    BY BoundAssumption DEF Init, PublisherOK, CacheOK, MessagesOK
  <1>3. ReplicasOK
    BY BoundAssumption DEF Init, ReplicasOK, Panes, Closed
  <1>4. CountOK
    BY BoundAssumption DEF Init, CountOK
  <1>. QED BY <1>1, <1>2, <1>3, <1>4 DEF TypeInv

(* A change of the document that the bound on edits counts.                *)
LEMMA TypeEdit ==
  ASSUME TypeInv,
         \/ Type \/ Save \/ LockAuthority \/ RegisterWatch
         \/ SeeSameFile \/ SeeChangedFile
  PROVE  TypeInv'
  <1>. USE DEF TypeInv, SessionOK, PublisherOK, CacheOK, MessagesOK, ReplicasOK,
               publisher, Becomes
  <1>1. state.doc \in 1..MaxDocs
    BY DEF States
  <1>2. CASE Type
    BY <1>1, <1>2, NewText, Counting DEF Type, States, CountOK
  <1>3. CASE Save
    BY <1>3, Counting DEF Save, States
  <1>4. CASE LockAuthority
    BY <1>4, Counting DEF LockAuthority, States, Statuses
  <1>5. CASE RegisterWatch
    <2>. DEFINE s == [state EXCEPT !.preview = 1,
                        !.epoch = IF state.kind = "text" THEN @ ELSE @ + 1]
                u == [state EXCEPT !.preview = 1]
    <2>0. state.epoch \in Nat /\ state.epoch + 1 \in Nat
      BY DEF States
    <2>1. s \in States
      <3>1. u \in States
        BY StateFields
      <3>. QED BY <2>0, <3>1, StateFields
    <2>2. CountOK' /\ state' = s
      BY <1>5, Counting DEF RegisterWatch
    <2>. HIDE DEF s
    <2>. QED BY <1>5, <2>1, <2>2 DEF RegisterWatch
  <1>6. CASE SeeSameFile
    BY <1>6, Counting DEF SeeSameFile, States
  <1>7. CASE SeeChangedFile
    <2>. DEFINE text == NextText(state.doc)
                s == [state EXCEPT !.preview = watch + 1, !.epoch = @ + 1,
                                   !.text = text, !.saved = text]
    <2>1. text \in Texts
      BY <1>1, <1>7, NewText DEF SeeChangedFile
    <2>2. CountOK' /\ state' = s
      BY <1>7, Counting DEF SeeChangedFile
    <2>. HIDE DEF text
    <2>3. s \in States
      <3>. DEFINE u == [state EXCEPT !.preview = watch + 1]
                  v == [u EXCEPT !.epoch = state.epoch + 1]
                  w == [v EXCEPT !.text = text]
      <3>1. u \in States
        BY StateFields
      <3>2. v \in States
        <4>. state.epoch + 1 \in Nat
          BY DEF States
        <4>. HIDE DEF u
        <4>. QED BY <3>1, StateFields
      <3>3. w \in States
        <4>. HIDE DEF v
        <4>. QED BY <2>1, <3>2, StateFields
      <3>4. [w EXCEPT !.saved = text] \in States
        <4>. HIDE DEF w
        <4>. QED BY <2>1, <3>3, StateFields
      <3>. QED BY <3>4
    <2>. HIDE DEF s
    <2>. QED BY <1>7, <2>2, <2>3 DEF SeeChangedFile
  <1>. QED BY <1>2, <1>3, <1>4, <1>5, <1>6, <1>7

(* A document is opened, is saved under another name or comes with a new   *)
(* main window.                                                            *)
LEMMA TypeOpen ==
  ASSUME TypeInv,
         \/ \E k \in Kinds : OpenDocument(k) \/ PrepareOpen(k)
         \/ \E outcome \in OpenOutcomes : ResolveOpen(outcome)
         \/ SaveAs \/ ReloadMain
  PROVE  TypeInv'
  <1>. USE DEF TypeInv, SessionOK, PublisherOK, CacheOK, MessagesOK, ReplicasOK,
               publisher, Becomes
  <1>1. state.epoch \in Nat /\ state.epoch + 1 \in Nat
    BY DEF States
  <1>2. ASSUME NEW k \in Kinds, OpenDocument(k) \/ PrepareOpen(k) PROVE TypeInv'
    <2>1. k \in {"text", "binary"}
      BY OutcomeAssumption
    <2>2. CountOK' /\ count.docs + 1 \in 1..MaxDocs
      BY <1>2, Counting DEF OpenDocument, PrepareOpen
    <2>3. state' \in States
      BY <1>1, <1>2, <2>1, <2>2, NewDocument DEF OpenDocument, PrepareOpen, Statuses
    <2>4. /\ unrendered' = TRUE /\ opening' \in {state, None} /\ watch' = 0
          /\ UNCHANGED <<publisher, cache, messages, replica>>
      BY <1>2 DEF OpenDocument, PrepareOpen
    <2>5. SessionOK'
      BY <2>3, <2>4
    <2>. QED BY <2>2, <2>4, <2>5
  <1>3. ASSUME NEW outcome \in OpenOutcomes, ResolveOpen(outcome) PROVE TypeInv'
    <2>1. opening \in States
      BY <1>3 DEF ResolveOpen
    <2>2. outcome # "not_committed" => outcome \in Statuses
      BY OutcomeAssumption DEF Statuses
    <2>3. state' \in States
      BY <1>3, <2>1, <2>2 DEF ResolveOpen, States
    <2>. QED BY <1>3, <2>3 DEF ResolveOpen, CountOK
  <1>4. CASE SaveAs
    BY <1>4, Counting DEF SaveAs, States
  <1>5. CASE ReloadMain
    <2>1. CountOK' /\ count.docs + 1 \in 1..MaxDocs
      BY <1>5, Counting DEF ReloadMain
    <2>2. state' \in States
      BY <1>5, <2>1, NewDocument DEF ReloadMain, Statuses
    <2>. QED BY <1>5, <2>1, <2>2, BoundAssumption DEF ReloadMain
  <1>. QED BY <1>2, <1>3, <1>4, <1>5

(* The publisher publishes, flushes, answers and takes text.               *)
LEMMA TypePublish ==
  ASSUME TypeInv,
         \/ PublishAuthoritativeState \/ FlushAuthoritativeSnapshot
         \/ \E m \in messages : AnswerRequest(m) \/ AcceptContent(m)
  PROVE  TypeInv'
  <1>. USE DEF TypeInv, SessionOK, PublisherOK, CacheOK, MessagesOK, ReplicasOK,
               session
  <1>1. CASE PublishAuthoritativeState
    <2>1. snapshot' \in Snapshots /\ pending' \in Snapshots
      BY <1>1 DEF PublishAuthoritativeState, Enqueue, Snapshots
    <2>2. SessionOK' /\ CountOK'
      BY <1>1 DEF PublishAuthoritativeState, CountOK
    <2>3. PublisherOK'
      BY <1>1, <2>1 DEF PublishAuthoritativeState
    <2>. QED BY <1>1, <2>2, <2>3 DEF PublishAuthoritativeState
  <1>2. CASE FlushAuthoritativeSnapshot
    <2>. DEFINE s == [pending EXCEPT !.revision = FlushedRevision]
    <2>1. pending \in Snapshots
      BY <1>2 DEF FlushAuthoritativeSnapshot
    <2>2. FlushedRevision \in Nat
      BY <2>1 DEF FlushedRevision, Snapshots
    <2>3. s \in Snapshots /\ s.revision \in Nat
      BY <2>1, <2>2 DEF Snapshots
    <2>4. PublisherRevision(s) \in Nat
      BY <2>3 DEF PublisherRevision
    <2>5. Copies(s) \subseteq SnapshotMessages
      BY <2>3, CopiesType
    <2>. HIDE DEF s
    <2>6. /\ revision' = PublisherRevision(s)
          /\ snapshot' = IF s = pending THEN snapshot ELSE s
          /\ cache' = IF s.state.kind = "binary" THEN None ELSE s
          /\ highest' = s.revision
          /\ messages' = messages \cup Copies(s)
      BY <1>2 DEF FlushAuthoritativeSnapshot, s
    <2>. QED BY <1>2, <2>3, <2>4, <2>5, <2>6 DEF FlushAuthoritativeSnapshot, CountOK
  <1>3. ASSUME NEW m \in messages, AnswerRequest(m) PROVE TypeInv'
    <2>1. MessagesOK' /\ highest' \in Nat
      BY <1>3, CopiesType DEF AnswerRequest, Snapshots
    <2>. QED BY <1>3, <2>1 DEF AnswerRequest, CountOK
  <1>4. ASSUME NEW m \in messages, AcceptContent(m) PROVE TypeInv'
    <2>1. m \in ContentMessages
      BY <1>4 DEF AcceptContent, SnapshotMessages, RequestMessages
    <2>2. CASE IsAcceptable(m)
      <3>1. snapshot \in Snapshots
        BY <2>2 DEF IsAcceptable
      <3>2. /\ [snapshot EXCEPT !.revision = revision + 1, !.state.text = m.text] \in Snapshots
            /\ [state EXCEPT !.text = m.text] \in States
        <4>1. m.text \in Texts
          BY <2>1 DEF ContentMessages
        <4>2. [state EXCEPT !.text = m.text] \in States
          BY <4>1, StateFields
        <4>3. revision + 1 \in Nat
          OBVIOUS
        <4>. HIDE DEF PublisherOK, SessionOK
        <4>. QED BY <3>1, <4>1, <4>2, <4>3, TextSnapshot
      <3>3. [lastSeq EXCEPT ![m.source] = m.sequence] \in [1..MaxLaunches -> Nat]
        BY <2>1 DEF ContentMessages
      <3>4. SessionOK'
        BY <1>4, <2>2, <3>2 DEF AcceptContent, Becomes
      <3>5. PublisherOK'
        <4>. DEFINE s == [snapshot EXCEPT !.revision = revision + 1,
                                          !.state.text = m.text]
        <4>1. /\ revision' = revision + 1 /\ snapshot' = s /\ pending' = s
              /\ lastSeq' = [lastSeq EXCEPT ![m.source] = m.sequence]
              /\ UNCHANGED <<authority, highest>>
          BY <1>4, <2>2 DEF AcceptContent, Enqueue
        <4>. HIDE DEF s
        <4>2. s \in Snapshots
          BY <3>2 DEF s
        <4>. QED BY <3>3, <4>1, <4>2
      <3>. QED BY <1>4, <2>2, <3>4, <3>5 DEF AcceptContent, CountOK
    <2>3. CASE ~IsAcceptable(m)
      BY <1>4, <2>3 DEF AcceptContent, CountOK
    <2>. QED BY <2>2, <2>3
  <1>. QED BY <1>1, <1>2, <1>3, <1>4

(* The pop-outs open, listen, close, take snapshots and send text.         *)
LEMMA TypePopout ==
  ASSUME TypeInv,
         \/ \E r \in Editors : TypeInPopout(r)
         \/ \E r \in Replicas : Listen(r) \/ Open(r) \/ Close(r)
         \/ \E m \in messages : AcceptSnapshot(m) \/ MissSnapshot(m) \/ Lose(m)
  PROVE  TypeInv'
  <1>. USE DEF TypeInv, SessionOK, PublisherOK, CacheOK, MessagesOK, ReplicasOK,
               session, publisher
  <1>1. ASSUME NEW r \in Editors, TypeInPopout(r) PROVE TypeInv'
    <2>. DEFINE a == replica[r].accepted
                text == NextText(a.state.doc)
    <2>0. r \in Replicas /\ replica[r] \in Panes
      BY DEF Replicas
    <2>1. a \in Snapshots
      BY <1>1, <2>0 DEF TypeInPopout, Panes
    <2>2. CountOK' /\ text \in Texts
      BY <1>1, <2>1, NewText, Counting DEF TypeInPopout, Snapshots, States
    <2>3. Content(r, text) \in ContentMessages
      BY <2>0, <2>1, <2>2 DEF Content, ContentMessages, Panes, Snapshots, States
    <2>4. [replica[r] EXCEPT !.typed = text, !.sequence = @ + 1] \in Panes
      <3>. DEFINE p == [replica[r] EXCEPT !.typed = text]
      <3>. HIDE DEF text
      <3>1. p \in Panes
        BY <2>0, <2>2, PaneFields
      <3>2. replica[r].sequence + 1 \in Nat
        BY <2>0 DEF Panes
      <3>3. [p EXCEPT !.sequence = replica[r].sequence + 1] \in Panes
        <4>. HIDE DEF p
        <4>. QED BY <3>1, <3>2, PaneFields
      <3>. QED BY <3>3
    <2>5. replica' = [replica EXCEPT ![r] =
                        [replica[r] EXCEPT !.typed = text, !.sequence = @ + 1]]
      BY <1>1, <2>0 DEF TypeInPopout, Panes
    <2>. HIDE DEF text
    <2>6. ReplicasOK'
      BY <2>0, <2>4, <2>5
    <2>. QED BY <1>1, <2>2, <2>3, <2>6 DEF TypeInPopout, text
  <1>2. ASSUME NEW r \in Replicas, Listen(r) PROVE TypeInv'
    <2>1. MessagesOK'
      BY <1>2 DEF Listen, RequestMessages
    <2>2. ReplicasOK'
      BY <1>2 DEF Listen, Panes
    <2>. QED BY <1>2, <2>1, <2>2 DEF Listen, CountOK
  <1>3. ASSUME NEW r \in Replicas, Open(r) PROVE TypeInv'
    <2>1. CountOK' /\ count.launches + 1 \in 0..MaxLaunches
      BY <1>3, Counting DEF Open
    <2>2. Cached \in Snapshots \cup {None}
      BY DEF Cached, Snapshots, States, Statuses
    <2>3. [Closed EXCEPT !.phase = "starting", !.source = count.launches + 1,
                         !.accepted = Cached] \in Panes
      <3>. DEFINE c == Cached
                  p == [Closed EXCEPT !.phase = "starting"]
                  q == [p EXCEPT !.source = count.launches + 1]
      <3>1. p \in Panes
        <4>1. Closed \in Panes
          BY BoundAssumption DEF Closed, Panes
        <4>. QED BY <4>1, PaneFields
      <3>2. q \in Panes
        <4>. HIDE DEF p
        <4>. QED BY <2>1, <3>1, PaneFields
      <3>3. [q EXCEPT !.accepted = c] \in Panes
        <4>. HIDE DEF c, q
        <4>1. c \in Snapshots \cup {None}
          BY <2>2 DEF c
        <4>. QED BY <3>2, <4>1, PaneFields
      <3>. QED BY <3>3
    <2>4. ReplicasOK'
      BY <1>3, <2>3 DEF Open
    <2>. QED BY <1>3, <2>1, <2>4 DEF Open
  <1>4. ASSUME NEW r \in Replicas, Close(r) PROVE TypeInv'
    <2>1. Closed \in Panes
      BY BoundAssumption DEF Closed, Panes
    <2>. QED BY <1>4, <2>1 DEF Close, CountOK
  <1>5. ASSUME NEW m \in messages, AcceptSnapshot(m) PROVE TypeInv'
    <2>1. m \in SnapshotMessages
      BY <1>5 DEF AcceptSnapshot, ContentMessages, RequestMessages
    <2>. DEFINE r == m.to
                s == m.snapshot
                bound == IF replica[r].pin = 0 THEN s.authority ELSE replica[r].pin
                p == IF bound = s.authority /\ IsNewer(r, s)
                     THEN [replica[r] EXCEPT !.pin = bound, !.accepted = s,
                                             !.live = TRUE, !.typed = None]
                     ELSE [replica[r] EXCEPT !.pin = bound]
    <2>2. r \in Replicas /\ s \in Snapshots /\ replica[r] \in Panes
      BY <2>1 DEF SnapshotMessages
    <2>3. bound \in 0..MaxAuthorities
      BY <2>2, BoundAssumption DEF Snapshots, Panes
    <2>4. p \in Panes
      <3>. HIDE DEF bound, r, s
      <3>. QED BY <2>2, <2>3 DEF Panes
    <2>5. replica' = [replica EXCEPT ![r] = p]
      BY <1>5 DEF AcceptSnapshot
    <2>. HIDE DEF p, r
    <2>6. ReplicasOK'
      BY <2>2, <2>4, <2>5
    <2>. QED BY <1>5, <2>6 DEF AcceptSnapshot, CountOK
  <1>6. ASSUME NEW m \in messages, MissSnapshot(m) PROVE TypeInv'
    BY <1>6 DEF MissSnapshot, CountOK
  <1>7. ASSUME NEW m \in messages, Lose(m) PROVE TypeInv'
    BY <1>7, Counting DEF Lose
  <1>. QED BY <1>1, <1>2, <1>3, <1>4, <1>5, <1>6, <1>7

LEMMA TypeStep == TypeInv /\ [Next]_vars => TypeInv'
  <1>. SUFFICES ASSUME TypeInv, [Next]_vars PROVE TypeInv'
    OBVIOUS
  <1>1. CASE UNCHANGED vars
    BY <1>1 DEF vars, TypeInv, SessionOK, PublisherOK, CacheOK, MessagesOK,
                ReplicasOK, CountOK
  <1>2. CASE Next
    BY <1>2, TypeEdit, TypeOpen, TypePublish, TypePopout DEF Next, Edit, Replicate
  <1>. QED BY <1>1, <1>2

(***************************************************************************)
(* Every value the publisher, its messages and the pop-outs hold is of its *)
(* kind in every reachable state.                                          *)
(***************************************************************************)
THEOREM TypeCorrect == Spec => []TypeOK
  <1>1. Spec => []TypeInv
    BY TypeInit, TypeStep, PTL DEF Spec
  <1>. QED BY <1>1, TypeParts, PTL

-------------------------------------------------------------------------------
(* Revisions.                                                              *)

(* No snapshot has a revision above the publisher's, which is that of the  *)
(* last snapshot, the one a scheduled flush sends.                         *)
LastSnapshotOK ==
    /\ snapshot # None => snapshot.authority = authority /\ snapshot.revision = revision
    /\ pending # None => pending = snapshot
    /\ highest <= revision

VisibleBounded ==
    \A s \in Visible :
        /\ s.authority <= authority
        /\ s.authority = authority => s.revision <= revision

RevisionInv == TypeInv /\ LastSnapshotOK /\ VisibleBounded /\ RevisionNamesOneState

LEMMA VisibleType == TypeInv => Visible \subseteq Snapshots
  BY DEF TypeInv, PublisherOK, CacheOK, MessagesOK, ReplicasOK, Panes, Visible,
         SnapshotMessages, RequestMessages, ContentMessages

(* What can be seen after a step.                                          *)
LEMMA VisibleNext ==
  ASSUME NEW T,
         {snapshot', pending', cache'} \subseteq Visible \cup T \cup {None},
         \A m \in messages' : m.type = "snapshot" => m.snapshot \in Visible \cup T \cup {None},
         \A r \in Replicas :
            replica'[r].live => replica'[r].accepted \in Visible \cup T \cup {None}
  PROVE  Visible' \subseteq Visible \cup T
  BY DEF Visible

LEMMA VisibleNow ==
  /\ {snapshot, pending, cache} \subseteq Visible \cup {None}
  /\ \A m \in messages : m.type = "snapshot" => m.snapshot \in Visible \cup {None}
  /\ \A r \in Replicas : replica[r].live => replica[r].accepted \in Visible \cup {None}
  BY DEF Visible

(* A step that shows no new snapshot breaks nothing.                       *)
LEMMA NothingNew ==
  ASSUME TypeInv, TypeInv', VisibleBounded, RevisionNamesOneState,
         Visible' \subseteq Visible,
         \/ authority' = authority /\ revision' >= revision
         \/ authority' = authority + 1
  PROVE  VisibleBounded' /\ RevisionNamesOneState'
  <1>1. ASSUME NEW s \in Visible'
        PROVE  s.authority <= authority' /\ (s.authority = authority' => s.revision <= revision')
    <2>1. s \in Visible /\ s \in Snapshots
      BY VisibleType
    <2>2. s.authority \in Nat /\ s.revision \in Nat
      BY <2>1 DEF Snapshots
    <2>3. {authority, authority', revision, revision'} \subseteq Nat
      BY DEF TypeInv, PublisherOK
    <2>4. s.authority <= authority /\ (s.authority = authority => s.revision <= revision)
      BY <2>1 DEF VisibleBounded
    <2>. QED BY <2>2, <2>3, <2>4
  <1>. QED BY <1>1 DEF VisibleBounded, RevisionNamesOneState

(* A snapshot with the publisher's next revision is like no other.         *)
LEMMA NextRevision ==
  ASSUME TypeInv, VisibleBounded, RevisionNamesOneState,
         NEW s \in Snapshots,
         s.authority = authority, s.revision = revision + 1,
         authority' = authority, revision' = revision + 1,
         Visible' \subseteq Visible \cup {s}
  PROVE  VisibleBounded' /\ RevisionNamesOneState'
  <1>0. authority \in Nat /\ revision \in Nat
    BY DEF TypeInv, PublisherOK
  <1>1. ASSUME NEW t \in Visible
        PROVE  /\ t.authority <= authority
               /\ t.authority = authority => t.revision <= revision
               /\ t.authority = authority => t.revision # s.revision
               /\ t.authority \in Nat /\ t.revision \in Nat
    <2>1. t.authority \in Nat /\ t.revision \in Nat
      BY VisibleType DEF Snapshots
    <2>. QED BY <1>0, <2>1 DEF VisibleBounded
  <1>2. VisibleBounded'
    <2>. SUFFICES ASSUME NEW t \in Visible'
                  PROVE  /\ t.authority <= authority
                         /\ t.authority = authority => t.revision <= revision + 1
      BY DEF VisibleBounded
    <2>1. CASE t = s
      BY <1>0, <2>1
    <2>2. CASE t \in Visible
      BY <1>0, <1>1, <2>2
    <2>. QED BY <2>1, <2>2
  <1>3. RevisionNamesOneState'
    <2>. SUFFICES ASSUME NEW t \in Visible', NEW u \in Visible',
                         t.authority = u.authority, t.revision = u.revision
                  PROVE  t = u
      BY DEF RevisionNamesOneState
    <2>1. CASE t \in Visible /\ u \in Visible
      BY <2>1 DEF RevisionNamesOneState
    <2>2. CASE t = s \/ u = s
      BY <1>1, <2>2
    <2>. QED BY <2>1, <2>2
  <1>. QED BY <1>2, <1>3

LEMMA OneNew ==
  ASSUME NEW s,
         {snapshot', pending', cache'} \subseteq {snapshot, pending, cache, s, None},
         \A m \in messages' : m.type = "snapshot" => m \in messages \/ m.snapshot = s,
         replica' = replica
  PROVE  Visible' \subseteq Visible \cup {s}
  BY DEF Visible

LEMMA RevisionInit == Init => RevisionInv
  <1>. SUFFICES ASSUME Init PROVE RevisionInv
    OBVIOUS
  <1>1. TypeInv
    BY TypeInit
  <1>2. Visible = {}
    BY DEF Init, Visible, Closed
  <1>3. LastSnapshotOK
    BY DEF Init, LastSnapshotOK
  <1>. QED BY <1>1, <1>2, <1>3 DEF RevisionInv, VisibleBounded, RevisionNamesOneState

(* The steps that leave the publisher and the storage alone.               *)
LEMMA RevisionElsewhere ==
  ASSUME RevisionInv, TypeInv', UNCHANGED <<publisher, cache>>,
         Visible' \subseteq Visible
  PROVE  RevisionInv'
  <1>. USE DEF publisher
  <1>1. LastSnapshotOK'
    BY DEF RevisionInv, LastSnapshotOK
  <1>2. revision' >= revision
    BY DEF RevisionInv, TypeInv, PublisherOK
  <1>. QED BY <1>1, <1>2, NothingNew DEF RevisionInv

LEMMA RevisionSession ==
  ASSUME RevisionInv, TypeInv',
         UNCHANGED <<publisher, cache, messages, replica>>
  PROVE  RevisionInv'
  <1>1. Visible' = Visible
    BY DEF Visible, publisher
  <1>. QED BY <1>1, RevisionElsewhere

LEMMA RevisionPopout ==
  ASSUME RevisionInv, TypeInv',
         \/ \E r \in Editors : TypeInPopout(r)
         \/ \E r \in Replicas : Listen(r) \/ Open(r) \/ Close(r)
         \/ \E m \in messages : AcceptSnapshot(m) \/ MissSnapshot(m) \/ Lose(m)
  PROVE  RevisionInv'
  <1>0. TypeInv /\ UNCHANGED <<publisher, cache>>
    BY DEF RevisionInv, TypeInPopout, Listen, Open, Close, AcceptSnapshot,
           MissSnapshot, Lose
  <1>1. {snapshot', pending', cache'} \subseteq Visible \cup {None}
    BY <1>0, VisibleNow DEF publisher
  <1>2. ASSUME NEW r \in Editors, TypeInPopout(r) PROVE Visible' \subseteq Visible
    <2>1. \A p \in Replicas : /\ replica'[p].live = replica[p].live
                              /\ replica'[p].accepted = replica[p].accepted
      <3>1. PICK s, t : replica' = [replica EXCEPT ![r].typed = t, ![r].sequence = s]
        BY <1>2 DEF TypeInPopout
      <3>2. replica \in [Replicas -> Panes]
        BY <1>0 DEF TypeInv, ReplicasOK
      <3>3. r \in Replicas
        BY DEF Replicas
      <3>4. \A p \in Replicas \ {r} : replica'[p] = replica[p]
        BY <3>1, <3>2
      <3> DEFINE w == replica[r]
                 n == [w EXCEPT !.typed = t, !.sequence = s]
      <3>5. w \in Panes /\ replica'[r] = n
        BY <3>1, <3>2, <3>3
      <3> HIDE DEF w
      <3>6. n.live = w.live /\ n.accepted = w.accepted
        BY <3>5 DEF Panes
      <3> HIDE DEF n
      <3>7. replica'[r].live = w.live /\ replica'[r].accepted = w.accepted
        BY <3>5, <3>6
      <3>. QED BY <3>4, <3>7 DEF w
    <2>2. \A m \in messages' : m.type = "snapshot" => m \in messages
      <3>1. PICK text : messages' = messages \cup {Content(r, text)}
        BY <1>2 DEF TypeInPopout
      <3>2. Content(r, text).type # "snapshot"
        BY DEF Content
      <3>. QED BY <3>1, <3>2
    <2>. QED BY <1>1, <2>1, <2>2, VisibleNow, VisibleNext
  <1>3. ASSUME NEW r \in Replicas, Listen(r) PROVE Visible' \subseteq Visible
    <2>1. \A p \in Replicas : /\ replica'[p].live = replica[p].live
                              /\ replica'[p].accepted = replica[p].accepted
      <3>1. replica \in [Replicas -> Panes]
        BY <1>0 DEF TypeInv, ReplicasOK
      <3>2. replica' = [replica EXCEPT ![r].phase = "listening"]
        BY <1>3 DEF Listen
      <3>3. \A p \in Replicas \ {r} : replica'[p] = replica[p]
        BY <3>1, <3>2
      <3> DEFINE w == replica[r]
      <3>4. w \in Panes /\ replica'[r] = [w EXCEPT !.phase = "listening"]
        BY <3>1, <3>2
      <3> HIDE DEF w
      <3>5. replica'[r].live = w.live /\ replica'[r].accepted = w.accepted
        BY <3>4 DEF Panes
      <3>. QED BY <3>3, <3>5 DEF w
    <2>2. \A m \in messages' : m.type = "snapshot" => m \in messages
      BY <1>3 DEF Listen
    <2>. QED BY <1>1, <2>1, <2>2, VisibleNow, VisibleNext
  <1>4. ASSUME NEW r \in Replicas, Open(r) \/ Close(r) PROVE Visible' \subseteq Visible
    <2>1. /\ \A p \in Replicas \ {r} : replica'[p] = replica[p]
          /\ replica'[r].live = FALSE
      <3>1. PICK a, n : replica' = [replica EXCEPT ![r] = [Closed EXCEPT !.phase = "starting",
                                        !.source = n, !.accepted = a]]
                        \/ replica' = [replica EXCEPT ![r] = Closed]
        BY <1>4 DEF Open, Close
      <3>2. Closed.live = FALSE /\ [Closed EXCEPT !.phase = "starting", !.source = n,
                                                 !.accepted = a].live = FALSE
        BY DEF Closed
      <3>. QED BY <1>0, <3>1, <3>2 DEF TypeInv, ReplicasOK
    <2>2. messages' \subseteq messages
      BY <1>4 DEF Open, Close
    <2>. QED BY <1>1, <2>1, <2>2, VisibleNow, VisibleNext
  <1>5. ASSUME NEW m \in messages, AcceptSnapshot(m) PROVE Visible' \subseteq Visible
    <2>1. m.type = "snapshot" /\ m.to \in Replicas
      BY <1>0, <1>5 DEF AcceptSnapshot, TypeInv, MessagesOK, SnapshotMessages,
                        RequestMessages, ContentMessages
    <2>2. \A p \in Replicas :
             \/ replica'[p].live = replica[p].live /\ replica'[p].accepted = replica[p].accepted
             \/ replica'[p].accepted = m.snapshot
      <3>1. ASSUME NEW p \in Replicas, p # m.to PROVE replica'[p] = replica[p]
        BY <1>0, <1>5, <3>1 DEF AcceptSnapshot, TypeInv, ReplicasOK
      <3>. DEFINE now == replica'[m.to]
      <3>2. \E b : \/ now = [replica[m.to] EXCEPT !.pin = b, !.accepted = m.snapshot,
                                                 !.live = TRUE, !.typed = None]
                  \/ now = [replica[m.to] EXCEPT !.pin = b]
        BY <1>0, <1>5, <2>1 DEF AcceptSnapshot, TypeInv, ReplicasOK
      <3>3. replica[m.to] \in Panes
        BY <1>0, <2>1 DEF TypeInv, ReplicasOK
      <3>4. \/ now.live = replica[m.to].live /\ now.accepted = replica[m.to].accepted
            \/ now.accepted = m.snapshot
        <4>. HIDE DEF now
        <4>. QED BY <3>2, <3>3 DEF Panes
      <3>. QED BY <3>1, <3>4
    <2>3. messages' \subseteq messages
      BY <1>5 DEF AcceptSnapshot
    <2>. QED BY <1>1, <2>1, <2>2, <2>3, VisibleNow, VisibleNext
  <1>6. ASSUME NEW m \in messages, MissSnapshot(m) \/ Lose(m) PROVE Visible' \subseteq Visible
    <2>1. messages' \subseteq messages /\ replica' = replica
      BY <1>6 DEF MissSnapshot, Lose
    <2>. QED BY <1>1, <2>1, VisibleNow, VisibleNext
  <1>7. Visible' \subseteq Visible
    BY <1>2, <1>3, <1>4, <1>5, <1>6
  <1>. QED BY <1>0, <1>7, RevisionElsewhere

(* The publisher's own steps.                                              *)
LEMMA RevisionPublish ==
  ASSUME RevisionInv, TypeInv', PublishAuthoritativeState
  PROVE  RevisionInv'
  <1>. DEFINE s == [authority |-> authority, revision |-> revision + 1, state |-> state]
  <1>0. TypeInv /\ s \in Snapshots
    BY DEF RevisionInv, TypeInv, PublisherOK, SessionOK, Snapshots
  <1>1. /\ snapshot' = s /\ pending' = s /\ revision' = revision + 1
        /\ UNCHANGED <<authority, highest, cache, messages, replica>>
    BY DEF PublishAuthoritativeState, Enqueue
  <1>2. s.authority = authority /\ s.revision = revision + 1
    OBVIOUS
  <1>. HIDE DEF s
  <1>3. Visible' \subseteq Visible \cup {s}
    BY <1>1, OneNew
  <1>4. LastSnapshotOK'
    BY <1>1, <1>2 DEF RevisionInv, LastSnapshotOK, TypeInv, PublisherOK
  <1>. QED BY <1>0, <1>1, <1>2, <1>3, <1>4, NextRevision DEF RevisionInv

LEMMA RevisionContent ==
  ASSUME RevisionInv, TypeInv', NEW m \in messages, AcceptContent(m)
  PROVE  RevisionInv'
  <1>0. TypeInv /\ messages' \subseteq messages /\ UNCHANGED <<authority, highest, cache, replica>>
    BY DEF RevisionInv, AcceptContent
  <1>1. CASE ~IsAcceptable(m)
    <2>1. UNCHANGED <<publisher, cache>>
      BY <1>1 DEF AcceptContent, publisher
    <2>2. Visible' \subseteq Visible
      BY <1>0, <2>1, VisibleNow, VisibleNext DEF publisher
    <2>. QED BY <2>1, <2>2, RevisionElsewhere
  <1>2. CASE IsAcceptable(m)
    <2>. DEFINE s == [snapshot EXCEPT !.revision = revision + 1, !.state.text = m.text]
    <2>1. snapshot \in Snapshots /\ snapshot.authority = authority
      BY <1>0, <1>2 DEF IsAcceptable, RevisionInv, LastSnapshotOK, TypeInv, PublisherOK
    <2>2. s.authority = authority /\ s.revision = revision + 1
      BY <2>1 DEF Snapshots
    <2>3. snapshot' = s /\ pending' = s /\ revision' = revision + 1
      BY <1>2 DEF AcceptContent, Enqueue
    <2>. HIDE DEF s
    <2>4. s \in Snapshots
      <3>1. s # None
        BY <2>2, <2>3, <1>0, <2>1 DEF s, Snapshots, None
      <3>. QED BY <2>3, <3>1 DEF TypeInv, PublisherOK
    <2>5. Visible' \subseteq Visible \cup {s}
      BY <1>0, <2>3, OneNew
    <2>6. LastSnapshotOK'
      BY <1>0, <2>2, <2>3 DEF RevisionInv, LastSnapshotOK, TypeInv, PublisherOK
    <2>. QED BY <1>0, <2>2, <2>3, <2>4, <2>5, <2>6, NextRevision DEF RevisionInv
  <1>. QED BY <1>1, <1>2

LEMMA RevisionAnswer ==
  ASSUME RevisionInv, TypeInv', NEW m \in messages, AnswerRequest(m)
  PROVE  RevisionInv'
  <1>0. TypeInv /\ UNCHANGED <<authority, revision, snapshot, pending, cache, replica>>
    BY DEF RevisionInv, AnswerRequest
  <1>1. \A n \in messages' : n.type = "snapshot" => n \in messages \/ n.snapshot = snapshot
    BY DEF AnswerRequest, Copies
  <1>2. Visible' \subseteq Visible
    BY <1>0, <1>1, VisibleNow, VisibleNext
  <1>3. LastSnapshotOK'
    BY <1>0 DEF RevisionInv, LastSnapshotOK, AnswerRequest, TypeInv, PublisherOK
  <1>4. revision' >= revision
    BY <1>0 DEF TypeInv, PublisherOK
  <1>. QED BY <1>0, <1>2, <1>3, <1>4, NothingNew DEF RevisionInv

(* A flush sends the last snapshot as it is or, when its revision has left *)
(* already, under the publisher's next one.                                *)
LEMMA RevisionFlush ==
  ASSUME RevisionInv, TypeInv', FlushAuthoritativeSnapshot
  PROVE  RevisionInv'
  <1>. DEFINE s == [pending EXCEPT !.revision = FlushedRevision]
  <1>0. TypeInv /\ pending' = None /\ UNCHANGED <<authority, replica>>
    BY DEF RevisionInv, FlushAuthoritativeSnapshot
  <1>1. /\ pending \in Snapshots /\ pending = snapshot
        /\ pending.authority = authority /\ pending.revision = revision
        /\ highest <= revision
        /\ revision \in Nat /\ highest \in Nat
    BY <1>0 DEF FlushAuthoritativeSnapshot, RevisionInv, LastSnapshotOK, TypeInv,
                PublisherOK
  <1>2. /\ FlushedRevision \in Nat
        /\ s \in Snapshots /\ s.authority = authority /\ s.revision = FlushedRevision
    <2>1. FlushedRevision \in Nat
      BY <1>1 DEF FlushedRevision
    <2>. HIDE DEF FlushedRevision
    <2>. QED BY <1>1, <2>1 DEF Snapshots
  <1>3. /\ revision' = PublisherRevision(s)
        /\ snapshot' = IF s = pending THEN snapshot ELSE s
        /\ cache' \in {s, None}
        /\ highest' = s.revision
        /\ messages' = messages \cup Copies(s)
    BY DEF FlushAuthoritativeSnapshot
  <1>4. FlushedRevision = revision => s = pending
    BY <1>1 DEF Snapshots
  <1>. HIDE DEF s
  <1>5. \A n \in messages' : n.type = "snapshot" => n \in messages \/ n.snapshot = s
    BY <1>3 DEF Copies
  <1>6. Visible' \subseteq Visible \cup {s}
    <2>1. {snapshot', pending', cache'} \subseteq {snapshot, pending, cache, s, None}
      BY <1>0, <1>3
    <2>. QED BY <1>0, <1>5, <2>1, OneNew
  <1>7. CASE highest < revision
    <2>1. s = pending
      BY <1>1, <1>4, <1>7 DEF FlushedRevision
    <2>2. revision' = revision /\ snapshot' = snapshot /\ highest' = revision
      BY <1>1, <1>3, <2>1 DEF PublisherRevision
    <2>3. s \in Visible
      BY <1>2, <2>1, VisibleNow, NoneApart
    <2>4. LastSnapshotOK'
      BY <1>0, <1>1, <2>2 DEF LastSnapshotOK, RevisionInv
    <2>5. Visible' \subseteq Visible /\ revision' >= revision
      BY <1>1, <1>6, <2>2, <2>3
    <2>. QED BY <1>0, <2>4, <2>5, NothingNew DEF RevisionInv
  <1>8. CASE highest = revision
    <2>1. FlushedRevision = revision + 1
      BY <1>1, <1>8 DEF FlushedRevision
    <2>2. s # pending /\ s.revision = revision + 1
      BY <1>1, <1>2, <2>1
    <2>3. revision' = revision + 1 /\ snapshot' = s /\ highest' = revision + 1
      BY <1>3, <2>2 DEF PublisherRevision
    <2>4. LastSnapshotOK'
      BY <1>0, <1>1, <1>2, <2>2, <2>3 DEF LastSnapshotOK
    <2>. QED BY <1>0, <1>2, <1>6, <2>2, <2>3, <2>4, NextRevision DEF RevisionInv
  <1>. QED BY <1>1, <1>7, <1>8

(* A new main window is a new authority that has published nothing.        *)
LEMMA RevisionReload ==
  ASSUME RevisionInv, TypeInv', ReloadMain
  PROVE  RevisionInv'
  <1>1. /\ snapshot' = None /\ pending' = None /\ revision' = 0 /\ highest' = 0
        /\ authority' = authority + 1 /\ UNCHANGED <<cache, messages, replica>>
    BY DEF ReloadMain
  <1>2. LastSnapshotOK'
    BY <1>1 DEF LastSnapshotOK
  <1>3. Visible' \subseteq Visible
    BY <1>1, VisibleNow, VisibleNext
  <1>. QED BY <1>1, <1>2, <1>3, NothingNew DEF RevisionInv

LEMMA RevisionStep == RevisionInv /\ [Next]_vars => RevisionInv'
  <1>. SUFFICES ASSUME RevisionInv, [Next]_vars PROVE RevisionInv'
    OBVIOUS
  <1>1. TypeInv'
    BY TypeStep DEF RevisionInv
  <1>2. CASE UNCHANGED <<publisher, cache, messages, replica>>
    BY <1>1, <1>2, RevisionSession
  <1>3. CASE UNCHANGED vars
    BY <1>2, <1>3 DEF vars, publisher
  <1>4. CASE Edit
    <2>1. CASE \E r \in Editors : TypeInPopout(r)
      BY <1>1, <2>1, RevisionPopout
    <2>2. CASE ~ \E r \in Editors : TypeInPopout(r)
      BY <1>2, <1>4, <2>2
         DEF Edit, OpenDocument, PrepareOpen, ResolveOpen, Type, Save, LockAuthority,
             SaveAs, RegisterWatch, SeeSameFile, SeeChangedFile
    <2>. QED BY <2>1, <2>2
  <1>5. CASE Replicate
    BY <1>1, <1>5, RevisionPublish, RevisionFlush, RevisionAnswer, RevisionContent,
       RevisionPopout
       DEF Replicate
  <1>6. CASE ReloadMain
    BY <1>1, <1>6, RevisionReload
  <1>7. CASE \/ \E r \in Replicas : Open(r) \/ Close(r)
             \/ \E m \in messages : MissSnapshot(m) \/ Lose(m)
    BY <1>1, <1>7, RevisionPopout
  <1>. QED BY <1>3, <1>4, <1>5, <1>6, <1>7 DEF Next

(***************************************************************************)
(* A revision of a main window never names two states, among all that it   *)
(* has published, flushed, stored or sent and that a pop-out shows: the    *)
(* counter that publications, accepted text, answers and rebased flushes   *)
(* share (paneSync.ts) is never behind any of them.                        *)
(***************************************************************************)
THEOREM RevisionCorrect == Spec => []RevisionNamesOneState
  <1>1. Spec => []RevisionInv
    BY RevisionInit, RevisionStep, PTL DEF Spec
  <1>2. RevisionInv => RevisionNamesOneState
    BY DEF RevisionInv
  <1>. QED BY <1>1, <1>2, PTL

-------------------------------------------------------------------------------
(* Edits of a pop-out.                                                     *)

(* What a pop-out shows without a live snapshot takes no edits.            *)
StoredIsLocked ==
    \A r \in Replicas :
        replica[r].accepted # None /\ ~replica[r].live =>
            replica[r].accepted.state.status # "committed"

LockedInv == TypeInv /\ StoredIsLocked

LEMMA CachedIsLocked ==
  ASSUME CacheOK, Cached # None
  PROVE  Cached.state.status # "committed"
  <1>1. cache \in Snapshots /\ cache.state \in States
    BY DEF Cached, CacheOK, Snapshots
  <1>. DEFINE status == IF cache.state.status = "committed" THEN "unknown"
                        ELSE cache.state.status
  <1>2. Cached = [cache EXCEPT !.state = [cache.state EXCEPT !.status = status]]
    BY <1>1 DEF Cached, Snapshots, States
  <1>3. Cached.state = [cache.state EXCEPT !.status = status]
    BY <1>1, <1>2 DEF Snapshots
  <1>4. [cache.state EXCEPT !.status = status].status = status
    BY <1>1 DEF States
  <1>. QED BY <1>3, <1>4

LEMMA LockedStep == LockedInv /\ [Next]_vars => LockedInv'
  <1>. SUFFICES ASSUME LockedInv, [Next]_vars PROVE LockedInv'
    OBVIOUS
  <1>1. TypeInv /\ TypeInv'
    BY TypeStep DEF LockedInv
  <1>2. CASE \A r \in Replicas : /\ replica'[r].live = replica[r].live
                                 /\ replica'[r].accepted = replica[r].accepted
    BY <1>1, <1>2 DEF LockedInv, StoredIsLocked
  <1>3. CASE UNCHANGED replica
    BY <1>2, <1>3
  <1>4. ASSUME NEW r \in Editors, TypeInPopout(r) PROVE LockedInv'
    BY <1>1, <1>2, <1>4 DEF TypeInPopout, Replicas, TypeInv, ReplicasOK, Panes
  <1>5. ASSUME NEW r \in Replicas, Listen(r) PROVE LockedInv'
    BY <1>1, <1>2, <1>5 DEF Listen, TypeInv, ReplicasOK, Panes
  <1>6. ASSUME NEW r \in Replicas, Open(r) PROVE LockedInv'
    <2>. DEFINE c == Cached
                p == [Closed EXCEPT !.phase = "starting", !.source = count.launches + 1,
                                    !.accepted = c]
    <2>1. replica' = [replica EXCEPT ![r] = p]
      BY <1>6 DEF Open
    <2>2. p.accepted = c
      BY DEF Closed
    <2>3. c # None => c.state.status # "committed"
      BY <1>1, CachedIsLocked DEF TypeInv
    <2>. HIDE DEF p, c
    <2>. QED BY <1>1, <2>1, <2>2, <2>3 DEF LockedInv, StoredIsLocked, TypeInv, ReplicasOK
  <1>7. ASSUME NEW r \in Replicas, Close(r) PROVE LockedInv'
    <2>1. Closed.accepted = None
      BY DEF Closed
    <2>. QED BY <1>1, <1>7, <2>1 DEF Close, LockedInv, StoredIsLocked, TypeInv, ReplicasOK
  <1>8. ASSUME NEW m \in messages, AcceptSnapshot(m) PROVE LockedInv'
    <2>1. m.to \in Replicas
      BY <1>1, <1>8 DEF AcceptSnapshot, TypeInv, MessagesOK, SnapshotMessages,
                        RequestMessages, ContentMessages
    <2>. DEFINE now == replica'[m.to]
    <2>2. \A p \in Replicas : p # m.to => replica'[p] = replica[p]
      BY <1>1, <1>8 DEF AcceptSnapshot, TypeInv, ReplicasOK
    <2>3. \E b : \/ now = [replica[m.to] EXCEPT !.pin = b, !.accepted = m.snapshot,
                                               !.live = TRUE, !.typed = None]
                \/ now = [replica[m.to] EXCEPT !.pin = b]
      BY <1>1, <1>8, <2>1 DEF AcceptSnapshot, TypeInv, ReplicasOK
    <2>4. replica[m.to] \in Panes
      BY <1>1, <2>1 DEF TypeInv, ReplicasOK
    <2>5. \/ now.live = replica[m.to].live /\ now.accepted = replica[m.to].accepted
          \/ now.live = TRUE
      <3>. HIDE DEF now
      <3>. QED BY <2>3, <2>4 DEF Panes
    <2>. QED BY <1>1, <2>2, <2>5 DEF LockedInv, StoredIsLocked
  <1>9. ASSUME NEW m \in messages, MissSnapshot(m) \/ Lose(m) PROVE LockedInv'
    BY <1>3, <1>9 DEF MissSnapshot, Lose
  <1>10. CASE UNCHANGED vars
    BY <1>3, <1>10 DEF vars
  <1>11. CASE Edit
    BY <1>3, <1>4, <1>11
       DEF Edit, OpenDocument, PrepareOpen, ResolveOpen, Type, Save, LockAuthority,
           SaveAs, RegisterWatch, SeeSameFile, SeeChangedFile
  <1>12. CASE Replicate
    BY <1>3, <1>5, <1>8, <1>12
       DEF Replicate, PublishAuthoritativeState, FlushAuthoritativeSnapshot,
           AnswerRequest, AcceptContent
  <1>13. CASE ReloadMain
    BY <1>3, <1>13 DEF ReloadMain
  <1>. QED BY <1>6, <1>7, <1>9, <1>10, <1>11, <1>12, <1>13 DEF Next

LEMMA LockedInit == Init => LockedInv
  BY TypeInit DEF Init, LockedInv, StoredIsLocked, Closed

(* Only a pop-out's user adds text to what is on its way.                  *)
LEMMA TextIsTyped ==
  ASSUME LockedInv, [Next]_vars,
         NEW m \in messages' \ messages, m.type = "content"
  PROVE  \E r \in Editors : replica[r].source = m.source /\ replica[r].live
  <1>1. CASE messages' \subseteq messages
    BY <1>1
  <1>2. ASSUME NEW r \in Editors, TypeInPopout(r)
        PROVE  replica[r].source = m.source /\ replica[r].live
    <2>1. m = Content(r, NextText(replica[r].accepted.state.doc))
      BY <1>2 DEF TypeInPopout
    <2>2. m.source = replica[r].source
      BY <2>1 DEF Content
    <2>3. /\ replica[r].accepted # None
          /\ replica[r].accepted.state.status = "committed"
      BY <1>2 DEF TypeInPopout, AcceptsEdits
    <2>4. replica[r].live
      BY <2>3 DEF LockedInv, StoredIsLocked, Replicas
    <2>. QED BY <2>2, <2>4
  <1>3. CASE Edit
    BY <1>1, <1>2, <1>3
       DEF Edit, OpenDocument, PrepareOpen, ResolveOpen, Type, Save, LockAuthority,
           SaveAs, RegisterWatch, SeeSameFile, SeeChangedFile
  <1>4. CASE Replicate
    <2>1. CASE PublishAuthoritativeState
      BY <1>1, <2>1 DEF PublishAuthoritativeState
    <2>2. CASE FlushAuthoritativeSnapshot
      BY <2>2 DEF FlushAuthoritativeSnapshot, Copies
    <2>3. CASE \E n \in messages : AnswerRequest(n)
      BY <2>3 DEF AnswerRequest, Copies
    <2>4. CASE \E n \in messages : AcceptContent(n) \/ AcceptSnapshot(n)
      BY <1>1, <2>4 DEF AcceptContent, AcceptSnapshot
    <2>5. CASE \E r \in Replicas : Listen(r)
      BY <2>5 DEF Listen
    <2>. QED BY <1>4, <2>1, <2>2, <2>3, <2>4, <2>5 DEF Replicate
  <1>5. CASE \/ ReloadMain
             \/ \E r \in Replicas : Open(r) \/ Close(r)
             \/ \E n \in messages : MissSnapshot(n) \/ Lose(n)
    BY <1>1, <1>5 DEF ReloadMain, Open, Close, MissSnapshot, Lose
  <1>6. CASE UNCHANGED vars
    BY <1>1, <1>6 DEF vars
  <1>. QED BY <1>3, <1>4, <1>5, <1>6 DEF Next

(***************************************************************************)
(* A pop-out never sends text on the strength of a stored snapshot: the    *)
(* storage gives it a document whose authority is unknown, and only a live *)
(* snapshot of a main window ends that (paneSync.ts, observeCachedInput).  *)
(***************************************************************************)
THEOREM EditsCorrect == Spec => EditsRestOnLiveState
  <1>1. Spec => []LockedInv
    BY LockedInit, LockedStep, PTL DEF Spec
  <1>2. LockedInv /\ [Next]_vars =>
          [\A m \in messages' \ messages :
             m.type = "content" =>
                \E r \in Editors : replica[r].source = m.source /\ replica[r].live]_vars
    BY TextIsTyped
  <1>. QED BY <1>1, <1>2, PTL DEF Spec, EditsRestOnLiveState

-------------------------------------------------------------------------------
(* What each step does to the windows, field by field.                     *)

LEMMA Launching ==
  ASSUME CountOK
  PROVE  /\ \A what \in {"docs", "edits", "saveAs", "losses"} :
              Counted(what) => count'.launches = count.launches
         /\ Counted("launches") => count'.launches = count.launches + 1
         /\ count.launches \in 0..MaxLaunches
         /\ UNCHANGED count => count'.launches = count.launches
  BY DEF CountOK, Counted

LEMMA TypingPane ==
  ASSUME TypeInv, NEW r \in Editors, TypeInPopout(r)
  PROVE  /\ r \in Replicas
         /\ \A p \in Replicas \ {r} : replica'[p] = replica[p]
         /\ replica'[r].phase = replica[r].phase
         /\ replica'[r].source = replica[r].source
         /\ replica'[r].sequence = replica[r].sequence + 1
         /\ replica'[r].accepted = replica[r].accepted
         /\ replica'[r].live = replica[r].live
         /\ replica'[r].pin = replica[r].pin
         /\ replica'[r].typed = NextText(replica[r].accepted.state.doc)
  <1>. DEFINE text == NextText(replica[r].accepted.state.doc)
              w == replica[r]
              n == [w EXCEPT !.typed = text, !.sequence = @ + 1]
  <1>1. replica' = [replica EXCEPT ![r].typed = text, ![r].sequence = @ + 1]
    BY DEF TypeInPopout
  <1>2. r \in Replicas /\ replica \in [Replicas -> Panes]
    BY DEF Replicas, TypeInv, ReplicasOK
  <1>3. \A p \in Replicas \ {r} : replica'[p] = replica[p]
    BY <1>1, <1>2
  <1>4. w \in Panes /\ replica'[r] = n
    BY <1>1, <1>2 DEF Panes
  <1>. HIDE DEF w, text
  <1>5. /\ n.phase = w.phase /\ n.source = w.source /\ n.sequence = w.sequence + 1
        /\ n.accepted = w.accepted /\ n.live = w.live /\ n.pin = w.pin
        /\ n.typed = text
    BY <1>4 DEF Panes
  <1>. HIDE DEF n
  <1>. QED BY <1>2, <1>3, <1>4, <1>5 DEF w, text

LEMMA ListeningPane ==
  ASSUME TypeInv, NEW r \in Replicas, Listen(r)
  PROVE  /\ \A p \in Replicas \ {r} : replica'[p] = replica[p]
         /\ replica[r].phase = "starting"
         /\ replica'[r].phase = "listening"
         /\ replica'[r].source = replica[r].source
         /\ replica'[r].sequence = replica[r].sequence
         /\ replica'[r].accepted = replica[r].accepted
         /\ replica'[r].live = replica[r].live
         /\ replica'[r].pin = replica[r].pin
         /\ replica'[r].typed = replica[r].typed
  <1>. DEFINE w == replica[r]
              n == [w EXCEPT !.phase = "listening"]
  <1>1. replica' = [replica EXCEPT ![r].phase = "listening"] /\ w.phase = "starting"
    BY DEF Listen
  <1>2. replica \in [Replicas -> Panes]
    BY DEF TypeInv, ReplicasOK
  <1>3. \A p \in Replicas \ {r} : replica'[p] = replica[p]
    BY <1>1, <1>2
  <1>4. w \in Panes /\ replica'[r] = n
    BY <1>1, <1>2
  <1>. HIDE DEF w
  <1>5. /\ n.phase = "listening" /\ n.source = w.source /\ n.sequence = w.sequence
        /\ n.accepted = w.accepted /\ n.live = w.live /\ n.pin = w.pin
        /\ n.typed = w.typed
    BY <1>4 DEF Panes
  <1>. HIDE DEF n
  <1>. QED BY <1>1, <1>3, <1>4, <1>5 DEF w

LEMMA OpenedPane ==
  ASSUME TypeInv, NEW r \in Replicas, Open(r)
  PROVE  /\ \A p \in Replicas \ {r} : replica'[p] = replica[p]
         /\ replica[r].phase = "closed"
         /\ replica'[r].phase = "starting"
         /\ replica'[r].source = count.launches + 1
         /\ replica'[r].sequence = 0
         /\ replica'[r].accepted = Cached
         /\ replica'[r].live = FALSE
         /\ replica'[r].pin = 0
         /\ replica'[r].typed = None
  <1>. DEFINE c == Cached
              n == [Closed EXCEPT !.phase = "starting", !.source = count.launches + 1,
                                  !.accepted = c]
  <1>1. replica' = [replica EXCEPT ![r] = n] /\ replica[r].phase = "closed"
    BY DEF Open
  <1>. HIDE DEF c
  <1>2. /\ n.phase = "starting" /\ n.source = count.launches + 1 /\ n.sequence = 0
        /\ n.accepted = c /\ n.live = FALSE /\ n.pin = 0 /\ n.typed = None
    BY DEF Closed
  <1>. HIDE DEF n
  <1>3. /\ \A p \in Replicas \ {r} : replica'[p] = replica[p]
        /\ replica'[r] = n
    BY <1>1 DEF TypeInv, ReplicasOK
  <1>. QED BY <1>1, <1>2, <1>3 DEF c

LEMMA ClosedPane ==
  ASSUME TypeInv, NEW r \in Replicas, Close(r)
  PROVE  /\ \A p \in Replicas \ {r} : replica'[p] = replica[p]
         /\ replica'[r].phase = "closed"
         /\ replica'[r].source = 0
         /\ replica'[r].accepted = None
         /\ replica'[r].live = FALSE
         /\ replica'[r].pin = 0
         /\ replica'[r].typed = None
  BY DEF Close, Closed, TypeInv, ReplicasOK

(* A snapshot that arrives is either accepted, or it only binds the window.*)
LEMMA ReceivingPane ==
  ASSUME TypeInv, NEW m \in messages, AcceptSnapshot(m)
  PROVE  LET r == m.to
             s == m.snapshot
             bound == IF replica[r].pin = 0 THEN s.authority ELSE replica[r].pin
         IN  /\ r \in Replicas /\ s \in Snapshots
             /\ \A p \in Replicas \ {r} : replica'[p] = replica[p]
             /\ replica'[r].phase = replica[r].phase
             /\ replica'[r].source = replica[r].source
             /\ replica'[r].sequence = replica[r].sequence
             /\ replica'[r].pin = bound
             /\ IF bound = s.authority /\ IsNewer(r, s)
                THEN /\ replica'[r].accepted = s
                     /\ replica'[r].live = TRUE
                     /\ replica'[r].typed = None
                ELSE /\ replica'[r].accepted = replica[r].accepted
                     /\ replica'[r].live = replica[r].live
                     /\ replica'[r].typed = replica[r].typed
  <1>. DEFINE r == m.to
              s == m.snapshot
              bound == IF replica[r].pin = 0 THEN s.authority ELSE replica[r].pin
              w == replica[r]
              b == bound
              taken == [w EXCEPT !.pin = b, !.accepted = s, !.live = TRUE, !.typed = None]
              refused == [w EXCEPT !.pin = b]
  <1>1. r \in Replicas /\ s \in Snapshots
    BY DEF AcceptSnapshot, TypeInv, MessagesOK, SnapshotMessages, RequestMessages,
           ContentMessages
  <1>2. replica \in [Replicas -> Panes]
    BY DEF TypeInv, ReplicasOK
  <1>3. replica' = [replica EXCEPT ![r] =
                      IF bound = s.authority /\ IsNewer(r, s) THEN taken ELSE refused]
    BY <1>2, <1>1 DEF AcceptSnapshot
  <1>4. /\ \A p \in Replicas \ {r} : replica'[p] = replica[p]
        /\ replica'[r] = IF bound = s.authority /\ IsNewer(r, s) THEN taken ELSE refused
    <2>. HIDE DEF taken, refused
    <2>. QED BY <1>1, <1>2, <1>3
  <1>5. w \in Panes
    BY <1>1, <1>2
  <1>. HIDE DEF w, b
  <1>6. /\ taken.phase = w.phase /\ taken.source = w.source
        /\ taken.sequence = w.sequence /\ taken.pin = b
        /\ taken.accepted = s /\ taken.live = TRUE /\ taken.typed = None
        /\ refused.phase = w.phase /\ refused.source = w.source
        /\ refused.sequence = w.sequence /\ refused.pin = b
        /\ refused.accepted = w.accepted /\ refused.live = w.live
        /\ refused.typed = w.typed
    BY <1>5 DEF Panes
  <1>. HIDE DEF taken, refused
  <1>. QED BY <1>1, <1>4, <1>6 DEF w, b

-------------------------------------------------------------------------------
(* Sources and sequences.                                                  *)

Contents == {m \in messages : m.type = "content"}

(* An open window has a source of its own, which no earlier window had.    *)
SourcesOK ==
    /\ \A r \in Replicas :
          /\ replica[r].source \in 0..count.launches
          /\ replica[r].phase = "closed" <=> replica[r].source = 0
          /\ replica[r].phase = "closed" => replica[r].accepted = None
    /\ \A r, p \in Replicas :
          replica[r].source = replica[p].source /\ replica[r].source > 0 => r = p
    /\ \A m \in Contents : m.source \in 1..count.launches
    /\ \A s \in 1..MaxLaunches : s > count.launches => lastSeq[s] = 0

(* A window has numbered every text of its source, accepted or on its way. *)
SequencesOK ==
    \A r \in Replicas :
        replica[r].source > 0 =>
            /\ lastSeq[replica[r].source] <= replica[r].sequence
            /\ \A m \in Contents :
                  m.source = replica[r].source => m.sequence <= replica[r].sequence

AddressedToOpen ==
    \A m \in messages : m.type = "snapshot" => replica[m.to].phase # "closed"

WindowsInv == TypeInv /\ SourcesOK /\ SequencesOK /\ AddressedToOpen

LEMMA WindowsInit == Init => WindowsInv
  <1>. SUFFICES ASSUME Init PROVE WindowsInv
    OBVIOUS
  <1>1. \A r \in Replicas : /\ replica[r].source = 0 /\ replica[r].phase = "closed"
                            /\ replica[r].accepted = None
    BY DEF Init, Closed
  <1>2. messages = {} /\ count.launches = 0 /\ lastSeq = [s \in 1..MaxLaunches |-> 0]
    BY DEF Init
  <1>. QED BY <1>1, <1>2, TypeInit
           DEF WindowsInv, SourcesOK, SequencesOK, AddressedToOpen, Contents

(* A step that opens, closes and types in no window, and takes no text.    *)
LEMMA WindowsKept ==
  ASSUME WindowsInv, TypeInv',
         count'.launches = count.launches,
         \A m \in messages' :
            \/ m \in messages
            \/ m.type = "request"
            \/ m.type = "snapshot" /\ replica[m.to].phase # "closed",
         \A r \in Replicas :
            /\ replica'[r].source = replica[r].source
            /\ replica'[r].sequence = replica[r].sequence
            /\ replica'[r].phase = "closed" <=> replica[r].phase = "closed"
            /\ replica[r].phase = "closed" => replica'[r].accepted = replica[r].accepted,
         lastSeq' \in {lastSeq, [s \in 1..MaxLaunches |-> 0]}
  PROVE  WindowsInv'
  <1>1. Contents' \subseteq Contents
    BY DEF Contents
  <1>2. AddressedToOpen'
    <2>. SUFFICES ASSUME NEW m \in messages', m.type = "snapshot"
                  PROVE  replica'[m.to].phase # "closed"
      BY DEF AddressedToOpen
    <2>1. replica[m.to].phase # "closed"
      BY DEF WindowsInv, AddressedToOpen
    <2>2. m.to \in Replicas
      BY DEF TypeInv, MessagesOK, SnapshotMessages, RequestMessages, ContentMessages
    <2>. QED BY <2>1, <2>2
  <1>3. SourcesOK'
    <2>1. \A s \in 1..MaxLaunches : s > count.launches => lastSeq'[s] = 0
      <3>1. CASE lastSeq' = lastSeq
        BY <3>1 DEF WindowsInv, SourcesOK
      <3>2. CASE lastSeq' = [s \in 1..MaxLaunches |-> 0]
        BY <3>2
      <3>. QED BY <3>1, <3>2
    <2>2. \A m \in Contents' : m.source \in 1..count.launches
      BY <1>1 DEF WindowsInv, SourcesOK
    <2>3. \A r \in Replicas :
             /\ replica'[r].source \in 0..count.launches
             /\ replica'[r].phase = "closed" <=> replica'[r].source = 0
             /\ replica'[r].phase = "closed" => replica'[r].accepted = None
      BY DEF WindowsInv, SourcesOK
    <2>4. \A r, p \in Replicas :
             replica'[r].source = replica'[p].source /\ replica'[r].source > 0 => r = p
      BY DEF WindowsInv, SourcesOK
    <2>. QED BY <2>1, <2>2, <2>3, <2>4 DEF SourcesOK
  <1>4. SequencesOK'
    <2>. SUFFICES ASSUME NEW r \in Replicas, replica[r].source > 0
                  PROVE  /\ lastSeq'[replica[r].source] <= replica[r].sequence
                         /\ \A m \in Contents : m.source = replica[r].source =>
                                m.sequence <= replica[r].sequence
      BY <1>1 DEF SequencesOK
    <2>1. replica[r].source \in 1..MaxLaunches /\ replica[r].sequence \in Nat
      BY DEF WindowsInv, TypeInv, ReplicasOK, Panes
    <2>2. \/ lastSeq' = lastSeq
          \/ lastSeq'[replica[r].source] = 0
      BY <2>1
    <2>. QED BY <2>1, <2>2 DEF WindowsInv, SequencesOK
  <1>. QED BY <1>2, <1>3, <1>4 DEF WindowsInv

LEMMA WindowsTyping ==
  ASSUME WindowsInv, TypeInv', NEW r \in Editors, TypeInPopout(r)
  PROVE  WindowsInv'
  <1>. DEFINE c == Content(r, NextText(replica[r].accepted.state.doc))
  <1>0. TypeInv /\ SourcesOK /\ SequencesOK /\ AddressedToOpen
    BY DEF WindowsInv
  <1>1. /\ messages' = messages \cup {c}
        /\ replica[r].accepted # None
        /\ UNCHANGED publisher
        /\ count'.launches = count.launches
    BY <1>0, Launching DEF TypeInPopout, TypeInv
  <1>2. /\ c.type = "content" /\ c.source = replica[r].source
        /\ c.sequence = replica[r].sequence + 1
    BY DEF Content
  <1>. HIDE DEF c
  <1>3. /\ r \in Replicas
        /\ \A p \in Replicas \ {r} : replica'[p] = replica[p]
        /\ replica'[r].phase = replica[r].phase
        /\ replica'[r].source = replica[r].source
        /\ replica'[r].sequence = replica[r].sequence + 1
        /\ replica'[r].accepted = replica[r].accepted
    BY <1>0, TypingPane
  <1>4. replica[r].source \in 1..count.launches /\ replica[r].sequence \in Nat
    BY <1>0, <1>1, <1>3, Launching DEF SourcesOK, TypeInv, ReplicasOK, Panes
  <1>5. Contents' = Contents \cup {c}
    BY <1>1, <1>2 DEF Contents
  <1>6. SourcesOK'
    BY <1>0, <1>1, <1>2, <1>3, <1>4, <1>5 DEF SourcesOK, publisher
  <1>7. SequencesOK'
    <2>. SUFFICES ASSUME NEW p \in Replicas, replica[p].source > 0
                  PROVE  /\ lastSeq[replica[p].source] <= replica'[p].sequence
                         /\ \A m \in Contents \cup {c} : m.source = replica[p].source =>
                                m.sequence <= replica'[p].sequence
      BY <1>1, <1>3, <1>5 DEF SequencesOK, publisher
    <2>1. /\ lastSeq[replica[p].source] <= replica[p].sequence
          /\ \A m \in Contents : m.source = replica[p].source =>
                m.sequence <= replica[p].sequence
      BY <1>0 DEF SequencesOK
    <2>2. CASE p = r
      <3>1. lastSeq[replica[r].source] \in Nat
        <4>1. count.launches \in 0..MaxLaunches /\ MaxLaunches \in Nat
          BY <1>0, Launching, BoundAssumption DEF TypeInv
        <4>2. replica[r].source \in 1..MaxLaunches
          BY <1>4, <4>1
        <4>. QED BY <1>0, <4>2 DEF TypeInv, PublisherOK
      <3>2. \A m \in Contents : m.sequence \in Nat
        BY <1>0 DEF Contents, TypeInv, MessagesOK, SnapshotMessages, RequestMessages,
                    ContentMessages
      <3>. QED BY <1>2, <1>3, <1>4, <2>1, <2>2, <3>1, <3>2
    <2>3. CASE p # r
      <3>1. replica[p].source # replica[r].source
        BY <1>0, <1>3, <2>3 DEF SourcesOK
      <3>. QED BY <1>2, <1>3, <2>1, <2>3, <3>1
    <2>. QED BY <2>2, <2>3
  <1>8. AddressedToOpen'
    <2>. SUFFICES ASSUME NEW m \in messages', m.type = "snapshot"
                  PROVE  replica'[m.to].phase # "closed"
      BY DEF AddressedToOpen
    <2>1. m \in messages
      BY <1>1, <1>2
    <2>2. m.to \in Replicas
      BY <1>0, <2>1 DEF TypeInv, MessagesOK, SnapshotMessages, RequestMessages,
                        ContentMessages
    <2>. QED BY <1>0, <1>3, <2>1, <2>2 DEF AddressedToOpen
  <1>. QED BY <1>6, <1>7, <1>8 DEF WindowsInv

LEMMA WindowsOpening ==
  ASSUME WindowsInv, TypeInv', NEW r \in Replicas, Open(r)
  PROVE  WindowsInv'
  <1>0. TypeInv /\ SourcesOK /\ SequencesOK /\ AddressedToOpen
    BY DEF WindowsInv
  <1>1. /\ messages' = messages /\ lastSeq' = lastSeq
        /\ count'.launches = count.launches + 1
        /\ count.launches \in Nat /\ count.launches + 1 \in 1..MaxLaunches
    BY <1>0, Launching, BoundAssumption DEF Open, TypeInv, publisher, CountOK
  <1>2. /\ \A p \in Replicas \ {r} : replica'[p] = replica[p]
        /\ replica[r].phase = "closed"
        /\ replica'[r].phase = "starting"
        /\ replica'[r].source = count.launches + 1
        /\ replica'[r].sequence = 0
    BY <1>0, OpenedPane
  <1>3. \A p \in Replicas : replica[p].source \in 0..count.launches
    BY <1>0 DEF SourcesOK
  <1>4. Contents' = Contents
    BY <1>1 DEF Contents
  <1>5. SourcesOK'
    <2>1. \A p \in Replicas :
             /\ replica'[p].source \in 0..(count.launches + 1)
             /\ replica'[p].phase = "closed" <=> replica'[p].source = 0
             /\ replica'[p].phase = "closed" => replica'[p].accepted = None
      BY <1>0, <1>1, <1>2, <1>3 DEF SourcesOK
    <2>2. \A p, q \in Replicas :
             replica'[p].source = replica'[q].source /\ replica'[p].source > 0 => p = q
      BY <1>0, <1>1, <1>2, <1>3 DEF SourcesOK
    <2>3. \A m \in Contents' : m.source \in 1..(count.launches + 1)
      BY <1>0, <1>1, <1>4 DEF SourcesOK
    <2>4. \A s \in 1..MaxLaunches : s > count.launches + 1 => lastSeq'[s] = 0
      BY <1>0, <1>1 DEF SourcesOK
    <2>. QED BY <1>1, <2>1, <2>2, <2>3, <2>4 DEF SourcesOK
  <1>6. SequencesOK'
    <2>. SUFFICES ASSUME NEW p \in Replicas, replica'[p].source > 0
                  PROVE  /\ lastSeq[replica'[p].source] <= replica'[p].sequence
                         /\ \A m \in Contents : m.source = replica'[p].source =>
                                m.sequence <= replica'[p].sequence
      BY <1>1, <1>4 DEF SequencesOK
    <2>1. CASE p # r
      BY <1>0, <1>2, <2>1 DEF SequencesOK
    <2>2. CASE p = r
      <3>1. lastSeq[count.launches + 1] = 0
        BY <1>0, <1>1 DEF SourcesOK
      <3>2. \A m \in Contents : m.source # count.launches + 1
        BY <1>0, <1>1 DEF SourcesOK
      <3>. QED BY <1>2, <2>2, <3>1, <3>2
    <2>. QED BY <2>1, <2>2
  <1>7. AddressedToOpen'
    <2>. SUFFICES ASSUME NEW m \in messages, m.type = "snapshot"
                  PROVE  replica'[m.to].phase # "closed"
      BY <1>1 DEF AddressedToOpen
    <2>1. m.to \in Replicas
      BY <1>0 DEF TypeInv, MessagesOK, SnapshotMessages, RequestMessages, ContentMessages
    <2>. QED BY <1>0, <1>2, <2>1 DEF AddressedToOpen
  <1>. QED BY <1>5, <1>6, <1>7 DEF WindowsInv

LEMMA WindowsClosing ==
  ASSUME WindowsInv, TypeInv', NEW r \in Replicas, Close(r)
  PROVE  WindowsInv'
  <1>0. TypeInv /\ SourcesOK /\ SequencesOK /\ AddressedToOpen
    BY DEF WindowsInv
  <1>1. /\ messages' = {m \in messages : m.type # "snapshot" \/ m.to # r}
        /\ lastSeq' = lastSeq /\ count' = count
    BY DEF Close, publisher
  <1>2. /\ \A p \in Replicas \ {r} : replica'[p] = replica[p]
        /\ replica'[r].phase = "closed"
        /\ replica'[r].source = 0
        /\ replica'[r].accepted = None
    BY <1>0, ClosedPane
  <1>3. Contents' = Contents
    BY <1>1 DEF Contents
  <1>4. SourcesOK'
    <2>1. count.launches \in Nat
      BY <1>0, Launching DEF TypeInv
    <2>2. \A p \in Replicas :
             /\ replica'[p].source \in 0..count.launches
             /\ replica'[p].phase = "closed" <=> replica'[p].source = 0
             /\ replica'[p].phase = "closed" => replica'[p].accepted = None
      BY <1>0, <1>2, <2>1 DEF SourcesOK
    <2>3. \A p, q \in Replicas :
             replica'[p].source = replica'[q].source /\ replica'[p].source > 0 => p = q
      BY <1>0, <1>2 DEF SourcesOK
    <2>. QED BY <1>0, <1>1, <1>3, <2>2, <2>3 DEF SourcesOK
  <1>5. SequencesOK'
    BY <1>0, <1>1, <1>2, <1>3 DEF SequencesOK
  <1>6. AddressedToOpen'
    <2>. SUFFICES ASSUME NEW m \in messages', m.type = "snapshot"
                  PROVE  replica'[m.to].phase # "closed"
      BY DEF AddressedToOpen
    <2>1. m.to \in Replicas \ {r} /\ m \in messages
      BY <1>0, <1>1 DEF TypeInv, MessagesOK, SnapshotMessages, RequestMessages,
                        ContentMessages
    <2>. QED BY <1>0, <1>2, <2>1 DEF AddressedToOpen
  <1>. QED BY <1>4, <1>5, <1>6 DEF WindowsInv

(* Text that is taken has been numbered by its window.                     *)
LEMMA WindowsTaking ==
  ASSUME WindowsInv, TypeInv', NEW m \in messages, AcceptContent(m), IsAcceptable(m)
  PROVE  WindowsInv'
  <1>0. TypeInv /\ SourcesOK /\ SequencesOK /\ AddressedToOpen
    BY DEF WindowsInv
  <1>1. /\ messages' = messages \ {m} /\ m \in Contents
        /\ lastSeq' = [lastSeq EXCEPT ![m.source] = m.sequence]
        /\ UNCHANGED <<replica, count>>
    BY DEF AcceptContent, Contents
  <1>2. Contents' \subseteq Contents
    BY <1>1 DEF Contents
  <1>3. /\ \A s \in 1..MaxLaunches : s # m.source => lastSeq'[s] = lastSeq[s]
        /\ m.source \in 1..MaxLaunches => lastSeq'[m.source] = m.sequence
    BY <1>0, <1>1 DEF TypeInv, PublisherOK
  <1>4. count.launches \in 0..MaxLaunches /\ m.source \in 1..count.launches
    BY <1>0, <1>1, Launching DEF TypeInv, SourcesOK
  <1>5. SourcesOK'
    BY <1>0, <1>1, <1>2, <1>3, <1>4 DEF SourcesOK
  <1>6. SequencesOK'
    <2>. SUFFICES ASSUME NEW r \in Replicas, replica[r].source > 0
                  PROVE  lastSeq'[replica[r].source] <= replica[r].sequence
      BY <1>0, <1>1, <1>2 DEF SequencesOK
    <2>1. replica[r].source \in 1..MaxLaunches
      BY <1>0, BoundAssumption DEF TypeInv, ReplicasOK, Panes
    <2>. QED BY <1>0, <1>1, <1>3, <2>1 DEF SequencesOK
  <1>7. AddressedToOpen'
    BY <1>0, <1>1 DEF AddressedToOpen
  <1>. QED BY <1>5, <1>6, <1>7 DEF WindowsInv

LEMMA WindowsStep == WindowsInv /\ [Next]_vars => WindowsInv'
  <1>. SUFFICES ASSUME WindowsInv, [Next]_vars PROVE WindowsInv'
    OBVIOUS
  <1>1. TypeInv /\ TypeInv' /\ CountOK
    BY TypeStep DEF WindowsInv, TypeInv
  <1>2. ASSUME UNCHANGED <<messages, replica>>, count'.launches = count.launches,
               lastSeq' \in {lastSeq, [s \in 1..MaxLaunches |-> 0]}
        PROVE  WindowsInv'
    BY <1>1, <1>2, WindowsKept
  <1>3. CASE UNCHANGED vars
    BY <1>2, <1>3 DEF vars
  <1>4. CASE Edit
    <2>1. CASE \E r \in Editors : TypeInPopout(r)
      BY <1>1, <2>1, WindowsTyping
    <2>2. CASE ~ \E r \in Editors : TypeInPopout(r)
      <3>1. UNCHANGED <<messages, replica, lastSeq>>
        BY <1>4, <2>2
           DEF Edit, OpenDocument, PrepareOpen, ResolveOpen, Type, Save, LockAuthority,
               SaveAs, RegisterWatch, SeeSameFile, SeeChangedFile, publisher
      <3>2. count'.launches = count.launches
        BY <1>1, <1>4, <2>2, Launching
           DEF Edit, OpenDocument, PrepareOpen, ResolveOpen, Type, Save, LockAuthority,
               SaveAs, RegisterWatch, SeeSameFile, SeeChangedFile
      <3>. QED BY <1>2, <3>1, <3>2
    <2>. QED BY <2>1, <2>2
  <1>5. CASE PublishAuthoritativeState \/ ReloadMain
    BY <1>1, <1>2, <1>5, Launching DEF PublishAuthoritativeState, ReloadMain
  <1>6. CASE FlushAuthoritativeSnapshot
    BY <1>1, <1>6, WindowsKept, Launching DEF FlushAuthoritativeSnapshot, Copies
  <1>7. ASSUME NEW m \in messages, AnswerRequest(m) PROVE WindowsInv'
    BY <1>1, <1>7, WindowsKept, Launching DEF AnswerRequest, Copies
  <1>8. ASSUME NEW m \in messages, AcceptContent(m) PROVE WindowsInv'
    <2>1. CASE IsAcceptable(m)
      BY <1>1, <1>8, <2>1, WindowsTaking
    <2>2. CASE ~IsAcceptable(m)
      BY <1>1, <1>8, <2>2, WindowsKept, Launching DEF AcceptContent
    <2>. QED BY <2>1, <2>2
  <1>9. ASSUME NEW m \in messages, AcceptSnapshot(m) PROVE WindowsInv'
    <2>1. /\ messages' \subseteq messages /\ count' = count /\ lastSeq' = lastSeq
          /\ m.type = "snapshot"
      BY <1>9 DEF AcceptSnapshot, publisher
    <2>2. replica[m.to].phase # "closed"
      BY <2>1 DEF WindowsInv, AddressedToOpen
    <2>3. \A r \in Replicas :
            /\ replica'[r].source = replica[r].source
            /\ replica'[r].sequence = replica[r].sequence
            /\ replica'[r].phase = replica[r].phase
            /\ r # m.to => replica'[r].accepted = replica[r].accepted
      BY <1>1, <1>9, ReceivingPane
    <2>. QED BY <1>1, <2>1, <2>2, <2>3, WindowsKept
  <1>10. ASSUME NEW r \in Replicas, Listen(r) PROVE WindowsInv'
    <2>1. \A p \in Replicas :
            /\ replica'[p].source = replica[p].source
            /\ replica'[p].sequence = replica[p].sequence
            /\ replica'[p].phase = "closed" <=> replica[p].phase = "closed"
            /\ replica'[p].accepted = replica[p].accepted
      BY <1>1, <1>10, ListeningPane
    <2>2. /\ messages' = messages \cup {[type |-> "request", from |-> r]}
          /\ count' = count /\ lastSeq' = lastSeq
      BY <1>10 DEF Listen, publisher
    <2>. QED BY <1>1, <2>1, <2>2, WindowsKept
  <1>11. ASSUME NEW m \in messages, MissSnapshot(m) \/ Lose(m) PROVE WindowsInv'
    <2>1. messages' \subseteq messages /\ UNCHANGED <<replica, lastSeq>>
      BY <1>11 DEF MissSnapshot, Lose, publisher
    <2>2. count'.launches = count.launches
      BY <1>1, <1>11, Launching DEF MissSnapshot, Lose
    <2>. QED BY <1>1, <2>1, <2>2, WindowsKept
  <1>. QED BY <1>1, <1>3, <1>4, <1>5, <1>6, <1>7, <1>8, <1>9, <1>10, <1>11,
              WindowsOpening, WindowsClosing DEF Next, Replicate

-------------------------------------------------------------------------------
(* The text typed last.                                                    *)

(* Text on its way that the main window will take, whatever overtakes it:  *)
(* it is for the document shown and for the one published, and nothing     *)
(* accepted or on its way has a later number.                              *)
Awaited(m) ==
    /\ m.sequence > lastSeq[m.source]
    /\ \A n \in Contents : n = m \/ n.sequence < m.sequence
    /\ m.authority = authority
    /\ m.doc = state.doc
    /\ m.epoch = state.epoch
    /\ AcceptsEdits(state)
    /\ snapshot # None
    /\ m.doc = snapshot.state.doc
    /\ m.epoch = snapshot.state.epoch
    /\ AcceptsEdits(snapshot.state)

(* Only the window that typed last has text on its way, and that text is   *)
(* the document's or is awaited.                                           *)
OwnerOK ==
    owner # None =>
        /\ \A m \in Contents : m.source = owner.source
        /\ \/ /\ state.text = owner.text
              /\ \A m \in Contents : m.sequence <= lastSeq[owner.source]
           \/ \E m \in Contents : m.text = owner.text /\ Awaited(m)

OwnerInv == RevisionInv /\ WindowsInv /\ OwnerOK

LEMMA OwnerHeard == OwnerInv => EditorIsHeard
  BY DEF OwnerInv, OwnerOK, EditorIsHeard, Contents

(* Steps that leave the document's identity and its text alone.            *)
LEMMA OwnerKept ==
  ASSUME OwnerInv,
         UNCHANGED <<owner, authority, lastSeq>>,
         Contents' = Contents,
         state'.doc = state.doc, state'.epoch = state.epoch,
         state'.text = state.text, AcceptsEdits(state) => AcceptsEdits(state)',
         snapshot # None =>
            \/ snapshot' # None /\ snapshot'.state = state
            \/ snapshot' # None /\ snapshot'.state = snapshot.state
  PROVE  OwnerOK'
  <1>. SUFFICES ASSUME owner # None PROVE OwnerOK'
    BY DEF OwnerOK
  <1>1. /\ \A m \in Contents : m.source = owner.source
        /\ \/ /\ state.text = owner.text
              /\ \A m \in Contents : m.sequence <= lastSeq[owner.source]
           \/ \E m \in Contents : m.text = owner.text /\ Awaited(m)
    BY DEF OwnerInv, OwnerOK
  <1>2. ASSUME NEW m \in Contents, Awaited(m) PROVE Awaited(m)'
    BY <1>2 DEF Awaited, AcceptsEdits
  <1>. QED BY <1>1, <1>2 DEF OwnerOK

LEMMA OwnerFreed == owner' = None => OwnerOK'
  BY DEF OwnerOK

LEMMA OwnerTyping ==
  ASSUME OwnerInv, NEW r \in Editors, TypeInPopout(r)
  PROVE  OwnerOK'
  <1>. DEFINE text == NextText(replica[r].accepted.state.doc)
              c == Content(r, text)
              now == [source |-> c.source, text |-> text]
  <1>0. TypeInv /\ WindowsInv /\ SequencesOK /\ SourcesOK /\ CountOK
    BY DEF OwnerInv, WindowsInv, TypeInv
  <1>1. /\ messages' = messages \cup {c}
        /\ replica[r].accepted # None
        /\ owner' = IF WillBeTaken(c) THEN now ELSE None
        /\ UNCHANGED <<state, authority, snapshot, lastSeq>>
    BY DEF TypeInPopout, session, publisher
  <1>2. CASE ~WillBeTaken(c)
    BY <1>1, <1>2, OwnerFreed
  <1>3. CASE WillBeTaken(c)
    <2>0. PICK k : k = c
      OBVIOUS
    <2>1. /\ k.type = "content" /\ k.source = replica[r].source /\ k.text = text
          /\ k.sequence = replica[r].sequence + 1
          /\ messages' = messages \cup {k} /\ WillBeTaken(k)
          /\ owner' = [source |-> k.source, text |-> k.text]
      BY <1>1, <1>3, <2>0 DEF Content
    <2>. HIDE DEF c, text, now
    <2>2. Contents' = Contents \cup {k}
      BY <2>1 DEF Contents
    <2>3. r \in Replicas /\ replica[r] \in Panes
      BY <1>0 DEF Replicas, TypeInv, ReplicasOK
    <2>4. replica[r].source > 0
      <3>1. replica[r].source \in 0..count.launches /\ replica[r].source # 0
        BY <1>0, <1>1, <2>3 DEF SourcesOK
      <3>. QED BY <1>0, <3>1, Launching
    <2>5. \A m \in Contents : m.source = k.source
      BY <2>1 DEF WillBeTaken, Contents
    <2>6. \A m \in Contents : m.sequence < k.sequence
      <3>1. \A m \in Contents : m.sequence <= replica[r].sequence
        BY <1>0, <2>1, <2>3, <2>4, <2>5 DEF SequencesOK
      <3>2. \A m \in Contents : m.sequence \in Nat
        BY <1>0 DEF Contents, TypeInv, MessagesOK, SnapshotMessages, RequestMessages,
                    ContentMessages
      <3>. QED BY <2>1, <2>3, <3>1, <3>2 DEF Panes
    <2>7. Awaited(k)'
      <3>1. k.authority = authority
        BY <2>1 DEF WillBeTaken, IsAcceptable, OwnerInv, RevisionInv, LastSnapshotOK
      <3>. QED BY <1>1, <2>1, <2>2, <2>6, <3>1
               DEF Awaited, WillBeTaken, IsAcceptable, AcceptsEdits
    <2>. QED BY <2>1, <2>2, <2>5, <2>7 DEF OwnerOK
  <1>. QED BY <1>2, <1>3

(* Text arrives: an earlier one leaves the awaited one awaited, and what   *)
(* was overtaken is dropped.                                               *)
LEMMA OwnerTaking ==
  ASSUME OwnerInv, NEW m \in messages, AcceptContent(m)
  PROVE  OwnerOK'
  <1>0. /\ TypeInv /\ WindowsInv /\ m \in Contents
        /\ messages' = messages \ {m} /\ owner' = owner /\ authority' = authority
    BY DEF OwnerInv, WindowsInv, AcceptContent, Contents
  <1>. SUFFICES ASSUME owner # None PROVE OwnerOK'
    BY <1>0 DEF OwnerOK
  <1>1. Contents' = Contents \ {m}
    BY <1>0 DEF Contents
  <1>2. /\ \A n \in Contents : n.source = owner.source
        /\ \/ /\ state.text = owner.text
              /\ \A n \in Contents : n.sequence <= lastSeq[owner.source]
           \/ \E n \in Contents : n.text = owner.text /\ Awaited(n)
    BY DEF OwnerInv, OwnerOK
  <1>3. m.source \in 1..MaxLaunches
    <2>1. count.launches \in 0..MaxLaunches /\ m.source \in 1..count.launches
      BY <1>0, Launching DEF TypeInv, WindowsInv, SourcesOK
    <2>. QED BY <2>1, BoundAssumption
  <1>4. \A n \in Contents : n.sequence \in Nat
    BY <1>0 DEF Contents, TypeInv, MessagesOK, SnapshotMessages, RequestMessages,
                ContentMessages
  <1>5. CASE ~IsAcceptable(m)
    <2>1. UNCHANGED <<snapshot, lastSeq, state>>
      BY <1>5 DEF AcceptContent
    <2>2. ASSUME NEW n \in Contents, Awaited(n) PROVE n # m /\ Awaited(n)'
      <3>1. IsAcceptable(n)
        BY <2>2 DEF Awaited, IsAcceptable, OwnerInv, RevisionInv, LastSnapshotOK
      <3>2. Awaited(n)'
        BY <1>0, <1>1, <2>1, <2>2 DEF Awaited, AcceptsEdits
      <3>. QED BY <1>5, <3>1, <3>2
    <2>. QED BY <1>0, <1>1, <1>2, <2>1, <2>2 DEF OwnerOK
  <1>6. CASE IsAcceptable(m)
    <2>. DEFINE s == [snapshot EXCEPT !.revision = revision + 1, !.state.text = m.text]
                t == [state EXCEPT !.text = m.text]
    <2>0. lastSeq' = [lastSeq EXCEPT ![m.source] = m.sequence] /\ snapshot' = s /\ state' = t
      BY <1>6 DEF AcceptContent, Becomes, Enqueue
    <2>1. m.sequence > lastSeq[m.source] /\ lastSeq'[m.source] = m.sequence
      BY <1>0, <1>3, <1>6, <2>0 DEF IsAcceptable, TypeInv, PublisherOK
    <2>2. /\ t.doc = state.doc /\ t.epoch = state.epoch /\ t.text = m.text
          /\ t.status = state.status /\ t.kind = state.kind
      BY <1>0 DEF TypeInv, SessionOK, States
    <2>3. /\ s # None
          /\ s.state.doc = snapshot.state.doc /\ s.state.epoch = snapshot.state.epoch
          /\ s.state.status = snapshot.state.status /\ s.state.kind = snapshot.state.kind
      <3>1. snapshot \in Snapshots /\ snapshot.state \in States /\ revision + 1 \in Nat
        BY <1>0, <1>6 DEF IsAcceptable, TypeInv, PublisherOK, Snapshots
      <3>2. m.text \in Texts
        BY <1>0 DEF Contents, TypeInv, MessagesOK, SnapshotMessages, RequestMessages,
                    ContentMessages
      <3>3. s \in Snapshots
        BY <3>1, <3>2, TextSnapshot
      <3>. DEFINE u == [snapshot.state EXCEPT !.text = m.text]
      <3>4. s.state = u
        BY <3>1 DEF Snapshots
      <3>5. /\ u.doc = snapshot.state.doc /\ u.epoch = snapshot.state.epoch
            /\ u.status = snapshot.state.status /\ u.kind = snapshot.state.kind
        BY <3>1 DEF States
      <3>. HIDE DEF s, u
      <3>. QED BY <3>3, <3>4, <3>5, NoneApart
    <2>. HIDE DEF s, t
    <2>4. PICK n \in Contents : n.text = owner.text /\ Awaited(n)
      <3>1. ~ \A n \in Contents : n.sequence <= lastSeq[owner.source]
        <4>1. lastSeq[m.source] \in Nat
          BY <1>0, <1>3 DEF TypeInv, PublisherOK
        <4>. QED BY <1>0, <1>2, <1>4, <2>1, <4>1
      <3>. QED BY <1>2, <3>1
    <2>5. CASE n = m
      <3>1. \A k \in Contents' : k.sequence <= lastSeq'[owner.source]
        BY <1>0, <1>1, <1>2, <1>4, <2>1, <2>4, <2>5 DEF Awaited
      <3>2. state'.text = owner.text
        BY <2>0, <2>2, <2>4, <2>5
      <3>. QED BY <1>0, <1>1, <1>2, <3>1, <3>2 DEF OwnerOK
    <2>6. CASE n # m
      <3>1. n \in Contents' /\ n.sequence > lastSeq'[n.source]
        <4>1. m.sequence < n.sequence /\ n.source = m.source
          BY <1>0, <1>2, <2>4, <2>6 DEF Awaited
        <4>. QED BY <1>0, <1>1, <1>4, <2>1, <2>6, <4>1
      <3>2. Awaited(n)'
        BY <1>0, <1>1, <2>0, <2>2, <2>3, <2>4, <3>1 DEF Awaited, AcceptsEdits
      <3>. QED BY <1>0, <1>1, <1>2, <2>4, <3>1, <3>2 DEF OwnerOK
    <2>. QED BY <2>5, <2>6
  <1>. QED BY <1>5, <1>6

(* A flush sends the same state, under the same revision or the next.      *)
LEMMA FlushKeepsState ==
  ASSUME RevisionInv, FlushAuthoritativeSnapshot
  PROVE  snapshot # None /\ snapshot' # None /\ snapshot'.state = snapshot.state
  <1>. DEFINE s == [pending EXCEPT !.revision = FlushedRevision]
  <1>1. pending \in Snapshots /\ pending = snapshot
    BY DEF FlushAuthoritativeSnapshot, RevisionInv, LastSnapshotOK, TypeInv, PublisherOK
  <1>2. snapshot' = IF s = pending THEN snapshot ELSE s
    BY DEF FlushAuthoritativeSnapshot
  <1>3. s.state = pending.state
    BY <1>1 DEF Snapshots
  <1>4. s # None
    <2>1. FlushedRevision \in Nat
      BY <1>1 DEF FlushedRevision, RevisionInv, TypeInv, PublisherOK, Snapshots
    <2>. HIDE DEF FlushedRevision
    <2>2. s \in Snapshots
      BY <1>1, <2>1 DEF Snapshots
    <2>. QED BY <2>2, NoneApart
  <1>. HIDE DEF s
  <1>. QED BY <1>1, <1>2, <1>3, <1>4, NoneApart

LEMMA OwnerStep == OwnerInv /\ [Next]_vars => OwnerInv'
  <1>. SUFFICES ASSUME OwnerInv, [Next]_vars PROVE OwnerInv'
    OBVIOUS
  <1>0. RevisionInv' /\ WindowsInv' /\ RevisionInv /\ WindowsInv /\ TypeInv
    BY RevisionStep, WindowsStep DEF OwnerInv, RevisionInv
  <1>. SUFFICES OwnerOK'
    BY <1>0 DEF OwnerInv
  <1>1. CASE UNCHANGED vars
    <2>1. UNCHANGED <<owner, authority, lastSeq, state, snapshot, messages>>
      BY <1>1 DEF vars
    <2>2. Contents' = Contents /\ (AcceptsEdits(state) => AcceptsEdits(state)')
      BY <2>1 DEF Contents, AcceptsEdits
    <2>. QED BY <2>1, <2>2, OwnerKept
  <1>2. ASSUME Save \/ SaveAs \/ SeeSameFile \/ (RegisterWatch /\ state.kind = "text")
        PROVE  OwnerOK'
    <2>1. /\ UNCHANGED <<owner, authority, lastSeq, snapshot, messages>>
      BY <1>2 DEF Save, SaveAs, SeeSameFile, RegisterWatch, publisher
    <2>2. /\ state'.doc = state.doc /\ state'.epoch = state.epoch
          /\ state'.text = state.text /\ state'.status = state.status
          /\ state'.kind = state.kind
      BY <1>0, <1>2 DEF Save, SaveAs, SeeSameFile, RegisterWatch, Becomes, TypeInv,
                        SessionOK, States
    <2>3. Contents' = Contents /\ (AcceptsEdits(state) => AcceptsEdits(state)')
      BY <2>1, <2>2 DEF Contents, AcceptsEdits
    <2>. QED BY <2>1, <2>2, <2>3, OwnerKept
  <1>3. ASSUME PublishAuthoritativeState PROVE OwnerOK'
    <2>. DEFINE s == [authority |-> authority, revision |-> revision + 1, state |-> state]
    <2>1. /\ UNCHANGED <<owner, authority, lastSeq, state, messages>>
          /\ snapshot' = s
      BY <1>3 DEF PublishAuthoritativeState, Enqueue
    <2>2. Contents' = Contents /\ (AcceptsEdits(state) => AcceptsEdits(state)')
      BY <2>1 DEF Contents, AcceptsEdits
    <2>3. s # None /\ s.state = state
      <3>1. s \in Snapshots
        BY <1>0 DEF TypeInv, PublisherOK, SessionOK, Snapshots
      <3>. QED BY <3>1, NoneApart
    <2>. HIDE DEF s
    <2>. QED BY <2>1, <2>2, <2>3, OwnerKept
  <1>4. ASSUME FlushAuthoritativeSnapshot PROVE OwnerOK'
    <2>1. /\ UNCHANGED <<owner, authority, lastSeq, state>>
          /\ \A m \in messages' : m \in messages \/ m.type = "snapshot"
          /\ messages \subseteq messages'
      BY <1>4 DEF FlushAuthoritativeSnapshot, Copies, session
    <2>2. Contents' = Contents /\ (AcceptsEdits(state) => AcceptsEdits(state)')
      BY <2>1 DEF Contents, AcceptsEdits
    <2>. QED BY <1>0, <1>4, <2>1, <2>2, FlushKeepsState, OwnerKept
  <1>5. ASSUME UNCHANGED <<owner, authority, lastSeq, state, snapshot>>,
               Contents' = Contents
        PROVE  OwnerOK'
    <2>1. AcceptsEdits(state) => AcceptsEdits(state)'
      BY <1>5 DEF AcceptsEdits
    <2>. QED BY <1>5, <2>1, OwnerKept
  <1>6. ASSUME NEW m \in messages, AnswerRequest(m) PROVE OwnerOK'
    <2>1. Contents' = Contents
      BY <1>6 DEF AnswerRequest, Copies, Contents
    <2>. QED BY <1>5, <1>6, <2>1 DEF AnswerRequest, session
  <1>7. ASSUME NEW m \in messages, AcceptSnapshot(m) \/ MissSnapshot(m) PROVE OwnerOK'
    <2>1. Contents' = Contents
      BY <1>7 DEF AcceptSnapshot, MissSnapshot, Contents
    <2>. QED BY <1>5, <1>7, <2>1 DEF AcceptSnapshot, MissSnapshot, session, publisher
  <1>8. ASSUME NEW m \in messages, Lose(m) PROVE OwnerOK'
    <2>1. CASE m.type = "content"
      BY <1>8, <2>1, OwnerFreed DEF Lose
    <2>2. CASE m.type # "content"
      <3>1. Contents' = Contents
        BY <1>8, <2>2 DEF Lose, Contents
      <3>. QED BY <1>5, <1>8, <2>2, <3>1 DEF Lose, session, publisher
    <2>. QED BY <2>1, <2>2
  <1>9. ASSUME NEW r \in Replicas, Open(r) \/ Close(r) \/ Listen(r) PROVE OwnerOK'
    <2>1. Contents' = Contents
      BY <1>9 DEF Open, Close, Listen, Contents
    <2>. QED BY <1>5, <1>9, <2>1 DEF Open, Close, Listen, session, publisher
  <1>10. CASE Edit
    <2>1. CASE owner' = None
      BY <2>1, OwnerFreed
    <2>2. CASE owner' # None /\ ~ \E r \in Editors : TypeInPopout(r)
      BY <1>2, <1>10, <2>2
         DEF Edit, OpenDocument, PrepareOpen, ResolveOpen, Type, LockAuthority,
             RegisterWatch, SeeChangedFile
    <2>3. CASE \E r \in Editors : TypeInPopout(r)
      BY <2>3, OwnerTyping
    <2>. QED BY <2>1, <2>2, <2>3
  <1>11. CASE ReloadMain
    BY <1>11, OwnerFreed DEF ReloadMain
  <1>. QED BY <1>1, <1>3, <1>4, <1>6, <1>7, <1>8, <1>9, <1>10, <1>11, OwnerTaking
           DEF Next, Replicate

LEMMA OwnerInit == Init => OwnerInv
  BY RevisionInit, WindowsInit DEF Init, OwnerInv, OwnerOK

(***************************************************************************)
(* The text a pop-out's user typed last, for the document the main window  *)
(* has published, is the main window's text or is still on its way,        *)
(* whatever crosses it: the sequence numbers of its source keep out every  *)
(* text it overtook (paneSync.ts, acceptContent).                          *)
(***************************************************************************)
THEOREM HeardCorrect == Spec => []EditorIsHeard
  <1>1. Spec => []OwnerInv
    BY OwnerInit, OwnerStep, PTL DEF Spec
  <1>. QED BY <1>1, OwnerHeard, PTL

-------------------------------------------------------------------------------
(* What the pop-outs show in the end.                                      *)

(* No emission is refused, no prepared open is rolled back to the document *)
(* before it, and no document moves to another file.  Each of the three    *)
(* leaves a window behind: a refused emission is not repeated, and a       *)
(* window turns down the earlier epoch of a restored document and the      *)
(* preview revision of a new file's watch, which starts at one again.      *)
Undisturbed ==
    /\ MaxLosses = 0
    /\ "not_committed" \notin OpenOutcomes
    /\ MaxSaveAs = 0

Precedes(s, t) ==
    /\ s.epoch <= t.epoch
    /\ s.epoch = t.epoch => s.doc = t.doc /\ s.preview <= t.preview

(* All that a window shows, read from the storage or not, and all it may   *)
(* be sent.                                                                *)
Shared ==
    (({cache} \cup {m.snapshot : m \in {n \in messages : n.type = "snapshot"}})
       \cup {replica[r].accepted : r \in Replicas})
    \ {None}

(* The document only moves forward, the publisher follows it, and what the *)
(* windows hold of this main window is behind the last snapshot and has    *)
(* left already.                                                           *)
DocumentOK ==
    /\ watch = state.preview
    /\ snapshot = None => unrendered
    /\ snapshot # None => Precedes(snapshot.state, state)
    /\ snapshot # None /\ ~unrendered => snapshot.state = state
    /\ snapshot # None /\ pending = None => highest = revision

Behind(s) ==
    /\ s.authority <= authority
    /\ s.authority = authority =>
          /\ snapshot # None
          /\ s.revision <= highest
          /\ Precedes(s.state, snapshot.state)

SharedOK == \A s \in Shared : Behind(s)

LiveOK ==
    \A r \in Replicas :
        /\ replica[r].live => /\ replica[r].accepted # None
                              /\ replica[r].pin = replica[r].accepted.authority
        /\ replica[r].typed # None => replica[r].live

(* A listening window of this main window shows its last snapshot or will  *)
(* be sent it.                                                             *)
Served(r) ==
    \/ unrendered
    \/ pending # None
    \/ \E m \in messages : m.type = "request"
    \/ \E m \in messages : m.type = "snapshot" /\ m.to = r /\ m.snapshot = snapshot
    \/ replica[r].live /\ replica[r].accepted = snapshot

ServedOK ==
    \A r \in Replicas :
        replica[r].phase = "listening" /\ replica[r].pin \in {0, authority} => Served(r)

(* Text typed over the last snapshot will be answered by a later one.      *)
Answered(r) ==
    \/ unrendered
    \/ pending # None
    \/ \E m \in Contents : m.source = replica[r].source /\ IsAcceptable(m)

TypedOK ==
    \A r \in Replicas :
        /\ replica[r].live
        /\ replica[r].accepted = snapshot
        /\ replica[r].typed # None
        => Answered(r)

QuietInv ==
    /\ RevisionInv /\ LockedInv /\ WindowsInv
    /\ DocumentOK /\ SharedOK /\ LiveOK /\ ServedOK /\ TypedOK

LEMMA QuietShows == QuietInv => QuietReplicasShowMain
  <1>. SUFFICES ASSUME QuietInv, Quiet, NEW r \in Replicas,
                       replica[r].phase = "listening", replica[r].pin \in {0, authority}
                PROVE  /\ replica[r].accepted # None
                       /\ replica[r].live
                       /\ Shown(r) = state
    BY DEF QuietReplicasShowMain
  <1>1. replica[r].live /\ replica[r].accepted = snapshot
    BY DEF QuietInv, ServedOK, Served, Quiet
  <1>2. replica[r].typed = None
    BY <1>1 DEF QuietInv, TypedOK, Answered, Quiet, Contents
  <1>3. snapshot # None /\ snapshot.state = state
    BY DEF QuietInv, DocumentOK, Quiet
  <1>. QED BY <1>1, <1>2, <1>3 DEF Shown

LEMMA SharedType == TypeInv => Shared \subseteq Snapshots
  BY DEF TypeInv, CacheOK, MessagesOK, ReplicasOK, Panes, Shared,
         SnapshotMessages, RequestMessages, ContentMessages

LEMMA SharedNow ==
  /\ cache \in Shared \cup {None}
  /\ \A m \in messages : m.type = "snapshot" => m.snapshot \in Shared \cup {None}
  /\ \A r \in Replicas : replica[r].accepted \in Shared \cup {None}
  BY DEF Shared

LEMMA SharedNext ==
  ASSUME NEW T,
         cache' \in Shared \cup T \cup {None},
         \A m \in messages' : m.type = "snapshot" => m.snapshot \in Shared \cup T \cup {None},
         \A r \in Replicas : replica'[r].accepted \in Shared \cup T \cup {None}
  PROVE  Shared' \subseteq Shared \cup T
  BY DEF Shared

(* Documents in order.                                                     *)
LEMMA PrecedesSelf ==
  ASSUME NEW s \in States
  PROVE  Precedes(s, s)
  BY DEF Precedes, States

LEMMA PrecedesNext ==
  ASSUME NEW s \in States, NEW t \in States, NEW u \in States,
         Precedes(s, t), Precedes(t, u)
  PROVE  Precedes(s, u)
  BY DEF Precedes, States

(* A step of the publisher that leaves the last snapshot's document where  *)
(* it is or moves it forward leaves what is behind it behind it.           *)
LEMMA BehindKept ==
  ASSUME TypeInv, TypeInv', NEW s \in Snapshots, Behind(s),
         authority' = authority, highest' >= highest,
         snapshot # None =>
            snapshot' # None /\ Precedes(snapshot.state, snapshot'.state)
  PROVE  Behind(s)'
  <1>. SUFFICES ASSUME s.authority = authority
                PROVE  /\ snapshot' # None
                       /\ s.revision <= highest'
                       /\ Precedes(s.state, snapshot'.state)
    BY DEF Behind
  <1>1. /\ snapshot # None /\ s.revision <= highest /\ Precedes(s.state, snapshot.state)
        /\ snapshot' # None
    BY DEF Behind
  <1>2. snapshot \in Snapshots /\ snapshot' \in Snapshots
    BY <1>1 DEF TypeInv, PublisherOK
  <1>3. {s.state, snapshot.state, snapshot'.state} \subseteq States
    BY <1>2 DEF Snapshots
  <1>4. s.revision \in Nat /\ highest \in Nat /\ highest' \in Nat
    BY DEF TypeInv, PublisherOK, Snapshots
  <1>. QED BY <1>1, <1>3, <1>4, PrecedesNext

LEMMA QuietInit == Init => QuietInv
  <1>. SUFFICES ASSUME Init PROVE QuietInv
    OBVIOUS
  <1>1. RevisionInv /\ LockedInv /\ WindowsInv
    BY RevisionInit, LockedInit, WindowsInit
  <1>2. \A r \in Replicas : /\ replica[r].phase = "closed" /\ replica[r].accepted = None
                            /\ replica[r].live = FALSE /\ replica[r].typed = None
    BY DEF Init, Closed
  <1>3. Shared = {}
    BY <1>2 DEF Init, Shared
  <1>4. DocumentOK
    BY DEF Init, DocumentOK, Document
  <1>. QED BY <1>1, <1>2, <1>3, <1>4 DEF QuietInv, SharedOK, LiveOK, ServedOK, TypedOK

-------------------------------------------------------------------------------
(* The steps, part by part.                                                *)

(* The document moves forward and is yet to be published.                  *)
LEMMA Forward ==
  ASSUME QuietInv, TypeInv',
         UNCHANGED <<publisher, cache, messages, replica>>,
         unrendered' = TRUE,
         watch' = state'.preview,
         Precedes(state, state')
  PROVE  DocumentOK' /\ SharedOK' /\ LiveOK' /\ ServedOK' /\ TypedOK'
  <1>0. TypeInv
    BY DEF QuietInv, WindowsInv
  <1>1. DocumentOK'
    <2>1. snapshot # None => Precedes(snapshot.state, state')
      <3>. SUFFICES ASSUME snapshot # None PROVE Precedes(snapshot.state, state')
        OBVIOUS
      <3>1. snapshot.state \in States /\ state \in States /\ state' \in States
        BY <1>0 DEF TypeInv, PublisherOK, SessionOK, Snapshots
      <3>. QED BY <3>1, PrecedesNext DEF QuietInv, DocumentOK
    <2>. QED BY <2>1 DEF QuietInv, DocumentOK, publisher
  <1>2. SharedOK'
    BY DEF QuietInv, SharedOK, Shared, Behind, publisher
  <1>3. LiveOK'
    BY DEF QuietInv, LiveOK
  <1>. QED BY <1>1, <1>2, <1>3 DEF ServedOK, Served, TypedOK, Answered

(* An edit of the document, whatever makes it, moves it forward.           *)
LEMMA EditForward ==
  ASSUME Undisturbed, QuietInv, TypeInv',
         \/ Type \/ Save \/ LockAuthority \/ RegisterWatch
         \/ SeeSameFile \/ SeeChangedFile
  PROVE  /\ UNCHANGED <<publisher, cache, messages, replica>>
         /\ unrendered' = TRUE
         /\ watch' = state'.preview
         /\ Precedes(state, state')
  <1>0. /\ state \in States /\ watch = state.preview
        /\ state.epoch \in Nat /\ state.preview \in Nat
    BY DEF QuietInv, WindowsInv, TypeInv, SessionOK, DocumentOK, States
  <1>1. UNCHANGED <<publisher, cache, messages, replica>> /\ unrendered' = TRUE
    BY DEF Type, Save, LockAuthority, RegisterWatch, SeeSameFile, SeeChangedFile,
           Becomes
  <1>2. CASE Type \/ Save \/ LockAuthority
    <2>1. /\ watch' = watch /\ state'.preview = state.preview
          /\ state'.epoch = state.epoch /\ state'.doc = state.doc
      BY <1>0, <1>2 DEF Type, Save, LockAuthority, Becomes, States
    <2>. QED BY <1>0, <1>1, <2>1 DEF Precedes
  <1>3. CASE RegisterWatch
    <2>1. /\ watch = 0 /\ watch' = 1 /\ state'.preview = 1 /\ state'.doc = state.doc
          /\ state'.epoch \in {state.epoch, state.epoch + 1}
      BY <1>0, <1>3 DEF RegisterWatch, Becomes, States
    <2>. QED BY <1>0, <1>1, <2>1 DEF Precedes
  <1>4. CASE SeeSameFile \/ SeeChangedFile
    <2>1. /\ watch' = watch + 1 /\ state'.preview = watch + 1 /\ state'.doc = state.doc
          /\ state'.epoch \in {state.epoch, state.epoch + 1}
      BY <1>0, <1>4 DEF SeeSameFile, SeeChangedFile, Becomes, States
    <2>. QED BY <1>0, <1>1, <2>1 DEF Precedes
  <1>. QED BY <1>2, <1>3, <1>4

LEMMA OpenForward ==
  ASSUME Undisturbed, QuietInv, TypeInv',
         \/ \E k \in Kinds : OpenDocument(k) \/ PrepareOpen(k)
         \/ \E outcome \in OpenOutcomes : ResolveOpen(outcome)
  PROVE  /\ UNCHANGED <<publisher, cache, messages, replica>>
         /\ unrendered' = TRUE
         /\ watch' = state'.preview
         /\ Precedes(state, state')
  <1>0. /\ state \in States /\ watch = state.preview
        /\ state.epoch \in Nat /\ state.preview \in Nat
    BY DEF QuietInv, WindowsInv, TypeInv, SessionOK, DocumentOK, States
  <1>1. ASSUME NEW k \in Kinds, OpenDocument(k) \/ PrepareOpen(k)
        PROVE  /\ UNCHANGED <<publisher, cache, messages, replica>>
               /\ unrendered' = TRUE
               /\ watch' = 0 /\ state'.preview = 0 /\ state'.epoch = state.epoch + 1
    BY <1>1 DEF OpenDocument, PrepareOpen, Becomes, Document
  <1>2. ASSUME NEW outcome \in OpenOutcomes, ResolveOpen(outcome)
        PROVE  /\ UNCHANGED <<publisher, cache, messages, replica>>
               /\ unrendered' = TRUE
               /\ watch' = watch
               /\ state'.preview = state.preview /\ state'.epoch = state.epoch
               /\ state'.doc = state.doc
    <2>1. outcome # "not_committed"
      BY DEF Undisturbed
    <2>2. state' = [state EXCEPT !.status = outcome, !.text = state.saved]
      BY <1>2, <2>1 DEF ResolveOpen, Becomes
    <2>3. /\ state'.preview = state.preview /\ state'.epoch = state.epoch
          /\ state'.doc = state.doc
      BY <1>0, <2>2 DEF States
    <2>. QED BY <1>2, <2>3 DEF ResolveOpen, Becomes
  <1>3. CASE \E k \in Kinds : OpenDocument(k) \/ PrepareOpen(k)
    <2>1. state'.epoch = state.epoch + 1
      BY <1>1, <1>3
    <2>2. Precedes(state, state')
      BY <1>0, <2>1 DEF Precedes
    <2>. QED BY <1>1, <1>3, <2>2
  <1>4. CASE \E outcome \in OpenOutcomes : ResolveOpen(outcome)
    <2>1. state'.epoch = state.epoch /\ state'.preview = state.preview /\ state'.doc = state.doc
      BY <1>2, <1>4
    <2>2. Precedes(state, state')
      BY <1>0, <2>1 DEF Precedes
    <2>. QED BY <1>0, <1>2, <1>4, <2>2
  <1>. QED BY <1>3, <1>4

(* The publisher's steps.                                                  *)
LEMMA QuietPublish ==
  ASSUME QuietInv, TypeInv', PublishAuthoritativeState
  PROVE  DocumentOK' /\ SharedOK' /\ LiveOK' /\ ServedOK' /\ TypedOK'
  <1>. DEFINE s == [authority |-> authority, revision |-> revision + 1, state |-> state]
  <1>0. TypeInv
    BY DEF QuietInv, WindowsInv
  <1>1. /\ snapshot' = s /\ pending' = s /\ unrendered' = FALSE
        /\ UNCHANGED <<state, watch, authority, highest, cache, messages, replica>>
    BY DEF PublishAuthoritativeState, Enqueue
  <1>2. s \in Snapshots /\ s.state = state
    BY <1>0 DEF TypeInv, PublisherOK, SessionOK, Snapshots
  <1>. HIDE DEF s
  <1>3. s # None
    BY <1>2, NoneApart
  <1>4. Precedes(state, state)
    BY <1>0, PrecedesSelf DEF TypeInv, SessionOK
  <1>5. DocumentOK'
    BY <1>1, <1>2, <1>3, <1>4 DEF QuietInv, DocumentOK
  <1>6. SharedOK'
    <2>. SUFFICES ASSUME NEW t \in Shared PROVE Behind(t)'
      BY <1>1 DEF SharedOK, Shared
    <2>1. t \in Snapshots /\ Behind(t)
      BY <1>0, SharedType DEF QuietInv, SharedOK
    <2>2. snapshot # None => Precedes(snapshot.state, snapshot'.state)
      BY <1>1, <1>2 DEF QuietInv, DocumentOK
    <2>3. highest' >= highest
      BY <1>0, <1>1 DEF TypeInv, PublisherOK
    <2>4. authority' = authority /\ snapshot' # None
      BY <1>1, <1>3
    <2>. QED BY <1>0, <2>1, <2>2, <2>3, <2>4, BehindKept
  <1>7. LiveOK'
    BY <1>1 DEF QuietInv, LiveOK
  <1>. QED BY <1>1, <1>3, <1>5, <1>6, <1>7 DEF ServedOK, Served, TypedOK, Answered

LEMMA QuietTaking ==
  ASSUME QuietInv, TypeInv', NEW m \in messages, AcceptContent(m)
  PROVE  DocumentOK' /\ SharedOK' /\ LiveOK' /\ ServedOK' /\ TypedOK'
  <1>0. /\ TypeInv /\ m.type = "content" /\ messages' = messages \ {m}
        /\ UNCHANGED <<watch, authority, highest, cache, replica>>
    BY DEF QuietInv, WindowsInv, AcceptContent
  <1>1. Shared' \subseteq Shared
    BY <1>0 DEF Shared
  <1>2. LiveOK'
    BY <1>0 DEF QuietInv, LiveOK
  <1>3. CASE ~IsAcceptable(m)
    <2>1. UNCHANGED <<revision, snapshot, pending, lastSeq, state, unrendered>>
      BY <1>3 DEF AcceptContent
    <2>2. DocumentOK' /\ SharedOK'
      BY <1>0, <1>1, <2>1 DEF QuietInv, DocumentOK, SharedOK, Behind
    <2>3. ServedOK'
      BY <1>0, <2>1 DEF QuietInv, ServedOK, Served
    <2>4. \A n \in Contents : IsAcceptable(n) => n \in Contents' /\ IsAcceptable(n)'
      BY <1>0, <1>3, <2>1 DEF Contents, IsAcceptable, AcceptsEdits
    <2>5. TypedOK'
      <3>1. ASSUME NEW r \in Replicas, Answered(r) PROVE Answered(r)'
        BY <1>0, <2>1, <2>4, <3>1 DEF Answered
      <3>. QED BY <1>0, <2>1, <3>1 DEF QuietInv, TypedOK
    <2>. QED BY <1>2, <2>2, <2>3, <2>5
  <1>4. CASE IsAcceptable(m)
    <2>. DEFINE s == [snapshot EXCEPT !.revision = revision + 1, !.state.text = m.text]
                t == [state EXCEPT !.text = m.text]
                u == [snapshot.state EXCEPT !.text = m.text]
    <2>0. snapshot' = s /\ pending' = s /\ state' = t /\ unrendered' = TRUE
      BY <1>4 DEF AcceptContent, Becomes, Enqueue
    <2>1. /\ snapshot \in Snapshots /\ snapshot.state \in States /\ revision + 1 \in Nat
          /\ snapshot # None
      BY <1>0, <1>4 DEF IsAcceptable, TypeInv, PublisherOK, Snapshots
    <2>2. m.text \in Texts
      BY <1>0 DEF TypeInv, MessagesOK, SnapshotMessages, RequestMessages, ContentMessages
    <2>3. s \in Snapshots
      BY <2>1, <2>2, TextSnapshot
    <2>4. s.state = u
      BY <2>1 DEF Snapshots
    <2>5. /\ u.doc = snapshot.state.doc /\ u.epoch = snapshot.state.epoch
          /\ u.preview = snapshot.state.preview
      BY <2>1 DEF States
    <2>6. t.doc = state.doc /\ t.epoch = state.epoch /\ t.preview = state.preview
      BY <1>0 DEF TypeInv, SessionOK, States
    <2>7. s # None
      BY <2>3, NoneApart
    <2>. HIDE DEF s, t, u
    <2>8. Precedes(snapshot.state, s.state)
      BY <2>1, <2>4, <2>5 DEF Precedes, States
    <2>9. DocumentOK'
      <3>1. Precedes(snapshot.state, state)
        BY <2>1 DEF QuietInv, DocumentOK
      <3>2. Precedes(s.state, t)
        BY <2>4, <2>5, <2>6, <3>1 DEF Precedes
      <3>. QED BY <1>0, <2>0, <2>6, <2>7, <3>2 DEF QuietInv, DocumentOK
    <2>10. SharedOK'
      <3>. SUFFICES ASSUME NEW v \in Shared PROVE Behind(v)'
        BY <1>1 DEF SharedOK
      <3>1. v \in Snapshots /\ Behind(v)
        BY <1>0, SharedType DEF QuietInv, SharedOK
      <3>2. highest' >= highest /\ authority' = authority
        BY <1>0 DEF TypeInv, PublisherOK
      <3>3. snapshot' # None /\ Precedes(snapshot.state, snapshot'.state)
        BY <2>0, <2>7, <2>8
      <3>. QED BY <1>0, <3>1, <3>2, <3>3, BehindKept
    <2>. QED BY <1>2, <2>0, <2>7, <2>9, <2>10 DEF ServedOK, Served, TypedOK, Answered
  <1>. QED BY <1>3, <1>4

LEMMA QuietFlush ==
  ASSUME QuietInv, TypeInv', FlushAuthoritativeSnapshot
  PROVE  DocumentOK' /\ SharedOK' /\ LiveOK' /\ ServedOK' /\ TypedOK'
  <1>. DEFINE s == [pending EXCEPT !.revision = FlushedRevision]
  <1>0. TypeInv /\ RevisionInv
    BY DEF QuietInv, WindowsInv
  <1>1. /\ pending \in Snapshots /\ pending = snapshot /\ snapshot # None
        /\ pending.authority = authority /\ pending.revision = revision
        /\ highest <= revision /\ revision \in Nat /\ highest \in Nat
    BY <1>0 DEF FlushAuthoritativeSnapshot, RevisionInv, LastSnapshotOK, TypeInv,
                PublisherOK
  <1>2. /\ FlushedRevision \in Nat /\ FlushedRevision > highest
        /\ FlushedRevision >= revision
    BY <1>1 DEF FlushedRevision
  <1>3. /\ s \in Snapshots /\ s.authority = authority /\ s.revision = FlushedRevision
        /\ s.state = snapshot.state /\ s # None
    <2>. HIDE DEF FlushedRevision
    <2>1. /\ s \in Snapshots /\ s.authority = authority /\ s.revision = FlushedRevision
          /\ s.state = snapshot.state
      BY <1>1, <1>2 DEF Snapshots
    <2>. HIDE DEF s
    <2>. QED BY <2>1, NoneApart
  <1>4. /\ snapshot' = IF s = pending THEN snapshot ELSE s
        /\ cache' \in {s, None} /\ highest' = s.revision
        /\ revision' = PublisherRevision(s)
        /\ messages' = messages \cup Copies(s)
        /\ pending' = None
        /\ UNCHANGED <<state, unrendered, watch, authority, replica, lastSeq>>
    BY DEF FlushAuthoritativeSnapshot, session
  <1>. HIDE DEF s
  <1>5. snapshot' = s /\ revision' = s.revision
    BY <1>1, <1>4 DEF PublisherRevision
  <1>6. DocumentOK'
    BY <1>1, <1>3, <1>4, <1>5 DEF QuietInv, DocumentOK
  <1>7. highest' >= highest /\ highest' = FlushedRevision
    BY <1>1, <1>2, <1>3, <1>4
  <1>8. SharedOK'
    <2>1. Shared' \subseteq Shared \cup {s}
      <3>1. \A n \in messages' : n.type = "snapshot" =>
               n.snapshot \in Shared \cup {s} \cup {None}
        BY <1>4, SharedNow DEF Copies
      <3>. QED BY <1>4, <3>1, SharedNow, SharedNext
    <2>. SUFFICES ASSUME NEW t \in Shared \cup {s} PROVE Behind(t)'
      BY <2>1 DEF SharedOK
    <2>2. snapshot.state \in States
      BY <1>1 DEF Snapshots
    <2>3. Precedes(snapshot.state, snapshot'.state)
      BY <1>3, <1>5, <2>2, PrecedesSelf
    <2>4. CASE t \in Shared
      <3>1. t \in Snapshots /\ Behind(t)
        BY <1>0, <2>4, SharedType DEF QuietInv, SharedOK
      <3>. QED BY <1>0, <1>3, <1>4, <1>5, <1>7, <2>3, <3>1, BehindKept
    <2>5. CASE t = s
      <3>1. authority \in Nat
        BY <1>0 DEF TypeInv, PublisherOK
      <3>. QED BY <1>2, <1>3, <1>4, <1>5, <1>7, <2>3, <2>5, <3>1 DEF Behind
    <2>. QED BY <2>4, <2>5
  <1>9. LiveOK'
    BY <1>4 DEF QuietInv, LiveOK
  <1>10. ServedOK'
    <2>. SUFFICES ASSUME NEW r \in Replicas, replica[r].phase = "listening" PROVE Served(r)'
      BY <1>4 DEF ServedOK
    <2>. DEFINE n == [type |-> "snapshot", to |-> r, snapshot |-> s]
    <2>1. n \in messages' /\ n.type = "snapshot" /\ n.to = r /\ n.snapshot = snapshot'
      BY <1>4, <1>5 DEF Copies
    <2>. QED BY <2>1 DEF Served
  <1>11. TypedOK'
    <2>. SUFFICES ASSUME NEW r \in Replicas, replica[r].live, replica[r].accepted = s
                  PROVE  FALSE
      BY <1>4, <1>5 DEF TypedOK
    <2>1. replica[r].accepted \in Shared
      BY <1>3, SharedNow
    <2>2. s.revision <= highest
      BY <1>3, <2>1 DEF QuietInv, SharedOK, Behind
    <2>. QED BY <1>1, <1>2, <1>3, <2>2
  <1>. QED BY <1>6, <1>8, <1>9, <1>10, <1>11

LEMMA QuietAnswer ==
  ASSUME QuietInv, TypeInv', NEW m \in messages, AnswerRequest(m)
  PROVE  DocumentOK' /\ SharedOK' /\ LiveOK' /\ ServedOK' /\ TypedOK'
  <1>0. /\ TypeInv /\ RevisionInv /\ m.type = "request"
        /\ UNCHANGED <<state, unrendered, watch, authority, revision, snapshot, pending,
                       lastSeq, cache, replica>>
    BY DEF QuietInv, WindowsInv, AnswerRequest, session
  <1>1. LiveOK'
    BY <1>0 DEF QuietInv, LiveOK
  <1>2. CASE snapshot = None
    <2>1. unrendered /\ messages' = messages \ {m} /\ highest' = highest
      BY <1>2 DEF AnswerRequest, QuietInv, DocumentOK
    <2>2. Shared' \subseteq Shared
      BY <1>0, <2>1 DEF Shared
    <2>3. DocumentOK' /\ SharedOK'
      BY <1>0, <2>1, <2>2 DEF QuietInv, DocumentOK, SharedOK, Behind
    <2>. QED BY <1>0, <1>1, <2>1, <2>3 DEF ServedOK, Served, TypedOK, Answered
  <1>3. CASE snapshot # None
    <2>1. /\ messages' = (messages \ {m}) \cup Copies(snapshot)
          /\ highest' = IF snapshot.revision > highest THEN snapshot.revision ELSE highest
      BY <1>3 DEF AnswerRequest
    <2>2. /\ snapshot \in Snapshots /\ snapshot.authority = authority
          /\ snapshot.revision = revision /\ highest <= revision
          /\ revision \in Nat /\ highest \in Nat /\ snapshot.state \in States
      BY <1>0, <1>3 DEF RevisionInv, LastSnapshotOK, TypeInv, PublisherOK, Snapshots
    <2>3. highest' = revision
      BY <2>1, <2>2
    <2>4. DocumentOK'
      BY <1>0, <2>3 DEF QuietInv, DocumentOK
    <2>5. Precedes(snapshot.state, snapshot.state)
      BY <2>2, PrecedesSelf
    <2>6. SharedOK'
      <3>1. Shared' \subseteq Shared \cup {snapshot}
        <4>1. \A n \in messages' : n.type = "snapshot" =>
                 n.snapshot \in Shared \cup {snapshot} \cup {None}
          BY <2>1, SharedNow DEF Copies
        <4>. QED BY <1>0, <4>1, SharedNow, SharedNext
      <3>. SUFFICES ASSUME NEW t \in Shared \cup {snapshot} PROVE Behind(t)'
        BY <3>1 DEF SharedOK
      <3>2. CASE t \in Shared
        <4>1. t \in Snapshots /\ Behind(t)
          BY <1>0, <3>2, SharedType DEF QuietInv, SharedOK
        <4>2. highest' >= highest
          BY <2>2, <2>3
        <4>. QED BY <1>0, <1>3, <2>5, <4>1, <4>2, BehindKept
      <3>3. CASE t = snapshot
        <4>1. authority \in Nat
          BY <1>0 DEF TypeInv, PublisherOK
        <4>. QED BY <1>0, <1>3, <2>2, <2>3, <2>5, <3>3, <4>1 DEF Behind
      <3>. QED BY <3>2, <3>3
    <2>7. ServedOK'
      <3>. SUFFICES ASSUME NEW r \in Replicas, replica[r].phase = "listening" PROVE Served(r)'
        BY <1>0 DEF ServedOK
      <3>. DEFINE n == [type |-> "snapshot", to |-> r, snapshot |-> snapshot]
      <3>1. n \in messages' /\ n.type = "snapshot" /\ n.to = r /\ n.snapshot = snapshot'
        BY <1>0, <2>1 DEF Copies
      <3>. QED BY <3>1 DEF Served
    <2>8. TypedOK'
      <3>1. Contents' = Contents
        BY <1>0, <2>1 DEF Contents, Copies
      <3>2. \A n \in Contents : IsAcceptable(n)' <=> IsAcceptable(n)
        BY <1>0 DEF IsAcceptable, AcceptsEdits
      <3>. QED BY <1>0, <3>1, <3>2 DEF QuietInv, TypedOK, Answered
    <2>. QED BY <1>1, <2>4, <2>6, <2>7, <2>8
  <1>. QED BY <1>2, <1>3

(* A new main window shares nothing yet and has a document to publish.     *)
LEMMA QuietReload ==
  ASSUME QuietInv, TypeInv', ReloadMain
  PROVE  DocumentOK' /\ SharedOK' /\ LiveOK' /\ ServedOK' /\ TypedOK'
  <1>0. TypeInv
    BY DEF QuietInv, WindowsInv
  <1>1. /\ unrendered' = TRUE /\ snapshot' = None /\ authority' = authority + 1
        /\ watch' = 0 /\ state'.preview = 0
        /\ UNCHANGED <<cache, messages, replica>>
    BY DEF ReloadMain, Becomes, Document
  <1>2. DocumentOK'
    BY <1>1 DEF DocumentOK
  <1>3. SharedOK'
    <2>. SUFFICES ASSUME NEW s \in Shared
                  PROVE  s.authority <= authority + 1 /\ s.authority # authority + 1
      BY <1>1 DEF SharedOK, Shared, Behind
    <2>1. s.authority <= authority
      BY DEF QuietInv, SharedOK, Behind
    <2>2. s.authority \in Nat /\ authority \in Nat
      BY <1>0, SharedType DEF Snapshots, TypeInv, PublisherOK
    <2>. QED BY <2>1, <2>2
  <1>4. LiveOK'
    BY <1>1 DEF QuietInv, LiveOK
  <1>. QED BY <1>1, <1>2, <1>3, <1>4 DEF ServedOK, Served, TypedOK, Answered

(* The windows' steps: the document and the publisher stay.                *)
LEMMA DocumentStays ==
  ASSUME QuietInv,
         UNCHANGED <<state, unrendered, watch, publisher>>
  PROVE  DocumentOK'
  BY DEF QuietInv, DocumentOK, publisher

LEMMA SharedStays ==
  ASSUME QuietInv, UNCHANGED publisher, Shared' \subseteq Shared
  PROVE  SharedOK'
  BY DEF QuietInv, SharedOK, Behind, publisher

LEMMA AcceptableStays ==
  ASSUME UNCHANGED publisher, NEW m
  PROVE  IsAcceptable(m)' <=> IsAcceptable(m)
  BY DEF publisher, IsAcceptable, AcceptsEdits

LEMMA QuietOpening ==
  ASSUME QuietInv, TypeInv', NEW r \in Replicas, Open(r)
  PROVE  DocumentOK' /\ SharedOK' /\ LiveOK' /\ ServedOK' /\ TypedOK'
  <1>0. /\ TypeInv
        /\ UNCHANGED <<state, unrendered, watch, publisher, cache, messages>>
    BY DEF QuietInv, WindowsInv, Open, session
  <1>1. /\ \A p \in Replicas \ {r} : replica'[p] = replica[p]
        /\ replica'[r].phase = "starting"
        /\ replica'[r].accepted = Cached
        /\ replica'[r].live = FALSE
        /\ replica'[r].typed = None
    BY <1>0, OpenedPane
  <1>2. DocumentOK'
    BY <1>0, DocumentStays
  <1>3. LiveOK'
    BY <1>1 DEF QuietInv, LiveOK
  <1>4. Contents' = Contents
    BY <1>0 DEF Contents
  <1>5. ServedOK'
    BY <1>0, <1>1 DEF QuietInv, ServedOK, Served, publisher
  <1>6. TypedOK'
    <2>1. \A p \in Replicas \ {r} : Answered(p) => Answered(p)'
      BY <1>0, <1>1, <1>4, AcceptableStays DEF Answered, publisher
    <2>. QED BY <1>0, <1>1, <2>1 DEF QuietInv, TypedOK, publisher
  <1>7. SharedOK'
    <2>0. PICK c : c = Cached
      OBVIOUS
    <2>1. \A t \in Shared : Behind(t)' <=> Behind(t)
      BY <1>0 DEF Behind, publisher
    <2>2. Shared' \subseteq Shared \cup {c}
      BY <1>0, <1>1, <2>0, SharedNow, SharedNext
    <2>3. ASSUME c # None PROVE Behind(c)'
      <3>1. cache # None /\ cache \in Snapshots /\ cache.state \in States
        BY <1>0, <2>0, <2>3 DEF Cached, TypeInv, CacheOK, Snapshots
      <3>. DEFINE status == IF cache.state.status = "committed" THEN "unknown"
                            ELSE cache.state.status
                  t == [cache.state EXCEPT !.status = status]
      <3>2. c = [cache EXCEPT !.state = t]
        BY <2>0, <3>1 DEF Cached, Snapshots, States
      <3>3. t.epoch = cache.state.epoch /\ t.doc = cache.state.doc
            /\ t.preview = cache.state.preview
        BY <3>1 DEF States
      <3>. HIDE DEF t
      <3>4. c.authority = cache.authority /\ c.revision = cache.revision /\ c.state = t
        BY <3>1, <3>2 DEF Snapshots
      <3>5. Behind(cache)
        BY <3>1, SharedNow DEF QuietInv, SharedOK
      <3>. QED BY <1>0, <3>3, <3>4, <3>5 DEF Behind, Precedes, publisher
    <2>4. None \notin Shared'
      BY DEF Shared
    <2>. QED BY <2>1, <2>2, <2>3, <2>4 DEF QuietInv, SharedOK
  <1>. QED BY <1>2, <1>3, <1>5, <1>6, <1>7

LEMMA QuietClosing ==
  ASSUME QuietInv, TypeInv', NEW r \in Replicas, Close(r)
  PROVE  DocumentOK' /\ SharedOK' /\ LiveOK' /\ ServedOK' /\ TypedOK'
  <1>0. /\ TypeInv
        /\ messages' = {m \in messages : m.type # "snapshot" \/ m.to # r}
        /\ UNCHANGED <<state, unrendered, watch, publisher, cache>>
    BY DEF QuietInv, WindowsInv, Close, session
  <1>1. /\ \A p \in Replicas \ {r} : replica'[p] = replica[p]
        /\ replica'[r].phase = "closed"
        /\ replica'[r].accepted = None
        /\ replica'[r].live = FALSE
        /\ replica'[r].typed = None
    BY <1>0, ClosedPane
  <1>2. Contents' = Contents
    BY <1>0 DEF Contents
  <1>3. Shared' \subseteq Shared
    BY <1>0, <1>1, SharedNow, SharedNext
  <1>4. LiveOK'
    BY <1>1 DEF QuietInv, LiveOK
  <1>5. ServedOK'
    BY <1>0, <1>1 DEF QuietInv, ServedOK, Served, publisher
  <1>6. TypedOK'
    <2>1. \A p \in Replicas \ {r} : Answered(p) => Answered(p)'
      BY <1>0, <1>1, <1>2, AcceptableStays DEF Answered, publisher
    <2>. QED BY <1>0, <1>1, <2>1 DEF QuietInv, TypedOK, publisher
  <1>. QED BY <1>0, <1>3, <1>4, <1>5, <1>6, DocumentStays, SharedStays

LEMMA QuietListening ==
  ASSUME QuietInv, TypeInv', NEW r \in Replicas, Listen(r)
  PROVE  DocumentOK' /\ SharedOK' /\ LiveOK' /\ ServedOK' /\ TypedOK'
  <1>. DEFINE q == [type |-> "request", from |-> r]
  <1>0. /\ TypeInv
        /\ messages' = messages \cup {q}
        /\ UNCHANGED <<state, unrendered, watch, publisher, cache>>
    BY DEF QuietInv, WindowsInv, Listen, session
  <1>1. \A p \in Replicas : /\ replica'[p].source = replica[p].source
                            /\ replica'[p].accepted = replica[p].accepted
                            /\ replica'[p].live = replica[p].live
                            /\ replica'[p].pin = replica[p].pin
                            /\ replica'[p].typed = replica[p].typed
    BY <1>0, ListeningPane
  <1>2. q.type = "request"
    OBVIOUS
  <1>. HIDE DEF q
  <1>3. Contents' = Contents
    BY <1>0, <1>2 DEF Contents
  <1>4. Shared' \subseteq Shared
    BY <1>0, <1>1, <1>2, SharedNow, SharedNext
  <1>5. LiveOK'
    BY <1>1 DEF QuietInv, LiveOK
  <1>6. ServedOK'
    BY <1>0, <1>2 DEF ServedOK, Served
  <1>7. TypedOK'
    <2>1. \A p \in Replicas : Answered(p) => Answered(p)'
      BY <1>0, <1>1, <1>3, AcceptableStays DEF Answered, publisher
    <2>. QED BY <1>0, <1>1, <2>1 DEF QuietInv, TypedOK, publisher
  <1>. QED BY <1>0, <1>4, <1>5, <1>6, <1>7, DocumentStays, SharedStays

(* Text typed over the last snapshot is text the main window will take.    *)
LEMMA QuietTyping ==
  ASSUME QuietInv, TypeInv', NEW r \in Editors, TypeInPopout(r)
  PROVE  DocumentOK' /\ SharedOK' /\ LiveOK' /\ ServedOK' /\ TypedOK'
  <1>. DEFINE text == NextText(replica[r].accepted.state.doc)
              c == Content(r, text)
  <1>0. TypeInv /\ WindowsInv
    BY DEF QuietInv, WindowsInv
  <1>1. PICK k : k = c
    OBVIOUS
  <1>2. /\ messages' = messages \cup {k}
        /\ replica[r].accepted # None
        /\ AcceptsEdits(replica[r].accepted.state)
        /\ UNCHANGED <<state, unrendered, watch, publisher, cache>>
    BY <1>1 DEF TypeInPopout, session
  <1>3. /\ k.type = "content" /\ k.source = replica[r].source
        /\ k.sequence = replica[r].sequence + 1
        /\ k.authority = replica[r].accepted.authority
        /\ k.doc = replica[r].accepted.state.doc
        /\ k.epoch = replica[r].accepted.state.epoch
    BY <1>1 DEF Content
  <1>. HIDE DEF text, c
  <1>4. /\ r \in Replicas
        /\ \A p \in Replicas \ {r} : replica'[p] = replica[p]
        /\ replica'[r].phase = replica[r].phase
        /\ replica'[r].source = replica[r].source
        /\ replica'[r].accepted = replica[r].accepted
        /\ replica'[r].live = replica[r].live
        /\ replica'[r].pin = replica[r].pin
    BY <1>0, TypingPane
  <1>5. Contents' = Contents \cup {k}
    BY <1>2, <1>3 DEF Contents
  <1>6. Shared' \subseteq Shared
    BY <1>2, <1>3, <1>4, SharedNow, SharedNext
  <1>7. replica[r].live
    BY <1>2, <1>4 DEF QuietInv, LockedInv, StoredIsLocked, AcceptsEdits
  <1>8. LiveOK'
    BY <1>4, <1>7 DEF QuietInv, LiveOK
  <1>9. ServedOK'
    BY <1>2, <1>4 DEF QuietInv, ServedOK, Served, publisher
  <1>10. TypedOK'
    <2>1. \A p \in Replicas : Answered(p) => Answered(p)'
      BY <1>2, <1>4, <1>5, AcceptableStays DEF Answered, publisher
    <2>2. ASSUME replica[r].accepted = snapshot PROVE Answered(r)'
      <3>1. k.sequence > lastSeq[k.source]
        <4>1. replica[r].source \in 0..count.launches /\ replica[r].source # 0
          BY <1>0, <1>2, <1>4 DEF WindowsInv, SourcesOK
        <4>2. /\ count.launches \in 0..MaxLaunches /\ replica[r].sequence \in Nat
              /\ lastSeq \in [1..MaxLaunches -> Nat] /\ MaxLaunches \in Nat
          BY <1>0, <1>4, Launching, BoundAssumption
             DEF TypeInv, ReplicasOK, Panes, PublisherOK
        <4>3. replica[r].source > 0 /\ replica[r].source \in 1..MaxLaunches
          BY <4>1, <4>2
        <4>4. lastSeq[replica[r].source] <= replica[r].sequence
          BY <1>0, <1>4, <4>3 DEF WindowsInv, SequencesOK
        <4>5. lastSeq[replica[r].source] \in Nat
          BY <4>2, <4>3
        <4>. QED BY <1>3, <4>2, <4>4, <4>5
      <3>2. IsAcceptable(k)
        BY <1>2, <1>3, <2>2, <3>1 DEF IsAcceptable
      <3>3. IsAcceptable(k)'
        BY <1>2, <3>2, AcceptableStays
      <3>. QED BY <1>3, <1>4, <1>5, <3>3 DEF Answered
    <2>. QED BY <1>2, <1>4, <2>1, <2>2 DEF QuietInv, TypedOK, publisher
  <1>. QED BY <1>2, <1>6, <1>8, <1>9, <1>10, DocumentStays, SharedStays

(* A window that takes a message that is not the last snapshot keeps its   *)
(* place, and one that takes the last snapshot shows it.                   *)
LEMMA QuietReceiving ==
  ASSUME QuietInv, TypeInv', NEW m \in messages, AcceptSnapshot(m)
  PROVE  DocumentOK' /\ SharedOK' /\ LiveOK' /\ ServedOK' /\ TypedOK'
  <1>. DEFINE r == m.to
              s == m.snapshot
              b == IF replica[r].pin = 0 THEN s.authority ELSE replica[r].pin
              taken == b = s.authority /\ IsNewer(r, s)
  <1>0. /\ TypeInv /\ RevisionInv /\ m.type = "snapshot"
        /\ messages' = messages \ {m}
        /\ UNCHANGED <<state, unrendered, watch, publisher, cache>>
    BY DEF QuietInv, WindowsInv, AcceptSnapshot, session
  <1>1. /\ r \in Replicas /\ s \in Snapshots
        /\ \A p \in Replicas \ {r} : replica'[p] = replica[p]
        /\ replica'[r].phase = replica[r].phase
        /\ replica'[r].source = replica[r].source
        /\ replica'[r].pin = b
        /\ taken => /\ replica'[r].accepted = s
                    /\ replica'[r].live = TRUE
                    /\ replica'[r].typed = None
        /\ ~taken => /\ replica'[r].accepted = replica[r].accepted
                     /\ replica'[r].live = replica[r].live
                     /\ replica'[r].typed = replica[r].typed
    BY <1>0, ReceivingPane
  <1>2. s # None /\ s \in Shared /\ s.authority \in 1..MaxAuthorities
    <2>1. s # None
      BY <1>1, NoneApart
    <2>. QED BY <1>0, <1>1, <2>1, SharedNow DEF Snapshots
  <1>3. replica[r].live => /\ replica[r].accepted # None
                           /\ replica[r].pin = replica[r].accepted.authority
                           /\ replica[r].pin # 0
    <2>. SUFFICES ASSUME replica[r].live
                  PROVE  /\ replica[r].accepted # None
                         /\ replica[r].pin = replica[r].accepted.authority
                         /\ replica[r].pin # 0
      OBVIOUS
    <2>1. replica[r].accepted # None /\ replica[r].pin = replica[r].accepted.authority
      BY <1>1 DEF QuietInv, LiveOK
    <2>2. replica[r].accepted \in Snapshots
      BY <1>0, <1>1, <2>1 DEF TypeInv, ReplicasOK, Panes
    <2>. QED BY <2>1, <2>2, BoundAssumption DEF Snapshots
  <1>4. LiveOK'
    BY <1>1, <1>2, <1>3 DEF QuietInv, LiveOK
  <1>5. Shared' \subseteq Shared
    BY <1>0, <1>1, <1>2, SharedNow, SharedNext
  <1>6. Contents' = Contents
    BY <1>0 DEF Contents
  <1>7. TypedOK'
    <2>1. \A p \in Replicas : Answered(p) => Answered(p)'
      BY <1>0, <1>1, <1>6, AcceptableStays DEF Answered, publisher
    <2>. QED BY <1>0, <1>1, <2>1 DEF QuietInv, TypedOK, publisher
  <1>8. ASSUME replica'[r].pin \in {0, authority},
               s = snapshot \/ (replica[r].live /\ replica[r].accepted = snapshot)
        PROVE  replica'[r].live /\ replica'[r].accepted = snapshot
    <2>1. snapshot # None /\ snapshot \in Snapshots
          /\ snapshot.authority = authority /\ snapshot.revision = revision
      BY <1>0, <1>2, <1>3, <1>8 DEF RevisionInv, LastSnapshotOK, TypeInv, PublisherOK
    <2>2. authority \in 1..MaxAuthorities /\ highest <= revision /\ revision \in Nat
          /\ highest \in Nat
      BY <1>0 DEF TypeInv, PublisherOK, RevisionInv, LastSnapshotOK
    <2>3. b = authority
      BY <1>1, <1>2, <1>8, <2>2, BoundAssumption
         DEF TypeInv, ReplicasOK, Panes
    <2>4. CASE replica[r].live /\ replica[r].accepted = snapshot
      <3>1. ~taken \/ s = snapshot
        <4>. SUFFICES ASSUME taken PROVE FALSE
          OBVIOUS
        <4>1. s.authority = authority /\ s.revision <= highest /\ s.revision \in Nat
          BY <1>1, <1>2, <2>3 DEF QuietInv, SharedOK, Behind, Snapshots
        <4>2. s.revision > snapshot.revision
          BY <2>1, <2>3, <2>4, <4>1 DEF IsNewer
        <4>. QED BY <2>1, <2>2, <4>1, <4>2
      <3>. QED BY <1>1, <2>4, <3>1
    <2>5. CASE s = snapshot /\ ~taken
      <3>. DEFINE a == replica[r].accepted
      <3>1. ~IsNewer(r, s)
        BY <2>1, <2>3, <2>5
      <3>2. a # None /\ a.authority = s.authority
        BY <3>1 DEF IsNewer
      <3>3. a \in Snapshots /\ Behind(a)
        BY <1>0, <1>1, <3>2, SharedNow, SharedType DEF QuietInv, SharedOK
      <3>4. a.revision <= highest /\ Precedes(a.state, s.state)
        BY <2>1, <2>5, <3>2, <3>3 DEF Behind
      <3>5. a.state \in States /\ s.state \in States /\ a.revision \in Nat
        BY <1>1, <3>3 DEF Snapshots
      <3>6. ~(s.revision > a.revision \/ (s.revision = a.revision /\ ~replica[r].live))
        BY <3>1, <3>2, <3>4, <3>5 DEF IsNewer, Precedes, States
      <3>7. s.revision = a.revision /\ replica[r].live
        BY <2>1, <2>2, <2>5, <3>4, <3>5, <3>6
      <3>8. a = snapshot
        <4>1. a \in Visible /\ snapshot \in Visible
          BY <1>1, <2>1, <3>2, <3>7, VisibleNow
        <4>. QED BY <1>0, <2>5, <3>2, <3>7, <4>1 DEF RevisionInv, RevisionNamesOneState
      <3>. QED BY <1>1, <2>5, <3>7, <3>8
    <2>6. CASE s = snapshot /\ taken
      BY <1>1, <2>6
    <2>. QED BY <1>8, <2>4, <2>5, <2>6
  <1>9. ServedOK'
    <2>. SUFFICES ASSUME NEW p \in Replicas, replica'[p].phase = "listening",
                         replica'[p].pin \in {0, authority}
                  PROVE  Served(p)'
      BY <1>0 DEF ServedOK, publisher
    <2>1. Served(p)
      <3>1. replica[p].phase = "listening"
        BY <1>1
      <3>2. replica[p].pin \in {0, authority}
        BY <1>1
      <3>. QED BY <3>1, <3>2 DEF QuietInv, ServedOK
    <2>2. CASE p # r
      BY <1>0, <1>1, <2>1, <2>2 DEF Served, publisher
    <2>3. CASE p = r
      <3>1. CASE s = snapshot \/ (replica[r].live /\ replica[r].accepted = snapshot)
        BY <1>0, <1>8, <2>3, <3>1 DEF Served, publisher
      <3>2. CASE s # snapshot /\ ~(replica[r].live /\ replica[r].accepted = snapshot)
        BY <1>0, <2>1, <2>3, <3>2 DEF Served, publisher
      <3>. QED BY <3>1, <3>2
    <2>. QED BY <2>2, <2>3
  <1>. QED BY <1>0, <1>4, <1>5, <1>7, <1>9, DocumentStays, SharedStays

(* Only a window that is not listening yet misses a snapshot.              *)
LEMMA QuietMissing ==
  ASSUME QuietInv, TypeInv', NEW m \in messages, MissSnapshot(m)
  PROVE  DocumentOK' /\ SharedOK' /\ LiveOK' /\ ServedOK' /\ TypedOK'
  <1>0. /\ m.type = "snapshot" /\ replica[m.to].phase = "starting"
        /\ messages' = messages \ {m}
        /\ UNCHANGED <<state, unrendered, watch, publisher, cache, replica>>
    BY DEF MissSnapshot, session
  <1>1. Contents' = Contents
    BY <1>0 DEF Contents
  <1>2. Shared' \subseteq Shared
    BY <1>0, SharedNow, SharedNext
  <1>3. LiveOK'
    BY <1>0 DEF QuietInv, LiveOK
  <1>4. ServedOK'
    BY <1>0 DEF QuietInv, ServedOK, Served, publisher
  <1>5. TypedOK'
    <2>1. \A p \in Replicas : Answered(p) => Answered(p)'
      BY <1>0, <1>1, AcceptableStays DEF Answered, publisher
    <2>. QED BY <1>0, <2>1 DEF QuietInv, TypedOK, publisher
  <1>. QED BY <1>0, <1>2, <1>3, <1>4, <1>5, DocumentStays, SharedStays

LEMMA QuietStutter ==
  ASSUME QuietInv, UNCHANGED vars
  PROVE  DocumentOK' /\ SharedOK' /\ LiveOK' /\ ServedOK' /\ TypedOK'
  <1>1. DocumentOK' /\ SharedOK' /\ LiveOK'
    BY DEF vars, QuietInv, DocumentOK, SharedOK, Shared, Behind, LiveOK
  <1>2. ServedOK'
    BY DEF vars, QuietInv, ServedOK, Served
  <1>3. TypedOK'
    <2>1. \A p \in Replicas : Answered(p) => Answered(p)'
      BY AcceptableStays DEF vars, Answered, Contents, publisher
    <2>. QED BY <2>1 DEF vars, QuietInv, TypedOK
  <1>. QED BY <1>1, <1>2, <1>3

LEMMA QuietStep == Undisturbed /\ QuietInv /\ [Next]_vars => QuietInv'
  <1>. SUFFICES ASSUME Undisturbed, QuietInv, [Next]_vars PROVE QuietInv'
    OBVIOUS
  <1>1. RevisionInv' /\ LockedInv' /\ WindowsInv' /\ TypeInv' /\ TypeInv
    BY RevisionStep, LockedStep, WindowsStep DEF QuietInv, WindowsInv
  <1>. SUFFICES DocumentOK' /\ SharedOK' /\ LiveOK' /\ ServedOK' /\ TypedOK'
    BY <1>1 DEF QuietInv
  <1>2. ~SaveAs /\ \A m \in messages : ~Lose(m)
    <2>1. count.saveAs \in 0..MaxSaveAs /\ count.losses \in 0..MaxLosses
      BY <1>1 DEF TypeInv, CountOK
    <2>. QED BY <2>1 DEF Undisturbed, SaveAs, Lose
  <1>3. CASE Edit
    <2>1. CASE \E r \in Editors : TypeInPopout(r)
      BY <1>1, <2>1, QuietTyping
    <2>2. CASE ~ \E r \in Editors : TypeInPopout(r)
      <3>1. /\ UNCHANGED <<publisher, cache, messages, replica>>
            /\ unrendered' = TRUE
            /\ watch' = state'.preview
            /\ Precedes(state, state')
        BY <1>1, <1>2, <1>3, <2>2, EditForward, OpenForward DEF Edit
      <3>. QED BY <1>1, <3>1, Forward
    <2>. QED BY <2>1, <2>2
  <1>4. CASE Replicate
    BY <1>1, <1>4, QuietPublish, QuietFlush, QuietAnswer, QuietTaking, QuietReceiving,
       QuietListening
       DEF Replicate
  <1>5. CASE UNCHANGED vars
    BY <1>5, QuietStutter
  <1>. QED BY <1>1, <1>2, <1>3, <1>4, <1>5, QuietReload, QuietOpening, QuietClosing,
              QuietMissing
           DEF Next

(***************************************************************************)
(* Unless an emission is refused, an open is rolled back or a document     *)
(* moves to another file, every listening pop-out of the running main      *)
(* window shows its document once all that was sent has arrived, for any   *)
(* number of windows, main windows, edits and messages (paneSync.ts,       *)
(* acceptSnapshot and the publisher's counter).                            *)
(***************************************************************************)
THEOREM QuietCorrect ==
  ASSUME Undisturbed
  PROVE  Spec => []QuietReplicasShowMain
  <1>1. QuietInv /\ [Next]_vars => QuietInv'
    BY QuietStep
  <1>2. Spec => []QuietInv
    BY QuietInit, <1>1, PTL DEF Spec
  <1>. QED BY <1>2, QuietShows, PTL
===============================================================================
