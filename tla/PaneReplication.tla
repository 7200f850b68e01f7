---------------------------- MODULE PaneReplication ----------------------------
(***************************************************************************)
(* The main window's document and its copies in the pop-out windows.       *)
(*                                                                         *)
(* The main window is the only authority.  It publishes snapshots of its   *)
(* document, a pop-out shows the last snapshot it accepted, and an editor  *)
(* pop-out sends what its user types back to the main window.  The three   *)
(* kinds of message are events of the desktop shell: they cross, arrive    *)
(* late and, when an emission is refused, not at all.  The last flushed    *)
(* snapshot is also kept in the windows' shared storage, which outlives    *)
(* the main window.                                                        *)
(*                                                                         *)
(* The document a session holds and the snapshot last published are two    *)
(* different things: the session changes its state at once, and a passive  *)
(* effect publishes it after the next render.                              *)
(***************************************************************************)
EXTENDS Naturals, FiniteSets

CONSTANTS
    Editors,        \* editor pop-outs
    Previews,       \* preview pop-outs
    Kinds,          \* kinds of document: text takes edits, binary does not
    OpenOutcomes,   \* how the commit of a prepared open may end
    MaxDocs,        \* documents the session opens, the first one included
    MaxEdits,       \* other changes of the document, its file or its watch
    MaxSaveAs,      \* times a document is saved under another name
    MaxLaunches,    \* times a pop-out is opened
    MaxAuthorities, \* main windows, one after the other
    MaxMessages,    \* messages on their way that keep a sender waiting
    MaxLosses       \* messages whose emission fails

Replicas == Editors \cup Previews

ASSUME ReplicaAssumption == Editors \cap Previews = {}
ASSUME OutcomeAssumption ==
    /\ Kinds \subseteq {"text", "binary"}
    /\ OpenOutcomes \subseteq {"committed", "not_committed", "unknown"}
ASSUME BoundAssumption ==
    /\ {MaxDocs, MaxLaunches, MaxAuthorities, MaxMessages} \subseteq Nat \ {0}
    /\ {MaxEdits, MaxSaveAs, MaxLosses} \subseteq Nat

VARIABLES
    state,      \* the document of the session: paneStateRef
    unrendered, \* the effect that publishes the session's state has yet to run
    opening,    \* what a prepared open whose commit is pending would restore
    watch,      \* preview revision of the file watch, 0 while none is registered
    authority,  \* the main window's authorityId
    revision,   \* publisher.revision
    snapshot,   \* authoritativeSnapshot
    pending,    \* pendingAuthoritativeSnapshot; a flush is scheduled iff present
    highest,    \* highestAuthoritativeTransportRevision
    lastSeq,    \* lastAcceptedContentSequenceBySource
    cache,      \* the snapshot in the windows' shared storage
    messages,   \* events on their way
    replica,    \* the pop-out windows
    count,      \* what the bounds count
    owner       \* history: the text an editor pop-out typed last, while nothing
                \* else has changed the document since

vars == <<state, unrendered, opening, watch, authority, revision, snapshot,
          pending, highest, lastSeq, cache, messages, replica, count, owner>>

session   == <<state, unrendered, opening, watch>>
publisher == <<authority, revision, snapshot, pending, highest, lastSeq>>

None == [none |-> TRUE]

Statuses == {"committed", "provisional", "unknown"}

\* A text is known by the document it was written for and by its number.
Texts == [home : 1..MaxDocs, number : 0..MaxEdits]
States ==
    [doc : 1..MaxDocs, epoch : Nat, preview : Nat, status : Statuses,
     kind : {"text", "binary"}, text : Texts, saved : Texts]
Snapshots == [authority : 1..MaxAuthorities, revision : Nat, state : States]

Document(d, e, k, status) ==
    LET text == [home |-> d, number |-> 0]
    IN  [doc |-> d, epoch |-> e, preview |-> 0, status |-> status, kind |-> k,
         text |-> text, saved |-> text]

\* A document that takes edits: the session's own check and the one a snapshot
\* is put to before text is sent or accepted are the same.
AcceptsEdits(s) == s.status = "committed" /\ s.kind = "text"

Closed ==
    [phase |-> "closed", source |-> 0, sequence |-> 0, accepted |-> None,
     live |-> FALSE, pin |-> 0, typed |-> None]

Content(r, text) ==
    [type |-> "content", authority |-> replica[r].accepted.authority,
     source |-> replica[r].source, sequence |-> replica[r].sequence + 1,
     doc |-> replica[r].accepted.state.doc,
     epoch |-> replica[r].accepted.state.epoch, text |-> text]

\* A snapshot reaches every window that may be listening.  The main window
\* ignores snapshots and the pop-outs ignore text and requests, so those
\* deliveries are left out.
Copies(s) ==
    {[type |-> "snapshot", to |-> r, snapshot |-> s] :
        r \in {p \in Replicas : replica[p].phase # "closed"}}

\* The next text anyone writes, for the document it is written for.
NextText(home) == [home |-> home, number |-> count.edits + 1]
\* A sender waits while too much is on its way.
MaySend == Cardinality(messages) < MaxMessages
Counted(what) == count' = [count EXCEPT ![what] = @ + 1]

\* The session takes a new state and renders it: the effect that publishes it
\* runs later.
Becomes(s) ==
    /\ state' = s
    /\ unrendered' = TRUE

Init ==
    /\ state = Document(1, 0, "text", "committed")
    /\ unrendered = TRUE
    /\ opening = None
    /\ watch = 0
    /\ authority = 1
    /\ revision = 0
    /\ snapshot = None
    /\ pending = None
    /\ highest = 0
    /\ lastSeq = [s \in 1..MaxLaunches |-> 0]
    /\ cache = None
    /\ messages = {}
    /\ replica = [r \in Replicas |-> Closed]
    /\ count = [docs |-> 1, edits |-> 0, saveAs |-> 0,
                launches |-> 0, losses |-> 0]
    /\ owner = None

-----------------------------------------------------------------------------
(* The session of the main window.                                         *)

\* Opening, creating, clearing or recovering a document replaces the old one
\* under a new identity and the next epoch.
OpenDocument(k) ==
    /\ count.docs < MaxDocs
    /\ Becomes(Document(count.docs + 1, state.epoch + 1, k, "committed"))
    /\ Counted("docs")
    /\ opening' = None
    /\ watch' = 0
    /\ owner' = None
    /\ UNCHANGED <<publisher, cache, messages, replica>>

\* A prepared open shows the new document before its commit is confirmed.
PrepareOpen(k) ==
    /\ count.docs < MaxDocs
    /\ opening = None
    /\ Becomes(Document(count.docs + 1, state.epoch + 1, k, "provisional"))
    /\ Counted("docs")
    /\ opening' = state
    /\ watch' = 0
    /\ owner' = None
    /\ UNCHANGED <<publisher, cache, messages, replica>>

\* A variant with a fault, for the checks of the properties: a
\* failed commit leaves the new document in place.
ResolveOpenInPlace(outcome) ==
    /\ opening # None
    /\ Becomes([state EXCEPT !.status = outcome, !.text = state.saved])
    /\ opening' = None
    /\ owner' = None
    /\ UNCHANGED <<watch, publisher, cache, messages, replica, count>>

\* The commit confirms the new document, fails and restores the old one, or
\* leaves the authority over the new one unknown.  The new document is shown as
\* it was prepared, which is as its file is (nothing is saved meanwhile), whatever
\* text has been accepted.
ResolveOpen(outcome) ==
    /\ opening # None
    /\ Becomes(IF outcome = "not_committed" THEN opening
               ELSE [state EXCEPT !.status = outcome, !.text = state.saved])
    /\ opening' = None
    /\ owner' = None
    /\ UNCHANGED <<watch, publisher, cache, messages, replica, count>>

Type ==
    /\ count.edits < MaxEdits
    /\ AcceptsEdits(state)
    /\ Becomes([state EXCEPT !.text = NextText(state.doc)])
    /\ Counted("edits")
    /\ owner' = None
    /\ UNCHANGED <<opening, watch, publisher, cache, messages, replica>>

\* A save writes the text; one whose outcome is indeterminate locks the
\* document instead.  The write is one step: an edit between its start and its
\* answer leaves what it would leave had it come just after.
Save ==
    /\ AcceptsEdits(state)
    /\ state.saved # state.text
    /\ count.edits < MaxEdits
    /\ Becomes([state EXCEPT !.saved = state.text])
    /\ Counted("edits")
    /\ UNCHANGED <<opening, watch, publisher, cache, messages, replica, owner>>

LockAuthority ==
    /\ AcceptsEdits(state)
    /\ state.saved # state.text
    /\ count.edits < MaxEdits
    /\ Becomes([state EXCEPT !.status = "unknown"])
    /\ Counted("edits")
    /\ owner' = None
    /\ UNCHANGED <<opening, watch, publisher, cache, messages, replica>>

\* Save As keeps the document and its epoch; its new path gets a new watch.
SaveAs ==
    /\ count.saveAs < MaxSaveAs
    /\ AcceptsEdits(state)
    /\ Becomes([state EXCEPT !.saved = state.text])
    /\ Counted("saveAs")
    /\ watch' = 0
    /\ UNCHANGED <<opening, publisher, cache, messages, replica, owner>>

\* A new watch starts at preview revision one, whatever the document's is.
RegisterWatch ==
    /\ count.edits < MaxEdits
    /\ state.status = "committed"
    /\ watch = 0
    /\ state.text = state.saved
    /\ Becomes([state EXCEPT !.preview = 1,
                             !.epoch = IF state.kind = "text" THEN @ ELSE @ + 1])
    /\ watch' = 1
    /\ Counted("edits")
    /\ owner' = IF state.kind = "text" THEN owner ELSE None
    /\ UNCHANGED <<opening, publisher, cache, messages, replica>>

\* The watch reports the file as it is: what the document shows already.
SeeSameFile ==
    /\ count.edits < MaxEdits
    /\ AcceptsEdits(state)
    /\ watch > 0
    /\ state.text = state.saved
    /\ Becomes([state EXCEPT !.preview = watch + 1])
    /\ watch' = watch + 1
    /\ Counted("edits")
    /\ UNCHANGED <<opening, publisher, cache, messages, replica, owner>>

\* Another program wrote the file and the document holds no edits of its own.
SeeChangedFile ==
    /\ count.edits < MaxEdits
    /\ state.status = "committed"
    /\ watch > 0
    /\ state.text = state.saved
    /\ Becomes([state EXCEPT !.preview = watch + 1, !.epoch = @ + 1,
                             !.text = NextText(state.doc),
                             !.saved = NextText(state.doc)])
    /\ watch' = watch + 1
    /\ Counted("edits")
    /\ owner' = None
    /\ UNCHANGED <<opening, publisher, cache, messages, replica>>

-----------------------------------------------------------------------------
(* The publisher of the main window.                                       *)

\* A snapshot waits for the scheduled flush, and a later one takes its place.
Enqueue(s) ==
    /\ snapshot' = s
    /\ pending' = s

PublishAuthoritativeState ==
    /\ unrendered
    /\ unrendered' = FALSE
    /\ revision' = revision + 1
    /\ Enqueue([authority |-> authority, revision |-> revision + 1, state |-> state])
    /\ UNCHANGED <<state, opening, watch, authority, highest, lastSeq, cache,
                   messages, replica, count, owner>>

\* The revision a flushed snapshot leaves with: above every one that has left.
FlushedRevision ==
    IF pending.revision <= highest THEN highest + 1 ELSE pending.revision

\* A variant with a fault, for the checks of the properties: the
\* rebased revision is not the publisher's next one.
PublisherRevisionKept(s) == revision

\* The publisher goes on from the revision of a rebased snapshot.
PublisherRevision(s) == IF s = pending THEN revision ELSE s.revision

FlushAuthoritativeSnapshot ==
    /\ MaySend
    /\ pending # None
    /\ LET s == [pending EXCEPT !.revision = FlushedRevision]
       IN  /\ revision' = PublisherRevision(s)
           /\ snapshot' = IF s = pending THEN snapshot ELSE s
           /\ cache' = IF s.state.kind = "binary" THEN None ELSE s
           /\ highest' = s.revision
           /\ messages' = messages \cup Copies(s)
    /\ pending' = None
    /\ UNCHANGED <<session, authority, lastSeq, replica, count, owner>>

\* A request is answered at once with the last snapshot, flushed or not.
AnswerRequest(m) ==
    /\ m.type = "request"
    /\ IF snapshot = None
       THEN /\ messages' = messages \ {m}
            /\ UNCHANGED highest
       ELSE /\ messages' = (messages \ {m}) \cup Copies(snapshot)
            /\ highest' = IF snapshot.revision > highest THEN snapshot.revision
                          ELSE highest
    /\ UNCHANGED <<session, authority, revision, snapshot, pending, lastSeq,
                   cache, replica, count, owner>>

\* A variant with a fault, for the checks of the properties: text is
\* accepted in the order it arrives.
IsAcceptableInAnyOrder(m) ==
    /\ snapshot # None
    /\ AcceptsEdits(snapshot.state)
    /\ m.authority = snapshot.authority
    /\ m.doc = snapshot.state.doc
    /\ m.epoch = snapshot.state.epoch

\* Text is accepted for the document of the last snapshot, in the order its
\* source wrote it.
IsAcceptable(m) ==
    /\ snapshot # None
    /\ AcceptsEdits(snapshot.state)
    /\ m.authority = snapshot.authority
    /\ m.doc = snapshot.state.doc
    /\ m.epoch = snapshot.state.epoch
    /\ m.sequence > lastSeq[m.source]

\* The session takes the text of an accepted update for its current document.
AcceptContent(m) ==
    /\ m.type = "content"
    /\ messages' = messages \ {m}
    /\ IF IsAcceptable(m)
       THEN /\ revision' = revision + 1
            /\ Enqueue([snapshot EXCEPT !.revision = revision + 1,
                                        !.state.text = m.text])
            /\ lastSeq' = [lastSeq EXCEPT ![m.source] = m.sequence]
            /\ Becomes([state EXCEPT !.text = m.text])
       ELSE UNCHANGED <<revision, snapshot, pending, lastSeq, state, unrendered>>
    /\ UNCHANGED <<opening, watch, authority, highest, cache, replica, count, owner>>

\* The main window's page is loaded anew: a new authority, an empty document.
ReloadMain ==
    /\ authority < MaxAuthorities
    /\ count.docs < MaxDocs
    /\ Becomes(Document(count.docs + 1, 0, "text", "committed"))
    /\ Counted("docs")
    /\ opening' = None
    /\ watch' = 0
    /\ authority' = authority + 1
    /\ revision' = 0
    /\ snapshot' = None
    /\ pending' = None
    /\ highest' = 0
    /\ lastSeq' = [s \in 1..MaxLaunches |-> 0]
    /\ owner' = None
    /\ UNCHANGED <<cache, messages, replica>>

-----------------------------------------------------------------------------
(* The pop-out windows.                                                    *)

\* A variant with a fault, for the checks of the properties: a
\* stored snapshot keeps its status.
CachedAsIs == cache

\* What the storage holds may be shown but not edited until it is confirmed.
Cached ==
    IF cache = None THEN None
    ELSE [cache EXCEPT !.state.status = IF @ = "committed" THEN "unknown" ELSE @]

\* A window opens with a new source and shows what the storage holds.
Open(r) ==
    /\ replica[r].phase = "closed"
    /\ count.launches < MaxLaunches
    /\ replica' = [replica EXCEPT ![r] =
                     [Closed EXCEPT !.phase = "starting",
                                    !.source = count.launches + 1,
                                    !.accepted = Cached]]
    /\ Counted("launches")
    /\ UNCHANGED <<session, publisher, cache, messages, owner>>

\* A variant with a fault, for the checks of the properties: nothing is
\* asked for.
ListenOnly(r) ==
    /\ replica[r].phase = "starting"
    /\ replica' = [replica EXCEPT ![r].phase = "listening"]
    /\ UNCHANGED <<session, publisher, cache, messages, count, owner>>

\* Its listeners are registered: it asks for the state it may have missed.
Listen(r) ==
    /\ MaySend
    /\ replica[r].phase = "starting"
    /\ replica' = [replica EXCEPT ![r].phase = "listening"]
    /\ messages' = messages \cup {[type |-> "request", from |-> r]}
    /\ UNCHANGED <<session, publisher, cache, count, owner>>

Close(r) ==
    /\ replica[r].phase # "closed"
    /\ replica' = [replica EXCEPT ![r] = Closed]
    /\ messages' = {m \in messages : m.type # "snapshot" \/ m.to # r}
    /\ UNCHANGED <<session, publisher, cache, count, owner>>

\* A variant with a fault, for the checks of the properties: a
\* stored snapshot is never confirmed by its live copy.
IsNewerOnly(r, s) ==
    LET a == replica[r].accepted
    IN  a # None /\ a.authority = s.authority =>
            /\ s.revision > a.revision
            /\ s.state.epoch >= a.state.epoch
            /\ s.state.epoch = a.state.epoch =>
                  /\ s.state.doc = a.state.doc
                  /\ s.state.preview >= a.state.preview

\* Within one authority a replica follows revisions, epochs and, in an epoch,
\* the document and its preview revisions.
IsNewer(r, s) ==
    LET a == replica[r].accepted
    IN  a # None /\ a.authority = s.authority =>
            /\ \/ s.revision > a.revision
               \/ s.revision = a.revision /\ ~replica[r].live
            /\ s.state.epoch >= a.state.epoch
            /\ s.state.epoch = a.state.epoch =>
                  /\ s.state.doc = a.state.doc
                  /\ s.state.preview >= a.state.preview

\* The first live snapshot binds the replica to its authority for good.
AcceptSnapshot(m) ==
    /\ m.type = "snapshot"
    /\ messages' = messages \ {m}
    /\ LET r == m.to
           s == m.snapshot
           bound == IF replica[r].pin = 0 THEN s.authority ELSE replica[r].pin
       IN  replica' = [replica EXCEPT ![r] =
             IF bound = s.authority /\ IsNewer(r, s)
             THEN [@ EXCEPT !.pin = bound, !.accepted = s, !.live = TRUE,
                            !.typed = None]
             ELSE [@ EXCEPT !.pin = bound]]
    /\ UNCHANGED <<session, publisher, cache, count, owner>>

\* A window whose listeners are being registered may miss a snapshot.
MissSnapshot(m) ==
    /\ m.type = "snapshot"
    /\ replica[m.to].phase = "starting"
    /\ messages' = messages \ {m}
    /\ UNCHANGED <<session, publisher, cache, replica, count, owner>>

\* Text the main window will take: written for the document it last published
\* and still holds, with no other window's text on the way.
WillBeTaken(m) ==
    /\ IsAcceptable(m)
    /\ m.doc = state.doc
    /\ m.epoch = state.epoch
    /\ AcceptsEdits(state)
    /\ \A n \in messages : n.type = "content" => n.source = m.source

TypeInPopout(r) ==
    /\ MaySend
    /\ count.edits < MaxEdits
    /\ replica[r].accepted # None
    /\ AcceptsEdits(replica[r].accepted.state)
    /\ LET text == NextText(replica[r].accepted.state.doc)
           m    == Content(r, text)
       IN  /\ replica' = [replica EXCEPT ![r].typed = text, ![r].sequence = @ + 1]
           /\ messages' = messages \cup {m}
           /\ owner' = IF WillBeTaken(m) THEN [source |-> m.source, text |-> text]
                       ELSE None
    /\ Counted("edits")
    /\ UNCHANGED <<session, publisher, cache>>

\* An emission is refused: the error is reported and nothing is sent again.
Lose(m) ==
    /\ count.losses < MaxLosses
    /\ messages' = messages \ {m}
    /\ Counted("losses")
    /\ owner' = IF m.type = "content" THEN None ELSE owner
    /\ UNCHANGED <<session, publisher, cache, replica>>

-----------------------------------------------------------------------------
Edit ==
    \/ \E k \in Kinds : OpenDocument(k) \/ PrepareOpen(k)
    \/ \E outcome \in OpenOutcomes : ResolveOpen(outcome)
    \/ Type \/ Save \/ LockAuthority \/ SaveAs
    \/ RegisterWatch \/ SeeSameFile \/ SeeChangedFile
    \/ \E r \in Editors : TypeInPopout(r)

Replicate ==
    \/ PublishAuthoritativeState \/ FlushAuthoritativeSnapshot
    \/ \E m \in messages : AnswerRequest(m) \/ AcceptContent(m) \/ AcceptSnapshot(m)
    \/ \E r \in Replicas : Listen(r)

Next ==
    \/ Edit
    \/ Replicate
    \/ ReloadMain
    \/ \E r \in Replicas : Open(r) \/ Close(r)
    \/ \E m \in messages : MissSnapshot(m) \/ Lose(m)

Spec == Init /\ [][Next]_vars

\* Effects, flushes, listeners and events that were sent are served in the end.
FairSpec == Spec /\ WF_vars(Replicate)

-----------------------------------------------------------------------------
TypeOK ==
    /\ state \in States
    /\ unrendered \in BOOLEAN
    /\ opening \in States \cup {None}
    /\ watch \in Nat
    /\ authority \in 1..MaxAuthorities
    /\ {revision, highest} \subseteq Nat
    /\ {snapshot, pending, cache} \subseteq Snapshots \cup {None}
    /\ lastSeq \in [1..MaxLaunches -> Nat]
    /\ replica \in [Replicas ->
          [phase : {"closed", "starting", "listening"}, source : 0..MaxLaunches,
           sequence : Nat, accepted : Snapshots \cup {None}, live : BOOLEAN,
           pin : 0..MaxAuthorities, typed : Texts \cup {None}]]

\* What a pop-out shows: its own text until the next snapshot it accepts.
Shown(r) ==
    LET a == replica[r].accepted
    IN  IF replica[r].typed = None THEN a.state
        ELSE [a.state EXCEPT !.text = replica[r].typed]

\* Nothing is left to publish, to flush or to deliver.
Quiet == ~unrendered /\ pending = None /\ messages = {}

\* Every snapshot anyone can still see, but for what a window took from the
\* storage and holds to be unknown.
Visible ==
    ({snapshot, pending, cache}
       \cup {m.snapshot : m \in {n \in messages : n.type = "snapshot"}}
       \cup {replica[r].accepted : r \in {p \in Replicas : replica[p].live}})
    \ {None}

(***************************************************************************)
(* Once everything sent has arrived, each listening pop-out that is not    *)
(* bound to an earlier main window shows exactly the main window's         *)
(* document: its own text was taken or has been put right, whatever the    *)
(* order in which snapshots, requests and text crossed.                    *)
(***************************************************************************)
QuietReplicasShowMain ==
    Quiet =>
        \A r \in Replicas :
            replica[r].phase = "listening" /\ replica[r].pin \in {0, authority} =>
                /\ replica[r].accepted # None
                /\ replica[r].live
                /\ Shown(r) = state

(***************************************************************************)
(* A revision names one state: two snapshots of one authority that carry   *)
(* the same revision are the same, although accepted text, new states,     *)
(* immediate answers and the rebased flush all draw on the same counter    *)
(* (paneSync.ts).  A replica that drops what it has seen loses nothing.    *)
(***************************************************************************)
RevisionNamesOneState ==
    \A s, t \in Visible :
        s.authority = t.authority /\ s.revision = t.revision => s = t

(***************************************************************************)
(* The text typed last in an editor pop-out, written for the document the  *)
(* main window has published, is what the main window holds once that text *)
(* has arrived: an earlier text of the same window that was overtaken on   *)
(* the way never replaces it.                                              *)
(***************************************************************************)
EditorIsHeard ==
    owner # None =>
        \/ state.text = owner.text
        \/ \E m \in messages :
              m.type = "content" /\ m.source = owner.source /\ m.text = owner.text

(***************************************************************************)
(* A pop-out sends text only on the strength of a snapshot that a running  *)
(* main window sent it.  What it read from the storage, which may be of    *)
(* another run of the program, is never edited.                            *)
(***************************************************************************)
EditsRestOnLiveState ==
    [][\A m \in messages' \ messages :
         m.type = "content" =>
            \E r \in Editors : replica[r].source = m.source /\ replica[r].live]_vars

(***************************************************************************)
(* The tests of the publisher say that text for a document that is no      *)
(* longer current is ignored (paneReplication.test.ts:1214): what the main *)
(* window shows was written for the document it shows.                     *)
(***************************************************************************)
TextStaysInItsDocument == state.text.home = state.doc

(***************************************************************************)
(* A pop-out that opens is served: it comes to hold a live snapshot unless *)
(* it is closed again, or waits for a main window that has gone.           *)
(***************************************************************************)
PopoutsAreServed ==
    \A r \in Replicas :
        replica[r].phase = "starting" ~>
            replica[r].phase = "closed" \/ replica[r].live
=============================================================================
