---------------------------- MODULE DraftWindow ----------------------------
(* The main window and its crash drafts: the scheduler of their writes         *)
(* (crashDrafts.ts), what the document session does with it around a save and  *)
(* an open (useDocumentSession.ts), and the discard that follows them           *)
(* (useCrashDraftRecovery.ts), on top of the store.  A pending text may be      *)
(* written at any time: the debounce timer and the order of the ready queue are *)
(* left open, one write at a time.  App.tsx passes `enabled: false` to the      *)
(* recovery: the window neither reads the drafts when it starts nor offers them, *)
(* and what the recovery still does is to discard and then to list.              *)
EXTENDS CrashDrafts

CONSTANTS
  Elder,       \* a document of which a draft may be there from an earlier run
  Damaged,     \* a document of which a damaged draft may be there
  MaxEdits,    \* bound: texts typed
  MaxSerial,   \* bound: versions given out before a write
  MaxRuns      \* bound: starts of the program

VARIABLES
  sched,      \* the scheduler's state of each document
  active,     \* the write whose answer the scheduler awaits, or None
  doc,        \* the open document: identity, text, saved text
  typed,      \* the last text typed
  task,       \* what the session is at, one thing at a time
  seeded,     \* documents whose revision was taken from a list
  told,       \* the user was told that drafts could not be handled
  settled,    \* history: texts this run has saved or dropped
  ahead,      \* history: the user typed while a saved text was cleaned up
  runs

window == <<sched, active, doc, typed, task, seeded, told, settled, ahead, runs>>
vars == <<store, window>>

Unknown == [next |-> 0, known |-> None, pend |-> None, stage |-> "none", token |-> None]
Idle == [kind |-> "idle", next |-> "none"]
NewDocument(d) == [id |-> d, text |-> 0, saved |-> 0]
Unused == {d \in Docs : sched[d] = Unknown /\ dir[d] = None}
Dirty == doc.text # doc.saved

(* schedule, invalidate, and the begin of flush on the state of one document. *)
ScheduleKeepsFirst(s, text) ==
  IF s.pend # None THEN [s EXCEPT !.next = @ + 1, !.known = text]
  ELSE [s EXCEPT !.next = @ + 1, !.known = text, !.pend = text, !.stage = "due"]
Schedule(s, text) ==
  IF s.known = text
  THEN IF s.stage = "stuck" THEN [s EXCEPT !.stage = "due"] ELSE s
  ELSE [s EXCEPT !.next = @ + 1, !.known = text, !.pend = text, !.stage = "due"]
Invalidate(s) == [s EXCEPT !.known = None, !.pend = None, !.stage = "none"]
Retry(s) == [s EXCEPT !.stage = IF @ = "stuck" THEN "due" ELSE @]
ConfirmDiscarded(s, ver) ==
  IF s.token = ver THEN [s EXCEPT !.token = None, !.known = None] ELSE s
Orphan(d) == active' = IF active # None /\ active.doc = d THEN [active EXCEPT !.live = FALSE]
                       ELSE active

Init ==
  /\ \E old, foreign \in BOOLEAN, left \in {0, Batch + 1} :
       /\ dir = [d \in Docs |->
                  IF d = Elder /\ old
                  THEN [kind |-> "supported", rev |-> 1, text |-> 1, at |-> 1, ver |-> 1]
                  ELSE IF d = Damaged /\ foreign
                  THEN [kind |-> "protected", rev |-> 0, text |-> 0, at |-> 0, ver |-> 2]
                  ELSE None]
       /\ leftovers = left
  /\ startup = FALSE /\ serial = 2 /\ faults = 0
  /\ reply = [caller \in {"write", "discard"} |-> None]
  /\ sched = [d \in Docs |-> Unknown] /\ active = None
  /\ doc = NewDocument(None) /\ typed = 1 /\ task = Idle
  /\ seeded = {} /\ told = FALSE /\ settled = {} /\ ahead = FALSE /\ runs = 0

(* The program starts, or starts again after a crash: it repairs the store, and the *)
(* window begins with an unnamed document and knows of no draft.                     *)
Start ==
  /\ runs < MaxRuns
  /\ runs' = runs + 1
  /\ RepairStartup
  /\ Kept(dir') # Docs
  /\ doc' = NewDocument(CHOOSE d \in Docs : dir'[d] = None)
  /\ sched' = [d \in Docs |-> Unknown] /\ active' = None
  /\ task' = Idle /\ seeded' = {} /\ told' = FALSE
  /\ settled' = {} /\ ahead' = FALSE
  /\ UNCHANGED typed

Running == runs > 0
Free == Running /\ task = Idle

(* The user types at any time, except while another document takes the place. *)
Type ==
  /\ Running
  /\ typed < MaxEdits
  /\ task.next \in {"none", "saved"}
  /\ typed' = typed + 1
  /\ doc' = [doc EXCEPT !.text = typed + 1]
  /\ sched' = [sched EXCEPT ![doc.id] = Schedule(@, typed + 1)]
  /\ ahead' = (ahead \/ task.next = "saved")
  /\ UNCHANGED <<store, active, task, seeded, told, settled, runs>>

Pump(d) ==
  /\ Running
  /\ active = None
  /\ sched[d].stage = "due"
  /\ serial < MaxSerial
  /\ Write(d, sched[d].next, sched[d].pend)
  /\ active' = [doc |-> d, text |-> sched[d].pend, live |-> TRUE]
  /\ sched' = [sched EXCEPT ![d].pend = None, ![d].stage = "none"]
  /\ UNCHANGED <<doc, typed, task, seeded, told, settled, ahead, runs>>

Take(caller) == reply' = [reply EXCEPT ![caller] = None]

(* The answer sets the token even of a document that was invalidated meanwhile; a *)
(* failed text waits for the next change or flush, unless a newer one does.        *)
WriteAnswered ==
  /\ active # None
  /\ LET r == reply["write"]
         d == active.doc
     IN  sched' = IF r.answer \in {"stored", "unchanged"}
                  THEN [e \in Docs |->
                          IF e = d THEN [sched[e] EXCEPT !.token = r.ver]
                          ELSE IF e \in r.evicted THEN [sched[e] EXCEPT !.token = None]
                          ELSE sched[e]]
                  ELSE IF active.live /\ sched[d].pend = None
                  THEN [sched EXCEPT ![d].pend = active.text, ![d].stage = "stuck"]
                  ELSE sched
  /\ active' = None
  /\ Take("write")
  /\ UNCHANGED <<dir, leftovers, startup, serial, faults,
                 doc, typed, task, seeded, told, settled, ahead, runs>>

(* A save commits the text it was started with.  If that is still the text, the *)
(* draft goes; if not, the newer text is drafted.                                *)
StartSave ==
  /\ Free
  /\ Dirty
  /\ task' = [kind |-> "save", next |-> "none", text |-> doc.text]
  /\ UNCHANGED <<store, sched, active, doc, typed, seeded, told, settled, ahead, runs>>

SaveFails ==
  /\ task.kind = "save"
  /\ task' = Idle
  /\ UNCHANGED <<store, sched, active, doc, typed, seeded, told, settled, ahead, runs>>

SaveCommits ==
  /\ task.kind = "save"
  /\ doc' = [doc EXCEPT !.saved = task.text]
  /\ settled' = settled \cup {task.text}
  /\ IF doc.text = task.text
     THEN /\ task' = [kind |-> "flush", next |-> "saved"]
          /\ sched' = [sched EXCEPT ![doc.id] = Retry(@)]
     ELSE /\ task' = Idle
          /\ sched' = [sched EXCEPT ![doc.id] = Schedule(@, doc.text)]
  /\ UNCHANGED <<store, active, typed, seeded, told, ahead, runs>>

(* Another document is opened; the user may have chosen to drop the text. *)
StartLeave ==
  /\ Free
  /\ task' = [kind |-> "flush", next |-> IF Dirty THEN "dropped" ELSE "left"]
  /\ settled' = IF Dirty THEN settled \cup {doc.text} ELSE settled
  /\ sched' = [sched EXCEPT ![doc.id] = Retry(@)]
  /\ UNCHANGED <<store, active, doc, typed, seeded, told, ahead, runs>>

FlushFails ==
  /\ task.kind = "flush"
  /\ sched[doc.id].stage = "stuck"
  /\ task' = Idle
  /\ told' = TRUE
  /\ UNCHANGED <<store, sched, active, doc, typed, seeded, settled, ahead, runs>>

Flushed ==
  /\ task.kind = "flush"
  /\ sched[doc.id].stage = "none"
  /\ active # None => active.doc # doc.id

(* The saved document's draft is discarded, at the version written last. *)
CleanSaved ==
  /\ Flushed
  /\ task.next = "saved"
  /\ IF sched[doc.id].token = None
     THEN /\ sched' = [sched EXCEPT ![doc.id] = Invalidate(@)]
          /\ task' = Idle
          /\ UNCHANGED store
     ELSE /\ Discard(doc.id, sched[doc.id].token)
          /\ task' = [kind |-> "discard", next |-> "saved", doc |-> doc.id,
                      ver |-> sched[doc.id].token]
          /\ UNCHANGED sched
  /\ Orphan(doc.id)
  /\ UNCHANGED <<doc, typed, seeded, told, settled, ahead, runs>>

Leave ==
  /\ Flushed
  /\ task.next \in {"left", "dropped"}
  /\ Unused # {}
  /\ doc' = NewDocument(CHOOSE d \in Unused : TRUE)
  /\ sched' = [sched EXCEPT ![doc.id] = Invalidate(@)]
  /\ IF task.next = "left" \/ sched[doc.id].token = None
     THEN task' = Idle /\ UNCHANGED store
     ELSE /\ Discard(doc.id, sched[doc.id].token)
          /\ task' = [kind |-> "discard", next |-> "dropped", doc |-> doc.id,
                      ver |-> sched[doc.id].token]
  /\ Orphan(doc.id)
  /\ UNCHANGED <<typed, seeded, told, settled, ahead, runs>>

(* applyCatalog seeds each listed document once; a document whose draft is being *)
(* written, or is behind what was scheduled, makes the whole list fail.           *)
Fresh == Supported(dir) \ seeded
Seedable == \A d \in Fresh : /\ sched[d].stage = "none"
                            /\ (active = None \/ active.doc # d)
                            /\ sched[d].next <= dir[d].rev
Seed(s, draft) == [s EXCEPT !.next = draft.rev, !.known = None, !.token = draft.ver]

(* The answer to a discard: after a confirmed one the drafts are listed; anything *)
(* else is told, and so is a list that fails.                                      *)
Discarded ==
  /\ reply["discard"] # None
  /\ task' = Idle
  /\ Take("discard")
  /\ IF reply["discard"].answer = "discarded"
     THEN \E ok \in BOOLEAN :
          LET listed == ok /\ Seedable
              seeds == [d \in Docs |-> IF listed /\ d \in Fresh THEN Seed(sched[d], dir[d])
                                      ELSE sched[d]]
          IN /\ List(ok)
             /\ told' = (told \/ ~listed)
             /\ seeded' = IF listed THEN seeded \cup Fresh ELSE seeded
             /\ IF task.next = "saved"
                THEN /\ sched' = [seeds EXCEPT ![task.doc] =
                                    Invalidate(ConfirmDiscarded(@, task.ver))]
                     /\ Orphan(task.doc)
                ELSE /\ sched' = [seeds EXCEPT ![task.doc] = ConfirmDiscarded(@, task.ver)]
                     /\ UNCHANGED active
     ELSE /\ told' = TRUE
          /\ UNCHANGED <<dir, leftovers, startup, serial, faults, sched, active, seeded>>
  /\ UNCHANGED <<doc, typed, settled, ahead, runs>>

Next ==
  \/ Start
  \/ Type
  \/ \E d \in Docs : Pump(d)
  \/ WriteAnswered
  \/ StartSave \/ SaveFails \/ SaveCommits \/ CleanSaved
  \/ StartLeave \/ Leave \/ FlushFails \/ Discarded

Spec == Init /\ [][Next]_vars

-----------------------------------------------------------------------------
TypeOK ==
  /\ \A d \in Kept(dir) : dir[d] \in Drafts
  /\ leftovers \in Nat
  /\ \A d \in Kept(dir) : dir[d].ver <= serial
  /\ faults \in 0..MaxFaults
  /\ \A d \in Docs : sched[d].stage \in {"none", "due", "stuck"}
  /\ \A d \in Docs : (sched[d].pend = None) = (sched[d].stage = "none")
  /\ active = None <=> reply["write"] = None
  /\ task.kind = "discard" <=> reply["discard"] # None

Quiet ==
  /\ Running
  /\ task = Idle
  /\ active = None
  /\ \A d \in Docs : sched[d].stage \in {"none", "stuck"}

Drafted(d, text) == dir[d] # None /\ dir[d].kind = "supported" /\ dir[d].text = text

(* When nothing is under way, the unsaved text is on disk as the document's draft, *)
(* unless its write failed and is kept for the next flush, or the user was told:    *)
(* crashDrafts.ts schedule/pump/invalidate.  Except for text typed while a saved    *)
(* one was cleaned up, see NewerEditsAreDrafted.                                    *)
DirtyTextIsDrafted ==
  Quiet /\ Dirty /\ ~told /\ ~ahead /\ sched[doc.id].stage # "stuck" => Drafted(doc.id, doc.text)

NewerEditsAreDrafted ==
  Quiet /\ Dirty /\ ~told /\ sched[doc.id].stage # "stuck" => Drafted(doc.id, doc.text)

(* When nothing is under way, no text that was saved or dropped in this run is left *)
(* as a draft, unless the user was told or the write of a newer text has failed.    *)
SettledTextIsGone ==
  Quiet /\ ~told /\ ~ahead =>
    \A d \in Supported(dir) : sched[d].stage # "stuck" => dir[d].text \notin settled

(* What no call of the window's names goes by eviction: a supported draft, written  *)
(* before every supported one that stays, whatever the clock said.  And a discard    *)
(* removes the draft of a text that was saved or dropped, and no other, but for the  *)
(* text typed while the saved one was cleaned up.                                    *)
RemovalsAreJustified ==
  \A d \in Docs : d \in Kept(dir) /\ dir'[d] = None =>
    IF task'.kind = "discard" /\ task' # task
    THEN d = doc.id /\ (dir[d].text \in settled \/ ahead)
    ELSE /\ d \in Supported(dir)
         /\ \A e \in Supported(dir) : dir'[e] = dir[e] => dir[d].ver < dir[e].ver
=============================================================================
