-------------------------- MODULE DocumentSession ---------------------------
(* The main window's document (useDocumentSession.ts): one queue of operations *)
(* (documentSessionQueue.ts), saves, save-as, the dialog about a file that     *)
(* somebody else wrote and its overwrite, and the events of the watch of the   *)
(* open file (externalDocumentChange.ts), over the backend of DocumentSave.    *)
EXTENDS DocumentSave

CONSTANTS
  MaxEdits,   \* bound: edits
  MaxClicks,  \* bound: requests of the user
  MaxFaults,  \* bound: writes that fail or cannot tell
  MaxForeign, \* bound: changes of files by other programs
  MaxGrants   \* bound: changes of the authorization by other commands

VARIABLES
  doc,       \* paneStateRef, activeFileVersionRef and documentGenerationRef
  conflict,  \* saveConflictRef
  action,    \* externalFileActionRef
  queue,     \* the session queue; the first operation is running
  entry,     \* the backend's watch of the open file (ActiveDocumentWatch)
  accepted,  \* activeDocumentWatchRef
  wire,      \* watch events under way to the window
  left       \* what is left of the bounds

session == <<doc, conflict, action, queue>>
watch == <<entry, accepted, wire>>
vars == <<backend, session, watch, left>>

Spend(what) == left[what] > 0 /\ left' = [left EXCEPT ![what] = @ - 1]
Dirty == doc.content # doc.saved
(* ordinaryDocumentActionsBlocked *)
Blocked == action # None \/ conflict # None

Document(id, path, text, version, gen) ==
  [id |-> id, path |-> path, content |-> text, saved |-> text, base |-> version,
   gen |-> gen, known |-> TRUE]
(* clearActiveDocument *)
Cleared == Document(doc.id + 1, None, Blank, 0, doc.gen + 1)

(***************************************************************************)
(* The backend's watch                                                     *)
(***************************************************************************)
(* What the registration depends on: activePath, authorityStatus, documentId. *)
Wanted == [id |-> doc.id, path |-> IF doc.known THEN doc.path ELSE None]
NotWatching == [for |-> [id |-> 0, path |-> None], gen |-> 0, seq |-> 0, last |-> 0,
                expects |-> None, due |-> FALSE, active |-> FALSE]
Watching(gen) == [for |-> Wanted, gen |-> gen, seq |-> 1, last |-> disk[doc.path].version,
                  expects |-> None, due |-> FALSE, active |-> FALSE]
Snapshot(w, seq) == [watch |-> w.for, gen |-> w.gen, seq |-> seq, file |-> disk[w.for.path]]

(* A change of a file, or its absence, is noticed sooner or later. *)
Noticed(w) == [w EXCEPT !.due = @ \/ (w.for.path # None /\ disk'[w.for.path] # disk[w.for.path])]
(* begin_app_write and settle_app_write around a write of the program. *)
Expecting(w, path, text, answer) ==
  IF w.active /\ w.for.path = path
    THEN [w EXCEPT !.expects = IF answer.status = "committed" THEN text ELSE None] ELSE w
Echo(path, text, answer) == entry' = Noticed(Expecting(entry, path, text, answer))

(* run_scheduled_reconcile: an event, unless the file holds what the program *)
(* wrote or what was told last.                                              *)
WatchRuns ==
  /\ entry.active /\ entry.due
  /\ LET file == disk[entry.for.path]
         quiet == file.version = entry.last \/ (file # Missing /\ file.text = entry.expects)
     IN  /\ entry' = [entry EXCEPT !.due = FALSE, !.expects = None, !.last = file.version,
                                   !.seq = IF quiet THEN @ ELSE @ + 1]
         /\ wire' = IF quiet THEN wire ELSE Append(wire, Snapshot(entry, entry.seq + 1))
  /\ UNCHANGED <<backend, session, accepted, left>>

(* handleActiveDocumentWatchEvent: behind what is queued already. *)
Operation(kind, rest) ==
  LET asked == [kind |-> kind, stage |-> "asked", answer |-> None]
  IN  [f \in DOMAIN asked \cup DOMAIN rest |-> IF f \in DOMAIN asked THEN asked[f] ELSE rest[f]]
Current(seq) == accepted # None /\ seq > accepted.applied
Deliver ==
  /\ wire # <<>> /\ wire' = Tail(wire)
  /\ LET e == Head(wire)
     IN  queue' = IF Current(e.seq) /\ e.watch = accepted.for /\ e.gen = accepted.gen
                    THEN Append(queue, Operation("event", [event |-> e])) ELSE queue
  /\ UNCHANGED <<backend, doc, conflict, action, entry, accepted, left>>

(* The effect that follows the document's identity and path: the former      *)
(* watch ends, a new one is registered and its snapshot queued.              *)
Rewatch ==
  /\ Wanted # entry.for /\ ~(Wanted.path = None /\ entry = NotWatching)
  /\ accepted' = None
  /\ IF Wanted.path = None THEN entry' = NotWatching /\ UNCHANGED queue
     ELSE /\ entry' = Watching(doc.gen)
          /\ queue' = Append(queue, Operation("register", [event |-> Snapshot(Watching(doc.gen), 1)]))
  /\ UNCHANGED <<backend, doc, conflict, action, wire, left>>

(***************************************************************************)
(* Requests of the user                                                    *)
(***************************************************************************)
Ask(op) == queue' = Append(queue, op)
Type == \E t \in Texts \ {doc.content} :
  /\ doc.known /\ Spend("edits") /\ doc' = [doc EXCEPT !.content = t]
  /\ UNCHANGED <<backend, conflict, action, queue, watch>>

(* saveCurrentDocument, by hand or by the timer of the automatic save: the   *)
(* text and the version are those of now, not of when the queue gets there.  *)
SaveRequest ==
  [op |-> left["clicks"], path |-> doc.path, source |-> doc.path, text |-> doc.content,
   expected |-> doc.base, gen |-> doc.gen, pending |-> None, recovers |-> action # None]
Save ==
  /\ ~Blocked /\ doc.known /\ doc.path # None /\ doc.base # 0
  /\ Spend("clicks") /\ Ask(Operation("save", SaveRequest))
  /\ UNCHANGED <<backend, doc, conflict, action, watch>>

(* saveDocumentAs; with the dialog about a deleted file it is not blocked. *)
SaveAs ==
  /\ IF action # None THEN action.kind = "deleted" ELSE conflict = None
  /\ doc.known /\ Spend("clicks")
  /\ Ask(Operation("save as", SaveRequest))
  /\ UNCHANGED <<backend, doc, conflict, action, watch>>

(* handleNew takes effect at once; handleOpenFile is queued. *)
New ==
  /\ ~Blocked /\ Spend("clicks") /\ doc' = Cleared
  /\ UNCHANGED <<backend, conflict, action, queue, watch>>
Open == \E p \in Paths :
  /\ ~Blocked /\ Spend("clicks")
  /\ Ask(Operation("open", [path |-> p, gen |-> doc.gen]))
  /\ UNCHANGED <<backend, doc, conflict, action, watch>>

(* handleOverwriteSaveConflict *)
Clicked(c, q) ==
  IF c = None \/ (c # None /\ c.busy) THEN [conflict |-> c, queue |-> q]
  ELSE [conflict |-> [c EXCEPT !.busy = TRUE],
        queue |-> Append(q, Operation("overwrite", [pending |-> c, token |-> c.token]))]
Overwrite ==
  /\ conflict # None /\ ~conflict.busy /\ Spend("clicks")
  /\ conflict' = Clicked(conflict, queue).conflict /\ queue' = Clicked(conflict, queue).queue
  /\ UNCHANGED <<backend, doc, action, watch>>

(* Without the dialog its token goes too. *)
DropToken(s) == IF conflict = None THEN s ELSE CancelToken(s, conflict.token)
(* handleCancelSaveConflict *)
CancelConflict ==
  /\ conflict # None /\ ~conflict.busy
  /\ conflict' = None /\ Becomes(DropToken(State))
  /\ action' = IF conflict.resume = None THEN action ELSE conflict.resume
  /\ UNCHANGED <<disk, clock, granted, doc, queue, watch, left>>

(* handleKeepCurrentExternal, handleUseExternal *)
Resolve == \E choice \in {"keep", "use"} :
  /\ action # None /\ action.kind = "conflict" /\ accepted # None /\ ~action.busy
  /\ Spend("clicks") /\ action' = [action EXCEPT !.busy = TRUE]
  /\ Ask(Operation("resolve", 
         [op |-> left["clicks"], choice |-> choice, watch |-> accepted.for, gen |-> accepted.gen]))
  /\ UNCHANGED <<backend, doc, conflict, watch>>

(* handleCloseDeletedDraft *)
CloseDeletedDraft ==
  /\ action # None /\ action.kind = "deleted"
  /\ action' = None /\ doc' = Cleared /\ conflict' = None
  /\ accepted' = None /\ entry' = [entry EXCEPT !.active = FALSE]
  /\ UNCHANGED <<backend, queue, wire, left>>

(***************************************************************************)
(* The first operation of the queue: its call                              *)
(***************************************************************************)
Op == Head(queue)
Running(kind, stage) == queue # <<>> /\ Op.kind = kind /\ Op.stage = stage
Stage(new) == queue' = <<new>> \o Tail(queue)
Answered(answer) == Stage([Op EXCEPT !.stage = "answered", !.answer = answer])
Done == queue' = Tail(queue)

(* Writes of the queue, with the faults that are left. *)
Faulty(answer) == left' = IF answer.status \in {"denied", "unknown"}
                            THEN [left EXCEPT !["faults"] = @ - 1] ELSE left
Outcomes(path) == {Refused}
  \cup {Answer(s, path, v, 0) : s \in {"denied", "unknown"}, v \in {0}}
  \cup {Answer("committed", path, clock + 1, 0)}
  \cup {Answer("conflict", path, disk[path].version, t) : t \in {0, serial + 1}}

RunSave ==
  /\ Running("save", "asked")
  /\ \E a \in Outcomes(Op.path) :
       /\ SaveExpected(Op.path, Op.text, Op.expected, left["faults"] > 0, a)
       /\ Answered(a) /\ Faulty(a) /\ Echo(Op.path, Op.text, a)
  /\ UNCHANGED <<doc, conflict, action, accepted, wire>>

(* save_as_dialog: the user names a file; one that exists he has agreed to   *)
(* replace, so the token for it is issued and used at once.                  *)
Accept(p) ==
  /\ Reserve(p)
  /\ Stage([Op EXCEPT !.path = p, !.pending = Reservation(p),
                      !.stage = IF disk[p] = Missing THEN "create" ELSE "issue"])
RunDialog ==
  /\ Running("save as", "asked")
  /\ \/ Answered(None) /\ UNCHANGED store
     \/ \E p \in Paths : Accept(p)
  /\ UNCHANGED <<disk, clock, granted, doc, conflict, action, watch, left>>
RunIssue ==
  /\ Running("save as", "issue")
  /\ LET issued == IssueToken(Op.path, Op.text, Op.op, Op.pending)
     IN  IF issued.token = None
           THEN Becomes(Cancelled(issued.state, Op.pending)) /\ Answered(Refused)
           ELSE /\ Becomes(issued.state)
                /\ Stage([Op EXCEPT !.stage = "replace", !.answer = issued.token.id])
  /\ UNCHANGED <<disk, clock, granted, doc, conflict, action, watch, left>>
RunSaveAs ==
  /\ Running("save as", "replace") \/ Running("save as", "create")
  /\ \E a \in Outcomes(Op.path) :
       /\ IF Op.stage = "create"
            THEN SaveAsExpected(Op.pending, Op.path, Op.text, Op.op, left["faults"] > 0, a)
            ELSE Retry(Op.answer, Op.path, Op.text, Op.op, left["faults"] > 0, a)
       /\ Answered(a) /\ Faulty(a) /\ Echo(Op.path, Op.text, a)
  /\ UNCHANGED <<doc, conflict, action, accepted, wire>>

(* isPendingCurrent *)
PendingCurrent(c) ==
  /\ conflict # None /\ conflict.op = c.op /\ conflict.id = doc.id
  /\ doc.gen = c.gen /\ doc.path = c.source /\ action = None
(* A dialog that is not current any more: no call, or the token is given back. *)
RunOverwriteLate ==
  /\ Running("overwrite", "asked") \/ Running("overwrite", "retry")
  /\ ~PendingCurrent(Op.pending) /\ Answered(None)
  /\ IF Op.stage = "asked" THEN UNCHANGED store ELSE Becomes(CancelToken(State, Op.token))
  /\ UNCHANGED <<disk, clock, granted, doc, conflict, action, watch, left>>
RunOverwriteIssue ==
  /\ Running("overwrite", "asked") /\ PendingCurrent(Op.pending)
  /\ IF Op.token # 0 THEN Stage([Op EXCEPT !.stage = "retry"]) /\ UNCHANGED store
     ELSE LET c == Op.pending
              issued == IssueToken(c.path, c.text, c.op, None)
          IN  /\ Becomes(issued.state)
              /\ IF issued.token = None THEN Answered(Refused)
                 ELSE Stage([Op EXCEPT !.stage = "retry", !.token = issued.token.id])
  /\ UNCHANGED <<disk, clock, granted, doc, conflict, action, watch, left>>
RunOverwrite ==
  /\ Running("overwrite", "retry") /\ PendingCurrent(Op.pending)
  /\ \E a \in Outcomes(Op.pending.path) :
       /\ Retry(Op.token, Op.pending.path, Op.pending.text, Op.pending.op, left["faults"] > 0, a)
       /\ Answered(a) /\ Faulty(a) /\ Echo(Op.pending.path, Op.pending.text, a)
  /\ UNCHANGED <<doc, conflict, action, accepted, wire>>

(* reconcile_command: the file as it is now, under a new sequence number. *)
RunResolve ==
  /\ Running("resolve", "asked")
  /\ IF entry.active /\ entry.for = Op.watch
       THEN /\ entry' = [entry EXCEPT !.seq = @ + 1, !.expects = None,
                                      !.last = disk[entry.for.path].version]
            /\ Answered(Snapshot(entry, entry.seq + 1))
       ELSE Answered(Refused) /\ UNCHANGED entry
  /\ UNCHANGED <<backend, doc, conflict, action, accepted, wire, left>>

(* The prepared open: the file is read and granted (RecentFiles has the rest). *)
RunOpen ==
  /\ Running("open", "asked")
  /\ IF disk[Op.path] = Missing THEN Answered(Refused) /\ UNCHANGED <<generation, granted>>
     ELSE /\ Answered(disk[Op.path]) /\ generation' = generation + 1
          /\ granted' = [granted EXCEPT ![Op.path] = "open"]
  /\ UNCHANGED <<disk, clock, tokens, reserved, serial, doc, conflict, action, watch, left>>

(***************************************************************************)
(* The first operation of the queue: what its answer does                  *)
(***************************************************************************)
Finished(kind) == Running(kind, "answered") /\ Done /\ UNCHANGED left
Failed == Op.answer = Refused
Known(answer) == answer.status # "unknown"   \* lockDocumentAuthorityUnknown
Dialog(kind, token, path, resume) ==
  [op |-> Op.op, id |-> doc.id, kind |-> kind, path |-> path, source |-> Op.source,
   text |-> Op.text, token |-> token, gen |-> Op.gen, busy |-> FALSE, resume |-> resume]

(* The text that was written is saved; the editor may hold another by now. *)
CommittedNow(version, text) == [doc EXCEPT !.base = version, !.saved = doc.content]
Committed(version, text) == [doc EXCEPT !.base = version, !.saved = text]

ApplySave ==
  /\ Finished("save")
  /\ LET a == Op.answer
     IN  IF Failed \/ doc.gen # Op.gen \/ doc.path # Op.path THEN UNCHANGED <<doc, conflict>>
         ELSE /\ conflict' = IF a.status = "conflict" THEN Dialog("same file", 0, Op.path, None)
                             ELSE conflict
              /\ doc' = IF a.status = "committed"
                          THEN Committed(a.version, Op.text)
                          ELSE [doc EXCEPT !.known = @ /\ Known(a)]
  /\ UNCHANGED <<backend, action, watch>>

(* The document takes the name; its watch follows by the effect. *)
Renamed(path, version, text) ==
  [doc EXCEPT !.gen = @ + 1, !.base = version, !.path = path, !.saved = text]
ApplySaveAs ==
  /\ Finished("save as")
  /\ LET a == Op.answer
     IN  IF a = None \/ Failed \/ doc.gen # Op.gen \/ doc.path # Op.source
           THEN UNCHANGED <<doc, conflict, action>>
         ELSE IF a.status = "conflict" /\ a.token # 0
           THEN /\ conflict' = Dialog("save as", a.token, a.path, IF Op.recovers THEN action ELSE None)
                /\ action' = IF Op.recovers THEN None ELSE action
                /\ UNCHANGED doc
         ELSE /\ doc' = IF a.status = "committed" THEN Renamed(a.path, a.version, Op.text)
                        ELSE [doc EXCEPT !.known = @ /\ Known(a)]
              /\ action' = IF a.status = "committed" /\ Op.recovers /\ doc.content = Op.text
                             THEN None ELSE action
              /\ UNCHANGED conflict
  /\ UNCHANGED <<backend, watch>>

(* A call that failed leaves the dialog; an answer that is not current any   *)
(* more is dropped.                                                          *)
ApplyOverwrite ==
  /\ Finished("overwrite")
  /\ LET a == Op.answer  c == Op.pending
     IN  IF Failed
           THEN /\ conflict' = IF conflict # None /\ conflict.op = c.op
                                 THEN [c EXCEPT !.busy = FALSE] ELSE conflict
                /\ UNCHANGED <<doc, action>>
         ELSE IF a = None \/ ~PendingCurrent(c) THEN UNCHANGED <<doc, conflict, action>>
         ELSE /\ conflict' = None
              /\ action' = IF a.status \notin {"committed", "unknown"} /\ c.resume # None
                             THEN c.resume ELSE action
              /\ doc' = IF a.status # "committed" THEN [doc EXCEPT !.known = @ /\ Known(a)]
                        ELSE IF c.kind = "save as" THEN Renamed(a.path, a.version, c.text)
                        ELSE Committed(a.version, c.text)
  /\ UNCHANGED <<backend, watch>>

ApplyOpen ==
  /\ Finished("open")
  /\ doc' = IF Failed \/ doc.gen # Op.gen THEN doc
            ELSE Document(doc.id + 1, Op.path, Op.answer.text, Op.answer.version, doc.gen + 1)
  /\ UNCHANGED <<backend, conflict, action, watch>>

(***************************************************************************)
(* The watch's snapshots                                                   *)
(***************************************************************************)
(* reduceExternalDocumentChange *)
Decision(file) ==
  CASE ~doc.known -> "ignore"
    [] file = Missing -> IF Dirty THEN "deleted" ELSE "close"
    [] file # Missing /\ doc.known ->
         IF file.text = doc.content \/ ~Dirty THEN "reload" ELSE "conflict"
Reloaded(file) == [doc EXCEPT !.content = file.text, !.saved = file.text, !.base = file.version]
External(kind, event) == [kind |-> kind, watch |-> event.watch, event |-> event, busy |-> FALSE]
(* coalesceExternalConflict *)
Coalesced(event) ==
  IF action # None /\ action.kind = "conflict" /\ action.watch = event.watch
    THEN [action EXCEPT !.event = event] ELSE External("conflict", event)

(* applyExternalDocumentDecision *)
Decide(event, heard, w) ==
  LET what == Decision(event.file)
      told == what \in {"conflict", "deleted"}
  IN  /\ doc' = CASE what = "reload" -> Reloaded(event.file)
                  [] what = "close" -> Cleared
                  [] OTHER -> doc
      /\ action' = CASE what = "conflict" -> Coalesced(event)
                     [] what = "deleted" -> External("deleted", event)
                     [] OTHER -> action
      /\ conflict' = IF told THEN None ELSE conflict
      /\ Becomes(IF told THEN DropToken(State) ELSE State)
      /\ accepted' = IF what \in {"close", "deleted"} THEN None ELSE heard
      /\ entry' = IF what \in {"close", "deleted"} THEN [w EXCEPT !.active = FALSE] ELSE w

(* isAcceptedWatchCurrent, envelopeMatchesAcceptedPath *)
Heard(event) ==
  /\ Current(event.seq) /\ event.watch = accepted.for /\ event.gen = accepted.gen
  /\ doc.gen = accepted.gen /\ doc.id = event.watch.id /\ doc.known /\ doc.path = event.watch.path
ApplyEvent ==
  /\ queue # <<>> /\ Op.kind = "event" /\ Done /\ UNCHANGED left
  /\ IF Heard(Op.event) THEN Decide(Op.event, [accepted EXCEPT !.applied = Op.event.seq], entry)
     ELSE UNCHANGED <<doc, action, conflict, store, accepted, entry>>
  /\ UNCHANGED <<disk, clock, granted, wire>>

(* The registration's snapshot; then the watch is accepted and activated. *)
ApplyRegister ==
  /\ queue # <<>> /\ Op.kind = "register" /\ Done /\ UNCHANGED left
  /\ LET e == Op.event
     IN  IF entry.for = e.watch /\ Wanted = e.watch /\ doc.gen = e.gen
           THEN Decide(e, [for |-> e.watch, gen |-> e.gen, applied |-> e.seq],
                       [entry EXCEPT !.active = TRUE])
           ELSE UNCHANGED <<doc, action, conflict, store, accepted, entry>>
  /\ UNCHANGED <<disk, clock, granted, wire>>

(* The choice about an external change.  To keep the document's text is to   *)
(* take the file's for saved and to overwrite it.                            *)
Kept(file) ==
  [op |-> Op.op, id |-> doc.id, kind |-> "same file", path |-> doc.path, source |-> doc.path,
   text |-> doc.content, token |-> 0, gen |-> Op.gen, busy |-> FALSE, resume |-> None]
Resolvable ==
  /\ ~Failed /\ accepted # None /\ accepted.for = Op.watch /\ accepted.gen = Op.gen
  /\ action # None /\ action.kind = "conflict" /\ action.watch = Op.watch
  /\ Current(Op.answer.seq) /\ doc.path = Op.watch.path
Resolution(file) ==
  IF file = Missing
    THEN /\ doc' = IF Dirty THEN doc ELSE Cleared
         /\ action' = IF Dirty THEN External("deleted", Op.answer) ELSE None
         /\ accepted' = None /\ entry' = [entry EXCEPT !.active = FALSE]
    ELSE /\ doc' = IF Op.choice = "use" THEN Reloaded(file) ELSE [doc EXCEPT !.saved = file.text]
         /\ action' = None
         /\ accepted' = [accepted EXCEPT !.applied = Op.answer.seq] /\ UNCHANGED entry
ApplyResolve ==
  /\ Running("resolve", "answered") /\ UNCHANGED left
  /\ LET gone == Resolvable /\ Op.answer.file = Missing /\ Dirty
         chosen == CASE ~Resolvable -> conflict
                     [] gone -> None
                     [] OTHER -> IF Op.answer.file # Missing /\ Op.choice = "keep"
                                   THEN Kept(Op.answer.file) ELSE conflict
         next == IF Op.choice = "keep" THEN Clicked(chosen, Tail(queue))
                 ELSE [conflict |-> chosen, queue |-> Tail(queue)]
     IN  /\ conflict' = next.conflict /\ queue' = next.queue
         /\ Becomes(IF gone THEN DropToken(State) ELSE State)
         /\ IF Resolvable THEN Resolution(Op.answer.file)
            ELSE /\ action' = IF action = None THEN None ELSE [action EXCEPT !.busy = FALSE]
                 /\ UNCHANGED <<doc, accepted, entry>>
  /\ UNCHANGED <<disk, clock, granted, wire>>

(***************************************************************************)
(* Specification                                                           *)
(***************************************************************************)
Foreign ==
  /\ Spend("foreign")
  /\ ForeignWrite \/ ForeignRemove
  /\ entry' = Noticed(entry) /\ UNCHANGED <<session, accepted, wire>>
OtherCommand == Spend("grants") /\ Elsewhere /\ UNCHANGED <<session, watch>>
TokenExpires == Expire /\ UNCHANGED <<session, watch, left>>

(* A file has been opened and its watch accepted. *)
Init == \E p \in Paths, t \in Texts \ {Blank} :
  /\ disk = [q \in Paths |-> IF q = p THEN [text |-> t, version |-> 1] ELSE Missing]
  /\ clock = 1 /\ tokens = {} /\ reserved = {} /\ generation = 1 /\ serial = 0
  /\ granted = [q \in Paths |-> IF q = p THEN "open" ELSE None]
  /\ doc = Document(1, p, t, 1, 1)
  /\ conflict = None /\ action = None /\ queue = <<>> /\ wire = <<>>
  /\ entry = [for |-> [id |-> 1, path |-> p], gen |-> 1, seq |-> 1, last |-> 1, expects |-> None,
              due |-> FALSE, active |-> TRUE]
  /\ accepted = [for |-> [id |-> 1, path |-> p], gen |-> 1, applied |-> 1]
  /\ left = [edits |-> MaxEdits, clicks |-> MaxClicks, faults |-> MaxFaults,
             foreign |-> MaxForeign, grants |-> MaxGrants]

User == Type \/ Save \/ SaveAs \/ New \/ Open \/ Overwrite \/ CancelConflict \/ Resolve
        \/ CloseDeletedDraft
Runs == RunSave \/ RunDialog \/ RunIssue \/ RunSaveAs \/ RunOverwriteLate \/ RunOverwriteIssue
        \/ RunOverwrite \/ RunResolve \/ RunOpen
Applies == ApplySave \/ ApplySaveAs \/ ApplyOverwrite \/ ApplyOpen \/ ApplyEvent \/ ApplyRegister
           \/ ApplyResolve
Watches == WatchRuns \/ Deliver \/ Rewatch
Next == User \/ Runs \/ Applies \/ Watches \/ Foreign \/ OtherCommand \/ TokenExpires

Spec == Init /\ [][Next]_vars

(***************************************************************************)
(* Properties                                                              *)
(***************************************************************************)
TypeOK ==
  /\ disk \in [Paths -> [text : Texts \cup {None}, version : 0 .. clock]]
  /\ \A t \in tokens : t.id <= serial /\ t.path \in Paths /\ t.generation <= generation
  /\ Cardinality(tokens) <= MaxTokens /\ Cardinality(reserved) <= 1
  /\ doc.path \in Paths \cup {None} /\ {doc.content, doc.saved} \subseteq Texts

(* A save replaces the version the document is based on: if that is what the *)
(* file is, the file holds the text the document takes for saved, so that no *)
(* text nobody in the window has seen is replaced without a question.        *)
SavesRestOnSeen ==
  doc.known /\ doc.path # None /\ doc.base # 0 /\ disk[doc.path].version = doc.base
    => disk[doc.path].text = doc.saved

(* A reservation of authority for a save-as is held by a save-as that is     *)
(* under way or by a token; nothing that ends forgets it.                    *)
ReservationsAreHeld == \A q \in reserved :
  \/ \E t \in tokens : t.pending = q
  \/ \E i \in DOMAIN queue : queue[i].kind = "save as" /\ queue[i].pending = q
=============================================================================
