---------------------------- MODULE EditorPopout ----------------------------
(* The editor's pop-out window, and what is inserted there from the sidebar of *)
(* the main window. One operation at a time opens the window (paneWindow.ts,   *)
(* usePanePopouts.ts); an insertion waits until a window that shows the        *)
(* document has answered a handshake (App.tsx). The two windows' events cross  *)
(* in any order, insertions one after the other; an event that finds no        *)
(* listener is dropped. A change of React's state and its effects are one      *)
(* step, but for the editor of the pop-out, which may render later.            *)
EXTENDS Naturals, Sequences, FiniteSets, SequencesExt

CONSTANTS Attempts,    \* MEDIA_INSERTION_HANDSHAKE_ATTEMPTS
          MaxEvents,   \* bound: clicks, insertions, other documents, closed windows, failures
          None

VARIABLES window,    \* the instance in the window with the editor's label
          open,      \* the entry of openOperations
          flag,      \* poppedOutPanes has the editor
          tracking,  \* the effect that follows the window
          ended,     \* events of destroyed windows that are on their way
          main,      \* the main window's references
          popout,    \* the window's state
          messages,  \* events that are on their way
          tail,      \* popoutMediaInsertionTailRef: what waits for its turn
          asked,     \* history: the document and the generation each insertion was asked in
          inserted,  \* what editors inserted, in order
          told,      \* history: insertions whose failure was shown
          excused,   \* history: what the code is known to lose
          used       \* identities and bounds

vars == <<window, open, flag, tracking, ended, main, popout, messages, tail, asked, inserted, told,
          excused, used>>
windowVars == <<window, open, flag, tracking, ended>>
historyVars == <<asked, inserted, told>>

PopoutConstants == {Attempts, MaxEvents} \subseteq Nat
-----------------------------------------------------------------------------
Event == used.events < MaxEvents /\ used' = [used EXCEPT !.events = @ + 1]

NoPopout == [doc |-> 0, listens |-> FALSE, heard |-> FALSE, high |-> 0, media |-> 0]

Init ==
  \* A main window that was reloaded finds the pop-out of before.
  /\ window \in {None, 1} /\ open = None /\ flag = FALSE /\ ended = 0
  /\ tracking = [at |-> "listening", saw |-> FALSE, destroyed |-> FALSE]
  /\ main = [doc |-> 1, open |-> FALSE, expected |-> None, ready |-> None, request |-> None,
             handshake |-> None, pending |-> {}, generation |-> 0, listens |-> TRUE, asking |-> FALSE]
  /\ popout = IF window = None THEN NoPopout ELSE [NoPopout EXCEPT !.doc = 1, !.listens = TRUE]
  /\ messages = {} /\ tail = <<>> /\ asked = <<>> /\ inserted = <<>> /\ told = {}
  /\ excused = [ids |-> {}, requests |-> {}, flag |-> FALSE]
  /\ used = [instances |-> 1, requests |-> 0, handshakes |-> 0, events |-> 0]

\* cancelMarkdownMediaInsertionHandshake and a new generation.
Forget(m) == [m EXCEPT !.generation = @ + 1, !.handshake = None, !.request = None]
\* The effect of editorPopoutOpen: nothing is left of a window that is closed.
Closed(m) == [Forget(m) EXCEPT !.ready = None, !.expected = None, !.pending = {}, !.open = FALSE]
\* updatePopoutState, and the render after it.
UpdatePopoutState(isOpen, m) ==
  /\ flag' = isOpen
  /\ main' = IF flag /\ ~isOpen THEN Closed(m) ELSE [m EXCEPT !.open = isOpen \/ main.asking]

Current(doc, inst) == [doc |-> doc, inst |-> inst]
\* An event for a window that is not there goes nowhere (emitTo).
Sent(events) == IF window = None THEN messages ELSE messages \cup events
Missed(events) == IF window = None THEN {e.id : e \in {e \in events : e.kind = "request"}} ELSE {}

\* startHandshake and sendHandshake: a new handshake, or the next attempt of the one that runs.
Offer(h) == {[kind |-> "handshake", doc |-> h.doc, inst |-> h.inst, id |-> h.id]}
StartHandshake(m, inst) ==
  LET h == m.handshake
      same == h # None /\ h.inst = inst /\ inst = m.expected
      next == IF same THEN [h EXCEPT !.attempt = @ + 1]
              ELSE [doc |-> m.doc, inst |-> inst, id |-> used.handshakes, attempt |-> 1]
  IN  IF ~m.open \/ (same /\ h.attempt >= Attempts) THEN [m |-> m, sent |-> {}]
      ELSE [m |-> [m EXCEPT !.ready = IF same THEN @ ELSE None, !.handshake = next], sent |-> Offer(next)]
\* requestEditorPopoutReady: one request at a time.
RequestReady(m) ==
  IF m.request # None THEN [m |-> m, sent |-> {}]
  ELSE [m |-> [m EXCEPT !.request = used.requests, !.ready = None, !.handshake = None, !.open = TRUE],
        sent |-> {[kind |-> "request", doc |-> m.doc, id |-> used.requests]}]
\* The identities that were given away (createPaneProtocolId).
Spent(m) == [used EXCEPT !.requests = IF m.request = @ THEN @ + 1 ELSE @,
                         !.handshakes = IF m.handshake # None /\ m.handshake.id = @ THEN @ + 1 ELSE @]
Does(then, others) ==
  /\ main' = then.m /\ messages' = Sent(then.sent) \ others
  /\ excused' = [excused EXCEPT !.requests = @ \cup Missed(then.sent)]
-----------------------------------------------------------------------------
\* usePanePopouts: listen for the end of the window, then look whether it is open.
TrackLooks ==
  /\ tracking.at = "listening"
  /\ tracking' = [tracking EXCEPT !.at = "looked", !.saw = window # None]
  /\ UNCHANGED <<window, open, flag, ended, main, popout, messages, tail, historyVars, excused, used>>

SawAtFirst == tracking.saw
Saw == tracking.saw /\ ~tracking.destroyed
TrackAnswers ==
  /\ tracking.at = "looked"
  /\ UpdatePopoutState(Saw, main)
  /\ tracking' = [at |-> "done", saw |-> FALSE, destroyed |-> FALSE]
  \* The answer is older than a window that was opened meanwhile.
  /\ excused' = [excused EXCEPT !.flag = @ \/ (~flag' /\ window # None)]
  /\ UNCHANGED <<window, open, ended, popout, messages, tail, historyVars, used>>

\* The destroyed listener: at once, whatever an open is about to report.
Destroyed ==
  /\ ended > 0 /\ ended' = ended - 1
  /\ UpdatePopoutState(FALSE, main)
  \* The event of an open that has yet to report its window, or that of an earlier window.
  /\ tracking' = IF tracking.at = "done" THEN tracking ELSE [tracking EXCEPT !.destroyed = TRUE]
  /\ excused' = [excused EXCEPT !.flag = @ \/ open # None \/ window # None]
  /\ UNCHANGED <<window, open, popout, messages, tail, historyVars, used>>

\* handleEditorPopoutOpen: a click while the window is thought closed names the instance to come.
OpenClicked ==
  /\ Event
  /\ open = None /\ ~main.asking
  /\ open' = [at |-> "lookup", inst |-> IF flag THEN None ELSE used.instances + 1]
  /\ main' \in IF flag THEN {main}
               \* Whether the window renders before the answer is React's choice.
               ELSE {[main EXCEPT !.expected = used.instances + 1, !.request = None, !.asking = TRUE,
                                  !.open = rendered] : rendered \in {main.open, TRUE}}
  /\ UNCHANGED <<window, flag, tracking, ended, popout, messages, tail, historyVars, excused>>

\* openOnce up to its answer: find and focus the window or create it, and announce the state.
Lookup ==
  /\ open # None /\ open.at = "lookup"
  /\ \/ window # None /\ open' = [open EXCEPT !.at = "existing"] /\ UNCHANGED <<window, popout, used>>
     \/ /\ window = None /\ open' = [open EXCEPT !.at = "created"]
        /\ used' = [used EXCEPT !.instances = @ + 1]
        /\ window' = IF open.inst = None THEN used.instances + 1 ELSE open.inst
        /\ popout' = NoPopout
  /\ UNCHANGED <<flag, tracking, ended, main, messages, tail, historyVars, excused>>

\* The outcome of openPanePopout, and what handleEditorPopoutOpen does about it.
Existing(m) ==
  IF open.inst = None
  THEN IF m.ready # None \/ m.expected # None THEN [m |-> m, sent |-> {}] ELSE RequestReady(m)
  ELSE IF m.expected # open.inst THEN [m |-> m, sent |-> {}]
  ELSE IF m.ready # None
  THEN StartHandshake([m EXCEPT !.expected = m.ready.inst], m.ready.inst)
  ELSE RequestReady([m EXCEPT !.expected = None])
Opened ==
  /\ open # None /\ open.at \in {"existing", "created"}
  /\ flag' = TRUE /\ open' = None
  /\ LET m == [main EXCEPT !.open = TRUE, !.asking = FALSE]
     IN  Does(IF open.at = "existing" THEN Existing(m) ELSE [m |-> m, sent |-> {}], {})
  /\ used' = Spent(main')
  /\ UNCHANGED <<window, tracking, ended, popout, tail, historyVars>>

OpenFails ==
  /\ open # None /\ open.at = "lookup" /\ Event
  /\ flag' = FALSE /\ open' = None
  /\ main' = LET m == IF flag THEN Closed(main) ELSE main
             IN  [m EXCEPT !.asking = FALSE, !.open = FALSE,
                    !.expected = IF open.inst = @ THEN None ELSE @]
  /\ told' = told \cup main.pending
  /\ excused' = [excused EXCEPT !.flag = @ \/ window # None]
  /\ UNCHANGED <<window, tracking, ended, popout, messages, tail, asked, inserted>>

\* The user closes the pop-out, and what is on its way there is gone.
Close ==
  /\ window # None /\ Event
  /\ window' = None /\ ended' = ended + 1 /\ popout' = NoPopout
  /\ LET gone == {e \in messages : e.kind \notin {"ready", "ack"}}
     IN  /\ messages' = messages \ gone
         /\ excused' = [excused EXCEPT !.requests = @ \cup {e.id : e \in {e \in gone : e.kind = "request"}}]
  /\ UNCHANGED <<open, flag, tracking, main, tail, historyVars>>
-----------------------------------------------------------------------------
\* handleWorkspaceAssetInsert at the cursor: here, in a window that is ready, or later.
Insert ==
  LET id == Len(asked) + 1
      item == [id |-> id, doc |-> main.doc, inst |-> main.ready.inst, generation |-> main.generation]
      waiting == [main EXCEPT !.pending = @ \cup {id}]
      then == IF main.expected # None THEN StartHandshake(waiting, main.expected) ELSE RequestReady(waiting)
  IN  /\ tracking.at = "done" /\ used.events < MaxEvents
      /\ asked' = Append(asked, [doc |-> main.doc, generation |-> main.generation])
      /\ \/ /\ ~main.open
            /\ inserted' = Append(inserted, [id |-> id, doc |-> main.doc, place |-> "main"])
            /\ UNCHANGED <<main, messages, tail, excused>>
         \/ /\ main.open /\ main.ready # None
            /\ tail' = Append(tail, item)
            /\ UNCHANGED <<main, messages, inserted, excused>>
         \/ /\ main.open /\ main.ready = None
            /\ Does(then, {})
            /\ UNCHANGED <<inserted, tail>>
      /\ used' = [Spent(main') EXCEPT !.events = @ + 1]
      /\ UNCHANGED <<windowVars, popout, told>>

\* Another document is shown: what waits for the old one is dropped, the listeners are new.
Another(m) == [Forget(m) EXCEPT !.doc = @ + 1, !.ready = None, !.pending = {}, !.listens = FALSE]
SwitchDocument ==
  /\ Event
  /\ main' = Another(main)
  /\ UNCHANGED <<windowVars, popout, messages, tail, historyVars, excused>>

\* The listeners of the main window; insertions that wait for a known window are offered.
MainListens ==
  /\ ~main.listens
  /\ LET m == [main EXCEPT !.listens = TRUE]
     IN  Does(IF m.pending # {} /\ m.expected # None THEN StartHandshake(m, m.expected)
              ELSE [m |-> m, sent |-> {}], {})
  /\ used' = Spent(main')
  /\ UNCHANGED <<windowVars, popout, tail, historyVars>>

\* A handshake whose emission fails waits for its timer as well.
HandshakeIsLost ==
  /\ Event
  /\ \E e \in messages : e.kind = "handshake" /\ messages' = messages \ {e}
  /\ UNCHANGED <<windowVars, main, popout, tail, historyVars, excused>>
\* isHandshakeCurrent
IsCurrent(h) == main.open /\ h.doc = main.doc /\ h.inst = main.expected
\* The timer of a handshake: another attempt, or the insertions stay and the user is told.
HandshakeTimer ==
  /\ main.handshake # None
  /\ LET h == main.handshake
     IN  \/ /\ ~IsCurrent(h) /\ main' = [main EXCEPT !.handshake = None] /\ UNCHANGED <<told, messages>>
         \/ /\ IsCurrent(h) /\ h.attempt < Attempts
            /\ main' = [main EXCEPT !.handshake.attempt = @ + 1]
            /\ messages' = Sent(Offer(h)) /\ UNCHANGED told
         \/ /\ IsCurrent(h) /\ h.attempt >= Attempts
            /\ main' = [main EXCEPT !.handshake = None] /\ told' = told \cup main.pending
            /\ UNCHANGED messages
  /\ UNCHANGED <<windowVars, popout, tail, asked, inserted, excused, used>>

\* handleMediaInsertionReady: the window that is expected, and the answer that was asked for.
HandleReady(msg) ==
  /\ msg.kind = "ready" /\ msg \in messages
  /\ LET accepted == /\ msg.doc = main.doc /\ main.open
                     /\ main.expected \in {None, msg.inst}
                     /\ main.request \in {None, msg.request}
         m == [main EXCEPT !.expected = msg.inst, !.request = None]
     IN  \/ accepted /\ Does(StartHandshake(m, msg.inst), {msg}) /\ used' = Spent(main')
         \/ /\ ~accepted \/ ~main.listens
            /\ messages' = messages \ {msg}
            /\ excused' = [excused EXCEPT !.requests = @ \cup ({msg.request} \ {None})]
            /\ UNCHANGED <<main, used>>
  /\ UNCHANGED <<windowVars, popout, tail, historyVars>>

\* handleMediaInsertionHandshakeAck: the window is ready, and gets what waited for it.
HandleAck(msg) ==
  /\ msg.kind = "ack" /\ msg \in messages /\ messages' = messages \ {msg}
  /\ LET h == main.handshake
         accepted == h # None /\ IsCurrent(h) /\ msg.id = h.id /\ msg.doc = h.doc /\ msg.inst = h.inst
         ids == SetToSortSeq(main.pending, <)
         item(id) == [id |-> id, doc |-> main.doc, inst |-> msg.inst, generation |-> main.generation]
     IN  \/ /\ accepted
            /\ main' = [main EXCEPT !.handshake = None, !.ready = [doc |-> msg.doc, inst |-> msg.inst],
                                    !.pending = {}]
            /\ tail' = tail \o [i \in DOMAIN ids |-> item(ids[i])]
         \/ (~accepted \/ ~main.listens) /\ UNCHANGED <<main, tail>>
  /\ UNCHANGED <<windowVars, popout, historyVars, excused, used>>

\* sendCursorInsertionToEditorPopout: one after the other, and only while nothing has changed.
SendInsertion ==
  /\ tail # <<>> /\ \A msg \in messages : msg.kind # "insertion"
  /\ tail' = Tail(tail)
  /\ LET item == Head(tail)
         current == item.generation = main.generation /\ main.open
     IN  \/ /\ current /\ UNCHANGED <<told, used>>
            /\ messages' = Sent({[kind |-> "insertion", doc |-> item.doc, inst |-> item.inst, id |-> item.id]})
         \/ current /\ Event /\ told' = told \cup {item.id} /\ UNCHANGED messages
         \/ ~current /\ UNCHANGED <<told, used, messages>>
  /\ UNCHANGED <<windowVars, main, popout, asked, inserted, excused>>
-----------------------------------------------------------------------------
\* The pop-out is sent the document, or something else its listeners depend on changes.
PopoutShows ==
  /\ window # None
  /\ \/ popout.doc # main.doc /\ UNCHANGED used
        /\ popout' = [NoPopout EXCEPT !.doc = main.doc]
     \/ popout.doc = main.doc /\ popout.listens /\ Event
        /\ popout' = [popout EXCEPT !.listens = FALSE, !.heard = FALSE]
  /\ UNCHANGED <<windowVars, main, messages, tail, historyVars, excused>>

\* It listens, and announces itself unless a handshake has come before; emitToWithRetry may fail.
Announce(request) == [kind |-> "ready", doc |-> popout.doc, inst |-> window, request |-> request]
PopoutListens ==
  /\ popout.doc # 0 /\ ~popout.listens
  /\ popout' = [popout EXCEPT !.listens = TRUE]
  /\ \/ popout.heard /\ UNCHANGED <<messages, used>>
     \/ ~popout.heard /\ messages' = messages \cup {Announce(None)} /\ UNCHANGED used
     \/ ~popout.heard /\ Event /\ UNCHANGED messages
  /\ UNCHANGED <<windowVars, main, tail, historyVars, excused>>

\* An event reaches a listener of the pop-out, which may be registered before the others.
Arrives(msg, kind) == msg.kind = kind /\ msg \in messages
Heard(msg) == msg.doc = popout.doc
Deaf == ~popout.listens

HandleRequest(msg) ==
  /\ Arrives(msg, "request")
  /\ \/ Heard(msg) /\ messages' = (messages \ {msg}) \cup {Announce(msg.id)} /\ UNCHANGED <<excused, used>>
     \/ /\ messages' = messages \ {msg}
        /\ excused' = [excused EXCEPT !.requests = @ \cup {msg.id}]
        /\ \/ Heard(msg) /\ Event
           \/ (~Heard(msg) \/ Deaf) /\ UNCHANGED used
  /\ UNCHANGED <<windowVars, main, popout, tail, historyVars>>

HandleHandshake(msg) ==
  /\ Arrives(msg, "handshake")
  /\ LET mine == Heard(msg) /\ msg.inst = window
     IN  \/ /\ mine /\ popout' = [popout EXCEPT !.heard = TRUE]
            /\ \/ messages' = (messages \ {msg}) \cup {[msg EXCEPT !.kind = "ack"]} /\ UNCHANGED used
               \/ messages' = messages \ {msg} /\ Event
         \/ (~mine \/ Deaf) /\ messages' = messages \ {msg} /\ UNCHANGED <<popout, used>>
  /\ UNCHANGED <<windowVars, main, tail, historyVars, excused>>

\* Each insertion once; it takes the place of one that was not rendered yet.
HandleInsertion(msg) ==
  /\ Arrives(msg, "insertion") /\ messages' = messages \ {msg}
  /\ LET mine == Heard(msg) /\ msg.inst = window
     IN  \/ /\ mine /\ msg.id > popout.high
            /\ popout' = [popout EXCEPT !.high = msg.id, !.media = msg.id]
            /\ excused' = [excused EXCEPT !.ids = @ \cup ({popout.media} \ {0})]
         \/ /\ mine /\ Deaf /\ UNCHANGED popout
            /\ excused' = [excused EXCEPT !.ids = @ \cup {msg.id}]
         \/ ~(mine /\ msg.id > popout.high) /\ UNCHANGED <<popout, excused>>
  /\ UNCHANGED <<windowVars, main, tail, historyVars, used>>

\* EditorPane's effect.
RenderInsertion ==
  /\ popout.media # 0
  /\ popout' = [popout EXCEPT !.media = 0]
  /\ inserted' = Append(inserted, [id |-> popout.media, doc |-> popout.doc, place |-> "popout"])
  /\ UNCHANGED <<windowVars, main, messages, tail, asked, told, excused, used>>
-----------------------------------------------------------------------------
Next ==
  \/ TrackLooks \/ TrackAnswers \/ Destroyed \/ OpenClicked \/ Lookup \/ Opened
  \/ OpenFails \/ Close \/ Insert \/ SwitchDocument \/ MainListens \/ HandshakeIsLost \/ HandshakeTimer
  \/ SendInsertion \/ PopoutShows \/ PopoutListens \/ RenderInsertion
  \/ \E msg \in messages :
       \/ HandleReady(msg) \/ HandleAck(msg) \/ HandleRequest(msg) \/ HandleHandshake(msg)
       \/ HandleInsertion(msg)
Spec == Init /\ [][Next]_vars
-----------------------------------------------------------------------------
\* Every variable has its type; what waits was asked for, and only the running document's.
TypeOK ==
  /\ window \in {None} \cup Nat /\ flag \in BOOLEAN /\ ended \in Nat
  /\ open = None \/ open.at \in {"lookup", "existing", "created"}
  /\ main.pending \subseteq DOMAIN asked /\ told \cup excused.ids \subseteq DOMAIN asked
  /\ main.ready # None => main.ready.doc = main.doc
  /\ \A msg \in messages : msg.kind \in {"request", "ready", "handshake", "ack", "insertion"}

Quiet ==
  /\ messages = {} /\ tail = <<>> /\ open = None /\ ended = 0 /\ tracking.at = "done"
  /\ main.listens /\ main.handshake = None
  /\ window # None => popout.doc = main.doc /\ popout.listens /\ popout.media = 0

\* Once all is quiet, the main window takes the pop-out for open if and only if it is, unless
\* the window ended, or another opened, while an open or the first look had yet to report
\* (usePanePopouts, PanePopoutController).
FlagShowsWindow == Quiet => flag = (window # None) \/ excused.flag

\* An insertion is made once, in the order they were asked for, and in the document it was
\* meant for, whichever window makes it (handleMediaInsertion, handleWorkspaceAssetInsert).
InsertedOnce ==
  \A j \in DOMAIN inserted :
    /\ inserted[j].doc = asked[inserted[j].id].doc
    /\ \A i \in 1 .. j - 1 :
         /\ inserted[i].id # inserted[j].id
         /\ inserted[i].place = inserted[j].place => inserted[i].id < inserted[j].id

\* Once all is quiet, an insertion that the window and the document have outlived was made, or
\* its failure was shown. It is lost in three ways: the pop-out was changing its listeners
\* when it came, another came before it was rendered, or the request for the window's
\* identity was missed and nothing repeats it (App.tsx).
InsertionsArrive ==
  Quiet => \A id \in DOMAIN asked :
    \/ asked[id].generation # main.generation \/ id \in told \/ id \in excused.ids \/ excused.flag
    \/ main.request \in excused.requests
    \/ \E i \in DOMAIN inserted : inserted[i].id = id
=============================================================================
