---------------------------- MODULE SavedSettings ----------------------------
(***************************************************************************)
(* The settings file and the windows that show it: the store of            *)
(* settings.rs (load_or_create, update, reset under one lock, written with *)
(* the version seen before), the commands around it (commands.rs), the     *)
(* shortcuts of the native menu (state.rs, native_menu.rs) and the hook    *)
(* every window runs (useSettings.ts).  A command is synchronous: one runs *)
(* at a time, in steps between which another program may replace the file. *)
(* Events and answers reach a window later, in any order.                  *)
(***************************************************************************)
EXTENDS Naturals, FiniteSets

CONSTANTS Windows,    \* the windows of the application
          Main,       \* the window that is open from the start
          Values,     \* settings that validate_settings accepts
          Default,    \* Settings::default
          Invalid,    \* settings that validate_settings refuses
          None,
          MaxTrouble, \* bound on the steps that fail and the writes of other programs
          MaxOps      \* bound on these and on the commands the windows send

SettingsConstants == /\ Main \in Windows /\ Default \in Values
                     /\ Invalid \notin Values /\ None \notin Windows \cup Values

VARIABLES file,    \* settings.json: its kind, what it holds, which write made it
          menu,    \* the shortcuts kept for the menu, and those it shows
          window,  \* what the hook of each window holds
          turn,    \* the command that runs, with the file it observed
          inbox,   \* events on their way to each window
          used,    \* commands, failed steps and foreign writes so far
          rewound  \* a revision was used again after another program's write (history)

vars == <<file, menu, window, turn, inbox, used, rewound>>

Unreadable == {"malformed", "oversized", "future"}
Kinds == {"absent", "current", "old"} \cup Unreadable
Refusals == Unreadable \cup {"conflict", "invalid", "persistence"}

Envelope(rev, value) == [rev |-> rev, value |-> value]
File(kind, rev, value, stamp) == [kind |-> kind, rev |-> rev, value |-> value, stamp |-> stamp]
Call(op, rev, value) == [op |-> op, rev |-> rev, value |-> value]
Load == Call("load", None, None)

Spent == used.ops + used.faults + used.foreign
Trouble == used.faults + used.foreign < MaxTrouble /\ Spent < MaxOps

\* What a command decides from the file it observed.
Answer(e) == [then |-> "answer", envelope |-> e, error |-> None]
Write(rev, value) == [then |-> "write", envelope |-> Envelope(rev, value), error |-> None]
Refuse(kind) == [then |-> "refuse", envelope |-> None, error |-> kind]

Unopened == [open |-> FALSE, listening |-> FALSE, rev |-> None, value |-> None,
             call |-> None, reply |-> None, recovery |-> None, sure |-> FALSE]
Opened == [Unopened EXCEPT !.open = TRUE, !.call = Load]

Init == /\ \E kind \in Kinds, v \in Values :
             /\ file = File(kind, IF kind = "current" THEN 1 ELSE None,
                            IF kind \in {"current", "old"} THEN v ELSE None, 0)
             /\ menu = [held |-> Default, shown |-> Default]
        /\ window = [w \in Windows |-> IF w = Main THEN Opened ELSE Unopened]
        /\ turn = None
        /\ inbox = [w \in Windows |-> {}]
        /\ used = [ops |-> 0, faults |-> 0, foreign |-> 0]
        /\ rewound = FALSE

(***************************************************************************)
(* settings.rs: what load_or_create, update and reset do with what they    *)
(* observe.  A file that is too large fails to be observed, whoever asks.  *)
(***************************************************************************)
Held(seen) == IF seen.kind = "current" THEN Envelope(seen.rev, seen.value)
              ELSE Envelope(1, seen.value)

LoadOrCreate(seen) ==
  CASE seen.kind = "current" -> Answer(Held(seen))
    [] seen.kind = "old"     -> Write(1, seen.value)
    [] seen.kind = "absent"  -> Write(1, Default)
    [] OTHER                 -> Refuse(seen.kind)

\* validate_settings, refused before the file is looked at: a field out of its range, a
\* resource folder that leaves its place, shortcuts that are not known or not distinct.
Valid(value) == value \in Values

\* A mutant: the revision of the window that saves is not compared.
UpdateUnchecked(seen, rev, value) ==
  LET current == IF seen.kind = "absent" THEN 0 ELSE Held(seen).rev IN
  CASE ~Valid(value)              -> Refuse("invalid")
    [] seen.kind \in Unreadable   -> Refuse(seen.kind)
    [] OTHER                      -> Write(current + 1, value)

Update(seen, rev, value) ==
  LET current == IF seen.kind = "absent" THEN 0 ELSE Held(seen).rev IN
  CASE ~Valid(value)              -> Refuse("invalid")
    [] seen.kind \in Unreadable   -> Refuse(seen.kind)
    [] rev # current              -> Refuse("conflict")
    [] OTHER                      -> Write(current + 1, value)

Reset(seen, rev) ==
  CASE seen.kind \in {"oversized", "future"} -> Refuse(seen.kind)
    [] seen.kind = "absent" -> IF rev \in {None, 0} THEN Write(1, Default) ELSE Refuse("conflict")
    [] seen.kind = "malformed" -> IF rev = None THEN Write(1, Default) ELSE Refuse("conflict")
    [] OTHER -> IF rev = Held(seen).rev THEN Write(rev + 1, Default) ELSE Refuse("conflict")

Decide(call, seen) ==
  CASE call.op = "load"   -> LoadOrCreate(seen)
    [] call.op = "update" -> Update(seen, call.rev, call.value)
    [] call.op = "reset"  -> Reset(seen, call.rev)

\* The error's can_reset, as projectSettingsError passes it on.
CanReset(error) == error \in {"malformed", "oversized", "invalid", "recoverable"}

(***************************************************************************)
(* The command a window sent: it takes the lock and observes the file,     *)
(* then answers, or writes where the file is still the one it observed.    *)
(***************************************************************************)
Begin(w) ==
  /\ turn = None /\ window[w].call # None
  /\ turn' = [window |-> w, call |-> window[w].call, seen |-> file]
  /\ window' = [window EXCEPT ![w].call = None, ![w].sure = window[w].listening]
  /\ UNCHANGED <<file, menu, inbox, used, rewound>>

Replied(w, envelope, error) ==
  [window EXCEPT ![w].reply = [op |-> turn.call.op, envelope |-> envelope, error |-> error]]

Refused ==
  /\ turn # None
  /\ LET d == Decide(turn.call, turn.seen) IN
       /\ d.then # "write"
       /\ window' = Replied(turn.window, d.envelope, d.error)
  /\ turn' = None
  /\ UNCHANGED <<file, menu, inbox, used, rewound>>

\* Only these two commands tell the menu and the windows.
Tells == turn.call.op # "load"
Committed(e) ==
  /\ file' = File("current", e.rev, e.value, file.stamp + 1)
  /\ rewound' = (rewound \/ (e.rev = 1 /\ file.stamp > 0))

Persist ==
  /\ turn # None /\ turn.seen = file
  /\ LET d == Decide(turn.call, turn.seen) IN
       /\ d.then = "write"
       /\ Committed(d.envelope)
       /\ menu' = IF Tells THEN [held |-> d.envelope.value, shown |-> d.envelope.value] ELSE menu
       /\ inbox' = [w \in Windows |->
            IF Tells /\ window[w].listening THEN inbox[w] \cup {d.envelope} ELSE inbox[w]]
       /\ window' = Replied(turn.window, d.envelope, None)
  /\ turn' = None
  /\ UNCHANGED used

\* Another program replaced the file since it was observed.
PersistConflicts ==
  /\ turn # None /\ turn.seen # file
  /\ Decide(turn.call, turn.seen).then = "write"
  /\ window' = Replied(turn.window, None, "conflict")
  /\ turn' = None
  /\ UNCHANGED <<file, menu, inbox, used, rewound>>

\* The storage cannot be prepared, the write fails, or its outcome is not known
\* (written or not), or the file is written and cannot be made private.
PersistFails(written) ==
  /\ turn # None /\ Trouble
  /\ LET d == Decide(turn.call, turn.seen) IN
       /\ d.then = "write" /\ (written => turn.seen = file)
       /\ IF written THEN Committed(d.envelope) ELSE UNCHANGED <<file, rewound>>
  /\ window' = Replied(turn.window, None, "persistence")
  /\ turn' = None
  /\ used' = [used EXCEPT !.faults = @ + 1]
  /\ UNCHANGED <<menu, inbox>>

\* The file is written, but the menu cannot be rebuilt or the event not sent.
TellingFails(shown) ==
  /\ turn # None /\ turn.seen = file /\ Tells /\ Trouble
  /\ LET d == Decide(turn.call, turn.seen) IN
       /\ d.then = "write"
       /\ Committed(d.envelope)
       /\ menu' = [held |-> d.envelope.value, shown |-> IF shown THEN d.envelope.value ELSE menu.shown]
  /\ window' = Replied(turn.window, None, "persistence")
  /\ turn' = None
  /\ used' = [used EXCEPT !.faults = @ + 1]
  /\ UNCHANGED inbox

(***************************************************************************)
(* useSettings.ts                                                          *)
(***************************************************************************)
\* applyEnvelope: a revision that is not newer changes nothing at all.
Apply(s, e) ==
  IF s.rev # None /\ e.rev <= s.rev THEN s
  ELSE [s EXCEPT !.rev = e.rev, !.value = e.value, !.recovery = None]

Recovery(error) == [kind |-> error, canReset |-> CanReset(error)]

\* A command's answer: applied, and what was written is sent to every window.
Settled(w) ==
  /\ window[w].reply # None
  /\ LET r == window[w].reply
         s == [window[w] EXCEPT !.reply = None]
     IN IF r.error = None
        THEN /\ window' = [window EXCEPT ![w] = Apply(s, r.envelope)]
             /\ inbox' = [v \in Windows |-> IF r.op # "load" /\ window[v].listening
                                            THEN inbox[v] \cup {r.envelope} ELSE inbox[v]]
        ELSE /\ window' = [window EXCEPT ![w] = [s EXCEPT !.recovery = Recovery(r.error)]]
             /\ UNCHANGED inbox
  /\ UNCHANGED <<file, menu, turn, used, rewound>>

Heard(w) ==
  /\ \E e \in inbox[w] :
       /\ inbox' = [inbox EXCEPT ![w] = @ \ {e}]
       /\ window' = [window EXCEPT ![w] = Apply(@, e)]
  /\ UNCHANGED <<file, menu, turn, used, rewound>>

\* The listener of a window is registered; its first load may be sent before.
Listening(w) ==
  /\ window[w].open /\ ~window[w].listening
  /\ window' = [window EXCEPT ![w].listening = TRUE]
  /\ UNCHANGED <<file, menu, turn, inbox, used, rewound>>

ListenFails(w) ==
  /\ window[w].open /\ ~window[w].listening /\ Trouble
  /\ window' = [window EXCEPT ![w].recovery = Recovery("recoverable")]
  /\ used' = [used EXCEPT !.faults = @ + 1]
  /\ UNCHANGED <<file, menu, turn, inbox, rewound>>

Busy(w) == window[w].call # None \/ window[w].reply # None \/ (turn # None /\ turn.window = w)

Ask(w, call) ==
  /\ window[w].open /\ ~Busy(w) /\ Spent < MaxOps
  /\ window' = [window EXCEPT ![w].call = call]
  /\ used' = [used EXCEPT !.ops = @ + 1]
  /\ UNCHANGED <<file, menu, turn, inbox, rewound>>

\* The dialog's buttons: while there is something to recover from, nothing else.
Saves(w) == /\ window[w].recovery = None /\ window[w].rev # None
            /\ \E v \in (Values \cup {Invalid}) \ {window[w].value} :
                 Ask(w, Call("update", window[w].rev, v))
Resets(w) == /\ IF window[w].recovery = None THEN window[w].rev # None
                ELSE window[w].recovery.canReset
             /\ Ask(w, Call("reset", window[w].rev, None))
Retries(w) == window[w].recovery # None /\ Ask(w, Load)

Opens(w) == /\ ~window[w].open
            /\ window' = [window EXCEPT ![w] = Opened]
            /\ UNCHANGED <<file, menu, turn, inbox, used, rewound>>
Closes(w) == /\ w # Main /\ window[w].open /\ ~Busy(w)
             /\ window' = [window EXCEPT ![w] = Unopened]
             /\ inbox' = [inbox EXCEPT ![w] = {}]
             /\ UNCHANGED <<file, menu, turn, used, rewound>>

\* Another program writes, restores or removes the file, at any time.
Foreign ==
  /\ Trouble
  /\ \E kind \in Kinds \ {"old"}, rev \in 1 .. 2, v \in Values :
       LET f == File(kind, IF kind = "current" THEN rev ELSE None,
                     IF kind = "current" THEN v ELSE None, file.stamp + 1)
       IN /\ file' = f
          /\ rewound' = (rewound \/ kind = "current")
  /\ used' = [used EXCEPT !.foreign = @ + 1]
  /\ UNCHANGED <<menu, window, turn, inbox>>

Next == \/ \E w \in Windows : \/ Begin(w) \/ Settled(w) \/ Heard(w)
                              \/ Listening(w) \/ ListenFails(w)
                              \/ Saves(w) \/ Resets(w) \/ Retries(w)
                              \/ Opens(w) \/ Closes(w)
        \/ Refused \/ Persist \/ PersistConflicts
        \/ \E b \in BOOLEAN : PersistFails(b) \/ TellingFails(b)
        \/ Foreign

Spec == Init /\ [][Next]_vars

-----------------------------------------------------------------------------
\* Every variable has its type; a command that runs is the only one its window has.
Envelopes == [rev : Nat \ {0}, value : Values]
TypeOK ==
  /\ file.kind \in Kinds /\ file.stamp \in Nat
  /\ file.kind = "current" => Envelope(file.rev, file.value) \in Envelopes
  /\ menu \in [held : Values, shown : Values]
  /\ \A w \in Windows :
       /\ window[w].rev # None => Envelope(window[w].rev, window[w].value) \in Envelopes
       /\ ~(window[w].call # None /\ window[w].reply # None)
       /\ inbox[w] \subseteq Envelopes
       /\ window[w].reply # None => \/ window[w].reply.envelope \in Envelopes
                                    \/ window[w].reply.error \in Refusals
  /\ turn # None => turn.window \in Windows /\ window[turn.window].reply = None

\* A window that saves or resets replaces the settings it showed when it asked, and
\* no others (update, reset: the revision it knows, and the version it observed),
\* as long as the revisions have not begun again.
UpdatesRestOnSeen ==
  (turn # None /\ Tells /\ file'.stamp # file.stamp /\ turn' = None /\ ~rewound'
         /\ turn.call.rev # None)
        => (file.kind = "current" => window[turn.window].value = file.value)

\* Once every message has arrived, the windows that were listening when their last
\* command ran show the file, unless they show a failure (applyEnvelope, publish).
Quiet == turn = None /\ \A w \in Windows : ~Busy(w) /\ inbox[w] = {}
WindowsShowTheFile ==
  (Quiet /\ ~rewound /\ used.faults = 0 /\ used.foreign = 0) =>
    \A w \in Windows : window[w].sure /\ window[w].rev # None /\ window[w].recovery = None =>
      window[w].value = file.value /\ window[w].rev = file.rev

\* A retry that reads the settings ends the recovery (useSettings.test.tsx:90).
RetriesEndRecovery ==
  [][ \A w \in Windows :
        (window[w].reply # None /\ window[w].reply.op = "load" /\ window[w].reply.error = None
          /\ window'[w].reply = None) => window'[w].recovery = None ]_vars
=============================================================================
