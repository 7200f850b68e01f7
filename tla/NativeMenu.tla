----------------------------- MODULE NativeMenu -----------------------------
(* The native menu and the preferences it shows. The program keeps a copy of   *)
(* what the menu shows (native_menu.rs, state.rs) and installs a whole new     *)
(* menu from it; its commands run one at a time on the main thread             *)
(* (commands.rs). The theme and the locale are kept by the main window         *)
(* (themeRuntime.ts, localeRuntime.ts, alike: one preference here), which      *)
(* stores a change, projects it to the menu and tells the other windows, who   *)
(* hear of it twice: from the storage and from the snapshot.                   *)
EXTENDS Integers, Sequences

CONSTANTS Windows,   \* the other windows
          Prefs,     \* the preferences
          Default,   \* the one the program starts with
          Lists,     \* the lists of recent files
          Shortcuts, \* the shortcuts a settings file may have
          MaxOps,    \* bound: changes
          MaxFaults, \* bound: calls that fail
          None

VARIABLES native,    \* NativeMenuState
          menu,      \* what the installed menu shows
          recent,    \* the stored list of recent files
          stored,    \* the stored preference
          main,      \* the main window
          windows,   \* the other windows that are open
          told,      \* an error was shown since the menu was last installed
          ops, faults

vars == <<native, menu, recent, stored, main, windows, told, ops, faults>>

MenuConstants == Default \in Prefs /\ {MaxOps, MaxFaults} \subseteq Nat
-----------------------------------------------------------------------------
Shown == [pref : Prefs, save : BOOLEAN, recent : Lists, shortcuts : Shortcuts]
\* Save and Save As are two items of the menu, enabled from one field.
FileMenu(state) ==
  [save |-> state.save, saveAs |-> state.save, recent |-> state.recent, shortcuts |-> state.shortcuts]
ViewMenu(state) == state.pref
BuildMenu(state) == [file |-> FileMenu(state), view |-> ViewMenu(state)]

Spend == ops < MaxOps /\ ops' = ops + 1
Fault == faults < MaxFaults /\ faults' = faults + 1
Fine == UNCHANGED faults

\* The menu is replaced as a whole, or stays as it was and the error is told.
Refresh(state) ==
  /\ native' = state
  /\ \/ menu' = BuildMenu(state) /\ told' = FALSE /\ Fine
     \/ UNCHANGED menu /\ told' = TRUE /\ Fault

Message(pref, broadcast) == [pref |-> pref, broadcast |-> broadcast, sent |-> FALSE]
Window(pref) == [pref |-> pref, revision |-> 0, listens |-> FALSE, changes |-> <<>>, snapshots |-> <<>>]

Init ==
  \* Settings that cannot be read leave the shortcuts of the build.
  /\ recent \in Lists /\ stored \in Prefs
  /\ \E shortcuts \in Shortcuts :
       native = [pref |-> Default, save |-> FALSE, recent |-> recent, shortcuts |-> shortcuts]
  /\ menu = BuildMenu(native)
  /\ main = [at |-> "starting", first |-> stored, pref |-> stored, pending |-> <<>>, queue |-> <<>>,
             revision |-> 0, missed |-> FALSE, hears |-> FALSE, save |-> FALSE, saves |-> <<>>]
  /\ windows = [w \in Windows |-> None] /\ told = FALSE /\ ops = 0 /\ faults = 0

\* The main window registers for the menu's events and projects what it started with, then
\* what was chosen meanwhile.
Start ==
  /\ main.at = "starting"
  /\ \E hears \in BOOLEAN :
       /\ main' = [main EXCEPT !.at = "started", !.hears = hears, !.pending = <<>>,
                     !.queue = <<Message(main.first, FALSE)>> \o main.pending]
       /\ IF hears THEN Fine /\ UNCHANGED told ELSE Fault /\ told' = TRUE
  /\ UNCHANGED <<native, menu, recent, stored, windows, ops>>

Commit(pref) ==
  \/ /\ stored' = pref /\ Fine /\ UNCHANGED told
     /\ main' = [main EXCEPT
                   !.pref = pref,
                   !.pending = IF main.at = "starting" THEN Append(@, Message(pref, TRUE)) ELSE @,
                   !.queue = IF main.at = "starting" THEN @ ELSE Append(@, Message(pref, TRUE))]
     /\ windows' = [w \in Windows |->
          IF windows[w] = None \/ stored = pref THEN windows[w]
          ELSE [windows[w] EXCEPT !.changes = Append(@, pref)]]
  \/ Fault /\ told' = TRUE /\ UNCHANGED <<stored, main, windows>>

SetPreference(pref) == Spend /\ Commit(pref) /\ UNCHANGED <<native, menu, recent>>

\* An item of the menu turns its own mark when it is chosen; the main window hears of it
\* once it has registered.
HandleNativeMenu(pref) ==
  /\ Spend /\ menu' = [menu EXCEPT !.view = None] /\ UNCHANGED <<native, recent>>
  /\ IF main.hears THEN Commit(pref) ELSE Fine /\ UNCHANGED <<stored, main, windows, told>>

\* The head of the queue reaches the program, which answers; only then is it told to the
\* other windows, unless another was chosen meanwhile. A snapshot that cannot be sent is told.
SyncNativePreference ==
  /\ main.queue # <<>> /\ ~Head(main.queue).sent
  /\ Refresh([native EXCEPT !.pref = Head(main.queue).pref])
  /\ main' = [main EXCEPT !.queue[1].sent = TRUE]
  /\ UNCHANGED <<recent, stored, windows, ops>>

EmitSnapshot(pref, next) ==
  \/ /\ main' = [next EXCEPT !.missed = FALSE] /\ Fine /\ UNCHANGED told
     /\ windows' = [w \in Windows |->
          IF windows[w] = None THEN None
          ELSE IF ~windows[w].listens THEN windows[w]
          ELSE [windows[w] EXCEPT
                  !.snapshots = Append(@, [pref |-> pref, revision |-> next.revision])]]
  \/ main' = [next EXCEPT !.missed = TRUE] /\ Fault /\ told' = TRUE /\ UNCHANGED windows
Projected ==
  /\ main.queue # <<>> /\ Head(main.queue).sent
  /\ LET head == Head(main.queue)
     IN  IF head.broadcast /\ head.pref = main.pref
         THEN EmitSnapshot(head.pref, [main EXCEPT !.queue = Tail(@), !.revision = @ + 1])
         ELSE main' = [main EXCEPT !.queue = Tail(@)] /\ Fine /\ UNCHANGED <<windows, told>>
  /\ UNCHANGED <<native, menu, recent, stored, ops>>

\* Save is enabled or not as the document changes: one call after the other.
SaveMenuChanges ==
  /\ Spend /\ Fine
  /\ main' = [main EXCEPT !.save = ~@, !.saves = Append(@, ~main.save)]
  /\ UNCHANGED <<native, menu, recent, stored, windows, told>>
ApplySaveMenuEnabled(enabled) ==
  \/ menu' = [menu EXCEPT !.file.save = enabled, !.file.saveAs = enabled] /\ Fine /\ UNCHANGED told
  \/ Fault /\ told' = TRUE /\ menu' \in {menu, [menu EXCEPT !.file.save = enabled]}
SetSaveMenuEnabled ==
  /\ main.saves # <<>>
  /\ main' = [main EXCEPT !.saves = Tail(@)]
  /\ native' = [native EXCEPT !.save = Head(main.saves)]
  /\ ApplySaveMenuEnabled(Head(main.saves))
  /\ UNCHANGED <<recent, stored, windows, ops>>

\* The list of recent files has changed. A refresh that fails is tried once more with the
\* list as it is stored; the menu keeps the old one, and it is told, when that fails too.
RefreshRecentMenu(list) ==
  LET state == [native EXCEPT !.recent = list]
  IN  /\ native' = state
      /\ \/ menu' = BuildMenu(state) /\ told' = FALSE /\ faults' \in {faults, faults + 1}
         \/ UNCHANGED menu /\ told' = TRUE /\ faults' = faults + 2
      /\ faults' <= MaxFaults
ConvergeRecentMenu(list) ==
  /\ Spend /\ recent' = list
  /\ RefreshRecentMenu(list)
  /\ UNCHANGED <<stored, main, windows>>

\* Settings are stored first: the shortcuts may differ from the menu's until the next refresh.
SetShortcuts(shortcuts) ==
  /\ Spend /\ Refresh([native EXCEPT !.shortcuts = shortcuts])
  /\ UNCHANGED <<recent, stored, main, windows>>

\* A window starts with the stored preference, listens to the storage at once, and to
\* snapshots when it is registered.
OpenWindow(w) ==
  /\ windows[w] = None /\ Spend /\ Fine
  /\ windows' = [windows EXCEPT ![w] = Window(stored)]
  /\ UNCHANGED <<native, menu, recent, stored, main, told>>
InWindow(w, seen) ==
  /\ windows' = [windows EXCEPT ![w] = seen]
  /\ UNCHANGED <<native, menu, recent, stored, main, ops>>
RegisterThemeListener(w) ==
  /\ windows[w] # None /\ ~windows[w].listens /\ Fine /\ UNCHANGED told
  /\ InWindow(w, [windows[w] EXCEPT !.listens = TRUE])
HandleStorage(w) ==
  /\ windows[w] # None /\ windows[w].changes # <<>> /\ Fine /\ UNCHANGED told
  /\ InWindow(w, [windows[w] EXCEPT !.pref = Head(windows[w].changes), !.changes = Tail(@)])
IsNewer(snapshot, seen) == snapshot.revision > seen.revision
HandleThemeEvent(w) ==
  /\ windows[w] # None /\ windows[w].snapshots # <<>> /\ Fine /\ UNCHANGED told
  /\ LET snapshot == Head(windows[w].snapshots)
         rest == [windows[w] EXCEPT !.snapshots = Tail(@)]
     IN  InWindow(w, IF IsNewer(snapshot, rest)
                     THEN [rest EXCEPT !.pref = snapshot.pref, !.revision = snapshot.revision]
                     ELSE rest)

Next ==
  \/ Start \/ SyncNativePreference \/ Projected \/ SaveMenuChanges \/ SetSaveMenuEnabled
  \/ \E pref \in Prefs : SetPreference(pref) \/ HandleNativeMenu(pref)
  \/ \E list \in Lists : ConvergeRecentMenu(list)
  \/ \E shortcuts \in Shortcuts : SetShortcuts(shortcuts)
  \/ \E w \in Windows : OpenWindow(w) \/ RegisterThemeListener(w) \/ HandleStorage(w) \/ HandleThemeEvent(w)

Spec == Init /\ [][Next]_vars
-----------------------------------------------------------------------------
TypeOK ==
  /\ native \in Shown /\ menu.file.recent \in Lists /\ menu.view \in Prefs \cup {None}
  /\ stored \in Prefs /\ main.pref \in Prefs /\ ops \in 0..MaxOps /\ faults \in 0..MaxFaults

\* Once nothing is under way, the menu and every window show the preference the main window
\* has stored, the menu Save as the document needs it and the recent files as they are
\* stored, unless an error was shown since the menu was installed or the last snapshot sent,
\* or the main window could not register (set_native_theme_preference, converge_recent_menu).
Quiet ==
  /\ main.at = "started" /\ main.hears /\ main.queue = <<>> /\ main.saves = <<>>
  /\ \A w \in Windows : windows[w] # None => (windows[w].changes = <<>> /\ windows[w].snapshots = <<>>)
MenuShowsTheProgram ==
  Quiet =>
    /\ main.pref = stored
    /\ ~told => menu = BuildMenu([native EXCEPT !.pref = stored, !.save = main.save, !.recent = recent])
    /\ ~main.missed => \A w \in Windows : windows[w] # None => windows[w].pref = stored
=============================================================================
