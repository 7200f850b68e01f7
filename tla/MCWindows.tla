---------------------------- MODULE MCWindows ----------------------------
(* What the windows show and do, one component at a time: `focus` is the one   *)
(* that acts, and the variables of the others stay what they are.              *)
EXTENDS Naturals, Sequences, FiniteSets, TLC, DocumentSession

VARIABLES
  focus,  \* the component that acts
  \* SavedSettings
  file, menu, window, turn, inbox, used, rewound,
  \* NativeMenu
  native, menuMenu, recent, stored, main, windows, told, ops, faults,
  \* EditorPopout
  windowPopout, open, flag, tracking, ended, mainPopout, popout, messages, tail, asked, inserted,
  toldPopout, excused, usedPopout,
  \* PdfPreview
  jobs, current, shown, status, faultsPdf

SettingsWindows == {"main", "pop"}

\* The document session, where another component acts.
NoSession == Init

Settings == INSTANCE SavedSettings WITH
  Windows <- SettingsWindows, Main <- "main", Values <- {"default", "set"}, Default <- "default",
  Invalid <- "bad", MaxTrouble <- 1, MaxOps <- 2
settingsVars == <<file, menu, window, turn, inbox, used, rewound>>
NoSettings == file = 0 /\ menu = 0 /\ window = 0 /\ turn = 0 /\ inbox = 0 /\ used = 0 /\ rewound = 0

Menu == INSTANCE NativeMenu WITH
  Windows <- {"pop"}, Prefs <- {"dark", "light"}, Default <- "light", Lists <- {"few", "many"},
  Shortcuts <- {"usual"}, MaxOps <- 3, MaxFaults <- 2, menu <- menuMenu
menuVars == <<native, menuMenu, recent, stored, main, windows, told, ops, faults>>
NoMenu == native = 0 /\ menuMenu = 0 /\ recent = 0 /\ stored = 0 /\ main = 0 /\ windows = 0 /\ told = 0
    /\ ops = 0 /\ faults = 0

Popout == INSTANCE EditorPopout WITH
  Attempts <- 2, MaxEvents <- 3, window <- windowPopout, main <- mainPopout, told <- toldPopout,
  used <- usedPopout
popoutVars == <<windowPopout, open, flag, tracking, ended, mainPopout, popout, messages, tail, asked, inserted,
    toldPopout, excused, usedPopout>>
NoPopout == windowPopout = 0 /\ open = 0 /\ flag = 0 /\ tracking = 0 /\ ended = 0 /\ mainPopout = 0
    /\ popout = 0 /\ messages = 0 /\ tail = 0 /\ asked = 0 /\ inserted = 0 /\ toldPopout = 0
    /\ excused = 0 /\ usedPopout = 0

Pdf == INSTANCE PdfPreview WITH
  Size <- <<1, 1, 2, 1>>, Limit <- 3, MaxPages <- 3, Lanes <- 2, MaxRuns <- 2, MaxFaults <- 1,
  faults <- faultsPdf
pdfVars == <<jobs, current, shown, status, faultsPdf>>
NoPdf == jobs = 0 /\ current = 0 /\ shown = 0 /\ status = 0 /\ faultsPdf = 0

WindowsVars == <<focus, vars, settingsVars, menuVars, popoutVars, pdfVars>>

ASSUME MCWindowsConstants ==
  /\ Settings!SettingsConstants
  /\ Menu!MenuConstants
  /\ Popout!PopoutConstants
  /\ Pdf!PdfConstants

WindowsInit ==
  \/ focus = "Session" /\ Init /\ NoSettings /\ NoMenu /\ NoPopout /\ NoPdf
  \/ focus = "Settings" /\ Settings!Init /\ NoSession /\ NoMenu /\ NoPopout /\ NoPdf
  \/ focus = "Menu" /\ Menu!Init /\ NoSession /\ NoSettings /\ NoPopout /\ NoPdf
  \/ focus = "Popout" /\ Popout!Init /\ NoSession /\ NoSettings /\ NoMenu /\ NoPdf
  \/ focus = "Pdf" /\ Pdf!Init /\ NoSession /\ NoSettings /\ NoMenu /\ NoPopout

SessionDoes(A) == focus = "Session" /\ A /\ UNCHANGED <<focus, settingsVars, menuVars, popoutVars, pdfVars>>
SettingsDoes(A) == focus = "Settings" /\ A /\ UNCHANGED <<focus, vars, menuVars, popoutVars, pdfVars>>
MenuDoes(A) == focus = "Menu" /\ A /\ UNCHANGED <<focus, vars, settingsVars, popoutVars, pdfVars>>
PopoutDoes(A) == focus = "Popout" /\ A /\ UNCHANGED <<focus, vars, settingsVars, menuVars, pdfVars>>
PdfDoes(A) == focus = "Pdf" /\ A /\ UNCHANGED <<focus, vars, settingsVars, menuVars, popoutVars>>

WindowsNext ==
  \/ SessionDoes(Type)
  \/ SessionDoes(Save)
  \/ SessionDoes(SaveAs)
  \/ SessionDoes(New)
  \/ SessionDoes(Open)
  \/ SessionDoes(Overwrite)
  \/ SessionDoes(CancelConflict)
  \/ SessionDoes(Resolve)
  \/ SessionDoes(CloseDeletedDraft)
  \/ SessionDoes(RunSave)
  \/ SessionDoes(RunDialog)
  \/ SessionDoes(RunIssue)
  \/ SessionDoes(RunSaveAs)
  \/ SessionDoes(RunOverwriteLate)
  \/ SessionDoes(RunOverwriteIssue)
  \/ SessionDoes(RunOverwrite)
  \/ SessionDoes(RunResolve)
  \/ SessionDoes(RunOpen)
  \/ SessionDoes(ApplySave)
  \/ SessionDoes(ApplySaveAs)
  \/ SessionDoes(ApplyOverwrite)
  \/ SessionDoes(ApplyOpen)
  \/ SessionDoes(ApplyEvent)
  \/ SessionDoes(ApplyRegister)
  \/ SessionDoes(ApplyResolve)
  \/ SessionDoes(WatchRuns)
  \/ SessionDoes(Deliver)
  \/ SessionDoes(Rewatch)
  \/ SessionDoes(Foreign)
  \/ SessionDoes(OtherCommand)
  \/ SessionDoes(TokenExpires)
  \/ SettingsDoes(\E w \in SettingsWindows : Settings!Begin(w))
  \/ SettingsDoes(\E w \in SettingsWindows : Settings!Settled(w))
  \/ SettingsDoes(\E w \in SettingsWindows : Settings!Heard(w))
  \/ SettingsDoes(\E w \in SettingsWindows : Settings!Listening(w))
  \/ SettingsDoes(\E w \in SettingsWindows : Settings!ListenFails(w))
  \/ SettingsDoes(\E w \in SettingsWindows : Settings!Saves(w))
  \/ SettingsDoes(\E w \in SettingsWindows : Settings!Resets(w))
  \/ SettingsDoes(\E w \in SettingsWindows : Settings!Retries(w))
  \/ SettingsDoes(\E w \in SettingsWindows : Settings!Opens(w))
  \/ SettingsDoes(\E w \in SettingsWindows : Settings!Closes(w))
  \/ SettingsDoes(Settings!Refused)
  \/ SettingsDoes(Settings!Persist)
  \/ SettingsDoes(Settings!PersistConflicts)
  \/ SettingsDoes(\E b \in BOOLEAN : Settings!PersistFails(b))
  \/ SettingsDoes(\E b \in BOOLEAN : Settings!TellingFails(b))
  \/ SettingsDoes(Settings!Foreign)
  \/ MenuDoes(Menu!Start)
  \/ MenuDoes(Menu!SyncNativePreference)
  \/ MenuDoes(Menu!Projected)
  \/ MenuDoes(Menu!SaveMenuChanges)
  \/ MenuDoes(Menu!SetSaveMenuEnabled)
  \/ MenuDoes(\E p \in {"dark", "light"} : Menu!SetPreference(p))
  \/ MenuDoes(\E p \in {"dark", "light"} : Menu!HandleNativeMenu(p))
  \/ MenuDoes(\E l \in {"few", "many"} : Menu!ConvergeRecentMenu(l))
  \/ MenuDoes(Menu!SetShortcuts("usual"))
  \/ MenuDoes(Menu!OpenWindow("pop"))
  \/ MenuDoes(Menu!RegisterThemeListener("pop"))
  \/ MenuDoes(Menu!HandleStorage("pop"))
  \/ MenuDoes(Menu!HandleThemeEvent("pop"))
  \/ PopoutDoes(Popout!TrackLooks)
  \/ PopoutDoes(Popout!TrackAnswers)
  \/ PopoutDoes(Popout!Destroyed)
  \/ PopoutDoes(Popout!OpenClicked)
  \/ PopoutDoes(Popout!Lookup)
  \/ PopoutDoes(Popout!Opened)
  \/ PopoutDoes(Popout!OpenFails)
  \/ PopoutDoes(Popout!Close)
  \/ PopoutDoes(Popout!Insert)
  \/ PopoutDoes(Popout!SwitchDocument)
  \/ PopoutDoes(Popout!MainListens)
  \/ PopoutDoes(Popout!HandshakeIsLost)
  \/ PopoutDoes(Popout!HandshakeTimer)
  \/ PopoutDoes(Popout!SendInsertion)
  \/ PopoutDoes(Popout!PopoutShows)
  \/ PopoutDoes(Popout!PopoutListens)
  \/ PopoutDoes(Popout!RenderInsertion)
  \/ PopoutDoes(\E e \in messages : Popout!HandleReady(e))
  \/ PopoutDoes(\E e \in messages : Popout!HandleAck(e))
  \/ PopoutDoes(\E e \in messages : Popout!HandleRequest(e))
  \/ PopoutDoes(\E e \in messages : Popout!HandleHandshake(e))
  \/ PopoutDoes(\E e \in messages : Popout!HandleInsertion(e))
  \/ PdfDoes(Pdf!Render)
  \/ PdfDoes(\E r \in DOMAIN jobs : Pdf!Parse(r))
  \/ PdfDoes(\E r \in DOMAIN jobs : Pdf!Dispose(r))
  \/ PdfDoes(\E r \in DOMAIN jobs : Pdf!Done(r))
  \/ PdfDoes(\E r \in DOMAIN jobs, l \in 1 .. 2 : Pdf!Fetch(r, l))
  \/ PdfDoes(\E r \in DOMAIN jobs, l \in 1 .. 2 : Pdf!Draw(r, l))

WindowsSpec == WindowsInit /\ [][WindowsNext]_WindowsVars

Sym == Permutations(Paths) \cup Permutations(Texts \ {Blank})

\* Every variable has its type, and no table more entries than it may.
WindowsTypeOK ==
  /\ TypeOK
  /\ focus = "Settings" => Settings!TypeOK
  /\ focus = "Menu" => Menu!TypeOK
  /\ focus = "Popout" => Popout!TypeOK
  /\ focus = "Pdf" => Pdf!TypeOK

\* What an update of the settings replaces is what the dialog was opened with
\* (SettingsStore::update).
UpdatesRestOnSeen == [][focus = "Settings" => Settings!UpdatesRestOnSeen]_WindowsVars

\* Once all is quiet, the windows show the settings that are stored, the menu and the windows
\* the theme and the files that are, the main window takes the pop-out for what it is, and
\* what was inserted through it is in its document, once; a PDF shows its own pages
\* (useSettings.ts, commands.rs, usePanePopouts.ts, App.tsx, pdfPreviewRuntime.ts).
WindowsAgree ==
  /\ focus = "Settings" => Settings!WindowsShowTheFile
  /\ focus = "Menu" => Menu!MenuShowsTheProgram
  /\ focus = "Popout" => Popout!FlagShowsWindow /\ Popout!InsertionsArrive /\ Popout!InsertedOnce
  /\ focus = "Pdf" => Pdf!PagesAreCurrent
=============================================================================
