---------------------------- MODULE MCRestarts ----------------------------
(* What mmd keeps from one run to the next and takes up when it starts: the      *)
(* drafts of documents that were not saved, the requests to open something, the  *)
(* session.  One of them at a time: `focus` is the component that acts, and the  *)
(* variables of the others stay what they are.                                   *)
EXTENDS Naturals, Sequences, FiniteSets, TLC, SavedSession

CONSTANTS d1, d2, d3

VARIABLES
  focus,  \* the component that acts
  \* DraftWindow
  dir, leftovers, startup, serial, reply, faults, sched, active, doc, typed, task,
  seeded, told, settledDrafts, ahead, runs,
  \* OpenIntents
  queueIntents, nextId, listening, poll, activeIntents, waiting, settledIntents, modal, dirty, work,
  restore, receipts, granted, shownIntents, unsure, unheard, moves, faultsIntents

\* Starts of the program: without an argument, with a file, with a directory behind
\* "--", with both, with a path that goes up.
Argument(path) == [kind |-> "path", path |-> path]
Dashes == [kind |-> "dashes", path |-> <<"-">>]
Program == Argument(<<"mmd">>)
CommandLines == {<<Program>>, <<Program, Argument(<<"f">>)>>, <<Program, Dashes, Argument(<<"d", ".">>)>>,
  <<Program, Argument(<<"d">>), Argument(<<"f">>)>>, <<Program, Argument(<<"d", "..", "f">>)>>}

Drafts == INSTANCE DraftWindow WITH
  Docs <- {d1, d2, d3}, Elder <- d2, Damaged <- d3, Limit <- 2, Batch <- 1, Times <- {0},
  MaxFaults <- 2, MaxEdits <- 4, MaxRuns <- 3, MaxSerial <- 7, settled <- settledDrafts
draftsVars == <<dir, leftovers, startup, serial, reply, faults, sched, active, doc, typed, task,
    seeded, told, settledDrafts, ahead, runs>>
NoDrafts == dir = 0 /\ leftovers = 0 /\ startup = 0 /\ serial = 0 /\ reply = 0 /\ faults = 0
    /\ sched = 0 /\ active = 0 /\ doc = 0 /\ typed = 0 /\ task = 0 /\ seeded = 0
    /\ told = 0 /\ settledDrafts = 0 /\ ahead = 0 /\ runs = 0

Intents == INSTANCE OpenIntents WITH
  Launches <- CommandLines, Files <- {<<"f">>}, Folders <- {<<"d">>}, Saved <- <<"d">>,
  Capacity <- 2, MaxIntents <- 3, MaxFaults <- 1, MaxMoves <- 2, queue <- queueIntents,
  active <- activeIntents, settled <- settledIntents, shown <- shownIntents, faults <- faultsIntents
intentsVars == <<queueIntents, nextId, listening, poll, activeIntents, waiting, settledIntents, modal, dirty,
    work, restore, receipts, granted, shownIntents, unsure, unheard, moves, faultsIntents>>
NoIntents == queueIntents = 0 /\ nextId = 0 /\ listening = 0 /\ poll = 0 /\ activeIntents = 0 /\ waiting = 0
    /\ settledIntents = 0 /\ modal = 0 /\ dirty = 0 /\ work = 0 /\ restore = 0 /\ receipts = 0
    /\ granted = 0 /\ shownIntents = 0 /\ unsure = 0 /\ unheard = 0 /\ moves = 0 /\ faultsIntents = 0

\* The saved session, where another component acts.
NoSession == Init /\ disk = None

RestartsVars == <<focus, draftsVars, intentsVars, vars>>

ASSUME MCRestartsConstants ==
  /\ Drafts!DraftConstants
  /\ Intents!IntentConstants

RestartsInit ==
  \/ focus = "Drafts" /\ Drafts!Init /\ NoIntents /\ NoSession
  \/ focus = "Intents" /\ Intents!Init /\ NoDrafts /\ NoSession
  \/ focus = "Session" /\ Init /\ NoDrafts /\ NoIntents

DraftsDoes(A) == focus = "Drafts" /\ A /\ UNCHANGED <<focus, intentsVars, vars>>
IntentsDoes(A) == focus = "Intents" /\ A /\ UNCHANGED <<focus, draftsVars, vars>>
SessionDoes(A) == focus = "Session" /\ A /\ UNCHANGED <<focus, draftsVars, intentsVars>>

RestartsNext ==
  \/ DraftsDoes(Drafts!Start)
  \/ DraftsDoes(Drafts!Type)
  \/ DraftsDoes(\E d \in {d1, d2, d3} : Drafts!Pump(d))
  \/ DraftsDoes(Drafts!WriteAnswered)
  \/ DraftsDoes(Drafts!StartSave)
  \/ DraftsDoes(Drafts!SaveFails)
  \/ DraftsDoes(Drafts!SaveCommits)
  \/ DraftsDoes(Drafts!CleanSaved)
  \/ DraftsDoes(Drafts!StartLeave)
  \/ DraftsDoes(Drafts!Leave)
  \/ DraftsDoes(Drafts!FlushFails)
  \/ DraftsDoes(Drafts!Discarded)
  \/ IntentsDoes(Intents!Launch)
  \/ IntentsDoes(Intents!PollAnswers)
  \/ IntentsDoes(Intents!PollTaken)
  \/ IntentsDoes(Intents!PollFails)
  \/ IntentsDoes(Intents!LocalIntent)
  \/ IntentsDoes(Intents!ModalOpens)
  \/ IntentsDoes(Intents!ModalCloses)
  \/ IntentsDoes(Intents!ListenersReady)
  \/ IntentsDoes(Intents!LocaleChanges)
  \/ IntentsDoes(Intents!Edit)
  \/ IntentsDoes(Intents!Process)
  \/ IntentsDoes(Intents!Cancel)
  \/ IntentsDoes(Intents!Request)
  \/ IntentsDoes(Intents!Resolve)
  \/ IntentsDoes(Intents!ResolveFails)
  \/ IntentsDoes(Intents!MoveOn)
  \/ IntentsDoes(Intents!Stale)
  \/ IntentsDoes(Intents!Apply)
  \/ IntentsDoes(Intents!SettleWorkspace)
  \/ IntentsDoes(Intents!Commit)
  \/ IntentsDoes(Intents!Expire)
  \/ SessionDoes(Shows)
  \/ SessionDoes(Starts)
  \/ SessionDoes(SettlesUnrestored)
  \/ SessionDoes(Load)
  \/ SessionDoes(RestoreNothing)
  \/ SessionDoes(RestoreFails)
  \/ SessionDoes(Restore)
  \/ SessionDoes(RestoreWithoutFile)
  \/ SessionDoes(Persist)
  \/ SessionDoes(Skip)
  \/ SessionDoes(Stage)
  \/ SessionDoes(Replace)
  \/ SessionDoes(SaveFails)
  \/ SessionDoes(Hears)
  \/ SessionDoes(CloseRequested)
  \/ SessionDoes(Destroyed)
  \/ SessionDoes(Killed)
  \/ SessionDoes(Foreign)

\* The application's own steps go on; the user and the system do what they like.
RestartsSpec ==
  /\ RestartsInit /\ [][RestartsNext]_RestartsVars
  /\ WF_RestartsVars(IntentsDoes(Intents!Working)) /\ WF_RestartsVars(IntentsDoes(Intents!Asked))
  /\ WF_RestartsVars(IntentsDoes(Intents!ModalCloses))
  /\ WF_RestartsVars(IntentsDoes(Intents!ListenersReady))

-----------------------------------------------------------------------------
\* Every variable has its type.
RestartsTypeOK ==
  /\ focus = "Drafts" => Drafts!TypeOK
  /\ focus = "Intents" => Intents!TypeOK
  /\ TypeOK

\* A text that is not saved is drafted or on its way to be, and a draft of a text that
\* was saved or dropped does not come back (CrashDraftScheduler, settle, the eviction).
DraftsAreKept ==
  focus = "Drafts" => Drafts!DirtyTextIsDrafted /\ Drafts!SettledTextIsGone

\* A draft goes because it is the oldest of too many, or because its text was saved or
\* dropped (repair_limits, discard, afterConfirmedSave).
RemovalsAreJustified == [][focus = "Drafts" => Drafts!RemovalsAreJustified]_RestartsVars

\* A request to open is in the queue until it is carried out, once and in its turn, or
\* refused with a word; its receipt ends with it; and the window shows the workspace the
\* backend grants (OpenIntentQueue, openIntentCoordinator.ts, open_intent_commands.rs).
RequestsAreKept == focus = "Intents" => Intents!RequestsAreKept

\* The restoration of the session ends, so that the session is stored again, unless
\* what the window asked was lost, or the user left the question unanswered
\* (settleWorkspaceSessionRestore, openIntentCoordinator.ts).
RestoreEnds == \/ <>(focus = "Intents" => restore = "settled")
               \/ <>[](focus = "Intents" => unheard \/ Intents!Abandoned)
=============================================================================
