---------------------------- MODULE OpenIntents ----------------------------
(* Requests to open a path from outside the program: the bounded queue of the  *)
(* backend (open_intent.rs), the sources that fill it (lib.rs), the commands   *)
(* that serve it (open_intent_commands.rs), and the main window, which holds   *)
(* one request at a time (openIntentCoordinator.ts, App.tsx) and carries it    *)
(* out (useDocumentSession.ts).                                                *)
EXTENDS Naturals, FiniteSets, Sequences, SequencesExt

CONSTANTS
  Launches,    \* argument lists of starts of the program, first the program's name
  Files,       \* paths of files: sequences of names
  Folders,     \* paths of directories
  Saved,       \* the directory the stored session names, or None
  None,
  Capacity,    \* DEFAULT_OPEN_INTENT_CAPACITY
  MaxIntents,  \* bound: requests queued
  MaxFaults,   \* bound: failures of a call, expired receipts
  MaxMoves     \* bound: locale changes, dialogs, other opens, edits

VARIABLES
  queue,      \* OpenIntentQueue.pending
  nextId,     \* OpenIntentQueue.next_id
  listening,  \* the window's listeners are registered
  poll,       \* the window's question for the head of the queue
  active,     \* the coordinator's active intent, or None
  waiting,    \* the coordinator's pending intents
  settled,    \* highest settled backend id
  modal,      \* openIntentModalActive
  dirty,      \* the document has unsaved changes
  work,       \* what the active intent is at
  restore,    \* the session restoration: pending, requested, settled
  receipts,   \* receipts given out and not settled: file, workspace
  granted,    \* the workspace the backend grants
  shown,      \* the workspace the window shows
  unsure,     \* history: a call has failed or expired on the way
  unheard,    \* history: since the last answer for the head, an event or a question was lost
  moves, faults

front == <<active, waiting, settled>>
vars == <<queue, nextId, listening, poll, active, waiting, settled, modal, dirty, work,
          restore, receipts, granted, shown, unsure, unheard, moves, faults>>

Intent(id, target) == [id |-> id, target |-> target]
Restoration == <<"session restore">>
Local == Intent(0, <<"open file">>)
NoPoll == [phase |-> "idle", head |-> None]
Asking == [phase |-> "asked", head |-> None]
Work(phase, reply, prior, fresh) == [phase |-> phase, reply |-> reply, prior |-> prior, fresh |-> fresh]
AtRest == Work("rest", None, None, TRUE)
Move == moves < MaxMoves /\ moves' = moves + 1
Fault == faults < MaxFaults /\ faults' = faults + 1 /\ unsure' = TRUE

(***************************************************************************)
(* The backend's queue                                                     *)
(***************************************************************************)
Normal(path) ==
  FoldLeft(LAMBDA done, name :
             CASE name = "." -> done
               [] name = ".." -> (IF done = <<>> THEN done ELSE Front(done))
               [] OTHER -> Append(done, name),
           <<>>, path)

(* Options end at "--"; one target, which is not empty.  None: an error. *)
Option(arg) == arg.kind \in {"option", "dashes"}
Target(args) ==
  LET given == Tail(args)
      dashes == {i \in DOMAIN given : given[i].kind = "dashes"}
      first == IF dashes = {} THEN Len(given) + 1 ELSE CHOOSE i \in dashes : \A j \in dashes : i <= j
      targets == SubSeq(given, 1, first - 1) \o SubSeq(given, first + 1, Len(given))
  IN  IF \/ \E i \in 1..(first - 1) : Option(given[i])
         \/ Len(targets) # 1
         \/ targets[1].kind = "empty"
      THEN None ELSE Normal(targets[1].path)

Targets == ({Target(args) : args \in Launches} \ {None}) \cup {Restoration, Local.target}
Intents == [id : Nat, target : Targets]

IntentConstants ==
  /\ Capacity \in Nat \ {0}
  /\ {MaxIntents, MaxFaults, MaxMoves} \subseteq Nat
  /\ Saved \in Folders \cup {None} /\ None \notin Folders /\ None \notin Intents

Queued(target) == \E i \in DOMAIN queue : queue[i].target = target

(* The window asks for the head, unless a dialog is open: its end asks again. *)
Ask == poll' = IF modal THEN NoPoll ELSE Asking

(* An event is heard by listeners that are there. *)
Pending == IF listening THEN Ask /\ unheard' = unheard
           ELSE poll' = poll /\ unheard' = TRUE

EnqueueOneMore(target) ==
  /\ ~ Queued(target)
  /\ queue' = Append(queue, Intent(nextId, target))
  /\ nextId' = nextId + 1
Enqueue(target) ==
  /\ ~ Queued(target)
  /\ Len(queue) < Capacity
  /\ queue' = Append(queue, Intent(nextId, target))
  /\ nextId' = nextId + 1

Init ==
  /\ \E start \in Launches :
       LET target == Target(start)
       IN  IF target = None THEN queue = <<>> /\ nextId = 1
           ELSE queue = <<Intent(1, target)>> /\ nextId = 2
  /\ listening = FALSE /\ poll = Asking
  /\ active = None /\ waiting = <<>> /\ settled = 0
  /\ modal = FALSE /\ dirty = FALSE /\ work = AtRest
  /\ restore = "pending" /\ receipts = {} /\ granted = None /\ shown = None
  /\ unsure = FALSE /\ unheard = FALSE /\ moves = 0 /\ faults = 0

(* A second start of the program, a drop, an opened event. *)
Launch == \E args \in Launches :
  /\ Target(args) # None /\ nextId <= MaxIntents
  /\ Enqueue(Target(args))
  /\ Pending
  /\ UNCHANGED <<listening, front, modal, dirty, work, restore, receipts, granted, shown,
                 unsure, moves, faults>>

(***************************************************************************)
(* The window: which intent is active                                      *)
(***************************************************************************)
Known(intent) ==
  \/ intent # Local /\ intent.id <= settled
  \/ \E i \in {active} \cup Range(waiting) : i # None /\ i.target = intent.target

(* The first of the waiting intents becomes active if nothing stands against it. *)
Drain(now, next, blocked) ==
  IF now = None /\ ~ blocked /\ next # <<>>
  THEN active' = Head(next) /\ waiting' = Tail(next)
  ELSE active' = now /\ waiting' = next

SettleSilently ==
  /\ settled' = IF active.id > settled THEN active.id ELSE settled
  /\ Drain(None, waiting, modal)
  /\ poll' = poll
  /\ restore' = IF active.target = Restoration THEN "settled" ELSE restore
  /\ work' = AtRest

(* The end of the active intent: the head is asked for again. *)
Settle ==
  /\ settled' = IF active.id > settled THEN active.id ELSE settled
  /\ Drain(None, waiting, modal)
  /\ Ask
  /\ restore' = IF active.target = Restoration THEN "settled" ELSE restore
  /\ work' = AtRest

PollAnswers ==
  /\ poll.phase = "asked"
  /\ poll' = [phase |-> "answered", head |-> IF queue = <<>> THEN None ELSE Head(queue)]
  /\ unheard' = FALSE
  /\ UNCHANGED <<queue, nextId, listening, front, modal, dirty, work, restore, receipts,
                 granted, shown, unsure, moves, faults>>

PollTaken ==
  /\ poll.phase = "answered"
  /\ poll' = NoPoll
  /\ IF poll.head = None \/ Known(poll.head) THEN UNCHANGED front
     ELSE Drain(active, Append(waiting, poll.head), modal) /\ UNCHANGED settled
  /\ UNCHANGED <<queue, nextId, listening, modal, dirty, work, restore, receipts, granted,
                 shown, unsure, unheard, moves, faults>>

(* A failed question is shown, and not repeated. *)
PollFails ==
  /\ poll.phase # "idle"
  /\ Fault
  /\ poll' = NoPoll /\ unheard' = TRUE
  /\ UNCHANGED <<queue, nextId, listening, front, modal, dirty, work, restore, receipts,
                 granted, shown, moves>>

(* A command of the window itself, from its menu or side bar. *)
LocalIntent ==
  /\ Move
  /\ ~ Known(Local)
  /\ Drain(active, Append(waiting, Local), modal) /\ UNCHANGED settled
  /\ UNCHANGED <<queue, nextId, listening, poll, modal, dirty, work, restore, receipts,
                 granted, shown, unsure, unheard, faults>>

ModalClosesOnly ==
  /\ modal /\ modal' = FALSE
  /\ poll' = Asking
  /\ UNCHANGED <<queue, nextId, listening, front, dirty, work, restore, receipts, granted, shown,
                 unsure, unheard, moves, faults>>

(* Dialogs, conflicts and busy phases hold the requests back. *)
ModalOpens ==
  /\ Move
  /\ ~ modal /\ modal' = TRUE
  /\ poll' = NoPoll
  /\ UNCHANGED <<queue, nextId, listening, front, dirty, work, restore, receipts, granted,
                 shown, unsure, unheard, faults>>

ModalCloses ==
  /\ modal /\ modal' = FALSE
  /\ poll' = Asking
  /\ Drain(active, waiting, FALSE) /\ UNCHANGED settled
  /\ UNCHANGED <<queue, nextId, listening, dirty, work, restore, receipts, granted, shown,
                 unsure, unheard, moves, faults>>

(* The listeners are there; the first time, the stored session is asked for. *)
ListenersReady ==
  /\ ~ listening /\ listening' = TRUE
  /\ IF restore # "pending" THEN UNCHANGED <<queue, nextId, poll, restore, unsure, faults>>
     ELSE \/ /\ restore' = "requested"
             /\ IF Queued(Restoration) THEN UNCHANGED <<queue, nextId>> ELSE Enqueue(Restoration)
             /\ Ask
             /\ UNCHANGED <<unsure, faults>>
          \/ /\ restore' = "settled"
             /\ \/ Len(queue) = Capacity /\ UNCHANGED <<unsure, faults>>
                \/ Fault
             /\ UNCHANGED <<queue, nextId, poll>>
  /\ UNCHANGED <<front, modal, dirty, work, receipts, granted, shown, unheard, moves>>

(* A change of the language registers them anew. *)
LocaleChanges ==
  /\ Move
  /\ listening /\ listening' = FALSE
  /\ Ask
  /\ UNCHANGED <<queue, nextId, front, modal, dirty, work, restore, receipts, granted, shown,
                 unsure, unheard, faults>>

Edit ==
  /\ Move
  /\ ~ dirty /\ dirty' = TRUE
  /\ UNCHANGED <<queue, nextId, listening, poll, front, modal, work, restore, receipts, granted,
                 shown, unsure, unheard, faults>>

(***************************************************************************)
(* The window: what the active intent asks for                             *)
(***************************************************************************)
Undecided == active # None /\ work = AtRest

(* A clean document gives way; an unsaved one, if the user says so, saved or not. *)
Process ==
  /\ Undecided
  /\ dirty \/ ~ modal
  /\ work' = [AtRest EXCEPT !.phase = "ready"]
  /\ dirty' \in {FALSE, dirty}
  /\ UNCHANGED <<queue, nextId, listening, poll, front, modal, restore, receipts, granted,
                 shown, unsure, unheard, moves, faults>>

Popped == IF queue # <<>> /\ Head(queue).id = active.id THEN Tail(queue) ELSE queue

(* The user drops the request: the backend first.  A call that fails keeps it. *)
Cancel ==
  /\ Undecided /\ dirty
  /\ \/ queue' = Popped /\ Settle /\ UNCHANGED <<unsure, faults>>
     \/ Fault /\ queue' \in {queue, Popped} /\ UNCHANGED <<front, poll, restore, work>>
  /\ UNCHANGED <<nextId, listening, modal, dirty, receipts, granted, shown, unheard, moves>>

(* What the backend finds at the head, once it has taken it off. *)
Reply(kind, workspace, given) == [kind |-> kind, workspace |-> workspace, receipts |-> given]
Failed == Reply("error", None, {})
Found(target) ==
  {Failed} \cup
  (IF target \in Files THEN {Reply("file", None, {"file"})}
   ELSE IF target \in Folders THEN {Reply("folder", target, {"folder"})}
   ELSE IF target # Restoration THEN {}
   ELSE IF Saved = None THEN {Reply("nothing", None, {})}
   ELSE {Reply("nothing", None, {}), Reply("folder", Saved, {"folder"}),
         Reply("folder", Saved, {"folder", "file"})})

(* A local command is carried out as any other of the window, or not at all. *)
Request ==
  /\ work.phase = "ready"
  /\ IF active = Local THEN Settle
     ELSE /\ \/ work' = [work EXCEPT !.phase = "asked"]
             \/ modal /\ work' = AtRest
          /\ UNCHANGED <<front, poll, restore>>
  /\ UNCHANGED <<queue, nextId, listening, modal, dirty, receipts, granted, shown, unsure,
                 unheard, moves, faults>>

Answer(reply, taken) ==
  /\ work' = [work EXCEPT !.phase = "answered", !.reply = reply]
  /\ receipts' = receipts \cup taken
  /\ UNCHANGED <<nextId, listening, poll, front, modal, dirty, restore, granted, shown,
                 unheard, moves>>

Resolve ==
  /\ work.phase = "asked"
  /\ queue' = Popped
  /\ \E reply \in (IF Popped = queue THEN {Failed} ELSE Found(active.target)) :
       \/ Answer(reply, reply.receipts) /\ UNCHANGED <<unsure, faults>>
       \/ Answer(Failed, reply.receipts) /\ Fault

(* The call does not arrive: the request stays at the head. *)
ResolveFails ==
  /\ work.phase = "asked"
  /\ Fault
  /\ Answer(Failed, {}) /\ UNCHANGED queue

(* Another document, or another request, has come meanwhile. *)
MoveOn ==
  /\ Move
  /\ work.phase \in {"asked", "answered", "committing"} /\ work.fresh
  /\ work' = [work EXCEPT !.fresh = FALSE]
  /\ UNCHANGED <<queue, nextId, listening, poll, front, modal, dirty, restore, receipts, granted,
                 shown, unsure, unheard, faults>>

Give(given) == receipts' = receipts \ given
Quiet == UNCHANGED <<unsure, faults>>
Unsettled == UNCHANGED <<front, poll, restore>>

(* The answer is not wanted any more: its receipts go back, as far as that works. *)
Stale ==
  /\ work.phase = "answered" /\ ~ work.fresh
  /\ Settle
  /\ \/ Give(work.reply.receipts) /\ Quiet
     \/ Fault /\ \E r \in work.reply.receipts : Give(work.reply.receipts \ {r})
  /\ UNCHANGED <<queue, nextId, listening, modal, dirty, granted, shown, unheard, moves>>

(* The draft of the open document is written first; if that fails, it stays. *)
Apply ==
  /\ work.phase = "answered" /\ work.fresh
  /\ \/ /\ work.reply.kind \in {"error", "nothing"}
        /\ Settle /\ Quiet
        /\ UNCHANGED <<receipts, shown>>
     \/ /\ work.reply.kind = "file"
        /\ \/ work' = [work EXCEPT !.phase = "committing"] /\ Unsettled /\ Quiet
              /\ UNCHANGED receipts
           \/ Settle /\ Give({"file"}) /\ Quiet
        /\ UNCHANGED shown
     \/ /\ work.reply.kind = "folder"
        /\ shown' = work.reply.workspace
        /\ work' = [work EXCEPT !.phase = "settling", !.prior = shown]
        /\ Unsettled /\ Quiet
        /\ UNCHANGED receipts
  /\ UNCHANGED <<queue, nextId, listening, modal, dirty, granted, unheard, moves>>

(* The backend grants the workspace, unless the receipt has expired; else the    *)
(* window goes back to the workspace it showed, and gives the file's receipt up. *)
SettleWorkspace ==
  /\ work.phase = "settling"
  /\ LET file == {"file"} \cap work.reply.receipts
         held == "folder" \in receipts
         grant == granted' = IF held THEN work.reply.workspace ELSE granted
         back == shown' = work.prior /\ Settle
     IN  \/ /\ held /\ grant /\ Give({"folder"}) /\ Quiet
            /\ IF file = {} THEN Settle
               ELSE work' = [work EXCEPT !.phase = "committing"] /\ Unsettled
            /\ UNCHANGED shown
         \/ /\ ~ held /\ back /\ Give(file) /\ Quiet
            /\ UNCHANGED granted
         \/ /\ Fault /\ back
            /\ \/ UNCHANGED granted /\ Give(file)
               \/ grant /\ Give(file \cup {"folder"})
  /\ UNCHANGED <<queue, nextId, listening, modal, dirty, unheard, moves>>

(* commit_recent_open and its outcome; a window that has moved on gives up. *)
Commit ==
  /\ work.phase = "committing"
  /\ Settle
  /\ \/ Give({"file"}) /\ Quiet /\ dirty' \in {dirty, FALSE}
     \/ Fault /\ UNCHANGED <<receipts, dirty>>
  /\ UNCHANGED <<queue, nextId, listening, modal, granted, shown, unheard, moves>>

(* A receipt that is not settled in time is gone. *)
Expire ==
  /\ faults < MaxFaults /\ faults' = faults + 1
  /\ \E r \in receipts : Give({r})
  /\ UNCHANGED <<queue, nextId, listening, poll, front, modal, dirty, work, restore, granted,
                 shown, unsure, unheard, moves>>

Next ==
  \/ Launch \/ PollAnswers \/ PollTaken \/ PollFails \/ LocalIntent \/ ModalOpens \/ ModalCloses
  \/ ListenersReady \/ LocaleChanges \/ Edit \/ Process \/ Cancel \/ Request \/ Resolve
  \/ ResolveFails \/ MoveOn \/ Stale \/ Apply \/ SettleWorkspace \/ Commit \/ Expire

(* Calls are answered, dialogs end, the user decides, the listeners come. *)
Working == Process \/ Request \/ Resolve \/ Stale \/ Apply \/ SettleWorkspace \/ Commit
Asked == PollAnswers \/ PollTaken

Spec == /\ Init /\ [][Next]_vars
        /\ WF_vars(Working) /\ WF_vars(Asked)
        /\ WF_vars(ModalCloses) /\ WF_vars(ListenersReady)

(***************************************************************************)
(* Properties                                                              *)
(***************************************************************************)
Replies ==
  [kind : {"error", "nothing"}, workspace : {None}, receipts : {{}}]
  \cup [kind : {"file"}, workspace : {None}, receipts : {{"file"}}]
  \cup [kind : {"folder"}, workspace : Folders, receipts : {{"folder"}, {"folder", "file"}}]

(* The variables stay in their types; the queue keeps its capacity and its order. *)
TypeOK ==
  /\ queue \in Seq(Intents) /\ Len(queue) <= Capacity /\ nextId \in Nat
  /\ \A i \in DOMAIN queue : queue[i].id < nextId
  /\ \A i, j \in DOMAIN queue : i < j => queue[i].id < queue[j].id
  /\ poll \in [phase : {"idle", "asked"}, head : {None}] \cup [phase : {"answered"}, head : Intents \cup {None}]
  /\ active \in Intents \cup {None} /\ waiting \in Seq(Intents) /\ settled \in Nat
  /\ {listening, modal, dirty, unsure, unheard} \subseteq BOOLEAN
  /\ work \in [phase : {"rest", "ready", "asked"}, reply : {None}, prior : {None}, fresh : BOOLEAN]
              \cup [phase : {"answered", "committing", "settling"}, reply : Replies,
                     prior : Folders \cup {None}, fresh : BOOLEAN]
  /\ active = None => work = AtRest
  /\ restore \in {"pending", "requested", "settled"}
  /\ receipts \subseteq {"file", "folder"}
  /\ {granted, shown} \subseteq Folders \cup {None}
  /\ moves \in 0 .. MaxMoves /\ faults \in 0 .. MaxFaults

(* No request is forgotten: when the window listens and has nothing to do and    *)
(* nothing to ask, the queue is empty - unless the event that told of a request, *)
(* or a question for the head, was lost since it last asked, or the head is one   *)
(* the window has given up because the call to resolve it did not arrive.         *)
Abandoned == queue # <<>> /\ Head(queue).id <= settled
NoRequestForgotten ==
  listening /\ active = None /\ waiting = <<>> /\ poll = NoPoll /\ ~ modal
    => queue = <<>> \/ unheard \/ Abandoned

(* The window carries the backend's requests out once each, in their order: what  *)
(* it has and what waits behind it are later than all it has settled, whatever    *)
(* the answers for the head that it has been given meanwhile.                     *)
Backend(intent) == intent # None /\ intent.id # 0
RequestsInOrder ==
  /\ \A i \in {active} \cup Range(waiting) : Backend(i) => i.id > settled
  /\ \A i \in DOMAIN waiting : Backend(active) /\ Backend(waiting[i]) => active.id < waiting[i].id
  /\ \A i, j \in DOMAIN waiting :
       i < j /\ Backend(waiting[i]) /\ Backend(waiting[j]) => waiting[i].id < waiting[j].id

(* Whatever way a request ends, the receipts its answer brought have been used or *)
(* given back, so that no authority prepared for it outlives it.                  *)
ReceiptsEnd == work.phase \in {"rest", "ready", "asked"} => receipts = {} \/ unsure

(* The workspace that the window shows between two requests is the one whose     *)
(* authority the backend holds, also after one that failed half-way.             *)
ShownIsGranted == work.phase \notin {"settling"} => shown = granted \/ unsure

(* A request is carried out, once and in its turn, and what it brought ends with it. *)
RequestsAreKept == NoRequestForgotten /\ RequestsInOrder /\ ReceiptsEnd /\ ShownIsGranted
=============================================================================
