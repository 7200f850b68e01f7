---------------------------- MODULE SearchIndex ----------------------------
(* The search index of the workspace (workspace_index_runtime.rs) and the      *)
(* commands that build and question it on threads of their own                 *)
(* (workspace_index_commands.rs), while the files change under a recursive     *)
(* watch whose events arrive late and in any order.                            *)
EXTENDS Naturals, FiniteSets

CONSTANTS
  Docs,       \* Markdown files of the workspace
  Texts,      \* their contents
  Ops,        \* identifiers of operations; MAX_ACTIVE_OPERATIONS is their number
  None,       \* no file, no index
  MaxPasses,  \* MAX_BUILD_RECONCILIATION_PASSES
  MaxOps,     \* bound: operations begun
  MaxChanges, \* bound: changes of the files
  MaxFaults   \* bound: lost watches, replaced roots, cancellations

IndexConstants == {MaxPasses, MaxOps, MaxChanges, MaxFaults} \subseteq Nat

VARIABLES
  files,      \* what is in the directory
  root,       \* platform identity of the directory at the workspace's path
  active,     \* ActiveWorkspaceIndex, or None
  watch,      \* generation the stored watcher was made for, or None
  events,     \* events on their way
  generation, \* next_generation
  ops,        \* operations
  begun,      \* operations begun
  answer,     \* history: the last query answered, under which generation, and how many
              \* operations had begun when it was found to be current
  changes, faults

vars == <<files, root, active, watch, events, generation, ops, begun, answer, changes, faults>>

Workspace(gen, rootId, index, dirty) == [gen |-> gen, root |-> rootId, index |-> index, dirty |-> dirty]
Idle == [phase |-> "idle", n |-> 0, gen |-> 0, root |-> 0, cancelled |-> FALSE,
         got |-> None, left |-> {}, passes |-> 0, sure |-> 0]
Begun(phase, gen, rootId) == [Idle EXCEPT !.phase = phase, !.gen = gen, !.root = rootId, !.n = begun + 1]
Querying == {o \in Ops : ops[o].phase \in {"querying", "looking", "returning"}}
Fault == faults < MaxFaults /\ faults' = faults + 1

Current(gen) == active # None /\ active.gen = gen
Published == active # None /\ active.index # None

(***************************************************************************)
(* Operators on the operations                                             *)
(***************************************************************************)
CancelledAll(table) == [o \in Ops |-> [table[o] EXCEPT !.cancelled = table[o].phase # "idle"]]
CancelledOf(table, gen) ==
  [o \in Ops |-> [table[o] EXCEPT !.cancelled = @ \/ (table[o].phase # "idle" /\ table[o].gen = gen)]]
Ended(table, o) == [table EXCEPT ![o] = Idle]

(* The index of generation gen, if that is the current one, is dropped under a new *)
(* generation, and what was begun under the old one is cancelled.                   *)
Invalidate(gen, table) ==
  IF Current(gen)
  THEN /\ generation' = generation + 1
       /\ active' = [active EXCEPT !.gen = generation + 1, !.index = None]
       /\ ops' = CancelledOf(table, gen)
  ELSE UNCHANGED <<generation, active>> /\ ops' = table

(***************************************************************************)
(* The files and the watches                                               *)
(***************************************************************************)
Watching == {gen \in 1..generation : watch = gen \/ \E o \in Ops : ops[o].phase = "watching" /\ ops[o].gen = gen}

Init ==
  /\ files \in [Docs -> Texts \cup {None}]
  /\ root = 1 /\ active = None /\ watch = None /\ events = {} /\ generation = 0
  /\ ops = [o \in Ops |-> Idle] /\ begun = 0
  /\ answer = [n |-> 0, gen |-> 0, sure |-> 0]
  /\ changes = 0 /\ faults = 0

Kind(old, new) == IF new = None THEN "remove" ELSE IF old = None THEN "create" ELSE "data"

Change == \E d \in Docs, text \in Texts \cup {None} :
  /\ changes < MaxChanges /\ changes' = changes + 1
  /\ text # files[d]
  /\ files' = [files EXCEPT ![d] = text]
  /\ events' = events \cup {[gen |-> g, doc |-> d, kind |-> Kind(files[d], text)] : g \in Watching}
  /\ UNCHANGED <<root, active, watch, generation, ops, begun, answer, faults>>

(* The directory is exchanged for another one of the same name. *)
SwapRoot ==
  /\ Fault
  /\ root' = root + 1
  /\ files' \in [Docs -> Texts \cup {None}]
  /\ UNCHANGED <<active, watch, events, generation, ops, begun, answer, changes>>

(* The system lost events, or an error or a link is reported: a rescan. *)
Overflow ==
  /\ Fault
  /\ \E g \in Watching : events' = {e \in events : e.gen # g} \cup {[gen |-> g, doc |-> None, kind |-> "rescan"]}
  /\ UNCHANGED <<files, root, active, watch, generation, ops, begun, answer, changes>>

(* What is there is what the index holds. *)
Matches(e) ==
  /\ e.kind \in {"create", "data"}
  /\ files[e.doc] # None /\ files[e.doc] = active.index[e.doc]

(* handle_native_watch_result: before the publication it is marked dirty. *)
Deliver == \E e \in events :
  /\ events' = events \ {e}
  /\ IF ~ Current(e.gen) THEN UNCHANGED <<active, generation, ops>>
     ELSE IF e.kind = "rescan" THEN Invalidate(e.gen, ops)
     ELSE IF active.index = None THEN active' = [active EXCEPT !.dirty = TRUE] /\ UNCHANGED <<generation, ops>>
     ELSE IF Matches(e) THEN UNCHANGED <<active, generation, ops>>
     ELSE Invalidate(e.gen, ops)
  /\ UNCHANGED <<files, root, watch, begun, answer, changes, faults>>

(***************************************************************************)
(* Rebuilding                                                              *)
(***************************************************************************)
BeginRebuild == \E o \in Ops :
  /\ begun < MaxOps /\ begun' = begun + 1
  /\ ops[o] = Idle
  /\ generation' = generation + 1
  /\ active' = Workspace(generation', root, None, FALSE)
  /\ ops' = [CancelledAll(ops) EXCEPT ![o] = Begun("unwatched", generation', root)]
  /\ watch' = None
  /\ UNCHANGED <<files, root, events, answer, changes, faults>>

(* The watch is made outside the lock ... *)
CreateWatch == \E o \in Ops :
  /\ ops[o].phase = "unwatched"
  /\ ops' = [ops EXCEPT ![o].phase = "watching"]
  /\ UNCHANGED <<files, root, active, watch, events, generation, begun, answer, changes, faults>>

WatchFails == \E o \in Ops :
  /\ ops[o].phase = "unwatched"
  /\ Fault
  /\ IF Current(ops[o].gen)
     THEN /\ active' = None
          /\ generation' = generation + 1
          /\ ops' = CancelledOf(Ended(ops, o), ops[o].gen)
     ELSE UNCHANGED <<active, generation>> /\ ops' = Ended(ops, o)
  /\ UNCHANGED <<files, root, watch, events, begun, answer, changes>>

(* ... and kept under it only if its generation is still the current one. *)
KeepWatch == \E o \in Ops :
  /\ ops[o].phase = "watching"
  /\ watch' = IF Current(ops[o].gen) THEN ops[o].gen ELSE watch
  /\ ops' = [ops EXCEPT ![o].phase = "reading", ![o].left = Docs, ![o].got = [d \in Docs |-> None]]
  /\ UNCHANGED <<files, root, active, events, generation, begun, answer, changes, faults>>

Read == \E o \in Ops : \E d \in ops[o].left :
  /\ ops[o].phase = "reading" /\ ~ ops[o].cancelled
  /\ ops' = [ops EXCEPT ![o].left = @ \ {d}, ![o].got[d] = files[d]]
  /\ UNCHANGED <<files, root, active, watch, events, generation, begun, answer, changes, faults>>

ReadCancelled == \E o \in Ops :
  /\ ops[o].phase = "reading" /\ ops[o].cancelled
  /\ ops' = Ended(ops, o)
  /\ UNCHANGED <<files, root, active, watch, events, generation, begun, answer, changes, faults>>

(* Events before the publication make it read everything again. *)
Publish == \E o \in Ops :
  /\ ops[o].phase = "reading" /\ ops[o].left = {} /\ ~ ops[o].cancelled
  /\ IF root # ops[o].root \/ (Current(ops[o].gen) /\ active.dirty /\ ops[o].passes >= MaxPasses)
     THEN Invalidate(ops[o].gen, Ended(ops, o))
     ELSE IF ~ Current(ops[o].gen)
     THEN UNCHANGED <<generation, active>> /\ ops' = Ended(ops, o)
     ELSE /\ generation' = generation
          /\ active' = [active EXCEPT !.dirty = FALSE, !.index = IF active.dirty THEN None ELSE ops[o].got]
          /\ ops' = IF active.dirty
                    THEN [ops EXCEPT ![o].phase = "comparing", ![o].left = Docs, ![o].passes = @ + 1]
                    ELSE Ended(ops, o)
  /\ UNCHANGED <<files, root, watch, events, begun, answer, changes, faults>>

(* workspace_matches_index: a difference, a new root or a cancellation drops it. *)
Compare == \E o \in Ops :
  /\ ops[o].phase = "comparing"
  /\ \/ /\ ops[o].left = {} /\ root = ops[o].root /\ ~ ops[o].cancelled
        /\ ops' = [ops EXCEPT ![o].phase = "reading"]
        /\ UNCHANGED <<generation, active>>
     \/ /\ ~ ops[o].cancelled
        /\ \E d \in ops[o].left :
             /\ files[d] = ops[o].got[d]
             /\ ops' = [ops EXCEPT ![o].left = @ \ {d}]
        /\ UNCHANGED <<generation, active>>
     \/ /\ \/ ops[o].cancelled \/ root # ops[o].root
           \/ \E d \in ops[o].left : files[d] # ops[o].got[d]
        /\ Invalidate(ops[o].gen, Ended(ops, o))
  /\ UNCHANGED <<files, root, watch, events, begun, answer, changes, faults>>

BeginQueryAlone == \E o \in Ops :
  /\ begun < MaxOps /\ begun' = begun + 1
  /\ ops[o] = Idle /\ Published /\ root = active.root
  /\ ops' = [ops EXCEPT ![o] = Begun("querying", active.gen, active.root)]
  /\ UNCHANGED <<files, root, active, watch, events, generation, answer, changes, faults>>

(***************************************************************************)
(* Queries and what ends them                                              *)
(***************************************************************************)
(* A query cancels the earlier ones of its workspace. *)
BeginQuery == \E o \in Ops :
  /\ begun < MaxOps /\ begun' = begun + 1
  /\ ops[o] = Idle /\ Published
  /\ IF root # active.root THEN Invalidate(active.gen, ops)
     ELSE /\ ops' = [[p \in Ops |-> [ops[p] EXCEPT !.cancelled = @ \/ (p \in Querying /\ ops[p].gen = active.gen)]]
                     EXCEPT ![o] = Begun("querying", active.gen, active.root)]
          /\ UNCHANGED <<generation, active>>
  /\ UNCHANGED <<files, root, watch, events, answer, changes, faults>>

(* is_current: a result counts only if index and generation are still the same and *)
(* nothing has cancelled it, which is asked under the lock ...                     *)
IsCurrent == \E o \in Ops :
  /\ ops[o].phase = "querying"
  /\ ops' = IF Published /\ Current(ops[o].gen) /\ ~ ops[o].cancelled
              THEN [ops EXCEPT ![o].phase = "looking", ![o].sure = begun] ELSE Ended(ops, o)
  /\ UNCHANGED <<files, root, active, watch, events, generation, begun, answer, changes, faults>>

(* ... and if the directory is, which is opened again once the lock is released. *)
LookAtRoot == \E o \in Ops :
  /\ ops[o].phase = "looking"
  /\ IF root = ops[o].root
       THEN ops' = [ops EXCEPT ![o].phase = "returning"] /\ UNCHANGED <<generation, active>>
       ELSE Invalidate(ops[o].gen, Ended(ops, o))
  /\ UNCHANGED <<files, root, watch, events, begun, answer, changes, faults>>

(* The blocking thread answers when it gets to it. *)
Answer == \E o \in Ops :
  /\ ops[o].phase = "returning"
  /\ answer' = [n |-> ops[o].n, gen |-> ops[o].gen, sure |-> ops[o].sure]
  /\ ops' = Ended(ops, o)
  /\ UNCHANGED <<files, root, active, watch, events, generation, begun, changes, faults>>

CancelOperation == \E o \in Ops :
  /\ Fault
  /\ ops[o] # Idle
  /\ ops' = [ops EXCEPT ![o].cancelled = TRUE]
  /\ UNCHANGED <<files, root, active, watch, events, generation, begun, answer, changes>>

Discard ==
  /\ Fault
  /\ active # None
  /\ Invalidate(active.gen, ops)
  /\ watch' = None
  /\ UNCHANGED <<files, root, events, begun, answer, changes>>

(* Another workspace has been granted, or the program ends. *)
DiscardAll ==
  /\ Fault
  /\ active' = None /\ watch' = None
  /\ ops' = CancelledAll(ops)
  /\ UNCHANGED <<files, root, events, generation, begun, answer, changes>>

Next ==
  \/ Change \/ SwapRoot \/ Overflow \/ Deliver \/ BeginRebuild \/ CreateWatch \/ WatchFails \/ KeepWatch
  \/ Read \/ ReadCancelled \/ Publish \/ Compare \/ BeginQuery \/ IsCurrent \/ LookAtRoot \/ Answer
  \/ CancelOperation \/ Discard \/ DiscardAll

Spec == Init /\ [][Next]_vars

(***************************************************************************)
(* Properties                                                              *)
(***************************************************************************)
(* The variables stay in their types, and generations are never handed out twice. *)
TypeOK ==
  /\ active = None \/ (active.gen \in 1..generation /\ active.dirty \in BOOLEAN)
  /\ \A o \in Ops : ops[o].gen <= generation /\ ops[o].passes <= MaxPasses
  /\ watch \in {None} \cup 1..generation

(* What is searched is what is there: an index that can be questioned equals the *)
(* files, but for changes whose events are still on their way, and as long as the *)
(* directory is the one that was read.                                            *)
IndexIsFresh ==
  Published /\ root = active.root
    => \A d \in Docs : \/ active.index[d] = files[d]
                       \/ \E e \in events : e.gen = active.gen /\ e.doc \in {d, None}

(* Within one generation an answer that follows the answer to a later question had  *)
(* been found current before that question was asked: a question overtakes all that *)
(* have not got so far. (The dialog drops what it still gets of the others.)        *)
AnswersInOrder ==
  answer' # answer /\ answer'.gen = answer.gen => answer'.n > answer.n \/ answer'.sure < answer.n
=============================================================================
