---------------------------- MODULE CrashDrafts ----------------------------
(* The store of crash drafts (crash_drafts.rs) with its adapter to the file    *)
(* system (crash_draft_store.rs) and its commands (crash_draft_commands.rs).   *)
(* Every operation runs under the store's locks and is one step; the answer    *)
(* waits in reply until the caller takes it.  Sizes in bytes are left out: the *)
(* limit on entries stands for both limits.  Texts are numbers.  The commands   *)
(* that recover, reset and repair, with their receipts, are left out: App.tsx    *)
(* does not enable the recovery that would call them.                            *)
EXTENDS Naturals, FiniteSets, Sequences, SequencesExt

CONSTANTS
  Docs,        \* identities of documents
  None,        \* no entry, no token, no answer
  Limit,       \* MAX_DRAFT_ENTRIES
  Batch,       \* OVERFLOW_RESET_DELETE_BATCH
  Times,       \* what the clock may say
  MaxFaults    \* bound: steps of the file system that fail

DraftConstants ==
  /\ Limit \in Nat \ {0}
  /\ Batch \in Nat \ {0}
  /\ Times \subseteq Nat
  /\ MaxFaults \in Nat

VARIABLES
  dir,        \* the draft of each document on disk, or None
  leftovers,  \* number of files of interrupted replacements that await their removal
  startup,    \* the repair at the start failed and nobody was told so far
  serial,     \* the last version given out
  reply,      \* the answers under way: to the scheduler's write, to the window's discard
  faults      \* steps of the file system that have failed

store == <<dir, leftovers, startup, serial, reply, faults>>

Drafts == [kind : {"supported", "protected"}, rev : Nat, text : Nat, at : Nat, ver : Nat]
Kept(files) == {d \in Docs : files[d] # None}
Supported(files) == {d \in Kept(files) : files[d].kind = "supported"}
Protected(files) == Kept(files) \ Supported(files)
Without(files, S) == [d \in Docs |-> IF d \in S THEN None ELSE files[d]]

(***************************************************************************)
(* The store                                                               *)
(***************************************************************************)
Fails(n) == faults + n <= MaxFaults

(* remove_exact on the entries of order in turn: all of them go, or it ends at *)
(* the first that cannot be removed, of which nobody may know what became.     *)
Removals(order) ==
  {[gone |-> Range(order), answer |-> "done", faults |-> 0]} \cup
  {[gone |-> {order[i] : i \in 1..n} \cup (IF a = "goneUnseen" THEN {order[n + 1]} ELSE {}),
    answer |-> IF n > 0 \/ a = "goneUnseen" THEN "indeterminate" ELSE a, faults |-> 1] :
      n \in 0..(Len(order) - 1),
      a \in {"persistence", "revisionConflict", "indeterminate", "goneUnseen"}}

OldestFirst(files, S) == SetToSortSeq(S, LAMBDA x, y : files[x].at < files[y].at)

(* Drafts above the limit go, the oldest first: none that is protected, and *)
(* never the incoming one.                                                   *)
RepairLimits(files, incoming) ==
  LET candidates == OldestFirst(files, Supported(files) \ {incoming})
      excess == Cardinality(Kept(files)) - Limit
      victims == IF Cardinality(Kept(files)) <= Limit THEN <<>>
                 ELSE SubSeq(candidates, 1, IF excess < Len(candidates) THEN excess
                                            ELSE Len(candidates))
  IN  {IF r.answer = "done" /\ Cardinality(Kept(files) \ r.gone) > Limit
       THEN [r EXCEPT !.answer = "storeFull"] ELSE r : r \in Removals(victims)}

StampByClock(files, now) == now

Stamp(files, now) ==
  LET times == {files[d].at : d \in Supported(files)}
  IN  IF \A t \in times : now > t THEN now ELSE 1 + CHOOSE t \in times : \A u \in times : u <= t

(* The write is refused, or finds its text stored: the answer and the version. *)
Refusals(d, rev, text) ==
  LET old == dir[d]
  IN  IF leftovers > 0 THEN {<<"storeFull", None>>}
      ELSE IF d \in Protected(dir) THEN {<<"corrupt", None>>}
      ELSE IF old # None /\ rev = old.rev /\ text = old.text THEN {<<"unchanged", old.ver>>}
      ELSE IF old # None /\ rev <= old.rev THEN {<<"revisionConflict", None>>}
      ELSE IF Cardinality(Protected(dir)) >= Limit THEN {<<"storeFull", None>>}
      ELSE {}

Reply(caller, answer, ver, evicted) ==
  reply' = [reply EXCEPT ![caller] = [answer |-> answer, ver |-> ver, evicted |-> evicted]]

Tell(answer) == Reply("discard", answer, None, {})

Refuse(d, rev, text) ==
  \E r \in Refusals(d, rev, text) :
    /\ Reply("write", r[1], r[2], {})
    /\ UNCHANGED <<dir, leftovers, startup, serial, faults>>

(* durable_write ends without a confirmation; the bytes may be there all the same. *)
PersistFails(d, rev, text, draft) ==
  /\ Refusals(d, rev, text) = {}
  /\ Fails(1)
  /\ faults' = faults + 1
  /\ serial' = serial + 1
  /\ \E answer \in {"persistence", "revisionConflict", "indeterminate"},
        files \in {dir, [dir EXCEPT ![d] = draft]} :
       /\ files # dir => answer = "indeterminate"
       /\ dir' = files
       /\ Reply("write", answer, None, {})
  /\ UNCHANGED <<leftovers, startup>>

(* The draft is there, and so are the others: the repair is left to the caller. *)
PrivacyRepair == {[gone |-> {}, answer |-> "privacy", faults |-> 1]}

(* The draft is stored.  What follows may fail and is then reported as            *)
(* indeterminate: making the file private, removing the displaced one, evicting. *)
Commit(d, rev, text, draft) ==
  /\ Refusals(d, rev, text) = {}
  /\ serial' = serial + 1
  /\ \E private \in BOOLEAN, left \in 0..1 :
     LET files == [dir EXCEPT ![d] = draft]
     IN  \E r \in IF private THEN RepairLimits(files, d)
                  ELSE PrivacyRepair :
           /\ left = 1 => dir[d] # None
           /\ Fails(r.faults + left)
           /\ faults' = faults + r.faults + left
           /\ dir' = Without(files, r.gone)
           /\ leftovers' = leftovers + left
           /\ IF r.answer = "done" /\ left = 0
              THEN Reply("write", "stored", draft.ver, r.gone)
              ELSE Reply("write", "indeterminate", None, {})
  /\ UNCHANGED startup

(* Requests that are not well formed are refused before the store is touched. *)
WellFormed(d, rev, text) == d \in Docs /\ rev \in Nat \ {0} /\ text \in Nat

Write(d, rev, text) ==
  /\ WellFormed(d, rev, text)
  /\ \/ Refuse(d, rev, text)
     \/ \E now \in Times :
          LET draft == [kind |-> "supported", rev |-> rev, text |-> text,
                        at |-> Stamp(dir, now), ver |-> serial + 1]
          IN  PersistFails(d, rev, text, draft) \/ Commit(d, rev, text, draft)

(* cleanup_ignored_artifacts removes one batch of leftovers: the rest, the failures. *)
Cleanups ==
  LET batch == IF leftovers < Batch THEN leftovers ELSE Batch
  IN  {[rest |-> leftovers - batch, answer |-> IF leftovers > batch THEN "storeFull" ELSE "done",
        faults |-> 0]} \cup
      {[rest |-> leftovers - n, answer |-> "persistence", faults |-> 1] : n \in 0..(batch - 1)}

(* What a discard does after the removal: if leftovers remain, the caller is told *)
(* that the store is full although its draft is gone.                             *)
CleanUp(files, answer) ==
  \E c \in Cleanups :
    /\ Fails(c.faults)
    /\ dir' = files
    /\ leftovers' = c.rest
    /\ faults' = faults + c.faults
    /\ Tell(IF c.answer = "done" THEN answer ELSE c.answer)

(* Removes the version the caller has seen, if it is still there. *)
Discard(d, ver) ==
  /\ IF dir[d] = None \/ dir[d].ver # ver
     THEN /\ Tell("revisionConflict")
          /\ UNCHANGED <<dir, leftovers, faults>>
     ELSE \E r \in Removals(<<d>>) :
            IF r.answer = "done"
            THEN CleanUp(Without(dir, r.gone), "discarded")
            ELSE /\ Fails(1)
                 /\ faults' = faults + 1
                 /\ dir' = Without(dir, r.gone)
                 /\ Tell(r.answer)
                 /\ UNCHANGED leftovers
  /\ UNCHANGED <<startup, serial>>

(* list_crash_drafts: the first call is the one that tells of a failed repair at *)
(* the start; the list is refused while there is something to repair.            *)
Refused == startup \/ leftovers > 0 \/ Cardinality(Kept(dir)) > Limit

List(ok) ==
  /\ startup' = FALSE
  /\ \E n \in 0..1 :
       /\ ok = (n = 0 /\ ~Refused)
       /\ Fails(n)
       /\ faults' = faults + n
  /\ UNCHANGED <<dir, leftovers, serial>>

(* The start of the program repairs the store and keeps the error for the first *)
(* list of the window.                                                           *)
RepairStartup ==
  \E c \in Cleanups :
  \E r \in IF c.answer = "done" THEN RepairLimits(dir, None)
            ELSE {[gone |-> {}, answer |-> c.answer, faults |-> 0]} :
    /\ startup' = (r.answer # "done")
    /\ Fails(c.faults + r.faults)
    /\ faults' = faults + c.faults + r.faults
    /\ leftovers' = c.rest
    /\ dir' = Without(dir, r.gone)
    /\ reply' = [caller \in {"write", "discard"} |-> None]
    /\ UNCHANGED serial
=============================================================================
