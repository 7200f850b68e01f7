---------------------------- MODULE ExportStore ----------------------------
(* Exports into a folder the user picks (export_store.rs): one file, written   *)
(* over the version that was there, or the bundle of a drawing, of which every *)
(* file must be new and all or none is wanted. Each file is written and        *)
(* removed by the durable file primitives, here by their contract; other       *)
(* programs use the folder between any two steps.                              *)
EXTENDS Integers, Sequences, FiniteSets, SequencesExt

CONSTANTS Names,        \* the names of a bundle's files, in their order: a sequence
          MaxCalls, MaxFaults, MaxForeign,      \* bounds
          None

VARIABLES folder,       \* what is under each name: the call that wrote it, a foreign file, or None
          op,           \* the running call, or None
          answer,       \* the last call's answer: to which call, and what it said
          unsure,       \* files of the last call whose writing or removal ended without certainty
          used          \* steps spent of each bound

vars == <<folder, op, answer, unsure, used>>

File == {Names[k] : k \in DOMAIN Names}
Foreign(n) == [by |-> "other", nr |-> n]
Own(call) == [by |-> "export", nr |-> call]

ExportConstants ==
  /\ \A j, k \in DOMAIN Names : Names[j] = Names[k] => j = k
  /\ {MaxCalls, MaxFaults, MaxForeign} \subseteq Nat

Spend(what) == used' = [used EXCEPT ![what] = @ + 1]
Faulty == used.faults < MaxFaults /\ Spend("faults")
Step(next) == op' = next
Ends(what) ==
  /\ op' = None
  /\ answer' = [call |-> used.calls, says |-> what, files |-> IF op.kind = "file" THEN {op.file} ELSE File]

Init ==
  /\ folder \in [File -> {None, Foreign(0)}]
  /\ op = None /\ answer = None /\ unsure = {}
  /\ used = [calls |-> 0, faults |-> 0, foreign |-> 0]
-----------------------------------------------------------------------------
\* The payload is decoded and validated before the dialog asks for a folder or a file.
Start == op = None /\ used.calls < MaxCalls /\ Spend("calls") /\ answer' = None /\ unsure' = {}
SaveBundle == Start /\ Step([kind |-> "bundle", at |-> "exists", next |-> 1, published |-> <<>>]) /\ UNCHANGED folder
SaveExport(f) == Start /\ Step([kind |-> "file", at |-> "write", file |-> f, seen |-> folder[f]]) /\ UNCHANGED folder
\* The payload is not what its kind says, or the user cancels the dialog.
StartsNothing(why) ==
  /\ op = None /\ used.calls < MaxCalls /\ Spend("calls")
  /\ answer' = [call |-> used.calls + 1, says |-> why, files |-> {}] /\ unsure' = {} /\ UNCHANGED <<folder, op>>

Running(kind, at) == op # None /\ op.kind = kind /\ op.at = at
Current == Names[op.next]
Rollback == [op EXCEPT !.at = "rollback"]
Written(f) == folder' = [folder EXCEPT ![f] = Own(used.calls)]

PathExists ==
  /\ Running("bundle", "exists")
  /\ IF folder[Current] # None THEN Step(Rollback) ELSE Step([op EXCEPT !.at = "write"])
  /\ UNCHANGED <<folder, answer, unsure, used>>

Published ==
  LET published == Append(op.published, Current)
  IN  IF op.next = Len(Names) THEN Ends("written")
      ELSE Step([op EXCEPT !.at = "exists", !.next = @ + 1, !.published = published]) /\ UNCHANGED answer
Publish ==
  /\ Running("bundle", "write") /\ folder[Current] = None
  /\ Written(Current) /\ Published /\ UNCHANGED <<unsure, used>>
PublishConflicts ==
  /\ Running("bundle", "write") /\ folder[Current] # None
  /\ Step(Rollback) /\ UNCHANGED <<folder, answer, unsure, used>>
PublishFails ==
  /\ Running("bundle", "write") /\ Faulty /\ Step(Rollback) /\ UNCHANGED <<folder, answer, unsure>>
\* The outcome is not known: the file may be there, and is not among those to remove.
PublishUnsure ==
  /\ Running("bundle", "write") /\ Faulty /\ Step(Rollback)
  /\ folder' \in {folder, IF folder[Current] = None THEN [folder EXCEPT ![Current] = Own(used.calls)] ELSE folder}
  /\ unsure' = unsure \cup {Current} /\ UNCHANGED answer

\* durable_remove_exact of the published files, from the last to the first; what it
\* answers is ignored.
Removed(left) ==
  IF left = <<>> THEN Ends("failed") ELSE Step([op EXCEPT !.published = left]) /\ UNCHANGED answer
GiveUp == Running("bundle", "rollback") /\ op.published = <<>> /\ Ends("failed") /\ UNCHANGED <<folder, unsure, used>>
RemoveExact ==
  /\ Running("bundle", "rollback") /\ op.published # <<>>
  /\ folder' = [folder EXCEPT ![Last(op.published)] = IF @ = Own(used.calls) THEN None ELSE @]
  /\ Removed(Front(op.published)) /\ UNCHANGED <<unsure, used>>
RemoveFails ==
  /\ Running("bundle", "rollback") /\ op.published # <<>> /\ Faulty
  /\ unsure' = unsure \cup {Last(op.published)}
  /\ Removed(Front(op.published)) /\ UNCHANGED folder

\* write_export_file: the version that was there when it was looked at, or none.
WriteExport ==
  /\ Running("file", "write") /\ folder[op.file] = op.seen
  /\ Written(op.file) /\ Ends("written") /\ UNCHANGED <<unsure, used>>
WriteConflicts ==
  /\ Running("file", "write") /\ folder[op.file] # op.seen
  /\ Ends("failed") /\ UNCHANGED <<folder, unsure, used>>
WriteFails ==
  /\ Running("file", "write") /\ Faulty /\ Ends("failed") /\ UNCHANGED <<folder, unsure>>
WriteUnsure ==
  /\ Running("file", "write") /\ Faulty /\ Ends("failed")
  /\ folder' \in {folder, IF folder[op.file] = op.seen THEN [folder EXCEPT ![op.file] = Own(used.calls)] ELSE folder}
  /\ unsure' = {op.file}

Other(f) ==
  /\ used.foreign < MaxForeign /\ Spend("foreign")
  /\ folder' \in {[folder EXCEPT ![f] = None], [folder EXCEPT ![f] = Foreign(used.foreign + 1)]} \ {folder}
  /\ UNCHANGED <<op, answer, unsure>>

Program ==
  \/ SaveBundle \/ (\E f \in File : SaveExport(f)) \/ (\E why \in {"refused", "cancelled"} : StartsNothing(why))
  \/ PathExists \/ Publish \/ PublishConflicts \/ PublishFails \/ PublishUnsure
  \/ GiveUp \/ RemoveExact \/ RemoveFails
  \/ WriteExport \/ WriteConflicts \/ WriteFails \/ WriteUnsure
Next == Program \/ \E f \in File : Other(f)

Spec == Init /\ [][Next]_vars
-----------------------------------------------------------------------------
TypeOK ==
  /\ folder \in [File -> {None} \cup {Own(c) : c \in 1..MaxCalls} \cup {Foreign(n) : n \in 0..MaxForeign}]
  /\ unsure \subseteq File
  /\ answer # None => answer.says \in {"written", "failed", "refused", "cancelled"}

\* Of a bundle or a file that is said not to be written nothing is left that the call
\* was not left unsure of, and what is said to be written is all there, if no other
\* program took it (publish_new_bundle, write_export_file).
AnswersAreTrue ==
  answer # None =>
    LET own == {f \in File : folder[f] = Own(answer.call)}
    IN  /\ answer.says # "written" => own \subseteq unsure
        /\ (answer.says = "written" /\ used.foreign = 0) => own = answer.files

\* A file of another program is replaced only by the export of that one file, and only in
\* the version that was there when the export began (ExpectedFileState).
OthersAreLeft ==
  \A f \in File :
    (folder[f] # None /\ folder[f].by = "other" /\ folder'[f] # folder[f]) =>
      \/ used'.foreign > used.foreign
      \/ /\ op # None /\ op.kind = "file" /\ op.file = f /\ op.seen = folder[f]
         /\ folder'[f] = Own(used.calls)
=============================================================================
