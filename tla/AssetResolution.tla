-------------------------- MODULE AssetResolution --------------------------
(* The images and the drawings a note names by a relative path                 *)
(* (image_resolver.rs, resolve_markdown_image and read_markdown_excalidraw in  *)
(* commands.rs). An image is looked for below the note's directory and then    *)
(* below the workspace, and its file is allowed to the protocol the preview    *)
(* loads it with; a drawing is looked for below the note's directory only and  *)
(* is read at once. Other programs change what the paths lead to, and other    *)
(* commands revoke what may be read, in between.                               *)
EXTENDS Integers, Sequences

CONSTANTS Files,        \* canonical paths: where they are, and the kind of their name
          Contents,     \* what is at each path to begin with
          MaxOps, MaxFaults, MaxForeign,        \* bounds
          None

VARIABLES leads,        \* where the relative path leads from each base: a path, Blocked, or None
          holds,        \* what is at a path: a sound file, another, a directory, or nothing
          note,         \* where the note is: below the workspace, directly in it, or outside
          granted,      \* the directories that may be read
          scope,        \* the files the preview's protocol may load
          op,           \* the running command, or None
          answer,       \* the last command and its answer, or None
          used

vars == <<leads, holds, note, granted, scope, op, answer, used>>

Places == {"note", "workspace", "elsewhere"}
Bases == {"note", "workspace"}
Blocked == [place |-> "elsewhere", kind |-> "blocked"]
Things == {"sound", "unsound", "directory", "nothing"}

AssetConstants ==
  /\ \A f \in Files : f.place \in Places /\ f.kind \in {"image", "excalidraw"}
  /\ Contents \in [Files -> Things]
  /\ {MaxOps, MaxFaults, MaxForeign} \subseteq Nat
-----------------------------------------------------------------------------
Spend(what) == used' = [used EXCEPT ![what] = @ + 1]
World == <<leads, holds, note, granted>>
Ends(says, object) ==
  /\ op' = None
  /\ answer' = [ask |-> op.ask, says |-> says, object |-> object, faults |-> used'.faults - op.faults]
Fails(why) == Ends(why, None)
Step(next) == op' = next /\ UNCHANGED answer
At(what) == op # None /\ op.at = what

Init ==
  /\ leads \in [Bases -> Files \cup {Blocked, None}] /\ holds = Contents
  /\ note \in {"below", "at", "outside"} /\ granted \in SUBSET Bases
  /\ scope = {} /\ op = None /\ answer = None
  /\ used = [ops |-> 0, faults |-> 0, foreign |-> 0]

\* An active grant of the workspace is one of all that is below it.
CanRead(place) ==
  place \in granted \/ (place = "note" /\ note # "outside" /\ "workspace" \in granted)
\* The source is cut at its query, its escapes are decoded, and it must be relative.
IsRelative(ask) == ask.source = "relative"
\* The note itself must be readable, and so must the workspace when there is one.
Admits(ask) == CanRead("note") /\ IsRelative(ask) /\ (ask.root => "workspace" \in granted)
\* A drawing is for Markdown, and with a workspace for the notes of this workspace.
AdmitsEmbed(ask) == ask.markdown /\ (ask.root => note # "outside")
BasesOf(ask) ==
  IF ask.what = "image" /\ ask.root /\ note # "at" THEN <<"note", "workspace">> ELSE <<"note">>
Ask(ask) ==
  /\ op = None /\ used.ops < MaxOps /\ Spend("ops")
  /\ IF Admits(ask) /\ (ask.what = "embed" => AdmitsEmbed(ask))
     THEN Step([at |-> "look", ask |-> ask, bases |-> BasesOf(ask), object |-> None,
                faults |-> used.faults])
     ELSE /\ answer' = [ask |-> ask, says |-> "refused", object |-> None, faults |-> 0]
          /\ UNCHANGED op
  /\ UNCHANGED <<scope, World>>

\* Only a path that leads nowhere, or to no file, leaves the next base to be tried.
NextBase ==
  IF Len(op.bases) > 1 THEN Step([op EXCEPT !.at = "look", !.bases = Tail(@)]) ELSE Fails("missing")
Look ==
  /\ At("look") /\ UNCHANGED <<used, scope, World>>
  /\ LET f == leads[Head(op.bases)]
     IN  IF f = Blocked THEN Fails("blocked")
         ELSE IF f = None \/ holds[f] = "nothing" THEN NextBase
         ELSE Step([op EXCEPT !.at = "found", !.object = f])
IsFile(f) == holds[f] \in {"sound", "unsound"}
Measure ==
  /\ At("found") /\ UNCHANGED <<used, scope, World>>
  /\ IF IsFile(op.object) THEN Step([op EXCEPT !.at = "authorize"]) ELSE NextBase

\* A drawing stays below the workspace, or below the note's directory without one.
Boundary(ask) == IF ask.root THEN {"note", "workspace"} ELSE {"note"}
Embeds(f, ask) == f.place \in Boundary(ask) /\ f.kind = "excalidraw"
Authorized ==
  /\ At("authorize") /\ UNCHANGED <<used, scope, World>>
  /\ IF ~CanRead(op.object.place) THEN Fails("escaped")
     ELSE IF op.ask.what = "image" THEN Step([op EXCEPT !.at = "allow"])
     ELSE IF Embeds(op.object, op.ask) THEN Step([op EXCEPT !.at = "read"]) ELSE Fails("escaped")

\* retry_asset_scope_sync: once more when the first call fails.
InScope(f) == used' \in {used, [used EXCEPT !.faults = @ + 1]} /\ scope' = scope \cup {f}
NotInScope == used' = [used EXCEPT !.faults = @ + 2] /\ UNCHANGED scope
Allow ==
  /\ At("allow")
  /\ \/ InScope(op.object) /\ Ends("shown", op.object)
     \/ NotInScope /\ Fails("scope")
  /\ used'.faults <= MaxFaults /\ UNCHANGED World

\* The drawing is read by its canonical path, and what is there by then must be sound.
ReadEmbed ==
  /\ At("read") /\ UNCHANGED <<used, scope, World>>
  /\ IF holds[op.object] = "sound" THEN Ends("shown", op.object) ELSE Fails("unreadable")

\* What others do to the paths of the running command, and to what may be read.
Foreign ==
  /\ op # None /\ used.foreign < MaxForeign /\ Spend("foreign")
  /\ \/ \E b \in Bases, f \in Files \cup {Blocked, None} :
          leads' = [leads EXCEPT ![b] = f] /\ UNCHANGED <<holds, granted>>
     \/ \E thing \in Things :
          /\ op.object # None /\ holds' = [holds EXCEPT ![op.object] = thing]
          /\ UNCHANGED <<leads, granted>>
     \/ \E b \in granted : granted' = granted \ {b} /\ UNCHANGED <<leads, holds>>
  /\ UNCHANGED <<note, scope, op, answer>>

Asks == [what : {"image", "embed"}, source : {"relative", "unsafe"}, root : BOOLEAN, markdown : BOOLEAN]
Next ==
  \/ \E ask \in Asks : Ask(ask)
  \/ Look \/ Measure \/ Authorized \/ Allow \/ ReadEmbed \/ Foreign

Spec == Init /\ [][Next]_vars
-----------------------------------------------------------------------------
TypeOK ==
  /\ leads \in [Bases -> Files \cup {Blocked, None}] /\ holds \in [Files -> Things]
  /\ granted \subseteq Bases /\ scope \subseteq Files

\* What is shown is the file nearest to the note, the preview may load it, a file that is
\* near and may be read is not passed over for the workspace's, and a file is missing only
\* if there is none below any base; while others are at it an image that is shown may still
\* be loaded, and nothing outside the note's directory and the workspace is shown
\* (resolve_relative_preview_asset_path_inner).
NearestIsShown ==
  answer # None =>
    LET ask == answer.ask
        bases == {b \in Bases : b = "note" \/ (ask.what = "image" /\ ask.root /\ note # "at")}
        there == {b \in bases : leads[b] = Blocked \/ (leads[b] # None /\ IsFile(leads[b]))}
        nearest == leads[IF "note" \in there THEN "note" ELSE "workspace"]
    IN  /\ answer.says = "shown" => answer.object.place # "elsewhere"
        /\ (answer.says = "shown" /\ ask.what = "image") => answer.object \in scope
        /\ (answer.says = "shown" /\ ask.what = "embed") => Embeds(answer.object, ask)
        /\ used.foreign = 0 =>
             /\ answer.says = "shown" => (there # {} /\ answer.object = nearest)
             /\ answer.says = "missing" => there = {}
             /\ (/\ there # {} /\ nearest # Blocked /\ CanRead(nearest.place)
                 /\ Admits(ask) /\ answer.faults < 2
                 /\ ask.what = "embed" =>
                      AdmitsEmbed(ask) /\ Embeds(nearest, ask) /\ holds[nearest] = "sound")
                => answer.says = "shown"
=============================================================================
