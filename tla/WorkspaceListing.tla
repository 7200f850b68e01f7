-------------------------- MODULE WorkspaceListing --------------------------
(* The walk that lists a workspace's files and directories for the sidebar and *)
(* for the search index (workspace_snapshot.rs), and the receipt of a command  *)
(* that changed the workspace (capture_post_commit_workspace_receipt). Other   *)
(* programs change the tree, replace the root, and other commands revoke the   *)
(* workspace between any two of its steps.                                     *)
EXTENDS Integers, Sequences, FiniteSets, SequencesExt

CONSTANTS Paths,        \* the paths below the root: sequences of names, closed under prefixes
          Trees,        \* the trees to begin with
          Excluded,     \* the names that are never walked
          Unclassified, \* the names no kind of file has
          MaxEntries,   \* the limit of the walk for the index
          MaxChanges,   \* bound: changes of the tree
          MaxForeign,   \* bound: those, and swaps of the root
          Outside, None

VARIABLES tree,         \* what is at each path: a file, a directory, another thing, a link, or nothing
          root,         \* what is at the root: the directory that was selected, or another
          current,      \* the workspace's token is active
          op,           \* the running command, or None
          result,       \* the answer of the last command, or None
          used          \* the steps of others: changes, swaps of the root and a revocation

vars == <<tree, root, current, op, result, used>>

Plain(kind) == [kind |-> kind, to |-> None]
Link(p) == [kind |-> "link", to |-> p]
Things == {Plain(kind) : kind \in {"none", "file", "directory", "other"}}
            \cup {Link(p) : p \in Paths \cup {Outside}}

ListingConstants ==
  /\ \A p \in Paths : p # <<>> /\ (Len(p) > 1 => Front(p) \in Paths)
  /\ \A t \in Trees : t \in [Paths -> Things]
  /\ {MaxEntries, MaxChanges, MaxForeign} \subseteq Nat
-----------------------------------------------------------------------------
\* The path the operating system arrives at: links are followed, once each here.
Kind(p) == tree[p].kind
Through(p) == IF Kind(p) = "link" THEN tree[p].to ELSE p
Resolve(p) ==
  LET top == Through(SubSeq(p, 1, 1))
      below == IF top = Outside THEN Outside
               ELSE IF Len(p) = 1 THEN top
               ELSE IF top \o Tail(p) \in Paths THEN Through(top \o Tail(p)) ELSE None
  IN  IF below \in {None, Outside} THEN below
      ELSE IF Kind(below) \in {"link", "none"} THEN None
      ELSE IF Len(below) > 1 /\ Kind(Front(below)) # "directory" THEN None ELSE below

IsExcluded(p) == Last(p) \in Excluded
\* What a directory that is opened may hold: its entries with the types it gives for them.
\* What cannot be opened is an entry that fails, and of a directory outside nothing is known.
Entries(dir) == {p \in Paths : Front(p) = dir /\ Kind(p) # "none"}
Failing(dir) == <<[path |-> dir, kind |-> "failed"]>>
Readings(dir) ==
  LET there == IF dir = <<>> THEN dir ELSE Resolve(dir)
      kept == {[path |-> dir \o <<Last(p)>>, kind |-> Kind(p)] :
                 p \in {q \in Entries(there) : ~IsExcluded(q)}}
  IN  IF there = Outside THEN {<<>>, Failing(dir)}
      ELSE IF there = None \/ (there # <<>> /\ Kind(there) # "directory") THEN {Failing(dir)}
      ELSE {SetToSeq(kept)}

At(what) == op # None /\ op.at = what
Settled == UNCHANGED <<tree, root, current, used>>
Step(next) == op' = next /\ UNCHANGED result
Ends(what) ==
  /\ op' = None
  /\ result' = [says |-> what, command |-> op.command, found |-> op.found, roots |-> op.roots,
                restored |-> op.restored, quiet |-> used = op.since]
\* Whatever fails, a receipt only says that the listing it comes with is stale.
Fails == Ends(IF op.command = "receipt" THEN "stale" ELSE "error")

Unused == [changes |-> 0, swaps |-> 0, revoked |-> FALSE]
Init ==
  /\ tree \in Trees /\ root = "selected" /\ current = TRUE
  /\ op = None /\ result = None /\ used = Unused

\* Refreshing and indexing a workspace, and the receipt of a change to it, walk alike; the
\* first two check the token and the root before.
Begin(command) ==
  /\ op = None /\ result = None
  /\ command # "receipt" => current /\ root = "selected"
  /\ Step([command |-> command, at |-> "open", todo |-> <<>>, entry |-> None,
           walked |-> 0, found |-> {}, roots |-> {}, restored |-> FALSE, since |-> used])
  /\ Settled
Open ==
  /\ At("open") /\ Settled
  /\ \E todo \in Readings(<<>>) :
       Step([op EXCEPT !.at = "walk", !.todo = todo, !.roots = {root}])

\* A directory is opened when it is reached, before its own path is resolved.
Descents(e) == IF e.kind = "directory" THEN Readings(e.path) ELSE {<<>>}
Walk ==
  /\ At("walk") /\ op.todo # <<>> /\ Settled
  /\ LET e == Head(op.todo)
     IN  \/ /\ (op.command = "index" /\ op.walked = MaxEntries) \/ e.kind \in {"other", "failed"}
            /\ Fails
         \/ /\ ~(op.command = "index" /\ op.walked = MaxEntries) /\ e.kind \notin {"other", "failed"}
            /\ \E inside \in Descents(e) :
                 Step([op EXCEPT !.todo = inside \o Tail(@), !.walked = @ + 1, !.entry = e,
                                 !.roots = @ \cup {root},
                                 !.at = IF e.kind = "link" THEN "walk" ELSE "resolve"])

Canonicalize ==
  /\ At("resolve") /\ Settled
  /\ LET path == Resolve(op.entry.path)
     IN  IF path \in {None, Outside} THEN Fails
         ELSE Step([op EXCEPT !.at = "inspect", !.entry.path = path])
Capture(e) ==
  IF e.kind = "file" /\ Last(e.path) \in Unclassified THEN {} ELSE {e}
\* What is at the resolved path by now has to be what the directory gave for it: perhaps by
\* a link to the outside.
Inspect ==
  /\ At("inspect") /\ Settled
  /\ LET there == Resolve(op.entry.path)
         same == there \notin {None, Outside} /\ Kind(there) = op.entry.kind
     IN  \/ /\ same \/ there = Outside
            /\ Step([op EXCEPT !.at = "walk", !.found = @ \cup Capture(op.entry)])
         \/ ~same /\ Fails
\* Only the walk for the index can be cancelled, before it begins and before any entry.
Cancelled ==
  /\ op # None /\ op.command = "index" /\ Settled
  /\ (op.at = "open" \/ (op.at = "walk" /\ op.todo # <<>>))
  /\ Ends("cancelled")

\* The receipt and the index look again, at the token and then at the root.
Finish ==
  /\ At("walk") /\ op.todo = <<>> /\ Settled
  /\ IF op.command = "refresh" THEN Ends("listing")
     ELSE IF current THEN Step([op EXCEPT !.at = "bound"])
     ELSE Fails
IsCurrent ==
  /\ At("bound") /\ Settled
  /\ IF root = "selected" THEN Ends("listing") ELSE Fails

Spend(what) == used.changes + used.swaps < MaxForeign /\ used' = [used EXCEPT ![what] = @ + 1]
Change(p, thing) ==
  /\ Spend("changes") /\ used.changes < MaxChanges /\ tree[p] # thing
  /\ Len(p) > 1 => Kind(Front(p)) = "directory"
  /\ \A q \in Paths : (Len(q) > 1 /\ Front(q) = p) => Kind(q) = "none"
  /\ tree' = [tree EXCEPT ![p] = thing] /\ UNCHANGED <<root, current, op, result>>
ReplaceRoot ==
  /\ Spend("swaps") /\ root = "selected" /\ root' = "another"
  /\ UNCHANGED <<tree, current, op, result>>
\* Another program puts the selected directory back, perhaps while the other one is walked.
RestoreRoot ==
  /\ Spend("swaps") /\ root = "another" /\ root' = "selected"
  /\ op' = IF op = None THEN None ELSE [op EXCEPT !.restored = TRUE]
  /\ UNCHANGED <<tree, current, result>>
Revoke ==
  /\ current /\ current' = FALSE /\ used' = [used EXCEPT !.revoked = TRUE]
  /\ UNCHANGED <<tree, root, op, result>>
Answered == result # None /\ result' = None /\ UNCHANGED <<tree, root, current, op, used>>

Next ==
  \/ \E command \in {"refresh", "index", "receipt"} : Begin(command)
  \/ Open \/ Walk \/ Canonicalize \/ Inspect \/ Cancelled \/ Finish \/ IsCurrent \/ Answered
  \/ \E p \in Paths, thing \in Things : Change(p, thing)
  \/ ReplaceRoot \/ RestoreRoot \/ Revoke

Spec == Init /\ [][Next]_vars
-----------------------------------------------------------------------------
TypeOK ==
  /\ tree \in [Paths -> Things] /\ root \in {"selected", "another"} /\ current \in BOOLEAN
  /\ op # None => op.found \subseteq [path : Paths, kind : {"file", "directory"}]

\* What is below the root and reached without a link or an excluded name.
Reachable ==
  {p \in Paths : /\ \A n \in 1..Len(p) : p[n] \notin Excluded
                 /\ \A n \in 1..Len(p) - 1 : Kind(SubSeq(p, 1, n)) = "directory"
                 /\ Kind(p) # "none"}

\* A walk that nobody disturbs finds every file and directory that can be reached without
\* a link, and nothing else, and fails only at an entry that is neither or, for the index,
\* at the limit (capture_workspace_snapshot_with_options).
UndisturbedIsComplete ==
  (result # None /\ result.quiet /\ op = None /\ used = Unused) =>
    /\ result.says = "listing" =>
         result.found = {[path |-> p, kind |-> Kind(p)] :
                           p \in {q \in Reachable : \/ Kind(q) = "directory"
                                                    \/ (Kind(q) = "file" /\ Last(q) \notin Unclassified)}}
    /\ result.says \in {"error", "stale"} =>
         \/ \E p \in Reachable : Kind(p) = "other"
         \/ result.command = "index" /\ Cardinality(Reachable) > MaxEntries

\* A receipt that is not stale, and an index, list the directory the user selected and not
\* one that took its place while it was walked. The root is looked up by its path for each
\* directory and compared before and after the walk only (ensure_workspace_is_current), so
\* entries of another directory are found out unless the selected one was put back meanwhile.
FreshIsSelected ==
  (result # None /\ result.says = "listing" /\ result.command # "refresh") =>
    result.roots = {"selected"} \/ result.restored
=============================================================================
