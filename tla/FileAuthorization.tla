--------------------------- MODULE FileAuthorization ---------------------------
(***************************************************************************)
(* FileAuthorizationSession of src-tauri/src/path_auth.rs: which paths the *)
(* user has given MMD by opening, saving or creating a document or by      *)
(* selecting a workspace, and how that follows renames, moves to the       *)
(* trash and changes other programs make.                                  *)
(*                                                                         *)
(* auth is AuthorizationState, the record behind the session's mutex; an   *)
(* operation of `impl AuthorizationState` is an operator from one such     *)
(* record to the next, and a critical section is one action.  Commands     *)
(* run one at a time on the main thread; dialogs, receipts, the document   *)
(* watch and the preview server come from other threads, so they fall      *)
(* between the two critical sections of a rename that reported an error.   *)
(***************************************************************************)
EXTENDS Naturals, FiniteSets, SequencesExt

CONSTANTS
  Directories,    \* paths: sequences of names
  Files,
  Moves,          \* the pairs of paths somebody renames
  Roots,          \* the directories a user selects as workspaces
  Disk,           \* the object at every path when MMD starts, 0 for none
  MaxForeign,     \* bound: steps of other programs
  MaxObjects,     \* bound: file system objects ever created
  MaxTokens,      \* bound: workspaces selected
  MaxDocuments,   \* bound: documents opened, created or saved under a new name
  MaxLeases,      \* bound: previews
  MaxGeneration,  \* bound: authorization_generation
  MaxReceipts,    \* MAX_PENDING_OPENS of the open receipts
  MaxPendingRoots,\* MAX_PENDING_WORKSPACE_AUTHORITIES
  NoRename        \* no rename awaits its observation

Paths == Directories \union Files

(* Paths are sequences of names; a renamed file stays a file, a renamed     *)
(* directory a directory, and nothing lies below a file.                   *)
ASSUME PathAssumption ==
  /\ \A p \in Paths : p \in Seq(Range(p))
  /\ \A p \in Paths : Len(p) > 1 => Front(p) \in Directories
  /\ \A f \in Files : Len(f) > 1
  /\ Directories \intersect Files = {}
  /\ \A f \in Files, p \in Paths : IsPrefix(f, p) => p = f
  /\ Roots \subseteq Directories
  /\ Moves \subseteq Paths \X Paths
  /\ \A m \in Moves : /\ Len(m[1]) > 1 /\ Len(m[2]) > 1
                      /\ \A p \in Paths : IsPrefix(m[1], p) =>
                           LET q == m[2] \o SubSeq(p, Len(m[1]) + 1, Len(p))
                           IN  q \in (IF p \in Files THEN Files ELSE Directories)
ASSUME DiskAssumption ==
  LET objects == Cardinality({p \in Paths : Disk[p] # 0})
  IN  /\ IsFiniteSet(Paths)
      /\ objects <= MaxObjects
      /\ Disk \in [Paths -> 0..objects]
      /\ \A p, q \in Paths : Disk[p] = Disk[q] => p = q \/ Disk[p] = 0
ASSUME BoundAssumption ==
  {MaxForeign, MaxObjects, MaxTokens, MaxDocuments, MaxLeases, MaxGeneration,
   MaxReceipts, MaxPendingRoots} \subseteq Nat

VARIABLES
  tree,      \* the object (platform identity) at every path, 0 for none
  born,      \* how many objects exist
  foreign,   \* count of the steps of other programs
  auth,      \* AuthorizationState
  held,      \* the PendingSaveAuthority values that callers still hold
  receipts,  \* reads that wait for their open to be committed
  renaming,  \* a rename that failed and has not been observed yet
  watched,   \* the documents under watch: [path, object]
  \* History: what the properties speak of.
  chosen,    \* the root object a user selected, by token
  bound      \* the documents opened through a workspace

env  == <<tree, born, foreign>>
hist == <<chosen, bound>>
vars == <<env, auth, held, receipts, renaming, watched, hist>>

-------------------------------------------------------------------------------
(* Paths, grant keys and grant origins.                                    *)

IsUnder(p, q)          == IsPrefix(q, p)
IsUnderAny(p, ps)      == \E q \in ps : IsUnder(p, q)
Relocated(p, old, new) == IF IsUnder(p, old) THEN new \o SubSeq(p, Len(old) + 1, Len(p)) ELSE p

Exact(p) == [kind |-> "exact", path |-> p]
Dir(p)   == [kind |-> "directory", path |-> p]
Asset(p) == [kind |-> "asset", path |-> p]
Keys     == {Exact(p) : p \in Files} \union {Dir(p) : p \in Directories}
            \union {Asset(p) : p \in Directories}

(* A rename that failed: what it suspended, and what has been found at its *)
(* old and then at its new path.                                           *)
Looks     == {"matches", "missing", "unclear"}
Renamings == [old : Paths, new : Paths, transitioned : SUBSET Keys,
              found : UNION {[1..n -> Looks] : n \in 0..2}]
ASSUME RenameAssumption == NoRename \notin Renamings

Origin(k, i)        == [kind |-> k, id |-> i, document |-> <<>>, anchor |-> <<>>]
Workspace(t)        == Origin("workspace", t)
Open(i)             == Origin("open", i)
SaveAs(i)           == Origin("saveAs", i)
Created(i)          == Origin("created", i)
Preview(i, doc, at) == [kind |-> "preview", id |-> i, document |-> doc, anchor |-> at]

(* PreviewLeaseId::intersects_prefix.                                      *)
Intersects(lease, p) == IsUnder(lease.document, p) \/ (lease.anchor # <<>> /\ IsUnder(lease.anchor, p))

-------------------------------------------------------------------------------
(* Which origins still speak for a path: a.grants as it is, fs the tree.   *)

RootIsCurrent(a, fs, t) ==
  t \in DOMAIN a.workspaces /\ fs[a.workspaces[t].root] = a.workspaces[t].identity

DirectoryReadIsCurrent(a, fs, root) ==
  \E t \in DOMAIN a.workspaces :
    /\ Workspace(t) \in a.grants[Dir(root)].origins
    /\ a.workspaces[t].root = root
    /\ RootIsCurrent(a, fs, t)

WorkspaceOriginIsCurrent(a, fs, t, p) ==
  RootIsCurrent(a, fs, t) /\ IsUnder(p, a.workspaces[t].root)

OriginIsCurrent(a, fs, p, o) ==
  \/ o.kind = "workspace" /\ WorkspaceOriginIsCurrent(a, fs, o.id, p)
  \/ /\ o.kind = "open"
     /\ o.id \in DOMAIN a.documentWorkspace =>
          WorkspaceOriginIsCurrent(a, fs, a.documentWorkspace[o.id], p)
  \/ o.kind \in {"saveAs", "created"}

ExactOriginIsCurrent(a, fs, p, o) ==
  /\ OriginIsCurrent(a, fs, p, o)
  /\ o.kind = "open" /\ o.id \in DOMAIN a.identity => fs[p] = a.identity[o.id]

Active(a) == {k \in DOMAIN a.grants : a.grants[k].active /\ a.grants[k].origins # {}}

(* exact_grant_is_current.                                                 *)
HasExactAuthority(a, fs, p) ==
  /\ Exact(p) \in Active(a)
  /\ \E o \in a.grants[Exact(p)].origins :
       o.kind \in {"open", "saveAs", "created"} /\ ExactOriginIsCurrent(a, fs, p, o)

(* active_authority_origins_for_path.                                      *)
AuthorityOrigins(a, fs, p) ==
  {o \in UNION {a.grants[k].origins : k \in Active(a)} :
     \/ /\ Exact(p) \in Active(a) /\ o \in a.grants[Exact(p)].origins
        /\ ExactOriginIsCurrent(a, fs, p, o)
     \/ \E k \in Active(a) :
          /\ k.kind = "directory" /\ IsUnder(p, k.path) /\ o \in a.grants[k].origins
          /\ DirectoryReadIsCurrent(a, fs, k.path)
          /\ OriginIsCurrent(a, fs, p, o)}

(* ledger_shares_current_origin.                                           *)
Shares(a, fs, k, origins) ==
  \E o \in a.grants[k].origins \intersect origins : OriginIsCurrent(a, fs, k.path, o)

(* The directories that give a document, anchored at another, its assets.  *)
Supporting(a, fs, document, anchor) ==
  {k \in Active(a) : /\ k.kind \in {"directory", "asset"}
                     /\ IsUnder(document, k.path) /\ IsUnder(anchor, k.path)
                     /\ Shares(a, fs, k, AuthorityOrigins(a, fs, anchor))}

LeaseIsSupported(a, fs, l) ==
  Supporting(a, fs, l.document, IF l.anchor = <<>> THEN l.document ELSE l.anchor) # {}

Leases(a) == {o \in UNION {a.grants[k].origins : k \in DOMAIN a.grants} : o.kind = "preview"}

(* workspace_for_token.                                                    *)
TokenIsActive(a, fs, t) ==
  /\ RootIsCurrent(a, fs, t)
  /\ Dir(a.workspaces[t].root) \in Active(a)
  /\ Workspace(t) \in a.grants[Dir(a.workspaces[t].root)].origins

-------------------------------------------------------------------------------
(* impl AuthorizationState: from one state to the next.                    *)

Put(g, k, o) ==
  [x \in DOMAIN g \union {k} |->
     IF x # k THEN g[x]
     ELSE [active |-> TRUE, origins |-> {o} \union IF k \in DOMAIN g THEN g[k].origins ELSE {}]]

Grant(a, k, o) == [a EXCEPT !.generation = @ + 1, !.grants = Put(@, k, o)]

(* grant_exact_file.                                                       *)
GrantFile(a, f, o) == Grant(Grant(a, Exact(f), o), Asset(Front(f)), o)

Suspend(a, ks) ==
  [a EXCEPT !.grants = [k \in DOMAIN @ |-> IF k \in ks THEN [@[k] EXCEPT !.active = FALSE] ELSE @[k]]]

(* Mutant of RevokeOrigins: the provenance of a document forgotten with    *)
(* any of its origins.                                                     *)
RevokeOriginsAndAllProvenance(a, os) ==
  LET left(k) == a.grants[k].origins \ os
  IN  [a EXCEPT
         !.grants = [k \in {x \in DOMAIN @ : left(x) # {}} |-> [@[k] EXCEPT !.origins = left(k)]],
         !.workspaces = Restrict(@, {t \in DOMAIN @ : Workspace(t) \notin os}),
         !.documentWorkspace = Restrict(@, {}),
         !.identity = Restrict(@, {})]

(* Mutant of RevokeOrigins: ledgers without origins kept.                  *)
RevokeOriginsOnly(a, os) ==
  [a EXCEPT !.grants = [k \in DOMAIN @ |-> [@[k] EXCEPT !.origins = @ \ os]],
            !.workspaces = Restrict(@, {t \in DOMAIN @ : Workspace(t) \notin os}),
            !.documentWorkspace = Restrict(@, {i \in DOMAIN @ : Open(i) \notin os}),
            !.identity = Restrict(@, {i \in DOMAIN @ : Open(i) \notin os})]

(* revoke_origin_raw, of each of these origins.                            *)
RevokeOrigins(a, os) ==
  LET left(k) == a.grants[k].origins \ os
  IN  [a EXCEPT
         !.grants = [k \in {x \in DOMAIN @ : left(x) # {}} |-> [@[k] EXCEPT !.origins = left(k)]],
         !.workspaces = Restrict(@, {t \in DOMAIN @ : Workspace(t) \notin os}),
         !.documentWorkspace = Restrict(@, {i \in DOMAIN @ : Open(i) \notin os}),
         !.identity = Restrict(@, {i \in DOMAIN @ : Open(i) \notin os})]

(* The leases of the ledgers below these paths, and those that name a file *)
(* below them.                                                             *)
LeasesTouching(a, ps) ==
  {l \in Leases(a) :
     \/ \E p \in ps : Intersects(l, p)
     \/ \E k \in DOMAIN a.grants : IsUnderAny(k.path, ps) /\ l \in a.grants[k].origins}

(* The active file and asset ledgers below these paths.                    *)
Suspendable(a, ps) ==
  {k \in DOMAIN a.grants : k.kind # "directory" /\ IsUnderAny(k.path, ps) /\ a.grants[k].active}

(* suspend_rename_path_prefixes, of the old path and the new one.          *)
SuspendRename(a, ps) ==
  IF Suspendable(a, ps) = {} THEN a
  ELSE [Suspend(a, Suspendable(a, ps)) EXCEPT !.generation = @ + 1]

RestoreRename(a, transitioned) ==
  LET back == {k \in transitioned \intersect DOMAIN a.grants : ~a.grants[k].active}
  IN  IF back = {} THEN a
      ELSE [a EXCEPT !.generation = @ + 1,
                     !.grants = [k \in DOMAIN @ |->
                        IF k \in back THEN [@[k] EXCEPT !.active = TRUE] ELSE @[k]]]

(* Mutant of FinalizeRename: the second suspension left out.               *)
FinalizeRenameOnce(a, ps) == RevokeOrigins(a, LeasesTouching(a, ps))

(* finalize_indeterminate_rename: what was granted in the meantime below   *)
(* either path is suspended too, and every preview of them ends.           *)
FinalizeRename(a, ps) == RevokeOrigins(SuspendRename(a, ps), LeasesTouching(a, ps))

(* GrantLedger::merge, of the ledgers that meet at one key.                *)
Merge(ledgers) ==
  LET live == {l \in ledgers : l.active}
  IN  [active |-> live # {},
       origins |-> UNION {l.origins : l \in IF live # {} THEN live ELSE ledgers}]

(* Keys, ledgers and workspaces, with what was below old below new.        *)
Rekeyed(k, old, new) == [k EXCEPT !.path = Relocated(@, old, new)]

MovedGrants(g, old, new) ==
  [k \in {Rekeyed(x, old, new) : x \in DOMAIN g} |->
     Merge({g[x] : x \in {y \in DOMAIN g : Rekeyed(y, old, new) = k}})]

MovedWorkspaces(w, old, new) ==
  [t \in DOMAIN w |-> [w[t] EXCEPT !.root = Relocated(@, old, new)]]

(* Mutant of RelocatePrefix: the workspaces below the prefix not moved.    *)
RelocateGrantsOnly(a, old, new, object) ==
  [RevokeOrigins(a, LeasesTouching(a, {old, new})) EXCEPT
     !.generation = @ + 1, !.grants = MovedGrants(@, old, new)]

(* relocate_path_prefix_with_identity; object is 0 when none is expected.  *)
RelocatePrefix(a, old, new, object) ==
  LET unbound  == {i \in 1..a.nextDocument : /\ object # 0 /\ i \notin DOMAIN a.identity
                     /\ \E k \in Suspendable(a, {old}) :
                          k.kind = "exact" /\ Open(i) \in a.grants[k].origins}
      b        == RevokeOrigins(a, LeasesTouching(a, {old, new}))
      changes  == \/ \E t \in DOMAIN a.workspaces : IsUnder(a.workspaces[t].root, old)
                  \/ \E k \in DOMAIN a.grants : IsUnder(k.path, old)
                  \/ \E l \in Leases(a) : Intersects(l, old) \/ Intersects(l, new)
  IN  IF ~changes THEN a
      ELSE [b EXCEPT
              !.generation = @ + 1,
              !.workspaces = MovedWorkspaces(@, old, new),
              !.grants = MovedGrants(@, old, new),
              !.identity = [i \in DOMAIN @ \union unbound |->
                              IF i \in unbound THEN object ELSE @[i]]]

SuspendDelete(a, p) ==
  LET suspended == Suspendable(a, {p})
      leases    == LeasesTouching(a, {p})
  IN  IF suspended = {} /\ leases = {} THEN a
      ELSE [RevokeOrigins(Suspend(a, suspended), leases) EXCEPT !.generation = @ + 1]

(* Mutant of RevokePrefix: previews left without support.                  *)
RevokePrefixOnly(a, fs, p) ==
  LET touched == {k \in DOMAIN a.grants : IsUnder(k.path, p)}
  IN  [RevokeOrigins(a, UNION {a.grants[k].origins : k \in touched}
                        \union LeasesTouching(a, {p})) EXCEPT !.generation = @ + 1]

(* revoke_path_prefix, with the previews that lose their support.          *)
RevokePrefix(a, fs, p) ==
  LET touched == {k \in DOMAIN a.grants : IsUnder(k.path, p)}
      changes == \/ touched # {}
                 \/ \E t \in DOMAIN a.workspaces : IsUnder(a.workspaces[t].root, p)
                 \/ \E l \in Leases(a) : Intersects(l, p)
      b == RevokeOrigins(a, UNION {a.grants[k].origins : k \in touched}
                            \union LeasesTouching(a, {p}))
      c == [b EXCEPT !.generation = @ + 1,
                     !.workspaces = Restrict(@, {t \in DOMAIN @ : ~IsUnder(@[t].root, p)})]
  IN  IF ~changes THEN a
      ELSE RevokeOrigins(c, {l \in Leases(c) : ~LeaseIsSupported(c, fs, l)})

(* publish_workspace_with_token.                                           *)
PublishWorkspace(a, t, root, object) ==
  LET b == Grant(Grant(a, Dir(root), Workspace(t)), Asset(root), Workspace(t))
  IN  [b EXCEPT !.workspaces = [x \in DOMAIN @ \union {t} |->
                                  IF x = t THEN [root |-> root, identity |-> object] ELSE @[x]]]

-------------------------------------------------------------------------------
(* Saves: SaveAuthorizationScope.                                          *)

MatchesPending(a, h) ==
  /\ h.generation = a.generation
  /\ h.id \in DOMAIN a.pendingSaves
  /\ a.pendingSaves[h.id].path = h.path

(* reserve_pending_save_authority: one reservation at a time.              *)
Reserve(a, f) ==
  LET keys == {Exact(f), Asset(Front(f))}
  IN  [a EXCEPT !.generation = @ + 1, !.nextDocument = @ + 1,
                !.pendingSaves = [i \in {a.nextDocument} |->
                   [path |-> f, existing |-> keys \intersect DOMAIN a.grants,
                    fresh |-> keys \ DOMAIN a.grants]]]

(* publish_pending, which expects to find the reserved ledgers.            *)
Publish(a, h) ==
  LET o == SaveAs(h.id)
  IN  [a EXCEPT !.generation = @ + 1,
                !.pendingSaves = Restrict(@, DOMAIN @ \ {h.id}),
                !.grants = Put(Put(@, Exact(h.path), o), Asset(Front(h.path)), o)]

(* invalidate_pending and cancel_pending_save_authority.                   *)
Invalidate(a, h) ==
  IF h.id \notin DOMAIN a.pendingSaves THEN a
  ELSE [a EXCEPT !.pendingSaves = Restrict(@, DOMAIN @ \ {h.id}),
                 !.generation = IF h.generation = @ THEN @ + 1 ELSE @]

(* Mutant of IdentityOrigins: stale documents captured too.                *)
AllIdentityOrigins(a, fs, f) ==
  {i \in DOMAIN a.identity :
     Exact(f) \in Active(a) /\ Open(i) \in a.grants[Exact(f)].origins}

(* capture_identity_origins: the documents at f bound to its object.       *)
IdentityOrigins(a, fs, f) ==
  {i \in DOMAIN a.identity :
     /\ Exact(f) \in Active(a) /\ Open(i) \in a.grants[Exact(f)].origins
     /\ ExactOriginIsCurrent(a, fs, f, Open(i))}

(* settle_identity_origins: they are bound to what the save put there.     *)
Settle(a, ids, object, generation) ==
  IF \A i \in ids : a.identity[i] = object THEN a
  ELSE [a EXCEPT !.generation = generation,
                 !.identity = [i \in DOMAIN @ |-> IF i \in ids THEN object ELSE @[i]]]

(* What a committed write to f leaves of the authority.                    *)
Settled(a, b, fs, f, object) == Settle(b, IdentityOrigins(a, fs, f), object, a.generation + 1)

-------------------------------------------------------------------------------
Init ==
  /\ tree = Disk
  /\ born = Cardinality({p \in Paths : Disk[p] # 0})
  /\ foreign = 0
  /\ auth = [grants |-> <<>>, workspaces |-> <<>>, documentWorkspace |-> <<>>,
             identity |-> <<>>, pendingSaves |-> <<>>, pendingRoots |-> <<>>,
             generation |-> 0, nextToken |-> 1, nextDocument |-> 1, nextLease |-> 1]
  /\ held = {}
  /\ receipts = {}
  /\ renaming = NoRename
  /\ watched = {}
  /\ chosen = <<>>
  /\ bound = {}

MainThread == renaming = NoRename

(* The checked additions to authorization_generation and the identifiers.  *)
Become(a) ==
  /\ auth' = a
  /\ a.generation <= MaxGeneration
  /\ a.nextDocument <= MaxDocuments + 1
  /\ a.nextToken <= MaxTokens + 1
  /\ a.nextLease <= MaxLeases + 1

Chosen(t, object) == chosen' = [x \in DOMAIN chosen \union {t} |-> IF x = t THEN object ELSE chosen[x]]

(* What a write leaves at f: a new object.                                 *)
Written(f) ==
  /\ born < MaxObjects
  /\ born' = born + 1
  /\ tree' = [tree EXCEPT ![f] = born + 1]

Moved(src, dst) ==
  [p \in Paths |->
     IF IsUnder(p, dst) /\ Relocated(p, dst, src) \in Paths THEN tree[Relocated(p, dst, src)]
     ELSE IF IsUnder(p, src) THEN 0 ELSE tree[p]]

Removed(src) == [p \in Paths |-> IF IsUnder(p, src) THEN 0 ELSE tree[p]]

-------------------------------------------------------------------------------
(* Workspaces.                                                             *)

(* open_workspace and open_resource_directory, from a directory dialog.    *)
OpenDirectory(r) ==
  /\ tree[r] # 0
  /\ Become([PublishWorkspace(auth, auth.nextToken, r, tree[r]) EXCEPT !.nextToken = @ + 1])
  /\ Chosen(auth.nextToken, tree[r])
  /\ UNCHANGED <<env, held, receipts, renaming, watched, bound>>

(* prepare_workspace_authorization: nothing is granted yet.                *)
PrepareWorkspace(r) ==
  /\ MainThread
  /\ tree[r] # 0
  /\ Cardinality(DOMAIN auth.pendingRoots) < MaxPendingRoots
  /\ LET t == auth.nextToken
     IN  /\ Become([auth EXCEPT !.nextToken = @ + 1,
                      !.pendingRoots = [x \in DOMAIN @ \union {t} |->
                         IF x = t THEN [root |-> r, identity |-> tree[r]] ELSE @[x]]])
         /\ Chosen(t, tree[r])
  /\ UNCHANGED <<env, held, receipts, renaming, watched, bound>>

(* settle_workspace_authorization of a receipt whose time has not passed:  *)
(* discarded, refused, transport failed after the publication, or applied. *)
SettleWorkspace(t) ==
  LET p == auth.pendingRoots[t]
      a == [auth EXCEPT !.pendingRoots = Restrict(@, DOMAIN @ \ {t})]
      b == PublishWorkspace(a, t, p.root, tree[p.root])
  IN  /\ MainThread
      /\ \/ Become(a)
         \/ /\ tree[p.root] = p.identity
            /\ Become(b) \/ Become(RevokeOrigins(b, {Workspace(t)}))
      /\ UNCHANGED <<env, held, receipts, renaming, watched, hist>>

(* PENDING_WORKSPACE_AUTHORITY_TTL.                                        *)
ExpireWorkspace(t) ==
  /\ auth' = [auth EXCEPT !.pendingRoots = Restrict(@, DOMAIN @ \ {t})]
  /\ UNCHANGED <<env, held, receipts, renaming, watched, hist>>

-------------------------------------------------------------------------------
(* Opening: a read whose receipt is committed later.                       *)

(* The workspace through which open_file_for_read opens f: the deepest.    *)
ReadsThrough(t, f) ==
  LET covers(x) == /\ RootIsCurrent(auth, tree, x) /\ IsUnder(f, auth.workspaces[x].root)
                   /\ Dir(auth.workspaces[x].root) \in Active(auth)
                   /\ Workspace(x) \in auth.grants[Dir(auth.workspaces[x].root)].origins
  IN  /\ covers(t)
      /\ \A x \in DOMAIN auth.workspaces :
           covers(x) => Len(auth.workspaces[x].root) <= Len(auth.workspaces[t].root)

(* A file chosen in a dialog or recent list, or one with exact authority,  *)
(* is not bound to an object; one read through a workspace is.             *)
PrepareOpen(f) ==
  /\ tree[f] # 0
  /\ Cardinality(receipts) < MaxReceipts
  /\ \/ receipts' = receipts \union {[path |-> f, token |-> 0, root |-> 0, object |-> 0]}
     \/ \E t \in DOMAIN auth.workspaces :
          /\ MainThread /\ ReadsThrough(t, f)
          /\ receipts' = receipts \union
               {[path |-> f, token |-> t, root |-> auth.workspaces[t].identity, object |-> tree[f]]}
  /\ UNCHANGED <<env, auth, held, renaming, watched, hist>>

DropReceipt(r) ==
  /\ receipts' = receipts \ {r}
  /\ UNCHANGED <<env, auth, held, renaming, watched, hist>>

(* workspace_read_authorization_is_current.                                *)
ReceiptIsCurrent(r) ==
  r.token # 0 =>
    /\ RootIsCurrent(auth, tree, r.token)
    /\ auth.workspaces[r.token].identity = r.root
    /\ IsUnder(r.path, auth.workspaces[r.token].root)
    /\ tree[r.path] = r.object

(* with_prepared_open_document_grant_inner and apply, under one lock: one  *)
(* advance for both ledgers.                                               *)
CommitOpen(r) ==
  LET i == auth.nextDocument
      extend(m, v) == [x \in DOMAIN m \union {i} |-> IF x = i THEN v ELSE m[x]]
      a == [GrantFile(auth, r.path, Open(i)) EXCEPT
              !.generation = auth.generation + 1, !.nextDocument = @ + 1]
  IN  /\ MainThread
      /\ tree[r.path] # 0
      /\ ReceiptIsCurrent(r)
      /\ IF r.token = 0 THEN Become(a)
         ELSE Become([a EXCEPT !.documentWorkspace = extend(@, r.token),
                               !.identity = extend(@, r.object)])
      /\ bound' = IF r.token = 0 THEN bound ELSE bound \union {i}
      /\ receipts' = receipts \ {r}
      /\ UNCHANGED <<env, held, renaming, watched, chosen>>

-------------------------------------------------------------------------------
(* The commands of a workspace.                                            *)

(* workspace_entry_for_mutation_locked.                                    *)
MayMutate(t, p) ==
  /\ TokenIsActive(auth, tree, t)
  /\ tree[p] # 0
  /\ IsUnder(p, auth.workspaces[t].root)
  /\ \A x \in DOMAIN auth.workspaces : TokenIsActive(auth, tree, x) => auth.workspaces[x].root # p

(* relocate_workspace_entry.  A failed rename may have happened or not;    *)
(* what it may have touched is suspended until the outcome is observed.    *)
Rename(t, src, dst) ==
  /\ MainThread
  /\ MayMutate(t, src)
  /\ tree[dst] = 0
  /\ tree[Front(dst)] # 0
  /\ IsUnder(Front(dst), auth.workspaces[t].root) /\ ~IsUnder(Front(dst), src)
  /\ \/ /\ tree' = Moved(src, dst)
        /\ Become(RelocatePrefix(auth, src, dst, 0))
        /\ UNCHANGED renaming
     \/ /\ tree' \in {tree, Moved(src, dst)}
        /\ Become(SuspendRename(auth, {src, dst}))
        /\ renaming' = [old |-> src, new |-> dst, transitioned |-> Suspendable(auth, {src, dst}), found |-> <<>>]
  /\ UNCHANGED <<born, foreign, held, receipts, watched, hist>>

(* rename_path_evidence of a path, without the lock.                       *)
Evidence(p) == {IF tree[p] = 0 THEN "missing" ELSE "matches", "unclear"}

(* observe_rename_after_error: the old path first, then the new one.       *)
ObserveRename ==
  /\ renaming # NoRename /\ Len(renaming.found) < 2
  /\ \E e \in Evidence(IF renaming.found = <<>> THEN renaming.old ELSE renaming.new) :
       renaming' = [old |-> renaming.old, new |-> renaming.new, transitioned |-> renaming.transitioned,
                    found |-> Append(renaming.found, e)]
  /\ UNCHANGED <<env, auth, held, receipts, watched, hist>>

(* reconcile_rename_after_error, by what was found.                        *)
ReconcileRename ==
  /\ renaming # NoRename /\ Len(renaming.found) = 2
  /\ LET old == renaming.old
         new == renaming.new
         restored == RestoreRename(auth, renaming.transitioned)
     IN  IF renaming.found = <<"matches", "missing">> THEN Become(restored)
         ELSE IF renaming.found = <<"missing", "matches">> THEN Become(RelocatePrefix(restored, old, new, 0))
         ELSE Become(FinalizeRename(auth, {old, new}))
  /\ renaming' = NoRename
  /\ UNCHANGED <<env, held, receipts, watched, hist>>

(* trash_workspace_entry, with the three answers of the trash.             *)
Trash(t, src) ==
  /\ MainThread
  /\ MayMutate(t, src)
  /\ \/ /\ tree' = Removed(src)
        /\ Become(RevokePrefix(auth, tree', src))
     \/ /\ tree' \in {tree, Removed(src)}
        /\ Become(SuspendDelete(auth, src))
  /\ UNCHANGED <<born, foreign, held, receipts, renaming, watched, hist>>

CreateFile(t, f) ==
  /\ MainThread
  /\ TokenIsActive(auth, tree, t)
  /\ tree[Front(f)] # 0 /\ IsUnder(Front(f), auth.workspaces[t].root)
  /\ tree[f] = 0
  /\ Written(f)
  /\ Become([GrantFile(auth, f, Created(auth.nextDocument)) EXCEPT !.nextDocument = @ + 1])
  /\ UNCHANGED <<foreign, held, receipts, renaming, watched, hist>>

-------------------------------------------------------------------------------
(* Previews.                                                               *)

Lease(root, doc, anchor) ==
  LET l == Preview(auth.nextLease, doc, anchor)
  IN  Become([Grant(auth, Asset(root), l) EXCEPT !.nextLease = @ + 1])

(* preview_scope_for: the deepest directory that supports the document.    *)
PreviewFile(f) ==
  /\ MainThread
  /\ tree[f] # 0
  /\ \E k \in Supporting(auth, tree, f, f) :
       /\ \A x \in Supporting(auth, tree, f, f) : Len(x.path) <= Len(k.path)
       /\ Lease(k.path, f, <<>>)
  /\ UNCHANGED <<env, held, receipts, renaming, watched, hist>>

(* preview_scope_for_anchored_file_with_root, with the workspace root or   *)
(* without one.                                                            *)
PreviewEmbed(anchor, f) ==
  /\ MainThread
  /\ tree[f] # 0 /\ tree[anchor] # 0
  /\ \/ /\ \E k \in Supporting(auth, tree, f, anchor) : tree[k.path] # 0
        /\ Lease(Front(f), f, anchor)
     \/ /\ Supporting(auth, tree, f, anchor) # {}
        /\ IsUnder(f, Front(anchor))
        /\ Lease(Front(anchor), f, anchor)
  /\ UNCHANGED <<env, held, receipts, renaming, watched, hist>>

(* retire_preview_leases, from the preview server.                         *)
RetirePreview(l) ==
  /\ Become([RevokeOrigins(auth, {l}) EXCEPT !.generation = @ + 1])
  /\ UNCHANGED <<env, held, receipts, renaming, watched, hist>>

-------------------------------------------------------------------------------
(* Saves.                                                                  *)

(* begin_app_write and settle_app_write: what the watch had observed is    *)
(* stale, and it follows a committed write to its object.                  *)
Rewatch(f, object) ==
  watched' = {IF w.path # f THEN w
              ELSE [w EXCEPT !.missing = FALSE, !.object = IF object = 0 THEN @ ELSE object] :
                w \in watched}

(* save_expected of a version that is still there.                         *)
SaveDocument(f) ==
  /\ MainThread
  /\ tree[f] # 0
  /\ HasExactAuthority(auth, tree, f)
  /\ Written(f)
  /\ Become(Settled(auth, auth, tree, f, born + 1))
  /\ Rewatch(f, born + 1)
  /\ UNCHANGED <<foreign, held, receipts, renaming, hist>>

(* A save that ended Indeterminate after it had replaced the file.         *)
SaveUncertain(f) ==
  /\ MainThread
  /\ tree[f] # 0
  /\ HasExactAuthority(auth, tree, f)
  /\ Written(f)
  /\ Rewatch(f, 0)
  /\ UNCHANGED <<foreign, auth, held, receipts, renaming, hist>>

(* save_as_dialog.                                                         *)
ReserveSaveAs(f) ==
  /\ tree[Front(f)] # 0
  /\ Become(Reserve(auth, f))
  /\ held' = held \union {[path |-> f, id |-> auth.nextDocument, generation |-> auth.generation + 1]}
  /\ UNCHANGED <<env, receipts, renaming, watched, hist>>

(* A committed save-as.  The ledgers it reserved are still there:          *)
(* publish_pending panics otherwise.                                       *)
PublishSaveAs(h) ==
  /\ MatchesPending(auth, h)
  /\ auth.pendingSaves[h.id].existing \subseteq DOMAIN auth.grants
  /\ tree[Front(h.path)] # 0
  /\ Written(h.path)
  /\ Become(Settled(auth, Publish(auth, h), tree, h.path, born + 1))
  /\ held' = held \ {h}
  /\ Rewatch(h.path, born + 1)
  /\ UNCHANGED <<foreign, receipts, renaming, hist>>

(* Refused, cancelled, in conflict, failed or indeterminate.               *)
InvalidateSaveAs(h) ==
  /\ \/ UNCHANGED <<tree, born>>
     \/ MatchesPending(auth, h) /\ tree[Front(h.path)] # 0 /\ Written(h.path)
  /\ Become(Invalidate(auth, h))
  /\ held' = held \ {h}
  /\ Rewatch(h.path, 0)
  /\ UNCHANGED <<foreign, receipts, renaming, hist>>

-------------------------------------------------------------------------------
(* The watch of the active document, on threads of its own.                *)

(* file_for_watch.                                                         *)
MayWatch(f) ==
  \/ HasExactAuthority(auth, tree, f)
  \/ \E k \in Active(auth) : /\ k.kind = "directory" /\ IsUnder(f, k.path)
                             /\ DirectoryReadIsCurrent(auth, tree, k.path)

WatchStart(f) ==
  /\ MainThread
  /\ tree[f] # 0 /\ MayWatch(f)
  /\ watched' = {[path |-> f, object |-> tree[f], missing |-> FALSE]}
  /\ UNCHANGED <<env, auth, held, receipts, renaming, hist>>

(* resolve_disk_state finds nothing; the transition comes later.           *)
WatchMisses(w) ==
  /\ ~w.missing
  /\ tree[w.path] = 0 /\ MayWatch(w.path)
  /\ watched' = {[w EXCEPT !.missing = TRUE]}
  /\ UNCHANGED <<env, auth, held, receipts, renaming, hist>>

(* finalize_authorization_transition, of a rename within the directory:    *)
(* only the very file that was watched is followed.                        *)
WatchFollows(w, new) ==
  /\ w.missing
  /\ new # w.path /\ Front(new) = Front(w.path)
  /\ tree[new] = w.object
  /\ \E t \in DOMAIN auth.workspaces : ReadsThrough(t, new)
  /\ Become(RelocatePrefix(auth, w.path, new, w.object))
  /\ watched' = {[path |-> new, object |-> w.object, missing |-> FALSE]}
  /\ UNCHANGED <<env, held, receipts, renaming, hist>>

(* ... and of a file that is gone.                                         *)
WatchRevokes(w) ==
  /\ w.missing
  /\ Become(RevokePrefix(auth, tree, w.path))
  /\ watched' = {[w EXCEPT !.missing = FALSE]}
  /\ UNCHANGED <<env, held, receipts, renaming, hist>>

-------------------------------------------------------------------------------
(* Other programs.                                                         *)

(* Another file at f, or the root directory replaced by another that holds *)
(* the same entries.                                                       *)
ForeignReplace(p) ==
  /\ foreign < MaxForeign
  /\ IF p \in Files THEN tree[Front(p)] # 0 ELSE tree[p] # 0
  /\ Written(p)
  /\ foreign' = foreign + 1
  /\ UNCHANGED <<auth, held, receipts, renaming, watched, hist>>

ForeignMove(src, dst) ==
  /\ foreign < MaxForeign
  /\ tree[src] # 0 /\ tree[dst] = 0 /\ tree[Front(dst)] # 0
  /\ tree' = Moved(src, dst)
  /\ foreign' = foreign + 1
  /\ UNCHANGED <<born, auth, held, receipts, renaming, watched, hist>>

ForeignRemove(p) ==
  /\ foreign < MaxForeign
  /\ tree[p] # 0
  /\ tree' = Removed(p)
  /\ foreign' = foreign + 1
  /\ UNCHANGED <<born, auth, held, receipts, renaming, watched, hist>>

-------------------------------------------------------------------------------
WorkspaceStep ==
  \/ \E r \in Roots : OpenDirectory(r) \/ PrepareWorkspace(r)
  \/ \E t \in DOMAIN auth.pendingRoots : SettleWorkspace(t) \/ ExpireWorkspace(t)

DocumentStep ==
  \/ \E f \in Files : PrepareOpen(f) \/ SaveDocument(f) \/ SaveUncertain(f) \/ ReserveSaveAs(f)
  \/ \E r \in receipts : CommitOpen(r) \/ DropReceipt(r)
  \/ \E h \in held : PublishSaveAs(h) \/ InvalidateSaveAs(h)

EntryStep ==
  \/ \E t \in DOMAIN auth.workspaces :
       \/ \E m \in Moves : Rename(t, m[1], m[2])
       \/ \E f \in Files : CreateFile(t, f)
       \/ \E p \in Paths : Trash(t, p)
  \/ ObserveRename
  \/ ReconcileRename

PreviewStep ==
  \/ \E f \in Files : PreviewFile(f) \/ \E anchor \in Files : PreviewEmbed(anchor, f)
  \/ \E l \in Leases(auth) : RetirePreview(l)

WatchStep ==
  \/ \E f \in Files : WatchStart(f)
  \/ \E w \in watched : WatchMisses(w) \/ WatchRevokes(w) \/ \E f \in Files : WatchFollows(w, f)

ForeignStep ==
  \/ \E p \in Files \union Roots : ForeignReplace(p)
  \/ \E m \in Moves : ForeignMove(m[1], m[2])
  \/ \E p \in Paths : ForeignRemove(p)

Next == WorkspaceStep \/ DocumentStep \/ EntryStep \/ PreviewStep \/ WatchStep \/ ForeignStep

Spec == Init /\ [][Next]_vars

-------------------------------------------------------------------------------
Ids(a) == 1..a.nextDocument - 1

OriginIsTyped(a, o) ==
  CASE o.kind = "workspace" -> o.id \in 1..a.nextToken - 1
    [] o.kind = "preview"   -> /\ o.id \in 1..a.nextLease - 1
                               /\ o.document \in Files /\ o.anchor \in Files \union {<<>>}
    [] OTHER                -> o.kind \in {"open", "saveAs", "created"} /\ o.id \in Ids(a)

(* The types, and that a ledger without an origin is dropped.              *)
TypeOK ==
  /\ born \in 0..MaxObjects /\ tree \in [Paths -> 0..born]
  /\ foreign \in 0..MaxForeign
  /\ auth.generation \in 0..MaxGeneration
  /\ DOMAIN auth.grants \subseteq Keys
  /\ \A k \in DOMAIN auth.grants :
       /\ auth.grants[k].active \in BOOLEAN
       /\ auth.grants[k].origins # {}
       /\ \A o \in auth.grants[k].origins : OriginIsTyped(auth, o)
  /\ \A t \in DOMAIN auth.workspaces :
       /\ t \in 1..auth.nextToken - 1
       /\ auth.workspaces[t].root \in Directories /\ auth.workspaces[t].identity \in 1..born
  /\ DOMAIN auth.documentWorkspace \union DOMAIN auth.identity \subseteq Ids(auth)
  /\ DOMAIN auth.pendingSaves \subseteq Ids(auth) /\ Cardinality(DOMAIN auth.pendingSaves) <= 1
  /\ Cardinality(DOMAIN auth.pendingRoots) <= MaxPendingRoots
  /\ \A h \in held : h.path \in Files /\ h.id \in Ids(auth) /\ h.generation <= auth.generation
  /\ Cardinality(receipts) <= MaxReceipts
  /\ renaming # NoRename => renaming \in Renamings
  /\ Cardinality(watched) <= 1

(* The ledgers a save-as is going to insert are still absent when its      *)
(* reservation matches: publish_pending replaces none (its debug_assert).  *)
FreshKeysStayFree ==
  \A h \in held : MatchesPending(auth, h) =>
    auth.pendingSaves[h.id].fresh \intersect DOMAIN auth.grants = {}

(* A document opened through a workspace stays bound to that workspace and *)
(* to a file for as long as it gives any authority: OriginIsCurrent        *)
(* demands neither of a document that has lost its binding.                *)
WorkspaceOpenStaysBound ==
  \A k \in DOMAIN auth.grants : \A o \in auth.grants[k].origins :
    o.kind = "open" /\ o.id \in bound =>
      o.id \in DOMAIN auth.documentWorkspace \intersect DOMAIN auth.identity

(* A token authorizes the directory its user selected and no other that    *)
(* came to its path between the selection and the settlement or later.     *)
PublishedRootIsChosen ==
  \A t \in DOMAIN auth.workspaces : auth.workspaces[t].identity = chosen[t]

(* The grants of a workspace are at its root, wherever it has moved.       *)
GrantsFollowRoots ==
  /\ \A t \in DOMAIN auth.workspaces :
       /\ Dir(auth.workspaces[t].root) \in Active(auth)
       /\ Workspace(t) \in auth.grants[Dir(auth.workspaces[t].root)].origins
  /\ \A k \in DOMAIN auth.grants : \A o \in auth.grants[k].origins :
       o.kind = "workspace" => o.id \in DOMAIN auth.workspaces /\ k.path = auth.workspaces[o.id].root

(* Whatever MMD does that gives or takes write authority over a file       *)
(* advances the generation: no overwrite token or reservation taken before *)
(* is honoured after it.                                                   *)
WriteAuthorityAdvancesGeneration ==
  [][/\ auth'.generation >= auth.generation
     /\ \A f \in Files :
          HasExactAuthority(auth, tree', f) # HasExactAuthority(auth', tree', f) =>
            auth'.generation > auth.generation]_vars

(* What was suspended because its fate is unknown stays suspended until    *)
(* the user grants it anew, or until the rename that suspended it turns    *)
(* out.  A workspace granted anew that the asset scope then refuses takes  *)
(* its origin back, and leaves the assets of its root active.              *)
SuspendedStaysSuspended ==
  [][\A k \in DOMAIN auth.grants \intersect DOMAIN auth'.grants :
       ~auth.grants[k].active /\ auth'.grants[k].active =>
         \/ ~(auth'.grants[k].origins \subseteq auth.grants[k].origins)
         \/ renaming # NoRename /\ renaming' = NoRename /\ k \in renaming.transitioned
         \/ \E t \in DOMAIN auth.pendingRoots \ DOMAIN auth'.pendingRoots :
               k = Asset(auth.pendingRoots[t].root)]_vars

(* A rename that failed is settled for all it suspended alike: everything  *)
(* is back where it was, everything is at the new path, or no file below   *)
(* either path has any authority, not even what a dialog granted while the *)
(* outcome was being observed.                                             *)
RenameSettlesAsOne ==
  [][renaming # NoRename /\ renaming' = NoRename =>
       LET files == {k \in renaming.transitioned \intersect DOMAIN auth.grants : k.kind = "exact"}
           at(k) == Exact(Relocated(k.path, renaming.old, renaming.new))
       IN  \/ files \subseteq Active(auth')
           \/ {at(k) : k \in files} \subseteq Active(auth')
           \/ Suspendable(auth', {renaming.old, renaming.new}) = {}]_vars

(* A save binds to the file it wrote only the documents that were bound to *)
(* the file it replaced.                                                   *)
RebindsOnlyItsOwn ==
  [][\A i \in DOMAIN auth.identity \intersect DOMAIN auth'.identity :
       auth'.identity[i] # auth.identity[i] =>
         \E f \in Files : /\ auth.identity[i] = tree[f] /\ auth'.identity[i] = tree'[f]
                          /\ Exact(f) \in Active(auth)
                          /\ Open(i) \in auth.grants[Exact(f)].origins]_vars

(* A document can be saved again after it was saved, although its file is  *)
(* another object now.                                                     *)
SaveKeepsAuthority ==
  [][\A f \in Files : SaveDocument(f) => HasExactAuthority(auth', tree', f)]_vars

(* Once a revocation is done no preview is left whose document, or the     *)
(* document that embeds it, may no longer be read, for whatever reason;    *)
(* one sweep is enough although it removes ledgers itself.                 *)
PreviewsEndWithTheirSupport ==
  [][\A w \in watched : WatchRevokes(w) /\ auth' # auth =>
       \A l \in Leases(auth') : LeaseIsSupported(auth', tree', l)]_vars

(* A document opened through a workspace keeps the binding its authority rests *)
(* on, and a token the directory that was selected (begin_settlement,          *)
(* revoke_origins, settle_workspace_candidate).                                *)
OriginsAreBound == WorkspaceOpenStaysBound /\ PublishedRootIsChosen

(* A save binds to the new file the documents that were bound to the old one,  *)
(* and they can be saved again (settle_exact_document_identity).               *)
SavesStayBound == RebindsOnlyItsOwn /\ SaveKeepsAuthority

(* Wherever a workspace moves its grants are, and a reserved save-as finds the *)
(* ledgers absent that it is going to insert (relocate_path_prefix,            *)
(* matches_pending).                                                           *)
GrantsStayInPlace == GrantsFollowRoots /\ FreshKeysStayFree

(* What a rename suspended comes back as a whole, moves as a whole or stays    *)
(* suspended (suspend_indeterminate_rename, finalize_indeterminate_rename).    *)
RenamesSettle == SuspendedStaysSuspended /\ RenameSettlesAsOne

(* What changes write authority outdates the tokens taken before, and takes    *)
(* the previews with it that rested on it (revoke_path_prefix).                *)
RevocationIsComplete == WriteAuthorityAdvancesGeneration /\ PreviewsEndWithTheirSupport

================================================================================
