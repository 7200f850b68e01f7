---------------------------- MODULE HtmlPreviews ----------------------------
(* The sites of the HTML preview server (html_preview_server.rs) and the       *)
(* leases that authorize them (path_auth.rs).  A command changes the table of  *)
(* sites and the leases under two locks, one after the other; threads of the   *)
(* document watch and of the dialogs revoke authority between its steps, and   *)
(* end the sites of what they have revoked in a step of their own.             *)
EXTENDS Naturals, FiniteSets

CONSTANTS
  Documents, \* HTML files
  Notes,     \* Markdown files that embed them
  Windows,
  Roots,     \* directories a site may serve
  None,
  MaxSites,  \* MAX_PREVIEW_SITES
  MaxOps,    \* bound: commands
  MaxFaults  \* bound: failures, revocations and grants

Frames == Windows \X Notes \X Documents

Key(f) == <<f[2], f[3]>>
Draft(d) == <<None, d>>
Keys == {Draft(d) : d \in Documents} \cup (Notes \X Documents)
Authority(key) == IF key[1] = None THEN key[2] ELSE key[1]
Answers(key, path) == path \in {key[1], key[2]}

Leases == [n : Nat, key : Keys]
Stages == {"commit", "check", "undo", "retire", "answer"}
(* Commands that show a file, and those that give owners back. *)
Preparations ==
  [at : Stages, key : Keys, frame : Frames \cup {None}, root : Roots, reserved : Leases,
   active : Leases, retiring : SUBSET Leases, owner : Nat \cup {None}, ok : BOOLEAN]
Retirements ==
  [at : {"retire", "answer"}, frame : {None}, retiring : SUBSET Leases, ok : BOOLEAN]

(* None is no file, no frame, no owner and no command. *)
ASSUME PreviewConstants ==
  /\ {MaxSites, MaxOps, MaxFaults} \subseteq Nat
  /\ None \notin Documents \cup Notes \cup Nat /\ None \notin Frames
  /\ None \notin Preparations /\ None \notin Retirements

VARIABLES
  granted,  \* files with authority
  leases,   \* leases in the ledgers: the number and the key
  sites,    \* HtmlPreviewSites: from keys to lease, root and owners
  poisoned, \* the locks a thread has panicked under
  op,       \* the command on the main thread
  revoked,  \* leases another thread has revoked and whose sites it has yet to end
  drained,  \* leases of the sites it has ended instead, the table being poisoned
  frames,   \* MarkdownHtmlFrame: asking, or shown with an owner
  releases, \* release commands on their way
  cut,      \* history: owners whose site was ended for another reason
  next,     \* next_preview_lease_id, next_embed_owner_id
  left      \* what is left of the bounds

vars == <<granted, leases, sites, poisoned, op, revoked, drained, frames, releases, cut, next, left>>

Spend(what) == left[what] > 0 /\ left' = [left EXCEPT ![what] = @ - 1]
Off == [at |-> "off", owner |-> None]
Mount(f, at, owner) == frames' = [frames EXCEPT ![f] = [at |-> at, owner |-> owner]]
At(stage) == op # None /\ op.at = stage
To(stage) == op' = [op EXCEPT !.at = stage]
LeasesOf(keys) == {sites[k].lease : k \in keys}
Joined(owners, owner, w) ==
  [o \in DOMAIN owners \cup {owner} |-> IF o = owner THEN w ELSE owners[o]]
OwnersOf(table) == UNION {DOMAIN table[k].owners : k \in DOMAIN table}
Owners == OwnersOf(sites)
Without(keys) == [k \in DOMAIN sites \ keys |-> sites[k]]
(* clear_all, drain_leases *)
Cleared == sites' = <<>> /\ cut' = cut \cup Owners
Ended(keys) == sites' = Without(keys) /\ cut' = cut \cup (Owners \ OwnersOf(Without(keys)))
Recovered == Cleared /\ poisoned' = poisoned \ {"sites"}
(* stop_all_sites *)
StopAll == Recovered
Lost == "authorization" \in poisoned

(***************************************************************************)
(* Authority                                                               *)
(***************************************************************************)
(* preview_lease_is_active_and_supported *)
Valid(lease) == lease \in leases /\ Authority(lease.key) \in granted

(* preview_scope_for, preview_scope_for_anchored_file_with_root *)
Reserve(key, frame, root) ==
  LET lease == [n |-> next.lease, key |-> key]
  IN  /\ op = None /\ ~Lost /\ Spend("ops")
      /\ Authority(key) \in granted
      /\ leases' = leases \cup {lease} /\ next' = [next EXCEPT !.lease = @ + 1]
      /\ op' = [at |-> "commit", key |-> key, frame |-> frame, root |-> root, reserved |-> lease,
                active |-> lease, retiring |-> {}, owner |-> None, ok |-> TRUE]
      /\ UNCHANGED <<granted, sites, poisoned, revoked, drained, releases, cut>>
PrepareDraft == \E d \in Documents, r \in Roots : Reserve(Draft(d), None, r) /\ UNCHANGED frames
PrepareEmbed == \E f \in Frames, r \in Roots :
  /\ frames[f] = Off /\ Reserve(Key(f), f, r) /\ Mount(f, "asking", None)

(* revoke_path_prefix, and the suspension of an indeterminate write *)
Revoked(path) == {l \in leases : Answers(l.key, path)}
Unsupported == {l \in leases : Authority(l.key) \notin granted'}
Revoke == \E path \in granted :
  /\ revoked = {} /\ drained = {} /\ ~Lost /\ Spend("faults") /\ granted' = granted \ {path}
  /\ \E more \in {{}, Unsupported} :
       /\ revoked' = Revoked(path) \cup more /\ leases' = leases \ (Revoked(path) \cup more)
  /\ UNCHANGED <<sites, poisoned, op, drained, frames, releases, cut, next>>
(* reconcile_indeterminate_write: when the suspension fails, no site goes on. *)
RevokeFails ==
  /\ Lost /\ Spend("faults") /\ StopAll
  /\ UNCHANGED <<granted, leases, op, revoked, drained, frames, releases, next>>
(* A file is opened again; or another program replaces one, and its grant is *)
(* for a file that is no more.                                               *)
Granted == \E path \in Documents \cup Notes :
  /\ Spend("faults")
  /\ granted' = IF path \in granted THEN granted \ {path} ELSE granted \cup {path}
  /\ UNCHANGED <<leases, sites, poisoned, op, revoked, drained, frames, releases, cut, next>>
(* invalidate_preview_leases, in the thread that revoked *)
Invalidate ==
  /\ revoked # {} /\ revoked' = {}
  /\ IF "sites" \in poisoned
       THEN Recovered /\ drained' = LeasesOf(DOMAIN sites)
       ELSE Ended({k \in DOMAIN sites : sites[k].lease \in revoked}) /\ UNCHANGED <<poisoned, drained>>
  /\ UNCHANGED <<granted, leases, op, frames, releases, next, left>>
RetireDrained ==
  /\ drained # {} /\ drained' = {} /\ leases' = IF Lost THEN leases ELSE leases \ drained
  /\ UNCHANGED <<granted, sites, poisoned, op, revoked, frames, releases, cut, next, left>>

(***************************************************************************)
(* The table of sites                                                      *)
(***************************************************************************)
Fails == op' = [op EXCEPT !.at = "retire", !.retiring = {op.reserved}, !.ok = FALSE]
Site(lease, root, owners) == [lease |-> lease, root |-> root, owners |-> owners]
NewSite(owners) == Site(op.reserved, op.root, owners)
Put(site) == sites' = [k \in DOMAIN sites \cup {op.key} |-> IF k = op.key THEN site ELSE sites[k]]
Committed(active, retiring, owner) ==
  op' = [op EXCEPT !.at = "check", !.active = active, !.retiring = retiring, !.owner = owner]
Drain ==
  /\ At("commit") /\ "sites" \in poisoned /\ Recovered
  /\ op' = [op EXCEPT !.at = "retire", !.retiring = LeasesOf(DOMAIN sites) \cup {op.reserved}, !.ok = FALSE]
  /\ UNCHANGED <<granted, leases, revoked, drained, frames, releases, next, left>>
(* The site of a document is started, started again for another root, or *)
(* goes on with the new lease.                                           *)
CommitDraft ==
  /\ At("commit") /\ "sites" \notin poisoned /\ op.frame = None
  /\ \/ /\ op.key \in DOMAIN sites \/ Cardinality(DOMAIN sites) < MaxSites
        /\ Put(NewSite(<<>>))
        /\ Committed(op.reserved, LeasesOf({op.key} \cap DOMAIN sites), None) /\ UNCHANGED left
     \/ /\ op.key \notin DOMAIN sites /\ Cardinality(DOMAIN sites) >= MaxSites
        /\ Fails /\ UNCHANGED <<sites, left>>
     \/ Spend("faults") /\ Fails /\ UNCHANGED sites
  /\ UNCHANGED <<granted, leases, poisoned, revoked, drained, frames, releases, cut, next>>
(* The site of an embedded file is shared: one owner for each frame. *)
CommitEmbed ==
  /\ At("commit") /\ "sites" \notin poisoned /\ op.frame # None
  /\ next' = [next EXCEPT !.owner = @ + 1]
  /\ LET joined(owners) == Joined(owners, next.owner, op.frame[1])
         site == sites[op.key]
     IN  \/ /\ op.key \in DOMAIN sites /\ site.root = op.root
            /\ Put([site EXCEPT !.owners = joined(@)])
            /\ Committed(site.lease, {op.reserved}, next.owner) /\ UNCHANGED left
         \/ /\ op.key \notin DOMAIN sites /\ Cardinality(DOMAIN sites) < MaxSites
            /\ Put(NewSite(joined(<<>>))) /\ Committed(op.reserved, {}, next.owner) /\ UNCHANGED left
         \/ /\ IF op.key \in DOMAIN sites THEN site.root # op.root
               ELSE Cardinality(DOMAIN sites) >= MaxSites
            /\ Fails /\ UNCHANGED <<sites, left>>
         \/ Spend("faults") /\ op.key \notin DOMAIN sites /\ Fails /\ UNCHANGED sites
  /\ UNCHANGED <<granted, leases, poisoned, revoked, drained, frames, releases, cut>>

CheckNothing ==
  /\ At("check") /\ To("retire")
  /\ UNCHANGED <<granted, leases, sites, poisoned, revoked, drained, frames, releases, cut, next, left>>
(* preview_lease_support_statuses: what was revoked since the reservation. *)
Check ==
  /\ At("check")
  /\ IF Lost THEN StopAll /\ op' = [op EXCEPT !.at = "answer", !.ok = FALSE]
     ELSE /\ IF Valid(op.reserved) /\ Valid(op.active) THEN To("retire")
             ELSE op' = [op EXCEPT !.at = "undo", !.retiring = @ \cup {op.reserved}, !.ok = FALSE]
          /\ UNCHANGED <<sites, cut, poisoned>>
  /\ UNCHANGED <<granted, leases, revoked, drained, frames, releases, next, left>>
(* remove_committed_generation, rollback_committed_embed_owner: only what the *)
(* command itself has committed, or what is not authorized any more.          *)
EndSite ==
  /\ Ended({op.key})
  /\ op' = [op EXCEPT !.at = "retire", !.retiring = @ \cup {op.active}]
Undone ==
  LET mine == op.key \in DOMAIN sites /\ sites[op.key].lease = op.active
      rest == [o \in DOMAIN sites[op.key].owners \ {op.owner} |-> sites[op.key].owners[o]]
  IN  IF ~mine THEN UNCHANGED <<sites, cut>> /\ To("retire")
      ELSE IF op.frame = None \/ ~Valid(op.active) \/ DOMAIN rest = {}
        THEN EndSite
        ELSE Put([sites[op.key] EXCEPT !.owners = rest]) /\ UNCHANGED cut /\ To("retire")
Undo ==
  /\ At("undo")
  /\ IF "sites" \in poisoned
       THEN /\ Recovered
            /\ op' = [op EXCEPT !.at = "retire", !.retiring = @ \cup LeasesOf(DOMAIN sites)]
       ELSE Undone /\ UNCHANGED poisoned
  /\ UNCHANGED <<granted, leases, revoked, drained, frames, releases, next, left>>
(* retire_preview_leases; when the authorization is gone, so are the sites. *)
Retire ==
  /\ At("retire")
  /\ IF Lost /\ op.retiring # {}
       THEN StopAll /\ UNCHANGED leases /\ op' = [op EXCEPT !.at = "answer", !.ok = FALSE]
     ELSE leases' = leases \ op.retiring /\ To("answer") /\ UNCHANGED <<sites, cut, poisoned>>
  /\ UNCHANGED <<granted, revoked, drained, frames, releases, next, left>>

(***************************************************************************)
(* Frames                                                                  *)
(***************************************************************************)
(* A frame that has been unmounted by now gives its owner back. *)
Answer ==
  /\ At("answer") /\ op' = None
  /\ IF op.frame = None \/ (~op.ok) THEN
       /\ IF op.frame = None THEN UNCHANGED frames ELSE Mount(op.frame, "off", None)
       /\ UNCHANGED releases
     ELSE IF frames[op.frame].at = "asking"
       THEN Mount(op.frame, "shown", op.owner) /\ UNCHANGED releases
       ELSE /\ Mount(op.frame, "off", None)
            /\ releases' = releases \cup {<<op.owner, op.frame[1]>>}
  /\ UNCHANGED <<granted, leases, sites, poisoned, revoked, drained, cut, next, left>>
Unmount == \E f \in Frames :
  /\ \/ frames[f].at = "asking" /\ Mount(f, "leaving", None) /\ UNCHANGED releases
     \/ /\ frames[f].at = "shown" /\ Mount(f, "off", None)
        /\ releases' = releases \cup {<<frames[f].owner, f[1]>>}
  /\ UNCHANGED <<granted, leases, sites, poisoned, op, revoked, drained, cut, next, left>>

(* release_markdown_html_embed, release_markdown_html_embed_window *)
Given(owners) ==
  LET rest(k) == [o \in DOMAIN sites[k].owners \ owners |-> sites[k].owners[o]]
      done == {k \in DOMAIN sites : DOMAIN sites[k].owners # {} /\ DOMAIN rest(k) = {}}
  IN  IF "sites" \in poisoned
        THEN /\ Recovered
             /\ op' = [at |-> "retire", frame |-> None, retiring |-> LeasesOf(DOMAIN sites), ok |-> FALSE]
        ELSE /\ sites' = [k \in DOMAIN sites \ done |-> [sites[k] EXCEPT !.owners = rest(k)]]
             /\ op' = [at |-> "retire", frame |-> None, retiring |-> LeasesOf(done), ok |-> TRUE]
             /\ UNCHANGED <<poisoned, cut>>
Release == \E r \in releases :
  /\ op = None /\ releases' = releases \ {r}
  /\ Given({o \in Owners : \E k \in DOMAIN sites :
              o = r[1] /\ o \in DOMAIN sites[k].owners /\ sites[k].owners[o] = r[2]})
  /\ UNCHANGED <<granted, leases, revoked, drained, frames, next, left>>
WindowDestroyed == \E w \in Windows :
  /\ op = None /\ Spend("ops") /\ \E f \in Frames : f[1] = w /\ frames[f] # Off
  /\ frames' = [f \in Frames |-> IF f[1] = w THEN Off ELSE frames[f]]
  /\ releases' = {r \in releases : r[2] # w}
  /\ Given({o \in Owners : \E k \in DOMAIN sites :
              o \in DOMAIN sites[k].owners /\ sites[k].owners[o] = w})
  /\ UNCHANGED <<granted, leases, revoked, drained, next>>
(* A thread panics while it holds a lock. *)
Poison == \E lock \in {"sites", "authorization"} \ poisoned :
  /\ Spend("faults") /\ poisoned' = poisoned \cup {lock}
  /\ UNCHANGED <<granted, leases, sites, op, revoked, drained, frames, releases, cut, next>>

Init ==
  /\ granted = Documents \cup Notes /\ leases = {} /\ sites = <<>> /\ poisoned = {} /\ op = None
  /\ revoked = {} /\ drained = {} /\ frames = [f \in Frames |-> Off] /\ releases = {} /\ cut = {}
  /\ next = [lease |-> 1, owner |-> 1] /\ left = [ops |-> MaxOps, faults |-> MaxFaults]
Next == \/ PrepareDraft \/ PrepareEmbed \/ Revoke \/ RevokeFails \/ Granted \/ Invalidate \/ RetireDrained
        \/ Drain \/ CommitDraft \/ CommitEmbed \/ Check \/ Undo \/ Retire
        \/ Answer \/ Unmount \/ Release \/ WindowDestroyed \/ Poison
Spec == Init /\ [][Next]_vars

(***************************************************************************)
(* Properties                                                              *)
(***************************************************************************)
(* The owners of a site are of windows; a file shown by itself has none. *)
SiteOK(k, site) ==
  /\ site \in [lease : [n : Nat, key : {k}], root : Roots, owners : {site.owners}]
  /\ DOMAIN site.owners \subseteq Nat /\ \A o \in DOMAIN site.owners : site.owners[o] \in Windows
  /\ k[1] = None <=> DOMAIN site.owners = {}
TableOK(table) ==
  /\ DOMAIN table \subseteq Keys /\ Cardinality(DOMAIN table) <= MaxSites
  /\ \A k \in DOMAIN table : SiteOK(k, table[k])
TypeOK ==
  /\ TableOK(sites) /\ granted \subseteq Documents \cup Notes
  /\ leases \cup revoked \cup drained \subseteq Leases
  /\ poisoned \subseteq {"sites", "authorization"} /\ op \in {None} \cup Preparations \cup Retirements
  /\ frames \in [Frames -> [at : {"off", "asking", "leaving", "shown"}, owner : Nat \cup {None}]]
  /\ releases \subseteq Nat \X Windows /\ cut \subseteq Nat
  /\ next \in [lease : Nat, owner : Nat]
  /\ left \in [ops : 0 .. MaxOps, faults : 0 .. MaxFaults]

Quiet == op = None /\ revoked = {} /\ drained = {} /\ poisoned = {}

(* Whatever is revoked between the steps of a command: when all is quiet, a site *)
(* is running under every lease in the ledgers, and no site under another.       *)
LeasesAreSites == Quiet => leases = LeasesOf(DOMAIN sites)

(* A site runs for exactly the frames that show it: a frame keeps the site that  *)
(* it shares with one that goes, until its authority ends, and the site ends     *)
(* with the last of them, one that went before it was answered included.         *)
OwnersAreFrames == Quiet =>
  Owners = ({frames[f].owner : f \in Frames} \cup {r[1] : r \in releases}) \ (cut \cup {None})

(* Nothing is served but what was granted, to the frames that show it, and the   *)
(* server keeps no lease and no site that nobody would ever end.                 *)
AuthorityIsHeld == LeasesAreSites /\ OwnersAreFrames
=============================================================================
