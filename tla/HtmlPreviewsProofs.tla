------------------------- MODULE HtmlPreviewsProofs -------------------------
(* What holds of the HTML preview server for every set of files, windows and   *)
(* roots, and for every bound: what the variables are (TypeInv), which leases  *)
(* and sites a command or a thread has still to end (LeaseInv), and who waits  *)
(* for an owner (OwnerInv).  The last two hold until the authorization's lock  *)
(* is poisoned, and then every lease counts as lost.                           *)
EXTENDS HtmlPreviews, FiniteSetTheorems, TLAPS

\* What a table of sites says: the leases of its sites, and who owns them.
LeasesIn(table) == {table[k].lease : k \in DOMAIN table}
Owns(table, k, o, w) ==
  k \in DOMAIN table /\ o \in DOMAIN table[k].owners /\ table[k].owners[o] = w
TableInv(table) == TableOK(table) /\ IsFiniteSet(DOMAIN table)

(***************************************************************************)
(* Tables                                                                  *)
(***************************************************************************)
\* What the proofs use of the constants.
LEMMA Constants ==
  /\ MaxSites \in Nat /\ None \notin Nat /\ None \notin Frames
  /\ \A n \in Notes : n # None
  /\ \A c \in Preparations \cup Retirements : c # None
  BY PreviewConstants

\* A table is empty when it has been cleared.
LEMMA EmptyTable == TableInv(<<>>) /\ LeasesIn(<<>>) = {} /\ OwnersOf(<<>>) = {} /\ DOMAIN <<>> = {}
  <1>1. DOMAIN <<>> = {}
    OBVIOUS
  <1>2. IsFiniteSet(DOMAIN <<>>) /\ Cardinality(DOMAIN <<>>) <= MaxSites
    BY <1>1, FS_EmptySet, Constants
  <1> QED
    BY <1>1, <1>2 DEF TableInv, TableOK, LeasesIn, OwnersOf

\* The owners of a table are the owners of its sites.
LEMMA OwnerIn ==
  ASSUME NEW t, NEW o
  PROVE  o \in OwnersOf(t) <=> \E k, w : Owns(t, k, o, w)
  BY DEF OwnersOf, Owns

\* A site is known by the key of its lease.
LEMMA LeaseKeys ==
  ASSUME NEW t, TableInv(t)
  PROVE  /\ LeasesIn(t) \subseteq Leases
         /\ \A k \in DOMAIN t : t[k].lease \in LeasesIn(t) /\ t[k].lease.key = k
         /\ \A l \in LeasesIn(t) : l.key \in DOMAIN t /\ t[l.key].lease = l
  BY DEF LeasesIn, TableInv, TableOK, SiteOK, Leases

\* The owners of a table are numbers, and those of a file shown by itself are none.
LEMMA TableOwners ==
  ASSUME NEW t, TableInv(t)
  PROVE  /\ OwnersOf(t) \subseteq Nat
         /\ \A k, o, w : Owns(t, k, o, w) => o \in Nat /\ k \in Keys /\ k[1] # None
  BY DEF TableInv, TableOK, SiteOK, OwnersOf, Owns

\* The sites of some keys end: the others stay as they are.
LEMMA TableWithout ==
  ASSUME NEW t, TableInv(t), NEW K
  PROVE  LET u == [k \in DOMAIN t \ K |-> t[k]]
         IN  /\ TableInv(u)
             /\ LeasesIn(u) = {l \in LeasesIn(t) : l.key \notin K}
             /\ \A k, o, w : Owns(u, k, o, w) <=> (Owns(t, k, o, w) /\ k \notin K)
  <1> DEFINE u == [k \in DOMAIN t \ K |-> t[k]]
  <1>1. DOMAIN u \subseteq DOMAIN t /\ \A k \in DOMAIN u : u[k] = t[k]
    OBVIOUS
  <1>2. IsFiniteSet(DOMAIN u) /\ Cardinality(DOMAIN u) <= Cardinality(DOMAIN t)
    BY <1>1, FS_Subset DEF TableInv
  <1>3. IsFiniteSet(DOMAIN t) /\ Cardinality(DOMAIN t) <= MaxSites
    BY DEF TableInv, TableOK
  <1>4. Cardinality(DOMAIN u) <= MaxSites
    BY <1>2, <1>3, FS_CardinalityType, Constants
  <1>5. TableInv(u)
    BY <1>1, <1>2, <1>4 DEF TableInv, TableOK
  <1>6. LeasesIn(u) = {l \in LeasesIn(t) : l.key \notin K}
    <2>1. ASSUME NEW l \in LeasesIn(u)
          PROVE  l \in LeasesIn(t) /\ l.key \notin K
      BY <2>1, <1>1, <1>5, LeaseKeys DEF LeasesIn
    <2>2. ASSUME NEW l \in LeasesIn(t), l.key \notin K
          PROVE  l \in LeasesIn(u)
      <3>1. l.key \in DOMAIN t /\ t[l.key].lease = l
        BY <2>2, LeaseKeys
      <3>2. l.key \in DOMAIN u /\ u[l.key].lease = l
        BY <3>1, <2>2
      <3> QED
        BY <3>2 DEF LeasesIn
    <2> QED
      BY <2>1, <2>2
  <1>7. \A k, o, w : Owns(u, k, o, w) <=> (Owns(t, k, o, w) /\ k \notin K)
    BY DEF Owns
  <1> QED
    BY <1>5, <1>6, <1>7

\* A site is put into the table, where there is room or one in its place.
LEMMA TablePut ==
  ASSUME NEW t, TableInv(t), NEW key \in Keys, NEW site, SiteOK(key, site),
         key \in DOMAIN t \/ Cardinality(DOMAIN t) < MaxSites,
         NEW u, u = [k \in DOMAIN t \cup {key} |-> IF k = key THEN site ELSE t[k]]
  PROVE  /\ TableInv(u)
         /\ LeasesIn(u) = {l \in LeasesIn(t) : l.key # key} \cup {site.lease}
         /\ \A k, o, w : k # key => (Owns(u, k, o, w) <=> Owns(t, k, o, w))
         /\ \A o, w : Owns(u, key, o, w) <=> (o \in DOMAIN site.owners /\ site.owners[o] = w)
  <1>1. /\ DOMAIN u = DOMAIN t \cup {key} /\ u[key] = site
        /\ \A k \in DOMAIN t : k # key => u[k] = t[k]
    OBVIOUS
  <1>2. IsFiniteSet(DOMAIN t) /\ Cardinality(DOMAIN t) <= MaxSites
    BY DEF TableInv, TableOK
  <1>3. Cardinality(DOMAIN t) \in Nat
    BY <1>2, FS_CardinalityType
  <1>4. IsFiniteSet(DOMAIN u) /\ Cardinality(DOMAIN u) <= MaxSites
    <2> DEFINE D == DOMAIN t
    <2>1. IsFiniteSet(D) /\ Cardinality(D) \in Nat /\ Cardinality(D) <= MaxSites /\ MaxSites \in Nat
          /\ (key \in D \/ Cardinality(D) < MaxSites) /\ DOMAIN u = D \cup {key}
      BY <1>1, <1>2, <1>3, Constants
    <2> HIDE DEF D
    <2>2. /\ IsFiniteSet(D \cup {key})
          /\ Cardinality(D \cup {key}) = IF key \in D THEN Cardinality(D) ELSE Cardinality(D) + 1
      BY ONLY <2>1, FS_AddElement
    <2> QED
      BY ONLY <2>1, <2>2
  <1>5. ASSUME NEW k \in DOMAIN u
        PROVE  k \in Keys /\ SiteOK(k, u[k])
    BY <1>1, <1>5 DEF TableInv, TableOK
  <1>6. TableInv(u)
    BY <1>4, <1>5 DEF TableInv, TableOK
  <1>7. LeasesIn(u) = {l \in LeasesIn(t) : l.key # key} \cup {site.lease}
    <2>1. ASSUME NEW l \in LeasesIn(u)
          PROVE  (l \in LeasesIn(t) /\ l.key # key) \/ l = site.lease
      <3>1. l.key \in DOMAIN u /\ u[l.key].lease = l
        BY <2>1, <1>6, LeaseKeys
      <3>2. CASE l.key = key
        BY <3>1, <3>2, <1>1
      <3>3. CASE l.key # key
        BY <3>1, <3>3, <1>1, LeaseKeys
      <3> QED
        BY <3>2, <3>3
    <2>2. ASSUME NEW l \in LeasesIn(t), l.key # key
          PROVE  l \in LeasesIn(u)
      <3>1. l.key \in DOMAIN t /\ t[l.key].lease = l
        BY <2>2, LeaseKeys
      <3>2. l.key \in DOMAIN u /\ u[l.key].lease = l
        BY <3>1, <2>2, <1>1
      <3> QED
        BY <3>2, <1>6, LeaseKeys
    <2>3. site.lease \in LeasesIn(u)
      BY <1>1, <1>6, LeaseKeys
    <2> QED
      BY <2>1, <2>2, <2>3
  <1>8. \A k, o, w : k # key => (Owns(u, k, o, w) <=> Owns(t, k, o, w))
    BY <1>1 DEF Owns
  <1>9. \A o, w : Owns(u, key, o, w) <=> (o \in DOMAIN site.owners /\ site.owners[o] = w)
    BY <1>1 DEF Owns
  <1> QED
    BY <1>6, <1>7, <1>8, <1>9

\* Owners give their sites up: a site stays for the rest of its owners, and ends with the last.
LEMMA TableGiven ==
  ASSUME NEW t, TableInv(t), NEW owners, NEW u, NEW done,
         \A k \in DOMAIN t : k \in done <=>
           (DOMAIN t[k].owners # {} /\ DOMAIN t[k].owners \subseteq owners),
         DOMAIN u = DOMAIN t \ done,
         \A k \in DOMAIN u :
           /\ u[k] = [lease |-> t[k].lease, root |-> t[k].root, owners |-> u[k].owners]
           /\ DOMAIN u[k].owners = DOMAIN t[k].owners \ owners
           /\ \A o \in DOMAIN u[k].owners : u[k].owners[o] = t[k].owners[o]
  PROVE  /\ TableInv(u)
         /\ LeasesIn(u) = {l \in LeasesIn(t) : l.key \notin done}
         /\ \A k, o, w : Owns(u, k, o, w) <=> (Owns(t, k, o, w) /\ o \notin owners)
  <1>1. DOMAIN u = DOMAIN t \ done
    OBVIOUS
  <1>2. ASSUME NEW k \in DOMAIN u
        PROVE  /\ k \in DOMAIN t /\ SiteOK(k, t[k]) /\ k \in Keys
               /\ u[k].lease = t[k].lease /\ u[k].root = t[k].root
               /\ DOMAIN u[k].owners = DOMAIN t[k].owners \ owners
               /\ \A o \in DOMAIN u[k].owners : u[k].owners[o] = t[k].owners[o]
               /\ u[k] = [lease |-> u[k].lease, root |-> u[k].root, owners |-> u[k].owners]
               /\ DOMAIN u[k].owners = {} <=> DOMAIN t[k].owners = {}
    <2>1. k \in DOMAIN t /\ k \notin done /\ SiteOK(k, t[k]) /\ k \in Keys
      BY <1>1 DEF TableInv, TableOK
    <2>2. u[k] = [lease |-> t[k].lease, root |-> t[k].root, owners |-> u[k].owners]
      OBVIOUS
    <2>3. u[k].lease = t[k].lease /\ u[k].root = t[k].root
      BY <2>2
    <2>4. DOMAIN u[k].owners = {} <=> DOMAIN t[k].owners = {}
      BY <2>1
    <2> QED
      BY <2>1, <2>2, <2>3, <2>4
  <1>3. IsFiniteSet(DOMAIN u) /\ Cardinality(DOMAIN u) <= MaxSites
    <2>1. IsFiniteSet(DOMAIN t) /\ Cardinality(DOMAIN t) <= MaxSites
      BY DEF TableInv, TableOK
    <2>2. IsFiniteSet(DOMAIN u) /\ Cardinality(DOMAIN u) <= Cardinality(DOMAIN t)
      BY <1>1, <2>1, FS_Subset
    <2> QED
      BY <2>1, <2>2, FS_CardinalityType, Constants
  <1>4. ASSUME NEW k \in DOMAIN u
        PROVE  SiteOK(k, u[k])
    <2> DEFINE s == u[k]
               p == t[k]
    <2>1. /\ SiteOK(k, p) /\ s.lease = p.lease /\ s.root = p.root
          /\ s = [lease |-> s.lease, root |-> s.root, owners |-> s.owners]
          /\ DOMAIN s.owners = DOMAIN p.owners \ owners
          /\ \A o \in DOMAIN s.owners : s.owners[o] = p.owners[o]
          /\ DOMAIN s.owners = {} <=> DOMAIN p.owners = {}
      BY <1>2, <1>4
    <2> HIDE DEF s, p
    <2>2. SiteOK(k, s)
      BY <2>1 DEF SiteOK
    <2> QED
      BY <2>2 DEF s
  <1>5. TableInv(u)
    BY <1>1, <1>2, <1>3, <1>4 DEF TableInv, TableOK
  <1>6. LeasesIn(u) = {l \in LeasesIn(t) : l.key \notin done}
    <2>1. ASSUME NEW l \in LeasesIn(u)
          PROVE  l \in LeasesIn(t) /\ l.key \notin done
      <3>1. l.key \in DOMAIN u /\ u[l.key].lease = l
        BY ONLY <2>1, <1>5, LeaseKeys
      <3>2. l.key \in DOMAIN t /\ l.key \notin done /\ t[l.key].lease = l
        BY ONLY <3>1, <1>1, <1>2
      <3> QED
        BY <3>2 DEF LeasesIn
    <2>2. ASSUME NEW l \in LeasesIn(t), l.key \notin done
          PROVE  l \in LeasesIn(u)
      <3>1. l.key \in DOMAIN t /\ t[l.key].lease = l
        BY <2>2, LeaseKeys
      <3>2. l.key \in DOMAIN u /\ u[l.key].lease = l
        BY <3>1, <2>2, <1>1, <1>2
      <3> QED
        BY ONLY <3>2 DEF LeasesIn
    <2> QED
      BY <2>1, <2>2
  <1>7. ASSUME NEW k, NEW o, NEW w
        PROVE  Owns(u, k, o, w) <=> (Owns(t, k, o, w) /\ o \notin owners)
    <2>1. CASE k \in DOMAIN u
      BY <2>1, <1>2 DEF Owns
    <2>2. CASE k \notin DOMAIN u
      BY <2>2, <1>1 DEF Owns
    <2> QED
      BY <2>1, <2>2
  <1> QED
    BY <1>5, <1>6, <1>7

(***************************************************************************)
(* The types, and the command                                              *)
(***************************************************************************)
\* The command is preparing a site, or undoing what it prepared.
Full == op # None /\ op.at \in {"commit", "check", "undo"}
Acting == op # None /\ op.at \in {"check", "undo"}
\* It is for a frame; has an owner for it; and is going to tell it.
Embeds == op # None /\ op.frame # None
Pending == Embeds /\ (op.at = "undo" \/ (op.at # "commit" /\ op.ok))
Claiming == Embeds /\ op.at # "commit" /\ op.ok

FramesOK == \A f \in Frames : frames[f].at = "shown" <=> frames[f].owner # None
CommandOK ==
  /\ Full => /\ op \in Preparations /\ op.reserved.key = op.key
             /\ op.frame = None => op.key[1] = None
  /\ Embeds => /\ op \in Preparations /\ op.key = Key(op.frame)
               /\ frames[op.frame].at \in {"asking", "leaving"}
  /\ Pending => op.owner \in Nat
  /\ (op # None /\ op.at \in {"commit", "check"}) => op.ok
  /\ (op # None /\ op.at = "undo") => ~op.ok
TypeInv == TypeOK /\ IsFiniteSet(DOMAIN sites) /\ FramesOK /\ CommandOK

\* A command d is c at another stage.
Becomes(c, d, at, retiring, ok) ==
  /\ d \in Preparations /\ d.at = at /\ d.retiring = retiring /\ d.ok = ok
  /\ d.key = c.key /\ d.frame = c.frame /\ d.root = c.root
  /\ d.reserved = c.reserved /\ d.active = c.active /\ d.owner = c.owner

LEMMA BecomesTo ==
  ASSUME NEW c \in Preparations, NEW a \in Stages
  PROVE  Becomes(c, [c EXCEPT !.at = a], a, c.retiring, c.ok)
  BY DEF Becomes, Preparations

LEMMA BecomesRetiring ==
  ASSUME NEW c \in Preparations, NEW a \in Stages, NEW R \in SUBSET Leases
  PROVE  Becomes(c, [c EXCEPT !.at = a, !.retiring = R], a, R, c.ok)
  BY DEF Becomes, Preparations

LEMMA BecomesFailed ==
  ASSUME NEW c \in Preparations, NEW a \in Stages, NEW R \in SUBSET Leases
  PROVE  /\ Becomes(c, [c EXCEPT !.at = a, !.retiring = R, !.ok = FALSE], a, R, FALSE)
         /\ Becomes(c, [c EXCEPT !.at = a, !.ok = FALSE], a, c.retiring, FALSE)
  BY DEF Becomes, Preparations

\* The command goes on for the same frame: what CommandOK says of it stays true.
LEMMA CommandGoesOn ==
  ASSUME TypeInv, op # None, op \in Preparations, NEW a \in Stages, NEW R, NEW v,
         Becomes(op, op', a, R, v), frames' = frames,
         Full \/ a \notin {"commit", "check", "undo"},
         a \in {"commit", "check"} => v, a = "undo" => ~v,
         (Embeds /\ (a = "undo" \/ (a # "commit" /\ v))) => op.owner \in Nat
  PROVE  CommandOK' /\ FramesOK' /\ op' \in Preparations /\ op' # None
  <1>1. op' \in Preparations /\ op' # None
    BY Constants DEF Becomes
  <1> QED
    BY <1>1 DEF Becomes, TypeInv, CommandOK, FramesOK, Full, Embeds, Pending

\* The table of sites is valid.
LEMMA SitesValid == TypeInv => TableInv(sites)
  BY DEF TypeInv, TypeOK, TableInv

\* What a table that was cleared, or lost some of its sites, is like.
LEMMA ClearedSites ==
  ASSUME TypeInv, Cleared
  PROVE  /\ TableInv(sites)' /\ LeasesIn(sites') = {} /\ DOMAIN sites' = {}
         /\ \A k, o, w : ~Owns(sites', k, o, w)
         /\ cut' = cut \cup Owners /\ cut' \subseteq Nat
  <1>1. sites' = <<>> /\ cut' = cut \cup Owners
    BY DEF Cleared
  <1>2. cut \cup Owners \subseteq Nat
    BY SitesValid, TableOwners DEF Owners, TypeInv, TypeOK
  <1> QED
    BY <1>1, <1>2, EmptyTable DEF Owns

LEMMA EndedSites ==
  ASSUME TypeInv, NEW K, Ended(K)
  PROVE  /\ TableInv(sites)'
         /\ LeasesIn(sites') = {l \in LeasesIn(sites) : l.key \notin K}
         /\ DOMAIN sites' = DOMAIN sites \ K /\ \A k \in DOMAIN sites' : sites'[k] = sites[k]
         /\ \A k, o, w : Owns(sites', k, o, w) <=> (Owns(sites, k, o, w) /\ k \notin K)
         /\ cut' = cut \cup (Owners \ Owners') /\ cut' \subseteq Nat
  <1>1. sites' = [k \in DOMAIN sites \ K |-> sites[k]] /\ cut' = cut \cup (Owners \ OwnersOf(sites'))
    BY DEF Ended, Without
  <1>2. cut \cup Owners \subseteq Nat
    BY SitesValid, TableOwners DEF Owners, TypeInv, TypeOK
  <1>3. TableInv(sites)
    BY SitesValid
  <1>4. /\ TableInv(sites)' /\ LeasesIn(sites') = {l \in LeasesIn(sites) : l.key \notin K}
        /\ \A k, o, w : Owns(sites', k, o, w) <=> (Owns(sites, k, o, w) /\ k \notin K)
    BY <1>1, <1>3, TableWithout
  <1> QED
    BY <1>1, <1>2, <1>4 DEF Owners

\* The leases of sites are leases.
LEMMA SiteLeases ==
  ASSUME TypeInv, NEW K \in SUBSET (DOMAIN sites)
  PROVE  /\ LeasesOf(K) = {l \in LeasesIn(sites) : l.key \in K}
         /\ LeasesOf(K) \subseteq Leases /\ LeasesOf(DOMAIN sites) = LeasesIn(sites)
  <1>1. TableInv(sites)
    BY SitesValid
  <1> QED
    BY <1>1, LeaseKeys DEF LeasesOf, LeasesIn

LEMMA TypeInit == Init => TypeInv
  <1> SUFFICES ASSUME Init PROVE TypeInv
    OBVIOUS
  <1>1. TableInv(sites)
    BY EmptyTable DEF Init
  <1>2. Off \in [at : {"off", "asking", "leaving", "shown"}, owner : Nat \cup {None}]
        /\ Off.at = "off" /\ Off.owner = None
    BY DEF Off
  <1>3. frames \in [Frames -> [at : {"off", "asking", "leaving", "shown"}, owner : Nat \cup {None}]]
        /\ FramesOK
    BY <1>2 DEF Init, FramesOK
  <1>4. left \in [ops : 0 .. MaxOps, faults : 0 .. MaxFaults] /\ next \in [lease : Nat, owner : Nat]
    BY PreviewConstants DEF Init
  <1> QED
    BY <1>1, <1>3, <1>4 DEF Init, TypeInv, TypeOK, TableInv, CommandOK, Full, Embeds, Pending

\* What is spent is of its type.
LEMMA Spending ==
  ASSUME TypeInv, NEW what \in {"ops", "faults"}, Spend(what)
  PROVE  left' \in [ops : 0 .. MaxOps, faults : 0 .. MaxFaults]
  <1>1. left \in [ops : 0 .. MaxOps, faults : 0 .. MaxFaults] /\ MaxOps \in Nat /\ MaxFaults \in Nat
    BY PreviewConstants DEF TypeInv, TypeOK
  <1> QED
    BY <1>1 DEF Spend

\* A frame that is mounted has its type.
LEMMA Mounting ==
  ASSUME TypeInv, NEW f \in Frames, NEW at, NEW owner, Mount(f, at, owner),
         \/ at \in {"off", "asking", "leaving"} /\ owner = None
         \/ at = "shown" /\ owner \in Nat
  PROVE  /\ frames' \in [Frames -> [at : {"off", "asking", "leaving", "shown"}, owner : Nat \cup {None}]]
         /\ FramesOK' /\ frames'[f].at = at /\ frames'[f].owner = owner
         /\ \A g \in Frames : g # f => frames'[g] = frames[g]
  <1>1. frames \in [Frames -> [at : {"off", "asking", "leaving", "shown"}, owner : Nat \cup {None}]]
    BY DEF TypeInv, TypeOK
  <1>2. frames' = [frames EXCEPT ![f] = [at |-> at, owner |-> owner]]
    BY DEF Mount
  <1>3. None \notin Nat
    BY Constants
  <1> QED
    BY <1>1, <1>2, <1>3 DEF FramesOK, TypeInv

\* A command begins.
LEMMA ReservedCommand ==
  ASSUME TypeInv, NEW key \in Keys, NEW frame \in Frames \cup {None}, NEW root \in Roots,
         Reserve(key, frame, root)
  PROVE  LET lease == [n |-> next.lease, key |-> key]
         IN  /\ lease \in Leases /\ op' \in Preparations /\ op' # None
             /\ op'.at = "commit" /\ op'.key = key /\ op'.frame = frame /\ op'.reserved = lease
             /\ op'.ok /\ op'.owner = None
             /\ next' \in [lease : Nat, owner : Nat]
             /\ next'.lease = next.lease + 1 /\ next'.owner = next.owner
             /\ left' \in [ops : 0 .. MaxOps, faults : 0 .. MaxFaults]
  <1> DEFINE lease == [n |-> next.lease, key |-> key]
  <1>1. lease \in Leases /\ next \in [lease : Nat, owner : Nat] /\ lease.key = key
    BY DEF TypeInv, TypeOK, Leases
  <1>2. op' = [at |-> "commit", key |-> key, frame |-> frame, root |-> root, reserved |-> lease,
                active |-> lease, retiring |-> {}, owner |-> None, ok |-> TRUE]
    BY DEF Reserve
  <1>3. next' = [next EXCEPT !.lease = @ + 1] /\ Spend("ops")
    BY DEF Reserve
  <1>4. next' \in [lease : Nat, owner : Nat] /\ next'.lease = next.lease + 1 /\ next'.owner = next.owner
    BY <1>1, <1>3
  <1> HIDE DEF lease
  <1>5. op' \in Preparations
    BY <1>1, <1>2 DEF Preparations, Stages
  <1> QED
    BY <1>1, <1>2, <1>3, <1>4, <1>5, Spending, Constants DEF lease

LEMMA TypeReserve ==
  ASSUME TypeInv, PrepareDraft \/ PrepareEmbed
  PROVE  TypeInv'
  <1>1. CASE PrepareDraft
    <2>1. PICK d \in Documents, r \in Roots : Reserve(Draft(d), None, r) /\ frames' = frames
      BY <1>1 DEF PrepareDraft
    <2>2. Draft(d) \in Keys /\ Draft(d)[1] = None
      BY DEF Keys, Draft
    <2>3. /\ op' \in Preparations /\ op' # None /\ op'.at = "commit" /\ op'.key = Draft(d)
          /\ op'.frame = None /\ op'.reserved = [n |-> next.lease, key |-> Draft(d)] /\ op'.ok
          /\ next' \in [lease : Nat, owner : Nat]
          /\ left' \in [ops : 0 .. MaxOps, faults : 0 .. MaxFaults]
          /\ [n |-> next.lease, key |-> Draft(d)] \in Leases
      BY <2>1, <2>2, ReservedCommand
    <2>4. CommandOK' /\ FramesOK'
      BY <2>1, <2>2, <2>3 DEF CommandOK, Full, Embeds, Pending, TypeInv, FramesOK
    <2> QED
      BY <2>1, <2>3, <2>4 DEF TypeInv, TypeOK, Reserve
  <1>2. CASE PrepareEmbed
    <2>1. PICK f \in Frames, r \in Roots : frames[f] = Off /\ Reserve(Key(f), f, r) /\ Mount(f, "asking", None)
      BY <1>2 DEF PrepareEmbed
    <2>2. Key(f) \in Keys
      BY DEF Keys, Key, Frames
    <2>3. /\ op' \in Preparations /\ op' # None /\ op'.at = "commit" /\ op'.key = Key(f)
          /\ op'.frame = f /\ op'.reserved = [n |-> next.lease, key |-> Key(f)] /\ op'.ok
          /\ next' \in [lease : Nat, owner : Nat]
          /\ left' \in [ops : 0 .. MaxOps, faults : 0 .. MaxFaults]
          /\ [n |-> next.lease, key |-> Key(f)] \in Leases
      BY <2>1, <2>2, ReservedCommand
    <2>4. /\ frames' \in [Frames -> [at : {"off", "asking", "leaving", "shown"}, owner : Nat \cup {None}]]
          /\ FramesOK' /\ frames'[f].at = "asking"
      BY <2>1, Mounting
    <2>5. CommandOK'
      BY <2>1, <2>3, <2>4, Constants DEF CommandOK, Full, Embeds, Pending
    <2> QED
      BY <2>1, <2>3, <2>4, <2>5 DEF TypeInv, TypeOK, Reserve
  <1> QED
    BY <1>1, <1>2

\* Steps that leave the command and the frames alone.
LEMMA CommandStays ==
  ASSUME TypeInv, UNCHANGED <<op, frames>>
  PROVE  CommandOK' /\ FramesOK'
  BY DEF TypeInv, CommandOK, FramesOK, Full, Embeds, Pending

LEMMA TypeAuthority ==
  ASSUME TypeInv, Revoke \/ RevokeFails \/ Granted \/ Invalidate \/ RetireDrained \/ Poison
  PROVE  TypeInv'
  <1>1. UNCHANGED <<op, frames, releases, next>>
    BY DEF Revoke, RevokeFails, Granted, Invalidate, RetireDrained, Poison
  <1>2. left' \in [ops : 0 .. MaxOps, faults : 0 .. MaxFaults]
    <2>1. Spend("faults") \/ left' = left
      BY DEF Revoke, RevokeFails, Granted, Invalidate, RetireDrained, Poison
    <2> QED
      BY <2>1, Spending DEF TypeInv, TypeOK
  <1>3. TableInv(sites)' /\ cut' \subseteq Nat /\ poisoned' \subseteq {"sites", "authorization"}
    <2>1. CASE Cleared /\ poisoned' \subseteq poisoned
      BY <2>1, ClearedSites DEF TypeInv, TypeOK
    <2>2. CASE (\E K : Ended(K)) /\ poisoned' = poisoned
      BY <2>2, EndedSites DEF TypeInv, TypeOK
    <2>3. CASE UNCHANGED <<sites, cut>> /\ poisoned' \subseteq {"sites", "authorization"}
      BY <2>3, SitesValid DEF TypeInv, TypeOK
    <2>4. Revoke \/ Granted \/ RetireDrained => UNCHANGED <<sites, cut, poisoned>>
      BY DEF Revoke, Granted, RetireDrained
    <2>5. Poison => UNCHANGED <<sites, cut>> /\ poisoned' \subseteq {"sites", "authorization"}
      BY DEF Poison, TypeInv, TypeOK
    <2>6. RevokeFails => Cleared /\ poisoned' \subseteq poisoned
      BY DEF RevokeFails, StopAll, Recovered
    <2>7. Invalidate => (Cleared /\ poisoned' \subseteq poisoned) \/ ((\E K : Ended(K)) /\ poisoned' = poisoned)
      BY DEF Invalidate, Recovered
    <2>8. poisoned \subseteq {"sites", "authorization"}
      BY DEF TypeInv, TypeOK
    <2> QED
      BY <2>1, <2>2, <2>3, <2>4, <2>5, <2>6, <2>7, <2>8
  <1>4. granted' \subseteq Documents \cup Notes /\ leases' \cup revoked' \cup drained' \subseteq Leases
    <2>1. /\ granted \subseteq Documents \cup Notes /\ leases \cup revoked \cup drained \subseteq Leases
          /\ LeasesOf(DOMAIN sites) \subseteq Leases
      BY SiteLeases DEF TypeInv, TypeOK
    <2>2. CASE Revoke
      <3>1. PICK path \in granted, more \in {{}, Unsupported} :
              /\ granted' = granted \ {path} /\ drained' = drained
              /\ revoked' = Revoked(path) \cup more /\ leases' = leases \ (Revoked(path) \cup more)
        BY <2>2 DEF Revoke
      <3>2. Revoked(path) \subseteq leases /\ more \subseteq leases
        BY DEF Revoked, Unsupported
      <3> QED
        BY <2>1, <3>1, <3>2
    <2>3. CASE RevokeFails \/ Poison
      BY <2>1, <2>3 DEF RevokeFails, Poison
    <2>4. CASE Granted
      BY <2>1, <2>4 DEF Granted
    <2>5. CASE Invalidate
      BY <2>1, <2>5 DEF Invalidate
    <2>6. CASE RetireDrained
      BY <2>1, <2>6 DEF RetireDrained
    <2> QED
      BY <2>2, <2>3, <2>4, <2>5, <2>6
  <1> QED
    BY <1>1, <1>2, <1>3, <1>4, CommandStays DEF TypeInv, TypeOK, TableInv

(***************************************************************************)
(* What the steps of a command do                                          *)
(***************************************************************************)
\* What is known of a command that prepares a site.
LEMMA Preparing ==
  ASSUME TypeInv, Full
  PROVE  /\ op # None /\ op \in Preparations /\ op.key \in Keys /\ op.reserved \in Leases
         /\ op.active \in Leases /\ op.retiring \subseteq Leases /\ op.root \in Roots
         /\ op.frame \in Frames \cup {None} /\ op.ok \in BOOLEAN /\ op.reserved.key = op.key
         /\ op.frame = None => op.key[1] = None
         /\ op.frame # None => /\ op.frame \in Frames /\ op.key = Key(op.frame)
                               /\ op.key[1] \in Notes /\ op.key[1] # None /\ op.frame[1] \in Windows
  <1>1. op # None /\ op \in Preparations /\ op.reserved.key = op.key /\ (op.frame = None => op.key[1] = None)
        /\ (op.frame # None => op.key = Key(op.frame))
    BY DEF TypeInv, CommandOK, Full, Embeds
  <1>2. /\ op.key \in Keys /\ op.reserved \in Leases
        /\ op.active \in Leases /\ op.retiring \subseteq Leases /\ op.root \in Roots
        /\ op.frame \in Frames \cup {None} /\ op.ok \in BOOLEAN
    BY <1>1 DEF Preparations
  <1>3. ASSUME op.frame # None
        PROVE  op.frame \in Frames /\ op.key[1] \in Notes /\ op.key[1] # None /\ op.frame[1] \in Windows
    BY <1>1, <1>2, <1>3, Constants DEF Key, Frames
  <1> QED
    BY <1>1, <1>2, <1>3

LEMMA DrainStep ==
  ASSUME TypeInv, Drain
  PROVE  /\ Full /\ op.at = "commit" /\ Cleared /\ poisoned' = poisoned \ {"sites"}
         /\ Becomes(op, op', "retire", LeasesIn(sites) \cup {op.reserved}, FALSE)
         /\ UNCHANGED <<granted, leases, revoked, drained, frames, releases, next, left>>
  <1>1. Full /\ op.at = "commit"
    BY DEF Drain, At, Full
  <1>2. op \in Preparations /\ op.reserved \in Leases
    BY <1>1, Preparing
  <1>3. LeasesOf(DOMAIN sites) = LeasesIn(sites) /\ LeasesIn(sites) \subseteq Leases
    BY SiteLeases
  <1>4. op' = [op EXCEPT !.at = "retire", !.retiring = LeasesIn(sites) \cup {op.reserved}, !.ok = FALSE]
    BY <1>3 DEF Drain
  <1>5. Becomes(op, op', "retire", LeasesIn(sites) \cup {op.reserved}, FALSE)
    BY <1>2, <1>3, <1>4, BecomesFailed DEF Stages
  <1> QED
    BY <1>1, <1>5 DEF Drain, Recovered

LEMMA FailedCommand ==
  ASSUME TypeInv, Full, Fails
  PROVE  Becomes(op, op', "retire", {op.reserved}, FALSE)
  <1>1. op \in Preparations /\ op.reserved \in Leases
    BY Preparing
  <1> QED
    BY <1>1, BecomesFailed DEF Stages, Fails

LEMMA CommittedCommand ==
  ASSUME TypeInv, Full, NEW active \in Leases, NEW retiring \in SUBSET Leases,
         NEW owner \in Nat \cup {None}, Committed(active, retiring, owner)
  PROVE  /\ op' \in Preparations /\ op'.at = "check" /\ op'.active = active /\ op'.retiring = retiring
         /\ op'.owner = owner /\ op'.key = op.key /\ op'.frame = op.frame /\ op'.reserved = op.reserved
         /\ op'.ok = op.ok
  <1>1. op \in Preparations
    BY Preparing
  <1> QED
    BY <1>1 DEF Committed, Preparations, Stages

\* A site of the command's own is a site for its key.
LEMMA CommandSite ==
  ASSUME TypeInv, Full, NEW owners,
         DOMAIN owners \subseteq Nat, \A o \in DOMAIN owners : owners[o] \in Windows,
         op.frame = None <=> DOMAIN owners = {}
  PROVE  /\ SiteOK(op.key, NewSite(owners)) /\ NewSite(owners).lease = op.reserved
         /\ NewSite(owners).owners = owners
  <1>1. op.reserved \in Leases /\ op.reserved.key = op.key /\ op.root \in Roots
        /\ (op.key[1] = None <=> op.frame = None)
    BY Preparing
  <1>2. op.reserved \in [n : Nat, key : {op.key}]
    BY <1>1 DEF Leases
  <1> QED
    BY <1>1, <1>2 DEF NewSite, Site, SiteOK

LEMMA CommitDraftStep ==
  ASSUME TypeInv, CommitDraft
  PROVE  /\ Full /\ op.at = "commit" /\ op.frame = None /\ op.key[1] = None
         /\ left' \in [ops : 0 .. MaxOps, faults : 0 .. MaxFaults]
         /\ UNCHANGED <<granted, leases, poisoned, revoked, drained, frames, releases, cut, next>>
         /\ \/ /\ TableInv(sites)'
               /\ LeasesIn(sites') = {l \in LeasesIn(sites) : l.key # op.key} \cup {op.reserved}
               /\ \A k, o, w : Owns(sites', k, o, w) <=> Owns(sites, k, o, w)
               /\ op' \in Preparations /\ op'.at = "check" /\ op'.active = op.reserved
               /\ op'.retiring = {l \in LeasesIn(sites) : l.key = op.key}
               /\ op'.key = op.key /\ op'.frame = None /\ op'.reserved = op.reserved /\ op'.ok = op.ok
            \/ sites' = sites /\ Becomes(op, op', "retire", {op.reserved}, FALSE)
  <1>1. Full /\ op.at = "commit" /\ op.frame = None
    BY DEF CommitDraft, At, Full
  <1>2. /\ op \in Preparations /\ op.key \in Keys /\ op.reserved \in Leases /\ op.key[1] = None
    BY <1>1, Preparing
  <1>3. left' \in [ops : 0 .. MaxOps, faults : 0 .. MaxFaults]
    BY Spending DEF CommitDraft, TypeInv, TypeOK
  <1>4. ASSUME op.key \in DOMAIN sites \/ Cardinality(DOMAIN sites) < MaxSites,
               Put(NewSite(<<>>)), Committed(op.reserved, LeasesOf({op.key} \cap DOMAIN sites), None)
        PROVE  /\ TableInv(sites)'
               /\ LeasesIn(sites') = {l \in LeasesIn(sites) : l.key # op.key} \cup {op.reserved}
               /\ \A k, o, w : Owns(sites', k, o, w) <=> Owns(sites, k, o, w)
               /\ op' \in Preparations /\ op'.at = "check" /\ op'.active = op.reserved
               /\ op'.retiring = {l \in LeasesIn(sites) : l.key = op.key}
               /\ op'.key = op.key /\ op'.frame = None /\ op'.reserved = op.reserved /\ op'.ok = op.ok
    <2> DEFINE site == NewSite(<<>>)
    <2>1. DOMAIN <<>> = {}
      OBVIOUS
    <2>2. SiteOK(op.key, site) /\ site.lease = op.reserved /\ site.owners = <<>>
      BY <1>1, <2>1, CommandSite
    <2>3. sites' = [k \in DOMAIN sites \cup {op.key} |-> IF k = op.key THEN site ELSE sites[k]]
      BY <1>4 DEF Put
    <2>4. TableInv(sites)
      BY SitesValid
    <2> HIDE DEF site
    <2>5. /\ TableInv(sites)'
          /\ LeasesIn(sites') = {l \in LeasesIn(sites) : l.key # op.key} \cup {op.reserved}
          /\ \A k, o, w : k # op.key => (Owns(sites', k, o, w) <=> Owns(sites, k, o, w))
          /\ \A o, w : ~Owns(sites', op.key, o, w)
      BY <1>2, <1>4, <2>1, <2>2, <2>3, <2>4, TablePut
    <2>6. \A o, w : ~Owns(sites, op.key, o, w)
      BY <1>2, <2>4, TableOwners
    <2>7. LeasesOf({op.key} \cap DOMAIN sites) = {l \in LeasesIn(sites) : l.key = op.key}
          /\ LeasesOf({op.key} \cap DOMAIN sites) \subseteq Leases
      <3>1. {op.key} \cap DOMAIN sites \in SUBSET (DOMAIN sites)
        OBVIOUS
      <3>2. LeasesOf({op.key} \cap DOMAIN sites) = {l \in LeasesIn(sites) : l.key \in {op.key} \cap DOMAIN sites}
            /\ LeasesOf({op.key} \cap DOMAIN sites) \subseteq Leases
        BY <3>1, SiteLeases
      <3> QED
        BY <3>2, <2>4, LeaseKeys
    <2>8. /\ op' \in Preparations /\ op'.at = "check" /\ op'.active = op.reserved
          /\ op'.retiring = LeasesOf({op.key} \cap DOMAIN sites)
          /\ op'.key = op.key /\ op'.frame = op.frame /\ op'.reserved = op.reserved /\ op'.ok = op.ok
      BY <1>1, <1>2, <1>4, <2>7, CommittedCommand
    <2>9. \A k, o, w : Owns(sites', k, o, w) <=> Owns(sites, k, o, w)
      BY <2>5, <2>6
    <2> QED
      BY <1>1, <2>5, <2>7, <2>8, <2>9
  <1>5. Fails => Becomes(op, op', "retire", {op.reserved}, FALSE)
    BY <1>1, FailedCommand
  <1> QED
    BY <1>1, <1>2, <1>3, <1>4, <1>5 DEF CommitDraft

LEMMA CommitEmbedStep ==
  ASSUME TypeInv, CommitEmbed
  PROVE  /\ Full /\ op.at = "commit" /\ Embeds /\ op.frame \in Frames
         /\ left' \in [ops : 0 .. MaxOps, faults : 0 .. MaxFaults]
         /\ next' \in [lease : Nat, owner : Nat] /\ next'.lease = next.lease /\ next.owner \in Nat
         /\ next'.owner = next.owner + 1
         /\ UNCHANGED <<granted, leases, poisoned, revoked, drained, frames, releases, cut>>
         /\ \/ /\ TableInv(sites)'
               /\ \A k, o, w : Owns(sites', k, o, w) <=>
                    IF k = op.key /\ o = next.owner THEN w = op.frame[1] ELSE Owns(sites, k, o, w)
               /\ op' \in Preparations /\ op'.at = "check" /\ op'.owner = next.owner
               /\ op'.key = op.key /\ op'.frame = op.frame /\ op'.reserved = op.reserved /\ op'.ok = op.ok
               /\ \/ /\ op.key \in DOMAIN sites /\ op'.active = sites[op.key].lease
                     /\ op'.retiring = {op.reserved} /\ LeasesIn(sites') = LeasesIn(sites)
                  \/ /\ op.key \notin DOMAIN sites /\ op'.active = op.reserved /\ op'.retiring = {}
                     /\ LeasesIn(sites') = LeasesIn(sites) \cup {op.reserved}
            \/ sites' = sites /\ Becomes(op, op', "retire", {op.reserved}, FALSE)
  <1>1. Full /\ op.at = "commit" /\ op.frame # None /\ Embeds
    BY DEF CommitEmbed, At, Full, Embeds
  <1>2. /\ op \in Preparations /\ op.key \in Keys /\ op.reserved \in Leases /\ op.frame \in Frames
        /\ op.key[1] # None /\ op.frame[1] \in Windows
    BY <1>1, Preparing
  <1>3. left' \in [ops : 0 .. MaxOps, faults : 0 .. MaxFaults]
    BY Spending DEF CommitEmbed, TypeInv, TypeOK
  <1>4. /\ next' \in [lease : Nat, owner : Nat] /\ next'.lease = next.lease /\ next.owner \in Nat
        /\ next'.owner = next.owner + 1
    <2>1. next \in [lease : Nat, owner : Nat] /\ next' = [next EXCEPT !.owner = @ + 1]
      BY DEF CommitEmbed, TypeInv, TypeOK
    <2> QED
      BY <2>1
  <1>5. TableInv(sites)
    BY SitesValid
  <1> DEFINE w0 == op.frame[1]
             n == next.owner
             joined(owners) == Joined(owners, n, w0)
  <1>6. ASSUME NEW owners
        PROVE  /\ DOMAIN joined(owners) = DOMAIN owners \cup {n} /\ joined(owners)[n] = w0
               /\ \A o \in DOMAIN owners : o # n => joined(owners)[o] = owners[o]
    BY DEF Joined
  <1>7. ASSUME op.key \in DOMAIN sites,
               Put([sites[op.key] EXCEPT !.owners = joined(@)]),
               Committed(sites[op.key].lease, {op.reserved}, n)
        PROVE  /\ TableInv(sites)'
               /\ \A k, o, w : Owns(sites', k, o, w) <=>
                    IF k = op.key /\ o = n THEN w = w0 ELSE Owns(sites, k, o, w)
               /\ op' \in Preparations /\ op'.at = "check" /\ op'.owner = n
               /\ op'.key = op.key /\ op'.frame = op.frame /\ op'.reserved = op.reserved /\ op'.ok = op.ok
               /\ op'.active = sites[op.key].lease
               /\ op'.retiring = {op.reserved} /\ LeasesIn(sites') = LeasesIn(sites)
    <2> DEFINE old == sites[op.key]
               more == joined(old.owners)
               site == [old EXCEPT !.owners = more]
    <2>1. /\ DOMAIN more = DOMAIN old.owners \cup {n} /\ more[n] = w0
          /\ \A o \in DOMAIN old.owners : o # n => more[o] = old.owners[o]
      BY <1>6
    <2>2. SiteOK(op.key, old) /\ old.lease \in Leases /\ old.lease.key = op.key /\ old.lease \in LeasesIn(sites)
      BY <1>5, <1>7, LeaseKeys DEF TableInv, TableOK
    <2>3. sites' = [k \in DOMAIN sites \cup {op.key} |-> IF k = op.key THEN site ELSE sites[k]]
      BY <1>7 DEF Put
    <2> HIDE DEF more, joined
    <2>4. SiteOK(op.key, site) /\ site.lease = old.lease /\ site.owners = more
      <3> DEFINE p == old
      <3>1. p \in [lease : [n : Nat, key : {op.key}], root : Roots, owners : {p.owners}]
            /\ DOMAIN p.owners \subseteq Nat /\ \A o \in DOMAIN p.owners : p.owners[o] \in Windows
        BY <2>2 DEF SiteOK
      <3> HIDE DEF p
      <3>2. /\ [p EXCEPT !.owners = more] \in [lease : [n : Nat, key : {op.key}], root : Roots, owners : {more}]
            /\ [p EXCEPT !.owners = more].lease = p.lease /\ [p EXCEPT !.owners = more].owners = more
        BY <3>1
      <3>3. DOMAIN more \subseteq Nat /\ DOMAIN more # {} /\ \A o \in DOMAIN more : more[o] \in Windows
        BY <2>1, <3>1, <1>2, <1>4 DEF p
      <3> QED
        BY <3>2, <3>3, <1>2 DEF SiteOK, p
    <2> HIDE DEF site
    <2>5. /\ TableInv(sites)'
          /\ LeasesIn(sites') = {l \in LeasesIn(sites) : l.key # op.key} \cup {site.lease}
          /\ \A k, o, w : k # op.key => (Owns(sites', k, o, w) <=> Owns(sites, k, o, w))
          /\ \A o, w : Owns(sites', op.key, o, w) <=> (o \in DOMAIN more /\ more[o] = w)
      BY <1>2, <1>5, <1>7, <2>3, <2>4, TablePut
    <2>6. LeasesIn(sites') = LeasesIn(sites)
      <3>1. \A l \in LeasesIn(sites) : l.key = op.key => l = old.lease
        BY <1>5, LeaseKeys
      <3> QED
        BY <2>2, <2>4, <2>5, <3>1
    <2>7. \A k, o, w : Owns(sites', k, o, w) <=>
                    IF k = op.key /\ o = n THEN w = w0 ELSE Owns(sites, k, o, w)
      <3>1. \A o, w : Owns(sites, op.key, o, w) <=> (o \in DOMAIN old.owners /\ old.owners[o] = w)
        BY <1>7 DEF Owns
      <3> QED
        BY <2>1, <2>5, <3>1
    <2>8. /\ op' \in Preparations /\ op'.at = "check" /\ op'.active = old.lease
          /\ op'.retiring = {op.reserved} /\ op'.owner = n
          /\ op'.key = op.key /\ op'.frame = op.frame /\ op'.reserved = op.reserved /\ op'.ok = op.ok
      BY <1>1, <1>2, <1>4, <1>7, <2>2, CommittedCommand
    <2> QED
      BY <2>5, <2>6, <2>7, <2>8
  <1>8. ASSUME op.key \notin DOMAIN sites, Cardinality(DOMAIN sites) < MaxSites,
               Put(NewSite(joined(<<>>))), Committed(op.reserved, {}, n)
        PROVE  /\ TableInv(sites)'
               /\ \A k, o, w : Owns(sites', k, o, w) <=>
                    IF k = op.key /\ o = n THEN w = w0 ELSE Owns(sites, k, o, w)
               /\ op' \in Preparations /\ op'.at = "check" /\ op'.owner = n
               /\ op'.key = op.key /\ op'.frame = op.frame /\ op'.reserved = op.reserved /\ op'.ok = op.ok
               /\ op'.active = op.reserved /\ op'.retiring = {}
               /\ LeasesIn(sites') = LeasesIn(sites) \cup {op.reserved}
    <2> DEFINE more == joined(<<>>)
               site == NewSite(more)
    <2>1. DOMAIN more = {n} /\ more[n] = w0
      <3>1. DOMAIN <<>> = {}
        OBVIOUS
      <3> QED
        BY <1>6, <3>1
    <2>2. sites' = [k \in DOMAIN sites \cup {op.key} |-> IF k = op.key THEN site ELSE sites[k]]
      BY <1>8 DEF Put
    <2> HIDE DEF more, joined
    <2>3. SiteOK(op.key, site) /\ site.lease = op.reserved /\ site.owners = more
      BY <1>1, <1>2, <1>4, <2>1, CommandSite
    <2> HIDE DEF site
    <2>4. /\ TableInv(sites)'
          /\ LeasesIn(sites') = {l \in LeasesIn(sites) : l.key # op.key} \cup {op.reserved}
          /\ \A k, o, w : k # op.key => (Owns(sites', k, o, w) <=> Owns(sites, k, o, w))
          /\ \A o, w : Owns(sites', op.key, o, w) <=> (o \in DOMAIN more /\ more[o] = w)
      BY <1>2, <1>5, <1>8, <2>2, <2>3, TablePut
    <2>5. LeasesIn(sites') = LeasesIn(sites) \cup {op.reserved}
      BY <1>5, <1>8, <2>4, LeaseKeys
    <2>6. \A o, w : ~Owns(sites, op.key, o, w)
      BY <1>8 DEF Owns
    <2>7. /\ op' \in Preparations /\ op'.at = "check" /\ op'.active = op.reserved
          /\ op'.retiring = {} /\ op'.owner = n
          /\ op'.key = op.key /\ op'.frame = op.frame /\ op'.reserved = op.reserved /\ op'.ok = op.ok
      BY <1>1, <1>2, <1>4, <1>8, CommittedCommand
    <2> QED
      BY <2>1, <2>4, <2>5, <2>6, <2>7
  <1>9. Fails => Becomes(op, op', "retire", {op.reserved}, FALSE)
    BY <1>1, FailedCommand
  <1>10. \/ /\ op.key \in DOMAIN sites /\ Put([sites[op.key] EXCEPT !.owners = joined(@)])
            /\ Committed(sites[op.key].lease, {op.reserved}, n)
         \/ /\ op.key \notin DOMAIN sites /\ Cardinality(DOMAIN sites) < MaxSites
            /\ Put(NewSite(joined(<<>>))) /\ Committed(op.reserved, {}, n)
         \/ sites' = sites /\ Fails
    BY DEF CommitEmbed
  <1>11. UNCHANGED <<granted, leases, poisoned, revoked, drained, frames, releases, cut>>
    BY DEF CommitEmbed
  <1> HIDE DEF joined
  <1> QED
    BY <1>1, <1>2, <1>3, <1>4, <1>7, <1>8, <1>9, <1>10, <1>11

LEMMA CheckStep ==
  ASSUME TypeInv, Check
  PROVE  /\ Full /\ Acting /\ op.at = "check"
         /\ UNCHANGED <<granted, leases, revoked, drained, frames, releases, next, left>>
         /\ \/ /\ Lost /\ Cleared /\ poisoned' = poisoned \ {"sites"}
               /\ Becomes(op, op', "answer", op.retiring, FALSE)
            \/ /\ ~Lost /\ Valid(op.reserved) /\ Valid(op.active)
               /\ Becomes(op, op', "retire", op.retiring, op.ok) /\ UNCHANGED <<sites, cut, poisoned>>
            \/ /\ ~Lost /\ ~(Valid(op.reserved) /\ Valid(op.active))
               /\ Becomes(op, op', "undo", op.retiring \cup {op.reserved}, FALSE)
               /\ UNCHANGED <<sites, cut, poisoned>>
  <1>1. Full /\ Acting /\ op.at = "check"
    BY DEF Check, At, Full, Acting
  <1>2. op \in Preparations /\ op.reserved \in Leases /\ op.retiring \subseteq Leases
    BY <1>1, Preparing
  <1>3. op' = [op EXCEPT !.at = "answer", !.ok = FALSE] => Becomes(op, op', "answer", op.retiring, FALSE)
    BY <1>2, BecomesFailed DEF Stages
  <1>4. To("retire") => Becomes(op, op', "retire", op.retiring, op.ok)
    BY <1>2, BecomesTo DEF Stages, To
  <1>5. op' = [op EXCEPT !.at = "undo", !.retiring = @ \cup {op.reserved}, !.ok = FALSE]
          => Becomes(op, op', "undo", op.retiring \cup {op.reserved}, FALSE)
    <2> DEFINE R == op.retiring \cup {op.reserved}
    <2>1. R \in SUBSET Leases
      BY <1>2
    <2>2. Becomes(op, [op EXCEPT !.at = "undo", !.retiring = R, !.ok = FALSE], "undo", R, FALSE)
      BY <1>2, <2>1, BecomesFailed DEF Stages
    <2> QED
      BY <2>2
  <1> QED
    BY <1>1, <1>3, <1>4, <1>5 DEF Check, StopAll, Recovered

LEMMA UndoStep ==
  ASSUME TypeInv, Undo
  PROVE  /\ Full /\ Acting /\ op.at = "undo"
         /\ UNCHANGED <<granted, leases, revoked, drained, frames, releases, next, left>>
         /\ \/ /\ Cleared /\ poisoned' \subseteq poisoned
               /\ Becomes(op, op', "retire", op.retiring \cup LeasesIn(sites), op.ok)
            \/ /\ UNCHANGED <<sites, cut, poisoned>> /\ Becomes(op, op', "retire", op.retiring, op.ok)
               /\ op.key \notin DOMAIN sites \/ sites[op.key].lease # op.active
            \/ /\ op.key \in DOMAIN sites /\ sites[op.key].lease = op.active
               /\ Ended({op.key}) /\ poisoned' = poisoned
               /\ Becomes(op, op', "retire", op.retiring \cup {op.active}, op.ok)
            \/ /\ op.key \in DOMAIN sites /\ sites[op.key].lease = op.active
               /\ Embeds /\ Valid(op.active) /\ DOMAIN sites[op.key].owners \ {op.owner} # {}
               /\ UNCHANGED <<cut, poisoned>>
               /\ Becomes(op, op', "retire", op.retiring, op.ok)
               /\ TableInv(sites)' /\ LeasesIn(sites') = LeasesIn(sites)
               /\ \A k, o, w : Owns(sites', k, o, w) <=>
                    (Owns(sites, k, o, w) /\ ~(k = op.key /\ o = op.owner))
  <1>1. Full /\ Acting /\ op.at = "undo" /\ op # None
    BY DEF Undo, At, Full, Acting
  <1>2. op \in Preparations /\ op.reserved \in Leases /\ op.retiring \subseteq Leases /\ op.key \in Keys
        /\ op.active \in Leases /\ (op.frame # None => op.key[1] # None)
    BY <1>1, Preparing
  <1>3. TableInv(sites) /\ LeasesOf(DOMAIN sites) = LeasesIn(sites) /\ LeasesIn(sites) \subseteq Leases
    BY SitesValid, SiteLeases
  <1>4. To("retire") => Becomes(op, op', "retire", op.retiring, op.ok)
    BY <1>2, BecomesTo DEF Stages, To
  <1>5. ASSUME NEW R \in SUBSET Leases, op' = [op EXCEPT !.at = "retire", !.retiring = @ \cup R]
        PROVE  Becomes(op, op', "retire", op.retiring \cup R, op.ok)
    <2> DEFINE Q == op.retiring \cup R
    <2>1. Q \in SUBSET Leases
      BY <1>2
    <2>2. Becomes(op, [op EXCEPT !.at = "retire", !.retiring = Q], "retire", Q, op.ok)
      BY <1>2, <2>1, BecomesRetiring DEF Stages
    <2> QED
      BY <1>5, <2>2
  <1>6. CASE "sites" \in poisoned
    <2>1. Cleared /\ poisoned' \subseteq poisoned
          /\ op' = [op EXCEPT !.at = "retire", !.retiring = @ \cup LeasesIn(sites)]
      BY <1>3, <1>6 DEF Undo, Recovered
    <2>2. Becomes(op, op', "retire", op.retiring \cup LeasesIn(sites), op.ok)
      BY <1>3, <1>5, <2>1
    <2> QED
      BY <1>1, <2>1, <2>2 DEF Undo
  <1>7. CASE "sites" \notin poisoned /\ ~(op.key \in DOMAIN sites /\ sites[op.key].lease = op.active)
    <2>1. UNCHANGED <<sites, cut, poisoned>> /\ To("retire")
      BY <1>7 DEF Undo, Undone
    <2> QED
      BY <1>1, <1>4, <1>7, <2>1 DEF Undo
  <1>8. CASE "sites" \notin poisoned /\ op.key \in DOMAIN sites /\ sites[op.key].lease = op.active
    <2> DEFINE old == sites[op.key]
               rest == [o \in DOMAIN old.owners \ {op.owner} |-> old.owners[o]]
               site == [old EXCEPT !.owners = rest]
    <2>1. CASE op.frame = None \/ ~Valid(op.active) \/ DOMAIN rest = {}
      <3>1. EndSite /\ poisoned' = poisoned
        BY <1>8, <2>1 DEF Undo, Undone
      <3>2. Becomes(op, op', "retire", op.retiring \cup {op.active}, op.ok)
        BY <1>2, <1>5, <3>1 DEF EndSite
      <3> QED
        BY <1>1, <1>8, <3>1, <3>2 DEF Undo, EndSite
    <2>2. CASE op.frame # None /\ Valid(op.active) /\ DOMAIN rest # {}
      <3>1. Put(site) /\ UNCHANGED <<cut, poisoned>> /\ To("retire")
        BY <1>8, <2>2 DEF Undo, Undone
      <3>2. /\ DOMAIN rest = DOMAIN old.owners \ {op.owner}
            /\ \A o \in DOMAIN rest : rest[o] = old.owners[o]
        OBVIOUS
      <3>3. sites' = [k \in DOMAIN sites \cup {op.key} |-> IF k = op.key THEN site ELSE sites[k]]
        BY <3>1 DEF Put
      <3>4. SiteOK(op.key, old) /\ old.lease \in LeasesIn(sites) /\ old.lease.key = op.key
        BY <1>3, <1>8, LeaseKeys DEF TableInv, TableOK
      <3> HIDE DEF rest
      <3>5. SiteOK(op.key, site) /\ site.lease = old.lease /\ site.owners = rest
        <4> DEFINE p == old
        <4>1. p \in [lease : [n : Nat, key : {op.key}], root : Roots, owners : {p.owners}]
              /\ DOMAIN p.owners \subseteq Nat /\ \A o \in DOMAIN p.owners : p.owners[o] \in Windows
          BY <3>4 DEF SiteOK
        <4> HIDE DEF p
        <4>2. /\ [p EXCEPT !.owners = rest] \in [lease : [n : Nat, key : {op.key}], root : Roots, owners : {rest}]
              /\ [p EXCEPT !.owners = rest].lease = p.lease /\ [p EXCEPT !.owners = rest].owners = rest
          BY <4>1
        <4>3. DOMAIN rest \subseteq Nat /\ DOMAIN rest # {} /\ \A o \in DOMAIN rest : rest[o] \in Windows
          BY <3>2, <4>1, <2>2 DEF p
        <4> QED
          BY <4>2, <4>3, <1>2, <2>2 DEF SiteOK, p
      <3> HIDE DEF site
      <3>6. /\ TableInv(sites)'
            /\ LeasesIn(sites') = {l \in LeasesIn(sites) : l.key # op.key} \cup {site.lease}
            /\ \A k, o, w : k # op.key => (Owns(sites', k, o, w) <=> Owns(sites, k, o, w))
            /\ \A o, w : Owns(sites', op.key, o, w) <=> (o \in DOMAIN rest /\ rest[o] = w)
        BY <1>2, <1>3, <1>8, <3>3, <3>5, TablePut
      <3>7. LeasesIn(sites') = LeasesIn(sites)
        <4>1. \A l \in LeasesIn(sites) : l.key = op.key => l = old.lease
          BY <1>3, LeaseKeys
        <4> QED
          BY <3>4, <3>5, <3>6, <4>1
      <3>8. \A k, o, w : Owns(sites', k, o, w) <=>
                    (Owns(sites, k, o, w) /\ ~(k = op.key /\ o = op.owner))
        <4>1. \A o, w : Owns(sites, op.key, o, w) <=> (o \in DOMAIN old.owners /\ old.owners[o] = w)
          BY <1>8 DEF Owns
        <4> QED
          BY <3>2, <3>6, <4>1
      <3>9. UNCHANGED <<granted, leases, revoked, drained, frames, releases, next, left>>
        BY DEF Undo
      <3> QED
        BY <1>1, <1>4, <1>8, <2>2, <3>1, <3>2, <3>6, <3>7, <3>8, <3>9 DEF Embeds
    <2> QED
      BY <2>1, <2>2
  <1> QED
    BY <1>6, <1>7, <1>8

LEMMA RetireStep ==
  ASSUME TypeInv, Retire
  PROVE  /\ op # None /\ op.at = "retire" /\ op' # None /\ op'.at = "answer" /\ op'.frame = op.frame
         /\ op.retiring \subseteq Leases /\ (op'.ok => op.ok)
         /\ op \in Preparations => Becomes(op, op', "answer", op.retiring, op'.ok)
         /\ op \in Retirements => op' \in Retirements
         /\ UNCHANGED <<granted, revoked, drained, frames, releases, next, left>>
         /\ \/ Lost /\ Cleared /\ poisoned' \subseteq poisoned /\ leases' = leases /\ ~op'.ok
            \/ leases' = leases \ op.retiring /\ UNCHANGED <<sites, cut, poisoned>> /\ op'.ok = op.ok
  <1>1. op # None /\ op.at = "retire" /\ op \in Preparations \cup Retirements
    BY DEF Retire, At, TypeInv, TypeOK
  <1>2. op.retiring \subseteq Leases
    BY <1>1 DEF Preparations, Retirements
  <1>3. CASE op \in Preparations
    <2>1. To("answer") => Becomes(op, op', "answer", op.retiring, op.ok)
      BY <1>3, BecomesTo DEF Stages, To
    <2>2. op' = [op EXCEPT !.at = "answer", !.ok = FALSE] => Becomes(op, op', "answer", op.retiring, FALSE)
      BY <1>3, BecomesFailed DEF Stages
    <2>3. Becomes(op, op', "answer", op.retiring, op'.ok) /\ op' \in Preparations
          /\ op'.at = "answer" /\ op'.frame = op.frame
      BY <2>1, <2>2 DEF Retire, Becomes
    <2>4. \/ Lost /\ Cleared /\ poisoned' \subseteq poisoned /\ leases' = leases /\ ~op'.ok
          \/ leases' = leases \ op.retiring /\ UNCHANGED <<sites, cut, poisoned>> /\ op'.ok = op.ok
      BY <2>1, <2>2 DEF Retire, StopAll, Recovered, Becomes
    <2>5. op \notin Retirements
      <3>1. op = [at |-> op.at, key |-> op.key, frame |-> op.frame, root |-> op.root,
                  reserved |-> op.reserved, active |-> op.active, retiring |-> op.retiring,
                  owner |-> op.owner, ok |-> op.ok]
        BY <1>3 DEF Preparations
      <3>2. "key" \in DOMAIN op
        BY <3>1
      <3> QED
        BY <3>2 DEF Retirements
    <2> QED
      BY <1>1, <1>2, <2>3, <2>4, <2>5, Constants DEF Retire
  <1>4. CASE op \in Retirements
    <2>1. /\ op' \in Retirements /\ op'.at = "answer" /\ op'.frame = op.frame /\ (op'.ok => op.ok)
          /\ op.ok \in BOOLEAN
      BY <1>4 DEF Retirements, Retire, To
    <2>2. \/ Lost /\ Cleared /\ poisoned' \subseteq poisoned /\ leases' = leases /\ ~op'.ok
          \/ leases' = leases \ op.retiring /\ UNCHANGED <<sites, cut, poisoned>> /\ op'.ok = op.ok
      <3>1. [op EXCEPT !.at = "answer", !.ok = FALSE].ok = FALSE /\ [op EXCEPT !.at = "answer"].ok = op.ok
        BY <1>4 DEF Retirements
      <3> QED
        BY <3>1 DEF Retire, To, StopAll, Recovered
    <2>3. op \notin Preparations
      <3>1. op = [at |-> op.at, frame |-> op.frame, retiring |-> op.retiring, ok |-> op.ok]
        BY <1>4 DEF Retirements
      <3>2. "key" \notin DOMAIN op
        BY <3>1
      <3> QED
        BY <3>2 DEF Preparations
    <2> QED
      BY <1>1, <1>2, <2>1, <2>2, <2>3, Constants DEF Retire
  <1> QED
    BY <1>1, <1>3, <1>4

\* Owners that give their sites up, or find the table poisoned.
LEMMA GivenStep ==
  ASSUME TypeInv, NEW owners, Given(owners)
  PROVE  /\ op' # None /\ op' \in Retirements /\ op'.at = "retire" /\ op'.frame = None
         /\ \/ /\ Cleared /\ poisoned' \subseteq poisoned /\ op'.retiring = LeasesIn(sites)
            \/ /\ UNCHANGED <<poisoned, cut>> /\ TableInv(sites)'
               /\ LeasesIn(sites') = LeasesIn(sites) \ op'.retiring
               /\ op'.retiring \subseteq LeasesIn(sites)
               /\ \A k, o, w : Owns(sites', k, o, w) <=> (Owns(sites, k, o, w) /\ o \notin owners)
  <1>1. TableInv(sites) /\ LeasesOf(DOMAIN sites) = LeasesIn(sites) /\ LeasesIn(sites) \subseteq Leases
    BY SitesValid, SiteLeases
  <1>2. CASE "sites" \in poisoned
    <2>1. /\ Cleared /\ poisoned' \subseteq poisoned
          /\ op' = [at |-> "retire", frame |-> None, retiring |-> LeasesIn(sites), ok |-> FALSE]
      BY <1>1, <1>2 DEF Given, Recovered
    <2>2. op' \in Retirements
      BY <1>1, <2>1 DEF Retirements
    <2> QED
      BY <2>1, <2>2, Constants
  <1>3. CASE "sites" \notin poisoned
    <2> DEFINE rest(k) == [o \in DOMAIN sites[k].owners \ owners |-> sites[k].owners[o]]
               done == {k \in DOMAIN sites : DOMAIN sites[k].owners # {} /\ DOMAIN sites[k].owners \subseteq owners}
    <2>1. done = {k \in DOMAIN sites : DOMAIN sites[k].owners # {} /\ DOMAIN rest(k) = {}}
      <3>1. ASSUME NEW k \in DOMAIN sites
            PROVE  DOMAIN rest(k) = {} <=> DOMAIN sites[k].owners \subseteq owners
        OBVIOUS
      <3> QED
        BY <3>1
    <2>2. /\ sites' = [k \in DOMAIN sites \ done |-> [sites[k] EXCEPT !.owners = rest(k)]]
          /\ op' = [at |-> "retire", frame |-> None, retiring |-> LeasesOf(done), ok |-> TRUE]
          /\ UNCHANGED <<poisoned, cut>>
      BY <1>3, <2>1 DEF Given
    <2>3. /\ TableInv(sites)'
          /\ LeasesIn(sites') = {l \in LeasesIn(sites) : l.key \notin done}
          /\ \A k, o, w : Owns(sites', k, o, w) <=> (Owns(sites, k, o, w) /\ o \notin owners)
      <3>1. \A k \in DOMAIN sites : k \in done <=>
              (DOMAIN sites[k].owners # {} /\ DOMAIN sites[k].owners \subseteq owners)
        OBVIOUS
      <3>2. DOMAIN sites' = DOMAIN sites \ done
        BY <2>2
      <3>3. ASSUME NEW k \in DOMAIN sites'
            PROVE  /\ sites'[k] = [lease |-> sites[k].lease, root |-> sites[k].root, owners |-> sites'[k].owners]
                   /\ DOMAIN sites'[k].owners = DOMAIN sites[k].owners \ owners
                   /\ \A o \in DOMAIN sites'[k].owners : sites'[k].owners[o] = sites[k].owners[o]
        <4> DEFINE r == rest(k)
                   p == sites[k]
        <4>1. sites'[k] = [p EXCEPT !.owners = r]
          BY <2>2, <3>2, <3>3
        <4>2. DOMAIN r = DOMAIN p.owners \ owners /\ \A o \in DOMAIN r : r[o] = p.owners[o]
          OBVIOUS
        <4>3. p \in [lease : [n : Nat, key : {k}], root : Roots, owners : {p.owners}]
          BY <1>1, <3>2, <3>3 DEF TableInv, TableOK, SiteOK
        <4> HIDE DEF r, p
        <4>4. sites'[k] = [lease |-> p.lease, root |-> p.root, owners |-> r]
          BY <4>1, <4>3
        <4> QED
          BY <4>2, <4>4 DEF p
      <3> HIDE DEF done, rest
      <3> QED
        BY <1>1, <3>1, <3>2, <3>3, TableGiven
    <2>4. done \in SUBSET (DOMAIN sites)
      OBVIOUS
    <2> HIDE DEF done, rest
    <2>5. LeasesOf(done) = {l \in LeasesIn(sites) : l.key \in done} /\ LeasesOf(done) \subseteq Leases
      BY <2>4, SiteLeases
    <2>6. op' \in Retirements /\ op'.retiring = LeasesOf(done) /\ op'.at = "retire" /\ op'.frame = None
      BY <2>2, <2>5 DEF Retirements
    <2> QED
      BY <2>2, <2>3, <2>5, <2>6, Constants
  <1> QED
    BY <1>2, <1>3

\* A command that goes on for its frame, by Becomes.
LEMMA TypeBecomes ==
  ASSUME TypeInv, Full, NEW a \in {"undo", "retire", "answer"}, NEW R, NEW v \in BOOLEAN,
         Becomes(op, op', a, R, v), frames' = frames, op.at = "commit" => ~v,
         a = "undo" => op.at = "check" /\ ~v
  PROVE  CommandOK' /\ FramesOK' /\ op' \in Preparations
  <1>1. op # None /\ op \in Preparations
    BY Preparing
  <1>2. (Embeds /\ (a = "undo" \/ (a # "commit" /\ v))) => op.owner \in Nat
    BY DEF TypeInv, CommandOK, Full, Pending
  <1> QED
    BY <1>1, <1>2, CommandGoesOn DEF Stages

LEMMA TypeDrain ==
  ASSUME TypeInv, Drain
  PROVE  TypeInv'
  <1>1. CommandOK' /\ FramesOK' /\ op' \in Preparations
    BY DrainStep, TypeBecomes
  <1>2. TableInv(sites)' /\ cut' \subseteq Nat
    BY DrainStep, ClearedSites
  <1> QED
    BY <1>1, <1>2, DrainStep DEF TypeInv, TypeOK, TableInv

LEMMA TypeCommitDraft ==
  ASSUME TypeInv, CommitDraft
  PROVE  TypeInv'
  <1>1. CASE sites' = sites /\ Becomes(op, op', "retire", {op.reserved}, FALSE)
    <2>1. CommandOK' /\ FramesOK' /\ op' \in Preparations
      BY <1>1, CommitDraftStep, TypeBecomes
    <2> QED
      BY <1>1, <2>1, CommitDraftStep DEF TypeInv, TypeOK, TableInv
  <1>2. CASE /\ TableInv(sites)' /\ op' \in Preparations /\ op'.at = "check"
             /\ op'.key = op.key /\ op'.frame = None /\ op'.reserved = op.reserved /\ op'.ok = op.ok
    <2>1. Full /\ op.key[1] = None /\ op.at = "commit"
      BY CommitDraftStep
    <2>2. op.reserved.key = op.key
      BY <2>1, Preparing
    <2>3. op.ok
      BY <2>1 DEF TypeInv, CommandOK, Full
    <2>4. CommandOK' /\ FramesOK'
      BY <1>2, <2>1, <2>2, <2>3, CommitDraftStep DEF TypeInv, CommandOK, FramesOK, Full, Embeds, Pending
    <2> QED
      BY <1>2, <2>4, CommitDraftStep DEF TypeInv, TypeOK, TableInv
  <1> QED
    BY <1>1, <1>2, CommitDraftStep

LEMMA TypeCommitEmbed ==
  ASSUME TypeInv, CommitEmbed
  PROVE  TypeInv'
  <1>1. CASE sites' = sites /\ Becomes(op, op', "retire", {op.reserved}, FALSE)
    <2>1. CommandOK' /\ FramesOK' /\ op' \in Preparations
      BY <1>1, CommitEmbedStep, TypeBecomes
    <2> QED
      BY <1>1, <2>1, CommitEmbedStep DEF TypeInv, TypeOK, TableInv
  <1>2. CASE /\ TableInv(sites)' /\ op' \in Preparations /\ op'.at = "check" /\ op'.owner = next.owner
             /\ op'.key = op.key /\ op'.frame = op.frame /\ op'.reserved = op.reserved /\ op'.ok = op.ok
    <2>1. Full /\ Embeds /\ op.at = "commit" /\ next.owner \in Nat /\ frames' = frames
      BY CommitEmbedStep
    <2>2. op.reserved.key = op.key /\ op # None
      BY <2>1, Preparing
    <2>3. op.ok /\ op.key = Key(op.frame) /\ frames[op.frame].at \in {"asking", "leaving"}
      BY <2>1, <2>2 DEF TypeInv, CommandOK
    <2>4. CommandOK' /\ FramesOK'
      BY <1>2, <2>1, <2>2, <2>3 DEF TypeInv, CommandOK, FramesOK, Full, Embeds, Pending
    <2> QED
      BY <1>2, <2>4, CommitEmbedStep DEF TypeInv, TypeOK, TableInv
  <1> QED
    BY <1>1, <1>2, CommitEmbedStep

LEMMA TypeCheck ==
  ASSUME TypeInv, Check
  PROVE  TypeInv'
  <1>1. op.ok \in BOOLEAN /\ op # None
    BY CheckStep, Preparing
  <1>2. CommandOK' /\ FramesOK' /\ op' \in Preparations
    BY <1>1, CheckStep, TypeBecomes
  <1>3. TableInv(sites)' /\ cut' \subseteq Nat /\ poisoned' \subseteq poisoned
    BY CheckStep, ClearedSites, SitesValid DEF TypeInv, TypeOK
  <1> QED
    BY <1>2, <1>3, CheckStep DEF TypeInv, TypeOK, TableInv

LEMMA TypeUndo ==
  ASSUME TypeInv, Undo
  PROVE  TypeInv'
  <1>1. op.ok \in BOOLEAN /\ op # None /\ op.at = "undo" /\ Full
    BY UndoStep, Preparing
  <1>2. CommandOK' /\ FramesOK' /\ op' \in Preparations
    BY <1>1, UndoStep, TypeBecomes
  <1>3. TableInv(sites)' /\ cut' \subseteq Nat /\ poisoned' \subseteq poisoned
    BY UndoStep, ClearedSites, EndedSites, SitesValid DEF TypeInv, TypeOK
  <1> QED
    BY <1>2, <1>3, UndoStep DEF TypeInv, TypeOK, TableInv

LEMMA TypeRetire ==
  ASSUME TypeInv, Retire
  PROVE  TypeInv'
  <1>1. op # None /\ op \in Preparations \cup Retirements
    BY RetireStep DEF TypeInv, TypeOK
  <1>2. CommandOK' /\ FramesOK' /\ op' \in Preparations \cup Retirements
    <2>1. CASE op \in Preparations
      <3>1. Becomes(op, op', "answer", op.retiring, op'.ok) /\ op'.ok \in BOOLEAN /\ (op'.ok => op.ok)
            /\ frames' = frames /\ op.at = "retire"
        BY <2>1, RetireStep DEF Becomes, Preparations
      <3>2. (Embeds /\ op'.ok) => op.owner \in Nat
        BY <3>1 DEF TypeInv, CommandOK, Pending
      <3> QED
        BY <1>1, <2>1, <3>1, <3>2, CommandGoesOn DEF Stages
    <2>2. CASE op \in Retirements
      <3>1. /\ op' \in Retirements /\ op' # None /\ op'.at = "answer" /\ op'.frame = None /\ frames' = frames
        BY <2>2, RetireStep DEF Retirements
      <3> QED
        BY <3>1 DEF TypeInv, CommandOK, FramesOK, Full, Embeds, Pending
    <2> QED
      BY <1>1, <2>1, <2>2
  <1>3. TableInv(sites)' /\ cut' \subseteq Nat /\ poisoned' \subseteq poisoned /\ leases' \subseteq leases
    BY RetireStep, ClearedSites, SitesValid DEF TypeInv, TypeOK
  <1> QED
    BY <1>2, <1>3, RetireStep DEF TypeInv, TypeOK, TableInv

\* The answer reaches the frame, if there is one.
LEMMA AnswerStep ==
  ASSUME TypeInv, Answer
  PROVE  /\ op # None /\ op.at = "answer" /\ op' = None
         /\ UNCHANGED <<granted, leases, sites, poisoned, revoked, drained, cut, next, left>>
         /\ \/ ~Embeds /\ UNCHANGED <<frames, releases>>
            \/ Embeds /\ ~op.ok /\ Mount(op.frame, "off", None) /\ releases' = releases
            \/ Embeds /\ op.ok /\ Mount(op.frame, "shown", op.owner) /\ releases' = releases
            \/ /\ Embeds /\ op.ok /\ Mount(op.frame, "off", None)
               /\ releases' = releases \cup {<<op.owner, op.frame[1]>>}
         /\ Embeds => op.frame \in Frames /\ op \in Preparations /\ op.frame[1] \in Windows
                      /\ frames[op.frame].owner = None
         /\ Embeds /\ op.ok => Claiming /\ Pending /\ op.owner \in Nat
  <1>1. op # None /\ op.at = "answer" /\ op' = None
    BY DEF Answer, At
  <1>2. ASSUME Embeds
        PROVE  /\ op.frame \in Frames /\ op \in Preparations /\ op.frame[1] \in Windows
               /\ frames[op.frame].owner = None
    <2>1. op \in Preparations /\ op.frame # None /\ frames[op.frame].at \in {"asking", "leaving"}
      BY <1>2 DEF TypeInv, CommandOK, Embeds
    <2>2. op.frame \in Frames
      BY <2>1 DEF Preparations
    <2>3. op.frame[1] \in Windows
      BY <2>2 DEF Frames
    <2> QED
      BY <2>1, <2>2, <2>3 DEF TypeInv, FramesOK
  <1>3. Embeds /\ op.ok => Claiming /\ Pending /\ op.owner \in Nat
    BY <1>1 DEF Claiming, Pending, TypeInv, CommandOK
  <1> QED
    BY <1>1, <1>2, <1>3 DEF Answer, Embeds

LEMMA TypeAnswer ==
  ASSUME TypeInv, Answer
  PROVE  TypeInv'
  <1>1. frames' \in [Frames -> [at : {"off", "asking", "leaving", "shown"}, owner : Nat \cup {None}]]
        /\ FramesOK'
    <2>1. CASE frames' = frames
      BY <2>1 DEF TypeInv, TypeOK, FramesOK
    <2>2. CASE Embeds /\ Mount(op.frame, "off", None)
      BY <2>2, AnswerStep, Mounting
    <2>3. CASE Embeds /\ op.ok /\ Mount(op.frame, "shown", op.owner)
      BY <2>3, AnswerStep, Mounting
    <2> QED
      BY <2>1, <2>2, <2>3, AnswerStep
  <1>2. releases' \subseteq Nat \X Windows
    BY AnswerStep DEF TypeInv, TypeOK
  <1>3. CommandOK' /\ op' = None
    BY AnswerStep DEF CommandOK, Full, Embeds, Pending
  <1> QED
    BY <1>1, <1>2, <1>3, AnswerStep DEF TypeInv, TypeOK

\* A frame is unmounted, before or after it is shown.
LEMMA UnmountStep ==
  ASSUME TypeInv, Unmount
  PROVE  /\ UNCHANGED <<granted, leases, sites, poisoned, op, revoked, drained, cut, next, left>>
         /\ \E f \in Frames :
              \/ /\ frames[f].at = "asking" /\ frames[f].owner = None
                 /\ Mount(f, "leaving", None) /\ releases' = releases
              \/ /\ frames[f].at = "shown" /\ frames[f].owner \in Nat /\ frames[f].owner # None
                 /\ Mount(f, "off", None) /\ f[1] \in Windows
                 /\ releases' = releases \cup {<<frames[f].owner, f[1]>>}
  <1>1. PICK f \in Frames :
          \/ frames[f].at = "asking" /\ Mount(f, "leaving", None) /\ releases' = releases
          \/ /\ frames[f].at = "shown" /\ Mount(f, "off", None)
             /\ releases' = releases \cup {<<frames[f].owner, f[1]>>}
    BY DEF Unmount
  <1>2. frames[f] \in [at : {"off", "asking", "leaving", "shown"}, owner : Nat \cup {None}]
        /\ (frames[f].at = "shown" <=> frames[f].owner # None) /\ f[1] \in Windows
    BY DEF TypeInv, TypeOK, FramesOK, Frames
  <1> QED
    BY <1>1, <1>2 DEF Unmount

LEMMA TypeUnmount ==
  ASSUME TypeInv, Unmount
  PROVE  TypeInv'
  <1>1. PICK f \in Frames :
              \/ /\ frames[f].at = "asking" /\ frames[f].owner = None
                 /\ Mount(f, "leaving", None) /\ releases' = releases
              \/ /\ frames[f].at = "shown" /\ frames[f].owner \in Nat /\ frames[f].owner # None
                 /\ Mount(f, "off", None) /\ f[1] \in Windows
                 /\ releases' = releases \cup {<<frames[f].owner, f[1]>>}
    BY UnmountStep
  <1>2. frames' \in [Frames -> [at : {"off", "asking", "leaving", "shown"}, owner : Nat \cup {None}]]
        /\ FramesOK' /\ (\A g \in Frames : g # f => frames'[g] = frames[g])
        /\ (frames[f].at = "asking" => frames'[f].at = "leaving")
    BY <1>1, Mounting
  <1>3. releases' \subseteq Nat \X Windows
    BY <1>1 DEF TypeInv, TypeOK
  <1>4. CommandOK'
    <2>1. op' = op
      BY UnmountStep
    <2>2. Embeds => op.frame \in Frames /\ frames[op.frame].at \in {"asking", "leaving"}
      BY DEF TypeInv, CommandOK, Embeds, Preparations
    <2>3. Embeds => frames'[op.frame].at \in {"asking", "leaving"}
      BY <1>1, <1>2, <2>2
    <2> QED
      BY <2>1, <2>3 DEF TypeInv, CommandOK, Full, Embeds, Pending
  <1> QED
    BY <1>2, <1>3, <1>4, UnmountStep DEF TypeInv, TypeOK

LEMMA TypeGiven ==
  ASSUME TypeInv, NEW owners, Given(owners), UNCHANGED <<granted, leases, revoked, drained, next>>,
         left' \in [ops : 0 .. MaxOps, faults : 0 .. MaxFaults],
         frames' \in [Frames -> [at : {"off", "asking", "leaving", "shown"}, owner : Nat \cup {None}]],
         FramesOK', releases' \subseteq releases
  PROVE  TypeInv'
  <1>1. op' # None /\ op' \in Retirements /\ op'.at = "retire" /\ op'.frame = None
    BY GivenStep
  <1>2. TableInv(sites)' /\ cut' \subseteq Nat /\ poisoned' \subseteq poisoned
    BY GivenStep, ClearedSites DEF TypeInv, TypeOK
  <1>3. CommandOK'
    BY <1>1 DEF CommandOK, Full, Embeds, Pending
  <1> QED
    BY <1>1, <1>2, <1>3 DEF TypeInv, TypeOK, TableInv

LEMMA TypeRelease ==
  ASSUME TypeInv, Release
  PROVE  TypeInv'
  <1>1. PICK r \in releases : /\ releases' = releases \ {r}
          /\ Given({o \in Owners : \E k \in DOMAIN sites :
               o = r[1] /\ o \in DOMAIN sites[k].owners /\ sites[k].owners[o] = r[2]})
          /\ UNCHANGED <<granted, leases, revoked, drained, frames, next, left>>
    BY DEF Release
  <1> QED
    BY <1>1, TypeGiven DEF TypeInv, TypeOK, FramesOK

LEMMA TypeWindowDestroyed ==
  ASSUME TypeInv, WindowDestroyed
  PROVE  TypeInv'
  <1>1. PICK w \in Windows : /\ Spend("ops")
          /\ frames' = [f \in Frames |-> IF f[1] = w THEN Off ELSE frames[f]]
          /\ releases' = {r \in releases : r[2] # w}
          /\ Given({o \in Owners : \E k \in DOMAIN sites :
               o \in DOMAIN sites[k].owners /\ sites[k].owners[o] = w})
          /\ UNCHANGED <<granted, leases, revoked, drained, next>>
    BY DEF WindowDestroyed
  <1>2. Off \in [at : {"off", "asking", "leaving", "shown"}, owner : Nat \cup {None}]
        /\ Off.at = "off" /\ Off.owner = None
    BY DEF Off
  <1>3. frames' \in [Frames -> [at : {"off", "asking", "leaving", "shown"}, owner : Nat \cup {None}]]
        /\ FramesOK'
    BY <1>1, <1>2 DEF TypeInv, TypeOK, FramesOK
  <1>4. left' \in [ops : 0 .. MaxOps, faults : 0 .. MaxFaults]
    BY <1>1, Spending
  <1> QED
    BY <1>1, <1>3, <1>4, TypeGiven

LEMMA TypeNext == TypeInv /\ [Next]_vars => TypeInv'
  <1>1. ASSUME TypeInv, Next
        PROVE  TypeInv'
    BY <1>1, TypeReserve, TypeAuthority, TypeDrain, TypeCommitDraft, TypeCommitEmbed, TypeCheck, TypeUndo,
       TypeRetire, TypeAnswer, TypeUnmount, TypeRelease, TypeWindowDestroyed DEF Next
  <1>2. ASSUME TypeInv, UNCHANGED vars
        PROVE  TypeInv'
    BY <1>2 DEF vars, TypeInv, TypeOK, FramesOK, CommandOK, Full, Embeds, Pending
  <1> QED
    BY <1>1, <1>2

(***************************************************************************)
(* Leases                                                                  *)
(***************************************************************************)
\* The leases of the sites, and those that the command is going to retire.
Ledger == LeasesIn(sites)
Owed == IF op = None THEN {} ELSE IF op.at = "commit" THEN {op.reserved}
        ELSE IF op.at = "answer" THEN {} ELSE op.retiring

\* A lease that is reserved is a new one.
Numbered ==
  /\ \A l \in leases \cup revoked \cup drained \cup Ledger : l.n < next.lease
  /\ Full => op.reserved.n < next.lease
\* What has been revoked is in no ledger, and what has been drained is no site's.
Apart ==
  /\ revoked \cap leases = {} /\ drained \cap Ledger = {}
  /\ revoked = {} \/ drained = {}
\* A site runs under a lease, or it is going to be ended: by the thread that has revoked its
\* lease, or by the command that put it there when its reservation had already been revoked.
Backed == \A l \in Ledger : l \in leases \cup revoked \/ (Acting /\ l = op.reserved)
\* A lease is a site's, or it is going to be retired.
Accounted == leases \subseteq Ledger \cup drained \cup Owed
\* The command retires no lease of a site that goes on.
OfCommand ==
  /\ At("commit") => op.reserved \notin Ledger \cup drained
  /\ (At("check") \/ At("retire")) => op.retiring \cap Ledger = {}
  /\ At("undo") => op.retiring \cap Ledger \subseteq {op.reserved}
  /\ Acting => \A l \in Ledger : l.key = op.key => l = op.active
  /\ (Acting /\ Embeds /\ op.active = op.reserved) =>
       \A o, w : Owns(sites, op.key, o, w) => o = op.owner
LeasesHeld == Numbered /\ Apart /\ Backed /\ Accounted /\ OfCommand
LeaseInv == ~Lost => LeasesHeld

LEMMA LeaseInit == Init => LeaseInv
  <1> SUFFICES ASSUME Init PROVE LeasesHeld
    BY DEF LeaseInv
  <1>1. Ledger = {}
    BY EmptyTable DEF Init, Ledger
  <1> QED
    BY <1>1 DEF Init, LeasesHeld, Numbered, Apart, Backed, Accounted, OfCommand, Full, Acting, At, Owed

\* Every lease is one.
LEMMA LedgerLeases ==
  ASSUME TypeInv
  PROVE  /\ Ledger \subseteq Leases /\ \A l, m \in Ledger : l.key = m.key => l = m
         /\ \A l \in Ledger : l.key \in DOMAIN sites /\ sites[l.key].lease = l
         /\ \A k \in DOMAIN sites : sites[k].lease \in Ledger
         /\ next \in [lease : Nat, owner : Nat]
         /\ \A l \in leases \cup revoked \cup drained \cup Ledger : l.n \in Nat
  <1>1. TableInv(sites)
    BY SitesValid
  <1>2. /\ Ledger \subseteq Leases /\ \A l, m \in Ledger : l.key = m.key => l = m
        /\ \A l \in Ledger : l.key \in DOMAIN sites /\ sites[l.key].lease = l
        /\ \A k \in DOMAIN sites : sites[k].lease \in Ledger
    BY <1>1, LeaseKeys DEF Ledger
  <1> QED
    BY <1>2 DEF TypeInv, TypeOK, Leases

LEMMA LeaseReserve ==
  ASSUME TypeInv, LeasesHeld, NEW key \in Keys, NEW frame \in Frames \cup {None}, NEW root \in Roots,
         Reserve(key, frame, root)
  PROVE  LeasesHeld'
  <1> DEFINE lease == [n |-> next.lease, key |-> key]
  <1>1. /\ op' # None /\ op'.at = "commit" /\ op'.reserved = lease
        /\ next'.lease = next.lease + 1 /\ lease.n = next.lease
    BY ReservedCommand
  <1>2. /\ leases' = leases \cup {lease} /\ op = None
        /\ UNCHANGED <<sites, poisoned, revoked, drained>>
    BY DEF Reserve
  <1>3. \A l \in leases \cup revoked \cup drained \cup Ledger : l.n \in Nat /\ l.n < next.lease /\ l # lease
        /\ next.lease \in Nat
    BY LedgerLeases, <1>1 DEF LeasesHeld, Numbered
  <1>4. Ledger' = Ledger
    BY <1>2 DEF Ledger
  <1> HIDE DEF lease
  <1>5. next.lease \in Nat
    BY LedgerLeases
  <1>6. Numbered'
    BY <1>1, <1>2, <1>3, <1>4, <1>5 DEF Numbered
  <1>7. Apart' /\ Backed' /\ Accounted' /\ OfCommand'
    BY <1>1, <1>2, <1>3, <1>4 DEF LeasesHeld, Apart, Backed, Accounted, OfCommand, Acting, At, Owed
  <1> QED
    BY <1>6, <1>7 DEF LeasesHeld

\* Steps of other threads: the command stays where it is.
LEMMA LeaseAuthority ==
  ASSUME TypeInv, ~Lost, LeasesHeld, Revoke \/ RevokeFails \/ Granted \/ Invalidate \/ RetireDrained \/ Poison
  PROVE  LeasesHeld'
  <1>1. UNCHANGED <<op, next>>
    BY DEF Revoke, RevokeFails, Granted, Invalidate, RetireDrained, Poison
  <1>2. CASE Revoke
    <2>1. PICK gone \in SUBSET leases : /\ revoked' = gone /\ leases' = leases \ gone /\ revoked = {}
            /\ UNCHANGED <<sites, drained>>
      <3>1. PICK path \in granted, more \in {{}, Unsupported} :
              /\ drained' = drained /\ sites' = sites /\ revoked = {} /\ drained = {}
              /\ revoked' = Revoked(path) \cup more /\ leases' = leases \ (Revoked(path) \cup more)
        BY <1>2 DEF Revoke
      <3>2. Revoked(path) \cup more \subseteq leases
        BY DEF Revoked, Unsupported
      <3> QED
        BY <3>1, <3>2
    <2>2. drained = {}
      BY <1>2 DEF Revoke
    <2>3. Ledger' = Ledger
      BY <2>1 DEF Ledger
    <2>4. Numbered' /\ Apart' /\ Backed' /\ Accounted'
      BY <1>1, <2>1, <2>2, <2>3 DEF LeasesHeld, Numbered, Apart, Backed, Accounted, Acting, Full, Owed
    <2>5. OfCommand'
      BY <1>1, <2>1, <2>3 DEF LeasesHeld, OfCommand, Acting, At, Embeds
    <2> QED
      BY <2>4, <2>5 DEF LeasesHeld
  <1>3. CASE Granted \/ Poison
    <2>1. UNCHANGED <<leases, sites, op, revoked, drained, next>>
      BY <1>3 DEF Granted, Poison
    <2> QED
      BY <2>1 DEF LeasesHeld, Numbered, Apart, Backed, Accounted, OfCommand, Acting, At, Embeds, Full, Owed,
         Ledger
  <1>4. CASE Invalidate /\ "sites" \in poisoned
    <2>1. /\ Cleared /\ drained' = LeasesOf(DOMAIN sites) /\ revoked' = {} /\ leases' = leases /\ revoked # {}
      BY <1>4 DEF Invalidate, Recovered
    <2>2. Ledger' = {} /\ drained' = Ledger /\ \A k, o, w : ~Owns(sites', k, o, w)
      BY <2>1, ClearedSites, SiteLeases DEF Ledger
    <2>3. drained = {}
      BY <2>1 DEF LeasesHeld, Apart
    <2>4. Numbered' /\ Apart' /\ Backed' /\ Accounted'
      BY <1>1, <2>1, <2>2, <2>3 DEF LeasesHeld, Numbered, Apart, Backed, Accounted, Acting, Full, Owed
    <2>5. At("commit") => op.reserved \notin drained'
      BY <2>2 DEF LeasesHeld, OfCommand
    <2>6. OfCommand'
      BY <1>1, <2>2, <2>5 DEF LeasesHeld, OfCommand, Acting, At, Embeds
    <2> QED
      BY <2>4, <2>6 DEF LeasesHeld
  <1>5. CASE Invalidate /\ "sites" \notin poisoned
    <2> DEFINE K == {k \in DOMAIN sites : sites[k].lease \in revoked}
    <2>1. Ended(K) /\ revoked' = {} /\ drained' = drained /\ leases' = leases
      BY <1>5 DEF Invalidate
    <2>2. \A l \in Ledger : l.key \in K <=> l \in revoked
      BY LedgerLeases
    <2> HIDE DEF K
    <2>3. /\ Ledger' = {l \in Ledger : l.key \notin K}
          /\ \A k, o, w : Owns(sites', k, o, w) => Owns(sites, k, o, w)
      BY <2>1, EndedSites DEF Ledger
    <2>4. Ledger' = Ledger \ revoked
      BY <2>2, <2>3
    <2>5. Numbered' /\ Apart' /\ Backed' /\ Accounted'
      BY <1>1, <2>1, <2>4 DEF LeasesHeld, Numbered, Apart, Backed, Accounted, Acting, Full, Owed
    <2>6. OfCommand'
      BY <1>1, <2>1, <2>3, <2>4 DEF LeasesHeld, OfCommand, Acting, At, Embeds
    <2> QED
      BY <2>5, <2>6 DEF LeasesHeld
  <1>6. CASE RetireDrained
    <2>1. drained' = {} /\ leases' = leases \ drained /\ UNCHANGED <<sites, revoked>>
      BY <1>6 DEF RetireDrained
    <2>2. Ledger' = Ledger
      BY <2>1 DEF Ledger
    <2>3. Numbered' /\ Apart' /\ Backed' /\ Accounted'
      BY <1>1, <2>1, <2>2 DEF LeasesHeld, Numbered, Apart, Backed, Accounted, Acting, Full, Owed
    <2>4. OfCommand'
      BY <1>1, <2>1, <2>2 DEF LeasesHeld, OfCommand, Acting, At, Embeds
    <2> QED
      BY <2>3, <2>4 DEF LeasesHeld
  <1>7. CASE RevokeFails
    BY <1>7 DEF RevokeFails
  <1> QED
    BY <1>2, <1>3, <1>4, <1>5, <1>6, <1>7

\* The table is left alone, or cleared, or loses sites: the rest for the steps of commands.
LEMMA LeaseDrain ==
  ASSUME TypeInv, LeasesHeld, Drain
  PROVE  LeasesHeld'
  <1>1. Ledger' = {}
    BY DrainStep, ClearedSites DEF Ledger
  <1>2. /\ op # None /\ op.at = "commit" /\ op.reserved \in Leases
        /\ op' # None /\ op'.at = "retire" /\ op'.retiring = Ledger \cup {op.reserved}
        /\ UNCHANGED <<leases, revoked, drained, next>>
    BY DrainStep, Preparing, Constants DEF Becomes, Ledger
  <1>3. Numbered' /\ Apart' /\ Backed' /\ Accounted'
    BY <1>1, <1>2 DEF LeasesHeld, Numbered, Apart, Backed, Accounted, Acting, Full, Owed
  <1>4. OfCommand'
    BY <1>1, <1>2 DEF OfCommand, Acting, At
  <1> QED
    BY <1>3, <1>4 DEF LeasesHeld

\* A command that fails before it has changed the table retires its reservation.
LEMMA LeaseFails ==
  ASSUME TypeInv, LeasesHeld, Full, op.at = "commit", sites' = sites,
         Becomes(op, op', "retire", {op.reserved}, FALSE),
         UNCHANGED <<leases, revoked, drained>>, next'.lease = next.lease
  PROVE  LeasesHeld'
  <1>1. Ledger' = Ledger
    BY DEF Ledger
  <1>2. /\ op # None /\ op' # None /\ op'.at = "retire" /\ op'.retiring = {op.reserved}
    BY Preparing, Constants DEF Becomes
  <1>3. op.reserved \notin Ledger
    BY <1>2 DEF LeasesHeld, OfCommand, At
  <1>4. Numbered' /\ Apart' /\ Backed' /\ Accounted'
    BY <1>1, <1>2 DEF LeasesHeld, Numbered, Apart, Backed, Accounted, Acting, Full, Owed
  <1>5. OfCommand'
    BY <1>1, <1>2, <1>3 DEF OfCommand, Acting, At
  <1> QED
    BY <1>4, <1>5 DEF LeasesHeld

LEMMA LeaseCommitDraft ==
  ASSUME TypeInv, LeasesHeld, CommitDraft
  PROVE  LeasesHeld'
  <1>1. CASE sites' = sites /\ Becomes(op, op', "retire", {op.reserved}, FALSE)
    BY <1>1, CommitDraftStep, LeaseFails
  <1>2. CASE /\ LeasesIn(sites') = {l \in LeasesIn(sites) : l.key # op.key} \cup {op.reserved}
             /\ op' \in Preparations /\ op'.at = "check" /\ op'.active = op.reserved
             /\ op'.retiring = {l \in LeasesIn(sites) : l.key = op.key}
             /\ op'.key = op.key /\ op'.frame = None /\ op'.reserved = op.reserved
    <2>1. Full /\ op.at = "commit" /\ UNCHANGED <<leases, revoked, drained, next>>
      BY CommitDraftStep
    <2>2. op # None /\ op.reserved.key = op.key
      BY <2>1, Preparing
    <2>3. /\ Ledger' = {l \in Ledger : l.key # op.key} \cup {op.reserved}
          /\ op'.retiring = {l \in Ledger : l.key = op.key} /\ op' # None
      BY <1>2, Constants DEF Ledger
    <2>4. op.reserved \notin Ledger \cup drained /\ op.reserved.n < next.lease
      BY <2>1, <2>2 DEF LeasesHeld, OfCommand, At, Numbered
    <2>5. Numbered' /\ Apart'
      BY <1>2, <2>1, <2>3, <2>4 DEF LeasesHeld, Numbered, Apart, Full
    <2>6. Backed'
      BY <1>2, <2>1, <2>3 DEF LeasesHeld, Backed, Acting
    <2>7. Accounted'
      BY <1>2, <2>1, <2>2, <2>3 DEF LeasesHeld, Accounted, Owed
    <2>8. OfCommand'
      BY <1>2, <2>2, <2>3, <2>4 DEF OfCommand, Acting, At, Embeds
    <2> QED
      BY <2>5, <2>6, <2>7, <2>8 DEF LeasesHeld
  <1> QED
    BY <1>1, <1>2, CommitDraftStep

LEMMA LeaseCommitEmbed ==
  ASSUME TypeInv, LeasesHeld, CommitEmbed
  PROVE  LeasesHeld'
  <1>1. CASE sites' = sites /\ Becomes(op, op', "retire", {op.reserved}, FALSE)
    BY <1>1, CommitEmbedStep, LeaseFails
  <1>2. CASE /\ \A k, o, w : Owns(sites', k, o, w) <=>
                    IF k = op.key /\ o = next.owner THEN w = op.frame[1] ELSE Owns(sites, k, o, w)
             /\ op' \in Preparations /\ op'.at = "check" /\ op'.owner = next.owner
             /\ op'.key = op.key /\ op'.frame = op.frame /\ op'.reserved = op.reserved
             /\ \/ /\ op.key \in DOMAIN sites /\ op'.active = sites[op.key].lease
                   /\ op'.retiring = {op.reserved} /\ LeasesIn(sites') = LeasesIn(sites)
                \/ /\ op.key \notin DOMAIN sites /\ op'.active = op.reserved /\ op'.retiring = {}
                   /\ LeasesIn(sites') = LeasesIn(sites) \cup {op.reserved}
    <2>1. Full /\ op.at = "commit" /\ UNCHANGED <<leases, revoked, drained>> /\ next'.lease = next.lease
      BY CommitEmbedStep
    <2>2. op # None /\ op.reserved.key = op.key /\ op' # None
      BY <2>1, <1>2, Preparing, Constants
    <2>3. op.reserved \notin Ledger \cup drained /\ op.reserved.n < next.lease
      BY <2>1, <2>2 DEF LeasesHeld, OfCommand, At, Numbered
    <2>4. CASE /\ op.key \in DOMAIN sites /\ op'.active = sites[op.key].lease
               /\ op'.retiring = {op.reserved} /\ LeasesIn(sites') = LeasesIn(sites)
      <3>1. Ledger' = Ledger
        BY <2>4 DEF Ledger
      <3>2. op'.active \in Ledger /\ op'.active.key = op.key /\ op'.active # op.reserved
        BY <2>3, <2>4, LedgerLeases, SitesValid, LeaseKeys
      <3>3. Numbered' /\ Apart' /\ Backed' /\ Accounted'
        BY <1>2, <2>1, <2>2, <2>3, <2>4, <3>1
           DEF LeasesHeld, Numbered, Apart, Full, Backed, Acting, Accounted, Owed
      <3>4. \A l \in Ledger : l.key = op.key => l = op'.active
        BY <3>2, LedgerLeases
      <3>5. OfCommand'
        BY <1>2, <2>2, <2>3, <2>4, <3>1, <3>2, <3>4 DEF OfCommand, Acting, At
      <3> QED
        BY <3>3, <3>5 DEF LeasesHeld
    <2>5. CASE /\ op.key \notin DOMAIN sites /\ op'.active = op.reserved /\ op'.retiring = {}
               /\ LeasesIn(sites') = LeasesIn(sites) \cup {op.reserved}
      <3>1. Ledger' = Ledger \cup {op.reserved}
        BY <2>5 DEF Ledger
      <3>2. Numbered' /\ Apart'
        BY <1>2, <2>1, <2>2, <2>3, <2>5, <3>1 DEF LeasesHeld, Numbered, Apart, Full
      <3>3. Backed' /\ Accounted'
        BY <1>2, <2>1, <2>2, <2>3, <2>5, <3>1 DEF LeasesHeld, Backed, Acting, Accounted, Owed
      <3>4. \A l \in Ledger : l.key # op.key
        BY <2>5, LedgerLeases
      <3>5. \A o, w : ~Owns(sites, op.key, o, w)
        BY <2>5 DEF Owns
      <3>6. OfCommand'
        BY <1>2, <2>2, <2>3, <2>5, <3>1, <3>4, <3>5 DEF OfCommand, Acting, At
      <3> QED
        BY <3>2, <3>3, <3>6 DEF LeasesHeld
    <2> QED
      BY <1>2, <2>4, <2>5
  <1> QED
    BY <1>1, <1>2, CommitEmbedStep

LEMMA LeaseCheck ==
  ASSUME TypeInv, ~Lost, LeasesHeld, Check
  PROVE  LeasesHeld'
  <1>1. Full /\ Acting /\ op # None /\ op.at = "check" /\ UNCHANGED <<leases, revoked, drained, next, sites>>
        /\ op' # None /\ op'.key = op.key /\ op'.frame = op.frame /\ op'.reserved = op.reserved
        /\ op'.active = op.active /\ op'.owner = op.owner
    BY CheckStep, Constants DEF Becomes, Full
  <1>2. Ledger' = Ledger
    BY <1>1 DEF Ledger
  <1>3. CASE Valid(op.reserved) /\ Valid(op.active) /\ op'.at = "retire" /\ op'.retiring = op.retiring
    <2>1. op.reserved \in leases
      BY <1>3 DEF Valid
    <2>2. Numbered' /\ Apart' /\ Backed' /\ Accounted'
      BY <1>1, <1>2, <1>3, <2>1 DEF LeasesHeld, Numbered, Apart, Backed, Accounted, Acting, Full, Owed
    <2>3. OfCommand'
      BY <1>1, <1>2, <1>3 DEF LeasesHeld, OfCommand, Acting, At
    <2> QED
      BY <2>2, <2>3 DEF LeasesHeld
  <1>4. CASE op'.at = "undo" /\ op'.retiring = op.retiring \cup {op.reserved}
    <2>1. Numbered' /\ Apart' /\ Backed' /\ Accounted'
      BY <1>1, <1>2, <1>4 DEF LeasesHeld, Numbered, Apart, Backed, Accounted, Acting, Full, Owed
    <2>2. OfCommand'
      BY <1>1, <1>2, <1>4 DEF LeasesHeld, OfCommand, Acting, At, Embeds
    <2> QED
      BY <2>1, <2>2 DEF LeasesHeld
  <1> QED
    BY <1>3, <1>4, CheckStep DEF Becomes

LEMMA LeaseUndo ==
  ASSUME TypeInv, ~Lost, LeasesHeld, Undo
  PROVE  LeasesHeld'
  <1>1. Full /\ Acting /\ op # None /\ op.at = "undo" /\ UNCHANGED <<leases, revoked, drained, next>>
        /\ op' # None /\ op'.at = "retire" /\ op.reserved.key = op.key
    BY UndoStep, Preparing, Constants DEF Becomes, Full
  <1>2. /\ op.retiring \cap Ledger \subseteq {op.reserved}
        /\ \A l \in Ledger : l.key = op.key => l = op.active
    BY <1>1 DEF LeasesHeld, OfCommand, At
  <1>3. CASE Ledger' = {} /\ op'.retiring = op.retiring \cup Ledger
    <2>1. Numbered' /\ Apart' /\ Backed' /\ Accounted'
      BY <1>1, <1>3 DEF LeasesHeld, Numbered, Apart, Backed, Accounted, Acting, Full, Owed
    <2>2. OfCommand'
      BY <1>1, <1>3 DEF OfCommand, Acting, At
    <2> QED
      BY <2>1, <2>2 DEF LeasesHeld
  <1>4. CASE Ledger' = Ledger /\ op'.retiring = op.retiring /\ op.reserved \notin Ledger
    <2>1. Numbered' /\ Apart' /\ Backed' /\ Accounted'
      BY <1>1, <1>4 DEF LeasesHeld, Numbered, Apart, Backed, Accounted, Acting, Full, Owed
    <2>2. OfCommand'
      BY <1>1, <1>2, <1>4 DEF OfCommand, Acting, At
    <2> QED
      BY <2>1, <2>2 DEF LeasesHeld
  <1>5. CASE /\ op.key \in DOMAIN sites /\ sites[op.key].lease = op.active
             /\ Ledger' = {l \in Ledger : l.key # op.key} /\ op'.retiring = op.retiring \cup {op.active}
    <2>1. op.active.key = op.key
      BY <1>5, SitesValid, LeaseKeys
    <2>2. Ledger' = Ledger \ {op.active} /\ op.reserved \notin Ledger'
      BY <1>1, <1>2, <1>5, <2>1
    <2>3. Numbered' /\ Apart' /\ Backed' /\ Accounted'
      BY <1>1, <1>5, <2>2 DEF LeasesHeld, Numbered, Apart, Backed, Accounted, Acting, Full, Owed
    <2>4. OfCommand'
      BY <1>1, <1>2, <1>5, <2>2 DEF OfCommand, Acting, At
    <2> QED
      BY <2>3, <2>4 DEF LeasesHeld
  <1>6. ASSUME op.key \notin DOMAIN sites \/ sites[op.key].lease # op.active
        PROVE  op.reserved \notin Ledger
    BY <1>1, <1>2, <1>6, LedgerLeases
  <1>7. ASSUME op.key \in DOMAIN sites, sites[op.key].lease = op.active, Embeds,
               DOMAIN sites[op.key].owners \ {op.owner} # {}
        PROVE  op.reserved \notin Ledger
    <2>1. PICK o \in DOMAIN sites[op.key].owners : o # op.owner
      BY <1>7
    <2>2. Owns(sites, op.key, o, sites[op.key].owners[o])
      BY <1>7, <2>1 DEF Owns
    <2>3. op.active # op.reserved
      BY <1>1, <1>7, <2>1, <2>2 DEF LeasesHeld, OfCommand
    <2> QED
      BY <1>1, <1>2, <2>3
  <1>8. Cleared => Ledger' = {}
    BY ClearedSites DEF Ledger
  <1>9. Ended({op.key}) => Ledger' = {l \in Ledger : l.key # op.key}
    <2> DEFINE K == {op.key}
    <2>1. \A l : l.key \notin K <=> l.key # op.key
      OBVIOUS
    <2> HIDE DEF K
    <2>2. Ended(K) => LeasesIn(sites') = {l \in LeasesIn(sites) : l.key \notin K}
      BY EndedSites
    <2>3. Ended(K) => Ledger' = {l \in Ledger : l.key # op.key}
      BY ONLY <2>1, <2>2 DEF Ledger
    <2> QED
      BY ONLY <2>3 DEF K
  <1>10. LeasesIn(sites') = LeasesIn(sites) => Ledger' = Ledger
    BY DEF Ledger
  <1>11. \/ Cleared /\ op'.retiring = op.retiring \cup Ledger
         \/ /\ sites' = sites /\ op'.retiring = op.retiring
            /\ op.key \notin DOMAIN sites \/ sites[op.key].lease # op.active
         \/ /\ op.key \in DOMAIN sites /\ sites[op.key].lease = op.active
            /\ Ended({op.key}) /\ op'.retiring = op.retiring \cup {op.active}
         \/ /\ op.key \in DOMAIN sites /\ sites[op.key].lease = op.active
            /\ Embeds /\ DOMAIN sites[op.key].owners \ {op.owner} # {}
            /\ op'.retiring = op.retiring /\ LeasesIn(sites') = LeasesIn(sites)
    BY UndoStep DEF Becomes, Ledger
  <1>12. sites' = sites => Ledger' = Ledger
    BY DEF Ledger
  <1> QED
    BY <1>3, <1>4, <1>5, <1>6, <1>7, <1>8, <1>9, <1>10, <1>11, <1>12

LEMMA LeaseRetire ==
  ASSUME TypeInv, ~Lost, LeasesHeld, Retire
  PROVE  LeasesHeld'
  <1>1. /\ op # None /\ op.at = "retire" /\ op' # None /\ op'.at = "answer"
        /\ leases' = leases \ op.retiring /\ UNCHANGED <<sites, revoked, drained, next>>
    BY RetireStep
  <1>2. Ledger' = Ledger
    BY <1>1 DEF Ledger
  <1>3. Numbered' /\ Apart' /\ Backed' /\ Accounted'
    BY <1>1, <1>2 DEF LeasesHeld, Numbered, Apart, Backed, Accounted, OfCommand, At, Acting, Full, Owed
  <1>4. OfCommand'
    BY <1>1, <1>2 DEF OfCommand, Acting, At
  <1> QED
    BY <1>3, <1>4 DEF LeasesHeld

LEMMA LeaseAnswer ==
  ASSUME TypeInv, LeasesHeld, Answer
  PROVE  LeasesHeld'
  <1>1. /\ op # None /\ op.at = "answer" /\ op' = None
        /\ UNCHANGED <<leases, sites, revoked, drained, next>>
    BY AnswerStep DEF Answer
  <1> QED
    BY <1>1 DEF LeasesHeld, Numbered, Apart, Backed, Accounted, OfCommand, At, Acting, Full, Owed, Ledger

LEMMA LeaseUnmount ==
  ASSUME TypeInv, LeasesHeld, Unmount
  PROVE  LeasesHeld'
  <1>1. UNCHANGED <<leases, sites, revoked, drained, next, op>>
    BY DEF Unmount
  <1> QED
    BY <1>1 DEF LeasesHeld, Numbered, Apart, Backed, Accounted, OfCommand, At, Acting, Embeds, Full, Owed, Ledger

LEMMA LeaseGiven ==
  ASSUME TypeInv, LeasesHeld, op = None, NEW owners, Given(owners), UNCHANGED <<leases, revoked, drained, next>>
  PROVE  LeasesHeld'
  <1>1. op' # None /\ op'.at = "retire"
    BY GivenStep
  <1>2. Cleared => Ledger' = {}
    BY ClearedSites DEF Ledger
  <1>3. Ledger' = Ledger \ op'.retiring /\ op'.retiring \subseteq Ledger
    BY <1>2, GivenStep DEF Ledger
  <1>4. Numbered' /\ Apart' /\ Backed' /\ Accounted'
    BY <1>1, <1>3 DEF LeasesHeld, Numbered, Apart, Backed, Accounted, Acting, Full, Owed
  <1>5. OfCommand'
    BY <1>1, <1>3 DEF OfCommand, Acting, At
  <1> QED
    BY <1>4, <1>5 DEF LeasesHeld

\* The authorization stays lost.
LEMMA LostStays ==
  ASSUME Lost, [Next]_vars
  PROVE  Lost'
  <1>1. poisoned \ {"sites"} \subseteq poisoned'
    BY DEF Next, vars, PrepareDraft, PrepareEmbed, Reserve, Revoke, RevokeFails, Granted, Invalidate, RetireDrained,
       Drain, CommitDraft, CommitEmbed, Check, Undo, Retire, Answer, Unmount, Release, WindowDestroyed, Poison,
       StopAll, Recovered, Given
  <1> QED
    BY <1>1 DEF Lost

LEMMA LeaseNext ==
  ASSUME TypeInv, LeaseInv, [Next]_vars
  PROVE  LeaseInv'
  <1> SUFFICES ASSUME ~Lost' PROVE LeasesHeld'
    BY DEF LeaseInv
  <1>1. ~Lost /\ LeasesHeld
    BY LostStays DEF LeaseInv
  <1>2. CASE PrepareDraft \/ PrepareEmbed
    <2>1. \A d \in Documents : Draft(d) \in Keys
      BY DEF Keys, Draft
    <2>2. \A f \in Frames : Key(f) \in Keys
      BY DEF Keys, Key, Frames
    <2> QED
      BY <1>1, <1>2, <2>1, <2>2, LeaseReserve DEF PrepareDraft, PrepareEmbed
  <1>3. CASE Release \/ WindowDestroyed
    BY <1>1, <1>3, LeaseGiven DEF Release, WindowDestroyed
  <1>4. CASE UNCHANGED vars
    BY <1>1, <1>4 DEF vars, LeasesHeld, Numbered, Apart, Backed, Accounted, OfCommand, At, Acting, Embeds, Full,
       Owed, Ledger
  <1> QED
    BY <1>1, <1>2, <1>3, <1>4, LeaseAuthority, LeaseDrain, LeaseCommitDraft, LeaseCommitEmbed, LeaseCheck, LeaseUndo,
       LeaseRetire, LeaseAnswer, LeaseUnmount DEF Next

(***************************************************************************)
(* Owners                                                                  *)
(***************************************************************************)
\* A frame shows what it owns; an owner is waited for by its frame, or is to be released.
Shows(f, o) == o # None /\ frames[f].owner = o
Waited(o) == (\E f \in Frames : Shows(f, o)) \/ (\E r \in releases : r[1] = o)
Served(o) == \E k, w : Owns(sites, k, o, w)
\* The owner of the command: it is going to be shown, or to be taken back.
Awaited(o) == Pending /\ o = op.owner
Known(o) == o \in Nat /\ o < next.owner

\* An owner that is drawn is a new one.
Drawn == \A o : (Served(o) \/ o \in cut \/ Waited(o) \/ Awaited(o)) => Known(o)
\* An owner of a site is waited for, and no other is, but those whose site was ended.
Kept == \A o : Served(o) => o \notin cut /\ (Waited(o) \/ Awaited(o))
Claimed == \A o : (Waited(o) \/ (Claiming /\ o = op.owner)) => Served(o) \/ o \in cut
\* Each is waited for once.
Single ==
  /\ \A f, g \in Frames : \A o : Shows(f, o) /\ Shows(g, o) => f = g
  /\ \A r, s \in releases : r[1] = s[1] => r = s
  /\ \A f \in Frames, r \in releases : ~Shows(f, r[1])
  /\ \A o : Awaited(o) => ~Waited(o)
\* It is served in its window, and what the command put into the table is under the command's key.
Windowed == \A k, o, w : Owns(sites, k, o, w) =>
  /\ \A f \in Frames : Shows(f, o) => w = f[1]
  /\ \A r \in releases : r[1] = o => w = r[2]
  /\ Awaited(o) => w = op.frame[1] /\ (Acting => k = op.key)
OwnersHeld == Drawn /\ Kept /\ Claimed /\ Single /\ Windowed
OwnerInv == ~Lost => OwnersHeld

LEMMA OwnerInit == Init => OwnerInv
  <1> SUFFICES ASSUME Init PROVE OwnersHeld
    BY DEF OwnerInv
  <1>1. \A k, o, w : ~Owns(sites, k, o, w)
    BY EmptyTable DEF Init, Owns
  <1>2. \A f \in Frames : \A o : ~Shows(f, o)
    BY DEF Init, Shows, Off
  <1>3. releases = {} /\ cut = {} /\ op = None
    BY DEF Init
  <1> QED
    BY <1>1, <1>2, <1>3 DEF OwnersHeld, Drawn, Kept, Claimed, Single, Windowed, Waited, Served, Awaited, Pending,
       Claiming, Embeds

\* Sites end, or stay: an owner that loses its site is cut.
SitesEnd ==
  /\ \A k, o, w : Owns(sites', k, o, w) => Owns(sites, k, o, w)
  /\ cut \subseteq cut'
  /\ \A o \in cut' : o \in cut \/ (Served(o) /\ ~Served(o)')
  /\ \A o : Served(o) => Served(o)' \/ o \in cut'

LEMMA OwnersAreServed == \A o : o \in Owners <=> Served(o)
  BY OwnerIn DEF Owners, Served

LEMMA SitesEnded ==
  ASSUME TypeInv, Cleared \/ (\E K : Ended(K)) \/ UNCHANGED <<sites, cut>>
  PROVE  SitesEnd
  <1>1. (\A o : o \in Owners <=> Served(o)) /\ (\A o : o \in Owners' <=> Served(o)')
    <2>1. \A o : o \in Owners <=> Served(o)
      BY OwnersAreServed
    <2>2. \A o : o \in Owners' <=> Served(o)'
      BY OwnerIn DEF Owners, Served
    <2> QED
      BY <2>1, <2>2
  <1>2. CASE Cleared
    <2>1. cut' = cut \cup Owners /\ \A k, o, w : ~Owns(sites', k, o, w)
      BY <1>2, ClearedSites
    <2>2. \A o : ~Served(o)'
      BY <2>1 DEF Served
    <2> QED
      BY <1>1, <2>1, <2>2 DEF SitesEnd
  <1>3. CASE \E K : Ended(K)
    <2>1. cut' = cut \cup (Owners \ Owners') /\ \A k, o, w : Owns(sites', k, o, w) => Owns(sites, k, o, w)
      BY <1>3, EndedSites
    <2> QED
      BY <1>1, <2>1 DEF SitesEnd
  <1>4. CASE UNCHANGED <<sites, cut>>
    <2>1. (\A k, o, w : Owns(sites', k, o, w) <=> Owns(sites, k, o, w)) /\ (\A o : Served(o)' <=> Served(o))
      BY <1>4 DEF Owns, Served
    <2> QED
      BY <1>4, <2>1 DEF SitesEnd
  <1> QED
    BY <1>2, <1>3, <1>4

\* Sites end, and the command goes on, or begins, or gives up what it has not put into the table.
LEMMA OwnersStay ==
  ASSUME OwnersHeld, SitesEnd, releases' = releases,
         \A f \in Frames : \A o : Shows(f, o)' <=> Shows(f, o),
         \A o : Known(o) => Known(o)',
         \A o : Awaited(o)' => Awaited(o) /\ op'.frame[1] = op.frame[1] /\ (Acting' => Acting /\ op'.key = op.key),
         \A o : Claiming' /\ o = op'.owner => Claiming /\ o = op.owner,
         \A o : Awaited(o) /\ Served(o)' => Awaited(o)'
  PROVE  OwnersHeld'
  <1>1. \A o : Waited(o)' <=> Waited(o)
    BY DEF Waited
  <1>2. \A o : Served(o)' => Served(o)
    BY DEF SitesEnd, Served
  <1>3. Drawn'
    BY <1>1, <1>2 DEF OwnersHeld, Drawn, SitesEnd
  <1>4. Kept'
    BY <1>1, <1>2 DEF OwnersHeld, Kept, SitesEnd
  <1>5. Claimed'
    BY <1>1 DEF OwnersHeld, Claimed, SitesEnd
  <1>6. Single'
    BY <1>1 DEF OwnersHeld, Single
  <1>7. Windowed'
    BY DEF OwnersHeld, Windowed, SitesEnd
  <1> QED
    BY <1>3, <1>4, <1>5, <1>6, <1>7 DEF OwnersHeld

\* The frames and the numbers stay as they are, or an owner is drawn.
LEMMA SameFrames ==
  ASSUME frames' = frames
  PROVE  \A f \in Frames : \A o : Shows(f, o)' <=> Shows(f, o)
  BY DEF Shows

LEMMA KnownStays ==
  ASSUME TypeInv, next'.owner = next.owner \/ next'.owner = next.owner + 1
  PROVE  \A o : Known(o) => Known(o)'
  <1>1. next.owner \in Nat
    BY DEF TypeInv, TypeOK
  <1> QED
    BY <1>1 DEF Known

LEMMA OwnerReserve ==
  ASSUME TypeInv, OwnersHeld, PrepareDraft \/ PrepareEmbed
  PROVE  OwnersHeld'
  <1>1. /\ op = None /\ op'.at = "commit" /\ UNCHANGED <<sites, releases, cut>> /\ next'.owner = next.owner
        /\ \A f \in Frames : \A o : Shows(f, o)' <=> Shows(f, o)
    <2>1. CASE PrepareDraft
      <3>1. PICK d \in Documents, r \in Roots : Reserve(Draft(d), None, r) /\ frames' = frames
        BY <2>1 DEF PrepareDraft
      <3>2. Draft(d) \in Keys
        BY DEF Keys, Draft
      <3>3. op'.at = "commit" /\ next'.owner = next.owner
        BY <3>1, <3>2, ReservedCommand
      <3> QED
        BY <3>1, <3>3 DEF Reserve, Shows
    <2>2. CASE PrepareEmbed
      <3>1. PICK f \in Frames, r \in Roots : frames[f] = Off /\ Reserve(Key(f), f, r) /\ Mount(f, "asking", None)
        BY <2>2 DEF PrepareEmbed
      <3>2. Key(f) \in Keys
        BY DEF Keys, Key, Frames
      <3>3. op'.at = "commit" /\ next'.owner = next.owner
        BY <3>1, <3>2, ReservedCommand
      <3>4. frames[f].owner = None /\ frames'[f].owner = None /\ \A g \in Frames : g # f => frames'[g] = frames[g]
        BY <3>1, Mounting DEF Off
      <3> QED
        BY <3>1, <3>3, <3>4 DEF Reserve, Shows
    <2> QED
      BY <2>1, <2>2
  <1>2. ~Pending /\ ~Pending' /\ ~Claiming'
    BY <1>1 DEF Pending, Claiming, Embeds
  <1>3. SitesEnd /\ \A o : Known(o) => Known(o)'
    BY <1>1, SitesEnded, KnownStays
  <1> QED
    BY <1>1, <1>2, <1>3, OwnersStay DEF Awaited

LEMMA OwnerAuthority ==
  ASSUME TypeInv, OwnersHeld, Revoke \/ RevokeFails \/ Granted \/ Invalidate \/ RetireDrained \/ Poison
  PROVE  OwnersHeld'
  <1>1. UNCHANGED <<op, frames, releases, next>>
    BY DEF Revoke, RevokeFails, Granted, Invalidate, RetireDrained, Poison
  <1>2. Cleared \/ (\E K : Ended(K)) \/ UNCHANGED <<sites, cut>>
    BY DEF Revoke, RevokeFails, Granted, Invalidate, RetireDrained, Poison, StopAll, Recovered
  <1>3. SitesEnd /\ (\A o : Known(o) => Known(o)') /\ \A f \in Frames : \A o : Shows(f, o)' <=> Shows(f, o)
    BY <1>1, <1>2, SitesEnded, KnownStays, SameFrames
  <1> QED
    BY <1>1, <1>3, OwnersStay DEF Awaited, Pending, Claiming, Embeds, Acting

\* A command that has failed awaits no owner any more, unless it has one to take back.
LEMMA OwnerFails ==
  ASSUME TypeInv, OwnersHeld, op' # None, op'.at = "retire" \/ op'.at = "answer", ~op'.ok,
         Cleared \/ (\E K : Ended(K)) \/ UNCHANGED <<sites, cut>>,
         UNCHANGED <<frames, releases>>, next'.owner = next.owner \/ next'.owner = next.owner + 1,
         \A o : Awaited(o) => ~Served(o)'
  PROVE  OwnersHeld'
  <1>1. SitesEnd /\ (\A o : Known(o) => Known(o)') /\ \A f \in Frames : \A o : Shows(f, o)' <=> Shows(f, o)
    BY SitesEnded, KnownStays, SameFrames
  <1>2. ~Pending' /\ ~Claiming'
    BY DEF Pending, Claiming
  <1> QED
    BY <1>1, <1>2, OwnersStay DEF Awaited

LEMMA OwnerDrain ==
  ASSUME TypeInv, OwnersHeld, Drain
  PROVE  OwnersHeld'
  <1>1. /\ op.at = "commit" /\ Cleared /\ op' # None /\ op'.at = "retire" /\ ~op'.ok
        /\ UNCHANGED <<frames, releases, next>>
    BY DrainStep, Constants DEF Becomes
  <1>2. \A o : ~Awaited(o)
    BY <1>1 DEF Awaited, Pending
  <1> QED
    BY <1>1, <1>2, OwnerFails

LEMMA OwnerCommitDraft ==
  ASSUME TypeInv, OwnersHeld, CommitDraft
  PROVE  OwnersHeld'
  <1>1. op.at = "commit" /\ UNCHANGED <<frames, releases, cut, next>> /\ \A o : ~Awaited(o)
    BY CommitDraftStep DEF Awaited, Pending
  <1>2. CASE sites' = sites /\ Becomes(op, op', "retire", {op.reserved}, FALSE)
    <2>1. op' # None /\ op'.at = "retire" /\ ~op'.ok
      BY <1>2, Constants DEF Becomes
    <2> QED
      BY <1>1, <1>2, <2>1, OwnerFails
  <1>3. CASE op'.frame = None /\ \A k, o, w : Owns(sites', k, o, w) <=> Owns(sites, k, o, w)
    <2>1. \A o : Served(o)' <=> Served(o)
      BY <1>3 DEF Served
    <2>2. SitesEnd
      BY <1>1, <1>3, <2>1 DEF SitesEnd
    <2>3. ~Pending' /\ ~Claiming'
      BY <1>3 DEF Pending, Claiming, Embeds
    <2>4. (\A o : Known(o) => Known(o)') /\ \A f \in Frames : \A o : Shows(f, o)' <=> Shows(f, o)
      BY <1>1, KnownStays, SameFrames
    <2> QED
      BY <1>1, <2>2, <2>3, <2>4, OwnersStay DEF Awaited
  <1> QED
    BY <1>2, <1>3, CommitDraftStep

LEMMA OwnerCommitEmbed ==
  ASSUME TypeInv, OwnersHeld, CommitEmbed
  PROVE  OwnersHeld'
  <1>0. PICK n, w0 : n = next.owner /\ w0 = op.frame[1]
    OBVIOUS
  <1>1. /\ op.at = "commit" /\ UNCHANGED <<frames, releases, cut>> /\ n \in Nat /\ next'.owner = n + 1
        /\ \A o : ~Awaited(o)
    BY <1>0, CommitEmbedStep DEF Awaited, Pending
  <1>2. CASE sites' = sites /\ Becomes(op, op', "retire", {op.reserved}, FALSE)
    <2>1. op' # None /\ op'.at = "retire" /\ ~op'.ok
      BY <1>2, Constants DEF Becomes
    <2> QED
      BY <1>0, <1>1, <1>2, <2>1, OwnerFails
  <1>3. CASE /\ op' \in Preparations
             /\ \A k, o, w : Owns(sites', k, o, w) <=>
                    IF k = op.key /\ o = n THEN w = w0 ELSE Owns(sites, k, o, w)
             /\ op'.at = "check" /\ op'.owner = n /\ op'.key = op.key /\ op'.frame = op.frame
    <2>1. ~Known(n) /\ Known(n)' /\ \A o : Known(o) => Known(o)'
      BY <1>0, <1>1 DEF Known
    <2>2. ~Served(n) /\ n \notin cut /\ ~Waited(n)
      BY <2>1 DEF OwnersHeld, Drawn
    <2>3. /\ Served(n)' /\ \A o : o # n => (Served(o)' <=> Served(o))
          /\ \A k, w : Owns(sites', k, n, w) => k = op.key /\ w = w0
      BY <1>3, <2>2 DEF Served
    <2>4. /\ \A o : Waited(o)' <=> Waited(o)
          /\ \A f \in Frames : \A o : Shows(f, o)' <=> Shows(f, o)
      BY <1>1 DEF Waited, Shows
    <2>5. \A o : Awaited(o)' => o = n
      BY <1>3 DEF Awaited
    <2>6. Awaited(n)'
      <3>1. op # None /\ op.frame # None
        BY CommitEmbedStep DEF Embeds
      <3>2. TypeInv'
        BY TypeCommitEmbed
      <3>3. op' # None /\ op'.ok
        BY <1>3, <3>2, Constants DEF TypeInv, CommandOK
      <3> QED
        BY <1>3, <3>1, <3>3 DEF Awaited, Pending, Embeds
    <2>7. Drawn'
      BY <1>1, <2>1, <2>3, <2>4, <2>5 DEF OwnersHeld, Drawn
    <2>8. Kept'
      BY <1>1, <2>2, <2>3, <2>4, <2>6 DEF OwnersHeld, Kept, Awaited
    <2>9. Claimed'
      BY <1>1, <1>3, <2>3, <2>4 DEF OwnersHeld, Claimed
    <2>10. Single'
      BY <1>1, <2>2, <2>4, <2>5 DEF OwnersHeld, Single
    <2>11. Windowed'
      <3>1. ASSUME NEW k, NEW o, NEW w, Owns(sites', k, o, w)
            PROVE  /\ \A f \in Frames : Shows(f, o)' => w = f[1]
                   /\ \A r \in releases' : r[1] = o => w = r[2]
                   /\ Awaited(o)' => w = op'.frame[1] /\ k = op'.key
        <4>1. CASE o = n
          BY <1>0, <1>1, <1>3, <2>2, <2>3, <2>4, <3>1, <4>1 DEF Waited
        <4>2. CASE o # n
          BY <1>1, <1>3, <2>4, <2>5, <3>1, <4>2 DEF OwnersHeld, Windowed
        <4> QED
          BY <4>1, <4>2
      <3> QED
        BY <3>1 DEF Windowed
    <2> QED
      BY <2>7, <2>8, <2>9, <2>10, <2>11 DEF OwnersHeld
  <1> QED
    BY <1>0, <1>2, <1>3, CommitEmbedStep

\* The command takes its owner to the next step.
LEMMA OwnerGoesOn ==
  ASSUME TypeInv, OwnersHeld, NEW a, NEW R, NEW v, Becomes(op, op', a, R, v),
         UNCHANGED <<sites, cut, frames, releases, next>>, op # None,
         \/ op.at = "check" /\ ((a = "undo" /\ ~v) \/ (a = "retire" /\ v = op.ok))
         \/ op.at = "retire" /\ a = "answer" /\ v = op.ok
  PROVE  OwnersHeld'
  <1>1. /\ op' # None /\ op'.at = a /\ op'.ok = v /\ op'.key = op.key /\ op'.frame = op.frame
        /\ op'.owner = op.owner
    BY Constants DEF Becomes
  <1>2. op.at = "check" => op.ok
    BY DEF TypeInv, CommandOK
  <1>3. (Pending <=> Pending') /\ (Claiming' => Claiming) /\ (Acting' => Acting)
    BY <1>1, <1>2 DEF Pending, Claiming, Embeds, Acting
  <1>4. SitesEnd /\ (\A o : Known(o) => Known(o)') /\ \A f \in Frames : \A o : Shows(f, o)' <=> Shows(f, o)
    BY SitesEnded, KnownStays, SameFrames
  <1> QED
    BY <1>1, <1>3, <1>4, OwnersStay DEF Awaited

LEMMA OwnerCheck ==
  ASSUME TypeInv, ~Lost, OwnersHeld, Check
  PROVE  OwnersHeld'
  <1>1. /\ op # None /\ op.at = "check" /\ UNCHANGED <<sites, cut, frames, releases, next>>
        /\ \/ Becomes(op, op', "retire", op.retiring, op.ok)
           \/ Becomes(op, op', "undo", op.retiring \cup {op.reserved}, FALSE)
    BY CheckStep DEF Full
  <1> QED
    BY <1>1, OwnerGoesOn

LEMMA OwnerUndo ==
  ASSUME TypeInv, LeasesHeld, OwnersHeld, Undo
  PROVE  OwnersHeld'
  <1>1. /\ Acting /\ op # None /\ op.at = "undo" /\ UNCHANGED <<frames, releases, next>>
        /\ op' # None /\ op'.at = "retire" /\ op'.ok = op.ok
    BY UndoStep, Constants DEF Becomes, Full
  <1>2. \A k, o, w : Awaited(o) /\ Owns(sites, k, o, w) => k = op.key
    BY <1>1 DEF OwnersHeld, Windowed
  <1>3. ~op.ok
    BY <1>1 DEF TypeInv, CommandOK
  <1>4. CASE Cleared
    <2>1. \A o : ~Served(o)'
      BY <1>4, ClearedSites DEF Served
    <2> QED
      BY <1>1, <1>3, <1>4, <2>1, OwnerFails
  <1>5. CASE UNCHANGED <<sites, cut>> /\ (op.key \notin DOMAIN sites \/ sites[op.key].lease # op.active)
    <2>1. op.key \notin DOMAIN sites
      <3>1. \A l \in Ledger : l.key = op.key => l = op.active
        BY <1>1 DEF LeasesHeld, OfCommand
      <3>2. op.key \in DOMAIN sites => sites[op.key].lease \in Ledger /\ sites[op.key].lease.key = op.key
        BY LedgerLeases, SitesValid, LeaseKeys
      <3> QED
        BY <1>5, <3>1, <3>2
    <2>2. \A o : Awaited(o) => ~Served(o)
      BY <1>2, <2>1 DEF Served, Owns
    <2>3. \A o : Served(o)' <=> Served(o)
      BY <1>5 DEF Served, Owns
    <2> QED
      BY <1>1, <1>3, <1>5, <2>2, <2>3, OwnerFails
  <1>6. CASE Ended({op.key})
    <2> DEFINE K == {op.key}
    <2>1. op.key \in K
      OBVIOUS
    <2>2. \A k, o, w : Owns(sites', k, o, w) <=> (Owns(sites, k, o, w) /\ k \notin K)
      BY <1>6, EndedSites
    <2>3. \A o : Awaited(o) => ~Served(o)'
      BY <1>2, <2>1, <2>2 DEF Served
    <2> QED
      BY <1>1, <1>3, <1>6, <2>3, OwnerFails
  <1>7. CASE /\ Embeds /\ cut' = cut
             /\ \A k, o, w : Owns(sites', k, o, w) <=> (Owns(sites, k, o, w) /\ ~(k = op.key /\ o = op.owner))
    <2>1. \A o : Awaited(o) <=> o = op.owner
      BY <1>1, <1>7 DEF Awaited, Pending
    <2>2. \A k, o, w : Owns(sites', k, o, w) <=> (Owns(sites, k, o, w) /\ ~Awaited(o))
      BY <1>2, <1>7, <2>1
    <2>3. \A o : Served(o)' <=> (Served(o) /\ ~Awaited(o))
      BY <2>2 DEF Served
    <2>4. ~Pending' /\ ~Claiming' /\ \A o : ~Awaited(o)'
      BY <1>1, <1>3 DEF Pending, Claiming, Awaited
    <2>5. (\A o : Waited(o)' <=> Waited(o)) /\ \A f \in Frames : \A o : Shows(f, o)' <=> Shows(f, o)
      BY <1>1 DEF Waited, Shows
    <2>6. Drawn'
      BY <1>1, <1>7, <2>3, <2>4, <2>5 DEF OwnersHeld, Drawn, Known
    <2>7. Kept' /\ Claimed'
      BY <1>7, <2>3, <2>4, <2>5 DEF OwnersHeld, Kept, Claimed, Single
    <2>8. Single' /\ Windowed'
      BY <1>1, <2>2, <2>4, <2>5 DEF OwnersHeld, Single, Windowed
    <2> QED
      BY <2>6, <2>7, <2>8 DEF OwnersHeld
  <1> QED
    BY <1>4, <1>5, <1>6, <1>7, UndoStep

LEMMA OwnerRetire ==
  ASSUME TypeInv, ~Lost, OwnersHeld, Retire
  PROVE  OwnersHeld'
  <1>1. /\ op # None /\ op.at = "retire" /\ op' # None /\ op'.at = "answer" /\ op'.ok = op.ok
        /\ op \in Preparations \cup Retirements /\ UNCHANGED <<sites, cut, frames, releases, next>>
        /\ (op \in Preparations => Becomes(op, op', "answer", op.retiring, op'.ok))
        /\ op'.frame = op.frame
    BY RetireStep DEF TypeInv, TypeOK
  <1>2. CASE op \in Preparations
    BY <1>1, <1>2, OwnerGoesOn
  <1>3. CASE op \in Retirements
    <2>1. ~Embeds /\ ~Embeds'
      BY <1>1, <1>3 DEF Retirements, Embeds
    <2>2. SitesEnd /\ (\A o : Known(o) => Known(o)') /\ \A f \in Frames : \A o : Shows(f, o)' <=> Shows(f, o)
      BY <1>1, SitesEnded, KnownStays, SameFrames
    <2> QED
      BY <1>1, <2>1, <2>2, OwnersStay DEF Awaited, Pending, Claiming
  <1> QED
    BY <1>1, <1>2, <1>3

\* The same sites: an owner passes from one that awaits it to another, or is given up by none.
LEMMA OwnersPass ==
  ASSUME OwnersHeld, UNCHANGED <<sites, cut, next>>,
         \A o : (Waited(o)' \/ Awaited(o)') <=> (Waited(o) \/ Awaited(o)),
         \A o : (Waited(o) \/ (Claiming /\ o = op.owner)) <=> (Waited(o)' \/ (Claiming' /\ o = op'.owner)),
         Single', Windowed'
  PROVE  OwnersHeld'
  <1>1. \A o : (Served(o)' <=> Served(o)) /\ (Known(o)' <=> Known(o))
    BY DEF Served, Known
  <1> QED
    BY <1>1 DEF OwnersHeld, Drawn, Kept, Claimed

LEMMA OwnerAnswer ==
  ASSUME TypeInv, OwnersHeld, Answer
  PROVE  OwnersHeld'
  <1>1. /\ op # None /\ op.at = "answer" /\ op' = None /\ UNCHANGED <<sites, cut, next>>
    BY AnswerStep
  <1>2. ~Pending' /\ ~Claiming' /\ ~Acting' /\ \A o : ~Awaited(o)'
    BY <1>1 DEF Pending, Claiming, Embeds, Awaited, Acting
  <1>3. Pending <=> Claiming
    BY <1>1 DEF Pending, Claiming
  <1>4. \A k, o, w : Owns(sites', k, o, w) <=> Owns(sites, k, o, w)
    BY <1>1 DEF Owns
  <1>5. ASSUME \A f \in Frames : \A o : Shows(f, o)' <=> Shows(f, o), releases' = releases, ~Claiming
        PROVE  OwnersHeld'
    <2>1. \A o : Waited(o)' <=> Waited(o)
      BY <1>5 DEF Waited
    <2>2. Single' /\ Windowed'
      BY <1>2, <1>4, <1>5 DEF OwnersHeld, Single, Windowed
    <2> QED
      BY <1>1, <1>2, <1>3, <1>5, <2>1, <2>2, OwnersPass DEF Awaited
  <1>6. CASE Embeds /\ ~op.ok /\ Mount(op.frame, "off", None) /\ releases' = releases
    <2>1. /\ op.frame \in Frames /\ frames[op.frame].owner = None
      BY <1>6, AnswerStep
    <2>2. frames'[op.frame].owner = None /\ \A g \in Frames : g # op.frame => frames'[g] = frames[g]
      BY <1>6, <2>1, Mounting
    <2>3. \A f \in Frames : \A o : Shows(f, o)' <=> Shows(f, o)
      BY <2>1, <2>2 DEF Shows
    <2> QED
      BY <1>5, <1>6, <2>3 DEF Claiming
  <1>7. CASE ~Embeds /\ UNCHANGED <<frames, releases>>
    BY <1>5, <1>7, SameFrames DEF Claiming
  <1>8. CASE Embeds /\ op.ok
    <2>1. /\ Claiming /\ Pending /\ op.owner \in Nat /\ op.owner # None
          /\ op.frame \in Frames /\ frames[op.frame].owner = None
      BY <1>8, AnswerStep, Constants
    <2>2. PICK n, F : n = op.owner /\ F = op.frame
      OBVIOUS
    <2>3. (\A o : Awaited(o) <=> o = n) /\ ~Waited(n) /\ n # None /\ F \in Frames /\ (\A o : ~Shows(F, o))
      BY <2>1, <2>2 DEF Awaited, OwnersHeld, Single, Shows
    <2>4. /\ \A f \in Frames : ~Shows(f, n)
          /\ \A r \in releases : r[1] # n
      BY <2>3 DEF Waited
    <2>5. CASE Mount(op.frame, "shown", op.owner) /\ releases' = releases
      <3>1. frames'[F].owner = n /\ \A g \in Frames : g # F => frames'[g] = frames[g]
        BY <2>1, <2>2, <2>5, Mounting
      <3>2. \A f \in Frames : \A o : Shows(f, o)' <=> (Shows(f, o) \/ (f = F /\ o = n))
        BY <2>3, <3>1 DEF Shows
      <3>3. \A o : Waited(o)' <=> (Waited(o) \/ o = n)
        BY <2>3, <2>5, <3>2 DEF Waited
      <3>4. Single'
        BY <1>2, <2>3, <2>4, <2>5, <3>2 DEF OwnersHeld, Single
      <3>5. Windowed'
        BY <1>2, <1>4, <2>2, <2>3, <2>4, <2>5, <3>2 DEF OwnersHeld, Windowed
      <3> QED
        BY <1>1, <1>2, <2>1, <2>2, <2>3, <3>3, <3>4, <3>5, OwnersPass
    <2>6. CASE Mount(op.frame, "off", None) /\ releases' = releases \cup {<<op.owner, op.frame[1]>>}
      <3>1. frames'[F].owner = None /\ \A g \in Frames : g # F => frames'[g] = frames[g]
        BY <2>1, <2>2, <2>6, Mounting
      <3>2. \A f \in Frames : \A o : Shows(f, o)' <=> Shows(f, o)
        BY <2>3, <3>1 DEF Shows
      <3>3. \A o : Waited(o)' <=> (Waited(o) \/ o = n)
        <4>1. releases' = releases \cup {<<n, F[1]>>}
          BY <2>2, <2>6
        <4>2. \A o : (\E r \in releases' : r[1] = o) <=> ((\E r \in releases : r[1] = o) \/ o = n)
          <5>1. /\ <<n, F[1]>> \in releases' /\ <<n, F[1]>>[1] = n /\ releases \subseteq releases'
                /\ \A r \in releases' : r \in releases \/ r = <<n, F[1]>>
            BY <4>1
          <5> QED
            BY ONLY <5>1
        <4> QED
          BY ONLY <3>2, <4>2 DEF Waited
      <3>4. Single'
        BY <1>2, <2>2, <2>3, <2>4, <2>6, <3>2 DEF OwnersHeld, Single
      <3>5. Windowed'
        BY <1>2, <1>4, <2>2, <2>3, <2>4, <2>6, <3>2 DEF OwnersHeld, Windowed
      <3> QED
        BY <1>1, <1>2, <2>1, <2>2, <2>3, <3>3, <3>4, <3>5, OwnersPass
    <2> QED
      BY <1>8, <2>5, <2>6, AnswerStep
  <1> QED
    BY <1>6, <1>7, <1>8, AnswerStep

LEMMA OwnerUnmount ==
  ASSUME TypeInv, OwnersHeld, Unmount
  PROVE  OwnersHeld'
  <1>1. UNCHANGED <<sites, op, cut, next>>
    BY DEF Unmount
  <1>2. /\ (\A o : Awaited(o)' <=> Awaited(o)) /\ (Claiming' <=> Claiming) /\ (Acting' <=> Acting)
        /\ \A k, o, w : Owns(sites', k, o, w) <=> Owns(sites, k, o, w)
    BY <1>1 DEF Awaited, Pending, Claiming, Embeds, Acting, Owns
  <1>3. PICK F \in Frames :
              \/ /\ frames[F].at = "asking" /\ frames[F].owner = None
                 /\ Mount(F, "leaving", None) /\ releases' = releases
              \/ /\ frames[F].at = "shown" /\ frames[F].owner \in Nat /\ frames[F].owner # None
                 /\ Mount(F, "off", None) /\ F[1] \in Windows
                 /\ releases' = releases \cup {<<frames[F].owner, F[1]>>}
    BY UnmountStep
  <1>4. frames'[F].owner = None /\ \A g \in Frames : g # F => frames'[g] = frames[g]
    BY <1>3, Mounting
  <1>5. CASE frames[F].owner = None /\ releases' = releases
    <2>1. \A f \in Frames : \A o : Shows(f, o)' <=> Shows(f, o)
      BY <1>4, <1>5 DEF Shows
    <2>2. \A o : Waited(o)' <=> Waited(o)
      BY <1>5, <2>1 DEF Waited
    <2>3. Single' /\ Windowed'
      BY <1>1, <1>2, <1>5, <2>1, <2>2 DEF OwnersHeld, Single, Windowed
    <2> QED
      BY <1>1, <1>2, <2>2, <2>3, OwnersPass
  <1>6. CASE frames[F].owner # None /\ releases' = releases \cup {<<frames[F].owner, F[1]>>}
    <2>1. PICK n : n = frames[F].owner
      OBVIOUS
    <2>2. Shows(F, n) /\ Waited(n) /\ n # None
      BY <1>6, <2>1 DEF Shows, Waited
    <2>3. \A f \in Frames : \A o : Shows(f, o)' <=> (Shows(f, o) /\ f # F)
      BY <1>4 DEF Shows
    <2>4. releases' = releases \cup {<<n, F[1]>>}
      BY <1>6, <2>1
    <2>5. /\ <<n, F[1]>> \in releases' /\ <<n, F[1]>>[1] = n /\ <<n, F[1]>>[2] = F[1]
          /\ releases \subseteq releases' /\ \A r \in releases' : r \in releases \/ r = <<n, F[1]>>
      BY <2>4
    <2>6. /\ \A f \in Frames : Shows(f, n) => f = F
          /\ \A r \in releases : r[1] # n
          /\ \A o : Shows(F, o) => o = n
          /\ ~Awaited(n)
      BY <2>1, <2>2 DEF OwnersHeld, Single, Shows
    <2>7. \A o : Waited(o)' <=> Waited(o)
      BY ONLY <2>2, <2>3, <2>5, <2>6 DEF Waited
    <2>8. Single'
      BY ONLY OwnersHeld, <1>2, <2>3, <2>5, <2>6, <2>7 DEF OwnersHeld, Single
    <2>9. Windowed'
      BY <1>1, <1>2, <2>2, <2>3, <2>5, <2>6 DEF OwnersHeld, Windowed
    <2> QED
      BY <1>1, <1>2, <2>7, <2>8, <2>9, OwnersPass
  <1> QED
    BY <1>3, <1>5, <1>6

\* Owners are given up: those whom nobody waits for any more, and no other.
LEMMA OwnersGiven ==
  ASSUME TypeInv, OwnersHeld, op = None, NEW gone, Given(gone), next' = next,
         \A f \in Frames : \A o : Shows(f, o)' => Shows(f, o), releases' \subseteq releases,
         \A o : Served(o) /\ o \notin gone /\ Waited(o) => Waited(o)',
         \A o : Waited(o)' => o \notin gone
  PROVE  OwnersHeld'
  <1>1. ~Embeds /\ ~Embeds' /\ \A o : ~Awaited(o) /\ ~Awaited(o)'
    BY GivenStep DEF Embeds, Pending, Awaited
  <1>2. \A o : (Waited(o)' => Waited(o)) /\ (Known(o)' <=> Known(o))
    BY DEF Waited, Known
  <1>3. \A k, o, w : Owns(sites', k, o, w) => Owns(sites, k, o, w)
    BY GivenStep, ClearedSites
  <1>4. CASE Cleared
    <2>1. SitesEnd /\ \A o : ~Served(o)'
      BY <1>4, SitesEnded, ClearedSites DEF Served
    <2>2. Drawn' /\ Kept' /\ Claimed'
      BY <1>1, <1>2, <2>1 DEF OwnersHeld, Drawn, Kept, Claimed, Claiming, SitesEnd
    <2>3. Single' /\ Windowed'
      BY <1>1, <1>2, <1>3 DEF OwnersHeld, Single, Windowed
    <2> QED
      BY <2>2, <2>3 DEF OwnersHeld
  <1>5. CASE /\ cut' = cut
             /\ \A k, o, w : Owns(sites', k, o, w) <=> (Owns(sites, k, o, w) /\ o \notin gone)
    <2>1. \A o : Served(o)' <=> (Served(o) /\ o \notin gone)
      BY <1>5 DEF Served
    <2>2. Drawn' /\ Kept' /\ Claimed'
      BY <1>1, <1>2, <1>5, <2>1 DEF OwnersHeld, Drawn, Kept, Claimed, Claiming
    <2>3. Single' /\ Windowed'
      BY <1>1, <1>2, <1>3 DEF OwnersHeld, Single, Windowed
    <2> QED
      BY <2>2, <2>3 DEF OwnersHeld
  <1> QED
    BY <1>4, <1>5, GivenStep

LEMMA OwnerRelease ==
  ASSUME TypeInv, OwnersHeld, Release
  PROVE  OwnersHeld'
  <1>1. PICK r \in releases : /\ releases' = releases \ {r} /\ op = None
          /\ Given({o \in Owners : \E k \in DOMAIN sites :
               o = r[1] /\ o \in DOMAIN sites[k].owners /\ sites[k].owners[o] = r[2]})
          /\ UNCHANGED <<frames, next>>
    BY DEF Release
  <1> DEFINE gone == {o \in Owners : \E k \in DOMAIN sites :
               o = r[1] /\ o \in DOMAIN sites[k].owners /\ sites[k].owners[o] = r[2]}
  <1>2. Given(gone)
    BY <1>1
  <1>3. \A o : o \in gone <=> (o = r[1] /\ Served(o))
    <2>1. \A k, w : Owns(sites, k, r[1], w) => w = r[2]
      BY <1>1 DEF OwnersHeld, Windowed
    <2>2. \A o : o \in gone <=> (o \in Owners /\ o = r[1] /\ \E k : Owns(sites, k, o, r[2]))
      BY DEF Owns
    <2> QED
      BY <2>1, <2>2, OwnersAreServed DEF Served
  <1> HIDE DEF gone
  <1>4. \A f \in Frames : \A o : Shows(f, o)' <=> Shows(f, o)
    BY <1>1, SameFrames
  <1>5. \A o : o # r[1] /\ Waited(o) => Waited(o)'
    BY <1>1, <1>4 DEF Waited
  <1>6. ~Waited(r[1])'
    BY <1>1, <1>4 DEF Waited, OwnersHeld, Single
  <1> QED
    BY <1>1, <1>2, <1>3, <1>4, <1>5, <1>6, OwnersGiven

LEMMA OwnerWindowDestroyed ==
  ASSUME TypeInv, OwnersHeld, WindowDestroyed
  PROVE  OwnersHeld'
  <1>1. PICK w \in Windows : /\ op = None
          /\ frames' = [f \in Frames |-> IF f[1] = w THEN Off ELSE frames[f]]
          /\ releases' = {r \in releases : r[2] # w}
          /\ Given({o \in Owners : \E k \in DOMAIN sites :
               o \in DOMAIN sites[k].owners /\ sites[k].owners[o] = w})
          /\ next' = next
    BY DEF WindowDestroyed
  <1> DEFINE gone == {o \in Owners : \E k \in DOMAIN sites :
               o \in DOMAIN sites[k].owners /\ sites[k].owners[o] = w}
  <1>2. Given(gone)
    BY <1>1
  <1>3. \A o : o \in gone <=> \E k : Owns(sites, k, o, w)
    <2>1. \A o : o \in gone <=> (o \in Owners /\ \E k : Owns(sites, k, o, w))
      BY DEF Owns
    <2> QED
      BY <2>1, OwnersAreServed DEF Served
  <1> HIDE DEF gone
  <1>4. \A f \in Frames : \A o : Shows(f, o)' <=> (Shows(f, o) /\ f[1] # w)
    BY <1>1 DEF Shows, Off
  <1>5. \A r : r \in releases' <=> (r \in releases /\ r[2] # w)
    BY <1>1
  <1>6. ASSUME NEW o, Waited(o)'
        PROVE  o \notin gone
    BY <1>3, <1>4, <1>5, <1>6 DEF Waited, OwnersHeld, Windowed
  <1>7. ASSUME NEW o, Served(o), o \notin gone, Waited(o)
        PROVE  Waited(o)'
    <2>1. PICK k, v : Owns(sites, k, o, v)
      BY <1>7 DEF Served
    <2>2. v # w
      BY <1>3, <1>7, <2>1
    <2>3. (\A f \in Frames : Shows(f, o) => f[1] = v) /\ (\A r \in releases : r[1] = o => r[2] = v)
      BY <2>1 DEF OwnersHeld, Windowed
    <2> QED
      BY <1>4, <1>5, <1>7, <2>2, <2>3 DEF Waited
  <1> QED
    BY <1>1, <1>2, <1>4, <1>5, <1>6, <1>7, OwnersGiven

LEMMA OwnerNext ==
  ASSUME TypeInv, LeaseInv, OwnerInv, [Next]_vars
  PROVE  OwnerInv'
  <1> SUFFICES ASSUME ~Lost' PROVE OwnersHeld'
    BY DEF OwnerInv
  <1>1. ~Lost /\ LeasesHeld /\ OwnersHeld
    BY LostStays DEF LeaseInv, OwnerInv
  <1>2. CASE UNCHANGED vars
    <2>1. SitesEnd /\ (\A o : Known(o) => Known(o)') /\ \A f \in Frames : \A o : Shows(f, o)' <=> Shows(f, o)
      BY <1>2, SitesEnded, KnownStays, SameFrames DEF vars
    <2> QED
      BY <1>1, <1>2, <2>1, OwnersStay DEF vars, Awaited, Pending, Claiming, Embeds, Acting
  <1> QED
    BY <1>1, <1>2, OwnerReserve, OwnerAuthority, OwnerDrain, OwnerCommitDraft, OwnerCommitEmbed, OwnerCheck, OwnerUndo,
       OwnerRetire, OwnerAnswer, OwnerUnmount, OwnerRelease, OwnerWindowDestroyed DEF Next

(***************************************************************************)
(* The theorems                                                            *)
(***************************************************************************)
PreviewInv == TypeInv /\ LeaseInv /\ OwnerInv

LEMMA PreviewInvariant == Spec => []PreviewInv
  <1>1. Init => PreviewInv
    BY TypeInit, LeaseInit, OwnerInit DEF PreviewInv
  <1>2. PreviewInv /\ [Next]_vars => PreviewInv'
    BY TypeNext, LeaseNext, OwnerNext DEF PreviewInv
  <1> QED
    BY <1>1, <1>2, PTL DEF Spec

\* When all is quiet, no lock is poisoned, and nothing is left to be retired or to be shown.
LEMMA QuietLeases == PreviewInv => LeasesAreSites
  <1> SUFFICES ASSUME PreviewInv, Quiet PROVE leases = LeasesOf(DOMAIN sites)
    BY DEF LeasesAreSites
  <1>1. ~Lost /\ LeasesHeld /\ TypeInv /\ op = None /\ revoked = {} /\ drained = {}
    BY DEF PreviewInv, LeaseInv, Quiet, Lost
  <1>2. LeasesOf(DOMAIN sites) = Ledger
    BY <1>1, SiteLeases DEF Ledger
  <1>3. Ledger \subseteq leases /\ leases \subseteq Ledger
    BY <1>1 DEF LeasesHeld, Backed, Accounted, Acting, Owed
  <1> QED
    BY <1>2, <1>3

LEMMA QuietOwners == PreviewInv => OwnersAreFrames
  <1> SUFFICES ASSUME PreviewInv, Quiet
               PROVE  Owners = ({frames[f].owner : f \in Frames} \cup {r[1] : r \in releases}) \ (cut \cup {None})
    BY DEF OwnersAreFrames
  <1>1. ~Lost /\ OwnersHeld /\ TypeInv /\ op = None
    BY DEF PreviewInv, OwnerInv, Quiet, Lost
  <1>2. \A o : ~Awaited(o) /\ ~(Claiming /\ o = op.owner)
    BY <1>1 DEF Awaited, Pending, Claiming, Embeds
  <1>3. \A o : Served(o) <=> (Waited(o) /\ o \notin cut)
    BY <1>1, <1>2 DEF OwnersHeld, Kept, Claimed
  <1>4. \A o : Waited(o) => o # None
    BY <1>1, Constants DEF OwnersHeld, Drawn, Known
  <1>5. \A o : o \in {frames[f].owner : f \in Frames} \cup {r[1] : r \in releases} => Waited(o) \/ o = None
    BY DEF Waited, Shows
  <1>6. \A o : Waited(o) => o \in {frames[f].owner : f \in Frames} \cup {r[1] : r \in releases}
    BY DEF Waited, Shows
  <1> QED
    BY <1>3, <1>4, <1>5, <1>6, OwnersAreServed

\* The table of the sites is one for its keys and never over its limit, the sites of the files that
\* are embedded have owners and the others none, and leases, frames and commands are of their types.
THEOREM PreviewTypeCorrect == Spec => []TypeOK
  <1>1. PreviewInv => TypeOK
    BY DEF PreviewInv, TypeInv
  <1> QED
    BY <1>1, PreviewInvariant, PTL

\* However commands, revocations, releases, closing windows and panics interleave: when all is quiet,
\* exactly the sites have leases, and each serves exactly the frames that show it.
THEOREM AuthorityIsHeldCorrect == Spec => []AuthorityIsHeld
  <1>1. PreviewInv => AuthorityIsHeld
    BY QuietLeases, QuietOwners DEF AuthorityIsHeld
  <1> QED
    BY <1>1, PreviewInvariant, PTL
=============================================================================
