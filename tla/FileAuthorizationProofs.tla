------------------------ MODULE FileAuthorizationProofs -----------------------
(***************************************************************************)
(* Proofs about FileAuthorization, for all paths, renames and bounds that  *)
(* satisfy the module's assumptions: the types, that an opened document    *)
(* and a published workspace stay bound to what the user chose             *)
(* (OriginsAreBound), and that grants are where their workspace is and a   *)
(* reservation finds its ledgers absent (GrantsStayInPlace); then, of its  *)
(* steps, that a save binds to the file it wrote only the documents that   *)
(* were bound to the file it replaced (SavesStayBound), that what changes  *)
(* write authority outdates the tokens taken before and ends the previews  *)
(* that rested on it (RevocationIsComplete), and that what a failed rename *)
(* suspended comes back as a whole, moves as a whole or stays suspended    *)
(* (RenamesSettle).                                                        *)
(*                                                                         *)
(* A state of the session is Sound when its ledgers, its workspaces, its   *)
(* documents and what the user chose agree.  Every operation of            *)
(* AuthorizationState has a lemma that it leads from a Sound state to a    *)
(* Sound state and, when it only takes authority or moves it, that it is a *)
(* Changed one: nothing pending and no number given out, no workspace of   *)
(* its own, and a ledger inserted only with a new generation.  The actions *)
(* compose these operations.                                               *)
(*                                                                         *)
(* The properties of steps rest on more than the states being sound: an    *)
(* origin is in at most one ledger of a kind (Apart), and that of a        *)
(* reserved save-as is in none (Reserved).  Each operation then has a      *)
(* lemma on what it does between two states: it only takes (Fewer), it     *)
(* leaves suspended what it found suspended (Wakes), it leaves the         *)
(* bindings alone (KeepsBindings), and it advances the generation when it  *)
(* changes what may be written (Dated).                                    *)
(***************************************************************************)
EXTENDS FileAuthorization, FiniteSetTheorems, TLAPS

(* A value with the fields of AuthorizationState.                          *)
Fields(a) ==
    a = [grants |-> a.grants, workspaces |-> a.workspaces,
         documentWorkspace |-> a.documentWorkspace, identity |-> a.identity,
         pendingSaves |-> a.pendingSaves, pendingRoots |-> a.pendingRoots,
         generation |-> a.generation, nextToken |-> a.nextToken,
         nextDocument |-> a.nextDocument, nextLease |-> a.nextLease]

(* A field of AuthorizationState assigned: the others are as they were.    *)
LEMMA SetGeneration ==
  ASSUME NEW a, Fields(a), NEW v, NEW b, b = [a EXCEPT !.generation = v]
  PROVE  /\ Fields(b)
         /\ b.grants = a.grants /\ b.workspaces = a.workspaces
         /\ b.documentWorkspace = a.documentWorkspace /\ b.identity = a.identity
         /\ b.pendingSaves = a.pendingSaves /\ b.pendingRoots = a.pendingRoots
         /\ b.generation = v /\ b.nextToken = a.nextToken
         /\ b.nextDocument = a.nextDocument /\ b.nextLease = a.nextLease
  BY DEF Fields

LEMMA SetGrants ==
  ASSUME NEW a, Fields(a), NEW v, NEW b, b = [a EXCEPT !.grants = v]
  PROVE  /\ Fields(b)
         /\ b.grants = v /\ b.workspaces = a.workspaces
         /\ b.documentWorkspace = a.documentWorkspace /\ b.identity = a.identity
         /\ b.pendingSaves = a.pendingSaves /\ b.pendingRoots = a.pendingRoots
         /\ b.generation = a.generation /\ b.nextToken = a.nextToken
         /\ b.nextDocument = a.nextDocument /\ b.nextLease = a.nextLease
  BY DEF Fields

(* What grant leaves alone.                                                *)
LEMMA GrantIs ==
  ASSUME NEW a, Fields(a), NEW k, NEW o
  PROVE  LET b == Grant(a, k, o)
         IN  /\ Fields(b)
             /\ b.grants = Put(a.grants, k, o) /\ b.workspaces = a.workspaces
             /\ b.documentWorkspace = a.documentWorkspace /\ b.identity = a.identity
             /\ b.pendingSaves = a.pendingSaves /\ b.pendingRoots = a.pendingRoots
             /\ b.generation = a.generation + 1 /\ b.nextToken = a.nextToken
             /\ b.nextDocument = a.nextDocument /\ b.nextLease = a.nextLease
  <1>. DEFINE g == Put(a.grants, k, o)
  <1>1. Grant(a, k, o) = [a EXCEPT !.generation = a.generation + 1, !.grants = g]
    BY DEF Grant, Fields
  <1>. HIDE DEF g
  <1>. QED BY <1>1 DEF Fields, g

(* What revoke_origin_raw does to each field.                              *)
LEMMA RevokeIs ==
  ASSUME NEW a, Fields(a), NEW os
  PROVE  LET b == RevokeOrigins(a, os)
             left(k) == a.grants[k].origins \ os
         IN  /\ Fields(b)
             /\ b.grants = [k \in {x \in DOMAIN a.grants : left(x) # {}} |->
                              [a.grants[k] EXCEPT !.origins = left(k)]]
             /\ b.workspaces =
                  [t \in {x \in DOMAIN a.workspaces : Workspace(x) \notin os} |->
                     a.workspaces[t]]
             /\ b.documentWorkspace =
                  [i \in {x \in DOMAIN a.documentWorkspace : Open(x) \notin os} |->
                     a.documentWorkspace[i]]
             /\ b.identity =
                  [i \in {x \in DOMAIN a.identity : Open(x) \notin os} |-> a.identity[i]]
             /\ b.pendingSaves = a.pendingSaves /\ b.pendingRoots = a.pendingRoots
             /\ b.generation = a.generation /\ b.nextToken = a.nextToken
             /\ b.nextDocument = a.nextDocument /\ b.nextLease = a.nextLease
  <1>. DEFINE left(k) == a.grants[k].origins \ os
              g == [k \in {x \in DOMAIN a.grants : left(x) # {}} |->
                              [a.grants[k] EXCEPT !.origins = left(k)]]
              w == [t \in {x \in DOMAIN a.workspaces : Workspace(x) \notin os} |->
                     a.workspaces[t]]
              d == [i \in {x \in DOMAIN a.documentWorkspace : Open(x) \notin os} |->
                     a.documentWorkspace[i]]
              n == [i \in {x \in DOMAIN a.identity : Open(x) \notin os} |-> a.identity[i]]
  <1>1. RevokeOrigins(a, os) =
          [a EXCEPT !.grants = g, !.workspaces = w, !.documentWorkspace = d, !.identity = n]
    BY DEF RevokeOrigins, Fields, Restrict
  <1>. HIDE DEF g, w, d, n
  <1>2. RevokeOrigins(a, os) =
          [grants |-> g, workspaces |-> w, documentWorkspace |-> d, identity |-> n,
           pendingSaves |-> a.pendingSaves, pendingRoots |-> a.pendingRoots,
           generation |-> a.generation, nextToken |-> a.nextToken,
           nextDocument |-> a.nextDocument, nextLease |-> a.nextLease]
    BY <1>1 DEF Fields
  <1>. QED BY <1>2 DEF Fields, g, w, d, n

-------------------------------------------------------------------------------
(* The invariant, of a state of the session.                               *)

OriginOK(a, o) ==
    \/ \E t \in 1..(a.nextToken - 1) : o = Workspace(t)
    \/ \E i \in 1..(a.nextDocument - 1) : o \in {Open(i), SaveAs(i), Created(i)}
    \/ \E i \in 1..(a.nextLease - 1), doc \in Files, at \in Files \cup {<<>>} :
          o = Preview(i, doc, at)

LedgerOK(l) ==
    /\ l = [active |-> l.active, origins |-> l.origins]
    /\ l.active \in BOOLEAN
    /\ l.origins # {}

(* No directory's ledger is ever suspended.                                *)
LedgersOK(a) ==
    /\ DOMAIN a.grants \subseteq Keys
    /\ \A k \in DOMAIN a.grants :
          /\ LedgerOK(a.grants[k])
          /\ k.kind = "directory" => a.grants[k].active
          /\ \A o \in a.grants[k].origins : OriginOK(a, o)

WorkspacesOK(a) ==
    /\ DOMAIN a.workspaces \subseteq 1..(a.nextToken - 1)
    /\ \A t \in DOMAIN a.workspaces :
          LET w == a.workspaces[t]
          IN  w = [root |-> w.root, identity |-> w.identity] /\ w.root \in Directories

CountersOK(a) ==
    /\ a.generation \in Nat
    /\ {a.nextToken, a.nextDocument, a.nextLease} \subseteq Nat \ {0}

IdentitiesOK(a) == DOMAIN a.documentWorkspace \cup DOMAIN a.identity \subseteq Ids(a)

AuthOK(a) ==
    Fields(a) /\ CountersOK(a) /\ LedgersOK(a) /\ WorkspacesOK(a) /\ IdentitiesOK(a)

(* GrantsFollowRoots, WorkspaceOpenStaysBound and PublishedRootIsChosen of *)
(* a state.                                                                *)
FollowsRoots(a) ==
    /\ \A t \in DOMAIN a.workspaces :
          LET k == Dir(a.workspaces[t].root)
          IN  k \in DOMAIN a.grants /\ Workspace(t) \in a.grants[k].origins
    /\ \A k \in DOMAIN a.grants : \A o \in a.grants[k].origins :
          o.kind = "workspace" =>
             o.id \in DOMAIN a.workspaces /\ k.path = a.workspaces[o.id].root

StaysBound(a, documents) ==
    \A k \in DOMAIN a.grants : \A o \in a.grants[k].origins :
        o.kind = "open" /\ o.id \in documents =>
            o.id \in DOMAIN a.documentWorkspace \cap DOMAIN a.identity

IsChosen(a, roots) ==
    \A t \in DOMAIN a.workspaces :
        t \in DOMAIN roots /\ a.workspaces[t].identity = roots[t]

Sound(a, documents, roots) ==
    AuthOK(a) /\ FollowsRoots(a) /\ StaysBound(a, documents) /\ IsChosen(a, roots)

(* Origins of one kind are told apart by their number.                     *)
LEMMA OriginsApart ==
  /\ \A t : Workspace(t).kind = "workspace" /\ Workspace(t).id = t
  /\ \A i : Open(i).kind = "open" /\ Open(i).id = i
  /\ \A i : SaveAs(i).kind = "saveAs" /\ SaveAs(i).id = i
  /\ \A i : Created(i).kind = "created" /\ Created(i).id = i
  /\ \A i, doc, at : /\ Preview(i, doc, at).kind = "preview" /\ Preview(i, doc, at).id = i
                     /\ Preview(i, doc, at).document = doc /\ Preview(i, doc, at).anchor = at
  BY DEF Workspace, Open, SaveAs, Created, Preview, Origin

LEMMA OriginKinds ==
  ASSUME NEW a, NEW o, OriginOK(a, o)
  PROVE  /\ o.kind \in {"workspace", "open", "saveAs", "created", "preview"}
         /\ o.kind = "workspace" => o = Workspace(o.id) /\ o.id \in 1..(a.nextToken - 1)
         /\ o.kind = "open" => o = Open(o.id) /\ o.id \in 1..(a.nextDocument - 1)
         /\ o.kind \in {"saveAs", "created"} => o.id \in 1..(a.nextDocument - 1)
         /\ o.kind = "preview" => /\ o.id \in 1..(a.nextLease - 1)
                                  /\ o.document \in Files
                                  /\ o.anchor \in Files \cup {<<>>}
  <1>1. CASE \E t \in 1..(a.nextToken - 1) : o = Workspace(t)
    BY <1>1, OriginsApart
  <1>2. CASE \E i \in 1..(a.nextDocument - 1) : o \in {Open(i), SaveAs(i), Created(i)}
    BY <1>2, OriginsApart
  <1>3. CASE \E i \in 1..(a.nextLease - 1), doc \in Files, at \in Files \cup {<<>>} :
               o = Preview(i, doc, at)
    BY <1>3, OriginsApart
  <1>. QED BY <1>1, <1>2, <1>3 DEF OriginOK

(* The invariant's form of an origin is the one of TypeOK.                 *)
LEMMA OriginTyped ==
  ASSUME NEW a, NEW o, OriginOK(a, o)
  PROVE  OriginIsTyped(a, o)
  BY OriginKinds DEF OriginIsTyped, Ids

(* An origin stays typed while the numbers given out only grow.            *)
LEMMA OriginKept ==
  ASSUME NEW a, NEW b, CountersOK(a), CountersOK(b),
         b.nextToken >= a.nextToken, b.nextDocument >= a.nextDocument,
         b.nextLease >= a.nextLease,
         NEW o, OriginOK(a, o)
  PROVE  OriginOK(b, o)
  <1>1. /\ 1..(a.nextToken - 1) \subseteq 1..(b.nextToken - 1)
        /\ 1..(a.nextDocument - 1) \subseteq 1..(b.nextDocument - 1)
        /\ 1..(a.nextLease - 1) \subseteq 1..(b.nextLease - 1)
    BY DEF CountersOK
  <1>. QED BY <1>1 DEF OriginOK

(* Numbers given out, documents bound and roots selected besides: nothing  *)
(* granted.                                                                *)
LEMMA AdvanceSound ==
  ASSUME NEW a, NEW b, NEW documents, NEW more, NEW roots, NEW later,
         Sound(a, documents, roots),
         Fields(b), CountersOK(b),
         b.grants = a.grants, b.workspaces = a.workspaces,
         b.nextToken >= a.nextToken, b.nextDocument >= a.nextDocument,
         b.nextLease >= a.nextLease,
         DOMAIN a.documentWorkspace \subseteq DOMAIN b.documentWorkspace,
         DOMAIN a.identity \subseteq DOMAIN b.identity,
         IdentitiesOK(b),
         more \ documents \subseteq DOMAIN b.documentWorkspace \cap DOMAIN b.identity,
         \A t \in DOMAIN a.workspaces \cap DOMAIN roots :
            t \in DOMAIN later /\ later[t] = roots[t]
  PROVE  Sound(b, more, later)
  <1>0. CountersOK(a)
    BY DEF Sound, AuthOK
  <1>1. LedgersOK(b)
    BY <1>0, OriginKept DEF Sound, AuthOK, LedgersOK
  <1>2. WorkspacesOK(b)
    <2>1. 1..(a.nextToken - 1) \subseteq 1..(b.nextToken - 1)
      BY <1>0 DEF CountersOK
    <2>. QED BY <2>1 DEF Sound, AuthOK, WorkspacesOK
  <1>3. FollowsRoots(b) /\ IsChosen(b, later)
    BY DEF Sound, FollowsRoots, IsChosen
  <1>4. StaysBound(b, more)
    BY DEF Sound, StaysBound
  <1>. QED BY <1>1, <1>2, <1>3, <1>4 DEF Sound, AuthOK

(* A grant to a document, or a lease.                                      *)
LEMMA PutSound ==
  ASSUME NEW a, NEW b, NEW documents, NEW roots, Sound(a, documents, roots),
         Fields(b), CountersOK(b),
         NEW k \in Keys, NEW o, OriginOK(a, o), o.kind # "workspace",
         o.kind = "open" /\ o.id \in documents =>
            o.id \in DOMAIN a.documentWorkspace \cap DOMAIN a.identity,
         b.grants = Put(a.grants, k, o), b.workspaces = a.workspaces,
         b.documentWorkspace = a.documentWorkspace, b.identity = a.identity,
         b.nextToken = a.nextToken, b.nextDocument = a.nextDocument,
         b.nextLease = a.nextLease
  PROVE  Sound(b, documents, roots)
  <1>0. AuthOK(a) /\ CountersOK(a)
    BY DEF Sound, AuthOK
  <1>1. /\ DOMAIN b.grants = DOMAIN a.grants \cup {k}
        /\ \A x \in DOMAIN a.grants : x # k => b.grants[x] = a.grants[x]
        /\ b.grants[k] = [active |-> TRUE, origins |-> b.grants[k].origins]
        /\ b.grants[k].active = TRUE
        /\ k \in DOMAIN a.grants => b.grants[k].origins = {o} \cup a.grants[k].origins
        /\ k \notin DOMAIN a.grants => b.grants[k].origins = {o}
    <2>. DEFINE g == a.grants
                h == b.grants
    <2>1. h = Put(g, k, o)
      OBVIOUS
    <2>. HIDE DEF g, h
    <2>2. /\ DOMAIN h = DOMAIN g \cup {k}
          /\ \A x \in DOMAIN g : x # k => h[x] = g[x]
          /\ h[k] = [active |-> TRUE, origins |-> h[k].origins]
          /\ h[k].active = TRUE
          /\ k \in DOMAIN g => h[k].origins = {o} \cup g[k].origins
          /\ k \notin DOMAIN g => h[k].origins = {o}
      BY <2>1 DEF Put
    <2>. QED BY <2>2 DEF g, h
  <1>2. \A x : OriginOK(a, x) => OriginOK(b, x)
    BY DEF OriginOK
  <1>3. LedgersOK(b)
    <2>1. DOMAIN b.grants \subseteq Keys
      BY <1>0, <1>1 DEF AuthOK, LedgersOK
    <2>2. LedgerOK(b.grants[k]) /\ \A x \in b.grants[k].origins : OriginOK(b, x)
      BY <1>0, <1>1, <1>2 DEF AuthOK, LedgersOK, LedgerOK
    <2>3. ASSUME NEW x \in DOMAIN b.grants, x # k
          PROVE  /\ LedgerOK(b.grants[x])
                 /\ x.kind = "directory" => b.grants[x].active
                 /\ \A y \in b.grants[x].origins : OriginOK(b, y)
      BY <1>0, <1>1, <1>2, <2>3 DEF AuthOK, LedgersOK
    <2>. QED BY <1>1, <2>1, <2>2, <2>3 DEF LedgersOK
  <1>4. WorkspacesOK(b) /\ IdentitiesOK(b) /\ IsChosen(b, roots)
    BY <1>0 DEF AuthOK, WorkspacesOK, IdentitiesOK, IsChosen, Sound, Ids
  <1>5. FollowsRoots(b)
    BY <1>1 DEF Sound, FollowsRoots
  <1>6. StaysBound(b, documents)
    BY <1>1 DEF Sound, StaysBound
  <1>. QED BY <1>3, <1>4, <1>5, <1>6 DEF Sound, AuthOK

LEMMA SetOrigins ==
  ASSUME NEW l, l = [active |-> l.active, origins |-> l.origins], NEW s
  PROVE  [l EXCEPT !.origins = s] = [active |-> l.active, origins |-> s]
  OBVIOUS

LEMMA RevokedWorkspaces ==
  ASSUME NEW a, Fields(a), NEW os, NEW w, w = RevokeOrigins(a, os).workspaces
  PROVE  w = [t \in DOMAIN w |-> w[t]]
  <1>. DEFINE s == {t \in DOMAIN a.workspaces : Workspace(t) \notin os}
  <1>1. w = Restrict(a.workspaces, s)
    BY DEF RevokeOrigins, Fields
  <1>. HIDE DEF s
  <1>2. w = [t \in s |-> a.workspaces[t]]
    BY ONLY <1>1 DEF Restrict
  <1>. QED BY ONLY <1>2

(* Origins revoked: what spoke for them goes with them.                    *)
LEMMA RevokeSound ==
  ASSUME NEW a, NEW os, NEW documents, NEW roots, Sound(a, documents, roots)
  PROVE  LET b == RevokeOrigins(a, os)
         IN  /\ Sound(b, documents, roots)
             /\ DOMAIN b.grants \subseteq DOMAIN a.grants
             /\ \A k \in DOMAIN b.grants :
                   /\ b.grants[k].active = a.grants[k].active
                   /\ b.grants[k].origins = a.grants[k].origins \ os
             /\ DOMAIN b.workspaces \subseteq DOMAIN a.workspaces
             /\ \A t \in DOMAIN b.workspaces :
                   Workspace(t) \notin os /\ b.workspaces[t] = a.workspaces[t]
             /\ b.pendingSaves = a.pendingSaves /\ b.pendingRoots = a.pendingRoots
             /\ b.generation = a.generation /\ b.nextToken = a.nextToken
             /\ b.nextDocument = a.nextDocument /\ b.nextLease = a.nextLease
  <1>. DEFINE b == RevokeOrigins(a, os)
              left(k) == a.grants[k].origins \ os
  <1>0. AuthOK(a) /\ Fields(a) /\ CountersOK(a)
    BY DEF Sound, AuthOK
  <1>1. /\ Fields(b)
        /\ b.grants = [k \in {x \in DOMAIN a.grants : left(x) # {}} |->
                              [a.grants[k] EXCEPT !.origins = left(k)]]
        /\ b.workspaces =
                  [t \in {x \in DOMAIN a.workspaces : Workspace(x) \notin os} |->
                     a.workspaces[t]]
        /\ b.documentWorkspace =
                  [i \in {x \in DOMAIN a.documentWorkspace : Open(x) \notin os} |->
                     a.documentWorkspace[i]]
        /\ b.identity =
                  [i \in {x \in DOMAIN a.identity : Open(x) \notin os} |-> a.identity[i]]
        /\ b.pendingSaves = a.pendingSaves /\ b.pendingRoots = a.pendingRoots
        /\ b.generation = a.generation /\ b.nextToken = a.nextToken
        /\ b.nextDocument = a.nextDocument /\ b.nextLease = a.nextLease
    BY <1>0, RevokeIs
  <1>. HIDE DEF b
  <1>2. /\ DOMAIN b.grants = {x \in DOMAIN a.grants : left(x) # {}}
        /\ \A k \in DOMAIN b.grants : /\ b.grants[k].active = a.grants[k].active
                                      /\ b.grants[k].origins = left(k)
                                      /\ LedgerOK(b.grants[k])
    <2>1. \A k \in DOMAIN a.grants : LedgerOK(a.grants[k])
      BY <1>0 DEF AuthOK, LedgersOK
    <2>2. DOMAIN b.grants = {x \in DOMAIN a.grants : left(x) # {}}
      BY <1>1
    <2>3. ASSUME NEW k \in DOMAIN b.grants
          PROVE  b.grants[k] = [active |-> a.grants[k].active, origins |-> left(k)]
      <3>1. b.grants[k] = [a.grants[k] EXCEPT !.origins = left(k)]
        BY <1>1, <2>2
      <3>2. a.grants[k] = [active |-> a.grants[k].active, origins |-> a.grants[k].origins]
        BY <2>1, <2>2 DEF LedgerOK
      <3>. QED BY <3>1, <3>2, SetOrigins
    <2>4. ASSUME NEW k \in DOMAIN b.grants
          PROVE  /\ b.grants[k].active = a.grants[k].active
                 /\ b.grants[k].origins = left(k)
                 /\ LedgerOK(b.grants[k])
      <3>1. left(k) # {} /\ a.grants[k].active \in BOOLEAN
        BY <2>1, <2>2 DEF LedgerOK
      <3>2. b.grants[k] = [active |-> a.grants[k].active, origins |-> left(k)]
        BY <2>3
      <3>. HIDE DEF left
      <3>. QED BY <3>1, <3>2 DEF LedgerOK
    <2>. HIDE DEF left
    <2>. QED BY <2>2, <2>4
  <1>3. /\ DOMAIN b.workspaces = {x \in DOMAIN a.workspaces : Workspace(x) \notin os}
        /\ \A t \in DOMAIN b.workspaces : b.workspaces[t] = a.workspaces[t]
        /\ DOMAIN b.documentWorkspace = {x \in DOMAIN a.documentWorkspace : Open(x) \notin os}
        /\ DOMAIN b.identity = {x \in DOMAIN a.identity : Open(x) \notin os}
    BY <1>1
  <1>4. CountersOK(b)
    BY <1>0, <1>1 DEF CountersOK
  <1>5. \A o : OriginOK(a, o) => OriginOK(b, o)
    BY <1>1 DEF OriginOK
  <1>6. LedgersOK(b)
    BY <1>0, <1>2, <1>5 DEF AuthOK, LedgersOK
  <1>7. WorkspacesOK(b) /\ IdentitiesOK(b) /\ IsChosen(b, roots)
    BY <1>0, <1>1, <1>3 DEF AuthOK, WorkspacesOK, IdentitiesOK, IsChosen, Sound, Ids
  <1>8. FollowsRoots(b)
    <2>1. ASSUME NEW t \in DOMAIN b.workspaces
          PROVE  LET k == Dir(b.workspaces[t].root)
                 IN  k \in DOMAIN b.grants /\ Workspace(t) \in b.grants[k].origins
      BY <1>2, <1>3 DEF Sound, FollowsRoots
    <2>2. ASSUME NEW k \in DOMAIN b.grants, NEW o \in b.grants[k].origins,
                 o.kind = "workspace"
          PROVE  o.id \in DOMAIN b.workspaces /\ k.path = b.workspaces[o.id].root
      <3>1. k \in DOMAIN a.grants /\ o \in a.grants[k].origins /\ o \notin os
        BY <1>2
      <3>2. o = Workspace(o.id)
        BY <1>0, <2>2, <3>1, OriginKinds DEF AuthOK, LedgersOK
      <3>3. o.id \in DOMAIN a.workspaces /\ k.path = a.workspaces[o.id].root
        BY <2>2, <3>1 DEF Sound, FollowsRoots
      <3>. QED BY <1>3, <3>1, <3>2, <3>3
    <2>. QED BY <2>1, <2>2 DEF FollowsRoots
  <1>9. StaysBound(b, documents)
    <2>. SUFFICES ASSUME NEW k \in DOMAIN b.grants, NEW o \in b.grants[k].origins,
                         o.kind = "open", o.id \in documents
                  PROVE  o.id \in DOMAIN b.documentWorkspace \cap DOMAIN b.identity
      BY DEF StaysBound
    <2>1. k \in DOMAIN a.grants /\ o \in a.grants[k].origins /\ o \notin os
      BY <1>2
    <2>2. o = Open(o.id)
      BY <1>0, <2>1, OriginKinds DEF AuthOK, LedgersOK
    <2>3. o.id \in DOMAIN a.documentWorkspace \cap DOMAIN a.identity
      BY <2>1 DEF Sound, StaysBound
    <2>. QED BY <1>3, <2>1, <2>2, <2>3
  <1>. QED BY <1>1, <1>2, <1>3, <1>4, <1>6, <1>7, <1>8, <1>9 DEF Sound, AuthOK, b

LEMMA KeysOfFile ==
  ASSUME NEW f \in Files
  PROVE  Exact(f) \in Keys /\ Asset(Front(f)) \in Keys
  BY PathAssumption DEF Keys, Paths

(* Both ledgers of a document granted.                                     *)
LEMMA GrantsSound ==
  ASSUME NEW a, NEW b, NEW documents, NEW more, NEW roots, Sound(a, documents, roots),
         Fields(b), CountersOK(b),
         b.nextToken >= a.nextToken, b.nextDocument >= a.nextDocument,
         b.nextLease >= a.nextLease,
         DOMAIN a.documentWorkspace \subseteq DOMAIN b.documentWorkspace,
         DOMAIN a.identity \subseteq DOMAIN b.identity,
         IdentitiesOK(b),
         more \ documents \subseteq DOMAIN b.documentWorkspace \cap DOMAIN b.identity,
         NEW f \in Files, NEW o, OriginOK(b, o), o.kind # "workspace",
         o.kind = "open" /\ o.id \in more =>
            o.id \in DOMAIN b.documentWorkspace \cap DOMAIN b.identity,
         b.workspaces = a.workspaces,
         b.grants = Put(Put(a.grants, Exact(f), o), Asset(Front(f)), o)
  PROVE  Sound(b, more, roots)
  <1>. DEFINE c == [b EXCEPT !.grants = a.grants]
              d == [b EXCEPT !.grants = Put(a.grants, Exact(f), o)]
  <1>1. /\ Fields(c) /\ c.grants = a.grants /\ c.workspaces = b.workspaces
        /\ c.documentWorkspace = b.documentWorkspace /\ c.identity = b.identity
        /\ c.generation = b.generation /\ c.nextToken = b.nextToken
        /\ c.nextDocument = b.nextDocument /\ c.nextLease = b.nextLease
    BY SetGrants
  <1>2. /\ Fields(d) /\ d.grants = Put(a.grants, Exact(f), o)
        /\ d.workspaces = b.workspaces
        /\ d.documentWorkspace = b.documentWorkspace /\ d.identity = b.identity
        /\ d.generation = b.generation /\ d.nextToken = b.nextToken
        /\ d.nextDocument = b.nextDocument /\ d.nextLease = b.nextLease
    BY SetGrants
  <1>. HIDE DEF c, d
  <1>3. CountersOK(c) /\ CountersOK(d) /\ IdentitiesOK(c) /\ OriginOK(c, o) /\ OriginOK(d, o)
    BY <1>1, <1>2 DEF CountersOK, IdentitiesOK, Ids, OriginOK
  <1>4. Sound(c, more, roots)
    BY <1>1, <1>3, AdvanceSound
  <1>5. Sound(d, more, roots)
    BY <1>1, <1>2, <1>3, <1>4, KeysOfFile, PutSound
  <1>. QED BY <1>2, <1>3, <1>5, KeysOfFile, PutSound

(* A workspace published: its token in both ledgers and among the roots.   *)
LEMMA PublishSound ==
  ASSUME NEW a, NEW b, NEW documents, NEW roots, NEW later,
         Sound(a, documents, roots), Fields(b), CountersOK(b),
         b.nextToken >= a.nextToken, b.nextDocument = a.nextDocument,
         b.nextLease = a.nextLease,
         b.documentWorkspace = a.documentWorkspace, b.identity = a.identity,
         NEW t \in 1..(b.nextToken - 1), t \notin DOMAIN a.workspaces,
         NEW root \in Directories, NEW object,
         b.workspaces = [x \in DOMAIN a.workspaces \cup {t} |->
                           IF x = t THEN [root |-> root, identity |-> object]
                           ELSE a.workspaces[x]],
         t \in DOMAIN later, later[t] = object,
         \A x \in DOMAIN a.workspaces \cap DOMAIN roots :
            x \in DOMAIN later /\ later[x] = roots[x],
         b.grants = Put(Put(a.grants, Dir(root), Workspace(t)), Asset(root), Workspace(t))
  PROVE  Sound(b, documents, later)
  <1>. DEFINE g == a.grants
              h == b.grants
              w == b.workspaces
              two == {Dir(root), Asset(root)}
  <1>0. AuthOK(a) /\ CountersOK(a) /\ LedgersOK(a) /\ FollowsRoots(a)
    BY DEF Sound, AuthOK
  <1>1. Dir(root) \in Keys /\ Asset(root) \in Keys /\ Dir(root) # Asset(root)
        /\ Dir(root).path = root /\ Asset(root).path = root
    BY DEF Keys, Dir, Asset
  <1>2. /\ DOMAIN h = DOMAIN g \cup two
        /\ \A x \in DOMAIN g : x \notin two => h[x] = g[x]
        /\ \A x \in two :
              h[x] = [active |-> TRUE,
                      origins |-> {Workspace(t)} \cup IF x \in DOMAIN g THEN g[x].origins ELSE {}]
    <2>1. h = Put(Put(g, Dir(root), Workspace(t)), Asset(root), Workspace(t))
      OBVIOUS
    <2>. HIDE DEF g, h
    <2>. QED BY <1>1, <2>1 DEF Put
  <1>3. /\ DOMAIN w = DOMAIN a.workspaces \cup {t}
        /\ \A x \in DOMAIN a.workspaces : x # t /\ w[x] = a.workspaces[x]
        /\ w[t] = [root |-> root, identity |-> object]
    OBVIOUS
  <1>. HIDE DEF g, h, w, two
  <1>4. \A o : OriginOK(a, o) => OriginOK(b, o)
    <2>1. b.nextDocument >= a.nextDocument /\ b.nextLease >= a.nextLease
      BY <1>0 DEF CountersOK
    <2>. QED BY <1>0, <2>1, OriginKept
  <1>5. OriginOK(b, Workspace(t)) /\ Workspace(t).kind = "workspace" /\ Workspace(t).id = t
    BY OriginsApart DEF OriginOK
  <1>6. \A x \in DOMAIN g : /\ LedgerOK(g[x])
                            /\ x.kind = "directory" => g[x].active
                            /\ \A o \in g[x].origins : OriginOK(b, o)
    BY <1>0, <1>4 DEF LedgersOK, g
  <1>7. \A x \in two : LedgerOK(h[x]) /\ h[x].active /\ Workspace(t) \in h[x].origins
                       /\ \A o \in h[x].origins :
                             o = Workspace(t) \/ (x \in DOMAIN g /\ o \in g[x].origins)
    <2>. SUFFICES ASSUME NEW x \in two
                  PROVE  /\ LedgerOK(h[x]) /\ h[x].active /\ Workspace(t) \in h[x].origins
                         /\ \A o \in h[x].origins :
                               o = Workspace(t) \/ (x \in DOMAIN g /\ o \in g[x].origins)
      OBVIOUS
    <2>. DEFINE s == {Workspace(t)} \cup IF x \in DOMAIN g THEN g[x].origins ELSE {}
    <2>1. h[x] = [active |-> TRUE, origins |-> s]
      BY <1>2
    <2>2. /\ Workspace(t) \in s
          /\ \A o \in s : o = Workspace(t) \/ (x \in DOMAIN g /\ o \in g[x].origins)
      OBVIOUS
    <2>. HIDE DEF s
    <2>. QED BY <2>1, <2>2 DEF LedgerOK
  <1>8. LedgersOK(b)
    <2>1. DOMAIN h \subseteq Keys
      BY <1>0, <1>1, <1>2 DEF LedgersOK, g, two
    <2>2. ASSUME NEW x \in DOMAIN h
          PROVE  /\ LedgerOK(h[x])
                 /\ x.kind = "directory" => h[x].active
                 /\ \A o \in h[x].origins : OriginOK(b, o)
      <3>1. CASE x \in two
        BY <1>5, <1>6, <1>7, <3>1
      <3>2. CASE x \notin two
        BY <1>2, <1>6, <3>2
      <3>. QED BY <3>1, <3>2
    <2>. QED BY <2>1, <2>2 DEF LedgersOK, h
  <1>9. WorkspacesOK(b)
    <2>1. DOMAIN w \subseteq 1..(b.nextToken - 1)
      <3>1. 1..(a.nextToken - 1) \subseteq 1..(b.nextToken - 1)
        BY <1>0 DEF CountersOK
      <3>. QED BY <1>0, <1>3, <3>1 DEF AuthOK, WorkspacesOK
    <2>2. ASSUME NEW x \in DOMAIN w
          PROVE  w[x] = [root |-> w[x].root, identity |-> w[x].identity]
                 /\ w[x].root \in Directories
      <3>1. CASE x = t
        BY <1>3, <3>1
      <3>2. CASE x # t
        BY <1>0, <1>3, <3>2 DEF AuthOK, WorkspacesOK
      <3>. QED BY <3>1, <3>2
    <2>. QED BY <2>1, <2>2 DEF WorkspacesOK, w
  <1>10. IdentitiesOK(b)
    BY <1>0 DEF AuthOK, IdentitiesOK, Ids
  <1>11. IsChosen(b, later)
    BY <1>3 DEF Sound, IsChosen, w
  <1>12. FollowsRoots(b)
    <2>1. ASSUME NEW x \in DOMAIN w
          PROVE  Dir(w[x].root) \in DOMAIN h /\ Workspace(x) \in h[Dir(w[x].root)].origins
      <3>1. CASE x = t
        BY <1>2, <1>3, <1>7, <3>1 DEF two
      <3>2. CASE x # t
        <4>1. /\ Dir(w[x].root) \in DOMAIN g
              /\ Workspace(x) \in g[Dir(w[x].root)].origins
          BY <1>0, <1>3, <3>2 DEF FollowsRoots, g
        <4>. QED BY <1>2, <4>1
      <3>. QED BY <3>1, <3>2
    <2>2. ASSUME NEW k \in DOMAIN h, NEW o \in h[k].origins, o.kind = "workspace"
          PROVE  o.id \in DOMAIN w /\ k.path = w[o.id].root
      <3>1. CASE k \in DOMAIN g /\ o \in g[k].origins
        BY <1>0, <1>3, <2>2, <3>1 DEF FollowsRoots, g
      <3>2. CASE k \in two /\ o = Workspace(t)
        BY <1>1, <1>3, <1>5, <3>2 DEF two
      <3>. QED BY <1>2, <1>7, <3>1, <3>2
    <2>. QED BY <2>1, <2>2 DEF FollowsRoots, h, w
  <1>13. StaysBound(b, documents)
    <2>1. ASSUME NEW k \in DOMAIN h, NEW o \in h[k].origins, o.kind = "open"
          PROVE  k \in DOMAIN g /\ o \in g[k].origins
      <3>1. o # Workspace(t)
        BY <1>5, <2>1
      <3>. QED BY <1>2, <1>7, <3>1
    <2>. QED BY <2>1 DEF Sound, StaysBound, g, h
  <1>. QED BY <1>8, <1>9, <1>10, <1>11, <1>12, <1>13 DEF Sound, AuthOK

(* What takes authority or moves it: nothing pending, nothing given out    *)
(* and no workspace comes of it, and a ledger only with a new generation.  *)
After(a, b) ==
    /\ b.generation >= a.generation
    /\ b.generation = a.generation => DOMAIN b.grants \subseteq DOMAIN a.grants
    /\ b.pendingSaves = a.pendingSaves /\ b.pendingRoots = a.pendingRoots
    /\ b.nextToken = a.nextToken /\ b.nextDocument = a.nextDocument
    /\ b.nextLease = a.nextLease
    /\ DOMAIN b.workspaces \subseteq DOMAIN a.workspaces

Changed(a, b, documents, roots) == Sound(b, documents, roots) /\ After(a, b)

LEMMA SoundCounts ==
  ASSUME NEW a, NEW documents, NEW roots, Sound(a, documents, roots)
  PROVE  /\ AuthOK(a) /\ Fields(a) /\ CountersOK(a) /\ IdentitiesOK(a)
         /\ a.generation \in Nat
         /\ a.nextToken \in Nat \ {0} /\ a.nextDocument \in Nat \ {0}
         /\ a.nextLease \in Nat \ {0}
  BY DEF Sound, AuthOK, CountersOK

LEMMA ChangedTransitive ==
  ASSUME NEW a, NEW b, NEW c, NEW documents, NEW roots,
         Sound(a, documents, roots),
         Changed(a, b, documents, roots), Changed(b, c, documents, roots)
  PROVE  Changed(a, c, documents, roots)
  <1>1. /\ a.generation \in Nat /\ b.generation \in Nat /\ c.generation \in Nat
    BY SoundCounts DEF Changed
  <1>. QED BY <1>1 DEF Changed, After

LEMMA ChangedReflexive ==
  ASSUME NEW a, NEW documents, NEW roots, Sound(a, documents, roots)
  PROVE  Changed(a, a, documents, roots)
  BY SoundCounts DEF Changed, After

(* advance_authorization_generation alone.                                 *)
LEMMA BumpChanged ==
  ASSUME NEW a, NEW documents, NEW roots, Sound(a, documents, roots)
  PROVE  Changed(a, [a EXCEPT !.generation = a.generation + 1], documents, roots)
  <1>. DEFINE b == [a EXCEPT !.generation = a.generation + 1]
  <1>1. /\ Fields(b)
        /\ b.grants = a.grants /\ b.workspaces = a.workspaces
        /\ b.documentWorkspace = a.documentWorkspace /\ b.identity = a.identity
        /\ b.pendingSaves = a.pendingSaves /\ b.pendingRoots = a.pendingRoots
        /\ b.generation = a.generation + 1 /\ b.nextToken = a.nextToken
        /\ b.nextDocument = a.nextDocument /\ b.nextLease = a.nextLease
    BY SoundCounts, SetGeneration
  <1>. HIDE DEF b
  <1>2. CountersOK(b) /\ IdentitiesOK(b)
    BY <1>1, SoundCounts DEF CountersOK, IdentitiesOK, Ids
  <1>3. b.nextToken >= a.nextToken /\ b.nextDocument >= a.nextDocument
        /\ b.nextLease >= a.nextLease /\ b.generation > a.generation
    BY <1>1, SoundCounts
  <1>4. Sound(b, documents, roots)
    BY <1>1, <1>2, <1>3, AdvanceSound
  <1>5. After(a, b)
    BY <1>1, <1>3, SoundCounts DEF After
  <1>. QED BY <1>4, <1>5 DEF Changed, b

(* revoke_origin_raw.                                                      *)
LEMMA RevokeChanged ==
  ASSUME NEW a, NEW os, NEW documents, NEW roots, Sound(a, documents, roots)
  PROVE  Changed(a, RevokeOrigins(a, os), documents, roots)
  <1>. DEFINE b == RevokeOrigins(a, os)
  <1>1. /\ Sound(b, documents, roots)
        /\ DOMAIN b.grants \subseteq DOMAIN a.grants
        /\ DOMAIN b.workspaces \subseteq DOMAIN a.workspaces
        /\ b.pendingSaves = a.pendingSaves /\ b.pendingRoots = a.pendingRoots
        /\ b.generation = a.generation /\ b.nextToken = a.nextToken
        /\ b.nextDocument = a.nextDocument /\ b.nextLease = a.nextLease
    BY RevokeSound
  <1>. HIDE DEF b
  <1>. QED BY <1>1, SoundCounts DEF Changed, After, b

(* Files' and assets' ledgers suspended or restored.                       *)
LEMMA ActivityChanged ==
  ASSUME NEW a, NEW b, NEW documents, NEW roots, Sound(a, documents, roots),
         Fields(b), b.generation >= a.generation, b.generation \in Nat,
         DOMAIN b.grants = DOMAIN a.grants,
         \A k \in DOMAIN a.grants :
            /\ b.grants[k].active \in BOOLEAN
            /\ k.kind = "directory" => b.grants[k].active = a.grants[k].active
            /\ b.grants[k].origins = a.grants[k].origins
            /\ b.grants[k] = [active |-> b.grants[k].active,
                              origins |-> b.grants[k].origins],
         b.workspaces = a.workspaces,
         b.documentWorkspace = a.documentWorkspace, b.identity = a.identity,
         b.pendingSaves = a.pendingSaves, b.pendingRoots = a.pendingRoots,
         b.nextToken = a.nextToken, b.nextDocument = a.nextDocument,
         b.nextLease = a.nextLease
  PROVE  Changed(a, b, documents, roots)
  <1>1. AuthOK(a) /\ CountersOK(b) /\ \A o : OriginOK(a, o) => OriginOK(b, o)
    BY SoundCounts DEF CountersOK, OriginOK
  <1>2. LedgersOK(b)
    BY <1>1 DEF AuthOK, LedgersOK, LedgerOK
  <1>3. WorkspacesOK(b) /\ IdentitiesOK(b) /\ IsChosen(b, roots)
    BY <1>1 DEF AuthOK, WorkspacesOK, IdentitiesOK, Ids, IsChosen, Sound
  <1>4. FollowsRoots(b)
    <2>1. /\ DOMAIN b.grants = DOMAIN a.grants
          /\ \A k \in DOMAIN a.grants : b.grants[k].origins = a.grants[k].origins
          /\ b.workspaces = a.workspaces /\ FollowsRoots(a)
      BY DEF Sound
    <2>. QED BY ONLY <2>1 DEF FollowsRoots
  <1>5. StaysBound(b, documents)
    BY DEF Sound, StaysBound
  <1>. QED BY <1>1, <1>2, <1>3, <1>4, <1>5, SoundCounts DEF Changed, After, Sound, AuthOK

LEMMA SetActive ==
  ASSUME NEW l, LedgerOK(l), NEW v \in BOOLEAN, NEW m, m = [l EXCEPT !.active = v]
  PROVE  /\ m.active = v /\ m.origins = l.origins
         /\ m = [active |-> m.active, origins |-> m.origins]
  BY DEF LedgerOK

(* Ledgers of files and assets suspended.                                  *)
LEMMA SuspendChanged ==
  ASSUME NEW a, NEW ks, NEW documents, NEW roots, Sound(a, documents, roots),
         \A k \in ks : k.kind # "directory"
  PROVE  LET b == Suspend(a, ks)
         IN  Changed(a, b, documents, roots) /\ b.generation = a.generation
  <1>. DEFINE b == Suspend(a, ks)
              g == [k \in DOMAIN a.grants |->
                      IF k \in ks THEN [a.grants[k] EXCEPT !.active = FALSE]
                      ELSE a.grants[k]]
  <1>1. b = [a EXCEPT !.grants = g]
    BY DEF Suspend
  <1>2. /\ DOMAIN g = DOMAIN a.grants
        /\ \A k \in DOMAIN a.grants :
              /\ g[k].active \in BOOLEAN
              /\ k.kind = "directory" => g[k].active = a.grants[k].active
              /\ g[k].origins = a.grants[k].origins
              /\ g[k] = [active |-> g[k].active, origins |-> g[k].origins]
    <2>1. ASSUME NEW k \in DOMAIN a.grants
          PROVE  /\ g[k].active \in BOOLEAN
                 /\ k.kind = "directory" => g[k].active = a.grants[k].active
                 /\ g[k].origins = a.grants[k].origins
                 /\ g[k] = [active |-> g[k].active, origins |-> g[k].origins]
      <3>1. LedgerOK(a.grants[k])
        BY DEF Sound, AuthOK, LedgersOK
      <3>2. CASE k \in ks
        <4>1. g[k] = [a.grants[k] EXCEPT !.active = FALSE]
          BY <3>2
        <4>. HIDE DEF g
        <4>. QED BY <3>1, <3>2, <4>1, SetActive
      <3>3. CASE k \notin ks
        <4>1. g[k] = a.grants[k]
          BY <3>3
        <4>. HIDE DEF g
        <4>. QED BY <3>1, <4>1 DEF LedgerOK
      <3>. QED BY <3>2, <3>3
    <2>2. DOMAIN g = DOMAIN a.grants
      OBVIOUS
    <2>. HIDE DEF g
    <2>. QED BY <2>1, <2>2
  <1>. HIDE DEF b, g
  <1>3. /\ Fields(b)
        /\ b.grants = g /\ b.workspaces = a.workspaces
        /\ b.documentWorkspace = a.documentWorkspace /\ b.identity = a.identity
        /\ b.pendingSaves = a.pendingSaves /\ b.pendingRoots = a.pendingRoots
        /\ b.generation = a.generation /\ b.nextToken = a.nextToken
        /\ b.nextDocument = a.nextDocument /\ b.nextLease = a.nextLease
    BY <1>1, SoundCounts, SetGrants
  <1>4. b.generation >= a.generation /\ b.generation \in Nat
    BY <1>3, SoundCounts
  <1>. QED BY <1>2, <1>3, <1>4, ActivityChanged DEF b

(* suspend_rename_path_prefixes.                                           *)
LEMMA SuspendRenameChanged ==
  ASSUME NEW a, NEW ps, NEW documents, NEW roots, Sound(a, documents, roots)
  PROVE  Changed(a, SuspendRename(a, ps), documents, roots)
  <1>. DEFINE s == Suspendable(a, ps)
              b == Suspend(a, s)
              c == [b EXCEPT !.generation = b.generation + 1]
  <1>1. SuspendRename(a, ps) = IF s = {} THEN a ELSE c
    BY DEF SuspendRename
  <1>2. \A k \in s : k.kind # "directory"
    BY DEF Suspendable
  <1>. HIDE DEF s
  <1>3. Changed(a, b, documents, roots)
    BY <1>2, SuspendChanged
  <1>. HIDE DEF b
  <1>4. Changed(b, c, documents, roots)
    BY <1>3, BumpChanged DEF Changed
  <1>. HIDE DEF c
  <1>5. Changed(a, c, documents, roots)
    BY <1>3, <1>4, ChangedTransitive
  <1>. QED BY <1>1, <1>5, ChangedReflexive

(* finalize_indeterminate_rename.                                          *)
LEMMA FinalizeRenameChanged ==
  ASSUME NEW a, NEW ps, NEW documents, NEW roots, Sound(a, documents, roots)
  PROVE  Changed(a, FinalizeRename(a, ps), documents, roots)
  <1>. DEFINE b == SuspendRename(a, ps)
              c == RevokeOrigins(b, LeasesTouching(a, ps))
  <1>1. Changed(a, b, documents, roots)
    BY SuspendRenameChanged
  <1>. HIDE DEF b
  <1>2. Changed(b, c, documents, roots)
    BY <1>1, RevokeChanged DEF Changed
  <1>3. Changed(a, c, documents, roots)
    BY <1>1, <1>2, ChangedTransitive
  <1>. QED BY <1>3 DEF FinalizeRename, b, c

(* suspend_indeterminate_delete.                                           *)
LEMMA SuspendDeleteChanged ==
  ASSUME NEW a, NEW p, NEW documents, NEW roots, Sound(a, documents, roots)
  PROVE  Changed(a, SuspendDelete(a, p), documents, roots)
  <1>. DEFINE s == Suspendable(a, {p})
              l == LeasesTouching(a, {p})
              b == Suspend(a, s)
              c == RevokeOrigins(b, l)
              d == [c EXCEPT !.generation = c.generation + 1]
  <1>1. SuspendDelete(a, p) = IF s = {} /\ l = {} THEN a ELSE d
    BY DEF SuspendDelete
  <1>2. \A k \in s : k.kind # "directory"
    BY DEF Suspendable
  <1>. HIDE DEF s, l
  <1>3. Changed(a, b, documents, roots)
    BY <1>2, SuspendChanged
  <1>. HIDE DEF b
  <1>4. Changed(b, c, documents, roots)
    BY <1>3, RevokeChanged DEF Changed
  <1>. HIDE DEF c
  <1>5. Changed(c, d, documents, roots)
    BY <1>4, BumpChanged DEF Changed
  <1>. HIDE DEF d
  <1>6. Changed(a, d, documents, roots)
    BY <1>3, <1>4, <1>5, ChangedTransitive
  <1>. QED BY <1>1, <1>6, ChangedReflexive

(* restore_renamed_ledgers.                                                *)
LEMMA RestoreChanged ==
  ASSUME NEW a, NEW transitioned, NEW documents, NEW roots, Sound(a, documents, roots)
  PROVE  Changed(a, RestoreRename(a, transitioned), documents, roots)
  <1>. DEFINE back == {k \in transitioned \cap DOMAIN a.grants : ~a.grants[k].active}
              g == [k \in DOMAIN a.grants |->
                      IF k \in back THEN [a.grants[k] EXCEPT !.active = TRUE]
                      ELSE a.grants[k]]
              b == [a EXCEPT !.generation = a.generation + 1, !.grants = g]
  <1>1. RestoreRename(a, transitioned) = IF back = {} THEN a ELSE b
    BY DEF RestoreRename
  <1>2. /\ DOMAIN g = DOMAIN a.grants
        /\ \A k \in DOMAIN a.grants :
              /\ g[k].active \in BOOLEAN
              /\ k.kind = "directory" => g[k].active = a.grants[k].active
              /\ g[k].origins = a.grants[k].origins
              /\ g[k] = [active |-> g[k].active, origins |-> g[k].origins]
    <2>1. ASSUME NEW k \in DOMAIN a.grants
          PROVE  /\ g[k].active \in BOOLEAN
                 /\ k.kind = "directory" => g[k].active = a.grants[k].active
                 /\ g[k].origins = a.grants[k].origins
                 /\ g[k] = [active |-> g[k].active, origins |-> g[k].origins]
      <3>1. /\ LedgerOK(a.grants[k])
            /\ k.kind = "directory" => a.grants[k].active
        BY DEF Sound, AuthOK, LedgersOK
      <3>2. CASE k \in back
        <4>1. g[k] = [a.grants[k] EXCEPT !.active = TRUE] /\ ~a.grants[k].active
          BY <3>2
        <4>. HIDE DEF g, back
        <4>. QED BY <3>1, <4>1, SetActive
      <3>3. CASE k \notin back
        <4>1. g[k] = a.grants[k]
          BY <3>3
        <4>. HIDE DEF g, back
        <4>. QED BY <3>1, <4>1 DEF LedgerOK
      <3>. QED BY <3>2, <3>3
    <2>2. DOMAIN g = DOMAIN a.grants
      OBVIOUS
    <2>. HIDE DEF g, back
    <2>. QED BY <2>1, <2>2
  <1>. HIDE DEF g, back
  <1>3. /\ Fields(b)
        /\ b.grants = g /\ b.workspaces = a.workspaces
        /\ b.documentWorkspace = a.documentWorkspace /\ b.identity = a.identity
        /\ b.pendingSaves = a.pendingSaves /\ b.pendingRoots = a.pendingRoots
        /\ b.generation = a.generation + 1 /\ b.nextToken = a.nextToken
        /\ b.nextDocument = a.nextDocument /\ b.nextLease = a.nextLease
    <2>1. Fields(a)
      BY SoundCounts
    <2>2. b = [a EXCEPT !.generation = a.generation + 1, !.grants = g]
      OBVIOUS
    <2>. HIDE DEF b
    <2>. QED BY ONLY <2>1, <2>2 DEF Fields
  <1>. HIDE DEF b
  <1>4. b.generation >= a.generation /\ b.generation \in Nat
    BY <1>3, SoundCounts
  <1>5. Changed(a, b, documents, roots)
    BY <1>2, <1>3, <1>4, ActivityChanged
  <1>. QED BY <1>1, <1>5, ChangedReflexive

(* A rename of a file to a file, of a directory to a directory, with       *)
(* everything below it.                                                    *)
Carries(old, new) ==
    \A p \in Paths : IsUnder(p, old) =>
        Relocated(p, old, new) \in (IF p \in Files THEN Files ELSE Directories)

(* The renames of a user carry what they move, by PathAssumption.          *)
LEMMA MovesCarry ==
  ASSUME NEW m \in Moves
  PROVE  Carries(m[1], m[2])
  <1>. SUFFICES ASSUME NEW p \in Paths, IsUnder(p, m[1])
                PROVE  Relocated(p, m[1], m[2]) \in (IF p \in Files THEN Files ELSE Directories)
    BY DEF Carries
  <1>1. IsPrefix(m[1], p)
    BY DEF IsUnder
  <1>2. Relocated(p, m[1], m[2]) = m[2] \o SubSeq(p, Len(m[1]) + 1, Len(p))
    BY DEF Relocated
  <1>3. m[2] \o SubSeq(p, Len(m[1]) + 1, Len(p))
          \in (IF p \in Files THEN Files ELSE Directories)
    BY <1>1, PathAssumption
  <1>. QED BY <1>2, <1>3

(* A document is carried alone: nothing lies below a file.                 *)
LEMMA FilesCarry ==
  ASSUME NEW old \in Files, NEW new \in Files
  PROVE  Carries(old, new)
  <1>. SUFFICES ASSUME NEW p \in Paths, IsUnder(p, old)
                PROVE  Relocated(p, old, new) \in (IF p \in Files THEN Files ELSE Directories)
    BY DEF Carries
  <1>1. p = old
    BY PathAssumption DEF IsUnder
  <1>2. old \in Seq(Range(old)) /\ new \in Seq(Range(new))
    BY PathAssumption DEF Paths
  <1>3. SubSeq(old, Len(old) + 1, Len(old)) = <<>>
    BY ONLY <1>2
  <1>4. new \o <<>> = new
    BY ONLY <1>2
  <1>. QED BY <1>1, <1>3, <1>4 DEF Relocated

(* A path stays a file, or a directory, when it is relocated.              *)
LEMMA RelocatedIn ==
  ASSUME NEW old, NEW new, Carries(old, new), NEW p \in Paths
  PROVE  /\ p \in Files => Relocated(p, old, new) \in Files
         /\ p \in Directories => Relocated(p, old, new) \in Directories
  <1>1. CASE IsUnder(p, old)
    BY <1>1, PathAssumption DEF Carries, Paths
  <1>2. CASE ~IsUnder(p, old)
    BY <1>2 DEF Relocated
  <1>. QED BY <1>1, <1>2

(* A key stays a key, of its kind.                                         *)
LEMMA RekeyedIn ==
  ASSUME NEW old, NEW new, Carries(old, new), NEW k \in Keys
  PROVE  /\ Rekeyed(k, old, new) \in Keys
         /\ Rekeyed(k, old, new).kind = k.kind
         /\ Rekeyed(k, old, new).path = Relocated(k.path, old, new)
  <1>1. CASE \E p \in Files : k = Exact(p)
    <2>1. PICK p \in Files : k = Exact(p)
      BY <1>1
    <2>2. Rekeyed(k, old, new) = Exact(Relocated(p, old, new))
      BY <2>1 DEF Rekeyed, Exact
    <2>3. Relocated(p, old, new) \in Files
      BY RelocatedIn DEF Paths
    <2>. QED BY <2>1, <2>2, <2>3 DEF Keys, Exact
  <1>2. CASE \E p \in Directories : k \in {Dir(p), Asset(p)}
    <2>1. PICK p \in Directories : k \in {Dir(p), Asset(p)}
      BY <1>2
    <2>2. Relocated(p, old, new) \in Directories
      BY RelocatedIn DEF Paths
    <2>3. CASE k = Dir(p)
      <3>1. Rekeyed(k, old, new) = Dir(Relocated(p, old, new))
        BY <2>3 DEF Rekeyed, Dir
      <3>. QED BY <2>2, <2>3, <3>1 DEF Keys, Dir
    <2>4. CASE k = Asset(p)
      <3>1. Rekeyed(k, old, new) = Asset(Relocated(p, old, new))
        BY <2>4 DEF Rekeyed, Asset
      <3>. QED BY <2>2, <2>4, <3>1 DEF Keys, Asset
    <2>. QED BY <2>1, <2>3, <2>4
  <1>. QED BY <1>1, <1>2 DEF Keys

(* Ledgers that meet are one with some of their origins; with all of them  *)
(* when every one is active.                                               *)
LEMMA MergeIs ==
  ASSUME NEW ls, ls # {}, \A l \in ls : LedgerOK(l)
  PROVE  /\ LedgerOK(Merge(ls))
         /\ \A o \in Merge(ls).origins : \E l \in ls : o \in l.origins
         /\ (\A l \in ls : l.active) =>
               Merge(ls).active /\ \A l \in ls : l.origins \subseteq Merge(ls).origins
  <1>. DEFINE live == {l \in ls : l.active}
              from == IF live # {} THEN live ELSE ls
              all == UNION {l.origins : l \in from}
  <1>1. Merge(ls) = [active |-> live # {}, origins |-> all]
    BY DEF Merge
  <1>2. from # {} /\ from \subseteq ls
    OBVIOUS
  <1>3. (\A l \in ls : l.active) => live = ls /\ from = ls
    OBVIOUS
  <1>4. (live # {}) \in BOOLEAN
    OBVIOUS
  <1>5. live \subseteq ls
    OBVIOUS
  <1>. HIDE DEF live, from
  <1>6. all # {}
    BY <1>2 DEF LedgerOK
  <1>7. \A o : o \in all <=> \E l \in from : o \in l.origins
    OBVIOUS
  <1>. HIDE DEF all
  <1>8. LedgerOK(Merge(ls))
    BY <1>1, <1>4, <1>6 DEF LedgerOK
  <1>9. Merge(ls).origins = all /\ Merge(ls).active = (live # {})
    BY <1>1
  <1>. QED BY <1>2, <1>3, <1>7, <1>8, <1>9

LEMMA MovedWorkspace ==
  ASSUME NEW w, w = [root |-> w.root, identity |-> w.identity], NEW r, NEW v,
         v = [w EXCEPT !.root = r]
  PROVE  v.root = r /\ v.identity = w.identity /\ v = [root |-> v.root, identity |-> v.identity]
  OBVIOUS

(* Every origin goes to the key its own was moved to, and a directory      *)
(* keeps all of its.                                                       *)
LEMMA MovedGrantsAre ==
  ASSUME NEW a, AuthOK(a), NEW old, NEW new, Carries(old, new),
         NEW h, h = MovedGrants(a.grants, old, new)
  PROVE  /\ DOMAIN h = {Rekeyed(x, old, new) : x \in DOMAIN a.grants}
         /\ \A k \in DOMAIN h :
               /\ k \in Keys
               /\ LedgerOK(h[k])
               /\ k.kind = "directory" => h[k].active
               /\ \A o \in h[k].origins :
                     \E x \in DOMAIN a.grants :
                        k = Rekeyed(x, old, new) /\ o \in a.grants[x].origins
         /\ \A x \in DOMAIN a.grants :
               x.kind = "directory" =>
                  a.grants[x].origins \subseteq h[Rekeyed(x, old, new)].origins
  <1>. DEFINE g == a.grants
              from(k) == {y \in DOMAIN g : Rekeyed(y, old, new) = k}
              at(k) == {g[x] : x \in from(k)}
  <1>1. DOMAIN g \subseteq Keys /\ \A x \in DOMAIN g : /\ LedgerOK(g[x])
                                                       /\ x.kind = "directory" => g[x].active
    BY DEF AuthOK, LedgersOK
  <1>2. DOMAIN h = {Rekeyed(x, old, new) : x \in DOMAIN g}
    BY DEF MovedGrants
  <1>3. \A k \in DOMAIN h : h[k] = Merge(at(k))
    BY DEF MovedGrants
  <1>. HIDE DEF g
  <1>4. ASSUME NEW k \in DOMAIN h
        PROVE  /\ k \in Keys /\ at(k) # {}
               /\ \A l \in at(k) : LedgerOK(l)
               /\ k.kind = "directory" => \A l \in at(k) : l.active
    <2>1. PICK x \in DOMAIN g : k = Rekeyed(x, old, new)
      BY <1>2
    <2>2. k \in Keys
      BY <1>1, <2>1, RekeyedIn
    <2>3. \A y \in from(k) : y \in DOMAIN g /\ y.kind = k.kind
      BY <1>1, RekeyedIn
    <2>4. g[x] \in at(k)
      BY <2>1
    <2>5. \A l \in at(k) : \E y \in from(k) : l = g[y]
      OBVIOUS
    <2>. HIDE DEF from, at
    <2>. QED BY <1>1, <2>2, <2>3, <2>4, <2>5
  <1>5. ASSUME NEW k \in DOMAIN h
        PROVE  /\ LedgerOK(h[k])
               /\ k.kind = "directory" =>
                     h[k].active /\ \A l \in at(k) : l.origins \subseteq h[k].origins
               /\ \A o \in h[k].origins : \E l \in at(k) : o \in l.origins
    <2>1. h[k] = Merge(at(k))
      BY <1>3
    <2>. HIDE DEF at
    <2>. QED BY <1>4, <2>1, MergeIs
  <1>6. ASSUME NEW k \in DOMAIN h, NEW o \in h[k].origins
        PROVE  \E x \in DOMAIN g : k = Rekeyed(x, old, new) /\ o \in g[x].origins
    BY <1>5
  <1>7. ASSUME NEW x \in DOMAIN g, x.kind = "directory"
        PROVE  g[x].origins \subseteq h[Rekeyed(x, old, new)].origins
    <2>1. PICK k : k = Rekeyed(x, old, new)
      OBVIOUS
    <2>2. k \in DOMAIN h /\ k.kind = "directory" /\ g[x] \in at(k)
      BY <1>1, <1>2, <1>7, <2>1, RekeyedIn
    <2>. HIDE DEF at
    <2>. QED BY <1>5, <2>1, <2>2
  <1>. HIDE DEF from, at
  <1>. QED BY <1>2, <1>4, <1>5, <1>6, <1>7 DEF g

(* A path prefix relocated: a workspace's origins are at its new root.     *)
LEMMA MoveChanged ==
  ASSUME NEW a, NEW b, NEW documents, NEW roots, Sound(a, documents, roots),
         NEW old, NEW new, Carries(old, new), Fields(b),
         b.generation = a.generation + 1,
         b.grants = MovedGrants(a.grants, old, new),
         b.workspaces = MovedWorkspaces(a.workspaces, old, new),
         b.documentWorkspace = a.documentWorkspace,
         DOMAIN a.identity \subseteq DOMAIN b.identity, IdentitiesOK(b),
         b.pendingSaves = a.pendingSaves, b.pendingRoots = a.pendingRoots,
         b.nextToken = a.nextToken, b.nextDocument = a.nextDocument,
         b.nextLease = a.nextLease
  PROVE  Changed(a, b, documents, roots)
  <1>. DEFINE g == a.grants
              h == b.grants
              w == b.workspaces
  <1>1. AuthOK(a) /\ CountersOK(a) /\ CountersOK(b) /\ a.generation \in Nat
    BY SoundCounts DEF CountersOK
  <1>2. /\ DOMAIN h = {Rekeyed(x, old, new) : x \in DOMAIN g}
        /\ \A k \in DOMAIN h :
               /\ k \in Keys
               /\ LedgerOK(h[k])
               /\ k.kind = "directory" => h[k].active
               /\ \A o \in h[k].origins :
                     \E x \in DOMAIN g : k = Rekeyed(x, old, new) /\ o \in g[x].origins
        /\ \A x \in DOMAIN g :
               x.kind = "directory" => g[x].origins \subseteq h[Rekeyed(x, old, new)].origins
    BY <1>1, MovedGrantsAre
  <1>3. /\ DOMAIN w = DOMAIN a.workspaces
        /\ \A t \in DOMAIN w :
              /\ w[t].root = Relocated(a.workspaces[t].root, old, new)
              /\ w[t].root \in Directories
              /\ w[t].identity = a.workspaces[t].identity
              /\ w[t] = [root |-> w[t].root, identity |-> w[t].identity]
    <2>1. DOMAIN w = DOMAIN a.workspaces
      BY DEF MovedWorkspaces
    <2>2. ASSUME NEW t \in DOMAIN w
          PROVE  /\ w[t].root = Relocated(a.workspaces[t].root, old, new)
                 /\ w[t].root \in Directories
                 /\ w[t].identity = a.workspaces[t].identity
                 /\ w[t] = [root |-> w[t].root, identity |-> w[t].identity]
      <3>1. PICK v : v = a.workspaces[t]
        OBVIOUS
      <3>2. v = [root |-> v.root, identity |-> v.identity] /\ v.root \in Directories
        BY <1>1, <2>1, <3>1 DEF AuthOK, WorkspacesOK
      <3>3. PICK r : r = Relocated(v.root, old, new)
        OBVIOUS
      <3>4. w[t] = [v EXCEPT !.root = r]
        BY <2>1, <3>1, <3>3 DEF MovedWorkspaces
      <3>5. r \in Directories
        BY <3>2, <3>3, RelocatedIn DEF Paths
      <3>. HIDE DEF w
      <3>6. w[t].root = r /\ w[t].identity = v.identity
            /\ w[t] = [root |-> w[t].root, identity |-> w[t].identity]
        BY ONLY <3>2, <3>4, MovedWorkspace
      <3>. QED BY <3>1, <3>3, <3>5, <3>6
    <2>. QED BY <2>1, <2>2
  <1>. HIDE DEF g, h, w
  <1>4. \A o : OriginOK(a, o) => OriginOK(b, o)
    BY DEF OriginOK
  <1>5. DOMAIN g \subseteq Keys /\ \A x \in DOMAIN g : \A o \in g[x].origins : OriginOK(a, o)
    BY <1>1 DEF AuthOK, LedgersOK, g
  <1>6. LedgersOK(b)
    BY <1>2, <1>4, <1>5 DEF LedgersOK, h
  <1>7. WorkspacesOK(b) /\ IsChosen(b, roots)
    BY <1>1, <1>3 DEF AuthOK, WorkspacesOK, IsChosen, Sound, w
  <1>8. FollowsRoots(b)
    <2>1. ASSUME NEW t \in DOMAIN w
          PROVE  Dir(w[t].root) \in DOMAIN h /\ Workspace(t) \in h[Dir(w[t].root)].origins
      <3>1. PICK k : k = Dir(a.workspaces[t].root)
        OBVIOUS
      <3>2. k \in DOMAIN g /\ Workspace(t) \in g[k].origins
        BY <1>3, <3>1 DEF Sound, FollowsRoots, g
      <3>3. k.kind = "directory" /\ Rekeyed(k, old, new) = Dir(w[t].root)
        <4>1. PICK p : p = a.workspaces[t].root
          OBVIOUS
        <4>2. k = Dir(p) /\ w[t].root = Relocated(p, old, new)
          BY <1>3, <3>1, <4>1
        <4>. QED BY ONLY <4>2 DEF Dir, Rekeyed
      <3>. QED BY <1>2, <3>2, <3>3
    <2>2. ASSUME NEW k \in DOMAIN h, NEW o \in h[k].origins, o.kind = "workspace"
          PROVE  o.id \in DOMAIN w /\ k.path = w[o.id].root
      <3>1. PICK x \in DOMAIN g : k = Rekeyed(x, old, new) /\ o \in g[x].origins
        BY <1>2
      <3>2. o.id \in DOMAIN a.workspaces /\ x.path = a.workspaces[o.id].root
        BY <2>2, <3>1 DEF Sound, FollowsRoots, g
      <3>3. k.path = Relocated(x.path, old, new)
        BY <1>5, <3>1, RekeyedIn
      <3>. QED BY <1>3, <3>2, <3>3
    <2>. QED BY <2>1, <2>2 DEF FollowsRoots, h, w
  <1>9. StaysBound(b, documents)
    <2>1. ASSUME NEW k \in DOMAIN h, NEW o \in h[k].origins,
                 o.kind = "open", o.id \in documents
          PROVE  o.id \in DOMAIN b.documentWorkspace \cap DOMAIN b.identity
      <3>1. PICK x \in DOMAIN g : o \in g[x].origins
        BY <1>2
      <3>. QED BY <2>1, <3>1 DEF Sound, StaysBound, g
    <2>. QED BY <2>1 DEF StaysBound, h
  <1>10. Sound(b, documents, roots)
    BY <1>1, <1>6, <1>7, <1>8, <1>9 DEF Sound, AuthOK
  <1>. QED BY <1>1, <1>3, <1>10 DEF Changed, After, w

(* relocate_path_prefix_with_identity.                                     *)
LEMMA RelocateChanged ==
  ASSUME NEW a, NEW object, NEW documents, NEW roots, Sound(a, documents, roots),
         NEW old, NEW new, Carries(old, new)
  PROVE  Changed(a, RelocatePrefix(a, old, new, object), documents, roots)
  <1>. DEFINE unbound == {i \in 1..a.nextDocument :
                            /\ object # 0 /\ i \notin DOMAIN a.identity
                            /\ \E k \in Suspendable(a, {old}) :
                                  k.kind = "exact" /\ Open(i) \in a.grants[k].origins}
              b == RevokeOrigins(a, LeasesTouching(a, {old, new}))
              changes == \/ \E t \in DOMAIN a.workspaces : IsUnder(a.workspaces[t].root, old)
                         \/ \E k \in DOMAIN a.grants : IsUnder(k.path, old)
                         \/ \E l \in Leases(a) : Intersects(l, old) \/ Intersects(l, new)
              w == MovedWorkspaces(b.workspaces, old, new)
              g == MovedGrants(b.grants, old, new)
              n == [i \in DOMAIN b.identity \cup unbound |->
                      IF i \in unbound THEN object ELSE b.identity[i]]
              c == [b EXCEPT !.generation = b.generation + 1, !.workspaces = w,
                             !.grants = g, !.identity = n]
  <1>1. RelocatePrefix(a, old, new, object) = IF ~changes THEN a ELSE c
    BY DEF RelocatePrefix
  <1>2. unbound \subseteq Ids(a)
    <2>1. ASSUME NEW i \in unbound
          PROVE  i \in Ids(a)
      <3>1. PICK k \in DOMAIN a.grants : Open(i) \in a.grants[k].origins
        BY DEF Suspendable
      <3>2. OriginOK(a, Open(i))
        BY <3>1 DEF Sound, AuthOK, LedgersOK
      <3>. QED BY <3>2, OriginKinds, OriginsApart DEF Ids
    <2>. QED BY <2>1
  <1>3. DOMAIN n = DOMAIN b.identity \cup unbound
    OBVIOUS
  <1>4. Changed(a, b, documents, roots)
    BY RevokeChanged
  <1>. HIDE DEF b, unbound, changes, n, g, w
  <1>5. Sound(b, documents, roots) /\ Fields(b) /\ IdentitiesOK(b)
        /\ b.nextDocument = a.nextDocument
    BY <1>4, SoundCounts DEF Changed, After
  <1>6. /\ Fields(c)
        /\ c.grants = g /\ c.workspaces = w
        /\ c.documentWorkspace = b.documentWorkspace /\ c.identity = n
        /\ c.pendingSaves = b.pendingSaves /\ c.pendingRoots = b.pendingRoots
        /\ c.generation = b.generation + 1 /\ c.nextToken = b.nextToken
        /\ c.nextDocument = b.nextDocument /\ c.nextLease = b.nextLease
    <2>1. c = [b EXCEPT !.generation = b.generation + 1, !.workspaces = w,
                        !.grants = g, !.identity = n]
      OBVIOUS
    <2>. HIDE DEF c
    <2>. QED BY ONLY <1>5, <2>1 DEF Fields
  <1>. HIDE DEF c
  <1>7. IdentitiesOK(c)
    BY <1>2, <1>3, <1>5, <1>6 DEF IdentitiesOK, Ids
  <1>8. Changed(b, c, documents, roots)
    BY <1>3, <1>5, <1>6, <1>7, MoveChanged DEF g, w
  <1>9. Changed(a, c, documents, roots)
    BY <1>4, <1>8, ChangedTransitive
  <1>. QED BY <1>1, <1>9, ChangedReflexive

(* A path prefix revoked, before the previews that lose their support.     *)
RevokedPrefix(a, p) ==
    LET touched == {k \in DOMAIN a.grants : IsUnder(k.path, p)}
        os == UNION {a.grants[k].origins : k \in touched} \cup LeasesTouching(a, {p})
        b == RevokeOrigins(a, os)
    IN  [b EXCEPT !.generation = @ + 1,
                  !.workspaces = Restrict(@, {t \in DOMAIN @ : ~IsUnder(@[t].root, p)})]

(* No workspace is left below it whose root was not taken from the ledgers *)
(* already.                                                                *)
LEMMA RevokedPrefixChanged ==
  ASSUME NEW a, NEW p, NEW documents, NEW roots, Sound(a, documents, roots)
  PROVE  Changed(a, RevokedPrefix(a, p), documents, roots)
  <1>. DEFINE touched == {k \in DOMAIN a.grants : IsUnder(k.path, p)}
              os == UNION {a.grants[k].origins : k \in touched} \cup LeasesTouching(a, {p})
              b == RevokeOrigins(a, os)
              w == Restrict(b.workspaces, {t \in DOMAIN b.workspaces :
                                             ~IsUnder(b.workspaces[t].root, p)})
              c == [b EXCEPT !.generation = b.generation + 1, !.workspaces = w]
  <1>1. RevokedPrefix(a, p) = c
    BY DEF RevokedPrefix
  <1>2. /\ Sound(b, documents, roots)
        /\ b.workspaces = [t \in DOMAIN b.workspaces |-> b.workspaces[t]]
        /\ DOMAIN b.workspaces \subseteq DOMAIN a.workspaces
        /\ \A t \in DOMAIN b.workspaces :
              Workspace(t) \notin os /\ b.workspaces[t] = a.workspaces[t]
    <2>. HIDE DEF os
    <2>1. /\ Sound(b, documents, roots)
          /\ DOMAIN b.workspaces \subseteq DOMAIN a.workspaces
          /\ \A t \in DOMAIN b.workspaces :
                Workspace(t) \notin os /\ b.workspaces[t] = a.workspaces[t]
      BY RevokeSound
    <2>2. Fields(a)
      BY SoundCounts
    <2>. QED BY <2>1, <2>2, RevokedWorkspaces
  <1>3. ASSUME NEW t \in DOMAIN b.workspaces
        PROVE  ~IsUnder(b.workspaces[t].root, p)
    <2>1. /\ t \in DOMAIN a.workspaces /\ Workspace(t) \notin os
          /\ b.workspaces[t] = a.workspaces[t]
      <3>. HIDE DEF os, b
      <3>. QED BY <1>2
    <2>2. PICK k : k = Dir(a.workspaces[t].root)
      OBVIOUS
    <2>3. k \in DOMAIN a.grants /\ Workspace(t) \in a.grants[k].origins
      BY <2>1, <2>2 DEF Sound, FollowsRoots
    <2>4. k.path = a.workspaces[t].root
      BY <2>2 DEF Dir
    <2>5. k \notin touched
      BY <2>1, <2>3
    <2>. QED BY <2>1, <2>3, <2>4, <2>5
  <1>4. w = b.workspaces
    <2>. HIDE DEF os, b
    <2>. QED BY <1>2, <1>3 DEF Restrict
  <1>5. Changed(a, b, documents, roots)
    BY RevokeChanged
  <1>. HIDE DEF b, w
  <1>6. c = [b EXCEPT !.generation = b.generation + 1]
    <2>1. Fields(b)
      BY <1>2, SoundCounts
    <2>. QED BY ONLY <2>1, <1>4 DEF Fields, c
  <1>. HIDE DEF c
  <1>7. Changed(b, c, documents, roots)
    BY <1>2, <1>6, BumpChanged
  <1>8. Changed(a, c, documents, roots)
    BY <1>5, <1>7, ChangedTransitive
  <1>. QED BY <1>1, <1>8

(* revoke_path_prefix.                                                     *)
LEMMA RevokePrefixChanged ==
  ASSUME NEW a, NEW fs, NEW p, NEW documents, NEW roots, Sound(a, documents, roots)
  PROVE  Changed(a, RevokePrefix(a, fs, p), documents, roots)
  <1>. DEFINE changes == \/ \E k \in DOMAIN a.grants : IsUnder(k.path, p)
                         \/ \E t \in DOMAIN a.workspaces : IsUnder(a.workspaces[t].root, p)
                         \/ \E l \in Leases(a) : Intersects(l, p)
              c == RevokedPrefix(a, p)
              d == RevokeOrigins(c, {l \in Leases(c) : ~LeaseIsSupported(c, fs, l)})
  <1>1. RevokePrefix(a, fs, p) = IF ~changes THEN a ELSE d
    BY DEF RevokePrefix, RevokedPrefix
  <1>2. Changed(a, c, documents, roots)
    BY RevokedPrefixChanged
  <1>. HIDE DEF c, changes
  <1>3. Changed(c, d, documents, roots)
    BY <1>2, RevokeChanged DEF Changed
  <1>. HIDE DEF d
  <1>4. Changed(a, d, documents, roots)
    BY <1>2, <1>3, ChangedTransitive
  <1>. QED BY <1>1, <1>4, ChangedReflexive

(* retire_preview_leases.                                                  *)
LEMMA RevokeNewerChanged ==
  ASSUME NEW a, NEW os, NEW documents, NEW roots, Sound(a, documents, roots)
  PROVE  Changed(a, [RevokeOrigins(a, os) EXCEPT !.generation = @ + 1], documents, roots)
  <1>. DEFINE b == RevokeOrigins(a, os)
              c == [b EXCEPT !.generation = b.generation + 1]
  <1>1. Changed(a, b, documents, roots)
    BY RevokeChanged
  <1>. HIDE DEF b
  <1>2. Changed(b, c, documents, roots)
    BY <1>1, BumpChanged DEF Changed
  <1>. HIDE DEF c
  <1>3. Changed(a, c, documents, roots)
    BY <1>1, <1>2, ChangedTransitive
  <1>. QED BY <1>3 DEF b, c

(* A save bound the documents of its file to what it wrote.                *)
LEMMA SettleSound ==
  ASSUME NEW a, NEW ids, NEW object, NEW generation \in Nat, NEW documents, NEW roots,
         Sound(a, documents, roots)
  PROVE  LET b == Settle(a, ids, object, generation)
         IN  /\ Sound(b, documents, roots)
             /\ b.generation \in {a.generation, generation}
             /\ b.grants = a.grants /\ b.workspaces = a.workspaces
             /\ b.pendingSaves = a.pendingSaves /\ b.pendingRoots = a.pendingRoots
             /\ b.nextToken = a.nextToken /\ b.nextDocument = a.nextDocument
             /\ b.nextLease = a.nextLease
  <1>. DEFINE n == [i \in DOMAIN a.identity |-> IF i \in ids THEN object ELSE a.identity[i]]
              b == [a EXCEPT !.generation = generation, !.identity = n]
  <1>1. \/ Settle(a, ids, object, generation) = a
        \/ Settle(a, ids, object, generation) = b
    BY DEF Settle
  <1>2. DOMAIN n = DOMAIN a.identity
    OBVIOUS
  <1>. HIDE DEF n
  <1>3. Fields(a)
    BY SoundCounts
  <1>4. /\ Fields(b)
        /\ b.grants = a.grants /\ b.workspaces = a.workspaces
        /\ b.documentWorkspace = a.documentWorkspace /\ b.identity = n
        /\ b.pendingSaves = a.pendingSaves /\ b.pendingRoots = a.pendingRoots
        /\ b.generation = generation /\ b.nextToken = a.nextToken
        /\ b.nextDocument = a.nextDocument /\ b.nextLease = a.nextLease
    <2>1. b = [a EXCEPT !.generation = generation, !.identity = n]
      OBVIOUS
    <2>. HIDE DEF b
    <2>. QED BY ONLY <1>3, <2>1 DEF Fields
  <1>. HIDE DEF b
  <1>5. CountersOK(b) /\ IdentitiesOK(b)
    BY <1>2, <1>4, SoundCounts DEF CountersOK, IdentitiesOK, Ids
  <1>6. b.nextToken >= a.nextToken /\ b.nextDocument >= a.nextDocument
        /\ b.nextLease >= a.nextLease
    BY <1>4, SoundCounts
  <1>7. Sound(b, documents, roots)
    BY <1>2, <1>4, <1>5, <1>6, AdvanceSound
  <1>. QED BY <1>1, <1>4, <1>7

-------------------------------------------------------------------------------
(* The invariant of the session.                                           *)

(* A root that awaits its settlement is the one its user selected, and no  *)
(* workspace has its token yet.                                            *)
PendingOK ==
    \A t \in DOMAIN auth.pendingRoots :
        /\ t \in 1..(auth.nextToken - 1) /\ t \notin DOMAIN auth.workspaces
        /\ auth.pendingRoots[t].root \in Directories
        /\ t \in DOMAIN chosen /\ auth.pendingRoots[t].identity = chosen[t]

NumbersOK ==
    /\ DOMAIN chosen \subseteq 1..(auth.nextToken - 1)
    /\ bound \subseteq Ids(auth)

(* At most one save-as is reserved, and nobody holds a newer generation    *)
(* than the session's.                                                     *)
SavesOK ==
    /\ \A h \in held : /\ h.path \in Files /\ h.id \in Ids(auth)
                       /\ h.generation \in Nat /\ h.generation <= auth.generation
    /\ DOMAIN auth.pendingSaves \subseteq Ids(auth)
    /\ \A i, j \in DOMAIN auth.pendingSaves : i = j
    /\ FreshKeysStayFree

TouchedOK ==
    /\ \A r \in receipts : r.path \in Files
    /\ \A w \in watched : w.path \in Files
    /\ renaming # NoRename => renaming \in Renamings /\ <<renaming.old, renaming.new>> \in Moves

AuthInv == Sound(auth, bound, chosen) /\ PendingOK /\ NumbersOK /\ SavesOK

SessionInv == AuthInv /\ TouchedOK

LEMMA InitInv ==
  ASSUME Init
  PROVE  SessionInv
  <1>1. /\ auth.grants = <<>> /\ auth.workspaces = <<>> /\ auth.documentWorkspace = <<>>
        /\ auth.identity = <<>> /\ auth.pendingSaves = <<>> /\ auth.pendingRoots = <<>>
        /\ auth.generation = 0 /\ auth.nextToken = 1 /\ auth.nextDocument = 1
        /\ auth.nextLease = 1 /\ Fields(auth)
        /\ held = {} /\ chosen = <<>> /\ bound = {}
    BY DEF Init, Fields
  <1>2. DOMAIN <<>> = {}
    OBVIOUS
  <1>3. AuthOK(auth)
    BY <1>1, <1>2 DEF AuthOK, CountersOK, LedgersOK, WorkspacesOK, IdentitiesOK
  <1>4. FollowsRoots(auth) /\ StaysBound(auth, bound) /\ IsChosen(auth, chosen)
    BY <1>1, <1>2 DEF FollowsRoots, StaysBound, IsChosen
  <1>5. PendingOK /\ NumbersOK /\ SavesOK
    BY <1>1, <1>2 DEF PendingOK, NumbersOK, SavesOK, FreshKeysStayFree
  <1>6. TouchedOK
    BY DEF Init, TouchedOK
  <1>. QED BY <1>3, <1>4, <1>5, <1>6 DEF SessionInv, AuthInv, Sound

(* No reservation is taken and no ledger inserted, or the generation moves *)
(* on.                                                                     *)
LEMMA SavesKept ==
  ASSUME SavesOK, held' \subseteq held, auth.generation \in Nat, auth'.generation \in Nat,
         auth.nextDocument \in Nat, auth'.nextDocument \in Nat,
         auth'.nextDocument >= auth.nextDocument,
         auth'.generation >= auth.generation,
         auth'.generation = auth.generation =>
            DOMAIN auth'.grants \subseteq DOMAIN auth.grants,
         DOMAIN auth'.pendingSaves \subseteq DOMAIN auth.pendingSaves,
         \A i \in DOMAIN auth'.pendingSaves : auth'.pendingSaves[i] = auth.pendingSaves[i]
  PROVE  SavesOK'
  <1>1. Ids(auth) \subseteq Ids(auth)'
    BY DEF Ids
  <1>2. \A h \in held' : /\ h.path \in Files /\ h.id \in Ids(auth)'
                         /\ h.generation \in Nat /\ h.generation <= auth'.generation
    BY <1>1 DEF SavesOK
  <1>3. /\ DOMAIN auth'.pendingSaves \subseteq Ids(auth)'
        /\ \A i, j \in DOMAIN auth'.pendingSaves : i = j
    BY <1>1 DEF SavesOK
  <1>4. ASSUME NEW h \in held', MatchesPending(auth, h)'
        PROVE  auth'.pendingSaves[h.id].fresh \cap DOMAIN auth'.grants = {}
    <2>1. /\ h \in held /\ h.id \in DOMAIN auth'.pendingSaves
          /\ auth'.pendingSaves[h.id].path = h.path /\ h.generation = auth'.generation
      BY <1>4 DEF MatchesPending
    <2>2. auth'.generation = auth.generation
      BY <2>1 DEF SavesOK
    <2>3. MatchesPending(auth, h)
      BY <2>1, <2>2 DEF MatchesPending
    <2>. QED BY <2>1, <2>2, <2>3 DEF SavesOK, FreshKeysStayFree
  <1>. QED BY <1>2, <1>3, <1>4 DEF SavesOK, FreshKeysStayFree

(* What takes or moves authority keeps the invariant.                      *)
LEMMA ChangedKeeps ==
  ASSUME AuthInv, Changed(auth, auth', bound, chosen), held' \subseteq held,
         bound' = bound, chosen' = chosen
  PROVE  AuthInv' /\ DOMAIN auth'.pendingRoots \subseteq DOMAIN auth.pendingRoots
  <1>1. Sound(auth, bound, chosen)'
    BY DEF Changed
  <1>2. PendingOK'
    BY DEF AuthInv, PendingOK, Changed, After
  <1>3. NumbersOK'
    BY DEF AuthInv, NumbersOK, Changed, After, Ids
  <1>4. SavesOK'
    <2>1. /\ auth.generation \in Nat /\ auth'.generation \in Nat
          /\ auth.nextDocument \in Nat /\ auth'.nextDocument \in Nat
      BY SoundCounts DEF AuthInv, Changed
    <2>. QED BY <2>1, SavesKept DEF AuthInv, Changed, After
  <1>. QED BY <1>1, <1>2, <1>3, <1>4 DEF AuthInv, Changed, After

LEMMA SameKeeps ==
  ASSUME AuthInv, auth' = auth, held' \subseteq held, bound' = bound, chosen' = chosen
  PROVE  AuthInv' /\ DOMAIN auth'.pendingRoots \subseteq DOMAIN auth.pendingRoots
  <1>1. Changed(auth, auth', bound, chosen)
    BY ChangedReflexive DEF AuthInv
  <1>. QED BY <1>1, ChangedKeeps

-------------------------------------------------------------------------------
(* The steps that take authority or move it.                               *)

LEMMA RenameKeeps ==
  ASSUME AuthInv, NEW t, NEW m \in Moves, Rename(t, m[1], m[2])
  PROVE  AuthInv' /\ DOMAIN auth'.pendingRoots \subseteq DOMAIN auth.pendingRoots
  <1>1. Changed(auth, auth', bound, chosen)
    <2>1. CASE auth' = RelocatePrefix(auth, m[1], m[2], 0)
      BY <2>1, MovesCarry, RelocateChanged DEF AuthInv
    <2>2. CASE auth' = SuspendRename(auth, {m[1], m[2]})
      BY <2>2, SuspendRenameChanged DEF AuthInv
    <2>. QED BY <2>1, <2>2 DEF Rename, Become
  <1>. QED BY <1>1, ChangedKeeps DEF Rename, hist

LEMMA ReconcileKeeps ==
  ASSUME AuthInv, TouchedOK, ReconcileRename
  PROVE  AuthInv' /\ DOMAIN auth'.pendingRoots \subseteq DOMAIN auth.pendingRoots
  <1>. DEFINE old == renaming.old
              new == renaming.new
              restored == RestoreRename(auth, renaming.transitioned)
  <1>1. Carries(old, new)
    <2>1. PICK m : m = <<renaming.old, renaming.new>>
      OBVIOUS
    <2>2. m \in Moves /\ m[1] = old /\ m[2] = new
      BY <2>1 DEF TouchedOK, ReconcileRename
    <2>. QED BY <2>2, MovesCarry
  <1>2. Changed(auth, restored, bound, chosen)
    BY RestoreChanged DEF AuthInv
  <1>3. \/ auth' = restored
        \/ auth' = RelocatePrefix(restored, old, new, 0)
        \/ auth' = FinalizeRename(auth, {old, new})
    BY DEF ReconcileRename, Become
  <1>. HIDE DEF restored, old, new
  <1>4. Changed(auth, auth', bound, chosen)
    <2>1. CASE auth' = restored
      BY <1>2, <2>1
    <2>2. CASE auth' = RelocatePrefix(restored, old, new, 0)
      <3>1. Changed(restored, auth', bound, chosen)
        BY <1>1, <1>2, <2>2, RelocateChanged DEF Changed
      <3>. QED BY <1>2, <3>1, ChangedTransitive DEF AuthInv
    <2>3. CASE auth' = FinalizeRename(auth, {old, new})
      BY <2>3, FinalizeRenameChanged DEF AuthInv
    <2>. QED BY <1>3, <2>1, <2>2, <2>3
  <1>. QED BY <1>4, ChangedKeeps DEF ReconcileRename, hist

LEMMA TrashKeeps ==
  ASSUME AuthInv, NEW t, NEW p, Trash(t, p)
  PROVE  AuthInv' /\ DOMAIN auth'.pendingRoots \subseteq DOMAIN auth.pendingRoots
  <1>1. Changed(auth, auth', bound, chosen)
    <2>1. CASE auth' = RevokePrefix(auth, tree', p)
      BY <2>1, RevokePrefixChanged DEF AuthInv
    <2>2. CASE auth' = SuspendDelete(auth, p)
      BY <2>2, SuspendDeleteChanged DEF AuthInv
    <2>. QED BY <2>1, <2>2 DEF Trash, Become
  <1>. QED BY <1>1, ChangedKeeps DEF Trash, hist

LEMMA WatchKeeps ==
  ASSUME AuthInv, TouchedOK, NEW w \in watched,
         WatchRevokes(w) \/ \E f \in Files : WatchFollows(w, f)
  PROVE  AuthInv' /\ DOMAIN auth'.pendingRoots \subseteq DOMAIN auth.pendingRoots
  <1>1. CASE WatchRevokes(w)
    <2>1. auth' = RevokePrefix(auth, tree, w.path)
      BY <1>1 DEF WatchRevokes, Become
    <2>2. Changed(auth, auth', bound, chosen)
      BY <2>1, RevokePrefixChanged DEF AuthInv
    <2>. QED BY <1>1, <2>2, ChangedKeeps DEF WatchRevokes, hist
  <1>2. CASE \E f \in Files : WatchFollows(w, f)
    <2>1. PICK f \in Files : WatchFollows(w, f)
      BY <1>2
    <2>2. auth' = RelocatePrefix(auth, w.path, f, w.object)
      BY <2>1 DEF WatchFollows, Become
    <2>3. Carries(w.path, f)
      BY FilesCarry DEF TouchedOK
    <2>4. Changed(auth, auth', bound, chosen)
      BY <2>2, <2>3, RelocateChanged DEF AuthInv
    <2>. QED BY <2>1, <2>4, ChangedKeeps DEF WatchFollows, hist
  <1>. QED BY <1>1, <1>2

LEMMA RetireKeeps ==
  ASSUME AuthInv, NEW l, RetirePreview(l)
  PROVE  AuthInv' /\ DOMAIN auth'.pendingRoots \subseteq DOMAIN auth.pendingRoots
  <1>1. auth' = [RevokeOrigins(auth, {l}) EXCEPT !.generation = @ + 1]
    BY DEF RetirePreview, Become
  <1>2. Changed(auth, auth', bound, chosen)
    BY <1>1, RevokeNewerChanged DEF AuthInv
  <1>. QED BY <1>2, ChangedKeeps DEF RetirePreview, hist

LEMMA SaveKeeps ==
  ASSUME AuthInv, NEW f, SaveDocument(f)
  PROVE  AuthInv' /\ DOMAIN auth'.pendingRoots \subseteq DOMAIN auth.pendingRoots
  <1>. DEFINE ids == IdentityOrigins(auth, tree, f)
              object == born + 1
              generation == auth.generation + 1
              b == Settle(auth, ids, object, generation)
  <1>1. auth' = b
    BY DEF SaveDocument, Become, Settled
  <1>2. generation \in Nat /\ auth.generation \in Nat /\ auth.generation <= generation
    BY SoundCounts DEF AuthInv
  <1>. HIDE DEF ids, object, generation
  <1>3. /\ Sound(b, bound, chosen)
        /\ b.generation \in {auth.generation, generation}
        /\ b.grants = auth.grants /\ b.workspaces = auth.workspaces
        /\ b.pendingSaves = auth.pendingSaves /\ b.pendingRoots = auth.pendingRoots
        /\ b.nextToken = auth.nextToken /\ b.nextDocument = auth.nextDocument
        /\ b.nextLease = auth.nextLease
    BY <1>2, SettleSound DEF AuthInv
  <1>. HIDE DEF b
  <1>4. Changed(auth, auth', bound, chosen)
    BY <1>1, <1>2, <1>3 DEF Changed, After
  <1>. QED BY <1>4, ChangedKeeps DEF SaveDocument, hist

-------------------------------------------------------------------------------
(* Workspaces.                                                             *)

PublishedGrants(g, t, root) == Put(Put(g, Dir(root), Workspace(t)), Asset(root), Workspace(t))

PublishedWorkspaces(w, t, root, object) ==
    [x \in DOMAIN w \cup {t} |->
       IF x = t THEN [root |-> root, identity |-> object] ELSE w[x]]

(* What publish_workspace_with_token does to each field.                   *)
LEMMA PublishIs ==
  ASSUME NEW a, Fields(a), a.generation \in Nat, NEW t, NEW root, NEW object,
         NEW b, b = PublishWorkspace(a, t, root, object)
  PROVE  /\ Fields(b)
         /\ b.grants = PublishedGrants(a.grants, t, root)
         /\ b.workspaces = PublishedWorkspaces(a.workspaces, t, root, object)
         /\ b.documentWorkspace = a.documentWorkspace /\ b.identity = a.identity
         /\ b.pendingSaves = a.pendingSaves /\ b.pendingRoots = a.pendingRoots
         /\ b.generation = a.generation + 2 /\ b.nextToken = a.nextToken
         /\ b.nextDocument = a.nextDocument /\ b.nextLease = a.nextLease
  <1>. DEFINE c == Grant(a, Dir(root), Workspace(t))
              d == Grant(c, Asset(root), Workspace(t))
              w == PublishedWorkspaces(a.workspaces, t, root, object)
              v == PublishedWorkspaces(d.workspaces, t, root, object)
  <1>1. b = [d EXCEPT !.workspaces = v]
    BY DEF PublishWorkspace, PublishedWorkspaces
  <1>2. /\ Fields(c)
        /\ c.grants = Put(a.grants, Dir(root), Workspace(t)) /\ c.workspaces = a.workspaces
        /\ c.documentWorkspace = a.documentWorkspace /\ c.identity = a.identity
        /\ c.pendingSaves = a.pendingSaves /\ c.pendingRoots = a.pendingRoots
        /\ c.generation = a.generation + 1 /\ c.nextToken = a.nextToken
        /\ c.nextDocument = a.nextDocument /\ c.nextLease = a.nextLease
    BY ONLY Fields(a), GrantIs
  <1>. HIDE DEF c
  <1>3. /\ Fields(d)
        /\ d.grants = Put(c.grants, Asset(root), Workspace(t)) /\ d.workspaces = c.workspaces
        /\ d.documentWorkspace = c.documentWorkspace /\ d.identity = c.identity
        /\ d.pendingSaves = c.pendingSaves /\ d.pendingRoots = c.pendingRoots
        /\ d.generation = c.generation + 1 /\ d.nextToken = c.nextToken
        /\ d.nextDocument = c.nextDocument /\ d.nextLease = c.nextLease
    BY ONLY <1>2, GrantIs
  <1>. HIDE DEF d
  <1>4. v = w
    BY <1>2, <1>3
  <1>5. d.grants = PublishedGrants(a.grants, t, root)
    BY <1>2, <1>3 DEF PublishedGrants
  <1>6. d.generation = a.generation + 2
    BY <1>2, <1>3
  <1>. HIDE DEF v
  <1>7. /\ Fields(b) /\ b.grants = d.grants /\ b.workspaces = v
        /\ b.documentWorkspace = d.documentWorkspace /\ b.identity = d.identity
        /\ b.pendingSaves = d.pendingSaves /\ b.pendingRoots = d.pendingRoots
        /\ b.generation = d.generation /\ b.nextToken = d.nextToken
        /\ b.nextDocument = d.nextDocument /\ b.nextLease = d.nextLease
    BY ONLY <1>1, <1>3 DEF Fields
  <1>. HIDE DEF w
  <1>8. /\ Fields(b) /\ b.grants = PublishedGrants(a.grants, t, root) /\ b.workspaces = w
        /\ b.documentWorkspace = a.documentWorkspace /\ b.identity = a.identity
        /\ b.pendingSaves = a.pendingSaves /\ b.pendingRoots = a.pendingRoots
        /\ b.generation = a.generation + 2 /\ b.nextToken = a.nextToken
        /\ b.nextDocument = a.nextDocument /\ b.nextLease = a.nextLease
    BY <1>2, <1>3, <1>4, <1>5, <1>6, <1>7
  <1>. QED BY <1>8 DEF w

(* A directory chosen in a dialog is published under a new token.          *)
LEMMA OpenDirectoryIs ==
  ASSUME AuthInv, NEW r, OpenDirectory(r)
  PROVE  /\ Fields(auth')
         /\ auth'.grants = PublishedGrants(auth.grants, auth.nextToken, r)
         /\ auth'.workspaces =
              PublishedWorkspaces(auth.workspaces, auth.nextToken, r, tree[r])
         /\ auth'.documentWorkspace = auth.documentWorkspace
         /\ auth'.identity = auth.identity
         /\ auth'.pendingSaves = auth.pendingSaves /\ auth'.pendingRoots = auth.pendingRoots
         /\ auth'.generation = auth.generation + 2 /\ auth'.nextToken = auth.nextToken + 1
         /\ auth'.nextDocument = auth.nextDocument /\ auth'.nextLease = auth.nextLease
  <1>. DEFINE t == auth.nextToken
              a == PublishWorkspace(auth, t, r, tree[r])
              w == PublishedWorkspaces(auth.workspaces, t, r, tree[r])
              g == PublishedGrants(auth.grants, t, r)
  <1>1. auth' = [a EXCEPT !.nextToken = a.nextToken + 1]
    BY DEF OpenDirectory, Become
  <1>2. Fields(auth) /\ auth.generation \in Nat
    BY SoundCounts DEF AuthInv
  <1>3. /\ Fields(a) /\ a.grants = g /\ a.workspaces = w
        /\ a.documentWorkspace = auth.documentWorkspace /\ a.identity = auth.identity
        /\ a.pendingSaves = auth.pendingSaves /\ a.pendingRoots = auth.pendingRoots
        /\ a.generation = auth.generation + 2 /\ a.nextToken = auth.nextToken
        /\ a.nextDocument = auth.nextDocument /\ a.nextLease = auth.nextLease
    BY <1>2, PublishIs
  <1>. HIDE DEF a, w, g
  <1>4. PICK b : b = auth'
    OBVIOUS
  <1>5. b = [a EXCEPT !.nextToken = a.nextToken + 1]
    BY <1>1, <1>4
  <1>6. /\ Fields(b) /\ b.grants = a.grants /\ b.workspaces = a.workspaces
        /\ b.documentWorkspace = a.documentWorkspace /\ b.identity = a.identity
        /\ b.pendingSaves = a.pendingSaves /\ b.pendingRoots = a.pendingRoots
        /\ b.generation = a.generation /\ b.nextToken = a.nextToken + 1
        /\ b.nextDocument = a.nextDocument /\ b.nextLease = a.nextLease
    BY ONLY <1>3, <1>5 DEF Fields
  <1>. QED BY <1>3, <1>4, <1>6 DEF w, g

LEMMA OpenDirectoryKeeps ==
  ASSUME AuthInv, NEW r \in Roots, OpenDirectory(r)
  PROVE  AuthInv' /\ DOMAIN auth'.pendingRoots \subseteq DOMAIN auth.pendingRoots
  <1>. DEFINE t == auth.nextToken
              w == PublishedWorkspaces(auth.workspaces, t, r, tree[r])
  <1>2. /\ Fields(auth) /\ CountersOK(auth) /\ auth.generation \in Nat
        /\ t \in Nat \ {0} /\ auth.nextDocument \in Nat
    BY SoundCounts DEF AuthInv
  <1>4. chosen' = [x \in DOMAIN chosen \cup {t} |-> IF x = t THEN tree[r] ELSE chosen[x]]
    BY DEF OpenDirectory, Chosen
  <1>5. /\ Fields(auth')
        /\ auth'.grants = PublishedGrants(auth.grants, t, r)
        /\ auth'.workspaces = w
        /\ auth'.documentWorkspace = auth.documentWorkspace
        /\ auth'.identity = auth.identity
        /\ auth'.pendingSaves = auth.pendingSaves /\ auth'.pendingRoots = auth.pendingRoots
        /\ auth'.generation = auth.generation + 2 /\ auth'.nextToken = t + 1
        /\ auth'.nextDocument = auth.nextDocument /\ auth'.nextLease = auth.nextLease
    BY OpenDirectoryIs
  <1>. HIDE DEF w, t
  <1>6. t = auth.nextToken
    BY DEF t
  <1>7. CountersOK(auth') /\ t \in 1..(auth'.nextToken - 1)
        /\ auth'.nextToken >= auth.nextToken
    BY <1>2, <1>5, <1>6 DEF CountersOK
  <1>8. /\ t \notin DOMAIN auth.workspaces /\ t \notin DOMAIN chosen
        /\ t \notin DOMAIN auth.pendingRoots
    BY <1>2, <1>6 DEF AuthInv, Sound, AuthOK, WorkspacesOK, NumbersOK, PendingOK
  <1>9. Sound(auth', bound, chosen')
    <2>1. r \in Directories
      BY PathAssumption
    <2>2. /\ t \in DOMAIN chosen' /\ chosen'[t] = tree[r]
          /\ \A x \in DOMAIN auth.workspaces \cap DOMAIN chosen :
                x \in DOMAIN chosen' /\ chosen'[x] = chosen[x]
      BY <1>4, <1>8
    <2>. QED BY <1>5, <1>7, <1>8, <2>1, <2>2, PublishSound
         DEF AuthInv, PublishedGrants, PublishedWorkspaces, w
  <1>10. DOMAIN chosen' = DOMAIN chosen \cup {t}
         /\ \A x \in DOMAIN chosen : chosen'[x] = chosen[x]
    BY <1>4, <1>8
  <1>11. 1..(auth.nextToken - 1) \subseteq 1..(auth'.nextToken - 1)
    BY <1>2, <1>5, <1>6
  <1>12. PendingOK'
    <2>1. DOMAIN auth'.workspaces = DOMAIN auth.workspaces \cup {t}
      BY <1>5 DEF w, PublishedWorkspaces
    <2>. QED BY <1>5, <1>8, <1>10, <1>11, <2>1 DEF AuthInv, PendingOK
  <1>13. NumbersOK'
    BY <1>5, <1>7, <1>10, <1>11 DEF AuthInv, NumbersOK, Ids, OpenDirectory
  <1>14. SavesOK'
    <2>1. held' = held /\ auth'.generation \in Nat /\ auth'.generation > auth.generation
      BY <1>2, <1>5 DEF OpenDirectory
    <2>. QED BY <1>2, <1>5, <2>1, SavesKept DEF AuthInv
  <1>. QED BY <1>5, <1>9, <1>12, <1>13, <1>14 DEF AuthInv, OpenDirectory

(* A pending root dropped.                                                 *)
Dropped(a, t) == [a EXCEPT !.pendingRoots = Restrict(@, DOMAIN @ \ {t})]

LEMMA DroppedIs ==
  ASSUME NEW a, NEW documents, NEW roots, Sound(a, documents, roots), NEW t,
         NEW b, b = Dropped(a, t)
  PROVE  /\ Sound(b, documents, roots) /\ Fields(b)
         /\ b.grants = a.grants /\ b.workspaces = a.workspaces
         /\ b.documentWorkspace = a.documentWorkspace /\ b.identity = a.identity
         /\ b.pendingSaves = a.pendingSaves
         /\ DOMAIN b.pendingRoots = DOMAIN a.pendingRoots \ {t}
         /\ \A x \in DOMAIN b.pendingRoots : b.pendingRoots[x] = a.pendingRoots[x]
         /\ b.generation = a.generation /\ b.nextToken = a.nextToken
         /\ b.nextDocument = a.nextDocument /\ b.nextLease = a.nextLease
  <1>. DEFINE v == Restrict(a.pendingRoots, DOMAIN a.pendingRoots \ {t})
  <1>1. Fields(a)
    BY SoundCounts
  <1>2. b = [a EXCEPT !.pendingRoots = v]
    BY DEF Dropped
  <1>3. /\ DOMAIN v = DOMAIN a.pendingRoots \ {t}
        /\ \A x \in DOMAIN v : v[x] = a.pendingRoots[x]
    BY DEF Restrict
  <1>. HIDE DEF v
  <1>4. /\ Fields(b)
        /\ b.grants = a.grants /\ b.workspaces = a.workspaces
        /\ b.documentWorkspace = a.documentWorkspace /\ b.identity = a.identity
        /\ b.pendingSaves = a.pendingSaves /\ b.pendingRoots = v
        /\ b.generation = a.generation /\ b.nextToken = a.nextToken
        /\ b.nextDocument = a.nextDocument /\ b.nextLease = a.nextLease
    BY ONLY <1>1, <1>2 DEF Fields
  <1>5. CountersOK(b) /\ IdentitiesOK(b) /\ b.nextToken >= a.nextToken
        /\ b.nextDocument >= a.nextDocument /\ b.nextLease >= a.nextLease
    BY <1>4, SoundCounts DEF CountersOK, IdentitiesOK, Ids
  <1>6. Sound(b, documents, roots)
    BY <1>4, <1>5, AdvanceSound
  <1>. QED BY <1>3, <1>4, <1>6

(* A root awaits its settlement under a token nobody else has.             *)
LEMMA PrepareKeeps ==
  ASSUME AuthInv, NEW r \in Roots, PrepareWorkspace(r)
  PROVE  AuthInv' /\ DOMAIN auth'.pendingRoots = DOMAIN auth.pendingRoots \cup {auth.nextToken}
  <1>. DEFINE t == auth.nextToken
              v == [x \in DOMAIN auth.pendingRoots \cup {t} |->
                      IF x = t THEN [root |-> r, identity |-> tree[r]]
                      ELSE auth.pendingRoots[x]]
  <1>1. auth' = [auth EXCEPT !.nextToken = auth.nextToken + 1, !.pendingRoots = v]
    BY DEF PrepareWorkspace, Become
  <1>2. /\ Fields(auth) /\ CountersOK(auth) /\ auth.generation \in Nat
        /\ t \in Nat \ {0} /\ auth.nextDocument \in Nat
    BY SoundCounts DEF AuthInv
  <1>3. chosen' = [x \in DOMAIN chosen \cup {t} |-> IF x = t THEN tree[r] ELSE chosen[x]]
    BY DEF PrepareWorkspace, Chosen
  <1>4. /\ t = auth.nextToken /\ DOMAIN v = DOMAIN auth.pendingRoots \cup {t}
        /\ v[t].root = r /\ v[t].identity = tree[r]
        /\ \A x \in DOMAIN auth.pendingRoots : x # t => v[x] = auth.pendingRoots[x]
    OBVIOUS
  <1>. HIDE DEF v, t
  <1>5. /\ Fields(auth')
        /\ auth'.grants = auth.grants /\ auth'.workspaces = auth.workspaces
        /\ auth'.documentWorkspace = auth.documentWorkspace
        /\ auth'.identity = auth.identity
        /\ auth'.pendingSaves = auth.pendingSaves /\ auth'.pendingRoots = v
        /\ auth'.generation = auth.generation /\ auth'.nextToken = t + 1
        /\ auth'.nextDocument = auth.nextDocument /\ auth'.nextLease = auth.nextLease
    <2>1. PICK a, b : a = auth /\ b = auth'
      OBVIOUS
    <2>2. b = [a EXCEPT !.nextToken = a.nextToken + 1, !.pendingRoots = v]
      BY <1>1, <2>1
    <2>3. Fields(a)
      BY <1>2, <2>1
    <2>4. /\ Fields(b) /\ b.grants = a.grants /\ b.workspaces = a.workspaces
          /\ b.documentWorkspace = a.documentWorkspace /\ b.identity = a.identity
          /\ b.pendingSaves = a.pendingSaves /\ b.pendingRoots = v
          /\ b.generation = a.generation /\ b.nextToken = a.nextToken + 1
          /\ b.nextDocument = a.nextDocument /\ b.nextLease = a.nextLease
      BY ONLY <2>2, <2>3 DEF Fields
    <2>. QED BY <1>4, <2>1, <2>4
  <1>6. /\ t \notin DOMAIN auth.workspaces /\ t \notin DOMAIN chosen
        /\ t \notin DOMAIN auth.pendingRoots
    BY <1>2, <1>4 DEF AuthInv, Sound, AuthOK, WorkspacesOK, NumbersOK, PendingOK
  <1>7. /\ CountersOK(auth') /\ IdentitiesOK(auth')
        /\ auth'.nextToken >= auth.nextToken /\ auth'.nextDocument >= auth.nextDocument
        /\ auth'.nextLease >= auth.nextLease
        /\ 1..(auth.nextToken - 1) \subseteq 1..(auth'.nextToken - 1)
        /\ t \in 1..(auth'.nextToken - 1)
    BY <1>2, <1>4, <1>5, SoundCounts DEF CountersOK, IdentitiesOK, Ids, AuthInv
  <1>8. /\ DOMAIN chosen' = DOMAIN chosen \cup {t} /\ chosen'[t] = tree[r]
        /\ \A x \in DOMAIN chosen : chosen'[x] = chosen[x]
    BY <1>3, <1>6
  <1>9. Sound(auth', bound, chosen')
    BY <1>5, <1>7, <1>8, AdvanceSound DEF AuthInv
  <1>10. PendingOK'
    BY <1>4, <1>5, <1>6, <1>7, <1>8, PathAssumption DEF AuthInv, PendingOK
  <1>11. NumbersOK'
    BY <1>5, <1>7, <1>8 DEF AuthInv, NumbersOK, Ids, PrepareWorkspace
  <1>12. SavesOK'
    BY <1>2, <1>5, SavesKept DEF AuthInv, PrepareWorkspace
  <1>. QED BY <1>4, <1>5, <1>9, <1>10, <1>11, <1>12 DEF AuthInv, PrepareWorkspace

LEMMA DropKeeps ==
  ASSUME AuthInv, NEW t, auth' = Dropped(auth, t), held' = held, bound' = bound,
         chosen' = chosen
  PROVE  AuthInv' /\ DOMAIN auth'.pendingRoots \subseteq DOMAIN auth.pendingRoots
  <1>1. /\ Sound(auth', bound, chosen)
        /\ auth'.grants = auth.grants /\ auth'.workspaces = auth.workspaces
        /\ auth'.pendingSaves = auth.pendingSaves
        /\ DOMAIN auth'.pendingRoots = DOMAIN auth.pendingRoots \ {t}
        /\ \A x \in DOMAIN auth'.pendingRoots : auth'.pendingRoots[x] = auth.pendingRoots[x]
        /\ auth'.generation = auth.generation /\ auth'.nextToken = auth.nextToken
        /\ auth'.nextDocument = auth.nextDocument
    BY DroppedIs DEF AuthInv
  <1>2. PendingOK' /\ NumbersOK'
    BY <1>1 DEF AuthInv, PendingOK, NumbersOK, Ids
  <1>3. auth.generation \in Nat /\ auth.nextDocument \in Nat
    BY SoundCounts DEF AuthInv
  <1>4. SavesOK'
    BY <1>1, <1>3, SavesKept DEF AuthInv
  <1>. QED BY <1>1, <1>2, <1>4 DEF AuthInv

(* What is settled is the directory that was selected.                     *)
LEMMA PublishedRootIs ==
  ASSUME AuthInv, NEW t \in DOMAIN auth.pendingRoots,
         NEW root, root = auth.pendingRoots[t].root, tree[root] = auth.pendingRoots[t].identity,
         NEW b, b = PublishWorkspace(Dropped(auth, t), t, root, tree[root])
  PROVE  /\ Sound(b, bound, chosen)
         /\ t \notin DOMAIN auth.workspaces
         /\ b.grants = PublishedGrants(auth.grants, t, root)
         /\ DOMAIN b.workspaces = DOMAIN auth.workspaces \cup {t}
         /\ b.documentWorkspace = auth.documentWorkspace /\ b.identity = auth.identity
         /\ b.pendingSaves = auth.pendingSaves
         /\ DOMAIN b.pendingRoots = DOMAIN auth.pendingRoots \ {t}
         /\ \A x \in DOMAIN b.pendingRoots : b.pendingRoots[x] = auth.pendingRoots[x]
         /\ b.generation = auth.generation + 2 /\ b.nextToken = auth.nextToken
         /\ b.nextDocument = auth.nextDocument /\ b.nextLease = auth.nextLease
  <1>. DEFINE a == Dropped(auth, t)
  <1>1. /\ Sound(a, bound, chosen) /\ Fields(a)
        /\ a.grants = auth.grants /\ a.workspaces = auth.workspaces
        /\ a.documentWorkspace = auth.documentWorkspace /\ a.identity = auth.identity
        /\ a.pendingSaves = auth.pendingSaves
        /\ DOMAIN a.pendingRoots = DOMAIN auth.pendingRoots \ {t}
        /\ \A x \in DOMAIN a.pendingRoots : a.pendingRoots[x] = auth.pendingRoots[x]
        /\ a.generation = auth.generation /\ a.nextToken = auth.nextToken
        /\ a.nextDocument = auth.nextDocument /\ a.nextLease = auth.nextLease
    BY DroppedIs DEF AuthInv
  <1>2. /\ t \in 1..(auth.nextToken - 1) /\ t \notin DOMAIN auth.workspaces
        /\ root \in Directories /\ t \in DOMAIN chosen /\ tree[root] = chosen[t]
    BY DEF AuthInv, PendingOK
  <1>3. PICK object : object = tree[root]
    OBVIOUS
  <1>4. b = PublishWorkspace(a, t, root, object)
    BY <1>3
  <1>. HIDE DEF a
  <1>5. CountersOK(a) /\ a.generation \in Nat /\ a.nextToken \in Nat /\ a.nextDocument \in Nat
    BY <1>1, SoundCounts
  <1>6. /\ Fields(b)
        /\ b.grants = PublishedGrants(a.grants, t, root)
        /\ b.workspaces = PublishedWorkspaces(a.workspaces, t, root, object)
        /\ b.documentWorkspace = a.documentWorkspace /\ b.identity = a.identity
        /\ b.pendingSaves = a.pendingSaves /\ b.pendingRoots = a.pendingRoots
        /\ b.generation = a.generation + 2 /\ b.nextToken = a.nextToken
        /\ b.nextDocument = a.nextDocument /\ b.nextLease = a.nextLease
    BY <1>1, <1>4, <1>5, PublishIs
  <1>7. CountersOK(b) /\ b.nextToken >= a.nextToken
    BY <1>5, <1>6 DEF CountersOK
  <1>8. Sound(b, bound, chosen)
    BY <1>1, <1>2, <1>3, <1>6, <1>7, PublishSound DEF PublishedGrants, PublishedWorkspaces
  <1>9. DOMAIN b.workspaces = DOMAIN auth.workspaces \cup {t}
    BY <1>1, <1>6 DEF PublishedWorkspaces
  <1>. QED BY <1>1, <1>2, <1>6, <1>8, <1>9

LEMMA SettleKeeps ==
  ASSUME AuthInv, NEW t \in DOMAIN auth.pendingRoots, SettleWorkspace(t)
  PROVE  AuthInv' /\ DOMAIN auth'.pendingRoots \subseteq DOMAIN auth.pendingRoots
  <1>. DEFINE root == auth.pendingRoots[t].root
              a == Dropped(auth, t)
              b == PublishWorkspace(a, t, root, tree[root])
              c == RevokeOrigins(b, {Workspace(t)})
  <1>1. /\ held' = held /\ bound' = bound /\ chosen' = chosen
        /\ \/ auth' = a
           \/ tree[root] = auth.pendingRoots[t].identity /\ auth' \in {b, c}
    BY DEF SettleWorkspace, Become, Dropped, hist
  <1>2. CASE auth' = a
    BY <1>1, <1>2, DropKeeps
  <1>3. CASE tree[root] = auth.pendingRoots[t].identity /\ auth' \in {b, c}
    <2>1. /\ Sound(b, bound, chosen)
          /\ DOMAIN b.workspaces = DOMAIN auth.workspaces \cup {t}
          /\ b.pendingSaves = auth.pendingSaves
          /\ DOMAIN b.pendingRoots = DOMAIN auth.pendingRoots \ {t}
          /\ \A x \in DOMAIN b.pendingRoots : b.pendingRoots[x] = auth.pendingRoots[x]
          /\ b.generation = auth.generation + 2 /\ b.nextToken = auth.nextToken
          /\ b.nextDocument = auth.nextDocument /\ b.nextLease = auth.nextLease
      BY <1>3, PublishedRootIs
    <2>. HIDE DEF b, root
    <2>2. Changed(b, b, bound, chosen) /\ Changed(b, c, bound, chosen)
      BY <2>1, ChangedReflexive, RevokeChanged
    <2>3. Changed(b, auth', bound, chosen)
      BY <1>3, <2>2
    <2>4. /\ auth'.pendingSaves = auth.pendingSaves /\ auth'.pendingRoots = b.pendingRoots
          /\ auth'.nextToken = auth.nextToken /\ auth'.nextDocument = auth.nextDocument
          /\ DOMAIN auth'.workspaces \subseteq DOMAIN auth.workspaces \cup {t}
          /\ Sound(auth', bound, chosen)
          /\ auth'.generation >= b.generation
      BY <2>1, <2>3 DEF Changed, After
    <2>5. PendingOK'
      BY <1>1, <2>1, <2>4 DEF AuthInv, PendingOK
    <2>6. NumbersOK'
      BY <1>1, <2>4 DEF AuthInv, NumbersOK, Ids
    <2>7. SavesOK'
      <3>1. auth'.generation \in Nat /\ auth'.generation > auth.generation
            /\ auth.generation \in Nat /\ auth.nextDocument \in Nat
        BY <2>1, <2>4, SoundCounts DEF AuthInv
      <3>. QED BY <1>1, <2>4, <3>1, SavesKept DEF AuthInv
    <2>. QED BY <1>1, <2>1, <2>4, <2>5, <2>6, <2>7 DEF AuthInv
  <1>. QED BY <1>1, <1>2, <1>3

-------------------------------------------------------------------------------
(* Documents and previews.                                                 *)

GrantedFile(g, f, o) == Put(Put(g, Exact(f), o), Asset(Front(f)), o)

(* What grant_exact_file does to each field.                               *)
LEMMA GrantFileIs ==
  ASSUME NEW a, Fields(a), a.generation \in Nat, NEW f, NEW o, NEW b, b = GrantFile(a, f, o)
  PROVE  /\ Fields(b)
         /\ b.grants = GrantedFile(a.grants, f, o) /\ b.workspaces = a.workspaces
         /\ b.documentWorkspace = a.documentWorkspace /\ b.identity = a.identity
         /\ b.pendingSaves = a.pendingSaves /\ b.pendingRoots = a.pendingRoots
         /\ b.generation = a.generation + 2 /\ b.nextToken = a.nextToken
         /\ b.nextDocument = a.nextDocument /\ b.nextLease = a.nextLease
  <1>. DEFINE c == Grant(a, Exact(f), o)
  <1>1. b = Grant(c, Asset(Front(f)), o)
    BY DEF GrantFile
  <1>2. /\ Fields(c)
        /\ c.grants = Put(a.grants, Exact(f), o) /\ c.workspaces = a.workspaces
        /\ c.documentWorkspace = a.documentWorkspace /\ c.identity = a.identity
        /\ c.pendingSaves = a.pendingSaves /\ c.pendingRoots = a.pendingRoots
        /\ c.generation = a.generation + 1 /\ c.nextToken = a.nextToken
        /\ c.nextDocument = a.nextDocument /\ c.nextLease = a.nextLease
    BY ONLY Fields(a), GrantIs
  <1>. HIDE DEF c
  <1>3. /\ Fields(b)
        /\ b.grants = Put(c.grants, Asset(Front(f)), o) /\ b.workspaces = c.workspaces
        /\ b.documentWorkspace = c.documentWorkspace /\ b.identity = c.identity
        /\ b.pendingSaves = c.pendingSaves /\ b.pendingRoots = c.pendingRoots
        /\ b.generation = c.generation + 1 /\ b.nextToken = c.nextToken
        /\ b.nextDocument = c.nextDocument /\ b.nextLease = c.nextLease
    BY ONLY <1>1, <1>2, GrantIs
  <1>4. b.generation = a.generation + 2
    BY <1>2, <1>3
  <1>. QED BY <1>2, <1>3, <1>4 DEF GrantedFile

(* A new generation, and nothing new pending.                              *)
LEMMA NewerKeeps ==
  ASSUME AuthInv, Sound(auth', bound', chosen), chosen' = chosen, bound' \subseteq Ids(auth)',
         auth'.generation > auth.generation,
         DOMAIN auth'.pendingSaves \subseteq DOMAIN auth.pendingSaves,
         \A i \in DOMAIN auth'.pendingSaves : auth'.pendingSaves[i] = auth.pendingSaves[i],
         auth'.pendingRoots = auth.pendingRoots, auth'.workspaces = auth.workspaces,
         auth'.nextToken = auth.nextToken, auth'.nextDocument >= auth.nextDocument,
         held' \subseteq held
  PROVE  AuthInv' /\ DOMAIN auth'.pendingRoots \subseteq DOMAIN auth.pendingRoots
  <1>1. /\ auth.generation \in Nat /\ auth.nextDocument \in Nat
        /\ auth'.generation \in Nat /\ auth'.nextDocument \in Nat
    BY SoundCounts DEF AuthInv
  <1>2. PendingOK' /\ NumbersOK'
    BY DEF AuthInv, PendingOK, NumbersOK
  <1>3. SavesOK'
    BY <1>1, SavesKept DEF AuthInv
  <1>. QED BY <1>2, <1>3 DEF AuthInv

(* An open binds its new document in the very step that grants it.         *)
LEMMA CommitOpenIs ==
  ASSUME AuthInv, NEW r, CommitOpen(r)
  PROVE  /\ Fields(auth')
         /\ auth'.grants = GrantedFile(auth.grants, r.path, Open(auth.nextDocument))
         /\ auth'.workspaces = auth.workspaces
         /\ auth'.pendingSaves = auth.pendingSaves /\ auth'.pendingRoots = auth.pendingRoots
         /\ auth'.generation = auth.generation + 1 /\ auth'.nextToken = auth.nextToken
         /\ auth'.nextDocument = auth.nextDocument + 1 /\ auth'.nextLease = auth.nextLease
         /\ DOMAIN auth.documentWorkspace \subseteq DOMAIN auth'.documentWorkspace
         /\ DOMAIN auth.identity \subseteq DOMAIN auth'.identity
         /\ DOMAIN auth'.documentWorkspace
              \subseteq DOMAIN auth.documentWorkspace \cup {auth.nextDocument}
         /\ DOMAIN auth'.identity \subseteq DOMAIN auth.identity \cup {auth.nextDocument}
         /\ \A x \in DOMAIN auth.identity :
               x # auth.nextDocument => auth'.identity[x] = auth.identity[x]
         /\ bound' \ bound \subseteq DOMAIN auth'.documentWorkspace \cap DOMAIN auth'.identity
         /\ bound' \subseteq bound \cup {auth.nextDocument}
  <1>. DEFINE i == auth.nextDocument
              extend(m, v) == [x \in DOMAIN m \cup {i} |-> IF x = i THEN v ELSE m[x]]
              g == GrantFile(auth, r.path, Open(i))
              a == [g EXCEPT !.generation = auth.generation + 1,
                             !.nextDocument = g.nextDocument + 1]
              d == extend(a.documentWorkspace, r.token)
              n == extend(a.identity, r.object)
              b == [a EXCEPT !.documentWorkspace = d, !.identity = n]
  <1>1. /\ \/ auth' = a /\ bound' = bound
           \/ auth' = b /\ bound' = bound \cup {i}
    BY DEF CommitOpen, Become
  <1>2. /\ Fields(auth) /\ CountersOK(auth) /\ auth.generation \in Nat
        /\ i \in Nat \ {0} /\ auth.nextToken \in Nat /\ auth.nextLease \in Nat
        /\ IdentitiesOK(auth)
    BY SoundCounts DEF AuthInv
  <1>3. /\ Fields(g) /\ g.grants = GrantedFile(auth.grants, r.path, Open(i))
        /\ g.workspaces = auth.workspaces
        /\ g.documentWorkspace = auth.documentWorkspace /\ g.identity = auth.identity
        /\ g.pendingSaves = auth.pendingSaves /\ g.pendingRoots = auth.pendingRoots
        /\ g.nextToken = auth.nextToken
        /\ g.nextDocument = auth.nextDocument /\ g.nextLease = auth.nextLease
    BY <1>2, GrantFileIs
  <1>4. /\ i = auth.nextDocument
        /\ DOMAIN d = DOMAIN a.documentWorkspace \cup {i}
        /\ DOMAIN n = DOMAIN a.identity \cup {i}
        /\ \A x \in DOMAIN a.identity : x # i => n[x] = a.identity[x]
    OBVIOUS
  <1>5. a = [g EXCEPT !.generation = auth.generation + 1, !.nextDocument = g.nextDocument + 1]
        /\ b = [a EXCEPT !.documentWorkspace = d, !.identity = n]
    OBVIOUS
  <1>. HIDE DEF g, a, b, d, n, i
  <1>6. /\ Fields(a) /\ a.grants = g.grants /\ a.workspaces = g.workspaces
        /\ a.documentWorkspace = g.documentWorkspace /\ a.identity = g.identity
        /\ a.pendingSaves = g.pendingSaves /\ a.pendingRoots = g.pendingRoots
        /\ a.generation = auth.generation + 1 /\ a.nextToken = g.nextToken
        /\ a.nextDocument = g.nextDocument + 1 /\ a.nextLease = g.nextLease
    BY ONLY <1>3, <1>5 DEF Fields
  <1>7. /\ Fields(b) /\ b.grants = a.grants /\ b.workspaces = a.workspaces
        /\ b.documentWorkspace = d /\ b.identity = n
        /\ b.pendingSaves = a.pendingSaves /\ b.pendingRoots = a.pendingRoots
        /\ b.generation = a.generation /\ b.nextToken = a.nextToken
        /\ b.nextDocument = a.nextDocument /\ b.nextLease = a.nextLease
    BY ONLY <1>5, <1>6 DEF Fields
  <1>8. /\ Fields(auth')
        /\ auth'.grants = GrantedFile(auth.grants, r.path, Open(i))
        /\ auth'.workspaces = auth.workspaces
        /\ auth'.pendingSaves = auth.pendingSaves /\ auth'.pendingRoots = auth.pendingRoots
        /\ auth'.generation = auth.generation + 1 /\ auth'.nextToken = auth.nextToken
        /\ auth'.nextDocument = i + 1 /\ auth'.nextLease = auth.nextLease
    BY <1>1, <1>3, <1>4, <1>6, <1>7
  <1>9. /\ DOMAIN auth.documentWorkspace \subseteq DOMAIN auth'.documentWorkspace
        /\ DOMAIN auth.identity \subseteq DOMAIN auth'.identity
        /\ DOMAIN auth'.documentWorkspace \subseteq DOMAIN auth.documentWorkspace \cup {i}
        /\ DOMAIN auth'.identity \subseteq DOMAIN auth.identity \cup {i}
        /\ \A x \in DOMAIN auth.identity : x # i => auth'.identity[x] = auth.identity[x]
        /\ bound' \ bound \subseteq DOMAIN auth'.documentWorkspace \cap DOMAIN auth'.identity
        /\ bound' \subseteq bound \cup {i}
    BY <1>1, <1>3, <1>4, <1>6, <1>7
  <1>. QED BY <1>4, <1>8, <1>9

LEMMA CommitOpenKeeps ==
  ASSUME AuthInv, NEW r, r.path \in Files, CommitOpen(r)
  PROVE  AuthInv' /\ DOMAIN auth'.pendingRoots \subseteq DOMAIN auth.pendingRoots
  <1>. DEFINE i == auth.nextDocument
  <1>1. held' = held /\ chosen' = chosen
    BY DEF CommitOpen
  <1>2. /\ Fields(auth) /\ CountersOK(auth) /\ auth.generation \in Nat
        /\ i \in Nat \ {0} /\ auth.nextToken \in Nat /\ auth.nextLease \in Nat
        /\ IdentitiesOK(auth)
    BY SoundCounts DEF AuthInv
  <1>4. i = auth.nextDocument
    OBVIOUS
  <1>8. /\ Fields(auth')
        /\ auth'.grants = GrantedFile(auth.grants, r.path, Open(i))
        /\ auth'.workspaces = auth.workspaces
        /\ auth'.pendingSaves = auth.pendingSaves /\ auth'.pendingRoots = auth.pendingRoots
        /\ auth'.generation = auth.generation + 1 /\ auth'.nextToken = auth.nextToken
        /\ auth'.nextDocument = i + 1 /\ auth'.nextLease = auth.nextLease
    BY CommitOpenIs
  <1>9. /\ DOMAIN auth.documentWorkspace \subseteq DOMAIN auth'.documentWorkspace
        /\ DOMAIN auth.identity \subseteq DOMAIN auth'.identity
        /\ DOMAIN auth'.documentWorkspace \subseteq DOMAIN auth.documentWorkspace \cup {i}
        /\ DOMAIN auth'.identity \subseteq DOMAIN auth.identity \cup {i}
        /\ bound' \ bound \subseteq DOMAIN auth'.documentWorkspace \cap DOMAIN auth'.identity
        /\ bound' \subseteq bound \cup {i}
    BY CommitOpenIs
  <1>. HIDE DEF i
  <1>10. Ids(auth)' = Ids(auth) \cup {i}
    BY <1>2, <1>4, <1>8 DEF Ids
  <1>11. /\ CountersOK(auth') /\ IdentitiesOK(auth')
         /\ auth'.nextToken >= auth.nextToken /\ auth'.nextDocument >= auth.nextDocument
         /\ auth'.nextLease >= auth.nextLease /\ auth'.generation > auth.generation
    BY <1>2, <1>4, <1>8, <1>9, <1>10 DEF CountersOK, IdentitiesOK, Ids
  <1>12. /\ OriginOK(auth', Open(i)) /\ Open(i).kind = "open" /\ Open(i).id = i
    <2>1. i \in 1..(auth'.nextDocument - 1)
      BY <1>2, <1>8
    <2>. QED BY <2>1, OriginsApart DEF OriginOK
  <1>13. i \notin bound
    BY <1>2, <1>4 DEF AuthInv, NumbersOK, Ids
  <1>14. Sound(auth', bound', chosen)
    BY <1>8, <1>9, <1>11, <1>12, <1>13, GrantsSound DEF AuthInv, GrantedFile
  <1>15. bound' \subseteq Ids(auth)'
    BY <1>9, <1>10 DEF AuthInv, NumbersOK
  <1>. QED BY <1>1, <1>8, <1>11, <1>14, <1>15, NewerKeeps

LEMMA CreateFileIs ==
  ASSUME AuthInv, NEW t, NEW f, CreateFile(t, f)
  PROVE  /\ Fields(auth')
         /\ auth'.grants = GrantedFile(auth.grants, f, Created(auth.nextDocument))
         /\ auth'.workspaces = auth.workspaces
         /\ auth'.documentWorkspace = auth.documentWorkspace
         /\ auth'.identity = auth.identity
         /\ auth'.pendingSaves = auth.pendingSaves /\ auth'.pendingRoots = auth.pendingRoots
         /\ auth'.generation = auth.generation + 2 /\ auth'.nextToken = auth.nextToken
         /\ auth'.nextDocument = auth.nextDocument + 1 /\ auth'.nextLease = auth.nextLease
  <1>. DEFINE i == auth.nextDocument
              g == GrantFile(auth, f, Created(i))
              a == [g EXCEPT !.nextDocument = g.nextDocument + 1]
  <1>1. auth' = a
    BY DEF CreateFile, Become
  <1>2. /\ Fields(auth) /\ CountersOK(auth) /\ auth.generation \in Nat
        /\ i \in Nat \ {0} /\ auth.nextToken \in Nat /\ auth.nextLease \in Nat
        /\ IdentitiesOK(auth)
    BY SoundCounts DEF AuthInv
  <1>3. /\ Fields(g) /\ g.grants = GrantedFile(auth.grants, f, Created(i))
        /\ g.workspaces = auth.workspaces
        /\ g.documentWorkspace = auth.documentWorkspace /\ g.identity = auth.identity
        /\ g.pendingSaves = auth.pendingSaves /\ g.pendingRoots = auth.pendingRoots
        /\ g.generation = auth.generation + 2 /\ g.nextToken = auth.nextToken
        /\ g.nextDocument = auth.nextDocument /\ g.nextLease = auth.nextLease
    BY <1>2, GrantFileIs
  <1>4. i = auth.nextDocument /\ a = [g EXCEPT !.nextDocument = g.nextDocument + 1]
    OBVIOUS
  <1>. HIDE DEF g, a, i
  <1>5. /\ Fields(a) /\ a.grants = g.grants /\ a.workspaces = g.workspaces
        /\ a.documentWorkspace = g.documentWorkspace /\ a.identity = g.identity
        /\ a.pendingSaves = g.pendingSaves /\ a.pendingRoots = g.pendingRoots
        /\ a.generation = g.generation /\ a.nextToken = g.nextToken
        /\ a.nextDocument = g.nextDocument + 1 /\ a.nextLease = g.nextLease
    BY ONLY <1>3, <1>4 DEF Fields
  <1>6. /\ Fields(auth')
        /\ auth'.grants = GrantedFile(auth.grants, f, Created(i))
        /\ auth'.workspaces = auth.workspaces
        /\ auth'.documentWorkspace = auth.documentWorkspace
        /\ auth'.identity = auth.identity
        /\ auth'.pendingSaves = auth.pendingSaves /\ auth'.pendingRoots = auth.pendingRoots
        /\ auth'.generation = auth.generation + 2 /\ auth'.nextToken = auth.nextToken
        /\ auth'.nextDocument = i + 1 /\ auth'.nextLease = auth.nextLease
    BY <1>1, <1>3, <1>4, <1>5
  <1>. QED BY <1>4, <1>6

LEMMA CreateFileKeeps ==
  ASSUME AuthInv, NEW t, NEW f \in Files, CreateFile(t, f)
  PROVE  AuthInv' /\ DOMAIN auth'.pendingRoots \subseteq DOMAIN auth.pendingRoots
  <1>. DEFINE i == auth.nextDocument
  <1>1. bound' = bound /\ held' = held /\ chosen' = chosen
    BY DEF CreateFile, hist
  <1>2. /\ Fields(auth) /\ CountersOK(auth) /\ auth.generation \in Nat
        /\ i \in Nat \ {0} /\ auth.nextToken \in Nat /\ auth.nextLease \in Nat
        /\ IdentitiesOK(auth)
    BY SoundCounts DEF AuthInv
  <1>4. i = auth.nextDocument
    OBVIOUS
  <1>6. /\ Fields(auth')
        /\ auth'.grants = GrantedFile(auth.grants, f, Created(i))
        /\ auth'.workspaces = auth.workspaces
        /\ auth'.documentWorkspace = auth.documentWorkspace
        /\ auth'.identity = auth.identity
        /\ auth'.pendingSaves = auth.pendingSaves /\ auth'.pendingRoots = auth.pendingRoots
        /\ auth'.generation = auth.generation + 2 /\ auth'.nextToken = auth.nextToken
        /\ auth'.nextDocument = i + 1 /\ auth'.nextLease = auth.nextLease
    BY CreateFileIs
  <1>. HIDE DEF i
  <1>7. Ids(auth)' = Ids(auth) \cup {i}
    BY <1>2, <1>4, <1>6 DEF Ids
  <1>8. /\ CountersOK(auth') /\ IdentitiesOK(auth')
        /\ auth'.nextToken >= auth.nextToken /\ auth'.nextDocument >= auth.nextDocument
        /\ auth'.nextLease >= auth.nextLease /\ auth'.generation > auth.generation
    BY <1>2, <1>4, <1>6, <1>7 DEF CountersOK, IdentitiesOK, Ids
  <1>9. OriginOK(auth', Created(i)) /\ Created(i).kind = "created"
    <2>1. i \in 1..(auth'.nextDocument - 1)
      BY <1>2, <1>6
    <2>. QED BY <2>1, OriginsApart DEF OriginOK
  <1>10. Sound(auth', bound, chosen)
    BY <1>6, <1>8, <1>9, GrantsSound DEF AuthInv, GrantedFile
  <1>11. bound' \subseteq Ids(auth)'
    BY <1>1, <1>7 DEF AuthInv, NumbersOK
  <1>. QED BY <1>1, <1>6, <1>8, <1>10, <1>11, NewerKeeps

(* A reservation is the only one of the newest generation.                 *)
ReservedSaves(f) ==
    LET keys == {Exact(f), Asset(Front(f))}
    IN  [x \in {auth.nextDocument} |->
           [path |-> f, existing |-> keys \cap DOMAIN auth.grants,
            fresh |-> keys \ DOMAIN auth.grants]]

LEMMA ReserveIs ==
  ASSUME AuthInv, NEW f, ReserveSaveAs(f)
  PROVE  /\ Fields(auth')
         /\ auth'.grants = auth.grants /\ auth'.workspaces = auth.workspaces
         /\ auth'.documentWorkspace = auth.documentWorkspace
         /\ auth'.identity = auth.identity
         /\ auth'.pendingSaves = ReservedSaves(f) /\ auth'.pendingRoots = auth.pendingRoots
         /\ auth'.generation = auth.generation + 1 /\ auth'.nextToken = auth.nextToken
         /\ auth'.nextDocument = auth.nextDocument + 1 /\ auth'.nextLease = auth.nextLease
  <1>. DEFINE s == ReservedSaves(f)
  <1>1. auth' = [auth EXCEPT !.generation = auth.generation + 1,
                             !.nextDocument = auth.nextDocument + 1, !.pendingSaves = s]
    BY DEF ReserveSaveAs, Become, Reserve, ReservedSaves
  <1>. HIDE DEF s
  <1>2. PICK a, b : a = auth /\ b = auth'
    OBVIOUS
  <1>3. b = [a EXCEPT !.generation = a.generation + 1,
                      !.nextDocument = a.nextDocument + 1, !.pendingSaves = s]
    BY <1>1, <1>2
  <1>4. Fields(a)
    BY <1>2, SoundCounts DEF AuthInv
  <1>5. /\ Fields(b) /\ b.grants = a.grants /\ b.workspaces = a.workspaces
        /\ b.documentWorkspace = a.documentWorkspace /\ b.identity = a.identity
        /\ b.pendingSaves = s /\ b.pendingRoots = a.pendingRoots
        /\ b.generation = a.generation + 1 /\ b.nextToken = a.nextToken
        /\ b.nextDocument = a.nextDocument + 1 /\ b.nextLease = a.nextLease
    BY ONLY <1>3, <1>4 DEF Fields
  <1>. QED BY <1>2, <1>5 DEF s

LEMMA ReserveKeeps ==
  ASSUME AuthInv, NEW f \in Files, ReserveSaveAs(f)
  PROVE  AuthInv' /\ DOMAIN auth'.pendingRoots \subseteq DOMAIN auth.pendingRoots
  <1>. DEFINE i == auth.nextDocument
              s == ReservedSaves(f)
              new == [path |-> f, id |-> auth.nextDocument, generation |-> auth.generation + 1]
  <1>1. held' = held \cup {new} /\ bound' = bound /\ chosen' = chosen
    BY DEF ReserveSaveAs, hist
  <1>2. /\ Fields(auth) /\ CountersOK(auth) /\ auth.generation \in Nat
        /\ i \in Nat \ {0} /\ auth.nextToken \in Nat /\ auth.nextLease \in Nat
        /\ IdentitiesOK(auth)
    BY SoundCounts DEF AuthInv
  <1>3. /\ i = auth.nextDocument
        /\ DOMAIN s = {i} /\ s[i].fresh \cap DOMAIN auth.grants = {}
        /\ new.path = f /\ new.id = i /\ new.generation = auth.generation + 1
    BY DEF ReservedSaves
  <1>4. /\ Fields(auth')
        /\ auth'.grants = auth.grants /\ auth'.workspaces = auth.workspaces
        /\ auth'.documentWorkspace = auth.documentWorkspace
        /\ auth'.identity = auth.identity
        /\ auth'.pendingSaves = s /\ auth'.pendingRoots = auth.pendingRoots
        /\ auth'.generation = auth.generation + 1 /\ auth'.nextToken = auth.nextToken
        /\ auth'.nextDocument = i + 1 /\ auth'.nextLease = auth.nextLease
    BY ReserveIs
  <1>. HIDE DEF s, i, new
  <1>5. Ids(auth)' = Ids(auth) \cup {i}
    BY <1>2, <1>3, <1>4 DEF Ids
  <1>6. /\ CountersOK(auth') /\ IdentitiesOK(auth')
        /\ auth'.nextToken >= auth.nextToken /\ auth'.nextDocument >= auth.nextDocument
        /\ auth'.nextLease >= auth.nextLease
    BY <1>2, <1>3, <1>4, <1>5 DEF CountersOK, IdentitiesOK, Ids
  <1>7. Sound(auth', bound, chosen)
    BY <1>4, <1>6, AdvanceSound DEF AuthInv
  <1>8. PendingOK' /\ NumbersOK'
    BY <1>1, <1>4, <1>5 DEF AuthInv, PendingOK, NumbersOK
  <1>9. SavesOK'
    <2>1. \A h \in held' : /\ h.path \in Files /\ h.id \in Ids(auth)'
                           /\ h.generation \in Nat /\ h.generation <= auth'.generation
      BY <1>1, <1>2, <1>3, <1>4, <1>5 DEF AuthInv, SavesOK
    <2>2. FreshKeysStayFree'
      BY <1>3, <1>4 DEF FreshKeysStayFree, MatchesPending
    <2>. QED BY <1>3, <1>4, <1>5, <2>1, <2>2 DEF SavesOK
  <1>. QED BY <1>1, <1>4, <1>7, <1>8, <1>9 DEF AuthInv

(* A reservation taken back.                                               *)
LEMMA InvalidateIs ==
  ASSUME AuthInv, NEW h, InvalidateSaveAs(h), auth' # auth
  PROVE  /\ Fields(auth')
         /\ auth'.grants = auth.grants /\ auth'.workspaces = auth.workspaces
         /\ auth'.documentWorkspace = auth.documentWorkspace
         /\ auth'.identity = auth.identity
         /\ DOMAIN auth'.pendingSaves \subseteq DOMAIN auth.pendingSaves
         /\ \A i \in DOMAIN auth'.pendingSaves : auth'.pendingSaves[i] = auth.pendingSaves[i]
         /\ auth'.pendingRoots = auth.pendingRoots
         /\ auth'.generation \in Nat /\ auth'.generation >= auth.generation
         /\ auth'.nextToken = auth.nextToken
         /\ auth'.nextDocument = auth.nextDocument /\ auth'.nextLease = auth.nextLease
  <1>. DEFINE s == Restrict(auth.pendingSaves, DOMAIN auth.pendingSaves \ {h.id})
              v == IF h.generation = auth.generation THEN auth.generation + 1
                   ELSE auth.generation
  <1>1. auth' = [auth EXCEPT !.pendingSaves = s, !.generation = v]
    BY DEF InvalidateSaveAs, Become, Invalidate
  <1>2. Fields(auth) /\ auth.generation \in Nat
    BY SoundCounts DEF AuthInv
  <1>3. /\ DOMAIN s \subseteq DOMAIN auth.pendingSaves
        /\ \A i \in DOMAIN s : s[i] = auth.pendingSaves[i]
    BY DEF Restrict
  <1>4. v \in Nat /\ v >= auth.generation
    BY <1>2
  <1>. HIDE DEF s, v
  <1>5. PICK a, b : a = auth /\ b = auth'
    OBVIOUS
  <1>6. b = [a EXCEPT !.pendingSaves = s, !.generation = v] /\ Fields(a)
    BY <1>1, <1>2, <1>5
  <1>7. /\ Fields(b) /\ b.grants = a.grants /\ b.workspaces = a.workspaces
        /\ b.documentWorkspace = a.documentWorkspace /\ b.identity = a.identity
        /\ b.pendingSaves = s /\ b.pendingRoots = a.pendingRoots
        /\ b.generation = v /\ b.nextToken = a.nextToken
        /\ b.nextDocument = a.nextDocument /\ b.nextLease = a.nextLease
    BY ONLY <1>6 DEF Fields
  <1>. QED BY <1>3, <1>4, <1>5, <1>7

LEMMA InvalidateKeeps ==
  ASSUME AuthInv, NEW h \in held, InvalidateSaveAs(h)
  PROVE  AuthInv' /\ DOMAIN auth'.pendingRoots \subseteq DOMAIN auth.pendingRoots
  <1>1. held' \subseteq held /\ bound' = bound /\ chosen' = chosen
    BY DEF InvalidateSaveAs, hist
  <1>2. CASE auth' = auth
    BY <1>1, <1>2, SameKeeps
  <1>3. CASE auth' # auth
    <2>1. /\ Fields(auth) /\ CountersOK(auth) /\ auth.generation \in Nat
          /\ auth.nextDocument \in Nat /\ IdentitiesOK(auth)
      BY SoundCounts DEF AuthInv
    <2>4. /\ Fields(auth')
          /\ auth'.grants = auth.grants /\ auth'.workspaces = auth.workspaces
          /\ auth'.documentWorkspace = auth.documentWorkspace
          /\ auth'.identity = auth.identity
          /\ DOMAIN auth'.pendingSaves \subseteq DOMAIN auth.pendingSaves
          /\ \A i \in DOMAIN auth'.pendingSaves : auth'.pendingSaves[i] = auth.pendingSaves[i]
          /\ auth'.pendingRoots = auth.pendingRoots
          /\ auth'.generation \in Nat /\ auth'.generation >= auth.generation
          /\ auth'.nextToken = auth.nextToken
          /\ auth'.nextDocument = auth.nextDocument /\ auth'.nextLease = auth.nextLease
      BY <1>3, InvalidateIs
    <2>5. /\ CountersOK(auth') /\ IdentitiesOK(auth')
          /\ auth'.nextToken >= auth.nextToken /\ auth'.nextDocument >= auth.nextDocument
          /\ auth'.nextLease >= auth.nextLease
      BY <2>1, <2>4 DEF CountersOK, IdentitiesOK, Ids
    <2>6. Sound(auth', bound, chosen)
      BY <2>4, <2>5, AdvanceSound DEF AuthInv
    <2>7. PendingOK' /\ NumbersOK'
      BY <1>1, <2>4 DEF AuthInv, PendingOK, NumbersOK, Ids
    <2>8. SavesOK'
      BY <1>1, <2>1, <2>4, <2>5, SavesKept DEF AuthInv
    <2>. QED BY <1>1, <2>4, <2>6, <2>7, <2>8 DEF AuthInv
  <1>. QED BY <1>1, <1>2, <1>3

(* A reservation redeemed, and the documents of its file settled.          *)
LEMMA PublishSaveIs ==
  ASSUME AuthInv, NEW h \in held, PublishSaveAs(h), NEW b, b = Publish(auth, h)
  PROVE  /\ auth' = Settle(b, IdentityOrigins(auth, tree, h.path), born + 1,
                           auth.generation + 1)
         /\ Sound(b, bound, chosen)
         /\ b.grants = GrantedFile(auth.grants, h.path, SaveAs(h.id))
         /\ b.workspaces = auth.workspaces
         /\ b.documentWorkspace = auth.documentWorkspace /\ b.identity = auth.identity
         /\ DOMAIN b.pendingSaves = DOMAIN auth.pendingSaves \ {h.id}
         /\ \A i \in DOMAIN b.pendingSaves : b.pendingSaves[i] = auth.pendingSaves[i]
         /\ b.pendingRoots = auth.pendingRoots
         /\ b.generation = auth.generation + 1 /\ b.nextToken = auth.nextToken
         /\ b.nextDocument = auth.nextDocument /\ b.nextLease = auth.nextLease
  <1>. DEFINE o == SaveAs(h.id)
              s == Restrict(auth.pendingSaves, DOMAIN auth.pendingSaves \ {h.id})
              g == GrantedFile(auth.grants, h.path, o)
              generation == auth.generation + 1
  <1>1. b = [auth EXCEPT !.generation = generation, !.pendingSaves = s, !.grants = g]
    BY DEF Publish, GrantedFile
  <1>2. auth' = Settle(b, IdentityOrigins(auth, tree, h.path), born + 1, auth.generation + 1)
    BY DEF PublishSaveAs, Become, Settled
  <1>3. /\ Fields(auth) /\ CountersOK(auth) /\ auth.generation \in Nat
        /\ generation \in Nat /\ generation > auth.generation
        /\ auth.nextDocument \in Nat /\ IdentitiesOK(auth)
    BY SoundCounts DEF AuthInv
  <1>4. /\ DOMAIN s = DOMAIN auth.pendingSaves \ {h.id} /\ generation = auth.generation + 1
        /\ \A i \in DOMAIN s : s[i] = auth.pendingSaves[i]
    BY DEF Restrict
  <1>. HIDE DEF s, g, generation
  <1>6. /\ Fields(b) /\ b.grants = g /\ b.workspaces = auth.workspaces
        /\ b.documentWorkspace = auth.documentWorkspace /\ b.identity = auth.identity
        /\ b.pendingSaves = s /\ b.pendingRoots = auth.pendingRoots
        /\ b.generation = generation /\ b.nextToken = auth.nextToken
        /\ b.nextDocument = auth.nextDocument /\ b.nextLease = auth.nextLease
    <2>1. PICK a : a = auth
      OBVIOUS
    <2>2. b = [a EXCEPT !.generation = generation, !.pendingSaves = s, !.grants = g]
          /\ Fields(a)
      BY <1>1, <1>3, <2>1
    <2>3. /\ Fields(b) /\ b.grants = g /\ b.workspaces = a.workspaces
          /\ b.documentWorkspace = a.documentWorkspace /\ b.identity = a.identity
          /\ b.pendingSaves = s /\ b.pendingRoots = a.pendingRoots
          /\ b.generation = generation /\ b.nextToken = a.nextToken
          /\ b.nextDocument = a.nextDocument /\ b.nextLease = a.nextLease
      BY ONLY <2>2 DEF Fields
    <2>. QED BY <2>1, <2>3
  <1>7. /\ CountersOK(b) /\ IdentitiesOK(b)
        /\ b.nextToken >= auth.nextToken /\ b.nextDocument >= auth.nextDocument
        /\ b.nextLease >= auth.nextLease
    BY <1>3, <1>6 DEF CountersOK, IdentitiesOK, Ids
  <1>8. h.path \in Files /\ OriginOK(b, o) /\ o.kind = "saveAs"
    <2>1. h.path \in Files /\ h.id \in 1..(b.nextDocument - 1)
      BY <1>6 DEF AuthInv, SavesOK, Ids
    <2>. QED BY <2>1, OriginsApart DEF OriginOK
  <1>9. Sound(b, bound, chosen)
    BY <1>6, <1>7, <1>8, GrantsSound DEF AuthInv, GrantedFile, g
  <1>. QED BY <1>2, <1>4, <1>6, <1>9 DEF g

LEMMA PublishKeeps ==
  ASSUME AuthInv, NEW h \in held, PublishSaveAs(h)
  PROVE  AuthInv' /\ DOMAIN auth'.pendingRoots \subseteq DOMAIN auth.pendingRoots
  <1>. DEFINE ids == IdentityOrigins(auth, tree, h.path)
              object == born + 1
              generation == auth.generation + 1
  <1>1. bound' = bound /\ chosen' = chosen /\ held' \subseteq held
    BY DEF PublishSaveAs, hist
  <1>2. PICK b : b = Publish(auth, h)
    OBVIOUS
  <1>3. /\ auth' = Settle(b, ids, object, generation)
        /\ Sound(b, bound, chosen) /\ b.workspaces = auth.workspaces
        /\ DOMAIN b.pendingSaves = DOMAIN auth.pendingSaves \ {h.id}
        /\ \A i \in DOMAIN b.pendingSaves : b.pendingSaves[i] = auth.pendingSaves[i]
        /\ b.pendingRoots = auth.pendingRoots
        /\ b.generation = auth.generation + 1 /\ b.nextToken = auth.nextToken
        /\ b.nextDocument = auth.nextDocument
    BY <1>2, PublishSaveIs
  <1>4. generation \in Nat /\ generation > auth.generation /\ auth.nextDocument \in Nat
        /\ generation = auth.generation + 1
    BY SoundCounts DEF AuthInv
  <1>. DEFINE c == Settle(b, ids, object, generation)
  <1>5. auth' = c
    BY <1>3
  <1>. HIDE DEF ids, object, generation
  <1>6. /\ Sound(c, bound, chosen)
        /\ c.generation \in {b.generation, generation}
        /\ c.workspaces = b.workspaces
        /\ c.pendingSaves = b.pendingSaves /\ c.pendingRoots = b.pendingRoots
        /\ c.nextToken = b.nextToken /\ c.nextDocument = b.nextDocument
    BY <1>3, <1>4, SettleSound
  <1>. HIDE DEF c
  <1>7. bound' \subseteq Ids(auth)'
    BY <1>1, <1>3, <1>5, <1>6 DEF AuthInv, NumbersOK, Ids
  <1>. QED BY <1>1, <1>3, <1>4, <1>5, <1>6, <1>7, NewerKeeps

(* A preview granted the directory it reads from.                          *)
LEMMA LeaseIs ==
  ASSUME AuthInv, NEW root, NEW doc, NEW at, Lease(root, doc, at)
  PROVE  /\ Fields(auth')
         /\ auth'.grants = Put(auth.grants, Asset(root), Preview(auth.nextLease, doc, at))
         /\ auth'.workspaces = auth.workspaces
         /\ auth'.documentWorkspace = auth.documentWorkspace
         /\ auth'.identity = auth.identity
         /\ auth'.pendingSaves = auth.pendingSaves /\ auth'.pendingRoots = auth.pendingRoots
         /\ auth'.generation = auth.generation + 1 /\ auth'.nextToken = auth.nextToken
         /\ auth'.nextDocument = auth.nextDocument /\ auth'.nextLease = auth.nextLease + 1
  <1>. DEFINE l == Preview(auth.nextLease, doc, at)
              p == Put(auth.grants, Asset(root), l)
              g == Grant(auth, Asset(root), l)
              a == [g EXCEPT !.nextLease = g.nextLease + 1]
  <1>1. auth' = a /\ a = [g EXCEPT !.nextLease = g.nextLease + 1]
    BY DEF Lease, Become
  <1>2. Fields(auth)
    BY SoundCounts DEF AuthInv
  <1>3. /\ Fields(g) /\ g.grants = p
        /\ g.workspaces = auth.workspaces
        /\ g.documentWorkspace = auth.documentWorkspace /\ g.identity = auth.identity
        /\ g.pendingSaves = auth.pendingSaves /\ g.pendingRoots = auth.pendingRoots
        /\ g.generation = auth.generation + 1 /\ g.nextToken = auth.nextToken
        /\ g.nextDocument = auth.nextDocument /\ g.nextLease = auth.nextLease
    BY <1>2, GrantIs
  <1>. HIDE DEF g, a, p
  <1>4. /\ Fields(a) /\ a.grants = g.grants /\ a.workspaces = g.workspaces
        /\ a.documentWorkspace = g.documentWorkspace /\ a.identity = g.identity
        /\ a.pendingSaves = g.pendingSaves /\ a.pendingRoots = g.pendingRoots
        /\ a.generation = g.generation /\ a.nextToken = g.nextToken
        /\ a.nextDocument = g.nextDocument /\ a.nextLease = g.nextLease + 1
    BY ONLY <1>1, <1>3 DEF Fields
  <1>. QED BY <1>1, <1>3, <1>4 DEF p

LEMMA LeaseKeeps ==
  ASSUME AuthInv, NEW root \in Directories, NEW doc \in Files, NEW at \in Files \cup {<<>>},
         Lease(root, doc, at), held' = held, bound' = bound, chosen' = chosen
  PROVE  AuthInv' /\ DOMAIN auth'.pendingRoots \subseteq DOMAIN auth.pendingRoots
  <1>. DEFINE n == auth.nextLease
              l == Preview(n, doc, at)
  <1>1. PICK a : a = auth'
    OBVIOUS
  <1>2. /\ Fields(auth) /\ CountersOK(auth) /\ auth.generation \in Nat
        /\ auth.nextDocument \in Nat /\ auth.nextToken \in Nat /\ n \in Nat \ {0}
        /\ IdentitiesOK(auth)
    BY SoundCounts DEF AuthInv
  <1>3. /\ Fields(a) /\ a.grants = Put(auth.grants, Asset(root), l)
        /\ a.workspaces = auth.workspaces
        /\ a.documentWorkspace = auth.documentWorkspace /\ a.identity = auth.identity
        /\ a.pendingSaves = auth.pendingSaves /\ a.pendingRoots = auth.pendingRoots
        /\ a.generation = auth.generation + 1 /\ a.nextToken = auth.nextToken
        /\ a.nextDocument = auth.nextDocument /\ a.nextLease = n + 1
    BY <1>1, LeaseIs
  <1>. DEFINE b == [a EXCEPT !.grants = auth.grants]
  <1>4. /\ Fields(b) /\ b.grants = auth.grants /\ b.workspaces = a.workspaces
        /\ b.documentWorkspace = a.documentWorkspace /\ b.identity = a.identity
        /\ b.generation = a.generation /\ b.nextToken = a.nextToken
        /\ b.nextDocument = a.nextDocument /\ b.nextLease = a.nextLease
    <2>1. b = [a EXCEPT !.grants = auth.grants] /\ Fields(a)
      BY <1>3
    <2>. HIDE DEF b
    <2>. QED BY ONLY <2>1 DEF Fields
  <1>5. n = auth.nextLease
    OBVIOUS
  <1>. HIDE DEF b, n
  <1>6. /\ CountersOK(a) /\ CountersOK(b) /\ IdentitiesOK(b)
        /\ b.nextToken >= auth.nextToken /\ b.nextDocument >= auth.nextDocument
        /\ b.nextLease >= auth.nextLease /\ a.generation > auth.generation
        /\ n \in 1..(b.nextLease - 1)
    BY <1>2, <1>3, <1>4, <1>5 DEF CountersOK, IdentitiesOK, Ids
  <1>7. Sound(b, bound, chosen)
    BY <1>3, <1>4, <1>6, AdvanceSound DEF AuthInv
  <1>8. OriginOK(b, l) /\ l.kind = "preview" /\ Asset(root) \in Keys
    BY <1>6, OriginsApart DEF OriginOK, Keys
  <1>. HIDE DEF l
  <1>9. a.grants = Put(b.grants, Asset(root), l)
    BY <1>3, <1>4
  <1>10. Sound(a, bound, chosen)
    BY <1>3, <1>4, <1>6, <1>7, <1>8, <1>9, PutSound
  <1>11. bound' \subseteq Ids(auth)'
    BY <1>1, <1>3 DEF AuthInv, NumbersOK, Ids
  <1>. QED BY <1>1, <1>2, <1>3, <1>6, <1>10, <1>11, NewerKeeps

LEMMA SupportingIn ==
  ASSUME AuthInv, NEW doc, NEW at, NEW k \in Supporting(auth, tree, doc, at)
  PROVE  k.path \in Directories
  <1>1. k \in Keys /\ k.kind \in {"directory", "asset"}
    BY DEF Supporting, Active, AuthInv, Sound, AuthOK, LedgersOK
  <1>. QED BY <1>1 DEF Keys, Exact, Dir, Asset

LEMMA PreviewKeeps ==
  ASSUME AuthInv, NEW f \in Files,
         PreviewFile(f) \/ \E anchor \in Files : PreviewEmbed(anchor, f)
  PROVE  AuthInv' /\ DOMAIN auth'.pendingRoots \subseteq DOMAIN auth.pendingRoots
  <1>1. CASE PreviewFile(f)
    <2>1. PICK k \in Supporting(auth, tree, f, f) : Lease(k.path, f, <<>>)
      BY <1>1 DEF PreviewFile
    <2>. QED BY <1>1, <2>1, SupportingIn, LeaseKeeps DEF PreviewFile, hist
  <1>2. CASE \E anchor \in Files : PreviewEmbed(anchor, f)
    <2>1. PICK anchor \in Files : PreviewEmbed(anchor, f)
      BY <1>2
    <2>2. Front(f) \in Directories /\ Front(anchor) \in Directories
      BY PathAssumption DEF Paths
    <2>3. Lease(Front(f), f, anchor) \/ Lease(Front(anchor), f, anchor)
      BY <2>1 DEF PreviewEmbed
    <2>. QED BY <2>1, <2>2, <2>3, LeaseKeeps DEF PreviewEmbed, hist
  <1>. QED BY <1>1, <1>2

-------------------------------------------------------------------------------
(* The file system, the receipts, the watch and the bounds.                *)

WorldOK ==
    /\ born \in 0..MaxObjects /\ tree \in [Paths -> 0..born]
    /\ foreign \in 0..MaxForeign
    /\ \A t \in DOMAIN chosen : chosen[t] \in 1..born

BoundsOK ==
    /\ auth.generation <= MaxGeneration
    /\ IsFiniteSet(receipts) /\ Cardinality(receipts) <= MaxReceipts
    /\ IsFiniteSet(DOMAIN auth.pendingRoots)
    /\ Cardinality(DOMAIN auth.pendingRoots) <= MaxPendingRoots

WatchOK ==
    /\ \A w \in watched : w = [path |-> w.path, object |-> w.object, missing |-> w.missing]
    /\ \A v, w \in watched : v = w

Inv == SessionInv /\ WorldOK /\ BoundsOK /\ WatchOK

LEMMA InitWorld ==
  ASSUME Init
  PROVE  WorldOK /\ BoundsOK /\ WatchOK
  <1>. DEFINE s == {p \in Paths : Disk[p] # 0}
              n == Cardinality(s)
  <1>1. n \in Nat /\ n <= MaxObjects /\ Disk \in [Paths -> 0..n]
    <2>1. IsFiniteSet(s)
      <3>1. IsFiniteSet(Paths) /\ s \subseteq Paths
        BY DiskAssumption
      <3>. HIDE DEF s
      <3>. QED BY <3>1, FS_Subset
    <2>2. n \in Nat
      BY <2>1, FS_CardinalityType
    <2>3. n <= MaxObjects /\ Disk \in [Paths -> 0..n]
      BY DiskAssumption
    <2>. QED BY <2>2, <2>3
  <1>2. born = n /\ tree = Disk /\ foreign = 0 /\ chosen = <<>> /\ receipts = {}
        /\ watched = {} /\ auth.generation = 0 /\ auth.pendingRoots = <<>>
    BY DEF Init
  <1>. HIDE DEF n
  <1>3. WorldOK
    BY <1>1, <1>2, BoundAssumption DEF WorldOK
  <1>4. DOMAIN <<>> = {} /\ IsFiniteSet({}) /\ Cardinality({}) = 0
    BY FS_EmptySet
  <1>5. BoundsOK
    BY <1>2, <1>4, BoundAssumption DEF BoundsOK
  <1>. QED BY <1>2, <1>3, <1>5 DEF WatchOK

LEMMA WrittenWorld ==
  ASSUME WorldOK, NEW f \in Paths, Written(f), chosen' = chosen
  PROVE  /\ born' \in 0..MaxObjects /\ tree' \in [Paths -> 0..born']
         /\ \A t \in DOMAIN chosen' : chosen'[t] \in 1..born'
  <1>1. born \in Nat /\ born' = born + 1 /\ born' \in 0..MaxObjects
    BY BoundAssumption DEF WorldOK, Written
  <1>2. 0..born \subseteq 0..born' /\ 1..born \subseteq 1..born' /\ born + 1 \in 0..born'
    BY <1>1
  <1>3. tree' \in [Paths -> 0..born']
    BY <1>2 DEF WorldOK, Written
  <1>. QED BY <1>1, <1>2, <1>3 DEF WorldOK

LEMMA MovedTree ==
  ASSUME WorldOK, NEW src, NEW dst
  PROVE  Moved(src, dst) \in [Paths -> 0..born] /\ Removed(src) \in [Paths -> 0..born]
  <1>1. 0 \in 0..born
    BY DEF WorldOK
  <1>. QED BY <1>1 DEF WorldOK, Moved, Removed

LEMMA RewatchKeeps ==
  ASSUME WatchOK, TouchedOK, NEW f, NEW object, Rewatch(f, object)
  PROVE  WatchOK' /\ \A w \in watched' : w.path \in Files
  <1>. DEFINE m(w) == IF w.path # f THEN w
                      ELSE [w EXCEPT !.missing = FALSE,
                                     !.object = IF object = 0 THEN @ ELSE object]
  <1>1. watched' = {m(w) : w \in watched}
    BY DEF Rewatch
  <1>2. ASSUME NEW w \in watched
        PROVE  /\ m(w) = [path |-> m(w).path, object |-> m(w).object, missing |-> m(w).missing]
               /\ m(w).path = w.path
    <2>1. w = [path |-> w.path, object |-> w.object, missing |-> w.missing]
      BY DEF WatchOK
    <2>. QED BY ONLY <2>1
  <1>. HIDE DEF m
  <1>. QED BY <1>1, <1>2 DEF WatchOK, TouchedOK

LEMMA SameWatch ==
  ASSUME WatchOK, TouchedOK, watched' = watched
  PROVE  WatchOK' /\ \A w \in watched' : w.path \in Files
  BY DEF WatchOK, TouchedOK

(* The receipts, the watch and the rename under way, step by step.         *)
TouchedKept ==
    /\ WatchOK' /\ TouchedOK'
    /\ IsFiniteSet(receipts') /\ Cardinality(receipts') <= MaxReceipts

LEMMA SmallerReceipts ==
  ASSUME BoundsOK, receipts' \subseteq receipts
  PROVE  IsFiniteSet(receipts') /\ Cardinality(receipts') <= MaxReceipts
  <1>1. /\ IsFiniteSet(receipts') /\ Cardinality(receipts') <= Cardinality(receipts)
        /\ Cardinality(receipts) \in Nat /\ Cardinality(receipts') \in Nat
    BY FS_Subset, FS_CardinalityType DEF BoundsOK
  <1>. QED BY <1>1, BoundAssumption DEF BoundsOK

LEMMA OneMore ==
  ASSUME NEW s, NEW t, NEW e, IsFiniteSet(s), t = s \cup {e}
  PROVE  /\ IsFiniteSet(t) /\ Cardinality(t) <= Cardinality(s) + 1
         /\ Cardinality(s) \in Nat /\ Cardinality(t) \in Nat
  BY FS_AddElement, FS_CardinalityType

LEMMA PrepareOpenTouched ==
  ASSUME Inv, NEW f \in Files, PrepareOpen(f)
  PROVE  TouchedKept
  <1>1. PICK r : r.path = f /\ receipts' = receipts \cup {r}
    <2>1. CASE receipts' = receipts \cup {[path |-> f, token |-> 0, root |-> 0, object |-> 0]}
      BY <2>1
    <2>2. CASE \E t \in DOMAIN auth.workspaces :
                 receipts' = receipts \cup
                   {[path |-> f, token |-> t, root |-> auth.workspaces[t].identity,
                     object |-> tree[f]]}
      BY <2>2
    <2>. QED BY <2>1, <2>2 DEF PrepareOpen
  <1>2. /\ IsFiniteSet(receipts') /\ Cardinality(receipts') <= Cardinality(receipts) + 1
        /\ Cardinality(receipts) \in Nat /\ Cardinality(receipts') \in Nat
    BY <1>1, OneMore DEF Inv, BoundsOK
  <1>3. Cardinality(receipts') <= MaxReceipts
    BY <1>2, BoundAssumption DEF PrepareOpen
  <1>4. TouchedOK'
    BY <1>1 DEF Inv, SessionInv, TouchedOK, PrepareOpen
  <1>5. WatchOK'
    BY SameWatch DEF Inv, SessionInv, PrepareOpen
  <1>. QED BY <1>2, <1>3, <1>4, <1>5 DEF TouchedKept

LEMMA ReceiptTouched ==
  ASSUME Inv, receipts' \subseteq receipts, watched' = watched, renaming' = renaming
  PROVE  TouchedKept
  BY SmallerReceipts, SameWatch DEF Inv, SessionInv, TouchedOK, TouchedKept

LEMMA WatchTouched ==
  ASSUME Inv, receipts' \subseteq receipts, renaming' = renaming,
         \/ \E f, object : Rewatch(f, object)
         \/ \E f \in Files : \E object, missing :
               watched' = {[path |-> f, object |-> object, missing |-> missing]}
         \/ \E w \in watched : \E missing : watched' = {[w EXCEPT !.missing = missing]}
  PROVE  TouchedKept
  <1>1. WatchOK' /\ \A w \in watched' : w.path \in Files
    <2>1. CASE \E f, object : Rewatch(f, object)
      BY <2>1, RewatchKeeps DEF Inv, SessionInv
    <2>2. CASE \E f \in Files : \E object, missing :
                  watched' = {[path |-> f, object |-> object, missing |-> missing]}
      BY <2>2 DEF WatchOK
    <2>3. CASE \E w \in watched : \E missing : watched' = {[w EXCEPT !.missing = missing]}
      <3>0. PICK w \in watched : \E missing : watched' = {[w EXCEPT !.missing = missing]}
        BY <2>3
      <3>1. PICK missing : watched' = {[w EXCEPT !.missing = missing]}
        BY <3>0
      <3>2. /\ w = [path |-> w.path, object |-> w.object, missing |-> w.missing]
            /\ w.path \in Files
        BY DEF Inv, SessionInv, WatchOK, TouchedOK
      <3>3. PICK v : v = [w EXCEPT !.missing = missing]
        OBVIOUS
      <3>4. v = [path |-> v.path, object |-> v.object, missing |-> v.missing]
            /\ v.path = w.path
        BY ONLY <3>2, <3>3
      <3>. QED BY <3>1, <3>2, <3>3, <3>4 DEF WatchOK
    <2>. QED BY <2>1, <2>2, <2>3
  <1>2. TouchedOK'
    BY <1>1 DEF Inv, SessionInv, TouchedOK
  <1>. QED BY <1>1, <1>2, SmallerReceipts DEF Inv, TouchedKept

LEMMA RenameTouched ==
  ASSUME Inv, receipts' = receipts, watched' = watched,
         renaming' # NoRename => renaming' \in Renamings /\ <<renaming'.old, renaming'.new>> \in Moves
  PROVE  TouchedKept
  <1>2. TouchedOK'
    BY DEF Inv, SessionInv, TouchedOK
  <1>. QED BY <1>2, SmallerReceipts, SameWatch DEF Inv, SessionInv, TouchedKept

(* What a rename suspends is of the keys, and so is its record.            *)
LEMMA RenameTyped ==
  ASSUME Inv, NEW m \in Moves
  PROVE  [old |-> m[1], new |-> m[2], transitioned |-> Suspendable(auth, {m[1], m[2]}), found |-> <<>>]
           \in Renamings /\ <<m[1], m[2]>> \in Moves
  <1>1. m[1] \in Paths /\ m[2] \in Paths /\ <<m[1], m[2]>> \in Moves
    BY PathAssumption
  <1>2. Suspendable(auth, {m[1], m[2]}) \subseteq Keys
    BY DEF Suspendable, Active, Inv, SessionInv, AuthInv, Sound, AuthOK, LedgersOK
  <1>3. <<>> \in UNION {[1..n -> Looks] : n \in 0..2}
    <2>1. <<>> \in [1..0 -> Looks]
      OBVIOUS
    <2>. QED BY <2>1
  <1>. QED BY <1>1, <1>2, <1>3 DEF Renamings

(* Looking at a path leaves the rename what it is.                         *)
LEMMA ObserveTyped ==
  ASSUME Inv, ObserveRename
  PROVE  renaming' \in Renamings /\ <<renaming'.old, renaming'.new>> \in Moves
  <1>1. renaming \in Renamings /\ <<renaming.old, renaming.new>> \in Moves
    BY DEF Inv, SessionInv, TouchedOK, ObserveRename
  <1>2. PICK n \in 0..2 : renaming.found \in [1..n -> Looks]
    BY <1>1 DEF Renamings
  <1>3. PICK found : found = renaming.found
    OBVIOUS
  <1>4. found \in Seq(Looks) /\ Len(found) = n /\ n < 2
    <2>1. found \in Seq(Looks) /\ Len(found) = n
      BY <1>3, <1>2
    <2>. QED BY <1>3, <2>1 DEF ObserveRename
  <1>5. PICK e \in Looks : renaming' = [old |-> renaming.old, new |-> renaming.new,
                              transitioned |-> renaming.transitioned, found |-> Append(found, e)]
    BY <1>3 DEF ObserveRename, Evidence, Looks
  <1>6. Append(found, e) \in [1..n + 1 -> Looks] /\ n + 1 \in 0..2
    <2>1. /\ Append(found, e) \in Seq(Looks) /\ Len(Append(found, e)) = n + 1
      BY <1>4, <1>5
    <2>2. \A s \in Seq(Looks) : s \in [1..Len(s) -> Looks]
      OBVIOUS
    <2>3. Append(found, e) \in [1..n + 1 -> Looks]
      BY ONLY <2>1, <2>2
    <2>4. n + 1 \in 0..2
      BY <1>2, <1>4
    <2>. QED BY <2>3, <2>4
  <1>7. Append(found, e) \in UNION {[1..k -> Looks] : k \in 0..2}
    BY <1>6
  <1>. QED BY <1>1, <1>5, <1>7 DEF Renamings

(* The parts of the invariant put together.                                *)
LEMMA Combine ==
  ASSUME Inv, AuthInv', DOMAIN auth'.pendingRoots \subseteq DOMAIN auth.pendingRoots,
         TouchedKept, WorldOK', auth' = auth \/ auth'.generation <= MaxGeneration
  PROVE  Inv'
  <1>1. /\ IsFiniteSet(DOMAIN auth'.pendingRoots)
        /\ Cardinality(DOMAIN auth'.pendingRoots) <= MaxPendingRoots
    <2>1. PICK s, t : s = DOMAIN auth.pendingRoots /\ t = DOMAIN auth'.pendingRoots
      OBVIOUS
    <2>2. IsFiniteSet(s) /\ Cardinality(s) <= MaxPendingRoots /\ t \subseteq s
      BY <2>1 DEF Inv, BoundsOK
    <2>3. /\ IsFiniteSet(t) /\ Cardinality(t) <= Cardinality(s)
          /\ Cardinality(s) \in Nat /\ Cardinality(t) \in Nat
      BY <2>2, FS_Subset, FS_CardinalityType
    <2>4. Cardinality(t) <= MaxPendingRoots
      BY <2>2, <2>3, BoundAssumption
    <2>. QED BY <2>1, <2>3, <2>4
  <1>2. auth'.generation <= MaxGeneration
    BY DEF Inv, BoundsOK
  <1>3. BoundsOK'
    BY <1>1, <1>2 DEF TouchedKept, BoundsOK
  <1>. QED BY <1>3 DEF Inv, SessionInv, TouchedKept

LEMMA SameWorld ==
  ASSUME WorldOK, UNCHANGED <<env, chosen>>
  PROVE  WorldOK'
  BY DEF WorldOK, env

LEMMA OpenDirectoryStep ==
  ASSUME Inv, NEW r \in Roots, OpenDirectory(r)
  PROVE  Inv'
  <1>1. AuthInv' /\ DOMAIN auth'.pendingRoots \subseteq DOMAIN auth.pendingRoots
    BY OpenDirectoryKeeps DEF Inv, SessionInv
  <1>2. WorldOK'
    <2>1. r \in Paths /\ tree[r] # 0
      BY PathAssumption DEF Paths, OpenDirectory
    <2>2. tree[r] \in 1..born
      BY <2>1 DEF Inv, WorldOK
    <2>. QED BY <2>2 DEF Inv, WorldOK, OpenDirectory, Chosen, env
  <1>3. TouchedKept
    BY ReceiptTouched DEF OpenDirectory
  <1>. QED BY <1>1, <1>2, <1>3, Combine DEF OpenDirectory, Become

LEMMA PrepareWorkspaceStep ==
  ASSUME Inv, NEW r \in Roots, PrepareWorkspace(r)
  PROVE  Inv'
  <1>1. AuthInv' /\ DOMAIN auth'.pendingRoots = DOMAIN auth.pendingRoots \cup {auth.nextToken}
    BY PrepareKeeps DEF Inv, SessionInv
  <1>2. WorldOK'
    <2>1. r \in Paths /\ tree[r] # 0
      BY PathAssumption DEF Paths, PrepareWorkspace
    <2>2. tree[r] \in 1..born
      BY <2>1 DEF Inv, WorldOK
    <2>. QED BY <2>2 DEF Inv, WorldOK, PrepareWorkspace, Chosen, env
  <1>3. TouchedKept
    BY ReceiptTouched DEF PrepareWorkspace
  <1>4. /\ IsFiniteSet(DOMAIN auth'.pendingRoots)
        /\ Cardinality(DOMAIN auth'.pendingRoots) <= MaxPendingRoots
    <2>1. PICK s, t : s = DOMAIN auth.pendingRoots /\ t = DOMAIN auth'.pendingRoots
      OBVIOUS
    <2>2. IsFiniteSet(s) /\ Cardinality(s) < MaxPendingRoots /\ t = s \cup {auth.nextToken}
      BY <1>1, <2>1 DEF Inv, BoundsOK, PrepareWorkspace
    <2>3. /\ IsFiniteSet(t) /\ Cardinality(t) <= Cardinality(s) + 1
          /\ Cardinality(s) \in Nat /\ Cardinality(t) \in Nat
      BY <2>2, OneMore
    <2>4. Cardinality(t) <= MaxPendingRoots
      BY <2>2, <2>3, BoundAssumption
    <2>. QED BY <2>1, <2>3, <2>4
  <1>5. auth'.generation <= MaxGeneration
    BY DEF PrepareWorkspace, Become
  <1>6. BoundsOK'
    BY <1>3, <1>4, <1>5 DEF TouchedKept, BoundsOK
  <1>. QED BY <1>1, <1>2, <1>3, <1>6 DEF Inv, SessionInv, TouchedKept

LEMMA PendingStep ==
  ASSUME Inv, NEW t \in DOMAIN auth.pendingRoots, SettleWorkspace(t) \/ ExpireWorkspace(t)
  PROVE  Inv'
  <1>1. AuthInv' /\ DOMAIN auth'.pendingRoots \subseteq DOMAIN auth.pendingRoots
    <2>1. CASE SettleWorkspace(t)
      BY <2>1, SettleKeeps DEF Inv, SessionInv
    <2>2. CASE ExpireWorkspace(t)
      <3>1. auth' = Dropped(auth, t)
        BY <2>2 DEF ExpireWorkspace, Dropped
      <3>. QED BY <2>2, <3>1, DropKeeps DEF Inv, SessionInv, ExpireWorkspace, hist
    <2>. QED BY <2>1, <2>2
  <1>2. WorldOK'
    BY SameWorld DEF Inv, SettleWorkspace, ExpireWorkspace, hist
  <1>3. TouchedKept
    BY ReceiptTouched DEF SettleWorkspace, ExpireWorkspace
  <1>4. auth'.generation <= MaxGeneration
    <2>1. CASE SettleWorkspace(t)
      BY <2>1 DEF SettleWorkspace, Become
    <2>2. CASE ExpireWorkspace(t)
      <3>1. auth' = Dropped(auth, t)
        BY <2>2 DEF ExpireWorkspace, Dropped
      <3>2. auth'.generation = auth.generation
        BY <3>1, DroppedIs DEF Inv, SessionInv, AuthInv
      <3>. QED BY <3>2 DEF Inv, BoundsOK
    <2>. QED BY <2>1, <2>2
  <1>. QED BY <1>1, <1>2, <1>3, <1>4, Combine

LEMMA ReceiptStep ==
  ASSUME Inv,
         \/ \E f \in Files : PrepareOpen(f)
         \/ \E r \in receipts : CommitOpen(r) \/ DropReceipt(r)
  PROVE  Inv'
  <1>1. CASE \E f \in Files : PrepareOpen(f)
    <2>1. PICK f \in Files : PrepareOpen(f)
      BY <1>1
    <2>2. auth' = auth /\ held' = held /\ UNCHANGED <<env, chosen>> /\ bound' = bound
      BY <2>1 DEF PrepareOpen, hist
    <2>3. AuthInv' /\ DOMAIN auth'.pendingRoots \subseteq DOMAIN auth.pendingRoots
      BY <2>2, SameKeeps DEF Inv, SessionInv
    <2>4. TouchedKept
      BY <2>1, PrepareOpenTouched
    <2>. QED BY <2>2, <2>3, <2>4, SameWorld, Combine DEF Inv
  <1>2. CASE \E r \in receipts : DropReceipt(r)
    <2>1. PICK r \in receipts : DropReceipt(r)
      BY <1>2
    <2>2. auth' = auth /\ held' = held /\ UNCHANGED <<env, chosen>> /\ bound' = bound
      BY <2>1 DEF DropReceipt, hist
    <2>3. AuthInv' /\ DOMAIN auth'.pendingRoots \subseteq DOMAIN auth.pendingRoots
      BY <2>2, SameKeeps DEF Inv, SessionInv
    <2>4. TouchedKept
      BY <2>1, ReceiptTouched DEF DropReceipt
    <2>. QED BY <2>2, <2>3, <2>4, SameWorld, Combine DEF Inv
  <1>3. CASE \E r \in receipts : CommitOpen(r)
    <2>1. PICK r \in receipts : CommitOpen(r)
      BY <1>3
    <2>2. AuthInv' /\ DOMAIN auth'.pendingRoots \subseteq DOMAIN auth.pendingRoots
      BY <2>1, CommitOpenKeeps DEF Inv, SessionInv, TouchedOK
    <2>3. TouchedKept
      BY <2>1, ReceiptTouched DEF CommitOpen
    <2>4. auth'.generation <= MaxGeneration
      BY <2>1 DEF CommitOpen, Become
    <2>5. UNCHANGED <<env, chosen>>
      BY <2>1 DEF CommitOpen
    <2>. QED BY <2>2, <2>3, <2>4, <2>5, SameWorld, Combine DEF Inv
  <1>. QED BY <1>1, <1>2, <1>3

LEMMA FileIsPath ==
  ASSUME NEW f \in Files
  PROVE  f \in Paths /\ Front(f) \in Paths
  BY PathAssumption DEF Paths

LEMMA WrittenStep ==
  ASSUME WorldOK, NEW f \in Paths, Written(f), chosen' = chosen, foreign' \in 0..MaxForeign
  PROVE  WorldOK'
  BY WrittenWorld DEF WorldOK

LEMMA SaveStep ==
  ASSUME Inv, NEW f \in Files, SaveDocument(f) \/ SaveUncertain(f) \/ ReserveSaveAs(f)
  PROVE  Inv'
  <1>1. CASE SaveDocument(f)
    <2>1. AuthInv' /\ DOMAIN auth'.pendingRoots \subseteq DOMAIN auth.pendingRoots
      BY <1>1, SaveKeeps DEF Inv, SessionInv
    <2>2. WorldOK'
      BY <1>1, FileIsPath, WrittenStep DEF Inv, WorldOK, SaveDocument, hist
    <2>3. TouchedKept
      BY <1>1, WatchTouched DEF SaveDocument
    <2>. QED BY <1>1, <2>1, <2>2, <2>3, Combine DEF SaveDocument, Become
  <1>2. CASE SaveUncertain(f)
    <2>1. AuthInv' /\ DOMAIN auth'.pendingRoots \subseteq DOMAIN auth.pendingRoots
      BY <1>2, SameKeeps DEF Inv, SessionInv, SaveUncertain, hist
    <2>2. WorldOK'
      BY <1>2, FileIsPath, WrittenStep DEF Inv, WorldOK, SaveUncertain, hist
    <2>3. TouchedKept
      BY <1>2, WatchTouched DEF SaveUncertain
    <2>. QED BY <1>2, <2>1, <2>2, <2>3, Combine DEF SaveUncertain
  <1>3. CASE ReserveSaveAs(f)
    <2>1. AuthInv' /\ DOMAIN auth'.pendingRoots \subseteq DOMAIN auth.pendingRoots
      BY <1>3, ReserveKeeps DEF Inv, SessionInv
    <2>2. WorldOK'
      BY <1>3, SameWorld DEF Inv, ReserveSaveAs, hist
    <2>3. TouchedKept
      BY <1>3, ReceiptTouched DEF ReserveSaveAs
    <2>. QED BY <1>3, <2>1, <2>2, <2>3, Combine DEF ReserveSaveAs, Become
  <1>. QED BY <1>1, <1>2, <1>3

LEMMA SaveAsStep ==
  ASSUME Inv, NEW h \in held, PublishSaveAs(h) \/ InvalidateSaveAs(h)
  PROVE  Inv'
  <1>0. h.path \in Files /\ h.path \in Paths
    BY FileIsPath DEF Inv, SessionInv, AuthInv, SavesOK
  <1>1. AuthInv' /\ DOMAIN auth'.pendingRoots \subseteq DOMAIN auth.pendingRoots
    BY PublishKeeps, InvalidateKeeps DEF Inv, SessionInv
  <1>2. WorldOK'
    <2>1. foreign' \in 0..MaxForeign /\ chosen' = chosen /\ WorldOK
      BY DEF Inv, WorldOK, PublishSaveAs, InvalidateSaveAs, hist
    <2>2. CASE Written(h.path)
      BY <1>0, <2>1, <2>2, WrittenStep
    <2>3. CASE UNCHANGED <<tree, born>>
      BY <2>1, <2>3 DEF WorldOK
    <2>. QED BY <2>2, <2>3 DEF PublishSaveAs, InvalidateSaveAs
  <1>3. TouchedKept
    BY WatchTouched DEF PublishSaveAs, InvalidateSaveAs
  <1>4. auth'.generation <= MaxGeneration
    BY DEF PublishSaveAs, InvalidateSaveAs, Become
  <1>. QED BY <1>1, <1>2, <1>3, <1>4, Combine

LEMMA RenameStep ==
  ASSUME Inv, NEW t, NEW m \in Moves, Rename(t, m[1], m[2])
  PROVE  Inv'
  <1>1. AuthInv' /\ DOMAIN auth'.pendingRoots \subseteq DOMAIN auth.pendingRoots
    BY RenameKeeps DEF Inv, SessionInv
  <1>2. WorldOK'
    <2>1. tree' \in [Paths -> 0..born]
      BY MovedTree DEF Inv, WorldOK, Rename
    <2>. QED BY <2>1 DEF Inv, WorldOK, Rename, hist
  <1>3. TouchedKept
    <2>1. receipts' = receipts /\ watched' = watched
      BY DEF Rename
    <2>2. CASE UNCHANGED renaming
      BY <2>1, <2>2, ReceiptTouched
    <2>3. CASE renaming' = [old |-> m[1], new |-> m[2],
                            transitioned |-> Suspendable(auth, {m[1], m[2]}), found |-> <<>>]
      BY <2>1, <2>3, RenameTyped, RenameTouched
    <2>. QED BY <2>2, <2>3 DEF Rename
  <1>. QED BY <1>1, <1>2, <1>3, Combine DEF Rename, Become

LEMMA EntryInv ==
  ASSUME Inv, EntryStep
  PROVE  Inv'
  <1>1. CASE \E t \in DOMAIN auth.workspaces, m \in Moves : Rename(t, m[1], m[2])
    BY <1>1, RenameStep
  <1>2. CASE \E t \in DOMAIN auth.workspaces, f \in Files : CreateFile(t, f)
    <2>1. PICK t \in DOMAIN auth.workspaces, f \in Files : CreateFile(t, f)
      BY <1>2
    <2>2. AuthInv' /\ DOMAIN auth'.pendingRoots \subseteq DOMAIN auth.pendingRoots
      BY <2>1, CreateFileKeeps DEF Inv, SessionInv
    <2>3. WorldOK'
      BY <2>1, FileIsPath, WrittenStep DEF Inv, WorldOK, CreateFile, hist
    <2>4. TouchedKept
      BY <2>1, ReceiptTouched DEF CreateFile
    <2>. QED BY <2>1, <2>2, <2>3, <2>4, Combine DEF CreateFile, Become
  <1>3. CASE \E t \in DOMAIN auth.workspaces, p \in Paths : Trash(t, p)
    <2>1. PICK t \in DOMAIN auth.workspaces, p \in Paths : Trash(t, p)
      BY <1>3
    <2>2. AuthInv' /\ DOMAIN auth'.pendingRoots \subseteq DOMAIN auth.pendingRoots
      BY <2>1, TrashKeeps DEF Inv, SessionInv
    <2>3. WorldOK'
      <3>1. tree' \in [Paths -> 0..born]
        BY <2>1, MovedTree DEF Inv, WorldOK, Trash
      <3>. QED BY <2>1, <3>1 DEF Inv, WorldOK, Trash, hist
    <2>4. TouchedKept
      BY <2>1, ReceiptTouched DEF Trash
    <2>. QED BY <2>1, <2>2, <2>3, <2>4, Combine DEF Trash, Become
  <1>4. CASE ReconcileRename
    <2>1. AuthInv' /\ DOMAIN auth'.pendingRoots \subseteq DOMAIN auth.pendingRoots
      BY <1>4, ReconcileKeeps DEF Inv, SessionInv
    <2>2. WorldOK'
      BY <1>4, SameWorld DEF Inv, ReconcileRename, hist
    <2>3. TouchedKept
      BY <1>4, RenameTouched DEF ReconcileRename
    <2>. QED BY <1>4, <2>1, <2>2, <2>3, Combine DEF ReconcileRename, Become
  <1>5. CASE ObserveRename
    <2>1. /\ UNCHANGED <<env, chosen>> /\ UNCHANGED <<auth, held, bound>>
          /\ receipts' = receipts /\ watched' = watched
      BY <1>5 DEF ObserveRename, hist
    <2>2. AuthInv' /\ DOMAIN auth'.pendingRoots \subseteq DOMAIN auth.pendingRoots
      BY <2>1, SameKeeps DEF Inv, SessionInv
    <2>3. TouchedKept
      BY <1>5, <2>1, ObserveTyped, RenameTouched
    <2>. QED BY <2>1, <2>2, <2>3, SameWorld, Combine DEF Inv
  <1>. QED BY <1>1, <1>2, <1>3, <1>4, <1>5 DEF EntryStep

LEMMA PreviewInv ==
  ASSUME Inv, PreviewStep
  PROVE  Inv'
  <1>1. CASE \E f \in Files : PreviewFile(f) \/ \E anchor \in Files : PreviewEmbed(anchor, f)
    <2>1. PICK f \in Files : PreviewFile(f) \/ \E anchor \in Files : PreviewEmbed(anchor, f)
      BY <1>1
    <2>2. AuthInv' /\ DOMAIN auth'.pendingRoots \subseteq DOMAIN auth.pendingRoots
      BY <2>1, PreviewKeeps DEF Inv, SessionInv
    <2>3. /\ UNCHANGED <<env, chosen>>
          /\ receipts' = receipts /\ watched' = watched /\ renaming' = renaming
      BY <2>1 DEF PreviewFile, PreviewEmbed, hist
    <2>4. auth'.generation <= MaxGeneration
      BY <2>1 DEF PreviewFile, PreviewEmbed, Lease, Become
    <2>. QED BY <2>2, <2>3, <2>4, SameWorld, ReceiptTouched, Combine DEF Inv
  <1>2. CASE \E l \in Leases(auth) : RetirePreview(l)
    <2>1. PICK l \in Leases(auth) : RetirePreview(l)
      BY <1>2
    <2>2. AuthInv' /\ DOMAIN auth'.pendingRoots \subseteq DOMAIN auth.pendingRoots
      BY <2>1, RetireKeeps DEF Inv, SessionInv
    <2>3. /\ UNCHANGED <<env, chosen>>
          /\ receipts' = receipts /\ watched' = watched /\ renaming' = renaming
      BY <2>1 DEF RetirePreview, hist
    <2>4. auth'.generation <= MaxGeneration
      BY <2>1 DEF RetirePreview, Become
    <2>. QED BY <2>2, <2>3, <2>4, SameWorld, ReceiptTouched, Combine DEF Inv
  <1>. QED BY <1>1, <1>2 DEF PreviewStep

LEMMA WatchInv ==
  ASSUME Inv, WatchStep
  PROVE  Inv'
  <1>1. CASE \E f \in Files : WatchStart(f)
    <2>1. PICK f \in Files : WatchStart(f)
      BY <1>1
    <2>2. AuthInv' /\ DOMAIN auth'.pendingRoots \subseteq DOMAIN auth.pendingRoots
      BY <2>1, SameKeeps DEF Inv, SessionInv, WatchStart, hist
    <2>3. TouchedKept
      BY <2>1, WatchTouched DEF WatchStart
    <2>4. UNCHANGED <<env, chosen>> /\ auth' = auth
      BY <2>1 DEF WatchStart, hist
    <2>. QED BY <2>2, <2>3, <2>4, SameWorld, Combine DEF Inv
  <1>2. CASE \E w \in watched : WatchMisses(w)
    <2>1. PICK w \in watched : WatchMisses(w)
      BY <1>2
    <2>2. AuthInv' /\ DOMAIN auth'.pendingRoots \subseteq DOMAIN auth.pendingRoots
      BY <2>1, SameKeeps DEF Inv, SessionInv, WatchMisses, hist
    <2>3. TouchedKept
      BY <2>1, WatchTouched DEF WatchMisses
    <2>4. UNCHANGED <<env, chosen>> /\ auth' = auth
      BY <2>1 DEF WatchMisses, hist
    <2>. QED BY <2>2, <2>3, <2>4, SameWorld, Combine DEF Inv
  <1>3. CASE \E w \in watched : WatchRevokes(w) \/ \E f \in Files : WatchFollows(w, f)
    <2>1. PICK w \in watched : WatchRevokes(w) \/ \E f \in Files : WatchFollows(w, f)
      BY <1>3
    <2>2. AuthInv' /\ DOMAIN auth'.pendingRoots \subseteq DOMAIN auth.pendingRoots
      BY <2>1, WatchKeeps DEF Inv, SessionInv
    <2>3. TouchedKept
      BY <2>1, WatchTouched DEF WatchRevokes, WatchFollows
    <2>4. UNCHANGED <<env, chosen>> /\ auth'.generation <= MaxGeneration
      BY <2>1 DEF WatchRevokes, WatchFollows, Become, hist
    <2>. QED BY <2>2, <2>3, <2>4, SameWorld, Combine DEF Inv
  <1>. QED BY <1>1, <1>2, <1>3 DEF WatchStep

LEMMA ForeignInv ==
  ASSUME Inv, ForeignStep
  PROVE  Inv'
  <1>1. /\ UNCHANGED <<auth, held, chosen, bound>>
        /\ UNCHANGED <<receipts, renaming, watched>>
        /\ foreign < MaxForeign /\ foreign' = foreign + 1
    BY DEF ForeignStep, ForeignReplace, ForeignMove, ForeignRemove, hist
  <1>2. AuthInv' /\ DOMAIN auth'.pendingRoots \subseteq DOMAIN auth.pendingRoots
    BY <1>1, SameKeeps DEF Inv, SessionInv
  <1>3. foreign' \in 0..MaxForeign
    BY <1>1, BoundAssumption DEF Inv, WorldOK
  <1>4. WorldOK'
    <2>1. CASE \E p \in Files \cup Roots : ForeignReplace(p)
      <3>1. PICK p \in Files \cup Roots : ForeignReplace(p)
        BY <2>1
      <3>2. p \in Paths
        BY PathAssumption DEF Paths
      <3>. QED BY <1>1, <1>3, <3>1, <3>2, WrittenStep DEF Inv, ForeignReplace
    <2>2. CASE \/ \E m \in Moves : ForeignMove(m[1], m[2])
               \/ \E p \in Paths : ForeignRemove(p)
      <3>1. tree' \in [Paths -> 0..born] /\ born' = born
        BY <2>2, MovedTree DEF Inv, ForeignMove, ForeignRemove
      <3>. QED BY <1>1, <1>3, <3>1 DEF Inv, WorldOK
    <2>. QED BY <2>1, <2>2 DEF ForeignStep
  <1>5. TouchedKept
    BY <1>1, ReceiptTouched
  <1>. QED BY <1>1, <1>2, <1>4, <1>5, Combine

(* Every step, or none.                                                    *)
LEMMA Step ==
  ASSUME Inv, [Next]_vars
  PROVE  Inv'
  <1>1. CASE WorkspaceStep
    BY <1>1, OpenDirectoryStep, PrepareWorkspaceStep, PendingStep DEF WorkspaceStep
  <1>2. CASE DocumentStep
    BY <1>2, ReceiptStep, SaveStep, SaveAsStep DEF DocumentStep
  <1>3. CASE EntryStep \/ PreviewStep \/ WatchStep \/ ForeignStep
    BY <1>3, EntryInv, PreviewInv, WatchInv, ForeignInv
  <1>4. CASE UNCHANGED vars
    <2>1. /\ UNCHANGED <<env, chosen>> /\ UNCHANGED <<auth, held, bound>>
          /\ UNCHANGED <<receipts, renaming, watched>>
      BY <1>4 DEF vars, env, hist
    <2>2. AuthInv' /\ DOMAIN auth'.pendingRoots \subseteq DOMAIN auth.pendingRoots
      BY <2>1, SameKeeps DEF Inv, SessionInv
    <2>. QED BY <2>1, <2>2, SameWorld, ReceiptTouched, Combine DEF Inv
  <1>. QED BY <1>1, <1>2, <1>3, <1>4 DEF Next

-------------------------------------------------------------------------------
(* The theorems.                                                           *)

(* The invariant holds of every reachable state.                           *)
LEMMA InvHolds == Spec => []Inv
  <1>1. Init => Inv
    BY InitInv, InitWorld DEF Inv
  <1>2. Inv /\ [Next]_vars => Inv'
    BY Step
  <1>. QED BY <1>1, <1>2, PTL DEF Spec

(* OriginsAreBound: a document opened through a workspace keeps the        *)
(* binding its authority rests on, and a token the directory its user      *)
(* selected.                                                               *)
THEOREM OriginsCorrect == Spec => []OriginsAreBound
  <1>1. Inv => OriginsAreBound
    BY DEF Inv, SessionInv, AuthInv, Sound, StaysBound, IsChosen,
           OriginsAreBound, WorkspaceOpenStaysBound, PublishedRootIsChosen
  <1>. QED BY <1>1, InvHolds, PTL

(* GrantsStayInPlace: wherever a workspace moves its grants are, and a     *)
(* reserved save-as finds the ledgers absent that it is going to insert.   *)
THEOREM GrantsCorrect == Spec => []GrantsStayInPlace
  <1>1. ASSUME Inv
        PROVE  GrantsFollowRoots
    <2>1. LedgersOK(auth) /\ FollowsRoots(auth)
      BY <1>1 DEF Inv, SessionInv, AuthInv, Sound, AuthOK
    <2>2. ASSUME NEW t \in DOMAIN auth.workspaces
          PROVE  /\ Dir(auth.workspaces[t].root) \in Active(auth)
                 /\ Workspace(t) \in auth.grants[Dir(auth.workspaces[t].root)].origins
      <3>1. PICK k : k = Dir(auth.workspaces[t].root)
        OBVIOUS
      <3>2. k \in DOMAIN auth.grants /\ Workspace(t) \in auth.grants[k].origins
        BY <2>1, <3>1 DEF FollowsRoots
      <3>3. auth.grants[k].active
        BY <2>1, <3>1, <3>2 DEF LedgersOK, Dir
      <3>. QED BY <3>1, <3>2, <3>3 DEF Active
    <2>. QED BY <2>1, <2>2 DEF FollowsRoots, GrantsFollowRoots
  <1>2. Inv => GrantsStayInPlace
    BY <1>1 DEF Inv, SessionInv, AuthInv, SavesOK, GrantsStayInPlace
  <1>. QED BY <1>2, InvHolds, PTL

LEMMA AtMostOne ==
  ASSUME NEW s, \A x, y \in s : x = y
  PROVE  Cardinality(s) <= 1
  <1>1. CASE s = {}
    BY <1>1, FS_EmptySet
  <1>2. CASE s # {}
    <2>1. PICK x : x \in s
      BY <1>2
    <2>2. s = {x}
      BY <2>1
    <2>. QED BY <2>2, FS_Singleton
  <1>. QED BY <1>1, <1>2

(* TypeOK: no ledger is left without an origin and no origin without the   *)
(* number that was given to it, and the pending work is bounded.           *)
THEOREM TypeCorrect == Spec => []TypeOK
  <1>1. ASSUME Inv
        PROVE  TypeOK
    <2>1. /\ CountersOK(auth) /\ LedgersOK(auth) /\ WorkspacesOK(auth)
          /\ IdentitiesOK(auth) /\ IsChosen(auth, chosen)
          /\ SavesOK /\ TouchedOK /\ WorldOK /\ BoundsOK /\ WatchOK
      BY <1>1 DEF Inv, SessionInv, AuthInv, Sound, AuthOK
    <2>2. /\ born \in 0..MaxObjects /\ tree \in [Paths -> 0..born]
          /\ foreign \in 0..MaxForeign
      BY <2>1 DEF WorldOK
    <2>3. auth.generation \in 0..MaxGeneration
      BY <2>1, BoundAssumption DEF CountersOK, BoundsOK
    <2>4. DOMAIN auth.grants \subseteq Keys
      BY <2>1 DEF LedgersOK
    <2>5. ASSUME NEW k \in DOMAIN auth.grants
          PROVE  /\ auth.grants[k].active \in BOOLEAN
                 /\ auth.grants[k].origins # {}
                 /\ \A o \in auth.grants[k].origins : OriginIsTyped(auth, o)
      BY <2>1, OriginTyped DEF LedgersOK, LedgerOK
    <2>6. ASSUME NEW t \in DOMAIN auth.workspaces
          PROVE  /\ t \in 1..auth.nextToken - 1
                 /\ auth.workspaces[t].root \in Directories
                 /\ auth.workspaces[t].identity \in 1..born
      BY <2>1 DEF WorkspacesOK, IsChosen, WorldOK
    <2>7. DOMAIN auth.documentWorkspace \cup DOMAIN auth.identity \subseteq Ids(auth)
      BY <2>1 DEF IdentitiesOK
    <2>8. /\ DOMAIN auth.pendingSaves \subseteq Ids(auth)
          /\ Cardinality(DOMAIN auth.pendingSaves) <= 1
      <3>1. PICK s : s = DOMAIN auth.pendingSaves
        OBVIOUS
      <3>2. \A x, y \in s : x = y
        BY <2>1, <3>1 DEF SavesOK
      <3>3. Cardinality(s) <= 1
        BY <3>2, AtMostOne
      <3>. QED BY <2>1, <3>1, <3>3 DEF SavesOK
    <2>9. Cardinality(DOMAIN auth.pendingRoots) <= MaxPendingRoots
          /\ Cardinality(receipts) <= MaxReceipts
      BY <2>1 DEF BoundsOK
    <2>10. \A h \in held : h.path \in Files /\ h.id \in Ids(auth)
                           /\ h.generation <= auth.generation
      BY <2>1 DEF SavesOK
    <2>11. renaming # NoRename => renaming \in Renamings
      BY <2>1 DEF TouchedOK
    <2>12. Cardinality(watched) <= 1
      <3>1. PICK s : s = watched
        OBVIOUS
      <3>2. \A x, y \in s : x = y
        BY <2>1, <3>1 DEF WatchOK
      <3>. QED BY <3>1, <3>2, AtMostOne
    <2>. QED BY <2>2, <2>3, <2>4, <2>5, <2>6, <2>7, <2>8, <2>9, <2>10, <2>11, <2>12
         DEF TypeOK
  <1>. QED BY <1>1, InvHolds, PTL

-------------------------------------------------------------------------------
(* Ledgers.                                                                *)

(* An origin has at most one ledger of a kind, and that of a file is only  *)
(* held by documents.                                                      *)
Apart(g) ==
    \A k \in DOMAIN g : \A o \in g[k].origins :
        /\ k.kind = "exact" => o.kind \in {"open", "saveAs", "created"}
        /\ \A x \in DOMAIN g : x.kind = k.kind /\ o \in g[x].origins => x = k

(* A suspended ledger only becomes active with an origin it had not.       *)
Wakes(g, h) ==
    \A k \in DOMAIN g \cap DOMAIN h :
        ~g[k].active /\ h[k].active => ~(h[k].origins \subseteq g[k].origins)

(* Origins and activity only taken.                                        *)
FewerGrants(g, h) ==
    /\ DOMAIN h \subseteq DOMAIN g
    /\ \A k \in DOMAIN h : /\ h[k].origins \subseteq g[k].origins
                           /\ h[k].active => g[k].active

(* Taking twice is taking, and leaves origins apart.                       *)
LEMMA FewerTransitive ==
  ASSUME NEW g, NEW h, NEW i, FewerGrants(g, h), FewerGrants(h, i)
  PROVE  FewerGrants(g, i)
  BY DEF FewerGrants

LEMMA FewerApart ==
  ASSUME NEW g, NEW h, FewerGrants(g, h), Apart(g)
  PROVE  Apart(h) /\ Wakes(g, h)
  BY DEF FewerGrants, Apart, Wakes

(* What put does to each ledger.                                           *)
IsPut(g, k, o, h) ==
    /\ DOMAIN h = DOMAIN g \cup {k}
    /\ o \in h[k].origins /\ h[k].active
    /\ \A p \in h[k].origins : p = o \/ (k \in DOMAIN g /\ p \in g[k].origins)
    /\ \A x \in DOMAIN g \ {k} : h[x] = g[x]

LEMMA PutIs ==
  ASSUME NEW g, NEW k, NEW o
  PROVE  IsPut(g, k, o, Put(g, k, o))
  <1>0. PICK h : h = Put(g, k, o)
    OBVIOUS
  <1>. DEFINE l == [active |-> TRUE,
                    origins |-> {o} \cup (IF k \in DOMAIN g THEN g[k].origins ELSE {})]
  <1>1. h = [x \in DOMAIN g \cup {k} |-> IF x # k THEN g[x] ELSE l]
    BY <1>0 DEF Put
  <1>2. /\ l.active /\ o \in l.origins
        /\ \A p \in l.origins : p = o \/ (k \in DOMAIN g /\ p \in g[k].origins)
    OBVIOUS
  <1>. HIDE DEF l
  <1>3. h[k] = l /\ DOMAIN h = DOMAIN g \cup {k} /\ \A x \in DOMAIN g \ {k} : h[x] = g[x]
    BY <1>1
  <1>. QED BY <1>0, <1>2, <1>3 DEF IsPut

(* An origin that nobody holds put into two ledgers of different kinds.    *)
LEMMA TwoPuts ==
  ASSUME NEW g, Apart(g), NEW k, NEW x, k.kind # x.kind, NEW o,
         \A y \in DOMAIN g : o \notin g[y].origins,
         k.kind = "exact" => o.kind \in {"open", "saveAs", "created"},
         x.kind # "exact",
         NEW h, h = Put(Put(g, k, o), x, o)
  PROVE  /\ Apart(h) /\ Wakes(g, h)
         /\ \A y \in DOMAIN h : \A p \in h[y].origins :
               p = o \/ (y \in DOMAIN g /\ p \in g[y].origins)
  <1>0. PICK i : i = Put(g, k, o)
    OBVIOUS
  <1>1. IsPut(g, k, o, i)
    BY <1>0, PutIs
  <1>2. IsPut(i, x, o, h)
    BY <1>0, PutIs
  <1>3. k # x
    OBVIOUS
  <1>4. /\ DOMAIN h = DOMAIN g \cup {k, x}
        /\ o \in h[k].origins /\ o \in h[x].origins
        /\ \A y \in DOMAIN h : \A p \in h[y].origins :
              \/ p = o /\ y \in {k, x}
              \/ p # o /\ y \in DOMAIN g /\ p \in g[y].origins
        /\ \A y \in DOMAIN g \ {k, x} : h[y] = g[y]
    BY <1>1, <1>2, <1>3 DEF IsPut
  <1>5. Apart(h)
    <2>. SUFFICES ASSUME NEW y \in DOMAIN h, NEW p \in h[y].origins
                  PROVE  /\ y.kind = "exact" => p.kind \in {"open", "saveAs", "created"}
                         /\ \A z \in DOMAIN h : z.kind = y.kind /\ p \in h[z].origins => z = y
      BY DEF Apart
    <2>1. CASE p = o
      BY <1>3, <1>4, <2>1
    <2>2. CASE p # o
      BY <1>4, <2>2 DEF Apart
    <2>. QED BY <2>1, <2>2
  <1>6. Wakes(g, h)
    BY <1>4 DEF Wakes
  <1>. QED BY <1>4, <1>5, <1>6

(* An origin that nobody holds put into the ledger of a directory.         *)
LEMMA OnePut ==
  ASSUME NEW g, Apart(g), NEW k, k.kind # "exact", NEW o,
         \A y \in DOMAIN g : o \notin g[y].origins,
         NEW h, h = Put(g, k, o)
  PROVE  /\ Apart(h) /\ Wakes(g, h)
         /\ \A y \in DOMAIN h : \A p \in h[y].origins :
               p = o \/ (y \in DOMAIN g /\ p \in g[y].origins)
  <1>1. /\ DOMAIN h = DOMAIN g \cup {k}
        /\ o \in h[k].origins
        /\ \A y \in DOMAIN h : \A p \in h[y].origins :
              \/ p = o /\ y = k
              \/ p # o /\ y \in DOMAIN g /\ p \in g[y].origins
        /\ \A y \in DOMAIN g \ {k} : h[y] = g[y]
    <2>1. IsPut(g, k, o, h)
      BY PutIs
    <2>. QED BY <2>1 DEF IsPut
  <1>2. Apart(h)
    BY <1>1 DEF Apart
  <1>3. Wakes(g, h)
    BY <1>1 DEF Wakes
  <1>. QED BY <1>1, <1>2, <1>3

(* Ledgers that meet are active when one of them was, and then hold what   *)
(* the active ones held.                                                   *)
LEMMA MergeActive ==
  ASSUME NEW ls, \A l \in ls : LedgerOK(l)
  PROVE  /\ (\E l \in ls : l.active) => Merge(ls).active
         /\ Merge(ls).active =>
               \A o \in Merge(ls).origins : \E l \in ls : l.active /\ o \in l.origins
  <1>. DEFINE live == {l \in ls : l.active}
              all == UNION {l.origins : l \in (IF live # {} THEN live ELSE ls)}
  <1>1. Merge(ls).active = (live # {}) /\ Merge(ls).origins = all
    BY DEF Merge
  <1>2. live # {} => all = UNION {l.origins : l \in live}
    OBVIOUS
  <1>3. \A o \in UNION {l.origins : l \in live} : \E l \in ls : l.active /\ o \in l.origins
    OBVIOUS
  <1>4. (\E l \in ls : l.active) => live # {}
    OBVIOUS
  <1>. HIDE DEF live, all
  <1>. QED BY <1>1, <1>2, <1>3, <1>4

(* What is active stays active where it is moved to, and wakes nothing.    *)
StaysActive(g, h, old, new) ==
    /\ \A x \in DOMAIN g : /\ Rekeyed(x, old, new) \in DOMAIN h
                           /\ g[x].active => h[Rekeyed(x, old, new)].active
    /\ \A k \in DOMAIN h : h[k].active =>
          \A o \in h[k].origins :
             \E x \in DOMAIN g : /\ k = Rekeyed(x, old, new) /\ k.kind = x.kind
                                /\ g[x].active /\ o \in g[x].origins

(* What moves stays active where it comes to.                              *)
LEMMA MovedActive ==
  ASSUME NEW a, AuthOK(a), NEW old, NEW new, Carries(old, new)
  PROVE  StaysActive(a.grants, MovedGrants(a.grants, old, new), old, new)
  <1>0. PICK h : h = MovedGrants(a.grants, old, new)
    OBVIOUS
  <1>. DEFINE g == a.grants
              from(k) == {y \in DOMAIN g : Rekeyed(y, old, new) = k}
              at(k) == {g[x] : x \in from(k)}
  <1>1. DOMAIN g \subseteq Keys /\ \A x \in DOMAIN g : LedgerOK(g[x])
    BY DEF AuthOK, LedgersOK
  <1>2. DOMAIN h = {Rekeyed(x, old, new) : x \in DOMAIN g}
    BY <1>0 DEF MovedGrants
  <1>3. \A k \in DOMAIN h : h[k] = Merge(at(k))
    BY <1>0 DEF MovedGrants
  <1>. HIDE DEF g
  <1>4. ASSUME NEW k \in DOMAIN h
        PROVE  /\ (\E l \in at(k) : l.active) => h[k].active
               /\ h[k].active => \A o \in h[k].origins :
                                    \E l \in at(k) : l.active /\ o \in l.origins
    <2>1. \A l \in at(k) : LedgerOK(l)
      BY <1>1
    <2>2. h[k] = Merge(at(k))
      BY <1>3
    <2>. HIDE DEF at
    <2>. QED BY <2>1, <2>2, MergeActive
  <1>5. ASSUME NEW x \in DOMAIN g
        PROVE  /\ Rekeyed(x, old, new) \in DOMAIN h
               /\ g[x].active => h[Rekeyed(x, old, new)].active
    <2>1. PICK k : k = Rekeyed(x, old, new)
      OBVIOUS
    <2>2. k \in DOMAIN h /\ g[x] \in at(k)
      BY <1>2, <2>1
    <2>. HIDE DEF at
    <2>. QED BY <1>4, <2>1, <2>2
  <1>6. ASSUME NEW k \in DOMAIN h, h[k].active, NEW o \in h[k].origins
        PROVE  \E x \in DOMAIN g : /\ k = Rekeyed(x, old, new) /\ k.kind = x.kind
                                   /\ g[x].active /\ o \in g[x].origins
    <2>1. PICK l \in at(k) : l.active /\ o \in l.origins
      <3>. HIDE DEF at
      <3>. QED BY <1>4, <1>6
    <2>2. PICK x \in DOMAIN g : k = Rekeyed(x, old, new) /\ l = g[x]
      OBVIOUS
    <2>. QED BY <1>1, <2>1, <2>2, RekeyedIn
  <1>. HIDE DEF from, at
  <1>7. StaysActive(g, h, old, new)
    BY <1>5, <1>6 DEF StaysActive
  <1>. QED BY <1>0, <1>7 DEF g

-------------------------------------------------------------------------------
(* The operations of AuthorizationState.                                   *)

(* The documents bound in both are bound to the same object.               *)
KeepsBindings(a, b) ==
    \A i \in DOMAIN a.identity \cap DOMAIN b.identity : b.identity[i] = a.identity[i]

(* Nothing granted, no document bound.                                     *)
Fewer(a, b) ==
    /\ FewerGrants(a.grants, b.grants)
    /\ DOMAIN b.identity \subseteq DOMAIN a.identity /\ KeepsBindings(a, b)

(* No file can be written in one and not in the other, on any tree.        *)
SameWriters(a, b) ==
    \A fs, f : HasExactAuthority(a, fs, f) <=> HasExactAuthority(b, fs, f)

(* A newer generation, or the same and the same authority to write.        *)
Dated(a, b) ==
    \/ b.generation > a.generation
    \/ b.generation = a.generation /\ SameWriters(a, b)

(* The relations of two operations of which one follows the other.         *)
LEMMA FewerFollows ==
  ASSUME NEW a, NEW b, NEW c, Fewer(a, b), Fewer(b, c)
  PROVE  Fewer(a, c)
  BY FewerTransitive DEF Fewer, KeepsBindings

LEMMA DatedFollows ==
  ASSUME NEW a, NEW b, NEW c, Dated(a, b), Dated(b, c),
         a.generation \in Nat, b.generation \in Nat, c.generation \in Nat
  PROVE  Dated(a, c)
  <1>1. CASE c.generation > a.generation
    BY <1>1 DEF Dated
  <1>2. CASE ~(c.generation > a.generation)
    <2>1. SameWriters(a, b) /\ SameWriters(b, c) /\ c.generation = a.generation
      BY <1>2 DEF Dated
    <2>2. SameWriters(a, c)
      BY <2>1 DEF SameWriters
    <2>. QED BY <2>1, <2>2 DEF Dated
  <1>. QED BY <1>1, <1>2

LEMMA SameFollows ==
  ASSUME NEW a
  PROVE  Fewer(a, a) /\ Dated(a, a) /\ SameWriters(a, a)
  BY DEF Fewer, FewerGrants, KeepsBindings, Dated, SameWriters

(* revoke_origin_raw.                                                      *)
LEMMA RevokeFewer ==
  ASSUME NEW a, NEW os, NEW documents, NEW roots, Sound(a, documents, roots)
  PROVE  Fewer(a, RevokeOrigins(a, os))
  <1>. DEFINE b == RevokeOrigins(a, os)
  <1>1. Fields(a)
    BY SoundCounts
  <1>2. /\ DOMAIN b.grants \subseteq DOMAIN a.grants
        /\ \A k \in DOMAIN b.grants : /\ b.grants[k].active = a.grants[k].active
                                      /\ b.grants[k].origins = a.grants[k].origins \ os
    BY RevokeSound
  <1>3. /\ b.grants = [k \in {x \in DOMAIN a.grants : a.grants[x].origins \ os # {}} |->
                         [a.grants[k] EXCEPT !.origins = a.grants[k].origins \ os]]
        /\ b.workspaces =
             [t \in {x \in DOMAIN a.workspaces : Workspace(x) \notin os} |-> a.workspaces[t]]
        /\ b.documentWorkspace =
             [i \in {x \in DOMAIN a.documentWorkspace : Open(x) \notin os} |->
                a.documentWorkspace[i]]
        /\ b.identity = [i \in {x \in DOMAIN a.identity : Open(x) \notin os} |-> a.identity[i]]
        /\ b.generation = a.generation
    BY <1>1, RevokeIs
  <1>. HIDE DEF b
  <1>4. FewerGrants(a.grants, b.grants)
    BY <1>2 DEF FewerGrants
  <1>5. DOMAIN b.identity \subseteq DOMAIN a.identity /\ KeepsBindings(a, b)
    BY <1>3 DEF KeepsBindings
  <1>. QED BY <1>4, <1>5 DEF Fewer, b

(* What a ledger holds after a revocation it held before.                  *)
LEMMA RevokedFrom ==
  ASSUME NEW a, NEW os, NEW documents, NEW roots, Sound(a, documents, roots),
         NEW c, c = RevokeOrigins(a, os), NEW k \in DOMAIN c.grants
  PROVE  k \in DOMAIN a.grants /\ c.grants[k].origins = a.grants[k].origins \ os
  <1>. DEFINE b == RevokeOrigins(a, os)
  <1>1. /\ DOMAIN b.grants \subseteq DOMAIN a.grants
        /\ \A x \in DOMAIN b.grants : /\ b.grants[x].active = a.grants[x].active
                                      /\ b.grants[x].origins = a.grants[x].origins \ os
    BY RevokeSound
  <1>2. b = c
    OBVIOUS
  <1>. HIDE DEF b
  <1>. QED BY <1>1, <1>2

(* A ledger with an origin left is left as active as it was.               *)
LEMMA StillHeld ==
  ASSUME NEW a, NEW os, NEW documents, NEW roots, Sound(a, documents, roots),
         NEW x \in DOMAIN a.grants, NEW o \in a.grants[x].origins, o \notin os,
         NEW c, c = RevokeOrigins(a, os)
  PROVE  /\ x \in DOMAIN c.grants /\ c.grants[x].active = a.grants[x].active
         /\ o \in c.grants[x].origins
  <1>. DEFINE b == RevokeOrigins(a, os)
  <1>1. Fields(a)
    BY SoundCounts
  <1>2. /\ DOMAIN b.grants \subseteq DOMAIN a.grants
        /\ \A k \in DOMAIN b.grants : /\ b.grants[k].active = a.grants[k].active
                                      /\ b.grants[k].origins = a.grants[k].origins \ os
    BY RevokeSound
  <1>3. /\ b.grants = [k \in {y \in DOMAIN a.grants : a.grants[y].origins \ os # {}} |->
                         [a.grants[k] EXCEPT !.origins = a.grants[k].origins \ os]]
        /\ b.workspaces =
             [t \in {y \in DOMAIN a.workspaces : Workspace(y) \notin os} |-> a.workspaces[t]]
        /\ b.documentWorkspace =
             [i \in {y \in DOMAIN a.documentWorkspace : Open(y) \notin os} |->
                a.documentWorkspace[i]]
        /\ b.identity = [i \in {y \in DOMAIN a.identity : Open(y) \notin os} |-> a.identity[i]]
        /\ b.generation = a.generation
    BY <1>1, RevokeIs
  <1>4. b = c
    OBVIOUS
  <1>. HIDE DEF b
  <1>. QED BY <1>2, <1>3, <1>4

(* Which origins speak for a path does not depend on previews.             *)
SameSpeakers(a, b) ==
    /\ DOMAIN b.workspaces = DOMAIN a.workspaces
    /\ \A t \in DOMAIN a.workspaces : b.workspaces[t] = a.workspaces[t]
    /\ \A fs, t : RootIsCurrent(a, fs, t) <=> RootIsCurrent(b, fs, t)
    /\ \A fs, p, o :
          /\ OriginIsCurrent(a, fs, p, o) <=> OriginIsCurrent(b, fs, p, o)
          /\ ExactOriginIsCurrent(a, fs, p, o) <=> ExactOriginIsCurrent(b, fs, p, o)

(* The end of previews leaves alone who may speak for a document.          *)
LEMMA SpeakersKept ==
  ASSUME NEW a, NEW os, NEW documents, NEW roots, Sound(a, documents, roots),
         \A o \in os : o.kind = "preview"
  PROVE  /\ SameSpeakers(a, RevokeOrigins(a, os))
         /\ RevokeOrigins(a, os).generation = a.generation
  <1>. DEFINE b == RevokeOrigins(a, os)
  <1>1. Fields(a)
    BY SoundCounts
  <1>2. /\ b.grants = [k \in {x \in DOMAIN a.grants : a.grants[x].origins \ os # {}} |->
                         [a.grants[k] EXCEPT !.origins = a.grants[k].origins \ os]]
        /\ b.workspaces =
             [t \in {x \in DOMAIN a.workspaces : Workspace(x) \notin os} |-> a.workspaces[t]]
        /\ b.documentWorkspace =
             [i \in {x \in DOMAIN a.documentWorkspace : Open(x) \notin os} |->
                a.documentWorkspace[i]]
        /\ b.identity = [i \in {x \in DOMAIN a.identity : Open(x) \notin os} |-> a.identity[i]]
        /\ b.generation = a.generation
    BY <1>1, RevokeIs
  <1>. HIDE DEF b
  <1>3. \A x : Workspace(x) \notin os /\ Open(x) \notin os
    BY OriginsApart
  <1>4. /\ DOMAIN b.workspaces = DOMAIN a.workspaces
        /\ \A t \in DOMAIN a.workspaces : b.workspaces[t] = a.workspaces[t]
    BY <1>2, <1>3
  <1>5. /\ DOMAIN b.documentWorkspace = DOMAIN a.documentWorkspace
        /\ \A i \in DOMAIN a.documentWorkspace :
              b.documentWorkspace[i] = a.documentWorkspace[i]
    BY <1>2, <1>3
  <1>6. /\ DOMAIN b.identity = DOMAIN a.identity
        /\ \A i \in DOMAIN a.identity : b.identity[i] = a.identity[i]
    BY <1>2, <1>3
  <1>7. \A fs, t : RootIsCurrent(a, fs, t) <=> RootIsCurrent(b, fs, t)
    BY <1>4 DEF RootIsCurrent
  <1>8. ASSUME NEW fs, NEW p, NEW o
        PROVE  /\ OriginIsCurrent(a, fs, p, o) <=> OriginIsCurrent(b, fs, p, o)
               /\ ExactOriginIsCurrent(a, fs, p, o) <=> ExactOriginIsCurrent(b, fs, p, o)
    <2>1. \A t : WorkspaceOriginIsCurrent(a, fs, t, p) <=> WorkspaceOriginIsCurrent(b, fs, t, p)
      BY <1>4, <1>7 DEF WorkspaceOriginIsCurrent, RootIsCurrent
    <2>2. OriginIsCurrent(a, fs, p, o) <=> OriginIsCurrent(b, fs, p, o)
      BY <1>5, <2>1 DEF OriginIsCurrent
    <2>. QED BY <1>6, <2>2 DEF ExactOriginIsCurrent
  <1>. QED BY <1>2, <1>4, <1>7, <1>8 DEF SameSpeakers, b

(* Previews say nothing about who may write a file.                        *)
LEMMA PreviewsAside ==
  ASSUME NEW a, NEW os, NEW documents, NEW roots, Sound(a, documents, roots),
         \A o \in os : o.kind = "preview"
  PROVE  /\ SameWriters(a, RevokeOrigins(a, os))
         /\ RevokeOrigins(a, os).generation = a.generation
         /\ Dated(a, RevokeOrigins(a, os))
  <1>1. PICK b : b = RevokeOrigins(a, os)
    OBVIOUS
  <1>2. SameSpeakers(a, b) /\ b.generation = a.generation
    BY <1>1, SpeakersKept
  <1>3. Fewer(a, b)
    BY <1>1, RevokeFewer
  <1>4. SameWriters(a, b)
    <2>. SUFFICES ASSUME NEW fs, NEW f
                  PROVE  HasExactAuthority(a, fs, f) <=> HasExactAuthority(b, fs, f)
      BY DEF SameWriters
    <2>1. ASSUME HasExactAuthority(a, fs, f)
          PROVE  HasExactAuthority(b, fs, f)
      <3>1. PICK o \in a.grants[Exact(f)].origins :
               o.kind \in {"open", "saveAs", "created"} /\ ExactOriginIsCurrent(a, fs, f, o)
        BY <2>1 DEF HasExactAuthority
      <3>2. Exact(f) \in DOMAIN a.grants /\ a.grants[Exact(f)].active
        BY <2>1 DEF HasExactAuthority, Active
      <3>3. o \notin os
        BY <3>1
      <3>4. /\ Exact(f) \in DOMAIN b.grants /\ b.grants[Exact(f)].active
            /\ o \in b.grants[Exact(f)].origins
        BY <1>1, <3>1, <3>2, <3>3, StillHeld
      <3>. QED BY <1>2, <3>1, <3>4 DEF SameSpeakers, HasExactAuthority, Active
    <2>2. ASSUME HasExactAuthority(b, fs, f)
          PROVE  HasExactAuthority(a, fs, f)
      <3>1. PICK o \in b.grants[Exact(f)].origins :
               o.kind \in {"open", "saveAs", "created"} /\ ExactOriginIsCurrent(b, fs, f, o)
        BY <2>2 DEF HasExactAuthority
      <3>2. Exact(f) \in DOMAIN b.grants /\ b.grants[Exact(f)].active
        BY <2>2 DEF HasExactAuthority, Active
      <3>3. /\ Exact(f) \in DOMAIN a.grants /\ a.grants[Exact(f)].active
            /\ o \in a.grants[Exact(f)].origins
        BY <1>3, <3>1, <3>2 DEF Fewer, FewerGrants
      <3>. QED BY <1>2, <3>1, <3>3 DEF SameSpeakers, HasExactAuthority, Active
    <2>. QED BY <2>1, <2>2
  <1>. QED BY <1>1, <1>2, <1>4 DEF Dated

(* A lease is the origin of a preview.                                     *)
LEMMA LeasesArePreviews ==
  ASSUME NEW a, NEW ps
  PROVE  /\ \A l \in Leases(a) : l.kind = "preview"
         /\ \A l \in LeasesTouching(a, ps) : l.kind = "preview"
  BY DEF Leases, LeasesTouching

(* Ledgers suspended.                                                      *)
LEMMA SuspendFewer ==
  ASSUME NEW a, NEW ks, NEW documents, NEW roots, Sound(a, documents, roots),
         NEW b, b = Suspend(a, ks)
  PROVE  /\ Fewer(a, b)
         /\ DOMAIN b.grants = DOMAIN a.grants
         /\ \A k \in DOMAIN b.grants : /\ b.grants[k].origins = a.grants[k].origins
                                       /\ k \in ks => ~b.grants[k].active
                                       /\ k \notin ks => b.grants[k] = a.grants[k]
  <1>. DEFINE g == [k \in DOMAIN a.grants |->
                      IF k \in ks THEN [a.grants[k] EXCEPT !.active = FALSE]
                      ELSE a.grants[k]]
  <1>1. b = [a EXCEPT !.grants = g] /\ Fields(a)
    BY SoundCounts DEF Suspend
  <1>2. ASSUME NEW k \in DOMAIN a.grants
        PROVE  /\ g[k].origins = a.grants[k].origins
               /\ k \in ks => ~g[k].active
               /\ k \notin ks => g[k] = a.grants[k]
    <2>1. LedgerOK(a.grants[k])
      BY DEF Sound, AuthOK, LedgersOK
    <2>2. CASE k \in ks
      <3>1. g[k] = [a.grants[k] EXCEPT !.active = FALSE]
        BY <2>2
      <3>. HIDE DEF g
      <3>2. g[k].active = FALSE /\ g[k].origins = a.grants[k].origins
        BY ONLY <2>1, <3>1, SetActive
      <3>. QED BY <2>2, <3>2
    <2>3. CASE k \notin ks
      BY <2>3
    <2>. QED BY <2>2, <2>3
  <1>3. DOMAIN g = DOMAIN a.grants
    OBVIOUS
  <1>. HIDE DEF g
  <1>4. b.grants = g /\ b.identity = a.identity
    BY <1>1, SetGrants
  <1>5. FewerGrants(a.grants, b.grants)
    BY <1>2, <1>3, <1>4 DEF FewerGrants
  <1>. QED BY <1>2, <1>3, <1>4, <1>5 DEF Fewer, KeepsBindings

(* The generation alone.                                                   *)
LEMMA BumpFewer ==
  ASSUME NEW a, NEW documents, NEW roots, Sound(a, documents, roots),
         NEW b, b = [a EXCEPT !.generation = a.generation + 1]
  PROVE  Fewer(a, b) /\ b.grants = a.grants /\ b.generation = a.generation + 1
  <1>1. b.grants = a.grants /\ b.identity = a.identity /\ b.generation = a.generation + 1
    BY SoundCounts, SetGeneration
  <1>. QED BY <1>1 DEF Fewer, FewerGrants, KeepsBindings

(* suspend_rename_path_prefixes.                                           *)
LEMMA SuspendRenameFewer ==
  ASSUME NEW a, NEW ps, NEW documents, NEW roots, Sound(a, documents, roots),
         NEW d, d = SuspendRename(a, ps)
  PROVE  /\ Fewer(a, d) /\ Dated(a, d)
         /\ Suspendable(d, ps) = {}
  <1>. DEFINE s == Suspendable(a, ps)
              b == Suspend(a, s)
              c == [b EXCEPT !.generation = b.generation + 1]
  <1>1. d = IF s = {} THEN a ELSE c
    BY DEF SuspendRename
  <1>2. \A k \in s : k.kind # "directory"
    BY DEF Suspendable
  <1>3. \A k \in DOMAIN a.grants :
           k.kind # "directory" /\ IsUnderAny(k.path, ps) /\ a.grants[k].active => k \in s
    BY DEF Suspendable
  <1>. HIDE DEF s
  <1>4. Changed(a, b, documents, roots) /\ b.generation = a.generation
    BY <1>2, SuspendChanged
  <1>5. /\ Fewer(a, b)
        /\ DOMAIN b.grants = DOMAIN a.grants
        /\ \A k \in DOMAIN b.grants : k \in s => ~b.grants[k].active
    <2>1. PICK x : x = Suspend(a, s)
      OBVIOUS
    <2>2. /\ Fewer(a, x)
          /\ DOMAIN x.grants = DOMAIN a.grants
          /\ \A k \in DOMAIN x.grants : k \in s => ~x.grants[k].active
      BY <2>1, SuspendFewer
    <2>. QED BY <2>1, <2>2
  <1>. HIDE DEF b
  <1>6. Fewer(b, c) /\ c.grants = b.grants /\ c.generation = b.generation + 1
    BY <1>4, BumpFewer DEF Changed
  <1>. HIDE DEF c
  <1>7. CASE s = {}
    <2>1. d = a
      BY <1>1, <1>7
    <2>2. Suspendable(a, ps) = {}
      BY <1>7 DEF s
    <2>. QED BY <2>1, <2>2, SameFollows
  <1>8. CASE s # {}
    <2>1. d = c
      BY <1>1, <1>8
    <2>2. Fewer(a, c)
      BY <1>5, <1>6, FewerFollows
    <2>3. c.generation > a.generation
      BY <1>4, <1>6, SoundCounts
    <2>4. ASSUME NEW k \in DOMAIN c.grants, k.kind # "directory", IsUnderAny(k.path, ps)
          PROVE  ~c.grants[k].active
      <3>1. k \in DOMAIN a.grants
        BY <1>5, <1>6
      <3>2. CASE k \in s
        BY <1>5, <1>6, <3>2
      <3>3. CASE k \notin s
        BY <1>3, <1>5, <1>6, <2>4, <3>1, <3>3 DEF Fewer, FewerGrants
      <3>. QED BY <3>2, <3>3
    <2>5. Suspendable(c, ps) = {}
      BY <2>4 DEF Suspendable
    <2>. QED BY <2>1, <2>2, <2>3, <2>5 DEF Dated
  <1>. QED BY <1>7, <1>8

(* finalize_indeterminate_rename: nothing below the two paths is left      *)
(* active but directories.                                                 *)
LEMMA FinalizeFewer ==
  ASSUME NEW a, NEW ps, NEW documents, NEW roots, Sound(a, documents, roots),
         NEW c, c = FinalizeRename(a, ps)
  PROVE  Fewer(a, c) /\ Dated(a, c) /\ Suspendable(c, ps) = {}
  <1>0. PICK b : b = SuspendRename(a, ps)
    OBVIOUS
  <1>1. Fewer(a, b) /\ Dated(a, b) /\ Suspendable(b, ps) = {}
    BY <1>0, SuspendRenameFewer
  <1>2. Changed(a, b, documents, roots)
    BY <1>0, SuspendRenameChanged
  <1>3. PICK os : os = LeasesTouching(a, ps)
    OBVIOUS
  <1>4. c = RevokeOrigins(b, os)
    BY <1>0, <1>3 DEF FinalizeRename
  <1>5. \A o \in os : o.kind = "preview"
    BY <1>3, LeasesArePreviews
  <1>6. Fewer(b, c) /\ Dated(b, c) /\ c.generation = b.generation
    BY <1>2, <1>4, <1>5, RevokeFewer, PreviewsAside DEF Changed
  <1>7. a.generation \in Nat /\ b.generation \in Nat
    BY <1>2, SoundCounts DEF Changed
  <1>8. Fewer(a, c) /\ Dated(a, c)
    BY <1>1, <1>6, <1>7, FewerFollows, DatedFollows
  <1>9. Suspendable(c, ps) = {}
    BY <1>1, <1>6 DEF Suspendable, Fewer, FewerGrants
  <1>. QED BY <1>8, <1>9

(* suspend_indeterminate_delete.                                           *)
LEMMA SuspendDeleteFewer ==
  ASSUME NEW a, NEW p, NEW documents, NEW roots, Sound(a, documents, roots),
         NEW e, e = SuspendDelete(a, p)
  PROVE  Fewer(a, e) /\ Dated(a, e)
  <1>1. PICK s : s = Suspendable(a, {p})
    OBVIOUS
  <1>2. PICK l : l = LeasesTouching(a, {p})
    OBVIOUS
  <1>3. PICK b : b = Suspend(a, s)
    OBVIOUS
  <1>4. PICK c : c = RevokeOrigins(b, l)
    OBVIOUS
  <1>5. PICK d : d = [c EXCEPT !.generation = c.generation + 1]
    OBVIOUS
  <1>6. e = IF s = {} /\ l = {} THEN a ELSE d
    BY <1>1, <1>2, <1>3, <1>4, <1>5 DEF SuspendDelete
  <1>7. \A k \in s : k.kind # "directory"
    BY <1>1 DEF Suspendable
  <1>8. Changed(a, b, documents, roots) /\ b.generation = a.generation
    BY <1>3, <1>7, SuspendChanged
  <1>9. Fewer(a, b)
    BY <1>3, SuspendFewer
  <1>10. \A o \in l : o.kind = "preview"
    BY <1>2, LeasesArePreviews
  <1>11. Fewer(b, c) /\ c.generation = b.generation /\ Changed(b, c, documents, roots)
    BY <1>4, <1>8, <1>10, RevokeFewer, PreviewsAside, RevokeChanged DEF Changed
  <1>12. Fewer(c, d) /\ d.generation = c.generation + 1
    BY <1>5, <1>11, BumpFewer DEF Changed
  <1>13. Fewer(a, d)
    BY <1>9, <1>11, <1>12, FewerFollows
  <1>14. d.generation > a.generation
    BY <1>8, <1>11, <1>12, SoundCounts
  <1>. QED BY <1>6, <1>13, <1>14, SameFollows DEF Dated

(* restore_renamed_ledgers: what the rename had suspended is active again. *)
LEMMA RestoreIs ==
  ASSUME NEW a, NEW transitioned, NEW documents, NEW roots, Sound(a, documents, roots),
         NEW c, c = RestoreRename(a, transitioned)
  PROVE  /\ DOMAIN c.grants = DOMAIN a.grants
         /\ \A k \in DOMAIN c.grants :
               /\ c.grants[k].origins = a.grants[k].origins
               /\ c.grants[k].active => a.grants[k].active \/ k \in transitioned
               /\ k \in transitioned => c.grants[k].active
         /\ DOMAIN c.identity = DOMAIN a.identity /\ KeepsBindings(a, c)
         /\ Dated(a, c)
  <1>. DEFINE back == {k \in transitioned \cap DOMAIN a.grants : ~a.grants[k].active}
              g == [k \in DOMAIN a.grants |->
                      IF k \in back THEN [a.grants[k] EXCEPT !.active = TRUE]
                      ELSE a.grants[k]]
              b == [a EXCEPT !.generation = a.generation + 1, !.grants = g]
  <1>1. c = IF back = {} THEN a ELSE b
    BY DEF RestoreRename
  <1>2. ASSUME NEW k \in DOMAIN a.grants
        PROVE  /\ g[k].origins = a.grants[k].origins
               /\ g[k].active => a.grants[k].active \/ k \in transitioned
               /\ k \in transitioned => g[k].active
    <2>1. LedgerOK(a.grants[k])
      BY DEF Sound, AuthOK, LedgersOK
    <2>2. CASE k \in back
      <3>1. g[k] = [a.grants[k] EXCEPT !.active = TRUE] /\ k \in transitioned
        BY <2>2
      <3>. HIDE DEF g, back
      <3>2. g[k].active = TRUE /\ g[k].origins = a.grants[k].origins
        BY ONLY <2>1, <3>1, SetActive
      <3>. QED BY <3>1, <3>2
    <2>3. CASE k \notin back
      BY <2>3
    <2>. QED BY <2>2, <2>3
  <1>3. DOMAIN g = DOMAIN a.grants
    OBVIOUS
  <1>4. back = {} => \A k \in DOMAIN a.grants : k \in transitioned => a.grants[k].active
    OBVIOUS
  <1>. HIDE DEF g, back
  <1>5. b.grants = g /\ b.identity = a.identity /\ b.generation = a.generation + 1
    <2>1. Fields(a)
      BY SoundCounts
    <2>2. b = [a EXCEPT !.generation = a.generation + 1, !.grants = g]
      OBVIOUS
    <2>. HIDE DEF b
    <2>. QED BY ONLY <2>1, <2>2 DEF Fields
  <1>. HIDE DEF b
  <1>6. CASE back = {}
    <2>1. c = a
      BY <1>1, <1>6
    <2>. QED BY <1>4, <1>6, <2>1, SameFollows DEF KeepsBindings
  <1>7. CASE back # {}
    <2>1. c = b
      BY <1>1, <1>7
    <2>2. b.generation > a.generation
      BY <1>5, SoundCounts
    <2>. QED BY <1>2, <1>3, <1>5, <2>1, <2>2 DEF KeepsBindings, Dated
  <1>. QED BY <1>6, <1>7

(* relocate_path_prefix_with_identity.  What was suspended is not active   *)
(* because something else comes to its path: no origin is in two ledgers.  *)
LEMMA RelocateIs ==
  ASSUME NEW a, NEW object, NEW documents, NEW roots, Sound(a, documents, roots),
         NEW old, NEW new, Carries(old, new), Apart(a.grants),
         NEW d, d = RelocatePrefix(a, old, new, object)
  PROVE  /\ Apart(d.grants) /\ Wakes(a.grants, d.grants)
         /\ \A k \in DOMAIN d.grants : \A o \in d.grants[k].origins :
               \E x \in DOMAIN a.grants : o \in a.grants[x].origins
         /\ KeepsBindings(a, d) /\ Dated(a, d)
         /\ \A x \in DOMAIN a.grants :
               x.kind = "exact" /\ a.grants[x].active =>
                  Rekeyed(x, old, new) \in Active(d)
  <1>. DEFINE unbound == {i \in 1..a.nextDocument :
                            /\ object # 0 /\ i \notin DOMAIN a.identity
                            /\ \E k \in Suspendable(a, {old}) :
                                  k.kind = "exact" /\ Open(i) \in a.grants[k].origins}
              os == LeasesTouching(a, {old, new})
              b == RevokeOrigins(a, os)
              changes == \/ \E t \in DOMAIN a.workspaces : IsUnder(a.workspaces[t].root, old)
                         \/ \E k \in DOMAIN a.grants : IsUnder(k.path, old)
                         \/ \E l \in Leases(a) : Intersects(l, old) \/ Intersects(l, new)
              w == MovedWorkspaces(b.workspaces, old, new)
              h == MovedGrants(b.grants, old, new)
              n == [i \in DOMAIN b.identity \cup unbound |->
                      IF i \in unbound THEN object ELSE b.identity[i]]
              c == [b EXCEPT !.generation = b.generation + 1, !.workspaces = w,
                             !.grants = h, !.identity = n]
  <1>1. d = IF ~changes THEN a ELSE c
    BY DEF RelocatePrefix
  <1>2. \A i \in DOMAIN a.identity \cap DOMAIN n : i \in DOMAIN b.identity /\ n[i] = b.identity[i]
    <2>1. \A i \in unbound : i \notin DOMAIN a.identity
      OBVIOUS
    <2>. HIDE DEF unbound, b
    <2>. QED BY <2>1
  <1>3. Changed(a, b, documents, roots) /\ Fewer(a, b)
    BY RevokeChanged, RevokeFewer
  <1>4. \A o \in os : o.kind = "preview"
    BY LeasesArePreviews
  <1>5. b.generation = a.generation
    <2>. HIDE DEF os
    <2>. QED BY <1>4, PreviewsAside
  <1>6. \A x \in DOMAIN a.grants : x.kind = "exact" /\ a.grants[x].active =>
           x \in DOMAIN b.grants /\ b.grants[x].active
    <2>. SUFFICES ASSUME NEW x \in DOMAIN a.grants, x.kind = "exact", a.grants[x].active
                  PROVE  x \in DOMAIN b.grants /\ b.grants[x].active
      OBVIOUS
    <2>1. PICK o : o \in a.grants[x].origins
      BY DEF Sound, AuthOK, LedgersOK, LedgerOK
    <2>2. o \notin os
      <3>. HIDE DEF os
      <3>. QED BY <1>4, <2>1 DEF Apart
    <2>3. PICK y : y = b
      OBVIOUS
    <2>4. x \in DOMAIN y.grants /\ y.grants[x].active = a.grants[x].active
      <3>1. y = RevokeOrigins(a, os)
        BY <2>3
      <3>. HIDE DEF os, b
      <3>. QED BY <2>1, <2>2, <3>1, StillHeld
    <2>. HIDE DEF b
    <2>. QED BY <2>3, <2>4
  <1>7. ~changes => \A x \in DOMAIN a.grants : Rekeyed(x, old, new) = x
    <2>. SUFFICES ASSUME ~changes, NEW x \in DOMAIN a.grants
                  PROVE  Rekeyed(x, old, new) = x
      OBVIOUS
    <2>1. x \in Keys /\ ~IsUnder(x.path, old)
      BY DEF Sound, AuthOK, LedgersOK
    <2>2. Relocated(x.path, old, new) = x.path
      BY <2>1 DEF Relocated
    <2>3. x = [kind |-> x.kind, path |-> x.path]
      BY <2>1 DEF Keys, Exact, Dir, Asset
    <2>. QED BY <2>2, <2>3 DEF Rekeyed
  <1>. HIDE DEF b, unbound, changes, n, h, w, os
  <1>8. Sound(b, documents, roots) /\ Fields(b) /\ AuthOK(b)
    BY <1>3, SoundCounts DEF Changed
  <1>9. c.grants = h /\ c.identity = n /\ c.generation = b.generation + 1
    <2>1. c = [b EXCEPT !.generation = b.generation + 1, !.workspaces = w,
                        !.grants = h, !.identity = n]
      OBVIOUS
    <2>. HIDE DEF c
    <2>. QED BY ONLY <1>8, <2>1 DEF Fields
  <1>. HIDE DEF c
  <1>10. CASE ~changes
    <2>1. d = a
      BY <1>1, <1>10
    <2>2. \A x \in DOMAIN a.grants : a.grants[x].origins # {}
      BY DEF Sound, AuthOK, LedgersOK, LedgerOK
    <2>. QED BY <1>7, <1>10, <2>1, <2>2, SameFollows DEF Wakes, KeepsBindings, Active
  <1>11. CASE changes
    <2>1. d = c
      BY <1>1, <1>11
    <2>2. /\ DOMAIN h = {Rekeyed(x, old, new) : x \in DOMAIN b.grants}
          /\ \A k \in DOMAIN h :
                 /\ LedgerOK(h[k])
                 /\ \A o \in h[k].origins :
                       \E x \in DOMAIN b.grants :
                          k = Rekeyed(x, old, new) /\ o \in b.grants[x].origins
      BY <1>8, MovedGrantsAre DEF h
    <2>3. /\ \A x \in DOMAIN b.grants :
                /\ Rekeyed(x, old, new) \in DOMAIN h
                /\ b.grants[x].active => h[Rekeyed(x, old, new)].active
          /\ \A k \in DOMAIN h : h[k].active =>
                \A o \in h[k].origins :
                   \E x \in DOMAIN b.grants :
                      /\ k = Rekeyed(x, old, new) /\ k.kind = x.kind
                      /\ b.grants[x].active /\ o \in b.grants[x].origins
      <3>1. StaysActive(b.grants, h, old, new)
        BY <1>8, MovedActive DEF h
      <3>. QED BY ONLY <3>1 DEF StaysActive
    <2>4. \A x \in DOMAIN b.grants : Rekeyed(x, old, new).kind = x.kind
      BY <1>8, RekeyedIn DEF AuthOK, LedgersOK
    <2>5. Apart(b.grants)
      BY <1>3, FewerApart DEF Fewer
    <2>6. Apart(h)
      <3>. SUFFICES ASSUME NEW k \in DOMAIN h, NEW o \in h[k].origins
                    PROVE  /\ k.kind = "exact" => o.kind \in {"open", "saveAs", "created"}
                           /\ \A y \in DOMAIN h :
                                 y.kind = k.kind /\ o \in h[y].origins => y = k
        BY DEF Apart
      <3>1. PICK x \in DOMAIN b.grants : k = Rekeyed(x, old, new) /\ o \in b.grants[x].origins
        BY <2>2
      <3>2. x.kind = k.kind
        BY <2>4, <3>1
      <3>3. ASSUME NEW y \in DOMAIN h, y.kind = k.kind, o \in h[y].origins
            PROVE  y = k
        <4>1. PICK z \in DOMAIN b.grants :
                 y = Rekeyed(z, old, new) /\ o \in b.grants[z].origins
          BY <2>2, <3>3
        <4>2. z = x
          BY <2>4, <2>5, <3>1, <3>2, <3>3, <4>1 DEF Apart
        <4>. QED BY <3>1, <4>1, <4>2
      <3>. QED BY <2>5, <3>1, <3>2, <3>3 DEF Apart
    <2>7. Wakes(a.grants, h)
      <3>. SUFFICES ASSUME NEW k \in DOMAIN a.grants, k \in DOMAIN h, ~a.grants[k].active,
                           h[k].active, h[k].origins \subseteq a.grants[k].origins
                    PROVE  FALSE
        BY DEF Wakes
      <3>1. PICK o : o \in h[k].origins
        BY <2>2 DEF LedgerOK
      <3>2. PICK x \in DOMAIN b.grants : /\ k.kind = x.kind /\ b.grants[x].active
                                         /\ o \in b.grants[x].origins
        BY <2>3, <3>1
      <3>3. x \in DOMAIN a.grants /\ a.grants[x].active /\ o \in a.grants[x].origins
        BY <1>3, <3>2 DEF Fewer, FewerGrants
      <3>4. x = k
        BY <3>1, <3>2, <3>3 DEF Apart
      <3>. QED BY <3>3, <3>4
    <2>8. \A k \in DOMAIN h : \A o \in h[k].origins :
             \E x \in DOMAIN a.grants : o \in a.grants[x].origins
      BY <1>3, <2>2 DEF Fewer, FewerGrants
    <2>9. KeepsBindings(a, c)
      BY <1>2, <1>3, <1>9 DEF KeepsBindings, Fewer
    <2>10. c.generation > a.generation
      BY <1>5, <1>9, SoundCounts
    <2>11. \A x \in DOMAIN a.grants : x.kind = "exact" /\ a.grants[x].active =>
              Rekeyed(x, old, new) \in Active(c)
      BY <1>6, <1>9, <2>2, <2>3 DEF Active, LedgerOK
    <2>. QED BY <1>9, <2>1, <2>6, <2>7, <2>8, <2>9, <2>10, <2>11 DEF Dated
  <1>. QED BY <1>10, <1>11

(* settle_identity_origins, with its generation the next.                  *)
LEMMA SettleIs ==
  ASSUME NEW a, NEW ids, NEW object, NEW generation \in Nat, NEW documents, NEW roots,
         Sound(a, documents, roots),
         NEW b, b = Settle(a, ids, object, generation)
  PROVE  /\ b.grants = a.grants /\ b.workspaces = a.workspaces
         /\ b.documentWorkspace = a.documentWorkspace
         /\ b.pendingSaves = a.pendingSaves
         /\ DOMAIN b.identity = DOMAIN a.identity
         /\ \A i \in DOMAIN a.identity :
               b.identity[i] = IF i \in ids THEN object ELSE a.identity[i]
         /\ b.generation = generation \/ b = a
  <1>. DEFINE n == [i \in DOMAIN a.identity |-> IF i \in ids THEN object ELSE a.identity[i]]
              c == [a EXCEPT !.generation = generation, !.identity = n]
  <1>1. \/ b = a /\ \A i \in ids : a.identity[i] = object
        \/ b = c
    BY DEF Settle
  <1>2. DOMAIN n = DOMAIN a.identity /\ \A i \in DOMAIN a.identity :
           n[i] = IF i \in ids THEN object ELSE a.identity[i]
    OBVIOUS
  <1>. HIDE DEF n
  <1>3. Fields(a)
    BY SoundCounts
  <1>4. /\ c.grants = a.grants /\ c.workspaces = a.workspaces
        /\ c.documentWorkspace = a.documentWorkspace /\ c.identity = n
        /\ c.pendingSaves = a.pendingSaves /\ c.generation = generation
    <2>1. c = [a EXCEPT !.generation = generation, !.identity = n]
      OBVIOUS
    <2>. HIDE DEF c
    <2>. QED BY ONLY <1>3, <2>1 DEF Fields
  <1>. HIDE DEF c
  <1>. QED BY <1>1, <1>2, <1>4

(* A preview stays supported when others end.                              *)
LEMMA SupportKept ==
  ASSUME NEW a, NEW os, NEW documents, NEW roots, Sound(a, documents, roots),
         \A o \in os : o.kind = "preview",
         NEW fs, NEW l, LeaseIsSupported(a, fs, l)
  PROVE  LeaseIsSupported(RevokeOrigins(a, os), fs, l)
  <1>1. PICK b : b = RevokeOrigins(a, os)
    OBVIOUS
  <1>2. SameSpeakers(a, b)
    BY <1>1, SpeakersKept
  <1>3. PICK anchor : anchor = IF l.anchor = <<>> THEN l.document ELSE l.anchor
    OBVIOUS
  <1>4. PICK k \in Active(a) :
           /\ k.kind \in {"directory", "asset"}
           /\ IsUnder(l.document, k.path) /\ IsUnder(anchor, k.path)
           /\ Shares(a, fs, k, AuthorityOrigins(a, fs, anchor))
    BY <1>3 DEF LeaseIsSupported, Supporting
  <1>5. PICK o \in a.grants[k].origins :
           o \in AuthorityOrigins(a, fs, anchor) /\ OriginIsCurrent(a, fs, k.path, o)
    BY <1>4 DEF Shares
  <1>6. o.kind # "preview"
    BY <1>5 DEF OriginIsCurrent
  <1>7. o \notin os
    BY <1>6
  <1>8. ASSUME NEW x \in Active(a), o \in a.grants[x].origins
        PROVE  x \in Active(b) /\ o \in b.grants[x].origins
    <2>1. x \in DOMAIN a.grants /\ a.grants[x].active
      BY DEF Active
    <2>2. /\ x \in DOMAIN b.grants /\ b.grants[x].active = a.grants[x].active
          /\ o \in b.grants[x].origins
      BY <1>1, <1>7, <1>8, <2>1, StillHeld
    <2>. QED BY <2>1, <2>2 DEF Active
  <1>9. ASSUME NEW x \in Active(a), x.kind = "directory", DirectoryReadIsCurrent(a, fs, x.path)
        PROVE  DirectoryReadIsCurrent(b, fs, x.path)
    <2>1. x \in DOMAIN a.grants /\ x \in Keys
      BY DEF Active, Sound, AuthOK, LedgersOK
    <2>2. x = Dir(x.path)
      BY <1>9, <2>1 DEF Keys, Exact, Dir, Asset
    <2>3. PICK t \in DOMAIN a.workspaces :
             /\ Workspace(t) \in a.grants[Dir(x.path)].origins
             /\ a.workspaces[t].root = x.path /\ RootIsCurrent(a, fs, t)
      BY <1>9 DEF DirectoryReadIsCurrent
    <2>4. Workspace(t) \notin os
      BY OriginsApart
    <2>5. Workspace(t) \in b.grants[x].origins
      BY <1>1, <2>1, <2>2, <2>3, <2>4, StillHeld
    <2>. QED BY <1>2, <2>2, <2>3, <2>5 DEF DirectoryReadIsCurrent, SameSpeakers
  <1>10. o \in AuthorityOrigins(b, fs, anchor)
    <2>1. CASE /\ Exact(anchor) \in Active(a) /\ o \in a.grants[Exact(anchor)].origins
               /\ ExactOriginIsCurrent(a, fs, anchor, o)
      <3>1. Exact(anchor) \in Active(b) /\ o \in b.grants[Exact(anchor)].origins
        BY <1>8, <2>1
      <3>. QED BY <1>2, <2>1, <3>1 DEF AuthorityOrigins, SameSpeakers
    <2>2. CASE \E x \in Active(a) :
                  /\ x.kind = "directory" /\ IsUnder(anchor, x.path)
                  /\ o \in a.grants[x].origins
                  /\ DirectoryReadIsCurrent(a, fs, x.path)
                  /\ OriginIsCurrent(a, fs, anchor, o)
      <3>1. PICK x \in Active(a) :
                  /\ x.kind = "directory" /\ IsUnder(anchor, x.path)
                  /\ o \in a.grants[x].origins
                  /\ DirectoryReadIsCurrent(a, fs, x.path)
                  /\ OriginIsCurrent(a, fs, anchor, o)
        BY <2>2
      <3>2. x \in Active(b) /\ o \in b.grants[x].origins
        BY <1>8, <3>1
      <3>3. DirectoryReadIsCurrent(b, fs, x.path)
        BY <1>9, <3>1
      <3>4. OriginIsCurrent(b, fs, anchor, o)
        BY <1>2, <3>1 DEF SameSpeakers
      <3>. QED BY <3>1, <3>2, <3>3, <3>4 DEF AuthorityOrigins
    <2>. QED BY <1>5, <2>1, <2>2 DEF AuthorityOrigins
  <1>11. k \in Active(b) /\ o \in b.grants[k].origins
    BY <1>5, <1>8
  <1>12. Shares(b, fs, k, AuthorityOrigins(b, fs, anchor))
    BY <1>2, <1>5, <1>10, <1>11 DEF Shares, SameSpeakers
  <1>13. Supporting(b, fs, l.document, anchor) # {}
    BY <1>4, <1>11, <1>12 DEF Supporting
  <1>. QED BY <1>1, <1>3, <1>13 DEF LeaseIsSupported

(* revoke_path_prefix: one sweep leaves only previews that are supported.  *)
LEMMA RevokePrefixIs ==
  ASSUME NEW a, NEW fs, NEW p, NEW documents, NEW roots, Sound(a, documents, roots),
         NEW e, e = RevokePrefix(a, fs, p)
  PROVE  /\ Fewer(a, e) /\ Dated(a, e)
         /\ e # a => \A l \in Leases(e) : LeaseIsSupported(e, fs, l)
  <1>. DEFINE touched == {k \in DOMAIN a.grants : IsUnder(k.path, p)}
              changes == \/ touched # {}
                         \/ \E t \in DOMAIN a.workspaces : IsUnder(a.workspaces[t].root, p)
                         \/ \E l \in Leases(a) : Intersects(l, p)
              os == UNION {a.grants[k].origins : k \in touched} \cup LeasesTouching(a, {p})
              b == RevokeOrigins(a, os)
              w == Restrict(b.workspaces, {t \in DOMAIN b.workspaces :
                                             ~IsUnder(b.workspaces[t].root, p)})
              c == [b EXCEPT !.generation = b.generation + 1, !.workspaces = w]
              ls == {l \in Leases(c) : ~LeaseIsSupported(c, fs, l)}
              d == RevokeOrigins(c, ls)
  <1>1. e = IF ~changes THEN a ELSE d
    BY DEF RevokePrefix
  <1>2. Fewer(a, b) /\ Changed(a, b, documents, roots)
    BY RevokeFewer, RevokeChanged
  <1>3. b.generation = a.generation
    <2>. HIDE DEF os
    <2>. QED BY RevokeSound
  <1>4. Sound(c, documents, roots)
    <2>1. RevokedPrefix(a, p) = c
      BY DEF RevokedPrefix
    <2>. QED BY <2>1, RevokedPrefixChanged DEF Changed
  <1>. HIDE DEF b, w, changes
  <1>5. c.grants = b.grants /\ c.identity = b.identity /\ c.generation = b.generation + 1
    <2>1. c = [b EXCEPT !.generation = b.generation + 1, !.workspaces = w] /\ Fields(b)
      BY <1>2, SoundCounts DEF Changed
    <2>. HIDE DEF c
    <2>. QED BY ONLY <2>1 DEF Fields
  <1>6. Fewer(b, c)
    BY <1>5 DEF Fewer, FewerGrants, KeepsBindings
  <1>. HIDE DEF c
  <1>7. \A l \in ls : l.kind = "preview"
    BY LeasesArePreviews
  <1>8. \A l \in Leases(c) \ ls : LeaseIsSupported(c, fs, l)
    OBVIOUS
  <1>. HIDE DEF ls
  <1>9. Fewer(c, d) /\ d.generation = c.generation
    BY <1>4, <1>7, RevokeFewer, PreviewsAside
  <1>10. \A l \in Leases(d) : l \in Leases(c) \ ls
    <2>1. PICK x : x = d
      OBVIOUS
    <2>2. /\ DOMAIN x.grants \subseteq DOMAIN c.grants
          /\ \A k \in DOMAIN x.grants : x.grants[k].origins = c.grants[k].origins \ ls
      <3>. QED BY <1>4, <2>1, RevokedFrom
    <2>. HIDE DEF d
    <2>. QED BY <2>1, <2>2 DEF Leases
  <1>11. \A l \in Leases(d) : LeaseIsSupported(d, fs, l)
    BY <1>4, <1>7, <1>8, <1>10, SupportKept
  <1>. HIDE DEF d
  <1>12. Fewer(a, d)
    BY <1>2, <1>6, <1>9, FewerFollows
  <1>13. d.generation > a.generation
    BY <1>3, <1>5, <1>9, SoundCounts
  <1>. QED BY <1>1, <1>11, <1>12, <1>13, SameFollows DEF Dated

-------------------------------------------------------------------------------
(* The steps.                                                              *)

(* The origin of a save-as that is reserved is in no ledger yet.           *)
Reserved ==
    \A i \in DOMAIN auth.pendingSaves : \A k \in DOMAIN auth.grants :
        SaveAs(i) \notin auth.grants[k].origins

StepInv == Inv /\ Apart(auth.grants) /\ Reserved

Orderly == Apart(auth'.grants) /\ Reserved' /\ Dated(auth, auth')

Regular == Orderly /\ Wakes(auth.grants, auth'.grants) /\ KeepsBindings(auth, auth')

(* SuspendedStaysSuspended, RebindsOnlyItsOwn, of a step.                  *)
StaysSuspended ==
    \A k \in DOMAIN auth.grants \cap DOMAIN auth'.grants :
       ~auth.grants[k].active /\ auth'.grants[k].active =>
         \/ ~(auth'.grants[k].origins \subseteq auth.grants[k].origins)
         \/ renaming # NoRename /\ renaming' = NoRename /\ k \in renaming.transitioned
         \/ \E t \in DOMAIN auth.pendingRoots \ DOMAIN auth'.pendingRoots :
               k = Asset(auth.pendingRoots[t].root)

Rebinds ==
    \A i \in DOMAIN auth.identity \cap DOMAIN auth'.identity :
       auth'.identity[i] # auth.identity[i] =>
         \E f \in Files : /\ auth.identity[i] = tree[f] /\ auth'.identity[i] = tree'[f]
                          /\ Exact(f) \in Active(auth)
                          /\ Open(i) \in auth.grants[Exact(f)].origins

StepOK == Orderly /\ StaysSuspended /\ Rebinds

(* A regular step is one the properties allow.                             *)
LEMMA RegularOK ==
  ASSUME Regular
  PROVE  StepOK
  BY DEF Regular, StepOK, StaysSuspended, Rebinds, Wakes, KeepsBindings

(* Reservations and the origins of the ledgers.                            *)
LEMMA ReservedKept ==
  ASSUME Reserved, DOMAIN auth'.pendingSaves \subseteq DOMAIN auth.pendingSaves,
         NEW o, \A i \in DOMAIN auth'.pendingSaves : o # SaveAs(i),
         \A k \in DOMAIN auth'.grants : \A p \in auth'.grants[k].origins :
            p = o \/ \E x \in DOMAIN auth.grants : p \in auth.grants[x].origins
  PROVE  Reserved'
  BY DEF Reserved

(* An operation that only takes makes a regular step.                      *)
LEMMA FewerRegular ==
  ASSUME StepInv, Fewer(auth, auth'), Dated(auth, auth'),
         DOMAIN auth'.pendingSaves \subseteq DOMAIN auth.pendingSaves
  PROVE  Regular
  <1>1. Apart(auth'.grants) /\ Wakes(auth.grants, auth'.grants)
    BY FewerApart DEF StepInv, Fewer
  <1>2. Reserved'
    BY DEF StepInv, Reserved, Fewer, FewerGrants
  <1>. QED BY <1>1, <1>2 DEF Regular, Orderly, Fewer

(* What authorizes a save is the ledgers, the workspaces and the bindings. *)
LEMMA SameRecords ==
  ASSUME NEW a, NEW b, b.grants = a.grants, b.workspaces = a.workspaces,
         b.documentWorkspace = a.documentWorkspace, b.identity = a.identity
  PROVE  Fewer(a, b) /\ SameWriters(a, b)
  <1>1. Fewer(a, b)
    BY DEF Fewer, FewerGrants, KeepsBindings
  <1>2. \A fs, f : HasExactAuthority(a, fs, f) <=> HasExactAuthority(b, fs, f)
    <2>1. ASSUME NEW fs, NEW p, NEW o
          PROVE  ExactOriginIsCurrent(a, fs, p, o) <=> ExactOriginIsCurrent(b, fs, p, o)
      BY DEF ExactOriginIsCurrent, OriginIsCurrent, WorkspaceOriginIsCurrent, RootIsCurrent
    <2>2. Active(a) = Active(b)
      BY DEF Active
    <2>. QED BY <2>1, <2>2 DEF HasExactAuthority
  <1>. QED BY <1>1, <1>2 DEF SameWriters

(* The session left alone.                                                 *)
LEMMA SameRegular ==
  ASSUME StepInv, auth' = auth
  PROVE  Regular
  BY SameFollows, FewerRegular

(* Nothing granted: pending roots and reservations.                        *)
LEMMA PendingRegular ==
  ASSUME StepInv, auth'.grants = auth.grants, auth'.workspaces = auth.workspaces,
         auth'.documentWorkspace = auth.documentWorkspace, auth'.identity = auth.identity,
         DOMAIN auth'.pendingSaves \subseteq DOMAIN auth.pendingSaves,
         auth'.generation \in Nat, auth'.generation >= auth.generation
  PROVE  Regular
  <1>1. Fewer(auth, auth') /\ SameWriters(auth, auth')
    BY SameRecords
  <1>2. auth.generation \in Nat
    BY SoundCounts DEF StepInv, Inv, SessionInv, AuthInv
  <1>3. Dated(auth, auth')
    BY <1>1, <1>2 DEF Dated
  <1>. QED BY <1>1, <1>3, FewerRegular

(* An origin that nobody has, granted under a new generation.              *)
LEMMA GrantRegular ==
  ASSUME StepInv, NEW k, NEW x, k.kind # x.kind, x.kind # "exact", NEW o,
         k.kind = "exact" => o.kind \in {"open", "saveAs", "created"},
         \A y \in DOMAIN auth.grants : o \notin auth.grants[y].origins,
         auth'.grants = Put(Put(auth.grants, k, o), x, o),
         auth'.generation > auth.generation,
         DOMAIN auth'.pendingSaves \subseteq DOMAIN auth.pendingSaves,
         \A i \in DOMAIN auth'.pendingSaves : o # SaveAs(i)
  PROVE  Orderly /\ Wakes(auth.grants, auth'.grants)
  <1>1. PICK g, h : g = auth.grants /\ h = auth'.grants
    OBVIOUS
  <1>2. /\ Apart(h) /\ Wakes(g, h)
        /\ \A y \in DOMAIN h : \A p \in h[y].origins :
              p = o \/ (y \in DOMAIN g /\ p \in g[y].origins)
    BY <1>1, TwoPuts DEF StepInv
  <1>3. Reserved'
    BY <1>1, <1>2, ReservedKept DEF StepInv
  <1>. QED BY <1>1, <1>2, <1>3 DEF Orderly, Dated

(* Numbers that were not given out have no origin.                         *)
LEMMA NotHeld ==
  ASSUME StepInv
  PROVE  \A k \in DOMAIN auth.grants :
            /\ Workspace(auth.nextToken) \notin auth.grants[k].origins
            /\ \A t : t \notin DOMAIN auth.workspaces => Workspace(t) \notin auth.grants[k].origins
            /\ Open(auth.nextDocument) \notin auth.grants[k].origins
            /\ Created(auth.nextDocument) \notin auth.grants[k].origins
            /\ SaveAs(auth.nextDocument) \notin auth.grants[k].origins
            /\ \A doc, at : Preview(auth.nextLease, doc, at) \notin auth.grants[k].origins
  <1>1. Sound(auth, bound, chosen)
    BY DEF StepInv, Inv, SessionInv, AuthInv
  <1>2. /\ auth.nextToken \in Nat /\ auth.nextDocument \in Nat /\ auth.nextLease \in Nat
    BY <1>1, SoundCounts
  <1>. SUFFICES ASSUME NEW k \in DOMAIN auth.grants
                PROVE  /\ Workspace(auth.nextToken) \notin auth.grants[k].origins
                       /\ \A t : t \notin DOMAIN auth.workspaces =>
                            Workspace(t) \notin auth.grants[k].origins
                       /\ Open(auth.nextDocument) \notin auth.grants[k].origins
                       /\ Created(auth.nextDocument) \notin auth.grants[k].origins
                       /\ SaveAs(auth.nextDocument) \notin auth.grants[k].origins
            /\ SaveAs(auth.nextDocument) \notin auth.grants[k].origins
                       /\ \A doc, at :
                            Preview(auth.nextLease, doc, at) \notin auth.grants[k].origins
    OBVIOUS
  <1>3. \A o \in auth.grants[k].origins :
          /\ o.kind = "workspace" => o.id \in 1..(auth.nextToken - 1)
          /\ o.kind \in {"open", "created", "saveAs"} => o.id \in 1..(auth.nextDocument - 1)
          /\ o.kind = "preview" => o.id \in 1..(auth.nextLease - 1)
    BY <1>1, OriginKinds DEF Sound, AuthOK, LedgersOK
  <1>4. /\ auth.nextToken \notin 1..(auth.nextToken - 1)
        /\ auth.nextDocument \notin 1..(auth.nextDocument - 1)
        /\ auth.nextLease \notin 1..(auth.nextLease - 1)
    BY <1>2
  <1>5. \A t : t \notin DOMAIN auth.workspaces => Workspace(t) \notin auth.grants[k].origins
    BY <1>1, OriginsApart DEF Sound, FollowsRoots
  <1>. QED BY <1>3, <1>4, <1>5, OriginsApart

(* What the invariant says of the state the step starts in.                *)
LEMMA SoundHere ==
  ASSUME StepInv
  PROVE  /\ AuthInv /\ Sound(auth, bound, chosen) /\ Fields(auth) /\ TouchedOK /\ WorldOK
         /\ auth.generation \in Nat
  BY SoundCounts DEF StepInv, Inv, SessionInv, AuthInv

(* A token put into the two ledgers of a root.                             *)
LEMMA PublishedAre ==
  ASSUME NEW g, NEW t, NEW root, NEW h, h = PublishedGrants(g, t, root)
  PROVE  \A y \in DOMAIN g : y \notin {Dir(root), Asset(root)} => h[y] = g[y]
  <1>1. PICK i : i = Put(g, Dir(root), Workspace(t))
    OBVIOUS
  <1>2. IsPut(g, Dir(root), Workspace(t), i)
    BY <1>1, PutIs
  <1>3. IsPut(i, Asset(root), Workspace(t), h)
    BY <1>1, PutIs DEF PublishedGrants
  <1>. QED BY <1>2, <1>3 DEF IsPut

(* open_directory: a workspace is published with the two ledgers of its root.*)
LEMMA OpenDirectoryRegular ==
  ASSUME StepInv, NEW r, OpenDirectory(r)
  PROVE  Regular
  <1>1. /\ auth'.grants = PublishedGrants(auth.grants, auth.nextToken, r)
        /\ auth'.identity = auth.identity /\ auth'.pendingSaves = auth.pendingSaves
        /\ auth'.generation = auth.generation + 2
    BY SoundHere, OpenDirectoryIs
  <1>2. PICK o : o = Workspace(auth.nextToken)
    OBVIOUS
  <1>3. /\ \A y \in DOMAIN auth.grants : o \notin auth.grants[y].origins
        /\ \A i : o # SaveAs(i)
    BY <1>2, NotHeld, OriginsApart
  <1>4. Dir(r).kind = "directory" /\ Asset(r).kind = "asset"
    BY DEF Dir, Asset
  <1>5. auth'.grants = Put(Put(auth.grants, Dir(r), o), Asset(r), o)
    BY <1>1, <1>2 DEF PublishedGrants
  <1>6. Orderly /\ Wakes(auth.grants, auth'.grants)
    <2>1. auth'.generation > auth.generation
      BY <1>1, SoundHere
    <2>. QED BY <1>1, <1>3, <1>4, <1>5, <2>1, GrantRegular
  <1>. QED BY <1>1, <1>6 DEF Regular, KeepsBindings

(* prepare_workspace_authorization.                                        *)
LEMMA PrepareRegular ==
  ASSUME StepInv, NEW r, PrepareWorkspace(r)
  PROVE  Regular
  <1>. DEFINE t == auth.nextToken
              v == [x \in DOMAIN auth.pendingRoots \cup {t} |->
                      IF x = t THEN [root |-> r, identity |-> tree[r]]
                      ELSE auth.pendingRoots[x]]
  <1>1. PICK a, b : a = auth /\ b = auth'
    OBVIOUS
  <1>2. b = [a EXCEPT !.nextToken = a.nextToken + 1, !.pendingRoots = v] /\ Fields(a)
    BY <1>1, SoundHere DEF PrepareWorkspace, Become
  <1>. HIDE DEF v
  <1>3. /\ b.grants = a.grants /\ b.workspaces = a.workspaces
        /\ b.documentWorkspace = a.documentWorkspace /\ b.identity = a.identity
        /\ b.pendingSaves = a.pendingSaves /\ b.generation = a.generation
    BY ONLY <1>2 DEF Fields
  <1>. QED BY <1>1, <1>3, SoundHere, PendingRegular

(* A pending workspace that is dropped.                                    *)
LEMMA DropRegular ==
  ASSUME StepInv, NEW t, auth' = Dropped(auth, t)
  PROVE  Regular
  <1>1. /\ auth'.grants = auth.grants /\ auth'.workspaces = auth.workspaces
        /\ auth'.documentWorkspace = auth.documentWorkspace
        /\ auth'.identity = auth.identity /\ auth'.pendingSaves = auth.pendingSaves
        /\ auth'.generation = auth.generation
    BY SoundHere, DroppedIs
  <1>. QED BY <1>1, SoundHere, PendingRegular

(* A window that refuses its workspace takes only the token back.          *)
LEMMA SettleWorkspaceOK ==
  ASSUME StepInv, NEW t \in DOMAIN auth.pendingRoots, SettleWorkspace(t)
  PROVE  StepOK
  <1>. DEFINE root == auth.pendingRoots[t].root
              a == Dropped(auth, t)
              b == PublishWorkspace(a, t, root, tree[root])
              c == RevokeOrigins(b, {Workspace(t)})
  <1>1. \/ auth' = a
        \/ tree[root] = auth.pendingRoots[t].identity /\ auth' \in {b, c}
    BY DEF SettleWorkspace, Become, Dropped
  <1>2. CASE auth' = a
    BY <1>2, DropRegular, RegularOK
  <1>3. CASE tree[root] = auth.pendingRoots[t].identity /\ auth' \in {b, c}
    <2>1. /\ Sound(b, bound, chosen)
          /\ t \notin DOMAIN auth.workspaces
          /\ b.grants = PublishedGrants(auth.grants, t, root)
          /\ b.identity = auth.identity /\ b.pendingSaves = auth.pendingSaves
          /\ DOMAIN b.pendingRoots = DOMAIN auth.pendingRoots \ {t}
          /\ b.generation = auth.generation + 2
      BY <1>3, SoundHere, PublishedRootIs
    <2>2. root = auth.pendingRoots[t].root
      OBVIOUS
    <2>. HIDE DEF b, root
    <2>3. PICK o : o = Workspace(t)
      OBVIOUS
    <2>4. /\ \A y \in DOMAIN auth.grants : o \notin auth.grants[y].origins
          /\ \A i : o # SaveAs(i)
      BY <2>1, <2>3, NotHeld, OriginsApart
    <2>5. Dir(root).kind = "directory" /\ Asset(root).kind = "asset"
      BY DEF Dir, Asset
    <2>6. b.grants = Put(Put(auth.grants, Dir(root), o), Asset(root), o)
      BY <2>1, <2>3 DEF PublishedGrants
    <2>7. b.generation > auth.generation
      BY <2>1, SoundHere
    <2>8. CASE auth' = b
      <3>1. Orderly /\ Wakes(auth.grants, auth'.grants)
        BY <2>1, <2>4, <2>5, <2>6, <2>7, <2>8, GrantRegular
      <3>. QED BY <2>1, <2>8, <3>1, RegularOK DEF Regular, KeepsBindings
    <2>9. CASE auth' = c
      <3>1. PICK g, h : g = auth.grants /\ h = b.grants
        OBVIOUS
      <3>2. /\ Apart(h)
            /\ \A y \in DOMAIN h : \A p \in h[y].origins :
                  p = o \/ (y \in DOMAIN g /\ p \in g[y].origins)
        <4>1. /\ h = Put(Put(g, Dir(root), o), Asset(root), o) /\ Apart(g)
              /\ \A y \in DOMAIN g : o \notin g[y].origins
          BY <2>4, <2>6, <3>1 DEF StepInv
        <4>2. PICK k, x : k = Dir(root) /\ x = Asset(root)
          OBVIOUS
        <4>3. k.kind # x.kind /\ k.kind # "exact" /\ x.kind # "exact"
          BY <2>5, <4>2
        <4>. QED BY <4>1, <4>2, <4>3, TwoPuts
      <3>3. \A y \in DOMAIN g : y \notin {Dir(root), Asset(root)} => h[y] = g[y]
        BY <2>1, <3>1, PublishedAre
      <3>4. Fewer(b, c) /\ Changed(b, c, bound, chosen)
        BY <2>1, RevokeFewer, RevokeChanged
      <3>. HIDE DEF c
      <3>5. Apart(auth'.grants)
        BY <2>9, <3>1, <3>2, <3>4, FewerApart DEF Fewer
      <3>6. auth'.pendingSaves = auth.pendingSaves /\ auth'.pendingRoots = b.pendingRoots
            /\ auth'.generation > auth.generation
        <4>1. c.generation \in Nat /\ b.generation \in Nat /\ auth.generation \in Nat
          BY <2>1, <3>4, SoundHere, SoundCounts DEF Changed
        <4>. QED BY <2>1, <2>7, <2>9, <3>4, <4>1 DEF Changed, After
      <3>7. Reserved'
        <4>1. \A k \in DOMAIN auth'.grants : \A p \in auth'.grants[k].origins :
                 p = o \/ \E x \in DOMAIN auth.grants : p \in auth.grants[x].origins
          BY <2>9, <3>1, <3>2, <3>4 DEF Fewer, FewerGrants
        <4>. QED BY <2>4, <3>6, <4>1, ReservedKept DEF StepInv
      <3>8. StaysSuspended
        <4>. SUFFICES ASSUME NEW k \in DOMAIN auth.grants, k \in DOMAIN auth'.grants,
                             ~auth.grants[k].active, auth'.grants[k].active
                      PROVE  k = Asset(root)
          BY <2>1, <2>2, <3>6 DEF StaysSuspended
        <4>1. k \in DOMAIN h /\ h[k].active
          BY <2>9, <3>1, <3>4 DEF Fewer, FewerGrants
        <4>2. k \in {Dir(root), Asset(root)}
          BY <3>1, <3>3, <4>1
        <4>3. k.kind # "directory"
          BY SoundHere DEF Sound, AuthOK, LedgersOK
        <4>. QED BY <2>5, <4>2, <4>3
      <3>9. KeepsBindings(auth, auth')
        BY <2>1, <2>9, <3>4 DEF Fewer, KeepsBindings
      <3>. QED BY <3>5, <3>6, <3>7, <3>8, <3>9 DEF StepOK, Orderly, Dated, Rebinds, KeepsBindings
    <2>. QED BY <1>3, <2>8, <2>9
  <1>. QED BY <1>1, <1>2, <1>3

(* Documents opened and created.                                           *)
LEMMA CommitOpenRegular ==
  ASSUME StepInv, NEW r, CommitOpen(r)
  PROVE  Regular
  <1>1. PICK i, o : i = auth.nextDocument /\ o = Open(i)
    OBVIOUS
  <1>2. /\ auth'.grants = GrantedFile(auth.grants, r.path, o)
        /\ auth'.pendingSaves = auth.pendingSaves
        /\ auth'.generation = auth.generation + 1
        /\ \A x \in DOMAIN auth.identity : x # i => auth'.identity[x] = auth.identity[x]
    BY <1>1, SoundHere, CommitOpenIs
  <1>3. /\ \A y \in DOMAIN auth.grants : o \notin auth.grants[y].origins
        /\ \A x : o # SaveAs(x)
        /\ o.kind = "open"
    BY <1>1, NotHeld, OriginsApart
  <1>4. Exact(r.path).kind = "exact" /\ Asset(Front(r.path)).kind = "asset"
    BY DEF Exact, Asset
  <1>5. auth'.grants = Put(Put(auth.grants, Exact(r.path), o), Asset(Front(r.path)), o)
    BY <1>2 DEF GrantedFile
  <1>6. Orderly /\ Wakes(auth.grants, auth'.grants)
    <2>1. auth'.generation > auth.generation
      BY <1>2, SoundHere
    <2>. QED BY <1>2, <1>3, <1>4, <1>5, <2>1, GrantRegular
  <1>7. i \notin DOMAIN auth.identity
    <2>1. i \in Nat /\ DOMAIN auth.identity \subseteq 1..(i - 1)
      BY <1>1, SoundHere, SoundCounts DEF IdentitiesOK, Ids
    <2>. QED BY <2>1
  <1>. QED BY <1>2, <1>6, <1>7 DEF Regular, KeepsBindings

(* create_workspace_file.                                                  *)
LEMMA CreateFileRegular ==
  ASSUME StepInv, NEW t, NEW f, CreateFile(t, f)
  PROVE  Regular
  <1>1. PICK o : o = Created(auth.nextDocument)
    OBVIOUS
  <1>2. /\ auth'.grants = GrantedFile(auth.grants, f, o)
        /\ auth'.pendingSaves = auth.pendingSaves /\ auth'.identity = auth.identity
        /\ auth'.generation = auth.generation + 2
    BY <1>1, SoundHere, CreateFileIs
  <1>3. /\ \A y \in DOMAIN auth.grants : o \notin auth.grants[y].origins
        /\ \A x : o # SaveAs(x)
        /\ o.kind = "created"
    BY <1>1, NotHeld, OriginsApart
  <1>4. Exact(f).kind = "exact" /\ Asset(Front(f)).kind = "asset"
    BY DEF Exact, Asset
  <1>5. auth'.grants = Put(Put(auth.grants, Exact(f), o), Asset(Front(f)), o)
    BY <1>2 DEF GrantedFile
  <1>6. Orderly /\ Wakes(auth.grants, auth'.grants)
    <2>1. auth'.generation > auth.generation
      BY <1>2, SoundHere
    <2>. QED BY <1>2, <1>3, <1>4, <1>5, <2>1, GrantRegular
  <1>. QED BY <1>2, <1>6 DEF Regular, KeepsBindings

(* Previews.                                                               *)
LEMMA LeaseRegular ==
  ASSUME StepInv, NEW root, NEW doc, NEW at, Lease(root, doc, at)
  PROVE  Regular
  <1>1. PICK o, g, h : o = Preview(auth.nextLease, doc, at) /\ g = auth.grants /\ h = auth'.grants
    OBVIOUS
  <1>2. /\ h = Put(g, Asset(root), o)
        /\ auth'.pendingSaves = auth.pendingSaves /\ auth'.identity = auth.identity
        /\ auth'.generation = auth.generation + 1
    BY <1>1, SoundHere, LeaseIs
  <1>3. /\ \A y \in DOMAIN g : o \notin g[y].origins
        /\ \A x : o # SaveAs(x)
    BY <1>1, NotHeld, OriginsApart
  <1>4. Asset(root).kind # "exact"
    BY DEF Asset
  <1>5. /\ Apart(h) /\ Wakes(g, h)
        /\ \A y \in DOMAIN h : \A p \in h[y].origins :
              p = o \/ (y \in DOMAIN g /\ p \in g[y].origins)
    BY <1>1, <1>2, <1>3, <1>4, OnePut DEF StepInv
  <1>6. Reserved'
    BY <1>1, <1>2, <1>3, <1>5, ReservedKept DEF StepInv
  <1>7. auth'.generation > auth.generation
    BY <1>2, SoundHere
  <1>. QED BY <1>1, <1>2, <1>5, <1>6, <1>7 DEF Regular, Orderly, Dated, KeepsBindings

(* A preview that is retired.                                              *)
LEMMA RetireRegular ==
  ASSUME StepInv, NEW l, RetirePreview(l)
  PROVE  Regular
  <1>1. PICK b : b = RevokeOrigins(auth, {l})
    OBVIOUS
  <1>2. auth' = [b EXCEPT !.generation = b.generation + 1]
    BY <1>1 DEF RetirePreview, Become
  <1>3. Fewer(auth, b) /\ Changed(auth, b, bound, chosen)
    BY <1>1, SoundHere, RevokeFewer, RevokeChanged
  <1>4. Fewer(b, auth') /\ auth'.generation = b.generation + 1
    BY <1>2, <1>3, BumpFewer DEF Changed
  <1>5. Fewer(auth, auth')
    BY <1>3, <1>4, FewerFollows
  <1>6. auth'.generation > auth.generation
    BY <1>3, <1>4, SoundHere, SoundCounts DEF Changed, After
  <1>7. auth'.pendingSaves = auth.pendingSaves
    <2>1. Changed(b, auth', bound, chosen)
      BY <1>2, <1>3, BumpChanged DEF Changed
    <2>. QED BY <1>3, <2>1 DEF Changed, After
  <1>. QED BY <1>5, <1>6, <1>7, FewerRegular DEF Dated

(* Saves.  The documents a save binds to the file it wrote were bound to   *)
(* the one it replaced.                                                    *)
LEMMA SettleRebinds ==
  ASSUME StepInv, NEW f \in Files, Written(f),
         \A i \in DOMAIN auth.identity :
            auth'.identity[i] = IF i \in IdentityOrigins(auth, tree, f) THEN born + 1
                                ELSE auth.identity[i]
  PROVE  Rebinds
  <1>1. tree'[f] = born + 1
    BY SoundHere, FileIsPath DEF WorldOK, Written
  <1>. SUFFICES ASSUME NEW i \in DOMAIN auth.identity, auth'.identity[i] # auth.identity[i]
                PROVE  /\ auth.identity[i] = tree[f] /\ auth'.identity[i] = tree'[f]
                       /\ Exact(f) \in Active(auth)
                       /\ Open(i) \in auth.grants[Exact(f)].origins
    BY DEF Rebinds
  <1>2. i \in IdentityOrigins(auth, tree, f) /\ auth'.identity[i] = born + 1
    OBVIOUS
  <1>3. /\ Exact(f) \in Active(auth) /\ Open(i) \in auth.grants[Exact(f)].origins
        /\ ExactOriginIsCurrent(auth, tree, f, Open(i))
    BY <1>2 DEF IdentityOrigins
  <1>4. auth.identity[i] = tree[f]
    BY <1>3, OriginsApart DEF ExactOriginIsCurrent
  <1>. QED BY <1>1, <1>2, <1>3, <1>4

(* A save of an open document.                                             *)
LEMMA SaveDocumentOK ==
  ASSUME StepInv, NEW f \in Files, SaveDocument(f)
  PROVE  StepOK
  <1>1. PICK ids, object, generation :
           /\ ids = IdentityOrigins(auth, tree, f) /\ object = born + 1
           /\ generation = auth.generation + 1
    OBVIOUS
  <1>2. auth' = Settle(auth, ids, object, generation)
    BY <1>1 DEF SaveDocument, Become, Settled
  <1>3. generation \in Nat /\ generation > auth.generation
    BY <1>1, SoundHere
  <1>4. /\ auth'.grants = auth.grants /\ auth'.workspaces = auth.workspaces
        /\ auth'.documentWorkspace = auth.documentWorkspace
        /\ auth'.pendingSaves = auth.pendingSaves
        /\ \A i \in DOMAIN auth.identity :
              auth'.identity[i] = IF i \in ids THEN object ELSE auth.identity[i]
        /\ auth'.generation = generation \/ auth' = auth
    BY <1>2, <1>3, SoundHere, SettleIs
  <1>5. Rebinds
    BY <1>1, <1>4, SettleRebinds DEF SaveDocument
  <1>6. Orderly
    BY <1>3, <1>4, SameFollows DEF Orderly, StepInv, Reserved, Dated
  <1>7. StaysSuspended
    BY <1>4 DEF StaysSuspended
  <1>. QED BY <1>5, <1>6, <1>7 DEF StepOK

(* A reserved save-as that is published.                                   *)
LEMMA PublishSaveOK ==
  ASSUME StepInv, NEW h \in held, PublishSaveAs(h)
  PROVE  StepOK
  <1>1. PICK ids, object, generation, o, b :
           /\ ids = IdentityOrigins(auth, tree, h.path) /\ object = born + 1
           /\ generation = auth.generation + 1 /\ o = SaveAs(h.id)
           /\ b = Publish(auth, h)
    OBVIOUS
  <1>2. /\ auth' = Settle(b, ids, object, generation)
        /\ Sound(b, bound, chosen)
        /\ b.grants = GrantedFile(auth.grants, h.path, o)
        /\ b.identity = auth.identity
        /\ DOMAIN b.pendingSaves = DOMAIN auth.pendingSaves \ {h.id}
        /\ b.generation = generation
    BY <1>1, SoundHere, PublishSaveIs
  <1>3. generation \in Nat /\ generation > auth.generation
    BY <1>1, SoundHere
  <1>4. /\ auth'.grants = b.grants /\ auth'.pendingSaves = b.pendingSaves
        /\ \A i \in DOMAIN b.identity :
              auth'.identity[i] = IF i \in ids THEN object ELSE b.identity[i]
        /\ auth'.generation = generation
    BY <1>2, <1>3, SettleIs
  <1>5. h.path \in Files /\ h.id \in DOMAIN auth.pendingSaves
    BY SoundHere DEF AuthInv, SavesOK, PublishSaveAs, MatchesPending
  <1>6. Rebinds
    BY <1>1, <1>2, <1>4, <1>5, SettleRebinds DEF PublishSaveAs
  <1>7. Orderly /\ Wakes(auth.grants, auth'.grants)
    <2>1. \A y \in DOMAIN auth.grants : o \notin auth.grants[y].origins
      BY <1>1, <1>5 DEF StepInv, Reserved
    <2>2. o.kind = "saveAs" /\ \A i \in DOMAIN auth'.pendingSaves : o # SaveAs(i)
      BY <1>1, <1>2, <1>4, OriginsApart
    <2>3. Exact(h.path).kind = "exact" /\ Asset(Front(h.path)).kind = "asset"
      BY DEF Exact, Asset
    <2>4. auth'.grants = Put(Put(auth.grants, Exact(h.path), o), Asset(Front(h.path)), o)
      BY <1>2, <1>4 DEF GrantedFile
    <2>5. DOMAIN auth'.pendingSaves \subseteq DOMAIN auth.pendingSaves
      BY <1>2, <1>4
    <2>. QED BY <1>3, <1>4, <2>1, <2>2, <2>3, <2>4, <2>5, GrantRegular
  <1>. QED BY <1>6, <1>7 DEF StepOK, StaysSuspended, Wakes

(* A save-as that is reserved.                                             *)
LEMMA ReserveRegular ==
  ASSUME StepInv, NEW f, ReserveSaveAs(f)
  PROVE  Regular
  <1>1. /\ auth'.grants = auth.grants /\ auth'.workspaces = auth.workspaces
        /\ auth'.documentWorkspace = auth.documentWorkspace
        /\ auth'.identity = auth.identity
        /\ auth'.pendingSaves = ReservedSaves(f)
        /\ auth'.generation = auth.generation + 1
    BY SoundHere, ReserveIs
  <1>2. DOMAIN auth'.pendingSaves = {auth.nextDocument}
    BY <1>1 DEF ReservedSaves
  <1>3. Reserved'
    BY <1>1, <1>2, NotHeld DEF Reserved
  <1>4. auth'.generation > auth.generation
    BY <1>1, SoundHere
  <1>. QED BY <1>1, <1>3, <1>4 DEF Regular, Orderly, StepInv, Dated, Wakes, KeepsBindings

(* A reserved save-as that is invalidated.                                 *)
LEMMA InvalidateRegular ==
  ASSUME StepInv, NEW h, InvalidateSaveAs(h)
  PROVE  Regular
  <1>1. CASE auth' = auth
    BY <1>1, SameRegular
  <1>2. CASE auth' # auth
    <2>1. /\ auth'.grants = auth.grants /\ auth'.workspaces = auth.workspaces
          /\ auth'.documentWorkspace = auth.documentWorkspace
          /\ auth'.identity = auth.identity
          /\ DOMAIN auth'.pendingSaves \subseteq DOMAIN auth.pendingSaves
          /\ auth'.generation \in Nat /\ auth'.generation >= auth.generation
      BY <1>2, SoundHere, InvalidateIs
    <2>. QED BY <2>1, PendingRegular
  <1>. QED BY <1>1, <1>2

-------------------------------------------------------------------------------
(* Renames, the trash and the watch.                                       *)

(* An operation that only takes, by what it changes.                       *)
LEMMA ChangedRegular ==
  ASSUME StepInv, Changed(auth, auth', bound, chosen), Fewer(auth, auth'), Dated(auth, auth')
  PROVE  Regular
  BY FewerRegular DEF Changed, After

(* A path prefix that moves.                                               *)
LEMMA RelocateRegular ==
  ASSUME StepInv, NEW old, NEW new, Carries(old, new), NEW object,
         auth' = RelocatePrefix(auth, old, new, object)
  PROVE  Regular
  <1>1. Sound(auth, bound, chosen) /\ Apart(auth.grants)
    BY SoundHere DEF StepInv
  <1>2. PICK a, b : a = auth /\ b = auth'
    OBVIOUS
  <1>3. /\ Apart(b.grants) /\ Wakes(a.grants, b.grants)
        /\ \A k \in DOMAIN b.grants : \A o \in b.grants[k].origins :
              \E x \in DOMAIN a.grants : o \in a.grants[x].origins
        /\ KeepsBindings(a, b) /\ Dated(a, b)
    <2>1. Sound(a, bound, chosen) /\ Apart(a.grants) /\ b = RelocatePrefix(a, old, new, object)
      BY <1>1, <1>2
    <2>2. Carries(old, new)
      OBVIOUS
    <2>. QED BY ONLY <2>1, <2>2, RelocateIs
  <1>4. Changed(auth, auth', bound, chosen)
    BY <1>1, RelocateChanged
  <1>5. Reserved'
    BY <1>2, <1>3, <1>4 DEF StepInv, Reserved, Changed, After
  <1>. QED BY <1>2, <1>3, <1>5 DEF Regular, Orderly

(* rename_workspace_entry.                                                 *)
LEMMA RenameRegular ==
  ASSUME StepInv, NEW t, NEW m \in Moves, Rename(t, m[1], m[2])
  PROVE  Regular
  <1>1. CASE auth' = RelocatePrefix(auth, m[1], m[2], 0)
    BY <1>1, MovesCarry, RelocateRegular
  <1>2. CASE auth' = SuspendRename(auth, {m[1], m[2]})
    BY <1>2, SoundHere, SuspendRenameChanged, SuspendRenameFewer, ChangedRegular
  <1>. QED BY <1>1, <1>2 DEF Rename, Become

(* move_to_trash.                                                          *)
LEMMA TrashRegular ==
  ASSUME StepInv, NEW t, NEW p, Trash(t, p)
  PROVE  Regular
  <1>1. CASE auth' = RevokePrefix(auth, tree', p)
    BY <1>1, SoundHere, RevokePrefixChanged, RevokePrefixIs, ChangedRegular
  <1>2. CASE auth' = SuspendDelete(auth, p)
    BY <1>2, SoundHere, SuspendDeleteChanged, SuspendDeleteFewer, ChangedRegular
  <1>. QED BY <1>1, <1>2 DEF Trash, Become

(* What the watch of the active document does.                             *)
LEMMA WatchRegular ==
  ASSUME StepInv, NEW w \in watched, WatchRevokes(w) \/ \E f \in Files : WatchFollows(w, f)
  PROVE  Regular
  <1>1. CASE WatchRevokes(w)
    <2>1. auth' = RevokePrefix(auth, tree, w.path)
      BY <1>1 DEF WatchRevokes, Become
    <2>. QED BY <2>1, SoundHere, RevokePrefixChanged, RevokePrefixIs, ChangedRegular
  <1>2. CASE \E f \in Files : WatchFollows(w, f)
    <2>1. PICK f \in Files : WatchFollows(w, f)
      BY <1>2
    <2>2. auth' = RelocatePrefix(auth, w.path, f, w.object)
      BY <2>1 DEF WatchFollows, Become
    <2>3. Carries(w.path, f)
      BY SoundHere, FilesCarry DEF TouchedOK
    <2>. QED BY <2>2, <2>3, RelocateRegular
  <1>. QED BY <1>1, <1>2

(* RenameSettlesAsOne of a step.                                           *)
SettlesAsOne ==
    renaming # NoRename /\ renaming' = NoRename =>
       LET files == {k \in renaming.transitioned \cap DOMAIN auth.grants : k.kind = "exact"}
           at(k) == Exact(Relocated(k.path, renaming.old, renaming.new))
       IN  \/ files \subseteq Active(auth')
           \/ {at(k) : k \in files} \subseteq Active(auth')
           \/ Suspendable(auth', {renaming.old, renaming.new}) = {}

(* The three ends of a rename that failed.                                 *)
LEMMA ReconcileOK ==
  ASSUME StepInv, ReconcileRename
  PROVE  StepOK /\ SettlesAsOne
  <1>1. PICK a, d, c, old, new, transitioned :
           /\ a = auth /\ d = auth' /\ old = renaming.old /\ new = renaming.new
           /\ transitioned = renaming.transitioned
           /\ c = RestoreRename(auth, transitioned)
    OBVIOUS
  <1>2. /\ renaming # NoRename /\ renaming' = NoRename
        /\ d = c \/ d = RelocatePrefix(c, old, new, 0) \/ d = FinalizeRename(a, {old, new})
    BY <1>1 DEF ReconcileRename, Become
  <1>3. Sound(a, bound, chosen) /\ Apart(a.grants)
    BY <1>1, SoundHere DEF StepInv
  <1>4. CASE d = FinalizeRename(a, {old, new})
    <2>1. Fewer(a, d) /\ Dated(a, d) /\ Suspendable(d, {old, new}) = {}
      BY <1>3, <1>4, FinalizeFewer
    <2>2. Changed(a, d, bound, chosen)
      BY <1>3, <1>4, FinalizeRenameChanged
    <2>. QED BY <1>1, <2>1, <2>2, ChangedRegular, RegularOK DEF SettlesAsOne
  <1>5. CASE d = c \/ d = RelocatePrefix(c, old, new, 0)
    <2>1. /\ DOMAIN c.grants = DOMAIN a.grants
          /\ \A k \in DOMAIN c.grants :
                /\ c.grants[k].origins = a.grants[k].origins
                /\ c.grants[k].active => a.grants[k].active \/ k \in transitioned
                /\ k \in transitioned => c.grants[k].active
          /\ DOMAIN c.identity = DOMAIN a.identity /\ KeepsBindings(a, c)
          /\ Dated(a, c)
      BY <1>1, <1>3, RestoreIs
    <2>2. Changed(a, c, bound, chosen)
      BY <1>1, <1>3, RestoreChanged
    <2>3. Sound(c, bound, chosen) /\ c.pendingSaves = a.pendingSaves
      BY <2>2 DEF Changed, After
    <2>4. Apart(c.grants)
      BY <1>3, <2>1 DEF Apart
    <2>5. a.grants = auth.grants /\ d.grants = auth'.grants
      BY <1>1
    <2>6. CASE d = c
      <3>1. Orderly
        BY <1>1, <2>1, <2>3, <2>4, <2>6 DEF Orderly, StepInv, Reserved
      <3>2. StaysSuspended
        BY <1>1, <1>2, <2>1, <2>6 DEF StaysSuspended
      <3>3. Rebinds
        BY <1>1, <2>1, <2>6 DEF Rebinds, KeepsBindings
      <3>4. \A k \in transitioned \cap DOMAIN auth.grants : k \in Active(auth')
        <4>. SUFFICES ASSUME NEW k \in transitioned, k \in DOMAIN a.grants
                      PROVE  k \in Active(c)
          BY <1>1, <2>6
        <4>1. k \in DOMAIN c.grants /\ c.grants[k].active
          BY <2>1
        <4>2. c.grants[k].origins # {}
          BY <2>3, <4>1 DEF Sound, AuthOK, LedgersOK, LedgerOK
        <4>. QED BY <4>1, <4>2 DEF Active
      <3>. QED BY <1>1, <3>1, <3>2, <3>3, <3>4 DEF StepOK, SettlesAsOne
    <2>7. CASE d = RelocatePrefix(c, old, new, 0)
      <3>1. Carries(old, new)
        <4>1. PICK m : m = <<renaming.old, renaming.new>>
          OBVIOUS
        <4>2. m \in Moves /\ m[1] = old /\ m[2] = new
          BY <1>1, <1>2, <4>1, SoundHere DEF TouchedOK
        <4>. QED BY <4>2, MovesCarry
      <3>2. /\ Apart(d.grants) /\ Wakes(c.grants, d.grants)
            /\ \A k \in DOMAIN d.grants : \A o \in d.grants[k].origins :
                  \E x \in DOMAIN c.grants : o \in c.grants[x].origins
            /\ KeepsBindings(c, d) /\ Dated(c, d)
            /\ \A x \in DOMAIN c.grants :
                  x.kind = "exact" /\ c.grants[x].active =>
                     Rekeyed(x, old, new) \in Active(d)
        <4>1. PICK object : object = 0
          OBVIOUS
        <4>2. d = RelocatePrefix(c, old, new, object)
          BY <2>7, <4>1
        <4>3. Apart(d.grants) /\ Wakes(c.grants, d.grants)
          BY <2>3, <2>4, <3>1, <4>2, RelocateIs
        <4>5. KeepsBindings(c, d) /\ Dated(c, d)
          BY <2>3, <2>4, <3>1, <4>2, RelocateIs
        <4>6. \A k \in DOMAIN d.grants : \A o \in d.grants[k].origins :
                    \E x \in DOMAIN c.grants : o \in c.grants[x].origins
          BY <2>3, <2>4, <3>1, <4>2, RelocateIs
        <4>4. \A x \in DOMAIN c.grants :
                 x.kind = "exact" /\ c.grants[x].active => Rekeyed(x, old, new) \in Active(d)
          BY <2>3, <2>4, <3>1, <4>2, RelocateIs
        <4>. QED BY <4>3, <4>4, <4>5, <4>6
      <3>3. Changed(c, d, bound, chosen)
        BY <2>3, <2>7, <3>1, RelocateChanged
      <3>4. Dated(a, d)
        BY <1>3, <2>1, <2>3, <3>2, <3>3, DatedFollows, SoundCounts DEF Changed
      <3>5. Reserved'
        BY <1>1, <2>1, <2>3, <3>2, <3>3 DEF StepInv, Reserved, Changed, After
      <3>6. Orderly
        BY <1>1, <3>2, <3>4, <3>5 DEF Orderly
      <3>7. StaysSuspended
        <4>. SUFFICES ASSUME NEW k \in DOMAIN a.grants, k \in DOMAIN d.grants,
                             ~a.grants[k].active, d.grants[k].active,
                             d.grants[k].origins \subseteq a.grants[k].origins
                      PROVE  k \in transitioned
          BY <1>1, <1>2 DEF StaysSuspended
        <4>. QED BY <2>1, <3>2 DEF Wakes
      <3>8. Rebinds
        BY <1>1, <2>1, <3>2 DEF Rebinds, KeepsBindings
      <3>9. ASSUME NEW k \in transitioned \cap DOMAIN auth.grants, k.kind = "exact"
            PROVE  Exact(Relocated(k.path, old, new)) \in Active(auth')
        <4>1. k \in DOMAIN c.grants /\ c.grants[k].active
          BY <1>1, <2>1
        <4>2. Rekeyed(k, old, new) \in Active(d)
          BY <3>2, <3>9, <4>1
        <4>3. k \in Keys
          BY <2>3, <4>1 DEF Sound, AuthOK, LedgersOK
        <4>4. k = [kind |-> "exact", path |-> k.path]
          BY <3>9, <4>3 DEF Keys, Exact, Dir, Asset
        <4>5. Rekeyed(k, old, new) = Exact(Relocated(k.path, old, new))
          BY <4>4 DEF Rekeyed, Exact
        <4>. QED BY <1>1, <4>2, <4>5
      <3>. QED BY <1>1, <3>6, <3>7, <3>8, <3>9 DEF StepOK, SettlesAsOne
    <2>. QED BY <1>5, <2>6, <2>7
  <1>. QED BY <1>2, <1>4, <1>5

(* Every step, or none.                                                    *)
LEMMA SuccessorOK ==
  ASSUME StepInv, [Next]_vars
  PROVE  StepOK
  <1>1. CASE auth' = auth
    BY <1>1, SameRegular, RegularOK
  <1>2. CASE WorkspaceStep
    <2>1. CASE \E r \in Roots : OpenDirectory(r) \/ PrepareWorkspace(r)
      BY <2>1, OpenDirectoryRegular, PrepareRegular, RegularOK
    <2>2. CASE \E t \in DOMAIN auth.pendingRoots : SettleWorkspace(t) \/ ExpireWorkspace(t)
      <3>1. PICK t \in DOMAIN auth.pendingRoots : SettleWorkspace(t) \/ ExpireWorkspace(t)
        BY <2>2
      <3>2. CASE SettleWorkspace(t)
        BY <3>2, SettleWorkspaceOK
      <3>3. CASE ExpireWorkspace(t)
        <4>1. auth' = Dropped(auth, t)
          BY <3>3 DEF ExpireWorkspace, Dropped
        <4>. QED BY <4>1, DropRegular, RegularOK
      <3>. QED BY <3>1, <3>2, <3>3
    <2>. QED BY <1>2, <2>1, <2>2 DEF WorkspaceStep
  <1>3. CASE DocumentStep
    <2>1. CASE \E f \in Files : PrepareOpen(f) \/ SaveUncertain(f)
      BY <1>1, <2>1 DEF PrepareOpen, SaveUncertain
    <2>2. CASE \E f \in Files : SaveDocument(f) \/ ReserveSaveAs(f)
      BY <2>2, SaveDocumentOK, ReserveRegular, RegularOK
    <2>3. CASE \E r \in receipts : CommitOpen(r) \/ DropReceipt(r)
      BY <1>1, <2>3, CommitOpenRegular, RegularOK DEF DropReceipt
    <2>4. CASE \E h \in held : PublishSaveAs(h) \/ InvalidateSaveAs(h)
      BY <2>4, PublishSaveOK, InvalidateRegular, RegularOK
    <2>. QED BY <1>3, <2>1, <2>2, <2>3, <2>4 DEF DocumentStep
  <1>4. CASE EntryStep
    BY <1>1, <1>4, RenameRegular, CreateFileRegular, TrashRegular, ReconcileOK, RegularOK
    DEF EntryStep, ObserveRename
  <1>5. CASE PreviewStep
    BY <1>5, LeaseRegular, RetireRegular, RegularOK DEF PreviewStep, PreviewFile, PreviewEmbed
  <1>6. CASE WatchStep
    BY <1>1, <1>6, WatchRegular, RegularOK DEF WatchStep, WatchStart, WatchMisses
  <1>7. CASE ForeignStep \/ UNCHANGED vars
    BY <1>1, <1>7 DEF ForeignStep, ForeignReplace, ForeignMove, ForeignRemove, vars
  <1>. QED BY <1>2, <1>3, <1>4, <1>5, <1>6, <1>7 DEF Next

(* The invariant holds of every reachable state.                           *)
LEMMA StepInvHolds == Spec => []StepInv
  <1>1. Init => StepInv
    <2>1. ASSUME Init
          PROVE  Apart(auth.grants) /\ Reserved
      BY <2>1 DEF Init, Apart, Reserved
    <2>. QED BY <2>1, InitInv, InitWorld DEF Inv, StepInv
  <1>2. StepInv /\ [Next]_vars => StepInv'
    BY Step, SuccessorOK DEF StepInv, StepOK, Orderly
  <1>. QED BY <1>1, <1>2, PTL DEF Spec

-------------------------------------------------------------------------------
(* The theorems.                                                           *)

(* A document can be saved again after it was saved.                       *)
LEMMA SavedAgain ==
  ASSUME StepInv, NEW f \in Files, SaveDocument(f)
  PROVE  HasExactAuthority(auth', tree', f)
  <1>1. PICK ids, object, generation :
           /\ ids = IdentityOrigins(auth, tree, f) /\ object = born + 1
           /\ generation = auth.generation + 1
    OBVIOUS
  <1>2. auth' = Settle(auth, ids, object, generation)
    BY <1>1 DEF SaveDocument, Become, Settled
  <1>3. generation \in Nat
    BY <1>1, SoundHere
  <1>4. PICK b : b = auth'
    OBVIOUS
  <1>5. /\ b.grants = auth.grants /\ b.workspaces = auth.workspaces
        /\ b.documentWorkspace = auth.documentWorkspace
        /\ DOMAIN b.identity = DOMAIN auth.identity
        /\ \A i \in DOMAIN auth.identity :
              b.identity[i] = IF i \in ids THEN object ELSE auth.identity[i]
    BY <1>2, <1>3, <1>4, SoundHere, SettleIs
  <1>6. /\ f \in Paths /\ tree'[f] = object
        /\ \A p \in Directories : tree'[p] = tree[p]
    BY <1>1, SoundHere, FileIsPath, PathAssumption DEF WorldOK, SaveDocument, Written, Paths
  <1>7. PICK o \in auth.grants[Exact(f)].origins :
           o.kind \in {"open", "saveAs", "created"} /\ ExactOriginIsCurrent(auth, tree, f, o)
    BY DEF SaveDocument, HasExactAuthority
  <1>8. Exact(f) \in Active(auth)
    BY DEF SaveDocument, HasExactAuthority
  <1>9. OriginIsCurrent(b, tree', f, o)
    <2>1. CASE o.kind \in {"saveAs", "created"}
      BY <2>1 DEF OriginIsCurrent
    <2>2. CASE o.kind = "open" /\ o.id \notin DOMAIN auth.documentWorkspace
      BY <1>5, <2>2 DEF OriginIsCurrent
    <2>3. CASE o.kind = "open" /\ o.id \in DOMAIN auth.documentWorkspace
      <3>1. PICK t : t = auth.documentWorkspace[o.id]
        OBVIOUS
      <3>2. /\ t \in DOMAIN auth.workspaces
            /\ tree[auth.workspaces[t].root] = auth.workspaces[t].identity
            /\ IsUnder(f, auth.workspaces[t].root)
        BY <1>7, <2>3, <3>1 DEF ExactOriginIsCurrent, OriginIsCurrent,
                                WorkspaceOriginIsCurrent, RootIsCurrent
      <3>3. auth.workspaces[t].root \in Directories
        BY <3>2, SoundHere DEF Sound, AuthOK, WorkspacesOK
      <3>4. WorkspaceOriginIsCurrent(b, tree', t, f)
        BY <1>5, <1>6, <3>2, <3>3 DEF WorkspaceOriginIsCurrent, RootIsCurrent
      <3>. QED BY <1>5, <2>3, <3>1, <3>4 DEF OriginIsCurrent
    <2>. QED BY <1>7, <2>1, <2>2, <2>3
  <1>10. o.kind = "open" /\ o.id \in DOMAIN b.identity => tree'[f] = b.identity[o.id]
    <2>. SUFFICES ASSUME o.kind = "open", o.id \in DOMAIN auth.identity
                  PROVE  tree'[f] = b.identity[o.id]
      BY <1>5
    <2>1. o = Open(o.id)
      BY <1>7, <1>8, SoundHere, OriginKinds DEF Sound, AuthOK, LedgersOK, Active
    <2>2. o.id \in ids
      BY <1>1, <1>7, <1>8, <2>1 DEF IdentityOrigins
    <2>. QED BY <1>5, <1>6, <2>2
  <1>11. ExactOriginIsCurrent(b, tree', f, o)
    BY <1>9, <1>10 DEF ExactOriginIsCurrent
  <1>12. Exact(f) \in Active(b) /\ o \in b.grants[Exact(f)].origins
    BY <1>5, <1>7, <1>8 DEF Active
  <1>. QED BY <1>4, <1>7, <1>11, <1>12 DEF HasExactAuthority

(* SavesStayBound: a save binds to the file it wrote only the documents    *)
(* that were bound to the file it replaced, and a document that was saved  *)
(* can be saved again (settle_exact_document_identity).                    *)
THEOREM SavesCorrect == Spec => SavesStayBound
  <1>1. StepInv /\ [Next]_vars =>
          [\A i \in DOMAIN auth.identity \intersect DOMAIN auth'.identity :
             auth'.identity[i] # auth.identity[i] =>
               \E f \in Files : /\ auth.identity[i] = tree[f] /\ auth'.identity[i] = tree'[f]
                                /\ Exact(f) \in Active(auth)
                                /\ Open(i) \in auth.grants[Exact(f)].origins]_vars
    BY SuccessorOK DEF StepOK, Rebinds
  <1>0. StepInv /\ [Next]_vars =>
          [\A f \in Files : SaveDocument(f) => HasExactAuthority(auth', tree', f)]_vars
    BY SavedAgain
  <1>2. Spec => RebindsOnlyItsOwn
    BY <1>1, StepInvHolds, PTL DEF Spec, RebindsOnlyItsOwn
  <1>3. Spec => SaveKeepsAuthority
    BY <1>0, StepInvHolds, PTL DEF Spec, SaveKeepsAuthority
  <1>. QED BY <1>2, <1>3 DEF SavesStayBound

(* RevocationIsComplete: what changes write authority outdates the tokens  *)
(* taken before, and a revocation takes the previews with it that rested   *)
(* on what it revoked (revoke_path_prefix).                                *)
THEOREM RevocationCorrect == Spec => RevocationIsComplete
  <1>1. ASSUME StepInv, [Next]_vars
        PROVE  /\ auth'.generation >= auth.generation
               /\ \A f \in Files :
                     HasExactAuthority(auth, tree', f) # HasExactAuthority(auth', tree', f) =>
                        auth'.generation > auth.generation
    <2>1. Dated(auth, auth')
      BY <1>1, SuccessorOK DEF StepOK, Orderly
    <2>2. auth.generation \in Nat /\ auth'.generation \in Nat
      <3>1. Inv'
        BY <1>1, Step DEF StepInv
      <3>. QED BY <1>1, <3>1, SoundHere, SoundCounts DEF Inv, SessionInv, AuthInv
    <2>3. \A a, fs, f : HasExactAuthority(a, fs, f) \in BOOLEAN
      BY DEF HasExactAuthority
    <2>. QED BY <2>1, <2>2, <2>3 DEF Dated, SameWriters
  <1>2. ASSUME StepInv, NEW w \in watched, WatchRevokes(w), auth' # auth
        PROVE  \A l \in Leases(auth') : LeaseIsSupported(auth', tree', l)
    <2>1. auth' = RevokePrefix(auth, tree, w.path) /\ tree' = tree
      BY <1>2 DEF WatchRevokes, Become, env
    <2>. QED BY <1>2, <2>1, SoundHere, RevokePrefixIs
  <1>3. StepInv /\ [Next]_vars =>
          /\ [/\ auth'.generation >= auth.generation
              /\ \A f \in Files :
                   HasExactAuthority(auth, tree', f) # HasExactAuthority(auth', tree', f) =>
                     auth'.generation > auth.generation]_vars
          /\ [\A w \in watched : WatchRevokes(w) /\ auth' # auth =>
                \A l \in Leases(auth') : LeaseIsSupported(auth', tree', l)]_vars
    BY <1>1, <1>2
  <1>. QED BY <1>3, StepInvHolds, PTL
           DEF Spec, RevocationIsComplete, WriteAuthorityAdvancesGeneration,
               PreviewsEndWithTheirSupport

(* A rename that failed is only settled when it is reconciled.             *)
LEMMA OnlyReconciled ==
  ASSUME Inv, [Next]_vars, renaming # NoRename, renaming' = NoRename
  PROVE  ReconcileRename
  <1>1. CASE WorkspaceStep
    BY <1>1 DEF WorkspaceStep, OpenDirectory, PrepareWorkspace, SettleWorkspace, ExpireWorkspace
  <1>2. CASE DocumentStep
    BY <1>2 DEF DocumentStep, PrepareOpen, SaveDocument, SaveUncertain, ReserveSaveAs,
                CommitOpen, DropReceipt, PublishSaveAs, InvalidateSaveAs
  <1>3. CASE EntryStep
    BY <1>3, ObserveTyped, RenameAssumption DEF EntryStep, Rename, CreateFile, Trash, MainThread
  <1>4. CASE PreviewStep
    BY <1>4 DEF PreviewStep, PreviewFile, PreviewEmbed, RetirePreview
  <1>5. CASE WatchStep
    BY <1>5 DEF WatchStep, WatchStart, WatchMisses, WatchRevokes, WatchFollows
  <1>6. CASE ForeignStep \/ UNCHANGED vars
    BY <1>6 DEF ForeignStep, ForeignReplace, ForeignMove, ForeignRemove, vars
  <1>. QED BY <1>1, <1>2, <1>3, <1>4, <1>5, <1>6 DEF Next

(* RenamesSettle: what a rename suspended stays suspended until the user   *)
(* grants it anew or the rename turns out, and then comes back as a whole, *)
(* moves as a whole or stays suspended (suspend_indeterminate_rename,      *)
(* finalize_indeterminate_rename).                                         *)
THEOREM RenamesCorrect == Spec => RenamesSettle
  <1>1. StepInv /\ [Next]_vars =>
          [\A k \in DOMAIN auth.grants \cap DOMAIN auth'.grants :
             ~auth.grants[k].active /\ auth'.grants[k].active =>
               \/ ~(auth'.grants[k].origins \subseteq auth.grants[k].origins)
               \/ renaming # NoRename /\ renaming' = NoRename /\ k \in renaming.transitioned
               \/ \E t \in DOMAIN auth.pendingRoots \ DOMAIN auth'.pendingRoots :
                     k = Asset(auth.pendingRoots[t].root)]_vars
    BY SuccessorOK DEF StepOK, StaysSuspended
  <1>2. StepInv /\ [Next]_vars =>
          [renaming # NoRename /\ renaming' = NoRename =>
             LET files == {k \in renaming.transitioned \cap DOMAIN auth.grants :
                             k.kind = "exact"}
                 at(k) == Exact(Relocated(k.path, renaming.old, renaming.new))
             IN  \/ files \subseteq Active(auth')
                 \/ {at(k) : k \in files} \subseteq Active(auth')
                 \/ Suspendable(auth', {renaming.old, renaming.new}) = {}]_vars
    BY OnlyReconciled, ReconcileOK DEF SettlesAsOne, StepInv
  <1>. QED BY <1>1, <1>2, StepInvHolds, PTL
           DEF Spec, RenamesSettle, SuspendedStaysSuspended, RenameSettlesAsOne
===============================================================================
