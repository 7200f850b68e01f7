---------------------------- MODULE DocumentSave ----------------------------
(* The backend of saving (document_save.rs, the save commands of commands.rs,  *)
(* the reservations of path_auth.rs): a save names the version of the file it  *)
(* may replace; a save over a file somebody else wrote needs a token that was  *)
(* issued for one version, one text and one request; a save under another name *)
(* reserves the authority it will publish.  durable_write itself is a step     *)
(* here (DurableWrite takes it apart).                                         *)
EXTENDS Naturals, FiniteSets, Sequences

CONSTANTS
  Paths,      \* canonical paths of editable files
  Texts,      \* contents
  Blank,      \* the content of a new document
  None,
  MaxTokens   \* MAX_OVERWRITE_TOKENS

SaveConstants ==
  /\ Blank \in Texts /\ None \notin Texts \cup Paths
  /\ None \notin [id : Nat, path : Paths, generation : Nat]
  /\ MaxTokens \in Nat \ {0}

ASSUME SaveAssumption == SaveConstants

VARIABLES
  disk,        \* what is at a path: a text and the number of its version; version 0: nothing
  clock,       \* the number of the last version
  tokens,      \* DocumentSaveCoordinator.tokens
  reserved,    \* pending_save_authorities; MAX_PENDING_SAVE_AUTHORITIES is 1
  generation,  \* authorization_generation
  serial,      \* names given out: reservations and tokens
  granted      \* exact write authority of a path: None, or "open" or "save as"

store == <<tokens, reserved, generation, serial>>
backend == <<disk, clock, tokens, reserved, generation, serial, granted>>

Missing == [text |-> None, version |-> 0]
Answer(status, path, version, token) ==
  [status |-> status, path |-> path, version |-> version, token |-> token]
Refused == Answer("error", None, 0, 0)

(* What a call leaves of the tokens and the reservation, and its answer. *)
State ==
  [tokens |-> tokens, reserved |-> reserved, generation |-> generation, serial |-> serial]
Becomes(s) ==
  tokens' = s.tokens /\ reserved' = s.reserved /\ generation' = s.generation /\ serial' = s.serial

(* SaveAuthorizationScope *)
Matches(s, pending, path) ==
  pending.path = path /\ pending.generation = s.generation /\ pending \in s.reserved
Invalidated(s, pendings) ==
  LET gone == s.reserved \cap pendings
  IN  [s EXCEPT !.reserved = @ \ gone,
                !.generation = IF \E q \in gone : q.generation = @ THEN @ + 1 ELSE @]
Cancelled(s, pending) == Invalidated(s, {pending} \ {None})
Entitled(s, pending, path) ==
  IF pending = None THEN granted[path] # None ELSE Matches(s, pending, path)

(* reserve_pending_save_authority: the one reservation there may be is dropped. *)
Reservation(path) == [id |-> serial + 1, path |-> path, generation |-> generation + 1]
Reserve(path) ==
  Becomes([State EXCEPT !.reserved = {Reservation(path)}, !.generation = @ + 1, !.serial = @ + 1])

(* insert_overwrite_token: tokens that have expired go, then the oldest if    *)
(* there are too many, each with its reservation, which may be the caller's.  *)
DroppedExpired(s) == {t \in s.tokens : t.expired}
Dropped(s) ==
  LET late == {t \in s.tokens : t.expired}
      kept == s.tokens \ late
      oldest == {t \in kept : Cardinality(kept) >= MaxTokens /\ \A u \in kept : t.id <= u.id}
  IN  late \cup oldest
Evicted(s) == Invalidated([s EXCEPT !.tokens = @ \ Dropped(s)], {t.pending : t \in Dropped(s)})
NewToken(s, path, version, text, op, pending) ==
  [id |-> s.serial + 1, path |-> path, version |-> version, text |-> text, op |-> op,
   generation |-> s.generation, pending |-> pending, expired |-> FALSE]
Issued(s, path, text, op, pending) ==
  LET e == Evicted(s)
  IN  IF pending # None /\ ~Matches(e, pending, path) THEN [state |-> e, token |-> None]
      ELSE LET t == NewToken(e, path, disk[path].version, text, op, pending)
           IN  [state |-> [e EXCEPT !.tokens = @ \cup {t}, !.serial = @ + 1], token |-> t]

(* issue_overwrite_token: the version observed is the one on disk now. *)
IssueToken(path, text, op, pending) ==
  IF ~Entitled(State, pending, path) THEN [state |-> Cancelled(State, pending), token |-> None]
  ELSE IF disk[path] = Missing THEN [state |-> State, token |-> None]
  ELSE Issued(State, path, text, op, pending)

(* take_overwrite_record, cancel_overwrite_token *)
Taken(s, token) == [s EXCEPT !.tokens = {t \in @ : t.id # token}]
CancelTokenOnly(s, token) == Taken(s, token)
CancelToken(s, token) ==
  Invalidated(Taken(s, token), {t.pending : t \in {u \in s.tokens : u.id = token}})

(***************************************************************************)
(* Writing                                                                 *)
(***************************************************************************)
Write(path, text) ==
  /\ clock' = clock + 1
  /\ disk' = [disk EXCEPT ![path] = [text |-> text, version |-> clock + 1]]

(* finish_write after a write that is certain: the reservation is published  *)
(* and the documents opened from the file follow its new identity.           *)
Settled(s, pending, path) ==
  LET s1 == IF pending = None THEN s
            ELSE [s EXCEPT !.reserved = @ \ {pending}, !.generation = @ + 1]
  IN  IF granted[path] = "open" THEN [s1 EXCEPT !.generation = @ + 1] ELSE s1
Commit(s, pending, path, text) ==
  /\ Write(path, text)
  /\ Becomes(Settled(s, pending, path))
  /\ granted' = IF pending # None /\ granted[path] = None
                  THEN [granted EXCEPT ![path] = "save as"] ELSE granted

(* The writer replaces exactly the version it expects, or reports what it    *)
(* found instead; faults: it does nothing and says so, or cannot tell.       *)
Writes(s, pending, path, text, expected, faulty, answer) ==
  \/ /\ disk[path].version = expected
     /\ Commit(s, pending, path, text)
     /\ answer = Answer("committed", path, clock + 1, 0)
  \/ /\ disk[path].version # expected
     /\ Becomes(Cancelled(s, pending)) /\ UNCHANGED <<disk, clock, granted>>
     /\ answer = Answer("conflict", path, disk[path].version, 0)
  \/ /\ faulty
     /\ Becomes(Cancelled(s, pending)) /\ UNCHANGED <<disk, clock, granted>>
     /\ answer \in {Answer("denied", path, 0, 0), Answer("unknown", path, 0, 0)}
  \/ /\ faulty /\ disk[path].version = expected
     /\ Becomes(Cancelled(s, pending)) /\ Write(path, text) /\ UNCHANGED granted
     /\ answer = Answer("unknown", path, 0, 0)

Fails(s, answer) ==
  Becomes(s) /\ UNCHANGED <<disk, clock, granted>> /\ answer = Refused

(* write_file: save_expected *)
SaveExpected(path, text, expected, faulty, answer) ==
  IF Entitled(State, None, path) THEN Writes(State, None, path, text, expected, faulty, answer)
  ELSE Fails(State, answer)

(* save_as_expected: a file that has appeared since is a conflict, with a token. *)
SaveAsExpected(pending, path, text, op, faulty, answer) ==
  IF ~Matches(State, pending, path) THEN Fails(Cancelled(State, pending), answer)
  ELSE IF disk[path] = Missing THEN Writes(State, pending, path, text, 0, faulty, answer)
  ELSE LET issued == Issued(State, path, text, op, pending)
       IN  IF issued.token = None THEN Fails(Cancelled(issued.state, pending), answer)
           ELSE /\ Becomes(issued.state) /\ UNCHANGED <<disk, clock, granted>>
                /\ answer = Answer("conflict", path, disk[path].version, issued.token.id)

(* retry_with_token: the token is used up, whatever comes of it. *)
Usable(t, path, text, op, s) ==
  /\ ~t.expired /\ t.text = text /\ t.op = op
  /\ t.path = path /\ t.generation = s.generation /\ Entitled(s, t.pending, path)
Retry(token, path, text, op, faulty, answer) ==
  LET held == {t \in tokens : t.id = token}
  IN  IF held = {} THEN Fails(State, answer)
      ELSE LET t == CHOOSE u \in held : TRUE
               s == Taken(State, token)
           IN  IF Usable(t, path, text, op, s)
                 THEN Writes(s, t.pending, path, text, t.version, faulty, answer)
                 ELSE Fails(Cancelled(s, t.pending), answer)

(***************************************************************************)
(* The environment: other programs, other commands, time                   *)
(***************************************************************************)
ForeignWrite == \E p \in Paths, t \in Texts : Write(p, t) /\ UNCHANGED <<store, granted>>
ForeignRemove == \E p \in Paths :
  disk[p] # Missing /\ disk' = [disk EXCEPT ![p] = Missing] /\ UNCHANGED <<clock, store, granted>>

(* Another command changes the authorization: a rename, a workspace, a preview. *)
Elsewhere ==
  /\ generation' = generation + 1
  /\ UNCHANGED <<disk, clock, tokens, reserved, serial, granted>>

(* OVERWRITE_TOKEN_TTL *)
Expire == \E t \in tokens :
  /\ ~t.expired /\ \A u \in tokens : u.id < t.id => u.expired
  /\ tokens' = (tokens \ {t}) \cup {[t EXCEPT !.expired = TRUE]}
  /\ UNCHANGED <<disk, clock, reserved, generation, serial, granted>>
=============================================================================
