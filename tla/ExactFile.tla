------------------------------- MODULE ExactFile -------------------------------
(***************************************************************************)
(* What durable_write and durable_remove_exact promise: a call changes the *)
(* destination in one atomic step, at most once, and its answer tells      *)
(* truthfully whether that step happened on exactly the expected version.  *)
(* "indeterminate" promises nothing.  Other programs may change the        *)
(* destination at any time.                                                *)
(***************************************************************************)
CONSTANTS Ops, Versions, Nothing

VARIABLES
  cell,     \* the version at the destination
  request,  \* what each call was asked
  effect,   \* {} or {v}: the version each call found when it changed the cell
  answer,   \* "none" or the answer of each call
  adrift    \* the calls from whose synchronization the destination was moved away

vars == <<cell, request, effect, answer, adrift>>

Confirmed == {"committed", "deleted"}
Denied    == {"notCommitted", "notDeleted", "conflict", "error"}

Init ==
  /\ cell \in Versions \union {Nothing}
  /\ effect = [o \in Ops |-> {}]
  /\ answer = [o \in Ops |-> "none"]
  /\ adrift = {}

Ask(o) ==
  /\ answer[o] = "none" /\ effect[o] = {}
  /\ request'[o].expected \in {cell, Nothing}
  /\ request' = [request EXCEPT ![o] = request'[o]]
  /\ UNCHANGED <<cell, effect, answer, adrift>>

(* Other programs move the directory of the destination too: a call that   *)
(* is about to answer may then synchronize another one.                    *)
Foreign ==
  /\ cell' \in Versions \union {Nothing}
  /\ adrift \subseteq adrift'
  /\ \A o \in adrift' \ adrift : o \in Ops /\ answer[o] = "none"
  /\ UNCHANGED <<request, effect, answer>>

(* The one step that changes the destination.                              *)
Change(o) ==
  /\ answer[o] = "none" /\ effect[o] = {}
  /\ effect' = [effect EXCEPT ![o] = {cell}]
  /\ request[o].kind = "remove" => cell # Nothing /\ cell' = Nothing
  /\ cell' \in Versions \union {Nothing}
  /\ UNCHANGED <<request, answer, adrift>>

(* A delete may put back what it took, if the destination is still free.   *)
PutBack(o) ==
  /\ answer[o] = "none" /\ request[o].kind = "remove"
  /\ effect[o] # {} /\ cell = Nothing /\ cell' # Nothing
  /\ effect' = [effect EXCEPT ![o] = {}]
  /\ UNCHANGED <<request, answer, adrift>>

Answer(o) ==
  /\ answer[o] = "none"
  /\ \E a \in Confirmed \union Denied \union {"indeterminate"} :
       /\ a \in Confirmed => effect[o] = {request[o].expected}
       /\ a \in Denied    => effect[o] = {}
       /\ answer' = [answer EXCEPT ![o] = a]
  /\ UNCHANGED <<cell, request, effect, adrift>>

(* A power loss may undo what has not been confirmed, and what was         *)
(* confirmed adrift.                                                       *)
PowerLoss ==
  /\ cell' \in Versions \union {Nothing}
  /\ \A o \in Ops :
       /\ effect'[o] \in {effect[o], {}} \/ request[o].kind = "remove"
       /\ answer[o] \in Confirmed /\ o \notin adrift => effect'[o] = effect[o]
       /\ answer'[o] \in {answer[o], "died"}
       /\ answer[o] # "none" => answer'[o] = answer[o]
  /\ UNCHANGED <<request, adrift>>

Next == (\E o \in Ops : Ask(o) \/ Change(o) \/ PutBack(o) \/ Answer(o)) \/ Foreign \/ PowerLoss

Spec == Init /\ [][Next]_vars
================================================================================
