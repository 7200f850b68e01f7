-------------------------- MODULE ExcalidrawScene --------------------------
(* What the program accepts as an Excalidraw scene before it saves or exports  *)
(* one (excalidraw_scene.rs): a list of elements that name each other. A       *)
(* container names its texts and arrows, a text its container, an arrow the    *)
(* elements at its ends, and no name may be left that nothing answers to.      *)
EXTENDS Integers, Sequences, FiniteSets, SequencesExt

CONSTANTS Elements,     \* the elements an editor may write into a scene
          MaxElements,  \* bound
          None

VARIABLES scene,        \* [standard |-> BOOLEAN, elements |-> Seq(Elements)]
          verdict       \* "accepted", "refused", or None before the check

vars == <<scene, verdict>>

\* Types that are neither text nor arrow are told apart only as supported or not.
Types == {"text", "arrow", "line", "rectangle", "unsupported"}

SceneConstants ==
  /\ MaxElements \in Nat
  /\ \A e \in Elements : /\ e.type \in Types /\ {e.deleted, e.label} \subseteq BOOLEAN
                         /\ \A k \in DOMAIN e.bound : e.bound[k].type \in Types
                         /\ e.points \in Seq(Int)

-----------------------------------------------------------------------------
\* The elements that are not deleted, by their names, which are unique by then.
IsActive(e) == ~e.deleted
Active ==
  LET ids == {scene.elements[k].id : k \in {j \in DOMAIN scene.elements : IsActive(scene.elements[j])}}
  IN  [i \in ids |-> LET k == CHOOSE j \in DOMAIN scene.elements :
                                scene.elements[j].id = i /\ IsActive(scene.elements[j])
                     IN  scene.elements[k]]

ReadsElements ==
  \A k \in DOMAIN scene.elements :
    LET e == scene.elements[k]
    IN  /\ ~e.label
        /\ e.id # None /\ \A j \in 1..k - 1 : scene.elements[j].id # e.id
        /\ e.type # "unsupported"

\* What an element says is bound to it, when the list can be read at all.
BoundElements(e) ==
  /\ \A k \in DOMAIN e.bound : e.bound[k].id # None /\ e.bound[k].type \in {"text", "arrow"}
  /\ \A j, k \in DOMAIN e.bound : e.bound[j] = e.bound[k] => j = k
Registers(e, id, type) == \E k \in DOMAIN e.bound : e.bound[k] = [id |-> id, type |-> type]

ValidateBoundElements(id, active) ==
  LET e == active[id]
  IN  /\ BoundElements(e)
      /\ \A k \in DOMAIN e.bound :
           /\ e.bound[k].id \in DOMAIN active
           /\ LET bound == active[e.bound[k].id]
              IN  /\ bound.type = e.bound[k].type
                  /\ bound.type = "text" => bound.container = id
                  /\ bound.type = "arrow" => id \in {bound.start, bound.end}
ValidateTextContainer(id, active) ==
  LET container == active[id].container
  IN  container = None \/ /\ container \in DOMAIN active
                          /\ active[container].type # "text"
                          /\ BoundElements(active[container])
                          /\ Registers(active[container], id, "text")

ValidateArrowBindings(id, active) ==
  \A end \in {active[id].start, active[id].end} \ {None} :
    /\ end \in DOMAIN active /\ active[end].type # "text"
    /\ BoundElements(active[end]) /\ Registers(active[end], id, "arrow")

\* Two points at least, and no two in a row the same.
ValidateRealPoints(e) ==
  Len(e.points) >= 2 /\ \A k \in 1..Len(e.points) - 1 : e.points[k] # e.points[k + 1]

ValidateElement(id, active) ==
  /\ ValidateBoundElements(id, active)
  /\ active[id].type \in {"line", "arrow"} => ValidateRealPoints(active[id])
  /\ active[id].type = "text" => ValidateTextContainer(id, active)
  /\ active[id].type = "arrow" => ValidateArrowBindings(id, active)

ValidateScene ==
  /\ scene.standard /\ ReadsElements
  /\ LET active == Active IN \A id \in DOMAIN active : ValidateElement(id, active)
-----------------------------------------------------------------------------
Init == scene \in [standard : BOOLEAN, elements : {<<>>}] /\ verdict = None

\* The editor, or another program that wrote the file, adds an element.
Write(e) ==
  /\ verdict = None /\ Len(scene.elements) < MaxElements
  /\ scene' = [scene EXCEPT !.elements = Append(@, e)] /\ UNCHANGED verdict
Validate ==
  /\ verdict = None
  /\ verdict' = IF ValidateScene THEN "accepted" ELSE "refused"
  /\ UNCHANGED scene

Next == (\E e \in Elements : Write(e)) \/ Validate

Spec == Init /\ [][Next]_vars
-----------------------------------------------------------------------------
TypeOK ==
  /\ scene.elements \in Seq(Elements) /\ Len(scene.elements) <= MaxElements
  /\ verdict \in {None, "accepted", "refused"}

\* The pairs that the owners of bound elements name, and those the bound elements name.
Live == {k \in DOMAIN scene.elements : ~scene.elements[k].deleted}
Named(k) == scene.elements[k].id
Owned ==
  UNION {{<<Named(k), b.id, b.type>> : b \in {scene.elements[k].bound[j] : j \in DOMAIN scene.elements[k].bound}}
         : k \in Live}
Claimed ==
  {<<scene.elements[k].container, Named(k), "text">> :
     k \in {j \in Live : scene.elements[j].type = "text" /\ scene.elements[j].container # None}}
  \cup UNION {{<<end, Named(k), "arrow">> : end \in {scene.elements[k].start, scene.elements[k].end} \ {None}}
              : k \in {j \in Live : scene.elements[j].type = "arrow"}}

\* A scene is accepted exactly when what its owners and its bound elements say of each
\* other is one relation between elements that are there, no element being named twice
\* and no text holding another element; the elements on their own being sound
\* (validate_excalidraw_scene).
AcceptedMeansConsistent ==
  verdict # None =>
    (verdict = "accepted" <=>
       /\ scene.standard
       /\ \A j, k \in DOMAIN scene.elements : Named(j) = Named(k) => j = k
       /\ \A k \in DOMAIN scene.elements :
            LET e == scene.elements[k] IN ~e.label /\ e.id # None /\ e.type # "unsupported"
       /\ Owned = Claimed
       /\ \A r \in Owned : \E k \in Live : Named(k) = r[1] /\ scene.elements[k].type # "text"
       /\ \A k \in Live :
            LET e == scene.elements[k]
            IN  /\ Cardinality({e.bound[j] : j \in DOMAIN e.bound}) = Len(e.bound)
                /\ e.type \in {"line", "arrow"} =>
                     /\ Len(e.points) > 1
                     /\ \A j \in 2..Len(e.points) : e.points[j - 1] # e.points[j])
=============================================================================
