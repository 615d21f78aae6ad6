---------------------------- MODULE ContentStore ----------------------------
(***************************************************************************)
(* What the block registry promises its callers about content, whatever    *)
(* runs at the same time: an image or a container appears at once and      *)
(* whole, stays what it was, and disappears at once.                       *)
(***************************************************************************)
CONSTANTS Ids,      \* content ids, images and containers
          Contents, \* what a piece of content can consist of
          Absent    \* the value of an id that names nothing, no content

VARIABLE store

Init == store = [id \in Ids |-> Absent]

Publish(id, content) ==
  /\ store[id] = Absent
  /\ store' = [store EXCEPT ![id] = content]

\* Several pieces of content can go at once: they share what is lost.
Retract(gone) == store' = [id \in Ids |-> IF id \in gone THEN Absent ELSE store[id]]

Next ==
  \/ \E gone \in SUBSET Ids : Retract(gone)
  \/ \E id \in Ids, content \in Contents : Publish(id, content)

Spec == Init /\ [][Next]_store
=============================================================================
