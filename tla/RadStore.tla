------------------------------ MODULE RadStore ------------------------------
(***************************************************************************)
(* What rastaadd and rastadel promise about description files: a file      *)
(* holds a document; one run replaces it, in one step, by an edit of what  *)
(* it holds at that moment, and only by a valid one.  A file can be lost   *)
(* (the editors write in place), and is then lost for every later run.     *)
(***************************************************************************)
CONSTANTS Files, Deltas, InitialDocs, Unreadable, Outcomes(_, _), Valid(_)

VARIABLE store

Init == store \in [Files -> InitialDocs]

Edit(f) ==
    /\ store[f] # Unreadable
    /\ \E delta \in Deltas : \E o \in Outcomes(delta, store[f]) :
          /\ o.kind = "edited"
          /\ Valid(o.doc)
          /\ store' = [store EXCEPT ![f] = o.doc]

Lose(f) == store' = [store EXCEPT ![f] = Unreadable]

Next == \E f \in Files : Edit(f) \/ Lose(f)

Spec == Init /\ [][Next]_store
=============================================================================
