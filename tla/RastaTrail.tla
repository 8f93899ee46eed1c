----------------------------- MODULE RastaTrail -----------------------------
(***************************************************************************)
(* What the library promises a user: a trail of screens.                   *)
(*                                                                         *)
(* A session is a trail of visible screens, each with the symbols set on   *)
(* it.  Going forward adds one screen with no symbols; going back takes    *)
(* exactly one screen off and never the first one; symbols are only set    *)
(* (never unset) and only on the last screen.  Hidden screens, dead ends   *)
(* of the search and the replay of a saved state do not show.              *)
(***************************************************************************)
EXTENDS Sequences, Naturals

CONSTANTS Places, Symbols, Values, Unset

VARIABLE trail

Blank == [s \in Symbols |-> Unset]
Tables == [Symbols -> Values \cup {Unset}]
Extends(new, old) == \A s \in Symbols : old[s] # Unset => new[s] # Unset

Init == trail = <<>>

Start == /\ trail = <<>>
         /\ \E p \in Places : trail' = <<[node |-> p, symbols |-> Blank]>>

Forward == /\ trail # <<>>
           /\ \E p \in Places :
                trail' = Append(trail, [node |-> p, symbols |-> Blank])

Set == /\ trail # <<>>
       /\ \E t \in Tables :
            /\ Extends(t, trail[Len(trail)].symbols)
            /\ trail' = [trail EXCEPT ![Len(trail)].symbols = t]

Back == /\ Len(trail) > 1
        /\ trail' = SubSeq(trail, 1, Len(trail) - 1)

End == trail' = <<>>

Next == Start \/ Forward \/ Set \/ Back \/ End

Spec == Init /\ [][Next]_trail
=============================================================================
