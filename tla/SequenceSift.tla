---------------------------- MODULE SequenceSift ----------------------------
(***************************************************************************)
(* The elements of a sequence that stand at chosen positions, in order:    *)
(* what SelectSeq computes, as a recursive function.                       *)
(***************************************************************************)
EXTENDS Naturals, Sequences

Sift(seq, positions) ==
    LET sifted[n \in 0..Len(seq)] ==
            IF n = 0 THEN <<>>
            ELSE IF n \in positions THEN Append(sifted[n - 1], seq[n])
            ELSE sifted[n - 1]
    IN  sifted[Len(seq)]
=============================================================================
