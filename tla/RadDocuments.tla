---------------------------- MODULE RadDocuments ----------------------------
(***************************************************************************)
(* The editors at work on documents: the runs of RadTools with the edits   *)
(* of RadEdit.                                                             *)
(***************************************************************************)
EXTENDS RadTools, RadEdit

ASSUME DeltasAssumption    == \A delta \in Deltas : IsDelta(delta)
ASSUME DocumentsAssumption == \A d \in InitialDocs : IsDocument(d)

\* The edits are those of RadEdit, and the validation is by rasta.dtd.
EditsAreRadEdit ==
    /\ \A delta, d : Outcomes(delta, d) = EditOutcomes(delta, d)
    /\ \A d : Valid(d) <=> d # Unreadable /\ Accepted(d)

\* Deleting what was added gives the description back, as tests/testadddel
\* compares it, whatever the runs before added and deleted.
DeletionUndoesAddition ==
    \A f \in Files :
        disk[f] # Unreadable /\ (\A r \in Runs : pc[r] \notin Holding) =>
            \A a \in {a \in Deltas : a.tool = "rastaadd" /\ a.screens # Missing} :
                \A o \in Outcomes(a, disk[f]) :
                    o.kind = "edited" /\ Valid(o.doc) /\ Recoverable(disk[f], a)
                    => Outcomes(UndoOf(a), o.doc) = {Edited(disk[f])}
=============================================================================
