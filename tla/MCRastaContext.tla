--------------------------- MODULE MCRastaContext ---------------------------
(***************************************************************************)
(* Instances of RastaContext for TLC.                                      *)
(***************************************************************************)
EXTENDS RastaContext
M == INSTANCE MCDescriptions

MCNodes == M!MCNodes
MCScreenIds == M!MCScreenIds
MCTexts == M!MCTexts
MCSymbols == M!MCSymbols
MCValues == M!MCValues
MCObjects == 1..7
AllDescriptions == {M!Setup, M!Wizard, M!Doors}
WizardOnly      == {M!Wizard}
ClosedOnly      == {M!ClosedRoot}
CollidingOnly   == {M!Colliding}
=============================================================================
