---------------------------- MODULE MCRipEngine -----------------------------
(* RipEngine for TLC: a disc of eight sectors whose area holds two tracks, the *)
(* first with a pause of one sector, and a second area of one sector.          *)
EXTENDS RipEngine

MCTrackStarts == <<1, 3>>
MCTrackTimes == <<{2}, {3, 4}>>

\* The types of the variables, and the invariants that RipEngineProofs proves.
TypesOK == TypeOK /\ RipInv /\ RipDataInv /\ WithinTotal
=============================================================================
