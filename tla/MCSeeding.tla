----------------------------- MODULE MCSeeding ------------------------------
(***************************************************************************)
(* Seeding with a short timetable, for TLC.                                *)
(***************************************************************************)
EXTENDS Seeding, TLC

\* Two routes: a batch of two rows has one of each, the last is not full.
MCTimetable == <<"DEL-BOM", "BOM-DEL", "DEL-BOM">>

ApiSymmetry == Permutations(Apis)
=============================================================================
