---------------------------- MODULE PublishSystem ----------------------------
(***************************************************************************)
(* The publishers and the scrub on one pack root: the weekly bake, the     *)
(* planet or smoke workers, and cleanup.sh, interleaved step by step.      *)
(* On WeeklyHost only the weekly bake and the scrub run, on PlanetHost     *)
(* only the planet workers and the scrub; Spec runs everything.            *)
(***************************************************************************)
EXTENDS WeeklyPublish, SafePublish, Scrub

vars == <<treeVars, weeklyVars, safeVars, cdoomed, later>>

TypeOK == TreeTypeOK /\ WeeklyTypeOK /\ SafeTypeOK /\ ScrubTypeOK

Init == TreeInit /\ WeeklyInit /\ SafeInit /\ ScrubInit

\* Modification times follow what a step does to the generation directories.
Stamped == Stamp(gens \cup staging, (gens \cup staging)')

Weekly == WeeklyNext /\ UNCHANGED <<safeVars, cdoomed>> /\ Stamped
Safe == SafeNext /\ UNCHANGED <<weeklyVars, cdoomed>> /\ Stamped
Cleanup == ScrubNext /\ UNCHANGED <<weeklyVars, safeVars>> /\ Stamped

Next == Weekly \/ Safe \/ Cleanup

Spec == Init /\ [][Next]_vars
WeeklyHost == Init /\ [][Weekly \/ Cleanup]_vars
PlanetHost == Init /\ [][Safe \/ Cleanup]_vars
=============================================================================
