------------------------------ MODULE MCPublish ------------------------------
(* TLC instance of publishers and scrub together.                           *)
EXTENDS PublishSystem, TLC

\* Regions are permuted only where none of them is flat.
RegionSymmetry == Permutations(Region)
Symmetry == Permutations(Worker)
=============================================================================
