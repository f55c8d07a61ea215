-------------------------------- MODULE MCSafe --------------------------------
(* TLC instance of the planet workers alone.  Workers and regions are each   *)
(* interchangeable, but a liveness property is checked: no symmetry.         *)
EXTENDS SafePublish
=============================================================================
