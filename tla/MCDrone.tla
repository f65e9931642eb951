------------------------------- MODULE MCDrone -------------------------------
(* The codes of AppLayerMacros.h that the application tells apart. *)
EXTENDS Drone

MCCodes == {0, 1, 2, 3, 5, 65535}
==============================================================================
