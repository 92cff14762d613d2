--------------------------- MODULE MCGuestIntake ---------------------------
(***************************************************************************)
(* Instances of GuestIntake for TLC.                                       *)
(***************************************************************************)
EXTENDS GuestIntake

CONSTANTS a, b

ThenB == <<a, b>>
=============================================================================
