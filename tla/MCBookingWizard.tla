---------------------------- MODULE MCBookingWizard ----------------------------
(***************************************************************************)
(* A small booking wizard for TLC: one direction with two of three times,  *)
(* one of which other clients want.                                        *)
(***************************************************************************)
EXTENDS BookingWizard, TLC

CONSTANTS RF, a1, a2, a3

TwoSlots == RF :> {a1, a2}

OneContested == {<<RF, a2>>}

=============================================================================
