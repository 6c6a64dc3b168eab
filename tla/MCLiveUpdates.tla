----------------------------- MODULE MCLiveUpdates -----------------------------
(***************************************************************************)
(* A small instance of the live updates for TLC.                           *)
(***************************************************************************)
EXTENDS LiveUpdates, TLC

CONSTANTS own, other, today, later

=============================================================================
