---------------------------- MODULE MCStaffAccounts ----------------------------
(* Instances of StaffAccounts for TLC. *)
EXTENDS StaffAccounts

CONSTANTS n1, n2, a1, a2, v1, v2
=============================================================================
