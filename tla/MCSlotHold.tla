------------------------------ MODULE MCSlotHold ------------------------------
(***************************************************************************)
(* Small instances of the slot holds for TLC.                              *)
(***************************************************************************)
EXTENDS SlotHold, TLC

CONSTANTS r1, r2, r3, r4, s1, s2, morning, noon, evening

\* Two browsers, and whether the same person sits at both.
SamePhone == [s \in Sessions |-> "12345"]
OwnPhone  == [s \in Sessions |-> s]

\* Requests are interchangeable, and so are browsers.
AllAlike == Permutations(Requests) \cup Permutations(Sessions)

=============================================================================
