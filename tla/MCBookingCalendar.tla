--------------------------- MODULE MCBookingCalendar ---------------------------
(***************************************************************************)
(* A small site for TLC: a day off, and then a working day of one hour,    *)
(* three slots of twenty minutes or two of thirty.                         *)
(***************************************************************************)
EXTENDS BookingCalendar, TLC

CONSTANTS t1, t2, s1, e1, RF, CN

Units == RF :> 2 @@ CN :> 3

\* The employee begins at the first desk.
OneSits == e1 :> 1

AllRF == [d \in Desks |-> RF]

\* The middle of the day, in the second slot of either direction.
Lunch == {<<4, 5>>}

\* Bookings are interchangeable, and so are browsers.
Alike == Permutations(Tickets) \cup Permutations(Sessions)

=============================================================================
