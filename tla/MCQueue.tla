------------------------------- MODULE MCQueue -------------------------------
(***************************************************************************)
(* Small instances of the queue for TLC.                                   *)
(***************************************************************************)
EXTENDS QueueProperties, TLC

CONSTANTS t1, t2, e1, e2, d1, d2, RF, CN

\* Every client is of the Russian direction.
AllRF == [t \in Tickets |-> RF]

\* SLOT_DURATION: 20 minutes and 30 minutes.
Minutes == [c \in Countries |-> IF c = RF THEN 4 ELSE 6]

\* The desks of the site when it opens.
TwoDesks == d1 :> RF @@ d2 :> RF
RFAndCN  == d1 :> RF @@ d2 :> CN

\* Employees are interchangeable, and so are tickets and desks of one direction.
Alike == Permutations(Tickets) \cup Permutations(Employees) \cup Permutations(Desks)

=============================================================================
