-------------------------- MODULE MCQueueTransactions --------------------------
(* Instances of QueueTransactions for TLC. *)
EXTENDS QueueTransactions, TLC

CONSTANTS t1, t2, e1, e2, p1, p2

\* Clients, employees and requests are interchangeable: used for safety only.
Interchangeable == Permutations(Tickets) \cup Permutations(Employees) \cup Permutations(Processes)
=============================================================================
