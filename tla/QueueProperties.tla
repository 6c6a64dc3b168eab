--------------------------- MODULE QueueProperties ---------------------------
(***************************************************************************)
(* What the queue of module Queue should do: its invariants, what a step   *)
(* may never do, what must happen in the end, and the abstract             *)
(* specification it implements.                                            *)
(***************************************************************************)
EXTENDS Queue

\* Every variable keeps its type; a desk that exists has a direction, and a
\* ticket that exists has a desk.
TypeOK ==
  /\ now \in Nat
  /\ status \in [Tickets -> TicketStatus \cup {"ABSENT"}]
  /\ priority \in [Tickets -> {0, 1}]
  /\ callAttempts \in [Tickets -> 0..MaxAttempts]
  /\ scheduledAt \in [Tickets -> Nat]
  /\ reservedDesk \in [Tickets -> Desks \cup {None}]
  /\ estatus \in [Employees -> EmployeeStatus]
  /\ edesk \in [Employees -> Desks \cup {None}]
  /\ ecountry \in [Employees -> Countries \cup {None}]
  /\ deskState \in [Desks -> {"absent", "active", "inactive"}]
  /\ deskCountry \in [Desks -> Countries \cup {None}]
  /\ deskUsed \subseteq Desks
  /\ active \subseteq Assignment
  /\ \A t \in Tickets : status[t] # "ABSENT" => reservedDesk[t] # None
  /\ \A d \in Desks : deskState[d] # "absent" => deskCountry[d] # None

-----------------------------------------------------------------------------
(* Assignments. *)

\* The partial unique indexes one_active_assignment_per_ticket and
\* one_active_assignment_per_employee never reject a row: the checks in the
\* code suffice, whatever the order of check-ins, calls, breaks and sweeps.
IndexesNeverFire ==
  \A a, b \in active : a.ticket = b.ticket \/ a.employee = b.employee => a = b

\* A ticket is ASSIGNED, CALLED or IN_SERVICE exactly as long as somebody has
\* it: no cancellation, break, desk change, timeout or sweep strands a client
\* with no employee or an employee with a client who has left.
InProgressIffAssigned ==
  \A t \in Tickets : status[t] \in ManagerInProgress <=> ActiveOn(t) # {}

\* The status of an employee agrees with the ticket: RESERVED only with a
\* client assigned or called, BUSY only with a client being served, and away
\* only with no client (but for the accounts a restart pauses).
EmployeeStatusHonest ==
  \A e \in Employees :
    /\ estatus[e] = "RESERVED" => \E a \in ActiveOf(e) : status[a.ticket] \in {"ASSIGNED", "CALLED"}
    /\ estatus[e] = "BUSY"     => \E a \in ActiveOf(e) : status[a.ticket] = "IN_SERVICE"
    /\ estatus[e] \in {"PAUSED", "OFFLINE"} /\ e \notin Integration => ActiveOf(e) = {}

-----------------------------------------------------------------------------
(* Desks. *)

\* The desk a client was sent to is the desk where the employee sits, unless
\* the desk has meanwhile been deleted under the employee.
ClientAtEmployeesDesk ==
  \A a \in active : edesk[a.employee] \in {None, a.desk}

\* A client whom the dispatcher assigned is of the employee's direction of
\* work, also after the employee's direction is changed, as long as no desk is
\* turned under its employee nor deleted under a client in hand.
AssignedWithinDirection ==
  \A a \in active :
    status[a.ticket] = "ASSIGNED" => WorkCountry(a.employee) = CountryOf[a.ticket]

\* Two bookings that hold a slot never share a desk at overlapping times, with
\* bookings, walk-ins and moves to another time, as long as no desk is given
\* another direction (busyDeskIds counts the bookings of one direction only).
NoDoubleBooking ==
  \A t, u \in Tickets :
    (/\ t # u
     /\ status[t] \notin Terminal \cup {"ABSENT"} /\ status[u] \notin Terminal \cup {"ABSENT"}
     /\ reservedDesk[t] = reservedDesk[u])
    => ~Overlap(scheduledAt[t], Duration[CountryOf[t]], scheduledAt[u], Duration[CountryOf[u]])

-----------------------------------------------------------------------------
(* Steps. *)

\* A closed ticket is never reopened nor closed again in another way, by a
\* sweep that read it before, by a manager's list, or by anything else.
ClosedStaysClosed ==
  [][\A t \in Tickets : status[t] \in Terminal => status'[t] = status[t]]_vars

\* The abstract specification: how far a visit has come, and who has it.
StageOf(s) ==
  CASE s = "ABSENT" -> "unknown"
    [] s \in {"BOOKED", "WAITING"} -> "expected"
    [] s \in LiveQueueStatuses -> "waiting"
    [] s \in {"ASSIGNED", "CALLED"} -> "held"
    [] s = "IN_SERVICE" -> "served"
    [] OTHER -> "over"

stage == [t \in Tickets |-> StageOf(status[t])]

server ==
  [t \in Tickets |-> IF ActiveOn(t) = {} THEN None
                     ELSE (CHOOSE a \in ActiveOn(t) : TRUE).employee]

Abstract == INSTANCE ServiceDesk WITH Visits <- Tickets, Servers <- Employees, Nobody <- None

\* The queue implements the promise of ServiceDesk: in particular a service
\* that has begun ends only by its completion, with the employee who began it.
ImplementsServiceDesk == Abstract!Spec

-----------------------------------------------------------------------------
(* Liveness. *)

\* No client of an absent employee is left to be put back.
NobodyStale == \A a \in active : ~Stale(a)

\* Every 12 seconds the timer of onModuleInit begins a round of dispatchAvailable:
\* stale clients, then free employees, then old calls.  An exception at the first
\* skips the others, and the lock asked for there may be refused every time; so the
\* others are sure to be reached only while nobody is stale, and nothing is
\* promised to a stale client.  The sweep of missed appointments is a promise of its
\* own, not synchronized with the people who call an overdue ticket in between.
\* An employee finishes a service once begun.
Fairness ==
  /\ WF_vars(Tick)
  /\ SF_vars(ExpireMissed)
  /\ \A e \in Employees :
       /\ WF_vars(NobodyStale /\ DispatchAvailable(e))
       /\ WF_vars(\E a \in ActiveOf(e) : NobodyStale /\ ExpireCall(a))
       /\ WF_vars(\E a \in ActiveOf(e) : AssignmentAction(a, "COMPLETE"))

FairSpec == Spec /\ Fairness

\* The first part of the round does its work: the database grants the lock, and
\* the process is not restarted for ever.
StaleAreRecovered ==
  /\ <>[][~Restart]_vars
  /\ \A e \in Employees : WF_vars(\E a \in ActiveOf(e) : RecoverBreak(a))

\* Every booking comes to an end, even if no employee ever does anything but finish
\* what was begun: the client is served, cancels or is marked absent.  That is so
\* if the stale clients are recovered, and if the lock for that is refused, as soon
\* as there are no stale clients any more.
EveryVisitEnds ==
  StaleAreRecovered \/ <>[]NobodyStale =>
    \A t \in Tickets : status[t] = "BOOKED" ~> status[t] \in Terminal

=============================================================================
