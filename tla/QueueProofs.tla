----------------------------- MODULE QueueProofs -----------------------------
(***************************************************************************)
(* Proofs, for every number of tickets, employees and desks and every      *)
(* choice of the other constants, of the invariants of QueueProperties.    *)
(***************************************************************************)
EXTENDS QueueProperties, TLAPS

-----------------------------------------------------------------------------
(* Types. *)

\* The rules return a status, or the null of nextTicketStatus; every ticket has a slot.
LEMMA NextStatusType ==
  ASSUME NEW current, NEW action \in AssignmentActions,
         NextTicketStatus(current, action, TRUE) # "null"
  PROVE  /\ NextTicketStatus(current, action, TRUE) \in
              {"CALLED", "IN_SERVICE", "COMPLETED", "REQUEUED", "NO_SHOW"}
         /\ current \in {"ASSIGNED", "CALLED", "IN_SERVICE", "BOOKED"}
<1>1. CASE action = "CALL"
  BY <1>1 DEF NextTicketStatus, TransitionFrom, TransitionTo
<1>2. CASE action = "START"
  BY <1>2 DEF NextTicketStatus, TransitionFrom, TransitionTo
<1>3. CASE action = "COMPLETE"
  BY <1>3 DEF NextTicketStatus, TransitionFrom, TransitionTo
<1>4. CASE action = "REQUEUE"
  BY <1>4 DEF NextTicketStatus, TransitionFrom, TransitionTo
<1>5. CASE action = "NO_SHOW"
  BY <1>5 DEF NextTicketStatus, TransitionFrom, TransitionTo
<1>6. QED
  BY <1>1, <1>2, <1>3, <1>4, <1>5 DEF AssignmentActions

\* The actions that end an assignment take the ticket out of the employee's hands,
\* and the others leave it there.
LEMMA NextStatusByAction ==
  ASSUME NEW current, NEW action \in AssignmentActions,
         NextTicketStatus(current, action, TRUE) # "null"
  PROVE  NextTicketStatus(current, action, TRUE) \in
           IF action \in {"COMPLETE", "REQUEUE", "NO_SHOW"}
           THEN {"COMPLETED", "REQUEUED", "NO_SHOW"} ELSE {"CALLED", "IN_SERVICE"}
<1>1. CASE action = "CALL"
  BY <1>1 DEF NextTicketStatus, TransitionFrom, TransitionTo
<1>2. CASE action = "START"
  BY <1>2 DEF NextTicketStatus, TransitionFrom, TransitionTo
<1>3. CASE action = "COMPLETE"
  BY <1>3 DEF NextTicketStatus, TransitionFrom, TransitionTo
<1>4. CASE action = "REQUEUE"
  BY <1>4 DEF NextTicketStatus, TransitionFrom, TransitionTo
<1>5. CASE action = "NO_SHOW"
  BY <1>5 DEF NextTicketStatus, TransitionFrom, TransitionTo
<1>6. QED
  BY <1>1, <1>2, <1>3, <1>4, <1>5 DEF AssignmentActions

\* Requeue moves tickets from ASSIGNED or CALLED to REQUEUED, and nothing else.
LEMMA RequeueMoves ==
  ASSUME TypeOK, NEW A, Requeue(A)
  PROVE  /\ status' \in [Tickets -> TicketStatus \cup {"ABSENT"}]
         /\ priority' \in [Tickets -> {0, 1}]
         /\ active' \subseteq Assignment
         /\ \A t \in Tickets :
              \/ status'[t] = status[t]
              \/ status[t] \in {"ASSIGNED", "CALLED"} /\ status'[t] = "REQUEUED"
  BY DEF TypeOK, Requeue, CanReleaseOnBreak, TicketStatus

\* AssignNext writes the types it is given, and touches only tickets that wait.
LEMMA AssignNextType ==
  ASSUME TypeOK,
         NEW st \in [Tickets -> TicketStatus \cup {"ABSENT"}],
         NEW es \in [Employees -> EmployeeStatus],
         NEW assignments \in SUBSET Assignment,
         NEW e \in Employees,
         AssignNext(st, es, assignments, e)
  PROVE  /\ status' \in [Tickets -> TicketStatus \cup {"ABSENT"}]
         /\ estatus' \in [Employees -> EmployeeStatus]
         /\ active' \subseteq Assignment
         /\ deskUsed' \subseteq Desks
         /\ \A t \in Tickets :
              \/ status'[t] = st[t]
              \/ st[t] \in LiveQueueStatuses /\ status'[t] = "ASSIGNED"
<1>1. CASE Pickable(st, assignments, e) = {}
  BY <1>1 DEF AssignNext, TypeOK
<1>2. CASE Pickable(st, assignments, e) # {}
  <2>1. PICK t \in Pickable(st, assignments, e) :
          /\ status'   = [st EXCEPT ![t] = "ASSIGNED"]
          /\ estatus'  = [es EXCEPT ![e] = "RESERVED"]
          /\ active'   = assignments \cup
                           {[ticket |-> t, employee |-> e, desk |-> edesk[e]]}
          /\ deskUsed' = deskUsed \cup {edesk[e]}
    BY <1>2 DEF AssignNext
  <2>2. edesk[e] \in Desks
    BY <1>2 DEF Pickable, TypeOK
  <2>3. t \in Tickets /\ st[t] \in LiveQueueStatuses
    BY <1>2 DEF Pickable, Candidates, Foremost
  <2>4. [ticket |-> t, employee |-> e, desk |-> edesk[e]] \in Assignment
    BY <2>2, <2>3 DEF Assignment
  <2>5. QED
    BY <2>1, <2>2, <2>3, <2>4 DEF TypeOK, TicketStatus, EmployeeStatus
<1>3. QED
  BY <1>1, <1>2

\* An employee whom a check-in may find sits at a desk.
LEMMA MatchHasDesk ==
  ASSUME TypeOK, NEW t \in Tickets, status[t] = "BOOKED", NEW e \in Match(t)
  PROVE  /\ e \in Employees
         /\ estatus[e] = "AVAILABLE"
         /\ edesk[e] \in Desks
  BY DEF TypeOK, Match

\* The types hold when the site opens.
LEMMA InitType == Init => TypeOK
  BY ConstantsAssumption DEF Init, TypeOK, TicketStatus, EmployeeStatus, MaxAttempts

\* Every action keeps the types.
LEMMA StepType == TypeOK /\ [Next]_vars => TypeOK'
<1> SUFFICES ASSUME TypeOK, [Next]_vars
             PROVE  TypeOK'
  OBVIOUS
<1> USE ConstantsAssumption
<1>1. ASSUME NEW t \in Tickets, CreateTicket(t)
      PROVE  TypeOK'
  BY <1>1 DEF TypeOK, CreateTicket, FreeDesks, TicketStatus,
              employeeVars, deskVars
<1>2. ASSUME NEW t \in Tickets, CheckIn(t)
      PROVE  TypeOK'
  <2>1. status[t] = "BOOKED"
    BY <1>2 DEF CheckIn, CanCheckIn
  <2>2. /\ status' \in [Tickets -> TicketStatus \cup {"ABSENT"}]
        /\ \A u \in Tickets : status'[u] # "ABSENT" => status[u] # "ABSENT"
        /\ estatus' \in [Employees -> EmployeeStatus]
        /\ deskUsed' \subseteq Desks
        /\ active' \subseteq Assignment
    <3>1. CASE /\ status' = [status EXCEPT ![t] = "CHECKED_IN"]
               /\ UNCHANGED <<estatus, active, deskUsed>>
      BY <2>1, <3>1 DEF TypeOK, TicketStatus
    <3>2. CASE \E e \in Match(t) :
                 /\ status'   = [status EXCEPT ![t] = "ASSIGNED"]
                 /\ estatus'  = [estatus EXCEPT ![e] = "RESERVED"]
                 /\ active'   = active \cup {[ticket |-> t, employee |-> e, desk |-> edesk[e]]}
                 /\ deskUsed' = deskUsed \cup {edesk[e]}
      <4>1. PICK e \in Match(t) :
              /\ status'   = [status EXCEPT ![t] = "ASSIGNED"]
              /\ estatus'  = [estatus EXCEPT ![e] = "RESERVED"]
              /\ active'   = active \cup {[ticket |-> t, employee |-> e, desk |-> edesk[e]]}
              /\ deskUsed' = deskUsed \cup {edesk[e]}
        BY <3>2
      <4>2. e \in Employees /\ edesk[e] \in Desks
        BY <2>1, MatchHasDesk
      <4>3. QED
        BY <2>1, <4>1, <4>2 DEF TypeOK, TicketStatus, EmployeeStatus, Assignment
    <3>3. QED
      BY <1>2, <3>1, <3>2 DEF CheckIn
  <2>3. priority' \in [Tickets -> {0, 1}]
    BY <1>2 DEF CheckIn, TypeOK
  <2>4. QED
    BY <1>2, <2>2, <2>3 DEF CheckIn, TypeOK
<1>3. ASSUME NEW t \in Tickets, Cancel(t)
      PROVE  TypeOK'
  BY <1>3 DEF TypeOK, Cancel, CanCancel, Freed, TicketStatus, EmployeeStatus, deskVars
<1>4. ASSUME NEW e \in Employees, BecomeAvailable(e)
      PROVE  TypeOK'
  <2>1. [estatus EXCEPT ![e] = "AVAILABLE"] \in [Employees -> EmployeeStatus]
    BY DEF TypeOK, EmployeeStatus
  <2>2. QED
    BY <1>4, <2>1, AssignNextType DEF TypeOK, BecomeAvailable, LiveQueueStatuses
<1>5. ASSUME NEW e \in Employees, NEW s \in {"PAUSED", "OFFLINE"}, TakeBreak(e, s)
      PROVE  TypeOK'
  BY <1>5, RequeueMoves DEF TypeOK, TakeBreak, EmployeeStatus, deskVars
<1>6. ASSUME NEW e \in Employees, NEW t \in Tickets, CallFromList(e, t)
      PROVE  TypeOK'
  BY <1>6 DEF TypeOK, CallFromList, TicketStatus, EmployeeStatus, Assignment
<1>7. ASSUME NEW e \in Employees, NEW t \in Tickets, CompleteFromList(e, t)
      PROVE  TypeOK'
  <2> DEFINE closed == [status EXCEPT ![t] = "COMPLETED"]
             left   == active \ ActiveOn(t)
             free   == Freed(ActiveOn(t))
  <2>1. /\ closed \in [Tickets -> TicketStatus \cup {"ABSENT"}]
        /\ free \in [Employees -> EmployeeStatus]
        /\ left \in SUBSET Assignment
        /\ \A u \in Tickets : closed[u] # "ABSENT" => status[u] # "ABSENT"
    BY <1>7 DEF TypeOK, TicketStatus, EmployeeStatus, Freed, CompleteFromList
  <2>2. CASE AssignNext(closed, free, left, e)
    <3> HIDE DEF closed, left, free
    <3>1. QED
      BY <1>7, <2>1, <2>2, AssignNextType DEF TypeOK, CompleteFromList, LiveQueueStatuses
  <2>3. CASE status' = closed /\ UNCHANGED <<estatus, active, deskUsed>>
    BY <1>7, <2>1, <2>3 DEF TypeOK, CompleteFromList
  <2>4. QED
    BY <1>7, <2>2, <2>3 DEF CompleteFromList
<1>8. ASSUME NEW a \in active, NEW action \in AssignmentActions, AssignmentAction(a, action)
      PROVE  TypeOK'
  <2>1. a.ticket \in Tickets /\ a.employee \in Employees
    BY DEF TypeOK, Assignment
  <2> DEFINE next == NextTicketStatus(status[a.ticket], action, TRUE)
  <2>2. /\ next \in {"CALLED", "IN_SERVICE", "COMPLETED", "REQUEUED", "NO_SHOW"}
        /\ status[a.ticket] # "ABSENT"
    <3>1. next # "null"
      BY <1>8 DEF AssignmentAction
    <3>2. QED
      BY <3>1, NextStatusType
  <2> HIDE DEF next
  <2>3. status' \in [Tickets -> TicketStatus \cup {"ABSENT"}]
    BY <1>8, <2>1, <2>2 DEF AssignmentAction, TypeOK, TicketStatus, next
  <2>4. callAttempts' \in [Tickets -> 0..MaxAttempts]
    BY <1>8, <2>1 DEF AssignmentAction, TypeOK, MaxAttempts
  <2>5. /\ priority' \in [Tickets -> {0, 1}]
        /\ estatus' \in [Employees -> EmployeeStatus]
        /\ active' \subseteq Assignment
    BY <1>8, <2>1 DEF AssignmentAction, TypeOK, EmployeeStatus
  <2>6. \A t \in Tickets : status'[t] # "ABSENT" => status[t] # "ABSENT"
    BY <1>8, <2>1, <2>2 DEF AssignmentAction, TypeOK
  <2>7. QED
    BY <1>8, <2>3, <2>4, <2>5, <2>6 DEF AssignmentAction, TypeOK, deskVars
<1>9. ASSUME NEW t \in Tickets, MarkNoShow(t)
      PROVE  TypeOK'
  BY <1>9 DEF TypeOK, MarkNoShow, TicketStatus, employeeVars, deskVars
<1>10. ASSUME NEW t \in Tickets, Reschedule(t)
       PROVE  TypeOK'
  BY <1>10 DEF TypeOK, Reschedule, FreeDesks, employeeVars, deskVars
<1>11. ASSUME NEW e \in Employees, NEW d \in Desks, AssignEmployeeDesk(e, d)
       PROVE  TypeOK'
  <2>1. PICK others \in SUBSET OthersAt(d, e) :
          LET lost == LostBy(others, e)
          IN  /\ Requeue(lost)
              /\ estatus' = [f \in Employees |->
                               IF \E a \in lost : a.employee = f THEN "PAUSED" ELSE estatus[f]]
              /\ edesk'   = [f \in Employees |->
                               IF f = e THEN d ELSE IF f \in others THEN None ELSE edesk[f]]
    BY <1>11 DEF AssignEmployeeDesk
  <2>2. QED
    BY <1>11, <2>1, RequeueMoves DEF TypeOK, AssignEmployeeDesk, EmployeeStatus, deskVars
<1>12. ASSUME NEW e \in Employees, LeaveDesk(e)
       PROVE  TypeOK'
  BY <1>12, RequeueMoves DEF TypeOK, LeaveDesk, EmployeeStatus, deskVars
<1>13. ASSUME NEW e \in Rotating, NEW c \in Countries, UpdateEmployeeCountry(e, c)
       PROVE  TypeOK'
  BY <1>13, RequeueMoves DEF TypeOK, UpdateEmployeeCountry, EmployeeStatus, deskVars
<1>14. ASSUME NEW d \in Desks, NEW c \in NewDeskCountries, CreateDesk(d, c)
       PROVE  TypeOK'
  BY <1>14 DEF TypeOK, CreateDesk, ticketVars, employeeVars
<1>15. ASSUME NEW d \in Desks, UpdateDesk(d)
       PROVE  TypeOK'
  BY <1>15 DEF TypeOK, UpdateDesk, ticketVars, employeeVars
<1>16. ASSUME NEW d \in Closable, DeleteDesk(d)
       PROVE  TypeOK'
  BY <1>16 DEF TypeOK, DeleteDesk, ticketVars
<1>17. ASSUME ExpireMissed
       PROVE  TypeOK'
  BY <1>17 DEF TypeOK, ExpireMissed, Due, Freed, AutoNoShowStatuses, TicketStatus, EmployeeStatus,
               deskVars
<1>18. ASSUME NEW a \in active, RecoverBreak(a)
       PROVE  TypeOK'
  BY <1>18, RequeueMoves DEF TypeOK, RecoverBreak, employeeVars, deskVars
<1>19. ASSUME NEW a \in active, ExpireCall(a)
       PROVE  TypeOK'
  <2>1. a.ticket \in Tickets /\ a.employee \in Employees
    BY DEF TypeOK, Assignment
  <2>2. QED
    BY <1>19, <2>1 DEF TypeOK, ExpireCall, TicketStatus, EmployeeStatus, deskVars
<1>20. ASSUME NEW e \in Employees, DispatchAvailable(e)
       PROVE  TypeOK'
  <2>1. active \in SUBSET Assignment
    BY DEF TypeOK
  <2>2. QED
    BY <1>20, <2>1, AssignNextType DEF TypeOK, DispatchAvailable, LiveQueueStatuses
<1>21. ASSUME Restart
       PROVE  TypeOK'
  BY <1>21 DEF TypeOK, Restart, EmployeeStatus, ticketVars, deskVars
<1>22. ASSUME Tick
       PROVE  TypeOK'
  BY <1>22 DEF TypeOK, Tick, ticketVars, employeeVars, deskVars
<1>23. CASE UNCHANGED vars
  BY <1>23 DEF TypeOK, vars, ticketVars, employeeVars, deskVars
<1>24. QED
  BY <1>1, <1>2, <1>3, <1>4, <1>5, <1>6, <1>7, <1>8, <1>9, <1>10, <1>11, <1>12, <1>13, <1>14,
     <1>15, <1>16, <1>17, <1>18, <1>19, <1>20, <1>21, <1>22, <1>23
  DEF Next, ClientNext, EmployeeNext, DeskNext, ServerNext

\* The tables keep their types: no transaction writes a status that is none, a
\* desk that does not exist, or a booking without a desk.
THEOREM TypesHold == Spec => []TypeOK
<1>1. QED
  BY InitType, StepType, PTL DEF Spec

-----------------------------------------------------------------------------
(* Assignments and tickets.  Joined says of given statuses and assignments   *)
(* what IndexesNeverFire and InProgressIffAssigned say of the tables, so     *)
(* that it can be asked in the middle of a transaction.                      *)

Joined(st, assignments) ==
  /\ \A a, b \in assignments : a.ticket = b.ticket \/ a.employee = b.employee => a = b
  /\ \A t \in Tickets :
       st[t] \in ManagerInProgress <=> \E a \in assignments : a.ticket = t

\* The inductive invariant.  A check-in looks at the desk and not at the
\* employee's assignments, so that exclusion of employees rests on where they sit.
Safe ==
  /\ TypeOK
  /\ Joined(status, active)
  /\ ClientAtEmployeesDesk

\* Joined is the conjunction of two of the properties the runs check.
LEMMA JoinedIsBoth == Joined(status, active) <=> IndexesNeverFire /\ InProgressIffAssigned
  BY DEF Joined, IndexesNeverFire, InProgressIffAssigned, ActiveOn

\* Ending assignments whose tickets leave the hands of their employees.
LEMMA JoinedAfterEnd ==
  ASSUME NEW st, NEW new, NEW assignments \in SUBSET Assignment, NEW A \in SUBSET assignments,
         Joined(st, assignments),
         \A a \in A : new[a.ticket] \notin ManagerInProgress,
         \A t \in Tickets :
           (\A a \in A : a.ticket # t) =>
             (new[t] \in ManagerInProgress <=> st[t] \in ManagerInProgress)
  PROVE  Joined(new, assignments \ A)
<1>1. ASSUME NEW t \in Tickets
      PROVE  new[t] \in ManagerInProgress <=> \E a \in assignments \ A : a.ticket = t
  <2>1. CASE \E a \in A : a.ticket = t
    BY <2>1 DEF Joined
  <2>2. CASE \A a \in A : a.ticket # t
    BY <2>2 DEF Joined
  <2>3. QED
    BY <2>1, <2>2
<1>2. QED
  BY <1>1 DEF Joined

\* The case of one ticket, whether or not somebody has it.
LEMMA OneTicketLeaves ==
  ASSUME NEW new, NEW t \in Tickets,
         active \in SUBSET Assignment,
         Joined(status, active),
         new[t] \notin ManagerInProgress,
         \A u \in Tickets : u # t => new[u] = status[u]
  PROVE  Joined(new, active \ ActiveOn(t))
<1>1. \A a \in ActiveOn(t) : new[a.ticket] \notin ManagerInProgress
  BY DEF ActiveOn
<1>2. \A u \in Tickets : (\A a \in ActiveOn(t) : a.ticket # u) =>
        (new[u] \in ManagerInProgress <=> status[u] \in ManagerInProgress)
  <2>1. status[t] \in ManagerInProgress => \E a \in ActiveOn(t) : a.ticket = t
    BY DEF Joined, ActiveOn
  <2>2. QED
    BY <2>1
<1>3. ActiveOn(t) \in SUBSET active
  BY DEF ActiveOn
<1>4. QED
  BY <1>1, <1>2, <1>3, JoinedAfterEnd

\* Giving a ticket that nobody has to an employee who has none.
LEMMA JoinedAfterBegin ==
  ASSUME NEW st \in [Tickets -> TicketStatus \cup {"ABSENT"}],
         NEW assignments \in SUBSET Assignment,
         Joined(st, assignments),
         NEW t \in Tickets, st[t] \notin ManagerInProgress,
         NEW e, \A a \in assignments : a.employee # e,
         NEW d, NEW s \in ManagerInProgress
  PROVE  Joined([st EXCEPT ![t] = s],
                assignments \cup {[ticket |-> t, employee |-> e, desk |-> d]})
<1> DEFINE new == [st EXCEPT ![t] = s]
           given == [ticket |-> t, employee |-> e, desk |-> d]
<1>1. \A a \in assignments : a.ticket # t
  BY DEF Joined
<1>2. given.ticket = t /\ given.employee = e
  OBVIOUS
<1>3. ASSUME NEW u \in Tickets
      PROVE  new[u] \in ManagerInProgress <=> \E a \in assignments \cup {given} : a.ticket = u
  <2>1. CASE u = t
    BY <1>2, <2>1
  <2>2. CASE u # t
    <3>1. new[u] = st[u]
      BY <2>2
    <3>2. QED
      BY <1>2, <2>2, <3>1 DEF Joined
  <2>3. QED
    BY <2>1, <2>2
<1> HIDE DEF given
<1>4. ASSUME NEW a \in assignments \cup {given}, NEW b \in assignments \cup {given},
             a.ticket = b.ticket \/ a.employee = b.employee
      PROVE  a = b
  BY <1>1, <1>2, <1>4 DEF Joined
<1>5. QED
  BY <1>3, <1>4 DEF Joined, given

\* assignNext keeps whatever it is given joined.
LEMMA JoinedAfterAssignNext ==
  ASSUME NEW st \in [Tickets -> TicketStatus \cup {"ABSENT"}],
         NEW es, NEW assignments \in SUBSET Assignment,
         Joined(st, assignments),
         NEW e \in Employees,
         AssignNext(st, es, assignments, e)
  PROVE  Joined(status', active')
<1>1. CASE Pickable(st, assignments, e) = {}
  BY <1>1 DEF AssignNext
<1>2. CASE Pickable(st, assignments, e) # {}
  <2>1. PICK t \in Pickable(st, assignments, e) :
          /\ status' = [st EXCEPT ![t] = "ASSIGNED"]
          /\ active' = assignments \cup
                         {[ticket |-> t, employee |-> e, desk |-> edesk[e]]}
    BY <1>2 DEF AssignNext
  <2>2. t \in Tickets /\ st[t] \notin ManagerInProgress
    BY <1>2 DEF Pickable, Candidates, Foremost, LiveQueueStatuses, ManagerInProgress
  <2>3. \A a \in assignments : a.employee # e
    BY <1>2 DEF Pickable
  <2>4. QED
    BY <2>1, <2>2, <2>3, JoinedAfterBegin DEF ManagerInProgress
<1>3. QED
  BY <1>1, <1>2

\* Requeue, where nobody of A is being served, releases all of A.
LEMMA JoinedAfterRequeue ==
  ASSUME Safe, NEW A \in SUBSET active, ~InService(A), Requeue(A)
  PROVE  Joined(status', active')
<1>1. \A a \in A : status'[a.ticket] = "REQUEUED"
  BY DEF Safe, TypeOK, Joined, Assignment, Requeue, CanReleaseOnBreak, InService, BlocksBreak,
         ManagerInProgress
<1>2. \A t \in Tickets : (\A a \in A : a.ticket # t) => status'[t] = status[t]
  BY DEF Requeue
<1>3. active' = active \ A /\ active \in SUBSET Assignment /\ Joined(status, active)
  BY DEF Requeue, Safe, TypeOK
<1>4. QED
  BY <1>1, <1>2, <1>3, JoinedAfterEnd DEF ManagerInProgress

\* What AssignNext adds is at the desk of its employee.
LEMMA SeatedAfterAssignNext ==
  ASSUME NEW st, NEW es, NEW assignments, NEW e, AssignNext(st, es, assignments, e),
         UNCHANGED edesk,
         \A a \in assignments : edesk[a.employee] \in {None, a.desk}
  PROVE  ClientAtEmployeesDesk'
  BY DEF AssignNext, ClientAtEmployeesDesk

\* The employee a check-in finds has nobody, when the desk is free.
LEMMA MatchIsFree ==
  ASSUME Safe, NEW t \in Tickets, status[t] = "BOOKED",
         NEW e \in Match(t), ~DeskBusy(active, edesk[e])
  PROVE  \A a \in active : a.employee # e
<1>1. edesk[e] \in Desks
  BY MatchHasDesk DEF Safe
<1>2. \A a \in active : a.desk # edesk[e]
  BY DEF DeskBusy
<1>3. QED
  BY <1>1, <1>2, ConstantsAssumption DEF Safe, ClientAtEmployeesDesk

\* Every action keeps the inductive invariant.
LEMMA StepSafe == Safe /\ [Next]_vars => Safe'
<1> SUFFICES ASSUME Safe, [Next]_vars
             PROVE  Safe'
  OBVIOUS
<1>t. TypeOK' /\ TypeOK
  BY StepType DEF Safe
<1>a. active \in SUBSET Assignment /\ \A a \in active : a.ticket \in Tickets /\ a.employee \in Employees
  BY DEF Safe, TypeOK, Assignment
<1>j. Joined(status, active)
  BY DEF Safe
<1>q. ASSUME Joined(status', active'), ClientAtEmployeesDesk'
      PROVE  Safe'
  BY <1>t, <1>q DEF Safe, Joined
<1> DEFINE Quiet(t) == status'[t] \in ManagerInProgress <=> status[t] \in ManagerInProgress
\* An action that moves no ticket into or out of the employees' hands.
<1>0. ASSUME \A t \in Tickets : Quiet(t), active' = active, UNCHANGED edesk
      PROVE  Safe'
  BY <1>0, <1>j, <1>q DEF Joined, Safe, ClientAtEmployeesDesk
<1>1. ASSUME NEW t \in Tickets, CreateTicket(t)
      PROVE  Safe'
  BY <1>1, <1>0, <1>t DEF CreateTicket, TypeOK, ManagerInProgress, employeeVars
<1>2. ASSUME NEW t \in Tickets, CheckIn(t)
      PROVE  Safe'
  <2>1. status[t] = "BOOKED"
    BY <1>2 DEF CheckIn, CanCheckIn
  <2>2. CASE status' = [status EXCEPT ![t] = "CHECKED_IN"] /\ active' = active
    BY <1>2, <2>1, <2>2, <1>0, <1>t DEF CheckIn, TypeOK, ManagerInProgress
  <2>3. ASSUME NEW e \in Match(t), ~DeskBusy(active, edesk[e]),
               status' = [status EXCEPT ![t] = "ASSIGNED"],
               active' = active \cup {[ticket |-> t, employee |-> e, desk |-> edesk[e]]}
        PROVE  Safe'
    <3>1. \A a \in active : a.employee # e
      BY <2>1, <2>3, MatchIsFree
    <3>2. Joined(status', active')
      BY <2>1, <2>3, <3>1, <1>t, <1>a, <1>j, JoinedAfterBegin DEF TypeOK, ManagerInProgress
    <3>3. ClientAtEmployeesDesk'
      BY <1>2, <2>3 DEF CheckIn, Safe, ClientAtEmployeesDesk
    <3>4. QED
      BY <3>2, <3>3, <1>q
  <2>4. QED
    BY <1>2, <2>2, <2>3 DEF CheckIn
<1>3. ASSUME NEW t \in Tickets, Cancel(t)
      PROVE  Safe'
  <2>1. Joined(status', active \ ActiveOn(t))
    <3>1. /\ status'[t] \notin ManagerInProgress
          /\ \A u \in Tickets : u # t => status'[u] = status[u]
      BY <1>3, <1>t DEF Cancel, TypeOK, ManagerInProgress
    <3>2. QED
      BY <3>1, <1>a, <1>j, OneTicketLeaves
  <2>2. ClientAtEmployeesDesk'
    BY <1>3 DEF Cancel, Safe, ClientAtEmployeesDesk
  <2>3. QED
    BY <1>3, <2>1, <2>2, <1>q DEF Cancel
<1>4. ASSUME NEW e \in Employees, BecomeAvailable(e)
      PROVE  Safe'
  <2>1. Joined(status', active')
    BY <1>4, <1>t, <1>a, <1>j, JoinedAfterAssignNext DEF BecomeAvailable, TypeOK
  <2>2. ClientAtEmployeesDesk'
    BY <1>4, SeatedAfterAssignNext DEF BecomeAvailable, Safe, ClientAtEmployeesDesk
  <2>3. QED
    BY <2>1, <2>2, <1>q
<1>5. ASSUME NEW e \in Employees, NEW s \in {"PAUSED", "OFFLINE"}, TakeBreak(e, s)
      PROVE  Safe'
  <2>1. Joined(status', active')
    BY <1>5, JoinedAfterRequeue DEF TakeBreak, ActiveOf
  <2>2. ClientAtEmployeesDesk'
    BY <1>5 DEF TakeBreak, Requeue, Safe, ClientAtEmployeesDesk
  <2>3. QED
    BY <2>1, <2>2, <1>q
<1>6. ASSUME NEW e \in Employees, NEW t \in Tickets, CallFromList(e, t)
      PROVE  Safe'
  <2>1. status[t] \notin ManagerInProgress
    BY <1>6 DEF CallFromList, ManagerMayChange, ManagerNextStatuses
  <2>2. ActiveOn(t) = {}
    BY <2>1, <1>j DEF Joined, ActiveOn
  <2>3. \A a \in active : a.employee # e
    BY <1>6, <2>2 DEF CallFromList, ActiveOf, ActiveOn
  <2>4. active' = active \cup {[ticket |-> t, employee |-> e, desk |-> edesk[e]]}
    BY <1>6, <2>2 DEF CallFromList
  <2>5. Joined(status', active')
    <3>1. status' = [status EXCEPT ![t] = "CALLED"]
      BY <1>6 DEF CallFromList
    <3>2. "CALLED" \in ManagerInProgress /\ status \in [Tickets -> TicketStatus \cup {"ABSENT"}]
      BY <1>t DEF TypeOK, ManagerInProgress
    <3>3. QED
      BY <3>1, <3>2, <2>1, <2>3, <2>4, <1>a, <1>j, JoinedAfterBegin
  <2>6. ClientAtEmployeesDesk'
    BY <1>6, <2>4 DEF CallFromList, Safe, ClientAtEmployeesDesk
  <2>7. QED
    BY <2>5, <2>6, <1>q
<1>7. ASSUME NEW e \in Employees, NEW t \in Tickets, CompleteFromList(e, t)
      PROVE  Safe'
  <2> DEFINE closed == [status EXCEPT ![t] = "COMPLETED"]
             left   == active \ ActiveOn(t)
             free   == Freed(ActiveOn(t))
  <2>1. closed \in [Tickets -> TicketStatus \cup {"ABSENT"}] /\ left \in SUBSET Assignment
    BY <1>t DEF TypeOK, TicketStatus
  <2>2. Joined(closed, left)
    <3>1. /\ closed[t] \notin ManagerInProgress
          /\ \A u \in Tickets : u # t => closed[u] = status[u]
      BY <1>t DEF TypeOK, ManagerInProgress
    <3> HIDE DEF closed
    <3>2. QED
      BY <3>1, <1>a, <1>j, OneTicketLeaves
  <2>3. CASE AssignNext(closed, free, left, e)
    <3>1. \A a \in left : edesk[a.employee] \in {None, a.desk}
      BY DEF Safe, ClientAtEmployeesDesk
    <3> HIDE DEF closed, left, free
    <3>2. Joined(status', active')
      BY <2>1, <2>2, <2>3, JoinedAfterAssignNext
    <3>3. ClientAtEmployeesDesk'
      BY <1>7, <2>3, <3>1, SeatedAfterAssignNext DEF CompleteFromList
    <3>4. QED
      BY <3>2, <3>3, <1>q
  <2>4. CASE ActiveOn(t) = {} /\ status' = closed /\ active' = active
    <3>1. Joined(status', active')
      BY <2>2, <2>4
    <3>2. ClientAtEmployeesDesk'
      BY <1>7, <2>4 DEF CompleteFromList, Safe, ClientAtEmployeesDesk
    <3>3. QED
      BY <3>1, <3>2, <1>q
  <2>5. QED
    BY <1>7, <2>3, <2>4 DEF CompleteFromList
<1>8. ASSUME NEW a \in active, NEW action \in AssignmentActions, AssignmentAction(a, action)
      PROVE  Safe'
  <2> DEFINE next == NextTicketStatus(status[a.ticket], action, TRUE)
             ends == action \in {"COMPLETE", "REQUEUE", "NO_SHOW"}
  <2>1. IF ends THEN next \notin ManagerInProgress ELSE next \in ManagerInProgress
    BY <1>8, NextStatusByAction DEF AssignmentAction, ManagerInProgress
  <2>2. /\ status' = [status EXCEPT ![a.ticket] = next]
        /\ active' = IF ends THEN active \ {a} ELSE active
        /\ UNCHANGED edesk
    BY <1>8 DEF AssignmentAction
  <2>3. status[a.ticket] \in ManagerInProgress
    BY <1>a, <1>j DEF Joined
  <2> HIDE DEF next
  <2>4. CASE ends
    <3>1. Joined(status', active \ {a})
      <4>1. /\ status'[a.ticket] \notin ManagerInProgress
            /\ \A u \in Tickets : u # a.ticket => status'[u] = status[u]
        BY <2>1, <2>2, <2>4, <1>t, <1>a DEF TypeOK
      <4>2. QED
        BY <4>1, <1>a, <1>j, JoinedAfterEnd
    <3>2. ClientAtEmployeesDesk'
      BY <2>2, <2>4 DEF Safe, ClientAtEmployeesDesk
    <3>3. QED
      BY <2>2, <2>4, <3>1, <3>2, <1>q
  <2>5. CASE ~ends
    BY <2>1, <2>2, <2>3, <2>5, <1>0, <1>t, <1>a DEF TypeOK
  <2>6. QED
    BY <2>4, <2>5
<1>9. ASSUME NEW t \in Tickets, MarkNoShow(t)
      PROVE  Safe'
  BY <1>9, <1>0, <1>t DEF MarkNoShow, TypeOK, ManagerInProgress, employeeVars
<1>10. ASSUME NEW t \in Tickets, Reschedule(t)
       PROVE  Safe'
  BY <1>10, <1>0 DEF Reschedule, employeeVars
<1>11. ASSUME NEW e \in Employees, NEW d \in Desks, AssignEmployeeDesk(e, d)
       PROVE  Safe'
  <2>0. PICK others \in SUBSET OthersAt(d, e) :
          /\ ~InService(LostBy(others, e))
          /\ Requeue(LostBy(others, e))
          /\ edesk' = [f \in Employees |->
                         IF f = e THEN d ELSE IF f \in others THEN None ELSE edesk[f]]
    BY <1>11 DEF AssignEmployeeDesk
  <2>1. Joined(status', active')
    BY <2>0, JoinedAfterRequeue DEF LostBy
  <2>2. ASSUME NEW a \in active'
        PROVE  edesk'[a.employee] \in {None, a.desk}
    <3>1. a \in active /\ a \notin LostBy(others, e)
      BY <2>0, <2>2 DEF Requeue
    <3>2. a.employee \notin others /\ a.employee # e /\ a.employee \in Employees
      BY <3>1, <1>a DEF LostBy
    <3>3. edesk'[a.employee] = edesk[a.employee]
      BY <2>0, <3>2
    <3>4. QED
      BY <3>1, <3>3 DEF Safe, ClientAtEmployeesDesk
  <2>3. QED
    BY <2>1, <2>2, <1>q DEF ClientAtEmployeesDesk
<1>12. ASSUME NEW e \in Employees, LeaveDesk(e)
       PROVE  Safe'
  <2>1. Joined(status', active')
    BY <1>12, JoinedAfterRequeue DEF LeaveDesk, ActiveOf
  <2>2. ClientAtEmployeesDesk'
    BY <1>12, <1>t, <1>a DEF LeaveDesk, Requeue, TypeOK, Safe, ClientAtEmployeesDesk
  <2>3. QED
    BY <2>1, <2>2, <1>q
<1>13. ASSUME NEW e \in Rotating, NEW c \in Countries, UpdateEmployeeCountry(e, c)
       PROVE  Safe'
  <2>1. Joined(status', active')
    BY <1>13, JoinedAfterRequeue DEF UpdateEmployeeCountry, ActiveOf
  <2>2. ClientAtEmployeesDesk'
    BY <1>13, <1>t, <1>a DEF UpdateEmployeeCountry, Requeue, TypeOK, Safe, ClientAtEmployeesDesk
  <2>3. QED
    BY <2>1, <2>2, <1>q
<1>14. ASSUME NEW d \in Desks, NEW c \in NewDeskCountries, CreateDesk(d, c)
       PROVE  Safe'
  BY <1>14, <1>0 DEF CreateDesk, ticketVars, employeeVars
<1>15. ASSUME NEW d \in Desks, UpdateDesk(d)
       PROVE  Safe'
  BY <1>15, <1>0 DEF UpdateDesk, ticketVars, employeeVars
<1>16. ASSUME NEW d \in Closable, DeleteDesk(d)
       PROVE  Safe'
  <2>1. Joined(status', active')
    BY <1>16, <1>j DEF DeleteDesk, ticketVars
  <2>2. ClientAtEmployeesDesk'
    BY <1>16, <1>a DEF DeleteDesk, Safe, ClientAtEmployeesDesk
  <2>3. QED
    BY <2>1, <2>2, <1>q
<1>17. ASSUME ExpireMissed
       PROVE  Safe'
  <2> DEFINE lost == {a \in active : a.ticket \in Due}
  <2>1. /\ status' = [t \in Tickets |-> IF t \in Due THEN "NO_SHOW" ELSE status[t]]
        /\ active' = active \ lost
        /\ UNCHANGED edesk
    BY <1>17 DEF ExpireMissed
  <2>2. \A t \in Tickets : (\A a \in lost : a.ticket # t) =>
          (status'[t] \in ManagerInProgress <=> status[t] \in ManagerInProgress)
    <3> SUFFICES ASSUME NEW t \in Tickets, t \in Due, \A a \in lost : a.ticket # t
                 PROVE  status[t] \notin ManagerInProgress /\ status'[t] \notin ManagerInProgress
      BY <2>1
    <3>1. QED
      BY <2>1, <1>j DEF Due, Joined, ManagerInProgress
  <2>3. \A a \in lost : status'[a.ticket] \notin ManagerInProgress
    BY <2>1, <1>a DEF ManagerInProgress
  <2>4. Joined(status', active \ lost)
    BY <2>2, <2>3, <1>a, <1>j, JoinedAfterEnd
  <2>5. ClientAtEmployeesDesk'
    BY <2>1 DEF Safe, ClientAtEmployeesDesk
  <2>6. QED
    BY <2>1, <2>4, <2>5, <1>q
<1>18. ASSUME NEW a \in active, RecoverBreak(a)
       PROVE  Safe'
  <2>1. ~InService({a})
    BY <1>18 DEF RecoverBreak, Stale, InService, BlocksBreak
  <2>2. Joined(status', active')
    BY <1>18, <2>1, JoinedAfterRequeue DEF RecoverBreak
  <2>3. ClientAtEmployeesDesk'
    BY <1>18 DEF RecoverBreak, Requeue, Safe, ClientAtEmployeesDesk, employeeVars
  <2>4. QED
    BY <2>2, <2>3, <1>q
<1>19. ASSUME NEW a \in active, ExpireCall(a)
       PROVE  Safe'
  <2>1. /\ status'[a.ticket] \notin ManagerInProgress
        /\ \A t \in Tickets : t # a.ticket => status'[t] = status[t]
    BY <1>19, <1>a, <1>t DEF ExpireCall, TypeOK, ManagerInProgress
  <2>2. Joined(status', active \ {a})
    BY <2>1, <1>a, <1>j, JoinedAfterEnd
  <2>3. ClientAtEmployeesDesk'
    BY <1>19 DEF ExpireCall, Safe, ClientAtEmployeesDesk
  <2>4. QED
    BY <1>19, <2>2, <2>3, <1>q DEF ExpireCall
<1>20. ASSUME NEW e \in Employees, DispatchAvailable(e)
       PROVE  Safe'
  <2>1. Joined(status', active')
    BY <1>20, <1>t, <1>a, <1>j, JoinedAfterAssignNext DEF DispatchAvailable, TypeOK
  <2>2. ClientAtEmployeesDesk'
    BY <1>20, SeatedAfterAssignNext DEF DispatchAvailable, Safe, ClientAtEmployeesDesk
  <2>3. QED
    BY <2>1, <2>2, <1>q
<1>21. ASSUME Restart
       PROVE  Safe'
  BY <1>21, <1>0 DEF Restart, ticketVars
<1>22. ASSUME Tick
       PROVE  Safe'
  BY <1>22, <1>0 DEF Tick, ticketVars, employeeVars
<1>23. CASE UNCHANGED vars
  BY <1>23, <1>0 DEF vars, ticketVars, employeeVars
<1>24. QED
  BY <1>1, <1>2, <1>3, <1>4, <1>5, <1>6, <1>7, <1>8, <1>9, <1>10, <1>11, <1>12, <1>13, <1>14,
     <1>15, <1>16, <1>17, <1>18, <1>19, <1>20, <1>21, <1>22, <1>23
  DEF Next, ClientNext, EmployeeNext, DeskNext, ServerNext

\* The inductive invariant holds of every state of the queue.
THEOREM SafeHolds == Spec => []Safe
<1>1. Init => Safe
  BY InitType DEF Init, Safe, Joined, ClientAtEmployeesDesk, ManagerInProgress
<1>2. QED
  BY <1>1, StepSafe, PTL DEF Spec

\* The two unique indexes on the assignments never reject a row: the checks of
\* assignNext, assignSpecificTicket and setTicketStatus are enough.
THEOREM IndexesHold == Spec => []IndexesNeverFire
<1>1. Safe => IndexesNeverFire
  BY JoinedIsBoth DEF Safe
<1>2. QED
  BY <1>1, SafeHolds, PTL

\* No client is left with a status that says an employee has the ticket while
\* nobody has it, nor an employee with a ticket that has gone elsewhere.
THEOREM InProgressHolds == Spec => []InProgressIffAssigned
<1>1. Safe => InProgressIffAssigned
  BY JoinedIsBoth DEF Safe
<1>2. QED
  BY <1>1, SafeHolds, PTL

\* A client in hand was sent to the desk where the employee sits.
THEOREM SeatHolds == Spec => []ClientAtEmployeesDesk
<1>1. Safe => ClientAtEmployeesDesk
  BY DEF Safe
<1>2. QED
  BY <1>1, SafeHolds, PTL

-----------------------------------------------------------------------------
(* Steps. *)

\* No transaction reopens a closed ticket or closes it in another way.
THEOREM ClosedHolds == Spec => ClosedStaysClosed
<1> DEFINE Kept(t) == status'[t] = status[t]
<1>1. ASSUME TypeOK, Next, NEW t \in Tickets, status[t] \in Terminal
      PROVE  Kept(t)
  <2> USE <1>1
  <2>t. status \in [Tickets -> TicketStatus \cup {"ABSENT"}] /\ active \in SUBSET Assignment
    BY DEF TypeOK
  <2>r. ASSUME NEW A, Requeue(A)
        PROVE  Kept(t)
    BY <2>r, RequeueMoves DEF Terminal
  <2>1. ASSUME NEW u \in Tickets, CreateTicket(u) \/ CheckIn(u) \/ Cancel(u) \/ MarkNoShow(u)
        PROVE  Kept(t)
    <3>1. status[u] \notin Terminal
      BY <2>1 DEF CreateTicket, CheckIn, CanCheckIn, Cancel, CanCancel, MarkNoShow, Terminal
    <3>2. \E s : status' = [status EXCEPT ![u] = s]
      BY <2>1 DEF CreateTicket, CheckIn, Cancel, MarkNoShow
    <3>3. QED
      BY <3>1, <3>2, <2>t
  <2>2. ASSUME NEW e \in Employees, BecomeAvailable(e) \/ DispatchAvailable(e)
        PROVE  Kept(t)
    <3>1. [estatus EXCEPT ![e] = "AVAILABLE"] \in [Employees -> EmployeeStatus]
          /\ estatus \in [Employees -> EmployeeStatus]
      BY DEF TypeOK, EmployeeStatus
    <3>2. QED
      BY <2>2, <2>t, <3>1, AssignNextType
      DEF BecomeAvailable, DispatchAvailable, LiveQueueStatuses, Terminal
  <2>3. ASSUME NEW e \in Employees, NEW u \in Tickets, CallFromList(e, u)
        PROVE  Kept(t)
    <3>1. status[u] \notin Terminal
      BY <2>3 DEF CallFromList, ManagerMayChange, ManagerNextStatuses
    <3>2. QED
      BY <2>3, <3>1, <2>t DEF CallFromList
  <2>4. ASSUME NEW e \in Employees, NEW u \in Tickets, CompleteFromList(e, u)
        PROVE  Kept(t)
    <3> DEFINE closed == [status EXCEPT ![u] = "COMPLETED"]
               left   == active \ ActiveOn(u)
               free   == Freed(ActiveOn(u))
    <3>1. status[u] \notin Terminal
      BY <2>4 DEF CompleteFromList, ManagerMayChange, ManagerNextStatuses
    <3>2. /\ closed[t] = status[t]
          /\ closed \in [Tickets -> TicketStatus \cup {"ABSENT"}]
          /\ left \in SUBSET Assignment
          /\ free \in [Employees -> EmployeeStatus]
      BY <3>1, <2>t DEF TypeOK, Freed, TicketStatus, EmployeeStatus
    <3>3. AssignNext(closed, free, left, e) \/ status' = closed
      BY <2>4 DEF CompleteFromList
    <3> HIDE DEF closed, left, free
    <3>4. QED
      BY <3>2, <3>3, AssignNextType DEF LiveQueueStatuses, Terminal
  <2>5. ASSUME NEW a \in active, NEW action \in AssignmentActions, AssignmentAction(a, action)
        PROVE  Kept(t)
    <3>1. NextTicketStatus(status[a.ticket], action, TRUE) # "null"
      BY <2>5 DEF AssignmentAction
    <3>2. status[a.ticket] \in {"ASSIGNED", "CALLED", "IN_SERVICE", "BOOKED"}
      BY <3>1, NextStatusType
    <3>3. QED
      BY <2>5, <3>2, <2>t DEF AssignmentAction, Terminal
  <2>6. ASSUME ExpireMissed
        PROVE  Kept(t)
    BY <2>6 DEF ExpireMissed, Due, AutoNoShowStatuses, Terminal
  <2>7. ASSUME NEW a \in active, ExpireCall(a)
        PROVE  Kept(t)
    BY <2>7, <2>t DEF ExpireCall, Terminal
  <2>8. CASE ClientNext
    BY <2>1, <2>8 DEF ClientNext
  <2>9. CASE EmployeeNext
    BY <2>1, <2>2, <2>3, <2>4, <2>5, <2>9, <2>r DEF EmployeeNext, TakeBreak, Reschedule
  <2>10. CASE DeskNext
    BY <2>10, <2>r DEF DeskNext, AssignEmployeeDesk, LeaveDesk, UpdateEmployeeCountry,
                       CreateDesk, UpdateDesk, DeleteDesk, ticketVars
  <2>11. CASE ServerNext
    BY <2>2, <2>6, <2>7, <2>11, <2>r DEF ServerNext, RecoverBreak, Restart, Tick, ticketVars
  <2>12. QED
    BY <2>8, <2>9, <2>10, <2>11 DEF Next
<1>2. TypeOK /\ [Next]_vars =>
        [\A t \in Tickets : status[t] \in Terminal => status'[t] = status[t]]_vars
  BY <1>1
<1>3. QED
  BY <1>2, TypesHold, PTL DEF Spec, ClosedStaysClosed

=============================================================================
