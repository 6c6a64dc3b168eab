--------------------------- MODULE QueueVisitProofs ---------------------------
(***************************************************************************)
(* Proofs, on top of the inductive invariant of QueueProofs, of what the   *)
(* queue owes to its people: an employee's status says whom they have, a   *)
(* client is of the employee's direction, bookings do not share a desk,    *)
(* and a visit runs as ServiceDesk promises.                               *)
(***************************************************************************)
EXTENDS QueueProofs

-----------------------------------------------------------------------------
(* The status of an employee.                                                *)

\* EmployeeStatusHonest of one employee, of given statuses and assignments, so
\* that it can be asked in the middle of a transaction.
HonestOf(e, es, st, assignments) ==
  /\ es[e] = "RESERVED" =>
       \E a \in assignments : a.employee = e /\ st[a.ticket] \in {"ASSIGNED", "CALLED"}
  /\ es[e] = "BUSY" => \E a \in assignments : a.employee = e /\ st[a.ticket] = "IN_SERVICE"
  /\ es[e] \in {"PAUSED", "OFFLINE"} /\ e \notin Integration =>
       \A a \in assignments : a.employee # e

\* The property, employee by employee.
LEMMA HonestIsOfEach ==
  EmployeeStatusHonest <=> \A e \in Employees : HonestOf(e, estatus, status, active)
  BY DEF EmployeeStatusHonest, HonestOf, ActiveOf

\* An employee whose status, assignment and client stay as they are.
LEMMA HonestKept ==
  ASSUME NEW e, NEW es, NEW st, NEW assignments, NEW es2, NEW st2, NEW assignments2,
         HonestOf(e, es, st, assignments),
         es2[e] = es[e],
         \A a \in assignments : a.employee = e =>
           a \in assignments2 /\ st2[a.ticket] = st[a.ticket],
         \A a \in assignments2 : a.employee = e => a \in assignments
  PROVE  HonestOf(e, es2, st2, assignments2)
  BY DEF HonestOf

\* An available employee may have a client or none.
LEMMA HonestFree ==
  ASSUME NEW e, NEW es, NEW st, NEW assignments, es[e] = "AVAILABLE"
  PROVE  HonestOf(e, es, st, assignments)
  BY DEF HonestOf

\* assignNext, for somebody who is available once the rest is written.
LEMMA HonestAfterAssignNext ==
  ASSUME NEW st \in [Tickets -> TicketStatus \cup {"ABSENT"}],
         NEW es \in [Employees -> EmployeeStatus],
         NEW assignments \in SUBSET Assignment,
         NEW e \in Employees, es[e] = "AVAILABLE",
         Joined(st, assignments),
         AssignNext(st, es, assignments, e),
         NEW f \in Employees, HonestOf(f, es, st, assignments)
  PROVE  HonestOf(f, estatus', status', active')
<1>1. CASE Pickable(st, assignments, e) = {}
  BY <1>1 DEF AssignNext
<1>2. CASE Pickable(st, assignments, e) # {}
  <2>1. PICK t \in Pickable(st, assignments, e) :
          /\ status'  = [st EXCEPT ![t] = "ASSIGNED"]
          /\ estatus' = [es EXCEPT ![e] = "RESERVED"]
          /\ active'  = assignments \cup
                          {[ticket |-> t, employee |-> e, desk |-> edesk[e]]}
    BY <1>2 DEF AssignNext
  <2>2. t \in Tickets /\ st[t] \notin ManagerInProgress
    BY <1>2 DEF Pickable, Candidates, Foremost, LiveQueueStatuses, ManagerInProgress
  <2>3. \A a \in assignments : a.ticket # t
    BY <2>2 DEF Joined
  <2> DEFINE given == [ticket |-> t, employee |-> e, desk |-> edesk[e]]
  <2>4. given.ticket = t /\ given.employee = e /\ active' = assignments \cup {given}
    BY <2>1
  <2> HIDE DEF given
  <2>5. CASE f = e
    <3>1. estatus'[f] = "RESERVED" /\ status'[given.ticket] = "ASSIGNED"
      BY <2>1, <2>2, <2>4, <2>5
    <3>2. QED
      BY <2>4, <2>5, <3>1 DEF HonestOf
  <2>6. CASE f # e
    <3>1. estatus'[f] = es[f]
      BY <2>1, <2>6
    <3>2. \A a \in assignments : a.ticket \in Tickets /\ status'[a.ticket] = st[a.ticket]
      BY <2>1, <2>3 DEF Assignment
    <3>3. QED
      BY <2>4, <2>6, <3>1, <3>2, HonestKept
  <2>7. QED
    BY <2>5, <2>6
<1>3. QED
  BY <1>1, <1>2

\* Requeue takes nothing from an employee who has none of the assignments.
LEMMA RequeueSpares ==
  ASSUME Safe, NEW A \in SUBSET active, Requeue(A), NEW f,
         \A a \in A : a.employee # f
  PROVE  /\ \A a \in active : a.employee = f =>
              a \in active' /\ status'[a.ticket] = status[a.ticket]
         /\ active' \subseteq active
  BY DEF Safe, TypeOK, Joined, Assignment, Requeue

\* Once the assignments A have ended, their employees are free and none but
\* their tickets has moved.
LEMMA HonestAfterEnd ==
  ASSUME NEW f \in Employees, HonestOf(f, estatus, status, active),
         Joined(status, active), active \in SUBSET Assignment,
         NEW A \in SUBSET active, NEW es, NEW st,
         es[f] = IF \E a \in A : a.employee = f THEN "AVAILABLE" ELSE estatus[f],
         \A t \in Tickets : (\A a \in A : a.ticket # t) /\ status[t] \in ManagerInProgress
                              => st[t] = status[t]
  PROVE  HonestOf(f, es, st, active \ A)
<1>1. CASE \E a \in A : a.employee = f
  BY <1>1, HonestFree
<1>2. CASE \A a \in A : a.employee # f
  <2>1. ASSUME NEW a \in active, a.employee = f
        PROVE  a \in active \ A /\ st[a.ticket] = status[a.ticket]
    <3>1. a \notin A /\ \A b \in A : b.ticket # a.ticket
      BY <1>2, <2>1 DEF Joined
    <3>2. a.ticket \in Tickets /\ status[a.ticket] \in ManagerInProgress
      BY DEF Joined, Assignment
    <3>3. QED
      BY <3>1, <3>2
  <2>2. es[f] = estatus[f]
    BY <1>2
  <2>3. QED
    BY <2>1, <2>2, HonestKept
<1>3. QED
  BY <1>1, <1>2

\* Every action keeps the statuses of the employees honest.
LEMMA StepHonest ==
  Safe /\ EmployeeStatusHonest /\ [Next]_vars => EmployeeStatusHonest'
<1> SUFFICES ASSUME Safe, EmployeeStatusHonest, [Next]_vars,
                    NEW f \in Employees
             PROVE  HonestOf(f, estatus', status', active')
  BY DEF EmployeeStatusHonest, HonestOf, ActiveOf
<1> DEFINE Honest == HonestOf(f, estatus', status', active')
<1>h. HonestOf(f, estatus, status, active)
  BY HonestIsOfEach
<1>t. /\ status \in [Tickets -> TicketStatus \cup {"ABSENT"}]
      /\ estatus \in [Employees -> EmployeeStatus]
      /\ active \in SUBSET Assignment
  BY DEF Safe, TypeOK
<1>a. \A a \in active : a.ticket \in Tickets /\ a.employee \in Employees
  BY <1>t DEF Assignment
<1>j. Joined(status, active) /\ \A a \in active : status[a.ticket] \in ManagerInProgress
  BY <1>a DEF Safe, Joined
\* An action that leaves every employee and every client in hand alone.
<1>0. ASSUME estatus'[f] = estatus[f], active' = active,
             \A t \in Tickets : status[t] \in ManagerInProgress => status'[t] = status[t]
      PROVE  Honest
  BY <1>0, <1>a, <1>j, <1>h, HonestKept
\* An action that ends the assignments A, with f among their employees or not.
<1>e. ASSUME NEW A \in SUBSET active, Requeue(A),
             IF \E a \in A : a.employee = f THEN ActiveOf(f) \subseteq A /\ estatus'[f] \in {"PAUSED", "OFFLINE"}
                                            ELSE estatus'[f] = estatus[f]
      PROVE  Honest
  <2>1. CASE \E a \in A : a.employee = f
    BY <1>e, <2>1 DEF HonestOf, ActiveOf, Requeue
  <2>2. CASE \A a \in A : a.employee # f
    <3>1. /\ \A a \in active : a.employee = f => a \in active' /\ status'[a.ticket] = status[a.ticket]
          /\ active' \subseteq active
      BY <1>e, <2>2, RequeueSpares
    <3>2. QED
      BY <1>e, <1>h, <2>2, <3>1, HonestKept
  <2>3. QED
    BY <2>1, <2>2
<1>1. ASSUME NEW t \in Tickets, CreateTicket(t)
      PROVE  Honest
  BY <1>1, <1>0, <1>t DEF CreateTicket, ManagerInProgress, employeeVars
<1>2. ASSUME NEW t \in Tickets, CheckIn(t)
      PROVE  Honest
  <2>1. status[t] = "BOOKED"
    BY <1>2 DEF CheckIn, CanCheckIn
  <2>2. CASE status' = [status EXCEPT ![t] = "CHECKED_IN"] /\ UNCHANGED <<estatus, active>>
    BY <2>1, <2>2, <1>0, <1>t DEF ManagerInProgress
  <2>3. ASSUME NEW e \in Match(t),
               status' = [status EXCEPT ![t] = "ASSIGNED"],
               estatus' = [estatus EXCEPT ![e] = "RESERVED"],
               active' = active \cup {[ticket |-> t, employee |-> e, desk |-> edesk[e]]}
        PROVE  Honest
    <3> DEFINE given == [ticket |-> t, employee |-> e, desk |-> edesk[e]]
    <3>1. given.ticket = t /\ given.employee = e /\ active' = active \cup {given}
      BY <2>3
    <3> HIDE DEF given
    <3>2. CASE f = e
      BY <2>3, <3>1, <3>2, <1>t DEF HonestOf
    <3>3. CASE f # e
      <4>1. \A a \in active : status'[a.ticket] = status[a.ticket]
        BY <2>1, <2>3, <1>t, <1>a, <1>j DEF ManagerInProgress
      <4>2. estatus'[f] = estatus[f]
        BY <2>3, <3>3, <1>t
      <4>3. QED
        BY <3>1, <3>3, <4>1, <4>2, <1>h, HonestKept
    <3>4. QED
      BY <3>2, <3>3
  <2>4. QED
    BY <1>2, <2>2, <2>3 DEF CheckIn
<1>3. ASSUME NEW t \in Tickets, Cancel(t)
      PROVE  Honest
  <2>1. /\ active' = active \ ActiveOn(t)
        /\ estatus'[f] = IF \E a \in ActiveOn(t) : a.employee = f THEN "AVAILABLE" ELSE estatus[f]
        /\ \A u \in Tickets : u # t => status'[u] = status[u]
    BY <1>3, <1>t DEF Cancel, Freed
  <2>2. \A u \in Tickets : (\A a \in ActiveOn(t) : a.ticket # u) /\ status[u] \in ManagerInProgress => u # t
    BY <1>j DEF Joined, ActiveOn
  <2>3. ActiveOn(t) \in SUBSET active
    BY DEF ActiveOn
  <2>4. QED
    BY <2>1, <2>2, <2>3, <1>h, <1>j, <1>t, HonestAfterEnd
<1>4. ASSUME NEW e \in Employees, BecomeAvailable(e)
      PROVE  Honest
  <2> DEFINE es == [estatus EXCEPT ![e] = "AVAILABLE"]
  <2>1. es \in [Employees -> EmployeeStatus] /\ es[e] = "AVAILABLE"
    BY <1>t DEF EmployeeStatus
  <2>2. HonestOf(f, es, status, active)
    <3>1. CASE f = e
      BY <2>1, <3>1, HonestFree
    <3>2. CASE f # e
      BY <3>2, <1>h, <1>t, HonestKept
    <3>3. QED
      BY <3>1, <3>2
  <2>3. AssignNext(status, es, active, e)
    BY <1>4 DEF BecomeAvailable
  <2> HIDE DEF es
  <2>4. QED
    BY <2>1, <2>2, <2>3, <1>t, <1>j, HonestAfterAssignNext
<1>5. ASSUME NEW e \in Employees, NEW s \in {"PAUSED", "OFFLINE"}, TakeBreak(e, s)
      PROVE  Honest
  <2>1. Requeue(ActiveOf(e)) /\ estatus' = [estatus EXCEPT ![e] = s]
    BY <1>5 DEF TakeBreak
  <2>2. CASE f = e
    BY <2>1, <2>2, <1>t DEF HonestOf, Requeue, ActiveOf
  <2>3. CASE f # e
    <3>1. ActiveOf(e) \in SUBSET active /\ \A a \in ActiveOf(e) : a.employee # f
      BY <2>3 DEF ActiveOf
    <3>2. estatus'[f] = estatus[f]
      BY <2>1, <2>3, <1>t
    <3>3. QED
      BY <2>1, <3>1, <3>2, <1>e
  <2>4. QED
    BY <2>2, <2>3
<1>6. ASSUME NEW e \in Employees, NEW t \in Tickets, CallFromList(e, t)
      PROVE  Honest
  <2>1. status[t] \notin ManagerInProgress
    BY <1>6 DEF CallFromList, ManagerMayChange, ManagerNextStatuses
  <2>2. ActiveOn(t) = {}
    BY <2>1, <1>j DEF ActiveOn
  <2> DEFINE given == [ticket |-> t, employee |-> e, desk |-> edesk[e]]
  <2>3. given.ticket = t /\ given.employee = e /\ active' = active \cup {given}
    BY <1>6, <2>2 DEF CallFromList
  <2> HIDE DEF given
  <2>4. status' = [status EXCEPT ![t] = "CALLED"] /\ estatus' = [estatus EXCEPT ![e] = "RESERVED"]
    BY <1>6 DEF CallFromList
  <2>5. CASE f = e
    BY <2>3, <2>4, <2>5, <1>t DEF HonestOf
  <2>6. CASE f # e
    <3>1. \A a \in active : status'[a.ticket] = status[a.ticket]
      BY <2>1, <2>4, <1>t, <1>a, <1>j
    <3>2. estatus'[f] = estatus[f]
      BY <2>4, <2>6, <1>t
    <3>3. QED
      BY <2>3, <2>6, <3>1, <3>2, <1>h, HonestKept
  <2>7. QED
    BY <2>5, <2>6
<1>7. ASSUME NEW e \in Employees, NEW t \in Tickets, CompleteFromList(e, t)
      PROVE  Honest
  <2> DEFINE closed == [status EXCEPT ![t] = "COMPLETED"]
             left   == active \ ActiveOn(t)
             free   == Freed(ActiveOn(t))
  <2>1. ActiveOn(t) # {}
    <3>1. status[t] \in ManagerInProgress
      BY <1>7 DEF CompleteFromList, ManagerMayChange, ManagerNextStatuses
    <3>2. QED
      BY <3>1, <1>j DEF Joined, ActiveOn
  <2>2. AssignNext(closed, free, left, e)
    BY <1>7, <2>1 DEF CompleteFromList
  <2>3. /\ closed \in [Tickets -> TicketStatus \cup {"ABSENT"}]
        /\ free \in [Employees -> EmployeeStatus]
        /\ left \in SUBSET Assignment
        /\ free[e] = "AVAILABLE"
    BY <1>7, <2>1, <1>t DEF TicketStatus, EmployeeStatus, Freed, CompleteFromList
  <2>4. closed[t] \notin ManagerInProgress /\ \A u \in Tickets : u # t => closed[u] = status[u]
    BY <1>t DEF ManagerInProgress
  <2>5. free[f] = IF \E a \in ActiveOn(t) : a.employee = f THEN "AVAILABLE" ELSE estatus[f]
    BY DEF Freed
  <2>6. \A u \in Tickets : (\A a \in ActiveOn(t) : a.ticket # u) /\ status[u] \in ManagerInProgress => u # t
    BY <1>j DEF Joined, ActiveOn
  <2>7. ActiveOn(t) \in SUBSET active
    BY DEF ActiveOn
  <2> HIDE DEF closed, free
  <2>8. HonestOf(f, free, closed, left)
    BY <2>4, <2>5, <2>6, <2>7, <1>h, <1>j, <1>t, HonestAfterEnd
  <2>9. Joined(closed, left)
    BY <2>4, <1>t, <1>j, OneTicketLeaves
  <2> HIDE DEF left
  <2>10. QED
    BY <2>2, <2>3, <2>8, <2>9, HonestAfterAssignNext
<1>8. ASSUME NEW a \in active, NEW action \in AssignmentActions, AssignmentAction(a, action)
      PROVE  Honest
  <2> DEFINE next == NextTicketStatus(status[a.ticket], action, TRUE)
             ends == action \in {"COMPLETE", "REQUEUE", "NO_SHOW"}
  <2>1. next # "null"
    BY <1>8 DEF AssignmentAction
  <2>2. /\ status' = [status EXCEPT ![a.ticket] = next]
        /\ active' = IF ends THEN active \ {a} ELSE active
        /\ estatus' = [estatus EXCEPT ![a.employee] =
                         IF action = "START" THEN "BUSY" ELSE IF ends THEN "AVAILABLE" ELSE @]
    BY <1>8 DEF AssignmentAction
  <2>3. \A u \in Tickets : u # a.ticket => status'[u] = status[u]
    BY <2>2, <1>t
  <2>4. CASE f # a.employee
    <3>1. estatus'[f] = estatus[f]
      BY <2>2, <2>4, <1>t
    <3>2. \A b \in active : b.employee = f => b \in active' /\ status'[b.ticket] = status[b.ticket]
      BY <2>2, <2>3, <2>4, <1>a, <1>j DEF Joined
    <3>3. active' \subseteq active
      BY <2>2
    <3>4. QED
      BY <3>1, <3>2, <3>3, <1>h, HonestKept
  <2>5. CASE f = a.employee /\ ends
    <3>1. action # "START" /\ estatus'[f] = "AVAILABLE"
      BY <2>2, <2>5, <1>t
    <3>2. QED
      BY <3>1, HonestFree
  <2>6. CASE f = a.employee /\ action = "START"
    <3>1. next = "IN_SERVICE"
      BY <2>1, <2>6 DEF NextTicketStatus, TransitionTo
    <3> HIDE DEF next
    <3>2. status'[a.ticket] = "IN_SERVICE" /\ estatus'[f] = "BUSY" /\ a \in active'
      BY <3>1, <2>2, <2>6, <1>a, <1>t
    <3>3. QED
      BY <2>6, <3>2 DEF HonestOf
  <2>7. CASE f = a.employee /\ action = "CALL"
    <3>1. status[a.ticket] = "ASSIGNED" /\ status'[a.ticket] = "CALLED"
      BY <2>1, <2>2, <2>7, <1>a, <1>t DEF NextTicketStatus, TransitionFrom, TransitionTo
    <3>2. estatus'[f] = estatus[f] /\ active' = active
      BY <2>2, <2>7, <1>t
    <3>3. estatus[f] # "BUSY"
      BY <2>7, <3>1, <1>h, <1>j DEF HonestOf, Joined
    <3>4. QED
      BY <2>7, <3>1, <3>2, <3>3, <1>h DEF HonestOf
  <2>8. QED
    BY <2>4, <2>5, <2>6, <2>7 DEF AssignmentActions
<1>9. ASSUME NEW t \in Tickets, MarkNoShow(t)
      PROVE  Honest
  BY <1>9, <1>0, <1>t DEF MarkNoShow, ManagerInProgress, employeeVars
<1>10. ASSUME NEW t \in Tickets, Reschedule(t)
       PROVE  Honest
  BY <1>10, <1>0 DEF Reschedule, employeeVars
<1>11. ASSUME NEW e \in Employees, NEW d \in Desks, AssignEmployeeDesk(e, d)
       PROVE  Honest
  <2>0. PICK others \in SUBSET OthersAt(d, e) :
          /\ Requeue(LostBy(others, e))
          /\ estatus'[f] = IF \E a \in LostBy(others, e) : a.employee = f
                           THEN "PAUSED" ELSE estatus[f]
    BY <1>11 DEF AssignEmployeeDesk
  <2> DEFINE lost == LostBy(others, e)
  <2>1. lost \in SUBSET active /\ Requeue(lost)
    BY <2>0 DEF LostBy
  <2>2. estatus'[f] = IF \E a \in lost : a.employee = f THEN "PAUSED" ELSE estatus[f]
    BY <2>0
  <2>3. (\E a \in lost : a.employee = f) => ActiveOf(f) \subseteq lost
    BY DEF LostBy, ActiveOf
  <2> HIDE DEF lost
  <2>4. QED
    BY <2>1, <2>2, <2>3, <1>e
<1>12. ASSUME NEW e \in Employees, LeaveDesk(e)
       PROVE  Honest
  <2>1. ActiveOf(e) \in SUBSET active /\ Requeue(ActiveOf(e))
    BY <1>12 DEF LeaveDesk, ActiveOf
  <2>2. estatus' = [estatus EXCEPT ![e] = IF ActiveOf(e) # {} THEN "PAUSED" ELSE @]
    BY <1>12 DEF LeaveDesk
  <2>3. (\E a \in ActiveOf(e) : a.employee = f) <=> f = e /\ ActiveOf(e) # {}
    BY DEF ActiveOf
  <2>4. QED
    BY <2>1, <2>2, <2>3, <1>e, <1>t
<1>13. ASSUME NEW e \in Rotating, NEW c \in Countries, UpdateEmployeeCountry(e, c)
       PROVE  Honest
  <2> DEFINE moves == edesk[e] # None /\ deskCountry[edesk[e]] # c
             lost  == IF moves THEN ActiveOf(e) ELSE {}
  <2>1. lost \in SUBSET active /\ Requeue(lost)
    BY <1>13 DEF UpdateEmployeeCountry, ActiveOf
  <2>2. estatus' = [estatus EXCEPT ![e] = IF lost # {} THEN "OFFLINE" ELSE @]
    BY <1>13 DEF UpdateEmployeeCountry
  <2>3. (\E a \in lost : a.employee = f) <=> f = e /\ lost # {}
    BY DEF ActiveOf
  <2>4. lost # {} => ActiveOf(e) \subseteq lost
    OBVIOUS
  <2> HIDE DEF lost
  <2>5. QED
    BY <2>1, <2>2, <2>3, <2>4, <1>e, <1>t
<1>14. ASSUME NEW d \in Desks, NEW c \in NewDeskCountries, CreateDesk(d, c)
       PROVE  Honest
  BY <1>14, <1>0 DEF CreateDesk, ticketVars, employeeVars
<1>15. ASSUME NEW d \in Desks, UpdateDesk(d)
       PROVE  Honest
  BY <1>15, <1>0 DEF UpdateDesk, ticketVars, employeeVars
<1>16. ASSUME NEW d \in Closable, DeleteDesk(d)
       PROVE  Honest
  BY <1>16, <1>0 DEF DeleteDesk, ticketVars
<1>17. ASSUME ExpireMissed
       PROVE  Honest
  <2> DEFINE lost == {a \in active : a.ticket \in Due}
  <2>1. /\ status' = [t \in Tickets |-> IF t \in Due THEN "NO_SHOW" ELSE status[t]]
        /\ active' = active \ lost
        /\ estatus' = Freed(lost)
    BY <1>17 DEF ExpireMissed
  <2>2. estatus'[f] = IF \E a \in lost : a.employee = f THEN "AVAILABLE" ELSE estatus[f]
    BY <2>1 DEF Freed
  <2>3. ASSUME NEW t \in Tickets, \A a \in lost : a.ticket # t, status[t] \in ManagerInProgress
        PROVE  status'[t] = status[t]
    <3>1. t \notin Due
      BY <2>3, <1>j DEF Due, Joined
    <3>2. QED
      BY <2>1, <3>1
  <2>4. lost \in SUBSET active
    OBVIOUS
  <2> HIDE DEF lost
  <2>5. QED
    BY <2>1, <2>2, <2>3, <2>4, <1>h, <1>j, <1>t, HonestAfterEnd
<1>18. ASSUME NEW a \in active, RecoverBreak(a)
       PROVE  Honest
  <2>1. Requeue({a}) /\ estatus' = estatus /\ estatus[a.employee] \in {"PAUSED", "OFFLINE"}
    BY <1>18 DEF RecoverBreak, Stale, employeeVars
  <2>2. f = a.employee => ActiveOf(f) \subseteq {a}
    BY <1>j DEF Joined, ActiveOf
  <2>3. QED
    BY <2>1, <2>2, <1>e
<1>19. ASSUME NEW a \in active, ExpireCall(a)
       PROVE  Honest
  <2>1. /\ active' = active \ {a}
        /\ estatus'[f] = IF \E b \in {a} : b.employee = f THEN "AVAILABLE" ELSE estatus[f]
        /\ \A t \in Tickets : t # a.ticket => status'[t] = status[t]
    BY <1>19, <1>t DEF ExpireCall
  <2>2. QED
    BY <2>1, <1>h, <1>j, <1>t, HonestAfterEnd
<1>20. ASSUME NEW e \in Employees, DispatchAvailable(e)
       PROVE  Honest
  BY <1>20, <1>h, <1>j, <1>t, HonestAfterAssignNext DEF DispatchAvailable
<1>21. ASSUME Restart
       PROVE  Honest
  <2>1. /\ estatus'[f] = IF f \in Integration THEN "PAUSED" ELSE estatus[f]
        /\ UNCHANGED <<status, active>>
    BY <1>21 DEF Restart, ticketVars
  <2>2. QED
    BY <2>1, <1>h DEF HonestOf
<1>22. ASSUME Tick
       PROVE  Honest
  BY <1>22, <1>0 DEF Tick, ticketVars, employeeVars
<1>23. CASE UNCHANGED vars
  BY <1>23, <1>0 DEF vars, ticketVars, employeeVars
<1>24. QED
  BY <1>1, <1>2, <1>3, <1>4, <1>5, <1>6, <1>7, <1>8, <1>9, <1>10, <1>11, <1>12, <1>13, <1>14,
     <1>15, <1>16, <1>17, <1>18, <1>19, <1>20, <1>21, <1>22, <1>23
  DEF Next, ClientNext, EmployeeNext, DeskNext, ServerNext

\* An employee is RESERVED or BUSY only with a client in that stage, and away
\* only without one: no break, takeover, timeout or sweep forgets the employee.
THEOREM HonestHolds == Spec => []EmployeeStatusHonest
<1>1. Init => EmployeeStatusHonest
  BY DEF Init, EmployeeStatusHonest, ActiveOf
<1>2. QED
  BY <1>1, StepHonest, SafeHolds, PTL DEF Spec

-----------------------------------------------------------------------------
(* The refinement of ServiceDesk.                                            *)

\* What one transaction may make of a status.
MayGo(from, to) ==
  \/ from = "ABSENT" /\ to = "BOOKED"
  \/ from \in {"BOOKED", "WAITING"} /\ to = "CHECKED_IN"
  \/ /\ from \in {"BOOKED", "WAITING", "CHECKED_IN", "REQUEUED"}
     /\ to \in {"ASSIGNED", "CALLED", "CANCELLED", "NO_SHOW"}
  \/ /\ from \in {"ASSIGNED", "CALLED"}
     /\ to \in {"CALLED", "IN_SERVICE", "REQUEUED", "COMPLETED", "CANCELLED", "NO_SHOW"}
  \/ from = "IN_SERVICE" /\ to = "COMPLETED"

\* No transaction moves a ticket in any other way.
LEMMA StatusMoves ==
  ASSUME TypeOK, [Next]_vars, NEW t \in Tickets
  PROVE  status'[t] = status[t] \/ MayGo(status[t], status'[t])
<1> DEFINE Moved == status'[t] = status[t] \/ MayGo(status[t], status'[t])
<1>t. status \in [Tickets -> TicketStatus \cup {"ABSENT"}] /\ active \in SUBSET Assignment
      /\ estatus \in [Employees -> EmployeeStatus]
  BY DEF TypeOK
<1>r. ASSUME NEW A, Requeue(A)
      PROVE  Moved
  BY <1>r, RequeueMoves DEF MayGo, LiveQueueStatuses
<1>1. ASSUME NEW u \in Tickets, CreateTicket(u) \/ CheckIn(u) \/ Cancel(u) \/ MarkNoShow(u)
      PROVE  Moved
  <2>1. CASE CreateTicket(u)
    <3>1. status[u] = "ABSENT" /\ status' = [status EXCEPT ![u] = "BOOKED"]
      BY <2>1 DEF CreateTicket
    <3>2. QED
      BY <3>1, <1>t DEF MayGo
  <2>2. CASE CheckIn(u)
    <3>1. status[u] = "BOOKED"
      BY <2>2 DEF CheckIn, CanCheckIn
    <3>2. PICK s \in {"CHECKED_IN", "ASSIGNED"} : status' = [status EXCEPT ![u] = s]
      BY <2>2 DEF CheckIn
    <3>3. MayGo(status[u], s)
      BY <3>1 DEF MayGo
    <3>4. QED
      BY <3>2, <3>3, <1>t
  <2>3. CASE Cancel(u)
    BY <2>3, <1>t DEF Cancel, CanCancel, MayGo, LiveQueueStatuses
  <2>4. CASE MarkNoShow(u)
    BY <2>4, <1>t DEF MarkNoShow, MayGo
  <2>5. QED
    BY <1>1, <2>1, <2>2, <2>3, <2>4
<1>2. ASSUME NEW e \in Employees, BecomeAvailable(e) \/ DispatchAvailable(e)
      PROVE  Moved
  <2>1. [estatus EXCEPT ![e] = "AVAILABLE"] \in [Employees -> EmployeeStatus]
    BY <1>t DEF EmployeeStatus
  <2>2. \/ status'[t] = status[t]
        \/ status[t] \in LiveQueueStatuses /\ status'[t] = "ASSIGNED"
    <3>1. CASE BecomeAvailable(e)
      <4>1. AssignNext(status, [estatus EXCEPT ![e] = "AVAILABLE"], active, e)
        BY <3>1 DEF BecomeAvailable
      <4>2. QED
        BY <4>1, <2>1, <1>t, AssignNextType
    <3>2. CASE DispatchAvailable(e)
      <4>1. AssignNext(status, estatus, active, e)
        BY <3>2 DEF DispatchAvailable
      <4>2. QED
        BY <4>1, <1>t, AssignNextType
    <3>3. QED
      BY <1>2, <3>1, <3>2
  <2>3. QED
    BY <2>2 DEF MayGo, LiveQueueStatuses
<1>3. ASSUME NEW e \in Employees, NEW u \in Tickets, CallFromList(e, u)
      PROVE  Moved
  <2>1. /\ status[u] \in {"BOOKED", "WAITING", "CHECKED_IN", "REQUEUED"}
        /\ status' = [status EXCEPT ![u] = "CALLED"]
    BY <1>3, <1>t DEF CallFromList, ManagerMayChange, ManagerNextStatuses, TicketStatus,
                      Terminal, ManagerInProgress
  <2>2. QED
    BY <2>1, <1>t DEF MayGo, LiveQueueStatuses
<1>4. ASSUME NEW e \in Employees, NEW u \in Tickets, CompleteFromList(e, u)
      PROVE  Moved
  <2> DEFINE closed == [status EXCEPT ![u] = "COMPLETED"]
             left   == active \ ActiveOn(u)
             free   == Freed(ActiveOn(u))
  <2>1. status[u] \in ManagerInProgress
    BY <1>4 DEF CompleteFromList, ManagerMayChange, ManagerNextStatuses
  <2>2. closed[t] = status[t] \/ MayGo(status[t], closed[t])
    BY <2>1, <1>t DEF MayGo, LiveQueueStatuses, ManagerInProgress
  <2>3. /\ closed \in [Tickets -> TicketStatus \cup {"ABSENT"}]
        /\ left \in SUBSET Assignment
        /\ free \in [Employees -> EmployeeStatus]
    BY <1>t DEF TypeOK, Freed, TicketStatus, EmployeeStatus
  <2>4. AssignNext(closed, free, left, e) \/ status' = closed
    BY <1>4 DEF CompleteFromList
  <2>5. closed[t] \in LiveQueueStatuses => closed[t] = status[t]
    BY <1>t DEF LiveQueueStatuses
  <2> HIDE DEF closed, left, free
  <2>6. \/ status'[t] = closed[t]
        \/ closed[t] \in LiveQueueStatuses /\ status'[t] = "ASSIGNED"
    <3>1. CASE AssignNext(closed, free, left, e)
      BY <2>3, <3>1, AssignNextType
    <3>2. QED
      BY <2>4, <3>1
  <2>7. QED
    BY <2>2, <2>5, <2>6 DEF MayGo, LiveQueueStatuses
<1>5. ASSUME NEW a \in active, NEW action \in AssignmentActions, AssignmentAction(a, action)
      PROVE  Moved
  <2> DEFINE next == NextTicketStatus(status[a.ticket], action, TRUE)
  <2>1. next # "null" /\ status' = [status EXCEPT ![a.ticket] = next]
    BY <1>5 DEF AssignmentAction
  <2>2. MayGo(status[a.ticket], next)
    BY <2>1 DEF NextTicketStatus, TransitionFrom, TransitionTo, AssignmentActions, MayGo,
                LiveQueueStatuses
  <2> HIDE DEF next
  <2>3. QED
    BY <2>1, <2>2, <1>t
<1>6. ASSUME ExpireMissed
      PROVE  Moved
  BY <1>6 DEF ExpireMissed, Due, AutoNoShowStatuses, MayGo, LiveQueueStatuses
<1>7. ASSUME NEW a \in active, ExpireCall(a)
      PROVE  Moved
  BY <1>7, <1>t DEF ExpireCall, MayGo, LiveQueueStatuses
<1>8. CASE ClientNext
  BY <1>1, <1>8 DEF ClientNext
<1>9. CASE EmployeeNext
  BY <1>1, <1>2, <1>3, <1>4, <1>5, <1>9, <1>r DEF EmployeeNext, TakeBreak, Reschedule
<1>10. CASE DeskNext
  BY <1>10, <1>r DEF DeskNext, AssignEmployeeDesk, LeaveDesk, UpdateEmployeeCountry,
                     CreateDesk, UpdateDesk, DeleteDesk, ticketVars
<1>11. CASE ServerNext
  BY <1>2, <1>6, <1>7, <1>11, <1>r DEF ServerNext, RecoverBreak, Restart, Tick, ticketVars
<1>12. CASE UNCHANGED vars
  BY <1>12 DEF vars, ticketVars
<1>13. QED
  BY <1>8, <1>9, <1>10, <1>11, <1>12 DEF Next

\* An assignment ends only together with the stage of its ticket: no
\* transaction passes a client from one employee to another.
LEMMA HandsStay ==
  ASSUME Safe, [Next]_vars, NEW a \in active, a \notin active'
  PROVE  status'[a.ticket] \notin ManagerInProgress
<1> DEFINE Gone == status'[a.ticket] \notin ManagerInProgress
<1>t. /\ status \in [Tickets -> TicketStatus \cup {"ABSENT"}]
      /\ active \in SUBSET Assignment
      /\ a.ticket \in Tickets
  BY DEF Safe, TypeOK, Assignment
<1>j. Joined(status, active) /\ status[a.ticket] \in ManagerInProgress
  BY <1>t DEF Safe, Joined
<1>r. ASSUME NEW A \in SUBSET active, Requeue(A), ~InService(A)
      PROVE  Gone
  <2>1. a \in A /\ status[a.ticket] \in {"ASSIGNED", "CALLED"}
    BY <1>r, <1>j DEF Requeue, InService, BlocksBreak, ManagerInProgress
  <2>2. QED
    BY <1>r, <2>1, <1>t DEF Requeue, CanReleaseOnBreak, ManagerInProgress
<1>n. ASSUME NEW st, NEW es, NEW assignments, NEW e, AssignNext(st, es, assignments, e),
             a \in assignments
      PROVE  FALSE
  BY <1>n DEF AssignNext
<1>1. ASSUME NEW t \in Tickets, Cancel(t)
      PROVE  Gone
  BY <1>1, <1>t DEF Cancel, ActiveOn, ManagerInProgress
<1>2. ASSUME NEW e \in Employees, NEW t \in Tickets, CompleteFromList(e, t)
      PROVE  Gone
  <2> DEFINE closed == [status EXCEPT ![t] = "COMPLETED"]
             left   == active \ ActiveOn(t)
             free   == Freed(ActiveOn(t))
  <2>1. ActiveOn(t) # {} /\ AssignNext(closed, free, left, e)
    <3>1. status[t] \in ManagerInProgress
      BY <1>2 DEF CompleteFromList, ManagerMayChange, ManagerNextStatuses
    <3>2. ActiveOn(t) # {}
      BY <3>1, <1>j DEF Joined, ActiveOn
    <3>3. QED
      BY <1>2, <3>2 DEF CompleteFromList
  <2>2. a.ticket = t
    BY <2>1, <1>n DEF ActiveOn
  <2>3. /\ closed \in [Tickets -> TicketStatus \cup {"ABSENT"}]
        /\ left \in SUBSET Assignment
        /\ free \in [Employees -> EmployeeStatus]
        /\ closed[t] = "COMPLETED"
    BY <1>t DEF Safe, TypeOK, Freed, TicketStatus, EmployeeStatus
  <2> HIDE DEF closed, left, free
  <2>4. status'[t] = "COMPLETED"
    BY <2>1, <2>3, AssignNextType DEF LiveQueueStatuses, Safe
  <2>5. QED
    BY <2>2, <2>4 DEF ManagerInProgress
<1>3. ASSUME NEW b \in active, NEW action \in AssignmentActions, AssignmentAction(b, action)
      PROVE  Gone
  <2> DEFINE next == NextTicketStatus(status[b.ticket], action, TRUE)
  <2>1. b = a /\ action \in {"COMPLETE", "REQUEUE", "NO_SHOW"} /\ status' = [status EXCEPT ![b.ticket] = next]
    BY <1>3 DEF AssignmentAction
  <2>2. next \in {"COMPLETED", "REQUEUED", "NO_SHOW"}
    BY <1>3, <2>1, NextStatusByAction DEF AssignmentAction
  <2> HIDE DEF next
  <2>3. QED
    BY <2>1, <2>2, <1>t DEF ManagerInProgress
<1>4. ASSUME ExpireMissed
      PROVE  Gone
  BY <1>4, <1>t DEF ExpireMissed, Due, ManagerInProgress
<1>5. ASSUME NEW b \in active, ExpireCall(b)
      PROVE  Gone
  BY <1>5, <1>t DEF ExpireCall, ManagerInProgress
<1>6. ASSUME NEW b \in active, RecoverBreak(b)
      PROVE  Gone
  <2>1. ~InService({b})
    BY <1>6 DEF RecoverBreak, Stale, InService, BlocksBreak
  <2>2. QED
    BY <1>6, <2>1, <1>r DEF RecoverBreak
<1>7. CASE ClientNext
  BY <1>1, <1>7 DEF ClientNext, CreateTicket, CheckIn
<1>8. CASE EmployeeNext
  <2>1. ASSUME NEW e \in Employees, BecomeAvailable(e)
        PROVE  Gone
    BY <2>1, <1>n DEF BecomeAvailable
  <2>2. ASSUME NEW e \in Employees, NEW s \in {"PAUSED", "OFFLINE"}, TakeBreak(e, s)
        PROVE  Gone
    <3>1. ActiveOf(e) \in SUBSET active
      BY DEF ActiveOf
    <3>2. QED
      BY <2>2, <3>1, <1>r DEF TakeBreak
  <2>3. QED
    BY <1>2, <1>3, <1>8, <2>1, <2>2
    DEF EmployeeNext, CallFromList, MarkNoShow, Reschedule, employeeVars
<1>9. CASE DeskNext
  <2>1. ASSUME NEW e \in Employees, NEW d \in Desks, AssignEmployeeDesk(e, d)
        PROVE  Gone
    <3>1. \E A \in SUBSET active : Requeue(A) /\ ~InService(A)
      BY <2>1 DEF AssignEmployeeDesk, LostBy
    <3>2. QED
      BY <3>1, <1>r
  <2>2. ASSUME NEW e \in Employees, LeaveDesk(e)
        PROVE  Gone
    <3>1. ActiveOf(e) \in SUBSET active
      BY DEF ActiveOf
    <3>2. QED
      BY <2>2, <3>1, <1>r DEF LeaveDesk
  <2>3. ASSUME NEW e \in Rotating, NEW c \in Countries, UpdateEmployeeCountry(e, c)
        PROVE  Gone
    <3>1. \E A \in SUBSET active : Requeue(A) /\ ~InService(A)
      BY <2>3 DEF UpdateEmployeeCountry, ActiveOf
    <3>2. QED
      BY <3>1, <1>r
  <2>4. QED
    BY <1>9, <2>1, <2>2, <2>3 DEF DeskNext, CreateDesk, UpdateDesk, DeleteDesk
<1>10. CASE ServerNext
  <2>1. ASSUME NEW e \in Employees, DispatchAvailable(e)
        PROVE  Gone
    BY <2>1, <1>n DEF DispatchAvailable
  <2>2. QED
    BY <1>4, <1>5, <1>6, <1>10, <2>1 DEF ServerNext, Restart, Tick
<1>11. CASE UNCHANGED vars
  BY <1>11 DEF vars
<1>12. QED
  BY <1>7, <1>8, <1>9, <1>10, <1>11 DEF Next

\* server names the employee of the one assignment of a ticket.
ServerNamed ==
  /\ server \in [Tickets -> Employees \cup {None}]
  /\ \A a \in active : server[a.ticket] = a.employee
  /\ \A t \in Tickets : ActiveOn(t) = {} => server[t] = None

\* The one who serves a client is the employee of the active assignment.
LEMMA ServerIs == Safe => ServerNamed
<1> SUFFICES ASSUME Safe
             PROVE  ServerNamed
  OBVIOUS
<1>t. active \in SUBSET Assignment /\ \A a \in active : a.ticket \in Tickets /\ a.employee \in Employees
  BY DEF Safe, TypeOK, Assignment
<1>1. ASSUME NEW a \in active
      PROVE  server[a.ticket] = a.employee
  <2>1. \A b \in active : b.ticket = a.ticket => b = a
    BY DEF Safe, Joined
  <2>2. ActiveOn(a.ticket) = {a}
    BY <2>1 DEF ActiveOn
  <2>3. (CHOOSE b \in ActiveOn(a.ticket) : TRUE) = a
    BY <2>2
  <2>4. QED
    BY <2>2, <2>3, <1>t DEF server
<1>2. ASSUME NEW t \in Tickets, ActiveOn(t) = {}
      PROVE  server[t] = None
  BY <1>2 DEF server
<1>3. ASSUME NEW t \in Tickets
      PROVE  server[t] \in Employees \cup {None}
  <2>1. CASE ActiveOn(t) = {}
    BY <2>1, <1>2
  <2>2. CASE ActiveOn(t) # {}
    <3>1. PICK a \in active : a.ticket = t
      BY <2>2 DEF ActiveOn
    <3>2. QED
      BY <3>1, <1>1, <1>t
  <2>3. QED
    BY <2>1, <2>2
<1>4. server = [t \in Tickets |-> server[t]]
  BY DEF server
<1>5. server \in [Tickets -> Employees \cup {None}]
  BY <1>3, <1>4
<1>6. QED
  BY <1>1, <1>2, <1>5 DEF ServerNamed

\* The stages are those of ServiceDesk, and a transaction follows its arrows.
LEMMA StagesFollow ==
  ASSUME NEW from \in TicketStatus \cup {"ABSENT"}, NEW to \in TicketStatus \cup {"ABSENT"},
         from = to \/ MayGo(from, to)
  PROVE  StageOf(to) = StageOf(from) \/ StageOf(to) \in Abstract!Following[StageOf(from)]
<1>1. CASE from = to
  BY <1>1
<1>2. CASE from = "ABSENT" /\ to = "BOOKED"
  <2>1. StageOf(from) = "unknown" /\ StageOf(to) = "expected"
    BY <1>2 DEF StageOf, LiveQueueStatuses
  <2>2. QED
    BY <2>1 DEF Abstract!Following
<1>3. CASE from \in {"BOOKED", "WAITING"} /\ to = "CHECKED_IN"
  BY <1>3 DEF StageOf, Abstract!Following, LiveQueueStatuses
<1>4. CASE /\ from \in {"BOOKED", "WAITING", "CHECKED_IN", "REQUEUED"}
           /\ to \in {"ASSIGNED", "CALLED", "CANCELLED", "NO_SHOW"}
  <2>1. StageOf(from) \in {"expected", "waiting"} /\ StageOf(to) \in {"held", "over"}
    BY <1>4 DEF StageOf, LiveQueueStatuses
  <2>2. QED
    BY <2>1 DEF Abstract!Following
<1>5. CASE /\ from \in {"ASSIGNED", "CALLED"}
           /\ to \in {"CALLED", "IN_SERVICE", "REQUEUED", "COMPLETED", "CANCELLED", "NO_SHOW"}
  <2>1. StageOf(from) = "held" /\ StageOf(to) \in {"held", "waiting", "served", "over"}
    BY <1>5 DEF StageOf, LiveQueueStatuses
  <2>2. QED
    BY <2>1 DEF Abstract!Following
<1>6. CASE from = "IN_SERVICE" /\ to = "COMPLETED"
  BY <1>6 DEF StageOf, Abstract!Following, LiveQueueStatuses
<1>7. QED
  BY <1>1, <1>2, <1>3, <1>4, <1>5, <1>6 DEF MayGo

\* A visit is in hand exactly in the statuses a manager has in progress.
LEMMA InHand ==
  ASSUME NEW s \in TicketStatus \cup {"ABSENT"}
  PROVE  /\ StageOf(s) \in Abstract!Stage
         /\ StageOf(s) \in {"held", "served"} <=> s \in ManagerInProgress
         /\ StageOf(s) = "served" <=> s = "IN_SERVICE"
  BY DEF StageOf, Abstract!Stage, LiveQueueStatuses, ManagerInProgress, TicketStatus

\* Exclusive of ServiceDesk is what the joint invariant says.
LEMMA SafeIsExclusive == Safe => Abstract!Exclusive(stage, server)
<1> SUFFICES ASSUME Safe
             PROVE  Abstract!Exclusive(stage, server)
  OBVIOUS
<1>t. /\ active \in SUBSET Assignment
      /\ \A a \in active : a.ticket \in Tickets /\ a.employee \in Employees
      /\ status \in [Tickets -> TicketStatus \cup {"ABSENT"}]
  BY DEF Safe, TypeOK, Assignment
<1>1. ASSUME NEW t \in Tickets
      PROVE  server[t] # None <=> stage[t] \in {"held", "served"}
  <2>1. stage[t] \in {"held", "served"} <=> \E a \in active : a.ticket = t
    BY <1>t, InHand DEF stage, Safe, Joined
  <2>2. (\E a \in active : a.ticket = t) <=> ActiveOn(t) # {}
    BY DEF ActiveOn
  <2>3. QED
    BY <2>1, <2>2, <1>t, ServerIs, ConstantsAssumption DEF ServerNamed
<1>2. ASSUME NEW t \in Tickets, NEW u \in Tickets, server[t] = server[u], server[t] # None
      PROVE  t = u
  <2>1. PICK a \in active : a.ticket = t
    BY <1>2, ServerIs DEF ActiveOn, ServerNamed
  <2>2. PICK b \in active : b.ticket = u
    BY <1>2, ServerIs DEF ActiveOn, ServerNamed
  <2>3. a.employee = b.employee
    BY <2>1, <2>2, <1>2, ServerIs DEF ServerNamed
  <2>4. QED
    BY <2>1, <2>2, <2>3 DEF Safe, Joined
<1>3. QED
  BY <1>1, <1>2 DEF Abstract!Exclusive

\* Every transaction is a step of ServiceDesk, or leaves every visit alone.
LEMMA StepMoves ==
  ASSUME Safe, Safe', [Next]_vars
  PROVE  Abstract!Next
<1>t. /\ status \in [Tickets -> TicketStatus \cup {"ABSENT"}]
      /\ status' \in [Tickets -> TicketStatus \cup {"ABSENT"}]
      /\ active' \in SUBSET Assignment /\ active \in SUBSET Assignment
      /\ TypeOK
  BY DEF Safe, TypeOK
<1>s. \A t \in Tickets : stage[t] = StageOf(status[t]) /\ stage'[t] = StageOf(status'[t])
  BY DEF stage
<1>n. ServerNamed /\ ServerNamed'
  BY ServerIs, PTL
<1>1. stage' \in [Tickets -> Abstract!Stage]
  BY <1>t, InHand DEF stage
<1>2. server' \in [Tickets -> Employees \cup {None}]
  BY <1>n DEF ServerNamed
<1>3. Abstract!Exclusive(stage, server)' /\ Abstract!Exclusive(stage, server)
  BY SafeIsExclusive, PTL
<1>4. ASSUME NEW t \in Tickets, status'[t] \in ManagerInProgress, status[t] \in ManagerInProgress
      PROVE  server'[t] = server[t]
  <2>1. PICK a \in active : a.ticket = t
    BY <1>4 DEF Safe, Joined
  <2>2. a \in active'
    BY <2>1, <1>4, HandsStay
  <2>3. server[t] = a.employee
    BY <2>1, <1>n DEF ServerNamed
  <2>4. \A b \in active' : server'[b.ticket] = b.employee
    BY <1>n DEF ServerNamed
  <2>5. QED
    BY <2>1, <2>2, <2>3, <2>4
<1>5. ASSUME NEW t \in Tickets
      PROVE  Abstract!Moves(t)
  <2> DEFINE same == stage'[t] = stage[t]
  <2>1. status'[t] = status[t] \/ MayGo(status[t], status'[t])
    BY <1>t, StatusMoves
  <2>2. stage'[t] = stage[t] \/ stage'[t] \in Abstract!Following[stage[t]]
    BY <2>1, <1>s, <1>t, StagesFollow
  <2>3. ASSUME stage'[t] = stage[t]
        PROVE  server'[t] = server[t]
    <3>1. CASE stage[t] \in {"held", "served"}
      <4>1. status[t] \in ManagerInProgress /\ status'[t] \in ManagerInProgress
        BY <2>3, <3>1, <1>s, <1>t, InHand
      <4>2. QED
        BY <4>1, <1>4
    <3>2. CASE stage[t] \notin {"held", "served"}
      BY <2>3, <3>2, <1>3 DEF Abstract!Exclusive
    <3>3. QED
      BY <3>1, <3>2
  <2>4. ASSUME stage'[t] = "served"
        PROVE  server'[t] = server[t]
    <3>1. status'[t] = "IN_SERVICE"
      BY <2>4, <1>s, <1>t, InHand
    <3>2. status[t] \in ManagerInProgress /\ status'[t] \in ManagerInProgress
      BY <3>1, <2>1 DEF MayGo, ManagerInProgress
    <3>3. QED
      BY <3>2, <1>4
  <2>5. QED
    BY <2>2, <2>3, <2>4 DEF Abstract!Moves
<1>6. QED
  BY <1>1, <1>2, <1>3, <1>5 DEF Abstract!Next, Abstract!Exclusive

\* The queue implements ServiceDesk: a visit goes only along its arrows, one
\* employee has it at a time, and a service once begun is finished by the
\* employee who began it, for any number of clients, employees and desks.
THEOREM QueueImplements == Spec => ImplementsServiceDesk
<1>1. Init => Abstract!Init
  <2> SUFFICES ASSUME Init
               PROVE  Abstract!Init
    OBVIOUS
  <2>1. stage = [t \in Tickets |-> StageOf("ABSENT")]
    BY DEF Init, stage
  <2>2. StageOf("ABSENT") = "unknown"
    BY DEF StageOf, LiveQueueStatuses
  <2>3. \A t \in Tickets : ActiveOn(t) = {}
    BY DEF Init, ActiveOn
  <2>4. server = [t \in Tickets |-> None]
    BY <2>3 DEF server
  <2>5. QED
    BY <2>1, <2>2, <2>4 DEF Abstract!Init
<1>2. Safe /\ Safe' /\ [Next]_vars => [Abstract!Next]_(Abstract!vars)
  BY StepMoves
<1>3. QED
  BY <1>1, <1>2, SafeHolds, PTL DEF Spec, ImplementsServiceDesk, Abstract!Spec

-----------------------------------------------------------------------------
(* Desks and times.  Nothing in the code keeps an administrator from giving  *)
(* a desk another direction while it has bookings; what is proved is that    *)
(* this is the only way two bookings come to share a desk.                   *)

Open(s) == s \notin Terminal \cup {"ABSENT"}

\* updateDesk gives no desk another direction while an open booking is for it.
BookedDeskKeeps(t) ==
  Open(status[t]) => deskCountry'[reservedDesk[t]] = deskCountry[reservedDesk[t]]

BookedDesksKeep == [][\A t \in Tickets : BookedDeskKeeps(t)]_vars

\* The inductive invariant: a booking has a desk, which exists whatever became
\* of the booking, and which is of its direction as long as the booking is open.
Placed ==
  /\ \A t \in Tickets : status[t] = "ABSENT" => reservedDesk[t] = None
  /\ \A t \in Tickets : status[t] # "ABSENT" => deskState[reservedDesk[t]] # "absent"
  /\ \A t \in Tickets : Open(status[t]) => deskCountry[reservedDesk[t]] = CountryOf[t]
  /\ NoDoubleBooking

\* Open bookings are exactly those that FreeDesks counts, and a booking that
\* was closed is not open again.
LEMMA OpenStatuses ==
  ASSUME TypeOK, [Next]_vars, NEW t \in Tickets
  PROVE  /\ Open(status[t]) <=> status[t] \in SlotHoldingStatuses
         /\ status[t] # "ABSENT" => status'[t] # "ABSENT"
         /\ Open(status'[t]) => status[t] = "ABSENT" \/ Open(status[t])
<1>1. status[t] \in TicketStatus \cup {"ABSENT"}
  BY DEF TypeOK
<1>2. Open(status[t]) <=> status[t] \in SlotHoldingStatuses
  BY <1>1 DEF Open, SlotHoldingStatuses, TicketStatus, Terminal
<1>3. status'[t] = status[t] \/ MayGo(status[t], status'[t])
  BY StatusMoves
<1>4. status[t] # "ABSENT" => status'[t] # "ABSENT"
  BY <1>3 DEF MayGo
<1>5. status[t] \in Terminal => status'[t] = status[t]
  BY <1>3 DEF MayGo, Terminal
<1>6. QED
  BY <1>2, <1>4, <1>5 DEF Open

\* The times and desks of bookings are written by createTicket and
\* rescheduleTicket only.
BookingKept == UNCHANGED <<scheduledAt, reservedDesk>>

\* Only a booking and its move change where and when a ticket is booked.
LEMMA BookingSteps ==
  ASSUME [Next]_vars,
         \A t \in Tickets : ~CreateTicket(t) /\ ~Reschedule(t)
  PROVE  BookingKept
<1>1. CASE ClientNext
  BY <1>1 DEF ClientNext, CheckIn, Cancel, BookingKept
<1>2. CASE EmployeeNext
  BY <1>2 DEF EmployeeNext, BecomeAvailable, TakeBreak, CallFromList, CompleteFromList,
              AssignmentAction, MarkNoShow, BookingKept
<1>3. CASE DeskNext
  BY <1>3 DEF DeskNext, AssignEmployeeDesk, LeaveDesk, UpdateEmployeeCountry, CreateDesk,
              UpdateDesk, DeleteDesk, ticketVars, BookingKept
<1>4. CASE ServerNext
  BY <1>4 DEF ServerNext, ExpireMissed, RecoverBreak, ExpireCall, DispatchAvailable, Restart,
              Tick, ticketVars, BookingKept
<1>5. CASE UNCHANGED vars
  BY <1>5 DEF vars, ticketVars, BookingKept
<1>6. QED
  BY <1>1, <1>2, <1>3, <1>4, <1>5 DEF Next

\* Desks come to exist and cease to exist, and change their direction, only by
\* what an administrator does.
DesksKept == UNCHANGED <<deskState, deskCountry>>

\* Only the administration of the desks changes the desks.
LEMMA DeskSteps ==
  ASSUME [Next]_vars,
         \A d \in Desks :
           /\ \A c \in NewDeskCountries : ~CreateDesk(d, c)
           /\ ~UpdateDesk(d)
           /\ d \in Closable => ~DeleteDesk(d)
  PROVE  DesksKept
<1>1. CASE ClientNext
  BY <1>1 DEF ClientNext, CreateTicket, CheckIn, Cancel, deskVars, DesksKept
<1>2. CASE EmployeeNext
  BY <1>2 DEF EmployeeNext, BecomeAvailable, TakeBreak, CallFromList, CompleteFromList,
              AssignmentAction, MarkNoShow, Reschedule, deskVars, DesksKept
<1>3. CASE DeskNext
  <2>1. \A e \in Employees : (\E d \in Desks : AssignEmployeeDesk(e, d)) \/ LeaveDesk(e) => DesksKept
    BY DEF AssignEmployeeDesk, LeaveDesk, deskVars, DesksKept
  <2>2. \A e \in Rotating, c \in Countries : UpdateEmployeeCountry(e, c) => DesksKept
    BY DEF UpdateEmployeeCountry, deskVars, DesksKept
  <2>3. \A d \in Closable : d \in Desks
    BY ConstantsAssumption
  <2>4. QED
    BY <1>3, <2>1, <2>2, <2>3 DEF DeskNext
<1>4. CASE ServerNext
  BY <1>4 DEF ServerNext, ExpireMissed, RecoverBreak, ExpireCall, DispatchAvailable, Restart,
              Tick, deskVars, DesksKept
<1>5. CASE UNCHANGED vars
  BY <1>5 DEF vars, deskVars, DesksKept
<1>6. QED
  BY <1>1, <1>2, <1>3, <1>4, <1>5 DEF Next

\* A booking written by createTicket or rescheduleTicket shares its desk with
\* none that is open.
LEMMA PlacedAfterBooking ==
  ASSUME TypeOK, Placed,
         NEW t \in Tickets, NEW s \in Nat, NEW d \in FreeDesks(t, s),
         scheduledAt'  = [scheduledAt EXCEPT ![t] = s],
         reservedDesk' = [reservedDesk EXCEPT ![t] = d],
         \A u \in Tickets \ {t} : status'[u] = status[u],
         status'[t] # "ABSENT", DesksKept,
         \A u \in Tickets : Open(status[u]) <=> status[u] \in SlotHoldingStatuses
  PROVE  Placed'
<1>t. /\ scheduledAt \in [Tickets -> Nat] /\ reservedDesk \in [Tickets -> Desks \cup {None}]
      /\ CountryOf \in [Tickets -> Countries] /\ Duration \in [Countries -> Nat \ {0}]
  BY ConstantsAssumption DEF TypeOK
<1>d. deskState[d] # "absent" /\ deskCountry[d] = CountryOf[t]
  BY DEF FreeDesks
<1>1. \A u \in Tickets \ {t} :
        scheduledAt'[u] = scheduledAt[u] /\ reservedDesk'[u] = reservedDesk[u]
  BY <1>t
<1>2. scheduledAt'[t] = s /\ reservedDesk'[t] = d
  BY <1>t
<1>0. ASSUME NEW u \in Tickets, status'[u] = "ABSENT"
      PROVE  reservedDesk'[u] = None
  BY <1>0, <1>1 DEF Placed
<1>3. ASSUME NEW u \in Tickets, status'[u] # "ABSENT"
      PROVE  deskState'[reservedDesk'[u]] # "absent"
  BY <1>3, <1>1, <1>2, <1>d DEF Placed, DesksKept
<1>4. ASSUME NEW u \in Tickets, Open(status'[u])
      PROVE  deskCountry'[reservedDesk'[u]] = CountryOf[u]
  BY <1>4, <1>1, <1>2, <1>d DEF Placed, DesksKept
<1>5. ASSUME NEW u \in Tickets \ {t}, Open(status[u]), reservedDesk[u] = d
      PROVE  ~Overlap(s, Duration[CountryOf[t]], scheduledAt[u], Duration[CountryOf[u]])
  <2>1. CountryOf[u] = CountryOf[t]
    BY <1>5, <1>d DEF Placed
  <2>2. QED
    BY <1>5, <2>1 DEF FreeDesks
<1>6. NoDoubleBooking'
  <2> SUFFICES ASSUME NEW u \in Tickets, NEW v \in Tickets, u # v,
                      Open(status'[u]), Open(status'[v]), reservedDesk'[u] = reservedDesk'[v]
               PROVE  ~Overlap(scheduledAt'[u], Duration[CountryOf[u]],
                               scheduledAt'[v], Duration[CountryOf[v]])
    BY DEF NoDoubleBooking, Open
  <2>1. CASE u = t
    BY <2>1, <1>1, <1>2, <1>5
  <2>2. CASE v = t
    BY <2>2, <1>1, <1>2, <1>5 DEF Overlap
  <2>3. CASE u # t /\ v # t
    BY <2>3, <1>1 DEF Placed, NoDoubleBooking, Open
  <2>4. QED
    BY <2>1, <2>2, <2>3
<1>7. QED
  BY <1>0, <1>3, <1>4, <1>6 DEF Placed

\* Every step keeps open bookings at desks of their direction.
LEMMA StepPlaced ==
  ASSUME TypeOK, TypeOK', Placed, [Next]_vars, [\A t \in Tickets : BookedDeskKeeps(t)]_vars
  PROVE  Placed'
<1>o. \A t \in Tickets :
        /\ Open(status[t]) <=> status[t] \in SlotHoldingStatuses
        /\ status[t] # "ABSENT" => status'[t] # "ABSENT"
        /\ Open(status'[t]) => status[t] = "ABSENT" \/ Open(status[t])
  BY OpenStatuses
<1>1. ASSUME NEW t \in Tickets, CreateTicket(t) \/ Reschedule(t)
      PROVE  Placed'
  <2>1. /\ DesksKept
        /\ status'[t] # "ABSENT"
        /\ \A u \in Tickets \ {t} : status'[u] = status[u]
    BY <1>1 DEF CreateTicket, Reschedule, deskVars, DesksKept, TypeOK
  <2>2. PICK s \in Nat : \E d \in FreeDesks(t, s) :
          /\ scheduledAt'  = [scheduledAt EXCEPT ![t] = s]
          /\ reservedDesk' = [reservedDesk EXCEPT ![t] = d]
    BY <1>1, ConstantsAssumption DEF CreateTicket, Reschedule
  <2>3. QED
    BY <2>1, <2>2, <1>o, PlacedAfterBooking
<1>2. ASSUME \A t \in Tickets : ~CreateTicket(t) /\ ~Reschedule(t)
      PROVE  Placed'
  <2>k. BookingKept
    BY <1>2, BookingSteps
  <2>1. ASSUME NEW t \in Tickets, status[t] = "ABSENT"
        PROVE  status'[t] = "ABSENT"
    BY <2>1, <2>k DEF TypeOK, Placed, BookingKept
  <2>2. \A t \in Tickets : Open(status'[t]) => Open(status[t])
    BY <2>1, <1>o DEF Open
  <2>3. NoDoubleBooking'
    BY <2>2, <2>k DEF Placed, NoDoubleBooking, BookingKept, Open
  <2>4. \A t \in Tickets : status'[t] = "ABSENT" => reservedDesk'[t] = None
    BY <2>k, <1>o DEF Placed, BookingKept
  <2>5. ASSUME NEW t \in Tickets, status[t] # "ABSENT"
        PROVE  /\ reservedDesk[t] \in Desks
               /\ deskState'[reservedDesk[t]] # "absent"
               /\ Open(status[t]) => deskCountry'[reservedDesk[t]] = CountryOf[t]
    <3> DEFINE d == reservedDesk[t]
    <3>1. /\ d \in Desks
          /\ deskState[d] # "absent"
          /\ Open(status[t]) => deskCountry[d] = CountryOf[t]
      BY <2>5 DEF TypeOK, Placed
    <3>2. Open(status[t]) => deskCountry'[d] = deskCountry[d]
      BY DEF BookedDeskKeeps, vars, deskVars
    <3>3. deskState \in [Desks -> {"absent", "active", "inactive"}]
      BY DEF TypeOK
    <3>4. ASSUME NEW b \in Desks, NEW c \in NewDeskCountries, CreateDesk(b, c)
          PROVE  deskState'[d] = deskState[d]
      BY <3>1, <3>3, <3>4 DEF CreateDesk
    <3>5. ASSUME NEW b \in Desks, UpdateDesk(b)
          PROVE  deskState'[d] # "absent"
      BY <3>1, <3>3, <3>5 DEF UpdateDesk
    <3>6. ASSUME NEW b \in Desks, DeleteDesk(b)
          PROVE  deskState'[d] # "absent"
      BY <3>1, <3>3, <3>6 DEF DeleteDesk
    <3>7. CASE DesksKept
      BY <3>1, <3>7 DEF DesksKept
    <3> HIDE DEF d
    <3>8. QED
      BY <3>1, <3>2, <3>4, <3>5, <3>6, <3>7, DeskSteps DEF d
  <2>6. QED
    BY <2>1, <2>2, <2>3, <2>4, <2>5, <2>k DEF Placed, BookingKept, Open
<1>3. QED
  BY <1>1, <1>2

\* Two open bookings never share a desk at overlapping times, whatever clients
\* book, managers move and administrators create, switch off and delete, as long
\* as nobody gives a desk with an open booking another direction of work.
THEOREM NoDoubleBookingHolds == Spec /\ BookedDesksKeep => []NoDoubleBooking
<1>1. Init => Placed
  BY DEF Init, Placed, Open, NoDoubleBooking
<1>2. TypeOK /\ TypeOK' /\ Placed /\ [Next]_vars /\ [\A t \in Tickets : BookedDeskKeeps(t)]_vars
        => Placed'
  BY StepPlaced
<1>3. Placed => NoDoubleBooking
  BY DEF Placed
<1>4. QED
  BY <1>1, <1>2, <1>3, TypesHold, PTL DEF Spec, BookedDesksKeep

-----------------------------------------------------------------------------
(* Directions of work.  Two things an administrator can do make a client of  *)
(* one direction stay with an employee of another; they are the hypotheses.  *)

\* updateDesk gives no desk another direction while an employee sits there.
SeatedDeskKeeps(e) == edesk[e] # None => deskCountry'[edesk[e]] = deskCountry[edesk[e]]

\* deleteDesk takes no desk from an employee who has a client: it asks the
\* employee's status, and an employee may be AVAILABLE with a client.
ServedDeskKeeps(a) ==
  a \in active' /\ edesk[a.employee] # None => edesk'[a.employee] # None

DesksKeepPeople ==
  (\A e \in Employees : SeatedDeskKeeps(e)) /\ (\A a \in active : ServedDeskKeeps(a))

PeopleKeepDesks == [][DesksKeepPeople]_vars

\* The inductive invariant: an employee at a desk has the direction of the
\* desk, and one whom the dispatcher gave a client has a desk, and the client's
\* direction.
Directed ==
  /\ \A e \in Employees : edesk[e] # None => ecountry[e] = deskCountry[edesk[e]] /\ ecountry[e] # None
  /\ \A a \in active : status[a.ticket] = "ASSIGNED" =>
       edesk[a.employee] # None /\ ecountry[a.employee] = CountryOf[a.ticket]

SeatsKept == UNCHANGED <<edesk, ecountry>>

\* Clients change nobody's seat, and neither do the employee's calls nor the
\* sweeps.
LEMMA SeatSteps ==
  ASSUME ClientNext \/ EmployeeNext \/ ServerNext \/ UNCHANGED vars
  PROVE  SeatsKept /\ DesksKept
<1>1. CASE ClientNext
  BY <1>1 DEF ClientNext, CreateTicket, CheckIn, Cancel, deskVars, employeeVars, DesksKept, SeatsKept
<1>2. CASE EmployeeNext
  BY <1>2 DEF EmployeeNext, BecomeAvailable, TakeBreak, CallFromList, CompleteFromList,
              AssignmentAction, MarkNoShow, Reschedule, deskVars, employeeVars, DesksKept, SeatsKept
<1>3. CASE ServerNext
  BY <1>3 DEF ServerNext, ExpireMissed, RecoverBreak, ExpireCall, DispatchAvailable, Restart,
              Tick, deskVars, employeeVars, DesksKept, SeatsKept
<1>4. CASE UNCHANGED vars
  BY <1>4 DEF vars, deskVars, employeeVars, DesksKept, SeatsKept
<1>5. QED
  BY <1>1, <1>2, <1>3, <1>4

\* The dispatcher gives an employee only a client of the same direction.
LEMMA AssignNextWithin ==
  ASSUME NEW st \in [Tickets -> TicketStatus \cup {"ABSENT"}], NEW es, NEW assignments, NEW e,
         AssignNext(st, es, assignments, e),
         NEW a \in active', a \notin assignments
  PROVE  edesk[a.employee] # None /\ WorkCountry(a.employee) = CountryOf[a.ticket]
<1>1. PICK t \in Pickable(st, assignments, e) :
        active' = assignments \cup {[ticket |-> t, employee |-> e, desk |-> edesk[e]]}
  BY DEF AssignNext
<1>2. a.ticket = t /\ a.employee = e
  BY <1>1
<1>3. t \in Candidates(st, e) /\ edesk[e] # None
  BY <1>1 DEF Pickable
<1>4. CountryOf[t] = WorkCountry(e)
  BY <1>3 DEF Candidates, Foremost
<1>5. QED
  BY <1>2, <1>3, <1>4

\* What a client who has just been assigned finds.
LEMMA BegunWithin ==
  ASSUME Safe, [Next]_vars, NEW a \in active', a \notin active, status'[a.ticket] = "ASSIGNED"
  PROVE  /\ edesk[a.employee] # None
         /\ WorkCountry(a.employee) = CountryOf[a.ticket]
         /\ SeatsKept
<1> DEFINE Within == edesk[a.employee] # None /\ WorkCountry(a.employee) = CountryOf[a.ticket]
<1>t. /\ TypeOK
      /\ status \in [Tickets -> TicketStatus \cup {"ABSENT"}]
      /\ reservedDesk \in [Tickets -> Desks \cup {None}]
  BY DEF Safe, TypeOK
<1>1. ASSUME NEW t \in Tickets, CheckIn(t)
      PROVE  Within
  <2>1. PICK e \in Match(t) : active' = active \cup {[ticket |-> t, employee |-> e, desk |-> edesk[e]]}
    BY <1>1 DEF CheckIn
  <2>2. a.ticket = t /\ a.employee = e
    BY <2>1
  <2>3. status[t] = "BOOKED"
    BY <1>1 DEF CheckIn, CanCheckIn
  <2>4. edesk[e] \in Desks
    BY <2>3, <1>t, MatchHasDesk
  <2>5. WorkCountry(e) = CountryOf[t]
    BY DEF Match
  <2>6. QED
    BY <2>2, <2>4, <2>5, ConstantsAssumption
<1>2. ASSUME NEW e \in Employees, BecomeAvailable(e) \/ DispatchAvailable(e)
      PROVE  Within
  BY <1>2, <1>t, AssignNextWithin DEF BecomeAvailable, DispatchAvailable
<1>3. ASSUME NEW e \in Employees, NEW t \in Tickets, CallFromList(e, t)
      PROVE  FALSE
  <2>1. a.ticket = t /\ status'[t] = "CALLED"
    BY <1>3, <1>t DEF CallFromList
  <2>2. QED
    BY <2>1
<1>4. ASSUME NEW e \in Employees, NEW t \in Tickets, CompleteFromList(e, t)
      PROVE  Within
  <2> DEFINE closed == [status EXCEPT ![t] = "COMPLETED"]
             left   == active \ ActiveOn(t)
             free   == Freed(ActiveOn(t))
  <2>1. AssignNext(closed, free, left, e)
    BY <1>4 DEF CompleteFromList
  <2>2. closed \in [Tickets -> TicketStatus \cup {"ABSENT"}] /\ a \notin left
    BY <1>t DEF TicketStatus
  <2> HIDE DEF closed, left, free
  <2>3. QED
    BY <2>1, <2>2, AssignNextWithin
<1>5. CASE ClientNext
  <2>1. \E t \in Tickets : CheckIn(t)
    BY <1>5 DEF ClientNext, CreateTicket, Cancel
  <2>2. QED
    BY <2>1, <1>1, <1>5, SeatSteps
<1>6. CASE EmployeeNext
  <2>1. \E e \in Employees :
          \/ BecomeAvailable(e)
          \/ \E t \in Tickets : CallFromList(e, t) \/ CompleteFromList(e, t)
    BY <1>6 DEF EmployeeNext, TakeBreak, Requeue, AssignmentAction, MarkNoShow, Reschedule
  <2>2. QED
    BY <2>1, <1>2, <1>3, <1>4, <1>6, SeatSteps
<1>7. CASE DeskNext
  BY <1>7 DEF DeskNext, AssignEmployeeDesk, LeaveDesk, UpdateEmployeeCountry, Requeue,
              CreateDesk, UpdateDesk, DeleteDesk
<1>8. CASE ServerNext
  <2>1. \E e \in Employees : DispatchAvailable(e)
    BY <1>8 DEF ServerNext, ExpireMissed, RecoverBreak, Requeue, ExpireCall, Restart, Tick
  <2>2. QED
    BY <2>1, <1>2, <1>8, SeatSteps
<1>9. CASE UNCHANGED vars
  BY <1>9 DEF vars
<1>10. QED
  BY <1>5, <1>6, <1>7, <1>8, <1>9 DEF Next

\* An employee who keeps a client keeps the direction of work.
LEMMA ServingKeepsCountry ==
  ASSUME TypeOK, Directed, [Next]_vars, NEW a \in active, a \in active', edesk[a.employee] # None
  PROVE  ecountry'[a.employee] = ecountry[a.employee]
<1> DEFINE f == a.employee
           Kept == ecountry'[f] = ecountry[f]
<1>t. f \in Employees /\ ecountry \in [Employees -> Countries \cup {None}]
  BY DEF TypeOK, Assignment
<1>1. ASSUME NEW e \in Employees, NEW d \in Desks, AssignEmployeeDesk(e, d)
      PROVE  Kept
  <2>1. PICK others \in SUBSET OthersAt(d, e) : a \notin LostBy(others, e)
    BY <1>1 DEF AssignEmployeeDesk, Requeue
  <2>2. f # e /\ ecountry' = [ecountry EXCEPT ![e] = deskCountry[d]]
    BY <1>1, <2>1 DEF AssignEmployeeDesk, LostBy
  <2>3. QED
    BY <2>1, <2>2, <1>t
<1>2. ASSUME NEW e \in Rotating, NEW c \in Countries, UpdateEmployeeCountry(e, c)
      PROVE  Kept
  <2>1. CASE f = e
    <3>1. deskCountry[edesk[e]] # c
      BY <1>2, <2>1, <1>t DEF Directed, UpdateEmployeeCountry
    <3>2. Requeue(ActiveOf(e))
      BY <1>2, <2>1, <3>1 DEF UpdateEmployeeCountry
    <3>3. QED
      BY <3>2, <2>1 DEF Requeue, ActiveOf
  <2>2. QED
    BY <2>1, <1>2, <1>t DEF UpdateEmployeeCountry
<1>3. CASE DeskNext
  BY <1>1, <1>2, <1>3 DEF DeskNext, LeaveDesk, CreateDesk, UpdateDesk, DeleteDesk, employeeVars
<1>4. CASE ClientNext \/ EmployeeNext \/ ServerNext \/ UNCHANGED vars
  BY <1>4, SeatSteps DEF SeatsKept
<1>5. QED
  BY <1>3, <1>4 DEF Next

\* Whoever sits at a desk after a transaction has its direction of work.
LEMMA SeatsStayDirected ==
  ASSUME TypeOK, Directed, [Next]_vars, [DesksKeepPeople]_vars,
         NEW e \in Employees, edesk'[e] # None
  PROVE  ecountry'[e] = deskCountry'[edesk'[e]] /\ ecountry'[e] # None
<1> DEFINE Fits == ecountry'[e] = deskCountry'[edesk'[e]] /\ ecountry'[e] # None
<1>t. /\ edesk \in [Employees -> Desks \cup {None}]
      /\ ecountry \in [Employees -> Countries \cup {None}]
      /\ deskState \in [Desks -> {"absent", "active", "inactive"}]
  BY DEF TypeOK
<1>d. edesk[e] # None => ecountry[e] = deskCountry[edesk[e]] /\ ecountry[e] # None
  BY DEF Directed
<1>1. ASSUME NEW f \in Employees, NEW d \in Desks, AssignEmployeeDesk(f, d)
      PROVE  Fits
  <2>1. /\ \E others \in SUBSET OthersAt(d, f) :
             edesk' = [g \in Employees |->
                        IF g = f THEN d ELSE IF g \in others THEN None ELSE edesk[g]]
        /\ ecountry' = [ecountry EXCEPT ![f] = deskCountry[d]]
        /\ deskCountry' = deskCountry
        /\ deskState[d] = "active"
    BY <1>1 DEF AssignEmployeeDesk, deskVars
  <2>2. CASE e = f
    <3>1. edesk'[e] = d /\ ecountry'[e] = deskCountry[d]
      BY <2>1, <2>2, <1>t
    <3>2. deskCountry[d] # None
      BY <2>1 DEF TypeOK
    <3>3. QED
      BY <3>1, <3>2, <2>1
  <2>3. CASE e # f
    <3>1. edesk'[e] = edesk[e] /\ ecountry'[e] = ecountry[e]
      BY <2>1, <2>3, <1>t
    <3>2. QED
      BY <3>1, <2>1, <1>d
  <2>4. QED
    BY <2>2, <2>3
<1>2. ASSUME NEW f \in Employees, LeaveDesk(f)
      PROVE  Fits
  <2>1. /\ edesk' = [edesk EXCEPT ![f] = None]
        /\ ecountry' = ecountry /\ deskCountry' = deskCountry
    BY <1>2 DEF LeaveDesk, deskVars
  <2>2. edesk'[e] = edesk[e]
    BY <2>1, <1>t
  <2>3. QED
    BY <2>1, <2>2, <1>d
<1>3. ASSUME NEW f \in Rotating, NEW c \in Countries, UpdateEmployeeCountry(f, c)
      PROVE  Fits
  <2> DEFINE moves == edesk[f] # None /\ deskCountry[edesk[f]] # c
  <2>1. /\ edesk' = [edesk EXCEPT ![f] = IF moves THEN None ELSE @]
        /\ ecountry' = [ecountry EXCEPT ![f] = c]
        /\ deskCountry' = deskCountry /\ ecountry[f] # c
    BY <1>3 DEF UpdateEmployeeCountry, deskVars
  <2>2. CASE e = f
    <3>1. edesk[f] = None \/ moves
      BY <2>1, <2>2, <1>d
    <3>2. QED
      BY <3>1, <2>1, <2>2, <1>t
  <2> HIDE DEF moves
  <2>3. CASE e # f
    <3>1. edesk'[e] = edesk[e] /\ ecountry'[e] = ecountry[e]
      BY <2>1, <2>3, <1>t
    <3>2. QED
      BY <3>1, <2>1, <1>d
  <2>4. QED
    BY <2>2, <2>3
<1>4. ASSUME SeatsKept, edesk[e] # None => deskCountry'[edesk[e]] = deskCountry[edesk[e]]
      PROVE  Fits
  BY <1>4, <1>d DEF SeatsKept
<1>5. edesk[e] # None => deskCountry'[edesk[e]] = deskCountry[edesk[e]]
  BY DEF DesksKeepPeople, SeatedDeskKeeps, vars, deskVars
<1>6. ASSUME NEW d \in Desks, DeleteDesk(d)
      PROVE  Fits
  <2>1. /\ edesk' = [g \in Employees |-> IF edesk[g] = d THEN None ELSE edesk[g]]
        /\ ecountry' = ecountry /\ deskCountry' = deskCountry
    BY <1>6 DEF DeleteDesk
  <2>2. edesk'[e] = edesk[e]
    BY <2>1
  <2>3. QED
    BY <2>1, <2>2, <1>d
<1>7. CASE DeskNext
  <2>1. CASE (\E d \in Desks, c \in NewDeskCountries : CreateDesk(d, c)) \/ \E d \in Desks : UpdateDesk(d)
    <3>1. SeatsKept
      BY <2>1 DEF CreateDesk, UpdateDesk, employeeVars, SeatsKept
    <3>2. QED
      BY <3>1, <1>4, <1>5
  <2>2. \A d \in Closable : d \in Desks
    BY ConstantsAssumption
  <2>3. QED
    BY <1>1, <1>2, <1>3, <1>6, <1>7, <2>1, <2>2 DEF DeskNext
<1>8. CASE ClientNext \/ EmployeeNext \/ ServerNext \/ UNCHANGED vars
  BY <1>4, <1>5, <1>8, SeatSteps
<1>9. QED
  BY <1>7, <1>8 DEF Next

\* Every step keeps clients in hand at desks of their direction.
LEMMA StepDirected ==
  ASSUME Safe, Safe', Directed, [Next]_vars, [DesksKeepPeople]_vars
  PROVE  Directed'
<1>t. /\ TypeOK /\ Joined(status, active)
      /\ status \in [Tickets -> TicketStatus \cup {"ABSENT"}]
      /\ \A a \in active \cup active' : a.ticket \in Tickets /\ a.employee \in Employees
  BY DEF Safe, TypeOK, Assignment
<1>1. ASSUME NEW a \in active', status'[a.ticket] = "ASSIGNED"
      PROVE  edesk'[a.employee] # None /\ ecountry'[a.employee] = CountryOf[a.ticket]
  <2>1. CASE a \in active
    <3>1. status[a.ticket] \in ManagerInProgress
      BY <2>1, <1>t DEF Joined
    <3>2. status[a.ticket] = "ASSIGNED"
      <4>1. status'[a.ticket] = status[a.ticket] \/ MayGo(status[a.ticket], status'[a.ticket])
        BY <1>t, StatusMoves
      <4>2. QED
        BY <4>1, <3>1, <1>1 DEF MayGo, ManagerInProgress
    <3>3. edesk[a.employee] # None /\ ecountry[a.employee] = CountryOf[a.ticket]
      BY <2>1, <3>2 DEF Directed
    <3>4. edesk'[a.employee] # None
      BY <2>1, <3>3, <1>1 DEF DesksKeepPeople, ServedDeskKeeps, vars, employeeVars
    <3>5. QED
      BY <2>1, <3>3, <3>4, <1>1, <1>t, ServingKeepsCountry
  <2>2. CASE a \notin active
    <3>1. /\ edesk[a.employee] # None
          /\ WorkCountry(a.employee) = CountryOf[a.ticket]
          /\ SeatsKept
      BY <2>2, <1>1, BegunWithin
    <3>2. WorkCountry(a.employee) = ecountry[a.employee]
      BY <3>1, <1>t DEF Directed, WorkCountry
    <3>3. QED
      BY <3>1, <3>2 DEF SeatsKept
  <2>3. QED
    BY <2>1, <2>2
<1>2. QED
  BY <1>1, <1>t, SeatsStayDirected DEF Directed

\* A client whom the dispatcher assigned stays with an employee of the client's
\* direction, through breaks, takeovers, changes of desk and of the employee's
\* direction, as long as administrators neither turn a desk while somebody sits
\* there nor delete one under an employee who has a client.
THEOREM DirectionHolds == Spec /\ PeopleKeepDesks => []AssignedWithinDirection
<1>1. Init => Directed
  BY DEF Init, Directed
<1>2. Safe /\ Safe' /\ Directed /\ [Next]_vars /\ [DesksKeepPeople]_vars => Directed'
  BY StepDirected
<1>3. Safe /\ Directed => AssignedWithinDirection
  BY DEF Safe, TypeOK, Assignment, Directed, AssignedWithinDirection, WorkCountry
<1>4. QED
  BY <1>1, <1>2, <1>3, SafeHolds, PTL DEF Spec, PeopleKeepDesks

=============================================================================
