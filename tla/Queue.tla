-------------------------------- MODULE Queue --------------------------------
(***************************************************************************)
(* The electronic queue of one site: the tickets, the employees, the desks *)
(* and the assignments that join them, as QueueService keeps them in       *)
(* PostgreSQL.  Every public method of the service runs in one database    *)
(* transaction, and here every action is one such transaction, taken       *)
(* atomically; what the interleaving of their statements and of the Redis  *)
(* calls adds is the subject of QueueTransactions and of SlotHold.         *)
(*                                                                         *)
(* The two partial unique indexes on "assignment" are NOT part of the      *)
(* model: that no step would ever need them is one of its invariants.      *)
(***************************************************************************)
EXTENDS QueueRules

CONSTANTS
  Tickets,           \* the bookings that may come to exist
  Employees,
  Desks,
  Countries,         \* ClientCountry, the two directions of work
  CountryOf,         \* the direction each client books for
  Duration,          \* SLOT_DURATION by country, in units of five minutes
  Slots,             \* the instants a client or a manager may choose
  RescheduleTo,      \* the instants a manager moves a booking to
  Instants,          \* the instants at which the clock is observed
  OpeningDesks,      \* the active desks when the site opens, with a country each
  NewDeskCountries,  \* the countries given to desks created or edited later
  DeskSwitches,      \* the values an administrator writes into desk.active
  Closable,          \* the desks an administrator may delete
  Rotating,          \* the employees whose direction of work is ever edited
  Integration,       \* employees whose subject starts with "integration-employee"
  JoinsLockable,     \* whether the database takes row locks through outer joins
  None               \* no desk, no country, no employee

ASSUME ConstantsAssumption ==
  /\ None \notin Desks \cup Countries \cup Employees
  /\ CountryOf \in [Tickets -> Countries]
  /\ Duration \in [Countries -> Nat \ {0}]
  /\ Slots \subseteq Nat /\ RescheduleTo \subseteq Slots
  /\ Instants \subseteq Nat /\ 0 \in Instants
  /\ DOMAIN OpeningDesks \subseteq Desks
  /\ OpeningDesks \in [DOMAIN OpeningDesks -> Countries]
  /\ NewDeskCountries \subseteq Countries
  /\ DeskSwitches \subseteq BOOLEAN
  /\ Closable \subseteq Desks
  /\ Rotating \subseteq Employees /\ Integration \subseteq Employees
  /\ JoinsLockable \in BOOLEAN

VARIABLES
  now,            \* the wall clock
  status,         \* ticket.status, "ABSENT" before the row exists
  priority,       \* ticket.priority
  callAttempts,   \* ticket.callAttempts, counted up to MaxAttempts
  scheduledAt,    \* ticket.scheduledAt
  reservedDesk,   \* ticket.reservedDeskId
  estatus,        \* employee.status
  edesk,          \* employee.deskId
  ecountry,       \* employee.country
  deskState,      \* a desk row: "absent", or desk.active as "active", "inactive"
  deskCountry,    \* desk.country
  deskUsed,       \* the desks some assignment row refers to
  active          \* the assignment rows with active = true

ticketVars   == <<status, priority, callAttempts, scheduledAt, reservedDesk>>
employeeVars == <<estatus, edesk, ecountry>>
deskVars     == <<deskState, deskCountry, deskUsed>>
vars         == <<now, ticketVars, employeeVars, deskVars, active>>

\* Only "callAttempts >= 2" is ever asked, so larger counts are not told apart.
MaxAttempts == 2

Assignment ==
  [ticket : Tickets, employee : Employees, desk : Desks \cup {None}]

-----------------------------------------------------------------------------
(* Reading the tables. *)

ActiveOf(e) == {a \in active : a.employee = e}
ActiveOn(t) == {a \in active : a.ticket = t}

\* employeeWorkCountry: the profile, or else the desk.
WorkCountry(e) ==
  IF ecountry[e] # None THEN ecountry[e]
  ELSE IF edesk[e] # None THEN deskCountry[edesk[e]]
  ELSE None

\* A plausible bug: the desk is not looked at.
DeskNeverBusy(assignments, d) == FALSE

\* activeDeskAssignment, over a given set of active assignments.
DeskBusy(assignments, d) == \E a \in assignments : a.desk = d

\* applyQueueDispatchOrder; tickets it leaves equal differ by createdAt only,
\* and any of them may have been created first.
Before(t, u) ==
  \/ priority[t] > priority[u]
  \/ priority[t] = priority[u] /\ scheduledAt[t] < scheduledAt[u]

Foremost(T) == {t \in T : \A u \in T : ~Before(u, t)}

\* The tickets the two queries of assignNext may return, the own desk first.
Candidates(st, e) ==
  LET waiting == {t \in Tickets : /\ st[t] \in LiveQueueStatuses
                                  /\ CountryOf[t] = WorkCountry(e)}
      own     == {t \in waiting : reservedDesk[t] = edesk[e]}
  IN  IF own # {} THEN Foremost(own) ELSE Foremost(waiting)

\* The tickets assignNext may give to e, when the statuses are st and the
\* active assignments are assignments.
Pickable(st, assignments, e) ==
  IF \/ \E a \in assignments : a.employee = e
     \/ WorkCountry(e) = None
     \/ edesk[e] = None
     \/ DeskBusy(assignments, edesk[e])
  THEN {}
  ELSE Candidates(st, e)

\* Time intervals [s, s + d) as busyDeskIds compares them.
Overlap(s1, d1, s2, d2) == s1 < s2 + d2 /\ s2 < s1 + d1

\* reserveDesk for ticket t at instant s: an active desk of the country with
\* no slot-holding booking of that country over the interval.  Which of the
\* free desks it is depends on labels, holds and blocked hours.
FreeDesks(t, s) ==
  {d \in Desks :
     /\ deskState[d] = "active"
     /\ deskCountry[d] = CountryOf[t]
     /\ \A u \in Tickets \ {t} :
          (/\ status[u] \in SlotHoldingStatuses
           /\ CountryOf[u] = CountryOf[t]
           /\ reservedDesk[u] = d)
          => ~Overlap(s, Duration[CountryOf[t]], scheduledAt[u], Duration[CountryOf[u]])}

\* The unique index one_active_slot_per_desk_time admits the row.
IndexAdmits(t, d, s) ==
  \A u \in Tickets \ {t} :
    ~(status[u] \in SlotHoldingStatuses /\ reservedDesk[u] = d /\ scheduledAt[u] = s)

-----------------------------------------------------------------------------
(* Effects shared by several transactions. *)

\* Deactivate the assignments A; their tickets go back to the queue with the
\* lowest priority, those in progress that a break may release.
Requeue(A) ==
  LET back == {t \in Tickets : /\ \E a \in A : a.ticket = t
                               /\ CanReleaseOnBreak(status[t])}
  IN  /\ status'   = [t \in Tickets |-> IF t \in back THEN "REQUEUED" ELSE status[t]]
      /\ priority' = [t \in Tickets |-> IF t \in back THEN 0 ELSE priority[t]]
      /\ active'   = active \ A

InService(A) == \E a \in A : BlocksBreak(status[a.ticket])

\* assignNext, run at the end of a transaction that has already written the
\* ticket statuses st, the employee statuses es and the assignments.
AssignNext(st, es, assignments, e) ==
  LET pick == Pickable(st, assignments, e)
  IN  IF pick = {}
      THEN /\ status' = st /\ estatus' = es /\ active' = assignments
           /\ UNCHANGED deskUsed
      ELSE \E t \in pick :
             /\ status'   = [st EXCEPT ![t] = "ASSIGNED"]
             /\ estatus'  = [es EXCEPT ![e] = "RESERVED"]
             /\ active'   = assignments \cup
                              {[ticket |-> t, employee |-> e, desk |-> edesk[e]]}
             /\ deskUsed' = deskUsed \cup {edesk[e]}

\* A plausible bug: the employees of the assignments keep their status.
FreedNobody(A) == estatus

\* The employee statuses once the assignments A end and their employees are free.
Freed(A) ==
  [e \in Employees |-> IF \E a \in A : a.employee = e THEN "AVAILABLE" ELSE estatus[e]]

-----------------------------------------------------------------------------
(* The client. *)

\* createTicket and createWalkInTicket: the slot lies ahead and a desk is free.
CreateTicket(t) ==
  /\ status[t] = "ABSENT"
  /\ \E s \in Slots :
       /\ s > now
       /\ \E d \in FreeDesks(t, s) :
            /\ IndexAdmits(t, d, s)
            /\ status'       = [status EXCEPT ![t] = "BOOKED"]
            /\ scheduledAt'  = [scheduledAt EXCEPT ![t] = s]
            /\ reservedDesk' = [reservedDesk EXCEPT ![t] = d]
  /\ UNCHANGED <<now, priority, callAttempts, employeeVars, deskVars, active>>

\* A plausible bug: an employee without a desk is taken too.
MatchWithoutDesk(t) ==
  {e \in Employees : estatus[e] = "AVAILABLE" /\ WorkCountry(e) = CountryOf[t]}

\* A plausible bug: the direction of work is not compared.
MatchAnyDirection(t) ==
  {e \in Employees : estatus[e] = "AVAILABLE" /\ edesk[e] # None}

\* assignSpecificTicket: the available employee at the reserved desk, or else
\* any available employee with a desk; the employees are read without a lock.
Match(t) ==
  LET suited == {e \in Employees : estatus[e] = "AVAILABLE" /\ WorkCountry(e) = CountryOf[t]}
      own    == {e \in suited : edesk[e] = reservedDesk[t]}
  IN  IF own # {} THEN own ELSE {e \in suited : edesk[e] # None}

\* checkInByHash: the arrival and, in the same transaction, the attempt to
\* give the client to a free employee.
CheckIn(t) ==
  /\ CanCheckIn(status[t], scheduledAt[t], Duration[CountryOf[t]], now)
  /\ priority' = [priority EXCEPT ![t] = 1]
  /\ \/ /\ Match(t) = {} \/ \E e \in Match(t) : DeskBusy(active, edesk[e])
        /\ status' = [status EXCEPT ![t] = "CHECKED_IN"]
        /\ UNCHANGED <<estatus, active, deskUsed>>
     \/ \E e \in Match(t) :
          /\ ~DeskBusy(active, edesk[e])
          /\ status'   = [status EXCEPT ![t] = "ASSIGNED"]
          /\ estatus'  = [estatus EXCEPT ![e] = "RESERVED"]
          /\ active'   = active \cup {[ticket |-> t, employee |-> e, desk |-> edesk[e]]}
          /\ deskUsed' = deskUsed \cup {edesk[e]}
  /\ UNCHANGED <<now, callAttempts, scheduledAt, reservedDesk,
                 edesk, ecountry, deskState, deskCountry>>

\* cancelTicketByHash.
Cancel(t) ==
  /\ CanCancel(status[t])
  /\ status'  = [status EXCEPT ![t] = "CANCELLED"]
  /\ active'  = active \ ActiveOn(t)
  /\ estatus' = Freed(ActiveOn(t))
  /\ UNCHANGED <<now, priority, callAttempts, scheduledAt, reservedDesk,
                 edesk, ecountry, deskVars>>

-----------------------------------------------------------------------------
(* The employee. *)

\* setEmployeeStatus with AVAILABLE: needs a desk, and takes the next client.
\* An active assignment does not stand in the way.
BecomeAvailable(e) ==
  /\ edesk[e] # None
  /\ AssignNext(status, [estatus EXCEPT ![e] = "AVAILABLE"], active, e)
  /\ UNCHANGED <<now, priority, callAttempts, scheduledAt, reservedDesk,
                 edesk, ecountry, deskState, deskCountry>>

\* setEmployeeStatus with PAUSED or OFFLINE: the client goes back to the queue.
TakeBreak(e, s) ==
  /\ ~InService(ActiveOf(e))
  /\ Requeue(ActiveOf(e))
  /\ estatus' = [estatus EXCEPT ![e] = s]
  /\ UNCHANGED <<now, callAttempts, scheduledAt, reservedDesk,
                 edesk, ecountry, deskVars>>

\* assignmentAction on the employee's own active assignment a.  The final call
\* of assignNext finds no desk on the employee it was given (the relation is
\* not loaded), so it never assigns anybody.
AssignmentAction(a, action) ==
  LET t    == a.ticket
      next == NextTicketStatus(status[t], action, TRUE)
      ends == action \in {"COMPLETE", "REQUEUE", "NO_SHOW"}
  IN  /\ next # "null"
      /\ status' = [status EXCEPT ![t] = next]
      /\ callAttempts' = [callAttempts EXCEPT ![t] =
                            IF action = "CALL" /\ @ < MaxAttempts THEN @ + 1 ELSE @]
      /\ priority' = [priority EXCEPT ![t] = IF action = "REQUEUE" THEN 0 ELSE @]
      /\ estatus' = [estatus EXCEPT ![a.employee] =
                       IF action = "START" THEN "BUSY" ELSE IF ends THEN "AVAILABLE" ELSE @]
      /\ active' = IF ends THEN active \ {a} ELSE active
      /\ UNCHANGED <<now, scheduledAt, reservedDesk, edesk, ecountry, deskVars>>

\* setTicketStatus with CALLED: a manager calls a client from the day's list,
\* whether or not the client has come and whatever the desk.
CallFromList(e, t) ==
  /\ status[t] # "ABSENT" /\ status[t] # "CALLED"
  /\ ManagerMayChange(status[t], "CALLED")
  /\ \A a \in ActiveOn(t) : a.employee = e
  /\ \A a \in ActiveOf(e) : a.ticket = t
  /\ status'  = [status EXCEPT ![t] = "CALLED"]
  /\ estatus' = [estatus EXCEPT ![e] = "RESERVED"]
  /\ active'  = IF ActiveOn(t) # {} THEN active
                ELSE active \cup {[ticket |-> t, employee |-> e, desk |-> edesk[e]]}
  /\ deskUsed' = IF ActiveOn(t) # {} THEN deskUsed ELSE deskUsed \cup ({edesk[e]} \ {None})
  /\ UNCHANGED <<now, priority, callAttempts, scheduledAt, reservedDesk,
                 edesk, ecountry, deskState, deskCountry>>

\* setTicketStatus with COMPLETED: the manager's own client in progress; here
\* the employee is loaded with the desk and the next client is assigned.
CompleteFromList(e, t) ==
  /\ status[t] # "ABSENT" /\ status[t] # "COMPLETED"
  /\ ManagerMayChange(status[t], "COMPLETED")
  /\ \A a \in ActiveOn(t) : a.employee = e
  /\ LET closed == [status EXCEPT ![t] = "COMPLETED"]
         left   == active \ ActiveOn(t)
         free   == Freed(ActiveOn(t))
     IN  IF ActiveOn(t) # {}
         THEN AssignNext(closed, free, left, e)
         ELSE status' = closed /\ UNCHANGED <<estatus, active, deskUsed>>
  /\ UNCHANGED <<now, priority, callAttempts, scheduledAt, reservedDesk,
                 edesk, ecountry, deskState, deskCountry>>

\* markNoShow: by hand, for a booking whose window has passed.
MarkNoShow(t) ==
  /\ status[t] = "BOOKED"
  /\ CheckInWindowExpired(scheduledAt[t], Duration[CountryOf[t]], now)
  /\ status' = [status EXCEPT ![t] = "NO_SHOW"]
  /\ UNCHANGED <<now, priority, callAttempts, scheduledAt, reservedDesk,
                 employeeVars, deskVars, active>>

\* rescheduleTicket: another instant and a desk for it; the status stays.  It asks
\* for the row lock in a query with relations, which are outer joins.
Reschedule(t) ==
  /\ JoinsLockable
  /\ status[t] \notin Terminal \cup {"ABSENT"}
  /\ \E s \in RescheduleTo :
       /\ s > now
       /\ \E d \in FreeDesks(t, s) :
            /\ IndexAdmits(t, d, s)
            /\ scheduledAt'  = [scheduledAt EXCEPT ![t] = s]
            /\ reservedDesk' = [reservedDesk EXCEPT ![t] = d]
  /\ UNCHANGED <<now, status, priority, callAttempts, employeeVars, deskVars, active>>

-----------------------------------------------------------------------------
(* Desks and directions: the administrator, and the employee's own choice. *)

\* The other employees at desk d.
OthersAt(d, e) == {f \in Employees \ {e} : edesk[f] = d}

\* A plausible bug: the employee who moves keeps the client.
LostByOthers(others, e) == {a \in active : a.employee \in others}

\* The assignments that end when e takes the desk of others.
LostBy(others, e) == {a \in active : a.employee \in others \cup {e}}

\* assignEmployeeDesk with a desk.  The others there are read without a lock, and
\* no index keeps two employees from one desk: who sat down after that read stays,
\* and the desk has two.  Those who were read lose the desk, and they and e lose
\* the client they have not begun to serve.  (One who was read and has meanwhile
\* left for another desk loses that one: LeaveDesk, and then this.)
AssignEmployeeDesk(e, d) ==
  /\ deskState[d] = "active"
  /\ ecountry[e] \in {None, deskCountry[d]}
  /\ \E others \in SUBSET OthersAt(d, e) :
       LET lost == LostBy(others, e)
       IN  /\ ~InService(lost)
           /\ Requeue(lost)
           /\ estatus' = [f \in Employees |->
                            IF \E a \in lost : a.employee = f THEN "PAUSED" ELSE estatus[f]]
           /\ edesk'   = [f \in Employees |->
                            IF f = e THEN d ELSE IF f \in others THEN None ELSE edesk[f]]
  /\ ecountry' = [ecountry EXCEPT ![e] = deskCountry[d]]
  /\ UNCHANGED <<now, callAttempts, scheduledAt, reservedDesk, deskVars>>

\* assignEmployeeDesk with null.
LeaveDesk(e) ==
  /\ ~InService(ActiveOf(e))
  /\ Requeue(ActiveOf(e))
  /\ estatus' = [estatus EXCEPT ![e] = IF ActiveOf(e) # {} THEN "PAUSED" ELSE @]
  /\ edesk'   = [edesk EXCEPT ![e] = None]
  /\ UNCHANGED <<now, callAttempts, scheduledAt, reservedDesk, ecountry, deskVars>>

\* updateEmployeeCountry: a desk of another direction is taken away, and with
\* it the client.
UpdateEmployeeCountry(e, c) ==
  /\ ecountry[e] # c
  /\ LET moves == edesk[e] # None /\ deskCountry[edesk[e]] # c
         lost  == IF moves THEN ActiveOf(e) ELSE {}
     IN  /\ ~InService(lost)
         /\ Requeue(lost)
         /\ estatus' = [estatus EXCEPT ![e] = IF lost # {} THEN "OFFLINE" ELSE @]
         /\ edesk'   = [edesk EXCEPT ![e] = IF moves THEN None ELSE @]
  /\ ecountry' = [ecountry EXCEPT ![e] = c]
  /\ UNCHANGED <<now, callAttempts, scheduledAt, reservedDesk, deskVars>>

CreateDesk(d, c) ==
  /\ deskState[d] = "absent"
  /\ deskState'   = [deskState EXCEPT ![d] = "active"]
  /\ deskCountry' = [deskCountry EXCEPT ![d] = c]
  /\ UNCHANGED <<now, ticketVars, employeeVars, deskUsed, active>>

\* updateDesk: active and country are written as they come, one or both.
UpdateDesk(d) ==
  /\ deskState[d] # "absent"
  /\ \E b \in DeskSwitches \cup {deskState[d] = "active"} :
       deskState' = [deskState EXCEPT ![d] = IF b THEN "active" ELSE "inactive"]
  /\ \E c \in NewDeskCountries \cup {deskCountry[d]} :
       deskCountry' = [deskCountry EXCEPT ![d] = c]
  /\ UNCHANGED <<now, ticketVars, employeeVars, deskUsed, active>>

\* deleteDesk: refused while an employee there is RESERVED or BUSY with a
\* client.  A desk with history is only switched off; the foreign key of
\* ticket.reservedDeskId keeps a desk somebody has booked.
DeleteDesk(d) ==
  /\ deskState[d] # "absent"
  /\ \A e \in Employees :
       edesk[e] = d => ~(ActiveOf(e) # {} /\ estatus[e] \in {"RESERVED", "BUSY"})
  /\ d \in deskUsed \/ \A t \in Tickets : reservedDesk[t] # d
  /\ edesk'     = [e \in Employees |-> IF edesk[e] = d THEN None ELSE edesk[e]]
  /\ deskState' = [deskState EXCEPT ![d] = IF d \in deskUsed THEN "inactive" ELSE "absent"]
  /\ UNCHANGED <<now, ticketVars, estatus, ecountry, deskCountry, deskUsed, active>>

-----------------------------------------------------------------------------
(* The server: the sweeps of every 12 seconds, a restart, and time.  What  *)
(* their order in a round means is said with Fairness in QueueProperties.  *)

\* The tickets markMissedAppointments finds and locks one by one.
Due == {t \in Tickets : /\ status[t] \in AutoNoShowStatuses
                        /\ AppointmentMissed(scheduledAt[t], now)}

\* A plausible bug: only the tickets are closed.
ExpireMissedTickets ==
  /\ Due # {}
  /\ status' = [t \in Tickets |-> IF t \in Due THEN "NO_SHOW" ELSE status[t]]
  /\ UNCHANGED <<now, priority, callAttempts, scheduledAt, reservedDesk,
                 employeeVars, deskVars, active>>

\* A plausible bug: the employee goes on waiting for the client.
ExpireMissedUnfreed ==
  /\ Due # {}
  /\ status' = [t \in Tickets |-> IF t \in Due THEN "NO_SHOW" ELSE status[t]]
  /\ active' = {a \in active : a.ticket \notin Due}
  /\ UNCHANGED <<now, priority, callAttempts, scheduledAt, reservedDesk,
                 employeeVars, deskVars>>

\* markMissedAppointments, one transaction for all tickets due.
ExpireMissed ==
  LET lost == {a \in active : a.ticket \in Due}
  IN  /\ Due # {}
      /\ status'  = [t \in Tickets |-> IF t \in Due THEN "NO_SHOW" ELSE status[t]]
      /\ active'  = active \ lost
      /\ estatus' = Freed(lost)
      /\ UNCHANGED <<now, priority, callAttempts, scheduledAt, reservedDesk,
                     edesk, ecountry, deskVars>>

\* An active assignment that recoverBreakAssignments looks for: the employee is
\* away, and the client has not been begun with.
Stale(a) ==
  /\ estatus[a.employee] \in {"PAUSED", "OFFLINE"}
  /\ status[a.ticket] \in {"ASSIGNED", "CALLED"}

\* recoverBreakAssignments, which asks for its lock in the same kind of query as
\* rescheduleTicket.
RecoverBreak(a) ==
  /\ JoinsLockable
  /\ Stale(a)
  /\ Requeue({a})
  /\ UNCHANGED <<now, callAttempts, scheduledAt, reservedDesk, employeeVars, deskVars>>

\* dispatchAvailable for one employee.
DispatchAvailable(e) ==
  /\ estatus[e] = "AVAILABLE"
  /\ Pickable(status, active, e) # {}
  /\ AssignNext(status, estatus, active, e)
  /\ UNCHANGED <<now, priority, callAttempts, scheduledAt, reservedDesk,
                 edesk, ecountry, deskState, deskCountry>>

\* expireCalls: the client called more than 90 seconds ago has not come.  The
\* age of a call is not modelled: any call may be old when the sweep runs.
ExpireCall(a) ==
  LET t     == a.ticket
      again == callAttempts[t] < MaxAttempts
  IN  /\ status[t] = "CALLED"
      /\ status'   = [status EXCEPT ![t] = IF again THEN "REQUEUED" ELSE "NO_SHOW"]
      /\ priority' = [priority EXCEPT ![t] = IF again THEN 0 ELSE @]
      /\ active'   = active \ {a}
      /\ estatus'  = [estatus EXCEPT ![a.employee] = "AVAILABLE"]
      /\ UNCHANGED <<now, callAttempts, scheduledAt, reservedDesk, edesk, ecountry, deskVars>>

\* onModuleInit: the integration accounts are paused, whatever they hold.
Restart ==
  /\ estatus' = [e \in Employees |-> IF e \in Integration THEN "PAUSED" ELSE estatus[e]]
  /\ UNCHANGED <<now, ticketVars, edesk, ecountry, deskVars, active>>

Tick ==
  /\ \E i \in Instants :
       /\ i > now
       /\ \A j \in Instants : j > now => i <= j
       /\ now' = i
  /\ UNCHANGED <<ticketVars, employeeVars, deskVars, active>>

-----------------------------------------------------------------------------
Init ==
  /\ now = 0
  /\ status       = [t \in Tickets |-> "ABSENT"]
  /\ priority     = [t \in Tickets |-> 0]
  /\ callAttempts = [t \in Tickets |-> 0]
  /\ scheduledAt  = [t \in Tickets |-> 0]
  /\ reservedDesk = [t \in Tickets |-> None]
  /\ estatus      = [e \in Employees |-> "OFFLINE"]
  /\ edesk        = [e \in Employees |-> None]
  /\ ecountry     = [e \in Employees |-> None]
  /\ deskState    = [d \in Desks |-> IF d \in DOMAIN OpeningDesks THEN "active" ELSE "absent"]
  /\ deskCountry  = [d \in Desks |-> IF d \in DOMAIN OpeningDesks THEN OpeningDesks[d] ELSE None]
  /\ deskUsed     = {}
  /\ active       = {}

ClientNext ==
  \E t \in Tickets : CreateTicket(t) \/ CheckIn(t) \/ Cancel(t)

EmployeeNext ==
  \/ \E e \in Employees :
       \/ BecomeAvailable(e)
       \/ \E s \in {"PAUSED", "OFFLINE"} : TakeBreak(e, s)
       \/ \E t \in Tickets : CallFromList(e, t) \/ CompleteFromList(e, t)
  \/ \E a \in active, action \in AssignmentActions : AssignmentAction(a, action)
  \/ \E t \in Tickets : MarkNoShow(t) \/ Reschedule(t)

DeskNext ==
  \/ \E e \in Employees :
       \/ \E d \in Desks : AssignEmployeeDesk(e, d)
       \/ LeaveDesk(e)
  \/ \E e \in Rotating, c \in Countries : UpdateEmployeeCountry(e, c)
  \/ \E d \in Desks, c \in NewDeskCountries : CreateDesk(d, c)
  \/ \E d \in Desks : UpdateDesk(d)
  \/ \E d \in Closable : DeleteDesk(d)

ServerNext ==
  \/ ExpireMissed
  \/ \E a \in active : RecoverBreak(a) \/ ExpireCall(a)
  \/ \E e \in Employees : DispatchAvailable(e)
  \/ Restart
  \/ Tick

Next == ClientNext \/ EmployeeNext \/ DeskNext \/ ServerNext

Spec == Init /\ [][Next]_vars

=============================================================================
