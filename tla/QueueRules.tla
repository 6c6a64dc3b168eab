----------------------------- MODULE QueueRules -----------------------------
(***************************************************************************)
(* The pure rules of the queue: apps/api/src/queue/queue.rules.ts, the     *)
(* manager's status rules of ticket-presentation.ts and the status sets of *)
(* domain/entities.ts.  One unit of time is five minutes; the rules take   *)
(* the instant and the slot as numbers of units.                           *)
(*                                                                         *)
(* Here and in the other modules a definition whose comment begins with    *)
(* "A plausible bug" is a mistake that could be made in the next one; the  *)
(* model does not use it, the properties are tested against it.            *)
(***************************************************************************)
EXTENDS Integers

TicketStatus == {"BOOKED", "WAITING", "CHECKED_IN", "ASSIGNED", "CALLED",
                 "IN_SERVICE", "COMPLETED", "REQUEUED", "NO_SHOW", "CANCELLED"}

EmployeeStatus == {"OFFLINE", "AVAILABLE", "RESERVED", "BUSY", "PAUSED"}

\* A plausible bug: a requeued ticket forgets its desk and time.
SlotHoldingUntilRequeued == {"BOOKED", "WAITING", "CHECKED_IN", "ASSIGNED",
                             "CALLED", "IN_SERVICE"}

\* The statuses in which a ticket still owns its desk and time.
SlotHoldingStatuses == {"BOOKED", "WAITING", "CHECKED_IN", "ASSIGNED",
                        "CALLED", "IN_SERVICE", "REQUEUED"}

\* Clients who have come and wait for a desk.
LiveQueueStatuses == {"CHECKED_IN", "REQUEUED"}

\* A plausible bug: clients sent back to the queue are never swept.
AutoNoShowUntilRequeued == {"BOOKED", "WAITING", "CHECKED_IN", "ASSIGNED"}

AutoNoShowStatuses == {"BOOKED", "WAITING", "CHECKED_IN", "REQUEUED", "ASSIGNED"}

ManagerInProgress == {"CALLED", "ASSIGNED", "IN_SERVICE"}

Terminal == {"COMPLETED", "NO_SHOW", "CANCELLED"}

-----------------------------------------------------------------------------
AssignmentActions == {"CALL", "START", "COMPLETE", "REQUEUE", "NO_SHOW"}

\* The table "transitions": from which statuses an action starts, and where it leads.
TransitionFrom ==
  [CALL     |-> {"ASSIGNED"},
   START    |-> {"CALLED"},
   COMPLETE |-> {"IN_SERVICE"},
   REQUEUE  |-> {"ASSIGNED", "CALLED"},
   NO_SHOW  |-> {"CALLED", "BOOKED"}]

TransitionTo ==
  [CALL     |-> "CALLED",
   START    |-> "IN_SERVICE",
   COMPLETE |-> "COMPLETED",
   REQUEUE  |-> "REQUEUED",
   NO_SHOW  |-> "NO_SHOW"]

\* "null" stands for the null the function returns.  A booked client may be
\* started straight from ASSIGNED, without the call.
NextTicketStatus(current, action, hasScheduledSlot) ==
  IF \/ current \in TransitionFrom[action]
     \/ action = "START" /\ current = "ASSIGNED" /\ hasScheduledSlot
  THEN TransitionTo[action]
  ELSE "null"

\* A plausible bug: a list of exceptions that forgets NO_SHOW.
CancelUnlessServed(status) ==
  status \notin {"ABSENT", "IN_SERVICE", "COMPLETED", "CANCELLED"}

CanCancel(status) ==
  status \in {"BOOKED", "WAITING", "CHECKED_IN", "ASSIGNED", "CALLED", "REQUEUED"}

\* A plausible bug: a client already called is not released.
ReleasedBeforeCall(status) == status = "ASSIGNED"

CanReleaseOnBreak(status) == status \in {"ASSIGNED", "CALLED"}

\* A plausible bug: a break is possible at any time.
NeverBlocksBreak(status) == FALSE

BlocksBreak(status) == status = "IN_SERVICE"

-----------------------------------------------------------------------------
CheckInEarly == 3      \* 15 minutes before the slot
NoShowGrace  == 12     \* NO_SHOW_GRACE_MS, 60 minutes after the slot begins

CheckInWindow(scheduledAt, duration) ==
  [start |-> scheduledAt - CheckInEarly, end |-> scheduledAt + duration]

CanCheckIn(status, scheduledAt, duration, now) ==
  /\ status = "BOOKED"
  /\ LET window == CheckInWindow(scheduledAt, duration)
     IN  window.start <= now /\ now <= window.end

CheckInWindowExpired(scheduledAt, duration, now) == now > scheduledAt + duration

AppointmentMissed(scheduledAt, now) == now >= scheduledAt + NoShowGrace

-----------------------------------------------------------------------------
\* What the manager's screen offers, and what PATCH tickets/:id/status accepts.
ManagerNextStatuses(from) ==
  IF from \in Terminal THEN {}
  ELSE IF from \in ManagerInProgress THEN {"COMPLETED"}
  ELSE {"CALLED"}

ManagerMayChange(from, to) == from = to \/ to \in ManagerNextStatuses(from)

=============================================================================
