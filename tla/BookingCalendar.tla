---------------------------- MODULE BookingCalendar ----------------------------
(***************************************************************************)
(* The calendar of a site, as BookingService keeps it: the slots that a    *)
(* client is shown (listAvailableSlots) and the ones that a hold, a        *)
(* booking or a move is granted (assertSlotAvailable, reserveDesk), which  *)
(* the code computes twice, from bookings, holds and blocked hours.        *)
(*                                                                         *)
(* Time is counted in units (ten minutes in the code's tables) from the    *)
(* midnight, by the Moscow clock, that begins day 0.  What happens under   *)
(* the advisory lock of the site is one step; a desk is chosen for a hold  *)
(* in such a step, and the hold is set after it, in another.  SlotHold     *)
(* cuts both into commands and statements.                                 *)
(***************************************************************************)
EXTENDS Integers, FiniteSets

CONSTANTS
  Tickets, Sessions, Employees,
  Desks,         \* numbered in the order of their labels
  Countries,
  Duration,      \* SLOT_DURATION
  Days, Weekend, \* the days of the instance, and which of them are off
  DayLength, WorkdayStart, WorkdayEnd,
  Zone,          \* how far the clocks of the site are ahead of Moscow's
  Stops,         \* the instants at which something may happen
  BlockHours,    \* the intervals of a day that an administrator blocks
  Rotating,      \* employees who change desks
  Switched,      \* desks that are switched off and on
  Turned,        \* desks that are given the other direction
  OpeningSeat, OpeningCountry,
  None

ASSUME CalendarAssumption ==
  /\ Desks \subseteq Nat
  /\ Days \subseteq Nat /\ Weekend \subseteq Days
  /\ Duration \in [Countries -> Nat \ {0}]
  /\ DayLength \in Nat /\ WorkdayStart \in Nat /\ WorkdayEnd \in 0..DayLength
  /\ Zone \in Int /\ Stops \subseteq Nat
  /\ BlockHours \subseteq Nat \X Nat
  /\ Rotating \subseteq Employees /\ Switched \subseteq Desks /\ Turned \subseteq Desks
  /\ OpeningSeat \in [Employees -> Desks \cup {None}]
  /\ OpeningCountry \in [Desks -> Countries]
  /\ None \notin Desks \cup Tickets \cup Sessions

VARIABLES
  now,
  ticket,  \* the bookings: [country, start, dur, desk, open], or None
  chosen,  \* the hold that a request of each session is about to set, or None
  hold,    \* what each session holds: [desk, start, country], or None
  blocks,  \* blocked_slot: [employee, date, from, to]
  seat,    \* the desk of each employee
  active,  \* desk.active
  country  \* desk.country

site == <<seat, active, country>>
holdVars == <<chosen, hold>>
vars == <<now, ticket, holdVars, blocks, site>>

Booking == [country : Countries, start : Int, dur : Nat \ {0}, desk : Desks, open : BOOLEAN]
Hold    == [desk : Desks, start : Int, country : Countries]
Block   == [employee : Employees, date : Days, from : Nat, to : Nat]

-----------------------------------------------------------------------------
(* Clocks and the grid. *)

\* zonedDateTime: the instant at which clocks set ahead by zone show the time.
SlotToDate(date, time, zone) == date * DayLength + time - zone

\* formatDate and formatTime, which know only the Moscow clock.
DateOf(instant) == instant \div DayLength
TimeOf(instant) == instant % DayLength

DayBounds(date, zone) == SlotToDate(date, 0, zone) .. SlotToDate(date + 1, 0, zone) - 1

WorkingDay(date) == date \in Days \ Weekend

\* getAvailableDates: today and the next working days, three in all.
AvailableDates ==
  {d \in Days : /\ d >= DateOf(now) /\ WorkingDay(d)
                /\ Cardinality({e \in DateOf(now) .. d : WorkingDay(e)}) <= 3}

\* generateSlotTimes.
GenerateSlotTimes(c) ==
  {t \in WorkdayStart .. WorkdayEnd - Duration[c] : (t - WorkdayStart) % Duration[c] = 0}

Overlap(a, durA, b, durB) == a < b + durB /\ b < a + durA

DesksOf(c) == {d \in Desks : active[d] /\ country[d] = c}

Open(t) == ticket[t] # None /\ ticket[t].open

-----------------------------------------------------------------------------
(* What the client is shown. *)

\* A plausible bug: holds are not looked at.
ListBusyUnheld(date, c, start) ==
  {ticket[t].desk : t \in {t \in Tickets : /\ Open(t) /\ ticket[t].country = c
                                           /\ Overlap(start, Duration[c], ticket[t].start, ticket[t].dur)}}

\* The desks that listAvailableSlots crosses out for a slot of the date.
ListBusy(date, c, start) ==
  LET dur    == Duration[c]
      booked == {t \in Tickets : /\ Open(t) /\ ticket[t].country = c
                                 /\ ticket[t].start \in DayBounds(date, Zone)
                                 /\ Overlap(start, dur, ticket[t].start, ticket[t].dur)}
      held   == {s \in Sessions : hold[s] # None /\ Overlap(start, dur, hold[s].start, dur)}
      block  == {b \in blocks : /\ b.date = date /\ seat[b.employee] # None
                                /\ Overlap(start, dur, SlotToDate(date, b.from, Zone), b.to - b.from)}
  IN  {ticket[t].desk : t \in booked} \cup {hold[s].desk : s \in held}
        \cup {seat[b.employee] : b \in block}

\* listAvailableSlots: the instants with a row, and those marked available.
Listed(date, c) ==
  {s \in {SlotToDate(date, t, Zone) : t \in GenerateSlotTimes(c)} :
     WorkingDay(date) /\ s > now /\ DesksOf(c) # {}}

Available(date, c) == {s \in Listed(date, c) : DesksOf(c) \ ListBusy(date, c, s) # {}}

-----------------------------------------------------------------------------
(* What is granted. *)

\* A plausible bug: a booking is in the way only if it begins with the slot.
BusyAtStart(c, start, dur, t, s) ==
  {ticket[u].desk : u \in {u \in Tickets \ {t} : Open(u) /\ ticket[u].start = start}}
    \cup {hold[h].desk : h \in {h \in Sessions \ {s} : hold[h] # None /\ hold[h].start = start}}

\* busyDeskIds, without the ticket t or the hold of the session s themselves.
BusyDesks(c, start, dur, t, s) ==
  LET booked == {u \in Tickets \ {t} : /\ Open(u) /\ ticket[u].country = c
                                       /\ Overlap(start, dur, ticket[u].start, ticket[u].dur)}
      held   == {h \in Sessions \ {s} : hold[h] # None /\ Overlap(start, dur, hold[h].start, dur)}
  IN  {ticket[u].desk : u \in booked} \cup {hold[h].desk : h \in held}

\* A plausible bug: only the slot that begins in the blocked hours is refused.
BlockedAtStart(start, dur) ==
  {seat[b.employee] : b \in {b \in blocks :
      /\ b.date = DateOf(start) /\ seat[b.employee] # None
      /\ TimeOf(start) \in b.from .. b.to - 1}}

\* blockedDeskIds: the desks at which the blocked employees sit now.
BlockedDesks(start, dur) ==
  {seat[b.employee] : b \in {b \in blocks :
      /\ b.date = DateOf(start) /\ seat[b.employee] # None
      /\ Overlap(start, dur, SlotToDate(b.date, b.from, 0), b.to - b.from)}}

FreeDesks(c, start, dur, t, s) ==
  DesksOf(c) \ (BusyDesks(c, start, dur, t, s) \cup BlockedDesks(start, dur))

\* assertSlotAvailable, with the isSlotFree it ends in.
AssertSlotAvailable(c, start, dur, t, s) ==
  /\ WorkingDay(DateOf(start))
  /\ TimeOf(start) >= WorkdayStart
  /\ TimeOf(start) + dur <= WorkdayEnd
  /\ start > now
  /\ FreeDesks(c, start, dur, t, s) # {}

\* A plausible bug: the preferred desk, whether or not it is free or there is one.
ReservePreferred(free, preferred) == preferred

\* reserveDesk: the preferred desk if it is free, else the first by its label.
ReserveDesk(free, preferred) ==
  IF preferred \in free THEN preferred ELSE CHOOSE d \in free : \A f \in free : d <= f

-----------------------------------------------------------------------------
(* Clients. *)

\* The rows of the screen for the dates it offers.
Offered(c) == UNION {Listed(d, c) : d \in AvailableDates}

\* holdSlot, under the lock.  The session's old hold is in its own way.
ChooseDesk(s, c, start) ==
  /\ chosen[s] = None
  /\ ~(hold[s] # None /\ hold[s].start = start)
  /\ AssertSlotAvailable(c, start, Duration[c], None, None)
  /\ LET free == FreeDesks(c, start, Duration[c], None, None)
     IN  chosen' = [chosen EXCEPT ![s] =
                      [desk |-> ReserveDesk(free, None), start |-> start, country |-> c]]
  /\ UNCHANGED <<now, ticket, hold, blocks, site>>

\* The key of a hold is made of the desk and the start.
KeyTaken(h) ==
  \E s \in Sessions : hold[s] # None /\ hold[s].desk = h.desk /\ hold[s].start = h.start

\* holdSlot, after the lock is given back: nothing but the key is looked at, and
\* the session's old hold is dropped.
SetHold(s) ==
  /\ chosen[s] # None /\ ~KeyTaken(chosen[s])
  /\ hold'   = [hold EXCEPT ![s] = chosen[s]]
  /\ chosen' = [chosen EXCEPT ![s] = None]
  /\ UNCHANGED <<now, ticket, blocks, site>>

\* The key is taken, or the process ends before it is set.
HoldFails(s) ==
  /\ chosen[s] # None
  /\ chosen' = [chosen EXCEPT ![s] = None]
  /\ UNCHANGED <<now, ticket, hold, blocks, site>>

\* The three minutes are over.
HoldExpires(s) ==
  /\ hold[s] # None
  /\ hold' = [hold EXCEPT ![s] = None]
  /\ UNCHANGED <<now, ticket, chosen, blocks, site>>

NewBooking(c, start, free, preferred) ==
  [country |-> c, start |-> start, dur |-> Duration[c], desk |-> ReserveDesk(free, preferred), open |-> TRUE]

\* createTicket: the hold is consumed whatever comes of it, and the form may
\* name the other direction than the slot was held for.
CreateTicket(t, s, c) ==
  /\ ticket[t] = None /\ hold[s] # None
  /\ hold' = [hold EXCEPT ![s] = None]
  /\ LET start == hold[s].start
         free  == FreeDesks(c, start, Duration[c], None, s)
     IN  IF AssertSlotAvailable(c, start, Duration[c], None, s)
         THEN ticket' = [ticket EXCEPT ![t] = NewBooking(c, start, free, hold[s].desk)]
         ELSE UNCHANGED ticket
  /\ UNCHANGED <<now, chosen, blocks, site>>

\* createWalkInTicket: the client stands at the door and wants a slot of today.
CreateWalkIn(t, c, start) ==
  /\ ticket[t] = None
  /\ DateOf(start + Zone) = DateOf(now + Zone)
  /\ AssertSlotAvailable(c, start, Duration[c], None, None)
  /\ ticket' = [ticket EXCEPT ![t] =
       NewBooking(c, start, FreeDesks(c, start, Duration[c], None, None), None)]
  /\ UNCHANGED <<now, holdVars, blocks, site>>

\* rescheduleTicket, to any time of the calendar.
Reschedule(t, start) ==
  /\ Open(t)
  /\ LET b    == ticket[t]
         free == FreeDesks(b.country, start, b.dur, t, None)
     IN  /\ AssertSlotAvailable(b.country, start, b.dur, t, None)
         /\ ticket' = [ticket EXCEPT ![t].start = start, ![t].desk = ReserveDesk(free, None)]
  /\ UNCHANGED <<now, holdVars, blocks, site>>

\* Whatever closes a ticket gives its slot back.
Close(t) ==
  /\ Open(t)
  /\ ticket' = [ticket EXCEPT ![t].open = FALSE]
  /\ UNCHANGED <<now, holdVars, blocks, site>>

-----------------------------------------------------------------------------
(* Administrators and employees. *)

\* createBlockedSlot: bookings that are already there are not looked at.
CreateBlockedSlot(e, date, from, to) ==
  /\ WorkingDay(date)
  /\ from < to
  /\ blocks' = blocks \cup {[employee |-> e, date |-> date, from |-> from, to |-> to]}
  /\ UNCHANGED <<now, ticket, holdVars, site>>

DeleteBlockedSlot(b) ==
  /\ b \in blocks
  /\ blocks' = blocks \ {b}
  /\ UNCHANGED <<now, ticket, holdVars, site>>

\* assignEmployeeDesk: who was seen there, without a lock, has no desk now.
AssignDesk(e, d) ==
  /\ seat[e] # d
  /\ \E others \in SUBSET {f \in Employees \ {e} : seat[f] = d} :
       seat' = [f \in Employees |-> IF f = e THEN d ELSE IF f \in others THEN None ELSE seat[f]]
  /\ UNCHANGED <<now, ticket, holdVars, blocks, active, country>>

\* updateDesk.
SwitchDesk(d) ==
  /\ active' = [active EXCEPT ![d] = ~@]
  /\ UNCHANGED <<now, ticket, holdVars, blocks, seat, country>>

TurnDesk(d, c) ==
  /\ country' = [country EXCEPT ![d] = c]
  /\ UNCHANGED <<now, ticket, holdVars, blocks, seat, active>>

Tick ==
  /\ now' \in {i \in Stops : i > now}
  /\ UNCHANGED <<ticket, holdVars, blocks, site>>

-----------------------------------------------------------------------------
Init ==
  /\ now     = 0
  /\ ticket  = [t \in Tickets |-> None]
  /\ chosen  = [s \in Sessions |-> None]
  /\ hold    = [s \in Sessions |-> None]
  /\ blocks  = {}
  /\ seat    = OpeningSeat
  /\ active  = [d \in Desks |-> TRUE]
  /\ country = OpeningCountry

Clients ==
  \/ \E s \in Sessions, c \in Countries : \E start \in Offered(c) : ChooseDesk(s, c, start)
  \/ \E s \in Sessions : SetHold(s) \/ HoldFails(s) \/ HoldExpires(s)
  \/ \E t \in Tickets, s \in Sessions, c \in Countries : CreateTicket(t, s, c)
  \/ \E t \in Tickets, c \in Countries : \E start \in Offered(c) : CreateWalkIn(t, c, start)
  \/ \E t \in Tickets, start \in UNION {Offered(c) : c \in Countries} : Reschedule(t, start)
  \/ \E t \in Tickets : Close(t)

Staff ==
  \/ \E e \in Employees, date \in Days, h \in BlockHours : CreateBlockedSlot(e, date, h[1], h[2])
  \/ \E b \in blocks : DeleteBlockedSlot(b)
  \/ \E e \in Rotating, d \in Desks : AssignDesk(e, d)
  \/ \E d \in Switched : SwitchDesk(d)
  \/ \E d \in Turned, c \in Countries : TurnDesk(d, c)

Next == Clients \/ Staff \/ Tick

Spec == Init /\ [][Next]_vars

-----------------------------------------------------------------------------
\* Every variable keeps its type.
TypeOK ==
  /\ now \in Nat
  /\ ticket \in [Tickets -> Booking \cup {None}]
  /\ chosen \in [Sessions -> Hold \cup {None}]
  /\ hold \in [Sessions -> Hold \cup {None}]
  /\ blocks \subseteq Block
  /\ seat \in [Employees -> Desks \cup {None}]
  /\ active \in [Desks -> BOOLEAN]
  /\ country \in [Desks -> Countries]

\* The screen and the server agree: on every day, a slot of the grid that
\* listAvailableSlots marks available is one that holdSlot grants at that
\* moment, and any other is refused.  The two are computed apart, from the
\* bookings of the day and the hours by the site's clock on the one side, from
\* the overlapping bookings and the Moscow clock on the other.
OfferKept ==
  \A c \in Countries, d \in Days :
    \A start \in {SlotToDate(d, t, Zone) : t \in GenerateSlotTimes(c)} :
      start \in Available(d, c) <=> AssertSlotAvailable(c, start, Duration[c], None, None)

\* A desk serves two open bookings at once only if they are of different
\* directions, which takes an administrator who turned the desk in between:
\* busyDeskIds counts the bookings of one direction.
OverlapOnlyAcrossDirections ==
  \A t, u \in Tickets :
    /\ t # u /\ Open(t) /\ Open(u) /\ ticket[t].desk = ticket[u].desk
    /\ Overlap(ticket[t].start, ticket[t].dur, ticket[u].start, ticket[u].dur)
    => ticket[t].country # ticket[u].country

\* Nobody is sent to a desk whose employee is away: hours blocked after the
\* slot was held, or that came to the desk with another employee, count when
\* the hold becomes a booking or a booking moves.
NobodyBookedIntoBlockedHours ==
  [][\A t \in Tickets :
       Open(t)' /\ (ticket[t] = None \/ ticket[t].start # ticket'[t].start) =>
         \A b \in blocks :
           /\ seat[b.employee] = ticket'[t].desk
           /\ b.date = DateOf(ticket'[t].start)
           => ~ \E i \in b.from .. b.to - 1 :
                  SlotToDate(b.date, i, 0) \in
                    ticket'[t].start .. ticket'[t].start + ticket'[t].dur - 1]_vars

=============================================================================
