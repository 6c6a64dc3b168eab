------------------------- MODULE BookingCalendarProofs -------------------------
(***************************************************************************)
(* Proofs about the calendar, for any desks, days, hours, durations and    *)
(* clients: the types, that a desk serves one booking of a direction at a  *)
(* time, that nobody is booked into blocked hours, and that what the screen offers is what the server  *)
(* grants where the site goes by the Moscow clock.                         *)
(***************************************************************************)
EXTENDS BookingCalendar, WellFoundedInduction, TLAPS

-----------------------------------------------------------------------------
(* Desks. *)

\* A set of desks has a first one.
LEMMA FirstExists ==
  ASSUME NEW D \in SUBSET Desks, D # {}
  PROVE  \E d \in D : \A f \in D : d <= f
<1> DEFINE less == OpToRel(<, Nat)
<1>1. IsWellFoundedOn(less, Nat)
  BY NatLessThanWellFounded
<1>2. ASSUME NEW m \in Nat, NEW n \in Nat, m < n
      PROVE  <<m, n>> \in less
  BY <1>2 DEF OpToRel
<1>3. D \subseteq Nat
  BY CalendarAssumption
<1> HIDE DEF less
<1>4. PICK d \in D : \A f \in D : <<f, d>> \notin less
  BY <1>1, <1>3, WFMin
<1>5. ASSUME NEW f \in D
      PROVE  d <= f
  <2>1. d \in Nat /\ f \in Nat
    BY <1>3
  <2>2. ~(f < d)
    BY <2>1, <1>2, <1>4
  <2>3. QED
    BY <2>1, <2>2
<1>6. QED
  BY <1>4, <1>5

\* reserveDesk gives one of the free desks, if there is one.
LEMMA ReservesFree ==
  ASSUME NEW free \in SUBSET Desks, free # {}, NEW preferred
  PROVE  ReserveDesk(free, preferred) \in free
  BY FirstExists DEF ReserveDesk

\* A desk that is free is in nobody's way: no open booking of the direction and
\* no hold reaches into the time, nor does a blocked hour of whoever sits there.
LEMMA FreeMeans ==
  ASSUME NEW c, NEW start, NEW dur, NEW t, NEW s, NEW d \in FreeDesks(c, start, dur, t, s)
  PROVE  /\ d \in Desks
         /\ \A u \in Tickets \ {t} :
              Open(u) /\ ticket[u].country = c
              /\ Overlap(start, dur, ticket[u].start, ticket[u].dur) => ticket[u].desk # d
         /\ \A h \in Sessions \ {s} :
              hold[h] # None /\ Overlap(start, dur, hold[h].start, dur) => hold[h].desk # d
         /\ d \notin BlockedDesks(start, dur)
<1>1. d \in Desks /\ d \notin BusyDesks(c, start, dur, t, s) /\ d \notin BlockedDesks(start, dur)
  BY DEF FreeDesks, DesksOf
<1>2. QED
  BY <1>1 DEF BusyDesks

-----------------------------------------------------------------------------
(* Types. *)

\* A booking lies within the hours of a working day and lasts what its
\* direction says.
InHours(start, dur) ==
  /\ WorkingDay(DateOf(start))
  /\ TimeOf(start) >= WorkdayStart
  /\ TimeOf(start) + dur <= WorkdayEnd

Regular ==
  \A t \in Tickets : ticket[t] # None =>
    /\ ticket[t].dur = Duration[ticket[t].country]
    /\ InHours(ticket[t].start, ticket[t].dur)

\* What the calendar offers is a time.
LEMMA OfferedType ==
  ASSUME NEW c \in Countries, NEW start \in Offered(c)
  PROVE  start \in Int
<1>1. PICK date \in Days : start \in Listed(date, c)
  BY DEF Offered, AvailableDates
<1>2. PICK time \in WorkdayStart .. WorkdayEnd - Duration[c] : start = SlotToDate(date, time, Zone)
  BY <1>1 DEF Listed, GenerateSlotTimes
<1>3. date \in Nat /\ DayLength \in Nat /\ Zone \in Int /\ WorkdayStart \in Nat /\ WorkdayEnd \in Int
      /\ Duration[c] \in Int
  BY CalendarAssumption
<1>4. time \in Int /\ date * DayLength \in Int
  BY <1>3
<1>5. QED
  BY <1>2, <1>3, <1>4 DEF SlotToDate

\* A booking that is granted.
LEMMA GrantedType ==
  ASSUME NEW c \in Countries, NEW start \in Int, NEW t, NEW s, NEW preferred,
         AssertSlotAvailable(c, start, Duration[c], t, s)
  PROVE  LET free == FreeDesks(c, start, Duration[c], t, s)
             d    == ReserveDesk(free, preferred)
         IN  /\ d \in free
             /\ d \in Desks
             /\ InHours(start, Duration[c])
             /\ NewBooking(c, start, free, preferred) \in Booking
<1> DEFINE free == FreeDesks(c, start, Duration[c], t, s)
           d    == ReserveDesk(free, preferred)
<1>1. free # {} /\ free \in SUBSET Desks /\ InHours(start, Duration[c])
  BY DEF AssertSlotAvailable, FreeDesks, DesksOf, InHours
<1>2. d \in free /\ d \in Desks
  BY <1>1, ReservesFree
<1>3. Duration[c] \in Nat \ {0}
  BY CalendarAssumption
<1> HIDE DEF free
<1>4. NewBooking(c, start, free, preferred) \in Booking
  BY <1>2, <1>3 DEF NewBooking, Booking
<1>5. QED
  BY <1>1, <1>2, <1>4 DEF free

\* What an action writes into the row of one ticket, if anything.
Written(t, b) == ticket' = [ticket EXCEPT ![t] = b]

\* A booking inside the opening hours keeps the tickets regular.
LEMMA WrittenRegular ==
  ASSUME TypeOK, Regular, NEW t \in Tickets, NEW b \in Booking, Written(t, b),
         b.dur = Duration[b.country], InHours(b.start, b.dur)
  PROVE  ticket' \in [Tickets -> Booking \cup {None}] /\ Regular'
<1>1. ticket \in [Tickets -> Booking \cup {None}]
  BY DEF TypeOK
<1>2. ticket'[t] = b /\ \A u \in Tickets \ {t} : ticket'[u] = ticket[u]
  BY <1>1 DEF Written
<1>3. Regular'
  BY <1>2 DEF Regular
<1>4. QED
  BY <1>1, <1>3 DEF Written

\* The desk of the booking b is free; its old place (the booking of the ticket t
\* itself, or the hold of a session) does not count.
Granted(t, b) ==
  \E x \in {None, t}, s \in Sessions \cup {None} :
    b.desk \in FreeDesks(b.country, b.start, b.dur, x, s)

\* What is written is a regular booking, and a granted one unless it is closed.
Fits(t, b) ==
  /\ b.dur = Duration[b.country]
  /\ InHours(b.start, b.dur)
  /\ b.open => Granted(t, b)

\* The steps that write a booking, and what each writes.
LEMMA Bookings ==
  ASSUME TypeOK, Regular, Clients
  PROVE  \/ UNCHANGED ticket
         \/ \E t \in Tickets, b \in Booking : Written(t, b) /\ Fits(t, b)
<1>t. /\ ticket \in [Tickets -> Booking \cup {None}]
      /\ hold \in [Sessions -> Hold \cup {None}]
  BY DEF TypeOK
<1> DEFINE Wrote == \E t \in Tickets, b \in Booking : Written(t, b) /\ Fits(t, b)
<1>1. ASSUME NEW c \in Countries, NEW start \in Int, NEW t \in Tickets,
             NEW s \in Sessions \cup {None}, NEW preferred,
             AssertSlotAvailable(c, start, Duration[c], None, s),
             Written(t, NewBooking(c, start, FreeDesks(c, start, Duration[c], None, s), preferred))
      PROVE  Wrote
  <2> DEFINE b == NewBooking(c, start, FreeDesks(c, start, Duration[c], None, s), preferred)
             d == ReserveDesk(FreeDesks(c, start, Duration[c], None, s), preferred)
  <2>1. b \in Booking /\ InHours(start, Duration[c]) /\ d \in FreeDesks(c, start, Duration[c], None, s)
    BY <1>1, GrantedType
  <2>2. b.dur = Duration[c] /\ b.country = c /\ b.start = start /\ b.desk = d
    BY DEF NewBooking
  <2> HIDE DEF b, d
  <2>3. Granted(t, b)
    BY <2>1, <2>2 DEF Granted
  <2>4. Written(t, b)
    BY <1>1 DEF b
  <2>5. QED
    BY <2>1, <2>2, <2>3, <2>4 DEF Fits
<1>2. ASSUME NEW t \in Tickets, NEW s \in Sessions, NEW c \in Countries, CreateTicket(t, s, c)
      PROVE  Wrote \/ UNCHANGED ticket
  <2>1. hold[s].start \in Int
    BY <1>2, <1>t DEF CreateTicket, Hold
  <2>2. QED
    BY <1>1, <1>2, <2>1 DEF CreateTicket, Written
<1>3. ASSUME NEW t \in Tickets, NEW c \in Countries, NEW start \in Offered(c), CreateWalkIn(t, c, start)
      PROVE  Wrote
  <2>1. start \in Int
    BY OfferedType
  <2>2. QED
    BY <1>1, <1>3, <2>1 DEF CreateWalkIn, Written
<1>4. ASSUME NEW t \in Tickets, NEW start \in Int, Reschedule(t, start)
      PROVE  Wrote
  <2> DEFINE c    == ticket[t].country
             free == FreeDesks(c, start, ticket[t].dur, t, None)
             d    == ReserveDesk(free, None)
             b    == [ticket[t] EXCEPT !.start = start, !.desk = d]
  <2>1. ticket[t] \in Booking /\ ticket[t].dur = Duration[c] /\ c \in Countries
    BY <1>4, <1>t DEF Reschedule, Open, Regular, Booking
  <2>2. AssertSlotAvailable(c, start, Duration[c], t, None)
    BY <1>4, <2>1 DEF Reschedule
  <2>3. d \in Desks /\ InHours(start, Duration[c]) /\ d \in free
    BY <2>1, <2>2, GrantedType
  <2>4. Written(t, b)
    BY <1>4, <1>t DEF Reschedule, Written
  <2> HIDE DEF d
  <2>5. b \in Booking /\ b.dur = ticket[t].dur /\ b.country = c /\ b.start = start /\ b.desk = d
    BY <2>1, <2>3 DEF Booking
  <2> HIDE DEF b
  <2>6. Granted(t, b)
    BY <2>3, <2>5 DEF Granted
  <2>7. QED
    BY <2>1, <2>3, <2>4, <2>5, <2>6 DEF Fits
<1>5. ASSUME NEW t \in Tickets, Close(t)
      PROVE  Wrote
  <2> DEFINE b == [ticket[t] EXCEPT !.open = FALSE]
  <2>1. ticket[t] \in Booking /\ ticket[t] # None
    BY <1>5, <1>t DEF Close, Open
  <2>2. Written(t, b)
    BY <1>5, <1>t DEF Close, Written
  <2>3. /\ b \in Booking /\ b.dur = ticket[t].dur
        /\ b.country = ticket[t].country /\ b.start = ticket[t].start /\ ~b.open
    BY <2>1 DEF Booking
  <2>4. b.dur = Duration[b.country] /\ InHours(b.start, b.dur)
    BY <2>1, <2>3 DEF Regular
  <2>5. QED
    BY <2>1, <2>2, <2>3, <2>4 DEF Fits
<1>6. \A c \in Countries : \A start \in Offered(c) : start \in Int
  BY OfferedType
<1>7. QED
  BY <1>2, <1>3, <1>4, <1>5, <1>6 DEF Clients, ChooseDesk, SetHold, HoldFails, HoldExpires

\* The types, with what makes them inductive.
Typed == TypeOK /\ Regular

\* Every action of the calendar keeps the types.
LEMMA StepTyped == Typed /\ [Next]_vars => Typed'
<1> SUFFICES ASSUME Typed, [Next]_vars
             PROVE  Typed'
  OBVIOUS
<1>t. /\ now \in Nat
      /\ ticket \in [Tickets -> Booking \cup {None}]
      /\ chosen \in [Sessions -> Hold \cup {None}]
      /\ hold \in [Sessions -> Hold \cup {None}]
      /\ blocks \subseteq Block
      /\ seat \in [Employees -> Desks \cup {None}]
      /\ active \in [Desks -> BOOLEAN]
      /\ country \in [Desks -> Countries]
  BY DEF Typed, TypeOK
<1>r. UNCHANGED ticket => Regular'
  BY DEF Typed, Regular
<1>1. CASE Clients
  <2>1. ticket' \in [Tickets -> Booking \cup {None}] /\ Regular'
    <3>1. CASE UNCHANGED ticket
      BY <3>1, <1>t, <1>r
    <3>2. ASSUME NEW t \in Tickets, NEW b \in Booking, Written(t, b), Fits(t, b)
          PROVE  ticket' \in [Tickets -> Booking \cup {None}] /\ Regular'
      BY <3>2, WrittenRegular DEF Typed, Fits
    <3>3. QED
      BY <1>1, <3>1, <3>2, Bookings DEF Typed
  <2> DEFINE HoldsTyped == /\ chosen' \in [Sessions -> Hold \cup {None}]
                           /\ hold' \in [Sessions -> Hold \cup {None}]
  <2>2. HoldsTyped
    <3>1. ASSUME NEW s \in Sessions, NEW c \in Countries, NEW start \in Offered(c), ChooseDesk(s, c, start)
          PROVE  HoldsTyped
      <4> DEFINE d == ReserveDesk(FreeDesks(c, start, Duration[c], None, None), None)
                 h == [desk |-> d, start |-> start, country |-> c]
      <4>1. start \in Int
        BY OfferedType
      <4>2. d \in Desks
        BY <3>1, <4>1, GrantedType DEF ChooseDesk
      <4>3. chosen' = [chosen EXCEPT ![s] = h] /\ hold' = hold
        BY <3>1 DEF ChooseDesk
      <4> HIDE DEF d
      <4>4. h \in Hold
        BY <4>1, <4>2 DEF Hold
      <4> HIDE DEF h
      <4>5. QED
        BY <4>3, <4>4, <1>t
    <3>2. ASSUME NEW s \in Sessions, SetHold(s) \/ HoldFails(s) \/ HoldExpires(s)
          PROVE  HoldsTyped
      BY <3>2, <1>t DEF SetHold, HoldFails, HoldExpires
    <3>3. QED
      BY <1>1, <1>t, <3>1, <3>2 DEF Clients, CreateTicket, CreateWalkIn, Reschedule, Close, holdVars
  <2>3. UNCHANGED <<now, blocks, site>>
    BY <1>1 DEF Clients, ChooseDesk, SetHold, HoldFails, HoldExpires, CreateTicket, CreateWalkIn,
                Reschedule, Close
  <2>4. QED
    BY <2>1, <2>2, <2>3 DEF Typed, TypeOK, site
<1>2. ASSUME NEW e \in Employees, NEW date \in Days, NEW h \in BlockHours,
             CreateBlockedSlot(e, date, h[1], h[2])
      PROVE  Typed'
  <2>1. h[1] \in Nat /\ h[2] \in Nat
    BY CalendarAssumption
  <2>2. blocks' \subseteq Block
    BY <1>2, <2>1, <1>t DEF CreateBlockedSlot, Block
  <2>3. QED
    BY <1>2, <2>2, <1>r DEF CreateBlockedSlot, Typed, TypeOK, site, holdVars
<1>3. ASSUME NEW b \in blocks, DeleteBlockedSlot(b)
      PROVE  Typed'
  BY <1>3, <1>r DEF DeleteBlockedSlot, Typed, TypeOK, site, holdVars
<1>4. ASSUME NEW e \in Employees, NEW d \in Desks, AssignDesk(e, d)
      PROVE  Typed'
  BY <1>4, <1>r DEF AssignDesk, Typed, TypeOK, holdVars
<1>5. ASSUME NEW d \in Desks, SwitchDesk(d)
      PROVE  Typed'
  BY <1>5, <1>r DEF SwitchDesk, Typed, TypeOK, holdVars
<1>6. ASSUME NEW d \in Desks, NEW c \in Countries, TurnDesk(d, c)
      PROVE  Typed'
  BY <1>6, <1>r DEF TurnDesk, Typed, TypeOK, holdVars
<1>7. CASE Tick
  BY <1>7, <1>r, CalendarAssumption DEF Tick, Typed, TypeOK, site, holdVars
<1>8. CASE UNCHANGED vars
  BY <1>8, <1>r DEF vars, Typed, TypeOK, site, holdVars
<1>9. Rotating \subseteq Employees /\ Switched \subseteq Desks /\ Turned \subseteq Desks
  BY CalendarAssumption
<1>10. QED
  BY <1>1, <1>2, <1>3, <1>4, <1>5, <1>6, <1>7, <1>8, <1>9 DEF Next, Staff

\* The calendar starts empty.
LEMMA InitTyped == Init => Typed
  BY CalendarAssumption DEF Init, Typed, TypeOK, Regular

\* The types hold; with them, every booking lies in the hours of a working day
\* and lasts as long as its direction says, whatever it was moved to.
THEOREM TypesHold == Spec => []TypeOK
<1>1. Typed => TypeOK
  BY DEF Typed
<1>2. QED
  BY <1>1, InitTyped, StepTyped, PTL DEF Spec

-----------------------------------------------------------------------------
(* A desk serves one booking of a direction at a time. *)

\* A granted booking reaches into no other of its direction.
LEMMA GrantedApart ==
  ASSUME Typed, OverlapOnlyAcrossDirections,
         NEW t \in Tickets, NEW b \in Booking, Written(t, b), Granted(t, b)
  PROVE  OverlapOnlyAcrossDirections'
<1>t. ticket \in [Tickets -> Booking \cup {None}]
  BY DEF Typed, TypeOK
<1>1. ticket'[t] = b /\ \A u \in Tickets \ {t} : ticket'[u] = ticket[u]
  BY <1>t DEF Written
<1>2. \A u \in Tickets \ {t} :
        Open(u) /\ ticket[u].country = b.country
        /\ Overlap(b.start, b.dur, ticket[u].start, ticket[u].dur) => ticket[u].desk # b.desk
  BY FreeMeans, CalendarAssumption DEF Granted
<1> SUFFICES ASSUME NEW u \in Tickets, NEW v \in Tickets, u # v,
                    Open(u)', Open(v)', ticket'[u].desk = ticket'[v].desk,
                    Overlap(ticket'[u].start, ticket'[u].dur, ticket'[v].start, ticket'[v].dur)
             PROVE  ticket'[u].country # ticket'[v].country
  BY DEF OverlapOnlyAcrossDirections
<1>3. CASE u = t
  BY <1>3, <1>1, <1>2 DEF Open
<1>4. CASE v = t
  BY <1>4, <1>1, <1>2 DEF Open, Overlap
<1>5. CASE u # t /\ v # t
  BY <1>5, <1>1 DEF Open, OverlapOnlyAcrossDirections
<1>6. QED
  BY <1>3, <1>4, <1>5

\* A ticket that is closed is in nobody's way.
LEMMA ClosedApart ==
  ASSUME Typed, OverlapOnlyAcrossDirections,
         NEW t \in Tickets, NEW b \in Booking, Written(t, b), ~b.open
  PROVE  OverlapOnlyAcrossDirections'
<1>1. ticket'[t] = b /\ \A u \in Tickets \ {t} : ticket'[u] = ticket[u]
  BY DEF Typed, TypeOK, Written
<1>2. ~Open(t)'
  BY <1>1 DEF Open
<1>3. QED
  BY <1>1, <1>2 DEF OverlapOnlyAcrossDirections, Open

\* A desk serves two open bookings at once only if their directions differ, whatever
\* is moved, blocked, switched and turned, and whichever holds are set too late.
THEOREM BookingsApart == Spec => []OverlapOnlyAcrossDirections
<1>1. Init => OverlapOnlyAcrossDirections
  BY DEF Init, OverlapOnlyAcrossDirections, Open
<1>2. Typed /\ OverlapOnlyAcrossDirections /\ [Next]_vars => OverlapOnlyAcrossDirections'
  <2> SUFFICES ASSUME Typed, OverlapOnlyAcrossDirections, [Next]_vars
               PROVE  OverlapOnlyAcrossDirections'
    OBVIOUS
  <2>1. CASE UNCHANGED ticket
    BY <2>1 DEF OverlapOnlyAcrossDirections, Open
  <2>2. CASE Clients
    <3>1. ASSUME NEW t \in Tickets, NEW b \in Booking, Written(t, b), Fits(t, b)
          PROVE  OverlapOnlyAcrossDirections'
      BY <3>1, GrantedApart, ClosedApart DEF Fits
    <3>2. QED
      BY <2>1, <2>2, <3>1, Bookings DEF Typed
  <2>3. CASE Staff \/ Tick \/ UNCHANGED vars
    BY <2>1, <2>3 DEF Staff, CreateBlockedSlot, DeleteBlockedSlot, AssignDesk, SwitchDesk, TurnDesk,
                      Tick, vars
  <2>4. QED
    BY <2>2, <2>3 DEF Next
<1>3. QED
  BY <1>1, <1>2, InitTyped, StepTyped, PTL DEF Spec

-----------------------------------------------------------------------------
(* Blocked hours. *)

\* A desk that is not blocked has nobody away during the booking.
LEMMA UnblockedMeans ==
  ASSUME TypeOK, NEW start \in Int, NEW dur \in Nat, NEW d \in Desks, d \notin BlockedDesks(start, dur),
         NEW b \in blocks, seat[b.employee] = d, b.date = DateOf(start),
         NEW i \in b.from .. b.to - 1
  PROVE  SlotToDate(b.date, i, 0) \notin start .. start + dur - 1
<1>1. b \in Block
  BY DEF TypeOK
<1>2. ~Overlap(start, dur, SlotToDate(b.date, b.from, 0), b.to - b.from)
  BY CalendarAssumption DEF BlockedDesks
<1> DEFINE midnight == b.date * DayLength
<1>3. midnight \in Int /\ b.from \in Nat /\ b.to \in Nat
  <2>1. b.date \in Nat /\ DayLength \in Nat
    BY <1>1, CalendarAssumption DEF Block
  <2>2. midnight \in Int
    BY <2>1
  <2>3. QED
    BY <1>1, <2>2 DEF Block
<1>4. /\ SlotToDate(b.date, b.from, 0) = midnight + b.from
      /\ SlotToDate(b.date, i, 0) = midnight + i
  BY <1>3 DEF SlotToDate
<1> HIDE DEF midnight
<1>5. ~(start < midnight + b.from + (b.to - b.from) /\ midnight + b.from < start + dur)
  BY <1>2, <1>4 DEF Overlap
<1>6. QED
  BY <1>3, <1>4, <1>5

\* A booking is made or moved only to a time at which the employee who sits at
\* its desk is not away, with the hours as they are blocked and the desks as
\* they are taken at that moment.
THEOREM NobodyAwayIsBooked == Spec => NobodyBookedIntoBlockedHours
<1> DEFINE Respects(t) ==
             Open(t)' /\ (ticket[t] = None \/ ticket[t].start # ticket'[t].start) =>
               \A b \in blocks :
                 /\ seat[b.employee] = ticket'[t].desk
                 /\ b.date = DateOf(ticket'[t].start)
                 => ~ \E i \in b.from .. b.to - 1 :
                        SlotToDate(b.date, i, 0) \in
                          ticket'[t].start .. ticket'[t].start + ticket'[t].dur - 1
<1>1. ASSUME Typed, Next, NEW t \in Tickets
      PROVE  Respects(t)
  <2> SUFFICES ASSUME Open(t)', ticket[t] = None \/ ticket[t].start # ticket'[t].start,
                      NEW b \in blocks, seat[b.employee] = ticket'[t].desk,
                      b.date = DateOf(ticket'[t].start)
               PROVE  ~ \E i \in b.from .. b.to - 1 :
                          SlotToDate(b.date, i, 0) \in
                            ticket'[t].start .. ticket'[t].start + ticket'[t].dur - 1
    OBVIOUS
  <2>t. ticket \in [Tickets -> Booking \cup {None}]
    BY <1>1 DEF Typed, TypeOK
  <2>1. ticket'[t] # ticket[t]
    BY <1>1 DEF Open
  <2>2. Clients
    BY <1>1, <2>1 DEF Next, Staff, CreateBlockedSlot, DeleteBlockedSlot, AssignDesk, SwitchDesk,
                      TurnDesk, Tick
  <2>3. PICK u \in Tickets, c \in Booking : Written(u, c) /\ Fits(u, c)
    BY <1>1, <2>1, <2>2, Bookings DEF Typed
  <2>4. u = t /\ ticket'[t] = c
    BY <2>1, <2>3, <2>t DEF Written
  <2>5. c.desk \notin BlockedDesks(c.start, c.dur)
    BY <1>1, <2>3, <2>4, FreeMeans DEF Fits, Granted, Open
  <2>6. c.start \in Int /\ c.dur \in Nat /\ c.desk \in Desks
    BY DEF Booking
  <2>7. QED
    BY <1>1, <2>4, <2>5, <2>6, UnblockedMeans DEF Typed
<1> HIDE DEF Respects
<1>2. Typed /\ [Next]_vars => [\A t \in Tickets : Respects(t)]_vars
  BY <1>1
<1>3. QED
  BY <1>2, InitTyped, StepTyped, PTL DEF Spec, NobodyBookedIntoBlockedHours, Respects

-----------------------------------------------------------------------------
(* What the screen offers and what the server grants, at a site that goes by *)
(* the Moscow clock, as site.timezone does by default.                       *)

\* A time of a day, and the day and time of an instant.
LEMMA DayAndTime ==
  ASSUME NEW L \in Nat \ {0}
  PROVE  /\ \A d \in Nat, t \in 0 .. L - 1 : (d * L + t) \div L = d /\ (d * L + t) % L = t
         /\ \A s \in Int : s = (s \div L) * L + (s % L) /\ s % L \in 0 .. L - 1 /\ s \div L \in Int
<1>1. ASSUME NEW d \in Nat, NEW t \in 0 .. L - 1
      PROVE  (d * L + t) \div L = d /\ (d * L + t) % L = t
  OBVIOUS
<1>2. ASSUME NEW s \in Int
      PROVE  s = (s \div L) * L + (s % L)
  OBVIOUS
<1>3. ASSUME NEW s \in Int
      PROVE  s % L \in 0 .. L - 1 /\ s \div L \in Int
  OBVIOUS
<1>4. QED
  BY <1>1, <1>2, <1>3

\* Intervals of different days do not overlap, if each ends on its day.
LEMMA DaysApart ==
  ASSUME NEW L \in Nat, NEW d \in Int, NEW e \in Int,
         NEW t \in Nat, NEW durT \in Nat \ {0}, t + durT <= L,
         NEW u \in Nat, NEW durU \in Nat \ {0}, u + durU <= L,
         Overlap(d * L + t, durT, e * L + u, durU)
  PROVE  d = e
<1>1. ASSUME NEW a \in Int, NEW b \in Int, a < b
      PROVE  a * L + L <= b * L
  BY <1>1
<1>2. d * L \in Int /\ e * L \in Int
  OBVIOUS
<1>3. d * L + t < e * L + u + durU /\ e * L + u < d * L + t + durT
  BY DEF Overlap
<1>4. ~(d < e) /\ ~(e < d)
  BY <1>1, <1>2, <1>3
<1>5. QED
  BY <1>4

\* The slot of the grid that stands for an instant.
OnGrid(c, d, t, start) ==
  c \in Countries /\ d \in Days /\ t \in GenerateSlotTimes(c) /\ start = SlotToDate(d, t, 0)

\* A slot of the grid, taken apart into its date and its time of day.
LEMMA GridTime ==
  ASSUME NEW c, NEW d, NEW t, NEW start, OnGrid(c, d, t, start)
  PROVE  /\ DayLength \in Nat \ {0}
         /\ d \in Nat /\ t \in Nat /\ Duration[c] \in Nat \ {0}
         /\ start = d * DayLength + t /\ start \in Int
         /\ DateOf(start) = d /\ TimeOf(start) = t
         /\ t >= WorkdayStart /\ t + Duration[c] <= WorkdayEnd /\ t + Duration[c] <= DayLength
<1>1. /\ DayLength \in Nat /\ WorkdayStart \in Nat /\ WorkdayEnd \in 0 .. DayLength
      /\ Duration[c] \in Nat \ {0} /\ d \in Nat
  BY CalendarAssumption DEF OnGrid
<1>2. t \in WorkdayStart .. WorkdayEnd - Duration[c]
  BY DEF OnGrid, GenerateSlotTimes
<1>3. t \in 0 .. DayLength - 1 /\ DayLength \in Nat \ {0}
  BY <1>1, <1>2
<1>4. d * DayLength \in Int
  BY <1>1
<1>5. start = d * DayLength + t
  BY <1>1, <1>3, <1>4 DEF OnGrid, SlotToDate
<1>6. DateOf(start) = d /\ TimeOf(start) = t
  BY <1>1, <1>3, <1>5, DayAndTime DEF DateOf, TimeOf
<1>7. QED
  BY <1>1, <1>2, <1>3, <1>4, <1>5, <1>6

\* A regular booking that overlaps a slot of a day begins on that day.
LEMMA SameDay ==
  ASSUME NEW c, NEW d, NEW t, NEW start, OnGrid(c, d, t, start),
         NEW s \in Int, NEW dur \in Nat \ {0}, InHours(s, dur), Overlap(start, Duration[c], s, dur)
  PROVE  s \in DayBounds(d, 0)
<1> DEFINE L == DayLength
           e == s \div L
           u == s % L
<1>1. /\ L \in Nat \ {0} /\ d \in Nat /\ t \in Nat /\ Duration[c] \in Nat \ {0}
      /\ start = d * L + t /\ t + Duration[c] <= L
  BY GridTime
<1>2. s = e * L + u /\ u \in 0 .. L - 1 /\ e \in Int
  BY <1>1, DayAndTime
<1>3. u + dur <= L
  <2>1. WorkdayEnd \in 0 .. DayLength
    BY CalendarAssumption
  <2>2. u + dur <= WorkdayEnd
    BY DEF InHours, TimeOf
  <2>3. QED
    BY <1>1, <1>2, <2>1, <2>2
<1> HIDE DEF L, e, u
<1>4. d = e
  <2>1. Overlap(d * L + t, Duration[c], e * L + u, dur)
    BY <1>1, <1>2
  <2>2. L \in Nat /\ d \in Int /\ t \in Nat /\ u \in Nat
    BY <1>1, <1>2
  <2>3. QED
    BY <1>1, <1>2, <1>3, <2>1, <2>2, DaysApart
<1>5. (d + 1) * L = d * L + L /\ d * L \in Int
  BY <1>1
<1>6. DayBounds(d, 0) = d * L .. d * L + L - 1
  BY <1>1, <1>5 DEF DayBounds, SlotToDate, L
<1>7. QED
  BY <1>1, <1>2, <1>4, <1>5, <1>6

\* The two computations come to the same desks.
LEMMA SameBusy ==
  ASSUME Zone = 0, Typed, NEW c, NEW d, NEW t, NEW start, OnGrid(c, d, t, start)
  PROVE  ListBusy(d, c, start) =
           BusyDesks(c, start, Duration[c], None, None) \cup BlockedDesks(start, Duration[c])
<1> DEFINE dur == Duration[c]
<1>1. ASSUME NEW u \in Tickets, Open(u), Overlap(start, dur, ticket[u].start, ticket[u].dur)
      PROVE  ticket[u].start \in DayBounds(d, Zone)
  <2>1. ticket[u] \in Booking /\ InHours(ticket[u].start, ticket[u].dur)
    BY <1>1 DEF Typed, TypeOK, Regular, Open
  <2>2. ticket[u].start \in Int /\ ticket[u].dur \in Nat \ {0}
    BY <2>1 DEF Booking
  <2>3. QED
    BY <1>1, <2>1, <2>2, SameDay
<1>2. Tickets \ {None} = Tickets /\ Sessions \ {None} = Sessions
  BY CalendarAssumption
<1>3. DateOf(start) = d
  BY GridTime
<1>4. {ticket[u].desk : u \in {u \in Tickets : /\ Open(u) /\ ticket[u].country = c
                                               /\ ticket[u].start \in DayBounds(d, Zone)
                                               /\ Overlap(start, dur, ticket[u].start, ticket[u].dur)}}
        \cup {hold[s].desk : s \in {s \in Sessions : hold[s] # None /\ Overlap(start, dur, hold[s].start, dur)}}
      = BusyDesks(c, start, dur, None, None)
  BY <1>1, <1>2 DEF BusyDesks
<1>5. {seat[b.employee] : b \in {b \in blocks :
          /\ b.date = d /\ seat[b.employee] # None
          /\ Overlap(start, dur, SlotToDate(d, b.from, Zone), b.to - b.from)}}
      = BlockedDesks(start, dur)
  BY <1>3 DEF BlockedDesks
<1>6. QED
  BY <1>4, <1>5 DEF ListBusy

\* At every moment and on every day, a slot of the grid that the screen marks
\* available is one that the server grants, and any other is refused, as long as
\* the site goes by the Moscow clock: the day's bookings are all that can be in
\* the way, since every booking lies in the hours of one day.
THEOREM OfferHolds == ASSUME Zone = 0 PROVE Spec => []OfferKept
<1>1. ASSUME Typed, NEW c \in Countries, NEW d \in Days, NEW t \in GenerateSlotTimes(c), NEW start,
             start = SlotToDate(d, t, Zone)
      PROVE  start \in Available(d, c) <=> AssertSlotAvailable(c, start, Duration[c], None, None)
  <2>1. OnGrid(c, d, t, start)
    BY <1>1 DEF OnGrid
  <2>2. ListBusy(d, c, start) =
          BusyDesks(c, start, Duration[c], None, None) \cup BlockedDesks(start, Duration[c])
    BY <1>1, <2>1, SameBusy
  <2>3. /\ DateOf(start) = d /\ TimeOf(start) >= WorkdayStart
        /\ TimeOf(start) + Duration[c] <= WorkdayEnd
    BY <2>1, GridTime
  <2>4. AssertSlotAvailable(c, start, Duration[c], None, None) <=>
          WorkingDay(d) /\ start > now /\ DesksOf(c) \ ListBusy(d, c, start) # {}
    BY <2>2, <2>3 DEF AssertSlotAvailable, FreeDesks
  <2>5. start \in Available(d, c) <=>
          WorkingDay(d) /\ start > now /\ DesksOf(c) \ ListBusy(d, c, start) # {}
    BY <1>1 DEF Available, Listed
  <2>6. QED
    BY <2>4, <2>5
<1>2. Typed => OfferKept
  BY <1>1 DEF OfferKept
<1>3. QED
  BY <1>2, InitTyped, StepTyped, PTL DEF Spec

=============================================================================
