------------------------------ MODULE LiveUpdates ------------------------------
(***************************************************************************)
(* How a change of a ticket comes to be seen.  The transaction that makes  *)
(* it also does pg_notify; the API's one listening connection hands the    *)
(* notification to the open event streams; a stream reads the ticket again *)
(* and sends it to a browser, which replaces what it shows.  The board and *)
(* the manager's list know no stream and ask every few seconds.            *)
(*                                                                         *)
(* A behaviour follows one viewer: the client who holds the ticket, a      *)
(* listener to employee/events, the board, or a manager whose list shows   *)
(* one day and who may turn to another.  They do not meet but in the       *)
(* database.  The ticket is a count of its changes and the desk its holder *)
(* is sent to; what the changes are is the business of Queue.  Steps are   *)
(* the reads of the database, the arrivals at the browser and the failures *)
(* between.                                                                *)
(***************************************************************************)
EXTENDS Naturals, Sequences, FiniteSets

CONSTANTS
  Desks,
  ReservedDesk, \* the desk the ticket was booked for
  Days, Today,  \* the days a manager may pick, and the day of the ticket
  MaxChanges,   \* bounds: changes of the ticket,
  MaxLosses,    \* losses of the listening connection,
  MaxBreaks,    \* broken event streams,
  MaxPolls,     \* requests of the board or the list under way at once,
  MaxPicks,     \* how often the manager picks a day
  None

ASSUME UpdatesAssumption ==
  /\ ReservedDesk \in Desks /\ None \notin Desks
  /\ Today \in Days /\ None \notin Days /\ MaxPicks \in Nat
  /\ MaxChanges \in Nat /\ MaxLosses \in Nat /\ MaxBreaks \in Nat /\ MaxPolls \in Nat

VARIABLES
  viewer,    \* whose screen it is
  ticket,    \* the row with its active assignment: [n, desk]
  listening, \* whether LISTEN ticket_updates stands
  losses,    \* how often it fell
  inbox,     \* notifications on their way to the API
  phase,     \* of the viewer's event stream
  snap,      \* what its last read of the database found
  reread,    \* "no", "asked" or "done": the read that a notification caused
  wire,      \* messages on their way to the browser
  breaks,    \* how often the stream broke
  answer,    \* answers to the viewer's own requests, on their way
  screen,    \* what the browser shows
  day,       \* the manager's selectedDate
  picks,     \* how often it was changed
  list,      \* the manager's bookings: the day they are of, and the changes seen
  press      \* the day that was selected when a status was pressed, or None

listener == <<listening, losses, inbox>>
stream   == <<phase, snap, reread, wire, breaks>>
manager  == <<day, picks, list, press>>
vars     == <<viewer, ticket, listener, stream, answer, screen, manager>>

Viewers == {"client", "employee", "board", "manager"}
View    == [n : 0 .. MaxChanges, desk : Desks \cup {None}]
Phases  == {"opening", "read", "live", "broken"}
Opened  == [n |-> 0, desk |-> None]
Rows    == [day : Days, n : 0 .. MaxChanges]
Loads   == [rows : Rows, polled : BOOLEAN]

-----------------------------------------------------------------------------
(* The ticket and the notifications. *)

\* Any transaction that changes the ticket; event() notifies at its commit.
Changed(desk) ==
  /\ ticket.n < MaxChanges
  /\ ticket' = [n |-> ticket.n + 1, desk |-> desk]
  /\ inbox'  = IF listening THEN inbox + 1 ELSE inbox

Change(desk) ==
  /\ Changed(desk)
  /\ UNCHANGED <<viewer, listening, losses, stream, answer, screen, manager>>

\* The listening connection fails: what was on its way is lost, and the
\* streams are told nothing.
LoseListener ==
  /\ listening /\ losses < MaxLosses
  /\ listening' = FALSE
  /\ losses' = losses + 1
  /\ inbox' = 0
  /\ UNCHANGED <<viewer, ticket, stream, answer, screen, manager>>

\* scheduleReconnect, connect: LISTEN again.
Listen ==
  /\ ~listening
  /\ listening' = TRUE
  /\ UNCHANGED <<viewer, ticket, losses, inbox, stream, answer, screen, manager>>

\* A plausible bug: a notification that finds a read under way is ignored.
DeliverUnlessBusy ==
  /\ inbox > 0
  /\ inbox'  = inbox - 1
  /\ reread' = IF phase = "live" /\ reread = "no" THEN "asked" ELSE reread
  /\ UNCHANGED <<viewer, ticket, listening, losses, phase, snap, wire, breaks, answer, screen, manager>>

\* A plausible bug: the subject fires although nothing was notified.
DeliverUnasked ==
  /\ listening
  /\ inbox'  = inbox - 1
  /\ reread' = IF phase = "live" THEN "asked" ELSE reread
  /\ UNCHANGED <<viewer, ticket, listening, losses, phase, snap, wire, breaks, answer, screen, manager>>

\* The subject passes a notification to a stream that has subscribed;
\* switchMap drops a read that is under way and begins again.
Deliver ==
  /\ inbox > 0
  /\ inbox'  = inbox - 1
  /\ reread' = IF phase = "live" THEN "asked" ELSE reread
  /\ UNCHANGED <<viewer, ticket, listening, losses, phase, snap, wire, breaks, answer, screen, manager>>

-----------------------------------------------------------------------------
(* The event stream. *)

\* tickets/events: getPublicTicketStream reads the ticket first ...
ClientReads ==
  /\ viewer = "client" /\ phase = "opening"
  /\ snap'  = ticket
  /\ phase' = "read"
  /\ UNCHANGED <<viewer, ticket, listener, reread, wire, breaks, answer, screen, manager>>

\* ... and when the answer is there, sends it and subscribes.
ClientSubscribes ==
  /\ viewer = "client" /\ phase = "read"
  /\ wire'  = Append(wire, snap)
  /\ phase' = "live"
  /\ UNCHANGED <<viewer, ticket, listener, snap, reread, breaks, answer, screen, manager>>

\* A plausible bug: the employee's stream reads before it subscribes, as the client's.
EmployeeReadsFirst ==
  /\ viewer = "employee" /\ phase \in {"opening", "read"}
  /\ IF phase = "opening"
     THEN phase' = "read" /\ snap' = ticket /\ UNCHANGED reread
     ELSE phase' = "live" /\ reread' = "done" /\ UNCHANGED snap
  /\ UNCHANGED <<viewer, ticket, listener, wire, breaks, answer, screen, manager>>

\* employee/events: concat(of(undefined), allTickets()) begins the read and
\* has subscribed before the answer is there.
EmployeeSubscribes ==
  /\ viewer = "employee" /\ phase = "opening"
  /\ phase'  = "live"
  /\ reread' = "asked"
  /\ UNCHANGED <<viewer, ticket, listener, snap, wire, breaks, answer, screen, manager>>

\* The read that a notification, or the opening, asked for.
Reread ==
  /\ reread = "asked"
  /\ snap'   = ticket
  /\ reread' = "done"
  /\ UNCHANGED <<viewer, ticket, listener, phase, wire, breaks, answer, screen, manager>>

Emit ==
  /\ reread = "done"
  /\ wire'   = Append(wire, snap)
  /\ reread' = "no"
  /\ UNCHANGED <<viewer, ticket, listener, phase, snap, breaks, answer, screen, manager>>

\* The connection to the browser breaks, or a read fails and ends the stream.
Break ==
  /\ viewer \in {"client", "employee"}
  /\ phase # "broken" /\ breaks < MaxBreaks
  /\ phase'  = "broken"
  /\ breaks' = breaks + 1
  /\ reread' = "no"
  /\ wire'   = <<>>
  /\ UNCHANGED <<viewer, ticket, listener, snap, answer, screen, manager>>

\* A plausible bug: the new stream only subscribes.
ResumeWithoutRead ==
  /\ phase = "broken"
  /\ phase' = "live"
  /\ UNCHANGED <<viewer, ticket, listener, snap, reread, wire, breaks, answer, screen, manager>>

\* EventSource opens the stream again, after the three seconds of "retry".
Reconnect ==
  /\ phase = "broken"
  /\ phase' = "opening"
  /\ UNCHANGED <<viewer, ticket, listener, snap, reread, wire, breaks, answer, screen, manager>>

\* onmessage.
Show ==
  /\ wire # <<>>
  /\ screen' = Head(wire)
  /\ wire'   = Tail(wire)
  /\ UNCHANGED <<viewer, ticket, listener, phase, snap, reread, breaks, answer, manager>>

-----------------------------------------------------------------------------
(* Requests of the viewer, whose answers come by themselves. *)

\* checkInByHash and lookupTicket answer with the desk the ticket was booked
\* for, whichever desk its assignment names.
AnswerView(t) == [t EXCEPT !.desk = IF @ = None THEN None ELSE ReservedDesk]

\* checkIn: a change like any other, which the browser also gets as an answer.
CheckIn(desk) ==
  /\ viewer = "client" /\ answer = {}
  /\ Changed(desk)
  /\ answer' = {AnswerView(ticket')}
  /\ UNCHANGED <<viewer, listening, losses, stream, screen, manager>>

\* findTicket for the ticket on the screen: the stream stays as it is.
Lookup ==
  /\ viewer = "client" /\ answer = {}
  /\ answer' = {AnswerView(ticket)}
  /\ UNCHANGED <<viewer, ticket, listener, stream, screen, manager>>

\* A plausible bug: the board loads when it is mounted and never again.
PollOnce ==
  /\ viewer = "board" /\ screen = Opened /\ Cardinality(answer) < MaxPolls
  /\ answer' = answer \cup {ticket}
  /\ UNCHANGED <<viewer, ticket, listener, stream, screen, manager>>

\* getPublicBoard, asked again whether or not the last answer has come.
Poll ==
  /\ viewer = "board" /\ Cardinality(answer) < MaxPolls
  /\ answer' = answer \cup {ticket}
  /\ UNCHANGED <<viewer, ticket, listener, stream, screen, manager>>

\* Answers may overtake each other and the messages of the stream.
ShowAnswer(a) ==
  /\ viewer # "manager" /\ a \in answer
  /\ screen' = a
  /\ answer' = answer \ {a}
  /\ UNCHANGED <<viewer, ticket, listener, stream, manager>>

LoseAnswer(a) ==
  /\ viewer # "manager" /\ a \in answer
  /\ answer' = answer \ {a}
  /\ UNCHANGED <<viewer, ticket, listener, stream, screen, manager>>

-----------------------------------------------------------------------------
(* The manager's list of a day. *)

\* employee/bookings for a day, asked for by the timer or otherwise.
Load(d, polled) == [rows |-> [day |-> d, n |-> ticket.n], polled |-> polled]

Room == Cardinality(answer) < MaxPolls

\* The date input: the list is loaded at once, and what is still under way
\* for the other day is not called off.
PickDay(d) ==
  /\ viewer = "manager" /\ d # day /\ picks < MaxPicks /\ Room
  /\ day'    = d
  /\ picks'  = picks + 1
  /\ answer' = answer \cup {Load(d, FALSE)}
  /\ UNCHANGED <<viewer, ticket, listener, stream, screen, list, press>>

\* A plausible bug: the interval goes on asking for the day it was started with.
PollFirstDay ==
  /\ viewer = "manager" /\ Room
  /\ answer' = answer \cup {Load(Today, TRUE)}
  /\ UNCHANGED <<viewer, ticket, listener, stream, screen, manager>>

\* Every twenty seconds, for the day that is selected.
PollDay ==
  /\ viewer = "manager" /\ Room
  /\ answer' = answer \cup {Load(day, TRUE)}
  /\ UNCHANGED <<viewer, ticket, listener, stream, screen, manager>>

\* setBookings, whatever day is selected by now.
ShowRows(a) ==
  /\ viewer = "manager" /\ a \in answer
  /\ list'   = a.rows
  /\ answer' = answer \ {a}
  /\ UNCHANGED <<viewer, ticket, listener, stream, screen, day, picks, press>>

\* A load that fails empties the list, unless it was the timer's.
LoseRows(a) ==
  /\ viewer = "manager" /\ a \in answer
  /\ list'   = IF a.polled THEN list ELSE None
  /\ answer' = answer \ {a}
  /\ UNCHANGED <<viewer, ticket, listener, stream, screen, day, picks, press>>

\* setBookingStatus: a row is pressed; the buttons are off until the answer.
PressStatus ==
  /\ viewer = "manager" /\ press = None
  /\ list # None /\ list.day = Today
  /\ press' = day
  /\ UNCHANGED <<viewer, ticket, listener, stream, answer, screen, day, picks, list>>

\* Done: the list is loaded again for the day that was selected then ...
StatusChanged(desk) ==
  /\ press # None /\ Room
  /\ Changed(desk)
  /\ answer' = answer \cup {[rows |-> [day |-> press, n |-> ticket'.n], polled |-> FALSE]}
  /\ press'  = None
  /\ UNCHANGED <<viewer, listening, losses, stream, screen, day, picks, list>>

\* ... or refused, and nothing is loaded.
StatusRefused ==
  /\ press # None
  /\ press' = None
  /\ UNCHANGED <<viewer, ticket, listener, stream, answer, screen, day, picks, list>>

-----------------------------------------------------------------------------
Init ==
  /\ viewer \in Viewers
  /\ ticket    = Opened
  /\ listening = TRUE
  /\ losses    = 0
  /\ inbox     = 0
  /\ phase     = "opening"
  /\ snap      = Opened
  /\ reread    = "no"
  /\ wire      = <<>>
  /\ breaks    = 0
  /\ answer    = {}
  /\ screen    = Opened
  /\ day       = Today
  /\ picks     = 0
  /\ list      = None
  /\ press     = None

\* A stream is opened, and its reads are done.
Opening == ClientReads \/ ClientSubscribes \/ EmployeeSubscribes \/ Reconnect
Reading == Reread \/ Emit

Answered == \E a \in answer : ShowAnswer(a) \/ ShowRows(a)

Managing ==
  \/ \E d \in Days : PickDay(d)
  \/ PollDay \/ PressStatus \/ StatusRefused
  \/ \E desk \in Desks \cup {None} : StatusChanged(desk)

Next ==
  \/ \E desk \in Desks \cup {None} : Change(desk) \/ CheckIn(desk)
  \/ LoseListener \/ Listen \/ Deliver
  \/ Opening \/ Reading \/ Break \/ Show
  \/ Lookup \/ Poll \/ Answered \/ Managing
  \/ \E a \in answer : LoseAnswer(a) \/ LoseRows(a)

\* Programs and networks go on working, and a screen that asks again and again
\* is answered in the end.  Nobody has to change or to break anything.
Fairness ==
  /\ WF_vars(Listen) /\ WF_vars(Deliver)
  /\ WF_vars(Opening) /\ WF_vars(Reading) /\ WF_vars(Show)
  /\ WF_vars(Poll) /\ WF_vars(PollDay) /\ SF_vars(Answered)

Spec == Init /\ [][Next]_vars /\ Fairness

-----------------------------------------------------------------------------
\* Every variable keeps its type.
TypeOK ==
  /\ viewer \in Viewers
  /\ ticket \in View /\ snap \in View /\ screen \in View
  /\ listening \in BOOLEAN /\ losses \in 0 .. MaxLosses
  /\ inbox \in 0 .. MaxChanges
  /\ phase \in Phases /\ reread \in {"no", "asked", "done"}
  /\ wire \in Seq(View)
  /\ breaks \in 0 .. MaxBreaks
  /\ answer \subseteq View \cup Loads
  /\ day \in Days /\ picks \in 0 .. MaxPicks
  /\ list \in Rows \cup {None} /\ press \in Days \cup {None}

\* An employee's stream with nothing under way shows the ticket as it is,
\* unless the listening connection was ever lost: subscribing before the read
\* leaves no moment at which a change is missed, not even while it reopens.
QuietEmployeeIsCurrent ==
  /\ viewer = "employee" /\ losses = 0 /\ inbox = 0
  /\ phase = "live" /\ reread = "no" /\ wire = <<>>
  => screen = ticket

\* The board shows the last change in the end, though answers get lost and
\* overtake each other.
BoardCatchesUp == viewer = "board" => <>[](screen = ticket)

\* However often a manager turns to another day and back, and changes a status
\* while doing so, the list comes to show the selected day as it is.
ManagerCatchesUp ==
  viewer = "manager" => <>[](list = [day |-> day, n |-> ticket.n])

\* While the listener stands, an employee's screen comes to show the last
\* change for good, whatever broke on the way.
EmployeeCatchesUp == viewer = "employee" /\ []listening => <>[](screen = ticket)

\* A change that reaches a client's live stream is shown, or the stream breaks.
ClientToldOfChange ==
  \A n \in 1 .. MaxChanges :
    (viewer = "client" /\ reread = "asked" /\ ticket.n >= n)
      ~> (screen.n >= n \/ phase = "broken")

\* docs/architecture.md: after a lost connection the interface reads the
\* present state again.  A client whose stream broke comes to see at least
\* what the ticket was then, unless it breaks again.
ClientRereadsAfterBreak ==
  \A n \in 1 .. MaxChanges, k \in 1 .. MaxBreaks :
    (viewer = "client" /\ phase = "broken" /\ breaks = k /\ ticket.n = n)
      ~> (screen.n >= n \/ breaks > k)

\* No change is lost on a client: the stream shows it, or breaks and the next one
\* does.
ClientSeesChange == ClientToldOfChange /\ ClientRereadsAfterBreak
=============================================================================
