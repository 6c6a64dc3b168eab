-------------------------- MODULE BookingWizardProofs --------------------------
(***************************************************************************)
(* What holds of the booking wizard of a client who waits for answers, for *)
(* every grid of slots and every number of other clients.                  *)
(*                                                                         *)
(* One request is under way at a time, and the buttons wait for it: while  *)
(* it is out, only timers and the visit move the screen.  So the request   *)
(* knows what the screen looks like when its answer comes.                 *)
(***************************************************************************)
EXTENDS BookingWizard, TLAPS

Asking == [what : Request, reply : Reply, hold : Holds \cup {None}, ticket : States \cup {None}]

Alone == \A a, b \in asked : a = b

\* The types, with those of the requests under way.
Typed ==
  /\ TypeOK
  /\ asked \subseteq Asking
  /\ load # None => load.available \subseteq load.times
  /\ step \in 2 .. 4 => country \in Countries

\* Where the screen is while a request is out, and what the request asks for.
Awaited(a) ==
  /\ a.what.kind = "hold"    => step = 2
  /\ a.what.kind = "refresh" => step \in 2 .. 4
  /\ a.what.kind = "create"  => step \in {2, 4}
  /\ a.what.kind = "cancel"  => step = 5
  /\ a.what.kind = "find"    => made # None

Asks(a) ==
  /\ a.what.kind \in {"hold", "create"} => a.what.time \in Slots /\ a.what.country \in Countries
  /\ a.what.kind = "hold" => a.what.id = None
  /\ a.reply = "sent" => a.hold = None

\* An answer brings what it says.
Brings(a) ==
  /\ a.reply \in {"held", "refreshed"} => a.hold # None
  /\ a.reply = "ticket" => a.ticket # None
  /\ a.what.kind = "find" => a.reply \in {"sent", "ticket"}

Pending == \A a \in asked : Awaited(a) /\ Asks(a) /\ Brings(a)

WizardInv == Typed /\ Alone /\ Pending /\ StepIsBacked

-----------------------------------------------------------------------------
(* What the steps are made of. *)

\* The two states of a ticket are states, and None is neither.
LEMMA StatesAre == "open" \in States /\ "closed" \in States /\ "open" # None /\ "closed" # None
BY WizardAssumption DEF States

\* A load brings the slots of the direction on the screen.
LEMMA RowsAreListed == ASSUME Typed, country \in Countries
                       PROVE  Rows \in Listing /\ Rows.available \subseteq Rows.times
<1>1. Grid[country] \subseteq Slots
  BY WizardAssumption
<1> QED
  BY <1>1 DEF Rows, Listing

\* The list is loaded again in the middle steps and dropped in the others.
LEMMA RestartIsTyped ==
  ASSUME Typed, NEW s \in 1 .. 5, s \in 2 .. 4 => country \in Countries, Restarted(s)
  PROVE  load' \in Listing \cup {None} /\ (load' # None => load'.available \subseteq load'.times)
BY RowsAreListed DEF Restarted

\* The list that is not shown is empty.
LEMMA HiddenIsListed == Hidden \in Listing /\ Hidden.available \subseteq Hidden.times
BY DEF Hidden, Listing

\* A list that is kept or dropped is a list.
LEMMA KeptIsTyped ==
  ASSUME Typed, NEW s, Kept(s)
  PROVE  list' \in Listing /\ list'.available \subseteq list'.times
BY HiddenIsListed DEF Kept, Typed, TypeOK

\* A client who waits has one request out, the one just sent.
LEMMA OneIsAsked ==
  ASSUME Patient, MayAsk, NEW kind, NEW id, NEW time, NEW c, Ask(kind, id, time, c)
  PROVE  asked' = {[what  |-> [kind |-> kind, id |-> id, time |-> time, country |-> c],
                    reply |-> "sent", hold |-> None, ticket |-> None]}
BY DEF MayAsk, Ask

\* An answer takes the place of its request.
LEMMA OneIsAnswered ==
  ASSUME Alone, NEW a \in asked, NEW reply, NEW h, NEW t, Answer(a, reply, h, t)
  PROVE  asked' = {[a EXCEPT !.reply = reply, !.hold = h, !.ticket = t]}
<1>1. asked = {a}
  BY DEF Alone
<1> QED
  BY <1>1 DEF Answer

\* When it has come, or is lost, nothing is out.
LEMMA NothingIsAsked ==
  ASSUME Alone, NEW a \in asked, asked' = asked \ {a}
  PROVE  asked' = {}
BY DEF Alone

-----------------------------------------------------------------------------
(* The client and the timers. *)

LEMMA InitKeeps == Init => WizardInv
BY HiddenIsListed, WizardAssumption
DEF WizardInv, Typed, TypeOK, Alone, Pending, StepIsBacked, FormBehindHold, TicketOnScreen, Init

\* The moves of the screen without a request.
LEMMA MovesKeep ==
  ASSUME WizardInv, Patient,
         \/ \E c \in Countries : PickCountry(c)
         \/ ToSlots \/ PickDate \/ NewBooking \/ Reload
         \/ \E to \in 1 .. 4 : Turn(to)
         \/ Load \/ Loaded \/ LoadFails
  PROVE  WizardInv'
<1> USE DEF WizardInv, screen, server
<1>1. ASSUME NEW c \in Countries, PickCountry(c) PROVE WizardInv'
  <2>1. Typed'
    BY <1>1 DEF PickCountry, MayAsk, Typed, TypeOK
  <2>2. Alone' /\ Pending'
    BY <1>1 DEF PickCountry, MayAsk, Typed, TypeOK, Alone, Pending, Awaited, Asks, Brings
  <2>3. StepIsBacked'
    BY <1>1 DEF PickCountry, MayAsk, Typed, TypeOK, StepIsBacked, FormBehindHold, TicketOnScreen
  <2> QED
    BY <2>1, <2>2, <2>3 DEF WizardInv
<1>2. CASE ToSlots
  <2>1. Typed'
    BY <1>2, RestartIsTyped, HiddenIsListed DEF ToSlots, MayAsk, Typed, TypeOK
  <2>2. Alone' /\ Pending'
    BY <1>2 DEF ToSlots, MayAsk, Typed, TypeOK, Alone, Pending, Awaited, Asks, Brings
  <2>3. StepIsBacked'
    BY <1>2 DEF ToSlots, MayAsk, Typed, TypeOK, StepIsBacked, FormBehindHold, TicketOnScreen
  <2> QED
    BY <2>1, <2>2, <2>3 DEF WizardInv
<1>3. CASE PickDate
  <2>1. Typed'
    BY <1>3, RestartIsTyped DEF PickDate, MayAsk, Typed, TypeOK
  <2>2. Alone' /\ Pending'
    BY <1>3 DEF PickDate, MayAsk, Typed, TypeOK, Alone, Pending, Awaited, Asks, Brings
  <2>3. StepIsBacked'
    BY <1>3 DEF PickDate, MayAsk, Typed, TypeOK, StepIsBacked, FormBehindHold, TicketOnScreen
  <2> QED
    BY <2>1, <2>2, <2>3 DEF WizardInv
<1>4. CASE NewBooking
  <2>1. Typed'
    BY <1>4, HiddenIsListed, WizardAssumption DEF NewBooking, ResetBooking, MayAsk, Typed, TypeOK
  <2>2. Alone' /\ Pending'
    BY <1>4 DEF NewBooking, ResetBooking, MayAsk, Typed, TypeOK, Alone, Pending, Awaited, Asks, Brings
  <2>3. StepIsBacked'
    BY <1>4 DEF NewBooking, ResetBooking, MayAsk, Typed, TypeOK, StepIsBacked, FormBehindHold, TicketOnScreen
  <2> QED
    BY <2>1, <2>2, <2>3 DEF WizardInv
<1>5. CASE Reload
  <2>1. Typed'
    BY <1>5, StatesAre, HiddenIsListed DEF Reload, HasTicket, Typed, TypeOK
  <2>2. Alone' /\ Pending'
    BY <1>5, StatesAre DEF Reload, HasTicket, Typed, TypeOK, Alone, Pending, Awaited, Asks, Brings
  <2>3. StepIsBacked'
    BY <1>5, StatesAre DEF Reload, HasTicket, Typed, TypeOK, StepIsBacked, FormBehindHold, TicketOnScreen
  <2> QED
    BY <2>1, <2>2, <2>3 DEF WizardInv
<1>6. ASSUME NEW to \in 1 .. 4, Turn(to) PROVE WizardInv'
  <2>1. Typed'
    BY <1>6, RestartIsTyped, KeptIsTyped DEF Turn, MayAsk, Typed, TypeOK
  <2>2. Alone' /\ Pending'
    BY <1>6 DEF Turn, MayAsk, Typed, TypeOK, Alone, Pending, Awaited, Asks, Brings
  <2>3. StepIsBacked'
    BY <1>6 DEF Turn, MayAsk, Typed, TypeOK, StepIsBacked, FormBehindHold, TicketOnScreen
  <2> QED
    BY <2>1, <2>2, <2>3 DEF WizardInv
<1>7. CASE Load
  <2>1. Typed'
    BY <1>7, RowsAreListed DEF Load, Typed, TypeOK
  <2>2. Alone' /\ Pending'
    BY <1>7 DEF Load, Typed, TypeOK, Alone, Pending, Awaited, Asks, Brings
  <2>3. StepIsBacked'
    BY <1>7 DEF Load, Typed, TypeOK, StepIsBacked, FormBehindHold, TicketOnScreen
  <2> QED
    BY <2>1, <2>2, <2>3 DEF WizardInv
<1>8. CASE Loaded
  <2>1. Typed'
    BY <1>8 DEF Loaded, Listing, Typed, TypeOK
  <2>2. Alone' /\ Pending'
    BY <1>8 DEF Loaded, Typed, TypeOK, Alone, Pending, Awaited, Asks, Brings
  <2>3. StepIsBacked'
    BY <1>8 DEF Loaded, Typed, TypeOK, StepIsBacked, FormBehindHold, TicketOnScreen
  <2> QED
    BY <2>1, <2>2, <2>3 DEF WizardInv
<1>9. CASE LoadFails
  <2>1. Typed'
    BY <1>9 DEF LoadFails, Typed, TypeOK
  <2>2. Alone' /\ Pending'
    BY <1>9 DEF LoadFails, Typed, TypeOK, Alone, Pending, Awaited, Asks, Brings
  <2>3. StepIsBacked'
    BY <1>9 DEF LoadFails, Typed, TypeOK, StepIsBacked, FormBehindHold, TicketOnScreen
  <2> QED
    BY <2>1, <2>2, <2>3 DEF WizardInv
<1> QED
  BY <1>1, <1>2, <1>3, <1>4, <1>5, <1>6, <1>7, <1>8, <1>9

\* The requests, each from its place on the screen.
LEMMA AsksKeep ==
  ASSUME WizardInv, Patient,
         \/ \E t \in Slots : ClickSlot(t)
         \/ ClickRefresh \/ ClickCreate \/ ClickCancel \/ ClickFind
  PROVE  WizardInv'
<1> USE DEF WizardInv, screen, server
<1>1. ASSUME NEW t \in Slots, ClickSlot(t) PROVE WizardInv'
  <2>1. Typed'
    BY <1>1, OneIsAsked, WizardAssumption DEF ClickSlot, Asking, Request, Reply, Holds, Typed, TypeOK
  <2>2. Alone' /\ Pending'
    BY <1>1, OneIsAsked DEF ClickSlot, Typed, TypeOK, Alone, Pending, Awaited, Asks, Brings
  <2>3. StepIsBacked'
    BY <1>1, OneIsAsked DEF ClickSlot, Typed, TypeOK, StepIsBacked, FormBehindHold, TicketOnScreen
  <2> QED
    BY <2>1, <2>2, <2>3 DEF WizardInv
<1>2. CASE ClickRefresh
  <2>1. Typed'
    BY <1>2, OneIsAsked, WizardAssumption DEF ClickRefresh, Asking, Request, Reply, Holds, Typed, TypeOK
  <2>2. Alone' /\ Pending'
    BY <1>2, OneIsAsked DEF ClickRefresh, Typed, TypeOK, Alone, Pending, Awaited, Asks, Brings
  <2>3. StepIsBacked'
    BY <1>2, OneIsAsked DEF ClickRefresh, Typed, TypeOK, StepIsBacked, FormBehindHold, TicketOnScreen
  <2> QED
    BY <2>1, <2>2, <2>3 DEF WizardInv
<1>3. CASE ClickCreate
  <2>1. Typed'
    BY <1>3, OneIsAsked, WizardAssumption DEF ClickCreate, Asking, Request, Reply, Holds, Typed, TypeOK
  <2>2. Alone' /\ Pending'
    BY <1>3, OneIsAsked DEF ClickCreate, Typed, TypeOK, Alone, Pending, Awaited, Asks, Brings
  <2>3. StepIsBacked'
    BY <1>3, OneIsAsked DEF ClickCreate, Typed, TypeOK, StepIsBacked, FormBehindHold, TicketOnScreen
  <2> QED
    BY <2>1, <2>2, <2>3 DEF WizardInv
<1>4. CASE ClickCancel
  <2>1. Typed'
    BY <1>4, OneIsAsked, WizardAssumption DEF ClickCancel, Asking, Request, Reply, Holds, Typed, TypeOK
  <2>2. Alone' /\ Pending'
    BY <1>4, OneIsAsked DEF ClickCancel, Typed, TypeOK, Alone, Pending, Awaited, Asks, Brings
  <2>3. StepIsBacked'
    BY <1>4, OneIsAsked DEF ClickCancel, Typed, TypeOK, StepIsBacked, FormBehindHold, TicketOnScreen
  <2> QED
    BY <2>1, <2>2, <2>3 DEF WizardInv
<1>5. CASE ClickFind
  <2>1. Typed'
    BY <1>5, OneIsAsked, WizardAssumption DEF ClickFind, Asking, Request, Reply, Holds, Typed, TypeOK
  <2>2. Alone' /\ Pending'
    BY <1>5, OneIsAsked DEF ClickFind, Typed, TypeOK, Alone, Pending, Awaited, Asks, Brings
  <2>3. StepIsBacked'
    BY <1>5, OneIsAsked DEF ClickFind, Typed, TypeOK, StepIsBacked, FormBehindHold, TicketOnScreen
  <2> QED
    BY <2>1, <2>2, <2>3 DEF WizardInv
<1> QED
  BY <1>1, <1>2, <1>3, <1>4, <1>5

\* The timers, the visit and the other clients move on while a request is out.
LEMMA OthersKeep ==
  ASSUME WizardInv, Countdown \/ HoldExpires \/ Others
  PROVE  WizardInv'
<1> USE DEF WizardInv, screen
<1>1. CASE Countdown
  <2> DEFINE then == IF step \in {3, 4} THEN 2 ELSE step
  <2>1. /\ step' = then /\ hold' = None /\ slot' = None
        /\ UNCHANGED <<country, ticket, list, asked, held, made, taken>>
    BY <1>1 DEF Countdown, server
  <2>2. then \in 1 .. 5 /\ (then \in 2 .. 4 => step \in 2 .. 4)
    BY DEF Typed, TypeOK
  <2>3. load' = IF then \in 2 .. 4 THEN Rows ELSE None
    BY <1>1, <2>1 DEF Countdown, Restarted
  <2>4. Typed'
    <3>1. load' \in Listing \cup {None} /\ (load' # None => load'.available \subseteq load'.times)
      BY <2>2, <2>3, RowsAreListed DEF Typed
    <3> QED
      BY <2>1, <2>2, <3>1 DEF Typed, TypeOK
  <2>5. Alone' /\ Pending'
    BY <2>1, <2>2 DEF Typed, TypeOK, Alone, Pending, Awaited, Asks, Brings
  <2>6. StepIsBacked'
    BY <2>1, <2>2 DEF Typed, TypeOK, StepIsBacked, FormBehindHold, TicketOnScreen
  <2> QED
    BY <2>4, <2>5, <2>6
<1>2. CASE HoldExpires
  <2>1. Typed'
    BY <1>2 DEF HoldExpires, Typed, TypeOK
  <2>2. Alone' /\ Pending'
    BY <1>2 DEF HoldExpires, Typed, TypeOK, Alone, Pending, Awaited, Asks, Brings
  <2>3. StepIsBacked'
    BY <1>2 DEF HoldExpires, Typed, TypeOK, StepIsBacked, FormBehindHold, TicketOnScreen
  <2> QED
    BY <2>1, <2>2, <2>3 DEF WizardInv
<1>3. CASE Visit
  <2>1. Typed'
    BY <1>3, StatesAre DEF Visit, HasTicket, Typed, TypeOK
  <2>2. Alone' /\ Pending'
    BY <1>3, StatesAre DEF Visit, HasTicket, Typed, TypeOK, Alone, Pending, Awaited, Asks, Brings
  <2>3. StepIsBacked'
    BY <1>3, StatesAre DEF Visit, HasTicket, Typed, TypeOK, StepIsBacked, FormBehindHold, TicketOnScreen
  <2> QED
    BY <2>1, <2>2, <2>3 DEF WizardInv
<1>4. ASSUME NEW c \in Countries, NEW t \in Slots, OtherTakes(c, t) \/ OtherLeaves(c, t)
      PROVE  WizardInv'
  <2>1. Typed'
    BY <1>4, WizardAssumption DEF OtherTakes, OtherLeaves, Typed, TypeOK
  <2>2. Alone' /\ Pending'
    BY <1>4 DEF OtherTakes, OtherLeaves, Typed, TypeOK, Alone, Pending, Awaited, Asks, Brings
  <2>3. StepIsBacked'
    BY <1>4 DEF OtherTakes, OtherLeaves, Typed, TypeOK, StepIsBacked, FormBehindHold, TicketOnScreen
  <2> QED
    BY <2>1, <2>2, <2>3 DEF WizardInv
<1> QED
  BY <1>1, <1>2, <1>3, <1>4 DEF Others

-----------------------------------------------------------------------------
(* The API. *)

\* What a request may be answered with and leave the invariant alone.
LEMMA AnswerKeeps ==
  ASSUME WizardInv, NEW a \in asked, NEW reply \in Reply,
         NEW h \in Holds \cup {None}, NEW t \in States \cup {None},
         Answer(a, reply, h, t), UNCHANGED screen, made # None => made' # None,
         reply # "sent",
         reply \in {"held", "refreshed"} => h # None,
         reply = "ticket" => t # None,
         a.what.kind = "find" => reply = "ticket",
         made' \in States \cup {None},
         held' \in [id : Ids, time : Slots, country : Countries, fresh : BOOLEAN] \cup {None},
         taken' = taken
  PROVE  WizardInv'
<1> DEFINE b == [a EXCEPT !.reply = reply, !.hold = h, !.ticket = t]
<1>1. asked' = {b}
  BY OneIsAnswered DEF WizardInv
<1>2. a \in Asking
  BY DEF WizardInv, Typed
<1>3. b \in Asking /\ b.what = a.what /\ b.reply = reply /\ b.hold = h /\ b.ticket = t
  BY <1>2 DEF Asking
<1> HIDE DEF b
<1>4. Typed'
  BY <1>1, <1>3 DEF WizardInv, Typed, TypeOK, screen, Asking
<1>5. Alone' /\ Pending'
  BY <1>1, <1>3 DEF WizardInv, Pending, Alone, Awaited, Asks, Brings, screen
<1>6. StepIsBacked'
  BY DEF WizardInv, StepIsBacked, FormBehindHold, TicketOnScreen, screen
<1> QED
  BY <1>4, <1>5, <1>6 DEF WizardInv

\* The screen knows one identifier, and there are two: a fresh one is left.
LEMMA FreshIsLeft ==
  ASSUME WizardInv, NEW a \in asked, a.what.kind = "hold", a.reply = "sent"
  PROVE  Fresh \in Ids
<1>1. 1 \in Ids /\ 2 \in Ids
  BY WizardAssumption DEF Ids
<1>2. PICK i \in Ids : hold = None \/ hold.id # i
  BY <1>1
<1>3. \A b \in asked : b.what.id # i /\ (b.hold = None \/ b.hold.id # i)
  BY <1>2, WizardAssumption DEF WizardInv, Alone, Pending, Asks
<1> QED
  BY <1>2, <1>3 DEF Fresh

\* A hold is given, given back as it is, or refused.
LEMMA ProcessHoldKeeps ==
  ASSUME WizardInv, NEW a \in asked, ProcessHold(a)
  PROVE  WizardInv'
<1> DEFINE r == a.what
           Fine == [id : Ids, time : Slots, country : Countries, fresh : BOOLEAN]
<1>1. r.kind = "hold" /\ a.reply = "sent" /\ UNCHANGED <<screen, made, taken>>
  BY DEF ProcessHold
<1>2. r.time \in Slots /\ r.country \in Countries
  BY <1>1 DEF WizardInv, Pending, Asks
<1>3. held \in Fine \cup {None} /\ made \in States \cup {None}
  BY DEF WizardInv, Typed, TypeOK
<1>4. CASE held # None /\ Answer(a, "held", Shown(held), None) /\ UNCHANGED held
  <2>1. Shown(held) \in Holds
    BY <1>3, <1>4 DEF Shown, Holds
  <2> QED
    BY <1>1, <1>3, <1>4, <2>1, AnswerKeeps, WizardAssumption DEF Reply
<1>5. CASE /\ held' = [id |-> Fresh, time |-> r.time, country |-> r.country, fresh |-> TRUE]
           /\ Answer(a, "held", Shown(held'), None)
  <2>1. held' \in Fine
    BY <1>1, <1>2, <1>5, FreshIsLeft
  <2>2. Shown(held') \in Holds
    BY <2>1 DEF Shown, Holds
  <2> QED
    BY <1>1, <1>3, <1>5, <2>1, <2>2, AnswerKeeps, WizardAssumption DEF Reply
<1>6. CASE Answer(a, "failed", None, None) /\ UNCHANGED held
  BY <1>1, <1>3, <1>6, AnswerKeeps DEF Reply
<1> QED
  BY <1>4, <1>5, <1>6 DEF ProcessHold, HeldAt

\* A refresh prolongs the hold the screen names, or is refused.
LEMMA ProcessRefreshKeeps ==
  ASSUME WizardInv, NEW a \in asked, ProcessRefresh(a)
  PROVE  WizardInv'
<1> DEFINE Fine == [id : Ids, time : Slots, country : Countries, fresh : BOOLEAN]
<1>1. a.what.kind = "refresh" /\ a.reply = "sent" /\ UNCHANGED <<screen, made, taken>>
  BY DEF ProcessRefresh
<1>2. held \in Fine \cup {None} /\ made \in States \cup {None}
  BY DEF WizardInv, Typed, TypeOK
<1>3. CASE held # None /\ held' = [held EXCEPT !.fresh = FALSE] /\ Answer(a, "refreshed", Shown(held'), None)
  <2>1. held' \in Fine
    BY <1>2, <1>3
  <2>2. Shown(held') \in Holds
    BY <2>1 DEF Shown, Holds
  <2> QED
    BY <1>1, <1>2, <1>3, <2>1, <2>2, AnswerKeeps, WizardAssumption DEF Reply
<1>4. CASE Answer(a, "failed", None, None) /\ UNCHANGED held
  BY <1>1, <1>2, <1>4, AnswerKeeps DEF Reply
<1> QED
  BY <1>3, <1>4 DEF ProcessRefresh

\* A booking is answered with the ticket there is, a new one, or a refusal.
LEMMA ProcessCreateKeeps ==
  ASSUME WizardInv, NEW a \in asked, ProcessCreate(a)
  PROVE  WizardInv'
<1> DEFINE Fine == [id : Ids, time : Slots, country : Countries, fresh : BOOLEAN]
<1>1. a.what.kind = "create" /\ a.reply = "sent" /\ UNCHANGED <<screen, taken>>
  BY DEF ProcessCreate
<1>2. held \in Fine \cup {None} /\ made \in States \cup {None}
  BY DEF WizardInv, Typed, TypeOK
<1>3. CASE Answer(a, "failed", None, None) /\ UNCHANGED <<held, made>>
  BY <1>1, <1>2, <1>3, AnswerKeeps DEF Reply
<1>4. CASE HasTicket /\ Answer(a, "ticket", None, made) /\ UNCHANGED <<held, made>>
  BY <1>1, <1>2, <1>4, AnswerKeeps, StatesAre DEF Reply, HasTicket
<1>5. CASE Answer(a, "conflict", None, None) /\ held' \in {held, None} /\ UNCHANGED made
  BY <1>1, <1>2, <1>5, AnswerKeeps DEF Reply
<1>6. CASE made' = "open" /\ Answer(a, "ticket", None, made') /\ held' = None
  BY <1>1, <1>2, <1>6, AnswerKeeps, StatesAre DEF Reply
<1> QED
  BY <1>3, <1>4, <1>5, <1>6 DEF ProcessCreate

\* A cancellation closes the open ticket, or is refused.
LEMMA ProcessCancelKeeps ==
  ASSUME WizardInv, NEW a \in asked, ProcessCancel(a)
  PROVE  WizardInv'
<1>1. /\ a.what.kind = "cancel" /\ UNCHANGED <<screen, held, taken>>
      /\ \/ made' = "closed" /\ Answer(a, "done", None, None)
         \/ UNCHANGED made /\ Answer(a, "failed", None, None)
  BY DEF ProcessCancel
<1>2. /\ held \in [id : Ids, time : Slots, country : Countries, fresh : BOOLEAN] \cup {None}
      /\ made \in States \cup {None}
  BY DEF WizardInv, Typed, TypeOK
<1> QED
  BY <1>1, <1>2, AnswerKeeps, StatesAre DEF Reply

\* A search finds what the session was given.
LEMMA ProcessFindKeeps ==
  ASSUME WizardInv, NEW a \in asked, ProcessFind(a)
  PROVE  WizardInv'
<1>1. a.what.kind = "find" /\ Answer(a, "ticket", None, made) /\ UNCHANGED <<screen, server>>
  BY DEF ProcessFind
<1>2. made # None
  BY <1>1 DEF WizardInv, Pending, Awaited
<1>3. /\ held \in [id : Ids, time : Slots, country : Countries, fresh : BOOLEAN] \cup {None}
      /\ made \in States \cup {None}
  BY DEF WizardInv, Typed, TypeOK
<1> QED
  BY <1>1, <1>2, <1>3, AnswerKeeps DEF Reply, server

-----------------------------------------------------------------------------
(* The answers, each met by the screen its request was sent from. *)

LEMMA AnswersKeep ==
  ASSUME WizardInv, NEW a \in asked, Answered(a) \/ LoseAnswer(a)
  PROVE  WizardInv'
<1> USE DEF WizardInv, server
<1>1. asked' = {}
  BY NothingIsAsked
     DEF Answered, HoldAnswered, RefreshAnswered, CreateAnswered, CancelAnswered, FindAnswered, LoseAnswer
<1>2. /\ a \in Asking /\ Awaited(a) /\ Brings(a)
      /\ a.hold \in Holds \cup {None} /\ a.ticket \in States \cup {None}
  BY DEF Typed, Asking, Pending
<1>3. Alone' /\ Pending'
  BY <1>1 DEF Alone, Pending
<1>4. SUFFICES Typed' /\ StepIsBacked'
  BY <1>3
<1>5. CASE HoldAnswered(a)
  <2>1. Typed'
    BY <1>1, <1>2, <1>5, RestartIsTyped DEF HoldAnswered, Typed, TypeOK, Awaited
  <2>2. StepIsBacked'
    BY <1>2, <1>5 DEF HoldAnswered, Typed, TypeOK, Awaited, Brings,
         StepIsBacked, FormBehindHold, TicketOnScreen
  <2> QED
    BY <2>1, <2>2
<1>6. CASE RefreshAnswered(a)
  <2>1. Typed'
    BY <1>1, <1>2, <1>6, RestartIsTyped DEF RefreshAnswered, Typed, TypeOK, Awaited
  <2>2. StepIsBacked'
    BY <1>2, <1>6 DEF RefreshAnswered, Typed, TypeOK, Awaited, Brings,
         StepIsBacked, FormBehindHold, TicketOnScreen
  <2> QED
    BY <2>1, <2>2
<1>7. CASE CreateAnswered(a)
  <2>1. Typed'
    BY <1>1, <1>2, <1>7, RestartIsTyped, KeptIsTyped DEF CreateAnswered, Typed, TypeOK, Awaited
  <2>2. StepIsBacked'
    BY <1>2, <1>7 DEF CreateAnswered, Typed, TypeOK, Awaited, Brings,
         StepIsBacked, FormBehindHold, TicketOnScreen
  <2> QED
    BY <2>1, <2>2
<1>8. CASE CancelAnswered(a)
  <2>1. Typed'
    BY <1>1, <1>2, <1>8, HiddenIsListed, WizardAssumption
    DEF CancelAnswered, ResetBooking, Typed, TypeOK, Awaited
  <2>2. StepIsBacked'
    BY <1>2, <1>8 DEF CancelAnswered, ResetBooking, Typed, TypeOK, Awaited, Brings,
         StepIsBacked, FormBehindHold, TicketOnScreen
  <2> QED
    BY <2>1, <2>2
<1>9. CASE FindAnswered(a)
  <2>1. Typed'
    BY <1>1, <1>2, <1>9, HiddenIsListed DEF FindAnswered, Typed, TypeOK, Awaited
  <2>2. StepIsBacked'
    BY <1>2, <1>9 DEF FindAnswered, Typed, TypeOK, Awaited, Brings,
         StepIsBacked, FormBehindHold, TicketOnScreen
  <2> QED
    BY <2>1, <2>2
<1>10. CASE LoseAnswer(a)
  <2>1. Typed'
    BY <1>1, <1>2, <1>10 DEF LoseAnswer, screen, Typed, TypeOK, Awaited
  <2>2. StepIsBacked'
    BY <1>2, <1>10 DEF LoseAnswer, screen, Typed, TypeOK, Awaited, Brings,
         StepIsBacked, FormBehindHold, TicketOnScreen
  <2> QED
    BY <2>1, <2>2
<1> QED
  BY <1>5, <1>6, <1>7, <1>8, <1>9, <1>10 DEF Answered

-----------------------------------------------------------------------------
\* No step of a client who waits breaks the invariant.
LEMMA StepKeeps == Patient /\ WizardInv /\ [Next]_vars => WizardInv'
<1> SUFFICES ASSUME Patient, WizardInv, [Next]_vars
             PROVE  WizardInv'
  OBVIOUS
<1>1. CASE Client \/ Load \/ Loaded \/ LoadFails
  BY <1>1, MovesKeep, AsksKeep DEF Client
<1>2. CASE Others \/ Countdown \/ HoldExpires
  BY <1>2, OthersKeep
<1>3. ASSUME NEW a \in asked, Process(a) PROVE WizardInv'
  BY <1>3, ProcessHoldKeeps, ProcessRefreshKeeps, ProcessCreateKeeps, ProcessCancelKeeps, ProcessFindKeeps
     DEF Process
<1>4. ASSUME NEW a \in asked, Answered(a) \/ LoseAnswer(a) PROVE WizardInv'
  BY <1>4, AnswersKeep
<1>5. CASE UNCHANGED vars
  BY <1>5 DEF vars, screen, server, WizardInv, Typed, TypeOK, Alone, Pending, Awaited, Asks, Brings,
          StepIsBacked, FormBehindHold, TicketOnScreen
<1> QED
  BY <1>1, <1>2, <1>3, <1>4, <1>5 DEF Next, Network

\* The invariant from which both theorems follow.
THEOREM WizardInvHolds == ASSUME Patient PROVE Spec => []WizardInv
BY InitKeeps, StepKeeps, PTL DEF Spec

\* Every variable of the wizard keeps its type when the client waits for each
\* answer before asking again.
THEOREM TypesHold == ASSUME Patient PROVE Spec => []TypeOK
<1>1. WizardInv => TypeOK
  BY DEF WizardInv, Typed
<1> QED
  BY <1>1, WizardInvHolds, PTL

\* For a client who waits for answers, the form is never on the screen without a
\* hold, nor the ticket without a ticket, whatever expires, is lost or is taken by
\* others meanwhile (App.tsx: holdSelectedSlot, refreshHold, createTicket and the
\* countdown's effect).
THEOREM StepHolds == ASSUME Patient PROVE Spec => []StepIsBacked
<1>1. WizardInv => StepIsBacked
  BY DEF WizardInv
<1> QED
  BY <1>1, WizardInvHolds, PTL
=============================================================================
