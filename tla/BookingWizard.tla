----------------------------- MODULE BookingWizard -----------------------------
(***************************************************************************)
(* The booking wizard of the client's page: five steps on the screen, a    *)
(* list of slots that a timer loads again, a countdown, and requests whose *)
(* answers come when they come.  The API behind it is reduced to what this *)
(* browser's session has there: one hold, which expires by itself, and one *)
(* ticket; other clients take slots and give them back.  A slot has one    *)
(* desk in each direction.                                                 *)
(*                                                                         *)
(* A request is sent, then processed, then answered; an answer may be      *)
(* lost.  A patient client waits for an answer before pressing again; the  *)
(* buttons of the page do not make anybody wait.                           *)
(***************************************************************************)
EXTENDS Naturals, FiniteSets

CONSTANTS
  Countries, Slots,
  Grid,       \* the slots of each direction
  Contested,  \* the slots that other clients want, with their direction
  Patient,    \* whether the client waits for answers
  MaxAsked,   \* bound: requests under way at once
  None

Ids     == 1 .. MaxAsked + 1
States  == {"open", "closed"}
Holds   == [id : Ids, time : Slots, canRefresh : BOOLEAN]

ASSUME WizardAssumption ==
  /\ Grid \in [Countries -> SUBSET Slots]
  /\ Contested \subseteq Countries \X Slots
  /\ Patient \in BOOLEAN /\ MaxAsked \in Nat \ {0}
  /\ None \notin Countries \cup Slots
  /\ None \notin Ids /\ None \notin States /\ None \notin Holds

VARIABLES
  step, country, slot, \* the choices on the screen
  hold,    \* the hold the screen counts down: [id, time, canRefresh], or None
  ticket,  \* the state of the ticket on the screen, or None
  list,    \* the slots shown: [times, available]
  load,    \* the answer to the last load of the list, while it is on its way
  asked,   \* the other requests under way
  held,    \* the session's hold at the API: [id, time, country, fresh], or None
  made,    \* the state of the session's ticket at the API, or None
  taken    \* what other clients have

screen == <<step, country, slot, hold, ticket, list, load>>
server == <<held, made, taken>>
vars   == <<screen, asked, server>>

Listing == [times : SUBSET Slots, available : SUBSET Slots]
Hidden  == [times |-> {}, available |-> {}]
Request == [kind : {"hold", "refresh", "create", "cancel", "find"}, id : Ids \cup {None},
            time : Slots \cup {None}, country : Countries \cup {None}]
Reply   == {"sent", "held", "known", "refreshed", "ticket", "done", "conflict", "failed"}

-----------------------------------------------------------------------------
(* What the session has at the API. *)

HeldAt(t) == held # None /\ held.time = t
HasTicket == made = "open"

-----------------------------------------------------------------------------
(* The list of slots. *)

\* A plausible bug: a slot nobody has is free, whether it is in the grid or not.
RowsOfEveryTime ==
  [times |-> Grid[country], available |-> {t \in Slots : <<country, t>> \notin taken /\ ~HeldAt(t)}]

\* listAvailableSlots: a desk that this session holds itself is busy, too.
Rows == LET free == {t \in Grid[country] : /\ <<country, t>> \notin taken
                                           /\ ~ (held # None /\ held.time = t /\ held.country = country)}
        IN  [times |-> Grid[country], available |-> free]

\* The slots are shown in the second step and kept up to the fourth.
Kept(s) == list' = IF s \in 2 .. 4 THEN list ELSE Hidden

\* The effect that loads the slots starts again when step, country or the time
\* held change; answers to what the old one asked are dropped.
Restarted(s) == load' = IF s \in 2 .. 4 THEN Rows ELSE None

\* A plausible bug: without the timer the list is loaded when the effect starts only.
LoadOnce ==
  /\ step \in 2 .. 4 /\ load = None /\ list.times = {}
  /\ load' = Rows
  /\ UNCHANGED <<step, country, slot, hold, ticket, list, asked, server>>

\* Every fifteen seconds.
Load ==
  /\ step \in 2 .. 4 /\ load = None
  /\ load' = Rows
  /\ UNCHANGED <<step, country, slot, hold, ticket, list, asked, server>>

\* The chosen slot stays if the list still offers it or the screen holds it.
Loaded ==
  /\ load # None
  /\ list' = load
  /\ load' = None
  /\ slot' = IF \/ slot \in load.available
                \/ slot \in load.times /\ hold # None /\ hold.time = slot
             THEN slot ELSE None
  /\ UNCHANGED <<step, country, hold, ticket, asked, server>>

LoadFails ==
  /\ load # None
  /\ load' = None
  /\ UNCHANGED <<step, country, slot, hold, ticket, list, asked, server>>

-----------------------------------------------------------------------------
(* What the client presses. *)

MayAsk == IF Patient THEN asked = {} ELSE Cardinality(asked) < MaxAsked

\* A request as it is sent.
Ask(kind, id, time, c) ==
  asked' = asked \cup {[what  |-> [kind |-> kind, id |-> id, time |-> time, country |-> c],
                        reply |-> "sent", hold |-> None, ticket |-> None]}

PickCountry(c) ==
  /\ step = 1 /\ MayAsk
  /\ country' = c
  /\ UNCHANGED <<step, slot, hold, ticket, list, load, asked, server>>

\* The first step's button empties the list; the hold and the slot stay.
ToSlots ==
  /\ step = 1 /\ country # None /\ MayAsk
  /\ step' = 2
  /\ list' = Hidden
  /\ Restarted(2)
  /\ UNCHANGED <<country, slot, hold, ticket, asked, server>>

\* Another date, or the same again: the screen forgets the hold, the API does not.
PickDate ==
  /\ step = 2 /\ MayAsk
  /\ slot' = None /\ hold' = None
  /\ IF hold = None THEN UNCHANGED load ELSE Restarted(2)
  /\ UNCHANGED <<step, country, ticket, list, asked, server>>

\* holdSelectedSlot, up to its request.
ClickSlot(t) ==
  /\ step = 2 /\ MayAsk
  /\ t \in list.times
  /\ \/ t \in list.available
     \/ hold # None /\ hold.time = t
  /\ slot' = t
  /\ Ask("hold", None, t, country)
  /\ UNCHANGED <<step, country, hold, ticket, list, load, server>>

\* refreshHold.
ClickRefresh ==
  /\ step \in 2 .. 4 /\ hold # None /\ hold.canRefresh /\ MayAsk
  /\ Ask("refresh", hold.id, None, None)
  /\ UNCHANGED <<screen, server>>

\* The buttons between the steps: canNextStep3, continueToConfirm, back.
Turn(to) ==
  /\ MayAsk
  /\ \/ step = 2 /\ to = 3 /\ slot # None /\ hold # None
     \/ step = 3 /\ to = 4 /\ hold # None
     \/ step \in 2 .. 4 /\ to = step - 1
  /\ step' = to
  /\ Restarted(to) /\ Kept(to)
  /\ UNCHANGED <<country, slot, hold, ticket, asked, server>>

\* createTicket, which does nothing at all without a slot or a hold.
ClickCreate ==
  /\ step = 4 /\ slot # None /\ hold # None /\ MayAsk
  /\ Ask("create", hold.id, slot, country)
  /\ UNCHANGED <<screen, server>>

\* cancelTicket and findTicket, which have a flag of their own.
ClickCancel ==
  /\ step = 5 /\ ticket = "open" /\ MayAsk
  /\ \A a \in asked : a.what.kind # "cancel"
  /\ Ask("cancel", None, None, None)
  /\ UNCHANGED <<screen, server>>

ClickFind ==
  /\ made # None /\ MayAsk
  /\ \A a \in asked : a.what.kind # "find"
  /\ Ask("find", None, None, None)
  /\ UNCHANGED <<screen, server>>

\* resetBooking.
ResetBooking ==
  /\ step' = 1 /\ country' = None /\ slot' = None /\ hold' = None /\ ticket' = None
  /\ load' = None /\ list' = Hidden

NewBooking ==
  /\ step = 5 /\ ticket = "closed" /\ MayAsk
  /\ ResetBooking
  /\ UNCHANGED <<asked, server>>

\* The page is loaded again: bootstrap finds the session's ticket.
Reload ==
  /\ asked = {}
  /\ IF HasTicket
     THEN /\ step' = 5 /\ ticket' = made
     ELSE /\ step' = 1 /\ ticket' = None
  /\ country' = None /\ slot' = None /\ hold' = None /\ load' = None
  /\ list' = Hidden
  /\ UNCHANGED <<asked, server>>

\* A plausible bug: the countdown leaves the form open.
CountdownKeepsStep ==
  /\ hold # None
  /\ hold' = None /\ slot' = None
  /\ Restarted(step)
  /\ UNCHANGED <<step, country, ticket, list, asked, server>>

\* The countdown is at zero: back to the slots from the form.
Countdown ==
  /\ hold # None
  /\ hold' = None /\ slot' = None
  /\ step' = IF step \in {3, 4} THEN 2 ELSE step
  /\ Restarted(step')
  /\ UNCHANGED <<country, ticket, list, asked, server>>

-----------------------------------------------------------------------------
(* The API. *)

\* An identifier that neither the screen nor a request knows.
Fresh == CHOOSE i \in Ids :
           /\ hold = None \/ hold.id # i
           /\ \A a \in asked : a.what.id # i /\ (a.hold = None \/ a.hold.id # i)

\* What the API answers to a request.
Answer(a, reply, h, t) ==
  asked' = (asked \ {a}) \cup {[a EXCEPT !.reply = reply, !.hold = h, !.ticket = t]}

Shown(h) == [id |-> h.id, time |-> h.time, canRefresh |-> h.fresh]

\* holdSlot: the hold of that time is returned, any other is replaced; a slot
\* that is gone and a limit refuse alike.
ProcessHold(a) ==
  LET r == a.what IN
  /\ r.kind = "hold" /\ a.reply = "sent"
  /\ \/ /\ HeldAt(r.time)
        /\ Answer(a, "held", Shown(held), None)
        /\ UNCHANGED held
     \/ /\ ~HeldAt(r.time)
        /\ <<r.country, r.time>> \notin taken
        /\ held' = [id |-> Fresh, time |-> r.time, country |-> r.country, fresh |-> TRUE]
        /\ Answer(a, "held", Shown(held'), None)
     \/ /\ Answer(a, "failed", None, None)
        /\ UNCHANGED held
  /\ UNCHANGED <<screen, made, taken>>

ProcessRefresh(a) ==
  /\ a.what.kind = "refresh" /\ a.reply = "sent"
  /\ IF held # None /\ held.id = a.what.id /\ held.fresh
     THEN /\ held' = [held EXCEPT !.fresh = FALSE]
          /\ Answer(a, "refreshed", Shown(held'), None)
     ELSE /\ Answer(a, "failed", None, None)
          /\ UNCHANGED held
  /\ UNCHANGED <<screen, made, taken>>

\* POST tickets: an open ticket of the session is the answer; else the hold
\* named must be the session's, for that time, and is consumed; a limit or a
\* failure before refuses without a change.
ProcessCreate(a) ==
  LET r == a.what IN
  /\ r.kind = "create" /\ a.reply = "sent"
  /\ \/ /\ Answer(a, "failed", None, None)
        /\ UNCHANGED <<held, made>>
     \/ /\ HasTicket
        /\ Answer(a, "ticket", None, made)
        /\ UNCHANGED <<held, made>>
     \/ /\ ~HasTicket
        /\ ~ (HeldAt(r.time) /\ held.id = r.id)
        /\ Answer(a, "conflict", None, None)
        /\ UNCHANGED <<held, made>>
     \/ /\ ~HasTicket /\ HeldAt(r.time) /\ held.id = r.id
        /\ held' = None
        /\ IF <<r.country, r.time>> \in taken
           THEN /\ Answer(a, "conflict", None, None)
                /\ UNCHANGED made
           ELSE /\ made' = "open"
                /\ Answer(a, "ticket", None, made')
  /\ UNCHANGED <<screen, taken>>

\* DELETE tickets/current: a client in service cannot cancel.
ProcessCancel(a) ==
  /\ a.what.kind = "cancel" /\ a.reply = "sent"
  /\ \/ /\ HasTicket
        /\ made' = "closed"
        /\ Answer(a, "done", None, None)
     \/ /\ Answer(a, "failed", None, None)
        /\ UNCHANGED made
  /\ UNCHANGED <<screen, held, taken>>

ProcessFind(a) ==
  /\ a.what.kind = "find" /\ a.reply = "sent"
  /\ Answer(a, "ticket", None, made)
  /\ UNCHANGED <<screen, server>>

Process(a) == ProcessHold(a) \/ ProcessRefresh(a) \/ ProcessCreate(a) \/ ProcessCancel(a) \/ ProcessFind(a)

\* Its three minutes, or six, are over.
HoldExpires ==
  /\ held # None
  /\ held' = None
  /\ UNCHANGED <<screen, asked, made, taken>>

\* Others book, cancel, hold and let go.
OtherTakes(c, t) ==
  /\ <<c, t>> \in Contested \ taken
  /\ taken' = taken \cup {<<c, t>>}
  /\ UNCHANGED <<screen, asked, held, made>>

OtherLeaves(c, t) ==
  /\ <<c, t>> \in taken
  /\ taken' = taken \ {<<c, t>>}
  /\ UNCHANGED <<screen, asked, held, made>>

\* The visit ends; the stream of the ticket shows it.
Visit ==
  /\ HasTicket
  /\ made' = "closed"
  /\ ticket' = IF ticket = None THEN None ELSE made'
  /\ UNCHANGED <<step, country, slot, hold, list, load, asked, held, taken>>

-----------------------------------------------------------------------------
(* Answers. *)

HoldAnswered(a) ==
  /\ a.what.kind = "hold" /\ a.reply # "sent"
  /\ IF a.reply = "held" THEN hold' = a.hold /\ UNCHANGED slot
                         ELSE hold' = None /\ slot' = None
  /\ IF hold # None /\ hold' # None /\ hold'.time = hold.time THEN UNCHANGED load ELSE Restarted(step)
  /\ asked' = asked \ {a}
  /\ UNCHANGED <<step, country, ticket, list, server>>

RefreshAnswered(a) ==
  /\ a.what.kind = "refresh" /\ a.reply # "sent"
  /\ hold' = IF a.reply = "refreshed" THEN a.hold ELSE hold
  /\ IF hold # None /\ hold' # None /\ hold'.time = hold.time THEN UNCHANGED load ELSE Restarted(step)
  /\ asked' = asked \ {a}
  /\ UNCHANGED <<step, country, slot, ticket, list, server>>

\* A plausible bug: a booking refused for the hold keeps the form open.
ConflictKeepsStep(a) ==
  /\ a.what.kind = "create" /\ a.reply # "sent"
  /\ CASE a.reply = "ticket"   -> hold' = None /\ ticket' = a.ticket /\ step' = 5 /\ UNCHANGED slot
       [] a.reply = "conflict" -> hold' = None /\ slot' = None /\ UNCHANGED <<step, ticket>>
       [] OTHER                -> UNCHANGED <<hold, slot, step, ticket>>
  /\ IF a.reply = "failed" THEN UNCHANGED load ELSE Restarted(step')
  /\ Kept(step')
  /\ asked' = asked \ {a}
  /\ UNCHANGED <<country, server>>

CreateAnswered(a) ==
  /\ a.what.kind = "create" /\ a.reply # "sent"
  /\ CASE a.reply = "ticket"   -> hold' = None /\ ticket' = a.ticket /\ step' = 5 /\ UNCHANGED slot
       [] a.reply = "conflict" -> hold' = None /\ slot' = None /\ step' = 2 /\ UNCHANGED ticket
       [] OTHER                -> UNCHANGED <<hold, slot, step, ticket>>
  /\ IF a.reply = "failed" THEN UNCHANGED load ELSE Restarted(step')
  /\ Kept(step')
  /\ asked' = asked \ {a}
  /\ UNCHANGED <<country, server>>

\* The answer to a cancellation is not looked at.
CancelAnswered(a) ==
  /\ a.what.kind = "cancel" /\ a.reply # "sent"
  /\ ResetBooking
  /\ asked' = asked \ {a}
  /\ UNCHANGED <<server>>

FindAnswered(a) ==
  /\ a.what.kind = "find" /\ a.reply # "sent"
  /\ ticket' = a.ticket /\ step' = 5
  /\ load' = None /\ list' = Hidden
  /\ asked' = asked \ {a}
  /\ UNCHANGED <<country, slot, hold, server>>

Answered(a) ==
  HoldAnswered(a) \/ RefreshAnswered(a) \/ CreateAnswered(a) \/ CancelAnswered(a) \/ FindAnswered(a)

\* fetch throws, and the page goes on as it is.
LoseAnswer(a) ==
  /\ asked' = asked \ {a}
  /\ UNCHANGED <<screen, server>>

-----------------------------------------------------------------------------
Init ==
  /\ step = 1 /\ country = None /\ slot = None
  /\ hold = None /\ ticket = None
  /\ list = Hidden
  /\ load = None
  /\ asked = {}
  /\ held = None /\ made = None
  /\ taken = {}

Client ==
  \/ \E c \in Countries : PickCountry(c)
  \/ ToSlots \/ PickDate \/ ClickRefresh \/ ClickCreate
  \/ \E t \in Slots : ClickSlot(t)
  \/ \E to \in 1 .. 4 : Turn(to)
  \/ ClickCancel \/ ClickFind \/ NewBooking \/ Reload

Network == \E a \in asked : Process(a) \/ Answered(a)

Others ==
  \/ \E c \in Countries, t \in Slots : OtherTakes(c, t) \/ OtherLeaves(c, t)
  \/ Visit

Next ==
  \/ Client \/ Network \/ Others
  \/ Load \/ Loaded \/ LoadFails
  \/ Countdown \/ HoldExpires
  \/ \E a \in asked : LoseAnswer(a)

\* Timers run and requests are answered; nobody has to press anything.  Lists
\* that are asked for again and again arrive in the end.
Fairness ==
  /\ WF_vars(Network) /\ WF_vars(Countdown) /\ WF_vars(HoldExpires)
  /\ WF_vars(Load) /\ SF_vars(Loaded)

Spec == Init /\ [][Next]_vars /\ Fairness

-----------------------------------------------------------------------------
\* Every variable keeps its type.
TypeOK ==
  /\ step \in 1 .. 5 /\ country \in Countries \cup {None} /\ slot \in Slots \cup {None}
  /\ hold \in Holds \cup {None}
  /\ ticket \in States \cup {None} /\ made \in States \cup {None}
  /\ list \in Listing /\ load \in Listing \cup {None}
  /\ list.available \subseteq list.times
  /\ \A a \in asked : a.what \in Request /\ a.reply \in Reply
  /\ held \in [id : Ids, time : Slots, country : Countries, fresh : BOOLEAN] \cup {None}
  /\ taken \subseteq Countries \X Slots

\* docs/architecture.md: first the hold, then the name and the journey.  The
\* form and its confirmation are on the screen only while the screen counts
\* down a hold, whatever lists and answers arrive.
FormBehindHold == step \in {3, 4} => hold # None

\* A ticket that the page knows of is what it shows, and the wizard is what it
\* shows to everybody else.
TicketOnScreen == ticket # None <=> step = 5

\* The step on the screen has behind it what it shows, in whatever order answers,
\* timers and clicks come.
StepIsBacked == FormBehindHold /\ TicketOnScreen

\* Nobody is left with a button that does nothing: the confirmation ends with a
\* ticket, by going back, or with the countdown.
ConfirmationEnds == step = 4 ~> step # 4

\* A slot that the client let go of on the screen but still holds at the API is
\* offered to them again, unless they leave the list or somebody else is there.
OwnSlotComesBack ==
  \A c \in Countries, t \in Slots :
    (step = 2 /\ country = c /\ hold = None /\ held # None /\ held.time = t /\ held.country = c)
      ~> (step # 2 \/ country # c \/ hold # None \/ t \in list.available \/ <<c, t>> \in taken)

=============================================================================
