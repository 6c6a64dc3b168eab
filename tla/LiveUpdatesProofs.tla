--------------------------- MODULE LiveUpdatesProofs ---------------------------
(***************************************************************************)
(* Proofs about the live updates, for any number of changes, losses of the *)
(* listener, broken streams and requests: the types, and that an           *)
(* employee's stream with nothing under way shows the ticket as it is.     *)
(***************************************************************************)
EXTENDS LiveUpdates, SequenceTheorems, TLAPS

-----------------------------------------------------------------------------
(* Types. *)

\* What each viewer is answered with, and that no more is on its way to the API
\* than there have been changes.
Answers ==
  /\ viewer # "manager" => answer \subseteq View
  /\ viewer = "manager" => answer \subseteq Loads
  /\ viewer = "employee" => answer = {}
  /\ press # None => viewer = "manager"
  /\ inbox <= ticket.n

Typed == TypeOK /\ Answers

\* A change of the ticket, as every action that makes one does it.
LEMMA ChangedType ==
  ASSUME Typed, NEW desk \in Desks \cup {None}, Changed(desk)
  PROVE  /\ ticket' \in View
         /\ inbox' \in 0 .. MaxChanges
         /\ inbox' <= ticket'.n
         /\ ticket'.n = ticket.n + 1
         /\ listening => inbox' > 0
<1>1. ticket \in View /\ inbox \in 0 .. MaxChanges /\ inbox <= ticket.n
  BY DEF Typed, TypeOK, Answers
<1>2. ticket' = [n |-> ticket.n + 1, desk |-> desk] /\ ticket.n < MaxChanges
  BY DEF Changed
<1>3. ticket' \in View /\ ticket'.n = ticket.n + 1
  BY <1>1, <1>2, UpdatesAssumption DEF View
<1>4. inbox' = IF listening THEN inbox + 1 ELSE inbox
  BY DEF Changed
<1>5. QED
  BY <1>1, <1>2, <1>3, <1>4, UpdatesAssumption DEF View

\* checkInByHash and lookupTicket answer with a view of the ticket.
LEMMA AnswerViewType ==
  ASSUME NEW t \in View
  PROVE  AnswerView(t) \in View
<1>1. AnswerView(t) = [n |-> t.n, desk |-> IF t.desk = None THEN None ELSE ReservedDesk]
  BY DEF AnswerView, View
<1>2. QED
  BY <1>1, UpdatesAssumption DEF View

\* What a load brings has its type.
LEMMA LoadType ==
  ASSUME NEW d \in Days, NEW polled \in BOOLEAN, ticket \in View
  PROVE  Load(d, polled) \in Loads
  BY DEF Load, Loads, Rows, View

\* Every step of the live updates keeps the types.
LEMMA StepTyped == Typed /\ [Next]_vars => Typed'
<1> SUFFICES ASSUME Typed, [Next]_vars
             PROVE  Typed'
  OBVIOUS
<1> USE UpdatesAssumption
<1>t. /\ viewer \in Viewers
      /\ ticket \in View /\ snap \in View /\ screen \in View
      /\ listening \in BOOLEAN /\ losses \in 0 .. MaxLosses
      /\ inbox \in 0 .. MaxChanges
      /\ phase \in Phases /\ reread \in {"no", "asked", "done"}
      /\ wire \in Seq(View)
      /\ breaks \in 0 .. MaxBreaks
      /\ answer \subseteq View \cup Loads
      /\ day \in Days /\ picks \in 0 .. MaxPicks
      /\ list \in Rows \cup {None} /\ press \in Days \cup {None}
      /\ ticket.n \in Nat
  BY DEF Typed, TypeOK, View
<1>1. ASSUME NEW desk \in Desks \cup {None}, Change(desk)
      PROVE  Typed'
  <2>1. Changed(desk)
    BY <1>1 DEF Change
  <2>2. QED
    BY <1>1, <2>1, ChangedType DEF Change, Typed, TypeOK, Answers, stream, manager
<1>2. ASSUME NEW desk \in Desks \cup {None}, CheckIn(desk)
      PROVE  Typed'
  <2>1. Changed(desk)
    BY <1>2 DEF CheckIn
  <2>2. answer' \subseteq View
    BY <1>2, <2>1, ChangedType, AnswerViewType DEF CheckIn
  <2>3. QED
    BY <1>2, <2>1, <2>2, ChangedType DEF CheckIn, Typed, TypeOK, Answers, stream, manager
<1>3. CASE LoseListener
  <2>1. losses' \in 0 .. MaxLosses /\ inbox' \in 0 .. MaxChanges /\ inbox' <= ticket.n
    BY <1>3, <1>t DEF LoseListener
  <2>2. QED
    BY <1>3, <2>1 DEF LoseListener, Typed, TypeOK, Answers, stream, manager
<1>4. CASE Listen
  BY <1>4 DEF Listen, Typed, TypeOK, Answers, stream, manager
<1>5. CASE Deliver
  <2>1. inbox' \in 0 .. MaxChanges /\ inbox' <= ticket.n
    BY <1>5, <1>t DEF Deliver, Typed, Answers
  <2>2. reread' \in {"no", "asked", "done"}
    BY <1>5, <1>t DEF Deliver
  <2>3. QED
    BY <1>5, <2>1, <2>2 DEF Deliver, Typed, TypeOK, Answers, manager
<1>6. CASE Opening
  <2>1. ASSUME ClientSubscribes
        PROVE  Typed'
    <3>1. wire' \in Seq(View)
      BY <2>1, <1>t, AppendProperties DEF ClientSubscribes
    <3>2. QED
      BY <2>1, <3>1 DEF ClientSubscribes, Typed, TypeOK, Answers, Phases, listener, manager
  <2>2. QED
    BY <1>6, <2>1 DEF Opening, ClientReads, EmployeeSubscribes, Reconnect, Typed, TypeOK,
                      Answers, Phases, listener, manager
<1>7. CASE Reading
  <2>1. ASSUME Emit
        PROVE  Typed'
    <3>1. wire' \in Seq(View)
      BY <2>1, <1>t, AppendProperties DEF Emit
    <3>2. QED
      BY <2>1, <3>1 DEF Emit, Typed, TypeOK, Answers, listener, manager
  <2>2. QED
    BY <1>7, <2>1 DEF Reading, Reread, Typed, TypeOK, Answers, listener, manager
<1>8. CASE Break
  <2>1. wire' \in Seq(View)
    BY <1>8 DEF Break
  <2>2. breaks' \in 0 .. MaxBreaks
    BY <1>8, <1>t DEF Break
  <2>3. QED
    BY <1>8, <2>1, <2>2 DEF Break, Typed, TypeOK, Answers, Phases, listener, manager
<1>9. CASE Show
  <2>1. screen' \in View /\ wire' \in Seq(View)
    BY <1>9, <1>t, HeadTailProperties DEF Show
  <2>2. QED
    BY <1>9, <2>1 DEF Show, Typed, TypeOK, Answers, listener, manager
<1>10. CASE Lookup
  <2>1. answer' \subseteq View
    BY <1>10, <1>t, AnswerViewType DEF Lookup
  <2>2. QED
    BY <1>10, <2>1 DEF Lookup, Typed, TypeOK, Answers, listener, stream, manager
<1>11. CASE Poll
  BY <1>11, <1>t DEF Poll, Typed, TypeOK, Answers, listener, stream, manager
<1>12. ASSUME NEW a \in answer, ShowAnswer(a) \/ LoseAnswer(a)
       PROVE  Typed'
  <2>1. screen' \in View
    BY <1>12, <1>t DEF ShowAnswer, LoseAnswer, Typed, Answers
  <2>2. QED
    BY <1>12, <2>1 DEF ShowAnswer, LoseAnswer, Typed, TypeOK, Answers, listener, stream, manager
<1>13. ASSUME NEW a \in answer, ShowRows(a) \/ LoseRows(a)
       PROVE  Typed'
  <2>1. list' \in Rows \cup {None}
    BY <1>13, <1>t DEF ShowRows, LoseRows, Typed, Answers, Loads
  <2>2. QED
    BY <1>13, <2>1 DEF ShowRows, LoseRows, Typed, TypeOK, Answers, listener, stream
<1>14. ASSUME NEW d \in Days, PickDay(d)
       PROVE  Typed'
  <2>1. picks' \in 0 .. MaxPicks
    BY <1>14, <1>t DEF PickDay
  <2>2. Load(d, FALSE) \in Loads
    BY <1>t, LoadType
  <2>3. QED
    BY <1>14, <2>1, <2>2 DEF PickDay, Typed, TypeOK, Answers, listener, stream
<1>15. CASE PollDay
  <2>1. Load(day, TRUE) \in Loads
    BY <1>t, LoadType
  <2>2. QED
    BY <1>15, <2>1 DEF PollDay, Typed, TypeOK, Answers, listener, stream, manager
<1>16. CASE PressStatus \/ StatusRefused
  BY <1>16 DEF PressStatus, StatusRefused, Typed, TypeOK, Answers, listener, stream
<1>17. ASSUME NEW desk \in Desks \cup {None}, StatusChanged(desk)
       PROVE  Typed'
  <2>1. Changed(desk) /\ press \in Days /\ viewer = "manager"
    BY <1>17, <1>t DEF StatusChanged, Typed, Answers
  <2>2. [rows |-> [day |-> press, n |-> ticket'.n], polled |-> FALSE] \in Loads
    BY <2>1, ChangedType DEF Loads, Rows, View
  <2>3. QED
    BY <1>17, <2>1, <2>2, ChangedType DEF StatusChanged, Typed, TypeOK, Answers, stream
<1>18. CASE UNCHANGED vars
  BY <1>18 DEF vars, listener, stream, manager, Typed, TypeOK, Answers
<1>19. QED
  BY <1>1, <1>2, <1>3, <1>4, <1>5, <1>6, <1>7, <1>8, <1>9, <1>10, <1>11, <1>12, <1>13, <1>14,
     <1>15, <1>16, <1>17, <1>18
  DEF Next, Managing, Answered

\* Types hold whatever is lost, broken and overtaken; a screen shows a view of
\* the ticket, and a manager's list rows of a day.
THEOREM TypesHold == Spec => []TypeOK
<1>1. Init => Typed
  BY UpdatesAssumption
  DEF Init, Typed, TypeOK, Answers, Viewers, View, Opened, Phases
<1>2. Typed => TypeOK
  BY DEF Typed
<1>3. QED
  BY <1>1, <1>2, StepTyped, PTL DEF Spec

-----------------------------------------------------------------------------
(* What an employee sees. *)

\* The ticket as the employee's stream will have shown it once nothing more is
\* asked of it: what was read last, sent last, or is on the screen.
Upcoming ==
  IF reread = "done" THEN snap ELSE IF wire # <<>> THEN wire[Len(wire)] ELSE screen

\* The inductive invariant: only a live stream has anything under way, the
\* listener stands until it is lost, and a stream that has not to read again
\* for a notification has the ticket as it is.
Followed ==
  viewer = "employee" =>
    /\ phase # "read"
    /\ phase # "live" => reread = "no" /\ wire = <<>>
    /\ losses = 0 => listening
    /\ losses = 0 /\ inbox = 0 /\ phase = "live" /\ reread # "asked" => Upcoming = ticket

\* Every step keeps an open page of an employee up to what it was told.
LEMMA StepFollowed ==
  ASSUME Typed, Typed', Followed, [Next]_vars
  PROVE  Followed'
<1> SUFFICES ASSUME viewer' = "employee"
             PROVE  Followed'
  BY DEF Followed
<1>v. viewer' = viewer
  <2>1. \A desk \in Desks \cup {None} :
          Change(desk) \/ CheckIn(desk) \/ StatusChanged(desk) => viewer' = viewer
    BY DEF Change, CheckIn, StatusChanged
  <2>2. Opening \/ Reading \/ Break \/ Show => viewer' = viewer
    BY DEF Opening, ClientReads, ClientSubscribes, EmployeeSubscribes, Reconnect, Reading, Reread,
           Emit, Break, Show
  <2>3. LoseListener \/ Listen \/ Deliver \/ Lookup \/ Poll => viewer' = viewer
    BY DEF LoseListener, Listen, Deliver, Lookup, Poll
  <2>4. \A a \in answer : ShowAnswer(a) \/ ShowRows(a) \/ LoseAnswer(a) \/ LoseRows(a) => viewer' = viewer
    BY DEF ShowAnswer, ShowRows, LoseAnswer, LoseRows
  <2>5. PollDay \/ PressStatus \/ StatusRefused \/ (\E d \in Days : PickDay(d)) => viewer' = viewer
    BY DEF PollDay, PressStatus, StatusRefused, PickDay
  <2>6. UNCHANGED vars => viewer' = viewer
    BY DEF vars
  <2>7. QED
    BY <2>1, <2>2, <2>3, <2>4, <2>5, <2>6 DEF Next, Managing, Answered
<1>e. viewer = "employee" /\ answer = {} /\ press = None
  BY <1>v DEF Typed, Answers
<1>t. /\ wire \in Seq(View) /\ inbox \in Nat /\ losses \in Nat /\ listening \in BOOLEAN
      /\ phase \in Phases /\ reread \in {"no", "asked", "done"}
  BY DEF Typed, TypeOK
<1>f. /\ phase # "read"
      /\ phase # "live" => reread = "no" /\ wire = <<>>
      /\ losses = 0 => listening
      /\ losses = 0 /\ inbox = 0 /\ phase = "live" /\ reread # "asked" => Upcoming = ticket
  BY <1>e DEF Followed
<1>q. ASSUME UNCHANGED <<listener, stream, screen, ticket>>
      PROVE  Followed'
  BY <1>q, <1>f DEF Followed, Upcoming, listener, stream
<1>1. ASSUME NEW desk \in Desks \cup {None}, Change(desk)
      PROVE  Followed'
  <2>1. Changed(desk)
    BY <1>1 DEF Change
  <2>2. listening => inbox' > 0
    BY <2>1, ChangedType
  <2>3. QED
    BY <1>1, <2>2, <1>f DEF Change, Followed, stream
<1>2. CASE LoseListener
  <2>1. losses' # 0
    BY <1>2, <1>t DEF LoseListener
  <2>2. QED
    BY <1>2, <2>1, <1>f DEF LoseListener, Followed, stream
<1>3. CASE Listen
  BY <1>3, <1>f DEF Listen, Followed, Upcoming, stream
<1>4. CASE Deliver
  BY <1>4, <1>f DEF Deliver, Followed
<1>5. CASE EmployeeSubscribes
  BY <1>5, <1>f DEF EmployeeSubscribes, Followed, listener
<1>6. CASE Reread
  BY <1>6, <1>f DEF Reread, Followed, Upcoming, listener
<1>7. CASE Emit
  <2>1. wire' # <<>> /\ wire'[Len(wire')] = snap /\ phase = "live"
    BY <1>7, <1>f, <1>t, AppendProperties DEF Emit, Typed, TypeOK
  <2>2. QED
    BY <1>7, <2>1, <1>f DEF Emit, Followed, Upcoming, listener
<1>8. CASE Break
  BY <1>8, <1>f DEF Break, Followed, listener
<1>9. CASE Reconnect
  BY <1>9, <1>f DEF Reconnect, Followed, listener
<1>10. CASE Show
  <2>1. Upcoming' = Upcoming
    <3>1. CASE reread = "done"
      BY <3>1, <1>10 DEF Show, Upcoming
    <3>2. CASE reread # "done" /\ Len(wire) = 1
      <4>1. wire' = <<>> /\ screen' = wire[Len(wire)]
        BY <3>2, <1>10, <1>t, HeadTailProperties, EmptySeq DEF Show
      <4>2. QED
        BY <3>2, <4>1, <1>10 DEF Show, Upcoming
    <3>3. CASE reread # "done" /\ Len(wire) # 1
      <4>1. wire' # <<>> /\ wire'[Len(wire')] = wire[Len(wire)]
        <5>1. wire # <<>> /\ wire' = Tail(wire)
          BY <1>10 DEF Show
        <5>2. Len(wire') = Len(wire) - 1 /\ Len(wire) \in Nat /\ Len(wire) > 1
          <6>1. Len(wire') = Len(wire) - 1
            BY <5>1, <1>t, HeadTailProperties
          <6>2. Len(wire) \in Nat /\ Len(wire) # 0
            BY <5>1, <1>t
          <6>3. QED
            BY <6>1, <6>2, <3>3
        <5>3. \A i \in 1 .. Len(wire') : wire'[i] = wire[i + 1]
          BY <5>1, <1>t, HeadTailProperties
        <5>4. wire'[Len(wire')] = wire[Len(wire') + 1]
          BY <5>2, <5>3
        <5>5. wire' # <<>>
          BY <5>2, EmptySeq
        <5>6. QED
          BY <5>2, <5>4, <5>5
      <4>2. QED
        BY <3>3, <4>1, <1>10 DEF Show, Upcoming
    <3>4. QED
      BY <3>1, <3>2, <3>3
  <2>2. phase = "live"
    BY <1>10, <1>f DEF Show
  <2>3. QED
    BY <1>10, <2>1, <2>2, <1>f DEF Show, Followed, listener
<1>11. ASSUME NEW d \in Days, PickDay(d)
       PROVE  Followed'
  BY <1>11, <1>q DEF PickDay
<1>12. CASE PollDay \/ PressStatus \/ StatusRefused \/ Lookup \/ Poll
  BY <1>12, <1>q DEF PollDay, PressStatus, StatusRefused, Lookup, Poll
<1>13. CASE UNCHANGED vars
  BY <1>13, <1>q DEF vars
<1>14. \A desk \in Desks \cup {None} : ~CheckIn(desk) /\ ~StatusChanged(desk)
  BY <1>e DEF CheckIn, StatusChanged
<1>15. ~ClientReads /\ ~ClientSubscribes
  BY <1>e DEF ClientReads, ClientSubscribes
<1>16. QED
  BY <1>1, <1>2, <1>3, <1>4, <1>5, <1>6, <1>7, <1>8, <1>9, <1>10, <1>11, <1>12, <1>13, <1>14,
     <1>15, <1>e
  DEF Next, Opening, Reading, Managing, Answered

\* An employee's screen with nothing under way shows the ticket as it is, unless
\* the listening connection was ever lost: the stream subscribes before it reads,
\* and a notification makes it drop what it was reading, so that no change falls
\* between, however often the stream breaks and is opened again.
THEOREM EmployeeHolds == Spec => []QuietEmployeeIsCurrent
<1>1. Init => Typed /\ Followed
  BY UpdatesAssumption
  DEF Init, Typed, TypeOK, Answers, Viewers, View, Opened, Phases, Followed
<1>2. Typed /\ Followed /\ [Next]_vars => Typed' /\ Followed'
  BY StepTyped, StepFollowed
<1>3. Typed /\ Followed => QuietEmployeeIsCurrent
  BY DEF Followed, QuietEmployeeIsCurrent, Upcoming
<1>4. QED
  BY <1>1, <1>2, <1>3, PTL DEF Spec

=============================================================================
