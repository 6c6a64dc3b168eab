--------------------------- MODULE SlotHoldProofs ---------------------------
(***************************************************************************)
(* Proofs, for every number of requests, browsers, desks and slots, that   *)
(* the advisory lock of the site is enough to sell no desk twice; and what *)
(* the keys of a browser are that waits for its answers.                   *)
(***************************************************************************)
EXTENDS SlotHold, WellFoundedInduction, TLAPS

\* The first of some desks, in the order of their labels, is one of them.
LEMMA FirstIsOneOf ==
  ASSUME NEW D \in SUBSET Desks, D # {}
  PROVE  FirstOf(D) \in D
<1> DEFINE less == OpToRel(<, Nat)
<1>1. IsWellFoundedOn(less, Nat)
  BY NatLessThanWellFounded
<1>2. ASSUME NEW m \in Nat, NEW n \in Nat, m < n
      PROVE  <<m, n>> \in less
  BY <1>2 DEF OpToRel
<1>3. D \subseteq Nat
  BY SlotHoldAssumption
<1> HIDE DEF less
<1>4. PICK d \in D : \A f \in D : <<f, d>> \notin less
  BY <1>1, <1>3, WFMin
<1>5. ASSUME NEW f \in D
      PROVE  d <= f
  <2>1. d \in Nat /\ f \in Nat
    BY <1>3
  <2>2. ~(f < d)
    BY <1>2, <1>4, <2>1
  <2>3. QED
    BY <2>1, <2>2
<1>6. QED
  BY <1>4, <1>5 DEF FirstOf

-----------------------------------------------------------------------------
(* Types.  What a request has filled in when it comes to each of its steps.  *)

Phones == {Phone[s] : s \in Sessions}

FilledFor(at, r) ==
  /\ at \in {"pick", "setnx", "previous", "drop", "remember"} =>
       r.session \in Sessions /\ r.slot \in Slots
  /\ at \in {"setnx", "previous", "drop", "remember"} => r.desk \in Desks
  /\ at = "drop" => r.previous \in Places
  /\ at = "extend" => r.session \in Sessions /\ r.previous \in Places
  /\ at \in {"consume", "delete"} => r.session \in Sessions /\ r.desk \in Desks
  /\ at \in {"consume", "delete", "check", "insert"} =>
       r.slot \in Slots /\ r.id \in Requests /\ r.phone \in Phones
  /\ at = "insert" => r.desk \in Desks

Filled(p) == FilledFor(pc[p], req[p])

Typed == TypeOK /\ \A p \in Requests : Filled(p)

\* A place is a desk and a slot.
LEMMA PlaceType ==
  ASSUME NEW d \in Desks, NEW s \in Slots
  PROVE  <<d, s>> \in Places
  BY DEF Places

\* The place of a session's own hold is a place.
LEMMA OwnPlaceType ==
  ASSUME NEW s, NEW id, NEW k \in OwnPlace(s, id)
  PROVE  k \in Places /\ k[1] \in Desks /\ k[2] \in Slots
  BY DEF OwnPlace, Places

\* A request that goes on with a new record, the others as they were.
LEMMA GoesOn ==
  ASSUME Typed, NEW p \in Requests, NEW r \in Request,
         NEW at \in {"idle"} \cup Running \cup Ended,
         FilledFor(at, r),
         pc' = [pc EXCEPT ![p] = at],
         req' = [req EXCEPT ![p] = r],
         lock' \in Requests \cup {None},
         UNCHANGED <<redis, answered, booked>>
  PROVE  Typed'
<1>1. pc \in [Requests -> {"idle"} \cup Running \cup Ended] /\ req \in [Requests -> Request]
  BY DEF Typed, TypeOK
<1>2. ASSUME NEW q \in Requests
      PROVE  Filled(q)'
  <2>1. CASE q = p
    <3>1. pc'[q] = at /\ req'[q] = r
      BY <1>1, <2>1
    <3>2. QED
      BY <3>1 DEF Filled
  <2>2. CASE q # p
    <3>1. pc'[q] = pc[q] /\ req'[q] = req[q]
      BY <1>1, <2>2
    <3>2. Filled(q)
      BY DEF Typed
    <3>3. QED
      BY <3>1, <3>2 DEF Filled
  <2>3. QED
    BY <2>1, <2>2
<1>3. pc' \in [Requests -> {"idle"} \cup Running \cup Ended] /\ req' \in [Requests -> Request]
  BY <1>1
<1>4. QED
  BY <1>2, <1>3 DEF Typed, TypeOK, redis

\* A request starts with an empty record.
LEMMA StartType == Start \in Request
  BY DEF Start, Request

\* Every action keeps the types, and fills in what the next step needs.
LEMMA StepTyped == Typed /\ [Next]_vars => Typed'
<1> SUFFICES ASSUME Typed, [Next]_vars
             PROVE  Typed'
  OBVIOUS
<1> USE DEF redis, Running, Ended
<1>t. TypeOK /\ \A p \in Requests : Filled(p)
  BY DEF Typed
<1>r. \A p \in Requests : req[p] \in Request
  BY <1>t DEF TypeOK
<1>1. ASSUME NEW p \in Requests, NEW s \in Sessions, NEW slot \in Slots, HoldStart(p, s, slot)
      PROVE  Typed'
  <2> DEFINE mine == {id \in Requests : \E k \in OwnPlace(s, id) : k[2] = slot}
  <2>1. UNCHANGED <<lock, hold, session, refreshed, holds, booked>>
    BY <1>1 DEF HoldStart
  <2>2. CASE mine # {}
    <3>1. /\ pc' = [pc EXCEPT ![p] = "done"]
          /\ answered' = [answered EXCEPT ![s] = @ \cup {<<id, slot>> : id \in mine}]
          /\ req' = req
      BY <1>1, <2>2 DEF HoldStart
    <3>2. QED
      BY <2>1, <3>1, <1>t DEF Typed, TypeOK, Filled, FilledFor
  <2>3. CASE mine = {}
    <3> DEFINE r == [Start EXCEPT !.session = s, !.slot = slot, !.id = p]
    <3>1. /\ pc' = [pc EXCEPT ![p] = "pick"]
          /\ req' = [req EXCEPT ![p] = r]
          /\ answered' = answered
      BY <1>1, <2>3 DEF HoldStart
    <3>2. r \in Request /\ r.session = s /\ r.slot = slot
      BY DEF Start, Request
    <3> HIDE DEF r
    <3>3. FilledFor("pick", r)
      BY <2>1, <3>1, <3>2 DEF FilledFor
    <3>4. QED
      BY <2>1, <3>1, <3>2, <3>3, <1>t, GoesOn DEF TypeOK
  <2>4. QED
    BY <2>2, <2>3
<1>2. ASSUME NEW p \in Requests, HoldPick(p)
      PROVE  Typed'
  <2> DEFINE free == FreeAt(req[p].slot)
             r    == [req[p] EXCEPT !.desk = FirstOf(free)]
  <2>1. UNCHANGED <<lock, hold, session, refreshed, holds, answered, booked>>
    BY <1>2 DEF HoldPick
  <2>2. CASE pc' = [pc EXCEPT ![p] = "refused"] /\ req' = req
    BY <2>1, <2>2, <1>t DEF Typed, TypeOK, Filled, FilledFor
  <2>3. CASE free # {} /\ pc' = [pc EXCEPT ![p] = "setnx"] /\ req' = [req EXCEPT ![p] = r]
    <3>1. FirstOf(free) \in Desks
      BY <2>3, FirstIsOneOf DEF FreeAt
    <3>2. r \in Request /\ r.desk = FirstOf(free) /\ r.session = req[p].session /\ r.slot = req[p].slot
      BY <3>1, <1>r DEF Request
    <3>3. req[p].session \in Sessions /\ req[p].slot \in Slots
      BY <1>2, <1>t DEF HoldPick, Filled, FilledFor
    <3> HIDE DEF r, free
    <3>4. FilledFor("setnx", r)
      BY <2>1, <2>3, <3>1, <3>2, <3>3 DEF FilledFor
    <3>5. QED
      BY <2>1, <2>3, <3>1, <3>2, <3>3, <3>4, <1>t, GoesOn DEF TypeOK
  <2>4. QED
    BY <1>2, <2>2, <2>3 DEF HoldPick
<1>3. ASSUME NEW p \in Requests, HoldSetNX(p)
      PROVE  Typed'
  <2>1. /\ req[p].session \in Sessions /\ req[p].slot \in Slots /\ req[p].desk \in Desks
        /\ Place(p) \in Places
    BY <1>3, <1>t, PlaceType DEF HoldSetNX, Filled, FilledFor, Place
  <2>2. [session |-> req[p].session, id |-> p] \in Value
    BY <2>1 DEF Value
  <2>3. UNCHANGED <<req, lock, session, refreshed, booked>>
    BY <1>3 DEF HoldSetNX
  <2>4. CASE /\ hold' = [hold EXCEPT ![Place(p)] = [session |-> req[p].session, id |-> p]]
             /\ pc' = [pc EXCEPT ![p] = "previous"]
             /\ UNCHANGED <<holds, answered>>
    BY <2>1, <2>2, <2>3, <2>4, <1>t DEF Typed, TypeOK, Filled, FilledFor
  <2>5. CASE /\ holds' = holds \cup {Place(p)}
             /\ answered' = [answered EXCEPT ![req[p].session] = @ \cup {<<p, req[p].slot>>}]
             /\ pc' = [pc EXCEPT ![p] = "done"]
             /\ UNCHANGED hold
    BY <2>1, <2>3, <2>5, <1>t DEF Typed, TypeOK, Filled, FilledFor
  <2>6. CASE pc' = [pc EXCEPT ![p] = "refused"] /\ UNCHANGED <<hold, holds, answered>>
    BY <2>3, <2>6, <1>t DEF Typed, TypeOK, Filled, FilledFor
  <2>7. QED
    BY <1>3, <2>4, <2>5, <2>6 DEF HoldSetNX
<1>4. ASSUME NEW p \in Requests, HoldPrevious(p)
      PROVE  Typed'
  <2> DEFINE k == session[req[p].session]
             r == [req[p] EXCEPT !.previous = k]
  <2>1. /\ req[p].session \in Sessions /\ req[p].slot \in Slots /\ req[p].desk \in Desks
    BY <1>4, <1>t DEF HoldPrevious, Filled, FilledFor
  <2>2. UNCHANGED <<lock, hold, session, refreshed, holds, answered, booked>>
    BY <1>4 DEF HoldPrevious
  <2>3. CASE /\ k # None
             /\ pc' = [pc EXCEPT ![p] = "drop"] /\ req' = [req EXCEPT ![p] = r]
    <3>1. k \in Places
      BY <1>4, <2>1, <2>3, <1>t DEF HoldPrevious, TypeOK
    <3>2. /\ r \in Request /\ r.desk = req[p].desk
          /\ r.session = req[p].session /\ r.slot = req[p].slot /\ r.previous = k
      BY <3>1, <1>r DEF Request
    <3> HIDE DEF r
    <3>3. FilledFor("drop", r)
      BY <2>1, <3>1, <3>2 DEF FilledFor
    <3>4. QED
      BY <2>1, <2>2, <2>3, <3>2, <3>3, <1>t, GoesOn DEF TypeOK
  <2>4. CASE pc' = [pc EXCEPT ![p] = "remember"] /\ req' = req
    BY <2>1, <2>2, <2>4, <1>t DEF Typed, TypeOK, Filled, FilledFor
  <2>5. QED
    BY <1>4, <2>3, <2>4 DEF HoldPrevious
<1>5. ASSUME NEW p \in Requests, HoldDrop(p)
      PROVE  Typed'
  BY <1>5, <1>t DEF HoldDrop, Typed, TypeOK, Filled, FilledFor
<1>6. ASSUME NEW p \in Requests, HoldRemember(p)
      PROVE  Typed'
  <2>1. /\ req[p].session \in Sessions /\ req[p].slot \in Slots /\ Place(p) \in Places
    BY <1>6, <1>t, PlaceType DEF HoldRemember, Filled, FilledFor, Place
  <2>2. QED
    BY <1>6, <2>1, <1>t DEF HoldRemember, Typed, TypeOK, Filled, FilledFor
<1>7. ASSUME NEW p \in Requests, NEW s \in Sessions, NEW id \in Requests, NEW slot \in Slots,
             RefreshStart(p, s, id, slot)
      PROVE  Typed'
  <2>1. UNCHANGED <<lock, hold, session, refreshed, holds, answered, booked>>
    BY <1>7 DEF RefreshStart
  <2>2. ASSUME NEW k \in OwnPlace(s, id),
               pc' = [pc EXCEPT ![p] = "extend"],
               req' = [req EXCEPT ![p] =
                         [Start EXCEPT !.session = s, !.id = id, !.previous = k]]
        PROVE  Typed'
    <3> DEFINE r == [Start EXCEPT !.session = s, !.id = id, !.previous = k]
    <3>1. k \in Places
      BY OwnPlaceType
    <3>2. r \in Request /\ r.session = s /\ r.previous = k
      BY <3>1 DEF Start, Request
    <3> HIDE DEF r
    <3>3. req' = [req EXCEPT ![p] = r]
      BY <2>2 DEF r
    <3>4. FilledFor("extend", r)
      BY <2>1, <2>2, <3>1, <3>2, <3>3 DEF FilledFor
    <3>5. QED
      BY <2>1, <2>2, <3>1, <3>2, <3>3, <3>4, <1>t, GoesOn DEF TypeOK
  <2>3. CASE pc' = [pc EXCEPT ![p] = "refused"] /\ req' = req
    BY <2>1, <2>3, <1>t DEF Typed, TypeOK, Filled, FilledFor
  <2>4. QED
    BY <1>7, <2>2, <2>3 DEF RefreshStart
<1>8. ASSUME NEW p \in Requests, RefreshExtend(p)
      PROVE  Typed'
  BY <1>8, <1>t DEF RefreshExtend, Typed, TypeOK, Filled, FilledFor
<1>9. ASSUME NEW p \in Requests, NEW s \in Sessions, NEW id \in Requests, NEW slot \in Slots,
             CreateStart(p, s, id, slot)
      PROVE  Typed'
  <2>1. UNCHANGED <<hold, session, refreshed, holds, answered, booked>>
    BY <1>9 DEF CreateStart
  <2>2. ASSUME NEW k \in OwnPlace(s, id),
               pc' = [pc EXCEPT ![p] = "consume"], lock' = p,
               req' = [req EXCEPT ![p] = [Start EXCEPT !.session = s, !.slot = slot, !.id = id,
                                            !.desk = k[1], !.phone = Phone[s]]]
        PROVE  Typed'
    <3> DEFINE r == [Start EXCEPT !.session = s, !.slot = slot, !.id = id,
                                  !.desk = k[1], !.phone = Phone[s]]
    <3>1. k[1] \in Desks /\ Phone[s] \in Phones
      BY OwnPlaceType DEF Phones
    <3>2. /\ r \in Request /\ r.session = s /\ r.slot = slot /\ r.id = id
          /\ r.desk = k[1] /\ r.phone = Phone[s]
      BY <3>1 DEF Start, Request
    <3> HIDE DEF r
    <3>3. req' = [req EXCEPT ![p] = r]
      BY <2>2 DEF r
    <3>4. FilledFor("consume", r)
      BY <2>1, <2>2, <3>1, <3>2, <3>3 DEF FilledFor
    <3>5. QED
      BY <2>1, <2>2, <3>1, <3>2, <3>3, <3>4, <1>t, GoesOn DEF TypeOK
  <2>3. CASE pc' = [pc EXCEPT ![p] = "refused"] /\ req' = req /\ lock' = lock
    BY <2>1, <2>3, <1>t DEF Typed, TypeOK, Filled, FilledFor
  <2>4. QED
    BY <1>9, <2>2, <2>3 DEF CreateStart
<1>10. ASSUME NEW p \in Requests, NEW s \in Sessions, NEW slot \in Slots,
              WalkInStart(p, Phone[s], slot)
       PROVE  Typed'
  <2> DEFINE r == [Start EXCEPT !.slot = slot, !.id = p, !.phone = Phone[s]]
  <2>1. Phone[s] \in Phones
    BY DEF Phones
  <2>2. r \in Request /\ r.slot = slot /\ r.id = p /\ r.phone = Phone[s]
    BY <2>1 DEF Start, Request
  <2> HIDE DEF r
  <2>3. req' = [req EXCEPT ![p] = r]
    BY <1>10 DEF WalkInStart, r
  <2>4. FilledFor("check", r)
    BY <2>1, <2>2, <2>3 DEF FilledFor
  <2>5. QED
    BY <1>10, <2>1, <2>2, <2>3, <2>4, <1>t, GoesOn DEF WalkInStart, TypeOK
<1>11. ASSUME NEW p \in Requests, ConsumeGet(p)
       PROVE  Typed'
  BY <1>11, <1>t DEF ConsumeGet, Typed, TypeOK, Filled, FilledFor
<1>12. ASSUME NEW p \in Requests, ConsumeDelete(p)
       PROVE  Typed'
  BY <1>12, <1>t DEF ConsumeDelete, Typed, TypeOK, Filled, FilledFor
<1>13. ASSUME NEW p \in Requests, CreateCheck(p)
       PROVE  Typed'
  <2> DEFINE free == FreeAt(req[p].slot)
             d    == IF req[p].desk \in free THEN req[p].desk ELSE FirstOf(free)
             r    == [req[p] EXCEPT !.desk = d]
  <2>1. UNCHANGED <<hold, session, refreshed, holds, answered, booked>>
    BY <1>13 DEF CreateCheck
  <2>2. CASE free # {} /\ pc' = [pc EXCEPT ![p] = "insert"] /\ req' = [req EXCEPT ![p] = r]
             /\ lock' = lock
    <3>1. d \in Desks
      BY <2>2, FirstIsOneOf DEF FreeAt
    <3> HIDE DEF d, free
    <3>2. /\ r \in Request /\ r.desk = d /\ r.slot = req[p].slot /\ r.id = req[p].id
          /\ r.phone = req[p].phone
      BY <3>1, <1>r DEF Request
    <3>3. req[p].slot \in Slots /\ req[p].id \in Requests /\ req[p].phone \in Phones
      BY <1>13, <1>t DEF CreateCheck, Filled, FilledFor
    <3> HIDE DEF r
    <3>4. FilledFor("insert", r)
      BY <2>1, <2>2, <3>1, <3>2, <3>3 DEF FilledFor
    <3>5. QED
      BY <2>1, <2>2, <3>1, <3>2, <3>3, <3>4, <1>t, GoesOn DEF TypeOK
  <2>3. CASE pc' = [pc EXCEPT ![p] = "refused"] /\ lock' = None /\ req' = req
    BY <2>1, <2>3, <1>t DEF Typed, TypeOK, Filled, FilledFor
  <2>4. QED
    BY <1>13, <2>2, <2>3 DEF CreateCheck
<1>14. ASSUME NEW p \in Requests, CreateInsert(p)
       PROVE  Typed'
  <2> DEFINE b == [desk |-> req[p].desk, slot |-> req[p].slot, phone |-> req[p].phone,
                   id |-> req[p].id, by |-> p, open |-> TRUE]
  <2>1. b \in Ticket
    BY <1>14, <1>t DEF CreateInsert, Filled, FilledFor, Ticket, Phones
  <2> HIDE DEF b
  <2>2. booked' = booked \cup {b}
    BY <1>14 DEF CreateInsert, b
  <2>3. QED
    BY <1>14, <2>1, <2>2, <1>t DEF CreateInsert, Typed, TypeOK, Filled, FilledFor
<1>15. ASSUME NEW b \in booked, Close(b)
       PROVE  Typed'
  <2>1. [b EXCEPT !.open = FALSE] \in Ticket
    BY <1>t DEF TypeOK, Ticket
  <2>2. QED
    BY <1>15, <2>1, <1>t DEF Close, Typed, TypeOK, Filled, FilledFor
<1>16. ASSUME NEW b \in booked, NEW slot \in Moves, Reschedule(b, slot)
       PROVE  Typed'
  <2> DEFINE free == Desks \ Busy(booked \ {b}, slot)
  <2>1. FirstOf(free) \in Desks
    BY <1>16, FirstIsOneOf DEF Reschedule
  <2>2. [b EXCEPT !.slot = slot, !.desk = FirstOf(free)] \in Ticket
    BY <2>1, <1>t, SlotHoldAssumption DEF TypeOK, Ticket
  <2> HIDE DEF free
  <2>3. booked' = (booked \ {b}) \cup {[b EXCEPT !.slot = slot, !.desk = FirstOf(free)]}
    BY <1>16 DEF Reschedule, free
  <2>4. QED
    BY <1>16, <2>2, <2>3, <1>t DEF Reschedule, Typed, TypeOK, Filled, FilledFor
<1>17. ASSUME NEW k \in Places, ExpireHold(k) \/ ExpireMember(k)
       PROVE  Typed'
  BY <1>17, <1>t DEF ExpireHold, ExpireMember, Typed, TypeOK, Filled, FilledFor
<1>18. ASSUME NEW s \in Sessions, ExpireSession(s)
       PROVE  Typed'
  BY <1>18, <1>t DEF ExpireSession, Typed, TypeOK, Filled, FilledFor
<1>19. ASSUME NEW p \in Requests, Crash(p)
       PROVE  Typed'
  BY <1>19, <1>t DEF Crash, Typed, TypeOK, Filled, FilledFor
<1>20. CASE UNCHANGED vars
  BY <1>20, <1>t DEF vars, Typed, TypeOK, Filled, FilledFor
<1>21. QED
  BY <1>1, <1>2, <1>3, <1>4, <1>5, <1>6, <1>7, <1>8, <1>9, <1>10, <1>11, <1>12, <1>13, <1>14,
     <1>15, <1>16, <1>17, <1>18, <1>19, <1>20
  DEF Next, HoldNext, RefreshNext, CreateNext, Environment

\* Types hold in the beginning, when no request has filled anything in.
LEMMA InitTyped == Init => Typed
  BY StartType DEF Init, Typed, TypeOK, Filled, FilledFor, Running, Ended

\* Every variable keeps its type, whatever requests, expiries and crashes do.
THEOREM SlotTypesHold == Spec => []TypeOK
<1>1. Init => Typed
  BY InitTyped
<1>2. Typed => TypeOK
  BY DEF Typed
<1>3. QED
  BY <1>1, <1>2, StepTyped, PTL DEF Spec

-----------------------------------------------------------------------------
(* The lock.  Between the check and the insert nobody else adds or moves a   *)
(* ticket, so what was free at the check is free at the insert.              *)

Holder == {"consume", "delete", "check", "insert"}

Locked == \A p \in Requests : pc[p] \in Holder <=> lock = p

\* The desk and the telephone that were checked are free until the insert.
DeskFree(p)  == ~ \E b \in booked : b.open /\ b.desk = req[p].desk /\ b.slot = req[p].slot
DesksFree    == \A p \in Requests : pc[p] = "insert" => DeskFree(p)
PhonesFree   == \A p \in Requests : pc[p] = "insert" => PhoneSlotFree(req[p].phone, req[p].slot)

Sold   == Locked /\ DesksFree /\ OneTicketPerDeskSlot
Called == Locked /\ PhonesFree /\ OneTicketPerPhoneSlot

\* A step of a request that neither has the lock nor gets it.
Quiet(p) ==
  /\ pc[p] \notin Holder /\ pc'[p] \notin Holder
  /\ \A q \in Requests \ {p} : pc'[q] = pc[q] /\ req'[q] = req[q]
  /\ UNCHANGED <<lock, booked>>

\* A step outside the lock that books nothing leaves what is sold alone.
LEMMA QuietStep ==
  ASSUME NEW p \in Requests, Quiet(p)
  PROVE  (Sold => Sold') /\ (Called => Called')
<1>1. ASSUME NEW q \in Requests
      PROVE  \/ pc'[q] = pc[q] /\ req'[q] = req[q]
             \/ pc[q] \notin Holder /\ pc'[q] \notin Holder
  BY DEF Quiet
<1>2. "insert" \in Holder
  BY DEF Holder
<1>3. lock' = lock /\ booked' = booked
  BY DEF Quiet
<1>4. Locked => Locked'
  BY <1>1, <1>3 DEF Locked
<1>5. (DesksFree => DesksFree') /\ (PhonesFree => PhonesFree')
  BY <1>1, <1>2, <1>3 DEF DesksFree, DeskFree, PhonesFree, PhoneSlotFree
<1>6. QED
  BY <1>3, <1>4, <1>5 DEF Sold, Called, OneTicketPerDeskSlot, OneTicketPerPhoneSlot

\* Every step of holdSlot and refreshHold is quiet, and so is a refused start
\* of a creation.
LEMMA HoldIsQuiet ==
  ASSUME Typed, NEW p \in Requests, HoldNext(p) \/ RefreshNext(p)
  PROVE  Quiet(p)
<1> USE DEF Quiet, Holder, redis
<1>1. pc \in [Requests -> {"idle"} \cup Running \cup Ended] /\ req \in [Requests -> Request]
  BY DEF Typed, TypeOK
<1>2. ASSUME NEW s \in Sessions, NEW slot \in Slots, HoldStart(p, s, slot)
      PROVE  Quiet(p)
  BY <1>1, <1>2 DEF HoldStart, MaySend
<1>3. CASE HoldPick(p)
  BY <1>1, <1>3 DEF HoldPick
<1>4. CASE HoldSetNX(p)
  BY <1>1, <1>4 DEF HoldSetNX
<1>5. CASE HoldPrevious(p)
  BY <1>1, <1>5 DEF HoldPrevious
<1>6. CASE HoldDrop(p)
  BY <1>1, <1>6 DEF HoldDrop
<1>7. CASE HoldRemember(p)
  BY <1>1, <1>7 DEF HoldRemember
<1>8. ASSUME NEW s \in Sessions, NEW id \in Requests, NEW slot \in Slots,
             RefreshStart(p, s, id, slot)
      PROVE  Quiet(p)
  BY <1>1, <1>8 DEF RefreshStart, MaySend
<1>9. CASE RefreshExtend(p)
  BY <1>1, <1>9 DEF RefreshExtend
<1>10. QED
  BY <1>2, <1>3, <1>4, <1>5, <1>6, <1>7, <1>8, <1>9 DEF HoldNext, RefreshNext

\* A holder of the lock is alone.
LEMMA OneHolder ==
  ASSUME Typed, Locked, NEW p \in Requests, pc[p] \in Holder \/ lock = None
  PROVE  \A q \in Requests \ {p} : pc[q] \notin Holder
  BY SlotHoldAssumption DEF Locked

\* A step of a creation that changes only its own request and the lock: it
\* keeps the lock exactly as long as it needs it.
LEMMA CreateStep ==
  ASSUME Typed, Locked, NEW p \in Requests, pc[p] \in Holder \/ lock = None,
         \A q \in Requests \ {p} : pc'[q] = pc[q] /\ req'[q] = req[q],
         lock' = (IF pc'[p] \in Holder THEN p ELSE None),
         booked' = booked \/ pc'[p] \notin Holder
  PROVE  /\ Locked'
         /\ (pc'[p] = "insert" => DeskFree(p)') => DesksFree'
         /\ (pc'[p] = "insert" => PhoneSlotFree(req[p].phone, req[p].slot)') => PhonesFree'
<1>1. \A q \in Requests \ {p} : pc'[q] \notin Holder
  BY OneHolder
<1>2. "insert" \in Holder
  BY DEF Holder
<1>3. None \notin Requests
  BY SlotHoldAssumption
<1>4. QED
  BY <1>1, <1>2, <1>3 DEF Locked, DesksFree, PhonesFree

\* The check leaves the request a free desk and a telephone without a booking.
LEMMA CheckFinds ==
  ASSUME Typed, Locked, NEW p \in Requests, CreateCheck(p)
  PROVE  /\ pc[p] \in Holder
         /\ \A q \in Requests \ {p} : pc'[q] = pc[q] /\ req'[q] = req[q]
         /\ lock' = (IF pc'[p] \in Holder THEN p ELSE None)
         /\ booked' = booked
         /\ pc'[p] = "insert" => DeskFree(p)' /\ PhoneSlotFree(req[p].phone, req[p].slot)'
<1> DEFINE free == FreeAt(req[p].slot)
           d    == IF req[p].desk \in free THEN req[p].desk ELSE FirstOf(free)
<1>1. /\ pc \in [Requests -> {"idle"} \cup Running \cup Ended] /\ req \in [Requests -> Request]
      /\ booked \subseteq Ticket
  BY DEF Typed, TypeOK
<1>2. pc[p] = "check" /\ lock = p /\ booked' = booked
  BY DEF CreateCheck, Locked, Holder
<1>3. CASE /\ free # {} /\ PhoneSlotFree(req[p].phone, req[p].slot)
           /\ pc' = [pc EXCEPT ![p] = "insert"]
           /\ req' = [req EXCEPT ![p] = [req[p] EXCEPT !.desk = d]]
           /\ lock' = lock
  <2>1. d \in free
    <3>1. free \in SUBSET Desks
      BY DEF FreeAt
    <3>2. FirstOf(free) \in free
      BY <1>3, <3>1, FirstIsOneOf
    <3>3. QED
      BY <3>2
  <2>2. \A b \in booked : ~(b.open /\ b.desk = d /\ b.slot = req[p].slot)
    BY <2>1 DEF FreeAt, Busy
  <2> HIDE DEF d, free
  <2>3. /\ req'[p].desk = d /\ req'[p].slot = req[p].slot /\ req'[p].phone = req[p].phone
        /\ pc'[p] = "insert"
        /\ \A q \in Requests \ {p} : pc'[q] = pc[q] /\ req'[q] = req[q]
    BY <1>1, <1>3 DEF Request
  <2>4. DeskFree(p)' /\ PhoneSlotFree(req[p].phone, req[p].slot)'
    BY <1>2, <1>3, <2>2, <2>3 DEF DeskFree, PhoneSlotFree
  <2>5. QED
    BY <1>2, <1>3, <2>3, <2>4 DEF Holder
<1>4. CASE pc' = [pc EXCEPT ![p] = "refused"] /\ lock' = None /\ req' = req
  BY <1>1, <1>2, <1>4 DEF Holder
<1>5. QED
  BY <1>3, <1>4 DEF CreateCheck

\* The insert adds one open ticket, for the desk, the time and the telephone of
\* the request.
LEMMA InsertAdds ==
  ASSUME Typed, Locked, NEW p \in Requests, CreateInsert(p)
  PROVE  /\ pc[p] = "insert" /\ pc'[p] \notin Holder /\ lock' = None
         /\ \A q \in Requests \ {p} : pc'[q] = pc[q] /\ req'[q] = req[q]
         /\ \E b : /\ booked' = booked \cup {b}
                   /\ b.desk = req[p].desk /\ b.slot = req[p].slot /\ b.phone = req[p].phone
                   /\ b.id = req[p].id
<1>1. pc \in [Requests -> {"idle"} \cup Running \cup Ended]
  BY DEF Typed, TypeOK
<1> DEFINE b == [desk |-> req[p].desk, slot |-> req[p].slot, phone |-> req[p].phone,
                 id |-> req[p].id, by |-> p, open |-> TRUE]
<1>2. b.desk = req[p].desk /\ b.slot = req[p].slot /\ b.phone = req[p].phone
      /\ b.id = req[p].id
  OBVIOUS
<1>3. booked' = booked \cup {b} /\ pc' = [pc EXCEPT ![p] = "done"] /\ lock' = None /\ req' = req
  BY DEF CreateInsert
<1>4. pc[p] = "insert"
  BY DEF CreateInsert
<1> HIDE DEF b
<1>5. QED
  BY <1>1, <1>2, <1>3, <1>4 DEF Holder

\* The other steps of a creation.
LEMMA CreateMoves ==
  ASSUME Typed, Locked, NEW p \in Requests,
         \/ \E s \in Sessions, id \in Requests, slot \in Slots : CreateStart(p, s, id, slot)
         \/ \E s \in Sessions, slot \in Slots : WalkInStart(p, Phone[s], slot)
         \/ ConsumeGet(p) \/ ConsumeDelete(p)
         \/ Crash(p)
  PROVE  \/ Quiet(p)
         \/ /\ pc[p] \in Holder \/ lock = None
            /\ \A q \in Requests \ {p} : pc'[q] = pc[q] /\ req'[q] = req[q]
            /\ lock' = (IF pc'[p] \in Holder THEN p ELSE None)
            /\ booked' = booked
            /\ pc'[p] # "insert"
<1> USE DEF Quiet, Holder
<1>1. /\ pc \in [Requests -> {"idle"} \cup Running \cup Ended] /\ req \in [Requests -> Request]
      /\ pc[p] \in Holder <=> lock = p
  BY DEF Typed, TypeOK, Locked
<1>2. ASSUME NEW s \in Sessions, NEW id \in Requests, NEW slot \in Slots,
             CreateStart(p, s, id, slot)
      PROVE  \/ Quiet(p)
             \/ /\ lock = None /\ lock' = p /\ pc'[p] = "consume" /\ booked' = booked
                /\ \A q \in Requests \ {p} : pc'[q] = pc[q] /\ req'[q] = req[q]
  BY <1>1, <1>2 DEF CreateStart, MaySend
<1>3. ASSUME NEW s \in Sessions, NEW slot \in Slots, WalkInStart(p, Phone[s], slot)
      PROVE  /\ lock = None /\ lock' = p /\ pc'[p] = "check" /\ booked' = booked
             /\ \A q \in Requests \ {p} : pc'[q] = pc[q] /\ req'[q] = req[q]
  BY <1>1, <1>3 DEF WalkInStart
<1>4. CASE ConsumeGet(p)
  BY <1>1, <1>4 DEF ConsumeGet
<1>5. CASE ConsumeDelete(p)
  BY <1>1, <1>5 DEF ConsumeDelete
<1>6. CASE Crash(p)
  BY <1>1, <1>6 DEF Crash
<1>7. QED
  BY <1>2, <1>3, <1>4, <1>5, <1>6

\* The steps that change no request.
LEMMA NoRequestMoves ==
  ASSUME \/ \E k \in Places : ExpireHold(k) \/ ExpireMember(k)
         \/ \E s \in Sessions : ExpireSession(s)
         \/ UNCHANGED vars
  PROVE  UNCHANGED <<pc, req, lock, booked>>
  BY DEF ExpireHold, ExpireMember, ExpireSession, vars, redis

\* One desk is sold once.
LEMMA StepSold == Typed /\ Sold /\ [Next]_vars => Sold'
<1> SUFFICES ASSUME Typed, Sold, [Next]_vars
             PROVE  Sold'
  OBVIOUS
<1>0. Locked /\ DesksFree /\ OneTicketPerDeskSlot
  BY DEF Sold
<1>1. ASSUME NEW p \in Requests, HoldNext(p) \/ RefreshNext(p)
      PROVE  Sold'
  BY <1>1, HoldIsQuiet, QuietStep
<1>2. ASSUME NEW p \in Requests,
             \/ \E s \in Sessions, id \in Requests, slot \in Slots : CreateStart(p, s, id, slot)
             \/ \E s \in Sessions, slot \in Slots : WalkInStart(p, Phone[s], slot)
             \/ ConsumeGet(p) \/ ConsumeDelete(p)
             \/ Crash(p)
      PROVE  Sold'
  <2>1. CASE Quiet(p)
    BY <2>1, QuietStep
  <2>2. CASE ~Quiet(p)
    <3>1. Locked' /\ DesksFree' /\ booked' = booked
      BY <1>0, <1>2, <2>2, CreateMoves, CreateStep
    <3>2. QED
      BY <1>0, <3>1 DEF Sold, OneTicketPerDeskSlot
  <2>3. QED
    BY <2>1, <2>2
<1>3. ASSUME NEW p \in Requests, CreateCheck(p)
      PROVE  Sold'
  <2>1. Locked' /\ DesksFree' /\ booked' = booked
    BY <1>0, <1>3, CheckFinds, CreateStep
  <2>2. QED
    BY <1>0, <2>1 DEF Sold, OneTicketPerDeskSlot
<1>4. ASSUME NEW p \in Requests, CreateInsert(p)
      PROVE  Sold'
  <2>1. pc[p] = "insert" /\ pc[p] \in Holder /\ pc'[p] # "insert"
    BY <1>0, <1>4, InsertAdds DEF Holder
  <2>2. Locked' /\ DesksFree'
    BY <1>0, <1>4, <2>1, InsertAdds, CreateStep
  <2>3. DeskFree(p)
    BY <1>0, <2>1 DEF DesksFree
  <2>4. PICK b : /\ booked' = booked \cup {b}
                 /\ b.desk = req[p].desk /\ b.slot = req[p].slot
    BY <1>0, <1>4, InsertAdds
  <2>5. OneTicketPerDeskSlot'
    BY <1>0, <2>3, <2>4 DEF OneTicketPerDeskSlot, DeskFree
  <2>6. QED
    BY <2>2, <2>5 DEF Sold
<1>5. ASSUME NEW b \in booked, Close(b)
      PROVE  Sold'
  <2> DEFINE c == [b EXCEPT !.open = FALSE]
  <2>1. ~c.open
    BY DEF Typed, TypeOK, Ticket
  <2> HIDE DEF c
  <2>2. booked' = (booked \ {b}) \cup {c} /\ UNCHANGED <<pc, req, lock>>
    BY <1>5 DEF Close, c
  <2>3. \A p \in Requests : DeskFree(p) => DeskFree(p)'
    BY <2>1, <2>2 DEF DeskFree
  <2>4. QED
    BY <1>0, <2>1, <2>2, <2>3 DEF Sold, Locked, DesksFree, OneTicketPerDeskSlot
<1>6. ASSUME NEW b \in booked, NEW slot \in Moves, Reschedule(b, slot)
      PROVE  Sold'
  <2> DEFINE free == Desks \ Busy(booked \ {b}, slot)
             d    == FirstOf(free)
             c    == [b EXCEPT !.slot = slot, !.desk = d]
  <2>1. d \in free
    <3>1. free \in SUBSET Desks /\ free # {}
      BY <1>6 DEF Reschedule
    <3>2. QED
      BY <3>1, FirstIsOneOf
  <2>2. \A a \in booked \ {b} : ~(a.open /\ a.desk = d /\ a.slot = slot)
    BY <2>1 DEF Busy
  <2>3. c.desk = d /\ c.slot = slot
    BY DEF Typed, TypeOK, Ticket
  <2>4. booked' = (booked \ {b}) \cup {c} /\ lock = None /\ UNCHANGED <<pc, req, lock>>
    BY <1>6 DEF Reschedule
  <2> HIDE DEF c, d, free
  <2>5. Locked' /\ DesksFree'
    BY <1>0, <2>4, SlotHoldAssumption DEF Locked, DesksFree, Holder
  <2>6. OneTicketPerDeskSlot'
    BY <1>0, <2>2, <2>3, <2>4 DEF OneTicketPerDeskSlot
  <2>7. QED
    BY <2>5, <2>6 DEF Sold
<1>7. CASE UNCHANGED <<pc, req, lock, booked>>
  BY <1>0, <1>7 DEF Sold, Locked, DesksFree, DeskFree, OneTicketPerDeskSlot
<1>8. QED
  BY <1>1, <1>2, <1>3, <1>4, <1>5, <1>6, <1>7, NoRequestMoves DEF Next, CreateNext, Environment

\* No desk is sold twice for the same time, for every number of browsers,
\* requests, desks and times, whatever expires, crashes, closes or is moved.
THEOREM DeskSlotHolds == Spec => []OneTicketPerDeskSlot
<1>1. Init => Typed
  BY InitTyped
<1>2. Init => Sold
  BY SlotHoldAssumption DEF Init, Sold, Locked, Holder, DesksFree, OneTicketPerDeskSlot
<1>3. Typed /\ Sold /\ [Next]_vars => (Typed /\ Sold)'
  BY StepTyped, StepSold
<1>4. Sold => OneTicketPerDeskSlot
  BY DEF Sold
<1>5. QED
  BY <1>1, <1>2, <1>3, <1>4, PTL DEF Spec

\* One telephone is booked once for the same time, if no booking is moved.
LEMMA StepCalled == Moves = {} /\ Typed /\ Called /\ [Next]_vars => Called'
<1> SUFFICES ASSUME Moves = {}, Typed, Called, [Next]_vars
             PROVE  Called'
  OBVIOUS
<1>0. Locked /\ PhonesFree /\ OneTicketPerPhoneSlot
  BY DEF Called
<1>1. ASSUME NEW p \in Requests, HoldNext(p) \/ RefreshNext(p)
      PROVE  Called'
  BY <1>1, HoldIsQuiet, QuietStep
<1>2. ASSUME NEW p \in Requests,
             \/ \E s \in Sessions, id \in Requests, slot \in Slots : CreateStart(p, s, id, slot)
             \/ \E s \in Sessions, slot \in Slots : WalkInStart(p, Phone[s], slot)
             \/ ConsumeGet(p) \/ ConsumeDelete(p)
             \/ Crash(p)
      PROVE  Called'
  <2>1. CASE Quiet(p)
    BY <2>1, QuietStep
  <2>2. CASE ~Quiet(p)
    <3>1. Locked' /\ PhonesFree' /\ booked' = booked
      BY <1>0, <1>2, <2>2, CreateMoves, CreateStep
    <3>2. QED
      BY <1>0, <3>1 DEF Called, OneTicketPerPhoneSlot
  <2>3. QED
    BY <2>1, <2>2
<1>3. ASSUME NEW p \in Requests, CreateCheck(p)
      PROVE  Called'
  <2>1. Locked' /\ PhonesFree' /\ booked' = booked
    BY <1>0, <1>3, CheckFinds, CreateStep
  <2>2. QED
    BY <1>0, <2>1 DEF Called, OneTicketPerPhoneSlot
<1>4. ASSUME NEW p \in Requests, CreateInsert(p)
      PROVE  Called'
  <2>1. pc[p] = "insert" /\ pc[p] \in Holder /\ pc'[p] # "insert"
    BY <1>0, <1>4, InsertAdds DEF Holder
  <2>2. Locked' /\ PhonesFree'
    BY <1>0, <1>4, <2>1, InsertAdds, CreateStep
  <2>3. PhoneSlotFree(req[p].phone, req[p].slot)
    BY <1>0, <2>1 DEF PhonesFree
  <2>4. PICK b : /\ booked' = booked \cup {b}
                 /\ b.phone = req[p].phone /\ b.slot = req[p].slot
    BY <1>0, <1>4, InsertAdds
  <2>5. OneTicketPerPhoneSlot'
    BY <1>0, <2>3, <2>4 DEF OneTicketPerPhoneSlot, PhoneSlotFree
  <2>6. QED
    BY <2>2, <2>5 DEF Called
<1>5. ASSUME NEW b \in booked, Close(b)
      PROVE  Called'
  <2> DEFINE c == [b EXCEPT !.open = FALSE]
  <2>1. ~c.open
    BY DEF Typed, TypeOK, Ticket
  <2> HIDE DEF c
  <2>2. booked' = (booked \ {b}) \cup {c} /\ UNCHANGED <<pc, req, lock>>
    BY <1>5 DEF Close, c
  <2>3. Locked' /\ PhonesFree'
    BY <1>0, <2>1, <2>2 DEF Locked, PhonesFree, PhoneSlotFree
  <2>4. OneTicketPerPhoneSlot'
    BY <1>0, <2>1, <2>2 DEF OneTicketPerPhoneSlot
  <2>5. QED
    BY <2>3, <2>4 DEF Called
<1>6. CASE UNCHANGED <<pc, req, lock, booked>>
  BY <1>0, <1>6 DEF Called, Locked, PhonesFree, PhoneSlotFree, OneTicketPerPhoneSlot
<1>7. QED
  BY <1>1, <1>2, <1>3, <1>4, <1>5, <1>6, NoRequestMoves DEF Next, CreateNext, Environment

\* No telephone is booked twice for the same time as long as no manager moves
\* bookings.  With moves it is: rescheduleTicket does not ask for the telephone.
THEOREM PhoneSlotHolds == Moves = {} => (Spec => []OneTicketPerPhoneSlot)
<1> SUFFICES ASSUME Moves = {}
             PROVE  Spec => []OneTicketPerPhoneSlot
  OBVIOUS
<1>1. Init => Typed
  BY InitTyped
<1>2. Init => Called
  BY SlotHoldAssumption DEF Init, Called, Locked, Holder, PhonesFree, OneTicketPerPhoneSlot
<1>3. Typed /\ Called /\ [Next]_vars => (Typed /\ Called)'
  BY StepTyped, StepCalled
<1>4. Called => OneTicketPerPhoneSlot
  BY DEF Called
<1>5. QED
  BY <1>1, <1>2, <1>3, <1>4, PTL DEF Spec

-----------------------------------------------------------------------------
(* A hold becomes one ticket.  The holdId of a request is drawn once, stays  *)
(* in one key only, and leaves Redis under the lock before it is booked.     *)

\* A request that has put its hold into Redis, or never will any more.
Past == {"previous", "drop", "remember", "done", "refused", "crashed"}

\* A request that has read its hold and is to book it.
Using == {"delete", "check", "insert"}

Unbooked(id) == \A b \in booked : b.id # id

HoldsApart ==
  \A k, l \in Places : hold[k] # None /\ hold[l] # None /\ hold[k].id = hold[l].id => k = l

HoldsPlaced ==
  \A k \in Places : hold[k] # None => pc[hold[k].id] \in Past /\ Unbooked(hold[k].id)

BooksPlaced == \A b \in booked : pc[b.id] \in Past

\* What is being booked is not booked yet, is drawn, and is in no other key.
InUse(p) ==
  /\ Unbooked(req[p].id)
  /\ pc[req[p].id] \in Past \/ (req[p].id = p /\ pc[p] # "delete")
  /\ \A k \in Places :
       hold[k] # None /\ hold[k].id = req[p].id => pc[p] = "delete" /\ k = Place(p)

Drawn == HoldsApart /\ HoldsPlaced /\ BooksPlaced
UsedOnce == \A p \in Requests : pc[p] \in Using => InUse(p)

Once == Locked /\ Drawn /\ UsedOnce /\ HoldBooksOnce

\* A step that draws no hold, adds no ticket and begins to use none.
Calm ==
  /\ \A q \in Requests : pc[q] \in Past => pc'[q] \in Past
  /\ \A k \in Places : hold'[k] \in {hold[k], None}
  /\ \A b \in booked' : \E a \in booked : a.id = b.id
  /\ \A q \in Requests : pc'[q] \in Using =>
       \/ pc'[q] = pc[q] /\ req'[q] = req[q]
       \/ pc[q] = "check" /\ pc'[q] = "insert" /\ req'[q].id = req[q].id

\* A calm step leaves the holdIds alone.
LEMMA CalmStep ==
  ASSUME Typed, Drawn, UsedOnce, Calm
  PROVE  Drawn' /\ UsedOnce'
<1> USE DEF Drawn, Calm
<1>1. ASSUME NEW k \in Places, hold[k] # None
      PROVE  hold[k].id \in Requests
  BY <1>1 DEF Typed, TypeOK, Value
<1>2. ASSUME NEW id, Unbooked(id)
      PROVE  Unbooked(id)'
  BY <1>2 DEF Unbooked
<1>3. HoldsApart'
  BY DEF HoldsApart
<1>4. HoldsPlaced'
  <2> SUFFICES ASSUME NEW k \in Places, hold'[k] # None
               PROVE  (pc[hold[k].id] \in Past /\ Unbooked(hold[k].id))'
    BY DEF HoldsPlaced
  <2>1. hold'[k] = hold[k] /\ hold[k] # None
    OBVIOUS
  <2>2. pc[hold[k].id] \in Past /\ Unbooked(hold[k].id)
    BY <2>1 DEF HoldsPlaced
  <2>3. \A b \in booked' : b.id # hold[k].id
    BY <2>2 DEF Unbooked
  <2>4. QED
    BY <1>1, <2>1, <2>2, <2>3 DEF Unbooked
<1>5. BooksPlaced'
  BY DEF BooksPlaced, Typed, TypeOK, Ticket
<1>6. UsedOnce'
  <2> SUFFICES ASSUME NEW p \in Requests, pc'[p] \in Using
               PROVE  InUse(p)'
    BY DEF UsedOnce
  <2>1. /\ pc[p] \in Using /\ req'[p].id = req[p].id
        /\ \/ pc'[p] = pc[p] /\ req'[p] = req[p]
           \/ pc[p] = "check" /\ pc'[p] = "insert"
    BY DEF Using
  <2>2. InUse(p)
    BY <2>1 DEF UsedOnce
  <2>3. req[p].id \in Requests
    BY <2>1 DEF Typed, Filled, FilledFor, Using
  <2>4. Unbooked(req[p].id)'
    BY <1>2, <2>1, <2>2 DEF InUse, Unbooked
  <2>5. pc'[req'[p].id] \in Past \/ (req'[p].id = p /\ pc'[p] # "delete")
    BY <2>1, <2>2, <2>3 DEF InUse
  <2>6. ASSUME NEW k \in Places, hold'[k] # None, hold'[k].id = req'[p].id
        PROVE  pc'[p] = "delete" /\ k = Place(p)'
    BY <2>1, <2>2, <2>6 DEF InUse, Place
  <2>7. QED
    BY <2>4, <2>5, <2>6 DEF InUse, Unbooked
<1>7. QED
  BY <1>3, <1>4, <1>5, <1>6

\* The steps of holdSlot but one, of refreshHold, and most of the others.
LEMMA MostAreCalm ==
  ASSUME Typed, [Next]_vars,
         \A p \in Requests : ~HoldSetNX(p) /\ ~ConsumeGet(p) /\ ~ConsumeDelete(p) /\ ~CreateInsert(p),
         \A p \in Requests, s \in Sessions, slot \in Slots : ~WalkInStart(p, Phone[s], slot)
  PROVE  Calm
<1> USE DEF Calm, Past, Using, redis
<1>1. /\ pc \in [Requests -> {"idle"} \cup Running \cup Ended] /\ req \in [Requests -> Request]
      /\ hold \in [Places -> Value \cup {None}] /\ booked \subseteq Ticket
  BY DEF Typed, TypeOK
<1>2. ASSUME NEW p \in Requests, NEW s \in Sessions, NEW slot \in Slots, HoldStart(p, s, slot)
      PROVE  Calm
  BY <1>1, <1>2 DEF HoldStart, MaySend
<1>3. ASSUME NEW p \in Requests, HoldPick(p)
      PROVE  Calm
  BY <1>1, <1>3 DEF HoldPick
<1>4. ASSUME NEW p \in Requests, HoldPrevious(p)
      PROVE  Calm
  BY <1>1, <1>4 DEF HoldPrevious
<1>5. ASSUME NEW p \in Requests, HoldDrop(p) \/ HoldRemember(p)
      PROVE  Calm
  BY <1>1, <1>5 DEF HoldDrop, HoldRemember
<1>6. ASSUME NEW p \in Requests, NEW s \in Sessions, NEW id \in Requests, NEW slot \in Slots,
             RefreshStart(p, s, id, slot)
      PROVE  Calm
  BY <1>1, <1>6 DEF RefreshStart, MaySend
<1>7. ASSUME NEW p \in Requests, RefreshExtend(p)
      PROVE  Calm
  BY <1>1, <1>7 DEF RefreshExtend
<1>8. ASSUME NEW p \in Requests, NEW s \in Sessions, NEW id \in Requests, NEW slot \in Slots,
             CreateStart(p, s, id, slot)
      PROVE  Calm
  BY <1>1, <1>8 DEF CreateStart, MaySend
<1>9. ASSUME NEW p \in Requests, CreateCheck(p)
      PROVE  Calm
  BY <1>1, <1>9 DEF CreateCheck, Request
<1>10. ASSUME NEW b \in booked, Close(b)
       PROVE  Calm
  BY <1>1, <1>10 DEF Close, Ticket
<1>11. ASSUME NEW b \in booked, NEW slot \in Moves, Reschedule(b, slot)
       PROVE  Calm
  BY <1>1, <1>11 DEF Reschedule, Ticket
<1>12. ASSUME NEW k \in Places, ExpireHold(k) \/ ExpireMember(k)
       PROVE  Calm
  BY <1>1, <1>12 DEF ExpireHold, ExpireMember
<1>13. ASSUME NEW s \in Sessions, ExpireSession(s)
       PROVE  Calm
  BY <1>1, <1>13 DEF ExpireSession
<1>14. ASSUME NEW p \in Requests, Crash(p)
       PROVE  Calm
  BY <1>1, <1>14 DEF Crash
<1>15. CASE UNCHANGED vars
  BY <1>15 DEF vars
<1>16. QED
  BY <1>2, <1>3, <1>4, <1>5, <1>6, <1>7, <1>8, <1>9, <1>10, <1>11, <1>12, <1>13, <1>14, <1>15
  DEF Next, HoldNext, RefreshNext, CreateNext, Environment

\* Only an insert adds a ticket; the others change one in place or none.
LEMMA BookedMoves ==
  ASSUME Typed, [Next]_vars, \A p \in Requests : ~CreateInsert(p)
  PROVE  \/ booked' = booked
         \/ \E b \in booked : \E c : c.id = b.id /\ booked' = (booked \ {b}) \cup {c}
<1>1. ASSUME NEW b \in booked, Close(b)
      PROVE  \E c : c.id = b.id /\ booked' = (booked \ {b}) \cup {c}
  <2>1. [b EXCEPT !.open = FALSE].id = b.id
    BY DEF Typed, TypeOK, Ticket
  <2>2. QED
    BY <1>1, <2>1 DEF Close
<1>2. ASSUME NEW b \in booked, NEW slot \in Moves, Reschedule(b, slot)
      PROVE  \E c : c.id = b.id /\ booked' = (booked \ {b}) \cup {c}
  <2> DEFINE c == [b EXCEPT !.slot = slot, !.desk = FirstOf(Desks \ Busy(booked \ {b}, slot))]
  <2>1. c.id = b.id
    BY DEF Typed, TypeOK, Ticket
  <2>2. booked' = (booked \ {b}) \cup {c}
    BY <1>2 DEF Reschedule
  <2>3. QED
    BY <2>1, <2>2
<1>3. ASSUME NEW p \in Requests, HoldNext(p) \/ RefreshNext(p) \/ CreateNext(p)
      PROVE  booked' = booked
  <2>1. CASE HoldNext(p)
    BY <2>1 DEF HoldNext, HoldStart, HoldPick, HoldSetNX, HoldPrevious, HoldDrop, HoldRemember
  <2>2. CASE RefreshNext(p)
    BY <2>2 DEF RefreshNext, RefreshStart, RefreshExtend
  <2>3. CASE CreateNext(p)
    BY <2>3 DEF CreateNext, CreateStart, WalkInStart, ConsumeGet, ConsumeDelete, CreateCheck
  <2>4. QED
    BY <1>3, <2>1, <2>2, <2>3
<1>4. CASE \/ \E k \in Places : ExpireHold(k) \/ ExpireMember(k)
           \/ \E s \in Sessions : ExpireSession(s)
           \/ \E p \in Requests : Crash(p)
           \/ UNCHANGED vars
  BY <1>4 DEF ExpireHold, ExpireMember, ExpireSession, Crash, vars
<1>5. QED
  BY <1>1, <1>2, <1>3, <1>4 DEF Next, Environment

\* A hold becomes at most one ticket.
LEMMA StepOnce == Typed /\ Once /\ Sold /\ [Next]_vars => Once'
<1> SUFFICES ASSUME Typed, Once, Sold, [Next]_vars
             PROVE  Once'
  OBVIOUS
<1> USE DEF Past, Using
<1>0. Locked /\ Drawn /\ UsedOnce /\ HoldBooksOnce
  BY DEF Once
<1>l. Locked'
  BY StepSold DEF Sold
<1>t. /\ pc \in [Requests -> {"idle"} \cup Running \cup Ended] /\ req \in [Requests -> Request]
      /\ hold \in [Places -> Value \cup {None}] /\ booked \subseteq Ticket
      /\ \A p \in Requests : FilledFor(pc[p], req[p])
  BY DEF Typed, TypeOK, Filled
<1>v. \A k \in Places : hold[k] # None => hold[k].id \in Requests
  BY <1>t DEF Value
<1>1. ASSUME NEW p \in Requests, HoldSetNX(p)
      PROVE  Once'
  <2>1. pc[p] = "setnx" /\ pc'[p] \in Past /\ booked' = booked /\ req' = req
    BY <1>1, <1>t DEF HoldSetNX
  <2>2. \A q \in Requests \ {p} : pc'[q] = pc[q]
    BY <1>1, <1>t DEF HoldSetNX
  <2>3. HoldBooksOnce'
    BY <1>0, <2>1 DEF HoldBooksOnce
  <2>4. CASE hold' = hold
    <3>1. Calm
      BY <2>1, <2>2, <2>4 DEF Calm
    <3>2. QED
      BY <1>0, <1>l, <2>3, <3>1, CalmStep DEF Once
  <2>5. CASE hold' # hold
    <3>1. /\ hold[Place(p)] = None
          /\ hold' = [hold EXCEPT ![Place(p)] = [session |-> req[p].session, id |-> p]]
      BY <1>1, <2>5 DEF HoldSetNX
    <3>2. Place(p) \in Places
      BY <1>t, <2>1, PlaceType DEF FilledFor, Place
    <3>3. /\ hold'[Place(p)] # None => hold'[Place(p)].id = p
          /\ \A k \in Places \ {Place(p)} : hold'[k] = hold[k]
      BY <1>t, <3>1, <3>2
    <3>4. \A k \in Places : hold[k] # None => hold[k].id # p
      BY <1>0, <2>1 DEF Drawn, HoldsPlaced
    <3>5. Unbooked(p)
      BY <1>0, <2>1 DEF Drawn, BooksPlaced, Unbooked
    <3>6. HoldsApart'
      BY <1>0, <3>3, <3>4 DEF Drawn, HoldsApart
    <3>7. HoldsPlaced'
      <4> SUFFICES ASSUME NEW k \in Places, (hold[k] # None)'
                   PROVE  (pc[hold[k].id] \in Past /\ Unbooked(hold[k].id))'
        BY DEF HoldsPlaced
      <4>1. CASE k = Place(p)
        BY <2>1, <3>3, <3>5, <4>1 DEF Unbooked
      <4>2. CASE k # Place(p)
        <5>1. hold'[k] = hold[k] /\ hold[k] # None
          BY <3>3, <4>2
        <5>2. pc[hold[k].id] \in Past /\ Unbooked(hold[k].id)
          BY <1>0, <5>1 DEF Drawn, HoldsPlaced
        <5>3. hold[k].id \in Requests \ {p}
          BY <1>v, <3>4, <5>1
        <5>4. QED
          BY <2>1, <2>2, <5>1, <5>2, <5>3 DEF Unbooked
      <4>3. QED
        BY <4>1, <4>2
    <3>8. BooksPlaced'
      BY <1>0, <1>t, <2>1, <2>2 DEF Drawn, BooksPlaced, Ticket
    <3>9. UsedOnce'
      <4> SUFFICES ASSUME NEW q \in Requests, (pc[q] \in Using)'
                   PROVE  InUse(q)'
        BY DEF UsedOnce
      <4>1. q # p /\ pc'[q] = pc[q] /\ pc[q] \in Using
        BY <2>1, <2>2
      <4>2. InUse(q)
        BY <1>0, <4>1 DEF UsedOnce
      <4>3. req[q].id \in Requests /\ req[q].id # p
        BY <1>t, <2>1, <4>1, <4>2 DEF InUse, FilledFor
      <4>4. pc'[req[q].id] = pc[req[q].id]
        BY <2>2, <4>3
      <4>5. ASSUME NEW k \in Places, hold'[k] # None, hold'[k].id = req[q].id
            PROVE  pc[q] = "delete" /\ k = Place(q)
        BY <3>3, <4>2, <4>3, <4>5 DEF InUse
      <4>6. Place(q)' = Place(q)
        BY <2>1 DEF Place
      <4>7. QED
        BY <2>1, <4>1, <4>2, <4>4, <4>5, <4>6 DEF InUse, Unbooked
    <3>10. QED
      BY <1>l, <2>3, <3>6, <3>7, <3>8, <3>9 DEF Once, Drawn
  <2>6. QED
    BY <2>4, <2>5
<1>2. ASSUME NEW p \in Requests, ConsumeGet(p)
      PROVE  Once'
  <2>1. /\ pc[p] = "consume" /\ pc' = [pc EXCEPT ![p] = pc'[p]]
        /\ UNCHANGED <<req, hold, booked>>
    BY <1>2, <1>t DEF ConsumeGet, redis
  <2>2. \A q \in Requests \ {p} : pc'[q] = pc[q]
    BY <1>t, <2>1
  <2>3. \A q \in Requests : pc[q] \in Past => pc'[q] \in Past
    BY <2>1, <2>2
  <2>4. Drawn' /\ HoldBooksOnce'
    BY <1>0, <1>t, <1>v, <2>1, <2>3
    DEF Drawn, HoldsApart, HoldsPlaced, BooksPlaced, Unbooked, HoldBooksOnce, Ticket
  <2>5. UsedOnce'
    <3> SUFFICES ASSUME NEW q \in Requests, (pc[q] \in Using)'
                 PROVE  InUse(q)'
      BY DEF UsedOnce
    <3>1. Place(q)' = Place(q) /\ Unbooked(req[q].id)' = Unbooked(req[q].id)
      BY <2>1 DEF Place, Unbooked
    <3>2. CASE q = p
      <4>1. /\ pc'[p] = "delete"
            /\ hold[Place(p)] = [session |-> req[p].session, id |-> req[p].id]
        BY <1>2, <1>t, <3>2 DEF ConsumeGet
      <4>2. Place(p) \in Places /\ hold[Place(p)] # None /\ hold[Place(p)].id = req[p].id
        <5>1. Place(p) \in Places
          BY <1>t, <2>1, PlaceType DEF FilledFor, Place
        <5>2. hold[Place(p)] # None
          BY <4>1, <1>t, <2>1, SlotHoldAssumption DEF FilledFor
        <5>3. QED
          BY <4>1, <5>1, <5>2
      <4>3. pc[req[p].id] \in Past /\ Unbooked(req[p].id)
        BY <1>0, <4>2 DEF Drawn, HoldsPlaced
      <4>4. \A k \in Places : hold[k] # None /\ hold[k].id = req[p].id => k = Place(p)
        BY <1>0, <4>2 DEF Drawn, HoldsApart
      <4>5. req[p].id \in Requests
        BY <1>v, <4>2
      <4>6. QED
        BY <2>1, <2>3, <3>1, <3>2, <4>1, <4>3, <4>4, <4>5 DEF InUse
    <3>3. CASE q # p
      <4>1. pc'[q] = pc[q] /\ pc[q] \in Using /\ InUse(q)
        BY <1>0, <2>2, <3>3 DEF UsedOnce
      <4>2. req[q].id \in Requests
        BY <1>t, <4>1 DEF FilledFor
      <4>3. QED
        BY <2>1, <2>3, <3>1, <4>1, <4>2 DEF InUse
    <3>4. QED
      BY <3>2, <3>3
  <2>6. QED
    BY <1>l, <2>4, <2>5 DEF Once
<1>3. ASSUME NEW p \in Requests, ConsumeDelete(p)
      PROVE  Once'
  <2>1. /\ pc[p] = "delete" /\ pc' = [pc EXCEPT ![p] = "check"]
        /\ hold' = [hold EXCEPT ![Place(p)] = None]
        /\ UNCHANGED <<req, booked>>
    BY <1>3 DEF ConsumeDelete
  <2>2. pc'[p] = "check" /\ \A q \in Requests \ {p} : pc'[q] = pc[q]
    BY <1>t, <2>1
  <2>3. \A q \in Requests : pc[q] \in Past => pc'[q] \in Past
    BY <2>1, <2>2
  <2>4. \A k \in Places : hold'[k] = hold[k] \/ hold'[k] = None
    BY <1>t, <2>1
  <2>5. Drawn' /\ HoldBooksOnce'
    <3>1. HoldsApart' /\ BooksPlaced' /\ HoldBooksOnce'
      BY <1>0, <1>t, <2>1, <2>3, <2>4
      DEF Drawn, HoldsApart, BooksPlaced, HoldBooksOnce, Ticket
    <3>2. HoldsPlaced'
      BY <1>0, <1>v, <2>1, <2>3, <2>4 DEF Drawn, HoldsPlaced, Unbooked
    <3>3. QED
      BY <3>1, <3>2 DEF Drawn
  <2>6. UsedOnce'
    <3> SUFFICES ASSUME NEW q \in Requests, (pc[q] \in Using)'
                 PROVE  InUse(q)'
      BY DEF UsedOnce
    <3>1. Place(q)' = Place(q) /\ Unbooked(req[q].id)' = Unbooked(req[q].id)
      BY <2>1 DEF Place, Unbooked
    <3>2. pc[q] \in Using /\ InUse(q)
      BY <1>0, <2>1, <2>2 DEF UsedOnce
    <3>3. req[q].id \in Requests
      BY <1>t, <3>2 DEF FilledFor
    <3>4. CASE q = p
      <4>1. \A k \in Places : hold'[k] # None => hold'[k].id # req[p].id
        BY <1>t, <2>1, <3>2, <3>4 DEF InUse
      <4>2. QED
        BY <2>1, <2>2, <2>3, <3>1, <3>2, <3>3, <3>4, <4>1 DEF InUse
    <3>5. CASE q # p
      BY <2>1, <2>2, <2>3, <2>4, <3>1, <3>2, <3>3, <3>5 DEF InUse
    <3>6. QED
      BY <3>4, <3>5
  <2>7. QED
    BY <1>l, <2>5, <2>6 DEF Once
<1>4. ASSUME NEW p \in Requests, CreateInsert(p)
      PROVE  Once'
  <2>1. pc[p] = "insert" /\ pc'[p] = "done" /\ UNCHANGED <<req, hold>>
    BY <1>4, <1>t DEF CreateInsert, redis
  <2>2. \A q \in Requests \ {p} : pc'[q] = pc[q] /\ pc'[q] \notin Using
    <3>1. pc[p] \in Holder
      BY <2>1 DEF Holder
    <3>2. \A q \in Requests \ {p} : pc[q] \notin Holder
      BY <1>0, <3>1, OneHolder
    <3>3. QED
      BY <1>4, <1>t, <3>2 DEF CreateInsert, Holder
  <2>3. PICK b : booked' = booked \cup {b} /\ b.id = req[p].id
    BY <1>0, <1>4, InsertAdds
  <2>4. InUse(p) /\ req[p].id \in Requests
    BY <1>0, <1>t, <2>1 DEF UsedOnce, FilledFor
  <2>5. HoldBooksOnce'
    BY <1>0, <2>3, <2>4 DEF HoldBooksOnce, InUse, Unbooked
  <2>6. \A q \in Requests : pc[q] \in Past => pc'[q] \in Past
    BY <2>1, <2>2
  <2>7. UsedOnce'
    BY <2>1, <2>2 DEF UsedOnce
  <2>8. BooksPlaced'
    <3>1. pc'[b.id] \in Past
      BY <2>1, <2>3, <2>4, <2>6 DEF InUse
    <3>2. QED
      BY <1>0, <1>t, <2>3, <2>6, <3>1 DEF Drawn, BooksPlaced, Ticket
  <2>9. HoldsApart' /\ HoldsPlaced'
    <3>1. \A k \in Places : hold[k] # None => hold[k].id # b.id
      BY <2>1, <2>3, <2>4 DEF InUse
    <3>2. QED
      BY <1>0, <1>v, <2>1, <2>3, <2>6, <3>1 DEF Drawn, HoldsApart, HoldsPlaced, Unbooked
  <2>10. QED
    BY <1>l, <2>5, <2>7, <2>8, <2>9 DEF Once, Drawn
<1>5. ASSUME NEW p \in Requests, NEW s \in Sessions, NEW slot \in Slots, WalkInStart(p, Phone[s], slot)
      PROVE  Once'
  <2>1. /\ pc[p] = "idle" /\ pc'[p] = "check" /\ UNCHANGED <<hold, booked>>
        /\ req' = [req EXCEPT ![p] = [Start EXCEPT !.slot = slot, !.id = p, !.phone = Phone[s]]]
        /\ lock = None /\ \A q \in Requests \ {p} : pc'[q] = pc[q]
    BY <1>5, <1>t DEF WalkInStart, redis
  <2>2. \A q \in Requests : pc[q] \in Past => pc'[q] \in Past
    BY <2>1
  <2>3. Drawn' /\ HoldBooksOnce'
    BY <1>0, <1>t, <1>v, <2>1, <2>2
    DEF Drawn, HoldsApart, HoldsPlaced, BooksPlaced, Unbooked, HoldBooksOnce, Ticket
  <2>4. \A q \in Requests \ {p} : pc'[q] \notin Using
    BY <1>0, <2>1, OneHolder DEF Holder
  <2>5. req'[p].id = p
    BY <1>t, <2>1 DEF Start
  <2>6. Unbooked(p) /\ \A k \in Places : hold[k] # None => hold[k].id # p
    BY <1>0, <2>1 DEF Drawn, HoldsPlaced, BooksPlaced, Unbooked
  <2>7. InUse(p)'
    BY <2>1, <2>5, <2>6 DEF InUse, Unbooked
  <2>8. UsedOnce'
    BY <2>4, <2>7 DEF UsedOnce
  <2>9. QED
    BY <1>l, <2>3, <2>8 DEF Once
<1>6. CASE /\ \A p \in Requests : ~HoldSetNX(p) /\ ~ConsumeGet(p) /\ ~ConsumeDelete(p)
                                  /\ ~CreateInsert(p)
           /\ \A p \in Requests, s \in Sessions, slot \in Slots : ~WalkInStart(p, Phone[s], slot)
  <2>1. Drawn' /\ UsedOnce'
    BY <1>0, <1>6, MostAreCalm, CalmStep
  <2>2. HoldBooksOnce'
    <3>1. CASE booked' = booked
      BY <1>0, <3>1 DEF HoldBooksOnce
    <3>2. ASSUME NEW b \in booked, NEW c, c.id = b.id, booked' = (booked \ {b}) \cup {c}
          PROVE  HoldBooksOnce'
      BY <1>0, <3>2 DEF HoldBooksOnce
    <3>3. \/ booked' = booked
          \/ \E b \in booked : \E c : c.id = b.id /\ booked' = (booked \ {b}) \cup {c}
      BY BookedMoves, <1>6
    <3>4. QED
      BY <3>1, <3>2, <3>3
  <2>3. QED
    BY <1>l, <2>1, <2>2 DEF Once
<1>7. QED
  BY <1>1, <1>2, <1>3, <1>4, <1>5, <1>6

\* A form sent twice, a hold answered twice, a hold that outlives its booking
\* in the browser: a holdId becomes at most one ticket, ever.
THEOREM HoldOnceHolds == Spec => []HoldBooksOnce
<1>1. Init => Typed
  BY InitTyped
<1>2. Init => Sold
  BY SlotHoldAssumption DEF Init, Sold, Locked, Holder, DesksFree, OneTicketPerDeskSlot
<1>3. Init => Once
  BY <1>2 DEF Init, Sold, Once, Drawn, HoldsApart, HoldsPlaced, BooksPlaced, UsedOnce, Using,
     HoldBooksOnce
<1>4. Typed /\ Sold /\ Once /\ [Next]_vars => (Typed /\ Sold /\ Once)'
  BY StepTyped, StepSold, StepOnce
<1>5. Once => HoldBooksOnce
  BY DEF Once
<1>6. QED
  BY <1>1, <1>2, <1>3, <1>4, <1>5, PTL DEF Spec

-----------------------------------------------------------------------------
(* Browsers that wait.  Whose keys there are, and who is changing them. *)

Hers(s) == {k \in Places : hold[k] # None /\ hold[k].session = s}

Crashed(s) == \E p \in Requests : pc[p] = "crashed" /\ req[p].session = s

\* A request that has set its key and not yet remembered it.
Changing(p) == pc[p] \in {"previous", "drop", "remember"}

\* One request of a browser runs at a time.
OneTab ==
  \A p, q \in Requests :
    /\ pc[p] \in Running /\ pc[q] \in Running
    /\ req[p].session = req[q].session /\ req[p].session # None
    => p = q

\* Where the keys of a browser are that lost no request: its session key names
\* them, or a request is about to.
Named(s) ==
  \A k \in Hers(s) :
    \/ session[s] = k /\ <<hold[k].id, k[2]>> \in answered[s]
    \/ \E p \in Requests : Changing(p) /\ req[p].session = s /\ Place(p) = k /\ hold[k].id = p

\* What a request counts on between its commands.
LeftTo(p, s) ==
  /\ pc[p] \in {"remember", "consume", "delete"} => Hers(s) \subseteq {Place(p)}
  /\ pc[p] = "drop" => Hers(s) \subseteq {Place(p), req[p].previous}

Known ==
  \A s \in Sessions : ~Crashed(s) =>
    Named(s) /\ \A p \in Requests : req[p].session = s => LeftTo(p, s)

\* While no TTL runs out: a session key names a key of the session, until the
\* request that changes it has dropped that one.
Backed(s) ==
  session[s] # None =>
    \/ session[s] \in Hers(s)
    \/ \E p \in Requests : pc[p] = "remember" /\ req[p].session = s /\ req[p].previous = session[s]

CountsOn(p, s) ==
  /\ Changing(p) => Place(p) \in Hers(s)
  /\ pc[p] = "drop" => req[p].previous = session[s] /\ req[p].previous # Place(p)
  /\ pc[p] \in {"consume", "delete"} => session[s] = Place(p)

Kept ==
  (\A p \in Requests : ~HalfMoved(p)) =>
    \A s \in Sessions : Backed(s) /\ \A p \in Requests : req[p].session = s => CountsOn(p, s)


-----------------------------------------------------------------------------
(* What one step may do to the keys, and to the request that takes it. *)

\* A hold key is set when it is free, by the request that draws its holdId, and
\* dropped by a change of slots, by the booking that consumes it, or by its TTL.
KeyMoves(k) ==
  \/ hold'[k] = hold[k]
  \/ hold'[k] = None /\ KeysExpire
  \/ \E p \in Requests :
       \/ /\ pc[p] = "setnx" /\ pc'[p] = "previous" /\ req' = req
          /\ k = Place(p) /\ hold[k] = None
          /\ hold'[k] = [session |-> req[p].session, id |-> p]
       \/ /\ pc[p] = "drop" /\ pc'[p] = "remember" /\ req' = req
          /\ k = req[p].previous /\ hold'[k] = None
       \/ /\ pc[p] = "delete" /\ pc'[p] = "check" /\ req' = req
          /\ k = Place(p) /\ hold'[k] = None /\ session'[req[p].session] = None

SessionMoves(s) ==
  \/ session'[s] = session[s]
  \/ session'[s] = None /\ session[s] \notin Hers(s) /\ KeysExpire /\ UNCHANGED <<pc, req, hold>>
  \/ \E p \in Requests :
       /\ s = req[p].session /\ req' = req
       /\ \/ /\ pc[p] = "delete" /\ pc'[p] = "check"
             /\ session'[s] = None /\ hold'[Place(p)] = None
          \/ /\ pc[p] = "remember" /\ pc'[p] = "done"
             /\ session'[s] = Place(p) /\ UNCHANGED hold
             /\ <<p, req[p].slot>> \in answered'[s]

\* What a request was given stays while it runs.
Keeps(q) ==
  /\ pc'[q] # pc[q] => \A r \in Requests \ {q} : pc'[r] = pc[r]
  /\ pc[q] # "idle" => req'[q].session = req[q].session
  /\ pc[q] \notin {"idle", "pick", "check"} => req'[q].slot = req[q].slot /\ req'[q].desk = req[q].desk
  /\ pc[q] \notin {"idle", "previous"} => req'[q].previous = req[q].previous

\* Where a request comes from, and what it has seen on the way.
Comes(q) ==
  LET s == req[q].session IN
  /\ pc[q] = "crashed" => pc'[q] = "crashed"
  /\ pc'[q] \in Running /\ pc[q] \notin Running =>
       pc[q] = "idle" /\ (req'[q].session = None \/ MaySend(q, req'[q].session))
  /\ pc'[q] = "previous" =>
       \/ pc[q] = "previous" /\ req'[q] = req[q]
       \/ pc[q] = "setnx" /\ req' = req /\ hold'[Place(q)] = [session |-> s, id |-> q]
  /\ pc'[q] = "drop" =>
       \/ pc[q] = "drop"
       \/ /\ pc[q] = "previous" /\ UNCHANGED <<hold, session>>
          /\ req'[q].previous = session[s] /\ session[s] \notin {None, Place(q)}
  /\ pc'[q] = "remember" =>
       \/ pc[q] = "remember"
       \/ pc[q] = "previous" /\ UNCHANGED <<req, hold, session>> /\ session[s] \in {None, Place(q)}
       \/ pc[q] = "drop" /\ UNCHANGED <<req, session>> /\ hold' = [hold EXCEPT ![req[q].previous] = None]
  /\ pc'[q] = "consume" =>
       \/ pc[q] = "consume"
       \/ /\ pc[q] = "idle" /\ UNCHANGED <<hold, session>>
          /\ session[req'[q].session] = <<req'[q].desk, req'[q].slot>>
          /\ <<req'[q].desk, req'[q].slot>> \in Hers(req'[q].session)
  /\ pc'[q] = "delete" => pc[q] \in {"consume", "delete"}

Goes(q) ==
  /\ pc[q] = "previous" => pc'[q] \in {"previous", "drop", "remember", "crashed"}
  /\ pc[q] = "drop" => pc'[q] \in {"drop", "remember", "crashed"}
  /\ pc[q] = "remember" =>
       \/ pc'[q] \in {"remember", "crashed"}
       \/ /\ pc'[q] = "done" /\ UNCHANGED hold
          /\ session'[req[q].session] = Place(q) /\ <<q, req[q].slot>> \in answered'[req[q].session]
  /\ pc'[q] = "crashed" /\ pc[q] # "crashed" => UNCHANGED <<req, hold, session>>

Moved ==
  /\ \A k \in Places : KeyMoves(k)
  /\ \A s \in Sessions : SessionMoves(s) /\ answered[s] \subseteq answered'[s]
  /\ \A q \in Requests : Keeps(q) /\ Comes(q) /\ Goes(q)


\* Every step is one of those: the case analysis that the invariants below rest on.
LEMMA StepMoves ==
  ASSUME Typed, [Next]_vars
  PROVE  Moved
<1> USE DEF redis
<1>t. TypeOK /\ \A q \in Requests : req[q] \in Request /\ Filled(q)
  BY DEF Typed, TypeOK
<1>d. /\ DOMAIN Start = {"session", "slot", "id", "desk", "previous", "phone"}
      /\ Start.session = None /\ Start.previous = None
  BY DEF Start
<1>1. ASSUME NEW p \in Requests, NEW s \in Sessions, NEW slot \in Slots, HoldStart(p, s, slot)
      PROVE  Moved
  <2>a. \A q \in Requests \ {p} : pc'[q] = pc[q] /\ req'[q] = req[q]
    BY <1>t, <1>1 DEF HoldStart, TypeOK
  <2>b. /\ pc[p] = "idle" /\ pc'[p] \in {"done", "pick"} /\ UNCHANGED <<hold, session>>
        /\ pc'[p] = "pick" => req'[p].session = s /\ req'[p].previous = None /\ MaySend(p, s)
    <3> DEFINE r == [Start EXCEPT !.session = s, !.slot = slot, !.id = p]
    <3>1. pc[p] = "idle" /\ MaySend(p, s) /\ UNCHANGED <<hold, session>>
      BY <1>1 DEF HoldStart, MaySend
    <3>2. \/ pc' = [pc EXCEPT ![p] = "done"]
          \/ pc' = [pc EXCEPT ![p] = "pick"] /\ req' = [req EXCEPT ![p] = r]
      BY <1>1, Zenon DEF HoldStart
    <3>3. r.session = s /\ r.previous = None
      BY <1>d
    <3> HIDE DEF r
    <3> QED
      BY <1>t, <3>1, <3>2, <3>3 DEF TypeOK
  <2>1. \A k \in Places : KeyMoves(k)
    BY <1>t, <1>1, <2>a, <2>b DEF HoldStart, TypeOK, KeyMoves
  <2>2. \A s1 \in Sessions : SessionMoves(s1) /\ answered[s1] \subseteq answered'[s1]
    BY <1>t, <1>1, <2>a, <2>b DEF HoldStart, TypeOK, SessionMoves
  <2>3. \A q \in Requests : Keeps(q)
    BY <2>a, <2>b DEF Keeps
  <2>4. \A q \in Requests : Comes(q)
    BY <2>a, <2>b DEF Comes, Running
  <2>5. \A q \in Requests : Goes(q)
    BY <2>a, <2>b DEF Goes
  <2> QED
    BY <2>1, <2>2, <2>3, <2>4, <2>5 DEF Moved
<1>2. ASSUME NEW p \in Requests, HoldPick(p)
      PROVE  Moved
  <2>a. \A q \in Requests \ {p} : pc'[q] = pc[q] /\ req'[q] = req[q]
    BY <1>t, <1>2 DEF HoldPick, TypeOK
  <2>b. /\ pc[p] = "pick" /\ pc'[p] \in {"refused", "setnx"} /\ UNCHANGED <<hold, session>>
        /\ req'[p].session = req[p].session /\ req'[p].slot = req[p].slot
        /\ req'[p].previous = req[p].previous
    BY <1>t, <1>2 DEF HoldPick, TypeOK, Request
  <2>1. \A k \in Places : KeyMoves(k)
    BY <1>t, <1>2, <2>a, <2>b DEF HoldPick, TypeOK, KeyMoves
  <2>2. \A s1 \in Sessions : SessionMoves(s1) /\ answered[s1] \subseteq answered'[s1]
    BY <1>t, <1>2, <2>a, <2>b DEF HoldPick, TypeOK, SessionMoves
  <2>3. \A q \in Requests : Keeps(q)
    BY <2>a, <2>b DEF Keeps
  <2>4. \A q \in Requests : Comes(q)
    BY <2>a, <2>b DEF Comes, Running
  <2>5. \A q \in Requests : Goes(q)
    BY <2>a, <2>b DEF Goes
  <2> QED
    BY <2>1, <2>2, <2>3, <2>4, <2>5 DEF Moved
<1>3. ASSUME NEW p \in Requests, HoldSetNX(p)
      PROVE  Moved
  <2>a. \A q \in Requests \ {p} : pc'[q] = pc[q] /\ req'[q] = req[q]
    BY <1>t, <1>3 DEF HoldSetNX, TypeOK
  <2>b. /\ pc[p] = "setnx" /\ req' = req /\ session' = session
        /\ pc'[p] \in {"done", "refused", "previous"}
        /\ pc'[p] = "previous" => hold'[Place(p)] = [session |-> req[p].session, id |-> p]
    BY <1>t, <1>3, PlaceType DEF HoldSetNX, TypeOK, Request, Filled, FilledFor, Place
  <2>1. \A k \in Places : KeyMoves(k)
    BY <1>t, <1>3, <2>a, <2>b, PlaceType DEF HoldSetNX, TypeOK, KeyMoves, Filled, FilledFor, Place
  <2>2. \A s1 \in Sessions : SessionMoves(s1) /\ answered[s1] \subseteq answered'[s1]
    BY <1>t, <1>3, <2>a, <2>b, PlaceType DEF HoldSetNX, TypeOK, SessionMoves, Filled, FilledFor, Place
  <2>3. \A q \in Requests : Keeps(q)
    BY <2>a, <2>b DEF Keeps
  <2>4. \A q \in Requests : Comes(q)
    BY <2>a, <2>b DEF Comes, Running
  <2>5. \A q \in Requests : Goes(q)
    BY <2>a, <2>b DEF Goes
  <2> QED
    BY <2>1, <2>2, <2>3, <2>4, <2>5 DEF Moved
<1>4. ASSUME NEW p \in Requests, HoldPrevious(p)
      PROVE  Moved
  <2>a. \A q \in Requests \ {p} : pc'[q] = pc[q] /\ req'[q] = req[q]
    BY <1>t, <1>4 DEF HoldPrevious, TypeOK
  <2>b. /\ pc[p] = "previous" /\ UNCHANGED <<hold, session>>
        /\ req'[p].session = req[p].session /\ req'[p].slot = req[p].slot /\ req'[p].desk = req[p].desk
        /\ \/ /\ pc'[p] = "drop" /\ req'[p].previous = session[req[p].session]
              /\ session[req[p].session] \notin {None, Place(p)}
           \/ pc'[p] = "remember" /\ req' = req /\ session[req[p].session] \in {None, Place(p)}
    BY <1>t, <1>4 DEF HoldPrevious, TypeOK, Request
  <2>1. \A k \in Places : KeyMoves(k)
    BY <1>t, <1>4, <2>a, <2>b DEF HoldPrevious, TypeOK, KeyMoves
  <2>2. \A s1 \in Sessions : SessionMoves(s1) /\ answered[s1] \subseteq answered'[s1]
    BY <1>t, <1>4, <2>a, <2>b DEF HoldPrevious, TypeOK, SessionMoves
  <2>3. \A q \in Requests : Keeps(q)
    BY <2>a, <2>b DEF Keeps
  <2>4. \A q \in Requests : Comes(q)
    BY <2>a, <2>b DEF Comes, Running
  <2>5. \A q \in Requests : Goes(q)
    BY <2>a, <2>b DEF Goes
  <2> QED
    BY <2>1, <2>2, <2>3, <2>4, <2>5 DEF Moved
<1>5. ASSUME NEW p \in Requests, HoldDrop(p)
      PROVE  Moved
  <2>a. \A q \in Requests \ {p} : pc'[q] = pc[q] /\ req'[q] = req[q]
    BY <1>t, <1>5 DEF HoldDrop, TypeOK
  <2>b. /\ pc[p] = "drop" /\ pc'[p] = "remember" /\ UNCHANGED <<req, session>>
        /\ hold' = [hold EXCEPT ![req[p].previous] = None]
    BY <1>t, <1>5 DEF HoldDrop, TypeOK, Request
  <2>1. \A k \in Places : KeyMoves(k)
    BY <1>t, <1>5, <2>a, <2>b DEF HoldDrop, TypeOK, KeyMoves
  <2>2. \A s1 \in Sessions : SessionMoves(s1) /\ answered[s1] \subseteq answered'[s1]
    BY <1>t, <1>5, <2>a, <2>b DEF HoldDrop, TypeOK, SessionMoves
  <2>3. \A q \in Requests : Keeps(q)
    BY <2>a, <2>b DEF Keeps
  <2>4. \A q \in Requests : Comes(q)
    BY <2>a, <2>b DEF Comes, Running
  <2>5. \A q \in Requests : Goes(q)
    BY <2>a, <2>b DEF Goes
  <2> QED
    BY <2>1, <2>2, <2>3, <2>4, <2>5 DEF Moved
<1>6. ASSUME NEW p \in Requests, HoldRemember(p)
      PROVE  Moved
  <2>a. \A q \in Requests \ {p} : pc'[q] = pc[q] /\ req'[q] = req[q]
    BY <1>t, <1>6 DEF HoldRemember, TypeOK
  <2>b. /\ pc[p] = "remember" /\ pc'[p] = "done" /\ UNCHANGED <<req, hold>>
        /\ session'[req[p].session] = Place(p) /\ <<p, req[p].slot>> \in answered'[req[p].session]
    BY <1>t, <1>6, PlaceType DEF HoldRemember, TypeOK, Request, Filled, FilledFor, Place
  <2>1. \A k \in Places : KeyMoves(k)
    BY <1>t, <1>6, <2>a, <2>b, PlaceType DEF HoldRemember, TypeOK, KeyMoves, Filled, FilledFor, Place
  <2>2. \A s1 \in Sessions : SessionMoves(s1) /\ answered[s1] \subseteq answered'[s1]
    BY <1>t, <1>6, <2>a, <2>b, PlaceType DEF HoldRemember, TypeOK, SessionMoves, Filled, FilledFor, Place
  <2>3. \A q \in Requests : Keeps(q)
    BY <2>a, <2>b DEF Keeps
  <2>4. \A q \in Requests : Comes(q)
    BY <2>a, <2>b DEF Comes, Running
  <2>5. \A q \in Requests : Goes(q)
    BY <2>a, <2>b DEF Goes
  <2> QED
    BY <2>1, <2>2, <2>3, <2>4, <2>5 DEF Moved
<1>7. ASSUME NEW p \in Requests, NEW s \in Sessions, NEW id \in Requests, NEW slot \in Slots,
             RefreshStart(p, s, id, slot)
      PROVE  Moved
  <2>a. \A q \in Requests \ {p} : pc'[q] = pc[q] /\ req'[q] = req[q]
    BY <1>t, <1>7 DEF RefreshStart, TypeOK
  <2>b. /\ pc[p] = "idle" /\ pc'[p] \in {"refused", "extend"} /\ UNCHANGED <<hold, session>>
        /\ pc'[p] = "extend" => req'[p].session = s /\ MaySend(p, s)
    <3> DEFINE r(k) == [Start EXCEPT !.session = s, !.id = id, !.previous = k]
    <3>1. pc[p] = "idle" /\ MaySend(p, s) /\ UNCHANGED <<hold, session>>
      BY <1>7 DEF RefreshStart, MaySend
    <3>2. \/ pc' = [pc EXCEPT ![p] = "refused"]
          \/ pc' = [pc EXCEPT ![p] = "extend"] /\ \E k : req' = [req EXCEPT ![p] = r(k)]
      BY <1>7, Zenon DEF RefreshStart
    <3>3. \A k : r(k).session = s
      BY <1>d
    <3> HIDE DEF r
    <3> QED
      BY <1>t, <3>1, <3>2, <3>3 DEF TypeOK
  <2>1. \A k \in Places : KeyMoves(k)
    BY <1>t, <1>7, <2>a, <2>b DEF RefreshStart, TypeOK, KeyMoves
  <2>2. \A s1 \in Sessions : SessionMoves(s1) /\ answered[s1] \subseteq answered'[s1]
    BY <1>t, <1>7, <2>a, <2>b DEF RefreshStart, TypeOK, SessionMoves
  <2>3. \A q \in Requests : Keeps(q)
    BY <2>a, <2>b DEF Keeps
  <2>4. \A q \in Requests : Comes(q)
    BY <2>a, <2>b DEF Comes, Running
  <2>5. \A q \in Requests : Goes(q)
    BY <2>a, <2>b DEF Goes
  <2> QED
    BY <2>1, <2>2, <2>3, <2>4, <2>5 DEF Moved
<1>8. ASSUME NEW p \in Requests, RefreshExtend(p)
      PROVE  Moved
  <2>a. \A q \in Requests \ {p} : pc'[q] = pc[q] /\ req'[q] = req[q]
    BY <1>t, <1>8 DEF RefreshExtend, TypeOK
  <2>b. pc[p] = "extend" /\ pc'[p] = "done" /\ UNCHANGED <<req, hold, session>>
    BY <1>t, <1>8 DEF RefreshExtend, TypeOK, Request
  <2>1. \A k \in Places : KeyMoves(k)
    BY <1>t, <1>8, <2>a, <2>b DEF RefreshExtend, TypeOK, KeyMoves
  <2>2. \A s1 \in Sessions : SessionMoves(s1) /\ answered[s1] \subseteq answered'[s1]
    BY <1>t, <1>8, <2>a, <2>b DEF RefreshExtend, TypeOK, SessionMoves
  <2>3. \A q \in Requests : Keeps(q)
    BY <2>a, <2>b DEF Keeps
  <2>4. \A q \in Requests : Comes(q)
    BY <2>a, <2>b DEF Comes, Running
  <2>5. \A q \in Requests : Goes(q)
    BY <2>a, <2>b DEF Goes
  <2> QED
    BY <2>1, <2>2, <2>3, <2>4, <2>5 DEF Moved
<1>9. ASSUME NEW p \in Requests, NEW s \in Sessions, NEW id \in Requests, NEW slot \in Slots,
             CreateStart(p, s, id, slot)
      PROVE  Moved
  <2>a. \A q \in Requests \ {p} : pc'[q] = pc[q] /\ req'[q] = req[q]
    BY <1>t, <1>9 DEF CreateStart, TypeOK
  <2>b. /\ pc[p] = "idle" /\ pc'[p] \in {"refused", "consume"} /\ UNCHANGED <<hold, session>>
        /\ pc'[p] = "consume" =>
            /\ req'[p].session = s /\ MaySend(p, s)
            /\ session[s] = <<req'[p].desk, req'[p].slot>> /\ <<req'[p].desk, req'[p].slot>> \in Hers(s)
    <3> DEFINE mine == {k \in OwnPlace(s, id) : k[2] = slot}
               r(k) == [Start EXCEPT !.session = s, !.slot = slot, !.id = id,
                                     !.desk = k[1], !.phone = Phone[s]]
    <3>1. pc[p] = "idle" /\ MaySend(p, s) /\ UNCHANGED <<hold, session>>
      BY <1>9 DEF CreateStart, MaySend
    <3>2. \/ pc' = [pc EXCEPT ![p] = "refused"]
          \/ pc' = [pc EXCEPT ![p] = "consume"] /\ \E k \in mine : req' = [req EXCEPT ![p] = r(k)]
      BY <1>9, Zenon DEF CreateStart
    <3>3. \A k : r(k).session = s /\ r(k).desk = k[1] /\ r(k).slot = slot
      BY <1>d
    <3>4. \A k \in mine : k = <<k[1], slot>> /\ session[s] = k /\ k \in Hers(s)
      BY <1>t, SlotHoldAssumption DEF OwnPlace, Hers, Places, Value, TypeOK
    <3> HIDE DEF r, mine
    <3>5. CASE pc' = [pc EXCEPT ![p] = "refused"]
      BY <1>t, <3>1, <3>5 DEF TypeOK
    <3>6. ASSUME NEW k \in mine, pc' = [pc EXCEPT ![p] = "consume"], req' = [req EXCEPT ![p] = r(k)]
          PROVE  /\ pc'[p] = "consume" /\ req'[p].session = s
                 /\ session[s] = <<req'[p].desk, req'[p].slot>> /\ <<req'[p].desk, req'[p].slot>> \in Hers(s)
      BY <1>t, <3>3, <3>4, <3>6 DEF TypeOK
    <3> QED
      BY <3>1, <3>2, <3>5, <3>6
  <2>1. \A k \in Places : KeyMoves(k)
    BY <1>t, <1>9, <2>a, <2>b DEF CreateStart, TypeOK, KeyMoves
  <2>2. \A s1 \in Sessions : SessionMoves(s1) /\ answered[s1] \subseteq answered'[s1]
    BY <1>t, <1>9, <2>a, <2>b DEF CreateStart, TypeOK, SessionMoves
  <2>3. \A q \in Requests : Keeps(q)
    BY <2>a, <2>b DEF Keeps
  <2>4. \A q \in Requests : Comes(q)
    BY <2>a, <2>b DEF Comes, Running
  <2>5. \A q \in Requests : Goes(q)
    BY <2>a, <2>b DEF Goes
  <2> QED
    BY <2>1, <2>2, <2>3, <2>4, <2>5 DEF Moved
<1>10. ASSUME NEW p \in Requests, NEW s \in Sessions, NEW slot \in Slots, WalkInStart(p, Phone[s], slot)
      PROVE  Moved
  <2>a. \A q \in Requests \ {p} : pc'[q] = pc[q] /\ req'[q] = req[q]
    BY <1>t, <1>10 DEF WalkInStart, TypeOK
  <2>b. pc[p] = "idle" /\ pc'[p] = "check" /\ req'[p].session = None /\ UNCHANGED <<hold, session>>
    BY <1>t, <1>10, <1>d DEF WalkInStart, TypeOK, Request
  <2>1. \A k \in Places : KeyMoves(k)
    BY <1>t, <1>10, <2>a, <2>b DEF WalkInStart, TypeOK, KeyMoves
  <2>2. \A s1 \in Sessions : SessionMoves(s1) /\ answered[s1] \subseteq answered'[s1]
    BY <1>t, <1>10, <2>a, <2>b DEF WalkInStart, TypeOK, SessionMoves
  <2>3. \A q \in Requests : Keeps(q)
    BY <2>a, <2>b DEF Keeps
  <2>4. \A q \in Requests : Comes(q)
    BY <2>a, <2>b DEF Comes, Running
  <2>5. \A q \in Requests : Goes(q)
    BY <2>a, <2>b DEF Goes
  <2> QED
    BY <2>1, <2>2, <2>3, <2>4, <2>5 DEF Moved
<1>11. ASSUME NEW p \in Requests, ConsumeGet(p)
      PROVE  Moved
  <2>a. \A q \in Requests \ {p} : pc'[q] = pc[q] /\ req'[q] = req[q]
    BY <1>t, <1>11 DEF ConsumeGet, TypeOK
  <2>b. pc[p] = "consume" /\ pc'[p] \in {"delete", "refused"} /\ UNCHANGED <<req, hold, session>>
    BY <1>t, <1>11 DEF ConsumeGet, TypeOK, Request
  <2>1. \A k \in Places : KeyMoves(k)
    BY <1>t, <1>11, <2>a, <2>b DEF ConsumeGet, TypeOK, KeyMoves
  <2>2. \A s1 \in Sessions : SessionMoves(s1) /\ answered[s1] \subseteq answered'[s1]
    BY <1>t, <1>11, <2>a, <2>b DEF ConsumeGet, TypeOK, SessionMoves
  <2>3. \A q \in Requests : Keeps(q)
    BY <2>a, <2>b DEF Keeps
  <2>4. \A q \in Requests : Comes(q)
    BY <2>a, <2>b DEF Comes, Running
  <2>5. \A q \in Requests : Goes(q)
    BY <2>a, <2>b DEF Goes
  <2> QED
    BY <2>1, <2>2, <2>3, <2>4, <2>5 DEF Moved
<1>12. ASSUME NEW p \in Requests, ConsumeDelete(p)
      PROVE  Moved
  <2>a. \A q \in Requests \ {p} : pc'[q] = pc[q] /\ req'[q] = req[q]
    BY <1>t, <1>12 DEF ConsumeDelete, TypeOK
  <2>b. pc[p] = "delete" /\ pc'[p] = "check" /\ req' = req
    BY <1>t, <1>12 DEF ConsumeDelete, TypeOK, Request
  <2>1. \A k \in Places : KeyMoves(k)
    BY <1>t, <1>12, <2>a, <2>b, PlaceType DEF ConsumeDelete, TypeOK, KeyMoves, Filled, FilledFor, Place
  <2>2. \A s1 \in Sessions : SessionMoves(s1) /\ answered[s1] \subseteq answered'[s1]
    BY <1>t, <1>12, <2>a, <2>b, PlaceType DEF ConsumeDelete, TypeOK, SessionMoves, Filled, FilledFor, Place
  <2>3. \A q \in Requests : Keeps(q)
    BY <2>a, <2>b DEF Keeps
  <2>4. \A q \in Requests : Comes(q)
    BY <2>a, <2>b DEF Comes, Running
  <2>5. \A q \in Requests : Goes(q)
    BY <2>a, <2>b DEF Goes
  <2> QED
    BY <2>1, <2>2, <2>3, <2>4, <2>5 DEF Moved
<1>13. ASSUME NEW p \in Requests, CreateCheck(p)
      PROVE  Moved
  <2>a. \A q \in Requests \ {p} : pc'[q] = pc[q] /\ req'[q] = req[q]
    BY <1>t, <1>13 DEF CreateCheck, TypeOK
  <2>b. /\ pc[p] = "check" /\ pc'[p] \in {"insert", "refused"} /\ UNCHANGED <<hold, session>>
        /\ req'[p].session = req[p].session /\ req'[p].slot = req[p].slot
        /\ req'[p].previous = req[p].previous
    BY <1>t, <1>13 DEF CreateCheck, TypeOK, Request
  <2>1. \A k \in Places : KeyMoves(k)
    BY <1>t, <1>13, <2>a, <2>b DEF CreateCheck, TypeOK, KeyMoves
  <2>2. \A s1 \in Sessions : SessionMoves(s1) /\ answered[s1] \subseteq answered'[s1]
    BY <1>t, <1>13, <2>a, <2>b DEF CreateCheck, TypeOK, SessionMoves
  <2>3. \A q \in Requests : Keeps(q)
    BY <2>a, <2>b DEF Keeps
  <2>4. \A q \in Requests : Comes(q)
    BY <2>a, <2>b DEF Comes, Running
  <2>5. \A q \in Requests : Goes(q)
    BY <2>a, <2>b DEF Goes
  <2> QED
    BY <2>1, <2>2, <2>3, <2>4, <2>5 DEF Moved
<1>14. ASSUME NEW p \in Requests, CreateInsert(p)
      PROVE  Moved
  <2>a. \A q \in Requests \ {p} : pc'[q] = pc[q] /\ req'[q] = req[q]
    BY <1>t, <1>14 DEF CreateInsert, TypeOK
  <2>b. pc[p] = "insert" /\ pc'[p] = "done" /\ UNCHANGED <<req, hold, session>>
    BY <1>t, <1>14 DEF CreateInsert, TypeOK, Request
  <2>1. \A k \in Places : KeyMoves(k)
    BY <1>t, <1>14, <2>a, <2>b DEF CreateInsert, TypeOK, KeyMoves
  <2>2. \A s1 \in Sessions : SessionMoves(s1) /\ answered[s1] \subseteq answered'[s1]
    BY <1>t, <1>14, <2>a, <2>b DEF CreateInsert, TypeOK, SessionMoves
  <2>3. \A q \in Requests : Keeps(q)
    BY <2>a, <2>b DEF Keeps
  <2>4. \A q \in Requests : Comes(q)
    BY <2>a, <2>b DEF Comes, Running
  <2>5. \A q \in Requests : Goes(q)
    BY <2>a, <2>b DEF Goes
  <2> QED
    BY <2>1, <2>2, <2>3, <2>4, <2>5 DEF Moved
<1>15. ASSUME NEW b \in booked, Close(b)
      PROVE  Moved
  <2>1. \A k \in Places : KeyMoves(k)
    BY <1>t, <1>15 DEF Close, TypeOK, KeyMoves
  <2>2. \A s1 \in Sessions : SessionMoves(s1) /\ answered[s1] \subseteq answered'[s1]
    BY <1>t, <1>15 DEF Close, TypeOK, SessionMoves
  <2>3. \A q \in Requests : Keeps(q)
    BY <1>15 DEF Close, Keeps
  <2>4. \A q \in Requests : Comes(q)
    BY <1>15 DEF Close, Comes, Running
  <2>5. \A q \in Requests : Goes(q)
    BY <1>15 DEF Close, Goes
  <2> QED
    BY <2>1, <2>2, <2>3, <2>4, <2>5 DEF Moved
<1>16. ASSUME NEW b \in booked, NEW slot \in Moves, Reschedule(b, slot)
      PROVE  Moved
  <2>1. \A k \in Places : KeyMoves(k)
    BY <1>t, <1>16 DEF Reschedule, TypeOK, KeyMoves
  <2>2. \A s1 \in Sessions : SessionMoves(s1) /\ answered[s1] \subseteq answered'[s1]
    BY <1>t, <1>16 DEF Reschedule, TypeOK, SessionMoves
  <2>3. \A q \in Requests : Keeps(q)
    BY <1>16 DEF Reschedule, Keeps
  <2>4. \A q \in Requests : Comes(q)
    BY <1>16 DEF Reschedule, Comes, Running
  <2>5. \A q \in Requests : Goes(q)
    BY <1>16 DEF Reschedule, Goes
  <2> QED
    BY <2>1, <2>2, <2>3, <2>4, <2>5 DEF Moved
<1>17. ASSUME NEW k \in Places, ExpireHold(k)
      PROVE  Moved
  <2>1. \A j \in Places : KeyMoves(j)
    BY <1>t, <1>17 DEF ExpireHold, TypeOK, KeyMoves
  <2>2. \A s1 \in Sessions : SessionMoves(s1) /\ answered[s1] \subseteq answered'[s1]
    BY <1>t, <1>17 DEF ExpireHold, TypeOK, SessionMoves
  <2>3. \A q \in Requests : Keeps(q)
    BY <1>17 DEF ExpireHold, Keeps
  <2>4. \A q \in Requests : Comes(q)
    BY <1>17 DEF ExpireHold, Comes, Running
  <2>5. \A q \in Requests : Goes(q)
    BY <1>17 DEF ExpireHold, Goes
  <2> QED
    BY <2>1, <2>2, <2>3, <2>4, <2>5 DEF Moved
<1>18. ASSUME NEW k \in Places, ExpireMember(k)
      PROVE  Moved
  <2>1. \A j \in Places : KeyMoves(j)
    BY <1>t, <1>18 DEF ExpireMember, TypeOK, KeyMoves
  <2>2. \A s1 \in Sessions : SessionMoves(s1) /\ answered[s1] \subseteq answered'[s1]
    BY <1>t, <1>18 DEF ExpireMember, TypeOK, SessionMoves
  <2>3. \A q \in Requests : Keeps(q)
    BY <1>18 DEF ExpireMember, Keeps
  <2>4. \A q \in Requests : Comes(q)
    BY <1>18 DEF ExpireMember, Comes, Running
  <2>5. \A q \in Requests : Goes(q)
    BY <1>18 DEF ExpireMember, Goes
  <2> QED
    BY <2>1, <2>2, <2>3, <2>4, <2>5 DEF Moved
<1>19. ASSUME NEW s \in Sessions, ExpireSession(s)
      PROVE  Moved
  <2>1. \A k \in Places : KeyMoves(k)
    BY <1>t, <1>19 DEF ExpireSession, TypeOK, KeyMoves
  <2>2. \A s1 \in Sessions : SessionMoves(s1) /\ answered[s1] \subseteq answered'[s1]
    <3>1. session[s] \notin Hers(s)
      BY <1>t, <1>19 DEF ExpireSession, TypeOK, Hers, Value
    <3> QED
      BY <1>t, <1>19, <3>1 DEF ExpireSession, TypeOK, SessionMoves
  <2>3. \A q \in Requests : Keeps(q)
    BY <1>19 DEF ExpireSession, Keeps
  <2>4. \A q \in Requests : Comes(q)
    BY <1>19 DEF ExpireSession, Comes, Running
  <2>5. \A q \in Requests : Goes(q)
    BY <1>19 DEF ExpireSession, Goes
  <2> QED
    BY <2>1, <2>2, <2>3, <2>4, <2>5 DEF Moved
<1>20. ASSUME NEW p \in Requests, Crash(p)
      PROVE  Moved
  <2>a. \A q \in Requests \ {p} : pc'[q] = pc[q] /\ req'[q] = req[q]
    BY <1>t, <1>20 DEF Crash, TypeOK
  <2>b. pc[p] # "crashed" /\ pc'[p] = "crashed" /\ UNCHANGED <<req, hold, session>>
    BY <1>t, <1>20 DEF Crash, TypeOK, Request, Running
  <2>1. \A k \in Places : KeyMoves(k)
    BY <1>t, <1>20, <2>a, <2>b DEF Crash, TypeOK, KeyMoves
  <2>2. \A s1 \in Sessions : SessionMoves(s1) /\ answered[s1] \subseteq answered'[s1]
    BY <1>t, <1>20, <2>a, <2>b DEF Crash, TypeOK, SessionMoves
  <2>3. \A q \in Requests : Keeps(q)
    BY <2>a, <2>b DEF Keeps
  <2>4. \A q \in Requests : Comes(q)
    BY <2>a, <2>b DEF Comes, Running
  <2>5. \A q \in Requests : Goes(q)
    BY <2>a, <2>b DEF Goes
  <2> QED
    BY <2>1, <2>2, <2>3, <2>4, <2>5 DEF Moved
<1>21. CASE UNCHANGED vars
  <2>1. \A k \in Places : KeyMoves(k)
    BY <1>t, <1>21 DEF vars, TypeOK, KeyMoves
  <2>2. \A s1 \in Sessions : SessionMoves(s1) /\ answered[s1] \subseteq answered'[s1]
    BY <1>t, <1>21 DEF vars, TypeOK, SessionMoves
  <2>3. \A q \in Requests : Keeps(q)
    BY <1>21 DEF vars, Keeps
  <2>4. \A q \in Requests : Comes(q)
    BY <1>21 DEF vars, Comes, Running
  <2>5. \A q \in Requests : Goes(q)
    BY <1>21 DEF vars, Goes
  <2> QED
    BY <2>1, <2>2, <2>3, <2>4, <2>5 DEF Moved
<1> QED
  BY <1>1, <1>2, <1>3, <1>4, <1>5, <1>6, <1>7, <1>8, <1>9, <1>10, <1>11,
     <1>12, <1>13, <1>14, <1>15, <1>16, <1>17, <1>18, <1>19, <1>20, <1>21
  DEF Next, HoldNext, RefreshNext, CreateNext, Environment

-----------------------------------------------------------------------------
\* A browser that waits has one request running.
LEMMA StepOneTab ==
  ASSUME OneAtATime, OneTab, Moved
  PROVE  OneTab'
<1>1. ASSUME NEW q \in Requests, pc'[q] \in Running, req'[q].session # None
      PROVE  \/ pc[q] \in Running /\ req'[q].session = req[q].session
             \/ /\ pc[q] = "idle" /\ pc'[q] # pc[q]
                /\ \A r \in Requests : ~ (pc[r] \in Running /\ req[r].session = req'[q].session)
  <2>1. Keeps(q) /\ Comes(q)
    BY DEF Moved
  <2> QED
    BY <1>1, <2>1 DEF Keeps, Comes, MaySend, Running
<1>2. ASSUME NEW p \in Requests, NEW q \in Requests, pc'[p] # pc[p], p # q
      PROVE  pc'[q] = pc[q]
  BY <1>2 DEF Moved, Keeps
<1>3. "idle" \notin Running
  BY DEF Running
<1> QED
  BY <1>1, <1>2, <1>3 DEF OneTab

\* Nothing runs at the start.
LEMMA InitOneTab == Init => OneTab
BY DEF Init, OneTab, Running

\* The sessions that lost a request stay so.
LEMMA CrashedStays ==
  ASSUME Moved, NEW s, Crashed(s)
  PROVE  Crashed(s)'
BY DEF Crashed, Moved, Comes, Keeps

\* A session's new key is that of its request at the SET.
LEMMA NewKeys ==
  ASSUME Typed, Moved, NEW s \in Sessions, NEW k \in Hers(s)'
  PROVE  \/ k \in Hers(s) /\ hold'[k] = hold[k]
         \/ \E p \in Requests : /\ pc[p] = "setnx" /\ pc'[p] = "previous" /\ req' = req
                                /\ req[p].session = s /\ k = Place(p) /\ hold'[k].id = p
<1>1. k \in Places /\ hold'[k] # None /\ hold'[k].session = s
  BY DEF Hers
<1>2. KeyMoves(k)
  BY <1>1 DEF Moved
<1>3. CASE hold'[k] = hold[k]
  BY <1>1, <1>3 DEF Hers
<1>4. ASSUME NEW p \in Requests, hold'[k] = [session |-> req[p].session, id |-> p]
      PROVE  req[p].session = s /\ hold'[k].id = p
  BY <1>1, <1>4
<1> QED
  BY <1>1, <1>2, <1>3, <1>4 DEF KeyMoves

\* A key stays named, by the session key or by the request about to name it.
LEMMA StillNamed ==
  ASSUME Typed, OneTab, Known, Moved, NEW s \in Sessions, ~Crashed(s)'
  PROVE  Named(s)'
<1>0. ~Crashed(s)
  BY CrashedStays
<1>1. SUFFICES ASSUME NEW k \in Hers(s)'
               PROVE  \/ session'[s] = k /\ <<hold'[k].id, k[2]>> \in answered'[s]
                      \/ \E p \in Requests : /\ Changing(p)' /\ req'[p].session = s
                                             /\ Place(p)' = k /\ hold'[k].id = p
  BY DEF Named
<1>2. CASE \E p \in Requests : /\ pc[p] = "setnx" /\ pc'[p] = "previous" /\ req' = req
                               /\ req[p].session = s /\ k = Place(p) /\ hold'[k].id = p
  BY <1>2 DEF Changing, Place
<1>3. CASE k \in Hers(s) /\ hold'[k] = hold[k]
  <2>1. \/ session[s] = k /\ <<hold[k].id, k[2]>> \in answered[s]
        \/ \E p \in Requests : Changing(p) /\ req[p].session = s /\ Place(p) = k /\ hold[k].id = p
    BY <1>0, <1>3 DEF Known, Named
  <2>2. CASE session[s] = k /\ <<hold[k].id, k[2]>> \in answered[s]
    <3>1. SessionMoves(s) /\ answered[s] \subseteq answered'[s]
      BY DEF Moved
    <3>2. ASSUME NEW p \in Requests, s = req[p].session, pc[p] \in {"delete", "remember"}
          PROVE  k = Place(p)
      BY <1>0, <1>3, <3>2 DEF Known, LeftTo
    <3>3. hold'[k] # None
      BY DEF Hers
    <3> QED
      BY <1>3, <2>2, <3>1, <3>2, <3>3 DEF SessionMoves
  <2>3. ASSUME NEW p \in Requests, Changing(p), req[p].session = s, Place(p) = k, hold[k].id = p
        PROVE  \/ session'[s] = k /\ <<hold'[k].id, k[2]>> \in answered'[s]
               \/ Changing(p)' /\ req'[p].session = s /\ Place(p)' = k /\ hold'[k].id = p
    <3>1. Keeps(p) /\ Goes(p)
      BY DEF Moved
    <3>2. req'[p].session = s /\ Place(p)' = k
      BY <2>3, <3>1 DEF Keeps, Changing, Place
    <3>3. pc'[p] # "crashed"
      BY <3>2 DEF Crashed
    <3>4. k[2] = req[p].slot
      BY <2>3 DEF Place
    <3> QED
      BY <1>3, <2>3, <3>1, <3>2, <3>3, <3>4 DEF Goes, Changing
  <2> QED
    BY <2>1, <2>2, <2>3
<1> QED
  BY <1>2, <1>3, NewKeys

\* What a request counts on is still there at its next command.
LEMMA StillLeft ==
  ASSUME OneAtATime, Typed, Typed', OneTab, Known, Moved,
         NEW s \in Sessions, ~Crashed(s)', NEW p \in Requests, req'[p].session = s
  PROVE  LeftTo(p, s)'
<1>0. Keeps(p) /\ Comes(p) /\ Filled(p)
  BY DEF Moved, Typed
<1>1. /\ ~Crashed(s) /\ Named(s)
      /\ req[p].session = s => LeftTo(p, s)
  BY CrashedStays DEF Known
<1>2. ASSUME NEW k \in Hers(s)', pc[p] \in {"previous", "drop", "remember", "consume", "delete"},
             req[p].session = s
      PROVE  k \in Hers(s)
  <2>1. ASSUME NEW q \in Requests, pc[q] = "setnx", req[q].session = s PROVE FALSE
    BY <1>2, <2>1, SlotHoldAssumption DEF OneTab, Running
  <2> QED
    BY <1>2, <2>1, NewKeys
<1>3. ASSUME NEW k \in Hers(s), pc[p] = "previous", req[p].session = s
      PROVE  session[s] = k \/ Place(p) = k
  BY <1>1, <1>3, SlotHoldAssumption DEF Named, OneTab, Running, Changing
<1>4. pc[p] \in {"previous", "drop", "remember", "consume", "delete"} =>
        req[p].session = s /\ Place(p)' = Place(p)
  BY <1>0 DEF Keeps, Filled, FilledFor, Place
<1>5. None \notin Hers(s)
  BY SlotHoldAssumption DEF Hers, Places
<1>6. CASE pc'[p] = "remember"
  <2>1. CASE pc[p] = "remember"
    BY <1>1, <1>2, <1>4, <1>6, <2>1 DEF LeftTo
  <2>2. CASE pc[p] = "previous" /\ UNCHANGED <<req, hold, session>> /\ session[s] \in {None, Place(p)}
    BY <1>2, <1>3, <1>4, <1>5, <1>6, <2>2 DEF LeftTo
  <2>3. CASE pc[p] = "drop" /\ UNCHANGED <<req, session>> /\ hold' = [hold EXCEPT ![req[p].previous] = None]
    <3>1. Hers(s) \subseteq {Place(p), req[p].previous}
      BY <1>1, <1>4, <2>3 DEF LeftTo
    <3>2. req[p].previous \in Places
      BY <1>0, <2>3 DEF Filled, FilledFor
    <3>3. req[p].previous \notin Hers(s)'
      BY <2>3, <3>2 DEF Hers, Typed, TypeOK
    <3> QED
      BY <1>2, <1>4, <1>6, <2>3, <3>1, <3>3 DEF LeftTo
  <2> QED
    BY <1>0, <1>4, <1>6, <2>1, <2>2, <2>3 DEF Comes
<1>7. CASE pc'[p] = "drop"
  <2>1. CASE pc[p] = "drop"
    BY <1>0, <1>1, <1>2, <1>4, <1>7, <2>1 DEF LeftTo, Keeps
  <2>2. CASE pc[p] = "previous" /\ UNCHANGED <<hold, session>> /\ req'[p].previous = session[s]
    BY <1>2, <1>3, <1>4, <1>7, <2>2 DEF LeftTo
  <2> QED
    BY <1>0, <1>4, <1>7, <2>1, <2>2 DEF Comes
<1>8. CASE pc'[p] = "consume"
  <2>1. CASE pc[p] = "consume"
    BY <1>1, <1>2, <1>4, <1>8, <2>1 DEF LeftTo
  <2>2. CASE /\ pc[p] = "idle" /\ UNCHANGED <<hold, session>>
             /\ session[s] = Place(p)'
    <3>1. MaySend(p, s)
      BY <1>0, <1>8, <2>2, SlotHoldAssumption DEF Comes, Running
    <3>2. \A q \in Requests : Changing(q) => req[q].session # s
      BY <3>1 DEF MaySend, Changing, Running
    <3>3. Hers(s) \subseteq {session[s]}
      BY <1>1, <3>2 DEF Named
    <3> QED
      BY <1>8, <2>2, <3>3 DEF LeftTo, Hers
  <2> QED
    BY <1>0, <1>8, <2>1, <2>2 DEF Comes, Place
<1>9. CASE pc'[p] = "delete"
  <2>1. pc[p] \in {"consume", "delete"}
    BY <1>0, <1>9 DEF Comes
  <2> QED
    BY <1>1, <1>2, <1>4, <1>9, <2>1 DEF LeftTo
<1>10. CASE pc'[p] \notin {"remember", "drop", "consume", "delete"}
  BY <1>10 DEF LeftTo
<1> QED
  BY <1>6, <1>7, <1>8, <1>9, <1>10

\* Every step keeps the keys of a browser that waits known to it.
LEMMA StepKnown ==
  ASSUME OneAtATime, Typed, Typed', OneTab, Known, Moved
  PROVE  Known'
BY StillNamed, StillLeft DEF Known

\* No key is taken from a browser that waits, until a change of slots dies half
\* way: whoever drops a key drops one of their own.
LEMMA OnlyOwnersDrop ==
  ASSUME ~KeysExpire, Typed, OneTab, Moved,
         \A s \in Sessions : Backed(s) /\ \A p \in Requests : req[p].session = s => CountsOn(p, s),
         NEW k \in Places, hold[k] # None, hold'[k] # hold[k]
  PROVE  \E p \in Requests :
           /\ req[p].session = hold[k].session /\ req' = req
           /\ \/ pc[p] = "drop" /\ pc'[p] = "remember" /\ k = req[p].previous
              \/ pc[p] = "delete" /\ pc'[p] = "check" /\ k = Place(p) /\ session'[req[p].session] = None
<1>1. PICK p \in Requests :
        \/ pc[p] = "drop" /\ pc'[p] = "remember" /\ req' = req /\ k = req[p].previous
        \/ /\ pc[p] = "delete" /\ pc'[p] = "check" /\ req' = req
           /\ k = Place(p) /\ session'[req[p].session] = None
  BY DEF Moved, KeyMoves
<1> DEFINE s == req[p].session
<1>2. s \in Sessions
  BY <1>1 DEF Typed, Filled, FilledFor
<1>3. CountsOn(p, s) /\ Backed(s)
  BY <1>2
<1>4. session[s] = k
  BY <1>1, <1>3 DEF CountsOn
<1>5. \A q \in Requests : ~ (pc[q] = "remember" /\ req[q].session = s)
  BY <1>1, <1>2, SlotHoldAssumption DEF OneTab, Running
<1>6. session[s] # None
  BY <1>4, SlotHoldAssumption DEF Places
<1>7. k \in Hers(s)
  BY <1>3, <1>4, <1>5, <1>6 DEF Backed
<1> QED
  BY <1>1, <1>7 DEF Hers

\* Every step keeps the session keys backed, until a change dies half way.
LEMMA StepKept ==
  ASSUME ~KeysExpire, Typed, Typed', OneTab, Kept, Moved
  PROVE  Kept'
<1>1. SUFFICES ASSUME \A p \in Requests : ~HalfMoved(p)',
                      NEW s \in Sessions
               PROVE  /\ Backed(s)'
                      /\ \A p \in Requests : req'[p].session = s => CountsOn(p, s)'
  BY DEF Kept
<1>m. \A p \in Requests : Keeps(p) /\ Comes(p) /\ Goes(p)
  BY DEF Moved
<1>2. \A p \in Requests : ~HalfMoved(p)
  BY <1>1, <1>m DEF HalfMoved, Comes, Keeps
<1>3. \A t \in Sessions : Backed(t) /\ \A p \in Requests : req[p].session = t => CountsOn(p, t)
  BY <1>2 DEF Kept
<1>4. SessionMoves(s)
  BY DEF Moved
<1>5. ASSUME NEW k \in Hers(s)
      PROVE  \/ k \in Hers(s)' /\ hold'[k] = hold[k]
             \/ \E p \in Requests :
                  /\ req[p].session = s /\ req' = req
                  /\ \/ pc[p] = "drop" /\ pc'[p] = "remember" /\ k = req[p].previous
                     \/ pc[p] = "delete" /\ pc'[p] = "check" /\ k = Place(p) /\ session'[s] = None
  <2>1. k \in Places /\ hold[k] # None /\ hold[k].session = s
    BY DEF Hers
  <2>2. CASE hold'[k] = hold[k]
    BY <2>1, <2>2 DEF Hers
  <2>3. CASE hold'[k] # hold[k]
    BY <1>3, <2>1, <2>3, OnlyOwnersDrop
  <2> QED
    BY <2>2, <2>3
<1>6. ASSUME NEW p \in Requests, NEW q \in Requests, pc[p] \in Running, pc[q] \in Running,
             req[p].session = s, req[q].session = s
      PROVE  p = q
  BY <1>6, SlotHoldAssumption DEF OneTab
<1>7. Backed(s)'
  <2>1. SUFFICES ASSUME session'[s] # None
                 PROVE  \/ session'[s] \in Hers(s)'
                        \/ \E p \in Requests : pc'[p] = "remember" /\ req'[p].session = s
                                               /\ req'[p].previous = session'[s]
    BY DEF Backed
  <2>2. ASSUME NEW p \in Requests, s = req[p].session, pc[p] = "remember",
               session'[s] = Place(p), UNCHANGED hold
        PROVE  session'[s] \in Hers(s)'
    BY <1>3, <2>2 DEF CountsOn, Changing, Hers
  <2>3. CASE session'[s] = session[s]
    <3>1. CASE session[s] \in Hers(s)
      BY <1>5, <2>1, <2>3, <3>1
    <3>2. ASSUME NEW p \in Requests, pc[p] = "remember", req[p].session = s, req[p].previous = session[s]
          PROVE  \/ session'[s] \in Hers(s)'
                 \/ pc'[p] = "remember" /\ req'[p].session = s /\ req'[p].previous = session'[s]
      <4>1. req'[p].session = s /\ req'[p].previous = session'[s] /\ req'[p].slot = req[p].slot
        BY <1>m, <2>3, <3>2 DEF Keeps
      <4>2. req[p].slot # None
        BY <3>2, SlotHoldAssumption DEF Typed, Filled, FilledFor
      <4>3. pc'[p] # "crashed"
        BY <1>1, <2>1, <4>1, <4>2 DEF HalfMoved
      <4> QED
        BY <1>m, <2>2, <3>2, <4>1, <4>3 DEF Goes
    <3> QED
      BY <1>3, <2>1, <2>3, <3>1, <3>2 DEF Backed
  <2> QED
    BY <1>4, <2>1, <2>2, <2>3 DEF SessionMoves
<1>8. ASSUME NEW p \in Requests, req'[p].session = s
      PROVE  CountsOn(p, s)'
  <2>1. pc[p] \in Running /\ pc[p] \notin {"pick", "check"} => req[p].session = s /\ Place(p)' = Place(p)
    BY <1>8, <1>m DEF Keeps, Place, Running
  <2>2. ASSUME Changing(p)'
        PROVE  Place(p) \in Hers(s)' /\ Place(p)' = Place(p)
    <3>1. \/ Changing(p)
          \/ pc[p] = "setnx" /\ hold'[Place(p)] = [session |-> req[p].session, id |-> p]
      BY <1>m, <2>2 DEF Comes, Changing
    <3>2. req[p].session = s /\ Place(p)' = Place(p)
      BY <2>1, <3>1 DEF Changing, Running
    <3>3. CASE Changing(p)
      <4>1. Place(p) \in Hers(s)
        BY <1>3, <3>2, <3>3 DEF CountsOn
      <4>2. ASSUME NEW q \in Requests, req[q].session = s, pc[q] \in {"drop", "delete"}
            PROVE  q = p
        BY <1>6, <3>2, <3>3, <4>2 DEF Changing, Running
      <4>3. pc[p] = "drop" => Place(p) # req[p].previous
        BY <1>3, <3>2 DEF CountsOn
      <4> QED
        BY <1>5, <3>2, <3>3, <4>1, <4>2, <4>3 DEF Changing
    <3>4. CASE pc[p] = "setnx" /\ hold'[Place(p)] = [session |-> req[p].session, id |-> p]
      <4>1. Place(p) \in Places
        BY <3>4, PlaceType DEF Typed, Filled, FilledFor, Place
      <4>2. hold'[Place(p)] # None
        BY <3>2, <3>4, SlotHoldAssumption
      <4> QED
        BY <3>2, <3>4, <4>1, <4>2 DEF Hers
    <3> QED
      BY <3>1, <3>3, <3>4
  <2>3. ASSUME pc[p] \in {"drop", "consume", "delete"}, pc'[p] = pc[p] \/ pc'[p] = "delete"
        PROVE  session'[s] = session[s]
    <3>1. \A q \in Requests : pc[q] \in {"delete", "remember"} /\ req[q].session = s => q = p
      BY <1>6, <2>1, <2>3 DEF Running
    <3> QED
      BY <1>4, <2>3, <3>1 DEF SessionMoves
  <2>4. ASSUME pc'[p] = "drop"
        PROVE  req'[p].previous = session'[s] /\ req'[p].previous # Place(p)'
    <3>1. CASE pc[p] = "drop"
      BY <1>3, <1>m, <2>1, <2>3, <2>4, <3>1 DEF CountsOn, Keeps, Running
    <3>2. CASE /\ pc[p] = "previous" /\ UNCHANGED <<hold, session>>
               /\ req'[p].previous = session[req[p].session]
               /\ session[req[p].session] \notin {None, Place(p)}
      BY <2>1, <3>2 DEF Running
    <3> QED
      BY <1>m, <2>4, <3>1, <3>2 DEF Comes
  <2>5. ASSUME pc'[p] \in {"consume", "delete"}
        PROVE  session'[s] = Place(p)'
    <3>1. CASE pc[p] \in {"consume", "delete"} /\ (pc'[p] = pc[p] \/ pc'[p] = "delete")
      BY <1>3, <2>1, <2>3, <3>1 DEF CountsOn, Running
    <3>2. CASE /\ pc[p] = "idle" /\ UNCHANGED session
               /\ session[req'[p].session] = <<req'[p].desk, req'[p].slot>>
      BY <1>8, <3>2 DEF Place
    <3> QED
      BY <1>m, <2>5, <3>1, <3>2 DEF Comes
  <2> QED
    BY <2>2, <2>4, <2>5 DEF CountsOn
<1> QED
  BY <1>7, <1>8

-----------------------------------------------------------------------------
\* There are no keys at the start.
LEMMA InitKnown == Init => OneTab /\ Known /\ Kept
<1> SUFFICES ASSUME Init PROVE OneTab /\ Known /\ Kept
  OBVIOUS
<1>1. \A s \in Sessions : Hers(s) = {} /\ session[s] = None
  BY DEF Init, Hers
<1>2. \A p \in Requests : pc[p] = "idle"
  BY DEF Init
<1> QED
  BY <1>1, <1>2, InitOneTab DEF Known, Named, LeftTo, Kept, Backed, CountsOn, Changing

\* The first two invariants together.
LEMMA StepOfOneTab == OneAtATime /\ Typed /\ OneTab /\ Known /\ [Next]_vars => (OneTab /\ Known)'
BY StepMoves, StepTyped, StepOneTab, StepKnown

\* The third on top of them.
LEMMA StepOfKept == ~KeysExpire /\ Typed /\ OneTab /\ Kept /\ [Next]_vars => Kept'
BY StepMoves, StepTyped, StepKept

\* A browser that waits for its answers and lost none to a crash has at most one
\* hold, with a holdId it was told, whatever expires meanwhile (holdSlot's SET NX,
\* DEL of the previous key and SET of slot:session).
THEOREM HoldKnownHolds == OneAtATime => (Spec => []HoldIsKnown)
<1> SUFFICES ASSUME OneAtATime
             PROVE  Spec => []HoldIsKnown
  OBVIOUS
<1>0. Init => Typed /\ OneTab /\ Known
  BY InitTyped, InitKnown
<1>1. Known => HoldIsKnown
  <2> SUFFICES ASSUME Known, NEW s \in Sessions, NEW k \in Places,
                      hold[k] # None, hold[k].session = s,
                      \A p \in Requests : req[p].session = s => pc[p] \in {"done", "refused"}
               PROVE  session[s] = k /\ <<hold[k].id, k[2]>> \in answered[s]
    BY DEF HoldIsKnown
  <2>1. ~Crashed(s)
    BY DEF Crashed
  <2>2. Named(s) /\ k \in Hers(s)
    BY <2>1 DEF Known, Hers
  <2> QED
    BY <2>2 DEF Named, Changing
<1>2. Typed /\ OneTab /\ Known /\ [Next]_vars => (Typed /\ OneTab /\ Known)'
  BY StepTyped, StepOfOneTab
<1> QED
  BY <1>0, <1>1, <1>2, PTL DEF Spec

\* While no TTL runs out, only a request of the same session removes a hold, for
\* browsers that wait for their answers and until the process dies in the middle
\* of a change of slots (rate-limit.service.ts, holdSlot and consumeHold).
THEOREM HoldKeptHolds == OneAtATime /\ ~KeysExpire => (Spec => HoldIsNotStolen)
<1> SUFFICES ASSUME OneAtATime, ~KeysExpire
             PROVE  Spec => HoldIsNotStolen
  OBVIOUS
<1> DEFINE I == Typed /\ OneTab /\ Known /\ Kept
<1>0. Init => I
  BY InitTyped, InitKnown
<1>1. I /\ [Next]_vars => I'
  BY StepTyped, StepOfOneTab, StepOfKept
<1>2. I /\ [Next]_vars => [(\A p \in Requests : ~HalfMoved(p)) => \A k \in Places : RemovedByOwner(k)]_vars
  <2> SUFFICES ASSUME Typed, OneTab, Kept, [Next]_vars,
                      \A p \in Requests : ~HalfMoved(p),
                      NEW k \in Places, hold[k] # None, hold'[k] # hold[k]
               PROVE  \E p \in Requests : req[p].session = hold[k].session /\ pc'[p] # pc[p]
    BY DEF RemovedByOwner
  <2>1. Moved
    BY StepMoves
  <2>2. \A s \in Sessions : Backed(s) /\ \A p \in Requests : req[p].session = s => CountsOn(p, s)
    BY DEF Kept
  <2> QED
    BY <2>1, <2>2, OnlyOwnersDrop
<1> QED
  BY <1>0, <1>1, <1>2, PTL DEF Spec, HoldIsNotStolen

=============================================================================
