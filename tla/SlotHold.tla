------------------------------- MODULE SlotHold -------------------------------
(***************************************************************************)
(* How a client comes by a booking, statement by statement: the three      *)
(* minute hold that QueueService.holdSlot puts into Redis, its refresh,    *)
(* and the transactions of createTicket and createWalkInTicket that turn a *)
(* slot into a row of "ticket".  Requests run concurrently; each action is *)
(* one Redis command (or MULTI) or one database statement, so that keys    *)
(* may expire and other requests may run between any two of them; the      *)
(* consecutive reads of one lookup are one action, and so are SET NX and   *)
(* the GET after its failure.  What the transactions do under the advisory *)
(* lock of the site is visible to the others when they commit.             *)
(*                                                                         *)
(* All slots are of one direction and do not overlap.                      *)
(***************************************************************************)
EXTENDS Naturals, FiniteSets

CONSTANTS
  Requests,   \* HTTP requests in all; a request's name is the holdId it draws
  Sessions,   \* browsers
  Desks,      \* numbered in the order of their labels
  Slots,
  Phone,      \* the telephone each session gives
  KeysExpire, \* whether a TTL may run out during the run
  OneAtATime, \* whether a browser waits for the answer before it asks again
  Moves,      \* the slots a manager moves bookings to
  None

ASSUME SlotHoldAssumption ==
  /\ Desks \subseteq Nat
  /\ None \notin Requests /\ None \notin Sessions /\ None \notin Slots /\ None \notin Desks
  /\ None \notin Desks \X Slots
  /\ None \notin [session : Sessions, id : Requests]
  /\ DOMAIN Phone = Sessions
  /\ KeysExpire \in BOOLEAN /\ OneAtATime \in BOOLEAN
  /\ Moves \subseteq Slots

VARIABLES
  pc,        \* where each request is
  req,       \* its arguments and local variables
  lock,      \* who has pg_advisory_xact_lock of the site
  hold,      \* slot:hold:<desk>:<slot>, the session and holdId of the value
  session,   \* slot:session:<session>, the desk and slot of the key it names
  refreshed, \* the sessions with a slot:refresh:<session> key
  holds,     \* the sorted set slot:holds
  answered,  \* the holdIds each browser was told, with the slot
  booked     \* the rows of "ticket"

redis == <<hold, session, refreshed, holds>>
vars  == <<pc, req, lock, redis, answered, booked>>

Places == Desks \X Slots          \* a hold key: a desk and a time

\* the value of a hold key, "<session>:<holdId>"
Value == [session : Sessions, id : Requests]

Start == [session |-> None, slot |-> None, id |-> None, desk |-> None,
          previous |-> None, phone |-> None]

Running == {"pick", "setnx", "previous", "drop", "remember", "extend",
            "consume", "delete", "check", "insert"}
Ended   == {"done", "refused", "crashed"}

-----------------------------------------------------------------------------
(* Reading Redis and the tables. *)

\* The browser s may send the request p.
MaySend(p, s) ==
  /\ pc[p] = "idle"
  /\ OneAtATime => \A q \in Requests : ~(pc[q] \in Running /\ req[q].session = s)

\* The hold a session has by its own key, validated by the value of the hold
\* key: getSessionHold and peekHold.
OwnPlace(s, id) ==
  {k \in Places : session[s] = k /\ hold[k] = [session |-> s, id |-> id]}

\* busyDeskIds: desks with an open ticket at the slot, or listed in slot:holds.
Busy(rows, slot) ==
  {b.desk : b \in {b \in rows : b.slot = slot /\ b.open}}
    \cup {k[1] : k \in {k \in holds : k[2] = slot}}

FreeAt(slot) == Desks \ Busy(booked, slot)

FirstOf(D) == CHOOSE d \in D : \A f \in D : d <= f

\* A plausible bug: the filter on the status is the wrong way round.
PhoneClosedNowhere(phone, slot) ==
  ~ \E b \in booked : b.phone = phone /\ b.slot = slot /\ ~b.open

\* assertPhoneSlotFree.
PhoneSlotFree(phone, slot) ==
  ~ \E b \in booked : b.phone = phone /\ b.slot = slot /\ b.open

-----------------------------------------------------------------------------
(* holdSlot. *)

\* The request begins: a session that already holds the slot is told so again.
HoldStart(p, s, slot) ==
  /\ MaySend(p, s)
  /\ LET mine == {id \in Requests : \E k \in OwnPlace(s, id) : k[2] = slot}
     IN  IF mine # {}
         THEN /\ pc' = [pc EXCEPT ![p] = "done"]
              /\ answered' = [answered EXCEPT ![s] = @ \cup {<<id, slot>> : id \in mine}]
              /\ UNCHANGED req
         ELSE /\ pc' = [pc EXCEPT ![p] = "pick"]
              /\ req' = [req EXCEPT ![p] = [Start EXCEPT !.session = s, !.slot = slot, !.id = p]]
              /\ UNCHANGED answered
  /\ UNCHANGED <<lock, redis, booked>>

\* The transaction under the advisory lock only chooses a desk.
HoldPick(p) ==
  /\ pc[p] = "pick"
  /\ lock = None
  /\ LET free == FreeAt(req[p].slot)
     IN  IF free = {}
         THEN pc' = [pc EXCEPT ![p] = "refused"] /\ UNCHANGED req
         ELSE /\ pc' = [pc EXCEPT ![p] = "setnx"]
              /\ req' = [req EXCEPT ![p].desk = FirstOf(free)]
  /\ UNCHANGED <<lock, redis, answered, booked>>

Place(p) == <<req[p].desk, req[p].slot>>

\* A plausible bug: SET without NX.
HoldSet(p) ==
  /\ pc[p] = "setnx"
  /\ hold' = [hold EXCEPT ![Place(p)] = [session |-> req[p].session, id |-> p]]
  /\ pc' = [pc EXCEPT ![p] = "previous"]
  /\ UNCHANGED <<req, lock, session, refreshed, holds, answered, booked>>

\* SET key NX.  A key the session already has counts as held, and the browser
\* is told the holdId of this request although the value keeps the older one.
\* The key of another session, or one that expires before the GET, is refused.
HoldSetNX(p) ==
  LET s == req[p].session
  IN  /\ pc[p] = "setnx"
      /\ \/ /\ hold[Place(p)] = None
            /\ hold' = [hold EXCEPT ![Place(p)] = [session |-> s, id |-> p]]
            /\ pc' = [pc EXCEPT ![p] = "previous"]
            /\ UNCHANGED <<holds, answered>>
         \/ /\ hold[Place(p)] # None /\ hold[Place(p)].session = s
            /\ holds' = holds \cup {Place(p)}
            /\ answered' = [answered EXCEPT ![s] = @ \cup {<<p, req[p].slot>>}]
            /\ pc' = [pc EXCEPT ![p] = "done"]
            /\ UNCHANGED hold
         \/ /\ hold[Place(p)] # None
            /\ hold[Place(p)].session # s \/ KeysExpire
            /\ pc' = [pc EXCEPT ![p] = "refused"]
            /\ UNCHANGED <<hold, holds, answered>>
      /\ UNCHANGED <<req, lock, session, refreshed, booked>>

\* GET slot:session.
HoldPrevious(p) ==
  LET k == session[req[p].session]
  IN  /\ pc[p] = "previous"
      /\ IF k # None /\ k # Place(p)
         THEN /\ pc' = [pc EXCEPT ![p] = "drop"]
              /\ req' = [req EXCEPT ![p].previous = k]
         ELSE pc' = [pc EXCEPT ![p] = "remember"] /\ UNCHANGED req
      /\ UNCHANGED <<lock, redis, answered, booked>>

\* A plausible bug: only the member of the sorted set is removed.
HoldDropMember(p) ==
  /\ pc[p] = "drop"
  /\ holds' = holds \ {req[p].previous}
  /\ pc'    = [pc EXCEPT ![p] = "remember"]
  /\ UNCHANGED <<req, lock, hold, session, refreshed, answered, booked>>

\* MULTI DEL previous, ZREM previous: whoever owns the key by now.
HoldDrop(p) ==
  /\ pc[p] = "drop"
  /\ hold'  = [hold EXCEPT ![req[p].previous] = None]
  /\ holds' = holds \ {req[p].previous}
  /\ pc'    = [pc EXCEPT ![p] = "remember"]
  /\ UNCHANGED <<req, lock, session, refreshed, answered, booked>>

\* MULTI SET slot:session, ZADD slot:holds; the browser gets its answer.
HoldRemember(p) ==
  LET s == req[p].session
  IN  /\ pc[p] = "remember"
      /\ session'  = [session EXCEPT ![s] = Place(p)]
      /\ holds'    = holds \cup {Place(p)}
      /\ answered' = [answered EXCEPT ![s] = @ \cup {<<p, req[p].slot>>}]
      /\ pc'       = [pc EXCEPT ![p] = "done"]
      /\ UNCHANGED <<req, lock, hold, refreshed, booked>>

-----------------------------------------------------------------------------
(* refreshHold: the three reads, then the MULTI that extends the keys.  TTLs *)
(* are not counted, so the extension shows in slot:refresh and slot:holds.   *)

RefreshStart(p, s, id, slot) ==
  /\ MaySend(p, s)
  /\ <<id, slot>> \in answered[s]
  /\ IF OwnPlace(s, id) # {} /\ s \notin refreshed
     THEN /\ pc' = [pc EXCEPT ![p] = "extend"]
          /\ \E k \in OwnPlace(s, id) :
               req' = [req EXCEPT ![p] = [Start EXCEPT !.session = s, !.id = id, !.previous = k]]
     ELSE pc' = [pc EXCEPT ![p] = "refused"] /\ UNCHANGED req
  /\ UNCHANGED <<lock, redis, answered, booked>>

RefreshExtend(p) ==
  /\ pc[p] = "extend"
  /\ refreshed' = refreshed \cup {req[p].session}
  /\ holds'     = holds \cup {req[p].previous}
  /\ pc'        = [pc EXCEPT ![p] = "done"]
  /\ UNCHANGED <<req, lock, hold, session, answered, booked>>

-----------------------------------------------------------------------------
(* createTicket and createWalkInTicket. *)

\* The transaction takes the advisory lock and looks the hold up.
CreateStart(p, s, id, slot) ==
  /\ MaySend(p, s)
  /\ <<id, slot>> \in answered[s]
  /\ lock = None
  /\ LET mine == {k \in OwnPlace(s, id) : k[2] = slot}
     IN  IF mine = {}
         THEN pc' = [pc EXCEPT ![p] = "refused"] /\ UNCHANGED <<req, lock>>
         ELSE /\ pc' = [pc EXCEPT ![p] = "consume"]
              /\ \E k \in mine :
                   req' = [req EXCEPT ![p] = [Start EXCEPT !.session = s, !.slot = slot, !.id = id,
                                                !.desk = k[1], !.phone = Phone[s]]]
              /\ lock' = p
  /\ UNCHANGED <<redis, answered, booked>>

\* consumeHold, first half: GET the hold key.
ConsumeGet(p) ==
  /\ pc[p] = "consume"
  /\ IF hold[Place(p)] = [session |-> req[p].session, id |-> req[p].id]
     THEN pc' = [pc EXCEPT ![p] = "delete"] /\ UNCHANGED lock
     ELSE pc' = [pc EXCEPT ![p] = "refused"] /\ lock' = None
  /\ UNCHANGED <<req, redis, answered, booked>>

\* A plausible bug: the keys stay until they expire.
ConsumeNothing(p) ==
  /\ pc[p] = "delete"
  /\ holds' = holds \ {Place(p)}
  /\ pc'    = [pc EXCEPT ![p] = "check"]
  /\ UNCHANGED <<req, lock, hold, session, refreshed, answered, booked>>

\* consumeHold, second half: MULTI DEL of the three keys and ZREM.
ConsumeDelete(p) ==
  LET s == req[p].session
  IN  /\ pc[p] = "delete"
      /\ hold'      = [hold EXCEPT ![Place(p)] = None]
      /\ session'   = [session EXCEPT ![s] = None]
      /\ refreshed' = refreshed \ {s}
      /\ holds'     = holds \ {Place(p)}
      /\ pc'        = [pc EXCEPT ![p] = "check"]
      /\ UNCHANGED <<req, lock, answered, booked>>

\* A plausible bug: the transaction does not wait for the advisory lock.
WalkInUnlocked(p, phone, slot) ==
  /\ pc[p] = "idle"
  /\ pc'   = [pc EXCEPT ![p] = "check"]
  /\ req'  = [req EXCEPT ![p] = [Start EXCEPT !.slot = slot, !.id = p, !.phone = phone]]
  /\ UNCHANGED <<lock, redis, answered, booked>>

\* An employee books the client who stands at the door; there is no hold.
WalkInStart(p, phone, slot) ==
  /\ pc[p] = "idle"
  /\ lock = None
  /\ lock' = p
  /\ pc'   = [pc EXCEPT ![p] = "check"]
  /\ req'  = [req EXCEPT ![p] = [Start EXCEPT !.slot = slot, !.id = p, !.phone = phone]]
  /\ UNCHANGED <<redis, answered, booked>>

\* A plausible bug: only the desk of the hold is tried, and a walk-in has none.
CreateCheckHeldDesk(p) ==
  LET free == FreeAt(req[p].slot)
  IN  /\ pc[p] = "check"
      /\ IF free # {} /\ PhoneSlotFree(req[p].phone, req[p].slot)
         THEN pc' = [pc EXCEPT ![p] = "insert"] /\ UNCHANGED lock
         ELSE pc' = [pc EXCEPT ![p] = "refused"] /\ lock' = None
      /\ UNCHANGED <<req, redis, answered, booked>>

\* assertSlotAvailable, assertPhoneSlotFree and reserveDesk: the desk that was
\* held if it is free, else the first free one.  A refusal rolls the database
\* back, not Redis.
CreateCheck(p) ==
  LET free == FreeAt(req[p].slot)
  IN  /\ pc[p] = "check"
      /\ IF free # {} /\ PhoneSlotFree(req[p].phone, req[p].slot)
         THEN /\ pc' = [pc EXCEPT ![p] = "insert"]
              /\ req' = [req EXCEPT ![p].desk = IF @ \in free THEN @ ELSE FirstOf(free)]
              /\ UNCHANGED lock
         ELSE pc' = [pc EXCEPT ![p] = "refused"] /\ lock' = None /\ UNCHANGED req
      /\ UNCHANGED <<redis, answered, booked>>

\* INSERT and COMMIT, which frees the lock.
CreateInsert(p) ==
  /\ pc[p] = "insert"
  /\ booked' = booked \cup {[desk |-> req[p].desk, slot |-> req[p].slot, phone |-> req[p].phone,
                             id |-> req[p].id, by |-> p, open |-> TRUE]}
  /\ lock' = None
  /\ pc'   = [pc EXCEPT ![p] = "done"]
  /\ UNCHANGED <<req, redis, answered>>

\* rescheduleTicket: one transaction under the lock, the booking itself not
\* being in its own way.  The telephone is not asked.
Reschedule(b, slot) ==
  /\ b.open
  /\ lock = None
  /\ LET free == Desks \ Busy(booked \ {b}, slot)
     IN  /\ free # {}
         /\ booked' = (booked \ {b}) \cup {[b EXCEPT !.slot = slot, !.desk = FirstOf(free)]}
  /\ UNCHANGED <<pc, req, lock, redis, answered>>

\* Whatever closes a ticket: cancelled, completed or a no-show.
Close(b) ==
  /\ b.open
  /\ booked' = (booked \ {b}) \cup {[b EXCEPT !.open = FALSE]}
  /\ UNCHANGED <<pc, req, lock, redis, answered>>

-----------------------------------------------------------------------------
(* Time and failures. *)

\* A hold key lives for ttlSeconds.  Its member of slot:holds goes when
\* listHolds finds the score in the past, a little sooner or later than Redis
\* drops the key.
ExpireHold(k) ==
  /\ KeysExpire
  /\ hold[k] # None
  /\ hold' = [hold EXCEPT ![k] = None]
  /\ UNCHANGED <<pc, req, lock, session, refreshed, holds, answered, booked>>

ExpireMember(k) ==
  /\ KeysExpire
  /\ k \in holds
  /\ holds' = holds \ {k}
  /\ UNCHANGED <<pc, req, lock, hold, session, refreshed, answered, booked>>

\* The session key is set after the hold key and for as long.
ExpireSession(s) ==
  /\ KeysExpire
  /\ session[s] # None
  /\ \A id \in Requests : hold[session[s]] # [session |-> s, id |-> id]
  /\ session'   = [session EXCEPT ![s] = None]
  /\ refreshed' \in {refreshed, refreshed \ {s}}
  /\ UNCHANGED <<pc, req, lock, hold, holds, answered, booked>>

\* The process dies during a request: the transaction is rolled back and the
\* lock is freed, what was written to Redis stays.
Crash(p) ==
  /\ pc[p] \in Running
  /\ pc'   = [pc EXCEPT ![p] = "crashed"]
  /\ lock' = IF lock = p THEN None ELSE lock
  /\ UNCHANGED <<req, redis, answered, booked>>

-----------------------------------------------------------------------------
Init ==
  /\ pc        = [p \in Requests |-> "idle"]
  /\ req       = [p \in Requests |-> Start]
  /\ lock      = None
  /\ hold      = [k \in Places |-> None]
  /\ session   = [s \in Sessions |-> None]
  /\ refreshed = {}
  /\ holds     = {}
  /\ answered  = [s \in Sessions |-> {}]
  /\ booked    = {}

HoldNext(p) ==
  \/ \E s \in Sessions, slot \in Slots : HoldStart(p, s, slot)
  \/ HoldPick(p) \/ HoldSetNX(p) \/ HoldPrevious(p) \/ HoldDrop(p) \/ HoldRemember(p)

RefreshNext(p) ==
  \/ \E s \in Sessions, id \in Requests, slot \in Slots : RefreshStart(p, s, id, slot)
  \/ RefreshExtend(p)

CreateNext(p) ==
  \/ \E s \in Sessions, id \in Requests, slot \in Slots : CreateStart(p, s, id, slot)
  \/ \E s \in Sessions, slot \in Slots : WalkInStart(p, Phone[s], slot)
  \/ ConsumeGet(p) \/ ConsumeDelete(p) \/ CreateCheck(p) \/ CreateInsert(p)

Environment ==
  \/ \E b \in booked : Close(b)
  \/ \E b \in booked, slot \in Moves : Reschedule(b, slot)
  \/ \E k \in Places : ExpireHold(k) \/ ExpireMember(k)
  \/ \E s \in Sessions : ExpireSession(s)
  \/ \E p \in Requests : Crash(p)

Next ==
  \/ \E p \in Requests : HoldNext(p) \/ RefreshNext(p) \/ CreateNext(p)
  \/ Environment

Spec == Init /\ [][Next]_vars

-----------------------------------------------------------------------------
Request ==
  [session : Sessions \cup {None}, slot : Slots \cup {None}, id : Requests \cup {None},
   desk : Desks \cup {None}, previous : Places \cup {None}, phone : {Phone[s] : s \in Sessions} \cup {None}]

Ticket ==
  [desk : Desks, slot : Slots, phone : {Phone[s] : s \in Sessions}, id : Requests, by : Requests,
   open : BOOLEAN]

\* Every variable keeps its type.
TypeOK ==
  /\ pc \in [Requests -> {"idle"} \cup Running \cup Ended]
  /\ req \in [Requests -> Request]
  /\ lock \in Requests \cup {None}
  /\ hold \in [Places -> Value \cup {None}]
  /\ session \in [Sessions -> Places \cup {None}]
  /\ refreshed \subseteq Sessions
  /\ holds \subseteq Places
  /\ answered \in [Sessions -> SUBSET (Requests \X Slots)]
  /\ booked \subseteq Ticket

\* One desk and time is never sold twice, whatever holds, walk-ins, expiries
\* and crashes run together: the check and the insert are under one lock.
OneTicketPerDeskSlot ==
  \A a, b \in booked :
    a.open /\ b.open /\ a.desk = b.desk /\ a.slot = b.slot => a = b

\* One telephone has one open booking for a time, though two browsers with the
\* same telephone may book together.
OneTicketPerPhoneSlot ==
  \A a, b \in booked :
    a.open /\ b.open /\ a.phone = b.phone /\ a.slot = b.slot => a = b

\* A form sent twice books once: a hold becomes at most one ticket, ever.
HoldBooksOnce == \A a, b \in booked : a.id = b.id => a = b

\* A change from one slot to another that died with the process: the old hold
\* may be gone while the session key still names it.
HalfMoved(p) == pc[p] = "crashed" /\ req[p].slot # None /\ req[p].previous # None

RemovedByOwner(k) ==
  hold[k] # None /\ hold'[k] # hold[k] =>
    \E p \in Requests : req[p].session = hold[k].session /\ pc'[p] # pc[p]

\* docs/architecture.md: a hold is put on the desk for three minutes.  As long
\* as no TTL runs out, only a request of the same session removes it.
HoldLastsThreeMinutes == [][\A k \in Places : RemovedByOwner(k)]_vars

\* The same as far as the code goes, for browsers that wait for their answers:
\* until a change of slots dies half way.
HoldIsNotStolen ==
  [][(\A p \in Requests : ~HalfMoved(p)) => \A k \in Places : RemovedByOwner(k)]_vars

\* A browser that waits for its answers, and lost none to a crash, has at most
\* one hold: the one its session key names, with a holdId it was told.
HoldIsKnown ==
  \A s \in Sessions, k \in Places :
    (/\ hold[k] # None /\ hold[k].session = s
     /\ \A p \in Requests : req[p].session = s => pc[p] \in {"done", "refused"})
    => session[s] = k /\ <<hold[k].id, k[2]>> \in answered[s]
=============================================================================
