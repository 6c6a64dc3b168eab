# The ticket queue in TLA+

This directory specifies and verifies the ticket system: clients book a slot for
a visit, say that they have come, and are served at a desk by an employee. Everything is modelled from the source; `queue.service.ts` below is
`src/apps/api/src/queue/queue.service.ts`, and the other files named without a
directory lie beside it. `PROJECT.json` names, for every definition, the lines
it stands for.

    tlc -workers 2 -config QueueDesks.cfg MCQueue     # one of the runs below
    tlapm QueueProofs.tla                             # the proofs

## 1. Inventory

### Components

| Component | State | Operations | Made correct by |
|---|---|---|---|
| Queue rules (`queue.rules.ts`, `ticket-presentation.ts`, `domain/entities.ts`) | none | which status follows which action, who may cancel, check in, be swept | pure functions; their use in the queue |
| Queue of a site (`queue.service.ts`, `queue-dispatch.ts`) | PostgreSQL: `ticket`, `assignment`, `employee.status` | check in, cancel, call, start, complete, requeue, no-show, break, timer sweeps | a ticket in hand has exactly one employee and an employee one ticket; the three rows agree; closed is closed; every visit ends, although one failure ends the timer's round |
| Desks and directions (`queue.service.ts`) | `desk`, `employee.deskId`, `employee.country` | create, edit, delete a desk; take, give, leave one; change the direction of an employee | a client is sent where the employee sits; a desk serves nobody of the other direction |
| Slot holds (`rate-limit.service.ts`) | Redis: `slot:hold:*`, `slot:session:*`, `slot:refresh:*`, the sorted set `slot:holds` | hold, refresh, consume | one owner of a desk and time; a hold books once |
| Creation of bookings (`queue.service.ts`, `booking.service.ts`) | `ticket`, the advisory lock of the site | `createTicket`, `createWalkInTicket`, `rescheduleTicket` | no desk booked twice, no telephone twice for one time |
| Booking calendar (`booking.service.ts`) | `blocked_slot` | slots of a day, blocked hours | what is offered can be reserved |
| Live updates (`queue-updates.service.ts`, the `@Sse` handlers of `queue.controller.ts`, the boards and lists of the pages) | a `LISTEN` connection, subscriptions, what a page shows | notify, subscribe, reconnect, poll | a screen shows the last state in the end |
| Idempotent actions (`queue.controller.ts`, `rate-limit.service.ts`) | Redis `idem:*` | look up, run, store | a retry has the effect and the answer of the first request |
| Rate limits, device binding (`rate-limit.service.ts`) | Redis counters | allow, count | a counter runs out in the end |
| Retention (`retention.service.ts`) | deletes old rows | daily batch | only closed tickets go |
| Events and audit log | append-only rows | written with each change | nothing reads them to decide |
| Sign-in and sessions (`auth/`) | Redis sessions, memoised discovery | login, callback, logout | roles from verified claims |
| Keycloak accounts (`auth/keycloak-admin.service.ts`, the administrator's page) | Keycloak, `employee`, the password on a screen | create, reset password, choose a direction | what is reported is there; everybody comes to work |
| Views, metrics, formatting | none | reads | – |
| Booking wizard (`client-web/src/App.tsx`) | step, choices, the hold it counts down | clicks, timers, answers | the form is open only behind a hold; no step without a way out |
| The other pages of `client-web`, `staff-web` | screens | requests | – |
| Migrations, infrastructure, scripts | schema | run once or by hand | the unique indexes |

### How they interact

The two web applications call three controllers over HTTP; each handler calls
one method of `QueueService`, and each such method is one PostgreSQL
transaction (`dataSource.transaction`), with row locks on what it read first.
Bookings also go through Redis: `holdSlot` puts a key for a desk and time,
`createTicket` consumes it *inside* its SQL transaction. A timer of
`onModuleInit` runs two sweeps every twelve seconds, unsynchronised with the
requests: `expireMissedAppointments` (also called by two of the reads), and
`dispatchAvailable`, which puts back the clients of absent employees, gives
clients to free employees and ends calls older than ninety seconds. Every ticket
change is published by `NOTIFY` and reaches the screens as server-sent events.

### What is hard here

* Three rows describe one fact. That an employee serves a client is written in
  `ticket.status`, in an `assignment` and in `employee.status`, by some fifteen
  methods and three sweeps. Nobody checks that they agree.
* Two stores. Holds are in Redis and may vanish between any two commands;
  bookings are in PostgreSQL; the advisory lock covers one and not the other.
* Administration during the day. Desks change direction, are deleted under
  employees and given to others while clients sit at them.
* Unlocked reads before locked writes, in the sweeps and in the takeover of a
  desk.
* Timers against people: a call times out while the employee presses START.
* Two computations of one thing. What the list of slots offers and what a hold is
  granted come from different queries, and from different clocks.
* Screens that are told of changes over connections that break, or that ask
  again and again and get the answers in another order.

Every place where this bites is listed, with its line, under `hazards` in
`PROJECT.json`, with the properties that watch it or the reason why none does.

## 2. Plan

| Step | Module | Purpose | State |
|---|---|---|---|
| 1 | `QueueRules` | the pure rules and status sets | done |
| 2 | `Queue` | every transaction as one action | done |
| 3 | `ServiceDesk` | what a client is promised; `Queue` implements it | done, proved |
| 4 | `QueueProperties`, `MCQueue` | properties and small instances | done |
| 5 | `SlotHold`, `MCSlotHold` | holds and bookings, statement by statement | done |
| 6 | `QueueProofs`, `QueueVisitProofs`, `SlotHoldProofs` | theorems | safety and the refinement proved, see 6 |
| 7 | `BookingCalendar`, `BookingCalendarProofs` | slot grid, blocked hours, what the screen offers against what `reserveDesk` grants | done, safety proved |
| 8 | `QueueTransactions`, `QueueTransactionsProofs` | the transactions of `Queue` cut into statements, with row locks, `save` and the pool | done, safety proved |
| 9 | `LiveUpdates`, `LiveUpdatesProofs` | notify, listen, reconnect, subscribe; boards and lists that poll | done, safety proved |
| 10 | `BookingWizard`, `BookingWizardProofs` | the client's page: list, hold, countdown, form | done, safety proved |
| 11 | `StaffAccounts`, `StaffAccountsProofs` | accounts in Keycloak, employee rows, sign-in | done, safety proved |
| 12 | the administrative transactions, statement by statement | locks of a takeover and of a change of direction against those of `QueueTransactions` | later |
| 13 | idempotency keys, rate limits, retention | small, and apart from the rest | last |

Every safety property of the passing runs has its theorem. Worth proving next: that
`QueueTransactions` implements the assignments of `Queue` that it cuts up, and,
once step 12 is modelled, the same locks for a takeover.

## 3. The modules and the code

### QueueRules

The tables and predicates, under the names of the code. One unit of time is
five minutes, so the window of a check-in opens 3 units before the slot, a
Russian slot lasts 4, the grace before an automatic NO_SHOW is 12. `"null"` is
the null that `nextTicketStatus` returns.

### Queue

One variable for each column that decides anything; the comment beside each
names it. A row that does not exist is `"ABSENT"` (tickets) or `"absent"`
(desks). `active` is the set of assignment rows with `active = true`; of the
finished ones only `deskUsed` is remembered, because `deleteDesk` counts them.

| Action | Code |
|---|---|
| `CreateTicket` | `createTicket`, `createWalkInTicket` |
| `CheckIn` | `checkInByHash` with `assignSpecificTicket` |
| `Cancel` | `cancelTicketByHash` |
| `BecomeAvailable`, `TakeBreak` | `setEmployeeStatus` with `assignNext`, `releaseAssignmentForBreak` |
| `AssignmentAction` | `assignmentAction`: CALL, START, COMPLETE, REQUEUE, NO_SHOW |
| `CallFromList`, `CompleteFromList` | `setTicketStatus` |
| `MarkNoShow`, `Reschedule` | `markNoShow`, `rescheduleTicket` |
| `AssignEmployeeDesk`, `LeaveDesk` | `assignEmployeeDesk`, `assignSelfDesk` |
| `UpdateEmployeeCountry` | `updateEmployeeCountry` |
| `CreateDesk`, `UpdateDesk`, `DeleteDesk` | the same names |
| `ExpireMissed` | `markMissedAppointments` |
| `RecoverBreak`, `DispatchAvailable`, `ExpireCall` | the three parts of `dispatchAvailable` |
| `Restart` | `onModuleInit` |

Decisions of the model that a reader should know:

* Each action is a whole transaction. What the interleaving of statements adds
  is the subject of `SlotHold` for bookings and of `QueueTransactions` for the rest. Reads
  that a transaction makes and repeats under its lock are one read.
* One read is not repeated: `assignEmployeeDesk` looks for those who sit at the
  desk without a lock, and no index keeps two employees from one desk. So
  `AssignEmployeeDesk` moves away any part of them, and two takeovers at once
  leave two employees at a desk. No property claims otherwise.
* `recoverBreakAssignments` and `rescheduleTicket` ask for `pessimistic_write` in
  a query with relations, an outer join that PostgreSQL refuses to lock. Whether
  TypeORM sends it so cannot be decided from the source, hence `JoinsLockable`:
  if it is FALSE, `RecoverBreak` and `Reschedule` never succeed. The safety
  properties are proved for either.
* The unique indexes of `assignment` are not in the model: the invariant
  `IndexesNeverFire` says that no step would need them. The index on desk and
  time of `ticket` is (`IndexAdmits`), because a refused insert refuses a booking.
* `assignmentAction` ends with `assignNext`, but the employee it passes was
  loaded without the desk, and without a desk `assignNext` returns null. So
  `AssignmentAction` assigns nobody. `setTicketStatus` loads the desk and does
  assign.
* `setEmployeeStatus` accepts AVAILABLE from an employee who has a client. The
  model does too. That the employee is not given a second one rests on the desk
  being busy, hence on `ClientAtEmployeesDesk`.
* Rows that compare equal in an ORDER BY differ by `createdAt` or `updatedAt`;
  any of them may come first.
* `callAttempts` is counted up to `MaxAttempts = 2`, as only `>= 2` is asked.
  The age of a call is not modelled: every call may be ninety seconds old when
  the sweep comes.
* `reserveDesk` may pick any free desk: labels, holds and blocked hours decide
  which, and are not in this module.
* One site; `serviceTypeIds`, which no code sets, and the role ADMIN are left
  out, and so is the limit of a hundred rows in a sweep. WAITING is in the type
  but no code writes it.

### ServiceDesk

The abstract specification: a visit is expected, waits, is held by one employee,
is served by that employee, and is over. It may go back from "held" to the
waiting room; a service once begun is finished by the one who began it; a visit
that is over stays over; no employee has two. `QueueProperties` maps the ten
statuses to these stages and the assignments to the server, and the run
`QueueDesks` checks that every step of `Queue` is a step of `ServiceDesk`, and
`QueueImplements` proves it.

### SlotHold

Each request is a process with a program counter, and each action one Redis
command (or MULTI) or one SQL statement. `hold`, `session`, `refreshed` and
`holds` are the four kinds of Redis keys; `lock` is the advisory lock; `booked`
the committed tickets. A request's name serves as the holdId it draws, so the
value of a key is the record of session and request. Between any two actions
other requests run, keys expire (`ExpireHold`, `ExpireMember`,
`ExpireSession`), or the process dies (`Crash`: PostgreSQL rolls back and frees
the lock, Redis keeps what it was given).

`OneTicketPerDeskSlot` and `HoldBooksOnce` ask nothing of the browsers.
`HoldLastsThreeMinutes` is what the documents promise of a hold, and fails;
`HoldIsNotStolen` is how far the code keeps it: browsers that wait for their
answers, until a change of slots dies half way (`HalfMoved`). `holdSlot` deletes
the previous key before it writes the new one into `slot:session`. If the process
dies between the two, the session goes on naming a slot that another browser may
get, and the next change deletes that browser's hold. It takes three slots.

`OneAtATime` says whether a browser waits for an answer before its next
request, as the screens do within one tab; `KeysExpire` whether three minutes
pass during the run; `Moves` which slots a manager moves bookings to. All slots
are of one direction and do not overlap: overlapping ones are in `Queue`. The
consecutive reads of one lookup (`getSessionHold`, `peekHold`, `refreshHold`)
are one action, and so are SET NX and the GET after its failure. The lifetime of
a key is not counted, so an extension shows only in `slot:refresh` and `slot:holds`.

### BookingCalendar

Time is counted in grid units over a few days; `SlotToDate` and `DateOf` are the
two conversions of the code, the first in the site's zone, the second in the
Moscow zone. `Available` is `listAvailableSlots`, `AssertSlotAvailable` and
`ReserveDesk` are what a hold, a booking and a move ask; both sides are written
out from their own queries. Bookings, holds, walk-ins, moves, blocked hours, an
employee who changes desks with the blocked hours, and desks switched off or
turned to the other direction are the actions. A request is one step but for the
hold, whose desk is chosen under the advisory lock (`ChooseDesk`) and whose key is
set, or found taken, after the lock was given back (`SetHold`, `HoldFails`): in
between others book, and the hold may lie over their booking. What is left is that
two *bookings* of one direction never overlap. A ticket that a pause
reopens after it was cancelled (`DocClosedIsFinal`) is outside this module; the
index on desk and start refuses it only if the slot was sold again to the minute.

### QueueTransactions

The same transactions as in `Queue`, as PostgreSQL runs them at READ COMMITTED.
`db` is what is committed, `work` what a transaction has written, `locks` its row
locks, `tx` where it is: a statement on a second connection (`ensureEmployee`),
its first lock, the reads of `save`, its writes, a further look at the tables,
the commit. TypeORM's `save` is modelled by what it does: it reads the rows
again and writes the columns that differ from the objects in memory, so an old
object writes an old value. An INSERT of an assignment takes `FOR KEY SHARE` on
the ticket and the employee and waits for whoever has an undecided row with the
same key; the partial unique indexes then refuse it or not. The pool has
`PoolSize` connections. Desks do not change. `FOR UPDATE SKIP LOCKED` of
`assignNext` is `May` in `LookForTicket`.

* A second connection is asked for twice: by `ensureEmployee`, before the locks,
  and by the `getQueueMeta` of a check-in, after its writes (`AsksPlace`). The
  same call in `createTicket` and `rescheduleTicket` is not here, as they are not.
* `markMissedAppointments` closes one ticket after another in one transaction and
  keeps all its locks (`NextMissed`), those of tickets it passes over included. Any
  ticket may come next. One process runs one such sweep at a time; two processes of
  the API may run two, and the model lets them.
* Calling again writes `calledAt` into the assignment, whoever holds it, so the
  row is written and locked even if nothing else in it differs.

Not in it: targets of `setTicketStatus` other than CALLED, the takeover of a
desk, `recoverBreakAssignments`.

### LiveUpdates

One viewer a behaviour: the client's ticket page, an employee's stream, the
board, or a manager's list of a day. The ticket is a count of its changes and a
desk. A notification goes through `inbox` to the subscriptions; a stream rereads
the ticket and puts it on the `wire`; a broken stream is opened anew. The board
and the list send requests whose answers may overtake each other. What the API
answers itself (after a check-in or a lookup) names the reserved desk, not the
desk of the assignment (`AnswerView`), as in the code.

### BookingWizard

The page of a client: `step`, the choices, the hold it counts down, the list of
slots with the load that is on its way, and the requests under way (`asked`)
from the click to the answer, which may be lost. The API is reduced to what this
browser's session has there. `Patient` says whether the client waits for an answer
before pressing again.

### StaffAccounts

Keycloak (`account`, `password`), PostgreSQL (`rows`, `country`), what the person
knows, an administrator's request with the step it has come to, the first
requests of an employee, the sign-in and the API's promise of Keycloak's
metadata. `password` is the administrator's page for which it was generated, so
that two resets at once give two passwords. Each failure, stop and lost answer is
counted and bounded by `MaxFailures`. A site exists, so that `createManager`
always has where to put the row.

## 4. Runs

| Run | Bounds | States | Shows |
|---|---|---|---|
| `QueueDesks` | 2 clients, 2 employees, 2 desks at one instant; desks created, edited, deleted, switched on again | 378 thousand | rows agree (`TypeOK`, `IndexesNeverFire`, `InProgressIffAssigned`, `EmployeeStatusHonest`), `ClientAtEmployeesDesk`, `ClosedStaysClosed`, `ImplementsServiceDesk` |
| `QueueBookings` | 2 clients, slots 3, 5, 7 of length 4 (neighbours overlap), moves, a desk of either direction, an employee whose direction changes, restarts, sweeps, time running past the end | 464 thousand | `AssignedWithinDirection`, `NoDoubleBooking`, `EveryVisitEnds`; rows agree after sweeps and restarts (`InProgressIffAssigned`, `EmployeeStatusHonest`) |
| `SlotHold` | 4 requests, 2 browsers with one telephone, 2 desks, one slot, expiring keys | 435 thousand | `OneTicketPerDeskSlot`, `OneTicketPerPhoneSlot`, `HoldBooksOnce`, `TypeOK` |
| `SlotHoldOneTab` | 4 requests, 2 browsers that wait, 1 desk, 3 slots, moved bookings, no expiry | 1.5 million | `HoldIsKnown`, `HoldIsNotStolen` |
| `BookingCalendar` | 2 bookings, 1 browser, 1 employee who changes desks, 2 desks, both directions with slots of different length, 2 days of which one is a weekend | 463 thousand | `TypeOK`, `OfferKept`, `OverlapOnlyAcrossDirections`, `NobodyBookedIntoBlockedHours` |
| `LiveUpdates` | 2 changes, 1 loss of the listener, 1 broken stream, 2 polls under way, 2 turns to another day | 80 thousand | `QuietEmployeeIsCurrent`, `BoardCatchesUp`, `ManagerCatchesUp`, `EmployeeCatchesUp`, `ClientSeesChange` |
| `BookingWizard` | 2 slots, 1 direction, a patient client, other clients | 170 thousand | `StepIsBacked`, `ConfirmationEnds`, `OwnSlotComesBack` |
| `QueueTransactions` | 2 clients, 2 employees, 2 transactions at a time, every kind but the pause, every action | 665 thousand | `TypeOK`, `NobodyStranded`, `ClosedStaysClosed` |
| `QueueWaits` | 2 clients, 1 employee, 2 transactions at a time with 2 connections, every kind | 399 thousand | `EveryTransactionEnds` |
| `StaffAccounts` | 1 person, 2 administrators, 2 requests of the employee, 3 failures | 113 thousand | `TypeOK`, `ReportedManagerIsComplete`, `EveryManagerGetsDirection`, `EveryManagerGetsToWork` |
| `DocClosedIsFinal` | as `QueueWaits` | – | a counterexample to `ClosedStaysClosed` |
| `DocHoldLasts` | 4 requests, 2 browsers that do not wait, 1 desk, 2 slots, no expiry | – | a counterexample to `HoldLastsThreeMinutes` |

The bounds are the smallest in which the interesting cases happen. Two clients
for one employee, two employees for one client and two for one desk need two of
each; a third adds no new kind of conflict, since every hazard listed is between
two actors, and the theorems of section 6 lift the safety properties of all
modules to any number. A day's hours pass in `QueueBookings`; that they
do no harm with several employees is proved rather than run. Four requests are a hold, a
change of the hold or a second tab, a booking and a competitor. Three slots are one
held, one changed to and one that a stale session key still names. Two transactions
wait for each other, or for the second of two connections; one employee keeps the
runs with liveness small and makes everybody meet. Two changes of a ticket are the
fewest of which one can be missed and the other seen. Three failures are one in
Keycloak, one in PostgreSQL and a restart. Clients, employees, desks of one
direction, requests and browsers are interchangeable, and the runs without
liveness use that as symmetry (desks of `SlotHold` are ordered by label and are
not symmetric).

`SlotHold`, `SlotHoldOneTab` and `LiveUpdates` check no deadlock: requests and
changes are bounded, and when they are used up the system stops. In `QueueWaits`
the question is asked by `EveryTransactionEnds`, which is stronger. Elsewhere
somebody can always act.

What the runs of this table found out about the statements of the queue: without
pauses no save overwrites what another transaction has settled, although most of
the rows are read without a lock. Two transactions that want the same client wait
for each other's rows in opposite orders, and it is the search for deadlocks that
rolls one of them back as a whole. So the deadlocks are not an accident of the
code but what keeps it correct.

### Where the code and its documents differ

`DocClosedIsFinal` ends in a counterexample to docs/metrics.md, for which a
cancellation and an absence are final; `findings` in `PROJECT.json` quotes it. An
employee who set AVAILABLE while holding a client, and then pauses, has the
assignment read without its lock; the client cancels meanwhile, and the pause
writes REQUEUED over the cancellation. With a second employee the same pause also
strands a client (`NobodyStranded`), which is why the pause is not among the kinds
of `QueueTransactions`.

`DocHoldLasts` ends in a counterexample to docs/architecture.md, for which a hold
stands on a desk for three minutes. `consumeHold` compares the key's value and then
deletes the key, whoever set it meanwhile; so does the change of a hold. Two
requests of one browser at once, a booking and a change of slots, delete the hold
which another browser has got in between.

The following were met while modelling, as states or steps of the modules above,
and contradict a document, a comment or what the other half of the code expects.
No run repeats them.

* docs/architecture.md: "there is no automatic NO_SHOW". `markMissedAppointments`
  marks a client absent who came and waits an hour (`ExpireMissed`).
  `EveryVisitEnds` rests on what the code does: without that sweep the visit of a
  client who never comes stays open for ever, and its mutant, a status missing from
  the sweep's list, violates it.
* docs/architecture.md: a hold is put on the desk for three minutes. `holdSlot`
  gives the advisory lock back (218) before it sets the key (220), and a walk-in
  between the two takes the desk (`ChooseDesk`, `CreateWalkIn`, `SetHold`). The
  browser counts down a hold under a booking; its own booking is refused.
* docs/architecture.md: after COMPLETE the next client is assigned in the same
  transaction. `assignmentAction` assigns nobody; the timer does.
* The comment on `activeDeskAssignment`: a desk serves one client. A desk deleted
  under an employee who set AVAILABLE while holding a client, then switched on
  again, gets a second one, because `setTicketStatus` does not ask.
* Two takeovers of a desk at once leave two employees at it, since those who sit
  there are read without a lock; `deskId` has no unique index.
* If the database refuses the row lock of `recoverBreakAssignments`, no round that
  finds a client of an absent employee reaches the other parts, and as long as
  there is always one, calls are not ended and nobody is assigned. `EveryVisitEnds`
  without its premise is false; the employee's return or break puts an end to it.
* docs/architecture.md: creation is atomic. A creation refused for the telephone
  has consumed the hold.
* docs/architecture.md: after a lost connection the page reads the state again.
  That is so for the page's own stream (`ClientSeesChange`). When the API's
  listening connection falls and comes back, nothing is read again, and a client
  whose stream stands sees the change only with the next one.
* docs/architecture.md: dates are offered from the next working day. The list of
  dates begins with today.
* docs/architecture.md: slots are counted in `site.timezone`. `listAvailableSlots`
  works with that zone, blocked hours and dates with Moscow's: for a site in any
  other zone (`Zone` # 0) `OfferKept` fails.
* docs/architecture.md lets an employee choose a status only without an active
  assignment; AVAILABLE is accepted with one.
* `assertSlotAvailable` accepts times between those of the grid.
* The answers to a check-in and to a lookup name the reserved desk even if another
  desk's employee has just been assigned; the next event puts it right.
* Two slots pressed without waiting end with a countdown for a hold that the API
  has replaced: `StepIsBacked` is for a client who waits (`Patient`). After a
  lost answer and a new choice, the old ticket is returned. A cancellation that
  failed is shown as done.
* Two clicks on one slot answer two holdIds of which only the first is good; after a
  change of the slot `slot:refresh` survives and the next refresh is refused;
  moving a booking does not ask for the telephone (so `OneTicketPerPhoneSlot` is
  for days without moves); `busyDeskIds` sees bookings of one direction only (so
  `NoDoubleBooking` is for days on which no desk changes direction, and
  `OverlapOnlyAcrossDirections` says what holds on the others); bookings not yet checked
  in may be called from the list and completed from CALLED.
* An account whose role could not be mapped is in no list and its login is taken:
  only Keycloak's own console repairs it.

## 5. Fairness

`FairSpec` of the queue assumes:

* time passes (`WF(Tick)`);
* the timer runs. `setInterval` in `onModuleInit` begins a round of
  `dispatchAvailable` every twelve seconds as long as the process does: the stale
  clients (`RecoverBreak`), the free employees (`DispatchAvailable`), the old calls
  (`ExpireCall`), in one sequence, of which an exception skips the rest. So there is
  no fairness for each sweep: the second and the third are promised only while
  nobody is stale (`NobodyStale`), when a round gets past the first, and of the
  first nothing is promised, because its lock may be refused every time. For the
  rest, a round that finds nobody stale is assumed to come through in the end;
* strong fairness of `ExpireMissed`, another promise of the same timer: whether a
  ticket is overdue in a status that is swept may change back and forth as people
  call it and requeue it, and neither is synchronised with the timer, so that a
  sweep finds it sooner or later. It also runs whenever the board or a manager's
  list is read;
* an employee who has begun to serve finishes (`WF` of COMPLETE): the only
  thing asked of people.

No client and no employee is assumed to do anything else. `EveryVisitEnds` has two
premises, of which one suffices: the first part does its work and the process is not
restarted for ever (`StaleAreRecovered`), or from some time on nobody is stale. With
neither, or with restarts for ever, TLC finds a visit that never ends.

`QueueTransactions` assumes that a transaction which can go on does, and that
one which waits is ended by `statement_timeout`, by PostgreSQL's search for
deadlocks or by the pool's `connectionTimeoutMillis` (app.module.ts). One
fairness for each process, so that one cannot hide another's waiting.

`LiveUpdates` assumes that programs and networks work: the listener reconnects
(it tries again after each failure), notifications and rereads arrive, streams are
reopened by the browser, and polls, which a timer repeats, are answered in the
end (`SF(Answered)`). Nobody has to change or to break anything.

`BookingWizard` assumes the same of requests, the countdown, the expiry of a hold
and the list's timer, and nothing of the client. `OwnSlotComesBack` does not
blame the list for what other clients have taken.

`StaffAccounts` assumes that calls which have begun end, and three things of people,
without which nobody gets anywhere: an administrator gives a direction to whoever
has none and helps whoever cannot sign in (strong fairness, since they are busy
with other requests in between), and the employee tries again. Failures are
finite; without that two administrators who reset one password in turn could go on
for ever.

## 6. Proofs

`tlapm` checks the eight proof modules to the last leaf, for any sets of clients,
employees, desks, requests, browsers, slots and accounts. What is assumed of the
constants is the named ASSUME of each module, which TLC evaluates in every run:
they have their types, and the sentinel `None` is not a member of the sets whose
elements stand beside it in a column. Whatever else a theorem needs is a
hypothesis in its statement, and this section says why it cannot be dropped.

**QueueProofs.** The properties are not inductive alone. The inductive
invariant is `Safe`, of three parts:

1. `TypeOK`;
2. `Joined(status, active)`: no ticket and no employee has two active
   assignments, and a ticket is in hand exactly when an assignment names it;
3. `ClientAtEmployeesDesk`: the desk of an assignment is the employee's, or the
   employee has none.

Part 3 is what makes part 2 inductive: `assignSpecificTicket` gives a client to
an AVAILABLE employee after looking only at whether the *desk* is busy. If the
employee already had a client, that client would be at the employee's desk, the
desk would be busy, and the step is refused. Part 2 in turn is what makes part 3
survive a takeover of a desk, where only the assignments found by employee are
ended, whichever of those who sit at the desk the takeover finds. From `Safe` follow
`IndexesHold`, `InProgressHolds` and `SeatHolds`; `ClosedHolds` is proved separately,
as an action property from `TypeOK` alone.

**QueueVisitProofs.** `HonestHolds` adds `EmployeeStatusHonest` to `Safe` and takes
the steps one by one. `QueueImplements` is the refinement and rests on `Safe` alone.
A step of `ServiceDesk` moves any number of visits, each along an arrow of
`Following`; so the proof asks of every ticket which statuses a transaction may
lead to (`StatusMoves`), and whether a client who stays in hand stays with the same
employee (`HandsStay`). The abstract `server` is chosen from the assignments; part 2
of `Safe` says that there is only one to choose (`ServerIs`).

`NoDoubleBookingHolds` and `DirectionHolds` have a hypothesis about what
administrators do; TLC shows that each is needed.

* `BookedDesksKeep`: the desk of an open booking is not given another direction.
  `busyDeskIds` sees the bookings of one direction only, so that the desk would be
  free again for the new one. The invariant, `Placed`, says that an open booking's
  desk has the booking's direction.
* `PeopleKeepDesks`: no desk is turned while somebody sits there, none deleted under
  a client in hand. Two desks that may be turned suffice for a counterexample:
  `UpdateDesk` turns the desk, `UpdateEmployeeCountry` gives the employee the new
  direction and keeps the client. So does a deletion: an employee who set AVAILABLE
  while holding a client loses the desk and then changes direction. `Directed`
  says that an employee at a desk has its direction.

**SlotHoldProofs.** `SlotTypesHold` needs `Filled`: what a request has written
down when it comes to each step. `DeskSlotHolds` rests on `Sold`: whoever is
between the check and the insert holds the lock (`Locked`) and the desk it chose
is still free in the table (`DesksFree`), since only the holder of the lock
writes an open ticket. Redis plays no part in it, so the holds may
expire at any time. `PhoneSlotHolds` is the same argument for the telephone, with
`Moves = {}`. `HoldOnceHolds` rests on `Once`: a holdId is drawn by one request,
so at most one key carries it and, once it is deleted by the request that has
the lock, none will again.

`HoldKnownHolds` and `HoldKeptHolds` are about Redis alone. `StepMoves` puts every
command into one of five forms (a key comes, goes, the session key changes, both
stay), so that the invariants meet five cases and not thirty. `OneTab` is the
browser that waits: one request of a session at a time. `Known`: a key of a session
is the one its session key names, or one that a request has set and not yet named
there, and a request that is about to name or to consume a key finds the session
with no other; this needs no assumption on expiry. `Kept`: the session key names a
key that stands, or that a request has just dropped, and what a request is about to
delete is its session's own, unless a change of slots has died half way. Without `OneAtATime` or before `~HalfMoved` both are false, see
`DocHoldLasts` and section 3; with TTLs running out a key may change hands between
GET and DEL.

**BookingCalendarProofs.** The inductive invariant adds to the types that every
booking lies inside the opening hours of a working day and has the length of its
direction (`Regular`), whatever it was moved to. `BookingsApart` takes the steps that
reserve (`ReserveDesk` finds a desk with no booking of the same direction in the
way) apart from those that only free; it asks nothing of the holds, which may lie
over bookings. `NobodyAwayIsBooked` is an action property.
`OfferHolds` compares the two computations: the list counts the bookings of one
day, the server all that overlap, and `Regular` makes them the same, since a booking
never reaches into another day. It needs `Zone = 0`: in another zone the two clocks
disagree and the property is false (section 4).

**LiveUpdatesProofs.** `EmployeeHolds`: a stream that is live and quiet shows the
ticket. The invariant, `Followed`, is about what the page will show when nothing
more is asked of it (`Upcoming`): what was read last, else what is last on the wire,
else what is on the screen. That is the ticket whenever the stream is live, the
listener was never lost and no notification is still to come or to be answered by a
reread.

**BookingWizardProofs.** `StepIsBacked` needs to know what may be under way.
`WizardInv` says that a patient client has at most one request under way (`Alone`)
and, of that one, on which step the page stands while it is out (`Awaited`), what it
asks for (`Asks`) and that an answer brings the hold or the ticket it speaks of
(`Brings`). Both theorems assume `Patient`. Without it a refused
creation may come back when the client has begun anew, and puts the page at the list
of slots with no direction chosen.

**StaffAccountsProofs.** `IInv` adds to the type invariant and
`ReportedManagerIsComplete` that an account has at most one row, which the unique
constraint sees to, and what a creation under way has done (`Underway`): from
its stage one can read that the account exists, has its role, has its row. No row
of the database says so, and it stays true because nothing ever takes a role or
a row away; that is also why a request may end anywhere (`RequestBeginsOrEnds`).

**QueueTransactionsProofs.** `StrandedHolds` and `ClosedHolds` are about row locks.
The invariant, `Inv`, has three parts beside the types:

1. no two transactions have incompatible locks on a row, what is written is locked,
   and a process at rest has written nothing (`LocksApart`, `WritesLocked`, `Idle`);
2. `NobodyStranded` itself, of the committed rows;
3. of each transaction under way (`Decided`): if it began with a ticket it still
   holds that lock (`ByTicketLocked`); before the second look it saves nothing but
   that ticket (`Preparing`); and from then on, whatever client it is about to write,
   it holds the ticket's row lock or that of the assignment it read, and will leave
   the two rows in agreement (`Settles`, by `Held`, `Joins` and `Parts`). A sweep that
   goes on to another ticket keeps the locks of those it has dealt with, whose two
   rows already agree in what it has written (`Settled`), and writes nothing else
   (`Sweeps`).

A transaction with the assignment's lock alone, as in `expireCalls` or an action of
the employee, writes the ticket as well before it commits, and so waits there for
whoever has the ticket. `save` leaves out the rows that do not differ from what was
read; that is why `Parts` speaks of what a row *ends in* and not of what is
written. Each step either commits or moves towards it (`Progress`), and a commit of
another leaves alone what is locked (`CommitSpares`).

Both theorems assume that no break is among the `Kinds`. `releaseAssignmentForBreak`
saves a ticket it has not locked, and with breaks both properties are false. The run
`DocClosedIsFinal` is the counterexample to the second. The first needs a second
employee too: with `Employees = {e1, e2}` in that run TLC finds a client whose call
expires, who is assigned to the other employee and then saved as REQUEUED by the
break of the one before. `TypesHold` has no hypothesis.

**Only model-checked:** what is beyond the prover, liveness under fairness and ENABLED:
`EveryVisitEnds`, `EveryTransactionEnds`, `BoardCatchesUp`, `ManagerCatchesUp`,
`EmployeeCatchesUp`, `ClientSeesChange`, `ConfirmationEnds`, `OwnSlotComesBack`,
`EveryManagerGetsDirection`, `EveryManagerGetsToWork`.

## 7. What is not modelled

* The statements inside a takeover of a desk and the other administrative
  transactions: `Queue` has them whole.
* Idempotency keys: no page of the repository sends the header. Rate limits and
  device binding: counters that refuse a request and change nothing of the
  queue. Retention: it deletes tickets closed for ninety days and meets nothing
  else.
* Of the sign-in, the tokens, nonces, roles and CSRF tokens, each a single
  comparison; and the session object, which Redis keeps as a whole, so that of two
  requests of one browser the later write wins.
* Texts, formatting, the contents of boards, metrics, events and audit rows:
  nothing reads them back to decide.
* The kiosk, whose requests are the wizard's, and the forms of the
  administrator's pages. What they send is any request at any time, but for
  `OneAtATime`.
* Migrations, infrastructure, seeding and load scripts.
