--------------------------- MODULE QueueTransactions ---------------------------
(***************************************************************************)
(* The transactions of Queue, statement by statement, as PostgreSQL runs   *)
(* them at READ COMMITTED: a statement sees what is committed and what its *)
(* own transaction wrote, a row lock lasts until the end, an INSERT of an  *)
(* assignment asks the two partial unique indexes, and whoever waits too   *)
(* long is rolled back.  TypeORM's save reads the rows again and writes    *)
(* what differs from the objects in memory, however old those objects are. *)
(*                                                                         *)
(* Queue takes each of these transactions as one step; the question here   *)
(* is which of its promises survive when several run at once.  The desks   *)
(* stay as they are: every employee sits at a desk of their own.           *)
(***************************************************************************)
EXTENDS QueueRules, FiniteSets, Sequences

CONSTANTS
  Tickets, Employees,
  Processes,  \* requests and timers that may run a transaction at the same time
  PoolSize,   \* connections to the database
  Kinds,      \* the transactions that are run
  Actions,    \* what an employee does with an assignment
  None

\* The rows that change.  The assignment row of a ticket stands for its active
\* assignment: the employee it belongs to, or None.
TicketRow(t)     == <<"ticket", t>>
EmployeeRow(e)   == <<"employee", e>>
AssignmentRow(t) == <<"assignment", t>>
AssignmentRows   == {AssignmentRow(t) : t \in Tickets}
Row == {TicketRow(t) : t \in Tickets} \cup {EmployeeRow(e) : e \in Employees} \cup AssignmentRows

\* What a transaction may write: a value for each of some rows.
Writes ==
  UNION {[rows -> TicketStatus \cup EmployeeStatus \cup Employees \cup {None}] : rows \in SUBSET Row}

\* Where a transaction is: at a statement on a second connection, at its first
\* lock, at the read of a save, at its writes, at a further look at the tables.
Stages == {"nested", "lock", "save", "write", "look", "commit"}

\* A transaction under way: what it was asked, the saves that follow with their
\* objects as they are in memory, and the employee of the assignment it read.
Transaction ==
  [kind : Kinds, t : Tickets \cup {None}, e : Employees \cup {None}, act : Actions \cup {None},
   stage : Stages, saves : Seq(Writes), then : {"look", "commit"}, holder : Employees \cup {None}]

ASSUME TransactionsAssumption ==
  /\ PoolSize \in Nat \ {0}
  /\ Kinds \subseteq {"checkIn", "cancel", "missed", "break", "available", "dispatch",
                      "action", "expireCall", "callFromList"}
  /\ Actions \subseteq AssignmentActions
  /\ None \notin Employees /\ None \notin Transaction

VARIABLES
  db,    \* what is committed
  work,  \* what a transaction has written and not committed
  locks, \* the row locks of a transaction, with their strength
  tx     \* the transaction a process is in, or None

vars == <<db, work, locks, tx>>

\* What a transaction writes: a value for some of the rows.  Over(f, g) is g with
\* the values of f.
Nothing     == [row \in {} |-> None]
Put(row, v) == [r \in {row} |-> v]
Over(f, g)  == [r \in DOMAIN f \cup DOMAIN g |-> IF r \in DOMAIN f THEN f[r] ELSE g[r]]

-----------------------------------------------------------------------------
(* READ COMMITTED. *)

See(p, row)  == IF row \in DOMAIN work[p] THEN work[p][row] ELSE db[row]
Status(p, t) == See(p, TicketRow(t))
Holder(p, t) == See(p, AssignmentRow(t))
Active(p, e) == {t \in Tickets : Holder(p, t) = e}

\* FOR KEY SHARE, which an INSERT takes on the rows it refers to, goes together
\* with UPDATE and not with FOR UPDATE.
Compatible(a, b) == "share" \in {a, b} /\ "lock" \notin {a, b}

May(p, row, strength) ==
  \A q \in Processes \ {p} : \A l \in locks[q] : l[1] = row => Compatible(l[2], strength)

\* Every transaction has a connection of its own; ensureEmployee and getQueueMeta
\* take another.
Spare == Cardinality({p \in Processes : tx[p] # None}) < PoolSize

At(p, stage, kinds) == tx[p] # None /\ tx[p].stage = stage /\ tx[p].kind \in kinds

Proceed(p, stage) == tx' = [tx EXCEPT ![p].stage = stage]

\* The saves that follow, each a set of objects as they are in memory; h is the
\* employee of the assignment that was read with them.
Save(p, saves, then, h) ==
  tx' = [tx EXCEPT ![p] = [@ EXCEPT !.stage = IF saves = <<>> THEN then ELSE "save",
                                    !.saves = saves, !.then = then, !.holder = h]]

Lock(p, rows) == locks' = [locks EXCEPT ![p] = @ \cup rows]

\* An exception, or a transaction that finds nothing to do.
Rollback(p) ==
  /\ tx' = [tx EXCEPT ![p] = None]
  /\ work' = [work EXCEPT ![p] = Nothing]
  /\ locks' = [locks EXCEPT ![p] = {}]
  /\ UNCHANGED db

Begin(p, kind, t, e, act) ==
  /\ kind \in Kinds /\ tx[p] = None /\ Spare
  /\ tx' = [tx EXCEPT ![p] =
              [kind |-> kind, t |-> t, e |-> e, act |-> act,
               stage |-> IF kind \in {"break", "available", "action"} THEN "nested" ELSE "lock",
               saves |-> <<>>, then |-> "commit", holder |-> None]]
  /\ UNCHANGED <<db, work, locks>>

\* ensureEmployee, on a connection of its own.
EnsureEmployee(p) ==
  /\ At(p, "nested", Kinds) /\ Spare
  /\ Proceed(p, IF tx[p].kind = "callFromList" THEN "look" ELSE "lock")
  /\ UNCHANGED <<db, work, locks>>

-----------------------------------------------------------------------------
(* The first lock, the reads with it and what follows from them. *)

Accepted(kind) ==
  CASE kind = "checkIn"      -> {"BOOKED"}
    [] kind = "cancel"       -> {s \in TicketStatus : CanCancel(s)}
    [] kind = "missed"       -> AutoNoShowStatuses
    [] kind = "callFromList" -> {s \in TicketStatus : "CALLED" \in ManagerNextStatuses(s)}

Becomes(kind) ==
  CASE kind = "checkIn" -> "CHECKED_IN"
    [] kind = "cancel"  -> "CANCELLED"
    [] kind = "missed"  -> "NO_SHOW"

\* A plausible bug: the ticket is read without its lock.
ReadTicket(p) ==
  LET x == tx[p]  row == TicketRow(x.t) IN
  /\ At(p, "lock", {"checkIn", "cancel", "missed", "callFromList"})
  /\ IF Status(p, x.t) \notin Accepted(x.kind) THEN Rollback(p)
     ELSE /\ IF x.kind = "callFromList" THEN Proceed(p, "nested")
             ELSE Save(p, <<Put(row, Becomes(x.kind))>>, "look", None)
          /\ UNCHANGED <<db, work, locks>>

\* checkInByHash, cancelTicketByHash, setTicketStatus and each turn of the loop
\* of markMissedAppointments, which keeps the lock of a ticket it passes over.
LockTicket(p) ==
  LET x == tx[p]  row == TicketRow(x.t)  accepted == Status(p, x.t) \in Accepted(x.kind) IN
  /\ At(p, "lock", {"checkIn", "cancel", "missed", "callFromList"})
  /\ May(p, row, "lock")
  /\ \/ ~accepted /\ x.kind # "missed" /\ Rollback(p)
     \/ /\ \/ ~accepted /\ x.kind = "missed" /\ Save(p, <<>>, "commit", None)
           \/ accepted /\ x.kind = "callFromList" /\ Proceed(p, "nested")
           \/ accepted /\ x.kind # "callFromList" /\ Save(p, <<Put(row, Becomes(x.kind))>>, "look", None)
        /\ Lock(p, {<<row, "lock">>})
        /\ UNCHANGED <<db, work>>

\* The loop goes on with another ticket that was due when the sweep began; the
\* tickets behind it stay locked, and what was written is not committed yet.
NextMissed(p) ==
  /\ At(p, "commit", {"missed"})
  /\ \E t \in Tickets : /\ <<TicketRow(t), "lock">> \notin locks[p]
                       /\ tx' = [tx EXCEPT ![p] = [@ EXCEPT !.t = t, !.stage = "lock"]]
  /\ UNCHANGED <<db, work, locks>>

\* releaseAssignmentForBreak.
Released(t) ==
  Over(Put(AssignmentRow(t), None),
       IF CanReleaseOnBreak(db[TicketRow(t)]) THEN Put(TicketRow(t), "REQUEUED") ELSE Nothing)

\* setEmployeeStatus with PAUSED or OFFLINE, refused while a client is served.
StartBreak(p) ==
  LET x == tx[p]  row == EmployeeRow(x.e)  mine == Active(p, x.e)  pause == Put(row, "PAUSED") IN
  /\ At(p, "lock", {"break"})
  /\ May(p, row, "lock")
  /\ IF \E t \in mine : BlocksBreak(Status(p, t)) THEN Rollback(p)
     ELSE /\ Lock(p, {<<row, "lock">>})
          /\ \/ mine = {} /\ Save(p, <<pause>>, "commit", None)
             \/ \E t \in mine : Save(p, <<Released(t), pause>>, "commit", x.e)
          /\ UNCHANGED <<db, work>>

\* setEmployeeStatus with AVAILABLE, whoever is in hand.
StartWork(p) ==
  LET row == EmployeeRow(tx[p].e) IN
  /\ At(p, "lock", {"available"})
  /\ May(p, row, "lock")
  /\ Lock(p, {<<row, "lock">>})
  /\ Save(p, <<Put(row, "AVAILABLE")>>, "look", None)
  /\ UNCHANGED <<db, work>>

\* The loop of dispatchAvailable.
LockEmployee(p) ==
  LET row == EmployeeRow(tx[p].e) IN
  /\ At(p, "lock", {"dispatch"})
  /\ May(p, row, "lock")
  /\ IF See(p, row) # "AVAILABLE" THEN Rollback(p)
     ELSE Lock(p, {<<row, "lock">>}) /\ Proceed(p, "look") /\ UNCHANGED <<db, work>>

\* What assignmentAction saves: the three objects as they are in memory.
Saved(t, e, act, next) ==
  LET staff == CASE act = "START" -> "BUSY"
                 [] act = "CALL"  -> db[EmployeeRow(e)]
                 [] OTHER         -> "AVAILABLE"
  IN  Over(Put(TicketRow(t), next),
           Over(Put(EmployeeRow(e), staff),
                IF act \in {"CALL", "START"} THEN Nothing ELSE Put(AssignmentRow(t), None)))

\* A plausible bug: the assignment is read without its lock.
ReadAssignment(p) ==
  LET x == tx[p]  next == NextTicketStatus(Status(p, x.t), x.act, TRUE) IN
  /\ At(p, "lock", {"action"})
  /\ IF Holder(p, x.t) # x.e \/ next = "null" THEN Rollback(p)
     ELSE Save(p, <<Saved(x.t, x.e, x.act, next)>>, "commit", x.e) /\ UNCHANGED <<db, work, locks>>

\* A plausible bug: an action that is not allowed is not refused.
LockAssignmentUnrefused(p) ==
  LET x == tx[p]  row == AssignmentRow(x.t)  next == NextTicketStatus(Status(p, x.t), x.act, TRUE) IN
  /\ At(p, "lock", {"action"})
  /\ Holder(p, x.t) = x.e => May(p, row, "lock")
  /\ IF Holder(p, x.t) # x.e THEN Rollback(p)
     ELSE /\ Lock(p, {<<row, "lock">>})
          /\ Save(p, <<Saved(x.t, x.e, x.act, next)>>, "commit", x.e)
          /\ UNCHANGED <<db, work>>

\* assignmentAction.  The employee comes without the desk, so nobody follows.
LockAssignment(p) ==
  LET x == tx[p]  row == AssignmentRow(x.t)  next == NextTicketStatus(Status(p, x.t), x.act, TRUE) IN
  /\ At(p, "lock", {"action"})
  /\ Holder(p, x.t) = x.e => May(p, row, "lock")
  /\ IF Holder(p, x.t) # x.e \/ next = "null" THEN Rollback(p)
     ELSE /\ Lock(p, {<<row, "lock">>})
          /\ Save(p, <<Saved(x.t, x.e, x.act, next)>>, "commit", x.e)
          /\ UNCHANGED <<db, work>>

\* expireCalls: the first time back to the queue, then absent.
LockExpiredCall(p) ==
  LET x == tx[p]  row == AssignmentRow(x.t)  h == Holder(p, x.t) IN
  /\ At(p, "lock", {"expireCall"})
  /\ May(p, row, "lock")
  /\ IF h = None \/ Status(p, x.t) # "CALLED" THEN Rollback(p)
     ELSE /\ Lock(p, {<<row, "lock">>})
          /\ \E s \in {"REQUEUED", "NO_SHOW"} :
               Save(p, <<Put(row, None), Put(TicketRow(x.t), s), Put(EmployeeRow(h), "AVAILABLE")>>, "commit", h)
          /\ UNCHANGED <<db, work>>

-----------------------------------------------------------------------------
(* The second look. *)

Assign(t, e) ==
  Over(Put(TicketRow(t), "ASSIGNED"), Over(Put(EmployeeRow(e), "RESERVED"), Put(AssignmentRow(t), e)))

\* assignSpecificTicket: somebody free, read without a lock.
LookForEmployee(p) ==
  LET t == tx[p].t  free == {e \in Employees : See(p, EmployeeRow(e)) = "AVAILABLE"} IN
  /\ At(p, "look", {"checkIn"})
  /\ \/ free = {} /\ Save(p, <<>>, "commit", None)
     \/ \E e \in free : Save(p, IF Active(p, e) = {} THEN <<Assign(t, e)>> ELSE <<>>, "commit", None)
  /\ UNCHANGED <<db, work, locks>>

\* The assignment that a cancelled or missed ticket leaves behind.
LookForAssignment(p) ==
  LET t == tx[p].t  h == Holder(p, t) IN
  /\ At(p, "look", {"cancel", "missed"})
  /\ Save(p, IF h = None THEN <<>> ELSE <<Over(Put(AssignmentRow(t), None), Put(EmployeeRow(h), "AVAILABLE"))>>, "commit", h)
  /\ UNCHANGED <<db, work, locks>>

\* assignNext, FOR UPDATE SKIP LOCKED.
LookForTicket(p) ==
  LET e == tx[p].e
      waiting == {t \in Tickets : Status(p, t) \in LiveQueueStatuses /\ May(p, TicketRow(t), "lock")}
  IN
  /\ At(p, "look", {"available", "dispatch"})
  /\ \/ /\ Active(p, e) # {} \/ waiting = {}
        /\ Save(p, <<>>, "commit", None)
        /\ UNCHANGED locks
     \/ /\ Active(p, e) = {}
        /\ \E t \in waiting : Lock(p, {<<TicketRow(t), "lock">>}) /\ Save(p, <<Assign(t, e)>>, "commit", None)
  /\ UNCHANGED <<db, work>>

\* The rest of setTicketStatus with CALLED: a new assignment, or the employee's
\* own once more, whose row gets the time of the call.
LookForCall(p) ==
  LET x == tx[p]  h == Holder(p, x.t)
      staff == Over(Put(EmployeeRow(x.e), "RESERVED"), Put(AssignmentRow(x.t), x.e))
  IN
  /\ At(p, "look", {"callFromList"})
  /\ IF h \notin {None, x.e} \/ Active(p, x.e) \ {x.t} # {}
     THEN Rollback(p)
     ELSE Save(p, <<Put(TicketRow(x.t), "CALLED"), staff>>, "commit", h) /\ UNCHANGED <<db, work, locks>>

-----------------------------------------------------------------------------
(* save: the rows are read again, then written one at a time. *)

Todo(p) == IF tx[p] # None /\ tx[p].stage = "write" THEN DOMAIN Head(tx[p].saves) ELSE {}

\* A new assignment, or one that has ended since it was read and is saved as
\* active: the indexes are asked.
Inserts(p, row) ==
  LET e == Head(tx[p].saves)[row] IN
  row \in AssignmentRows /\ e # None /\ (tx[p].holder = None \/ See(p, row) # e)

\* An assignment that was read is ended by its own row: once it has ended, there
\* is nothing left to change.  One that is made or called is always written.
Differs(p, row) ==
  IF row \in AssignmentRows THEN Head(tx[p].saves)[row] = None => See(p, row) = tx[p].holder
                            ELSE See(p, row) # Head(tx[p].saves)[row]

\* What is left of the save: the next one follows when it is empty.
Rest(x, rows) ==
  IF rows # {} THEN [x EXCEPT !.stage = "write", !.saves[1] = [row \in rows |-> @[row]]]
  ELSE [x EXCEPT !.saves = Tail(@), !.stage = IF Len(x.saves) = 1 THEN x.then ELSE "save"]

ReadAgain(p) ==
  /\ At(p, "save", Kinds)
  /\ tx' = [tx EXCEPT ![p] = Rest(@, {row \in DOMAIN Head(@.saves) : Differs(p, row)})]
  /\ UNCHANGED <<db, work, locks>>

Done(p, row) == tx' = [tx EXCEPT ![p] = Rest(@, DOMAIN Head(@.saves) \ {row})]

Write(p, row) == work' = [work EXCEPT ![p] = Over(Put(row, Head(tx[p].saves)[row]), @)]

Update(p, row) ==
  /\ row \in Todo(p) /\ ~Inserts(p, row)
  /\ May(p, row, "write")
  /\ IF row \in AssignmentRows /\ ~Differs(p, row)
     THEN UNCHANGED <<work, locks>>
     ELSE Write(p, row) /\ Lock(p, {<<row, "write">>})
  /\ Done(p, row)
  /\ UNCHANGED db

\* The indexes wait for whoever writes a row with the same key.
Undecided(p, e) ==
  \E q \in Processes \ {p} : \E row \in DOMAIN work[q] \cap AssignmentRows : e \in {work[q][row], db[row]}

Touches(p, row) ==
  {<<row, "write">>, <<TicketRow(row[2]), "share">>, <<EmployeeRow(Head(tx[p].saves)[row]), "share">>}

\* uq_assignments_active_ticket and uq_assignments_active_employee.
Free(p, row) == Holder(p, row[2]) = None /\ Active(p, Head(tx[p].saves)[row]) = {}

Insert(p, row) ==
  /\ row \in Todo(p) /\ Inserts(p, row)
  /\ \A l \in Touches(p, row) : May(p, l[1], l[2])
  /\ ~Undecided(p, Head(tx[p].saves)[row])
  /\ IF Free(p, row)
     THEN Write(p, row) /\ Lock(p, Touches(p, row)) /\ Done(p, row) /\ UNCHANGED db
     ELSE Rollback(p)

\* getQueueMeta, which the check-in of a client who still waits asks on another
\* connection before it commits.
AsksPlace(p) == At(p, "commit", {"checkIn"}) /\ Status(p, tx[p].t) \in LiveQueueStatuses

Commit(p) ==
  /\ At(p, "commit", Kinds)
  /\ AsksPlace(p) => Spare
  /\ db' = Over(work[p], db)
  /\ tx' = [tx EXCEPT ![p] = None]
  /\ work' = [work EXCEPT ![p] = Nothing]
  /\ locks' = [locks EXCEPT ![p] = {}]

-----------------------------------------------------------------------------
Statement(p) ==
  \/ EnsureEmployee(p)
  \/ LockTicket(p) \/ NextMissed(p) \/ StartBreak(p) \/ StartWork(p) \/ LockEmployee(p)
  \/ LockAssignment(p) \/ LockExpiredCall(p)
  \/ LookForEmployee(p) \/ LookForAssignment(p) \/ LookForTicket(p) \/ LookForCall(p)
  \/ ReadAgain(p)
  \/ \E row \in Todo(p) : Update(p, row) \/ Insert(p, row)
  \/ Commit(p)

\* What a transaction waits for at its first lock, and at its writes.
FirstRow(x) ==
  CASE x.kind \in {"action", "expireCall"}             -> AssignmentRow(x.t)
    [] x.kind \in {"break", "available", "dispatch"} -> EmployeeRow(x.e)
    [] OTHER                                           -> TicketRow(x.t)

Waits(p) ==
  \/ At(p, "lock", Kinds) /\ ~May(p, FirstRow(tx[p]), "lock")
  \/ /\ Todo(p) # {}
     /\ \A row \in Todo(p) :
          IF Inserts(p, row)
          THEN Undecided(p, Head(tx[p].saves)[row]) \/ \E l \in Touches(p, row) : ~May(p, l[1], l[2])
          ELSE ~May(p, row, "write")

\* statement_timeout and PostgreSQL's own search for deadlocks.
LockTimeout(p) == Waits(p) /\ Rollback(p)

\* A plausible bug: the driver's default, to wait for a connection for ever.
NoPoolTimeout(p) == FALSE

\* connectionTimeoutMillis.
PoolTimeout(p) == (At(p, "nested", Kinds) \/ AsksPlace(p)) /\ ~Spare /\ Rollback(p)

Start(p) ==
  \/ \E t \in Tickets, kind \in {"checkIn", "cancel", "missed", "expireCall"} : Begin(p, kind, t, None, None)
  \/ \E e \in Employees, kind \in {"break", "available", "dispatch"} : Begin(p, kind, None, e, None)
  \/ \E t \in Tickets, e \in Employees : \/ Begin(p, "callFromList", t, e, None)
                                         \/ \E act \in Actions : Begin(p, "action", t, e, act)

\* The employees have come and chosen, the clients have not.
Init ==
  /\ \E status \in [Employees -> {"OFFLINE", "AVAILABLE"}] :
       db = [row \in Row |-> CASE row[1] = "ticket"     -> "BOOKED"
                                [] row[1] = "employee"   -> status[row[2]]
                                [] row[1] = "assignment" -> None]
  /\ work = [p \in Processes |-> Nothing]
  /\ locks = [p \in Processes |-> {}]
  /\ tx = [p \in Processes |-> None]

Next == \E p \in Processes : Start(p) \/ Statement(p) \/ LockTimeout(p) \/ PoolTimeout(p)

\* A statement that waits goes on, or one of the timeouts ends it.
Fairness == \A p \in Processes : WF_vars(Statement(p) \/ LockTimeout(p) \/ PoolTimeout(p))

Spec == Init /\ [][Next]_vars /\ Fairness

-----------------------------------------------------------------------------
\* The rows have their types, and no transaction writes a row it has not locked.
TypeOK ==
  /\ \A t \in Tickets : /\ db[TicketRow(t)] \in TicketStatus
                        /\ db[AssignmentRow(t)] \in Employees \cup {None}
  /\ \A e \in Employees : db[EmployeeRow(e)] \in EmployeeStatus
  /\ \A p \in Processes :
       /\ DOMAIN work[p] \subseteq {l[1] : l \in locks[p]}
       /\ tx[p] # None => tx[p].kind \in Kinds /\ tx[p].stage \in Stages /\ Todo(p) \subseteq Row

InHand(t) == db[TicketRow(t)] \in {"ASSIGNED", "CALLED", "IN_SERVICE"}

\* Between transactions a client is with somebody exactly when somebody has the
\* client: no transaction saves a ticket, or an assignment, that another has
\* settled since it was read.
NobodyStranded == \A t \in Tickets : InHand(t) <=> db[AssignmentRow(t)] # None

\* A ticket that is completed, cancelled or missed stays so: no transaction writes
\* the status of a ticket it read before it was closed.
ClosedStaysClosed ==
  [][\A t \in Tickets : db[TicketRow(t)] \in Terminal => UNCHANGED db[TicketRow(t)]]_vars

\* Requests that wait for each other's rows, or for the pool's last connection,
\* do not wait for ever.
EveryTransactionEnds == \A p \in Processes : tx[p] # None ~> tx[p] = None
=============================================================================
