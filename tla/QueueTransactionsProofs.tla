------------------------ MODULE QueueTransactionsProofs ------------------------
(***************************************************************************)
(* The queue's transactions, statement by statement: the types hold, and   *)
(* without breaks no transaction undoes what another has settled.  The     *)
(* argument is about locks.  A transaction that decides about a client     *)
(* holds the row lock of the ticket, or that of the assignment it read,    *)
(* and one that ends an assignment has to write both rows before it        *)
(* commits.                                                                *)
(***************************************************************************)
EXTENDS QueueTransactions, TLAPS

-----------------------------------------------------------------------------
(* Rows, and what is written into them. *)

\* Rows of different tables differ, and a row names one ticket or employee.
LEMMA RowsApart ==
  /\ \A t \in Tickets : TicketRow(t) \in Row /\ AssignmentRow(t) \in Row
  /\ \A e \in Employees : EmployeeRow(e) \in Row
  /\ \A row \in Row : \/ \E t \in Tickets : row = TicketRow(t) \/ row = AssignmentRow(t)
                      \/ \E e \in Employees : row = EmployeeRow(e)
  /\ \A row : row \in AssignmentRows <=> \E t \in Tickets : row = AssignmentRow(t)
  /\ \A t, u : TicketRow(t) # AssignmentRow(u) /\ TicketRow(t) # EmployeeRow(u) /\ AssignmentRow(t) # EmployeeRow(u)
  /\ \A t, u : TicketRow(t) = TicketRow(u) => t = u
  /\ \A t, u : AssignmentRow(t) = AssignmentRow(u) => t = u
  /\ \A t, u : EmployeeRow(t) = EmployeeRow(u) => t = u
  /\ \A t : AssignmentRow(t)[2] = t
BY DEF Row, AssignmentRows, TicketRow, AssignmentRow, EmployeeRow

\* What a row may hold.
Fits(row, v) ==
  /\ \A t \in Tickets : /\ row = TicketRow(t) => v \in TicketStatus
                        /\ row = AssignmentRow(t) => v \in Employees \cup {None}
  /\ \A e \in Employees : row = EmployeeRow(e) => v \in EmployeeStatus

\* Every value fits its row.
AllFit(f) == \A row \in DOMAIN f : Fits(row, f[row])

\* Values that fit make something a transaction may write.
LEMMA FitsWrites ==
  ASSUME NEW rows \in SUBSET Row, NEW f, f = [row \in rows |-> f[row]], \A row \in rows : Fits(row, f[row])
  PROVE  f \in Writes /\ DOMAIN f = rows /\ AllFit(f)
<1> DEFINE V == TicketStatus \cup EmployeeStatus \cup Employees \cup {None}
<1>1. \A row \in rows : f[row] \in V
  BY RowsApart DEF Fits
<1>2. f \in [rows -> V]
  BY <1>1
<1> QED
  BY <1>2 DEF Writes, AllFit

\* Writes are functions on rows.
LEMMA WritesDomain ==
  ASSUME NEW f \in Writes
  PROVE  f = [row \in DOMAIN f |-> f[row]] /\ DOMAIN f \subseteq Row
BY DEF Writes

\* One row.
LEMMA PutFits ==
  ASSUME NEW row \in Row, NEW v, Fits(row, v)
  PROVE  Put(row, v) \in Writes /\ DOMAIN Put(row, v) = {row} /\ Put(row, v)[row] = v /\ AllFit(Put(row, v))
<1>1. DOMAIN Put(row, v) = {row} /\ Put(row, v)[row] = v /\ Put(row, v) = [r \in {row} |-> Put(row, v)[r]]
  BY DEF Put
<1> HIDE DEF Put
<1> QED
  BY <1>1, FitsWrites

\* One set of rows over another.
LEMMA OverFits ==
  ASSUME NEW f \in Writes, NEW g \in Writes
  PROVE  /\ Over(f, g) \in Writes
         /\ DOMAIN Over(f, g) = DOMAIN f \cup DOMAIN g
         /\ \A row \in DOMAIN f : Over(f, g)[row] = f[row]
         /\ \A row \in DOMAIN g \ DOMAIN f : Over(f, g)[row] = g[row]
         /\ AllFit(f) /\ AllFit(g) => AllFit(Over(f, g))
<1> DEFINE V == TicketStatus \cup EmployeeStatus \cup Employees \cup {None}
<1>1. f \in [DOMAIN f -> V] /\ g \in [DOMAIN g -> V] /\ DOMAIN f \subseteq Row /\ DOMAIN g \subseteq Row
  BY DEF Writes
<1>2. Over(f, g) \in [DOMAIN f \cup DOMAIN g -> V]
  BY <1>1 DEF Over
<1>3. /\ DOMAIN Over(f, g) = DOMAIN f \cup DOMAIN g
      /\ \A row \in DOMAIN f : Over(f, g)[row] = f[row]
      /\ \A row \in DOMAIN g \ DOMAIN f : Over(f, g)[row] = g[row]
  BY DEF Over
<1>4. Over(f, g) \in Writes
  BY <1>1, <1>2 DEF Writes
<1>5. AllFit(f) /\ AllFit(g) => AllFit(Over(f, g))
  BY <1>3 DEF AllFit
<1> QED
  BY <1>3, <1>4, <1>5

\* A part of the rows.
LEMMA PartFits ==
  ASSUME NEW f \in Writes, NEW rows \in SUBSET DOMAIN f
  PROVE  /\ [row \in rows |-> f[row]] \in Writes
         /\ AllFit(f) => AllFit([row \in rows |-> f[row]])
BY DEF Writes, AllFit

\* No row.
LEMMA NothingFits == Nothing \in Writes /\ DOMAIN Nothing = {} /\ AllFit(Nothing)
BY DEF Nothing, Writes, AllFit

-----------------------------------------------------------------------------
(* Saves. *)

\* A row that is still to be saved, and what it will be given.
Left(x, row) == \E i \in DOMAIN x.saves : row \in DOMAIN x.saves[i]

\* Every value the row will be given is in S.
PlannedIn(x, row, S) == \A i \in DOMAIN x.saves : row \in DOMAIN x.saves[i] => x.saves[i][row] \in S

\* A transaction without saves leaves nothing to be written.
LEMMA NoSaves ==
  ASSUME NEW x, x.saves = <<>>
  PROVE  \A row : ~Left(x, row) /\ \A S : PlannedIn(x, row, S)
BY DEF Left, PlannedIn

\* One save: what is left, and what is planned, is that save.
LEMMA OneSave ==
  ASSUME NEW x, NEW f, x.saves = <<f>>
  PROVE  \A row : /\ Left(x, row) <=> row \in DOMAIN f
                  /\ \A S : PlannedIn(x, row, S) <=> (row \in DOMAIN f => f[row] \in S)
BY DEF Left, PlannedIn

\* Two saves.
LEMMA TwoSaves ==
  ASSUME NEW x, NEW f, NEW g, x.saves = <<f, g>>
  PROVE  \A row : /\ Left(x, row) <=> row \in DOMAIN f \cup DOMAIN g
                  /\ \A S : PlannedIn(x, row, S) <=>
                       (row \in DOMAIN f => f[row] \in S) /\ (row \in DOMAIN g => g[row] \in S)
<1>1. DOMAIN x.saves = {1, 2} /\ x.saves[1] = f /\ x.saves[2] = g
  OBVIOUS
<1> QED
  BY <1>1 DEF Left, PlannedIn

\* Three saves, as expireCalls has.
LEMMA ThreeSaves ==
  ASSUME NEW x, NEW f, NEW g, NEW h, x.saves = <<f, g, h>>
  PROVE  \A row : /\ Left(x, row) <=> row \in DOMAIN f \cup DOMAIN g \cup DOMAIN h
                  /\ \A S : PlannedIn(x, row, S) <=>
                       /\ row \in DOMAIN f => f[row] \in S
                       /\ row \in DOMAIN g => g[row] \in S
                       /\ row \in DOMAIN h => h[row] \in S
<1>1. DOMAIN x.saves = {1, 2, 3} /\ x.saves[1] = f /\ x.saves[2] = g /\ x.saves[3] = h
  OBVIOUS
<1> QED
  BY <1>1 DEF Left, PlannedIn

\* Only the objects of a transaction's saves that fit are ever written.
Planned(x) == \A i \in DOMAIN x.saves : AllFit(x.saves[i])

\* What is left of the saves once all but some rows of the first are dealt with.
LEMMA RestPlan ==
  ASSUME NEW x \in Transaction, x.saves # <<>>, NEW rows \in SUBSET DOMAIN Head(x.saves)
  PROVE  LET y == Rest(x, rows) IN
         /\ y \in Transaction
         /\ y.kind = x.kind /\ y.t = x.t /\ y.e = x.e /\ y.act = x.act
         /\ y.then = x.then /\ y.holder = x.holder
         /\ \/ y.stage \in {"save", "write"} /\ y.saves # <<>>
            \/ y.stage = x.then /\ y.saves = <<>>
         /\ Planned(x) => Planned(y)
         /\ \A row : /\ Left(y, row) => Left(x, row)
                     /\ Left(x, row) /\ ~Left(y, row) => row \in DOMAIN Head(x.saves) \ rows
                     /\ \A S : PlannedIn(x, row, S) => PlannedIn(y, row, S)
         /\ \A row \in DOMAIN Head(x.saves) :
              Left(x, row) /\ \A S : PlannedIn(x, row, S) => Head(x.saves)[row] \in S
<1> DEFINE s == x.saves
<1> DEFINE y == Rest(x, rows)
<1>1. s \in Seq(Writes) /\ Len(s) \in Nat \ {0} /\ DOMAIN s = 1 .. Len(s) /\ Head(s) = s[1] /\ s[1] \in Writes
  BY DEF Transaction
<1>2. \A row \in DOMAIN Head(s) : Left(x, row) /\ \A S : PlannedIn(x, row, S) => Head(s)[row] \in S
  BY <1>1 DEF Left, PlannedIn
<1>3. CASE rows # {}
  <2> DEFINE f == [row \in rows |-> s[1][row]]
  <2>1. y = [x EXCEPT !.stage = "write", !.saves = [s EXCEPT ![1] = f]]
    BY <1>1, <1>3 DEF Rest, Transaction
  <2>2. f \in Writes /\ (AllFit(s[1]) => AllFit(f)) /\ DOMAIN f = rows
    BY <1>1, PartFits
  <2> HIDE DEF f, y
  <2>3. /\ y.saves \in Seq(Writes) /\ DOMAIN y.saves = 1 .. Len(s) /\ Len(y.saves) = Len(s)
        /\ y.saves[1] = f /\ \A i \in 2 .. Len(s) : y.saves[i] = s[i]
    BY <1>1, <2>1, <2>2 DEF Transaction
  <2>4. /\ y \in Transaction
        /\ y.kind = x.kind /\ y.t = x.t /\ y.e = x.e /\ y.act = x.act
        /\ y.then = x.then /\ y.holder = x.holder /\ y.stage = "write"
    BY <2>1, <2>3 DEF Transaction, Stages
  <2>5. y.saves # <<>>
    BY <1>1, <2>3
  <2>6. Planned(x) => Planned(y)
    <3> SUFFICES ASSUME Planned(x), NEW i \in 1 .. Len(s)
                 PROVE  AllFit(y.saves[i])
      BY <2>3 DEF Planned
    <3>1. CASE i = 1
      BY <1>1, <2>2, <2>3, <3>1 DEF Planned
    <3>2. CASE i # 1
      <4>1. i \in 2 .. Len(s)
        BY <1>1, <3>2
      <4> QED
        BY <1>1, <2>3, <4>1 DEF Planned
    <3> QED
      BY <3>1, <3>2
  <2>7. ASSUME NEW row
        PROVE  /\ Left(y, row) => Left(x, row)
               /\ Left(x, row) /\ ~Left(y, row) => row \in DOMAIN Head(s) \ rows
               /\ \A S : PlannedIn(x, row, S) => PlannedIn(y, row, S)
    <3>1. \A i \in 1 .. Len(s) : /\ row \in DOMAIN y.saves[i] => row \in DOMAIN s[i] /\ y.saves[i][row] = s[i][row]
                                 /\ row \in DOMAIN s[i] /\ row \notin DOMAIN y.saves[i] => i = 1 /\ row \notin rows
      <4> TAKE i \in 1 .. Len(s)
      <4>1. CASE i = 1
        BY <1>1, <2>2, <2>3, <4>1 DEF f
      <4>2. CASE i # 1
        <5>1. i \in 2 .. Len(s)
          BY <1>1, <4>2
        <5> QED
          BY <2>3, <5>1
      <4> QED
        BY <4>1, <4>2
    <3> QED
      BY <1>1, <2>3, <3>1 DEF Left, PlannedIn
  <2> QED
    BY <1>2, <2>4, <2>5, <2>6, <2>7 DEF y
<1>4. CASE rows = {}
  <2>1. y = [x EXCEPT !.saves = Tail(s), !.stage = IF Len(s) = 1 THEN x.then ELSE "save"]
    BY <1>4 DEF Rest
  <2> HIDE DEF y
  <2>2. /\ Tail(s) \in Seq(Writes) /\ DOMAIN Tail(s) = 1 .. Len(s) - 1 /\ Len(Tail(s)) = Len(s) - 1
        /\ \A i \in 1 .. Len(s) - 1 : Tail(s)[i] = s[i + 1]
    BY <1>1
  <2>3. /\ y \in Transaction /\ y.saves = Tail(s)
        /\ y.kind = x.kind /\ y.t = x.t /\ y.e = x.e /\ y.act = x.act
        /\ y.then = x.then /\ y.holder = x.holder
        /\ y.stage = IF Len(s) = 1 THEN x.then ELSE "save"
    BY <2>1, <2>2 DEF Transaction, Stages
  <2>4. \/ y.stage \in {"save", "write"} /\ y.saves # <<>>
        \/ y.stage = x.then /\ y.saves = <<>>
    <3>1. Len(y.saves) = Len(s) - 1
      BY <2>2, <2>3
    <3>2. CASE Len(s) = 1
      <4>1. y.stage = x.then /\ Len(y.saves) = 0 /\ y.saves \in Seq(Writes)
        BY <2>2, <2>3, <3>1, <3>2
      <4> QED
        BY <4>1
    <3>3. CASE Len(s) # 1
      <4>1. y.stage = "save" /\ Len(y.saves) # 0
        BY <1>1, <2>3, <3>1, <3>3
      <4> QED
        BY <4>1
    <3> QED
      BY <3>2, <3>3
  <2>5. \A i \in DOMAIN y.saves : i + 1 \in DOMAIN s /\ y.saves[i] = s[i + 1]
    BY <1>1, <2>2, <2>3
  <2>6. Planned(x) => Planned(y)
    BY <2>5 DEF Planned
  <2>7. ASSUME NEW row
        PROVE  /\ Left(y, row) => Left(x, row)
               /\ Left(x, row) /\ ~Left(y, row) => row \in DOMAIN Head(s) \ rows
               /\ \A S : PlannedIn(x, row, S) => PlannedIn(y, row, S)
    <3>1. Left(x, row) /\ ~Left(y, row) => row \in DOMAIN Head(s)
      <4> SUFFICES ASSUME NEW i \in DOMAIN s, row \in DOMAIN s[i], ~Left(y, row)
                   PROVE  row \in DOMAIN Head(s)
        BY DEF Left
      <4>1. CASE i = 1
        BY <1>1, <4>1
      <4>2. CASE i # 1
        <5>1. i - 1 \in DOMAIN y.saves /\ y.saves[i - 1] = s[i]
          BY <1>1, <2>2, <2>3, <4>2
        <5> QED
          BY <5>1 DEF Left
      <4> QED
        BY <4>1, <4>2
    <3>2. Left(y, row) => Left(x, row)
      BY <2>5 DEF Left
    <3>3. \A S : PlannedIn(x, row, S) => PlannedIn(y, row, S)
      BY <2>5 DEF PlannedIn
    <3> QED
      BY <1>4, <3>1, <3>2, <3>3
  <2> QED
    BY <1>2, <2>3, <2>4, <2>6, <2>7 DEF y
<1> QED
  BY <1>3, <1>4

-----------------------------------------------------------------------------
(* Types. *)

\* The transactions about a ticket, and those about an employee.
OfTicket   == {"checkIn", "cancel", "missed", "expireCall", "callFromList", "action"}
OfEmployee == {"break", "available", "dispatch", "callFromList", "action"}

\* A transaction knows its ticket and its employee, and has saves before it
\* exactly while it saves.
Shaped(x) ==
  /\ Planned(x)
  /\ x.kind \in OfTicket => x.t \in Tickets
  /\ x.kind \in OfEmployee => x.e \in Employees
  /\ x.kind = "action" => x.act \in Actions
  /\ x.stage \in {"save", "write"} <=> x.saves # <<>>
  /\ x.stage = "nested" => x.kind \in {"break", "available", "action", "callFromList"}
  /\ x.stage = "commit" => x.then = "commit"

\* Locks a process may have.
LockSet == SUBSET (Row \X {"lock", "write", "share"})

\* The type invariant in the form the proofs use.
Typed ==
  /\ db \in Writes /\ DOMAIN db = Row /\ AllFit(db)
  /\ work \in [Processes -> Writes] /\ \A p \in Processes : AllFit(work[p])
  /\ locks \in [Processes -> LockSet]
  /\ tx \in [Processes -> Transaction \cup {None}]
  /\ \A p \in Processes : tx[p] # None => Shaped(tx[p])

\* A step of one process leaves the others where they are.
Others(p) ==
  \A q \in Processes \ {p} : tx'[q] = tx[q] /\ work'[q] = work[q] /\ locks'[q] = locks[q]

\* What a save makes of the transaction.
LEMMA SaveShapes ==
  ASSUME Typed, NEW p \in Processes, tx[p] # None,
         NEW saves \in Seq(Writes), \A i \in DOMAIN saves : AllFit(saves[i]),
         NEW then \in {"look", "commit"}, NEW h \in Employees \cup {None},
         Save(p, saves, then, h)
  PROVE  /\ tx' = [tx EXCEPT ![p] = tx'[p]]
         /\ tx'[p] \in Transaction /\ Shaped(tx'[p])
         /\ tx'[p].kind = tx[p].kind /\ tx'[p].t = tx[p].t /\ tx'[p].e = tx[p].e
         /\ tx'[p].saves = saves /\ tx'[p].then = then /\ tx'[p].holder = h
         /\ tx'[p].stage = IF saves = <<>> THEN then ELSE "save"
<1>1. tx[p] \in Transaction /\ Shaped(tx[p])
  BY DEF Typed
<1> DEFINE y == [tx[p] EXCEPT !.stage = IF saves = <<>> THEN then ELSE "save",
                              !.saves = saves, !.then = then, !.holder = h]
<1>2. tx' = [tx EXCEPT ![p] = y] /\ tx'[p] = y
  BY DEF Save, Typed
<1>3. /\ y \in Transaction
      /\ y.kind = tx[p].kind /\ y.t = tx[p].t /\ y.e = tx[p].e /\ y.act = tx[p].act
      /\ y.saves = saves /\ y.then = then /\ y.holder = h
      /\ y.stage = IF saves = <<>> THEN then ELSE "save"
  BY <1>1 DEF Transaction, Stages
<1> HIDE DEF y
<1>4. Shaped(y)
  BY <1>1, <1>3 DEF Shaped, Planned
<1> QED
  BY <1>2, <1>3, <1>4

\* Going on to another stage.
LEMMA ProceedShapes ==
  ASSUME Typed, NEW p \in Processes, tx[p] # None, tx[p].stage \notin {"save", "write"},
         NEW stage \in {"nested", "lock", "look"}, stage = "nested" => tx[p].kind = "callFromList",
         Proceed(p, stage)
  PROVE  /\ tx' = [tx EXCEPT ![p] = tx'[p]]
         /\ tx'[p] \in Transaction /\ Shaped(tx'[p])
         /\ tx'[p].kind = tx[p].kind /\ tx'[p].t = tx[p].t /\ tx'[p].e = tx[p].e
         /\ tx'[p].saves = tx[p].saves /\ tx'[p].stage = stage
<1>1. tx[p] \in Transaction /\ Shaped(tx[p])
  BY DEF Typed
<1> DEFINE y == [tx[p] EXCEPT !.stage = stage]
<1>2. tx' = [tx EXCEPT ![p] = y] /\ tx'[p] = y
  BY DEF Proceed, Typed
<1>3. /\ y \in Transaction
      /\ y.kind = tx[p].kind /\ y.t = tx[p].t /\ y.e = tx[p].e /\ y.act = tx[p].act
      /\ y.saves = tx[p].saves /\ y.stage = stage
  BY <1>1 DEF Transaction, Stages
<1> HIDE DEF y
<1>4. Shaped(y)
  BY <1>1, <1>3 DEF Shaped, Planned
<1> QED
  BY <1>1, <1>2, <1>3, <1>4

\* The first statement.
LEMMA BeginShapes ==
  ASSUME Typed, NEW p \in Processes, NEW kind, NEW t \in Tickets \cup {None},
         NEW e \in Employees \cup {None}, NEW act \in Actions \cup {None},
         kind \in OfTicket => t \in Tickets, kind \in OfEmployee => e \in Employees,
         kind = "action" => act \in Actions,
         Begin(p, kind, t, e, act)
  PROVE  /\ tx' = [tx EXCEPT ![p] = tx'[p]]
         /\ tx'[p] \in Transaction /\ Shaped(tx'[p])
         /\ tx'[p].kind = kind /\ tx'[p].t = t /\ tx'[p].e = e /\ tx'[p].saves = <<>>
         /\ tx'[p].stage = IF kind \in {"break", "available", "action"} THEN "nested" ELSE "lock"
<1>1. tx'[p] = [kind |-> kind, t |-> t, e |-> e, act |-> act,
                stage |-> IF kind \in {"break", "available", "action"} THEN "nested" ELSE "lock",
                saves |-> <<>>, then |-> "commit", holder |-> None]
      /\ tx' = [tx EXCEPT ![p] = tx'[p]] /\ kind \in Kinds
  BY DEF Begin, Typed
<1>2. tx'[p] \in Transaction
  BY <1>1 DEF Transaction, Stages
<1> QED
  BY <1>1, <1>2 DEF Shaped, Planned

\* The types hold after a step of p that keeps those of its own part.
LEMMA TypedAfter ==
  ASSUME Typed, NEW p \in Processes,
         \/ db' = db
         \/ db' \in Writes /\ DOMAIN db' = Row /\ AllFit(db'),
         \/ work' = work
         \/ \E w \in Writes : AllFit(w) /\ work' = [work EXCEPT ![p] = w],
         \/ locks' = locks
         \/ \E l \in LockSet : locks' = [locks EXCEPT ![p] = l],
         tx' = [tx EXCEPT ![p] = tx'[p]],
         tx'[p] = None \/ (tx'[p] \in Transaction /\ Shaped(tx'[p]))
  PROVE  Typed' /\ Others(p)
<1>1. db' \in Writes /\ DOMAIN db' = Row /\ AllFit(db')
  BY DEF Typed
<1>2. /\ work' \in [Processes -> Writes] /\ \A q \in Processes : AllFit(work'[q])
      /\ \A q \in Processes \ {p} : work'[q] = work[q]
  BY DEF Typed
<1>3. locks' \in [Processes -> LockSet] /\ \A q \in Processes \ {p} : locks'[q] = locks[q]
  BY DEF Typed
<1>4. \A q \in Processes \ {p} : tx'[q] = tx[q]
  BY DEF Typed
<1>5. tx' \in [Processes -> Transaction \cup {None}]
  BY DEF Typed
<1>6. \A q \in Processes : tx'[q] # None => Shaped(tx'[q])
  BY <1>4 DEF Typed
<1> QED
  BY <1>1, <1>2, <1>3, <1>4, <1>5, <1>6 DEF Typed, Others

\* Values of the three tables fit their rows.
LEMMA RowFits ==
  /\ \A t \in Tickets : \A v \in TicketStatus : Fits(TicketRow(t), v)
  /\ \A t \in Tickets : \A v \in Employees \cup {None} : Fits(AssignmentRow(t), v)
  /\ \A e \in Employees : \A v \in EmployeeStatus : Fits(EmployeeRow(e), v)
BY RowsApart DEF Fits

\* What is read fits as well.
LEMMA SeenFits ==
  ASSUME Typed, NEW p \in Processes
  PROVE  /\ \A row \in Row : See(p, row) \in UNION {{db[row]}, IF row \in DOMAIN work[p] THEN {work[p][row]} ELSE {}}
         /\ \A t \in Tickets : db[TicketRow(t)] \in TicketStatus /\ Status(p, t) \in TicketStatus
         /\ \A t \in Tickets : db[AssignmentRow(t)] \in Employees \cup {None} /\ Holder(p, t) \in Employees \cup {None}
         /\ \A e \in Employees : db[EmployeeRow(e)] \in EmployeeStatus
         /\ \A e : Active(p, e) \subseteq Tickets
BY RowsApart DEF Typed, AllFit, Fits, See, Status, Holder, Active

\* One row of each table, as the saves have them.
LEMMA PutRows ==
  /\ \A t \in Tickets : \A v \in TicketStatus :
       LET f == Put(TicketRow(t), v) IN
       f \in Writes /\ AllFit(f) /\ DOMAIN f = {TicketRow(t)} /\ f[TicketRow(t)] = v
  /\ \A t \in Tickets : \A v \in Employees \cup {None} :
       LET f == Put(AssignmentRow(t), v) IN
       f \in Writes /\ AllFit(f) /\ DOMAIN f = {AssignmentRow(t)} /\ f[AssignmentRow(t)] = v
  /\ \A e \in Employees : \A v \in EmployeeStatus :
       LET f == Put(EmployeeRow(e), v) IN
       f \in Writes /\ AllFit(f) /\ DOMAIN f = {EmployeeRow(e)} /\ f[EmployeeRow(e)] = v
BY RowsApart, RowFits, PutFits

\* The rows an assignment writes.
LEMMA AssignRows ==
  ASSUME NEW t \in Tickets, NEW e \in Employees
  PROVE  LET f == Assign(t, e) IN
         /\ f \in Writes /\ AllFit(f)
         /\ DOMAIN f = {TicketRow(t), EmployeeRow(e), AssignmentRow(t)}
         /\ f[TicketRow(t)] = "ASSIGNED" /\ f[AssignmentRow(t)] = e
<1> DEFINE a == Put(TicketRow(t), "ASSIGNED")
<1> DEFINE b == Put(EmployeeRow(e), "RESERVED")
<1> DEFINE c == Put(AssignmentRow(t), e)
<1>1. a \in Writes /\ AllFit(a) /\ DOMAIN a = {TicketRow(t)} /\ a[TicketRow(t)] = "ASSIGNED"
  BY PutRows DEF TicketStatus
<1>2. b \in Writes /\ AllFit(b) /\ DOMAIN b = {EmployeeRow(e)}
  BY PutRows DEF EmployeeStatus
<1>3. c \in Writes /\ AllFit(c) /\ DOMAIN c = {AssignmentRow(t)} /\ c[AssignmentRow(t)] = e
  BY PutRows
<1>4. Assign(t, e) = Over(a, Over(b, c))
  BY DEF Assign
<1> HIDE DEF a, b, c
<1>5. /\ Over(b, c) \in Writes /\ AllFit(Over(b, c)) /\ DOMAIN Over(b, c) = {EmployeeRow(e), AssignmentRow(t)}
      /\ Over(b, c)[AssignmentRow(t)] = e
  <2>1. AssignmentRow(t) # EmployeeRow(e)
    BY RowsApart
  <2>2. /\ Over(b, c) \in Writes /\ DOMAIN Over(b, c) = DOMAIN b \cup DOMAIN c
        /\ \A row \in DOMAIN b : Over(b, c)[row] = b[row]
        /\ \A row \in DOMAIN c \ DOMAIN b : Over(b, c)[row] = c[row]
        /\ AllFit(b) /\ AllFit(c) => AllFit(Over(b, c))
    BY <1>2, <1>3, OverFits
  <2> QED
    BY <1>2, <1>3, <2>1, <2>2
<1>6. TicketRow(t) # EmployeeRow(e) /\ TicketRow(t) # AssignmentRow(t)
  BY RowsApart
<1>7. LET f == Over(a, Over(b, c)) IN
      /\ f \in Writes /\ AllFit(f)
      /\ DOMAIN f = {TicketRow(t), EmployeeRow(e), AssignmentRow(t)}
      /\ f[TicketRow(t)] = "ASSIGNED" /\ f[AssignmentRow(t)] = e
  <2> DEFINE d == Over(b, c)
  <2> HIDE DEF d
  <2>1. d \in Writes /\ AllFit(d) /\ DOMAIN d = {EmployeeRow(e), AssignmentRow(t)} /\ d[AssignmentRow(t)] = e
    BY <1>5 DEF d
  <2>2. /\ Over(a, d) \in Writes /\ DOMAIN Over(a, d) = DOMAIN a \cup DOMAIN d
        /\ \A row \in DOMAIN a : Over(a, d)[row] = a[row]
        /\ \A row \in DOMAIN d \ DOMAIN a : Over(a, d)[row] = d[row]
        /\ AllFit(a) /\ AllFit(d) => AllFit(Over(a, d))
    BY <1>1, <2>1, OverFits
  <2>3. Over(a, d) \in Writes /\ AllFit(Over(a, d)) /\ DOMAIN Over(a, d) = {TicketRow(t), EmployeeRow(e), AssignmentRow(t)}
    BY <1>1, <2>1, <2>2
  <2>4. Over(a, d)[TicketRow(t)] = "ASSIGNED" /\ Over(a, d)[AssignmentRow(t)] = e
    BY <1>1, <1>6, <2>1, <2>2
  <2> QED
    BY <2>3, <2>4 DEF d
<1> QED
  BY <1>4, <1>7

\* The rows assignmentAction writes.
LEMMA SavedRows ==
  ASSUME Typed, NEW t \in Tickets, NEW e \in Employees, NEW act \in Actions, NEW next \in TicketStatus
  PROVE  LET f == Saved(t, e, act, next) IN
         /\ f \in Writes /\ AllFit(f)
         /\ DOMAIN f = {TicketRow(t), EmployeeRow(e)}
                       \cup (IF act \in {"CALL", "START"} THEN {} ELSE {AssignmentRow(t)})
         /\ f[TicketRow(t)] = next
         /\ act \notin {"CALL", "START"} => f[AssignmentRow(t)] = None
<1> DEFINE v == CASE act = "START" -> "BUSY"
                  [] act = "CALL"  -> db[EmployeeRow(e)]
                  [] OTHER         -> "AVAILABLE"
<1> DEFINE a == Put(TicketRow(t), next)
<1> DEFINE b == Put(EmployeeRow(e), v)
<1> DEFINE c == IF act \in {"CALL", "START"} THEN Nothing ELSE Put(AssignmentRow(t), None)
<1>1. a \in Writes /\ AllFit(a) /\ DOMAIN a = {TicketRow(t)} /\ a[TicketRow(t)] = next
  BY PutRows
<1>2. v \in EmployeeStatus
  <2>1. db[EmployeeRow(e)] \in EmployeeStatus
    BY RowsApart DEF Typed, AllFit, Fits
  <2> QED
    BY <2>1 DEF EmployeeStatus
<1>3. Saved(t, e, act, next) = Over(a, Over(b, c))
  BY DEF Saved
<1> HIDE DEF v
<1>4. b \in Writes /\ AllFit(b) /\ DOMAIN b = {EmployeeRow(e)}
  BY <1>2, PutRows
<1>5. /\ c \in Writes /\ AllFit(c)
      /\ DOMAIN c = IF act \in {"CALL", "START"} THEN {} ELSE {AssignmentRow(t)}
      /\ act \notin {"CALL", "START"} => c[AssignmentRow(t)] = None
  BY PutRows, NothingFits
<1> HIDE DEF a, b, c
<1>6. /\ Over(b, c) \in Writes /\ AllFit(Over(b, c)) /\ DOMAIN Over(b, c) = {EmployeeRow(e)} \cup DOMAIN c
      /\ act \notin {"CALL", "START"} => Over(b, c)[AssignmentRow(t)] = None
  <2>1. AssignmentRow(t) # EmployeeRow(e)
    BY RowsApart
  <2>2. /\ Over(b, c) \in Writes /\ DOMAIN Over(b, c) = DOMAIN b \cup DOMAIN c
        /\ \A row \in DOMAIN b : Over(b, c)[row] = b[row]
        /\ \A row \in DOMAIN c \ DOMAIN b : Over(b, c)[row] = c[row]
        /\ AllFit(b) /\ AllFit(c) => AllFit(Over(b, c))
    BY <1>4, <1>5, OverFits
  <2> QED
    BY <1>4, <1>5, <2>1, <2>2
<1>7. TicketRow(t) # EmployeeRow(e) /\ TicketRow(t) # AssignmentRow(t)
  BY RowsApart
<1>8. LET f == Over(a, Over(b, c)) IN
      /\ f \in Writes /\ AllFit(f)
      /\ DOMAIN f = {TicketRow(t), EmployeeRow(e)} \cup DOMAIN c
      /\ f[TicketRow(t)] = next
      /\ act \notin {"CALL", "START"} => f[AssignmentRow(t)] = None
  <2> DEFINE d == Over(b, c)
  <2> HIDE DEF d
  <2>1. /\ d \in Writes /\ AllFit(d) /\ DOMAIN d = {EmployeeRow(e)} \cup DOMAIN c
        /\ act \notin {"CALL", "START"} => d[AssignmentRow(t)] = None
    BY <1>6 DEF d
  <2>2. /\ Over(a, d) \in Writes /\ DOMAIN Over(a, d) = DOMAIN a \cup DOMAIN d
        /\ \A row \in DOMAIN a : Over(a, d)[row] = a[row]
        /\ \A row \in DOMAIN d \ DOMAIN a : Over(a, d)[row] = d[row]
        /\ AllFit(a) /\ AllFit(d) => AllFit(Over(a, d))
    BY <1>1, <2>1, OverFits
  <2>3. Over(a, d) \in Writes /\ AllFit(Over(a, d)) /\ DOMAIN Over(a, d) = {TicketRow(t), EmployeeRow(e)} \cup DOMAIN c
    BY <1>1, <2>1, <2>2
  <2>4. Over(a, d)[TicketRow(t)] = next /\ (act \notin {"CALL", "START"} => Over(a, d)[AssignmentRow(t)] = None)
    BY <1>1, <1>5, <1>7, <2>1, <2>2
  <2> QED
    BY <2>3, <2>4 DEF d
<1> QED
  BY <1>3, <1>5, <1>8

-----------------------------------------------------------------------------
(* What each statement does. *)

\* The transaction is gone, with its writes and its locks.
Rolled(p) == db' = db /\ tx'[p] = None /\ work'[p] = Nothing /\ locks'[p] = {}

\* The transaction goes on, and has written no more than before.
GoesOn(p) ==
  /\ db' = db /\ work'[p] = work[p]
  /\ tx'[p] # None /\ tx'[p] \in Transaction
  /\ tx'[p].kind = tx[p].kind /\ tx'[p].t = tx[p].t /\ tx'[p].e = tx[p].e

\* It goes on to some saves.
Saving(p, saves, then, h) ==
  /\ GoesOn(p)
  /\ tx'[p].saves = saves /\ tx'[p].then = then /\ tx'[p].holder = h
  /\ tx'[p].stage = IF saves = <<>> THEN then ELSE "save"

\* It goes on to another stage with the saves it had.
Staying(p, stage) == GoesOn(p) /\ tx'[p].saves = tx[p].saves /\ tx'[p].stage = stage

\* It takes locks that nobody minds.
Gets(p, rows) == locks'[p] = locks[p] \cup rows /\ \A l \in rows : May(p, l[1], l[2])

\* A rollback keeps the types and ends the transaction.
LEMMA RollbackDoes ==
  ASSUME Typed, NEW p \in Processes, Rollback(p)
  PROVE  Typed' /\ Others(p) /\ Rolled(p)
<1>1. tx' = [tx EXCEPT ![p] = tx'[p]] /\ tx'[p] = None
  BY DEF Rollback, Typed
<1>2. work' = [work EXCEPT ![p] = Nothing] /\ work'[p] = Nothing
  BY DEF Rollback, Typed
<1>3. locks' = [locks EXCEPT ![p] = {}] /\ locks'[p] = {} /\ {} \in LockSet
  BY DEF Rollback, Typed, LockSet
<1>4. db' = db
  BY DEF Rollback
<1>5. Typed' /\ Others(p)
  <2>1. \E w \in Writes : AllFit(w) /\ work' = [work EXCEPT ![p] = w]
    BY <1>2, NothingFits
  <2>2. \E l \in LockSet : locks' = [locks EXCEPT ![p] = l]
    BY <1>3
  <2> QED
    BY <1>1, <1>4, <2>1, <2>2, TypedAfter
<1> QED
  BY <1>1, <1>2, <1>3, <1>4, <1>5 DEF Rolled

\* Locks are added to those of the process.
LEMMA LockDoes ==
  ASSUME Typed, NEW p \in Processes, NEW rows \in LockSet, Lock(p, rows)
  PROVE  \E l \in LockSet : l = locks[p] \cup rows /\ locks' = [locks EXCEPT ![p] = l] /\ locks'[p] = l
<1>1. locks[p] \cup rows \in LockSet
  BY DEF Typed, LockSet
<1>2. locks' = [locks EXCEPT ![p] = locks[p] \cup rows] /\ locks'[p] = locks[p] \cup rows
  BY DEF Lock, Typed
<1> QED
  BY <1>1, <1>2

\* A step that saves or goes on, and may take locks.
LEMMA SaveDoes ==
  ASSUME Typed, NEW p \in Processes, tx[p] # None,
         NEW saves \in Seq(Writes), \A i \in DOMAIN saves : AllFit(saves[i]),
         NEW then \in {"look", "commit"}, NEW h \in Employees \cup {None},
         Save(p, saves, then, h), UNCHANGED <<db, work>>,
         UNCHANGED locks \/ \E rows \in LockSet : Lock(p, rows)
  PROVE  Typed' /\ Others(p) /\ Saving(p, saves, then, h)
<1>1. /\ tx' = [tx EXCEPT ![p] = tx'[p]] /\ tx'[p] \in Transaction /\ Shaped(tx'[p])
      /\ tx'[p].kind = tx[p].kind /\ tx'[p].t = tx[p].t /\ tx'[p].e = tx[p].e
      /\ tx'[p].saves = saves /\ tx'[p].then = then /\ tx'[p].holder = h
      /\ tx'[p].stage = IF saves = <<>> THEN then ELSE "save"
  BY SaveShapes
<1>2. locks' = locks \/ \E l \in LockSet : locks' = [locks EXCEPT ![p] = l]
  BY LockDoes
<1>3. Typed' /\ Others(p)
  BY <1>1, <1>2, TypedAfter
<1> QED
  BY <1>1, <1>3, TransactionsAssumption DEF Saving, GoesOn

\* A step that goes on to another statement, and may take locks.
LEMMA ProceedDoes ==
  ASSUME Typed, NEW p \in Processes, tx[p] # None, tx[p].stage \notin {"save", "write"},
         NEW stage \in {"nested", "lock", "look"}, stage = "nested" => tx[p].kind = "callFromList",
         Proceed(p, stage), UNCHANGED <<db, work>>,
         UNCHANGED locks \/ \E rows \in LockSet : Lock(p, rows)
  PROVE  Typed' /\ Others(p) /\ Staying(p, stage)
<1>1. /\ tx' = [tx EXCEPT ![p] = tx'[p]] /\ tx'[p] \in Transaction /\ Shaped(tx'[p])
      /\ tx'[p].kind = tx[p].kind /\ tx'[p].t = tx[p].t /\ tx'[p].e = tx[p].e
      /\ tx'[p].saves = tx[p].saves /\ tx'[p].stage = stage
  BY ProceedShapes
<1>2. locks' = locks \/ \E l \in LockSet : locks' = [locks EXCEPT ![p] = l]
  BY LockDoes
<1>3. Typed' /\ Others(p)
  BY <1>1, <1>2, TypedAfter
<1> QED
  BY <1>1, <1>3, TransactionsAssumption DEF Staying, GoesOn

\* What a process knows of its transaction.
LEMMA OfTx ==
  ASSUME Typed, NEW p \in Processes, tx[p] # None
  PROVE  /\ tx[p] \in Transaction /\ Shaped(tx[p]) /\ tx[p].kind \in Kinds
         /\ tx[p].kind \in OfTicket => tx[p].t \in Tickets /\ TicketRow(tx[p].t) \in Row /\ AssignmentRow(tx[p].t) \in Row
         /\ tx[p].kind \in OfEmployee => tx[p].e \in Employees /\ EmployeeRow(tx[p].e) \in Row
         /\ tx[p].kind = "action" => tx[p].act \in Actions
BY RowsApart DEF Typed, Shaped, Transaction

\* A lock of a row.
LEMMA LockFits ==
  ASSUME NEW row \in Row
  PROVE  {<<row, "lock">>} \in LockSet /\ {<<row, "write">>} \in LockSet
BY DEF LockSet

\* Taking it.
LEMMA GetsOne ==
  ASSUME Typed, NEW p \in Processes, NEW row \in Row, May(p, row, "lock"), Lock(p, {<<row, "lock">>})
  PROVE  Gets(p, {<<row, "lock">>})
<1>1. locks'[p] = locks[p] \cup {<<row, "lock">>}
  BY LockFits, LockDoes
<1> QED
  BY <1>1 DEF Gets

\* A transaction that starts has written, saved and locked nothing.
LEMMA BeginDoes ==
  ASSUME Typed, NEW p \in Processes, Start(p)
  PROVE  /\ Typed' /\ Others(p)
         /\ tx[p] = None /\ tx'[p] # None /\ UNCHANGED <<db, work, locks>>
         /\ tx'[p].saves = <<>> /\ tx'[p].stage \in {"nested", "lock"}
         /\ tx'[p].stage = "nested" => tx'[p].kind \in {"break", "available", "action"}
<1>1. ASSUME NEW kind, NEW t \in Tickets \cup {None}, NEW e \in Employees \cup {None}, NEW act \in Actions \cup {None},
             kind \in OfTicket => t \in Tickets, kind \in OfEmployee => e \in Employees,
             kind = "action" => act \in Actions, Begin(p, kind, t, e, act)
      PROVE  /\ Typed' /\ Others(p)
             /\ tx[p] = None /\ tx'[p] # None /\ UNCHANGED <<db, work, locks>>
             /\ tx'[p].saves = <<>> /\ tx'[p].stage \in {"nested", "lock"}
             /\ tx'[p].stage = "nested" => tx'[p].kind \in {"break", "available", "action"}
  <2>1. /\ tx' = [tx EXCEPT ![p] = tx'[p]]
        /\ tx'[p] \in Transaction /\ Shaped(tx'[p])
        /\ tx'[p].kind = kind /\ tx'[p].saves = <<>>
        /\ tx'[p].stage = IF kind \in {"break", "available", "action"} THEN "nested" ELSE "lock"
    BY <1>1, BeginShapes
  <2>2. tx[p] = None /\ UNCHANGED <<db, work, locks>>
    BY <1>1 DEF Begin
  <2>3. Typed' /\ Others(p)
    BY <2>1, <2>2, TypedAfter
  <2> QED
    BY <2>1, <2>2, <2>3, TransactionsAssumption
<1>2. ASSUME NEW t \in Tickets, NEW kind \in {"checkIn", "cancel", "missed", "expireCall"}, Begin(p, kind, t, None, None)
      PROVE  /\ kind \notin OfEmployee /\ kind # "action"
  BY <1>2 DEF OfEmployee
<1>3. ASSUME NEW e \in Employees, NEW kind \in {"break", "available", "dispatch"}, Begin(p, kind, None, e, None)
      PROVE  /\ kind \notin OfTicket /\ kind # "action"
  BY <1>3 DEF OfTicket
<1> QED
  BY <1>1, <1>2, <1>3 DEF Start

\* ensureEmployee changes nothing but the stage.
LEMMA EnsureEmployeeDoes ==
  ASSUME Typed, NEW p \in Processes, EnsureEmployee(p)
  PROVE  /\ Typed' /\ Others(p)
         /\ tx[p] # None /\ tx[p].stage = "nested" /\ locks' = locks
         /\ Staying(p, IF tx[p].kind = "callFromList" THEN "look" ELSE "lock")
<1>1. /\ tx[p] # None /\ tx[p].stage = "nested" /\ UNCHANGED <<db, work, locks>>
      /\ Proceed(p, IF tx[p].kind = "callFromList" THEN "look" ELSE "lock")
  BY DEF EnsureEmployee, At
<1> QED
  BY <1>1, ProceedDoes

\* Nothing left to save.
LEMMA SaveNoneDoes ==
  ASSUME Typed, NEW p \in Processes, tx[p] # None, NEW h \in Employees \cup {None},
         Save(p, <<>>, "commit", h), UNCHANGED <<db, work>>,
         UNCHANGED locks \/ \E rows \in LockSet : Lock(p, rows)
  PROVE  Typed' /\ Others(p) /\ Saving(p, <<>>, "commit", h)
<1>1. <<>> \in Seq(Writes) /\ \A i \in DOMAIN <<>> : AllFit(<<>>[i])
  OBVIOUS
<1> QED
  BY <1>1, SaveDoes

\* checkInByHash, cancelTicketByHash, markMissedAppointments and setTicketStatus: a
\* rollback, or the lock of an acceptable ticket and its new status, or that of a
\* ticket the sweep passes over.
LEMMA LockTicketDoes ==
  ASSUME Typed, NEW p \in Processes, LockTicket(p)
  PROVE  LET x == tx[p] row == TicketRow(x.t) IN
         /\ Typed' /\ Others(p)
         /\ x # None /\ x.stage = "lock" /\ x.t \in Tickets
         /\ x.kind \in {"checkIn", "cancel", "missed", "callFromList"}
         /\ \/ Rolled(p)
            \/ /\ Gets(p, {<<row, "lock">>})
               /\ x.kind = "missed" /\ Saving(p, <<>>, "commit", None)
            \/ /\ Status(p, x.t) \in Accepted(x.kind)
               /\ Gets(p, {<<row, "lock">>})
               /\ \/ x.kind = "callFromList" /\ Staying(p, "nested")
                  \/ x.kind # "callFromList" /\ Saving(p, <<Put(row, Becomes(x.kind))>>, "look", None)
<1> DEFINE x == tx[p]
<1> DEFINE row == TicketRow(x.t)
<1>1. /\ x # None /\ x.stage = "lock" /\ x.kind \in {"checkIn", "cancel", "missed", "callFromList"}
      /\ May(p, row, "lock")
  BY DEF LockTicket, At
<1>2. x.t \in Tickets /\ row \in Row
  BY <1>1, OfTx DEF OfTicket
<1>3. CASE Rollback(p)
  BY <1>1, <1>2, <1>3, RollbackDoes
<1>4. CASE ~Rollback(p) /\ Status(p, x.t) \notin Accepted(x.kind)
  <2>1. /\ x.kind = "missed" /\ Save(p, <<>>, "commit", None)
        /\ Lock(p, {<<row, "lock">>}) /\ UNCHANGED <<db, work>>
    BY <1>4 DEF LockTicket
  <2>2. {<<row, "lock">>} \in LockSet /\ Gets(p, {<<row, "lock">>})
    BY <1>1, <1>2, <2>1, LockFits, GetsOne
  <2>3. Typed' /\ Others(p) /\ Saving(p, <<>>, "commit", None)
    BY <1>1, <2>1, <2>2, SaveNoneDoes
  <2> QED
    BY <1>1, <1>2, <2>1, <2>2, <2>3
<1>5. CASE ~Rollback(p) /\ Status(p, x.t) \in Accepted(x.kind)
  <2>1. /\ Lock(p, {<<row, "lock">>}) /\ UNCHANGED <<db, work>>
        /\ IF x.kind = "callFromList" THEN Proceed(p, "nested")
           ELSE Save(p, <<Put(row, Becomes(x.kind))>>, "look", None)
    BY <1>5 DEF LockTicket
  <2>2. {<<row, "lock">>} \in LockSet
    BY <1>2, LockFits
  <2>3. Gets(p, {<<row, "lock">>})
    BY <1>1, <1>2, <2>1, GetsOne
  <2>4. CASE x.kind = "callFromList"
    <3>1. Typed' /\ Others(p) /\ Staying(p, "nested")
      BY <1>1, <2>1, <2>2, <2>4, ProceedDoes
    <3> QED
      BY <1>1, <1>2, <1>5, <2>3, <2>4, <3>1
  <2>5. CASE x.kind # "callFromList"
    <3> DEFINE f == Put(row, Becomes(x.kind))
    <3>1. Becomes(x.kind) \in TicketStatus
      BY <1>1, <2>5 DEF Becomes, TicketStatus
    <3>2. f \in Writes /\ AllFit(f)
      BY <1>2, <3>1, PutRows
    <3> HIDE DEF f
    <3>3. <<f>> \in Seq(Writes) /\ \A i \in DOMAIN <<f>> : AllFit(<<f>>[i])
      BY <3>2
    <3>4. Save(p, <<f>>, "look", None)
      BY <2>1, <2>5 DEF f
    <3>5. Typed' /\ Others(p) /\ Saving(p, <<f>>, "look", None)
      BY <1>1, <2>1, <2>2, <3>3, <3>4, SaveDoes
    <3> QED
      BY <1>1, <1>2, <1>5, <2>3, <2>5, <3>5 DEF f
  <2> QED
    BY <2>4, <2>5
<1> QED
  BY <1>3, <1>4, <1>5

\* The next turn of the sweep: another ticket, nothing written and nothing locked.
LEMMA NextMissedDoes ==
  ASSUME Typed, NEW p \in Processes, NextMissed(p)
  PROVE  /\ Typed' /\ Others(p)
         /\ tx[p] # None /\ tx[p].stage = "commit" /\ tx[p].kind = "missed" /\ tx[p].saves = <<>>
         /\ tx'[p] # None /\ tx'[p].stage = "lock" /\ tx'[p].kind = "missed" /\ tx'[p].saves = <<>>
         /\ tx'[p].t \in Tickets /\ <<TicketRow(tx'[p].t), "lock">> \notin locks[p]
         /\ UNCHANGED <<db, work, locks>>
<1>1. /\ tx[p] # None /\ tx[p].stage = "commit" /\ tx[p].kind = "missed"
      /\ UNCHANGED <<db, work, locks>>
  BY DEF NextMissed, At
<1>2. PICK t \in Tickets : /\ <<TicketRow(t), "lock">> \notin locks[p]
                           /\ tx' = [tx EXCEPT ![p] = [@ EXCEPT !.t = t, !.stage = "lock"]]
  BY DEF NextMissed
<1>3. tx[p] \in Transaction /\ Shaped(tx[p]) /\ tx[p].saves = <<>>
  BY <1>1, OfTx DEF Shaped
<1> DEFINE y == [tx[p] EXCEPT !.t = t, !.stage = "lock"]
<1>4. tx' = [tx EXCEPT ![p] = y] /\ tx'[p] = y
  BY <1>2 DEF Typed
<1>5. /\ y \in Transaction /\ y.kind = "missed" /\ y.t = t /\ y.e = tx[p].e /\ y.act = tx[p].act
      /\ y.saves = <<>> /\ y.stage = "lock"
  BY <1>1, <1>3 DEF Transaction, Stages
<1> HIDE DEF y
<1>6. Shaped(y)
  BY <1>3, <1>5 DEF Shaped, Planned, OfEmployee
<1>7. Typed' /\ Others(p)
  BY <1>1, <1>4, <1>5, <1>6, TypedAfter
<1> QED
  BY <1>1, <1>2, <1>3, <1>4, <1>5, <1>7, TransactionsAssumption

\* A break: the client in hand is sent back to the queue, then the pause.
LEMMA StartBreakDoes ==
  ASSUME Typed, NEW p \in Processes, StartBreak(p)
  PROVE  /\ Typed' /\ Others(p)
         /\ tx[p] # None /\ tx[p].kind = "break"
         /\ \/ Rolled(p)
            \/ GoesOn(p) /\ Gets(p, {<<EmployeeRow(tx[p].e), "lock">>})
<1> DEFINE e == tx[p].e
<1> DEFINE row == EmployeeRow(e)
<1>1. tx[p] # None /\ tx[p].kind = "break"
  BY DEF StartBreak, At
<1>2. e \in Employees /\ row \in Row
  BY <1>1, OfTx DEF OfEmployee
<1> DEFINE f == Put(row, "PAUSED")
<1>3. f \in Writes /\ AllFit(f)
  BY <1>2, PutRows DEF EmployeeStatus
<1>4. CASE Rollback(p)
  BY <1>1, <1>4, RollbackDoes
<1>5. Lock(p, {<<row, "lock">>}) /\ May(p, row, "lock") => Gets(p, {<<row, "lock">>})
  BY <1>1, <1>2, GetsOne
<1>6. CASE Lock(p, {<<row, "lock">>}) /\ May(p, row, "lock") /\ UNCHANGED <<db, work>> /\ Save(p, <<f>>, "commit", None)
  <2> HIDE DEF f
  <2>1. <<f>> \in Seq(Writes) /\ \A i \in DOMAIN <<f>> : AllFit(<<f>>[i])
    BY <1>3
  <2>2. Typed' /\ Others(p) /\ Saving(p, <<f>>, "commit", None)
    BY <1>1, <1>2, <1>6, <2>1, LockFits, SaveDoes
  <2> QED
    BY <1>1, <1>2, <1>6, <1>5, <2>2 DEF Saving
<1>7. ASSUME NEW t \in Active(p, e),
             Lock(p, {<<row, "lock">>}), UNCHANGED <<db, work>>, Save(p, <<Released(t), f>>, "commit", e)
      PROVE  Typed' /\ Others(p) /\ GoesOn(p)
  <2> DEFINE g == Put(AssignmentRow(t), None)
  <2> DEFINE h == IF CanReleaseOnBreak(db[TicketRow(t)]) THEN Put(TicketRow(t), "REQUEUED") ELSE Nothing
  <2>1. t \in Tickets
    BY DEF Active
  <2>2. g \in Writes /\ AllFit(g) /\ h \in Writes /\ AllFit(h)
    BY <2>1, PutRows, NothingFits DEF TicketStatus
  <2>3. Released(t) = Over(g, h)
    BY DEF Released
  <2> DEFINE r == Released(t)
  <2> HIDE DEF f, g, h
  <2>4. r \in Writes /\ AllFit(r)
    BY <2>2, <2>3, OverFits
  <2> HIDE DEF r
  <2>5. <<r, f>> \in Seq(Writes) /\ \A i \in DOMAIN <<r, f>> : AllFit(<<r, f>>[i])
    BY <1>3, <2>4
  <2>6. Save(p, <<r, f>>, "commit", e)
    BY <1>7 DEF r
  <2>7. Typed' /\ Others(p) /\ Saving(p, <<r, f>>, "commit", e)
    BY <1>1, <1>2, <1>7, <2>5, <2>6, LockFits, SaveDoes
  <2> QED
    BY <2>7 DEF Saving
<1>8. \/ Rollback(p)
      \/ /\ May(p, row, "lock") /\ Lock(p, {<<row, "lock">>}) /\ UNCHANGED <<db, work>>
         /\ \/ Save(p, <<f>>, "commit", None)
            \/ \E t \in Active(p, e) : Save(p, <<Released(t), f>>, "commit", e)
  BY DEF StartBreak
<1> QED
  BY <1>1, <1>4, <1>6, <1>7, <1>5, <1>8

\* setEmployeeStatus with AVAILABLE: the lock of the employee and the new status.
LEMMA StartWorkDoes ==
  ASSUME Typed, NEW p \in Processes, StartWork(p)
  PROVE  LET row == EmployeeRow(tx[p].e) IN
         /\ Typed' /\ Others(p)
         /\ tx[p] # None /\ tx[p].stage = "lock" /\ tx[p].kind = "available" /\ tx[p].e \in Employees
         /\ Gets(p, {<<row, "lock">>}) /\ Saving(p, <<Put(row, "AVAILABLE")>>, "look", None)
<1> DEFINE row == EmployeeRow(tx[p].e)
<1> DEFINE f == Put(row, "AVAILABLE")
<1>1. /\ tx[p] # None /\ tx[p].stage = "lock" /\ tx[p].kind = "available"
      /\ May(p, row, "lock") /\ Lock(p, {<<row, "lock">>}) /\ UNCHANGED <<db, work>>
      /\ Save(p, <<f>>, "look", None)
  BY DEF StartWork, At
<1>2. tx[p].e \in Employees /\ row \in Row
  BY <1>1, OfTx DEF OfEmployee
<1>3. f \in Writes /\ AllFit(f)
  BY <1>2, PutRows DEF EmployeeStatus
<1> HIDE DEF f
<1>4. <<f>> \in Seq(Writes) /\ \A i \in DOMAIN <<f>> : AllFit(<<f>>[i])
  BY <1>3
<1>5. Gets(p, {<<row, "lock">>})
  BY <1>1, <1>2, GetsOne
<1>6. Typed' /\ Others(p) /\ Saving(p, <<f>>, "look", None)
  BY <1>1, <1>2, <1>4, LockFits, SaveDoes
<1> QED
  BY <1>1, <1>2, <1>5, <1>6 DEF f

\* dispatchAvailable: a rollback, or the lock of the employee.
LEMMA LockEmployeeDoes ==
  ASSUME Typed, NEW p \in Processes, LockEmployee(p)
  PROVE  LET row == EmployeeRow(tx[p].e) IN
         /\ Typed' /\ Others(p)
         /\ tx[p] # None /\ tx[p].stage = "lock" /\ tx[p].kind = "dispatch" /\ tx[p].e \in Employees
         /\ Rolled(p) \/ (Gets(p, {<<row, "lock">>}) /\ Staying(p, "look"))
<1> DEFINE row == EmployeeRow(tx[p].e)
<1>1. tx[p] # None /\ tx[p].stage = "lock" /\ tx[p].kind = "dispatch" /\ May(p, row, "lock")
  BY DEF LockEmployee, At
<1>2. tx[p].e \in Employees /\ row \in Row
  BY <1>1, OfTx DEF OfEmployee
<1>3. CASE Rollback(p)
  BY <1>1, <1>2, <1>3, RollbackDoes
<1>4. CASE Lock(p, {<<row, "lock">>}) /\ Proceed(p, "look") /\ UNCHANGED <<db, work>>
  <2>1. Gets(p, {<<row, "lock">>})
    BY <1>1, <1>2, <1>4, GetsOne
  <2>2. Typed' /\ Others(p) /\ Staying(p, "look")
    BY <1>1, <1>2, <1>4, LockFits, ProceedDoes
  <2> QED
    BY <1>1, <1>2, <2>1, <2>2
<1> QED
  BY <1>3, <1>4 DEF LockEmployee

\* The statuses an action leads to.
LEMMA NextFits ==
  ASSUME NEW s, NEW act \in Actions, NextTicketStatus(s, act, TRUE) # "null"
  PROVE  LET next == NextTicketStatus(s, act, TRUE) IN
         /\ next \in TicketStatus
         /\ act \in {"CALL", "START"} => next \in {"CALLED", "IN_SERVICE"}
         /\ act \notin {"CALL", "START"} => next \in {"COMPLETED", "REQUEUED", "NO_SHOW"}
<1>1. NextTicketStatus(s, act, TRUE) = TransitionTo[act]
  BY DEF NextTicketStatus
<1>2. act \in {"CALL", "START", "COMPLETE", "REQUEUE", "NO_SHOW"}
  BY TransactionsAssumption DEF AssignmentActions
<1>3. /\ TransitionTo["CALL"] = "CALLED" /\ TransitionTo["START"] = "IN_SERVICE"
      /\ TransitionTo["COMPLETE"] = "COMPLETED" /\ TransitionTo["REQUEUE"] = "REQUEUED"
      /\ TransitionTo["NO_SHOW"] = "NO_SHOW"
  BY DEF TransitionTo
<1> QED
  BY <1>1, <1>2, <1>3 DEF TicketStatus

\* assignmentAction: a rollback, or the lock of the employee's own assignment and
\* the objects to save.
LEMMA LockAssignmentDoes ==
  ASSUME Typed, NEW p \in Processes, LockAssignment(p)
  PROVE  LET x == tx[p] IN
         /\ Typed' /\ Others(p)
         /\ x # None /\ x.stage = "lock" /\ x.kind = "action"
         /\ x.t \in Tickets /\ x.e \in Employees /\ x.act \in Actions
         /\ \/ Rolled(p)
            \/ \E next \in TicketStatus :
                 /\ IF x.act \in {"CALL", "START"} THEN next \in {"CALLED", "IN_SERVICE"}
                                                   ELSE next \in {"COMPLETED", "REQUEUED", "NO_SHOW"}
                 /\ Holder(p, x.t) = x.e
                 /\ Gets(p, {<<AssignmentRow(x.t), "lock">>})
                 /\ Saving(p, <<Saved(x.t, x.e, x.act, next)>>, "commit", x.e)
<1> DEFINE x == tx[p]
<1> DEFINE row == AssignmentRow(x.t)
<1> DEFINE next == NextTicketStatus(Status(p, x.t), x.act, TRUE)
<1>1. x # None /\ x.stage = "lock" /\ x.kind = "action"
  BY DEF LockAssignment, At
<1>2. x.t \in Tickets /\ x.e \in Employees /\ x.act \in Actions /\ row \in Row
  BY <1>1, OfTx DEF OfEmployee, OfTicket
<1>3. CASE Rollback(p)
  BY <1>1, <1>2, <1>3, RollbackDoes
<1>4. CASE ~Rollback(p)
  <2>1. /\ Holder(p, x.t) = x.e /\ next # "null" /\ May(p, row, "lock")
        /\ Lock(p, {<<row, "lock">>}) /\ UNCHANGED <<db, work>>
        /\ Save(p, <<Saved(x.t, x.e, x.act, next)>>, "commit", x.e)
    BY <1>4 DEF LockAssignment
  <2> HIDE DEF next
  <2>2. /\ next \in TicketStatus
        /\ IF x.act \in {"CALL", "START"} THEN next \in {"CALLED", "IN_SERVICE"}
                                          ELSE next \in {"COMPLETED", "REQUEUED", "NO_SHOW"}
    BY <1>2, <2>1, NextFits DEF next
  <2> DEFINE f == Saved(x.t, x.e, x.act, next)
  <2>3. f \in Writes /\ AllFit(f)
    <3> HIDE DEF x
    <3> QED
      BY <1>2, <2>2, SavedRows
  <2> HIDE DEF f
  <2>4. <<f>> \in Seq(Writes) /\ \A i \in DOMAIN <<f>> : AllFit(<<f>>[i])
    BY <2>3
  <2>5. Gets(p, {<<row, "lock">>})
    BY <1>1, <1>2, <2>1, GetsOne
  <2>6. Save(p, <<f>>, "commit", x.e)
    BY <2>1 DEF f
  <2>7. Typed' /\ Others(p) /\ Saving(p, <<f>>, "commit", x.e)
    BY <1>1, <1>2, <2>1, <2>4, <2>6, LockFits, SaveDoes
  <2> QED
    BY <1>1, <1>2, <2>1, <2>2, <2>5, <2>7 DEF f
<1> QED
  BY <1>3, <1>4

\* expireCalls: a rollback, or the lock of the assignment and its end.
LEMMA LockExpiredCallDoes ==
  ASSUME Typed, NEW p \in Processes, LockExpiredCall(p)
  PROVE  LET x == tx[p] h == Holder(p, x.t) IN
         /\ Typed' /\ Others(p)
         /\ x # None /\ x.stage = "lock" /\ x.kind = "expireCall" /\ x.t \in Tickets
         /\ \/ Rolled(p)
            \/ /\ h \in Employees
               /\ Gets(p, {<<AssignmentRow(x.t), "lock">>})
               /\ \E s \in {"REQUEUED", "NO_SHOW"} :
                    Saving(p, <<Put(AssignmentRow(x.t), None), Put(TicketRow(x.t), s),
                                Put(EmployeeRow(h), "AVAILABLE")>>, "commit", h)
<1> DEFINE x == tx[p]
<1> DEFINE row == AssignmentRow(x.t)
<1> DEFINE h == Holder(p, x.t)
<1>1. x # None /\ x.stage = "lock" /\ x.kind = "expireCall" /\ May(p, row, "lock")
  BY DEF LockExpiredCall, At
<1>2. x.t \in Tickets /\ row \in Row
  BY <1>1, OfTx DEF OfTicket
<1>3. CASE Rollback(p)
  BY <1>1, <1>2, <1>3, RollbackDoes
<1>4. CASE ~Rollback(p)
  <2> DEFINE a == Put(row, None)
  <2> DEFINE c == Put(EmployeeRow(h), "AVAILABLE")
  <2>1. /\ h # None /\ Lock(p, {<<row, "lock">>}) /\ UNCHANGED <<db, work>>
        /\ \E s \in {"REQUEUED", "NO_SHOW"} : Save(p, <<a, Put(TicketRow(x.t), s), c>>, "commit", h)
    BY <1>4 DEF LockExpiredCall
  <2>2. PICK s \in {"REQUEUED", "NO_SHOW"} : Save(p, <<a, Put(TicketRow(x.t), s), c>>, "commit", h)
    BY <2>1
  <2> DEFINE b == Put(TicketRow(x.t), s)
  <2>3. h \in Employees
    BY <1>2, <2>1, SeenFits
  <2>4. a \in Writes /\ AllFit(a) /\ b \in Writes /\ AllFit(b) /\ c \in Writes /\ AllFit(c)
    BY <1>2, <2>3, PutRows DEF TicketStatus, EmployeeStatus
  <2> HIDE DEF a, b, c
  <2>5. <<a, b, c>> \in Seq(Writes) /\ \A i \in DOMAIN <<a, b, c>> : AllFit(<<a, b, c>>[i])
    BY <2>4
  <2>6. Gets(p, {<<row, "lock">>})
    BY <1>1, <1>2, <2>1, GetsOne
  <2>7. Save(p, <<a, b, c>>, "commit", h)
    BY <2>2 DEF b
  <2>8. Typed' /\ Others(p) /\ Saving(p, <<a, b, c>>, "commit", h)
    BY <1>1, <1>2, <2>1, <2>3, <2>5, <2>7, LockFits, SaveDoes
  <2> QED
    BY <1>1, <1>2, <2>3, <2>6, <2>8 DEF a, b, c
<1> QED
  BY <1>3, <1>4

\* One set of rows to save.
LEMMA SaveOneDoes ==
  ASSUME Typed, NEW p \in Processes, tx[p] # None, NEW f \in Writes, AllFit(f),
         NEW h \in Employees \cup {None},
         Save(p, <<f>>, "commit", h), UNCHANGED <<db, work>>,
         UNCHANGED locks \/ \E rows \in LockSet : Lock(p, rows)
  PROVE  Typed' /\ Others(p) /\ Saving(p, <<f>>, "commit", h)
<1>1. <<f>> \in Seq(Writes) /\ \A i \in DOMAIN <<f>> : AllFit(<<f>>[i])
  OBVIOUS
<1> QED
  BY <1>1, SaveDoes

\* The client who has come is given to somebody, or to nobody.
LEMMA LookForEmployeeDoes ==
  ASSUME Typed, NEW p \in Processes, LookForEmployee(p)
  PROVE  LET x == tx[p] IN
         /\ Typed' /\ Others(p) /\ locks' = locks
         /\ x # None /\ x.stage = "look" /\ x.kind = "checkIn" /\ x.t \in Tickets
         /\ \/ Saving(p, <<>>, "commit", None)
            \/ \E e \in Employees : Saving(p, <<Assign(x.t, e)>>, "commit", None)
<1> DEFINE x == tx[p]
<1>1. x # None /\ x.stage = "look" /\ x.kind = "checkIn" /\ UNCHANGED <<db, work, locks>>
  BY DEF LookForEmployee, At
<1>2. x.t \in Tickets
  BY <1>1, OfTx DEF OfTicket
<1>3. CASE Save(p, <<>>, "commit", None)
  BY <1>1, <1>2, <1>3, SaveNoneDoes
<1>4. ASSUME NEW e \in Employees, Save(p, <<Assign(x.t, e)>>, "commit", None)
      PROVE  Typed' /\ Others(p) /\ Saving(p, <<Assign(x.t, e)>>, "commit", None)
  <2> DEFINE f == Assign(x.t, e)
  <2>1. f \in Writes /\ AllFit(f)
    BY <1>2, AssignRows
  <2> HIDE DEF f
  <2>2. Save(p, <<f>>, "commit", None)
    BY <1>4 DEF f
  <2>3. Typed' /\ Others(p) /\ Saving(p, <<f>>, "commit", None)
    BY <1>1, <2>1, <2>2, SaveOneDoes
  <2> QED
    BY <2>3 DEF f
<1>5. \/ Save(p, <<>>, "commit", None)
      \/ \E e \in Employees : Save(p, <<Assign(x.t, e)>>, "commit", None)
  BY DEF LookForEmployee
<1> QED
  BY <1>1, <1>2, <1>3, <1>4, <1>5

\* The assignment a cancelled or missed ticket leaves behind is ended.
LEMMA LookForAssignmentDoes ==
  ASSUME Typed, NEW p \in Processes, LookForAssignment(p)
  PROVE  LET x == tx[p] h == Holder(p, x.t) IN
         /\ Typed' /\ Others(p) /\ locks' = locks
         /\ x # None /\ x.stage = "look" /\ x.kind \in {"cancel", "missed"} /\ x.t \in Tickets
         /\ \/ h = None /\ Saving(p, <<>>, "commit", None)
            \/ /\ h \in Employees
               /\ \E f \in Writes : /\ Saving(p, <<f>>, "commit", h)
                                    /\ DOMAIN f = {AssignmentRow(x.t), EmployeeRow(h)}
                                    /\ f[AssignmentRow(x.t)] = None
<1> DEFINE x == tx[p]
<1> DEFINE h == Holder(p, x.t)
<1>1. x # None /\ x.stage = "look" /\ x.kind \in {"cancel", "missed"} /\ UNCHANGED <<db, work, locks>>
  BY DEF LookForAssignment, At
<1>2. x.t \in Tickets
  BY <1>1, OfTx DEF OfTicket
<1>3. h \in Employees \cup {None}
  BY <1>2, SeenFits
<1>4. CASE h = None
  <2>1. Save(p, <<>>, "commit", None)
    BY <1>4 DEF LookForAssignment
  <2> QED
    BY <1>1, <1>2, <1>4, <2>1, SaveNoneDoes
<1>5. CASE h # None
  <2> DEFINE a == Put(AssignmentRow(x.t), None)
  <2> DEFINE b == Put(EmployeeRow(h), "AVAILABLE")
  <2> DEFINE f == Over(a, b)
  <2>1. Save(p, <<f>>, "commit", h)
    BY <1>5 DEF LookForAssignment
  <2> HIDE DEF h
  <2>2. /\ a \in Writes /\ AllFit(a) /\ DOMAIN a = {AssignmentRow(x.t)} /\ a[AssignmentRow(x.t)] = None
        /\ b \in Writes /\ AllFit(b) /\ DOMAIN b = {EmployeeRow(h)}
    BY <1>2, <1>3, <1>5, PutRows DEF EmployeeStatus
  <2> HIDE DEF a, b
  <2>3. f \in Writes /\ AllFit(f) /\ DOMAIN f = {AssignmentRow(x.t), EmployeeRow(h)} /\ f[AssignmentRow(x.t)] = None
    <3>1. /\ f \in Writes /\ DOMAIN f = DOMAIN a \cup DOMAIN b
          /\ \A row \in DOMAIN a : f[row] = a[row]
          /\ AllFit(a) /\ AllFit(b) => AllFit(f)
      BY <2>2, OverFits
    <3> HIDE DEF f
    <3> QED
      BY <2>2, <3>1
  <2> HIDE DEF f
  <2>4. Typed' /\ Others(p) /\ Saving(p, <<f>>, "commit", h)
    BY <1>1, <1>3, <2>1, <2>3, SaveOneDoes
  <2>5. h \in Employees
    BY <1>3, <1>5
  <2> QED
    BY <1>1, <1>2, <2>3, <2>4, <2>5 DEF h
<1> QED
  BY <1>4, <1>5

\* Whoever is free looks for a client, and locks the one that is taken.
LEMMA LookForTicketDoes ==
  ASSUME Typed, NEW p \in Processes, LookForTicket(p)
  PROVE  LET x == tx[p] IN
         /\ Typed' /\ Others(p)
         /\ x # None /\ x.stage = "look" /\ x.kind \in {"available", "dispatch"}
         /\ \/ locks' = locks /\ Saving(p, <<>>, "commit", None)
            \/ \E t \in Tickets, e \in Employees :
                 /\ Status(p, t) \in LiveQueueStatuses
                 /\ Gets(p, {<<TicketRow(t), "lock">>})
                 /\ Saving(p, <<Assign(t, e)>>, "commit", None)
<1> DEFINE x == tx[p]
<1>1. x # None /\ x.stage = "look" /\ x.kind \in {"available", "dispatch"} /\ UNCHANGED <<db, work>>
  BY DEF LookForTicket, At
<1>2. x.e \in Employees
  BY <1>1, OfTx DEF OfEmployee
<1>3. CASE Save(p, <<>>, "commit", None) /\ UNCHANGED locks
  BY <1>1, <1>3, SaveNoneDoes
<1>4. ASSUME NEW t \in Tickets, Status(p, t) \in LiveQueueStatuses, May(p, TicketRow(t), "lock"),
             Lock(p, {<<TicketRow(t), "lock">>}), Save(p, <<Assign(t, x.e)>>, "commit", None)
      PROVE  /\ Typed' /\ Others(p) /\ Saving(p, <<Assign(t, x.e)>>, "commit", None)
             /\ Gets(p, {<<TicketRow(t), "lock">>})
  <2> DEFINE f == Assign(t, x.e)
  <2>1. f \in Writes /\ AllFit(f)
    BY <1>2, AssignRows
  <2> HIDE DEF f
  <2>2. Save(p, <<f>>, "commit", None)
    BY <1>4 DEF f
  <2>3. TicketRow(t) \in Row
    BY RowsApart
  <2>4. Typed' /\ Others(p) /\ Saving(p, <<f>>, "commit", None)
    BY <1>1, <1>4, <2>1, <2>2, <2>3, LockFits, SaveOneDoes
  <2>5. Gets(p, {<<TicketRow(t), "lock">>})
    BY <1>4, <2>3, GetsOne
  <2> QED
    BY <2>4, <2>5 DEF f
<1>5. \/ Save(p, <<>>, "commit", None) /\ UNCHANGED locks
      \/ \E t \in Tickets : /\ Status(p, t) \in LiveQueueStatuses /\ May(p, TicketRow(t), "lock")
                            /\ Lock(p, {<<TicketRow(t), "lock">>}) /\ Save(p, <<Assign(t, x.e)>>, "commit", None)
  BY DEF LookForTicket
<1> QED
  BY <1>1, <1>2, <1>3, <1>4, <1>5

\* The manager's call: the ticket, and an assignment unless there is one.
LEMMA LookForCallDoes ==
  ASSUME Typed, NEW p \in Processes, LookForCall(p)
  PROVE  LET x == tx[p] h == Holder(p, x.t) IN
         /\ Typed' /\ Others(p)
         /\ x # None /\ x.stage = "look" /\ x.kind = "callFromList" /\ x.t \in Tickets /\ x.e \in Employees
         /\ \/ Rolled(p)
            \/ /\ locks' = locks /\ h \in {None, x.e}
               /\ \E f, g \in Writes :
                    /\ Saving(p, <<f, g>>, "commit", h)
                    /\ DOMAIN f = {TicketRow(x.t)} /\ f[TicketRow(x.t)] = "CALLED"
                    /\ DOMAIN g = {EmployeeRow(x.e), AssignmentRow(x.t)} /\ g[AssignmentRow(x.t)] = x.e
<1> DEFINE x == tx[p]
<1> DEFINE h == Holder(p, x.t)
<1>1. x # None /\ x.stage = "look" /\ x.kind = "callFromList"
  BY DEF LookForCall, At
<1>2. x.t \in Tickets /\ x.e \in Employees
  BY <1>1, OfTx DEF OfTicket, OfEmployee
<1>3. CASE Rollback(p)
  BY <1>1, <1>2, <1>3, RollbackDoes
<1>4. CASE ~Rollback(p)
  <2> DEFINE f == Put(TicketRow(x.t), "CALLED")
  <2> DEFINE a == Put(EmployeeRow(x.e), "RESERVED")
  <2> DEFINE b == Put(AssignmentRow(x.t), x.e)
  <2> DEFINE g == Over(a, b)
  <2>1. Save(p, <<f, g>>, "commit", h) /\ UNCHANGED <<db, work, locks>> /\ h \in {None, x.e}
    BY <1>4 DEF LookForCall
  <2> HIDE DEF h
  <2>2. /\ f \in Writes /\ AllFit(f) /\ DOMAIN f = {TicketRow(x.t)} /\ f[TicketRow(x.t)] = "CALLED"
        /\ a \in Writes /\ AllFit(a) /\ DOMAIN a = {EmployeeRow(x.e)}
        /\ b \in Writes /\ AllFit(b) /\ DOMAIN b = {AssignmentRow(x.t)} /\ b[AssignmentRow(x.t)] = x.e
    <3>1. "CALLED" \in TicketStatus /\ "RESERVED" \in EmployeeStatus /\ x.e \in Employees \cup {None}
      BY <1>2 DEF TicketStatus, EmployeeStatus
    <3> QED
      BY <1>2, <3>1, PutRows
  <2>3. AssignmentRow(x.t) # EmployeeRow(x.e)
    BY RowsApart
  <2> HIDE DEF f, a, b
  <2>4. /\ g \in Writes /\ AllFit(g)
        /\ DOMAIN g = {EmployeeRow(x.e), AssignmentRow(x.t)} /\ g[AssignmentRow(x.t)] = x.e
    <3>1. /\ g \in Writes /\ DOMAIN g = DOMAIN a \cup DOMAIN b
          /\ \A row \in DOMAIN b \ DOMAIN a : g[row] = b[row]
          /\ AllFit(a) /\ AllFit(b) => AllFit(g)
      BY <2>2, OverFits
    <3> HIDE DEF g
    <3> QED
      BY <2>2, <2>3, <3>1
  <2> HIDE DEF g
  <2>5. <<f, g>> \in Seq(Writes) /\ \A i \in DOMAIN <<f, g>> : AllFit(<<f, g>>[i])
    BY <2>2, <2>4
  <2>6. Typed' /\ Others(p) /\ Saving(p, <<f, g>>, "commit", h)
    BY <1>1, <1>2, <2>1, <2>5, SaveDoes
  <2> QED
    BY <1>1, <1>2, <2>1, <2>2, <2>4, <2>6 DEF h
<1> QED
  BY <1>3, <1>4

\* A step of a save: of the rows of the first save some are left, some are
\* written under a lock, and the others need not be written.
Progress(p) ==
  LET x == tx[p]  f == Head(tx[p].saves) IN
  /\ x # None /\ x.stage \in {"save", "write"} /\ x.saves # <<>> /\ db' = db
  /\ \E rows, new \in SUBSET DOMAIN f, ls \in LockSet :
       /\ tx'[p] = Rest(x, rows) /\ rows \cap new = {}
       /\ DOMAIN work'[p] = DOMAIN work[p] \cup new
       /\ \A row \in new : work'[p][row] = f[row]
       /\ \A row \in DOMAIN work[p] \ new : work'[p][row] = work[p][row]
       /\ \A row \in DOMAIN f \ (rows \cup new) : ~Differs(p, row)
       /\ Gets(p, ls) /\ \A row \in new : <<row, "write">> \in ls

\* The transaction before a step of a save.
LEMMA SaveUnderWay ==
  ASSUME Typed, NEW p \in Processes, tx[p] # None, tx[p].stage \in {"save", "write"}
  PROVE  LET x == tx[p] f == Head(x.saves) IN
         /\ x \in Transaction /\ Shaped(x) /\ x.saves # <<>>
         /\ f \in Writes /\ AllFit(f) /\ DOMAIN f \subseteq Row
<1> DEFINE x == tx[p]
<1>1. x \in Transaction /\ Shaped(x) /\ x.saves # <<>>
  BY DEF Typed, Shaped
<1>2. x.saves \in Seq(Writes)
  BY <1>1 DEF Transaction
<1> DEFINE s == x.saves
<1>3. 1 \in DOMAIN s /\ Head(s) = s[1] /\ s[1] \in Writes
  <2> HIDE DEF s, x
  <2>1. s \in Seq(Writes) /\ s # <<>>
    BY <1>1, <1>2 DEF s
  <2> QED
    BY <2>1
<1>4. AllFit(s[1])
  BY <1>1, <1>3 DEF Shaped, Planned
<1> HIDE DEF s
<1>5. Head(x.saves) = s[1]
  BY <1>3 DEF s
<1> QED
  BY <1>1, <1>3, <1>4, <1>5, WritesDomain

\* What is left of a save has the shape of a transaction.
LEMMA RestShapes ==
  ASSUME Typed, NEW p \in Processes, tx[p] # None, tx[p].stage \in {"save", "write"},
         NEW rows \in SUBSET DOMAIN Head(tx[p].saves), tx' = [tx EXCEPT ![p] = Rest(tx[p], rows)]
  PROVE  /\ tx'[p] = Rest(tx[p], rows) /\ tx' = [tx EXCEPT ![p] = tx'[p]]
         /\ tx'[p] \in Transaction /\ Shaped(tx'[p])
<1>1. tx[p] \in Transaction /\ Shaped(tx[p]) /\ tx[p].saves # <<>>
  BY SaveUnderWay
<1> DEFINE y == Rest(tx[p], rows)
<1>2. tx'[p] = y /\ tx' = [tx EXCEPT ![p] = y]
  BY DEF Typed
<1>3. /\ y \in Transaction
      /\ y.kind = tx[p].kind /\ y.t = tx[p].t /\ y.e = tx[p].e /\ y.act = tx[p].act
      /\ y.then = tx[p].then
      /\ \/ y.stage \in {"save", "write"} /\ y.saves # <<>>
         \/ y.stage = tx[p].then /\ y.saves = <<>>
      /\ Planned(tx[p]) => Planned(y)
  BY <1>1, RestPlan
<1>4. tx[p].then \in {"look", "commit"}
  BY <1>1 DEF Transaction
<1> HIDE DEF y
<1>5. Shaped(y)
  BY <1>1, <1>3, <1>4 DEF Shaped
<1> QED
  BY <1>2, <1>3, <1>5 DEF y

\* A row written: what the transaction has written so far, and this.
LEMMA WriteDoes ==
  ASSUME Typed, NEW p \in Processes, tx[p] # None, tx[p].stage \in {"save", "write"},
         NEW row \in DOMAIN Head(tx[p].saves), Write(p, row)
  PROVE  LET f == Head(tx[p].saves) IN
         /\ \E w \in Writes : AllFit(w) /\ work' = [work EXCEPT ![p] = w]
         /\ DOMAIN work'[p] = DOMAIN work[p] \cup {row}
         /\ work'[p][row] = f[row]
         /\ \A r \in DOMAIN work[p] \ {row} : work'[p][r] = work[p][r]
<1> DEFINE f == Head(tx[p].saves)
<1> DEFINE g == Put(row, f[row])
<1> DEFINE w == Over(g, work[p])
<1>1. work' = [work EXCEPT ![p] = w] /\ work'[p] = w
  BY DEF Write, Typed
<1>2. f \in Writes /\ AllFit(f) /\ DOMAIN f \subseteq Row /\ row \in DOMAIN f
  BY SaveUnderWay
<1> HIDE DEF f
<1>3. g \in Writes /\ DOMAIN g = {row} /\ g[row] = f[row] /\ AllFit(g)
  BY <1>2, PutFits DEF AllFit
<1>4. work[p] \in Writes /\ AllFit(work[p])
  BY DEF Typed
<1> HIDE DEF g
<1>5. /\ w \in Writes /\ DOMAIN w = DOMAIN g \cup DOMAIN work[p]
      /\ \A r \in DOMAIN g : w[r] = g[r]
      /\ \A r \in DOMAIN work[p] \ DOMAIN g : w[r] = work[p][r]
      /\ AllFit(g) /\ AllFit(work[p]) => AllFit(w)
  BY <1>3, <1>4, OverFits
<1> HIDE DEF w
<1> QED
  BY <1>1, <1>3, <1>4, <1>5 DEF f

\* The rows are read again: those that are as they should be are left out.
LEMMA ReadAgainDoes ==
  ASSUME Typed, NEW p \in Processes, ReadAgain(p)
  PROVE  Typed' /\ Others(p) /\ Progress(p)
<1> DEFINE x == tx[p]
<1> DEFINE f == Head(x.saves)
<1> DEFINE rows == {row \in DOMAIN f : Differs(p, row)}
<1>1. x # None /\ x.stage = "save" /\ UNCHANGED <<db, work, locks>> /\ tx' = [tx EXCEPT ![p] = Rest(tx[p], rows)]
  BY DEF ReadAgain, At
<1>2. x.saves # <<>>
  BY <1>1, SaveUnderWay
<1>3. /\ tx'[p] = Rest(tx[p], rows) /\ tx' = [tx EXCEPT ![p] = tx'[p]]
      /\ tx'[p] \in Transaction /\ Shaped(tx'[p])
  BY <1>1, RestShapes
<1>4. Typed' /\ Others(p)
  BY <1>1, <1>3, TypedAfter
<1>5. Gets(p, {}) /\ {} \in LockSet
  BY <1>1 DEF Gets, LockSet
<1>6. \E new \in SUBSET DOMAIN f, ls \in LockSet :
        /\ rows \cap new = {}
        /\ DOMAIN work'[p] = DOMAIN work[p] \cup new
        /\ \A row \in new : work'[p][row] = f[row]
        /\ \A row \in DOMAIN work[p] \ new : work'[p][row] = work[p][row]
        /\ \A row \in DOMAIN f \ (rows \cup new) : ~Differs(p, row)
        /\ Gets(p, ls) /\ \A row \in new : <<row, "write">> \in ls
  <2>1. {} \in SUBSET DOMAIN f
    OBVIOUS
  <2>2. \A row \in DOMAIN f \ (rows \cup {}) : ~Differs(p, row)
    OBVIOUS
  <2> QED
    BY <1>1, <1>5, <2>1, <2>2
<1> QED
  BY <1>1, <1>2, <1>3, <1>4, <1>6 DEF Progress

\* A row is updated, or found as it was left by the end of its assignment.
LEMMA UpdateDoes ==
  ASSUME Typed, NEW p \in Processes, NEW row \in Todo(p), Update(p, row)
  PROVE  Typed' /\ Others(p) /\ Progress(p)
<1> DEFINE x == tx[p]
<1> DEFINE f == Head(x.saves)
<1> DEFINE rows == DOMAIN f \ {row}
<1>1. x # None /\ x.stage = "write" /\ row \in DOMAIN f
  BY DEF Todo
<1>2. x.saves # <<>> /\ DOMAIN f \subseteq Row
  BY <1>1, SaveUnderWay
<1>3. UNCHANGED db /\ May(p, row, "write") /\ ~Inserts(p, row) /\ tx' = [tx EXCEPT ![p] = Rest(tx[p], rows)]
  BY DEF Update, Done
<1>4. /\ tx'[p] = Rest(tx[p], rows) /\ tx' = [tx EXCEPT ![p] = tx'[p]]
      /\ tx'[p] \in Transaction /\ Shaped(tx'[p])
  BY <1>1, <1>3, RestShapes
<1>5. CASE row \in AssignmentRows /\ ~Differs(p, row)
  <2>1. UNCHANGED <<work, locks>>
    BY <1>5 DEF Update
  <2>2. Typed' /\ Others(p)
    BY <1>3, <1>4, <2>1, TypedAfter
  <2>3. Gets(p, {}) /\ {} \in LockSet /\ {} \in SUBSET DOMAIN f
    BY <2>1 DEF Gets, LockSet
  <2>4. \A r \in DOMAIN f \ (rows \cup {}) : ~Differs(p, r)
    BY <1>5
  <2>5. \E new \in SUBSET DOMAIN f, ls \in LockSet :
          /\ rows \cap new = {}
          /\ DOMAIN work'[p] = DOMAIN work[p] \cup new
          /\ \A r \in new : work'[p][r] = f[r]
          /\ \A r \in DOMAIN work[p] \ new : work'[p][r] = work[p][r]
          /\ \A r \in DOMAIN f \ (rows \cup new) : ~Differs(p, r)
          /\ Gets(p, ls) /\ \A r \in new : <<r, "write">> \in ls
    BY <2>1, <2>3, <2>4
  <2> QED
    BY <1>1, <1>2, <1>3, <1>4, <2>2, <2>5 DEF Progress
<1>6. CASE ~(row \in AssignmentRows /\ ~Differs(p, row))
  <2>1. Write(p, row) /\ Lock(p, {<<row, "write">>})
    BY <1>6 DEF Update
  <2>2. /\ \E w \in Writes : AllFit(w) /\ work' = [work EXCEPT ![p] = w]
        /\ DOMAIN work'[p] = DOMAIN work[p] \cup {row}
        /\ work'[p][row] = f[row]
        /\ \A r \in DOMAIN work[p] \ {row} : work'[p][r] = work[p][r]
    BY <1>1, <2>1, WriteDoes
  <2>3. {<<row, "write">>} \in LockSet
    BY <1>1, <1>2, LockFits
  <2>4. \E l \in LockSet : locks' = [locks EXCEPT ![p] = l] /\ locks'[p] = locks[p] \cup {<<row, "write">>}
    BY <2>1, <2>3, LockDoes
  <2>5. Gets(p, {<<row, "write">>})
    BY <1>3, <2>4 DEF Gets
  <2>6. Typed' /\ Others(p)
    BY <1>3, <1>4, <2>2, <2>4, TypedAfter
  <2>7. \E new \in SUBSET DOMAIN f, ls \in LockSet :
          /\ rows \cap new = {}
          /\ DOMAIN work'[p] = DOMAIN work[p] \cup new
          /\ \A r \in new : work'[p][r] = f[r]
          /\ \A r \in DOMAIN work[p] \ new : work'[p][r] = work[p][r]
          /\ \A r \in DOMAIN f \ (rows \cup new) : ~Differs(p, r)
          /\ Gets(p, ls) /\ \A r \in new : <<r, "write">> \in ls
    <3>1. {row} \in SUBSET DOMAIN f /\ rows \cap {row} = {} /\ DOMAIN f \ (rows \cup {row}) = {}
      BY <1>1
    <3> DEFINE ls == {<<row, "write">>}
    <3>2. ls \in LockSet /\ <<row, "write">> \in ls /\ Gets(p, ls)
      BY <2>3, <2>5
    <3> HIDE DEF rows, ls, f
    <3> QED
      BY <2>2, <3>1, <3>2
  <2> QED
    BY <1>1, <1>2, <1>3, <1>4, <2>6, <2>7 DEF Progress
<1> QED
  BY <1>5, <1>6

\* An assignment is inserted with locks on the rows it refers to, or refused.
LEMMA InsertDoes ==
  ASSUME Typed, NEW p \in Processes, NEW row \in Todo(p), Insert(p, row)
  PROVE  Typed' /\ Others(p) /\ (Progress(p) \/ Rolled(p))
<1> DEFINE x == tx[p]
<1> DEFINE f == Head(x.saves)
<1> DEFINE rows == DOMAIN f \ {row}
<1>1. x # None /\ x.stage = "write" /\ row \in DOMAIN f
  BY DEF Todo
<1>2. x.saves # <<>> /\ DOMAIN f \subseteq Row /\ AllFit(f)
  BY <1>1, SaveUnderWay
<1>3. CASE Rollback(p)
  BY <1>3, RollbackDoes
<1>4. CASE ~Rollback(p)
  <2> DEFINE ls == Touches(p, row)
  <2>1. /\ UNCHANGED db /\ tx' = [tx EXCEPT ![p] = Rest(tx[p], rows)]
        /\ Write(p, row) /\ Lock(p, ls) /\ Inserts(p, row) /\ \A l \in ls : May(p, l[1], l[2])
    BY <1>4 DEF Insert, Done
  <2>2. ls \in LockSet /\ <<row, "write">> \in ls
    <3>1. PICK t \in Tickets : row = AssignmentRow(t)
      BY <2>1, RowsApart DEF Inserts
    <3> DEFINE v == f[row]
    <3>2. v \in Employees
      <4>1. v # None
        BY <2>1 DEF Inserts
      <4>2. Fits(row, v)
        BY <1>1, <1>2 DEF AllFit
      <4> QED
        BY <3>1, <4>1, <4>2 DEF Fits
    <3>3. row[2] = t /\ TicketRow(t) \in Row /\ EmployeeRow(v) \in Row /\ row \in Row
      BY <3>1, <3>2, RowsApart
    <3>4. ls = {<<row, "write">>, <<TicketRow(t), "share">>, <<EmployeeRow(v), "share">>}
      BY <3>3 DEF Touches
    <3> HIDE DEF ls, v
    <3> QED
      BY <3>3, <3>4 DEF LockSet
  <2> HIDE DEF ls
  <2>3. /\ tx'[p] = Rest(tx[p], rows) /\ tx' = [tx EXCEPT ![p] = tx'[p]]
        /\ tx'[p] \in Transaction /\ Shaped(tx'[p])
    BY <1>1, <2>1, RestShapes
  <2>4. /\ \E w \in Writes : AllFit(w) /\ work' = [work EXCEPT ![p] = w]
        /\ DOMAIN work'[p] = DOMAIN work[p] \cup {row}
        /\ work'[p][row] = f[row]
        /\ \A r \in DOMAIN work[p] \ {row} : work'[p][r] = work[p][r]
    BY <1>1, <2>1, WriteDoes
  <2>5. \E l \in LockSet : locks' = [locks EXCEPT ![p] = l] /\ locks'[p] = locks[p] \cup ls
    BY <2>1, <2>2, LockDoes
  <2>6. Gets(p, ls)
    BY <2>1, <2>5 DEF Gets
  <2>7. Typed' /\ Others(p)
    BY <2>1, <2>3, <2>4, <2>5, TypedAfter
  <2>8. \E new \in SUBSET DOMAIN f, k \in LockSet :
          /\ rows \cap new = {}
          /\ DOMAIN work'[p] = DOMAIN work[p] \cup new
          /\ \A r \in new : work'[p][r] = f[r]
          /\ \A r \in DOMAIN work[p] \ new : work'[p][r] = work[p][r]
          /\ \A r \in DOMAIN f \ (rows \cup new) : ~Differs(p, r)
          /\ Gets(p, k) /\ \A r \in new : <<r, "write">> \in k
    <3>1. {row} \in SUBSET DOMAIN f /\ rows \cap {row} = {} /\ DOMAIN f \ (rows \cup {row}) = {}
      BY <1>1
    <3> QED
      BY <2>2, <2>4, <2>6, <3>1
  <2> QED
    BY <1>1, <1>2, <2>1, <2>3, <2>7, <2>8 DEF Progress
<1> QED
  BY <1>3, <1>4

\* The commit.
LEMMA CommitDoes ==
  ASSUME Typed, NEW p \in Processes, Commit(p)
  PROVE  /\ Typed' /\ Others(p)
         /\ tx[p] # None /\ tx[p].stage = "commit" /\ tx[p].saves = <<>> /\ tx[p].then = "commit"
         /\ tx'[p] = None /\ work'[p] = Nothing /\ locks'[p] = {}
         /\ \A row : See(p, row) = IF row \in DOMAIN work[p] THEN work[p][row] ELSE db[row]
         /\ \A row \in Row : db'[row] = See(p, row)
<1>1. tx[p] # None /\ tx[p].stage = "commit"
  BY DEF Commit, At
<1>2. tx[p].saves = <<>> /\ tx[p].then = "commit"
  BY <1>1 DEF Typed, Shaped
<1>3. /\ tx' = [tx EXCEPT ![p] = tx'[p]] /\ tx'[p] = None
      /\ work' = [work EXCEPT ![p] = Nothing] /\ work'[p] = Nothing
      /\ locks' = [locks EXCEPT ![p] = {}] /\ locks'[p] = {} /\ {} \in LockSet
  BY DEF Commit, Typed, LockSet
<1>4. work[p] \in Writes /\ AllFit(work[p]) /\ db \in Writes /\ DOMAIN db = Row /\ AllFit(db)
  BY DEF Typed
<1>5. DOMAIN work[p] \subseteq Row
  BY <1>4, WritesDomain
<1>6. db' = Over(work[p], db)
  BY DEF Commit
<1>7. /\ db' \in Writes /\ DOMAIN db' = Row /\ AllFit(db')
      /\ \A row \in DOMAIN work[p] : db'[row] = work[p][row]
      /\ \A row \in Row \ DOMAIN work[p] : db'[row] = db[row]
  BY <1>4, <1>5, <1>6, OverFits
<1>8. Typed' /\ Others(p)
  <2>1. \E w \in Writes : AllFit(w) /\ work' = [work EXCEPT ![p] = w]
    BY <1>3, NothingFits
  <2>2. \E l \in LockSet : locks' = [locks EXCEPT ![p] = l]
    BY <1>3
  <2> QED
    BY <1>3, <1>7, <2>1, <2>2, TypedAfter
<1> QED
  BY <1>1, <1>2, <1>3, <1>7, <1>8 DEF See

-----------------------------------------------------------------------------
(* Locks. *)

\* What any other step does: it writes nothing, and its locks are free.
Goes(p) == db' = db /\ work'[p] = work[p] /\ tx'[p] # None /\ \E ls \in LockSet : Gets(p, ls)

\* Every step of p keeps the types and leaves the other processes alone.
LEMMA StepDoes ==
  ASSUME Typed, NEW p \in Processes,
         Start(p) \/ Statement(p) \/ LockTimeout(p) \/ PoolTimeout(p)
  PROVE  Typed' /\ Others(p) /\ (Rolled(p) \/ Goes(p) \/ Progress(p) \/ Commit(p))
<1> DEFINE Aim == Typed' /\ Others(p) /\ (Rolled(p) \/ Goes(p) \/ Progress(p) \/ Commit(p))
<1>1. {} \in LockSet /\ (locks' = locks => Gets(p, {}))
  BY DEF LockSet, Gets
<1>2. \A row \in Row : {<<row, "lock">>} \in LockSet
  BY LockFits
<1>3. CASE Start(p)
  BY <1>1, <1>3, BeginDoes DEF Goes
<1>4. CASE LockTimeout(p) \/ PoolTimeout(p)
  BY <1>4, RollbackDoes DEF LockTimeout, PoolTimeout
<1>5. CASE EnsureEmployee(p)
  BY <1>1, <1>5, EnsureEmployeeDoes DEF Goes, Staying, GoesOn
<1>6. CASE LockTicket(p)
  <2>1. tx[p].t \in Tickets => TicketRow(tx[p].t) \in Row
    BY RowsApart
  <2> QED
    BY <1>2, <1>6, <2>1, LockTicketDoes DEF Goes, Staying, Saving, GoesOn
<1>19. CASE NextMissed(p)
  BY <1>1, <1>19, NextMissedDoes DEF Goes
<1>7. CASE StartBreak(p)
  <2>1. EmployeeRow(tx[p].e) \in Row
    BY <1>7, StartBreakDoes, OfTx DEF OfEmployee
  <2> QED
    BY <1>2, <1>7, <2>1, StartBreakDoes DEF Goes, GoesOn
<1>8. CASE StartWork(p)
  <2>1. EmployeeRow(tx[p].e) \in Row
    BY <1>8, StartWorkDoes, RowsApart
  <2> QED
    BY <1>2, <1>8, <2>1, StartWorkDoes DEF Goes, Saving, GoesOn
<1>9. CASE LockEmployee(p)
  <2>1. EmployeeRow(tx[p].e) \in Row
    BY <1>9, LockEmployeeDoes, RowsApart
  <2> QED
    BY <1>2, <1>9, <2>1, LockEmployeeDoes DEF Goes, Staying, GoesOn
<1>10. CASE LockAssignment(p)
  <2>1. AssignmentRow(tx[p].t) \in Row
    BY <1>10, LockAssignmentDoes, RowsApart
  <2> QED
    BY <1>2, <1>10, <2>1, LockAssignmentDoes DEF Goes, Saving, GoesOn
<1>11. CASE LockExpiredCall(p)
  <2>1. AssignmentRow(tx[p].t) \in Row
    BY <1>11, LockExpiredCallDoes, RowsApart
  <2> QED
    BY <1>2, <1>11, <2>1, LockExpiredCallDoes DEF Goes, Saving, GoesOn
<1>12. CASE LookForEmployee(p)
  BY <1>1, <1>12, LookForEmployeeDoes DEF Goes, Saving, GoesOn
<1>13. CASE LookForAssignment(p)
  BY <1>1, <1>13, LookForAssignmentDoes DEF Goes, Saving, GoesOn
<1>14. CASE LookForTicket(p)
  <2>1. \A t \in Tickets : {<<TicketRow(t), "lock">>} \in LockSet
    BY <1>2, RowsApart
  <2> QED
    BY <1>1, <1>14, <2>1, LookForTicketDoes DEF Goes, Saving, GoesOn
<1>15. CASE LookForCall(p)
  BY <1>1, <1>15, LookForCallDoes DEF Goes, Saving, GoesOn
<1>16. CASE ReadAgain(p)
  BY <1>16, ReadAgainDoes
<1>17. CASE \E row \in Todo(p) : Update(p, row) \/ Insert(p, row)
  BY <1>17, UpdateDoes, InsertDoes
<1>18. CASE Commit(p)
  BY <1>18, CommitDoes
<1> QED
  BY <1>3, <1>4, <1>5, <1>6, <1>7, <1>8, <1>9, <1>10, <1>11, <1>12, <1>13, <1>14, <1>15, <1>16, <1>17, <1>18, <1>19 DEF Statement

\* Locks of different transactions go together.
LocksApart ==
  \A p, q \in Processes : \A l \in locks[p], m \in locks[q] : p # q /\ l[1] = m[1] => Compatible(l[2], m[2])

\* Who has written a row has locked it.
WritesLocked == \A p \in Processes : \A row \in DOMAIN work[p] : <<row, "write">> \in locks[p]

\* Who is in no transaction has written nothing.
Idle == \A p \in Processes : tx[p] = None => DOMAIN work[p] = {}

\* Locks are kept apart by whoever takes them.
LEMMA ApartAfter ==
  ASSUME LocksApart, NEW p \in Processes, Others(p),
         locks'[p] = {} \/ \E ls \in LockSet : Gets(p, ls)
  PROVE  LocksApart'
<1> SUFFICES ASSUME NEW q \in Processes, NEW r \in Processes, NEW l \in locks'[q], NEW m \in locks'[r],
                    q # r, l[1] = m[1]
             PROVE  Compatible(l[2], m[2])
  BY DEF LocksApart
<1>1. \A a, b : Compatible(a, b) <=> Compatible(b, a)
  BY DEF Compatible
<1>2. ASSUME NEW o \in Processes \ {p}, NEW j \in locks'[p], NEW k \in locks'[o], j[1] = k[1]
      PROVE  Compatible(j[2], k[2])
  <2>1. k \in locks[o]
    BY DEF Others
  <2>2. PICK ls \in LockSet : Gets(p, ls)
    OBVIOUS
  <2>3. CASE j \in locks[p]
    BY <1>2, <2>1, <2>3 DEF LocksApart
  <2>4. CASE j \in ls
    BY <1>1, <1>2, <2>1, <2>2, <2>4 DEF Gets, May
  <2> QED
    BY <2>2, <2>3, <2>4 DEF Gets
<1>3. CASE q # p /\ r # p
  BY <1>3 DEF LocksApart, Others
<1> QED
  BY <1>1, <1>2, <1>3

\* The locks of every step.
LEMMA LocksAfter ==
  ASSUME Typed, LocksApart, WritesLocked, Idle, NEW p \in Processes, Others(p),
         Rolled(p) \/ Goes(p) \/ Progress(p) \/ Commit(p)
  PROVE  LocksApart' /\ WritesLocked' /\ Idle'
<1>1. DOMAIN Nothing = {}
  BY NothingFits
<1>2. CASE Rolled(p) \/ Commit(p)
  <2>1. work'[p] = Nothing /\ locks'[p] = {}
    BY <1>2, CommitDoes DEF Rolled
  <2>2. LocksApart'
    BY <2>1, ApartAfter
  <2> QED
    BY <1>1, <2>1, <2>2 DEF WritesLocked, Idle, Others
<1>3. CASE Goes(p)
  <2>1. work'[p] = work[p] /\ tx'[p] # None /\ \E ls \in LockSet : Gets(p, ls)
    BY <1>3 DEF Goes
  <2>2. LocksApart'
    BY <2>1, ApartAfter
  <2>3. locks[p] \subseteq locks'[p]
    BY <2>1 DEF Gets
  <2> QED
    BY <2>1, <2>2, <2>3 DEF WritesLocked, Idle, Others
<1>4. CASE Progress(p)
  <2> DEFINE f == Head(tx[p].saves)
  <2>1. PICK rows, new \in SUBSET DOMAIN f, ls \in LockSet :
          /\ tx'[p] = Rest(tx[p], rows)
          /\ DOMAIN work'[p] = DOMAIN work[p] \cup new
          /\ Gets(p, ls) /\ \A row \in new : <<row, "write">> \in ls
    BY <1>4 DEF Progress
  <2>2. LocksApart'
    BY <2>1, ApartAfter
  <2>3. locks'[p] = locks[p] \cup ls
    BY <2>1 DEF Gets
  <2>4. tx'[p] # None
    <3>1. tx[p] # None /\ tx[p].stage \in {"save", "write"}
      BY <1>4 DEF Progress
    <3>2. Rest(tx[p], rows) \in Transaction
      BY <3>1, SaveUnderWay, RestPlan
    <3> QED
      BY <2>1, <3>2, TransactionsAssumption
  <2> QED
    BY <2>1, <2>2, <2>3, <2>4 DEF WritesLocked, Idle, Others
<1> QED
  BY <1>2, <1>3, <1>4

\* Types and locks together.
LocksInv == Typed /\ LocksApart /\ WritesLocked /\ Idle

\* Initially nobody has a lock.
LEMMA LocksFirst == Init => LocksInv
<1> SUFFICES ASSUME Init PROVE LocksInv
  OBVIOUS
<1>1. work = [p \in Processes |-> Nothing] /\ locks = [p \in Processes |-> {}] /\ tx = [p \in Processes |-> None]
  BY DEF Init
<1>2. PICK status \in [Employees -> {"OFFLINE", "AVAILABLE"}] :
        db = [row \in Row |-> CASE row[1] = "ticket"     -> "BOOKED"
                                [] row[1] = "employee"   -> status[row[2]]
                                [] row[1] = "assignment" -> None]
  BY DEF Init
<1>3. \A row \in Row : Fits(row, db[row])
  <2>1. \A t \in Tickets : db[TicketRow(t)] = "BOOKED" /\ db[AssignmentRow(t)] = None
    BY <1>2 DEF Row, TicketRow, AssignmentRow, AssignmentRows
  <2>2. \A e \in Employees : db[EmployeeRow(e)] = status[e]
    BY <1>2 DEF Row, EmployeeRow
  <2>3. \A e \in Employees : status[e] \in EmployeeStatus
    BY DEF EmployeeStatus
  <2> QED
    BY <2>1, <2>2, <2>3 DEF Fits, TicketStatus
<1>4. db = [row \in Row |-> db[row]]
  <2> DEFINE v(row) == CASE row[1] = "ticket"     -> "BOOKED"
                         [] row[1] = "employee"   -> status[row[2]]
                         [] row[1] = "assignment" -> None
  <2>1. db = [row \in Row |-> v(row)]
    BY <1>2
  <2> HIDE DEF v
  <2> QED
    BY <2>1
<1>5. db \in Writes /\ DOMAIN db = Row /\ AllFit(db)
  BY <1>3, <1>4, FitsWrites
<1>6. Typed
  BY <1>1, <1>5, NothingFits DEF Typed, LockSet
<1> QED
  BY <1>1, <1>6, NothingFits DEF LocksInv, LocksApart, WritesLocked, Idle

\* Every step keeps the types and the locks.
LEMMA LocksStep == LocksInv /\ [Next]_vars => LocksInv'
<1> SUFFICES ASSUME LocksInv, [Next]_vars PROVE LocksInv'
  OBVIOUS
<1>1. CASE UNCHANGED vars
  BY <1>1 DEF vars, LocksInv, Typed, LocksApart, WritesLocked, Idle
<1>2. CASE Next
  <2>1. PICK p \in Processes : Start(p) \/ Statement(p) \/ LockTimeout(p) \/ PoolTimeout(p)
    BY <1>2 DEF Next
  <2>2. Typed' /\ Others(p) /\ (Rolled(p) \/ Goes(p) \/ Progress(p) \/ Commit(p))
    BY <2>1, StepDoes DEF LocksInv
  <2> QED
    BY <2>2, LocksAfter DEF LocksInv
<1> QED
  BY <1>1, <1>2

\* The rows keep their types, and no transaction writes a row it has not locked,
\* whatever runs together.
THEOREM TypesHold == Spec => []TypeOK
<1>1. LocksInv => TypeOK
  <2> SUFFICES ASSUME LocksInv PROVE TypeOK
    OBVIOUS
  <2>1. \A t \in Tickets : db[TicketRow(t)] \in TicketStatus /\ db[AssignmentRow(t)] \in Employees \cup {None}
    BY RowsApart DEF LocksInv, Typed, AllFit, Fits
  <2>2. \A e \in Employees : db[EmployeeRow(e)] \in EmployeeStatus
    BY RowsApart DEF LocksInv, Typed, AllFit, Fits
  <2>3. ASSUME NEW p \in Processes, NEW row \in DOMAIN work[p]
        PROVE  \E l \in locks[p] : row = l[1]
    <3>1. <<row, "write">> \in locks[p] /\ <<row, "write">>[1] = row
      BY DEF LocksInv, WritesLocked
    <3> QED
      BY <3>1
  <2>4. ASSUME NEW p \in Processes, tx[p] # None
        PROVE  tx[p].kind \in Kinds /\ tx[p].stage \in Stages /\ Todo(p) \subseteq Row
    <3>1. tx[p] \in Transaction
      BY <2>4 DEF LocksInv, Typed
    <3>2. tx[p].stage = "write" => DOMAIN Head(tx[p].saves) \subseteq Row
      BY <2>4, SaveUnderWay DEF LocksInv
    <3> QED
      BY <3>1, <3>2 DEF Transaction, Todo
  <2> QED
    BY <2>1, <2>2, <2>3, <2>4 DEF TypeOK
<1> QED
  BY <1>1, LocksFirst, LocksStep, PTL DEF Spec

-----------------------------------------------------------------------------
(* What a transaction has decided about a client. *)

\* Transactions that begin with the lock of their ticket; the statuses of a client
\* who is with somebody.
ByTicket == {"checkIn", "cancel", "missed", "callFromList"}
Hand     == {"ASSIGNED", "CALLED", "IN_SERVICE"}

\* A row that the transaction has written or has yet to save; where the row is
\* when all is written; a row that it has locked.
Covered(p, row)   == Left(tx[p], row) \/ row \in DOMAIN work[p]
EndsIn(p, row, S) == PlannedIn(tx[p], row, S) /\ (Left(tx[p], row) \/ See(p, row) \in S)
Locked(p, row)    == <<row, "lock">> \in locks[p]

\* Nothing but the present saves is to come before the commit.
Deciding(x) == x.stage \in {"save", "write", "commit"} /\ x.then = "commit"

\* What begins with a ticket keeps the ticket's lock, and found it acceptable;
\* the sweep, until it passes over the ticket or goes on to the next.
ByTicketLocked(p) ==
  LET x == tx[p] IN
  x.kind \in ByTicket /\ x.stage # "lock" /\ (x.kind = "missed" => ~Deciding(x)) =>
    Locked(p, TicketRow(x.t)) /\ db[TicketRow(x.t)] \in Accepted(x.kind)

\* Before the second look only the ticket the request is about is saved, but for
\* those that the sweep has dealt with in the turns before.
Preparing(p) ==
  LET x == tx[p] IN
  ~Deciding(x) =>
    /\ \A t \in Tickets : (x.kind = "missed" => t = x.t) =>
         /\ ~Covered(p, AssignmentRow(t))
         /\ Covered(p, TicketRow(t)) => x.kind \in ByTicket \ {"callFromList"} /\ t = x.t /\ x.stage # "lock"
    /\ x.kind \in ByTicket \ {"callFromList"} /\ x.stage # "lock" => EndsIn(p, TicketRow(x.t), {Becomes(x.kind)})

\* The client will be in somebody's hands, with an assignment; or in nobody's,
\* and then the assignment to be ended is the one that was read.
Joins(p, t) == EndsIn(p, TicketRow(t), Hand) /\ EndsIn(p, AssignmentRow(t), Employees)

Parts(p, t) ==
  /\ EndsIn(p, TicketRow(t), TicketStatus \ Hand) /\ EndsIn(p, AssignmentRow(t), {None})
  /\ Left(tx[p], AssignmentRow(t)) => db[AssignmentRow(t)] = tx[p].holder /\ tx[p].holder # None
  /\ AssignmentRow(t) \in DOMAIN work[p] => work[p][AssignmentRow(t)] = None

\* The lock that keeps the others off: the ticket's, or that of the assignment.
\* With the latter alone an assignment is ended only together with its ticket.
Held(p, t) ==
  \/ Locked(p, TicketRow(t)) /\ db[TicketRow(t)] \notin Terminal
  \/ /\ Locked(p, AssignmentRow(t)) /\ db[AssignmentRow(t)] # None
     /\ Covered(p, AssignmentRow(t)) => Covered(p, TicketRow(t)) /\ Parts(p, t)

\* A ticket that is held and will be left consistent, if it is saved at all.
Settled(p, t) ==
  Covered(p, TicketRow(t)) \/ Covered(p, AssignmentRow(t)) => Held(p, t) /\ (Joins(p, t) \/ Parts(p, t))

\* A transaction that decides settles all that it saves, and the sweep has
\* settled the tickets of the turns before.
Settles(p) ==
  \A t \in Tickets : Deciding(tx[p]) \/ (tx[p].kind = "missed" /\ t # tx[p].t) => Settled(p, t)

\* The sweep saves nothing but what it found under the locks of its tickets.
Sweeps(p) ==
  tx[p].kind = "missed" =>
    \A t \in Tickets : Covered(p, TicketRow(t)) \/ Covered(p, AssignmentRow(t)) => Locked(p, TicketRow(t))

\* What the invariant says of the transaction of a process.
Decided(p) == tx[p] # None => ByTicketLocked(p) /\ Preparing(p) /\ Settles(p) /\ Sweeps(p)

\* The inductive invariant.
Inv == LocksInv /\ NobodyStranded /\ \A p \in Processes : Decided(p)

\* The rows of a ticket that a transaction has not touched are as committed.
LEMMA Untouched ==
  ASSUME NEW p, NEW row, ~Covered(p, row)
  PROVE  row \notin DOMAIN work[p] /\ See(p, row) = db[row]
BY DEF Covered, See

\* Everything the invariant says of a process is about its own transaction and
\* what is committed.
LEMMA DecidedSame ==
  ASSUME NEW q \in Processes, db' = db, tx'[q] = tx[q] /\ work'[q] = work[q] /\ locks'[q] = locks[q], Decided(q)
  PROVE  Decided(q)'
<1>1. tx'[q] = tx[q] /\ work'[q] = work[q] /\ locks'[q] = locks[q]
  OBVIOUS
<1>2. \A row : See(q, row)' = See(q, row)
  BY <1>1 DEF See
<1>3. \A row : Covered(q, row)' = Covered(q, row) /\ Locked(q, row)' = Locked(q, row)
  BY <1>1 DEF Covered, Locked
<1>4. \A row, S : EndsIn(q, row, S)' = EndsIn(q, row, S)
  BY <1>1, <1>2 DEF EndsIn
<1>5. \A t : Joins(q, t)' = Joins(q, t) /\ Parts(q, t)' = Parts(q, t)
  BY <1>1, <1>3, <1>4 DEF Joins, Parts
<1>6. \A t : Held(q, t)' = Held(q, t)
  BY <1>3, <1>5 DEF Held
<1>7. ByTicketLocked(q)' = ByTicketLocked(q) /\ Preparing(q)' = Preparing(q)
  BY <1>1, <1>3, <1>4 DEF ByTicketLocked, Preparing, Deciding
<1>8. Settles(q)' = Settles(q)
  BY <1>1, <1>3, <1>5, <1>6 DEF Settles, Settled, Deciding
<1>9. Sweeps(q)' = Sweeps(q)
  BY <1>1, <1>3 DEF Sweeps
<1> QED
  BY <1>1, <1>7, <1>8, <1>9 DEF Decided

\* What is covered, and where it ends, after a step that only plans saves.
LEMMA PlanOf ==
  ASSUME NEW p \in Processes, NEW saves, NEW then, NEW h, Saving(p, saves, then, h)
  PROVE  /\ \A row : See(p, row)' = See(p, row)
         /\ \A row : Covered(p, row)' <=> Left(tx'[p], row) \/ row \in DOMAIN work[p]
         /\ \A row, S : EndsIn(p, row, S)' <=>
                          PlannedIn(tx'[p], row, S) /\ (Left(tx'[p], row) \/ See(p, row) \in S)
         /\ tx'[p].stage \in {then, "save"} /\ (saves = <<>> => tx'[p].stage = then)
<1>1. db' = db /\ work'[p] = work[p]
  BY DEF Saving, GoesOn
<1>2. \A row : See(p, row)' = See(p, row)
  BY <1>1 DEF See
<1> QED
  BY <1>1, <1>2 DEF Covered, EndsIn, Saving

\* A ticket that the next saves leave alone is settled as before.
LEMMA SetAside ==
  ASSUME NEW p, NEW t, tx[p].saves = <<>>, db' = db, work'[p] = work[p], locks[p] \subseteq locks'[p],
         ~Left(tx'[p], TicketRow(t)), ~Left(tx'[p], AssignmentRow(t))
  PROVE  /\ Covered(p, TicketRow(t))' <=> Covered(p, TicketRow(t))
         /\ Covered(p, AssignmentRow(t))' <=> Covered(p, AssignmentRow(t))
         /\ Locked(p, TicketRow(t)) => Locked(p, TicketRow(t))'
         /\ Settled(p, t) => Settled(p, t)'
<1> DEFINE tr == TicketRow(t)
<1> DEFINE ar == AssignmentRow(t)
<1>1. ~Left(tx[p], tr) /\ ~Left(tx[p], ar)
  BY NoSaves
<1>2. \A S : PlannedIn(tx'[p], tr, S) /\ PlannedIn(tx'[p], ar, S)
  BY DEF Left, PlannedIn
<1>3. \A row : See(p, row)' = See(p, row)
  BY DEF See
<1>4. /\ Covered(p, tr)' <=> Covered(p, tr)
      /\ Covered(p, ar)' <=> Covered(p, ar)
  BY <1>1 DEF Covered
<1>5. \A row : Locked(p, row) => Locked(p, row)'
  BY DEF Locked
<1>6. \A S : /\ EndsIn(p, tr, S) => EndsIn(p, tr, S)'
             /\ EndsIn(p, ar, S) => EndsIn(p, ar, S)'
  BY <1>1, <1>2, <1>3 DEF EndsIn
<1>7. (Joins(p, t) => Joins(p, t)') /\ (Parts(p, t) => Parts(p, t)')
  BY <1>6 DEF Joins, Parts
<1>8. Held(p, t) => Held(p, t)'
  BY <1>4, <1>5, <1>7 DEF Held
<1> QED
  BY <1>4, <1>5, <1>7, <1>8 DEF Settled

-----------------------------------------------------------------------------
(* The statements of a transaction, one by one. *)

\* Nothing is decided at the start.
LEMMA StartDecided ==
  ASSUME Inv, NEW p \in Processes, Start(p)
  PROVE  Decided(p)'
<1>1. /\ Typed' /\ tx[p] = None /\ work' = work
      /\ tx'[p].saves = <<>> /\ tx'[p].stage \in {"nested", "lock"}
      /\ tx'[p].stage = "nested" => tx'[p].kind \in {"break", "available", "action"}
  BY BeginDoes DEF Inv, LocksInv
<1>2. \A row : ~Covered(p, row)'
  BY <1>1, NoSaves DEF Covered, Inv, LocksInv, Idle
<1>3. tx'[p].kind \in ByTicket => tx'[p].stage = "lock"
  BY <1>1 DEF ByTicket
<1> QED
  BY <1>1, <1>2, <1>3 DEF Decided, ByTicketLocked, Preparing, Settles, Settled, Sweeps, Deciding

\* What a transaction knows before it decides.
LEMMA BeforeDeciding ==
  ASSUME Inv, NEW p \in Processes, tx[p] # None, tx[p].kind # "missed", ~Deciding(tx[p])
  PROVE  /\ ByTicketLocked(p) /\ Preparing(p)
         /\ \A t \in Tickets : /\ ~Covered(p, AssignmentRow(t)) /\ AssignmentRow(t) \notin DOMAIN work[p]
                               /\ Holder(p, t) = db[AssignmentRow(t)]
         /\ \A t \in Tickets :
              \/ tx[p].kind \in ByTicket \ {"callFromList"} /\ t = tx[p].t /\ tx[p].stage # "lock"
              \/ ~Covered(p, TicketRow(t)) /\ TicketRow(t) \notin DOMAIN work[p] /\ Status(p, t) = db[TicketRow(t)]
<1>1. ByTicketLocked(p) /\ Preparing(p)
  BY DEF Inv, Decided
<1>2. \A t \in Tickets : ~Covered(p, AssignmentRow(t))
  BY <1>1 DEF Preparing
<1>3. \A t \in Tickets : Covered(p, TicketRow(t)) =>
        tx[p].kind \in ByTicket \ {"callFromList"} /\ t = tx[p].t /\ tx[p].stage # "lock"
  BY <1>1 DEF Preparing
<1> QED
  BY <1>1, <1>2, <1>3, Untouched DEF Holder, Status

\* The employee is read on another connection.
LEMMA EnsureEmployeeDecided ==
  ASSUME Inv, NEW p \in Processes, EnsureEmployee(p)
  PROVE  Decided(p)'
<1>1. /\ tx[p] # None /\ tx[p].stage = "nested" /\ locks' = locks
      /\ Staying(p, IF tx[p].kind = "callFromList" THEN "look" ELSE "lock")
  BY EnsureEmployeeDoes DEF Inv, LocksInv
<1>2. Shaped(tx[p]) /\ tx[p].kind \in {"break", "available", "action", "callFromList"}
  BY <1>1, OfTx DEF Inv, LocksInv, Shaped
<1>3. ByTicketLocked(p) /\ Preparing(p) /\ ~Deciding(tx[p])
  BY <1>1, <1>2, BeforeDeciding DEF Deciding
<1>4. /\ db' = db /\ work'[p] = work[p] /\ tx'[p].saves = tx[p].saves
      /\ tx'[p].kind = tx[p].kind /\ tx'[p].t = tx[p].t
      /\ tx'[p].stage \in {"look", "lock"} /\ (tx[p].kind = "callFromList" => tx'[p].stage = "look")
  BY <1>1 DEF Staying, GoesOn
<1>5. \A row : Covered(p, row)' <=> Covered(p, row)
  BY <1>4 DEF Covered, Left
<1>6. ByTicketLocked(p)'
  BY <1>1, <1>3, <1>4 DEF ByTicketLocked, Locked
<1>7. tx[p].kind \notin ByTicket \ {"callFromList"}
  BY <1>2 DEF ByTicket
<1>8. Preparing(p)'
  BY <1>3, <1>4, <1>5, <1>7 DEF Preparing
<1>9. ~Deciding(tx'[p]) /\ tx'[p].kind # "missed"
  BY <1>2, <1>4 DEF Deciding
<1> QED
  BY <1>6, <1>8, <1>9 DEF Decided, Settles, Sweeps

\* The ticket is locked and found acceptable.
LEMMA LockTicketDecided ==
  ASSUME Inv, NEW p \in Processes, LockTicket(p)
  PROVE  Decided(p)'
<1> DEFINE x == tx[p]
<1> DEFINE row == TicketRow(x.t)
<1>1. /\ x # None /\ x.stage = "lock" /\ x.t \in Tickets
      /\ x.kind \in {"checkIn", "cancel", "missed", "callFromList"}
      /\ \/ Rolled(p)
         \/ /\ Gets(p, {<<row, "lock">>})
            /\ x.kind = "missed" /\ Saving(p, <<>>, "commit", None)
         \/ /\ Status(p, x.t) \in Accepted(x.kind)
            /\ Gets(p, {<<row, "lock">>})
            /\ \/ x.kind = "callFromList" /\ Staying(p, "nested")
               \/ x.kind # "callFromList" /\ Saving(p, <<Put(row, Becomes(x.kind))>>, "look", None)
  BY LockTicketDoes DEF Inv, LocksInv
<1>2. ~Deciding(x) /\ x.saves = <<>>
  BY <1>1, OfTx DEF Deciding, Inv, LocksInv, Shaped
<1>3. /\ Preparing(p) /\ Settles(p) /\ Sweeps(p)
      /\ \A t \in Tickets : (x.kind = "missed" => t = x.t) => ~Covered(p, AssignmentRow(t)) /\ ~Covered(p, TicketRow(t))
      /\ Status(p, x.t) = db[row]
  <2>1. Preparing(p) /\ Settles(p) /\ Sweeps(p)
    BY <1>1 DEF Inv, Decided
  <2>2. \A t \in Tickets : (x.kind = "missed" => t = x.t) => ~Covered(p, AssignmentRow(t)) /\ ~Covered(p, TicketRow(t))
    BY <1>1, <1>2, <2>1 DEF Preparing
  <2> QED
    BY <1>1, <2>1, <2>2, Untouched DEF Status
<1>7. ASSUME NEW t \in Tickets, t # x.t, db' = db, work'[p] = work[p], locks[p] \subseteq locks'[p],
             ~Left(tx'[p], TicketRow(t)), ~Left(tx'[p], AssignmentRow(t))
      PROVE  /\ Settled(p, t)'
             /\ Covered(p, TicketRow(t))' \/ Covered(p, AssignmentRow(t))' =>
                  x.kind = "missed" /\ Locked(p, TicketRow(t))'
  <2>1. Settled(p, t)
    BY <1>3, <1>7 DEF Settles, Settled
  <2>2. /\ Covered(p, TicketRow(t))' <=> Covered(p, TicketRow(t))
        /\ Covered(p, AssignmentRow(t))' <=> Covered(p, AssignmentRow(t))
        /\ Locked(p, TicketRow(t)) => Locked(p, TicketRow(t))'
        /\ Settled(p, t)'
    BY <1>2, <1>7, <2>1, SetAside
  <2>3. Covered(p, TicketRow(t)) \/ Covered(p, AssignmentRow(t)) => x.kind = "missed" /\ Locked(p, TicketRow(t))
    BY <1>3, <1>7 DEF Sweeps
  <2> QED
    BY <2>2, <2>3
<1>4. CASE Rolled(p)
  BY <1>4 DEF Rolled, Decided
<1>5. CASE /\ Status(p, x.t) \in Accepted(x.kind) /\ Gets(p, {<<row, "lock">>})
           /\ x.kind = "callFromList" /\ Staying(p, "nested")
  <2>1. /\ db' = db /\ work'[p] = work[p] /\ tx'[p].saves = x.saves
        /\ tx'[p].kind = x.kind /\ tx'[p].t = x.t /\ tx'[p].stage = "nested"
    BY <1>5 DEF Staying, GoesOn
  <2>2. \A r : Covered(p, r)' <=> Covered(p, r)
    BY <2>1 DEF Covered, Left
  <2>3. ByTicketLocked(p)'
    BY <1>1, <1>3, <1>5, <2>1 DEF ByTicketLocked, Locked, Gets
  <2>4. ~Deciding(tx'[p])
    BY <2>1 DEF Deciding
  <2>5. Preparing(p)'
    BY <1>3, <1>5, <2>1, <2>2 DEF Preparing
  <2> QED
    BY <1>5, <2>1, <2>3, <2>4, <2>5 DEF Decided, Settles, Sweeps
<1>6. CASE /\ Status(p, x.t) \in Accepted(x.kind) /\ Gets(p, {<<row, "lock">>})
           /\ x.kind # "callFromList" /\ Saving(p, <<Put(row, Becomes(x.kind))>>, "look", None)
  <2> DEFINE v == Becomes(x.kind)
  <2> DEFINE f == Put(row, v)
  <2>1. v \in TicketStatus
    BY <1>1, <1>6 DEF Becomes, TicketStatus
  <2>2. DOMAIN f = {row} /\ f[row] = v
    BY <1>1, <2>1, PutRows
  <2>3. Saving(p, <<f>>, "look", None)
    BY <1>6
  <2> HIDE DEF f
  <2>4. /\ db' = db /\ work'[p] = work[p] /\ tx'[p].saves = <<f>> /\ tx'[p].then = "look"
        /\ tx'[p].kind = x.kind /\ tx'[p].t = x.t /\ tx'[p].stage = "save"
    BY <2>3 DEF Saving, GoesOn
  <2>5. \A r : /\ Left(tx'[p], r) <=> r = row
               /\ \A S : PlannedIn(tx'[p], r, S) <=> (r = row => v \in S)
    <3>1. \A r : /\ Left(tx'[p], r) <=> r \in DOMAIN f
                 /\ \A S : PlannedIn(tx'[p], r, S) <=> (r \in DOMAIN f => f[r] \in S)
      BY <2>4, OneSave
    <3>2. \A r : r \in DOMAIN f <=> r = row
      BY <2>2
    <3> HIDE DEF row, v
    <3> TAKE r
    <3>3. Left(tx'[p], r) <=> r = row
      BY <3>1, <3>2
    <3>4. ASSUME NEW S
          PROVE  PlannedIn(tx'[p], r, S) <=> (r = row => v \in S)
      BY <2>2, <3>1, <3>2
    <3> QED
      BY <3>3, <3>4
  <2>6. \A r : Covered(p, r)' <=> r = row \/ r \in DOMAIN work[p]
    BY <2>4, <2>5 DEF Covered
  <2>7. \A t \in Tickets : (x.kind = "missed" => t = x.t) =>
          /\ ~Covered(p, AssignmentRow(t))'
          /\ Covered(p, TicketRow(t))' => t = x.t
    <3>1. \A t \in Tickets : AssignmentRow(t) # row /\ (TicketRow(t) = row => t = x.t)
      BY RowsApart
    <3>2. \A t \in Tickets : (x.kind = "missed" => t = x.t) =>
            AssignmentRow(t) \notin DOMAIN work[p] /\ TicketRow(t) \notin DOMAIN work[p]
      BY <1>3, Untouched
    <3> QED
      BY <2>6, <3>1, <3>2
  <2>8. EndsIn(p, TicketRow(x.t), {v})'
    BY <2>4, <2>5 DEF EndsIn
  <2>9. ByTicketLocked(p)'
    BY <1>1, <1>3, <1>6, <2>4 DEF ByTicketLocked, Locked, Gets
  <2>10. ~Deciding(tx'[p])
    BY <2>4 DEF Deciding
  <2>11. Preparing(p)'
    BY <1>1, <1>6, <2>4, <2>7, <2>8 DEF Preparing, ByTicket
  <2>12. ASSUME NEW t \in Tickets, t # x.t
         PROVE  /\ Settled(p, t)'
                /\ Covered(p, TicketRow(t))' \/ Covered(p, AssignmentRow(t))' =>
                     x.kind = "missed" /\ Locked(p, TicketRow(t))'
    <3>1. ~Left(tx'[p], TicketRow(t)) /\ ~Left(tx'[p], AssignmentRow(t))
      BY <1>1, <2>5, <2>12, RowsApart
    <3>2. locks[p] \subseteq locks'[p]
      BY <1>6 DEF Gets
    <3> QED
      BY <1>7, <2>4, <2>12, <3>1, <3>2
  <2>13. Settles(p)'
    BY <2>4, <2>10, <2>12 DEF Settles
  <2>14. Sweeps(p)'
    <3>1. <<row, "lock">> \in locks'[p]
      BY <1>6 DEF Gets
    <3> QED
      BY <2>4, <2>12, <3>1 DEF Sweeps, Locked
  <2> QED
    BY <2>9, <2>11, <2>13, <2>14 DEF Decided
<1>8. CASE Gets(p, {<<row, "lock">>}) /\ x.kind = "missed" /\ Saving(p, <<>>, "commit", None)
  <2>1. /\ db' = db /\ work'[p] = work[p] /\ tx'[p].saves = <<>> /\ tx'[p].then = "commit"
        /\ tx'[p].kind = "missed" /\ tx'[p].t = x.t /\ tx'[p].stage = "commit" /\ locks[p] \subseteq locks'[p]
    BY <1>8 DEF Saving, GoesOn, Gets
  <2>2. \A r : ~Left(tx'[p], r)
    BY <2>1, NoSaves
  <2>3. Deciding(tx'[p])
    BY <2>1 DEF Deciding
  <2>4. ~Covered(p, TicketRow(x.t))' /\ ~Covered(p, AssignmentRow(x.t))'
    BY <1>1, <1>3, <2>1, <2>2 DEF Covered
  <2>5. \A t \in Tickets : Settled(p, t)' /\ (Covered(p, TicketRow(t))' \/ Covered(p, AssignmentRow(t))' => Locked(p, TicketRow(t))')
    <3> TAKE t \in Tickets
    <3>1. CASE t = x.t
      BY <2>1, <2>4, <3>1 DEF Settled
    <3>2. CASE t # x.t
      BY <1>7, <2>1, <2>2, <3>2
    <3> QED
      BY <3>1, <3>2
  <2> QED
    BY <2>1, <2>3, <2>5 DEF Decided, ByTicketLocked, Preparing, Settles, Sweeps
<1> QED
  BY <1>1, <1>4, <1>5, <1>6, <1>8

\* The sweep goes on: what it has settled stays settled, and the next ticket is new.
LEMMA NextMissedDecided ==
  ASSUME Inv, NEW p \in Processes, NextMissed(p)
  PROVE  Decided(p)'
<1>1. /\ tx[p] # None /\ tx[p].stage = "commit" /\ tx[p].kind = "missed" /\ tx[p].saves = <<>>
      /\ tx'[p] # None /\ tx'[p].stage = "lock" /\ tx'[p].kind = "missed" /\ tx'[p].saves = <<>>
      /\ tx'[p].t \in Tickets /\ ~Locked(p, TicketRow(tx'[p].t))
      /\ db' = db /\ work' = work /\ locks' = locks
  BY NextMissedDoes DEF Inv, LocksInv, Locked
<1>2. Deciding(tx[p]) /\ ~Deciding(tx'[p])
  BY <1>1, OfTx DEF Inv, LocksInv, Shaped, Deciding
<1>3. /\ \A t \in Tickets : Settled(p, t)
      /\ \A t \in Tickets : Covered(p, TicketRow(t)) \/ Covered(p, AssignmentRow(t)) => Locked(p, TicketRow(t))
  BY <1>1, <1>2 DEF Inv, Decided, Settles, Sweeps
<1>4. \A row : ~Left(tx'[p], row)
  BY <1>1, NoSaves
<1>5. \A t \in Tickets : /\ Settled(p, t)'
                         /\ Covered(p, TicketRow(t))' <=> Covered(p, TicketRow(t))
                         /\ Covered(p, AssignmentRow(t))' <=> Covered(p, AssignmentRow(t))
                         /\ Locked(p, TicketRow(t)) => Locked(p, TicketRow(t))'
  BY <1>1, <1>3, <1>4, SetAside
<1>6. Settles(p)' /\ Sweeps(p)'
  BY <1>3, <1>5 DEF Settles, Sweeps
<1>7. Preparing(p)'
  BY <1>1, <1>3, <1>5 DEF Preparing
<1> QED
  BY <1>1, <1>6, <1>7 DEF Decided, ByTicketLocked

\* Somebody begins to work, or the dispatcher takes an employee: no client yet.
LEMMA EmployeeDecided ==
  ASSUME Inv, NEW p \in Processes, StartWork(p) \/ LockEmployee(p)
  PROVE  Decided(p)'
<1>1. /\ tx[p] # None /\ tx[p].stage = "lock" /\ tx[p].kind \in {"available", "dispatch"} /\ tx[p].e \in Employees
      /\ \/ Rolled(p)
         \/ Saving(p, <<Put(EmployeeRow(tx[p].e), "AVAILABLE")>>, "look", None)
         \/ Staying(p, "look")
  BY StartWorkDoes, LockEmployeeDoes DEF Inv, LocksInv
<1>2. ~Deciding(tx[p])
  BY <1>1 DEF Deciding
<1>3. \A t \in Tickets : /\ ~Covered(p, AssignmentRow(t)) /\ ~Covered(p, TicketRow(t))
  BY <1>1, <1>2, BeforeDeciding
<1>4. CASE Rolled(p)
  BY <1>4 DEF Rolled, Decided
<1>5. ASSUME ~Deciding(tx'[p]), \A t \in Tickets : ~Covered(p, AssignmentRow(t))' /\ ~Covered(p, TicketRow(t))',
             tx'[p].kind \in {"available", "dispatch"}
      PROVE  Decided(p)'
  BY <1>5 DEF Decided, ByTicketLocked, Preparing, Settles, Sweeps, ByTicket
<1>6. CASE Staying(p, "look")
  <2>1. /\ work'[p] = work[p] /\ tx'[p].saves = tx[p].saves
        /\ tx'[p].kind = tx[p].kind /\ tx'[p].stage = "look"
    BY <1>6 DEF Staying, GoesOn
  <2>2. \A row : Covered(p, row)' <=> Covered(p, row)
    BY <2>1 DEF Covered, Left
  <2> QED
    BY <1>1, <1>3, <1>5, <2>1, <2>2 DEF Deciding
<1>7. CASE Saving(p, <<Put(EmployeeRow(tx[p].e), "AVAILABLE")>>, "look", None)
  <2> DEFINE row == EmployeeRow(tx[p].e)
  <2> DEFINE f == Put(row, "AVAILABLE")
  <2>1. DOMAIN f = {row}
    BY <1>1, PutRows DEF EmployeeStatus
  <2>2. Saving(p, <<f>>, "look", None)
    BY <1>7
  <2> HIDE DEF f
  <2>3. /\ work'[p] = work[p] /\ tx'[p].saves = <<f>> /\ tx'[p].then = "look"
        /\ tx'[p].kind = tx[p].kind
    BY <2>2 DEF Saving, GoesOn
  <2>4. \A r : Left(tx'[p], r) <=> r = row
    BY <2>1, <2>3, OneSave
  <2>5. \A t \in Tickets : TicketRow(t) # row /\ AssignmentRow(t) # row
    BY RowsApart
  <2>6. \A t \in Tickets : ~Covered(p, AssignmentRow(t))' /\ ~Covered(p, TicketRow(t))'
    BY <1>3, <2>3, <2>4, <2>5 DEF Covered
  <2> QED
    BY <1>1, <1>5, <2>3, <2>6 DEF Deciding
<1> QED
  BY <1>1, <1>4, <1>6, <1>7

\* A transaction decides about one client more, or about none.
LEMMA DecidesAmong ==
  ASSUME NEW p \in Processes, tx[p] # None, ByTicketLocked(p), tx[p].kind \in ByTicket => tx[p].stage # "lock",
         NEW saves, NEW h, Saving(p, saves, "commit", h), locks[p] \subseteq locks'[p], NEW u \in Tickets,
         \A t \in Tickets \ {u} :
           \/ ~Covered(p, TicketRow(t))' /\ ~Covered(p, AssignmentRow(t))'
           \/ Settled(p, t)' /\ Locked(p, TicketRow(t))',
         tx[p].kind = "missed" => Locked(p, TicketRow(u))',
         \/ ~Covered(p, TicketRow(u))' /\ ~Covered(p, AssignmentRow(u))'
         \/ Held(p, u)' /\ (Joins(p, u)' \/ Parts(p, u)')
  PROVE  Decided(p)'
<1>1. /\ db' = db /\ tx'[p].kind = tx[p].kind /\ tx'[p].t = tx[p].t
      /\ tx'[p].stage \in {"save", "commit"} /\ tx'[p].then = "commit"
  BY DEF Saving, GoesOn
<1>2. ByTicketLocked(p)'
  BY <1>1 DEF ByTicketLocked, Locked, Deciding
<1>3. Preparing(p)'
  BY <1>1 DEF Preparing, Deciding
<1>4. Settles(p)'
  BY DEF Settles, Settled
<1>5. Sweeps(p)'
  BY <1>1 DEF Sweeps
<1> QED
  BY <1>2, <1>3, <1>4, <1>5 DEF Decided

\* A transaction decides about one client, or about none.
LEMMA DecidesOne ==
  ASSUME NEW p \in Processes, tx[p] # None, ByTicketLocked(p), tx[p].kind \in ByTicket => tx[p].stage # "lock",
         tx[p].kind # "missed",
         NEW saves, NEW h, Saving(p, saves, "commit", h), locks[p] \subseteq locks'[p], NEW u \in Tickets,
         \A t \in Tickets \ {u} : ~Covered(p, TicketRow(t))' /\ ~Covered(p, AssignmentRow(t))',
         \/ ~Covered(p, TicketRow(u))' /\ ~Covered(p, AssignmentRow(u))'
         \/ Held(p, u)' /\ (Joins(p, u)' \/ Parts(p, u)')
  PROVE  Decided(p)'
BY DecidesAmong

\* Nobody is decided about when no ticket is covered.
LEMMA DecidesNone ==
  ASSUME NEW p \in Processes, tx[p] # None, ByTicketLocked(p), tx[p].kind \in ByTicket => tx[p].stage # "lock",
         NEW h, Saving(p, <<>>, "commit", h), locks[p] \subseteq locks'[p],
         \A t \in Tickets : ~Covered(p, TicketRow(t)) /\ ~Covered(p, AssignmentRow(t))
  PROVE  Decided(p)'
<1>1. /\ db' = db /\ tx'[p].kind = tx[p].kind /\ tx'[p].t = tx[p].t /\ work'[p] = work[p]
      /\ tx'[p].stage \in {"save", "commit"} /\ tx'[p].then = "commit" /\ tx'[p].saves = <<>>
  BY DEF Saving, GoesOn
<1>2. ByTicketLocked(p)'
  BY <1>1 DEF ByTicketLocked, Locked, Deciding
<1>3. Preparing(p)'
  BY <1>1 DEF Preparing, Deciding
<1>4. \A row : ~Left(tx'[p], row)
  BY <1>1, NoSaves
<1>5. Settles(p)' /\ Sweeps(p)'
  BY <1>1, <1>4 DEF Settles, Settled, Sweeps, Covered
<1> QED
  BY <1>2, <1>3, <1>5 DEF Decided

\* What ends in a set when the row is planned, and when it is not.
LEMMA EndsAfter ==
  ASSUME NEW p \in Processes, NEW saves, NEW then, NEW h, Saving(p, saves, then, h), NEW row, NEW S,
         PlannedIn(tx'[p], row, S), Left(tx'[p], row) \/ See(p, row) \in S
  PROVE  EndsIn(p, row, S)'
BY PlanOf

\* assignmentAction: the assignment is locked and somebody's own.
LEMMA LockAssignmentDecided ==
  ASSUME Inv, NEW p \in Processes, LockAssignment(p)
  PROVE  Decided(p)'
<1>0. PICK u \in Tickets, e \in Employees, act \in Actions : tx[p].t = u /\ tx[p].e = e /\ tx[p].act = act
  BY LockAssignmentDoes DEF Inv, LocksInv
<1> DEFINE tr == TicketRow(u)
<1> DEFINE ar == AssignmentRow(u)
<1>1. /\ tx[p] # None /\ tx[p].stage = "lock" /\ tx[p].kind = "action"
      /\ \/ Rolled(p)
         \/ \E next \in TicketStatus :
              /\ IF act \in {"CALL", "START"} THEN next \in {"CALLED", "IN_SERVICE"}
                                                ELSE next \in {"COMPLETED", "REQUEUED", "NO_SHOW"}
              /\ Holder(p, u) = e
              /\ Gets(p, {<<ar, "lock">>})
              /\ Saving(p, <<Saved(u, e, act, next)>>, "commit", e)
  BY <1>0, LockAssignmentDoes DEF Inv, LocksInv
<1>2. ~Deciding(tx[p])
  BY <1>1 DEF Deciding
<1>3. /\ ByTicketLocked(p)
      /\ \A t \in Tickets : /\ AssignmentRow(t) \notin DOMAIN work[p] /\ TicketRow(t) \notin DOMAIN work[p]
                            /\ Holder(p, t) = db[AssignmentRow(t)]
  BY <1>1, <1>2, BeforeDeciding
<1>4. CASE Rolled(p)
  BY <1>4 DEF Rolled, Decided
<1>5. ASSUME NEW next \in TicketStatus,
             IF act \in {"CALL", "START"} THEN next \in {"CALLED", "IN_SERVICE"}
                                            ELSE next \in {"COMPLETED", "REQUEUED", "NO_SHOW"},
             Holder(p, u) = e, Gets(p, {<<ar, "lock">>}),
             Saving(p, <<Saved(u, e, act, next)>>, "commit", e)
      PROVE  Decided(p)'
  <2> DEFINE f == Saved(u, e, act, next)
  <2> DEFINE stays == act \in {"CALL", "START"}
  <2>1. /\ DOMAIN f = {tr, EmployeeRow(e)} \cup (IF stays THEN {} ELSE {ar})
        /\ f[tr] = next /\ (~stays => f[ar] = None)
    <3>1. Typed
      BY DEF Inv, LocksInv
    <3> QED
      BY <3>1, SavedRows
  <2>2. Saving(p, <<f>>, "commit", e)
    BY <1>5
  <2> HIDE DEF f
  <2>3. /\ db' = db /\ work'[p] = work[p] /\ tx'[p].saves = <<f>> /\ tx'[p].holder = e
    BY <2>2 DEF Saving, GoesOn
  <2>4. \A r : /\ Left(tx'[p], r) <=> r \in DOMAIN f
               /\ \A S : PlannedIn(tx'[p], r, S) <=> (r \in DOMAIN f => f[r] \in S)
    BY <2>3, OneSave
  <2>5. \A t \in Tickets : /\ TicketRow(t) \in DOMAIN f <=> t = u
                           /\ AssignmentRow(t) \in DOMAIN f <=> t = u /\ ~stays
    BY <2>1, RowsApart
  <2>6. \A t \in Tickets : /\ Covered(p, TicketRow(t))' <=> t = u
                           /\ Covered(p, AssignmentRow(t))' <=> t = u /\ ~stays
    BY <1>3, <2>3, <2>4, <2>5 DEF Covered
  <2>7. db[ar] = e /\ e # None /\ See(p, ar) = e
    BY <1>1, <1>3, <1>5, TransactionsAssumption DEF Holder
  <2>8. stays => Joins(p, u)'
    <3> SUFFICES ASSUME stays PROVE Joins(p, u)'
      OBVIOUS
    <3>1. Left(tx'[p], tr) /\ PlannedIn(tx'[p], tr, Hand)
      BY <1>1, <1>5, <2>1, <2>4, <2>5 DEF Hand
    <3>2. See(p, ar) \in Employees /\ PlannedIn(tx'[p], ar, Employees)
      BY <1>1, <2>4, <2>5, <2>7
    <3> QED
      BY <2>2, <3>1, <3>2, EndsAfter DEF Joins
  <2>9. ~stays => Parts(p, u)'
    <3> SUFFICES ASSUME ~stays PROVE Parts(p, u)'
      OBVIOUS
    <3>1. Left(tx'[p], tr) /\ PlannedIn(tx'[p], tr, TicketStatus \ Hand)
      BY <1>1, <1>5, <2>1, <2>4, <2>5 DEF Hand
    <3>2. Left(tx'[p], ar) /\ PlannedIn(tx'[p], ar, {None})
      BY <1>1, <2>1, <2>4, <2>5
    <3>3. EndsIn(p, tr, TicketStatus \ Hand)' /\ EndsIn(p, ar, {None})'
      BY <2>2, <3>1, <3>2, EndsAfter
    <3> QED
      BY <1>1, <1>3, <2>3, <2>7, <3>3 DEF Parts
  <2>10. Held(p, u)'
    <3>1. Locked(p, ar)'
      BY <1>5 DEF Gets, Locked
    <3> QED
      BY <1>1, <2>3, <2>6, <2>7, <2>9, <3>1 DEF Held
  <2>11. locks[p] \subseteq locks'[p]
    BY <1>5 DEF Gets
  <2> QED
    BY <1>1, <1>3, <2>2, <2>6, <2>8, <2>9, <2>10, <2>11, DecidesOne DEF ByTicket
<1> QED
  BY <1>1, <1>4, <1>5

\* expireCalls: the assignment is locked, the client was called.
LEMMA LockExpiredCallDecided ==
  ASSUME Inv, NEW p \in Processes, LockExpiredCall(p)
  PROVE  Decided(p)'
<1>0. PICK u \in Tickets, h \in Employees \cup {None} : tx[p].t = u /\ Holder(p, u) = h
  BY LockExpiredCallDoes, SeenFits DEF Inv, LocksInv
<1> DEFINE tr == TicketRow(u)
<1> DEFINE ar == AssignmentRow(u)
<1>1. /\ tx[p] # None /\ tx[p].stage = "lock" /\ tx[p].kind = "expireCall"
      /\ \/ Rolled(p)
         \/ /\ h \in Employees
            /\ Gets(p, {<<ar, "lock">>})
            /\ \E s \in {"REQUEUED", "NO_SHOW"} :
                 Saving(p, <<Put(ar, None), Put(tr, s), Put(EmployeeRow(h), "AVAILABLE")>>, "commit", h)
  BY <1>0, LockExpiredCallDoes DEF Inv, LocksInv
<1>2. ~Deciding(tx[p])
  BY <1>1 DEF Deciding
<1>3. /\ ByTicketLocked(p)
      /\ \A t \in Tickets : /\ AssignmentRow(t) \notin DOMAIN work[p] /\ TicketRow(t) \notin DOMAIN work[p]
                            /\ Holder(p, t) = db[AssignmentRow(t)]
  BY <1>1, <1>2, BeforeDeciding
<1>4. CASE Rolled(p)
  BY <1>4 DEF Rolled, Decided
<1>5. ASSUME NEW s \in {"REQUEUED", "NO_SHOW"}, h \in Employees, Gets(p, {<<ar, "lock">>}),
             Saving(p, <<Put(ar, None), Put(tr, s), Put(EmployeeRow(h), "AVAILABLE")>>, "commit", h)
      PROVE  Decided(p)'
  <2> DEFINE a == Put(ar, None)
  <2> DEFINE b == Put(tr, s)
  <2> DEFINE c == Put(EmployeeRow(h), "AVAILABLE")
  <2>1. /\ DOMAIN a = {ar} /\ a[ar] = None
        /\ DOMAIN b = {tr} /\ b[tr] = s
        /\ DOMAIN c = {EmployeeRow(h)}
    BY <1>5, PutRows DEF TicketStatus, EmployeeStatus
  <2>2. Saving(p, <<a, b, c>>, "commit", h)
    BY <1>5
  <2> HIDE DEF a, b, c
  <2>3. /\ db' = db /\ work'[p] = work[p] /\ tx'[p].saves = <<a, b, c>> /\ tx'[p].holder = h
    BY <2>2 DEF Saving, GoesOn
  <2>4. \A r : /\ Left(tx'[p], r) <=> r \in DOMAIN a \cup DOMAIN b \cup DOMAIN c
               /\ \A S : PlannedIn(tx'[p], r, S) <=>
                    /\ r \in DOMAIN a => a[r] \in S
                    /\ r \in DOMAIN b => b[r] \in S
                    /\ r \in DOMAIN c => c[r] \in S
    <3>1. tx'[p].saves = <<a, b, c>>
      BY <2>3
    <3> QED
      BY <3>1, ThreeSaves, ZenonT(30)
  <2>5. \A t \in Tickets : /\ TicketRow(t) \notin DOMAIN a /\ TicketRow(t) \notin DOMAIN c
                           /\ TicketRow(t) \in DOMAIN b <=> t = u
                           /\ AssignmentRow(t) \notin DOMAIN b /\ AssignmentRow(t) \notin DOMAIN c
                           /\ AssignmentRow(t) \in DOMAIN a <=> t = u
    BY <2>1, RowsApart
  <2>6. \A t \in Tickets : /\ Covered(p, TicketRow(t))' <=> t = u
                           /\ Covered(p, AssignmentRow(t))' <=> t = u
    <3>1. \A t \in Tickets : /\ Left(tx'[p], TicketRow(t)) <=> t = u
                             /\ Left(tx'[p], AssignmentRow(t)) <=> t = u
      BY <2>4, <2>5
    <3> QED
      BY <1>3, <2>3, <3>1 DEF Covered
  <2>7. db[ar] = h /\ h # None
    BY <1>0, <1>3, <1>5, TransactionsAssumption
  <2>8. Parts(p, u)'
    <3>1. Left(tx'[p], tr) /\ PlannedIn(tx'[p], tr, TicketStatus \ Hand)
      <4>1. s \in TicketStatus \ Hand
        BY DEF TicketStatus, Hand
      <4> QED
        BY <2>1, <2>4, <2>5, <4>1
    <3>2. Left(tx'[p], ar) /\ PlannedIn(tx'[p], ar, {None})
      BY <2>1, <2>4, <2>5
    <3>3. EndsIn(p, tr, TicketStatus \ Hand)' /\ EndsIn(p, ar, {None})'
      BY <2>2, <3>1, <3>2, EndsAfter
    <3> QED
      BY <1>3, <2>3, <2>7, <3>3 DEF Parts
  <2>9. Held(p, u)'
    <3>1. Locked(p, ar)'
      BY <1>5 DEF Gets, Locked
    <3> QED
      BY <2>3, <2>6, <2>7, <2>8, <3>1 DEF Held
  <2>10. locks[p] \subseteq locks'[p]
    BY <1>5 DEF Gets
  <2> QED
    BY <1>1, <1>3, <2>2, <2>6, <2>8, <2>9, <2>10, DecidesOne DEF ByTicket
<1> QED
  BY <1>1, <1>4, <1>5

\* The second look of a request about a ticket.
LEMMA AtLook ==
  ASSUME Inv, NEW p \in Processes, tx[p] # None, tx[p].stage = "look", tx[p].kind \in ByTicket, NEW u \in Tickets,
         tx[p].t = u
  PROVE  /\ ByTicketLocked(p) /\ Locked(p, TicketRow(u)) /\ db[TicketRow(u)] \in Accepted(tx[p].kind)
         /\ IF tx[p].kind = "callFromList" THEN TicketRow(u) \notin DOMAIN work[p]
                                           ELSE See(p, TicketRow(u)) = Becomes(tx[p].kind)
         /\ \A t \in Tickets : (tx[p].kind = "missed" => t = u) =>
              AssignmentRow(t) \notin DOMAIN work[p] /\ Holder(p, t) = db[AssignmentRow(t)]
         /\ \A t \in Tickets \ {u} : tx[p].kind # "missed" => TicketRow(t) \notin DOMAIN work[p]
         /\ tx[p].saves = <<>>
<1>1. /\ ~Deciding(tx[p]) /\ ByTicketLocked(p) /\ Preparing(p)
      /\ \A t \in Tickets : (tx[p].kind = "missed" => t = u) => ~Covered(p, AssignmentRow(t))
      /\ \A t \in Tickets \ {u} : tx[p].kind # "missed" => ~Covered(p, TicketRow(t))
      /\ tx[p].kind = "callFromList" => ~Covered(p, TicketRow(u))
  <2>1. ~Deciding(tx[p]) /\ ByTicketLocked(p) /\ Preparing(p)
    BY DEF Deciding, Inv, Decided
  <2> QED
    BY <2>1 DEF Preparing
<1>2. Typed /\ tx[p].saves = <<>>
  <2>1. Typed
    BY DEF Inv, LocksInv
  <2>2. Shaped(tx[p])
    BY <2>1 DEF Typed
  <2> QED
    BY <2>1, <2>2 DEF Shaped
<1>3. ~Left(tx[p], TicketRow(u))
  BY <1>2, NoSaves
<1>4. tx[p].kind # "callFromList" => EndsIn(p, TicketRow(u), {Becomes(tx[p].kind)})
  BY <1>1 DEF Preparing
<1>5. Locked(p, TicketRow(u)) /\ db[TicketRow(u)] \in Accepted(tx[p].kind)
  BY <1>1 DEF ByTicketLocked
<1>6. IF tx[p].kind = "callFromList" THEN TicketRow(u) \notin DOMAIN work[p]
                                     ELSE See(p, TicketRow(u)) = Becomes(tx[p].kind)
  BY <1>1, <1>3, <1>4, Untouched DEF EndsIn
<1> QED
  BY <1>1, <1>2, <1>5, <1>6, Untouched DEF Holder

\* checkIn: the client stays in the queue, or is given to somebody.
LEMMA LookForEmployeeDecided ==
  ASSUME Inv, NEW p \in Processes, LookForEmployee(p)
  PROVE  Decided(p)'
<1>0. PICK u \in Tickets : tx[p].t = u
  BY LookForEmployeeDoes DEF Inv, LocksInv
<1> DEFINE tr == TicketRow(u)
<1> DEFINE ar == AssignmentRow(u)
<1>1. /\ tx[p] # None /\ tx[p].stage = "look" /\ tx[p].kind = "checkIn" /\ locks' = locks
      /\ \/ Saving(p, <<>>, "commit", None)
         \/ \E e \in Employees : Saving(p, <<Assign(u, e)>>, "commit", None)
  BY <1>0, LookForEmployeeDoes DEF Inv, LocksInv
<1>2. /\ ByTicketLocked(p) /\ Locked(p, tr) /\ db[tr] = "BOOKED" /\ See(p, tr) = "CHECKED_IN"
      /\ \A t \in Tickets : AssignmentRow(t) \notin DOMAIN work[p] /\ Holder(p, t) = db[AssignmentRow(t)]
      /\ \A t \in Tickets \ {u} : TicketRow(t) \notin DOMAIN work[p]
  BY <1>0, <1>1, AtLook DEF ByTicket, Accepted, Becomes
<1>3. db[ar] = None /\ See(p, ar) = None
  <2>1. ~InHand(u)
    BY <1>2 DEF InHand
  <2> QED
    BY <1>2, <2>1 DEF Inv, NobodyStranded, Holder
<1>4. ASSUME db' = db PROVE Held(p, u)'
  <2>1. Locked(p, tr)'
    BY <1>1, <1>2 DEF Locked
  <2> QED
    BY <1>2, <1>4, <2>1 DEF Held, Terminal
<1>5. CASE Saving(p, <<>>, "commit", None)
  <2>1. db' = db /\ work'[p] = work[p] /\ tx'[p].saves = <<>>
    BY <1>5 DEF Saving, GoesOn
  <2>2. \A r : ~Left(tx'[p], r) /\ \A S : PlannedIn(tx'[p], r, S)
    BY <2>1, NoSaves
  <2>3. /\ \A t \in Tickets : ~Covered(p, AssignmentRow(t))'
        /\ \A t \in Tickets \ {u} : ~Covered(p, TicketRow(t))'
    BY <1>2, <2>1, <2>2 DEF Covered
  <2>4. Parts(p, u)'
    <3>1. "CHECKED_IN" \in TicketStatus \ Hand
      BY DEF TicketStatus, Hand
    <3>2. EndsIn(p, tr, TicketStatus \ Hand)' /\ EndsIn(p, ar, {None})'
      BY <1>2, <1>3, <1>5, <2>2, <3>1, EndsAfter
    <3> QED
      BY <1>2, <2>1, <2>2, <3>2 DEF Parts
  <2> QED
    BY <1>1, <1>2, <1>4, <1>5, <2>1, <2>3, <2>4, DecidesOne
<1>6. ASSUME NEW e \in Employees, Saving(p, <<Assign(u, e)>>, "commit", None)
      PROVE  Decided(p)'
  <2> DEFINE f == Assign(u, e)
  <2>1. DOMAIN f = {tr, EmployeeRow(e), ar} /\ f[tr] = "ASSIGNED" /\ f[ar] = e
    BY AssignRows
  <2>2. Saving(p, <<f>>, "commit", None)
    BY <1>6
  <2> HIDE DEF f
  <2>3. db' = db /\ work'[p] = work[p] /\ tx'[p].saves = <<f>>
    BY <2>2 DEF Saving, GoesOn
  <2>4. \A r : /\ Left(tx'[p], r) <=> r \in DOMAIN f
               /\ \A S : PlannedIn(tx'[p], r, S) <=> (r \in DOMAIN f => f[r] \in S)
    BY <2>3, OneSave
  <2>5. \A t \in Tickets \ {u} : TicketRow(t) \notin DOMAIN f /\ AssignmentRow(t) \notin DOMAIN f
    BY <2>1, RowsApart
  <2>6. \A t \in Tickets \ {u} : ~Covered(p, TicketRow(t))' /\ ~Covered(p, AssignmentRow(t))'
    BY <1>2, <2>3, <2>4, <2>5 DEF Covered
  <2>7. Joins(p, u)'
    <3>1. Left(tx'[p], tr) /\ PlannedIn(tx'[p], tr, Hand)
      BY <2>1, <2>4 DEF Hand
    <3>2. Left(tx'[p], ar) /\ PlannedIn(tx'[p], ar, Employees)
      BY <2>1, <2>4
    <3> QED
      BY <2>2, <3>1, <3>2, EndsAfter DEF Joins
  <2> QED
    BY <1>1, <1>2, <1>4, <2>2, <2>3, <2>6, <2>7, DecidesOne
<1> QED
  BY <1>1, <1>5, <1>6

\* cancel, missed: the assignment that is left behind is ended.
LEMMA LookForAssignmentDecided ==
  ASSUME Inv, NEW p \in Processes, LookForAssignment(p)
  PROVE  Decided(p)'
<1>0. PICK u \in Tickets, h \in Employees \cup {None} : tx[p].t = u /\ Holder(p, u) = h
  BY LookForAssignmentDoes, SeenFits DEF Inv, LocksInv
<1> DEFINE tr == TicketRow(u)
<1> DEFINE ar == AssignmentRow(u)
<1>1. /\ tx[p] # None /\ tx[p].stage = "look" /\ tx[p].kind \in {"cancel", "missed"} /\ locks' = locks
      /\ \/ h = None /\ Saving(p, <<>>, "commit", None)
         \/ /\ h \in Employees
            /\ \E f \in Writes : /\ Saving(p, <<f>>, "commit", h)
                                 /\ DOMAIN f = {ar, EmployeeRow(h)}
                                 /\ f[ar] = None
  BY <1>0, LookForAssignmentDoes DEF Inv, LocksInv
<1>2. /\ ByTicketLocked(p) /\ Locked(p, tr) /\ db[tr] \in Accepted(tx[p].kind) /\ See(p, tr) = Becomes(tx[p].kind)
      /\ ar \notin DOMAIN work[p] /\ Holder(p, u) = db[ar] /\ tx[p].saves = <<>>
      /\ \A t \in Tickets \ {u} : tx[p].kind # "missed" =>
           AssignmentRow(t) \notin DOMAIN work[p] /\ TicketRow(t) \notin DOMAIN work[p]
  BY <1>0, <1>1, AtLook DEF ByTicket
<1>3. db[tr] \notin Terminal /\ See(p, tr) \in TicketStatus \ Hand
  BY <1>1, <1>2 DEF Accepted, Becomes, CanCancel, AutoNoShowStatuses, Terminal, TicketStatus, Hand
<1>4. db[ar] = h /\ See(p, ar) = h
  BY <1>0, <1>2 DEF Holder
<1>8. Locked(p, tr)'
  BY <1>1, <1>2 DEF Locked
<1>9. ASSUME NEW t \in Tickets \ {u}, db' = db, work'[p] = work[p],
             ~Left(tx'[p], TicketRow(t)), ~Left(tx'[p], AssignmentRow(t))
      PROVE  \/ ~Covered(p, TicketRow(t))' /\ ~Covered(p, AssignmentRow(t))'
             \/ Settled(p, t)' /\ Locked(p, TicketRow(t))'
  <2>1. CASE tx[p].kind # "missed"
    BY <1>2, <1>9, <2>1 DEF Covered
  <2>2. CASE tx[p].kind = "missed"
    <3>1. /\ Settled(p, t)
          /\ Covered(p, TicketRow(t)) \/ Covered(p, AssignmentRow(t)) => Locked(p, TicketRow(t))
      BY <1>0, <1>1, <1>9, <2>2 DEF Inv, Decided, Settles, Sweeps
    <3>2. /\ Covered(p, TicketRow(t))' <=> Covered(p, TicketRow(t))
          /\ Covered(p, AssignmentRow(t))' <=> Covered(p, AssignmentRow(t))
          /\ Locked(p, TicketRow(t)) => Locked(p, TicketRow(t))'
          /\ Settled(p, t)'
      BY <1>1, <1>2, <1>9, <3>1, SetAside
    <3> QED
      BY <3>1, <3>2
  <2> QED
    BY <2>1, <2>2
<1>5. ASSUME db' = db PROVE Held(p, u)'
  <2>1. Locked(p, tr)'
    BY <1>1, <1>2 DEF Locked
  <2> QED
    BY <1>3, <1>5, <2>1 DEF Held
<1>6. CASE h = None /\ Saving(p, <<>>, "commit", None)
  <2>1. db' = db /\ work'[p] = work[p] /\ tx'[p].saves = <<>>
    BY <1>6 DEF Saving, GoesOn
  <2>2. \A r : ~Left(tx'[p], r) /\ \A S : PlannedIn(tx'[p], r, S)
    BY <2>1, NoSaves
  <2>3. ~Left(tx'[p], ar)
    BY <2>2
  <2>4. Parts(p, u)'
    <3>1. EndsIn(p, tr, TicketStatus \ Hand)' /\ EndsIn(p, ar, {None})'
      BY <1>3, <1>4, <1>6, <2>2, EndsAfter
    <3> QED
      BY <1>2, <2>1, <2>3, <3>1 DEF Parts
  <2>5. \A t \in Tickets \ {u} :
          \/ ~Covered(p, TicketRow(t))' /\ ~Covered(p, AssignmentRow(t))'
          \/ Settled(p, t)' /\ Locked(p, TicketRow(t))'
    BY <1>9, <2>1, <2>2
  <2> QED
    BY <1>1, <1>2, <1>5, <1>6, <1>8, <2>1, <2>4, <2>5, DecidesAmong
<1>7. ASSUME NEW f \in Writes, h \in Employees, Saving(p, <<f>>, "commit", h), DOMAIN f = {ar, EmployeeRow(h)}, f[ar] = None
      PROVE  Decided(p)'
  <2>1. db' = db /\ work'[p] = work[p] /\ tx'[p].saves = <<f>> /\ tx'[p].holder = h
    BY <1>7 DEF Saving, GoesOn
  <2>2. \A r : /\ Left(tx'[p], r) <=> r \in DOMAIN f
               /\ \A S : PlannedIn(tx'[p], r, S) <=> (r \in DOMAIN f => f[r] \in S)
    BY <2>1, OneSave
  <2>3. /\ \A t \in Tickets \ {u} : TicketRow(t) \notin DOMAIN f /\ AssignmentRow(t) \notin DOMAIN f
        /\ tr \notin DOMAIN f /\ ar \in DOMAIN f
    BY <1>7, RowsApart
  <2>4. \A t \in Tickets \ {u} : ~Left(tx'[p], TicketRow(t)) /\ ~Left(tx'[p], AssignmentRow(t))
    BY <2>2, <2>3
  <2>5. h # None
    BY <1>7, TransactionsAssumption
  <2>6. Parts(p, u)'
    <3>1. PlannedIn(tx'[p], tr, TicketStatus \ Hand)
      BY <2>2, <2>3
    <3>2. Left(tx'[p], ar) /\ PlannedIn(tx'[p], ar, {None})
      BY <1>7, <2>2, <2>3
    <3>3. EndsIn(p, tr, TicketStatus \ Hand)' /\ EndsIn(p, ar, {None})'
      BY <1>3, <1>7, <3>1, <3>2, EndsAfter
    <3> QED
      BY <1>2, <1>4, <2>1, <2>5, <3>3 DEF Parts
  <2>7. \A t \in Tickets \ {u} :
          \/ ~Covered(p, TicketRow(t))' /\ ~Covered(p, AssignmentRow(t))'
          \/ Settled(p, t)' /\ Locked(p, TicketRow(t))'
    BY <1>9, <2>1, <2>4
  <2> QED
    BY <1>1, <1>2, <1>5, <1>7, <1>8, <2>1, <2>6, <2>7, DecidesAmong
<1> QED
  BY <1>1, <1>6, <1>7

\* A free employee takes a client who waits, under the ticket's lock.
LEMMA LookForTicketDecided ==
  ASSUME Inv, NEW p \in Processes, LookForTicket(p)
  PROVE  Decided(p)'
<1>1. /\ tx[p] # None /\ tx[p].stage = "look" /\ tx[p].kind \in {"available", "dispatch"}
      /\ \/ locks' = locks /\ Saving(p, <<>>, "commit", None)
         \/ \E t \in Tickets, e \in Employees :
              /\ Status(p, t) \in LiveQueueStatuses
              /\ Gets(p, {<<TicketRow(t), "lock">>})
              /\ Saving(p, <<Assign(t, e)>>, "commit", None)
  BY LookForTicketDoes DEF Inv, LocksInv
<1>2. ~Deciding(tx[p]) /\ tx[p].kind \notin ByTicket
  BY <1>1 DEF Deciding, ByTicket
<1>3. /\ ByTicketLocked(p)
      /\ \A t \in Tickets : /\ ~Covered(p, AssignmentRow(t)) /\ ~Covered(p, TicketRow(t))
                            /\ AssignmentRow(t) \notin DOMAIN work[p] /\ TicketRow(t) \notin DOMAIN work[p]
                            /\ Status(p, t) = db[TicketRow(t)]
  BY <1>1, <1>2, BeforeDeciding
<1>4. CASE locks' = locks /\ Saving(p, <<>>, "commit", None)
  BY <1>1, <1>2, <1>3, <1>4, DecidesNone
<1>5. ASSUME NEW u \in Tickets, NEW e \in Employees, Status(p, u) \in LiveQueueStatuses,
             Gets(p, {<<TicketRow(u), "lock">>}), Saving(p, <<Assign(u, e)>>, "commit", None)
      PROVE  Decided(p)'
  <2> DEFINE tr == TicketRow(u)
  <2> DEFINE ar == AssignmentRow(u)
  <2> DEFINE f == Assign(u, e)
  <2>1. DOMAIN f = {tr, EmployeeRow(e), ar} /\ f[tr] = "ASSIGNED" /\ f[ar] = e
    BY AssignRows
  <2>2. Saving(p, <<f>>, "commit", None)
    BY <1>5
  <2> HIDE DEF f
  <2>3. db' = db /\ work'[p] = work[p] /\ tx'[p].saves = <<f>>
    BY <2>2 DEF Saving, GoesOn
  <2>4. \A r : /\ Left(tx'[p], r) <=> r \in DOMAIN f
               /\ \A S : PlannedIn(tx'[p], r, S) <=> (r \in DOMAIN f => f[r] \in S)
    BY <2>3, OneSave
  <2>5. \A t \in Tickets \ {u} : TicketRow(t) \notin DOMAIN f /\ AssignmentRow(t) \notin DOMAIN f
    BY <2>1, RowsApart
  <2>6. \A t \in Tickets \ {u} : ~Covered(p, TicketRow(t))' /\ ~Covered(p, AssignmentRow(t))'
    BY <1>3, <2>3, <2>4, <2>5 DEF Covered
  <2>7. Joins(p, u)'
    <3>1. Left(tx'[p], tr) /\ PlannedIn(tx'[p], tr, Hand)
      BY <2>1, <2>4 DEF Hand
    <3>2. Left(tx'[p], ar) /\ PlannedIn(tx'[p], ar, Employees)
      BY <2>1, <2>4
    <3> QED
      BY <2>2, <3>1, <3>2, EndsAfter DEF Joins
  <2>8. Held(p, u)'
    <3>1. db[tr] \notin Terminal
      BY <1>3, <1>5 DEF LiveQueueStatuses, Terminal
    <3>2. Locked(p, tr)'
      BY <1>5 DEF Locked, Gets
    <3> QED
      BY <2>3, <3>1, <3>2 DEF Held
  <2>9. locks[p] \subseteq locks'[p]
    BY <1>5 DEF Gets
  <2> QED
    BY <1>1, <1>2, <1>3, <2>2, <2>6, <2>7, <2>8, <2>9, DecidesOne
<1> QED
  BY <1>1, <1>4, <1>5

\* setTicketStatus with CALLED: the ticket, and the assignment with the call.
LEMMA LookForCallDecided ==
  ASSUME Inv, NEW p \in Processes, LookForCall(p)
  PROVE  Decided(p)'
<1>0. PICK u \in Tickets, e \in Employees, h \in Employees \cup {None} : tx[p].t = u /\ tx[p].e = e /\ Holder(p, u) = h
  BY LookForCallDoes, SeenFits DEF Inv, LocksInv
<1> DEFINE tr == TicketRow(u)
<1> DEFINE ar == AssignmentRow(u)
<1>1. /\ tx[p] # None /\ tx[p].stage = "look" /\ tx[p].kind = "callFromList"
      /\ \/ Rolled(p)
         \/ /\ locks' = locks /\ h \in {None, e}
            /\ \E f, g \in Writes :
                 /\ Saving(p, <<f, g>>, "commit", h)
                 /\ DOMAIN f = {tr} /\ f[tr] = "CALLED"
                 /\ DOMAIN g = {EmployeeRow(e), ar} /\ g[ar] = e
  BY <1>0, LookForCallDoes DEF Inv, LocksInv
<1>2. /\ ByTicketLocked(p) /\ Locked(p, tr) /\ db[tr] \in Accepted("callFromList")
      /\ \A t \in Tickets : AssignmentRow(t) \notin DOMAIN work[p] /\ Holder(p, t) = db[AssignmentRow(t)]
      /\ \A t \in Tickets \ {u} : TicketRow(t) \notin DOMAIN work[p]
  BY <1>0, <1>1, AtLook DEF ByTicket
<1>3. db[tr] \notin Terminal
  BY <1>2 DEF Accepted, ManagerNextStatuses
<1>4. CASE Rolled(p)
  BY <1>4 DEF Rolled, Decided
<1>5. ASSUME NEW f \in Writes, NEW g \in Writes, locks' = locks, h \in {None, e}, Saving(p, <<f, g>>, "commit", h),
             DOMAIN f = {tr}, f[tr] = "CALLED", DOMAIN g = {EmployeeRow(e), ar}, g[ar] = e
      PROVE  Decided(p)'
  <2>1. db' = db /\ work'[p] = work[p] /\ tx'[p].saves = <<f, g>>
    BY <1>5 DEF Saving, GoesOn
  <2>2. \A r : /\ Left(tx'[p], r) <=> r \in DOMAIN f \cup DOMAIN g
               /\ \A S : PlannedIn(tx'[p], r, S) <=>
                    (r \in DOMAIN f => f[r] \in S) /\ (r \in DOMAIN g => g[r] \in S)
    BY <2>1, TwoSaves
  <2>3. /\ \A t \in Tickets \ {u} : /\ TicketRow(t) \notin DOMAIN f /\ AssignmentRow(t) \notin DOMAIN f
                                    /\ TicketRow(t) \notin DOMAIN g /\ AssignmentRow(t) \notin DOMAIN g
        /\ tr \notin DOMAIN g /\ ar \notin DOMAIN f
    BY <1>5, RowsApart
  <2>4. \A t \in Tickets \ {u} : ~Covered(p, TicketRow(t))' /\ ~Covered(p, AssignmentRow(t))'
    BY <1>2, <2>1, <2>2, <2>3 DEF Covered
  <2>5. Joins(p, u)'
    <3>1. Left(tx'[p], tr) /\ PlannedIn(tx'[p], tr, Hand)
      BY <1>5, <2>2, <2>3 DEF Hand
    <3>2. PlannedIn(tx'[p], ar, Employees) /\ Left(tx'[p], ar)
      BY <1>5, <2>2, <2>3
    <3> QED
      BY <1>5, <3>1, <3>2, EndsAfter DEF Joins
  <2>6. Held(p, u)'
    <3>1. Locked(p, tr)'
      BY <1>2, <1>5 DEF Locked
    <3> QED
      BY <1>3, <2>1, <3>1 DEF Held
  <2> QED
    BY <1>1, <1>2, <1>5, <2>1, <2>4, <2>5, <2>6, DecidesOne
<1> QED
  BY <1>1, <1>4, <1>5

-----------------------------------------------------------------------------
(* The steps of a save. *)

\* What remains of the transaction.
LEMMA ProgressOf ==
  ASSUME Typed, NEW p \in Processes, Progress(p)
  PROVE  /\ tx[p] # None /\ tx[p].stage \in {"save", "write"} /\ db' = db /\ locks[p] \subseteq locks'[p]
         /\ tx'[p].kind = tx[p].kind /\ tx'[p].t = tx[p].t /\ tx'[p].then = tx[p].then
         /\ tx'[p].holder = tx[p].holder /\ tx'[p].stage \in {"save", "write", tx[p].then}
         /\ tx[p].then \in {"look", "commit"}
<1> DEFINE f == Head(tx[p].saves)
<1>1. tx[p] # None /\ tx[p].stage \in {"save", "write"} /\ db' = db
  BY DEF Progress
<1>2. PICK rows \in SUBSET DOMAIN f, ls \in LockSet : tx'[p] = Rest(tx[p], rows) /\ Gets(p, ls)
  BY DEF Progress
<1>3. tx[p] \in Transaction /\ tx[p].saves # <<>>
  BY <1>1, SaveUnderWay
<1>4. locks[p] \subseteq locks'[p]
  BY <1>2 DEF Gets
<1>5. tx[p].then \in {"look", "commit"}
  BY <1>3 DEF Transaction
<1> DEFINE y == Rest(tx[p], rows)
<1>6. /\ y.kind = tx[p].kind /\ y.t = tx[p].t /\ y.then = tx[p].then /\ y.holder = tx[p].holder
      /\ \/ y.stage \in {"save", "write"} /\ y.saves # <<>>
         \/ y.stage = tx[p].then /\ y.saves = <<>>
  BY <1>3, RestPlan
<1> HIDE DEF y
<1>7. tx'[p] = y
  BY <1>2 DEF y
<1> QED
  BY <1>1, <1>4, <1>5, <1>6, <1>7

\* A row stays where it is to end, unless what need not be written is elsewhere.
LEMMA ProgressRow ==
  ASSUME Typed, NEW p \in Processes, Progress(p), NEW row
  PROVE  LET f == Head(tx[p].saves) IN
         /\ Covered(p, row)' => Covered(p, row)
         /\ Covered(p, row) /\ ~Covered(p, row)' =>
              row \in DOMAIN f /\ ~Differs(p, row) /\ row \notin DOMAIN work[p]
         /\ Left(tx'[p], row) => Left(tx[p], row)
         /\ row \in DOMAIN f => Left(tx[p], row) /\ \A S : PlannedIn(tx[p], row, S) => f[row] \in S
         /\ row \in DOMAIN work'[p] =>
              \/ row \in DOMAIN f /\ work'[p][row] = f[row]
              \/ row \in DOMAIN work[p] /\ work'[p][row] = work[p][row]
         /\ \A S : /\ EndsIn(p, row, S)
                   /\ row \in DOMAIN f /\ ~Differs(p, row) => See(p, row) \in S
                   => EndsIn(p, row, S)'
<1> DEFINE f == Head(tx[p].saves)
<1>1. PICK rows \in SUBSET DOMAIN f, new \in SUBSET DOMAIN f :
        /\ tx'[p] = Rest(tx[p], rows) /\ rows \cap new = {}
        /\ DOMAIN work'[p] = DOMAIN work[p] \cup new
        /\ \A r \in new : work'[p][r] = f[r]
        /\ \A r \in DOMAIN work[p] \ new : work'[p][r] = work[p][r]
        /\ \A r \in DOMAIN f \ (rows \cup new) : ~Differs(p, r)
  BY DEF Progress
<1>2. tx[p] \in Transaction /\ tx[p].saves # <<>> /\ db' = db
  BY SaveUnderWay DEF Progress
<1> DEFINE y == Rest(tx[p], rows)
<1>3. /\ Left(y, row) => Left(tx[p], row)
      /\ Left(tx[p], row) /\ ~Left(y, row) => row \in DOMAIN f \ rows
      /\ \A S : PlannedIn(tx[p], row, S) => PlannedIn(y, row, S)
      /\ row \in DOMAIN f => Left(tx[p], row) /\ \A S : PlannedIn(tx[p], row, S) => f[row] \in S
  BY <1>2, RestPlan
<1> HIDE DEF y
<1>4. tx'[p] = y
  BY <1>1 DEF y
<1>5. See(p, row)' = IF row \in new THEN f[row] ELSE See(p, row)
  BY <1>1, <1>2 DEF See
<1> HIDE DEF f
<1>6. Covered(p, row)' <=> Left(y, row) \/ row \in DOMAIN work[p] \/ row \in new
  BY <1>1, <1>4 DEF Covered
<1>7. Covered(p, row)' => Covered(p, row)
  BY <1>1, <1>3, <1>6 DEF Covered
<1>8. Covered(p, row) /\ ~Covered(p, row)' => row \in DOMAIN f /\ ~Differs(p, row) /\ row \notin DOMAIN work[p]
  BY <1>1, <1>3, <1>6 DEF Covered
<1>9. row \in DOMAIN work'[p] =>
        \/ row \in DOMAIN f /\ work'[p][row] = f[row]
        \/ row \in DOMAIN work[p] /\ work'[p][row] = work[p][row]
  BY <1>1
<1>10. ASSUME NEW S, EndsIn(p, row, S), row \in DOMAIN f /\ ~Differs(p, row) => See(p, row) \in S
       PROVE  EndsIn(p, row, S)'
  <2>1. PlannedIn(y, row, S) /\ PlannedIn(tx[p], row, S)
    BY <1>3, <1>10 DEF EndsIn
  <2>2. ASSUME ~Left(y, row)
        PROVE  See(p, row)' \in S
    <3>1. CASE row \in new
      BY <1>1, <1>3, <1>5, <2>1, <3>1
    <3>2. CASE row \notin new /\ Left(tx[p], row)
      BY <1>1, <1>3, <1>5, <1>10, <2>2, <3>2
    <3>3. CASE row \notin new /\ ~Left(tx[p], row)
      BY <1>5, <1>10, <3>3 DEF EndsIn
    <3> QED
      BY <3>1, <3>2, <3>3
  <2> QED
    BY <1>4, <2>1, <2>2 DEF EndsIn
<1> QED
  BY <1>3, <1>4, <1>7, <1>8, <1>9, <1>10 DEF f

\* A client who is to be in somebody's hands still is, and an assignment that is
\* to be ended still is; no ticket is left out together with its assignment.
LEMMA ProgressKeeps ==
  ASSUME Typed, NEW p \in Processes, Progress(p), NEW t \in Tickets
  PROVE  /\ Joins(p, t) => Joins(p, t)'
         /\ Parts(p, t) => Parts(p, t)'
         /\ InHand(t) /\ Parts(p, t) /\ Covered(p, TicketRow(t)) => Covered(p, TicketRow(t))'
<1> DEFINE tr == TicketRow(t)
<1> DEFINE ar == AssignmentRow(t)
<1> DEFINE f == Head(tx[p].saves)
<1>1. tr \notin AssignmentRows /\ ar \in AssignmentRows
  BY RowsApart
<1>2. ~Differs(p, tr) => See(p, tr) = f[tr]
  BY <1>1 DEF Differs
<1>3. ~Differs(p, ar) => f[ar] = None /\ See(p, ar) # tx[p].holder
  BY <1>1 DEF Differs
<1> HIDE DEF f
<1>4. /\ tr \in DOMAIN f => \A S : PlannedIn(tx[p], tr, S) => f[tr] \in S
      /\ ar \in DOMAIN f => \A S : PlannedIn(tx[p], ar, S) => f[ar] \in S
  BY ProgressRow DEF f
<1>5. \A S : EndsIn(p, tr, S) => EndsIn(p, tr, S)'
  <2> SUFFICES ASSUME NEW S, EndsIn(p, tr, S), tr \in DOMAIN f, ~Differs(p, tr)
               PROVE  See(p, tr) \in S
    BY ProgressRow DEF f
  <2> QED
    BY <1>2, <1>4 DEF EndsIn
<1>6. Joins(p, t) => EndsIn(p, ar, Employees)'
  <2> SUFFICES ASSUME Joins(p, t), ar \in DOMAIN f, ~Differs(p, ar)
               PROVE  See(p, ar) \in Employees
    BY ProgressRow DEF f, Joins
  <2>1. f[ar] \in Employees
    BY <1>4 DEF Joins, EndsIn
  <2> QED
    BY <1>3, <2>1, TransactionsAssumption
<1>7. Parts(p, t) => EndsIn(p, ar, {None})'
  <2> SUFFICES ASSUME Parts(p, t), ar \in DOMAIN f, ~Differs(p, ar)
               PROVE  See(p, ar) \in {None}
    BY ProgressRow DEF f, Parts
  <2>1. f[ar] = None
    BY <1>4 DEF Parts, EndsIn
  <2>2. See(p, ar) # tx[p].holder
    BY <1>3, <2>1
  <2>3. Left(tx[p], ar)
    BY ProgressRow DEF f
  <2>4. ar \in DOMAIN work[p]
    BY <2>2, <2>3 DEF Parts, See
  <2> QED
    BY <2>4 DEF Parts, See
<1>8. Parts(p, t) => Parts(p, t)'
  <2> SUFFICES ASSUME Parts(p, t) PROVE Parts(p, t)'
    OBVIOUS
  <2>1. EndsIn(p, tr, TicketStatus \ Hand)'
    BY <1>5 DEF Parts
  <2>2. Left(tx'[p], ar) => (db[ar] = tx[p].holder /\ tx[p].holder # None)'
    BY ProgressRow, ProgressOf DEF Parts
  <2>3. (ar \in DOMAIN work[p] => work[p][ar] = None)'
    <3>1. ar \in DOMAIN f => f[ar] = None
      BY <1>4 DEF Parts, EndsIn
    <3>2. ar \in DOMAIN work'[p] =>
            \/ ar \in DOMAIN f /\ work'[p][ar] = f[ar]
            \/ ar \in DOMAIN work[p] /\ work'[p][ar] = work[p][ar]
      BY ProgressRow DEF f
    <3> QED
      BY <3>1, <3>2 DEF Parts
  <2> QED
    BY <1>7, <2>1, <2>2, <2>3 DEF Parts
<1>9. InHand(t) /\ Parts(p, t) /\ Covered(p, tr) => Covered(p, tr)'
  <2> SUFFICES ASSUME InHand(t), Parts(p, t), Covered(p, tr), ~Covered(p, tr)'
               PROVE  FALSE
    OBVIOUS
  <2>1. tr \in DOMAIN f /\ ~Differs(p, tr) /\ tr \notin DOMAIN work[p]
    BY ProgressRow DEF f
  <2>2. f[tr] \in TicketStatus \ Hand
    BY <1>4, <2>1 DEF Parts, EndsIn
  <2>3. db[tr] = f[tr]
    BY <1>2, <2>1 DEF See
  <2> QED
    BY <2>2, <2>3 DEF InHand, Hand
<1> QED
  BY <1>5, <1>6, <1>8, <1>9 DEF Joins

\* What was decided is still decided, with the rows that are left.
LEMMA ProgressDecided ==
  ASSUME Inv, NEW p \in Processes, Progress(p)
  PROVE  Decided(p)'
<1>0. Typed /\ NobodyStranded
  BY DEF Inv, LocksInv
<1>1. /\ tx[p] # None /\ tx[p].stage \in {"save", "write"} /\ db' = db /\ locks[p] \subseteq locks'[p]
      /\ tx'[p].kind = tx[p].kind /\ tx'[p].t = tx[p].t /\ tx'[p].then = tx[p].then
      /\ tx'[p].holder = tx[p].holder /\ tx'[p].stage \in {"save", "write", tx[p].then}
      /\ tx[p].then \in {"look", "commit"}
  BY <1>0, ProgressOf
<1>2. \A row : Covered(p, row)' => Covered(p, row)
  BY <1>0, ProgressRow
<1>3. ByTicketLocked(p) /\ Preparing(p) /\ Settles(p) /\ Sweeps(p)
  BY <1>1 DEF Inv, Decided
<1>4. ByTicketLocked(p)' /\ Sweeps(p)'
  BY <1>1, <1>2, <1>3 DEF ByTicketLocked, Locked, Sweeps, Deciding
<1>7. Settles(p)'
  <2> SUFFICES ASSUME NEW t \in Tickets, Deciding(tx[p]) \/ (tx[p].kind = "missed" /\ t # tx[p].t),
                      Covered(p, TicketRow(t))' \/ Covered(p, AssignmentRow(t))'
               PROVE  Held(p, t)' /\ (Joins(p, t)' \/ Parts(p, t)')
    BY <1>1 DEF Settles, Settled, Deciding
  <2>1. Held(p, t) /\ (Joins(p, t) \/ Parts(p, t))
    BY <1>2, <1>3 DEF Settles, Settled
  <2>2. /\ Joins(p, t) => Joins(p, t)'
        /\ Parts(p, t) => Parts(p, t)'
        /\ InHand(t) /\ Parts(p, t) /\ Covered(p, TicketRow(t)) => Covered(p, TicketRow(t))'
    BY <1>0, ProgressKeeps
  <2>3. db[AssignmentRow(t)] # None => InHand(t)
    BY <1>0 DEF NobodyStranded
  <2>4. \A row : Locked(p, row) => Locked(p, row)'
    BY <1>1 DEF Locked
  <2>5. Held(p, t)'
    BY <1>1, <1>2, <2>1, <2>2, <2>3, <2>4 DEF Held
  <2> QED
    BY <2>1, <2>2, <2>5
<1>5. CASE ~Deciding(tx[p])
  <2>1. tx'[p].then = "look" /\ ~Deciding(tx'[p]) /\ tx'[p].stage # "lock" /\ tx[p].stage # "lock"
    BY <1>1, <1>5 DEF Deciding
  <2>2. tx[p].kind \in ByTicket \ {"callFromList"} => EndsIn(p, TicketRow(tx[p].t), {Becomes(tx[p].kind)})'
    <3> SUFFICES ASSUME tx[p].kind \in ByTicket \ {"callFromList"}
                 PROVE  EndsIn(p, TicketRow(tx[p].t), {Becomes(tx[p].kind)})'
      OBVIOUS
    <3>1. PICK row, v : row = TicketRow(tx[p].t) /\ v = Becomes(tx[p].kind)
      OBVIOUS
    <3>2. EndsIn(p, row, {v})
      BY <1>3, <1>5, <2>1, <3>1 DEF Preparing
    <3>3. row \notin AssignmentRows
      <4>1. \A t : TicketRow(t) \notin AssignmentRows
        BY RowsApart
      <4> QED
        BY <3>1, <4>1
    <3>4. row \in DOMAIN Head(tx[p].saves) /\ ~Differs(p, row) => See(p, row) \in {v}
      BY <1>0, <3>2, <3>3, ProgressRow DEF Differs, EndsIn
    <3>5. EndsIn(p, row, {v})'
      BY <1>0, <3>2, <3>4, ProgressRow
    <3>6. row = TicketRow(tx'[p].t) /\ v = Becomes(tx'[p].kind)
      BY <1>1, <3>1
    <3> QED
      BY <3>5, <3>6 DEF EndsIn, See
  <2>3. Preparing(p)'
    BY <1>1, <1>2, <1>3, <1>5, <2>1, <2>2 DEF Preparing
  <2> QED
    BY <1>4, <1>7, <2>3 DEF Decided
<1>6. CASE Deciding(tx[p])
  BY <1>1, <1>4, <1>6, <1>7 DEF Decided, Preparing, Deciding
<1> QED
  BY <1>5, <1>6

-----------------------------------------------------------------------------
(* The commit, and what the others see of it. *)

\* Who commits has decided about every ticket whose rows it has written.
LEMMA CommitDecides ==
  ASSUME Inv, NEW p \in Processes, Commit(p), NEW t \in Tickets,
         TicketRow(t) \in DOMAIN work[p] \/ AssignmentRow(t) \in DOMAIN work[p]
  PROVE  /\ Held(p, t) /\ (Covered(p, TicketRow(t)) <=> TicketRow(t) \in DOMAIN work[p])
         /\ \/ See(p, TicketRow(t)) \in Hand /\ See(p, AssignmentRow(t)) \in Employees
            \/ See(p, TicketRow(t)) \in TicketStatus \ Hand /\ See(p, AssignmentRow(t)) = None
<1>1. tx[p] # None /\ tx[p].stage = "commit" /\ tx[p].saves = <<>> /\ tx[p].then = "commit"
  BY CommitDoes DEF Inv, LocksInv
<1>2. \A row : ~Left(tx[p], row)
  BY <1>1, NoSaves
<1>3. Held(p, t) /\ (Joins(p, t) \/ Parts(p, t))
  BY <1>1 DEF Inv, Decided, Settles, Settled, Deciding, Covered
<1> QED
  BY <1>2, <1>3 DEF Joins, Parts, EndsIn, Covered

\* A row that another process has locked is not written.
LEMMA NotWritten ==
  ASSUME LocksApart, WritesLocked, NEW p \in Processes, NEW q \in Processes, p # q, NEW row, Locked(q, row)
  PROVE  row \notin DOMAIN work[p] /\ ~Locked(p, row)
<1>1. <<row, "lock">>[1] = row /\ <<row, "lock">>[2] = "lock" /\ <<row, "write">>[1] = row /\ <<row, "write">>[2] = "write"
  OBVIOUS
<1>2. ~Compatible("write", "lock") /\ ~Compatible("lock", "lock")
  BY DEF Compatible
<1>3. <<row, "write">> \notin locks[p] /\ <<row, "lock">> \notin locks[p]
  BY <1>1, <1>2 DEF LocksApart, Locked
<1> QED
  BY <1>3 DEF WritesLocked, Locked

\* What is committed under another's lock: the ticket's lock keeps both rows as
\* they are, the assignment's lock keeps the assignment.
LEMMA CommitSpares ==
  ASSUME Inv, NEW p \in Processes, NEW q \in Processes, p # q, Commit(p), NEW t \in Tickets
  PROVE  /\ Locked(q, TicketRow(t)) => /\ db'[TicketRow(t)] = db[TicketRow(t)]
                                       /\ db'[AssignmentRow(t)] = db[AssignmentRow(t)]
         /\ Locked(q, AssignmentRow(t)) => db'[AssignmentRow(t)] = db[AssignmentRow(t)]
<1> DEFINE tr == TicketRow(t)
<1> DEFINE ar == AssignmentRow(t)
<1>1. /\ tr \notin DOMAIN work[p] => db'[tr] = db[tr]
      /\ ar \notin DOMAIN work[p] => db'[ar] = db[ar]
  BY CommitDoes, RowsApart DEF Inv, LocksInv
<1>2. \A row : Locked(q, row) => row \notin DOMAIN work[p] /\ ~Locked(p, row)
  BY NotWritten DEF Inv, LocksInv
<1>3. Locked(q, tr) => ar \notin DOMAIN work[p]
  <2> SUFFICES ASSUME Locked(q, tr), ar \in DOMAIN work[p] PROVE FALSE
    OBVIOUS
  <2>1. Held(p, t) /\ (Covered(p, tr) <=> tr \in DOMAIN work[p])
    BY CommitDecides
  <2>2. Covered(p, ar)
    BY DEF Covered
  <2> QED
    BY <1>2, <2>1, <2>2 DEF Held
<1> QED
  BY <1>1, <1>2, <1>3

\* So nobody's decision is undone by a commit of another.
LEMMA CommitLeavesDecided ==
  ASSUME Inv, NEW p \in Processes, NEW q \in Processes, p # q, Commit(p)
  PROVE  Decided(q)'
<1> SUFFICES ASSUME tx'[q] # None
             PROVE  ByTicketLocked(q)' /\ Preparing(q)' /\ Settles(q)' /\ Sweeps(q)'
  BY DEF Decided
<1>1. tx'[q] = tx[q] /\ work'[q] = work[q] /\ locks'[q] = locks[q]
  BY CommitDoes DEF Inv, LocksInv, Others
<1>2. ByTicketLocked(q) /\ Preparing(q) /\ Settles(q) /\ Sweeps(q)
  BY <1>1 DEF Inv, Decided
<1>3. /\ \A row : Covered(q, row)' <=> Covered(q, row)
      /\ \A row : Locked(q, row)' <=> Locked(q, row)
  BY <1>1 DEF Covered, Locked
<1>4. \A row : db'[row] = db[row] => See(q, row)' = See(q, row)
  BY <1>1 DEF See
<1>5. ASSUME NEW row, NEW S, EndsIn(q, row, S), Left(tx[q], row) \/ row \in DOMAIN work[q] \/ db'[row] = db[row]
      PROVE  EndsIn(q, row, S)'
  <2>1. Left(tx[q], row) \/ See(q, row)' = See(q, row)
    BY <1>1, <1>4, <1>5 DEF See
  <2> QED
    BY <1>1, <1>5, <2>1 DEF EndsIn
<1>6. tx[q].kind \in ByTicket => tx[q].t \in Tickets
  BY <1>1, OfTx DEF Inv, LocksInv, ByTicket, OfTicket
<1>7. tx[q].kind \in ByTicket /\ tx[q].stage # "lock" /\ (tx[q].kind = "missed" => ~Deciding(tx[q])) =>
        db'[TicketRow(tx[q].t)] = db[TicketRow(tx[q].t)]
  BY <1>2, <1>6, CommitSpares DEF ByTicketLocked
<1>8. ByTicketLocked(q)'
  BY <1>1, <1>2, <1>3, <1>7 DEF ByTicketLocked, Deciding
<1>9. Preparing(q)'
  <2>1. ~Deciding(tx[q]) /\ tx[q].kind \in ByTicket \ {"callFromList"} /\ tx[q].stage # "lock" =>
          EndsIn(q, TicketRow(tx[q].t), {Becomes(tx[q].kind)})'
    <3> SUFFICES ASSUME ~Deciding(tx[q]), tx[q].kind \in ByTicket \ {"callFromList"}, tx[q].stage # "lock"
                 PROVE  EndsIn(q, TicketRow(tx[q].t), {Becomes(tx[q].kind)})'
      OBVIOUS
    <3>1. PICK row, v : row = TicketRow(tx[q].t) /\ v = Becomes(tx[q].kind)
      OBVIOUS
    <3>2. EndsIn(q, row, {v}) /\ db'[row] = db[row]
      BY <1>2, <1>7, <3>1 DEF Preparing
    <3>3. EndsIn(q, row, {v})'
      BY <1>5, <3>2
    <3>4. row = TicketRow(tx'[q].t) /\ v = Becomes(tx'[q].kind)
      BY <1>1, <3>1
    <3> QED
      BY <3>3, <3>4 DEF EndsIn, See
  <2> QED
    BY <1>1, <1>2, <1>3, <2>1 DEF Preparing, Deciding
<1>10. Settles(q)'
  <2> SUFFICES ASSUME NEW t \in Tickets, Deciding(tx[q]) \/ (tx[q].kind = "missed" /\ t # tx[q].t),
                      Covered(q, TicketRow(t)) \/ Covered(q, AssignmentRow(t))
               PROVE  Held(q, t)' /\ (Joins(q, t)' \/ Parts(q, t)')
    BY <1>1, <1>3 DEF Settles, Settled, Deciding
  <2> DEFINE tr == TicketRow(t)
  <2> DEFINE ar == AssignmentRow(t)
  <2>1. Held(q, t) /\ (Joins(q, t) \/ Parts(q, t))
    BY <1>2 DEF Settles, Settled
  <2>2. db'[ar] = db[ar]
    BY <2>1, CommitSpares DEF Held
  <2>3. Locked(q, tr) => db'[tr] = db[tr]
    BY CommitSpares
  <2>4. Locked(q, tr) \/ Covered(q, tr)
    BY <2>1 DEF Held
  <2>5. \A S : EndsIn(q, tr, S) => EndsIn(q, tr, S)'
    BY <1>5, <2>3, <2>4 DEF Covered
  <2>6. \A S : EndsIn(q, ar, S) => EndsIn(q, ar, S)'
    BY <1>5, <2>2
  <2>7. Joins(q, t) => Joins(q, t)'
    BY <2>5, <2>6 DEF Joins
  <2>8. Parts(q, t) => Parts(q, t)'
    BY <1>1, <1>3, <2>2, <2>5, <2>6 DEF Parts
  <2>9. Held(q, t)'
    BY <1>3, <2>1, <2>2, <2>3, <2>8 DEF Held
  <2> QED
    BY <2>1, <2>7, <2>8, <2>9
<1>11. Sweeps(q)'
  BY <1>1, <1>2, <1>3 DEF Sweeps
<1> QED
  BY <1>8, <1>9, <1>10, <1>11

\* A commit strands nobody and reopens no ticket.
LEMMA CommitKeeps ==
  ASSUME Inv, NEW p \in Processes, Commit(p)
  PROVE  NobodyStranded' /\ \A t \in Tickets : db[TicketRow(t)] \in Terminal => UNCHANGED db[TicketRow(t)]
<1> SUFFICES ASSUME NEW t \in Tickets
             PROVE  /\ (InHand(t) <=> db[AssignmentRow(t)] # None)'
                    /\ db[TicketRow(t)] \in Terminal => db'[TicketRow(t)] = db[TicketRow(t)]
  BY DEF NobodyStranded
<1> DEFINE tr == TicketRow(t)
<1> DEFINE ar == AssignmentRow(t)
<1>1. db'[tr] = See(p, tr) /\ db'[ar] = See(p, ar)
  BY CommitDoes, RowsApart DEF Inv, LocksInv
<1>2. InHand(t) <=> db[ar] # None
  BY DEF Inv, NobodyStranded
<1>3. CASE tr \in DOMAIN work[p] \/ ar \in DOMAIN work[p]
  <2>1. /\ Held(p, t)
        /\ \/ See(p, tr) \in Hand /\ See(p, ar) \in Employees
           \/ See(p, tr) \in TicketStatus \ Hand /\ See(p, ar) = None
    BY <1>3, CommitDecides
  <2>2. (InHand(t) <=> db[ar] # None)'
    BY <1>1, <2>1, TransactionsAssumption DEF InHand, Hand
  <2>3. db[tr] \notin Terminal
    BY <1>2, <2>1 DEF Held, InHand, Terminal
  <2> QED
    BY <2>2, <2>3
<1>4. CASE tr \notin DOMAIN work[p] /\ ar \notin DOMAIN work[p]
  <2>1. db'[tr] = db[tr] /\ db'[ar] = db[ar]
    BY <1>1, <1>4 DEF See
  <2> QED
    BY <1>2, <2>1 DEF InHand
<1> QED
  BY <1>3, <1>4

-----------------------------------------------------------------------------
(* The theorems. *)

\* Initially no transaction is under way and every client is still to come.
LEMMA InvFirst == Init => Inv
<1> SUFFICES ASSUME Init PROVE Inv
  OBVIOUS
<1>1. LocksInv
  BY LocksFirst
<1>2. \A p \in Processes : Decided(p)
  BY DEF Init, Decided
<1>3. \A t \in Tickets : db[TicketRow(t)] = "BOOKED" /\ db[AssignmentRow(t)] = None
  BY DEF Init, Row, TicketRow, AssignmentRow, AssignmentRows
<1> QED
  BY <1>1, <1>2, <1>3 DEF Inv, NobodyStranded, InHand

\* Every step keeps the invariant, and no step reopens a ticket.
LEMMA InvStep ==
  ASSUME "break" \notin Kinds, Inv, [Next]_vars
  PROVE  Inv' /\ \A t \in Tickets : db[TicketRow(t)] \in Terminal => UNCHANGED db[TicketRow(t)]
<1>1. LocksInv'
  BY LocksStep DEF Inv
<1>2. CASE UNCHANGED vars
  <2>1. \A p \in Processes : Decided(p)'
    BY <1>2, DecidedSame DEF Inv, vars
  <2> QED
    BY <1>1, <1>2, <2>1 DEF Inv, vars, NobodyStranded, InHand
<1>3. CASE Next
  <2>1. PICK p \in Processes : Start(p) \/ Statement(p) \/ LockTimeout(p) \/ PoolTimeout(p)
    BY <1>3 DEF Next
  <2>2. Typed' /\ Others(p) /\ (Rolled(p) \/ Goes(p) \/ Progress(p) \/ Commit(p))
    BY <2>1, StepDoes DEF Inv, LocksInv
  <2>3. CASE Commit(p)
    <3>1. Decided(p)'
      BY <2>3, CommitDoes DEF Inv, LocksInv, Decided
    <3>2. \A q \in Processes \ {p} : Decided(q)'
      BY <2>3, CommitLeavesDecided
    <3> QED
      BY <1>1, <2>3, <3>1, <3>2, CommitKeeps DEF Inv
  <2>4. CASE ~Commit(p)
    <3>1. db' = db
      BY <2>2, <2>4 DEF Rolled, Goes, Progress
    <3>2. \A q \in Processes \ {p} : Decided(q)'
      BY <2>2, <3>1, DecidedSame DEF Inv, Others
    <3>3. ~StartBreak(p)
      BY StartBreakDoes, OfTx DEF Inv, LocksInv
    <3>4. Rolled(p) => Decided(p)'
      BY DEF Rolled, Decided
    <3>5. Progress(p) => Decided(p)'
      BY ProgressDecided
    <3>6. Start(p) => Decided(p)'
      BY StartDecided
    <3>7. LockTimeout(p) \/ PoolTimeout(p) => Decided(p)'
      BY <3>4, RollbackDoes DEF LockTimeout, PoolTimeout, Inv, LocksInv
    <3>8. ReadAgain(p) \/ (\E row \in Todo(p) : Update(p, row) \/ Insert(p, row)) => Decided(p)'
      BY <3>4, <3>5, ReadAgainDoes, UpdateDoes, InsertDoes DEF Inv, LocksInv
    <3>9. Statement(p) => Decided(p)'
      BY <2>4, <3>3, <3>8, EnsureEmployeeDecided, LockTicketDecided, NextMissedDecided, EmployeeDecided, LockAssignmentDecided,
         LockExpiredCallDecided, LookForEmployeeDecided, LookForAssignmentDecided, LookForTicketDecided,
         LookForCallDecided DEF Statement
    <3>10. \A q \in Processes : Decided(q)'
      BY <2>1, <3>2, <3>6, <3>7, <3>9
    <3>11. NobodyStranded'
      BY <3>1 DEF Inv, NobodyStranded, InHand
    <3> QED
      BY <1>1, <3>1, <3>10, <3>11 DEF Inv
  <2> QED
    BY <2>3, <2>4
<1> QED
  BY <1>2, <1>3

\* Without breaks, between transactions a client is with somebody exactly when
\* somebody has the client, however many transactions run at once.
THEOREM StrandedHolds ==
  ASSUME "break" \notin Kinds
  PROVE  Spec => []NobodyStranded
<1>1. Inv /\ [Next]_vars => Inv'
  BY InvStep
<1>2. Inv => NobodyStranded
  BY DEF Inv
<1> QED
  BY <1>1, <1>2, InvFirst, PTL DEF Spec

\* Without breaks no transaction writes the status of a ticket it read before the
\* ticket was closed.
THEOREM ClosedHolds ==
  ASSUME "break" \notin Kinds
  PROVE  Spec => ClosedStaysClosed
<1>1. Inv /\ [Next]_vars => Inv'
  BY InvStep
<1>2. Inv /\ [Next]_vars => [\A t \in Tickets : db[TicketRow(t)] \in Terminal => UNCHANGED db[TicketRow(t)]]_vars
  BY InvStep
<1> QED
  BY <1>1, <1>2, InvFirst, PTL DEF Spec, ClosedStaysClosed

=============================================================================
