----------------------------- MODULE StaffAccounts -----------------------------
(***************************************************************************)
(* How an employee comes to work: an administrator makes the account in    *)
(* Keycloak and hands over the temporary password, gives the employee a    *)
(* direction, and the employee signs in.  The account is in Keycloak, the  *)
(* employee row in PostgreSQL, the password on the administrator's screen  *)
(* only; nothing makes the three one transaction, and each call may fail,  *)
(* or the process stop, after any of the others was done.  The row is made *)
(* by whoever misses it first: the creation of the account, the choice of  *)
(* a direction, or a first request of the employee.                        *)
(*                                                                         *)
(* What follows for desks and clients is in Queue.                         *)
(***************************************************************************)
EXTENDS Naturals

CONSTANTS
  Names,       \* logins, and the people they are for
  Admins,      \* administrators' pages, with a request at a time
  Visits,      \* requests of employees that may run at the same time
  MaxFailures, \* failed calls, stops and expired sessions
  None

ASSUME AccountsAssumption ==
  /\ MaxFailures \in Nat
  /\ Names \cap Admins = {}
  /\ {"own", None} \cap Admins = {} /\ None # "own"

VARIABLES
  account,  \* Keycloak: whether the account exists, and has the role EMPLOYEE
  password, \* Keycloak: the page for which the password was generated, or the person's own
  knows,    \* the password that the person has
  rows,     \* how many employee rows have the account as oidcSubject
  country,  \* whether the employee has a direction
  admin,    \* the request of an administrator's page
  created,  \* the accounts an administrator was told are created
  visit,    \* a request of an employee that is at ensureEmployee
  session,  \* where a person's browser is with the sign-in
  metadata, \* the API's promise of Keycloak's metadata
  failures

keycloak == <<account, password>>
people   == <<knows, session>>
vars == <<keycloak, people, rows, country, admin, created, visit, metadata, failures>>

Has(n, what)  == what \in account[n]
HasPassword(n) == knows[n] # None /\ knows[n] = password[n]

\* Everything that goes wrong is counted.
Fails == failures < MaxFailures /\ failures' = failures + 1

-----------------------------------------------------------------------------
(* The requests of an administrator. *)

Ask(a, kind, n, stage) ==
  /\ admin[a] = None
  /\ admin' = [admin EXCEPT ![a] = [kind |-> kind, name |-> n, stage |-> stage]]
  /\ UNCHANGED <<keycloak, people, rows, country, created, visit, metadata>>

\* createManagerAccount, and the buttons of the list: those with the role.
AskCreate(a, n)  == Ask(a, "create", n, "user") /\ UNCHANGED failures
AskCountry(a, n) == Has(n, "role") /\ ~country[n] /\ Ask(a, "country", n, "find") /\ UNCHANGED failures

\* A password is reset because the employee has none that works; resets that
\* cross each other, or hit somebody who has one, are bounded with the failures.
Resets(a, n)  == admin[a] # None /\ admin[a].kind = "reset" /\ admin[a].name = n
NeedsReset(n) == ~HasPassword(n) /\ ~\E a \in Admins : Resets(a, n)

AskReset(a, n) ==
  /\ Has(n, "role") /\ Ask(a, "reset", n, "password")
  /\ IF NeedsReset(n) THEN UNCHANGED failures ELSE Fails

Runs(a, kind, stage) == admin[a] # None /\ admin[a].kind = kind /\ admin[a].stage = stage
Goes(a, stage)  == admin' = [admin EXCEPT ![a].stage = stage]
Answered(a)     == admin' = [admin EXCEPT ![a] = None]

\* A new password makes the one before it useless, also to those it was told.
NewPassword(a, n) ==
  /\ password' = [password EXCEPT ![n] = a]
  /\ knows' = [knows EXCEPT ![n] = IF @ = a THEN None ELSE @]

\* createEmployeeUser: POST users, which answers 409 for a login that exists.
CreateUser(a) ==
  LET n == admin[a].name IN
  /\ Runs(a, "create", "user")
  /\ IF Has(n, "user")
     THEN Answered(a) /\ UNCHANGED <<account, password, knows>>
     ELSE /\ account' = [account EXCEPT ![n] = @ \cup {"user"}]
          /\ NewPassword(a, n)
          /\ Goes(a, "role")
  /\ UNCHANGED <<session, rows, country, created, visit, metadata, failures>>

\* A plausible bug: the answer to the mapping is not looked at.
MapRoleUnchecked(a) ==
  /\ Runs(a, "create", "role")
  /\ \E mapped \in {{}, {"role"}} : account' = [account EXCEPT ![admin[a].name] = @ \cup mapped]
  /\ Goes(a, "find")
  /\ UNCHANGED <<password, people, rows, country, created, visit, metadata, failures>>

\* The role is read, then mapped to the account.
MapRole(a) ==
  /\ Runs(a, "create", "role")
  /\ account' = [account EXCEPT ![admin[a].name] = @ \cup {"role"}]
  /\ Goes(a, "find")
  /\ UNCHANGED <<password, people, rows, country, created, visit, metadata, failures>>

\* A plausible bug: the row is saved without looking for it.
FindNothing(a) ==
  /\ Runs(a, "create", "find") \/ Runs(a, "country", "find")
  /\ Goes(a, "insert")
  /\ UNCHANGED <<keycloak, people, rows, country, created, visit, metadata, failures>>

\* createManager and updateManagerCountry look for the row, and make it; the
\* latter asks Keycloak for the person's name in between.
FindRow(a) ==
  /\ Runs(a, "create", "find") \/ Runs(a, "country", "find")
  /\ Goes(a, IF rows[admin[a].name] = 0 THEN "insert"
             ELSE IF admin[a].kind = "create" THEN "audit" ELSE "country")
  /\ UNCHANGED <<keycloak, people, rows, country, created, visit, metadata, failures>>

\* The unique constraint on oidcSubject.
MayInsert(n) == rows[n] = 0

InsertRow(a) ==
  LET n == admin[a].name IN
  /\ Runs(a, "create", "insert") \/ Runs(a, "country", "insert")
  /\ IF MayInsert(n)
     THEN /\ rows' = [rows EXCEPT ![n] = @ + 1]
          /\ Goes(a, IF admin[a].kind = "create" THEN "audit" ELSE "country")
     ELSE Answered(a) /\ UNCHANGED rows
  /\ UNCHANGED <<keycloak, people, country, created, visit, metadata, failures>>

\* The answer of createManager: the page shows the password, which is handed over.
AnswerCreate(a) ==
  LET n == admin[a].name IN
  /\ Runs(a, "create", "audit")
  /\ created' = created \cup {n}
  /\ knows' = [knows EXCEPT ![n] = a]
  /\ Answered(a)
  /\ UNCHANGED <<keycloak, session, rows, country, visit, metadata, failures>>

\* resetUserPassword: the password first, the required action after it.
ResetPassword(a) ==
  /\ Runs(a, "reset", "password")
  /\ NewPassword(a, admin[a].name)
  /\ Goes(a, "audit")
  /\ UNCHANGED <<account, session, rows, country, created, visit, metadata, failures>>

AnswerReset(a) ==
  /\ Runs(a, "reset", "audit")
  /\ knows' = [knows EXCEPT ![admin[a].name] = a]
  /\ Answered(a)
  /\ UNCHANGED <<keycloak, session, rows, country, created, visit, metadata, failures>>

\* updateEmployeeCountry, a transaction of its own.
GiveCountry(a) ==
  /\ Runs(a, "country", "country")
  /\ country' = [country EXCEPT ![admin[a].name] = TRUE]
  /\ Answered(a)
  /\ UNCHANGED <<keycloak, people, rows, created, visit, metadata, failures>>

-----------------------------------------------------------------------------
(* The sign-in and the first requests of an employee. *)

\* getDiscoveredMetadata: one promise, shared by all who wait for it.
AskMetadata == metadata' = IF metadata = "none" THEN "loading" ELSE metadata

Login(n) ==
  /\ session[n] = "out"
  /\ session' = [session EXCEPT ![n] = "waiting"]
  /\ AskMetadata
  /\ UNCHANGED <<keycloak, knows, rows, country, admin, created, visit, failures>>

MetadataArrives ==
  /\ metadata = "loading"
  /\ metadata' = "ready"
  /\ UNCHANGED <<keycloak, people, rows, country, admin, created, visit, failures>>

\* login goes on to the form of Keycloak.
Redirect(n) ==
  /\ session[n] = "waiting" /\ metadata = "ready"
  /\ session' = [session EXCEPT ![n] = "form"]
  /\ UNCHANGED <<keycloak, knows, rows, country, admin, created, visit, metadata, failures>>

\* The form takes the password, has a temporary one changed, and sends the browser
\* to callback, which asks for the metadata as well.
SubmitForm(n) ==
  /\ session[n] = "form" /\ HasPassword(n)
  /\ password' = [password EXCEPT ![n] = "own"]
  /\ knows' = [knows EXCEPT ![n] = "own"]
  /\ session' = [session EXCEPT ![n] = "callback"]
  /\ AskMetadata
  /\ UNCHANGED <<account, rows, country, admin, created, visit, failures>>

\* Who has no role is refused.
Callback(n) ==
  /\ session[n] = "callback" /\ metadata = "ready"
  /\ session' = [session EXCEPT ![n] = IF Has(n, "role") THEN "in" ELSE "out"]
  /\ UNCHANGED <<keycloak, knows, rows, country, admin, created, visit, metadata, failures>>

\* The page of an employee asks several things at once, each through ensureEmployee.
Visit(v, n) ==
  /\ visit[v] = None /\ session[n] = "in" /\ rows[n] = 0
  /\ visit' = [visit EXCEPT ![v] = n]
  /\ UNCHANGED <<keycloak, people, rows, country, admin, created, metadata, failures>>

\* It did not find the row; a loser of the constraint answers with an error.
EnsureEmployee(v) ==
  /\ visit[v] # None
  /\ rows' = IF MayInsert(visit[v]) THEN [rows EXCEPT ![visit[v]] = @ + 1] ELSE rows
  /\ visit' = [visit EXCEPT ![v] = None]
  /\ UNCHANGED <<keycloak, people, country, admin, created, metadata, failures>>

-----------------------------------------------------------------------------
(* What goes wrong. *)

\* A call of Keycloak or of the database fails, or the answer is lost.
RequestFails(a) ==
  /\ admin[a] # None /\ Fails
  /\ Answered(a)
  /\ UNCHANGED <<keycloak, people, rows, country, created, visit, metadata>>

\* Whoever waits gets 503.
SentBack == [n \in Names |-> IF session[n] \in {"waiting", "callback"} THEN "out" ELSE session[n]]

\* A plausible bug: the promise that failed is kept.
MetadataStaysFailed ==
  /\ metadata = "loading" /\ Fails
  /\ metadata' = "failed"
  /\ session' = SentBack
  /\ UNCHANGED <<keycloak, knows, rows, country, admin, created, visit>>

\* Twenty attempts, and the promise is forgotten.
MetadataFails ==
  /\ metadata = "loading" /\ Fails
  /\ metadata' = "none"
  /\ session' = SentBack
  /\ UNCHANGED <<keycloak, knows, rows, country, admin, created, visit>>

\* Eight hours, a logout, or Redis without its data.
SessionEnds(n) ==
  /\ session[n] \in {"form", "in"} /\ Fails
  /\ session' = [session EXCEPT ![n] = "out"]
  /\ UNCHANGED <<keycloak, knows, rows, country, admin, created, visit, metadata>>

\* The process stops: onModuleInit asks for the metadata again.
Restart ==
  /\ Fails
  /\ admin' = [a \in Admins |-> None]
  /\ visit' = [v \in Visits |-> None]
  /\ session' = SentBack
  /\ metadata' = "loading"
  /\ UNCHANGED <<keycloak, knows, rows, country, created>>

-----------------------------------------------------------------------------
Init ==
  /\ account = [n \in Names |-> {}]
  /\ password = [n \in Names |-> None]
  /\ knows = [n \in Names |-> None]
  /\ rows = [n \in Names |-> 0]
  /\ country = [n \in Names |-> FALSE]
  /\ admin = [a \in Admins |-> None]
  /\ created = {}
  /\ visit = [v \in Visits |-> None]
  /\ session = [n \in Names |-> "out"]
  /\ metadata = "loading"
  /\ failures = 0

\* A request goes on, whatever it is at.
Step(a) ==
  \/ CreateUser(a) \/ MapRole(a) \/ FindRow(a) \/ InsertRow(a) \/ AnswerCreate(a)
  \/ ResetPassword(a) \/ AnswerReset(a)
  \/ GiveCountry(a)

Next ==
  \/ \E a \in Admins : Step(a) \/ RequestFails(a)
  \/ \E a \in Admins, n \in Names : AskCreate(a, n) \/ AskReset(a, n) \/ AskCountry(a, n)
  \/ \E n \in Names : Login(n) \/ Redirect(n) \/ SubmitForm(n) \/ Callback(n) \/ SessionEnds(n)
  \/ \E v \in Visits : EnsureEmployee(v) \/ \E n \in Names : Visit(v, n)
  \/ MetadataArrives \/ MetadataFails
  \/ Restart

\* Calls are answered.  An administrator, though busy with other things, gives a
\* direction to whoever has none and helps whoever cannot sign in; the employee
\* tries again.
Fairness ==
  /\ \A a \in Admins : WF_vars(Step(a))
  /\ \A n \in Names :
       /\ SF_vars(\E a \in Admins : AskCountry(a, n))
       /\ SF_vars(\E a \in Admins : NeedsReset(n) /\ AskReset(a, n))
       /\ WF_vars(Login(n)) /\ WF_vars(Redirect(n)) /\ SF_vars(SubmitForm(n)) /\ WF_vars(Callback(n))
       /\ SF_vars(\E v \in Visits : Visit(v, n))
  /\ \A v \in Visits : WF_vars(EnsureEmployee(v))
  /\ WF_vars(MetadataArrives)

Spec == Init /\ [][Next]_vars /\ Fairness

-----------------------------------------------------------------------------
Request ==
  [kind : {"create", "reset", "country"}, name : Names,
   stage : {"user", "role", "find", "insert", "audit", "password", "country"}]

\* The variables have their types.
TypeOK ==
  /\ account \in [Names -> {{}, {"user"}, {"user", "role"}}]
  /\ password \in [Names -> Admins \cup {"own", None}]
  /\ knows \in [Names -> Admins \cup {"own", None}]
  /\ rows \in [Names -> Nat]
  /\ country \in [Names -> BOOLEAN]
  /\ admin \in [Admins -> Request \cup {None}]
  /\ created \subseteq Names
  /\ visit \in [Visits -> Names \cup {None}]
  /\ session \in [Names -> {"out", "waiting", "form", "callback", "in"}]
  /\ metadata \in {"none", "loading", "ready"}
  /\ failures \in 0..MaxFailures

\* When the administrator reads that the manager is created, the account can be
\* used: it has its role and its row, whatever failed or was made by others.
ReportedManagerIsComplete ==
  \A n \in created : Has(n, "role") /\ rows[n] = 1

\* A manager in the list gets a direction, also when the creation failed half-way
\* or another request makes the row at that moment.
EveryManagerGetsDirection == \A n \in Names : Has(n, "role") ~> country[n]

\* A manager in the list comes to work: lost answers, passwords reset twice,
\* a Keycloak that did not answer and restarts can all be made good.
EveryManagerGetsToWork == \A n \in Names : Has(n, "role") ~> session[n] = "in" /\ rows[n] = 1
=============================================================================
