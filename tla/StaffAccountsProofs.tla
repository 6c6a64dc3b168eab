-------------------------- MODULE StaffAccountsProofs --------------------------
(***************************************************************************)
(* Proofs, for any number of accounts, administrators' pages, requests and *)
(* failures, of the invariants of StaffAccounts.                           *)
(***************************************************************************)
EXTENDS StaffAccounts, TLAPS

\* What a creation that is under way has done: its progress is not written down
\* anywhere, and Keycloak and PostgreSQL keep what it did if it ends here.
Underway ==
  \A a \in Admins :
    (admin[a] # None /\ admin[a].kind = "create") =>
      /\ admin[a].stage \in {"role", "find", "insert", "audit"} => Has(admin[a].name, "user")
      /\ admin[a].stage \in {"find", "insert", "audit"} => Has(admin[a].name, "role")
      /\ admin[a].stage = "audit" => rows[admin[a].name] = 1

\* The unique constraint on oidcSubject, the only thing that keeps the rows of an
\* account apart.
OneRowPerAccount == \A n \in Names : rows[n] <= 1

IInv == TypeOK /\ Underway /\ OneRowPerAccount /\ ReportedManagerIsComplete

\* What the invariant says of accounts and rows is kept when both stay as they are.
LEMMA SameAccountsAndRows ==
  ASSUME IInv, UNCHANGED <<account, rows, created, admin>>, TypeOK'
  PROVE  IInv'
BY DEF IInv, Underway, OneRowPerAccount, ReportedManagerIsComplete, Has

\* A request that ends, or begins at its first stage, takes nothing back.
LEMMA RequestBeginsOrEnds ==
  ASSUME IInv, NEW a \in Admins, NEW x \in Request \cup {None},
         x = None \/ x.stage \in {"user", "password"} \/ x.kind # "create",
         admin' = [admin EXCEPT ![a] = x],
         UNCHANGED <<account, rows, created>>, TypeOK'
  PROVE  IInv'
BY DEF IInv, TypeOK, Underway, OneRowPerAccount, ReportedManagerIsComplete, Has

\* A name has no row or one.
LEMMA NoneOrOneRow == ASSUME IInv, NEW n \in Names PROVE rows[n] \in {0, 1}
<1>1. rows[n] \in Nat
  BY DEF IInv, TypeOK
<1>2. rows[n] <= 1
  BY DEF IInv, OneRowPerAccount
<1>3. QED
  BY <1>1, <1>2

\* The invariant from which the theorems follow.
LEMMA Invariant == Spec => []IInv
<1>1. Init => IInv
  BY AccountsAssumption DEF Init, IInv, TypeOK, Underway, OneRowPerAccount, ReportedManagerIsComplete, Request
<1>2. IInv /\ [Next]_vars => IInv'
  <2> SUFFICES ASSUME IInv, [Next]_vars PROVE IInv'
    OBVIOUS
  <2> USE AccountsAssumption
  <2>1. ASSUME NEW a \in Admins, RequestFails(a) PROVE IInv'
    <3>1. TypeOK'
      BY <2>1 DEF IInv, TypeOK, RequestFails, Fails, Answered, keycloak, people
    <3>2. QED
      BY <2>1, <3>1, RequestBeginsOrEnds DEF RequestFails, Answered, keycloak, people
  <2>2. ASSUME NEW a \in Admins, NEW n \in Names, AskCreate(a, n) PROVE IInv'
    <3>1. TypeOK'
      BY <2>2 DEF IInv, TypeOK, Request, AskCreate, Ask, keycloak, people
    <3>2. QED
      BY <2>2, <3>1, RequestBeginsOrEnds DEF AskCreate, Ask, Request, keycloak, people
  <2>3. ASSUME NEW a \in Admins, NEW n \in Names, AskReset(a, n) PROVE IInv'
    <3>1. TypeOK'
      BY <2>3 DEF IInv, TypeOK, Request, AskReset, Ask, Fails, keycloak, people
    <3>2. QED
      BY <2>3, <3>1, RequestBeginsOrEnds DEF AskReset, Ask, Request, keycloak, people
  <2>4. ASSUME NEW a \in Admins, NEW n \in Names, AskCountry(a, n) PROVE IInv'
    <3>1. TypeOK'
      BY <2>4 DEF IInv, TypeOK, Request, AskCountry, Ask, keycloak, people
    <3>2. QED
      BY <2>4, <3>1, RequestBeginsOrEnds DEF AskCountry, Ask, Request, keycloak, people
  <2>5. ASSUME NEW a \in Admins, CreateUser(a) PROVE IInv'
    <3> DEFINE n == admin[a].name
    <3>1. n \in Names /\ admin[a] \in Request
      BY <2>5 DEF IInv, TypeOK, Request, CreateUser, Runs
    <3>2. CASE Has(n, "user")
      <4>1. TypeOK'
        BY <2>5, <3>1, <3>2 DEF IInv, TypeOK, CreateUser, Answered
      <4>2. QED
        BY <2>5, <3>2, <4>1, RequestBeginsOrEnds DEF CreateUser, Answered
    <3>3. CASE ~Has(n, "user")
      <4>1. account[n] = {} /\ account' = [account EXCEPT ![n] = {"user"}]
        BY <2>5, <3>1, <3>3 DEF IInv, TypeOK, CreateUser, Has
      <4>2. TypeOK'
        BY <2>5, <3>1, <3>3, <4>1 DEF IInv, TypeOK, Request, CreateUser, Runs, Goes, NewPassword
      <4>3. Underway'
        BY <2>5, <3>1, <3>3, <4>1 DEF IInv, TypeOK, Request, Underway, CreateUser, Runs, Goes, Has
      <4>4. (OneRowPerAccount /\ ReportedManagerIsComplete)'
        BY <2>5, <4>1 DEF IInv, TypeOK, CreateUser, OneRowPerAccount, ReportedManagerIsComplete, Has
      <4>5. QED
        BY <4>2, <4>3, <4>4 DEF IInv
    <3>4. QED
      BY <3>2, <3>3
  <2>6. ASSUME NEW a \in Admins, MapRole(a) PROVE IInv'
    <3> DEFINE n == admin[a].name
    <3>1. n \in Names /\ admin[a] \in Request /\ Has(n, "user")
      BY <2>6 DEF IInv, TypeOK, Request, Underway, MapRole, Runs
    <3>2. account[n] \cup {"role"} = {"user", "role"} /\ account' = [account EXCEPT ![n] = {"user", "role"}]
      BY <2>6, <3>1 DEF IInv, TypeOK, MapRole, Has
    <3>3. TypeOK'
      BY <2>6, <3>1, <3>2 DEF IInv, TypeOK, Request, MapRole, Runs, Goes, people
    <3>4. Underway'
      BY <2>6, <3>1, <3>2 DEF IInv, TypeOK, Request, Underway, MapRole, Runs, Goes, Has
    <3>5. (OneRowPerAccount /\ ReportedManagerIsComplete)'
      BY <2>6, <3>2 DEF IInv, TypeOK, MapRole, OneRowPerAccount, ReportedManagerIsComplete, Has
    <3>6. QED
      BY <3>3, <3>4, <3>5 DEF IInv
  <2>7. ASSUME NEW a \in Admins, FindRow(a) PROVE IInv'
    <3>1. admin[a] \in Request /\ admin[a].name \in Names
      BY <2>7 DEF IInv, TypeOK, Request, FindRow, Runs
    <3>2. TypeOK'
      BY <2>7, <3>1 DEF IInv, TypeOK, Request, FindRow, Runs, Goes, keycloak, people
    <3>3. rows[admin[a].name] \in {0, 1}
      BY <3>1, NoneOrOneRow
    <3>4. Underway'
      BY <2>7, <3>1, <3>3 DEF IInv, TypeOK, Request, Underway, FindRow, Runs, Goes, Has, keycloak
    <3>5. (OneRowPerAccount /\ ReportedManagerIsComplete)'
      BY <2>7 DEF IInv, FindRow, OneRowPerAccount, ReportedManagerIsComplete, Has, keycloak
    <3>6. QED
      BY <3>2, <3>4, <3>5 DEF IInv
  <2>8. ASSUME NEW a \in Admins, InsertRow(a) PROVE IInv'
    <3> DEFINE n == admin[a].name
    <3>1. admin[a] \in Request /\ n \in Names
      BY <2>8 DEF IInv, TypeOK, Request, InsertRow, Runs
    <3>2. CASE rows[n] = 0
      <4>1. rows' = [rows EXCEPT ![n] = 1]
        BY <2>8, <3>1, <3>2 DEF InsertRow, MayInsert
      <4>2. TypeOK'
        BY <2>8, <3>1, <3>2, <4>1 DEF IInv, TypeOK, Request, InsertRow, MayInsert, Runs, Goes, keycloak, people
      <4>3. Underway'
        BY <2>8, <3>1, <3>2, <4>1 DEF IInv, TypeOK, Request, Underway, InsertRow, MayInsert, Runs, Goes, Has, keycloak
      <4>4. (OneRowPerAccount /\ ReportedManagerIsComplete)'
        BY <2>8, <3>1, <4>1 DEF IInv, TypeOK, InsertRow, OneRowPerAccount, ReportedManagerIsComplete, Has, keycloak
      <4>5. QED
        BY <4>2, <4>3, <4>4 DEF IInv
    <3>3. CASE rows[n] # 0
      <4>1. TypeOK'
        BY <2>8, <3>1, <3>3 DEF IInv, TypeOK, InsertRow, MayInsert, Answered, keycloak, people
      <4>2. QED
        BY <2>8, <3>3, <4>1, RequestBeginsOrEnds DEF InsertRow, MayInsert, Answered, keycloak
    <3>4. QED
      BY <3>2, <3>3
  <2>9. ASSUME NEW a \in Admins, AnswerCreate(a) PROVE IInv'
    <3> DEFINE n == admin[a].name
    <3>1. n \in Names /\ Has(n, "role") /\ rows[n] = 1
      BY <2>9 DEF IInv, TypeOK, Request, Underway, AnswerCreate, Runs
    <3>2. TypeOK'
      BY <2>9, <3>1 DEF IInv, TypeOK, AnswerCreate, Answered, keycloak
    <3>3. Underway'
      BY <2>9 DEF IInv, TypeOK, Underway, AnswerCreate, Answered, Has, keycloak
    <3>4. (OneRowPerAccount /\ ReportedManagerIsComplete)'
      BY <2>9, <3>1 DEF IInv, AnswerCreate, OneRowPerAccount, ReportedManagerIsComplete, Has, keycloak
    <3>5. QED
      BY <3>2, <3>3, <3>4 DEF IInv
  <2>10. ASSUME NEW a \in Admins, ResetPassword(a) PROVE IInv'
    <3>1. admin[a] \in Request /\ admin[a].name \in Names
      BY <2>10 DEF IInv, TypeOK, Request, ResetPassword, Runs
    <3>2. TypeOK'
      BY <2>10, <3>1 DEF IInv, TypeOK, Request, ResetPassword, Runs, NewPassword, Goes
    <3>3. [admin[a] EXCEPT !.stage = "audit"] \in Request
           /\ [admin[a] EXCEPT !.stage = "audit"].kind # "create"
      BY <2>10, <3>1 DEF Request, ResetPassword, Runs
    <3>4. admin' = [admin EXCEPT ![a] = [admin[a] EXCEPT !.stage = "audit"]]
      BY <2>10 DEF ResetPassword, Goes
    <3>5. QED
      BY <2>10, <3>2, <3>3, <3>4, RequestBeginsOrEnds DEF ResetPassword
  <2>11. ASSUME NEW a \in Admins, AnswerReset(a) PROVE IInv'
    <3>1. admin[a].name \in Names
      BY <2>11 DEF IInv, TypeOK, Request, AnswerReset, Runs
    <3>2. TypeOK'
      BY <2>11, <3>1 DEF IInv, TypeOK, AnswerReset, Answered, keycloak
    <3>3. QED
      BY <2>11, <3>2, RequestBeginsOrEnds DEF AnswerReset, Answered, keycloak
  <2>12. ASSUME NEW a \in Admins, GiveCountry(a) PROVE IInv'
    <3>1. TypeOK'
      BY <2>12 DEF IInv, TypeOK, GiveCountry, Answered, keycloak, people
    <3>2. QED
      BY <2>12, <3>1, RequestBeginsOrEnds DEF GiveCountry, Answered, keycloak
  <2>13. ASSUME NEW n \in Names, Login(n) \/ Redirect(n) \/ SubmitForm(n) \/ Callback(n) \/ SessionEnds(n)
         PROVE IInv'
    <3>1. TypeOK'
      BY <2>13 DEF IInv, TypeOK, Login, Redirect, SubmitForm, Callback, SessionEnds, AskMetadata, Fails, keycloak
    <3>2. QED
      BY <2>13, <3>1, SameAccountsAndRows
      DEF Login, Redirect, SubmitForm, Callback, SessionEnds, keycloak
  <2>14. ASSUME NEW v \in Visits, NEW n \in Names, Visit(v, n) PROVE IInv'
    <3>1. TypeOK'
      BY <2>14 DEF IInv, TypeOK, Visit, keycloak, people
    <3>2. QED
      BY <2>14, <3>1, SameAccountsAndRows DEF Visit, keycloak
  <2>15. ASSUME NEW v \in Visits, EnsureEmployee(v) PROVE IInv'
    <3> DEFINE n == visit[v]
    <3>0. n \in Names
      BY <2>15 DEF IInv, TypeOK, EnsureEmployee
    <3>1. rows' = [rows EXCEPT ![n] = 1]
      <4>1. CASE rows[n] = 0
        BY <2>15, <4>1 DEF EnsureEmployee, MayInsert
      <4>2. CASE rows[n] = 1
        BY <2>15, <3>0, <4>2 DEF IInv, TypeOK, EnsureEmployee, MayInsert
      <4>3. QED
        BY <3>0, <4>1, <4>2, NoneOrOneRow
    <3>2. TypeOK'
      BY <2>15, <3>0, <3>1 DEF IInv, TypeOK, EnsureEmployee, keycloak, people
    <3>3. Underway'
      BY <2>15, <3>0, <3>1 DEF IInv, TypeOK, Request, Underway, EnsureEmployee, Has, keycloak
    <3>4. (OneRowPerAccount /\ ReportedManagerIsComplete)'
      BY <2>15, <3>0, <3>1 DEF IInv, TypeOK, EnsureEmployee, OneRowPerAccount, ReportedManagerIsComplete, Has, keycloak
    <3>5. QED
      BY <3>2, <3>3, <3>4 DEF IInv
  <2>16. CASE MetadataArrives \/ MetadataFails
    <3>1. TypeOK'
      BY <2>16 DEF IInv, TypeOK, MetadataArrives, MetadataFails, SentBack, Fails, keycloak, people
    <3>2. QED
      BY <2>16, <3>1, SameAccountsAndRows DEF MetadataArrives, MetadataFails, keycloak
  <2>17. CASE Restart
    <3>1. TypeOK'
      BY <2>17 DEF IInv, TypeOK, Restart, SentBack, Fails, keycloak
    <3>2. QED
      BY <2>17, <3>1 DEF IInv, Underway, Restart, OneRowPerAccount, ReportedManagerIsComplete, Has, keycloak
  <2>18. CASE UNCHANGED vars
    BY <2>18 DEF IInv, TypeOK, Underway, OneRowPerAccount, ReportedManagerIsComplete, Has, vars, keycloak, people
  <2>19. QED
    BY <2>1, <2>2, <2>3, <2>4, <2>5, <2>6, <2>7, <2>8, <2>9, <2>10, <2>11, <2>12,
       <2>13, <2>14, <2>15, <2>16, <2>17, <2>18 DEF Next, Step
<1>3. QED
  BY <1>1, <1>2, PTL DEF Spec

\* Every variable keeps its type: an account that has a role exists, whatever ends
\* half-way.
THEOREM TypesHold == Spec => []TypeOK
BY Invariant, PTL DEF IInv

\* An administrator who reads that a manager is created finds the account with its
\* role and its row, whatever else failed or happened meanwhile.
THEOREM ReportedHolds == Spec => []ReportedManagerIsComplete
BY Invariant, PTL DEF IInv
=============================================================================
