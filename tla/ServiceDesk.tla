----------------------------- MODULE ServiceDesk -----------------------------
(***************************************************************************)
(* What the queue promises to a client, whatever happens to employees,     *)
(* desks and clocks: a visit goes forward or back to the waiting room, it  *)
(* is held by one employee at a time, a service that has begun is not      *)
(* taken away before it is finished, and a visit that is over stays over.  *)
(* One step may move many visits at once, as a sweep does.                 *)
(***************************************************************************)
CONSTANTS Visits, Servers, Nobody

VARIABLES
  stage,    \* how far each visit has come
  server    \* the employee who has it, or Nobody

vars == <<stage, server>>

Stage == {"unknown", "expected", "waiting", "held", "served", "over"}

\* The stages a visit may enter from each stage.
Following ==
  [unknown  |-> {"expected"},
   expected |-> {"waiting", "held", "over"},
   waiting  |-> {"held", "over"},
   held     |-> {"waiting", "served", "over"},
   served   |-> {"over"},
   over     |-> {}]

\* Exactly the visits in hand have a server, and no server has two of them.
Exclusive(st, sv) ==
  /\ \A v \in Visits : sv[v] # Nobody <=> st[v] \in {"held", "served"}
  /\ \A v, w \in Visits : sv[v] = sv[w] /\ sv[v] # Nobody => v = w

\* A visit stays where it is, with its server, or moves along; the server who
\* called the client is the one who serves.
Moves(v) ==
  \/ stage'[v] = stage[v] /\ server'[v] = server[v]
  \/ /\ stage'[v] \in Following[stage[v]]
     /\ stage'[v] = "served" => server'[v] = server[v]

Init ==
  /\ stage  = [v \in Visits |-> "unknown"]
  /\ server = [v \in Visits |-> Nobody]

Next ==
  /\ stage'  \in [Visits -> Stage]
  /\ server' \in [Visits -> Servers \cup {Nobody}]
  /\ Exclusive(stage', server')
  /\ \A v \in Visits : Moves(v)

Spec == Init /\ [][Next]_vars

=============================================================================
