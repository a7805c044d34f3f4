------------------------------ MODULE JobLife ------------------------------
(***************************************************************************)
(* What the parser promises about one ready job, whoever works on it: the  *)
(* job is open, accepted with a result, or quarantined.  A result is       *)
(* accepted once, never replaced, and given up only on order of an         *)
(* operator; a job is quarantined only after more failures than allowed.   *)
(* Leases, staging, locks and process deaths do not appear.                *)
(***************************************************************************)
EXTENDS Integers

CONSTANTS
  Results,   \* names of results
  NoResult,
  Askers,    \* who may order a new parse
  Allowed,   \* failures tolerated (PARSER_RETRY_COUNT)
  Doubt      \* may an accepted attempt be reported as failed to its own worker?

VARIABLES
  result,       \* the accepted result, or NoResult
  past,         \* every result accepted so far
  failures,     \* recorded failures since the last fresh start
  quarantined,
  orders        \* orders being carried out

vars == <<result, past, failures, quarantined, orders>>

Init ==
  /\ result = NoResult /\ past = {}
  /\ failures = 0 /\ quarantined = FALSE
  /\ orders = {}

\* The order a step obeys may end with it.
Obeyed == \E a \in orders : orders' \in {orders, orders \ {a}}

Accept(r) ==
  /\ result = NoResult /\ ~quarantined
  /\ r \notin past
  /\ result' = r /\ past' = past \cup {r}
  /\ UNCHANGED <<failures, quarantined, orders>>

Fail ==
  /\ result = NoResult \/ Doubt
  /\ failures' = failures + 1
  /\ UNCHANGED <<result, past, quarantined, orders>>

Quarantine ==
  /\ failures > Allowed /\ ~quarantined
  /\ quarantined' = TRUE
  /\ UNCHANGED <<result, past, failures, orders>>

\* A fresh start, on order or on the way to acceptance.
Forgive ==
  /\ ~quarantined
  /\ failures' = 0
  /\ UNCHANGED orders \/ Obeyed
  /\ UNCHANGED <<result, past, quarantined>>

\* An order undoes the result, and the quarantine.
Undo ==
  /\ Obeyed
  /\ result' = NoResult
  /\ UNCHANGED <<past, failures, quarantined>>

Readmit ==
  /\ Obeyed
  /\ quarantined' = FALSE
  /\ UNCHANGED <<result, past, failures>>

\* Orders come and go, obeyed or not.
Order(a) ==
  /\ orders' \in {orders \cup {a}, orders \ {a}}
  /\ UNCHANGED <<result, past, failures, quarantined>>

Next ==
  \/ \E r \in Results : Accept(r)
  \/ Fail \/ Quarantine \/ Forgive \/ Undo \/ Readmit
  \/ \E a \in Askers : Order(a)

Spec == Init /\ [][Next]_vars
=============================================================================
