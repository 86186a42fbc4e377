------------------------------ MODULE MCScoring ------------------------------
(***************************************************************************)
(* Consultants and offers for Scoring: matches on both sides of the gate,  *)
(* a cost by the hour in dollars, and a rate just below what is viable.    *)
(***************************************************************************)
EXTENDS Scoring

Price(amount, unit, currency) ==
  [ amount |-> amount, unit |-> unit, currency |-> currency ]

Consultant(match, cost, expired) ==
  [ match |-> match, cost |-> cost, work_auth_expired |-> expired ]

Consultants ==
  { Consultant(39, { Price(600000, "MONTHLY", "QAR") }, FALSE),
    Consultant(70, { Price(600000, "MONTHLY", "QAR") }, FALSE),
    Consultant(100, { Price(3001, "HOURLY", "USD") }, TRUE),
    Consultant(55, {}, FALSE) }

Riyals == { Price(790000, "MONTHLY", "QAR"), Price(3000000, "MONTHLY", "QAR") }
=============================================================================
