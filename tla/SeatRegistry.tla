---------------------------- MODULE SeatRegistry ----------------------------
(***************************************************************************)
(* What the pipeline promises about submissions, with nothing said of      *)
(* stages, statuses or unique indexes: one seat for every (requirement,    *)
(* consultant) pair, held by at most one submission at a time.             *)
(***************************************************************************)
CONSTANTS
  Seat,       \* the (requirement, consultant) pairs
  Candidate   \* the submissions that may hold a seat

VARIABLE holder   \* the submissions that hold each seat

Init == holder = [ seat \in Seat |-> {} ]

\* A submission takes a seat nobody holds.
Claim(seat, c) ==
  /\ holder[seat] = {}
  /\ holder' = [ holder EXCEPT ![seat] = { c } ]

\* The submission that holds a seat gives it up.
Release(seat) ==
  /\ holder[seat] # {}
  /\ holder' = [ holder EXCEPT ![seat] = {} ]

Next ==
  \E seat \in Seat :
    \/ \E c \in Candidate : Claim(seat, c)
    \/ Release(seat)

Spec == Init /\ [][Next]_holder
=============================================================================
