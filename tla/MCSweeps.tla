------------------------------ MODULE MCSweeps ------------------------------
(***************************************************************************)
(* Sweeps for TLC, over three days.  What is watched has nothing in common *)
(* but the workers: a behaviour is about a permit and a follow-up, or      *)
(* about a deadline and a roll-off.                                        *)
(***************************************************************************)
EXTENDS Sweeps

CONSTANTS doc, opp, seat, req

Watches ==
  [ s \in Subjects |->
      CASE s = doc  -> "document_expiry"
        [] s = opp  -> "follow_up_overdue"
        [] s = seat -> "zero_bench"
        [] s = req  -> "submission_sla" ]

\* A permit valid until day 1, or renewed; a follow-up due at hour 20 or 44; a
\* roll-off two or eight days out and a deadline at hour 1 or 49, each with an
\* hour in its last call.
Dates ==
  [ s \in Subjects |->
      CASE s = doc -> { 1, 9 } [] s = opp -> { 20, 44, 92 }
        [] s = seat -> { 2, 8 } [] s = req -> { 1, 49 } ]

\* What there is no word about in these three days.
quiet(s) == watched[s].due = IF s = doc THEN 9 ELSE 92

VARIABLE topic

alerting == << watching, topic >>

\* What a behaviour is about.
Dated == { doc, opp }
Called == { seat, req }

\* Nothing else moves or is swept.
About(t) ==
  /\ topic = t /\ UNCHANGED topic
  /\ \A s \in Subjects \ t :
       /\ watched'[s] = watched[s]
       /\ \A x \in Workers : sweeping'[x].kind # KindOf[s]

Init ==
  /\ SweepsInit /\ topic \in { Dated, Called }
  /\ \A s \in Dated \ topic : quiet(s)
  /\ \A s \in Called \ topic : watched[s].due = CHOOSE d \in DueInputs[s] : TRUE

Next == \E t \in { Dated, Called } : SweepsNext /\ About(t)

\* The fairness of SweepsSpec, where something is to happen in the end.
Spec ==
  /\ Init /\ [][Next]_alerting
  /\ \A s \in Dated : SF_alerting(Starts(KindOf[s]) /\ About(Dated))
  /\ \A x \in Workers : WF_alerting(GetsOn(x) /\ About(Dated))
=============================================================================
