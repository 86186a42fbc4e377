----------------------------- MODULE ReviewGate -----------------------------
(***************************************************************************)
(* What the review of parsed demand promises (AD-7): a thing captured from *)
(* a parser is a draft; only a review takes it out of that, for good; and  *)
(* nothing is worked on that is still a draft.                             *)
(***************************************************************************)
CONSTANT Thing

VARIABLE gate   \* of each thing: "absent", "draft", "reviewed" or "worked"

GateInit == gate = [ t \in Thing |-> "absent" ]

Capture(t) ==
  /\ gate[t] = "absent"
  /\ \E g \in { "draft", "reviewed" } : gate' = [ gate EXCEPT ![t] = g ]

Review(t) == gate[t] = "draft" /\ gate' = [ gate EXCEPT ![t] = "reviewed" ]

Work(t) == gate[t] = "reviewed" /\ gate' = [ gate EXCEPT ![t] = "worked" ]

Rest(t) == gate[t] = "worked" /\ gate' = [ gate EXCEPT ![t] = "reviewed" ]

GateNext == \E t \in Thing : Capture(t) \/ Review(t) \/ Work(t) \/ Rest(t)

GateSpec == GateInit /\ [][GateNext]_gate
=============================================================================
