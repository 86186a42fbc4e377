----------------------------- MODULE Extraction -----------------------------
(***************************************************************************)
(* What app/services/requirements.py makes of a parser's result: which     *)
(* extracted values reach the draft, and which a reviewer must confirm.    *)
(***************************************************************************)
EXTENDS Integers, Sequences, FiniteSets

CONSTANTS
  None,      \* an absent value (NULL)
  Unusable   \* a value that is not of the column's type, or not a member

ASSUME NotNumbers == None \notin Int /\ Unusable \notin Int /\ None # Unusable

\* Confidence in hundredths.
CONFIDENCE_HIGH == 85

ALWAYS_CONFIRM ==
  { "rate_min", "rate_max", "rate_currency", "rate_unit",
    "response_deadline_at", "start_by_date" }

FIELD_LABELS ==
  ALWAYS_CONFIRM \cup
  { "title", "role", "mandatory_skills", "preferred_skills", "technologies",
    "experience_min_years", "experience_max_years", "duration_months",
    "positions", "location", "country", "work_mode", "contract_type",
    "availability_requirement", "customer_name", "project_name" }

\* The fields a reviewer must confirm; confidence is that of the fields present.
requires_confirmation(confidence) ==
  { name \in DOMAIN confidence :
      name \in ALWAYS_CONFIRM \/ confidence[name] < CONFIDENCE_HIGH }

-----------------------------------------------------------------------------
is_number(value) == value \notin { None, Unusable }

\* Mutant: what is no number is stored as it was read.
to_decimal_as_read(value) == value

to_decimal(value) == IF is_number(value) /\ value >= 0 THEN value ELSE None

inverted(low, high) == is_number(low) /\ is_number(high) /\ high < low

\* The two rates of an extraction, exchanged when they are the wrong way round.
applied_rates(low, high) ==
  LET least == to_decimal(low)
      most  == to_decimal(high)
  IN IF inverted(least, most) THEN << most, least >> ELSE << least, most >>
=============================================================================
