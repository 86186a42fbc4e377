---------------------------- MODULE Requirements ----------------------------
(***************************************************************************)
(* The life of a requirement (app/services/requirements.py): captured by   *)
(* hand or from a parser, reviewed, moved between statuses, edited and     *)
(* archived.  A request loads one row, decides on it, and writes at its    *)
(* commit the columns it changed; other requests commit in between.        *)
(***************************************************************************)
EXTENDS Extraction, Tables

CONSTANTS
  Requirements,   \* requirement ids
  Sessions,       \* the requests that may be in flight at the same time
  StatusInputs,   \* the statuses users ask for
  RangeInputs,    \* the << rate_min, rate_max >> users enter and parsers read
  Payloads        \* parser results: field present -> confidence

ASSUME RequirementInputs ==
  /\ RangeInputs \subseteq (Nat \cup { None }) \X (Nat \cup { None })
  /\ \A p \in Payloads : DOMAIN p \subseteq FIELD_LABELS

VARIABLES
  requirements,   \* table: requirement id -> requirement
  drafting        \* the row each session has loaded and what it makes of it

demand == << requirements, drafting >>

RequirementStatus ==
  { "NEW", "PARSED", "UNDER_REVIEW", "QUALIFIED", "ON_HOLD",
    "CLOSED_WON", "CLOSED_LOST", "EXPIRED" }

TERMINAL_STATUSES == { "CLOSED_WON", "CLOSED_LOST", "EXPIRED" }

ReviewStatus == { "PENDING_REVIEW", "ACCEPTED", "REJECTED" }

early == { "ON_HOLD", "CLOSED_LOST", "EXPIRED" }

ALLOWED_TRANSITIONS ==
  [ NEW          |-> early \cup { "PARSED", "UNDER_REVIEW", "QUALIFIED" },
    PARSED       |-> early \cup { "UNDER_REVIEW", "QUALIFIED" },
    UNDER_REVIEW |-> early \cup { "QUALIFIED" },
    QUALIFIED    |-> early \cup { "CLOSED_WON" },
    ON_HOLD      |-> { "QUALIFIED", "UNDER_REVIEW", "CLOSED_LOST", "EXPIRED" },
    CLOSED_WON   |-> {},
    CLOSED_LOST  |-> { "QUALIFIED" },
    EXPIRED      |-> { "QUALIFIED", "CLOSED_LOST" } ]

Rates == { None } \cup UNION { { range[1], range[2] } : range \in RangeInputs }

NoPayload == [ field \in {} |-> 0 ]

\* archived stands for "deleted_at is set"; payload for parsed_payload.
RequirementRow ==
  [ status   : RequirementStatus,
    review   : ReviewStatus,
    active   : BOOLEAN,
    archived : BOOLEAN,
    rate_min : Rates,
    rate_max : Rates,
    payload  : Payloads \cup { NoPayload } ]

\* Mutant: nothing is asserted of the ranges.
ranges_are_not_asserted(row) == TRUE

\* _assert_ranges; the years of experience are treated alike.
ranges_are_ordered(row) == ~ inverted(row.rate_min, row.rate_max)

is_awaiting_review(row) == row.review = "PENDING_REVIEW"

\* get_requirement: BaseRepository.get leaves archived rows out.
get(r) == r \in DOMAIN requirements /\ ~ requirements[r].archived

NoRequest == [ r |-> None, was |-> None, now |-> None ]

RequirementsInit ==
  /\ requirements = EmptyTable
  /\ drafting = [ x \in Sessions |-> NoRequest ]

-----------------------------------------------------------------------------
(* Capture.  Nobody can load the new row before it is committed, so the    *)
(* request is one step.                                                    *)

Captured(r, row) ==
  /\ r \notin DOMAIN requirements
  /\ requirements' = Put(requirements, r, row)
  /\ UNCHANGED drafting

\* POST /requirements: typed by hand, so accepted at once.
Create(r, range) ==
  /\ ~ inverted(range[1], range[2])
  /\ Captured(r, [ status |-> "NEW", review |-> "ACCEPTED", active |-> TRUE,
                   archived |-> FALSE, rate_min |-> range[1],
                   rate_max |-> range[2], payload |-> NoPayload ])

\* POST /requirements/parse-text and /parse-document: the draft is NEW while it
\* is filled in and PARSED when the request commits.
ParseText(r, range, payload) ==
  LET rates == applied_rates(range[1], range[2]) IN
  Captured(r, [ status |-> "PARSED", review |-> "PENDING_REVIEW",
                active |-> TRUE, archived |-> FALSE, rate_min |-> rates[1],
                rate_max |-> rates[2], payload |-> payload ])

-----------------------------------------------------------------------------
(* Requests on a row.                                                      *)

Loads(x, r, now) ==
  /\ drafting[x] = NoRequest
  /\ drafting' = [ drafting EXCEPT ![x] =
                     [ r |-> r, was |-> requirements[r], now |-> now ] ]
  /\ UNCHANGED requirements

\* PATCH fields of a RequirementUpdate, those unset left alone; it may set
\* is_active but neither status nor review.
edited(row, range, active) ==
  [ row EXCEPT !.rate_min = range[1], !.rate_max = range[2], !.active = active ]

\* PATCH /requirements/{id}.
StartUpdate(x, r, range, active) ==
  LET new == edited(requirements[r], range, active) IN
  /\ get(r)
  /\ ranges_are_ordered(new)
  /\ Loads(x, r, new)

\* Mutant: qualifying does not look at the review.
may_move_unreviewed(row, target) ==
  /\ row.status # target
  /\ target \in ALLOWED_TRANSITIONS[row.status]

\* The checks of change_status; a request for the present status is no change.
may_move(row, target) ==
  /\ row.status # target
  /\ target \in ALLOWED_TRANSITIONS[row.status]
  /\ target = "QUALIFIED" => ~ is_awaiting_review(row)

\* POST /requirements/{id}/status.
StartChangeStatus(x, r, target) ==
  LET row == requirements[r] IN
  /\ get(r)
  /\ may_move(row, target)
  /\ Loads(x, r, [ row EXCEPT
                     !.status = target,
                     !.active = @ /\ target \notin TERMINAL_STATUSES ])

\* DELETE /requirements/{id}.
StartArchive(x, r) ==
  /\ get(r)
  /\ Loads(x, r, [ requirements[r] EXCEPT !.archived = TRUE, !.active = FALSE ])

\* POST /requirements/{id}/accept-parse, with the reviewer's corrections; the
\* request brings a title when the draft has none.
StartAcceptParse(x, r, confirmed, range, active) ==
  LET new == edited(requirements[r], range, active) IN
  /\ get(r)
  /\ is_awaiting_review(requirements[r])
  /\ requires_confirmation(requirements[r].payload) \subseteq confirmed
  /\ ranges_are_ordered(new)
  /\ Loads(x, r, [ new EXCEPT !.review = "ACCEPTED", !.status = "UNDER_REVIEW" ])

\* POST /requirements/{id}/reject-parse.
StartRejectParse(x, r) ==
  /\ get(r)
  /\ is_awaiting_review(requirements[r])
  /\ Loads(x, r, [ requirements[r] EXCEPT !.review = "REJECTED",
                                          !.active = FALSE,
                                          !.status = "CLOSED_LOST" ])

\* Only the columns that differ from the row as loaded are written.
CommitRequirement(x) ==
  LET t == drafting[x] IN
  /\ t # NoRequest
  /\ requirements' = [ requirements EXCEPT ![t.r] = merge(@, t.was, t.now) ]
  /\ drafting' = [ drafting EXCEPT ![x] = NoRequest ]

RollbackRequirement(x) ==
  /\ drafting[x] # NoRequest
  /\ drafting' = [ drafting EXCEPT ![x] = NoRequest ]
  /\ UNCHANGED requirements

Capture ==
  \E r \in Requirements, range \in RangeInputs :
    \/ Create(r, range)
    \/ \E low \in { range[1], Unusable }, payload \in Payloads :
         ParseText(r, << low, range[2] >>, payload)

StartRequirement(x) ==
  \E r \in Requirements :
    \/ \E range \in RangeInputs, active \in BOOLEAN :
         \/ StartUpdate(x, r, range, active)
         \/ \E confirmed \in { DOMAIN p : p \in Payloads } :
              StartAcceptParse(x, r, confirmed, range, active)
    \/ \E target \in StatusInputs : StartChangeStatus(x, r, target)
    \/ StartArchive(x, r)
    \/ StartRejectParse(x, r)

RequirementsNext ==
  \/ Capture
  \/ \E x \in Sessions :
       StartRequirement(x) \/ CommitRequirement(x) \/ RollbackRequirement(x)

RequirementsSpec == RequirementsInit /\ [][RequirementsNext]_demand

-----------------------------------------------------------------------------
\* Every row, loaded or stored, has its columns' types.
RequirementsTypeOK ==
  /\ IsTable(requirements, Requirements, RequirementRow)
  /\ \A x \in Sessions :
       \/ drafting[x] = NoRequest
       \/ /\ drafting[x].r \in DOMAIN requirements
          /\ drafting[x].was \in RequirementRow
          /\ drafting[x].now \in RequirementRow

\* The statuses in which a requirement is being worked on or was won.
Worked == { "QUALIFIED", "CLOSED_WON" }

\* Where the review gate has each requirement.
standing ==
  [ r \in Requirements |->
      IF r \notin DOMAIN requirements THEN "absent"
      ELSE IF requirements[r].status \in Worked THEN "worked"
      ELSE IF is_awaiting_review(requirements[r]) THEN "draft"
      ELSE "reviewed" ]

Gate == INSTANCE ReviewGate WITH Thing <- Requirements, gate <- standing

\* The requirements implement the review gate: a draft leaves that state by a
\* review only and never returns to it, and what is qualified or won was
\* reviewed (accepted, rejected, or typed by hand), in any interleaving.
ReviewIsAGate == Gate!GateSpec

\* What a row must satisfy: the range of rates is a range, what is archived is
\* not active, what was rejected as a draft was not left open to be reviewed.
Sound(row) ==
  /\ ~ inverted(row.rate_min, row.rate_max)
  /\ row.archived => ~ row.active
  /\ row.review = "REJECTED" => row.status \notin { "NEW", "PARSED" }

\* The row r is written by a request that loaded an older version of it.
Overtaken(r) ==
  \E x \in Sessions :
    drafting[x].r = r /\ drafting'[x] = NoRequest
      /\ drafting[x].was # requirements[r]

\* A row is made unsound by nothing but a request that was overtaken: every
\* check that a request makes is enough for the rows it really wrote over.
OnlyOverlapsBreakRows ==
  [][ \A r \in DOMAIN requirements' :
        /\ r \in DOMAIN requirements => Sound(requirements[r]) /\ ~ Overtaken(r)
        => Sound(requirements'[r]) ]_demand
=============================================================================
