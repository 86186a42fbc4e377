--------------------------- MODULE RecordsProofs ----------------------------
(***************************************************************************)
(* Proofs about the records people keep: requirements, rules and scores,   *)
(* accounts and sign-ins, imports, consultants and the customer directory, *)
(* for any values of the constants and any number of overlapping requests. *)
(* In each part a request under way is described by what it read and,      *)
(* until another overtakes it, by what its writing will keep.              *)
(***************************************************************************)
EXTENDS MCRecords, FiniteSetTheorems, TLAPS

-----------------------------------------------------------------------------
(* Requirements: what a draft is, and whose writing breaks a row.          *)

pending(row) == row.review = "PENDING_REVIEW"

\* A session is idle, or holds a row as it loaded it and as it will be.
Draft == [ r : Requirements, was : RequirementRow, now : RequirementRow ]

DraftsOK ==
  /\ drafting = [ x \in Sessions |-> drafting[x] ]
  /\ \A x \in Sessions :
       drafting[x] # NoRequest =>
         drafting[x] \in Draft /\ drafting[x].r \in DOMAIN requirements

\* What a request is about to write respects the review, for the row as it was
\* loaded: it sends nothing back to review, and works on nothing unreviewed.
Respects(was, now) ==
  /\ pending(now) => pending(was)
  /\ now.status \in Worked /\ now.status # was.status => ~ pending(was)

\* A row that was reviewed when a request loaded it is so still: reviews are
\* not taken back.
StillReviewed(t) == ~ pending(t.was) => ~ pending(requirements[t.r])

Reviewed ==
  \A r \in DOMAIN requirements :
    requirements[r].status \in Worked => ~ pending(requirements[r])

RInv ==
  /\ IsTable(requirements, Requirements, RequirementRow)
  /\ DraftsOK
  /\ Reviewed
  /\ \A x \in Sessions :
       drafting[x] # NoRequest =>
         Respects(drafting[x].was, drafting[x].now) /\ StillReviewed(drafting[x])

-----------------------------------------------------------------------------
(* Rows.                                                                   *)

\* The columns of rows of the table, changed one by one, make a row of it.
LEMMA MergedRow ==
  ASSUME NEW row \in RequirementRow, NEW was \in RequirementRow,
         NEW now \in RequirementRow
  PROVE  /\ merge(row, was, now) \in RequirementRow
         /\ merge(row, was, now).status
              = IF now.status = was.status THEN row.status ELSE now.status
         /\ merge(row, was, now).review
              = IF now.review = was.review THEN row.review ELSE now.review
  BY DEF RequirementRow, merge

\* What the request writes keeps the promise of the gate, over any row that was
\* reviewed at least as much as the one it loaded.
LEMMA MergeRespects ==
  ASSUME NEW row \in RequirementRow, NEW was \in RequirementRow,
         NEW now \in RequirementRow, Respects(was, now),
         ~ pending(was) => ~ pending(row),
         row.status \in Worked => ~ pending(row)
  PROVE  LET new == merge(row, was, now) IN
         /\ pending(new) => pending(row)
         /\ new.status \in Worked => ~ pending(row) /\ ~ pending(new)
<1> DEFINE new == merge(row, was, now)
<1>1. pending(new) => pending(row)
  BY MergedRow DEF pending, Respects
<1>2. ASSUME new.status \in Worked PROVE ~ pending(row)
  BY <1>2, MergedRow DEF Respects
<1> QED
  BY <1>1, <1>2

LEMMA RatesOfRanges ==
  ASSUME RequirementInputs, NEW range \in RangeInputs
  PROVE  range[1] \in Rates /\ range[2] \in Rates
  BY DEF Rates

\* The rates of a parser's result end up in the column's type.
LEMMA AppliedRates ==
  ASSUME RequirementInputs, NEW range \in RangeInputs,
         NEW low \in { range[1], Unusable }
  PROVE  /\ applied_rates(low, range[2])[1] \in Rates
         /\ applied_rates(low, range[2])[2] \in Rates
<1>1. to_decimal(low) \in Rates /\ to_decimal(range[2]) \in Rates
  BY RatesOfRanges DEF to_decimal, is_number, Rates
<1> QED
  BY <1>1 DEF applied_rates

LEMMA EditedRow ==
  ASSUME RequirementInputs, NEW row \in RequirementRow,
         NEW range \in RangeInputs, NEW active \in BOOLEAN
  PROVE  /\ edited(row, range, active) \in RequirementRow
         /\ edited(row, range, active).status = row.status
         /\ edited(row, range, active).review = row.review
  BY RatesOfRanges DEF edited, RequirementRow

\* The table of transitions leads to statuses, and to CLOSED_WON only from
\* QUALIFIED.
LEMMA Transitions ==
  ASSUME NEW status \in RequirementStatus,
         NEW target \in ALLOWED_TRANSITIONS[status]
  PROVE  /\ target \in RequirementStatus
         /\ target = "CLOSED_WON" => status = "QUALIFIED"
  BY DEF RequirementStatus, ALLOWED_TRANSITIONS, early

\* A change of status that is allowed respects the review.
LEMMA MoveRespects ==
  ASSUME NEW row \in RequirementRow, NEW target, may_move(row, target),
         row.status \in Worked => ~ pending(row)
  PROVE  LET now == [ row EXCEPT
                        !.status = target,
                        !.active = @ /\ target \notin TERMINAL_STATUSES ]
         IN  now \in RequirementRow /\ Respects(row, now)
<1> DEFINE now == [ row EXCEPT
                      !.status = target,
                      !.active = @ /\ target \notin TERMINAL_STATUSES ]
<1>1. row.status \in RequirementStatus
  BY DEF RequirementRow
<1>2. target \in ALLOWED_TRANSITIONS[row.status]
  BY DEF may_move
<1>3. /\ target \in RequirementStatus
      /\ target = "CLOSED_WON" => row.status = "QUALIFIED"
  BY <1>1, <1>2, Transitions
<1>4. now \in RequirementRow /\ now.status = target /\ now.review = row.review
  BY <1>3 DEF RequirementRow
<1>5. target \in Worked => ~ pending(row)
  BY <1>3 DEF Worked, may_move, is_awaiting_review, pending
<1> QED
  BY <1>4, <1>5 DEF Respects, pending

-----------------------------------------------------------------------------
(* The invariant.                                                          *)

LEMMA InitEstablishes == RequirementsInit => RInv
  BY DEF RequirementsInit, RInv, IsTable, EmptyTable, DraftsOK, Reviewed

LEMMA CaptureKeeps ==
  ASSUME RInv, NEW r \in Requirements, NEW row \in RequirementRow,
         row.status \notin Worked, Captured(r, row)
  PROVE  RInv'
<1>1. /\ DOMAIN requirements' = DOMAIN requirements \cup { r }
      /\ requirements'[r] = row
      /\ \A k \in DOMAIN requirements : requirements'[k] = requirements[k]
  BY DEF Captured, Put
<1>2. IsTable(requirements', Requirements, RequirementRow)
  BY <1>1 DEF Captured, Put, RInv, IsTable
<1>3. Reviewed'
  BY <1>1 DEF RInv, Reviewed
<1>4. DraftsOK'
  BY <1>1 DEF Captured, RInv, DraftsOK
<1>5. \A x \in Sessions :
        drafting'[x] # NoRequest =>
          Respects(drafting'[x].was, drafting'[x].now) /\ StillReviewed(drafting[x])'
  BY <1>1 DEF Captured, RInv, DraftsOK, StillReviewed
<1> QED
  BY <1>2, <1>3, <1>4, <1>5 DEF RInv

LEMMA LoadsKeeps ==
  ASSUME RInv, NEW x \in Sessions, NEW r \in DOMAIN requirements,
         NEW now \in RequirementRow, Respects(requirements[r], now),
         Loads(x, r, now)
  PROVE  RInv'
<1> DEFINE t == [ r |-> r, was |-> requirements[r], now |-> now ]
<1>1. /\ drafting' = [ drafting EXCEPT ![x] = t ]
      /\ UNCHANGED requirements
  BY DEF Loads
<1>2. t \in Draft
  BY DEF Draft, RInv, IsTable
<1>3. drafting'[x] = t /\ \A y \in Sessions \ { x } : drafting'[y] = drafting[y]
  BY <1>1 DEF RInv, DraftsOK
<1>4. DraftsOK'
  BY <1>1, <1>2, <1>3 DEF RInv, DraftsOK
<1>5. \A y \in Sessions :
        drafting'[y] # NoRequest =>
          Respects(drafting'[y].was, drafting'[y].now) /\ StillReviewed(drafting'[y])
  BY <1>1, <1>3 DEF RInv, StillReviewed
<1> QED
  BY <1>1, <1>4, <1>5 DEF RInv, Reviewed, StillReviewed

LEMMA RollbackKeeps ==
  ASSUME RInv, NEW x \in Sessions, RollbackRequirement(x)
  PROVE  RInv'
<1>1. /\ drafting'[x] = NoRequest
      /\ \A y \in Sessions \ { x } : drafting'[y] = drafting[y]
      /\ drafting' = [ y \in Sessions |-> drafting'[y] ]
      /\ UNCHANGED requirements
  BY DEF RollbackRequirement, RInv, DraftsOK
<1> QED
  BY <1>1 DEF RInv, DraftsOK, Reviewed, StillReviewed

\* What a commit does to the table: one row, merged, and reviewed no less.
LEMMA CommitWrites ==
  ASSUME RInv, NEW x \in Sessions, CommitRequirement(x)
  PROVE  LET r == drafting[x].r
             new == merge(requirements[r], drafting[x].was, drafting[x].now)
         IN  /\ r \in DOMAIN requirements /\ r \in Requirements
             /\ new \in RequirementRow
             /\ requirements' = [ requirements EXCEPT ![r] = new ]
             /\ pending(new) => pending(requirements[r])
             /\ new.status \in Worked => ~ pending(requirements[r]) /\ ~ pending(new)
<1> DEFINE t == drafting[x]
           row == requirements[t.r]
           new == merge(row, t.was, t.now)
<1>1. /\ t \in Draft /\ t.r \in DOMAIN requirements
      /\ Respects(t.was, t.now) /\ StillReviewed(t)
  BY DEF CommitRequirement, RInv, DraftsOK
<1>2. t.was \in RequirementRow /\ t.now \in RequirementRow /\ t.r \in Requirements
  BY <1>1 DEF Draft
<1>3. row \in RequirementRow
  BY <1>1 DEF RInv, IsTable
<1>4. new \in RequirementRow
  BY <1>2, <1>3, MergedRow
<1>5. /\ pending(new) => pending(row)
      /\ new.status \in Worked => ~ pending(row) /\ ~ pending(new)
  BY <1>1, <1>2, <1>3, MergeRespects DEF StillReviewed, RInv, Reviewed
<1>6. requirements' = [ requirements EXCEPT ![t.r] = new ]
  BY DEF CommitRequirement
<1> QED
  BY <1>1, <1>2, <1>4, <1>5, <1>6

LEMMA CommitKeeps ==
  ASSUME RInv, NEW x \in Sessions, CommitRequirement(x)
  PROVE  RInv'
<1> DEFINE r == drafting[x].r
           new == merge(requirements[r], drafting[x].was, drafting[x].now)
<1>1. /\ r \in DOMAIN requirements
      /\ new \in RequirementRow
      /\ requirements' = [ requirements EXCEPT ![r] = new ]
      /\ pending(new) => pending(requirements[r])
      /\ new.status \in Worked => ~ pending(new)
  BY CommitWrites
<1> HIDE DEF new
<1>2. /\ drafting'[x] = NoRequest
      /\ \A y \in Sessions \ { x } : drafting'[y] = drafting[y]
      /\ drafting' = [ y \in Sessions |-> drafting'[y] ]
  BY DEF CommitRequirement, RInv, DraftsOK
<1>3. /\ DOMAIN requirements' = DOMAIN requirements
      /\ requirements'[r] = new
      /\ \A k \in DOMAIN requirements \ { r } : requirements'[k] = requirements[k]
  BY <1>1 DEF RInv, IsTable
<1>4. IsTable(requirements', Requirements, RequirementRow)
  BY <1>1, <1>3 DEF RInv, IsTable
<1>5. Reviewed'
  BY <1>1, <1>3 DEF RInv, Reviewed
<1>6. DraftsOK'
  BY <1>2, <1>3 DEF RInv, DraftsOK
<1>7. \A k \in DOMAIN requirements : ~ pending(requirements[k]) => ~ pending(requirements'[k])
  BY <1>1, <1>3
<1>8. \A y \in Sessions :
        drafting'[y] # NoRequest =>
          Respects(drafting'[y].was, drafting'[y].now) /\ StillReviewed(drafting[y])'
  BY <1>2, <1>3, <1>7 DEF RInv, DraftsOK, StillReviewed
<1> QED
  BY <1>4, <1>5, <1>6, <1>8 DEF RInv

\* Every request on a row loads it and makes of it a row that respects the review.
LEMMA StartKeeps ==
  ASSUME RInv, NEW x \in Sessions, StartRequirement(x)
  PROVE  RInv'
<1> USE RequirementInputs
<1>1. ASSUME NEW r \in DOMAIN requirements
      PROVE  /\ requirements[r] \in RequirementRow
             /\ requirements[r].status \in Worked => ~ pending(requirements[r])
  BY DEF RInv, IsTable, Reviewed
<1>2. ASSUME NEW r \in Requirements, NEW range \in RangeInputs,
             NEW active \in BOOLEAN, StartUpdate(x, r, range, active)
      PROVE  RInv'
  <2>1. r \in DOMAIN requirements
        /\ Loads(x, r, edited(requirements[r], range, active))
    BY <1>2 DEF StartUpdate, get
  <2>2. /\ edited(requirements[r], range, active) \in RequirementRow
        /\ Respects(requirements[r], edited(requirements[r], range, active))
    BY <1>1, <2>1, EditedRow DEF Respects, pending
  <2> QED
    BY <2>1, <2>2, LoadsKeeps
<1>3. ASSUME NEW r \in Requirements, NEW target \in StatusInputs,
             StartChangeStatus(x, r, target)
      PROVE  RInv'
  <2>1. r \in DOMAIN requirements /\ may_move(requirements[r], target)
    BY <1>3 DEF StartChangeStatus, get
  <2> QED
    BY <1>1, <1>3, <2>1, MoveRespects, LoadsKeeps DEF StartChangeStatus
<1>4. ASSUME NEW r \in Requirements, StartArchive(x, r)
      PROVE  RInv'
  <2> DEFINE now == [ requirements[r] EXCEPT !.archived = TRUE, !.active = FALSE ]
  <2>1. r \in DOMAIN requirements /\ Loads(x, r, now)
    BY <1>4 DEF StartArchive, get
  <2>2. now \in RequirementRow /\ Respects(requirements[r], now)
    BY <1>1, <2>1 DEF RequirementRow, Respects, pending
  <2> QED
    BY <2>1, <2>2, LoadsKeeps
<1>5. ASSUME NEW r \in Requirements, NEW range \in RangeInputs,
             NEW active \in BOOLEAN, NEW confirmed,
             StartAcceptParse(x, r, confirmed, range, active)
      PROVE  RInv'
  <2> DEFINE new == edited(requirements[r], range, active)
             now == [ new EXCEPT !.review = "ACCEPTED", !.status = "UNDER_REVIEW" ]
  <2>1. r \in DOMAIN requirements /\ Loads(x, r, now)
    BY <1>5 DEF StartAcceptParse, get
  <2>2. new \in RequirementRow
    BY <1>1, <2>1, EditedRow
  <2> HIDE DEF new
  <2>3. now \in RequirementRow /\ now.review = "ACCEPTED" /\ now.status = "UNDER_REVIEW"
    BY <2>2 DEF RequirementRow, ReviewStatus, RequirementStatus
  <2>4. Respects(requirements[r], now)
    BY <2>3 DEF Respects, pending, Worked
  <2> QED
    BY <2>1, <2>3, <2>4, LoadsKeeps
<1>6. ASSUME NEW r \in Requirements, StartRejectParse(x, r)
      PROVE  RInv'
  <2> DEFINE now == [ requirements[r] EXCEPT !.review = "REJECTED",
                                             !.active = FALSE,
                                             !.status = "CLOSED_LOST" ]
  <2>1. r \in DOMAIN requirements /\ Loads(x, r, now)
    BY <1>6 DEF StartRejectParse, get
  <2>2. now \in RequirementRow /\ now.review = "REJECTED" /\ now.status = "CLOSED_LOST"
    BY <1>1, <2>1 DEF RequirementRow, ReviewStatus, RequirementStatus
  <2>3. Respects(requirements[r], now)
    BY <2>2 DEF Respects, pending, Worked
  <2> QED
    BY <2>1, <2>2, <2>3, LoadsKeeps
<1> QED
  BY <1>2, <1>3, <1>4, <1>5, <1>6 DEF StartRequirement

\* A captured row has its columns' types and is neither qualified nor won.
LEMMA CapturedRow ==
  ASSUME Capture
  PROVE  \E r \in Requirements, row \in RequirementRow :
           row.status \notin Worked /\ Captured(r, row)
<1> USE RequirementInputs
<1>1. ASSUME NEW r \in Requirements, NEW range \in RangeInputs, Create(r, range)
      PROVE  \E row \in RequirementRow : row.status \notin Worked /\ Captured(r, row)
  <2> DEFINE row == [ status |-> "NEW", review |-> "ACCEPTED", active |-> TRUE,
                      archived |-> FALSE, rate_min |-> range[1],
                      rate_max |-> range[2], payload |-> NoPayload ]
  <2>1. row \in RequirementRow
    BY RatesOfRanges DEF RequirementRow, RequirementStatus, ReviewStatus
  <2>2. row.status \notin Worked
    BY DEF Worked
  <2>3. Captured(r, row)
    BY <1>1 DEF Create
  <2> QED
    BY <2>1, <2>2, <2>3
<1>2. ASSUME NEW r \in Requirements, NEW range \in RangeInputs,
             NEW low \in { range[1], Unusable }, NEW payload \in Payloads,
             ParseText(r, << low, range[2] >>, payload)
      PROVE  \E row \in RequirementRow : row.status \notin Worked /\ Captured(r, row)
  <2> DEFINE rates == applied_rates(low, range[2])
             row == [ status |-> "PARSED", review |-> "PENDING_REVIEW",
                      active |-> TRUE, archived |-> FALSE, rate_min |-> rates[1],
                      rate_max |-> rates[2], payload |-> payload ]
  <2>1. Captured(r, row)
    BY <1>2 DEF ParseText
  <2>2. rates[1] \in Rates /\ rates[2] \in Rates
    BY AppliedRates
  <2> HIDE DEF rates
  <2>3. row \in RequirementRow
    BY <2>2 DEF RequirementRow, RequirementStatus, ReviewStatus
  <2>4. row.status \notin Worked
    BY DEF Worked
  <2> QED
    BY <2>1, <2>3, <2>4
<1> QED
  BY <1>1, <1>2 DEF Capture

LEMMA NextPreserves == RInv /\ [RequirementsNext]_demand => RInv'
<1> SUFFICES ASSUME RInv, [RequirementsNext]_demand PROVE RInv'
  OBVIOUS
<1>1. CASE Capture
  BY <1>1, CapturedRow, CaptureKeeps
<1>2. ASSUME NEW x \in Sessions, StartRequirement(x) PROVE RInv'
  BY <1>2, StartKeeps
<1>3. ASSUME NEW x \in Sessions, CommitRequirement(x) PROVE RInv'
  BY <1>3, CommitKeeps
<1>4. ASSUME NEW x \in Sessions, RollbackRequirement(x) PROVE RInv'
  BY <1>4, RollbackKeeps
<1>5. CASE UNCHANGED demand
  BY <1>5 DEF demand, RInv, IsTable, DraftsOK, Reviewed, StillReviewed
<1> QED
  BY <1>1, <1>2, <1>3, <1>4, <1>5 DEF RequirementsNext

LEMMA Invariant == RequirementsSpec => []RInv
  BY InitEstablishes, NextPreserves, PTL DEF RequirementsSpec

\* Whatever overlaps, every row loaded or stored keeps its columns' types.
THEOREM RowsKeepTypes == RequirementsSpec => []RequirementsTypeOK
<1>1. RInv => RequirementsTypeOK
  BY DEF RInv, RequirementsTypeOK, DraftsOK, Draft
<1> QED
  BY <1>1, Invariant, PTL

-----------------------------------------------------------------------------
(* The requirements implement the review gate.                             *)

LEMMA InitMapsToGate == RequirementsInit => Gate!GateInit
  BY DEF RequirementsInit, Gate!GateInit, standing, EmptyTable

\* What is left alone has not moved at the gate.
LEMMA Untouched ==
  ASSUME NEW r \in Requirements, DOMAIN requirements' = DOMAIN requirements \cup { r },
         \A k \in DOMAIN requirements \ { r } : requirements'[k] = requirements[k]
  PROVE  standing' = [ standing EXCEPT ![r] = standing'[r] ]
<1>1. \A k \in Requirements \ { r } : standing'[k] = standing[k]
  BY DEF standing
<1> QED
  BY <1>1 DEF standing

LEMMA CaptureMapsToGate ==
  ASSUME NEW r \in Requirements, NEW row \in RequirementRow,
         row.status \notin Worked, Captured(r, row)
  PROVE  Gate!GateNext
<1>1. /\ r \notin DOMAIN requirements
      /\ DOMAIN requirements' = DOMAIN requirements \cup { r }
      /\ requirements'[r] = row
      /\ \A k \in DOMAIN requirements \ { r } : requirements'[k] = requirements[k]
  BY DEF Captured, Put
<1>2. standing' = [ standing EXCEPT ![r] = standing'[r] ]
  BY <1>1, Untouched
<1>3. standing[r] = "absent" /\ standing'[r] \in { "draft", "reviewed" }
  BY <1>1 DEF standing
<1>4. Gate!Capture(r)
  BY <1>2, <1>3 DEF Gate!Capture
<1> QED
  BY <1>4 DEF Gate!GateNext

LEMMA CommitMapsToGate ==
  ASSUME RInv, NEW x \in Sessions, CommitRequirement(x)
  PROVE  [Gate!GateNext]_standing
<1> DEFINE r == drafting[x].r
           new == merge(requirements[r], drafting[x].was, drafting[x].now)
<1>1. /\ r \in DOMAIN requirements /\ r \in Requirements
      /\ requirements' = [ requirements EXCEPT ![r] = new ]
      /\ pending(new) => pending(requirements[r])
      /\ new.status \in Worked => ~ pending(requirements[r]) /\ ~ pending(new)
  BY CommitWrites
<1> HIDE DEF new
<1>2. /\ DOMAIN requirements' = DOMAIN requirements
      /\ requirements'[r] = new
      /\ \A k \in DOMAIN requirements \ { r } : requirements'[k] = requirements[k]
  BY <1>1
<1>3. standing' = [ standing EXCEPT ![r] = standing'[r] ]
  BY <1>1, <1>2, Untouched
<1>4. requirements[r].status \in Worked => ~ pending(requirements[r])
  BY <1>1 DEF RInv, Reviewed
<1>5. \/ standing'[r] = standing[r]
      \/ standing[r] = "draft" /\ standing'[r] = "reviewed"
      \/ standing[r] = "reviewed" /\ standing'[r] = "worked"
      \/ standing[r] = "worked" /\ standing'[r] = "reviewed"
  BY <1>1, <1>2, <1>4 DEF standing, is_awaiting_review, pending
<1>6. CASE standing'[r] = standing[r]
  BY <1>3, <1>6 DEF standing
<1>7. CASE standing'[r] # standing[r]
  <2>1. Gate!Review(r) \/ Gate!Work(r) \/ Gate!Rest(r)
    BY <1>3, <1>5, <1>7 DEF Gate!Review, Gate!Work, Gate!Rest
  <2> QED
    BY <1>1, <2>1 DEF Gate!GateNext
<1> QED
  BY <1>6, <1>7

LEMMA StepMapsToGate == RInv /\ [RequirementsNext]_demand => [Gate!GateNext]_standing
<1> SUFFICES ASSUME RInv, [RequirementsNext]_demand PROVE [Gate!GateNext]_standing
  OBVIOUS
<1>1. CASE Capture
  BY <1>1, CapturedRow, CaptureMapsToGate
<1>2. ASSUME NEW x \in Sessions, CommitRequirement(x) PROVE [Gate!GateNext]_standing
  BY <1>2, CommitMapsToGate
<1>3. CASE UNCHANGED requirements
  BY <1>3 DEF standing
<1>4. ASSUME NEW x \in Sessions, StartRequirement(x) \/ RollbackRequirement(x)
      PROVE  UNCHANGED requirements
  BY <1>4 DEF StartRequirement, RollbackRequirement, StartUpdate, StartChangeStatus,
              StartArchive, StartAcceptParse, StartRejectParse, Loads
<1> QED
  BY <1>1, <1>2, <1>3, <1>4 DEF RequirementsNext, demand

\* However many requests overlap, and however: what is still a draft is worked on
\* by nobody, a review alone takes it out of that, and nothing makes it a draft
\* again.
THEOREM RequirementsImplementGate == RequirementsSpec => ReviewIsAGate
<1>1. RInv /\ [RequirementsNext]_demand => [Gate!GateNext]_standing
  BY StepMapsToGate
<1> QED
  BY InitMapsToGate, <1>1, Invariant, PTL
     DEF RequirementsSpec, ReviewIsAGate, Gate!GateSpec

-----------------------------------------------------------------------------
(* Only overlaps break rows.                                               *)

\* A request makes of a sound row a sound one.
KeepsSound(was, now) == Sound(was) => Sound(now)

SInv ==
  \A x \in Sessions :
    drafting[x] # NoRequest => KeepsSound(drafting[x].was, drafting[x].now)

\* Over the row it was made from, a merge writes the new row.
LEMMA MergeOverLoaded ==
  ASSUME NEW was \in RequirementRow, NEW now \in RequirementRow
  PROVE  merge(was, was, now) = now
  BY DEF RequirementRow, merge

\* A draft is never given an inverted range: the parser's rates are exchanged.
LEMMA AppliedAreOrdered ==
  ASSUME RequirementInputs, NEW range \in RangeInputs,
         NEW low \in { range[1], Unusable }
  PROVE  ~ inverted(applied_rates(low, range[2])[1], applied_rates(low, range[2])[2])
<1> DEFINE least == to_decimal(low)
           most == to_decimal(range[2])
<1>1. range[1] \in Nat \cup { None } /\ range[2] \in Nat \cup { None }
  BY DEF RequirementInputs
<1>2. least \in Nat \cup { None } /\ most \in Nat \cup { None }
  BY <1>1 DEF to_decimal, is_number
<1> HIDE DEF least, most
<1>3. ~ (inverted(least, most) /\ inverted(most, least))
  BY <1>2 DEF inverted, is_number
<1> QED
  BY <1>3 DEF applied_rates, least, most

LEMMA CapturedIsSound ==
  ASSUME NEW r \in Requirements, Capture, r \notin DOMAIN requirements,
         r \in DOMAIN requirements'
  PROVE  Sound(requirements'[r])
<1> USE RequirementInputs
<1>1. ASSUME NEW k \in Requirements, NEW row, Captured(k, row)
      PROVE  requirements'[r] = row
  BY <1>1 DEF Captured, Put
<1>2. ASSUME NEW k \in Requirements, NEW range \in RangeInputs, Create(k, range)
      PROVE  Sound(requirements'[r])
  BY <1>1, <1>2 DEF Create, Sound
<1>3. ASSUME NEW k \in Requirements, NEW range \in RangeInputs,
             NEW low \in { range[1], Unusable }, NEW payload \in Payloads,
             ParseText(k, << low, range[2] >>, payload)
      PROVE  Sound(requirements'[r])
  <2> DEFINE rates == applied_rates(low, range[2])
  <2>1. ~ inverted(rates[1], rates[2])
    BY AppliedAreOrdered
  <2>2. Captured(k, [ status |-> "PARSED", review |-> "PENDING_REVIEW",
                      active |-> TRUE, archived |-> FALSE, rate_min |-> rates[1],
                      rate_max |-> rates[2], payload |-> payload ])
    BY <1>3 DEF ParseText
  <2> HIDE DEF rates
  <2> QED
    BY <1>1, <2>1, <2>2 DEF Sound
<1> QED
  BY <1>2, <1>3 DEF Capture

\* Back to NEW leads no way, and to PARSED only NEW does.
LEMMA NoWayBack ==
  ASSUME NEW status \in RequirementStatus,
         NEW target \in ALLOWED_TRANSITIONS[status]
  PROVE  target # "NEW" /\ (target = "PARSED" => status = "NEW")
  BY DEF RequirementStatus, ALLOWED_TRANSITIONS, early

\* Each request keeps the row it loads sound.
LEMMA StartKeepsSound ==
  ASSUME RInv, NEW x \in Sessions, StartRequirement(x)
  PROVE  \E r \in DOMAIN requirements : \E now :
           Loads(x, r, now) /\ KeepsSound(requirements[r], now)
<1> USE RequirementInputs DEF KeepsSound, Sound
<1>1. ASSUME NEW r \in DOMAIN requirements
      PROVE  requirements[r] \in RequirementRow
  BY DEF RInv, IsTable
<1>2. ASSUME NEW r \in Requirements, NEW range \in RangeInputs,
             NEW active \in BOOLEAN, StartUpdate(x, r, range, active)
      PROVE  \E k \in DOMAIN requirements : \E now :
               Loads(x, k, now) /\ KeepsSound(requirements[k], now)
  <2> DEFINE now == edited(requirements[r], range, active)
  <2>1. /\ r \in DOMAIN requirements /\ ~ requirements[r].archived
        /\ Loads(x, r, now) /\ ~ inverted(now.rate_min, now.rate_max)
    BY <1>2 DEF StartUpdate, get, ranges_are_ordered
  <2>2. /\ now.archived = requirements[r].archived
        /\ now.review = requirements[r].review
        /\ now.status = requirements[r].status
    BY <1>1, <2>1 DEF edited, RequirementRow
  <2> HIDE DEF now
  <2> QED
    BY <2>1, <2>2
<1>3. ASSUME NEW r \in Requirements, NEW target \in StatusInputs,
             StartChangeStatus(x, r, target)
      PROVE  \E k \in DOMAIN requirements : \E now :
               Loads(x, k, now) /\ KeepsSound(requirements[k], now)
  <2> DEFINE row == requirements[r]
             now == [ row EXCEPT
                        !.status = target,
                        !.active = @ /\ target \notin TERMINAL_STATUSES ]
  <2>1. /\ r \in DOMAIN requirements /\ ~ row.archived
        /\ target \in ALLOWED_TRANSITIONS[row.status] /\ Loads(x, r, now)
    BY <1>3 DEF StartChangeStatus, get, may_move
  <2>2. row \in RequirementRow /\ row.status \in RequirementStatus
    BY <1>1, <2>1 DEF RequirementRow
  <2>3. target # "NEW" /\ (target = "PARSED" => row.status = "NEW")
    BY <2>1, <2>2, NoWayBack
  <2>4. /\ now.archived = row.archived /\ now.review = row.review
        /\ now.status = target
        /\ now.rate_min = row.rate_min /\ now.rate_max = row.rate_max
    BY <2>2 DEF RequirementRow
  <2> HIDE DEF now
  <2> QED
    BY <2>1, <2>3, <2>4
<1>4. ASSUME NEW r \in Requirements, StartArchive(x, r)
      PROVE  \E k \in DOMAIN requirements : \E now :
               Loads(x, k, now) /\ KeepsSound(requirements[k], now)
  <2> DEFINE now == [ requirements[r] EXCEPT !.archived = TRUE, !.active = FALSE ]
  <2>1. r \in DOMAIN requirements /\ Loads(x, r, now)
    BY <1>4 DEF StartArchive, get
  <2>2. /\ ~ now.active /\ now.review = requirements[r].review
        /\ now.status = requirements[r].status
        /\ now.rate_min = requirements[r].rate_min
        /\ now.rate_max = requirements[r].rate_max
    BY <1>1, <2>1 DEF RequirementRow
  <2> HIDE DEF now
  <2> QED
    BY <2>1, <2>2
<1>5. ASSUME NEW r \in Requirements, NEW range \in RangeInputs,
             NEW active \in BOOLEAN, NEW confirmed,
             StartAcceptParse(x, r, confirmed, range, active)
      PROVE  \E k \in DOMAIN requirements : \E now :
               Loads(x, k, now) /\ KeepsSound(requirements[k], now)
  <2> DEFINE new == edited(requirements[r], range, active)
             now == [ new EXCEPT !.review = "ACCEPTED", !.status = "UNDER_REVIEW" ]
  <2>1. /\ r \in DOMAIN requirements /\ ~ requirements[r].archived
        /\ Loads(x, r, now) /\ ~ inverted(new.rate_min, new.rate_max)
    BY <1>5 DEF StartAcceptParse, get, ranges_are_ordered
  <2>2. /\ now.archived = requirements[r].archived /\ now.review = "ACCEPTED"
        /\ now.rate_min = new.rate_min /\ now.rate_max = new.rate_max
    BY <1>1, <2>1 DEF edited, RequirementRow
  <2> HIDE DEF now, new
  <2> QED
    BY <2>1, <2>2
<1>6. ASSUME NEW r \in Requirements, StartRejectParse(x, r)
      PROVE  \E k \in DOMAIN requirements : \E now :
               Loads(x, k, now) /\ KeepsSound(requirements[k], now)
  <2> DEFINE now == [ requirements[r] EXCEPT !.review = "REJECTED",
                                             !.active = FALSE,
                                             !.status = "CLOSED_LOST" ]
  <2>1. r \in DOMAIN requirements /\ Loads(x, r, now)
    BY <1>6 DEF StartRejectParse, get
  <2>2. /\ ~ now.active /\ now.status = "CLOSED_LOST"
        /\ now.rate_min = requirements[r].rate_min
        /\ now.rate_max = requirements[r].rate_max
    BY <1>1, <2>1 DEF RequirementRow
  <2> HIDE DEF now
  <2> QED
    BY <2>1, <2>2
<1> QED
  BY <1>2, <1>3, <1>4, <1>5, <1>6 DEF StartRequirement

LEMMA SInvPreserved == RInv /\ SInv /\ [RequirementsNext]_demand => SInv'
<1> SUFFICES ASSUME RInv, SInv, [RequirementsNext]_demand PROVE SInv'
  OBVIOUS
<1>1. ASSUME UNCHANGED drafting PROVE SInv'
  BY <1>1 DEF SInv
<1>2. ASSUME NEW x \in Sessions, drafting' = [ drafting EXCEPT ![x] = NoRequest ]
      PROVE  SInv'
  BY <1>2 DEF SInv, RInv, DraftsOK
<1>3. ASSUME NEW x \in Sessions, StartRequirement(x) PROVE SInv'
  <2>1. PICK r \in DOMAIN requirements :
          \E loaded : Loads(x, r, loaded) /\ KeepsSound(requirements[r], loaded)
    BY <1>3, StartKeepsSound
  <2>2. PICK now : Loads(x, r, now) /\ KeepsSound(requirements[r], now)
    BY <2>1
  <2>3. /\ drafting'[x] = [ r |-> r, was |-> requirements[r], now |-> now ]
        /\ \A y \in Sessions \ { x } : drafting'[y] = drafting[y]
    BY <2>2 DEF Loads, RInv, DraftsOK
  <2> QED
    BY <2>2, <2>3 DEF SInv
<1> QED
  BY <1>1, <1>2, <1>3 DEF RequirementsNext, Capture, Create, ParseText, Captured,
                          CommitRequirement, RollbackRequirement, demand

LEMMA StepBreaksOnlyOverlapped ==
  ASSUME RInv, SInv, RequirementsNext, NEW r \in DOMAIN requirements',
         r \in DOMAIN requirements => Sound(requirements[r]) /\ ~ Overtaken(r)
  PROVE  Sound(requirements'[r])
<1>1. CASE Capture
  <2>1. PICK k \in Requirements, row \in RequirementRow : Captured(k, row)
    BY <1>1, CapturedRow
  <2>2. r \in Requirements /\ (r \in DOMAIN requirements => requirements'[r] = requirements[r])
    BY <2>1 DEF Captured, Put, RInv, IsTable
  <2> QED
    BY <1>1, <2>2, CapturedIsSound
<1>2. ASSUME NEW x \in Sessions, CommitRequirement(x) PROVE Sound(requirements'[r])
  <2> DEFINE t == drafting[x]
             new == merge(requirements[t.r], t.was, t.now)
  <2>1. /\ t # NoRequest /\ drafting'[x] = NoRequest
        /\ requirements' = [ requirements EXCEPT ![t.r] = new ]
    BY <1>2 DEF CommitRequirement, RInv, DraftsOK
  <2>2. t \in Draft /\ t.r \in DOMAIN requirements /\ KeepsSound(t.was, t.now)
    BY <2>1 DEF RInv, DraftsOK, SInv
  <2>3. CASE r = t.r
    <3>1. t.was = requirements[r]
      BY <2>1, <2>2, <2>3 DEF Overtaken
    <3>2. new = t.now
      BY <2>2, <2>3, <3>1, MergeOverLoaded DEF Draft
    <3> QED
      BY <2>1, <2>2, <2>3, <3>1, <3>2 DEF KeepsSound
  <2>4. CASE r # t.r
    BY <2>1, <2>4
  <2> QED
    BY <2>3, <2>4
<1>3. ASSUME UNCHANGED requirements PROVE Sound(requirements'[r])
  BY <1>3
<1>4. ASSUME NEW x \in Sessions, StartRequirement(x) \/ RollbackRequirement(x)
      PROVE  UNCHANGED requirements
  BY <1>4 DEF StartRequirement, RollbackRequirement, StartUpdate, StartChangeStatus,
              StartArchive, StartAcceptParse, StartRejectParse, Loads
<1> QED
  BY <1>1, <1>2, <1>3, <1>4 DEF RequirementsNext

\* However many requests overlap: a row that is sound is made unsound by nothing
\* but a request that wrote over changes it had not seen.
THEOREM OverlapsAloneBreakRows == RequirementsSpec => OnlyOverlapsBreakRows
<1>1. RequirementsInit => SInv
  BY DEF RequirementsInit, SInv
<1>2. RequirementsSpec => []SInv
  BY <1>1, SInvPreserved, Invariant, PTL DEF RequirementsSpec
<1> DEFINE A == \A r \in DOMAIN requirements' :
                  /\ r \in DOMAIN requirements => Sound(requirements[r]) /\ ~ Overtaken(r)
                  => Sound(requirements'[r])
<1>3. RInv /\ SInv /\ [RequirementsNext]_demand => [A]_demand
  BY StepBreaksOnlyOverlapped
<1> QED
  BY <1>2, <1>3, Invariant, PTL DEF RequirementsSpec, OnlyOverlapsBreakRows

-----------------------------------------------------------------------------
(* Tables and the writes of a session.                                     *)

\* A finite set has one element at most when its cardinality says so.
LEMMA OneAtMost ==
  ASSUME NEW S, IsFiniteSet(S)
  PROVE  /\ Cardinality(S) \in Nat
         /\ Cardinality(S) <= 1 <=> \A x, y \in S : x = y
<1>1. Cardinality(S) \in Nat
  BY FS_CardinalityType
<1>2. Cardinality(S) = 0 <=> S = {}
  BY FS_EmptySet
<1>3. Cardinality(S) = 1 <=> \E x : S = { x }
  BY FS_Singleton
<1>4. (\A x, y \in S : x = y) => S = {} \/ \E x : S = { x }
  OBVIOUS
<1> DEFINE n == Cardinality(S)
<1>5. n <= 1 <=> n = 0 \/ n = 1
  <2>1. n \in Nat
    BY <1>1
  <2> HIDE DEF n
  <2>2. QED
    BY <2>1
<1>6. QED
  BY <1>1, <1>2, <1>3, <1>4, <1>5

\* A session that writes what it changed of what the table still is, makes the
\* table what the session has it be.
LEMMA FlushedChanges ==
  ASSUME NEW table, NEW new,
         table = [ k \in DOMAIN table |-> table[k] ],
         new = [ k \in DOMAIN new |-> new[k] ],
         DOMAIN table \subseteq DOMAIN new,
         \A k \in DOMAIN table : merge(table[k], table[k], new[k]) = new[k]
  PROVE  flush(table, Select(table, DOMAIN changes(table, new)), changes(table, new)) = new
<1>1. PICK D : D = { k \in DOMAIN new : k \in DOMAIN table => table[k] # new[k] }
  OBVIOUS
<1>2. PICK now : now = changes(table, new)
  OBVIOUS
<1>3. DOMAIN now = D /\ \A k \in D : now[k] = new[k]
  BY <1>1, <1>2 DEF changes, Select
<1>4. PICK was : was = Select(table, DOMAIN now)
  OBVIOUS
<1>5. DOMAIN was = DOMAIN table \cap D /\ \A k \in DOMAIN table \cap D : was[k] = table[k]
  BY <1>3, <1>4 DEF Select
<1>6. PICK rows : rows = [ k \in DOMAIN now |->
                             IF k \in DOMAIN was
                             THEN merge(table[k], was[k], now[k]) ELSE now[k] ]
  OBVIOUS
<1>7. DOMAIN rows = D /\ \A k \in D : rows[k] = new[k]
  <2>1. ASSUME NEW k \in D  PROVE rows[k] = new[k]
    <3>1. CASE k \in DOMAIN table
      <4>1. rows[k] = merge(table[k], was[k], now[k])
        BY <1>3, <1>5, <1>6, <3>1
      <4>2. was[k] = table[k] /\ now[k] = new[k]
        BY <1>3, <1>5, <3>1
      <4>3. QED
        BY <3>1, <4>1, <4>2
    <3>2. CASE k \notin DOMAIN table
      BY <1>3, <1>5, <1>6, <3>2
    <3>3. QED
      BY <3>1, <3>2
  <2>2. QED
    BY <1>3, <1>6, <2>1
<1>8. PutAll(table, rows) = new
  <2>1. DOMAIN table \cup DOMAIN rows = DOMAIN new
    BY <1>1, <1>7
  <2>2. \A k \in DOMAIN new :
          (IF k \in DOMAIN rows THEN rows[k] ELSE table[k]) = new[k]
    BY <1>1, <1>7, <2>1
  <2>3. QED
    BY <2>1, <2>2 DEF PutAll
<1>9. flush(table, was, now) = PutAll(table, rows)
  BY <1>6 DEF flush
<1>10. QED
  BY <1>2, <1>4, <1>8, <1>9

\* Rows whose columns may be updated one by one.
MergesWell(Rows) == \A a, b, c \in Rows : merge(a, b, c) \in Rows

\* Rows that were loaded from a table are still there.
LoadedFrom(was, table) == DOMAIN was \subseteq DOMAIN table

\* What a flush leaves are rows of the table, those there were among them.
LEMMA FlushedIsTable ==
  ASSUME NEW Keys, NEW Rows, NEW table, NEW was, NEW now,
         IsTable(table, Keys, Rows), IsTable(was, Keys, Rows), IsTable(now, Keys, Rows),
         LoadedFrom(was, table), MergesWell(Rows)
  PROVE  /\ IsTable(flush(table, was, now), Keys, Rows)
         /\ LoadedFrom(table, flush(table, was, now))
<1>1. PICK rows : rows = [ k \in DOMAIN now |->
                             IF k \in DOMAIN was
                             THEN merge(table[k], was[k], now[k]) ELSE now[k] ]
  OBVIOUS
<1>2. DOMAIN rows = DOMAIN now /\ \A k \in DOMAIN now : rows[k] \in Rows
  BY <1>1 DEF IsTable, MergesWell, LoadedFrom
<1>3. PICK all : all = flush(table, was, now)
  OBVIOUS
<1>4. all = PutAll(table, rows)
  BY <1>1, <1>3 DEF flush
<1>5. /\ all = [ k \in DOMAIN all |-> all[k] ]
      /\ DOMAIN all = DOMAIN table \cup DOMAIN now
      /\ \A k \in DOMAIN table \ DOMAIN now : all[k] = table[k]
      /\ \A k \in DOMAIN now : all[k] = rows[k]
  BY <1>2, <1>4 DEF PutAll
<1>6. IsTable(all, Keys, Rows) /\ LoadedFrom(table, all)
  BY <1>2, <1>5 DEF IsTable, LoadedFrom
<1>7. QED
  BY <1>3, <1>6

\* The rows that a flush leaves.
Flushed(all, table, was, now) ==
  /\ all = [ k \in DOMAIN all |-> all[k] ]
  /\ DOMAIN all = DOMAIN table \cup DOMAIN now
  /\ \A k \in DOMAIN table \ DOMAIN now : all[k] = table[k]
  /\ \A k \in DOMAIN now \ DOMAIN was : all[k] = now[k]
  /\ \A k \in DOMAIN now \cap DOMAIN was : all[k] = merge(table[k], was[k], now[k])

\* A flush leaves what the definition above says.
LEMMA FlushedRows ==
  ASSUME NEW table, NEW was, NEW now
  PROVE  Flushed(flush(table, was, now), table, was, now)
<1>1. PICK rows : rows = [ k \in DOMAIN now |->
                             IF k \in DOMAIN was
                             THEN merge(table[k], was[k], now[k]) ELSE now[k] ]
  OBVIOUS
<1>2. PICK all : all = PutAll(table, rows)
  OBVIOUS
<1>3. all = flush(table, was, now)
  BY <1>1, <1>2 DEF flush
<1>4. Flushed(all, table, was, now)
  BY <1>1, <1>2 DEF PutAll, Flushed
<1>5. QED
  BY <1>3, <1>4

\* What a session changed, and what it changed of the rows it read, are rows of the
\* table.
LEMMA ChangedRows ==
  ASSUME NEW Keys, NEW Rows, NEW table, NEW new,
         IsTable(table, Keys, Rows), IsTable(new, Keys, Rows)
  PROVE  /\ IsTable(changes(table, new), Keys, Rows)
         /\ IsTable(Select(table, DOMAIN changes(table, new)), Keys, Rows)
         /\ DOMAIN Select(table, DOMAIN changes(table, new)) \subseteq DOMAIN table
<1>1. PICK now : now = changes(table, new)
  OBVIOUS
<1>2. IsTable(now, Keys, Rows)
  BY <1>1 DEF changes, Select, IsTable
<1>3. QED
  BY <1>1, <1>2 DEF Select, IsTable

-----------------------------------------------------------------------------
(* Rules, matches and scores (module Configurations).                      *)

OneActive(table) ==
  \A k \in Kinds : \A v, w \in active_versions(table, k) : v = w

OneCurrent(table) ==
  /\ \A m, n \in DOMAIN table : table[m].is_current /\ table[n].is_current => m = n
  /\ DOMAIN table # {} => \E n \in DOMAIN table : table[n].is_current

OneVersion(table) ==
  \A r, s \in DOMAIN table : table[r].weights_version = table[s].weights_version

\* A request that is about to write rows of the tables.  While no other has
\* committed since it read, what it writes keeps the order there is.
RunShape(t) ==
  t = [ busy |-> t.busy, c_was |-> t.c_was, c_now |-> t.c_now,
        replaces |-> t.replaces, m_was |-> t.m_was, m_now |-> t.m_now,
        s_was |-> t.s_was, s_now |-> t.s_now, late |-> t.late ]

RunRows(t) ==
  /\ IsTable(t.c_was, Versions, ConfigRow) /\ DOMAIN t.c_was \subseteq DOMAIN configs
  /\ IsTable(t.c_now, Versions, ConfigRow)
  /\ IsTable(t.m_now, Resources, MatchRow)
  /\ IsTable(t.s_was, 1..MaxScores, ScoreRow) /\ DOMAIN t.s_was \subseteq DOMAIN scores
  /\ IsTable(t.s_now, 1..MaxScores, ScoreRow)

RunKeepsOrder(t) ==
  /\ OneActive(configs) => OneActive(flush(configs, t.c_was, t.c_now))
  /\ OneCurrent(scores) => OneCurrent(flush(scores, t.s_was, t.s_now))
  /\ t.replaces => DOMAIN matches \subseteq t.m_was /\ OneVersion(t.m_now)

Running(t) ==
  RunShape(t) /\ t.busy /\ RunRows(t) /\ (~ t.late => RunKeepsOrder(t))

RulesInv ==
  /\ ConfigurationsTypeOK
  /\ run = [ x \in Requests |-> run[x] ]
  /\ \A x \in Requests : run[x] = NoRun \/ Running(run[x])

\* A request that is under way is not idle.
LEMMA NoRunIsIdle ==
  ASSUME NEW t
  PROVE  ~ NoRun.busy /\ (t.busy => t # NoRun)
<1>1. ~ NoRun.busy
  BY DEF NoRun
<1>2. QED
  BY <1>1

\* The rows the requests compute are rows.
LEMMA RulesMerge ==
  /\ MergesWell(ConfigRow)
  /\ \A a, b \in ConfigRow : merge(a, a, b) = b
  /\ MergesWell(ScoreRow)
  /\ \A a, b \in ScoreRow : merge(a, a, b) = b
  BY DEF merge, ConfigRow, ScoreRow, MergesWell

\* The versions after one is activated (ScoringConfigService.activate): it is active,
\* and of its kind it alone.
LEMMA ActivatedRows ==
  ASSUME NEW table, IsTable(table, DOMAIN table, ConfigRow), NEW key
  PROVE  /\ IsTable(activated(table, key), DOMAIN table, ConfigRow)
         /\ DOMAIN activated(table, key) = DOMAIN table
         /\ \A k \in DOMAIN table :
              activated(table, key)[k].is_active
                <=> k = key \/ (table[k].is_active /\ k[1] # key[1])
<1>1. PICK new : new = activated(table, key)
  OBVIOUS
<1>2. /\ new = [ k \in DOMAIN new |-> new[k] ] /\ DOMAIN new = DOMAIN table
      /\ \A k \in DOMAIN table :
           new[k] = [ is_active |-> k = key \/ (table[k].is_active /\ k[1] # key[1]) ]
  BY <1>1 DEF activated
<1>3. ASSUME NEW k \in DOMAIN table
      PROVE  /\ new[k] \in ConfigRow
             /\ new[k].is_active <=> k = key \/ (table[k].is_active /\ k[1] # key[1])
  <2>1. PICK b \in BOOLEAN : b = (k = key \/ (table[k].is_active /\ k[1] # key[1]))
    OBVIOUS
  <2>2. new[k] = [ is_active |-> b ]
    BY <1>2, <2>1
  <2>3. new[k] \in ConfigRow /\ new[k].is_active = b
    BY <2>2 DEF ConfigRow
  <2>4. QED
    BY <2>1, <2>3
<1>4. QED
  BY <1>1, <1>2, <1>3 DEF IsTable

\* The versions after one is created, active or not, are as single as before
\* (ScoringConfigService.create).
LEMMA CreatedRows ==
  ASSUME NEW table, IsTable(table, DOMAIN table, ConfigRow), NEW kind, NEW activate \in BOOLEAN
  PROVE  LET c == created(table, kind, activate) IN
         /\ IsTable(c, DOMAIN c, ConfigRow)
         /\ DOMAIN table \subseteq DOMAIN c
         /\ OneActive(table) => OneActive(c)
<1>1. PICK key : key = << kind, highest(table, kind) + 1 >>
  OBVIOUS
<1>2. PICK off \in BOOLEAN : off = FALSE
  OBVIOUS
<1>3. PICK row : row = [ is_active |-> off ]
  OBVIOUS
<1>4. PICK added : added = Put(table, key, row)
  OBVIOUS
<1>5. row \in ConfigRow /\ ~ row.is_active
  BY <1>2, <1>3 DEF ConfigRow
<1>6. /\ IsTable(added, DOMAIN added, ConfigRow)
      /\ DOMAIN added = DOMAIN table \cup { key }
      /\ \A k \in DOMAIN added : added[k] = IF k = key THEN row ELSE table[k]
  BY <1>4, <1>5 DEF Put, IsTable
<1>7. created(table, kind, activate) = IF activate THEN activated(added, key) ELSE added
  BY <1>1, <1>2, <1>3, <1>4 DEF created
<1>8. OneActive(table) => OneActive(added)
  BY <1>5, <1>6 DEF OneActive, active_versions, versions_of
<1>9. PICK on : on = activated(added, key)
  OBVIOUS
<1>10. /\ IsTable(on, DOMAIN added, ConfigRow) /\ DOMAIN on = DOMAIN added
       /\ \A k \in DOMAIN added :
            on[k].is_active <=> k = key \/ (added[k].is_active /\ k[1] # key[1])
  BY <1>6, <1>9, ActivatedRows
<1>11. OneActive(added) => OneActive(on)
  BY <1>1, <1>10 DEF OneActive, active_versions, versions_of
<1>12. QED
  BY <1>6, <1>7, <1>8, <1>9, <1>10, <1>11

\* After an activation each kind has one active version at most, if it had before.
LEMMA ActivatedOne ==
  ASSUME NEW table, IsTable(table, DOMAIN table, ConfigRow), NEW key \in Versions,
         OneActive(table)
  PROVE  OneActive(activated(table, key))
<1>1. PICK on : on = activated(table, key)
  OBVIOUS
<1>2. /\ DOMAIN on = DOMAIN table
      /\ \A k \in DOMAIN table :
           on[k].is_active <=> k = key \/ (table[k].is_active /\ k[1] # key[1])
  BY <1>1, ActivatedRows
<1>3. key = << key[1], key[2] >>
  BY DEF Versions
<1>4. ASSUME NEW k \in Kinds, NEW v \in active_versions(on, k), NEW w \in active_versions(on, k)
      PROVE  v = w
  <2>1. /\ v \in versions_of(table, k) /\ w \in versions_of(table, k)
        /\ on[<< k, v >>].is_active /\ on[<< k, w >>].is_active
    BY <1>2, <1>4 DEF active_versions, versions_of
  <2>2. CASE k = key[1]
    <3>1. << k, v >> = key /\ << k, w >> = key
      BY <1>2, <2>1, <2>2 DEF versions_of
    <3>2. QED
      BY <3>1
  <2>3. CASE k # key[1]
    <3>1. v \in active_versions(table, k) /\ w \in active_versions(table, k)
      BY <1>2, <2>1, <2>3 DEF active_versions, versions_of
    <3>2. QED
      BY <3>1 DEF OneActive
  <2>4. QED
    BY <2>2, <2>3
<1>5. QED
  BY <1>1, <1>4 DEF OneActive

\* Seeding adds a version where there is no active one, and keeps the others
\* (ScoringConfigService.active).
LEMMA SeededRows ==
  ASSUME NEW table, IsTable(table, DOMAIN table, ConfigRow), NEW kinds
  PROVE  LET c == seeded(table, kinds) IN
         /\ IsTable(c, DOMAIN c, ConfigRow)
         /\ DOMAIN table \subseteq DOMAIN c
         /\ OneActive(table) => OneActive(c)
<1>1. PICK missing : missing = { k \in kinds : active_versions(table, k) = {} }
  OBVIOUS
<1>2. PICK on \in BOOLEAN : on = TRUE
  OBVIOUS
<1>3. PICK keys : keys = { << k, highest(table, k) + 1 >> : k \in missing }
  OBVIOUS
<1>a. PICK row : row = [ is_active |-> on ]
  OBVIOUS
<1>4. row \in ConfigRow
  BY <1>a DEF ConfigRow
<1>5. PICK rows : rows = [ key \in keys |-> row ]
  OBVIOUS
<1>6. PICK c : c = PutAll(table, rows)
  OBVIOUS
<1>7. seeded(table, kinds) = c
  BY <1>1, <1>2, <1>3, <1>a, <1>5, <1>6 DEF seeded
<1>8. /\ IsTable(c, DOMAIN c, ConfigRow) /\ DOMAIN c = DOMAIN table \cup keys
      /\ \A k \in DOMAIN c \ keys : c[k] = table[k]
  BY <1>4, <1>5, <1>6 DEF PutAll, IsTable
<1>9. ASSUME OneActive(table), NEW k \in Kinds,
             NEW v \in active_versions(c, k), NEW w \in active_versions(c, k)
      PROVE  v = w
  <2>1. \A u \in active_versions(c, k) : << k, u >> \notin keys => u \in active_versions(table, k)
    BY <1>8 DEF active_versions, versions_of
  <2>2. CASE k \in missing
    <3>1. active_versions(table, k) = {}
      BY <1>1, <2>2
    <3>2. << k, v >> \in keys /\ << k, w >> \in keys
      BY <1>9, <2>1, <3>1
    <3>3. v = highest(table, k) + 1 /\ w = highest(table, k) + 1
      BY <1>3, <3>2
    <3>4. QED
      BY <3>3
  <2>3. CASE k \notin missing
    <3>1. \A u : << k, u >> \notin keys
      BY <1>3, <2>3
    <3>2. v \in active_versions(table, k) /\ w \in active_versions(table, k)
      BY <1>9, <2>1, <3>1
    <3>3. QED
      BY <1>9, <3>2 DEF OneActive
  <2>4. QED
    BY <2>2, <2>3
<1>10. QED
  BY <1>7, <1>8, <1>9 DEF OneActive

\* A request reads: what it will write are rows, and in order.
LEMMA RunBegins ==
  ASSUME RulesInv, NEW x \in Requests, NEW c, NEW replaces, NEW m, NEW s,
         Runs(x, c, replaces, m, s),
         IsTable(c, DOMAIN c, ConfigRow), DOMAIN configs \subseteq DOMAIN c,
         OneActive(configs) => OneActive(c),
         IsTable(m, Resources, MatchRow), replaces => OneVersion(m),
         IsTable(s, 1..MaxScores, ScoreRow), DOMAIN scores \subseteq DOMAIN s,
         OneCurrent(scores) => OneCurrent(s)
  PROVE  RulesInv'
<1>1. PICK yes : yes = TRUE
  OBVIOUS
<1>2. PICK no : no = FALSE
  OBVIOUS
<1>3. PICK c_was : c_was = Select(configs, DOMAIN changes(configs, c))
  OBVIOUS
<1>4. PICK c_now : c_now = changes(configs, c)
  OBVIOUS
<1>5. PICK s_was : s_was = Select(scores, DOMAIN changes(scores, s))
  OBVIOUS
<1>6. PICK s_now : s_now = changes(scores, s)
  OBVIOUS
<1>7. PICK m_was : m_was = IF replaces THEN DOMAIN matches ELSE {}
  OBVIOUS
<1>8. PICK t : t = [ busy |-> yes, c_was |-> c_was, c_now |-> c_now,
                     replaces |-> replaces, m_was |-> m_was, m_now |-> m,
                     s_was |-> s_was, s_now |-> s_now, late |-> no ]
  OBVIOUS
<1>9. /\ run' = [ run EXCEPT ![x] = t ]
      /\ configs' = configs /\ matches' = matches /\ scores' = scores
      /\ DOMAIN c \subseteq Versions
  BY <1>1, <1>2, <1>3, <1>4, <1>5, <1>6, <1>7, <1>8 DEF Runs
<1>10. RunShape(t) /\ t.busy
  BY <1>1, <1>8 DEF RunShape
<1>11. /\ t.c_was = c_was /\ t.c_now = c_now /\ t.s_was = s_was /\ t.s_now = s_now
       /\ t.m_was = m_was /\ t.m_now = m /\ t.replaces = replaces
  BY <1>8
<1>12. /\ IsTable(configs, Versions, ConfigRow) /\ IsTable(scores, 1..MaxScores, ScoreRow)
       /\ IsTable(c, Versions, ConfigRow)
  BY <1>9 DEF RulesInv, ConfigurationsTypeOK, IsTable
<1>13. /\ IsTable(c_was, Versions, ConfigRow) /\ DOMAIN c_was \subseteq DOMAIN configs
       /\ IsTable(c_now, Versions, ConfigRow)
  BY <1>3, <1>4, <1>12, ChangedRows
<1>14. /\ IsTable(s_was, 1..MaxScores, ScoreRow) /\ DOMAIN s_was \subseteq DOMAIN scores
       /\ IsTable(s_now, 1..MaxScores, ScoreRow)
  BY <1>5, <1>6, <1>12, ChangedRows
<1>15. flush(configs, c_was, c_now) = c
  <2>1. \A k \in DOMAIN configs : merge(configs[k], configs[k], c[k]) = c[k]
    BY <1>12, RulesMerge DEF IsTable
  <2>2. configs = [ k \in DOMAIN configs |-> configs[k] ] /\ c = [ k \in DOMAIN c |-> c[k] ]
    BY <1>12 DEF IsTable
  <2>3. QED
    BY <1>3, <1>4, <2>1, <2>2, FlushedChanges
<1>16. flush(scores, s_was, s_now) = s
  <2>1. \A k \in DOMAIN scores : merge(scores[k], scores[k], s[k]) = s[k]
    BY <1>12, RulesMerge DEF IsTable
  <2>2. scores = [ k \in DOMAIN scores |-> scores[k] ] /\ s = [ k \in DOMAIN s |-> s[k] ]
    BY <1>12 DEF IsTable
  <2>3. QED
    BY <1>5, <1>6, <2>1, <2>2, FlushedChanges
<1>17. RunRows(t)
  BY <1>11, <1>13, <1>14 DEF RunRows
<1>18. RunKeepsOrder(t)
  BY <1>7, <1>11, <1>15, <1>16 DEF RunKeepsOrder
<1>19. Running(t)
  BY <1>10, <1>17, <1>18 DEF Running
<1>20. /\ run' = [ y \in Requests |-> run'[y] ]
       /\ \A y \in Requests : run'[y] = IF y = x THEN t ELSE run[y]
  BY <1>9 DEF RulesInv
<1>21. \A y \in Requests : run'[y] = NoRun \/ Running(run'[y])
  BY <1>19, <1>20 DEF RulesInv
<1>22. (\A y \in Requests : run[y] = NoRun \/ Running(run[y]))'
  BY <1>9, <1>21 DEF Running, RunShape, RunRows, RunKeepsOrder
<1>23. ConfigurationsTypeOK'
  BY <1>9 DEF RulesInv, ConfigurationsTypeOK
<1>24. QED
  BY <1>20, <1>22, <1>23 DEF RulesInv

\* Every request on rules, matches and scores begins that way.
LEMMA StartRunKeeps ==
  ASSUME RulesInv, NEW x \in Requests, StartRun(x)
  PROVE  RulesInv'
<1>1. /\ IsTable(configs, DOMAIN configs, ConfigRow)
      /\ IsTable(scores, 1..MaxScores, ScoreRow)
  BY DEF RulesInv, ConfigurationsTypeOK, IsTable
<1>2. PICK none : none = EmptyTable
  OBVIOUS
<1>3. IsTable(none, Resources, MatchRow) /\ OneVersion(none)
  BY <1>2 DEF EmptyTable, IsTable, OneVersion
<1>4. PICK no \in BOOLEAN : no = FALSE
  OBVIOUS
<1>5. ASSUME NEW kind \in Kinds, NEW activate \in BOOLEAN, StartCreate(x, kind, activate)
      PROVE  RulesInv'
  <2>1. PICK c : c = created(configs, kind, activate)
    OBVIOUS
  <2>2. /\ IsTable(c, DOMAIN c, ConfigRow) /\ DOMAIN configs \subseteq DOMAIN c
        /\ OneActive(configs) => OneActive(c)
    BY <1>1, <2>1, CreatedRows
  <2>3. Runs(x, c, no, none, scores)
    BY <1>2, <1>4, <1>5, <2>1 DEF StartCreate
  <2>4. QED
    BY <1>1, <1>3, <2>2, <2>3, RunBegins
<1>6. ASSUME NEW key \in Versions, StartActivate(x, key)
      PROVE  RulesInv'
  <2>1. PICK c : c = activated(configs, key)
    OBVIOUS
  <2>2. /\ IsTable(c, DOMAIN c, ConfigRow) /\ DOMAIN configs \subseteq DOMAIN c
        /\ OneActive(configs) => OneActive(c)
    BY <1>1, <2>1, ActivatedRows, ActivatedOne
  <2>3. Runs(x, c, no, none, scores)
    BY <1>2, <1>4, <1>6, <2>1 DEF StartActivate
  <2>4. QED
    BY <1>1, <1>3, <2>2, <2>3, RunBegins
<1>7. ASSUME NEW draft \in Versions, StartSimulation(x, draft)
      PROVE  RulesInv'
  <2>1. PICK c : c = seeded(configs, Kinds \ { draft[1] })
    OBVIOUS
  <2>2. /\ IsTable(c, DOMAIN c, ConfigRow) /\ DOMAIN configs \subseteq DOMAIN c
        /\ OneActive(configs) => OneActive(c)
    BY <1>1, <2>1, SeededRows
  <2>3. Runs(x, c, no, none, scores)
    BY <1>2, <1>4, <1>7, <2>1 DEF StartSimulation
  <2>4. QED
    BY <1>1, <1>3, <2>2, <2>3, RunBegins
<1>8. ASSUME NEW included \in SUBSET Resources, StartMatching(x, included)
      PROVE  RulesInv'
  <2>1. PICK c : c = seeded(configs, { "MATCH_WEIGHTS" })
    OBVIOUS
  <2>2. /\ IsTable(c, DOMAIN c, ConfigRow) /\ DOMAIN configs \subseteq DOMAIN c
        /\ OneActive(configs) => OneActive(c)
    BY <1>1, <2>1, SeededRows
  <2>3. PICK v \in readings(c, { "MATCH_WEIGHTS" }) :
          Runs(x, c, TRUE,
               [ r \in included |-> [ weights_version |-> v["MATCH_WEIGHTS"] ] ], scores)
    BY <1>8, <2>1 DEF StartMatching
  <2>4. PICK version : version = v["MATCH_WEIGHTS"]
    OBVIOUS
  <2>5. version \in 1..MaxVersion
    BY <2>3, <2>4 DEF readings
  <2>6. PICK m : m = [ r \in included |-> [ weights_version |-> version ] ]
    OBVIOUS
  <2>7. IsTable(m, Resources, MatchRow) /\ OneVersion(m)
    BY <2>5, <2>6 DEF IsTable, MatchRow, OneVersion
  <2>8. PICK yes : yes = TRUE
    OBVIOUS
  <2>9. Runs(x, c, yes, m, scores)
    BY <2>3, <2>4, <2>6, <2>8
  <2>10. QED
    BY <1>1, <2>2, <2>7, <2>9, RunBegins
<1>9. ASSUME NEW n \in 1..MaxScores, StartScoring(x, n)
      PROVE  RulesInv'
  <2>1. PICK c : c = seeded(configs, Kinds)
    OBVIOUS
  <2>2. /\ IsTable(c, DOMAIN c, ConfigRow) /\ DOMAIN configs \subseteq DOMAIN c
        /\ OneActive(configs) => OneActive(c)
    BY <1>1, <2>1, SeededRows
  <2>3. PICK s : s = persisted_score(n)
    OBVIOUS
  <2>4. /\ s = [ k \in DOMAIN s |-> s[k] ] /\ DOMAIN s = DOMAIN scores \cup { n }
        /\ \A k \in DOMAIN s : s[k] = [ is_current |-> k = n ]
    BY <2>3 DEF persisted_score
  <2>5. ASSUME NEW k \in DOMAIN s
        PROVE  s[k] \in ScoreRow /\ (s[k].is_current <=> k = n)
    <3>1. PICK b \in BOOLEAN : b = (k = n)
      OBVIOUS
    <3>2. s[k] = [ is_current |-> b ]
      BY <2>4, <3>1
    <3>3. s[k] \in ScoreRow /\ s[k].is_current = b
      BY <3>2 DEF ScoreRow
    <3>4. QED
      BY <3>1, <3>3
  <2>6. IsTable(s, 1..MaxScores, ScoreRow) /\ DOMAIN scores \subseteq DOMAIN s
    BY <1>1, <2>4, <2>5 DEF IsTable
  <2>7. OneCurrent(s)
    BY <2>4, <2>5 DEF OneCurrent
  <2>8. Runs(x, c, no, none, s)
    BY <1>2, <1>4, <1>9, <2>1, <2>3 DEF StartScoring
  <2>9. QED
    BY <1>3, <2>2, <2>6, <2>7, <2>8, RunBegins
<1>10. QED
  BY <1>5, <1>6, <1>7, <1>8, <1>9 DEF StartRun

\* What a commit leaves.
LEMMA CommitRunWrites ==
  ASSUME RulesInv, NEW x \in Requests, CommitRun(x)
  PROVE  /\ run[x].busy /\ Running(run[x])
         /\ configs' = flush(configs, run[x].c_was, run[x].c_now)
         /\ scores' = flush(scores, run[x].s_was, run[x].s_now)
         /\ matches' = replaced(run[x])
         /\ IsTable(configs', Versions, ConfigRow) /\ DOMAIN configs \subseteq DOMAIN configs'
         /\ IsTable(scores', 1..MaxScores, ScoreRow) /\ DOMAIN scores \subseteq DOMAIN scores'
         /\ IsTable(matches', Resources, MatchRow)
<1>1. PICK t : t = run[x]
  OBVIOUS
<1>2. /\ t.busy
      /\ configs' = flush(configs, t.c_was, t.c_now)
      /\ matches' = replaced(t)
      /\ scores' = flush(scores, t.s_was, t.s_now)
  BY <1>1 DEF CommitRun
<1>3. Running(t)
  BY <1>1, <1>2, NoRunIsIdle DEF RulesInv
<1>4. RunRows(t)
  BY <1>3 DEF Running
<1>5. /\ IsTable(configs, Versions, ConfigRow) /\ IsTable(matches, Resources, MatchRow)
      /\ IsTable(scores, 1..MaxScores, ScoreRow)
  BY DEF RulesInv, ConfigurationsTypeOK
<1>6. PICK c : c = flush(configs, t.c_was, t.c_now)
  OBVIOUS
<1>7. IsTable(c, Versions, ConfigRow) /\ DOMAIN configs \subseteq DOMAIN c
  <2>1. /\ IsTable(t.c_was, Versions, ConfigRow) /\ LoadedFrom(t.c_was, configs)
        /\ IsTable(t.c_now, Versions, ConfigRow)
    BY <1>4 DEF RunRows, LoadedFrom
  <2>2. MergesWell(ConfigRow)
    BY RulesMerge
  <2>3. /\ IsTable(flush(configs, t.c_was, t.c_now), Versions, ConfigRow)
        /\ LoadedFrom(configs, flush(configs, t.c_was, t.c_now))
    BY <1>5, <2>1, <2>2, FlushedIsTable
  <2>4. QED
    BY <1>6, <2>3 DEF LoadedFrom
<1>8. PICK s : s = flush(scores, t.s_was, t.s_now)
  OBVIOUS
<1>9. IsTable(s, 1..MaxScores, ScoreRow) /\ DOMAIN scores \subseteq DOMAIN s
  <2>1. /\ IsTable(t.s_was, 1..MaxScores, ScoreRow) /\ LoadedFrom(t.s_was, scores)
        /\ IsTable(t.s_now, 1..MaxScores, ScoreRow)
    BY <1>4 DEF RunRows, LoadedFrom
  <2>2. MergesWell(ScoreRow)
    BY RulesMerge
  <2>3. /\ IsTable(flush(scores, t.s_was, t.s_now), 1..MaxScores, ScoreRow)
        /\ LoadedFrom(scores, flush(scores, t.s_was, t.s_now))
    BY <1>5, <2>1, <2>2, FlushedIsTable
  <2>4. QED
    BY <1>8, <2>3 DEF LoadedFrom
<1>10. PICK m : m = replaced(t)
  OBVIOUS
<1>11. IsTable(m, Resources, MatchRow)
  BY <1>4, <1>5, <1>10 DEF replaced, RunRows, IsTable, PutAll, Select
<1>12. QED
  BY <1>1, <1>2, <1>3, <1>6, <1>7, <1>8, <1>9, <1>10, <1>11

\* A commit keeps the invariant: those it overtakes owe the order nothing any more.
LEMMA CommitRunKeeps ==
  ASSUME RulesInv, NEW x \in Requests, CommitRun(x)
  PROVE  RulesInv'
<1>1. /\ IsTable(configs', Versions, ConfigRow) /\ DOMAIN configs \subseteq DOMAIN configs'
      /\ IsTable(scores', 1..MaxScores, ScoreRow) /\ DOMAIN scores \subseteq DOMAIN scores'
      /\ IsTable(matches', Resources, MatchRow)
  BY CommitRunWrites
<1>2. /\ run' = [ y \in Requests |-> run'[y] ]
      /\ \A y \in Requests : run'[y] =
           IF y # x /\ run[y].busy THEN [ run[y] EXCEPT !.late = TRUE ] ELSE NoRun
  BY DEF CommitRun
<1>3. ASSUME NEW y \in Requests, run'[y] # NoRun
      PROVE  Running(run[y])'
  <2>1. run[y].busy /\ run'[y] = [ run[y] EXCEPT !.late = TRUE ]
    BY <1>2, <1>3
  <2>2. Running(run[y])
    BY <2>1, NoRunIsIdle DEF RulesInv
  <2>3. PICK yes : yes = TRUE
    OBVIOUS
  <2>4. PICK t : t = run[y]
    OBVIOUS
  <2>5. PICK u : u = [ t EXCEPT !.late = yes ]
    OBVIOUS
  <2>6. run'[y] = u /\ RunShape(t) /\ t.busy /\ RunRows(t)
    BY <2>1, <2>2, <2>3, <2>4, <2>5 DEF Running
  <2>7. /\ RunShape(u) /\ u.late = yes /\ u.busy = t.busy
        /\ u.c_was = t.c_was /\ u.c_now = t.c_now /\ u.m_now = t.m_now
        /\ u.s_was = t.s_was /\ u.s_now = t.s_now
    BY <2>5, <2>6 DEF RunShape
  <2>8. RunRows(run[y])'
    BY <1>1, <2>6, <2>7 DEF RunRows
  <2>9. RunShape(run[y])' /\ run'[y].busy /\ run'[y].late
    BY <2>3, <2>6, <2>7 DEF RunShape
  <2>10. QED
    BY <2>8, <2>9 DEF Running
<1>4. (\A y \in Requests : run[y] = NoRun \/ Running(run[y]))'
  BY <1>3
<1>5. ConfigurationsTypeOK'
  BY <1>1 DEF ConfigurationsTypeOK
<1>6. QED
  BY <1>2, <1>4, <1>5 DEF RulesInv

\* A request that ends without writing keeps it too.
LEMMA RulesStayStill ==
  ASSUME RulesInv, configs' = configs, matches' = matches, scores' = scores,
         run' = [ x \in Requests |-> run'[x] ],
         \A x \in Requests : run'[x] = NoRun \/ run'[x] = run[x]
  PROVE  RulesInv'
<1>1. ConfigurationsTypeOK'
  BY DEF RulesInv, ConfigurationsTypeOK
<1>2. \A x \in Requests : run'[x] = NoRun \/ Running(run'[x])
  BY DEF RulesInv
<1>3. (\A y \in Requests : run[y] = NoRun \/ Running(run[y]))'
  BY <1>2 DEF Running, RunShape, RunRows, RunKeepsOrder
<1>4. QED
  BY <1>1, <1>3 DEF RulesInv

\* The invariant holds at first.
LEMMA RulesBegin == ConfigurationsInit => RulesInv
<1> SUFFICES ASSUME ConfigurationsInit PROVE RulesInv
  OBVIOUS
<1>1. /\ configs = [ k \in DOMAIN configs |-> configs[k] ] /\ DOMAIN configs = {}
      /\ matches = [ k \in DOMAIN matches |-> matches[k] ] /\ DOMAIN matches = {}
      /\ scores = [ k \in DOMAIN scores |-> scores[k] ] /\ DOMAIN scores = {}
  BY DEF ConfigurationsInit, EmptyTable
<1>2. ConfigurationsTypeOK
  BY <1>1 DEF ConfigurationsTypeOK, IsTable
<1>3. run = [ x \in Requests |-> run[x] ] /\ \A x \in Requests : run[x] = NoRun
  BY DEF ConfigurationsInit
<1>4. QED
  BY <1>2, <1>3 DEF RulesInv

\* Every step keeps it.
LEMMA RulesPreserved == RulesInv /\ [ConfigurationsNext]_rules => RulesInv'
<1> SUFFICES ASSUME RulesInv, [ConfigurationsNext]_rules PROVE RulesInv'
  OBVIOUS
<1>1. ASSUME NEW x \in Requests, StartRun(x) PROVE RulesInv'
  BY <1>1, StartRunKeeps
<1>2. ASSUME NEW x \in Requests, CommitRun(x) PROVE RulesInv'
  BY <1>2, CommitRunKeeps
<1>3. ASSUME NEW x \in Requests, RollbackRun(x) PROVE RulesInv'
  <2>1. /\ configs' = configs /\ matches' = matches /\ scores' = scores
        /\ run' = [ run EXCEPT ![x] = NoRun ]
    BY <1>3 DEF RollbackRun
  <2>2. run = [ y \in Requests |-> run[y] ]
    BY DEF RulesInv
  <2>3. run' = [ y \in Requests |-> run'[y] ]
        /\ \A y \in Requests : run'[y] = NoRun \/ run'[y] = run[y]
    BY <2>1, <2>2
  <2>4. QED
    BY <2>1, <2>3, RulesStayStill
<1>4. CASE UNCHANGED rules
  <2>1. configs' = configs /\ matches' = matches /\ scores' = scores /\ run' = run
    BY <1>4 DEF rules
  <2>2. run = [ y \in Requests |-> run[y] ]
    BY DEF RulesInv
  <2>3. QED
    BY <2>1, <2>2, RulesStayStill
<1>5. QED
  BY <1>1, <1>2, <1>3, <1>4 DEF ConfigurationsNext

\* So it always holds.
LEMMA RulesInvariant == ConfigurationsSpec => []RulesInv
  BY RulesBegin, RulesPreserved, PTL DEF ConfigurationsSpec

\* The order of the properties, which count, and the same without counting.
LEMMA OneActiveCounts ==
  ASSUME NEW table
  PROVE  (\A k \in Kinds : Cardinality(active_versions(table, k)) <= 1) <=> OneActive(table)
<1>1. ASSUME NEW k \in Kinds
      PROVE  Cardinality(active_versions(table, k)) <= 1
               <=> \A v, w \in active_versions(table, k) : v = w
  <2>1. IsFiniteSet(1..MaxVersion)
    BY KindsOfRules, FS_Interval
  <2>2. active_versions(table, k) \subseteq 1..MaxVersion
    BY DEF active_versions, versions_of
  <2>3. IsFiniteSet(active_versions(table, k))
    BY <2>1, <2>2, FS_Subset
  <2>4. QED
    BY <2>3, OneAtMost
<1>2. QED
  BY <1>1 DEF OneActive

\* The same for scores: one is current, unless there is none.
LEMMA OneCurrentCounts ==
  ASSUME NEW table, IsTable(table, 1..MaxScores, ScoreRow)
  PROVE  Cardinality({ n \in DOMAIN table : table[n].is_current })
             = (IF table = EmptyTable THEN 0 ELSE 1)
           <=> OneCurrent(table)
<1>3. PICK S : S = { n \in DOMAIN table : table[n].is_current }
  OBVIOUS
<1>4. table = [ n \in DOMAIN table |-> table[n] ] /\ DOMAIN table \subseteq 1..MaxScores
  BY DEF IsTable
<1>5. IsFiniteSet(S)
  <2>1. S \subseteq 1..MaxScores
    BY <1>3, <1>4
  <2>2. IsFiniteSet(1..MaxScores)
    BY KindsOfRules, FS_Interval
  <2>3. QED
    BY <2>1, <2>2, FS_Subset
<1>6. /\ Cardinality(S) = 0 <=> S = {}
      /\ Cardinality(S) = 1 <=> \E n : S = { n }
  BY <1>5, FS_EmptySet, FS_Singleton
<1>7. table = EmptyTable <=> DOMAIN table = {}
  BY <1>4 DEF EmptyTable
<1>8. CASE DOMAIN table = {}
  <2>1. S = {} /\ table = EmptyTable
    BY <1>3, <1>7, <1>8
  <2>2. Cardinality(S) = (IF table = EmptyTable THEN 0 ELSE 1)
    BY <1>6, <2>1
  <2>3. OneCurrent(table)
    BY <1>8 DEF OneCurrent
  <2>4. QED
    BY <1>3, <2>2, <2>3
<1>9. CASE DOMAIN table # {}
  <2>1. Cardinality(S) = (IF table = EmptyTable THEN 0 ELSE 1) <=> \E n : S = { n }
    BY <1>6, <1>7, <1>9
  <2>2. (\E n : S = { n }) <=> (S # {} /\ \A m, n \in S : m = n)
    OBVIOUS
  <2>3. (S # {} /\ \A m, n \in S : m = n) <=> OneCurrent(table)
    BY <1>3, <1>9 DEF OneCurrent
  <2>4. QED
    BY <1>3, <2>1, <2>2, <2>3
<1>10. QED
  BY <1>8, <1>9

\* A request that was not overtaken leaves the order as it found it.
LEMMA DisorderNeedsOverlaps ==
  ASSUME RulesInv, RulesInv', ConfigurationsNext, NobodyLate
  PROVE  /\ SingleRules => SingleRules'
         /\ SingleScore => SingleScore'
         /\ SingleRun => SingleRun'
<1>1. /\ SingleRules <=> OneActive(configs)
      /\ SingleScore <=> OneCurrent(scores)
  BY OneActiveCounts, OneCurrentCounts
     DEF SingleRules, SingleScore, RulesInv, ConfigurationsTypeOK
<1>2. /\ SingleRules' <=> OneActive(configs')
      /\ SingleScore' <=> OneCurrent(scores')
  <2>1. PICK c : c = configs'
    OBVIOUS
  <2>2. PICK s : s = scores'
    OBVIOUS
  <2>3. IsTable(s, 1..MaxScores, ScoreRow)
    BY <2>2 DEF RulesInv, ConfigurationsTypeOK
  <2>4. SingleRules' <=> \A k \in Kinds : Cardinality(active_versions(c, k)) <= 1
    BY <2>1 DEF SingleRules
  <2>5. SingleScore' <=>
          Cardinality({ n \in DOMAIN s : s[n].is_current })
            = (IF s = EmptyTable THEN 0 ELSE 1)
    BY <2>2 DEF SingleScore
  <2>6. QED
    BY <2>1, <2>2, <2>3, <2>4, <2>5, OneActiveCounts, OneCurrentCounts
<1>3. SingleRun <=> OneVersion(matches)
  BY DEF SingleRun, OneVersion
<1>4. SingleRun' <=> OneVersion(matches')
  BY DEF SingleRun, OneVersion
<1>5. SUFFICES /\ OneActive(configs) => OneActive(configs')
               /\ OneCurrent(scores) => OneCurrent(scores')
               /\ OneVersion(matches) => OneVersion(matches')
  BY <1>1, <1>2, <1>3, <1>4
<1>6. ASSUME NEW x \in Requests, CommitRun(x)
      PROVE  /\ OneActive(configs) => OneActive(configs')
             /\ OneCurrent(scores) => OneCurrent(scores')
             /\ OneVersion(matches) => OneVersion(matches')
  <2>1. PICK t : t = run[x]
    OBVIOUS
  <2>2. /\ t.busy /\ Running(t)
        /\ configs' = flush(configs, t.c_was, t.c_now)
        /\ scores' = flush(scores, t.s_was, t.s_now)
        /\ matches' = replaced(t)
    BY <1>6, <2>1, CommitRunWrites
  <2>3. run'[x] = NoRun
    BY <1>6 DEF CommitRun
  <2>4. ~ t.late
    BY <2>1, <2>2, <2>3, NoRunIsIdle DEF NobodyLate
  <2>5. RunKeepsOrder(t)
    BY <2>2, <2>4 DEF Running
  <2>6. OneVersion(matches) => OneVersion(replaced(t))
    <3>1. CASE ~ t.replaces
      BY <3>1 DEF replaced
    <3>2. CASE t.replaces
      <4>1. PICK m : m = replaced(t)
        OBVIOUS
      <4>2. DOMAIN matches \subseteq t.m_was /\ OneVersion(t.m_now)
        BY <2>5, <3>2 DEF RunKeepsOrder
      <4>3. \A k \in DOMAIN m : k \in DOMAIN t.m_now /\ m[k] = t.m_now[k]
        BY <3>2, <4>1, <4>2 DEF replaced, PutAll, Select
      <4>4. OneVersion(m)
        BY <4>2, <4>3 DEF OneVersion
      <4>5. QED
        BY <4>1, <4>4
    <3>3. QED
      BY <3>1, <3>2
  <2>7. PICK c : c = flush(configs, t.c_was, t.c_now)
    OBVIOUS
  <2>8. PICK s : s = flush(scores, t.s_was, t.s_now)
    OBVIOUS
  <2>9. PICK m : m = replaced(t)
    OBVIOUS
  <2>10. /\ OneActive(configs) => OneActive(c)
         /\ OneCurrent(scores) => OneCurrent(s)
         /\ OneVersion(matches) => OneVersion(m)
    BY <2>5, <2>6, <2>7, <2>8, <2>9 DEF RunKeepsOrder
  <2>11. configs' = c /\ scores' = s /\ matches' = m
    BY <2>2, <2>7, <2>8, <2>9
  <2>12. QED
    BY <2>10, <2>11
<1>7. ASSUME NEW x \in Requests, StartRun(x) \/ RollbackRun(x)
      PROVE  configs' = configs /\ matches' = matches /\ scores' = scores
  BY <1>7 DEF StartRun, StartCreate, StartActivate, StartSimulation, StartMatching,
              StartScoring, Runs, RollbackRun
<1>8. QED
  BY <1>6, <1>7 DEF ConfigurationsNext

\* Every stored version, match and score has its columns' types
\* (models/scoring.py, models/matching.py).
THEOREM RulesKeepTypes == ConfigurationsSpec => []ConfigurationsTypeOK
<1>1. RulesInv => ConfigurationsTypeOK
  BY DEF RulesInv
<1>2. QED
  BY <1>1, RulesInvariant, PTL

\* Two active versions of a kind, two current scores, or matches of two versions
\* side by side need a request that another one overtook.
THEOREM OverlapsAloneEndRules == ConfigurationsSpec => RulesStayInOrder
<1> DEFINE A == NobodyLate => /\ SingleRules => SingleRules'
                              /\ SingleScore => SingleScore'
                              /\ SingleRun => SingleRun'
<1>1. RulesInv /\ RulesInv' /\ [ConfigurationsNext]_rules => [A]_rules
  BY DisorderNeedsOverlaps
<1>2. ConfigurationsSpec => [][A]_rules
  BY <1>1, RulesInvariant, PTL DEF ConfigurationsSpec
<1>3. QED
  BY <1>2 DEF RulesStayInOrder

-----------------------------------------------------------------------------
(* Accounts and sign-ins (module Access).                                  *)

\* The order of the properties, of any two tables.
Order(us, ts) ==
  /\ \E u \in DOMAIN us : us[u].role = "ADMIN" /\ us[u].active
  /\ \A t \in DOMAIN ts :
       ~ ts[t].revoked =>
         /\ us[ts[t].user].active
         /\ \A s \in DOMAIN ts \ { t } : ts[s].family = ts[t].family => ts[s].revoked

Over(ts, f) ==
  /\ f \in DOMAIN ts
  /\ \A t \in DOMAIN ts : ts[t].family = f => ts[t].revoked

\* A family is that of a token there is, and a token is of a user there is.
Related(us, ts, known) ==
  \A t \in DOMAIN ts : /\ ts[t].user \in DOMAIN us
                       /\ ts[t].family \in DOMAIN ts \cup DOMAIN known

\* A request under way: the rows it read are there, those it writes are rows.
\* While no other has committed since, they keep the order there is.
VisitShape(t) ==
  /\ t = [ pc |-> t.pc, u_was |-> t.u_was, u_now |-> t.u_now, t_was |-> t.t_was,
           t_now |-> t.t_now, late |-> t.late ]
  /\ t.pc \in { "writing", "refused" }

VisitRows(t) ==
  /\ IsTable(t.u_was, Users, UserRow) /\ LoadedFrom(t.u_was, users)
  /\ IsTable(t.u_now, Users, UserRow)
  /\ IsTable(t.t_was, Tokens, TokenRow) /\ LoadedFrom(t.t_was, tokens)
  /\ IsTable(t.t_now, Tokens, TokenRow)
  /\ Related(users, t.t_now, tokens)

KeepsOrder(us, ts, t) ==
  /\ Order(us, ts) =>
       Order(flush(us, t.u_was, t.u_now), flush(ts, t.t_was, t.t_now))
  /\ \A f \in Tokens : Over(ts, f) => Over(flush(ts, t.t_was, t.t_now), f)

Visit(t) ==
  /\ VisitShape(t) /\ VisitRows(t)
  /\ t.pc = "writing" /\ ~ t.late => KeepsOrder(users, tokens, t)

AccessInv ==
  /\ AccessTypeOK
  /\ Related(users, tokens, tokens)
  /\ tx = [ x \in Visits |-> tx[x] ]
  /\ \A x \in Visits : tx[x] = Idle \/ Visit(tx[x])

\* A request that is under way is not idle.
LEMMA IdleIsIdle ==
  ASSUME NEW t
  PROVE  /\ Idle.pc = "idle"
         /\ VisitShape(t) => t # Idle
         /\ t.pc = "writing" => t # Idle
<1>1. Idle.pc = "idle"
  BY DEF Idle
<1>2. QED
  BY <1>1 DEF VisitShape

\* Rows of accounts and tokens may be updated column by column, and a row that was
\* read as it is becomes the row that is written.
LEMMA AccessMerges ==
  /\ MergesWell(UserRow) /\ MergesWell(TokenRow)
  /\ \A a, b \in UserRow : merge(a, a, b) = b
  /\ \A a, b \in TokenRow : merge(a, a, b) = b
<1>1. MergesWell(UserRow)
  BY DEF merge, UserRow, MergesWell
<1>2. MergesWell(TokenRow)
  BY DEF merge, TokenRow, MergesWell
<1>3. \A a, b \in UserRow : merge(a, a, b) = b
  BY DEF merge, UserRow
<1>4. \A a, b \in TokenRow : merge(a, a, b) = b
  BY DEF merge, TokenRow
<1>5. QED
  BY <1>1, <1>2, <1>3, <1>4

\* The references of a token that is written over another.
LEMMA MergedToken ==
  ASSUME NEW a \in TokenRow, NEW b \in TokenRow, NEW c \in TokenRow
  PROVE  /\ merge(a, b, c).user \in { a.user, c.user }
         /\ merge(a, b, c).family \in { a.family, c.family }
  BY DEF merge, TokenRow

Written(all, table, now) ==
  /\ all = [ k \in DOMAIN all |-> all[k] ]
  /\ DOMAIN all = DOMAIN table \cup DOMAIN now
  /\ \A k \in DOMAIN table \ DOMAIN now : all[k] = table[k]
  /\ \A k \in DOMAIN now : all[k] = now[k]

\* What a session reads and writes at once is written as it is.
LEMMA FlushedAtOnce ==
  ASSUME NEW table, NEW was, NEW now, NEW all, all = flush(table, was, now),
         LoadedFrom(was, table), \A k \in DOMAIN was : was[k] = table[k],
         \A k \in DOMAIN now \cap DOMAIN was : merge(table[k], table[k], now[k]) = now[k]
  PROVE  Written(all, table, now)
<1>1. /\ all = [ k \in DOMAIN all |-> all[k] ]
      /\ DOMAIN all = DOMAIN table \cup DOMAIN now
      /\ \A k \in DOMAIN table \ DOMAIN now : all[k] = table[k]
      /\ \A k \in DOMAIN now \ DOMAIN was : all[k] = now[k]
      /\ \A k \in DOMAIN now \cap DOMAIN was : all[k] = merge(table[k], was[k], now[k])
  <2>1. Flushed(all, table, was, now)
    BY FlushedRows
  <2>2. QED
    BY <2>1 DEF Flushed
<1>2. ASSUME NEW k \in DOMAIN now \cap DOMAIN was  PROVE all[k] = now[k]
  <2>1. all[k] = merge(table[k], was[k], now[k]) /\ was[k] = table[k]
    BY <1>1
  <2>2. QED
    BY <2>1
<1>3. QED
  BY <1>1, <1>2 DEF Written

\* A token that is revoked.
LEMMA RevokedRow ==
  ASSUME NEW row \in TokenRow
  PROVE  LET new == [ row EXCEPT !.revoked = TRUE ] IN
         /\ new \in TokenRow /\ new.revoked
         /\ new.user = row.user /\ new.family = row.family
<1>1. PICK on \in BOOLEAN : on = TRUE
  OBVIOUS
<1>2. PICK new : new = [ row EXCEPT !.revoked = on ]
  OBVIOUS
<1>3. new \in TokenRow /\ new.revoked = on /\ new.user = row.user /\ new.family = row.family
  BY <1>2 DEF TokenRow
<1>4. new = [ row EXCEPT !.revoked = TRUE ]
  BY <1>1, <1>2
<1>5. QED
  BY <1>1, <1>3, <1>4

\* A family of tokens, revoked: nothing else of them changes.
LEMMA RevokedRows ==
  ASSUME NEW rows, IsTable(rows, Tokens, TokenRow)
  PROVE  /\ IsTable(revoked(rows), Tokens, TokenRow)
         /\ DOMAIN revoked(rows) = DOMAIN rows
         /\ \A t \in DOMAIN rows :
              /\ revoked(rows)[t].revoked
              /\ revoked(rows)[t].user = rows[t].user
              /\ revoked(rows)[t].family = rows[t].family
<1>1. PICK new : new = revoked(rows)
  OBVIOUS
<1>2. /\ new = [ t \in DOMAIN new |-> new[t] ] /\ DOMAIN new = DOMAIN rows
      /\ \A t \in DOMAIN rows : new[t] = [ rows[t] EXCEPT !.revoked = TRUE ]
  BY <1>1 DEF revoked
<1>3. ASSUME NEW t \in DOMAIN rows
      PROVE  /\ new[t] \in TokenRow /\ new[t].revoked
             /\ new[t].user = rows[t].user /\ new[t].family = rows[t].family
  <2>1. PICK row : row = rows[t]
    OBVIOUS
  <2>2. row \in TokenRow
    BY <2>1 DEF IsTable
  <2>3. new[t] = [ row EXCEPT !.revoked = TRUE ]
    BY <1>2, <2>1
  <2>4. QED
    BY <2>1, <2>2, <2>3, RevokedRow
<1>4. IsTable(new, Tokens, TokenRow)
  BY <1>2, <1>3 DEF IsTable
<1>5. QED
  BY <1>1, <1>2, <1>3, <1>4

\* A request that begins; the rest of the state stays.
LEMMA VisitBegins ==
  ASSUME AccessInv, NEW x \in Visits, NEW t, t = Idle \/ Visit(t),
         tx' = [ tx EXCEPT ![x] = t ], users' = users, tokens' = tokens
  PROVE  AccessInv'
<1>1. AccessTypeOK' /\ Related(users, tokens, tokens)'
  BY DEF AccessInv, AccessTypeOK, Related
<1>2. /\ tx' = [ y \in Visits |-> tx'[y] ]
      /\ \A y \in Visits : tx'[y] = IF y = x THEN t ELSE tx[y]
  BY DEF AccessInv
<1>3. \A y \in Visits : tx'[y] = Idle \/ Visit(tx'[y])
  BY <1>2 DEF AccessInv
<1>4. (\A y \in Visits : tx[y] = Idle \/ Visit(tx[y]))'
  BY <1>3 DEF Visit, VisitShape, VisitRows, KeepsOrder
<1>5. QED
  BY <1>1, <1>2, <1>4 DEF AccessInv

\* What a request that writes these rows at once would make of the order.
WritesInOrder(u_now, t_now) ==
  \A us, ts :
    Written(us, users, u_now) /\ Written(ts, tokens, t_now) =>
      /\ Order(users, tokens) => Order(us, ts)
      /\ \A f \in Tokens : Over(tokens, f) => Over(ts, f)

\* Rows that were read are those there are.
Read(was, table) ==
  LoadedFrom(was, table) /\ \A k \in DOMAIN was : was[k] = table[k]

\* The ways in which the requests read rows: none, some, or one.
LEMMA RowsAreRead ==
  ASSUME NEW table, NEW keys, NEW Keys, NEW Rows, IsTable(table, Keys, Rows)
  PROVE  /\ Read(EmptyTable, table) /\ IsTable(EmptyTable, Keys, Rows)
         /\ Read(Select(table, keys), table) /\ IsTable(Select(table, keys), Keys, Rows)
         /\ \A k \in DOMAIN table :
              Read(Row(k, table[k]), table) /\ IsTable(Row(k, table[k]), Keys, Rows)
<1>1. Read(EmptyTable, table) /\ IsTable(EmptyTable, Keys, Rows)
  BY DEF Read, LoadedFrom, EmptyTable, IsTable
<1>2. Read(Select(table, keys), table) /\ IsTable(Select(table, keys), Keys, Rows)
  BY DEF Read, LoadedFrom, Select, IsTable
<1>3. ASSUME NEW k \in DOMAIN table
      PROVE  Read(Row(k, table[k]), table) /\ IsTable(Row(k, table[k]), Keys, Rows)
  BY DEF Read, LoadedFrom, Row, IsTable
<1>4. QED
  BY <1>1, <1>2, <1>3

\* Accounts that are written by the session that read them are written as they are.
LEMMA UsersWritten ==
  ASSUME IsTable(users, Users, UserRow), NEW was, NEW now,
         Read(was, users), IsTable(now, Users, UserRow)
  PROVE  Written(flush(users, was, now), users, now)
<1>1. \A k \in DOMAIN now \cap DOMAIN was : merge(users[k], users[k], now[k]) = now[k]
  BY AccessMerges DEF IsTable, Read, LoadedFrom
<1>2. PICK all : all = flush(users, was, now)
  OBVIOUS
<1>3. Written(all, users, now)
  BY <1>1, <1>2, FlushedAtOnce DEF Read
<1>4. QED
  BY <1>2, <1>3

\* So are tokens.
LEMMA TokensWritten ==
  ASSUME IsTable(tokens, Tokens, TokenRow), NEW was, NEW now,
         Read(was, tokens), IsTable(now, Tokens, TokenRow)
  PROVE  Written(flush(tokens, was, now), tokens, now)
<1>1. \A k \in DOMAIN now \cap DOMAIN was : merge(tokens[k], tokens[k], now[k]) = now[k]
  BY AccessMerges DEF IsTable, Read, LoadedFrom
<1>2. PICK all : all = flush(tokens, was, now)
  OBVIOUS
<1>3. Written(all, tokens, now)
  BY <1>1, <1>2, FlushedAtOnce DEF Read
<1>4. QED
  BY <1>2, <1>3

\* A request begins: if what it would write at once keeps the order, the invariant
\* stays.
LEMMA Starting ==
  ASSUME AccessInv, NEW x \in Visits, NEW pc \in { "writing", "refused" },
         NEW u_was, NEW u_now, NEW t_was, NEW t_now,
         Starts(x, Request(pc, u_was, u_now, t_was, t_now)),
         IsTable(u_was, Users, UserRow), Read(u_was, users), IsTable(u_now, Users, UserRow),
         IsTable(t_was, Tokens, TokenRow), Read(t_was, tokens),
         IsTable(t_now, Tokens, TokenRow), Related(users, t_now, tokens),
         pc = "writing" => WritesInOrder(u_now, t_now)
  PROVE  AccessInv'
<1>1. PICK no : no = FALSE
  OBVIOUS
<1>2. PICK t : t = [ pc |-> pc, u_was |-> u_was, u_now |-> u_now, t_was |-> t_was,
                     t_now |-> t_now, late |-> no ]
  OBVIOUS
<1>3. tx' = [ tx EXCEPT ![x] = t ] /\ users' = users /\ tokens' = tokens
  BY <1>1, <1>2 DEF Starts, Request
<1>4. /\ VisitShape(t) /\ t.pc = pc /\ t.u_was = u_was /\ t.u_now = u_now
      /\ t.t_was = t_was /\ t.t_now = t_now
  BY <1>2 DEF VisitShape
<1>5. VisitRows(t)
  BY <1>4 DEF VisitRows, Read
<1>6. pc = "writing" => KeepsOrder(users, tokens, t)
  <2>1. SUFFICES ASSUME pc = "writing" PROVE KeepsOrder(users, tokens, t)
    OBVIOUS
  <2>2. PICK us : us = flush(users, u_was, u_now)
    OBVIOUS
  <2>3. PICK ts : ts = flush(tokens, t_was, t_now)
    OBVIOUS
  <2>4. IsTable(users, Users, UserRow) /\ IsTable(tokens, Tokens, TokenRow)
    BY DEF AccessInv, AccessTypeOK
  <2>5. Written(us, users, u_now)
    BY <2>2, <2>4, UsersWritten
  <2>6. Written(ts, tokens, t_now)
    BY <2>3, <2>4, TokensWritten
  <2>7. /\ Order(users, tokens) => Order(us, ts)
        /\ \A f \in Tokens : Over(tokens, f) => Over(ts, f)
    BY <2>1, <2>5, <2>6 DEF WritesInOrder
  <2>8. QED
    BY <1>4, <2>2, <2>3, <2>7 DEF KeepsOrder
<1>7. Visit(t)
  BY <1>4, <1>5, <1>6 DEF Visit
<1>8. QED
  BY <1>3, <1>7, VisitBegins

Administers(us) == \E u \in DOMAIN us : us[u].role = "ADMIN" /\ us[u].active

\* Tokens that are written are revoked and otherwise as they were.
OnlyRevokes(t_now) ==
  \A k \in DOMAIN t_now : /\ k \in DOMAIN tokens /\ t_now[k].revoked
                          /\ t_now[k].user = tokens[k].user
                          /\ t_now[k].family = tokens[k].family

\* Somebody still administers, and whoever keeps a token stays active.
UsersInOrder(u_now, t_now) ==
  \A us : Written(us, users, u_now) =>
    /\ Administers(users) => Administers(us)
    /\ \A t \in DOMAIN tokens \ DOMAIN t_now :
         ~ tokens[t].revoked /\ users[tokens[t].user].active => us[tokens[t].user].active

\* A request that revokes tokens and writes accounts keeps the order when somebody can
\* still administer and nobody with a token that stays is made inactive.
LEMMA RevokingKeepsOrder ==
  ASSUME AccessInv, NEW u_now, NEW t_now, OnlyRevokes(t_now), UsersInOrder(u_now, t_now)
  PROVE  WritesInOrder(u_now, t_now)
<1>1. SUFFICES ASSUME NEW us, NEW ts,
                      Written(us, users, u_now), Written(ts, tokens, t_now)
               PROVE  /\ Order(users, tokens) => Order(us, ts)
                      /\ \A f \in Tokens : Over(tokens, f) => Over(ts, f)
  BY DEF WritesInOrder
<1>2. /\ Administers(users) => Administers(us)
      /\ \A t \in DOMAIN tokens \ DOMAIN t_now :
           ~ tokens[t].revoked /\ users[tokens[t].user].active => us[tokens[t].user].active
  BY <1>1 DEF UsersInOrder
<1>3. /\ DOMAIN ts = DOMAIN tokens
      /\ \A k \in DOMAIN tokens : /\ ts[k].family = tokens[k].family
                                  /\ ts[k].user = tokens[k].user
                                  /\ tokens[k].revoked => ts[k].revoked
                                  /\ ~ ts[k].revoked => k \notin DOMAIN t_now
  BY <1>1 DEF Written, OnlyRevokes
<1>4. ASSUME Order(users, tokens) PROVE Order(us, ts)
  <2>1. Administers(us)
    BY <1>2, <1>4 DEF Order, Administers
  <2>2. ASSUME NEW t \in DOMAIN ts, ~ ts[t].revoked
        PROVE  /\ us[ts[t].user].active
               /\ \A s \in DOMAIN ts \ { t } : ts[s].family = ts[t].family => ts[s].revoked
    <3>1. t \in DOMAIN tokens \ DOMAIN t_now /\ ~ tokens[t].revoked
      BY <1>3, <2>2
    <3>2. /\ users[tokens[t].user].active
          /\ \A s \in DOMAIN tokens \ { t } :
               tokens[s].family = tokens[t].family => tokens[s].revoked
      BY <1>4, <3>1 DEF Order
    <3>3. us[tokens[t].user].active
      BY <1>2, <3>1, <3>2
    <3>4. us[ts[t].user].active
      BY <1>3, <3>1, <3>3
    <3>5. \A s \in DOMAIN ts \ { t } : ts[s].family = ts[t].family => ts[s].revoked
      BY <1>3, <3>1, <3>2
    <3>6. QED
      BY <3>4, <3>5
  <2>3. QED
    BY <2>1, <2>2 DEF Order, Administers
<1>5. \A f \in Tokens : Over(tokens, f) => Over(ts, f)
  BY <1>3 DEF Over
<1>6. QED
  BY <1>4, <1>5

\* That holds when no account is written.
LEMMA NoUserChanges ==
  ASSUME AccessInv, NEW t_now
  PROVE  UsersInOrder(EmptyTable, t_now)
<1>1. ASSUME NEW us, Written(us, users, EmptyTable) PROVE us = users
  <2>1. PICK none : none = EmptyTable /\ DOMAIN none = {}
    BY DEF EmptyTable
  <2>2. Written(us, users, none)
    BY <1>1, <2>1
  <2>3. users = [ k \in DOMAIN users |-> users[k] ]
    BY DEF AccessInv, AccessTypeOK, IsTable
  <2>4. QED
    BY <2>1, <2>2, <2>3 DEF Written
<1>2. QED
  BY <1>1 DEF UsersInOrder

\* An account that changes is not the last administrator's, and is left no token
\* when it is deactivated.
LEMMA OneUserChanges ==
  ASSUME AccessInv, NEW u \in DOMAIN users, NEW row, NEW t_now,
         users[u].role = "ADMIN" /\ users[u].active =>
           \/ row.role = "ADMIN" /\ row.active
           \/ \E v \in DOMAIN users \ { u } : users[v].role = "ADMIN" /\ users[v].active,
         \A t \in DOMAIN tokens \ DOMAIN t_now :
           tokens[t].user = u /\ ~ tokens[t].revoked /\ users[u].active => row.active
  PROVE  UsersInOrder(Row(u, row), t_now)
<1>1. SUFFICES ASSUME NEW us, Written(us, users, Row(u, row))
               PROVE  /\ Administers(users) => Administers(us)
                      /\ \A t \in DOMAIN tokens \ DOMAIN t_now :
                           ~ tokens[t].revoked /\ users[tokens[t].user].active
                             => us[tokens[t].user].active
  BY DEF UsersInOrder
<1>2. PICK one : one = Row(u, row)
  OBVIOUS
<1>3. DOMAIN one = { u } /\ one[u] = row
  BY <1>2 DEF Row
<1>4. /\ DOMAIN us = DOMAIN users /\ us[u] = row
      /\ \A v \in DOMAIN users \ { u } : us[v] = users[v]
  BY <1>1, <1>2, <1>3 DEF Written
<1>5. Administers(users) => Administers(us)
  BY <1>4 DEF Administers
<1>6. \A t \in DOMAIN tokens : tokens[t].user \in DOMAIN users
  BY DEF AccessInv, AccessTypeOK
<1>7. QED
  BY <1>4, <1>5, <1>6

\* The tokens that a request revokes.
LEMMA RevokedKeys ==
  ASSUME AccessInv, NEW keys
  PROVE  LET rows == Select(tokens, keys) IN
         /\ IsTable(rows, Tokens, TokenRow) /\ Read(rows, tokens)
         /\ IsTable(revoked(rows), Tokens, TokenRow)
         /\ OnlyRevokes(revoked(rows)) /\ Related(users, revoked(rows), tokens)
         /\ DOMAIN revoked(rows) = DOMAIN tokens \cap keys
<1>1. IsTable(tokens, Tokens, TokenRow)
      /\ (\A t \in DOMAIN tokens : tokens[t].user \in DOMAIN users)
  BY DEF AccessInv, AccessTypeOK
<1>2. PICK rows : rows = Select(tokens, keys)
  OBVIOUS
<1>3. IsTable(rows, Tokens, TokenRow) /\ Read(rows, tokens)
  BY <1>1, <1>2, RowsAreRead
<1>4. DOMAIN rows = DOMAIN tokens \cap keys /\ \A t \in DOMAIN rows : rows[t] = tokens[t]
  BY <1>2 DEF Select
<1>5. PICK now : now = revoked(rows)
  OBVIOUS
<1>6. /\ IsTable(now, Tokens, TokenRow) /\ DOMAIN now = DOMAIN rows
      /\ \A t \in DOMAIN rows : /\ now[t].revoked
                                /\ now[t].user = rows[t].user
                                /\ now[t].family = rows[t].family
  BY <1>3, <1>5, RevokedRows
<1>7. OnlyRevokes(now)
  BY <1>4, <1>6 DEF OnlyRevokes
<1>8. Related(users, now, tokens)
  BY <1>1, <1>4, <1>6 DEF Related, AccessInv
<1>9. QED
  BY <1>2, <1>3, <1>4, <1>5, <1>6, <1>7, <1>8

\* A request that writes one account and revokes all the tokens of its user.
LEMMA RevokesAllKeeps ==
  ASSUME AccessInv, NEW x \in Visits, NEW u \in DOMAIN users, NEW row \in UserRow,
         RevokesAll(x, u, row),
         users[u].role = "ADMIN" /\ users[u].active =>
           \/ row.role = "ADMIN" /\ row.active
           \/ \E v \in DOMAIN users \ { u } : users[v].role = "ADMIN" /\ users[v].active
  PROVE  AccessInv'
<1>1. PICK keys : keys = { s \in DOMAIN tokens : tokens[s].user = u /\ ~ tokens[s].revoked }
  OBVIOUS
<1>2. PICK t_was : t_was = tokens_of(u)
  OBVIOUS
<1>3. t_was = Select(tokens, keys)
  BY <1>1, <1>2 DEF tokens_of
<1>4. PICK t_now : t_now = revoked(t_was)
  OBVIOUS
<1>5. /\ IsTable(t_was, Tokens, TokenRow) /\ Read(t_was, tokens)
      /\ IsTable(t_now, Tokens, TokenRow)
      /\ OnlyRevokes(t_now) /\ Related(users, t_now, tokens)
      /\ DOMAIN t_now = DOMAIN tokens \cap keys
  BY <1>3, <1>4, RevokedKeys
<1>6. PICK u_was : u_was = Row(u, users[u])
  OBVIOUS
<1>7. PICK u_now : u_now = Row(u, row)
  OBVIOUS
<1>8. Starts(x, Request("writing", u_was, u_now, t_was, t_now))
  BY <1>2, <1>4, <1>6, <1>7 DEF RevokesAll, Reads
<1>9. IsTable(users, Users, UserRow)
  BY DEF AccessInv, AccessTypeOK
<1>10. IsTable(u_was, Users, UserRow) /\ Read(u_was, users)
  BY <1>6, <1>9, RowsAreRead
<1>11. IsTable(u_now, Users, UserRow)
  BY <1>7, <1>9 DEF IsTable, Row
<1>12. \A t \in DOMAIN tokens \ DOMAIN t_now :
         tokens[t].user = u /\ ~ tokens[t].revoked /\ users[u].active => row.active
  BY <1>1, <1>5
<1>13. UsersInOrder(u_now, t_now)
  BY <1>7, <1>12, OneUserChanges
<1>14. WritesInOrder(u_now, t_now)
  BY <1>5, <1>13, RevokingKeepsOrder
<1>15. QED
  BY <1>5, <1>8, <1>10, <1>11, <1>14, Starting

\* Rows that a request reads or writes none of.
LEMMA NoRows ==
  ASSUME AccessInv
  PROVE  /\ IsTable(EmptyTable, Users, UserRow) /\ Read(EmptyTable, users)
         /\ IsTable(EmptyTable, Tokens, TokenRow) /\ Read(EmptyTable, tokens)
         /\ OnlyRevokes(EmptyTable) /\ Related(users, EmptyTable, tokens)
<1>1. IsTable(users, Users, UserRow) /\ IsTable(tokens, Tokens, TokenRow)
  BY DEF AccessInv, AccessTypeOK
<1>2. OnlyRevokes(EmptyTable) /\ Related(users, EmptyTable, tokens)
  BY DEF OnlyRevokes, Related, EmptyTable
<1>3. QED
  BY <1>1, <1>2, RowsAreRead

\* Users stay as they are and tokens are added or changed.
LEMMA UnchangedUsers ==
  ASSUME AccessInv, NEW us, Written(us, users, EmptyTable)
  PROVE  us = users
<1>1. PICK none : none = EmptyTable /\ DOMAIN none = {}
  BY DEF EmptyTable
<1>2. Written(us, users, none)
  BY <1>1
<1>3. users = [ k \in DOMAIN users |-> users[k] ]
  BY DEF AccessInv, AccessTypeOK, IsTable
<1>4. QED
  BY <1>1, <1>2, <1>3 DEF Written

\* POST /auth/login: the token begins a family of its own.
LEMMA LoginStarts ==
  ASSUME AccessInv, NEW x \in Visits, NEW u \in Users, NEW t \in Tokens,
         StartLogin(x, u, t)
  PROVE  AccessInv'
<1>1. PICK no \in BOOLEAN : no = FALSE
  OBVIOUS
<1>2. PICK row : row = [ user |-> u, family |-> t, revoked |-> no ]
  OBVIOUS
<1>3. row \in TokenRow /\ row.user = u /\ row.family = t /\ ~ row.revoked
  BY <1>1, <1>2 DEF TokenRow
<1>4. PICK t_now : t_now = Row(t, row)
  OBVIOUS
<1>5. /\ t_now = [ k \in DOMAIN t_now |-> t_now[k] ]
      /\ DOMAIN t_now = { t } /\ t_now[t] = row
  BY <1>4 DEF Row
<1>6. /\ u \in DOMAIN users /\ users[u].active /\ t \notin DOMAIN tokens
      /\ Starts(x, Request("writing", EmptyTable, EmptyTable, EmptyTable, t_now))
  BY <1>1, <1>2, <1>4 DEF StartLogin, fresh, Reads, issued
<1>7. IsTable(t_now, Tokens, TokenRow)
  BY <1>3, <1>5 DEF IsTable
<1>8. Related(users, t_now, tokens)
  BY <1>3, <1>5, <1>6 DEF Related
<1>9. WritesInOrder(EmptyTable, t_now)
  <2>1. SUFFICES ASSUME NEW us, NEW ts,
                        Written(us, users, EmptyTable), Written(ts, tokens, t_now)
                 PROVE  /\ Order(users, tokens) => Order(us, ts)
                        /\ \A f \in Tokens : Over(tokens, f) => Over(ts, f)
    BY DEF WritesInOrder
  <2>2. us = users
    BY <2>1, UnchangedUsers
  <2>3. /\ DOMAIN ts = DOMAIN tokens \cup { t } /\ ts[t] = row
        /\ \A k \in DOMAIN tokens : ts[k] = tokens[k]
    BY <1>5, <1>6, <2>1 DEF Written
  <2>4. \A k \in DOMAIN tokens : tokens[k].family # t
    BY <1>6 DEF AccessInv, Related
  <2>5. Order(users, tokens) => Order(users, ts)
    BY <1>3, <1>6, <2>3, <2>4 DEF Order
  <2>6. \A f \in Tokens : Over(tokens, f) => Over(ts, f)
    BY <1>3, <1>6, <2>3 DEF Over
  <2>7. QED
    BY <2>2, <2>5, <2>6
<1>10. QED
  BY <1>6, <1>7, <1>8, <1>9, NoRows, Starting

\* POST /auth/refresh: the new token takes the place of the old one in its family.
LEMMA RefreshStarts ==
  ASSUME AccessInv, NEW x \in Visits, NEW t \in Tokens, NEW new \in Tokens,
         StartRefresh(x, t, new)
  PROVE  AccessInv'
<1>1. /\ IsTable(tokens, Tokens, TokenRow)
      /\ \A k \in DOMAIN tokens : /\ tokens[k].user \in DOMAIN users
                                  /\ tokens[k].family \in DOMAIN tokens
  BY DEF AccessInv, AccessTypeOK, Related
<1>2. /\ t \in DOMAIN tokens /\ ~ tokens[t].revoked /\ users[tokens[t].user].active
      /\ new \notin DOMAIN tokens
  BY DEF StartRefresh, is_good, fresh
<1>3. PICK row : row = tokens[t]
  OBVIOUS
<1>4. row \in TokenRow
  BY <1>1, <1>2, <1>3 DEF IsTable
<1>5. PICK t_was : t_was = Row(t, row)
  OBVIOUS
<1>6. IsTable(t_was, Tokens, TokenRow) /\ Read(t_was, tokens) /\ DOMAIN t_was = { t }
      /\ t_was[t] = row
  <2>1. IsTable(t_was, Tokens, TokenRow) /\ Read(t_was, tokens)
    BY <1>1, <1>2, <1>3, <1>5, RowsAreRead
  <2>2. DOMAIN t_was = { t } /\ t_was[t] = row
    BY <1>5 DEF Row
  <2>3. QED
    BY <2>1, <2>2
<1>7. PICK spent : spent = revoked(t_was)
  OBVIOUS
<1>8. /\ IsTable(spent, Tokens, TokenRow) /\ DOMAIN spent = { t }
      /\ spent[t].revoked /\ spent[t].user = row.user /\ spent[t].family = row.family
  BY <1>6, <1>7, RevokedRows
<1>9. PICK t_now : t_now = Put(spent, new, row)
  OBVIOUS
<1>10. /\ IsTable(t_now, Tokens, TokenRow) /\ DOMAIN t_now = { t, new }
       /\ t_now[t] = spent[t] /\ t_now[new] = row
  BY <1>2, <1>4, <1>8, <1>9 DEF Put, IsTable
<1>11. Starts(x, Request("writing", EmptyTable, EmptyTable, t_was, t_now))
  BY <1>3, <1>5, <1>7, <1>9 DEF StartRefresh, Reads, rotated
<1>12. Related(users, t_now, tokens)
  BY <1>1, <1>2, <1>3, <1>8, <1>10 DEF Related
<1>13. WritesInOrder(EmptyTable, t_now)
  <2>1. SUFFICES ASSUME NEW us, NEW ts,
                        Written(us, users, EmptyTable), Written(ts, tokens, t_now)
                 PROVE  /\ Order(users, tokens) => Order(us, ts)
                        /\ \A f \in Tokens : Over(tokens, f) => Over(ts, f)
    BY DEF WritesInOrder
  <2>2. us = users
    BY <2>1, UnchangedUsers
  <2>3. /\ DOMAIN ts = DOMAIN tokens \cup { new } /\ ts[new] = row
        /\ ts[t].revoked /\ ts[t].user = row.user /\ ts[t].family = row.family
        /\ \A k \in DOMAIN tokens \ { t } : ts[k] = tokens[k]
    BY <1>2, <1>8, <1>10, <2>1 DEF Written
  <2>4. ASSUME Order(users, tokens) PROVE Order(users, ts)
    <3>1. /\ \E v \in DOMAIN users : users[v].role = "ADMIN" /\ users[v].active
          /\ \A k \in DOMAIN tokens : ~ tokens[k].revoked =>
               /\ users[tokens[k].user].active
               /\ \A s \in DOMAIN tokens \ { k } :
                    tokens[s].family = tokens[k].family => tokens[s].revoked
      BY <2>4 DEF Order
    <3>2. ASSUME NEW k \in DOMAIN ts, ~ ts[k].revoked
          PROVE  /\ users[ts[k].user].active
                 /\ \A s \in DOMAIN ts \ { k } : ts[s].family = ts[k].family => ts[s].revoked
      <4>1. CASE k = new
        BY <1>2, <1>3, <2>3, <3>1, <4>1
      <4>2. CASE k # new
        <5>1. k \in DOMAIN tokens \ { t } /\ ts[k] = tokens[k] /\ ~ tokens[k].revoked
          BY <2>3, <3>2, <4>2
        <5>2. tokens[k].family # row.family
          BY <1>2, <1>3, <3>1, <5>1
        <5>3. QED
          BY <1>2, <1>3, <2>3, <3>1, <5>1, <5>2
      <4>3. QED
        BY <4>1, <4>2
    <3>3. QED
      BY <3>1, <3>2 DEF Order
  <2>5. ASSUME NEW f \in Tokens, Over(tokens, f) PROVE Over(ts, f)
    <3>1. f \in DOMAIN tokens /\ \A k \in DOMAIN tokens : tokens[k].family = f => tokens[k].revoked
      BY <2>5 DEF Over
    <3>2. row.family # f
      BY <1>2, <1>3, <3>1
    <3>3. QED
      BY <1>2, <2>3, <3>1, <3>2 DEF Over
  <2>6. QED
    BY <2>2, <2>4, <2>5
<1>14. QED
  BY <1>6, <1>10, <1>11, <1>12, <1>13, NoRows, Starting

\* A family that is revoked, for good or by a request that fails.
LEMMA FamilyStarts ==
  ASSUME AccessInv, NEW x \in Visits, NEW t \in Tokens,
         StartRefusedRefresh(x, t) \/ StartLogout(x, t)
  PROVE  AccessInv'
<1>1. PICK keys : keys = { s \in DOMAIN tokens :
                            tokens[s].family = tokens[t].family /\ ~ tokens[s].revoked }
  OBVIOUS
<1>2. PICK t_was : t_was = family_of(t)
  OBVIOUS
<1>3. t_was = Select(tokens, keys)
  BY <1>1, <1>2 DEF family_of
<1>4. PICK t_now : t_now = revoked(t_was)
  OBVIOUS
<1>5. /\ IsTable(t_was, Tokens, TokenRow) /\ Read(t_was, tokens)
      /\ IsTable(t_now, Tokens, TokenRow)
      /\ OnlyRevokes(t_now) /\ Related(users, t_now, tokens)
  BY <1>3, <1>4, RevokedKeys
<1>6. \E pc \in { "writing", "refused" } :
        Starts(x, Request(pc, EmptyTable, EmptyTable, t_was, t_now))
  BY <1>2, <1>4 DEF StartRefusedRefresh, StartLogout, Reads
<1>7. WritesInOrder(EmptyTable, t_now)
  BY <1>5, NoUserChanges, RevokingKeepsOrder
<1>8. QED
  BY <1>5, <1>6, <1>7, NoRows, Starting

\* What _assert_not_last_admin makes sure of.
LEMMA OtherAdministrators ==
  ASSUME NEW u, NEW role, NEW active, may_lose(u, role, active),
         users[u].role = "ADMIN", ~ active \/ role # "ADMIN"
  PROVE  \E v \in DOMAIN users \ { u } : users[v].role = "ADMIN" /\ users[v].active
<1>1. count_active_admins(u) > 0
  BY DEF may_lose
<1>2. PICK S : S = { v \in DOMAIN users \ { u } : users[v].role = "ADMIN" /\ users[v].active }
  OBVIOUS
<1>3. Cardinality(S) > 0
  BY <1>1, <1>2 DEF count_active_admins
<1>4. Cardinality({}) = 0
  BY FS_EmptySet
<1>5. S # {}
  BY <1>3, <1>4
<1>6. QED
  BY <1>2, <1>5

\* A password that is changed or reset, and a user who is deactivated.
LEMMA UserStarts ==
  ASSUME AccessInv, NEW x \in Visits, NEW a \in Users, NEW u \in Users
  PROVE  /\ StartChangePassword(x, u) => AccessInv'
         /\ StartResetPassword(x, a, u) => AccessInv'
         /\ StartDeactivateUser(x, a, u) => AccessInv'
<1>1. IsTable(users, Users, UserRow)
  BY DEF AccessInv, AccessTypeOK
<1>2. u \in DOMAIN users => users[u] \in UserRow
  BY <1>1 DEF IsTable
<1>3. ASSUME StartChangePassword(x, u) \/ StartResetPassword(x, a, u)
      PROVE  AccessInv'
  <2>1. PICK row : row = users[u]
    OBVIOUS
  <2>2. u \in DOMAIN users /\ RevokesAll(x, u, row)
    BY <1>3, <2>1 DEF StartChangePassword, StartResetPassword
  <2>3. row \in UserRow
    BY <1>2, <2>1, <2>2
  <2>4. users[u].role = "ADMIN" /\ users[u].active => row.role = "ADMIN" /\ row.active
    BY <2>1
  <2>5. QED
    BY <2>2, <2>3, <2>4, RevokesAllKeeps
<1>4. ASSUME StartDeactivateUser(x, a, u)
      PROVE  AccessInv'
  <2>1. PICK row : row = [ users[u] EXCEPT !.active = FALSE ]
    OBVIOUS
  <2>2. PICK off \in BOOLEAN : off = FALSE
    OBVIOUS
  <2>3. row = [ users[u] EXCEPT !.active = off ]
    BY <2>1, <2>2
  <2>4. /\ u \in DOMAIN users /\ RevokesAll(x, u, row)
        /\ may_lose(u, users[u].role, FALSE)
    BY <1>4, <2>1 DEF StartDeactivateUser
  <2>5. row \in UserRow
    BY <1>2, <2>3, <2>4 DEF UserRow
  <2>6. users[u].role = "ADMIN" =>
          \E v \in DOMAIN users \ { u } : users[v].role = "ADMIN" /\ users[v].active
    BY <2>4, OtherAdministrators
  <2>7. QED
    BY <2>4, <2>5, <2>6, RevokesAllKeeps
<1>5. QED
  BY <1>3, <1>4

\* PATCH /users/{id}: the role or the activity or both.
LEMMA UpdateUserStarts ==
  ASSUME AccessInv, NEW x \in Visits, NEW a \in Users, NEW u \in Users,
         NEW role \in Role, NEW active \in BOOLEAN,
         StartUpdateUser(x, a, u, role, active)
  PROVE  AccessInv'
<1>1. IsTable(users, Users, UserRow)
  BY DEF AccessInv, AccessTypeOK
<1>2. PICK row : row = [ users[u] EXCEPT !.role = role, !.active = active ]
  OBVIOUS
<1>3. /\ u \in DOMAIN users
      /\ may_lose(u, role, users[u].active => active)
      /\ \/ RevokesAll(x, u, row)
         \/ /\ ~ (users[u].active /\ ~ active)
            /\ Reads(x, Row(u, users[u]), Row(u, row), EmptyTable, EmptyTable)
  BY <1>2 DEF StartUpdateUser
<1>4. users[u] \in UserRow
  BY <1>1, <1>3 DEF IsTable
<1>5. row \in UserRow /\ row.role = role /\ row.active = active
  BY <1>2, <1>4 DEF UserRow
<1>6. users[u].role = "ADMIN" /\ users[u].active =>
        \/ row.role = "ADMIN" /\ row.active
        \/ \E v \in DOMAIN users \ { u } : users[v].role = "ADMIN" /\ users[v].active
  <2>1. CASE users[u].role = "ADMIN" /\ users[u].active /\ ~ (row.role = "ADMIN" /\ row.active)
    <3>1. users[u].role = "ADMIN" /\ (~ (users[u].active => active) \/ role # "ADMIN")
      BY <1>5, <2>1
    <3>2. QED
      BY <1>3, <3>1, OtherAdministrators
  <2>2. QED
    BY <2>1
<1>7. CASE RevokesAll(x, u, row)
  BY <1>3, <1>5, <1>6, <1>7, RevokesAllKeeps
<1>8. CASE /\ ~ (users[u].active /\ ~ active)
           /\ Reads(x, Row(u, users[u]), Row(u, row), EmptyTable, EmptyTable)
  <2>1. PICK none : none = EmptyTable
    OBVIOUS
  <2>2. PICK u_was : u_was = Row(u, users[u])
    OBVIOUS
  <2>3. PICK u_now : u_now = Row(u, row)
    OBVIOUS
  <2>4. Starts(x, Request("writing", u_was, u_now, none, none))
    BY <1>8, <2>1, <2>2, <2>3 DEF Reads
  <2>5. IsTable(u_was, Users, UserRow) /\ Read(u_was, users)
    BY <1>1, <1>3, <2>2, RowsAreRead
  <2>6. IsTable(u_now, Users, UserRow)
    BY <1>5, <2>3 DEF IsTable, Row
  <2>7. users[u].active => row.active
    BY <1>5, <1>8
  <2>8. UsersInOrder(u_now, none)
    BY <1>3, <1>6, <2>3, <2>7, OneUserChanges
  <2>9. /\ IsTable(none, Tokens, TokenRow) /\ Read(none, tokens)
        /\ OnlyRevokes(none) /\ Related(users, none, tokens)
    BY <2>1, NoRows
  <2>10. WritesInOrder(u_now, none)
    BY <2>8, <2>9, RevokingKeepsOrder
  <2>11. QED
    BY <2>4, <2>5, <2>6, <2>9, <2>10, Starting
<1>9. QED
  BY <1>3, <1>7, <1>8

\* POST /users: another account changes nothing for those there are.
LEMMA CreateUserStarts ==
  ASSUME AccessInv, NEW x \in Visits, NEW a \in Users, NEW u \in Users,
         NEW role \in Role, StartCreateUser(x, a, u, role)
  PROVE  AccessInv'
<1>1. PICK on \in BOOLEAN : on = TRUE
  OBVIOUS
<1>2. PICK row : row = [ role |-> role, active |-> on ]
  OBVIOUS
<1>3. row \in UserRow
  BY <1>2 DEF UserRow
<1>4. PICK u_now : u_now = Row(u, row)
  OBVIOUS
<1>5. IsTable(u_now, Users, UserRow) /\ DOMAIN u_now = { u }
  BY <1>3, <1>4 DEF IsTable, Row
<1>6. PICK none : none = EmptyTable
  OBVIOUS
<1>7. u \notin DOMAIN users /\ Starts(x, Request("writing", none, u_now, none, none))
  BY <1>1, <1>2, <1>4, <1>6 DEF StartCreateUser, Reads
<1>8. UsersInOrder(u_now, none)
  <2>1. SUFFICES ASSUME NEW us, Written(us, users, u_now)
                 PROVE  /\ Administers(users) => Administers(us)
                        /\ \A t \in DOMAIN tokens \ DOMAIN none :
                             ~ tokens[t].revoked /\ users[tokens[t].user].active
                               => us[tokens[t].user].active
    BY DEF UsersInOrder
  <2>2. DOMAIN us = DOMAIN users \cup { u } /\ \A v \in DOMAIN users : us[v] = users[v]
    BY <1>5, <1>7, <2>1 DEF Written
  <2>3. \A t \in DOMAIN tokens : tokens[t].user \in DOMAIN users
    BY DEF AccessInv, AccessTypeOK
  <2>4. QED
    BY <2>2, <2>3 DEF Administers
<1>9. /\ IsTable(none, Tokens, TokenRow) /\ Read(none, tokens)
      /\ IsTable(none, Users, UserRow) /\ Read(none, users)
      /\ OnlyRevokes(none) /\ Related(users, none, tokens)
  BY <1>6, NoRows
<1>10. WritesInOrder(u_now, none)
  BY <1>8, <1>9, RevokingKeepsOrder
<1>11. QED
  BY <1>5, <1>7, <1>9, <1>10, Starting

\* What a commit leaves.
LEMMA CommitAccessWrites ==
  ASSUME AccessInv, NEW x \in Visits, CommitAccess(x)
  PROVE  /\ tx[x].pc = "writing" /\ Visit(tx[x])
         /\ users' = flush(users, tx[x].u_was, tx[x].u_now)
         /\ tokens' = flush(tokens, tx[x].t_was, tx[x].t_now)
         /\ IsTable(users', Users, UserRow) /\ LoadedFrom(users, users')
         /\ IsTable(tokens', Tokens, TokenRow) /\ LoadedFrom(tokens, tokens')
         /\ Related(users', tokens', tokens')
<1>1. PICK t : t = tx[x]
  OBVIOUS
<1>2. /\ t.pc = "writing"
      /\ users' = flush(users, t.u_was, t.u_now)
      /\ tokens' = flush(tokens, t.t_was, t.t_now)
  BY <1>1 DEF CommitAccess
<1>3. Visit(t)
  BY <1>1, <1>2, IdleIsIdle DEF AccessInv
<1>4. VisitRows(t)
  BY <1>3 DEF Visit
<1>5. /\ IsTable(t.u_was, Users, UserRow) /\ LoadedFrom(t.u_was, users)
      /\ IsTable(t.u_now, Users, UserRow)
      /\ IsTable(t.t_was, Tokens, TokenRow) /\ LoadedFrom(t.t_was, tokens)
      /\ IsTable(t.t_now, Tokens, TokenRow)
      /\ Related(users, t.t_now, tokens)
  BY <1>4 DEF VisitRows
<1>6. /\ IsTable(users, Users, UserRow) /\ IsTable(tokens, Tokens, TokenRow)
      /\ Related(users, tokens, tokens)
  BY DEF AccessInv, AccessTypeOK
<1>7. PICK us : us = flush(users, t.u_was, t.u_now)
  OBVIOUS
<1>8. IsTable(us, Users, UserRow) /\ LoadedFrom(users, us)
  BY <1>5, <1>6, <1>7, AccessMerges, FlushedIsTable
<1>9. PICK ts : ts = flush(tokens, t.t_was, t.t_now)
  OBVIOUS
<1>10. IsTable(ts, Tokens, TokenRow) /\ LoadedFrom(tokens, ts)
  BY <1>5, <1>6, <1>9, AccessMerges, FlushedIsTable
<1>11. Flushed(ts, tokens, t.t_was, t.t_now)
  BY <1>9, FlushedRows
<1>12. ASSUME NEW k \in DOMAIN ts
       PROVE  ts[k].user \in DOMAIN us /\ ts[k].family \in DOMAIN ts
  <2>1. \A j \in DOMAIN tokens : tokens[j].user \in DOMAIN users /\ tokens[j].family \in DOMAIN tokens
    BY <1>6 DEF Related
  <2>2. \A j \in DOMAIN t.t_now :
          /\ t.t_now[j].user \in DOMAIN users
          /\ t.t_now[j].family \in DOMAIN tokens \cup DOMAIN t.t_now
    BY <1>5 DEF Related
  <2>3. /\ DOMAIN users \subseteq DOMAIN us
        /\ DOMAIN ts = DOMAIN tokens \cup DOMAIN t.t_now
        /\ DOMAIN t.t_was \subseteq DOMAIN tokens
    BY <1>5, <1>8, <1>11 DEF LoadedFrom, Flushed
  <2>4. CASE k \in DOMAIN tokens \ DOMAIN t.t_now
    <3>1. ts[k] = tokens[k]
      BY <1>11, <2>4 DEF Flushed
    <3>2. QED
      BY <2>1, <2>3, <2>4, <3>1
  <2>5. CASE k \in DOMAIN t.t_now \ DOMAIN t.t_was
    <3>1. ts[k] = t.t_now[k]
      BY <1>11, <2>5 DEF Flushed
    <3>2. QED
      BY <2>2, <2>3, <2>5, <3>1
  <2>6. CASE k \in DOMAIN t.t_now \cap DOMAIN t.t_was
    <3>1. ts[k] = merge(tokens[k], t.t_was[k], t.t_now[k])
      BY <1>11, <2>6 DEF Flushed
    <3>2. /\ tokens[k] \in TokenRow /\ t.t_was[k] \in TokenRow /\ t.t_now[k] \in TokenRow
      BY <1>5, <1>6, <2>3, <2>6 DEF IsTable
    <3>3. /\ ts[k].user \in { tokens[k].user, t.t_now[k].user }
          /\ ts[k].family \in { tokens[k].family, t.t_now[k].family }
      BY <3>1, <3>2, MergedToken
    <3>4. QED
      BY <2>1, <2>2, <2>3, <2>6, <3>3
  <2>7. QED
    BY <2>3, <2>4, <2>5, <2>6
<1>13. Related(us, ts, ts)
  BY <1>12 DEF Related
<1>14. QED
  BY <1>1, <1>2, <1>3, <1>7, <1>8, <1>9, <1>10, <1>13

\* Tables that only grow hold the rows that were read and the references.
LEMMA CommitAccessKeeps ==
  ASSUME AccessInv, NEW x \in Visits, CommitAccess(x)
  PROVE  AccessInv'
<1>1. /\ IsTable(users', Users, UserRow) /\ LoadedFrom(users, users')
      /\ IsTable(tokens', Tokens, TokenRow) /\ LoadedFrom(tokens, tokens')
      /\ Related(users', tokens', tokens')
  BY CommitAccessWrites
<1>2. /\ tx' = [ y \in Visits |-> tx'[y] ]
      /\ \A y \in Visits : tx'[y] = Idle \/ (/\ tx[y] # Idle
                                             /\ tx'[y] = [ tx[y] EXCEPT !.late = TRUE ])
  BY DEF CommitAccess, overtaken
<1>3. ASSUME NEW y \in Visits, tx'[y] # Idle
      PROVE  Visit(tx[y])'
  <2>1. tx[y] # Idle /\ tx'[y] = [ tx[y] EXCEPT !.late = TRUE ]
    BY <1>2, <1>3
  <2>2. Visit(tx[y])
    BY <2>1 DEF AccessInv
  <2>3. PICK yes : yes = TRUE
    OBVIOUS
  <2>4. PICK t : t = tx[y]
    OBVIOUS
  <2>5. PICK u : u = [ t EXCEPT !.late = yes ]
    OBVIOUS
  <2>6. tx'[y] = u /\ VisitShape(t) /\ VisitRows(t)
    BY <2>1, <2>2, <2>3, <2>4, <2>5 DEF Visit
  <2>7. /\ VisitShape(u) /\ u.late = yes /\ u.pc = t.pc
        /\ u.u_was = t.u_was /\ u.u_now = t.u_now
        /\ u.t_was = t.t_was /\ u.t_now = t.t_now
    BY <2>5, <2>6 DEF VisitShape
  <2>8. VisitRows(tx[y])'
    BY <1>1, <2>6, <2>7 DEF VisitRows, LoadedFrom, Related
  <2>9. VisitShape(tx[y])' /\ tx'[y].late
    BY <2>3, <2>6, <2>7 DEF VisitShape
  <2>10. QED
    BY <2>8, <2>9 DEF Visit
<1>4. (\A y \in Visits : tx[y] = Idle \/ Visit(tx[y]))'
  BY <1>3
<1>5. AccessTypeOK' /\ Related(users, tokens, tokens)'
  BY <1>1 DEF AccessTypeOK, Related
<1>6. QED
  BY <1>2, <1>4, <1>5 DEF AccessInv

\* A request that ends without writing.
LEMMA RollbackAccessKeeps ==
  ASSUME AccessInv, NEW x \in Visits, RollbackAccess(x)
  PROVE  AccessInv'
<1>1. PICK t : t = Idle
  OBVIOUS
<1>2. tx' = [ tx EXCEPT ![x] = t ] /\ users' = users /\ tokens' = tokens
  BY <1>1 DEF RollbackAccess
<1>3. QED
  BY <1>1, <1>2, VisitBegins

\* The invariant holds at first: the seeded administrator is there.
LEMMA AccessBegins == AccessInit => AccessInv
<1> SUFFICES ASSUME AccessInit PROVE AccessInv
  OBVIOUS
<1>1. PICK on \in BOOLEAN : on = TRUE
  OBVIOUS
<1>2. PICK u : u = CHOOSE v \in Users : TRUE
  OBVIOUS
<1>3. u \in Users
  BY <1>2, SomeUser
<1>4. PICK row : row = [ role |-> "ADMIN", active |-> on ]
  OBVIOUS
<1>5. row \in UserRow
  BY <1>4 DEF UserRow, Role
<1>6. users = Row(u, row)
  BY <1>1, <1>2, <1>4 DEF AccessInit
<1>7. IsTable(users, Users, UserRow)
  BY <1>3, <1>5, <1>6 DEF IsTable, Row
<1>8. /\ tokens = [ k \in DOMAIN tokens |-> tokens[k] ] /\ DOMAIN tokens = {}
      /\ tx = [ y \in Visits |-> tx[y] ] /\ \A y \in Visits : tx[y] = Idle
  BY DEF AccessInit, EmptyTable
<1>9. AccessTypeOK /\ Related(users, tokens, tokens)
  BY <1>7, <1>8 DEF AccessTypeOK, IsTable, Related
<1>10. QED
  BY <1>8, <1>9 DEF AccessInv

\* Every step keeps it.
LEMMA AccessPreserved == AccessInv /\ [AccessNext]_access => AccessInv'
<1> SUFFICES ASSUME AccessInv, [AccessNext]_access PROVE AccessInv'
  OBVIOUS
<1>1. ASSUME NEW x \in Visits, StartAccess(x) PROVE AccessInv'
  <2>1. PICK u \in Users :
          \/ StartChangePassword(x, u)
          \/ \E t \in Tokens : StartLogin(x, u, t)
          \/ \E a \in Users :
               \/ StartResetPassword(x, a, u) \/ StartDeactivateUser(x, a, u)
               \/ \E role \in Role :
                    \/ StartCreateUser(x, a, u, role)
                    \/ \E active \in BOOLEAN : StartUpdateUser(x, a, u, role, active)
    BY <1>1 DEF StartAccess
  <2>2. QED
    BY <2>1, LoginStarts, UserStarts, CreateUserStarts, UpdateUserStarts
<1>2. ASSUME NEW x \in Visits, StartToken(x) PROVE AccessInv'
  BY <1>2, FamilyStarts, RefreshStarts DEF StartToken
<1>3. ASSUME NEW x \in Visits, CommitAccess(x) PROVE AccessInv'
  BY <1>3, CommitAccessKeeps
<1>4. ASSUME NEW x \in Visits, RollbackAccess(x) PROVE AccessInv'
  BY <1>4, RollbackAccessKeeps
<1>5. CASE UNCHANGED access
  <2>1. users' = users /\ tokens' = tokens /\ tx' = tx
    BY <1>5 DEF access
  <2>2. QED
    BY <2>1 DEF AccessInv, AccessTypeOK, Related, Visit, VisitShape, VisitRows, KeepsOrder
<1>6. QED
  BY <1>1, <1>2, <1>3, <1>4, <1>5 DEF AccessNext

\* So it always holds.
LEMMA AccessInvariant == AccessSpec => []AccessInv
  BY AccessBegins, AccessPreserved, PTL DEF AccessSpec

\* A request that was not overtaken leaves the order as it found it.
LEMMA AccessStaysInOrder ==
  ASSUME AccessInv, AccessNext, NoneLate
  PROVE  /\ Orderly => Orderly'
         /\ \A f \in Tokens : over(f) => over(f)'
<1>1. PICK us : us = users'
  OBVIOUS
<1>2. PICK ts : ts = tokens'
  OBVIOUS
<1>3. /\ Orderly <=> Order(users, tokens)
      /\ \A f \in Tokens : over(f) <=> Over(tokens, f)
  BY DEF Orderly, Order, over, Over
<1>4. /\ Orderly' <=> Order(us, ts)
      /\ \A f \in Tokens : over(f)' <=> Over(ts, f)
  BY <1>1, <1>2 DEF Orderly, Order, over, Over
<1>5. ASSUME NEW x \in Visits, CommitAccess(x)
      PROVE  /\ Order(users, tokens) => Order(us, ts)
             /\ \A f \in Tokens : Over(tokens, f) => Over(ts, f)
  <2>1. PICK t : t = tx[x]
    OBVIOUS
  <2>2. /\ t.pc = "writing" /\ Visit(t)
        /\ us = flush(users, t.u_was, t.u_now) /\ ts = flush(tokens, t.t_was, t.t_now)
    BY <1>1, <1>2, <1>5, <2>1, CommitAccessWrites
  <2>3. t # Idle /\ tx'[x] = Idle
    BY <1>5, <2>2, IdleIsIdle DEF CommitAccess, overtaken
  <2>4. ~ t.late
    BY <2>1, <2>3 DEF NoneLate
  <2>5. KeepsOrder(users, tokens, t)
    BY <2>2, <2>4 DEF Visit
  <2>6. QED
    BY <2>2, <2>5 DEF KeepsOrder
<1>6. ASSUME NEW x \in Visits, StartAccess(x) \/ StartToken(x) \/ RollbackAccess(x)
      PROVE  us = users /\ ts = tokens
  <2>1. ASSUME StartAccess(x) PROVE \E begun : Starts(x, begun)
    BY <2>1 DEF StartAccess, StartChangePassword, StartLogin, StartResetPassword,
                StartDeactivateUser, StartCreateUser, StartUpdateUser, RevokesAll, Reads
  <2>2. ASSUME StartToken(x) PROVE \E begun : Starts(x, begun)
    BY <2>2 DEF StartToken, StartRefusedRefresh, StartLogout, StartRefresh, Reads
  <2>3. (\E begun : Starts(x, begun)) \/ RollbackAccess(x) => users' = users /\ tokens' = tokens
    BY DEF Starts, RollbackAccess
  <2>4. QED
    BY <1>1, <1>2, <1>6, <2>1, <2>2, <2>3
<1>7. QED
  BY <1>3, <1>4, <1>5, <1>6 DEF AccessNext

\* Every stored account and token has its columns' types, and the user of a token
\* exists (models/identity.py).
THEOREM AccessKeepsTypes == AccessSpec => []AccessTypeOK
<1>1. AccessInv => AccessTypeOK
  BY DEF AccessInv
<1>2. QED
  BY <1>1, AccessInvariant, PTL

\* Without a request that another one overtook, somebody stays able to administer,
\* a user who is not active holds no token, a family of tokens has one good token at
\* most, and a sign-in that is over is never revived (services/auth.py,
\* services/user.py).
THEOREM OverlapsAloneEndOrder == AccessSpec => OnlyOverlapsEndOrder
<1> DEFINE A == NoneLate => /\ Orderly => Orderly'
                            /\ \A f \in Tokens : over(f) => over(f)'
<1>1. AccessInv /\ [AccessNext]_access => [A]_access
  BY AccessStaysInOrder
<1>2. AccessSpec => [][A]_access
  BY <1>1, AccessInvariant, PTL DEF AccessSpec
<1>3. QED
  BY <1>2 DEF OnlyOverlapsEndOrder

-----------------------------------------------------------------------------
(* Workbook import (module Imports).                                       *)

\* What the proofs say of any table of batches.
MadeRows(batch) == { i \in DOMAIN batch.rows : batch.rows[i].created # Blank }

\* Only rows that could be read have anything made of them, which is there, and
\* no contact is ever made.
RowMade(batch, i, ts) ==
  /\ batch.entity # "CONTACTS"
  /\ batch.rows[i].created \in DOMAIN ts
  /\ ts[batch.rows[i].created].entity = batch.entity

BatchOK(batch, ts) ==
  /\ batch \in ImportBatch
  /\ \A i \in committable_rows(batch) : batch.rows[i].sheet \in SheetRow
  /\ \A i \in MadeRows(batch) : batch.rows[i].state = "VALID" /\ RowMade(batch, i, ts)

\* A request under way: until another overtakes it, its batch is still open to it.
ImportOf(t) ==
  /\ t.b \in DOMAIN batches
  /\ t.rows \subseteq committable_rows(batches[t.b])
  /\ t.status = "DISCARDED" => t.rows = {}
  /\ ~ t.late => batches[t.b].status # "COMMITTED"
  /\ ~ t.late /\ t.status = "COMMITTED" => batches[t.b].status = "STAGED"

Importing(t) ==
  \E b, status, rows, late :
    /\ t = [ busy |-> TRUE, b |-> b, status |-> status, rows |-> rows, late |-> late ]
    /\ status \in { "COMMITTED", "DISCARDED" } /\ late \in BOOLEAN
    /\ ImportOf(t)

ImportsInv ==
  /\ IsTable(things, Ids, Thing)
  /\ IsTable(batches, Batches, ImportBatch)
  /\ \A b \in DOMAIN batches : BatchOK(batches[b], things)
  /\ importing = [ x \in Importers |-> importing[x] ]
  /\ \A x \in Importers : importing[x] = NoImport \/ Importing(importing[x])
  /\ edits \in 0..MaxChanges

\* What is said of each batch is more than the types ask.
LEMMA ImportsHaveTypes == ImportsInv => ImportsTypeOK
<1> SUFFICES ASSUME ImportsInv PROVE ImportsTypeOK
  OBVIOUS
<1>1. ASSUME NEW b \in DOMAIN batches, NEW i \in made(b)
      PROVE  /\ batches[b].rows[i].state = "VALID"
             /\ batches[b].rows[i].created \in DOMAIN things
             /\ things[batches[b].rows[i].created].entity = batches[b].entity
  BY DEF ImportsInv, BatchOK, RowMade, MadeRows, made
<1> QED
  BY <1>1 DEF ImportsInv, ImportsTypeOK

\* Nothing is stored and nobody asks for anything at first.
LEMMA ImportsBegin == ImportsInit => ImportsInv
<1> SUFFICES ASSUME ImportsInit PROVE ImportsInv
  OBVIOUS
<1>1. DOMAIN things = {} /\ DOMAIN batches = {}
  BY DEF ImportsInit, EmptyTable
<1>2. IsTable(things, Ids, Thing) /\ IsTable(batches, Batches, ImportBatch)
  BY DEF ImportsInit, EmptyTable, IsTable
<1>3. importing = [ x \in Importers |-> importing[x] ] /\ \A x \in Importers : importing[x] = NoImport
  BY DEF ImportsInit
<1>4. edits \in 0..MaxChanges
  BY FilesOfRows DEF ImportsInit
<1> QED
  BY <1>1, <1>2, <1>3, <1>4 DEF ImportsInv

\* The request that is not idle is described by its record.
LEMMA BusyImport ==
  ASSUME ImportsInv, NEW x \in Importers, importing[x].busy
  PROVE  Importing(importing[x])
  BY DEF ImportsInv, NoImport

\* What holds of a batch goes on holding when things are kept with their entity.
LEMMA BatchStaysOK ==
  ASSUME NEW batch, NEW ts, NEW us, BatchOK(batch, ts),
         batch.entity # "CONTACTS" =>
           \A id \in DOMAIN ts :
             ts[id].entity = batch.entity => id \in DOMAIN us /\ us[id].entity = batch.entity
  PROVE  BatchOK(batch, us)
  BY DEF BatchOK, RowMade

\* Requests go on as they were while the batches stay as they are.
LEMMA RequestsGoOn ==
  ASSUME ImportsInv, UNCHANGED importing,
         \A b \in DOMAIN batches : b \in DOMAIN batches' /\ batches'[b] = batches[b]
  PROVE  /\ importing' = [ x \in Importers |-> importing'[x] ]
         /\ \A x \in Importers : importing'[x] = NoImport \/ Importing(importing[x])'
<1>1. ASSUME NEW x \in Importers, Importing(importing[x])
      PROVE  Importing(importing[x])'
  <2>1. PICK t : t = importing[x]
    OBVIOUS
  <2>2. importing'[x] = t
    BY <2>1
  <2>3. ImportOf(t)
    BY <1>1, <2>1 DEF Importing
  <2>4. t.b \in DOMAIN batches' /\ batches'[t.b] = batches[t.b]
    BY <2>3 DEF ImportOf
  <2>5. ImportOf(t)'
    BY <2>3, <2>4 DEF ImportOf
  <2>6. \E u : u = t /\ ImportOf(u)'
    BY <2>5
  <2> QED
    BY <1>1, <2>1, <2>2, <2>5 DEF Importing
<1> QED
  BY <1>1 DEF ImportsInv

\* What is made, changed or removed by hand keeps what the imports tell: of every
\* entity but contacts nothing goes.
LEMMA HandsKeep ==
  ASSUME ImportsInv, ByHand, IsTable(things', Ids, Thing),
         \A id \in DOMAIN things :
           things[id].entity # "CONTACTS" =>
             id \in DOMAIN things' /\ things'[id].entity = things[id].entity
  PROVE  ImportsInv'
<1>1. UNCHANGED << batches, importing >> /\ edits' \in 0..MaxChanges
  BY FilesOfRows DEF ByHand, ImportsInv
<1>2. ASSUME NEW b \in DOMAIN batches PROVE BatchOK(batches[b], things')
  BY BatchStaysOK DEF ImportsInv
<1>3. \A b \in DOMAIN batches' : BatchOK(batches'[b], things')
  BY <1>1, <1>2
<1>4. \A x \in Importers : importing'[x] = NoImport \/ Importing(importing[x])'
  BY <1>1, RequestsGoOn
<1>5. IsTable(batches', Batches, ImportBatch) /\ importing' = [ x \in Importers |-> importing'[x] ]
  BY <1>1, RequestsGoOn DEF ImportsInv
<1> QED
  BY <1>1, <1>3, <1>4, <1>5 DEF ImportsInv

\* What is added has a new id.
LEMMA AddKeeps ==
  ASSUME ImportsInv, NEW id \in Ids, NEW entity \in ImportEntity, NEW name \in Names,
         NEW mark \in Marks \cup { Blank }, Add(id, entity, name, mark)
  PROVE  ImportsInv'
<1>1. PICK thing : thing = [ entity |-> entity, name |-> name, mark |-> mark, gone |-> FALSE ]
  OBVIOUS
<1>2. thing \in Thing /\ things' = Put(things, id, thing) /\ id \notin DOMAIN things /\ ByHand
  BY <1>1 DEF Add, Thing, unused
<1>3. IsTable(things', Ids, Thing)
  BY <1>2 DEF ImportsInv, IsTable, Put
<1> QED
  BY <1>2, <1>3, HandsKeep DEF Put

\* No PATCH changes what a thing is.
LEMMA AlterKeeps ==
  ASSUME ImportsInv, NEW id \in Ids, NEW name \in Names,
         NEW mark \in Marks \cup { Blank }, Alter(id, name, mark)
  PROVE  ImportsInv'
<1>1. PICK thing : thing = [ things[id] EXCEPT !.name = name, !.mark = mark ]
  OBVIOUS
<1>2. id \in DOMAIN things /\ things[id] \in Thing /\ ByHand
  BY DEF Alter, ImportsInv, IsTable
<1>3. thing \in Thing /\ thing.entity = things[id].entity
  BY <1>1, <1>2 DEF Thing
<1>4. things' = [ things EXCEPT ![id] = thing ]
  <2>1. things' = [ things EXCEPT ![id].name = name, ![id].mark = mark ]
    BY DEF Alter
  <2> QED
    BY <1>1, <1>2, <2>1 DEF ImportsInv, IsTable
<1>5. IsTable(things', Ids, Thing)
  BY <1>2, <1>3, <1>4 DEF ImportsInv, IsTable
<1> QED
  BY <1>2, <1>3, <1>4, <1>5, HandsKeep

\* Only contacts go for good.
LEMMA RemoveKeeps ==
  ASSUME ImportsInv, NEW id \in Ids, Remove(id)
  PROVE  ImportsInv'
<1>1. id \in DOMAIN things /\ things[id] \in Thing /\ ByHand
  BY DEF Remove, ImportsInv, IsTable
<1>2. CASE things[id].entity = "CONTACTS"
  <2>1. things' = Select(things, DOMAIN things \ { id })
    BY <1>2 DEF Remove
  <2>2. IsTable(things', Ids, Thing)
    BY <2>1 DEF ImportsInv, IsTable, Select
  <2> QED
    BY <1>1, <1>2, <2>1, <2>2, HandsKeep DEF Select
<1>3. CASE things[id].entity # "CONTACTS"
  <2>1. PICK thing : thing = [ things[id] EXCEPT !.gone = TRUE ]
    OBVIOUS
  <2>2. thing \in Thing /\ thing.entity = things[id].entity
    BY <1>1, <2>1 DEF Thing
  <2>3. things' = [ things EXCEPT ![id] = thing ]
    BY <1>3, <2>1 DEF Remove
  <2>4. IsTable(things', Ids, Thing)
    BY <1>1, <2>2, <2>3 DEF ImportsInv, IsTable
  <2> QED
    BY <1>1, <2>2, <2>3, <2>4, HandsKeep
<1> QED
  BY <1>2, <1>3

\* The staged batch: nothing is made of any row yet, and those that are valid
\* could be read.
LEMMA StagedBatch ==
  ASSUME ImportsInv, NEW b \in Batches, NEW entity \in ImportEntity, NEW file \in Files[entity],
         Stage(b, entity, file)
  PROVE  /\ b \notin DOMAIN batches
         /\ batches' = Put(batches, b, batches'[b])
         /\ batches'[b] \in ImportBatch
         /\ batches'[b].entity = entity /\ batches'[b].status = "STAGED"
         /\ MadeRows(batches'[b]) = {}
         /\ \A i \in committable_rows(batches'[b]) :
              /\ batches'[b].rows[i].sheet \in SheetRow
              /\ ~ existing(entity, batches'[b].rows[i].sheet)
<1>1. PICK rows : rows = [ i \in DOMAIN file |->
                             [ sheet |-> file[i], created |-> Blank,
                               state |-> validation_state(entity, file, i) ] ]
  OBVIOUS
<1>2. PICK batch : batch = [ entity |-> entity, status |-> "STAGED",
                             committed_rows |-> 0, rows |-> rows ]
  OBVIOUS
<1>3. b \notin DOMAIN batches /\ batches' = Put(batches, b, batch)
  BY <1>1, <1>2 DEF Stage
<1>4. batches'[b] = batch
  BY <1>3 DEF Put
<1>5. file \in Seq(SheetRow \cup { Unreadable })
  BY FilesOfRows
<1>6. ASSUME NEW i \in DOMAIN file
      PROVE  /\ rows[i] \in ImportRow /\ rows[i].created = Blank
             /\ rows[i].state = "VALID" =>
                  rows[i].sheet \in SheetRow /\ ~ existing(entity, rows[i].sheet)
  <2>1. file[i] \in SheetRow \cup { Unreadable }
    BY <1>5, <1>6
  <2>2. PICK state : state = validation_state(entity, file, i)
    OBVIOUS
  <2>3. /\ state \in RowState
        /\ state = "VALID" => file[i] # Unreadable /\ ~ existing(entity, file[i])
    BY <2>2 DEF validation_state, RowState
  <2>4. rows[i] = [ sheet |-> file[i], created |-> Blank, state |-> state ]
    BY <1>1, <1>6, <2>2
  <2> QED
    BY <2>1, <2>3, <2>4 DEF ImportRow
<1>7. rows \in Seq(ImportRow) /\ DOMAIN rows = DOMAIN file
  BY <1>1, <1>5, <1>6
<1>8. batch \in ImportBatch
  BY <1>2, <1>7 DEF ImportBatch, ImportStatus
<1>9. MadeRows(batch) = {}
  BY <1>2, <1>6, <1>7 DEF MadeRows
<1>10. \A i \in committable_rows(batch) :
         batch.rows[i].sheet \in SheetRow /\ ~ existing(entity, batch.rows[i].sheet)
  BY <1>2, <1>6, <1>7 DEF committable_rows
<1> QED
  BY <1>2, <1>3, <1>4, <1>8, <1>9, <1>10

LEMMA StageKeeps ==
  ASSUME ImportsInv, NEW b \in Batches, NEW entity \in ImportEntity, NEW file \in Files[entity],
         Stage(b, entity, file)
  PROVE  ImportsInv'
<1>1. UNCHANGED << things, importing, edits >>
  BY DEF Stage
<1>2. /\ DOMAIN batches' = DOMAIN batches \cup { b }
      /\ \A c \in DOMAIN batches : batches'[c] = batches[c]
  BY StagedBatch DEF Put
<1>3. IsTable(batches', Batches, ImportBatch)
  <2>1. PICK batch : batch = batches'[b]
    OBVIOUS
  <2>2. batches' = Put(batches, b, batch) /\ batch \in ImportBatch
    BY <2>1, StagedBatch
  <2> QED
    BY <2>2 DEF ImportsInv, IsTable, Put
<1>4. BatchOK(batches'[b], things)
  BY StagedBatch DEF BatchOK
<1>5. \A c \in DOMAIN batches' : BatchOK(batches'[c], things')
  BY <1>1, <1>2, <1>4 DEF ImportsInv
<1>6. /\ importing' = [ x \in Importers |-> importing'[x] ]
      /\ \A x \in Importers : importing'[x] = NoImport \/ Importing(importing[x])'
  BY <1>1, <1>2, RequestsGoOn
<1> QED
  BY <1>1, <1>3, <1>5, <1>6 DEF ImportsInv

\* Only a request on batches changes.
LEMMA ImportBegins ==
  ASSUME ImportsInv, NEW x \in Importers, NEW t,
         importing' = [ importing EXCEPT ![x] = t ], UNCHANGED << things, batches, edits >>,
         t = NoImport \/ Importing(t)
  PROVE  ImportsInv'
<1>1. ASSUME NEW y \in Importers PROVE importing'[y] = NoImport \/ Importing(importing[y])'
  <2>1. PICK u : u = importing'[y]
    OBVIOUS
  <2>2. u = NoImport \/ Importing(u)
    BY <2>1 DEF ImportsInv
  <2>3. ASSUME Importing(u) PROVE Importing(u)'
    <3>1. ImportOf(u) => ImportOf(u)'
      BY DEF ImportOf
    <3> QED
      BY <2>3, <3>1 DEF Importing
  <2> QED
    BY <2>1, <2>2, <2>3 DEF Importing
<1>2. importing' = [ y \in Importers |-> importing'[y] ]
  BY DEF ImportsInv
<1>3. \A b \in DOMAIN batches' : BatchOK(batches'[b], things')
  BY DEF ImportsInv
<1> QED
  BY <1>1, <1>2, <1>3 DEF ImportsInv

LEMMA StartImportKeeps ==
  ASSUME ImportsInv, NEW x \in Importers, NEW b \in Batches,
         StartCommitBatch(x, b) \/ StartDiscardBatch(x, b)
  PROVE  ImportsInv'
<1>1. ASSUME NEW status, NEW rows, Imports(x, b, status, rows),
             status \in { "COMMITTED", "DISCARDED" }, b \in DOMAIN batches,
             rows \subseteq committable_rows(batches[b]),
             status = "DISCARDED" => rows = {},
             batches[b].status # "COMMITTED",
             status = "COMMITTED" => batches[b].status = "STAGED"
      PROVE  ImportsInv'
  <2>1. PICK t : t = [ busy |-> TRUE, b |-> b, status |-> status, rows |-> rows, late |-> FALSE ]
    OBVIOUS
  <2>2. ImportOf(t)
    BY <1>1, <2>1 DEF ImportOf
  <2>3. Importing(t)
    BY <1>1, <2>1, <2>2 DEF Importing
  <2> QED
    BY <1>1, <2>1, <2>3, ImportBegins DEF Imports
<1>2. creatable(batches[b]) \subseteq committable_rows(batches[b])
  BY DEF creatable
<1> QED
  BY <1>1, <1>2 DEF StartCommitBatch, StartDiscardBatch, is_open

LEMMA FailKeeps ==
  ASSUME ImportsInv, NEW x \in Importers, FailImport(x)
  PROVE  ImportsInv'
  BY ImportBegins DEF FailImport

\* Finitely many rows are committed.
LEMMA RowsAreFew ==
  ASSUME NEW batch \in ImportBatch, NEW rows \in SUBSET committable_rows(batch)
  PROVE  Cardinality(rows) \in Nat
<1>1. batch.rows \in Seq(ImportRow)
  BY DEF ImportBatch
<1>2. DOMAIN batch.rows = 1..Len(batch.rows) /\ Len(batch.rows) \in Nat
  BY <1>1
<1>3. rows \subseteq 1..Len(batch.rows)
  BY <1>2 DEF committable_rows
<1>4. PICK n \in Int : n = Len(batch.rows)
  BY <1>2
<1>5. IsFiniteSet(1..n)
  <2>1. 1 \in Int
    OBVIOUS
  <2>2. QED
    BY <2>1, FS_Interval, Zenon
<1>6. IsFiniteSet(rows)
  BY <1>3, <1>4, <1>5, FS_Subset
<1> QED
  BY <1>6, FS_CardinalityType

\* The batch after the request tells of its new things, and is else as it was.
LEMMA WrittenBatch ==
  ASSUME NEW batch \in ImportBatch, NEW t, t.status \in { "COMMITTED", "DISCARDED" },
         t.rows \subseteq committable_rows(batch), NEW ids \in [ t.rows -> Ids ],
         NEW new, new = written(batch, t, ids)
  PROVE  /\ new \in ImportBatch /\ new.entity = batch.entity /\ new.status = t.status
         /\ new.committed_rows = IF t.status = "COMMITTED" THEN Cardinality(t.rows)
                                 ELSE batch.committed_rows
         /\ DOMAIN new.rows = DOMAIN batch.rows
         /\ \A i \in DOMAIN batch.rows :
              /\ new.rows[i].sheet = batch.rows[i].sheet
              /\ new.rows[i].state = batch.rows[i].state
              /\ new.rows[i].created = IF i \in t.rows THEN ids[i] ELSE batch.rows[i].created
         /\ committable_rows(new) = committable_rows(batch)
         /\ MadeRows(new) = MadeRows(batch) \cup t.rows
         /\ t.rows = {} => new.rows = batch.rows
<1>1. PICK rows : rows = [ i \in DOMAIN batch.rows |->
                             IF i \in t.rows THEN [ batch.rows[i] EXCEPT !.created = ids[i] ]
                             ELSE batch.rows[i] ]
  OBVIOUS
<1>2. PICK n : n = IF t.status = "COMMITTED" THEN Cardinality(t.rows) ELSE batch.committed_rows
  OBVIOUS
<1>3. n \in Nat
  BY <1>2, RowsAreFew DEF ImportBatch
<1>4. new = [ batch EXCEPT !.status = t.status, !.committed_rows = n, !.rows = rows ]
  BY <1>1, <1>2 DEF written
<1>5. batch.rows \in Seq(ImportRow)
  BY DEF ImportBatch
<1>6. ASSUME NEW i \in DOMAIN batch.rows
      PROVE  /\ rows[i] \in ImportRow
             /\ rows[i].sheet = batch.rows[i].sheet /\ rows[i].state = batch.rows[i].state
             /\ rows[i].created = IF i \in t.rows THEN ids[i] ELSE batch.rows[i].created
  <2>1. batch.rows[i] \in ImportRow
    BY <1>5, <1>6
  <2>2. CASE i \in t.rows
    <3>1. rows[i] = [ batch.rows[i] EXCEPT !.created = ids[i] ] /\ ids[i] \in Ids
      BY <1>1, <1>6, <2>2
    <3> QED
      BY <2>1, <2>2, <3>1 DEF ImportRow
  <2>3. CASE i \notin t.rows
    BY <1>1, <1>6, <2>1, <2>3
  <2> QED
    BY <2>2, <2>3
<1>7. rows \in Seq(ImportRow) /\ DOMAIN rows = DOMAIN batch.rows
  <2>1. PICK last \in Nat : DOMAIN batch.rows = 1..last
    BY <1>5
  <2>2. \A i \in 1..last : rows[i] \in ImportRow
    BY <1>6, <2>1
  <2>3. rows \in [ 1..last -> ImportRow ]
    BY <1>1, <2>1, <2>2
  <2>4. rows \in Seq(ImportRow)
    BY <2>3
  <2> QED
    BY <1>1, <2>4
<1>8. new \in ImportBatch /\ new.entity = batch.entity /\ new.status = t.status
      /\ new.committed_rows = n /\ new.rows = rows
  BY <1>3, <1>4, <1>7 DEF ImportBatch, ImportStatus
<1>9. committable_rows(new) = committable_rows(batch)
  BY <1>6, <1>7, <1>8 DEF committable_rows
<1>10. MadeRows(new) = MadeRows(batch) \cup t.rows
  <2>1. t.rows \subseteq DOMAIN batch.rows
    BY DEF committable_rows
  <2>2. \A i \in t.rows : ids[i] # Blank
    BY FilesOfRows
  <2> QED
    BY <1>6, <1>7, <1>8, <2>1, <2>2 DEF MadeRows
<1>11. t.rows = {} => new.rows = batch.rows
  BY <1>1, <1>5, <1>8
<1> QED
  BY <1>2, <1>6, <1>7, <1>8, <1>9, <1>10, <1>11

\* What a request writes, and whom it overtakes.
Overtakes(x, t) ==
  importing' = [ y \in Importers |->
    IF y = x THEN NoImport
    ELSE IF importing[y].busy /\ importing[y].b = t.b
    THEN [ importing[y] EXCEPT !.late = TRUE ] ELSE importing[y] ]

Commits(x, t, ids) ==
  /\ t = importing[x] /\ Importing(t)
  /\ ids \in [ t.rows -> unused ]
  /\ \A i, j \in t.rows : ids[i] = ids[j] => i = j
  /\ batches[t.b].entity = "CONTACTS" => t.rows = {}
  /\ things' = PutAll(things, new_things(batches[t.b], t.rows, ids))
  /\ batches' = [ batches EXCEPT ![t.b] = written(@, t, ids) ]
  /\ Overtakes(x, t) /\ UNCHANGED edits

LEMMA CommitImportCommits ==
  ASSUME ImportsInv, NEW x \in Importers, CommitImport(x)
  PROVE  \E t, ids : Commits(x, t, ids)
<1>1. PICK t : t = importing[x]
  OBVIOUS
<1>2. t.busy /\ ~ cannot_create(t) /\ Importing(t)
  BY <1>1, BusyImport DEF CommitImport
<1>3. PICK ids \in [ t.rows -> unused ] :
        /\ \A i, j \in t.rows : ids[i] = ids[j] => i = j
        /\ things' = PutAll(things, new_things(batches[t.b], t.rows, ids))
        /\ batches' = [ batches EXCEPT ![t.b] = written(@, t, ids) ]
  BY <1>1 DEF CommitImport
<1>4. Overtakes(x, t) /\ UNCHANGED edits
  BY <1>1 DEF CommitImport, Overtakes
<1>5. batches[t.b].entity = "CONTACTS" => t.rows = {}
  BY <1>2 DEF cannot_create
<1> QED
  BY <1>1, <1>2, <1>3, <1>4, <1>5 DEF Commits

\* What is made of the rows are things of the entity, under new ids.
LEMMA MakesThings ==
  ASSUME ImportsInv, NEW x \in Importers, NEW t, NEW ids, Commits(x, t, ids)
  PROVE  /\ ids \in [ t.rows -> Ids ]
         /\ IsTable(things', Ids, Thing)
         /\ \A id \in DOMAIN things : id \in DOMAIN things' /\ things'[id] = things[id]
         /\ \A i \in t.rows :
              /\ ids[i] \notin DOMAIN things /\ ids[i] \in DOMAIN things'
              /\ things'[ids[i]].entity = batches[t.b].entity
<1>1. ids \in [ t.rows -> unused ] /\ things' = PutAll(things, new_things(batches[t.b], t.rows, ids))
  BY DEF Commits
<1>2. \A i \in t.rows : ids[i] \in Ids /\ ids[i] \notin DOMAIN things
  BY <1>1 DEF unused
<1>3. t.b \in DOMAIN batches /\ t.rows \subseteq committable_rows(batches[t.b])
  BY DEF Commits, Importing, ImportOf
<1>4. PICK batch : batch = batches[t.b]
  OBVIOUS
<1>5. batch \in ImportBatch /\ \A i \in t.rows : batch.rows[i].sheet \in SheetRow
  BY <1>3, <1>4 DEF ImportsInv, BatchOK
<1>6. PICK new : new = new_things(batch, t.rows, ids)
  OBVIOUS
<1>7. DOMAIN new = { ids[i] : i \in t.rows }
  BY <1>6 DEF new_things
<1>8. ASSUME NEW id \in DOMAIN new
      PROVE  new[id] \in Thing /\ new[id].entity = batch.entity
  <2>1. PICK i : i = CHOOSE j \in t.rows : ids[j] = id
    OBVIOUS
  <2>2. i \in t.rows
    BY <1>7, <2>1
  <2>3. new[id] = made_of(batch.entity, batch.rows[i].sheet)
    BY <1>6, <1>7, <2>1 DEF new_things
  <2>4. batch.rows[i].sheet \in SheetRow /\ batch.entity \in ImportEntity
    BY <1>5, <2>2 DEF ImportBatch
  <2> QED
    BY <2>3, <2>4 DEF made_of, Thing, SheetRow
<1>9. things' = PutAll(things, new)
  BY <1>1, <1>4, <1>6
<1>10. DOMAIN things' = DOMAIN things \cup DOMAIN new
       /\ \A id \in DOMAIN things' :
             things'[id] = IF id \in DOMAIN new THEN new[id] ELSE things[id]
  BY <1>9 DEF PutAll
<1>11. IsTable(things', Ids, Thing)
  <2>1. things' = [ id \in DOMAIN things' |-> things'[id] ]
    BY <1>9 DEF PutAll
  <2> QED
    BY <1>2, <1>7, <1>8, <1>10, <2>1 DEF ImportsInv, IsTable
<1>12. ids \in [ t.rows -> Ids ]
  BY <1>1 DEF unused
<1> QED
  BY <1>2, <1>4, <1>7, <1>8, <1>10, <1>11, <1>12

\* A request that loaded a batch another one writes is overtaken by it.
LEMMA OvertakenGoOn ==
  ASSUME ImportsInv, NEW x \in Importers, NEW t, NEW ids, Commits(x, t, ids),
         NEW y \in Importers
  PROVE  importing'[y] = NoImport \/ Importing(importing[y])'
<1>1. t.b \in DOMAIN batches
  BY DEF Commits, Importing, ImportOf
<1>2. PICK batch, new : batch = batches[t.b] /\ new = written(batch, t, ids)
  OBVIOUS
<1>3. batches' = [ batches EXCEPT ![t.b] = new ]
  BY <1>2 DEF Commits
<1>4. t.status \in { "COMMITTED", "DISCARDED" } /\ t.rows \subseteq committable_rows(batch)
  BY <1>2 DEF Commits, Importing, ImportOf
<1>5. batch \in ImportBatch /\ ids \in [ t.rows -> Ids ]
  BY <1>1, <1>2, MakesThings DEF ImportsInv, BatchOK
<1>6. committable_rows(new) = committable_rows(batch)
  BY <1>2, <1>4, <1>5, WrittenBatch
<1>7. PICK u : u = importing[y]
  OBVIOUS
<1>8. CASE y = x \/ u = NoImport
  BY <1>7, <1>8 DEF Commits, Overtakes, NoImport
<1>9. CASE y # x /\ u # NoImport
  <2>1. Importing(u)
    BY <1>7, <1>9 DEF ImportsInv
  <2>2. u.b \in DOMAIN batches /\ u.rows \subseteq committable_rows(batches[u.b])
        /\ (u.status = "DISCARDED" => u.rows = {}) /\ u.busy /\ ImportOf(u)
    BY <2>1 DEF Importing, ImportOf
  <2>3. u.b \in DOMAIN batches' /\ committable_rows(batches[u.b])' = committable_rows(batches[u.b])
    <3>1. u.b \in DOMAIN batches'
      BY <1>3, <2>2
    <3>2. u.b = t.b => batches'[u.b] = new
      BY <1>1, <1>3
    <3>3. u.b # t.b => batches'[u.b] = batches[u.b]
      BY <1>3, <2>2
    <3> QED
      BY <1>2, <1>6, <3>1, <3>2, <3>3 DEF committable_rows
  <2>4. PICK v : v = IF u.b = t.b THEN [ u EXCEPT !.late = TRUE ] ELSE u
    OBVIOUS
  <2>5. importing'[y] = v
    BY <1>7, <1>9, <2>2, <2>4 DEF Commits, Overtakes
  <2>6. v.b = u.b /\ v.rows = u.rows /\ v.status = u.status
    BY <2>1, <2>4 DEF Importing
  <2>7. ImportOf(v)'
    <3>1. CASE u.b = t.b
      <4>1. v.late
        BY <2>1, <2>4, <3>1 DEF Importing
      <4> QED
        BY <2>2, <2>3, <2>6, <4>1 DEF ImportOf
    <3>2. CASE u.b # t.b
      <4>1. v = u /\ batches'[u.b] = batches[u.b]
        BY <1>3, <2>2, <2>4, <3>2
      <4> QED
        BY <2>2, <2>3, <4>1 DEF ImportOf
    <3> QED
      BY <3>1, <3>2
  <2>8. \E b, status, rows, late :
          /\ v = [ busy |-> TRUE, b |-> b, status |-> status, rows |-> rows, late |-> late ]
          /\ status \in { "COMMITTED", "DISCARDED" } /\ late \in BOOLEAN
    <3>1. PICK b, status, rows, late :
            /\ u = [ busy |-> TRUE, b |-> b, status |-> status, rows |-> rows, late |-> late ]
            /\ status \in { "COMMITTED", "DISCARDED" } /\ late \in BOOLEAN
      BY <2>1 DEF Importing
    <3>2. CASE u.b = t.b
      <4>1. v = [ u EXCEPT !.late = TRUE ]
        BY <2>4, <3>2
      <4>2. v = [ busy |-> TRUE, b |-> b, status |-> status, rows |-> rows, late |-> TRUE ]
        BY <3>1, <4>1
      <4> QED
        BY <3>1, <4>2
    <3>3. CASE u.b # t.b
      BY <2>4, <3>1, <3>3
    <3> QED
      BY <3>2, <3>3
  <2>9. Importing(v)'
    BY <2>7, <2>8 DEF Importing
  <2>10. \E w : w = importing'[y] /\ Importing(w)'
    BY <2>5, <2>9
  <2> QED
    BY <2>5, <2>9, <2>10 DEF Importing
<1> QED
  BY <1>8, <1>9

LEMMA CommitImportKeeps ==
  ASSUME ImportsInv, NEW x \in Importers, CommitImport(x)
  PROVE  ImportsInv'
<1>1. PICK t, ids : Commits(x, t, ids)
  BY CommitImportCommits
<1>2. PICK batch, new : batch = batches[t.b] /\ new = written(batch, t, ids)
  OBVIOUS
<1>3. batches' = [ batches EXCEPT ![t.b] = new ]
  BY <1>1, <1>2 DEF Commits
<1>4. /\ t.status \in { "COMMITTED", "DISCARDED" } /\ t.rows \subseteq committable_rows(batch)
      /\ t.b \in DOMAIN batches
  BY <1>1, <1>2 DEF Commits, Importing, ImportOf
<1>5. BatchOK(batch, things) /\ batch \in ImportBatch /\ ids \in [ t.rows -> Ids ]
  BY <1>1, <1>2, <1>4, MakesThings DEF ImportsInv, BatchOK
<1>6. new \in ImportBatch /\ new.entity = batch.entity
      /\ committable_rows(new) = committable_rows(batch)
      /\ MadeRows(new) = MadeRows(batch) \cup t.rows
  BY <1>2, <1>4, <1>5, WrittenBatch
<1>7. \A i \in DOMAIN batch.rows :
        /\ new.rows[i].sheet = batch.rows[i].sheet /\ new.rows[i].state = batch.rows[i].state
        /\ new.rows[i].created = IF i \in t.rows THEN ids[i] ELSE batch.rows[i].created
  BY <1>2, <1>4, <1>5, WrittenBatch
<1>8. \A id \in DOMAIN things : id \in DOMAIN things' /\ things'[id] = things[id]
  BY <1>1, MakesThings
<1>9. \A i \in t.rows : ids[i] \in DOMAIN things' /\ things'[ids[i]].entity = batch.entity
  BY <1>1, <1>2, MakesThings
<1>10. BatchOK(new, things')
  <2>1. \A i \in committable_rows(new) : new.rows[i].sheet \in SheetRow
    BY <1>5, <1>6, <1>7 DEF BatchOK, committable_rows
  <2>2. ASSUME NEW i \in MadeRows(new)
        PROVE  new.rows[i].state = "VALID" /\ RowMade(new, i, things')
    <3>1. i \in DOMAIN batch.rows
      BY <1>4, <1>6, <2>2 DEF MadeRows, committable_rows
    <3>2. CASE i \in t.rows
      <4>1. batch.rows[i].state = "VALID" /\ batch.entity # "CONTACTS"
        BY <1>1, <1>2, <1>4, <3>2 DEF committable_rows, Commits
      <4> QED
        BY <1>6, <1>7, <1>9, <3>1, <3>2, <4>1 DEF RowMade
    <3>3. CASE i \notin t.rows
      <4>1. i \in MadeRows(batch)
        BY <1>6, <2>2, <3>3
      <4>2. batch.rows[i].state = "VALID" /\ RowMade(batch, i, things)
        BY <1>5, <4>1 DEF BatchOK
      <4> QED
        BY <1>6, <1>7, <1>8, <3>1, <3>3, <4>2 DEF RowMade
    <3> QED
      BY <3>2, <3>3
  <2> QED
    BY <1>6, <2>1, <2>2 DEF BatchOK
<1>11. ASSUME NEW b \in DOMAIN batches' PROVE BatchOK(batches'[b], things')
  <2>1. CASE b = t.b
    BY <1>3, <1>4, <1>10, <2>1
  <2>2. CASE b # t.b
    <3>1. b \in DOMAIN batches /\ batches'[b] = batches[b]
      BY <1>3, <2>2
    <3>2. BatchOK(batches[b], things')
      BY <1>8, <3>1, BatchStaysOK DEF ImportsInv
    <3> QED
      BY <3>1, <3>2
  <2> QED
    BY <2>1, <2>2
<1>12. IsTable(batches', Batches, ImportBatch)
  BY <1>3, <1>4, <1>6 DEF ImportsInv, IsTable
<1>13. IsTable(things', Ids, Thing)
  BY <1>1, MakesThings
<1>14. importing' = [ y \in Importers |-> importing'[y] ]
  BY <1>1 DEF Commits, Overtakes
<1>15. \A y \in Importers : importing'[y] = NoImport \/ Importing(importing[y])'
  BY <1>1, OvertakenGoOn
<1>16. edits' \in 0..MaxChanges
  BY <1>1 DEF Commits, ImportsInv
<1> QED
  BY <1>11, <1>12, <1>13, <1>14, <1>15, <1>16 DEF ImportsInv

LEMMA ImportsPreserved == ImportsInv /\ [ImportsNext]_staging => ImportsInv'
<1> SUFFICES ASSUME ImportsInv, [ImportsNext]_staging PROVE ImportsInv'
  OBVIOUS
<1>1. ASSUME UNCHANGED staging PROVE ImportsInv'
  <2>1. UNCHANGED << things, batches, importing, edits >>
    BY <1>1 DEF staging
  <2>2. /\ importing' = [ x \in Importers |-> importing'[x] ]
        /\ \A x \in Importers : importing'[x] = NoImport \/ Importing(importing[x])'
    BY <2>1, RequestsGoOn
  <2> QED
    BY <2>1, <2>2 DEF ImportsInv
<1> QED
  BY <1>1, StageKeeps, StartImportKeeps, CommitImportKeeps, FailKeeps, AddKeeps,
     AlterKeeps, RemoveKeeps DEF ImportsNext

LEMMA ImportsInvariant == ImportsSpec => []ImportsInv
  BY ImportsBegin, ImportsPreserved, PTL DEF ImportsSpec

\* Accounts, contacts, projects, requirements, resources and import rows have
\* their columns' types, and the thing a row tells it made is there and of the
\* batch's entity (services/importing.py, models/platform.py): nobody's DELETE
\* takes away what was imported, for only contacts are deleted for good and no
\* contact is ever imported.
THEOREM ImportsKeepTypes == ImportsSpec => []ImportsTypeOK
  BY ImportsHaveTypes, ImportsInvariant, PTL

\* A batch that is new was staged.
LEMMA NewBatchesAreStaged ==
  ASSUME ImportsInv, [ImportsNext]_staging, NEW b \in DOMAIN batches' \ DOMAIN batches
  PROVE  \E entity \in ImportEntity : \E file \in Files[entity] :
           b \in Batches /\ Stage(b, entity, file)
<1>1. ASSUME NEW c \in Batches, NEW entity \in ImportEntity, NEW file \in Files[entity],
             Stage(c, entity, file)
      PROVE  b = c
  BY <1>1 DEF Stage, Put
<1>2. ASSUME NEW x \in Importers, CommitImport(x) PROVE FALSE
  BY <1>2, CommitImportCommits DEF Commits
<1>3. UNCHANGED batches => FALSE
  OBVIOUS
<1> QED
  BY <1>1, <1>2, <1>3
     DEF ImportsNext, staging, StartCommitBatch, StartDiscardBatch, Imports, FailImport,
         Add, Alter, Remove, ByHand

\* A thing that stands as the row said is what _find_existing finds for it.
LEMMA StandingIsFound ==
  ASSUME NEW thing \in Thing, NEW row \in SheetRow, stands(thing, row),
         thing.entity # "CONTACTS"
  PROVE  is_match(thing.entity, row, thing)
<1>1. PICK plain : plain = [ thing EXCEPT !.gone = FALSE ]
  OBVIOUS
<1>2. plain = made_of(thing.entity, row) /\ plain.name = thing.name /\ plain.mark = thing.mark
  BY <1>1 DEF stands, Thing
<1>3. thing.name = row.name
  BY <1>2 DEF made_of
<1>4. has_mark(thing.entity) => thing.mark = row.mark
  BY <1>2 DEF made_of
<1>5. thing.gone => thing.entity \in { "CUSTOMERS", "PROJECTS" }
  BY DEF stands
<1>6. thing.entity \in ImportEntity
  BY DEF Thing
<1> QED
  BY <1>3, <1>4, <1>5, <1>6 DEF is_match, same_person, has_mark, ImportEntity

\* A row that repeats one an earlier import made something of is staged as a
\* duplicate while that thing stands as the row said (_find_existing), for every
\* entity and whatever is imported, edited and removed in between.
THEOREM ImportsFindWhatTheyMade == ImportsSpec => ReimportMakesNothing
<1> DEFINE A == \A b \in DOMAIN batches' \ DOMAIN batches, c \in DOMAIN batches :
                  batches'[b].entity = batches[c].entity =>
                    \A i \in committable_rows(batches'[b]), j \in made(c) :
                      LET row == batches[c].rows[j].sheet IN
                      stands(things[batches[c].rows[j].created], row) =>
                        batches'[b].rows[i].sheet # row
<1>1. ImportsInv /\ [ImportsNext]_staging => A
  <2> SUFFICES ASSUME ImportsInv, [ImportsNext]_staging,
                      NEW b \in DOMAIN batches' \ DOMAIN batches, NEW c \in DOMAIN batches,
                      batches'[b].entity = batches[c].entity,
                      NEW i \in committable_rows(batches'[b]), NEW j \in made(c),
                      stands(things[batches[c].rows[j].created], batches[c].rows[j].sheet),
                      batches'[b].rows[i].sheet = batches[c].rows[j].sheet
               PROVE  FALSE
    OBVIOUS
  <2>1. PICK entity \in ImportEntity : \E file \in Files[entity] :
          b \in Batches /\ Stage(b, entity, file)
    BY NewBatchesAreStaged
  <2>2. PICK row : row = batches'[b].rows[i].sheet
    OBVIOUS
  <2>3. batches'[b].entity = entity /\ row \in SheetRow /\ ~ existing(entity, row)
    BY <2>1, <2>2, StagedBatch
  <2>4. PICK id : id = batches[c].rows[j].created
    OBVIOUS
  <2>5. j \in MadeRows(batches[c])
    BY DEF made, MadeRows
  <2>6. RowMade(batches[c], j, things)
    BY <2>5 DEF ImportsInv, BatchOK
  <2>7. id \in DOMAIN things /\ things[id].entity = entity /\ entity # "CONTACTS"
    BY <2>3, <2>4, <2>6 DEF RowMade
  <2>8. things[id] \in Thing /\ stands(things[id], row)
    BY <2>2, <2>4, <2>7 DEF ImportsInv, IsTable
  <2>9. is_match(entity, row, things[id])
    BY <2>3, <2>7, <2>8, StandingIsFound
  <2> QED
    BY <2>3, <2>7, <2>9 DEF existing
<1>2. ImportsSpec => [][A]_staging
  BY <1>1, ImportsInvariant, PTL DEF ImportsSpec
<1> QED
  BY <1>2 DEF ReimportMakesNothing

\* What a batch says it did, and what no two batches may both say.
SaysTrue(batch) ==
  IF batch.status = "COMMITTED" THEN Cardinality(MadeRows(batch)) = batch.committed_rows
  ELSE MadeRows(batch) = {}

TellApart(bs) ==
  \A b, c \in DOMAIN bs : \A i \in MadeRows(bs[b]), j \in MadeRows(bs[c]) :
    bs[b].rows[i].created = bs[c].rows[j].created => b = c /\ i = j

LEMMA AccountedSays ==
  /\ Accounted <=> (\A b \in DOMAIN batches : SaysTrue(batches[b])) /\ TellApart(batches)
  /\ Accounted' <=> (\A b \in DOMAIN batches' : SaysTrue(batches'[b])) /\ TellApart(batches')
  BY DEF Accounted, SaysTrue, TellApart, MadeRows, made

\* Staged, committed or discarded without being overtaken, a batch says what it
\* did and is not written again.
LEMMA StagingAccounts ==
  ASSUME ImportsInv, NEW b \in Batches, NEW entity \in ImportEntity, NEW file \in Files[entity],
         Stage(b, entity, file)
  PROVE  /\ Accounted => Accounted'
         /\ \A c \in DOMAIN batches : batches'[c] = batches[c]
<1>1. DOMAIN batches' = DOMAIN batches \cup { b }
      /\ \A c \in DOMAIN batches : batches'[c] = batches[c]
  BY StagedBatch DEF Put
<1>2. batches'[b].status = "STAGED" /\ MadeRows(batches'[b]) = {}
  BY StagedBatch
<1>3. SaysTrue(batches'[b])
  BY <1>2 DEF SaysTrue
<1>4. ASSUME TellApart(batches) PROVE TellApart(batches')
  <2> SUFFICES ASSUME NEW c \in DOMAIN batches', NEW d \in DOMAIN batches',
                      NEW i \in MadeRows(batches'[c]), NEW j \in MadeRows(batches'[d]),
                      batches'[c].rows[i].created = batches'[d].rows[j].created
               PROVE  c = d /\ i = j
    BY DEF TellApart
  <2>1. c # b /\ d # b
    BY <1>2
  <2> QED
    BY <1>1, <1>4, <2>1 DEF TellApart
<1> QED
  BY <1>1, <1>3, <1>4, AccountedSays

LEMMA CommitAccounts ==
  ASSUME ImportsInv, NEW x \in Importers, CommitImport(x), NoneOvertaken
  PROVE  /\ Accounted => Accounted'
         /\ \A b \in DOMAIN batches :
              batches[b].status # "STAGED" => batches'[b] = batches[b]
<1>1. PICK t, ids : Commits(x, t, ids)
  BY CommitImportCommits
<1>2. PICK batch, new : batch = batches[t.b] /\ new = written(batch, t, ids)
  OBVIOUS
<1>3. batches' = [ batches EXCEPT ![t.b] = new ]
  BY <1>1, <1>2 DEF Commits
<1>4. t = importing[x] /\ Importing(t)
  BY <1>1 DEF Commits
<1>5. t.status \in { "COMMITTED", "DISCARDED" } /\ t.rows \subseteq committable_rows(batch)
      /\ t.b \in DOMAIN batches /\ (t.status = "DISCARDED" => t.rows = {})
  BY <1>2, <1>4 DEF Importing, ImportOf
<1>6. ~ t.late
  <2>1. importing'[x] = NoImport
    BY <1>1 DEF Commits, Overtakes
  <2>2. Ends(x)
    BY <1>4, <2>1 DEF Ends, NoImport, Importing
  <2> QED
    BY <1>4, <2>2 DEF NoneOvertaken
<1>7. /\ batch.status # "COMMITTED"
      /\ t.status = "COMMITTED" => batch.status = "STAGED"
  BY <1>2, <1>4, <1>6 DEF Importing, ImportOf
<1>8. BatchOK(batch, things) /\ batch \in ImportBatch /\ ids \in [ t.rows -> Ids ]
  BY <1>1, <1>2, <1>5, MakesThings DEF ImportsInv, BatchOK
<1>9. /\ MadeRows(new) = MadeRows(batch) \cup t.rows /\ new.status = t.status
      /\ new.committed_rows = IF t.status = "COMMITTED" THEN Cardinality(t.rows)
                              ELSE batch.committed_rows
      /\ new \in ImportBatch /\ new.entity = batch.entity
      /\ t.rows = {} => new.rows = batch.rows
  BY <1>2, <1>5, <1>8, WrittenBatch
<1>10. ASSUME batch.status # "STAGED" PROVE new = batch
  <2>1. t.status = "DISCARDED" /\ batch.status = "DISCARDED"
    BY <1>5, <1>7, <1>8, <1>10 DEF ImportBatch, ImportStatus
  <2> QED
    BY <1>5, <1>8, <1>9, <2>1 DEF ImportBatch
<1>11. \A b \in DOMAIN batches : batches[b].status # "STAGED" => batches'[b] = batches[b]
  BY <1>2, <1>3, <1>5, <1>10
<1>12. ASSUME Accounted PROVE Accounted'
  <2>1. \A b \in DOMAIN batches : SaysTrue(batches[b])
    BY <1>12, AccountedSays
  <2>2. TellApart(batches)
    BY <1>12, AccountedSays
  <2>3. MadeRows(batch) = {}
    BY <1>2, <1>5, <1>7, <2>1 DEF SaysTrue
  <2>4. MadeRows(new) = t.rows
    BY <1>9, <2>3
  <2>5. SaysTrue(new)
    BY <1>5, <1>9, <2>4 DEF SaysTrue
  <2>6. \A b \in DOMAIN batches' : SaysTrue(batches'[b])
    BY <1>3, <1>5, <2>1, <2>5
  <2>7. \A i \in t.rows : new.rows[i].created = ids[i]
    <3>1. \A i \in t.rows : i \in DOMAIN batch.rows
      BY <1>5 DEF committable_rows
    <3> QED
      BY <1>2, <1>5, <1>8, <3>1, WrittenBatch
  <2>8. \A i \in t.rows : ids[i] \notin DOMAIN things
    BY <1>1, MakesThings
  <2>9. \A b \in DOMAIN batches : \A i \in MadeRows(batches[b]) :
          batches[b].rows[i].created \in DOMAIN things
    BY DEF ImportsInv, BatchOK, RowMade
  <2>10. \A i, j \in t.rows : ids[i] = ids[j] => i = j
    BY <1>1 DEF Commits
  <2>11. TellApart(batches')
    <3> SUFFICES ASSUME NEW b \in DOMAIN batches', NEW c \in DOMAIN batches',
                        NEW i \in MadeRows(batches'[b]), NEW j \in MadeRows(batches'[c]),
                        batches'[b].rows[i].created = batches'[c].rows[j].created
                 PROVE  b = c /\ i = j
      BY DEF TellApart
    <3>1. /\ b # t.b => b \in DOMAIN batches /\ batches'[b] = batches[b]
          /\ c # t.b => c \in DOMAIN batches /\ batches'[c] = batches[c]
          /\ batches'[t.b] = new
      BY <1>3, <1>5
    <3>2. CASE b = t.b /\ c = t.b
      BY <2>4, <2>7, <2>10, <3>1, <3>2
    <3>3. CASE b # t.b /\ c = t.b
      BY <2>4, <2>7, <2>8, <2>9, <3>1, <3>3
    <3>4. CASE b = t.b /\ c # t.b
      BY <2>4, <2>7, <2>8, <2>9, <3>1, <3>4
    <3>5. CASE b # t.b /\ c # t.b
      BY <2>2, <3>1, <3>5 DEF TellApart
    <3> QED
      BY <3>2, <3>3, <3>4, <3>5
  <2> QED
    BY <2>6, <2>11, AccountedSays
<1> QED
  BY <1>11, <1>12

\* Unless requests on the same batch overlap, a committed batch made as many
\* things as it says and any other none, no two rows tell of the same thing, and a
\* batch that was committed or discarded stays as it is (commit, discard).
THEOREM OverlapsAloneMiscount == ImportsSpec => ImportsAreAccounted
<1> DEFINE A == NoneOvertaken =>
                  /\ Accounted => Accounted'
                  /\ \A b \in DOMAIN batches :
                       batches[b].status # "STAGED" => batches'[b] = batches[b]
<1>1. ImportsInv /\ [ImportsNext]_staging => A
  <2> SUFFICES ASSUME ImportsInv, [ImportsNext]_staging, NoneOvertaken
               PROVE  /\ Accounted => Accounted'
                      /\ \A b \in DOMAIN batches :
                           batches[b].status # "STAGED" => batches'[b] = batches[b]
    OBVIOUS
  <2>1. UNCHANGED batches => (Accounted => Accounted')
    BY AccountedSays
  <2>2. \/ UNCHANGED batches
        \/ \E x \in Importers : CommitImport(x)
        \/ \E b \in Batches, entity \in ImportEntity : \E file \in Files[entity] :
             Stage(b, entity, file)
    BY DEF ImportsNext, staging, StartCommitBatch, StartDiscardBatch, Imports, FailImport,
           Add, Alter, Remove, ByHand
  <2> QED
    BY <2>1, <2>2, CommitAccounts, StagingAccounts
<1>2. ImportsSpec => [][A]_staging
  BY <1>1, ImportsInvariant, PTL DEF ImportsSpec
<1> QED
  BY <1>2 DEF ImportsAreAccounted

-----------------------------------------------------------------------------
(* Consultants and their documents (module Talent).                        *)

\* A request on consultants or documents, whatever it is about to write.
AskedShape(t) ==
  /\ t = [ pc |-> t.pc, inserts |-> t.inserts, stores |-> t.stores,
           r_set |-> t.r_set, d_set |-> t.d_set, removes |-> t.removes,
           late |-> t.late ]
  /\ t.pc \in { "inserting", "ready", "failing" }

\* It inserts at most one consultant, whose id is new and whose code is one more
\* than the rows there were, or less; it changes no code.
AskedInserts(t) ==
  /\ DOMAIN t.inserts \subseteq Consultants \ DOMAIN resources
  /\ \A r, s \in DOMAIN t.inserts : r = s
  /\ \A r \in DOMAIN t.inserts :
       /\ t.inserts[r] \in ResourceRow
       /\ t.inserts[r].code <= Cardinality(DOMAIN resources) + 1

AskedStores(t) ==
  /\ DOMAIN t.stores \subseteq Documents
  /\ \A d \in DOMAIN t.stores :
       /\ t.stores[d] \in DocumentRow
       /\ t.stores[d].resource \in DOMAIN resources \cup DOMAIN t.inserts

AskedColumns(t) ==
  /\ \A r \in DOMAIN t.r_set : \A c \in DOMAIN t.r_set[r] :
       \/ c = "visa" /\ t.r_set[r][c] \in VisaStatus
       \/ c = "archived" /\ t.r_set[r][c] \in BOOLEAN
  /\ \A d \in DOMAIN t.d_set : \A c \in DOMAIN t.d_set[d] :
       c = "expiry" /\ t.d_set[d][c] \in Expiries \cup { NoDate }

Asked(t) == AskedShape(t) /\ AskedInserts(t) /\ AskedStores(t) /\ AskedColumns(t)

\* The codes go no further than the rows, and no two requests insert the same id.
TalentInv ==
  /\ TalentTypeOK
  /\ \A r \in DOMAIN resources : resources[r].code <= Cardinality(DOMAIN resources)
  /\ DOMAIN request = Recruiters
  /\ \A x \in Recruiters : request[x] = Unasked \/ Asked(request[x])
  /\ \A x, y \in Recruiters :
       x # y /\ request[x] # Unasked /\ request[y] # Unasked =>
         DOMAIN request[x].inserts \cap DOMAIN request[y].inserts = {}

\* There are finitely many consultants, and so many rows at most.
LEMMA RowsAreCounted ==
  ASSUME NEW S \in SUBSET Consultants
  PROVE  /\ IsFiniteSet(S) /\ Cardinality(S) \in Nat
         /\ Cardinality(Consultants) \in Nat
         /\ Cardinality(S) <= Cardinality(Consultants)
         /\ \A r \in Consultants \ S : Cardinality(S \cup { r }) = Cardinality(S) + 1
<1>1. IsFiniteSet(Consultants)
  BY TalentInputs
<1>2. IsFiniteSet(S) /\ Cardinality(S) <= Cardinality(Consultants)
  BY <1>1, FS_Subset
<1>3. Cardinality(S) \in Nat /\ Cardinality(Consultants) \in Nat
  BY <1>1, <1>2, FS_CardinalityType
<1>4. ASSUME NEW r \in Consultants \ S
      PROVE  Cardinality(S \cup { r }) = Cardinality(S) + 1
  BY <1>2, FS_AddElement
<1>5. QED
  BY <1>2, <1>3, <1>4

\* The next code is that of no row.
LEMMA NextCodeIsNew ==
  ASSUME TalentInv
  PROVE  NextCodeIsFree /\ next_code \in Nat
<1>1. DOMAIN resources \in SUBSET Consultants
  BY DEF TalentInv, TalentTypeOK, IsTable
<1> DEFINE n == Cardinality(DOMAIN resources)
<1>2. n \in Nat /\ Cardinality(Consultants) \in Nat
  BY <1>1, RowsAreCounted
<1>3. \A r \in DOMAIN resources : resources[r].code \in Nat /\ resources[r].code <= n
  BY <1>2 DEF TalentInv, TalentTypeOK, IsTable, ResourceRow
<1>4. next_code = n + 1
  BY DEF next_code
<1> HIDE DEF n
<1>5. next_code \notin { resources[r].code : r \in DOMAIN resources } \ { 0 }
  BY <1>2, <1>3, <1>4
<1>6. QED
  BY <1>2, <1>4, <1>5 DEF NextCodeIsFree, codes

\* The columns that a rewrite of one column changes.
LEMMA AlteredResource ==
  ASSUME NEW was \in ResourceRow, NEW visa \in VisaStatus
  PROVE  /\ \A c \in DOMAIN altered(was, [ was EXCEPT !.visa = visa ]) :
              /\ c = "visa"
              /\ altered(was, [ was EXCEPT !.visa = visa ])[c] \in VisaStatus
         /\ \A c \in DOMAIN altered(was, [ was EXCEPT !.archived = TRUE ]) :
              /\ c = "archived"
              /\ altered(was, [ was EXCEPT !.archived = TRUE ])[c] \in BOOLEAN
  BY DEF altered, ResourceRow

\* A new expiry alters that column at most.
LEMMA AlteredDocument ==
  ASSUME NEW was \in DocumentRow, NEW expiry \in Expiries
  PROVE  \A c \in DOMAIN altered(was, [ was EXCEPT !.expiry = expiry ]) :
           /\ c = "expiry"
           /\ altered(was, [ was EXCEPT !.expiry = expiry ])[c] \in Expiries
  BY DEF altered, DocumentRow

\* A visa that is found out from documents is a visa status.
LEMMA RefreshedVisa ==
  ASSUME NEW docs, NEW r
  PROVE  \A k \in DOMAIN refreshed(docs, r) : \A c \in DOMAIN refreshed(docs, r)[k] :
           c = "visa" /\ refreshed(docs, r)[k][c] \in VisaStatus
<1>1. derive_visa_status(docs, r) \in VisaStatus
  BY DEF derive_visa_status, VisaStatus
<1> DEFINE visa == derive_visa_status(docs, r)
<1>2. refreshed(docs, r) =
        Row(r, IF resources[r].visa = visa THEN EmptyTable ELSE [ visa |-> visa ])
  BY DEF refreshed
<1> HIDE DEF visa
<1>3. QED
  BY <1>1, <1>2 DEF Row, EmptyTable, visa

\* A request that is asked for keeps its shape when it is overtaken, or when its
\* row has been inserted.
LEMMA AskedOn ==
  ASSUME NEW t, AskedShape(t)
  PROVE  /\ t # Unasked
         /\ LET u == [ t EXCEPT !.late = TRUE ] IN
            AskedShape(u) /\ u.inserts = t.inserts /\ u.stores = t.stores
              /\ u.r_set = t.r_set /\ u.d_set = t.d_set
         /\ LET u == [ t EXCEPT !.pc = "ready" ] IN
            AskedShape(u) /\ u.inserts = t.inserts /\ u.stores = t.stores
              /\ u.r_set = t.r_set /\ u.d_set = t.d_set
<1>1. PICK pc, inserts, stores, r_set, d_set, removes, late :
        /\ t = [ pc |-> pc, inserts |-> inserts, stores |-> stores, r_set |-> r_set,
                 d_set |-> d_set, removes |-> removes, late |-> late ]
        /\ pc \in { "inserting", "ready", "failing" }
  BY DEF AskedShape
<1>2. t # Unasked
  <2>1. t.pc \in { "inserting", "ready", "failing" }
    BY DEF AskedShape
  <2>2. Unasked.pc = "idle"
    BY DEF Unasked
  <2>3. QED
    BY <2>1, <2>2
<1>3. LET u == [ t EXCEPT !.late = TRUE ] IN
      AskedShape(u) /\ u.inserts = t.inserts /\ u.stores = t.stores
        /\ u.r_set = t.r_set /\ u.d_set = t.d_set
  <2>1. PICK yes : yes = TRUE
    OBVIOUS
  <2> DEFINE u == [ t EXCEPT !.late = yes ]
  <2>2. AskedShape(u) /\ u.inserts = t.inserts /\ u.stores = t.stores
          /\ u.r_set = t.r_set /\ u.d_set = t.d_set
    BY <1>1 DEF AskedShape
  <2>3. u = [ t EXCEPT !.late = TRUE ]
    BY <2>1
  <2> HIDE DEF u
  <2>4. QED
    BY <2>2, <2>3
<1>4. LET u == [ t EXCEPT !.pc = "ready" ] IN
      AskedShape(u) /\ u.inserts = t.inserts /\ u.stores = t.stores
        /\ u.r_set = t.r_set /\ u.d_set = t.d_set
  BY <1>1 DEF AskedShape
<1>5. QED
  BY <1>2, <1>3, <1>4

\* While the tables stay as they are, the invariant is about the requests.
LEMMA RequestsMove ==
  ASSUME TalentInv, objects' \subseteq Documents, day' \in 0..LastDay,
         resources' = resources, documents' = documents,
         DOMAIN request' = Recruiters,
         \A x \in Recruiters : request'[x] = Unasked \/ Asked(request'[x]),
         \A x, y \in Recruiters :
           x # y /\ request'[x] # Unasked /\ request'[y] # Unasked =>
             DOMAIN request'[x].inserts \cap DOMAIN request'[y].inserts = {}
  PROVE  TalentInv'
<1>1. TalentTypeOK'
  BY DEF TalentInv, TalentTypeOK
<1>2. \A x \in Recruiters : request'[x] = Unasked \/ Asked(request[x])'
  BY DEF Asked, AskedShape, AskedInserts, AskedStores, AskedColumns
<1>3. (\A r \in DOMAIN resources : resources[r].code <= Cardinality(DOMAIN resources))'
  BY DEF TalentInv
<1>4. QED
  BY <1>1, <1>2, <1>3 DEF TalentInv

\* So it is kept when one more request is asked for.
LEMMA RequestBegins ==
  ASSUME TalentInv, NEW x \in Recruiters, NEW t, Asked(t),
         request[x] = Unasked, request' = [ request EXCEPT ![x] = t ],
         \A y \in Recruiters \ { x } :
           request[y] # Unasked => DOMAIN t.inserts \cap DOMAIN request[y].inserts = {},
         objects' \subseteq Documents, day' = day,
         resources' = resources, documents' = documents
  PROVE  TalentInv'
<1>1. /\ DOMAIN request = Recruiters
      /\ \A y \in Recruiters : request[y] = Unasked \/ Asked(request[y])
      /\ \A y, z \in Recruiters :
           y # z /\ request[y] # Unasked /\ request[z] # Unasked =>
             DOMAIN request[y].inserts \cap DOMAIN request[z].inserts = {}
      /\ day \in 0..LastDay
  BY DEF TalentInv, TalentTypeOK
<1>2. /\ DOMAIN request' = Recruiters /\ request'[x] = t
      /\ \A y \in Recruiters \ { x } : request'[y] = request[y]
  BY <1>1
<1>3. \A y \in Recruiters : request'[y] = Unasked \/ Asked(request'[y])
  BY <1>1, <1>2
<1>4. \A y, z \in Recruiters :
        y # z /\ request'[y] # Unasked /\ request'[z] # Unasked =>
          DOMAIN request'[y].inserts \cap DOMAIN request'[z].inserts = {}
  BY <1>1, <1>2
<1>5. QED
  BY <1>1, <1>2, <1>3, <1>4, RequestsMove

\* An id that is new is that of no row, no file and no request under way.
LEMMA NewIds ==
  ASSUME NEW id, is_new(id)
  PROVE  /\ id \notin DOMAIN resources /\ id \notin DOMAIN documents /\ id \notin objects
         /\ \A y \in Recruiters : request[y] # Unasked =>
              /\ id \notin DOMAIN request[y].inserts
              /\ id \notin DOMAIN request[y].stores
              /\ id \notin request[y].removes
<1> DEFINE mine(y) == { DOMAIN request[y].inserts, DOMAIN request[y].stores,
                        request[y].removes }
           busy == { y \in Recruiters : request[y] # Unasked }
           all == { DOMAIN resources, DOMAIN documents, objects }
                    \cup { UNION mine(y) : y \in busy }
<1>1. id \notin UNION all
  BY DEF is_new, taken
<1>2. \A S \in all : id \notin S
  BY <1>1
<1>3. \A y \in busy : UNION mine(y) \in all
  OBVIOUS
<1> HIDE DEF all
<1>4. \A y \in busy : \A S \in mine(y) : id \notin S
  BY <1>2, <1>3
<1>5. id \notin DOMAIN resources /\ id \notin DOMAIN documents /\ id \notin objects
  BY <1>2 DEF all
<1>6. QED
  BY <1>4, <1>5

\* A request that begins keeps the invariant when what it is about to write does.
LEMMA Beginning ==
  ASSUME TalentInv, NEW x \in Recruiters,
         NEW pc \in { "inserting", "ready", "failing" }, NEW inserts, NEW stores,
         NEW r_set, NEW d_set, NEW removes,
         Begins(x, pc, inserts, stores, r_set, d_set, removes),
         DOMAIN inserts \subseteq Consultants \ DOMAIN resources,
         \A r, s \in DOMAIN inserts : r = s,
         \A r \in DOMAIN inserts :
           /\ inserts[r] \in ResourceRow
           /\ inserts[r].code <= Cardinality(DOMAIN resources) + 1,
         DOMAIN stores \subseteq Documents,
         \A d \in DOMAIN stores :
           /\ stores[d] \in DocumentRow
           /\ stores[d].resource \in DOMAIN resources \cup DOMAIN inserts,
         \A r \in DOMAIN r_set : \A c \in DOMAIN r_set[r] :
           \/ c = "visa" /\ r_set[r][c] \in VisaStatus
           \/ c = "archived" /\ r_set[r][c] \in BOOLEAN,
         \A d \in DOMAIN d_set : \A c \in DOMAIN d_set[d] :
           c = "expiry" /\ d_set[d][c] \in Expiries \cup { NoDate },
         \A y \in Recruiters : request[y] # Unasked =>
           DOMAIN inserts \cap DOMAIN request[y].inserts = {},
         objects' \subseteq Documents, day' = day,
         resources' = resources, documents' = documents
  PROVE  TalentInv'
<1>1. PICK no : no = FALSE
  OBVIOUS
<1>2. PICK t : t = [ pc |-> pc, inserts |-> inserts, stores |-> stores,
                     r_set |-> r_set, d_set |-> d_set, removes |-> removes,
                     late |-> no ]
  OBVIOUS
<1>3. request[x] = Unasked /\ request' = [ request EXCEPT ![x] = t ]
  BY <1>1, <1>2 DEF Begins
<1>4. /\ t.inserts = inserts /\ t.stores = stores /\ t.r_set = r_set /\ t.d_set = d_set
      /\ AskedShape(t)
  BY <1>2 DEF AskedShape
<1>5. Asked(t)
  BY <1>4 DEF Asked, AskedInserts, AskedStores, AskedColumns
<1>6. QED
  BY <1>3, <1>4, <1>5, RequestBegins

\* A request that inserts no consultant and stores no document.
LEMMA BeginningPlainly ==
  ASSUME TalentInv, NEW x \in Recruiters,
         NEW pc \in { "ready", "failing" }, NEW r_set, NEW d_set, NEW removes,
         Begins(x, pc, EmptyTable, EmptyTable, r_set, d_set, removes),
         \A r \in DOMAIN r_set : \A c \in DOMAIN r_set[r] :
           \/ c = "visa" /\ r_set[r][c] \in VisaStatus
           \/ c = "archived" /\ r_set[r][c] \in BOOLEAN,
         \A d \in DOMAIN d_set : \A c \in DOMAIN d_set[d] :
           c = "expiry" /\ d_set[d][c] \in Expiries \cup { NoDate },
         objects' \subseteq Documents, day' = day,
         resources' = resources, documents' = documents
  PROVE  TalentInv'
<1>1. PICK none : none = EmptyTable /\ DOMAIN none = {}
  BY DEF EmptyTable
<1>2. Begins(x, pc, none, none, r_set, d_set, removes)
  BY <1>1
<1>3. QED
  BY <1>1, <1>2, Beginning

\* A new consultant has a code that the rows leave room for.
LEMMA NewConsultant ==
  ASSUME TalentInv, NEW r \in Consultants, is_new(r)
  PROVE  /\ DOMAIN Row(r, new_resource(next_code)) = { r }
         /\ \A s \in { r } : Row(r, new_resource(next_code))[s] \in ResourceRow
         /\ \A s \in { r } : Row(r, new_resource(next_code))[s].code
                               <= Cardinality(DOMAIN resources) + 1
         /\ r \in Consultants \ DOMAIN resources
         /\ \A y \in Recruiters : request[y] # Unasked => r \notin DOMAIN request[y].inserts
<1>1. DOMAIN resources \in SUBSET Consultants
  BY DEF TalentInv, TalentTypeOK, IsTable
<1>2. r \notin DOMAIN resources
      /\ \A y \in Recruiters : request[y] # Unasked => r \notin DOMAIN request[y].inserts
  BY NewIds
<1> DEFINE n == Cardinality(DOMAIN resources)
           most == Cardinality(Consultants)
           code == next_code
<1>3. n \in Nat /\ most \in Nat /\ Cardinality(DOMAIN resources \cup { r }) = n + 1
  BY <1>1, <1>2, RowsAreCounted
<1>4. Cardinality(DOMAIN resources \cup { r }) <= most
  BY <1>1, RowsAreCounted
<1>5. code = n + 1
  BY DEF next_code
<1> HIDE DEF n, most, code
<1>6. code \in 0..most /\ code <= n + 1
  BY <1>3, <1>4, <1>5
<1>7. new_resource(code) \in ResourceRow /\ new_resource(code).code = code
  BY <1>6 DEF new_resource, ResourceRow, VisaStatus, most
<1>8. DOMAIN Row(r, new_resource(code)) = { r }
      /\ Row(r, new_resource(code))[r] = new_resource(code)
  BY DEF Row
<1>9. /\ \A s \in { r } : Row(r, new_resource(code))[s] \in ResourceRow
      /\ \A s \in { r } : Row(r, new_resource(code))[s].code <= n + 1
  BY <1>6, <1>7, <1>8
<1>10. QED
  BY <1>1, <1>2, <1>8, <1>9 DEF n, code

\* POST /resources.
LEMMA CreateResourceStarts ==
  ASSUME TalentInv, NEW x \in Recruiters, NEW r \in Consultants,
         StartCreateResource(x, r)
  PROVE  TalentInv'
<1>1. PICK row : row = Row(r, new_resource(next_code))
  OBVIOUS
<1>2. PICK none : none = EmptyTable /\ DOMAIN none = {}
  BY DEF EmptyTable
<1>3. Begins(x, "inserting", row, none, none, none, {})
      /\ day' = day /\ resources' = resources /\ documents' = documents
      /\ objects' = objects
  BY <1>1, <1>2 DEF StartCreateResource
<1>4. is_new(r)
  BY DEF StartCreateResource
<1>5. /\ DOMAIN row = { r }
      /\ \A s \in { r } : row[s] \in ResourceRow
      /\ \A s \in { r } : row[s].code <= Cardinality(DOMAIN resources) + 1
      /\ r \in Consultants \ DOMAIN resources
      /\ \A y \in Recruiters : request[y] # Unasked => r \notin DOMAIN request[y].inserts
  BY <1>1, <1>4, NewConsultant
<1>6. objects' \subseteq Documents
  BY <1>3 DEF TalentInv, TalentTypeOK
<1>7. /\ DOMAIN row \subseteq Consultants \ DOMAIN resources
      /\ \A s, q \in DOMAIN row : s = q
      /\ \A s \in DOMAIN row : /\ row[s] \in ResourceRow
                               /\ row[s].code <= Cardinality(DOMAIN resources) + 1
      /\ \A y \in Recruiters : request[y] # Unasked =>
           DOMAIN row \cap DOMAIN request[y].inserts = {}
  BY <1>5
<1>8. QED
  BY <1>2, <1>3, <1>6, <1>7, Beginning

\* A consultant made from a CV.
LEMMA ParseCVStarts ==
  ASSUME TalentInv, NEW x \in Recruiters, NEW r \in Consultants,
         NEW d \in Documents, StartParseCV(x, r, d)
  PROVE  TalentInv'
<1>1. PICK row : row = Row(r, new_resource(next_code))
  OBVIOUS
<1>2. PICK none : none = EmptyTable /\ DOMAIN none = {}
  BY DEF EmptyTable
<1>3. PICK cv : cv = Row(d, [ resource |-> r, authorises |-> FALSE, expiry |-> NoDate ])
  OBVIOUS
<1>4. Begins(x, "inserting", row, cv, none, none, {})
      /\ day' = day /\ resources' = resources /\ documents' = documents
      /\ objects' = objects
  BY <1>1, <1>2, <1>3 DEF StartParseCV
<1>5. is_new(r)
  BY DEF StartParseCV
<1>6. /\ DOMAIN row = { r }
      /\ \A s \in { r } : row[s] \in ResourceRow
      /\ \A s \in { r } : row[s].code <= Cardinality(DOMAIN resources) + 1
      /\ r \in Consultants \ DOMAIN resources
      /\ \A y \in Recruiters : request[y] # Unasked => r \notin DOMAIN request[y].inserts
  BY <1>1, <1>5, NewConsultant
<1>7. objects' \subseteq Documents
  BY <1>4 DEF TalentInv, TalentTypeOK
<1>8. /\ DOMAIN row \subseteq Consultants \ DOMAIN resources
      /\ \A s, q \in DOMAIN row : s = q
      /\ \A s \in DOMAIN row : /\ row[s] \in ResourceRow
                               /\ row[s].code <= Cardinality(DOMAIN resources) + 1
      /\ \A y \in Recruiters : request[y] # Unasked =>
           DOMAIN row \cap DOMAIN request[y].inserts = {}
  BY <1>6
<1>9. /\ DOMAIN cv = { d } /\ cv[d] \in DocumentRow /\ cv[d].resource = r
  <2>1. PICK no \in BOOLEAN : no = FALSE
    OBVIOUS
  <2>2. cv = Row(d, [ resource |-> r, authorises |-> no, expiry |-> NoDate ])
    BY <1>3, <2>1
  <2>3. QED
    BY <2>2 DEF Row, DocumentRow
<1>10. /\ DOMAIN cv \subseteq Documents
       /\ \A e \in DOMAIN cv : /\ cv[e] \in DocumentRow
                               /\ cv[e].resource \in DOMAIN resources \cup DOMAIN row
  BY <1>6, <1>9
<1>11. QED
  BY <1>2, <1>4, <1>7, <1>8, <1>10, Beginning

\* Changes of one column of a consultant.
LEMMA RewriteStarts ==
  ASSUME TalentInv, NEW x \in Recruiters, NEW r \in Consultants, NEW sets,
         Begins(x, "ready", EmptyTable, EmptyTable, Row(r, sets), EmptyTable, {}),
         day' = day, resources' = resources, documents' = documents, objects' = objects,
         \A c \in DOMAIN sets :
           \/ c = "visa" /\ sets[c] \in VisaStatus
           \/ c = "archived" /\ sets[c] \in BOOLEAN
  PROVE  TalentInv'
<1>1. PICK none : none = EmptyTable /\ DOMAIN none = {}
  BY DEF EmptyTable
<1>2. PICK row : row = Row(r, sets) /\ DOMAIN row = { r } /\ row[r] = sets
  BY DEF Row
<1>3. Begins(x, "ready", EmptyTable, EmptyTable, row, none, {})
  BY <1>1, <1>2
<1>4. \A s \in DOMAIN row : \A c \in DOMAIN row[s] :
        \/ c = "visa" /\ row[s][c] \in VisaStatus
        \/ c = "archived" /\ row[s][c] \in BOOLEAN
  BY <1>2
<1>5. objects' \subseteq Documents
  BY DEF TalentInv, TalentTypeOK
<1>6. \A d \in DOMAIN none : \A c \in DOMAIN none[d] :
        c = "expiry" /\ none[d][c] \in Expiries \cup { NoDate }
  BY <1>1
<1>7. QED
  BY <1>3, <1>4, <1>5, <1>6, BeginningPlainly

\* Requests on a consultant there is.
LEMMA ResourceStarts ==
  ASSUME TalentInv, NEW x \in Recruiters, NEW r \in Consultants
  PROVE  /\ StartArchiveResource(x, r) => TalentInv'
         /\ \A visa \in VisaInputs : StartUpdateResource(x, r, visa) => TalentInv'
<1>1. found(r) => resources[r] \in ResourceRow
  BY DEF found, TalentInv, TalentTypeOK, IsTable
<1>2. ASSUME StartArchiveResource(x, r)  PROVE TalentInv'
  <2>1. PICK sets : sets = altered(resources[r], [ resources[r] EXCEPT !.archived = TRUE ])
    OBVIOUS
  <2>2. /\ Begins(x, "ready", EmptyTable, EmptyTable, Row(r, sets), EmptyTable, {})
        /\ found(r) /\ UNCHANGED << day, resources, documents, objects >>
    BY <1>2, <2>1 DEF StartArchiveResource, Rewrites
  <2>3. \A c \in DOMAIN sets : c = "archived" /\ sets[c] \in BOOLEAN
    <3>1. PICK visa : visa \in VisaStatus
      BY DEF VisaStatus
    <3>2. QED
      BY <1>1, <2>1, <2>2, <3>1, AlteredResource
  <2>4. day' = day /\ resources' = resources /\ documents' = documents
        /\ objects' = objects
    BY <2>2
  <2>5. \A c \in DOMAIN sets :
          \/ c = "visa" /\ sets[c] \in VisaStatus
          \/ c = "archived" /\ sets[c] \in BOOLEAN
    BY <2>3
  <2>6. QED
    BY <2>2, <2>4, <2>5, RewriteStarts
<1>3. ASSUME NEW visa \in VisaInputs, StartUpdateResource(x, r, visa)  PROVE TalentInv'
  <2>1. PICK sets : sets = altered(resources[r], [ resources[r] EXCEPT !.visa = visa ])
    OBVIOUS
  <2>2. /\ Begins(x, "ready", EmptyTable, EmptyTable, Row(r, sets), EmptyTable, {})
        /\ found(r) /\ UNCHANGED << day, resources, documents, objects >>
    BY <1>3, <2>1 DEF StartUpdateResource, Rewrites
  <2>3. visa \in VisaStatus
    BY <1>3, TalentInputs
  <2>4. \A c \in DOMAIN sets : c = "visa" /\ sets[c] \in VisaStatus
    BY <1>1, <2>1, <2>2, <2>3, AlteredResource
  <2>5. day' = day /\ resources' = resources /\ documents' = documents
        /\ objects' = objects
    BY <2>2
  <2>6. \A c \in DOMAIN sets :
          \/ c = "visa" /\ sets[c] \in VisaStatus
          \/ c = "archived" /\ sets[c] \in BOOLEAN
    BY <2>4
  <2>7. QED
    BY <2>2, <2>5, <2>6, RewriteStarts
<1>4. QED
  BY <1>2, <1>3

\* Requests on documents; what they find out of the visa is a visa status.
LEMMA AddDocumentStarts ==
  ASSUME TalentInv, NEW x \in Recruiters, NEW r \in Consultants,
         NEW d \in Documents, NEW a \in BOOLEAN, NEW e \in Expiries,
         StartAddDocument(x, r, d, a, e)
  PROVE  TalentInv'
<1>1. PICK none : none = EmptyTable /\ DOMAIN none = {}
  BY DEF EmptyTable
<1>2. PICK row : row = [ resource |-> r, authorises |-> a, expiry |-> e ]
  OBVIOUS
<1>3. PICK store : store = Row(d, row)
  OBVIOUS
<1>a. DOMAIN store = { d } /\ store[d] = row
  BY <1>3 DEF Row
<1>4. PICK r_set : r_set = refreshed(Put(documents, d, row), r)
  OBVIOUS
<1>5. /\ found(r)
      /\ Begins(x, "ready", none, store, r_set, none, {})
      /\ objects' = objects \cup { d }
      /\ day' = day /\ resources' = resources /\ documents' = documents
  BY <1>1, <1>2, <1>3, <1>4 DEF StartAddDocument
<1>6. row \in DocumentRow /\ row.resource \in DOMAIN resources
  BY <1>2, <1>5 DEF DocumentRow, found
<1>7. /\ DOMAIN store \subseteq Documents
      /\ \A k \in DOMAIN store : /\ store[k] \in DocumentRow
                                 /\ store[k].resource \in DOMAIN resources \cup DOMAIN none
  BY <1>a, <1>6
<1>8. \A k \in DOMAIN r_set : \A c \in DOMAIN r_set[k] :
        c = "visa" /\ r_set[k][c] \in VisaStatus
  BY <1>4, RefreshedVisa
<1>9. objects' \subseteq Documents
  BY <1>5 DEF TalentInv, TalentTypeOK
<1>10. QED
  BY <1>1, <1>5, <1>7, <1>8, <1>9, Beginning

\* PATCH of a document.
LEMMA UpdateDocumentStarts ==
  ASSUME TalentInv, NEW x \in Recruiters, NEW d \in Documents, NEW e \in Expiries,
         StartUpdateDocument(x, d, e)
  PROVE  TalentInv'
<1>1. PICK r : r = documents[d].resource
  OBVIOUS
<1>2. PICK sets : sets = altered(documents[d], [ documents[d] EXCEPT !.expiry = e ])
  OBVIOUS
<1>3. PICK d_set : d_set = Row(d, sets)
  OBVIOUS
<1>a. DOMAIN d_set = { d } /\ d_set[d] = sets
  BY <1>3 DEF Row
<1>4. PICK r_set : r_set = refreshed(Put(documents, d,
                                         [ documents[d] EXCEPT !.expiry = e ]), r)
  OBVIOUS
<1>5. /\ d \in DOMAIN documents
      /\ Begins(x, "ready", EmptyTable, EmptyTable, r_set, d_set, {})
      /\ UNCHANGED << day, resources, documents, objects >>
  BY <1>1, <1>2, <1>3, <1>4 DEF StartUpdateDocument
<1>6. documents[d] \in DocumentRow
  BY <1>5 DEF TalentInv, TalentTypeOK, IsTable
<1>7. \A c \in DOMAIN sets : c = "expiry" /\ sets[c] \in Expiries
  BY <1>2, <1>6, AlteredDocument
<1>8. \A k \in DOMAIN d_set : \A c \in DOMAIN d_set[k] :
        c = "expiry" /\ d_set[k][c] \in Expiries \cup { NoDate }
  BY <1>a, <1>7
<1>9. \A k \in DOMAIN r_set : \A c \in DOMAIN r_set[k] :
        c = "visa" /\ r_set[k][c] \in VisaStatus
  BY <1>4, RefreshedVisa
<1>10. /\ objects' \subseteq Documents /\ day' = day
       /\ resources' = resources /\ documents' = documents
  BY <1>5 DEF TalentInv, TalentTypeOK
<1>11. QED
  BY <1>5, <1>8, <1>9, <1>10, BeginningPlainly

\* DELETE of a document.
LEMMA DeleteDocumentStarts ==
  ASSUME TalentInv, NEW x \in Recruiters, NEW d \in Documents,
         StartDeleteDocument(x, d)
  PROVE  TalentInv'
<1>1. PICK r : r = documents[d].resource
  OBVIOUS
<1>2. PICK none : none = EmptyTable /\ DOMAIN none = {}
  BY DEF EmptyTable
<1>3. PICK r_set :
        r_set = refreshed(Select(documents, DOMAIN documents \ { d }), r)
  OBVIOUS
<1>4. /\ \/ Begins(x, "ready", EmptyTable, EmptyTable, r_set, none, { d })
         \/ Begins(x, "failing", EmptyTable, EmptyTable, none, none, { d })
      /\ objects' = objects \ { d }
      /\ day' = day /\ resources' = resources /\ documents' = documents
  BY <1>1, <1>2, <1>3 DEF StartDeleteDocument
<1>5. \A k \in DOMAIN r_set : \A c \in DOMAIN r_set[k] :
        c = "visa" /\ r_set[k][c] \in VisaStatus
  BY <1>3, RefreshedVisa
<1>6. objects' \subseteq Documents
  BY <1>4 DEF TalentInv, TalentTypeOK
<1>7. CASE Begins(x, "ready", EmptyTable, EmptyTable, r_set, none, { d })
  BY <1>2, <1>4, <1>5, <1>6, <1>7, BeginningPlainly
<1>8. CASE Begins(x, "failing", EmptyTable, EmptyTable, none, none, { d })
  BY <1>2, <1>4, <1>6, <1>8, BeginningPlainly
<1>9. QED
  BY <1>4, <1>7, <1>8

\* A row is inserted, or a day passes: the requests get on, the tables stay.
LEMMA InsertKeeps ==
  ASSUME TalentInv, NEW x \in Recruiters, Insert(x)
  PROVE  TalentInv'
<1>1. /\ DOMAIN request = Recruiters
      /\ \A y \in Recruiters : request[y] = Unasked \/ Asked(request[y])
      /\ \A y, z \in Recruiters :
           y # z /\ request[y] # Unasked /\ request[z] # Unasked =>
             DOMAIN request[y].inserts \cap DOMAIN request[z].inserts = {}
      /\ objects \subseteq Documents /\ day \in 0..LastDay
  BY DEF TalentInv, TalentTypeOK
<1>2. request[x] # Unasked
  <2>1. request[x].pc = "inserting" /\ Unasked.pc = "idle"
    BY DEF Insert, Unasked
  <2>2. QED
    BY <2>1
<1> DEFINE t == request[x]
           u == [ t EXCEPT !.pc = "ready" ]
<1>3. Asked(t)
  BY <1>1, <1>2
<1>4. AskedShape(t)
  BY <1>3 DEF Asked
<1>5. AskedShape(u) /\ u.inserts = t.inserts /\ u.stores = t.stores
        /\ u.r_set = t.r_set /\ u.d_set = t.d_set
  BY <1>4, AskedOn
<1>6. Asked(u)
  BY <1>3, <1>5 DEF Asked, AskedInserts, AskedStores, AskedColumns
<1>7. /\ request' = [ request EXCEPT ![x] = u ]
      /\ objects' = objects \cup DOMAIN t.stores
      /\ day' = day /\ resources' = resources /\ documents' = documents
  BY DEF Insert
<1> HIDE DEF u
<1>8. /\ DOMAIN request' = Recruiters /\ request'[x] = u
      /\ \A y \in Recruiters \ { x } : request'[y] = request[y]
  BY <1>1, <1>7
<1>9. \A y \in Recruiters : request'[y] = Unasked \/ Asked(request'[y])
  BY <1>1, <1>6, <1>8
<1>10. \A y, z \in Recruiters :
         y # z /\ request'[y] # Unasked /\ request'[z] # Unasked =>
           DOMAIN request'[y].inserts \cap DOMAIN request'[z].inserts = {}
  BY <1>1, <1>2, <1>5, <1>8
<1>11. DOMAIN t.stores \subseteq Documents
  BY <1>3 DEF Asked, AskedStores
<1>12. objects' \subseteq Documents /\ day' \in 0..LastDay
  BY <1>1, <1>7, <1>11
<1>13. QED
  BY <1>7, <1>8, <1>9, <1>10, <1>12, RequestsMove

\* A day that passes keeps the invariant.
LEMMA NextDayKeeps ==
  ASSUME TalentInv, NextDay
  PROVE  TalentInv'
<1>1. /\ DOMAIN request = Recruiters
      /\ \A y \in Recruiters : request[y] = Unasked \/ Asked(request[y])
      /\ \A y, z \in Recruiters :
           y # z /\ request[y] # Unasked /\ request[z] # Unasked =>
             DOMAIN request[y].inserts \cap DOMAIN request[z].inserts = {}
      /\ objects \subseteq Documents /\ day \in 0..LastDay
  BY DEF TalentInv, TalentTypeOK
<1>2. /\ DOMAIN request' = Recruiters
      /\ \A y \in Recruiters : request'[y] =
           IF request[y] = Unasked THEN Unasked ELSE [ request[y] EXCEPT !.late = TRUE ]
      /\ resources' = resources /\ documents' = documents /\ objects' = objects
  BY DEF NextDay
<1>3. day' \in 0..LastDay
  BY <1>1, TalentInputs DEF NextDay
<1>4. ASSUME NEW y \in Recruiters, request[y] # Unasked
      PROVE  Asked(request'[y]) /\ request'[y].inserts = request[y].inserts
  <2>1. PICK u : u = [ request[y] EXCEPT !.late = TRUE ]
    OBVIOUS
  <2>2. Asked(request[y]) /\ request'[y] = u
    BY <1>1, <1>2, <1>4, <2>1
  <2>3. AskedShape(u) /\ u.inserts = request[y].inserts /\ u.stores = request[y].stores
          /\ u.r_set = request[y].r_set /\ u.d_set = request[y].d_set
    BY <2>1, <2>2, AskedOn DEF Asked
  <2>4. Asked(u)
    BY <2>2, <2>3 DEF Asked, AskedInserts, AskedStores, AskedColumns
  <2>5. QED
    BY <2>2, <2>3, <2>4
<1>5. \A y \in Recruiters : request'[y] # Unasked => request[y] # Unasked
  BY <1>2
<1>6. \A y \in Recruiters : request'[y] = Unasked \/ Asked(request'[y])
  BY <1>4, <1>5
<1>7. \A y, z \in Recruiters :
         y # z /\ request'[y] # Unasked /\ request'[z] # Unasked =>
           DOMAIN request'[y].inserts \cap DOMAIN request'[z].inserts = {}
  BY <1>1, <1>4, <1>5
<1>8. objects' \subseteq Documents
  BY <1>1, <1>2
<1>9. QED
  BY <1>2, <1>3, <1>6, <1>7, <1>8, RequestsMove

\* A request that ends without writing keeps it.
LEMMA RollbackTalentKeeps ==
  ASSUME TalentInv, NEW x \in Recruiters, RollbackTalent(x)
  PROVE  TalentInv'
<1>1. /\ DOMAIN request = Recruiters
      /\ \A y \in Recruiters : request[y] = Unasked \/ Asked(request[y])
      /\ \A y, z \in Recruiters :
           y # z /\ request[y] # Unasked /\ request[z] # Unasked =>
             DOMAIN request[y].inserts \cap DOMAIN request[z].inserts = {}
      /\ objects \subseteq Documents /\ day \in 0..LastDay
  BY DEF TalentInv, TalentTypeOK
<1>2. /\ DOMAIN request' = Recruiters
      /\ \A y \in Recruiters : request'[y] = IF y = x THEN Unasked ELSE request[y]
      /\ resources' = resources /\ documents' = documents
      /\ objects' = objects /\ day' = day
  BY <1>1 DEF RollbackTalent
<1>3. \A y \in Recruiters : request'[y] = Unasked \/ Asked(request'[y])
  BY <1>1, <1>2
<1>4. \A y, z \in Recruiters :
         y # z /\ request'[y] # Unasked /\ request'[z] # Unasked =>
           DOMAIN request'[y].inserts \cap DOMAIN request'[z].inserts = {}
  BY <1>1, <1>2
<1>5. objects' \subseteq Documents /\ day' \in 0..LastDay
  BY <1>1, <1>2
<1>6. QED
  BY <1>2, <1>3, <1>4, <1>5, RequestsMove

-----------------------------------------------------------------------------
(* A request commits: its rows are written over those there are.           *)

\* A row of which only known columns are changed keeps its type.
LEMMA UpdatedResources ==
  ASSUME NEW table, NEW sets, NEW S,
         \A r \in DOMAIN table : table[r] \in ResourceRow,
         \A r \in DOMAIN sets : \A c \in DOMAIN sets[r] :
           \/ c = "visa" /\ sets[r][c] \in VisaStatus
           \/ c = "archived" /\ sets[r][c] \in BOOLEAN
  PROVE  /\ DOMAIN updated(table, sets) = DOMAIN table
         /\ \A r \in DOMAIN table :
              /\ updated(table, sets)[r] \in ResourceRow
              /\ updated(table, sets)[r].code = table[r].code
<1>1. DOMAIN updated(table, sets) = DOMAIN table
  BY DEF updated
<1>2. ASSUME NEW r \in DOMAIN table, r \notin DOMAIN sets
      PROVE  updated(table, sets)[r] = table[r]
  BY <1>2 DEF updated
<1>3. ASSUME NEW r \in DOMAIN table, r \in DOMAIN sets
      PROVE  /\ updated(table, sets)[r] \in ResourceRow
             /\ updated(table, sets)[r].code = table[r].code
  <2>1. PICK row : row = table[r]
    OBVIOUS
  <2>2. PICK set : set = sets[r]
    OBVIOUS
  <2>3. updated(table, sets)[r] =
          [ c \in DOMAIN row |-> IF c \in DOMAIN set THEN set[c] ELSE row[c] ]
    BY <1>3, <2>1, <2>2 DEF updated
  <2>4. row \in ResourceRow
    BY <2>1
  <2>5. \A c \in DOMAIN set : \/ c = "visa" /\ set[c] \in VisaStatus
                              \/ c = "archived" /\ set[c] \in BOOLEAN
    BY <1>3, <2>2
  <2>6. /\ [ c \in DOMAIN row |-> IF c \in DOMAIN set THEN set[c] ELSE row[c] ]
             \in ResourceRow
        /\ [ c \in DOMAIN row |-> IF c \in DOMAIN set THEN set[c] ELSE row[c] ].code
             = row.code
    BY <2>4, <2>5 DEF ResourceRow
  <2>7. QED
    BY <2>1, <2>3, <2>6
<1>4. QED
  BY <1>1, <1>2, <1>3

\* The documents a commit leaves.
LEMMA UpdatedDocuments ==
  ASSUME NEW table, NEW sets,
         \A d \in DOMAIN table : table[d] \in DocumentRow,
         \A d \in DOMAIN sets : \A c \in DOMAIN sets[d] :
           c = "expiry" /\ sets[d][c] \in Expiries \cup { NoDate }
  PROVE  /\ DOMAIN updated(table, sets) = DOMAIN table
         /\ \A d \in DOMAIN table :
              /\ updated(table, sets)[d] \in DocumentRow
              /\ updated(table, sets)[d].resource = table[d].resource
<1>1. DOMAIN updated(table, sets) = DOMAIN table
  BY DEF updated
<1>2. ASSUME NEW d \in DOMAIN table, d \notin DOMAIN sets
      PROVE  updated(table, sets)[d] = table[d]
  BY <1>2 DEF updated
<1>3. ASSUME NEW d \in DOMAIN table, d \in DOMAIN sets
      PROVE  /\ updated(table, sets)[d] \in DocumentRow
             /\ updated(table, sets)[d].resource = table[d].resource
  <2>1. PICK row : row = table[d]
    OBVIOUS
  <2>2. PICK set : set = sets[d]
    OBVIOUS
  <2>3. updated(table, sets)[d] =
          [ c \in DOMAIN row |-> IF c \in DOMAIN set THEN set[c] ELSE row[c] ]
    BY <1>3, <2>1, <2>2 DEF updated
  <2>4. row \in DocumentRow
    BY <2>1
  <2>5. \A c \in DOMAIN set : c = "expiry" /\ set[c] \in Expiries \cup { NoDate }
    BY <1>3, <2>2
  <2>6. /\ [ c \in DOMAIN row |-> IF c \in DOMAIN set THEN set[c] ELSE row[c] ]
             \in DocumentRow
        /\ [ c \in DOMAIN row |-> IF c \in DOMAIN set THEN set[c] ELSE row[c] ].resource
             = row.resource
    BY <2>4, <2>5 DEF DocumentRow
  <2>7. QED
    BY <2>1, <2>3, <2>6
<1>4. QED
  BY <1>1, <1>2, <1>3

\* What a commit leaves in the two tables.
LEMMA CommitWritesTalent ==
  ASSUME TalentInv, NEW x \in Recruiters, CommitTalent(x)
  PROVE  LET t == request[x] IN
         /\ t # Unasked /\ Asked(t)
         /\ IsTable(resources', Consultants, ResourceRow)
         /\ DOMAIN resources' = DOMAIN resources \cup DOMAIN t.inserts
         /\ \A r \in DOMAIN resources : resources'[r].code = resources[r].code
         /\ \A r \in DOMAIN t.inserts : resources'[r] = t.inserts[r]
         /\ IsTable(documents', Documents, DocumentRow)
         /\ \A d \in DOMAIN documents' : documents'[d].resource \in DOMAIN resources'
<1> DEFINE t == request[x]
<1>1. t # Unasked
  <2>1. t.pc = "ready" /\ Unasked.pc = "idle"
    BY DEF CommitTalent, Unasked
  <2>2. QED
    BY <2>1
<1>2. Asked(t)
  BY <1>1 DEF TalentInv
<1>3. /\ IsTable(resources, Consultants, ResourceRow)
      /\ IsTable(documents, Documents, DocumentRow)
      /\ \A d \in DOMAIN documents : documents[d].resource \in DOMAIN resources
  BY DEF TalentInv, TalentTypeOK
<1>4. /\ resources' = PutAll(updated(resources, t.r_set), t.inserts)
      /\ documents' = Select(PutAll(updated(documents, t.d_set), t.stores),
                             (DOMAIN documents \cup DOMAIN t.stores) \ t.removes)
  BY DEF CommitTalent
<1> HIDE DEF t
<1>5. PICK us : us = updated(resources, t.r_set)
  OBVIOUS
<1>6. DOMAIN us = DOMAIN resources
      /\ \A r \in DOMAIN resources : /\ us[r] \in ResourceRow
                                     /\ us[r].code = resources[r].code
  BY <1>2, <1>3, <1>5, UpdatedResources DEF Asked, AskedColumns, IsTable
<1>7. /\ DOMAIN t.inserts \subseteq Consultants \ DOMAIN resources
      /\ \A r \in DOMAIN t.inserts : t.inserts[r] \in ResourceRow
  BY <1>2 DEF Asked, AskedInserts
<1>8. resources' = PutAll(us, t.inserts)
  BY <1>4, <1>5
<1>9. /\ resources' = [ k \in DOMAIN resources' |-> resources'[k] ]
      /\ DOMAIN resources' = DOMAIN resources \cup DOMAIN t.inserts
      /\ \A r \in DOMAIN t.inserts : resources'[r] = t.inserts[r]
      /\ \A r \in DOMAIN resources : resources'[r] = us[r]
  BY <1>6, <1>7, <1>8 DEF PutAll
<1>10. IsTable(resources', Consultants, ResourceRow)
       /\ \A r \in DOMAIN resources : resources'[r].code = resources[r].code
  BY <1>3, <1>6, <1>7, <1>9 DEF IsTable
<1>11. PICK ud : ud = updated(documents, t.d_set)
  OBVIOUS
<1>12. DOMAIN ud = DOMAIN documents
       /\ \A d \in DOMAIN documents : /\ ud[d] \in DocumentRow
                                      /\ ud[d].resource = documents[d].resource
  BY <1>2, <1>3, <1>11, UpdatedDocuments DEF Asked, AskedColumns, IsTable
<1>13. PICK all : all = PutAll(ud, t.stores)
  OBVIOUS
<1>14. /\ DOMAIN all = DOMAIN documents \cup DOMAIN t.stores
       /\ \A d \in DOMAIN t.stores : all[d] = t.stores[d]
       /\ \A d \in DOMAIN documents \ DOMAIN t.stores : all[d] = ud[d]
  BY <1>12, <1>13 DEF PutAll
<1>15. /\ DOMAIN t.stores \subseteq Documents
       /\ \A d \in DOMAIN t.stores :
            /\ t.stores[d] \in DocumentRow
            /\ t.stores[d].resource \in DOMAIN resources \cup DOMAIN t.inserts
  BY <1>2 DEF Asked, AskedStores
<1>16. \A d \in DOMAIN all :
         /\ d \in Documents /\ all[d] \in DocumentRow
         /\ all[d].resource \in DOMAIN resources'
  BY <1>3, <1>9, <1>12, <1>14, <1>15 DEF IsTable
<1>17. PICK keys : documents' = Select(all, keys)
  BY <1>4, <1>11, <1>13
<1>18. /\ documents' = [ k \in DOMAIN documents' |-> documents'[k] ]
       /\ DOMAIN documents' \subseteq DOMAIN all
       /\ \A d \in DOMAIN documents' : documents'[d] = all[d]
  BY <1>17 DEF Select
<1>19. IsTable(documents', Documents, DocumentRow)
       /\ \A d \in DOMAIN documents' : documents'[d].resource \in DOMAIN resources'
  BY <1>16, <1>18 DEF IsTable
<1>20. QED
  BY <1>1, <1>2, <1>9, <1>10, <1>19 DEF t

\* A commit keeps the invariant; a request that was asked before still fits what it
\* leaves.
LEMMA CommitTalentKeeps ==
  ASSUME TalentInv, NEW x \in Recruiters, CommitTalent(x)
  PROVE  TalentInv'
<1> DEFINE t == request[x]
           rows == DOMAIN resources
           rows2 == DOMAIN resources'
<1>1. /\ t # Unasked /\ Asked(t)
      /\ IsTable(resources', Consultants, ResourceRow)
      /\ rows2 = rows \cup DOMAIN t.inserts
      /\ \A r \in rows : resources'[r].code = resources[r].code
      /\ \A r \in DOMAIN t.inserts : resources'[r] = t.inserts[r]
      /\ IsTable(documents', Documents, DocumentRow)
      /\ \A d \in DOMAIN documents' : documents'[d].resource \in rows2
  BY CommitWritesTalent
<1>2. /\ DOMAIN request = Recruiters
      /\ \A y \in Recruiters : request[y] = Unasked \/ Asked(request[y])
      /\ \A y, z \in Recruiters :
           y # z /\ request[y] # Unasked /\ request[z] # Unasked =>
             DOMAIN request[y].inserts \cap DOMAIN request[z].inserts = {}
      /\ objects \subseteq Documents /\ day \in 0..LastDay
      /\ rows \in SUBSET Consultants
      /\ \A r \in rows : resources[r] \in ResourceRow
      /\ \A r \in rows : resources[r].code <= Cardinality(rows)
  BY DEF TalentInv, TalentTypeOK, IsTable
<1>3. /\ request' = outrun(x) /\ day' = day /\ objects' = objects
  BY DEF CommitTalent
<1>4. /\ DOMAIN request' = Recruiters /\ request'[x] = Unasked
      /\ \A y \in Recruiters \ { x } : request'[y] =
           IF request[y] # Unasked THEN [ request[y] EXCEPT !.late = TRUE ]
           ELSE Unasked
  BY <1>3 DEF outrun
<1>5. TalentTypeOK'
  BY <1>1, <1>2, <1>3 DEF TalentTypeOK
<1>6. /\ DOMAIN t.inserts \subseteq Consultants \ rows
      /\ \A r, s \in DOMAIN t.inserts : r = s
      /\ \A r \in DOMAIN t.inserts :
           t.inserts[r] \in ResourceRow /\ t.inserts[r].code <= Cardinality(rows) + 1
  BY <1>1 DEF Asked, AskedInserts
<1> HIDE DEF t
<1>7. /\ Cardinality(rows) \in Nat /\ Cardinality(rows2) \in Nat
      /\ Cardinality(Consultants) \in Nat
      /\ Cardinality(rows) <= Cardinality(rows2)
      /\ DOMAIN t.inserts # {} => Cardinality(rows2) = Cardinality(rows) + 1
  <2>1. CASE DOMAIN t.inserts = {}
    <3>1. rows2 = rows
      BY <1>1, <2>1
    <3>2. QED
      BY <1>2, <2>1, <3>1, RowsAreCounted
  <2>2. CASE DOMAIN t.inserts # {}
    <3>1. PICK r \in Consultants \ rows : rows2 = rows \cup { r }
      BY <1>1, <1>6, <2>2
    <3>2. rows2 \in SUBSET Consultants
      BY <1>2, <3>1
    <3>3. /\ Cardinality(rows) \in Nat /\ Cardinality(Consultants) \in Nat
          /\ Cardinality(rows \cup { r }) = Cardinality(rows) + 1
      BY <1>2, <3>1, RowsAreCounted
    <3>4. QED
      BY <3>1, <3>3
  <2>3. QED
    BY <2>1, <2>2
<1> DEFINE n == Cardinality(rows)
           grown == Cardinality(rows2)
<1>8. \A r \in rows2 : resources'[r].code <= grown
  <2>1. ASSUME NEW r \in rows  PROVE resources'[r].code <= grown
    <3>1. resources[r].code \in 0..Cardinality(Consultants) /\ resources[r].code <= n
          /\ resources'[r].code = resources[r].code
      BY <1>1, <1>2 DEF ResourceRow
    <3> DEFINE code == resources[r].code
    <3> HIDE DEF n, grown, code
    <3>2. code \in Int /\ n \in Int /\ grown \in Int /\ n <= grown /\ code <= n
          /\ resources'[r].code = code
      BY <1>7, <3>1 DEF n, grown, code
    <3>3. QED
      BY <3>2
  <2>2. ASSUME NEW r \in DOMAIN t.inserts  PROVE resources'[r].code <= grown
    <3>1. t.inserts[r].code <= n + 1 /\ resources'[r].code = t.inserts[r].code
      BY <1>1, <1>6
    <3>2. grown = n + 1
      BY <1>7, <2>2
    <3> HIDE DEF n, grown
    <3>3. QED
      BY <3>1, <3>2
  <2>3. QED
    BY <1>1, <2>1, <2>2
<1>9. (\A r \in DOMAIN resources : resources[r].code <= Cardinality(DOMAIN resources))'
  BY <1>8
<1>10. ASSUME NEW y \in Recruiters \ { x }, request[y] # Unasked
       PROVE  Asked(request[y])' /\ request'[y].inserts = request[y].inserts
  <2>1. PICK u : u = [ request[y] EXCEPT !.late = TRUE ]
    OBVIOUS
  <2>2. Asked(request[y]) /\ request'[y] = u
    BY <1>2, <1>4, <1>10, <2>1
  <2>3. AskedShape(u) /\ u.inserts = request[y].inserts /\ u.stores = request[y].stores
          /\ u.r_set = request[y].r_set /\ u.d_set = request[y].d_set
    BY <2>1, <2>2, AskedOn DEF Asked
  <2>4. AskedShape(request[y])'
    BY <2>2, <2>3 DEF AskedShape
  <2>5. AskedColumns(request[y])'
    BY <2>2, <2>3 DEF Asked, AskedColumns
  <2>6. DOMAIN request[y].inserts \cap DOMAIN t.inserts = {}
    BY <1>1, <1>2, <1>10 DEF t
  <2>7. /\ DOMAIN request[y].inserts \subseteq Consultants \ rows
        /\ \A r, s \in DOMAIN request[y].inserts : r = s
        /\ \A r \in DOMAIN request[y].inserts :
             /\ request[y].inserts[r] \in ResourceRow
             /\ request[y].inserts[r].code <= n + 1
    BY <2>2 DEF Asked, AskedInserts
  <2>8. \A r \in DOMAIN request[y].inserts :
          request[y].inserts[r].code <= grown + 1
    <3>1. SUFFICES ASSUME NEW r \in DOMAIN request[y].inserts
                   PROVE  request[y].inserts[r].code <= grown + 1
      OBVIOUS
    <3>2. request[y].inserts[r].code \in 0..Cardinality(Consultants)
      BY <2>7 DEF ResourceRow
    <3>3. request[y].inserts[r].code <= n + 1
      BY <2>7
    <3> DEFINE code == request[y].inserts[r].code
    <3> HIDE DEF n, grown, code
    <3>4. code \in Int /\ code <= n + 1 /\ n \in Int /\ grown \in Int /\ n <= grown
      BY <1>7, <3>2, <3>3 DEF n, grown, code
    <3>5. code <= grown + 1
      BY <3>4
    <3>6. QED
      BY <3>5 DEF code
  <2>9. AskedInserts(request[y])'
    <3>1. DOMAIN request'[y].inserts \subseteq Consultants \ rows2
      BY <1>1, <2>2, <2>3, <2>6, <2>7
    <3> HIDE DEF n, grown, rows, rows2
    <3>2. /\ \A r, s \in DOMAIN request'[y].inserts : r = s
          /\ \A r \in DOMAIN request'[y].inserts :
               /\ request'[y].inserts[r] \in ResourceRow
               /\ request'[y].inserts[r].code <= grown + 1
      BY <2>2, <2>3, <2>7, <2>8
    <3>3. QED
      BY <3>1, <3>2 DEF AskedInserts, grown, rows2
  <2>10. AskedStores(request[y])'
    BY <1>1, <2>2, <2>3 DEF Asked, AskedStores
  <2>11. QED
    BY <2>2, <2>3, <2>4, <2>5, <2>9, <2>10 DEF Asked
<1>11. \A y \in Recruiters : request'[y] # Unasked => y # x /\ request[y] # Unasked
  BY <1>4
<1>12. (\A y \in Recruiters : request[y] = Unasked \/ Asked(request[y]))'
  BY <1>10, <1>11
<1>13. \A y, z \in Recruiters :
         y # z /\ request'[y] # Unasked /\ request'[z] # Unasked =>
           DOMAIN request'[y].inserts \cap DOMAIN request'[z].inserts = {}
  BY <1>2, <1>10, <1>11
<1>14. (\A y, z \in Recruiters :
          y # z /\ request[y] # Unasked /\ request[z] # Unasked =>
            DOMAIN request[y].inserts \cap DOMAIN request[z].inserts = {})'
  BY <1>13
<1>15. (DOMAIN request = Recruiters)'
  BY <1>4
<1>16. QED
  BY <1>5, <1>9, <1>12, <1>14, <1>15 DEF TalentInv

\* An imported consultant has no code.
LEMMA ImportResourceKeeps ==
  ASSUME TalentInv, NEW r \in Consultants, ImportResource(r)
  PROVE  TalentInv'
<1> DEFINE rows == DOMAIN resources
<1>1. /\ DOMAIN request = Recruiters
      /\ \A y \in Recruiters : request[y] = Unasked \/ Asked(request[y])
      /\ \A y, z \in Recruiters :
           y # z /\ request[y] # Unasked /\ request[z] # Unasked =>
             DOMAIN request[y].inserts \cap DOMAIN request[z].inserts = {}
      /\ objects \subseteq Documents /\ day \in 0..LastDay
      /\ rows \in SUBSET Consultants
      /\ \A s \in rows : resources[s] \in ResourceRow
      /\ \A s \in rows : resources[s].code <= Cardinality(rows)
      /\ IsTable(documents, Documents, DocumentRow)
      /\ \A d \in DOMAIN documents : documents[d].resource \in rows
  BY DEF TalentInv, TalentTypeOK, IsTable
<1>2. /\ is_new(r) /\ resources' = Put(resources, r, new_resource(0))
      /\ day' = day /\ documents' = documents /\ objects' = objects
      /\ request' = request
  BY DEF ImportResource
<1>3. /\ r \notin rows
      /\ \A y \in Recruiters : request[y] # Unasked => r \notin DOMAIN request[y].inserts
  BY <1>2, NewIds
<1>4. /\ Cardinality(rows) \in Nat /\ Cardinality(Consultants) \in Nat
      /\ Cardinality(rows \cup { r }) = Cardinality(rows) + 1
  BY <1>1, <1>3, RowsAreCounted
<1>5. PICK row : row = new_resource(0) /\ row \in ResourceRow /\ row.code = 0
  <2>1. 0 \in 0..Cardinality(Consultants)
    BY <1>4
  <2>2. new_resource(0) \in ResourceRow /\ new_resource(0).code = 0
    BY <2>1 DEF new_resource, ResourceRow, VisaStatus
  <2>3. QED
    BY <2>2
<1>6. /\ resources' = [ k \in DOMAIN resources' |-> resources'[k] ]
      /\ DOMAIN resources' = rows \cup { r } /\ resources'[r] = row
      /\ \A s \in rows : resources'[s] = resources[s]
  BY <1>2, <1>3, <1>5 DEF Put
<1>7. IsTable(resources', Consultants, ResourceRow)
  BY <1>1, <1>5, <1>6 DEF IsTable
<1>8. TalentTypeOK'
  BY <1>1, <1>2, <1>6, <1>7 DEF TalentTypeOK
<1> DEFINE n == Cardinality(rows)
<1> HIDE DEF n
<1>9. n \in Nat /\ Cardinality(DOMAIN resources') = n + 1
  BY <1>4, <1>6 DEF n
<1>10. ASSUME NEW s \in DOMAIN resources'
       PROVE  resources'[s].code <= Cardinality(DOMAIN resources')
  <2>1. CASE s = r
    BY <1>5, <1>6, <1>9, <2>1
  <2>2. CASE s \in rows
    <3>1. resources'[s].code = resources[s].code /\ resources[s].code \in Int
          /\ resources[s].code <= n
      BY <1>1, <1>4, <1>6, <2>2 DEF n, ResourceRow
    <3> DEFINE code == resources[s].code
    <3> HIDE DEF code
    <3>2. resources'[s].code = code /\ code \in Int /\ code <= n
      BY <3>1 DEF code
    <3>3. code <= n + 1
      BY <1>9, <3>2
    <3>4. QED
      BY <1>9, <3>2, <3>3
  <2>3. QED
    BY <1>6, <2>1, <2>2
<1>11. ASSUME NEW y \in Recruiters, request[y] # Unasked
       PROVE  Asked(request[y])'
  <2>1. Asked(request[y])
    BY <1>1, <1>11
  <2>2. AskedShape(request[y])' /\ AskedColumns(request[y])'
    BY <1>2, <2>1 DEF Asked, AskedShape, AskedColumns
  <2>3. AskedStores(request[y])'
    BY <1>2, <1>6, <2>1 DEF Asked, AskedStores
  <2>4. /\ DOMAIN request[y].inserts \subseteq Consultants \ rows
        /\ \A s, q \in DOMAIN request[y].inserts : s = q
        /\ \A s \in DOMAIN request[y].inserts :
             /\ request[y].inserts[s] \in ResourceRow
             /\ request[y].inserts[s].code <= n + 1
    BY <2>1 DEF Asked, AskedInserts, n
  <2>5. \A s \in DOMAIN request[y].inserts : request[y].inserts[s].code <= (n + 1) + 1
    <3>1. SUFFICES ASSUME NEW s \in DOMAIN request[y].inserts
                   PROVE  request[y].inserts[s].code <= (n + 1) + 1
      OBVIOUS
    <3>2. request[y].inserts[s].code \in Int /\ request[y].inserts[s].code <= n + 1
      BY <1>4, <2>4 DEF ResourceRow
    <3> DEFINE code == request[y].inserts[s].code
    <3> HIDE DEF code
    <3>3. code \in Int /\ code <= n + 1
      BY <3>2 DEF code
    <3>4. code <= (n + 1) + 1
      BY <1>9, <3>3
    <3>5. QED
      BY <3>4 DEF code
  <2>6. DOMAIN request[y].inserts \subseteq Consultants \ DOMAIN resources'
    BY <1>3, <1>6, <1>11, <2>4
  <2>7. AskedInserts(request[y])'
    <3>1. request'[y] = request[y]
      BY <1>2
    <3> DEFINE inserts == request[y].inserts
               m == n + 1
    <3>2. /\ DOMAIN inserts \subseteq Consultants \ DOMAIN resources'
          /\ \A s, q \in DOMAIN inserts : s = q
          /\ \A s \in DOMAIN inserts : inserts[s] \in ResourceRow /\ inserts[s].code <= m + 1
          /\ request'[y].inserts = inserts /\ Cardinality(DOMAIN resources') = m
      BY <1>9, <2>4, <2>5, <2>6, <3>1
    <3> HIDE DEF inserts, m
    <3>3. QED
      BY <3>2 DEF AskedInserts
  <2>8. QED
    BY <2>2, <2>3, <2>7 DEF Asked
<1>12. (\A y \in Recruiters : request[y] = Unasked \/ Asked(request[y]))'
  BY <1>2, <1>11
<1>13. (\A s \in DOMAIN resources : resources[s].code <= Cardinality(DOMAIN resources))'
  BY <1>10
<1>14. (\A y, z \in Recruiters :
          y # z /\ request[y] # Unasked /\ request[z] # Unasked =>
            DOMAIN request[y].inserts \cap DOMAIN request[z].inserts = {})'
  BY <1>1, <1>2
<1>15. (DOMAIN request = Recruiters)'
  BY <1>1, <1>2
<1>16. QED
  BY <1>8, <1>12, <1>13, <1>14, <1>15 DEF TalentInv

\* The invariant holds at first.
LEMMA TalentBegins == TalentInit => TalentInv
<1> SUFFICES ASSUME TalentInit PROVE TalentInv
  OBVIOUS
<1>1. /\ resources = [ k \in DOMAIN resources |-> resources[k] ] /\ DOMAIN resources = {}
      /\ documents = [ k \in DOMAIN documents |-> documents[k] ] /\ DOMAIN documents = {}
      /\ objects = {} /\ day = 0
  BY DEF TalentInit, EmptyTable
<1>2. DOMAIN request = Recruiters /\ \A x \in Recruiters : request[x] = Unasked
  BY DEF TalentInit
<1>3. TalentTypeOK
  BY <1>1, TalentInputs DEF TalentTypeOK, IsTable
<1>4. QED
  BY <1>1, <1>2, <1>3 DEF TalentInv

\* Every step keeps it.
LEMMA TalentPreserved == TalentInv /\ [TalentNext]_talent => TalentInv'
<1> SUFFICES ASSUME TalentInv, [TalentNext]_talent PROVE TalentInv'
  OBVIOUS
<1>1. ASSUME NEW x \in Recruiters, StartTalent(x)  PROVE TalentInv'
  BY <1>1, CreateResourceStarts, ResourceStarts, ParseCVStarts, AddDocumentStarts,
     DeleteDocumentStarts, UpdateDocumentStarts DEF StartTalent
<1>2. ASSUME NEW x \in Recruiters, Insert(x)  PROVE TalentInv'
  BY <1>2, InsertKeeps
<1>3. ASSUME NEW x \in Recruiters, CommitTalent(x)  PROVE TalentInv'
  BY <1>3, CommitTalentKeeps
<1>4. ASSUME NEW x \in Recruiters, RollbackTalent(x)  PROVE TalentInv'
  BY <1>4, RollbackTalentKeeps
<1>5. ASSUME NEW r \in Consultants, ImportResource(r)  PROVE TalentInv'
  BY <1>5, ImportResourceKeeps
<1>6. CASE NextDay
  BY <1>6, NextDayKeeps
<1>7. CASE UNCHANGED talent
  BY <1>7 DEF talent, TalentInv, TalentTypeOK, Asked, AskedShape, AskedInserts,
              AskedStores, AskedColumns
<1>8. QED
  BY <1>1, <1>2, <1>3, <1>4, <1>5, <1>6, <1>7 DEF TalentNext

\* So it always holds.
LEMMA TalentInvariant == TalentSpec => []TalentInv
  BY TalentBegins, TalentPreserved, PTL DEF TalentSpec

\* Every row of the talent cloud has its columns' types, and a document its
\* consultant, whatever requests overlap.
THEOREM TalentKeepsTypes == TalentSpec => []TalentTypeOK
<1>1. TalentInv => TalentTypeOK
  BY DEF TalentInv
<1>2. QED
  BY <1>1, TalentInvariant, PTL

\* The number that the next consultant is given is taken by none, whatever
\* requests overlap and however many rows were imported without a number.
THEOREM CodesStayFree == TalentSpec => []NextCodeIsFree
<1>1. TalentInv => NextCodeIsFree
  BY NextCodeIsNew
<1>2. QED
  BY <1>1, TalentInvariant, PTL

-----------------------------------------------------------------------------
(* Files and their bytes (module Talent).                                  *)

\* The keys that requests under way store are those of no file there is, and of no
\* other request, whether it stores or removes; a request removes nothing while it
\* waits for its row.
KeysApart ==
  /\ \A x \in Recruiters : request[x] # Unasked =>
       /\ request[x].pc = "inserting" => request[x].removes = {}
       /\ DOMAIN request[x].stores \cap DOMAIN documents = {}
  /\ \A x, y \in Recruiters : request[x] # Unasked /\ request[y] # Unasked =>
       /\ DOMAIN request[x].stores \cap request[y].removes = {}
       /\ x # y => DOMAIN request[x].stores \cap DOMAIN request[y].stores = {}

\* FilesMatch, one key at a time.
Matched(objs, docs, reqs) ==
  \A d :
    d \in objs <=>
      /\ \/ d \in DOMAIN docs
         \/ \E x \in Recruiters : reqs[x].pc = "ready" /\ d \in DOMAIN reqs[x].stores
      /\ \A x \in Recruiters :
           reqs[x].pc \in { "ready", "failing" } => d \notin reqs[x].removes

\* That is what it says, before a step and after it.
LEMMA FilesByKey ==
  /\ FilesMatch <=> Matched(objects, documents, request)
  /\ FilesMatch' <=> Matched(objects', documents', request')
<1>1. \A d : d \in adding
               <=> \E x \in Recruiters : request[x].pc = "ready" /\ d \in DOMAIN request[x].stores
  BY DEF adding, in_flight
<1>2. \A d : d \in removing
               <=> \E x \in Recruiters : request[x].pc \in { "ready", "failing" }
                                           /\ d \in request[x].removes
  BY DEF removing, in_flight
<1>3. \A d : d \in adding'
               <=> \E x \in Recruiters : request'[x].pc = "ready" /\ d \in DOMAIN request'[x].stores
  BY DEF adding, in_flight
<1>4. \A d : d \in removing'
               <=> \E x \in Recruiters : request'[x].pc \in { "ready", "failing" }
                                           /\ d \in request'[x].removes
  BY DEF removing, in_flight
<1>5. FilesMatch
        <=> \A d : d \in objects <=> (d \in DOMAIN documents \/ d \in adding) /\ d \notin removing
  BY DEF FilesMatch
<1>6. FilesMatch'
        <=> \A d : d \in objects' <=> (d \in DOMAIN documents' \/ d \in adding') /\ d \notin removing'
  BY DEF FilesMatch
<1>7. FilesMatch <=> Matched(objects, documents, request)
  BY <1>1, <1>2, <1>5 DEF Matched
<1>8. FilesMatch' <=> Matched(objects', documents', request')
  BY <1>3, <1>4, <1>6 DEF Matched
<1>9. QED
  BY <1>7, <1>8

\* A request that begins: what it stores is new, and what it removes is a file; the
\* bytes are already there, or gone, when it is under way.
Began(x, t) ==
  /\ request[x] = Unasked
  /\ request' = [ request EXCEPT ![x] = t ]
  /\ documents' = documents
  /\ AskedShape(t)
  /\ \A d \in DOMAIN t.stores : is_new(d)
  /\ t.removes \subseteq DOMAIN documents
  /\ t.stores = EmptyTable \/ t.removes = {}
  /\ t.pc = "inserting" => t.removes = {} /\ objects' = objects
  /\ t.pc # "inserting" => objects' = (objects \cup DOMAIN t.stores) \ t.removes
  /\ t.pc = "failing" => t.stores = EmptyTable

\* So the keys stay apart and the files as they were.
LEMMA BeganKeepsFiles ==
  ASSUME TalentInv, KeysApart, NEW x \in Recruiters, NEW t, Began(x, t)
  PROVE  KeysApart' /\ (FilesMatch => FilesMatch')
<1>1. /\ DOMAIN request = Recruiters
      /\ t # Unasked /\ t.pc \in { "inserting", "ready", "failing" }
      /\ Unasked.pc = "idle"
      /\ DOMAIN EmptyTable = {}
  <2>1. t.pc \in { "inserting", "ready", "failing" }
    BY DEF Began, AskedShape
  <2>2. Unasked.pc = "idle"
    BY DEF Unasked
  <2>3. QED
    BY <2>1, <2>2 DEF TalentInv, EmptyTable
<1>2. /\ request'[x] = t
      /\ \A y \in Recruiters \ { x } : request'[y] = request[y]
      /\ documents' = documents
  BY <1>1 DEF Began
<1>3. \A d \in DOMAIN t.stores :
        /\ d \notin DOMAIN documents /\ d \notin objects
        /\ \A y \in Recruiters : request[y] # Unasked =>
             d \notin DOMAIN request[y].stores /\ d \notin request[y].removes
  BY NewIds DEF Began
<1>4. DOMAIN t.stores \cap t.removes = {} /\ (t.pc = "inserting" => t.removes = {})
  BY <1>1 DEF Began
<1>5. \A d \in t.removes : d \in DOMAIN documents
  BY DEF Began
<1>6. KeysApart'
  <2>1. ASSUME NEW y \in Recruiters, request'[y] # Unasked
        PROVE  /\ request'[y].pc = "inserting" => request'[y].removes = {}
               /\ DOMAIN request'[y].stores \cap DOMAIN documents' = {}
    BY <1>2, <1>3, <1>4, <2>1 DEF KeysApart
  <2>2. ASSUME NEW y \in Recruiters, NEW z \in Recruiters,
               request'[y] # Unasked, request'[z] # Unasked
        PROVE  /\ DOMAIN request'[y].stores \cap request'[z].removes = {}
               /\ y # z => DOMAIN request'[y].stores \cap DOMAIN request'[z].stores = {}
    BY <1>2, <1>3, <1>4, <1>5, <2>2 DEF KeysApart
  <2>3. QED
    BY <2>1, <2>2 DEF KeysApart
<1>7. ASSUME FilesMatch  PROVE FilesMatch'
  <2>1. Matched(objects, documents, request)
    BY <1>7, FilesByKey
  <2>2. \A y \in Recruiters :
          /\ request[y].pc = "ready" => request[y] # Unasked
          /\ request[y].pc = "failing" => request[y] # Unasked
    BY <1>1
  <2>3. request[x].pc = "idle"
    BY <1>1 DEF Began
  <2>4. CASE t.pc = "inserting"
    <3>1. objects' = objects
      BY <2>4 DEF Began
    <3>2. Matched(objects', documents', request')
      BY <1>2, <2>1, <2>3, <2>4, <3>1 DEF Matched
    <3>3. QED
      BY <3>2, FilesByKey
  <2>5. CASE t.pc # "inserting"
    <3>1. objects' = (objects \cup DOMAIN t.stores) \ t.removes
          /\ (t.pc = "failing" => DOMAIN t.stores = {})
      BY <1>1, <2>5 DEF Began
    <3>2. t.pc \in { "ready", "failing" }
      BY <1>1, <2>5
    <3>3. \A d \in DOMAIN t.stores : \A y \in Recruiters :
            request[y].pc \in { "ready", "failing" } => d \notin request[y].removes
      BY <1>3, <2>2
    <3>4. Matched(objects', documents', request')
      <4>1. ASSUME NEW d
            PROVE  (\E y \in Recruiters : request'[y].pc = "ready" /\ d \in DOMAIN request'[y].stores)
                     <=> \/ d \in DOMAIN t.stores
                         \/ \E y \in Recruiters : request[y].pc = "ready"
                                                    /\ d \in DOMAIN request[y].stores
        BY <1>2, <2>3, <3>1, <3>2
      <4>2. ASSUME NEW d
            PROVE  (\A y \in Recruiters :
                      request'[y].pc \in { "ready", "failing" } => d \notin request'[y].removes)
                     <=> /\ d \notin t.removes
                         /\ \A y \in Recruiters :
                              request[y].pc \in { "ready", "failing" } => d \notin request[y].removes
        BY <1>2, <2>3, <3>2
      <4>3. QED
        BY <1>2, <2>1, <3>1, <3>3, <4>1, <4>2 DEF Matched
    <3>5. QED
      BY <3>4, FilesByKey
  <2>6. QED
    BY <2>4, <2>5
<1>8. QED
  BY <1>6, <1>7

\* What Begins makes of a request.
LEMMA BegunRequest ==
  ASSUME NEW x \in Recruiters, NEW pc \in { "inserting", "ready", "failing" },
         NEW inserts, NEW stores, NEW r_set, NEW d_set, NEW removes,
         Begins(x, pc, inserts, stores, r_set, d_set, removes)
  PROVE  \E t :
           /\ request[x] = Unasked /\ request' = [ request EXCEPT ![x] = t ]
           /\ AskedShape(t) /\ t.pc = pc /\ t.inserts = inserts /\ t.stores = stores
           /\ t.r_set = r_set /\ t.d_set = d_set /\ t.removes = removes
<1>1. PICK no : no = FALSE
  OBVIOUS
<1>2. PICK t : t = [ pc |-> pc, inserts |-> inserts, stores |-> stores,
                     r_set |-> r_set, d_set |-> d_set, removes |-> removes,
                     late |-> no ]
  OBVIOUS
<1>3. request[x] = Unasked /\ request' = [ request EXCEPT ![x] = t ]
  BY <1>1, <1>2 DEF Begins
<1>4. /\ t.pc = pc /\ t.inserts = inserts /\ t.stores = stores
      /\ t.r_set = r_set /\ t.d_set = d_set /\ t.removes = removes
      /\ AskedShape(t)
  BY <1>2 DEF AskedShape
<1>5. QED
  BY <1>3, <1>4

\* Every request begins like that.
LEMMA StartsBegin ==
  ASSUME NEW x \in Recruiters, StartTalent(x)
  PROVE  \E t : Began(x, t)
<1>1. ASSUME NEW r \in Consultants, StartCreateResource(x, r)
      PROVE  \E t : Began(x, t)
  <2>1. /\ Begins(x, "inserting", Row(r, new_resource(next_code)), EmptyTable,
                  EmptyTable, EmptyTable, {})
        /\ documents' = documents /\ objects' = objects
    BY <1>1 DEF StartCreateResource
  <2>2. PICK t : /\ request[x] = Unasked /\ request' = [ request EXCEPT ![x] = t ]
                 /\ AskedShape(t) /\ t.pc = "inserting" /\ t.stores = EmptyTable
                 /\ t.removes = {}
    BY <2>1, BegunRequest
  <2>3. DOMAIN t.stores = {}
    BY <2>2 DEF EmptyTable
  <2>4. QED
    BY <2>1, <2>2, <2>3 DEF Began
<1>2. ASSUME NEW r \in Consultants, NEW d \in Documents, StartParseCV(x, r, d)
      PROVE  \E t : Began(x, t)
  <2>1. PICK cv : cv = Row(d, [ resource |-> r, authorises |-> FALSE, expiry |-> NoDate ])
    OBVIOUS
  <2>2. /\ Begins(x, "inserting", Row(r, new_resource(next_code)), cv,
                  EmptyTable, EmptyTable, {})
        /\ documents' = documents /\ objects' = objects /\ is_new(d)
    BY <1>2, <2>1 DEF StartParseCV
  <2>3. PICK t : /\ request[x] = Unasked /\ request' = [ request EXCEPT ![x] = t ]
                 /\ AskedShape(t) /\ t.pc = "inserting" /\ t.stores = cv
                 /\ t.removes = {}
    BY <2>2, BegunRequest
  <2>4. DOMAIN t.stores = { d }
    BY <2>1, <2>3 DEF Row
  <2>5. QED
    BY <2>2, <2>3, <2>4 DEF Began
<1>3. ASSUME NEW r, NEW row, Rewrites(x, r, row)
      PROVE  \E t : Began(x, t)
  <2>1. /\ Begins(x, "ready", EmptyTable, EmptyTable, Row(r, altered(resources[r], row)),
                  EmptyTable, {})
        /\ documents' = documents /\ objects' = objects
    BY <1>3 DEF Rewrites
  <2>2. PICK t : /\ request[x] = Unasked /\ request' = [ request EXCEPT ![x] = t ]
                 /\ AskedShape(t) /\ t.pc = "ready" /\ t.stores = EmptyTable
                 /\ t.removes = {}
    BY <2>1, BegunRequest
  <2>3. DOMAIN t.stores = {}
    BY <2>2 DEF EmptyTable
  <2>4. QED
    BY <2>1, <2>2, <2>3 DEF Began
<1>4. ASSUME NEW r, NEW d, NEW a, NEW e, StartAddDocument(x, r, d, a, e)
      PROVE  \E t : Began(x, t)
  <2>1. PICK row : row = [ resource |-> r, authorises |-> a, expiry |-> e ]
    OBVIOUS
  <2>2. /\ Begins(x, "ready", EmptyTable, Row(d, row),
                  refreshed(Put(documents, d, row), r), EmptyTable, {})
        /\ documents' = documents /\ objects' = objects \cup { d } /\ is_new(d)
    BY <1>4, <2>1 DEF StartAddDocument
  <2>3. PICK t : /\ request[x] = Unasked /\ request' = [ request EXCEPT ![x] = t ]
                 /\ AskedShape(t) /\ t.pc = "ready" /\ t.stores = Row(d, row)
                 /\ t.removes = {}
    BY <2>2, BegunRequest
  <2>4. DOMAIN t.stores = { d }
    BY <2>3 DEF Row
  <2>5. QED
    BY <2>2, <2>3, <2>4 DEF Began
<1>5. ASSUME NEW d, NEW e, StartUpdateDocument(x, d, e)
      PROVE  \E t : Began(x, t)
  <2>1. PICK row : row = [ documents[d] EXCEPT !.expiry = e ]
    OBVIOUS
  <2>2. /\ Begins(x, "ready", EmptyTable, EmptyTable,
                  refreshed(Put(documents, d, row), documents[d].resource),
                  Row(d, altered(documents[d], row)), {})
        /\ documents' = documents /\ objects' = objects
    BY <1>5, <2>1 DEF StartUpdateDocument
  <2>3. PICK t : /\ request[x] = Unasked /\ request' = [ request EXCEPT ![x] = t ]
                 /\ AskedShape(t) /\ t.pc = "ready" /\ t.stores = EmptyTable
                 /\ t.removes = {}
    BY <2>2, BegunRequest
  <2>4. DOMAIN t.stores = {}
    BY <2>3 DEF EmptyTable
  <2>5. QED
    BY <2>2, <2>3, <2>4 DEF Began
<1>6. ASSUME NEW d, StartDeleteDocument(x, d)
      PROVE  \E t : Began(x, t)
  <2>1. /\ documents' = documents /\ objects' = objects \ { d } /\ d \in DOMAIN documents
        /\ \E pc \in { "ready", "failing" } : \E r_set :
             Begins(x, pc, EmptyTable, EmptyTable, r_set, EmptyTable, { d })
    BY <1>6 DEF StartDeleteDocument
  <2>2. PICK pc \in { "ready", "failing" } :
          \E r_set : Begins(x, pc, EmptyTable, EmptyTable, r_set, EmptyTable, { d })
    BY <2>1
  <2>3. PICK r_set : Begins(x, pc, EmptyTable, EmptyTable, r_set, EmptyTable, { d })
    BY <2>2
  <2>4. PICK t : /\ request[x] = Unasked /\ request' = [ request EXCEPT ![x] = t ]
                 /\ AskedShape(t) /\ t.pc = pc /\ t.stores = EmptyTable
                 /\ t.removes = { d }
    BY <2>3, BegunRequest
  <2>5. DOMAIN t.stores = {}
    BY <2>4 DEF EmptyTable
  <2>6. QED
    BY <2>1, <2>4, <2>5 DEF Began
<1>7. QED
  BY <1>1, <1>2, <1>3, <1>4, <1>5, <1>6
     DEF StartTalent, StartUpdateResource, StartArchiveResource

\* A request that goes on as it was, or later, or ends, leaves the keys apart.
LEMMA KeysStayApart ==
  ASSUME TalentInv, KeysApart,
         \A x \in Recruiters : \/ request'[x] = Unasked
                               \/ /\ request[x] # Unasked
                                  /\ request'[x].stores = request[x].stores
                                  /\ request'[x].removes = request[x].removes
                                  /\ request'[x].pc = "inserting" => request[x].pc = "inserting",
         \A x \in Recruiters : request'[x] # Unasked =>
           DOMAIN request[x].stores \cap DOMAIN documents' = {}
  PROVE  KeysApart'
<1>1. ASSUME NEW x \in Recruiters, request'[x] # Unasked
      PROVE  /\ request[x] # Unasked
             /\ request'[x].stores = request[x].stores
             /\ request'[x].removes = request[x].removes
             /\ request'[x].pc = "inserting" => request[x].pc = "inserting"
             /\ DOMAIN request'[x].stores \cap DOMAIN documents' = {}
  BY <1>1
<1>2. ASSUME NEW x \in Recruiters, request'[x] # Unasked
      PROVE  /\ request'[x].pc = "inserting" => request'[x].removes = {}
             /\ DOMAIN request'[x].stores \cap DOMAIN documents' = {}
  BY <1>1, <1>2 DEF KeysApart
<1>3. ASSUME NEW x \in Recruiters, NEW y \in Recruiters,
             request'[x] # Unasked, request'[y] # Unasked
      PROVE  /\ DOMAIN request'[x].stores \cap request'[y].removes = {}
             /\ x # y => DOMAIN request'[x].stores \cap DOMAIN request'[y].stores = {}
  BY <1>1, <1>3 DEF KeysApart
<1>4. QED
  BY <1>2, <1>3 DEF KeysApart

\* Overtaken, a request is otherwise what it was.
LEMMA LateRequest ==
  ASSUME NEW t, AskedShape(t)
  PROVE  LET u == [ t EXCEPT !.late = TRUE ] IN
         /\ u # Unasked /\ u.late /\ u.pc = t.pc /\ u.stores = t.stores
         /\ u.removes = t.removes
<1>1. PICK pc, inserts, stores, r_set, d_set, removes, late :
        /\ t = [ pc |-> pc, inserts |-> inserts, stores |-> stores, r_set |-> r_set,
                 d_set |-> d_set, removes |-> removes, late |-> late ]
        /\ pc \in { "inserting", "ready", "failing" }
  BY DEF AskedShape
<1>2. PICK yes : yes = TRUE
  OBVIOUS
<1>3. PICK u : u = [ t EXCEPT !.late = yes ]
  OBVIOUS
<1>4. /\ u.late = yes /\ u.pc = t.pc /\ u.stores = t.stores /\ u.removes = t.removes
      /\ u.pc \in { "inserting", "ready", "failing" }
  BY <1>1, <1>3
<1>5. u # Unasked
  BY <1>4 DEF Unasked
<1>6. u = [ t EXCEPT !.late = TRUE ]
  BY <1>2, <1>3
<1>7. QED
  BY <1>2, <1>4, <1>5, <1>6

\* What becomes of the requests when x ends and the others are late.
LEMMA Outrun ==
  ASSUME TalentInv, NEW x \in Recruiters, request' = outrun(x)
  PROVE  /\ request'[x] = Unasked
         /\ \A y \in Recruiters \ { x } :
              \/ request[y] = Unasked /\ request'[y] = Unasked
              \/ /\ request[y] # Unasked /\ request'[y] # Unasked
                 /\ request'[y].late /\ request'[y].pc = request[y].pc
                 /\ request'[y].stores = request[y].stores
                 /\ request'[y].removes = request[y].removes
<1>1. request'[x] = Unasked
  BY DEF outrun
<1>2. ASSUME NEW y \in Recruiters \ { x }
      PROVE  \/ request[y] = Unasked /\ request'[y] = Unasked
             \/ /\ request[y] # Unasked /\ request'[y] # Unasked
                /\ request'[y].late /\ request'[y].pc = request[y].pc
                /\ request'[y].stores = request[y].stores
                /\ request'[y].removes = request[y].removes
  <2>1. CASE request[y] = Unasked
    BY <2>1 DEF outrun
  <2>2. CASE request[y] # Unasked
    <3>1. request'[y] = [ request[y] EXCEPT !.late = TRUE ]
      BY <2>2 DEF outrun
    <3>2. AskedShape(request[y])
      BY <2>2 DEF TalentInv, Asked
    <3>3. QED
      BY <2>2, <3>1, <3>2, LateRequest
  <2>3. QED
    BY <2>1, <2>2
<1>3. QED
  BY <1>1, <1>2

\* The row is there: the bytes are stored and the document will be added.
LEMMA InsertKeepsFiles ==
  ASSUME TalentInv, KeysApart, NEW x \in Recruiters, Insert(x)
  PROVE  KeysApart' /\ (FilesMatch => FilesMatch')
<1>1. /\ request[x].pc = "inserting" /\ documents' = documents
      /\ objects' = objects \cup DOMAIN request[x].stores
      /\ request' = [ request EXCEPT ![x] = [ request[x] EXCEPT !.pc = "ready" ] ]
  BY DEF Insert
<1>2. Unasked.pc = "idle"
  BY DEF Unasked
<1>3. request[x] # Unasked /\ DOMAIN request = Recruiters /\ AskedShape(request[x])
  BY <1>1, <1>2 DEF TalentInv, Asked
<1>4. /\ request'[x].pc = "ready" /\ request'[x] # Unasked
      /\ request'[x].stores = request[x].stores
      /\ request'[x].removes = request[x].removes
  <2>1. PICK t : t = request[x] /\ AskedShape(t)
    BY <1>3
  <2>2. PICK u : u = [ t EXCEPT !.pc = "ready" ]
    OBVIOUS
  <2>3. u.pc = "ready" /\ u.stores = t.stores /\ u.removes = t.removes
    BY <2>1, <2>2 DEF AskedShape
  <2>4. request'[x] = u
    BY <1>1, <1>3, <2>1, <2>2
  <2>5. QED
    BY <1>2, <2>1, <2>3, <2>4
<1>5. \A y \in Recruiters \ { x } : request'[y] = request[y]
  BY <1>1, <1>3
<1>6. KeysApart'
  <2>1. \A y \in Recruiters : \/ request'[y] = Unasked
                              \/ /\ request[y] # Unasked
                                 /\ request'[y].stores = request[y].stores
                                 /\ request'[y].removes = request[y].removes
                                 /\ request'[y].pc = "inserting" => request[y].pc = "inserting"
    BY <1>3, <1>4, <1>5
  <2>2. \A y \in Recruiters : request'[y] # Unasked =>
          DOMAIN request[y].stores \cap DOMAIN documents' = {}
    BY <1>1, <1>3, <1>5 DEF KeysApart
  <2>3. QED
    BY <2>1, <2>2, KeysStayApart
<1>7. ASSUME FilesMatch  PROVE FilesMatch'
  <2>1. Matched(objects, documents, request)
    BY <1>7, FilesByKey
  <2>2. request[x].removes = {}
    BY <1>1, <1>3 DEF KeysApart
  <2>3. \A d \in DOMAIN request[x].stores : \A y \in Recruiters :
          request[y].pc \in { "ready", "failing" } => d \notin request[y].removes
    BY <1>2, <1>3 DEF KeysApart
  <2>4. ASSUME NEW d
        PROVE  (\E y \in Recruiters : request'[y].pc = "ready" /\ d \in DOMAIN request'[y].stores)
                 <=> \/ d \in DOMAIN request[x].stores
                     \/ \E y \in Recruiters : request[y].pc = "ready"
                                                /\ d \in DOMAIN request[y].stores
    BY <1>1, <1>4, <1>5
  <2>5. ASSUME NEW d
        PROVE  (\A y \in Recruiters :
                  request'[y].pc \in { "ready", "failing" } => d \notin request'[y].removes)
                 <=> \A y \in Recruiters :
                       request[y].pc \in { "ready", "failing" } => d \notin request[y].removes
    BY <1>1, <1>4, <1>5, <2>2
  <2>6. Matched(objects', documents', request')
    BY <1>1, <2>1, <2>3, <2>4, <2>5 DEF Matched
  <2>7. QED
    BY <2>6, FilesByKey
<1>8. QED
  BY <1>6, <1>7

\* A commit adds the files of what it stored and takes away what it removed.
LEMMA CommitKeepsFiles ==
  ASSUME TalentInv, KeysApart, NEW x \in Recruiters, CommitTalent(x)
  PROVE  KeysApart' /\ (FilesMatch => FilesMatch')
<1>1. /\ request[x].pc = "ready" /\ objects' = objects /\ request' = outrun(x)
      /\ DOMAIN documents' =
           (DOMAIN documents \cup DOMAIN request[x].stores) \ request[x].removes
  <2>1. PICK t : t = request[x]
    OBVIOUS
  <2>2. documents' = Select(PutAll(updated(documents, t.d_set), t.stores),
                            (DOMAIN documents \cup DOMAIN t.stores) \ t.removes)
    BY <2>1 DEF CommitTalent
  <2>3. DOMAIN documents' = (DOMAIN documents \cup DOMAIN t.stores) \ t.removes
    BY <2>2 DEF Select, PutAll, updated
  <2>4. QED
    BY <2>1, <2>3 DEF CommitTalent
<1>2. request[x] # Unasked
  BY <1>1 DEF Unasked
<1>3. /\ request'[x] = Unasked
      /\ \A y \in Recruiters \ { x } :
           \/ request[y] = Unasked /\ request'[y] = Unasked
           \/ /\ request[y] # Unasked /\ request'[y] # Unasked
              /\ request'[y].pc = request[y].pc
              /\ request'[y].stores = request[y].stores
              /\ request'[y].removes = request[y].removes
  BY <1>1, Outrun
<1>4. Unasked.pc = "idle"
  BY DEF Unasked
<1>5. KeysApart'
  <2>1. \A y \in Recruiters : request'[y] # Unasked =>
          DOMAIN request[y].stores \cap DOMAIN documents' = {}
    BY <1>1, <1>2, <1>3 DEF KeysApart
  <2>2. QED
    BY <1>3, <2>1, KeysStayApart
<1>6. ASSUME FilesMatch  PROVE FilesMatch'
  <2>1. Matched(objects, documents, request)
    BY <1>6, FilesByKey
  <2>2. \A y \in Recruiters \ { x } :
          request[y].pc = "ready" => DOMAIN request[y].stores \cap request[x].removes = {}
    BY <1>2, <1>4 DEF KeysApart
  <2>3. \A y \in Recruiters \ { x } :
          /\ request'[y].pc = request[y].pc
          /\ request'[y].pc \in { "ready", "failing" } =>
               /\ request'[y].stores = request[y].stores
               /\ request'[y].removes = request[y].removes
    BY <1>3, <1>4
  <2>4. request'[x].pc = "idle"
    BY <1>3, <1>4
  <2>5. ASSUME NEW d
        PROVE  (\E y \in Recruiters : request[y].pc = "ready" /\ d \in DOMAIN request[y].stores)
                 <=> \/ d \in DOMAIN request[x].stores
                     \/ \E y \in Recruiters : request'[y].pc = "ready"
                                                /\ d \in DOMAIN request'[y].stores
    BY <1>1, <2>3, <2>4
  <2>6. ASSUME NEW d
        PROVE  (\A y \in Recruiters :
                  request[y].pc \in { "ready", "failing" } => d \notin request[y].removes)
                 <=> /\ d \notin request[x].removes
                     /\ \A y \in Recruiters :
                          request'[y].pc \in { "ready", "failing" } => d \notin request'[y].removes
    BY <1>1, <2>3, <2>4
  <2>7. ASSUME NEW d
        PROVE  (\E y \in Recruiters : request'[y].pc = "ready" /\ d \in DOMAIN request'[y].stores)
                 => d \notin request[x].removes
    BY <2>2, <2>3, <2>4
  <2>8. Matched(objects', documents', request')
    BY <1>1, <2>1, <2>5, <2>6, <2>7 DEF Matched
  <2>9. QED
    BY <2>8, FilesByKey
<1>7. QED
  BY <1>5, <1>6

\* What ends cleanly and commits nothing was still waiting for its row.
LEMMA RollbackKeepsFiles ==
  ASSUME TalentInv, KeysApart, NEW x \in Recruiters, RollbackTalent(x)
  PROVE  KeysApart' /\ (FilesMatch /\ CleanEnds => FilesMatch')
<1>1. /\ request[x] # Unasked /\ request' = [ request EXCEPT ![x] = Unasked ]
      /\ resources' = resources /\ documents' = documents /\ objects' = objects
      /\ DOMAIN request = Recruiters
  BY DEF RollbackTalent, TalentInv
<1>2. request'[x] = Unasked /\ \A y \in Recruiters \ { x } : request'[y] = request[y]
  BY <1>1
<1>3. KeysApart'
  <2>1. \A y \in Recruiters : \/ request'[y] = Unasked
                              \/ /\ request[y] # Unasked
                                 /\ request'[y].stores = request[y].stores
                                 /\ request'[y].removes = request[y].removes
                                 /\ request'[y].pc = "inserting" => request[y].pc = "inserting"
    BY <1>2
  <2>2. \A y \in Recruiters : request'[y] # Unasked =>
          DOMAIN request[y].stores \cap DOMAIN documents' = {}
    BY <1>1, <1>2 DEF KeysApart
  <2>3. QED
    BY <2>1, <2>2, KeysStayApart
<1>4. ASSUME FilesMatch, CleanEnds  PROVE FilesMatch'
  <2>1. x \in ended
    BY <1>1, <1>2 DEF ended
  <2>2. request[x].pc = "inserting"
    BY <1>1, <1>4, <2>1 DEF CleanEnds
  <2>3. Unasked.pc = "idle"
    BY DEF Unasked
  <2>4. Matched(objects, documents, request)
    BY <1>4, FilesByKey
  <2>5. Matched(objects', documents', request')
    BY <1>1, <1>2, <2>2, <2>3, <2>4 DEF Matched
  <2>6. QED
    BY <2>5, FilesByKey
<1>5. QED
  BY <1>3, <1>4

\* Midnight overtakes all.
LEMMA NextDayKeepsFiles ==
  ASSUME TalentInv, KeysApart, NextDay
  PROVE  KeysApart' /\ (FilesMatch => FilesMatch')
<1>1. documents' = documents /\ objects' = objects
  BY DEF NextDay
<1>2. \A y \in Recruiters :
        \/ request[y] = Unasked /\ request'[y] = Unasked
        \/ /\ request[y] # Unasked /\ request'[y] # Unasked
           /\ request'[y].pc = request[y].pc
           /\ request'[y].stores = request[y].stores
           /\ request'[y].removes = request[y].removes
  <2>1. SUFFICES ASSUME NEW y \in Recruiters, request[y] # Unasked
                 PROVE  /\ request'[y] # Unasked
                        /\ request'[y].pc = request[y].pc
                        /\ request'[y].stores = request[y].stores
                        /\ request'[y].removes = request[y].removes
    BY DEF NextDay
  <2>2. request'[y] = [ request[y] EXCEPT !.late = TRUE ]
    BY <2>1 DEF NextDay
  <2>3. AskedShape(request[y])
    BY <2>1 DEF TalentInv, Asked
  <2>4. QED
    BY <2>2, <2>3, LateRequest
<1>3. KeysApart'
  <2>1. \A y \in Recruiters : request'[y] # Unasked =>
          DOMAIN request[y].stores \cap DOMAIN documents' = {}
    BY <1>1, <1>2 DEF KeysApart
  <2>2. QED
    BY <1>2, <2>1, KeysStayApart
<1>4. ASSUME FilesMatch  PROVE FilesMatch'
  <2>1. Matched(objects, documents, request)
    BY <1>4, FilesByKey
  <2>2. Unasked.pc = "idle"
    BY DEF Unasked
  <2>3. \A y \in Recruiters :
          /\ request'[y].pc = request[y].pc
          /\ request'[y].pc \in { "ready", "failing" } =>
               /\ request'[y].stores = request[y].stores
               /\ request'[y].removes = request[y].removes
    BY <1>2, <2>2
  <2>4. Matched(objects', documents', request')
    BY <1>1, <2>1, <2>3 DEF Matched
  <2>5. QED
    BY <2>4, FilesByKey
<1>5. QED
  BY <1>3, <1>4

\* Every step of the talent cloud.
LEMMA StepKeepsFiles ==
  ASSUME TalentInv, KeysApart, [TalentNext]_talent
  PROVE  KeysApart' /\ (FilesMatch /\ CleanEnds => FilesMatch')
<1>1. ASSUME NEW x \in Recruiters, StartTalent(x)
      PROVE  KeysApart' /\ (FilesMatch /\ CleanEnds => FilesMatch')
  BY <1>1, StartsBegin, BeganKeepsFiles
<1>2. ASSUME NEW x \in Recruiters, Insert(x)
      PROVE  KeysApart' /\ (FilesMatch /\ CleanEnds => FilesMatch')
  BY <1>2, InsertKeepsFiles
<1>3. ASSUME NEW x \in Recruiters, CommitTalent(x)
      PROVE  KeysApart' /\ (FilesMatch /\ CleanEnds => FilesMatch')
  BY <1>3, CommitKeepsFiles
<1>4. ASSUME NEW x \in Recruiters, RollbackTalent(x)
      PROVE  KeysApart' /\ (FilesMatch /\ CleanEnds => FilesMatch')
  BY <1>4, RollbackKeepsFiles
<1>5. ASSUME UNCHANGED << documents, objects, request >>
      PROVE  KeysApart' /\ (FilesMatch /\ CleanEnds => FilesMatch')
  BY <1>5, FilesByKey DEF KeysApart, Matched
<1>6. CASE NextDay
  BY <1>6, NextDayKeepsFiles
<1>7. QED
  BY <1>1, <1>2, <1>3, <1>4, <1>5, <1>6 DEF TalentNext, ImportResource, talent

\* Bytes without a file, or a file without bytes, are left by nothing but a request
\* that was undone after it had touched the store, or that changed nothing.
THEOREM UndoneRequestsAloneLoseFiles == TalentSpec => OnlyUndoneRequestsLoseFiles
<1> DEFINE Keeps == FilesMatch /\ CleanEnds => FilesMatch'
<1>1. TalentInit => KeysApart
  BY DEF TalentInit, KeysApart
<1>2. TalentInv /\ KeysApart /\ [TalentNext]_talent => KeysApart'
  BY StepKeepsFiles
<1>3. TalentInv /\ KeysApart /\ [TalentNext]_talent => [Keeps]_talent
  BY StepKeepsFiles
<1>4. QED
  BY <1>1, <1>2, <1>3, TalentInvariant, PTL DEF TalentSpec, OnlyUndoneRequestsLoseFiles

-----------------------------------------------------------------------------
(* Documents and the visa status (module Talent).                          *)

\* The documents and the consultants when a request's writes are in the tables.
DocsAfter(docs, t) ==
  Select(PutAll(updated(docs, t.d_set), t.stores),
         (DOMAIN docs \cup DOMAIN t.stores) \ t.removes)

RowsAfter(rows, t) == PutAll(updated(rows, t.r_set), t.inserts)

\* A request that changes a consultant's documents sets the visa status they give.
VisasKept(t) ==
  \A r \in DOMAIN resources :
    documents_of(documents, r) # documents_of(DocsAfter(documents, t), r)
      => RowsAfter(resources, t)[r].visa = derive_visa_status(DocsAfter(documents, t), r)

\* So does every one that will commit and was not overtaken.
VisasInv ==
  \A x \in Recruiters :
    request[x] # Unasked /\ request[x].pc # "failing" /\ ~ request[x].late
      => VisasKept(request[x])

\* The rows of the documents afterwards, one by one.
Leaves(all, docs, t) ==
  /\ all = [ d \in DOMAIN all |-> all[d] ]
  /\ DOMAIN all = (DOMAIN docs \cup DOMAIN t.stores) \ t.removes
  /\ \A d \in DOMAIN all :
       /\ d \in DOMAIN t.stores => all[d] = t.stores[d]
       /\ d \notin DOMAIN t.stores /\ d \notin DOMAIN t.d_set => all[d] = docs[d]
       /\ d \notin DOMAIN t.stores /\ d \in DOMAIN t.d_set =>
            all[d] = [ c \in DOMAIN docs[d] |->
                         IF c \in DOMAIN t.d_set[d] THEN t.d_set[d][c]
                         ELSE docs[d][c] ]

\* They are what the tables are made of.
LEMMA RowsOfDocsAfter ==
  ASSUME NEW docs, NEW t
  PROVE  Leaves(DocsAfter(docs, t), docs, t)
<1>1. PICK keys : keys = (DOMAIN docs \cup DOMAIN t.stores) \ t.removes
  OBVIOUS
<1>2. PICK new : new = updated(docs, t.d_set)
  OBVIOUS
<1>3. /\ DOMAIN new = DOMAIN docs
      /\ \A d \in DOMAIN docs :
           /\ d \notin DOMAIN t.d_set => new[d] = docs[d]
           /\ d \in DOMAIN t.d_set =>
                new[d] = [ c \in DOMAIN docs[d] |->
                             IF c \in DOMAIN t.d_set[d] THEN t.d_set[d][c]
                             ELSE docs[d][c] ]
  BY <1>2 DEF updated
<1>4. PICK put : put = PutAll(new, t.stores)
  OBVIOUS
<1>5. /\ DOMAIN put = DOMAIN docs \cup DOMAIN t.stores
      /\ \A d \in DOMAIN put : put[d] = IF d \in DOMAIN t.stores THEN t.stores[d] ELSE new[d]
  BY <1>3, <1>4 DEF PutAll
<1>6. PICK all : all = Select(put, keys)
  OBVIOUS
<1>7. /\ all = [ d \in DOMAIN all |-> all[d] ]
      /\ DOMAIN all = keys
      /\ \A d \in keys : all[d] = put[d]
  BY <1>1, <1>5, <1>6 DEF Select
<1>8. all = DocsAfter(docs, t)
  BY <1>1, <1>2, <1>4, <1>6 DEF DocsAfter
<1>9. \A d \in DOMAIN all :
        /\ d \in DOMAIN t.stores => all[d] = t.stores[d]
        /\ d \notin DOMAIN t.stores /\ d \notin DOMAIN t.d_set => all[d] = docs[d]
        /\ d \notin DOMAIN t.stores /\ d \in DOMAIN t.d_set =>
             all[d] = [ c \in DOMAIN docs[d] |->
                          IF c \in DOMAIN t.d_set[d] THEN t.d_set[d][c] ELSE docs[d][c] ]
  BY <1>1, <1>3, <1>5, <1>7
<1>10. Leaves(all, docs, t)
  BY <1>1, <1>7, <1>9 DEF Leaves
<1>11. QED
  BY <1>8, <1>10

\* Tables are equal when their rows are.
LEMMA SameTable ==
  ASSUME NEW f, NEW g, f = [ k \in DOMAIN f |-> f[k] ], g = [ k \in DOMAIN g |-> g[k] ],
         DOMAIN f = DOMAIN g, \A k \in DOMAIN f : f[k] = g[k]
  PROVE  f = g
  OBVIOUS

\* The documents of a consultant are the same when those that are his are.
LEMMA SameDocuments ==
  ASSUME NEW docs, NEW new, NEW r,
         \A d : d \in DOMAIN docs /\ docs[d].resource = r
                  <=> d \in DOMAIN new /\ new[d].resource = r,
         \A d \in DOMAIN docs : docs[d].resource = r => new[d] = docs[d]
  PROVE  documents_of(docs, r) = documents_of(new, r)
<1>1. PICK his : his = { d \in DOMAIN docs : docs[d].resource = r }
  OBVIOUS
<1>2. his = { d \in DOMAIN new : new[d].resource = r }
  BY <1>1
<1>3. Select(docs, his) = [ d \in his |-> docs[d] ]
  BY <1>1 DEF Select
<1>4. Select(new, his) = [ d \in his |-> new[d] ]
  BY <1>2 DEF Select
<1>5. \A d \in his : docs[d] = new[d]
  BY <1>1
<1>6. QED
  BY <1>1, <1>2, <1>3, <1>4, <1>5 DEF documents_of

\* Whether a request keeps the visas is a matter of what it writes.
LEMMA VisasKeptByWrites ==
  ASSUME NEW t, NEW u, VisasKept(t),
         u.stores = t.stores, u.d_set = t.d_set, u.removes = t.removes,
         u.r_set = t.r_set, u.inserts = t.inserts
  PROVE  VisasKept(u)
<1>1. DocsAfter(documents, u) = DocsAfter(documents, t)
      /\ RowsAfter(resources, u) = RowsAfter(resources, t)
  BY DEF DocsAfter, RowsAfter
<1>2. QED
  BY <1>1 DEF VisasKept

\* A request that looks up the documents as it leaves them keeps the visas.
LEMMA RefreshKeepsVisas ==
  ASSUME TalentInv, NEW t, NEW docs, NEW r \in DOMAIN resources,
         DocsAfter(documents, t) = docs, t.inserts = EmptyTable,
         t.r_set = refreshed(docs, r),
         \A s \in DOMAIN resources \ { r } :
           documents_of(documents, s) = documents_of(docs, s)
  PROVE  VisasKept(t)
<1>1. resources[r] \in ResourceRow
  BY DEF TalentInv, TalentTypeOK, IsTable
<1>2. "visa" \in DOMAIN resources[r]
  BY <1>1 DEF ResourceRow
<1>3. PICK visa : visa = derive_visa_status(docs, r)
  OBVIOUS
<1>4. PICK sets : sets = IF resources[r].visa = visa THEN EmptyTable ELSE [ visa |-> visa ]
  OBVIOUS
<1>5. t.r_set = Row(r, sets)
  BY <1>3, <1>4 DEF refreshed
<1>6. DOMAIN t.r_set = { r } /\ t.r_set[r] = sets
  BY <1>5 DEF Row
<1>7. PICK row : row = [ c \in DOMAIN resources[r] |->
                           IF c \in DOMAIN sets THEN sets[c] ELSE resources[r][c] ]
  OBVIOUS
<1>8. row.visa = visa
  <2>1. CASE resources[r].visa = visa
    BY <1>2, <1>4, <1>7, <2>1 DEF EmptyTable
  <2>2. CASE resources[r].visa # visa
    <3>1. sets = [ visa |-> visa ]
      BY <1>4, <2>2
    <3>2. "visa" \in DOMAIN sets /\ sets["visa"] = visa
      BY <3>1
    <3>3. QED
      BY <1>2, <1>7, <3>2
  <2>3. QED
    BY <2>1, <2>2
<1>9. RowsAfter(resources, t)[r] = row
  <2>1. PICK new : new = updated(resources, t.r_set)
    OBVIOUS
  <2>2. DOMAIN new = DOMAIN resources /\ new[r] = row
    BY <1>6, <1>7, <2>1 DEF updated
  <2>3. PutAll(new, EmptyTable)[r] = new[r]
    BY <2>2 DEF PutAll, EmptyTable
  <2>4. QED
    BY <2>1, <2>2, <2>3 DEF RowsAfter
<1>10. QED
  BY <1>3, <1>8, <1>9 DEF VisasKept

\* A request that leaves each consultant his documents keeps the visas.
LEMMA SameDocumentsKeepVisas ==
  ASSUME NEW t,
         \A r \in DOMAIN resources :
           documents_of(documents, r) = documents_of(DocsAfter(documents, t), r)
  PROVE  VisasKept(t)
  BY DEF VisasKept

\* A request begins that keeps the visas, or that fails.
StartsKept(x) ==
  \E t : /\ request[x] = Unasked /\ request' = [ request EXCEPT ![x] = t ]
         /\ t.pc # "failing" => VisasKept(t)
         /\ UNCHANGED << day, resources, documents >>

\* POST /resources and /resources/parse-cv: the CV is of a new consultant.
LEMMA NewConsultantKeepsVisas ==
  ASSUME TalentInv, NEW x \in Recruiters, NEW r, is_new(r), NEW stores,
         Begins(x, "inserting", Row(r, new_resource(next_code)), stores,
                EmptyTable, EmptyTable, {}),
         UNCHANGED << day, resources, documents >>,
         \A d \in DOMAIN stores : is_new(d) /\ stores[d].resource = r
  PROVE  StartsKept(x)
<1>1. PICK t : /\ request[x] = Unasked /\ request' = [ request EXCEPT ![x] = t ]
               /\ t.stores = stores /\ t.d_set = EmptyTable /\ t.removes = {}
  BY BegunRequest
<1>2. r \notin DOMAIN resources /\ \A d \in DOMAIN stores : d \notin DOMAIN documents
  BY NewIds
<1>3. PICK new : /\ new = DocsAfter(documents, t)
                 /\ Leaves(new, documents, t)
  BY RowsOfDocsAfter
<1>4. /\ DOMAIN new = DOMAIN documents \cup DOMAIN stores
      /\ \A d \in DOMAIN stores : new[d] = stores[d]
      /\ \A d \in DOMAIN documents : new[d] = documents[d]
  BY <1>1, <1>2, <1>3 DEF Leaves, EmptyTable
<1>5. ASSUME NEW s \in DOMAIN resources
      PROVE  documents_of(documents, s) = documents_of(new, s)
  <2>1. \A d : d \in DOMAIN documents /\ documents[d].resource = s
                 <=> d \in DOMAIN new /\ new[d].resource = s
    BY <1>2, <1>4
  <2>2. \A d \in DOMAIN documents : documents[d].resource = s => new[d] = documents[d]
    BY <1>4
  <2>3. QED
    BY <2>1, <2>2, SameDocuments
<1>6. VisasKept(t)
  BY <1>3, <1>5, SameDocumentsKeepVisas
<1>7. QED
  BY <1>1, <1>6 DEF StartsKept

\* PATCH and DELETE of a consultant change no document.
LEMMA RewriteKeepsVisas ==
  ASSUME TalentInv, NEW x \in Recruiters, NEW r, NEW row, Rewrites(x, r, row)
  PROVE  StartsKept(x)
<1>1. PICK none : none = EmptyTable /\ DOMAIN none = {}
  BY DEF EmptyTable
<1>2. /\ Begins(x, "ready", none, none, Row(r, altered(resources[r], row)), none, {})
      /\ UNCHANGED << day, resources, documents >>
  BY <1>1 DEF Rewrites
<1>3. PICK t : /\ request[x] = Unasked /\ request' = [ request EXCEPT ![x] = t ]
               /\ t.stores = none /\ t.d_set = none /\ t.removes = {}
  BY <1>2, BegunRequest
<1>4. PICK new : /\ new = DocsAfter(documents, t)
                 /\ Leaves(new, documents, t)
  BY RowsOfDocsAfter
<1>5. /\ DOMAIN new = DOMAIN documents
      /\ \A d \in DOMAIN documents : new[d] = documents[d]
  BY <1>1, <1>3, <1>4 DEF Leaves
<1>6. \A s \in DOMAIN resources : documents_of(documents, s) = documents_of(new, s)
  BY <1>5, SameDocuments
<1>7. QED
  BY <1>2, <1>3, <1>4, <1>6, SameDocumentsKeepVisas DEF StartsKept

\* POST /resources/{id}/documents.
LEMMA AddDocumentKeepsVisas ==
  ASSUME TalentInv, NEW x \in Recruiters, NEW r, NEW d, NEW a, NEW e,
         StartAddDocument(x, r, d, a, e)
  PROVE  StartsKept(x)
<1>1. PICK row : row = [ resource |-> r, authorises |-> a, expiry |-> e ]
  OBVIOUS
<1>2. PICK docs : docs = Put(documents, d, row)
  OBVIOUS
<1>3. /\ Begins(x, "ready", EmptyTable, Row(d, row), refreshed(docs, r), EmptyTable, {})
      /\ UNCHANGED << day, resources, documents >>
      /\ found(r) /\ is_new(d)
  BY <1>1, <1>2 DEF StartAddDocument
<1>4. PICK t : /\ request[x] = Unasked /\ request' = [ request EXCEPT ![x] = t ]
               /\ t.stores = Row(d, row) /\ t.d_set = EmptyTable /\ t.removes = {}
               /\ t.inserts = EmptyTable /\ t.r_set = refreshed(docs, r)
  BY <1>3, BegunRequest
<1>5. r \in DOMAIN resources /\ d \notin DOMAIN documents
  BY <1>3, NewIds DEF found
<1>6. DOMAIN t.stores = { d } /\ t.stores[d] = row /\ DOMAIN t.d_set = {}
  BY <1>4 DEF Row, EmptyTable
<1>7. PICK new : /\ new = DocsAfter(documents, t)
                 /\ Leaves(new, documents, t)
  BY RowsOfDocsAfter
<1>8. /\ new = [ k \in DOMAIN new |-> new[k] ]
      /\ DOMAIN new = DOMAIN documents \cup { d } /\ new[d] = row
      /\ \A k \in DOMAIN documents : new[k] = documents[k]
  BY <1>4, <1>5, <1>6, <1>7 DEF Leaves
<1>9. /\ docs = [ k \in DOMAIN docs |-> docs[k] ]
      /\ DOMAIN docs = DOMAIN documents \cup { d } /\ docs[d] = row
      /\ \A k \in DOMAIN documents : docs[k] = documents[k]
  BY <1>2, <1>5 DEF Put
<1>10. new = docs
  BY <1>8, <1>9, SameTable
<1>11. ASSUME NEW s \in DOMAIN resources \ { r }
       PROVE  documents_of(documents, s) = documents_of(docs, s)
  <2>1. row.resource = r
    BY <1>1
  <2>2. \A k : k \in DOMAIN documents /\ documents[k].resource = s
                 <=> k \in DOMAIN docs /\ docs[k].resource = s
    BY <1>9, <2>1
  <2>3. QED
    BY <1>9, <2>2, SameDocuments
<1>12. VisasKept(t)
  BY <1>4, <1>5, <1>7, <1>10, <1>11, RefreshKeepsVisas
<1>13. QED
  BY <1>3, <1>4, <1>12 DEF StartsKept

\* PATCH /documents/{id}.
LEMMA UpdateDocumentKeepsVisas ==
  ASSUME TalentInv, NEW x \in Recruiters, NEW d, NEW e, StartUpdateDocument(x, d, e)
  PROVE  StartsKept(x)
<1>1. PICK row : row = [ documents[d] EXCEPT !.expiry = e ]
  OBVIOUS
<1>2. PICK docs : docs = Put(documents, d, row)
  OBVIOUS
<1>3. PICK r : r = documents[d].resource
  OBVIOUS
<1>4. PICK sets : sets = altered(documents[d], row)
  OBVIOUS
<1>5. /\ Begins(x, "ready", EmptyTable, EmptyTable, refreshed(docs, r), Row(d, sets), {})
      /\ UNCHANGED << day, resources, documents >>
      /\ found(r) /\ d \in DOMAIN documents
  BY <1>1, <1>2, <1>3, <1>4 DEF StartUpdateDocument
<1>6. PICK t : /\ request[x] = Unasked /\ request' = [ request EXCEPT ![x] = t ]
               /\ t.stores = EmptyTable /\ t.d_set = Row(d, sets) /\ t.removes = {}
               /\ t.inserts = EmptyTable /\ t.r_set = refreshed(docs, r)
  BY <1>5, BegunRequest
<1>7. r \in DOMAIN resources /\ documents[d] \in DocumentRow
      /\ documents = [ k \in DOMAIN documents |-> documents[k] ]
  BY <1>5 DEF found, TalentInv, TalentTypeOK, IsTable
<1>8. DOMAIN t.stores = {} /\ DOMAIN t.d_set = { d } /\ t.d_set[d] = sets
  BY <1>6 DEF Row, EmptyTable
<1>9. PICK new : /\ new = DocsAfter(documents, t)
                 /\ Leaves(new, documents, t)
  BY RowsOfDocsAfter
<1>10. PICK was : was = documents[d]
  OBVIOUS
<1>11. [ c \in DOMAIN was |-> IF c \in DOMAIN sets THEN sets[c] ELSE was[c] ] = row
       /\ row.resource = r
  <2>1. was \in DocumentRow /\ row = [ was EXCEPT !.expiry = e ] /\ sets = altered(was, row)
    BY <1>1, <1>4, <1>7, <1>10
  <2>2. /\ DOMAIN row = DOMAIN was /\ row = [ c \in DOMAIN row |-> row[c] ]
        /\ row.resource = was.resource
    BY <2>1 DEF DocumentRow
  <2>3. /\ DOMAIN sets = { c \in DOMAIN was : was[c] # row[c] }
        /\ \A c \in DOMAIN sets : sets[c] = row[c]
    BY <2>1 DEF altered
  <2>4. \A c \in DOMAIN was : (IF c \in DOMAIN sets THEN sets[c] ELSE was[c]) = row[c]
    BY <2>3
  <2>5. QED
    BY <1>3, <1>10, <2>2, <2>4
<1>12. /\ new = [ k \in DOMAIN new |-> new[k] ]
       /\ DOMAIN new = DOMAIN documents /\ new[d] = row
       /\ \A k \in DOMAIN documents \ { d } : new[k] = documents[k]
  <2>1. new[d] = [ c \in DOMAIN documents[d] |->
                     IF c \in DOMAIN sets THEN sets[c] ELSE documents[d][c] ]
    BY <1>5, <1>6, <1>8, <1>9 DEF Leaves
  <2>2. /\ new = [ k \in DOMAIN new |-> new[k] ]
        /\ DOMAIN new = DOMAIN documents
        /\ \A k \in DOMAIN documents \ { d } : new[k] = documents[k]
    BY <1>5, <1>6, <1>8, <1>9 DEF Leaves
  <2>3. QED
    BY <1>10, <1>11, <2>1, <2>2
<1>13. /\ docs = [ k \in DOMAIN docs |-> docs[k] ]
       /\ DOMAIN docs = DOMAIN documents /\ docs[d] = row
       /\ \A k \in DOMAIN documents \ { d } : docs[k] = documents[k]
  BY <1>2, <1>5 DEF Put
<1>14. new = docs
  <2>1. \A k \in DOMAIN new : new[k] = docs[k]
    BY <1>12, <1>13
  <2>2. QED
    BY <1>12, <1>13, <2>1, SameTable
<1>15. ASSUME NEW s \in DOMAIN resources \ { r }
       PROVE  documents_of(documents, s) = documents_of(docs, s)
  <2>1. \A k : k \in DOMAIN documents /\ documents[k].resource = s
                 <=> k \in DOMAIN docs /\ docs[k].resource = s
    BY <1>3, <1>11, <1>13
  <2>2. \A k \in DOMAIN documents : documents[k].resource = s => docs[k] = documents[k]
    BY <1>3, <1>13
  <2>3. QED
    BY <2>1, <2>2, SameDocuments
<1>16. VisasKept(t)
  BY <1>6, <1>7, <1>9, <1>14, <1>15, RefreshKeepsVisas
<1>17. QED
  BY <1>5, <1>6, <1>16 DEF StartsKept

\* DELETE /documents/{id}.
LEMMA DeleteDocumentKeepsVisas ==
  ASSUME TalentInv, NEW x \in Recruiters, NEW d, StartDeleteDocument(x, d)
  PROVE  StartsKept(x)
<1>1. PICK docs : docs = Select(documents, DOMAIN documents \ { d })
  OBVIOUS
<1>2. PICK r : r = documents[d].resource
  OBVIOUS
<1>3. UNCHANGED << day, resources, documents >> /\ d \in DOMAIN documents
  BY DEF StartDeleteDocument
<1>4. CASE ~ found(r)
  <2>1. Begins(x, "failing", EmptyTable, EmptyTable, EmptyTable, EmptyTable, { d })
    BY <1>2, <1>4 DEF StartDeleteDocument
  <2>2. PICK t : /\ request[x] = Unasked /\ request' = [ request EXCEPT ![x] = t ]
                 /\ t.pc = "failing"
    BY <2>1, BegunRequest
  <2>3. QED
    BY <1>3, <2>2 DEF StartsKept
<1>5. CASE found(r)
  <2>1. Begins(x, "ready", EmptyTable, EmptyTable, refreshed(docs, r), EmptyTable, { d })
    BY <1>1, <1>2, <1>5 DEF StartDeleteDocument
  <2>2. PICK t : /\ request[x] = Unasked /\ request' = [ request EXCEPT ![x] = t ]
                 /\ t.stores = EmptyTable /\ t.d_set = EmptyTable /\ t.removes = { d }
                 /\ t.inserts = EmptyTable /\ t.r_set = refreshed(docs, r)
    BY <2>1, BegunRequest
  <2>3. r \in DOMAIN resources
    BY <1>5 DEF found
  <2>4. DOMAIN t.stores = {} /\ DOMAIN t.d_set = {}
    BY <2>2 DEF EmptyTable
  <2>5. PICK new : /\ new = DocsAfter(documents, t)
                   /\ Leaves(new, documents, t)
    BY RowsOfDocsAfter
  <2>6. /\ new = [ k \in DOMAIN new |-> new[k] ]
        /\ DOMAIN new = DOMAIN documents \ { d }
        /\ \A k \in DOMAIN documents \ { d } : new[k] = documents[k]
    BY <2>2, <2>4, <2>5 DEF Leaves
  <2>7. /\ docs = [ k \in DOMAIN docs |-> docs[k] ]
        /\ DOMAIN docs = DOMAIN documents \ { d }
        /\ \A k \in DOMAIN documents \ { d } : docs[k] = documents[k]
    BY <1>1 DEF Select
  <2>8. new = docs
    <3>1. \A k \in DOMAIN new : new[k] = docs[k]
      BY <2>6, <2>7
    <3>2. QED
      BY <2>6, <2>7, <3>1, SameTable
  <2>9. ASSUME NEW s \in DOMAIN resources \ { r }
        PROVE  documents_of(documents, s) = documents_of(docs, s)
    <3>1. \A k : k \in DOMAIN documents /\ documents[k].resource = s
                   <=> k \in DOMAIN docs /\ docs[k].resource = s
      BY <1>2, <2>7
    <3>2. \A k \in DOMAIN documents : documents[k].resource = s => docs[k] = documents[k]
      BY <1>2, <2>7
    <3>3. QED
      BY <3>1, <3>2, SameDocuments
  <2>10. VisasKept(t)
    BY <2>2, <2>3, <2>5, <2>8, <2>9, RefreshKeepsVisas
  <2>11. QED
    BY <1>3, <2>2, <2>10 DEF StartsKept
<1>6. QED
  BY <1>4, <1>5

\* Every request begins so.
LEMMA StartsKeepVisas ==
  ASSUME TalentInv, NEW x \in Recruiters, StartTalent(x)
  PROVE  StartsKept(x)
<1>1. ASSUME NEW r \in Consultants, StartCreateResource(x, r)
      PROVE  StartsKept(x)
  <2>1. PICK none : none = EmptyTable /\ DOMAIN none = {}
    BY DEF EmptyTable
  <2>2. /\ Begins(x, "inserting", Row(r, new_resource(next_code)), none,
                  EmptyTable, EmptyTable, {})
        /\ UNCHANGED << day, resources, documents >> /\ is_new(r)
    BY <1>1, <2>1 DEF StartCreateResource
  <2>3. \A d \in DOMAIN none : is_new(d) /\ none[d].resource = r
    BY <2>1
  <2>4. QED
    BY <2>2, <2>3, NewConsultantKeepsVisas
<1>2. ASSUME NEW r \in Consultants, NEW d \in Documents, StartParseCV(x, r, d)
      PROVE  StartsKept(x)
  <2>1. PICK row : row = [ resource |-> r, authorises |-> FALSE, expiry |-> NoDate ]
    OBVIOUS
  <2>2. PICK cv : cv = Row(d, row)
    OBVIOUS
  <2>3. /\ Begins(x, "inserting", Row(r, new_resource(next_code)), cv,
                  EmptyTable, EmptyTable, {})
        /\ UNCHANGED << day, resources, documents >> /\ is_new(r) /\ is_new(d)
    BY <1>2, <2>1, <2>2 DEF StartParseCV
  <2>4. \A k \in DOMAIN cv : k = d /\ cv[k].resource = r
    <3>1. row.resource = r
      BY <2>1, Zenon
    <3>2. DOMAIN cv = { d } /\ cv[d] = row
      BY <2>2 DEF Row
    <3>3. QED
      BY <3>1, <3>2
  <2>5. \A k \in DOMAIN cv : is_new(k) /\ cv[k].resource = r
    BY <2>3, <2>4
  <2>6. QED
    BY <2>3, <2>5, NewConsultantKeepsVisas
<1>3. QED
  BY <1>1, <1>2, RewriteKeepsVisas, AddDocumentKeepsVisas, UpdateDocumentKeepsVisas,
     DeleteDocumentKeepsVisas
     DEF StartTalent, StartUpdateResource, StartArchiveResource

\* While the tables and the day stay, a request keeps the visas that did before.
LEMMA VisasStayKept ==
  ASSUME VisasInv, UNCHANGED << day, resources, documents >>,
         \A x \in Recruiters :
           \/ request'[x] = Unasked \/ request'[x].late
           \/ request'[x] = request[x]
           \/ request'[x].pc # "failing" => VisasKept(request'[x])
  PROVE  VisasInv'
<1>1. ASSUME NEW x \in Recruiters,
             request'[x] # Unasked, request'[x].pc # "failing", ~ request'[x].late
      PROVE  VisasKept(request'[x])
  BY <1>1 DEF VisasInv
<1>2. ASSUME NEW t, VisasKept(t)  PROVE VisasKept(t)'
  BY <1>2 DEF VisasKept, derive_visa_status
<1>3. ASSUME NEW x \in Recruiters,
             request'[x] # Unasked, request'[x].pc # "failing", ~ request'[x].late
      PROVE  VisasKept(request[x])'
  <2>1. PICK t : t = request'[x]
    OBVIOUS
  <2>2. VisasKept(t)
    BY <1>1, <1>3, <2>1
  <2>3. VisasKept(t)'
    BY <1>2, <2>2
  <2>4. QED
    BY <2>1, <2>3 DEF VisasKept
<1>4. QED
  BY <1>3 DEF VisasInv

\* An imported consultant has no documents, and the others keep theirs.
LEMMA ImportKeepsVisas ==
  ASSUME TalentInv, VisasInv, NEW n \in Consultants, ImportResource(n)
  PROVE  VisasInv'
<1>1. /\ is_new(n) /\ resources' = Put(resources, n, new_resource(0))
      /\ day' = day /\ documents' = documents /\ request' = request
  BY DEF ImportResource
<1>2. /\ n \notin DOMAIN resources
      /\ \A y \in Recruiters : request[y] # Unasked => n \notin DOMAIN request[y].inserts
  BY <1>1, NewIds
<1>3. /\ DOMAIN resources' = DOMAIN resources \cup { n }
      /\ \A r \in DOMAIN resources : resources'[r] = resources[r]
  BY <1>1, <1>2 DEF Put
<1>4. \A d \in DOMAIN documents : documents[d] \in DocumentRow
                                   /\ documents[d].resource \in DOMAIN resources
  BY DEF TalentInv, TalentTypeOK, IsTable
<1>5. ASSUME NEW x \in Recruiters, request[x] # Unasked, NEW t, t = request[x]
      PROVE  documents_of(documents, n) = documents_of(DocsAfter(documents, t), n)
  <2>1. AskedStores(t) /\ AskedColumns(t) /\ n \notin DOMAIN t.inserts
    BY <1>2, <1>5 DEF TalentInv, Asked
  <2>2. \A d \in DOMAIN t.stores : t.stores[d].resource # n
    BY <1>2, <2>1 DEF AskedStores
  <2>3. PICK all : /\ all = DocsAfter(documents, t)
                   /\ Leaves(all, documents, t)
    BY RowsOfDocsAfter
  <2>4. /\ DOMAIN all = (DOMAIN documents \cup DOMAIN t.stores) \ t.removes
        /\ \A d \in DOMAIN all :
              /\ d \in DOMAIN t.stores => all[d] = t.stores[d]
              /\ d \notin DOMAIN t.stores /\ d \notin DOMAIN t.d_set => all[d] = documents[d]
              /\ d \notin DOMAIN t.stores /\ d \in DOMAIN t.d_set =>
                   all[d] = [ c \in DOMAIN documents[d] |->
                                IF c \in DOMAIN t.d_set[d] THEN t.d_set[d][c]
                                ELSE documents[d][c] ]
    BY <2>3 DEF Leaves
  <2>5. ASSUME NEW d \in DOMAIN all  PROVE all[d].resource # n
    <3>1. CASE d \in DOMAIN t.stores
      BY <2>2, <2>4, <3>1
    <3>2. CASE d \notin DOMAIN t.stores /\ d \notin DOMAIN t.d_set
      <4>1. d \in DOMAIN documents /\ all[d] = documents[d]
        BY <2>4, <3>2
      <4>2. QED
        BY <1>2, <1>4, <4>1
    <3>3. CASE d \notin DOMAIN t.stores /\ d \in DOMAIN t.d_set
      <4>1. d \in DOMAIN documents /\ "resource" \in DOMAIN documents[d]
        BY <1>4, <2>4, <3>3 DEF DocumentRow
      <4>2. "resource" \notin DOMAIN t.d_set[d]
        BY <2>1, <3>3 DEF AskedColumns
      <4>3. all[d] = [ c \in DOMAIN documents[d] |->
                         IF c \in DOMAIN t.d_set[d] THEN t.d_set[d][c]
                         ELSE documents[d][c] ]
        BY <2>4, <3>3
      <4>4. all[d]["resource"] = documents[d]["resource"]
        BY <4>1, <4>2, <4>3
      <4>5. QED
        BY <1>2, <1>4, <4>1, <4>4
    <3>4. QED
      BY <3>1, <3>2, <3>3
  <2>6. \A d \in DOMAIN documents : documents[d].resource # n
    BY <1>2, <1>4
  <2>7. documents_of(documents, n) = documents_of(all, n)
    BY <2>5, <2>6, SameDocuments
  <2>8. QED
    BY <2>3, <2>7
<1>6. ASSUME NEW x \in Recruiters, request[x] # Unasked, NEW t, t = request[x],
             NEW r \in DOMAIN resources
      PROVE  RowsAfter(resources', t)[r] = RowsAfter(resources, t)[r]
  <2>1. PICK was : was = updated(resources, t.r_set)
    OBVIOUS
  <2>2. PICK now : now = updated(resources', t.r_set)
    OBVIOUS
  <2>3. r \in DOMAIN was /\ r \in DOMAIN now /\ now[r] = was[r]
    <3>1. resources'[r] = resources[r] /\ r \in DOMAIN resources'
      BY <1>3
    <3>2. PICK table : table = resources'
      OBVIOUS
    <3>3. now = updated(table, t.r_set) /\ table[r] = resources[r] /\ r \in DOMAIN table
      BY <2>2, <3>1, <3>2
    <3>4. QED
      BY <2>1, <3>3 DEF updated
  <2>4. PutAll(now, t.inserts)[r] = PutAll(was, t.inserts)[r]
    BY <2>3 DEF PutAll
  <2>5. QED
    BY <2>1, <2>2, <2>4 DEF RowsAfter
<1>7. ASSUME NEW x \in Recruiters, request[x] # Unasked, NEW t, t = request[x],
             VisasKept(t)
      PROVE  VisasKept(t)'
  <2>1. SUFFICES ASSUME NEW r \in DOMAIN resources',
                        documents_of(documents, r) # documents_of(DocsAfter(documents, t), r)
                 PROVE  RowsAfter(resources', t)[r].visa
                          = derive_visa_status(DocsAfter(documents, t), r)
    BY <1>1 DEF VisasKept, derive_visa_status
  <2>2. r \in DOMAIN resources
    BY <1>3, <1>5, <1>7, <2>1
  <2>3. QED
    BY <1>6, <1>7, <2>1, <2>2 DEF VisasKept
<1>8. ASSUME NEW x \in Recruiters,
             request'[x] # Unasked, request'[x].pc # "failing", ~ request'[x].late
      PROVE  VisasKept(request[x])'
  <2>1. PICK t : t = request[x]
    OBVIOUS
  <2>2. VisasKept(t)
    BY <1>1, <1>8, <2>1 DEF VisasInv
  <2>3. VisasKept(t)'
    BY <1>1, <1>7, <1>8, <2>1, <2>2
  <2>4. QED
    BY <1>1, <2>1, <2>3 DEF VisasKept
<1>9. QED
  BY <1>8 DEF VisasInv

\* What the steps of the talent cloud keep.
LEMMA StepKeepsVisas ==
  ASSUME TalentInv, VisasInv, [TalentNext]_talent
  PROVE  VisasInv'
<1>0. DOMAIN request = Recruiters
      /\ \A x \in Recruiters : request[x] # Unasked => AskedShape(request[x])
  BY DEF TalentInv, Asked
<1>1. ASSUME NEW x \in Recruiters, StartTalent(x)  PROVE VisasInv'
  <2>1. PICK t : /\ request[x] = Unasked /\ request' = [ request EXCEPT ![x] = t ]
                 /\ t.pc # "failing" => VisasKept(t)
                 /\ UNCHANGED << day, resources, documents >>
    BY <1>1, StartsKeepVisas DEF StartsKept
  <2>2. request'[x] = t /\ \A y \in Recruiters \ { x } : request'[y] = request[y]
    BY <1>0, <2>1
  <2>3. QED
    BY <2>1, <2>2, VisasStayKept
<1>2. ASSUME NEW x \in Recruiters, Insert(x)  PROVE VisasInv'
  <2>1. /\ request[x].pc = "inserting" /\ UNCHANGED << day, resources, documents >>
        /\ request' = [ request EXCEPT ![x] = [ request[x] EXCEPT !.pc = "ready" ] ]
    BY <1>2 DEF Insert
  <2>2. Unasked.pc = "idle"
    BY DEF Unasked
  <2>3. request[x] # Unasked /\ AskedShape(request[x])
    BY <1>0, <2>1, <2>2
  <2>4. PICK t : t = request[x]
    OBVIOUS
  <2>5. PICK u : u = [ t EXCEPT !.pc = "ready" ]
    OBVIOUS
  <2>6. /\ u.late = t.late /\ u.stores = t.stores /\ u.d_set = t.d_set
        /\ u.removes = t.removes /\ u.r_set = t.r_set /\ u.inserts = t.inserts
    BY <2>3, <2>4, <2>5 DEF AskedShape
  <2>7. request'[x] = u /\ \A y \in Recruiters \ { x } : request'[y] = request[y]
    BY <1>0, <2>1, <2>4, <2>5
  <2>8. ~ t.late => VisasKept(t)
    BY <2>1, <2>3, <2>4 DEF VisasInv
  <2>9. ~ t.late => VisasKept(u)
    BY <2>6, <2>8, VisasKeptByWrites
  <2>10. QED
    BY <2>1, <2>6, <2>7, <2>9, VisasStayKept
<1>3. ASSUME NEW x \in Recruiters, CommitTalent(x)  PROVE VisasInv'
  <2>1. request' = outrun(x)
    BY <1>3 DEF CommitTalent
  <2>2. \A y \in Recruiters : request'[y] = Unasked \/ request'[y].late
    BY <2>1, Outrun
  <2>3. QED
    BY <2>2 DEF VisasInv
<1>4. ASSUME NEW x \in Recruiters, RollbackTalent(x)  PROVE VisasInv'
  <2>1. /\ request' = [ request EXCEPT ![x] = Unasked ]
        /\ UNCHANGED << day, resources, documents >>
    BY <1>4 DEF RollbackTalent
  <2>2. \A y \in Recruiters : request'[y] = Unasked \/ request'[y] = request[y]
    BY <1>0, <2>1
  <2>3. QED
    BY <2>1, <2>2, VisasStayKept
<1>5. ASSUME NEW r \in Consultants, ImportResource(r)  PROVE VisasInv'
  BY <1>5, ImportKeepsVisas
<1>6. CASE NextDay
  <2>1. ASSUME NEW y \in Recruiters, request'[y] # Unasked  PROVE request'[y].late
    <3>1. request[y] # Unasked /\ request'[y] = [ request[y] EXCEPT !.late = TRUE ]
      BY <1>6, <2>1 DEF NextDay
    <3>2. QED
      BY <1>0, <3>1, LateRequest
  <2>2. QED
    BY <2>1 DEF VisasInv
<1>7. CASE UNCHANGED talent
  BY <1>7, VisasStayKept DEF talent
<1>8. QED
  BY <1>1, <1>2, <1>3, <1>4, <1>5, <1>6, <1>7 DEF TalentNext

\* A request that changes a consultant's documents leaves the visa status that they
\* give, unless another overtook it or midnight came between.
THEOREM VisasFollow == TalentSpec => VisaFollowsDocuments
<1> DEFINE Follows ==
      \A r \in DOMAIN resources :
        /\ documents_of(documents, r) # documents_of(documents', r)
        /\ \A x \in ended : ~ request[x].late
        => resources'[r].visa = derive_visa_status(documents', r)
<1>1. TalentInit => VisasInv
  BY DEF TalentInit, VisasInv
<1>2. TalentInv /\ VisasInv /\ [TalentNext]_talent => VisasInv'
  BY StepKeepsVisas
<1>3. TalentInv /\ VisasInv /\ [TalentNext]_talent => [Follows]_talent
  <2>1. SUFFICES ASSUME TalentInv, VisasInv, TalentNext,
                        NEW r \in DOMAIN resources,
                        documents_of(documents, r) # documents_of(documents', r),
                        \A x \in ended : ~ request[x].late
                 PROVE  resources'[r].visa = derive_visa_status(documents', r)
    OBVIOUS
  <2>2. PICK x \in Recruiters : CommitTalent(x)
    <3>1. documents' # documents
      BY <2>1
    <3>2. \A x \in Recruiters : StartTalent(x) => documents' = documents
      BY <2>1, StartsKeepVisas DEF StartsKept
    <3>3. \A x \in Recruiters : Insert(x) \/ RollbackTalent(x) => documents' = documents
      BY DEF Insert, RollbackTalent
    <3>4. (NextDay \/ \E n \in Consultants : ImportResource(n)) => documents' = documents
      BY DEF NextDay, ImportResource
    <3>5. QED
      BY <2>1, <3>1, <3>2, <3>3, <3>4 DEF TalentNext
  <2>3. PICK t : t = request[x]
    OBVIOUS
  <2>4. /\ t.pc = "ready" /\ request' = outrun(x)
        /\ resources' = RowsAfter(resources, t) /\ documents' = DocsAfter(documents, t)
    BY <2>2, <2>3 DEF CommitTalent, RowsAfter, DocsAfter
  <2>5. request[x] # Unasked /\ request'[x] = Unasked
    BY <2>1, <2>3, <2>4, Outrun DEF Unasked
  <2>6. ~ t.late
    BY <2>1, <2>3, <2>5 DEF ended
  <2>7. VisasKept(t)
    BY <2>1, <2>3, <2>4, <2>5, <2>6 DEF VisasInv
  <2>8. documents_of(documents, r) # documents_of(DocsAfter(documents, t), r)
    BY <2>1, <2>4
  <2>9. RowsAfter(resources, t)[r].visa = derive_visa_status(DocsAfter(documents, t), r)
    BY <2>7, <2>8 DEF VisasKept
  <2>10. QED
    BY <2>4, <2>9
<1>4. QED
  BY <1>1, <1>2, <1>3, TalentInvariant, PTL DEF TalentSpec, VisaFollowsDocuments

-----------------------------------------------------------------------------
(* Routes, contacts and notes (module Directory).                          *)

\* A request that marks a route or a contact, and what it knows of the tables.
MarkShape(t) ==
  t = [ busy |-> t.busy, what |-> t.what, key |-> t.key, inserts |-> t.inserts,
        row |-> t.row, unmarks |-> t.unmarks, late |-> t.late ]

\* It will write a row of the table, of accounts that exist.  While no other has
\* ended since it read, it takes away the marks of all the others.
RouteMark(t) ==
  /\ t.key \in RouteKeys /\ t.row \in RouteRow
  /\ { t.key[1], t.key[2] } \subseteq DOMAIN companies
  /\ ~ t.late /\ t.row.preferred => clear_preferred(t.key) \subseteq t.unmarks

ContactMark(t) ==
  /\ t.key \in People /\ t.row \in PersonRow
  /\ t.row.account \in DOMAIN companies
  /\ ~ t.late /\ t.row.primary =>
       clear_primary(t.row.account) \ { t.key } \subseteq t.unmarks

Marking(t) ==
  /\ MarkShape(t) /\ t.busy
  /\ t.what = "route" => RouteMark(t)
  /\ t.what = "contact" => ContactMark(t)

DirectoryInv ==
  /\ DirectoryTypeOK
  /\ desk = [ x \in Clerks |-> desk[x] ]
  /\ \A x \in Clerks : desk[x] = Vacant \/ Marking(desk[x])

\* A request that is under way is not idle.
LEMMA VacantIsIdle ==
  ASSUME NEW t
  PROVE  /\ ~ Vacant.busy
         /\ t.busy => t # Vacant
<1>1. ~ Vacant.busy
  BY DEF Vacant
<1>2. QED
  BY <1>1

\* A request that is overtaken need know nothing any more.
LEMMA LateMark ==
  ASSUME NEW t, Marking(t), DOMAIN companies \subseteq DOMAIN companies'
  PROVE  /\ Marking([ t EXCEPT !.late = TRUE ])'
<1>1. PICK yes : yes = TRUE
  OBVIOUS
<1>2. PICK u : u = [ t EXCEPT !.late = yes ]
  OBVIOUS
<1>3. /\ MarkShape(u) /\ u.busy = t.busy /\ u.what = t.what /\ u.key = t.key
      /\ u.row = t.row /\ u.late = yes
  BY <1>2 DEF Marking, MarkShape
<1>4. u = [ t EXCEPT !.late = TRUE ]
  BY <1>1, <1>2
<1>5. t.busy /\ (t.what = "route" => RouteMark(t)) /\ (t.what = "contact" => ContactMark(t))
  BY DEF Marking
<1>6. u.what = "route" => RouteMark(u)'
  BY <1>1, <1>3, <1>5 DEF RouteMark
<1>7. u.what = "contact" => ContactMark(u)'
  BY <1>1, <1>3, <1>5 DEF ContactMark
<1>8. Marking(u)'
  BY <1>3, <1>5, <1>6, <1>7 DEF Marking, MarkShape
<1>9. QED
  BY <1>4, <1>8

DesksOK ==
  /\ desk = [ x \in Clerks |-> desk[x] ]
  /\ \A x \in Clerks : desk[x] = Vacant \/ Marking(desk[x])

\* Whatever a request on one row does, those under way stay what they are.
LEMMA OthersLate ==
  ASSUME DirectoryInv, DOMAIN companies \subseteq DOMAIN companies',
         others_late \/ \E x \in Clerks : finishes(x)
  PROVE  DesksOK'
<1>1. PICK mine : \/ mine \notin Clerks /\ others_late
                  \/ mine \in Clerks /\ finishes(mine)
  <2>1. CASE others_late
    <3>1. \E z : z \notin Clerks
      BY NoSetContainsEverything
    <3>2. QED
      BY <2>1, <3>1
  <2>2. QED
    BY <2>1
<1>2. /\ DOMAIN desk' = Clerks /\ desk' = [ x \in Clerks |-> desk'[x] ]
      /\ \A y \in Clerks : desk'[y] =
           IF y # mine /\ desk[y].busy THEN [ desk[y] EXCEPT !.late = TRUE ] ELSE Vacant
  BY <1>1 DEF others_late, finishes
<1>3. ASSUME NEW y \in Clerks, desk'[y] # Vacant
      PROVE  Marking(desk[y])'
  <2>1. desk[y].busy /\ desk'[y] = [ desk[y] EXCEPT !.late = TRUE ]
    BY <1>2, <1>3
  <2>2. Marking(desk[y])
    BY <2>1, VacantIsIdle DEF DirectoryInv
  <2>3. PICK t : t = desk[y]
    OBVIOUS
  <2>4. Marking([ t EXCEPT !.late = TRUE ])'
    BY <2>2, <2>3, LateMark
  <2>5. QED
    BY <2>1, <2>3, <2>4 DEF Marking, MarkShape, RouteMark, ContactMark, clear_preferred, clear_primary
<1>4. (\A y \in Clerks : desk[y] = Vacant \/ Marking(desk[y]))'
  BY <1>3
<1>5. QED
  BY <1>2, <1>4 DEF DesksOK

\* A request that reads and does not write leaves the tables as they are.
LEMMA ServesKeeps ==
  ASSUME DirectoryInv, NEW x \in Clerks, NEW t,
         t = Vacant \/ Marking(t),
         desk' = [ desk EXCEPT ![x] = t ],
         UNCHANGED << companies, routes, people, notes >>
  PROVE  DirectoryInv'
<1>1. DirectoryTypeOK'
  BY DEF DirectoryInv, DirectoryTypeOK
<1>2. desk = [ y \in Clerks |-> desk[y] ]
      /\ \A y \in Clerks : desk[y] = Vacant \/ Marking(desk[y])
  BY DEF DirectoryInv
<1>3. /\ desk' = [ y \in Clerks |-> desk'[y] ]
      /\ \A y \in Clerks : desk'[y] = IF y = x THEN t ELSE desk[y]
  BY <1>2
<1>4. \A y \in Clerks : desk'[y] = Vacant \/ Marking(desk'[y])
  BY <1>2, <1>3
<1>5. (\A y \in Clerks : desk[y] = Vacant \/ Marking(desk[y]))'
  BY <1>4 DEF Marking, MarkShape, RouteMark, ContactMark, clear_preferred, clear_primary
<1>6. QED
  BY <1>1, <1>3, <1>5 DEF DirectoryInv

\* A request that reads keeps the invariant.
LEMMA MarkKeeps ==
  ASSUME DirectoryInv, NEW x \in Clerks, Mark(x)
  PROVE  DirectoryInv'
<1>1. PICK yes : yes = TRUE
  OBVIOUS
<1>2. PICK no : no = FALSE
  OBVIOUS
<1>3. ASSUME NEW k \in RouteKeys, NEW preferred \in BOOLEAN,
             StartAddRoute(x, k, preferred)
      PROVE  DirectoryInv'
  <2>1. PICK unmarks : unmarks = IF preferred THEN clear_preferred(k) ELSE {}
    OBVIOUS
  <2>2. PICK row : row = [ preferred |-> preferred ]
    OBVIOUS
  <2>3. PICK t : t = [ busy |-> yes, what |-> "route", key |-> k, inserts |-> yes,
                       row |-> row, unmarks |-> unmarks, late |-> no ]
    OBVIOUS
  <2>4. /\ desk' = [ desk EXCEPT ![x] = t ]
        /\ UNCHANGED << companies, routes, people, notes >>
        /\ { k[1], k[2] } \subseteq DOMAIN companies
    BY <1>1, <1>2, <1>3, <2>1, <2>2, <2>3 DEF StartAddRoute, Serves, open_account
  <2>5. RouteMark(t)
    BY <2>1, <2>2, <2>3, <2>4 DEF RouteMark, RouteRow
  <2>6. Marking(t)
    BY <1>1, <2>3, <2>5 DEF Marking, MarkShape
  <2>7. QED
    BY <2>4, <2>6, ServesKeeps
<1>4. ASSUME NEW p \in People, NEW a \in Companies, NEW primary \in BOOLEAN,
             StartAddContact(x, p, a, primary)
      PROVE  DirectoryInv'
  <2>1. PICK unmarks : unmarks = IF primary THEN clear_primary(a) ELSE {}
    OBVIOUS
  <2>2. PICK row : row = [ account |-> a, primary |-> primary ]
    OBVIOUS
  <2>3. PICK t : t = [ busy |-> yes, what |-> "contact", key |-> p, inserts |-> yes,
                       row |-> row, unmarks |-> unmarks, late |-> no ]
    OBVIOUS
  <2>4. /\ desk' = [ desk EXCEPT ![x] = t ]
        /\ UNCHANGED << companies, routes, people, notes >>
        /\ a \in DOMAIN companies
    BY <1>1, <1>2, <1>4, <2>1, <2>2, <2>3 DEF StartAddContact, Serves, open_account
  <2>5. ContactMark(t)
    BY <2>1, <2>2, <2>3, <2>4 DEF ContactMark, PersonRow
  <2>6. Marking(t)
    BY <1>1, <2>3, <2>5 DEF Marking, MarkShape
  <2>7. QED
    BY <2>4, <2>6, ServesKeeps
<1>5. ASSUME NEW p \in People, StartMarkPrimary(x, p)
      PROVE  DirectoryInv'
  <2>1. PICK unmarks : unmarks = clear_primary(people[p].account) \ { p }
    OBVIOUS
  <2>2. PICK row : row = [ people[p] EXCEPT !.primary = TRUE ]
    OBVIOUS
  <2>3. PICK t : t = [ busy |-> yes, what |-> "contact", key |-> p, inserts |-> no,
                       row |-> row, unmarks |-> unmarks, late |-> no ]
    OBVIOUS
  <2>4. /\ desk' = [ desk EXCEPT ![x] = t ]
        /\ UNCHANGED << companies, routes, people, notes >>
        /\ p \in DOMAIN people
    BY <1>1, <1>2, <1>5, <2>1, <2>2, <2>3 DEF StartMarkPrimary, Serves
  <2>5. people[p] \in PersonRow /\ people[p].account \in DOMAIN companies
    BY <2>4 DEF DirectoryInv, DirectoryTypeOK, IsTable
  <2>6. row \in PersonRow /\ row.account = people[p].account
    BY <2>2, <2>5 DEF PersonRow
  <2>7. ContactMark(t)
    BY <2>1, <2>3, <2>5, <2>6 DEF ContactMark
  <2>8. Marking(t)
    BY <1>1, <2>3, <2>7 DEF Marking, MarkShape
  <2>9. QED
    BY <2>4, <2>8, ServesKeeps
<1>6. QED
  BY <1>3, <1>4, <1>5 DEF Mark

\* So does one that ends without writing.
LEMMA RollbackDeskKeeps ==
  ASSUME DirectoryInv, NEW x \in Clerks, RollbackDesk(x)
  PROVE  DirectoryInv'
  BY ServesKeeps DEF RollbackDesk

\* A request commits: it puts its row and takes the marks of others away.
LEMMA CommitRouteKeeps ==
  ASSUME DirectoryInv, NEW x \in Clerks, CommitRoute(x)
  PROVE  DirectoryInv'
<1>1. PICK t : t = desk[x]
  OBVIOUS
<1>2. PICK off : off = FALSE
  OBVIOUS
<1>3. PICK unmarked : unmarked = [ k \in t.unmarks |-> [ preferred |-> off ] ]
  OBVIOUS
<1>4. /\ t.busy /\ t.what = "route" /\ t.unmarks \subseteq DOMAIN routes
      /\ routes' = Put(PutAll(routes, unmarked), t.key, t.row)
      /\ finishes(x)
      /\ companies' = companies /\ people' = people /\ notes' = notes
  BY <1>1, <1>2, <1>3 DEF CommitRoute
<1>5. RouteMark(t)
  BY <1>1, <1>4, VacantIsIdle DEF DirectoryInv, Marking
<1>6. /\ IsTable(routes, RouteKeys, RouteRow)
      /\ \A k \in DOMAIN routes : { k[1], k[2] } \subseteq DOMAIN companies
  BY DEF DirectoryInv, DirectoryTypeOK
<1>7. /\ routes' = [ k \in DOMAIN routes' |-> routes'[k] ]
      /\ DOMAIN routes' = DOMAIN routes \cup { t.key }
      /\ \A k \in DOMAIN routes' :
           routes'[k] = IF k = t.key THEN t.row
                        ELSE IF k \in t.unmarks THEN unmarked[k] ELSE routes[k]
  BY <1>3, <1>4 DEF Put, PutAll
<1>8. \A k \in t.unmarks : unmarked[k] \in RouteRow
  BY <1>2, <1>3 DEF RouteRow
<1>9. IsTable(routes', RouteKeys, RouteRow)
  BY <1>4, <1>5, <1>6, <1>7, <1>8 DEF IsTable, RouteMark
<1>10. \A k \in DOMAIN routes' : { k[1], k[2] } \subseteq DOMAIN companies
  BY <1>5, <1>6, <1>7 DEF RouteMark
<1>11. DirectoryTypeOK'
  BY <1>4, <1>9, <1>10 DEF DirectoryInv, DirectoryTypeOK
<1>12. DesksOK'
  BY <1>4, OthersLate
<1>13. QED
  BY <1>11, <1>12 DEF DirectoryInv, DesksOK

\* A contact that is marked no more.
LEMMA UnmarkedPerson ==
  ASSUME NEW row \in PersonRow
  PROVE  /\ [ row EXCEPT !.primary = FALSE ] \in PersonRow
         /\ [ row EXCEPT !.primary = FALSE ].account = row.account
         /\ ~ [ row EXCEPT !.primary = FALSE ].primary
<1>1. PICK off \in BOOLEAN : off = FALSE
  OBVIOUS
<1>2. PICK new : new = [ row EXCEPT !.primary = off ]
  OBVIOUS
<1>3. new \in PersonRow /\ new.account = row.account /\ new.primary = off
  BY <1>2 DEF PersonRow
<1>4. new = [ row EXCEPT !.primary = FALSE ]
  BY <1>1, <1>2
<1>5. QED
  BY <1>1, <1>3, <1>4

\* A contact is written and the marks of the others are taken away.
LEMMA CommitContactWrites ==
  ASSUME DirectoryInv, NEW x \in Clerks, CommitContact(x)
  PROVE  LET t == desk[x] IN
         /\ t.busy /\ ContactMark(t) /\ t.unmarks \subseteq DOMAIN people
         /\ finishes(x)
         /\ companies' = companies /\ routes' = routes /\ notes' = notes
         /\ people' = [ p \in DOMAIN people' |-> people'[p] ]
         /\ DOMAIN people' = DOMAIN people \cup { t.key }
         /\ people'[t.key] = t.row
         /\ \A p \in DOMAIN people \ { t.key } :
              /\ people'[p] \in PersonRow /\ people'[p].account = people[p].account
              /\ people'[p].primary => people[p].primary /\ p \notin t.unmarks
<1>1. PICK t : t = desk[x]
  OBVIOUS
<1>2. PICK unmarked :
        unmarked = [ p \in t.unmarks |-> [ people[p] EXCEPT !.primary = FALSE ] ]
  OBVIOUS
<1>3. /\ t.busy /\ t.what = "contact" /\ t.unmarks \subseteq DOMAIN people
      /\ people' = Put(PutAll(people, unmarked), t.key, t.row)
      /\ finishes(x)
      /\ companies' = companies /\ routes' = routes /\ notes' = notes
  BY <1>1, <1>2 DEF CommitContact
<1>4. ContactMark(t)
  BY <1>1, <1>3, VacantIsIdle DEF DirectoryInv, Marking
<1>5. \A p \in DOMAIN people : people[p] \in PersonRow
  BY DEF DirectoryInv, DirectoryTypeOK, IsTable
<1>6. DOMAIN unmarked = t.unmarks
      /\ \A p \in t.unmarks : /\ unmarked[p] \in PersonRow
                              /\ unmarked[p].account = people[p].account
                              /\ ~ unmarked[p].primary
  <2>1. DOMAIN unmarked = t.unmarks
        /\ \A p \in t.unmarks : unmarked[p] = [ people[p] EXCEPT !.primary = FALSE ]
    BY <1>2
  <2>2. ASSUME NEW p \in t.unmarks
        PROVE  /\ unmarked[p] \in PersonRow
               /\ unmarked[p].account = people[p].account
               /\ ~ unmarked[p].primary
    <3>1. PICK row \in PersonRow : row = people[p]
      BY <1>3, <1>5
    <3>2. unmarked[p] = [ row EXCEPT !.primary = FALSE ]
      BY <2>1, <3>1
    <3>3. QED
      BY <3>1, <3>2, UnmarkedPerson
  <2>3. QED
    BY <2>1, <2>2
<1>7. /\ people' = [ p \in DOMAIN people' |-> people'[p] ]
      /\ DOMAIN people' = DOMAIN people \cup { t.key }
      /\ people'[t.key] = t.row
      /\ \A p \in DOMAIN people \ { t.key } :
           people'[p] = IF p \in t.unmarks THEN unmarked[p] ELSE people[p]
  BY <1>3, <1>6 DEF Put, PutAll
<1>8. \A p \in DOMAIN people \ { t.key } :
        /\ people'[p] \in PersonRow /\ people'[p].account = people[p].account
        /\ people'[p].primary => people[p].primary /\ p \notin t.unmarks
  BY <1>5, <1>6, <1>7
<1>9. QED
  BY <1>1, <1>3, <1>4, <1>7, <1>8

\* The commit of a contact keeps the invariant.
LEMMA CommitContactKeeps ==
  ASSUME DirectoryInv, NEW x \in Clerks, CommitContact(x)
  PROVE  DirectoryInv'
<1>1. PICK t : t = desk[x]
  OBVIOUS
<1>2. /\ ContactMark(t) /\ finishes(x)
      /\ companies' = companies /\ routes' = routes /\ notes' = notes
      /\ people' = [ p \in DOMAIN people' |-> people'[p] ]
      /\ DOMAIN people' = DOMAIN people \cup { t.key }
      /\ people'[t.key] = t.row
      /\ \A p \in DOMAIN people \ { t.key } :
           people'[p] \in PersonRow /\ people'[p].account = people[p].account
  BY <1>1, CommitContactWrites
<1>3. /\ DOMAIN people \subseteq People
      /\ \A p \in DOMAIN people : people[p].account \in DOMAIN companies
  BY DEF DirectoryInv, DirectoryTypeOK, IsTable
<1>4. \A p \in DOMAIN people' : /\ p \in People /\ people'[p] \in PersonRow
                                /\ people'[p].account \in DOMAIN companies
  BY <1>2, <1>3 DEF ContactMark
<1>5. IsTable(people', People, PersonRow)
  BY <1>2, <1>4 DEF IsTable
<1>6. \A n \in DOMAIN notes : notes[n].about \subseteq DOMAIN companies \cup DOMAIN people'
  BY <1>2 DEF DirectoryInv, DirectoryTypeOK
<1>7. DirectoryTypeOK'
  BY <1>2, <1>4, <1>5, <1>6 DEF DirectoryInv, DirectoryTypeOK
<1>8. DesksOK'
  BY <1>2, OthersLate
<1>9. QED
  BY <1>7, <1>8 DEF DirectoryInv, DesksOK

\* Requests on one row: the rows written are rows of their table, and what the
\* others refer to stays.
LEMMA CompanyKeeps ==
  ASSUME DirectoryInv, NEW a \in Companies, CreateCompany(a) \/ ArchiveCompany(a)
  PROVE  DirectoryInv'
<1>1. IsTable(companies, Companies, CompanyRow)
  BY DEF DirectoryInv, DirectoryTypeOK
<1>2. /\ others_late /\ routes' = routes /\ people' = people /\ notes' = notes
      /\ IsTable(companies', Companies, CompanyRow)
      /\ DOMAIN companies \subseteq DOMAIN companies'
  <2>1. PICK off \in BOOLEAN : off = FALSE
    OBVIOUS
  <2>2. PICK on \in BOOLEAN : on = TRUE
    OBVIOUS
  <2>3. CASE CreateCompany(a)
    <3>1. PICK row : row = [ archived |-> off ]
      OBVIOUS
    <3>2. companies' = Put(companies, a, row) /\ row \in CompanyRow
      BY <2>1, <2>3, <3>1 DEF CreateCompany, CompanyRow
    <3>3. IsTable(companies', Companies, CompanyRow)
          /\ DOMAIN companies \subseteq DOMAIN companies'
      BY <1>1, <3>2 DEF Put, IsTable
    <3>4. QED
      BY <2>3, <3>3 DEF CreateCompany
  <2>4. CASE ArchiveCompany(a)
    <3>1. companies' = [ companies EXCEPT ![a].archived = on ]
      BY <2>2, <2>4 DEF ArchiveCompany
    <3>2. IsTable(companies', Companies, CompanyRow)
          /\ DOMAIN companies \subseteq DOMAIN companies'
      BY <1>1, <3>1 DEF IsTable, CompanyRow
    <3>3. QED
      BY <2>4, <3>2 DEF ArchiveCompany
  <2>5. QED
    BY <2>3, <2>4
<1>3. DirectoryTypeOK'
  BY <1>2 DEF DirectoryInv, DirectoryTypeOK
<1>4. DesksOK'
  BY <1>2, OthersLate
<1>5. QED
  BY <1>3, <1>4 DEF DirectoryInv, DesksOK

\* A route that is removed.
LEMMA RemoveRouteKeeps ==
  ASSUME DirectoryInv, NEW k \in RouteKeys, RemoveRoute(k)
  PROVE  DirectoryInv'
<1>1. /\ others_late /\ companies' = companies /\ people' = people /\ notes' = notes
      /\ routes' = Select(routes, DOMAIN routes \ { k })
  BY DEF RemoveRoute
<1>2. /\ IsTable(routes, RouteKeys, RouteRow)
      /\ \A j \in DOMAIN routes : { j[1], j[2] } \subseteq DOMAIN companies
  BY DEF DirectoryInv, DirectoryTypeOK
<1>3. IsTable(routes', RouteKeys, RouteRow) /\ DOMAIN routes' \subseteq DOMAIN routes
  BY <1>1, <1>2 DEF Select, IsTable
<1>4. DirectoryTypeOK'
  BY <1>1, <1>2, <1>3 DEF DirectoryInv, DirectoryTypeOK
<1>5. DesksOK'
  BY <1>1, OthersLate
<1>6. QED
  BY <1>4, <1>5 DEF DirectoryInv, DesksOK

\* A contact whose mark is taken away.
LEMMA UnmarkPrimaryKeeps ==
  ASSUME DirectoryInv, NEW p \in People, UnmarkPrimary(p)
  PROVE  DirectoryInv'
<1>1. /\ others_late /\ companies' = companies /\ routes' = routes /\ notes' = notes
      /\ p \in DOMAIN people /\ people' = [ people EXCEPT ![p].primary = FALSE ]
  BY DEF UnmarkPrimary
<1>2. /\ IsTable(people, People, PersonRow)
      /\ \A q \in DOMAIN people : people[q].account \in DOMAIN companies
  BY DEF DirectoryInv, DirectoryTypeOK
<1>3. PICK row : row = [ people[p] EXCEPT !.primary = FALSE ]
  OBVIOUS
<1>4. row \in PersonRow /\ row.account = people[p].account
  BY <1>1, <1>2, <1>3, UnmarkedPerson DEF IsTable
<1>5. people' = [ people EXCEPT ![p] = row ]
  BY <1>1, <1>3
<1>a. /\ IsTable(people', People, PersonRow) /\ DOMAIN people' = DOMAIN people
      /\ \A q \in DOMAIN people : people'[q].account = people[q].account
  BY <1>1, <1>2, <1>4, <1>5 DEF IsTable
<1>6. DirectoryTypeOK'
  BY <1>1, <1>2, <1>a DEF DirectoryInv, DirectoryTypeOK
<1>7. DesksOK'
  BY <1>1, OthersLate
<1>8. QED
  BY <1>6, <1>7 DEF DirectoryInv, DesksOK

\* A contact that is deleted; the notes about it go with it.
LEMMA DeleteContactKeeps ==
  ASSUME DirectoryInv, NEW p \in People, DeleteContact(p)
  PROVE  DirectoryInv'
<1>1. /\ others_late /\ companies' = companies /\ routes' = routes
      /\ people' = Select(people, DOMAIN people \ { p })
      /\ notes' = Select(notes, DOMAIN notes \ about(p))
  BY DEF DeleteContact
<1>2. /\ IsTable(people, People, PersonRow)
      /\ IsTable(notes, Notes, NoteRow)
      /\ \A q \in DOMAIN people : people[q].account \in DOMAIN companies
      /\ \A n \in DOMAIN notes :
           /\ notes[n].about # {}
           /\ notes[n].about \subseteq DOMAIN companies \cup DOMAIN people
  BY DEF DirectoryInv, DirectoryTypeOK
<1>3. /\ IsTable(people', People, PersonRow)
      /\ DOMAIN people' = DOMAIN people \ { p }
      /\ \A q \in DOMAIN people' : people'[q] = people[q]
  BY <1>1, <1>2 DEF Select, IsTable
<1>4. /\ IsTable(notes', Notes, NoteRow)
      /\ DOMAIN notes' = DOMAIN notes \ about(p)
      /\ \A n \in DOMAIN notes' : notes'[n] = notes[n]
  BY <1>1, <1>2 DEF Select, IsTable
<1>5. \A n \in DOMAIN notes' :
        /\ notes'[n].about # {}
        /\ notes'[n].about \subseteq DOMAIN companies \cup DOMAIN people'
  BY <1>2, <1>3, <1>4 DEF about
<1>6. DirectoryTypeOK'
  BY <1>1, <1>2, <1>3, <1>4, <1>5 DEF DirectoryInv, DirectoryTypeOK
<1>7. DesksOK'
  BY <1>1, OthersLate
<1>8. QED
  BY <1>6, <1>7 DEF DirectoryInv, DesksOK

\* A note that is written.
LEMMA LogKeeps ==
  ASSUME DirectoryInv, KeepLog
  PROVE  DirectoryInv'
<1>1. /\ IsTable(notes, Notes, NoteRow)
      /\ \A n \in DOMAIN notes :
           /\ notes[n].about # {}
           /\ notes[n].about \subseteq DOMAIN companies \cup DOMAIN people
  BY DEF DirectoryInv, DirectoryTypeOK
<1> DEFINE Good == /\ IsTable(notes', Notes, NoteRow)
                   /\ \A n \in DOMAIN notes' :
                        /\ notes'[n].about # {}
                        /\ notes'[n].about \subseteq DOMAIN companies \cup DOMAIN people
<1>2. ASSUME NEW n \in Notes, NEW due \in BOOLEAN, NEW completed \in BOOLEAN,
             UpdateNote(n, due, completed)
      PROVE  Good
  BY <1>1, <1>2 DEF UpdateNote, IsTable, NoteRow
<1>3. ASSUME NEW n \in Notes, CompleteFollowUp(n)
      PROVE  Good
  <2>1. PICK on \in BOOLEAN : on = TRUE
    OBVIOUS
  <2>2. notes' = [ notes EXCEPT ![n].completed = on ] /\ n \in DOMAIN notes
    BY <1>3, <2>1 DEF CompleteFollowUp
  <2>3. QED
    BY <1>1, <2>1, <2>2 DEF IsTable, NoteRow
<1>4. ASSUME NEW n \in Notes, NEW u \in Staff, DeleteNote(u, n)
      PROVE  Good
  BY <1>1, <1>4 DEF DeleteNote, Select, IsTable
<1>5. ASSUME NEW n \in Notes, NEW u \in Staff,
             NEW targets \in SUBSET (Companies \cup People), NEW due \in BOOLEAN,
             WriteNote(u, n, targets, due)
      PROVE  Good
  <2>1. PICK off \in BOOLEAN : off = FALSE
    OBVIOUS
  <2>2. PICK row : row = [ author |-> u, about |-> targets, due |-> due, completed |-> off ]
    OBVIOUS
  <2>3. notes' = Put(notes, n, row) /\ targets # {}
        /\ targets \subseteq DOMAIN companies \cup DOMAIN people
    BY <1>5, <2>1, <2>2 DEF WriteNote, open_account
  <2>4. row \in NoteRow /\ row.about = targets
    BY <2>1, <2>2 DEF NoteRow
  <2>5. QED
    BY <1>1, <2>3, <2>4 DEF Put, IsTable
<1>6. Good
  BY <1>2, <1>3, <1>4, <1>5 DEF KeepLog
<1>7. /\ others_late /\ companies' = companies /\ routes' = routes /\ people' = people
  BY DEF KeepLog, UpdateNote, CompleteFollowUp, DeleteNote, WriteNote
<1>8. DirectoryTypeOK'
  BY <1>6, <1>7 DEF DirectoryInv, DirectoryTypeOK
<1>9. DesksOK'
  BY <1>7, OthersLate
<1>10. QED
  BY <1>8, <1>9 DEF DirectoryInv, DesksOK

\* The invariant holds at first.
LEMMA DirectoryBegins == DirectoryInit => DirectoryInv
<1> SUFFICES ASSUME DirectoryInit PROVE DirectoryInv
  OBVIOUS
<1>1. /\ companies = [ k \in DOMAIN companies |-> companies[k] ] /\ DOMAIN companies = {}
      /\ routes = [ k \in DOMAIN routes |-> routes[k] ] /\ DOMAIN routes = {}
      /\ people = [ k \in DOMAIN people |-> people[k] ] /\ DOMAIN people = {}
      /\ notes = [ k \in DOMAIN notes |-> notes[k] ] /\ DOMAIN notes = {}
  BY DEF DirectoryInit, EmptyTable
<1>2. DirectoryTypeOK
  BY <1>1 DEF DirectoryTypeOK, IsTable
<1>3. desk = [ x \in Clerks |-> desk[x] ] /\ \A x \in Clerks : desk[x] = Vacant
  BY DEF DirectoryInit
<1>4. QED
  BY <1>2, <1>3 DEF DirectoryInv

\* Every step keeps it.
LEMMA DirectoryPreserved == DirectoryInv /\ [DirectoryNext]_directory => DirectoryInv'
<1> SUFFICES ASSUME DirectoryInv, [DirectoryNext]_directory PROVE DirectoryInv'
  OBVIOUS
<1>1. CASE KeepDirectory
  BY <1>1, CompanyKeeps, RemoveRouteKeeps, UnmarkPrimaryKeeps, DeleteContactKeeps
     DEF KeepDirectory
<1>2. CASE KeepLog
  BY <1>2, LogKeeps
<1>3. ASSUME NEW x \in Clerks, Mark(x) PROVE DirectoryInv'
  BY <1>3, MarkKeeps
<1>4. ASSUME NEW x \in Clerks, CommitRoute(x) PROVE DirectoryInv'
  BY <1>4, CommitRouteKeeps
<1>5. ASSUME NEW x \in Clerks, CommitContact(x) PROVE DirectoryInv'
  BY <1>5, CommitContactKeeps
<1>6. ASSUME NEW x \in Clerks, RollbackDesk(x) PROVE DirectoryInv'
  BY <1>6, RollbackDeskKeeps
<1>7. CASE UNCHANGED directory
  BY <1>7 DEF directory, DirectoryInv, DirectoryTypeOK, Marking, MarkShape, RouteMark,
              ContactMark, clear_preferred, clear_primary
<1>8. QED
  BY <1>1, <1>2, <1>3, <1>4, <1>5, <1>6, <1>7 DEF DirectoryNext

\* So it always holds.
LEMMA DirectoryInvariant == DirectorySpec => []DirectoryInv
  BY DirectoryBegins, DirectoryPreserved, PTL DEF DirectorySpec

\* The marks of routes, and those of contacts.
SingleRoutes ==
  \A j, k \in DOMAIN routes :
    j[1] = k[1] /\ routes[j].preferred /\ routes[k].preferred => j = k

SinglePeople ==
  \A p, q \in DOMAIN people :
    people[p].account = people[q].account /\ people[p].primary /\ people[q].primary
    => p = q

\* A commit that was not overtaken: the one marked is the only one.
LEMMA RouteStaysSingle ==
  ASSUME DirectoryInv, NEW x \in Clerks, CommitRoute(x), ~ desk[x].late, SingleRoutes
  PROVE  SingleRoutes'
<1>1. PICK t : t = desk[x]
  OBVIOUS
<1>2. PICK off : off = FALSE
  OBVIOUS
<1>3. PICK unmarked : unmarked = [ k \in t.unmarks |-> [ preferred |-> off ] ]
  OBVIOUS
<1>4. /\ t.busy /\ t.what = "route" /\ ~ t.late
      /\ routes' = Put(PutAll(routes, unmarked), t.key, t.row)
  BY <1>1, <1>2, <1>3 DEF CommitRoute
<1>5. RouteMark(t)
  BY <1>1, <1>4, VacantIsIdle DEF DirectoryInv, Marking
<1>6. \A k \in t.unmarks : ~ unmarked[k].preferred
  BY <1>2, <1>3
<1>7. \A k \in DOMAIN routes' : k # t.key => k \in DOMAIN routes \cup t.unmarks
  BY <1>3, <1>4 DEF Put, PutAll
<1>8. \A k \in DOMAIN routes' :
        routes'[k] = IF k = t.key THEN t.row
                     ELSE IF k \in t.unmarks THEN unmarked[k] ELSE routes[k]
  BY <1>3, <1>4 DEF Put, PutAll
<1>9. \A k \in DOMAIN routes' : routes'[k].preferred /\ k # t.key =>
        k \in DOMAIN routes /\ k \notin t.unmarks /\ routes[k].preferred
  BY <1>6, <1>7, <1>8
<1>10. t.row.preferred => \A k \in DOMAIN routes :
         k[1] = t.key[1] /\ routes[k].preferred => k \in t.unmarks
  BY <1>4, <1>5 DEF RouteMark, clear_preferred
<1>11. t.key \in DOMAIN routes' => routes'[t.key].preferred = t.row.preferred
  BY <1>8
<1>12. QED
  BY <1>9, <1>10, <1>11 DEF SingleRoutes

\* A commit that was not overtaken leaves one mark at most.
LEMMA PersonStaysSingle ==
  ASSUME DirectoryInv, NEW x \in Clerks, CommitContact(x), ~ desk[x].late, SinglePeople
  PROVE  SinglePeople'
<1>1. PICK t : t = desk[x]
  OBVIOUS
<1>2. /\ ContactMark(t) /\ ~ t.late
      /\ DOMAIN people' = DOMAIN people \cup { t.key }
      /\ people'[t.key] = t.row
      /\ \A p \in DOMAIN people \ { t.key } :
           /\ people'[p].account = people[p].account
           /\ people'[p].primary => people[p].primary /\ p \notin t.unmarks
  BY <1>1, CommitContactWrites
<1>3. t.row.primary => \A p \in DOMAIN people :
        people[p].account = t.row.account /\ people[p].primary /\ p # t.key
        => p \in t.unmarks
  BY <1>2 DEF ContactMark, clear_primary
<1>4. QED
  BY <1>2, <1>3 DEF SinglePeople

\* No step but the commit of a request that was overtaken leaves two marks.
LEMMA DoubleMarksNeedOverlaps ==
  ASSUME DirectoryInv, DirectoryNext, SingleMarks, NoClerkLate
  PROVE  SingleMarks'
<1>1. SingleRoutes /\ SinglePeople
  BY DEF SingleMarks, SingleRoutes, SinglePeople
<1>2. SUFFICES SingleRoutes' /\ SinglePeople'
  BY DEF SingleMarks, SingleRoutes, SinglePeople
<1>3. ASSUME NEW x \in Clerks, desk[x].busy, desk'[x] = Vacant
      PROVE  ~ desk[x].late
  BY <1>3, VacantIsIdle DEF NoClerkLate
<1>4. ASSUME NEW x \in Clerks, CommitRoute(x)
      PROVE  SingleRoutes' /\ SinglePeople'
  <2>1. desk[x].busy /\ desk'[x] = Vacant /\ people' = people
    BY <1>4 DEF CommitRoute, finishes
  <2>2. SingleRoutes'
    BY <1>1, <1>3, <1>4, <2>1, RouteStaysSingle
  <2>3. QED
    BY <1>1, <2>1, <2>2 DEF SinglePeople
<1>5. ASSUME NEW x \in Clerks, CommitContact(x)
      PROVE  SingleRoutes' /\ SinglePeople'
  <2>1. desk[x].busy /\ desk'[x] = Vacant /\ routes' = routes
    BY <1>5 DEF CommitContact, finishes
  <2>2. SinglePeople'
    BY <1>1, <1>3, <1>5, <2>1, PersonStaysSingle
  <2>3. QED
    BY <1>1, <2>1, <2>2 DEF SingleRoutes
<1>6. ASSUME NEW k \in RouteKeys, RemoveRoute(k)
      PROVE  SingleRoutes' /\ SinglePeople'
  <2>1. /\ people' = people /\ DOMAIN routes' \subseteq DOMAIN routes
        /\ \A j \in DOMAIN routes' : routes'[j] = routes[j]
    BY <1>6 DEF RemoveRoute, Select
  <2>2. QED
    BY <1>1, <2>1 DEF SingleRoutes, SinglePeople
<1>7. ASSUME NEW p \in People, UnmarkPrimary(p) \/ DeleteContact(p)
      PROVE  SingleRoutes' /\ SinglePeople'
  <2>1. routes' = routes /\ DOMAIN people' \subseteq DOMAIN people
        /\ \A q \in DOMAIN people' : /\ people'[q].account = people[q].account
                                     /\ people'[q].primary => people[q].primary
    <3>1. CASE DeleteContact(p)
      BY <3>1 DEF DeleteContact, Select
    <3>2. CASE UnmarkPrimary(p)
      <4>1. PICK row : row = [ people[p] EXCEPT !.primary = FALSE ]
        OBVIOUS
      <4>2. p \in DOMAIN people /\ people[p] \in PersonRow
        BY <3>2 DEF UnmarkPrimary, DirectoryInv, DirectoryTypeOK, IsTable
      <4>3. row.account = people[p].account /\ ~ row.primary
        BY <4>1, <4>2, UnmarkedPerson
      <4>4. people' = [ people EXCEPT ![p] = row ] /\ routes' = routes
        BY <3>2, <4>1 DEF UnmarkPrimary
      <4>5. QED
        BY <4>2, <4>3, <4>4
    <3>3. QED
      BY <1>7, <3>1, <3>2
  <2>2. QED
    BY <1>1, <2>1 DEF SingleRoutes, SinglePeople
<1>8. ASSUME routes' = routes, people' = people
      PROVE  SingleRoutes' /\ SinglePeople'
  BY <1>1, <1>8 DEF SingleRoutes, SinglePeople
<1>9. ASSUME NEW a \in Companies, CreateCompany(a) \/ ArchiveCompany(a)
      PROVE  routes' = routes /\ people' = people
  BY <1>9 DEF CreateCompany, ArchiveCompany
<1>10. ASSUME KeepLog
       PROVE  routes' = routes /\ people' = people
  BY <1>10 DEF KeepLog, UpdateNote, CompleteFollowUp, DeleteNote, WriteNote
<1>11. ASSUME NEW x \in Clerks, Mark(x) \/ RollbackDesk(x)
       PROVE  routes' = routes /\ people' = people
  BY <1>11 DEF Mark, StartAddRoute, StartMarkPrimary, StartAddContact, Serves, RollbackDesk
<1>12. QED
  BY <1>4, <1>5, <1>6, <1>7, <1>8, <1>9, <1>10, <1>11 DEF DirectoryNext, KeepDirectory

\* Routes, contacts and activities keep their columns' types and refer to what
\* there is, whatever requests overlap and whoever is deleted.
THEOREM DirectoryKeepsTypes == DirectorySpec => []DirectoryTypeOK
<1>1. DirectoryInv => DirectoryTypeOK
  BY DEF DirectoryInv
<1>2. QED
  BY <1>1, DirectoryInvariant, PTL

\* One preferred route and one primary contact of an account stay the only ones
\* when the requests that mark them do not overlap.
THEOREM MarksStaySingle == DirectorySpec => OnlyOverlapsDoubleMarks
<1> DEFINE A == SingleMarks /\ NoClerkLate => SingleMarks'
<1>1. DirectoryInv /\ [DirectoryNext]_directory => [A]_directory
  BY DoubleMarksNeedOverlaps
<1>2. DirectorySpec => [][A]_directory
  BY <1>1, DirectoryInvariant, PTL DEF DirectorySpec
<1>3. QED
  BY <1>2 DEF OnlyOverlapsDoubleMarks

-----------------------------------------------------------------------------
(* The records together (module MCRecords).                                *)

\* A behaviour is about one of the modules: the others stand still.
LEMMA OneModuleMoves ==
  ASSUME [Next]_records
  PROVE  /\ [RequirementsNext]_demand /\ [ConfigurationsNext]_rules
         /\ [AccessNext]_access /\ [ImportsNext]_staging
         /\ [TalentNext]_talent /\ [DirectoryNext]_directory
<1>1. CASE UNCHANGED records
  BY <1>1 DEF records
<1>2. CASE Next
  <2>1. ASSUME NEW t, About(t)
        PROVE  /\ t # "requirements" => UNCHANGED demand
               /\ t # "rules" => UNCHANGED rules
               /\ t # "access" => UNCHANGED access
               /\ t # "imports" => UNCHANGED staging
               /\ t # "talent" => UNCHANGED talent
               /\ t # "directory" => UNCHANGED directory
    BY <2>1 DEF About
  <2>2. QED
    BY <1>2, <2>1 DEF Next
<1>3. QED
  BY <1>1, <1>2

\* Each module's steps are its own: a behaviour of all of them is one of each, and
\* what is proved of one holds of the whole.
THEOREM RecordsAreOfTheirModules ==
  Spec => /\ RequirementsSpec /\ ConfigurationsSpec /\ AccessSpec
          /\ ImportsSpec /\ TalentSpec /\ DirectorySpec
<1>1. Init => /\ RequirementsInit /\ ConfigurationsInit /\ AccessInit
              /\ ImportsInit /\ TalentInit /\ DirectoryInit
  BY DEF Init
<1>2. [Next]_records => /\ [RequirementsNext]_demand /\ [ConfigurationsNext]_rules
                        /\ [AccessNext]_access /\ [ImportsNext]_staging
                        /\ [TalentNext]_talent /\ [DirectoryNext]_directory
  BY OneModuleMoves
<1>3. QED
  BY <1>1, <1>2, PTL
     DEF Spec, RequirementsSpec, ConfigurationsSpec, AccessSpec, ImportsSpec,
         TalentSpec, DirectorySpec

\* Every stored record has its columns' types and the rows it refers to.
THEOREM RecordsKeepTypes == Spec => []RecordsTypeOK
<1> QED
  BY RowsKeepTypes, RecordsAreOfTheirModules, RulesKeepTypes, AccessKeepsTypes,
     ImportsKeepTypes, TalentKeepsTypes, DirectoryKeepsTypes, PTL DEF RecordsTypeOK
=============================================================================
