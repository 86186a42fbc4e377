------------------------------- MODULE Scoring -------------------------------
(***************************************************************************)
(* The opportunity score (app/engines/scoring): what a requirement is      *)
(* worth, computed by app/services/scoring.py from the rows of the         *)
(* requirement, its account and the consultant it was matched with.  The   *)
(* state is those rows, changed one request at a time; the score is        *)
(* computed from them with the rules the program ships.  What may be       *)
(* missing is a set of at most one value.  Money is in cents, shares are   *)
(* in hundredths.                                                          *)
(***************************************************************************)
EXTENDS Integers, FiniteSets, FiniteSetsExt

CONSTANTS
  Candidates,  \* [ match, cost, work_auth_expired ]: consultants who may match best;
               \* the cost being a rate or unknown
  Offers,      \* [ amount, unit, currency ]: rates a client may offer
  Durations,   \* lengths of the engagement, in months
  OneOffs      \* totals of visa, insurance and other costs

\* Rates, never negative.
Prices == [ amount : Nat, unit : { "HOURLY", "DAILY", "MONTHLY", "ANNUAL" }, currency : STRING ]

ASSUME ScoringInputs ==
  /\ Candidates \subseteq
       [ match : 0 .. 100, cost : SUBSET Prices, work_auth_expired : BOOLEAN ]
  /\ \A c \in Candidates : \A p, q \in c.cost : p = q
  /\ Offers \subseteq Prices
  /\ Durations \subseteq 1 .. 120 /\ OneOffs \subseteq Nat

VARIABLES
  client,    \* the account the requirement belongs to
  open,      \* whether the requirement is open
  deadline,  \* of the response: "none", "ahead" or "past"
  offer,     \* the rate offered
  months,    \* the duration
  best       \* the best match

worth == << client, open, deadline, offer, months, best >>

(***************************************************************************)
(* Arithmetic: n / d rounded to the nearest integer.                       *)
(***************************************************************************)
half_up(n, d) == (2 * n + d) \div (2 * d)

half_even(n, d) ==
  LET f == n \div d  twice == 2 * (n % d)
  IN  IF twice > d \/ (twice = d /\ f % 2 = 1) THEN f + 1 ELSE f

(***************************************************************************)
(* The calculator.                                                         *)
(***************************************************************************)
\* DEFAULT_CURRENCY_RATES, in thousandths of a riyal.
CURRENCY_RATES ==
  [ QAR |-> 1000, USD |-> 3640, EUR |-> 3950, GBP |-> 4600, AED |-> 990, SAR |-> 970,
    INR |-> 44 ]

\* An amount in a currency that is not configured is unknown.
convert(price) ==
  IF price.currency = "QAR" THEN { price.amount }
  ELSE { half_up(price.amount * CURRENCY_RATES[c], 1000) :
           c \in { price.currency } \cap DOMAIN CURRENCY_RATES }

\* 22 working days of 8 hours.
to_monthly(amount, unit) ==
  CASE unit = "HOURLY" -> amount * 22 * 8
    [] unit = "DAILY" -> amount * 22
    [] unit = "MONTHLY" -> amount
    [] unit = "ANNUAL" -> half_up(amount, 12)

monthly(price) == UNION { { to_monthly(a, p.unit) : a \in convert(p) } : p \in price }

one_off_monthly(one_off, term) == half_up(one_off, term)

\* The margin in hundredths of a percent; without revenue it is zero.
margin_percent(revenue, profit) ==
  IF revenue = 0 THEN 0
  ELSE LET percent == profit * 100
       IN  (percent \div revenue) * 100 + half_even((percent % revenue) * 100, revenue)

calculate(bill, cost, term, one_off) ==
  LET revenue == monthly(bill)
      monthly_cost == { c + one_off_monthly(one_off, term) : c \in monthly(cost) }
  IN  [ monthly_revenue |-> revenue,
        monthly_cost |-> monthly_cost,
        contract_value |-> { r * term : r \in revenue },
        margin |-> { margin_percent(r, r - c) : r \in revenue, c \in monthly_cost },
        total_profit |-> { (r - c) * term : r \in revenue, c \in monthly_cost } ]

\* The points of the highest band that is met.
band_points(value, rows, floor) ==
  LET met == { row \in rows : value >= row[1] }
  IN  IF met = {} THEN floor
      ELSE (CHOOSE row \in met : \A other \in met : row[1] >= other[1])[2]

margin_bands ==
  { << 3500, 60 >>, << 3000, 52 >>, << 2500, 44 >>, << 2000, 34 >>, << 1500, 22 >>,
    << 1000, 12 >>, << 1, 5 >> }

value_bands ==
  { << 150000000, 25 >>, << 75000000, 20 >>, << 35000000, 15 >>, << 12000000, 10 >> }

duration_bands == { << 24, 15 >>, << 12, 13 >>, << 6, 10 >>, << 3, 6 >> }

\* None when a rate is unknown.
score_commercial(figures, term) ==
  { band_points(m, margin_bands, 0) + band_points(v, value_bands, 5)
      + band_points(term, duration_bands, 3) :
    m \in figures.margin, v \in figures.contract_value }

(***************************************************************************)
(* Addressability.                                                         *)
(***************************************************************************)
Points ==
  [ outsourcing_friendly |-> 10, existing_customer |-> 20, partner_route |-> 15,
    approved_vendor |-> 20, decision_maker |-> 10, requirement_active |-> 10,
    can_submit |-> 10, viable_rate |-> 5 ]

\* A rate of a month below this is not viable, in cents.
rate_floor_monthly == 800000

resolve(value) ==
  IF value = {} THEN "UNKNOWN" ELSE IF value = { TRUE } THEN "MET" ELSE "NOT_MET"

\* _account_facts: what is read of the account, its routes and its contacts.
fact(data, name) == { a[name] : a \in data.client }

has_decision_maker(data) ==
  { a.contacts = "decider" : a \in { b \in data.client : b.contacts # "none" } }

\* The rate is brought to a month and left in its currency.
monthly_rate(data) == { to_monthly(o.amount, o.unit) : o \in data.offer }

factors(data) ==
  [ outsourcing_friendly |-> resolve(fact(data, "outsourcing")),
    existing_customer |-> resolve(fact(data, "customer")),
    partner_route |->
      IF fact(data, "route") # { TRUE } /\ fact(data, "customer") = { TRUE }
      THEN "NOT_APPLICABLE" ELSE resolve(fact(data, "route")),
    approved_vendor |-> resolve(fact(data, "vendor")),
    decision_maker |-> resolve(has_decision_maker(data)),
    requirement_active |-> resolve({ data.open }),
    can_submit |-> resolve({ data.deadline # "past" }),
    viable_rate |-> resolve({ r >= rate_floor_monthly : r \in monthly_rate(data) }) ]

\* Mutant: the gate stays open until somebody has been matched.
supply_gate_for_matched(match) ==
  IF match = {} THEN 100
  ELSE LET m == CHOOSE x \in match : TRUE
       IN  band_points(m, { << 70, 100 >>, << 55, 85 >>, << 40, 60 >> }, 35)

supply_gate_for(match) ==
  IF match = {} THEN 35
  ELSE LET m == CHOOSE x \in match : TRUE
       IN  band_points(m, { << 70, 100 >>, << 55, 85 >>, << 40, 60 >> }, 35)

talent_match(data) == { b.match : b \in data.best }

\* The points of the factors that are in one of some states.
points_of(states, some) ==
  LET points(f) == IF states[f] \in some THEN Points[f] ELSE 0
  IN  points("outsourcing_friendly") + points("existing_customer")
        + points("partner_route") + points("approved_vendor")
        + points("decision_maker") + points("requirement_active")
        + points("can_submit") + points("viable_rate")

\* In binary, 0.35 x 90 falls short of 31.5; the other halves are exact.
gated(raw_total, gate) ==
  IF raw_total = 90 /\ gate = 35 THEN 31 ELSE half_even(raw_total * gate, 100)

\* The confidence: how many of the hundred points are about something known.
answered(states) == points_of(states, { "MET", "NOT_MET", "NOT_APPLICABLE" })

score_addressability(states, match) ==
  [ score |-> gated(points_of(states, { "MET" }), supply_gate_for(match)),
    confidence |-> answered(states) ]

(***************************************************************************)
(* The opportunity score.                                                  *)
(***************************************************************************)
weights == [ talent_match |-> 40, addressability |-> 35, commercial |-> 25 ]

\* Mutant: the weights are left as they are, whatever is missing.
known_weight_as_planned(known) == 100

\* A sum over the components that are known.
over(known, talent, reach, worthiness) ==
  (IF "talent_match" \in known THEN talent ELSE 0)
    + (IF "addressability" \in known THEN reach ELSE 0)
    + (IF "commercial" \in known THEN worthiness ELSE 0)

known_weight(known) ==
  over(known, weights.talent_match, weights.addressability, weights.commercial)

\* The sum of the contributions, each of them rounded to hundredths.
weighted(components, known) ==
  LET weight == known_weight(known)
      contribution(k) ==
        half_even((CHOOSE v \in components[k] : TRUE) * 100 * weights[k], weight)
  IN  half_even(over(known, contribution("talent_match"), contribution("addressability"),
                     contribution("commercial")), 100)

\* OpportunityBand, by rank.
DEPRIORITIZE == 1
REVIEW == 2
PURSUE == 3
PURSUE_NOW == 4

band_for(score) ==
  IF score >= 80 THEN PURSUE_NOW
  ELSE IF score >= 65 THEN PURSUE
  ELSE IF score >= 50 THEN REVIEW
  ELSE DEPRIORITIZE

\* The ceilings of the codes, in the order the codes are collected.
SUPPRESSORS == << REVIEW, DEPRIORITIZE, REVIEW, REVIEW >>

apply_suppressors(uncapped, codes) ==
  Min({ uncapped } \cup { SUPPRESSORS[n] : n \in codes })

\* Not addressable, the deadline past, the work permit expired, no margin.
collected(data, reach, figures) ==
  { n \in 1 .. 4 :
      CASE n = 1 -> reach.score < 40
        [] n = 2 -> data.deadline = "past"
        [] n = 3 -> \E b \in data.best : b.work_auth_expired
        [] n = 4 -> \E m \in figures.margin : m <= 0 }

compose(data, reach, figures, worthiness) ==
  LET components == [ talent_match |-> talent_match(data), addressability |-> { reach.score },
                      commercial |-> worthiness ]
      known == { k \in DOMAIN weights : components[k] # {} }
      score == weighted(components, known)
      codes == collected(data, reach, figures)
  IN  [ components |-> components, known |-> known, score |-> score,
        confidence |-> reach.confidence, codes |-> codes,
        band |-> apply_suppressors(band_for(score), codes) ]

\* A requirement without a duration is taken for a year's.
duration(data) == IF data.months = {} THEN 12 ELSE CHOOSE m \in data.months : TRUE

\* The figures of one position, at the cost of the consultant who matches best.
engagement(data, one_off) ==
  calculate(data.offer, UNION { b.cost : b \in data.best }, duration(data), one_off)

score_requirement(data) ==
  LET figures == engagement(data, 0) IN
  compose(data, score_addressability(factors(data), talent_match(data)), figures,
          score_commercial(figures, duration(data)))

(***************************************************************************)
(* The rows.                                                               *)
(***************************************************************************)
rows ==
  [ client |-> client, open |-> open, deadline |-> deadline, offer |-> offer,
    months |-> months, best |-> best ]

\* What accounts say of themselves: route stands for is_existing_partner or a
\* preferred route to the account, vendor for is_approved_vendor or has_msa.
Flags == { "outsourcing", "customer", "route", "vendor" }

\* An account as it is created with its name alone: the columns are not null
\* and false by default.
Fresh == [ f \in Flags \cup { "contacts" } |-> IF f = "contacts" THEN "none" ELSE FALSE ]

ScoringInit ==
  /\ client = {} /\ open = TRUE /\ deadline \in { "none", "ahead" }
  /\ offer = {} /\ months = {} /\ best = {}

\* PATCH /requirements/{id}: the account, the rate, the duration, the deadline.
EditRequirement ==
  \/ /\ client' = IF client = {} THEN { Fresh } ELSE {}
     /\ UNCHANGED << open, deadline, offer, months, best >>
  \/ /\ offer' \in { {} } \cup { { o } : o \in Offers }
     /\ UNCHANGED << client, open, deadline, months, best >>
  \/ /\ months' \in { {} } \cup { { d } : d \in Durations }
     /\ UNCHANGED << client, open, deadline, offer, best >>
  \/ /\ deadline' \in { "none", "ahead" }
     /\ UNCHANGED << client, open, offer, months, best >>

\* POST /requirements/{id}/status.
CloseOrReopen ==
  open' = ~ open /\ UNCHANGED << client, deadline, offer, months, best >>

\* PATCH /accounts/{id}, POST and DELETE /accounts/{id}/routes.
EditAccount(f) ==
  /\ client' = { [ a EXCEPT ![f] = ~ @ ] : a \in client }
  /\ UNCHANGED << open, deadline, offer, months, best >>

\* POST, PATCH and DELETE /contacts.
EditContacts(some) ==
  /\ client' = { [ a EXCEPT !.contacts = some ] : a \in client }
  /\ UNCHANGED << open, deadline, offer, months, best >>

\* POST /matching/run replaces the matches of the requirement; the cost and the
\* work permit of the consultant are edited in between.
RunMatching ==
  /\ best' \in { {} } \cup { { c } : c \in Candidates }
  /\ UNCHANGED << client, open, deadline, offer, months >>

DeadlinePasses ==
  /\ deadline = "ahead" /\ deadline' = "past"
  /\ UNCHANGED << client, open, offer, months, best >>

ScoringNext ==
  \/ EditRequirement \/ CloseOrReopen \/ RunMatching \/ DeadlinePasses
  \/ \E f \in Flags : EditAccount(f)
  \/ \E some \in { "none", "some", "decider" } : EditContacts(some)

ScoringSpec == ScoringInit /\ [][ScoringNext]_worth

(***************************************************************************)
(* Properties.                                                             *)
(***************************************************************************)
\* "A missing component is redistributed, never zeroed": the score lies between
\* the worst and the best of the components that are known, which themselves
\* stay between 0 and 100.
MissingIsRedistributed ==
  LET result == score_requirement(rows)
      values == UNION { result.components[k] : k \in result.known }
  IN  values \subseteq 0 .. 100 /\ result.score \in Min(values) .. Max(values)

\* "Suppressors only ever lower it, never promote": whatever comes together, the
\* band is below every ceiling and what the score alone gives.
CapsHold ==
  LET result == score_requirement(rows) IN
  /\ result.band <= band_for(result.score)
  /\ deadline = "past" => result.band = DEPRIORITIZE
  /\ result.codes # {} => result.band <= REVIEW

\* The figures reconcile over the engagement, to the cent: value, cost and
\* profit, and the one-off costs but for half a cent a month.
EngagementReconciles ==
  \A one_off \in OneOffs :
    LET figures == engagement(rows, one_off)
        term == duration(rows)
        spread == one_off_monthly(one_off, term) * term
    IN  /\ \A v \in figures.contract_value, p \in figures.total_profit,
              k \in figures.monthly_cost : v = p + k * term
        /\ 2 * (spread - one_off) \in -term .. term

\* The score, its band and the figures are what their parts say, however many of
\* them are missing.
ScoreHolds == MissingIsRedistributed /\ CapsHold /\ EngagementReconciles

\* A step takes nothing back: what is a yes stays one, what is known stays
\* known, and a figure only moves to the better.
NoMore(old, new) == old = {} \/ old = new \/ (old = { FALSE } /\ new = { TRUE })

NoWorse ==
  /\ \A f \in Flags : NoMore(fact(rows, f), fact(rows', f))
  /\ NoMore(has_decision_maker(rows), has_decision_maker(rows'))
  /\ open => open'
  /\ deadline' = "past" => deadline = "past"
  /\ \A o \in offer : \E n \in offer' :
       [ n EXCEPT !.amount = o.amount ] = o /\ n.amount >= o.amount
  /\ \A b \in best : \E n \in best' :
       [ n EXCEPT !.match = b.match ] = b /\ n.match >= b.match
  /\ duration(rows') >= duration(rows)

\* Good news never hurts: when no fact gets worse, neither does addressability,
\* nor what of it is answered; and with the same components known neither do the
\* score and its band.
GoodNewsNeverHurts ==
  [][ NoWorse =>
        \A old \in { score_requirement(rows) }, new \in { score_requirement(rows') } :
            /\ \A v \in new.components.addressability, w \in old.components.addressability :
                 v >= w
            /\ new.confidence >= old.confidence
            /\ new.known = old.known => new.score >= old.score /\ new.band >= old.band ]_worth
=============================================================================
