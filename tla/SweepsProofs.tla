---------------------------- MODULE SweepsProofs ----------------------------
(***************************************************************************)
(* Proofs about Sweeps, whatever is watched, whenever it is due and however*)
(* many sweeps run at once, die, or collide.                               *)
(***************************************************************************)
EXTENDS Sweeps, TLAPS

-----------------------------------------------------------------------------
(* What an alert is about.                                                 *)

\* The milestone that leaves nothing for later, of the kinds that have one.
final_of(kind) ==
  IF kind = "submission_sla" THEN { 2 } ELSE IF kind = "zero_bench" THEN { 7 } ELSE {}

\* Alerts are about a subject, and those of its final milestone are CRITICAL.
GoodAlerts(table) ==
  \A k \in DOMAIN table :
    /\ k[1] \in Subjects
    /\ table[k] \in [ severity : Severity, about : Nat ]
    /\ k[2] \in final_of(KindOf[k[1]]) => table[k].severity = "CRITICAL"

\* Every severity a rule gives is one of the three.
LEMMA SeverityIsKnown ==
  ASSUME NEW kind \in Kinds, NEW milestone, NEW left
  PROVE  /\ severity(kind, milestone, left) \in Severity
         /\ milestone \in final_of(kind) =>
              severity(kind, milestone, left) = "CRITICAL"
  BY DEF severity, Severity, Kinds, final_of

\* A countdown has one tightest milestone at the most, and reaches the final
\* one in the days or hours of the last call (sla_milestone, milestone_for).
LEMMA LastCallReachesFinal ==
  ASSUME NEW kind \in Kinds, NEW due \in Nat, NEW at \in Nat,
         remaining(kind, due, at) \in LastCall[kind]
  PROVE  \E m \in final_of(kind) : reached(kind, due, at) = { m }
<1> DEFINE left == remaining(kind, due, at)
<1>1. CASE kind = "submission_sla"
  <2>1. left \in 0..2
    BY <1>1 DEF LastCall
  <2>2. reached(kind, due, at) = tightest(SLA_MILESTONES, left)
    BY <1>1 DEF reached
  <2>3. tightest(SLA_MILESTONES, left) = { 2 }
    <3> HIDE DEF left
    <3> QED  BY <2>1 DEF tightest, SLA_MILESTONES
  <2> QED  BY <1>1, <2>2, <2>3 DEF final_of
<1>2. CASE kind = "zero_bench"
  <2>1. left \in 0..7
    BY <1>2 DEF LastCall
  <2>2. reached(kind, due, at) = tightest(bench_milestones, left)
    BY <1>2 DEF reached
  <2>3. tightest(bench_milestones, left) = { 7 }
    <3> HIDE DEF left
    <3> QED  BY <2>1 DEF tightest, bench_milestones
  <2> QED  BY <1>2, <2>2, <2>3 DEF final_of
<1>3. CASE kind \notin { "submission_sla", "zero_bench" }
  BY <1>3 DEF LastCall
<1> QED  BY <1>1, <1>2, <1>3

\* A subject has reached one milestone at the most.
LEMMA OneMilestone ==
  ASSUME NEW kind \in Kinds, NEW due \in Nat, NEW at \in Nat,
         NEW m \in reached(kind, due, at), NEW n \in reached(kind, due, at)
  PROVE  m = n
<1> DEFINE left == remaining(kind, due, at)
<1>1. left \in Int
  BY DEF remaining
<1>2. CASE kind = "submission_sla"
  <2>1. m \in tightest(SLA_MILESTONES, left) /\ n \in tightest(SLA_MILESTONES, left)
    BY <1>2 DEF reached
  <2> HIDE DEF left
  <2> QED  BY <1>1, <2>1 DEF tightest, SLA_MILESTONES
<1>3. CASE kind = "document_expiry"
  <2>1. m \in document_milestone(left) /\ n \in document_milestone(left)
    BY <1>3 DEF reached
  <2> HIDE DEF left
  <2> QED  BY <1>1, <2>1 DEF document_milestone
<1>4. CASE kind = "follow_up_overdue"
  BY <1>4 DEF reached
<1>5. CASE kind = "project_ending"
  <2>1. m \in tightest(PROJECT_ENDING_MILESTONES, left)
          /\ n \in tightest(PROJECT_ENDING_MILESTONES, left)
    BY <1>5 DEF reached
  <2> HIDE DEF left
  <2> QED  BY <1>1, <2>1 DEF tightest, PROJECT_ENDING_MILESTONES
<1>6. CASE kind = "zero_bench"
  <2>1. m \in tightest(bench_milestones, left) /\ n \in tightest(bench_milestones, left)
    BY <1>6 DEF reached
  <2> HIDE DEF left
  <2> QED  BY <1>1, <2>1 DEF tightest, bench_milestones
<1> QED  BY <1>2, <1>3, <1>4, <1>5, <1>6 DEF Kinds

\* What a row gives rise to is about it and its date.
LEMMA AlertsAreAbout ==
  ASSUME NEW kind, NEW s, NEW due, NEW at, NEW new, new = alerts(kind, s, due, at),
         NEW k \in DOMAIN new
  PROVE  k[1] = s /\ new[k].about = due
  BY DEF alerts, dedupe_key

\* What a row gives rise to has a severity that fits.
LEMMA AlertsAreGood ==
  ASSUME NEW s \in Subjects, NEW due \in Nat, NEW at \in Nat
  PROVE  /\ GoodAlerts(alerts(KindOf[s], s, due, at))
         /\ DOMAIN alerts(KindOf[s], s, due, at)
              = { dedupe_key(s, m) : m \in reached(KindOf[s], due, at) }
<1> DEFINE kind == KindOf[s]
           new == alerts(kind, s, due, at)
           told == CHOOSE m \in reached(kind, due, at) : TRUE
<1>1. kind \in Kinds
  BY SweepInputs
<1>2. DOMAIN new = { dedupe_key(s, m) : m \in reached(kind, due, at) }
  BY DEF alerts
<1>3. ASSUME NEW k \in DOMAIN new
      PROVE  /\ k[1] = s
             /\ new[k] \in [ severity : Severity, about : Nat ]
             /\ k[2] \in final_of(KindOf[k[1]]) => new[k].severity = "CRITICAL"
  <2>1. PICK m \in reached(kind, due, at) : k = dedupe_key(s, m)
    BY <1>2, <1>3
  <2>2. k[1] = s /\ k[2] = m
    BY <2>1 DEF dedupe_key
  <2>3. told = m
    <3>1. told \in reached(kind, due, at)
      BY <2>1
    <3> QED  BY <1>1, <3>1, OneMilestone
  <2>4. new[k] = [ severity |-> severity(kind, told, remaining(kind, due, at)),
                   about    |-> due ]
    BY <1>2, <1>3 DEF alerts
  <2>5. PICK said : said = severity(kind, told, remaining(kind, due, at))
    OBVIOUS
  <2>6. said \in Severity /\ (m \in final_of(kind) => said = "CRITICAL")
    BY <1>1, <2>3, <2>5, SeverityIsKnown
  <2>7. new[k].severity = said
          /\ new[k] \in [ severity : Severity, about : Nat ]
    BY <2>4, <2>5, <2>6
  <2> QED  BY <2>2, <2>6, <2>7
<1> QED  BY <1>2, <1>3 DEF GoodAlerts

-----------------------------------------------------------------------------
(* The inductive invariant.                                                *)

\* What a sweep that has examined s has made sure of.
Told(t, s) ==
  remaining(t.kind, t.loaded[s].due, t.at) \in LastCall[t.kind] =>
    \E m \in final_of(t.kind) :
      dedupe_key(s, m) \in DOMAIN notifications \cup DOMAIN t.fresh

\* What a sweep is about to raise is about rows it has examined, as it found them.
AboutExamined(t) ==
  \A k \in DOMAIN t.fresh :
    k[1] \in DOMAIN t.loaded \ t.left /\ t.fresh[k].about = t.loaded[k[1]].due

\* A sweep that runs: its rows are of its kind, and of those it has examined
\* none in its last days is without the alert that says so.
Running(t) ==
  /\ t = [ kind |-> t.kind, at |-> t.at, loaded |-> t.loaded, left |-> t.left,
           fresh |-> t.fresh ]
  /\ t.kind \in Kinds
  /\ t.at \in Nat
  /\ t.left \subseteq DOMAIN t.loaded
  /\ DOMAIN t.loaded \subseteq Subjects
  /\ \A s \in DOMAIN t.loaded : KindOf[s] = t.kind /\ t.loaded[s].due \in Nat
  /\ GoodAlerts(t.fresh) /\ AboutExamined(t)
  /\ \A s \in DOMAIN t.loaded \ t.left : Told(t, s)

Typed ==
  /\ now \in Instants
  /\ watched \in [ Subjects -> [ due : Nat, live : BOOLEAN ] ]
  /\ moves \in 0..MaxMoves /\ failures \in 0..MaxFailures
  /\ sweeping = [ x \in Workers |-> sweeping[x] ]

IInv ==
  /\ Typed
  /\ GoodAlerts(notifications)
  /\ \A x \in Workers : sweeping[x] = Idle \/ Running(sweeping[x])

\* The alerts of two tables together.
LEMMA AlertsTogether ==
  ASSUME NEW table, NEW new, GoodAlerts(table), GoodAlerts(new)
  PROVE  GoodAlerts(PutAll(table, new))
  BY DEF GoodAlerts, PutAll

LEMMA IdleIsNone ==
  Idle.kind = "none" /\ DOMAIN Idle.loaded = {} /\ DOMAIN Idle.fresh = {}
  BY DEF Idle, EmptyTable

LEMMA InitIsGood == SweepsInit => IInv
<1> SUFFICES ASSUME SweepsInit PROVE IInv
  OBVIOUS
<1>1. watched \in [ Subjects -> [ due : Nat, live : BOOLEAN ] ]
  BY SweepInputs DEF SweepsInit
<1>2. GoodAlerts(notifications)
  BY DEF SweepsInit, GoodAlerts, EmptyTable
<1> QED  BY <1>1, <1>2, SweepInputs DEF SweepsInit, IInv, Typed

\* What a sweep knows it goes on knowing while alerts are added.
LEMMA RunningStays ==
  ASSUME NEW t, Running(t), DOMAIN notifications \subseteq DOMAIN notifications'
  PROVE  Running(t)'
<1>1. ASSUME NEW s \in DOMAIN t.loaded \ t.left
      PROVE  Told(t, s)'
  BY <1>1 DEF Running, Told
<1> QED  BY <1>1 DEF Running

LEMMA StepIsGood == IInv /\ [SweepsNext]_watching => IInv'
<1> SUFFICES ASSUME IInv, [SweepsNext]_watching PROVE IInv'
  OBVIOUS
<1> USE SweepInputs
<1>1. ASSUME NEW x \in Workers, NEW kind \in Kinds, StartSweep(x, kind)
      PROVE  IInv'
  <2> DEFINE chosen == { s \in Subjects : KindOf[s] = kind /\ selected(kind, watched[s], now) }
  <2>1. PICK t : t = [ kind |-> kind, at |-> now, loaded |-> Select(watched, chosen),
                       left |-> chosen, fresh |-> EmptyTable ]
    OBVIOUS
  <2>2. sweeping' = [ sweeping EXCEPT ![x] = t ]
    BY <1>1, <2>1 DEF StartSweep
  <2>3. DOMAIN t.loaded = chosen /\ \A s \in chosen : t.loaded[s] = watched[s]
    BY <2>1 DEF Select, IInv, Typed
  <2>4. Running(t)
    <3>1. GoodAlerts(t.fresh) /\ AboutExamined(t)
      BY <2>1 DEF GoodAlerts, AboutExamined, EmptyTable
    <3>2. \A s \in DOMAIN t.loaded : KindOf[s] = t.kind /\ t.loaded[s].due \in Nat
      BY <2>1, <2>3 DEF IInv, Typed
    <3> QED  BY <2>1, <2>3, <3>1, <3>2 DEF Running, IInv, Typed
  <2>5. UNCHANGED << now, watched, notifications, moves, failures >>
    BY <1>1 DEF StartSweep
  <2>6. ASSUME NEW y \in Workers
        PROVE  (sweeping[y] = Idle \/ Running(sweeping[y]))'
    <3>1. PICK u : u = sweeping'[y]
      OBVIOUS
    <3>2. u = Idle \/ Running(u)
      BY <2>2, <2>4, <3>1 DEF IInv, Typed
    <3> QED  BY <2>5, <3>1, <3>2, RunningStays
  <2> QED  BY <2>2, <2>5, <2>6 DEF IInv, Typed, GoodAlerts
<1>2. ASSUME NEW x \in Workers, NEW s \in Subjects, Examine(x, s)
      PROVE  IInv'
  <2>1. PICK t : t = sweeping[x]
    OBVIOUS
  <2>2. s \in t.left /\ UNCHANGED << now, watched, notifications, moves, failures >>
    BY <1>2, <2>1 DEF Examine
  <2>3. Running(t)
    BY <2>1, <2>2, <1>2 DEF IInv, Idle
  <2>4. PICK new : new = alerts(t.kind, s, t.loaded[s].due, t.at)
    OBVIOUS
  <2>5. PICK added : added = Select(new, DOMAIN new
                               \ (DOMAIN notifications \cup DOMAIN t.fresh))
    OBVIOUS
  <2>6. PICK u : u = [ kind |-> t.kind, at |-> t.at, loaded |-> t.loaded,
                       left |-> t.left \ { s }, fresh |-> PutAll(t.fresh, added) ]
    OBVIOUS
  <2>7. sweeping' = [ sweeping EXCEPT ![x] = u ]
    <3>1. u = [ t EXCEPT !.left = t.left \ { s }, !.fresh = PutAll(t.fresh, added) ]
      <4>1. PICK k, a, rows, rest, f :
              t = [ kind |-> k, at |-> a, loaded |-> rows, left |-> rest, fresh |-> f ]
        BY <2>3 DEF Running
      <4>2. PICK less, more : less = t.left \ { s } /\ more = PutAll(t.fresh, added)
        OBVIOUS
      <4>3. PICK half : half = [ t EXCEPT !.left = less ]
        OBVIOUS
      <4>4. half = [ kind |-> k, at |-> a, loaded |-> rows, left |-> less, fresh |-> f ]
        BY ONLY <4>1, <4>3
      <4>5. [ half EXCEPT !.fresh = more ]
              = [ kind |-> k, at |-> a, loaded |-> rows, left |-> less, fresh |-> more ]
        BY ONLY <4>4
      <4>6. u = [ kind |-> k, at |-> a, loaded |-> rows, left |-> less, fresh |-> more ]
        BY ONLY <2>6, <4>1, <4>2
      <4> QED  BY ONLY <4>2, <4>3, <4>5, <4>6, Zenon
    <3> QED  BY <1>2, <2>1, <2>4, <2>5, <3>1 DEF Examine, IInv, Typed
  <2>8. /\ GoodAlerts(new)
        /\ DOMAIN new = { dedupe_key(s, m) : m \in reached(t.kind, t.loaded[s].due, t.at) }
        /\ \A k \in DOMAIN new : k[1] = s /\ new[k].about = t.loaded[s].due
    <3>1. PICK d : d = t.loaded[s].due
      OBVIOUS
    <3>2. s \in Subjects /\ KindOf[s] = t.kind /\ d \in Nat /\ t.at \in Nat
      BY <2>2, <2>3, <3>1 DEF Running
    <3>3. new = alerts(KindOf[s], s, d, t.at)
      BY <2>4, <3>1, <3>2
    <3>4. GoodAlerts(new)
      BY <3>2, <3>3, AlertsAreGood
    <3>5. DOMAIN new = { dedupe_key(s, m) : m \in reached(t.kind, d, t.at) }
      BY <3>2, <3>3 DEF alerts
    <3>6. \A k \in DOMAIN new : k[1] = s /\ new[k].about = d
      BY <3>3, AlertsAreAbout
    <3> QED  BY <3>1, <3>4, <3>5, <3>6
  <2>9. GoodAlerts(added) /\ GoodAlerts(PutAll(t.fresh, added))
    <3>1. GoodAlerts(added)
      BY <2>5, <2>8 DEF Select, GoodAlerts
    <3> QED  BY <2>3, <3>1, AlertsTogether DEF Running
  <2>10. DOMAIN new \subseteq DOMAIN notifications \cup DOMAIN u.fresh
           /\ DOMAIN t.fresh \subseteq DOMAIN u.fresh
    BY <2>5, <2>6 DEF Select, PutAll
  <2>11. Told(u, s)
    <3>1. u.kind = t.kind /\ u.at = t.at /\ u.loaded = t.loaded
      BY <2>6
    <3>2. SUFFICES ASSUME remaining(u.kind, u.loaded[s].due, u.at) \in LastCall[u.kind]
                   PROVE  \E m \in final_of(u.kind) :
                            dedupe_key(s, m) \in DOMAIN notifications \cup DOMAIN u.fresh
      BY DEF Told
    <3>3. PICK m \in final_of(t.kind) : reached(t.kind, t.loaded[s].due, t.at) = { m }
      BY <2>2, <2>3, <3>1, <3>2, LastCallReachesFinal DEF Running
    <3> QED  BY <2>8, <2>10, <3>1, <3>3
  <2>12. Running(u)
    <3>1. ASSUME NEW r \in DOMAIN u.loaded \ u.left PROVE Told(u, r)
      <4>1. CASE r = s
        BY <2>11, <4>1
      <4>2. CASE r # s
        <5>1. Told(t, r)
          BY <2>3, <2>6, <3>1, <4>2 DEF Running
        <5> QED  BY <2>6, <2>10, <5>1 DEF Told
      <4> QED  BY <4>1, <4>2
    <3>2. AboutExamined(u)
      <4>1. \A k \in DOMAIN t.fresh :
              k[1] \in DOMAIN t.loaded \ t.left /\ t.fresh[k].about = t.loaded[k[1]].due
        BY <2>3 DEF Running, AboutExamined
      <4>2. \A k \in DOMAIN added : k[1] = s /\ added[k].about = t.loaded[s].due
        BY <2>5, <2>8 DEF Select
      <4>3. s \in DOMAIN t.loaded
        BY <2>2, <2>3 DEF Running
      <4> QED  BY <2>2, <2>6, <4>1, <4>2, <4>3 DEF AboutExamined, PutAll
    <3> QED  BY <2>3, <2>6, <2>9, <3>1, <3>2 DEF Running
  <2>13. ASSUME NEW y \in Workers
         PROVE  (sweeping[y] = Idle \/ Running(sweeping[y]))'
    <3>1. PICK v : v = sweeping'[y]
      OBVIOUS
    <3>2. v = Idle \/ Running(v)
      BY <2>7, <2>12, <3>1 DEF IInv, Typed
    <3> QED  BY <2>2, <3>1, <3>2, RunningStays
  <2> QED  BY <2>2, <2>7, <2>13 DEF IInv, Typed, GoodAlerts
<1>3. ASSUME NEW x \in Workers, sweeping' = [ sweeping EXCEPT ![x] = Idle ],
             UNCHANGED << now, watched, moves >>, failures' \in 0..MaxFailures,
             GoodAlerts(notifications'), DOMAIN notifications \subseteq DOMAIN notifications'
      PROVE  IInv'
  <2>1. ASSUME NEW y \in Workers
        PROVE  (sweeping[y] = Idle \/ Running(sweeping[y]))'
    <3>1. PICK v : v = sweeping'[y]
      OBVIOUS
    <3>2. v = Idle \/ Running(v)
      BY <1>3, <3>1 DEF IInv, Typed
    <3> QED  BY <1>3, <3>1, <3>2, RunningStays
  <2> QED  BY <1>3, <2>1 DEF IInv, Typed, GoodAlerts
<1>4. ASSUME NEW x \in Workers, Commit(x) PROVE IInv'
  <2>1. Running(sweeping[x])
    BY <1>4 DEF Commit, Finished, IInv
  <2>2. GoodAlerts(PutAll(notifications, sweeping[x].fresh))
    BY <2>1, AlertsTogether DEF Running, IInv
  <2>3. DOMAIN notifications \subseteq DOMAIN PutAll(notifications, sweeping[x].fresh)
    BY DEF PutAll
  <2> QED  BY <1>3, <1>4, <2>2, <2>3 DEF Commit, IInv, Typed
<1>5. ASSUME NEW x \in Workers, Collide(x) PROVE IInv'
  BY <1>3, <1>5 DEF Collide, IInv, Typed
<1>6. ASSUME NEW x \in Workers, Fail(x) PROVE IInv'
  BY <1>3, <1>6 DEF Fail, IInv, Typed
<1>7. ASSUME UNCHANGED << notifications, sweeping >>, Typed' PROVE IInv'
  <2>1. ASSUME NEW y \in Workers
        PROVE  (sweeping[y] = Idle \/ Running(sweeping[y]))'
    <3>1. PICK v : v = sweeping'[y]
      OBVIOUS
    <3>2. v = Idle \/ Running(v)
      BY <1>7, <3>1 DEF IInv
    <3> QED  BY <1>7, <3>1, <3>2, RunningStays
  <2> QED  BY <1>7, <2>1 DEF IInv, GoodAlerts
<1>8. ASSUME NEW s \in Subjects, Move(s) PROVE IInv'
  <2>1. Typed'
    BY <1>8 DEF Move, IInv, Typed
  <2> QED  BY <1>7, <1>8, <2>1 DEF Move
<1>9. CASE Tick
  <2>1. Typed'
    BY <1>9 DEF Tick, IInv, Typed
  <2> QED  BY <1>7, <1>9, <2>1 DEF Tick
<1>10. CASE UNCHANGED watching
  BY <1>7, <1>10 DEF watching, IInv, Typed
<1> QED
  BY <1>1, <1>2, <1>4, <1>5, <1>6, <1>8, <1>9, <1>10 DEF SweepsNext, Sweep, GetsOn

-----------------------------------------------------------------------------
(* What always holds.                                                      *)

THEOREM SweepsKeepGood == SweepsSpec => []IInv
  BY InitIsGood, StepIsGood, PTL DEF SweepsSpec

\* Every stored alert is about something that is watched and has a severity and
\* a date; every sweep holds rows of its kind only, and what it is about to raise
\* is about rows it has examined, for the dates it found there.
THEOREM SweepsTypeCorrect == SweepsSpec => []SweepsTypeOK
<1>1. IInv => SweepsTypeOK
  <2> SUFFICES ASSUME IInv PROVE SweepsTypeOK
    OBVIOUS
  <2>1. ASSUME NEW x \in Workers
        PROVE  LET t == sweeping[x] IN
               /\ t.kind \in Kinds \cup { "none" }
               /\ DOMAIN t.loaded \subseteq { s \in Subjects : KindOf[s] = t.kind }
               /\ \A k \in DOMAIN t.fresh :
                    /\ k[1] \in DOMAIN t.loaded \ t.left
                    /\ t.fresh[k].severity \in Severity
                    /\ t.fresh[k].about = t.loaded[k[1]].due
    BY IdleIsNone DEF IInv, Running, AboutExamined, GoodAlerts
  <2> QED  BY <2>1 DEF IInv, Typed, GoodAlerts, SweepsTypeOK
<1> QED  BY <1>1, SweepsKeepGood, PTL

\* What a commit announces: of every row in its last hours or days that the
\* sweep found, its very date, unless the alert of another one was there.
LEMMA CommitAnnounces ==
  ASSUME IInv, NEW x \in Workers, Commit(x), NEW s \in last_calls(sweeping[x]),
         NEW due, due = sweeping[x].loaded[s].due, called(notifications, s) \subseteq { due }
  PROVE  due \in called(notifications', s)
<1>1. PICK t : t = sweeping[x]
  OBVIOUS
<1>2. Running(t) /\ t.left = {} /\ s \in DOMAIN t.loaded
  BY <1>1 DEF Commit, Finished, IInv, last_calls
<1>3. /\ notifications' = PutAll(notifications, t.fresh)
      /\ DOMAIN t.fresh \cap DOMAIN notifications = {}
  BY <1>1 DEF Commit, keys_are_free, EmptyTable
<1>4. PICK m \in final_of(t.kind) :
        dedupe_key(s, m) \in DOMAIN notifications \cup DOMAIN t.fresh
  BY <1>1, <1>2 DEF Running, Told, last_calls
<1>5. PICK k : k = dedupe_key(s, m)
  OBVIOUS
<1>6. k[1] = s /\ k[2] \in final_of(KindOf[s])
  BY <1>1, <1>2, <1>4, <1>5 DEF dedupe_key, Running
<1>7. CASE k \in DOMAIN notifications
  <2>1. notifications[k].severity = "CRITICAL"
    BY <1>6, <1>7 DEF IInv, GoodAlerts
  <2>2. notifications[k].about \in called(notifications, s)
    BY <1>6, <1>7, <2>1 DEF called
  <2>3. notifications[k].about = due
    BY <2>2
  <2>4. k \in DOMAIN notifications' /\ notifications'[k] = notifications[k]
    BY <1>3, <1>7 DEF PutAll
  <2> QED  BY <1>6, <2>1, <2>3, <2>4 DEF called
<1>8. CASE k \in DOMAIN t.fresh
  <2>1. t.fresh[k].severity = "CRITICAL"
    BY <1>2, <1>6, <1>8 DEF Running, GoodAlerts
  <2>2. t.fresh[k].about = due
    BY <1>1, <1>2, <1>6, <1>8 DEF Running, AboutExamined
  <2>3. k \in DOMAIN notifications' /\ notifications'[k] = t.fresh[k]
    BY <1>3, <1>8 DEF PutAll
  <2> QED  BY <1>6, <2>1, <2>2, <2>3 DEF called
<1> QED  BY <1>4, <1>5, <1>7, <1>8

\* A sweep that commits leaves a CRITICAL alert about the very date of every
\* deadline it found within the last two hours and of every roll-off it found
\* within a week, however many sweeps ran, collided, or died before it: all but
\* those of subjects that had one about another date before it committed.
THEOREM TheLastCallIsMade == SweepsSpec => LastCallIsMade
<1> DEFINE A ==
      \A x \in Workers : Commits(x) =>
        \A s \in last_calls(sweeping[x]) :
          LET due == sweeping[x].loaded[s].due IN
          called(notifications, s) \subseteq { due } =>
            due \in called(notifications', s)
<1>1. IInv /\ [SweepsNext]_watching => [A]_watching
  <2> SUFFICES ASSUME IInv, SweepsNext, NEW x \in Workers, Commits(x),
                      NEW s \in last_calls(sweeping[x]),
                      called(notifications, s) \subseteq { sweeping[x].loaded[s].due }
               PROVE  sweeping[x].loaded[s].due \in called(notifications', s)
    OBVIOUS
  <2>1. /\ sweeping[x] # Idle /\ sweeping[x].left = {}
        /\ sweeping'[x] = Idle /\ failures' = failures
        /\ keys_are_free(notifications, EmptyTable, sweeping[x].fresh)
    BY DEF Commits, Finished
  <2>2. ASSUME NEW y \in Workers, NEW kind \in Kinds, StartSweep(y, kind) PROVE FALSE
    BY <2>1, <2>2 DEF StartSweep, IInv, Typed
  <2>3. ASSUME NEW y \in Workers, NEW r \in Subjects, Examine(y, r) PROVE FALSE
    BY <2>1, <2>3 DEF Examine, IInv, Typed
  <2>4. ASSUME NEW y \in Workers, Fail(y) PROVE FALSE
    BY <2>1, <2>4, SweepInputs DEF Fail, IInv, Typed
  <2>5. ASSUME NEW y \in Workers, Commit(y) PROVE y = x
    BY <2>1, <2>5 DEF Commit, IInv, Typed
  <2>6. ASSUME NEW y \in Workers, Collide(y) PROVE FALSE
    BY <2>1, <2>6 DEF Collide, IInv, Typed
  <2>7. ASSUME NEW r \in Subjects, Move(r) PROVE FALSE
    BY <2>1, <2>7 DEF Move
  <2>8. ~ Tick
    BY <2>1 DEF Tick
  <2>9. Commit(x)
    <3>1. PICK y \in Workers : Sweep(y) \/ Fail(y)
      BY <2>7, <2>8 DEF SweepsNext
    <3>2. Commit(y)
      BY <2>2, <2>3, <2>4, <2>6, <3>1 DEF Sweep, GetsOn
    <3> QED  BY <2>5, <3>2
  <2> QED  BY <2>9, CommitAnnounces
<1> QED  BY <1>1, SweepsKeepGood, PTL DEF SweepsSpec, LastCallIsMade
=============================================================================
