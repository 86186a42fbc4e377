------------------------------ MODULE MCRecords ------------------------------
(***************************************************************************)
(* The records people keep, for TLC: requirements, rules and scores,       *)
(* accounts of users, imports, consultants and the customer directory.     *)
(* The modules share no state, so a behaviour takes the steps of one,      *)
(* chosen at the start.                                                    *)
(***************************************************************************)
EXTENDS Requirements, Configurations, Access, Imports, Talent, Directory, TLC

CONSTANTS a1, a2, n1, n2, m1

\* One field the parser is sure of; ranges that two edits turn around.
Parsed == { [ rate_min |-> 95 ] }
Ranges == { << 1, 1 >>, << 2, 2 >>, << 2, 1 >> }

\* Two routes from one account to another.
Routes == { << a1, a2, "CUSTOMER_TO_PARTNER" >>, << a1, a2, "PARTNER_TO_PRIME" >> }

cells(name, account, mark) ==
  [ name |-> name, account |-> account, mark |-> mark ]

\* Workbooks repeat one another, in whole or in part, and have rows that cannot
\* be read, and the same name with and without a country or an address.
Workbooks ==
  [ e \in ImportEntity |->
      CASE e = "CUSTOMERS" ->
             { << cells(n1, Blank, m1), Unreadable, cells(n1, Blank, Blank) >> }
        [] e = "CONTACTS" ->
             { << cells(n2, n1, m1), cells(n2, n1, Blank) >> }
        [] e = "PROJECTS" ->
             { << cells(n2, n1, Blank), cells(n2, n2, Blank) >> }
        [] e = "REQUIREMENTS" ->
             { << cells(n1, Blank, Blank), Unreadable >>,
               << cells(n1, n1, Blank) >> }
        [] e = "RESOURCES" ->
             { << cells(n1, Blank, m1), cells(n1, Blank, Blank) >> } ]

\* Requests are interchangeable, and so are the ids of tokens, consultants,
\* contacts and batches; the modules are given the same ones.
Alike == Permutations(Sessions) \cup Permutations(Tokens)

\* Routes and contacts have nothing to do with each other: the directory grows
\* routes, or contacts and, between the requests on contacts, notes.
RoutesOrContacts ==
  \/ /\ routes = EmptyTable /\ notes = EmptyTable
     /\ \A x \in Clerks : desk[x].busy => desk[x].what = "contact"
  \/ /\ people = EmptyTable /\ notes = EmptyTable
     /\ \A x \in Clerks : desk[x].busy => desk[x].what = "route"
  \/ routes = EmptyTable /\ \A x \in Clerks : ~ desk[x].busy

\* One entity is imported, and beside it the accounts it may be of are made by
\* hand; one thing is as good as another, and they are numbered as they come.
OneEntity ==
  /\ \E e \in ImportEntity :
       /\ \A b \in DOMAIN batches : batches[b].entity = e
       /\ \A i \in DOMAIN things :
            \/ things[i].entity = e
            \/ e \in { "CONTACTS", "PROJECTS" } /\ things[i].entity = "CUSTOMERS"
  /\ \A i \in Ids \ unused : i = 1 \/ i - 1 \notin unused
  /\ \A b \in DOMAIN batches : \A i, j \in made(b) :
       i < j => batches[b].rows[i].created < batches[b].rows[j].created

\* Matches and scores have nothing to do with each other, and one score is as
\* good as another: they are numbered as they come.
MatchesOrScores ==
  LET going == { x \in Requests : run[x].busy }
      given == DOMAIN scores \cup UNION { DOMAIN run[x].s_now : x \in going }
      matched == DOMAIN matches \cup UNION { DOMAIN run[x].m_now : x \in going }
  IN  /\ given = {} \/ matched = {}
      /\ \A n \in given : n = 1 \/ n - 1 \in given

VARIABLE topic

records == << demand, rules, access, staging, talent, directory, topic >>

\* The behaviour is about t: nothing else moves.
About(t) ==
  /\ topic = t /\ UNCHANGED topic
  /\ t # "requirements" => UNCHANGED demand
  /\ t # "rules" => UNCHANGED rules
  /\ t # "access" => UNCHANGED access
  /\ t # "imports" => UNCHANGED staging
  /\ t # "talent" => UNCHANGED talent
  /\ t # "directory" => UNCHANGED directory

Init ==
  /\ RequirementsInit /\ ConfigurationsInit /\ AccessInit
  /\ ImportsInit /\ TalentInit /\ DirectoryInit
  /\ topic \in { "requirements", "rules", "access", "imports", "talent", "directory" }

Next ==
  \/ About("requirements") /\ RequirementsNext
  \/ About("rules") /\ ConfigurationsNext
  \/ About("access") /\ AccessNext
  \/ About("imports") /\ ImportsNext
  \/ About("talent") /\ TalentNext
  \/ About("directory") /\ DirectoryNext

\* Every stored row has its columns' types and the rows it refers to.
RecordsTypeOK ==
  /\ RequirementsTypeOK /\ ConfigurationsTypeOK /\ AccessTypeOK
  /\ ImportsTypeOK /\ TalentTypeOK /\ DirectoryTypeOK

Spec == Init /\ [][Next]_records
=============================================================================
