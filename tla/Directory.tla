------------------------------ MODULE Directory ------------------------------
(***************************************************************************)
(* Accounts, the routes between them, their contacts and the activity log  *)
(* (app/services/accounts.py).  A route may be the preferred one of its    *)
(* account and a contact the primary one: the request that marks one reads *)
(* which is marked, takes its mark away and commits; others do the same    *)
(* meanwhile.  Every other request decides on the one row it writes.       *)
(***************************************************************************)
EXTENDS FiniteSets, Naturals, Tables

CONSTANTS
  Companies,  \* account ids
  RouteKeys,  \* the routes that may be entered: << from, to, relation_type >>
  People,     \* contact ids
  Notes,      \* activity ids
  Staff,      \* the users who record activities
  Clerks      \* the requests that may be in flight at the same time

ASSUME RoutesLeadElsewhere == \A k \in RouteKeys : k[1] # k[2]

VARIABLES
  companies,  \* table: account id -> account
  routes,     \* table: key -> account relationship
  people,     \* table: contact id -> contact
  notes,      \* table: activity id -> activity
  desk        \* what each request has read and is about to write

directory == << companies, routes, people, notes, desk >>

CompanyRow == [ archived : BOOLEAN ]

RouteRow == [ preferred : BOOLEAN ]

PersonRow == [ account : Companies, primary : BOOLEAN ]

\* due and completed tell whether follow_up_at and completed_at are set.
NoteRow ==
  [ author : Staff, about : SUBSET (Companies \cup People),
    due : BOOLEAN, completed : BOOLEAN ]

Vacant == [ busy |-> FALSE ]

DirectoryInit ==
  /\ companies = EmptyTable /\ routes = EmptyTable
  /\ people = EmptyTable /\ notes = EmptyTable
  /\ desk = [ x \in Clerks |-> Vacant ]

\* Accounts that are archived are not found; contacts and routes are.
open_account(a) == a \in DOMAIN companies /\ ~ companies[a].archived

-----------------------------------------------------------------------------
(* Marks: a request inserts or marks one row and unmarks those it has read. *)

Serves(x, request) ==
  /\ desk[x] = Vacant
  /\ desk' = [ desk EXCEPT ![x] = request ]
  /\ UNCHANGED << companies, routes, people, notes >>

\* Mutant: the one route looked for is the route to be added.
clear_preferred_of_key(k) == { k } \cap DOMAIN routes

\* clear_preferred: the routes from the account that are preferred now.
clear_preferred(k) ==
  { j \in DOMAIN routes : j[1] = k[1] /\ routes[j].preferred }

\* POST /accounts/{id}/routes.
StartAddRoute(x, k, preferred) ==
  /\ open_account(k[1]) /\ open_account(k[2])
  /\ k \notin DOMAIN routes
  /\ Serves(x, [ busy |-> TRUE, what |-> "route", key |-> k, inserts |-> TRUE,
                 row |-> [ preferred |-> preferred ],
                 unmarks |-> IF preferred THEN clear_preferred(k) ELSE {},
                 late |-> FALSE ])

\* clear_primary, of the account of a contact.
clear_primary(a) == { p \in DOMAIN people : people[p].account = a /\ people[p].primary }

\* POST /contacts.
StartAddContact(x, p, a, primary) ==
  /\ open_account(a)
  /\ p \notin DOMAIN people /\ \A y \in Clerks : desk[y].busy => desk[y].key # p
  /\ Serves(x, [ busy |-> TRUE, what |-> "contact", key |-> p, inserts |-> TRUE,
                 row |-> [ account |-> a, primary |-> primary ],
                 unmarks |-> IF primary THEN clear_primary(a) ELSE {},
                 late |-> FALSE ])

\* PATCH /contacts/{id} with is_primary set; the contact itself may be unmarked
\* and is marked again.
StartMarkPrimary(x, p) ==
  /\ p \in DOMAIN people
  /\ Serves(x, [ busy |-> TRUE, what |-> "contact", key |-> p, inserts |-> FALSE,
                 row |-> [ people[p] EXCEPT !.primary = TRUE ],
                 unmarks |-> clear_primary(people[p].account) \ { p },
                 late |-> FALSE ])

finishes(x) ==
  desk' = [ y \in Clerks |->
              IF y # x /\ desk[y].busy THEN [ desk[y] EXCEPT !.late = TRUE ]
              ELSE Vacant ]

\* The pair of accounts and the relation type are unique.
CommitRoute(x) ==
  LET t == desk[x] IN
  /\ t.busy /\ t.what = "route"
  /\ t.key \notin DOMAIN routes
  /\ t.unmarks \subseteq DOMAIN routes
  /\ routes' = Put(PutAll(routes, [ k \in t.unmarks |-> [ preferred |-> FALSE ] ]),
                  t.key, t.row)
  /\ finishes(x)
  /\ UNCHANGED << companies, people, notes >>

\* A row to be updated that was deleted meanwhile ends the request.
CommitContact(x) ==
  LET t == desk[x]
      unmarked == [ p \in t.unmarks |-> [ people[p] EXCEPT !.primary = FALSE ] ]
  IN
  /\ t.busy /\ t.what = "contact"
  /\ t.inserts \/ t.key \in DOMAIN people
  /\ t.unmarks \subseteq DOMAIN people
  /\ people' = Put(PutAll(people, unmarked), t.key, t.row)
  /\ finishes(x)
  /\ UNCHANGED << companies, routes, notes >>

RollbackDesk(x) ==
  /\ desk[x].busy
  /\ desk' = [ desk EXCEPT ![x] = Vacant ]
  /\ UNCHANGED << companies, routes, people, notes >>

-----------------------------------------------------------------------------
(* Requests on one row.  Those in flight read before them.                 *)

others_late ==
  desk' = [ y \in Clerks |->
              IF desk[y].busy THEN [ desk[y] EXCEPT !.late = TRUE ] ELSE Vacant ]

\* POST /accounts, DELETE /accounts/{id}.
CreateCompany(a) ==
  /\ a \notin DOMAIN companies
  /\ companies' = Put(companies, a, [ archived |-> FALSE ])
  /\ others_late /\ UNCHANGED << routes, people, notes >>

ArchiveCompany(a) ==
  /\ open_account(a)
  /\ companies' = [ companies EXCEPT ![a].archived = TRUE ]
  /\ others_late /\ UNCHANGED << routes, people, notes >>

\* DELETE /accounts/{id}/routes/{id}.
RemoveRoute(k) ==
  /\ k \in DOMAIN routes
  /\ routes' = Select(routes, DOMAIN routes \ { k })
  /\ others_late /\ UNCHANGED << companies, people, notes >>

\* PATCH /contacts/{id} with is_primary false.
UnmarkPrimary(p) ==
  /\ p \in DOMAIN people /\ people[p].primary
  /\ people' = [ people EXCEPT ![p].primary = FALSE ]
  /\ others_late /\ UNCHANGED << companies, routes, notes >>

about(p) == { n \in DOMAIN notes : p \in notes[n].about }

\* DELETE /contacts/{id}: a row deleted for good, and with it, ON DELETE CASCADE,
\* every activity that names the contact.
DeleteContact(p) ==
  /\ p \in DOMAIN people
  /\ people' = Select(people, DOMAIN people \ { p })
  /\ notes' = Select(notes, DOMAIN notes \ about(p))
  /\ others_late /\ UNCHANGED << companies, routes >>

\* POST /activities, on an account, a contact or both (projects, which are like
\* accounts here, are left out).
WriteNote(u, n, targets, due) ==
  /\ n \notin DOMAIN notes
  /\ targets # {}
  /\ Cardinality(targets \cap Companies) <= 1 /\ Cardinality(targets \cap People) <= 1
  /\ \A s \in targets : open_account(s) \/ s \in DOMAIN people
  /\ notes' = Put(notes, n, [ author |-> u, about |-> targets, due |-> due,
                              completed |-> FALSE ])
  /\ others_late /\ UNCHANGED << companies, routes, people >>

\* PATCH /activities/{id}, by anybody: the two dates may be set or cleared.
UpdateNote(n, due, completed) ==
  /\ n \in DOMAIN notes
  /\ notes' = [ notes EXCEPT ![n].due = due, ![n].completed = completed ]
  /\ others_late /\ UNCHANGED << companies, routes, people >>

\* POST /activities/{id}/complete.
CompleteFollowUp(n) ==
  /\ n \in DOMAIN notes /\ notes[n].due
  /\ notes' = [ notes EXCEPT ![n].completed = TRUE ]
  /\ others_late /\ UNCHANGED << companies, routes, people >>

\* DELETE /activities/{id}: by its author alone.
DeleteNote(u, n) ==
  /\ n \in DOMAIN notes /\ notes[n].author = u
  /\ notes' = Select(notes, DOMAIN notes \ { n })
  /\ others_late /\ UNCHANGED << companies, routes, people >>

KeepDirectory ==
  \/ \E a \in Companies : CreateCompany(a) \/ ArchiveCompany(a)
  \/ \E k \in RouteKeys : RemoveRoute(k)
  \/ \E p \in People : UnmarkPrimary(p) \/ DeleteContact(p)

KeepLog ==
  \E n \in Notes :
    \/ \E due, completed \in BOOLEAN : UpdateNote(n, due, completed)
    \/ CompleteFollowUp(n)
    \/ \E u \in Staff :
         \/ DeleteNote(u, n)
         \/ \E targets \in SUBSET (Companies \cup People), due \in BOOLEAN :
              WriteNote(u, n, targets, due)

Mark(x) ==
  \/ \E k \in RouteKeys, preferred \in BOOLEAN : StartAddRoute(x, k, preferred)
  \/ \E p \in People :
       \/ StartMarkPrimary(x, p)
       \/ \E a \in Companies, primary \in BOOLEAN : StartAddContact(x, p, a, primary)

DirectoryNext ==
  \/ KeepDirectory \/ KeepLog
  \/ \E x \in Clerks :
       Mark(x) \/ CommitRoute(x) \/ CommitContact(x) \/ RollbackDesk(x)

DirectorySpec == DirectoryInit /\ [][DirectoryNext]_directory

-----------------------------------------------------------------------------
\* Every stored row has its columns' types, and what it refers to exists.
DirectoryTypeOK ==
  /\ IsTable(companies, Companies, CompanyRow)
  /\ IsTable(routes, RouteKeys, RouteRow)
  /\ IsTable(people, People, PersonRow)
  /\ IsTable(notes, Notes, NoteRow)
  /\ \A k \in DOMAIN routes : { k[1], k[2] } \subseteq DOMAIN companies
  /\ \A p \in DOMAIN people : people[p].account \in DOMAIN companies
  /\ \A n \in DOMAIN notes :
       /\ notes[n].about # {}
       /\ notes[n].about \subseteq DOMAIN companies \cup DOMAIN people

\* "Only one route can be the preferred one at a time", and one contact of an
\* account the primary one.
SingleMarks ==
  /\ \A j, k \in DOMAIN routes :
       j[1] = k[1] /\ routes[j].preferred /\ routes[k].preferred => j = k
  /\ \A p, q \in DOMAIN people :
       people[p].account = people[q].account /\ people[p].primary /\ people[q].primary
       => p = q

\* The request that has just ended was overtaken by none.
NoClerkLate == \A x \in Clerks : desk[x].busy /\ ~ desk'[x].busy => ~ desk[x].late

\* Marks stay single, also over contacts that are deleted and marked again,
\* unless two requests overlap.
OnlyOverlapsDoubleMarks ==
  [][ SingleMarks /\ NoClerkLate => SingleMarks' ]_directory
=============================================================================
