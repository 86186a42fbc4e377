------------------------------- MODULE Talent -------------------------------
(***************************************************************************)
(* The talent cloud (app/services/resources.py): consultants, typed in or  *)
(* made from a CV, and their documents, whose bytes live in an object      *)
(* store that takes no part in the transaction of the request.             *)
(***************************************************************************)
EXTENDS FiniteSets, Integers, Tables

CONSTANTS
  Consultants,  \* resource ids
  Documents,    \* document ids, each standing for its storage key too
  NoDate,       \* an absent date
  Expiries,     \* the expiry dates that documents are given, as day numbers, or NoDate
  VisaInputs,   \* the visa statuses that are typed in
  MaxIds,       \* bound on the consultants and documents there are at a time
  LastDay,      \* bound on the days that pass
  Recruiters    \* the requests that may be in flight at the same time

VisaStatus == { "UNKNOWN", "VALID", "EXPIRED", "REQUIRED" }

ASSUME TalentInputs ==
  /\ NoDate \notin Int /\ Expiries \subseteq Int \cup { NoDate }
  /\ VisaInputs \subseteq VisaStatus
  /\ LastDay \in Nat /\ MaxIds \in Nat
  /\ IsFiniteSet(Consultants)

VARIABLES
  day,         \* today
  resources,   \* table: resource id -> resource
  documents,   \* table: document id -> typed document with its file record
  objects,     \* the storage keys under which there are bytes
  request      \* what each request has read and is about to write

talent == << day, resources, documents, objects, request >>

\* code counts from one; a resource that was imported has none.  The review of a
\* CV is in module PipelineData.
ResourceRow ==
  [ code : 0..Cardinality(Consultants), archived : BOOLEAN, visa : VisaStatus ]

\* authorises tells a VISA, WORK_PERMIT or QID from the other types.
DocumentRow ==
  [ resource : Consultants, authorises : BOOLEAN, expiry : Expiries \cup { NoDate } ]

Unasked == [ pc |-> "idle" ]

TalentInit ==
  /\ day = 0 /\ resources = EmptyTable /\ documents = EmptyTable /\ objects = {}
  /\ request = [ x \in Recruiters |-> Unasked ]

-----------------------------------------------------------------------------
(* Helpers of the service.                                                 *)

\* get_resource leaves archived rows out.
found(r) == r \in DOMAIN resources /\ ~ resources[r].archived

\* The ids that rows, stored objects or requests under way have.
taken ==
  UNION ({ DOMAIN resources, DOMAIN documents, objects }
           \cup { UNION { DOMAIN request[x].inserts, DOMAIN request[x].stores,
                         request[x].removes } :
                 x \in { y \in Recruiters : request[y] # Unasked } })

is_new(id) == id \notin taken /\ Cardinality(taken) < MaxIds

new_resource(code) == [ code |-> code, archived |-> FALSE, visa |-> "UNKNOWN" ]

\* Mutant: archived consultants are not counted.
next_code_of_live == Cardinality({ r \in DOMAIN resources : ~ resources[r].archived }) + 1

\* next_code: one more than there are rows, of whatever kind.
next_code == Cardinality(DOMAIN resources) + 1

\* derive_visa_status of the documents of r, by work_authorisation_state: the
\* worst document decides.
derive_visa_status(docs, r) ==
  LET relevant == { d \in DOMAIN docs :
                      docs[d].resource = r /\ docs[d].authorises
                        /\ docs[d].expiry # NoDate }
  IN CASE relevant = {} -> "UNKNOWN"
       [] \E d \in relevant : docs[d].expiry < day -> "EXPIRED"
       [] OTHER -> "VALID"

\* Mutant: the documents are those that were there before the request.
refreshed_too_early(docs, r) ==
  LET visa == derive_visa_status(documents, r) IN
  Row(r, IF resources[r].visa = visa THEN EmptyTable ELSE [ visa |-> visa ])

\* _refresh_visa_status, of documents as the request has changed them.
refreshed(docs, r) ==
  LET visa == derive_visa_status(docs, r) IN
  Row(r, IF resources[r].visa = visa THEN EmptyTable ELSE [ visa |-> visa ])

\* The columns of a row that a request changes.
altered(was, now) ==
  [ c \in { column \in DOMAIN was : was[column] # now[column] } |-> now[c] ]

\* A request: the resources it inserts, the documents it stores, the columns it
\* altered in resources and in documents, the documents it deletes; late tells
\* that another one has committed, or that a day has passed, since it read.
Begins(x, pc, inserts, stores, r_set, d_set, removes) ==
  /\ request[x] = Unasked
  /\ request' = [ request EXCEPT ![x] =
       [ pc |-> pc, inserts |-> inserts, stores |-> stores, r_set |-> r_set,
         d_set |-> d_set, removes |-> removes, late |-> FALSE ] ]

\* The table after an UPDATE of the columns that were changed.
updated(table, sets) ==
  [ k \in DOMAIN table |->
      IF k \notin DOMAIN sets THEN table[k]
      ELSE [ c \in DOMAIN table[k] |->
               IF c \in DOMAIN sets[k] THEN sets[k][c] ELSE table[k][c] ] ]

-----------------------------------------------------------------------------
(* Consultants.                                                            *)

\* POST /resources and POST /resources/parse-cv read the number of rows; the
\* draft made from a CV has a document.
StartCreateResource(x, r) ==
  /\ is_new(r)
  /\ Begins(x, "inserting", Row(r, new_resource(next_code)),
            EmptyTable, EmptyTable, EmptyTable, {})
  /\ UNCHANGED << day, resources, documents, objects >>

StartParseCV(x, r, d) ==
  /\ is_new(r) /\ is_new(d)
  /\ Begins(x, "inserting", Row(r, new_resource(next_code)),
            Row(d, [ resource |-> r, authorises |-> FALSE, expiry |-> NoDate ]),
            EmptyTable, EmptyTable, {})
  /\ UNCHANGED << day, resources, documents, objects >>

codes(rows) == { rows[r].code : r \in DOMAIN rows } \ { 0 }

\* The INSERT of the new resource, which waits for those of the same code that
\* are under way; after it the CV is stored.
Insert(x) ==
  /\ request[x].pc = "inserting"
  /\ codes(request[x].inserts) \cap codes(resources) = {}
  /\ \A y \in Recruiters : request[y].pc = "ready" =>
       codes(request[x].inserts) \cap codes(request[y].inserts) = {}
  /\ request' = [ request EXCEPT ![x].pc = "ready" ]
  /\ objects' = objects \cup DOMAIN request[x].stores
  /\ UNCHANGED << day, resources, documents >>

\* A workbook import adds a resource without a code (module Imports).
ImportResource(r) ==
  /\ is_new(r)
  /\ resources' = Put(resources, r, new_resource(0))
  /\ UNCHANGED << day, documents, objects, request >>

Rewrites(x, r, row) ==
  /\ found(r)
  /\ Begins(x, "ready", EmptyTable, EmptyTable,
            Row(r, altered(resources[r], row)), EmptyTable, {})
  /\ UNCHANGED << day, resources, documents, objects >>

\* PATCH /resources/{id}, which may type a visa status.
StartUpdateResource(x, r, visa) == Rewrites(x, r, [ resources[r] EXCEPT !.visa = visa ])

\* DELETE /resources/{id}.
StartArchiveResource(x, r) == Rewrites(x, r, [ resources[r] EXCEPT !.archived = TRUE ])

-----------------------------------------------------------------------------
(* Documents.                                                              *)

\* POST /resources/{id}/documents: the bytes are stored, then the rows written.
StartAddDocument(x, r, d, authorises, expiry) ==
  LET row == [ resource |-> r, authorises |-> authorises, expiry |-> expiry ] IN
  /\ found(r) /\ is_new(d)
  /\ authorises => expiry # NoDate
  /\ objects' = objects \cup { d }
  /\ Begins(x, "ready", EmptyTable, Row(d, row),
            refreshed(Put(documents, d, row), r), EmptyTable, {})
  /\ UNCHANGED << day, resources, documents >>

\* PATCH /documents/{id}; here the date may be taken away.
StartUpdateDocument(x, d, expiry) ==
  LET row == [ documents[d] EXCEPT !.expiry = expiry ]
      r   == documents[d].resource
  IN
  /\ d \in DOMAIN documents /\ found(r)
  /\ Begins(x, "ready", EmptyTable, EmptyTable,
            refreshed(Put(documents, d, row), r),
            Row(d, altered(documents[d], row)), {})
  /\ UNCHANGED << day, resources, documents, objects >>

\* Mutant: the bytes stay when the row goes.
StartDeleteDocument_keeping(x, d) ==
  LET r == documents[d].resource IN
  /\ d \in DOMAIN documents /\ found(r)
  /\ Begins(x, "ready", EmptyTable, EmptyTable,
            refreshed(Select(documents, DOMAIN documents \ { d }), r),
            EmptyTable, { d })
  /\ UNCHANGED << day, resources, documents, objects >>

\* DELETE /documents/{id}: the bytes go first; then the consultant is looked up,
\* and of one that is archived the request fails.
StartDeleteDocument(x, d) ==
  LET r == documents[d].resource IN
  /\ d \in DOMAIN documents
  /\ objects' = objects \ { d }
  /\ IF found(r)
     THEN Begins(x, "ready", EmptyTable, EmptyTable,
                 refreshed(Select(documents, DOMAIN documents \ { d }), r),
                 EmptyTable, { d })
     ELSE Begins(x, "failing", EmptyTable, EmptyTable, EmptyTable, EmptyTable, { d })
  /\ UNCHANGED << day, resources, documents >>

-----------------------------------------------------------------------------
(* Ends of a request, and the calendar.                                    *)

\* The others that are under way, made late.
outrun(x) ==
  [ y \in Recruiters |->
      IF y # x /\ request[y] # Unasked THEN [ request[y] EXCEPT !.late = TRUE ]
      ELSE IF y = x THEN Unasked ELSE request[y] ]

\* A row that another request deleted cannot be updated.
CommitTalent(x) ==
  LET t == request[x] IN
  /\ t.pc = "ready"
  /\ \A d \in DOMAIN t.d_set : DOMAIN t.d_set[d] # {} => d \in DOMAIN documents
  /\ resources' = PutAll(updated(resources, t.r_set), t.inserts)
  /\ documents' = Select(PutAll(updated(documents, t.d_set), t.stores),
                         (DOMAIN documents \cup DOMAIN t.stores) \ t.removes)
  /\ request' = outrun(x)
  /\ UNCHANGED << day, objects >>

\* The request fails, or its worker dies; the store knows nothing of it.
RollbackTalent(x) ==
  /\ request[x] # Unasked
  /\ request' = [ request EXCEPT ![x] = Unasked ]
  /\ UNCHANGED << day, resources, documents, objects >>

NextDay ==
  /\ day < LastDay /\ day' = day + 1
  /\ request' = [ x \in Recruiters |->
                    IF request[x] = Unasked THEN Unasked
                    ELSE [ request[x] EXCEPT !.late = TRUE ] ]
  /\ UNCHANGED << resources, documents, objects >>

StartTalent(x) ==
  \/ \E r \in Consultants :
       \/ StartCreateResource(x, r) \/ StartArchiveResource(x, r)
       \/ \E visa \in VisaInputs : StartUpdateResource(x, r, visa)
       \/ \E d \in Documents :
            \/ StartParseCV(x, r, d)
            \/ \E a \in BOOLEAN, e \in Expiries :
                 StartAddDocument(x, r, d, a, e)
  \/ \E d \in Documents :
       \/ StartDeleteDocument(x, d)
       \/ \E e \in Expiries : StartUpdateDocument(x, d, e)

TalentNext ==
  \/ \E x \in Recruiters :
       StartTalent(x) \/ Insert(x) \/ CommitTalent(x) \/ RollbackTalent(x)
  \/ \E r \in Consultants : ImportResource(r)
  \/ NextDay

TalentSpec == TalentInit /\ [][TalentNext]_talent

-----------------------------------------------------------------------------
\* Every stored row has its columns' types, and a document its consultant.
TalentTypeOK ==
  /\ day \in 0..LastDay
  /\ IsTable(resources, Consultants, ResourceRow)
  /\ IsTable(documents, Documents, DocumentRow)
  /\ \A d \in DOMAIN documents : documents[d].resource \in DOMAIN resources
  /\ objects \subseteq Documents

\* The number a new consultant is given is taken by none, also when imported
\* ones without a number are counted and whatever requests overlapped: nobody
\* is kept from being added for good.
NextCodeIsFree == next_code \notin codes(resources)

in_flight(pc) == { x \in Recruiters : request[x].pc = pc }

adding == UNION { DOMAIN request[x].stores : x \in in_flight("ready") }

removing == UNION { request[x].removes : x \in in_flight("ready") \cup in_flight("failing") }

\* There are bytes under the key of each file record, and no others.
FilesMatch == objects = (DOMAIN documents \cup adding) \ removing

\* The requests that end with this step.
ended == { x \in Recruiters : request[x] # Unasked /\ request'[x] = Unasked }

\* No request that ends was undone after it touched the store.
CleanEnds ==
  \A x \in ended :
    \/ request[x].pc = "inserting"
    \/ /\ request[x].pc = "ready"
       /\ << resources, documents >>' # << resources, documents >>

\* Nothing else leaves a file without bytes or bytes without a file, no request
\* that another one overtook either.
OnlyUndoneRequestsLoseFiles ==
  [][ FilesMatch /\ CleanEnds => FilesMatch' ]_talent

documents_of(docs, r) == Select(docs, { d \in DOMAIN docs : docs[d].resource = r })

\* Whoever commits a change of a document leaves the visa status of its
\* consultant as the documents have it, unless it was outrun by another or
\* midnight; a CV that comes with a new consultant is none of those documents.
VisaFollowsDocuments ==
  [][ \A r \in DOMAIN resources :
        /\ documents_of(documents, r) # documents_of(documents', r)
        /\ \A x \in ended : ~ request[x].late
        => resources'[r].visa = derive_visa_status(documents', r) ]_talent
=============================================================================
