------------------------------ MODULE Imports -------------------------------
(***************************************************************************)
(* Workbook import (app/services/importing.py): a file is staged, its rows *)
(* are classified against what is stored at that time, and the batch is    *)
(* committed or discarded by a later request.  What is stored is also made,*)
(* changed and removed by hand.  Names, countries and addresses stand for  *)
(* their lower-case form, which is what the code compares.                 *)
(***************************************************************************)
EXTENDS FiniteSets, Naturals, Sequences, Tables

CONSTANTS
  Names,      \* names of accounts, projects and people; titles
  Marks,      \* countries of accounts, addresses of people
  Blank,      \* an empty cell, or nothing made of a row
  Unreadable, \* a row with a cell that cannot be coerced
  Files,      \* of each entity: the workbooks that are uploaded
  Ids,        \* ids of what is stored
  Batches,    \* import batch ids
  Importers,  \* the requests on batches that may be in flight together
  MaxChanges  \* bound on the changes made by hand

ImportEntity == { "CUSTOMERS", "CONTACTS", "PROJECTS", "REQUIREMENTS", "RESOURCES" }

\* What the code tells rows apart by: name, full name or title, the name of
\* the account, and the country or address.
SheetRow == [ name : Names, account : Names \cup { Blank }, mark : Marks \cup { Blank } ]

ASSUME FilesOfRows ==
  /\ \A e \in ImportEntity : \A f \in Files[e] : f \in Seq(SheetRow \cup { Unreadable })
  /\ Blank \notin Ids /\ MaxChanges \in Nat

VARIABLES
  things,     \* table: id -> account, contact, project, requirement or resource
  batches,    \* table: batch -> import batch with its rows
  importing,  \* what each request has loaded and is about to write
  edits       \* how often something was changed by hand

staging == << things, batches, importing, edits >>

\* gone: soft-deleted.
Thing ==
  [ entity : ImportEntity, name : Names, mark : Marks \cup { Blank }, gone : BOOLEAN ]

\* WARNING is importable as VALID is.
RowState == { "VALID", "INVALID", "DUPLICATE" }

\* created: created_entity_id.
ImportRow ==
  [ sheet : SheetRow \cup { Unreadable }, state : RowState, created : Ids \cup { Blank } ]

ImportStatus == { "STAGED", "COMMITTED", "DISCARDED" }

ImportBatch ==
  [ entity : ImportEntity, status : ImportStatus, committed_rows : Nat,
    rows : Seq(ImportRow) ]

NoImport == [ busy |-> FALSE ]

ImportsInit ==
  /\ things = EmptyTable /\ batches = EmptyTable /\ edits = 0
  /\ importing = [ x \in Importers |-> NoImport ]

-----------------------------------------------------------------------------
(* Staging.                                                                *)

\* _identity_key: the first group of columns that are all filled in.
identity(entity, row) ==
  IF entity \in { "CONTACTS", "RESOURCES" } /\ row.mark # Blank THEN << row.mark >>
  ELSE << row.name, row.account, row.mark >>

same_person(thing, row) ==
  IF row.mark # Blank THEN thing.mark = row.mark ELSE thing.name = row.name

\* The thing is what _find_existing looks for.
is_match(entity, row, thing) ==
  /\ thing.entity = entity
  /\ CASE entity = "CUSTOMERS" ->
            thing.name = row.name /\ row.mark \in { Blank, thing.mark }
       [] entity = "CONTACTS"     -> row.mark # Blank /\ thing.mark = row.mark
       [] entity = "RESOURCES"    -> ~ thing.gone /\ same_person(thing, row)
       [] entity = "PROJECTS"     -> thing.name = row.name
       [] entity = "REQUIREMENTS" -> ~ thing.gone /\ thing.name = row.name

\* Mutant: nothing that was archived is looked at.
existing_live(entity, row) ==
  \E i \in DOMAIN things : ~ things[i].gone /\ is_match(entity, row, things[i])

existing(entity, row) == \E i \in DOMAIN things : is_match(entity, row, things[i])

\* The state of the i-th row: duplicates within the file come first.
validation_state(entity, file, i) ==
  IF file[i] = Unreadable THEN "INVALID"
  ELSE IF \/ \E j \in 1..(i - 1) :
               /\ file[j] # Unreadable
               /\ identity(entity, file[j]) = identity(entity, file[i])
          \/ existing(entity, file[i])
  THEN "DUPLICATE" ELSE "VALID"

\* POST /imports/{entity}/upload: one request, whose rows nobody can load before.
Stage(b, entity, file) ==
  /\ b \notin DOMAIN batches
  /\ batches' = Put(batches, b,
       [ entity |-> entity, status |-> "STAGED", committed_rows |-> 0,
         rows |-> [ i \in DOMAIN file |->
                      [ sheet |-> file[i], created |-> Blank,
                        state |-> validation_state(entity, file, i) ] ] ])
  /\ UNCHANGED << things, importing, edits >>

-----------------------------------------------------------------------------
(* Committing and discarding.                                              *)

\* A request on a batch: the rows it makes something of; late tells that
\* another request on the same batch committed since this one read.
Imports(x, b, status, rows) ==
  /\ importing[x] = NoImport
  /\ importing' = [ importing EXCEPT ![x] =
       [ busy |-> TRUE, b |-> b, status |-> status, rows |-> rows, late |-> FALSE ] ]
  /\ UNCHANGED << things, batches, edits >>

committable_rows(batch) ==
  { i \in DOMAIN batch.rows : batch.rows[i].state = "VALID" }

\* _account_id, which finds archived accounts too.
account_known(name) ==
  \E i \in DOMAIN things : things[i].entity = "CUSTOMERS" /\ things[i].name = name

\* The rows that _create is called for and does not skip.
creatable(batch) ==
  { i \in committable_rows(batch) :
      /\ batch.rows[i].created = Blank
      /\ batch.entity \in { "CONTACTS", "PROJECTS" } =>
           account_known(batch.rows[i].sheet.account) }

\* Mutant: a batch that was committed may be committed once more.
is_open_unless_discarded(batch) == batch.status # "DISCARDED"

is_open(batch) == batch.status = "STAGED"

\* POST /imports/{id}/commit.
StartCommitBatch(x, b) ==
  /\ b \in DOMAIN batches /\ is_open(batches[b])
  /\ committable_rows(batches[b]) # {}
  /\ Imports(x, b, "COMMITTED", creatable(batches[b]))

\* POST /imports/{id}/discard; a batch that was discarded may be again.
StartDiscardBatch(x, b) ==
  /\ b \in DOMAIN batches /\ batches[b].status # "COMMITTED"
  /\ Imports(x, b, "DISCARDED", {})

\* UNIQUE (name, country), archived accounts included; NULL equals nothing.
name_is_used(name, mark) ==
  mark # Blank /\ \E i \in DOMAIN things :
    things[i].entity = "CUSTOMERS" /\ things[i].name = name /\ things[i].mark = mark

\* What ends the request with an error: a name that is used, or any contact at
\* all, for _create_contact gives Contact a job_title, which it does not have.
cannot_create(t) ==
  \E i \in t.rows :
    LET row == batches[t.b].rows[i].sheet IN
    \/ batches[t.b].entity = "CONTACTS"
    \/ batches[t.b].entity = "CUSTOMERS" /\ name_is_used(row.name, row.mark)

\* Every id that a row tells.
told == UNION { { batches[b].rows[i].created : i \in DOMAIN batches[b].rows } :
                b \in DOMAIN batches }

\* Ids are never used again.
unused == Ids \ (DOMAIN things \cup told)

has_mark(entity) == entity \in { "CUSTOMERS", "CONTACTS", "RESOURCES" }

\* What _create makes of a row.
made_of(entity, row) ==
  [ entity |-> entity, name |-> row.name, gone |-> FALSE,
    mark   |-> IF has_mark(entity) THEN row.mark ELSE Blank ]

\* What _create makes of these rows, row i under ids[i].
new_things(batch, rows, ids) ==
  [ id \in { ids[i] : i \in rows } |->
      LET i == CHOOSE i \in rows : ids[i] = id
      IN  made_of(batch.entity, batch.rows[i].sheet) ]

\* The batch after the request, whose new things have these ids: the columns of
\* a committed one are written, the rows it skipped keep theirs.
written(batch, t, ids) ==
  [ batch EXCEPT
      !.status = t.status,
      !.committed_rows = IF t.status = "COMMITTED" THEN Cardinality(t.rows) ELSE @,
      !.rows = [ i \in DOMAIN batch.rows |->
                   IF i \in t.rows THEN [ batch.rows[i] EXCEPT !.created = ids[i] ]
                   ELSE batch.rows[i] ] ]

CommitImport(x) ==
  LET t == importing[x] IN
  /\ t.busy /\ ~ cannot_create(t)
  /\ \E ids \in [ t.rows -> unused ] :
       /\ \A i, j \in t.rows : ids[i] = ids[j] => i = j
       /\ things' = PutAll(things, new_things(batches[t.b], t.rows, ids))
       /\ batches' = [ batches EXCEPT ![t.b] = written(@, t, ids) ]
  /\ importing' = [ y \in Importers |->
       IF y = x THEN NoImport
       ELSE IF importing[y].busy /\ importing[y].b = t.b
       THEN [ importing[y] EXCEPT !.late = TRUE ] ELSE importing[y] ]
  /\ UNCHANGED edits

\* The error takes back all the request did, its flushes included; a process
\* that dies leaves its request as if it never went on.
FailImport(x) ==
  /\ importing[x].busy /\ cannot_create(importing[x])
  /\ importing' = [ importing EXCEPT ![x] = NoImport ]
  /\ UNCHANGED << things, batches, edits >>

-----------------------------------------------------------------------------
(* What is made, changed and removed by hand, each request one step.       *)

\* name_taken, which looks at live accounts and takes two NULLs for equal, and
\* the constraint.
name_refused(entity, name, mark, except) ==
  /\ entity = "CUSTOMERS"
  /\ \E i \in DOMAIN things \ { except } :
       /\ things[i].entity = "CUSTOMERS"
       /\ things[i].name = name /\ things[i].mark = mark
       /\ things[i].gone => mark # Blank

ByHand == edits < MaxChanges /\ edits' = edits + 1 /\ UNCHANGED << batches, importing >>

\* POST; a contact or a project is of an account that is live.
Add(id, entity, name, mark) ==
  /\ id \in unused /\ ByHand
  /\ ~ name_refused(entity, name, mark, Blank)
  /\ mark # Blank => has_mark(entity)
  /\ entity \in { "CONTACTS", "PROJECTS" } =>
       \E i \in DOMAIN things : things[i].entity = "CUSTOMERS" /\ ~ things[i].gone
  /\ things' = Put(things, id,
       [ entity |-> entity, name |-> name, mark |-> mark, gone |-> FALSE ])

\* PATCH of a name, title, country or address.
Alter(id, name, mark) ==
  /\ id \in DOMAIN things /\ ~ things[id].gone /\ ByHand
  /\ ~ name_refused(things[id].entity, name, mark, id)
  /\ mark # Blank => has_mark(things[id].entity)
  /\ things' = [ things EXCEPT ![id].name = name, ![id].mark = mark ]

\* DELETE: contacts are removed, the others archived.
Remove(id) ==
  /\ id \in DOMAIN things /\ ~ things[id].gone /\ ByHand
  /\ things' = IF things[id].entity = "CONTACTS"
               THEN Select(things, DOMAIN things \ { id })
               ELSE [ things EXCEPT ![id].gone = TRUE ]

ImportsNext ==
  \/ \E b \in Batches, entity \in ImportEntity : \E f \in Files[entity] :
       Stage(b, entity, f)
  \/ \E x \in Importers :
       \/ \E b \in Batches : StartCommitBatch(x, b) \/ StartDiscardBatch(x, b)
       \/ CommitImport(x) \/ FailImport(x)
  \/ \E id \in Ids, name \in Names, mark \in Marks \cup { Blank } :
       \/ \E entity \in ImportEntity : Add(id, entity, name, mark)
       \/ Alter(id, name, mark)
  \/ \E id \in Ids : Remove(id)

ImportsSpec == ImportsInit /\ [][ImportsNext]_staging

-----------------------------------------------------------------------------
\* The rows of a batch that something was made of.
made(b) == { i \in DOMAIN batches[b].rows : batches[b].rows[i].created # Blank }

\* Every stored row has its columns' types; what an import row tells it made is
\* there, is of its entity, and was made of a row that was valid.
ImportsTypeOK ==
  /\ IsTable(things, Ids, Thing)
  /\ IsTable(batches, Batches, ImportBatch)
  /\ \A b \in DOMAIN batches : \A i \in made(b) :
       /\ batches[b].rows[i].state = "VALID"
       /\ batches[b].rows[i].created \in DOMAIN things
       /\ things[batches[b].rows[i].created].entity = batches[b].entity
  /\ edits \in 0..MaxChanges

\* A committed batch has made as many things as it says, any other none, and no
\* two rows tell of the same thing.
Accounted ==
  /\ \A b \in DOMAIN batches :
       IF batches[b].status = "COMMITTED"
       THEN Cardinality(made(b)) = batches[b].committed_rows
       ELSE made(b) = {}
  /\ \A b, c \in DOMAIN batches : \A i \in made(b), j \in made(c) :
       batches[b].rows[i].created = batches[c].rows[j].created => b = c /\ i = j

Ends(x) == importing[x].busy /\ ~ importing'[x].busy

NoneOvertaken == \A x \in Importers : Ends(x) => ~ importing[x].late

\* Unless two requests on the same batch overlap, what a batch tells of itself is
\* what it did, and once it is committed or discarded that is the end of it:
\* whatever is imported, edited or removed besides.
ImportsAreAccounted ==
  [][ NoneOvertaken =>
        /\ Accounted => Accounted'
        /\ \A b \in DOMAIN batches :
             batches[b].status # "STAGED" => batches'[b] = batches[b] ]_staging

\* The thing is still what a row of the entity said of it, and there: archived
\* accounts and projects count, requirements and resources that were deleted
\* may be imported anew.
stands(thing, row) ==
  /\ [ thing EXCEPT !.gone = FALSE ] = made_of(thing.entity, row)
  /\ thing.gone => thing.entity \in { "CUSTOMERS", "PROJECTS" }

\* "A re-import of last month's spreadsheet is a common accident": a row that
\* repeats one which an earlier import has made something of is a duplicate as
\* long as that thing stands, whatever was archived and imported meanwhile.
ReimportMakesNothing ==
  [][ \A b \in DOMAIN batches' \ DOMAIN batches, c \in DOMAIN batches :
        batches'[b].entity = batches[c].entity =>
          \A i \in committable_rows(batches'[b]), j \in made(c) :
            LET row == batches[c].rows[j].sheet IN
            stands(things[batches[c].rows[j].created], row) =>
              batches'[b].rows[i].sheet # row ]_staging
=============================================================================
