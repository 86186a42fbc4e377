------------------------------- MODULE Tables -------------------------------
(***************************************************************************)
(* Database tables as partial functions from the keys in use to rows.      *)
(***************************************************************************)

\* t is a table whose keys are drawn from Keys and whose rows from Rows.
IsTable(t, Keys, Rows) ==
  /\ t = [ k \in DOMAIN t |-> t[k] ]
  /\ DOMAIN t \subseteq Keys
  /\ \A k \in DOMAIN t : t[k] \in Rows

\* The table after an INSERT of a new key or an UPDATE of an existing one.
Put(table, key, row) ==
  [ k \in DOMAIN table \cup { key } |-> IF k = key THEN row ELSE table[k] ]

EmptyTable == [ k \in {} |-> k ]

\* The table after its rows and new ones are written from another table.
PutAll(table, rows) ==
  [ k \in DOMAIN table \cup DOMAIN rows |->
      IF k \in DOMAIN rows THEN rows[k] ELSE table[k] ]

\* A table of one row.
Row(key, row) == [ k \in { key } |-> row ]

\* The rows of the table with these keys.
Select(table, keys) == [ k \in DOMAIN table \cap keys |-> table[k] ]

\* The row after an UPDATE by a session that loaded it as loaded and made it
\* new: only the columns it changed are written.
merge(row, loaded, new) ==
  [ c \in DOMAIN row |-> IF new[c] = loaded[c] THEN row[c] ELSE new[c] ]

\* A session flushes: it loaded the rows of was and holds the rows of now.  The
\* rows it loaded are updated, the others inserted.
flush(table, was, now) ==
  PutAll(table, [ k \in DOMAIN now |->
                    IF k \in DOMAIN was
                    THEN merge(table[k], was[k], now[k]) ELSE now[k] ])

\* No row the session inserts has a key that another one inserted first.
keys_are_free(table, was, now) ==
  (DOMAIN now \ DOMAIN was) \cap DOMAIN table = {}
=============================================================================
