---------------------------- MODULE DapperStore ----------------------------
(***************************************************************************)
(* What dapper promises its users: a record that was ingested stays        *)
(* readable, wherever it is kept.  The store is a set of records that      *)
(* only ingestion changes, a whole batch at a time.                        *)
(***************************************************************************)
CONSTANTS
    Batches,        \* what one ingest transaction may store
    EntriesOf       \* the records of each batch, with their values

VARIABLE stored     \* the records a user can read

Init == stored = {}

Ingest(b) == stored' = stored \cup EntriesOf[b]

Next == \E b \in Batches : Ingest(b)

Spec == Init /\ [][Next]_stored
=============================================================================
