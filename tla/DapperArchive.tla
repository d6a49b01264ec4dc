--------------------------- MODULE DapperArchive ---------------------------
(***************************************************************************)
(* dapper-db-archive: a process, started now and then for one domain, that *)
(* copies the unarchived rows of dapper.records to one CSV file in S3 per  *)
(* key and month, marks them archived and deletes archived rows older than *)
(* 14 days.  Ingest transactions begin and commit while it runs.           *)
(*                                                                         *)
(* Abstracted: the value of a row is the ingest batch it came with.  Times *)
(* are whole seconds, numbered.  The database clock and the archiver's     *)
(* clock are one logical clock that every BEGIN and every start advances.  *)
(* Keys differ in more than case: getFileName lower-cases the name.        *)
(***************************************************************************)
EXTENDS Integers, FiniteSets

CONSTANTS
    Keys,           \* record keys: numbers in their ORDER BY order
    Fields,         \* field names
    Times,          \* timestamps of records
    MonthOf,        \* the month of each timestamp
    Batches,        \* ingest transactions
    BatchRows,      \* the rows each of them inserts
    NoBatch,        \* the value of a row that is absent
    Blank,          \* an empty CSV cell
    NoCell,         \* a cell of a missing row or column
    BatchSize,      \* records after which the archiver writes a batch
    Sem,            \* tables archived at the same time
    Straddle,       \* may an ingest begun before a run commit after its SELECT?
    Skew,           \* by how much the archiver's clock may be ahead
    Faults,         \* the kinds of faults that may happen
    MaxFaults,      \* bound on the faults in a behaviour
    MaxClock        \* bound on the clock

Row == [key : Keys, field : Fields, time : Times]
Months == {MonthOf[t] : t \in Times}
Values == Batches \cup {NoBatch}
FaultKinds == {"stream", "s3", "db", "crash"}

ASSUME DataAssumption ==
    /\ Keys \subseteq Nat /\ 0 \notin Keys
    /\ Times \subseteq Nat
    /\ MonthOf \in [Times -> Nat]
    /\ BatchRows \in [Batches -> SUBSET Row]
    /\ NoBatch \notin Batches /\ Blank \notin Batches /\ NoCell \notin Batches
    /\ Blank # NoCell

ASSUME ParameterAssumption ==
    /\ BatchSize \in Nat \ {0} /\ Sem \in Nat \ {0}
    /\ Straddle \in BOOLEAN /\ Skew \in Nat
    /\ Faults \subseteq FaultKinds /\ MaxFaults \in Nat /\ MaxClock \in Nat

VARIABLES
    by,             \* dapper.records: the value of each row, or NoBatch
    modtime,        \* its column modtime
    archived,       \* its column archived
    began,          \* open ingest transactions: when they began, else 0
    clock,          \* the time
    horizon,        \* now - 14 days, in record time
    s3,             \* the CSV files in S3
    pc,             \* what the archiver is doing
    startTime,      \* when its run began
    oldestmod,      \* the oldest modtime of the batch
    remaining,      \* selected records it has not read yet
    batch,          \* records read since the last batch
    prevKey,        \* key of the record read last, 0 at first
    last,           \* the batch being archived is the run's last one
    job,            \* progress of each table of the batch
    mem,            \* its table in memory
    goErr,          \* some table of the batch failed
    faults          \* faults so far

table == <<by, modtime, archived>>
run == <<startTime, oldestmod, remaining, batch, prevKey, last, job, mem, goErr>>
vars == <<by, modtime, archived, began, clock, horizon, s3, pc, startTime,
          oldestmod, remaining, batch, prevKey, last, job, mem, goErr, faults>>

-----------------------------------------------------------------------------
(* Tables of a key and month, as the CSV file and in memory.               *)

FileNames == Keys \X Months
Cells == Times \X Fields
CellValues == Batches \cup {Blank, NoCell}

FileOf(r) == <<r.key, MonthOf[r.time]>>
CellOf(r) == <<r.time, r.field>>

EmptyTable == [x \in Cells |-> NoCell]

HasRow(t, time) == \E f \in Fields : t[<<time, f>>] # NoCell
HasColumn(t, field) == \E m \in Times : t[<<m, field>>] # NoCell

\* Existing cells go over those of the table, empty ones too.
AddCSV(t, csv) == [x \in Cells |-> IF csv[x] # NoCell THEN csv[x] ELSE t[x]]

\* All rows get all columns.
ToCSV(t) ==
    [x \in Cells |-> IF t[x] = NoCell /\ HasRow(t, x[1]) /\ HasColumn(t, x[2])
                     THEN Blank ELSE t[x]]

\* A selected record: the row, its value and its modtime at the SELECT.
Selected == [row : Row, value : Batches, modtime : Nat]

\* The records of a batch, as a table for each file.
ParseRecords(recs) ==
    [f \in FileNames |->
        [x \in Cells |->
            IF \E s \in recs : FileOf(s.row) = f /\ CellOf(s.row) = x
            THEN (CHOOSE s \in recs : FileOf(s.row) = f /\ CellOf(s.row) = x).value
            ELSE NoCell]]

-----------------------------------------------------------------------------
Forever == -1       \* the initial oldestmod, later than every time

Init ==
    /\ by = [r \in Row |-> NoBatch]
    /\ modtime = [r \in Row |-> 0]
    /\ archived = [r \in Row |-> FALSE]
    /\ began = [b \in Batches |-> 0]
    /\ clock = 0
    /\ horizon = 0
    /\ s3 = [f \in FileNames |-> EmptyTable]
    /\ pc = "idle"
    /\ startTime = 0
    /\ oldestmod = Forever
    /\ remaining = {}
    /\ batch = {}
    /\ prevKey = 0
    /\ last = FALSE
    /\ job = [f \in FileNames |-> "none"]
    /\ mem = [f \in FileNames |-> EmptyTable]
    /\ goErr = FALSE
    /\ faults = 0

Fault(kind) == kind \in Faults /\ faults < MaxFaults /\ faults' = faults + 1

Tick == clock < MaxClock /\ clock' = clock + 1

-----------------------------------------------------------------------------
(* dapper-db-ingest, in short: NOW() is the time its transaction began.    *)

BeginIngest(b) ==
    /\ began[b] = 0
    /\ Tick
    /\ began' = [began EXCEPT ![b] = clock + 1]
    /\ UNCHANGED <<table, horizon, s3, pc, run, faults>>

CommitIngest(b) ==
    /\ began[b] # 0
    /\ \A r \in BatchRows[b] : by[r] = NoBatch
    /\ by' = [r \in Row |-> IF r \in BatchRows[b] THEN b ELSE by[r]]
    /\ modtime' = [r \in Row |-> IF r \in BatchRows[b] THEN began[b] ELSE modtime[r]]
    /\ archived' = [r \in Row |-> IF r \in BatchRows[b] THEN FALSE ELSE archived[r]]
    /\ began' = [began EXCEPT ![b] = 0]
    /\ UNCHANGED <<clock, horizon, s3, pc, run, faults>>

\* A primary key is taken, or anything else fails: rolled back.
AbortIngest(b) ==
    /\ began[b] # 0
    /\ began' = [began EXCEPT ![b] = 0]
    /\ UNCHANGED <<table, clock, horizon, s3, pc, run, faults>>

\* Days pass: another record time is more than 14 days ago.
Age ==
    /\ \E t \in Times : t >= horizon
    /\ horizon' = horizon + 1
    /\ UNCHANGED <<table, began, clock, s3, pc, run, faults>>

-----------------------------------------------------------------------------
(* A run of the archiver.                                                  *)

\* The process ends, whatever its goroutines were about to do.
Exit ==
    /\ pc' = "idle"
    /\ startTime' = 0
    /\ oldestmod' = Forever
    /\ remaining' = {}
    /\ batch' = {}
    /\ prevKey' = 0
    /\ last' = FALSE
    /\ job' = [f \in FileNames |-> "none"]
    /\ mem' = [f \in FileNames |-> EmptyTable]
    /\ goErr' = FALSE

Start ==
    /\ pc = "idle"
    /\ Tick
    /\ \E ahead \in 0..Skew : startTime' = clock + 1 + ahead
    /\ pc' = "select"
    /\ UNCHANGED <<table, began, horizon, s3, oldestmod, remaining, batch,
                   prevKey, last, job, mem, goErr, faults>>

\* Unless Straddle, the ingests begun before the run are over by now.
Select ==
    /\ pc = "select"
    /\ Straddle \/ \A b \in Batches : began[b] = 0 \/ began[b] > startTime
    /\ remaining' = {[row |-> r, value |-> by[r], modtime |-> modtime[r]] :
                        r \in {q \in Row : by[q] # NoBatch /\ ~archived[q]}}
    /\ pc' = "scan"
    /\ UNCHANGED <<table, began, clock, horizon, s3, startTime, oldestmod, batch,
                   prevKey, last, job, mem, goErr, faults>>

\* The batch is full when a record of another key has been added to it.
BatchFull(recs, key) == Cardinality(recs) >= BatchSize /\ prevKey # key

Scan(s) ==
    /\ pc = "scan"
    /\ s \in remaining
    /\ \A o \in remaining : s.row.key <= o.row.key
    /\ remaining' = remaining \ {s}
    /\ batch' = batch \cup {s}
    /\ oldestmod' = IF oldestmod = Forever \/ s.modtime < oldestmod
                    THEN s.modtime ELSE oldestmod
    /\ prevKey' = s.row.key
    /\ pc' = IF BatchFull(batch', s.row.key) THEN "prepare" ELSE "scan"
    /\ UNCHANGED <<table, began, clock, horizon, s3, startTime, last, job, mem,
                   goErr, faults>>

\* Mutant: what is left after the last full batch is not archived.
EndOfRowsForgotten ==
    /\ pc = "scan" /\ remaining = {}
    /\ batch' = {}
    /\ oldestmod' = Forever
    /\ last' = TRUE
    /\ pc' = "delete"
    /\ UNCHANGED <<table, began, clock, horizon, s3, startTime, remaining,
                   prevKey, job, mem, goErr, faults>>

\* rows.Next() returns false: all records read, or the connection broke (what
\* rows.Err() would tell is never asked).
EndOfRows ==
    /\ pc = "scan"
    /\ \/ remaining = {} /\ UNCHANGED faults
       \/ remaining # {} /\ Fault("stream")
    /\ remaining' = {}
    /\ last' = TRUE
    /\ pc' = "prepare"
    /\ UNCHANGED <<table, began, clock, horizon, s3, startTime, oldestmod, batch,
                   prevKey, job, mem, goErr>>

ArchiveRecords ==
    /\ pc = "prepare"
    /\ mem' = ParseRecords(batch)
    /\ job' = [f \in FileNames |->
                IF \E s \in batch : FileOf(s.row) = f THEN "todo" ELSE "none"]
    /\ goErr' = FALSE
    /\ pc' = "tables"
    /\ UNCHANGED <<table, began, clock, horizon, s3, startTime, oldestmod,
                   remaining, batch, prevKey, last, faults>>

Running == {f \in FileNames : job[f] \in {"load", "put", "update"}}

\* The loop over the tables waits for a free place in the semaphore.
Spawn(f) ==
    /\ pc = "tables" /\ job[f] = "todo"
    /\ Cardinality(Running) < Sem
    /\ job' = [job EXCEPT ![f] = "load"]
    /\ UNCHANGED <<table, began, clock, horizon, s3, pc, startTime, oldestmod,
                   remaining, batch, prevKey, last, mem, goErr, faults>>

\* Mutant: an existing file is not read.
LoadNothing(f) ==
    /\ pc = "tables" /\ job[f] = "load"
    /\ job' = [job EXCEPT ![f] = "put"]
    /\ UNCHANGED <<table, began, clock, horizon, s3, pc, startTime, oldestmod,
                   remaining, batch, prevKey, last, mem, goErr, faults>>

\* Exists, Get and AddCSV; only this goroutine touches the file.
Load(f) ==
    /\ pc = "tables" /\ job[f] = "load"
    /\ mem' = [mem EXCEPT ![f] = AddCSV(@, s3[f])]
    /\ job' = [job EXCEPT ![f] = "put"]
    /\ UNCHANGED <<table, began, clock, horizon, s3, pc, startTime, oldestmod,
                   remaining, batch, prevKey, last, goErr, faults>>

Put(f) ==
    /\ pc = "tables" /\ job[f] = "put"
    /\ s3' = [s3 EXCEPT ![f] = ToCSV(mem[f])]
    /\ job' = [job EXCEPT ![f] = "update"]
    /\ UNCHANGED <<table, began, clock, horizon, pc, startTime, oldestmod,
                   remaining, batch, prevKey, last, mem, goErr, faults>>

\* Mutant: rows are marked whatever came in after the run began.
ToMarkAnyAge(f) == {r \in Row : /\ by[r] # NoBatch
                                /\ r.key = f[1]
                                /\ oldestmod <= modtime[r]}

\* The rows sqlUpdateArchive marks: by key and modtime, not by file.
ToMark(f) == {r \in Row : /\ by[r] # NoBatch
                          /\ r.key = f[1]
                          /\ oldestmod <= modtime[r] /\ modtime[r] <= startTime}

Mark(f) == archived' = [r \in Row |-> archived[r] \/ r \in ToMark(f)]

Update(f) ==
    /\ pc = "tables" /\ job[f] = "update"
    /\ Mark(f)
    /\ job' = [job EXCEPT ![f] = "done"]
    /\ UNCHANGED <<by, modtime, began, clock, horizon, s3, pc, startTime,
                   oldestmod, remaining, batch, prevKey, last, mem, goErr, faults>>

\* A goroutine gives up on its table; the others go on.
TableFails(f) ==
    /\ job' = [job EXCEPT ![f] = "done"]
    /\ goErr' = TRUE
    /\ UNCHANGED <<began, clock, horizon, pc, startTime, oldestmod, remaining,
                   batch, prevKey, last, mem>>

LoadFails(f) ==
    /\ pc = "tables" /\ job[f] = "load"
    /\ Fault("s3")
    /\ TableFails(f)
    /\ UNCHANGED <<table, s3>>

\* S3 reports an error and has, or has not, the new file.
PutFails(f) ==
    /\ pc = "tables" /\ job[f] = "put"
    /\ Fault("s3")
    /\ s3' \in {s3, [s3 EXCEPT ![f] = ToCSV(mem[f])]}
    /\ TableFails(f)
    /\ UNCHANGED table

\* The UPDATE is undone, or only its answer is lost.
UpdateFails(f) ==
    /\ pc = "tables" /\ job[f] = "update"
    /\ Fault("db")
    /\ UNCHANGED archived \/ Mark(f)
    /\ TableFails(f)
    /\ UNCHANGED <<by, modtime, s3>>

\* Mutant: oldestmod is not reset for the next batch.
ReturnKeepsOldest(err) ==
    IF last /\ err THEN Exit
    ELSE /\ pc' = IF last THEN "delete" ELSE "scan"
         /\ batch' = {}
         /\ job' = [f \in FileNames |-> "none"]
         /\ mem' = [f \in FileNames |-> EmptyTable]
         /\ goErr' = FALSE
         /\ UNCHANGED <<oldestmod, startTime, remaining, prevKey, last>>

\* archiveRecords returns.  An error in the last batch ends the program; an
\* error in an earlier one is logged and the next batch is begun.
Return(err) ==
    IF last /\ err THEN Exit
    ELSE /\ pc' = IF last THEN "delete" ELSE "scan"
         /\ batch' = {}
         /\ oldestmod' = Forever
         /\ job' = [f \in FileNames |-> "none"]
         /\ mem' = [f \in FileNames |-> EmptyTable]
         /\ goErr' = FALSE
         /\ UNCHANGED <<startTime, remaining, prevKey, last>>

PrepareFails ==
    /\ pc = "prepare"
    /\ Fault("db")
    /\ Return(TRUE)
    /\ UNCHANGED <<table, began, clock, horizon, s3>>

\* Mutant: the error of a table is not reported.
BatchDoneNoError ==
    /\ pc = "tables"
    /\ \A f \in FileNames : job[f] \in {"none", "done"}
    /\ Return(FALSE)
    /\ UNCHANGED <<table, began, clock, horizon, s3, faults>>

\* Mutant: a table that fails does not count down the wait group.
BatchDoneWaitsForEver ==
    /\ pc = "tables" /\ ~goErr
    /\ \A f \in FileNames : job[f] \in {"none", "done"}
    /\ Return(goErr)
    /\ UNCHANGED <<table, began, clock, horizon, s3, faults>>

\* Mutant: nobody waits for the goroutines.
BatchDoneEarly ==
    /\ pc = "tables"
    /\ Return(goErr)
    /\ UNCHANGED <<table, began, clock, horizon, s3, faults>>

BatchDone ==
    /\ pc = "tables"
    /\ \A f \in FileNames : job[f] \in {"none", "done"}
    /\ Return(goErr)
    /\ UNCHANGED <<table, began, clock, horizon, s3, faults>>

\* Mutant: old rows are deleted whether archived or not.
ExpiredByAge(r) == by[r] # NoBatch /\ r.time < horizon

\* The rows sqlDeleteArchive removes.
Expired(r) == archived[r] /\ r.time < horizon

DeleteRows ==
    /\ by' = [r \in Row |-> IF Expired(r) THEN NoBatch ELSE by[r]]
    /\ archived' = [r \in Row |-> archived[r] /\ ~Expired(r)]
    /\ modtime' = [r \in Row |-> IF Expired(r) THEN 0 ELSE modtime[r]]

Delete ==
    /\ pc = "delete"
    /\ DeleteRows
    /\ Exit
    /\ UNCHANGED <<began, clock, horizon, s3, faults>>

DeleteFails ==
    /\ pc = "delete"
    /\ Fault("db")
    /\ UNCHANGED table \/ DeleteRows
    /\ Exit
    /\ UNCHANGED <<began, clock, horizon, s3>>

\* A query fails and log.Fatal ends the program.
QueryFails ==
    /\ pc \in {"select", "scan"}
    /\ Fault("db")
    /\ Exit
    /\ UNCHANGED <<table, began, clock, horizon, s3>>

Crash ==
    /\ pc # "idle"
    /\ Fault("crash")
    /\ Exit
    /\ UNCHANGED <<table, began, clock, horizon, s3>>

-----------------------------------------------------------------------------
Ingest == \E b \in Batches : BeginIngest(b) \/ CommitIngest(b) \/ AbortIngest(b)

Table(f) == \/ Spawn(f)
            \/ Load(f) \/ LoadFails(f)
            \/ Put(f) \/ PutFails(f)
            \/ Update(f) \/ UpdateFails(f)

\* The archiver's own steps, once a run has started.
Archive ==
    \/ Select \/ QueryFails
    \/ \E s \in remaining : Scan(s)
    \/ EndOfRows
    \/ ArchiveRecords \/ PrepareFails
    \/ \E f \in FileNames : Table(f)
    \/ BatchDone
    \/ Delete \/ DeleteFails

Next == Ingest \/ Age \/ Start \/ Archive \/ Crash

Spec == Init /\ [][Next]_vars

\* A started run goes on, and an open ingest transaction ends.
Fairness ==
    /\ WF_vars(Archive)
    /\ \A b \in Batches : WF_vars(CommitIngest(b) \/ AbortIngest(b))

FairSpec == Spec /\ Fairness

-----------------------------------------------------------------------------
(* Properties.                                                             *)

JobStates == {"none", "todo", "load", "put", "update", "done"}
Places == {"idle", "select", "scan", "prepare", "tables", "delete"}

\* Every variable keeps its type, and oldestmod is that of the batch being
\* collected: it starts afresh with each batch.
TypeOK ==
    /\ by \in [Row -> Values]
    /\ modtime \in [Row -> Nat]
    /\ archived \in [Row -> BOOLEAN]
    /\ began \in [Batches -> Nat]
    /\ clock \in Nat /\ horizon \in Nat
    /\ s3 \in [FileNames -> [Cells -> CellValues]]
    /\ pc \in Places
    /\ startTime \in Nat /\ oldestmod \in Nat \cup {Forever}
    /\ remaining \subseteq Selected /\ batch \subseteq Selected
    /\ prevKey \in Keys \cup {0}
    /\ last \in BOOLEAN /\ goErr \in BOOLEAN
    /\ job \in [FileNames -> JobStates]
    /\ mem \in [FileNames -> [Cells -> CellValues]]
    /\ faults \in Nat
    /\ batch = {} <=> oldestmod = Forever

InS3(r, b) == s3[FileOf(r)][CellOf(r)] = b

\* What a user can read: the table and the archive together.
Readable == {e \in Row \X Batches : by[e[1]] = e[2] \/ InS3(e[1], e[2])}

Store == INSTANCE DapperStore WITH
            EntriesOf <- [b \in Batches |-> BatchRows[b] \X {b}],
            stored <- Readable

\* The table and the S3 files together are a store that only ingestion
\* changes: whole batches become readable, and nothing ceases to be.
StoreSpec == Store!Spec

\* Data "is archived into CSV files in S3": no step of the archiver makes a
\* record that could be read unreadable.
NothingLost == [][Readable \subseteq Readable']_vars

\* A row is marked archived only when S3 has its value, so that deleting it
\* is harmless at any later time, whatever fails or crashes in between.
ArchivedInS3 == \A r \in Row : archived[r] => InS3(r, by[r])

\* When a run comes to its DELETE, S3 has every archived row: an UPDATE that
\* ran ahead of another table's or another batch's Put has been made good.
ArchivedInS3AtDelete == pc = "delete" => ArchivedInS3

\* A CSV file is rewritten as a whole; no value that was in it gets lost.
ArchiveGrows ==
    [][\A f \in FileNames, x \in Cells :
        s3[f][x] \in Batches => s3'[f][x] = s3[f][x]]_vars

\* "Archiving all previously un-archived records before <startTime>": a run
\* that comes to its end has archived all of them.
RunComplete ==
    pc = "delete" =>
        \A r \in Row : by[r] # NoBatch /\ modtime[r] <= startTime => archived[r]

\* A run comes to an end: the loop that spawns the tables' goroutines and the
\* wait for them never get stuck on the semaphore, whichever tables fail.
RunEnds == (pc # "idle") ~> (pc = "idle")
=============================================================================
