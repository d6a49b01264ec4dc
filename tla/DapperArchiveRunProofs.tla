----------------------- MODULE DapperArchiveRunProofs -----------------------
(***************************************************************************)
(* Runs of the archiver of any number of batches and months, whatever data *)
(* are ingested meanwhile.  A run that comes to its DELETE has archived    *)
(* all it should have; if nothing disturbs it, S3 then has all that is     *)
(* marked; and two kinds of data for which the conditions of the theorems  *)
(* always hold.                                                            *)
(***************************************************************************)
EXTENDS DapperArchiveProofs, FiniteSetTheorems

\* What commits after the SELECT began after the start of the run.
YoungCommits ==
    /\ startTime <= clock
    /\ pc \in {"scan", "prepare", "tables", "delete"} =>
        \A b \in Batches : began[b] = 0 \/ began[b] > startTime

\* The records at hand are the table's, and all that is to be archived and is
\* not is among them.
ReadingRest ==
    /\ ~Copying => Reading = {}
    /\ \A s \in Reading : by[s.row] = s.value /\ modtime[s.row] = s.modtime
    /\ Copying =>
        \A r \in Row :
            by[r] # NoBatch /\ ~archived[r] /\ modtime[r] <= startTime =>
                \E s \in Reading : s.row = r
    /\ pc \in {"idle", "select", "scan"} => ~last
    /\ pc \in {"prepare", "tables"} /\ last => remaining = {}

\* The UPDATE of a table goes back to the oldest record of the batch.
OldestFirst == \A s \in batch : oldestmod # Forever /\ oldestmod <= s.modtime

\* The records of a table that is done are marked, unless it reported an error.
DoneIsMarked ==
    pc = "tables" =>
        /\ \A s \in batch : job[FileOf(s.row)] # "none"
        /\ ~goErr => \A s \in batch :
               job[FileOf(s.row)] = "done" /\ s.modtime <= startTime => archived[s.row]

\* An error ends the run: one in a batch before the last would be forgotten.
ErrorEndsRun == goErr => last

RInv ==
    /\ YoungCommits
    /\ ReadingRest
    /\ OldestFirst
    /\ DoneIsMarked
    /\ ErrorEndsRun
    /\ RunComplete

\* What a step may use.
Given == TypeOK /\ TypeOK' /\ Orderly /\ OnlyLastFails

\* The records at hand have their types.
LEMMA ReadingTyped ==
    ASSUME TypeOK
    PROVE  \A s \in Reading :
              /\ s.row \in Row /\ s.value \in Batches /\ s.value # NoBatch
              /\ s.modtime \in Nat /\ FileOf(s.row) \in FileNames
<1>1. \A s \in Reading : s \in Selected
    BY DEF Reading, TypeOK
<1>2. \A s \in Selected : s.row \in Row /\ s.value \in Batches /\ s.modtime \in Nat
    BY DEF Selected
<1> QED BY <1>1, <1>2, RowPlace, DataAssumption

LEMMA RunInit == Init => RInv
BY DataAssumption DEF Init, RInv, YoungCommits, ReadingRest, Reading, Copying,
   OldestFirst, DoneIsMarked, ErrorEndsRun, RunComplete

\* Time passes, ingests begin and fail, files are read and put.
LEMMA RunUntouched ==
    ASSUME Given, RInv,
           UNCHANGED <<table, pc, startTime, oldestmod, remaining, batch, last, goErr>>,
           pc = "tables" => \A f \in FileNames :
               /\ job[f] # "none" => job'[f] # "none"
               /\ job'[f] = "done" => job[f] = "done",
           YoungCommits'
    PROVE  RInv'
<1>1. ReadingRest' /\ OldestFirst' /\ ErrorEndsRun' /\ RunComplete'
    BY DEF RInv, table, ReadingRest, Reading, Copying, OldestFirst, ErrorEndsRun, RunComplete
<1>2. \A s \in batch : FileOf(s.row) \in FileNames
    BY ReadingTyped DEF Given, Reading
<1>3. DoneIsMarked'
    BY <1>2 DEF RInv, table, DoneIsMarked
<1> QED BY <1>1, <1>3 DEF RInv

\* An ingest begins with a time that no run has had.
LEMMA RunBegin ==
    ASSUME Given, RInv, NEW b \in Batches, BeginIngest(b)
    PROVE  RInv'
<1>1. UNCHANGED <<table, pc, startTime, oldestmod, remaining, batch, last, goErr, job>>
    BY DEF BeginIngest, run
<1>2. clock \in Nat /\ startTime \in Nat /\ began' = [began EXCEPT ![b] = clock + 1]
    BY DEF BeginIngest, Given, TypeOK
<1>5. clock' = clock + 1 /\ startTime <= clock
    BY DEF BeginIngest, Tick, RInv, YoungCommits
<1>3. began'[b] > startTime' /\ \A a \in Batches : a # b => began'[a] = began[a]
    BY <1>1, <1>2, <1>5 DEF Given, TypeOK
<1>4. YoungCommits'
    BY <1>1, <1>2, <1>3, <1>5 DEF RInv, YoungCommits
<1> QED BY <1>1, <1>4, RunUntouched

LEMMA RunAbort ==
    ASSUME Given, RInv, NEW b \in Batches, AbortIngest(b)
    PROVE  RInv'
<1>1. UNCHANGED <<table, pc, startTime, oldestmod, remaining, batch, last, goErr, job, clock>>
    BY DEF AbortIngest, run
<1>2. \A a \in Batches : began'[a] = 0 \/ began'[a] = began[a]
    BY DEF AbortIngest, Given, TypeOK
<1>3. YoungCommits'
    BY <1>1, <1>2 DEF RInv, YoungCommits
<1> QED BY <1>1, <1>3, RunUntouched

\* What commits after the SELECT is not for this run to archive.
LEMMA RunCommit ==
    ASSUME Given, RInv, NEW b \in Batches, CommitIngest(b)
    PROVE  RInv'
<1>1. /\ \A r \in BatchRows[b] : by[r] = NoBatch
      /\ began[b] # 0
      /\ UNCHANGED <<pc, startTime, oldestmod, remaining, batch, last, goErr, job, clock>>
    BY DEF CommitIngest, run
<1>2. /\ \A r \in Row : r \in BatchRows[b] => modtime'[r] = began[b]
      /\ \A r \in Row : r \notin BatchRows[b] =>
            by'[r] = by[r] /\ modtime'[r] = modtime[r] /\ archived'[r] = archived[r]
    BY DEF CommitIngest
<1>3. \A a \in Batches : began'[a] = 0 \/ began'[a] = began[a]
    BY DEF CommitIngest, Given, TypeOK
<1>4. began[b] \in Nat /\ startTime \in Nat
    BY DEF Given, TypeOK
<1>5. \A s \in Reading : s.row \in Row /\ s.row \notin BatchRows[b]
    BY <1>1, ReadingTyped DEF Given, RInv, ReadingRest
<1>6. YoungCommits' /\ OldestFirst' /\ ErrorEndsRun'
    BY <1>1, <1>3 DEF RInv, YoungCommits, OldestFirst, ErrorEndsRun
<1>7. Reading' = Reading /\ Copying' = Copying
    BY <1>1 DEF Reading, Copying
<1>8. pc \in {"scan", "prepare", "tables", "delete"} =>
          \A r \in Row : modtime'[r] <= startTime => r \notin BatchRows[b]
    BY <1>1, <1>2, <1>4 DEF RInv, YoungCommits
<1>9. ReadingRest'
    <2>1. \A s \in Reading : by'[s.row] = s.value /\ modtime'[s.row] = s.modtime
        BY <1>2, <1>5 DEF RInv, ReadingRest
    <2>2. Copying => pc \in {"scan", "prepare", "tables", "delete"}
        BY DEF Copying
    <2>3. Copying =>
              \A r \in Row :
                  by'[r] # NoBatch /\ ~archived'[r] /\ modtime'[r] <= startTime =>
                      \E s \in Reading : s.row = r
        BY <1>2, <1>8, <2>2 DEF RInv, ReadingRest
    <2> QED BY <1>1, <1>7, <2>1, <2>3 DEF RInv, ReadingRest
<1>10. DoneIsMarked'
    <2>1. \A s \in batch : archived'[s.row] = archived[s.row]
        BY <1>2, <1>5 DEF Reading
    <2> QED BY <1>1, <2>1 DEF RInv, DoneIsMarked
<1>11. RunComplete'
    BY <1>1, <1>2, <1>8 DEF RInv, RunComplete
<1> QED BY <1>6, <1>9, <1>10, <1>11 DEF RInv

\* A run ends.
LEMMA RunExit ==
    ASSUME Given, Exit
    PROVE  RInv'
BY DEF Given, TypeOK, Exit, RInv, YoungCommits, ReadingRest, Reading, Copying, OldestFirst,
   DoneIsMarked, ErrorEndsRun, RunComplete

LEMMA RunStart ==
    ASSUME Given, RInv, Start
    PROVE  RInv'
<1>1. /\ pc = "idle" /\ pc' = "select"
      /\ UNCHANGED <<table, remaining, batch, last, goErr>>
      /\ startTime' = clock'
    BY DEF Start, Tick, Given, Orderly, TypeOK
<1>2. Reading = {} /\ Reading' = {} /\ batch' = {} /\ remaining' = {}
    BY <1>1 DEF RInv, ReadingRest, Reading, Copying
<1> QED BY <1>1, <1>2 DEF Given, TypeOK, RInv, YoungCommits, ReadingRest, Copying, OldestFirst,
        DoneIsMarked, ErrorEndsRun, RunComplete

\* All that is to be archived is selected.
LEMMA RunSelect ==
    ASSUME Given, RInv, Select
    PROVE  RInv'
<1>1. /\ pc = "select" /\ pc' = "scan"
      /\ UNCHANGED <<table, began, clock, startTime, oldestmod, batch, last, goErr>>
      /\ remaining' = {[row |-> r, value |-> by[r], modtime |-> modtime[r]] :
                          r \in {q \in Row : by[q] # NoBatch /\ ~archived[q]}}
      /\ \A b \in Batches : began[b] = 0 \/ began[b] > startTime
    BY DEF Select, Given, Orderly
<1>2. batch' = {} /\ Reading' = remaining'
    BY <1>1 DEF RInv, ReadingRest, Reading, Copying
<1>3. \A s \in remaining' : by[s.row] = s.value /\ modtime[s.row] = s.modtime
    BY <1>1
<1>4. \A r \in Row : by[r] # NoBatch /\ ~archived[r] => \E s \in remaining' : s.row = r
    <2>1. SUFFICES ASSUME NEW r \in Row, by[r] # NoBatch, ~archived[r]
                   PROVE  \E s \in remaining' : s.row = r
        OBVIOUS
    <2>2. [row |-> r, value |-> by[r], modtime |-> modtime[r]] \in remaining'
        BY <1>1, <2>1
    <2> QED BY <2>2
<1>5. ReadingRest'
    BY <1>1, <1>2, <1>3, <1>4 DEF RInv, ReadingRest, Copying, table
<1>6. YoungCommits' /\ OldestFirst' /\ DoneIsMarked' /\ ErrorEndsRun' /\ RunComplete'
    BY <1>1, <1>2 DEF RInv, YoungCommits, OldestFirst, DoneIsMarked, ErrorEndsRun, RunComplete
<1> QED BY <1>5, <1>6 DEF RInv

\* A record read moves to the batch; the oldest is kept.
LEMMA RunScan ==
    ASSUME Given, RInv, NEW s \in remaining, Scan(s)
    PROVE  RInv'
<1>1. /\ pc = "scan" /\ pc' \in {"scan", "prepare"}
      /\ UNCHANGED <<table, began, clock, startTime, goErr, last>>
      /\ remaining' = remaining \ {s} /\ batch' = batch \cup {s}
      /\ oldestmod' = IF oldestmod = Forever \/ s.modtime < oldestmod
                      THEN s.modtime ELSE oldestmod
    BY DEF Scan
<1>2. Reading' = Reading /\ Copying /\ Copying'
    BY <1>1 DEF Reading, Copying
<1>3. OldestFirst'
    <2>1. \A o \in batch \cup {s} : o.modtime \in Nat
        BY ReadingTyped DEF Given, Reading
    <2>2. oldestmod \in Nat \cup {Forever} /\ Forever \notin Nat
        BY ForeverNoTime DEF Given, TypeOK
    <2>3. ASSUME NEW o \in batch PROVE oldestmod' # Forever /\ oldestmod' <= o.modtime
        BY <1>1, <2>1, <2>2 DEF RInv, OldestFirst
    <2>4. oldestmod' # Forever /\ oldestmod' <= s.modtime
        BY <1>1, <2>1, <2>2
    <2> QED BY <1>1, <2>3, <2>4 DEF OldestFirst
<1>4. ReadingRest'
    <2>1. pc' = "prepare" /\ last' => remaining' = {}
        BY <1>1 DEF RInv, ReadingRest
    <2> QED BY <1>1, <1>2, <2>1 DEF RInv, ReadingRest, table
<1>5. YoungCommits' /\ DoneIsMarked' /\ ErrorEndsRun' /\ RunComplete'
    BY <1>1 DEF RInv, YoungCommits, DoneIsMarked, ErrorEndsRun, RunComplete
<1> QED BY <1>3, <1>4, <1>5 DEF RInv

\* The records end with the last one, as no connection breaks.
LEMMA RunEndOfRows ==
    ASSUME Given, RInv, EndOfRows
    PROVE  RInv'
<1>1. /\ pc = "scan" /\ pc' = "prepare" /\ remaining = {} /\ remaining' = {} /\ last'
      /\ UNCHANGED <<table, began, clock, startTime, oldestmod, batch, goErr>>
    BY DEF EndOfRows, Fault, Given, Orderly
<1>2. Reading' = Reading /\ Copying /\ Copying'
    BY <1>1 DEF Reading, Copying
<1>3. ReadingRest'
    BY <1>1, <1>2 DEF RInv, ReadingRest, table
<1> QED BY <1>1, <1>3 DEF RInv, YoungCommits, OldestFirst, DoneIsMarked, ErrorEndsRun,
        RunComplete

\* Every record of the batch gets a table, and none is done.
LEMMA RunArchiveRecords ==
    ASSUME Given, RInv, ArchiveRecords
    PROVE  RInv'
<1>1. /\ pc = "prepare" /\ pc' = "tables" /\ goErr' = FALSE
      /\ UNCHANGED <<table, began, clock, startTime, oldestmod, remaining, batch, last>>
      /\ job' = [f \in FileNames |->
                   IF \E s \in batch : FileOf(s.row) = f THEN "todo" ELSE "none"]
    BY DEF ArchiveRecords
<1>2. \A s \in batch : job'[FileOf(s.row)] = "todo"
    BY <1>1, ReadingTyped DEF Given, Reading
<1>3. ReadingRest'
    BY <1>1 DEF RInv, ReadingRest, Reading, Copying, table
<1> QED BY <1>1, <1>2, <1>3 DEF RInv, YoungCommits, OldestFirst, DoneIsMarked,
        ErrorEndsRun, RunComplete

\* A table is begun, read or put: it is not done by that.
LEMMA RunSpawnLoadPut ==
    ASSUME Given, RInv, NEW f \in FileNames, Spawn(f) \/ Load(f) \/ Put(f)
    PROVE  RInv'
<1>1. /\ UNCHANGED <<table, began, clock, pc, startTime, oldestmod, remaining, batch,
                     last, goErr>>
      /\ \E st \in {"load", "put", "update"} : job' = [job EXCEPT ![f] = st]
    BY DEF Spawn, Load, Put, table
<1>2. \A g \in FileNames :
          /\ job[g] # "none" => job'[g] # "none"
          /\ job'[g] = "done" => job[g] = "done"
    BY <1>1 DEF Given, TypeOK
<1>3. YoungCommits'
    BY <1>1 DEF RInv, YoungCommits
<1> QED BY <1>1, <1>2, <1>3, RunUntouched

\* Rows that get marked leave the rest as complete as it was.
LEMMA RunMarked ==
    ASSUME Given, RInv, NEW f \in FileNames, pc = "tables",
           UNCHANGED <<by, modtime, began, clock, pc, startTime, oldestmod, remaining,
                       batch, last>>,
           \A r \in Row : archived[r] => archived'[r],
           job' = [job EXCEPT ![f] = "done"]
    PROVE  /\ YoungCommits' /\ ReadingRest' /\ OldestFirst' /\ RunComplete'
           /\ \A s \in batch' : job'[FileOf(s.row)] # "none"
<1>1. YoungCommits' /\ OldestFirst' /\ RunComplete'
    BY DEF RInv, YoungCommits, OldestFirst, RunComplete
<1>2. ReadingRest'
    <2>1. Reading' = Reading /\ Copying' = Copying
        BY DEF Reading, Copying
    <2> QED BY <2>1 DEF RInv, ReadingRest
<1>3. \A s \in batch' : job'[FileOf(s.row)] # "none"
    BY ReadingTyped DEF Given, Reading, RInv, DoneIsMarked, TypeOK
<1> QED BY <1>1, <1>2, <1>3

\* The UPDATE of a file marks the records of the batch that it has.
LEMMA RunUpdate ==
    ASSUME Given, RInv, NEW f \in FileNames, Update(f)
    PROVE  RInv'
<1>1. /\ pc = "tables" /\ job' = [job EXCEPT ![f] = "done"]
      /\ UNCHANGED <<by, modtime, began, clock, pc, startTime, oldestmod, remaining,
                     batch, last, goErr>>
      /\ Mark(f)
    BY DEF Update
<1>2. \A r \in Row : archived'[r] <=> archived[r] \/ r \in ToMark(f)
    BY <1>1 DEF Mark, Given, TypeOK
<1>3. /\ YoungCommits' /\ ReadingRest' /\ OldestFirst' /\ RunComplete'
      /\ \A s \in batch' : job'[FileOf(s.row)] # "none"
    BY <1>1, <1>2, RunMarked
<1>4. ASSUME NEW s \in batch, FileOf(s.row) = f, s.modtime <= startTime
      PROVE  s.row \in ToMark(f)
    <2>1. /\ s.row \in Row /\ by[s.row] = s.value /\ modtime[s.row] = s.modtime
          /\ s.value # NoBatch
        BY <1>4, ReadingTyped DEF Given, RInv, ReadingRest, Reading
    <2>2. oldestmod <= s.modtime
        BY <1>4 DEF RInv, OldestFirst
    <2>3. s.row.key = f[1]
        BY <1>4 DEF FileOf
    <2> QED BY <1>4, <2>1, <2>2, <2>3 DEF ToMark
<1>5. ~goErr' => \A s \in batch' :
          job'[FileOf(s.row)] = "done" /\ s.modtime <= startTime' => archived'[s.row]
    <2>1. SUFFICES ASSUME ~goErr, NEW s \in batch, job'[FileOf(s.row)] = "done",
                          s.modtime <= startTime
                   PROVE  archived'[s.row]
        BY <1>1
    <2>2. s.row \in Row /\ FileOf(s.row) \in FileNames
        BY ReadingTyped DEF Given, Reading
    <2>3. CASE FileOf(s.row) = f
        BY <1>2, <1>4, <2>1, <2>2, <2>3
    <2>4. CASE FileOf(s.row) # f
        BY <1>1, <1>2, <2>1, <2>2, <2>4 DEF Given, TypeOK, RInv, DoneIsMarked
    <2> QED BY <2>3, <2>4
<1>6. ErrorEndsRun'
    BY <1>1 DEF RInv, ErrorEndsRun
<1> QED BY <1>3, <1>5, <1>6 DEF RInv, DoneIsMarked

\* A table that fails says so.
LEMMA RunTableFails ==
    ASSUME Given, RInv, NEW f \in FileNames,
           LoadFails(f) \/ PutFails(f) \/ UpdateFails(f)
    PROVE  RInv'
<1>1. /\ pc = "tables" /\ job' = [job EXCEPT ![f] = "done"] /\ goErr' = TRUE
      /\ UNCHANGED <<by, modtime, began, clock, pc, startTime, oldestmod, remaining,
                     batch, last>>
    BY DEF LoadFails, PutFails, UpdateFails, TableFails, table
<1>2. \A r \in Row : archived[r] => archived'[r]
    BY DEF LoadFails, PutFails, UpdateFails, table, Mark
<1>3. /\ YoungCommits' /\ ReadingRest' /\ OldestFirst' /\ RunComplete'
      /\ \A s \in batch' : job'[FileOf(s.row)] # "none"
    BY <1>1, <1>2, RunMarked
<1>4. ErrorEndsRun'
    <2>1. faults' = faults + 1 /\ faults \in Nat
        BY DEF LoadFails, PutFails, UpdateFails, Fault, Given, TypeOK
    <2>2. last
        BY <1>1, <2>1 DEF Given, OnlyLastFails
    <2> QED BY <1>1, <2>2 DEF ErrorEndsRun
<1> QED BY <1>1, <1>3, <1>4 DEF RInv, DoneIsMarked

\* archiveRecords returns without an error, all its tables done: what is left
\* of the records at hand is what remains to be read.
LEMMA RunReturn ==
    ASSUME Given, RInv, pc = "tables", ~goErr,
           \A f \in FileNames : job[f] \in {"none", "done"},
           Return(goErr), UNCHANGED <<table, began, clock>>
    PROVE  RInv'
<1>1. /\ pc' = IF last THEN "delete" ELSE "scan"
      /\ batch' = {} /\ goErr' = FALSE
      /\ UNCHANGED <<startTime, remaining, last>>
    BY DEF Return
<1>2. \A s \in batch : s.modtime <= startTime => archived[s.row]
    BY ReadingTyped DEF Given, Reading, RInv, DoneIsMarked
<1>3. \A r \in Row :
          by[r] # NoBatch /\ ~archived[r] /\ modtime[r] <= startTime =>
              \E s \in remaining : s.row = r
    <2>1. SUFFICES ASSUME NEW r \in Row, by[r] # NoBatch, ~archived[r],
                          modtime[r] <= startTime
                   PROVE  \E s \in remaining : s.row = r
        OBVIOUS
    <2>2. PICK s \in Reading : s.row = r
        BY <2>1 DEF RInv, ReadingRest, Copying
    <2>3. s \notin batch
        BY <1>2, <2>1, <2>2 DEF RInv, ReadingRest
    <2> QED BY <2>2, <2>3 DEF Reading
<1>4. Reading' = remaining
    BY <1>1 DEF Reading
<1>5. CASE last
    <2>1. remaining = {} /\ pc' = "delete" /\ ~Copying'
        BY <1>1, <1>5 DEF RInv, ReadingRest, Copying
    <2>2. RunComplete'
        BY <1>1, <1>3, <2>1 DEF RunComplete, table
    <2>3. ReadingRest'
        BY <1>1, <1>4, <2>1 DEF RInv, ReadingRest
    <2> QED BY <1>1, <2>1, <2>2, <2>3 DEF RInv, YoungCommits, OldestFirst, DoneIsMarked,
            ErrorEndsRun
<1>6. CASE ~last
    <2>1. pc' = "scan" /\ ~last'
        BY <1>1, <1>6
    <2>2. \A s \in remaining : by[s.row] = s.value /\ modtime[s.row] = s.modtime
        BY DEF RInv, ReadingRest, Reading
    <2>3. ReadingRest'
        BY <1>1, <1>3, <1>4, <2>1, <2>2 DEF ReadingRest, Copying, table
    <2> QED BY <1>1, <2>1, <2>3 DEF RInv, YoungCommits, OldestFirst, DoneIsMarked,
            ErrorEndsRun, RunComplete
<1> QED BY <1>5, <1>6

\* With an error the program ends, for the batch was the last one.
LEMMA RunBatchDone ==
    ASSUME Given, RInv, BatchDone
    PROVE  RInv'
<1>1. goErr \in BOOLEAN
    BY DEF Given, TypeOK
<1>2. CASE goErr
    <2>1. last
        BY <1>2 DEF RInv, ErrorEndsRun
    <2>2. Exit
        BY <1>2, <2>1 DEF BatchDone, Return
    <2> QED BY <2>2, RunExit
<1>3. CASE ~goErr
    BY <1>3, RunReturn DEF BatchDone
<1> QED BY <1>1, <1>2, <1>3

LEMMA RunPrepareFails ==
    ASSUME Given, RInv, PrepareFails
    PROVE  RInv'
<1>1. last
    <2> SUFFICES ASSUME ~last PROVE FALSE
        BY DEF Given, TypeOK
    <2>1. pc = "prepare" /\ pc' = "scan" /\ faults' = faults + 1 /\ faults \in Nat
        BY DEF PrepareFails, Return, Fault, Given, TypeOK
    <2> QED BY <2>1 DEF Given, OnlyLastFails
<1>2. Exit
    BY <1>1 DEF PrepareFails, Return
<1> QED BY <1>2, RunExit

LEMMA RunQuiet ==
    ASSUME Given, RInv, Age \/ UNCHANGED vars
    PROVE  RInv'
<1>1. UNCHANGED <<table, began, clock, pc, startTime, oldestmod, remaining, batch, last,
                  goErr, job>>
    BY DEF Age, run, table, vars
<1>2. YoungCommits'
    BY <1>1 DEF RInv, YoungCommits
<1> QED BY <1>1, <1>2, RunUntouched

LEMMA RunNext ==
    ASSUME Given, RInv, [Next]_vars
    PROVE  RInv'
<1>1. CASE \E b \in Batches : BeginIngest(b) \/ CommitIngest(b) \/ AbortIngest(b)
    BY <1>1, RunBegin, RunCommit, RunAbort
<1>2. CASE Age \/ UNCHANGED vars
    BY <1>2, RunQuiet
<1>3. CASE Start \/ Select \/ EndOfRows \/ \E s \in remaining : Scan(s)
    BY <1>3, RunStart, RunSelect, RunEndOfRows, RunScan
<1>4. CASE ArchiveRecords \/ PrepareFails \/ BatchDone
    BY <1>4, RunArchiveRecords, RunPrepareFails, RunBatchDone
<1>5. CASE \E f \in FileNames : Table(f)
    BY <1>5, RunSpawnLoadPut, RunUpdate, RunTableFails DEF Table
<1>6. CASE QueryFails \/ Delete \/ DeleteFails \/ Crash
    BY <1>6, RunExit DEF QueryFails, Delete, DeleteFails, Crash
<1> QED BY <1>1, <1>2, <1>3, <1>4, <1>5, <1>6 DEF Next, Ingest, Archive

\* RInv is kept in behaviours in which no batch but the last fails.
LEMMA RunInvariant ==
    ASSUME Orderly
    PROVE  Spec /\ [][OnlyLastFails]_vars => []RInv
<1>1. TypeOK /\ TypeOK' /\ RInv /\ [Next]_vars /\ [OnlyLastFails]_vars => RInv'
    <2>1. UNCHANGED vars => OnlyLastFails
        BY DEF vars, OnlyLastFails
    <2> QED BY <2>1, RunNext DEF Given
<1> QED BY RunInit, TypeCorrect, <1>1, PTL DEF Spec

\* "Archiving all previously un-archived records before <startTime>": in
\* orderly runs, of any number of batches and months, in which no call of a
\* batch fails but of the last one, a run that comes to its DELETE has marked
\* every record older than its start (archiveRecords and the loop in main that
\* calls it, which logs the error of an earlier batch and goes on).
THEOREM RunIsComplete ==
    ASSUME Orderly
    PROVE  Spec /\ [][OnlyLastFails]_vars => []RunComplete
<1>1. RInv => RunComplete
    BY DEF RInv
<1> QED BY <1>1, RunInvariant, PTL

(***************************************************************************)
(* Runs that nothing disturbs archive safely, though keys span batches and *)
(* months and rows are marked before their own file is put.                *)
(***************************************************************************)

\* What a step may use.
Clean ==
    /\ Conditions /\ Undisturbed
    /\ IInv /\ RInv /\ CleanInv

\* No table fails.
LEMMA CleanNoError ==
    ASSUME Clean, [Next]_vars
    PROVE  ~goErr'
<1>1. faults \in Nat /\ ~goErr
    BY DEF Clean, Conditions, TypeOK, CleanInv
<1>2. ASSUME NEW f \in FileNames, Table(f) PROVE ~goErr'
    <2>1. faults' = faults
        BY <1>2 DEF Table, Spawn, Load, LoadFails, Put, PutFails, Update, UpdateFails,
            Clean, Undisturbed, Copying
    <2>2. ~LoadFails(f) /\ ~PutFails(f) /\ ~UpdateFails(f)
        BY <1>1, <2>1 DEF LoadFails, PutFails, UpdateFails, Fault
    <2> QED BY <1>1, <1>2, <2>2 DEF Table, Spawn, Load, Put, Update
<1>3. ASSUME NEW b \in Batches, BeginIngest(b) \/ CommitIngest(b) \/ AbortIngest(b)
      PROVE  ~goErr'
    BY <1>1, <1>3 DEF BeginIngest, CommitIngest, AbortIngest, run
<1>4. CASE ~(\E f \in FileNames : Table(f)) /\ ~Ingest
    BY <1>1, <1>4 DEF Next, Archive, Age, Start, Select, QueryFails, EndOfRows, Scan,
        ArchiveRecords, PrepareFails, BatchDone, Delete, DeleteFails, Crash, Return, Exit,
        run, vars
<1> QED BY <1>2, <1>3, <1>4 DEF Ingest

\* A table that gets done has been put, and its file keeps what was put.
LEMMA CleanDoneInS3 ==
    ASSUME Clean, [Next]_vars
    PROVE  DoneInS3'
<1> USE DEF Clean, Conditions
<1> SUFFICES ASSUME pc' = "tables", NEW s \in batch', job'[FileOf(s.row)] = "done"
             PROVE  InS3(s.row, s.value)'
    BY DEF DoneInS3, InS3
<1>1. ~ArchiveRecords
    <2> SUFFICES ASSUME ArchiveRecords PROVE FALSE
        OBVIOUS
    <2>1. FileOf(s.row) \in FileNames
        BY ReadingTyped DEF Reading, ArchiveRecords
    <2> QED BY <2>1 DEF ArchiveRecords
<1>2. pc = "tables" /\ batch' = batch
    BY <1>1 DEF Next, Ingest, BeginIngest, CommitIngest, AbortIngest, Age, Start, Select,
        QueryFails, EndOfRows, Scan, PrepareFails, BatchDone, Delete, DeleteFails, Crash,
        Return, Exit, Archive, Table, Spawn, Load, LoadFails, Put, PutFails, Update,
        UpdateFails, TableFails, run, vars
<1>3. s.row \in Row /\ s.value \in Batches /\ FileOf(s.row) \in FileNames
    BY <1>2, ReadingTyped DEF Reading
<1>4. CASE job[FileOf(s.row)] = "done"
    BY <1>2, <1>3, <1>4, StaysInS3 DEF CleanInv, DoneInS3
<1>5. CASE job[FileOf(s.row)] # "done"
    <2>1. PICK f \in FileNames : Table(f)
        BY <1>1, <1>2, <1>5
           DEF Next, Ingest, BeginIngest, CommitIngest, AbortIngest, Age, Start, Select,
               QueryFails, EndOfRows, Scan, PrepareFails, BatchDone, Delete, DeleteFails,
               Crash, Return, Exit, Archive, run, vars
    <2>2. faults' = faults /\ faults \in Nat
        BY <2>1 DEF Table, Spawn, Load, LoadFails, Put, PutFails, Update, UpdateFails,
            Undisturbed, Copying, TypeOK
    <2>3. Update(f)
        BY <1>3, <1>5, <2>1, <2>2
           DEF Table, Spawn, Load, LoadFails, Put, PutFails, UpdateFails, Fault, TypeOK
    <2>4. f = FileOf(s.row) /\ job[f] = "update" /\ s3' = s3
        BY <1>3, <1>5, <2>3 DEF Update, TypeOK
    <2>5. InS3(s.row, s.value)
        BY <1>2, <2>4 DEF IInv, TablesRight
    <2> QED BY <2>4, <2>5 DEF InS3
<1> QED BY <1>4, <1>5

\* What is marked by an UPDATE is at hand, or in S3 already.
LEMMA CleanMarked ==
    ASSUME Clean, pc = "tables", NEW f \in FileNames, NEW r \in ToMark(f)
    PROVE  InS3(r, by[r]) \/ \E s \in Reading : s.row = r
BY DEF Clean, ToMark, CleanInv, ArchivedOrAtHand, RInv, ReadingRest, Copying

\* Records leave the hands of a run when they are in S3.
LEMMA CleanLetGo ==
    ASSUME Clean, [Next]_vars, NEW s \in Reading, s \notin Reading'
    PROVE  InS3(s.row, s.value)
<1> USE DEF Clean, Conditions
<1>1. Copying
    BY DEF IInv, RInv, ReadingRest
<1>2. faults' = faults /\ faults \in Nat
    BY <1>1 DEF Undisturbed, TypeOK
<1>3. BatchDone
    <2>1. ASSUME NEW f \in FileNames, Table(f) PROVE FALSE
        BY <2>1 DEF Table, Spawn, Load, LoadFails, Put, PutFails, Update, UpdateFails,
            TableFails, Reading
    <2>2. ~Ingest /\ ~Age /\ ~UNCHANGED vars
        BY DEF Ingest, BeginIngest, CommitIngest, AbortIngest, Age, run, vars, Reading
    <2>3. ~Start /\ ~Select /\ ~Delete /\ ~DeleteFails
        BY <1>1 DEF Start, Select, Delete, DeleteFails, Copying
    <2>4. ~QueryFails /\ ~PrepareFails /\ ~Crash
        <3>1. faults' # faults + 1
            BY <1>2
        <3>2. ~Fault("db") /\ ~Fault("crash")
            BY <3>1 DEF Fault
        <3> QED BY <3>2 DEF QueryFails, PrepareFails, Crash
    <2>5. ~EndOfRows /\ ~ArchiveRecords /\ ~(\E o \in remaining : Scan(o))
        BY <1>2 DEF EndOfRows, Fault, ArchiveRecords, Scan, Reading
    <2> QED BY <2>1, <2>2, <2>3, <2>4, <2>5 DEF Next, Archive
<1>4. remaining' = remaining
    BY <1>3 DEF BatchDone, Return, CleanInv
<1>5. s \in batch
    BY <1>4 DEF Reading
<1>6. FileOf(s.row) \in FileNames
    BY ReadingTyped
<1>7. job[FileOf(s.row)] = "done"
    BY <1>3, <1>5, <1>6 DEF BatchDone, RInv, DoneIsMarked
<1> QED BY <1>3, <1>5, <1>7 DEF BatchDone, CleanInv, DoneInS3

\* What is marked is in S3 or at hand.
LEMMA CleanArchived ==
    ASSUME Clean, [Next]_vars
    PROVE  ArchivedOrAtHand'
<1> USE DEF Clean, Conditions
<1> SUFFICES ASSUME NEW r \in Row, archived'[r]
             PROVE  InS3(r, by[r])' \/ \E s \in Reading' : s.row = r
    BY DEF ArchivedOrAtHand
<1>1. by'[r] = by[r] /\ by[r] # NoBatch
    BY ArchivedStep DEF IInv, ArchivedPresent, ToMark
<1>2. by[r] \in Batches
    BY <1>1 DEF TypeOK, Values
<1>3. InS3(r, by[r]) \/ \E s \in Reading : s.row = r
    BY ArchivedStep, CleanMarked DEF CleanInv, ArchivedOrAtHand
<1>4. CASE InS3(r, by[r])
    <2>1. s3'[FileOf(r)][CellOf(r)] = by[r]
        BY <1>2, <1>4, StaysInS3 DEF InS3
    <2> QED BY <1>1, <2>1 DEF InS3
<1>5. CASE ~InS3(r, by[r])
    <2>1. PICK s \in Reading : s.row = r
        BY <1>3, <1>5
    <2>2. s.value = by[r]
        BY <2>1 DEF IInv, ReadingCurrent
    <2>3. s \in Reading'
        BY <1>5, <2>1, <2>2, CleanLetGo
    <2> QED BY <2>1, <2>3
<1> QED BY <1>4, <1>5

\* The three invariants of a run that nothing disturbs.
LEMMA CleanInvariant ==
    ASSUME TimesTogether, Orderly
    PROVE  Spec /\ []TimesWhole /\ [][Undisturbed]_vars => [](IInv /\ RInv /\ CleanInv)
<1>1. Init => CleanInv
    BY DEF Init, CleanInv, DoneInS3, ArchivedOrAtHand
<1>2. [Undisturbed]_vars => [OnlyLastFails]_vars
    BY DEF Undisturbed, OnlyLastFails, Copying
<1>3. /\ TypeOK /\ TypeOK' /\ TimesWhole /\ TimesWhole'
      /\ IInv /\ RInv /\ CleanInv /\ [Next]_vars /\ [Undisturbed]_vars
      => CleanInv'
    <2>1. UNCHANGED vars => Undisturbed
        BY DEF vars, Undisturbed
    <2> QED BY <2>1, CleanNoError, CleanDoneInS3, CleanArchived DEF Clean, Conditions, CleanInv
<1> QED BY <1>1, <1>2, <1>3, Invariant, RunInvariant, TypeCorrect, PTL DEF Spec

\* When nothing is at hand, what is marked is in S3.
LEMMA CleanAtDelete == IInv /\ RInv /\ CleanInv => ArchivedInS3AtDelete
BY DEF ArchivedInS3AtDelete, ArchivedInS3, CleanInv, ArchivedOrAtHand, RInv, ReadingRest,
       Copying

\* Keys may span batches and months: an UPDATE then marks rows of files that are
\* still to be put.  By the DELETE S3 has them all, if every batch reads the
\* fields of a time together and nothing fails between SELECT and DELETE; a
\* SELECT or DELETE that fails, and a crash at either, do no harm.
THEOREM MarkedEarlyMadeGood ==
    ASSUME TimesTogether, Orderly
    PROVE  Spec /\ []TimesWhole /\ [][Undisturbed]_vars => []ArchivedInS3AtDelete
BY CleanInvariant, CleanAtDelete, PTL

\* Under the same conditions the table and the CSV files together are the store
\* of DapperStore: nothing that was ingested ceases to be readable.
THEOREM UndisturbedImplementsStore ==
    ASSUME TimesTogether, Orderly
    PROVE  Spec /\ []TimesWhole /\ [][Undisturbed]_vars => StoreSpec
<1>1. /\ TypeOK /\ TypeOK' /\ TimesWhole /\ TimesWhole'
      /\ IInv /\ ArchivedInS3AtDelete /\ [Next]_vars
      => [Store!Next]_Readable
    BY StoreStep DEF Conditions
<1> QED BY <1>1, StoreInit, CleanAtDelete, TypeCorrect, CleanInvariant, PTL
        DEF Spec, StoreSpec, Store!Spec

\* Nothing that could be read ceases to be.
LEMMA StoreLosesNothing == StoreSpec => NothingLost
<1>1. [Store!Next]_Readable => [Readable \subseteq Readable']_vars
    BY DEF Store!Next, Store!Ingest
<1> QED BY <1>1, PTL DEF StoreSpec, Store!Spec, NothingLost

(***************************************************************************)
(* Data for which the conditions hold.                                     *)
(***************************************************************************)

\* Fewer records than a batch takes, all of one month.
FitsOneBatch ==
    /\ IsFiniteSet(Row) /\ Cardinality(Row) < BatchSize
    /\ \A x, y \in Times : MonthOf[x] = MonthOf[y]

\* Every record has the one field.
OneField == \A f, g \in Fields : f = g

\* A run reads each row once.
ReadOnce ==
    /\ LastReadsAll
    /\ ~Copying => Reading = {}
    /\ remaining \cap batch = {}
    /\ \A s, o \in Reading : s.row = o.row => s = o

\* Before a run nothing is read.
LEMMA InitReadOnce == Init => ReadOnce
BY DEF Init, ReadOnce, LastReadsAll, Reading, Copying

\* The SELECT returns each row once; a record that is scanned leaves what remains
\* and is in the batch until that is done.
LEMMA NextReadOnce == TypeOK /\ ReadOnce /\ [Next]_vars => ReadOnce'
<1> SUFFICES ASSUME TypeOK, ReadOnce, [Next]_vars PROVE ReadOnce'
    OBVIOUS
<1> USE DEF ReadOnce, LastReadsAll, Reading, Copying
<1>1. CASE UNCHANGED <<pc, last, remaining, batch>>
    BY <1>1
<1>2. ASSUME Exit PROVE ReadOnce'
    BY <1>2 DEF Exit
<1>3. CASE Start
    BY <1>3 DEF Start
<1>4. CASE Select
    BY <1>4 DEF Select
<1>5. ASSUME NEW s \in remaining, Scan(s) PROVE ReadOnce'
    <2>1. /\ pc = "scan" /\ pc' \in {"prepare", "scan"} /\ UNCHANGED last
          /\ remaining' = remaining \ {s} /\ batch' = batch \cup {s}
        BY <1>5 DEF Scan
    <2> QED BY <2>1
<1>6. CASE EndOfRows
    BY <1>6 DEF EndOfRows
<1>7. CASE ArchiveRecords
    BY <1>7 DEF ArchiveRecords
<1>8. CASE PrepareFails \/ BatchDone
    <2>1. CASE Exit
        BY <1>2, <2>1
    <2>2. CASE ~Exit
        BY <1>8, <2>2 DEF PrepareFails, BatchDone, Return
    <2> QED BY <2>1, <2>2
<1>9. ASSUME NEW f \in FileNames, Table(f) PROVE ReadOnce'
    <2>1. UNCHANGED <<pc, last, remaining, batch>>
        BY <1>9 DEF Table, Spawn, Load, LoadFails, Put, PutFails, Update, UpdateFails,
                    TableFails
    <2> QED BY <1>1, <2>1
<1>10. CASE Ingest \/ Age \/ UNCHANGED vars
    BY <1>1, <1>10 DEF Ingest, BeginIngest, CommitIngest, AbortIngest, Age, run, vars
<1> HIDE DEF ReadOnce, LastReadsAll, Reading, Copying
<1>11. CASE QueryFails \/ Delete \/ DeleteFails \/ Crash
    BY <1>2, <1>11 DEF QueryFails, Delete, DeleteFails, Crash
<1> QED
    BY <1>3, <1>4, <1>5, <1>6, <1>7, <1>8, <1>9, <1>10, <1>11 DEF Next, Archive

\* In every run, whatever fails, each row is read once.
LEMMA AlwaysReadOnce == Spec => []ReadOnce
BY InitReadOnce, NextReadOnce, TypeCorrect, PTL DEF Spec

\* With one field the records of a key at a time are one record.
LEMMA OneFieldTimesWhole ==
    ASSUME OneField
    PROVE  TypeOK /\ ReadOnce => TimesWhole
<1> SUFFICES ASSUME TypeOK, ReadOnce, NEW s \in batch, NEW o \in remaining,
                    s.row.key = o.row.key, s.row.time = o.row.time
             PROVE  FALSE
    BY DEF TimesWhole
<1>1. s.row \in Row /\ o.row \in Row
    BY DEF TypeOK, Selected
<1>2. s.row = o.row
    BY <1>1 DEF Row, OneField
<1> QED BY <1>2 DEF ReadOnce, Reading

\* A batch has at most as many records as there are rows.
LEMMA BatchBound ==
    ASSUME FitsOneBatch, NEW recs, recs \subseteq Selected,
           \A s, o \in recs : s.row = o.row => s = o
    PROVE  Cardinality(recs) \in Nat /\ Cardinality(recs) < BatchSize
<1> DEFINE rowOf == [s \in recs |-> s.row]
<1>1. rowOf \in Injection(recs, Row)
    <2>1. rowOf \in [recs -> Row]
        BY DEF Selected
    <2>2. \A s, o \in recs : rowOf[s] = rowOf[o] => s = o
        OBVIOUS
    <2> QED BY <2>1, <2>2 DEF Injection, IsInjective
<1>2. IsFiniteSet(Row)
    BY DEF FitsOneBatch
<1>3. IsFiniteSet(recs) /\ Cardinality(recs) <= Cardinality(Row)
    BY <1>1, <1>2, FS_Injection
<1>4. Cardinality(recs) \in Nat /\ Cardinality(Row) \in Nat
    BY <1>2, <1>3, FS_CardinalityType
<1> QED BY <1>3, <1>4, ParameterAssumption DEF FitsOneBatch

\* Then no batch is full, and a run archives all it has read at its end.
OnlyLast == pc \in {"prepare", "tables"} => last

\* Only the end of the rows sends a run to its tables.
LEMMA OnlyLastStep ==
    ASSUME FitsOneBatch
    PROVE  TypeOK /\ TypeOK' /\ ReadOnce /\ ReadOnce' /\ OnlyLast /\ [Next]_vars => OnlyLast'
<1> SUFFICES ASSUME TypeOK, TypeOK', ReadOnce, ReadOnce', OnlyLast, [Next]_vars
             PROVE  OnlyLast'
    OBVIOUS
<1> USE DEF OnlyLast
<1>1. CASE UNCHANGED <<pc, last>>
    BY <1>1
<1>2. ASSUME pc' \notin {"prepare", "tables"} PROVE OnlyLast'
    BY <1>2
<1>3. ASSUME NEW s \in remaining, Scan(s) PROVE OnlyLast'
    <2>1. Cardinality(batch') \in Nat /\ Cardinality(batch') < BatchSize
        BY BatchBound DEF TypeOK, ReadOnce, Reading
    <2>2. ~BatchFull(batch', s.row.key)
        BY <2>1, ParameterAssumption DEF BatchFull
    <2> QED BY <1>2, <1>3, <2>2 DEF Scan
<1>4. CASE EndOfRows \/ ArchiveRecords
    BY <1>4 DEF EndOfRows, ArchiveRecords
<1>5. ASSUME NEW f \in FileNames, Table(f) PROVE OnlyLast'
    BY <1>5 DEF Table, Spawn, Load, LoadFails, Put, PutFails, Update, UpdateFails,
                TableFails
<1>6. CASE Ingest \/ Age \/ UNCHANGED vars
    BY <1>1, <1>6 DEF Ingest, BeginIngest, CommitIngest, AbortIngest, Age, run, vars
<1> QED
    BY <1>2, <1>3, <1>4, <1>5, <1>6
       DEF Next, Archive, Start, Select, QueryFails, PrepareFails, BatchDone, Delete,
           DeleteFails, Crash, Return, Exit

\* So the keys of a run are whole, and no batch before the last can fail.
LEMMA FitsKeysWhole ==
    ASSUME FitsOneBatch
    PROVE  Spec => []KeysWhole /\ [][OnlyLastFails]_vars
<1>1. Init => OnlyLast
    BY DEF Init, OnlyLast
<1>2. TypeOK /\ ReadOnce /\ OnlyLast => KeysWhole
    <2> SUFFICES ASSUME TypeOK, ReadOnce, OnlyLast PROVE KeysWhole
        OBVIOUS
    <2>1. \A s \in Reading : s.row \in Row
        BY DEF TypeOK, Selected, Reading
    <2>2. ASSUME NEW s \in Reading, NEW o \in Reading, s.row.key = o.row.key
          PROVE  FileOf(s.row) = FileOf(o.row)
        BY <2>1, <2>2 DEF Row, FileOf, FitsOneBatch
    <2> QED BY <2>2 DEF OnlyLast, ReadOnce, LastReadsAll, KeysWhole
<1>3. OnlyLast => [OnlyLastFails]_vars
    BY DEF OnlyLast, OnlyLastFails
<1> QED BY <1>1, <1>2, <1>3, OnlyLastStep, AlwaysReadOnce, TypeCorrect, PTL DEF Spec

\* A domain whose records fit one batch and one month: whatever S3 calls and
\* queries fail and whenever the process dies, what is marked is in S3, no
\* record is lost, and a run that comes to its DELETE has archived everything.
THEOREM OneBatchSafe ==
    ASSUME TimesTogether, Orderly, FitsOneBatch
    PROVE  Spec => []ArchivedInS3 /\ []RunComplete /\ StoreSpec /\ NothingLost
BY FitsKeysWhole, ArchiveSafety, ArchiveImplementsStore, RunIsComplete,
   StoreLosesNothing, PTL

\* Records of one field, in any number of batches and months, and nothing fails:
\* S3 has what is marked by the DELETE, no record is lost, and the run is complete.
THEOREM OneFieldSafe ==
    ASSUME TimesTogether, Orderly, OneField, Faults = {}
    PROVE  Spec => []ArchivedInS3AtDelete /\ []RunComplete /\ StoreSpec /\ NothingLost
<1>1. [Next]_vars => [Undisturbed]_vars
    BY DEF Undisturbed, Next, Ingest, BeginIngest, CommitIngest, AbortIngest, Age, Start,
           Archive, Select, QueryFails, Scan, EndOfRows, ArchiveRecords, PrepareFails,
           Table, Spawn, Load, LoadFails, Put, PutFails, Update, UpdateFails, BatchDone,
           Delete, DeleteFails, Crash, Fault
<1>2. Spec => [][Undisturbed]_vars
    BY <1>1, PTL DEF Spec
<1>3. [Undisturbed]_vars => [OnlyLastFails]_vars
    BY DEF Undisturbed, OnlyLastFails, Copying
<1>4. Spec => []TimesWhole
    BY OneFieldTimesWhole, AlwaysReadOnce, TypeCorrect, PTL
<1> QED BY <1>2, <1>3, <1>4, MarkedEarlyMadeGood, UndisturbedImplementsStore,
           RunIsComplete, StoreLosesNothing, PTL
=============================================================================
