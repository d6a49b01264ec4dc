------------------------ MODULE DapperArchiveProofs ------------------------
(***************************************************************************)
(* Proofs about DapperArchive.                                             *)
(***************************************************************************)
EXTENDS DapperArchiveInv, TLAPS

(***************************************************************************)
(* Types of the operators on tables.                                       *)
(***************************************************************************)

\* The CSV file and the cell of a row exist in the model of S3.
LEMMA RowPlace ==
    ASSUME NEW r \in Row
    PROVE  FileOf(r) \in FileNames /\ CellOf(r) \in Cells
BY DEF Row, FileOf, CellOf, FileNames, Cells, Months

\* Merging two tables gives a table.
LEMMA AddCSVType ==
    ASSUME NEW t \in [Cells -> CellValues], NEW u \in [Cells -> CellValues]
    PROVE  AddCSV(t, u) \in [Cells -> CellValues]
BY DEF AddCSV

\* Writing a table gives a CSV file.
LEMMA ToCSVType ==
    ASSUME NEW t \in [Cells -> CellValues]
    PROVE  ToCSV(t) \in [Cells -> CellValues]
BY DEF ToCSV, CellValues

\* The empty table is a table.
LEMMA EmptyTableType == EmptyTable \in [Cells -> CellValues]
BY DEF EmptyTable, CellValues

\* The tables of selected records hold values of records.
LEMMA ParseRecordsType ==
    ASSUME NEW recs, recs \subseteq Selected
    PROVE  ParseRecords(recs) \in [FileNames -> [Cells -> CellValues]]
<1> SUFFICES ASSUME NEW f \in FileNames, NEW x \in Cells,
                    \E s \in recs : FileOf(s.row) = f /\ CellOf(s.row) = x
             PROVE (CHOOSE s \in recs : FileOf(s.row) = f /\ CellOf(s.row) = x).value
                        \in CellValues
    BY DEF ParseRecords, CellValues
<1>1. (CHOOSE s \in recs : FileOf(s.row) = f /\ CellOf(s.row) = x) \in recs
    OBVIOUS
<1> QED BY <1>1 DEF Selected, CellValues

(***************************************************************************)
(* Type correctness.                                                       *)
(***************************************************************************)

\* The initial oldestmod is no time.
LEMMA ForeverNoTime == Forever \notin Nat
BY DEF Forever

\* The types are right initially.
LEMMA InitTypeOK == Init => TypeOK
<1> SUFFICES ASSUME Init PROVE TypeOK
    OBVIOUS
<1>1. /\ by \in [Row -> Values]
      /\ modtime \in [Row -> Nat]
      /\ archived \in [Row -> BOOLEAN]
      /\ began \in [Batches -> Nat]
    BY DEF Init, Values
<1>2. /\ s3 \in [FileNames -> [Cells -> CellValues]]
      /\ mem \in [FileNames -> [Cells -> CellValues]]
    BY EmptyTableType DEF Init
<1>3. pc \in Places /\ job \in [FileNames -> JobStates]
    BY DEF Init, Places, JobStates
<1>4. remaining \subseteq Selected /\ batch \subseteq Selected
    BY DEF Init
<1> QED BY <1>1, <1>2, <1>3, <1>4 DEF Init, TypeOK

\* The types of the variables of a run, in the next state.
RunType ==
    /\ pc' \in Places
    /\ startTime' \in Nat /\ oldestmod' \in Nat \cup {Forever}
    /\ remaining' \subseteq Selected /\ batch' \subseteq Selected
    /\ prevKey' \in Keys \cup {0}
    /\ last' \in BOOLEAN /\ goErr' \in BOOLEAN
    /\ job' \in [FileNames -> JobStates]
    /\ mem' \in [FileNames -> [Cells -> CellValues]]
    /\ batch' = {} <=> oldestmod' = Forever

\* Leaving the program resets its variables to values of their types.
LEMMA ExitType ==
    ASSUME TypeOK, Exit
    PROVE  RunType
BY EmptyTableType DEF Exit, Places, JobStates, RunType

\* So does the return of archiveRecords.
LEMMA ReturnType ==
    ASSUME TypeOK, NEW err, Return(err)
    PROVE  RunType
<1>1. CASE last /\ err
    BY <1>1, ExitType DEF Return
<1>2. CASE ~(last /\ err)
    BY <1>2, EmptyTableType DEF Return, TypeOK, Places, JobStates, RunType
<1> QED BY <1>1, <1>2

\* Every action keeps the types.
LEMMA NextTypeOK == TypeOK /\ [Next]_vars => TypeOK'
<1> SUFFICES ASSUME TypeOK, [Next]_vars PROVE TypeOK'
    OBVIOUS
<1> USE DataAssumption, ParameterAssumption
<1>1. ASSUME NEW b \in Batches, BeginIngest(b) PROVE TypeOK'
    BY <1>1 DEF TypeOK, BeginIngest, Tick, table, run
<1>2. ASSUME NEW b \in Batches, CommitIngest(b) PROVE TypeOK'
    BY <1>2 DEF TypeOK, CommitIngest, table, run, Values
<1>3. ASSUME NEW b \in Batches, AbortIngest(b) PROVE TypeOK'
    BY <1>3 DEF TypeOK, AbortIngest, table, run
<1>4. ASSUME Age PROVE TypeOK'
    BY <1>4 DEF TypeOK, Age, table, run
<1>5. ASSUME Start PROVE TypeOK'
    BY <1>5 DEF TypeOK, Start, Tick, table, Places
<1>6. ASSUME Select PROVE TypeOK'
    <2>1. remaining' \subseteq Selected
        BY <1>6 DEF TypeOK, Select, Selected, Values
    <2> QED BY <1>6, <2>1 DEF TypeOK, Select, table, Places
<1>7. ASSUME NEW s \in remaining, Scan(s) PROVE TypeOK'
    <2>1. s \in Selected /\ s.modtime \in Nat /\ s.row.key \in Keys
        BY <1>7 DEF TypeOK, Selected, Row
    <2>2. oldestmod' \in Nat /\ batch' # {}
        BY <1>7, <2>1 DEF TypeOK, Scan
    <2> QED BY <1>7, <2>1, <2>2, ForeverNoTime DEF TypeOK, Scan, table, Places
<1>8. ASSUME EndOfRows PROVE TypeOK'
    BY <1>8 DEF TypeOK, EndOfRows, Fault, table, Places
<1>9. ASSUME ArchiveRecords PROVE TypeOK'
    <2>1. mem' \in [FileNames -> [Cells -> CellValues]]
        BY <1>9, ParseRecordsType DEF ArchiveRecords, TypeOK
    <2> QED BY <1>9, <2>1 DEF TypeOK, ArchiveRecords, table, Places, JobStates
<1>10. ASSUME PrepareFails PROVE TypeOK'
    <2>1. Return(TRUE)
        BY <1>10 DEF PrepareFails
    <2>2. RunType
        BY <2>1, ReturnType
    <2> QED BY <1>10, <2>2 DEF RunType, TypeOK, PrepareFails, Fault, table
<1>11. ASSUME NEW f \in FileNames, Spawn(f) PROVE TypeOK'
    BY <1>11 DEF TypeOK, Spawn, table, JobStates
<1>12. ASSUME NEW f \in FileNames, Load(f) PROVE TypeOK'
    <2>1. AddCSV(mem[f], s3[f]) \in [Cells -> CellValues]
        BY AddCSVType DEF TypeOK
    <2>2. mem' \in [FileNames -> [Cells -> CellValues]]
        BY <1>12, <2>1 DEF TypeOK, Load
    <2> QED BY <1>12, <2>2 DEF TypeOK, Load, table, JobStates
<1>13. ASSUME NEW f \in FileNames, Put(f) PROVE TypeOK'
    <2>1. ToCSV(mem[f]) \in [Cells -> CellValues]
        BY ToCSVType DEF TypeOK
    <2> QED BY <1>13, <2>1 DEF TypeOK, Put, table, JobStates
<1>14. ASSUME NEW f \in FileNames, Update(f) PROVE TypeOK'
    BY <1>14 DEF TypeOK, Update, Mark, JobStates
<1>15. ASSUME NEW f \in FileNames, LoadFails(f) PROVE TypeOK'
    BY <1>15 DEF TypeOK, LoadFails, TableFails, Fault, table, JobStates
<1>16. ASSUME NEW f \in FileNames, PutFails(f) PROVE TypeOK'
    <2>1. ToCSV(mem[f]) \in [Cells -> CellValues]
        BY ToCSVType DEF TypeOK
    <2>2. s3' \in [FileNames -> [Cells -> CellValues]]
        BY <1>16, <2>1 DEF TypeOK, PutFails
    <2>3. TableFails(f) /\ Fault("s3") /\ UNCHANGED table
        BY <1>16 DEF PutFails
    <2> QED BY <2>2, <2>3 DEF TypeOK, TableFails, Fault, table, JobStates
<1>17. ASSUME NEW f \in FileNames, UpdateFails(f) PROVE TypeOK'
    <2>1. archived' \in [Row -> BOOLEAN]
        BY <1>17 DEF TypeOK, UpdateFails, Mark
    <2> QED BY <1>17, <2>1 DEF TypeOK, UpdateFails, TableFails, Fault, JobStates
<1>18. ASSUME BatchDone PROVE TypeOK'
    <2>1. goErr \in BOOLEAN /\ Return(goErr)
        BY <1>18 DEF TypeOK, BatchDone
    <2> QED BY <1>18, <2>1, ReturnType DEF RunType, TypeOK, BatchDone, table
<1>19. ASSUME DeleteRows PROVE /\ by' \in [Row -> Values]
                               /\ modtime' \in [Row -> Nat]
                               /\ archived' \in [Row -> BOOLEAN]
    BY <1>19 DEF TypeOK, DeleteRows, Values
<1>20. ASSUME Delete PROVE TypeOK'
    BY <1>20, <1>19, ExitType DEF RunType, TypeOK, Delete
<1>21. ASSUME DeleteFails PROVE TypeOK'
    BY <1>21, <1>19, ExitType DEF RunType, TypeOK, DeleteFails, table, Fault
<1>22. ASSUME QueryFails PROVE TypeOK'
    BY <1>22, ExitType DEF RunType, TypeOK, QueryFails, table, Fault
<1>23. ASSUME Crash PROVE TypeOK'
    BY <1>23, ExitType DEF RunType, TypeOK, Crash, table, Fault
<1>24. ASSUME UNCHANGED vars PROVE TypeOK'
    BY <1>24 DEF TypeOK, vars
<1> QED
    BY <1>1, <1>2, <1>3, <1>4, <1>5, <1>6, <1>7, <1>8, <1>9, <1>10, <1>11, <1>12,
       <1>13, <1>14, <1>15, <1>16, <1>17, <1>18, <1>20, <1>21, <1>22, <1>23, <1>24
       DEF Next, Ingest, Archive, Table

\* Every reachable state of the archiver and its table has the types of
\* TypeOK, for all keys, batches, sizes and faults.
THEOREM TypeCorrect == Spec => []TypeOK
BY InitTypeOK, NextTypeOK, PTL DEF Spec

(***************************************************************************)
(* A file never loses a value, whatever the conditions.                    *)
(***************************************************************************)

\* What is put back with everything the file had is kept so by every step.
LEMMA PutKeepsFileStep ==
    ASSUME TypeOK, PutKeepsFile, [Next]_vars
    PROVE  PutKeepsFile'
<1> SUFFICES ASSUME pc' = "tables", NEW g \in FileNames, job'[g] = "put",
                    NEW x \in Cells, s3'[g][x] # NoCell
             PROVE  mem'[g][x] = s3'[g][x]
    BY DEF PutKeepsFile
<1>1. CASE UNCHANGED <<pc, job, mem, s3>>
    BY <1>1 DEF PutKeepsFile
<1>2. CASE ArchiveRecords
    BY <1>2 DEF ArchiveRecords
<1>3. ASSUME NEW f \in FileNames, Load(f) PROVE mem'[g][x] = s3'[g][x]
    <2>1. CASE g = f
        BY <1>3, <2>1 DEF Load, AddCSV, TypeOK
    <2>2. CASE g # f
        BY <1>3, <2>2 DEF Load, PutKeepsFile, TypeOK
    <2> QED BY <2>1, <2>2
<1>4. ASSUME NEW f \in FileNames, Put(f) \/ PutFails(f) PROVE mem'[g][x] = s3'[g][x]
    <2>1. /\ pc = "tables" /\ mem' = mem
          /\ job' = [job EXCEPT ![f] = "update"] \/ job' = [job EXCEPT ![f] = "done"]
          /\ s3' \in {s3, [s3 EXCEPT ![f] = ToCSV(mem[f])]}
        BY <1>4 DEF Put, PutFails, TableFails
    <2>2. g # f /\ job[g] = "put"
        BY <2>1 DEF TypeOK
    <2>3. s3'[g] = s3[g]
        BY <2>1, <2>2 DEF TypeOK
    <2> QED BY <2>1, <2>2, <2>3 DEF PutKeepsFile
<1>5. ASSUME NEW f \in FileNames, Spawn(f) \/ LoadFails(f) \/ Update(f) \/ UpdateFails(f)
      PROVE  mem'[g][x] = s3'[g][x]
    <2>1. /\ pc = "tables" /\ mem' = mem /\ s3' = s3
          /\ job' = [job EXCEPT ![f] = "load"] \/ job' = [job EXCEPT ![f] = "done"]
        BY <1>5 DEF Spawn, LoadFails, Update, UpdateFails, TableFails
    <2>2. job[g] = "put"
        BY <2>1 DEF TypeOK
    <2> QED BY <2>1, <2>2 DEF PutKeepsFile
<1>6. ASSUME NEW err, Return(err) PROVE pc' # "tables"
    BY <1>6 DEF Return, Exit
<1>7. CASE PrepareFails \/ BatchDone \/ Delete \/ DeleteFails \/ QueryFails \/ Crash
    BY <1>6, <1>7 DEF PrepareFails, BatchDone, Delete, DeleteFails, QueryFails, Crash, Exit
<1>8. CASE Start \/ Select \/ EndOfRows \/ \E s \in remaining : Scan(s)
    BY <1>8 DEF Start, Select, EndOfRows, Scan
<1>9. CASE Ingest \/ Age \/ UNCHANGED vars
    BY <1>1, <1>9 DEF Ingest, BeginIngest, CommitIngest, AbortIngest, Age, run, vars
<1> QED BY <1>2, <1>3, <1>4, <1>5, <1>7, <1>8, <1>9 DEF Next, Archive, Table

\* No step loses a value of a file.
LEMMA FileStep ==
    ASSUME TypeOK, PutKeepsFile, [Next]_vars, NEW f \in FileNames, NEW x \in Cells,
           s3[f][x] \in Batches
    PROVE  s3'[f][x] = s3[f][x]
<1>1. ASSUME NEW g \in FileNames, Put(g) \/ PutFails(g) PROVE s3'[f][x] = s3[f][x]
    <2>1. /\ pc = "tables" /\ job[g] = "put"
          /\ s3' \in {s3, [s3 EXCEPT ![g] = ToCSV(mem[g])]}
        BY <1>1 DEF Put, PutFails
    <2>2. s3[f][x] # NoCell
        BY DataAssumption
    <2>3. ASSUME g = f PROVE ToCSV(mem[g])[x] = s3[f][x]
        BY <2>1, <2>2, <2>3 DEF PutKeepsFile, ToCSV
    <2>4. CASE s3' = s3
        BY <2>4
    <2>5. CASE s3' = [s3 EXCEPT ![g] = ToCSV(mem[g])]
        BY <2>3, <2>5 DEF TypeOK
    <2> QED BY <2>1, <2>4, <2>5
<1>2. CASE UNCHANGED s3
    BY <1>2
<1>3. ASSUME NEW g \in FileNames, Table(g), ~Put(g), ~PutFails(g) PROVE UNCHANGED s3
    BY <1>3 DEF Table, Spawn, Load, LoadFails, Update, UpdateFails
<1>4. CASE Ingest \/ Age \/ Start \/ Select \/ QueryFails \/ EndOfRows \/ ArchiveRecords
           \/ PrepareFails \/ BatchDone \/ Delete \/ DeleteFails \/ Crash
           \/ (\E s \in remaining : Scan(s)) \/ UNCHANGED vars
    BY <1>2, <1>4 DEF Ingest, BeginIngest, CommitIngest, AbortIngest, Age, Start, Select,
        QueryFails, EndOfRows, ArchiveRecords, PrepareFails, BatchDone, Delete, DeleteFails,
        Crash, Scan, vars
<1> QED BY <1>1, <1>2, <1>3, <1>4 DEF Next, Archive

\* No step of the system changes or drops a value that is in a CSV file, with
\* any data, any batch size and any faults: only one process writes the files,
\* and it writes back all it read.
THEOREM FilesOnlyGrow == Spec => ArchiveGrows
<1>1. Init => PutKeepsFile
    BY DEF Init, PutKeepsFile
<1>2. TypeOK /\ PutKeepsFile /\ [Next]_vars => PutKeepsFile'
    BY PutKeepsFileStep
<1>3. TypeOK /\ PutKeepsFile /\ [Next]_vars =>
        [\A f \in FileNames, x \in Cells :
            s3[f][x] \in Batches => s3'[f][x] = s3[f][x]]_vars
    BY FileStep
<1> QED BY <1>1, <1>2, <1>3, TypeCorrect, PTL DEF Spec, ArchiveGrows

(***************************************************************************)
(* What any archiver keeps that reads the fields of a time together.       *)
(***************************************************************************)

\* A row is known from its file and its cell.
LEMMA RowFromPlace ==
    ASSUME NEW q \in Row, NEW r \in Row,
           FileOf(q) = FileOf(r), CellOf(q) = CellOf(r)
    PROVE  q = r
BY DEF Row, FileOf, CellOf

\* The rows of a batch are rows, those read and selected have values.
LEMMA BatchRowsType ==
    ASSUME NEW b \in Batches PROVE BatchRows[b] \subseteq Row
BY DataAssumption

\* What a run has selected are records with their values.
LEMMA ReadingType ==
    ASSUME TypeOK, NEW s \in Reading
    PROVE  s.row \in Row /\ s.value \in Batches /\ s.modtime \in Nat
BY DEF TypeOK, Reading, Selected

\* Merging whole tables of a file gives a whole table.
LEMMA WholeAddCSV ==
    ASSUME NEW f \in FileNames,
           NEW t \in [Cells -> CellValues], NEW u \in [Cells -> CellValues],
           Whole(t, f), Whole(u, f)
    PROVE  Whole(AddCSV(t, u), f)
<1> SUFFICES ASSUME NEW b \in Batches, NEW r \in BatchRows[b],
                    FileOf(r) = f, HasRow(AddCSV(t, u), r.time)
             PROVE  AddCSV(t, u)[CellOf(r)] = b
    BY DEF Whole
<1>1. r \in Row /\ CellOf(r) \in Cells /\ r.time \in Times /\ r.field \in Fields
    BY BatchRowsType, RowPlace DEF Row
<1>2. b # NoCell
    BY DataAssumption
<1>3. CASE HasRow(u, r.time)
    <2>1. u[CellOf(r)] = b
        BY <1>3 DEF Whole
    <2> QED BY <1>1, <1>2, <2>1 DEF AddCSV
<1>4. CASE ~HasRow(u, r.time)
    <2>1. u[CellOf(r)] = NoCell
        BY <1>1, <1>4 DEF HasRow, CellOf
    <2>2. HasRow(t, r.time)
        BY <1>1, <1>4 DEF HasRow, AddCSV, Cells
    <2>3. t[CellOf(r)] = b
        BY <2>2 DEF Whole
    <2> QED BY <1>1, <2>1, <2>3 DEF AddCSV
<1> QED BY <1>3, <1>4

\* Writing a whole table gives a whole file.
LEMMA WholeToCSV ==
    ASSUME NEW f \in FileNames, NEW t \in [Cells -> CellValues], Whole(t, f)
    PROVE  Whole(ToCSV(t), f)
<1> SUFFICES ASSUME NEW b \in Batches, NEW r \in BatchRows[b],
                    FileOf(r) = f, HasRow(ToCSV(t), r.time)
             PROVE  ToCSV(t)[CellOf(r)] = b
    BY DEF Whole
<1>1. CellOf(r) \in Cells /\ r.time \in Times
    BY BatchRowsType, RowPlace DEF Row
<1>2. HasRow(t, r.time)
    BY <1>1 DEF HasRow, ToCSV, Cells
<1>3. t[CellOf(r)] = b /\ b # NoCell
    BY <1>2, DataAssumption DEF Whole
<1> QED BY <1>1, <1>3 DEF ToCSV

\* A cell of a table made from the batch has the value of a record in it.
LEMMA ParsedOrigin ==
    ASSUME TypeOK, NEW f \in FileNames, NEW x \in Cells,
           ParseRecords(batch)[f][x] # NoCell
    PROVE  \E s \in batch : /\ FileOf(s.row) = f /\ CellOf(s.row) = x
                            /\ s.value = ParseRecords(batch)[f][x]
<1>1. \E s \in batch : FileOf(s.row) = f /\ CellOf(s.row) = x
    BY DEF ParseRecords
<1> DEFINE c == CHOOSE s \in batch : FileOf(s.row) = f /\ CellOf(s.row) = x
<1>2. c \in batch /\ FileOf(c.row) = f /\ CellOf(c.row) = x
    BY <1>1
<1>3. ParseRecords(batch)[f][x] = c.value
    BY <1>1 DEF ParseRecords
<1> QED BY <1>2, <1>3

\* Every record of the batch is in the table of its file.
LEMMA ParsedCell ==
    ASSUME TypeOK, ReadingCurrent, NEW s \in batch
    PROVE  ParseRecords(batch)[FileOf(s.row)][CellOf(s.row)] = s.value
<1> DEFINE f == FileOf(s.row)
           x == CellOf(s.row)
           c == CHOOSE o \in batch : FileOf(o.row) = f /\ CellOf(o.row) = x
<1>1. s \in Reading /\ s.row \in Row
    BY ReadingType DEF Reading
<1>2. f \in FileNames /\ x \in Cells
    BY <1>1, RowPlace
<1>3. c \in batch /\ FileOf(c.row) = f /\ CellOf(c.row) = x
    OBVIOUS
<1>4. c \in Reading /\ c.row \in Row
    BY <1>3, ReadingType DEF Reading
<1>5. c.row = s.row
    BY <1>1, <1>3, <1>4, RowFromPlace
<1>6. c.value = s.value
    BY <1>1, <1>4, <1>5 DEF ReadingCurrent
<1>7. ParseRecords(batch)[f][x] = c.value
    BY <1>2, <1>3 DEF ParseRecords
<1> QED BY <1>6, <1>7

\* The tables of a batch that has whole times are whole.
LEMMA WholeParsed ==
    ASSUME TimesTogether, TypeOK, ReadingCurrent, RowsTogether, TimesWhole, pc = "prepare",
           NEW f \in FileNames
    PROVE  Whole(ParseRecords(batch)[f], f)
<1> SUFFICES ASSUME NEW b \in Batches, NEW r \in BatchRows[b],
                    FileOf(r) = f, HasRow(ParseRecords(batch)[f], r.time)
             PROVE  ParseRecords(batch)[f][CellOf(r)] = b
    BY DEF Whole
<1>1. r \in Row /\ r.time \in Times
    BY BatchRowsType DEF Row
<1>2. PICK y \in Fields : ParseRecords(batch)[f][<<r.time, y>>] # NoCell
    BY DEF HasRow
<1>3. <<r.time, y>> \in Cells
    BY <1>1 DEF Cells
<1>4. PICK s \in batch : FileOf(s.row) = f /\ CellOf(s.row) = <<r.time, y>>
    BY <1>2, <1>3, ParsedOrigin
<1>5. s \in Reading /\ s.row \in Row /\ s.value \in Batches
    BY ReadingType DEF Reading
<1>6. r.key = s.row.key /\ r.time = s.row.time
    BY <1>4 DEF FileOf, CellOf
<1>7. s.row \in BatchRows[s.value]
    BY <1>5, DataAssumption DEF ReadingCurrent, RowsTogether
<1>8. s.value = b
    BY <1>5, <1>6, <1>7 DEF TimesTogether
<1>9. PICK o \in Reading : o.row = r /\ o.value = b
    BY <1>5, <1>6, <1>8 DEF ReadingCurrent
<1>10. o \in batch
    BY <1>4, <1>6, <1>9 DEF Reading, TimesWhole
<1> QED BY <1>9, <1>10, ParsedCell

\* The conditions under which a step of the archiver is considered.
Conditions ==
    /\ TimesTogether /\ Orderly
    /\ TypeOK /\ TypeOK'
    /\ TimesWhole /\ TimesWhole'

\* Conjuncts of the invariant that are about the tables of a batch.
TablesInv == TablesRight /\ PutKeepsFile /\ MemoryReadable

\* The tables' part of the invariant says nothing outside "tables".
LEMMA NoTables ==
    ASSUME pc' # "tables" PROVE TablesInv'
BY DEF TablesInv, TablesRight, PutKeepsFile, MemoryReadable

\* Tables at work stay right while they, the batch and the files stay.
LEMMA TablesUntouched ==
    ASSUME IInv, UNCHANGED <<s3, pc, batch, job, mem>>
    PROVE  TablesInv'
BY DEF IInv, TablesInv, TablesRight, PutKeepsFile, MemoryReadable, InMemory, InS3,
       HasRow, Whole

\* A table that is left alone stays right.
LEMMA FilesUntouched ==
    ASSUME IInv, UNCHANGED s3
    PROVE  FilesWhole'
BY DEF IInv, FilesWhole, Whole, HasRow

\* The rows stay together while the table stays.
LEMMA RowsUntouched ==
    ASSUME IInv, UNCHANGED table
    PROVE  RowsTogether'
BY DEF IInv, RowsTogether, table

\* Archived rows stay where they are while the table stays.
LEMMA ArchivedUntouched ==
    ASSUME IInv, UNCHANGED table
    PROVE  ArchivedPresent'
BY DEF IInv, ArchivedPresent, table

\* The parts of the invariant, put together.
LEMMA Parts ==
    ASSUME RowsTogether', PastIsOver', ReadingCurrent', TablesInv', FilesWhole',
           ArchivedPresent'
    PROVE  IInv'
BY DEF IInv, TablesInv

\* Time passes, ingests begin and fail: the run is not concerned.
LEMMA QuietStep ==
    ASSUME Conditions, IInv, UNCHANGED <<table, s3, pc, run>>, PastIsOver'
    PROVE  IInv'
<1>1. RowsTogether' /\ ArchivedPresent' /\ FilesWhole'
    BY RowsUntouched, ArchivedUntouched, FilesUntouched
<1>2. TablesInv'
    BY TablesUntouched DEF run
<1>3. ReadingCurrent'
    BY DEF IInv, ReadingCurrent, LastReadsAll, Reading, Copying, run, table
<1> QED BY <1>1, <1>2, <1>3, Parts

\* An ingest that begins during a run is younger than it.
LEMMA BeginIngestInv ==
    ASSUME Conditions, IInv, NEW b \in Batches, BeginIngest(b)
    PROVE  IInv'
<1>1. UNCHANGED <<table, s3, pc, run>>
    BY DEF BeginIngest
<1>2. clock' = clock + 1 /\ clock \in Nat /\ startTime <= clock
    BY DEF BeginIngest, Tick, Conditions, TypeOK, IInv, PastIsOver
<1>3. \A r \in Row : modtime'[r] <= clock'
    BY <1>2 DEF BeginIngest, table, Conditions, TypeOK, IInv, PastIsOver
<1>4. \A a \in Batches : began'[a] <= clock'
    BY <1>2 DEF BeginIngest, Conditions, TypeOK, IInv, PastIsOver
<1>5. startTime' <= clock' /\ startTime' < clock + 1
    BY <1>1, <1>2 DEF run, Conditions, TypeOK
<1>6. Copying' => \A a \in Batches : began'[a] = 0 \/ began'[a] > startTime'
    BY <1>1, <1>2, <1>5 DEF BeginIngest, run, Copying, Conditions, TypeOK, IInv, PastIsOver
<1>7. PastIsOver'
    BY <1>3, <1>4, <1>5, <1>6 DEF PastIsOver
<1> QED BY <1>1, <1>7, QuietStep

\* An ingest that ends without a commit changes no row.
LEMMA AbortIngestInv ==
    ASSUME Conditions, IInv, NEW b \in Batches, AbortIngest(b)
    PROVE  IInv'
<1>1. UNCHANGED <<table, s3, pc, run>>
    BY DEF AbortIngest
<1>2. PastIsOver'
    BY DEF AbortIngest, run, table, Copying, Conditions, TypeOK, IInv, PastIsOver
<1> QED BY <1>1, <1>2, QuietStep

\* Rows grow older; nothing is deleted by that.
LEMMA AgeInv ==
    ASSUME Conditions, IInv, Age
    PROVE  IInv'
<1>1. UNCHANGED <<table, s3, pc, run>>
    BY DEF Age
<1>2. PastIsOver'
    BY DEF Age, run, table, Copying, IInv, PastIsOver
<1> QED BY <1>1, <1>2, QuietStep

\* What commits during a run is younger than the run.
LEMMA CommitIngestInv ==
    ASSUME Conditions, IInv, NEW b \in Batches, CommitIngest(b)
    PROVE  IInv'
<1> USE DEF Conditions
<1>1. /\ BatchRows[b] \subseteq Row
      /\ \A r \in BatchRows[b] : by[r] = NoBatch
      /\ b # NoBatch
    BY DataAssumption DEF CommitIngest
<1>2. /\ \A r \in BatchRows[b] :
            by'[r] = b /\ modtime'[r] = began[b] /\ archived'[r] = FALSE
      /\ \A r \in Row \ BatchRows[b] :
            by'[r] = by[r] /\ modtime'[r] = modtime[r] /\ archived'[r] = archived[r]
    BY <1>1 DEF CommitIngest, TypeOK
<1>3. UNCHANGED <<s3, pc, run, clock>> /\ began[b] # 0
    BY DEF CommitIngest
<1>4. RowsTogether'
    <2> SUFFICES ASSUME NEW r \in Row, by'[r] # NoBatch
                 PROVE  /\ r \in BatchRows[by'[r]]
                        /\ \A q \in BatchRows[by'[r]] :
                            q.key = r.key /\ q.time = r.time =>
                                /\ by'[q] = by'[r] /\ modtime'[q] = modtime'[r]
                                /\ archived'[q] = archived'[r]
        BY DEF RowsTogether
    <2>1. CASE r \in BatchRows[b]
        BY <1>2, <2>1
    <2>2. CASE r \notin BatchRows[b]
        <3>1. by'[r] = by[r] /\ modtime'[r] = modtime[r] /\ archived'[r] = archived[r]
            BY <1>2, <2>2
        <3>2. by[r] \in Batches
            BY <3>1 DEF TypeOK, Values
        <3>3. r \in BatchRows[by[r]]
            BY <3>1 DEF IInv, RowsTogether
        <3>4. ASSUME NEW q \in BatchRows[by[r]], q.key = r.key, q.time = r.time
              PROVE  /\ by'[q] = by[r] /\ modtime'[q] = modtime[r]
                     /\ archived'[q] = archived[r]
            <4>1. by[q] = by[r] /\ modtime[q] = modtime[r] /\ archived[q] = archived[r]
                BY <3>1, <3>4 DEF IInv, RowsTogether
            <4>2. q \in Row \ BatchRows[b]
                BY <1>1, <3>1, <3>2, <4>1, BatchRowsType
            <4> QED BY <1>2, <4>1, <4>2
        <3> QED BY <3>1, <3>3, <3>4
    <2> QED BY <2>1, <2>2
<1>5. PastIsOver'
    <2>1. \A r \in Row : modtime'[r] <= clock'
        BY <1>2, <1>3 DEF IInv, PastIsOver
    <2>2. \A a \in Batches : began'[a] = began[a] \/ began'[a] = 0
        BY DEF CommitIngest, TypeOK
    <2>3. 0 <= clock
        BY DEF TypeOK
    <2> QED BY <1>3, <2>1, <2>2, <2>3 DEF IInv, PastIsOver, Copying, run
<1>6. ReadingCurrent'
    <2>1. Reading' = Reading /\ Copying' = Copying /\ startTime' = startTime
        BY <1>3 DEF Reading, Copying, run
    <2>2. ASSUME NEW s \in Reading
          PROVE  by'[s.row] = s.value /\ modtime'[s.row] = s.modtime
        <3>1. by[s.row] = s.value /\ modtime[s.row] = s.modtime
            BY DEF IInv, ReadingCurrent
        <3>2. s.row \in Row \ BatchRows[b]
            BY <1>1, <3>1, ReadingType, DataAssumption
        <3> QED BY <1>2, <3>1, <3>2
    <2> QED BY <1>3, <2>1, <2>2 DEF IInv, ReadingCurrent, LastReadsAll, run
<1>8. TablesInv' /\ FilesWhole'
    BY <1>3, TablesUntouched, FilesUntouched DEF run
<1>9. ArchivedPresent'
    BY <1>1, <1>2 DEF IInv, ArchivedPresent
<1> QED BY <1>4, <1>5, <1>6, <1>8, <1>9, Parts

\* A run starts with nothing read.
LEMMA StartInv ==
    ASSUME Conditions, IInv, Start
    PROVE  IInv'
<1>1. UNCHANGED <<table, s3, remaining, batch, job, mem, last>>
    BY DEF Start
<1>2. pc = "idle" /\ pc' = "select" /\ ~Copying /\ ~Copying'
    BY DEF Start, Copying
<1>3. Reading = {} /\ Reading' = {}
    BY <1>1, <1>2 DEF IInv, ReadingCurrent, Reading
<1>4. RowsTogether' /\ ArchivedPresent' /\ FilesWhole' /\ TablesInv'
    BY <1>1, <1>2, RowsUntouched, ArchivedUntouched, FilesUntouched, NoTables
<1>5. ReadingCurrent'
    BY <1>1, <1>2, <1>3 DEF IInv, ReadingCurrent, LastReadsAll
<1>6. startTime' = clock + 1 /\ clock' = clock + 1 /\ clock \in Nat
    <2>1. PICK ahead \in 0..Skew : startTime' = clock + 1 + ahead
        BY DEF Start
    <2>2. ahead = 0
        BY DEF Conditions, Orderly
    <2> QED BY <2>1, <2>2 DEF Start, Tick, Conditions, TypeOK
<1>7. PastIsOver'
    <2>1. \A r \in Row : modtime'[r] <= clock'
        BY <1>1, <1>6 DEF table, IInv, PastIsOver, Conditions, TypeOK
    <2>2. \A b \in Batches : began'[b] <= clock'
        BY <1>6 DEF Start, IInv, PastIsOver, Conditions, TypeOK
    <2>3. startTime' <= clock'
        BY <1>6
    <2> QED BY <1>2, <2>1, <2>2, <2>3 DEF PastIsOver
<1> QED BY <1>4, <1>5, <1>7, Parts

\* The SELECT reads every row that is not archived.
LEMMA SelectInv ==
    ASSUME Conditions, IInv, Select
    PROVE  IInv'
<1> USE DEF Conditions
<1>1. UNCHANGED <<table, s3, began, clock, startTime, batch, job, mem, last>>
    BY DEF Select
<1>2. pc = "select" /\ pc' = "scan" /\ ~Copying /\ Copying'
    BY DEF Select, Copying
<1>3. batch' = {} /\ Reading' = remaining'
    BY <1>1, <1>2 DEF IInv, ReadingCurrent, Reading
<1>4. RowsTogether' /\ ArchivedPresent' /\ FilesWhole' /\ TablesInv'
    BY <1>1, <1>2, RowsUntouched, ArchivedUntouched, FilesUntouched, NoTables
<1>6. PastIsOver'
    BY <1>1 DEF Select, Orderly, table, IInv, PastIsOver
<1>7. \A s \in Reading' :
        /\ s.row \in Row /\ by[s.row] # NoBatch /\ ~archived[s.row]
        /\ s.value = by[s.row] /\ s.modtime = modtime[s.row]
    BY <1>3 DEF Select
<1>8. \A r \in Row : by[r] # NoBatch /\ ~archived[r] =>
        \E s \in Reading' : s.row = r /\ s.value = by[r]
    <2> SUFFICES ASSUME NEW r \in Row, by[r] # NoBatch, ~archived[r]
                 PROVE  \E s \in Reading' : s.row = r /\ s.value = by[r]
        OBVIOUS
    <2> DEFINE s == [row |-> r, value |-> by[r], modtime |-> modtime[r]]
    <2>1. s \in Reading'
        BY <1>3 DEF Select
    <2> QED BY <2>1
<1>9. ReadingCurrent'
    <2>1. \A s \in Reading' : by'[s.row] = s.value /\ modtime'[s.row] = s.modtime
        BY <1>1, <1>7 DEF table
    <2>3. ASSUME NEW s \in Reading', NEW q \in BatchRows[s.value],
                 q.key = s.row.key, q.time = s.row.time
          PROVE  \E o \in Reading' : o.row = q /\ o.value = s.value
        <3>1. by[s.row] = s.value /\ s.value # NoBatch /\ s.row \in Row /\ ~archived[s.row]
            BY <1>7
        <3>2. s.value \in Batches
            BY <3>1 DEF TypeOK, Values
        <3>3. q \in Row
            BY <3>2, BatchRowsType
        <3>4. by[q] = by[s.row] /\ archived[q] = archived[s.row]
            BY <2>3, <3>1 DEF IInv, RowsTogether
        <3> QED BY <1>8, <3>1, <3>3, <3>4
    <2>4. LastReadsAll'
        BY <1>1, <1>2 DEF IInv, ReadingCurrent, LastReadsAll
    <2> QED BY <1>2, <2>1, <2>3, <2>4 DEF ReadingCurrent
<1> QED BY <1>4, <1>6, <1>9, Parts

\* Records move from the selected ones to the batch.
LEMMA ReadStep ==
    ASSUME Conditions, IInv, Reading' = Reading, Copying, Copying', pc' # "tables",
           UNCHANGED <<table, s3, began, clock, startTime>>, LastReadsAll'
    PROVE  IInv'
<1>1. RowsTogether' /\ ArchivedPresent' /\ FilesWhole' /\ TablesInv'
    BY RowsUntouched, ArchivedUntouched, FilesUntouched, NoTables
<1>2. PastIsOver'
    BY DEF table, IInv, PastIsOver
<1>3. ReadingCurrent'
    BY DEF table, IInv, ReadingCurrent
<1> QED BY <1>1, <1>2, <1>3, Parts

\* A record read moves to the batch.
LEMMA ScanInv ==
    ASSUME Conditions, IInv, NEW s \in remaining, Scan(s)
    PROVE  IInv'
<1>1. pc = "scan" /\ Reading' = Reading /\ pc' \in {"scan", "prepare"}
    BY DEF Scan, Reading
<1>2. LastReadsAll'
    BY <1>1 DEF Scan, IInv, ReadingCurrent, LastReadsAll
<1> QED BY <1>1, <1>2, ReadStep DEF Scan, Copying

\* After the last row there is nothing left to read.
LEMMA EndOfRowsInv ==
    ASSUME Conditions, IInv, EndOfRows
    PROVE  IInv'
<1>1. remaining = {}
    BY DEF EndOfRows, Fault, Conditions, Orderly
<1>2. Reading' = Reading /\ LastReadsAll'
    BY <1>1 DEF EndOfRows, Reading, LastReadsAll
<1> QED BY <1>2, ReadStep DEF EndOfRows, Copying

\* The tables of the batch are made.
LEMMA ArchiveRecordsInv ==
    ASSUME Conditions, IInv, ArchiveRecords
    PROVE  IInv'
<1> USE DEF Conditions
<1>1. /\ UNCHANGED <<table, s3, began, clock, startTime, remaining, batch, last>>
      /\ pc = "prepare" /\ pc' = "tables" /\ mem' = ParseRecords(batch)
    BY DEF ArchiveRecords
<1>2. RowsTogether' /\ ArchivedPresent' /\ FilesWhole'
    BY <1>1, RowsUntouched, ArchivedUntouched, FilesUntouched
<1>3. PastIsOver'
    BY <1>1 DEF table, Copying, IInv, PastIsOver
<1>4. ReadingCurrent'
    BY <1>1 DEF table, Copying, Reading, IInv, ReadingCurrent, LastReadsAll
<1>6. ASSUME NEW f \in FileNames
      PROVE  /\ job'[f] # "put" /\ job'[f] # "update"
             /\ job'[f] # "none" <=> \E s \in batch : FileOf(s.row) = f
    BY DEF ArchiveRecords
<1>7. TablesRight'
    <2>1. \A f \in FileNames : Whole(mem'[f], f)
        BY <1>1, WholeParsed DEF IInv
    <2>2. \A s \in batch : mem'[FileOf(s.row)][CellOf(s.row)] = s.value
        BY <1>1, ParsedCell DEF IInv
    <2> SUFFICES ASSUME NEW f \in FileNames
                 PROVE  /\ job'[f] # "none" <=> \E s \in batch' : FileOf(s.row) = f
                        /\ Whole(mem'[f], f)
                        /\ \A s \in batch' : FileOf(s.row) = f =>
                                mem'[f][CellOf(s.row)] = s.value
                        /\ job'[f] # "update"
        BY DEF TablesRight, Whole, HasRow
    <2> QED BY <1>1, <1>6, <2>1, <2>2
<1>8. PutKeepsFile'
    <2> SUFFICES ASSUME NEW f \in FileNames PROVE job'[f] # "put"
        BY DEF PutKeepsFile
    <2> QED BY <1>6
<1>9. MemoryReadable'
    <2>1. \A f \in FileNames, x \in Cells : mem'[f][x] \in Batches =>
            \E s \in batch : FileOf(s.row) = f /\ CellOf(s.row) = x /\ s.value = mem'[f][x]
        BY <1>1, ParsedOrigin, DataAssumption
    <2> QED BY <1>1, <2>1 DEF MemoryReadable
<1> QED BY <1>2, <1>3, <1>4, <1>7, <1>8, <1>9, Parts DEF TablesInv

(***************************************************************************)
(* The goroutines of a batch's tables.                                     *)
(***************************************************************************)

\* What no goroutine touches.
LEMMA TableFrame ==
    ASSUME Conditions, IInv, pc = "tables",
           UNCHANGED <<pc, by, modtime, began, clock, startTime, remaining, batch, last>>,
           \A r \in Row : archived[r] => archived'[r]
    PROVE  PastIsOver' /\ ReadingCurrent'
<1>1. PastIsOver'
    BY DEF IInv, PastIsOver, Copying
<1>2. ReadingCurrent'
    BY DEF IInv, ReadingCurrent, LastReadsAll, Reading, Copying
<1> QED BY <1>1, <1>2

\* A table starts, or is through with its file and the table.
LEMMA JobStep ==
    ASSUME Conditions, IInv, pc = "tables", NEW f \in FileNames, NEW j,
           job[f] # "none", job' = [job EXCEPT ![f] = j],
           j = "done" \/ (j = "load" /\ job[f] = "todo"),
           UNCHANGED <<s3, pc, batch, mem>>
    PROVE  TablesInv'
<1> USE DEF Conditions
<1>1. job'[f] = j /\ \A g \in FileNames \ {f} : job'[g] = job[g]
    BY DEF TypeOK
<1>2. ASSUME NEW g \in FileNames
      PROVE  /\ job'[g] # "none" <=> job[g] # "none"
             /\ job'[g] \in {"todo", "load", "put"} => InMemory(g)
             /\ job'[g] = "update" => job[g] = "update"
             /\ job'[g] = "put" => job[g] = "put"
    BY <1>1 DEF InMemory
<1>3. TablesRight'
    BY <1>2 DEF IInv, TablesRight, InMemory, Whole, HasRow, InS3
<1>4. PutKeepsFile'
    BY <1>2 DEF IInv, PutKeepsFile
<1>5. MemoryReadable'
    BY <1>2 DEF IInv, MemoryReadable, InMemory
<1> QED BY <1>3, <1>4, <1>5 DEF TablesInv

\* A goroutine begins with the table it is given.
LEMMA SpawnInv ==
    ASSUME Conditions, IInv, NEW f \in FileNames, Spawn(f)
    PROVE  IInv'
<1>1. /\ UNCHANGED <<table, s3, pc, began, clock, startTime, remaining, batch, last, mem>>
      /\ pc = "tables" /\ job[f] = "todo" /\ job' = [job EXCEPT ![f] = "load"]
    BY DEF Spawn
<1>2. TablesInv'
    BY <1>1, JobStep
<1>3. RowsTogether' /\ ArchivedPresent' /\ FilesWhole'
    BY <1>1, RowsUntouched, ArchivedUntouched, FilesUntouched
<1>4. PastIsOver' /\ ReadingCurrent'
    BY <1>1, TableFrame DEF table
<1> QED BY <1>2, <1>3, <1>4, Parts

\* The file's cells come into the table; none of the batch is overwritten
\* with another value, since the file is whole.
LEMMA LoadInv ==
    ASSUME Conditions, IInv, NEW f \in FileNames, Load(f)
    PROVE  IInv'
<1> USE DEF Conditions
<1>1. /\ UNCHANGED <<table, s3, pc, began, clock, startTime, remaining, batch, last>>
      /\ pc = "tables" /\ job[f] = "load"
    BY DEF Load
<1>2. RowsTogether' /\ ArchivedPresent' /\ FilesWhole'
    BY <1>1, RowsUntouched, ArchivedUntouched, FilesUntouched
<1>3. PastIsOver' /\ ReadingCurrent'
    BY <1>1, TableFrame DEF table
<1>4. /\ job'[f] = "put" /\ mem'[f] = AddCSV(mem[f], s3[f])
      /\ \A g \in FileNames \ {f} : job'[g] = job[g] /\ mem'[g] = mem[g]
    BY DEF Load, TypeOK
<1>5. mem[f] \in [Cells -> CellValues] /\ s3[f] \in [Cells -> CellValues]
    BY DEF TypeOK
<1>6. Whole(mem[f], f) /\ Whole(s3[f], f)
    BY <1>1 DEF IInv, TablesRight, FilesWhole, InMemory
<1>7. Whole(mem'[f], f)
    BY <1>4, <1>5, <1>6, WholeAddCSV
<1>8. ASSUME NEW s \in batch, FileOf(s.row) = f
      PROVE  mem'[f][CellOf(s.row)] = s.value
    <2>1. s \in Reading /\ s.row \in Row /\ s.value \in Batches /\ CellOf(s.row) \in Cells
        BY ReadingType, RowPlace DEF Reading
    <2>2. s.row \in BatchRows[s.value]
        BY <2>1, DataAssumption DEF IInv, ReadingCurrent, RowsTogether
    <2>3. mem[f][CellOf(s.row)] = s.value
        BY <1>1, <1>8 DEF IInv, TablesRight, InMemory
    <2>4. CASE s3[f][CellOf(s.row)] = NoCell
        BY <1>4, <2>1, <2>3, <2>4 DEF AddCSV
    <2>5. CASE s3[f][CellOf(s.row)] # NoCell
        <3>1. HasRow(s3[f], s.row.time)
            BY <2>1, <2>5 DEF HasRow, CellOf, Row
        <3>2. s3[f][CellOf(s.row)] = s.value
            BY <1>6, <1>8, <2>1, <2>2, <3>1 DEF Whole
        <3> QED BY <1>4, <2>1, <2>5, <3>2 DEF AddCSV
    <2> QED BY <2>4, <2>5
<1>9. TablesRight'
    <2> SUFFICES ASSUME NEW g \in FileNames
                 PROVE  /\ job'[g] # "none" <=> \E s \in batch : FileOf(s.row) = g
                        /\ job'[g] \in {"todo", "load", "put"} =>
                            /\ Whole(mem'[g], g)
                            /\ \A s \in batch : FileOf(s.row) = g =>
                                    mem'[g][CellOf(s.row)] = s.value
                        /\ job'[g] = "update" =>
                            \A s \in batch : FileOf(s.row) = g => InS3(s.row, s.value)
        BY <1>1 DEF TablesRight, InMemory, Whole, HasRow, InS3
    <2>1. CASE g = f
        BY <1>1, <1>4, <1>7, <1>8, <2>1 DEF IInv, TablesRight
    <2>2. CASE g # f
        BY <1>1, <1>4, <2>2 DEF IInv, TablesRight, InMemory
    <2> QED BY <2>1, <2>2
<1>10. PutKeepsFile'
    <2> SUFFICES ASSUME NEW g \in FileNames, job'[g] = "put", NEW x \in Cells,
                        s3[g][x] # NoCell
                 PROVE  mem'[g][x] = s3[g][x]
        BY <1>1 DEF PutKeepsFile
    <2>1. CASE g = f
        BY <1>4, <2>1 DEF AddCSV
    <2>2. CASE g # f
        BY <1>1, <1>4, <2>2 DEF IInv, PutKeepsFile
    <2> QED BY <2>1, <2>2
<1>11. MemoryReadable'
    <2> SUFFICES ASSUME NEW g \in FileNames, job'[g] \in {"todo", "load", "put"},
                        NEW x \in Cells, mem'[g][x] \in Batches
                 PROVE  \/ s3[g][x] = mem'[g][x]
                        \/ \E s \in batch : /\ FileOf(s.row) = g /\ CellOf(s.row) = x
                                           /\ s.value = mem'[g][x]
        BY <1>1 DEF MemoryReadable, InMemory
    <2>1. CASE g = f /\ s3[f][x] # NoCell
        BY <1>4, <2>1 DEF AddCSV
    <2>2. CASE g = f /\ s3[f][x] = NoCell
        <3>1. mem'[f][x] = mem[f][x]
            BY <1>4, <2>2 DEF AddCSV
        <3> QED BY <1>1, <2>2, <3>1 DEF IInv, MemoryReadable, InMemory
    <2>3. CASE g # f
        BY <1>1, <1>4, <2>3 DEF IInv, MemoryReadable, InMemory
    <2> QED BY <2>1, <2>2, <2>3
<1> QED BY <1>2, <1>3, <1>9, <1>10, <1>11, Parts DEF TablesInv

\* A Put leaves all that was in the file and adds the batch's records.
LEMMA PutKeepsCells ==
    ASSUME TypeOK, IInv, pc = "tables", NEW f \in FileNames, job[f] = "put",
           NEW x \in Cells, s3[f][x] \in Batches
    PROVE  ToCSV(mem[f])[x] = s3[f][x]
<1>1. s3[f][x] # NoCell
    BY DataAssumption
<1>2. mem[f][x] = s3[f][x]
    BY <1>1 DEF IInv, PutKeepsFile
<1> QED BY <1>1, <1>2 DEF ToCSV

\* A Put that succeeds, or fails after it was done, leaves whole files and right tables.
LEMMA PutStep ==
    ASSUME Conditions, IInv, pc = "tables", NEW f \in FileNames, NEW j, job[f] = "put",
           s3' = [s3 EXCEPT ![f] = ToCSV(mem[f])], job' = [job EXCEPT ![f] = j],
           j \in {"update", "done"}, UNCHANGED <<pc, by, archived, batch, mem>>
    PROVE  FilesWhole' /\ ArchivedPresent' /\ TablesInv'
<1> USE DEF Conditions
<1>1. /\ s3'[f] = ToCSV(mem[f]) /\ job'[f] = j
      /\ \A g \in FileNames \ {f} : s3'[g] = s3[g] /\ job'[g] = job[g]
    BY DEF TypeOK
<1>2. mem[f] \in [Cells -> CellValues] /\ Whole(mem[f], f)
    BY DEF TypeOK, IInv, TablesRight, InMemory
<1>3. FilesWhole'
    <2> SUFFICES ASSUME NEW g \in FileNames PROVE Whole(s3'[g], g)
        BY DEF FilesWhole, Whole, HasRow
    <2>1. CASE g = f
        BY <1>1, <1>2, <2>1, WholeToCSV
    <2>2. CASE g # f
        BY <1>1, <2>2 DEF IInv, FilesWhole
    <2> QED BY <2>1, <2>2
<1>5. ArchivedPresent'
    BY DEF IInv, ArchivedPresent
<1>6. TablesRight'
    <2> SUFFICES ASSUME NEW g \in FileNames
                 PROVE  /\ job'[g] # "none" <=> \E s \in batch : FileOf(s.row) = g
                        /\ job'[g] \in {"todo", "load", "put"} =>
                            /\ Whole(mem[g], g)
                            /\ \A s \in batch : FileOf(s.row) = g =>
                                    mem[g][CellOf(s.row)] = s.value
                        /\ job'[g] = "update" =>
                            \A s \in batch : FileOf(s.row) = g =>
                                s3'[g][CellOf(s.row)] = s.value
        BY DEF TablesRight, InMemory, Whole, HasRow, InS3
    <2>1. CASE g = f
        <3>1. \A s \in batch : FileOf(s.row) = f => s3'[f][CellOf(s.row)] = s.value
            <4> SUFFICES ASSUME NEW s \in batch, FileOf(s.row) = f
                         PROVE  s3'[f][CellOf(s.row)] = s.value
                OBVIOUS
            <4>1. CellOf(s.row) \in Cells /\ s.value \in Batches
                BY ReadingType, RowPlace DEF Reading
            <4>2. mem[f][CellOf(s.row)] = s.value
                BY DEF IInv, TablesRight, InMemory
            <4> QED BY <1>1, <4>1, <4>2, DataAssumption DEF ToCSV
        <3> QED BY <1>1, <2>1, <3>1 DEF IInv, TablesRight
    <2>2. CASE g # f
        BY <1>1, <2>2 DEF IInv, TablesRight, InMemory, InS3
    <2> QED BY <2>1, <2>2
<1>7. PutKeepsFile'
    <2> SUFFICES ASSUME NEW g \in FileNames, job'[g] = "put", NEW x \in Cells,
                        s3'[g][x] # NoCell
                 PROVE  mem[g][x] = s3'[g][x]
        BY DEF PutKeepsFile
    <2>1. g # f
        BY <1>1
    <2> QED BY <1>1, <2>1 DEF IInv, PutKeepsFile
<1>8. MemoryReadable'
    <2> SUFFICES ASSUME NEW g \in FileNames, job'[g] \in {"todo", "load", "put"},
                        NEW x \in Cells, mem[g][x] \in Batches
                 PROVE  \/ s3'[g][x] = mem[g][x]
                        \/ \E s \in batch : /\ FileOf(s.row) = g /\ CellOf(s.row) = x
                                           /\ s.value = mem[g][x]
        BY DEF MemoryReadable, InMemory
    <2>1. g # f
        BY <1>1
    <2> QED BY <1>1, <2>1 DEF IInv, MemoryReadable, InMemory
<1> QED BY <1>3, <1>5, <1>6, <1>7, <1>8 DEF TablesInv

\* A file that is put has the table, the batch and all it had.
LEMMA PutInv ==
    ASSUME Conditions, IInv, NEW f \in FileNames, Put(f)
    PROVE  IInv'
<1>1. /\ UNCHANGED <<table, pc, began, clock, startTime, remaining, batch, last, mem>>
      /\ pc = "tables" /\ job[f] = "put" /\ job' = [job EXCEPT ![f] = "update"]
      /\ s3' = [s3 EXCEPT ![f] = ToCSV(mem[f])]
    BY DEF Put
<1>2. FilesWhole' /\ ArchivedPresent' /\ TablesInv'
    BY <1>1, PutStep DEF table
<1>3. RowsTogether'
    BY <1>1, RowsUntouched
<1>4. PastIsOver' /\ ReadingCurrent'
    BY <1>1, TableFrame DEF table
<1> QED BY <1>2, <1>3, <1>4, Parts

\* A Put that fails leaves the file or replaces it, and marks nothing.
LEMMA PutFailsInv ==
    ASSUME Conditions, IInv, NEW f \in FileNames, PutFails(f)
    PROVE  IInv'
<1>1. /\ UNCHANGED <<table, pc, began, clock, startTime, remaining, batch, last, mem>>
      /\ pc = "tables" /\ job[f] = "put" /\ job' = [job EXCEPT ![f] = "done"]
    BY DEF PutFails, TableFails
<1>2. CASE UNCHANGED s3
    <2>1. TablesInv'
        BY <1>1, <1>2, JobStep
    <2> QED BY <1>1, <1>2, <2>1, RowsUntouched, ArchivedUntouched, FilesUntouched,
               TableFrame, Parts DEF table
<1>3. CASE s3' = [s3 EXCEPT ![f] = ToCSV(mem[f])]
    <2>1. FilesWhole' /\ ArchivedPresent' /\ TablesInv'
        BY <1>1, <1>3, PutStep DEF table
    <2> QED BY <1>1, <2>1, RowsUntouched, TableFrame, Parts DEF table
<1> QED BY <1>2, <1>3 DEF PutFails

\* A table that fails before its Put leaves its file alone.
LEMMA LoadFailsInv ==
    ASSUME Conditions, IInv, NEW f \in FileNames, LoadFails(f)
    PROVE  IInv'
<1>1. /\ UNCHANGED <<table, s3, pc, began, clock, startTime, remaining, batch, last, mem>>
      /\ pc = "tables" /\ job[f] = "load" /\ job' = [job EXCEPT ![f] = "done"]
    BY DEF LoadFails, TableFails
<1>2. TablesInv'
    BY <1>1, JobStep
<1> QED BY <1>1, <1>2, RowsUntouched, ArchivedUntouched, FilesUntouched, TableFrame,
           Parts DEF table

\* The UPDATE by key and modtime marks the fields of a time together.
LEMMA MarkStep ==
    ASSUME Conditions, IInv, NEW f \in FileNames, Mark(f), UNCHANGED <<by, modtime>>
    PROVE  /\ RowsTogether' /\ ArchivedPresent'
           /\ \A r \in Row : archived[r] => archived'[r]
<1> USE DEF Conditions
<1>1. \A r \in Row : archived'[r] = (archived[r] \/ r \in ToMark(f))
    BY DEF Mark
<1>3. ArchivedPresent'
    BY <1>1 DEF IInv, ArchivedPresent, ToMark
<1>4. RowsTogether'
    <2> SUFFICES ASSUME NEW r \in Row, by[r] # NoBatch
                 PROVE  /\ r \in BatchRows[by[r]]
                        /\ \A q \in BatchRows[by[r]] :
                            q.key = r.key /\ q.time = r.time =>
                                /\ by[q] = by[r] /\ modtime[q] = modtime[r]
                                /\ archived'[q] = archived'[r]
        BY DEF RowsTogether
    <2>1. r \in BatchRows[by[r]]
        BY DEF IInv, RowsTogether
    <2>2. ASSUME NEW q \in BatchRows[by[r]], q.key = r.key, q.time = r.time
          PROVE  /\ by[q] = by[r] /\ modtime[q] = modtime[r]
                 /\ archived'[q] = archived'[r]
        <3>1. by[q] = by[r] /\ modtime[q] = modtime[r] /\ archived[q] = archived[r]
            BY <2>2 DEF IInv, RowsTogether
        <3>2. q \in Row
            BY BatchRowsType DEF TypeOK, Values
        <3>3. q \in ToMark(f) <=> r \in ToMark(f)
            BY <2>2, <3>1, <3>2 DEF ToMark
        <3> QED BY <1>1, <3>1, <3>2, <3>3
    <2> QED BY <2>1, <2>2
<1> QED BY <1>1, <1>3, <1>4

\* The UPDATE of a table whose file was put is safe.
LEMMA UpdateInv ==
    ASSUME Conditions, IInv, NEW f \in FileNames, Update(f)
    PROVE  IInv'
<1>1. /\ UNCHANGED <<by, modtime, s3, pc, began, clock, startTime, remaining, batch,
                      last, mem>>
      /\ pc = "tables" /\ job[f] = "update" /\ job' = [job EXCEPT ![f] = "done"]
      /\ Mark(f)
    BY DEF Update
<1>2. TablesInv'
    BY <1>1, JobStep
<1>3. RowsTogether' /\ ArchivedPresent' /\ \A r \in Row : archived[r] => archived'[r]
    BY <1>1, MarkStep
<1>4. PastIsOver' /\ ReadingCurrent'
    BY <1>1, <1>3, TableFrame
<1>5. FilesWhole'
    BY <1>1, FilesUntouched
<1> QED BY <1>2, <1>3, <1>4, <1>5, Parts

\* An UPDATE that fails marks nothing, or what it would have marked.
LEMMA UpdateFailsInv ==
    ASSUME Conditions, IInv, NEW f \in FileNames, UpdateFails(f)
    PROVE  IInv'
<1>1. /\ UNCHANGED <<by, modtime, s3, pc, began, clock, startTime, remaining, batch,
                      last, mem>>
      /\ pc = "tables" /\ job[f] = "update" /\ job' = [job EXCEPT ![f] = "done"]
      /\ UNCHANGED archived \/ Mark(f)
    BY DEF UpdateFails, TableFails
<1>2. TablesInv' /\ FilesWhole'
    BY <1>1, JobStep, FilesUntouched
<1>3. RowsTogether' /\ ArchivedPresent' /\ \A r \in Row : archived[r] => archived'[r]
    BY <1>1, MarkStep, RowsUntouched, ArchivedUntouched DEF table
<1>4. PastIsOver' /\ ReadingCurrent'
    BY <1>1, <1>3, TableFrame
<1> QED BY <1>2, <1>3, <1>4, Parts

(***************************************************************************)
(* The end of a run.                                                       *)
(***************************************************************************)

\* The variables of the run go; the table and the files stay good.
LEMMA AfterRun ==
    ASSUME Conditions, IInv, ~Copying', pc' # "tables", remaining' = {}, batch' = {},
           last' = FALSE,
           UNCHANGED <<began, clock, s3>>, startTime' \in {0, startTime},
           \A r \in Row : modtime'[r] \in {0, modtime[r]},
           RowsTogether', ArchivedPresent'
    PROVE  IInv'
<1>1. TablesInv' /\ FilesWhole'
    BY NoTables, FilesUntouched
<1>2. ReadingCurrent'
    BY DEF ReadingCurrent, LastReadsAll, Reading, Copying
<1>3. PastIsOver'
    <2>1. 0 <= clock
        BY DEF Conditions, TypeOK
    <2> QED BY <2>1 DEF IInv, PastIsOver
<1> QED BY <1>1, <1>2, <1>3, Parts

\* A run that ends leaves table and files good.
LEMMA ExitInv ==
    ASSUME Conditions, IInv, Exit, UNCHANGED <<table, began, clock, s3>>
    PROVE  IInv'
<1>1. RowsTogether' /\ ArchivedPresent'
    BY RowsUntouched, ArchivedUntouched
<1>2. /\ ~Copying' /\ pc' # "tables" /\ remaining' = {} /\ batch' = {} /\ startTime' = 0
      /\ last' = FALSE
    BY DEF Exit, Copying
<1> QED BY <1>1, <1>2, AfterRun DEF table

\* With its last batch a run is over; else it reads on.
LEMMA ReturnInv ==
    ASSUME Conditions, IInv, NEW err, Return(err), pc \in {"prepare", "tables"},
           UNCHANGED <<table, began, clock, s3>>
    PROVE  IInv'
<1>1. CASE last /\ err
    BY <1>1, ExitInv DEF Return
<1>2. CASE ~(last /\ err)
    <2>1. /\ pc' \in {"delete", "scan"} /\ batch' = {}
          /\ UNCHANGED <<startTime, remaining>>
        BY <1>2 DEF Return
    <2>2. RowsTogether' /\ ArchivedPresent' /\ FilesWhole' /\ TablesInv'
        BY <2>1, RowsUntouched, ArchivedUntouched, FilesUntouched, NoTables
    <2>3. PastIsOver'
        BY <2>1 DEF table, Copying, IInv, PastIsOver
    <2>4. Reading' = remaining
        BY <2>1 DEF Reading
    <2>5. ReadingCurrent'
        <3>1. LastReadsAll' /\ (~Copying' => Reading' = {})
            BY <1>2, <2>4 DEF Return, Copying, IInv, ReadingCurrent, LastReadsAll
        <3>2. \A s \in Reading' : by'[s.row] = s.value /\ modtime'[s.row] = s.modtime
            BY <2>4 DEF table, IInv, ReadingCurrent, Reading
        <3>3. ASSUME NEW s \in remaining, NEW q \in BatchRows[s.value],
                     q.key = s.row.key, q.time = s.row.time
              PROVE  \E o \in remaining : o.row = q /\ o.value = s.value
            <4>1. PICK o \in Reading : o.row = q /\ o.value = s.value
                BY <3>3 DEF IInv, ReadingCurrent, Reading
            <4>2. o \notin batch
                BY <3>3, <4>1 DEF Conditions, TimesWhole
            <4> QED BY <4>1, <4>2 DEF Reading
        <3> QED BY <2>4, <3>1, <3>2, <3>3 DEF ReadingCurrent
    <2> QED BY <2>2, <2>3, <2>5, Parts
<1> QED BY <1>1, <1>2

\* Only archived rows are deleted, with all the fields of their time.
LEMMA DeleteInv ==
    ASSUME Conditions, IInv, DeleteRows, Exit, UNCHANGED <<began, clock, s3>>
    PROVE  IInv'
<1> USE DEF Conditions
<1>1. \A r \in Row :
        \/ by'[r] = NoBatch /\ archived'[r] = FALSE /\ modtime'[r] = 0 /\ Expired(r)
        \/ by'[r] = by[r] /\ archived'[r] = archived[r] /\ modtime'[r] = modtime[r]
    BY DEF DeleteRows, TypeOK
<1>2. ArchivedPresent'
    BY <1>1 DEF IInv, ArchivedPresent
<1>3. RowsTogether'
    <2> SUFFICES ASSUME NEW r \in Row, by'[r] # NoBatch
                 PROVE  /\ r \in BatchRows[by'[r]]
                        /\ \A q \in BatchRows[by'[r]] :
                            q.key = r.key /\ q.time = r.time =>
                                /\ by'[q] = by'[r] /\ modtime'[q] = modtime'[r]
                                /\ archived'[q] = archived'[r]
        BY DEF RowsTogether
    <2>1. ~Expired(r)
        BY DEF DeleteRows
    <2>2. by'[r] = by[r] /\ archived'[r] = archived[r] /\ modtime'[r] = modtime[r]
        BY <1>1, <2>1
    <2>3. r \in BatchRows[by[r]] /\ by[r] \in Batches
        BY <2>2 DEF IInv, RowsTogether, TypeOK, Values
    <2>4. ASSUME NEW q \in BatchRows[by[r]], q.key = r.key, q.time = r.time
          PROVE  /\ by'[q] = by'[r] /\ modtime'[q] = modtime'[r]
                 /\ archived'[q] = archived'[r]
        <3>1. by[q] = by[r] /\ modtime[q] = modtime[r] /\ archived[q] = archived[r]
            BY <2>2, <2>4 DEF IInv, RowsTogether
        <3>2. q \in Row /\ ~Expired(q)
            BY <2>1, <2>3, <2>4, <3>1, BatchRowsType DEF Expired
        <3>3. by'[q] = by[q] /\ archived'[q] = archived[q] /\ modtime'[q] = modtime[q]
            BY <1>1, <3>2
        <3> QED BY <2>2, <3>1, <3>3
    <2> QED BY <2>2, <2>3, <2>4
<1>4. /\ ~Copying' /\ pc' # "tables" /\ remaining' = {} /\ batch' = {} /\ startTime' = 0
      /\ last' = FALSE
    BY DEF Exit, Copying
<1>5. \A r \in Row : modtime'[r] \in {0, modtime[r]}
    BY <1>1
<1> QED BY <1>2, <1>3, <1>4, <1>5, AfterRun

(***************************************************************************)
(* The invariant.                                                          *)
(***************************************************************************)

\* The table, the files and the run are empty at first.
LEMMA InitIInv == Init => IInv
<1> SUFFICES ASSUME Init PROVE IInv
    OBVIOUS
<1>1. RowsTogether /\ PastIsOver /\ ArchivedPresent
    BY DEF Init, RowsTogether, PastIsOver, Copying, ArchivedPresent
<1>2. ReadingCurrent /\ TablesRight /\ PutKeepsFile /\ MemoryReadable
    BY DEF Init, ReadingCurrent, LastReadsAll, Reading, Copying, TablesRight, PutKeepsFile,
           MemoryReadable
<1>3. FilesWhole
    <2> SUFFICES ASSUME NEW f \in FileNames, NEW b \in Batches, NEW r \in BatchRows[b],
                        HasRow(s3[f], r.time)
                 PROVE  FALSE
        BY DEF FilesWhole, Whole
    <2>1. r.time \in Times
        BY BatchRowsType DEF Row
    <2>2. PICK y \in Fields : s3[f][<<r.time, y>>] # NoCell
        BY DEF HasRow
    <2> QED BY <2>1, <2>2 DEF Init, EmptyTable, Cells
<1> QED BY <1>1, <1>2, <1>3 DEF IInv

\* Every action preserves the invariant where the conditions hold.
LEMMA NextIInv ==
    ASSUME Conditions, IInv, [Next]_vars
    PROVE  IInv'
<1>1. ASSUME NEW b \in Batches, BeginIngest(b) \/ CommitIngest(b) \/ AbortIngest(b)
      PROVE  IInv'
    BY <1>1, BeginIngestInv, CommitIngestInv, AbortIngestInv
<1>2. ASSUME NEW f \in FileNames, Table(f) PROVE IInv'
    BY <1>2, SpawnInv, LoadInv, LoadFailsInv, PutInv, PutFailsInv, UpdateInv, UpdateFailsInv
       DEF Table
<1>3. ASSUME NEW s \in remaining, Scan(s) PROVE IInv'
    BY <1>3, ScanInv
<1>4. CASE PrepareFails
    BY <1>4, ReturnInv DEF PrepareFails
<1>5. CASE BatchDone
    BY <1>5, ReturnInv DEF BatchDone
<1>6. CASE Delete
    BY <1>6, DeleteInv DEF Delete
<1>7. CASE DeleteFails
    BY <1>7, DeleteInv, ExitInv DEF DeleteFails
<1>8. CASE QueryFails \/ Crash
    BY <1>8, ExitInv DEF QueryFails, Crash
<1>9. CASE UNCHANGED vars
    <2>1. UNCHANGED <<table, s3, pc, run>>
        BY <1>9 DEF vars, table, run
    <2>2. PastIsOver'
        BY <1>9 DEF vars, IInv, PastIsOver, Copying
    <2> QED BY <2>1, <2>2, QuietStep
<1> QED
    BY <1>1, <1>2, <1>3, <1>4, <1>5, <1>6, <1>7, <1>8, <1>9, AgeInv, StartInv, SelectInv,
       EndOfRowsInv, ArchiveRecordsInv
       DEF Next, Ingest, Archive

\* Times are never split between batches, so the invariant holds.
LEMMA Invariant ==
    ASSUME TimesTogether, Orderly
    PROVE  Spec /\ []TimesWhole => []IInv
<1>1. TypeOK /\ TypeOK' /\ TimesWhole /\ TimesWhole' /\ IInv /\ [Next]_vars => IInv'
    BY NextIInv DEF Conditions
<1> QED BY <1>1, InitIInv, TypeCorrect, PTL DEF Spec

\* What is in S3 stays there.
LEMMA StaysInS3 ==
    ASSUME TypeOK, IInv, [Next]_vars, NEW r \in Row, NEW b \in Batches, InS3(r, b)
    PROVE  InS3(r, b)'
<1>1. FileOf(r) \in FileNames /\ CellOf(r) \in Cells
    BY RowPlace
<1>2. s3'[FileOf(r)][CellOf(r)] = s3[FileOf(r)][CellOf(r)]
    BY <1>1, FileStep DEF InS3, IInv
<1> QED BY <1>2 DEF InS3

\* Rows become archived by an UPDATE only, and keep their values.
LEMMA ArchivedStep ==
    ASSUME Conditions, IInv, [Next]_vars, NEW r \in Row, archived'[r]
    PROVE  /\ by'[r] = by[r]
           /\ \/ archived[r]
              \/ \E f \in FileNames : pc = "tables" /\ job[f] = "update" /\ r \in ToMark(f)
<1> USE DEF Conditions
<1>1. CASE UNCHANGED <<by, archived>>
    BY <1>1
<1>2. ASSUME NEW b \in Batches, CommitIngest(b)
      PROVE  by'[r] = by[r] /\ archived[r]
    BY <1>2 DEF CommitIngest
<1>3. ASSUME NEW f \in FileNames, Update(f) \/ UpdateFails(f), ~UNCHANGED archived
      PROVE  /\ UNCHANGED by
             /\ archived[r] \/ (pc = "tables" /\ job[f] = "update" /\ r \in ToMark(f))
    BY <1>3 DEF Update, UpdateFails, Mark
<1>4. CASE DeleteRows
    BY <1>4 DEF DeleteRows, Expired
<1>5. ASSUME NEW f \in FileNames, Table(f), ~Update(f), ~UpdateFails(f)
      PROVE  UNCHANGED <<by, archived>>
    BY <1>5 DEF Table, Spawn, Load, LoadFails, Put, PutFails, table
<1>6. ASSUME NEW f \in FileNames, Update(f) \/ UpdateFails(f) PROVE UNCHANGED by
    BY <1>6 DEF Update, UpdateFails
<1>7. ASSUME NEW b \in Batches, BeginIngest(b) \/ AbortIngest(b)
      PROVE  UNCHANGED <<by, archived>>
    BY <1>7 DEF BeginIngest, AbortIngest, table
<1>8. CASE Delete \/ DeleteFails
    BY <1>1, <1>4, <1>8 DEF Delete, DeleteFails, table
<1>9. CASE Age \/ Start \/ Select \/ QueryFails \/ EndOfRows \/ ArchiveRecords
           \/ PrepareFails \/ BatchDone \/ Crash \/ (\E s \in remaining : Scan(s))
           \/ UNCHANGED vars
    BY <1>1, <1>9 DEF Age, Start, Select, QueryFails, EndOfRows, ArchiveRecords,
        PrepareFails, BatchDone, Crash, Scan, table, vars
<1> QED BY <1>1, <1>2, <1>3, <1>5, <1>6, <1>7, <1>8, <1>9 DEF Next, Ingest, Archive

(***************************************************************************)
(* The archive is safe when no key spans batches or months.                *)
(***************************************************************************)

\* A batch with whole keys has whole times.
LEMMA KeysHaveTimes == KeysWhole => TimesWhole
BY DEF KeysWhole, TimesWhole

\* The keys at hand are so while the records read are the same.
LEMMA KeysAtHandKept ==
    ASSUME KeysAtHand, Reading' = Reading, Copying' => Copying, startTime' = startTime,
           \A r \in Row : /\ by'[r] = by[r] /\ modtime'[r] = modtime[r]
                          /\ archived[r] => archived'[r]
    PROVE  KeysAtHand'
BY DEF KeysAtHand

\* Every record of the keys at hand is selected.
LEMMA KeysAtHandSelect ==
    ASSUME Conditions, IInv, Select
    PROVE  KeysAtHand'
<1> SUFFICES ASSUME NEW r \in Row, by[r] # NoBatch, ~archived[r]
             PROVE  \E s \in Reading' : s.row = r
    BY DEF Select, table, KeysAtHand
<1> DEFINE s == [row |-> r, value |-> by[r], modtime |-> modtime[r]]
<1>1. s \in Reading'
    BY DEF Select, Reading
<1> QED BY <1>1

\* What commits later is for a later run.
LEMMA KeysAtHandCommit ==
    ASSUME Conditions, IInv, KeysAtHand, NEW b \in Batches, CommitIngest(b)
    PROVE  KeysAtHand'
<1> USE DEF Conditions
<1>1. Reading' = Reading /\ Copying' = Copying /\ startTime' = startTime /\ began[b] # 0
    BY DEF CommitIngest, Reading, Copying, run
<1>2. SUFFICES ASSUME Copying, NEW r \in Row, by'[r] # NoBatch, ~archived'[r],
                      modtime'[r] <= startTime, \E o \in Reading : o.row.key = r.key
               PROVE  \E s \in Reading : s.row = r
    BY <1>1 DEF KeysAtHand
<1>3. r \notin BatchRows[b]
    <2>1. began[b] > startTime /\ began[b] \in Nat /\ startTime \in Nat
        BY <1>1, <1>2 DEF IInv, PastIsOver, TypeOK
    <2> QED BY <1>2, <2>1 DEF CommitIngest
<1> QED BY <1>2, <1>3 DEF CommitIngest, KeysAtHand

\* The records that remain after a batch are of other keys.
LEMMA KeysAtHandReturn ==
    ASSUME KeysWhole, KeysAtHand, NEW err, Return(err), pc \in {"prepare", "tables"},
           UNCHANGED table
    PROVE  KeysAtHand'
<1>1. CASE last
    BY <1>1 DEF Return, Exit, KeysAtHand, Copying
<1>2. CASE ~last
    <2>1. Reading' = remaining /\ startTime' = startTime /\ Copying
        BY <1>2 DEF Return, Reading, Copying
    <2>2. SUFFICES ASSUME NEW r \in Row, by[r] # NoBatch, ~archived[r],
                          modtime[r] <= startTime, NEW o \in remaining, o.row.key = r.key
                   PROVE  \E s \in remaining : s.row = r
        BY <2>1 DEF KeysAtHand, table
    <2>3. PICK s \in Reading : s.row = r
        BY <2>1, <2>2 DEF KeysAtHand, Reading
    <2>4. s \notin batch
        BY <2>2, <2>3 DEF KeysWhole
    <2> QED BY <2>3, <2>4 DEF Reading
<1> QED BY <1>1, <1>2

\* Every step keeps the keys at hand together.
LEMMA KeysAtHandStep ==
    ASSUME Conditions, IInv, KeysWhole, KeysAtHand, [Next]_vars
    PROVE  KeysAtHand'
<1>1. ASSUME NEW b \in Batches, BeginIngest(b) \/ CommitIngest(b) \/ AbortIngest(b)
      PROVE  KeysAtHand'
    <2>1. CASE CommitIngest(b)
        BY <2>1, KeysAtHandCommit
    <2>2. CASE BeginIngest(b) \/ AbortIngest(b)
        BY <2>2, KeysAtHandKept DEF BeginIngest, AbortIngest, table, run, Reading, Copying
    <2> QED BY <1>1, <2>1, <2>2
<1>2. ASSUME NEW f \in FileNames, Table(f) PROVE KeysAtHand'
    <2>1. UNCHANGED <<by, modtime, pc, startTime, remaining, batch>>
        BY <1>2 DEF Table, Spawn, Load, LoadFails, Put, PutFails, Update, UpdateFails,
            TableFails, table
    <2>2. \A r \in Row : archived[r] => archived'[r]
        BY <1>2 DEF Table, Spawn, Load, LoadFails, Put, PutFails, Update, UpdateFails,
            Mark, table
    <2> QED BY <2>1, <2>2, KeysAtHandKept DEF Reading, Copying
<1>3. CASE Age \/ UNCHANGED vars \/ EndOfRows \/ ArchiveRecords
           \/ \E s \in remaining : Scan(s)
    <2>1. UNCHANGED <<table, startTime>> /\ (Copying' => Copying)
        BY <1>3 DEF Age, vars, EndOfRows, ArchiveRecords, Scan, table, run, Copying
    <2>2. Reading' = Reading
        BY <1>3 DEF Age, vars, EndOfRows, Fault, ArchiveRecords, Scan, run, Reading,
            Conditions, Orderly
    <2> QED BY <2>1, <2>2, KeysAtHandKept DEF table
<1>4. CASE Start \/ Delete \/ DeleteFails \/ QueryFails \/ Crash
    BY <1>4 DEF Start, Delete, DeleteFails, QueryFails, Crash, Exit, KeysAtHand, Copying
<1>5. CASE PrepareFails \/ BatchDone
    BY <1>5, KeysAtHandReturn DEF PrepareFails, BatchDone
<1> QED BY <1>1, <1>2, <1>3, <1>4, <1>5, KeysAtHandSelect DEF Next, Ingest, Archive

\* The UPDATE by key and modtime marks only rows whose file has been put.
LEMMA MarkedInS3 ==
    ASSUME Conditions, IInv, KeysWhole, SafeInv, pc = "tables", NEW f \in FileNames,
           job[f] = "update", NEW r \in ToMark(f)
    PROVE  InS3(r, by[r])
<1>1. r \in Row /\ by[r] # NoBatch /\ r.key = f[1] /\ modtime[r] <= startTime
    BY DEF ToMark
<1>2. CASE archived[r]
    BY <1>1, <1>2 DEF SafeInv, ArchivedInS3
<1>3. CASE ~archived[r]
    <2>1. PICK o \in batch : FileOf(o.row) = f
        BY DEF IInv, TablesRight
    <2>2. o \in Reading /\ o.row.key = r.key
        BY <1>1, <2>1 DEF FileOf, Reading
    <2>3. PICK s \in Reading : s.row = r
        BY <1>1, <1>3, <2>2 DEF SafeInv, KeysAtHand, Copying
    <2>4. s \in batch
        BY <2>1, <2>2, <2>3 DEF KeysWhole, Reading
    <2>5. FileOf(s.row) = f
        BY <2>1, <2>2, <2>3 DEF KeysWhole
    <2>6. InS3(s.row, s.value)
        BY <2>4, <2>5 DEF IInv, TablesRight
    <2>7. s.value = by[r]
        BY <2>3 DEF IInv, ReadingCurrent
    <2> QED BY <2>3, <2>6, <2>7
<1> QED BY <1>2, <1>3

\* Every step keeps the archived rows in S3.
LEMMA SafeStep ==
    ASSUME Conditions, IInv, KeysWhole, SafeInv, [Next]_vars
    PROVE  SafeInv'
<1>1. ASSUME NEW r \in Row, archived'[r] PROVE InS3(r, by[r])'
    <2>1. InS3(r, by[r]) /\ by[r] # NoBatch
        BY <1>1, ArchivedStep, MarkedInS3
           DEF SafeInv, ArchivedInS3, IInv, ArchivedPresent, ToMark
    <2>2. by[r] \in Batches
        BY <2>1 DEF Conditions, TypeOK, Values
    <2>3. by'[r] = by[r]
        BY <1>1, ArchivedStep
    <2>4. InS3(r, by[r]) => s3'[FileOf(r)][CellOf(r)] = by[r]
        BY <2>2, StaysInS3 DEF Conditions, InS3
    <2> QED BY <2>1, <2>3, <2>4 DEF InS3
<1> QED BY <1>1, KeysAtHandStep DEF SafeInv, ArchivedInS3

\* The whole invariant of the safe archiver.
LEMMA SafeInvariant ==
    ASSUME TimesTogether, Orderly
    PROVE  Spec /\ []KeysWhole => [](IInv /\ SafeInv)
<1>1. Init => SafeInv
    BY DEF Init, SafeInv, KeysAtHand, Copying, ArchivedInS3
<1>2. /\ TypeOK /\ TypeOK' /\ TimesWhole /\ TimesWhole' /\ KeysWhole
      /\ IInv /\ SafeInv /\ [Next]_vars
      => SafeInv'
    BY SafeStep DEF Conditions
<1> QED BY <1>1, <1>2, KeysHaveTimes, Invariant, TypeCorrect, PTL DEF Spec

\* A row is marked archived only when S3 has its value: for all data whose
\* fields of one time come together, in every behaviour in which no ingest
\* straddles the start of a run, no key spans batches - what the comment in main
\* asks for - and each run reads one month's records of each key, and S3 and
\* database calls fail and the process crashes at any point.
THEOREM ArchiveSafety ==
    ASSUME TimesTogether, Orderly
    PROVE  Spec /\ []KeysWhole => []ArchivedInS3
<1>1. SafeInv => ArchivedInS3
    BY DEF SafeInv
<1> QED BY <1>1, SafeInvariant, PTL

(***************************************************************************)
(* The table and the archive implement the store.                          *)
(***************************************************************************)

\* At first nothing can be read.
LEMMA StoreInit == Init => Store!Init
<1> SUFFICES ASSUME Init PROVE Readable = {}
    BY DEF Store!Init
<1>1. ASSUME NEW e \in Row \X Batches PROVE by[e[1]] # e[2] /\ ~InS3(e[1], e[2])
    BY RowPlace, DataAssumption DEF Init, InS3, EmptyTable
<1> QED BY <1>1 DEF Readable

\* Nothing becomes readable or unreadable while table and files stay.
LEMMA ReadableUntouched ==
    ASSUME UNCHANGED <<by, s3>>
    PROVE  Readable' = Readable
BY DEF Readable, InS3

\* A commit makes the rows of its batch readable, and no others.
LEMMA ReadableCommit ==
    ASSUME Conditions, NEW b \in Batches, CommitIngest(b)
    PROVE  Readable' = Readable \cup (BatchRows[b] \X {b})
<1>1. BatchRows[b] \subseteq Row
    BY BatchRowsType
<1>2. \A r \in Row : by'[r] = IF r \in BatchRows[b] THEN b ELSE by[r]
    BY DEF CommitIngest
<1>3. \A r \in BatchRows[b] : by[r] \notin Batches
    BY DataAssumption DEF CommitIngest
<1>4. s3' = s3
    BY DEF CommitIngest
<1> QED BY <1>1, <1>2, <1>3, <1>4 DEF Readable, InS3

\* A Put makes nothing readable that was not in the table or the file.
LEMMA ReadablePut ==
    ASSUME Conditions, IInv, pc = "tables", NEW f \in FileNames, job[f] = "put",
           s3' = [s3 EXCEPT ![f] = ToCSV(mem[f])], UNCHANGED by
    PROVE  Readable' = Readable
<1> USE DEF Conditions
<1>1. /\ s3'[f] = ToCSV(mem[f])
      /\ \A g \in FileNames \ {f} : s3'[g] = s3[g]
    BY DEF TypeOK
<1>2. ASSUME NEW r \in Row, NEW b \in Batches, InS3(r, b)
      PROVE  s3'[FileOf(r)][CellOf(r)] = b
    BY <1>1, <1>2, RowPlace, PutKeepsCells DEF InS3
<1>3. ASSUME NEW r \in Row, NEW b \in Batches, s3'[FileOf(r)][CellOf(r)] = b
      PROVE  by[r] = b \/ InS3(r, b)
    <2>1. FileOf(r) \in FileNames /\ CellOf(r) \in Cells
        BY RowPlace
    <2>2. CASE FileOf(r) # f
        BY <1>1, <1>3, <2>1, <2>2 DEF InS3
    <2>3. CASE FileOf(r) = f
        <3>1. mem[f][CellOf(r)] = b
            BY <1>1, <1>3, <2>1, <2>3, DataAssumption DEF ToCSV
        <3>2. CASE s3[f][CellOf(r)] = b
            BY <2>3, <3>2 DEF InS3
        <3>3. CASE s3[f][CellOf(r)] # b
            <4>1. PICK s \in batch : /\ FileOf(s.row) = f /\ CellOf(s.row) = CellOf(r)
                                     /\ s.value = b
                BY <2>1, <3>1, <3>3 DEF IInv, MemoryReadable, InMemory
            <4>2. s \in Reading /\ s.row \in Row
                BY ReadingType DEF Reading
            <4>3. s.row = r
                BY <2>3, <4>1, <4>2, RowFromPlace
            <4> QED BY <4>1, <4>2, <4>3 DEF IInv, ReadingCurrent
        <3> QED BY <3>2, <3>3
    <2> QED BY <2>2, <2>3
<1> QED BY <1>2, <1>3 DEF Readable, InS3

\* The rows that are deleted can still be read from S3.
LEMMA ReadableDelete ==
    ASSUME ArchivedInS3, DeleteRows, UNCHANGED s3
    PROVE  Readable' = Readable
<1>1. \A r \in Row : by'[r] = IF Expired(r) THEN NoBatch ELSE by[r]
    BY DEF DeleteRows
<1>2. \A r \in Row : Expired(r) => InS3(r, by[r])
    BY DEF Expired, ArchivedInS3
<1> QED BY <1>1, <1>2, DataAssumption DEF Readable, InS3

\* Every step is a step of the store, or leaves it as it is, if what the DELETE
\* removes is in S3.
LEMMA StoreStep ==
    ASSUME Conditions, IInv, ArchivedInS3AtDelete, [Next]_vars
    PROVE  [Store!Next]_Readable
<1>1. ASSUME NEW b \in Batches, CommitIngest(b)
      PROVE  Store!Next
    BY <1>1, ReadableCommit DEF Store!Next, Store!Ingest
<1>2. ASSUME NEW b \in Batches, BeginIngest(b) \/ AbortIngest(b)
      PROVE  UNCHANGED <<by, s3>>
    BY <1>2 DEF BeginIngest, AbortIngest, table
<1>3. ASSUME NEW f \in FileNames, Table(f)
      PROVE  Readable' = Readable
    <2>1. CASE Put(f)
        BY <2>1, ReadablePut DEF Put, table
    <2>2. CASE PutFails(f)
        <3>1. CASE UNCHANGED s3
            BY <2>2, <3>1, ReadableUntouched DEF PutFails, table
        <3>2. CASE s3' = [s3 EXCEPT ![f] = ToCSV(mem[f])]
            BY <2>2, <3>2, ReadablePut DEF PutFails, table
        <3> QED BY <2>2, <3>1, <3>2 DEF PutFails
    <2>3. CASE ~Put(f) /\ ~PutFails(f)
        BY <1>3, <2>3, ReadableUntouched
           DEF Table, Spawn, Load, LoadFails, Update, UpdateFails, table
    <2> QED BY <2>1, <2>2, <2>3
<1>4. CASE Delete
    BY <1>4, ReadableDelete DEF Delete, ArchivedInS3AtDelete
<1>5. CASE DeleteFails
    BY <1>5, ReadableDelete, ReadableUntouched DEF DeleteFails, ArchivedInS3AtDelete, table
<1>6. CASE Age \/ Start \/ Select \/ QueryFails \/ EndOfRows \/ ArchiveRecords
           \/ PrepareFails \/ BatchDone \/ Crash \/ (\E s \in remaining : Scan(s))
           \/ UNCHANGED vars
    <2>1. UNCHANGED <<by, s3>>
        BY <1>6 DEF Age, Start, Select, QueryFails, EndOfRows, ArchiveRecords, PrepareFails,
                    BatchDone, Crash, Scan, table, vars
    <2> QED BY <2>1, ReadableUntouched
<1> QED
    BY <1>1, <1>2, <1>3, <1>4, <1>5, <1>6, ReadableUntouched DEF Next, Ingest, Archive

\* The database table and the CSV files, with an archiver that copies and
\* deletes, are together the store of DapperStore: what was ingested stays
\* readable and nothing else appears, under the conditions of ArchiveSafety.
THEOREM ArchiveImplementsStore ==
    ASSUME TimesTogether, Orderly
    PROVE  Spec /\ []KeysWhole => StoreSpec
<1>1. SafeInv => ArchivedInS3AtDelete
    BY DEF SafeInv, ArchivedInS3AtDelete
<1>2. /\ TypeOK /\ TypeOK' /\ TimesWhole /\ TimesWhole'
      /\ IInv /\ ArchivedInS3AtDelete /\ [Next]_vars
      => [Store!Next]_Readable
    BY StoreStep DEF Conditions
<1> QED BY <1>1, <1>2, StoreInit, KeysHaveTimes, TypeCorrect, SafeInvariant, PTL
        DEF Spec, StoreSpec, Store!Spec

=============================================================================
