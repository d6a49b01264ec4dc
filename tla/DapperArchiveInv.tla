-------------------------- MODULE DapperArchiveInv --------------------------
(***************************************************************************)
(* When the archiver of DapperArchive loses nothing, and why: conditions   *)
(* on the data and on a run, and the inductive invariant of the proofs.    *)
(***************************************************************************)
EXTENDS DapperArchive

\* All fields of a key at one time are ingested together.
TimesTogether ==
    \A a, b \in Batches : \A q \in BatchRows[a], r \in BatchRows[b] :
        q.key = r.key /\ q.time = r.time => a = b

\* One clock, no ingest that straddles the start of a run, and no connection
\* that breaks unnoticed while the records are read.
Orderly == ~Straddle /\ Skew = 0 /\ "stream" \notin Faults

Reading == remaining \cup batch

\* A batch that is to be archived has all the records of its keys, and of each
\* key a run reads only one month's.
KeysWhole ==
    /\ pc \in {"prepare", "tables"} =>
        \A s \in batch, o \in remaining : s.row.key # o.row.key
    /\ \A s, o \in Reading : s.row.key = o.row.key => FileOf(s.row) = FileOf(o.row)

\* A batch that is to be archived has all fields of a key at a time, or none.
TimesWhole ==
    pc \in {"prepare", "tables"} =>
        \A s \in batch, o \in remaining :
            ~(s.row.key = o.row.key /\ s.row.time = o.row.time)

\* A run has made its SELECT and not yet come to its DELETE.
Copying == pc \in {"scan", "prepare", "tables"}

\* Nothing fails between the SELECT of a run and its DELETE (of a step).
Undisturbed == Copying => faults' = faults

\* No call of a batch fails that is not the run's last one (of a step).
OnlyLastFails == pc \in {"prepare", "tables"} /\ ~last /\ pc' # "idle" => faults' = faults

\* The rows of the table come from the batches, and the fields of a key at
\* one time are all there, with the same modtime, archived or not.
RowsTogether ==
    \A r \in Row : by[r] # NoBatch =>
        /\ r \in BatchRows[by[r]]
        /\ \A q \in BatchRows[by[r]] : q.key = r.key /\ q.time = r.time =>
                by[q] = by[r] /\ modtime[q] = modtime[r] /\ archived[q] = archived[r]

\* The past is over: nothing carries a time that is yet to come, and what
\* commits during a run began after it.
PastIsOver ==
    /\ \A r \in Row : modtime[r] <= clock
    /\ \A b \in Batches : began[b] <= clock
    /\ startTime <= clock
    /\ Copying => \A b \in Batches : began[b] = 0 \/ began[b] > startTime

\* With the last batch nothing remains to be read.
LastReadsAll == last => remaining = {} /\ pc \in {"prepare", "tables", "delete"}

\* What a run has read is what the table has, all fields of a time together.
ReadingCurrent ==
    /\ LastReadsAll
    /\ ~Copying => Reading = {}
    /\ \A s \in Reading : by[s.row] = s.value /\ modtime[s.row] = s.modtime
    /\ \A s \in Reading : \A q \in BatchRows[s.value] :
        q.key = s.row.key /\ q.time = s.row.time =>
            \E o \in Reading : o.row = q /\ o.value = s.value

\* A table, in memory or in S3, that has a row of a time has all of the
\* values ingested for that time.
Whole(t, f) ==
    \A b \in Batches : \A r \in BatchRows[b] :
        FileOf(r) = f /\ HasRow(t, r.time) => t[CellOf(r)] = b

InMemory(f) == job[f] \in {"todo", "load", "put"}

\* A table at work has the batch's records of its file, and after Load all
\* that its file has; after Put the file has them.
TablesRight ==
    pc = "tables" => \A f \in FileNames :
        /\ job[f] # "none" <=> \E s \in batch : FileOf(s.row) = f
        /\ InMemory(f) =>
            /\ Whole(mem[f], f)
            /\ \A s \in batch : FileOf(s.row) = f => mem[f][CellOf(s.row)] = s.value
        /\ job[f] = "update" =>
            \A s \in batch : FileOf(s.row) = f => InS3(s.row, s.value)

\* A file is put back with everything it had.
PutKeepsFile ==
    pc = "tables" => \A f \in FileNames : job[f] = "put" =>
        \A x \in Cells : s3[f][x] # NoCell => mem[f][x] = s3[f][x]

\* What a table in memory has comes from its file or from the batch.
MemoryReadable ==
    pc = "tables" => \A f \in FileNames : InMemory(f) =>
        \A x \in Cells : mem[f][x] \in Batches =>
            \/ s3[f][x] = mem[f][x]
            \/ \E s \in batch : /\ FileOf(s.row) = f /\ CellOf(s.row) = x
                               /\ s.value = mem[f][x]

ArchivedPresent == \A r \in Row : archived[r] => by[r] # NoBatch

FilesWhole == \A f \in FileNames : Whole(s3[f], f)

\* What any archiver keeps that reads the fields of a time together.
IInv ==
    /\ RowsTogether
    /\ PastIsOver
    /\ ReadingCurrent
    /\ TablesRight
    /\ PutKeepsFile
    /\ MemoryReadable
    /\ FilesWhole
    /\ ArchivedPresent

-----------------------------------------------------------------------------
(* What makes the UPDATE by key and modtime right: either nothing else is  *)
(* there to be marked, or what is marked too early will be put.            *)

\* Of a key that is being read, all unarchived rows older than the run are.
KeysAtHand ==
    Copying =>
        \A r \in Row :
            /\ by[r] # NoBatch /\ ~archived[r] /\ modtime[r] <= startTime
            /\ \E o \in Reading : o.row.key = r.key
            => \E s \in Reading : s.row = r

SafeInv == KeysAtHand /\ ArchivedInS3

\* The records of a table that is done are in its file.
DoneInS3 ==
    pc = "tables" =>
        \A s \in batch : job[FileOf(s.row)] = "done" => InS3(s.row, s.value)

\* What is marked is in S3, or still at hand.
ArchivedOrAtHand ==
    \A r \in Row : archived[r] => InS3(r, by[r]) \/ \E s \in Reading : s.row = r

CleanInv == ~goErr /\ DoneInS3 /\ ArchivedOrAtHand
=============================================================================
