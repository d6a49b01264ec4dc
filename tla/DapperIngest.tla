---------------------------- MODULE DapperIngest ----------------------------
(***************************************************************************)
(* dapper-db-ingest: processes that take S3 notifications from one SQS     *)
(* queue and insert the rows of the notified CSV files into the table      *)
(* dapper.records, one database transaction per notification.              *)
(*                                                                         *)
(* Abstracted: a row of the table is its primary key (domain, key, field,  *)
(* time); the value it holds is the file it was read from.  A line of a    *)
(* file that RecordFromCSV rejects is BadLine; a file that is no CSV at    *)
(* all, or that S3 does not have, is <<BadLine>>.                          *)
(***************************************************************************)
EXTENDS Integers, FiniteSets, Sequences, SequencesExt

CONSTANTS
    Consumers,      \* dapper-db-ingest processes
    Messages,       \* SQS messages
    Files,          \* CSV files in S3
    PKs,            \* primary keys of dapper.records
    BadLine,        \* a CSV line that cannot be parsed
    NoFile,         \* "no row": the value of a primary key that is absent
    None,           \* no consumer, no message
    Kind,           \* what a message's body is
    FilesOf,        \* the files a body of kind "records" lists
    Content,        \* the lines of each file
    MaxReceive,     \* receives after which SQS moves a message to the DLQ
    MaxConns,       \* connections the database accepts
    MaxFaults       \* bound on the number of faults in a behaviour

BodyKinds == {"records", "norecords", "notjson"}

ASSUME BodyAssumption ==
    /\ Kind \in [Messages -> BodyKinds]
    /\ FilesOf \in [Messages -> Seq(Files)]

ASSUME ContentAssumption ==
    /\ BadLine \notin PKs
    /\ NoFile \notin Files
    /\ None \notin Consumers /\ None \notin Messages
    /\ Content \in [Files -> Seq(PKs \cup {BadLine})]

ASSUME BoundAssumption ==
    MaxReceive \in Nat /\ MaxConns \in Nat /\ MaxFaults \in Nat

VARIABLES
    queue,      \* SQS: what has become of each message
    receives,   \* SQS: how often each message was received
    holder,     \* SQS: who got the newest receipt handle of a message
    db,         \* committed rows: which file's value each primary key has
    pc,         \* each consumer's place in its loop
    msg,        \* the message each consumer is processing
    n,          \* the notification variable of main: its Records
    todo,       \* files of n.Records that Process has still to read
    file,       \* the file being inserted
    rows,       \* its lines not inserted yet
    tx,         \* rows inserted by the open transaction
    leaked,     \* transactions of a process that nothing will ever end
    faults      \* faults so far

sqs == <<queue, receives, holder>>
work == <<todo, file, rows, tx>>
vars == <<queue, receives, holder, db, pc, msg, n, todo, file, rows, tx,
          leaked, faults>>

NoRows == [k \in PKs |-> NoFile]

Init ==
    /\ queue = [m \in Messages |-> "visible"]
    /\ receives = [m \in Messages |-> 0]
    /\ holder = [m \in Messages |-> None]
    /\ db = NoRows
    /\ pc = [c \in Consumers |-> "receive"]
    /\ msg = [c \in Consumers |-> None]
    /\ n = [c \in Consumers |-> <<>>]
    /\ todo = [c \in Consumers |-> <<>>]
    /\ file = [c \in Consumers |-> NoFile]
    /\ rows = [c \in Consumers |-> <<>>]
    /\ tx = [c \in Consumers |-> NoRows]
    /\ leaked = [c \in Consumers |-> 0]
    /\ faults = 0

Fault == faults < MaxFaults /\ faults' = faults + 1
NoFault == UNCHANGED faults

-----------------------------------------------------------------------------
(* SQS, external: messages reappear after the visibility timeout, and go   *)
(* to the dead letter queue once they have been received MaxReceive times. *)

\* A consumer is between ReceiveWithContext and the end of its Delete.
Busy(c) == pc[c] # "receive"
Processing(c, m) == msg[c] = m

\* The 900 seconds are over.  When the consumer that has the message is
\* still at work this counts as a fault, else it is SQS's normal course.
VisibilityExpires(m) ==
    /\ queue[m] = "hidden"
    /\ queue' = [queue EXCEPT ![m] = "visible"]
    /\ IF \E c \in Consumers : Processing(c, m) THEN Fault ELSE NoFault
    /\ UNCHANGED <<receives, holder, db, pc, msg, n, work, leaked>>

DeadLetter(m) ==
    /\ queue[m] = "visible"
    /\ receives[m] >= MaxReceive
    /\ queue' = [queue EXCEPT ![m] = "dead"]
    /\ UNCHANGED <<receives, holder, db, pc, msg, n, work, leaked, faults>>

Available(m) == queue[m] = "visible" /\ receives[m] < MaxReceive

\* The response to a receive is lost: the message is hidden, nobody has it.
ReceiveLost(m) ==
    /\ Available(m)
    /\ Fault
    /\ queue' = [queue EXCEPT ![m] = "hidden"]
    /\ receives' = [receives EXCEPT ![m] = @ + 1]
    /\ holder' = [holder EXCEPT ![m] = None]
    /\ UNCHANGED <<db, pc, msg, n, work, leaked>>

-----------------------------------------------------------------------------
(* The consumer's loop.                                                    *)

\* json.Unmarshal decodes into the one variable n of main: a body without
\* Records leaves the previous message's Records where they are.
Unmarshal(m, old) == IF Kind[m] = "records" THEN FilesOf[m] ELSE old

\* Process gives up on the body without an error, so it will be deleted.
NotRedelivered(m, records) == Kind[m] = "notjson" \/ records = <<>>

Receive(c, m) ==
    /\ ~Busy(c)
    /\ Available(m)
    /\ queue' = [queue EXCEPT ![m] = "hidden"]
    /\ receives' = [receives EXCEPT ![m] = @ + 1]
    /\ holder' = [holder EXCEPT ![m] = c]
    /\ msg' = [msg EXCEPT ![c] = m]
    /\ n' = [n EXCEPT ![c] = Unmarshal(m, @)]
    /\ pc' = [pc EXCEPT ![c] = IF NotRedelivered(m, n'[c]) THEN "delete"
                               ELSE "begin"]
    /\ UNCHANGED <<db, work, leaked, faults>>

\* No messages, or an error from SQS: the loop goes round again.
ReceiveNothing(c) ==
    /\ ~Busy(c)
    /\ \A m \in Messages : ~Available(m)
    /\ UNCHANGED vars

Connections ==
    Cardinality({c \in Consumers : pc[c] = "tx"}) +
    FoldFunction(LAMBDA x, y : x + y, 0, leaked)

\* Back to the top of the loop.
LoopAgain(c) ==
    /\ pc' = [pc EXCEPT ![c] = "receive"]
    /\ msg' = [msg EXCEPT ![c] = None]

Begin(c) ==
    /\ pc[c] = "begin"
    /\ Connections < MaxConns
    /\ pc' = [pc EXCEPT ![c] = "tx"]
    /\ todo' = [todo EXCEPT ![c] = n[c]]
    /\ UNCHANGED <<sqs, db, msg, n, file, rows, tx, leaked, faults>>

BeginFails(c) ==
    /\ pc[c] = "begin"
    /\ IF Connections < MaxConns THEN Fault ELSE NoFault
    /\ LoopAgain(c)
    /\ UNCHANGED <<sqs, db, n, work, leaked>>

\* The statement cannot be prepared.  The transaction is neither committed
\* nor rolled back: its connection never returns to the pool.
PrepareFails(c) ==
    /\ pc[c] = "begin"
    /\ Connections < MaxConns
    /\ Fault
    /\ leaked' = [leaked EXCEPT ![c] = @ + 1]
    /\ LoopAgain(c)
    /\ UNCHANGED <<sqs, db, n, work>>

\* The transaction and the local variables of Process are gone.
Discard(c) ==
    /\ todo' = [todo EXCEPT ![c] = <<>>]
    /\ file' = [file EXCEPT ![c] = NoFile]
    /\ rows' = [rows EXCEPT ![c] = <<>>]
    /\ tx' = [tx EXCEPT ![c] = NoRows]

\* Mutant: the error path forgets to roll back.
RollbackForgotten(c) == LoopAgain(c) /\ UNCHANGED work

Rollback(c) == Discard(c) /\ LoopAgain(c)

GetFile(c) ==
    /\ pc[c] = "tx" /\ rows[c] = <<>> /\ todo[c] # <<>>
    /\ file' = [file EXCEPT ![c] = Head(todo[c])]
    /\ rows' = [rows EXCEPT ![c] = Content[Head(todo[c])]]
    /\ todo' = [todo EXCEPT ![c] = Tail(@)]
    /\ UNCHANGED <<sqs, db, pc, msg, n, tx, leaked, faults>>

\* Mutant: a file that cannot be read is left out.
GetFileFailsSkip(c) ==
    /\ pc[c] = "tx" /\ rows[c] = <<>> /\ todo[c] # <<>>
    /\ Fault
    /\ todo' = [todo EXCEPT ![c] = Tail(@)]
    /\ UNCHANGED <<sqs, db, pc, msg, n, file, rows, tx, leaked>>

GetFileFails(c) ==
    /\ pc[c] = "tx" /\ rows[c] = <<>> /\ todo[c] # <<>>
    /\ Fault
    /\ Rollback(c)
    /\ UNCHANGED <<sqs, db, n, leaked>>

Inserting(c) == pc[c] = "tx" /\ rows[c] # <<>>

\* Consumer c must insert a primary key that d's open transaction has
\* inserted: the unique index makes c wait for d's commit or rollback.
WaitsFor(c, d) ==
    /\ c # d
    /\ Inserting(c)
    /\ Head(rows[c]) \in PKs
    /\ pc[d] = "tx"
    /\ tx[d][Head(rows[c])] # NoFile

Blocked(c) == \E d \in Consumers : WaitsFor(c, d)

\* Postgres ends a cycle of waiting transactions by failing one of them.
Deadlocked(c) ==
    \E S \in SUBSET Consumers :
        /\ c \in S
        /\ \A d \in S : /\ \E e \in S : WaitsFor(d, e)
                        /\ \E e \in S : WaitsFor(e, d)

\* Mutant: the insert overwrites what the table has.
RejectedUpsert(c) == Head(rows[c]) \notin {k \in PKs : tx[c][k] = NoFile}

\* The line cannot be parsed, or its primary key is taken.
Rejected(c) ==
    Head(rows[c]) \notin {k \in PKs : db[k] = NoFile /\ tx[c][k] = NoFile}

InsertRow(c) ==
    /\ Inserting(c) /\ ~Blocked(c) /\ ~Rejected(c)
    /\ tx' = [tx EXCEPT ![c][Head(rows[c])] = file[c]]
    /\ rows' = [rows EXCEPT ![c] = Tail(@)]
    /\ UNCHANGED <<sqs, db, pc, msg, n, todo, file, leaked, faults>>

\* Mutant: the message is deleted although Process failed.
InsertFailsDelete(c) ==
    /\ Inserting(c) /\ ~Blocked(c) /\ Rejected(c)
    /\ Discard(c)
    /\ pc' = [pc EXCEPT ![c] = "delete"]
    /\ UNCHANGED <<sqs, db, msg, n, leaked, faults>>

\* Mutant: a refused row is skipped and the rest of the file inserted.
InsertFailsSkip(c) ==
    /\ Inserting(c) /\ ~Blocked(c) /\ Rejected(c)
    /\ rows' = [rows EXCEPT ![c] = Tail(@)]
    /\ UNCHANGED <<sqs, db, pc, msg, n, todo, file, tx, leaked, faults>>

\* Mutant: a failed notification is tried again at once.
InsertFailsRetry(c) ==
    /\ Inserting(c) /\ ~Blocked(c) /\ Rejected(c)
    /\ Discard(c)
    /\ pc' = [pc EXCEPT ![c] = "begin"]
    /\ UNCHANGED <<sqs, db, msg, n, leaked, faults>>

InsertFails(c) ==
    /\ Inserting(c)
    /\ IF Deadlocked(c) \/ (~Blocked(c) /\ Rejected(c)) THEN NoFault ELSE Fault
    /\ Rollback(c)
    /\ UNCHANGED <<sqs, db, n, leaked>>

\* Mutant: the last file of a notification is left out.
AllButLastInserted(c) == pc[c] = "tx" /\ rows[c] = <<>> /\ Len(todo[c]) <= 1

AllInserted(c) == pc[c] = "tx" /\ rows[c] = <<>> /\ todo[c] = <<>>

CommittedRows(c) == [k \in PKs |-> IF tx[c][k] # NoFile THEN tx[c][k] ELSE db[k]]

Commit(c) ==
    /\ AllInserted(c)
    /\ db' = CommittedRows(c)
    /\ Discard(c)
    /\ pc' = [pc EXCEPT ![c] = "delete"]
    /\ UNCHANGED <<sqs, msg, n, leaked, faults>>

\* Mutant: the error of Commit is not returned.
CommitFailsDelete(c) ==
    /\ AllInserted(c)
    /\ Fault
    /\ Discard(c)
    /\ pc' = [pc EXCEPT ![c] = "delete"]
    /\ UNCHANGED <<sqs, db, msg, n, leaked>>

CommitFails(c) ==
    /\ AllInserted(c)
    /\ Fault
    /\ Rollback(c)
    /\ UNCHANGED <<sqs, db, n, leaked>>

\* The database committed but the client only saw the connection break.
CommitAnswerLost(c) ==
    /\ AllInserted(c)
    /\ Fault
    /\ db' = CommittedRows(c)
    /\ Discard(c)
    /\ LoopAgain(c)
    /\ UNCHANGED <<sqs, n, leaked>>

\* An old receipt handle (the message was received again since) may or may
\* not delete the message.
Delete(c) ==
    /\ pc[c] = "delete"
    /\ LoopAgain(c)
    /\ \/ /\ queue[msg[c]] # "dead"
          /\ queue' = [queue EXCEPT ![msg[c]] = "deleted"]
       \/ /\ holder[msg[c]] # c \/ queue[msg[c]] = "dead"
          /\ UNCHANGED queue
    /\ UNCHANGED <<receives, holder, db, n, work, leaked, faults>>

\* Logged; the loop goes on and the message will come back.
DeleteFails(c) ==
    /\ pc[c] = "delete"
    /\ Fault
    /\ LoopAgain(c)
    /\ UNCHANGED <<sqs, db, n, work, leaked>>

\* The process is killed (health check, deployment) and started again.
Crash(c) ==
    /\ Busy(c) \/ n[c] # <<>> \/ leaked[c] # 0
    /\ Fault
    /\ Rollback(c)
    /\ n' = [n EXCEPT ![c] = <<>>]
    /\ leaked' = [leaked EXCEPT ![c] = 0]
    /\ UNCHANGED <<sqs, db>>

-----------------------------------------------------------------------------
\* What the consumer's own loop does, one step at a time.
Step(c) ==
    \/ \E m \in Messages : Receive(c, m)
    \/ ReceiveNothing(c)
    \/ Begin(c) \/ BeginFails(c) \/ PrepareFails(c)
    \/ GetFile(c) \/ GetFileFails(c)
    \/ InsertRow(c) \/ InsertFails(c)
    \/ Commit(c) \/ CommitFails(c) \/ CommitAnswerLost(c)
    \/ Delete(c) \/ DeleteFails(c)

Queue(m) == VisibilityExpires(m) \/ DeadLetter(m)

Next ==
    \/ \E c \in Consumers : Step(c) \/ Crash(c)
    \/ \E m \in Messages : Queue(m) \/ ReceiveLost(m)

\* A running process goes on with its loop; SQS makes hidden messages visible
\* again and moves exhausted ones to the dead letter queue.
Fairness ==
    /\ \A c \in Consumers : WF_vars(Step(c))
    /\ \A m \in Messages : WF_vars(Queue(m))

Spec == Init /\ [][Next]_vars
FairSpec == Spec /\ Fairness

-----------------------------------------------------------------------------
(* Properties.                                                             *)

\* Every variable keeps its type; a consumer outside Process has no open
\* transaction of its own.
TypeOK ==
    /\ queue \in [Messages -> {"visible", "hidden", "deleted", "dead"}]
    /\ receives \in [Messages -> Nat]
    /\ holder \in [Messages -> Consumers \cup {None}]
    /\ db \in [PKs -> Files \cup {NoFile}]
    /\ pc \in [Consumers -> {"receive", "begin", "tx", "delete"}]
    /\ msg \in [Consumers -> Messages \cup {None}]
    /\ n \in [Consumers -> Seq(Files)]
    /\ todo \in [Consumers -> Seq(Files)]
    /\ file \in [Consumers -> Files \cup {NoFile}]
    /\ rows \in [Consumers -> Seq(PKs \cup {BadLine})]
    /\ tx \in [Consumers -> [PKs -> Files \cup {NoFile}]]
    /\ leaked \in [Consumers -> Nat]
    /\ faults \in Nat
    /\ \A c \in Consumers : pc[c] # "tx" => tx[c] = NoRows

\* Every line of file f is a row of the table that holds f's value.
Stored(f) == \A i \in DOMAIN Content[f] : Content[f][i] \in PKs /\ db[Content[f][i]] = f

\* A notification that left the queue by a Delete had no files to read, or
\* all rows of all its files are committed: main deletes only after Process
\* returned nil, whatever crashed, was redelivered or ran twice meanwhile.
DeletedMeansStored ==
    \A m \in Messages :
        queue[m] = "deleted" /\ Kind[m] = "records" =>
            \A f \in ToSet(FilesOf[m]) : Stored(f)

\* A notification's rows appear together or not at all: a row in the table
\* comes from a notification all of whose files are stored completely, since
\* Process inserts them in one transaction and rolls back on any error.
AtomicNotification ==
    \A k \in PKs : db[k] # NoFile =>
        \E m \in Messages :
            /\ Kind[m] = "records"
            /\ db[k] \in ToSet(FilesOf[m])
            /\ \A f \in ToSet(FilesOf[m]) : Stored(f)

\* The ingest never rewrites a committed row: a second file with the same
\* primary key is refused, the value first stored stays (sqlInsert has no
\* ON CONFLICT clause).
CommittedRowsKept ==
    [][\A k \in PKs : db[k] # NoFile => db'[k] = db[k]]_vars

\* The committed rows, each with the file it was read from.
TableRows == {e \in PKs \X Files : db[e[1]] = e[2]}

\* The lines of the files that a notification lists.
RowsOf(m) ==
    {e \in (PKs \cup {BadLine}) \X Files :
        /\ Kind[m] = "records"
        /\ e[2] \in ToSet(FilesOf[m]) /\ e[1] \in ToSet(Content[e[2]])}

Store == INSTANCE DapperStore WITH
            Batches <- Messages,
            EntriesOf <- [m \in Messages |-> RowsOf(m)],
            stored <- TableRows

\* The table is the store that the archiver preserves: it changes only when
\* all rows of a notification, and nothing else, are added in one step, by
\* whatever processes work on the queue and whatever fails.
StoreSpec == Store!Spec

\* Every message leaves the queue in the end, deleted or dead-lettered: no
\* message circulates for ever and no transaction blocks the others for ever.
EveryMessageSettled ==
    \A m \in Messages : <>(queue[m] \in {"deleted", "dead"})

\* A file nothing is wrong with: its lines are good and are in no other file.
Clean(f) ==
    /\ \A i, j \in DOMAIN Content[f] :
        /\ Content[f][i] \in PKs
        /\ i # j => Content[f][i] # Content[f][j]
    /\ \A g \in Files \ {f} : ToSet(Content[f]) \cap ToSet(Content[g]) = {}

CleanMessage(m) ==
    /\ Kind[m] = "records"
    /\ \A f \in ToSet(FilesOf[m]) : Clean(f)
    /\ \A i, j \in DOMAIN FilesOf[m] : i # j => FilesOf[m][i] # FilesOf[m][j]
    /\ \A o \in Messages :
        Kind[o] = "records" /\ ToSet(FilesOf[o]) \cap ToSet(FilesOf[m]) # {} =>
            FilesOf[o] = FilesOf[m]

\* At-least-once delivery does its work: with fewer faults than receives
\* before the dead letter queue, every file of a clean notification is stored
\* in the end, through crashes, lost answers and redeliveries.
CleanFilesStored ==
    \A m \in Messages : CleanMessage(m) => \A f \in ToSet(FilesOf[m]) : <>Stored(f)
=============================================================================
