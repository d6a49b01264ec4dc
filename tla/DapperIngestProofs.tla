------------------------- MODULE DapperIngestProofs -------------------------
(***************************************************************************)
(* Proofs about DapperIngest: type correctness, and that what is deleted   *)
(* from the queue, and what a notification puts into the table, is stored  *)
(* completely.  The inductive invariant IInv follows a notification from   *)
(* the queue through the variable n and the transaction to the table.      *)
(***************************************************************************)
EXTENDS DapperIngest, TLAPS

\* A consumer at work has a message, and n holds that message's Records.
MessageHeld ==
    \A c \in Consumers : Busy(c) =>
        /\ msg[c] \in Messages
        /\ Kind[msg[c]] = "records" => n[c] = FilesOf[msg[c]]

\* n never holds anything but the Records of some message, whole.
NFromMessage ==
    \A c \in Consumers :
        \/ n[c] = <<>>
        \/ \E m \in Messages : Kind[m] = "records" /\ n[c] = FilesOf[m]

\* What a transaction has inserted comes from the notification's files, is
\* new to the table, and is in no other transaction.
TxOwn ==
    \A c \in Consumers :
        /\ ToSet(todo[c]) \subseteq ToSet(n[c]) \/ pc[c] # "tx"
        /\ rows[c] # <<>> => pc[c] = "tx" /\ file[c] \in ToSet(n[c])
        /\ \A k \in PKs : tx[c][k] # NoFile =>
            /\ db[k] = NoFile
            /\ tx[c][k] \in ToSet(n[c])
            /\ \A d \in Consumers : tx[d][k] # NoFile => d = c

\* Line l of file f is inserted, or still to be inserted.
LineDone(c, f, l) == l \in PKs /\ tx[c][l] = f
LineToDo(c, f, l) == f = file[c] /\ l \in ToSet(rows[c])

\* Every file of the notification is to be read, or its lines are inserted
\* except for those the loop has not come to.
TxProgress ==
    \A c \in Consumers : pc[c] = "tx" =>
        \A f \in ToSet(n[c]) : f \in ToSet(todo[c]) \/
            \A i \in DOMAIN Content[f] :
                LineDone(c, f, Content[f][i]) \/ LineToDo(c, f, Content[f][i])

\* A message about to be deleted has all its files stored.
DeleteStored ==
    \A c \in Consumers : pc[c] = "delete" /\ Kind[msg[c]] = "records" =>
        \A f \in ToSet(n[c]) : Stored(f)

IInv ==
    /\ TypeOK
    /\ MessageHeld
    /\ NFromMessage
    /\ TxOwn
    /\ TxProgress
    /\ DeleteStored
    /\ DeletedMeansStored
    /\ AtomicNotification

(***************************************************************************)
(* Sequences as sets.                                                      *)
(***************************************************************************)

\* The head of a sequence, and what its tail leaves of its elements.
LEMMA HeadTail ==
    ASSUME NEW S, NEW s \in Seq(S), s # <<>>
    PROVE  /\ Head(s) \in S
           /\ Tail(s) \in Seq(S)
           /\ Head(s) \in ToSet(s)
           /\ ToSet(Tail(s)) \subseteq ToSet(s)
           /\ \A x \in ToSet(s) : x = Head(s) \/ x \in ToSet(Tail(s))
<1>1. Len(s) \in Nat /\ Len(s) # 0 /\ DOMAIN s = 1..Len(s)
    OBVIOUS
<1>2. Head(s) = s[1] /\ Head(s) \in S /\ Tail(s) \in Seq(S)
    OBVIOUS
<1>3. /\ Len(Tail(s)) = Len(s) - 1
      /\ DOMAIN Tail(s) = 1..(Len(s) - 1)
      /\ \A i \in 1..(Len(s) - 1) : Tail(s)[i] = s[i + 1]
    OBVIOUS
<1>4. Head(s) \in ToSet(s)
    BY <1>1, <1>2 DEF ToSet
<1>5. ToSet(Tail(s)) \subseteq ToSet(s)
    BY <1>1, <1>3 DEF ToSet
<1>6. ASSUME NEW i \in 1..Len(s), i # 1 PROVE s[i] \in ToSet(Tail(s))
    <2>1. i - 1 \in 1..(Len(s) - 1) /\ (i - 1) + 1 = i
        BY <1>1, <1>6
    <2>2. Tail(s)[i - 1] = s[i]
        BY <1>3, <2>1
    <2> QED BY <1>3, <2>1, <2>2 DEF ToSet
<1>7. \A x \in ToSet(s) : x = Head(s) \/ x \in ToSet(Tail(s))
    BY <1>1, <1>2, <1>6 DEF ToSet
<1> QED BY <1>2, <1>4, <1>5, <1>7

\* Nothing is in the empty sequence; the elements of a sequence have its type.
LEMMA ToSetType ==
    /\ ToSet(<<>>) = {}
    /\ \A S : \A s \in Seq(S) : ToSet(s) \subseteq S
BY DEF ToSet

(***************************************************************************)
(* Type correctness.                                                       *)
(***************************************************************************)

\* The type invariant holds initially.
LEMMA InitTypeOK == Init => TypeOK
BY BoundAssumption, ContentAssumption DEF Init, TypeOK, NoRows

\* Clearing a consumer's local variables keeps their types.
LEMMA DiscardType ==
    ASSUME TypeOK, NEW c \in Consumers, Discard(c)
    PROVE  /\ todo' \in [Consumers -> Seq(Files)]
           /\ file' \in [Consumers -> Files \cup {NoFile}]
           /\ rows' \in [Consumers -> Seq(PKs \cup {BadLine})]
           /\ tx' \in [Consumers -> [PKs -> Files \cup {NoFile}]]
BY DEF TypeOK, Discard, NoRows

\* Giving up a transaction keeps the types.
LEMMA RollbackType ==
    ASSUME TypeOK, NEW c \in Consumers, Rollback(c)
    PROVE  /\ pc' \in [Consumers -> {"receive", "begin", "tx", "delete"}]
           /\ msg' \in [Consumers -> Messages \cup {None}]
           /\ todo' \in [Consumers -> Seq(Files)]
           /\ file' \in [Consumers -> Files \cup {NoFile}]
           /\ rows' \in [Consumers -> Seq(PKs \cup {BadLine})]
           /\ tx' \in [Consumers -> [PKs -> Files \cup {NoFile}]]
           /\ \A d \in Consumers : pc'[d] # "tx" => tx'[d] = NoRows
BY DEF TypeOK, Rollback, Discard, LoopAgain, NoRows
\* Every action keeps the types.
LEMMA NextTypeOK == TypeOK /\ [Next]_vars => TypeOK'
<1> SUFFICES ASSUME TypeOK, [Next]_vars PROVE TypeOK'
    OBVIOUS
<1> USE DEF Fault, NoFault, sqs, work
<1>1. ASSUME NEW m \in Messages, VisibilityExpires(m) PROVE TypeOK'
    BY <1>1 DEF VisibilityExpires, TypeOK
<1>2. ASSUME NEW m \in Messages, DeadLetter(m) PROVE TypeOK'
    BY <1>2 DEF DeadLetter, TypeOK
<1>3. ASSUME NEW m \in Messages, ReceiveLost(m) PROVE TypeOK'
    BY <1>3 DEF ReceiveLost, TypeOK
<1> DEFINE Pcs == {"receive", "begin", "tx", "delete"}
<1>4. ASSUME NEW c \in Consumers, NEW m \in Messages, Receive(c, m) PROVE TypeOK'
    <2>1. Unmarshal(m, n[c]) \in Seq(Files)
        BY BodyAssumption DEF Unmarshal, TypeOK
    <2>2. /\ queue' \in [Messages -> {"visible", "hidden", "deleted", "dead"}]
          /\ receives' \in [Messages -> Nat]
          /\ holder' \in [Messages -> Consumers \cup {None}]
          /\ msg' \in [Consumers -> Messages \cup {None}]
          /\ n' \in [Consumers -> Seq(Files)]
        BY <1>4, <2>1 DEF Receive, TypeOK
    <2>3. pc' \in [Consumers -> Pcs]
        BY <1>4 DEF Receive, TypeOK
    <2>4. \A d \in Consumers : pc'[d] # "tx" => tx'[d] = NoRows
        BY <1>4 DEF Receive, TypeOK, Busy
    <2> QED BY <1>4, <2>2, <2>3, <2>4 DEF Receive, TypeOK
<1>5. ASSUME NEW c \in Consumers, Begin(c) PROVE TypeOK'
    BY <1>5 DEF Begin, TypeOK
<1>6. ASSUME NEW c \in Consumers, BeginFails(c) PROVE TypeOK'
    BY <1>6 DEF BeginFails, LoopAgain, TypeOK
<1>7. ASSUME NEW c \in Consumers, PrepareFails(c) PROVE TypeOK'
    BY <1>7 DEF PrepareFails, LoopAgain, TypeOK
<1>8. ASSUME NEW c \in Consumers, GetFile(c) PROVE TypeOK'
    <2>1. Head(todo[c]) \in Files /\ Tail(todo[c]) \in Seq(Files)
        BY <1>8, HeadTail DEF GetFile, TypeOK
    <2>2. Content[Head(todo[c])] \in Seq(PKs \cup {BadLine})
        BY <2>1, ContentAssumption
    <2> QED BY <1>8, <2>1, <2>2 DEF GetFile, TypeOK
<1>9. ASSUME NEW c \in Consumers, GetFileFails(c) PROVE TypeOK'
    <2>1. faults' \in Nat /\ Rollback(c)
        BY <1>9 DEF GetFileFails, TypeOK
    <2> QED BY <1>9, <2>1, RollbackType DEF GetFileFails, TypeOK
<1>10. ASSUME NEW c \in Consumers, InsertRow(c) PROVE TypeOK'
    <2>1. Head(rows[c]) \in PKs
        BY <1>10 DEF InsertRow, Rejected
    <2>2. Tail(rows[c]) \in Seq(PKs \cup {BadLine})
        BY <1>10, HeadTail DEF InsertRow, Inserting, TypeOK
    <2>3. tx' \in [Consumers -> [PKs -> Files \cup {NoFile}]]
        BY <1>10, <2>1 DEF InsertRow, TypeOK
    <2>4. rows' \in [Consumers -> Seq(PKs \cup {BadLine})]
        BY <1>10, <2>2 DEF InsertRow, TypeOK
    <2>5. \A d \in Consumers : pc'[d] # "tx" => tx'[d] = NoRows
        BY <1>10 DEF InsertRow, Inserting, TypeOK
    <2> QED BY <1>10, <2>3, <2>4, <2>5 DEF InsertRow, TypeOK
<1>11. ASSUME NEW c \in Consumers, InsertFails(c) PROVE TypeOK'
    <2>1. faults' \in Nat
        BY <1>11 DEF InsertFails, TypeOK
    <2> QED BY <1>11, <2>1, RollbackType DEF InsertFails, TypeOK
<1>12. ASSUME NEW c \in Consumers, Commit(c) \/ CommitAnswerLost(c) PROVE TypeOK'
    <2>1. CommittedRows(c) \in [PKs -> Files \cup {NoFile}]
        BY DEF CommittedRows, TypeOK
    <2>2. /\ todo' \in [Consumers -> Seq(Files)]
          /\ file' \in [Consumers -> Files \cup {NoFile}]
          /\ rows' \in [Consumers -> Seq(PKs \cup {BadLine})]
          /\ tx' \in [Consumers -> [PKs -> Files \cup {NoFile}]]
        BY <1>12, DiscardType DEF Commit, CommitAnswerLost
    <2>3. /\ pc' \in [Consumers -> Pcs]
          /\ msg' \in [Consumers -> Messages \cup {None}]
        BY <1>12 DEF Commit, CommitAnswerLost, LoopAgain, TypeOK
    <2>4. \A d \in Consumers : pc'[d] # "tx" => tx'[d] = NoRows
        BY <1>12 DEF Commit, CommitAnswerLost, Discard, LoopAgain, TypeOK
    <2>5. /\ db' \in [PKs -> Files \cup {NoFile}]
          /\ faults' \in Nat
          /\ UNCHANGED <<queue, receives, holder, n, leaked>>
        BY <1>12, <2>1 DEF Commit, CommitAnswerLost, TypeOK
    <2> QED BY <2>2, <2>3, <2>4, <2>5 DEF TypeOK
<1>13. ASSUME NEW c \in Consumers, CommitFails(c) PROVE TypeOK'
    <2>1. Rollback(c) /\ UNCHANGED <<queue, receives, holder, db, n, leaked>>
        BY <1>13 DEF CommitFails
    <2>2. faults' \in Nat
        BY <1>13 DEF CommitFails, Fault, TypeOK
    <2> QED BY <2>1, <2>2, RollbackType DEF TypeOK
<1>14. ASSUME NEW c \in Consumers, Delete(c) PROVE TypeOK'
    <2>1. queue' \in [Messages -> {"visible", "hidden", "deleted", "dead"}]
        BY <1>14 DEF Delete, TypeOK
    <2>2. /\ pc' \in [Consumers -> {"receive", "begin", "tx", "delete"}]
          /\ msg' \in [Consumers -> Messages \cup {None}]
        BY <1>14 DEF Delete, LoopAgain, TypeOK
    <2>3. \A d \in Consumers : pc'[d] # "tx" => tx'[d] = NoRows
        BY <1>14 DEF Delete, LoopAgain, TypeOK
    <2>4. UNCHANGED <<receives, holder, db, n, todo, file, rows, tx, leaked, faults>>
        BY <1>14 DEF Delete
    <2> QED BY <2>1, <2>2, <2>3, <2>4 DEF TypeOK
<1>15. ASSUME NEW c \in Consumers, DeleteFails(c) PROVE TypeOK'
    BY <1>15 DEF DeleteFails, LoopAgain, TypeOK
<1>16. ASSUME NEW c \in Consumers, Crash(c) PROVE TypeOK'
    <2>1. n' \in [Consumers -> Seq(Files)] /\ leaked' \in [Consumers -> Nat]
        BY <1>16 DEF Crash, TypeOK
    <2>2. Rollback(c) /\ faults' \in Nat /\ UNCHANGED <<queue, receives, holder, db>>
        BY <1>16 DEF Crash, TypeOK
    <2> QED BY <2>1, <2>2, RollbackType DEF TypeOK
<1>17. CASE UNCHANGED vars
    BY <1>17 DEF vars, TypeOK
<1> QED
    BY <1>1, <1>2, <1>3, <1>4, <1>5, <1>6, <1>7, <1>8, <1>9, <1>10, <1>11, <1>12,
       <1>13, <1>14, <1>15, <1>16, <1>17
    DEF Next, Step, Queue, ReceiveNothing

\* The types are right in every state of every behaviour.
THEOREM TypeCorrect == Spec => []TypeOK
BY InitTypeOK, NextTypeOK, PTL DEF Spec
(***************************************************************************)
(* The inductive invariant.                                                *)
(***************************************************************************)

\* A step of consumer c leaves the other consumers alone.
OthersSame(c) ==
    \A d \in Consumers \ {c} :
        /\ pc'[d] = pc[d] /\ msg'[d] = msg[d] /\ n'[d] = n[d]
        /\ todo'[d] = todo[d] /\ file'[d] = file[d]
        /\ rows'[d] = rows[d] /\ tx'[d] = tx[d]

Safe == IInv /\ TypeOK'

\* The invariant holds initially.
LEMMA InitIInv == Init => IInv
<1> SUFFICES ASSUME Init PROVE IInv
    OBVIOUS
<1>1. TypeOK
    BY InitTypeOK
<1>2. MessageHeld /\ NFromMessage /\ TxProgress /\ DeleteStored
    BY DEF Init, MessageHeld, Busy, NFromMessage, TxProgress, DeleteStored
<1>3. TxOwn
    BY DEF Init, TxOwn, NoRows
<1>4. DeletedMeansStored /\ AtomicNotification
    BY DEF Init, DeletedMeansStored, AtomicNotification, NoRows
<1> QED BY <1>1, <1>2, <1>3, <1>4 DEF IInv

\* A file whose lines are in the table is no absent value.
LEMMA FileTypes ==
    ASSUME NEW m \in Messages, NEW f \in ToSet(FilesOf[m])
    PROVE  f \in Files /\ f # NoFile
BY BodyAssumption, ContentAssumption, ToSetType

\* The queue's own steps delete nothing and touch no consumer.
LEMMA QueueStep ==
    ASSUME Safe, UNCHANGED <<db, pc, msg, n, todo, file, rows, tx>>,
           \A m \in Messages : queue'[m] = "deleted" => queue[m] = "deleted"
    PROVE  IInv'
<1>1. MessageHeld' /\ NFromMessage'
    BY DEF Safe, IInv, MessageHeld, NFromMessage, Busy
<1>2. TxOwn'
    BY DEF Safe, IInv, TxOwn
<1>3. TxProgress'
    BY DEF Safe, IInv, TxProgress, LineDone, LineToDo
<1>4. \A f : Stored(f) <=> Stored(f)'
    BY DEF Stored
<1>5. DeleteStored' /\ DeletedMeansStored' /\ AtomicNotification'
    BY <1>4 DEF Safe, IInv, DeleteStored, DeletedMeansStored, AtomicNotification
<1> QED BY <1>1, <1>2, <1>3, <1>5 DEF Safe, IInv

\* A consumer that goes back to receive, its transaction gone, may delete the
\* message it had stored and nothing else.
LEMMA LeaveStep ==
    ASSUME Safe, NEW c \in Consumers, OthersSame(c), db' = db,
           pc'[c] = "receive", tx'[c] = NoRows, rows'[c] = <<>>,
           n'[c] = n[c] \/ n'[c] = <<>>,
           \A m \in Messages : queue'[m] = "deleted" =>
                queue[m] = "deleted" \/ (pc[c] = "delete" /\ m = msg[c])
    PROVE  IInv'
<1>1. MessageHeld' /\ NFromMessage'
    BY DEF Safe, IInv, MessageHeld, NFromMessage, Busy, OthersSame
<1>2. TxOwn'
    <2>1. \A k \in PKs : tx'[c][k] = NoFile
        BY DEF NoRows
    <2>2. ASSUME NEW d \in Consumers \ {c}, NEW k \in PKs, tx'[d][k] # NoFile
          PROVE  /\ db'[k] = NoFile
                 /\ tx'[d][k] \in ToSet(n'[d])
                 /\ \A e \in Consumers : tx'[e][k] # NoFile => e = d
        BY <2>1, <2>2 DEF Safe, IInv, TxOwn, OthersSame
    <2>3. \A d \in Consumers :
            /\ ToSet(todo'[d]) \subseteq ToSet(n'[d]) \/ pc'[d] # "tx"
            /\ rows'[d] # <<>> => pc'[d] = "tx" /\ file'[d] \in ToSet(n'[d])
        BY DEF Safe, IInv, TxOwn, OthersSame
    <2> QED BY <2>1, <2>2, <2>3 DEF TxOwn
<1>3. TxProgress'
    <2> SUFFICES ASSUME NEW d \in Consumers, pc'[d] = "tx", NEW f \in ToSet(n'[d]),
                        f \notin ToSet(todo'[d]), NEW i \in DOMAIN Content[f]
                 PROVE  LineDone(d, f, Content[f][i])' \/ LineToDo(d, f, Content[f][i])'
        BY DEF TxProgress
    <2> QED BY DEF Safe, IInv, TxProgress, LineDone, LineToDo, OthersSame
<1>4. \A f : Stored(f) <=> Stored(f)'
    BY DEF Stored
<1>5. DeleteStored'
    BY <1>4 DEF Safe, IInv, DeleteStored, OthersSame
<1>6. DeletedMeansStored'
    BY <1>4 DEF Safe, IInv, DeletedMeansStored, DeleteStored, MessageHeld, Busy
<1>7. AtomicNotification'
    BY <1>4 DEF Safe, IInv, AtomicNotification
<1> QED BY <1>1, <1>2, <1>3, <1>5, <1>6, <1>7 DEF Safe, IInv

\* A received message: what n holds now is its Records, or old ones whole.
LEMMA ReceiveStep ==
    ASSUME Safe, NEW c \in Consumers, NEW m \in Messages, Receive(c, m)
    PROVE  IInv'
<1>1. /\ pc[c] = "receive"
      /\ pc' = [pc EXCEPT ![c] = pc'[c]]
      /\ msg' = [msg EXCEPT ![c] = m]
      /\ n' = [n EXCEPT ![c] = Unmarshal(m, n[c])]
      /\ UNCHANGED <<db, todo, file, rows, tx>>
    BY DEF Receive, Safe, IInv, TypeOK, work, Busy
<1>2. pc'[c] = IF NotRedelivered(m, n'[c]) THEN "delete" ELSE "begin"
    BY DEF Receive, Safe, IInv, TypeOK
<1>3. OthersSame(c) /\ msg'[c] = m /\ n'[c] = Unmarshal(m, n[c])
    BY <1>1 DEF OthersSame, Safe, IInv, TypeOK
<1>4. \A k \in PKs : tx[c][k] = NoFile
    <2>1. tx[c] = NoRows
        BY <1>1 DEF Safe, IInv, TypeOK
    <2> QED BY <2>1 DEF NoRows
<1>5. MessageHeld'
    BY <1>3 DEF Safe, IInv, MessageHeld, Busy, OthersSame, Unmarshal
<1>6. NFromMessage'
    BY <1>3 DEF Safe, IInv, NFromMessage, OthersSame, Unmarshal
<1>7. TxOwn'
    <2>1. rows[c] = <<>> /\ pc'[c] # "tx"
        BY <1>1, <1>2 DEF Safe, IInv, TxOwn
    <2> QED BY <1>1, <1>3, <1>4, <2>1 DEF Safe, IInv, TxOwn, OthersSame
<1>8. TxProgress'
    <2> SUFFICES ASSUME NEW d \in Consumers, pc'[d] = "tx", NEW f \in ToSet(n'[d]),
                        f \notin ToSet(todo'[d]), NEW i \in DOMAIN Content[f]
                 PROVE  LineDone(d, f, Content[f][i])' \/ LineToDo(d, f, Content[f][i])'
        BY DEF TxProgress
    <2>1. d # c
        BY <1>2
    <2> QED BY <1>3, <2>1 DEF Safe, IInv, TxProgress, LineDone, LineToDo, OthersSame
<1>9. \A f : Stored(f) <=> Stored(f)'
    BY <1>1 DEF Stored
<1>10. DeleteStored'
    <2>1. pc'[c] = "delete" /\ Kind[m] = "records" => n'[c] = <<>>
        BY <1>2 DEF NotRedelivered
    <2> QED BY <1>3, <1>9, <2>1, ToSetType DEF Safe, IInv, DeleteStored, OthersSame
<1>11. DeletedMeansStored'
    <2>1. \A o \in Messages : queue'[o] = "deleted" => queue[o] = "deleted"
        BY DEF Receive, Safe, IInv, TypeOK
    <2> QED BY <1>9, <2>1 DEF Safe, IInv, DeletedMeansStored
<1>12. AtomicNotification'
    BY <1>1, <1>9 DEF Safe, IInv, AtomicNotification
<1> QED BY <1>5, <1>6, <1>7, <1>8, <1>10, <1>11, <1>12 DEF Safe, IInv
\* A transaction begins with all the files to read.
LEMMA BeginStep ==
    ASSUME Safe, NEW c \in Consumers, Begin(c)
    PROVE  IInv'
<1>1. /\ pc[c] = "begin" /\ pc'[c] = "tx"
      /\ todo'[c] = n[c]
      /\ UNCHANGED <<queue, db, msg, n, file, rows, tx>>
      /\ OthersSame(c)
    BY DEF Begin, Safe, IInv, TypeOK, sqs, OthersSame
<1>2. MessageHeld' /\ NFromMessage'
    BY <1>1 DEF Safe, IInv, MessageHeld, NFromMessage, Busy, OthersSame
<1>3. TxOwn'
    <2>1. rows[c] = <<>>
        BY <1>1 DEF Safe, IInv, TxOwn
    <2> QED BY <1>1, <2>1 DEF Safe, IInv, TxOwn, OthersSame
<1>4. TxProgress'
    <2> SUFFICES ASSUME NEW d \in Consumers, pc'[d] = "tx", NEW f \in ToSet(n'[d]),
                        f \notin ToSet(todo'[d]), NEW i \in DOMAIN Content[f]
                 PROVE  LineDone(d, f, Content[f][i])' \/ LineToDo(d, f, Content[f][i])'
        BY DEF TxProgress
    <2>1. d # c
        BY <1>1
    <2> QED BY <1>1, <2>1 DEF Safe, IInv, TxProgress, LineDone, LineToDo, OthersSame
<1>5. \A f : Stored(f) <=> Stored(f)'
    BY <1>1 DEF Stored
<1>6. DeleteStored' /\ DeletedMeansStored' /\ AtomicNotification'
    BY <1>1, <1>5 DEF Safe, IInv, DeleteStored, DeletedMeansStored, AtomicNotification,
                      OthersSame
<1> QED BY <1>2, <1>3, <1>4, <1>6 DEF Safe, IInv

\* The next file is opened when all lines of the one before are inserted.
LEMMA GetFileStep ==
    ASSUME Safe, NEW c \in Consumers, GetFile(c)
    PROVE  IInv'
<1>1. /\ pc[c] = "tx" /\ rows[c] = <<>> /\ todo[c] # <<>>
      /\ file'[c] = Head(todo[c])
      /\ rows'[c] = Content[Head(todo[c])]
      /\ todo'[c] = Tail(todo[c])
      /\ UNCHANGED <<queue, db, pc, msg, n, tx>>
      /\ OthersSame(c)
    BY DEF GetFile, Safe, IInv, TypeOK, sqs, OthersSame
<1>2. todo[c] \in Seq(Files)
    BY DEF Safe, IInv, TypeOK
<1>3. /\ Head(todo[c]) \in ToSet(todo[c])
      /\ ToSet(Tail(todo[c])) \subseteq ToSet(todo[c])
      /\ \A x \in ToSet(todo[c]) : x = Head(todo[c]) \/ x \in ToSet(Tail(todo[c]))
    BY <1>1, <1>2, HeadTail
<1>4. MessageHeld' /\ NFromMessage'
    BY <1>1 DEF Safe, IInv, MessageHeld, NFromMessage, Busy, OthersSame
<1>5. TxOwn'
    <2>1. /\ ToSet(todo'[c]) \subseteq ToSet(n'[c])
          /\ file'[c] \in ToSet(n'[c])
        BY <1>1, <1>3 DEF Safe, IInv, TxOwn
    <2> QED BY <1>1, <2>1 DEF Safe, IInv, TxOwn, OthersSame
<1>6. TxProgress'
    <2> SUFFICES ASSUME NEW d \in Consumers, pc'[d] = "tx", NEW f \in ToSet(n'[d]),
                        f \notin ToSet(todo'[d]), NEW i \in DOMAIN Content[f]
                 PROVE  LineDone(d, f, Content[f][i])' \/ LineToDo(d, f, Content[f][i])'
        BY DEF TxProgress
    <2>1. CASE d # c
        BY <1>1, <2>1 DEF Safe, IInv, TxProgress, LineDone, LineToDo, OthersSame
    <2>2. CASE d = c /\ f = Head(todo[c])
        <3>1. Content[f][i] \in ToSet(rows'[c])
            BY <1>1, <2>2 DEF ToSet
        <3> QED BY <1>1, <2>2, <3>1 DEF LineToDo
    <2>3. CASE d = c /\ f # Head(todo[c])
        <3>1. f \notin ToSet(todo[c])
            BY <1>1, <1>3, <2>3
        <3>2. LineDone(c, f, Content[f][i])
            BY <1>1, <2>3, <3>1, ToSetType DEF Safe, IInv, TxProgress, LineToDo
        <3> QED BY <1>1, <2>3, <3>2 DEF LineDone
    <2> QED BY <2>1, <2>2, <2>3
<1>7. \A f : Stored(f) <=> Stored(f)'
    BY <1>1 DEF Stored
<1>8. DeleteStored' /\ DeletedMeansStored' /\ AtomicNotification'
    BY <1>1, <1>7 DEF Safe, IInv, DeleteStored, DeletedMeansStored, AtomicNotification
<1> QED BY <1>4, <1>5, <1>6, <1>8 DEF Safe, IInv

\* An inserted row was in no transaction and not in the table.
LEMMA InsertStep ==
    ASSUME Safe, NEW c \in Consumers, InsertRow(c)
    PROVE  IInv'
<1> DEFINE k == Head(rows[c])
<1>1. /\ pc[c] = "tx" /\ rows[c] # <<>>
      /\ k \in PKs /\ db[k] = NoFile /\ tx[c][k] = NoFile
      /\ rows'[c] = Tail(rows[c])
      /\ tx'[c] = [tx[c] EXCEPT ![k] = file[c]]
      /\ UNCHANGED <<queue, db, pc, msg, n, todo, file>>
      /\ OthersSame(c)
    BY DEF InsertRow, Inserting, Rejected, Safe, IInv, TypeOK, sqs, OthersSame
<1>2. \A d \in Consumers : tx[d][k] = NoFile
    <2> SUFFICES ASSUME NEW d \in Consumers, d # c PROVE tx[d][k] = NoFile
        BY <1>1
    <2>1. CASE pc[d] = "tx"
        BY <1>1, <2>1 DEF InsertRow, Blocked, WaitsFor
    <2>2. CASE pc[d] # "tx"
        <3>1. tx[d] = NoRows
            BY <2>2 DEF Safe, IInv, TypeOK
        <3> QED BY <1>1, <3>1 DEF NoRows
    <2> QED BY <2>1, <2>2
<1>3. \A q \in PKs : tx'[c][q] = IF q = k THEN file[c] ELSE tx[c][q]
    <2>1. tx[c] \in [PKs -> Files \cup {NoFile}]
        BY DEF Safe, IInv, TypeOK
    <2> QED BY <1>1, <2>1
<1>4. /\ ToSet(rows'[c]) \subseteq ToSet(rows[c])
      /\ \A x \in ToSet(rows[c]) : x = k \/ x \in ToSet(rows'[c])
    <2>1. rows[c] \in Seq(PKs \cup {BadLine})
        BY DEF Safe, IInv, TypeOK
    <2> QED BY <1>1, <2>1, HeadTail
<1>5. MessageHeld' /\ NFromMessage'
    BY <1>1 DEF Safe, IInv, MessageHeld, NFromMessage, Busy
<1>6. TxOwn'
    <2>1. file[c] \in ToSet(n[c])
        BY <1>1 DEF Safe, IInv, TxOwn
    <2>2. ASSUME NEW d \in Consumers, NEW q \in PKs, tx'[d][q] # NoFile
          PROVE  /\ db'[q] = NoFile
                 /\ tx'[d][q] \in ToSet(n'[d])
                 /\ \A e \in Consumers : tx'[e][q] # NoFile => e = d
        <3>1. CASE q = k
            <4>1. d = c
                BY <1>1, <1>2, <2>2, <3>1 DEF OthersSame
            <4>2. \A e \in Consumers : tx'[e][q] # NoFile => e = c
                BY <1>2, <3>1, <1>1 DEF OthersSame
            <4> QED BY <1>1, <1>3, <2>1, <3>1, <4>1, <4>2
        <3>2. CASE q # k
            <4>1. \A e \in Consumers : tx'[e][q] = tx[e][q]
                <5>1. tx'[c][q] = tx[c][q]
                    BY <1>3, <3>2
                <5>2. \A e \in Consumers : e # c => tx'[e] = tx[e]
                    BY <1>1 DEF OthersSame
                <5> QED BY <5>1, <5>2
            <4> QED BY <1>1, <2>2, <4>1 DEF Safe, IInv, TxOwn
        <3> QED BY <3>1, <3>2
    <2>3. \A d \in Consumers :
            /\ ToSet(todo'[d]) \subseteq ToSet(n'[d]) \/ pc'[d] # "tx"
            /\ rows'[d] # <<>> => pc'[d] = "tx" /\ file'[d] \in ToSet(n'[d])
        BY <1>1, <2>1 DEF Safe, IInv, TxOwn, OthersSame
    <2> QED BY <2>2, <2>3 DEF TxOwn
<1>7. TxProgress'
    <2> SUFFICES ASSUME NEW d \in Consumers, pc'[d] = "tx", NEW f \in ToSet(n'[d]),
                        f \notin ToSet(todo'[d]), NEW i \in DOMAIN Content[f]
                 PROVE  LineDone(d, f, Content[f][i])' \/ LineToDo(d, f, Content[f][i])'
        BY DEF TxProgress
    <2>1. LineDone(d, f, Content[f][i]) \/ LineToDo(d, f, Content[f][i])
        BY <1>1 DEF Safe, IInv, TxProgress
    <2>2. CASE d # c
        BY <1>1, <2>1, <2>2 DEF LineDone, LineToDo, OthersSame
    <2>3. CASE d = c /\ LineDone(c, f, Content[f][i])
        <3>1. f # NoFile
            <4>1. n[c] \in Seq(Files)
                BY DEF Safe, IInv, TypeOK
            <4> QED BY <1>1, <2>3, <4>1, ToSetType, ContentAssumption
        <3> QED BY <1>1, <1>3, <2>3, <3>1 DEF LineDone
    <2>4. CASE d = c /\ LineToDo(c, f, Content[f][i])
        <3>1. CASE Content[f][i] = k
            BY <1>1, <1>3, <2>4, <3>1 DEF LineDone, LineToDo
        <3>2. CASE Content[f][i] # k
            BY <1>1, <1>4, <2>4, <3>2 DEF LineToDo
        <3> QED BY <3>1, <3>2
    <2> QED BY <2>1, <2>2, <2>3, <2>4
<1>8. \A f : Stored(f) <=> Stored(f)'
    BY <1>1 DEF Stored
<1>9. DeleteStored' /\ DeletedMeansStored' /\ AtomicNotification'
    BY <1>1, <1>8 DEF Safe, IInv, DeleteStored, DeletedMeansStored, AtomicNotification
<1> QED BY <1>5, <1>6, <1>7, <1>9 DEF Safe, IInv
\* The database commits c's transaction; c goes to delete its message, or, the
\* answer lost, back to receive.
Committed(c) ==
    /\ AllInserted(c)
    /\ db' = CommittedRows(c)
    /\ tx'[c] = NoRows /\ rows'[c] = <<>>
    /\ \/ pc'[c] = "delete" /\ msg'[c] = msg[c]
       \/ pc'[c] = "receive"
    /\ UNCHANGED <<queue, n>>
    /\ OthersSame(c)

\* A commit stores every file of the notification and takes nothing away.
LEMMA CommitStep ==
    ASSUME Safe, NEW c \in Consumers, Committed(c)
    PROVE  IInv'
<1>1. pc[c] = "tx" /\ rows[c] = <<>> /\ todo[c] = <<>>
    BY DEF Committed, AllInserted
<1>2. \A k \in PKs : /\ tx[c][k] # NoFile => db[k] = NoFile /\ db'[k] = tx[c][k]
                     /\ tx[c][k] = NoFile => db'[k] = db[k]
    BY DEF Committed, CommittedRows, Safe, IInv, TxOwn
<1>3. n[c] \in Seq(Files) /\ ToSet(n[c]) \subseteq Files
    BY ToSetType DEF Safe, IInv, TypeOK
<1>4. ASSUME NEW f \in Files, Stored(f) PROVE Stored(f)'
    BY <1>2, <1>4, ContentAssumption DEF Stored
<1>5. ASSUME NEW f \in ToSet(n[c]) PROVE Stored(f)'
    <2> SUFFICES ASSUME NEW i \in DOMAIN Content[f]
                 PROVE  Content[f][i] \in PKs /\ db'[Content[f][i]] = f
        BY DEF Stored
    <2>1. LineDone(c, f, Content[f][i])
        BY <1>1, ToSetType DEF Safe, IInv, TxProgress, LineToDo
    <2>2. f # NoFile
        BY <1>3, ContentAssumption
    <2> QED BY <1>2, <2>1, <2>2 DEF LineDone
<1>6. MessageHeld' /\ NFromMessage'
    BY <1>1 DEF Safe, IInv, MessageHeld, NFromMessage, Busy, Committed, OthersSame
<1>7. TxOwn'
    <2>1. \A k \in PKs : tx'[c][k] = NoFile
        BY DEF Committed, NoRows
    <2>2. ASSUME NEW d \in Consumers \ {c}, NEW k \in PKs, tx'[d][k] # NoFile
          PROVE  /\ db'[k] = NoFile
                 /\ tx'[d][k] \in ToSet(n'[d])
                 /\ \A e \in Consumers : tx'[e][k] # NoFile => e = d
        <3>1. /\ tx[d][k] # NoFile /\ db[k] = NoFile
              /\ tx[d][k] \in ToSet(n[d])
              /\ \A e \in Consumers : tx[e][k] # NoFile => e = d
            BY <2>2 DEF Safe, IInv, TxOwn, Committed, OthersSame
        <3>2. tx[c][k] = NoFile
            BY <3>1
        <3> QED BY <1>2, <2>1, <3>1, <3>2 DEF Committed, OthersSame
    <2>3. \A d \in Consumers :
            /\ ToSet(todo'[d]) \subseteq ToSet(n'[d]) \/ pc'[d] # "tx"
            /\ rows'[d] # <<>> => pc'[d] = "tx" /\ file'[d] \in ToSet(n'[d])
        BY DEF Safe, IInv, TxOwn, Committed, OthersSame
    <2> QED BY <2>1, <2>2, <2>3 DEF TxOwn
<1>8. TxProgress'
    <2> SUFFICES ASSUME NEW d \in Consumers, pc'[d] = "tx", NEW f \in ToSet(n'[d]),
                        f \notin ToSet(todo'[d]), NEW i \in DOMAIN Content[f]
                 PROVE  LineDone(d, f, Content[f][i])' \/ LineToDo(d, f, Content[f][i])'
        BY DEF TxProgress
    <2>1. d # c
        BY DEF Committed
    <2> QED BY <2>1 DEF Safe, IInv, TxProgress, LineDone, LineToDo, Committed, OthersSame
<1>9. DeleteStored'
    <2> SUFFICES ASSUME NEW d \in Consumers, pc'[d] = "delete",
                        Kind[msg'[d]] = "records", NEW f \in ToSet(n'[d])
                 PROVE  Stored(f)'
        BY DEF DeleteStored
    <2>1. CASE d = c
        BY <1>5, <2>1 DEF Committed
    <2>2. CASE d # c
        <3>1. Stored(f)
            BY <2>2 DEF Safe, IInv, DeleteStored, Committed, OthersSame
        <3>2. f \in Files
            BY <2>2, ToSetType DEF Safe, IInv, TypeOK, Committed, OthersSame
        <3> QED BY <1>4, <3>1, <3>2
    <2> QED BY <2>1, <2>2
<1>10. DeletedMeansStored'
    BY <1>4, FileTypes DEF Safe, IInv, DeletedMeansStored, Committed
<1>11. AtomicNotification'
    <2> SUFFICES ASSUME NEW k \in PKs, db'[k] # NoFile
                 PROVE  \E m \in Messages :
                            /\ Kind[m] = "records"
                            /\ db'[k] \in ToSet(FilesOf[m])
                            /\ \A f \in ToSet(FilesOf[m]) : Stored(f)'
        BY DEF AtomicNotification
    <2>1. CASE tx[c][k] # NoFile
        <3>1. db'[k] \in ToSet(n[c])
            BY <1>2, <2>1 DEF Safe, IInv, TxOwn
        <3>2. n[c] # <<>>
            BY <3>1, ToSetType
        <3>3. PICK m \in Messages : Kind[m] = "records" /\ n[c] = FilesOf[m]
            BY <3>2 DEF Safe, IInv, NFromMessage
        <3> QED BY <1>5, <3>1, <3>3
    <2>2. CASE tx[c][k] = NoFile
        <3>1. db[k] # NoFile /\ db'[k] = db[k]
            BY <1>2, <2>2
        <3>2. PICK m \in Messages :
                /\ Kind[m] = "records"
                /\ db[k] \in ToSet(FilesOf[m])
                /\ \A f \in ToSet(FilesOf[m]) : Stored(f)
            BY <3>1 DEF Safe, IInv, AtomicNotification
        <3> QED BY <1>4, <3>1, <3>2, FileTypes
    <2> QED BY <2>1, <2>2
<1> QED BY <1>6, <1>7, <1>8, <1>9, <1>10, <1>11 DEF Safe, IInv

\* The actions that end in the loop's next round with nothing committed.
LEMMA LeaveActions ==
    ASSUME Safe, NEW c \in Consumers,
           \/ BeginFails(c) \/ PrepareFails(c) \/ GetFileFails(c)
           \/ InsertFails(c) \/ CommitFails(c)
           \/ Delete(c) \/ DeleteFails(c) \/ Crash(c)
    PROVE  IInv'
<1> USE DEF sqs, work
<1>1. ASSUME Rollback(c) PROVE /\ pc'[c] = "receive"
                               /\ tx'[c] = NoRows
                               /\ rows'[c] = <<>>
                               /\ n' = n \/ n' = [n EXCEPT ![c] = <<>>] => OthersSame(c)
    BY <1>1 DEF Rollback, Discard, LoopAgain, OthersSame, Safe, IInv, TypeOK
<1>2. CASE GetFileFails(c) \/ InsertFails(c) \/ CommitFails(c)
    <2>1. Rollback(c) /\ UNCHANGED <<queue, db, n>>
        BY <1>2 DEF GetFileFails, InsertFails, CommitFails
    <2> QED BY <1>1, <2>1, LeaveStep
<1>3. CASE Crash(c)
    <2>1. Rollback(c) /\ UNCHANGED <<queue, db>> /\ n' = [n EXCEPT ![c] = <<>>]
        BY <1>3 DEF Crash
    <2>2. n'[c] = <<>>
        BY <2>1 DEF Safe, IInv, TypeOK
    <2> QED BY <1>1, <2>1, <2>2, LeaveStep
<1>4. CASE BeginFails(c) \/ PrepareFails(c) \/ Delete(c) \/ DeleteFails(c)
    <2>1. /\ pc[c] # "tx" /\ pc'[c] = "receive"
          /\ UNCHANGED <<db, n, todo, file, rows, tx>>
          /\ OthersSame(c)
        <3>1. pc \in [Consumers -> {"receive", "begin", "tx", "delete"}] /\ TypeOK
            BY DEF Safe, IInv, TypeOK
        <3>2. CASE BeginFails(c)
            BY <3>1, <3>2 DEF BeginFails, LoopAgain, OthersSame, TypeOK
        <3>3. CASE PrepareFails(c)
            BY <3>1, <3>3 DEF PrepareFails, LoopAgain, OthersSame, TypeOK
        <3>4. CASE Delete(c)
            BY <3>1, <3>4 DEF Delete, LoopAgain, OthersSame, TypeOK
        <3>5. CASE DeleteFails(c)
            BY <3>1, <3>5 DEF DeleteFails, LoopAgain, OthersSame, TypeOK
        <3> QED BY <1>4, <3>2, <3>3, <3>4, <3>5
    <2>2. tx'[c] = NoRows /\ rows'[c] = <<>>
        BY <2>1 DEF Safe, IInv, TypeOK, TxOwn
    <2>3. \A m \in Messages : queue'[m] = "deleted" =>
                queue[m] = "deleted" \/ (pc[c] = "delete" /\ m = msg[c])
        BY <1>4 DEF BeginFails, PrepareFails, Delete, DeleteFails, Safe, IInv, TypeOK
    <2> QED BY <2>1, <2>2, <2>3, LeaveStep
<1> QED BY <1>2, <1>3, <1>4

\* Every step keeps the invariant.
LEMMA NextIInv == IInv /\ [Next]_vars => IInv'
<1> SUFFICES ASSUME IInv, [Next]_vars PROVE IInv'
    OBVIOUS
<1> USE DEF sqs, work
<1>1. Safe
    BY NextTypeOK DEF IInv, Safe
<1>2. ASSUME NEW m \in Messages, Queue(m) \/ ReceiveLost(m) PROVE IInv'
    <2>1. UNCHANGED <<db, pc, msg, n, todo, file, rows, tx>>
        BY <1>2 DEF Queue, VisibilityExpires, DeadLetter, ReceiveLost
    <2>2. \A o \in Messages : queue'[o] = "deleted" => queue[o] = "deleted"
        BY <1>2 DEF Queue, VisibilityExpires, DeadLetter, ReceiveLost, IInv, TypeOK
    <2> QED BY <1>1, <2>1, <2>2, QueueStep
<1>3. ASSUME UNCHANGED vars PROVE IInv'
    BY <1>1, <1>3, QueueStep DEF vars
<1>4. ASSUME NEW c \in Consumers, Commit(c) \/ CommitAnswerLost(c) PROVE IInv'
    <2>1. Committed(c)
        BY <1>4 DEF Commit, CommitAnswerLost, Committed, Discard, LoopAgain, OthersSame,
                    IInv, TypeOK
    <2> QED BY <1>1, <2>1, CommitStep
<1>5. ASSUME NEW c \in Consumers, Step(c) \/ Crash(c) PROVE IInv'
    BY <1>1, <1>3, <1>4, <1>5, ReceiveStep, BeginStep, GetFileStep, InsertStep,
       LeaveActions DEF Step, ReceiveNothing
<1> QED BY <1>2, <1>3, <1>5 DEF Next

\* The invariant holds in every state of every behaviour.
LEMMA IInvAlways == Spec => []IInv
BY InitIInv, NextIInv, PTL DEF Spec

\* Main deletes a message only when all rows of all its files are committed:
\* for any number of processes, crashes, redeliveries and expired timeouts.
THEOREM DeletedStored == Spec => []DeletedMeansStored
<1>1. IInv => DeletedMeansStored
    BY DEF IInv
<1> QED BY <1>1, IInvAlways, PTL

\* The rows of a notification appear in the table together or not at all.
THEOREM NotificationAtomic == Spec => []AtomicNotification
<1>1. IInv => AtomicNotification
    BY DEF IInv
<1> QED BY <1>1, IInvAlways, PTL

\* No step, a commit of another process included, changes a committed row.
THEOREM RowsKept == Spec => CommittedRowsKept
<1>1. ASSUME IInv, [Next]_vars
      PROVE  [\A k \in PKs : db[k] # NoFile => db'[k] = db[k]]_vars
    <2> SUFFICES ASSUME NEW k \in PKs, db[k] # NoFile, db' # db PROVE db'[k] = db[k]
        OBVIOUS
    <2>1. PICK c \in Consumers : db' = CommittedRows(c)
        BY <1>1 DEF Next, Step, Queue, VisibilityExpires, DeadLetter, ReceiveLost,
            Receive, ReceiveNothing, Begin, BeginFails, PrepareFails, GetFile,
            GetFileFails, InsertRow, InsertFails, Commit, CommitFails,
            CommitAnswerLost, Delete, DeleteFails, Crash, vars
    <2>2. tx[c][k] = NoFile
        BY <1>1 DEF IInv, TxOwn
    <2> QED BY <2>1, <2>2 DEF CommittedRows
<1> QED BY <1>1, IInvAlways, PTL DEF Spec, CommittedRowsKept

(***************************************************************************)
(* The ingest implements the store of DapperStore.                         *)
(***************************************************************************)

\* The lines to be inserted are those of the file that is being read, and what
\* a transaction has inserted for a file are lines of that file.
TxFromFile ==
    \A c \in Consumers :
        /\ rows[c] # <<>> => ToSet(rows[c]) \subseteq ToSet(Content[file[c]])
        /\ \A k \in PKs : tx[c][k] # NoFile => k \in ToSet(Content[tx[c][k]])

\* No transaction is open at first.
LEMMA InitTxFromFile == Init => TxFromFile
BY DEF Init, TxFromFile, NoRows

\* Lines come from a file that is read, and go from there into the transaction.
LEMMA NextTxFromFile == TypeOK /\ TxFromFile /\ [Next]_vars => TxFromFile'
<1> SUFFICES ASSUME TypeOK, TxFromFile, [Next]_vars PROVE TxFromFile'
    OBVIOUS
<1> USE DEF TxFromFile, sqs, work
<1>1. CASE UNCHANGED <<file, rows, tx>>
    BY <1>1
<1>2. ASSUME NEW c \in Consumers, Discard(c) PROVE TxFromFile'
    BY <1>2 DEF Discard, NoRows, TypeOK
<1>3. ASSUME NEW c \in Consumers, GetFile(c) PROVE TxFromFile'
    <2>1. /\ file' = [file EXCEPT ![c] = Head(todo[c])]
          /\ rows' = [rows EXCEPT ![c] = Content[Head(todo[c])]]
          /\ tx' = tx
        BY <1>3 DEF GetFile
    <2> QED BY <2>1 DEF TypeOK
<1>4. ASSUME NEW c \in Consumers, InsertRow(c) PROVE TxFromFile'
    <2> DEFINE k == Head(rows[c])
    <2>1. /\ rows[c] # <<>> /\ k \in PKs
          /\ tx' = [tx EXCEPT ![c][k] = file[c]]
          /\ rows' = [rows EXCEPT ![c] = Tail(rows[c])]
          /\ file' = file
        BY <1>4 DEF InsertRow, Inserting, Rejected
    <2>2. /\ k \in ToSet(rows[c]) /\ ToSet(Tail(rows[c])) \subseteq ToSet(rows[c])
          /\ ToSet(rows[c]) \subseteq ToSet(Content[file[c]])
        BY <2>1, HeadTail DEF TypeOK
    <2> HIDE DEF k
    <2>3. ASSUME NEW d \in Consumers, NEW j \in PKs, tx'[d][j] # NoFile
          PROVE  j \in ToSet(Content[tx'[d][j]])
        <3>1. CASE d = c /\ j = k
            <4>1. tx'[d][j] = file[c]
                BY <2>1, <3>1 DEF TypeOK
            <4> QED BY <2>2, <3>1, <4>1
        <3>2. CASE ~(d = c /\ j = k)
            <4>1. tx'[d][j] = tx[d][j]
                BY <2>1, <3>2 DEF TypeOK
            <4> QED BY <2>3, <4>1
        <3> QED BY <3>1, <3>2
    <2>4. ASSUME NEW d \in Consumers, rows'[d] # <<>>
          PROVE  ToSet(rows'[d]) \subseteq ToSet(Content[file'[d]])
        BY <2>1, <2>2, <2>4 DEF TypeOK
    <2> QED BY <2>3, <2>4
<1> QED
    BY <1>1, <1>2, <1>3, <1>4
       DEF Next, Step, Queue, VisibilityExpires, DeadLetter, ReceiveLost, Receive,
           ReceiveNothing, Begin, BeginFails, PrepareFails, Rollback, GetFileFails,
           InsertFails, Commit, CommitFails, CommitAnswerLost, Delete, DeleteFails,
           Crash, vars

\* No step but a commit changes the table.
LEMMA OnlyCommits ==
    ASSUME [Next]_vars, db' # db
    PROVE  \E c \in Consumers : AllInserted(c) /\ db' = CommittedRows(c)
BY DEF Next, Step, Queue, VisibilityExpires, DeadLetter, ReceiveLost,
       Receive, ReceiveNothing, Begin, BeginFails, PrepareFails, GetFile,
       GetFileFails, InsertRow, InsertFails, Commit, CommitFails,
       CommitAnswerLost, Delete, DeleteFails, Crash, vars

\* A commit adds the rows of one notification, all of them.
LEMMA CommitAddsRows ==
    ASSUME IInv, TxFromFile, NEW c \in Consumers,
           AllInserted(c), db' = CommittedRows(c), db' # db
    PROVE  \E m \in Messages : TableRows' = TableRows \cup RowsOf(m)
<1>1. pc[c] = "tx" /\ rows[c] = <<>> /\ todo[c] = <<>>
    BY DEF AllInserted
<1>2. db' \in [PKs -> Files \cup {NoFile}] /\ db \in [PKs -> Files \cup {NoFile}]
    BY DEF IInv, TypeOK, CommittedRows
<1>3. PICK k \in PKs : db'[k] # db[k]
    BY <1>2
<1>4. tx[c][k] \in ToSet(n[c])
    BY <1>3 DEF IInv, TxOwn, CommittedRows
<1>5. PICK m \in Messages : Kind[m] = "records" /\ n[c] = FilesOf[m]
    BY <1>4, ToSetType DEF IInv, NFromMessage
<1>6. ToSet(FilesOf[m]) \subseteq Files
    BY BodyAssumption, ToSetType
<1>7. ASSUME NEW e \in TableRows' PROVE e \in TableRows \cup RowsOf(m)
    <2>1. e \in PKs \X Files /\ db'[e[1]] = e[2]
        BY DEF TableRows
    <2>2. CASE tx[c][e[1]] = NoFile
        BY <2>1, <2>2 DEF TableRows, CommittedRows
    <2>3. CASE tx[c][e[1]] # NoFile
        <3>1. tx[c][e[1]] = e[2]
            BY <2>1, <2>3 DEF CommittedRows
        <3>2. e[2] \in ToSet(FilesOf[m]) /\ e[1] \in ToSet(Content[e[2]])
            BY <1>5, <2>1, <2>3, <3>1 DEF IInv, TxOwn, TxFromFile
        <3> QED BY <1>5, <2>1, <3>2 DEF RowsOf
    <2> QED BY <2>2, <2>3
<1>8. ASSUME NEW e \in TableRows PROVE e \in TableRows'
    <2>1. e \in PKs \X Files /\ db[e[1]] = e[2]
        BY DEF TableRows
    <2>2. tx[c][e[1]] = NoFile
        BY <2>1, ContentAssumption DEF IInv, TxOwn
    <2> QED BY <2>1, <2>2 DEF TableRows, CommittedRows
<1>9. ASSUME NEW e \in RowsOf(m) PROVE e \in TableRows'
    <2>1. e[2] \in ToSet(FilesOf[m]) /\ e[1] \in ToSet(Content[e[2]]) /\ e = <<e[1], e[2]>>
        BY DEF RowsOf
    <2>2. PICK i \in DOMAIN Content[e[2]] : Content[e[2]][i] = e[1]
        BY <2>1 DEF ToSet
    <2>3. LineDone(c, e[2], e[1])
        BY <1>1, <1>5, <2>1, <2>2, ToSetType DEF IInv, TxProgress, LineToDo
    <2>4. e[2] \in Files /\ e[2] # NoFile
        BY <1>6, <2>1, ContentAssumption
    <2>5. e[1] \in PKs /\ db'[e[1]] = e[2]
        BY <2>3, <2>4 DEF LineDone, CommittedRows
    <2> QED BY <2>1, <2>4, <2>5 DEF TableRows
<1> QED BY <1>7, <1>8, <1>9

\* The table that any number of dapper-db-ingest processes fill is the store of
\* DapperStore: whole notifications are added, nothing else ever changes it.
THEOREM IngestImplementsStore == Spec => StoreSpec
<1>1. Init => Store!Init
    BY ContentAssumption DEF Init, NoRows, Store!Init, TableRows
<1>2. IInv /\ TxFromFile /\ [Next]_vars => [Store!Next]_TableRows
    <2> SUFFICES ASSUME IInv, TxFromFile, [Next]_vars, db' # db
                 PROVE  Store!Next
        BY DEF TableRows
    <2>1. PICK m \in Messages : TableRows' = TableRows \cup RowsOf(m)
        BY OnlyCommits, CommitAddsRows
    <2> QED BY <2>1 DEF Store!Next, Store!Ingest
<1>3. Spec => []TxFromFile
    BY InitTxFromFile, NextTxFromFile, TypeCorrect, PTL DEF Spec
<1> QED BY <1>1, <1>2, <1>3, IInvAlways, PTL DEF Spec, StoreSpec, Store!Spec
=============================================================================
