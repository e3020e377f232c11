-------------------------- MODULE WorkSync_proofs --------------------------
(***************************************************************************)
(* Theorems about WorkSync, for any number of rows, devices, chunks, edits *)
(* and sessions.                                                           *)
(***************************************************************************)
EXTENDS WorkSync, SequenceTheorems, TLAPS

\* While a handler runs, the chunk it runs for is at the head of chunks.
ChunkLeft == pc \in HandlerSteps => Len(chunks) > 0

TypeInv == TypeOK /\ ChunkLeft

-----------------------------------------------------------------------------
(* The operators on databases. *)

\* Deleting, replacing and marking rows keep a database a database.
LEMMA NoRowIsRow == NoRow \in Row
  BY DEF NoRow, Row

LEMMA DropType ==
  ASSUME NEW db \in Database, NEW S PROVE Drop(db, S) \in Database
  BY NoRowIsRow DEF Drop, Database

LEMMA PutType ==
  ASSUME NEW db \in Database, NEW rows \in Database, NEW S
  PROVE  Put(db, rows, S) \in Database
  BY DEF Put, Database

LEMMA SyncedType ==
  ASSUME NEW db \in Database PROVE Synced(db) \in Database
  <1> SUFFICES ASSUME NEW r \in Rows
               PROVE  (IF Has(db, r) THEN [db[r] EXCEPT !.sync = "1"] ELSE db[r]) \in Row
      BY DEF Synced, Database
  <1> db[r] \in Row BY DEF Database
  <1> QED BY DEF Row

LEMMA SetSyncedType ==
  ASSUME NEW db \in Database, NEW S PROVE SetSynced(db, S) \in Database
  BY SyncedType, PutType DEF SetSynced

LEMMA DropTasksType ==
  ASSUME NEW db \in Database, NEW ids, NEW k PROVE DropTasks(db, ids, k) \in Database
  BY DropType DEF DropTasks

\* A file that is a database is one of the databases.
LEMMA DatabaseFile ==
  ASSUME NEW f \in File, IsDB(f) PROVE f \in Database
  BY DEF File, IsDB

\* A SQLite statement succeeds only on a database.
LEMMA SqliteNeedsDB == TRUE \in SqliteOutcomes => IsDB(interm)
  BY DEF SqliteOutcomes

LEMMA SqliteBoolean == SqliteOutcomes \subseteq BOOLEAN
  BY DEF SqliteOutcomes, Outcomes

-----------------------------------------------------------------------------
(* The operators on actions. *)

LEMMA FetchType ==
  ASSUME TypeOK, NEW S \in SUBSET Rows, NEW image \in Database, NEW blame \in BOOLEAN,
         Fetch(S, image, blame)
  PROVE  interm' \in File /\ marks' \in SUBSET Mark /\ ok' \in BOOLEAN
  <1>1. PICK select \in Outcomes("mysql"), insert \in SqliteOutcomes :
          LET new == IF select THEN S ELSE {}
          IN IF new # {} /\ ~insert
             THEN ok' = (ok /\ ~blame) /\ UNCHANGED <<interm, marks>>
             ELSE /\ interm' = IF new = {} THEN interm ELSE Put(interm, image, new)
                  /\ marks' = marks \cup
                       {[row |-> r, raise |-> Table[r] = "task" /\ server[r].state = "1"] : r \in new}
                  /\ ok' = (ok /\ select)
      BY DEF Fetch
  <1> DEFINE new == IF select THEN S ELSE {}
  <1>2. select \in BOOLEAN /\ insert \in BOOLEAN
      BY DEF Outcomes, SqliteOutcomes
  <1>3. new \in SUBSET Rows
      OBVIOUS
  <1>4. CASE new # {} /\ ~insert
      BY <1>1, <1>2, <1>4 DEF TypeOK
  <1>5. CASE ~(new # {} /\ ~insert)
    <2>1. interm' \in File
      <3>1. CASE new = {}
          BY <1>1, <1>5, <3>1 DEF TypeOK
      <3>2. CASE new # {}
        <4>1. interm \in Database
            BY <1>2, <1>5, <3>2, SqliteNeedsDB, DatabaseFile DEF TypeOK
        <4>2. Put(interm, image, new) \in Database
            BY <4>1, PutType
        <4> QED BY <1>1, <1>5, <3>2, <4>2 DEF File
      <3> QED BY <3>1, <3>2
    <2>2. \A r \in new : [row |-> r, raise |-> Table[r] = "task" /\ server[r].state = "1"] \in Mark
        BY <1>3 DEF Mark
    <2>3. marks' \in SUBSET Mark
        BY <1>1, <1>5, <2>2 DEF TypeOK
    <2>4. ok' \in BOOLEAN
        BY <1>1, <1>2, <1>5 DEF TypeOK
    <2> QED BY <2>1, <2>3, <2>4
  <1> QED BY <1>4, <1>5

LEMMA DeleteOnPhoneType ==
  ASSUME TypeOK, NEW ids, DeleteOnPhone(ids)
  PROVE  interm' \in File
  BY DatabaseFile, DropTasksType DEF TypeOK, DeleteOnPhone, File

LEMMA AckType ==
  ASSUME TypeOK, Ack
  PROVE  interm' \in File /\ picked' \in SUBSET Rows /\ dbEvent' \in BOOLEAN
  BY SqliteNeedsDB, DatabaseFile, SetSyncedType DEF TypeOK, Ack, File

\* What UpdateMysqlDB carried out is among the statements it was given.
LEMMA UpdateMysqlDBType ==
  ASSUME NEW S, NEW out \in UpdateMysqlDB(S)
  PROVE  out.ret \in BOOLEAN /\ out.done \subseteq S
  <1>1. CASE out = [ret |-> TRUE, done |-> S]
      BY <1>1
  <1>2. ASSUME NEW T \in SUBSET S, out = [ret |-> FALSE, done |-> T]
        PROVE  out.ret \in BOOLEAN /\ out.done \subseteq S
      BY <1>2
  <1>3. ASSUME NEW T \in SUBSET S, out = [ret |-> TRUE, done |-> T]
        PROVE  out.ret \in BOOLEAN /\ out.done \subseteq S
      BY <1>3
  <1> QED BY <1>1, <1>2, <1>3 DEF UpdateMysqlDB

LEMMA UploadType ==
  ASSUME TypeOK, NEW S \in SUBSET Rows, S # {} => IsDB(interm), NEW blame \in BOOLEAN,
         Upload(S, blame)
  PROVE  server' \in Database /\ stored' \in SUBSET Nat /\ picked' \in SUBSET Rows
         /\ ok' \in BOOLEAN
  <1>1. PICK out \in UpdateMysqlDB(S) :
          /\ server' = Put(server, Synced(interm), out.done)
          /\ stored' = stored \cup {interm[r].ver : r \in out.done}
          /\ picked' = IF out.ret THEN S ELSE {}
          /\ ok' = (ok /\ (out.ret \/ ~blame))
      BY DEF Upload
  <1>2. out.ret \in BOOLEAN /\ out.done \subseteq S
      BY UpdateMysqlDBType
  <1>3. CASE S = {}
    <2>1. server' = server
        BY <1>1, <1>2, <1>3 DEF Put, TypeOK, Database
    <2> QED BY <1>1, <1>2, <1>3, <2>1 DEF TypeOK
  <1>4. CASE S # {}
    <2>1. interm \in Database
        BY <1>4, DatabaseFile DEF TypeOK
    <2>2. server' \in Database
        BY <1>1, <2>1, SyncedType, PutType DEF TypeOK
    <2>3. \A r \in Rows : interm[r].ver \in Nat
        BY <2>1 DEF Database, Row
    <2> QED BY <1>1, <1>2, <2>2, <2>3 DEF TypeOK
  <1> QED BY <1>3, <1>4

LEMMA NextChunkType ==
  ASSUME TypeOK, Len(chunks) > 0, NextChunk
  PROVE  chunks' \in Seq(SUBSET Devices) /\ pc' \in Steps /\ ChunkLeft'
  <1>1. chunks # <<>> /\ chunks \in Seq(SUBSET Devices) /\ Len(chunks) \in Nat
      BY LenProperties DEF TypeOK
  <1>2. Tail(chunks) \in Seq(SUBSET Devices) /\ Len(Tail(chunks)) = Len(chunks) - 1
      BY <1>1, HeadTailProperties
  <1>3. pc' \in Steps
      BY DEF NextChunk, Steps, HandlerSteps
  <1>4. ChunkLeft'
      BY <1>1, <1>2 DEF NextChunk, ChunkLeft, HandlerSteps
  <1> QED BY <1>2, <1>3, <1>4 DEF NextChunk

-----------------------------------------------------------------------------
(* Type correctness, one step per action. *)

LEMMA TypeInit == Init => TypeInv
  <1> SUFFICES ASSUME Init PROVE TypeInv
      OBVIOUS
  <1> DEFINE start == [r \in Rows |->
        IF r \in Seeded THEN [ver |-> 0, state |-> "2", sync |-> "1"] ELSE NoRow]
  <1>1. start \in Database
      BY NoRowIsRow DEF Database, Row
  <1>2. phone = start /\ server = start
      BY DEF Init
  <1>3. work \in [Rows -> Nat] /\ chunks \in Seq(SUBSET Devices)
      BY DEF Init
  <1>4. ChunkLeft
      BY DEF Init, ChunkLeft, HandlerSteps
  <1>5. phone \in File /\ interm \in File /\ backups \in SUBSET File /\ server \in Database
      BY <1>1, <1>2 DEF Init, File
  <1>6. pc \in Steps /\ marks \in SUBSET Mark /\ picked \in SUBSET Rows
        /\ stored \in SUBSET Nat /\ landed \in SUBSET Nat
      BY DEF Init, Steps
  <1> QED
      BY <1>3, <1>4, <1>5, <1>6 DEF Init, TypeInv, TypeOK

LEMMA TypeUser ==
  ASSUME TypeInv, User PROVE TypeInv'
  <1> USE DEF TypeInv, TypeOK, ChunkLeft, Steps, HandlerSteps, files, history
  <1>1. ASSUME NEW d \in {"to_pc", "to_phone"}, Click(d) PROVE TypeInv'
      BY <1>1 DEF Click
  <1>2. CASE Cancel
      BY <1>2 DEF Cancel, Return
  <1>3. CASE Confirm
      BY <1>3 DEF Confirm
  <1>4. CASE ClickBusy
      BY <1>4 DEF ClickBusy
  <1> QED BY <1>1, <1>2, <1>3, <1>4 DEF User

LEMMA TypePrepare ==
  ASSUME TypeInv, Prepare PROVE TypeInv'
  <1> USE DEF TypeInv, ChunkLeft, HandlerSteps, Steps, files, history, Return
  <1>1. CASE Locate
      BY <1>1 DEF Locate, TypeOK, File
  <1>2. CASE Download
      BY <1>2 DEF Download, TypeOK, File
  <1>3. CASE Backup
      BY <1>3 DEF Backup, TypeOK
  <1>4. CASE Connect
    <2>1. CASE Return(FALSE) /\ UNCHANGED chunks
        BY <1>4, <2>1 DEF Connect, TypeOK
    <2>2. CASE /\ chunks' \in Selections
               /\ pc' = (IF chunks' = <<>> THEN "marks" ELSE "template")
               /\ ok' = TRUE
      <3>1. chunks' \in Seq(SUBSET Devices)
          BY <2>2, SelectionsAssumption
      <3>2. chunks' # <<>> => Len(chunks') > 0
          BY <3>1, EmptySeq, LenProperties
      <3> QED BY <1>4, <2>2, <3>1, <3>2 DEF Connect, TypeOK
    <2> QED BY <1>4, <2>1, <2>2 DEF Connect
  <1> QED BY <1>1, <1>2, <1>3, <1>4 DEF Prepare

LEMMA TypeToPhone ==
  ASSUME TypeInv, ToPhone PROVE TypeInv'
  <1> USE DEF TypeInv, ChunkLeft, HandlerSteps, Steps, files, history
  <1>0. server \in Database /\ Synced(server) \in Database
      BY SyncedType DEF TypeOK
  <1>1. CASE TemplateFetch
    <2>1. CASE Missing /\ UNCHANGED <<interm, marks, dbEvent>>
        BY <1>1, <2>1 DEF TemplateFetch, TypeOK
    <2>2. CASE ~Missing
      <3>1. PICK S \in SUBSET Rows : Fetch(S, server, TRUE)
          BY <1>1, <2>2 DEF TemplateFetch, Of
      <3>2. interm' \in File /\ marks' \in SUBSET Mark /\ ok' \in BOOLEAN
          BY <1>0, <3>1, FetchType
      <3> QED BY <1>1, <2>2, <3>2 DEF TemplateFetch, TypeOK
    <2> QED BY <1>1, <2>1, <2>2 DEF TemplateFetch
  <1>2. CASE TemplateDrop
    <2>1. interm' \in File
      <3>1. PICK delete, old :
              /\ delete \in SqliteOutcomes
              /\ interm' = interm \/ (delete /\ interm' = Drop(interm, old))
          BY <1>2 DEF TemplateDrop
      <3>2. delete = TRUE => Drop(interm, old) \in File
          BY <3>1, SqliteNeedsDB, DatabaseFile, DropType DEF TypeOK, File
      <3> QED BY <3>1, <3>2, SqliteBoolean DEF TypeOK
    <2> QED BY <1>2, <2>1 DEF TemplateDrop, TypeOK, Outcomes, SqliteOutcomes
  <1>3. CASE TypeFetch
    <2>1. CASE Missing /\ UNCHANGED <<interm, marks, dbEvent>>
        BY <1>3, <2>1 DEF TypeFetch, TypeOK
    <2>2. CASE ~Missing
      <3>1. PICK S \in SUBSET Rows : Fetch(S, server, TRUE)
          BY <1>3, <2>2 DEF TypeFetch, Pending, Of
      <3>2. interm' \in File /\ marks' \in SUBSET Mark /\ ok' \in BOOLEAN
          BY <1>0, <3>1, FetchType
      <3> QED BY <1>3, <2>2, <3>2 DEF TypeFetch, TypeOK
    <2> QED BY <1>3, <2>1, <2>2 DEF TypeFetch
  <1>4. CASE TypeDrop
    <2>1. interm' \in File
      <3>1. PICK delete, old :
              /\ delete \in SqliteOutcomes
              /\ interm' = interm \/ (delete /\ interm' = Drop(interm, old))
          BY <1>4 DEF TypeDrop
      <3>2. delete = TRUE => Drop(interm, old) \in File
          BY <3>1, SqliteNeedsDB, DatabaseFile, DropType DEF TypeOK, File
      <3> QED BY <3>1, <3>2, SqliteBoolean DEF TypeOK
    <2> QED BY <1>4, <2>1 DEF TypeDrop, TypeOK, Outcomes, SqliteOutcomes
  <1>5. CASE TaskDrop2
    <2>1. interm' \in File
        BY <1>5, DeleteOnPhoneType DEF TaskDrop2, TypeOK
    <2> QED BY <1>5, <2>1 DEF TaskDrop2, TypeOK, Outcomes
  <1>6. CASE TaskDrop3
    <2>1. interm' \in File
        BY <1>6, DeleteOnPhoneType DEF TaskDrop3
    <2> QED BY <1>6, <2>1 DEF TaskDrop3, TypeOK, Outcomes, Doomed, Of
  <1>7. CASE TaskPurge
    <2>1. server' \in Database
        BY <1>0, <1>7, DropType DEF TaskPurge
    <2> QED BY <1>7, <2>1 DEF TaskPurge, TypeOK
  <1>8. CASE TaskFetch
    <2>1. PICK S \in SUBSET Rows : Fetch(S, Synced(server), TRUE)
        BY <1>8 DEF TaskFetch, Pending, Of
    <2>2. interm' \in File /\ marks' \in SUBSET Mark /\ ok' \in BOOLEAN
        BY <1>0, <2>1, FetchType
    <2> QED BY <1>8, <2>2 DEF TaskFetch, TypeOK
  <1>9. CASE RecordFetch
    <2>0. chunks' \in Seq(SUBSET Devices) /\ pc' \in Steps /\ ChunkLeft'
        BY <1>9, NextChunkType DEF RecordFetch
    <2>1. interm' \in File /\ marks' \in SUBSET Mark /\ ok' \in BOOLEAN /\ dbEvent' \in BOOLEAN
      <3>1. CASE Missing /\ UNCHANGED <<interm, marks, dbEvent>>
          BY <1>9, <3>1 DEF RecordFetch, TypeOK
      <3>2. CASE ~Missing
        <4>1. PICK S \in SUBSET Rows : Fetch(S, Synced(server), FALSE)
            BY <1>9, <3>2 DEF RecordFetch, Pending, Of
        <4> QED BY <1>0, <1>9, <3>2, <4>1, FetchType DEF RecordFetch, TypeOK
      <3> QED BY <1>9, <3>1, <3>2 DEF RecordFetch
    <2> QED BY <1>9, <2>0, <2>1 DEF RecordFetch, TypeOK
  <1>10. CASE Skip
      BY <1>10 DEF Skip, TypeOK
  <1> QED BY <1>1, <1>2, <1>3, <1>4, <1>5, <1>6, <1>7, <1>8, <1>9, <1>10 DEF ToPhone

\* What is uploaded are rows of the intermediate file.
LEMMA UploadedRows ==
  ASSUME NEW t, NEW devs, NEW read \in ReadOutcomes,
         NEW S, S = IF read = "read" THEN Pending(interm, t, devs) ELSE {}
  PROVE  S \in SUBSET Rows /\ (S # {} => IsDB(interm))
  <1>1. Pending(interm, t, devs) \in SUBSET Rows
      BY DEF Pending, Of
  <1>2. read = "read" => IsDB(interm)
      BY DEF ReadOutcomes
  <1> QED BY <1>1, <1>2

LEMMA TypeToPc ==
  ASSUME TypeInv, ToPc PROVE TypeInv'
  <1> USE DEF TypeInv, files, history
  <1>1. CASE TaskUpload
    <2>1. ChunkLeft' /\ pc' \in Steps
        BY <1>1 DEF TaskUpload, ChunkLeft, HandlerSteps, Steps
    <2>2. CASE UNCHANGED <<server, stored>> /\ picked' \in {picked, {}} /\ ok' = FALSE
        BY <1>1, <2>1, <2>2 DEF TaskUpload, TypeOK
    <2>3. CASE \E read \in ReadOutcomes :
                 Upload(IF read = "read" THEN Pending(interm, "task", Head(chunks)) ELSE {}, TRUE)
      <3>1. PICK S \in SUBSET Rows : (S # {} => IsDB(interm)) /\ Upload(S, TRUE)
          BY <2>3, UploadedRows
      <3> QED BY <1>1, <2>1, <3>1, UploadType DEF TaskUpload, TypeOK
    <2> QED BY <1>1, <2>2, <2>3 DEF TaskUpload
  <1>2. CASE TaskAck
    <2>1. ChunkLeft' /\ pc' \in Steps
        BY <1>2 DEF TaskAck, ChunkLeft, HandlerSteps, Steps
    <2> QED BY <1>2, <2>1, AckType DEF TaskAck, TypeOK
  <1>3. CASE RecordUpload
    <2>1. CASE Missing
      <3>1. chunks' \in Seq(SUBSET Devices) /\ pc' \in Steps /\ ChunkLeft'
          BY <1>3, <2>1, NextChunkType DEF RecordUpload, ChunkLeft, HandlerSteps
      <3> QED BY <1>3, <2>1, <3>1 DEF RecordUpload, TypeOK
    <2>2. CASE ~Missing
      <3>1. PICK S \in SUBSET Rows : (S # {} => IsDB(interm)) /\ Upload(S, FALSE)
          BY <1>3, <2>2, UploadedRows DEF RecordUpload
      <3>2. ChunkLeft' /\ pc' \in Steps
          BY <1>3, <2>2 DEF RecordUpload, ChunkLeft, HandlerSteps, Steps
      <3> QED BY <1>3, <2>2, <3>1, <3>2, UploadType DEF RecordUpload, TypeOK
    <2> QED BY <2>1, <2>2
  <1>4. CASE RecordAck
    <2>1. chunks' \in Seq(SUBSET Devices) /\ pc' \in Steps /\ ChunkLeft'
        BY <1>4, NextChunkType DEF RecordAck, ChunkLeft, HandlerSteps
    <2> QED BY <1>4, <2>1, AckType DEF RecordAck, TypeOK
  <1> QED BY <1>1, <1>2, <1>3, <1>4 DEF ToPc

LEMMA VersType ==
  ASSUME NEW db \in Database PROVE Vers(db) \in SUBSET Nat
  BY DEF Vers, Database, Row

LEMMA TypeFinish ==
  ASSUME TypeInv, Finish PROVE TypeInv'
  <1> USE DEF TypeInv, ChunkLeft, HandlerSteps, Steps, files, history, Return
  <1>1. CASE Marks
    <2>1. PICK out \in UpdateMysqlDB(marks) :
            LET hit == {m.row : m \in out.done}
                raised == {m.row : m \in {n \in out.done : n.raise}}
            IN /\ server' = [r \in Rows |->
                      IF r \notin hit \/ ~Has(server, r) THEN server[r]
                      ELSE [server[r] EXCEPT !.sync = "1",
                              !.state = IF r \in raised THEN "2" ELSE @]]
               /\ IF ok /\ out.ret THEN pc' = "erase" /\ ok' = ok ELSE Return(FALSE)
        BY <1>1 DEF Marks
    <2>2. \A r \in Rows : server[r] \in Row
        BY DEF TypeOK, Database
    <2>3. server' \in Database
        BY <2>1, <2>2 DEF Database, Row
    <2> QED BY <1>1, <2>1, <2>3 DEF Marks, TypeOK
  <1>2. CASE Erase
      BY <1>2 DEF Erase, TypeOK, File
  <1>3. CASE Send
    <2>1. phone' \in File /\ ok' \in BOOLEAN
        BY <1>3 DEF Send, TypeOK
    <2>2. landed' \in SUBSET Nat
        BY <1>3, <2>1, VersType DEF Send, TypeOK, File, IsDB
    <2> QED BY <1>3, <2>1, <2>2 DEF Send, TypeOK
  <1>4. CASE Cleanup
      BY <1>4 DEF Cleanup, TypeOK, File
  <1> QED BY <1>1, <1>2, <1>3, <1>4 DEF Finish

LEMMA TypeEditors ==
  ASSUME TypeInv, Editors PROVE TypeInv'
  <1> USE DEF TypeInv, ChunkLeft, files, session, history
  <1>1. ASSUME NEW r \in Rows, PhoneEdit(r) PROVE TypeInv'
    <2>1. phone \in Database
        BY <1>1, DatabaseFile DEF PhoneEdit, TypeOK
    <2>2. clock' \in Nat /\ [ver |-> clock', state |-> "2", sync |-> "0"] \in Row
        BY <1>1 DEF PhoneEdit, TypeOK, Row
    <2>3. phone' \in Database
        BY <1>1, <2>1, <2>2 DEF PhoneEdit, Database
    <2> QED BY <1>1, <2>2, <2>3 DEF PhoneEdit, TypeOK, File
  <1>2. ASSUME NEW r \in Rows, NEW state \in {"0", "1"}, WebEdit(r, state) PROVE TypeInv'
    <2>1. clock' \in Nat /\ [ver |-> clock', state |-> state, sync |-> "0"] \in Row
        BY <1>2 DEF WebEdit, TypeOK, Row
    <2>2. server' \in Database
        BY <1>2, <2>1 DEF WebEdit, TypeOK, Database
    <2> QED BY <1>2, <2>1, <2>2 DEF WebEdit, TypeOK
  <1>3. ASSUME NEW r \in Rows, NEW s \in {"2", "3"}, WebDelete(r, s) PROVE TypeInv'
    <2>1. server[r] \in Row
        BY DEF TypeOK, Database
    <2>2. server' \in Database
        BY <1>3, <2>1 DEF WebDelete, TypeOK, Database, Row
    <2> QED BY <1>3, <2>2 DEF WebDelete, TypeOK
  <1> QED BY <1>1, <1>2, <1>3 DEF Editors

LEMMA TypeStep ==
  ASSUME TypeInv, [Next]_vars PROVE TypeInv'
  <1>1. CASE Session
      BY <1>1, TypePrepare, TypeToPhone, TypeToPc, TypeFinish DEF Session
  <1>2. CASE Crash
    <2>1. chunks' \in Seq(SUBSET Devices) /\ marks' \in SUBSET Mark /\ picked' \in SUBSET Rows
        BY <1>2 DEF Crash
    <2>2. ChunkLeft' /\ pc' \in Steps
        BY <1>2 DEF Crash, Return, ChunkLeft, HandlerSteps, Steps
    <2> QED BY <1>2, <2>1, <2>2 DEF Crash, Return, TypeInv, TypeOK, files, history
  <1>3. CASE UNCHANGED vars
      BY <1>3 DEF vars, TypeInv, TypeOK, ChunkLeft, files, session, history
  <1> QED BY <1>1, <1>2, <1>3, TypeUser, TypeEditors DEF Next

\* The model is type correct: no failure, crash or interleaving leaves a file,
\* a mark or the session thread's position malformed.
THEOREM TypeCorrect == Spec => []TypeOK
  <1>1. Init => TypeInv
      BY TypeInit
  <1>2. TypeInv /\ [Next]_vars => TypeInv'
      BY TypeStep
  <1>3. TypeInv => TypeOK
      BY DEF TypeInv
  <1> QED BY <1>1, <1>2, <1>3, PTL DEF Spec

-----------------------------------------------------------------------------
(* Acknowledgements.  The inductive invariant says, beside the property,   *)
(* that the server's rows are among the versions it has held, and that the *)
(* rows a handler is about to acknowledge have arrived.                    *)

RowsSettled(db, s) == \A r \in Rows : db[r].sync = "1" => db[r].ver \in s
Settled(f, s) == IsDB(f) => RowsSettled(f, s)

ServerStored == 0 \in stored /\ \A r \in Rows : server[r].ver \in stored
PickedStored ==
  pc \in {"task_ack", "record_ack"} => \A r \in picked : interm[r].ver \in stored

AckInv == ServerStored /\ AckedIsStored /\ PickedStored

LEMMA AckedIsSettled ==
  AckedIsStored <=> \A f \in {phone, interm} \cup backups : Settled(f, stored)
  BY DEF AckedIsStored, Settled, RowsSettled

\* Versions are never forgotten, so what is settled stays settled.
LEMMA SettledGrows ==
  ASSUME NEW f, NEW s, NEW t, s \subseteq t, Settled(f, s) PROVE Settled(f, t)
  BY DEF Settled, RowsSettled

LEMMA DropSettled ==
  ASSUME NEW db, NEW S, NEW s, RowsSettled(db, s) PROVE RowsSettled(Drop(db, S), s)
  BY DEF RowsSettled, Drop, NoRow

LEMMA DropTasksSettled ==
  ASSUME NEW db, NEW ids, NEW k, NEW s, RowsSettled(db, s)
  PROVE  RowsSettled(DropTasks(db, ids, k), s)
  BY DropSettled DEF DropTasks

LEMMA PutSettled ==
  ASSUME NEW db, NEW rows, NEW S, NEW s, RowsSettled(db, s), RowsSettled(rows, s)
  PROVE  RowsSettled(Put(db, rows, S), s)
  BY DEF RowsSettled, Put

LEMMA SyncedVer ==
  ASSUME NEW db \in Database, NEW r \in Rows PROVE Synced(db)[r].ver = db[r].ver
  <1>1. db[r] \in Row
      BY DEF Database
  <1> QED BY <1>1 DEF Synced, Row

LEMMA ServerImage ==
  ASSUME TypeOK, ServerStored
  PROVE  RowsSettled(server, stored) /\ RowsSettled(Synced(server), stored)
  BY SyncedVer DEF TypeOK, ServerStored, RowsSettled

LEMMA FetchSettled ==
  ASSUME NEW S, NEW image, NEW blame, RowsSettled(image, stored), Settled(interm, stored),
         Fetch(S, image, blame)
  PROVE  Settled(interm', stored)
  <1>1. PICK insert, new :
           /\ insert \in SqliteOutcomes
           /\ interm' = interm \/ (insert /\ interm' = Put(interm, image, new))
      BY DEF Fetch
  <1>2. insert \in BOOLEAN /\ (insert = TRUE => RowsSettled(interm, stored))
      BY <1>1, SqliteBoolean, SqliteNeedsDB DEF Settled
  <1> QED BY <1>1, <1>2, PutSettled DEF Settled

LEMMA DeleteOnPhoneSettled ==
  ASSUME NEW ids, Settled(interm, stored), DeleteOnPhone(ids)
  PROVE  Settled(interm', stored)
  <1>1. PICK k : interm' = interm \/ (IsDB(interm) /\ interm' = DropTasks(interm, ids, k))
      BY DEF DeleteOnPhone
  <1> QED BY <1>1, DropTasksSettled DEF Settled

\* The rows kept for acknowledgement are those the server now holds.
LEMMA UploadStores ==
  ASSUME TypeOK, ServerStored, "later" \notin Disturbances, NEW S \in SUBSET Rows,
         S # {} => IsDB(interm), NEW blame, Upload(S, blame)
  PROVE  /\ stored \subseteq stored'
         /\ ServerStored'
         /\ \A r \in picked' : interm[r].ver \in stored'
  <1>1. PICK out \in UpdateMysqlDB(S) :
          /\ server' = Put(server, Synced(interm), out.done)
          /\ stored' = stored \cup {interm[r].ver : r \in out.done}
          /\ picked' = IF out.ret THEN S ELSE {}
      BY DEF Upload
  <1>2. out.ret \in BOOLEAN /\ out.done \subseteq S
      BY UpdateMysqlDBType
  <1>3. out.ret => out.done = S
    <2>1. ASSUME NEW T, out = [ret |-> FALSE, done |-> T] PROVE ~out.ret
        BY <2>1
    <2>2. ASSUME out = [ret |-> TRUE, done |-> S] PROVE out.done = S
        BY <2>2
    <2> QED BY <2>1, <2>2 DEF UpdateMysqlDB, May
  <1>4. \A r \in out.done : Synced(interm)[r].ver = interm[r].ver
      BY <1>2, SyncedVer, DatabaseFile DEF TypeOK
  <1>5. ServerStored'
      BY <1>1, <1>2, <1>4 DEF ServerStored, Put
  <1> QED BY <1>1, <1>2, <1>3, <1>5

LEMMA AckSettled ==
  ASSUME TypeOK, Settled(interm, stored), \A r \in picked : interm[r].ver \in stored, Ack
  PROVE  Settled(interm', stored)
  <1>1. PICK update \in SqliteOutcomes :
          interm' = IF picked # {} /\ update THEN SetSynced(interm, picked) ELSE interm
      BY DEF Ack
  <1>2. CASE picked # {} /\ update
    <2>1. interm \in Database
        BY <1>2, SqliteBoolean, SqliteNeedsDB, DatabaseFile DEF TypeOK
    <2>2. RowsSettled(interm, stored)
        BY <1>2, SqliteBoolean, SqliteNeedsDB DEF Settled
    <2>3. \A r \in picked : Synced(interm)[r].ver \in stored
        BY <2>1, SyncedVer DEF TypeOK
    <2>4. RowsSettled(SetSynced(interm, picked), stored)
        BY <2>2, <2>3 DEF RowsSettled, SetSynced, Put
    <2> QED BY <1>1, <1>2, <2>4 DEF Settled
  <1>3. CASE ~(picked # {} /\ update)
      BY <1>1, <1>3
  <1> QED BY <1>2, <1>3

\* The invariant again, from its parts after a step.
LEMMA AckKeeps ==
  ASSUME AckInv, stored \subseteq stored', ServerStored',
         Settled(phone', stored'), Settled(interm', stored'),
         \A f \in backups' : Settled(f, stored'), PickedStored'
  PROVE  AckInv'
  BY DEF AckInv, AckedIsStored, Settled, RowsSettled

LEMMA AckInit == Init => AckInv
  <1> SUFFICES ASSUME Init PROVE AckInv
      OBVIOUS
  <1> DEFINE start == [r \in Rows |->
        IF r \in Seeded THEN [ver |-> 0, state |-> "2", sync |-> "1"] ELSE NoRow]
  <1>1. \A r \in Rows : start[r].ver = 0
      BY DEF NoRow
  <1>2. phone = start /\ server = start /\ stored = {0}
      BY DEF Init
  <1>3. Settled(phone, stored) /\ ServerStored
      BY <1>1, <1>2 DEF Settled, RowsSettled, ServerStored
  <1>4. Settled(interm, stored) /\ backups = {} /\ PickedStored
      BY DEF Init, Settled, IsDB, PickedStored
  <1> QED BY <1>3, <1>4, AckedIsSettled DEF AckInv

\* Steps that leave the files, the server and its history alone.
LEMMA AckElsewhere ==
  ASSUME AckInv, UNCHANGED <<files, server, stored>>, PickedStored'
  PROVE  AckInv'
  BY DEF AckInv, ServerStored, AckedIsStored, files

LEMMA AckPrepare ==
  ASSUME TypeInv, AckInv, Prepare PROVE AckInv'
  <1> USE DEF files, history
  <1>0. /\ Settled(phone, stored) /\ Settled(interm, stored)
        /\ \A f \in backups : Settled(f, stored)
      BY AckedIsSettled DEF AckInv
  <1>1. PickedStored'
      BY DEF Prepare, Locate, Download, Backup, Connect, Return, PickedStored
  <1>2. CASE Connect
      BY <1>1, <1>2, AckElsewhere DEF Connect
  <1>3. CASE Locate \/ Download \/ Backup
    <2>1. stored' = stored /\ server' = server /\ phone' = phone
        BY <1>3 DEF Locate, Download, Backup
    <2>2. interm' \in {interm, phone, NoFile, Corrupt} /\ backups' \subseteq backups \cup {interm}
        BY <1>3 DEF Locate, Download, Backup
    <2>3. Settled(NoFile, stored) /\ Settled(Corrupt, stored)
        BY DEF Settled, IsDB
    <2> QED BY <1>0, <1>1, <2>1, <2>2, <2>3, AckKeeps DEF AckInv, ServerStored
  <1> QED BY <1>2, <1>3 DEF Prepare

LEMMA AckToPhone ==
  ASSUME TypeInv, AckInv, ToPhone PROVE AckInv'
  <1> USE DEF files, history
  <1>0. /\ Settled(phone, stored) /\ Settled(interm, stored)
        /\ \A f \in backups : Settled(f, stored)
      BY AckedIsSettled DEF AckInv
  <1>1. stored' = stored /\ phone' = phone /\ backups' = backups
      BY DEF ToPhone, Skip, TemplateFetch, TemplateDrop, TypeFetch, TypeDrop, TaskDrop2, TaskDrop3,
             TaskPurge, TaskFetch, RecordFetch
  <1>2. PickedStored'
    <2>1. CASE RecordFetch
        BY <2>1 DEF RecordFetch, NextChunk, PickedStored
    <2>2. CASE ~RecordFetch
        BY <2>2 DEF ToPhone, Skip, TemplateFetch, TemplateDrop, TypeFetch, TypeDrop, TaskDrop2,
             TaskDrop3, TaskPurge, TaskFetch, PickedStored
    <2> QED BY <2>1, <2>2
  <1>3. ServerStored'
    <2>1. CASE TaskPurge
        BY <1>1, <2>1 DEF TaskPurge, AckInv, ServerStored, Drop, NoRow
    <2>2. CASE ~TaskPurge
      <3>1. server' = server
          BY <2>2 DEF ToPhone, Skip, TemplateFetch, TemplateDrop, TypeFetch, TypeDrop, TaskDrop2,
                      TaskDrop3, TaskFetch, RecordFetch
      <3> QED BY <1>1, <3>1 DEF AckInv, ServerStored
    <2> QED BY <2>1, <2>2
  <1>4. RowsSettled(server, stored) /\ RowsSettled(Synced(server), stored)
      BY ServerImage DEF TypeInv, AckInv
  <1>5. Settled(interm', stored)
    <2>1. CASE interm' = interm
        BY <1>0, <2>1
    <2>2. ASSUME NEW S, NEW image \in {server, Synced(server)}, NEW blame, Fetch(S, image, blame)
          PROVE  Settled(interm', stored)
        BY <1>0, <1>4, <2>2, FetchSettled
    <2>3. CASE TemplateFetch \/ TypeFetch
        BY <2>1, <2>2, <2>3 DEF TemplateFetch, TypeFetch
    <2>4. CASE TaskFetch \/ RecordFetch
        BY <2>1, <2>2, <2>4 DEF TaskFetch, RecordFetch
    <2>5. CASE TemplateDrop \/ TypeDrop
      <3>1. PICK delete, old :
              /\ delete \in SqliteOutcomes
              /\ interm' = interm \/ (delete /\ interm' = Drop(interm, old))
          BY <2>5 DEF TemplateDrop, TypeDrop
      <3>2. CASE delete /\ interm' = Drop(interm, old)
          BY <1>0, <3>1, <3>2, SqliteBoolean, SqliteNeedsDB, DropSettled DEF Settled
      <3> QED BY <2>1, <3>1, <3>2
    <2>6. CASE TaskDrop2 \/ TaskDrop3
        BY <1>0, <2>1, <2>6, DeleteOnPhoneSettled DEF TaskDrop2, TaskDrop3
    <2>7. CASE TaskPurge \/ Skip
        BY <2>1, <2>7 DEF TaskPurge, Skip
    <2> QED BY <2>3, <2>4, <2>5, <2>6, <2>7 DEF ToPhone
  <1> QED BY <1>0, <1>1, <1>2, <1>3, <1>5, AckKeeps

LEMMA AckToPc ==
  ASSUME TypeInv, AckInv, "later" \notin Disturbances, ToPc PROVE AckInv'
  <1> USE DEF files, history
  <1>0. /\ Settled(phone, stored) /\ Settled(interm, stored)
        /\ \A f \in backups : Settled(f, stored)
      BY AckedIsSettled DEF AckInv
  <1>1. CASE TaskAck \/ RecordAck
    <2>1. \A r \in picked : interm[r].ver \in stored
        BY <1>1 DEF TaskAck, RecordAck, AckInv, PickedStored
    <2>2. Settled(interm', stored)
        BY <1>0, <1>1, <2>1, AckSettled DEF TaskAck, RecordAck, TypeInv
    <2>3. PickedStored' /\ ServerStored'
        BY <1>1 DEF TaskAck, RecordAck, Ack, AckInv, PickedStored, ServerStored
    <2> QED BY <1>0, <1>1, <2>2, <2>3, AckKeeps DEF TaskAck, RecordAck
  <1>2. CASE TaskUpload \/ RecordUpload
    <2>1. UNCHANGED files
        BY <1>2 DEF TaskUpload, RecordUpload
    <2>2. CASE UNCHANGED <<server, stored>>
               /\ (picked' = {} \/ pc' \notin {"task_ack", "record_ack"})
        BY <2>1, <2>2, AckElsewhere DEF PickedStored
    <2>3. ASSUME NEW S \in SUBSET Rows, S # {} => IsDB(interm), NEW blame, Upload(S, blame)
          PROVE  AckInv'
      <3>1. /\ stored \subseteq stored' /\ ServerStored'
            /\ \A r \in picked' : interm[r].ver \in stored'
          BY <2>3, UploadStores DEF TypeInv, AckInv
      <3> QED BY <1>0, <2>1, <3>1, SettledGrows, AckKeeps DEF PickedStored
    <2>4. CASE TaskUpload
      <3>1. CASE \E read \in ReadOutcomes :
                   Upload(IF read = "read" THEN Pending(interm, "task", Head(chunks)) ELSE {}, TRUE)
          BY <2>3, <3>1, UploadedRows
      <3> QED BY <2>2, <2>4, <3>1 DEF TaskUpload
    <2>5. CASE RecordUpload
      <3>1. CASE ~Missing
          BY <2>3, <2>5, <3>1, UploadedRows DEF RecordUpload
      <3>2. CASE Missing
        <4>1. pc' \notin {"task_ack", "record_ack"}
            BY <2>5, <3>2 DEF RecordUpload, NextChunk
        <4> QED BY <2>2, <2>5, <3>2, <4>1 DEF RecordUpload
      <3> QED BY <3>1, <3>2
    <2> QED BY <1>2, <2>4, <2>5
  <1> QED BY <1>1, <1>2 DEF ToPc

LEMMA AckFinish ==
  ASSUME TypeInv, AckInv, Finish PROVE AckInv'
  <1> USE DEF files, history
  <1>0. /\ Settled(phone, stored) /\ Settled(interm, stored)
        /\ \A f \in backups : Settled(f, stored)
      BY AckedIsSettled DEF AckInv
  <1>1. stored' = stored /\ backups' = backups /\ PickedStored'
      BY DEF Finish, Marks, Erase, Send, Cleanup, Return, PickedStored
  <1>2. phone' \in {phone, interm, NoFile} /\ interm' \in {interm, NoFile}
      BY DEF Finish, Marks, Erase, Send, Cleanup
  <1>3. Settled(NoFile, stored)
      BY DEF Settled, IsDB
  <1>4. ServerStored'
    <2>1. CASE Marks
      <3>1. \A r \in Rows : server[r] \in Row
          BY DEF TypeInv, TypeOK, Database
      <3>2. PICK out \in UpdateMysqlDB(marks) :
              server' = [r \in Rows |->
                IF r \notin {m.row : m \in out.done} \/ ~Has(server, r) THEN server[r]
                ELSE [server[r] EXCEPT !.sync = "1",
                        !.state = IF r \in {m.row : m \in {n \in out.done : n.raise}}
                                    THEN "2" ELSE @]]
          BY <2>1 DEF Marks
      <3>3. \A r \in Rows : server'[r].ver = server[r].ver
        <4> TAKE r \in Rows
        <4>1. server[r] \in Row
            BY <3>1
        <4> QED BY <3>2, <4>1 DEF Row
      <3> QED BY <1>1, <3>3 DEF AckInv, ServerStored
    <2>2. CASE Erase \/ Send \/ Cleanup
        BY <1>1, <2>2 DEF Erase, Send, Cleanup, AckInv, ServerStored
    <2> QED BY <2>1, <2>2 DEF Finish
  <1> QED BY <1>0, <1>1, <1>2, <1>3, <1>4, AckKeeps

LEMMA AckEditors ==
  ASSUME TypeInv, AckInv, Editors PROVE AckInv'
  <1> USE DEF files, session, history
  <1>0. /\ Settled(phone, stored) /\ Settled(interm, stored)
        /\ \A f \in backups : Settled(f, stored)
      BY AckedIsSettled DEF AckInv
  <1>1. ASSUME NEW r \in Rows, PhoneEdit(r) PROVE AckInv'
    <2>1. phone \in Database
        BY <1>1, DatabaseFile DEF PhoneEdit, TypeInv, TypeOK
    <2>2. Settled(phone', stored)
        BY <1>0, <1>1, <2>1 DEF PhoneEdit, Settled, RowsSettled, Database
    <2> QED BY <1>0, <1>1, <2>2, AckKeeps DEF PhoneEdit, AckInv, ServerStored, PickedStored
  <1>2. ASSUME NEW r \in Rows, NEW state, WebEdit(r, state) PROVE AckInv'
    <2>1. stored \subseteq stored' /\ ServerStored'
        BY <1>2 DEF WebEdit, AckInv, ServerStored, TypeInv, TypeOK, Database
    <2>2. PickedStored'
        BY <1>2 DEF WebEdit, AckInv, PickedStored
    <2> QED BY <1>0, <1>2, <2>1, <2>2, SettledGrows, AckKeeps DEF WebEdit
  <1>3. ASSUME NEW r \in Rows, NEW s, WebDelete(r, s) PROVE AckInv'
    <2>1. server[r] \in Row
        BY DEF TypeInv, TypeOK, Database
    <2>2. ServerStored'
        BY <1>3, <2>1 DEF WebDelete, AckInv, ServerStored, TypeInv, TypeOK, Database, Row
    <2> QED BY <1>0, <1>3, <2>2, AckKeeps DEF WebDelete, AckInv, PickedStored
  <1> QED BY <1>1, <1>2, <1>3 DEF Editors

LEMMA AckUser ==
  ASSUME AckInv, User \/ Crash PROVE AckInv'
  <1> USE DEF files, history
  <1>1. UNCHANGED <<files, server, stored>>
    <2>1. CASE \E d \in {"to_pc", "to_phone"} : Click(d)
        BY <2>1 DEF Click
    <2>2. CASE ClickBusy \/ Cancel \/ Confirm \/ Crash
        BY <2>2 DEF ClickBusy, Cancel, Confirm, Crash
    <2> QED BY <2>1, <2>2 DEF User
  <1>2. PickedStored'
    <2>1. CASE \E d \in {"to_pc", "to_phone"} : Click(d)
        BY <2>1 DEF Click, PickedStored
    <2>2. CASE Cancel \/ Confirm \/ Crash
        BY <2>2 DEF Cancel, Confirm, Crash, Return, PickedStored
    <2>3. CASE ClickBusy
        BY <2>3 DEF ClickBusy, AckInv, PickedStored
    <2> QED BY <2>1, <2>2, <2>3 DEF User
  <1> QED BY <1>1, <1>2, AckElsewhere

LEMMA AckStep ==
  ASSUME TypeInv, AckInv, "later" \notin Disturbances, [Next]_vars PROVE AckInv'
  <1>1. CASE Session
      BY <1>1, AckPrepare, AckToPhone, AckToPc, AckFinish DEF Session
  <1>2. CASE User \/ Crash
      BY <1>2, AckUser
  <1>3. CASE UNCHANGED vars
      BY <1>3, AckElsewhere DEF vars, session, files, history, PickedStored, AckInv
  <1> QED BY <1>1, <1>2, <1>3, AckEditors DEF Next

\* No row is ever acknowledged, in any file, before the server held it, as
\* long as a batch that reports success carried out all of its statements.
THEOREM AcknowledgedWasStored ==
  ASSUME "later" \notin Disturbances
  PROVE  Spec => []AckedIsStored
  <1>1. Init => TypeInv /\ AckInv
      BY TypeInit, AckInit
  <1>2. TypeInv /\ AckInv /\ [Next]_vars => (TypeInv /\ AckInv)'
      BY TypeStep, AckStep
  <1>3. AckInv => AckedIsStored
      BY DEF AckInv
  <1> QED BY <1>1, <1>2, <1>3, PTL DEF Spec
=============================================================================
