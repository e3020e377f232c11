-------------------------- MODULE WorkSync_upwards --------------------------
(***************************************************************************)
(* From the phone to the server: the session implements Delivery, nothing  *)
(* the worker wrote is lost on the way, and the phone is left a file.      *)
(***************************************************************************)
EXTENDS WorkSync_proofs

-----------------------------------------------------------------------------
(* The refinement.  written are the versions given so far, received those  *)
(* the server has held, acked those that some file of the phone's side     *)
(* counts as synchronised.                                                 *)

\* No file holds a version that nobody wrote.
RowsKnown(db, n) == \A r \in Rows : db[r].ver \in 0..n
Known(f, n) == IsDB(f) => RowsKnown(f, n)

VersionInv ==
  /\ stored \subseteq 0..clock
  /\ \A f \in {phone, interm} \cup backups : Known(f, clock)

RefineInv == TypeInv /\ AckInv /\ VersionInv

-----------------------------------------------------------------------------
(* How a step may change the files. *)

\* Outside uploads and edits a file is replaced by another file, or goes.
Shuffled ==
  {phone', interm'} \cup backups' \subseteq {phone, interm, NoFile, Corrupt} \cup backups

LEMMA PrepareShuffles ==
  ASSUME Prepare PROVE Shuffled /\ stored' = stored /\ clock' = clock
  BY DEF Shuffled, Prepare, Locate, Download, Backup, Connect, files, history

LEMMA FinishShuffles ==
  ASSUME Finish PROVE Shuffled /\ stored' = stored /\ clock' = clock
  BY DEF Shuffled, Finish, Marks, Erase, Send, Cleanup, files, history

LEMMA UserShuffles ==
  ASSUME User \/ Crash \/ UNCHANGED vars
  PROVE  Shuffled /\ stored' = stored /\ clock' = clock
  BY DEF Shuffled, User, Click, ClickBusy, Cancel, Confirm, Crash, vars, files, history

\* A handler towards the phone deletes rows of the file or puts the server's.
FromServer ==
  \/ interm' = interm
  \/ IsDB(interm) /\ \E S : interm' = Drop(interm, S)
  \/ /\ IsDB(interm)
     /\ \E S, image : image \in {server, Synced(server)} /\ interm' = Put(interm, image, S)

LEMMA ToPhoneFile ==
  ASSUME ToPhone
  PROVE  /\ phone' = phone /\ backups' = backups /\ stored' = stored /\ clock' = clock
         /\ FromServer
  <1>1. phone' = phone /\ backups' = backups /\ stored' = stored /\ clock' = clock
      BY DEF ToPhone, Skip, TemplateFetch, TemplateDrop, TypeFetch, TypeDrop, TaskDrop2,
             TaskDrop3, TaskPurge, TaskFetch, RecordFetch, files, history
  <1>2. ASSUME NEW S, NEW image \in {server, Synced(server)}, NEW blame, Fetch(S, image, blame)
        PROVE  FromServer
    <2>1. PICK insert, new :
             /\ insert \in SqliteOutcomes
             /\ interm' = interm \/ (insert /\ interm' = Put(interm, image, new))
        BY <1>2 DEF Fetch
    <2> QED BY <2>1, SqliteBoolean, SqliteNeedsDB DEF FromServer
  <1>3. ASSUME NEW ids, DeleteOnPhone(ids) PROVE FromServer
    <2>1. PICK k : interm' = interm \/ (IsDB(interm) /\ interm' = DropTasks(interm, ids, k))
        BY <1>3 DEF DeleteOnPhone
    <2>2. \E S : DropTasks(interm, ids, k) = Drop(interm, S)
        BY DEF DropTasks
    <2> QED BY <2>1, <2>2 DEF FromServer
  <1>4. interm' = interm => FromServer
      BY DEF FromServer
  <1>5. CASE TemplateDrop \/ TypeDrop
    <2>1. PICK delete, old :
            /\ delete \in SqliteOutcomes
            /\ interm' = interm \/ (delete /\ interm' = Drop(interm, old))
        BY <1>5 DEF TemplateDrop, TypeDrop
    <2>2. delete = TRUE => IsDB(interm)
        BY <2>1, SqliteNeedsDB
    <2> QED BY <1>1, <2>1, <2>2, SqliteBoolean DEF FromServer
  <1>6. CASE TemplateFetch \/ TypeFetch
      BY <1>1, <1>2, <1>4, <1>6 DEF TemplateFetch, TypeFetch
  <1>7. CASE TaskFetch \/ RecordFetch
      BY <1>1, <1>2, <1>4, <1>7 DEF TaskFetch, RecordFetch
  <1>8. CASE TaskDrop2 \/ TaskDrop3
      BY <1>1, <1>3, <1>4, <1>8 DEF TaskDrop2, TaskDrop3
  <1>9. CASE TaskPurge \/ Skip
      BY <1>1, <1>4, <1>9 DEF TaskPurge, Skip, files
  <1> QED BY <1>1, <1>5, <1>6, <1>7, <1>8, <1>9 DEF ToPhone

-----------------------------------------------------------------------------
(* Versions. *)

LEMMA KnownNoFile == ASSUME NEW n PROVE Known(NoFile, n) /\ Known(Corrupt, n)
  BY DEF Known, IsDB

LEMMA KnownGrows ==
  ASSUME NEW f, NEW n \in Nat, NEW k \in Nat, n <= k, Known(f, n) PROVE Known(f, k)
  BY DEF Known, RowsKnown

LEMMA ServerKnown ==
  ASSUME TypeInv, AckInv, VersionInv
  PROVE  RowsKnown(server, clock) /\ RowsKnown(Synced(server), clock)
  BY SyncedVer DEF TypeInv, TypeOK, AckInv, ServerStored, VersionInv, RowsKnown

LEMMA VersionShuffle ==
  ASSUME VersionInv, Shuffled, stored' = stored, clock' = clock
  PROVE  VersionInv'
  BY KnownNoFile DEF VersionInv, Shuffled, Known, RowsKnown, IsDB

LEMMA VersionToPhone ==
  ASSUME TypeInv, AckInv, VersionInv, ToPhone PROVE VersionInv'
  <1>1. Known(interm', clock)
    <2>1. Known(interm, clock) /\ clock \in Nat
        BY DEF VersionInv, TypeInv, TypeOK
    <2>2. ASSUME NEW S, IsDB(interm), interm' = Drop(interm, S) PROVE Known(interm', clock)
        BY <2>1, <2>2 DEF Known, RowsKnown, Drop, NoRow
    <2>3. ASSUME NEW S, NEW image, image \in {server, Synced(server)}, IsDB(interm),
                 interm' = Put(interm, image, S)
          PROVE  Known(interm', clock)
        BY <2>1, <2>3, ServerKnown DEF Known, RowsKnown, Put
    <2> QED BY <2>1, <2>2, <2>3, ToPhoneFile DEF FromServer
  <1> QED BY <1>1, ToPhoneFile DEF VersionInv

\* Towards the server: an upload leaves the files, an acknowledgement what the
\* server has held.
ToServer ==
  \/ /\ interm' = interm
     /\ \/ stored' = stored
        \/ \E S \in SUBSET Rows : /\ S # {} => IsDB(interm)
                                  /\ stored' = stored \cup {interm[r].ver : r \in S}
  \/ /\ stored' = stored /\ IsDB(interm)
     /\ interm' = SetSynced(interm, picked)

LEMMA ToPcFiles ==
  ASSUME ToPc
  PROVE  /\ phone' = phone /\ backups' = backups /\ clock' = clock
         /\ ToServer
  <1>1. phone' = phone /\ backups' = backups /\ clock' = clock
      BY DEF ToPc, TaskUpload, TaskAck, RecordUpload, RecordAck, files, history
  <1>2. CASE TaskAck \/ RecordAck
    <2>1. Ack /\ stored' = stored
        BY <1>2 DEF TaskAck, RecordAck, history
    <2>2. PICK update \in SqliteOutcomes :
            interm' = IF picked # {} /\ update THEN SetSynced(interm, picked) ELSE interm
        BY <2>1 DEF Ack
    <2> QED BY <1>1, <2>1, <2>2, SqliteBoolean, SqliteNeedsDB DEF ToServer
  <1>3. ASSUME NEW S \in SUBSET Rows, S # {} => IsDB(interm), NEW blame, Upload(S, blame),
               interm' = interm
        PROVE  ToServer
    <2>1. PICK out \in UpdateMysqlDB(S) : stored' = stored \cup {interm[r].ver : r \in out.done}
        BY <1>3 DEF Upload
    <2>2. out.done \subseteq S
        BY UpdateMysqlDBType
    <2> QED BY <1>3, <2>1, <2>2 DEF ToServer
  <1>0. (interm' = interm /\ stored' = stored) => ToServer
      BY DEF ToServer
  <1>4. CASE TaskUpload
    <2>1. interm' = interm
        BY <1>4 DEF TaskUpload, files
    <2>2. CASE \E read \in ReadOutcomes :
                 Upload(IF read = "read" THEN Pending(interm, "task", Head(chunks)) ELSE {}, TRUE)
        BY <1>1, <1>3, <2>1, <2>2, UploadedRows
    <2> QED BY <1>0, <1>1, <1>4, <2>1, <2>2 DEF TaskUpload
  <1>5. CASE RecordUpload
    <2>1. interm' = interm
        BY <1>5 DEF RecordUpload, files
    <2>2. CASE ~Missing
        BY <1>1, <1>3, <1>5, <2>1, <2>2, UploadedRows DEF RecordUpload
    <2>3. CASE Missing
        BY <1>0, <1>1, <1>5, <2>1, <2>3 DEF RecordUpload
    <2> QED BY <2>2, <2>3
  <1> QED BY <1>1, <1>2, <1>4, <1>5 DEF ToPc

LEMMA VersionToPc ==
  ASSUME TypeInv, VersionInv, ToPc PROVE VersionInv'
  <1>1. Known(interm, clock) /\ clock' = clock
      BY ToPcFiles DEF VersionInv
  <1>2. ASSUME NEW S \in SUBSET Rows, S # {} => IsDB(interm),
               stored' = stored \cup {interm[r].ver : r \in S}
        PROVE  stored' \subseteq 0..clock
      BY <1>1, <1>2 DEF VersionInv, Known, RowsKnown
  <1>3. stored' \subseteq 0..clock
      BY <1>2, ToPcFiles DEF ToServer, VersionInv
  <1>4. ASSUME IsDB(interm), interm' = SetSynced(interm, picked) PROVE Known(interm', clock)
    <2>1. interm \in Database
        BY <1>4, DatabaseFile DEF TypeInv, TypeOK
    <2> QED BY <1>1, <1>4, <2>1, SyncedVer DEF Known, RowsKnown, SetSynced, Put
  <1>5. Known(interm', clock)
      BY <1>1, <1>4, ToPcFiles DEF ToServer
  <1> QED BY <1>1, <1>3, <1>5, ToPcFiles DEF VersionInv

\* An edit gives the next version to one row, on the phone or on the server.
LEMMA EditorsFiles ==
  ASSUME TypeInv, Editors
  PROVE  /\ interm' = interm /\ backups' = backups
         /\ \/ phone' = phone /\ clock' = clock /\ stored' = stored
            \/ phone' = phone /\ clock' = clock + 1 /\ stored' = stored \cup {clock + 1}
            \/ /\ clock' = clock + 1 /\ stored' = stored
               /\ phone \in Database
               /\ \E r \in Rows : phone' = [phone EXCEPT ![r] =
                                    [ver |-> clock + 1, state |-> "2", sync |-> "0"]]
  <1> USE DEF files, session, history
  <1>1. ASSUME NEW r \in Rows, PhoneEdit(r)
        PROVE  /\ interm' = interm /\ backups' = backups
               /\ clock' = clock + 1 /\ stored' = stored
               /\ phone \in Database
               /\ phone' = [phone EXCEPT ![r] =
                              [ver |-> clock + 1, state |-> "2", sync |-> "0"]]
      BY <1>1, DatabaseFile DEF PhoneEdit, TypeInv, TypeOK
  <1>2. ASSUME NEW r \in Rows, NEW state, WebEdit(r, state)
        PROVE  /\ interm' = interm /\ backups' = backups /\ phone' = phone
               /\ clock' = clock + 1 /\ stored' = stored \cup {clock + 1}
      BY <1>2 DEF WebEdit
  <1>3. ASSUME NEW r \in Rows, NEW s, WebDelete(r, s)
        PROVE  /\ interm' = interm /\ backups' = backups /\ phone' = phone
               /\ clock' = clock /\ stored' = stored
      BY <1>3 DEF WebDelete
  <1> QED BY <1>1, <1>2, <1>3 DEF Editors

LEMMA VersionEditors ==
  ASSUME TypeInv, VersionInv, Editors PROVE VersionInv'
  <1>1. clock \in Nat /\ stored \subseteq 0..clock
      BY DEF TypeInv, TypeOK, VersionInv
  <1>2. clock' \in Nat /\ clock <= clock' /\ stored' \subseteq 0..clock'
    <2>1. clock' \in {clock, clock + 1} /\ stored' \subseteq stored \cup {clock'}
        BY EditorsFiles
    <2> QED BY <1>1, <2>1
  <1>3. \A f \in {phone, interm} \cup backups : Known(f, clock')
      BY <1>1, <1>2, KnownGrows DEF VersionInv
  <1>4. ASSUME NEW r \in Rows, phone \in Database, clock' = clock + 1,
               phone' = [phone EXCEPT ![r] = [ver |-> clock + 1, state |-> "2", sync |-> "0"]]
        PROVE  Known(phone', clock')
    <2>1. RowsKnown(phone, clock')
        BY <1>3, <1>4, FileAssumption DEF Known, IsDB
    <2> QED BY <1>1, <1>4, <2>1 DEF Known, RowsKnown, Database
  <1>5. Known(phone', clock')
      BY <1>3, <1>4, EditorsFiles
  <1> QED BY <1>2, <1>3, <1>5, EditorsFiles DEF VersionInv

LEMMA RefineInit == Init => RefineInv
  <1> SUFFICES ASSUME Init PROVE VersionInv
      BY TypeInit, AckInit DEF RefineInv
  <1> DEFINE start == [r \in Rows |->
        IF r \in Seeded THEN [ver |-> 0, state |-> "2", sync |-> "1"] ELSE NoRow]
  <1>1. \A r \in Rows : start[r].ver = 0
      BY DEF NoRow
  <1>2. phone = start /\ stored = {0} /\ clock = 0 /\ interm = NoFile /\ backups = {}
      BY DEF Init
  <1>3. Known(phone, 0) /\ Known(interm, 0)
      BY <1>1, <1>2, KnownNoFile DEF Known, RowsKnown
  <1> QED BY <1>2, <1>3 DEF VersionInv

LEMMA RefineStep ==
  ASSUME RefineInv, "later" \notin Disturbances, [Next]_vars PROVE RefineInv'
  <1> USE DEF RefineInv
  <1>1. VersionInv'
    <2>1. CASE Session
        BY <2>1, PrepareShuffles, FinishShuffles, VersionShuffle, VersionToPhone, VersionToPc
           DEF Session
    <2>2. CASE User \/ Crash \/ UNCHANGED vars
        BY <2>2, UserShuffles, VersionShuffle
    <2> QED BY <2>1, <2>2, VersionEditors DEF Next
  <1> QED BY <1>1, TypeStep, AckStep

-----------------------------------------------------------------------------
(* The refinement. *)

\* What any file counts as synchronised, the server has held.
LEMMA AcknowledgedStored == AckInv => Acknowledged \subseteq stored
  BY DEF AckInv, AckedIsStored, Acknowledged

\* Files that do not change acknowledge the same versions.
LEMMA AcknowledgedSame ==
  ASSUME phone' = phone, interm' = interm, backups' = backups
  PROVE  Acknowledged' = Acknowledged
  BY DEF Acknowledged

\* A row the worker writes is no longer acknowledged.
LEMMA AcknowledgedEdit ==
  ASSUME phone \in Database, NEW r \in Rows, NEW v, interm' = interm, backups' = backups,
         phone' = [phone EXCEPT ![r] = [ver |-> v, state |-> "2", sync |-> "0"]]
  PROVE  Acknowledged' \subseteq Acknowledged
  <1> DEFINE Acks(f) == {f[p].ver : p \in {q \in Rows : f[q].sync = "1"}}
  <1>1. Acks(phone') \subseteq Acks(phone)
    <2>1. ASSUME NEW q \in Rows, phone'[q].sync = "1"
          PROVE  phone[q].sync = "1" /\ phone'[q].ver = phone[q].ver
        BY <2>1 DEF Database
    <2> QED BY <2>1
  <1>2. IsDB(phone)
      BY FileAssumption DEF IsDB
  <1> SUFFICES ASSUME NEW a \in Acknowledged' PROVE a \in Acknowledged
      OBVIOUS
  <1>3. PICK f : f \in {phone', interm'} \cup backups' /\ IsDB(f) /\ a \in Acks(f)
      BY DEF Acknowledged
  <1>4. PICK g : g \in {phone, interm} \cup backups /\ IsDB(g) /\ a \in Acks(g)
      BY <1>1, <1>2, <1>3
  <1> QED BY <1>4 DEF Acknowledged

LEMMA RefineEdit ==
  ASSUME RefineInv, Editors PROVE [Upwards!Next]_(Upwards!vars)
  <1> USE DEF RefineInv
  <1>1. CASE phone' = phone /\ clock' = clock /\ stored' = stored
      BY <1>1, EditorsFiles, AcknowledgedSame DEF Upwards!vars
  <1>2. CASE clock' = clock + 1
    <2>1. clock + 1 \in (0..clock') \ (0..clock) /\ 0..clock' = (0..clock) \cup {clock + 1}
        BY <1>2 DEF TypeInv, TypeOK
    <2>2. Acknowledged' \subseteq Acknowledged
        BY <1>2, EditorsFiles, AcknowledgedSame, AcknowledgedEdit
    <2>3. stored' \in {stored, stored \cup {clock + 1}}
        BY EditorsFiles
    <2>4. Upwards!Write(clock + 1)
        BY <2>1, <2>2, <2>3 DEF Upwards!Write, TypeInv, TypeOK
    <2> QED BY <2>1, <2>4 DEF Upwards!Next
  <1> QED BY <1>1, <1>2, EditorsFiles

\* Every step of a session is a step of Delivery, or none.
LEMMA RefineNext ==
  ASSUME RefineInv, RefineInv', [Next]_vars PROVE [Upwards!Next]_(Upwards!vars)
  <1> USE DEF RefineInv
  <1>1. ASSUME clock' = clock, stored' = stored PROVE Upwards!Next
    <2>1. Acknowledged' \subseteq stored'
        BY AcknowledgedStored DEF Acknowledged, AckInv, AckedIsStored
    <2> QED BY <1>1, <2>1 DEF Upwards!Next, Upwards!Acknowledge
  <1>2. CASE ToPc
    <2>1. clock' = clock
        BY <1>2, ToPcFiles
    <2>2. CASE stored' # stored
      <3>1. stored \subseteq stored' /\ Acknowledged' = Acknowledged
          BY <1>2, <2>2, ToPcFiles, AcknowledgedSame DEF ToServer
      <3>2. stored' \subseteq 0..clock
          BY <2>1 DEF VersionInv
      <3> QED BY <2>1, <3>1, <3>2 DEF Upwards!Next, Upwards!Receive
    <2> QED BY <1>1, <2>1, <2>2
  <1>3. CASE Prepare \/ Finish \/ User \/ Crash \/ UNCHANGED vars
      BY <1>1, <1>3, PrepareShuffles, FinishShuffles, UserShuffles
  <1>4. CASE ToPhone
      BY <1>1, <1>4, ToPhoneFile
  <1> QED BY <1>2, <1>3, <1>4, RefineEdit DEF Next, Session

\* Synchronising towards the server implements Delivery: whatever fails and
\* whoever edits, a version is written, then held by the server, and only then
\* acknowledged on the phone's side, as long as a batch of statements that
\* reports success carried out all of them.
THEOREM ImplementsDelivery ==
  ASSUME "later" \notin Disturbances
  PROVE  Spec => UpwardsDelivered
  <1>1. Init => Upwards!Init
    <2> SUFFICES ASSUME Init PROVE Upwards!Init
        OBVIOUS
    <2>1. clock = 0 /\ stored = {0} /\ Acknowledged \subseteq stored
        BY AckInit, AcknowledgedStored DEF Init
    <2> QED BY <2>1 DEF Upwards!Init
  <1>2. Init => RefineInv
      BY RefineInit
  <1>3. RefineInv /\ [Next]_vars => RefineInv'
      BY RefineStep
  <1>4. RefineInv /\ RefineInv' /\ [Next]_vars => [Upwards!Next]_(Upwards!vars)
      BY RefineNext
  <1> QED BY <1>1, <1>2, <1>3, <1>4, PTL DEF Spec, UpwardsDelivered, Upwards!Spec

-----------------------------------------------------------------------------

\* The worker writes into a database and leaves one.
LEMMA PhoneEditFile ==
  ASSUME TypeInv, NEW r \in Rows, PhoneEdit(r)
  PROVE  /\ phone \in Database /\ IsDB(phone')
         /\ phone' = [phone EXCEPT ![r] = [ver |-> clock', state |-> "2", sync |-> "0"]]
         /\ work' = [work EXCEPT ![r] = clock'] /\ work \in [Rows -> Nat]
         /\ UNCHANGED <<interm, backups, pc, ok, stored>>
  <1>1. phone \in Database /\ clock' \in Nat
      BY DatabaseFile DEF PhoneEdit, TypeInv, TypeOK
  <1>2. phone' = [phone EXCEPT ![r] = [ver |-> clock', state |-> "2", sync |-> "0"]]
      BY DEF PhoneEdit
  <1>3. phone' \in Database
    <2>1. [ver |-> clock', state |-> "2", sync |-> "0"] \in Row
        BY <1>1 DEF Row
    <2> QED BY <1>1, <1>2, <2>1 DEF Database
  <1>4. IsDB(phone')
      BY <1>3, FileAssumption DEF IsDB
  <1> QED BY <1>1, <1>2, <1>4 DEF PhoneEdit, session, TypeInv, TypeOK

-----------------------------------------------------------------------------
(* The worker's writes.  The intermediate file plays no part in it: what   *)
(* was written is on the server, on the phone or in a backup, and from the *)
(* backup on until the new file was sent the phone's file is in a backup.  *)

\* The steps between the backup and the end of the transfer.
BackedUp == Steps \ {"idle", "confirm", "locate", "download", "backup", "cleanup"}

Holds(f, r) == IsDB(f) /\ f[r].ver = work[r]
Kept(r) == work[r] \in stored \/ \E f \in {phone} \cup backups : Holds(f, r)

DownloadedIsPhone == pc = "backup" => interm = phone
PhoneInBackups == pc \in BackedUp /\ IsDB(phone) => phone \in backups

SurvivalInv ==
  /\ \A r \in Rows : Kept(r)
  /\ DownloadedIsPhone
  /\ PhoneInBackups

\* Nothing is forgotten as long as backups and what was stored only grow and
\* the phone's file is left alone or is in a backup.
LEMMA KeptKeeps ==
  ASSUME NEW r \in Rows, Kept(r), work' = work, stored \subseteq stored',
         backups \subseteq backups', phone' = phone \/ (IsDB(phone) => phone \in backups')
  PROVE  Kept(r)'
  BY DEF Kept, Holds, IsDB

LEMMA SurvivalInit == Init => SurvivalInv
  <1> SUFFICES ASSUME Init PROVE SurvivalInv
      OBVIOUS
  <1>1. \A r \in Rows : work[r] \in stored
      BY DEF Init
  <1> QED BY <1>1 DEF Init, SurvivalInv, Kept, DownloadedIsPhone, PhoneInBackups, BackedUp

\* Steps that leave the phone's file and the backups alone, and do not enter
\* the part of the session that relies on the backup.
LEMMA SurvivalElsewhere ==
  ASSUME SurvivalInv, work' = work, stored \subseteq stored', phone' = phone,
         backups' = backups, pc' # "backup", pc' \in BackedUp => pc \in BackedUp
  PROVE  SurvivalInv'
  <1>1. ASSUME NEW r \in Rows PROVE Kept(r)'
      BY KeptKeeps DEF SurvivalInv
  <1> QED BY <1>1 DEF SurvivalInv, DownloadedIsPhone, PhoneInBackups

LEMMA SurvivalPrepare ==
  ASSUME SurvivalInv, {"download", "backup"} \cap Disturbances = {}, Prepare
  PROVE  SurvivalInv'
  <1> USE DEF files, history
  <1>1. CASE Locate
      BY <1>1, SurvivalElsewhere DEF Locate, Return, BackedUp
  <1>2. CASE Download
    <2>1. ASSUME NEW r \in Rows PROVE Kept(r)'
        BY <1>2, KeptKeeps DEF Download, SurvivalInv
    <2> QED BY <1>2, <2>1 DEF Download, May, SurvivalInv, DownloadedIsPhone,
                               PhoneInBackups, BackedUp
  <1>3. CASE Backup
    <2>1. backups' = (IF phone = NoFile THEN backups ELSE backups \cup {phone})
        BY <1>3 DEF Backup, May, SurvivalInv, DownloadedIsPhone
    <2>2. ASSUME NEW r \in Rows PROVE Kept(r)'
        BY <1>3, <2>1, KeptKeeps DEF Backup, SurvivalInv
    <2>3. IsDB(phone) => phone \in backups'
        BY <2>1 DEF IsDB
    <2> QED BY <1>3, <2>2, <2>3 DEF Backup, SurvivalInv, DownloadedIsPhone, PhoneInBackups
  <1>4. CASE Connect
      BY <1>4, SurvivalElsewhere DEF Connect, Return, BackedUp, Steps
  <1> QED BY <1>1, <1>2, <1>3, <1>4 DEF Prepare

LEMMA SurvivalHandlers ==
  ASSUME TypeInv, SurvivalInv, ToPhone \/ ToPc PROVE SurvivalInv'
  <1> USE DEF files, history
  <1>1. phone' = phone /\ backups' = backups /\ work' = work
      BY DEF ToPhone, ToPc, Skip, TemplateFetch, TemplateDrop, TypeFetch, TypeDrop, TaskDrop2,
             TaskDrop3, TaskPurge, TaskFetch, RecordFetch, TaskUpload, TaskAck, RecordUpload,
             RecordAck
  <1>2. stored \subseteq stored'
    <2>1. CASE ToPhone
        BY <2>1 DEF ToPhone, Skip, TemplateFetch, TemplateDrop, TypeFetch, TypeDrop, TaskDrop2,
             TaskDrop3, TaskPurge, TaskFetch, RecordFetch
    <2>2. CASE TaskUpload \/ RecordUpload
        BY <2>2 DEF TaskUpload, RecordUpload, Upload
    <2>3. CASE TaskAck \/ RecordAck
        BY <2>3 DEF TaskAck, RecordAck
    <2> QED BY <2>1, <2>2, <2>3 DEF ToPc
  <1>3. pc \in BackedUp /\ pc' # "backup"
    <2>1. CASE ToPhone
        BY <2>1 DEF ToPhone, Skip, TemplateFetch, TemplateDrop, TypeFetch, TypeDrop, TaskDrop2,
             TaskDrop3, TaskPurge, TaskFetch, RecordFetch, NextChunk, BackedUp, Steps,
             HandlerSteps
    <2>2. CASE ToPc
        BY <2>2 DEF ToPc, TaskUpload, TaskAck, RecordUpload, RecordAck, NextChunk, BackedUp,
             Steps, HandlerSteps
    <2> QED BY <2>1, <2>2
  <1> QED BY <1>1, <1>2, <1>3, SurvivalElsewhere

LEMMA SurvivalFinish ==
  ASSUME SurvivalInv, Finish PROVE SurvivalInv'
  <1> USE DEF files, history
  <1>1. CASE Marks \/ Cleanup
      BY <1>1, SurvivalElsewhere DEF Marks, Cleanup, Return, BackedUp, Steps
  <1>2. CASE Erase \/ Send
    <2>1. IsDB(phone) => phone \in backups
        BY <1>2 DEF Erase, Send, SurvivalInv, PhoneInBackups, BackedUp, Steps
    <2>2. ASSUME NEW r \in Rows PROVE Kept(r)'
        BY <1>2, <2>1, KeptKeeps DEF Erase, Send, SurvivalInv
    <2>3. PhoneInBackups' /\ DownloadedIsPhone'
        BY <1>2, <2>1 DEF Erase, Send, PhoneInBackups, DownloadedIsPhone, BackedUp, IsDB
    <2> QED BY <2>2, <2>3 DEF SurvivalInv
  <1> QED BY <1>1, <1>2 DEF Finish

LEMMA SurvivalEditors ==
  ASSUME TypeInv, SurvivalInv, "phone_edit" \notin Disturbances, Editors PROVE SurvivalInv'
  <1> USE DEF files, session, history
  <1>1. ASSUME NEW r \in Rows, PhoneEdit(r) PROVE SurvivalInv'
    <2>1. pc = "idle" /\ pc' = "idle" /\ IsDB(phone)
        BY <1>1 DEF PhoneEdit, May
    <2>2. ASSUME NEW q \in Rows PROVE Kept(q)'
      <3>1. Kept(q)
          BY DEF SurvivalInv
      <3>2. CASE q = r
        <4>1. Holds(phone, q)'
            BY <1>1, <3>2, PhoneEditFile DEF Holds, Database
        <4> QED BY <4>1 DEF Kept
      <3>3. CASE q # r
        <4>1. /\ work'[q] = work[q] /\ phone'[q] = phone[q] /\ IsDB(phone')
              /\ stored' = stored /\ backups' = backups
            BY <1>1, <3>3, PhoneEditFile DEF Database
        <4> QED BY <3>1, <4>1 DEF Kept, Holds
      <3> QED BY <3>2, <3>3
    <2> QED BY <2>1, <2>2 DEF SurvivalInv, DownloadedIsPhone, PhoneInBackups, BackedUp
  <1>2. ASSUME work' = work, stored \subseteq stored', UNCHANGED <<phone, interm, backups, pc>>
        PROVE  SurvivalInv'
    <2>1. ASSUME NEW r \in Rows PROVE Kept(r)'
        BY <1>2, KeptKeeps DEF SurvivalInv
    <2> QED BY <1>2, <2>1 DEF SurvivalInv, DownloadedIsPhone, PhoneInBackups
  <1>3. ASSUME NEW r \in Rows, NEW state, WebEdit(r, state) PROVE SurvivalInv'
      BY <1>2, <1>3 DEF WebEdit
  <1>4. ASSUME NEW r \in Rows, NEW s, WebDelete(r, s) PROVE SurvivalInv'
      BY <1>2, <1>4 DEF WebDelete
  <1> QED BY <1>1, <1>3, <1>4 DEF Editors

LEMMA SurvivalUser ==
  ASSUME SurvivalInv, User \/ Crash \/ UNCHANGED vars PROVE SurvivalInv'
  <1> USE DEF files, history
  <1>1. ASSUME NEW d \in {"to_pc", "to_phone"}, Click(d) PROVE SurvivalInv'
      BY <1>1, SurvivalElsewhere DEF Click, BackedUp
  <1>2. CASE Cancel \/ Confirm \/ Crash
      BY <1>2, SurvivalElsewhere DEF Cancel, Confirm, Crash, Return, BackedUp
  <1>3. CASE ClickBusy \/ UNCHANGED vars
    <2>1. work' = work /\ stored' = stored /\ UNCHANGED <<phone, interm, backups, pc>>
        BY <1>3 DEF ClickBusy, vars, session
    <2>2. ASSUME NEW r \in Rows PROVE Kept(r)'
        BY <2>1, KeptKeeps DEF SurvivalInv
    <2> QED BY <2>1, <2>2 DEF SurvivalInv, DownloadedIsPhone, PhoneInBackups
  <1> QED BY <1>1, <1>2, <1>3 DEF User

\* Whatever fails and wherever a session stops, the last thing the worker
\* wrote into a row is on the server, on the phone or in a backup, as long as
\* the download and the backup are complete and the worker rests meanwhile.
THEOREM NothingIsLost ==
  ASSUME {"download", "backup", "phone_edit"} \cap Disturbances = {}
  PROVE  Spec => []NoWorkLost
  <1>1. Init => TypeInv /\ SurvivalInv
      BY TypeInit, SurvivalInit
  <1>2. TypeInv /\ SurvivalInv /\ [Next]_vars => (TypeInv /\ SurvivalInv)'
    <2> SUFFICES ASSUME TypeInv, SurvivalInv, [Next]_vars PROVE TypeInv' /\ SurvivalInv'
        OBVIOUS
    <2>1. SurvivalInv'
        BY SurvivalPrepare, SurvivalHandlers, SurvivalFinish, SurvivalEditors, SurvivalUser
           DEF Next, Session
    <2> QED BY <2>1, TypeStep
  <1>3. SurvivalInv => NoWorkLost
      BY DEF SurvivalInv, Kept, Holds, NoWorkLost
  <1> QED BY <1>1, <1>2, <1>3, PTL DEF Spec

-----------------------------------------------------------------------------
(* A file on the phone. *)

SentInv == pc \in {"idle", "cleanup"} /\ ok => phone # NoFile

LEMMA SentStep ==
  ASSUME TypeInv, SentInv, "commit" \notin Disturbances, [Next]_vars PROVE SentInv'
  <1> USE DEF SentInv, files, session, history
  <1>1. CASE User \/ Crash \/ UNCHANGED vars
      BY <1>1 DEF User, Click, ClickBusy, Cancel, Confirm, Crash, Return, vars
  <1>2. CASE Prepare
      BY <1>2 DEF Prepare, Locate, Download, Backup, Connect, Return
  <1>3. CASE ToPhone
      BY <1>3 DEF ToPhone, Skip, TemplateFetch, TemplateDrop, TypeFetch, TypeDrop, TaskDrop2,
             TaskDrop3, TaskPurge, TaskFetch, RecordFetch, NextChunk
  <1>4. CASE ToPc
      BY <1>4 DEF ToPc, TaskUpload, TaskAck, RecordUpload, RecordAck, NextChunk
  <1>5. CASE Marks
      BY <1>5 DEF Marks, Return
  <1>6. CASE Erase \/ Cleanup
      BY <1>6 DEF Erase, Cleanup, Return
  <1>7. CASE Send
      BY <1>7 DEF Send, Missing, May
  <1>8. ASSUME NEW r \in Rows, PhoneEdit(r) PROVE SentInv'
      BY <1>8, PhoneEditFile DEF IsDB
  <1>9. ASSUME NEW r \in Rows, NEW state, WebEdit(r, state) PROVE SentInv'
      BY <1>9 DEF WebEdit
  <1>10. ASSUME NEW r \in Rows, NEW s, WebDelete(r, s) PROVE SentInv'
      BY <1>10 DEF WebDelete
  <1> QED BY <1>1, <1>2, <1>3, <1>4, <1>5, <1>6, <1>7, <1>8, <1>9, <1>10
          DEF Next, Session, Finish, Editors

\* A session that reported success left a file on the phone, whatever else
\* failed before, as long as a commit that fails is reported.
THEOREM SuccessMeansAFile ==
  ASSUME "commit" \notin Disturbances
  PROVE  Spec => []SuccessIsDelivered
  <1>1. Init => TypeInv /\ SentInv
      BY TypeInit DEF Init, SentInv
  <1>2. TypeInv /\ SentInv /\ [Next]_vars => (TypeInv /\ SentInv)'
      BY TypeStep, SentStep
  <1>3. SentInv => SuccessIsDelivered
      BY DEF SentInv, SuccessIsDelivered
  <1> QED BY <1>1, <1>2, <1>3, PTL DEF Spec
=============================================================================
