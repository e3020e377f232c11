--------------------------- MODULE WorkSync_marks ---------------------------
(***************************************************************************)
(* From the server to the phone: what the marks kept for the end of the    *)
(* session (m_updateMysqlData) say of the rows, and what deletions do.     *)
(***************************************************************************)
EXTENDS WorkSync_proofs

Marked == {m.row : m \in marks}
Loading == HandlerSteps \cup {"marks"}

-----------------------------------------------------------------------------
(* What the handlers towards the phone do, one definition per kind.        *)

\* Rows are fetched that nobody asked to delete.
FetchesRows ==
  /\ server' = server
  /\ \E S \in SUBSET Rows, image \in {server, Synced(server)}, blame \in BOOLEAN :
       /\ Fetch(S, image, blame)
       /\ \A r \in S : \/ server[r].sync = "0"
                       \/ server[r].sync = "1" /\ Table[r] = "template"

\* Templates or types are deleted that the web editor asked to delete.
DropsRows ==
  /\ UNCHANGED <<server, marks>>
  /\ IsDB(interm)
  /\ \E t \in {"template", "type"} :
       interm' = Drop(interm, {r \in Of(t) : server[r].sync = "2"})

\* Tasks are deleted whose root is to be deleted.
DropsTasks ==
  /\ UNCHANGED <<server, marks>>
  /\ \E s \in {"2", "3"} : DeleteOnPhone(Doomed(s)) \/ DeleteOnPhone({})

\* Rows are deleted on the server.
PurgesRows ==
  /\ UNCHANGED <<interm, marks>>
  /\ pc = "task_purge"
  /\ \E P \in SUBSET Rows : server' = Drop(server, P)

LEMMA FetchIsKind ==
  ASSUME NEW S \in SUBSET Rows, NEW image \in {server, Synced(server)}, NEW blame \in BOOLEAN,
         Fetch(S, image, blame), server' = server,
         \A r \in S : server[r].sync = "0" \/ (server[r].sync = "1" /\ Table[r] = "template")
  PROVE  FetchesRows
  BY Zenon DEF FetchesRows

LEMMA PendingRows ==
  ASSUME NEW t, NEW devs, NEW S \in SUBSET Pending(server, t, devs)
  PROVE  S \in SUBSET Rows /\ \A r \in S : server[r].sync = "0"
  BY DEF Pending, Of

LEMMA ToPhoneKinds ==
  ASSUME TypeInv, ToPhone
  PROVE  /\ pc \in HandlerSteps /\ pc' \in Loading /\ UNCHANGED <<phone, dir, landed>>
         /\ \/ FetchesRows
            \/ DropsRows
            \/ DropsTasks
            \/ PurgesRows
            \/ UNCHANGED <<interm, server, marks>>
  <1> USE DEF files, history
  <1>1. pc \in HandlerSteps /\ pc' \in Loading /\ UNCHANGED <<phone, dir, landed>>
      BY DEF ToPhone, Skip, TemplateFetch, TemplateDrop, TypeFetch, TypeDrop, TaskDrop2,
             TaskDrop3, TaskPurge, TaskFetch, RecordFetch, NextChunk, HandlerSteps, Loading
  <1>2. CASE Skip
      BY <1>1, <1>2 DEF Skip
  <1>3. CASE TemplateFetch
    <2>1. CASE UNCHANGED <<interm, marks>>
        BY <1>1, <1>3, <2>1 DEF TemplateFetch
    <2>2. CASE ~Missing
      <3> DEFINE S == {r \in Of("template") : /\ server[r].sync \in {"0", "1"}
                         /\ Has(server, Owner[r]) /\ DeviceOf[Owner[r]] \in Head(chunks)}
      <3>1. Fetch(S, server, TRUE) /\ server' = server
          BY <1>3, <2>2 DEF TemplateFetch
      <3>2. S \in SUBSET Rows /\ \A r \in S : server[r].sync = "0" \/ (server[r].sync = "1" /\ Table[r] = "template")
          BY DEF Of
      <3>3. FetchesRows
          BY <3>1, <3>2, FetchIsKind
      <3> QED BY <1>1, <3>3
    <2> QED BY <1>3, <2>1, <2>2 DEF TemplateFetch
  <1>4. CASE TemplateDrop \/ TypeDrop
    <2>1. PICK delete \in SqliteOutcomes, t \in {"template", "type"} :
            \/ interm' = interm
            \/ delete /\ interm' = Drop(interm, {r \in Of(t) : server[r].sync = "2"})
        BY <1>4 DEF TemplateDrop, TypeDrop
    <2>2. UNCHANGED <<server, marks>>
        BY <1>4 DEF TemplateDrop, TypeDrop
    <2> QED BY <1>1, <2>1, <2>2, SqliteBoolean, SqliteNeedsDB DEF DropsRows
  <1>5. CASE TypeFetch
    <2>1. CASE UNCHANGED <<interm, marks>>
        BY <1>1, <1>5, <2>1 DEF TypeFetch
    <2>2. CASE ~Missing
      <3>1. PICK S : /\ S \in SUBSET Pending(server, "type", Head(chunks))
                     /\ Fetch(S, server, TRUE) /\ server' = server
          BY <1>5, <2>2 DEF TypeFetch
      <3>2. FetchesRows
          BY <3>1, PendingRows, FetchIsKind
      <3> QED BY <1>1, <3>2
    <2> QED BY <1>5, <2>1, <2>2 DEF TypeFetch
  <1>6. CASE TaskDrop2
    <2>1. CASE UNCHANGED interm
        BY <1>1, <1>6, <2>1 DEF TaskDrop2
    <2>2. CASE \E select \in Outcomes("mysql") :
                 DeleteOnPhone(IF select THEN Doomed("2") ELSE {})
        BY <1>1, <1>6, <2>2 DEF TaskDrop2, DropsTasks, Outcomes
    <2> QED BY <1>6, <2>1, <2>2 DEF TaskDrop2
  <1>7. CASE TaskDrop3
      BY <1>1, <1>7 DEF TaskDrop3, DropsTasks, Outcomes
  <1>8. CASE TaskPurge
    <2>1. PICK P \in SUBSET Rows : server' = Drop(server, P)
        BY <1>8 DEF TaskPurge
    <2> QED BY <1>1, <1>8, <2>1 DEF TaskPurge, PurgesRows
  <1>gone. CASE TaskFetch
    <2>1. PICK S : /\ S \in SUBSET Pending(server, "task", Head(chunks))
                   /\ Fetch(S, Synced(server), TRUE) /\ server' = server
        BY <1>gone DEF TaskFetch
    <2>2. FetchesRows
        BY <2>1, PendingRows, FetchIsKind
    <2> QED BY <1>1, <2>2
  <1>10. CASE RecordFetch
    <2>1. CASE UNCHANGED <<interm, marks>>
        BY <1>1, <1>10, <2>1 DEF RecordFetch
    <2>2. CASE ~Missing
      <3>1. Fetch(Pending(server, "record", Devices), Synced(server), FALSE) /\ server' = server
          BY <1>10, <2>2 DEF RecordFetch
      <3>2. FetchesRows
          BY <3>1, PendingRows, FetchIsKind
      <3> QED BY <1>1, <3>2
    <2> QED BY <1>10, <2>1, <2>2 DEF RecordFetch
  <1> QED BY <1>2, <1>3, <1>4, <1>5, <1>6, <1>7, <1>8, <1>gone, <1>10 DEF ToPhone

\* What a fetch leaves: the rows new are in the file and in the marks.  Without
\* failing calls these are all the rows asked for.
LEMMA FetchOutcome ==
  ASSUME TypeOK, NEW S \in SUBSET Rows, NEW image, NEW blame, Fetch(S, image, blame)
  PROVE  \E new \in SUBSET S :
           /\ Marked' = Marked \cup new
           /\ new = {} => interm' = interm
           /\ new # {} => IsDB(interm) /\ interm' = Put(interm, image, new)
           /\ IsDB(interm) /\ {"mysql", "sqlite"} \cap Disturbances = {}
                => new = S /\ ok' = ok
  <1>1. PICK select \in Outcomes("mysql"), insert \in SqliteOutcomes :
          LET new == IF select THEN S ELSE {}
          IN IF new # {} /\ ~insert
             THEN ok' = (ok /\ ~blame) /\ UNCHANGED <<interm, marks>>
             ELSE /\ interm' = IF new = {} THEN interm ELSE Put(interm, image, new)
                  /\ marks' = marks \cup
                       {[row |-> r, raise |-> Table[r] = "task" /\ server[r].state = "1"] : r \in new}
                  /\ ok' = (ok /\ select)
      BY DEF Fetch
  <1> DEFINE new == IF select THEN S ELSE {}
  <1>2. select \in BOOLEAN /\ insert \in BOOLEAN /\ ok \in BOOLEAN
      BY SqliteBoolean DEF Outcomes, TypeOK
  <1>3. IsDB(interm) /\ {"mysql", "sqlite"} \cap Disturbances = {} => select = TRUE /\ insert = TRUE
      BY DEF Outcomes, SqliteOutcomes, May
  <1>4. CASE new # {} /\ ~insert
    <2>1. Marked' = Marked \cup {} /\ interm' = interm
        BY <1>1, <1>4 DEF Marked
    <2>2. ~(IsDB(interm) /\ {"mysql", "sqlite"} \cap Disturbances = {})
        BY <1>3, <1>4
    <2>3. {} \in SUBSET S
        OBVIOUS
    <2> QED BY <2>1, <2>2, <2>3
  <1>5. CASE ~(new # {} /\ ~insert)
    <2> DEFINE mark(r) == [row |-> r, raise |-> Table[r] = "task" /\ server[r].state = "1"]
               added == {mark(r) : r \in new}
    <2>1. marks' = marks \cup added
        BY <1>1, <1>5
    <2>2. Marked' = Marked \cup new
      <3>1. Marked' = Marked \cup {m.row : m \in added}
          BY <2>1 DEF Marked
      <3>2. \A r : mark(r).row = r
          OBVIOUS
      <3> HIDE DEF mark
      <3>3. {m.row : m \in added} = new
          BY <3>2
      <3> QED BY <3>1, <3>3
    <2>3. new # {} => IsDB(interm) /\ interm' = Put(interm, image, new)
        BY <1>1, <1>2, <1>5, SqliteNeedsDB
    <2>4. new = {} => interm' = interm
        BY <1>1, <1>5
    <2>5. IsDB(interm) /\ {"mysql", "sqlite"} \cap Disturbances = {} => new = S /\ ok' = ok
        BY <1>1, <1>2, <1>3, <1>5
    <2> QED BY <2>2, <2>3, <2>4, <2>5
  <1> QED BY <1>4, <1>5

-----------------------------------------------------------------------------
(* What the other steps of a session do to the server and the file.        *)

\* An upload puts rows of the file on the server, an acknowledgement marks
\* rows of the file.
Uploads ==
  /\ interm' = interm /\ dir = "to_pc"
  /\ \E S \in SUBSET Rows :
       /\ S # {} => IsDB(interm)
       /\ \A r \in S : interm[r].sync = "0"
       /\ server' = Put(server, Synced(interm), S)

Acknowledges ==
  /\ server' = server /\ IsDB(interm)
  /\ interm' = SetSynced(interm, picked)

LEMMA UploadIsKind ==
  ASSUME NEW t, NEW devs, NEW read \in ReadOutcomes, NEW blame, dir = "to_pc", interm' = interm,
         Upload(IF read = "read" THEN Pending(interm, t, devs) ELSE {}, blame)
  PROVE  Uploads
  <1> DEFINE S == IF read = "read" THEN Pending(interm, t, devs) ELSE {}
  <1>0. \A r \in S : interm[r].sync = "0"
      BY DEF Pending
  <1>1. S \in SUBSET Rows /\ (S # {} => IsDB(interm))
      BY UploadedRows
  <1>2. PICK out \in UpdateMysqlDB(S) : server' = Put(server, Synced(interm), out.done)
      BY DEF Upload
  <1>3. out.done \subseteq S
      BY UpdateMysqlDBType
  <1> HIDE DEF S
  <1>4. /\ out.done \in SUBSET Rows /\ (out.done # {} => IsDB(interm))
        /\ \A r \in out.done : interm[r].sync = "0"
      BY <1>0, <1>1, <1>3
  <1> QED BY <1>2, <1>4 DEF Uploads

LEMMA UploadedServer ==
  ASSUME TypeOK, Uploads
  PROVE  \E S \in SUBSET Rows : \A r \in Rows :
           /\ r \notin S => server'[r] = server[r]
           /\ r \in S => /\ IsDB(interm) /\ interm[r].sync = "0"
                         /\ server'[r].sync = "1" /\ server'[r].ver = interm[r].ver
  <1>1. PICK S \in SUBSET Rows : /\ S # {} => IsDB(interm)
                                 /\ \A r \in S : interm[r].sync = "0"
                                 /\ server' = Put(server, Synced(interm), S)
      BY DEF Uploads
  <1>2. ASSUME NEW r \in S PROVE Synced(interm)[r].sync = "1" /\ Synced(interm)[r].ver = interm[r].ver
    <2>1. interm[r] \in Row /\ Has(interm, r)
        BY <1>1, DatabaseFile DEF TypeOK, Database, Has
    <2> QED BY <2>1 DEF Synced, Row
  <1> QED BY <1>1, <1>2 DEF Put

LEMMA ToPcKinds ==
  ASSUME ToPc
  PROVE  /\ pc \in HandlerSteps /\ pc' \in Loading /\ UNCHANGED <<phone, dir, landed, marks>>
         /\ Uploads \/ Acknowledges \/ UNCHANGED <<interm, server>>
  <1> USE DEF files, history
  <1>1. pc \in HandlerSteps /\ pc' \in Loading /\ UNCHANGED <<phone, dir, landed, marks>>
      BY DEF ToPc, TaskUpload, TaskAck, RecordUpload, RecordAck, NextChunk, HandlerSteps, Loading
  <1>2. CASE TaskUpload
    <2>1. CASE UNCHANGED server
        BY <1>1, <1>2, <2>1 DEF TaskUpload
    <2>2. CASE \E read \in ReadOutcomes :
                 Upload(IF read = "read" THEN Pending(interm, "task", Head(chunks)) ELSE {}, TRUE)
        BY <1>1, <1>2, <2>2, UploadIsKind DEF TaskUpload
    <2> QED BY <1>2, <2>1, <2>2 DEF TaskUpload
  <1>3. CASE RecordUpload
    <2>1. CASE UNCHANGED server
        BY <1>1, <1>3, <2>1 DEF RecordUpload
    <2>2. CASE \E read \in ReadOutcomes :
                 Upload(IF read = "read" THEN Pending(interm, "record", Head(chunks)) ELSE {}, FALSE)
        BY <1>1, <1>3, <2>2, UploadIsKind DEF RecordUpload
    <2> QED BY <1>3, <2>1, <2>2 DEF RecordUpload
  <1>4. CASE TaskAck \/ RecordAck
    <2>1. PICK update \in SqliteOutcomes :
            interm' = IF picked # {} /\ update THEN SetSynced(interm, picked) ELSE interm
        BY <1>4 DEF TaskAck, RecordAck, Ack
    <2>2. server' = server
        BY <1>4 DEF TaskAck, RecordAck
    <2> QED BY <1>1, <2>1, <2>2, SqliteBoolean, SqliteNeedsDB DEF Acknowledges
  <1> QED BY <1>2, <1>3, <1>4 DEF ToPc

\* The marks are written for marked rows the server has, and change nothing
\* but SynchronState and State.
LEMMA MarksServer ==
  ASSUME TypeOK, Marks
  PROVE  \E hit \in SUBSET Marked : \A r \in Rows :
           /\ server'[r].ver = server[r].ver
           /\ server'[r].sync = IF r \in hit /\ Has(server, r) THEN "1" ELSE server[r].sync
  <1>1. PICK out \in UpdateMysqlDB(marks) :
          server' = [r \in Rows |->
            IF r \notin {m.row : m \in out.done} \/ ~Has(server, r) THEN server[r]
            ELSE [server[r] EXCEPT !.sync = "1",
                    !.state = IF r \in {m.row : m \in {n \in out.done : n.raise}}
                                THEN "2" ELSE @]]
      BY DEF Marks
  <1> DEFINE hit == {m.row : m \in out.done}
  <1>2. hit \in SUBSET Marked
      BY UpdateMysqlDBType DEF Marked
  <1>3. ASSUME NEW r \in Rows
        PROVE  /\ server'[r].ver = server[r].ver
               /\ server'[r].sync = IF r \in hit /\ Has(server, r) THEN "1" ELSE server[r].sync
    <2>1. server[r] \in Row
        BY DEF TypeOK, Database
    <2> QED BY <1>1, <2>1 DEF Row
  <1> QED BY <1>2, <1>3

LEMMA MarkedRows == ASSUME TypeOK PROVE Marked \in SUBSET Rows
  BY DEF TypeOK, Marked, Mark

-----------------------------------------------------------------------------
(* Requests for a deletion.  A session towards the phone takes none back,  *)
(* because no row is marked that is to be deleted.                         *)

MarksSpare == pc \in Loading => \A r \in Marked : server[r].sync \notin {"2", "3"}

\* Steps outside the session, and its steps before the first handler.
LEMMA SpareElsewhere ==
  ASSUME TypeInv, MarksSpare, "web_edit" \notin Disturbances,
         Prepare \/ User \/ Crash \/ Finish \/ Editors \/ UNCHANGED vars
  PROVE  MarksSpare'
  <1> USE DEF files, session, history, MarksSpare, Marked, Loading, HandlerSteps
  <1>1. CASE Prepare
      BY <1>1 DEF Prepare, Locate, Download, Backup, Connect, Return
  <1>2. CASE User
    <2>1. ASSUME NEW d \in {"to_pc", "to_phone"}, Click(d) PROVE MarksSpare'
        BY <2>1 DEF Click
    <2>2. CASE Cancel \/ Confirm
        BY <2>2 DEF Cancel, Confirm, Return
    <2>3. CASE ClickBusy
        BY <2>3 DEF ClickBusy
    <2> QED BY <1>2, <2>1, <2>2, <2>3 DEF User
  <1>3. CASE Crash
      BY <1>3 DEF Crash, Return
  <1>4. CASE Finish
      BY <1>4 DEF Finish, Marks, Erase, Send, Cleanup, Return
  <1>5. CASE Editors
    <2>1. ASSUME NEW r \in Rows, PhoneEdit(r) PROVE MarksSpare'
        BY <2>1 DEF PhoneEdit
    <2>2. ASSUME NEW r \in Rows, NEW state, WebEdit(r, state) PROVE MarksSpare'
        BY <2>2 DEF WebEdit, May
    <2>3. ASSUME NEW r \in Rows, NEW s, WebDelete(r, s) PROVE MarksSpare'
        BY <2>3 DEF WebDelete, May
    <2> QED BY <1>5, <2>1, <2>2, <2>3 DEF Editors
  <1>6. CASE UNCHANGED vars
      BY <1>6 DEF vars
  <1> QED BY <1>1, <1>2, <1>3, <1>4, <1>5, <1>6

LEMMA SpareStep ==
  ASSUME TypeInv, MarksSpare, "web_edit" \notin Disturbances, [Next]_vars
  PROVE  MarksSpare'
  <1>0. Marked \in SUBSET Rows
      BY MarkedRows DEF TypeInv
  <1>1. CASE ToPhone
    <2>1. pc \in Loading
        BY <1>1, ToPhoneKinds DEF Loading
    <2>2. CASE FetchesRows
      <3>1. PICK S \in SUBSET Rows, image \in {server, Synced(server)}, blame \in BOOLEAN :
              /\ Fetch(S, image, blame) /\ server' = server
              /\ \A r \in S : server[r].sync \in {"0", "1"}
          BY <2>2 DEF FetchesRows
      <3>2. \E new \in SUBSET S : Marked' = Marked \cup new
          BY <3>1, FetchOutcome DEF TypeInv
      <3> QED BY <2>1, <3>1, <3>2 DEF MarksSpare
    <2>3. CASE PurgesRows
      <3>1. PICK P : server' = Drop(server, P)
          BY <2>3 DEF PurgesRows
      <3>2. \A r \in Rows : server'[r].sync \in {server[r].sync, "none"}
          BY <3>1 DEF Drop, NoRow
      <3>3. Marked' = Marked
          BY <2>3 DEF PurgesRows, Marked
      <3> QED BY <1>0, <2>1, <3>2, <3>3 DEF MarksSpare
    <2>4. CASE UNCHANGED <<server, marks>>
        BY <2>1, <2>4 DEF MarksSpare, Marked
    <2> QED BY <1>1, <2>2, <2>3, <2>4, ToPhoneKinds DEF DropsRows, DropsTasks
  <1>2. CASE ToPc
    <2>1. pc \in Loading /\ Marked' = Marked
        BY <1>2, ToPcKinds DEF Loading, Marked
    <2>2. CASE Uploads
      <3>1. \A r \in Rows : server'[r].sync \in {server[r].sync, "1"}
          BY <2>2, UploadedServer DEF TypeInv
      <3> QED BY <1>0, <2>1, <3>1 DEF MarksSpare
    <2>3. CASE server' = server
        BY <2>1, <2>3 DEF MarksSpare
    <2> QED BY <1>2, <2>2, <2>3, ToPcKinds DEF Acknowledges
  <1> QED BY <1>1, <1>2, SpareElsewhere DEF Next, Session

LEMMA SparedStand ==
  ASSUME TypeInv, MarksSpare, "web_edit" \notin Disturbances, Next, NEW r \in Rows,
         dir = "to_phone", server[r].sync \in {"2", "3"}
  PROVE  server'[r].sync \in {server[r].sync, "none"}
  <1> USE DEF files, session, history
  <1>1. CASE ToPhone
    <2>1. CASE FetchesRows \/ UNCHANGED server
        BY <2>1 DEF FetchesRows
    <2>2. CASE PurgesRows
        BY <2>2 DEF PurgesRows, Drop, NoRow
    <2> QED BY <1>1, <2>1, <2>2, ToPhoneKinds DEF DropsRows, DropsTasks
  <1>2. CASE ToPc
      BY <1>2, ToPcKinds DEF Uploads, Acknowledges
  <1>3. CASE Marks
    <2>1. r \notin Marked
        BY <1>3 DEF Marks, MarksSpare, Loading
    <2> QED BY <1>3, <2>1, MarksServer DEF TypeInv
  <1>4. CASE Prepare \/ User \/ Crash \/ Erase \/ Send \/ Cleanup
    <2>1. server' = server
        BY <1>4 DEF Prepare, Locate, Download, Backup, Connect, User, Click, ClickBusy, Cancel,
                    Confirm, Crash, Erase, Send, Cleanup
    <2> QED BY <2>1
  <1>5. CASE Editors
    <2>1. ASSUME NEW q \in Rows, PhoneEdit(q) PROVE server' = server
        BY <2>1 DEF PhoneEdit
    <2>2. ASSUME NEW q \in Rows, NEW state, WebEdit(q, state) PROVE server'[r] = server[r]
        BY <2>2 DEF WebEdit, TypeInv, TypeOK, Database
    <2>3. ASSUME NEW q \in Rows, NEW s, WebDelete(q, s) PROVE server'[r] = server[r]
        BY <2>3 DEF WebDelete, TypeInv, TypeOK, Database
    <2> QED BY <1>5, <2>1, <2>2, <2>3 DEF Editors
  <1> QED BY <1>1, <1>2, <1>3, <1>4, <1>5 DEF Next, Session, Finish

\* A session towards the phone never takes back the request for a deletion,
\* whatever fails, as long as the web editor rests during a session.
THEOREM DeletionsStand ==
  ASSUME "web_edit" \notin Disturbances
  PROVE  Spec => DeletesStandToPhone
  <1>1. Init => TypeInv /\ MarksSpare
      BY TypeInit DEF Init, MarksSpare, Loading, HandlerSteps
  <1>2. TypeInv /\ MarksSpare /\ [Next]_vars => (TypeInv /\ MarksSpare)'
      BY TypeStep, SpareStep
  <1>3. TypeInv /\ MarksSpare /\ [Next]_vars =>
          [\A r \in Rows : dir = "to_phone" /\ server[r].sync \in {"2", "3"} =>
              server'[r].sync \in {server[r].sync, "none"}]_vars
      BY SparedStand
  <1> QED BY <1>1, <1>2, <1>3, PTL DEF Spec, DeletesStandToPhone

-----------------------------------------------------------------------------
(* The purge.  When the server is about to forget tasks, their root stands *)
(* for a deletion on both sides and the file has neither them nor records  *)
(* of them, whoever edits the server in between.                           *)

PurgeInv ==
  pc = "task_purge" =>
    \A t \in picked :
      /\ Table[t] = "task" /\ server[Owner[t]].sync = "3"
      /\ IsDB(interm) => /\ ~Has(interm, t)
                         /\ \A r \in Of("record") : Owner[r] = t => ~Has(interm, r)

\* What is left of the file when tasks were deleted.
LEMMA DeleteOnPhoneRows ==
  ASSUME TypeOK, "sqlite" \notin Disturbances, NEW ids \in SUBSET Rows, DeleteOnPhone(ids)
  PROVE  /\ IsDB(interm') <=> IsDB(interm)
         /\ IsDB(interm) => \A r \in Rows :
              /\ Table[r] \in {"template", "type"} => interm'[r] = interm[r]
              /\ Table[r] = "task" =>
                   interm'[r] = IF r \in ids \/ Owner[r] \in ids THEN NoRow ELSE interm[r]
              /\ Table[r] = "record" => /\ interm'[r] \in {interm[r], NoRow}
                                        /\ Owner[r] \in ids => interm'[r] = NoRow
  <1>1. CASE ~IsDB(interm)
      BY <1>1 DEF DeleteOnPhone
  <1>2. CASE IsDB(interm)
    <2>1. interm \in Database
        BY <1>2, DatabaseFile DEF TypeOK
    <2>2. interm' = IF ids = {} THEN interm ELSE DropTasks(interm, ids, 4)
        BY <1>2 DEF DeleteOnPhone, May
    <2>3. IsDB(interm')
        BY <1>2, <2>1, <2>2, DropTasksType, FileAssumption DEF IsDB
    <2>4. CASE ids = {}
        BY <1>2, <2>2, <2>3, <2>4
    <2>5. CASE ids # {}
      <3> DEFINE tasks == {r \in Of("task") : r \in ids \/ Owner[r] \in ids}
                 records == {r \in Of("record") : \/ Owner[r] \in ids
                                                  \/ ~Has(interm, Owner[r]) \/ Owner[r] \in tasks}
      <3>1. interm' = Drop(interm, tasks \cup records)
          BY <2>2, <2>5 DEF DropTasks
      <3>2. \A r \in Rows : interm'[r] = IF r \in tasks \cup records THEN NoRow ELSE interm[r]
          BY <3>1 DEF Drop
      <3> QED BY <1>2, <2>3, <3>2 DEF Of
    <2> QED BY <2>4, <2>5
  <1> QED BY <1>1, <1>2

LEMMA PurgeDrops ==
  ASSUME TypeInv, "sqlite" \notin Disturbances, TaskDrop3 PROVE PurgeInv'
  <1>1. PICK s \in {"3"} : /\ picked' \in {Doomed(s), {}}
                           /\ DeleteOnPhone(picked') /\ server' = server
      BY DEF TaskDrop3, Outcomes
  <1>2. picked' \in SUBSET Rows /\ \A t \in picked' : Table[t] = "task" /\ server[Owner[t]].sync = "3"
      BY <1>1 DEF Doomed, Of
  <1>3. IsDB(interm') => \A t \in picked' : /\ ~Has(interm', t)
                                            /\ \A r \in Of("record") : Owner[r] = t => ~Has(interm', r)
    <2> SUFFICES ASSUME IsDB(interm'), NEW t \in picked'
                 PROVE  ~Has(interm', t) /\ \A r \in Of("record") : Owner[r] = t => ~Has(interm', r)
        OBVIOUS
    <2>1. IsDB(interm)
        BY <1>1, <1>2, DeleteOnPhoneRows DEF TypeInv
    <2>2. interm'[t] = NoRow
        BY <1>1, <1>2, <2>1, DeleteOnPhoneRows DEF TypeInv
    <2>3. \A r \in Of("record") : Owner[r] = t => interm'[r] = NoRow
        BY <1>1, <1>2, <2>1, DeleteOnPhoneRows DEF TypeInv, Of
    <2> QED BY <2>2, <2>3 DEF Has, NoRow
  <1> QED BY <1>1, <1>2, <1>3 DEF PurgeInv

LEMMA PurgeStep ==
  ASSUME TypeInv, PurgeInv, "sqlite" \notin Disturbances, [Next]_vars PROVE PurgeInv'
  <1> USE DEF files, session, history
  <1>1. CASE pc' # "task_purge"
      BY <1>1 DEF PurgeInv
  <1>2. CASE pc' = "task_purge" /\ ~TaskDrop3
    <2>1. pc = "task_purge" /\ UNCHANGED <<interm, picked>>
      <3>1. ~Prepare /\ ~Finish /\ ~ToPc
          BY <1>2 DEF Prepare, Locate, Download, Backup, Connect, Finish, Marks, Erase, Send,
                      Cleanup, ToPc, TaskUpload, TaskAck, RecordUpload, RecordAck, NextChunk, Return
      <3>2. ~ToPhone
          BY <1>2 DEF ToPhone, Skip, TemplateFetch, TemplateDrop, TypeFetch, TypeDrop, TaskDrop2,
                      TaskPurge, TaskFetch, RecordFetch, NextChunk
      <3>3. CASE User
          BY <1>2, <3>3 DEF User, Click, ClickBusy, Cancel, Confirm, Return
      <3>4. CASE Crash \/ UNCHANGED vars
          BY <1>2, <3>4 DEF Crash, Return, vars
      <3>5. CASE Editors
          BY <1>2, <3>5 DEF Editors, PhoneEdit, WebEdit, WebDelete
      <3> QED BY <3>1, <3>2, <3>3, <3>4, <3>5 DEF Next, Session
    <2>2. \A r \in Rows : server[r].sync = "3" => server'[r].sync = "3"
      <3>1. CASE User \/ Crash \/ UNCHANGED vars
          BY <3>1 DEF User, Click, ClickBusy, Cancel, Confirm, Crash, vars
      <3>2. CASE Editors
        <4>1. ASSUME NEW q \in Rows, PhoneEdit(q) PROVE server' = server
            BY <4>1 DEF PhoneEdit
        <4>2. ASSUME NEW q \in Rows, NEW state, WebEdit(q, state), NEW r \in Rows, server[r].sync = "3"
              PROVE  server'[r] = server[r]
            BY <4>2 DEF WebEdit, TypeInv, TypeOK, Database
        <4>3. ASSUME NEW q \in Rows, NEW s, WebDelete(q, s), NEW r \in Rows, server[r].sync = "3"
              PROVE  server'[r] = server[r]
            BY <4>3 DEF WebDelete, TypeInv, TypeOK, Database
        <4> QED BY <3>2, <4>1, <4>2, <4>3 DEF Editors
      <3>3. CASE Session
        <4>1. pc' # "task_purge"
            BY <1>2, <2>1, <3>3 DEF Session, Prepare, Locate, Download, Backup, Connect, Finish,
               Marks, Erase, Send, Cleanup, ToPc, TaskUpload, TaskAck, RecordUpload, RecordAck,
               ToPhone, Skip, TemplateFetch, TemplateDrop, TypeFetch, TypeDrop, TaskDrop2,
               TaskPurge, TaskFetch, RecordFetch
        <4> QED BY <1>2, <4>1
      <3> QED BY <3>1, <3>2, <3>3 DEF Next
    <2>3. \A t \in picked : Owner[t] \in Rows
        BY RowsAssumption DEF TypeInv, TypeOK
    <2> QED BY <2>1, <2>2, <2>3 DEF PurgeInv
  <1>3. CASE TaskDrop3
      BY <1>3, PurgeDrops
  <1> QED BY <1>1, <1>2, <1>3

LEMMA PurgedIsGone ==
  ASSUME TypeInv, PurgeInv, Next, NEW r \in Rows, Has(server, r), ~Has(server', r)
  PROVE  /\ server[Owner[IF Table[r] = "record" THEN Owner[r] ELSE r]].sync = "3"
         /\ IsDB(interm) => ~Has(interm, r)
  <1> USE DEF files, session, history
  <1>1. CASE TaskPurge
    <2>1. PICK out \in UpdateMysqlDB({"task", "record"} \X picked) :
            server' = Drop(server, {q \in Rows :
                         \/ Table[q] = "task" /\ <<"task", q>> \in out.done
                         \/ Table[q] = "record" /\ <<"record", Owner[q]>> \in out.done})
        BY <1>1 DEF TaskPurge
    <2>2. out.done \subseteq {"task", "record"} \X picked
        BY UpdateMysqlDBType
    <2>3. \/ Table[r] = "task" /\ r \in picked
          \/ Table[r] = "record" /\ Owner[r] \in picked
        BY <2>1, <2>2 DEF Drop, Has
    <2>4. pc = "task_purge"
        BY <1>1 DEF TaskPurge
    <2> QED BY <2>3, <2>4 DEF PurgeInv, Of
  <1>2. CASE ToPhone /\ ~TaskPurge
    <2>1. server' = server
        BY <1>2 DEF ToPhone, Skip, TemplateFetch, TemplateDrop, TypeFetch, TypeDrop, TaskDrop2,
                    TaskDrop3, TaskFetch, RecordFetch
    <2> QED BY <2>1
  <1>3. CASE ToPc
    <2>1. CASE Uploads
        BY <2>1, UploadedServer DEF TypeInv, Has
    <2> QED BY <1>3, <2>1, ToPcKinds DEF Acknowledges
  <1>4. CASE Marks
      BY <1>4, MarksServer DEF TypeInv, Has
  <1>5. CASE Prepare \/ User \/ Crash \/ Erase \/ Send \/ Cleanup
    <2>1. server' = server
        BY <1>5 DEF Prepare, Locate, Download, Backup, Connect, User, Click, ClickBusy, Cancel,
                    Confirm, Crash, Erase, Send, Cleanup
    <2> QED BY <2>1
  <1>6. CASE Editors
    <2>1. ASSUME NEW q \in Rows, PhoneEdit(q) PROVE server' = server
        BY <2>1 DEF PhoneEdit
    <2>2. ASSUME NEW q \in Rows, NEW state, WebEdit(q, state) PROVE Has(server', r)
        BY <2>2 DEF WebEdit, TypeInv, TypeOK, Database, Has
    <2>3. ASSUME NEW q \in Rows, NEW s \in {"2", "3"}, WebDelete(q, s) PROVE Has(server', r)
      <3>1. server[q] \in Row
          BY DEF TypeInv, TypeOK, Database
      <3> QED BY <2>3, <3>1 DEF WebDelete, TypeInv, TypeOK, Database, Has, Row
    <2> QED BY <1>6, <2>1, <2>2, <2>3 DEF Editors
  <1> QED BY <1>1, <1>2, <1>3, <1>4, <1>5, <1>6 DEF Next, Session, Finish

\* The server forgets a row only when its task was to be deleted on both sides
\* and the file for the phone no longer has it, with the web editor and the
\* worker at work and whatever fails but a deletion in the file.
THEOREM PurgesAreComplete ==
  ASSUME "sqlite" \notin Disturbances
  PROVE  Spec => PurgeIsComplete
  <1>1. Init => TypeInv /\ PurgeInv
      BY TypeInit DEF Init, PurgeInv
  <1>2. TypeInv /\ PurgeInv /\ [Next]_vars => (TypeInv /\ PurgeInv)'
      BY TypeStep, PurgeStep
  <1>3. TypeInv /\ PurgeInv /\ [Next]_vars =>
          [\A r \in Rows : Has(server, r) /\ ~Has(server', r) =>
              /\ server[Owner[IF Table[r] = "record" THEN Owner[r] ELSE r]].sync = "3"
              /\ IsDB(interm) => ~Has(interm, r)]_vars
      BY PurgedIsGone
  <1> QED BY <1>1, <1>2, <1>3, PTL DEF Spec, PurgeIsComplete

-----------------------------------------------------------------------------
(* What is marked is carried.  Up to the end of the last handler a marked  *)
(* row is in the file as the server has it, or it is a child task whose    *)
(* root is to be deleted and has left the file, or it is a record, which   *)
(* the last handler of every chunk fetches again.                          *)

InFile(r) == IsDB(interm) /\ Has(interm, r) /\ interm[r].ver = server[r].ver
RootGone(r) ==
  /\ Table[r] = "task" /\ server[Owner[r]].sync \notin {"0", "1"}
  /\ IsDB(interm) => ~Has(interm, Owner[r])
Carried(r) == InFile(r) \/ RootGone(r)

MarkSync(r) ==
  server[r].sync \in IF Table[r] = "record" THEN {"0", "none"} ELSE {"0", "1", "none"}

DirInv ==
  /\ pc \in {"template_drop", "type_drop", "task_drop3", "task_purge", "task_fetch"}
       => dir = "to_phone"
  /\ pc \in {"task_ack", "record_ack"} => dir = "to_pc"
  /\ pc \in Loading /\ dir = "to_pc" => marks = {}

HeldInv ==
  pc \in Loading =>
    /\ Marked # {} => IsDB(interm)
    /\ \A r \in Marked :
         /\ MarkSync(r)
         /\ Has(server, r) => Carried(r) \/ (Table[r] = "record" /\ pc # "marks")

MarkInv == DirInv /\ HeldInv

\* Nothing fails on the server or in the file, nobody edits the server during
\* a session, and nobody clicks again.
Calm == {"mysql", "sqlite", "web_edit", "turn"} \cap Disturbances = {}

LEMMA DirToPhone ==
  ASSUME DirInv, ToPhone PROVE dir = "to_phone" \/ Skip
  BY DEF DirInv, ToPhone, TemplateFetch, TemplateDrop, TypeFetch, TypeDrop, TaskDrop2,
         TaskDrop3, TaskPurge, TaskFetch, RecordFetch

\* The direction does not change before the session is over.
LEMMA DirStep ==
  ASSUME DirInv, "turn" \notin Disturbances, [Next]_vars PROVE DirInv'
  <1> USE DEF files, session, history, DirInv, Loading, HandlerSteps
  <1>1. CASE ToPhone
    <2>1. CASE Skip
        BY <2>1 DEF Skip
    <2>2. CASE dir = "to_phone" /\ ~Skip
      <3>1. dir' = dir /\ pc' \notin {"task_ack", "record_ack"}
          BY <1>1, <2>2 DEF ToPhone, TemplateFetch, TemplateDrop, TypeFetch, TypeDrop, TaskDrop2,
                  TaskDrop3, TaskPurge, TaskFetch, RecordFetch, NextChunk
      <3> QED BY <2>2, <3>1
    <2> QED BY <1>1, <2>1, <2>2, DirToPhone
  <1>2. CASE ToPc
      BY <1>2 DEF ToPc, TaskUpload, TaskAck, RecordUpload, RecordAck, NextChunk
  <1>3. CASE Prepare
      BY <1>3 DEF Prepare, Locate, Download, Backup, Connect, Return
  <1>4. CASE Finish
      BY <1>4 DEF Finish, Marks, Erase, Send, Cleanup, Return
  <1>5. CASE User
      BY <1>5 DEF User, Click, ClickBusy, Cancel, Confirm, Return, May
  <1>6. CASE Crash \/ UNCHANGED vars
      BY <1>6 DEF Crash, Return, vars
  <1>7. CASE Editors
      BY <1>7 DEF Editors, PhoneEdit, WebEdit, WebDelete
  <1> QED BY <1>1, <1>2, <1>3, <1>4, <1>5, <1>6, <1>7 DEF Next, Session

\* What the handlers put into the file is what the server has.
LEMMA ImageRow ==
  ASSUME TypeOK, NEW image \in {server, Synced(server)}, NEW r \in Rows
  PROVE  image \in Database /\ image[r].ver = server[r].ver /\ (Has(image, r) <=> Has(server, r))
  <1>1. server \in Database /\ Synced(server) \in Database /\ server[r] \in Row
      BY SyncedType DEF TypeOK, Database
  <1>2. Synced(server)[r].ver = server[r].ver
      BY <1>1, SyncedVer
  <1>3. Has(Synced(server), r) <=> Has(server, r)
      BY <1>1 DEF Synced, Has, Row
  <1> QED BY <1>1, <1>2, <1>3

\* A root to be deleted that has left the file is not fetched again.
LEMMA RootStaysGone ==
  ASSUME TypeInv, "sqlite" \notin Disturbances, ToPhone, NEW r \in Rows, RootGone(r)
  PROVE  RootGone(r)'
  <1>1. Owner[r] \in Rows /\ Table[Owner[r]] = "task"
      BY RowsAssumption, OwnerAssumption DEF RootGone
  <1>2. CASE FetchesRows
    <2>1. PICK S \in SUBSET Rows, image \in {server, Synced(server)}, blame \in BOOLEAN :
            Fetch(S, image, blame) /\ server' = server /\ \A q \in S : server[q].sync \in {"0", "1"}
        BY <1>2 DEF FetchesRows
    <2>2. PICK new \in SUBSET S : /\ new = {} => interm' = interm
                                  /\ new # {} => IsDB(interm) /\ interm' = Put(interm, image, new)
        BY <2>1, FetchOutcome DEF TypeInv
    <2>3. Owner[r] \notin S
        BY <2>1 DEF RootGone
    <2> QED BY <1>1, <2>1, <2>2, <2>3 DEF RootGone, Has, Put
  <1>3. CASE DropsRows
    <2>1. PICK old : interm' = Drop(interm, old)
        BY <1>3 DEF DropsRows
    <2>2. interm'[Owner[r]] \in {interm[Owner[r]], NoRow}
        BY <1>1, <2>1 DEF Drop
    <2> QED BY <1>3, <2>2 DEF DropsRows, RootGone, Has, NoRow
  <1>4. CASE DropsTasks
    <2>1. PICK ids \in SUBSET Rows : DeleteOnPhone(ids)
        BY <1>4 DEF DropsTasks, Doomed, Of
    <2>2. IsDB(interm') => IsDB(interm) /\ interm'[Owner[r]] \in {interm[Owner[r]], NoRow}
        BY <1>1, <2>1, DeleteOnPhoneRows DEF TypeInv
    <2> QED BY <1>4, <2>2 DEF DropsTasks, RootGone, Has, NoRow
  <1>5. CASE PurgesRows
    <2>1. PICK P : server' = Drop(server, P)
        BY <1>5 DEF PurgesRows
    <2>2. server'[Owner[r]].sync \in {server[Owner[r]].sync, "none"}
        BY <1>1, <2>1 DEF Drop, NoRow
    <2> QED BY <1>5, <2>2 DEF PurgesRows, RootGone
  <1>6. CASE UNCHANGED <<interm, server, marks>>
      BY <1>6 DEF RootGone
  <1> QED BY <1>2, <1>3, <1>4, <1>5, <1>6, ToPhoneKinds

\* After a fetch the rows asked for are carried, and what was carried still is.
LEMMA HeldFetch ==
  ASSUME TypeInv, MarkInv, Calm, pc \in Loading, server' = server,
         NEW S \in SUBSET Rows, NEW image \in {server, Synced(server)}, NEW blame,
         Fetch(S, image, blame),
         \A r \in S : server[r].sync = "0" \/ (server[r].sync = "1" /\ Table[r] = "template")
  PROVE  /\ Marked' # {} => IsDB(interm')
         /\ \A r \in Marked' :
              /\ MarkSync(r)'
              /\ Has(server, r) => Carried(r)' \/ (Table[r] = "record" /\ pc # "marks" /\ r \notin S)
  <1>1. PICK new \in SUBSET S :
           /\ Marked' = Marked \cup new
           /\ new = {} => interm' = interm
           /\ new # {} => IsDB(interm) /\ interm' = Put(interm, image, new)
           /\ IsDB(interm) /\ {"mysql", "sqlite"} \cap Disturbances = {} => new = S /\ ok' = ok
      BY FetchOutcome DEF TypeInv
  <1>2. Marked \in SUBSET Rows /\ \A r \in Rows : Owner[r] \in Rows
      BY MarkedRows, RowsAssumption DEF TypeInv
  <1>3. /\ Marked # {} => IsDB(interm)
        /\ \A r \in Marked : /\ MarkSync(r)
                             /\ Has(server, r) => Carried(r) \/ (Table[r] = "record" /\ pc # "marks")
      BY DEF MarkInv, HeldInv
  <1>4. CASE new = {}
    <2>1. IsDB(interm) => S = {}
        BY <1>1, <1>4 DEF Calm
    <2> QED BY <1>1, <1>3, <1>4, <2>1 DEF MarkSync, Carried, InFile, RootGone
  <1>5. CASE new # {}
    <2>1. new = S /\ IsDB(interm)
        BY <1>1, <1>5 DEF Calm
    <2>2. interm \in Database /\ interm' \in Database /\ IsDB(interm')
        BY <1>1, <1>5, <2>1, DatabaseFile, ImageRow, PutType, FileAssumption
           DEF TypeInv, TypeOK, IsDB
    <2>3. \A r \in Rows : interm'[r] = IF r \in S THEN image[r] ELSE interm[r]
        BY <1>1, <1>5, <2>1 DEF Put
    <2>4. ASSUME NEW r \in Rows, RootGone(r) PROVE RootGone(r)'
      <3>1. Owner[r] \in Rows /\ Owner[r] \notin S /\ ~Has(interm, Owner[r])
          BY <1>2, <2>1, <2>4 DEF RootGone
      <3> QED BY <2>3, <2>4, <3>1 DEF RootGone, Has
    <2>5. ASSUME NEW r \in Rows, InFile(r) PROVE InFile(r)'
        BY <2>2, <2>3, <2>5, ImageRow DEF InFile, Has, TypeInv
    <2>6. ASSUME NEW r \in S PROVE InFile(r)'
        BY <2>2, <2>3, ImageRow DEF InFile, Has, TypeInv
    <2>7. \A r \in S : MarkSync(r)
        BY DEF MarkSync
    <2> QED BY <1>1, <1>2, <1>3, <2>1, <2>2, <2>4, <2>5, <2>6, <2>7 DEF Carried, MarkSync
  <1> QED BY <1>4, <1>5

\* Only the last handler of the last chunk leads to the marks.
LEMMA OnlyRecordsEnd ==
  ASSUME ToPhone, pc' = "marks" PROVE RecordFetch
  BY DEF ToPhone, Skip, TemplateFetch, TemplateDrop, TypeFetch, TypeDrop, TaskDrop2, TaskDrop3,
         TaskPurge, TaskFetch

LEMMA HeldRecordFetch ==
  ASSUME TypeInv, MarkInv, Calm, RecordFetch PROVE HeldInv'
  <1>1. CASE Missing
    <2>1. Marked' = {}
        BY <1>1 DEF RecordFetch, MarkInv, HeldInv, Loading, HandlerSteps, Missing, IsDB, Marked
    <2> QED BY <2>1 DEF HeldInv
  <1>2. CASE ~Missing
    <2> DEFINE S == Pending(server, "record", Devices)
    <2>1. Fetch(S, Synced(server), FALSE) /\ server' = server /\ pc \in Loading
        BY <1>2 DEF RecordFetch, Loading, HandlerSteps
    <2>2. S \in SUBSET Rows /\ \A r \in S : server[r].sync = "0"
        BY PendingRows
    <2>3. /\ Marked' # {} => IsDB(interm')
          /\ \A r \in Marked' :
               /\ MarkSync(r)'
               /\ Has(server, r) => Carried(r)' \/ (Table[r] = "record" /\ r \notin S)
      <3> HIDE DEF S
      <3> QED BY <2>1, <2>2, HeldFetch
    <2>4. Marked' \in SUBSET Rows
      <3>1. TypeInv'
          BY TypeStep DEF Next, Session, ToPhone
      <3> QED BY <3>1 DEF TypeInv, TypeOK, Marked, Mark
    <2>5. ASSUME NEW r \in Marked', Has(server, r), Table[r] = "record" PROVE r \in S
      <3>1. server[r].sync = "0"
          BY <2>1, <2>3, <2>5 DEF MarkSync, Has
      <3> QED BY <2>4, <2>5, <3>1, RowsAssumption DEF Pending, Of
    <2> QED BY <2>1, <2>3, <2>5 DEF HeldInv, Has
  <1> QED BY <1>1, <1>2

LEMMA HeldToPhone ==
  ASSUME TypeInv, MarkInv, Calm, ToPhone, ~RecordFetch PROVE HeldInv'
  <1>0. pc \in Loading /\ pc' \in Loading \ {"marks"}
      BY ToPhoneKinds, OnlyRecordsEnd DEF Loading
  <1>1. Marked \in SUBSET Rows /\ \A r \in Rows : Owner[r] \in Rows
      BY MarkedRows, RowsAssumption DEF TypeInv
  <1>2. /\ Marked # {} => IsDB(interm)
        /\ \A r \in Marked : /\ MarkSync(r)
                             /\ Has(server, r) => Carried(r) \/ Table[r] = "record"
      BY <1>0 DEF MarkInv, HeldInv
  <1>gone. \A r \in Rows : RootGone(r) => RootGone(r)'
      BY RootStaysGone DEF Calm
  <1>3. CASE FetchesRows
    <2>1. PICK S \in SUBSET Rows, image \in {server, Synced(server)}, blame \in BOOLEAN :
            /\ Fetch(S, image, blame) /\ server' = server
            /\ \A r \in S : server[r].sync = "0" \/ (server[r].sync = "1" /\ Table[r] = "template")
        BY <1>3 DEF FetchesRows
    <2>2. /\ Marked' # {} => IsDB(interm')
          /\ \A r \in Marked' : /\ MarkSync(r)'
                                /\ Has(server, r) => Carried(r)' \/ Table[r] = "record"
        BY <1>0, <2>1, HeldFetch
    <2> QED BY <1>0, <2>1, <2>2 DEF HeldInv, Has
  <1>4. CASE DropsRows
    <2>1. PICK t \in {"template", "type"} :
            interm' = Drop(interm, {r \in Of(t) : server[r].sync = "2"})
        BY <1>4 DEF DropsRows
    <2>2. interm \in Database /\ interm' \in Database /\ IsDB(interm') /\ IsDB(interm)
        BY <1>4, <2>1, DatabaseFile, DropType, FileAssumption DEF DropsRows, TypeInv, TypeOK, IsDB
    <2>3. \A r \in Rows :
            interm'[r] = IF Table[r] = t /\ server[r].sync = "2" THEN NoRow ELSE interm[r]
        BY <2>1 DEF Drop, Of
    <2>4. server' = server /\ Marked' = Marked
        BY <1>4 DEF DropsRows, Marked
    <2>5. ASSUME NEW r \in Marked, InFile(r) PROVE InFile(r)'
      <3>1. server[r].sync # "2"
          BY <1>2 DEF MarkSync
      <3> QED BY <1>1, <2>2, <2>3, <2>4, <2>5, <3>1 DEF InFile, Has
    <2> QED BY <1>0, <1>1, <1>2, <1>gone, <2>2, <2>4, <2>5 DEF HeldInv, Carried, MarkSync, Has
  <1>5. CASE DropsTasks
    <2>1. PICK s \in {"2", "3"} : DeleteOnPhone(Doomed(s)) \/ DeleteOnPhone({})
        BY <1>5 DEF DropsTasks
    <2>0. PICK ids \in {Doomed(s), {}} : DeleteOnPhone(ids)
        BY <2>1
    <2>2. ids \in SUBSET Rows /\ server' = server /\ Marked' = Marked
        BY <1>5, <2>0 DEF DropsTasks, Marked, Doomed, Of
    <2>3. /\ IsDB(interm') <=> IsDB(interm)
          /\ IsDB(interm) => \A r \in Rows :
               /\ Table[r] \in {"template", "type"} => interm'[r] = interm[r]
               /\ Table[r] = "task" =>
                    interm'[r] = IF r \in ids \/ Owner[r] \in ids THEN NoRow ELSE interm[r]
        BY <2>0, <2>2, DeleteOnPhoneRows DEF TypeInv, Calm
    <2>5. ASSUME NEW r \in Rows, Table[r] = "task", IsDB(interm), r \in ids \/ Owner[r] \in ids
          PROVE  RootGone(r)'
      <3>1. ids = Doomed(s) /\ Table[Owner[r]] = "task" /\ Owner[Owner[r]] = Owner[r]
          BY <2>0, <2>5, OwnerAssumption
      <3>2. server[Owner[r]].sync = s
          BY <2>5, <3>1 DEF Doomed
      <3>3. Owner[r] \in ids
          BY <1>1, <3>1, <3>2 DEF Doomed, Of, Has
      <3>4. interm'[Owner[r]] = NoRow
          BY <1>1, <2>3, <2>5, <3>1, <3>3
      <3> QED BY <2>2, <2>5, <3>2, <3>4 DEF RootGone, Has, NoRow
    <2>6. ASSUME NEW r \in Rows, Table[r] # "record", InFile(r) PROVE Carried(r)'
      <3>1. CASE interm'[r] = interm[r]
          BY <2>2, <2>3, <2>6, <3>1 DEF Carried, InFile, Has
      <3>2. CASE interm'[r] # interm[r]
        <4>1. Table[r] = "task" /\ (r \in ids \/ Owner[r] \in ids)
            BY <2>3, <2>6, <3>2, RowsAssumption DEF InFile, Tables
        <4> QED BY <2>5, <2>6, <4>1 DEF Carried, InFile
      <3> QED BY <3>1, <3>2
    <2> QED BY <1>0, <1>1, <1>2, <1>gone, <2>2, <2>3, <2>6 DEF HeldInv, Carried, MarkSync, Has
  <1>6. CASE PurgesRows
    <2>1. PICK P : server' = Drop(server, P)
        BY <1>6 DEF PurgesRows
    <2>2. \A r \in Rows : server'[r] \in {server[r], NoRow}
        BY <2>1 DEF Drop
    <2>3. interm' = interm /\ Marked' = Marked
        BY <1>6 DEF PurgesRows, Marked
    <2>4. ASSUME NEW r \in Marked PROVE MarkSync(r)'
        BY <1>1, <1>2, <2>2, <2>4 DEF MarkSync, NoRow
    <2>5. ASSUME NEW r \in Marked, Has(server', r) PROVE Carried(r)' \/ Table[r] = "record"
      <3>1. server'[r] = server[r]
          BY <1>1, <2>2, <2>5 DEF Has, NoRow
      <3>2. Carried(r) \/ Table[r] = "record"
          BY <1>2, <2>5, <3>1 DEF Has
      <3> QED BY <1>1, <1>gone, <2>3, <3>1, <3>2 DEF Carried, InFile
    <2> QED BY <1>0, <1>2, <2>3, <2>4, <2>5 DEF HeldInv
  <1>7. CASE UNCHANGED <<interm, server, marks>>
    <2>1. Marked' = Marked
        BY <1>7 DEF Marked
    <2> QED BY <1>0, <1>2, <1>7, <2>1 DEF HeldInv, MarkSync, Carried, InFile, RootGone, Has
  <1> QED BY <1>3, <1>4, <1>5, <1>6, <1>7, ToPhoneKinds

LEMMA HeldStep ==
  ASSUME TypeInv, MarkInv, Calm, [Next]_vars PROVE MarkInv'
  <1> USE DEF files, session, history
  <1>0. DirInv'
      BY DirStep DEF MarkInv, Calm
  <1>1. CASE ToPhone
      BY <1>0, <1>1, HeldRecordFetch, HeldToPhone DEF MarkInv
  <1>2. CASE ToPc
    <2>1. dir = "to_pc" /\ pc \in Loading /\ marks' = marks
      <3>1. dir = "to_pc"
          BY <1>2 DEF ToPc, TaskUpload, TaskAck, RecordUpload, RecordAck, MarkInv, DirInv
      <3> QED BY <1>2, <3>1, ToPcKinds DEF Loading
    <2>2. Marked' = {}
        BY <2>1 DEF MarkInv, DirInv, Marked
    <2> QED BY <1>0, <2>2 DEF MarkInv, HeldInv
  <1>3. CASE Prepare
    <2>1. pc' \in Loading => Marked' = {}
        BY <1>3 DEF Prepare, Locate, Download, Backup, Connect, Return, Loading, HandlerSteps, Marked
    <2> QED BY <1>0, <2>1 DEF MarkInv, HeldInv
  <1>4. CASE Finish \/ User \/ Crash
    <2>1. pc' \notin Loading
      <3>1. CASE Finish
          BY <3>1 DEF Finish, Marks, Erase, Send, Cleanup, Return, Loading, HandlerSteps
      <3>2. CASE User
        <4>1. ~ClickBusy
            BY DEF ClickBusy, May, Calm
        <4> QED BY <3>2, <4>1 DEF User, Click, Cancel, Confirm, Return, Loading, HandlerSteps
      <3>3. CASE Crash
          BY <3>3 DEF Crash, Return, Loading, HandlerSteps
      <3> QED BY <1>4, <3>1, <3>2, <3>3
    <2> QED BY <1>0, <2>1 DEF MarkInv, HeldInv
  <1>5. CASE Editors \/ UNCHANGED vars
    <2>1. CASE UNCHANGED <<interm, server, marks, pc>>
      <3>1. Marked' = Marked
          BY <2>1 DEF Marked
      <3> QED BY <1>0, <2>1, <3>1 DEF MarkInv, HeldInv, MarkSync, Carried, InFile, RootGone, Has
    <2>2. CASE pc' = "idle"
        BY <1>0, <2>2 DEF MarkInv, HeldInv, Loading, HandlerSteps
    <2>3. ASSUME NEW r \in Rows, PhoneEdit(r) PROVE UNCHANGED <<interm, server, marks, pc>>
        BY <2>3 DEF PhoneEdit
    <2>4. ASSUME NEW r \in Rows, NEW state, WebEdit(r, state) PROVE pc' = "idle"
        BY <2>4 DEF WebEdit, May, Calm
    <2>5. ASSUME NEW r \in Rows, NEW s, WebDelete(r, s) PROVE pc' = "idle"
        BY <2>5 DEF WebDelete, May, Calm
    <2> QED BY <1>5, <2>1, <2>2, <2>3, <2>4, <2>5 DEF Editors, vars
  <1> QED BY <1>1, <1>2, <1>3, <1>4, <1>5 DEF Next, Session

LEMMA HeldInit == Init => MarkInv
  BY DEF Init, MarkInv, DirInv, HeldInv, Loading, HandlerSteps

\* When the marks are written, the file for the phone has every marked row as
\* the server has it, but for children of tasks to be deleted: across any
\* number of handlers and chunks, with crashes, broken downloads and failing
\* transfers, as long as the calls to the server and the file succeed and the
\* web editor rests during a session.
THEOREM MarkedRowsAreHeld ==
  ASSUME Calm
  PROVE  Spec => []MarksAreHeld
  <1>1. Init => TypeInv /\ MarkInv
      BY TypeInit, HeldInit
  <1>2. TypeInv /\ MarkInv /\ [Next]_vars => (TypeInv /\ MarkInv)'
      BY TypeStep, HeldStep
  <1>3. TypeInv /\ MarkInv => MarksAreHeld
    <2> SUFFICES ASSUME TypeInv, MarkInv, pc = "marks", NEW m \in marks,
                        Has(server, m.row), Standing(m.row)
                 PROVE  Has(interm, m.row) /\ interm[m.row].ver = server[m.row].ver
        BY DEF MarksAreHeld
    <2>1. m.row \in Marked /\ pc \in Loading
        BY DEF Marked, Loading
    <2>2. Carried(m.row)
        BY <2>1 DEF MarkInv, HeldInv
    <2> QED BY <2>2 DEF Carried, InFile, RootGone, Standing
  <1> QED BY <1>1, <1>2, <1>3, PTL DEF Spec

-----------------------------------------------------------------------------
(* What is synchronised has been on the phone.  A row the server counts as *)
(* synchronised was on the phone, or is in the file about to be sent, or   *)
(* it is a child of a task to be deleted that has left the phone's side.   *)

RowsLanded(f) == IsDB(f) => \A r \in Rows : Has(f, r) => f[r].ver \in landed

Lost(r) ==
  /\ RootGone(r)
  /\ pc # "erase" /\ IsDB(phone) => ~Has(phone, Owner[r])

Delivered(r) ==
  \/ server[r].ver \in landed
  \/ pc \in {"erase", "send"} /\ InFile(r)
  \/ Lost(r)

FileLanded ==
  dir = "to_pc" /\ pc \in {"backup", "connect"} \cup HandlerSteps => RowsLanded(interm)

DeliverInv ==
  /\ RowsLanded(phone)
  /\ FileLanded
  /\ pc \in Loading /\ IsDB(interm) => ok
  /\ pc = "send" => phone = NoFile
  /\ \A r \in Rows : server[r].sync = "1" => Delivered(r)

\* The download, the backup or the connection may fail and a statement of the
\* purge may be lost; the worker may write at any time.
Smooth == Disturbances \subseteq {"download", "backup", "connect", "later", "phone_edit"}

LEMMA SmoothCalls ==
  ASSUME Smooth
  PROVE  /\ Calm
         /\ \A d \in {"mysql", "sqlite", "erase", "send", "commit", "crash", "turn", "web_edit"} :
              ~May(d)
         /\ \A S : \A out \in UpdateMysqlDB(S) : out.ret = TRUE
  <1>1. /\ Calm
        /\ \A d \in {"mysql", "sqlite", "erase", "send", "commit", "crash", "turn", "web_edit"} :
             ~May(d)
      BY DEF Smooth, Calm, May
  <1>2. ASSUME NEW S, NEW out \in UpdateMysqlDB(S) PROVE out.ret = TRUE
    <2>1. CASE out = [ret |-> TRUE, done |-> S]
        BY <2>1
    <2>2. ASSUME NEW T, out = [ret |-> TRUE, done |-> T] PROVE out.ret = TRUE
        BY <2>2
    <2> QED BY <1>1, <1>2, <2>1, <2>2 DEF UpdateMysqlDB
  <1> QED BY <1>1, <1>2

\* Then a handler that finds the file does not fail.
LEMMA HandlersSucceed ==
  ASSUME TypeInv, Smooth, ToPhone \/ ToPc, IsDB(interm)
  PROVE  ok' = ok
  <1>0. /\ ok \in BOOLEAN /\ Outcomes("mysql") = {TRUE} /\ SqliteOutcomes = {TRUE}
        /\ ReadOutcomes = {"read"} /\ ~Missing
      BY SmoothCalls DEF TypeInv, TypeOK, Outcomes, SqliteOutcomes, ReadOutcomes, Missing, IsDB
  <1>1. ASSUME NEW S \in SUBSET Rows, NEW image, NEW blame, Fetch(S, image, blame) PROVE ok' = ok
      BY <1>1, FetchOutcome, SmoothCalls DEF TypeInv, Calm
  <1>2. CASE TemplateFetch
      BY <1>0, <1>1, <1>2 DEF TemplateFetch, Of
  <1>3. CASE TypeFetch \/ TaskFetch \/ RecordFetch
    <2>1. ASSUME NEW t, NEW devs, NEW S \in SUBSET Pending(server, t, devs), NEW image, NEW blame,
                 Fetch(S, image, blame)
          PROVE  ok' = ok
        BY <1>1, <2>1, PendingRows
    <2> QED BY <1>0, <1>3, <2>1 DEF TypeFetch, TaskFetch, RecordFetch
  <1>4. CASE TemplateDrop \/ TypeDrop
      BY <1>0, <1>4 DEF TemplateDrop, TypeDrop
  <1>5. CASE TaskDrop2 \/ TaskDrop3
      BY <1>0, <1>5 DEF TaskDrop2, TaskDrop3
  <1>6. CASE TaskPurge \/ Skip \/ TaskAck \/ RecordAck
      BY <1>6 DEF TaskPurge, Skip, TaskAck, RecordAck
  <1>7. ASSUME NEW S, NEW blame, Upload(S, blame) PROVE ok' = ok
      BY <1>0, <1>7, SmoothCalls DEF Upload
  <1>8. CASE TaskUpload \/ RecordUpload
      BY <1>0, <1>7, <1>8 DEF TaskUpload, RecordUpload
  <1> QED BY <1>2, <1>3, <1>4, <1>5, <1>6, <1>8 DEF ToPhone, ToPc

LEMMA HandlersFile ==
  ASSUME TypeInv, Smooth, ToPhone \/ ToPc
  PROVE  IsDB(interm') => IsDB(interm)
  <1>1. CASE ToPhone
    <2>1. CASE FetchesRows
        BY <2>1, FetchOutcome DEF FetchesRows, TypeInv
    <2>2. CASE DropsTasks
      <3>1. PICK ids \in SUBSET Rows : DeleteOnPhone(ids)
          BY <2>2 DEF DropsTasks, Doomed, Of
      <3> QED BY <3>1, DeleteOnPhoneRows, SmoothCalls DEF TypeInv, Calm
    <2> QED BY <1>1, <2>1, <2>2, ToPhoneKinds DEF DropsRows, PurgesRows
  <1>2. CASE ToPc
      BY <1>2, ToPcKinds DEF Uploads, Acknowledges
  <1> QED BY <1>1, <1>2

\* Steps that leave the server alone, when versions on the phone only grow.
LEMMA DeliveredStays ==
  ASSUME NEW r \in Rows, server[r].sync = "1", Delivered(r), server' = server,
         landed \subseteq landed', pc \notin {"erase", "send"}, Lost(r) => Lost(r)'
  PROVE  Delivered(r)'
  BY DEF Delivered

LEMMA DeliverPrepare ==
  ASSUME TypeInv, MarkInv, DeliverInv, Smooth, Prepare PROVE DeliverInv'
  <1> USE DEF files, history, Return
  <1>1. UNCHANGED <<phone, server, dir, landed>> /\ pc \notin {"erase", "send"}
        /\ pc' \notin {"erase", "send"}
      BY DEF Prepare, Locate, Download, Backup, Connect
  <1>2. interm' \in {interm, NoFile, Corrupt} \/ (pc = "download" /\ interm' = phone)
      BY DEF Prepare, Locate, Download, Backup, Connect
  <1>3. ASSUME NEW r \in Rows, server[r].sync = "1" PROVE Delivered(r)'
    <2>1. Delivered(r) /\ (Lost(r) => Lost(r)')
        BY <1>1, <1>2, <1>3 DEF DeliverInv, Lost, RootGone, IsDB
    <2> QED BY <1>1, <1>3, <2>1, DeliveredStays
  <1>4. RowsLanded(phone)'
      BY <1>1 DEF DeliverInv, RowsLanded
  <1>5. FileLanded'
    <2>1. CASE Download
        BY <1>1, <1>2, <1>4, <2>1 DEF Download, DeliverInv, FileLanded, RowsLanded, IsDB
    <2>2. CASE Backup \/ Connect
        BY <1>1, <2>2 DEF Backup, Connect, DeliverInv, FileLanded, RowsLanded, HandlerSteps
    <2>3. CASE Locate
        BY <2>3 DEF Locate, FileLanded, HandlerSteps
    <2> QED BY <2>1, <2>2, <2>3 DEF Prepare
  <1>6. pc' \in Loading => ok'
      BY DEF Prepare, Locate, Download, Backup, Connect, Loading, HandlerSteps
  <1> QED BY <1>1, <1>3, <1>4, <1>5, <1>6 DEF DeliverInv

LEMMA DeliverToPhone ==
  ASSUME TypeInv, MarkInv, DeliverInv, Smooth, ToPhone PROVE DeliverInv'
  <1>1. /\ pc \in HandlerSteps /\ pc' \in Loading /\ UNCHANGED <<phone, dir, landed>>
      BY ToPhoneKinds
  <1>2. pc \notin {"erase", "send"} /\ pc' \notin {"erase", "send"} /\ pc \in Loading
      BY <1>1 DEF HandlerSteps, Loading
  <1>3. ASSUME NEW r \in Rows, server'[r].sync = "1" PROVE Delivered(r)'
    <2>1. server'[r] = server[r]
      <3>1. \A P \in SUBSET Rows : server' = Drop(server, P) => server'[r] = server[r]
          BY <1>3 DEF Drop, NoRow
      <3>2. server' = server \/ \E P \in SUBSET Rows : server' = Drop(server, P)
          BY ToPhoneKinds DEF FetchesRows, DropsRows, DropsTasks, PurgesRows
      <3> QED BY <3>1, <3>2
    <2>2. RootGone(r) => RootGone(r)'
        BY RootStaysGone, SmoothCalls DEF Calm
    <2>3. Delivered(r)
        BY <1>3, <2>1 DEF DeliverInv
    <2> QED BY <1>1, <1>2, <2>1, <2>2, <2>3 DEF Delivered, Lost
  <1>4. RowsLanded(phone)'
      BY <1>1 DEF DeliverInv, RowsLanded
  <1>5. FileLanded'
    <2>1. CASE dir = "to_phone"
        BY <1>1, <2>1 DEF FileLanded
    <2>2. CASE Skip
        BY <2>2 DEF Skip, files, history, FileLanded, RowsLanded, DeliverInv, HandlerSteps
    <2> QED BY <2>1, <2>2, DirToPhone DEF MarkInv
  <1>6. IsDB(interm') => ok'
      BY <1>2, HandlersSucceed, HandlersFile DEF DeliverInv
  <1> QED BY <1>2, <1>3, <1>4, <1>5, <1>6 DEF DeliverInv

LEMMA DeliverToPc ==
  ASSUME TypeInv, MarkInv, DeliverInv, Smooth, ToPc PROVE DeliverInv'
  <1>1. /\ pc \in HandlerSteps /\ pc' \in Loading /\ UNCHANGED <<phone, dir, landed, marks>>
        /\ Uploads \/ Acknowledges \/ UNCHANGED <<interm, server>>
      BY ToPcKinds
  <1>2. pc \notin {"erase", "send"} /\ pc' \notin {"erase", "send"} /\ pc \in Loading
      BY <1>1 DEF HandlerSteps, Loading
  <1>3. dir = "to_pc" /\ RowsLanded(interm)
    <2>1. dir = "to_pc"
        BY DEF ToPc, TaskUpload, TaskAck, RecordUpload, RecordAck, MarkInv, DirInv
    <2> QED BY <1>1, <2>1 DEF DeliverInv, FileLanded
  <1>4. RowsLanded(phone)'
      BY <1>1 DEF DeliverInv, RowsLanded
  <1>5. IsDB(interm') => ok'
      BY <1>2, HandlersSucceed, HandlersFile DEF DeliverInv
  <1>6. \A r \in Rows : Owner[r] \in Rows
      BY RowsAssumption
  <1>7. CASE Acknowledges
    <2>1. interm \in Database /\ interm' \in Database
        BY <1>7, DatabaseFile, SetSyncedType DEF Acknowledges, TypeInv, TypeOK
    <2>2. ASSUME NEW r \in Rows
          PROVE  interm'[r].ver = interm[r].ver /\ (Has(interm', r) <=> Has(interm, r))
      <3>1. interm[r] \in Row
          BY <2>1 DEF Database
      <3> QED BY <1>7, <3>1 DEF Acknowledges, SetSynced, Put, Synced, Has, Row
    <2>3. RowsLanded(interm)'
        BY <1>1, <1>3, <1>7, <2>2 DEF RowsLanded, Acknowledges
    <2>4. ASSUME NEW r \in Rows, server'[r].sync = "1" PROVE Delivered(r)'
      <3>1. Lost(r) => Lost(r)'
          BY <1>1, <1>2, <1>6, <1>7, <2>2 DEF Lost, RootGone, Acknowledges
      <3> QED BY <1>1, <1>2, <1>7, <2>4, <3>1, DeliveredStays DEF DeliverInv, Acknowledges
    <2> QED BY <1>2, <1>4, <1>5, <2>3, <2>4 DEF DeliverInv, FileLanded
  <1>8. CASE Uploads
    <2>1. PICK S \in SUBSET Rows : \A r \in Rows :
            /\ r \notin S => server'[r] = server[r]
            /\ r \in S => /\ IsDB(interm) /\ interm[r].sync = "0"
                          /\ server'[r].sync = "1" /\ server'[r].ver = interm[r].ver
        BY <1>8, UploadedServer DEF TypeInv
    <2>2. interm' = interm
        BY <1>8 DEF Uploads
    <2>3. ASSUME NEW r \in S PROVE server'[r].ver \in landed'
        BY <1>1, <1>3, <2>1 DEF RowsLanded, Has
    <2>4. ASSUME NEW r \in Rows, r \notin S, server'[r].sync = "1" PROVE Delivered(r)'
      <3>1. Delivered(r) /\ server'[r] = server[r]
          BY <2>1, <2>4 DEF DeliverInv
      <3>2. Lost(r) => Owner[r] \notin S
          BY <1>6, <2>1 DEF Lost, RootGone, Has
      <3>3. Lost(r) => Lost(r)'
          BY <1>1, <1>2, <1>6, <2>1, <2>2, <3>2 DEF Lost, RootGone
      <3> QED BY <1>1, <1>2, <3>1, <3>3 DEF Delivered
    <2>5. RowsLanded(interm)'
        BY <1>1, <1>3, <2>2 DEF RowsLanded
    <2> QED BY <1>2, <1>4, <1>5, <2>3, <2>4, <2>5 DEF DeliverInv, Delivered, FileLanded
  <1>9. CASE UNCHANGED <<interm, server>>
    <2>1. ASSUME NEW r \in Rows, server'[r].sync = "1" PROVE Delivered(r)'
        BY <1>1, <1>2, <1>9, <2>1 DEF DeliverInv, Delivered, Lost, RootGone
    <2>2. RowsLanded(interm)'
        BY <1>1, <1>3, <1>9 DEF RowsLanded
    <2> QED BY <1>2, <1>4, <1>5, <2>1, <2>2 DEF DeliverInv, FileLanded
  <1> QED BY <1>1, <1>7, <1>8, <1>9

\* Every row to be marked is carried, so what the marks count as synchronised
\* is in the file, and the file is sent.
LEMMA DeliverMarks ==
  ASSUME TypeInv, MarkInv, DeliverInv, Smooth, Marks PROVE DeliverInv'
  <1> USE DEF files, history
  <1>1. /\ UNCHANGED <<phone, interm, landed, dir>> /\ pc = "marks" /\ pc' \in {"erase", "idle"}
        /\ ok => pc' = "erase"
      BY SmoothCalls DEF Marks, Return
  <1>2. PICK hit \in SUBSET Marked : \A r \in Rows :
          /\ server'[r].ver = server[r].ver
          /\ server'[r].sync = IF r \in hit /\ Has(server, r) THEN "1" ELSE server[r].sync
      BY MarksServer DEF TypeInv
  <1>3. /\ Marked # {} => IsDB(interm) /\ ok
        /\ \A r \in Marked : MarkSync(r) /\ (Has(server, r) => Carried(r))
      BY <1>1 DEF MarkInv, HeldInv, DeliverInv, Loading
  <1>4. ASSUME NEW r \in Rows, RootGone(r) PROVE RootGone(r)'
    <2>1. Owner[r] \in Rows /\ Table[Owner[r]] = "task"
        BY <1>4, RowsAssumption, OwnerAssumption DEF RootGone
    <2>2. ~(Owner[r] \in hit /\ Has(server, Owner[r]))
        BY <1>2, <1>3, <1>4, <2>1 DEF MarkSync, RootGone, Has
    <2>3. server'[Owner[r]].sync = server[Owner[r]].sync
        BY <1>2, <2>1, <2>2
    <2> QED BY <1>1, <1>4, <2>3 DEF RootGone
  <1>5. ASSUME NEW r \in Rows, server'[r].sync = "1" PROVE Delivered(r)'
    <2>1. CASE server[r].sync = "1"
      <3>1. Delivered(r)
          BY <2>1 DEF DeliverInv
      <3> QED BY <1>1, <1>2, <1>4, <3>1 DEF Delivered, Lost
    <2>2. CASE server[r].sync # "1"
      <3>1. r \in Marked /\ Has(server, r)
          BY <1>2, <1>5, <2>2
      <3>2. Carried(r) /\ pc' = "erase"
          BY <1>1, <1>3, <3>1
      <3>3. InFile(r) => InFile(r)'
          BY <1>1, <1>2 DEF InFile, Has
      <3> QED BY <1>4, <3>2, <3>3 DEF Carried, Delivered, Lost
    <2> QED BY <2>1, <2>2
  <1>6. RowsLanded(phone)'
      BY <1>1 DEF DeliverInv, RowsLanded
  <1> QED BY <1>1, <1>5, <1>6 DEF DeliverInv, FileLanded, Loading, HandlerSteps

LEMMA DeliverSend ==
  ASSUME TypeInv, MarkInv, DeliverInv, Smooth, Erase \/ Send \/ Cleanup PROVE DeliverInv'
  <1> USE DEF files, history, Return
  <1>0. UNCHANGED <<server, dir>> /\ \A r \in Rows : Owner[r] \in Rows
      BY RowsAssumption DEF Erase, Send, Cleanup
  <1>1. CASE Erase
    <2>1. phone' = NoFile /\ ~IsDB(phone') /\ pc = "erase" /\ pc' = "send"
          /\ UNCHANGED <<interm, landed>>
        BY <1>1, SmoothCalls DEF Erase, IsDB
    <2>2. ASSUME NEW r \in Rows, server[r].sync = "1" PROVE Delivered(r)'
        BY <1>0, <2>1, <2>2 DEF DeliverInv, Delivered, InFile, Lost, RootGone
    <2> QED BY <1>0, <2>1, <2>2 DEF DeliverInv, RowsLanded, FileLanded, Loading, HandlerSteps
  <1>2. CASE Send
    <2>1. /\ pc = "send" /\ pc' = "cleanup" /\ interm' = interm
          /\ phone' = interm \/ (interm = NoFile /\ phone' = NoFile)
          /\ landed' = landed \cup (IF IsDB(phone') THEN Vers(phone') ELSE {})
        BY <1>2, SmoothCalls DEF Send, DeliverInv, Missing
    <2>2. RowsLanded(phone)'
        BY <2>1 DEF RowsLanded, Vers
    <2>3. ASSUME NEW r \in Rows, server[r].sync = "1" PROVE Delivered(r)'
      <3>1. Delivered(r)
          BY <2>3 DEF DeliverInv
      <3>2. CASE InFile(r)
        <4>1. phone' = interm /\ Has(phone', r) /\ IsDB(phone')
            BY <2>1, <3>2 DEF InFile, IsDB
        <4>2. phone'[r].ver \in landed'
            BY <2>2, <4>1 DEF RowsLanded
        <4> QED BY <1>0, <3>2, <4>1, <4>2 DEF Delivered, InFile
      <3>3. CASE Lost(r)
        <4>1. IsDB(phone') => ~Has(phone', Owner[r])
            BY <2>1, <3>3 DEF Lost, RootGone, IsDB
        <4> QED BY <1>0, <2>1, <3>3, <4>1 DEF Delivered, Lost, RootGone
      <3>4. CASE server[r].ver \in landed
          BY <1>0, <2>1, <3>4 DEF Delivered
      <3> QED BY <3>1, <3>2, <3>3, <3>4 DEF Delivered
    <2> QED BY <1>0, <2>1, <2>2, <2>3 DEF DeliverInv, FileLanded, Loading, HandlerSteps
  <1>3. CASE Cleanup
    <2>1. interm' = NoFile /\ ~IsDB(interm') /\ UNCHANGED <<phone, landed>>
          /\ pc = "cleanup" /\ pc' = "idle"
        BY <1>3 DEF Cleanup, IsDB
    <2>2. ASSUME NEW r \in Rows, server[r].sync = "1" PROVE Delivered(r)'
        BY <1>0, <2>1, <2>2 DEF DeliverInv, Delivered, Lost, RootGone
    <2> QED BY <1>0, <2>1, <2>2 DEF DeliverInv, RowsLanded, FileLanded, Loading, HandlerSteps
  <1> QED BY <1>1, <1>2, <1>3

LEMMA DeliverUser ==
  ASSUME TypeInv, DeliverInv, Smooth, User \/ UNCHANGED vars PROVE DeliverInv'
  <1> USE DEF files, session, history, Return
  <1>1. UNCHANGED <<phone, interm, server, landed>>
      BY DEF User, Click, ClickBusy, Cancel, Confirm, vars
  <1>2. UNCHANGED <<pc, dir, ok>> \/ (pc \in {"idle", "confirm"} /\ pc' \in {"idle", "confirm", "locate"})
      BY SmoothCalls DEF User, Click, ClickBusy, Cancel, Confirm, vars
  <1>3. ASSUME NEW r \in Rows, server[r].sync = "1" PROVE Delivered(r)'
      BY <1>1, <1>2, <1>3 DEF DeliverInv, Delivered, InFile, Lost, RootGone
  <1>4. RowsLanded(phone)'
      BY <1>1 DEF DeliverInv, RowsLanded
  <1>5. FileLanded'
      BY <1>1, <1>2 DEF DeliverInv, FileLanded, RowsLanded, HandlerSteps
  <1> QED BY <1>1, <1>2, <1>3, <1>4, <1>5 DEF DeliverInv, Loading, HandlerSteps

\* A root that has left the phone's side is not brought back: the worker writes
\* only into tasks he has, and the web editor gives new rows new ids.
LEMMA DeliverEditors ==
  ASSUME TypeInv, DeliverInv, Smooth, Editors PROVE DeliverInv'
  <1> USE DEF files, session, history
  <1>0. server \in [Rows -> Row] /\ \A r \in Rows : Owner[r] \in Rows /\ server[r] \in Row
      BY RowsAssumption DEF TypeInv, TypeOK, Database
  <1>1. ASSUME NEW r \in Rows, PhoneEdit(r) PROVE DeliverInv'
    <2>1. phone \in Database /\ IsDB(phone)
        BY <1>1, DatabaseFile DEF PhoneEdit, TypeInv, TypeOK
    <2>2. /\ phone' = [phone EXCEPT ![r] = [ver |-> clock', state |-> "2", sync |-> "0"]]
          /\ landed' = landed \cup {clock'} /\ UNCHANGED <<interm, server, pc, dir, ok>>
          /\ Table[r] = "task" => Has(phone, r)
        BY <1>1 DEF PhoneEdit
    <2>3. \A q \in Rows : phone'[q] = IF q = r THEN [ver |-> clock', state |-> "2", sync |-> "0"]
                                      ELSE phone[q]
        BY <2>1, <2>2 DEF Database
    <2>4. RowsLanded(phone)'
        BY <2>1, <2>2, <2>3 DEF DeliverInv, RowsLanded, Has
    <2>5. ASSUME NEW q \in Rows, server[q].sync = "1" PROVE Delivered(q)'
      <3>1. Delivered(q)
          BY <2>5 DEF DeliverInv
      <3>2. CASE Lost(q)
        <4>1. Table[Owner[q]] = "task" /\ (pc # "erase" => Owner[q] # r)
            BY <2>1, <2>2, <3>2, OwnerAssumption DEF Lost, RootGone
        <4> QED BY <1>0, <2>1, <2>2, <2>3, <3>2, <4>1 DEF Delivered, Lost, RootGone, Has
      <3> QED BY <2>2, <3>1, <3>2 DEF Delivered, InFile
    <2>6. pc # "send"
        BY <2>1 DEF DeliverInv, IsDB
    <2>7. FileLanded'
        BY <2>2 DEF DeliverInv, FileLanded, RowsLanded
    <2> QED BY <2>2, <2>4, <2>5, <2>6, <2>7 DEF DeliverInv
  <1>2. ASSUME UNCHANGED <<phone, interm, pc, dir, ok, landed>>, pc = "idle", NEW r \in Rows,
               server'[r].sync # "1", \A q \in Rows \ {r} : server'[q] = server[q],
               \A q \in Rows : Lost(q) /\ server[q].sync = "1" /\ Owner[q] = r
                  => server'[r].sync \notin {"0", "1"}
        PROVE  DeliverInv'
    <2>1. ASSUME NEW q \in Rows, server'[q].sync = "1" PROVE Delivered(q)'
      <3>1. q # r /\ server'[q] = server[q] /\ Delivered(q)
          BY <1>2, <2>1 DEF DeliverInv
      <3>2. Lost(q) => Lost(q)'
          BY <1>0, <1>2, <2>1, <3>1 DEF Lost, RootGone
      <3> QED BY <1>2, <3>1, <3>2 DEF Delivered
    <2> QED BY <1>2, <2>1 DEF DeliverInv, RowsLanded, FileLanded, Loading, HandlerSteps
  <1>3. ASSUME NEW r \in Rows, NEW state \in {"0", "1"}, WebEdit(r, state) PROVE DeliverInv'
    <2>1. /\ UNCHANGED <<phone, interm, pc, dir, ok, landed>> /\ pc = "idle"
          /\ server'[r].sync = "0" /\ \A q \in Rows \ {r} : server'[q] = server[q]
        BY <1>0, <1>3, SmoothCalls DEF WebEdit
    <2>2. ASSUME NEW q \in Rows, Lost(q), server[q].sync = "1", Owner[q] = r PROVE FALSE
      <3>1. server[r].sync \notin {"0", "1", "2", "3"}
          BY <1>3, <2>2 DEF WebEdit, Lost, RootGone
      <3>2. ~Has(server, r) /\ Has(server, q)
          BY <1>0, <2>2, <3>1 DEF Has, Row
      <3> QED BY <1>3, <2>2, <3>2 DEF WebEdit
    <2> QED BY <1>2, <2>1, <2>2
  <1>4. ASSUME NEW r \in Rows, NEW s \in {"2", "3"}, WebDelete(r, s) PROVE DeliverInv'
    <2>1. /\ UNCHANGED <<phone, interm, pc, dir, ok, landed>> /\ pc = "idle"
          /\ server'[r].sync = s /\ \A q \in Rows \ {r} : server'[q] = server[q]
        BY <1>0, <1>4, SmoothCalls DEF WebDelete, Row
    <2> QED BY <1>2, <2>1
  <1> QED BY <1>1, <1>3, <1>4 DEF Editors

LEMMA DeliverInit == Init => DeliverInv
  <1> SUFFICES ASSUME Init PROVE DeliverInv
      OBVIOUS
  <1>1. \A r \in Rows : phone[r].ver = 0 /\ server[r].ver = 0
      BY DEF Init, NoRow
  <1> QED BY <1>1 DEF Init, DeliverInv, RowsLanded, FileLanded, Delivered, Loading, HandlerSteps

LEMMA DeliverStep ==
  ASSUME TypeInv, MarkInv, DeliverInv, Smooth, [Next]_vars PROVE DeliverInv'
  <1>1. ~Crash
      BY SmoothCalls DEF Crash
  <1> QED BY <1>1, DeliverPrepare, DeliverToPhone, DeliverToPc, DeliverMarks, DeliverSend,
             DeliverUser, DeliverEditors DEF Next, Session, Finish

\* Between sessions, what the server counts as synchronised has been on the
\* phone, but for children of tasks to be deleted: while the worker writes at
\* any time, over any number of sessions in both directions, some of which end
\* before their first handler or with a broken copy of the database.
THEOREM MarkedRowsArrived ==
  ASSUME Smooth
  PROVE  Spec => []MarkedIsDelivered
  <1>1. Init => TypeInv /\ MarkInv /\ DeliverInv
      BY TypeInit, HeldInit, DeliverInit
  <1>2. TypeInv /\ MarkInv /\ DeliverInv /\ [Next]_vars => (TypeInv /\ MarkInv /\ DeliverInv)'
      BY TypeStep, HeldStep, DeliverStep, SmoothCalls
  <1>3. DeliverInv => MarkedIsDelivered
      BY DEF DeliverInv, Delivered, Lost, RootGone, Standing, MarkedIsDelivered
  <1> QED BY <1>1, <1>2, <1>3, PTL DEF Spec
=============================================================================
