------------------------------ MODULE WorkSync ------------------------------
(***************************************************************************)
(* One synchronisation session of the work tables (radio_work) and what    *)
(* surrounds it: the phone's SQLite file, the intermediate file beside the *)
(* program, the backups, and the MySQL server.                             *)
(*                                                                         *)
(* The session is the thread MyControllingFunction:                        *)
(*   BeginPhoneToPc  -> BeginSwitchData -> BeginPcToPhone                  *)
(* Its steps are named by pc.  The phone's worker, the web editor, failing *)
(* calls and a crash of the program are the environment.                   *)
(*                                                                         *)
(* A table is abstracted to a few rows.  A row keeps its SynchronState     *)
(* (sync), its State, and a version that stands for all other columns.     *)
(* An absent row has sync "none".  Every row lies in the 180-day window.   *)
(***************************************************************************)
EXTENDS Naturals, Sequences, FiniteSets

CONSTANTS
  Devices,        \* ids of device_info
  Rows,           \* row ids of the four work tables
  Table,          \* row -> "template", "type", "task" or "record"
  Owner,          \* template -> its type, record -> its task, task -> its root (AllId)
  DeviceOf,       \* row -> its DeviceId
  Seeded,         \* rows both sides hold, synchronised, at the start
  Selections,     \* what a tree item expands to: sequences of chunks of devices
  Disturbances,   \* what may go wrong: see AllDisturbances
  MaxVer,         \* bound: edits by the phone's worker and the web editor
  MaxSessions,    \* bound: sessions started
  NoFile,         \* the file does not exist
  Corrupt         \* the file exists and is not a usable database

Tables == {"template", "type", "task", "record"}

AllDisturbances ==
  {"download", "backup", "connect", "mysql", "later", "sqlite", "erase",
   "send", "commit", "crash", "turn", "phone_edit", "web_edit"}

Row == [ver : Nat, state : {"0", "1", "2"}, sync : {"0", "1", "2", "3", "none"}]
NoRow == [ver |-> 0, state |-> "0", sync |-> "none"]
Database == [Rows -> Row]
File == Database \cup {NoFile, Corrupt}

ASSUME RowsAssumption ==
  /\ Table \in [Rows -> Tables]
  /\ Owner \in [Rows -> Rows]
  /\ DeviceOf \in [Rows -> Devices]
  /\ Seeded \subseteq Rows
ASSUME OwnerAssumption ==
  \A r \in Rows :
    /\ Table[r] \in {"task", "record"} => Table[Owner[r]] = "task"
    /\ Table[r] \in {"type", "template"} => Table[Owner[r]] = "type"
    /\ Table[r] = "task" => Owner[Owner[r]] = Owner[r]
    /\ Table[r] = "type" => Owner[r] = r
    /\ r \in Seeded => Owner[r] \in Seeded
ASSUME SelectionsAssumption == Selections \subseteq Seq(SUBSET Devices)
ASSUME DisturbancesAssumption == Disturbances \subseteq AllDisturbances
ASSUME BoundsAssumption == MaxVer \in Nat /\ MaxSessions \in Nat
ASSUME FileAssumption ==
  NoFile \notin Database /\ Corrupt \notin Database /\ NoFile # Corrupt

VARIABLES
  phone,     \* the phone's safetydata.db
  interm,    \* the intermediate file, gFilePath
  backups,   \* copies under backUp
  server,    \* the MySQL tables
  dbEvent,   \* CSQLite::m_eventOpenDB is signalled
  pc,        \* the session thread's next step, "idle" when there is none
  dir,       \* m_tongbu_dir
  chunks,    \* chunks of devices still to be synchronised
  picked,    \* row ids a handler keeps between two of its statements
  marks,     \* m_updateMysqlData
  ok,        \* ret, and when idle the result the session reported
  clock,     \* last version given to a row
  sessions,  \* sessions started
  work,      \* history: last version of a row the phone's worker wrote
  stored,    \* history: versions the server has held
  landed     \* history: versions the phone has held

files == <<phone, interm, backups>>
session == <<pc, dir, chunks, picked, marks, ok>>
history == <<work, stored, landed>>
vars == <<files, server, dbEvent, session, clock, sessions, history>>

\* "template", "type", "task", "record": the handler is about to be called.
HandlerSteps ==
  {"template", "template_drop", "type", "type_drop", "task", "task_drop3",
   "task_purge", "task_fetch", "task_ack", "record", "record_ack"}
Steps ==
  {"idle", "confirm", "locate", "download", "backup", "connect", "marks",
   "erase", "send", "cleanup"} \cup HandlerSteps

Mark == [row : Rows, raise : BOOLEAN]

\* Type correctness of the files, the server and the session thread.
TypeOK ==
  /\ phone \in File /\ interm \in File /\ backups \in SUBSET File
  /\ server \in Database
  /\ dbEvent \in BOOLEAN
  /\ pc \in Steps
  /\ dir \in {"to_pc", "to_phone"}
  /\ chunks \in Seq(SUBSET Devices)
  /\ picked \in SUBSET Rows
  /\ marks \in SUBSET Mark
  /\ ok \in BOOLEAN
  /\ clock \in Nat /\ sessions \in Nat
  /\ work \in [Rows -> Nat]
  /\ stored \in SUBSET Nat /\ landed \in SUBSET Nat

-----------------------------------------------------------------------------
(* Rows, databases and files. *)

IsDB(f) == f \notin {NoFile, Corrupt}
Has(db, r) == db[r].sync # "none"
Of(t) == {r \in Rows : Table[r] = t}
Vers(db) == {db[r].ver : r \in {q \in Rows : Has(db, q)}}

\* DELETE ... WHERE Id = ?, REPLACE INTO ..., UPDATE ... SynchronState = '1'
Drop(db, S) == [r \in Rows |-> IF r \in S THEN NoRow ELSE db[r]]
Put(db, rows, S) == [r \in Rows |-> IF r \in S THEN rows[r] ELSE db[r]]
Synced(db) == [r \in Rows |-> IF Has(db, r) THEN [db[r] EXCEPT !.sync = "1"] ELSE db[r]]
SetSynced(db, S) == Put(db, Synced(db), S)

\* Mutant of Pending: rows asked to be deleted on the phone count as pending.
PendingOrDeleted(db, t, devs) ==
  {r \in Of(t) : db[r].sync \in {"0", "2"} /\ DeviceOf[r] \in devs}

\* Rows of a table with SynchronState '0' whose device is in the chunk.
Pending(db, t, devs) ==
  {r \in Of(t) : db[r].sync = "0" /\ DeviceOf[r] \in devs}

\* The four deletions of work_task's handler; k of them were carried out.
DropTasks(db, ids, k) ==
  LET tasks == {r \in Of("task") : (k >= 1 /\ r \in ids) \/ (k >= 2 /\ Owner[r] \in ids)}
      records == {r \in Of("record") :
                    \/ k >= 3 /\ Owner[r] \in ids
                    \/ k >= 4 /\ (~Has(db, Owner[r]) \/ Owner[r] \in tasks)}
  IN Drop(db, tasks \cup records)

\* Mutant of Doomed: either request for a deletion counts.
DoomedEither(s) ==
  {r \in Of("task") : Has(server, r) /\ server[Owner[r]].sync \in {"2", s}}

\* Tasks whose root the web editor marked with SynchronState s.
Doomed(s) ==
  {r \in Of("task") : Has(server, r) /\ server[Owner[r]].sync = s}

-----------------------------------------------------------------------------
(* What a call can return. *)

May(d) == d \in Disturbances
Outcomes(d) == IF May(d) THEN BOOLEAN ELSE {TRUE}

\* A SQLite statement on the intermediate file fails when it is no database.
SqliteOutcomes == IF IsDB(interm) THEN Outcomes("sqlite") ELSE {FALSE}

\* Reading pending rows is a count and a select.  "none" is a count that broke
\* off and returned TRUE with 0, "half" a select that failed after its count.
ReadOutcomes ==
  IF ~IsDB(interm) THEN {"fail"}
  ELSE {"read"} \cup (IF May("sqlite") THEN {"none", "half", "fail"} ELSE {})

\* UpdateMysqlDB: FALSE leaves what earlier batches did; TRUE only says that
\* the first statement of the batch succeeded.
UpdateMysqlDB(S) ==
  {[ret |-> TRUE, done |-> S]}
  \cup {[ret |-> FALSE, done |-> T] : T \in {U \in SUBSET S : May("mysql") /\ S # {}}}
  \cup {[ret |-> TRUE, done |-> T] : T \in {U \in SUBSET S : May("later") /\ U # {}}}

-----------------------------------------------------------------------------
(* Control flow of the session. *)

Return(result) == pc' = "idle" /\ ok' = result

NextChunk ==
  /\ chunks' = Tail(chunks)
  /\ pc' = IF Len(chunks) = 1 THEN "marks" ELSE "template"

\* PathFileExists at the head of a handler: it returns FALSE without opening.
Missing == interm = NoFile

-----------------------------------------------------------------------------
(* The start of a session. *)

Click(d) ==
  /\ pc = "idle" /\ sessions < MaxSessions
  /\ pc' = "confirm" /\ dir' = d
  /\ sessions' = sessions + 1
  /\ UNCHANGED <<files, server, dbEvent, chunks, picked, marks, ok, clock, history>>

\* A click while a session runs changes its direction for the handlers still to
\* be called: towards the server only, the radio buttons enable that button.
ClickBusy ==
  /\ May("turn") /\ pc \notin {"idle", "confirm"}
  /\ dir' = "to_pc"
  /\ UNCHANGED <<files, server, dbEvent, pc, chunks, picked, marks, ok, clock, sessions,
                 history>>

Cancel ==
  /\ pc = "confirm"
  /\ Return(FALSE)
  /\ UNCHANGED <<files, server, dbEvent, dir, chunks, picked, marks, clock, sessions, history>>

Confirm ==
  /\ pc = "confirm"
  /\ pc' = "locate"
  /\ UNCHANGED <<files, server, dbEvent, dir, chunks, picked, marks, ok, clock, sessions, history>>

\* The old intermediate file goes first; then the database is looked up.
Locate ==
  /\ pc = "locate"
  /\ interm' = NoFile
  /\ IF phone = NoFile THEN Return(FALSE) ELSE pc' = "download" /\ ok' = ok
  /\ UNCHANGED <<phone, backups, server, dbEvent, dir, chunks, picked, marks, clock,
                 sessions, history>>

\* TransforDataFromDevice returns nothing: a broken copy is used all the same.
Download ==
  /\ pc = "download"
  /\ interm' \in {phone} \cup (IF May("download") THEN {NoFile, Corrupt} ELSE {})
  /\ pc' = "backup"
  /\ UNCHANGED <<phone, backups, server, dbEvent, dir, chunks, picked, marks, ok, clock,
                 sessions, history>>

\* Mutant of Backup: one backup under a fixed name.
BackupOverwrites ==
  /\ pc = "backup"
  /\ backups' = {interm}
  /\ pc' = "connect"
  /\ UNCHANGED <<phone, interm, server, dbEvent, dir, chunks, picked, marks, ok, clock,
                 sessions, history>>

\* CopyFile's result is not looked at.
Backup ==
  /\ pc = "backup"
  /\ backups' \in {IF interm = NoFile THEN backups ELSE backups \cup {interm}}
                   \cup (IF May("backup") THEN {backups} ELSE {})
  /\ pc' = "connect"
  /\ UNCHANGED <<phone, interm, server, dbEvent, dir, chunks, picked, marks, ok, clock,
                 sessions, history>>

\* Mutant of Connect: m_updateMysqlData is not emptied.
ConnectKeepsMarks ==
  /\ pc = "connect"
  /\ UNCHANGED marks
  /\ \/ /\ May("connect")
        /\ Return(FALSE)
        /\ UNCHANGED chunks
     \/ /\ chunks' \in Selections
        /\ pc' = IF chunks' = <<>> THEN "marks" ELSE "template"
        /\ ok' = TRUE
  /\ UNCHANGED <<files, server, dbEvent, dir, picked, clock, sessions, history>>

\* InitMyDataBase, and the tree item chosen now, cut into chunks.
Connect ==
  /\ pc = "connect"
  /\ marks' = {}
  /\ \/ /\ May("connect")
        /\ Return(FALSE)
        /\ UNCHANGED chunks
     \/ /\ chunks' \in Selections
        /\ pc' = IF chunks' = <<>> THEN "marks" ELSE "template"
        /\ ok' = TRUE
  /\ UNCHANGED <<files, server, dbEvent, dir, picked, clock, sessions, history>>

-----------------------------------------------------------------------------
(* From the server to the phone. *)

\* Mutant of Fetch: a mark does not say whether to raise the task's State.
FetchBareIds(S, image, blame) ==
  /\ interm' = Put(interm, image, S)
  /\ marks' = marks \cup {[row |-> r] : r \in S}
  /\ ok' = ok

\* Copy the rows S into the intermediate file as image has them, and keep
\* their marks.  blame: a failing insert makes the handler fail.
Fetch(S, image, blame) ==
  \E select \in Outcomes("mysql"), insert \in SqliteOutcomes :
    LET new == IF select THEN S ELSE {}
    IN IF new # {} /\ ~insert
       THEN ok' = (ok /\ ~blame) /\ UNCHANGED <<interm, marks>>
       ELSE /\ interm' = IF new = {} THEN interm ELSE Put(interm, image, new)
            /\ marks' = marks \cup
                 {[row |-> r, raise |-> Table[r] = "task" /\ server[r].state = "1"] : r \in new}
            /\ ok' = (ok /\ select)

\* Templates and types only travel to the phone.
Skip ==
  /\ pc \in {"template", "type"} /\ dir = "to_pc"
  /\ pc' = IF pc = "template" THEN "type" ELSE "task"
  /\ UNCHANGED <<files, server, dbEvent, dir, chunks, picked, marks, ok, clock, sessions,
                 history>>

\* Templates of the chunk's types, again and again: SynchronState '0' or '1'.
TemplateFetch ==
  /\ pc = "template" /\ dir = "to_phone"
  /\ \/ /\ Missing
        /\ pc' = "type" /\ ok' = FALSE
        /\ UNCHANGED <<interm, marks, dbEvent>>
     \/ /\ ~Missing /\ dbEvent
        /\ Fetch({r \in Of("template") :
                    /\ server[r].sync \in {"0", "1"}
                    /\ Has(server, Owner[r]) /\ DeviceOf[Owner[r]] \in Head(chunks)},
                 server, TRUE)
        /\ dbEvent' = FALSE /\ pc' = "template_drop"
  /\ UNCHANGED <<phone, backups, server, dir, chunks, picked, clock, sessions, history>>

\* A failing select returns at once: the database is not closed.
TemplateDrop ==
  /\ pc = "template_drop"
  /\ \E select \in Outcomes("mysql"), delete \in SqliteOutcomes :
       LET old == {r \in Of("template") : server[r].sync = "2"}
       IN /\ interm' = IF select /\ old # {} /\ delete THEN Drop(interm, old) ELSE interm
          /\ ok' = (ok /\ select /\ (old = {} \/ delete))
          /\ dbEvent' = select
  /\ pc' = "type"
  /\ UNCHANGED <<phone, backups, server, dir, chunks, picked, marks, clock, sessions, history>>

TypeFetch ==
  /\ pc = "type" /\ dir = "to_phone"
  /\ \/ /\ Missing
        /\ pc' = "task" /\ ok' = FALSE
        /\ UNCHANGED <<interm, marks, dbEvent>>
     \/ /\ ~Missing /\ dbEvent
        /\ Fetch(Pending(server, "type", Head(chunks)), server, TRUE)
        /\ dbEvent' = FALSE /\ pc' = "type_drop"
  /\ UNCHANGED <<phone, backups, server, dir, chunks, picked, clock, sessions, history>>

\* Mutant of TypeDrop: the database is not closed.
TypeDropKeepsOpen ==
  /\ pc = "type_drop"
  /\ \E select \in Outcomes("mysql"), delete \in SqliteOutcomes :
       LET old == {r \in Of("type") : server[r].sync = "2"}
       IN /\ interm' = IF select /\ old # {} /\ delete THEN Drop(interm, old) ELSE interm
          /\ ok' = (ok /\ select /\ (old = {} \/ delete))
  /\ UNCHANGED dbEvent
  /\ pc' = "task"
  /\ UNCHANGED <<phone, backups, server, dir, chunks, picked, marks, clock, sessions, history>>

TypeDrop ==
  /\ pc = "type_drop"
  /\ \E select \in Outcomes("mysql"), delete \in SqliteOutcomes :
       LET old == {r \in Of("type") : server[r].sync = "2"}
       IN /\ interm' = IF select /\ old # {} /\ delete THEN Drop(interm, old) ELSE interm
          /\ ok' = (ok /\ select /\ (old = {} \/ delete))
  /\ dbEvent' = TRUE
  /\ pc' = "task"
  /\ UNCHANGED <<phone, backups, server, dir, chunks, picked, marks, clock, sessions, history>>

\* Delete the tasks ids and what hangs on them.  The results are not looked at,
\* and after one failure SQLite's handle is closed: the rest fails too.
DeleteOnPhone(ids) ==
  \E k \in IF ~IsDB(interm) THEN {0} ELSE IF May("sqlite") THEN 0..4 ELSE {4} :
    interm' = IF ids = {} \/ k = 0 THEN interm ELSE DropTasks(interm, ids, k)

TaskDrop2 ==
  /\ pc = "task" /\ dir = "to_phone"
  /\ \/ /\ Missing
        /\ pc' = "record" /\ ok' = FALSE
        /\ UNCHANGED <<interm, dbEvent>>
     \/ /\ ~Missing /\ dbEvent
        /\ \E select \in Outcomes("mysql") :
             /\ DeleteOnPhone(IF select THEN Doomed("2") ELSE {})
             /\ ok' = (ok /\ select)
        /\ dbEvent' = FALSE /\ pc' = "task_drop3"
  /\ UNCHANGED <<phone, backups, server, dir, chunks, picked, marks, clock, sessions, history>>

TaskDrop3 ==
  /\ pc = "task_drop3"
  /\ \E select \in Outcomes("mysql") :
       /\ picked' = IF select THEN Doomed("3") ELSE {}
       /\ DeleteOnPhone(picked')
       /\ ok' = (ok /\ select)
  /\ pc' = "task_purge"
  /\ UNCHANGED <<phone, backups, server, dbEvent, dir, chunks, marks, clock, sessions, history>>

\* Two statements a task: the task, then its records.  The result is ignored.
TaskPurge ==
  /\ pc = "task_purge"
  /\ \E out \in UpdateMysqlDB({"task", "record"} \X picked) :
       server' = Drop(server, {r \in Rows :
                    \/ Table[r] = "task" /\ <<"task", r>> \in out.done
                    \/ Table[r] = "record" /\ <<"record", Owner[r]>> \in out.done})
  /\ picked' = {}
  /\ pc' = "task_fetch"
  /\ UNCHANGED <<files, dbEvent, dir, chunks, marks, ok, clock, sessions, history>>

TaskFetch ==
  /\ pc = "task_fetch"
  /\ Fetch({r \in Pending(server, "task", Head(chunks)) : server[r].state # "0"},
           Synced(server), TRUE)
  /\ dbEvent' = TRUE
  /\ pc' = "record"
  /\ UNCHANGED <<phone, backups, server, dir, chunks, picked, clock, sessions, history>>

\* Mutant of RecordFetch: only records of the chunk's devices.
RecordFetchOfChunk ==
  /\ pc = "record" /\ dir = "to_phone"
  /\ NextChunk
  /\ ~Missing /\ dbEvent
  /\ Fetch(Pending(server, "record", Head(chunks)), Synced(server), FALSE)
  /\ UNCHANGED <<phone, backups, server, dbEvent, dir, picked, clock, sessions, history>>

\* Records of every device, and a failing insert is forgotten.
RecordFetch ==
  /\ pc = "record" /\ dir = "to_phone"
  /\ NextChunk
  /\ \/ /\ Missing
        /\ ok' = FALSE
        /\ UNCHANGED <<interm, marks, dbEvent>>
     \/ /\ ~Missing /\ dbEvent
        /\ Fetch(Pending(server, "record", Devices), Synced(server), FALSE)
        /\ UNCHANGED dbEvent
  /\ UNCHANGED <<phone, backups, server, dir, picked, clock, sessions, history>>

-----------------------------------------------------------------------------
(* From the phone to the server. *)

\* Mutant of Upload: the result of UpdateMysqlDB is not looked at.
UploadUnchecked(S, blame) ==
  \E out \in UpdateMysqlDB(S) :
    /\ server' = Put(server, Synced(interm), out.done)
    /\ stored' = stored \cup {interm[r].ver : r \in out.done}
    /\ picked' = S
    /\ ok' = ok

\* REPLACE the rows S on the server as synchronised; S is then acknowledged
\* in the intermediate file unless UpdateMysqlDB returned FALSE.
Upload(S, blame) ==
  \E out \in UpdateMysqlDB(S) :
    /\ server' = Put(server, Synced(interm), out.done)
    /\ stored' = stored \cup {interm[r].ver : r \in out.done}
    /\ picked' = IF out.ret THEN S ELSE {}
    /\ ok' = (ok /\ (out.ret \/ ~blame))

\* Without the server's time, building the first statement throws: the
\* handler returns FALSE and the database stays open.  A select that fails
\* after its count leaves unset pointers behind: the same, or a plain FALSE.
TaskUpload ==
  /\ pc = "task" /\ dir = "to_pc"
  /\ \/ /\ Missing
        /\ pc' = "record" /\ ok' = FALSE
        /\ UNCHANGED <<server, picked, dbEvent, stored>>
     \/ /\ ~Missing /\ dbEvent /\ dbEvent' = FALSE
        /\ \E now \in Outcomes("mysql"), read \in ReadOutcomes :
             LET new == IF read = "read" THEN Pending(interm, "task", Head(chunks)) ELSE {}
             IN \/ /\ read = "none" \/ (read = "read" /\ (now \/ new = {}))
                   /\ Upload(new, TRUE)
                   /\ pc' = "task_ack"
                \/ /\ read \in {"half", "fail"}
                   /\ pc' = "task_ack"
                   /\ ok' = FALSE /\ picked' = {} /\ UNCHANGED <<server, stored>>
                \/ /\ read = "half" \/ (~now /\ new # {})
                   /\ pc' = "record"
                   /\ ok' = FALSE /\ picked' = {} /\ UNCHANGED <<server, stored>>
  /\ UNCHANGED <<files, dir, chunks, marks, clock, sessions, work, landed>>

\* Mutant of Ack: the UPDATE has no WHERE.
AckEverything ==
  /\ \E update \in SqliteOutcomes :
       interm' = IF picked # {} /\ update THEN Synced(interm) ELSE interm
  /\ picked' = {}
  /\ dbEvent' = TRUE

\* Whether the phone's rows could be updated is not looked at.
Ack ==
  /\ \E update \in SqliteOutcomes :
       interm' = IF picked # {} /\ update THEN SetSynced(interm, picked) ELSE interm
  /\ picked' = {}
  /\ dbEvent' = TRUE

TaskAck ==
  /\ pc = "task_ack"
  /\ Ack
  /\ pc' = "record"
  /\ UNCHANGED <<phone, backups, server, dir, chunks, marks, ok, clock, sessions, history>>

\* Every failure but a missing file is answered with retRes &= TRUE.
RecordUpload ==
  /\ pc = "record" /\ dir = "to_pc"
  /\ \/ /\ Missing
        /\ NextChunk /\ ok' = FALSE
        /\ UNCHANGED <<server, picked, dbEvent, stored>>
     \/ /\ ~Missing /\ dbEvent /\ dbEvent' = FALSE
        /\ \E read \in ReadOutcomes :
             Upload(IF read = "read" THEN Pending(interm, "record", Head(chunks)) ELSE {}, FALSE)
        /\ pc' = "record_ack" /\ UNCHANGED chunks
  /\ UNCHANGED <<files, dir, marks, clock, sessions, work, landed>>

RecordAck ==
  /\ pc = "record_ack"
  /\ Ack
  /\ NextChunk
  /\ UNCHANGED <<phone, backups, server, dir, marks, ok, clock, sessions, history>>

-----------------------------------------------------------------------------
(* The end of a session. *)

\* UpdateMysqlDB(m_updateMysqlData), whatever ret is by now.
Marks ==
  /\ pc = "marks"
  /\ \E out \in UpdateMysqlDB(marks) :
       LET hit == {m.row : m \in out.done}
           raised == {m.row : m \in {n \in out.done : n.raise}}
       IN /\ server' = [r \in Rows |->
                 IF r \notin hit \/ ~Has(server, r) THEN server[r]
                 ELSE [server[r] EXCEPT !.sync = "1",
                         !.state = IF r \in raised THEN "2" ELSE @]]
          /\ IF ok /\ out.ret THEN pc' = "erase" /\ ok' = ok ELSE Return(FALSE)
  /\ UNCHANGED <<files, dbEvent, dir, chunks, picked, marks, clock, sessions, history>>

\* DeleteDataFromDevice returns nothing.
Erase ==
  /\ pc = "erase"
  /\ phone' \in {NoFile} \cup (IF May("erase") THEN {phone} ELSE {})
  /\ pc' = "send"
  /\ UNCHANGED <<interm, backups, server, dbEvent, dir, chunks, picked, marks, ok, clock,
                 sessions, history>>

\* Mutant of Send: the result of the transfer is not looked at.
SendUnchecked ==
  /\ pc = "send"
  /\ \/ ~Missing /\ phone' = interm
     \/ (Missing \/ May("send")) /\ phone' = phone
  /\ ok' = TRUE
  /\ landed' = landed \cup (IF IsDB(phone') THEN Vers(phone') ELSE {})
  /\ pc' = "cleanup"
  /\ UNCHANGED <<interm, backups, server, dbEvent, dir, chunks, picked, marks, clock,
                 sessions, work, stored>>

\* TransferDataToDevice.  A commit that fails is reported as success.  If the
\* old file is still there, two objects of one name compete.
Send ==
  /\ pc = "send"
  /\ \/ /\ ~Missing
        /\ phone' \in {interm} \cup (IF phone = NoFile THEN {} ELSE {phone})
        /\ ok' = TRUE
     \/ /\ ~Missing /\ May("commit")
        /\ phone' = phone /\ ok' = TRUE
     \/ /\ Missing \/ May("send")
        /\ phone' = phone /\ ok' = FALSE
  /\ landed' = landed \cup (IF IsDB(phone') THEN Vers(phone') ELSE {})
  /\ pc' = "cleanup"
  /\ UNCHANGED <<interm, backups, server, dbEvent, dir, chunks, picked, marks, clock,
                 sessions, work, stored>>

Cleanup ==
  /\ pc = "cleanup"
  /\ interm' = NoFile
  /\ Return(ok)
  /\ UNCHANGED <<phone, backups, server, dbEvent, dir, chunks, picked, marks, clock,
                 sessions, history>>

-----------------------------------------------------------------------------
(* The environment. *)

\* The program ends and is started again: files stay, memory does not.
Crash ==
  /\ May("crash") /\ pc # "idle"
  /\ Return(FALSE)
  /\ dbEvent' = TRUE /\ chunks' = <<>> /\ picked' = {} /\ marks' = {}
  /\ UNCHANGED <<files, server, dir, clock, sessions, history>>

\* The worker fills in a task or writes a record of a task.
PhoneEdit(r) ==
  /\ pc = "idle" \/ May("phone_edit")
  /\ IsDB(phone) /\ clock < MaxVer
  /\ Table[r] \in {"task", "record"} /\ Has(phone, IF Table[r] = "task" THEN r ELSE Owner[r])
  /\ clock' = clock + 1
  /\ phone' = [phone EXCEPT ![r] = [ver |-> clock', state |-> "2", sync |-> "0"]]
  /\ work' = [work EXCEPT ![r] = clock']
  /\ landed' = landed \cup {clock'}
  /\ UNCHANGED <<interm, backups, server, dbEvent, session, sessions, stored>>

\* The web editor writes a row; a task may be a draft (State '0').  The id of a
\* new row is fresh (32 hexadecimal digits): the server has no row that refers to it.
WebEdit(r, state) ==
  /\ pc = "idle" \/ May("web_edit")
  /\ clock < MaxVer
  /\ server[r].sync \notin {"2", "3"}
  /\ Owner[r] = r \/ server[Owner[r]].sync \in {"0", "1"}
  /\ ~Has(server, r) => \A q \in Rows : Owner[q] = r => ~Has(server, q)
  /\ state = "0" => Table[r] = "task"
  /\ clock' = clock + 1
  /\ server' = [server EXCEPT ![r] = [ver |-> clock', state |-> state, sync |-> "0"]]
  /\ stored' = stored \cup {clock'}
  /\ UNCHANGED <<files, dbEvent, session, sessions, work, landed>>

\* The web editor asks for a deletion: '2' on the phone, '3' on both sides.
WebDelete(r, s) ==
  /\ pc = "idle" \/ May("web_edit")
  /\ server[r].sync \in {"0", "1"}
  /\ Table[r] # "record" /\ (Table[r] = "task" => Owner[r] = r)
  /\ s = "3" => Table[r] = "task"
  /\ server' = [server EXCEPT ![r].sync = s]
  /\ UNCHANGED <<files, dbEvent, session, clock, sessions, history>>

-----------------------------------------------------------------------------
Init ==
  LET start == [r \in Rows |->
        IF r \in Seeded THEN [ver |-> 0, state |-> "2", sync |-> "1"] ELSE NoRow]
  IN /\ phone = start /\ server = start
     /\ interm = NoFile /\ backups = {}
     /\ dbEvent = TRUE
     /\ pc = "idle" /\ dir = "to_pc" /\ chunks = <<>>
     /\ picked = {} /\ marks = {} /\ ok = FALSE
     /\ clock = 0 /\ sessions = 0
     /\ work = [r \in Rows |-> 0] /\ stored = {0} /\ landed = {0}

Prepare == Locate \/ Download \/ Backup \/ Connect
ToPhone == Skip \/ TemplateFetch \/ TemplateDrop \/ TypeFetch \/ TypeDrop \/ TaskDrop2
           \/ TaskDrop3 \/ TaskPurge \/ TaskFetch \/ RecordFetch
ToPc == TaskUpload \/ TaskAck \/ RecordUpload \/ RecordAck
Finish == Marks \/ Erase \/ Send \/ Cleanup
Session == Prepare \/ ToPhone \/ ToPc \/ Finish

User == (\E d \in {"to_pc", "to_phone"} : Click(d)) \/ ClickBusy \/ Cancel \/ Confirm
Editors ==
  \E r \in Rows :
    \/ PhoneEdit(r)
    \/ \E state \in {"0", "1"} : WebEdit(r, state)
    \/ \E s \in {"2", "3"} : WebDelete(r, s)

Next == User \/ Session \/ Crash \/ Editors

Spec == Init /\ [][Next]_vars
FairSpec == Spec /\ WF_vars(Session)

-----------------------------------------------------------------------------
(* Safety. *)

\* A row the phone's side counts as synchronised was held by the server: the
\* acknowledgement (1196, 1486) never runs ahead of the upload (1185, 1473),
\* in the phone, the intermediate file or any backup.
AckedIsStored ==
  \A f \in {phone, interm} \cup backups : IsDB(f) =>
    \A r \in Rows : f[r].sync = "1" => f[r].ver \in stored

\* The last thing the worker wrote into a row is never lost: whatever fails
\* and wherever a session stops, it reached the server or some file has it.
NoWorkLost ==
  \A r \in Rows :
    \/ work[r] \in stored
    \/ \E f \in {phone, interm} \cup backups : IsDB(f) /\ f[r].ver = work[r]

\* The server has the root of a task and nobody asked for its deletion.
Standing(r) == Table[r] = "task" => server[Owner[r]].sync \in {"0", "1"}

\* Between sessions, what the server counts as synchronised has been on the
\* phone: the marks are written once the synchronisation is complete (1685).
\* A child task whose root is to be deleted may be marked without: each
\* chunk's deletions (1519) take out what an earlier chunk fetched (1661).
MarkedIsDelivered ==
  pc = "idle" =>
    \A r \in Rows : server[r].sync = "1" /\ Standing(r) => server[r].ver \in landed

\* When the marks are written, every row to be marked is in the file that
\* goes to the phone, as the server has it: no later handler or chunk took it
\* out again (1286), unless it was to be deleted with its root.
MarksAreHeld ==
  pc = "marks" /\ IsDB(interm) =>
    \A m \in marks :
      Has(server, m.row) /\ Standing(m.row)
        => Has(interm, m.row) /\ interm[m.row].ver = server[m.row].ver

\* Between sessions, a record the server counts as synchronised is on the
\* phone when its task is: records travel with the selected area (1238).
RecordsFollowTasks ==
  pc = "idle" /\ IsDB(phone) =>
    \A r \in Of("record") :
      server[r].sync = "1" /\ Has(phone, Owner[r]) => Has(phone, r)

\* A session that reported success left the phone a file: between deleting
\* the old one (4466) and sending the new one the phone has none.
SuccessIsDelivered == (pc = "idle" /\ ok) => phone # NoFile

-----------------------------------------------------------------------------
(* What a step may never do. *)

\* A session never takes back the web editor's request for a deletion.
DeletesStand ==
  [][\A r \in Rows : server[r].sync \in {"2", "3"} =>
        server'[r].sync \in {server[r].sync, "none"}]_vars

\* The same, for sessions towards the phone.
DeletesStandToPhone ==
  [][\A r \in Rows : dir = "to_phone" /\ server[r].sync \in {"2", "3"} =>
        server'[r].sync \in {server[r].sync, "none"}]_vars

\* The server forgets a row only for a task asked to be deleted on both
\* sides, and only when the file for the phone no longer has it.
PurgeIsComplete ==
  [][\A r \in Rows : Has(server, r) /\ ~Has(server', r) =>
        /\ server[Owner[IF Table[r] = "record" THEN Owner[r] ELSE r]].sync = "3"
        /\ IsDB(interm) => ~Has(interm, r)]_vars

-----------------------------------------------------------------------------
(* The abstract specification. *)

\* Versions the phone's side counts as synchronised, in any of its files.
Acknowledged ==
  UNION {{f[r].ver : r \in {q \in Rows : f[q].sync = "1"}} :
           f \in {g \in {phone, interm} \cup backups : IsDB(g)}}

Upwards == INSTANCE Delivery
  WITH written <- 0..clock, received <- stored, acked <- Acknowledged

\* Synchronising towards the server implements Delivery: a version arrives
\* before it is acknowledged on the phone's side, whatever fails.
UpwardsDelivered == Upwards!Spec

-----------------------------------------------------------------------------
(* Liveness. *)

\* A session that began is over some time: every handler gets its turn with
\* the SQLite file (m_eventOpenDB) and returns.
SessionEnds == (pc \notin {"idle", "confirm"}) ~> (pc = "idle")
=============================================================================
