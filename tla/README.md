# Formal models of WPD_MTP_data (数据共享)

TLA+ models, TLC runs and TLAPS proofs for the program in `src/WPD_MTP_data`: an
MFC dialog that keeps the SQLite database of an Android phone and a MySQL database
in step. The models are read from the code; line numbers are those of the files
under `src/WPD_MTP_data` (GB18030 text), `Dlg` is `WPD_MTP_dataDlg.cpp`.

## 1. The system

| Part | Source | State | Operations |
|---|---|---|---|
| Work-table session | Dlg 1053-2176, 4021-4331, 4460-4754 | phone file, intermediate file, backups, MySQL tables, `m_updateMysqlData`, `m_tongbu_dir` | `MyControllingFunction`, `BeginPhoneToPc`, `BeginSwitchData`, four `Synchrodata_work_*`, `BeginPcToPhone` |
| Clear and rollback | Dlg 3898-3969, 4333-4457, 4822-4900, 5141-5234 | `m_clearFlag`, `m_copyName`, `m_clearDeviceID`, `gDirID`, `gFileID`, `m_threadFlag` | `BeginClearThread`, `Synchrodata_clear_record`, `BeginRebackData`, `OnClose` |
| Device, area, user tables | Dlg 2185-2751, 3704-3890 | same files and tables | `Synchrodata_device_info`, `_areas`, `_sys_user` |
| Deletion trees | Dlg 2935-3581 | `m_deleteTree` and its maps | `InitDeleteTreeStruct`, `DeleteAreaAndDevice` |
| Area tree and selection | Dlg 532-1043, 3584-3694, 3971-4015 | tree controls and maps | `Init_areas_tree`, `FindChildTypeID`, `GetArrayItems` |
| MySQL connection | mysql/MyDataBase.cpp | connection, mutex `g_clsMutex` | `InitMyDataBase`, `Select`, `Query`, `OneQuery`, `Close` |
| SQLite wrapper | sqlite3/CSQLite.cpp | event `m_eventOpenDB` | `OpenDataBase`, `Quick*`, `CloseDataBase` |
| Transfer | ContentTransfer.cpp, ContentEnumeration.cpp | objects on the phone | `TransforDataFromDevice`, `DeleteDataFromDevice`, `TransferDataToDevice` |
| Device list | Dlg 200-226, DeviceEnumeration.cpp | `m_strDevicesID`, combobox | `ShowAllDevices`, `OnMyDeviceChange` |
| Logs, login, licence | logrecord, LogDlg.cpp, verity | files | start-up and housekeeping |

How they interact. The UI thread starts one thread per operation. A synchronisation
downloads the phone's database to the *intermediate file*, copies that to `backUp`,
moves rows between it and MySQL, updates MySQL with the statements collected in
`m_updateMysqlData`, deletes the phone's database and sends the intermediate file.
Every row carries a `SynchronState`: `0` not synchronised, `1` synchronised, `2` to be
deleted on the phone, `3` to be deleted on both sides. Every handler opens the SQLite
file through an auto-reset event, so only one can have it open; one thread at a time
holds the MySQL mutex. The phone's worker and the web editor change rows meanwhile.

What is hard. There is no transaction that spans the three databases, so the order of
marking, copying, deleting and sending decides what a failure or a crash loses. Many
results are dropped (`CopyFile`, `TransforDataFromDevice`, `DeleteDataFromDevice`,
deletions on the phone's copy). Threads share the intermediate file and flags without
a lock. Returns that skip a close leave the event reset.

What makes each part correct:

* session: nothing is acknowledged that the server has not got, nothing is marked as
  delivered that the phone has not got, deletions asked for are carried out once and
  on both sides, the worker's writes survive every failure, a session ends;
* clear and rollback: a backup comes before every loss, phones are not mixed up, a
  rollback undoes exactly the last clear;
* device, area and user tables: as the session, and devices only in existing areas;
* deletion trees: exactly the closure of what was asked for is deleted;
* area tree, device list: what is used is not freed or stale, every thread that waits
  for the mutex gets it;
* batching, logs, login: nothing lost at the boundary of a chunk, a day or a full list.

## 2. The modules

### WorkSync (with Delivery, MCWorkSync, WorkSync_proofs, _upwards, _marks)

One session of the work tables and its environment. `pc` is the session thread's next
step; a step is one call or one statement whose failure the code can tell apart.

| Actions | Code |
|---|---|
| `Click`, `ClickBusy`, `Cancel`, `Confirm` | button handlers and the message box of `MyControllingFunction` |
| `Skip` | the direction test at the head of the template and type handlers |
| `Locate`, `Download`, `Backup` | `BeginPhoneToPc` |
| `Connect`, `NextChunk`, `Marks` | `BeginSwitchData` with `radio_work` |
| `TemplateFetch`, `TemplateDrop` | `Synchrodata_work_template` |
| `TypeFetch`, `TypeDrop` | `Synchrodata_work_type` |
| `TaskUpload`, `TaskAck`; `TaskDrop2`, `TaskDrop3`, `TaskPurge`, `TaskFetch` | `Synchrodata_work_task` |
| `RecordUpload`, `RecordAck`; `RecordFetch` | `Synchrodata_work_record` |
| `Erase`, `Send`, `Cleanup` | `BeginPcToPhone` |
| `Crash`, `PhoneEdit`, `WebEdit`, `WebDelete` | environment |

Data. A table is a function from a few row ids; a row has its `SynchronState`, its
`State`, and a version standing for all other columns. `Owner` is the foreign key the
statements use (a record's task, a task's root, a template's type), `DeviceOf` the
device. `chunks` is what is left of the arrays of 20 ids. `dbEvent` is
`m_eventOpenDB`: an action that opens the file needs it and takes it, one that closes
gives it back, and a return that forgets to close does not. `work`, `stored` and
`landed` are history: they are written and never read by the actions.

Failures. `Disturbances` names what a run lets go wrong. Each is a branch of the code:
`download`, `backup`, `erase` results nobody reads; `connect` and `mysql` a connection
or a statement that fails; `later` a later statement of one batch failing, which
`Query` (MyDataBase.cpp 123-141) does not report; `sqlite` a statement on the file;
`send`, `commit` the transfer; `crash` the end of the program at any step;
`phone_edit`, `web_edit` edits during a session and not only between two; `turn` a click
on the to-PC button while a session runs, which changes `m_tongbu_dir` for the handlers
that are still to be called: each reads it when it is entered (`HandlerSteps`).
`UpdateMysqlDB` that returns FALSE may have executed any part of its statements.

The web editor gives every new row an id of its own: the ids in `src/Release/safetydata.db`
are GUIDs of 32 digits. `WebEdit` therefore brings a row the server lost back only when
nothing hangs on that id any more; otherwise a deleted task's id would have to be handed
out twice.

`Delivery` is what synchronising towards the server promises: versions are written,
received, and acknowledged only when received. `WorkSync` implements it under the
mapping `received <- stored`, `acked <-` the versions that any phone-side file counts as
synchronised (`UpwardsDelivered`).

### Rollback (with MCRollback, Rollback_proofs)

The three kinds of threads that replace a phone's database, interleaved step by step,
and what they share: the intermediate file, `found` (`gDirID`, `gFileID`), `clearFlag`,
`copyName`, `clearDevice`, `threadFlag`. A database is a set of rows; `object` is the id
of the phone's file, new whenever a file is sent, so that an id looked up earlier can
be out of date. `backups` is a sequence: a name is a position. `Close` is `OnClose`, with
the deletion of old backups, followed by a new start. `BeginSwitchData` is a step that
fails or adds rows of the server; what it does in detail is WorkSync's matter. `Serial`
says whether the user starts an operation while another runs, which the program does
not prevent.

A message box of a worker thread disables the dialog, so nothing else can be clicked
while it is open. It also needs the UI thread to run, so the flag set after
`AfxBeginThread` (Dlg 4748-4750) is set before the thread can get past its message box;
`ClickSync` therefore does both in one step.

### DeviceSync (with MCDeviceSync, DeviceSync_proofs, _survival, _tree)

A session for users or for devices and their areas, and the deletions with which every
session starts. The items of all tables share one function from ids to rows; `Kind`,
`Parent` and `AreaOf` say what an id is and what it hangs below.

| Actions | Code |
|---|---|
| `Refresh` | `OnBnClickedRefreshDevs`, what `InitDeleteTreeStruct` then reads |
| `Click`, `ClickBusy` | the buttons and radio buttons |
| `Fetch`, `Connect` | `BeginPhoneToPc`, the head of `BeginSwitchData` |
| `DropDevices`, `PurgeDevices`, `PurgeOrphans`, `DropAreas`, `PurgeAreas`, `DropUsers`, `PurgeUsers` | `DeleteAreaAndDevice`: each deletion in the phone's file and the batch for the server that follows it |
| `Users`, `UserFetch`, `UserDrop` | the user branch of `BeginSwitchData`, `Synchrodata_sys_user` |
| `Devices`, `AreasPut`, `AreasDrop`, `Choose` | the device branch, `Synchrodata_areas` |
| `DevicePush`, `DeviceAck`; `DeviceFetch`, `DeviceDrop` | `Synchrodata_device_info` in its two directions |
| `Marks`, `Finish`, `Erase`, `Send` | `UpdateMysqlDB(m_updateMysqlData)`, `BeginPcToPhone` |
| `Crash`, `PhoneEdit`, `WebEdit`, `WebDelete` | environment |

`tree` is what `m_deleteTree` and the tree control were built from: the server's flags at
the last refresh, not those of now. `Doomed(flag)` is the closure that
`DeleteAreaAndDeviceFindID` collects, `Shown` what can be selected, `Cuts` what
`GetArrayItems` makes of a set of ids. `handle` is the open database, which a failing
statement closes for the rest of the handler. Fetching and sending are coarser than in
WorkSync: a refresh always succeeds, `CopyFile` does not fail, a commit does what it says.
`held`, `work`, `wanted` and `ghosts` are history.

`ParentAssumption` says what may hang below what: areas below areas, devices below areas
or devices, work on devices. It is what the tree of `Init_areas_tree` (Dlg 862-1018) and
the trees of deletions (2935-3050) can hold: an area's parent is looked up among the areas,
a device's among the devices and else it is put below its area, and work rows are
looked up by `DeviceId in (select Id from device_info)`. That the tree has no cycle is not
assumed.

### Program (LogFiles, Login and Desk, with MCProgram, Program_proofs)

`Program` composes three components over the life of the process: `Start` clears the log
and opens the login dialog, `Enter` opens the main window, `End`, or an exception nobody
catches (`Crash`), takes threads and memory away and leaves the logs and `config.ini`.

| Module | Actions | Code |
|---|---|---|
| `LogFiles` | `Look`, `Open`, `Close`, `Create`, `AddRecord`; `ClearLog`, `SecondStart`, `Tick` | `WriteRecordToFile` between its calls on the shared `m_logFile`; `InitLogRecord`, a second process, the clock |
| `Login` | `Load`, `LogIn`, `ClearUser`, `NewPassword` | the dialog opening, `RecordUser` by the two buttons, the server's administrator |
| `Desk` | `ClickRefresh`, `RefreshClear`, `-Lock`, `-Read`, `-Fails`, `-Free`, `-Build`, `-End` | `Init_areas_tree_thread`, before, under and after the mutex |
| | `Click`, `ClickRadio`, `PickItem`, `AnswerYes`, `AnswerNo`; `SyncText` to `SyncDone` | the buttons, and `MyControllingFunction` as far as it meets other threads |
| | `ScanClear`, `ScanList`, `ScanFails`, `ScanShow`, `ScanSleep`; `Plug`, `PickPhone` | `ShowAllDevices`, `OnMyDeviceChange`, the combobox |

The window's variables are the members that threads share without a lock: the enabled
buttons, `radio`, `dir`, the maps and the tree of deletions, `ids` and the combobox.
`owner` is `g_clsMutex`. While the message box is open (`sync = "box"`) the window takes
no clicks. The combobox has no `CBS_SORT` (`WPD_MTP_data.rc`), so names and ids have one
order. A record is a number, a log file a set of records with its hour for a name.

## 3. The runs

| Run | Result | What it shows |
|---|---|---|
| `faulty_sessions` | passes | two sessions in either direction, three edits, with failing connections, statements, erasures and transfers, crashes, the web editor at work and turned sessions: `AckedIsStored`, `NoWorkLost`, `SuccessIsDelivered`, `UpwardsDelivered` |
| `calm_sessions` | passes | all four tables, a child task, two devices in two chunks in either order: `MarkedIsDelivered`, `MarksAreHeld`, `DeletesStandToPhone`, `PurgeIsComplete` |
| `sessions_end` | passes | `SessionEnds` under fairness, whatever fails but MySQL and SQLite statements |
| `rollbacks` | passes | three operations on two phones, one at a time: `NoMixUp`, `FlagTells`, `BackedUpFirst`, `RollbackUndoesTheLast` |
| `device_sessions` | passes | users and devices in both directions under twelve regimes of disturbances: what is acknowledged (`BindingsAcked`), marked (`MarkedDevicesAreHeld`) or purged (`PurgedIsDropped`) the other side has got or lost; nothing is orphaned, nothing lost, users arrive, devices have their areas |
| `program` | passes | the whole life of the program in thirteen regimes: threads that share the window (`TreeNotTorn`, `ConfirmedIsDone`, `UsersToPhone`, `OpensWhatIsShown`), waiting (`ThreadsEnd`, `ListCatchesUp`), what the next start finds (`OfferedIsLast`, `LatestIsOffered`, `NoRecordLost`) |
| `mark_before_copy` | violated | `MarkedIsDelivered`: MySQL is marked before the copy reaches the phone (Dlg 4297 against the comment at 1685) |
| `lost_record` | violated | `RecordsFollowTasks`: records travel without their task, are deleted as orphans and never return (Dlg 1236, 1550 against 1238) |
| `delete_undone` | violated | `DeletesStand`: an upload takes back a deletion (Dlg 1433 against 1330) |
| `stuck_session` | violated | `SessionEnds`: a return without close stops every later session (Dlg 1947 against 4753) |
| `clear_while_syncing` | violated | `BackedUpFirst`: two threads, no failure, and a phone's database is gone without a copy (Dlg 5203 against 4607) |
| `cancelled_clear` | violated | `OnlyClearsAreUndone`: a cancelled clear makes the next synchronisation count as one (Dlg 5200 against 5230) |

### Bounds

Two sessions are enough for everything that needs a session to leave something
behind for the next; three edits let the worker and the editor meet on one row and one
of them write again. `TwoSelections` cuts two devices into two chunks in either order, so
that a task's chunk comes before or after that of its root and its record; `OneOrBoth`
selects one device or both. `PlainRows` has a task and its record, the smallest data with both
uploads; `AllRows` has a row of each table, a child task, and a task of another device
with its record, the smallest in which chunks, roots and orphans differ. Two phones
and three operations let a clear, a synchronisation and a rollback meet in any order.
Every row lies in the 180-day window.

`device_sessions` has an area in an area, and in the inner one a device with a task and a
user: a deletion reaches through two levels of the tree, and a selection of areas spans
two chunks of size 1. Two edits let an item change and its ancestor be deleted. Several
disturbances together are not checked there, to keep the instance small; the proofs have
no such limit. The view `Live` leaves out what a state still holds and nobody reads before it is
set anew (the choices and results of a session that is over), so that states that differ
only there are explored once; no property reads those values there.

`program` has two refreshing threads (one can wait for the other), two phones (an order
that matters), three users and two passwords each, two writing threads, days of two hours
of which one day is kept, and a clock of five hours, so that a day goes out of the
window; three starts, and two clicks that start or wake a thread. Regimes without
`clicks` leave the window idle.

`CHECK_DEADLOCK FALSE` is set everywhere because
sessions, operations, starts and edits are bounded and the environment owes no further
step; that threads do not hang is `SessionEnds` and `ThreadsEnd`, not the absence of
deadlock.

### Fairness

`FairSpec` of `WorkSync` has weak fairness of the session thread alone: the scheduler runs
a thread that can run, and the calls it makes return. Nothing is assumed of the user, the
worker, the editor or crashes. A thread waiting on `m_eventOpenDB` cannot run, which is
what `stuck_session` finds. `Program` has weak fairness of each refreshing thread, of
`ShowAllDevices`, and of the session thread, whose step may be the exception that ends the
program. Nobody must click, answer the message box, plug a phone in, or close the program.
Weak fairness is enough for the mutex because at most as many threads wait as the
bound on clicks starts.

### Limits the runs found

In WorkSync `NoWorkLost` fails when
the download or the backup may fail unnoticed, or when the worker writes during a
session; `AckedIsStored` fails under `later`; `SuccessIsDelivered` fails under `commit`;
`MarkedIsDelivered` fails when the web editor writes during a session; `MarksAreHeld`
fails under `turn`, when the records a chunk fetched are dropped as orphans in the next
and the record handler, turned, does not fetch them again.

Two statements of `WorkSync` hold with an exception the proofs found, a child of a task
that is to be deleted: an earlier chunk fetches the child (Dlg 1661), a later chunk's
deletions take it out of the file with its root (1519), and its mark stays. `Standing` names
the rows that are not such children. Deleting the root's branch on the server
is still due then, so nothing is lost by it.

Rollback: `NoMixUp` fails
for two threads at a time; `FlagTells` fails when `m_threadFlag` starts as garbage, which
no constructor prevents.

DeviceSync: a session for users with a device selected gives up (Dlg 4063) after the
server was purged, and the phone keeps rows nobody asks it to delete any more, hence
`ghosts`; users flagged '3' are purged though the phone's file kept them (3558); a crash
between `PurgeDevices` and `PurgeOrphans` leaves work rows without a device, and only the
next session with a doomed device looks for them; a broken download goes unnoticed.
`DevicesHaveAreas` is about devices that are `Placed`, in the user's area and below the
area their row names. A device outside the user's area stays on the phone when its area
is dropped (2668 drops areas of any user), and so does a device that hangs below a device of
another area. With a tree that is out of date the property fails, too: the areas stored are
those of the old tree, the areas dropped those flagged now. `NoServerOrphans` holds for any
tree, because one that is out of date is short of flags and never of rows.

Program:

* a cancelled session enables 终端→PC even for users (Dlg 4652), and the branch for users
  never looks at the direction;
* radio buttons and the other direction change a running session (`busy`);
* a session begun during a refresh (`hasty`) walks a tree of deletions that is being
  freed, or finds no item selected and reports success;
* a device list whose enumeration fails leaves names without ids, and the next session's
  `GetAt` throws; a change during an enumeration is lost (`burst`);
* clearing or logging in an earlier user sets `user_max` behind that entry and the later
  ones are forgotten;
* two threads at the turn of an hour truncate each other's file or write to a closed one,
  and a second start makes the hour's file, so that the first process goes on
  writing to that of the hour before;
* `ClearLog` (LogRecord.cpp 166-184) keeps one day less than its comment says: names of
  files sort before the name of the day they belong to;
* the window's thread keeps the mutex after a failed connection of the login dialog, but
  then nobody can log in.

## 4. The proofs

`WorkSync_proofs` proves, for every set of rows and devices, every foreign key, every
selection and every bound, from the assumptions named in `WorkSync`:

* `TypeCorrect`: `Spec => []TypeOK`. The invariant is `TypeInv`, `TypeOK` with
  `ChunkLeft` (while a handler runs there is a chunk), without which `Tail(chunks)` and
  `Head(chunks)` are not defined. One lemma for each of the operators that change a
  database, one for each group of actions.
* `AcknowledgedWasStored`: `Spec => []AckedIsStored` when `later` is not among the
  disturbances, with every other failure, crash and edit allowed. The invariant
  `AckInv` adds `ServerStored` (what the server holds is in `stored`, so that a row
  fetched as synchronised is covered) and `PickedStored` (between upload and
  acknowledgement, the rows picked have the version that was uploaded). A file is
  `Settled` when its synchronised rows are stored; files only ever change into other
  settled files, or by the acknowledgement, where `PickedStored` is used.

`WorkSync_upwards` proves `ImplementsDelivery`: `Spec => Upwards!Spec` when `later` is
not among the disturbances. Beside `AckInv` it needs `VersionInv`: no file holds a
version that nobody wrote, so that what an upload adds to `stored` lies in
`written = 0..clock`. An upload is then a `Receive`, an edit a `Write`, and every other
step, the acknowledgement and the loss of a file among them, an `Acknowledge`.

The same module proves two properties about what a session leaves:

* `NothingIsLost`: `Spec => []NoWorkLost` when downloads and backups are complete and the
  worker rests during a session, with crashes and all other failures allowed. The
  invariant does not mention the intermediate file: what was written is on the server,
  on the phone or in a backup (`Kept`), the file to be backed up is the phone's
  (`DownloadedIsPhone`), and from the backup until the new file was sent the phone's
  file, if there is one, is in a backup (`PhoneInBackups`), which is what makes `Erase`
  and `Send` harmless.
* `SuccessMeansAFile`: `Spec => []SuccessIsDelivered` unless `commit` may fail.

`WorkSync_marks` goes the other way, from the server to the phone. It first sorts the steps
of a session into a few kinds (`FetchesRows`, `DropsRows`, `DropsTasks`, `PurgesRows`,
`Uploads`, `Acknowledges`), so that each invariant has one case per kind:

* `DeletionsStand` (`DeletesStandToPhone`, without `web_edit`) by `MarksSpare`: no row with
  a mark is one to be deleted. The mark is an `UPDATE` by id alone (Dlg 1688), so this is
  all that keeps it from taking a request back.
* `PurgesAreComplete` (`PurgeIsComplete`, without `sqlite`) by `PurgeInv`: at `task_purge`
  the rows picked are tasks whose root is flagged '3', and the file has neither them nor
  records of them. The editor at work between the two steps cannot withdraw a flag.
* `MarkedRowsAreHeld` (`MarksAreHeld`, when `Calm`: no `mysql`, `sqlite`, `web_edit`, `turn`)
  by `DirInv` (each handler runs in its direction, and a session to the PC has no marks) and
  `HeldInv`: at each step a marked row is in the file as the server has it, or it is a child
  whose root is to be deleted and has left the file (`RootGone`), or it is a record and the
  last handler of the chunk is still to come, which fetches every record again. Without the
  last disjunct the invariant is not inductive: deletions in the next chunk take
  records out as orphans.
* `MarkedRowsArrived` (`MarkedIsDelivered`, when `Smooth`: only `download`, `backup`,
  `connect`, `later`, `phone_edit`) by `DeliverInv` on top of both: every version on the phone
  and, in a session to the PC, in the downloaded file is in `landed`; a synchronised
  row of the server has landed, is in the file about to be sent, or is a child whose
  root left the phone's side with it (`Lost`).

`Rollback_proofs`, for any number of phones, rows and operations:

* `TypeCorrect` by `TypeInv`: the types, and that a thread past `Locate` or `Target` has a
  device. `NextMoves` says how a step changes `pc` and the flag; `FlagIsTrue`
  (`FlagTells`, without `garbage`) follows from it alone, for threads at once, too.
* Under `Serial`, `Alone`: at most one thread is on its way. With it `NoRowsMixed`
  (`NoMixUp`) by `MixInv`: what a thread has in hand from its download, or a rollback from
  its copy, is `Clean` for the phone it works on, and the name kept for a rollback is that
  of a file clean for `clearDevice`.
* `RollbacksUndo` (`RollbackUndoesTheLast`, without `worker`) by `UndoInv`: the name is that
  of the last backup, and the intermediate file of a rollback is what it was made of.
* `BackupsComeFirst` (`BackedUpFirst`, without `worker`, `download`, `backup`) by `FreshInv`:
  the id looked up is still that of the phone's file when it is downloaded, the file
  backed up is the phone's, and from then to the end a backup holds it.

`DeviceSync_proofs`, `DeviceSync_survival` and `DeviceSync_tree`, for every tree, every item
and bound, and every set of disturbances the property does not name. The lemmas
`Moves` (what a step makes of the intermediate file), `FlagsSettle` (what it makes of the
server's flags) and `HeldGrows` are shared by most of them:

* `TypeCorrect` by `TypeInv`: the types, and that a handler that runs has a chunk.
* `PurgesFollowDrops` (`PurgedIsDropped`) by `PurgeInv`: at `purge_devices` and
  `purge_areas` the intermediate file has lost what is to be purged. `tree` does not
  change between the two steps (`Refresh` waits for the session), so that `Doomed` is the
  same set. The closure itself does not matter, only that both sides use the same one.
* `NothingIsLost` (`NothingLostForGood`) by `KeepInv`, which leaves the intermediate file out: the
  last version is on the server, on the phone or in a backup, and from the fetch on the
  phone's file is a backup, too, so that `Erase` and `Send` lose nothing.
* `BindingsWereAcked` (`BindingsAcked`) by `AckInv`: every binding the server has
  is in `held`, in every file a synchronised binding is (or the server has lost the
  device), and so is what is picked for acknowledgement.
* `MarksAreStored` (`MarkedDevicesAreHeld`) by `MarkInv`: what has been marked so far is in
  the file with the server's version, through later chunks, failures and drops.
* `UsersDoArrive` (`UsersArrive`) by `UserInv`: while nothing has failed, a user who is awaited
  is in the file as the server has it or their area is in a chunk still to come (`Left`),
  and the marks, which are written before the file is sent, are of users during the user
  branch and of devices later, so that marking makes nobody awaited who was not.
* `ServerStaysWhole` (`NoServerOrphans`) by `TreeInv` (what the server has, the tree knows)
  and `OrphanInv` (from the purge of devices to that of areas no doomed device is on the
  server). `DoomedHangs` and `DoomedChild` say that a doomed set has all that hangs below its
  members, from what `Ancestors` means: the least set that is closed under `Parent`. The
  tree may be out of date and may have cycles.
* `AreasComeWithDevices` (`DevicesHaveAreas`) by `AreaInv` on top of both: every file that
  counts is `Fine`; during a session the tree has every deletion the server has asked for;
  doomed devices have left the file before areas do; while devices are fetched
  every area of the tree is in the file and every id still to be synchronised is shown.
* `NothingForgottenIsSent` (`NoNewGhosts`) by `PurgeInv`, `HandleInv` (unless SQLite
  statements fail, the handle is good whenever there is a database) and `GhostInv` (what the
  file has and the server has not, it had when it was fetched): deletions of users look at no
  result, so that only the handle says that what is purged has left the file.

`Program_proofs`, for any number of threads, phones, users, hours:

* `RecordsAreKept` (`NoRecordLost`) by `LogShape` and `LogInv`: with one writer at a time
  the open file is the newest there is, a call about to create a file knows that it does
  not exist, one about to append has the file of its hour open, and a record of the last
  days is in the file of its hour. The lemma `DayGrows` says that days follow hours, so
  that what is cleared is out of the window.
* `OfferedAreLast`, `LatestAreOffered` by `LoginInv`: while the dialog is open, `config.ini` has a
  right entry for every one that was loaded, whatever `user_max` says, and no name has
  two: an entry that was cut off is still right when it counts again. The lemma `FewNames`
  bounds the entries by the number of users.
* `ConfirmedAreDone` by `ConfirmInv`, `UsersGoToPhones` (while the choice of users is
  on and no session runs, the button is disabled), `TreesStay` by `CalmInv` (refreshing
  threads run one at a time and not during a session, which keeps their button disabled
  once it is confirmed), `ShownIsOpened`
  by `ListInv` (while `ShowAllDevices` sleeps, as it does during a
  session, `ids` is what the combobox shows).
* `TypeCorrect` of the composition.

Only model-checked: liveness (`SessionEnds`, `ThreadsEnd`, `ListCatchesUp`), which is beyond
the prover, and the properties of the runs that find a violation. Every safety property of
a passing run is proved, for every value of the constants that fits the assumptions. The
disturbances under which a property of `WorkSync` does not hold are excluded by the
theorem's hypothesis on `Disturbances`; in `DeviceSync` the property names them itself.

## 5. Not modelled

* `Synchrodata_device_type`, `Init_area_devices`, and the property, event and capability
  code of the WPD samples: called from nowhere.
* The licence check: a comparison at the start that ends the program, with MD5 and AES
  code as pure functions of their input.
* Drawing, the list of messages, expanding nodes, reading ini files, converting strings.
* SQLite, MySQL and Windows: external, modelled by what the code sees of them. Memory
  errors (freed buffers, statements finalised twice, unset pointers behind a failed
  select) appear as the failures they cause and not as such.
* `QuickSelectData` looping on a result that is neither a row nor the end; rows that
  leave the 180-day window; the deletion of old backups at the end as a loss.

Of the 50 000 lines under `src/` some 36 000 are the headers of SQLite and MySQL. Of the
program's own 14 000, those no definition stands for are the uncalled samples, generated
dialog code, and the details of statements and buffers the models abstract.

## 6. Plan

1. `WorkSync`, `Delivery`, the refinement: done, every safety property proved.
2. `Rollback`: done, its five properties proved.
3. `DeviceSync` with the deletion trees and the cutting of ids: done, nine theorems.
4. `Desk`, `LogFiles`, `Login` and `Program`: done, safety proved.
