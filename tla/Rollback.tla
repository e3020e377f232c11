------------------------------ MODULE Rollback ------------------------------
(***************************************************************************)
(* The three kinds of threads the dialog starts that replace a phone's     *)
(* database, and what they share: synchronising (MyControllingFunction),   *)
(* clearing finished tasks (BeginClearThread) and undoing the last clear   *)
(* (BeginRebackThread).                                                    *)
(*                                                                         *)
(* m_threadFlag keeps a second synchronisation out, and nothing else.  The *)
(* intermediate file, gDirID and gFileID, m_clearFlag, m_copyName and      *)
(* m_clearDeviceID are shared.  A database is the set of its rows; what    *)
(* BeginSwitchData does to it is WorkSync's matter.                        *)
(***************************************************************************)
EXTENDS Naturals, Sequences, FiniteSets

CONSTANTS
  Devices,        \* phones that can be connected
  Rows,           \* rows of the phones' databases
  Home,           \* row -> the phone its worker writes it on, or NoDevice
  Finished,       \* rows a clear may delete (tasks in state 3 or 6, their records)
  Serial,         \* the user starts nothing while a thread runs
  Disturbances,   \* what may go wrong
  MaxStarts,      \* bound: threads started
  NoFile,         \* the file does not exist
  NoDevice        \* no device: nothing selected, nothing found

Threads == {"sync", "clear", "reback"}
AllDisturbances == {"download", "backup", "connect", "sqlite", "erase", "send",
                    "cancel", "garbage", "worker"}
Database == SUBSET Rows
File == {NoFile} \cup Database
Handle == [dev : Devices \cup {NoDevice}, obj : Nat]
Nothing == [dev |-> NoDevice, obj |-> 0]

ASSUME RowsAssumption ==
  /\ Home \in [Rows -> Devices \cup {NoDevice}]
  /\ Finished \subseteq Rows
ASSUME ParametersAssumption ==
  /\ Serial \in BOOLEAN /\ Disturbances \subseteq AllDisturbances /\ MaxStarts \in Nat
ASSUME MarkersAssumption ==
  (\A db \in Database : db # NoFile) /\ NoDevice \notin Devices

VARIABLES
  phone,        \* device -> its database
  object,       \* device -> the id its file has, a new one for every file sent
  interm,       \* the intermediate file
  backups,      \* files under backUp; a name is a position
  pc, mine,     \* thread -> its next step, the device and file it works on
  found,        \* gDirID and gFileID
  threadFlag,   \* m_threadFlag
  clearFlag,    \* m_clearFlag
  copyName,     \* m_copyName, 0 when it is empty
  clearDevice,  \* m_clearDeviceID
  selected,     \* the device chosen in the combobox
  starts,       \* threads started
  last          \* history: who took the last backup, on which device, of what

disk == <<interm, backups>>
device == <<phone, object>>
globals == <<found, clearFlag, copyName, clearDevice>>
vars == <<device, disk, pc, mine, globals, threadFlag, selected, starts, last>>

Steps == {"off", "confirm", "locate", "lookup", "download", "backup", "work",
          "erase", "send", "cleanup", "copy", "target"}

\* Type correctness of the files, the threads and what they share.
TypeOK ==
  /\ phone \in [Devices -> File] /\ object \in [Devices -> Nat]
  /\ interm \in File /\ backups \in Seq(File)
  /\ pc \in [Threads -> Steps] /\ mine \in [Threads -> Handle]
  /\ found \in Handle
  /\ threadFlag \in BOOLEAN /\ clearFlag \in BOOLEAN
  /\ copyName \in 0..Len(backups) /\ clearDevice \in Devices \cup {NoDevice}
  /\ selected \in Devices \cup {NoDevice} /\ starts \in 0..MaxStarts
  /\ last \in [by : Threads \cup {"nobody"}, dev : Devices \cup {NoDevice},
               rows : File]

May(d) == d \in Disturbances
Broken(d) == IF May(d) THEN {NoFile} ELSE {}

-----------------------------------------------------------------------------
(* Threads start and end. *)

\* A message box disables the dialog, whichever thread shows it.
DialogEnabled == \A t \in Threads : pc[t] # "confirm"
Running == {t \in Threads : pc[t] # "off"}

Goto(t, step) == pc' = [pc EXCEPT ![t] = step]

\* The synchronisation thread resets its flag when it ends.
End(t) ==
  /\ Goto(t, "off")
  /\ threadFlag' = (threadFlag /\ t # "sync")

\* Bound: one thread of each kind, MaxStarts in all.
CanStart(t) ==
  /\ DialogEnabled /\ pc[t] = "off" /\ starts < MaxStarts
  /\ Serial => Running = {}

Started(t) ==
  /\ Goto(t, "confirm")
  /\ starts' = starts + 1
  /\ UNCHANGED <<device, disk, mine, found, copyName, clearDevice, selected, last>>

ClickSync ==
  /\ CanStart("sync") /\ ~threadFlag
  /\ threadFlag' = TRUE
  /\ UNCHANGED clearFlag
  /\ Started("sync")

\* The flag is raised before the user is asked.
ClickClear ==
  /\ CanStart("clear")
  /\ clearFlag' = TRUE
  /\ UNCHANGED threadFlag
  /\ Started("clear")

ClickReback ==
  /\ CanStart("reback")
  /\ UNCHANGED <<clearFlag, threadFlag>>
  /\ Started("reback")

\* Mutant of Refuse: m_threadFlag is not reset.
RefuseKeepsFlag(t) ==
  /\ pc[t] = "confirm" /\ (t = "clear" => May("cancel"))
  /\ Goto(t, "off")
  /\ UNCHANGED <<device, disk, mine, globals, threadFlag, selected, starts, last>>

\* The user says no; or the dates of a clear are in the wrong order.
Refuse(t) ==
  /\ pc[t] = "confirm" /\ (t = "clear" => May("cancel"))
  /\ End(t)
  /\ UNCHANGED <<device, disk, mine, globals, selected, starts, last>>

\* The user says yes; a rollback needs a name of a backup.
Accept(t) ==
  /\ pc[t] = "confirm"
  /\ IF t # "reback" THEN Goto(t, "locate")
     ELSE Goto(t, IF copyName = 0 THEN "off" ELSE "copy")
  /\ UNCHANGED <<device, disk, mine, globals, threadFlag, selected, starts, last>>

-----------------------------------------------------------------------------
(* BeginPhoneToPc: synchronising and clearing. *)

\* Forget the last file found and delete the old intermediate file.
Locate(t) ==
  /\ pc[t] = "locate"
  /\ IF selected = NoDevice
     THEN End(t) /\ UNCHANGED <<interm, mine, found>>
     ELSE /\ Goto(t, "lookup") /\ UNCHANGED threadFlag
          /\ interm' = NoFile /\ found' = Nothing
          /\ mine' = [mine EXCEPT ![t] = [dev |-> selected, obj |-> 0]]
  /\ UNCHANGED <<device, backups, clearFlag, copyName, clearDevice, selected, starts, last>>

\* Open the device and look the database up by its path.
Lookup(t) ==
  /\ pc[t] = "lookup"
  /\ LET d == mine[t].dev IN
     \/ /\ phone[d] = NoFile \/ May("connect")
        /\ End(t) /\ UNCHANGED <<mine, found>>
     \/ /\ phone[d] # NoFile
        /\ found' = [dev |-> d, obj |-> object[d]]
        /\ mine' = [mine EXCEPT ![t] = found']
        /\ Goto(t, IF t = "reback" THEN "erase" ELSE "download")
        /\ UNCHANGED threadFlag
  /\ UNCHANGED <<device, disk, clearFlag, copyName, clearDevice, selected, starts, last>>

\* Nobody learns whether the copy is there.
Download(t) ==
  /\ pc[t] = "download"
  /\ LET d == mine[t].dev IN
     interm' \in Broken("download")
       \cup {IF object[d] = mine[t].obj THEN phone[d] ELSE NoFile}
  /\ Goto(t, "backup")
  /\ UNCHANGED <<device, backups, mine, globals, threadFlag, selected, starts, last>>

\* Mutant of Backup: the name of an earlier clear's backup is kept.
BackupKeepsName(t) ==
  /\ pc[t] = "backup"
  /\ \E copy \in Broken("backup") \cup {interm} : backups' = Append(backups, copy)
  /\ IF clearFlag
     THEN /\ copyName' = Len(backups') /\ clearDevice' = mine[t].dev
          /\ clearFlag' = FALSE
     ELSE UNCHANGED <<copyName, clearDevice, clearFlag>>
  /\ last' = [by |-> t, dev |-> mine[t].dev, rows |-> interm]
  /\ Goto(t, "work")
  /\ UNCHANGED <<device, interm, mine, found, threadFlag, selected, starts>>

\* Mutant of Backup: only a clear makes a backup.
BackupOfClears(t) ==
  /\ pc[t] = "backup"
  /\ backups' = IF clearFlag THEN Append(backups, interm) ELSE backups
  /\ IF clearFlag
     THEN copyName' = Len(backups') /\ clearDevice' = mine[t].dev
     ELSE copyName' = 0 /\ clearDevice' = NoDevice
  /\ clearFlag' = FALSE
  /\ last' = [by |-> t, dev |-> mine[t].dev, rows |-> interm]
  /\ Goto(t, "work")
  /\ UNCHANGED <<device, interm, mine, found, threadFlag, selected, starts>>

\* Mutant of Backup: the name is made anew, a second later.
BackupNamedTwice(t) ==
  /\ pc[t] = "backup"
  /\ \E copy \in Broken("backup") \cup {interm} : backups' = Append(backups, copy)
  /\ IF clearFlag
     THEN copyName' = Len(backups') + 1 /\ clearDevice' = mine[t].dev
     ELSE copyName' = 0 /\ clearDevice' = NoDevice
  /\ clearFlag' = FALSE
  /\ last' = [by |-> t, dev |-> mine[t].dev, rows |-> interm]
  /\ Goto(t, "work")
  /\ UNCHANGED <<device, interm, mine, found, threadFlag, selected, starts>>

\* The backup, and the name for a rollback if the flag says this is a clear.
Backup(t) ==
  /\ pc[t] = "backup"
  /\ \E copy \in Broken("backup") \cup {interm} : backups' = Append(backups, copy)
  /\ IF clearFlag
     THEN copyName' = Len(backups') /\ clearDevice' = mine[t].dev
     ELSE copyName' = 0 /\ clearDevice' = NoDevice
  /\ clearFlag' = FALSE
  /\ last' = [by |-> t, dev |-> mine[t].dev, rows |-> interm]
  /\ Goto(t, "work")
  /\ UNCHANGED <<device, interm, mine, found, threadFlag, selected, starts>>

-----------------------------------------------------------------------------
(* What is done to the intermediate file. *)

\* BeginSwitchData may fail, and brings rows of the server.  With no device
\* in the chosen area it succeeds without opening the file.
SwitchData ==
  /\ pc["sync"] = "work"
  /\ \/ /\ Goto("sync", "erase") /\ UNCHANGED threadFlag
        /\ \E new \in SUBSET {r \in Rows : Home[r] = NoDevice} :
             interm' = IF interm = NoFile THEN NoFile ELSE interm \cup new
     \/ End("sync") /\ UNCHANGED interm
  /\ UNCHANGED <<device, backups, mine, globals, selected, starts, last>>

\* Synchrodata_clear_record.  Only a count that fails is noticed: the result
\* of the deletions is lost in an inner variable of the same name.
ClearRecord ==
  /\ pc["clear"] = "work"
  /\ \/ /\ interm = NoFile \/ May("sqlite")
        /\ End("clear") /\ UNCHANGED interm
     \/ /\ interm # NoFile
        /\ \E old \in SUBSET Finished : interm' = interm \ old
        /\ Goto("clear", "erase") /\ UNCHANGED threadFlag
  /\ UNCHANGED <<device, backups, mine, globals, selected, starts, last>>

-----------------------------------------------------------------------------
(* BeginRebackData: the last clear is undone. *)

Copy ==
  /\ pc["reback"] = "copy"
  /\ IF copyName = 0 \/ (copyName # 0 /\ backups[copyName] = NoFile)
     THEN Goto("reback", "off") /\ UNCHANGED interm
     ELSE interm' = backups[copyName] /\ Goto("reback", "target")
  /\ UNCHANGED <<device, backups, mine, globals, threadFlag, selected, starts, last>>

\* Mutant of Target: m_clearDeviceID is not compared.
TargetAny ==
  /\ pc["reback"] = "target"
  /\ IF selected = NoDevice
     THEN Goto("reback", "off") /\ UNCHANGED <<mine, found>>
     ELSE /\ found' = Nothing
          /\ mine' = [mine EXCEPT !["reback"] = [dev |-> selected, obj |-> 0]]
          /\ Goto("reback", "lookup")
  /\ UNCHANGED <<device, disk, clearFlag, copyName, clearDevice, threadFlag, selected,
                 starts, last>>

\* The device must be the one that was cleared.
Target ==
  /\ pc["reback"] = "target"
  /\ IF selected = NoDevice \/ selected # clearDevice
     THEN Goto("reback", "off") /\ UNCHANGED <<mine, found>>
     ELSE /\ found' = Nothing
          /\ mine' = [mine EXCEPT !["reback"] = [dev |-> selected, obj |-> 0]]
          /\ Goto("reback", "lookup")
  /\ UNCHANGED <<device, disk, clearFlag, copyName, clearDevice, threadFlag, selected,
                 starts, last>>

-----------------------------------------------------------------------------
(* Replacing the database on the phone. *)

\* An id that another thread reset or that is out of date deletes nothing.
Erase(t) ==
  /\ pc[t] = "erase"
  /\ LET d == mine[t].dev
         gone == found = [dev |-> d, obj |-> object[d]]
     IN \/ phone' = IF gone THEN [phone EXCEPT ![d] = NoFile] ELSE phone
        \/ May("erase") /\ UNCHANGED phone
  /\ Goto(t, "send")
  /\ UNCHANGED <<object, disk, mine, globals, threadFlag, selected, starts, last>>

\* If the old file is still there, two objects of one name compete.
Send(t) ==
  /\ pc[t] = "send"
  /\ LET d == mine[t].dev IN
     \/ /\ interm # NoFile /\ found.dev = d
        /\ \/ /\ phone' = [phone EXCEPT ![d] = interm]
              /\ object' = [object EXCEPT ![d] = @ + 1]
           \/ phone[d] # NoFile /\ UNCHANGED device
     \/ /\ interm = NoFile \/ found.dev # d \/ May("send")
        /\ UNCHANGED device
  /\ IF t = "reback" THEN End(t) ELSE Goto(t, "cleanup") /\ UNCHANGED threadFlag
  /\ UNCHANGED <<disk, mine, globals, selected, starts, last>>

Cleanup(t) ==
  /\ pc[t] = "cleanup"
  /\ interm' = NoFile
  /\ End(t)
  /\ UNCHANGED <<device, backups, mine, globals, selected, starts, last>>

-----------------------------------------------------------------------------
(* The environment. *)

\* What a member that no constructor sets holds at the start.
Garbage == IF May("garbage") THEN BOOLEAN ELSE {FALSE}

Select(d) ==
  /\ DialogEnabled /\ selected' = d /\ selected # d
  /\ UNCHANGED <<device, disk, pc, mine, globals, threadFlag, starts, last>>

WorkerWrites(r) ==
  LET d == Home[r] IN
  /\ d # NoDevice /\ phone[d] # NoFile
  /\ Running = {} \/ May("worker")
  /\ phone' = [phone EXCEPT ![d] = @ \cup {r}]
  /\ UNCHANGED <<object, disk, pc, mine, globals, threadFlag, selected, starts, last>>

\* The program is closed and started again.  Backups older than a day go, and
\* the intermediate file unless it is in use; memory is as good as new.
Close ==
  /\ DialogEnabled
  /\ interm' \in {interm, NoFile}
  /\ backups' \in {backups, [i \in DOMAIN backups |-> NoFile]}
  /\ pc' = [t \in Threads |-> "off"] /\ mine' = [t \in Threads |-> Nothing]
  /\ found' = Nothing /\ copyName' = 0 /\ clearDevice' = NoDevice
  /\ threadFlag' \in Garbage /\ clearFlag' \in Garbage
  /\ UNCHANGED <<device, selected, starts, last>>

-----------------------------------------------------------------------------
Init ==
  /\ phone = [d \in Devices |-> {}] /\ object = [d \in Devices |-> 0]
  /\ interm = NoFile /\ backups = <<>>
  /\ pc = [t \in Threads |-> "off"] /\ mine = [t \in Threads |-> Nothing]
  /\ found = Nothing /\ copyName = 0 /\ clearDevice = NoDevice
  /\ threadFlag \in Garbage /\ clearFlag \in Garbage
  /\ selected = NoDevice /\ starts = 0
  /\ last = [by |-> "nobody", dev |-> NoDevice, rows |-> NoFile]

User ==
  \/ ClickSync \/ ClickClear \/ ClickReback \/ Close
  \/ \E t \in Threads : Refuse(t) \/ Accept(t)
  \/ \E d \in Devices \cup {NoDevice} : Select(d)
Replace(t) == Lookup(t) \/ Erase(t) \/ Send(t)
FromPhone(t) == Locate(t) \/ Download(t) \/ Backup(t) \/ Cleanup(t)
Worker == \E r \in Rows : WorkerWrites(r)

Next ==
  \/ User \/ Worker
  \/ \E t \in Threads : Replace(t) \/ FromPhone(t)
  \/ SwitchData \/ ClearRecord \/ Copy \/ Target

Spec == Init /\ [][Next]_vars

-----------------------------------------------------------------------------
(* Safety. *)

\* No phone ever gets another phone's rows, though all go through the one
\* intermediate file and the one pair of ids (gDirID, gFileID).
NoMixUp ==
  \A d \in Devices : phone[d] # NoFile =>
    \A r \in phone[d] : Home[r] \in {d, NoDevice}

\* The flag says whether a synchronisation runs: 0 it does not, 1 it does.
FlagTells == threadFlag <=> pc["sync"] # "off"

Loses(d) ==
  /\ phone[d] # NoFile
  /\ phone'[d] = NoFile \/ \E r \in phone[d] : r \notin phone'[d]

\* Synchronising and clearing make a backup first: a database they take
\* rows from, or delete, is under backUp as it was.
BackedUpFirst ==
  [][\A d \in Devices : Loses(d) /\ pc["reback"] = "off" =>
       \E i \in DOMAIN backups : backups[i] = phone[d]]_vars

\* A rollback that changes a phone undoes the last operation that got as far
\* as its backup, on that operation's phone, and restores what it had then.
RollbackUndoesTheLast ==
  [][\A d \in Devices : pc["reback"] \in {"erase", "send"} /\ phone'[d] # phone[d] =>
       last.dev = d /\ phone'[d] \in {last.rows, NoFile}]_vars

\* Only a clear is ever undone: after any other operation there is nothing to
\* roll back (5230).
OnlyClearsAreUndone ==
  [][\A d \in Devices : pc["reback"] \in {"erase", "send"} /\ phone'[d] # phone[d] =>
       last.by = "clear"]_vars
=============================================================================
