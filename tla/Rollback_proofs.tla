---------------------------- MODULE Rollback_proofs ----------------------------
(***************************************************************************)
(* What the threads that replace a phone's database keep, for any number   *)
(* of phones, rows and operations.                                         *)
(***************************************************************************)
EXTENDS Rollback, SequenceTheorems, TLAPS

-----------------------------------------------------------------------------
(* Types. *)

\* A thread that got past choosing a device has one.
Aimed == {"lookup", "download", "backup", "work", "erase", "send", "cleanup"}
TypeInv ==
  /\ TypeOK
  /\ \A t \in Threads : pc[t] \in Aimed => mine[t].dev \in Devices

\* A name of a backup stays a name, whatever happens to the files.
LEMMA Emptied ==
  ASSUME NEW s \in Seq(File)
  PROVE  /\ [i \in DOMAIN s |-> NoFile] \in Seq(File)
         /\ Len([i \in DOMAIN s |-> NoFile]) = Len(s)
  <1> DEFINE e == [i \in DOMAIN s |-> NoFile]
  <1>1. Len(s) \in Nat /\ DOMAIN s = 1..Len(s)
      BY LenProperties
  <1>2. e \in [1..Len(s) -> File]
      BY <1>1 DEF File
  <1>3. e \in Seq(File)
      BY <1>1, <1>2, SeqDef
  <1>4. Len(e) = Len(s)
      BY <1>1, <1>3, LenProperties
  <1> QED BY <1>3, <1>4

LEMMA Ends ==
  ASSUME NEW t \in Threads, TypeOK, End(t)
  PROVE  /\ threadFlag' \in BOOLEAN
         /\ pc' = [pc EXCEPT ![t] = "off"] /\ pc' \in [Threads -> Steps]
         /\ (t = "sync" => threadFlag' = FALSE) /\ (t # "sync" => threadFlag' = threadFlag)
  <1>0. (t = "sync" => threadFlag' = FALSE) /\ (t # "sync" => threadFlag' = threadFlag)
      BY Zenon DEF End, TypeOK
  <1>1. threadFlag' \in BOOLEAN
      BY Zenon DEF End
  <1> QED BY <1>0, <1>1 DEF End, Goto, TypeOK, Steps

LEMMA InitType == Init => TypeInv
  <1> SUFFICES ASSUME Init PROVE TypeInv
      OBVIOUS
  <1>1. Nothing \in Handle /\ threadFlag \in BOOLEAN /\ clearFlag \in BOOLEAN
      BY DEF Init, Nothing, Handle, Garbage
  <1>2. backups \in Seq(File) /\ Len(backups) = 0
      BY EmptySeq DEF Init
  <1>3. last \in [by : Threads \cup {"nobody"}, dev : Devices \cup {NoDevice}, rows : File]
      BY DEF Init, File
  <1> QED BY <1>1, <1>2, <1>3, ParametersAssumption
          DEF Init, TypeInv, TypeOK, File, Database, Steps, Aimed

\* Each click, answer and start leaves types as they are.
LEMMA UserType == TypeInv /\ (User \/ Worker) => TypeInv'
  <1> SUFFICES ASSUME TypeInv, User \/ Worker PROVE TypeInv'
      OBVIOUS
  <1> USE DEF TypeInv, TypeOK, device, disk, globals, Steps, Aimed, Threads
  <1>1. CASE ClickSync \/ ClickClear \/ ClickReback
    <2>1. starts' \in 0..MaxStarts
        BY <1>1, ParametersAssumption DEF ClickSync, ClickClear, ClickReback, CanStart, Started
    <2>2. PICK t \in Threads : pc' = [pc EXCEPT ![t] = "confirm"]
        BY <1>1 DEF ClickSync, ClickClear, ClickReback, Started, Goto
    <2>3. threadFlag' \in BOOLEAN /\ clearFlag' \in BOOLEAN
        BY <1>1 DEF ClickSync, ClickClear, ClickReback
    <2>4. UNCHANGED <<device, disk, mine, found, copyName, clearDevice, selected, last>>
        BY <1>1 DEF ClickSync, ClickClear, ClickReback, Started
    <2> QED BY <2>1, <2>2, <2>3, <2>4
  <1>2. ASSUME NEW t \in Threads, Refuse(t) \/ Accept(t) PROVE TypeInv'
    <2>1. CASE Refuse(t)
      <3>1. threadFlag' \in BOOLEAN /\ pc' = [pc EXCEPT ![t] = "off"]
          BY <2>1, Ends DEF Refuse
      <3> QED BY <2>1, <3>1 DEF Refuse
    <2>2. CASE Accept(t)
        BY <2>2 DEF Accept, Goto
    <2> QED BY <1>2, <2>1, <2>2
  <1>3. ASSUME NEW d \in Devices \cup {NoDevice}, Select(d) PROVE TypeInv'
      BY <1>3 DEF Select
  <1>4. CASE Close
    <2>1. Nothing \in Handle /\ threadFlag' \in BOOLEAN /\ clearFlag' \in BOOLEAN
        BY <1>4 DEF Close, Nothing, Handle, Garbage
    <2>2. backups' \in Seq(File) /\ interm' \in File
        BY <1>4, Emptied DEF Close, File
    <2>3. Len(backups') \in Nat
        BY <2>2, LenProperties
    <2> QED BY <1>4, <2>1, <2>2, <2>3 DEF Close
  <1>5. ASSUME NEW r \in Rows, WorkerWrites(r) PROVE TypeInv'
    <2>1. Home[r] \in Devices /\ phone[Home[r]] \in Database
        BY <1>5, RowsAssumption DEF WorkerWrites, File
    <2>2. phone' \in [Devices -> File]
        BY <1>5, <2>1 DEF WorkerWrites, File, Database
    <2> QED BY <1>5, <2>2 DEF WorkerWrites
  <1> QED BY <1>1, <1>2, <1>3, <1>4, <1>5 DEF User, Worker

\* The steps that fetch and back up a database.
LEMMA FromPhoneType ==
  ASSUME TypeInv, NEW t \in Threads, FromPhone(t) \/ Replace(t)
  PROVE  TypeInv'
  <1> USE DEF TypeInv, TypeOK, device, disk, globals, Steps, Aimed
  <1>0. NoFile \in File
      BY DEF File
  <1>1. CASE Locate(t)
    <2>1. CASE selected = NoDevice
      <3>1. threadFlag' \in BOOLEAN /\ pc' = [pc EXCEPT ![t] = "off"]
          BY <1>1, <2>1, Ends DEF Locate
      <3> QED BY <1>1, <2>1, <3>1 DEF Locate
    <2>2. CASE selected # NoDevice
      <3>1. [dev |-> selected, obj |-> 0] \in Handle /\ Nothing \in Handle
          BY DEF Handle, Nothing
      <3>2. mine' = [mine EXCEPT ![t] = [dev |-> selected, obj |-> 0]] /\ found' = Nothing
            /\ interm' = NoFile /\ pc' = [pc EXCEPT ![t] = "lookup"]
          BY <1>1, <2>2 DEF Locate, Goto
      <3>3. mine' \in [Threads -> Handle] /\ mine'[t].dev \in Devices
            /\ \A u \in Threads \ {t} : mine'[u] = mine[u]
          BY <2>2, <3>1, <3>2
      <3> QED BY <1>0, <1>1, <2>2, <3>1, <3>2, <3>3 DEF Locate
    <2> QED BY <2>1, <2>2
  <1>2. CASE Lookup(t)
    <2> DEFINE h == [dev |-> mine[t].dev, obj |-> object[mine[t].dev]]
    <2>1. pc[t] = "lookup" /\ mine[t].dev \in Devices
        BY <1>2 DEF Lookup
    <2>2. CASE End(t) /\ UNCHANGED <<mine, found>>
        BY <1>2, <2>2, Ends DEF Lookup
    <2>3. CASE /\ found' = h /\ mine' = [mine EXCEPT ![t] = h] /\ UNCHANGED threadFlag
               /\ \E step \in {"erase", "download"} : pc' = [pc EXCEPT ![t] = step]
      <3>1. h \in Handle /\ h.dev = mine[t].dev
          BY <2>1 DEF Handle
      <3>2. mine' \in [Threads -> Handle] /\ \A u \in Threads : mine'[u].dev = mine[u].dev
          BY <2>3, <3>1
      <3>3. pc' \in [Threads -> Steps] /\ \A u \in Threads \ {t} : pc'[u] = pc[u]
          BY <2>3
      <3>4. UNCHANGED <<device, disk, clearFlag, copyName, clearDevice, selected, starts, last>>
          BY <1>2 DEF Lookup
      <3>5. \A u \in Threads : pc'[u] \in Aimed => mine'[u].dev \in Devices
          BY <2>1, <3>2, <3>3
      <3> QED BY <2>3, <3>1, <3>2, <3>3, <3>4, <3>5
    <2> QED BY <1>2, <2>2, <2>3 DEF Lookup, Goto
  <1>3. CASE Download(t)
    <2>1. interm' \in File
        BY <1>0, <1>3 DEF Download, Broken
    <2> QED BY <1>3, <2>1 DEF Download, Goto
  <1>4. CASE Backup(t)
    <2>1. PICK copy \in File : backups' = Append(backups, copy)
        BY <1>0, <1>4 DEF Backup, Broken
    <2>2. backups' \in Seq(File) /\ Len(backups') = Len(backups) + 1
        BY <2>1, AppendProperties
    <2>3. Len(backups) \in Nat
        BY LenProperties
    <2>4. copyName' \in 0..Len(backups') /\ clearDevice' \in Devices \cup {NoDevice}
        BY <1>4, <2>2, <2>3 DEF Backup
    <2>5. last' \in [by : Threads \cup {"nobody"}, dev : Devices \cup {NoDevice}, rows : File]
        BY <1>4 DEF Backup
    <2>6. pc' = [pc EXCEPT ![t] = "work"] /\ clearFlag' = FALSE
          /\ UNCHANGED <<phone, object, interm, mine, found, threadFlag, selected, starts>>
        BY <1>4 DEF Backup, Goto
    <2> QED BY <1>4, <2>2, <2>4, <2>5, <2>6 DEF Backup
  <1>5. CASE Cleanup(t)
      BY <1>0, <1>5 DEF Cleanup, End, Goto
  <1>6. CASE Erase(t)
      BY <1>0, <1>6 DEF Erase, Goto
  <1>7. CASE Send(t)
    <2>1. mine[t].dev \in Devices
        BY <1>7 DEF Send
    <2>2. phone' \in [Devices -> File] /\ object' \in [Devices -> Nat]
      <3>1. CASE UNCHANGED device
          BY <3>1
      <3>2. CASE phone' = [phone EXCEPT ![mine[t].dev] = interm]
                 /\ object' = [object EXCEPT ![mine[t].dev] = @ + 1]
          BY <2>1, <3>2
      <3> QED BY <1>7, <3>1, <3>2 DEF Send
    <2>3. threadFlag' \in BOOLEAN /\ pc' \in [Threads -> Steps]
          /\ \A u \in Threads : pc'[u] \in Aimed => pc[u] \in Aimed
      <3>1. CASE End(t)
          BY <3>1, Ends
      <3>2. CASE Goto(t, "cleanup") /\ UNCHANGED threadFlag
          BY <1>7, <3>2 DEF Send, Goto
      <3> QED BY <1>7, <3>1, <3>2 DEF Send
    <2>4. UNCHANGED <<disk, mine, globals, selected, starts, last>>
        BY <1>7 DEF Send
    <2> QED BY <2>2, <2>3, <2>4
  <1> QED BY <1>1, <1>2, <1>3, <1>4, <1>5, <1>6, <1>7 DEF FromPhone, Replace

\* What threads do to the intermediate file, and how a rollback begins.
LEMMA WorkType == TypeInv /\ (SwitchData \/ ClearRecord \/ Copy \/ Target) => TypeInv'
  <1> SUFFICES ASSUME TypeInv, SwitchData \/ ClearRecord \/ Copy \/ Target PROVE TypeInv'
      OBVIOUS
  <1> USE DEF TypeInv, TypeOK, device, disk, globals, Steps, Aimed, Threads
  <1>1. CASE SwitchData
    <2>1. interm' \in File
        BY <1>1 DEF SwitchData, File, Database
    <2>2. threadFlag' \in BOOLEAN /\ pc' \in [Threads -> Steps]
          /\ \A u \in Threads : pc'[u] \in Aimed => pc[u] \in Aimed
      <3>1. CASE End("sync")
          BY <3>1, Ends
      <3>2. CASE Goto("sync", "erase") /\ UNCHANGED threadFlag
          BY <1>1, <3>2 DEF SwitchData, Goto
      <3> QED BY <1>1, <3>1, <3>2 DEF SwitchData
    <2>3. UNCHANGED <<device, backups, mine, globals, selected, starts, last>>
        BY <1>1 DEF SwitchData
    <2> QED BY <2>1, <2>2, <2>3
  <1>2. CASE ClearRecord
    <2>1. interm' \in File
        BY <1>2 DEF ClearRecord, File, Database
    <2>2. threadFlag' \in BOOLEAN /\ pc' \in [Threads -> Steps]
          /\ \A u \in Threads : pc'[u] \in Aimed => pc[u] \in Aimed
      <3>1. CASE End("clear")
          BY <3>1, Ends
      <3>2. CASE Goto("clear", "erase") /\ UNCHANGED threadFlag
          BY <1>2, <3>2 DEF ClearRecord, Goto
      <3> QED BY <1>2, <3>1, <3>2 DEF ClearRecord
    <2>3. UNCHANGED <<device, backups, mine, globals, selected, starts, last>>
        BY <1>2 DEF ClearRecord
    <2> QED BY <2>1, <2>2, <2>3
  <1>3. CASE Copy
    <2>1. interm' \in File
      <3>1. CASE copyName = 0
          BY <1>3, <3>1 DEF Copy
      <3>2. CASE copyName # 0
        <4>1. Len(backups) \in Nat
            BY LenProperties
        <4>2. backups[copyName] \in File
            BY <3>2, <4>1, ElementOfSeq
        <4> QED BY <1>3, <4>2 DEF Copy
      <3> QED BY <3>1, <3>2
    <2> QED BY <1>3, <2>1 DEF Copy, Goto
  <1>4. CASE Target
      BY <1>4, SMTT(30) DEF Target, Goto, Handle, Nothing
  <1> QED BY <1>1, <1>2, <1>3, <1>4

LEMMA NextType == TypeInv /\ [Next]_vars => TypeInv'
  <1> SUFFICES ASSUME TypeInv, [Next]_vars PROVE TypeInv'
      OBVIOUS
  <1>1. CASE UNCHANGED vars
      BY <1>1 DEF vars, device, disk, globals, TypeInv, TypeOK
  <1> QED BY <1>1, UserType, FromPhoneType, WorkType DEF Next

\* Files, threads and what they share keep their types.
THEOREM TypeCorrect == Spec => []TypeOK
  <1>1. TypeInv => TypeOK
      BY DEF TypeInv
  <1> QED BY InitType, NextType, <1>1, PTL DEF Spec

-----------------------------------------------------------------------------
(* How threads move. *)

\* A thread starts, takes a step, or ends; or all end.
Starts(t) ==
  /\ CanStart(t) /\ pc' = [pc EXCEPT ![t] = "confirm"]
  /\ (t = "sync" => threadFlag' = TRUE) /\ (t # "sync" => threadFlag' = threadFlag)
Moves(t) ==
  /\ pc[t] # "off" /\ UNCHANGED threadFlag
  /\ \E step \in Steps \ {"off"} : pc' = [pc EXCEPT ![t] = step]
Stops(t) ==
  /\ pc[t] # "off" /\ pc' = [pc EXCEPT ![t] = "off"]
  /\ (t = "sync" => threadFlag' = FALSE) /\ (t # "sync" => threadFlag' = threadFlag)
PcMoves ==
  \/ \E t \in Threads : Starts(t) \/ Moves(t) \/ Stops(t)
  \/ pc' = [t \in Threads |-> "off"] /\ threadFlag' \in Garbage
  \/ UNCHANGED <<pc, threadFlag>>

LEMMA NextMoves == TypeInv /\ [Next]_vars => PcMoves
  <1> SUFFICES ASSUME TypeInv, [Next]_vars PROVE PcMoves
      OBVIOUS
  <1>0. TypeOK
      BY DEF TypeInv
  <1>e. ASSUME NEW t \in Threads, pc[t] # "off", End(t) PROVE Stops(t)
      BY <1>0, <1>e, Ends DEF Stops
  <1>g. ASSUME NEW t \in Threads, NEW step \in Steps \ {"off"}, pc[t] # "off", Goto(t, step),
               UNCHANGED threadFlag
        PROVE  Moves(t)
      BY <1>g DEF Moves, Goto
  <1>1. CASE ClickSync \/ ClickClear \/ ClickReback
    <2>1. CASE ClickSync
      <3>1. Starts("sync")
          BY <2>1 DEF ClickSync, Started, Goto, Starts
      <3> QED BY <3>1 DEF PcMoves, Threads
    <2>2. CASE ClickClear
      <3>1. Starts("clear")
          BY <2>2 DEF ClickClear, Started, Goto, Starts
      <3> QED BY <3>1 DEF PcMoves, Threads
    <2>3. CASE ClickReback
      <3>1. Starts("reback")
          BY <2>3 DEF ClickReback, Started, Goto, Starts
      <3> QED BY <3>1 DEF PcMoves, Threads
    <2> QED BY <1>1, <2>1, <2>2, <2>3
  <1>2. ASSUME NEW t \in Threads, Refuse(t) \/ Accept(t) PROVE PcMoves
    <2>1. CASE Refuse(t)
      <3>1. Stops(t)
          BY <1>e, <2>1 DEF Refuse
      <3> QED BY <3>1 DEF PcMoves
    <2>2. CASE Accept(t)
      <3>1. pc[t] # "off" /\ UNCHANGED threadFlag
          BY <2>2 DEF Accept
      <3>2. \/ t = "reback" /\ pc' = [pc EXCEPT ![t] = "off"]
            \/ \E step \in Steps \ {"off"} : pc' = [pc EXCEPT ![t] = step]
          BY <2>2 DEF Accept, Goto, Steps
      <3>3. Moves(t) \/ Stops(t)
          BY <3>1, <3>2 DEF Moves, Stops
      <3> QED BY <3>3 DEF PcMoves
    <2> QED BY <1>2, <2>1, <2>2
  <1>3. ASSUME NEW d, Select(d) PROVE PcMoves
      BY <1>3 DEF Select, PcMoves
  <1>4. CASE Close
      BY <1>4 DEF Close, PcMoves
  <1>5. ASSUME NEW r, WorkerWrites(r) PROVE PcMoves
      BY <1>5 DEF WorkerWrites, PcMoves
  <1>6. ASSUME NEW t \in Threads, Replace(t) \/ FromPhone(t) PROVE Moves(t) \/ Stops(t)
    <2>1. pc[t] # "off"
        BY <1>6 DEF Replace, FromPhone, Lookup, Erase, Send, Locate, Download, Backup, Cleanup
    <2>2. End(t) \/ \E step \in Steps \ {"off"} : Goto(t, step) /\ UNCHANGED threadFlag
        BY <1>6 DEF Replace, FromPhone, Lookup, Erase, Send, Locate, Download, Backup, Cleanup,
                    Steps
    <2> QED BY <1>e, <1>g, <2>1, <2>2
  <1>7. CASE SwitchData
    <2>1. "sync" \in Threads /\ pc["sync"] # "off"
        BY <1>7 DEF SwitchData, Threads
    <2>2. End("sync") \/ \E step \in Steps \ {"off"} : Goto("sync", step) /\ UNCHANGED threadFlag
        BY <1>7 DEF SwitchData, Steps
    <2> QED BY <1>e, <1>g, <2>1, <2>2 DEF PcMoves
  <1>8. CASE ClearRecord
    <2>1. "clear" \in Threads /\ pc["clear"] # "off"
        BY <1>8 DEF ClearRecord, Threads
    <2>2. End("clear") \/ \E step \in Steps \ {"off"} : Goto("clear", step) /\ UNCHANGED threadFlag
        BY <1>8 DEF ClearRecord, Steps
    <2> QED BY <1>e, <1>g, <2>1, <2>2 DEF PcMoves
  <1>9. CASE Copy \/ Target
    <2>1. "reback" \in Threads /\ pc["reback"] # "off" /\ UNCHANGED threadFlag
        BY <1>9 DEF Copy, Target, Threads
    <2>2. Goto("reback", "off") \/ \E step \in Steps \ {"off"} : Goto("reback", step)
        BY <1>9 DEF Copy, Target, Steps
    <2>3. Stops("reback") \/ Moves("reback")
        BY <1>g, <2>1, <2>2 DEF Stops, Goto
    <2> QED BY <2>1, <2>3 DEF PcMoves
  <1>10. CASE UNCHANGED vars
      BY <1>10 DEF vars, PcMoves
  <1> QED BY <1>1, <1>2, <1>3, <1>4, <1>5, <1>6, <1>7, <1>8, <1>9, <1>10
          DEF Next, User, Worker, PcMoves

\* The flag is right from the start, unless it starts as garbage.
THEOREM FlagIsTrue ==
  ASSUME ~May("garbage")
  PROVE  Spec => []FlagTells
  <1>1. Init => FlagTells
      BY DEF Init, FlagTells, Garbage, Threads
  <1>2. TypeInv /\ FlagTells /\ [Next]_vars => FlagTells'
    <2> SUFFICES ASSUME TypeInv, FlagTells, PcMoves PROVE FlagTells'
        BY NextMoves
    <2>0. pc \in [Threads -> Steps] /\ threadFlag \in BOOLEAN /\ "sync" \in Threads
        BY DEF TypeInv, TypeOK, Threads
    <2>1. ASSUME NEW t \in Threads, Starts(t) \/ Moves(t) \/ Stops(t) PROVE FlagTells'
        BY <2>0, <2>1 DEF Starts, Moves, Stops, FlagTells
    <2>2. CASE pc' = [t \in Threads |-> "off"] /\ threadFlag' \in Garbage
        BY <2>0, <2>2 DEF Garbage, FlagTells
    <2> QED BY <2>1, <2>2 DEF PcMoves, FlagTells
  <1> QED BY InitType, NextType, <1>1, <1>2, PTL DEF Spec

\* With one operation at a time there is never a second thread.
Alone == \A s, t \in Threads : pc[s] # "off" /\ pc[t] # "off" => s = t

LEMMA InitAlone == Init => Alone
  BY DEF Init, Alone

LEMMA NextAlone == Serial /\ TypeInv /\ Alone /\ [Next]_vars => Alone'
  <1> SUFFICES ASSUME Serial, TypeInv, Alone, PcMoves PROVE Alone'
      BY NextMoves
  <1>0. pc \in [Threads -> Steps]
      BY DEF TypeInv, TypeOK
  <1>1. ASSUME NEW t \in Threads, Starts(t) PROVE Alone'
    <2>1. \A s \in Threads : pc[s] = "off"
        BY <1>1 DEF Starts, CanStart, Running
    <2> QED BY <1>0, <1>1, <2>1 DEF Starts, Alone
  <1>2. ASSUME NEW t \in Threads, Moves(t) \/ Stops(t) PROVE Alone'
      BY <1>0, <1>2 DEF Moves, Stops, Alone
  <1> QED BY <1>1, <1>2 DEF PcMoves, Alone

-----------------------------------------------------------------------------
(* Whose rows a file has. *)

Clean(db, d) == db # NoFile => \A r \in db : Home[r] \in {d, NoDevice}

\* From its download to its end a thread has a clean file in hand, and so has a
\* rollback from its copy; a name is that of a clean backup.
Holding(t) ==
  pc[t] \in {"backup", "work", "erase", "send"} \/ (t = "reback" /\ pc[t] = "lookup")
MixInv ==
  /\ \A d \in Devices : Clean(phone[d], d)
  /\ \A t \in Threads : Holding(t) => Clean(interm, mine[t].dev)
  /\ copyName # 0 => Clean(backups[copyName], clearDevice)
  /\ pc["reback"] = "target" => Clean(interm, clearDevice)

LEMMA InitMix == Init => MixInv
  BY DEF Init, MixInv, Clean, Holding, Threads

\* Clicks and answers do not touch files; closing ends all threads.
LEMMA UserMix ==
  ASSUME TypeInv, MixInv, User \/ Worker
  PROVE  MixInv'
  <1> USE DEF device, disk, globals, Threads
  <1>0. pc \in [Threads -> Steps] /\ phone \in [Devices -> File]
      BY DEF TypeInv, TypeOK
  <1>1. CASE ClickSync \/ ClickClear \/ ClickReback
      BY <1>0, <1>1 DEF ClickSync, ClickClear, ClickReback, Started, Goto, MixInv, Holding, Clean
  <1>2. ASSUME NEW t \in Threads, Refuse(t) \/ Accept(t) PROVE MixInv'
      BY <1>0, <1>2 DEF Refuse, Accept, End, Goto, MixInv, Holding, Clean
  <1>3. ASSUME NEW d, Select(d) PROVE MixInv'
      BY <1>3 DEF Select, MixInv, Holding, Clean
  <1>4. CASE Close
      BY <1>0, <1>4 DEF Close, MixInv, Holding, Clean
  <1>5. ASSUME NEW r \in Rows, WorkerWrites(r) PROVE MixInv'
    <2>1. \A d \in Devices : Clean(phone'[d], d)
        BY <1>0, <1>5, RowsAssumption DEF WorkerWrites, Clean, MixInv
    <2> QED BY <1>5, <2>1 DEF WorkerWrites, MixInv, Holding, Clean
  <1> QED BY <1>1, <1>2, <1>3, <1>4, <1>5 DEF User, Worker

\* A thread that fetches, backs up or replaces a database is the only one.
LEMMA FromPhoneMix ==
  ASSUME TypeInv, Alone, MixInv, NEW t \in Threads, FromPhone(t) \/ Replace(t)
  PROVE  MixInv'
  <1> USE DEF device, disk, globals, Threads
  <1>0. /\ pc \in [Threads -> Steps] /\ mine \in [Threads -> Handle]
        /\ phone \in [Devices -> File] /\ backups \in Seq(File) /\ Len(backups) \in Nat
        /\ pc[t] \in Aimed => mine[t].dev \in Devices
      BY LenProperties DEF TypeInv, TypeOK
  <1>a. \A u \in Threads \ {t} : pc[t] # "off" => pc[u] = "off"
      BY DEF Alone
  <1>1. CASE Locate(t)
      BY <1>0, <1>a, <1>1 DEF Locate, End, Goto, MixInv, Holding, Clean
  <1>2. CASE Lookup(t)
      BY <1>0, <1>a, <1>2 DEF Lookup, End, Goto, MixInv, Holding, Clean
  <1>3. CASE Download(t)
    <2>1. Clean(interm', mine[t].dev)
        BY <1>0, <1>3 DEF Download, Broken, MixInv, Clean, Aimed
    <2> QED BY <1>0, <1>a, <1>3, <2>1 DEF Download, Goto, MixInv, Holding, Clean
  <1>4. CASE Backup(t)
    <2>1. PICK copy \in {NoFile, interm} : backups' = Append(backups, copy)
        BY <1>4 DEF Backup, Broken
    <2>2. Clean(copy, mine[t].dev)
        BY <1>4, <2>1 DEF Backup, MixInv, Holding, Clean
    <2>3. copy \in File
        BY <2>1 DEF File, TypeInv, TypeOK
    <2>4. backups'[Len(backups')] = copy
        BY <1>0, <2>1, <2>3, AppendProperties
    <2>5. copyName' # 0 => copyName' = Len(backups') /\ clearDevice' = mine[t].dev
        BY <1>4 DEF Backup
    <2>6. copyName' # 0 => Clean(backups'[copyName'], clearDevice')
        BY <2>2, <2>4, <2>5
    <2>7. pc' = [pc EXCEPT ![t] = "work"] /\ UNCHANGED <<phone, interm, mine>>
        BY <1>4 DEF Backup, Goto
    <2>8. pc[t] = "backup"
        BY <1>4 DEF Backup
    <2>9. \A u \in Threads : Holding(u)' => u = t
        BY <1>0, <1>a, <2>7, <2>8 DEF Holding
    <2>10. \A u \in Threads : Holding(u)' => Clean(interm', mine'[u].dev)
        BY <2>7, <2>8, <2>9 DEF MixInv, Holding
    <2>11. pc'["reback"] # "target"
        BY <1>0, <1>a, <2>7, <2>8
    <2>12. \A d \in Devices : Clean(phone'[d], d)
        BY <2>7 DEF MixInv
    <2> QED BY <2>6, <2>10, <2>11, <2>12 DEF MixInv, Clean
  <1>5. CASE Cleanup(t)
      BY <1>0, <1>a, <1>5 DEF Cleanup, End, Goto, MixInv, Holding, Clean
  <1>6. CASE Erase(t)
      BY <1>0, <1>a, <1>6 DEF Erase, Goto, MixInv, Holding, Clean
  <1>7. CASE Send(t)
    <2>1. \A d \in Devices : Clean(phone'[d], d)
        BY <1>0, <1>7 DEF Send, MixInv, Holding, Clean
    <2> QED BY <1>0, <1>a, <1>7, <2>1 DEF Send, End, Goto, MixInv, Holding, Clean
  <1> QED BY <1>1, <1>2, <1>3, <1>4, <1>5, <1>6, <1>7 DEF FromPhone, Replace

LEMMA WorkMix ==
  ASSUME TypeInv, Alone, MixInv, SwitchData \/ ClearRecord \/ Copy \/ Target
  PROVE  MixInv'
  <1> USE DEF device, disk, globals, Threads
  <1>0. pc \in [Threads -> Steps] /\ mine \in [Threads -> Handle] /\ phone \in [Devices -> File]
      BY DEF TypeInv, TypeOK
  <1>1. CASE SwitchData
    <2>1. Clean(interm', mine["sync"].dev)
        BY <1>1 DEF SwitchData, MixInv, Holding, Clean
    <2>2. \A u \in Threads \ {"sync"} : pc[u] = "off"
        BY <1>1 DEF SwitchData, Alone
    <2> QED BY <1>0, <1>1, <2>1, <2>2 DEF SwitchData, End, Goto, MixInv, Holding, Clean
  <1>2. CASE ClearRecord
    <2>1. Clean(interm', mine["clear"].dev)
        BY <1>2 DEF ClearRecord, MixInv, Holding, Clean
    <2>2. \A u \in Threads \ {"clear"} : pc[u] = "off"
        BY <1>2 DEF ClearRecord, Alone
    <2> QED BY <1>0, <1>2, <2>1, <2>2 DEF ClearRecord, End, Goto, MixInv, Holding, Clean
  <1>3. CASE Copy \/ Target
    <2>2. \A u \in Threads \ {"reback"} : pc[u] = "off"
        BY <1>3 DEF Copy, Target, Alone
    <2> QED BY <1>0, <1>3, <2>2 DEF Copy, Target, Goto, MixInv, Holding, Clean
  <1> QED BY <1>1, <1>2, <1>3

\* No phone gets rows of another, whatever is selected when and whatever fails,
\* if the user does one thing at a time.
THEOREM NoRowsMixed ==
  ASSUME Serial
  PROVE  Spec => []NoMixUp
  <1>1. TypeInv /\ Alone /\ MixInv /\ [Next]_vars => MixInv'
    <2> SUFFICES ASSUME TypeInv, Alone, MixInv, [Next]_vars PROVE MixInv'
        OBVIOUS
    <2>1. CASE UNCHANGED vars
        BY <2>1 DEF vars, device, disk, globals, MixInv, Holding, Clean
    <2> QED BY <2>1, UserMix, FromPhoneMix, WorkMix DEF Next
  <1>2. MixInv => NoMixUp
      BY DEF MixInv, Clean, NoMixUp
  <1> QED BY InitType, NextType, InitAlone, NextAlone, InitMix, <1>1, <1>2, PTL DEF Spec

-----------------------------------------------------------------------------
(* What a rollback restores. *)

\* A rollback goes its own way; the name it starts from is that of the last
\* backup, and what it has in hand is what the last backup was made of.
UndoInv ==
  /\ pc["reback"] \in {"off", "confirm", "copy", "target", "lookup", "erase", "send"}
  /\ copyName # 0 => last.dev = clearDevice /\ backups[copyName] \in {last.rows, NoFile}
  /\ pc["reback"] = "target" => last.dev = clearDevice /\ interm = last.rows
  /\ pc["reback"] \in {"lookup", "erase", "send"} =>
       last.dev = mine["reback"].dev /\ interm = last.rows

LEMMA InitUndo == Init => UndoInv
  BY DEF Init, UndoInv, Threads

\* While no rollback runs, only a name can be wrong.
LEMMA UndoIdle ==
  ASSUME pc'["reback"] = "off", UndoInv, UNCHANGED <<copyName, clearDevice, backups, last>>
  PROVE  UndoInv'
  BY DEF UndoInv

LEMMA NextUndo ==
  ASSUME TypeInv, Alone, UndoInv, Next
  PROVE  UndoInv'
  <1> USE DEF device, disk, globals, Threads
  <1>0. /\ pc \in [Threads -> Steps] /\ mine \in [Threads -> Handle]
        /\ backups \in Seq(File) /\ Len(backups) \in Nat
      BY LenProperties DEF TypeInv, TypeOK
  <1>a. \A t \in Threads \ {"reback"} : pc[t] # "off" => pc["reback"] = "off"
      BY DEF Alone
  <1>1. CASE ClickSync \/ ClickClear \/ ClickReback
      BY <1>0, <1>1 DEF ClickSync, ClickClear, ClickReback, CanStart, Started, Goto, UndoInv
  <1>2. ASSUME NEW t \in Threads, Refuse(t) \/ Accept(t) PROVE UndoInv'
      BY <1>0, <1>a, <1>2 DEF Refuse, Accept, End, Goto, UndoInv
  <1>3. ASSUME NEW d, Select(d) PROVE UndoInv'
      BY <1>3 DEF Select, UndoInv
  <1>4. CASE Close
      BY <1>4 DEF Close, UndoInv
  <1>5. ASSUME NEW r, WorkerWrites(r) PROVE UndoInv'
      BY <1>5 DEF WorkerWrites, UndoInv
  <1>6. ASSUME NEW t \in Threads, FromPhone(t) PROVE UndoInv'
    <2>1. t # "reback" /\ pc["reback"] = "off"
        BY <1>a, <1>6 DEF FromPhone, Locate, Download, Backup, Cleanup, UndoInv
    <2>2. pc'["reback"] = "off"
        BY <1>0, <1>6, <2>1 DEF FromPhone, Locate, Download, Backup, Cleanup, End, Goto
    <2>3. CASE Locate(t) \/ Download(t) \/ Cleanup(t)
        BY <2>2, <2>3, UndoIdle DEF Locate, Download, Cleanup
    <2>4. CASE Backup(t)
      <3>1. PICK copy \in {NoFile, interm} : backups' = Append(backups, copy)
          BY <2>4 DEF Backup, Broken
      <3>2. copy \in File
          BY <3>1 DEF File, TypeInv, TypeOK
      <3>3. backups'[Len(backups')] = copy
          BY <1>0, <3>1, <3>2, AppendProperties
      <3>4. last'.dev = mine[t].dev /\ last'.rows = interm
          BY <2>4 DEF Backup
      <3>5. copyName' # 0 => copyName' = Len(backups') /\ clearDevice' = mine[t].dev
          BY <2>4 DEF Backup
      <3> QED BY <2>2, <3>1, <3>3, <3>4, <3>5 DEF UndoInv
    <2> QED BY <1>6, <2>3, <2>4 DEF FromPhone
  <1>7. ASSUME NEW t \in Threads, Replace(t) PROVE UndoInv'
    <2>1. CASE t = "reback"
        BY <1>0, <1>7, <2>1 DEF Replace, Lookup, Erase, Send, End, Goto, UndoInv
    <2>2. CASE t # "reback"
      <3>1. pc["reback"] = "off"
          BY <1>a, <1>7, <2>2 DEF Replace, Lookup, Erase, Send
      <3>2. pc'["reback"] = "off"
          BY <1>0, <1>7, <2>2, <3>1 DEF Replace, Lookup, Erase, Send, End, Goto
      <3> QED BY <1>7, <3>2, UndoIdle DEF Replace, Lookup, Erase, Send
    <2> QED BY <2>1, <2>2
  <1>8. CASE SwitchData \/ ClearRecord
    <2>1. pc["reback"] = "off"
        BY <1>a, <1>8 DEF SwitchData, ClearRecord
    <2>2. pc'["reback"] = "off"
        BY <1>0, <1>8, <2>1 DEF SwitchData, ClearRecord, End, Goto
    <2> QED BY <1>8, <2>2, UndoIdle DEF SwitchData, ClearRecord
  <1>9. CASE Copy \/ Target
      BY <1>0, <1>9 DEF Copy, Target, Goto, UndoInv
  <1> QED BY <1>1, <1>2, <1>3, <1>4, <1>5, <1>6, <1>7, <1>8, <1>9 DEF Next, User, Worker

\* One operation at a time and with the worker at rest meanwhile, a rollback
\* restores what the last operation backed up, on that operation's phone
\* (4354-4381).
THEOREM RollbacksUndo ==
  ASSUME Serial, ~May("worker")
  PROVE  Spec => RollbackUndoesTheLast
  <1>1. TypeInv /\ Alone /\ UndoInv /\ [Next]_vars => UndoInv'
      BY NextUndo DEF vars, disk, globals, UndoInv
  <1>2. ASSUME TypeInv, Alone, UndoInv, Next, NEW d \in Devices,
               pc["reback"] \in {"erase", "send"}, phone'[d] # phone[d]
        PROVE  last.dev = d /\ phone'[d] \in {last.rows, NoFile}
    <2> USE DEF device, disk, globals, Threads
    <2>0. phone \in [Devices -> File] /\ pc \in [Threads -> Steps]
        BY <1>2 DEF TypeInv, TypeOK
    <2>1. \A t \in Threads \ {"reback"} : pc[t] = "off"
        BY <1>2 DEF Alone
    <2>2. Erase("reback") \/ Send("reback")
      <3>1. ~(User \/ \E t \in Threads : FromPhone(t) \/ Lookup(t))
          BY <1>2 DEF User, ClickSync, ClickClear, ClickReback, Started, Close, Refuse, Accept,
                      Select, FromPhone, Locate, Download, Backup, Cleanup, Lookup
      <3>2. ~(SwitchData \/ ClearRecord \/ Copy \/ Target)
          BY <1>2 DEF SwitchData, ClearRecord, Copy, Target
      <3>3. ~Worker
          BY <1>2 DEF Worker, WorkerWrites, Running
      <3>4. \A t \in Threads \ {"reback"} : ~(Erase(t) \/ Send(t))
          BY <2>1 DEF Erase, Send
      <3> QED BY <1>2, <3>1, <3>2, <3>3, <3>4 DEF Next, Replace
    <2> QED BY <1>2, <2>0, <2>2 DEF Erase, Send, UndoInv
  <1>3. TypeInv /\ Alone /\ UndoInv /\ [Next]_vars =>
          [\A d \in Devices : pc["reback"] \in {"erase", "send"} /\ phone'[d] # phone[d] =>
             last.dev = d /\ phone'[d] \in {last.rows, NoFile}]_vars
      BY <1>2
  <1> QED BY InitType, NextType, InitAlone, NextAlone, InitUndo, <1>1, <1>3, PTL
          DEF Spec, RollbackUndoesTheLast

-----------------------------------------------------------------------------
(* What is under backUp. *)

\* What a synchronisation or a clear is about to replace is what it fetched
\* and backed up.
Kept(d) == phone[d] = NoFile \/ \E i \in DOMAIN backups : backups[i] = phone[d]
FreshInv ==
  \A t \in Threads \ {"reback"} :
    /\ pc[t] = "download" => mine[t].obj = object[mine[t].dev]
    /\ pc[t] = "backup" => interm = phone[mine[t].dev]
    /\ pc[t] \in {"work", "erase", "send"} => Kept(mine[t].dev)

LEMMA NextFresh ==
  ASSUME ~May("download"), ~May("backup"), ~May("worker"),
         TypeInv, Alone, FreshInv, Next
  PROVE  FreshInv'
  <1> USE DEF device, disk, globals, Threads
  <1>0. /\ pc \in [Threads -> Steps] /\ mine \in [Threads -> Handle]
        /\ phone \in [Devices -> File] /\ object \in [Devices -> Nat]
        /\ backups \in Seq(File) /\ Len(backups) \in Nat
        /\ \A t \in Threads : pc[t] \in Aimed => mine[t].dev \in Devices
      BY LenProperties DEF TypeInv, TypeOK
  <1>1. CASE ClickSync \/ ClickClear \/ ClickReback
      BY <1>0, <1>1 DEF ClickSync, ClickClear, ClickReback, Started, Goto, FreshInv, Kept
  <1>2. ASSUME NEW t \in Threads, Refuse(t) \/ Accept(t) PROVE FreshInv'
      BY <1>0, <1>2 DEF Refuse, Accept, End, Goto, FreshInv, Kept
  <1>3. ASSUME NEW d, Select(d) PROVE FreshInv'
      BY <1>3 DEF Select, FreshInv, Kept
  <1>4. CASE Close
      BY <1>4 DEF Close, FreshInv
  <1>5. ASSUME NEW r, WorkerWrites(r) PROVE FreshInv'
      BY <1>5 DEF WorkerWrites, Running, FreshInv
  <1>6. ASSUME NEW t \in Threads, FromPhone(t) \/ Replace(t) PROVE FreshInv'
    <2>a. \A u \in Threads \ {t} : pc[u] = "off"
        BY <1>6 DEF FromPhone, Replace, Locate, Lookup, Download, Backup, Cleanup, Erase, Send, Alone
    <2>b. \A u \in Threads \ {t} : pc'[u] = "off"
        BY <1>0, <1>6, <2>a DEF FromPhone, Replace, Locate, Lookup, Download, Backup, Cleanup,
                               Erase, Send, End, Goto
    <2>1. CASE t = "reback"
        BY <2>1, <2>b DEF FreshInv
    <2>2. CASE t # "reback" /\ (Locate(t) \/ Cleanup(t))
        BY <1>0, <2>b, <2>2 DEF Locate, Cleanup, End, Goto, FreshInv
    <2>3. CASE t # "reback" /\ Lookup(t)
        BY <1>0, <2>b, <2>3 DEF Lookup, End, Goto, FreshInv, Aimed
    <2>4. CASE t # "reback" /\ Download(t)
        BY <1>0, <2>b, <2>4 DEF Download, Broken, Goto, FreshInv
    <2>5. CASE t # "reback" /\ Backup(t)
      <3>1. backups' = Append(backups, interm)
          BY <2>5 DEF Backup, Broken
      <3>2. interm \in File /\ interm = phone[mine[t].dev]
          BY <2>5 DEF Backup, FreshInv, TypeInv, TypeOK
      <3>3. Len(backups') \in DOMAIN backups' /\ backups'[Len(backups')] = interm
        <4>1. backups' \in Seq(File) /\ Len(backups') = Len(backups) + 1
              /\ backups'[Len(backups')] = interm
            BY <1>0, <3>1, <3>2, AppendProperties
        <4>2. DOMAIN backups' = 1..Len(backups')
            BY <4>1, LenProperties
        <4> QED BY <1>0, <4>1, <4>2
      <3>4. pc' = [pc EXCEPT ![t] = "work"] /\ UNCHANGED <<phone, mine>>
          BY <2>5 DEF Backup, Goto
      <3>5. Kept(mine[t].dev)'
          BY <3>2, <3>3, <3>4 DEF Kept
      <3> QED BY <1>0, <2>b, <3>4, <3>5 DEF FreshInv
    <2>6. CASE t # "reback" /\ Erase(t)
      <3>1. pc[t] = "erase" /\ Kept(mine[t].dev) /\ mine[t].dev \in Devices
          BY <1>0, <2>6 DEF Erase, FreshInv, Aimed
      <3>2. phone'[mine[t].dev] \in {NoFile, phone[mine[t].dev]} /\ UNCHANGED <<backups, mine>>
          BY <1>0, <2>6, <3>1 DEF Erase
      <3>3. Kept(mine[t].dev)'
          BY <3>1, <3>2 DEF Kept
      <3>4. pc' = [pc EXCEPT ![t] = "send"]
          BY <2>6 DEF Erase, Goto
      <3> QED BY <1>0, <2>b, <3>2, <3>3, <3>4 DEF FreshInv
    <2>7. CASE t # "reback" /\ Send(t)
        BY <1>0, <2>b, <2>7 DEF Send, Goto, FreshInv
    <2> QED BY <1>6, <2>1, <2>2, <2>3, <2>4, <2>5, <2>6, <2>7 DEF FromPhone, Replace
  <1>7. CASE SwitchData \/ ClearRecord
    <2>1. PICK t \in {"sync", "clear"} :
            /\ pc[t] = "work" /\ \E step \in {"off", "erase"} : pc' = [pc EXCEPT ![t] = step]
            /\ UNCHANGED <<phone, backups, mine>>
        BY <1>7 DEF SwitchData, ClearRecord, End, Goto
    <2>2. \A u \in Threads \ {t} : pc'[u] = "off"
        BY <1>0, <2>1 DEF Alone
    <2>3. Kept(mine[t].dev)
        BY <2>1 DEF FreshInv
    <2>4. Kept(mine[t].dev)'
        BY <2>1, <2>3 DEF Kept
    <2> QED BY <1>0, <2>1, <2>2, <2>4 DEF FreshInv
  <1>8. CASE Copy \/ Target
    <2>1. \A u \in Threads \ {"reback"} : pc'[u] = "off"
        BY <1>0, <1>8 DEF Copy, Target, Goto, Alone
    <2> QED BY <2>1 DEF FreshInv
  <1> QED BY <1>1, <1>2, <1>3, <1>4, <1>5, <1>6, <1>7, <1>8 DEF Next, User, Worker

\* A database a synchronisation or a clear takes rows from, or deletes, is under
\* backUp as it was: one operation at a time, the worker at rest, and downloads
\* and backups that work.
THEOREM BackupsComeFirst ==
  ASSUME Serial, ~May("download"), ~May("backup"), ~May("worker")
  PROVE  Spec => BackedUpFirst
  <1>1. Init => FreshInv
      BY DEF Init, FreshInv
  <1>2. TypeInv /\ Alone /\ FreshInv /\ [Next]_vars => FreshInv'
      BY NextFresh DEF vars, device, disk, FreshInv, Kept
  <1>3. ASSUME TypeInv, Alone, FreshInv, Next, NEW d \in Devices, Loses(d), pc["reback"] = "off"
        PROVE  \E i \in DOMAIN backups : backups[i] = phone[d]
    <2> USE DEF device, disk, globals, Threads
    <2>0. phone \in [Devices -> File] /\ pc \in [Threads -> Steps]
          /\ \A t \in Threads : pc[t] \in Aimed => mine[t].dev \in Devices
        BY <1>3 DEF TypeInv, TypeOK
    <2>1. phone'[d] # phone[d]
        BY <1>3 DEF Loses
    <2>2. ~Worker
      <3> SUFFICES ASSUME NEW r \in Rows, WorkerWrites(r) PROVE FALSE
          BY DEF Worker
      <3>1. phone'[d] = phone[d] \cup {r}
          BY <2>0, <2>1 DEF WorkerWrites
      <3>2. phone'[d] # NoFile
          BY <1>3, <2>0, <3>1, MarkersAssumption DEF Loses, File, Database
      <3> QED BY <1>3, <3>1, <3>2 DEF Loses
    <2>3. ~(User \/ SwitchData \/ ClearRecord \/ Copy \/ Target
            \/ \E t \in Threads : FromPhone(t) \/ Lookup(t))
        BY <2>1 DEF User, ClickSync, ClickClear, ClickReback, Started, Close, Refuse, Accept,
                    Select, FromPhone, Locate, Download, Backup, Cleanup, Lookup, SwitchData,
                    ClearRecord, Copy, Target
    <2>4. PICK t \in Threads : Erase(t) \/ Send(t)
        BY <1>3, <2>2, <2>3 DEF Next, Replace
    <2>5. pc[t] \in {"erase", "send"} /\ t # "reback" /\ mine[t].dev = d
        BY <1>3, <2>0, <2>1, <2>4 DEF Erase, Send
    <2>6. Kept(d)
        BY <1>3, <2>5 DEF FreshInv
    <2> QED BY <1>3, <2>6 DEF Kept, Loses
  <1>4. TypeInv /\ Alone /\ FreshInv /\ [Next]_vars =>
          [\A d \in Devices : Loses(d) /\ pc["reback"] = "off" =>
             \E i \in DOMAIN backups : backups[i] = phone[d]]_vars
      BY <1>3
  <1> QED BY InitType, NextType, InitAlone, NextAlone, <1>1, <1>2, <1>4, PTL
          DEF Spec, BackedUpFirst
=============================================================================
