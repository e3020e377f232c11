----------------------------- MODULE DeviceSync -----------------------------
(***************************************************************************)
(* One session that synchronises users (radio_user) or devices with their  *)
(* areas (radio_devices), and the deletions every session starts with      *)
(* (DeleteAreaAndDevice): items the web editor flagged '2' leave the       *)
(* phone, items flagged '3' leave both sides, each with all that hangs     *)
(* below it in the tree of the last refresh.                               *)
(*                                                                         *)
(* The items are areas, devices, users and work rows ("task").  A row has  *)
(* its SynchronState (sync), its RFID (tag), and a version (ver) for all   *)
(* other columns.  An absent row has sync "none".  Fetching and sending    *)
(* the file are WorkSync's matter and coarser here.  Every row lies in the *)
(* 180-day window.                                                         *)
(***************************************************************************)
EXTENDS Naturals, Sequences, FiniteSets

CONSTANTS
  Items,        \* ids of areas, device_info, sys_user and the work tables
  Kind,         \* item -> "area", "device", "user" or "task"
  Parent,       \* item -> what it hangs below in the tree; a user's data_areas
  AreaOf,       \* item -> its AreaId
  Root,         \* PARENTFLAG: the parent of the topmost items, and no item
  UserArea,     \* m_userArea, Root when the user has none
  ChunkSize,    \* MAXARRAYSIZE
  Regimes,      \* sets of disturbances; a behaviour has one of them
  MaxEdits,     \* bound: edits and deletions by the worker and the web editor
  MaxSessions,  \* bound: sessions started
  NoFile,       \* the file does not exist
  Corrupt       \* the file exists and has none of the tables

Kinds == {"area", "device", "user", "task"}
Syncs == {"0", "1", "2", "3", "none"}
AllDisturbances ==
  {"download", "connect", "mysql", "later", "sqlite", "send", "crash", "turn", "radio",
   "stale", "web_edit", "phone_edit"}

Row == [ver : Nat, tag : Nat, sync : Syncs]
NoRow == [ver |-> 0, tag |-> 0, sync |-> "none"]
Database == [Items -> Row]
File == {NoFile, Corrupt} \cup Database

ASSUME ItemsAssumption ==
  /\ IsFiniteSet(Items) /\ Root \notin Items /\ UserArea \in Items \cup {Root}
  /\ Kind \in [Items -> Kinds]
  /\ Parent \in [Items -> Items \cup {Root}]
  /\ AreaOf \in [Items -> Items \cup {Root}]
\* Areas hang below areas, devices below areas or devices; work is done on devices.
ASSUME ParentAssumption ==
  \A i \in Items : Parent[i] # Root =>
    /\ Kind[i] = "area" => Kind[Parent[i]] = "area"
    /\ Kind[i] = "device" => Kind[Parent[i]] \in {"area", "device"}
    /\ Kind[i] = "task" => Kind[Parent[i]] = "device"
ASSUME RegimesAssumption == Regimes \subseteq SUBSET AllDisturbances
ASSUME BoundsAssumption ==
  ChunkSize \in Nat \ {0} /\ MaxEdits \in Nat /\ MaxSessions \in Nat
ASSUME FileAssumption ==
  NoFile \notin Database /\ Corrupt \notin Database /\ NoFile # Corrupt

VARIABLES
  phone, interm, backups,  \* the phone's file, the intermediate file, backUp
  server,    \* the MySQL tables
  tree,      \* item -> its SynchronState at the last Init_areas_tree
  dbEvent,   \* CSQLite::m_eventOpenDB is signalled
  handle,    \* the open database still answers: no statement failed on it
  pc,        \* the session thread's next step
  dir,       \* m_tongbu_dir
  radio,     \* m_radioChoose
  scope,     \* tongbuFw
  chunks,    \* chunks of ids still to be synchronised
  picked,    \* ids a handler keeps between two of its statements
  marks,     \* m_updateMysqlData: rows to be marked as synchronised
  ok,        \* ret, and when idle the result the session reported
  regime,    \* what may go wrong in this behaviour
  edits,     \* edits so far, and the last version given
  sessions,  \* sessions started
  wanted,    \* history: areas whose users the session is to bring
  work,      \* history: item -> last version its worker wrote
  held,      \* history: item -> versions of the worker's the server has held
  ghosts     \* history: items the fetched file had and the server had not

files == <<phone, interm, backups>>
sqlite == <<dbEvent, handle>>
choice == <<dir, radio, scope>>
session == <<pc, chunks, picked, marks, ok, wanted>>
history == <<work, held, ghosts>>
vars == <<files, server, tree, sqlite, choice, session, regime, edits, sessions, history>>

Steps ==
  {"idle", "fetch", "connect", "drop_devices", "purge_devices", "purge_orphans",
   "drop_areas", "purge_areas", "drop_users", "purge_users", "users", "user",
   "user_drop", "user_marks", "devices", "areas", "areas_drop", "choose", "device",
   "device_ack", "device_drop", "device_marks", "finish", "erase", "send"}

\* Type correctness of the files, the server, the tree and the session thread.
TypeOK ==
  /\ phone \in File /\ interm \in File /\ backups \in SUBSET File
  /\ server \in Database /\ tree \in [Items -> Syncs]
  /\ dbEvent \in BOOLEAN /\ handle \in BOOLEAN
  /\ pc \in Steps
  /\ dir \in {"to_pc", "to_phone"} /\ radio \in {"user", "devices"}
  /\ scope \in {"areas", "devices"}
  /\ chunks \in Seq(SUBSET Items)
  /\ picked \in SUBSET Items /\ marks \in SUBSET Items /\ wanted \in SUBSET Items
  /\ ok \in BOOLEAN
  /\ regime \in Regimes
  /\ edits \in Nat /\ sessions \in Nat
  /\ work \in [Items -> Nat] /\ held \in [Items -> SUBSET Nat] /\ ghosts \in SUBSET Items

-----------------------------------------------------------------------------
(* Rows and files. *)

IsDB(f) == f \notin {NoFile, Corrupt}
Has(db, i) == db[i].sync # "none"
Of(k) == {i \in Items : Kind[i] = k}
\* Mutant of Drop: the row is only flagged.
DropSoft(db, S) == [i \in Items |-> IF i \in S THEN [db[i] EXCEPT !.sync = "deleted"] ELSE db[i]]

Drop(db, S) == [i \in Items |-> IF i \in S THEN NoRow ELSE db[i]]
Synced(db) == [i \in Items |-> IF Has(db, i) THEN [db[i] EXCEPT !.sync = "1"] ELSE db[i]]
Put(db, rows, S) == [i \in Items |-> IF i \in S THEN rows[i] ELSE db[i]]

\* Work rows whose device is not in device_info.
Orphans(db) == {t \in Of("task") : Has(db, t) /\ (Parent[t] = Root \/ ~Has(db, Parent[t]))}

\* What a worker writes: a device's RFID, a work row.
Written(row, i) == IF Kind[i] = "device" THEN row.tag ELSE row.ver

-----------------------------------------------------------------------------
(* The tree: area below area, device below area or device. *)

\* The items from i up to the root: in every set that holds i and, with an
\* item, its parent.
Ancestors ==
  [i \in Items |->
     {j \in Items \cup {Root} :
        \A S \in SUBSET (Items \cup {Root}) :
          i \in S /\ (\A k \in S \ {Root} : Parent[k] \in S) => j \in S}]

Above(i) == IF i = Root THEN {Root} ELSE Ancestors[i]

\* The nodes reached from top through items of S.
Below(top, S) ==
  {i \in S : top \in Above(i) /\ \A j \in Above(i) : top \in Above(j) => j \in S \cup {top}}

TreeItems == Of("area") \cup Of("device")

\* The tree control: areas from the user's area down, devices below them or
\* of no area.
Shown == LET live == {i \in TreeItems : tree[i] \in {"0", "1"}} IN
  (IF UserArea \in live \cup {Root} THEN Below(UserArea, live) ELSE {})
  \cup Below(Root, live \cap Of("device"))

\* m_deleteTree.  Without the user's area its root is the node "0".
Known == {i \in TreeItems : tree[i] # "none"}
DeleteTree ==
  Below(IF UserArea \in Known THEN UserArea ELSE Root, Known) \cup Below(Root, Known \cap Of("device"))

\* Mutant of Doomed: only the flagged nodes themselves.
DoomedAlone(flag) == {i \in DeleteTree : tree[i] = flag}

\* DeleteAreaAndDeviceFindID: the nodes with the flag and all below them.
Doomed(flag) == UNION {Below(i, DeleteTree) \cup {i} : i \in {j \in DeleteTree : tree[j] = flag}}

Leaving == Doomed("2") \cup Doomed("3")

\* GetArrayItems: arrays of ChunkSize ids, the last one with the rest.
Cuts(S) ==
  {q \in UNION {[1..n -> SUBSET S \ {{}}] : n \in 0..Cardinality(S)} :
     /\ UNION {q[m] : m \in DOMAIN q} = S
     /\ \A m, o \in DOMAIN q : m < o => q[m] \cap q[o] = {} /\ Cardinality(q[m]) = ChunkSize
     /\ \A m \in DOMAIN q : Cardinality(q[m]) <= ChunkSize}

-----------------------------------------------------------------------------
(* What a call can return. *)

May(d) == d \in regime
Outcomes(d) == IF May(d) THEN BOOLEAN ELSE {TRUE}

\* A failing statement closes the handle: the rest of the handler fails too.
SqliteOutcomes(usable) == IF usable /\ IsDB(interm) THEN Outcomes("sqlite") ELSE {FALSE}

\* UpdateMysqlDB: FALSE leaves what was done before the failure; TRUE only says
\* that the first statement of the batch succeeded.
UpdateMysqlDB(S) ==
  {[ret |-> TRUE, done |-> S]}
  \cup {[ret |-> FALSE, done |-> T] : T \in {U \in SUBSET S : May("mysql") /\ S # {}}}
  \cup {[ret |-> TRUE, done |-> T] : T \in {U \in SUBSET S : May("later") /\ U # {}}}

\* Opening a file that does not exist makes an empty one.
Touched == IF interm = NoFile THEN Corrupt ELSE interm

Return(result) == pc' = "idle" /\ ok' = result

NextChunk(step, last) ==
  /\ chunks' = Tail(chunks)
  /\ pc' = IF Len(chunks) = 1 THEN last ELSE step

-----------------------------------------------------------------------------
(* The start of a session. *)

Flags(db) == [i \in Items |-> db[i].sync]

\* Init_areas_tree, started by the refresh button.
Refresh ==
  /\ pc = "idle" /\ tree # Flags(server)
  /\ tree' = Flags(server)
  /\ UNCHANGED <<files, server, sqlite, choice, session, regime, edits, sessions, history>>

\* For users the button to the PC is disabled (5119).  A cancelled session enables
\* it (4652), but the handler for users never looks at the direction.
Click(d, r) ==
  /\ pc = "idle" /\ sessions < MaxSessions
  /\ r = "user" => d = "to_phone"
  /\ May("stale") \/ tree = Flags(server)
  /\ pc' = "fetch" /\ dir' = d /\ radio' = r
  /\ sessions' = sessions + 1
  /\ UNCHANGED <<files, server, tree, sqlite, scope, chunks, picked, marks, ok, wanted,
                 regime, edits, history>>

\* Clicks during a session: the other direction, the other kind of data.
ClickBusy ==
  /\ pc # "idle"
  /\ \/ May("turn") /\ dir' = "to_pc" /\ UNCHANGED radio
     \/ May("radio") /\ radio' \in {"user", "devices"} /\ UNCHANGED dir
  /\ <<dir, radio>>' # <<dir, radio>>
  /\ UNCHANGED <<files, server, tree, sqlite, scope, session, regime, edits, sessions, history>>

\* Mutant of Fetch: no backup.
FetchNoBackup ==
  /\ pc = "fetch" /\ phone # NoFile
  /\ interm' = phone
  /\ pc' = "connect"
  /\ UNCHANGED <<phone, backups, server, tree, sqlite, choice, chunks, picked, marks, ok,
                 wanted, regime, edits, sessions, history>>

\* BeginPhoneToPc: the copy and its backup.
Fetch ==
  /\ pc = "fetch"
  /\ IF phone = NoFile
     THEN Return(FALSE) /\ interm' = NoFile /\ UNCHANGED backups
     ELSE /\ interm' \in {phone} \cup (IF May("download") THEN {NoFile, Corrupt} ELSE {})
          /\ backups' = IF interm' = NoFile THEN backups ELSE backups \cup {interm'}
          /\ pc' = "connect" /\ UNCHANGED ok
  /\ UNCHANGED <<phone, server, tree, sqlite, choice, chunks, picked, marks, wanted,
                 regime, edits, sessions, history>>

Connect ==
  /\ pc = "connect"
  /\ \/ May("connect") /\ Return(FALSE)
     \/ pc' = "drop_devices" /\ ok' = TRUE
  /\ marks' = {} /\ wanted' = {}
  /\ ghosts' = {i \in Items : IsDB(interm) /\ Has(interm, i) /\ ~Has(server, i)}
  /\ UNCHANGED <<files, server, tree, sqlite, choice, chunks, picked, regime, edits,
                 sessions, work, held>>

-----------------------------------------------------------------------------
(* DeleteAreaAndDevice.  Its result is not looked at. *)

\* Mutant of DropDevices: the server is told whatever the phone's file said.
DropDevicesAnyway ==
  /\ pc = "drop_devices"
  /\ interm # NoFile /\ dbEvent /\ dbEvent' = FALSE
  /\ \E delete \in SqliteOutcomes(TRUE) :
       /\ interm' = IF delete THEN Drop(interm, Leaving \cap Of("device")) ELSE interm
       /\ handle' = delete
  /\ pc' = "purge_devices"
  /\ UNCHANGED <<phone, backups, server, tree, choice, chunks, picked, marks, ok, wanted,
                 regime, edits, sessions, history>>

\* The devices and then the work rows they leave behind, unsynchronised ones too.
DropDevices ==
  LET doomed == Leaving \cap Of("device")
      rest == IF IsDB(interm) THEN Drop(interm, doomed) ELSE interm
  IN
  /\ pc = "drop_devices"
  /\ \/ /\ interm = NoFile
        /\ pc' = "users"
        /\ UNCHANGED <<interm, sqlite>>
     \/ /\ interm # NoFile /\ dbEvent /\ dbEvent' = FALSE
        /\ \/ /\ doomed = {}
              /\ pc' = "drop_areas"
              /\ UNCHANGED <<interm, handle>>
           \/ /\ doomed # {} /\ TRUE \in SqliteOutcomes(TRUE)
              /\ interm' = Drop(rest, Orphans(rest))
              /\ pc' = "purge_devices"
              /\ UNCHANGED handle
           \/ /\ doomed # {} /\ FALSE \in SqliteOutcomes(TRUE)
              /\ \/ interm' = interm /\ handle' = FALSE
                 \/ /\ IsDB(interm)
                    /\ \E T \in SUBSET Orphans(rest) : interm' = Drop(rest, T)
                    /\ UNCHANGED handle
              /\ pc' = "drop_areas"
  /\ UNCHANGED <<phone, backups, server, tree, choice, chunks, picked, marks, ok, wanted,
                 regime, edits, sessions, history>>

\* The statements of purges are not looked at one by one.
Purge(next, S) ==
  /\ server' = Drop(server, S)
  /\ pc' = next
  /\ UNCHANGED <<files, tree, choice, chunks, picked, marks, ok, wanted, regime, edits,
                 sessions, history>>

PurgeDevices ==
  /\ pc = "purge_devices"
  /\ \E u \in UpdateMysqlDB(Doomed("3") \cap Of("device")) : Purge("purge_orphans", u.done)
  /\ UNCHANGED sqlite

\* The server's work rows without a device, whoever took the device away.
PurgeOrphans ==
  /\ pc = "purge_orphans"
  /\ \E u \in UpdateMysqlDB(Orphans(server)) : Purge("drop_areas", u.done)
  /\ UNCHANGED sqlite

UsersOf(areas) == {u \in Of("user") : AreaOf[u] \in areas}

\* Two statements, areas and then their users; n of them were carried out.
DropAreas ==
  LET doomed == Leaving \cap Of("area") IN
  /\ pc = "drop_areas"
  /\ \/ /\ doomed = {}
        /\ pc' = "drop_users"
        /\ UNCHANGED <<interm, handle>>
     \/ /\ doomed # {} /\ TRUE \in SqliteOutcomes(handle)
        /\ interm' = Drop(interm, doomed \cup UsersOf(doomed))
        /\ pc' = "purge_areas"
        /\ UNCHANGED handle
     \/ /\ doomed # {} /\ FALSE \in SqliteOutcomes(handle)
        /\ interm' \in {interm} \cup
             (IF handle /\ IsDB(interm) THEN {Drop(interm, doomed)} ELSE {})
        /\ handle' = FALSE
        /\ pc' = "drop_users"
  /\ UNCHANGED <<phone, backups, server, tree, dbEvent, choice, chunks, picked, marks, ok,
                 wanted, regime, edits, sessions, history>>

\* Pairs of statements, an area and its users: the last pair may be halved.
PurgeAreas ==
  /\ pc = "purge_areas"
  /\ \E u \in UpdateMysqlDB(Doomed("3") \cap Of("area")) :
       \E kept \in {{}} \cup (IF May("mysql") \/ May("later") THEN {{a} : a \in u.done} ELSE {}) :
         Purge("drop_users", u.done \cup UsersOf(u.done \ kept))
  /\ UNCHANGED sqlite

\* Mutant of DropUsers: users to be deleted on both sides are left out.
DropUsers2 ==
  /\ pc = "drop_users"
  /\ \E delete \in SqliteOutcomes(handle) :
       interm' = IF delete THEN Drop(interm, {u \in Of("user") : server[u].sync = "2"}) ELSE interm
  /\ pc' = "purge_users"
  /\ UNCHANGED <<phone, backups, server, tree, sqlite, choice, chunks, picked, marks, ok,
                 wanted, regime, edits, sessions, history>>

\* Users of any area, chosen by the server's flags of now.
DropUsers ==
  LET old == {u \in Of("user") : server[u].sync \in {"2", "3"}} IN
  /\ pc = "drop_users"
  /\ \E select \in Outcomes("mysql"), delete \in SqliteOutcomes(handle) :
       interm' = IF select /\ old # {} /\ delete THEN Drop(interm, old) ELSE interm
  /\ pc' = "purge_users"
  /\ UNCHANGED <<phone, backups, server, tree, sqlite, choice, chunks, picked, marks, ok,
                 wanted, regime, edits, sessions, history>>

\* Chosen by the flags of now again, whether or not the phone's rows went.
PurgeUsers ==
  /\ pc = "purge_users"
  /\ \E u \in UpdateMysqlDB({u \in Of("user") : server[u].sync = "3"}) : Purge("users", u.done)
  /\ dbEvent' = TRUE /\ handle' = TRUE

-----------------------------------------------------------------------------
(* Users: from the server to the phone only. *)

\* The item chosen in the tree and those below it, of one kind.
Branch(i, k) == {j \in Shown \cap Of(k) : i \in Above(j)}

\* A device is refused, after the deletions were carried out on the server.
Users ==
  /\ pc = "users"
  /\ \/ /\ pc' = "devices"   \* another radio button, or nothing chosen
        /\ UNCHANGED <<ok, chunks, marks, wanted>>
     \/ /\ radio = "user" /\ Shown \cap Of("device") # {}
        /\ Return(FALSE)
        /\ UNCHANGED <<chunks, marks, wanted>>
     \/ /\ radio = "user"
        /\ \E i \in Shown \cap Of("area") :
             chunks' \in Cuts(Branch(i, "area")) /\ wanted' = Branch(i, "area")
        /\ marks' = {}
        /\ pc' = "user"
        /\ UNCHANGED ok
  /\ UNCHANGED <<files, server, tree, sqlite, choice, picked, regime, edits, sessions, history>>

\* Mutant of Current: a user counts as sent once it is marked.
CurrentPending(areas) == {u \in UsersOf(areas) : server[u].sync = "0" /\ Has(server, AreaOf[u])}

\* The join with areas: an area the server has, of either SynchronState.
Current(areas) ==
  {u \in UsersOf(areas) :
     server[u].sync \in {"0", "1"} /\ AreaOf[u] # Root /\ Has(server, AreaOf[u])}

\* The marks are kept before the insert, and whether or not it succeeds.
UserFetch ==
  /\ pc = "user"
  /\ \/ /\ interm = NoFile
        /\ ok' = FALSE
        /\ NextChunk("user", "user_marks")
        /\ UNCHANGED <<interm, sqlite, marks>>
     \/ /\ interm # NoFile /\ dbEvent /\ dbEvent' = FALSE
        /\ \E select \in Outcomes("mysql"), insert \in SqliteOutcomes(TRUE) :
             LET new == IF select THEN Current(Head(chunks)) ELSE {}
                 done == new = {} \/ insert
             IN /\ interm' = IF new # {} /\ insert THEN Put(interm, server, new) ELSE interm
                /\ marks' = marks \cup new
                /\ ok' = (ok /\ select /\ done)
                /\ handle' = done
        /\ pc' = "user_drop"
        /\ UNCHANGED chunks
  /\ UNCHANGED <<phone, backups, server, tree, choice, picked, wanted, regime, edits,
                 sessions, history>>

\* The end of a handler: rows flagged '2' leave the file, the file is closed.
DropOld(old, step, last) ==
  /\ \E select \in Outcomes("mysql"), delete \in SqliteOutcomes(handle) :
       /\ interm' = IF select /\ old # {} /\ delete THEN Drop(interm, old) ELSE interm
       /\ ok' = (ok /\ select /\ (old = {} \/ delete))
  /\ dbEvent' = TRUE /\ handle' = TRUE
  /\ NextChunk(step, last)
  /\ UNCHANGED <<phone, backups, server, tree, choice, picked, marks, wanted, regime, edits,
                 sessions, history>>

UserDrop ==
  /\ pc = "user_drop"
  /\ DropOld({u \in UsersOf(Head(chunks)) : server[u].sync = "2"}, "user", "user_marks")

\* UpdateMysqlDB(m_updateMysqlData), whatever the handlers returned.
Marks ==
  /\ pc \in {"user_marks", "device_marks"}
  /\ \E u \in UpdateMysqlDB(marks) :
       server' = Put(server, Synced(server), u.done) /\ ok' = (ok /\ u.ret)
  /\ pc' = IF pc = "user_marks" THEN "devices" ELSE "finish"
  /\ UNCHANGED <<files, tree, sqlite, choice, chunks, picked, marks, wanted, regime, edits,
                 sessions, history>>


-----------------------------------------------------------------------------
(* Devices and areas. *)

Devices ==
  /\ pc = "devices"
  /\ pc' = IF radio = "devices" THEN "areas" ELSE "finish"
  /\ UNCHANGED <<files, server, tree, sqlite, choice, chunks, picked, marks, ok, wanted,
                 regime, edits, sessions, history>>

\* Mutant of AreasPut: only areas that changed.
AreasPutPending ==
  /\ pc = "areas"
  /\ IsDB(interm)
  /\ interm' = Put(interm, Synced(server), {a \in Shown \cap Of("area") : server[a].sync = "0"})
  /\ dbEvent' = FALSE /\ handle' = TRUE
  /\ pc' = "areas_drop"
  /\ UNCHANGED <<phone, backups, server, tree, choice, chunks, picked, marks, ok, wanted,
                 regime, edits, sessions, history>>

\* Every area of the tree, again and again; no result is looked at.
AreasPut ==
  /\ pc = "areas"
  /\ \/ /\ dir = "to_pc"
        /\ pc' = "choose"
        /\ UNCHANGED <<interm, sqlite>>
     \/ /\ dir = "to_phone" /\ dbEvent /\ dbEvent' = FALSE
        /\ \E select \in Outcomes("mysql"), insert \in SqliteOutcomes(TRUE) :
             LET new == IF select THEN {a \in Shown \cap Of("area") : Has(server, a)} ELSE {}
             IN /\ interm' = IF new # {} /\ insert THEN Put(interm, Synced(server), new)
                             ELSE Touched
                /\ handle' = (new = {} \/ insert)
        /\ pc' = "areas_drop"
  /\ UNCHANGED <<phone, backups, server, tree, choice, chunks, picked, marks, ok, wanted,
                 regime, edits, sessions, history>>

AreasDrop ==
  LET old == {a \in Of("area") : server[a].sync = "2"} IN
  /\ pc = "areas_drop"
  /\ \E select \in Outcomes("mysql"), delete \in SqliteOutcomes(handle) :
       interm' = IF select /\ old # {} /\ delete THEN Drop(interm, old) ELSE interm
  /\ dbEvent' = TRUE /\ handle' = TRUE
  /\ pc' = "choose"
  /\ UNCHANGED <<phone, backups, server, tree, choice, chunks, picked, marks, ok, wanted,
                 regime, edits, sessions, history>>

\* A device: its id and those below it.  An area: the ids of the areas.
Choose ==
  /\ pc = "choose"
  /\ \/ /\ pc' = "finish"   \* nothing chosen
        /\ UNCHANGED <<scope, chunks, marks>>
     \/ /\ \E i \in Shown :
             /\ chunks' \in Cuts(Branch(i, Kind[i]))
             /\ scope' = IF Kind[i] = "area" THEN "areas" ELSE "devices"
        /\ marks' = {}
        /\ pc' = "device"
  /\ UNCHANGED <<files, server, tree, sqlite, dir, radio, picked, ok, wanted, regime, edits,
                 sessions, history>>

\* Rows of the chunk: AreaId in (...), or Id in (...).
InChunk(db, sync) ==
  {d \in Of("device") :
     /\ db[d].sync = sync
     /\ (IF scope = "areas" THEN AreaOf[d] ELSE d) \in Head(chunks)}

\* A binding reaches the server's row, if there still is one.
Bound(S) ==
  /\ server' = [d \in Items |->
                  IF d \in S /\ Has(server, d) THEN [server[d] EXCEPT !.tag = interm[d].tag]
                  ELSE server[d]]
  /\ held' = [d \in Items |->
                IF d \in S /\ Has(server, d) THEN held[d] \cup {interm[d].tag} ELSE held[d]]

\* Mutant of DevicePush: acknowledged whatever UpdateMysqlDB returned.
DevicePushUnchecked ==
  /\ pc = "device" /\ dir = "to_pc"
  /\ dbEvent' = FALSE /\ interm' = Touched /\ handle' = TRUE
  /\ IF IsDB(interm)
     THEN \E u \in UpdateMysqlDB(InChunk(interm, "0")) :
            picked' = InChunk(interm, "0") /\ Bound(u.done) /\ ok' = (ok /\ u.ret)
     ELSE picked' = {} /\ ok' = FALSE /\ UNCHANGED <<server, held>>
  /\ pc' = "device_ack"
  /\ UNCHANGED <<phone, backups, tree, choice, chunks, marks, wanted, regime, edits,
                 sessions, work, ghosts>>

\* The RFID of devices bound on the phone.  A count that breaks off finds
\* none; a select that fails after its count leaves unset pointers behind,
\* and the handler may return without closing the file.
DevicePush ==
  /\ pc = "device" /\ dir = "to_pc" /\ dbEvent
  /\ dbEvent' = FALSE /\ interm' = Touched
  /\ \/ /\ IsDB(interm)
        /\ \E S \in {InChunk(interm, "0")} \cup (IF May("sqlite") THEN {{}} ELSE {}) :
             \E u \in UpdateMysqlDB(S) :
               /\ Bound(u.done)
               /\ picked' = IF u.ret THEN S ELSE {}
               /\ ok' = (ok /\ u.ret)
        /\ pc' = "device_ack"
        /\ UNCHANGED <<handle, chunks>>
     \/ /\ ~IsDB(interm) \/ May("sqlite")
        /\ picked' = {} /\ ok' = FALSE /\ handle' = FALSE
        /\ \/ pc' = "device_ack" /\ UNCHANGED chunks
           \/ IsDB(interm) /\ NextChunk("device", "device_marks")
        /\ UNCHANGED <<server, held>>
  /\ UNCHANGED <<phone, backups, tree, choice, marks, wanted, regime, edits, sessions,
                 work, ghosts>>

DeviceAck ==
  /\ pc = "device_ack"
  /\ \E update \in SqliteOutcomes(handle) :
       /\ interm' = IF picked # {} /\ update THEN Put(interm, Synced(interm), picked) ELSE interm
       /\ ok' = (ok /\ (picked = {} \/ update))
  /\ picked' = {}
  /\ dbEvent' = TRUE /\ handle' = TRUE
  /\ NextChunk("device", "device_marks")
  /\ UNCHANGED <<phone, backups, server, tree, choice, marks, wanted, regime, edits,
                 sessions, history>>

\* Mutant of DeviceFetch: marked before the insert, as users are.
DeviceFetchMarksFirst ==
  /\ pc = "device" /\ dir = "to_phone"
  /\ dbEvent' = FALSE
  /\ \E insert \in SqliteOutcomes(TRUE) :
       LET new == InChunk(server, "0")
       IN /\ interm' = IF new # {} /\ insert THEN Put(interm, Synced(server), new) ELSE Touched
          /\ marks' = marks \cup new
          /\ ok' = (ok /\ (new = {} \/ insert))
          /\ handle' = (new = {} \/ insert)
  /\ pc' = "device_drop"
  /\ UNCHANGED <<phone, backups, server, tree, choice, chunks, picked, wanted, regime, edits,
                 sessions, history>>

\* Whole rows, the server's RFID over the phone's.
DeviceFetch ==
  /\ pc = "device" /\ dir = "to_phone" /\ dbEvent
  /\ dbEvent' = FALSE
  /\ \E select \in Outcomes("mysql"), insert \in SqliteOutcomes(TRUE) :
       LET new == IF select THEN InChunk(server, "0") ELSE {}
           done == new = {} \/ insert
       IN /\ interm' = IF new # {} /\ insert THEN Put(interm, Synced(server), new) ELSE Touched
          /\ marks' = IF done THEN marks \cup new ELSE marks
          /\ ok' = (ok /\ select /\ done)
          /\ handle' = done
  /\ pc' = "device_drop"
  /\ UNCHANGED <<phone, backups, server, tree, choice, chunks, picked, wanted, regime, edits,
                 sessions, history>>

\* Synchronising one device drops every device flagged '2'.
DeviceDrop ==
  /\ pc = "device_drop"
  /\ DropOld(IF scope = "areas" THEN InChunk(server, "2")
             ELSE {d \in Of("device") : server[d].sync = "2"},
             "device", "device_marks")

-----------------------------------------------------------------------------
(* The end of a session. *)

Finish ==
  /\ pc = "finish"
  /\ IF ok THEN pc' = "erase" /\ UNCHANGED ok ELSE Return(FALSE)
  /\ UNCHANGED <<files, server, tree, sqlite, choice, chunks, picked, marks, wanted, regime,
                 edits, sessions, history>>

Erase ==
  /\ pc = "erase"
  /\ phone' = NoFile
  /\ pc' = "send"
  /\ UNCHANGED <<interm, backups, server, tree, sqlite, choice, chunks, picked, marks, ok,
                 wanted, regime, edits, sessions, history>>

\* TransferDataToDevice, after which the intermediate file goes.
Send ==
  /\ pc = "send"
  /\ \/ interm # NoFile /\ phone' = interm /\ Return(TRUE)
     \/ (interm = NoFile \/ May("send")) /\ UNCHANGED phone /\ Return(FALSE)
  /\ interm' = NoFile
  /\ UNCHANGED <<backups, server, tree, sqlite, choice, chunks, picked, marks, wanted,
                 regime, edits, sessions, history>>

-----------------------------------------------------------------------------
(* The environment. *)

\* The program ends and is started again: files stay, memory does not.
Crash ==
  /\ May("crash") /\ pc # "idle"
  /\ Return(FALSE)
  /\ dbEvent' = TRUE /\ handle' = TRUE
  /\ tree' = Flags(server)
  /\ chunks' = <<>> /\ picked' = {} /\ marks' = {} /\ wanted' = {}
  /\ UNCHANGED <<files, server, choice, regime, edits, sessions, history>>

\* The worker binds a device to a tag, or fills in a work row.
PhoneEdit(i) ==
  /\ pc = "idle" \/ May("phone_edit")
  /\ edits < MaxEdits
  /\ Kind[i] \in {"device", "task"} /\ IsDB(phone) /\ Has(phone, i)
  /\ edits' = edits + 1
  /\ phone' = [phone EXCEPT ![i] =
                 IF Kind[i] = "device" THEN [@ EXCEPT !.tag = edits', !.sync = "0"]
                 ELSE [@ EXCEPT !.ver = edits', !.sync = "0"]]
  /\ work' = [work EXCEPT ![i] = edits']
  /\ UNCHANGED <<interm, backups, server, tree, sqlite, choice, session, regime, sessions,
                 held, ghosts>>

\* The web editor changes an area, a device or a user.
WebEdit(i) ==
  /\ pc = "idle" \/ May("web_edit")
  /\ edits < MaxEdits
  /\ Kind[i] # "task" /\ server[i].sync \in {"0", "1"}
  /\ edits' = edits + 1
  /\ server' = [server EXCEPT ![i].ver = edits', ![i].sync = "0"]
  /\ UNCHANGED <<files, tree, sqlite, choice, session, regime, sessions, history>>

\* The web editor asks for a deletion: '2' on the phone, '3' on both sides.
WebDelete(i, s) ==
  /\ pc = "idle" \/ May("web_edit")
  /\ edits < MaxEdits
  /\ Kind[i] # "task" /\ server[i].sync \in {"0", "1"}
  /\ edits' = edits + 1
  /\ server' = [server EXCEPT ![i].sync = s]
  /\ UNCHANGED <<files, tree, sqlite, choice, session, regime, sessions, history>>

-----------------------------------------------------------------------------
Init ==
  LET start == [i \in Items |-> [ver |-> 0, tag |-> 0, sync |-> "1"]]
  IN /\ phone \in {start, [i \in Items |-> NoRow]}   \* one in use, a new one
     /\ server = start /\ tree = Flags(start)
     /\ interm = NoFile /\ backups = {}
     /\ dbEvent = TRUE /\ handle = TRUE
     /\ pc = "idle" /\ dir = "to_pc" /\ radio = "devices" /\ scope = "areas"
     /\ chunks = <<>> /\ picked = {} /\ marks = {} /\ wanted = {}
     /\ ok = FALSE
     /\ regime \in Regimes
     /\ edits = 0 /\ sessions = 0
     /\ work = [i \in Items |-> 0] /\ held = [i \in Items |-> {0}] /\ ghosts = {}

Deletions == DropDevices \/ PurgeDevices \/ PurgeOrphans \/ DropAreas \/ PurgeAreas
             \/ DropUsers \/ PurgeUsers
UserSession == Users \/ UserFetch \/ UserDrop
DeviceSession == Devices \/ AreasPut \/ AreasDrop \/ Choose \/ DevicePush \/ DeviceAck
                 \/ DeviceFetch \/ DeviceDrop
Session == Fetch \/ Connect \/ Deletions \/ UserSession \/ DeviceSession \/ Marks
           \/ Finish \/ Erase \/ Send

User ==
  \/ \E d \in {"to_pc", "to_phone"}, r \in {"user", "devices"} : Click(d, r)
  \/ ClickBusy \/ Refresh
Editors ==
  \E i \in Items : PhoneEdit(i) \/ WebEdit(i) \/ \E s \in {"2", "3"} : WebDelete(i, s)

Next == Session \/ User \/ Crash \/ Editors

Spec == Init /\ [][Next]_vars

-----------------------------------------------------------------------------
(* Safety. *)

\* A binding the phone's side counts as synchronised was held by the server,
\* in the phone, the intermediate file and every backup (2300-2316), or the
\* server has no such device any more.  With statements that fail behind a
\* good one (UpdateMysqlDB) it does not hold.
BindingsAcked ==
  ~May("later") =>
    \A f \in {phone, interm} \cup backups : IsDB(f) =>
      \A d \in Of("device") :
        f[d].sync = "1" => f[d].tag \in held[d] \/ ~Has(server, d)

\* What a worker bound or wrote last reached the server or is in some file,
\* though DeleteAreaAndDevice takes unsynchronised rows off the phone (3400)
\* and DeviceFetch writes over bindings (2391).  Only a broken download and
\* what is written on the phone during a session can be lost.
NothingLostForGood ==
  ~May("download") /\ ~May("phone_edit") =>
    \A i \in Of("device") \cup Of("task") :
      \/ work[i] \in held[i]
      \/ \E f \in {phone, interm} \cup backups : IsDB(f) /\ Written(f[i], i) = work[i]

\* The server never has an area or a device without what it hangs below, nor,
\* but for the moment between two purges, a work row without its device:
\* whatever branch was deleted (3261), from whatever tree, unless a statement
\* failed.  A crash may come between the two purges.
NoServerOrphans ==
  regime \cap {"mysql", "later", "sqlite"} = {} =>
    \A i \in TreeItems \cup (IF May("crash") \/ pc = "purge_orphans" THEN {} ELSE Of("task")) :
      Has(server, i) /\ Parent[i] # Root => Has(server, Parent[i])

\* A session for users that got as far as the phone brings every user of the
\* chosen areas as the server has it: although users are marked before they
\* are stored (3767), they are sent again each time.
UsersArrive ==
  pc = "erase" /\ ~May("web_edit") =>
    \A u \in Of("user") :
      server[u].sync \in {"0", "1"} /\ AreaOf[u] \in wanted /\ Has(server, AreaOf[u])
        => IsDB(interm) /\ Has(interm, u) /\ interm[u].ver = server[u].ver

\* Devices marked as synchronised are in the file the session leaves, as the
\* server has them, even when later chunks failed (2412).
MarkedDevicesAreHeld ==
  pc = "device_marks" /\ ~May("web_edit") =>
    \A d \in marks : IsDB(interm) /\ Has(interm, d) /\ interm[d].ver = server[d].ver

\* Devices in the tree of the user's area, below the area their row names.
Placed ==
  {d \in Of("device") :
     AreaOf[d] \in Of("area") \cap Above(d) /\ UserArea \in Above(AreaOf[d])}

\* No device in the phone's file or a backup that the server still has lacks
\* its area there, though every area flagged '2' is dropped (2668) and devices
\* come chunk by chunk: the result of Synchrodata_areas is dropped (4106), so
\* only while no statement fails and the tree is the server's.
DevicesHaveAreas ==
  regime \cap {"mysql", "later", "sqlite", "stale", "web_edit"} = {} =>
    \A f \in {phone} \cup backups : IsDB(f) =>
      \A d \in Placed : Has(f, d) /\ Has(server, d) => Has(f, AreaOf[d])

-----------------------------------------------------------------------------
(* What a step may never do. *)

\* The server forgets an area or a device only when the file for the phone
\* no longer has it (3408, 3455): the phone is not left with rows nobody
\* will ever ask it to delete.
PurgedIsDropped ==
  [][\A i \in TreeItems : Has(server, i) /\ ~Has(server', i) => IsDB(interm) /\ ~Has(interm, i)]_vars

\* A file sent to the phone has no area, device or user the server lacks,
\* except for those the fetched file already had.  User rows are purged
\* whatever became of them in the file (3541), by the flags of that moment.
NoNewGhosts ==
  [][pc = "send" /\ phone' # NoFile =>
       \A i \in TreeItems \cup
                 (IF regime \cap {"sqlite", "mysql", "web_edit"} = {} THEN Of("user") ELSE {}) :
         IsDB(phone') /\ Has(phone', i) /\ ~Has(server, i) => i \in ghosts]_vars
=============================================================================
