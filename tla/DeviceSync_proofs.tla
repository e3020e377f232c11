------------------------- MODULE DeviceSync_proofs -------------------------
(***************************************************************************)
(* Theorems about DeviceSync, for any tree of areas and devices, any       *)
(* users, work rows, disturbances, edits and sessions.                     *)
(***************************************************************************)
EXTENDS DeviceSync, FiniteSetTheorems, SequenceTheorems, TLAPS

\* While a handler runs, the chunk it runs for is at the head of chunks.
Handlers == {"user", "user_drop", "device", "device_ack", "device_drop"}
ChunkLeft == pc \in Handlers => Len(chunks) > 0

TypeInv == TypeOK /\ ChunkLeft

-----------------------------------------------------------------------------
(* The operators on databases and on the tree. *)

LEMMA NoRowIsRow == NoRow \in Row
  BY DEF NoRow, Row, Syncs

\* Deleting, replacing and marking rows keep a database a database.
LEMMA DropType ==
  ASSUME NEW db \in Database, NEW S PROVE Drop(db, S) \in Database
  BY NoRowIsRow DEF Drop, Database

LEMMA PutType ==
  ASSUME NEW db \in Database, NEW rows \in Database, NEW S
  PROVE  Put(db, rows, S) \in Database
  BY DEF Put, Database

LEMMA SyncedType ==
  ASSUME NEW db \in Database PROVE Synced(db) \in Database
  <1> SUFFICES ASSUME NEW i \in Items
               PROVE  (IF Has(db, i) THEN [db[i] EXCEPT !.sync = "1"] ELSE db[i]) \in Row
      BY DEF Synced, Database
  <1> db[i] \in Row BY DEF Database
  <1> QED BY DEF Row, Syncs

\* A file that is a database is one of the databases; every database is one.
LEMMA DatabaseFile == \A f \in File : IsDB(f) => f \in Database
  BY DEF File, IsDB

LEMMA FileTypes == Database \subseteq File /\ NoFile \in File /\ Corrupt \in File
  BY DEF File

LEMMA DatabaseIsDB == \A f \in Database : IsDB(f) /\ f # NoFile
  BY FileAssumption DEF IsDB

\* Marking rows loses none, and dropped rows are gone.
LEMMA SyncedHas ==
  ASSUME NEW db \in Database, NEW S, NEW i \in Items
  PROVE  Has(Put(db, Synced(db), S), i) <=> Has(db, i)
  <1> db[i] \in Row BY DEF Database
  <1> QED BY DEF Put, Synced, Has, Row, Syncs

LEMMA DropHas ==
  ASSUME NEW db \in Database, NEW S, NEW i \in Items
  PROVE  Has(Drop(db, S), i) <=> Has(db, i) /\ i \notin S
  BY DEF Drop, Has, NoRow

LEMMA OfItems == \A k : Of(k) \subseteq Items
  BY DEF Of

LEMMA FlagsType == ASSUME NEW db \in Database PROVE Flags(db) \in [Items -> Syncs]
  <1> SUFFICES ASSUME NEW i \in Items PROVE db[i].sync \in Syncs
      BY DEF Flags
  <1> db[i] \in Row BY DEF Database
  <1> QED BY DEF Row

\* An item hangs below itself, so the branch chosen is never empty.
LEMMA BranchHasItem ==
  ASSUME NEW k, NEW i \in Shown \cap Of(k)
  PROVE  i \in Branch(i, k) /\ Branch(i, k) \subseteq Items
  <1>1. i \in Items /\ i # Root
      BY OfItems, ItemsAssumption
  <1>2. i \in Above(i)
      BY <1>1 DEF Above, Ancestors
  <1> QED BY <1>2, OfItems DEF Branch

\* A set that is not empty is cut into at least one chunk.
LEMMA CutsType ==
  ASSUME NEW S \in SUBSET Items, S # {}, NEW q \in Cuts(S)
  PROVE  q \in Seq(SUBSET Items) /\ Len(q) > 0
  <1>1. Cardinality(S) \in Nat
      BY ItemsAssumption, FS_Subset, FS_CardinalityType
  <1>2. PICK n \in 0..Cardinality(S) : q \in [1..n -> SUBSET S \ {{}}]
      BY DEF Cuts
  <1>3. n \in Nat
      BY <1>1, <1>2
  <1>4. q \in Seq(SUBSET Items) /\ Len(q) = n /\ DOMAIN q = 1..n
      BY <1>2, <1>3
  <1>5. n # 0
      BY <1>4 DEF Cuts
  <1> QED BY <1>3, <1>4, <1>5

\* A SQLite statement succeeds only on a database.
LEMMA SqliteNeedsDB ==
  ASSUME NEW usable \in BOOLEAN
  PROVE  /\ SqliteOutcomes(usable) \subseteq BOOLEAN
         /\ TRUE \in SqliteOutcomes(usable) => usable /\ IsDB(interm)
  BY DEF SqliteOutcomes, Outcomes

LEMMA UpdateMysqlDBType ==
  ASSUME NEW S, NEW u \in UpdateMysqlDB(S) PROVE u.ret \in BOOLEAN /\ u.done \subseteq S
  <1>1. CASE u = [ret |-> TRUE, done |-> S]
      BY <1>1
  <1>2. CASE \E T \in SUBSET S : u = [ret |-> FALSE, done |-> T]
      BY <1>2
  <1>3. CASE \E T \in SUBSET S : u = [ret |-> TRUE, done |-> T]
      BY <1>3
  <1> QED BY <1>1, <1>2, <1>3 DEF UpdateMysqlDB

LEMMA NextChunkType ==
  ASSUME TypeOK, Len(chunks) > 0,
         NEW step \in Handlers, NEW last \in {"user_marks", "device_marks"},
         NextChunk(step, last)
  PROVE  chunks' \in Seq(SUBSET Items) /\ pc' \in Steps /\ ChunkLeft'
  <1>1. chunks # <<>> /\ chunks \in Seq(SUBSET Items) /\ Len(chunks) \in Nat
      BY LenProperties DEF TypeOK
  <1>2. Tail(chunks) \in Seq(SUBSET Items) /\ Len(Tail(chunks)) = Len(chunks) - 1
      BY <1>1, HeadTailProperties
  <1>3. pc' \in Steps
      BY DEF NextChunk, Steps, Handlers
  <1>4. ChunkLeft'
      BY <1>1, <1>2 DEF NextChunk, ChunkLeft, Handlers
  <1> QED BY <1>2, <1>3, <1>4 DEF NextChunk

-----------------------------------------------------------------------------
(* Type correctness, one step per action. *)

LEMMA TypeInit == Init => TypeInv
  <1> SUFFICES ASSUME Init PROVE TypeInv
      OBVIOUS
  <1> DEFINE start == [i \in Items |-> [ver |-> 0, tag |-> 0, sync |-> "1"]]
             new == [i \in Items |-> NoRow]
  <1>1. start \in Database /\ new \in Database
      BY NoRowIsRow DEF Database, Row, Syncs
  <1>2. phone \in {start, new} /\ server = start /\ tree = Flags(start)
      BY DEF Init
  <1>3. phone \in File /\ interm \in File /\ server \in Database
      BY <1>1, <1>2, FileTypes DEF Init
  <1>4. tree \in [Items -> Syncs]
      BY <1>1, <1>2, FlagsType
  <1>5. work \in [Items -> Nat] /\ held \in [Items -> SUBSET Nat] /\ chunks \in Seq(SUBSET Items)
      BY DEF Init
  <1>6. /\ backups \in SUBSET File /\ pc \in Steps /\ picked \in SUBSET Items
        /\ marks \in SUBSET Items /\ wanted \in SUBSET Items /\ ghosts \in SUBSET Items
        /\ dir \in {"to_pc", "to_phone"} /\ radio \in {"user", "devices"}
        /\ scope \in {"areas", "devices"}
      BY DEF Init, Steps
  <1>7. /\ dbEvent \in BOOLEAN /\ handle \in BOOLEAN /\ ok \in BOOLEAN /\ regime \in Regimes
        /\ edits \in Nat /\ sessions \in Nat /\ ChunkLeft
      BY DEF Init, ChunkLeft, Handlers
  <1> QED BY <1>3, <1>4, <1>5, <1>6, <1>7 DEF TypeInv, TypeOK

LEMMA TypeStart ==
  ASSUME TypeInv,
         Refresh \/ (\E d \in {"to_pc", "to_phone"}, r \in {"user", "devices"} : Click(d, r))
         \/ ClickBusy \/ Fetch \/ Connect
  PROVE  TypeInv'
  <1> USE DEF TypeInv, ChunkLeft, Handlers, files, sqlite, choice, session, history
  <1>1. CASE Refresh
      BY <1>1, FlagsType DEF Refresh, TypeOK
  <1>2. CASE \E d \in {"to_pc", "to_phone"}, r \in {"user", "devices"} : Click(d, r)
      BY <1>2 DEF Click, TypeOK, Steps
  <1>3. CASE ClickBusy
    <2>1. dir' \in {"to_pc", "to_phone"} /\ radio' \in {"user", "devices"}
        BY <1>3 DEF ClickBusy, TypeOK
    <2> QED BY <1>3, <2>1 DEF ClickBusy, TypeOK
  <1>4. CASE Fetch
    <2>1. interm' \in File
        BY <1>4, FileTypes DEF Fetch, TypeOK
    <2>2. backups' \in SUBSET File /\ pc' \in Steps /\ pc' \notin Handlers /\ ok' \in BOOLEAN
        BY <1>4, <2>1 DEF Fetch, TypeOK, Return, Steps
    <2> QED BY <1>4, <2>1, <2>2 DEF Fetch, TypeOK
  <1>5. CASE Connect
    <2>1. pc' \in Steps /\ pc' \notin Handlers /\ ok' \in BOOLEAN
        BY <1>5 DEF Connect, Return, Steps
    <2>2. ghosts' \in SUBSET Items
        BY <1>5 DEF Connect
    <2> QED BY <1>5, <2>1, <2>2 DEF Connect, TypeOK
  <1> QED BY <1>1, <1>2, <1>3, <1>4, <1>5

LEMMA TypeDeletions == ASSUME TypeInv, Deletions PROVE TypeInv'
  <1> USE DEF TypeInv, ChunkLeft, Handlers, files, sqlite, choice, session, history
  <1>1. CASE DropDevices
    <2> DEFINE doomed == Leaving \cap Of("device")
               rest == IF IsDB(interm) THEN Drop(interm, doomed) ELSE interm
    <2>0. IsDB(interm) => interm \in Database
        BY DatabaseFile DEF TypeOK
    <2>1. IsDB(interm) => rest \in Database /\ \A T : Drop(rest, T) \in File
        BY <2>0, DropType, FileTypes
    <2>2. interm' \in File /\ handle' \in BOOLEAN
      <3>1. CASE interm' = interm
          BY <1>1, <3>1 DEF DropDevices, TypeOK
      <3>2. CASE TRUE \in SqliteOutcomes(TRUE) /\ interm' = Drop(rest, Orphans(rest)) /\ UNCHANGED handle
          BY <2>1, <3>2, SqliteNeedsDB DEF TypeOK
      <3>3. CASE IsDB(interm) /\ (\E T \in SUBSET Orphans(rest) : interm' = Drop(rest, T)) /\ UNCHANGED handle
          BY <2>1, <3>3 DEF TypeOK
      <3> QED BY <1>1, <3>1, <3>2, <3>3 DEF DropDevices
    <2>3. pc' \in {"users", "drop_areas", "purge_devices"} /\ dbEvent' \in BOOLEAN
        BY <1>1 DEF DropDevices, TypeOK
    <2> QED BY <1>1, <2>2, <2>3 DEF DropDevices, TypeOK, Steps
  <1>2. ASSUME NEW S, NEW next \in Steps \ Handlers, Purge(next, S),
               dbEvent' \in BOOLEAN, handle' \in BOOLEAN
        PROVE  TypeInv'
      BY <1>2, DropType DEF Purge, TypeOK
  <1>3. CASE PurgeDevices
      BY <1>2, <1>3 DEF PurgeDevices, TypeOK, Steps
  <1>4. CASE PurgeOrphans
      BY <1>2, <1>4 DEF PurgeOrphans, TypeOK, Steps
  <1>5. CASE DropAreas
    <2>0. IsDB(interm) => interm \in Database
        BY DatabaseFile DEF TypeOK
    <2>1. IsDB(interm) => \A T : Drop(interm, T) \in File
        BY <2>0, DropType, FileTypes
    <2>2. interm' \in File /\ handle' \in BOOLEAN
        BY <1>5, <2>1, SqliteNeedsDB DEF DropAreas, TypeOK
    <2>3. pc' \in {"drop_users", "purge_areas"}
        BY <1>5 DEF DropAreas
    <2> QED BY <1>5, <2>2, <2>3 DEF DropAreas, TypeOK, Steps
  <1>6. CASE PurgeAreas
      BY <1>2, <1>6 DEF PurgeAreas, TypeOK, Steps
  <1>7. CASE DropUsers
    <2>0. IsDB(interm) => interm \in Database
        BY DatabaseFile DEF TypeOK
    <2>1. IsDB(interm) => \A T : Drop(interm, T) \in File
        BY <2>0, DropType, FileTypes
    <2>2. interm' \in File
        BY <1>7, <2>1, SqliteNeedsDB DEF DropUsers, TypeOK
    <2> QED BY <1>7, <2>2 DEF DropUsers, TypeOK, Steps
  <1>8. CASE PurgeUsers
      BY <1>2, <1>8 DEF PurgeUsers, TypeOK, Steps
  <1> QED BY <1>1, <1>3, <1>4, <1>5, <1>6, <1>7, <1>8 DEF Deletions

\* What a statement may make of the intermediate file is a file.
LEMMA InterimTypes ==
  ASSUME TypeOK
  PROVE  /\ IsDB(interm) => \A S : Drop(interm, S) \in File
         /\ IsDB(interm) => \A S : Put(interm, server, S) \in File
         /\ IsDB(interm) => \A S : Put(interm, Synced(server), S) \in File
         /\ IsDB(interm) => \A S : Put(interm, Synced(interm), S) \in File
         /\ Touched \in File
  <1>1. IsDB(interm) => interm \in Database
      BY DatabaseFile DEF TypeOK
  <1>2. server \in Database
      BY DEF TypeOK
  <1> QED BY <1>1, <1>2, DropType, PutType, SyncedType, FileTypes DEF Touched, TypeOK

LEMMA DropOldType ==
  ASSUME TypeInv, Len(chunks) > 0, NEW old,
         NEW step \in Handlers, NEW last \in {"user_marks", "device_marks"},
         DropOld(old, step, last)
  PROVE  TypeInv'
  <1>1. interm' \in File /\ ok' \in BOOLEAN
      BY InterimTypes, SqliteNeedsDB DEF DropOld, TypeInv, TypeOK, Outcomes
  <1>2. chunks' \in Seq(SUBSET Items) /\ pc' \in Steps /\ ChunkLeft'
      BY NextChunkType DEF DropOld, TypeInv
  <1> QED BY <1>1, <1>2 DEF DropOld, TypeInv, TypeOK, choice, history

LEMMA TypeUsers == ASSUME TypeInv, UserSession PROVE TypeInv'
  <1> USE DEF TypeInv, files, sqlite, choice, history
  <1>1. CASE Users
    <2>1. CASE pc' = "devices" /\ UNCHANGED <<ok, chunks, marks, wanted>>
        BY <1>1, <2>1 DEF Users, TypeOK, ChunkLeft, Steps, Handlers
    <2>2. CASE Return(FALSE) /\ UNCHANGED <<chunks, marks, wanted>>
        BY <1>1, <2>2 DEF Users, Return, TypeOK, ChunkLeft, Steps, Handlers
    <2>3. CASE pc' = "user"
      <3>1. PICK i \in Shown \cap Of("area") :
              chunks' \in Cuts(Branch(i, "area")) /\ wanted' = Branch(i, "area")
          BY <1>1, <2>3 DEF Users, Return
      <3>2. Branch(i, "area") # {} /\ Branch(i, "area") \in SUBSET Items
          BY BranchHasItem
      <3>3. chunks' \in Seq(SUBSET Items) /\ Len(chunks') > 0
          BY <3>1, <3>2, CutsType
      <3>4. marks' = {} /\ UNCHANGED ok
          BY <1>1, <2>3 DEF Users, Return
      <3> QED BY <1>1, <2>3, <3>1, <3>2, <3>3, <3>4 DEF Users, TypeOK, ChunkLeft, Steps
    <2> QED BY <1>1, <2>1, <2>2, <2>3 DEF Users
  <1>2. CASE UserFetch
    <2>0. Len(chunks) > 0 /\ \A areas : Current(areas) \subseteq Items
        BY <1>2, OfItems DEF UserFetch, ChunkLeft, Handlers, Current, UsersOf
    <2>1. interm' \in File /\ marks' \in SUBSET Items /\ ok' \in BOOLEAN
          /\ dbEvent' \in BOOLEAN /\ handle' \in BOOLEAN
        BY <1>2, <2>0, InterimTypes, SqliteNeedsDB DEF UserFetch, TypeOK, Outcomes
    <2>2. chunks' \in Seq(SUBSET Items) /\ pc' \in Steps /\ ChunkLeft'
      <3>1. CASE NextChunk("user", "user_marks")
          BY <2>0, <3>1, NextChunkType DEF Handlers
      <3>2. CASE pc' = "user_drop" /\ UNCHANGED chunks
          BY <2>0, <3>2 DEF TypeOK, ChunkLeft, Steps
      <3> QED BY <1>2, <3>1, <3>2 DEF UserFetch
    <2> QED BY <1>2, <2>1, <2>2 DEF UserFetch, TypeOK
  <1>3. CASE UserDrop
      BY <1>3, DropOldType DEF UserDrop, ChunkLeft, Handlers
  <1> QED BY <1>1, <1>2, <1>3 DEF UserSession

LEMMA BoundType ==
  ASSUME TypeOK, IsDB(interm), NEW S, Bound(S)
  PROVE  server' \in Database /\ held' \in [Items -> SUBSET Nat]
  <1>1. interm \in Database /\ server \in Database
      BY DatabaseFile DEF TypeOK
  <1>2. \A d \in Items : interm[d] \in Row /\ server[d] \in Row /\ interm[d].tag \in Nat
      BY <1>1 DEF Database, Row
  <1>3. \A d \in Items : [server[d] EXCEPT !.tag = interm[d].tag] \in Row
      BY <1>2 DEF Row
  <1>4. server' \in Database
      BY <1>2, <1>3 DEF Bound, Database
  <1> QED BY <1>2, <1>4 DEF Bound, TypeOK

LEMMA TypeDevices == ASSUME TypeInv, DeviceSession PROVE TypeInv'
  <1> USE DEF TypeInv, files, sqlite, choice, history
  <1>0. \A db, s : InChunk(db, s) \in SUBSET Items
      BY OfItems DEF InChunk
  <1>1. CASE Devices
      BY <1>1 DEF Devices, TypeOK, ChunkLeft, Steps, Handlers
  <1>2. CASE AreasPut
    <2>1. interm' \in File /\ dbEvent' \in BOOLEAN /\ handle' \in BOOLEAN
        BY <1>2, InterimTypes, SqliteNeedsDB DEF AreasPut, TypeOK
    <2>2. pc' \in {"choose", "areas_drop"}
        BY <1>2 DEF AreasPut
    <2> QED BY <1>2, <2>1, <2>2 DEF AreasPut, TypeOK, ChunkLeft, Steps, Handlers
  <1>3. CASE AreasDrop
    <2>1. interm' \in File
        BY <1>3, InterimTypes, SqliteNeedsDB DEF AreasDrop, TypeOK
    <2> QED BY <1>3, <2>1 DEF AreasDrop, TypeOK, ChunkLeft, Steps, Handlers
  <1>4. CASE Choose
    <2>1. CASE pc' = "finish" /\ UNCHANGED <<scope, chunks, marks>>
        BY <1>4, <2>1 DEF Choose, TypeOK, ChunkLeft, Steps, Handlers
    <2>2. CASE pc' = "device"
      <3>1. PICK i \in Shown :
              /\ chunks' \in Cuts(Branch(i, Kind[i]))
              /\ scope' = IF Kind[i] = "area" THEN "areas" ELSE "devices"
          BY <1>4, <2>2 DEF Choose
      <3>2. i \in Of(Kind[i])
          BY DEF Shown, Below, TreeItems, Of
      <3>3. Branch(i, Kind[i]) # {} /\ Branch(i, Kind[i]) \in SUBSET Items
          BY <3>2, BranchHasItem
      <3>4. chunks' \in Seq(SUBSET Items) /\ Len(chunks') > 0
          BY <3>1, <3>3, CutsType
      <3>5. marks' = {} /\ scope' \in {"areas", "devices"}
          BY <1>4, <2>2, <3>1 DEF Choose
      <3> QED BY <1>4, <2>2, <3>4, <3>5 DEF Choose, TypeOK, ChunkLeft, Steps
    <2> QED BY <1>4, <2>1, <2>2 DEF Choose
  <1>5. CASE DevicePush
    <2>0. Len(chunks) > 0 /\ interm' \in File
        BY <1>5, InterimTypes DEF DevicePush, ChunkLeft, Handlers
    <2>1. CASE pc' = "device_ack" /\ IsDB(interm) /\ UNCHANGED <<handle, chunks>>
               /\ \E S \in {InChunk(interm, "0")} \cup (IF May("sqlite") THEN {{}} ELSE {}) :
                    \E u \in UpdateMysqlDB(S) :
                      /\ Bound(u.done)
                      /\ picked' = IF u.ret THEN S ELSE {}
                      /\ ok' = (ok /\ u.ret)
      <3>1. server' \in Database /\ held' \in [Items -> SUBSET Nat]
          BY <2>1, BoundType
      <3>2. picked' \in SUBSET Items /\ ok' \in BOOLEAN
          BY <1>0, <2>1, UpdateMysqlDBType DEF TypeOK
      <3> QED BY <1>5, <2>0, <2>1, <3>1, <3>2 DEF DevicePush, TypeOK, ChunkLeft, Steps
    <2>2. CASE /\ picked' = {} /\ ok' = FALSE /\ handle' = FALSE
               /\ pc' = "device_ack" /\ UNCHANGED <<chunks, server, held>>
        BY <1>5, <2>0, <2>2 DEF DevicePush, TypeOK, ChunkLeft, Steps
    <2>3. CASE /\ picked' = {} /\ ok' = FALSE /\ handle' = FALSE
               /\ NextChunk("device", "device_marks") /\ UNCHANGED <<server, held>>
      <3>1. chunks' \in Seq(SUBSET Items) /\ pc' \in Steps /\ ChunkLeft'
          BY <2>0, <2>3, NextChunkType DEF Handlers
      <3> QED BY <1>5, <2>0, <2>3, <3>1 DEF DevicePush, TypeOK
    <2> QED BY <1>5, <2>1, <2>2, <2>3 DEF DevicePush
  <1>6. CASE DeviceAck
    <2>0. Len(chunks) > 0
        BY <1>6 DEF DeviceAck, ChunkLeft, Handlers
    <2>1. interm' \in File /\ ok' \in BOOLEAN
        BY <1>6, InterimTypes, SqliteNeedsDB DEF DeviceAck, TypeOK
    <2>2. chunks' \in Seq(SUBSET Items) /\ pc' \in Steps /\ ChunkLeft'
        BY <1>6, <2>0, NextChunkType DEF DeviceAck, Handlers
    <2> QED BY <1>6, <2>1, <2>2 DEF DeviceAck, TypeOK
  <1>7. CASE DeviceFetch
    <2>1. interm' \in File /\ marks' \in SUBSET Items /\ ok' \in BOOLEAN /\ handle' \in BOOLEAN
        BY <1>0, <1>7, InterimTypes, SqliteNeedsDB DEF DeviceFetch, TypeOK, Outcomes
    <2> QED BY <1>7, <2>1 DEF DeviceFetch, TypeOK, ChunkLeft, Steps, Handlers
  <1>8. CASE DeviceDrop
      BY <1>8, DropOldType DEF DeviceDrop, ChunkLeft, Handlers
  <1> QED BY <1>1, <1>2, <1>3, <1>4, <1>5, <1>6, <1>7, <1>8 DEF DeviceSession

LEMMA TypeEnd ==
  ASSUME TypeInv, Marks \/ Finish \/ Erase \/ Send \/ Crash
  PROVE  TypeInv'
  <1> USE DEF TypeInv, ChunkLeft, Handlers, files, sqlite, choice, history
  <1>1. CASE Marks
    <2>1. server' \in Database /\ ok' \in BOOLEAN
        BY <1>1, PutType, SyncedType, UpdateMysqlDBType DEF Marks, TypeOK
    <2> QED BY <1>1, <2>1 DEF Marks, TypeOK, Steps
  <1>2. CASE Finish
      BY <1>2 DEF Finish, Return, TypeOK, Steps
  <1>3. CASE Erase
      BY <1>3, FileTypes DEF Erase, TypeOK, Steps
  <1>4. CASE Send
    <2>1. phone' \in File /\ interm' \in File /\ pc' = "idle" /\ ok' \in BOOLEAN
        BY <1>4, FileTypes DEF Send, Return, TypeOK
    <2> QED BY <1>4, <2>1 DEF Send, TypeOK, Steps
  <1>5. CASE Crash
    <2>1. tree' \in [Items -> Syncs]
        BY <1>5, FlagsType DEF Crash, TypeOK
    <2>2. pc' = "idle" /\ pc' \in Steps /\ ok' \in BOOLEAN
        BY <1>5 DEF Crash, Return, Steps
    <2>6. chunks' = <<>> /\ chunks' \in Seq(SUBSET Items)
        BY <1>5 DEF Crash
    <2>3. ChunkLeft'
        BY <2>2
    <2>4. picked' \in SUBSET Items /\ marks' \in SUBSET Items /\ wanted' \in SUBSET Items
          /\ dbEvent' \in BOOLEAN /\ handle' \in BOOLEAN
        BY <1>5 DEF Crash
    <2> HIDE DEF ChunkLeft
    <2>5. TypeOK'
        BY <1>5, <2>1, <2>2, <2>4, <2>6 DEF Crash, TypeOK
    <2> QED BY <2>3, <2>5
  <1> QED BY <1>1, <1>2, <1>3, <1>4, <1>5

LEMMA TypeEditors == ASSUME TypeInv, Editors PROVE TypeInv'
  <1> USE DEF TypeInv, ChunkLeft, files, sqlite, choice, session, history
  <1>1. PICK i \in Items : PhoneEdit(i) \/ WebEdit(i) \/ \E s \in {"2", "3"} : WebDelete(i, s)
      BY DEF Editors
  <1>2. edits \in Nat /\ edits + 1 \in Nat /\ server \in Database /\ server[i] \in Row
      BY DEF TypeOK, Database
  <1>3. CASE PhoneEdit(i)
    <2>1. phone \in Database /\ phone[i] \in Row
        BY <1>3, DatabaseFile DEF PhoneEdit, TypeOK, Database
    <2>2. phone' \in Database
        BY <1>2, <1>3, <2>1 DEF PhoneEdit, Database, Row, Syncs
    <2> QED BY <1>2, <1>3, <2>2, FileTypes DEF PhoneEdit, TypeOK
  <1>4. CASE WebEdit(i)
    <2>1. server' \in Database
        BY <1>2, <1>4 DEF WebEdit, Database, Row, Syncs
    <2> QED BY <1>2, <1>4, <2>1 DEF WebEdit, TypeOK
  <1>5. ASSUME NEW s \in {"2", "3"}, WebDelete(i, s) PROVE TypeInv'
    <2>1. server' \in Database
        BY <1>2, <1>5 DEF WebDelete, Database, Row, Syncs
    <2> QED BY <1>2, <1>5, <2>1 DEF WebDelete, TypeOK
  <1> QED BY <1>1, <1>3, <1>4, <1>5

LEMMA TypeStep == TypeInv /\ [Next]_vars => TypeInv'
  <1> SUFFICES ASSUME TypeInv, [Next]_vars PROVE TypeInv'
      OBVIOUS
  <1>1. CASE Session
      BY <1>1, TypeStart, TypeDeletions, TypeUsers, TypeDevices, TypeEnd DEF Session
  <1>2. CASE User
      BY <1>2, TypeStart DEF User
  <1>3. CASE Crash
      BY <1>3, TypeEnd
  <1>4. CASE Editors
      BY <1>4, TypeEditors
  <1>5. CASE UNCHANGED vars
      BY <1>5 DEF vars, files, sqlite, choice, session, history, TypeInv, TypeOK, ChunkLeft
  <1> QED BY <1>1, <1>2, <1>3, <1>4, <1>5 DEF Next

\* The files, the server's tables and the session thread's state keep their
\* types, and a handler that runs has a chunk to run for (4075-4088).
THEOREM TypeCorrect == Spec => []TypeOK
  <1>1. Init => TypeInv
      BY TypeInit
  <1>2. TypeInv /\ [Next]_vars => TypeInv'
      BY TypeStep
  <1>3. TypeInv => TypeOK
      BY DEF TypeInv
  <1> QED BY <1>1, <1>2, <1>3, PTL DEF Spec

-----------------------------------------------------------------------------
(* What steps leave alone.                                                 *)

\* Versions the server has held stay held, and what it lost stays lost.
LEMMA HeldGrows ==
  ASSUME TypeInv, [Next]_vars, NEW i \in Items
  PROVE  held[i] \subseteq held'[i] /\ (Has(server', i) => Has(server, i))
  <1> USE DEF files, sqlite, choice, session, history
  <1>0. server \in Database /\ server[i] \in Row /\ held \in [Items -> SUBSET Nat]
      BY DEF TypeInv, TypeOK, Database
  <1>1. \A S : Has(Drop(server, S), i) => Has(server, i)
      BY <1>0, DropHas
  <1>2. \A S : Has(Put(server, Synced(server), S), i) => Has(server, i)
      BY <1>0, SyncedHas
  <1>3. CASE PurgeDevices \/ PurgeOrphans \/ PurgeAreas \/ PurgeUsers
      BY <1>1, <1>3 DEF PurgeDevices, PurgeOrphans, PurgeAreas, PurgeUsers, Purge
  <1>4. CASE Marks
      BY <1>2, <1>4 DEF Marks
  <1>5. CASE DevicePush
    <2>1. CASE UNCHANGED <<server, held>>
        BY <1>5, <2>1 DEF DevicePush
    <2>2. CASE \E S : Bound(S)
        BY <1>0, <1>5, <2>2 DEF Bound, Has, Row, DevicePush
    <2> QED BY <1>5, <2>1, <2>2 DEF DevicePush
  <1>6. CASE Editors
    <2>1. PICK j \in Items : PhoneEdit(j) \/ WebEdit(j) \/ \E s \in {"2", "3"} : WebDelete(j, s)
        BY <1>6 DEF Editors
    <2> QED BY <1>0, <2>1 DEF PhoneEdit, WebEdit, WebDelete, Has, Database, Row
  <1>7. CASE UNCHANGED <<server, held>>
      BY <1>7
  <1>8. Next => \/ PurgeDevices \/ PurgeOrphans \/ PurgeAreas \/ PurgeUsers \/ Marks \/ DevicePush
                \/ Editors \/ UNCHANGED <<server, held>>
      BY DEF Next, Session, Fetch, Connect, Deletions, DropDevices, DropAreas, DropUsers,
         UserSession, Users, UserFetch, UserDrop, DropOld, DeviceSession, Devices, AreasPut,
         AreasDrop, Choose, DeviceAck, DeviceFetch, DeviceDrop, Finish, Erase, Send,
         User, Click, ClickBusy, Refresh, Crash
  <1> QED BY <1>3, <1>4, <1>5, <1>6, <1>7, <1>8 DEF vars

\* Few steps change a file that counts, or what the workers wrote.
LEMMA FilesStay ==
  ASSUME [Next]_vars
  PROVE  \/ Fetch \/ Erase \/ Send \/ \E i \in Items : PhoneEdit(i)
         \/ UNCHANGED <<phone, backups, work>> /\ (pc \in {"idle", "fetch"} => pc' \in {"idle", "fetch"})
  BY DEF Next, Session, Connect, Deletions, DropDevices, PurgeDevices, PurgeOrphans, DropAreas,
     PurgeAreas, Purge, DropUsers, PurgeUsers, UserSession, Users, UserFetch, UserDrop, DropOld,
     DeviceSession, Devices, AreasPut, AreasDrop, Choose, DevicePush, DeviceAck, DeviceFetch,
     DeviceDrop, Marks, Finish, Return, NextChunk, User, Click, ClickBusy, Refresh, Crash, Editors,
     WebEdit, WebDelete, vars, files, session, history, sqlite, choice

LEMMA RegimeStays == [Next]_vars => UNCHANGED regime
  BY DEF Next, Session, Fetch, Connect, Deletions, DropDevices, PurgeDevices, PurgeOrphans,
     DropAreas, PurgeAreas, Purge, DropUsers, PurgeUsers, UserSession, Users, UserFetch, UserDrop,
     DropOld, DeviceSession, Devices, AreasPut, AreasDrop, Choose, DevicePush, DeviceAck,
     DeviceFetch, DeviceDrop, Marks, Finish, Erase, Send, User, Click, ClickBusy, Refresh, Crash,
     Editors, PhoneEdit, WebEdit, WebDelete, vars

-----------------------------------------------------------------------------
(* What a step makes of the intermediate file and of the server's flags.   *)

InterimMoves ==
  \/ interm' = interm
  \/ interm' \in {NoFile, Corrupt} /\ (Fetch \/ Send \/ ~IsDB(interm))
  \/ Fetch /\ interm' = phone
  \/ IsDB(interm) /\ \E S \in SUBSET Items :
       /\ interm' = Drop(interm, S)
       /\ \/ S \cap Of("area") = {}
            /\ \/ DropDevices \/ DropUsers
               \/ UserDrop /\ \A u \in S : server[u].sync = "2"
               \/ DeviceDrop /\ S \subseteq Of("device")
          \/ DropAreas /\ S \cap Of("area") \subseteq Leaving
          \/ AreasDrop /\ S = {a \in Of("area") : server[a].sync = "2"}
  \/ IsDB(interm) /\ \E S \in SUBSET Items :
       \/ UserFetch /\ S = Current(Head(chunks)) /\ interm' = Put(interm, server, S)
       \/ AreasPut /\ S = {a \in Shown \cap Of("area") : Has(server, a)}
            /\ interm' = Put(interm, Synced(server), S)
       \/ DeviceAck /\ interm' = Put(interm, Synced(interm), S)
       \/ DeviceFetch /\ dir = "to_phone" /\ S = InChunk(server, "0")
            /\ interm' = Put(interm, Synced(server), S)

LEMMA Moves == ASSUME TypeInv, [Next]_vars PROVE InterimMoves
  <1> USE DEF files, sqlite, choice, session, history
  <1>0. /\ IsDB(interm) => interm \in Database
        /\ Touched = interm \/ (Touched = Corrupt /\ ~IsDB(interm))
        /\ handle \in BOOLEAN
      BY DatabaseFile DEF Touched, IsDB, TypeInv, TypeOK
  <1>1. CASE Fetch
      BY <1>1 DEF Fetch, InterimMoves
  <1>2. CASE DropDevices
    <2> DEFINE doomed == Leaving \cap Of("device")
               rest == IF IsDB(interm) THEN Drop(interm, doomed) ELSE interm
    <2>1. \A T : Drop(Drop(interm, doomed), T) = Drop(interm, doomed \cup T)
        BY DEF Drop
    <2>2. \/ interm' = interm
          \/ IsDB(interm) /\ \E T \in SUBSET Orphans(rest) : interm' = Drop(rest, T)
        BY <1>2, SqliteNeedsDB DEF DropDevices
    <2>3. doomed \subseteq Items /\ doomed \cap Of("area") = {}
          /\ Orphans(rest) \subseteq Items /\ Orphans(rest) \cap Of("area") = {}
        BY DEF Of, Orphans
    <2> HIDE DEF doomed
    <2>4. \/ interm' = interm
          \/ IsDB(interm) /\ \E T \in SUBSET Orphans(rest) : interm' = Drop(interm, doomed \cup T)
        BY <2>1, <2>2
    <2> HIDE DEF rest
    <2>5. ASSUME IsDB(interm), NEW T \in SUBSET Orphans(rest), interm' = Drop(interm, doomed \cup T)
          PROVE  InterimMoves
      <3>1. doomed \cup T \in SUBSET Items /\ (doomed \cup T) \cap Of("area") = {}
          BY <2>3
      <3> QED BY <1>2, <2>5, <3>1 DEF InterimMoves
    <2> QED BY <2>4, <2>5 DEF InterimMoves
  <1>3. CASE DropAreas
    <2> DEFINE doomed == Leaving \cap Of("area")
    <2>1. \/ interm' = interm
          \/ IsDB(interm) /\ interm' = Drop(interm, doomed \cup UsersOf(doomed))
          \/ IsDB(interm) /\ interm' = Drop(interm, doomed)
        BY <1>0, <1>3, SqliteNeedsDB DEF DropAreas
    <2>2. doomed \subseteq Items /\ UsersOf(doomed) \subseteq Items
          /\ UsersOf(doomed) \cap Of("area") = {} /\ doomed \subseteq Leaving
        BY DEF Of, UsersOf
    <2> HIDE DEF doomed
    <2> QED BY <1>3, <2>1, <2>2 DEF InterimMoves
  <1>4. CASE DropUsers \/ UserDrop \/ DeviceDrop
    <2>1. \/ interm' = interm
          \/ \E S \in SUBSET (Of("user") \cup Of("device")) :
               /\ IsDB(interm) /\ interm' = Drop(interm, S)
               /\ \/ DropUsers
                  \/ UserDrop /\ \A u \in S : server[u].sync = "2"
                  \/ DeviceDrop /\ S \subseteq Of("device")
      <3>1. CASE DropUsers
          BY <1>0, <3>1, SqliteNeedsDB DEF DropUsers
      <3>2. CASE UserDrop
          BY <1>0, <3>2, SqliteNeedsDB DEF UserDrop, DropOld, UsersOf
      <3>3. CASE DeviceDrop
          BY <1>0, <3>3, SqliteNeedsDB DEF DeviceDrop, DropOld, InChunk
      <3> QED BY <1>4, <3>1, <3>2, <3>3
    <2>2. (Of("user") \cup Of("device")) \cap Of("area") = {}
        BY DEF Of
    <2> QED BY <2>1, <2>2, OfItems DEF InterimMoves
  <1>5. CASE AreasDrop
    <2> DEFINE old == {a \in Of("area") : server[a].sync = "2"}
    <2>1. interm' = interm \/ (IsDB(interm) /\ interm' = Drop(interm, old))
        BY <1>0, <1>5, SqliteNeedsDB DEF AreasDrop
    <2>2. old \in SUBSET Items
        BY OfItems
    <2> QED BY <1>5, <2>1, <2>2 DEF InterimMoves
  <1>6. CASE UserFetch
    <2> DEFINE new == Current(Head(chunks))
    <2>1. interm' = interm \/ (IsDB(interm) /\ interm' = Put(interm, server, new))
      <3> HIDE DEF new
      <3>1. CASE interm # NoFile
        <4>1. PICK select \in Outcomes("mysql"), insert \in SqliteOutcomes(TRUE) :
                interm' = IF (IF select THEN new ELSE {}) # {} /\ insert
                          THEN Put(interm, server, IF select THEN new ELSE {}) ELSE interm
            BY <1>6, <3>1 DEF UserFetch, new
        <4>2. insert \in BOOLEAN /\ (insert => IsDB(interm))
            BY SqliteNeedsDB
        <4> QED BY <4>1, <4>2
      <3> QED BY <1>6, <3>1 DEF UserFetch
    <2>2. new \in SUBSET Items
        BY OfItems DEF Current, UsersOf
    <2> HIDE DEF new
    <2> QED BY <1>6, <2>1, <2>2 DEF InterimMoves, new
  <1>7. CASE AreasPut
    <2> DEFINE new == {a \in Shown \cap Of("area") : Has(server, a)}
    <2>1. interm' \in {interm, Touched} \/ (IsDB(interm) /\ interm' = Put(interm, Synced(server), new))
      <3> HIDE DEF new
      <3>1. CASE dir # "to_pc"
        <4>1. PICK select \in Outcomes("mysql"), insert \in SqliteOutcomes(TRUE) :
                interm' = IF (IF select THEN new ELSE {}) # {} /\ insert
                          THEN Put(interm, Synced(server), IF select THEN new ELSE {}) ELSE Touched
            BY <1>7, <3>1 DEF AreasPut, new
        <4>2. insert \in BOOLEAN /\ (insert => IsDB(interm))
            BY SqliteNeedsDB
        <4> QED BY <4>1, <4>2
      <3> QED BY <1>7, <3>1 DEF AreasPut
    <2>2. new \in SUBSET Items
        BY OfItems
    <2> HIDE DEF new
    <2> QED BY <1>0, <1>7, <2>1, <2>2 DEF InterimMoves, new
  <1>8. CASE DevicePush
      BY <1>0, <1>8 DEF DevicePush, InterimMoves
  <1>9. CASE DeviceAck
    <2>1. interm' = interm \/ (IsDB(interm) /\ interm' = Put(interm, Synced(interm), picked))
        BY <1>0, <1>9, SqliteNeedsDB DEF DeviceAck
    <2> QED BY <1>9, <2>1 DEF InterimMoves, TypeInv, TypeOK
  <1>10. CASE DeviceFetch
    <2> DEFINE new == InChunk(server, "0")
    <2>1. interm' = Touched \/ (IsDB(interm) /\ interm' = Put(interm, Synced(server), new))
      <3> HIDE DEF new
      <3>1. PICK select \in Outcomes("mysql"), insert \in SqliteOutcomes(TRUE) :
              interm' = IF (IF select THEN new ELSE {}) # {} /\ insert
                        THEN Put(interm, Synced(server), IF select THEN new ELSE {}) ELSE Touched
          BY <1>10 DEF DeviceFetch, new
      <3>2. insert \in BOOLEAN /\ (insert => IsDB(interm))
          BY SqliteNeedsDB
      <3> QED BY <3>1, <3>2
    <2>2. new \in SUBSET Items /\ dir = "to_phone"
        BY <1>10, OfItems DEF InChunk, DeviceFetch
    <2> HIDE DEF new
    <2> QED BY <1>0, <1>10, <2>1, <2>2 DEF InterimMoves, new
  <1>11. CASE Send
      BY <1>11 DEF Send, InterimMoves
  <1>12. CASE interm' = interm
      BY <1>12 DEF InterimMoves
  <1>13. Next => \/ Fetch \/ DropDevices \/ DropAreas \/ DropUsers \/ AreasDrop \/ UserDrop
                 \/ DeviceDrop \/ UserFetch \/ AreasPut \/ DevicePush \/ DeviceAck \/ DeviceFetch
                 \/ Send \/ interm' = interm
      BY DEF Next, Session, Connect, Deletions, PurgeDevices, PurgeOrphans, PurgeAreas, Purge,
         PurgeUsers, UserSession, Users, DeviceSession, Devices, Choose, Marks, Finish, Erase,
         User, Click, ClickBusy, Refresh, Crash, Editors, PhoneEdit, WebEdit, WebDelete
  <1> QED BY <1>1, <1>2, <1>3, <1>4, <1>5, <1>6, <1>7, <1>8, <1>9, <1>10, <1>11, <1>12, <1>13 DEF vars

\* While a session runs and nobody edits, the server's flags are only settled.
LEMMA FlagsSettle ==
  ASSUME TypeInv, [Next]_vars, ~May("web_edit"), pc # "idle", NEW i \in Items
  PROVE  server'[i].sync \in {server[i].sync, "1", "none"} /\ (server'[i].sync # "none" => server'[i].ver = server[i].ver)
  <1> USE DEF files, sqlite, choice, session, history
  <1>0. server \in Database /\ server[i] \in Row
      BY DEF TypeInv, TypeOK, Database
  <1>1. CASE PurgeDevices \/ PurgeOrphans \/ PurgeAreas \/ PurgeUsers
    <2>1. PICK S : server' = Drop(server, S)
        BY <1>1 DEF PurgeDevices, PurgeOrphans, PurgeAreas, PurgeUsers, Purge
    <2> QED BY <2>1 DEF Drop, NoRow
  <1>2. CASE Marks
    <2>1. PICK S : server' = Put(server, Synced(server), S)
        BY <1>2 DEF Marks
    <2> QED BY <1>0, <2>1 DEF Put, Synced, Row
  <1>3. CASE DevicePush
    <2>1. CASE UNCHANGED <<server, held>>
        BY <2>1
    <2>2. ASSUME NEW S, Bound(S)
          PROVE  server'[i].sync = server[i].sync /\ server'[i].ver = server[i].ver
        BY <1>0, <2>2 DEF Bound, Row
    <2> QED BY <1>3, <2>1, <2>2 DEF DevicePush
  <1>4. CASE server' = server
      BY <1>4
  <1>5. Next => \/ PurgeDevices \/ PurgeOrphans \/ PurgeAreas \/ PurgeUsers \/ Marks \/ DevicePush
                \/ server' = server
      BY DEF Next, Session, Fetch, Connect, Deletions, DropDevices, DropAreas, DropUsers,
         UserSession, Users, UserFetch, UserDrop, DropOld, DeviceSession, Devices, AreasPut,
         AreasDrop, Choose, DeviceAck, DeviceFetch, DeviceDrop, Finish, Erase, Send,
         User, Click, ClickBusy, Refresh, Crash, Editors, PhoneEdit, WebEdit, WebDelete, May
  <1> QED BY <1>1, <1>2, <1>3, <1>4, <1>5 DEF vars

\* The ids in the chunks still to be synchronised.
Left(q) == UNION {q[m] : m \in DOMAIN q}

LEMMA LeftTail ==
  ASSUME NEW q \in Seq(SUBSET Items), Len(q) > 0 PROVE Left(q) = Head(q) \cup Left(Tail(q))
  <1>1. /\ Len(q) \in Nat /\ DOMAIN q = 1..Len(q) /\ Head(q) = q[1]
        /\ DOMAIN Tail(q) = 1..(Len(q) - 1) /\ \A m \in 1..(Len(q) - 1) : Tail(q)[m] = q[m + 1]
      BY HeadTailProperties, LenProperties
  <1>2. Left(q) \subseteq Head(q) \cup Left(Tail(q))
    <2> SUFFICES ASSUME NEW m \in 1..Len(q), m # 1 PROVE q[m] \subseteq Left(Tail(q))
        BY <1>1 DEF Left
    <2>1. m - 1 \in DOMAIN Tail(q) /\ Tail(q)[m - 1] = q[m]
        BY <1>1
    <2> QED BY <2>1 DEF Left
  <1>3. Head(q) \cup Left(Tail(q)) \subseteq Left(q)
    <2>1. Head(q) \subseteq Left(q)
        BY <1>1 DEF Left
    <2>2. ASSUME NEW m \in 1..(Len(q) - 1) PROVE Tail(q)[m] \subseteq Left(q)
      <3>1. m + 1 \in DOMAIN q
          BY <1>1
      <3> QED BY <1>1, <3>1 DEF Left
    <2> QED BY <1>1, <2>1, <2>2 DEF Left
  <1> QED BY <1>2, <1>3

-----------------------------------------------------------------------------
(* Purges.  Between the deletion in the file and the one on the server the *)
(* file stays without the doomed items, and the tree is not refreshed.     *)

Gone(S) == IsDB(interm) /\ \A i \in S : ~Has(interm, i)
PurgeInv ==
  /\ pc = "purge_devices" => Gone(Leaving \cap Of("device"))
  /\ pc = "purge_areas" => Gone(Leaving \cap Of("area"))

\* What leaves the server belongs to the doomed.
LEMMA DoomedLeave == Doomed("3") \subseteq Leaving
  BY DEF Leaving

LEMMA DropGone ==
  ASSUME NEW db \in Database, NEW S \in SUBSET Items, NEW T, S \subseteq T, interm' = Drop(db, T)
  PROVE  Gone(S)'
  <1>1. IsDB(interm')
      BY DropType, DatabaseIsDB
  <1>2. \A i \in S : ~Has(interm', i)
      BY DropHas
  <1> QED BY <1>1, <1>2 DEF Gone

\* Only the steps before a purge lead to it.
LEMMA PurgeStep == TypeInv /\ PurgeInv /\ [Next]_vars => PurgeInv'
  <1> SUFFICES ASSUME TypeInv, PurgeInv, [Next]_vars PROVE PurgeInv'
      OBVIOUS
  <1> USE DEF files, sqlite, choice, session, history
  <1>0. IsDB(interm) => interm \in Database
      BY DatabaseFile DEF TypeInv, TypeOK
  <1>1. CASE DropDevices
    <2> DEFINE doomed == Leaving \cap Of("device")
               rest == IF IsDB(interm) THEN Drop(interm, doomed) ELSE interm
    <2>1. CASE pc' # "purge_devices"
        BY <1>1, <2>1 DEF DropDevices, PurgeInv
    <2>2. CASE pc' = "purge_devices"
      <3>1. IsDB(interm) /\ interm' = Drop(rest, Orphans(rest))
          BY <1>1, <2>2, SqliteNeedsDB DEF DropDevices
      <3>2. rest \in Database /\ \A i \in doomed : i \in Items /\ ~Has(rest, i)
          BY <1>0, <3>1, DropType, DropHas, OfItems
      <3> HIDE DEF doomed, rest
      <3>3. IsDB(interm')
          BY <3>1, <3>2, DropType, DatabaseIsDB
      <3>6. \A i \in doomed : ~Has(interm', i)
          BY <3>1, <3>2, DropHas
      <3>4. UNCHANGED tree
          BY <1>1 DEF DropDevices
      <3>5. Leaving' = Leaving
          BY <3>4 DEF Leaving, Doomed, DeleteTree, Known
      <3> QED BY <2>2, <3>3, <3>5, <3>6 DEF PurgeInv, Gone, doomed
    <2> QED BY <2>1, <2>2
  <1>2. CASE DropAreas
    <2> DEFINE doomed == Leaving \cap Of("area")
    <2>1. CASE pc' # "purge_areas"
        BY <1>2, <2>1 DEF DropAreas, PurgeInv
    <2>2. CASE pc' = "purge_areas"
      <3>1. IsDB(interm) /\ interm' = Drop(interm, doomed \cup UsersOf(doomed))
          BY <1>2, <2>2, SqliteNeedsDB DEF DropAreas, TypeInv, TypeOK
      <3>2. IsDB(interm') /\ \A i \in doomed : ~Has(interm', i)
          BY <1>0, <3>1, DropType, DropHas, DatabaseIsDB, OfItems
      <3>3. UNCHANGED tree
          BY <1>2 DEF DropAreas
      <3>4. Leaving' = Leaving
          BY <3>3 DEF Leaving, Doomed, DeleteTree, Known
      <3> QED BY <2>2, <3>2, <3>4 DEF PurgeInv, Gone
    <2> QED BY <2>1, <2>2
  <1>3. CASE UNCHANGED <<pc, interm, tree>>
    <2>1. Leaving' = Leaving
        BY <1>3 DEF Leaving, Doomed, DeleteTree, Known
    <2> QED BY <1>3, <2>1 DEF PurgeInv, Gone
  <1>4. CASE pc' \notin {"purge_devices", "purge_areas"}
      BY <1>4 DEF PurgeInv
  <1>5. Session => DropDevices \/ DropAreas \/ pc' \notin {"purge_devices", "purge_areas"}
      BY DEF Session, Fetch, Connect, Deletions, PurgeDevices, PurgeOrphans, PurgeAreas, DropUsers,
         PurgeUsers, Purge, UserSession, Users, UserFetch, UserDrop, DropOld, DeviceSession,
         Devices, AreasPut, AreasDrop, Choose, DevicePush, DeviceAck, DeviceFetch, DeviceDrop,
         NextChunk, Marks, Finish, Erase, Send, Return
  <1>6. User \/ Editors \/ Crash \/ UNCHANGED vars =>
          pc' \notin {"purge_devices", "purge_areas"} \/ UNCHANGED <<pc, interm, tree>>
    <2>1. Refresh => pc' = "idle"
        BY DEF Refresh
    <2> QED BY <2>1 DEF User, Click, ClickBusy, Editors, PhoneEdit, WebEdit, WebDelete, Crash,
               Return, vars
  <1> QED BY <1>1, <1>2, <1>3, <1>4, <1>5, <1>6 DEF Next

\* A step that takes an area or a device off the server is one of two purges.
LEMMA OnlyPurges ==
  ASSUME TypeInv, [Next]_vars, NEW i \in TreeItems, Has(server, i), ~Has(server', i)
  PROVE  /\ interm' = interm
         /\ \/ PurgeDevices /\ pc = "purge_devices" /\ i \in Leaving \cap Of("device")
            \/ PurgeAreas /\ pc = "purge_areas" /\ i \in Leaving \cap Of("area")
  <1> USE DEF files, sqlite, choice, session, history
  <1>0. server \in Database /\ i \in Items /\ Kind[i] \in {"area", "device"}
      BY DEF TypeInv, TypeOK, TreeItems, Of
  <1>1. \A next, S : Purge(next, S) => i \in S /\ interm' = interm
      BY <1>0, DropHas DEF Purge
  <1>2. \A S : i \notin UsersOf(S) /\ i \notin Orphans(server)
      BY <1>0 DEF UsersOf, Orphans, Of
  <1>3. CASE PurgeDevices
      BY <1>1, <1>3, DoomedLeave, UpdateMysqlDBType DEF PurgeDevices
  <1>4. CASE PurgeOrphans
      BY <1>1, <1>2, <1>4, UpdateMysqlDBType DEF PurgeOrphans
  <1>5. CASE PurgeAreas
    <2>1. interm' = interm /\ pc = "purge_areas" /\ i \in Leaving \cap Of("area")
        BY <1>1, <1>2, <1>5, DoomedLeave, UpdateMysqlDBType DEF PurgeAreas
    <2> QED BY <1>5, <2>1
  <1>6. CASE PurgeUsers
    <2>1. i \notin Of("user")
        BY <1>0 DEF Of
    <2> QED BY <1>1, <1>6, <2>1, UpdateMysqlDBType DEF PurgeUsers
  <1>7. CASE Marks
      BY <1>0, <1>7, SyncedHas DEF Marks
  <1>8. CASE DevicePush
    <2>1. server[i] \in Row
        BY <1>0 DEF Database
    <2>2. server'[i].sync = server[i].sync
        BY <1>0, <1>8, <2>1 DEF DevicePush, Bound, Row
    <2> QED BY <2>2 DEF Has
  <1>9. CASE Editors
    <2>1. PICK j \in Items : PhoneEdit(j) \/ WebEdit(j) \/ \E s \in {"2", "3"} : WebDelete(j, s)
        BY <1>9 DEF Editors
    <2>2. server'[i].sync # "none"
        BY <1>0, <2>1 DEF PhoneEdit, WebEdit, WebDelete, Has, Database, Row
    <2> QED BY <2>2 DEF Has
  <1>10. CASE server' = server
      BY <1>10
  <1>11. Next => \/ PurgeDevices \/ PurgeOrphans \/ PurgeAreas \/ PurgeUsers \/ Marks \/ DevicePush
                 \/ Editors \/ server' = server
      BY DEF Next, Session, Fetch, Connect, Deletions, DropDevices, DropAreas, DropUsers,
         UserSession, Users, UserFetch, UserDrop, DropOld, DeviceSession, Devices, AreasPut,
         AreasDrop, Choose, DeviceAck, DeviceFetch, DeviceDrop, Finish, Erase, Send,
         User, Click, ClickBusy, Refresh, Crash
  <1> QED BY <1>3, <1>4, <1>5, <1>6, <1>7, <1>8, <1>9, <1>10, <1>11 DEF vars

\* The server forgets an area or a device only once the file for the phone
\* no longer has it (3408, 3481), whatever fails and whoever edits meanwhile.
THEOREM PurgesFollowDrops == Spec => PurgedIsDropped
  <1>1. Init => TypeInv /\ PurgeInv
      BY TypeInit DEF Init, PurgeInv
  <1>2. TypeInv /\ PurgeInv /\ [Next]_vars => (TypeInv /\ PurgeInv)'
      BY TypeStep, PurgeStep
  <1>3. TypeInv /\ PurgeInv /\ [Next]_vars =>
          [\A i \in TreeItems : Has(server, i) /\ ~Has(server', i) => IsDB(interm) /\ ~Has(interm, i)]_vars
      BY OnlyPurges DEF PurgeInv, Gone
  <1> QED BY <1>1, <1>2, <1>3, PTL DEF Spec, PurgedIsDropped
=============================================================================
