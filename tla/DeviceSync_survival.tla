------------------------ MODULE DeviceSync_survival ------------------------
(***************************************************************************)
(* What DeviceSync keeps: the last word of a worker is never lost for      *)
(* good, a binding counted as synchronised was held by the server, a       *)
(* device the server marks is on its way to the phone, and a session that  *)
(* succeeds brings the users it was asked for.                             *)
(***************************************************************************)
EXTENDS DeviceSync_proofs

(* Nothing is lost: the phone's file is in a backup from the fetch on.     *)

Survives(i) ==
  \/ work[i] \in held[i]
  \/ \E f \in {phone} \cup backups : IsDB(f) /\ Written(f[i], i) = work[i]

KeepInv ==
  ~May("download") /\ ~May("phone_edit") =>
    /\ \A i \in Of("device") \cup Of("task") : Survives(i)
    /\ pc \notin {"idle", "fetch"} => phone = NoFile \/ phone \in backups

LEMMA KeepStep == TypeInv /\ KeepInv /\ [Next]_vars => KeepInv'
  <1> SUFFICES ASSUME TypeInv, KeepInv, [Next]_vars, ~May("download"), ~May("phone_edit")
               PROVE  /\ \A i \in Of("device") \cup Of("task") : Survives(i)'
                      /\ (pc \notin {"idle", "fetch"} => phone = NoFile \/ phone \in backups)'
      BY RegimeStays DEF KeepInv, May
  <1> USE DEF files, sqlite, choice, session, history
  <1>0. /\ \A i \in Of("device") \cup Of("task") : Survives(i)
        /\ pc \notin {"idle", "fetch"} => phone = NoFile \/ phone \in backups
      BY DEF KeepInv
  <1>1. \A i \in Items : held[i] \subseteq held'[i]
      BY HeldGrows
  <1>2. ASSUME UNCHANGED work,
               \A f \in {phone} \cup backups : IsDB(f) => f \in ({phone} \cup backups)'
        PROVE  \A i \in Of("device") \cup Of("task") : Survives(i)'
    <2> SUFFICES ASSUME NEW i \in Of("device") \cup Of("task") PROVE Survives(i)'
        OBVIOUS
    <2>1. i \in Items /\ Survives(i)
        BY <1>0, OfItems
    <2> QED BY <1>1, <1>2, <2>1 DEF Survives, Written, IsDB
  <1>3. CASE UNCHANGED <<phone, backups, work>> /\ (pc \in {"idle", "fetch"} => pc' \in {"idle", "fetch"})
      BY <1>0, <1>2, <1>3
  <1>4. CASE Fetch
    <2>1. UNCHANGED <<phone, work>> /\ backups \subseteq backups'
        BY <1>4 DEF Fetch
    <2>2. pc' # "idle" => phone \in backups'
        BY <1>4 DEF Fetch, Return, May
    <2> QED BY <1>2, <2>1, <2>2
  <1>5. CASE Erase \/ Send
    <2>1. UNCHANGED <<backups, work>>
        BY <1>5 DEF Erase, Send
    <2>2. phone = NoFile \/ phone \in backups
        BY <1>0, <1>5 DEF Erase, Send
    <2>3. \A f \in {phone} \cup backups : IsDB(f) => f \in backups'
        BY <2>1, <2>2 DEF IsDB
    <2>4. pc' \notin {"idle", "fetch"} => phone' = NoFile
        BY <1>5 DEF Erase, Send, Return
    <2> QED BY <1>2, <2>1, <2>3, <2>4
  <1>6. ASSUME NEW j \in Items, PhoneEdit(j)
        PROVE  /\ \A i \in Of("device") \cup Of("task") : Survives(i)'
               /\ (pc \notin {"idle", "fetch"} => phone = NoFile \/ phone \in backups)'
    <2>1. pc = "idle" /\ pc' = pc /\ UNCHANGED <<backups, held>> /\ IsDB(phone)
        BY <1>6 DEF PhoneEdit, May
    <2>2. phone \in Database /\ work \in [Items -> Nat] /\ edits + 1 \in Nat
        BY <2>1, DatabaseFile DEF TypeInv, TypeOK
    <2>3. phone' \in Database /\ IsDB(phone')
      <3>1. phone[j] \in Row
          BY <2>2 DEF Database
      <3>2. phone' \in Database
          BY <1>6, <2>2, <3>1 DEF PhoneEdit, Database, Row, Syncs
      <3> QED BY <3>2, DatabaseIsDB
    <2>4. Written(phone'[j], j) = work'[j]
      <3>1. phone[j] \in Row
          BY <2>2 DEF Database
      <3> QED BY <1>6, <2>2, <3>1 DEF PhoneEdit, Written, Database, Row
    <2>5. \A i \in Items \ {j} : phone'[i] = phone[i] /\ work'[i] = work[i]
        BY <1>6, <2>2 DEF PhoneEdit, Database
    <2>6. ASSUME NEW i \in Of("device") \cup Of("task") PROVE Survives(i)'
      <3>1. i \in Items /\ Survives(i)
          BY <1>0, OfItems
      <3>2. CASE i = j
          BY <2>3, <2>4, <3>2 DEF Survives
      <3>3. CASE i # j
        <4>1. work'[i] = work[i] /\ Written(phone'[i], i) = Written(phone[i], i)
            BY <2>5, <3>1, <3>3
        <4> QED BY <2>1, <2>3, <3>1, <4>1 DEF Survives
      <3> QED BY <3>2, <3>3
    <2> QED BY <2>1, <2>6
  <1> QED BY <1>3, <1>4, <1>5, <1>6, FilesStay

LEMMA KeepInit == Init => KeepInv
  <1> SUFFICES ASSUME Init PROVE KeepInv
      OBVIOUS
  <1>1. ASSUME NEW i \in Of("device") \cup Of("task") PROVE work[i] \in held[i]
      BY OfItems DEF Init
  <1> QED BY <1>1 DEF Init, KeepInv, Survives

\* What a worker bound or filled in last reached the server or is in the
\* phone's file or a backup (2300-2316), whatever the deletions take off the
\* phone (3400-3408) and whatever DeviceFetch writes over (2391).
THEOREM NothingIsLost == Spec => []NothingLostForGood
  <1>1. Init => TypeInv /\ KeepInv
      BY TypeInit, KeepInit
  <1>2. TypeInv /\ KeepInv /\ [Next]_vars => (TypeInv /\ KeepInv)'
      BY TypeStep, KeepStep
  <1>3. KeepInv => NothingLostForGood
      BY DEF KeepInv, NothingLostForGood, Survives
  <1> QED BY <1>1, <1>2, <1>3, PTL DEF Spec

-----------------------------------------------------------------------------
(* Bindings.  Each file is as good as the server's memory of it.           *)

Good(f, h, s) ==
  IsDB(f) => \A d \in Of("device") : f[d].sync = "1" => f[d].tag \in h[d] \/ ~Has(s, d)

AckInv ==
  ~May("later") =>
    /\ \A d \in Of("device") : Has(server, d) => server[d].tag \in held[d]
    /\ \A f \in {phone, interm} \cup backups : Good(f, held, server)
    /\ pc = "device_ack" /\ IsDB(interm) =>
         \A d \in picked : interm[d].tag \in held[d] \/ ~Has(server, d)

LEMMA GoodDrop ==
  ASSUME NEW db \in Database, NEW h, NEW s, NEW S, Good(db, h, s) PROVE Good(Drop(db, S), h, s)
  BY DatabaseIsDB, OfItems DEF Good, Drop, NoRow

\* Rows of other kinds may come in, and devices as the server has them.
LEMMA GoodPut ==
  ASSUME NEW db \in Database, NEW rows \in Database, NEW h, NEW s, NEW S, Good(db, h, s),
         \A d \in S \cap Of("device") : rows[d].tag \in h[d] \/ ~Has(s, d)
  PROVE  Good(Put(db, rows, S), h, s)
  BY DatabaseIsDB, OfItems DEF Good, Put

LEMMA SyncedTag ==
  ASSUME NEW db \in Database, NEW i \in Items PROVE Synced(db)[i].tag = db[i].tag
  <1> db[i] \in Row BY DEF Database
  <1> QED BY DEF Synced, Row, Syncs

LEMMA GoodNothing == \A h, s : Good(NoFile, h, s) /\ Good(Corrupt, h, s)
  BY DEF Good, IsDB

\* What a handler leaves in the intermediate file is as good as before,
\* measured by what the server has held so far.
LEMMA InterimGood ==
  ASSUME TypeInv, AckInv, ~May("later"), [Next]_vars
  PROVE  Good(interm', held, server)
  <1> USE DEF files, sqlite, choice, session, history
  <1>0. /\ interm \in File /\ phone \in File /\ server \in Database
        /\ IsDB(interm) => interm \in Database
        /\ Good(interm, held, server) /\ Good(phone, held, server)
      BY DatabaseFile DEF TypeInv, TypeOK, AckInv
  <1>1. \A S : IsDB(interm) => Good(Drop(interm, S), held, server)
      BY <1>0, GoodDrop
  <1>2. Good(Touched, held, server)
      BY <1>0, GoodNothing DEF Touched
  <1>3. CASE Fetch
      BY <1>0, <1>3, GoodNothing DEF Fetch
  <1>4. CASE DropDevices
    <2> DEFINE doomed == Leaving \cap Of("device")
               rest == IF IsDB(interm) THEN Drop(interm, doomed) ELSE interm
    <2>1. IsDB(interm) => rest \in Database /\ Good(rest, held, server)
        BY <1>0, <1>1, DropType
    <2>2. \A S : IsDB(interm) => Good(Drop(rest, S), held, server)
        BY <2>1, GoodDrop
    <2>3. interm' = interm \/ \E S : IsDB(interm) /\ interm' = Drop(rest, S)
        BY <1>4, SqliteNeedsDB DEF DropDevices
    <2> HIDE DEF rest
    <2> QED BY <1>0, <2>2, <2>3
  <1>5. CASE DropAreas \/ DropUsers \/ AreasDrop \/ UserDrop \/ DeviceDrop
    <2>1. interm' = interm \/ \E S : IsDB(interm) /\ interm' = Drop(interm, S)
        BY <1>5, SqliteNeedsDB DEF DropAreas, DropUsers, AreasDrop, UserDrop, DeviceDrop, DropOld,
             TypeInv, TypeOK
    <2> QED BY <1>0, <1>1, <2>1
  <1>6. CASE UserFetch
    <2>1. \/ interm' = interm
          \/ \E S : IsDB(interm) /\ interm' = Put(interm, server, S) /\ S \cap Of("device") = {}
      <3> DEFINE users == Current(Head(chunks))
      <3>1. users \cap Of("device") = {}
          BY DEF Current, UsersOf, Of
      <3> HIDE DEF users
      <3>2. CASE interm = NoFile
          BY <1>6, <3>2 DEF UserFetch
      <3>3. CASE interm # NoFile
        <4>1. PICK select \in Outcomes("mysql"), insert \in SqliteOutcomes(TRUE) :
                interm' = IF (IF select THEN users ELSE {}) # {} /\ insert
                          THEN Put(interm, server, IF select THEN users ELSE {}) ELSE interm
            BY <1>6, <3>3 DEF UserFetch, users
        <4>2. insert \in BOOLEAN /\ (insert => IsDB(interm))
            BY SqliteNeedsDB
        <4> QED BY <3>1, <4>1, <4>2
      <3> QED BY <3>2, <3>3
    <2> QED BY <1>0, <2>1, GoodPut
  <1>7. CASE AreasPut
    <2>1. \/ interm' \in {interm, Touched}
          \/ \E S : IsDB(interm) /\ interm' = Put(interm, Synced(server), S) /\ S \cap Of("device") = {}
      <3> DEFINE areas == {a \in Shown \cap Of("area") : Has(server, a)}
      <3>1. areas \cap Of("device") = {}
          BY DEF Of
      <3>2. TRUE \in SqliteOutcomes(TRUE) => IsDB(interm)
          BY SqliteNeedsDB
      <3>3. \/ interm' \in {interm, Touched}
            \/ TRUE \in SqliteOutcomes(TRUE) /\ interm' = Put(interm, Synced(server), areas)
        <4> HIDE DEF areas
        <4>1. CASE dir = "to_pc"
            BY <1>7, <4>1 DEF AreasPut
        <4>2. CASE dir # "to_pc"
          <5>1. PICK select \in Outcomes("mysql"), insert \in SqliteOutcomes(TRUE) :
                  interm' = IF (IF select THEN areas ELSE {}) # {} /\ insert
                            THEN Put(interm, Synced(server), IF select THEN areas ELSE {}) ELSE Touched
              BY <1>7, <4>2 DEF AreasPut, areas
          <5>2. insert \in BOOLEAN
              BY SqliteNeedsDB
          <5> QED BY <5>1, <5>2
        <4> QED BY <4>1, <4>2
      <3> QED BY <3>1, <3>2, <3>3
    <2>2. Synced(server) \in Database
        BY <1>0, SyncedType
    <2> QED BY <1>0, <1>2, <2>1, <2>2, GoodPut
  <1>8. CASE DevicePush
      BY <1>2, <1>8 DEF DevicePush
  <1>9. CASE DeviceAck
    <2>1. \/ interm' = interm
          \/ pc = "device_ack" /\ IsDB(interm) /\ interm' = Put(interm, Synced(interm), picked)
        BY <1>9, SqliteNeedsDB DEF DeviceAck, TypeInv, TypeOK
    <2>2. IsDB(interm) => Synced(interm) \in Database
        BY <1>0, SyncedType
    <2>3. pc = "device_ack" /\ IsDB(interm) =>
            \A d \in picked \cap Of("device") : Synced(interm)[d].tag \in held[d] \/ ~Has(server, d)
        BY <1>0, SyncedTag, OfItems DEF AckInv
    <2> QED BY <1>0, <2>1, <2>2, <2>3, GoodPut
  <1>10. CASE DeviceFetch
    <2>1. \/ interm' = Touched
          \/ \E S : IsDB(interm) /\ interm' = Put(interm, Synced(server), S) /\ S \subseteq Of("device")
        BY <1>10, SqliteNeedsDB DEF DeviceFetch, InChunk
    <2>2. Synced(server) \in Database
        BY <1>0, SyncedType
    <2>3. \A d \in Of("device") : Synced(server)[d].tag \in held[d] \/ ~Has(server, d)
        BY <1>0, SyncedTag, OfItems DEF AckInv
    <2> QED BY <1>0, <1>2, <2>1, <2>2, <2>3, GoodPut
  <1>11. CASE Send
      BY <1>11, GoodNothing DEF Send
  <1>12. CASE interm' = interm
      BY <1>0, <1>12
  <1>13. Next => \/ Fetch \/ DropDevices \/ DropAreas \/ DropUsers \/ AreasDrop \/ UserDrop
                 \/ DeviceDrop \/ UserFetch \/ AreasPut \/ DevicePush \/ DeviceAck \/ DeviceFetch
                 \/ Send \/ interm' = interm
      BY DEF Next, Session, Connect, Deletions, PurgeDevices, PurgeOrphans, PurgeAreas, Purge,
         PurgeUsers, UserSession, Users, DeviceSession, Devices, Choose, Marks, Finish, Erase,
         User, Click, ClickBusy, Refresh, Crash, Editors, PhoneEdit, WebEdit, WebDelete
  <1> QED BY <1>3, <1>4, <1>5, <1>6, <1>7, <1>8, <1>9, <1>10, <1>11, <1>12, <1>13 DEF vars

\* Every row the server still has keeps an RFID the server has held.
LEMMA ServerTags ==
  ASSUME TypeInv, AckInv, ~May("later"), [Next]_vars, NEW d \in Of("device"), Has(server', d)
  PROVE  server'[d].tag \in held'[d]
  <1> USE DEF files, sqlite, choice, session, history
  <1>0. /\ d \in Items /\ server \in Database /\ server[d] \in Row /\ held \in [Items -> SUBSET Nat]
        /\ Has(server, d) /\ held[d] \subseteq held'[d] /\ server[d].tag \in held[d]
    <2>1. d \in Items /\ server \in Database /\ held \in [Items -> SUBSET Nat]
        BY OfItems DEF TypeInv, TypeOK
    <2>2. Has(server, d) /\ held[d] \subseteq held'[d]
        BY <2>1, HeldGrows
    <2>3. server[d] \in Row
        BY <2>1 DEF Database
    <2>4. server[d].tag \in held[d]
        BY <2>2 DEF AckInv
    <2> QED BY <2>1, <2>2, <2>3, <2>4
  <1>1. CASE PurgeDevices \/ PurgeOrphans \/ PurgeAreas \/ PurgeUsers
    <2>1. PICK S : server' = Drop(server, S) /\ held' = held
        BY <1>1 DEF PurgeDevices, PurgeOrphans, PurgeAreas, PurgeUsers, Purge
    <2> QED BY <1>0, <2>1 DEF Drop, Has, NoRow
  <1>2. CASE Marks
    <2>1. server'[d].tag = server[d].tag
        BY <1>0, <1>2, SyncedTag DEF Marks, Put
    <2> QED BY <1>0, <2>1
  <1>3. CASE DevicePush
    <2>1. CASE UNCHANGED <<server, held>>
        BY <1>0, <2>1
    <2>2. ASSUME NEW S, Bound(S) PROVE server'[d].tag \in held'[d]
        BY <1>0, <2>2 DEF Bound, Row
    <2> QED BY <1>3, <2>1, <2>2 DEF DevicePush
  <1>4. CASE Editors
    <2>1. PICK j \in Items : PhoneEdit(j) \/ WebEdit(j) \/ \E s \in {"2", "3"} : WebDelete(j, s)
        BY <1>4 DEF Editors
    <2>2. server'[d].tag = server[d].tag
        BY <1>0, <2>1 DEF PhoneEdit, WebEdit, WebDelete, Database, Row
    <2> QED BY <1>0, <2>2
  <1>5. CASE server' = server
      BY <1>0, <1>5
  <1>6. Next => \/ PurgeDevices \/ PurgeOrphans \/ PurgeAreas \/ PurgeUsers \/ Marks \/ DevicePush
                \/ Editors \/ server' = server
      BY DEF Next, Session, Fetch, Connect, Deletions, DropDevices, DropAreas, DropUsers,
         UserSession, Users, UserFetch, UserDrop, DropOld, DeviceSession, Devices, AreasPut,
         AreasDrop, Choose, DeviceAck, DeviceFetch, DeviceDrop, Finish, Erase, Send,
         User, Click, ClickBusy, Refresh, Crash
  <1> QED BY <1>1, <1>2, <1>3, <1>4, <1>5, <1>6 DEF vars

\* The files other than the intermediate one come from it or from the phone.
LEMMA OthersGood ==
  ASSUME TypeInv, AckInv, ~May("later"), [Next]_vars, NEW f \in ({phone} \cup backups)'
  PROVE  Good(f, held, server)
  <1> USE DEF files, sqlite, choice, session, history
  <1>0. \A g \in {phone, interm} \cup backups : Good(g, held, server)
      BY DEF AckInv
  <1>1. CASE UNCHANGED <<phone, backups>>
      BY <1>0, <1>1
  <1>2. CASE Fetch
    <2>1. phone' = phone /\ backups' \subseteq backups \cup {interm'}
        BY <1>2 DEF Fetch
    <2> QED BY <1>0, <2>1, InterimGood
  <1>3. CASE Erase \/ Send
      BY <1>0, <1>3, GoodNothing DEF Erase, Send
  <1>4. ASSUME NEW j \in Items, PhoneEdit(j) PROVE Good(f, held, server)
    <2>1. backups' = backups /\ IsDB(phone) /\ phone \in Database /\ Kind[j] \in {"device", "task"}
        BY <1>4, DatabaseFile DEF PhoneEdit, TypeInv, TypeOK
    <2>2. phone[j] \in Row
        BY <2>1 DEF Database
    <2>3. phone'[j].sync = "0" /\ \A d \in Items \ {j} : phone'[d] = phone[d]
        BY <1>4, <2>1, <2>2 DEF PhoneEdit, Database, Row
    <2>4. Good(phone', held, server)
        BY <1>0, <2>1, <2>3, OfItems DEF Good
    <2> QED BY <1>0, <2>1, <2>4
  <1> QED BY <1>1, <1>2, <1>3, <1>4, FilesStay

LEMMA AckStep == TypeInv /\ AckInv /\ [Next]_vars => AckInv'
  <1> SUFFICES ASSUME TypeInv, AckInv, [Next]_vars, ~May("later")
               PROVE  /\ \A d \in Of("device") : Has(server', d) => server'[d].tag \in held'[d]
                      /\ \A f \in ({phone, interm} \cup backups)' : Good(f, held', server')
                      /\ pc' = "device_ack" /\ IsDB(interm') =>
                           \A d \in picked' : interm'[d].tag \in held'[d] \/ ~Has(server', d)
      BY RegimeStays DEF AckInv, May
  <1>1. \A d \in Of("device") : Has(server', d) => server'[d].tag \in held'[d]
      BY ServerTags
  <1>2. \A d \in Items : held[d] \subseteq held'[d] /\ (Has(server', d) => Has(server, d))
      BY HeldGrows
  <1>3. \A f : Good(f, held, server) => Good(f, held', server')
      BY <1>2, OfItems DEF Good
  <1>4. \A f \in ({phone, interm} \cup backups)' : Good(f, held, server)
      BY OthersGood, InterimGood
  <1>5. ASSUME pc' = "device_ack", IsDB(interm')
        PROVE  \A d \in picked' : interm'[d].tag \in held'[d] \/ ~Has(server', d)
    <2> USE DEF files, sqlite, choice, session, history
    <2>1. CASE DevicePush
      <3>1. CASE picked' = {}
          BY <3>1
      <3>2. CASE picked' # {}
        <4>1. IsDB(interm) /\ interm' = interm
            BY <2>1, <3>2 DEF DevicePush, Touched, IsDB
        <4>2. PICK S \in {InChunk(interm, "0")} \cup (IF May("sqlite") THEN {{}} ELSE {}) :
                \E u \in UpdateMysqlDB(S) : Bound(u.done) /\ picked' = IF u.ret THEN S ELSE {}
            BY <2>1, <3>2 DEF DevicePush
        <4>3. Bound(S) /\ picked' = S /\ S \subseteq Items
            BY <3>2, <4>2, OfItems DEF UpdateMysqlDB, InChunk
        <4>4. ASSUME NEW d \in S, Has(server', d) PROVE interm[d].tag \in held'[d]
          <5>1. d \in Items /\ Has(server, d)
              BY <1>2, <4>3, <4>4
          <5> QED BY <4>3, <4>4, <5>1 DEF Bound
        <4> QED BY <4>1, <4>3, <4>4
      <3> QED BY <3>1, <3>2
    <2>2. CASE pc = "device_ack" /\ UNCHANGED <<interm, picked>>
        BY <1>2, <1>5, <2>2 DEF AckInv, TypeInv, TypeOK
    <2>3. Next => DevicePush \/ UNCHANGED <<pc, interm, picked>> \/ pc' # "device_ack"
        BY DEF Next, Session, Fetch, Connect, Deletions, DropDevices, PurgeDevices, PurgeOrphans,
           DropAreas, PurgeAreas, Purge, DropUsers, PurgeUsers, UserSession, Users, UserFetch,
           UserDrop, DropOld, DeviceSession, Devices, AreasPut, AreasDrop, Choose, DeviceAck,
           DeviceFetch, DeviceDrop, NextChunk, Marks, Finish, Erase, Send, Return, User, Click,
           ClickBusy, Refresh, Crash, Editors, PhoneEdit, WebEdit, WebDelete
    <2> QED BY <1>5, <2>1, <2>2, <2>3 DEF vars
  <1> QED BY <1>1, <1>3, <1>4, <1>5

LEMMA AckInit == Init => AckInv
  <1> SUFFICES ASSUME Init PROVE AckInv
      OBVIOUS
  <1> DEFINE start == [i \in Items |-> [ver |-> 0, tag |-> 0, sync |-> "1"]]
             blank == [i \in Items |-> NoRow]
  <1>1. server = start /\ phone \in {start, blank} /\ interm = NoFile /\ backups = {}
        /\ pc = "idle" /\ held = [i \in Items |-> {0}]
      BY DEF Init
  <1>2. \A d \in Of("device") : server[d].tag \in held[d]
      BY <1>1, OfItems
  <1>3. Good(start, held, server) /\ Good(blank, held, server)
      BY <1>1, OfItems DEF Good, NoRow
  <1> QED BY <1>1, <1>2, <1>3, GoodNothing DEF AckInv

\* A binding counted as synchronised, in whatever file, was held by the
\* server, or the server has lost the device: rows are marked on the phone
\* only after UpdateMysqlDB returned TRUE (2300-2316), and what comes from
\* the server brings the server's RFID (2391).
THEOREM BindingsWereAcked == Spec => []BindingsAcked
  <1>1. Init => TypeInv /\ AckInv
      BY TypeInit, AckInit
  <1>2. TypeInv /\ AckInv /\ [Next]_vars => (TypeInv /\ AckInv)'
      BY TypeStep, AckStep
  <1>3. AckInv => BindingsAcked
      BY DEF AckInv, BindingsAcked, Good
  <1> QED BY <1>1, <1>2, <1>3, PTL DEF Spec

-----------------------------------------------------------------------------
(* Marks.  From its fetch to the end of the chunks a marked device is in   *)
(* the file and still pending on the server.                               *)

Marking == {"device", "device_ack", "device_drop", "device_marks"}
Stored(f, s, d) == IsDB(f) /\ Has(f, d) /\ f[d].ver = s[d].ver /\ s[d].sync = "0"
MarkInv ==
  ~May("web_edit") /\ pc \in Marking =>
    \A d \in marks : d \in Items /\ Stored(interm, server, d)

\* One handler's work on the file keeps what was stored.
LEMMA StoredKept ==
  ASSUME NEW f \in File, NEW s \in Database, NEW d \in Items, Stored(f, s, d)
  PROVE  /\ \A S : d \notin S => Stored(Drop(f, S), s, d)
         /\ \A S : Stored(Put(f, Synced(f), S), s, d)
         /\ \A S : Stored(Put(f, Synced(s), S), s, d)
  <1>1. f \in Database /\ f[d] \in Row /\ s[d] \in Row /\ Synced(f) \in Database /\ Synced(s) \in Database
      BY DatabaseFile, SyncedType DEF Stored, Database
  <1>2. \A S : Drop(f, S) \in Database /\ Put(f, Synced(f), S) \in Database
               /\ Put(f, Synced(s), S) \in Database
      BY <1>1, DropType, PutType
  <1>3. \A S : d \notin S => Drop(f, S)[d] = f[d]
      BY DEF Drop
  <1>4. \A S : Put(f, Synced(f), S)[d] \in {f[d], [f[d] EXCEPT !.sync = "1"]}
      BY DEF Put, Synced, Stored
  <1>5. \A S : Put(f, Synced(s), S)[d] \in {f[d], [s[d] EXCEPT !.sync = "1"]}
      BY DEF Put, Synced, Stored, Has
  <1>6. \A r \in Row : [r EXCEPT !.sync = "1"].ver = r.ver /\ [r EXCEPT !.sync = "1"].sync = "1"
      BY DEF Row, Syncs
  <1>7. ASSUME NEW g \in Database, g[d] \in {f[d], [f[d] EXCEPT !.sync = "1"], [s[d] EXCEPT !.sync = "1"]}
        PROVE  Stored(g, s, d)
    <2>1. f[d].ver = s[d].ver /\ f[d].sync # "none" /\ s[d].sync = "0"
        BY DEF Stored, Has
    <2> DEFINE fd == [f[d] EXCEPT !.sync = "1"]
               sd == [s[d] EXCEPT !.sync = "1"]
    <2>2. fd.ver = f[d].ver /\ fd.sync = "1" /\ sd.ver = s[d].ver /\ sd.sync = "1"
        BY <1>1, <1>6
    <2>3. g[d] \in {f[d], fd, sd}
        BY <1>7
    <2> HIDE DEF fd, sd
    <2>4. g[d].ver = s[d].ver /\ g[d].sync # "none"
        BY <2>1, <2>2, <2>3
    <2> QED BY <2>1, <2>4, DatabaseIsDB DEF Stored, Has
  <1> HIDE DEF Stored
  <1>8. \A S : d \notin S => Stored(Drop(f, S), s, d)
      BY <1>2, <1>3, <1>7
  <1>9. \A S : Stored(Put(f, Synced(f), S), s, d)
      BY <1>2, <1>4, <1>7
  <1>10. \A S : Stored(Put(f, Synced(s), S), s, d)
      BY <1>2, <1>5, <1>7
  <1> QED BY <1>8, <1>9, <1>10

LEMMA MarkStep == TypeInv /\ MarkInv /\ [Next]_vars => MarkInv'
  <1> SUFFICES ASSUME TypeInv, MarkInv, [Next]_vars, ~May("web_edit"), pc' \in Marking,
                      NEW d \in marks'
               PROVE  d \in Items /\ Stored(interm', server', d)
      BY RegimeStays DEF MarkInv, May
  <1> USE DEF files, sqlite, choice, session, history
  <1>0. /\ interm \in File /\ server \in Database /\ marks \subseteq Items
        /\ pc \in Marking => \A e \in marks : Stored(interm, server, e)
      BY DEF MarkInv, TypeInv, TypeOK
  <1>1. CASE Choose
      BY <1>1 DEF Choose, Marking
  <1>2. CASE DevicePush
    <2>1. d \in Items /\ Stored(interm, server, d) /\ interm' = interm
        BY <1>0, <1>2 DEF DevicePush, Marking, Touched, Stored, IsDB
    <2>2. server[d] \in Row
        BY <1>0, <2>1 DEF Database
    <2>3. server'[d].ver = server[d].ver /\ server'[d].sync = server[d].sync
        BY <1>2, <2>1, <2>2 DEF DevicePush, Bound, Row
    <2> QED BY <2>1, <2>3 DEF Stored
  <1>3. CASE DeviceAck
    <2>1. d \in Items /\ Stored(interm, server, d) /\ server' = server
        BY <1>0, <1>3 DEF DeviceAck, Marking
    <2>2. interm' = interm \/ \E S : interm' = Put(interm, Synced(interm), S)
        BY <1>3 DEF DeviceAck
    <2> QED BY <1>0, <2>1, <2>2, StoredKept
  <1>4. CASE DeviceDrop
    <2>1. d \in Items /\ Stored(interm, server, d) /\ server' = server
        BY <1>0, <1>4 DEF DeviceDrop, DropOld, Marking
    <2>2. interm' = interm \/ \E S : d \notin S /\ interm' = Drop(interm, S)
        BY <1>4, <2>1 DEF DeviceDrop, DropOld, InChunk, Stored
    <2> QED BY <1>0, <2>1, <2>2, StoredKept
  <1>5. CASE DeviceFetch
    <2>1. PICK select \in Outcomes("mysql"), insert \in SqliteOutcomes(TRUE) :
            LET new == IF select THEN InChunk(server, "0") ELSE {}
                done == new = {} \/ insert
            IN /\ interm' = IF new # {} /\ insert THEN Put(interm, Synced(server), new) ELSE Touched
               /\ marks' = IF done THEN marks \cup new ELSE marks
        BY <1>5 DEF DeviceFetch
    <2> DEFINE new == IF select THEN InChunk(server, "0") ELSE {}
    <2>2. pc \in Marking /\ server' = server /\ insert \in BOOLEAN /\ (insert => IsDB(interm))
        BY <1>5, SqliteNeedsDB DEF DeviceFetch, Marking
    <2>3. \A e \in new : e \in Items /\ server[e].sync = "0"
        BY OfItems DEF InChunk
    <2>4. \/ interm' = Touched /\ d \in marks
          \/ insert /\ interm' = Put(interm, Synced(server), new) /\ d \in marks \cup new
        <3> HIDE DEF new
        <3> QED BY <2>1, <2>2 DEF new
    <2> HIDE DEF new
    <2>5. CASE d \in marks
      <3>1. d \in Items /\ Stored(interm, server, d)
          BY <1>0, <2>2, <2>5
      <3>2. Touched = interm
          BY <3>1 DEF Touched, Stored, IsDB
      <3> QED BY <1>0, <2>2, <2>4, <3>1, <3>2, StoredKept
    <2>6. CASE d \in new /\ insert /\ interm' = Put(interm, Synced(server), new)
      <3>1. d \in Items /\ server[d] \in Row /\ server[d].sync = "0"
          BY <1>0, <2>3, <2>6 DEF Database
      <3>2. interm' \in Database
          BY <1>0, <2>2, <2>6, DatabaseFile, SyncedType, PutType
      <3>3. interm'[d] = [server[d] EXCEPT !.sync = "1"]
        <4>1. Synced(server)[d] = [server[d] EXCEPT !.sync = "1"]
            BY <3>1 DEF Synced, Has
        <4>2. Put(interm, Synced(server), new)[d] = Synced(server)[d]
            BY <2>6, <3>1 DEF Put
        <4> QED BY <2>6, <4>1, <4>2
      <3>4. interm'[d].ver = server[d].ver /\ interm'[d].sync = "1"
          BY <3>1, <3>3 DEF Row, Syncs
      <3> QED BY <2>2, <3>1, <3>2, <3>4, DatabaseIsDB DEF Stored, Has
    <2> QED BY <2>4, <2>5, <2>6
  <1>6. CASE pc \in Marking /\ UNCHANGED <<interm, server, marks>>
      BY <1>0, <1>6
  <1>7. Session => Choose \/ DevicePush \/ DeviceAck \/ DeviceDrop \/ DeviceFetch
      BY DEF Session, Fetch, Connect, Deletions, DropDevices, PurgeDevices, PurgeOrphans,
         DropAreas, PurgeAreas, Purge, DropUsers, PurgeUsers, UserSession, Users, UserFetch,
         UserDrop, DropOld, NextChunk, DeviceSession, Devices, AreasPut, AreasDrop, Marks,
         Finish, Erase, Send, Return, Marking
  <1>8. User \/ Crash \/ Editors \/ UNCHANGED vars =>
          pc \in Marking /\ UNCHANGED <<interm, server, marks>>
      BY DEF User, Click, ClickBusy, Refresh, Crash, Return, Editors, PhoneEdit, WebEdit,
         WebDelete, Marking, vars, May
  <1> QED BY <1>1, <1>2, <1>3, <1>4, <1>5, <1>6, <1>7, <1>8 DEF Next

LEMMA MarkInit == Init => MarkInv
  BY DEF Init, MarkInv, Marking

\* When the session marks devices as synchronised on the server, each is in
\* the file for the phone as the server has it: ids are kept only after the
\* insert (2397-2420), and neither the later chunks nor the deletions that
\* end each handler (2429) touch them.
THEOREM MarksAreStored == Spec => []MarkedDevicesAreHeld
  <1>1. Init => TypeInv /\ MarkInv
      BY TypeInit, MarkInit
  <1>2. TypeInv /\ MarkInv /\ [Next]_vars => (TypeInv /\ MarkInv)'
      BY TypeStep, MarkStep
  <1>3. MarkInv => MarkedDevicesAreHeld
      BY DEF MarkInv, MarkedDevicesAreHeld, Marking, Stored
  <1> QED BY <1>1, <1>2, <1>3, PTL DEF Spec

-----------------------------------------------------------------------------
(* Users.  Those of the chunks done so far are in the file, unless the     *)
(* session has failed.                                                     *)

Arrived(u) == IsDB(interm) /\ Has(interm, u) /\ interm[u].ver = server[u].ver
Awaited(u) == server[u].sync \in {"0", "1"} /\ AreaOf[u] \in wanted /\ Has(server, AreaOf[u])

BeforeUsers ==
  {"drop_devices", "purge_devices", "purge_orphans", "drop_areas", "purge_areas", "drop_users",
   "purge_users", "users"}
ForUsers == {"user", "user_drop", "user_marks"}
AfterUsers ==
  {"devices", "areas", "areas_drop", "choose", "device", "device_ack", "device_drop",
   "device_marks", "finish", "erase"}

UserInv ==
  ~May("web_edit") =>
    /\ pc \in BeforeUsers => wanted = {}
    /\ pc = "erase" => ok
    /\ pc \in ForUsers => \A u \in marks : u \in Of("user") /\ server[u].sync \in {"0", "1"}
    /\ pc \in Marking => marks \subseteq Of("device")
    /\ pc \in ForUsers \cup AfterUsers /\ ok =>
         \A u \in Of("user") : Awaited(u) =>
           \/ Arrived(u)
           \/ pc = "user" /\ AreaOf[u] \in Left(chunks)
           \/ pc = "user_drop" /\ AreaOf[u] \in Left(Tail(chunks))

\* Once the areas are chosen nobody comes to be awaited.
LEMMA AwaitedBefore ==
  ASSUME TypeInv, UserInv, ~May("web_edit"), [Next]_vars, pc \in ForUsers \cup AfterUsers,
         pc' \in ForUsers \cup AfterUsers, NEW u \in Of("user"), Awaited(u)'
  PROVE  Awaited(u) /\ server'[u].ver = server[u].ver /\ wanted' = wanted
  <1> USE DEF files, sqlite, choice, session, history
  <1>0. u \in Items /\ server \in Database /\ server[u] \in Row /\ wanted \subseteq Items
      BY OfItems DEF TypeInv, TypeOK, Database
  <1>1. wanted' = wanted
      BY DEF Next, Session, Fetch, Connect, Deletions, DropDevices, PurgeDevices, PurgeOrphans,
         DropAreas, PurgeAreas, Purge, DropUsers, PurgeUsers, UserSession, Users, UserFetch,
         UserDrop, DropOld, DeviceSession, Devices, AreasPut, AreasDrop, Choose, DevicePush,
         DeviceAck, DeviceFetch, DeviceDrop, Marks, Finish, Erase, Send, Return, User, Click,
         ClickBusy, Refresh, Crash, Editors, PhoneEdit, WebEdit, WebDelete, vars, ForUsers,
         AfterUsers
  <1>2. server'[u].sync \in {"0", "1"} /\ Has(server, AreaOf[u]) /\ AreaOf[u] \in wanted
    <2>1. AreaOf[u] \in Items
        BY <1>0, <1>1 DEF Awaited
    <2> QED BY <1>1, <2>1, HeldGrows DEF Awaited
  <1>3. server'[u].sync \in {server[u].sync, "1", "none"} /\ server'[u].ver = server[u].ver
      BY <1>0, <1>2, FlagsSettle DEF ForUsers, AfterUsers
  <1>4. server[u].sync \in {"0", "1"}
    <2>1. CASE Marks
      <3>1. PICK S \in SUBSET marks : server' = Put(server, Synced(server), S)
          BY <2>1, UpdateMysqlDBType DEF Marks
      <3>2. CASE u \in S
        <4>1. u \in marks /\ u \notin Of("device")
            BY <3>2 DEF Of
        <4> QED BY <2>1, <4>1 DEF Marks, UserInv, ForUsers, Marking
      <3>3. CASE u \notin S
          BY <1>0, <1>2, <3>1, <3>3 DEF Put
      <3> QED BY <3>2, <3>3
    <2>2. CASE ~Marks
      <3>1. server'[u].sync \in {server[u].sync, "none"}
        <4>1. CASE PurgeDevices \/ PurgeOrphans \/ PurgeAreas \/ PurgeUsers
            BY <4>1 DEF PurgeDevices, PurgeOrphans, PurgeAreas, PurgeUsers, ForUsers, AfterUsers
        <4>2. CASE DevicePush
            BY <1>0, <4>2 DEF DevicePush, Bound, Row
        <4>3. CASE server' = server
            BY <4>3
        <4>4. Next => \/ PurgeDevices \/ PurgeOrphans \/ PurgeAreas \/ PurgeUsers \/ Marks
                      \/ DevicePush \/ server' = server
            BY DEF Next, Session, Fetch, Connect, Deletions, DropDevices, DropAreas, DropUsers,
               UserSession, Users, UserFetch, UserDrop, DropOld, DeviceSession, Devices, AreasPut,
               AreasDrop, Choose, DeviceAck, DeviceFetch, DeviceDrop, Finish, Erase, Send, User,
               Click, ClickBusy, Refresh, Crash, Editors, PhoneEdit, WebEdit, WebDelete, May,
               ForUsers, AfterUsers
        <4> QED BY <2>2, <4>1, <4>2, <4>3, <4>4 DEF vars
      <3> QED BY <1>2, <3>1
    <2> QED BY <2>1, <2>2
  <1> QED BY <1>1, <1>2, <1>3, <1>4 DEF Awaited

\* Once a user is in the file, it stays there as the server has it.
LEMMA ArrivedStays ==
  ASSUME TypeInv, [Next]_vars, pc \in ForUsers \cup AfterUsers, NEW u \in Of("user"),
         Arrived(u), server[u].sync \in {"0", "1"}, server'[u].ver = server[u].ver
  PROVE  Arrived(u)'
  <1>0. /\ u \in Items /\ interm \in Database /\ server \in Database /\ interm[u] \in Row
        /\ u \notin Of("area") /\ u \notin Of("device")
    <2>1. u \in Items /\ interm \in Database /\ server \in Database
        BY OfItems, DatabaseFile DEF Arrived, TypeInv, TypeOK
    <2> QED BY <2>1 DEF Of, Database
  <1>1. ASSUME NEW db \in Database, interm' = db, db[u].sync # "none", db[u].ver = server[u].ver
        PROVE  Arrived(u)'
      BY <1>1, DatabaseIsDB DEF Arrived, Has
  <1>2. interm[u].sync # "none" /\ interm[u].ver = server[u].ver
      BY DEF Arrived, Has
  <1>3. ASSUME NEW S, interm' = Drop(interm, S), u \notin S PROVE Arrived(u)'
    <2>1. Drop(interm, S) \in Database /\ Drop(interm, S)[u] = interm[u]
        BY <1>0, <1>3, DropType DEF Drop
    <2> QED BY <1>1, <1>2, <1>3, <2>1
  <1>4. ASSUME NEW rows \in Database, NEW S, interm' = Put(interm, rows, S),
               u \in S => rows[u].sync # "none" /\ rows[u].ver = server[u].ver
        PROVE  Arrived(u)'
    <2>1. Put(interm, rows, S) \in Database /\ Put(interm, rows, S)[u] = IF u \in S THEN rows[u] ELSE interm[u]
        BY <1>0, <1>4, PutType DEF Put
    <2> QED BY <1>1, <1>2, <1>4, <2>1
  <1>5. CASE interm' = interm
      BY <1>0, <1>1, <1>2, <1>5
  <1>6. interm' \in {NoFile, Corrupt} => interm' = interm \/ IsDB(interm)
      BY <1>0, DatabaseIsDB
  <1>7. IsDB(interm) /\ ~Fetch /\ ~Send /\ ~DropDevices /\ ~DropUsers /\ ~DropAreas
      BY <1>0, DatabaseIsDB DEF Fetch, Send, DropDevices, DropUsers, DropAreas, ForUsers, AfterUsers
  <1>8. ASSUME NEW S, \/ UserDrop /\ \A v \in S : server[v].sync = "2"
                      \/ S \subseteq Of("device")
                      \/ S = {a \in Of("area") : server[a].sync = "2"}
        PROVE  u \notin S
      BY <1>0, <1>8
  <1>9. /\ Synced(server) \in Database /\ Synced(interm) \in Database
        /\ Synced(interm)[u].sync # "none" /\ Synced(interm)[u].ver = server[u].ver
    <2>1. Synced(interm)[u] = [interm[u] EXCEPT !.sync = "1"]
        BY <1>0, <1>2 DEF Synced, Has
    <2> QED BY <1>0, <1>2, <2>1, SyncedType DEF Row
  <1>10. u \notin InChunk(server, "0") /\ u \notin {a \in Shown \cap Of("area") : Has(server, a)}
      BY <1>0 DEF InChunk
  <1> QED BY <1>0, <1>3, <1>4, <1>5, <1>7, <1>8, <1>9, <1>10, Moves DEF InterimMoves

\* Nobody is awaited before the areas are chosen, a session ends well only
\* while nothing failed, and the marks are of what is being synchronised.
LEMMA UserMarks ==
  ASSUME TypeInv, UserInv, ~May("web_edit"), [Next]_vars
  PROVE  /\ pc' \in BeforeUsers => wanted' = {}
         /\ pc' = "erase" => ok'
         /\ pc' \in ForUsers => \A u \in marks' : u \in Of("user") /\ server'[u].sync \in {"0", "1"}
         /\ pc' \in Marking => marks' \subseteq Of("device")
  <1> USE DEF files, sqlite, choice, session, history
  <1>0. /\ pc \in BeforeUsers => wanted = {}
        /\ pc = "erase" => ok
        /\ pc \in ForUsers => \A u \in marks : u \in Of("user") /\ server[u].sync \in {"0", "1"}
        /\ pc \in Marking => marks \subseteq Of("device")
      BY DEF UserInv
  <1>1. pc' \in BeforeUsers => wanted' = {}
      BY <1>0 DEF Next, Session, Fetch, Connect, Deletions, DropDevices, PurgeDevices,
         PurgeOrphans, DropAreas, PurgeAreas, Purge, DropUsers, PurgeUsers, UserSession, Users,
         UserFetch, UserDrop, DropOld, NextChunk, DeviceSession, Devices, AreasPut, AreasDrop,
         Choose, DevicePush, DeviceAck, DeviceFetch, DeviceDrop, Marks, Finish, Erase, Send,
         Return, User, Click, ClickBusy, Refresh, Crash, Editors, PhoneEdit, WebEdit, WebDelete,
         vars, BeforeUsers
  <1>2. pc' = "erase" => ok'
      BY <1>0 DEF Next, Session, Fetch, Connect, Deletions, DropDevices, PurgeDevices,
         PurgeOrphans, DropAreas, PurgeAreas, Purge, DropUsers, PurgeUsers, UserSession, Users,
         UserFetch, UserDrop, DropOld, NextChunk, DeviceSession, Devices, AreasPut, AreasDrop,
         Choose, DevicePush, DeviceAck, DeviceFetch, DeviceDrop, Marks, Finish, Erase, Send,
         Return, User, Click, ClickBusy, Refresh, Crash, Editors, PhoneEdit, WebEdit, WebDelete,
         vars
  <1>3. ASSUME pc' \in ForUsers
        PROVE  \A u \in marks' : u \in Of("user") /\ server'[u].sync \in {"0", "1"}
    <2>1. CASE Users
        BY <1>3, <2>1 DEF Users, Return, ForUsers
    <2>2. CASE UserFetch
      <3>1. server' = server /\ pc \in ForUsers
          BY <2>2 DEF UserFetch, ForUsers
      <3>2. \A v \in marks' : v \in marks \/ v \in Current(Head(chunks))
          BY <2>2 DEF UserFetch
      <3> QED BY <1>0, <3>1, <3>2 DEF Current, UsersOf
    <2>3. CASE pc \in ForUsers /\ UNCHANGED <<server, marks>>
        BY <1>0, <2>3
    <2>4. Users \/ UserFetch \/ (pc \in ForUsers /\ UNCHANGED <<server, marks>>)
        BY <1>3 DEF Next, Session, Fetch, Connect, Deletions, DropDevices, PurgeDevices,
           PurgeOrphans, DropAreas, PurgeAreas, Purge, DropUsers, PurgeUsers, UserSession,
           UserDrop, DropOld, NextChunk, DeviceSession, Devices, AreasPut, AreasDrop,
           Choose, DevicePush, DeviceAck, DeviceFetch, DeviceDrop, Marks, Finish, Erase, Send,
           Return, User, Click, ClickBusy, Refresh, Crash, Editors, PhoneEdit, WebEdit, WebDelete,
           vars, ForUsers, May
    <2> QED BY <2>1, <2>2, <2>3, <2>4
  <1>4. ASSUME pc' \in Marking
        PROVE  marks' \subseteq Of("device")
    <2>1. CASE Choose
        BY <1>4, <2>1 DEF Choose, Marking
    <2>2. CASE DeviceFetch
      <3>1. \A v \in marks' : v \in marks \/ v \in InChunk(server, "0")
          BY <2>2 DEF DeviceFetch
      <3> QED BY <1>0, <2>2, <3>1 DEF InChunk, DeviceFetch, Marking
    <2>3. CASE pc \in Marking /\ UNCHANGED marks
        BY <1>0, <2>3
    <2>4. Choose \/ DeviceFetch \/ (pc \in Marking /\ UNCHANGED marks)
        BY <1>4 DEF Next, Session, Fetch, Connect, Deletions, DropDevices, PurgeDevices,
           PurgeOrphans, DropAreas, PurgeAreas, Purge, DropUsers, PurgeUsers, UserSession,
           Users, UserFetch, UserDrop, DropOld, NextChunk, DeviceSession, Devices, AreasPut,
           AreasDrop, DevicePush, DeviceAck, DeviceDrop, Marks, Finish, Erase, Send,
           Return, User, Click, ClickBusy, Refresh, Crash, Editors, PhoneEdit, WebEdit, WebDelete,
           vars, Marking
    <2> QED BY <2>1, <2>2, <2>3, <2>4
  <1> QED BY <1>1, <1>2, <1>3, <1>4

\* A chunk whose turn comes brings its users, or the session fails; when the
\* chunks run out nobody is left to come.
LEMMA UsersCome ==
  ASSUME TypeInv, UserInv, ~May("web_edit"), [Next]_vars, pc \in ForUsers \cup AfterUsers,
         pc' \in ForUsers \cup AfterUsers, ok', NEW u \in Of("user"), Awaited(u)'
  PROVE  \/ Arrived(u)'
         \/ pc' = "user" /\ AreaOf[u] \in Left(chunks')
         \/ pc' = "user_drop" /\ AreaOf[u] \in Left(Tail(chunks'))
  <1> USE DEF files, sqlite, choice, session, history
  <1>0. /\ u \in Items /\ server \in Database /\ chunks \in Seq(SUBSET Items)
        /\ pc \in {"user", "user_drop"} => Len(chunks) > 0
      BY OfItems DEF TypeInv, TypeOK, ChunkLeft, Handlers
  <1>1. Awaited(u) /\ server'[u].ver = server[u].ver /\ wanted' = wanted
      BY AwaitedBefore
  <1>2. ok
      BY DEF Next, Session, Fetch, Connect, Deletions, DropDevices, PurgeDevices, PurgeOrphans,
         DropAreas, PurgeAreas, Purge, DropUsers, PurgeUsers, UserSession, Users, UserFetch,
         UserDrop, DropOld, DeviceSession, Devices, AreasPut, AreasDrop, Choose, DevicePush,
         DeviceAck, DeviceFetch, DeviceDrop, Marks, Finish, Erase, Send, Return, User, Click,
         ClickBusy, Refresh, Crash, Editors, PhoneEdit, WebEdit, WebDelete, vars, ForUsers,
         AfterUsers
  <1>3. \/ Arrived(u)
        \/ pc = "user" /\ AreaOf[u] \in Left(chunks)
        \/ pc = "user_drop" /\ AreaOf[u] \in Left(Tail(chunks))
      BY <1>1, <1>2 DEF UserInv
  <1>4. CASE Arrived(u)
      BY <1>1, <1>4, ArrivedStays DEF Awaited
  <1>5. CASE UNCHANGED <<pc, chunks>> /\ ~Arrived(u)
      BY <1>3, <1>5
  <1>6. CASE UserFetch /\ AreaOf[u] \in Left(chunks)
    <2>1. interm # NoFile
        BY <1>6 DEF UserFetch
    <2>2. PICK select \in Outcomes("mysql"), insert \in SqliteOutcomes(TRUE) :
            LET new == IF select THEN Current(Head(chunks)) ELSE {}
                done == new = {} \/ insert
            IN /\ interm' = IF new # {} /\ insert THEN Put(interm, server, new) ELSE interm
               /\ ok' = (ok /\ select /\ done)
        BY <1>6, <2>1 DEF UserFetch
    <2>3. pc' = "user_drop" /\ chunks' = chunks /\ server' = server
        BY <1>6, <2>1 DEF UserFetch
    <2>4. CASE AreaOf[u] \in Left(Tail(chunks))
        BY <2>3, <2>4
    <2>5. CASE AreaOf[u] \in Head(chunks)
      <3>1. u \in Current(Head(chunks))
        <4>1. AreaOf[u] \in Items
            BY <1>1 DEF Awaited, TypeInv, TypeOK
        <4>2. AreaOf[u] # Root
            BY <4>1, ItemsAssumption
        <4> QED BY <1>1, <2>5, <4>2 DEF Current, UsersOf, Awaited
      <3>2. select /\ insert /\ interm' = Put(interm, server, Current(Head(chunks)))
          BY <2>2, <3>1
      <3>3. interm \in Database
          BY <3>2, SqliteNeedsDB, DatabaseFile DEF TypeInv, TypeOK
      <3>4. interm' \in Database /\ interm'[u] = server[u]
          BY <1>0, <3>1, <3>2, <3>3, PutType DEF Put
      <3> QED BY <1>1, <2>3, <3>4, DatabaseIsDB DEF Arrived, Awaited, Has
    <2>6. AreaOf[u] \in Head(chunks) \cup Left(Tail(chunks))
        BY <1>0, <1>6, LeftTail DEF UserFetch
    <2> QED BY <2>4, <2>5, <2>6
  <1>7. CASE UserDrop /\ AreaOf[u] \in Left(Tail(chunks))
    <2>1. /\ chunks' = Tail(chunks)
          /\ pc' = IF Len(chunks) = 1 THEN "user_marks" ELSE "user"
        BY <1>7 DEF UserDrop, DropOld, NextChunk
    <2>2. Len(chunks) # 1
      <3> SUFFICES ASSUME Len(chunks) = 1 PROVE FALSE
          OBVIOUS
      <3>1. chunks \in Seq(SUBSET Items) /\ chunks # <<>>
          BY <1>0
      <3>2. Tail(chunks) \in Seq(SUBSET Items) /\ Len(Tail(chunks)) = 0
          BY <3>1, HeadTailProperties
      <3>3. DOMAIN Tail(chunks) = 1..0
          BY <3>2, LenProperties
      <3>4. Left(Tail(chunks)) = {}
          BY <3>3 DEF Left
      <3> QED BY <1>7, <3>4
    <2> QED BY <1>7, <2>1, <2>2
  <1>8. pc \in {"user", "user_drop"} =>
          (UserFetch /\ pc = "user") \/ (UserDrop /\ pc = "user_drop") \/ UNCHANGED <<pc, chunks>>
      BY DEF Next, Session, Fetch, Connect, Deletions, DropDevices, PurgeDevices,
         PurgeOrphans, DropAreas, PurgeAreas, Purge, DropUsers, PurgeUsers, UserSession, Users,
         UserFetch, UserDrop, DeviceSession, Devices, AreasPut, AreasDrop, Choose, DevicePush,
         DeviceAck, DeviceFetch, DeviceDrop, Marks, Finish, Erase, Send, Return, User, Click,
         ClickBusy, Refresh, Crash, Editors, PhoneEdit, WebEdit, WebDelete, vars, ForUsers,
         AfterUsers
  <1> QED BY <1>3, <1>4, <1>5, <1>6, <1>7, <1>8

LEMMA UserStep == TypeInv /\ UserInv /\ [Next]_vars => UserInv'
  <1> SUFFICES ASSUME TypeInv, UserInv, [Next]_vars, ~May("web_edit")
               PROVE  UserInv'
      BY RegimeStays DEF UserInv, May
  <1> USE DEF files, sqlite, choice, session, history
  <1>1. ASSUME pc' \in ForUsers \cup AfterUsers, ok', NEW u \in Of("user"), Awaited(u)'
        PROVE  \/ Arrived(u)'
               \/ pc' = "user" /\ AreaOf[u] \in Left(chunks')
               \/ pc' = "user_drop" /\ AreaOf[u] \in Left(Tail(chunks'))
    <2>1. CASE pc \in ForUsers \cup AfterUsers
        BY <1>1, <2>1, UsersCome
    <2>2. CASE Users
      <3>1. CASE pc' = "user"
        <4>1. PICK i \in Shown \cap Of("area") :
                chunks' \in Cuts(Branch(i, "area")) /\ wanted' = Branch(i, "area")
            BY <2>2, <3>1 DEF Users, Return
        <4>2. Left(chunks') = wanted'
            BY <4>1 DEF Cuts, Left
        <4> QED BY <1>1, <3>1, <4>2 DEF Awaited
      <3>2. CASE pc' # "user"
        <4>1. wanted' = {}
            BY <1>1, <2>2, <3>2 DEF Users, Return, UserInv, BeforeUsers, ForUsers, AfterUsers
        <4> QED BY <1>1, <4>1 DEF Awaited
      <3> QED BY <3>1, <3>2
    <2>3. pc \in ForUsers \cup AfterUsers \/ Users
        BY <1>1 DEF Next, Session, Fetch, Connect, Deletions, DropDevices, PurgeDevices,
           PurgeOrphans, DropAreas, PurgeAreas, Purge, DropUsers, PurgeUsers, UserSession,
           UserFetch, UserDrop, DeviceSession, Devices, AreasPut, AreasDrop,
           Choose, DevicePush, DeviceAck, DeviceFetch, DeviceDrop, Marks, Finish, Erase, Send,
           Return, User, Click, ClickBusy, Refresh, Crash, Editors, PhoneEdit, WebEdit, WebDelete,
           vars, ForUsers, AfterUsers
    <2> QED BY <2>1, <2>2, <2>3
  <1>2. /\ (pc \in BeforeUsers => wanted = {})'
        /\ (pc = "erase" => ok)'
        /\ (pc \in ForUsers => \A u \in marks : u \in Of("user") /\ server[u].sync \in {"0", "1"})'
        /\ (pc \in Marking => marks \subseteq Of("device"))'
      BY UserMarks
  <1> QED BY <1>1, <1>2 DEF UserInv

LEMMA UserInit == Init => UserInv
  BY DEF Init, UserInv, BeforeUsers, ForUsers, AfterUsers, Marking

\* A session for users whose result is good has, when it erases the phone's
\* file, every user of the chosen areas in the file it will send, as the
\* server has it: users are marked before they are stored and whether or not
\* the insert succeeded (3767), but that they are selected again whatever
\* their mark, chunk after chunk, makes good for it.
THEOREM UsersDoArrive == Spec => []UsersArrive
  <1>1. Init => TypeInv /\ UserInv
      BY TypeInit, UserInit
  <1>2. TypeInv /\ UserInv /\ [Next]_vars => (TypeInv /\ UserInv)'
      BY TypeStep, UserStep
  <1>3. UserInv => UsersArrive
    <2> SUFFICES ASSUME UserInv, pc = "erase", ~May("web_edit"), NEW u \in Of("user"), Awaited(u)
                 PROVE  Arrived(u)
        BY DEF UsersArrive, Awaited, Arrived
    <2> QED BY DEF UserInv, AfterUsers
  <1> QED BY <1>1, <1>2, <1>3, PTL DEF Spec
=============================================================================
