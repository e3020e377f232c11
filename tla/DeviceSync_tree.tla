--------------------------- MODULE DeviceSync_tree ---------------------------
(***************************************************************************)
(* The tree of areas and devices, and what the deletions that follow it    *)
(* leave behind: no orphans on the server, no devices without their area   *)
(* on the phone, and no rows on the phone that the server has forgotten.   *)
(***************************************************************************)
EXTENDS DeviceSync_survival

Nodes == Items \cup {Root}

\* The parent of each member but the root is a member, too.
Closed(S) == \A k \in S \ {Root} : Parent[k] \in S

\* What lies above an item is the item and what lies above its parent.
LEMMA AboveStep ==
  ASSUME NEW i \in Items PROVE Above(i) = {i} \cup Above(Parent[i])
  <1> DEFINE p == Parent[i]
             Chain == {i} \cup Above(p)
  <1>0. i # Root /\ p \in Nodes
      BY ItemsAssumption DEF Nodes
  <1>1. \A j \in Items : Above(j) = {x \in Nodes : \A S \in SUBSET Nodes : j \in S /\ Closed(S) => x \in S}
      BY ItemsAssumption DEF Above, Ancestors, Closed, Nodes
  <1>2. ASSUME NEW S \in SUBSET Nodes, p \in S, Closed(S) PROVE Above(p) \subseteq S
      BY <1>0, <1>1, <1>2 DEF Above, Nodes
  <1>3. p \in Above(p) /\ Above(p) \subseteq Nodes
      BY <1>0, <1>1 DEF Above, Nodes
  <1>4. Closed(Above(p))
    <2> SUFFICES ASSUME NEW k \in Above(p) \ {Root} PROVE Parent[k] \in Above(p)
        BY DEF Closed
    <2>1. p # Root /\ p \in Items /\ k \in Items
        BY <1>0, <1>3 DEF Above, Nodes
    <2>2. Parent[k] \in Nodes
        BY <2>1, ItemsAssumption DEF Nodes
    <2>3. ASSUME NEW S \in SUBSET Nodes, p \in S, Closed(S) PROVE Parent[k] \in S
        BY <1>2, <2>1, <2>3 DEF Closed
    <2> QED BY <1>1, <2>1, <2>2, <2>3
  <1> HIDE DEF p
  <1>5. Closed(Chain)
      BY <1>3, <1>4 DEF Closed, p
  <1>6. Above(i) \subseteq Chain
    <2>1. Chain \in SUBSET Nodes
        BY <1>3 DEF Nodes
    <2> QED BY <1>1, <1>5, <2>1
  <1>7. ASSUME NEW S \in SUBSET Nodes, i \in S, Closed(S) PROVE Chain \subseteq S
    <2>1. p \in S
        BY <1>0, <1>7 DEF Closed, p
    <2> QED BY <1>2, <1>7, <2>1
  <1>8. Chain \subseteq Above(i)
    <2>1. Chain \subseteq Nodes
        BY <1>3 DEF Nodes
    <2> QED BY <1>1, <1>7, <2>1
  <1> QED BY <1>6, <1>8 DEF p

\* A closed set with an item has all that is above the item.
LEMMA AboveLeast ==
  ASSUME NEW i \in Nodes, NEW S \in SUBSET Nodes, i \in S, Closed(S)
  PROVE  Above(i) \subseteq S
  BY DEF Above, Ancestors, Closed, Nodes

LEMMA AboveType == \A i \in Nodes : i \in Above(i) /\ Above(i) \subseteq Nodes
  BY DEF Above, Ancestors, Nodes

LEMMA AboveClosed == \A i \in Nodes : Closed(Above(i))
  <1> SUFFICES ASSUME NEW i \in Nodes, NEW k \in Above(i) \ {Root} PROVE Parent[k] \in Above(i)
      BY DEF Closed
  <1>1. i \in Items /\ k \in Items
      BY AboveType DEF Above, Nodes
  <1>2. Parent[k] \in Nodes
      BY <1>1, ItemsAssumption DEF Nodes
  <1>3. ASSUME NEW S \in SUBSET Nodes, i \in S, Closed(S) PROVE Parent[k] \in S
      BY <1>3, AboveLeast DEF Closed
  <1> QED BY <1>1, <1>2, <1>3, ItemsAssumption DEF Above, Ancestors, Closed, Nodes

\* Above is transitive, and two nodes above the same node are one above the
\* other.
LEMMA AboveTransitive ==
  ASSUME NEW i \in Nodes, NEW j \in Above(i) PROVE Above(j) \subseteq Above(i)
  BY AboveType, AboveClosed, AboveLeast

LEMMA AboveLinear ==
  ASSUME NEW i \in Nodes, NEW j \in Above(i), NEW k \in Above(i)
  PROVE  j \in Above(k) \/ k \in Above(j)
  <1> DEFINE S == {x \in Above(i) : x \in Above(k) \/ k \in Above(x)}
  <1>1. S \in SUBSET Nodes /\ i \in S
      BY AboveType
  <1>2. ASSUME NEW x \in S \ {Root} PROVE Parent[x] \in S
    <2>1. x \in Items /\ Parent[x] \in Above(i)
        BY AboveType, AboveClosed DEF Closed, Nodes
    <2>2. CASE x \in Above(k)
        BY <2>1, <2>2, AboveType, AboveClosed DEF Closed
    <2>3. CASE k \in Above(x)
      <3>1. k = x \/ k \in Above(Parent[x])
          BY <2>1, <2>3, AboveStep
      <3> QED BY <2>1, <2>2, <2>3, <3>1, AboveType
    <2> QED BY <2>2, <2>3
  <1>3. Closed(S)
      BY <1>2 DEF Closed
  <1> HIDE DEF S
  <1>4. j \in S
      BY <1>1, <1>3, AboveLeast
  <1> QED BY <1>4 DEF S

-----------------------------------------------------------------------------
(* The branches the deletions take away.                                   *)

LEMMA AreasAbove == \A a \in Of("area") : Above(a) \subseteq Of("area") \cup {Root}
  <1>1. Closed(Of("area") \cup {Root})
      BY ItemsAssumption, ParentAssumption DEF Closed, Of
  <1> QED BY <1>1, AboveLeast DEF Of, Nodes

\* Every node of m_deleteTree was known at the refresh, and so is every node
\* that would lie on a cycle with it.
LEMMA DeleteTreeKnown ==
  ASSUME NEW p \in DeleteTree
  PROVE  p \in Known /\ \A x \in Above(p) : p \in Above(x) => x \in Known
  <1>1. PICK top \in Known \cup {Root}, S \in SUBSET Known : p \in Below(top, S)
      BY DEF DeleteTree
  <1>2. p \in Known /\ p \in Items /\ p # Root /\ top \in Above(p)
      BY <1>1, OfItems, ItemsAssumption DEF Below, Known, TreeItems
  <1>3. ASSUME NEW x \in Above(p), p \in Above(x) PROVE x \in Known
    <2>1. x \in Nodes /\ x # Root
        BY <1>2, <1>3, AboveType DEF Nodes, Above
    <2>2. top \in Above(x)
        BY <1>2, <1>3, <2>1, AboveTransitive
    <2>3. x \in S \cup {top}
        BY <1>1, <1>3, <2>2 DEF Below
    <2> QED BY <1>1, <2>1, <2>3
  <1> QED BY <1>2, <1>3

\* What hangs below a doomed node through known ones is doomed, too.
LEMMA DoomedHangs ==
  ASSUME NEW flag, NEW a \in Doomed(flag), NEW i \in TreeItems, a \in Above(i),
         \A x \in Above(i) : a \in Above(x) => x \in Known
  PROVE  i \in Doomed(flag)
  <1>1. PICK j \in DeleteTree : tree[j] = flag /\ a \in Below(j, DeleteTree) \cup {j}
      BY DEF Doomed
  <1>2. j \in Nodes /\ a \in Nodes /\ i \in Nodes /\ j \in Above(a) /\ j \in Above(i) /\ j \in Items
    <2>1. j \in Items /\ i \in Nodes
        BY <1>1, DeleteTreeKnown, OfItems DEF Nodes, Known, TreeItems
    <2>2. a \in Nodes /\ j \in Above(a)
        BY <1>1, <2>1, AboveType DEF Below, Nodes
    <2> QED BY <2>1, <2>2, AboveTransitive DEF Nodes
  <1>3. ASSUME NEW x \in Above(i), j \in Above(x) PROVE x \in Known
    <2>1. CASE a \in Above(x)
        BY <2>1
    <2>2. CASE x \in Above(a) /\ a # j
        BY <1>1, <1>3, <2>2, DeleteTreeKnown DEF Below
    <2>3. CASE x \in Above(a) /\ a = j
        BY <1>1, <1>3, <2>3, DeleteTreeKnown
    <2> QED BY <1>2, <2>1, <2>2, <2>3, AboveLinear
  <1>4. PICK top \in Known \cup {Root}, S \in SUBSET Known :
          /\ j \in Below(top, S) /\ Below(top, S) \subseteq DeleteTree
          /\ S = Known \/ S = Known \cap Of("device")
      BY <1>1 DEF DeleteTree
  <1>5. ASSUME NEW x \in Above(i), j \in Above(x) PROVE x \in S
    <2>1. x \in Known
        BY <1>3, <1>5
    <2>2. CASE S = Known \cap Of("device")
      <3>1. j \in Of("device") /\ j \notin Of("area") \cup {Root}
          BY <1>2, <1>4, <2>2, ItemsAssumption DEF Below, Of
      <3>2. x \notin Of("area")
          BY <1>5, <3>1, AreasAbove
      <3> QED BY <2>1, <2>2, <3>2 DEF Known, TreeItems
    <2> QED BY <1>4, <2>1, <2>2
  <1>6. ASSUME NEW x \in Above(i), j \in Above(x) PROVE x \in DeleteTree
    <2>1. x \in Nodes /\ top \in Above(x)
        BY <1>2, <1>4, <1>6, AboveType, AboveTransitive DEF Below
    <2>2. ASSUME NEW y \in Above(x), top \in Above(y) PROVE y \in S \cup {top}
      <3>1. y \in Above(j) \/ j \in Above(y)
          BY <1>6, <2>1, AboveLinear
      <3>2. y \in Above(i)
          BY <1>2, <2>1, AboveTransitive
      <3> QED BY <1>4, <1>5, <2>2, <3>1, <3>2 DEF Below
    <2> QED BY <1>4, <1>5, <1>6, <2>1, <2>2 DEF Below
  <1>7. i \in Below(j, DeleteTree)
      BY <1>2, <1>6, AboveType DEF Below
  <1> QED BY <1>1, <1>7 DEF Doomed

LEMMA DoomedChild ==
  ASSUME NEW flag, NEW i \in Known, Parent[i] \in Doomed(flag) PROVE i \in Doomed(flag)
  <1> DEFINE p == Parent[i]
  <1>1. i \in TreeItems /\ i \in Items /\ p \in DeleteTree
      BY OfItems DEF Known, TreeItems, Doomed, Below
  <1>2. Above(i) = {i} \cup Above(p)
      BY <1>1, AboveStep
  <1>3. p \in Above(i)
      BY <1>1, <1>2, AboveType, ItemsAssumption DEF Nodes
  <1>4. \A x \in Above(i) : p \in Above(x) => x \in Known
      BY <1>1, <1>2, DeleteTreeKnown
  <1> QED BY <1>1, <1>3, <1>4, DoomedHangs

-----------------------------------------------------------------------------
(* Orphans.  The tree of the last refresh has whatever the server has, and *)
(* by the time areas leave the server the devices below them have left.    *)

TreeInv == \A i \in TreeItems : Has(server, i) => i \in Known

LEMMA TreeStays ==
  ASSUME [Next]_vars
  PROVE  tree' = tree \/ (tree' = Flags(server) /\ server' = server /\ pc' = "idle")
  BY DEF Next, Session, Fetch, Connect, Deletions, DropDevices, PurgeDevices, PurgeOrphans,
     DropAreas, PurgeAreas, Purge, DropUsers, PurgeUsers, UserSession, Users, UserFetch, UserDrop,
     DropOld, DeviceSession, Devices, AreasPut, AreasDrop, Choose, DevicePush, DeviceAck,
     DeviceFetch, DeviceDrop, Marks, Finish, Erase, Send, Return, User, Click, ClickBusy, Refresh,
     Crash, Editors, PhoneEdit, WebEdit, WebDelete, vars, session

LEMMA TreeStep == TypeInv /\ TreeInv /\ [Next]_vars => TreeInv'
  <1> SUFFICES ASSUME TypeInv, TreeInv, [Next]_vars, NEW i \in TreeItems, Has(server', i)
               PROVE  tree'[i] # "none"
      BY DEF TreeInv, Known
  <1>1. i \in Items /\ Has(server, i) /\ tree[i] # "none"
      BY HeldGrows, OfItems DEF TreeInv, Known, TreeItems
  <1>2. Flags(server)[i] # "none"
      BY <1>1 DEF Flags, Has
  <1> QED BY <1>1, <1>2, TreeStays

Firm == regime \cap {"mysql", "later", "sqlite"} = {}
OrphanInv ==
  Firm =>
    /\ NoServerOrphans
    /\ pc \in {"purge_orphans", "drop_areas", "purge_areas"} =>
         \/ pc = "drop_areas" /\ ~IsDB(interm)
         \/ \A d \in Doomed("3") \cap Of("device") : ~Has(server, d)

\* Without failures a batch is carried out as a whole.
LEMMA FirmOutcomes ==
  ASSUME Firm
  PROVE  /\ \A S : \A u \in UpdateMysqlDB(S) : u.ret = TRUE /\ u.done = S
         /\ \A b : FALSE \in SqliteOutcomes(b) => ~b \/ ~IsDB(interm)
  <1>1. ~May("mysql") /\ ~May("later") /\ ~May("sqlite")
      BY DEF Firm, May
  <1>2. ASSUME NEW S, NEW u \in UpdateMysqlDB(S) PROVE u = [ret |-> TRUE, done |-> S]
    <2>1. CASE \E T \in {U \in SUBSET S : May("mysql") /\ S # {}} : u = [ret |-> FALSE, done |-> T]
        BY <1>1, <2>1
    <2>2. CASE \E T \in {U \in SUBSET S : May("later") /\ U # {}} : u = [ret |-> TRUE, done |-> T]
        BY <1>1, <2>2
    <2> QED BY <2>1, <2>2 DEF UpdateMysqlDB
  <1>3. \A S : \A u \in UpdateMysqlDB(S) : u.ret = TRUE /\ u.done = S
      BY <1>2
  <1>4. \A b : FALSE \in SqliteOutcomes(b) => ~b \/ ~IsDB(interm)
      BY <1>1 DEF SqliteOutcomes, Outcomes
  <1> QED BY <1>3, <1>4

LEMMA ParentsAre ==
  /\ \A i \in TreeItems : Parent[i] # Root =>
       Parent[i] \in TreeItems /\ (Parent[i] \in Of("device") => i \in Of("device"))
  /\ \A t \in Of("task") : Parent[t] # Root => Parent[t] \in Of("device")
  BY ItemsAssumption, ParentAssumption DEF TreeItems, Of

\* The purges keep the server's tree whole.
LEMMA WholeTree ==
  ASSUME TypeInv, TreeInv, OrphanInv, Firm, [Next]_vars,
         NEW i \in TreeItems, Has(server', i), Parent[i] # Root
  PROVE  Has(server', Parent[i])
  <1> DEFINE p == Parent[i]
  <1>1. i \in Items /\ Has(server, i) /\ i \in Known /\ Has(server, p) /\ p \in TreeItems
      BY HeldGrows, OfItems, ParentsAre DEF TreeInv, TreeItems, OrphanInv, NoServerOrphans, Firm
  <1> SUFFICES ASSUME ~Has(server', p) PROVE FALSE
      OBVIOUS
  <1>2. ASSUME NEW S, NEW next, Purge(next, S) PROVE p \in S /\ i \notin S
      BY <1>1, <1>2, DropHas, OfItems DEF Purge, TypeInv, TypeOK, TreeItems
  <1>3. CASE PurgeDevices
    <2>1. Purge("purge_orphans", Doomed("3") \cap Of("device"))
        BY <1>3, FirmOutcomes DEF PurgeDevices
    <2>2. i \in Doomed("3") /\ i \in Of("device")
        BY <1>1, <1>2, <2>1, DoomedChild, ParentsAre
    <2> QED BY <1>2, <2>1, <2>2
  <1>4. CASE PurgeAreas
    <2> DEFINE areas == Doomed("3") \cap Of("area")
    <2>1. PICK kept : Purge("drop_users", areas \cup UsersOf(areas \ kept)) /\ pc = "purge_areas"
                      /\ kept = {}
      <3>1. ~May("mysql") /\ ~May("later")
          BY DEF Firm, May
      <3> QED BY <1>4, <3>1, FirmOutcomes DEF PurgeAreas
    <2>2. p \in areas
      <3>1. p \notin Of("user")
          BY <1>1 DEF TreeItems, Of
      <3> QED BY <1>2, <2>1, <3>1 DEF UsersOf
    <2>3. i \in Doomed("3")
        BY <1>1, <2>2, DoomedChild
    <2>4. i \notin Of("area")
        BY <1>2, <2>1, <2>3
    <2>5. i \in Doomed("3") \cap Of("device")
        BY <2>3, <2>4 DEF TreeItems
    <2> QED BY <1>1, <2>1, <2>5 DEF OrphanInv
  <1> QED BY <1>1, <1>3, <1>4, OnlyPurges

\* Work rows lose their device only until the next statement.
LEMMA WholeTasks ==
  ASSUME TypeInv, OrphanInv, Firm, [Next]_vars, ~May("crash"), pc' # "purge_orphans",
         NEW t \in Of("task"), Has(server', t), Parent[t] # Root
  PROVE  Has(server', Parent[t])
  <1> DEFINE p == Parent[t]
  <1>1. t \in Items /\ Has(server, t) /\ p \in Of("device") /\ p \in TreeItems /\ p \in Items
      BY HeldGrows, OfItems, ParentsAre DEF TreeItems
  <1>2. CASE pc = "purge_orphans"
    <2>1. PurgeOrphans
        BY <1>2 DEF Next, Session, Fetch, Connect, Deletions, DropDevices, PurgeDevices, DropAreas,
           PurgeAreas, DropUsers, PurgeUsers, UserSession, Users, UserFetch, UserDrop,
           DeviceSession, Devices, AreasPut, AreasDrop, Choose, DevicePush, DeviceAck, DeviceFetch,
           DeviceDrop, Marks, Finish, Erase, Send, User, Click, ClickBusy, Refresh, Crash, Editors,
           PhoneEdit, WebEdit, WebDelete, vars, session
    <2>2. Purge("drop_areas", Orphans(server))
        BY <2>1, FirmOutcomes DEF PurgeOrphans
    <2>3. t \notin Orphans(server) /\ p \notin Orphans(server)
      <3>1. t \notin Orphans(server)
          BY <1>1, <2>2, DropHas DEF Purge, TypeInv, TypeOK
      <3> QED BY <1>1, <3>1 DEF Orphans, Of
    <2> QED BY <1>1, <2>2, <2>3, DropHas DEF Orphans, Purge, TypeInv, TypeOK
  <1>3. CASE pc # "purge_orphans"
    <2>1. Has(server, p)
        BY <1>1, <1>3 DEF OrphanInv, NoServerOrphans, Firm
    <2>2. ~PurgeDevices
        BY DEF PurgeDevices, Purge
    <2>3. CASE ~Has(server', p)
      <3>1. p \in Of("area")
          BY <1>1, <2>1, <2>2, <2>3, OnlyPurges
      <3> QED BY <1>1, <3>1 DEF Of
    <2> QED BY <2>3
  <1> QED BY <1>2, <1>3

\* The devices to be purged are gone before areas are.
LEMMA DevicesFirst ==
  ASSUME TypeInv, OrphanInv, Firm, [Next]_vars,
         pc' \in {"purge_orphans", "drop_areas", "purge_areas"}
  PROVE  \/ pc' = "drop_areas" /\ ~IsDB(interm')
         \/ \A d \in Doomed("3")' \cap Of("device") : ~Has(server', d)
  <1> USE DEF files, sqlite, choice, session, history
  <1>0. tree' = tree /\ Doomed("3")' = Doomed("3")
    <2>1. tree' = tree
        BY TreeStays
    <2> QED BY <2>1 DEF Doomed, DeleteTree, Known
  <1>1. \A d \in Of("device") : ~Has(server, d) => ~Has(server', d)
      BY HeldGrows, OfItems
  <1>2. CASE PurgeDevices
    <2>1. Purge("purge_orphans", Doomed("3") \cap Of("device"))
        BY <1>2, FirmOutcomes DEF PurgeDevices
    <2> QED BY <1>0, <2>1, DropHas, OfItems DEF Purge, TypeInv, TypeOK
  <1>3. CASE PurgeOrphans
      BY <1>0, <1>1, <1>3 DEF PurgeOrphans, OrphanInv
  <1>4. CASE DropDevices
    <2>1. CASE Leaving \cap Of("device") = {}
        BY <1>0, <2>1 DEF Leaving
    <2>2. CASE Leaving \cap Of("device") # {}
        BY <1>4, <2>2, FirmOutcomes DEF DropDevices
    <2> QED BY <2>1, <2>2
  <1>5. CASE DropAreas
    <2>1. pc' = "purge_areas" /\ IsDB(interm)
      <3>1. TRUE \in SqliteOutcomes(handle)
          BY <1>5 DEF DropAreas
      <3> QED BY <1>5, <3>1, SqliteNeedsDB DEF DropAreas, TypeInv, TypeOK
    <2> QED BY <1>0, <1>1, <1>5, <2>1 DEF DropAreas, OrphanInv
  <1>6. CASE UNCHANGED <<pc, interm>>
      BY <1>0, <1>1, <1>6 DEF OrphanInv
  <1>7. Session => PurgeDevices \/ PurgeOrphans \/ DropDevices \/ DropAreas
      BY DEF Session, Fetch, Connect, Deletions, PurgeAreas, Purge, DropUsers, PurgeUsers,
         UserSession, Users, UserFetch, UserDrop, DropOld, NextChunk, DeviceSession, Devices,
         AreasPut, AreasDrop, Choose, DevicePush, DeviceAck, DeviceFetch, DeviceDrop, Marks,
         Finish, Erase, Send, Return
  <1>8. User \/ Crash \/ Editors \/ UNCHANGED vars => UNCHANGED <<pc, interm>>
      BY DEF User, Click, ClickBusy, Refresh, Crash, Return, Editors, PhoneEdit, WebEdit,
         WebDelete, vars
  <1> QED BY <1>2, <1>3, <1>4, <1>5, <1>6, <1>7, <1>8 DEF Next

LEMMA OrphanStep == TypeInv /\ TreeInv /\ OrphanInv /\ [Next]_vars => OrphanInv'
  <1> SUFFICES ASSUME TypeInv, TreeInv, OrphanInv, [Next]_vars, Firm
               PROVE  /\ NoServerOrphans'
                      /\ pc' \in {"purge_orphans", "drop_areas", "purge_areas"} =>
                           \/ pc' = "drop_areas" /\ ~IsDB(interm')
                           \/ \A d \in Doomed("3")' \cap Of("device") : ~Has(server', d)
      BY RegimeStays DEF OrphanInv, Firm
  <1>1. May("crash")' = May("crash")
      BY RegimeStays DEF May
  <1>2. NoServerOrphans'
      BY <1>1, WholeTree, WholeTasks DEF NoServerOrphans
  <1> QED BY <1>2, DevicesFirst

LEMMA OrphanInit == Init => TreeInv /\ OrphanInv
  <1> SUFFICES ASSUME Init PROVE TreeInv /\ OrphanInv
      OBVIOUS
  <1>1. \A i \in Items : Has(server, i) /\ tree[i] # "none"
      BY DEF Init, Flags, Has
  <1>2. \A i \in Items : Parent[i] # Root => Has(server, Parent[i])
      BY <1>1, ItemsAssumption
  <1> QED BY <1>1, <1>2, OfItems DEF Init, TreeInv, OrphanInv, NoServerOrphans, Known, TreeItems

\* The server never keeps a device or an area whose parent is gone, nor a
\* work row whose device is: the branch to delete is the same for the devices
\* and for the areas (3261-3290), it holds whatever hangs below a flagged node, the
\* devices go first (3408) and the work rows next (3421).
THEOREM ServerStaysWhole == Spec => []NoServerOrphans
  <1>1. Init => TypeInv /\ TreeInv /\ OrphanInv
      BY TypeInit, OrphanInit
  <1>2. TypeInv /\ TreeInv /\ OrphanInv /\ [Next]_vars => (TypeInv /\ TreeInv /\ OrphanInv)'
      BY TypeStep, TreeStep, OrphanStep
  <1>3. OrphanInv => NoServerOrphans
      BY DEF OrphanInv, NoServerOrphans, Firm
  <1> QED BY <1>1, <1>2, <1>3, PTL DEF Spec

-----------------------------------------------------------------------------
(* Devices and their areas.                                                *)

Quiet == regime \cap {"mysql", "later", "sqlite", "stale", "web_edit"} = {}

Fine(f, s) == IsDB(f) => \A d \in Placed : Has(f, d) /\ Has(s, d) => Has(f, AreaOf[d])

Fetching == {"device", "device_ack", "device_drop"}
BeforeDevices ==
  {"purge_devices", "purge_orphans", "drop_areas", "purge_areas", "drop_users", "purge_users",
   "users", "user", "user_drop", "user_marks", "devices", "areas", "areas_drop"}

AreaInv ==
  Quiet =>
    /\ \A f \in {phone, interm} \cup backups : Fine(f, server)
    /\ pc # "idle" => \A i \in Items : server[i].sync \in {"2", "3"} => tree[i] = server[i].sync
    /\ pc \in BeforeDevices /\ IsDB(interm) => \A d \in Leaving \cap Of("device") : ~Has(interm, d)
    /\ IsDB(interm) /\ (pc = "areas_drop" \/ (pc \in {"choose"} \cup Fetching /\ dir = "to_phone")) =>
         \A a \in Shown \cap Of("area") : Has(server, a) => Has(interm, a)
    /\ pc \in Fetching => Left(chunks) \subseteq Shown

\* What the server has, it has with all that is above.
LEMMA ServerClosed ==
  ASSUME NoServerOrphans, Firm, NEW i \in TreeItems, Has(server, i),
         NEW x \in Above(i) \ {Root}
  PROVE  x \in TreeItems /\ Has(server, x)
  <1> DEFINE S == {y \in TreeItems : Has(server, y)} \cup {Root}
  <1>1. S \in SUBSET Nodes /\ i \in Nodes
      BY OfItems DEF TreeItems, Nodes
  <1>2. Closed(S)
    <2> SUFFICES ASSUME NEW k \in S \ {Root}, Parent[k] # Root PROVE Parent[k] \in S
        BY DEF Closed
    <2> QED BY ParentsAre DEF NoServerOrphans, Firm
  <1> QED BY <1>1, <1>2, AboveLeast

\* A device the server has goes with its area.
LEMMA PlacedHangs ==
  ASSUME NoServerOrphans, Firm, TreeInv, NEW d \in Placed, Has(server, d)
  PROVE  /\ AreaOf[d] \in Of("area") /\ Has(server, AreaOf[d])
         /\ \A flag : AreaOf[d] \in Doomed(flag) => d \in Doomed(flag)
         /\ \A flag : tree[AreaOf[d]] = flag /\ flag # "none" => AreaOf[d] \in Doomed(flag)
  <1> DEFINE a == AreaOf[d]
  <1>1. /\ d \in TreeItems /\ d \in Nodes /\ a \in Of("area") /\ a \in Above(d) /\ UserArea \in Above(a)
        /\ a \in TreeItems /\ a \in Nodes /\ a # Root /\ a \in Items
      BY OfItems, ItemsAssumption DEF Placed, TreeItems, Nodes
  <1>2. \A x \in Above(d) \ {Root} : x \in Known /\ Has(server, x)
      BY <1>1, ServerClosed DEF TreeInv
  <1>3. \A x \in Above(a) \ {Root} : x \in Known
      BY <1>1, <1>2, AboveTransitive
  <1>4. ASSUME NEW flag, a \in Doomed(flag) PROVE d \in Doomed(flag)
    <2>1. \A x \in Above(d) : a \in Above(x) => x \in Known
        BY <1>1, <1>2 DEF Above
    <2> QED BY <1>1, <1>4, <2>1, DoomedHangs
  <1>5. ASSUME NEW flag, tree[a] = flag PROVE a \in Doomed(flag)
    <2>1. UserArea \in Known \cup {Root}
        BY <1>1, <1>3
    <2>2. a \in Known
        BY <1>1, <1>2
    <2>3. a \in Below(UserArea, Known)
      <3>1. UserArea \in Above(Root) => UserArea = Root
          BY DEF Above
      <3> QED BY <1>1, <1>3, <2>2, <3>1 DEF Below
    <2>4. a \in DeleteTree
        BY <2>1, <2>3 DEF DeleteTree
    <2> QED BY <1>5, <2>4 DEF Doomed
  <1> QED BY <1>1, <1>2, <1>4, <1>5

\* The area of a device that can be chosen can be chosen.
LEMMA PlacedShown == ASSUME NEW d \in Placed \cap Shown PROVE AreaOf[d] \in Shown
  <1> DEFINE a == AreaOf[d]
             live == {i \in TreeItems : tree[i] \in {"0", "1"}}
  <1>1. /\ d \in Nodes /\ a \in Of("area") /\ a \in Above(d) /\ UserArea \in Above(a)
        /\ a \in Nodes /\ a # Root /\ Above(a) \subseteq Above(d)
    <2>1. /\ d \in Nodes /\ a \in Of("area") /\ a \in Above(d) /\ UserArea \in Above(a)
          /\ a \in Nodes /\ a # Root
        BY OfItems, ItemsAssumption DEF Placed, Nodes
    <2> QED BY <2>1, AboveTransitive
  <1>2. CASE d \in Below(UserArea, live) /\ UserArea \in live \cup {Root}
    <2>1. \A x \in Above(a) : UserArea \in Above(x) => x \in live \cup {UserArea}
        BY <1>1, <1>2 DEF Below
    <2>2. a \in live
        BY <1>1, <1>2, <2>1, AboveType
    <2>3. a \in Below(UserArea, live)
        BY <1>1, <2>1, <2>2 DEF Below
    <2> QED BY <1>2, <2>3 DEF Shown
  <1>3. CASE d \in Below(Root, live \cap Of("device"))
    <2>1. Root \in Above(d)
        BY <1>3 DEF Below
    <2>2. Root \in Above(a)
        BY <1>1, <2>1, AboveLinear DEF Above
    <2>3. a \in Of("device")
        BY <1>1, <1>3, <2>2 DEF Below
    <2> QED BY <1>1, <2>3 DEF Of
  <1>4. Shown = (IF UserArea \in live \cup {Root} THEN Below(UserArea, live) ELSE {})
                \cup Below(Root, live \cap Of("device"))
      BY DEF Shown
  <1> HIDE DEF live
  <1> QED BY <1>2, <1>3, <1>4

\* Dropping other rows and storing rows with their areas keeps a file fine.
LEMMA FineDrop ==
  ASSUME NEW f \in Database, NEW s, Fine(f, s), NEW S \in SUBSET Items,
         \A d \in Placed : Has(f, d) /\ Has(s, d) /\ d \notin S => AreaOf[d] \notin S
  PROVE  Fine(Drop(f, S), s)
  <1> SUFFICES ASSUME NEW d \in Placed, Has(Drop(f, S), d), Has(s, d) PROVE Has(Drop(f, S), AreaOf[d])
      BY DEF Fine
  <1>1. d \in Items /\ AreaOf[d] \in Items
      BY OfItems DEF Placed
  <1>2. Has(f, d) /\ d \notin S
      BY <1>1, DropHas
  <1>3. Has(f, AreaOf[d])
      BY <1>2, DatabaseIsDB DEF Fine
  <1> QED BY <1>1, <1>2, <1>3, DropHas

LEMMA FinePut ==
  ASSUME NEW f \in Database, NEW rows \in Database, NEW s, Fine(f, s), NEW S \in SUBSET Items,
         \A a \in S \cap Of("area") : Has(f, a) => Has(rows, a),
         \A d \in S \cap Placed : Has(rows, d) /\ Has(s, d) => Has(f, d) \/ Has(f, AreaOf[d])
  PROVE  Fine(Put(f, rows, S), s)
  <1> SUFFICES ASSUME NEW d \in Placed, Has(Put(f, rows, S), d), Has(s, d)
               PROVE  Has(Put(f, rows, S), AreaOf[d])
      BY DEF Fine
  <1>1. d \in Items /\ AreaOf[d] \in Items /\ AreaOf[d] \in Of("area")
      BY OfItems DEF Placed
  <1>2. Has(f, d) \/ Has(f, AreaOf[d])
      BY <1>1 DEF Put, Has
  <1>3. Has(f, AreaOf[d])
      BY <1>2, DatabaseIsDB DEF Fine
  <1> QED BY <1>1, <1>3 DEF Put, Has

LEMMA FineNothing == \A s : Fine(NoFile, s) /\ Fine(Corrupt, s)
  BY DEF Fine, IsDB

LEMMA QuietFacts ==
  ASSUME Quiet PROVE Firm /\ ~May("web_edit") /\ ~May("stale")
  BY DEF Quiet, Firm, May

LEMMA InterimFine ==
  ASSUME TypeInv, TreeInv, OrphanInv, AreaInv, Quiet, [Next]_vars
  PROVE  Fine(interm', server)
  <1>0. /\ IsDB(interm) => interm \in Database
        /\ server \in Database /\ Synced(server) \in Database
        /\ IsDB(interm) => Synced(interm) \in Database
        /\ Fine(interm, server) /\ Fine(phone, server)
        /\ NoServerOrphans /\ Firm
    <2>1. Firm
        BY QuietFacts
    <2> QED BY <2>1, DatabaseFile, SyncedType DEF TypeInv, TypeOK, AreaInv, OrphanInv
  <1>1. CASE interm' \in {interm, NoFile, Corrupt, phone}
      BY <1>0, <1>1, FineNothing
  <1>2. ASSUME IsDB(interm), NEW S \in SUBSET Items, interm' = Drop(interm, S), S \cap Of("area") = {}
        PROVE  Fine(interm', server)
    <2>1. \A d \in Placed : AreaOf[d] \notin S
        BY <1>2 DEF Placed
    <2> QED BY <1>0, <1>2, <2>1, FineDrop
  <1>3. ASSUME IsDB(interm), NEW S \in SUBSET Items, interm' = Drop(interm, S),
               DropAreas, S \cap Of("area") \subseteq Leaving
        PROVE  Fine(interm', server)
    <2>1. ASSUME NEW d \in Placed, Has(interm, d), Has(server, d), AreaOf[d] \in S PROVE FALSE
      <3>1. AreaOf[d] \in Leaving /\ d \in Of("device")
          BY <1>3, <2>1 DEF Placed
      <3>2. d \in Leaving
          BY <1>0, <2>1, <3>1, PlacedHangs DEF Leaving
      <3>3. pc \in BeforeDevices
          BY <1>3 DEF DropAreas, BeforeDevices
      <3> QED BY <1>3, <2>1, <3>1, <3>2, <3>3 DEF AreaInv
    <2> QED BY <1>0, <1>3, <2>1, FineDrop
  <1>4. ASSUME IsDB(interm), AreasDrop, NEW S, S = {a \in Of("area") : server[a].sync = "2"},
               interm' = Drop(interm, S)
        PROVE  Fine(interm', server)
    <2>1. ASSUME NEW d \in Placed, Has(interm, d), Has(server, d), AreaOf[d] \in S PROVE FALSE
      <3>1. AreaOf[d] \in Items /\ server[AreaOf[d]].sync = "2" /\ d \in Of("device")
          BY <1>4, <2>1, OfItems DEF Placed
      <3>2. pc = "areas_drop"
          BY <1>4 DEF AreasDrop
      <3>3. tree[AreaOf[d]] = "2"
          BY <3>1, <3>2 DEF AreaInv
      <3>4. d \in Leaving
          BY <1>0, <2>1, <3>3, PlacedHangs DEF Leaving
      <3> QED BY <1>4, <2>1, <3>1, <3>2, <3>4 DEF AreaInv, BeforeDevices
    <2>2. S \in SUBSET Items
        BY <1>4, OfItems
    <2> QED BY <1>0, <1>4, <2>1, <2>2, FineDrop
  <1>5. ASSUME IsDB(interm), NEW S \in SUBSET Items, S = Current(Head(chunks)),
               interm' = Put(interm, server, S)
        PROVE  Fine(interm', server)
    <2>1. S \cap Of("area") = {} /\ S \cap Placed = {}
        BY <1>5 DEF Current, UsersOf, Of, Placed
    <2> QED BY <1>0, <1>5, <2>1, FinePut
  <1>6. ASSUME IsDB(interm), NEW S \in SUBSET Items, S = {a \in Shown \cap Of("area") : Has(server, a)},
               interm' = Put(interm, Synced(server), S)
        PROVE  Fine(interm', server)
    <2>1. \A a \in S \cap Of("area") : Has(Synced(server), a)
        BY <1>0, <1>6, SyncedHas DEF Put, Has
    <2>2. S \cap Placed = {}
        BY <1>6 DEF Of, Placed
    <2> QED BY <1>0, <1>6, <2>1, <2>2, FinePut
  <1>7. ASSUME IsDB(interm), NEW S \in SUBSET Items, interm' = Put(interm, Synced(interm), S)
        PROVE  Fine(interm', server)
    <2>1. \A i \in S : Has(Synced(interm), i) <=> Has(interm, i)
        BY <1>0, <1>7, SyncedHas DEF Put, Has
    <2> QED BY <1>0, <1>7, <2>1, FinePut
  <1>8. ASSUME IsDB(interm), DeviceFetch, dir = "to_phone", NEW S \in SUBSET Items,
               S = InChunk(server, "0"), interm' = Put(interm, Synced(server), S)
        PROVE  Fine(interm', server)
    <2>1. S \cap Of("area") = {}
        BY <1>8 DEF InChunk, Of
    <2>2. ASSUME NEW d \in S \cap Placed PROVE Has(interm, AreaOf[d])
      <3>1. Has(server, d)
          BY <1>8 DEF InChunk, Has
      <3>2. AreaOf[d] \in Of("area") /\ Has(server, AreaOf[d])
          BY <1>0, <3>1, PlacedHangs
      <3>3. pc \in Fetching /\ Len(chunks) > 0 /\ chunks \in Seq(SUBSET Items)
          BY <1>8 DEF DeviceFetch, Fetching, TypeInv, TypeOK, ChunkLeft, Handlers
      <3>4. Head(chunks) \subseteq Shown
          BY <3>3 DEF AreaInv, Left
      <3>5. AreaOf[d] \in Shown
          BY <1>8, <3>4, PlacedShown DEF InChunk
      <3> QED BY <1>8, <3>2, <3>3, <3>5 DEF AreaInv
    <2> QED BY <1>0, <1>8, <2>1, <2>2, FinePut
  <1> QED BY <1>1, <1>2, <1>3, <1>4, <1>5, <1>6, <1>7, <1>8, Moves DEF InterimMoves

\* The tree of a session has the server's deletion flags.
LEMMA FlagsKnown ==
  ASSUME TypeInv, AreaInv, Quiet, [Next]_vars, pc' # "idle",
         NEW i \in Items, server'[i].sync \in {"2", "3"}
  PROVE  tree'[i] = server'[i].sync
  <1>1. tree' = tree
      BY TreeStays
  <1>2. CASE pc # "idle"
    <2>1. server'[i].sync = server[i].sync
        BY <1>2, QuietFacts, FlagsSettle
    <2> QED BY <1>1, <1>2, <2>1 DEF AreaInv
  <1>3. CASE pc = "idle"
    <2>1. server' = server /\ tree = Flags(server)
        BY <1>3, QuietFacts DEF Next, Session, Fetch, Connect, Deletions, DropDevices, PurgeDevices,
           PurgeOrphans, DropAreas, PurgeAreas, DropUsers, PurgeUsers, UserSession, Users,
           UserFetch, UserDrop, DeviceSession, Devices, AreasPut, AreasDrop, Choose, DevicePush,
           DeviceAck, DeviceFetch, DeviceDrop, Marks, Finish, Erase, Send, User, Click, ClickBusy,
           Refresh, Crash, Editors, PhoneEdit, WebEdit, WebDelete, vars, session
    <2> QED BY <1>1, <2>1 DEF Flags
  <1> QED BY <1>2, <1>3

\* Until the devices are fetched none of those that leave is in the file.
LEMMA LeavingGone ==
  ASSUME TypeInv, AreaInv, Quiet, [Next]_vars, pc' \in BeforeDevices, IsDB(interm'),
         NEW d \in Leaving' \cap Of("device")
  PROVE  ~Has(interm', d)
  <1> USE DEF files, sqlite, choice, session, history
  <1>0. /\ IsDB(interm) => interm \in Database
        /\ d \in Items /\ d \in Leaving /\ Firm /\ d \in Of("device")
    <2>1. tree' = tree
        BY TreeStays DEF BeforeDevices
    <2>2. Leaving' = Leaving
        BY <2>1 DEF Leaving, Doomed, DeleteTree, Known
    <2> QED BY <2>2, DatabaseFile, OfItems, QuietFacts DEF TypeInv, TypeOK
  <1>1. CASE DropDevices
    <2> DEFINE doomed == Leaving \cap Of("device")
               rest == IF IsDB(interm) THEN Drop(interm, doomed) ELSE interm
    <2>1. doomed # {} /\ interm # NoFile
        BY <1>0, <1>1 DEF DropDevices, IsDB
    <2>2. IsDB(interm)
        BY <1>1, <2>1, FirmOutcomes, <1>0 DEF DropDevices, SqliteOutcomes
    <2>3. \E T : interm' = Drop(rest, T)
        BY <1>0, <1>1, <2>1, <2>2, FirmOutcomes DEF DropDevices
    <2>4. rest \in Database /\ ~Has(rest, d)
        BY <1>0, <2>2, DropType, DropHas
    <2> HIDE DEF rest
    <2> QED BY <1>0, <2>3, <2>4, DropHas
  <1>2. CASE pc \in BeforeDevices
    <2>1. IsDB(interm) => ~Has(interm, d)
        BY <1>0, <1>2 DEF AreaInv
    <2>2. ASSUME IsDB(interm), NEW S, NEW rows, interm' = Put(interm, rows, S), d \notin S
          PROVE  ~Has(interm', d)
        BY <1>0, <2>1, <2>2 DEF Put, Has
    <2>3. ASSUME IsDB(interm), NEW S, interm' = Drop(interm, S)
          PROVE  ~Has(interm', d)
        BY <1>0, <2>1, <2>3, DropHas
    <2>4. interm' \notin {NoFile, Corrupt} /\ ~Fetch /\ ~DeviceAck /\ ~DeviceFetch
        BY <1>2 DEF IsDB, Fetch, DeviceAck, DeviceFetch, BeforeDevices
    <2>5. d \notin Current(Head(chunks)) /\ d \notin Shown \cap Of("area")
        BY <1>0 DEF Current, UsersOf, Of
    <2> QED BY <2>1, <2>2, <2>3, <2>4, <2>5, Moves DEF InterimMoves
  <1>3. Session => DropDevices \/ pc \in BeforeDevices
      BY DEF Session, Fetch, Connect, Deletions, PurgeDevices, PurgeOrphans, DropAreas,
         PurgeAreas, Purge, DropUsers, PurgeUsers, UserSession, Users, UserFetch, UserDrop,
         DropOld, NextChunk, DeviceSession, Devices, AreasPut, AreasDrop, Choose, DevicePush,
         DeviceAck, DeviceFetch, DeviceDrop, Marks, Finish, Erase, Send, Return, BeforeDevices
  <1>4. User \/ Crash \/ Editors \/ UNCHANGED vars => pc \in BeforeDevices
      BY DEF User, Click, ClickBusy, Refresh, Crash, Return, Editors, PhoneEdit, WebEdit,
         WebDelete, vars, BeforeDevices
  <1> QED BY <1>1, <1>2, <1>3, <1>4 DEF Next

\* While devices are fetched, the areas that can be chosen are in the file.
LEMMA AreasStand ==
  ASSUME TypeInv, AreaInv, Quiet, [Next]_vars, IsDB(interm'),
         pc' = "areas_drop" \/ (pc' \in {"choose"} \cup Fetching /\ dir' = "to_phone"),
         NEW a \in Shown' \cap Of("area"), Has(server', a)
  PROVE  Has(interm', a)
  <1> USE DEF files, sqlite, choice, session, history
  <1>0. /\ IsDB(interm) => interm \in Database
        /\ server \in Database
        /\ a \in Items /\ a \in Shown /\ Has(server, a) /\ tree[a] \in {"0", "1"} /\ Firm
    <2>1. tree' = tree
        BY TreeStays DEF Fetching
    <2>2. Shown' = Shown
        BY <2>1 DEF Shown
    <2>3. tree[a] \in {"0", "1"}
        BY <2>2 DEF Shown, Below
    <2> QED BY <2>2, <2>3, DatabaseFile, OfItems, QuietFacts, HeldGrows DEF TypeInv, TypeOK
  <1>1. CASE AreasPut
    <2> DEFINE new == {b \in Shown \cap Of("area") : Has(server, b)}
    <2>1. a \in new /\ dir = "to_phone"
        BY <1>0, <1>1 DEF AreasPut, Fetching
    <2>2. PICK select \in Outcomes("mysql"), insert \in SqliteOutcomes(TRUE) :
            interm' = IF (IF select THEN new ELSE {}) # {} /\ insert
                      THEN Put(interm, Synced(server), IF select THEN new ELSE {}) ELSE Touched
        BY <1>1, <2>1 DEF AreasPut
    <2>3. select = TRUE
        BY <1>0 DEF Firm, Outcomes, May
    <2>4. insert = TRUE
      <3>1. CASE IsDB(interm)
          BY <1>0, <3>1, FirmOutcomes, SqliteNeedsDB
      <3>2. CASE ~IsDB(interm)
        <4>1. insert = FALSE
            BY <3>2 DEF SqliteOutcomes
        <4>2. interm' = Touched
            BY <2>2, <4>1
        <4> QED BY <3>2, <4>2 DEF Touched, IsDB
      <3> QED BY <3>1, <3>2
    <2>5. interm' = Put(interm, Synced(server), new)
        BY <2>1, <2>2, <2>3, <2>4
    <2> HIDE DEF new
    <2> QED BY <1>0, <2>1, <2>5, SyncedHas DEF Put, Has
  <1>2. CASE AreasDrop
    <2>1. IsDB(interm)
        BY <1>0, <1>2 DEF AreasDrop, SqliteOutcomes
    <2>2. Has(interm, a) /\ server[a].sync # "2"
        BY <1>0, <1>2, <2>1 DEF AreaInv, AreasDrop
    <2> QED BY <1>0, <1>2, <2>1, <2>2, DropHas DEF AreasDrop
  <1>3. CASE pc \in {"choose"} \cup Fetching /\ dir = "to_phone"
    <2>1. IsDB(interm) => Has(interm, a)
        BY <1>0, <1>3 DEF AreaInv
    <2>2. interm' \notin {NoFile, Corrupt} /\ ~Fetch /\ ~DropAreas /\ ~AreasDrop /\ ~UserFetch /\ ~AreasPut
        BY <1>3 DEF IsDB, Fetch, DropAreas, AreasDrop, UserFetch, AreasPut, Fetching
    <2>3. ASSUME IsDB(interm), NEW S, interm' = Drop(interm, S), S \cap Of("area") = {}
          PROVE  Has(interm', a)
        BY <1>0, <2>1, <2>3, DropHas
    <2>4. ASSUME IsDB(interm), NEW S, interm' = Put(interm, Synced(interm), S) PROVE Has(interm', a)
        BY <1>0, <2>1, <2>4, SyncedHas
    <2>5. ASSUME IsDB(interm), NEW S, interm' = Put(interm, Synced(server), S), S = InChunk(server, "0")
          PROVE  Has(interm', a)
      <3>1. a \notin S
          BY <2>5 DEF InChunk, Of
      <3> QED BY <1>0, <2>1, <2>5, <3>1 DEF Put, Has
    <2> QED BY <2>1, <2>2, <2>3, <2>4, <2>5, Moves DEF InterimMoves
  <1>4. CASE pc = "areas_drop" /\ interm' = interm
      BY <1>0, <1>4 DEF AreaInv
  <1>5. Session => \/ AreasPut \/ AreasDrop
                   \/ pc \in {"choose"} \cup Fetching /\ dir' = dir /\ pc' # "areas_drop"
      BY DEF Session, Fetch, Connect, Deletions, DropDevices, PurgeDevices, PurgeOrphans, DropAreas,
         PurgeAreas, Purge, DropUsers, PurgeUsers, UserSession, Users, UserFetch, UserDrop,
         DropOld, NextChunk, DeviceSession, Devices, Choose, DevicePush,
         DeviceAck, DeviceFetch, DeviceDrop, Marks, Finish, Erase, Send, Return, Fetching
  <1>6. User \/ Crash \/ Editors \/ UNCHANGED vars =>
          \/ pc \in {"choose"} \cup Fetching /\ dir = "to_phone"
          \/ pc = "areas_drop" /\ interm' = interm
      BY DEF User, Click, ClickBusy, Refresh, Crash, Return, Editors, PhoneEdit, WebEdit,
         WebDelete, vars, Fetching
  <1> QED BY <1>1, <1>2, <1>3, <1>4, <1>5, <1>6 DEF Next

\* The ids to be synchronised are nodes that could be chosen.
LEMMA ChunksShown ==
  ASSUME TypeInv, AreaInv, Quiet, [Next]_vars, pc' \in Fetching
  PROVE  Left(chunks') \subseteq Shown'
  <1> USE DEF files, sqlite, choice, session, history
  <1>0. Shown' = Shown
    <2>1. tree' = tree
        BY TreeStays DEF Fetching
    <2> QED BY <2>1 DEF Shown
  <1>1. CASE Choose
    <2>1. PICK i \in Shown : chunks' \in Cuts(Branch(i, Kind[i]))
        BY <1>1 DEF Choose, Fetching
    <2>2. Left(chunks') = Branch(i, Kind[i])
        BY <2>1 DEF Cuts, Left
    <2> QED BY <1>0, <2>2 DEF Branch
  <1>2. CASE pc \in Fetching /\ chunks' \in {chunks, Tail(chunks)}
    <2>1. Left(chunks) \subseteq Shown
        BY <1>2 DEF AreaInv
    <2>2. chunks \in Seq(SUBSET Items) /\ Len(chunks) > 0
        BY <1>2 DEF Fetching, TypeInv, TypeOK, ChunkLeft, Handlers
    <2> QED BY <1>0, <1>2, <2>1, <2>2, LeftTail
  <1>3. Session => Choose \/ (pc \in Fetching /\ chunks' \in {chunks, Tail(chunks)})
      BY DEF Session, Fetch, Connect, Deletions, DropDevices, PurgeDevices, PurgeOrphans, DropAreas,
         PurgeAreas, Purge, DropUsers, PurgeUsers, UserSession, Users, UserFetch, UserDrop,
         DropOld, NextChunk, DeviceSession, Devices, AreasPut, AreasDrop, DevicePush,
         DeviceAck, DeviceFetch, DeviceDrop, Marks, Finish, Erase, Send, Return, Fetching
  <1>4. User \/ Crash \/ Editors \/ UNCHANGED vars => pc \in Fetching /\ chunks' = chunks
      BY DEF User, Click, ClickBusy, Refresh, Crash, Return, Editors, PhoneEdit, WebEdit,
         WebDelete, vars, Fetching
  <1> QED BY <1>1, <1>2, <1>3, <1>4 DEF Next

LEMMA AreaStep == TypeInv /\ TreeInv /\ OrphanInv /\ AreaInv /\ [Next]_vars => AreaInv'
  <1> SUFFICES ASSUME TypeInv, TreeInv, OrphanInv, AreaInv, [Next]_vars, Quiet
               PROVE  /\ \A f \in ({phone, interm} \cup backups)' : Fine(f, server')
                      /\ pc' # "idle" =>
                           \A i \in Items : server'[i].sync \in {"2", "3"} => tree'[i] = server'[i].sync
                      /\ pc' \in BeforeDevices /\ IsDB(interm') =>
                           \A d \in Leaving' \cap Of("device") : ~Has(interm', d)
                      /\ IsDB(interm')
                         /\ (pc' = "areas_drop" \/ (pc' \in {"choose"} \cup Fetching /\ dir' = "to_phone")) =>
                           \A a \in Shown' \cap Of("area") : Has(server', a) => Has(interm', a)
                      /\ pc' \in Fetching => Left(chunks') \subseteq Shown'
    <2>1. [Next]_vars => (Quiet' => Quiet)
        BY RegimeStays DEF Quiet
    <2> QED BY <2>1 DEF AreaInv, Fine, IsDB
  <1>1. \A f : Fine(f, server) => Fine(f, server')
    <2>1. \A d \in Placed : Has(server', d) => Has(server, d)
        BY HeldGrows, OfItems DEF Placed
    <2> QED BY <2>1 DEF Fine
  <1>2. \A f \in ({phone, interm} \cup backups)' : Fine(f, server)
    <2>0. \A f \in {phone, interm} \cup backups : Fine(f, server)
        BY DEF AreaInv
    <2>1. Fine(interm', server)
        BY InterimFine
    <2>2. CASE Fetch \/ Erase \/ Send
        BY <2>0, <2>1, <2>2, FineNothing DEF Fetch, Erase, Send, files
    <2>3. ASSUME NEW j \in Items, PhoneEdit(j) PROVE \A f \in ({phone, interm} \cup backups)' : Fine(f, server)
      <3>1. backups' = backups /\ IsDB(phone) /\ phone \in Database
          BY <2>3, DatabaseFile DEF PhoneEdit, TypeInv, TypeOK
      <3>2. phone[j] \in Row
          BY <3>1 DEF Database
      <3>3. \A i \in Items : Has(phone', i) <=> Has(phone, i)
          BY <2>3, <3>1, <3>2 DEF PhoneEdit, Database, Row, Has
      <3>4. Fine(phone', server)
          BY <2>0, <3>1, <3>3, OfItems DEF Fine, Placed
      <3> QED BY <2>0, <2>1, <3>1, <3>4
    <2>4. CASE UNCHANGED <<phone, backups>>
        BY <2>0, <2>1, <2>4
    <2> QED BY <2>2, <2>3, <2>4, FilesStay
  <1> QED BY <1>1, <1>2, FlagsKnown, LeavingGone, AreasStand, ChunksShown

LEMMA AreaInit == Init => AreaInv
  <1> SUFFICES ASSUME Init PROVE AreaInv
      OBVIOUS
  <1>1. phone = [i \in Items |-> [ver |-> 0, tag |-> 0, sync |-> "1"]]
        \/ phone = [i \in Items |-> NoRow]
      BY DEF Init
  <1>2. Fine(phone, server)
    <2>1. \A d \in Placed : d \in Items /\ AreaOf[d] \in Items
        BY OfItems DEF Placed
    <2> QED BY <1>1, <2>1 DEF Fine, Has, NoRow
  <1> QED BY <1>2, FineNothing DEF Init, AreaInv, BeforeDevices, Fetching

\* No device of the user's tree is in the phone's file or in a backup without
\* its area while the server still has it: the deletions take the whole branch
\* below a flagged area (3261), every area of the tree is stored before devices
\* are (4106), and nothing that leaves comes back.
THEOREM AreasComeWithDevices == Spec => []DevicesHaveAreas
  <1> DEFINE Inv == TypeInv /\ TreeInv /\ OrphanInv /\ AreaInv
  <1>1. Init => Inv
      BY TypeInit, OrphanInit, AreaInit
  <1>2. Inv /\ [Next]_vars => Inv'
      BY TypeStep, TreeStep, OrphanStep, AreaStep
  <1>3. Inv => DevicesHaveAreas
      BY DEF AreaInv, DevicesHaveAreas, Quiet, Fine
  <1> QED BY <1>1, <1>2, <1>3, PTL DEF Spec

-----------------------------------------------------------------------------
(* Ghosts.  What the server forgets has left the file; users are deleted   *)
(* and purged by the same flags, and only the file's handle knows whether  *)
(* the deletion was carried out.                                           *)

\* Unless statements fail, the handle is broken only while no database is open.
Opened ==
  {"drop_areas", "drop_users", "purge_users", "user_drop", "areas_drop", "device_ack", "device_drop"}
HandleInv == ~May("sqlite") => handle \/ (~IsDB(interm) /\ pc \in Opened)

LEMMA HandleStep == TypeInv /\ HandleInv /\ [Next]_vars => HandleInv'
  <1> SUFFICES ASSUME TypeInv, HandleInv, [Next]_vars, ~May("sqlite"), handle' # TRUE
               PROVE  ~IsDB(interm') /\ pc' \in Opened
      BY RegimeStays DEF HandleInv, May, TypeInv, TypeOK
  <1> USE DEF files, sqlite, choice, session, history
  <1>0. /\ handle \in BOOLEAN /\ handle' \in BOOLEAN /\ handle' = FALSE
        /\ \A b : FALSE \in SqliteOutcomes(b) => ~b \/ ~IsDB(interm)
        /\ ~IsDB(interm) => ~IsDB(Touched)
      BY TypeStep DEF TypeInv, TypeOK, SqliteOutcomes, Outcomes, Touched, IsDB
  <1>1. CASE DropDevices
      BY <1>0, <1>1, SqliteNeedsDB DEF DropDevices, HandleInv, Opened, IsDB
  <1>2. CASE DropAreas
    <2>1. ~IsDB(interm)
        BY <1>0, <1>2 DEF DropAreas, HandleInv
    <2> QED BY <1>0, <1>2, <2>1, SqliteNeedsDB DEF DropAreas, HandleInv, Opened
  <1>3. CASE DropUsers
    <2>1. handle = FALSE
        BY <1>0, <1>3 DEF DropUsers
    <2> QED BY <1>0, <1>3, <2>1, SqliteNeedsDB DEF DropUsers, HandleInv, Opened
  <1>4. CASE UserFetch
    <2>1. CASE interm = NoFile
        BY <1>0, <1>4, <2>1 DEF UserFetch, HandleInv, Opened
    <2>2. CASE interm # NoFile
      <3>1. PICK select \in Outcomes("mysql"), insert \in SqliteOutcomes(TRUE) :
              LET new == IF select THEN Current(Head(chunks)) ELSE {}
                  done == new = {} \/ insert
              IN /\ interm' = IF new # {} /\ insert THEN Put(interm, server, new) ELSE interm
                 /\ handle' = done
          BY <1>4, <2>2 DEF UserFetch
      <3>2. insert = FALSE /\ interm' = interm
          BY <1>0, <3>1, SqliteNeedsDB
      <3> QED BY <1>0, <1>4, <2>2, <3>2 DEF UserFetch, Opened
    <2> QED BY <2>1, <2>2
  <1>5. CASE AreasPut
    <2>1. CASE dir = "to_pc" /\ UNCHANGED <<interm, sqlite>>
        BY <1>0, <1>5, <2>1 DEF AreasPut, HandleInv, Opened
    <2>2. CASE pc' = "areas_drop"
      <3>1. PICK select \in Outcomes("mysql"), insert \in SqliteOutcomes(TRUE) :
              LET new == IF select THEN {a \in Shown \cap Of("area") : Has(server, a)} ELSE {}
              IN /\ interm' = IF new # {} /\ insert THEN Put(interm, Synced(server), new) ELSE Touched
                 /\ handle' = (new = {} \/ insert)
          BY <1>5, <2>2 DEF AreasPut
      <3>2. insert = FALSE /\ interm' = Touched
          BY <1>0, <3>1, SqliteNeedsDB
      <3> QED BY <1>0, <2>2, <3>2 DEF Opened
    <2> QED BY <1>5, <2>1, <2>2 DEF AreasPut
  <1>6. CASE DevicePush
      BY <1>0, <1>6 DEF DevicePush, HandleInv, Opened
  <1>7. CASE DeviceFetch
    <2>1. PICK select \in Outcomes("mysql"), insert \in SqliteOutcomes(TRUE) :
            LET new == IF select THEN InChunk(server, "0") ELSE {}
                done == new = {} \/ insert
            IN /\ interm' = IF new # {} /\ insert THEN Put(interm, Synced(server), new) ELSE Touched
               /\ handle' = done
        BY <1>7 DEF DeviceFetch
    <2>2. insert = FALSE /\ interm' = Touched
        BY <1>0, <2>1, SqliteNeedsDB
    <2> QED BY <1>0, <1>7, <2>2 DEF DeviceFetch, Opened
  <1>8. CASE handle' = handle /\ interm' = interm /\ (pc' = pc \/ pc \notin Opened)
      BY <1>0, <1>8 DEF HandleInv
  <1>9. Session =>
          \/ DropDevices \/ DropAreas \/ DropUsers \/ UserFetch \/ AreasPut \/ DevicePush \/ DeviceFetch
          \/ handle' = handle /\ (interm' = interm \/ (pc \notin Opened /\ handle = FALSE))
             /\ (pc' = pc \/ pc \notin Opened)
      BY <1>0 DEF Session, Fetch, Connect, Deletions, PurgeDevices, PurgeOrphans, PurgeAreas, Purge,
         PurgeUsers, UserSession, Users, UserDrop, DropOld, NextChunk, DeviceSession, Devices,
         AreasDrop, Choose, DeviceAck, DeviceDrop, Marks, Finish, Erase, Send, Return, Opened
  <1>10. User \/ Crash \/ Editors \/ UNCHANGED vars =>
           handle' = handle /\ interm' = interm /\ (pc' = pc \/ pc \notin Opened)
      BY <1>0 DEF User, Click, ClickBusy, Refresh, Crash, Return, Editors, PhoneEdit, WebEdit,
         WebDelete, vars, Opened
  <1> QED BY <1>0, <1>1, <1>2, <1>3, <1>4, <1>5, <1>6, <1>7, <1>8, <1>9, <1>10 DEF Next, HandleInv

Careful == regime \cap {"sqlite", "mysql", "web_edit"} = {}
Watched == TreeItems \cup (IF Careful THEN Of("user") ELSE {})
AfterConnect == Steps \ {"idle", "fetch", "connect"}
GhostInv ==
  /\ pc = "send" => phone = NoFile
  /\ pc \in AfterConnect /\ IsDB(interm) =>
       \A i \in Watched : Has(interm, i) /\ ~Has(server, i) => i \in ghosts
  /\ pc = "purge_areas" => Gone(UsersOf(Leaving \cap Of("area")))
  /\ Careful /\ pc = "purge_users" /\ IsDB(interm) =>
       \A u \in Of("user") : server[u].sync = "3" => ~Has(interm, u)

\* A step that takes a user off the server is one of two purges.
LEMMA UserPurges ==
  ASSUME TypeInv, [Next]_vars, NEW u \in Of("user"), Has(server, u), ~Has(server', u)
  PROVE  /\ interm' = interm
         /\ \/ pc = "purge_areas" /\ u \in UsersOf(Leaving \cap Of("area"))
            \/ pc = "purge_users" /\ server[u].sync = "3"
  <1> USE DEF files, sqlite, choice, session, history
  <1>0. server \in Database /\ u \in Items /\ server[u] \in Row /\ Kind[u] = "user"
      BY DEF TypeInv, TypeOK, Of, Database
  <1>1. \A next, S : Purge(next, S) => u \in S /\ interm' = interm
      BY <1>0, DropHas DEF Purge
  <1>2. \A k : k # "user" => u \notin Of(k)
      BY <1>0 DEF Of
  <1>3. CASE PurgeDevices
      BY <1>1, <1>2, <1>3, UpdateMysqlDBType DEF PurgeDevices
  <1>4. CASE PurgeOrphans
      BY <1>1, <1>2, <1>4, UpdateMysqlDBType DEF PurgeOrphans, Orphans
  <1>5. CASE PurgeAreas
    <2>1. PICK m \in UpdateMysqlDB(Doomed("3") \cap Of("area")) :
            \E kept : Purge("drop_users", m.done \cup UsersOf(m.done \ kept))
        BY <1>5 DEF PurgeAreas
    <2>2. m.done \subseteq Leaving \cap Of("area")
        BY DoomedLeave, UpdateMysqlDBType
    <2>3. interm' = interm /\ u \in UsersOf(Leaving \cap Of("area"))
        BY <1>1, <1>2, <2>1, <2>2 DEF UsersOf
    <2> QED BY <1>5, <2>3 DEF PurgeAreas
  <1>6. CASE PurgeUsers
      BY <1>1, <1>6, UpdateMysqlDBType DEF PurgeUsers
  <1>7. CASE Marks
      BY <1>0, <1>7, SyncedHas DEF Marks
  <1>8. CASE DevicePush
    <2>1. server'[u].sync = server[u].sync
        BY <1>0, <1>8 DEF DevicePush, Bound, Row
    <2> QED BY <2>1 DEF Has
  <1>9. CASE Editors
    <2>1. PICK j \in Items : PhoneEdit(j) \/ WebEdit(j) \/ \E s \in {"2", "3"} : WebDelete(j, s)
        BY <1>9 DEF Editors
    <2>2. server'[u].sync # "none"
        BY <1>0, <2>1 DEF PhoneEdit, WebEdit, WebDelete, Has, Database, Row
    <2> QED BY <2>2 DEF Has
  <1>10. CASE server' = server
      BY <1>10
  <1>11. Next => \/ PurgeDevices \/ PurgeOrphans \/ PurgeAreas \/ PurgeUsers \/ Marks \/ DevicePush
                 \/ Editors \/ server' = server
      BY DEF Next, Session, Fetch, Connect, Deletions, DropDevices, DropAreas, DropUsers,
         UserSession, Users, UserFetch, UserDrop, DropOld, DeviceSession, Devices, AreasPut,
         AreasDrop, Choose, DeviceAck, DeviceFetch, DeviceDrop, Finish, Erase, Send,
         User, Click, ClickBusy, Refresh, Crash
  <1> QED BY <1>3, <1>4, <1>5, <1>6, <1>7, <1>8, <1>9, <1>10, <1>11 DEF vars

\* Rows come into the file from the server, and the server forgets a row only
\* when the file has none.
LEMMA GhostsStay ==
  ASSUME TypeInv, PurgeInv, GhostInv, [Next]_vars, pc' \in AfterConnect, IsDB(interm'),
         NEW i \in Watched', Has(interm', i), ~Has(server', i)
  PROVE  i \in ghosts'
  <1> USE DEF files, sqlite, choice, session, history
  <1>0. /\ i \in Watched /\ i \in Items /\ interm \in File /\ server \in Database
        /\ IsDB(interm) => interm \in Database
        /\ i \notin TreeItems => Careful /\ i \in Of("user")
      BY RegimeStays, OfItems, DatabaseFile DEF Watched, Careful, TreeItems, TypeInv, TypeOK
  <1>1. CASE Connect
    <2>1. i \in Items /\ IsDB(interm) /\ Has(interm, i) /\ ~Has(server, i)
        BY <1>0, <1>1 DEF Connect
    <2> QED BY <1>1, <2>1 DEF Connect
  <1>2. CASE pc \in AfterConnect /\ ghosts' = ghosts
    <2>1. CASE Has(server, i)
      <3>1. CASE i \in TreeItems
          BY <2>1, <3>1, OnlyPurges DEF PurgeInv, Gone
      <3>2. CASE i \notin TreeItems
          BY <1>0, <2>1, <3>2, UserPurges DEF GhostInv, Gone
      <3> QED BY <3>1, <3>2
    <2>2. CASE ~Has(server, i)
      <3>1. IsDB(interm) /\ Has(interm, i)
        <4>1. ASSUME IsDB(interm), NEW S, interm' = Drop(interm, S) PROVE Has(interm, i)
            BY <1>0, <4>1, DropHas
        <4>2. ASSUME IsDB(interm), NEW S, NEW rows, interm' = Put(interm, rows, S), i \notin S
              PROVE  Has(interm, i)
            BY <1>0, <4>2 DEF Put, Has
        <4>3. ASSUME IsDB(interm), NEW S, interm' = Put(interm, Synced(interm), S)
              PROVE  Has(interm, i)
            BY <1>0, <4>3, SyncedHas
        <4>4. i \notin Current(Head(chunks)) /\ i \notin InChunk(server, "0")
              /\ i \notin {a \in Shown \cap Of("area") : Has(server, a)}
            BY <2>2 DEF Current, InChunk, Has
        <4>5. interm' \notin {NoFile, Corrupt} /\ ~Fetch
            BY <1>2 DEF IsDB, Fetch, AfterConnect
        <4> QED BY <4>1, <4>2, <4>3, <4>4, <4>5, Moves DEF InterimMoves
      <3> QED BY <1>0, <1>2, <2>2, <3>1 DEF GhostInv
    <2> QED BY <2>1, <2>2
  <1>3. Next => Connect \/ ghosts' = ghosts
      BY DEF Next, Session, Fetch, Deletions, DropDevices, PurgeDevices, PurgeOrphans, DropAreas,
         PurgeAreas, Purge, DropUsers, PurgeUsers, UserSession, Users, UserFetch, UserDrop, DropOld,
         DeviceSession, Devices, AreasPut, AreasDrop, Choose, DevicePush, DeviceAck, DeviceFetch,
         DeviceDrop, Marks, Finish, Erase, Send, User, Click, ClickBusy, Refresh, Crash, Editors,
         PhoneEdit, WebEdit, WebDelete
  <1>4. Connect \/ pc \in AfterConnect
    <2>1. pc \notin AfterConnect => pc \in {"idle", "fetch", "connect"}
        BY DEF AfterConnect, TypeInv, TypeOK
    <2> QED BY <2>1 DEF Next, Session, Fetch, Connect, Deletions, DropDevices, PurgeDevices,
         PurgeOrphans, DropAreas, PurgeAreas, DropUsers, PurgeUsers, UserSession, Users, UserFetch,
         UserDrop, DeviceSession, Devices, AreasPut, AreasDrop, Choose, DevicePush, DeviceAck,
         DeviceFetch, DeviceDrop, Marks, Finish, Erase, Send, Return, User, Click, ClickBusy,
         Refresh, Crash, Editors, PhoneEdit, WebEdit, WebDelete, vars, AfterConnect
  <1> QED BY <1>1, <1>2, <1>3, <1>4 DEF vars

\* The users of the areas to be purged left the file with the areas.
LEMMA AreaUsersGone ==
  ASSUME TypeInv, GhostInv, [Next]_vars, pc' = "purge_areas"
  PROVE  Gone(UsersOf(Leaving \cap Of("area")))'
  <1> USE DEF files, sqlite, choice, session, history
  <1> DEFINE doomed == Leaving \cap Of("area")
  <1>0. Leaving' = Leaving /\ (IsDB(interm) => interm \in Database)
    <2>1. tree' = tree
        BY TreeStays
    <2> QED BY <2>1, DatabaseFile DEF Leaving, Doomed, DeleteTree, Known, TypeInv, TypeOK
  <1>1. CASE DropAreas
    <2>1. IsDB(interm) /\ interm' = Drop(interm, doomed \cup UsersOf(doomed))
        BY <1>1, SqliteNeedsDB DEF DropAreas, TypeInv, TypeOK
    <2>2. UsersOf(doomed) \in SUBSET Items
        BY OfItems DEF UsersOf
    <2>3. Gone(UsersOf(doomed))'
      <3>1. UsersOf(doomed)' = UsersOf(doomed)
          BY <1>0 DEF UsersOf
      <3>2. IsDB(interm') /\ \A u \in UsersOf(doomed) : ~Has(interm', u)
        <4> HIDE DEF doomed
        <4>1. interm \in Database /\ \A u \in UsersOf(doomed) : u \in Items
            BY <1>0, <2>1, <2>2
        <4> QED BY <2>1, <4>1, DropType, DatabaseIsDB, DropHas
      <3>3. IsDB(interm') /\ \A u \in UsersOf(doomed)' : ~Has(interm', u)
          BY <3>1, <3>2
      <3> HIDE DEF doomed
      <3> QED BY <3>3 DEF Gone
    <2> QED BY <2>3
  <1>2. CASE UNCHANGED <<pc, interm>>
      BY <1>0, <1>2 DEF GhostInv, Gone, UsersOf
  <1>3. Next => DropAreas \/ pc' # "purge_areas" \/ UNCHANGED <<pc, interm>>
      BY DEF Next, Session, Fetch, Connect, Deletions, DropDevices, PurgeDevices, PurgeOrphans,
         PurgeAreas, Purge, DropUsers, PurgeUsers, UserSession, Users, UserFetch, UserDrop, DropOld,
         NextChunk, DeviceSession, Devices, AreasPut, AreasDrop, Choose, DevicePush, DeviceAck,
         DeviceFetch, DeviceDrop, Marks, Finish, Erase, Send, Return, User, Click, ClickBusy,
         Refresh, Crash, Editors, PhoneEdit, WebEdit, WebDelete
  <1> QED BY <1>1, <1>2, <1>3 DEF vars

\* While nothing fails and nobody edits, so did every user to be purged.
LEMMA FlaggedUsersGone ==
  ASSUME TypeInv, HandleInv, GhostInv, [Next]_vars, Careful, pc' = "purge_users", IsDB(interm'),
         NEW u \in Of("user"), server'[u].sync = "3"
  PROVE  ~Has(interm', u)
  <1> USE DEF files, sqlite, choice, session, history
  <1>0. /\ ~May("sqlite") /\ ~May("mysql") /\ ~May("web_edit") /\ u \in Items
        /\ IsDB(interm) => interm \in Database
      BY DatabaseFile, OfItems DEF Careful, May, TypeInv, TypeOK
  <1>1. CASE DropUsers
    <2> DEFINE old == {v \in Of("user") : server[v].sync \in {"2", "3"}}
    <2>1. u \in old
        BY <1>1 DEF DropUsers
    <2>2. PICK select \in Outcomes("mysql"), delete \in SqliteOutcomes(handle) :
            interm' = IF select /\ old # {} /\ delete THEN Drop(interm, old) ELSE interm
        BY <1>1 DEF DropUsers
    <2>3. IsDB(interm)
        BY <2>2 DEF SqliteOutcomes
    <2>4. handle /\ select = TRUE /\ delete = TRUE
        BY <1>0, <1>1, <2>2, <2>3 DEF HandleInv, Outcomes, SqliteOutcomes, TypeInv, TypeOK
    <2>5. interm' = Drop(interm, old)
        BY <2>1, <2>2, <2>4
    <2> HIDE DEF old
    <2> QED BY <1>0, <2>1, <2>3, <2>5, DropHas
  <1>2. CASE UNCHANGED <<pc, interm, server>>
      BY <1>2 DEF GhostInv
  <1>3. Next => DropUsers \/ pc' # "purge_users" \/ UNCHANGED <<pc, interm, server>>
      BY <1>0 DEF Next, Session, Fetch, Connect, Deletions, DropDevices, PurgeDevices, PurgeOrphans,
         DropAreas, PurgeAreas, Purge, PurgeUsers, UserSession, Users, UserFetch, UserDrop, DropOld,
         NextChunk, DeviceSession, Devices, AreasPut, AreasDrop, Choose, DevicePush, DeviceAck,
         DeviceFetch, DeviceDrop, Marks, Finish, Erase, Send, Return, User, Click, ClickBusy,
         Refresh, Crash, Editors, PhoneEdit, WebEdit, WebDelete
  <1> QED BY <1>1, <1>2, <1>3 DEF vars

LEMMA GhostStep ==
  TypeInv /\ PurgeInv /\ HandleInv /\ GhostInv /\ [Next]_vars => GhostInv'
  <1> SUFFICES ASSUME TypeInv, PurgeInv, HandleInv, GhostInv, [Next]_vars PROVE GhostInv'
      OBVIOUS
  <1>1. (pc = "send" => phone = NoFile)'
    <2>1. CASE Fetch \/ Erase \/ Send
        BY <2>1 DEF Fetch, Erase, Send, Return
    <2>2. CASE \E j \in Items : PhoneEdit(j)
      <3>1. IsDB(phone) /\ pc' = pc
          BY <2>2 DEF PhoneEdit, session
      <3> QED BY <3>1 DEF GhostInv, IsDB
    <2>3. CASE UNCHANGED phone
      <3>1. Next => Erase \/ pc' # "send" \/ pc' = pc
          BY DEF Next, Session, Fetch, Connect, Deletions, DropDevices, PurgeDevices, PurgeOrphans,
             DropAreas, PurgeAreas, Purge, DropUsers, PurgeUsers, UserSession, Users, UserFetch,
             UserDrop, DropOld, NextChunk, DeviceSession, Devices, AreasPut, AreasDrop, Choose,
             DevicePush, DeviceAck, DeviceFetch, DeviceDrop, Marks, Finish, Send, Return, User,
             Click, ClickBusy, Refresh, Crash, Editors, PhoneEdit, WebEdit, WebDelete, session
      <3> QED BY <2>1, <2>3, <3>1 DEF GhostInv, vars, session
    <2> QED BY <2>1, <2>2, <2>3, FilesStay
  <1>2. Careful' = Careful
      BY RegimeStays DEF Careful
  <1> QED BY <1>1, <1>2, GhostsStay, AreaUsersGone, FlaggedUsersGone DEF GhostInv

\* What is sent to the phone was, but for rows the phone had before, still on
\* the server at the end of the session: areas and devices leave the server
\* only after the file (3408, 3481), whatever fails; users are purged by the
\* flags alone (3541), after the same flags took them out of the file.
THEOREM NothingForgottenIsSent == Spec => NoNewGhosts
  <1> DEFINE Inv == TypeInv /\ PurgeInv /\ HandleInv /\ GhostInv
  <1>1. Init => Inv
    <2>1. Init => TypeInv
        BY TypeInit
    <2> QED BY <2>1 DEF Init, PurgeInv, HandleInv, GhostInv, AfterConnect
  <1>2. Inv /\ [Next]_vars => Inv'
      BY TypeStep, PurgeStep, HandleStep, GhostStep
  <1>3. Inv /\ [Next]_vars =>
          [pc = "send" /\ phone' # NoFile =>
             \A i \in TreeItems \cup
                       (IF regime \cap {"sqlite", "mysql", "web_edit"} = {} THEN Of("user") ELSE {}) :
               IsDB(phone') /\ Has(phone', i) /\ ~Has(server, i) => i \in ghosts]_vars
    <2> SUFFICES ASSUME Inv, [Next]_vars, pc = "send", phone' # NoFile, NEW i \in Watched,
                        IsDB(phone'), Has(phone', i), ~Has(server, i)
                 PROVE  i \in ghosts
        BY DEF Watched, Careful
    <2>1. phone = NoFile
        BY DEF GhostInv
    <2>2. Send
        BY <2>1, FilesStay DEF Fetch, Erase, PhoneEdit, IsDB
    <2>3. phone' = interm
        BY <2>1, <2>2 DEF Send
    <2> QED BY <2>3 DEF GhostInv, AfterConnect, Steps
  <1> QED BY <1>1, <1>2, <1>3, PTL DEF Spec, NoNewGhosts
=============================================================================
