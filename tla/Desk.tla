-------------------------------- MODULE Desk --------------------------------
(***************************************************************************)
(* The main window (CWPD_MTP_dataDlg) and its threads: those that read the *)
(* tree of areas anew (Init_areas_tree_thread), the session thread         *)
(* (MyControllingFunction), the one that lists the phones (ShowAllDevices) *)
(* and the window's own, which runs the handlers of clicks.  They share    *)
(* the buttons, the choices, the trees and the list without a lock; only   *)
(* the MySQL connection has one (g_clsMutex), held from InitMyDataBase to  *)
(* Close and passed on by Windows when its thread ends.                    *)
(*                                                                         *)
(* What the trees hold and what a session does are WorkSync's and          *)
(* DeviceSync's matter; here a session only meets the other threads.       *)
(***************************************************************************)
EXTENDS Naturals, Sequences, FiniteSets, SequencesExt

CONSTANTS
  Refreshers,  \* threads of Init_areas_tree_thread
  FirstRefresher,  \* the one that starts with the window
  Phones,      \* portable devices
  Ui,          \* the window's thread
  Syncer,      \* the session thread
  Nobody,      \* no thread
  NoPhone      \* no portable device

ASSUME DeskAssumption ==
  /\ IsFiniteSet(Refreshers) /\ IsFiniteSet(Phones) /\ NoPhone \notin Phones
  /\ FirstRefresher \in Refreshers
  /\ Ui \notin Refreshers /\ Syncer \notin Refreshers /\ Nobody \notin Refreshers
  /\ Cardinality({Ui, Syncer, Nobody}) = 3

VARIABLES
  owner,     \* the thread that holds g_clsMutex
  at,        \* refresher -> its next step
  sync,      \* the session thread's next step
  busy,      \* m_threadFlag
  maps,      \* the maps of areas and devices are filled
  shown,     \* the tree control is filled
  item,      \* m_treeCtrl_curItem is set
  doomed,    \* m_deleteTree
  flash, topc, tophone,  \* the buttons are enabled
  radio,     \* m_radioChoose
  dir,       \* m_tongbu_dir
  asked,     \* what the message box asked the user to confirm
  attached,  \* the phones plugged in
  scan,      \* ShowAllDevices' next step
  ids,       \* m_strDevicesID
  combo,     \* the phones the combobox names
  sel,       \* its selection, 0 for none
  opened     \* the phone the session works on

threads == <<owner, at, sync, busy>>
trees == <<maps, shown, item, doomed>>
buttons == <<flash, topc, tophone>>
choice == <<radio, dir, asked>>
list == <<attached, scan, ids, combo, sel, opened>>
deskVars == <<threads, trees, buttons, choice, list>>

Radios == {"work", "user", "devices"}
Dirs == {"to_pc", "to_phone"}

DeskTypeOK ==
  /\ owner \in Refreshers \cup {Ui, Syncer, Nobody}
  /\ at \in [Refreshers -> {"off", "clear", "lock", "read", "free", "build", "end"}]
  /\ sync \in {"off", "text", "box", "fetch", "lock", "walk", "work", "done"}
  /\ {busy, maps, shown, item, flash, topc, tophone} \subseteq BOOLEAN
  /\ doomed \in {"none", "torn", "whole"}
  /\ radio \in Radios /\ dir \in Dirs /\ asked \in Radios \X Dirs
  /\ attached \subseteq Phones /\ scan \in {"clear", "list", "show", "nap", "sleep"}
  /\ ids \in Seq(Phones) /\ combo \in Seq(Phones) /\ sel \in 0..Len(combo)
  /\ opened \in Phones \cup {NoPhone}

\* The window opens: a refresher and ShowAllDevices start.
FirstRefresh == [r \in Refreshers |-> IF r = FirstRefresher THEN "clear" ELSE "off"]

DeskInit ==
  /\ owner = Nobody /\ sync = "off" /\ busy = FALSE /\ at = FirstRefresh
  /\ maps = FALSE /\ shown = FALSE /\ item = FALSE /\ doomed = "none"
  /\ flash = TRUE /\ topc = TRUE /\ tophone = TRUE
  /\ radio = "work" /\ dir = "to_pc" /\ asked = <<"work", "to_pc">>
  /\ attached \in SUBSET Phones /\ scan = "clear"
  /\ ids = <<>> /\ combo = <<>> /\ sel = 0 /\ opened = NoPhone

-----------------------------------------------------------------------------
(* Refreshing the tree. *)

\* Mutant of Wake: the thread sleeps on.
WakeNobody == UNCHANGED scan

\* ResumeThread: lost when the thread does not sleep yet.
Wake == scan' = IF scan = "sleep" THEN "clear" ELSE scan

\* The thread disables the button itself, a little later.
ClickRefresh(r) ==
  /\ sync # "box" /\ flash /\ at[r] = "off"
  /\ at' = [at EXCEPT ![r] = "clear"]
  /\ Wake
  /\ UNCHANGED <<owner, sync, busy, trees, buttons, choice, attached, ids, combo, sel, opened>>

\* Before the mutex.
RefreshClear(r) ==
  /\ at[r] = "clear"
  /\ at' = [at EXCEPT ![r] = "lock"]
  /\ maps' = FALSE /\ shown' = FALSE /\ item' = FALSE
  /\ flash' = FALSE
  /\ UNCHANGED <<owner, sync, busy, doomed, topc, tophone, choice, list>>

Lock(t) == owner = Nobody /\ owner' = t
Ended(t) == owner' = IF owner = t THEN Nobody ELSE owner

RefreshLock(r) ==
  /\ at[r] = "lock" /\ Lock(r)
  /\ at' = [at EXCEPT ![r] = "read"]
  /\ UNCHANGED <<sync, busy, trees, buttons, choice, list>>

RefreshRead(r) ==
  /\ at[r] = "read"
  /\ at' = [at EXCEPT ![r] = "free"]
  /\ owner' = Nobody
  /\ maps' = TRUE /\ flash' = TRUE
  /\ UNCHANGED <<sync, busy, shown, item, doomed, topc, tophone, choice, list>>

\* A select fails, or the connection: then there is no Close.
RefreshFails(r) ==
  /\ at[r] = "read"
  /\ at' = [at EXCEPT ![r] = "end"]
  /\ owner' \in {Nobody, owner}
  /\ flash' = TRUE
  /\ UNCHANGED <<sync, busy, maps, shown, item, doomed, topc, tophone, choice, list>>

\* After the mutex: the tree control, then the tree of deletions.
RefreshFree(r) ==
  /\ at[r] = "free"
  /\ at' = [at EXCEPT ![r] = "build"]
  /\ shown' = maps /\ doomed' = "torn"
  /\ UNCHANGED <<owner, sync, busy, maps, item, buttons, choice, list>>

RefreshBuild(r) ==
  /\ at[r] = "build"
  /\ at' = [at EXCEPT ![r] = "end"]
  /\ doomed' = "whole"
  /\ UNCHANGED <<owner, sync, busy, maps, shown, item, buttons, choice, list>>

RefreshEnd(r) ==
  /\ at[r] = "end" /\ Ended(r)
  /\ at' = [at EXCEPT ![r] = "off"]
  /\ UNCHANGED <<sync, busy, trees, buttons, choice, list>>

Refresh(r) ==
  RefreshClear(r) \/ RefreshLock(r) \/ RefreshRead(r) \/ RefreshFree(r) \/ RefreshBuild(r)
  \/ RefreshEnd(r)

-----------------------------------------------------------------------------
(* The session thread.  Its message box disables the window. *)

PickItem ==
  /\ sync # "box" /\ shown /\ ~item
  /\ item' = TRUE
  /\ UNCHANGED <<threads, maps, shown, doomed, buttons, choice, list>>

ClickRadio(r) ==
  /\ sync # "box" /\ radio # r
  /\ radio' = r
  /\ topc' = (r # "user")
  /\ UNCHANGED <<threads, trees, flash, tophone, dir, asked, list>>

\* Mutant of Click: the thread is started before the direction is set.
ClickLate(d) ==
  /\ sync # "box" /\ item
  /\ IF d = "to_pc" THEN topc /\ tophone' = FALSE /\ UNCHANGED topc
                    ELSE tophone /\ topc' = FALSE /\ UNCHANGED tophone
  /\ IF busy THEN UNCHANGED <<busy, sync, choice>>
             ELSE busy' = TRUE /\ sync' = "box" /\ asked' = <<radio, dir>> /\ dir' = d /\ UNCHANGED radio
  /\ UNCHANGED <<owner, at, trees, flash, list>>

\* The direction changes even when a session runs.  A button that is enabled is
\* not compared with the radio button.
Click(d) ==
  /\ sync # "box" /\ item
  /\ IF d = "to_pc" THEN topc /\ tophone' = FALSE /\ UNCHANGED topc
                    ELSE tophone /\ topc' = FALSE /\ UNCHANGED tophone
  /\ dir' = d
  /\ IF busy THEN UNCHANGED <<busy, sync>> ELSE busy' = TRUE /\ sync' = "text"
  /\ UNCHANGED <<owner, at, trees, flash, radio, asked, list>>

SyncText ==
  /\ sync = "text"
  /\ sync' = "box" /\ asked' = <<radio, dir>>
  /\ UNCHANGED <<owner, at, busy, trees, buttons, radio, dir, list>>

\* Users or not, both buttons are enabled.
AnswerNo ==
  /\ sync = "box"
  /\ sync' = "off" /\ busy' = FALSE
  /\ topc' = TRUE /\ tophone' = TRUE
  /\ UNCHANGED <<owner, at, trees, flash, choice, list>>

\* Mutant of AnswerYes: the refresh button stays enabled.
AnswerYesOnly ==
  /\ sync = "box"
  /\ sync' = "fetch"
  /\ UNCHANGED <<owner, at, busy, trees, buttons, choice, list>>

AnswerYes ==
  /\ sync = "box"
  /\ sync' = "fetch" /\ flash' = FALSE
  /\ UNCHANGED <<owner, at, busy, trees, topc, tophone, choice, list>>

\* BeginPhoneToPc: the selected index in the list of ids.
SyncFetch ==
  /\ sync = "fetch" /\ sel \in {0} \cup DOMAIN ids
  /\ \/ sync' = "done" /\ UNCHANGED opened   \* none selected, no such file, a failed copy
     \/ sel # 0 /\ sync' = "lock" /\ opened' = ids[sel]
  /\ UNCHANGED <<owner, at, busy, trees, buttons, choice, attached, scan, ids, combo, sel>>

\* The index is not one of the ids any more: GetAt throws, nobody catches it.
FetchThrows == sync = "fetch" /\ sel # 0 /\ sel \notin DOMAIN ids

SyncLock ==
  /\ sync = "lock" /\ Lock(Syncer)
  /\ sync' = "walk"
  /\ UNCHANGED <<at, busy, trees, buttons, choice, list>>

\* DeleteAreaAndDevice walks the tree of deletions; or the connection failed.
SyncWalk ==
  /\ sync = "walk"
  /\ sync' \in {"work", "done"}
  /\ UNCHANGED <<owner, at, busy, trees, buttons, choice, list>>

\* Close, or one of the returns without it; the transfer to the phone.
SyncWork ==
  /\ sync = "work"
  /\ owner' \in {Nobody, owner}
  /\ sync' = "done"
  /\ UNCHANGED <<at, busy, trees, buttons, choice, list>>

\* Mutant of SyncDone: both buttons, as for the other kinds of data.
SyncDoneBoth ==
  /\ sync = "done" /\ Ended(Syncer)
  /\ sync' = "off" /\ busy' = FALSE
  /\ flash' = TRUE /\ tophone' = TRUE /\ topc' = TRUE
  /\ UNCHANGED <<at, trees, choice, list>>

\* The thread returns right after it enabled the buttons.
SyncDone ==
  /\ sync = "done" /\ Ended(Syncer)
  /\ sync' = "off" /\ busy' = FALSE
  /\ flash' = TRUE /\ tophone' = TRUE /\ topc' = (radio # "user")
  /\ UNCHANGED <<at, trees, choice, list>>

Session ==
  SyncText \/ SyncFetch \/ SyncLock \/ SyncWalk \/ SyncWork \/ SyncDone

-----------------------------------------------------------------------------
(* The list of phones. *)

ScanClear ==
  /\ scan = "clear"
  /\ scan' = "list" /\ ids' = <<>>
  /\ UNCHANGED <<threads, trees, buttons, choice, attached, combo, sel, opened>>

\* GetWDPAllDevice, in the order Windows has them.
ScanList ==
  /\ scan = "list"
  /\ scan' = "show"
  /\ \E phones \in SetToSeqs(attached) : ids' = ids \o phones
  /\ UNCHANGED <<threads, trees, buttons, choice, attached, combo, sel, opened>>

\* The combobox keeps the names of phones whose ids are gone.
ScanFails ==
  /\ scan = "list"
  /\ scan' = "nap"
  /\ UNCHANGED <<threads, trees, buttons, choice, attached, ids, combo, sel, opened>>

\* Mutant of ScanShow: the selection is left as it was.
ScanShowKeep ==
  /\ scan = "show"
  /\ scan' = "nap" /\ combo' = ids
  /\ UNCHANGED <<threads, trees, buttons, choice, attached, ids, sel, opened>>

\* Mutant of ScanShow: the combobox has an order of its own.
ScanShowSorted ==
  /\ scan = "show"
  /\ scan' = "nap" /\ combo' = Reverse(ids) /\ sel' = Len(ids)
  /\ UNCHANGED <<threads, trees, buttons, choice, attached, ids, opened>>

\* The combobox does not sort.  The last one ends up selected.
ScanShow ==
  /\ scan = "show"
  /\ scan' = "nap" /\ combo' = ids /\ sel' = Len(ids)
  /\ UNCHANGED <<threads, trees, buttons, choice, attached, ids, opened>>

\* SuspendThread.
ScanSleep ==
  /\ scan = "nap"
  /\ scan' = "sleep"
  /\ UNCHANGED <<threads, trees, buttons, choice, attached, ids, combo, sel, opened>>

Scan == ScanClear \/ ScanList \/ ScanShow \/ ScanSleep

\* WM_DEVICECHANGE.
Plug(p) ==
  /\ attached' = IF p \in attached THEN attached \ {p} ELSE attached \cup {p}
  /\ Wake
  /\ UNCHANGED <<threads, trees, buttons, choice, ids, combo, sel, opened>>

PickPhone(i) ==
  /\ i \in DOMAIN combo /\ i # sel /\ sync # "box"
  /\ sel' = i
  /\ UNCHANGED <<threads, trees, buttons, choice, attached, scan, ids, combo, opened>>
=============================================================================
