------------------------------ MODULE Program -------------------------------
(***************************************************************************)
(* The program from start to end (InitInstance): the log is cleared, the   *)
(* login dialog asks for a user, the main window works until it is closed, *)
(* and what is left for the next start are the logs and config.ini.        *)
(***************************************************************************)
EXTENDS LogFiles, Login, Desk

CONSTANTS
  Regimes,     \* sets of habits and disturbances; a behaviour has one of them
  FirstUser,   \* who logs in when it does not matter
  MaxStarts,   \* bound: starts of the program
  MaxClicks    \* bound: clicks on refresh, sessions and phones coming and going

AllHabits ==
  {"users", "logs", "two_writers", "second", "restart", "clicks", "mysql", "hasty", "busy",
   "cancel", "phones", "burst", "enum"}

ASSUME ProgramAssumption ==
  /\ Regimes \subseteq SUBSET AllHabits /\ FirstUser \in Users
  /\ MaxStarts \in Nat /\ MaxClicks \in Nat

VARIABLES
  phase,    \* "off", "login" or "desk"
  regime,   \* what users and the environment do in this behaviour
  starts, clicks

program == <<phase, regime, starts, clicks>>
vars == <<logVars, loginVars, deskVars, program>>

May(h) == h \in regime

\* Type correctness of every part.
TypeOK ==
  /\ LogTypeOK /\ LoginTypeOK /\ DeskTypeOK
  /\ phase \in {"off", "login", "desk"} /\ regime \in Regimes
  /\ starts \in 0..MaxStarts /\ clicks \in 0..MaxClicks

Init ==
  /\ LogInit /\ LoginInit /\ DeskInit
  /\ phase = "off" /\ regime \in Regimes
  /\ May("phones") \/ attached = Phones
  /\ starts = 0 /\ clicks = 0

-----------------------------------------------------------------------------
(* From start to end. *)

\* Mutant of OpenDialog: the connection stays open.
OpenDialogOnly ==
  /\ phase' = "login" /\ owner' = Ui
  /\ \E found \in {TRUE} \cup (IF May("mysql") THEN {FALSE} ELSE {}) : Load(found)

\* The dialog opens and reads sys_user.  When the connection fails the window's
\* thread keeps the mutex.
OpenDialog ==
  /\ phase' = "login"
  /\ \/ Load(TRUE) /\ owner' = Nobody
     \/ May("mysql") /\ Load(FALSE) /\ owner' \in {Nobody, Ui}

Start ==
  /\ phase = "off" /\ starts < MaxStarts
  /\ starts' = starts + 1
  /\ ClearLog /\ UNCHANGED <<handle, call>>
  /\ OpenDialog
  /\ UNCHANGED <<at, sync, busy, trees, buttons, choice, list, regime, clicks>>

\* The login; the window opens as DeskInit has it.
Enter(u) ==
  /\ phase = "login"
  /\ u = FirstUser \/ May("users")
  /\ LogIn(u)
  /\ phase' = "desk"
  /\ UNCHANGED <<logVars, deskVars, regime, starts, clicks>>

Forget(u) ==
  /\ phase = "login" /\ May("users")
  /\ ClearUser(u)
  /\ UNCHANGED <<logVars, deskVars, program>>

\* A new password on the server.
Change(u) ==
  /\ May("users") /\ NewPassword(u)
  /\ UNCHANGED <<logVars, deskVars, program>>

\* The threads and the memory of the program go.
Over ==
  /\ phase' = "off"
  /\ owner' = Nobody /\ sync' = "off" /\ busy' = FALSE
  /\ at' = FirstRefresh
  /\ maps' = FALSE /\ shown' = FALSE /\ item' = FALSE /\ doomed' = "none"
  /\ flash' = TRUE /\ topc' = TRUE /\ tophone' = TRUE
  /\ radio' = "work" /\ dir' = "to_pc" /\ asked' = <<"work", "to_pc">>
  /\ scan' = "clear" /\ ids' = <<>> /\ combo' = <<>> /\ sel' = 0 /\ opened' = NoPhone
  /\ handle' = NoHour /\ call' = [w \in Writers |-> Idle]
  /\ UNCHANGED <<hour, logs, records, written, loginVars, attached, regime, starts, clicks>>

\* The dialog or the window is closed, or the program ends in any other way.
End == phase # "off" /\ May("restart") /\ Over

-----------------------------------------------------------------------------
(* What runs in the window. *)

Unclicked == UNCHANGED <<logVars, loginVars, program>>
Clicked == clicks < MaxClicks /\ clicks' = clicks + 1
           /\ UNCHANGED <<logVars, loginVars, phase, regime, starts>>

\* Calm users wait for the tree before they click refresh or begin a session,
\* do not touch the choices of a session, plug phones in and out one at a time
\* and not during a session, and begin one when the list is complete.
Settled == \A r \in Refreshers : at[r] = "off"

\* Without clicks the window idles.
Working == phase = "desk" /\ May("clicks")

\* The exception of the session thread ends the program.
Crash == Working /\ FetchThrows /\ Over

Desktop ==
  /\ Working
  /\ \/ \E r \in Refreshers : Refresh(r)
     \/ \E r \in Refreshers : May("mysql") /\ RefreshFails(r)
     \/ Session
     \/ Scan
  /\ Unclicked

Clicks ==
  /\ Working
  /\ \/ \E r \in Refreshers :
          (May("hasty") \/ (Settled /\ sync # "text")) /\ ClickRefresh(r) /\ Clicked
     \/ \E d \in Dirs :
          /\ May("hasty") \/ Settled
          /\ IF sync = "off" THEN (May("burst") \/ scan = "sleep") /\ Clicked
                             ELSE May("busy") /\ Unclicked
          /\ Click(d)
     \/ \E r \in Radios : (sync = "off" \/ May("busy")) /\ ClickRadio(r) /\ Unclicked
     \/ PickItem /\ Unclicked
     \/ AnswerYes /\ Unclicked
     \/ May("cancel") /\ AnswerNo /\ Unclicked

Hardware ==
  /\ Working
  /\ \/ \E p \in Phones :
          May("phones") /\ (May("burst") \/ (scan = "sleep" /\ sync = "off")) /\ Plug(p) /\ Clicked
     \/ \E i \in 1..Cardinality(Phones) :
          May("phones") /\ (sync = "off" \/ May("busy")) /\ PickPhone(i) /\ Unclicked
     \/ May("enum") /\ ScanFails /\ Unclicked

\* Unless there are two at a time, a call of WriteRecordToFile ends before the
\* next begins.
Logging ==
  /\ May("logs")
  /\ \/ Tick
     \/ \E w \in Writers :
          /\ phase # "off" /\ WriteRecord(w)
          /\ May("two_writers") \/ \A v \in Writers \ {w} : call[v].step = "off"
     \/ phase # "off" /\ May("second") /\ SecondStart
  /\ UNCHANGED <<loginVars, deskVars, program>>

Next ==
  \/ Start \/ End \/ Crash \/ Desktop \/ Clicks \/ Hardware \/ Logging
  \/ \E u \in Users : Enter(u) \/ Forget(u) \/ Change(u)

\* Windows schedules every thread; nothing is assumed of users.
Fairness ==
  /\ \A r \in Refreshers : WF_vars(Working /\ Refresh(r) /\ Unclicked)
  /\ WF_vars((Working /\ Session /\ Unclicked) \/ Crash)
  /\ WF_vars(Working /\ Scan /\ Unclicked)

Spec == Init /\ [][Next]_vars /\ Fairness

-----------------------------------------------------------------------------
(* Safety. *)

\* What a session relies on in the trees stays as it is while it works: nobody
\* frees the tree of deletions it walks (3333), no two refreshers free it at
\* once (2946), and the item its click was about is still selected (4063),
\* without which it would report success and have done nothing.  No lock sees to
\* it, only the refresh button that is disabled (4657), as long as users do not
\* begin a session over a refresh.
TreeNotTorn ==
  ~May("hasty") /\ phase = "desk" =>
    /\ ~(sync = "walk" /\ \E r \in Refreshers : at[r] = "build")
    /\ \A q, r \in Refreshers : {at[q], at[r]} \subseteq {"free", "build"} => q = r
    /\ sync = "work" => item

\* What a session synchronises, and in which direction, is what the message
\* box asked for (4607-4640).
ConfirmedIsDone ==
  ~May("busy") /\ phase = "desk" /\ sync \in {"box", "fetch", "lock", "walk", "work"} => asked = <<radio, dir>>

\* Users go from the PC to the phone only (4054); a cancelled session enables
\* the other button for them as well (4652).
UsersToPhone ==
  regime \cap {"busy", "cancel"} = {} /\ phase = "desk" /\ sync = "box" => asked # <<"user", "to_pc">>

\* The passwords the dialog will offer are those of each user's last login
\* (234): no user is there twice, and a cleared one stays cleared.
OfferedIsLast ==
  \A i \in Remembered :
    /\ ini.slot[i].pwd # 0 => ini.slot[i].pwd = last[ini.slot[i].name]
    /\ \A j \in Remembered : ini.slot[i].name = ini.slot[j].name => i = j

\* Who logged in last is offered next time, unless somebody was cleared since:
\* user_max becomes the index behind the entry just written (250).
LatestIsOffered ==
  latest # NoUser => \E i \in Remembered : ini.slot[i] = [name |-> latest, pwd |-> last[latest]]

\* A record of the last Keep days is in some file, whatever the hour, however
\* often the program was started: unless two threads make the hour's file at
\* once, or a second process makes it.
NoRecordLost == regime \cap {"two_writers", "second"} = {} => Lost = {}

-----------------------------------------------------------------------------
(* What a step may never do, and what must happen. *)

\* The phone a session opens is the one the combobox shows (4488-4498).
OpensWhatIsShown ==
  [][regime \cap {"burst", "enum", "hasty"} = {} /\ sync = "fetch" =>
       ~FetchThrows /\ (sync' = "lock" => opened' = combo[sel])]_vars

\* Every refresh and every session the user confirmed ends, unless the program
\* does: no thread keeps the mutex from the others for ever (4315).
ThreadsEnd ==
  /\ \A r \in Refreshers : Working /\ at[r] # "off" ~> phase = "off" \/ at[r] = "off"
  /\ Working /\ sync \notin {"off", "text", "box"} ~> phase = "off" \/ sync = "off"

\* The combobox comes to name the phones plugged in.
ListCatchesUp ==
  regime \cap {"burst", "enum"} = {} =>
    (Working ~> phase = "off" \/ {combo[i] : i \in DOMAIN combo} = attached)
=============================================================================
