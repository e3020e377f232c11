--------------------------- MODULE Program_proofs ---------------------------
(***************************************************************************)
(* What outlives the program, the log and the users config.ini remembers;  *)
(* then the window and its threads, and type correctness of the whole.     *)
(***************************************************************************)
EXTENDS Program, FiniteSetTheorems, SequenceTheorems, TLAPS

-----------------------------------------------------------------------------
(* The log. *)

OneWriter == regime \cap {"two_writers", "second"} = {}

LogMoves ==
  \/ Tick /\ phase' = phase
  \/ \E w \in Writers :
       /\ WriteRecord(w) /\ phase # "off" /\ phase' = phase
       /\ OneWriter => \A v \in Writers \ {w} : call[v].step = "off"
  \/ SecondStart /\ ~OneWriter /\ phase # "off" /\ phase' = phase
  \/ ClearLog /\ phase = "off" /\ UNCHANGED <<handle, call>>
  \/ /\ handle' = NoHour /\ call' = [w \in Writers |-> Idle]
     /\ UNCHANGED <<hour, logs, records, written>>
  \/ UNCHANGED logVars /\ (phase' = "off" => phase = "off")

LEMMA LogStep == [Next]_vars => LogMoves /\ regime' = regime
  <1> USE DEF LogMoves, OneWriter, May
  <1>1. Start => LogMoves /\ regime' = regime
      BY DEF Start, OpenDialog
  <1>2. (End \/ Crash) => LogMoves /\ regime' = regime
      BY DEF End, Crash, Over
  <1>3. (Desktop \/ Clicks \/ Hardware) => LogMoves /\ regime' = regime
      BY DEF Desktop, Clicks, Hardware, Unclicked, Clicked, program
  <1>4. Logging => LogMoves /\ regime' = regime
      BY DEF Logging, program
  <1>5. ASSUME NEW u \in Users, Enter(u) \/ Forget(u) \/ Change(u)
        PROVE  LogMoves /\ regime' = regime
      BY <1>5 DEF Enter, Forget, Change, program
  <1>6. UNCHANGED vars => LogMoves /\ regime' = regime
      BY DEF vars, program
  <1> QED BY <1>1, <1>2, <1>3, <1>4, <1>5, <1>6 DEF Next

\* Days follow the clock.
LEMMA DayGrows == ASSUME NEW h \in Nat PROVE Day(h) \in Nat /\ Day(h) <= Day(h + 1)
  <1> DEFINE n == HoursPerDay
  <1>1. n \in Nat /\ n > 0
      BY LogAssumption
  <1> HIDE DEF n
  <1>2. h \div n \in Nat /\ (h + 1) \div n \in Nat
      BY <1>1
  <1>3. h \div n <= (h + 1) \div n
      BY <1>1, <1>2
  <1> QED BY <1>2, <1>3 DEF Day, n


(* An open file is there, and a call that is on its way has a record.      *)
LogShape ==
  /\ LogTypeOK
  /\ handle # NoHour => logs[handle] # NoLog
  /\ \A w \in Writers : call[w].step # "off" => call[w].rec # 0

LEMMA LogTypes ==
  ASSUME LogShape, LogMoves
  PROVE  LogShape'
  <1> USE LogAssumption DEF LogShape, LogTypeOK, Hours, Calls, Idle
  <1>1. CASE Tick
      BY <1>1 DEF Tick
  <1>2. CASE SecondStart
      BY <1>2 DEF SecondStart, Cleared
  <1>3. CASE ClearLog /\ UNCHANGED <<handle, call>>
      BY <1>3 DEF ClearLog, Cleared
  <1>4. ASSUME NEW w \in Writers, WriteRecord(w) PROVE LogShape'
    <2>1. CASE Look(w)
        BY <2>1 DEF Look
    <2>2. CASE Open(w)
        BY <2>2 DEF Open
    <2>3. CASE Close(w)
        BY <2>3 DEF Close
    <2>4. CASE Create(w)
        BY <2>4 DEF Create
    <2>5. CASE AddRecord(w)
      <3>1. call[w].rec \in 1..MaxRecords /\ call[w].hour \in Hours
          BY <2>5 DEF AddRecord
      <3>2. CASE handle = NoHour
          BY <2>5, <3>1, <3>2 DEF AddRecord
      <3>3. CASE handle # NoHour
        <4>1. logs[handle] \cup {call[w].rec} \in SUBSET (1..MaxRecords)
            BY <3>1, <3>3
        <4>2. logs' = [logs EXCEPT ![handle] = @ \cup {call[w].rec}]
            BY <2>5, <3>3 DEF AddRecord
        <4>3. logs' \in [Hours -> {NoLog} \cup SUBSET (1..MaxRecords)] /\ logs'[handle] # NoLog
            BY <3>3, <4>1, <4>2
        <4> QED BY <2>5, <3>1, <3>3, <4>3 DEF AddRecord
      <3> QED BY <3>2, <3>3
    <2> QED BY <1>4, <2>1, <2>2, <2>3, <2>4, <2>5 DEF WriteRecord
  <1>5. CASE handle' = NoHour /\ call' = [w \in Writers |-> Idle] /\ UNCHANGED <<hour, logs, records, written>>
      BY <1>5
  <1> QED BY <1>1, <1>2, <1>3, <1>4, <1>5 DEF LogMoves, logVars

\* With one writer at a time the open file is the newest, and a call that is on
\* its way has just seen whether the file of its hour is there.
LogInv ==
  /\ LogShape
  /\ phase = "off" => handle = NoHour /\ \A w \in Writers : call[w].step = "off"
  /\ OneWriter =>
       /\ \A h \in Hours : logs[h] # NoLog => h <= hour /\ (handle # NoHour => h <= handle)
       /\ \A v, w \in Writers : call[v].step # "off" /\ call[w].step # "off" => v = w
       /\ \A w \in Writers : call[w].step # "off" =>
            /\ call[w].hour <= hour
            /\ \A h \in Hours : logs[h] # NoLog => h <= call[w].hour
            /\ call[w].step = "open" => logs[call[w].hour] # NoLog
            /\ call[w].step \in {"close", "create"} => logs[call[w].hour] = NoLog
            /\ call[w].step = "append" => handle = call[w].hour
       /\ \A r \in written :
            Day(r.hour) > Day(hour) - Keep => logs[r.hour] # NoLog /\ r.rec \in logs[r.hour]

LEMMA LogStays ==
  ASSUME LogInv, LogMoves, regime' = regime
  PROVE  LogInv'
  <1>0. LogShape'
      BY LogTypes DEF LogInv
  <1>a. (phase' = "off" => handle' = NoHour /\ \A w \in Writers : call'[w].step = "off")
      BY DEF LogInv, LogMoves, logVars, ClearLog, Idle, Tick
  <1> SUFFICES ASSUME OneWriter
               PROVE  LogInv'
      BY <1>0, <1>a DEF LogInv, OneWriter
  <1> DEFINE Files(w) ==
        /\ call[w].hour <= hour
        /\ \A h \in Hours : logs[h] # NoLog => h <= call[w].hour
        /\ call[w].step = "open" => logs[call[w].hour] # NoLog
        /\ call[w].step \in {"close", "create"} => logs[call[w].hour] = NoLog
        /\ call[w].step = "append" => handle = call[w].hour
  <1> DEFINE One == \A v, w \in Writers : call[v].step # "off" /\ call[w].step # "off" => v = w
  <1> DEFINE Newest == \A h \in Hours : logs[h] # NoLog => h <= hour /\ (handle # NoHour => h <= handle)
  <1> DEFINE Kept == \A r \in written :
            Day(r.hour) > Day(hour) - Keep => logs[r.hour] # NoLog /\ r.rec \in logs[r.hour]
  <1> DEFINE All == \A w \in Writers : call[w].step # "off" => Files(w)
  <1> SUFFICES Newest' /\ One' /\ All' /\ Kept'
      BY <1>0, <1>a DEF LogInv
  <1> USE LogAssumption DEF LogShape, LogTypeOK, Hours, Calls, Idle
  <1>i. LogShape /\ Newest /\ One /\ All /\ Kept
      BY DEF LogInv
  <1>j. hour \in Nat /\ (\A r \in written : r.hour \in Nat /\ r.hour \in Hours)
      BY <1>i
  <1>d. Day(hour) \in Nat /\ \A r \in written : Day(r.hour) \in Nat
      BY <1>j, DayGrows
  <1>1. CASE Tick
    <2>0. hour' = hour + 1
        BY <1>1 DEF Tick
    <2>1. Day(hour) \in Nat /\ Day(hour') \in Nat /\ Day(hour) <= Day(hour')
        BY <1>j, <2>0, DayGrows
    <2>3. Kept'
        BY <1>d, <1>i, <1>1, <2>1 DEF Tick
    <2> QED BY <1>i, <1>1, <2>3 DEF Tick
  <1>2. CASE ClearLog /\ phase = "off" /\ UNCHANGED <<handle, call>>
    <2>1. handle = NoHour /\ \A w \in Writers : call[w].step = "off"
        BY <1>2 DEF LogInv
    <2>2. Kept'
      <3> SUFFICES ASSUME NEW r \in written', Day(r.hour) > Day(hour) - Keep
                   PROVE  logs'[r.hour] # NoLog /\ r.rec \in logs'[r.hour]
          BY <1>2 DEF ClearLog
      <3>1. r \in written /\ r.hour \in Hours /\ Day(r.hour) \in Nat /\ Day(hour) \in Nat
          BY <1>d, <1>j, <1>2 DEF ClearLog
      <3>2. logs'[r.hour] = logs[r.hour]
          BY <1>2, <3>1 DEF ClearLog, Cleared
      <3> QED BY <1>i, <3>1, <3>2
    <2> QED BY <1>i, <1>2, <2>1, <2>2 DEF ClearLog, Cleared
  <1>3. ASSUME NEW w \in Writers, WriteRecord(w), \A v \in Writers \ {w} : call[v].step = "off"
        PROVE  Newest' /\ One' /\ All' /\ Kept'
    <2>1. CASE Look(w)
        BY <1>i, <1>3, <2>1 DEF Look
    <2>2. CASE Open(w)
        BY <1>i, <1>3, <2>2 DEF Open
    <2>3. CASE Close(w)
        BY <1>i, <1>3, <2>3 DEF Close
    <2>4. CASE Create(w)
        BY <1>i, <1>3, <2>4 DEF Create
    <2>5. CASE AddRecord(w)
        BY <1>i, <1>3, <2>5, SMTT(30) DEF AddRecord
    <2> QED BY <1>3, <2>1, <2>2, <2>3, <2>4, <2>5 DEF WriteRecord
  <1>4. CASE handle' = NoHour /\ call' = [w \in Writers |-> Idle] /\ UNCHANGED <<hour, logs, records, written>>
      BY <1>i, <1>4
  <1>5. CASE UNCHANGED logVars
      BY <1>i, <1>5 DEF logVars
  <1> QED BY <1>1, <1>2, <1>3, <1>4, <1>5 DEF LogMoves

\* A record of the last days is in a file, unless two threads or two processes
\* make the file of an hour.
THEOREM RecordsAreKept == Spec => []NoRecordLost
  <1>1. Init => LogInv
      BY LogAssumption DEF Init, LogInit, LogInv, LogShape, LogTypeOK, Hours, Calls, Idle
  <1>2. LogInv /\ [Next]_vars => LogInv'
      BY LogStep, LogStays
  <1>3. LogInv => NoRecordLost
      BY DEF LogInv, LogShape, LogTypeOK, NoRecordLost, Lost, OneWriter
  <1> QED BY <1>1, <1>2, <1>3, PTL DEF Spec

-----------------------------------------------------------------------------
(* The users config.ini remembers. *)

LoginMoves ==
  \/ phase' = "login" /\ \E found \in BOOLEAN : Load(found)
  \/ phase = "login" /\ phase' = "desk" /\ \E u \in Users : LogIn(u)
  \/ phase = "login" /\ phase' = "login" /\ \E u \in Users : ClearUser(u)
  \/ phase' = phase /\ \E u \in Users : NewPassword(u)
  \/ phase' \in {phase, "off"} /\ UNCHANGED loginVars

LEMMA LoginStep == [Next]_vars => LoginMoves
  <1> USE DEF LoginMoves
  <1>1. Start => LoginMoves
      BY DEF Start, OpenDialog
  <1>2. (End \/ Crash) => LoginMoves
      BY DEF End, Crash, Over, loginVars
  <1>3. (Desktop \/ Clicks \/ Hardware) => LoginMoves
      BY DEF Desktop, Clicks, Hardware, Unclicked, Clicked, program
  <1>4. Logging => LoginMoves
      BY DEF Logging, program
  <1>5. ASSUME NEW u \in Users, Enter(u) \/ Forget(u) \/ Change(u)
        PROVE  LoginMoves
      BY <1>5 DEF Enter, Forget, Change, program
  <1>6. UNCHANGED vars => LoginMoves
      BY DEF vars, program
  <1> QED BY <1>1, <1>2, <1>3, <1>4, <1>5, <1>6 DEF Next

\* Entries that may be offered are right, and no user has two of them.
Right(i) ==
  /\ ini.slot[i].name \in Users
  /\ ini.slot[i].pwd # 0 => ini.slot[i].pwd = last[ini.slot[i].name]

\* While the dialog is open, config.ini has an entry for every one that was
\* loaded, whatever user_max says: what a cleared user cut off is still right
\* when a login makes it count again.
LoginInv ==
  /\ LoginTypeOK
  /\ ini.max <= Cardinality(Users) + 1
  /\ \A i \in Remembered : Right(i)
  /\ \A i, j \in Remembered : ini.slot[i].name = ini.slot[j].name => i = j
  /\ latest # NoUser => \E i \in Remembered : ini.slot[i] = [name |-> latest, pwd |-> last[latest]]
  /\ phase = "login" =>
       /\ Len(record) <= Cardinality(Users) + 1 /\ ini.max <= Len(record)
       /\ \A i \in DOMAIN record : Right(i - 1) /\ ini.slot[i - 1].name = record[i].name
       /\ \A i, j \in DOMAIN record : record[i].name = record[j].name => i = j
       /\ items \subseteq {record[i].name : i \in DOMAIN record}

\* Different names are not more than there are users.
LEMMA FewNames ==
  ASSUME NEW f, NEW n \in Nat, \A i \in 1..n : f[i] \in Users, \A i, j \in 1..n : f[i] = f[j] => i = j
  PROVE  n <= Cardinality(Users)
  <1> DEFINE g == [i \in 1..n |-> f[i]]
  <1>1. g \in Injection(1..n, Users)
      BY DEF Injection, IsInjective
  <1>2. IsFiniteSet(1..n) /\ Cardinality(1..n) = n
      BY FS_Interval
  <1> QED BY <1>1, <1>2, FS_Injection, LoginAssumption

LEMMA UsersFinite == IsFiniteSet(Users) /\ Cardinality(Users) \in Nat
  BY LoginAssumption, FS_CardinalityType

\* Where RecordUser writes.
LEMMA IndexIs ==
  ASSUME LoginInv, phase = "login", NEW u \in Users
  PROVE  /\ IndexOf(u) \in Slots /\ IndexOf(u) \in 0..Len(record)
         /\ IndexOf(u) < Len(record) => record[IndexOf(u) + 1].name = u
         /\ IndexOf(u) = Len(record) => \A i \in DOMAIN record : record[i].name # u
  <1> DEFINE same == {i \in DOMAIN record : record[i].name = u}
  <1>1. record \in Seq(Entry) /\ Len(record) \in Nat /\ DOMAIN record = 1..Len(record)
      BY DEF LoginInv, LoginTypeOK
  <1>2. \A i \in 1..Len(record) : record[i].name \in Users
      BY <1>1 DEF LoginInv, Right
  <1>3. Len(record) <= Cardinality(Users)
    <2> DEFINE f == [i \in 1..Len(record) |-> record[i].name]
    <2>1. \A i \in 1..Len(record) : f[i] \in Users
        BY <1>2
    <2>2. \A i, j \in 1..Len(record) : f[i] = f[j] => i = j
        BY <1>1 DEF LoginInv
    <2> HIDE DEF f
    <2> QED BY <1>1, <2>1, <2>2, FewNames
  <1>4. CASE same = {}
      BY <1>1, <1>3, <1>4, UsersFinite DEF IndexOf, Slots
  <1>5. CASE same # {}
    <2>1. PICK i \in same : TRUE
        BY <1>5
    <2>2. \A j \in same : j = i
        BY <2>1 DEF LoginInv
    <2>3. (CHOOSE k \in same : \A j \in same : j <= k) = i
      <3>1. i \in same /\ \A j \in same : j <= i
          BY <1>1, <2>1, <2>2
      <3> QED BY <2>2, <3>1
    <2>4. IndexOf(u) = i - 1
        BY <1>5, <2>3 DEF IndexOf
    <2> QED BY <1>1, <1>3, <2>1, <2>4, UsersFinite DEF Slots
  <1> QED BY <1>4, <1>5

\* What RecordUser does to the entries.
LEMMA Recorded ==
  ASSUME LoginInv, phase = "login", NEW u \in Users, NEW p \in Passwords, RecordUser(u, p)
  PROVE  /\ ini' \in [max : Nat, slot : [Slots -> Entry]]
         /\ ini'.max = IndexOf(u) + 1
         /\ ini'.slot[IndexOf(u)] = [name |-> u, pwd |-> p]
         /\ \A i \in Slots : i # IndexOf(u) => ini'.slot[i] = ini.slot[i]
  <1>1. IndexOf(u) \in Slots /\ IndexOf(u) \in Nat /\ [name |-> u, pwd |-> p] \in Entry
      BY IndexIs, UsersFinite DEF Entry, Slots
  <1>2. ini \in [max : Nat, slot : [Slots -> Entry]]
      BY DEF LoginInv, LoginTypeOK
  <1>3. PICK k \in Nat : k = IndexOf(u)
      BY <1>1
  <1>4. PICK e \in Entry : e = [name |-> u, pwd |-> p]
      BY <1>1
  <1>5. ini' = [ini EXCEPT !.max = k + 1, !.slot[k] = e]
      BY <1>3, <1>4 DEF RecordUser
  <1>6. [ini.slot EXCEPT ![k] = e] \in [Slots -> Entry]
      BY <1>2
  <1>7. ini' = [max |-> k + 1, slot |-> [ini.slot EXCEPT ![k] = e]]
      BY <1>2, <1>5
  <1> QED BY <1>1, <1>2, <1>3, <1>4, <1>6, <1>7

LEMMA LoginStays ==
  ASSUME LoginInv, LoginMoves
  PROVE  LoginInv'
  <1>a. /\ ini \in [max : Nat, slot : [Slots -> Entry]] /\ record \in Seq(Entry)
        /\ items \subseteq Users /\ known \in [Users -> Passwords] /\ password \in [Users -> Passwords]
        /\ last \in [Users -> Passwords] /\ latest \in Users \cup {NoUser}
      BY DEF LoginInv, LoginTypeOK
  <1>b. Cardinality(Users) \in Nat /\ NoUser \notin Users
      BY UsersFinite, LoginAssumption
  <1>c. \A i \in Remembered : i \in Slots /\ i \in Nat /\ i < ini.max
      BY <1>b DEF Remembered, Slots
  <1>d. DOMAIN record = 1..Len(record) /\ Len(record) \in Nat
      BY <1>a
  <1>1. ASSUME NEW found \in BOOLEAN, Load(found), phase' = "login" PROVE LoginInv'
    <2>1. ini.max \in Nat /\ ini.max <= Cardinality(Users) + 1
        BY <1>a DEF LoginInv
    <2>2. \A i \in 1..ini.max : i - 1 \in Slots /\ ini.slot[i - 1] \in Entry
      <3>1. \A i \in Remembered : ini.slot[i].name \in Users
          BY DEF LoginInv, Right
      <3>2. ini.max <= Cardinality(Users)
          <4> DEFINE f == [i \in 1..ini.max |-> ini.slot[i - 1].name]
          <4>0. CASE ini.max = Cardinality(Users) + 1
            <5>1. \A i \in 1..ini.max : i - 1 \in Remembered
                BY <1>b, <2>1, <4>0 DEF Remembered, Slots
            <5>2. \A i \in 1..ini.max : f[i] \in Users
                BY <3>1, <5>1
            <5>3. \A i, j \in 1..ini.max : f[i] = f[j] => i - 1 = j - 1
                BY <5>1 DEF LoginInv
            <5> HIDE DEF f
            <5>4. \A i, j \in 1..ini.max : f[i] = f[j] => i = j
                BY <2>1, <5>3
            <5> QED BY <2>1, <5>2, <5>4, FewNames
          <4> QED BY <1>b, <2>1, <4>0
      <3> QED BY <1>a, <1>b, <2>1, <3>2 DEF Slots
    <2>3. \A i \in 1..ini.max : i - 1 \in Remembered
        BY <1>b, <2>1, <2>2 DEF Remembered
    <2>4. record' \in Seq(Entry) /\ Len(record') = ini.max /\ DOMAIN record' = 1..ini.max
        BY <1>1, <2>1, <2>2 DEF Load
    <2>5. \A i \in 1..ini.max : record'[i] = ini.slot[i - 1]
        BY <1>1 DEF Load
    <2>6. UNCHANGED <<ini, password, last, latest>> /\ known' \in [Users -> Passwords]
        BY <1>1, <1>a, LoginAssumption DEF Load, Passwords
    <2>7. \A i \in 1..ini.max : Right(i - 1)
        BY <2>3 DEF LoginInv
    <2>8. items' \subseteq {record'[i].name : i \in DOMAIN record'}
        BY <1>1 DEF Load
    <2>9. items' \subseteq Users
        BY <2>4, <2>5, <2>7, <2>8 DEF Right
    <2>10. \A i, j \in 1..ini.max : record'[i].name = record'[j].name => i = j
      <3>1. \A i, j \in 1..ini.max : record'[i].name = record'[j].name => i - 1 = j - 1
          BY <2>3, <2>5 DEF LoginInv
      <3> QED BY <2>1, <3>1
    <2>11. LoginTypeOK'
        BY <1>a, <2>4, <2>6, <2>9 DEF LoginTypeOK
    <2> HIDE DEF LoginInv
    <2>12. Remembered' = Remembered /\ \A i : Right(i)' <=> Right(i)
        BY <2>6 DEF Remembered, Right
    <2> QED BY <2>1, <2>4, <2>5, <2>6, <2>7, <2>8, <2>10, <2>11, <2>12 DEF LoginInv
  <1>2. ASSUME NEW u \in Users, NEW p \in Passwords, RecordUser(u, p), phase = "login",
               last' = [last EXCEPT ![u] = p], p # 0 \/ latest' = NoUser,
               latest' = u \/ latest' = NoUser, phase' \in {"desk", "login"},
               phase' = "login" => u \in items, items' \subseteq items, UNCHANGED <<record, known, password>>
        PROVE  LoginInv'
    <2>k. PICK k \in Nat : k = IndexOf(u)
        BY <1>2, <1>d, IndexIs
    <2>1. k \in Slots /\ k \in Nat /\ k <= Len(record)
        BY <1>2, <1>d, <2>k, IndexIs
    <2>2. /\ ini' \in [max : Nat, slot : [Slots -> Entry]] /\ ini'.max = k + 1
          /\ ini'.slot[k] = [name |-> u, pwd |-> p]
          /\ \A i \in Slots : i # k => ini'.slot[i] = ini.slot[i]
        BY <1>2, <2>k, Recorded
    <2>3. k < Len(record) => record[k + 1].name = u
        BY <1>2, <2>k, IndexIs
    <2>4. \A i \in DOMAIN record : i - 1 # k => record[i].name # u
      <3>1. CASE k = Len(record)
          BY <1>2, <2>k, <3>1, IndexIs
      <3>2. CASE k < Len(record)
        <4>1. k + 1 \in 1..Len(record) /\ \A i \in 1..Len(record) : i - 1 # k => i # k + 1
            BY <1>d, <2>1, <3>2
        <4>2. \A i \in DOMAIN record : record[i].name = record[k + 1].name => i = k + 1
            BY <1>2, <1>d, <4>1 DEF LoginInv
        <4> QED BY <1>d, <2>3, <3>2, <4>1, <4>2
      <3>0. \A n \in Nat : k <= n => k = n \/ k < n
          OBVIOUS
      <3>3. k = Len(record) \/ k < Len(record)
          BY <1>d, <2>1, <3>0, Zenon
      <3> QED BY <3>1, <3>2, <3>3
    <2>5. last' \in [Users -> Passwords] /\ last'[u] = p /\ \A v \in Users \ {u} : last'[v] = last[v]
        BY <1>2, <1>a
    <2>6. LoginTypeOK'
        BY <1>2, <1>a, <2>2, <2>5 DEF LoginTypeOK
    <2>7. \A i \in DOMAIN record : i - 1 \in Slots /\ i - 1 \in Nat
        BY <1>2, <1>b, <1>d DEF LoginInv, Slots
    <2>8. \A i \in DOMAIN record : i - 1 # k => Right(i - 1)' /\ ini'.slot[i - 1].name = record[i].name
        BY <1>2, <2>2, <2>4, <2>5, <2>7 DEF LoginInv, Right
    <2>9. Right(k)'
        BY <2>2, <2>5 DEF Right
    <2>10. \A i \in Slots : i < ini'.max => i = k \/ i + 1 \in DOMAIN record
        BY <1>b, <1>d, <2>1, <2>2 DEF Slots
    <2>11. Remembered' = {i \in Slots : i < ini'.max}
        BY DEF Remembered, Slots
    <2>12. k \in Remembered'
        BY <2>1, <2>2, <2>11
    <2>13. \A i \in Remembered' : i \in Slots /\ i \in Nat /\ (i # k => i + 1 \in DOMAIN record)
        BY <2>10, <2>11 DEF Slots
    <2>14. \A i \in Remembered' : Right(i)' /\ (i # k => ini'.slot[i].name = record[i + 1].name /\ record[i + 1].name # u)
      <3> SUFFICES ASSUME NEW i \in Remembered', i # k
                   PROVE  Right(i)' /\ ini'.slot[i].name = record[i + 1].name /\ record[i + 1].name # u
          BY <2>9
      <3>1. i + 1 \in DOMAIN record /\ (i + 1) - 1 = i
          BY <2>13
      <3> QED BY <2>4, <2>8, <3>1
    <2>15. \A i, j \in Remembered' : ini'.slot[i].name = ini'.slot[j].name => i = j
      <3> SUFFICES ASSUME NEW i \in Remembered', NEW j \in Remembered', ini'.slot[i].name = ini'.slot[j].name
                   PROVE  i = j
          OBVIOUS
      <3>1. (i = k <=> ini'.slot[i].name = u) /\ (j = k <=> ini'.slot[j].name = u)
          BY <2>2, <2>14
      <3>2. CASE i # k /\ j # k
        <4>1. record[i + 1].name = record[j + 1].name /\ i + 1 \in DOMAIN record /\ j + 1 \in DOMAIN record
            BY <2>13, <2>14, <3>2
        <4>2. i + 1 = j + 1
            BY <1>2, <4>1 DEF LoginInv
        <4> QED BY <2>13, <4>2
      <3> QED BY <3>1, <3>2
    <2>16. latest' # NoUser => ini'.slot[k] = [name |-> latest', pwd |-> last'[latest']]
        BY <1>2, <2>2, <2>5
    <2>17. phase' = "login" =>
             /\ ini'.max <= Len(record)
             /\ \A i \in DOMAIN record : Right(i - 1)' /\ ini'.slot[i - 1].name = record[i].name
      <3> SUFFICES ASSUME phase' = "login"
                   PROVE  /\ ini'.max <= Len(record)
                          /\ \A i \in DOMAIN record : Right(i - 1)' /\ ini'.slot[i - 1].name = record[i].name
          OBVIOUS
      <3>1. PICK i \in DOMAIN record : record[i].name = u
          BY <1>2 DEF LoginInv
      <3>2. i - 1 = k /\ k + 1 = i
          BY <1>d, <2>1, <2>4, <3>1
      <3> QED BY <1>d, <2>1, <2>2, <2>8, <2>9, <3>1, <3>2
    <2>18. ini'.max <= Cardinality(Users) + 1
        BY <1>b, <2>1, <2>2 DEF Slots
    <2>19. phase = "login" /\ items \subseteq {record[i].name : i \in DOMAIN record} /\ Len(record) <= Cardinality(Users) + 1
           /\ \A i, j \in DOMAIN record : record[i].name = record[j].name => i = j
        BY <1>2 DEF LoginInv
    <2> QED BY <1>2, <2>6, <2>12, <2>14, <2>15, <2>16, <2>17, <2>18, <2>19 DEF LoginInv
  <1>3. ASSUME NEW u \in Users, LogIn(u), phase = "login", phase' = "desk" PROVE LoginInv'
      BY <1>2, <1>3, <1>a DEF LogIn
  <1>4. ASSUME NEW u \in Users, ClearUser(u), phase = "login", phase' = "login" PROVE LoginInv'
    <2>1. 0 \in Passwords
        BY LoginAssumption DEF Passwords
    <2> QED BY <1>2, <1>4, <2>1 DEF ClearUser
  <1>5. ASSUME NEW u \in Users, NewPassword(u), phase' = phase PROVE LoginInv'
    <2>1. password' \in [Users -> Passwords]
        BY <1>5, <1>a, LoginAssumption DEF NewPassword, Passwords
    <2>2. UNCHANGED <<ini, record, items, known, last, latest, phase>>
        BY <1>5 DEF NewPassword
    <2> QED BY <2>1, <2>2 DEF LoginInv, LoginTypeOK, Remembered, Right
  <1>6. CASE phase' \in {phase, "off"} /\ UNCHANGED loginVars
      BY <1>6 DEF loginVars, LoginInv, LoginTypeOK, Remembered, Right
  <1> QED BY <1>1, <1>3, <1>4, <1>5, <1>6 DEF LoginMoves

LEMMA LoginStarts == Init => LoginInv
  <1> SUFFICES ASSUME Init PROVE LoginInv
      OBVIOUS
  <1>1. LoginInit /\ phase = "off"
      BY DEF Init
  <1>2. LoginTypeOK
      BY <1>1, LoginAssumption DEF LoginInit, LoginTypeOK, Passwords, Entry, Slots
  <1>3. Remembered = {}
      BY <1>1, UsersFinite DEF LoginInit, Remembered, Slots
  <1> QED BY <1>1, <1>2, <1>3, UsersFinite DEF LoginInit, LoginInv

LEMMA LoginAlways == Spec => []LoginInv
  <1>1. LoginInv /\ [Next]_vars => LoginInv'
      BY LoginStep, LoginStays
  <1> QED BY LoginStarts, <1>1, PTL DEF Spec

\* The dialog offers passwords of last logins, once per user.
THEOREM OfferedAreLast == Spec => []OfferedIsLast
  <1>1. LoginInv => OfferedIsLast
      BY DEF LoginInv, Right, OfferedIsLast
  <1> QED BY <1>1, LoginAlways, PTL

\* The dialog offers whoever logged in last.
THEOREM LatestAreOffered == Spec => []LatestIsOffered
  <1>1. LoginInv => LatestIsOffered
      BY DEF LoginInv, LatestIsOffered
  <1> QED BY <1>1, LoginAlways, PTL

-----------------------------------------------------------------------------
(* The window and its threads. *)

DeskMoves ==
  \/ \E r \in Refreshers : Refresh(r) \/ RefreshFails(r)
  \/ Session \/ Scan
  \/ \E r \in Refreshers : ClickRefresh(r) /\ (May("hasty") \/ (Settled /\ sync # "text"))
  \/ \E d \in Dirs :
       /\ Click(d)
       /\ May("hasty") \/ Settled
       /\ IF sync = "off" THEN May("burst") \/ scan = "sleep" ELSE May("busy")
  \/ \E r \in Radios : ClickRadio(r) /\ (sync = "off" \/ May("busy"))
  \/ PickItem \/ AnswerYes
  \/ AnswerNo /\ May("cancel")
  \/ \E p \in Phones : Plug(p) /\ (May("burst") \/ (scan = "sleep" /\ sync = "off"))
  \/ \E i \in 1..Cardinality(Phones) : PickPhone(i)
  \/ ScanFails /\ May("enum")
  \/ Over
  \/ owner' \in {Nobody, Ui} /\ UNCHANGED <<at, sync, busy, trees, buttons, choice, list>>
  \/ UNCHANGED deskVars

LEMMA DeskStep == [Next]_vars => DeskMoves
  <1> USE DEF DeskMoves
  <1>1. Start => DeskMoves
      BY DEF Start, OpenDialog
  <1>2. (End \/ Crash) => DeskMoves
      BY DEF End, Crash
  <1>3. Desktop => DeskMoves
      BY DEF Desktop
  <1>4. Clicks => DeskMoves
      BY DEF Clicks
  <1>5. Hardware => DeskMoves
      BY DEF Hardware
  <1>6. Logging => DeskMoves
      BY DEF Logging
  <1>7. ASSUME NEW u \in Users, Enter(u) \/ Forget(u) \/ Change(u)
        PROVE  DeskMoves
      BY <1>7 DEF Enter, Forget, Change
  <1>8. UNCHANGED vars => DeskMoves
      BY DEF vars
  <1> QED BY <1>1, <1>2, <1>3, <1>4, <1>5, <1>6, <1>7, <1>8 DEF Next

LEMMA RegimeStays == [Next]_vars => regime' = regime
  BY LogStep

\* The phones in some order.
LEMMA Listed ==
  ASSUME NEW S \in SUBSET Phones, NEW s \in SetToSeqs(S)
  PROVE  s \in Seq(Phones)
  <1>1. IsFiniteSet(S) /\ Cardinality(S) \in Nat
      BY DeskAssumption, FS_Subset, FS_CardinalityType
  <1>2. s \in [1..Cardinality(S) -> S]
      BY DEF SetToSeqs
  <1>3. s \in [1..Cardinality(S) -> Phones]
      BY <1>2
  <1> QED BY <1>1, <1>3

\* The flags are Boolean, whatever happens to them.
Flags == {busy, maps, shown, item, flash, topc, tophone}

LEMMA FlagTypes ==
  /\ \A r \in Refreshers : RefreshClear(r) /\ Flags \subseteq BOOLEAN => Flags' \subseteq BOOLEAN
  /\ \A d \in Dirs : Click(d) /\ Flags \subseteq BOOLEAN => Flags' \subseteq BOOLEAN
  /\ Over => Flags' \subseteq BOOLEAN
  <1> USE DEF Flags, threads, trees, buttons, choice, list
  <1>1. ASSUME NEW r \in Refreshers, RefreshClear(r), Flags \subseteq BOOLEAN PROVE Flags' \subseteq BOOLEAN
      BY <1>1, Zenon DEF RefreshClear
  <1>2. ASSUME NEW d \in Dirs, Click(d), Flags \subseteq BOOLEAN PROVE Flags' \subseteq BOOLEAN
    <2>1. (busy' = TRUE \/ busy' = busy) /\ UNCHANGED <<maps, shown, item, flash>>
        BY <1>2 DEF Click
    <2>2. (topc' = FALSE \/ topc' = topc) /\ (tophone' = FALSE \/ tophone' = tophone)
        BY <1>2 DEF Click
    <2> QED BY <1>2, <2>1, <2>2, Zenon
  <1>3. ASSUME Over PROVE Flags' \subseteq BOOLEAN
      BY <1>3, Zenon DEF Over
  <1> QED BY <1>1, <1>2, <1>3

LEMMA DeskTypes ==
  ASSUME DeskTypeOK, DeskMoves
  PROVE  DeskTypeOK'
  <1> USE DeskAssumption DEF DeskTypeOK, threads, trees, buttons, choice, list, Radios, Dirs
  <1>1. ASSUME NEW r \in Refreshers, Refresh(r) \/ RefreshFails(r) PROVE DeskTypeOK'
    <2>1. CASE RefreshClear(r)
      <3>1. {busy, maps, shown, item, flash, topc, tophone}' \subseteq BOOLEAN
          BY <2>1, FlagTypes DEF Flags
      <3> QED BY <2>1, <3>1 DEF RefreshClear
    <2>2. CASE RefreshLock(r)
        BY <2>2 DEF RefreshLock, Lock
    <2>3. CASE RefreshRead(r)
        BY <2>3 DEF RefreshRead
    <2>4. CASE RefreshFree(r)
        BY <2>4 DEF RefreshFree
    <2>5. CASE RefreshBuild(r)
        BY <2>5 DEF RefreshBuild
    <2>6. CASE RefreshEnd(r)
        BY <2>6 DEF RefreshEnd, Ended
    <2>7. CASE RefreshFails(r)
        BY <2>7 DEF RefreshFails
    <2> QED BY <1>1, <2>1, <2>2, <2>3, <2>4, <2>5, <2>6, <2>7 DEF Refresh
  <1>2. CASE Session
    <2>1. CASE SyncText
        BY <2>1 DEF SyncText
    <2>2. CASE SyncFetch
        BY <2>2 DEF SyncFetch
    <2>3. CASE SyncLock
        BY <2>3 DEF SyncLock, Lock
    <2>4. CASE SyncWalk
        BY <2>4 DEF SyncWalk
    <2>5. CASE SyncWork
        BY <2>5 DEF SyncWork
    <2>6. CASE SyncDone
        BY <2>6 DEF SyncDone, Ended
    <2> QED BY <1>2, <2>1, <2>2, <2>3, <2>4, <2>5, <2>6 DEF Session
  <1>3. CASE Scan
    <2>1. CASE ScanClear
        BY <2>1 DEF ScanClear
    <2>2. CASE ScanList
      <3>1. PICK phones \in SetToSeqs(attached) : ids' = ids \o phones
          BY <2>2 DEF ScanList
      <3>2. phones \in Seq(Phones)
          BY Listed
      <3>3. ids' \in Seq(Phones)
          BY <3>1, <3>2
      <3> QED BY <2>2, <3>3 DEF ScanList
    <2>3. CASE ScanShow
        BY <2>3 DEF ScanShow
    <2>4. CASE ScanSleep
        BY <2>4 DEF ScanSleep
    <2> QED BY <1>3, <2>1, <2>2, <2>3, <2>4 DEF Scan
  <1>4. ASSUME NEW r \in Refreshers, ClickRefresh(r) PROVE DeskTypeOK'
      BY <1>4 DEF ClickRefresh, Wake
  <1>5. ASSUME NEW d \in Dirs, Click(d) PROVE DeskTypeOK'
    <2>1. {busy, maps, shown, item, flash, topc, tophone}' \subseteq BOOLEAN
        BY <1>5, FlagTypes DEF Flags
    <2> QED BY <1>5, <2>1 DEF Click
  <1>6. ASSUME NEW r \in Radios, ClickRadio(r) PROVE DeskTypeOK'
      BY <1>6 DEF ClickRadio
  <1>7. CASE PickItem
      BY <1>7 DEF PickItem
  <1>8. CASE AnswerYes
      BY <1>8 DEF AnswerYes
  <1>9. CASE AnswerNo
      BY <1>9 DEF AnswerNo
  <1>10. ASSUME NEW p \in Phones, Plug(p) PROVE DeskTypeOK'
      BY <1>10 DEF Plug, Wake
  <1>11. ASSUME NEW i \in 1..Cardinality(Phones), PickPhone(i) PROVE DeskTypeOK'
      BY <1>11 DEF PickPhone
  <1>12. CASE ScanFails
      BY <1>12 DEF ScanFails
  <1>13. CASE Over
    <2>1. {busy, maps, shown, item, flash, topc, tophone}' \subseteq BOOLEAN
        BY <1>13, FlagTypes DEF Flags
    <2>2. <<>> \in Seq(Phones) /\ 0 \in 0..Len(<<>>)
        OBVIOUS
    <2> QED BY <1>13, <2>1, <2>2 DEF Over, FirstRefresh
  <1>14. CASE owner' \in {Nobody, Ui} /\ UNCHANGED <<at, sync, busy, trees, buttons, choice, list>>
      BY <1>14
  <1>15. CASE UNCHANGED deskVars
      BY <1>15 DEF deskVars
  <1> QED BY <1>1, <1>2, <1>3, <1>4, <1>5, <1>6, <1>7, <1>8, <1>9, <1>10, <1>11, <1>12, <1>13,
             <1>14, <1>15 DEF DeskMoves

LEMMA TypeStays ==
  ASSUME TypeOK, LogInv, LoginInv, [Next]_vars
  PROVE  TypeOK'
  <1>1. LogTypeOK' /\ LoginTypeOK'
      BY LogStep, LogStays, LoginStep, LoginStays DEF LogInv, LogShape, LoginInv
  <1>2. DeskTypeOK'
      BY DeskStep, DeskTypes DEF TypeOK
  <1>3. phase' \in {"off", "login", "desk"} /\ starts' \in 0..MaxStarts /\ clicks' \in 0..MaxClicks
    <2> USE ProgramAssumption DEF TypeOK
    <2>1. CASE Start
        BY <2>1 DEF Start, OpenDialog
    <2>2. CASE End \/ Crash
        BY <2>2 DEF End, Crash, Over
    <2>3. CASE Desktop
        BY <2>3 DEF Desktop, Unclicked, program
    <2>4. CASE UNCHANGED <<phase, starts, clicks>>
        BY <2>4
    <2>5. CASE Clicked
        BY <2>5 DEF Clicked
    <2>6. ASSUME NEW u \in Users, Enter(u)
          PROVE  phase' \in {"off", "login", "desk"} /\ starts' \in 0..MaxStarts /\ clicks' \in 0..MaxClicks
        BY <2>6 DEF Enter
    <2>7. [Next]_vars =>
            Start \/ End \/ Crash \/ Desktop \/ UNCHANGED <<phase, starts, clicks>> \/ Clicked \/ \E u \in Users : Enter(u)
        BY DEF Next, Clicks, Hardware, Logging, Unclicked, program, Forget, Change, vars
    <2> QED BY <2>1, <2>2, <2>3, <2>4, <2>5, <2>6, <2>7
  <1>4. regime' \in Regimes
      BY RegimeStays DEF TypeOK
  <1> QED BY <1>1, <1>2, <1>3, <1>4 DEF TypeOK

LEMMA Starts == Init => TypeOK /\ LogInv /\ LoginInv
  <1> SUFFICES ASSUME Init PROVE TypeOK /\ LogInv /\ LoginInv
      OBVIOUS
  <1>1. LogInv
      BY LogAssumption DEF Init, LogInit, LogInv, LogShape, LogTypeOK, Hours, Calls, Idle
  <1>2. DeskTypeOK
    <2> USE DeskAssumption DEF Init, DeskInit, DeskTypeOK, Radios, Dirs, FirstRefresh
    <2>1. {busy, maps, shown, item, flash, topc, tophone} \subseteq BOOLEAN
        BY Zenon
    <2>2. <<>> \in Seq(Phones) /\ 0 \in 0..Len(<<>>)
        OBVIOUS
    <2> QED BY <2>1, <2>2
  <1>3. phase \in {"off", "login", "desk"} /\ regime \in Regimes /\ starts \in 0..MaxStarts /\ clicks \in 0..MaxClicks
      BY ProgramAssumption DEF Init
  <1> QED BY <1>1, <1>2, <1>3, LoginStarts DEF TypeOK, LogInv, LogShape, LoginInv

\* Every part keeps its types.
THEOREM TypeCorrect == Spec => []TypeOK
  <1>1. TypeOK /\ LogInv /\ LoginInv /\ [Next]_vars => (TypeOK /\ LogInv /\ LoginInv)'
      BY TypeStays, LogStep, LogStays, LoginStep, LoginStays
  <1> QED BY Starts, <1>1, PTL DEF Spec

-----------------------------------------------------------------------------
(* What the message box asked for. *)

Confirmed == {"box", "fetch", "lock", "walk", "work"}

ConfirmInv ==
  /\ ~May("busy") /\ sync \in Confirmed => asked = <<radio, dir>>
  /\ regime \cap {"busy", "cancel"} = {} =>
       /\ sync = "off" /\ radio = "user" => ~topc
       /\ sync = "text" => <<radio, dir>> # <<"user", "to_pc">>
       /\ sync = "box" => asked # <<"user", "to_pc">>

LEMMA ConfirmStays ==
  ASSUME ConfirmInv, DeskMoves, regime' = regime
  PROVE  ConfirmInv'
  <1> USE DEF ConfirmInv, Confirmed, May, threads, trees, buttons, choice, list
  <1>1. ASSUME NEW r \in Refreshers, Refresh(r) \/ RefreshFails(r) PROVE ConfirmInv'
      BY <1>1 DEF Refresh, RefreshClear, RefreshLock, RefreshRead, RefreshFree, RefreshBuild, RefreshEnd, RefreshFails
  <1>2. CASE SyncText
      BY <1>2 DEF SyncText
  <1>3. CASE SyncFetch \/ SyncLock \/ SyncWalk \/ SyncWork
      BY <1>3 DEF SyncFetch, SyncLock, SyncWalk, SyncWork
  <1>4. CASE SyncDone
      BY <1>4 DEF SyncDone
  <1>5. CASE Scan \/ ScanFails
      BY <1>5 DEF Scan, ScanClear, ScanList, ScanShow, ScanSleep, ScanFails
  <1>6. ASSUME NEW r \in Refreshers, ClickRefresh(r) PROVE ConfirmInv'
      BY <1>6 DEF ClickRefresh
  <1>7. ASSUME NEW d \in Dirs, Click(d), sync # "off" => May("busy") PROVE ConfirmInv'
    <2>1. CASE ~May("busy")
      <3>1. sync = "off" /\ (sync' = "text" \/ sync' = "off") /\ radio' = radio /\ dir' = d
          BY <1>7, <2>1 DEF Click
      <3>2. regime \cap {"busy", "cancel"} = {} /\ d = "to_pc" => radio # "user"
          BY <1>7, <3>1 DEF Click
      <3>3. regime \cap {"busy", "cancel"} = {} /\ radio = "user" => ~topc'
          BY <1>7, <3>1 DEF Click, Dirs
      <3> QED BY <3>1, <3>2, <3>3
    <2>2. CASE May("busy")
        BY <2>2
    <2> QED BY <2>1, <2>2
  <1>8. ASSUME NEW r \in Radios, ClickRadio(r), sync = "off" \/ May("busy") PROVE ConfirmInv'
      BY <1>8 DEF ClickRadio
  <1>9. CASE PickItem \/ AnswerYes
      BY <1>9 DEF PickItem, AnswerYes
  <1>10. CASE AnswerNo /\ May("cancel")
      BY <1>10 DEF AnswerNo
  <1>11. ASSUME NEW p \in Phones, Plug(p) PROVE ConfirmInv'
      BY <1>11 DEF Plug
  <1>12. ASSUME NEW i \in 1..Cardinality(Phones), PickPhone(i) PROVE ConfirmInv'
      BY <1>12 DEF PickPhone
  <1>13. CASE Over
      BY <1>13 DEF Over
  <1>14. CASE UNCHANGED <<at, sync, busy, trees, buttons, choice, list>> \/ UNCHANGED deskVars
      BY <1>14 DEF deskVars
  <1> QED BY <1>1, <1>2, <1>3, <1>4, <1>5, <1>6, <1>7, <1>8, <1>9, <1>10, <1>11, <1>12, <1>13,
             <1>14 DEF DeskMoves, Session

LEMMA ConfirmAlways == Spec => []ConfirmInv
  <1>1. Init => ConfirmInv
      BY DEF Init, DeskInit, ConfirmInv, Confirmed
  <1>2. ConfirmInv /\ [Next]_vars => ConfirmInv'
      BY DeskStep, RegimeStays, ConfirmStays
  <1> QED BY <1>1, <1>2, PTL DEF Spec

\* A session does what the user confirmed, unless the choices change meanwhile.
THEOREM ConfirmedAreDone == Spec => []ConfirmedIsDone
  <1>1. ConfirmInv => ConfirmedIsDone
      BY DEF ConfirmInv, Confirmed, ConfirmedIsDone
  <1> QED BY <1>1, ConfirmAlways, PTL

\* Users are not synchronised to the PC, unless a session was cancelled or
\* clicked into.
THEOREM UsersGoToPhones == Spec => []UsersToPhone
  <1>1. ConfirmInv => UsersToPhone
      BY DEF ConfirmInv, UsersToPhone
  <1> QED BY <1>1, ConfirmAlways, PTL

-----------------------------------------------------------------------------
(* Who is in whose way. *)

Works == {"fetch", "lock", "walk", "work", "done"}

\* A session finds the window settled and, once confirmed, keeps the refresh
\* button disabled; nobody else begins a refresh over a refresh.
CalmInv ==
  ~May("hasty") =>
    /\ \A q, r \in Refreshers : at[q] # "off" /\ at[r] # "off" => q = r
    /\ sync # "off" => busy /\ item /\ Settled
    /\ sync \in Works => ~flash

LEMMA CalmStays ==
  ASSUME CalmInv, DeskTypeOK, DeskMoves, regime' = regime
  PROVE  CalmInv'
  <1> SUFFICES ASSUME ~May("hasty")
               PROVE  CalmInv'
      BY DEF CalmInv, May
  <1> USE DEF CalmInv, Settled, Works, threads, trees, buttons, choice, list
  <1>0. at \in [Refreshers -> {"off", "clear", "lock", "read", "free", "build", "end"}]
      BY DEF DeskTypeOK
  <1>1. ASSUME NEW r \in Refreshers, Refresh(r) \/ RefreshFails(r) PROVE CalmInv'
    <2>1. at[r] # "off" /\ sync = "off" /\ sync' = sync
        BY <1>1 DEF Refresh, RefreshClear, RefreshLock, RefreshRead, RefreshFree, RefreshBuild, RefreshEnd, RefreshFails
    <2>2. \A q \in Refreshers \ {r} : at'[q] = "off"
        BY <1>0, <1>1, <2>1 DEF Refresh, RefreshClear, RefreshLock, RefreshRead, RefreshFree, RefreshBuild,
           RefreshEnd, RefreshFails
    <2> QED BY <2>1, <2>2
  <1>2. CASE SyncText \/ SyncFetch \/ SyncLock \/ SyncWalk \/ SyncWork
      BY <1>2 DEF SyncText, SyncFetch, SyncLock, SyncWalk, SyncWork
  <1>3. CASE SyncDone
      BY <1>3 DEF SyncDone
  <1>4. CASE Scan \/ ScanFails
      BY <1>4 DEF Scan, ScanClear, ScanList, ScanShow, ScanSleep, ScanFails
  <1>5. ASSUME NEW r \in Refreshers, ClickRefresh(r), Settled /\ sync # "text" PROVE CalmInv'
    <2>1. sync = "off" /\ sync' = sync
        BY <1>5 DEF ClickRefresh, DeskTypeOK
    <2>2. \A q \in Refreshers \ {r} : at'[q] = "off"
        BY <1>0, <1>5 DEF ClickRefresh
    <2> QED BY <2>1, <2>2
  <1>6. ASSUME NEW d \in Dirs, Click(d), Settled PROVE CalmInv'
    <2>1. item' = item /\ item /\ at' = at /\ flash' = flash /\ (busy => busy')
        BY <1>6 DEF Click
    <2>2. sync' = sync \/ (sync' = "text" /\ busy')
        BY <1>6 DEF Click
    <2> QED BY <1>6, <2>1, <2>2
  <1>7. ASSUME NEW r \in Radios, ClickRadio(r) PROVE CalmInv'
      BY <1>7 DEF ClickRadio
  <1>8. CASE PickItem
      BY <1>8 DEF PickItem
  <1>9. CASE AnswerYes \/ AnswerNo
      BY <1>9 DEF AnswerYes, AnswerNo
  <1>10. ASSUME NEW p \in Phones, Plug(p) PROVE CalmInv'
      BY <1>10 DEF Plug
  <1>11. ASSUME NEW i \in 1..Cardinality(Phones), PickPhone(i) PROVE CalmInv'
      BY <1>11 DEF PickPhone
  <1>12. CASE Over
      BY <1>12 DEF Over, FirstRefresh
  <1>13. CASE UNCHANGED <<at, sync, busy, trees, buttons, choice, list>> \/ UNCHANGED deskVars
      BY <1>13 DEF deskVars
  <1> QED BY <1>1, <1>2, <1>3, <1>4, <1>5, <1>6, <1>7, <1>8, <1>9, <1>10, <1>11, <1>12, <1>13
          DEF DeskMoves, Session

LEMMA CalmAlways == Spec => []CalmInv
  <1>1. Init => CalmInv
      BY DEF Init, DeskInit, FirstRefresh, CalmInv, Works
  <1>2. TypeOK /\ CalmInv /\ [Next]_vars => CalmInv'
      BY DeskStep, RegimeStays, CalmStays DEF TypeOK
  <1> QED BY <1>1, <1>2, TypeCorrect, PTL DEF Spec

\* The trees stay as they are under the sessions of users who are not hasty.
THEOREM TreesStay == Spec => []TreeNotTorn
  <1>1. CalmInv => TreeNotTorn
      BY DEF CalmInv, Works, Settled, TreeNotTorn
  <1> QED BY <1>1, CalmAlways, PTL

\* The ids belong to the names in the combobox whenever ShowAllDevices sleeps,
\* which it does during a session.
ListInv ==
  regime \cap {"burst", "enum", "hasty"} = {} =>
    /\ scan \in {"nap", "sleep"} => ids = combo
    /\ sync # "off" => scan = "sleep"

LEMMA ListStays ==
  ASSUME ListInv, CalmInv, DeskTypeOK, DeskMoves, regime' = regime
  PROVE  ListInv'
  <1> SUFFICES ASSUME regime \cap {"burst", "enum", "hasty"} = {}
               PROVE  ListInv'
      BY DEF ListInv
  <1>0. ~May("burst") /\ ~May("enum") /\ ~May("hasty")
      BY DEF May
  <1> USE DEF ListInv, threads, trees, buttons, choice, list
  <1>1. ASSUME NEW r \in Refreshers, Refresh(r) \/ RefreshFails(r) PROVE ListInv'
      BY <1>1 DEF Refresh, RefreshClear, RefreshLock, RefreshRead, RefreshFree, RefreshBuild, RefreshEnd, RefreshFails
  <1>2. CASE Session
      BY <1>2 DEF Session, SyncText, SyncFetch, SyncLock, SyncWalk, SyncWork, SyncDone
  <1>3. CASE Scan
      BY <1>3 DEF Scan, ScanClear, ScanList, ScanShow, ScanSleep
  <1>4. ASSUME NEW r \in Refreshers, ClickRefresh(r), Settled /\ sync # "text" PROVE ListInv'
    <2>1. sync = "off"
        BY <1>0, <1>4 DEF ClickRefresh, DeskTypeOK, CalmInv, Works
    <2> QED BY <1>4, <2>1 DEF ClickRefresh, Wake
  <1>5. ASSUME NEW d \in Dirs, Click(d), sync = "off" => scan = "sleep" PROVE ListInv'
    <2>1. UNCHANGED <<scan, ids, combo>> /\ scan = "sleep"
        BY <1>5 DEF Click
    <2> QED BY <2>1
  <1>6. ASSUME NEW r \in Radios, ClickRadio(r) PROVE ListInv'
      BY <1>6 DEF ClickRadio
  <1>7. CASE PickItem \/ AnswerYes \/ AnswerNo
      BY <1>7 DEF PickItem, AnswerYes, AnswerNo
  <1>8. ASSUME NEW p \in Phones, Plug(p), sync = "off" PROVE ListInv'
      BY <1>8 DEF Plug, Wake
  <1>9. ASSUME NEW i \in 1..Cardinality(Phones), PickPhone(i) PROVE ListInv'
      BY <1>9 DEF PickPhone
  <1>10. CASE Over
      BY <1>10 DEF Over
  <1>11. CASE UNCHANGED <<at, sync, busy, trees, buttons, choice, list>> \/ UNCHANGED deskVars
      BY <1>11 DEF deskVars
  <1> QED BY <1>0, <1>1, <1>2, <1>3, <1>4, <1>5, <1>6, <1>7, <1>8, <1>9, <1>10, <1>11 DEF DeskMoves

LEMMA ListAlways == Spec => []ListInv
  <1>1. Init => ListInv
      BY DEF Init, DeskInit, ListInv
  <1>2. TypeOK /\ CalmInv /\ ListInv /\ [Next]_vars => ListInv'
      BY DeskStep, RegimeStays, ListStays DEF TypeOK
  <1> QED BY <1>1, <1>2, TypeCorrect, CalmAlways, PTL DEF Spec

\* A session opens the phone the combobox shows.
THEOREM ShownIsOpened == Spec => OpensWhatIsShown
  <1> DEFINE Opens ==
        regime \cap {"burst", "enum", "hasty"} = {} /\ sync = "fetch" =>
          ~FetchThrows /\ (sync' = "lock" => opened' = combo[sel])
  <1>1. TypeOK /\ ListInv /\ [Next]_vars => [Opens]_vars
    <2> SUFFICES ASSUME TypeOK, ListInv, DeskMoves, regime \cap {"burst", "enum", "hasty"} = {}, sync = "fetch"
                 PROVE  ~FetchThrows /\ (sync' = "lock" => opened' = combo[sel])
        BY DeskStep
    <2>1. ids = combo /\ sel \in 0..Len(combo) /\ combo \in Seq(Phones)
        BY DEF ListInv, TypeOK, DeskTypeOK
    <2>2. ~FetchThrows
        BY <2>1 DEF FetchThrows
    <2>3. sync' = "lock" => opened' = ids[sel]
        BY DEF DeskMoves, threads, trees, buttons, choice, list, deskVars, Refresh, RefreshClear, RefreshLock,
           RefreshRead, RefreshFree, RefreshBuild, RefreshEnd, RefreshFails, Session, SyncText, SyncFetch,
           SyncLock, SyncWalk, SyncWork, SyncDone, Scan, ScanClear, ScanList, ScanShow, ScanSleep, ScanFails,
           ClickRefresh, Click, ClickRadio, PickItem, AnswerYes, AnswerNo, Plug, PickPhone, Over
    <2> QED BY <2>1, <2>2, <2>3
  <1> QED BY <1>1, TypeCorrect, ListAlways, PTL DEF Spec, OpensWhatIsShown
=============================================================================
