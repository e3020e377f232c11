------------------------------ MODULE LogFiles ------------------------------
(***************************************************************************)
(* The program's log: a file for every hour something is written in, an    *)
(* open handle all threads of the process share without a lock             *)
(* (WriteRecordToFile), and the deletion of old files at every start       *)
(* (ClearLog).                                                             *)
(*                                                                         *)
(* A record is a number, a file the set of its records, named by its hour. *)
(* The text, the directory of a day, and calls to create or open a file    *)
(* that fail are left out.                                                 *)
(***************************************************************************)
EXTENDS Integers, FiniteSets

CONSTANTS
  Writers,      \* threads of the process that write records
  HoursPerDay,
  Keep,         \* day.ini: days to keep, 30 unless changed
  MaxHour,      \* bound: the clock
  MaxRecords,   \* bound: records
  NoLog,        \* the file does not exist
  NoHour        \* no file is open

ASSUME LogAssumption ==
  /\ HoursPerDay \in Nat \ {0} /\ Keep \in Nat /\ MaxHour \in Nat /\ MaxRecords \in Nat
  /\ NoHour \notin Nat /\ \A file \in SUBSET (1..MaxRecords) : file # NoLog

VARIABLES
  hour,     \* the clock
  logs,     \* hour -> the records of its file, or NoLog
  handle,   \* m_logFile: the hour of the open file
  call,     \* writer -> the call of WriteRecordToFile it is in
  records,  \* records so far
  written   \* history: records with the hour of the call, once it has returned

logVars == <<hour, logs, handle, call, records, written>>

Hours == 0..MaxHour
Idle == [step |-> "off", hour |-> 0, rec |-> 0]
Calls == [step : {"off", "open", "close", "create", "append"}, hour : Hours, rec : 0..MaxRecords]

LogTypeOK ==
  /\ hour \in Hours
  /\ logs \in [Hours -> {NoLog} \cup SUBSET (1..MaxRecords)]
  /\ handle \in Hours \cup {NoHour}
  /\ call \in [Writers -> Calls]
  /\ records \in 0..MaxRecords
  /\ written \subseteq [rec : 1..MaxRecords, hour : Hours]

Day(h) == h \div HoursPerDay

LogInit ==
  /\ hour = 0 /\ records = 0 /\ written = {}
  /\ logs = [h \in Hours |-> NoLog] /\ handle = NoHour
  /\ call = [w \in Writers |-> Idle]

Tick ==
  /\ hour < MaxHour
  /\ hour' = hour + 1
  /\ UNCHANGED <<logs, handle, call, records, written>>

\* PathFileExists: the file of the hour is there, or has to be made.
Look(w) ==
  /\ call[w].step = "off" /\ records < MaxRecords
  /\ records' = records + 1
  /\ call' = [call EXCEPT ![w] =
                [step |-> IF logs[hour] = NoLog THEN "close" ELSE "open",
                 hour |-> hour, rec |-> records']]
  /\ UNCHANGED <<hour, logs, handle, written>>

\* An open file is kept, whatever its hour; a file that has gone stays unopened.
Open(w) ==
  /\ call[w].step = "open"
  /\ handle' = IF handle = NoHour /\ logs[call[w].hour] # NoLog THEN call[w].hour ELSE handle
  /\ call' = [call EXCEPT ![w].step = "append"]
  /\ UNCHANGED <<hour, logs, records, written>>

\* Mutant of Close: the file of the last hour stays open.
CloseNothing(w) ==
  /\ call[w].step = "close"
  /\ call' = [call EXCEPT ![w].step = IF handle = NoHour THEN "create" ELSE "append"]
  /\ UNCHANGED <<hour, logs, handle, records, written>>

Close(w) ==
  /\ call[w].step = "close"
  /\ handle' = NoHour
  /\ call' = [call EXCEPT ![w].step = "create"]
  /\ UNCHANGED <<hour, logs, records, written>>

\* modeCreate empties a file another thread has made meanwhile.
Create(w) ==
  /\ call[w].step = "create"
  /\ logs' = [logs EXCEPT ![call[w].hour] = {}]
  /\ handle' = call[w].hour
  /\ call' = [call EXCEPT ![w].step = "append"]
  /\ UNCHANGED <<hour, records, written>>

\* Without an open file the record is dropped.  SeekToEnd and Write are one
\* step here: threads that share the handle do not overwrite each other.
AddRecord(w) ==
  /\ call[w].step = "append"
  /\ logs' = IF handle = NoHour THEN logs ELSE [logs EXCEPT ![handle] = @ \cup {call[w].rec}]
  /\ written' = written \cup {[rec |-> call[w].rec, hour |-> call[w].hour]}
  /\ call' = [call EXCEPT ![w] = Idle]
  /\ UNCHANGED <<hour, handle, records>>

WriteRecord(w) == Look(w) \/ Open(w) \/ Close(w) \/ Create(w) \/ AddRecord(w)

\* Mutant of Cleared: compares with <=, one day more goes.
ClearedEarly ==
  [h \in Hours |-> IF Day(h) <= Day(hour) - Keep + 1 /\ h # handle THEN NoLog ELSE logs[h]]

\* The names of a day's files sort before the name of the day: all files of
\* the day Keep days ago go, too.  DeleteFile fails for an open one.
Cleared ==
  [h \in Hours |-> IF Day(h) <= Day(hour) - Keep /\ h # handle THEN NoLog ELSE logs[h]]

\* InitLogRecord in a new process.
ClearLog ==
  /\ logs' = Cleared
  /\ UNCHANGED <<hour, records, written>>

\* A second start: it clears the log and writes, with a handle of its own,
\* that it was not the first.
SecondStart ==
  /\ records < MaxRecords
  /\ records' = records + 1
  /\ logs' = [Cleared EXCEPT ![hour] = (IF @ = NoLog THEN {} ELSE @) \cup {records'}]
  /\ written' = written \cup {[rec |-> records', hour |-> hour]}
  /\ UNCHANGED <<hour, handle, call>>

\* A record of the last Keep days that is in no file.
Lost ==
  {r \in written : Day(r.hour) > Day(hour) - Keep
                   /\ \A h \in Hours : logs[h] = NoLog \/ r.rec \notin logs[h]}
=============================================================================
