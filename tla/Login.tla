------------------------------- MODULE Login --------------------------------
(***************************************************************************)
(* The login dialog (CLogDlg) and the users it remembers in config.ini     *)
(* with their passwords: loaded when the dialog opens, one of them         *)
(* rewritten by a login (RecordUser) or made empty by the button that      *)
(* clears a user.                                                          *)
(*                                                                         *)
(* A password is a number, 0 the empty one; the digests of passwords and   *)
(* the order of the combobox are left out.                                 *)
(***************************************************************************)
EXTENDS Integers, Sequences, FiniteSets

CONSTANTS
  Users,       \* names of sys_user
  NoUser,      \* no name
  MaxPassword  \* bound: passwords a user has one after the other

ASSUME LoginAssumption == IsFiniteSet(Users) /\ NoUser \notin Users /\ MaxPassword \in Nat \ {0}

VARIABLES
  ini,       \* section USER: user_max, and name_i with pwd_i
  record,    \* m_userInfoRecord as loaded
  items,     \* the names in the combobox
  known,     \* m_userInfo: name -> password, 0 for none
  password,  \* sys_user: name -> password
  last,      \* history: name -> password of its last login, 0 once cleared
  latest     \* history: who logged in last, unless somebody was cleared since

loginVars == <<ini, record, items, known, password, last, latest>>

Passwords == 0..MaxPassword
Slots == 0..Cardinality(Users)
Entry == [name : Users \cup {NoUser}, pwd : Passwords]

LoginTypeOK ==
  /\ ini \in [max : Nat, slot : [Slots -> Entry]] /\ record \in Seq(Entry)
  /\ items \subseteq Users
  /\ known \in [Users -> Passwords] /\ password \in [Users -> Passwords]
  /\ last \in [Users -> Passwords] /\ latest \in Users \cup {NoUser}

LoginInit ==
  /\ ini = [max |-> 0, slot |-> [i \in Slots |-> [name |-> NoUser, pwd |-> 0]]]
  /\ record = <<>> /\ items = {}
  /\ known = [u \in Users |-> 0] /\ password = [u \in Users |-> 1]
  /\ last = [u \in Users |-> 0] /\ latest = NoUser

\* InitConfig and OnInitDialog; found tells whether sys_user could be read.
\* Entries without a password stay out of the combobox.
Load(found) ==
  /\ record' = [i \in 1..ini.max |-> ini.slot[i - 1]]
  /\ items' = {record'[i].name : i \in {j \in DOMAIN record' : record'[j].pwd # 0}}
  /\ known' = IF found THEN password ELSE [u \in Users |-> 0]
  /\ UNCHANGED <<ini, password, last, latest>>

\* Mutant of IndexOf: every login gets an entry of its own.
IndexOfNew(u) == Len(record)

\* The entry of that name, the last one if there are several, or the next.
IndexOf(u) ==
  LET same == {i \in DOMAIN record : record[i].name = u}
  IN IF same = {} THEN Len(record) ELSE (CHOOSE i \in same : \A j \in same : j <= i) - 1

\* Mutant of RecordUser: the entry is written, user_max is not.
RecordUserOnly(u, p) == ini' = [ini EXCEPT !.slot[IndexOf(u)] = [name |-> u, pwd |-> p]]

\* user_max becomes the index behind this entry, even when others follow it.
RecordUser(u, p) ==
  ini' = [ini EXCEPT !.max = IndexOf(u) + 1, !.slot[IndexOf(u)] = [name |-> u, pwd |-> p]]

\* A password sys_user had for the user when the dialog opened.
LogIn(u) ==
  /\ known[u] # 0
  /\ RecordUser(u, known[u])
  /\ last' = [last EXCEPT ![u] = known[u]]
  /\ latest' = u
  /\ UNCHANGED <<record, items, known, password>>

\* An empty password stands for a user that was deleted.  A name that was typed
\* and not selected has no index and is not recorded.
ClearUser(u) ==
  /\ u \in items
  /\ items' = items \ {u}
  /\ RecordUser(u, 0)
  /\ last' = [last EXCEPT ![u] = 0]
  /\ latest' = NoUser
  /\ UNCHANGED <<record, known, password>>

NewPassword(u) ==
  /\ password[u] < MaxPassword
  /\ password' = [password EXCEPT ![u] = @ + 1]
  /\ UNCHANGED <<ini, record, items, known, last, latest>>

\* The entries the next dialog will load.
Remembered == {i \in Slots : i < ini.max}
=============================================================================
