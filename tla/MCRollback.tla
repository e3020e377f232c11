----------------------------- MODULE MCRollback -----------------------------
(* Small instances of Rollback for TLC. *)
EXTENDS Rollback

\* A finished row on each of two phones, an unfinished one and one of the server.
TwoPhones == {"d1", "d2"}
FewRows == {"done1", "open1", "done2", "new"}
FewHome == [done1 |-> "d1", open1 |-> "d1", done2 |-> "d2", new |-> NoDevice]
FewFinished == {"done1", "done2"}

\* One phone with a single row.
OnePhone == {"d1"}
OneRow == {"done1"}
OneHome == [r \in OneRow |-> "d1"]
=============================================================================
