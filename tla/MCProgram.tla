------------------------------ MODULE MCProgram ------------------------------
(***************************************************************************)
(* The regimes Program is checked in: who does what, one thing at a time   *)
(* and then two that meet.                                                 *)
(***************************************************************************)
EXTENDS Program

MCRegimes == {
  {"users", "mysql", "restart"},
  {"logs", "restart"}, {"logs", "two_writers"}, {"logs", "second"},
  {"clicks"}, {"clicks", "mysql"}, {"clicks", "hasty"}, {"clicks", "busy"}, {"clicks", "cancel"},
  {"clicks", "restart"}, {"clicks", "phones"}, {"clicks", "phones", "burst"}, {"clicks", "phones", "enum"}}
=============================================================================
