---------------------------- MODULE MCDeviceSync ----------------------------
(* Small instances of DeviceSync for TLC. *)
EXTENDS DeviceSync

\* An area in an area, in the inner one a device with a task and a user.
SmallItems == {"a1", "a2", "d1", "u1", "t1"}
SmallKind == [a1 |-> "area", a2 |-> "area", d1 |-> "device", u1 |-> "user", t1 |-> "task"]
SmallParent == [a1 |-> Root, a2 |-> "a1", d1 |-> "a2", u1 |-> "a2", t1 |-> "d1"]
SmallAreaOf == [a1 |-> "a1", a2 |-> "a2", d1 |-> "a2", u1 |-> "a2", t1 |-> "a2"]

\* One or a few disturbances at a time.
SmallRegimes ==
  {{}, {"mysql"}, {"sqlite"}, {"connect", "send"}, {"crash"}, {"download"}, {"web_edit"},
   {"stale"}, {"later"}, {"turn"}, {"radio"}, {"phone_edit"}}

\* What the future of a state and the properties depend on.  Between sessions
\* nobody reads the choices and what a session kept, which Click and Connect
\* set anew; the handlers' part is over when a session finishes.
Over == {"idle", "finish", "erase", "send"}
Live ==
  <<files, server, tree, sqlite, pc, regime, edits, sessions, work, held,
    IF pc \in Over THEN <<>> ELSE <<dir, radio>>,
    IF pc \in Over \cup {"fetch", "connect"} THEN <<>> ELSE <<chunks, picked, marks>>,
    IF pc \in {"idle", "fetch", "connect"} THEN <<>> ELSE <<ok, wanted, ghosts>>,
    IF pc \in {"device", "device_ack", "device_drop"} THEN scope ELSE "">>
=============================================================================
