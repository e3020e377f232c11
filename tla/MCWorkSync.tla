----------------------------- MODULE MCWorkSync -----------------------------
(* Small instances of WorkSync for TLC. *)
EXTENDS WorkSync

\* One device with a task and a record of it.
PlainRows == {"t1", "r1"}
PlainTable == [r \in PlainRows |-> IF r = "t1" THEN "task" ELSE "record"]
PlainOwner == [r \in PlainRows |-> "t1"]
PlainDevices == {"d1"}
PlainDeviceOf == [r \in PlainRows |-> "d1"]
PlainSelections == {<<>>, <<{"d1"}>>}

\* The same device with a row in each of the four tables and a child task.
FourRows == {"y1", "e1", "t1", "c1", "r1"}
FourTable == [y1 |-> "type", e1 |-> "template", t1 |-> "task", c1 |-> "task", r1 |-> "record"]
FourOwner == [y1 |-> "y1", e1 |-> "y1", t1 |-> "t1", c1 |-> "t1", r1 |-> "c1"]
FourDeviceOf == [r \in FourRows |-> "d1"]
OneChunk == {<<{"d1"}>>}

\* Two devices, each with a task, and a record of the second's task.
TwoRows == {"t1", "t2", "r2"}
TwoTable == [r \in TwoRows |-> IF r = "r2" THEN "record" ELSE "task"]
TwoOwner == [t1 |-> "t1", t2 |-> "t2", r2 |-> "t2"]
TwoDevices == {"d1", "d2"}
TwoDeviceOf == [t1 |-> "d1", t2 |-> "d2", r2 |-> "d2"]
TwoSelections == {<<{"d1"}, {"d2"}>>, <<{"d2"}, {"d1"}>>}
OneOrBoth == {<<{"d1"}>>, <<{"d2"}, {"d1"}>>}

\* Both together.
AllRows == FourRows \cup TwoRows
AllTable == [r \in AllRows |-> IF r \in FourRows THEN FourTable[r] ELSE TwoTable[r]]
AllOwner == [r \in AllRows |-> IF r \in FourRows THEN FourOwner[r] ELSE TwoOwner[r]]
AllDeviceOf == [r \in AllRows |-> IF r \in FourRows THEN FourDeviceOf[r] ELSE TwoDeviceOf[r]]

Nothing == {}
Tasks == {"t1"}
=============================================================================
