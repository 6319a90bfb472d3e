-------------------------- MODULE AlertDispatchMC --------------------------
(***************************************************************************)
(* Values of the constants of AlertDispatch for the runs of TLC: which     *)
(* events, favourites and windows a small instance has. The cfg files      *)
(* choose among them.                                                      *)
(***************************************************************************)
EXTENDS AlertDispatch

CONSTANTS quake, flood

\* A severe and a moderate event: only the first breaks through quiet hours.
MCEvents   == {quake, flood}
MCOneEvent == {flood}
MCSeverity == [e \in Events |-> IF e = quake THEN 4 ELSE 3]
\* The second event has a severity the table does not know.
MCSeverityUnknown == [e \in Events |-> IF e = quake THEN 4 ELSE Unranked]

MCFloors == {3}
MCFloorsTwo == {3, 4}
MCAll  == {Events}
MCSome == {{}, Events}
MCNoWindows == {}
MCNight == {{0}}
=============================================================================
