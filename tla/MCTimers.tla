------------------------------ MODULE MCTimers ------------------------------
(* Small instances of Timers: task ta has a window, tb may have none. *)
EXTENDS Timers

CONSTANTS ta, tb, w1
(* PeekMessage for the window, PM_NOREMOVE; GetMessage covers the rest. *)
MCPeeks == {<<w1, FALSE>>}
MCWndTask == [w \in Window |-> ta]
=============================================================================
