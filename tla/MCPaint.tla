------------------------------ MODULE MCPaint -------------------------------
(* A small instance of Paint: one top-level window with two children, one   *)
(* of which has a child.                                                    *)
EXTENDS Paint

CONSTANTS frame, kid, grandkid, other
MCParent == [w \in Pane |-> CASE w = frame -> Screen [] w = grandkid -> kid [] OTHER -> frame]
=============================================================================
