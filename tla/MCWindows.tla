------------------------------ MODULE MCWindows -----------------------------
(* Small instances of WindowTree and of Paint (the one of MCPaint).  They    *)
(* share no state: a behaviour uses one of them.  The windows of WindowTree *)
(* belong to two tasks: three windows of all kinds ("lists"), or four that  *)
(* are top-level and take no capture, w4 and w3 created first ("owners"):    *)
(* enough for a walk over owned windows to be overtaken.  An instance ends   *)
(* where a window has outlived its owner.                                   *)
EXTENDS WindowTree, MCPaint, TLC

CONSTANTS w1, w2, w3, w4
MCTaskOf == [w \in Win |-> IF w = w3 THEN 2 ELSE 1]
SameTask == Permutations({w1, w2})

VARIABLE part

MCInit == WindowInit /\ PaintInit /\ part \in {"lists", "owners", "painting"}

MCNext ==
    /\ UNCHANGED part
    /\ \/ part = "lists" /\ WindowNext /\ ~IsWindow(wnd', w4) /\ UNCHANGED paintvars
       \/ /\ part = "owners" /\ WindowNext /\ UNCHANGED paintvars
          /\ capture' = None
          /\ \A w \in Win : ~IsChildStyle(wnd', w)
          /\ \A w \in {w3, w4} : IsWindow(wnd', w) => IsWindow(wnd, w) \/ Live(wnd) \subseteq {w4}
       \/ part = "painting" /\ PaintNext /\ UNCHANGED wtvars

(* The type invariants of both. *)
WindowsTypeOK ==
    /\ part # "painting" => WindowTypeOK
    /\ part = "painting" => PaintTypeOK

MCSpec == MCInit /\ [][MCNext]_<<wtvars, paintvars, part>>
=============================================================================
