----------------------------- MODULE MCTaskMsg -----------------------------
(* Small instances of TaskMsg: the native task ta and others like it. *)
EXTENDS TaskMsg

CONSTANTS
    ta, tb, tc,
    MaxActive           \* bound: activations of all tasks together

(* All tasks but the native one are started alike. *)
Alike == Permutations(HTASK \ {ta})

FewActive == Len(stack[ta]) + Len(stack[tb]) + Len(stack[tc]) <= MaxActive
=============================================================================
