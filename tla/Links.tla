------------------------------- MODULE Links -------------------------------
(***************************************************************************)
(* Linked lists, as the lists of queue slots (QUEUEMSG.lpNextMsg) and of   *)
(* SendMessage's frames (ITSMINFO.lpPrev) are: next[q] is the cell after   *)
(* q, and null ends a list.                                                *)
(***************************************************************************)
EXTENDS Naturals, FiniteSetsExt

(* The cell reached from p in n steps; null stays null. *)
Following(next, null, q) == IF q = null THEN null ELSE next[q]
After(next, null, bound, p) ==
    LET at[n \in 0..bound] == IF n = 0 THEN p ELSE Following(next, null, at[n - 1]) IN at

(* The cells from p on, in order, up to the first null; a cycle shows as a   *)
(* list of bound cells that does not end there.                              *)
Chain(next, null, bound, p) ==
    LET at == After(next, null, bound, p)
    IN [i \in 1..Min({bound} \cup {n \in 0..bound : at[n] = null}) |-> at[i - 1]]
=============================================================================
