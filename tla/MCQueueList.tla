---------------------------- MODULE MCQueueList ----------------------------
(* Small instances of QueueList: two tasks with a window each; w3 is a      *)
(* scroll bar of t1's window w1.                                            *)
EXTENDS QueueList

CONSTANTS t1, t2, w1, w2, w3

MCWndTask == [w \in Window |-> IF w = w2 THEN t2 ELSE t1]
MCPart == {w \in Window : w = w3}
MCChildOf == {p \in Window \X Window : p[1] = w1 /\ p[2] = w3}

Arg(t, w, lo, hi, rm) == [task |-> t, hwnd |-> w, min |-> lo, max |-> hi, remove |-> rm]

(* GetMessage without filter, a peek, a window filter and a message range.  *)
MCAppCalls == {Arg(t1, NoWnd, 0, 0, TRUE), Arg(t1, NoWnd, 0, 0, FALSE),
               Arg(t1, w1, 0, 0, TRUE), Arg(t1, NoWnd, WM_KEY, WM_KEY, TRUE)}
MCAppPosts == {<<0, NoWnd, WM_QUIT>>, <<1, w1, WM_KEY>>, <<1, w3, WM_KEY>>,
               <<1, NoWnd, WM_MOUSE>>}

(* Each task's GetMessage without filter. *)
MCSysCalls == {Arg(t1, NoWnd, 0, 0, TRUE), Arg(t2, NoWnd, 0, 0, TRUE)}

(* Keys of w1 that are put in front of everything, as the WM_CHARs of        *)
(* TranslateMessage are, and input of w2.                                  *)
MCSysPosts == {<<0, w1, WM_KEY>>, <<1, w2, WM_KEY>>, <<1, w2, WM_MOUSE>>}

=============================================================================
