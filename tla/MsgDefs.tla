------------------------------ MODULE MsgDefs ------------------------------
(***************************************************************************)
(* Vocabulary shared by the abstract message queue (MsgQueue) and by the   *)
(* linked list of winkrnl/Kernel.c that implements it (QueueList): the     *)
(* windows and the tasks that own them, messages, and the filter arguments *)
(* of QueueGetMsg.                                                         *)
(***************************************************************************)
EXTENDS Naturals, Sequences

CONSTANTS
    Task,          \* HTASKs
    Window,        \* HWNDs that may ever exist
    NoWnd,         \* hwnd == 0
    WndTask,       \* WndTask[w]: the task that created w (GetWindowTask)
    ChildOf,       \* set of <<ancestor, descendant>> pairs (IsChild)
    Part,          \* frames and system scroll bars, made and freed with a window
    IsSystemQueue, \* TRUE for SystemQueue, FALSE for a task's own queue
    QueueSize,     \* largest cMsg given to AllocQueue
    MaxPosted,     \* bound: messages posted in one behaviour
    Calls          \* the argument lists QueueGetMsg is called with

(* Message numbers, in the order of their values in windows.h (0x12, 0xA0, *)
(* 0x100, 0x200): the filter compares them.  Posted are the kinds that are  *)
(* put in queues.                                                           *)
WM_QUIT    == 1
WM_NCMOUSE == 2
WM_KEY     == 3
WM_MOUSE   == 4
Posted     == {WM_QUIT, WM_KEY, WM_MOUSE}
Messages   == Posted \cup {WM_NCMOUSE}

(* A MSG: id numbers the messages in the order they were posted; front is   *)
(* TRUE for a message posted with Insert == 0.                              *)
Msg == [hwnd : Window \cup {NoWnd}, message : Posted,
        id : 1..MaxPosted, front : BOOLEAN]

(* The arguments of QueueGetMsg: the calling task, the window filter, the   *)
(* message range (0 for no bound) and PM_REMOVE.  HWND_BROADCAST never      *)
(* reaches it: TWIN_DriverMessage turns what is not a window into 0.        *)
Call == [task : Task, hwnd : Window \cup {NoWnd},
         min : {0} \cup Messages, max : {0} \cup Messages, remove : BOOLEAN]

ASSUME DefsAssumption ==
    /\ NoWnd \notin Window
    /\ WndTask \in [Window -> Task]
    /\ ChildOf \subseteq Window \X Window
    /\ Part \subseteq Window
    /\ IsSystemQueue \in BOOLEAN
    /\ QueueSize \in Nat \ {0}
    /\ MaxPosted \in Nat
    /\ Calls \subseteq Call

(* The filter tests of QueueGetMsg. *)
PassesFilter(m, c) ==
    /\ c.min # 0 => m.message >= c.min
    /\ c.max # 0 => m.message <= c.max
    /\ c.hwnd # NoWnd /\ m.hwnd # NoWnd =>
          m.hwnd = c.hwnd \/ <<c.hwnd, m.hwnd>> \in ChildOf

(* The message is the caller's own: it has no window, or one of its task.   *)
Mine(m, c) == m.hwnd # NoWnd => WndTask[m.hwnd] = c.task

(* DestroyWindow frees a window with all below it, and CreateWindow makes    *)
(* a window, in an existing parent, with its parts.                          *)
Tree(w) == {w} \cup {x \in Window : <<w, x>> \in ChildOf}
Parents(x) == {w \in Window : <<w, x>> \in ChildOf}
NewTree(w, window) == {w} \cup {x \in Part : w \in Parents(x) /\ Parents(x) \subseteq window \cup {w}}

IsMouse(m) == IsSystemQueue /\ m.message = WM_MOUSE
=============================================================================
