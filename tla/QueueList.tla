----------------------------- MODULE QueueList -----------------------------
(***************************************************************************)
(* The message queue of winkrnl/Kernel.c as it is built: AllocQueue's pool *)
(* of QUEUEMSG slots, threaded through lpNextMsg into the list of waiting  *)
(* messages (lpQueueNext) and the free list (lpQueueFree).                 *)
(*                                                                         *)
(* QueueGetMsg walks the list one slot per step.  For mouse input on the   *)
(* system queue it calls TWIN_ForwardButtonEvent, which sends WM_NCHITTEST,*)
(* WM_MOUSEACTIVATE, WM_SETCURSOR ... to windows: arbitrary window         *)
(* procedures, possibly of other tasks, run while the walk keeps           *)
(* lpQueueNext, the next slot, in a local variable.  When Reentrant, they  *)
(* may themselves post messages and read the queue.                        *)
(***************************************************************************)
EXTENDS MsgDefs, SequencesExt, Links

CONSTANTS
    Reentrant,   \* window procedures called during a walk may use the queue
    MaxNest,     \* bound: walks in progress at once
    Posts        \* the <<Insert, hwnd, message>> QueueAddMsg is called with

ASSUME ListAssumption == 
    /\ Reentrant \in BOOLEAN
    /\ MaxNest \in Nat \ {0}
    /\ MaxPosted # 0
    /\ Posts \subseteq {0, 1} \X (Window \cup {NoWnd}) \X Posted

VARIABLES
    Message,       \* Message[s]: the MSG in slot s (stale when s is free)
    lpNextMsg,     \* lpNextMsg[s]: the slot after s
    lpQueueNext,   \* first waiting message
    lpQueueFree,   \* first free slot
    size,          \* slots allocated
    scans,         \* QueueGetMsg calls in progress, the innermost one last
    ready,         \* tasks given TASK_READY by ReadyTask
    fault,         \* a NULL lpNextMsg was followed
    posted, window, disabled,
    got            \* <<c, id>> when call c has just returned, as in MsgQueue

vars == <<Message, lpNextMsg, lpQueueNext, lpQueueFree, size, scans, ready,
          fault, posted, window, disabled, got>>
slots == <<Message, lpNextMsg, lpQueueNext, lpQueueFree, size>>
windows == <<window, disabled>>

Slot == 1..QueueSize
NULL == 0
Blank == [hwnd |-> NoWnd, message |-> WM_QUIT, id |-> 1, front |-> FALSE]

(* The slots on the two lists, in order. *)
Waiting == Chain(lpNextMsg, NULL, QueueSize, lpQueueNext)
Free == Chain(lpNextMsg, NULL, QueueSize, lpQueueFree)

(* Mutant: the last slot is linked to the one after it. *)
AllocQueueOpen(cMsg) ==
    /\ size' = cMsg
    /\ lpQueueFree' = 1
    /\ lpQueueNext' = NULL
    /\ lpNextMsg' = [s \in Slot |-> s + 1]
    /\ Message' = [s \in Slot |-> Blank]

(* AllocQueue: slots 1..cMsg on the free list, no message waiting. *)
AllocQueue(cMsg) ==
    /\ size' = cMsg
    /\ lpQueueFree' = 1
    /\ lpQueueNext' = NULL
    /\ lpNextMsg' = [s \in Slot |-> IF s < cMsg THEN s + 1 ELSE NULL]
    /\ Message' = [s \in Slot |-> Blank]

Init ==
    /\ size = QueueSize
    /\ lpQueueFree = 1
    /\ lpQueueNext = NULL
    /\ lpNextMsg = [s \in Slot |-> IF s < QueueSize THEN s + 1 ELSE NULL]
    /\ Message = [s \in Slot |-> Blank]
    /\ scans = <<>>
    /\ ready = {}
    /\ fault = FALSE
    /\ posted = 0
    /\ window = Window
    /\ disabled = {}
    /\ got = <<>>

-----------------------------------------------------------------------------
Scan == Last(scans)
Running == scans # <<>> /\ Scan.pc = "test"
Forwarding == scans # <<>> /\ Scan.pc = "forward"

(* Who may call into the queue now: nobody inside a step of a walk.         *)
CanCall == ~fault /\ (scans = <<>> \/ (Reentrant /\ Forwarding))

SetScan(r) == scans' = [scans EXCEPT ![Len(scans)] = r]

(* The walk reads slot q next.  The test that ends it happens when it is    *)
(* seen to be NULL; the next pointer of q is fetched before anything else.  *)
Advance(q) ==
    /\ UNCHANGED got
    /\ SetScan([Scan EXCEPT !.cur = q, !.pc = "test", !.target = NoWnd,
                            !.nxt = IF q = NULL THEN NULL ELSE lpNextMsg'[q]])

(* QueueAddMsg: the message goes into the first free slot, which becomes    *)
(* the first or the last one of the list; FALSE when no slot is free.       *)
QueueAddMsg(Insert, hwnd, message) ==
    /\ CanCall
    /\ posted < MaxPosted
    /\ ~IsSystemQueue => hwnd \in window \cup {NoWnd}
    /\ IF lpQueueFree = NULL
       THEN UNCHANGED <<slots, posted>>
       ELSE LET s == lpQueueFree
                m == [hwnd |-> hwnd, message |-> message, id |-> posted + 1,
                      front |-> Insert = 0]
                atFront == Insert = 0 \/ lpQueueNext = NULL
            IN /\ posted' = posted + 1
               /\ Message' = [Message EXCEPT ![s] = m]
               /\ lpQueueFree' = lpNextMsg[s]
               /\ lpQueueNext' = IF atFront THEN s ELSE lpQueueNext
               /\ lpNextMsg' = IF atFront
                               THEN [lpNextMsg EXCEPT ![s] = lpQueueNext]
                               ELSE [lpNextMsg EXCEPT ![Last(Waiting)] = s,
                                                      ![s] = NULL]
               /\ UNCHANGED size
    /\ got' = <<>> /\ UNCHANGED <<scans, ready, fault, windows>>

(* Mutant: the slot taken out is not put on the free list. *)
UnlinkLost(s) ==
    /\ lpQueueNext' = IF s = lpQueueNext THEN lpNextMsg[s] ELSE lpQueueNext
    /\ lpNextMsg' = [q \in Slot |-> IF lpNextMsg[q] = s THEN lpNextMsg[s] ELSE lpNextMsg[q]]
    /\ UNCHANGED <<Message, size, fault, lpQueueFree>>

(* Taking slot s out of the list and pushing it on the free list.  The walk *)
(* to the message before s runs into NULL when s is not in the list.        *)
Unlink(s) ==
    IF s = lpQueueNext \/ s \in Range(Waiting)
    THEN /\ lpQueueNext' = IF s = lpQueueNext THEN lpNextMsg[s] ELSE lpQueueNext
         /\ lpNextMsg' = [q \in Slot |->
                IF q = s THEN lpQueueFree
                ELSE IF s # lpQueueNext /\ q \in Range(Waiting) /\ lpNextMsg[q] = s
                     THEN lpNextMsg[s] ELSE lpNextMsg[q]]
         /\ lpQueueFree' = s
         /\ UNCHANGED <<Message, size, fault>>
    ELSE fault' = TRUE /\ UNCHANGED slots

Keep == UNCHANGED <<slots, fault>>

(* QueueGetMsg is called: the walk starts at the first waiting message.  The *)
(* caller is running, and being switched to cleared its READY flag.          *)
QueueGetMsg(c) ==
    /\ CanCall
    /\ Len(scans) < MaxNest
    /\ scans' = Append(scans,
          [call |-> c, cur |-> lpQueueNext, pc |-> "test", target |-> NoWnd,
           nxt |-> IF lpQueueNext = NULL THEN NULL ELSE lpNextMsg[lpQueueNext]])
    /\ ready' = ready \ {c.task}
    /\ got' = <<>> /\ UNCHANGED <<slots, fault, posted, windows>>

(* QueueGetMsg returns message id, or FALSE for 0. *)
Return(id) == scans' = Front(scans) /\ got' = <<Scan.call, id>>

(* The end of the list: FALSE is returned. *)
NoMessage ==
    /\ ~fault /\ Running /\ Scan.cur = NULL
    /\ Return(0)
    /\ Keep /\ UNCHANGED <<ready, posted, windows>>

(* Mutant: the walk goes on from the slot it has just freed. *)
PurgeDeadStale ==
    /\ ~fault /\ Running /\ Scan.cur # NULL
    /\ Message[Scan.cur].hwnd \notin window \cup {NoWnd}
    /\ Unlink(Scan.cur)
    /\ Advance(lpNextMsg'[Scan.cur])
    /\ UNCHANGED <<ready, posted, windows>>

(* A message whose window is gone is removed, whatever the caller asked.    *)
PurgeDead ==
    /\ ~fault /\ Running /\ Scan.cur # NULL
    /\ Message[Scan.cur].hwnd \notin window \cup {NoWnd}
    /\ Unlink(Scan.cur)
    /\ Advance(Scan.nxt)
    /\ UNCHANGED <<ready, posted, windows>>

(* Mutants: the filter is not applied; another task's message is taken; its *)
(* owner is not woken; input for a disabled window is kept.                 *)
SettleUnfiltered(m) ==
    /\ IF Scan.call.remove THEN Unlink(Scan.cur) ELSE Keep
    /\ Return(m.id)
    /\ UNCHANGED <<ready, posted, windows>>
SettleUnowned(m) ==
    /\ IF PassesFilter(m, Scan.call)
       THEN Return(m.id) /\ (IF Scan.call.remove THEN Unlink(Scan.cur) ELSE Keep)
       ELSE Keep /\ Advance(Scan.nxt)
    /\ UNCHANGED <<ready, posted, windows>>
SettleNoWake(m) ==
    /\ IF PassesFilter(m, Scan.call) /\ Mine(m, Scan.call)
       THEN Return(m.id) /\ (IF Scan.call.remove THEN Unlink(Scan.cur) ELSE Keep)
       ELSE Keep /\ Advance(Scan.nxt)
    /\ UNCHANGED <<ready, posted, windows>>
SettleKeepDisabled(m) ==
    LET mine == Mine(m, Scan.call) /\ m.hwnd \notin disabled
    IN /\ IF PassesFilter(m, Scan.call) /\ mine
          THEN Return(m.id) /\ (IF Scan.call.remove THEN Unlink(Scan.cur) ELSE Keep)
          ELSE Keep /\ Advance(Scan.nxt)
       /\ ready' = IF m.hwnd = NoWnd \/ mine THEN ready ELSE ready \cup {WndTask[m.hwnd]}
       /\ UNCHANGED <<posted, windows>>

(* What QueueGetMsg does with message m of the slot under the walk once     *)
(* forwarding is over: skip it, wake its owner, drop it or return it.  A    *)
(* window that is destroyed while input is forwarded to it counts as gone,  *)
(* but its message is then only removed if the caller asked for that.       *)
Settle(m) ==
    LET c == Scan.call
        dead == m.hwnd \notin window \cup {NoWnd}
        skip == ~PassesFilter(m, c) \/ (~dead /\ ~Mine(m, c))
        drop == dead \/ (IsSystemQueue /\ m.hwnd \in disabled)
    IN /\ IF ~skip /\ c.remove THEN Unlink(Scan.cur) ELSE Keep
       /\ IF skip \/ drop THEN Advance(Scan.nxt) ELSE Return(m.id)
       /\ ready' = IF ~dead /\ PassesFilter(m, c) /\ ~Mine(m, c)
                   THEN ready \cup {WndTask[m.hwnd]} ELSE ready
       /\ UNCHANGED <<posted, windows>>

Examine ==
    /\ ~fault /\ Running /\ Scan.cur # NULL
    /\ Message[Scan.cur].hwnd \in window \cup {NoWnd}
    /\ ~IsMouse(Message[Scan.cur])
    /\ Settle(Message[Scan.cur])

(* Mouse input is handed to TWIN_ForwardButtonEvent, which looks for the   *)
(* window that has the capture or is under the pointer ...                  *)
Forward(target) ==
    /\ ~fault /\ Running /\ Scan.cur # NULL
    /\ Message[Scan.cur].hwnd \in window \cup {NoWnd}
    /\ IsMouse(Message[Scan.cur])
    /\ target \in window \cup {NoWnd}
    /\ SetScan([Scan EXCEPT !.pc = "forward", !.target = target])
    /\ Keep /\ UNCHANGED <<ready, posted, windows, got>>

(* ... and eats the message (the walk goes on, the message stays queued) ... *)
ForwardEaten ==
    /\ ~fault /\ Forwarding
    /\ Keep
    /\ Advance(Scan.nxt)
    /\ UNCHANGED <<ready, posted, windows>>

(* ... or addresses the caller's copy to that window, as a non-client       *)
(* message when the pointer is on its frame.                                *)
Forwarded(message) ==
    /\ ~fault /\ Forwarding
    /\ Scan.target # NoWnd
    /\ Settle([Message[Scan.cur] EXCEPT !.hwnd = Scan.target, !.message = message])

(* The end of DestroyWindow: TWIN_FlushWindowMessages takes the messages of *)
(* the window and its children out of the task's queue, one Unlink after    *)
(* the other, and the handles are freed, those of the parts without a flush.*)
DestroyWindow(w) ==
    /\ ~fault /\ w \in window \ Part /\ ~Running
    /\ window' = window \ Tree(w)
    /\ IF IsSystemQueue
       THEN UNCHANGED slots
       ELSE LET gone == {i \in DOMAIN Waiting : Message[Waiting[i]].hwnd \in Tree(w) \ Part}
                keptAfter(i) == {j \in DOMAIN Waiting \ gone : j > i}
                goneBefore(i) == {j \in gone : j < i}
                next(i) == IF keptAfter(i) = {} THEN NULL ELSE Waiting[Min(keptAfter(i))]
                freed(i) == IF goneBefore(i) = {} THEN lpQueueFree ELSE Waiting[Max(goneBefore(i))]
            IN /\ lpQueueNext' = next(0)
               /\ lpQueueFree' = freed(Len(Waiting) + 1)
               /\ lpNextMsg' = [s \in Slot |->
                     IF s \notin Range(Waiting) THEN lpNextMsg[s]
                     ELSE LET i == CHOOSE i \in DOMAIN Waiting : Waiting[i] = s
                          IN IF i \in gone THEN freed(i) ELSE next(i)]
               /\ UNCHANGED <<Message, size>>
    /\ got' = <<>> /\ UNCHANGED <<scans, ready, fault, posted, disabled>>

CreateWindow(w) ==
    /\ ~fault /\ ~Running /\ w \in Window \ (window \cup Part)
    /\ Parents(w) \subseteq window
    /\ window' = window \cup NewTree(w, window)
    /\ got' = <<>> /\ UNCHANGED <<slots, scans, ready, fault, posted, disabled>>

EnableWindow(w) ==
    /\ ~fault /\ ~Running
    /\ disabled' = IF w \in disabled THEN disabled \ {w} ELSE disabled \cup {w}
    /\ got' = <<>> /\ UNCHANGED <<slots, scans, ready, fault, posted, window>>

(* SetMessageQueue frees the task's queue and allocates another one. *)
SetMessageQueue(cMsg) ==
    /\ CanCall /\ ~IsSystemQueue
    /\ AllocQueue(cMsg)
    /\ got' = <<>> /\ UNCHANGED <<scans, ready, fault, posted, windows>>

Next ==
    \/ \E p \in Posts : QueueAddMsg(p[1], p[2], p[3])
    \/ \E c \in Calls : QueueGetMsg(c)
    \/ NoMessage \/ PurgeDead \/ Examine
    \/ \E w \in Window \cup {NoWnd} : Forward(w)
    \/ ForwardEaten
    \/ \E m \in {WM_MOUSE, WM_NCMOUSE} : Forwarded(m)
    \/ \E w \in Window : DestroyWindow(w) \/ CreateWindow(w) \/ EnableWindow(w)
    \/ \E n \in 1..QueueSize : SetMessageQueue(n)

Spec == Init /\ [][Next]_vars

(* A walk that was begun runs to its end, and each task keeps calling       *)
(* GetMessage without a filter: the scheduler lets every task run (see      *)
(* TaskMsg), so no task's calls are postponed for ever by another's.        *)
CallGetMessage(t) ==
    \E c \in Calls : c.task = t /\ c.hwnd = NoWnd /\ c.min = 0 /\ c.max = 0
                    /\ c.remove /\ QueueGetMsg(c)

Walk == NoMessage \/ PurgeDead \/ Examine \/ ForwardEaten
        \/ (\E w \in Window \cup {NoWnd} : Forward(w))
        \/ (\E m \in {WM_MOUSE, WM_NCMOUSE} : Forwarded(m))

QueueFair == WF_vars(Walk) /\ \A t \in Task : SF_vars(CallGetMessage(t))
FairSpec == Spec /\ QueueFair

-----------------------------------------------------------------------------
ScanState == [call : Call, cur : Slot \cup {NULL}, nxt : Slot \cup {NULL},
              pc : {"test", "forward"}, target : Window \cup {NoWnd}]

(* The variables are in range and scans are walks over slots. *)
TypeOK ==
    /\ Message \in [Slot -> Msg]
    /\ lpNextMsg \in [Slot -> Slot \cup {NULL}]
    /\ lpQueueNext \in Slot \cup {NULL}
    /\ lpQueueFree \in Slot \cup {NULL}
    /\ size \in 1..QueueSize
    /\ scans \in Seq(ScanState)
    /\ Len(scans) <= MaxNest
    /\ ready \subseteq Task
    /\ fault \in BOOLEAN
    /\ posted \in 0..MaxPosted
    /\ window \subseteq Window
    /\ disabled \subseteq Window
    /\ got \in {<<>>} \cup (Calls \X (0..MaxPosted))

(* Types; and the pool AllocQueue made is split between the two lists:      *)
(* both end at NULL, no slot is on both, twice on one, or on none.  A slot  *)
(* leaked, shared or freed twice by QueueAddMsg, QueueGetMsg or             *)
(* TWIN_FlushWindowMessages breaks it, perhaps many calls later.            *)
PoolIsPartitioned ==
    /\ TypeOK
    /\ Len(Waiting) + Len(Free) = size
    /\ Range(Waiting) \cup Range(Free) = 1..size

(* The search for "the message before this one" always finds it: a walk     *)
(* only removes slots that are in the list.                                 *)
RemovedIsQueued == ~fault

(* While a walk is at a slot, the slot it will read next is a waiting one   *)
(* that follows it (or NULL after the last): lpQueueNext is not stale.      *)
CursorIsQueued ==
    scans # <<>> /\ Scan.cur # NULL =>
       \E i \in DOMAIN Waiting :
          /\ Waiting[i] = Scan.cur
          /\ Scan.nxt = IF i = Len(Waiting) THEN NULL ELSE Waiting[i + 1]

(* A walk that comes back empty-handed has woken the owner of every message *)
(* that it passed over because it belongs to another task: input is not     *)
(* left in the system queue with its owner asleep.                          *)
OwnersWoken ==
    Running /\ Scan.cur = NULL =>
       \A i \in DOMAIN Waiting :
          LET m == Message[Waiting[i]]
          IN m.hwnd \in window /\ ~IsMouse(m) /\ PassesFilter(m, Scan.call)
             /\ ~Mine(m, Scan.call) => WndTask[m.hwnd] \in ready

(* The list is a correct message queue in the sense of MsgQueue.            *)
Abs == INSTANCE MsgQueue WITH queue <- [i \in DOMAIN Waiting |-> Message[Waiting[i]]]
ImplementsMsgQueue == Abs!Spec

(* A message that waits for a window its owner keeps does not wait for ever *)
(* while every task keeps reading messages; only mouse input that           *)
(* TWIN_ForwardButtonEvent eats may stay.                                   *)
EventuallyRead ==
    \A n \in 1..MaxPosted :
       (\E s \in Range(Waiting) : Message[s].id = n /\ ~IsMouse(Message[s]))
          ~> (\A s \in Range(Waiting) : Message[s].id # n)
=============================================================================
