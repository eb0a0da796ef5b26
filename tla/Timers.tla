------------------------------- MODULE Timers -------------------------------
(***************************************************************************)
(* Timers (SetTimer2, KillTimer2, TWIN_GetTimerMsg, TWIN_GetTimeout of     *)
(* winkrnl/SysMisc.c) and the driver that measures their time              *)
(* (DriverWaitEvent of pal/x11/XEvents.c), as TWIN_DriverMessage and       *)
(* ScheduleTask call it.                                                   *)
(*                                                                         *)
(* There is no clock.  A timer counts down by what DriverWaitEvent reports *)
(* through TWIN_GetTimeout: the timeout it gave to select, and differences *)
(* between the time stamps of X events.  A timer whose count is 0 raises   *)
(* QFTIMER for its task, and GetMessage makes the message when it finds    *)
(* nothing else to return.                                                 *)
(*                                                                         *)
(* Time passes only in select.  One task runs; pc says where it is:        *)
(*    app      application code                                            *)
(*    look     the top of the loop of TWIN_DriverMessage                   *)
(*    poll     DriverWaitEvent(TRUE) of that loop                          *)
(*    yield    ... and then Yield or InternalYield                         *)
(*    sched    DriverWaitEvent(TRUE) of ScheduleTask                       *)
(*    switch   ScheduleTask has to choose                                  *)
(*    block    DriverWaitEvent(FALSE)                                      *)
(* idle tells InternalYield of a task that found nothing from Yield.       *)
(***************************************************************************)
EXTENDS Integers, FiniteSetsExt

CONSTANTS
    Task,         \* HTASKs
    Window,       \* HWNDs
    WndTask,      \* WndTask[w]: GetWindowTask(w)
    NoTask,       \* hTask of an unused slot
    NoWnd,        \* hWnd 0
    SYNC_TIMERS,  \* 48
    Second,       \* 1000 ms
    Timeout,      \* bound: the values of uTimeout
    Peeks,        \* bound: windows and flags PeekMessage is called with
    MaxEvents,    \* bound: X events
    Measured      \* whether the history variable unreported is kept

ASSUME TimerAssumption ==
    /\ Window # {} => WndTask \in [Window -> Task]
    /\ NoTask \notin Task /\ NoWnd \notin Window
    /\ {SYNC_TIMERS, Second} \subseteq Nat \ {0}
    /\ Timeout \subseteq Nat \ {0} /\ \E m \in Timeout : \A t \in Timeout : t <= m
    /\ Peeks \subseteq (Window \cup {NoWnd}) \X BOOLEAN
    /\ MaxEvents \in Nat /\ Measured \in BOOLEAN

VARIABLES
    SyncTimers, nMaxTimer,
    nOffset,        \* where TWIN_GetTimerMsg starts to look
    QFTIMER,        \* tasks with that flag
    queued,         \* tasks with another message in their queue
    hCurrentTask, ready, pc, idle,
    call,           \* call[t]: the GetMessage or PeekMessage t is in
    drv,            \* the activation of DriverWaitEvent
    behind,         \* time since dp->ServerTime, the stamp of the last stamped event
    unreported,     \* time waited for timers and not reported to TWIN_GetTimeout
    events          \* X events so far

vars == <<SyncTimers, nMaxTimer, nOffset, QFTIMER, queued, hCurrentTask, ready,
          pc, idle, call, drv, behind, unreported, events>>
clock == <<behind, unreported, events>>
table == <<SyncTimers, nMaxTimer, nOffset, QFTIMER>>

Slot == 0..(SYNC_TIMERS - 1)
Free == [hTask |-> NoTask, hWnd |-> NoWnd, uID |-> 0, uTimeout |-> 0, nWaitTime |-> 0]
Used(n) == SyncTimers[n].hTask # NoTask
NoCall == [wnd |-> NoWnd, wait |-> FALSE, remove |-> FALSE, on |-> FALSE]
Out == [on |-> FALSE, bNoWait |-> FALSE, timer |-> 0, armed |-> FALSE, delta |-> 0, slept |-> -1]

(* Counts stop at 0, so a longer time is like the longest timeout. *)
Longest == Max(Timeout)
Capped(d) == IF d > Longest THEN Longest ELSE d
MaxUnreported == IF Measured THEN (MaxEvents + 1) * Longest ELSE 0

Init ==
    /\ SyncTimers = [n \in Slot |-> Free] /\ nMaxTimer = 0 /\ nOffset = 0
    /\ QFTIMER = {} /\ queued = {}
    /\ hCurrentTask \in Task /\ ready = Task \ {hCurrentTask}
    /\ pc = "app" /\ idle = FALSE
    /\ call = [t \in Task |-> NoCall]
    /\ drv = Out
    /\ behind = 0 /\ unreported = 0 /\ events = 0

-----------------------------------------------------------------------------
TaskOf(w) == IF w = NoWnd THEN hCurrentTask ELSE WndTask[w]
InApp == pc = "app" /\ UNCHANGED <<pc, idle, call, drv, hCurrentTask, ready, queued>>

(* SetTimer2: the first unused slot; without a window the slot is the id.   *)
SetTimer(w, id, timeout) ==
    /\ InApp
    /\ \E n \in Slot : ~Used(n)
    /\ LET n == Min({m \in Slot : ~Used(m)})
       IN /\ SyncTimers' = [SyncTimers EXCEPT ![n] =
                [hTask |-> TaskOf(w), hWnd |-> w, uID |-> IF w = NoWnd THEN n + 1 ELSE id,
                 uTimeout |-> timeout, nWaitTime |-> timeout]]
          /\ nMaxTimer' = IF n > nMaxTimer THEN n ELSE nMaxTimer
    /\ UNCHANGED <<nOffset, QFTIMER, clock>>

Named(w, id) == {n \in Slot : /\ SyncTimers[n].hTask = TaskOf(w)
                              /\ SyncTimers[n].hWnd = w /\ SyncTimers[n].uID = id}

(* Mutant: the search limit is lowered whichever timer is killed. *)
KillTimerLowers(w, id) ==
    /\ InApp
    /\ Named(w, id) # {}
    /\ LET n == Min(Named(w, id))
       IN /\ SyncTimers' = [SyncTimers EXCEPT ![n] = Free]
          /\ nMaxTimer' = Max({0} \cup {m \in Slot : m < n /\ Used(m)})
    /\ UNCHANGED <<nOffset, QFTIMER, clock>>

(* KillTimer2: only the first of the timers with that name. *)
KillTimer(w, id) ==
    /\ InApp
    /\ Named(w, id) # {}
    /\ LET n == Min(Named(w, id))
       IN /\ SyncTimers' = [SyncTimers EXCEPT ![n] = Free]
          /\ nMaxTimer' = IF n = nMaxTimer THEN Max({0} \cup {m \in Slot : m < n /\ Used(m)})
                          ELSE nMaxTimer
    /\ UNCHANGED <<nOffset, QFTIMER, clock>>

-----------------------------------------------------------------------------
(* Mutant: the count goes on below 0. *)
ElapsedBelow(d) ==
    [n \in Slot |-> IF Used(n) THEN [SyncTimers[n] EXCEPT !.nWaitTime = @ - d] ELSE Free]

(* TWIN_GetTimeout(d): the counts it leaves, the tasks it flags and what it *)
(* returns: -1 if a timer has run out, 0 if there is none, else the time    *)
(* until the next.                                                          *)
Elapsed(d) ==
    [n \in Slot |-> IF Used(n)
                    THEN [SyncTimers[n] EXCEPT !.nWaitTime = IF @ > d THEN @ - d ELSE 0]
                    ELSE Free]
Counts(d) == {Elapsed(d)[n].nWaitTime : n \in {m \in Slot : Used(m)}}
Flagged(d) == {SyncTimers[n].hTask : n \in {m \in Slot : Used(m) /\ Elapsed(d)[m].nWaitTime = 0}}

(* Mutant: the longest wait decides. *)
MinTimeoutLongest(d) ==
    IF 0 \in Counts(d) THEN -1 ELSE IF Counts(d) = {} THEN 0 ELSE Max(Counts(d))

MinTimeout(d) ==
    IF 0 \in Counts(d) THEN -1 ELSE IF Counts(d) = {} THEN 0 ELSE Min(Counts(d))
GetTimeout(d) ==
    /\ SyncTimers' = Elapsed(d)
    /\ QFTIMER' = QFTIMER \cup Flagged(d)
    /\ unreported' = IF ~Measured THEN 0 ELSE IF unreported < d THEN -1 ELSE unreported - d

(* DriverWaitEvent begins. *)
Enter(bNoWait) ==
    drv' = [on |-> TRUE, bNoWait |-> bNoWait, timer |-> MinTimeout(0),
            armed |-> MinTimeout(0) # 0, delta |-> 0, slept |-> -1]

(* DriverWaitEvent returns: to TWIN_DriverMessage, which yields, with       *)
(* ReadyTask unless it found nothing and must wait; to ScheduleTask; or,    *)
(* from its last resort, to the loop.                                       *)
Return(found) ==
    /\ drv' = Out
    /\ pc' = CASE pc = "poll" -> "yield" [] pc = "sched" -> "switch" [] OTHER -> "look"
    /\ idle' = IF pc = "poll" THEN ~found /\ call[hCurrentTask].wait ELSE idle
    /\ ready' = IF pc = "poll" /\ ~idle' THEN ready \cup {hCurrentTask} ELSE ready

(* The driver takes an X event from its queue: stamped ones move ServerTime.*)
(* One that posts no message for a task makes it look for another; else it  *)
(* reports the stamps' difference and is done.                              *)
XEvent(stamped, for) ==
    LET delta == IF stamped /\ drv.armed THEN Capped(drv.delta + behind) ELSE drv.delta
    IN /\ drv.on
       /\ events < MaxEvents /\ events' = events + 1
       /\ behind' = IF stamped THEN 0 ELSE behind
       /\ queued' = queued \cup for
       /\ IF for = {}
          THEN /\ drv' = [drv EXCEPT !.delta = delta, !.slept = -1]
               /\ UNCHANGED <<SyncTimers, QFTIMER, unreported, pc, idle, ready>>
          ELSE /\ IF delta > 0 THEN GetTimeout(delta) ELSE UNCHANGED <<SyncTimers, QFTIMER, unreported>>
               /\ Return(TRUE)
       /\ UNCHANGED <<nMaxTimer, nOffset, hCurrentTask, call>>

(* No event is left: the stamps' difference is reported, then select is     *)
(* called unless a timer has run out or polling is all that is asked for.   *)
Select ==
    LET late == drv.delta > 0
        timer == IF late THEN MinTimeout(drv.delta) ELSE drv.timer
    IN /\ drv.on /\ drv.slept < 0
       /\ IF late THEN GetTimeout(drv.delta) ELSE UNCHANGED <<SyncTimers, QFTIMER, unreported>>
       /\ IF timer < 0 \/ (timer = 0 /\ drv.bNoWait)
          THEN Return(late)
          ELSE /\ drv' = [drv EXCEPT !.timer = timer, !.delta = 0, !.slept = 0]
               /\ UNCHANGED <<pc, idle, ready>>
       /\ UNCHANGED <<nMaxTimer, nOffset, behind, events, hCurrentTask, call, queued>>

(* What select is asked to wait: from a second on, whole seconds. *)
SelectTime(timer) == IF timer < Second THEN timer ELSE (timer \div Second) * Second

Sleep ==
    /\ drv.on /\ drv.slept >= 0
    /\ drv.timer = 0 \/ drv.slept < SelectTime(drv.timer)
    /\ drv' = IF drv.timer = 0 THEN drv ELSE [drv EXCEPT !.slept = @ + 1]
    /\ behind' = Capped(behind + 1)
    /\ unreported' = IF drv.timer = 0 THEN unreported ELSE Min({unreported + 1, MaxUnreported})
    /\ UNCHANGED <<SyncTimers, nMaxTimer, nOffset, QFTIMER, events, pc, idle,
                   hCurrentTask, ready, call, queued>>

(* Mutant: the time is not reported. *)
SelectTimeoutUnreported ==
    /\ drv.slept >= 0 /\ drv.timer > 0 /\ drv.slept = SelectTime(drv.timer)
    /\ drv' = [drv EXCEPT !.timer = MinTimeout(0), !.slept = -1]
    /\ UNCHANGED <<table, clock, pc, idle, hCurrentTask, ready, call, queued>>

(* select returns 0: timer milliseconds are reported. *)
SelectTimeout ==
    /\ drv.slept >= 0 /\ drv.timer > 0 /\ drv.slept = SelectTime(drv.timer)
    /\ GetTimeout(drv.timer)
    /\ IF MinTimeout(drv.timer) < 0
       THEN Return(FALSE)
       ELSE /\ drv' = [drv EXCEPT !.timer = MinTimeout(drv.timer), !.slept = -1]
            /\ UNCHANGED <<pc, idle, ready>>
    /\ UNCHANGED <<nMaxTimer, nOffset, behind, events, hCurrentTask, call, queued>>

-----------------------------------------------------------------------------
Mine == call[hCurrentTask]
Done == pc' = "app" /\ call' = [call EXCEPT ![hCurrentTask] = NoCall]

(* GetMessage(0), and PeekMessage for any or one window of the task, which  *)
(* removes the message or not.                                              *)
GetMessage ==
    /\ pc = "app" /\ pc' = "look"
    /\ call' = [call EXCEPT ![hCurrentTask] =
                  [wnd |-> NoWnd, wait |-> TRUE, remove |-> TRUE, on |-> TRUE]]
    /\ UNCHANGED <<table, clock, idle, drv, hCurrentTask, ready, queued>>
PeekMessage(w, remove) ==
    /\ pc = "app" /\ pc' = "look"
    /\ TaskOf(w) = hCurrentTask
    /\ call' = [call EXCEPT ![hCurrentTask] =
                  [wnd |-> w, wait |-> FALSE, remove |-> remove, on |-> TRUE]]
    /\ UNCHANGED <<table, clock, idle, drv, hCurrentTask, ready, queued>>

(* TWIN_DriverMessage finds a message of another kind in its queues; one    *)
(* that is not for the window asked for stays.                              *)
OtherMessage ==
    /\ pc = "look" /\ hCurrentTask \in queued
    /\ queued' = IF Mine.remove THEN queued \ {hCurrentTask} ELSE queued
    /\ Done
    /\ UNCHANGED <<table, clock, idle, drv, hCurrentTask, ready>>
NoOther == hCurrentTask \in queued => Mine.wnd # NoWnd

(* TWIN_GetTimerMsg: the timers that have run out and match, the first of   *)
(* them counted from nOffset.                                               *)
Rotated(k) == (k + nOffset) % (nMaxTimer + 1)
Due(n) == Used(n) /\ SyncTimers[n].nWaitTime = 0
Matching == {k \in 0..nMaxTimer :
                LET n == Rotated(k)
                IN /\ Due(n) /\ SyncTimers[n].hTask = hCurrentTask
                   /\ Mine.wnd \in {NoWnd, SyncTimers[n].hWnd}}

GetTimerMsg ==
    /\ pc = "look" /\ NoOther /\ hCurrentTask \in QFTIMER
    /\ Matching # {}
    /\ LET n == Rotated(Min(Matching))
       IN IF Mine.remove
          THEN SyncTimers' = [SyncTimers EXCEPT ![n].nWaitTime = SyncTimers[n].uTimeout]
          ELSE UNCHANGED SyncTimers
    /\ nOffset' = (nOffset + 1) % (nMaxTimer + 1)
    /\ Done
    /\ UNCHANGED <<nMaxTimer, QFTIMER, clock, idle, drv, hCurrentTask, ready, queued>>

(* Nothing to return: the flag is cleared and the driver asked. *)
Poll ==
    /\ pc = "look" /\ NoOther
    /\ IF hCurrentTask \in QFTIMER
       THEN /\ Matching = {}
            /\ QFTIMER' = (QFTIMER \ {hCurrentTask}) \cup Flagged(0)
            /\ nOffset' = (nOffset + 1) % (nMaxTimer + 1)
       ELSE /\ QFTIMER' = QFTIMER \cup Flagged(0)
            /\ UNCHANGED nOffset
    /\ pc' = "poll" /\ Enter(TRUE)
    /\ UNCHANGED <<SyncTimers, nMaxTimer, clock, idle, hCurrentTask, ready, call, queued>>

(* Yield from application code. *)
AppYield ==
    /\ pc = "app" /\ pc' = "yield" /\ idle' = FALSE
    /\ ready' = ready \cup {hCurrentTask}
    /\ UNCHANGED <<table, clock, drv, hCurrentTask, call, queued>>

(* ScheduleTask: first the driver, then another task with something to do.  *)
Schedule ==
    /\ pc = "yield" /\ pc' = "sched" /\ Enter(TRUE)
    /\ QFTIMER' = QFTIMER \cup Flagged(0)
    /\ UNCHANGED <<SyncTimers, nMaxTimer, nOffset, clock, idle, hCurrentTask, ready, call, queued>>

(* When there is none, a task that found nothing blocks in the driver. The  *)
(* PeekMessage of a task that yields returns FALSE.                         *)
Switch ==
    LET others == (ready \cup queued \cup QFTIMER) \ {hCurrentTask}
        left == IF Mine.wait THEN Mine ELSE NoCall
    IN /\ pc = "switch"
       /\ call' = [call EXCEPT ![hCurrentTask] = left]
       /\ \/ /\ others # {}
             /\ hCurrentTask' \in others
             /\ ready' = ready \ {hCurrentTask'}
             /\ pc' = IF call[hCurrentTask'].on THEN "look" ELSE "app"
             /\ UNCHANGED <<drv, QFTIMER>>
          \/ /\ others = {}
             /\ IF idle
                THEN /\ pc' = "block" /\ Enter(FALSE)
                     /\ QFTIMER' = QFTIMER \cup Flagged(0)
                ELSE /\ pc' = IF left.on THEN "look" ELSE "app"
                     /\ UNCHANGED <<drv, QFTIMER>>
             /\ UNCHANGED <<hCurrentTask, ready>>
       /\ UNCHANGED <<SyncTimers, nMaxTimer, nOffset, clock, idle, queued>>

Driver == Select \/ Sleep \/ SelectTimeout
Kernel == OtherMessage \/ GetTimerMsg \/ Poll \/ Schedule \/ Switch
Wnd == Window \cup {NoWnd}
Ids == {SYNC_TIMERS + 1}

Next ==
    \/ \E w \in Wnd, id \in Ids, timeout \in Timeout : SetTimer(w, id, timeout)
    \/ \E w \in Wnd, id \in Ids \cup 1..SYNC_TIMERS : KillTimer(w, id)
    \/ GetMessage \/ AppYield
    \/ \E p \in Peeks : PeekMessage(p[1], p[2])
    \/ \E stamped \in BOOLEAN, t \in Task : XEvent(stamped, {}) \/ XEvent(stamped, {t})
    \/ Driver \/ Kernel

Spec == Init /\ [][Next]_vars

(* The driver and the kernel go on; every task comes back to its message    *)
(* loop.                                                                    *)
FairSpec ==
    /\ Spec
    /\ WF_vars(Driver \/ Kernel)
    /\ \A t \in Task : SF_vars(hCurrentTask = t /\ GetMessage)

-----------------------------------------------------------------------------
TimerSlot == [hTask : Task, hWnd : Wnd, uID : 1..(SYNC_TIMERS + 1), uTimeout : Timeout,
              nWaitTime : 0..Longest]
Call == [wnd : Wnd, wait : BOOLEAN, remove : BOOLEAN, on : BOOLEAN]
DriverState == [on : BOOLEAN, bNoWait : BOOLEAN, timer : -1..Longest, armed : BOOLEAN,
                delta : 0..Longest, slept : -1..Longest]

(* The variables are in range. *)
TypeOK ==
    /\ SyncTimers \in [Slot -> {Free} \cup TimerSlot]
    /\ nMaxTimer \in Slot /\ nOffset \in Slot
    /\ QFTIMER \subseteq Task /\ queued \subseteq Task /\ ready \subseteq Task
    /\ hCurrentTask \in Task
    /\ call \in [Task -> Call]
    /\ drv \in DriverState
    /\ drv.on <=> pc \in {"poll", "sched", "block"}
    /\ pc \in {"app", "look", "poll", "yield", "sched", "switch", "block"}
    /\ idle \in BOOLEAN
    /\ behind \in 0..Longest /\ unreported \in -1..MaxUnreported /\ events \in 0..MaxEvents

(* Types; and TWIN_GetTimerMsg searches up to nMaxTimer only: timers are    *)
(* there, through any sequence of SetTimer and KillTimer by all tasks.      *)
MaxTimerCovers == TypeOK /\ \A n \in Slot : Used(n) => n <= nMaxTimer

(* The driver never sleeps past a timer, however often it was woken and     *)
(* began again: select is not asked to wait longer than any count, and not  *)
(* for ever while there is a timer.                                         *)
NoOversleep ==
    drv.slept >= 0 =>
        \A n \in Slot : Used(n) => 0 < drv.timer /\ drv.timer <= SyncTimers[n].nWaitTime

(* Unless it is killed, a timer runs out and is delivered again and again.  *)
TimersKeepFiring ==
    \A n \in Slot : /\ []<>(~Used(n) \/ Due(n))
                    /\ []<>~Due(n)

(* "timer is number of milliseconds to wait": the driver reports no more    *)
(* time than has passed, so that no timer runs out early.                   *)
NotEarly == unreported >= 0
=============================================================================
