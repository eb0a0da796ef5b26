--------------------------- MODULE Timers_proofs ---------------------------
(***************************************************************************)
(* Proofs about Timers, for any number of tasks, windows, slots and any    *)
(* timeouts: types, MaxTimerCovers and NoOversleep.                        *)
(***************************************************************************)
EXTENDS Timers, Lemmas

(* What DriverWaitEvent was last told is still true while it looks for      *)
(* events: no timer is set, killed or counted down without its asking.      *)
TimerInForce ==
    /\ drv.on => /\ drv.timer = 0 => \A n \in Slot : ~Used(n)
                 /\ drv.timer > 0 =>
                       \A n \in Slot : Used(n) => drv.timer <= SyncTimers[n].nWaitTime
    /\ drv.slept >= 0 => drv.on /\ drv.timer >= 0

(* The inductive invariant, by the variables a step may change.             *)
TableOK ==
    /\ SyncTimers \in [Slot -> {Free} \cup TimerSlot]
    /\ nMaxTimer \in Slot /\ nOffset \in Slot /\ QFTIMER \subseteq Task
    /\ \A n \in Slot : Used(n) => n <= nMaxTimer
TasksOK ==
    /\ queued \subseteq Task /\ ready \subseteq Task /\ hCurrentTask \in Task
    /\ call \in [Task -> Call]
    /\ pc \in {"app", "look", "poll", "yield", "sched", "switch", "block"}
    /\ idle \in BOOLEAN
DriverOK ==
    /\ drv \in DriverState
    /\ drv.on <=> pc \in {"poll", "sched", "block"}
    /\ TimerInForce
ClockOK == behind \in 0..Longest /\ unreported \in -1..MaxUnreported /\ events \in 0..MaxEvents
IInv == TableOK /\ TasksOK /\ DriverOK /\ ClockOK

-----------------------------------------------------------------------------
(* Operators *)

(* The longest timeout exists. *)
LEMMA LongestIsMax ==
    /\ Longest \in Timeout /\ Longest \in Nat \ {0}
    /\ \A t \in Timeout : t \in 1..Longest
<1>1. PICK m \in Timeout : \A t \in Timeout : t <= m
  BY TimerAssumption
<1>2. Timeout \in SUBSET Nat /\ Timeout # {} /\ m \in Nat
  BY <1>1, TimerAssumption
<1>3. Max(Timeout) \in Timeout /\ \A t \in Timeout : t <= Max(Timeout)
  BY <1>1, <1>2, MaxOfNats
<1>4. \A t \in Timeout : t \in Nat \ {0}
  BY TimerAssumption
<1> QED
  BY <1>3, <1>4 DEF Longest

LEMMA CappedType == ASSUME NEW d \in Nat PROVE Capped(d) \in 0..Longest
BY LongestIsMax DEF Capped

LEMMA UnreportedBound == MaxUnreported \in Nat
<1>1. Longest \in Nat /\ MaxEvents \in Nat
  BY LongestIsMax, TimerAssumption
<1>2. (MaxEvents + 1) * Longest \in Nat
  BY <1>1
<1> QED
  BY <1>2 DEF MaxUnreported

LEMMA SelectTimeBound ==
    ASSUME NEW t \in Nat PROVE SelectTime(t) \in 0..t
<1>1. Second \in Nat \ {0}
  BY TimerAssumption
<1>2. (t \div Second) * Second \in 0..t
  BY <1>1, RoundedDown
<1> QED
  BY <1>2 DEF SelectTime

(* TWIN_GetTimeout changes the counts of the timers in use and nothing else,*)
(* and without time it changes nothing.                                     *)
LEMMA ElapsedTimers ==
    ASSUME TableOK, NEW d \in Nat
    PROVE  /\ Elapsed(d) \in [Slot -> {Free} \cup TimerSlot]
           /\ \A n \in Slot : /\ Elapsed(d)[n].hTask = SyncTimers[n].hTask
                              /\ Used(n) => Elapsed(d)[n].nWaitTime \in 0..Longest
           /\ Elapsed(0) = SyncTimers
<1>1. SyncTimers \in [Slot -> {Free} \cup TimerSlot]
  BY DEF TableOK
<1>2. ASSUME NEW n \in Slot, NEW e \in Nat
      PROVE  /\ Elapsed(e)[n] \in {Free} \cup TimerSlot
             /\ Elapsed(e)[n].hTask = SyncTimers[n].hTask
             /\ Used(n) => Elapsed(e)[n].nWaitTime \in 0..Longest
             /\ e = 0 => Elapsed(e)[n] = SyncTimers[n]
  <2>1. CASE Used(n)
    <3>1. SyncTimers[n] \in TimerSlot
      BY <1>1, <2>1 DEF Used, Free
    <3> DEFINE t == SyncTimers[n]
    <3>2. Elapsed(e)[n] = [t EXCEPT !.nWaitTime = IF t.nWaitTime > e THEN t.nWaitTime - e ELSE 0]
      BY <2>1 DEF Elapsed
    <3>3. t.nWaitTime \in 0..Longest /\ Longest \in Nat
      BY <3>1, LongestIsMax DEF TimerSlot
    <3> HIDE DEF t
    <3>4. (IF t.nWaitTime > e THEN t.nWaitTime - e ELSE 0) \in 0..Longest
      BY <3>3
    <3>5. e = 0 => (IF t.nWaitTime > e THEN t.nWaitTime - e ELSE 0) = t.nWaitTime
      BY <3>3
    <3> QED
      BY <3>1, <3>2, <3>4, <3>5 DEF TimerSlot, t
  <2>2. CASE ~Used(n)
    <3>1. SyncTimers[n] = Free
      BY <1>1, <2>2, TimerAssumption DEF Used, TimerSlot
    <3> QED
      BY <2>2, <3>1 DEF Elapsed
  <2> QED
    BY <2>1, <2>2
<1>3. \A e \in Nat : Elapsed(e) = [n \in Slot |-> Elapsed(e)[n]]
  BY DEF Elapsed
<1>4. Elapsed(0) = SyncTimers
  BY <1>1, <1>2, <1>3
<1> QED
  BY <1>2, <1>3, <1>4

(* What TWIN_GetTimeout returns.                                            *)
LEMMA MinTimeoutIsLeast ==
    ASSUME TableOK, NEW d \in Nat
    PROVE  /\ MinTimeout(d) \in -1..Longest
           /\ MinTimeout(d) = 0 => \A n \in Slot : ~Used(n)
           /\ MinTimeout(d) > 0 =>
                 \A n \in Slot : Used(n) => MinTimeout(d) <= Elapsed(d)[n].nWaitTime
<1>1. Counts(d) \in SUBSET (0..Longest) /\ Counts(d) \in SUBSET Nat /\ Longest \in Nat
  BY ElapsedTimers, LongestIsMax DEF Counts
<1>2. \A n \in Slot : Used(n) => Elapsed(d)[n].nWaitTime \in Counts(d)
  BY DEF Counts
<1>3. CASE 0 \in Counts(d)
  BY <1>1, <1>3 DEF MinTimeout
<1>4. CASE 0 \notin Counts(d) /\ Counts(d) = {}
  BY <1>1, <1>2, <1>4 DEF MinTimeout
<1>5. CASE 0 \notin Counts(d) /\ Counts(d) # {}
  <2>1. Min(Counts(d)) \in Counts(d) /\ \A c \in Counts(d) : Min(Counts(d)) <= c
    BY <1>1, <1>5, MinOfNats
  <2> QED
    BY <1>1, <1>2, <1>5, <2>1 DEF MinTimeout
<1> QED
  BY <1>3, <1>4, <1>5

LEMMA FlaggedTasks ==
    ASSUME TableOK, NEW d \in Nat PROVE Flagged(d) \subseteq Task
BY DEF Flagged, TableOK, Used, TimerSlot, Free

(* How the variables of an activation of DriverWaitEvent change together.   *)
LEMMA DriverUpdate ==
    ASSUME NEW r \in DriverState, NEW e \in 0..Longest, NEW s \in -1..Longest
    PROVE  LET u == [r EXCEPT !.delta = e, !.slept = s]
           IN  u \in DriverState /\ u.on = r.on /\ u.slept = s /\ u.timer = r.timer
BY DEF DriverState

LEMMA TimerUpdate ==
    ASSUME NEW r \in DriverState, NEW t \in -1..Longest, NEW s \in -1..Longest
    PROVE  LET u == [r EXCEPT !.timer = t, !.slept = s]
           IN  u \in DriverState /\ u.on = r.on /\ u.slept = s /\ u.timer = t
BY DEF DriverState

LEMMA SelectUpdate ==
    ASSUME NEW r \in DriverState, NEW t \in -1..Longest, NEW e \in 0..Longest, NEW s \in -1..Longest
    PROVE  LET u == [r EXCEPT !.timer = t, !.delta = e, !.slept = s]
           IN  u \in DriverState /\ u.on = r.on /\ u.slept = s /\ u.timer = t
BY DEF DriverState

(* The parts of a step that several actions share.                          *)
LEMMA GetTimeoutStep ==
    ASSUME IInv, NEW d \in Nat, GetTimeout(d)
    PROVE  /\ SyncTimers' = Elapsed(d) /\ SyncTimers' \in [Slot -> {Free} \cup TimerSlot]
           /\ \A n \in Slot : Used(n)' <=> Used(n)
           /\ QFTIMER' \subseteq Task /\ unreported' \in -1..MaxUnreported
<1>1. SyncTimers' = Elapsed(d) /\ SyncTimers' \in [Slot -> {Free} \cup TimerSlot]
  BY ElapsedTimers DEF IInv, GetTimeout
<1>2. \A n \in Slot : Used(n)' <=> Used(n)
  BY <1>1, ElapsedTimers DEF IInv, Used
<1>3. QFTIMER' \subseteq Task
  BY FlaggedTasks DEF IInv, TableOK, GetTimeout
<1>4. unreported' \in -1..MaxUnreported
  BY UnreportedBound DEF IInv, ClockOK, GetTimeout
<1> QED
  BY <1>1, <1>2, <1>3, <1>4

LEMMA ReturnStep ==
    ASSUME IInv, drv.on, NEW found \in BOOLEAN, Return(found)
    PROVE  /\ DriverOK' /\ drv' = Out /\ pc' \in {"yield", "switch", "look"}
           /\ idle' \in BOOLEAN /\ ready' \subseteq Task
<1>1. pc \in {"poll", "sched", "block"} /\ call[hCurrentTask].wait \in BOOLEAN
  BY DEF IInv, DriverOK, TasksOK, Call
<1>2. drv' = Out /\ pc' \in {"yield", "switch", "look"}
  BY <1>1 DEF Return
<1>3. idle' \in BOOLEAN
  BY <1>1 DEF Return, IInv, TasksOK
<1>4. ready' \subseteq Task
  BY DEF Return, IInv, TasksOK
<1>5. Out \in DriverState /\ Out.on = FALSE /\ Out.slept = -1
  BY LongestIsMax DEF Out, DriverState
<1>6. DriverOK'
  BY <1>2, <1>5 DEF DriverOK, TimerInForce
<1> QED
  BY <1>2, <1>3, <1>4, <1>6

LEMMA EnterStep ==
    ASSUME IInv, NEW b \in BOOLEAN, Enter(b), SyncTimers' = SyncTimers,
           pc' \in {"poll", "sched", "block"}
    PROVE  DriverOK'
<1>1. /\ MinTimeout(0) \in -1..Longest
      /\ MinTimeout(0) = 0 => \A n \in Slot : ~Used(n)
      /\ MinTimeout(0) > 0 =>
            \A n \in Slot : Used(n) => MinTimeout(0) <= SyncTimers[n].nWaitTime
  BY MinTimeoutIsLeast, ElapsedTimers DEF IInv
<1>2. /\ drv' \in DriverState /\ drv'.on /\ drv'.timer = MinTimeout(0) /\ drv'.slept = -1
  BY <1>1, LongestIsMax DEF Enter, DriverState
<1>3. \A n \in Slot : Used(n)' <=> Used(n)
  BY DEF Used
<1> QED
  BY <1>1, <1>2, <1>3 DEF DriverOK, TimerInForce

(* Outside the driver its activation does not matter.                       *)
LEMMA DriverOff ==
    ASSUME IInv, ~drv.on, UNCHANGED drv, pc' \notin {"poll", "sched", "block"}
    PROVE  DriverOK'
BY DEF IInv, DriverOK, TimerInForce

LEMMA TaskOfWindow ==
    ASSUME IInv, NEW w \in Wnd PROVE TaskOf(w) \in Task
BY TimerAssumption DEF IInv, TasksOK, TaskOf, Wnd

-----------------------------------------------------------------------------
(* One lemma per action, or for actions that are alike.                     *)

LEMMA SetTimerKeeps ==
    ASSUME IInv, NEW w \in Wnd, NEW id \in Ids, NEW timeout \in Timeout, SetTimer(w, id, timeout)
    PROVE  IInv'
<1> DEFINE n == Min({m \in Slot : ~Used(m)})
           t == [hTask |-> TaskOf(w), hWnd |-> w, uID |-> IF w = NoWnd THEN n + 1 ELSE id,
                 uTimeout |-> timeout, nWaitTime |-> timeout]
<1>1. {m \in Slot : ~Used(m)} \in SUBSET Nat /\ {m \in Slot : ~Used(m)} # {}
  BY DEF SetTimer, Slot
<1>2. n \in {m \in Slot : ~Used(m)}
  BY <1>1, MinOfNats
<1>3. SyncTimers' = [SyncTimers EXCEPT ![n] = t]
      /\ nMaxTimer' = (IF n > nMaxTimer THEN n ELSE nMaxTimer)
      /\ UNCHANGED <<nOffset, QFTIMER, clock, pc, idle, call, drv, hCurrentTask, ready, queued>>
      /\ pc = "app"
  BY DEF SetTimer, InApp
<1>4. t \in TimerSlot
  BY <1>2, TaskOfWindow, LongestIsMax, TimerAssumption DEF TimerSlot, Slot, Ids
<1> HIDE DEF n, t
<1>5. TableOK'
  <2>1. SyncTimers' \in [Slot -> {Free} \cup TimerSlot]
    BY <1>3, <1>4 DEF IInv, TableOK
  <2>2. nMaxTimer' \in Slot /\ n <= nMaxTimer' /\ nMaxTimer <= nMaxTimer'
    BY <1>2, <1>3, TimerAssumption DEF IInv, TableOK, Slot
  <2>3. \A m \in Slot : Used(m)' => Used(m) \/ m = n
    BY <1>3 DEF IInv, TableOK, Used
  <2>4. \A m \in Slot : Used(m)' => m <= nMaxTimer'
    BY <2>2, <2>3 DEF IInv, TableOK, Slot
  <2> QED
    BY <1>3, <2>1, <2>2, <2>4 DEF IInv, TableOK
<1>6. DriverOK'
  BY <1>3, DriverOff DEF IInv, DriverOK
<1> QED
  BY <1>3, <1>5, <1>6 DEF IInv, TasksOK, ClockOK, clock

LEMMA KillTimerKeeps ==
    ASSUME IInv, NEW w, NEW id, KillTimer(w, id)
    PROVE  IInv'
<1> DEFINE n == Min(Named(w, id))
           below == {0} \cup {m \in Slot : m < n /\ Used(m)}
<1>1. Named(w, id) \in SUBSET Nat /\ Named(w, id) # {}
  BY DEF KillTimer, Named, Slot
<1>2. n \in Slot
  BY <1>1, MinOfNats DEF Named
<1>3. SyncTimers' = [SyncTimers EXCEPT ![n] = Free]
      /\ nMaxTimer' = (IF n = nMaxTimer THEN Max(below) ELSE nMaxTimer)
      /\ UNCHANGED <<nOffset, QFTIMER, clock, pc, idle, call, drv, hCurrentTask, ready, queued>>
      /\ pc = "app"
  BY DEF KillTimer, InApp
<1>4. below \in SUBSET Nat /\ below # {} /\ n \in Nat /\ \A m \in below : m <= n
  BY <1>2, TimerAssumption DEF Slot
<1>5. Max(below) \in below /\ \A m \in below : m <= Max(below)
  BY <1>4, MaxOfNats
<1>6. below \subseteq Slot
  BY TimerAssumption DEF Slot
<1> HIDE DEF n
<1>7. TableOK'
  <2>1. SyncTimers' \in [Slot -> {Free} \cup TimerSlot]
    BY <1>3 DEF IInv, TableOK
  <2>2. nMaxTimer' \in Slot
    BY <1>3, <1>5, <1>6 DEF IInv, TableOK
  <2>3. ASSUME NEW m \in Slot, Used(m)' PROVE m <= nMaxTimer'
    <3>1. Used(m) /\ m # n
      BY <1>2, <1>3, <2>3 DEF IInv, TableOK, Used, Free
    <3>2. m <= nMaxTimer
      BY <3>1 DEF IInv, TableOK
    <3>3. CASE n = nMaxTimer
      <4>1. m \in below
        BY <1>2, <3>1, <3>2, <3>3 DEF Slot
      <4> QED
        BY <1>3, <1>5, <3>3, <4>1
    <3> QED
      BY <1>3, <3>2, <3>3
  <2> QED
    BY <1>3, <2>1, <2>2, <2>3 DEF IInv, TableOK
<1>8. DriverOK'
  BY <1>3, DriverOff DEF IInv, DriverOK
<1> QED
  BY <1>3, <1>7, <1>8 DEF IInv, TasksOK, ClockOK, clock

LEMMA AppKeeps ==
    ASSUME IInv, GetMessage \/ AppYield \/ \E p \in Peeks : PeekMessage(p[1], p[2])
    PROVE  IInv'
<1>1. \A p \in Peeks : p[1] \in Wnd /\ p[2] \in BOOLEAN
  BY TimerAssumption DEF Wnd
<1>2. UNCHANGED <<table, clock, drv, hCurrentTask, queued>> /\ pc = "app"
      /\ pc' \in {"look", "yield"} /\ idle' \in BOOLEAN /\ ready' \subseteq Task
  BY DEF GetMessage, AppYield, PeekMessage, IInv, TasksOK
<1>3. call' \in [Task -> Call]
  <2>1. hCurrentTask \in Task /\ call \in [Task -> Call]
    BY DEF IInv, TasksOK
  <2>2. \/ call' = call
        \/ \E c \in Call : call' = [call EXCEPT ![hCurrentTask] = c]
    BY <1>1 DEF GetMessage, AppYield, PeekMessage, Call, Wnd
  <2> QED
    BY <2>1, <2>2
<1>4. TableOK'
  BY <1>2 DEF IInv, TableOK, table, Used
<1>5. DriverOK'
  BY <1>2, DriverOff DEF IInv, DriverOK
<1> QED
  BY <1>2, <1>3, <1>4, <1>5 DEF IInv, TasksOK, ClockOK, clock

(* When timers are counted down, or nothing happens to them, the table      *)
(* stays in order.                                                          *)
LEMMA TableKept ==
    ASSUME IInv, UNCHANGED <<nMaxTimer, nOffset>>,
           \/ UNCHANGED <<SyncTimers, QFTIMER, unreported>>
           \/ \E d \in Nat : GetTimeout(d)
    PROVE  /\ TableOK' /\ unreported' \in -1..MaxUnreported
           /\ \A n \in Slot : Used(n)' <=> Used(n)
<1>1. /\ SyncTimers' \in [Slot -> {Free} \cup TimerSlot] /\ \A n \in Slot : Used(n)' <=> Used(n)
      /\ QFTIMER' \subseteq Task /\ unreported' \in -1..MaxUnreported
  <2>1. CASE UNCHANGED <<SyncTimers, QFTIMER, unreported>>
    BY <2>1 DEF IInv, TableOK, ClockOK, Used
  <2>2. CASE \E d \in Nat : GetTimeout(d)
    BY <2>2, GetTimeoutStep
  <2> QED
    BY <2>1, <2>2
<1> QED
  BY <1>1 DEF IInv, TableOK

LEMMA XEventKeeps ==
    ASSUME IInv, NEW stamped \in BOOLEAN, NEW for \in SUBSET Task, XEvent(stamped, for)
    PROVE  IInv'
<1> DEFINE delta == IF stamped /\ drv.armed THEN Capped(drv.delta + behind) ELSE drv.delta
<1>1. drv.on /\ drv \in DriverState /\ drv.delta \in 0..Longest /\ behind \in 0..Longest
      /\ Longest \in Nat
  BY LongestIsMax DEF XEvent, IInv, DriverOK, ClockOK, DriverState
<1>2. delta \in 0..Longest
  <2>1. drv.delta + behind \in Nat
    BY <1>1
  <2> QED
    BY <1>1, <2>1, CappedType
<1>3. /\ events' \in 0..MaxEvents /\ behind' \in 0..Longest /\ queued' \subseteq Task
      /\ UNCHANGED <<nMaxTimer, nOffset, hCurrentTask, call>>
  BY <1>1, TimerAssumption DEF XEvent, IInv, ClockOK, TasksOK
<1>4. CASE for = {}
  <2>1. drv' = [drv EXCEPT !.delta = delta, !.slept = -1]
        /\ UNCHANGED <<SyncTimers, QFTIMER, unreported, pc, idle, ready>>
    BY <1>4 DEF XEvent
  <2> HIDE DEF delta
  <2>2. drv' \in DriverState /\ drv'.on = drv.on /\ drv'.timer = drv.timer /\ drv'.slept = -1
    <3>1. drv \in DriverState /\ -1 \in -1..Longest /\ delta \in 0..Longest
      BY <1>1, <1>2
    <3>2. drv' = [drv EXCEPT !.delta = delta, !.slept = -1]
      BY <2>1
    <3> QED
      BY <3>1, <3>2, DriverUpdate, ZenonT(40)
  <2>3. TableOK' /\ unreported' \in -1..MaxUnreported /\ \A n \in Slot : Used(n)' <=> Used(n)
    BY <1>3, <2>1, TableKept
  <2>4. DriverOK'
    BY <2>1, <2>2, <2>3 DEF IInv, DriverOK, TimerInForce
  <2> QED
    BY <1>3, <2>1, <2>3, <2>4 DEF IInv, TasksOK, ClockOK
<1>5. CASE for # {}
  <2>1. Return(TRUE) /\ \/ GetTimeout(delta)
                        \/ UNCHANGED <<SyncTimers, QFTIMER, unreported>>
    BY <1>5 DEF XEvent
  <2> HIDE DEF delta
  <2>2. TableOK' /\ unreported' \in -1..MaxUnreported
    BY <1>1, <1>2, <1>3, <2>1, TableKept
  <2>3. DriverOK' /\ pc' \in {"yield", "switch", "look"} /\ idle' \in BOOLEAN /\ ready' \subseteq Task
    BY <1>1, <2>1, ReturnStep
  <2> QED
    BY <1>3, <2>2, <2>3 DEF IInv, TasksOK, ClockOK
<1> QED
  BY <1>4, <1>5

LEMMA SelectKeeps == ASSUME IInv, Select PROVE IInv'
<1> DEFINE late == drv.delta > 0
           timer == IF late THEN MinTimeout(drv.delta) ELSE drv.timer
<1>1. drv.on /\ drv \in DriverState /\ drv.delta \in Nat /\ Longest \in Nat
      /\ drv.bNoWait \in BOOLEAN /\ drv.timer \in -1..Longest
  BY LongestIsMax DEF Select, IInv, DriverOK, DriverState
<1>2. /\ IF late THEN GetTimeout(drv.delta) ELSE UNCHANGED <<SyncTimers, QFTIMER, unreported>>
      /\ UNCHANGED <<nMaxTimer, nOffset, behind, events, hCurrentTask, call, queued>>
  BY DEF Select
<1>3. TableOK' /\ unreported' \in -1..MaxUnreported /\ \A n \in Slot : Used(n)' <=> Used(n)
  BY <1>1, <1>2, TableKept
<1>4. CASE timer < 0 \/ (timer = 0 /\ drv.bNoWait)
  <2>1. Return(late) /\ late \in BOOLEAN
    BY <1>1, <1>4 DEF Select
  <2>2. DriverOK' /\ pc' \in {"yield", "switch", "look"} /\ idle' \in BOOLEAN /\ ready' \subseteq Task
    BY <1>1, <2>1, ReturnStep
  <2> QED
    BY <1>2, <1>3, <2>2 DEF IInv, TasksOK, ClockOK
<1>5. CASE ~(timer < 0 \/ (timer = 0 /\ drv.bNoWait))
  <2>1. drv' = [drv EXCEPT !.timer = timer, !.delta = 0, !.slept = 0] /\ UNCHANGED <<pc, idle, ready>>
    BY <1>5 DEF Select
  <2>2. /\ timer \in 0..Longest
        /\ timer = 0 => \A n \in Slot : ~Used(n)
        /\ timer > 0 => \A n \in Slot : Used(n) => timer <= SyncTimers'[n].nWaitTime
    <3>1. CASE late
      <4>1. SyncTimers' = Elapsed(drv.delta)
        BY <1>2, <3>1 DEF GetTimeout
      <4> QED
        BY <1>1, <1>5, <3>1, <4>1, MinTimeoutIsLeast DEF IInv
    <3>2. CASE ~late
      BY <1>1, <1>2, <1>5, <3>2 DEF IInv, DriverOK, TimerInForce
    <3> QED
      BY <3>1, <3>2
  <2> HIDE DEF timer
  <2>3. drv' \in DriverState /\ drv'.on = drv.on /\ drv'.timer = timer /\ drv'.slept = 0
    <3>1. /\ drv \in DriverState /\ 0 \in -1..Longest /\ 0 \in 0..Longest
          /\ timer \in -1..Longest
      BY <1>1, <2>2
    <3>2. drv' = [drv EXCEPT !.timer = timer, !.delta = 0, !.slept = 0]
      BY <2>1
    <3>3. LET u == [drv EXCEPT !.timer = timer, !.delta = 0, !.slept = 0]
          IN  u \in DriverState /\ u.on = drv.on /\ u.slept = 0 /\ u.timer = timer
      BY <3>1, SelectUpdate DEF DriverState
    <3> QED
      BY <3>2, <3>3
  <2>4. DriverOK'
    BY <1>1, <1>3, <2>1, <2>2, <2>3 DEF IInv, DriverOK, TimerInForce
  <2> QED
    BY <1>2, <1>3, <2>1, <2>4 DEF IInv, TasksOK, ClockOK
<1> QED
  BY <1>4, <1>5

LEMMA SleepKeeps == ASSUME IInv, Sleep PROVE IInv'
<1>1. drv \in DriverState /\ drv.timer \in -1..Longest /\ drv.slept \in -1..Longest /\ drv.slept >= 0
      /\ drv.timer >= 0 /\ Longest \in Nat /\ behind \in Nat
      /\ (drv.timer = 0 \/ drv.slept < SelectTime(drv.timer))
      /\ UNCHANGED <<SyncTimers, nMaxTimer, nOffset, QFTIMER, events, pc, idle,
                     hCurrentTask, ready, call, queued>>
  BY LongestIsMax DEF Sleep, IInv, DriverOK, DriverState, ClockOK, TimerInForce
<1>2. behind' \in 0..Longest
  BY <1>1, CappedType DEF Sleep
<1>3. unreported' \in -1..MaxUnreported
  <2>1. unreported \in -1..MaxUnreported /\ MaxUnreported \in Nat
    BY UnreportedBound DEF IInv, ClockOK
  <2>2. Min({unreported + 1, MaxUnreported}) \in -1..MaxUnreported
    BY <2>1, MinOfTwo
  <2> QED
    BY <2>1, <2>2 DEF Sleep
<1>4. drv' \in DriverState /\ drv'.on = drv.on /\ drv'.timer = drv.timer /\ drv'.slept >= 0
  <2>1. CASE drv.timer = 0
    BY <1>1, <2>1 DEF Sleep
  <2>2. CASE drv.timer # 0
    <3>1. drv.slept + 1 \in 0..Longest
      BY <1>1, <2>2, SelectTimeBound
    <3>2. drv' = [drv EXCEPT !.slept = drv.slept + 1]
      BY <2>2 DEF Sleep
    <3> QED
      BY <1>1, <3>1, <3>2 DEF DriverState
  <2> QED
    BY <2>1, <2>2
<1>5. TableOK'
  BY <1>1 DEF IInv, TableOK, Used
<1>6. DriverOK'
  BY <1>1, <1>4 DEF IInv, DriverOK, TimerInForce, Used
<1> QED
  BY <1>1, <1>2, <1>3, <1>5, <1>6 DEF IInv, TasksOK, ClockOK

LEMMA SelectTimeoutKeeps == ASSUME IInv, SelectTimeout PROVE IInv'
<1> DEFINE d == drv.timer
<1>1. drv.on /\ drv \in DriverState /\ d \in Nat /\ Longest \in Nat
      /\ GetTimeout(d) /\ SyncTimers' = Elapsed(d)
      /\ UNCHANGED <<nMaxTimer, nOffset, behind, events, hCurrentTask, call, queued>>
  BY LongestIsMax DEF SelectTimeout, GetTimeout, IInv, DriverOK, TimerInForce, DriverState
<1>2. TableOK' /\ unreported' \in -1..MaxUnreported /\ \A n \in Slot : Used(n)' <=> Used(n)
  BY <1>1, TableKept
<1>3. CASE MinTimeout(d) < 0
  <2>1. Return(FALSE)
    BY <1>3 DEF SelectTimeout
  <2>2. DriverOK' /\ pc' \in {"yield", "switch", "look"} /\ idle' \in BOOLEAN /\ ready' \subseteq Task
    BY <1>1, <2>1, ReturnStep
  <2> QED
    BY <1>1, <1>2, <2>2 DEF IInv, TasksOK, ClockOK
<1>4. CASE ~(MinTimeout(d) < 0)
  <2> DEFINE timer == MinTimeout(d)
  <2>1. drv' = [drv EXCEPT !.timer = timer, !.slept = -1] /\ UNCHANGED <<pc, idle, ready>>
    BY <1>4 DEF SelectTimeout
  <2>2. /\ timer \in -1..Longest
        /\ timer = 0 => \A n \in Slot : ~Used(n)
        /\ timer > 0 => \A n \in Slot : Used(n) => timer <= SyncTimers'[n].nWaitTime
    BY <1>1, MinTimeoutIsLeast DEF IInv
  <2> HIDE DEF timer
  <2>3. drv' \in DriverState /\ drv'.on = drv.on /\ drv'.timer = timer /\ drv'.slept = -1
    <3>1. drv \in DriverState /\ -1 \in -1..Longest /\ timer \in -1..Longest
      BY <1>1, <2>2
    <3>2. drv' = [drv EXCEPT !.timer = timer, !.slept = -1]
      BY <2>1
    <3>3. LET u == [drv EXCEPT !.timer = timer, !.slept = -1]
          IN  u \in DriverState /\ u.on = drv.on /\ u.slept = -1 /\ u.timer = timer
      BY <3>1, TimerUpdate DEF DriverState
    <3> QED
      BY <3>2, <3>3
  <2>4. DriverOK'
    BY <1>2, <2>1, <2>2, <2>3 DEF IInv, DriverOK, TimerInForce
  <2> QED
    BY <1>1, <1>2, <2>1, <2>4 DEF IInv, TasksOK, ClockOK
<1> QED
  BY <1>3, <1>4

LEMMA OffsetType ==
    ASSUME IInv, NEW k \in Nat PROVE (k + nOffset) % (nMaxTimer + 1) \in Slot
<1>1. nMaxTimer \in Nat /\ nMaxTimer <= SYNC_TIMERS - 1 /\ nOffset \in Nat /\ SYNC_TIMERS \in Nat
  BY TimerAssumption DEF IInv, TableOK, Slot
<1>2. (k + nOffset) % (nMaxTimer + 1) \in 0..nMaxTimer
  BY <1>1
<1> QED
  BY <1>1, <1>2 DEF Slot

(* The message TWIN_DriverMessage returns, and how it ends. *)
LEMMA DoneStep ==
    ASSUME IInv, pc = "look", Done, UNCHANGED <<idle, drv, hCurrentTask, ready>>, queued' \subseteq queued
    PROVE  TasksOK' /\ DriverOK'
<1>1. NoCall \in Call
  BY DEF NoCall, Call, Wnd
<1>2. TasksOK'
  BY <1>1 DEF Done, IInv, TasksOK
<1>3. DriverOK'
  BY DriverOff DEF Done, IInv, DriverOK
<1> QED
  BY <1>2, <1>3

LEMMA OtherMessageKeeps == ASSUME IInv, OtherMessage PROVE IInv'
<1>1. TasksOK' /\ DriverOK'
  BY DoneStep DEF OtherMessage
<1>2. UNCHANGED <<table, clock>>
  BY DEF OtherMessage
<1> QED
  BY <1>1, <1>2 DEF IInv, TableOK, ClockOK, table, clock, Used

LEMMA GetTimerMsgKeeps == ASSUME IInv, GetTimerMsg PROVE IInv'
<1> DEFINE n == Rotated(Min(Matching))
<1>1. Matching \in SUBSET Nat /\ Matching # {}
  BY DEF GetTimerMsg, Matching
<1>2. Min(Matching) \in Matching
  BY <1>1, MinOfNats
<1>3. n \in Slot /\ Used(n)
  BY <1>1, <1>2, OffsetType DEF Matching, Due, Rotated
<1>4. UNCHANGED <<nMaxTimer, QFTIMER, clock, idle, drv, hCurrentTask, ready, queued>>
      /\ nOffset' = (nOffset + 1) % (nMaxTimer + 1) /\ Done /\ pc = "look"
      /\ (\/ SyncTimers' = SyncTimers
          \/ SyncTimers' = [SyncTimers EXCEPT ![n].nWaitTime = SyncTimers[n].uTimeout])
  BY DEF GetTimerMsg
<1> HIDE DEF n
<1>5. SyncTimers[n] \in TimerSlot
  BY <1>3 DEF IInv, TableOK, Used, Free
<1>6. SyncTimers' \in [Slot -> {Free} \cup TimerSlot]
  BY <1>3, <1>4, <1>5, LongestIsMax DEF IInv, TableOK, TimerSlot
<1>7. \A m \in Slot : Used(m)' <=> Used(m)
  BY <1>3, <1>4, <1>5 DEF IInv, TableOK, Used, TimerSlot
<1>8. nOffset' \in Slot
  <2>1. nOffset \in Nat /\ nMaxTimer \in Nat
    BY DEF IInv, TableOK, Slot
  <2> QED
    BY <1>4, <2>1, OffsetType, nOffset + 1 = 1 + nOffset
<1>9. TableOK'
  BY <1>4, <1>6, <1>7, <1>8 DEF IInv, TableOK
<1>10. TasksOK' /\ DriverOK'
  BY <1>4, DoneStep
<1> QED
  BY <1>4, <1>9, <1>10 DEF IInv, ClockOK, clock

LEMMA PollKeeps == ASSUME IInv, Poll PROVE IInv'
<1>1. Enter(TRUE) /\ pc' = "poll"
      /\ UNCHANGED <<SyncTimers, nMaxTimer, clock, idle, hCurrentTask, ready, call, queued>>
  BY DEF Poll
<1>2. DriverOK'
  BY <1>1, EnterStep
<1>3. Flagged(0) \subseteq Task
  BY FlaggedTasks DEF IInv
<1>4. nOffset' \in Slot
  <2>1. nOffset \in Slot /\ nOffset \in Nat /\ nMaxTimer \in Nat
    BY DEF IInv, TableOK, Slot
  <2> QED
    BY <2>1, OffsetType, nOffset + 1 = 1 + nOffset DEF Poll
<1>5. TableOK'
  BY <1>1, <1>3, <1>4 DEF Poll, IInv, TableOK, Used
<1> QED
  BY <1>1, <1>2, <1>5 DEF IInv, TasksOK, ClockOK, clock

LEMMA ScheduleKeeps == ASSUME IInv, Schedule PROVE IInv'
<1>1. Enter(TRUE) /\ pc' = "sched" /\ QFTIMER' = QFTIMER \cup Flagged(0)
      /\ UNCHANGED <<SyncTimers, nMaxTimer, nOffset, clock, idle, hCurrentTask, ready, call, queued>>
  BY DEF Schedule
<1>2. DriverOK'
  BY <1>1, EnterStep
<1>3. TableOK'
  BY <1>1, FlaggedTasks DEF IInv, TableOK, Used
<1> QED
  BY <1>1, <1>2, <1>3 DEF IInv, TasksOK, ClockOK, clock

LEMMA SwitchKeeps == ASSUME IInv, Switch PROVE IInv'
<1> DEFINE left == IF Mine.wait THEN Mine ELSE NoCall
<1>1. NoCall \in Call /\ Mine \in Call
  BY DEF NoCall, Call, Wnd, Mine, IInv, TasksOK
<1>2. UNCHANGED <<SyncTimers, nMaxTimer, nOffset, clock, idle, queued>>
      /\ pc = "switch" /\ call' = [call EXCEPT ![hCurrentTask] = left]
  BY DEF Switch
<1>3. \/ UNCHANGED <<drv, QFTIMER>> /\ pc' \in {"look", "app"}
      \/ Enter(FALSE) /\ pc' = "block" /\ QFTIMER' = QFTIMER \cup Flagged(0)
  BY DEF Switch
<1>4. hCurrentTask' \in Task /\ ready' \subseteq Task
  BY DEF Switch, IInv, TasksOK, TableOK
<1>5. TasksOK'
  BY <1>1, <1>2, <1>3, <1>4 DEF IInv, TasksOK
<1>6. TableOK'
  BY <1>2, <1>3, FlaggedTasks DEF IInv, TableOK, Used
<1>7. DriverOK'
  BY <1>2, <1>3, EnterStep, DriverOff DEF IInv, DriverOK
<1> QED
  BY <1>2, <1>5, <1>6, <1>7 DEF IInv, ClockOK, clock

-----------------------------------------------------------------------------
LEMMA InitIInv == Init => IInv
<1> SUFFICES ASSUME Init PROVE IInv
  OBVIOUS
<1>1. TableOK
  BY TimerAssumption DEF Init, TableOK, Slot, Used, Free
<1>2. NoCall \in Call /\ Out \in DriverState /\ Out.on = FALSE /\ Out.slept = -1
  BY LongestIsMax DEF NoCall, Call, Wnd, Out, DriverState
<1>3. TasksOK
  BY <1>2 DEF Init, TasksOK
<1>5. drv = Out /\ pc = "app"
  BY DEF Init
<1>6. DriverOK
  BY <1>2, <1>5 DEF DriverOK, TimerInForce
<1>4. ClockOK
  BY LongestIsMax, UnreportedBound, TimerAssumption DEF Init, ClockOK
<1> QED
  BY <1>1, <1>3, <1>4, <1>6 DEF IInv

LEMMA NextKeeps == IInv /\ [Next]_vars => IInv'
<1> SUFFICES ASSUME IInv, [Next]_vars PROVE IInv'
  OBVIOUS
<1>1. CASE \E w \in Wnd, id \in Ids, timeout \in Timeout : SetTimer(w, id, timeout)
  BY <1>1, SetTimerKeeps
<1>2. CASE \E w \in Wnd, id \in Ids \cup 1..SYNC_TIMERS : KillTimer(w, id)
  BY <1>2, KillTimerKeeps
<1>3. CASE GetMessage \/ AppYield \/ \E p \in Peeks : PeekMessage(p[1], p[2])
  BY <1>3, AppKeeps
<1>4. CASE \E stamped \in BOOLEAN, t \in Task : XEvent(stamped, {}) \/ XEvent(stamped, {t})
  BY <1>4, XEventKeeps
<1>5. CASE Driver
  BY <1>5, SelectKeeps, SleepKeeps, SelectTimeoutKeeps DEF Driver
<1>6. CASE Kernel
  BY <1>6, OtherMessageKeeps, GetTimerMsgKeeps, PollKeeps, ScheduleKeeps, SwitchKeeps DEF Kernel
<1>7. CASE UNCHANGED vars
  BY <1>7 DEF vars, IInv, TableOK, TasksOK, DriverOK, ClockOK, TimerInForce, Used
<1> QED
  BY <1>1, <1>2, <1>3, <1>4, <1>5, <1>6, <1>7 DEF Next

(* The invariant holds in every reachable state. *)
THEOREM IInvHolds == Spec => []IInv
BY InitIInv, NextKeeps, PTL DEF Spec

(* MaxTimerCovers is always true: TWIN_GetTimerMsg's search up to nMaxTimer *)
(* passes over no timer, whatever the order in which SetTimer2 and          *)
(* KillTimer2 were called.                                                  *)
THEOREM EveryTimerIsSearched == Spec => []MaxTimerCovers
<1>1. IInv => MaxTimerCovers
  BY DEF IInv, TableOK, TasksOK, DriverOK, ClockOK, TypeOK, MaxTimerCovers
<1> QED
  BY IInvHolds, <1>1, PTL

(* NoOversleep is always true: DriverWaitEvent asks select to wait no       *)
(* longer than any timer has left, and not for ever while there is one.     *)
THEOREM DriverWakesInTime == Spec => []NoOversleep
<1>1. IInv => NoOversleep
  BY DEF IInv, DriverOK, DriverState, TimerInForce, NoOversleep
<1> QED
  BY IInvHolds, <1>1, PTL
=============================================================================
