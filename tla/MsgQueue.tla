------------------------------ MODULE MsgQueue ------------------------------
(***************************************************************************)
(* What a message queue promises the tasks that post to it and read it,    *)
(* without slots, free list or scan: a bounded sequence of messages from   *)
(* which QueueGetMsg takes the first one the caller may have.              *)
(***************************************************************************)
EXTENDS MsgDefs

VARIABLES
    queue,     \* messages waiting, first one first
    size,      \* messages it can hold
    posted,    \* messages accepted so far
    window,    \* windows that exist (IsWindow)
    disabled,  \* windows with a disabled ancestor (HaveDisabledAncestor)
    got        \* <<c, id>> when call c has just returned message id (0: none)

vars == <<queue, size, posted, window, disabled, got>>

Init ==
    /\ queue = <<>>
    /\ size = QueueSize
    /\ posted = 0
    /\ window = Window
    /\ disabled = {}
    /\ got = <<>>

Without(s, i) ==
    [j \in 1..(Len(s) - 1) |-> IF j < i THEN s[j] ELSE s[j + 1]]

Dead(m) == m.hwnd # NoWnd /\ m.hwnd \notin window

(* A message no call will ever deliver: its window is gone or, for input,   *)
(* it goes to a disabled window.  Where mouse input goes is only known when *)
(* it is read, so it may be found undeliverable then.                       *)
Undeliverable(m) ==
    \/ Dead(m)
    \/ IsSystemQueue /\ m.hwnd \in disabled
    \/ IsMouse(m)

(* The messages that call c may have, and the first of them.  A peek at the *)
(* system queue may pass over input of a window that is enabled while mouse *)
(* input is being forwarded.                                                *)
For(m, c) == PassesFilter(m, c) /\ Mine(m, c)
IsFirstFor(i, c) ==
    /\ ~IsMouse(queue[i]) => ~Dead(queue[i]) /\ For(queue[i], c)
    /\ c.remove \/ ~IsSystemQueue =>
          \A j \in 1..(i - 1) : For(queue[j], c) => Undeliverable(queue[j])

(* Mutant: a front insertion done at the end. *)
PostAtEnd ==
    /\ Len(queue) < size /\ posted < MaxPosted
    /\ posted' = posted + 1
    /\ \E m \in Msg : m.id = posted + 1 /\ queue' = Append(queue, m)
    /\ got' = <<>> /\ UNCHANGED <<size, window, disabled>>

(* An accepted message joins the queue at one of its ends. *)
Post ==
    /\ Len(queue) < size
    /\ posted < MaxPosted
    /\ posted' = posted + 1
    /\ \E m \in Msg :
          /\ m.id = posted + 1
          /\ ~IsSystemQueue => ~Dead(m)
          /\ queue' = IF m.front THEN <<m>> \o queue ELSE Append(queue, m)
    /\ got' = <<>> /\ UNCHANGED <<size, window, disabled>>

(* A read returns the first message the caller may have, and takes it out   *)
(* with PM_REMOVE ...                                                       *)
Deliver ==
    /\ \E i \in 1..Len(queue), c \in Calls :
          /\ IsFirstFor(i, c)
          /\ got' = <<c, queue[i].id>>
          /\ queue' = IF c.remove THEN Without(queue, i) ELSE queue
    /\ UNCHANGED <<size, posted, window, disabled>>

(* ... and returns FALSE only when there is none: in a task's own queue, as  *)
(* what becomes of input in the system queue may change during the call.     *)
Empty ==
    /\ \E c \in Calls :
          /\ ~IsSystemQueue => \A i \in 1..Len(queue) : For(queue[i], c) => Dead(queue[i])
          /\ got' = <<c, 0>>
    /\ UNCHANGED <<queue, size, posted, window, disabled>>

(* A call begins, or a message is not accepted. *)
Begin == got' = <<>> /\ UNCHANGED <<queue, size, posted, window, disabled>>

(* A read throws away a message nobody can have. *)
Discard ==
    /\ \E i \in 1..Len(queue) :
          /\ Undeliverable(queue[i])
          /\ queue' = Without(queue, i)
    /\ got' = <<>> /\ UNCHANGED <<size, posted, window, disabled>>

(* The messages for none of the windows ws, in their order: pos picks their  *)
(* places.                                                                   *)
Flushed(ws) ==
    \E n \in 0..Len(queue) : \E pos \in [1..n -> 1..Len(queue)] :
       /\ \A i, j \in 1..n : i < j => pos[i] < pos[j]
       /\ \A k \in 1..Len(queue) :
             queue[k].hwnd \notin ws <=> \E i \in 1..n : pos[i] = k
       /\ queue' = [i \in 1..n |-> queue[pos[i]]]

(* Mutant: the messages of a destroyed window are not flushed. *)
DestroyUnflushed ==
    \E w \in window \ Part :
       /\ window' = window \ Tree(w) /\ got' = <<>>
       /\ UNCHANGED <<queue, size, posted, disabled>>

(* A window is destroyed: its messages leave its task's queue with it; those *)
(* of its parts, and all in the system queue, stay until a read finds them.  *)
Destroy ==
    \E w \in window \ Part :
       /\ window' = window \ Tree(w)
       /\ IF IsSystemQueue THEN queue' = queue ELSE Flushed(Tree(w) \ Part)
       /\ got' = <<>> /\ UNCHANGED <<size, posted, disabled>>

(* Windows are created, enabled and disabled. *)
Create ==
    /\ \E w \in Window \ (window \cup Part) :
          Parents(w) \subseteq window /\ window' = window \cup NewTree(w, window)
    /\ got' = <<>> /\ UNCHANGED <<queue, size, posted, disabled>>

Enable ==
    /\ disabled' \in SUBSET Window
    /\ got' = <<>> /\ UNCHANGED <<queue, size, posted, window>>

(* Mutant: a queue of no slots is accepted. *)
ReplaceAny ==
    /\ ~IsSystemQueue
    /\ size' \in 0..QueueSize
    /\ queue' = <<>>
    /\ got' = <<>> /\ UNCHANGED <<posted, window, disabled>>

(* SetMessageQueue replaces the queue: what was waiting is gone. *)
Replace ==
    /\ ~IsSystemQueue
    /\ size' \in 1..QueueSize
    /\ queue' = <<>>
    /\ got' = <<>> /\ UNCHANGED <<posted, window, disabled>>

Next == Post \/ Deliver \/ Empty \/ Begin \/ Discard \/ Destroy \/ Create \/ Enable \/ Replace

Spec == Init /\ [][Next]_vars

-----------------------------------------------------------------------------
(* The queue is a sequence of messages and the counters are in range. *)
TypeOK ==
    /\ queue \in Seq(Msg)
    /\ size \in 1..QueueSize
    /\ posted \in 0..MaxPosted
    /\ window \subseteq Window
    /\ disabled \subseteq Window
    /\ got \in {<<>>} \cup (Calls \X (0..MaxPosted))

(* The queue never holds more messages than AllocQueue made slots for. *)
Bounded == Len(queue) <= size

(* Messages keep the order they were posted in: those inserted at the front *)
(* (WM_QUIT, WM_CHAR) come before all others, the latest one first, and the *)
(* others follow in posting order.  In particular no message is duplicated. *)
Ordered ==
    \A i, j \in 1..Len(queue) : i < j =>
       \/ ~queue[i].front /\ ~queue[j].front /\ queue[i].id < queue[j].id
       \/ queue[i].front /\ queue[j].front /\ queue[i].id > queue[j].id
       \/ queue[i].front /\ ~queue[j].front

(* Ids are given out in order: part of the inductive invariant that makes   *)
(* Ordered inductive.                                                       *)
IdsUsed == \A i \in 1..Len(queue) : queue[i].id <= posted

(* A task's own queue holds no message for a window that no longer exists,  *)
(* except for the parts that are freed without a flush.                     *)
NoOrphan ==
    ~IsSystemQueue => \A i \in 1..Len(queue) : Dead(queue[i]) => queue[i].hwnd \in Part

Inv == TypeOK /\ Bounded /\ Ordered /\ IdsUsed /\ NoOrphan
=============================================================================
