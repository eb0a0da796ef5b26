--------------------------- MODULE TaskMsg_proofs ---------------------------
(***************************************************************************)
(* Proofs about TaskMsg, for any number of tasks, depth of nesting and     *)
(* habit of the window procedures: SendStackIntact, RepliedByOwnHandler,   *)
(* PickedUpAtOnce and InSendNested.                                        *)
(***************************************************************************)
EXTENDS TaskMsg, Lemmas, FiniteSetTheorems

(* The tasks; gone and dying ones are on the list until they are freed.     *)
TasksOK ==
    /\ tasks \in Seq(HTASK) /\ IsInjective(tasks) /\ hCurrentTask \in ToSet(tasks)
    /\ TASK_READY \subseteq ToSet(tasks) /\ doomed \subseteq ToSet(tasks)
    /\ queued \in [HTASK -> 0..MaxQueued] /\ halted \in BOOLEAN
    /\ habit \in {"plain", "yields", "dialogs", "replies"}

(* Window procedures that run message loops.                                *)
Loops(h) == h \in {"yields", "dialogs"}

(* What may be where in the activations s of a task; d: it is doomed, h is  *)
(* the habit.                                                               *)
ActOK(s, i, d, h) ==
    /\ s[i].kind = "app" <=> i = 1
    /\ s[i].kind = "sw" => i = Len(s)
    /\ s[i].kind \in {"send", "wait", "exit"} => i < MaxDepth
    /\ s[i].kind = "exit" => i = 2 /\ d
    /\ s[i].kind = "wait" => i = 2 \/ (Loops(h) /\ s[i - 1].kind \in {"proc", "own"})
    /\ s[i].kind = "own" => s[i - 1].kind \in {"app", "proc", "own"}
    /\ i > 1 /\ s[i - 1].kind = "own" /\ h # "dialogs" => s[i].kind \in {"send", "own"}
    /\ s[i].kind = "proc" => s[i].ptr \in Addr /\ s[i].yield = FALSE
    /\ d /\ i > 2 => s[i].kind = "sw"
Shape(s, d, h) ==
    /\ s \in Seq(Activation) /\ Len(s) <= MaxDepth
    /\ \A i \in 1..Len(s) : ActOK(s, i, d, h)
    /\ d => Len(s) >= 2 /\ s[2].kind = "exit"
Switched(s) == Len(s) > 0 /\ s[Len(s)].kind = "sw"
StackOK(t) ==
    /\ Shape(stack[t], t \in doomed, habit)
    /\ Len(stack[t]) = 0 <=> t \notin ToSet(tasks)
    /\ t \in ToSet(tasks) \ {hCurrentTask} => Switched(stack[t])
StacksOK == stack \in [HTASK -> Seq(Activation)] /\ \A t \in HTASK : StackOK(t)

(* q lists the frames of the SendMessage calls that have not returned, the   *)
(* last one first, and within a task the innermost first.                    *)
Live(a) == a[2] <= Len(stack[a[1]]) /\ stack[a[1]][a[2]].kind = "send"
FramesOK ==
    /\ lpSendMessageStack \in Addr \cup {NoFrame} /\ frame \in [Addr -> Frame]
    /\ bInSendMessage \in BOOLEAN
LinksOK(q) ==
    /\ q \in Seq(Addr)
    /\ \A i, j \in 1..Len(q) : q[i] = q[j] => i = j
    /\ lpSendMessageStack = IF Len(q) = 0 THEN NoFrame ELSE q[1]
    /\ \A i \in 1..Len(q) : frame[q[i]].prev = IF i = Len(q) THEN NoFrame ELSE q[i + 1]
CallsListed(q) ==
    /\ \A i \in 1..Len(q) : Live(q[i])
    /\ \A a \in Addr : Live(a) => \E i \in 1..Len(q) : q[i] = a
    /\ \A i, j \in 1..Len(q) : i < j /\ q[i][1] = q[j][1] => q[i][2] > q[j][2]

(* A message that is answered runs its sender, which returns unless a window *)
(* procedure of its task is still to; one that is not seen is about to be.   *)
Pending(a) == ~frame[a].bSendReceived /\ ~frame[a].bSendCompleted
Running == ToSet(tasks) \ doomed
CompletedOK(q, i) ==
    /\ IF i = 1 THEN hCurrentTask = q[i][1] ELSE ~Loops(habit) /\ q[i - 1][1] = q[i][1]
    /\ \/ frame[q[i]].lResult = frame[q[i]].id
       \/ Loops(habit) /\ frame[q[i]].lResult = 0 /\ frame[q[i]].to \notin Running
PendingOK(q, i) ==
    i = 1 /\ frame[q[i]].to = hCurrentTask /\ Doing = "sw" /\ hCurrentTask \notin doomed
MessageOK(q, i) ==
    /\ frame[q[i]].from = q[i][1] /\ frame[q[i]].to # q[i][1]
    /\ frame[q[i]].bSendCompleted => CompletedOK(q, i)
    /\ Pending(q[i]) => PendingOK(q, i)
MessagesOK(q) == \A i \in 1..Len(q) : MessageOK(q, i)

(* Window procedures that answer when they return: the message of each one   *)
(* is still waiting for it, and was sent after its task's sends below.       *)
Answers(x, a) ==
    x.kind = "proc" /\ x.ptr = a /\ x.msg = frame[a].msg /\ x.id = frame[a].id
Handled(a) == frame[a].bSendReceived /\ ~frame[a].bSendCompleted
ProcOK(q, t, i) ==
    \E k \in 1..Len(q) :
       /\ Answers(stack[t][i], q[k]) /\ frame[q[k]].to = t /\ Handled(q[k])
       /\ \A l \in 1..Len(q) : q[l][1] = t /\ q[l][2] < i => k < l
ProcAt(t, i) == i \in 1..Len(stack[t]) /\ stack[t][i].kind = "proc"
ProcsOK(q) ==
    habit # "replies" =>
       /\ \A t \in HTASK, i \in Nat : ProcAt(t, i) => ProcOK(q, t, i)
       /\ \A t \in HTASK, i, j \in Nat :
             ProcAt(t, i) /\ ProcAt(t, j) /\ i # j => stack[t][i].ptr # stack[t][j].ptr

(* Window procedures that do not yield: a message that was received is in    *)
(* the hands of one, which is running or sends in turn, itself or through    *)
(* procedures of its task's own windows.                                     *)
SendsFor(a, t, i) == stack[t][i].kind = "send" /\ frame[<<t, i>>].prev = a
HandlerAt(a, t, i, j) ==
    /\ frame[a].to = t /\ i \in 1..Len(stack[t]) /\ Answers(stack[t][i], a)
    /\ j \in i..Len(stack[t]) /\ \A k \in (i + 1)..j : stack[t][k].kind = "own"
    /\ IF j = Len(stack[t]) THEN a = lpSendMessageStack /\ t = hCurrentTask
       ELSE SendsFor(a, t, j + 1)
HandlersOK(q) ==
    ~Loops(habit) =>
       \A k \in 1..Len(q) : Handled(q[k]) =>
          \E t \in HTASK, i, j \in Nat : HandlerAt(q[k], t, i, j)

SendsOK(q) ==
    LinksOK(q) /\ CallsListed(q) /\ MessagesOK(q) /\ ProcsOK(q) /\ HandlersOK(q)

(* InSendMessage as the activation at place p of the stack s found it: not   *)
(* set, unless procedures for the task's own messages run below, the first   *)
(* of which found it so.                                                     *)
OwnIn(s, i) == i \in 1..Len(s) /\ s[i].kind = "own"
FlagIn(s, p, v) ==
    /\ \A i \in Nat : i < p /\ OwnIn(s, i) /\ s[i].in # FALSE => \E k \in Nat : k < i /\ OwnIn(s, k)
    /\ v # FALSE => \E i \in Nat : i < p /\ OwnIn(s, i)

(* So does the oldest SendMessage, or the running task when there is none.   *)
FlagOK ==
    habit \notin {"replies", "dialogs"} =>
       /\ lpSendMessageStack = NoFrame => FlagIn(MyStack, MaxDepth + 1, bInSendMessage)
       /\ \A a \in Addr : Live(a) /\ frame[a].prev = NoFrame =>
             FlagIn(stack[a[1]], a[2], frame[a].cInSendMessage)

(* The inductive invariant.                                                 *)
Inv(q) == TasksOK /\ StacksOK /\ FramesOK /\ SendsOK(q) /\ FlagOK
IInv == \E q : Inv(q)

-----------------------------------------------------------------------------
(* Stacks of activations *)

USE DEF Loops

Kinds == {"app", "wait", "send", "proc", "own", "exit", "sw"}

LEMMA Constants ==
    /\ MaxDepth \in Nat \ {0} /\ MaxCalls \in Nat /\ MaxQueued \in Nat /\ Native \in HTASK
    /\ NoFrame \notin Addr /\ Ids \subseteq Nat \ {0}
    /\ \A a \in Addr : a[1] \in HTASK /\ a[2] \in 1..MaxDepth /\ a = <<a[1], a[2]>>
    /\ \A t \in HTASK, i \in 1..MaxDepth : <<t, i>> \in Addr /\ <<t, i>>[1] = t /\ <<t, i>>[2] = i
<1>1. MaxDepth \in Nat \ {0} /\ MaxCalls \in Nat /\ MaxQueued \in Nat /\ Native \in HTASK
  BY TaskAssumption
<1>2. NoFrame \notin Addr
  BY DEF NoFrame, Addr
<1>3. \A a \in Addr : a[1] \in HTASK /\ a[2] \in 1..MaxDepth /\ a = <<a[1], a[2]>>
  BY DEF Addr
<1>4. \A t \in HTASK, i \in 1..MaxDepth : <<t, i>> \in Addr /\ <<t, i>>[1] = t /\ <<t, i>>[2] = i
  BY DEF Addr
<1>5. Ids \subseteq Nat \ {0}
  BY DEF Ids
<1> QED
  BY <1>1, <1>2, <1>3, <1>4, <1>5

LEMMA ActFields ==
    ASSUME NEW kind \in Kinds
    PROVE  /\ Act(kind) \in Activation /\ Act(kind).kind = kind
           /\ Act(kind).ptr = NoFrame
BY Constants DEF Act, Activation, Kinds

LEMMA ActivationFields ==
    ASSUME NEW x \in Activation
    PROVE  /\ x.kind \in Kinds /\ x.ptr \in Addr \cup {NoFrame} /\ x.msg \in MsgNo \cup {0}
           /\ x.id \in Ids \cup {0} /\ x.yield \in BOOLEAN /\ x.in \in BOOLEAN
           /\ x.calls \in 0..MaxCalls
BY DEF Activation, Kinds

(* v is s without its last element.                                         *)
Popped(v, s) == Len(s) = Len(v) + 1 /\ \A i \in 1..Len(v) : v[i] = s[i]

LEMMA FrontPopped ==
    ASSUME NEW S, NEW s \in Seq(S), Len(s) > 0
    PROVE  SubSeq(s, 1, Len(s) - 1) \in Seq(S) /\ Popped(SubSeq(s, 1, Len(s) - 1), s)
<1>1. Len(s) \in Nat \ {0} /\ Len(s) = Len(s) - 1 + 1
  OBVIOUS
<1> QED
  BY <1>1, FrontOfSeq DEF Popped

LEMMA ShapePopped ==
    ASSUME NEW s, NEW d, NEW h, Shape(s, d, h), Len(s) > 1, s[Len(s)].kind # "exit",
           NEW v \in Seq(Activation), Popped(v, s)
    PROVE  Shape(v, d, h) /\ Len(v) \in 1..(MaxDepth - 1) /\ Len(v) = Len(s) - 1
           /\ v[Len(v)].kind # "sw" /\ v[Len(v)] = s[Len(s) - 1]
           /\ (s[Len(s)].kind \in {"send", "own"} \/ v[Len(v)].kind # "own" \/ h = "dialogs")
<1>1. s \in Seq(Activation) /\ Len(s) \in Nat /\ Len(v) \in Nat /\ Len(s) = Len(v) + 1
      /\ Len(s) <= MaxDepth /\ MaxDepth \in Nat
  BY Constants DEF Shape, Popped
<1>2. \A i \in 1..Len(v) : v[i] = s[i] /\ i \in 1..Len(s) /\ i # Len(s)
  BY <1>1 DEF Popped
<1>3. \A i \in 1..Len(s) : ActOK(s, i, d, h)
  BY DEF Shape
<1>4. ASSUME NEW i \in 1..Len(v) PROVE ActOK(v, i, d, h) /\ v[i].kind # "sw"
  <2>1. v[i] = s[i] /\ ActOK(s, i, d, h) /\ i # Len(s)
    BY <1>2, <1>3
  <2>2. i # 1 => v[i - 1] = s[i - 1]
    <3> SUFFICES ASSUME i # 1 PROVE v[i - 1] = s[i - 1]
      OBVIOUS
    <3>1. i - 1 \in 1..Len(v)
      BY <1>1
    <3> QED
      BY <1>2, <3>1
  <2> QED
    BY <2>1, <2>2 DEF ActOK
<1>5. d => Len(v) >= 2 /\ v[2].kind = "exit"
  <2> SUFFICES ASSUME d PROVE Len(v) >= 2 /\ v[2].kind = "exit"
    OBVIOUS
  <2>1. Len(s) >= 2 /\ s[2].kind = "exit"
    BY DEF Shape
  <2>2. Len(s) # 2 /\ 2 \in 1..Len(v)
    BY <1>1, <2>1
  <2> QED
    BY <1>2, <2>1, <2>2
<1>6. Len(v) \in 1..(MaxDepth - 1) /\ Len(v) = Len(s) - 1 /\ Len(v) \in 1..Len(v)
  BY <1>1
<1>7. s[Len(s)].kind \in {"send", "own"} \/ v[Len(v)].kind # "own" \/ h = "dialogs"
  <2>1. Len(s) > 1 /\ ActOK(s, Len(s), d, h) /\ v[Len(v)] = s[Len(s) - 1]
    BY <1>1, <1>2, <1>3, <1>6
  <2> QED
    BY <2>1 DEF ActOK
<1> QED
  BY <1>1, <1>2, <1>4, <1>5, <1>6, <1>7 DEF Shape

(* What can be put on top of s.                                             *)
MayPush(x, s, d, e, h) ==
    /\ x \in Activation /\ x.kind # "app" /\ Len(s) < MaxDepth
    /\ x.kind \in {"send", "wait", "exit"} => Len(s) + 1 < MaxDepth
    /\ IF x.kind = "exit" THEN Len(s) = 1 /\ ~d /\ e ELSE d <=> e
    /\ x.kind = "wait" => Len(s) = 1 \/ (Loops(h) /\ s[Len(s)].kind \in {"proc", "own"})
    /\ x.kind = "own" => s[Len(s)].kind \in {"app", "proc", "own"}
    /\ s[Len(s)].kind = "own" /\ h # "dialogs" => x.kind \in {"send", "own"}
    /\ x.kind = "proc" => x.ptr \in Addr /\ x.yield = FALSE
    /\ e => x.kind \in {"exit", "sw"}

LEMMA ShapePushed ==
    ASSUME NEW s, NEW d, NEW e, NEW h, Shape(s, d, h),
           Len(s) > 0, s[Len(s)].kind # "sw",
           NEW x, MayPush(x, s, d, e, h), NEW v \in Seq(Activation), HasLast(v, x, s)
    PROVE  /\ Shape(v, e, h) /\ Len(v) = Len(s) + 1 /\ v[Len(v)] = x
           /\ x.kind = "sw" => Switched(v)
<1>1. s \in Seq(Activation) /\ Len(s) \in Nat /\ Len(v) \in Nat /\ Len(v) = Len(s) + 1
      /\ Len(v) <= MaxDepth /\ MaxDepth \in Nat
  BY Constants DEF Shape, HasLast, MayPush
<1>2. /\ \A i \in 1..Len(s) : v[i] = s[i] /\ i # Len(v) /\ i \in 1..Len(v)
      /\ v[Len(v)] = x
      /\ \A i \in 1..Len(v) : i = Len(v) \/ i \in 1..Len(s)
  BY <1>1 DEF HasLast
<1>3. \A i \in 1..Len(s) : ActOK(s, i, d, h) /\ s[i].kind # "sw"
  BY <1>1 DEF Shape, ActOK
<1>0. /\ x.kind = "exit" => Len(s) = 1 /\ ~d /\ e
      /\ x.kind # "exit" => (d <=> e)
      /\ e /\ x.kind # "exit" => x.kind = "sw"
  BY DEF MayPush
<1>4. ASSUME NEW i \in 1..Len(s) PROVE ActOK(v, i, e, h)
  <2>1. v[i] = s[i] /\ ActOK(s, i, d, h) /\ s[i].kind # "sw" /\ i # Len(v)
    BY <1>2, <1>3
  <2>2. i # 1 => v[i - 1] = s[i - 1]
    <3> SUFFICES ASSUME i # 1 PROVE v[i - 1] = s[i - 1]
      OBVIOUS
    <3>1. i - 1 \in 1..Len(s)
      BY <1>1
    <3> QED
      BY <1>2, <3>1
  <2>3. d => e
    BY <1>0
  <2>4. e /\ i > 2 => d
    <3>1. Len(s) = 1 => ~(i > 2)
      BY <1>1
    <3> QED
      BY <1>0, <3>1
  <2> QED
    BY <2>1, <2>2, <2>3, <2>4 DEF ActOK
<1>5. ActOK(v, Len(v), e, h)
  <2>1. Len(v) - 1 = Len(s) /\ Len(s) \in 1..Len(s)
    BY <1>1
  <2>2. v[Len(v) - 1] = s[Len(s)] /\ v[Len(v)] = x
    BY <1>2, <2>1
  <2>3. Len(v) # 1 /\ Len(v) = Len(s) + 1
    BY <1>1, <2>1
  <2>4. (Len(s) = 1 <=> Len(v) = 2) /\ (Len(s) + 1 < MaxDepth <=> Len(v) < MaxDepth)
    BY <2>1, <2>3
  <2>5. e /\ Len(v) > 2 => x.kind = "sw"
    <3>1. Len(v) > 2 => Len(v) # 2
      BY <1>1
    <3> QED
      BY <1>0, <2>4, <3>1
  <2> QED
    BY <2>2, <2>3, <2>4, <2>5 DEF ActOK, MayPush
<1>6. e => Len(v) >= 2 /\ v[2].kind = "exit"
  <2> SUFFICES ASSUME e PROVE Len(v) >= 2 /\ v[2].kind = "exit"
    OBVIOUS
  <2>1. CASE x.kind = "exit"
    <3>0. Len(s) = 1
      BY <1>0, <2>1
    <3>1. Len(v) = 2 /\ v[2] = x
      BY <3>0, <1>1, <1>2
    <3> QED
      BY <2>1, <3>1
  <2>2. CASE x.kind # "exit"
    <3>1. d /\ Len(s) >= 2 /\ s[2].kind = "exit"
      BY <2>2 DEF MayPush, Shape
    <3>2. 2 \in 1..Len(s)
      BY <1>1, <3>1
    <3> QED
      BY <1>1, <1>2, <3>1, <3>2
  <2> QED
    BY <2>1, <2>2
<1> QED
  BY <1>1, <1>2, <1>4, <1>5, <1>6 DEF Shape, Switched

(* v is s but for the calls counted in its last element.                    *)
Recounted(v, s) ==
    /\ Len(v) = Len(s)
    /\ \A i \in 1..Len(s) : v[i] = s[i] \/ \E n \in 0..MaxCalls : v[i] = [s[i] EXCEPT !.calls = n]

LEMMA RecountedFields ==
    ASSUME NEW s \in Seq(Activation), NEW v, Recounted(v, s), NEW i \in 1..Len(s)
    PROVE  /\ v[i] \in Activation /\ v[i].kind = s[i].kind /\ v[i].ptr = s[i].ptr
           /\ v[i].msg = s[i].msg /\ v[i].id = s[i].id /\ v[i].yield = s[i].yield
           /\ v[i].in = s[i].in
<1>1. s[i] \in Activation
  OBVIOUS
<1>2. CASE v[i] = s[i]
  BY <1>1, <1>2
<1>3. ASSUME NEW n \in 0..MaxCalls, v[i] = [s[i] EXCEPT !.calls = n]
      PROVE  /\ v[i] \in Activation /\ v[i].kind = s[i].kind /\ v[i].ptr = s[i].ptr
             /\ v[i].msg = s[i].msg /\ v[i].id = s[i].id /\ v[i].yield = s[i].yield
             /\ v[i].in = s[i].in
  BY <1>1, <1>3 DEF Activation
<1> QED
  BY <1>2, <1>3 DEF Recounted

LEMMA ShapeRecounted ==
    ASSUME NEW s, NEW d, NEW h, Shape(s, d, h), NEW v \in Seq(Activation),
           Recounted(v, s)
    PROVE  Shape(v, d, h) /\ Len(v) = Len(s)
<1>1. s \in Seq(Activation) /\ Len(v) = Len(s) /\ Len(s) \in Nat
  BY DEF Shape, Recounted
<1>2. \A i \in 1..Len(s) : /\ v[i].kind = s[i].kind /\ v[i].ptr = s[i].ptr
                           /\ v[i].yield = s[i].yield
  BY <1>1, RecountedFields
<1>3. ASSUME NEW i \in 1..Len(s) PROVE ActOK(v, i, d, h)
  <2>1. ActOK(s, i, d, h)
    BY DEF Shape
  <2>2. i # 1 => v[i - 1].kind = s[i - 1].kind
    <3> SUFFICES ASSUME i # 1 PROVE v[i - 1].kind = s[i - 1].kind
      OBVIOUS
    <3>1. i - 1 \in 1..Len(s)
      BY <1>1
    <3> QED
      BY <1>2, <3>1
  <2> QED
    BY <1>1, <1>2, <2>1, <2>2 DEF ActOK
<1>4. d => Len(v) >= 2 /\ v[2].kind = "exit"
  <2> SUFFICES ASSUME d PROVE Len(v) >= 2 /\ v[2].kind = "exit"
    OBVIOUS
  <2>1. Len(s) >= 2 /\ s[2].kind = "exit"
    BY DEF Shape
  <2>2. 2 \in 1..Len(s)
    BY <1>1, <2>1
  <2> QED
    BY <1>1, <1>2, <2>1, <2>2
<1> QED
  BY <1>1, <1>3, <1>4 DEF Shape

LEMMA ShapeNew ==
    ASSUME NEW h
    PROVE  Shape(<<Act("app")>>, FALSE, h) /\ Len(<<Act("app")>>) = 1
<1>1. Act("app") \in Activation /\ Act("app").kind = "app"
  BY ActFields DEF Kinds
<1>2. PICK s : s = <<Act("app")>>
  OBVIOUS
<1>3. s \in Seq(Activation) /\ Len(s) = 1 /\ s[1] = Act("app") /\ 1..Len(s) = {1} /\ 1 <= MaxDepth
  BY <1>1, <1>2, Constants
<1>4. ActOK(s, 1, FALSE, h)
  BY <1>1, <1>3 DEF ActOK
<1> QED
  BY <1>2, <1>3, <1>4 DEF Shape

-----------------------------------------------------------------------------
(* The task list *)

LEMMA KeptValues ==
    ASSUME NEW gone, tasks \in Seq(HTASK)
    PROVE  \A n \in 0..Len(tasks) :
              Kept(gone)[n] =
                 IF n = 0 THEN <<>>
                 ELSE IF tasks[n] \in gone THEN Kept(gone)[n - 1]
                 ELSE Append(Kept(gone)[n - 1], tasks[n])
<1> DEFINE at(f, n) == IF n = 0 THEN <<>>
                       ELSE IF tasks[n] \in gone THEN f[n - 1] ELSE Append(f[n - 1], tasks[n])
           S == {k \in Nat : \E f : \A n \in 0..k : f[n] = at(f, n)}
<1>1. 0 \in S
  <2> DEFINE f == [n \in {0} |-> <<>>]
  <2>1. \A n \in 0..0 : f[n] = at(f, n)
    OBVIOUS
  <2> HIDE DEF f, at
  <2> QED
    BY <2>1
<1>2. ASSUME NEW k \in Nat, k \in S PROVE k + 1 \in S
  <2>1. PICK f : \A n \in 0..k : f[n] = at(f, n)
    BY <1>2
  <2>2. PICK x : x = IF tasks[k + 1] \in gone THEN f[k] ELSE Append(f[k], tasks[k + 1])
    OBVIOUS
  <2> DEFINE g == [n \in 0..(k + 1) |-> IF n = k + 1 THEN x ELSE f[n]]
  <2>3. g[k + 1] = x /\ \A n \in 0..k : g[n] = f[n] /\ n \in Nat
    OBVIOUS
  <2> HIDE DEF g
  <2>4. ASSUME NEW n \in 0..(k + 1) PROVE g[n] = at(g, n)
    <3>1. CASE n = k + 1
      <4>1. n # 0 /\ n - 1 = k /\ k \in 0..k
        BY <3>1
      <4> QED
        BY <2>2, <2>3, <3>1, <4>1
    <3>2. CASE n # k + 1
      <4>1. n \in 0..k /\ (n # 0 => n - 1 \in 0..k)
        BY <3>2
      <4> QED
        BY <2>1, <2>3, <4>1
    <3> QED
      BY <3>1, <3>2
  <2> HIDE DEF at
  <2> QED
    BY <2>4
<1> HIDE DEF S
<1>3. Len(tasks) \in S
  BY <1>1, <1>2, SetInduction
<1>4. PICK f : \A n \in 0..Len(tasks) : f[n] = at(f, n)
  BY <1>3 DEF S
<1> DEFINE g == [n \in 0..Len(tasks) |-> f[n]]
<1>5. g = [n \in 0..Len(tasks) |-> at(g, n)]
  <2>1. \A n \in 0..Len(tasks) : g[n] = f[n] /\ (n # 0 => n - 1 \in 0..Len(tasks))
    OBVIOUS
  <2> HIDE DEF g
  <2>2. \A n \in 0..Len(tasks) : g[n] = at(g, n)
    BY <1>4, <2>1
  <2> HIDE DEF at
  <2>3. g = [n \in 0..Len(tasks) |-> g[n]]
    BY DEF g
  <2> QED
    BY <2>2, <2>3
<1>6. Kept(gone) = CHOOSE h : h = [n \in 0..Len(tasks) |-> at(h, n)]
  BY DEF Kept
<1> HIDE DEF g
<1>7. Kept(gone) = [n \in 0..Len(tasks) |-> at(Kept(gone), n)]
  BY <1>5, <1>6
<1> QED
  BY <1>7

(* Those that are left, once each.                                          *)
LeftOf(q, n, gone) ==
    /\ q \in Seq(HTASK) /\ IsInjective(q)
    /\ ToSet(q) = {tasks[i] : i \in 1..n} \ gone

LEMMA WithoutGone ==
    ASSUME NEW gone, tasks \in Seq(HTASK), IsInjective(tasks)
    PROVE  /\ Without(gone) \in Seq(HTASK) /\ IsInjective(Without(gone))
           /\ ToSet(Without(gone)) = ToSet(tasks) \ gone
<1> DEFINE S == {n \in Nat : n <= Len(tasks) => LeftOf(Kept(gone)[n], n, gone)}
<1>0. /\ Len(tasks) \in Nat /\ \A i \in 1..Len(tasks) : tasks[i] \in HTASK
      /\ \A i, j \in 1..Len(tasks) : tasks[i] = tasks[j] => i = j
  BY DEF IsInjective
<1>1. 0 \in S
  <2>0. 0 \in 0..Len(tasks)
    BY <1>0
  <2>1. Kept(gone)[0] = <<>>
    BY <2>0, KeptValues
  <2>2. <<>> \in Seq(HTASK) /\ IsInjective(<<>>) /\ ToSet(<<>>) = {}
    BY DEF IsInjective, ToSet
  <2>3. {tasks[i] : i \in 1..0} \ gone = {}
    OBVIOUS
  <2> QED
    BY <2>1, <2>2, <2>3 DEF LeftOf
<1>2. ASSUME NEW n \in Nat, n \in S PROVE n + 1 \in S
  <2> SUFFICES ASSUME n + 1 <= Len(tasks) PROVE LeftOf(Kept(gone)[n + 1], n + 1, gone)
    OBVIOUS
  <2>1. PICK q : q = Kept(gone)[n]
    OBVIOUS
  <2>2. LeftOf(q, n, gone) /\ n + 1 \in 1..Len(tasks) /\ n + 1 \in 0..Len(tasks) /\ n + 1 # 0
        /\ n + 1 - 1 = n
    BY <1>0, <1>2, <2>1
  <2>3. Kept(gone)[n + 1] = IF tasks[n + 1] \in gone THEN q ELSE Append(q, tasks[n + 1])
    BY <2>1, <2>2, KeptValues
  <2>4. PICK t \in HTASK : t = tasks[n + 1]
    BY <1>0, <2>2
  <2>5. \A i : i \in 1..(n + 1) <=> i \in 1..n \/ i = n + 1
    OBVIOUS
  <2>6. {tasks[i] : i \in 1..(n + 1)} = {tasks[i] : i \in 1..n} \cup {t}
    BY <2>4, <2>5
  <2>7. t \notin {tasks[i] : i \in 1..n}
    <3>1. \A i \in 1..n : i \in 1..Len(tasks) /\ i # n + 1
      BY <1>0, <2>2
    <3> QED
      BY <1>0, <2>2, <2>4, <3>1
  <2>8. q \in Seq(HTASK) /\ IsInjective(q) /\ ToSet(q) = {tasks[i] : i \in 1..n} \ gone
    BY <2>2 DEF LeftOf
  <2>9. CASE t \in gone
    BY <2>3, <2>4, <2>6, <2>8, <2>9 DEF LeftOf
  <2>10. CASE t \notin gone
    <3>1. PICK v : v = Append(q, t)
      OBVIOUS
    <3>2. v \in Seq(HTASK) /\ HasLast(v, t, q)
      BY <2>8, <3>1, AppendedSeq
    <3>3. Len(q) \in Nat /\ Len(v) = Len(q) + 1 /\ DOMAIN v = 1..Len(v) /\ DOMAIN q = 1..Len(q)
      BY <2>8, <3>2 DEF HasLast
    <3>4. /\ \A i \in 1..Len(q) : v[i] = q[i] /\ i \in 1..Len(v)
          /\ v[Len(v)] = t /\ Len(v) \in 1..Len(v)
          /\ \A i \in 1..Len(v) : i = Len(v) \/ i \in 1..Len(q)
      BY <3>2, <3>3 DEF HasLast
    <3>5. ToSet(v) = ToSet(q) \cup {t}
      BY <3>3, <3>4 DEF ToSet
    <3>6. \A i \in 1..Len(q) : q[i] # t
      BY <2>7, <2>8, <3>3 DEF ToSet
    <3>7. IsInjective(v)
      BY <2>8, <3>3, <3>4, <3>6 DEF IsInjective
    <3> QED
      BY <2>3, <2>4, <2>6, <2>8, <2>10, <3>1, <3>2, <3>5, <3>7 DEF LeftOf
  <2> QED
    BY <2>9, <2>10
<1> HIDE DEF S
<1>3. Len(tasks) \in S
  BY <1>0, <1>1, <1>2, SetInduction
<1>4. LeftOf(Without(gone), Len(tasks), gone)
  BY <1>0, <1>3 DEF S, Without
<1>5. ToSet(tasks) = {tasks[i] : i \in 1..Len(tasks)}
  BY DEF ToSet
<1> QED
  BY <1>4, <1>5 DEF LeftOf

-----------------------------------------------------------------------------
(* The running task, and steps of the tasks *)

LEMMA Listed == \A t : InList(t) <=> t \in ToSet(tasks)
BY DEF InList, ToSet

LEMMA Current ==
    ASSUME TasksOK, StacksOK
    PROVE  /\ hCurrentTask \in HTASK /\ hCurrentTask \in ToSet(tasks) /\ ToSet(tasks) \subseteq HTASK
           /\ MyStack \in Seq(Activation) /\ Len(MyStack) \in 1..MaxDepth /\ Len(MyStack) \in 1..Len(MyStack)
           /\ Shape(MyStack, hCurrentTask \in doomed, habit)
           /\ MyStack[Len(MyStack)] \in Activation /\ Doing \in Kinds /\ Doing = MyStack[Len(MyStack)].kind
<1>1. ToSet(tasks) \subseteq HTASK /\ hCurrentTask \in ToSet(tasks)
  BY DEF TasksOK, ToSet
<1>2. StackOK(hCurrentTask) /\ MyStack = stack[hCurrentTask]
  BY <1>1 DEF StacksOK, MyStack
<1>3. /\ MyStack \in Seq(Activation) /\ Len(MyStack) <= MaxDepth /\ Len(MyStack) # 0
      /\ Shape(MyStack, hCurrentTask \in doomed, habit)
  BY <1>1, <1>2 DEF StackOK, Shape
<1>4. Len(MyStack) \in 1..MaxDepth /\ Len(MyStack) \in 1..Len(MyStack)
  BY <1>3, Constants
<1>5. MyStack[Len(MyStack)] \in Activation
  BY <1>3, <1>4
<1>6. Doing \in Kinds /\ Doing = MyStack[Len(MyStack)].kind
  BY <1>5, ActivationFields DEF Doing
<1> QED
  BY <1>1, <1>3, <1>4, <1>5, <1>6

LEMMA TopOfStack ==
    ASSUME TasksOK, StacksOK
    PROVE  /\ Doing = "app" <=> Len(MyStack) = 1
           /\ Doing = "exit" => Len(MyStack) = 2 /\ hCurrentTask \in doomed
           /\ hCurrentTask \in doomed => Doing \in {"exit", "sw"}
           /\ Doing \in {"send", "wait", "exit"} => Len(MyStack) < MaxDepth
           /\ Doing # "app" => Below \in Seq(Activation) /\ Popped(Below, MyStack)
<1>1. PICK s : s = MyStack
  OBVIOUS
<1> DEFINE d == hCurrentTask \in doomed
<1>3. /\ s \in Seq(Activation) /\ Len(s) \in 1..MaxDepth /\ Len(s) \in 1..Len(s)
      /\ Shape(s, d, habit) /\ Doing = s[Len(s)].kind
  BY <1>1, Current
<1> HIDE DEF d
<1>4. ActOK(s, Len(s), d, habit) /\ (d => Len(s) >= 2 /\ s[2].kind = "exit")
  BY <1>3 DEF Shape
<1>5. d /\ Len(s) > 2 => Doing = "sw"
  BY <1>3, <1>4 DEF ActOK
<1>6. d => Doing \in {"exit", "sw"}
  <2> SUFFICES ASSUME d PROVE Doing \in {"exit", "sw"}
    OBVIOUS
  <2>1. Len(s) >= 2 /\ s[2].kind = "exit"
    BY <1>4
  <2>2. CASE Len(s) = 2
    BY <1>3, <2>1, <2>2
  <2>3. CASE Len(s) # 2
    BY <1>3, <1>5, <2>1, <2>3
  <2> QED
    BY <2>2, <2>3
<1>7. Doing # "app" => Below \in Seq(Activation) /\ Popped(Below, s)
  <2>1. Below = SubSeq(s, 1, Len(s) - 1) /\ Len(s) > 0
    BY <1>1, <1>3 DEF Below
  <2> QED
    BY <1>3, <2>1, FrontPopped
<1> QED
  BY <1>1, <1>3, <1>4, <1>6, <1>7 DEF ActOK, d

(* A step of the running task that leaves v on its stack and goes on with    *)
(* task t.                                                                   *)
Moves(v, t) ==
    /\ stack' = [stack EXCEPT ![hCurrentTask] = v] /\ hCurrentTask' = t
    /\ tasks' = tasks /\ habit' = habit

LEMMA MovesKeep ==
    ASSUME TasksOK, StacksOK, NEW v, NEW t \in ToSet(tasks), Moves(v, t),
           Shape(v, hCurrentTask \in doomed', habit), Len(v) > 0,
           t # hCurrentTask => Switched(v),
           TASK_READY' \subseteq ToSet(tasks), doomed' \subseteq ToSet(tasks),
           doomed' \ {hCurrentTask} = doomed \ {hCurrentTask},
           queued' \in [HTASK -> 0..MaxQueued], halted' \in BOOLEAN
    PROVE  TasksOK' /\ StacksOK'
<1>1. PICK c : c = hCurrentTask
  OBVIOUS
<1>2. c \in HTASK /\ c \in ToSet(tasks) /\ ToSet(tasks) \subseteq HTASK
  BY <1>1, Current
<1>3. TasksOK'
  BY DEF TasksOK, Moves
<1>4. v \in Seq(Activation)
  BY DEF Shape
<1>5. /\ stack \in [HTASK -> Seq(Activation)] /\ stack' \in [HTASK -> Seq(Activation)]
      /\ stack'[c] = v /\ \A u \in HTASK \ {c} : stack'[u] = stack[u]
  BY <1>1, <1>2, <1>4 DEF StacksOK, Moves
<1>6. tasks' = tasks /\ habit' = habit /\ hCurrentTask' = t
  BY DEF Moves
<1>7. ASSUME NEW u \in HTASK PROVE StackOK(u)'
  <2>1. CASE u = c
    <3>1. /\ Shape(stack'[u], u \in doomed', habit')
          /\ Len(stack'[u]) = 0 <=> u \notin ToSet(tasks')
          /\ u \in ToSet(tasks') \ {hCurrentTask'} => Switched(stack'[u])
      BY <1>1, <1>2, <1>5, <1>6, <2>1
    <3> QED
      BY <3>1 DEF StackOK
  <2>2. CASE u # c
    <3>1. StackOK(u) /\ stack'[u] = stack[u] /\ (u \in doomed' <=> u \in doomed)
      BY <1>1, <1>5, <2>2 DEF StacksOK
    <3>2. Shape(stack[u], u \in doomed', habit)
      BY <3>1 DEF StackOK
    <3>3. Shape(stack'[u], u \in doomed', habit')
      BY <1>6, <3>1, <3>2
    <3>4. /\ Len(stack'[u]) = 0 <=> u \notin ToSet(tasks')
          /\ u \in ToSet(tasks') \ {hCurrentTask'} => Switched(stack'[u])
      BY <1>1, <1>6, <2>2, <3>1 DEF StackOK
    <3> QED
      BY <3>3, <3>4 DEF StackOK
  <2> QED
    BY <2>1, <2>2
<1> QED
  BY <1>3, <1>5, <1>7 DEF StacksOK

(* The task list and the task that InternalYield goes on with.               *)
LEMMA Scheduled ==
    ASSUME TasksOK, NEW r, r \subseteq ToSet(tasks)
    PROVE  ScheduleTask(r) \in ToSet(tasks) \ Freed(r)
<1>1. PICK n \in Nat : n = Len(tasks)
  BY DEF TasksOK
<1>2. /\ Ready(r) \in SUBSET (1..n) /\ ReadyAfter(r) \in SUBSET (1..n)
      /\ \A i \in Ready(r) : tasks[i] \notin doomed /\ tasks[i] \in ToSet(tasks)
      /\ ReadyAfter(r) \subseteq Ready(r)
  BY <1>1 DEF Ready, ReadyAfter, TasksOK, ToSet
<1>3. Ready(r) \in SUBSET Nat /\ ReadyAfter(r) \in SUBSET Nat
  BY <1>2
<1>4. Ready(r) # {} => Min(Ready(r)) \in Ready(r)
  BY <1>3, MinOfNats
<1>5. ReadyAfter(r) # {} => Min(ReadyAfter(r)) \in Ready(r)
  <2>1. ReadyAfter(r) # {} => Min(ReadyAfter(r)) \in ReadyAfter(r)
    BY <1>3, MinOfNats
  <2> QED
    BY <1>2, <2>1
<1>6. hCurrentTask \in ToSet(tasks) /\ Freed(r) \subseteq doomed \ {hCurrentTask}
  BY DEF TasksOK, Freed
<1> QED
  BY <1>2, <1>4, <1>5, <1>6 DEF ScheduleTask

(* What InternalYield does to the tasks: those of gone are freed, s is what  *)
(* the running task was doing.                                               *)
YieldsTo(s, gone) ==
    /\ gone \subseteq doomed \ {hCurrentTask}
    /\ hCurrentTask' \in ToSet(tasks) \ gone
    /\ doomed' = doomed \ gone
    /\ stack' = [t \in HTASK |-> IF t \in gone THEN <<>>
                                 ELSE IF t # hCurrentTask THEN stack[t]
                                 ELSE IF hCurrentTask' = hCurrentTask THEN s
                                 ELSE Append(s, Act("sw"))]

LEMMA YieldTasks ==
    ASSUME TasksOK, StacksOK, NEW s, NEW r \in SUBSET ToSet(tasks), InternalYield(s, r)
    PROVE  \E gone : /\ YieldsTo(s, gone)
                     /\ tasks' \in Seq(HTASK) /\ IsInjective(tasks')
                     /\ ToSet(tasks') = ToSet(tasks) \ gone /\ TASK_READY' \subseteq ToSet(tasks')
                     /\ queued' \in [HTASK -> 0..MaxQueued] /\ halted' \in BOOLEAN
<1>1. PICK gone : gone = Freed(r)
  OBVIOUS
<1>2. PICK next : next = ScheduleTask(r)
  OBVIOUS
<1>3. next \in ToSet(tasks) \ gone /\ gone \subseteq doomed \ {hCurrentTask}
  BY <1>1, <1>2, Scheduled DEF Freed
<1>4. /\ tasks' = Without(gone) /\ doomed' = doomed \ gone
      /\ queued' = [t \in HTASK |-> IF t \in gone THEN 0 ELSE queued[t]]
      /\ hCurrentTask' = next
      /\ halted' = \A i \in DOMAIN tasks : tasks[i] \in doomed
  BY <1>1, <1>2 DEF InternalYield
<1>5. stack' = [t \in HTASK |-> IF t \in gone THEN <<>>
                                ELSE IF t = hCurrentTask
                                     THEN IF next = hCurrentTask THEN s ELSE Append(s, Act("sw"))
                                     ELSE stack[t]]
  BY <1>1, <1>2 DEF InternalYield
<1>6. PICK all : /\ all = (IF Dying THEN {tasks[i] : i \in DOMAIN tasks} ELSE r)
                 /\ TASK_READY' = (all \ gone) \ (IF next = hCurrentTask /\ ~Dying THEN {} ELSE {next})
  BY <1>1, <1>2 DEF InternalYield
<1>7. tasks' \in Seq(HTASK) /\ IsInjective(tasks') /\ ToSet(tasks') = ToSet(tasks) \ gone
  BY <1>4, WithoutGone DEF TasksOK
<1>8. all \subseteq ToSet(tasks)
  BY <1>6 DEF ToSet
<1>9. TASK_READY' \subseteq ToSet(tasks')
  BY <1>6, <1>7, <1>8
<1>10. queued' \in [HTASK -> 0..MaxQueued]
  <2>1. queued \in [HTASK -> 0..MaxQueued] /\ 0 \in 0..MaxQueued
    BY Constants DEF TasksOK
  <2> QED
    BY <1>4, <2>1
<1>11. halted' \in BOOLEAN
  BY <1>4
<1>12. YieldsTo(s, gone)
  BY <1>3, <1>4, <1>5 DEF YieldsTo
<1> QED
  BY <1>7, <1>9, <1>10, <1>11, <1>12

-----------------------------------------------------------------------------
(* The list of frames *)

LEMMA ListFacts ==
    ASSUME NEW q, Inv(q)
    PROVE  /\ q \in Seq(Addr) /\ Len(q) \in Nat
           /\ \A i \in 1..Len(q) : /\ q[i] \in Addr /\ q[i][1] \in HTASK /\ q[i][2] \in 1..MaxDepth
                                   /\ q[i] = <<q[i][1], q[i][2]>> /\ frame[q[i]] \in Frame
           /\ Len(q) = 0 <=> lpSendMessageStack = NoFrame
           /\ lpSendMessageStack # NoFrame =>
                 1 \in 1..Len(q) /\ lpSendMessageStack = q[1] /\ Top = frame[q[1]]
<1>1. q \in Seq(Addr) /\ Len(q) \in Nat
  BY DEF Inv, SendsOK, LinksOK
<1>2. \A i \in 1..Len(q) : q[i] \in Addr
  BY <1>1
<1>3. \A i \in 1..Len(q) : frame[q[i]] \in Frame
  BY <1>2 DEF Inv, FramesOK
<1>4. lpSendMessageStack = IF Len(q) = 0 THEN NoFrame ELSE q[1]
  BY DEF Inv, SendsOK, LinksOK
<1>5. Len(q) # 0 => 1 \in 1..Len(q) /\ q[1] \in Addr
  BY <1>1, <1>2
<1>6. NoFrame \notin Addr /\ \A a \in Addr : a[1] \in HTASK /\ a[2] \in 1..MaxDepth /\ a = <<a[1], a[2]>>
  BY Constants
<1> QED
  BY <1>1, <1>2, <1>3, <1>4, <1>5, <1>6 DEF Top

LEMMA FrameFields ==
    ASSUME NEW f \in Frame
    PROVE  /\ f.prev \in Addr \cup {NoFrame} /\ f.from \in HTASK /\ f.to \in HTASK
           /\ f.msg \in MsgNo \cup {0} /\ f.id \in Ids \cup {0} /\ f.lResult \in Ids \cup {0}
           /\ f.bSendReceived \in BOOLEAN /\ f.bSendCompleted \in BOOLEAN
           /\ f.cInSendMessage \in BOOLEAN
BY DEF Frame

(* A message that nobody has seen is received as soon as its receiver runs.  *)
LEMMA NothingPending ==
    ASSUME NEW q, Inv(q), ~Receivable \/ Doing # "sw"
    PROVE  /\ \A i \in 1..Len(q) : ~Pending(q[i])
           /\ ~Receivable
<1>1. ASSUME NEW i \in 1..Len(q), Pending(q[i]) PROVE Receivable /\ Doing = "sw"
  <2>1. PendingOK(q, i)
    BY <1>1 DEF Inv, SendsOK, MessagesOK, MessageOK
  <2>2. Len(q) # 0
    BY ListFacts
  <2>3. lpSendMessageStack # NoFrame /\ Top = frame[q[1]]
    BY <2>2, ListFacts
  <2> QED
    BY <1>1, <2>1, <2>3 DEF PendingOK, Pending, Receivable
<1>2. Receivable => 1 \in 1..Len(q) /\ Pending(q[1])
  BY ListFacts DEF Receivable, Pending
<1> QED
  BY <1>1, <1>2

(* A task's frame that is answered and is its innermost call.                *)
LEMMA LiveBelow ==
    ASSUME NEW q, Inv(q), NEW i \in 1..Len(q), q[i][1] = hCurrentTask
    PROVE  /\ q[i][2] \in 1..Len(MyStack) /\ q[i][2] \in Nat /\ MyStack[q[i][2]].kind = "send" /\ q[i][2] # 1
           /\ q[i] = <<hCurrentTask, q[i][2]>>
<1>1. Live(q[i]) /\ q[i] \in Addr /\ q[i][2] \in 1..MaxDepth /\ q[i] = <<q[i][1], q[i][2]>>
  BY ListFacts DEF Inv, SendsOK, CallsListed
<1>2. TasksOK /\ StacksOK /\ MaxDepth \in Nat
  BY Constants DEF Inv
<1>3. Len(MyStack) \in Nat /\ Shape(MyStack, hCurrentTask \in doomed, habit)
  BY <1>2, Current
<1>4. q[i][2] \in 1..Len(MyStack) /\ MyStack[q[i][2]].kind = "send"
  BY <1>1, <1>2, <1>3 DEF Live, MyStack
<1>5. q[i][2] # 1
  <2>1. ActOK(MyStack, q[i][2], hCurrentTask \in doomed, habit)
    BY <1>3, <1>4 DEF Shape
  <2> QED
    BY <1>4, <2>1 DEF ActOK
<1> QED
  BY <1>1, <1>4, <1>5

(* Below procedures called for the task's own messages is the application   *)
(* code or the procedure that sent them.                                     *)
LEMMA OwnBase ==
    ASSUME NEW s, NEW d, NEW h, Shape(s, d, h), NEW k \in 1..Len(s), s[k].kind = "own"
    PROVE  \E m \in 1..k : /\ s[m].kind \in {"app", "proc"}
                            /\ \A l \in (m + 1)..k : s[l].kind = "own"
<1>1. s \in Seq(Activation) /\ Len(s) \in Nat /\ \A i \in 1..Len(s) : ActOK(s, i, d, h)
  BY DEF Shape
<1> DEFINE S == {i \in 1..k : s[i].kind # "own"}
<1>2. S \in SUBSET Nat /\ 1 \in S /\ \A i \in S : i <= k
  <2>1. 1 \in 1..Len(s) /\ 1 \in 1..k
    BY <1>1
  <2> QED
    BY <1>1, <2>1 DEF ActOK
<1>3. PICK m \in S : \A i \in S : i <= m
  <2>1. k \in Nat /\ S \in SUBSET Nat /\ S # {} /\ \A i \in S : i <= k
    BY <1>1, <1>2
  <2> HIDE DEF S
  <2>2. Max(S) \in S /\ \A i \in S : i <= Max(S)
    BY <2>1, MaxOfNats
  <2> QED
    BY <2>2
<1>4. m \in 1..k /\ m # k /\ m + 1 \in 1..k /\ m + 1 \in 1..Len(s) /\ m + 1 - 1 = m
  BY <1>1, <1>3
<1>5. ASSUME NEW l \in (m + 1)..k PROVE s[l].kind = "own"
  <2>1. l \in 1..k /\ ~(l <= m)
    BY <1>4
  <2> QED
    BY <1>3, <2>1
<1>6. s[m + 1].kind = "own"
  BY <1>4, <1>5
<1>7. s[m].kind \in {"app", "proc", "own"}
  <2>1. ActOK(s, m + 1, d, h)
    BY <1>1, <1>4
  <2>2. s[m + 1].kind = "own" => s[m + 1 - 1].kind \in {"app", "proc", "own"}
    BY <2>1 DEF ActOK
  <2> QED
    BY <1>4, <1>6, <2>2
<1> QED
  BY <1>3, <1>4, <1>5, <1>7

LEMMA CompletedTop ==
    ASSUME NEW q, Inv(q), Len(q) # 0, frame[q[1]].bSendCompleted
    PROVE  /\ hCurrentTask = q[1][1] /\ Doing \notin {"app", "wait", "exit"}
           /\ Doing \in {"proc", "own"} => ~Loops(habit)
<1>1. 1 \in 1..Len(q)
  BY ListFacts
<1>2. hCurrentTask = q[1][1]
  BY <1>1 DEF Inv, SendsOK, MessagesOK, MessageOK, CompletedOK
<1>3. PICK n : n = Len(MyStack)
  OBVIOUS
<1>4. PICK i \in 2..n : q[1][2] = i /\ MyStack[i].kind = "send"
  <2>1. q[1][2] \in 1..Len(MyStack) /\ q[1][2] \in Nat /\ MyStack[q[1][2]].kind = "send" /\ q[1][2] # 1
    BY <1>1, <1>2, LiveBelow
  <2> QED
    BY <1>3, <2>1
<1>5. /\ n \in 1..MaxDepth /\ Doing = MyStack[n].kind /\ Doing \in Kinds
      /\ Doing = "app" => n = 1
      /\ Doing = "exit" => n = 2
      /\ ActOK(MyStack, n, hCurrentTask \in doomed, habit)
  <2>1. TasksOK /\ StacksOK
    BY DEF Inv
  <2>2. Shape(MyStack, hCurrentTask \in doomed, habit) /\ n \in 1..MaxDepth /\ n \in 1..Len(MyStack)
        /\ Doing = MyStack[n].kind /\ Doing \in Kinds
    BY <1>3, <2>1, Current
  <2> QED
    BY <1>3, <2>1, <2>2, TopOfStack DEF Shape
<1>6. ASSUME NEW m \in 1..n, Loops(habit), MyStack[m].kind = "proc" PROVE m < i
  <2>1. ProcAt(hCurrentTask, m) /\ m \in Nat /\ hCurrentTask \in HTASK
    BY <1>3, <1>5, <1>6, Current DEF ProcAt, MyStack, Inv
  <2>2. ProcOK(q, hCurrentTask, m)
    BY <1>6, <2>1 DEF Inv, SendsOK, ProcsOK
  <2>3. \E k \in 1..Len(q) : q[1][1] = hCurrentTask /\ q[1][2] < m => k < 1
    BY <1>1, <2>2 DEF ProcOK
  <2>4. ~(q[1][2] < m)
    BY <1>2, <2>3
  <2>5. i # m
    BY <1>4, <1>6
  <2> QED
    BY <1>4, <2>4, <2>5
<1>7. ASSUME NEW k \in i..n, MyStack[k].kind \in {"proc", "own"} PROVE ~Loops(habit)
  <2> SUFFICES ASSUME Loops(habit) PROVE FALSE
    OBVIOUS
  <2>1. PICK m \in 1..k : /\ MyStack[m].kind \in {"app", "proc"}
                          /\ \A l \in (m + 1)..k : MyStack[l].kind = "own"
    <3>1. CASE MyStack[k].kind = "proc"
      <4>1. k \in 1..k /\ \A l \in (k + 1)..k : FALSE
        BY <1>4
      <4> QED
        BY <3>1, <4>1
    <3>2. CASE MyStack[k].kind = "own"
      <4>1. Shape(MyStack, hCurrentTask \in doomed, habit) /\ k \in 1..Len(MyStack)
        BY <1>3, <1>4, Current DEF Inv
      <4> QED
        BY <3>2, <4>1, OwnBase
    <3> QED
      BY <1>7, <3>1, <3>2
  <2>2. m \in 1..n /\ ActOK(MyStack, m, hCurrentTask \in doomed, habit)
    <3>1. Shape(MyStack, hCurrentTask \in doomed, habit) /\ m \in 1..n /\ n = Len(MyStack)
      BY <1>3, <1>4, Current DEF Inv
    <3> QED
      BY <3>1 DEF Shape
  <2>3. m < i
    <3>1. CASE MyStack[m].kind = "proc"
      BY <1>6, <2>2, <3>1
    <3>2. CASE MyStack[m].kind = "app"
      BY <1>4, <2>2, <3>2 DEF ActOK
    <3> QED
      BY <2>1, <3>1, <3>2
  <2>4. i \in (m + 1)..k
    BY <1>4, <2>2, <2>3
  <2> QED
    BY <1>4, <2>1, <2>4
<1>8. Doing # "wait"
  <2> SUFFICES ASSUME Doing = "wait" PROVE FALSE
    OBVIOUS
  <2>1. i < n
    <3>1. i # n
      BY <1>4, <1>5
    <3> QED
      BY <1>4, <1>5, <3>1
  <2>2. n # 2
    BY <2>1, <1>5
  <2>3. Loops(habit) /\ MyStack[n - 1].kind \in {"proc", "own"} /\ n - 1 \in i..n
    BY <1>4, <1>5, <2>1, <2>2 DEF ActOK
  <2> QED
    BY <1>7, <2>3
<1>9. Doing # "app"
  BY <1>4, <1>5
<1>10. Doing # "exit"
  <2> SUFFICES ASSUME Doing = "exit" PROVE FALSE
    OBVIOUS
  <2>1. n = 2 /\ i = n
    BY <1>4, <1>5
  <2> QED
    BY <1>4, <1>5, <2>1
<1>11. Doing \in {"proc", "own"} => ~Loops(habit)
  <2>1. n \in i..n
    BY <1>4, <1>5
  <2> QED
    BY <1>5, <1>7, <2>1
<1> QED
  BY <1>2, <1>8, <1>9, <1>10, <1>11

(* The frame of the innermost call, once it is answered, is the last one.    *)
LEMMA ReturnsInTurn ==
    ASSUME NEW q, Inv(q), Doing = "send", frame[<<hCurrentTask, Len(MyStack)>>].bSendCompleted
    PROVE  Len(q) # 0 /\ q[1] = <<hCurrentTask, Len(MyStack)>>
<1>1. PICK n : n = Len(MyStack)
  OBVIOUS
<1>2. n \in 1..MaxDepth /\ n \in 1..Len(MyStack) /\ MyStack[n].kind = "send" /\ hCurrentTask \in HTASK
      /\ MaxDepth \in Nat
  BY <1>1, Current, Constants DEF Inv
<1>3. PICK a \in Addr : a = <<hCurrentTask, n>> /\ a[1] = hCurrentTask /\ a[2] = n
  <2>1. <<hCurrentTask, n>> \in Addr
    BY <1>2, Constants
  <2> QED
    BY <2>1
<1>4. Live(a)
  BY <1>1, <1>2, <1>3 DEF Live, MyStack
<1>5. PICK j \in 1..Len(q) : q[j] = a
  BY <1>4 DEF Inv, SendsOK, CallsListed
<1>6. CompletedOK(q, j)
  BY <1>1, <1>3, <1>5 DEF Inv, SendsOK, MessagesOK, MessageOK
<1>7. j = 1
  <2> SUFFICES ASSUME j # 1 PROVE FALSE
    OBVIOUS
  <2>1. PICK i \in 1..Len(q) : i = j - 1 /\ i < j /\ Len(q) \in Nat
    BY ListFacts
  <2>2. q[i][1] = q[j][1] /\ q[i][1] = hCurrentTask
    BY <1>3, <1>5, <1>6, <2>1 DEF CompletedOK
  <2>3. q[i][2] > q[j][2]
    BY <2>1, <2>2 DEF Inv, SendsOK, CallsListed
  <2>4. q[i][2] \in 1..Len(MyStack)
    BY <2>2, LiveBelow
  <2> QED
    BY <1>1, <1>2, <1>3, <1>5, <2>3, <2>4
<1> QED
  BY <1>1, <1>3, <1>5, <1>7, ListFacts

(* The last frame is for the running task, which is not about to look there. *)
LEMMA MineIsHandled ==
    ASSUME NEW q, Inv(q), ForMe, Doing # "sw"
    PROVE  /\ 1 \in 1..Len(q) /\ lpSendMessageStack = q[1] /\ Top = frame[q[1]]
           /\ q[1] \in Addr /\ q[1][1] \in HTASK /\ q[1][1] = Top.from /\ q[1][1] # hCurrentTask
           /\ Handled(q[1]) /\ Top.to = hCurrentTask
<1>1. /\ 1 \in 1..Len(q) /\ lpSendMessageStack = q[1] /\ Top = frame[q[1]] /\ Top.to = hCurrentTask
      /\ q[1] \in Addr /\ q[1][1] \in HTASK /\ Len(q) # 0 /\ Top \in Frame
  BY ListFacts DEF ForMe
<1>2. MessageOK(q, 1)
  BY <1>1 DEF Inv, SendsOK, MessagesOK
<1>3. q[1][1] = Top.from /\ q[1][1] # hCurrentTask
  BY <1>1, <1>2 DEF MessageOK
<1>4. ~frame[q[1]].bSendCompleted
  BY <1>1, <1>3, CompletedTop
<1>5. ~Pending(q[1])
  BY <1>1, NothingPending
<1> QED
  BY <1>1, <1>3, <1>4, <1>5 DEF Handled, Pending

-----------------------------------------------------------------------------
(* What steps leave of the calls: of the activations of SendMessage and of   *)
(* window procedures.                                                        *)

CallAt(s, i) == i \in 1..Len(s) /\ s[i].kind \in {"send", "proc", "own"}
SameAct(x, y) ==
    x.kind = y.kind /\ x.ptr = y.ptr /\ x.msg = y.msg /\ x.id = y.id /\ x.in = y.in
CallKept(s, v, i) ==
    /\ CallAt(s, i) <=> CallAt(v, i)
    /\ CallAt(s, i) => SameAct(s[i], v[i])

(* All but the one at place n of task c.                                     *)
CallsKept(c, n) ==
    \A t \in HTASK, i \in Nat : t # c \/ i # n => CallKept(stack[t], stack'[t], i)
Stacks == stack \in [HTASK -> Seq(Activation)]

LEMMA LiveKept ==
    ASSUME Stacks, Stacks', NEW c, NEW n, CallsKept(c, n), NEW a \in Addr, a[1] # c \/ a[2] # n
    PROVE  Live(a)' <=> Live(a)
<1>1. a[1] \in HTASK /\ a[2] \in Nat \ {0}
  BY Constants
<1>2. CallKept(stack[a[1]], stack'[a[1]], a[2])
  BY <1>1 DEF CallsKept
<1>3. /\ CallAt(stack[a[1]], a[2]) <=> a[2] <= Len(stack[a[1]])
                                      /\ stack[a[1]][a[2]].kind \in {"send", "proc", "own"}
      /\ CallAt(stack'[a[1]], a[2]) <=> a[2] <= Len(stack'[a[1]])
                                      /\ stack'[a[1]][a[2]].kind \in {"send", "proc", "own"}
  BY <1>1 DEF CallAt, Stacks
<1> QED
  BY <1>2, <1>3 DEF Live, CallKept, SameAct

LEMMA ProcKept ==
    ASSUME NEW c, NEW n, CallsKept(c, n), NEW t \in HTASK, NEW i \in Nat, t # c \/ i # n
    PROVE  /\ ProcAt(t, i)' <=> ProcAt(t, i)
           /\ ProcAt(t, i) => SameAct(stack[t][i], stack'[t][i])
<1>1. CallKept(stack[t], stack'[t], i)
  BY DEF CallsKept
<1> QED
  BY <1>1 DEF ProcAt, CallKept, CallAt, SameAct

(* The message at a is as it was.                                            *)
SameMessage(a) ==
    frame'[a].to = frame[a].to /\ frame'[a].msg = frame[a].msg /\ frame'[a].id = frame[a].id

LEMMA AnswersKept ==
    ASSUME NEW c, NEW n, CallsKept(c, n), NEW t \in HTASK, NEW i \in Nat, t # c \/ i # n,
           ProcAt(t, i), NEW a, SameMessage(a), Answers(stack[t][i], a)
    PROVE  Answers(stack[t][i], a)'
<1>1. SameAct(stack[t][i], stack'[t][i])
  BY ProcKept
<1> QED
  BY <1>1 DEF Answers, SameAct, SameMessage

LEMMA HandlerKept ==
    ASSUME Stacks, Stacks', NEW c, NEW n, CallsKept(c, n),
           NEW a, NEW t \in HTASK, NEW i \in Nat, NEW j \in Nat, HandlerAt(a, t, i, j),
           j # Len(stack[t]), t # c \/ n \notin i..(j + 1),
           SameMessage(a), frame'[<<t, j + 1>>].prev = frame[<<t, j + 1>>].prev
    PROVE  HandlerAt(a, t, i, j)'
<1>1. /\ i \in 1..Len(stack[t]) /\ Answers(stack[t][i], a) /\ SendsFor(a, t, j + 1)
      /\ frame[a].to = t /\ Len(stack[t]) \in Nat /\ Len(stack'[t]) \in Nat
      /\ j \in i..Len(stack[t]) /\ \A k \in (i + 1)..j : stack[t][k].kind = "own"
  BY DEF HandlerAt, Stacks
<1>2. \A k \in i..(j + 1) : k \in 1..Len(stack[t]) /\ k \in Nat /\ (t # c \/ k # n)
  BY <1>1
<1>3. ASSUME NEW k \in i..(j + 1) PROVE CallAt(stack[t], k) /\ CallKept(stack[t], stack'[t], k)
  <2>1. k = i \/ k = j + 1 \/ k \in (i + 1)..j
    BY <1>1
  <2>2. stack[t][k].kind \in {"send", "proc", "own"}
    BY <1>1, <2>1 DEF SendsFor, Answers
  <2> QED
    BY <1>2, <2>2 DEF CallAt, CallsKept
<1>4. \A k \in i..(j + 1) : k \in 1..Len(stack'[t]) /\ stack'[t][k].kind = stack[t][k].kind
  BY <1>3 DEF CallKept, CallAt, SameAct
<1>5. i \in i..(j + 1) /\ j + 1 \in i..(j + 1) /\ \A k \in (i + 1)..j : k \in i..(j + 1)
  BY <1>1
<1>6. /\ i \in 1..Len(stack'[t]) /\ j \in i..Len(stack'[t]) /\ j # Len(stack'[t])
      /\ \A k \in (i + 1)..j : stack'[t][k].kind = "own"
  <2>1. j + 1 \in 1..Len(stack'[t]) /\ i \in 1..Len(stack'[t])
    BY <1>4, <1>5
  <2>2. j \in i..Len(stack'[t]) /\ j # Len(stack'[t])
    BY <1>1, <2>1
  <2> QED
    BY <1>1, <1>4, <1>5, <2>1, <2>2
<1>7. Answers(stack[t][i], a)'
  <2>1. ProcAt(t, i) /\ (t # c \/ i # n)
    BY <1>1, <1>2, <1>5 DEF ProcAt, Answers
  <2> QED
    BY <1>1, <2>1, AnswersKept
<1>8. SendsFor(a, t, j + 1)'
  BY <1>1, <1>4, <1>5 DEF SendsFor
<1>9. frame'[a].to = t
  BY <1>1 DEF SameMessage
<1> QED
  BY <1>6, <1>7, <1>8, <1>9 DEF HandlerAt

(* Steps without SendMessage to another task, reception, answer or return    *)
(* from it; they may begin or end a call at place n of the running task.     *)
LEMMA QuietSteps ==
    ASSUME NEW q, Inv(q), Stacks', habit' = habit,
           lpSendMessageStack' = lpSendMessageStack, frame' = frame,
           NEW n, CallsKept(hCurrentTask, n),
           n \in 1..Len(MyStack) => MyStack[n].kind \notin {"send", "proc"},
           n \in 1..Len(stack'[hCurrentTask]) =>
              stack'[hCurrentTask][n].kind \notin {"send", "proc"},
           \A i \in 1..Len(q) : ~Pending(q[i]),
           \/ Len(q) # 0 => ~frame[q[1]].bSendCompleted
           \/ hCurrentTask' = hCurrentTask /\ Running' \subseteq Running,
           HandlersOK(q)'
    PROVE  SendsOK(q)'
<1>1. /\ q \in Seq(Addr) /\ Len(q) \in Nat /\ \A i \in 1..Len(q) : q[i] \in Addr
      /\ Stacks /\ TasksOK /\ StacksOK
  BY ListFacts DEF Inv, Stacks, StacksOK
<1>2. lpSendMessageStack' = lpSendMessageStack /\ frame' = frame /\ habit' = habit
  OBVIOUS
<1>3. \A a \in Addr : Live(a)' <=> Live(a)
  <2>1. ASSUME NEW a \in Addr, a[1] = hCurrentTask, a[2] = n PROVE ~Live(a) /\ ~Live(a)'
    <3>1. n \in Nat \ {0} /\ hCurrentTask \in HTASK /\ stack[hCurrentTask] = MyStack
      BY <2>1, Constants DEF MyStack
    <3>2. Len(MyStack) \in Nat /\ Len(stack'[hCurrentTask]) \in Nat
      BY <1>1, <3>1 DEF Stacks
    <3> QED
      BY <2>1, <3>1, <3>2 DEF Live
  <2> QED
    BY <1>1, <2>1, LiveKept
<1>4. LinksOK(q)'
  BY <1>2 DEF Inv, SendsOK, LinksOK
<1>5. CallsListed(q)'
  BY <1>1, <1>3 DEF Inv, SendsOK, CallsListed
<1>6. MessagesOK(q)'
  <2>1. ASSUME NEW i \in 1..Len(q) PROVE MessageOK(q, i)'
    <3>1. MessageOK(q, i) /\ ~Pending(q[i])
      BY DEF Inv, SendsOK, MessagesOK
    <3>2. ~Pending(q[i])'
      BY <1>2, <3>1 DEF Pending
    <3>3. ASSUME frame[q[i]].bSendCompleted PROVE CompletedOK(q, i)'
      <4>1. CompletedOK(q, i)
        BY <3>1, <3>3 DEF MessageOK
      <4>2. CASE hCurrentTask' = hCurrentTask /\ Running' \subseteq Running
        BY <1>2, <4>1, <4>2 DEF CompletedOK
      <4>3. CASE Len(q) # 0 => ~frame[q[1]].bSendCompleted
        <5>1. i # 1
          BY <1>1, <3>3, <4>3
        <5> QED
          BY <1>2, <4>1, <5>1 DEF CompletedOK
      <4> QED
        BY <4>2, <4>3
    <3> QED
      BY <1>2, <3>1, <3>2, <3>3 DEF MessageOK
  <2> QED
    BY <2>1 DEF MessagesOK
<1>7. ProcsOK(q)'
  <2> SUFFICES ASSUME habit # "replies" PROVE ProcsOK(q)'
    BY <1>2 DEF ProcsOK
  <2>1. /\ \A t \in HTASK, i \in Nat : ProcAt(t, i) => ProcOK(q, t, i)
        /\ \A t \in HTASK, i, j \in Nat :
              ProcAt(t, i) /\ ProcAt(t, j) /\ i # j => stack[t][i].ptr # stack[t][j].ptr
    BY DEF Inv, SendsOK, ProcsOK
  <2>2. \A t \in HTASK, i \in Nat : ProcAt(t, i)' => ProcAt(t, i) /\ SameAct(stack[t][i], stack'[t][i])
    <3>1. PICK c : c = hCurrentTask
      OBVIOUS
    <3>2. CallsKept(c, n) /\ stack[c] = MyStack
      BY <3>1 DEF MyStack
    <3>3. ASSUME NEW t \in HTASK, NEW i \in Nat, ProcAt(t, i)'
          PROVE  ProcAt(t, i) /\ SameAct(stack[t][i], stack'[t][i])
      <4>1. t # c \/ i # n
        BY <3>1, <3>3 DEF ProcAt
      <4> QED
        BY <3>2, <3>3, <4>1, ProcKept
    <3> QED
      BY <3>3
  <2>3. ASSUME NEW t \in HTASK, NEW i \in Nat, ProcAt(t, i)' PROVE ProcOK(q, t, i)'
    <3>1. ProcOK(q, t, i) /\ SameAct(stack[t][i], stack'[t][i])
      BY <2>1, <2>2, <2>3
    <3>2. PICK k \in 1..Len(q) :
             /\ Answers(stack[t][i], q[k]) /\ frame[q[k]].to = t /\ Handled(q[k])
             /\ \A l \in 1..Len(q) : q[l][1] = t /\ q[l][2] < i => k < l
      BY <3>1 DEF ProcOK
    <3>3. Answers(stack[t][i], q[k])' /\ Handled(q[k])' /\ frame'[q[k]].to = t
      BY <1>2, <3>1, <3>2 DEF Answers, SameAct, Handled
    <3> QED
      BY <3>2, <3>3 DEF ProcOK
  <2>4. ASSUME NEW t \in HTASK, NEW i \in Nat, NEW j \in Nat, ProcAt(t, i)', ProcAt(t, j)', i # j
        PROVE  stack'[t][i].ptr # stack'[t][j].ptr
    <3>1. stack[t][i].ptr # stack[t][j].ptr
      BY <2>1, <2>2, <2>4
    <3> QED
      BY <2>2, <2>4, <3>1 DEF SameAct
  <2> QED
    BY <2>3, <2>4 DEF ProcsOK
<1> QED
  BY <1>4, <1>5, <1>6, <1>7 DEF SendsOK

LEMMA OtherSteps ==
    ASSUME NEW q, Inv(q), Stacks', sending' = sending, habit' = habit, CallsKept(hCurrentTask, 0),
           \A i \in 1..Len(q) : ~Pending(q[i]),
           \/ Len(q) # 0 => ~frame[q[1]].bSendCompleted
           \/ hCurrentTask' = hCurrentTask /\ Running' \subseteq Running,
           Doing \in {"proc", "own"} => Loops(habit)
    PROVE  SendsOK(q)'
<1>1. Stacks /\ lpSendMessageStack' = lpSendMessageStack /\ frame' = frame
  BY DEF sending, Inv, Stacks, StacksOK
<1>2. HandlersOK(q)'
  <2> SUFFICES ASSUME ~Loops(habit), NEW k \in 1..Len(q), Handled(q[k])
               PROVE  \E t \in HTASK, i, j \in Nat : HandlerAt(q[k], t, i, j)'
    BY <1>1 DEF HandlersOK, Handled
  <2>1. PICK t \in HTASK, i \in Nat, j \in Nat : HandlerAt(q[k], t, i, j)
    BY DEF Inv, SendsOK, HandlersOK
  <2>2. j # Len(stack[t])
    <3> SUFFICES ASSUME j = Len(stack[t]) PROVE FALSE
      OBVIOUS
    <3>1. t = hCurrentTask /\ stack[t][i].kind = "proc" /\ i \in 1..j /\ j \in i..j
          /\ \A l \in (i + 1)..j : stack[t][l].kind = "own"
      BY <2>1 DEF HandlerAt, Answers
    <3>2. stack[t][j].kind \in {"proc", "own"}
      <4>1. j = i \/ j \in (i + 1)..j
        BY <3>1
      <4> QED
        BY <3>1, <4>1
    <3> QED
      BY <3>1, <3>2 DEF Doing, MyStack
  <2>3. SameMessage(q[k]) /\ frame'[<<t, j + 1>>].prev = frame[<<t, j + 1>>].prev
    BY <1>1 DEF SameMessage
  <2>4. 0 \notin i..(j + 1)
    BY <2>1 DEF HandlerAt
  <2>5. HandlerAt(q[k], t, i, j)'
    BY <1>1, <2>1, <2>2, <2>3, <2>4, HandlerKept
  <2> QED
    BY <2>5
<1>3. 0 \notin 1..Len(MyStack) /\ 0 \notin 1..Len(stack'[hCurrentTask])
  <2>1. \A l : 0 \notin 1..l
    OBVIOUS
  <2> QED
    BY <2>1
<1> QED
  BY <1>1, <1>2, <1>3, QuietSteps

(* Records of frames: what stays when a message is received or answered.     *)
SameSend(x, y) ==
    /\ x.prev = y.prev /\ x.from = y.from /\ x.to = y.to /\ x.msg = y.msg /\ x.id = y.id
    /\ x.cInSendMessage = y.cInSendMessage

LEMMA FrameReceived ==
    ASSUME FramesOK, NEW a \in Addr, frame' = [frame EXCEPT ![a].bSendReceived = TRUE]
    PROVE  /\ frame' \in [Addr -> Frame] /\ \A b \in Addr : b # a => frame'[b] = frame[b]
           /\ SameSend(frame'[a], frame[a]) /\ frame'[a].lResult = frame[a].lResult
           /\ frame'[a].bSendCompleted = frame[a].bSendCompleted /\ frame'[a].bSendReceived
<1>1. PICK f \in Frame : f = frame[a]
  BY DEF FramesOK
<1>2. PICK g : g = [f EXCEPT !.bSendReceived = TRUE]
  OBVIOUS
<1>3. /\ g \in Frame /\ SameSend(g, f) /\ g.lResult = f.lResult
      /\ g.bSendCompleted = f.bSendCompleted /\ g.bSendReceived
  BY <1>2 DEF Frame, SameSend
<1>4. frame' = [frame EXCEPT ![a] = g]
  BY <1>1, <1>2
<1>5. frame \in [Addr -> Frame]
  BY DEF FramesOK
<1>6. frame' \in [Addr -> Frame] /\ frame'[a] = g /\ \A b \in Addr : b # a => frame'[b] = frame[b]
  BY <1>3, <1>4, <1>5
<1> QED
  BY <1>1, <1>3, <1>6

LEMMA FrameCompleted ==
    ASSUME FramesOK, NEW a \in Addr, NEW r \in Ids \cup {0},
           frame' = [frame EXCEPT ![a].lResult = r, ![a].bSendCompleted = TRUE]
    PROVE  /\ frame' \in [Addr -> Frame] /\ \A b \in Addr : b # a => frame'[b] = frame[b]
           /\ SameSend(frame'[a], frame[a]) /\ frame'[a].lResult = r /\ frame'[a].bSendCompleted
<1>1. PICK f \in Frame : f = frame[a]
  BY DEF FramesOK
<1>2. PICK g : g = [f EXCEPT !.lResult = r, !.bSendCompleted = TRUE]
  OBVIOUS
<1>3. g \in Frame /\ SameSend(g, f) /\ g.lResult = r /\ g.bSendCompleted
  BY <1>2 DEF Frame, SameSend
<1>4. frame' = [frame EXCEPT ![a] = g]
  BY <1>1, <1>2
<1>5. frame \in [Addr -> Frame]
  BY DEF FramesOK
<1>6. frame' \in [Addr -> Frame] /\ frame'[a] = g /\ \A b \in Addr : b # a => frame'[b] = frame[b]
  BY <1>3, <1>4, <1>5
<1> QED
  BY <1>1, <1>3, <1>6

(* A handler with a send above it is inside the stack bounds.                *)
LEMMA SenderAddr ==
    ASSUME StacksOK, NEW t \in HTASK, NEW i \in Nat, i \in 1..Len(stack[t]), i # Len(stack[t])
    PROVE  i + 1 \in 1..MaxDepth /\ <<t, i + 1>> \in Addr /\ i + 1 \in 1..Len(stack[t])
<1>1. Len(stack[t]) <= MaxDepth /\ Len(stack[t]) \in Nat
  BY DEF StacksOK, StackOK, Shape
<1>2. i + 1 \in 1..MaxDepth /\ i + 1 \in 1..Len(stack[t])
  BY <1>1, Constants
<1> QED
  BY <1>2, Constants

(* TWIN_ReceiveMessage calls the window procedure.                           *)
LEMMA ReceptionSends ==
    ASSUME NEW q, Inv(q), Receivable, Doing = "sw", Stacks', CallsKept(hCurrentTask, Len(MyStack)),
           habit' = habit, hCurrentTask' = hCurrentTask, tasks' = tasks, doomed' = doomed,
           lpSendMessageStack' = lpSendMessageStack,
           frame' = [frame EXCEPT ![lpSendMessageStack].bSendReceived = TRUE],
           Len(stack'[hCurrentTask]) = Len(MyStack),
           NEW x, stack'[hCurrentTask][Len(MyStack)] = x, Answers(x, lpSendMessageStack)
    PROVE  SendsOK(q)' /\ frame' \in [Addr -> Frame]
<1>1. PICK c, n : c = hCurrentTask /\ n = Len(MyStack)
  OBVIOUS
<1>2. PICK a : a = lpSendMessageStack
  OBVIOUS
<1>3. /\ q \in Seq(Addr) /\ Len(q) \in Nat /\ \A i \in 1..Len(q) : q[i] \in Addr
      /\ 1 \in 1..Len(q) /\ a = q[1] /\ a \in Addr
      /\ ~frame[a].bSendReceived /\ ~frame[a].bSendCompleted /\ frame[a].to = c
  BY <1>1, <1>2, ListFacts DEF Receivable, Top
<1>4. /\ Stacks /\ TasksOK /\ StacksOK /\ FramesOK /\ c \in HTASK /\ n \in 1..MaxDepth /\ n \in Nat
      /\ stack[c][n].kind = "sw" /\ Len(stack[c]) = n
      /\ stack'[c][n] = x /\ Len(stack'[c]) = n /\ CallsKept(c, n)
  <2>1. TasksOK /\ StacksOK /\ FramesOK /\ Stacks
    BY DEF Inv, Stacks, StacksOK
  <2>2. c \in HTASK /\ n \in 1..MaxDepth /\ n \in Nat /\ Doing = MyStack[n].kind
    BY <1>1, <2>1, Current
  <2> QED
    BY <1>1, <2>1, <2>2 DEF MyStack
<1>5. Answers(x, a)' /\ x.kind = "proc" /\ x.ptr = a /\ x.msg = frame[a].msg /\ x.id = frame[a].id
  BY <1>2, <1>3, <1>4, FrameReceived DEF Answers, SameSend
<1>6. /\ frame' \in [Addr -> Frame] /\ \A b \in Addr : b # a => frame'[b] = frame[b]
      /\ \A b \in Addr : /\ SameSend(frame'[b], frame[b]) /\ frame'[b].lResult = frame[b].lResult
                         /\ frame'[b].bSendCompleted = frame[b].bSendCompleted
      /\ frame'[a].bSendReceived
  <2>1. /\ frame' \in [Addr -> Frame] /\ \A b \in Addr : b # a => frame'[b] = frame[b]
        /\ SameSend(frame'[a], frame[a]) /\ frame'[a].lResult = frame[a].lResult
        /\ frame'[a].bSendCompleted = frame[a].bSendCompleted /\ frame'[a].bSendReceived
    BY <1>2, <1>3, <1>4, FrameReceived
  <2> QED
    BY <2>1 DEF SameSend
<1>7. \A b \in Addr : Live(b)' <=> Live(b)
  <2>1. ASSUME NEW b \in Addr, b[1] = c, b[2] = n PROVE ~Live(b) /\ ~Live(b)'
    BY <1>4, <1>5, <2>1 DEF Live
  <2> QED
    BY <1>4, <2>1, LiveKept
<1>8. LinksOK(q)'
  BY <1>3, <1>6 DEF Inv, SendsOK, LinksOK, SameSend
<1>9. CallsListed(q)'
  BY <1>3, <1>7 DEF Inv, SendsOK, CallsListed
<1>10. MessagesOK(q)'
  <2>1. ASSUME NEW i \in 1..Len(q) PROVE MessageOK(q, i)'
    <3>1. MessageOK(q, i) /\ q[i] \in Addr
      BY <1>3 DEF Inv, SendsOK, MessagesOK
    <3>2. ~Pending(q[i])'
      <4>1. CASE q[i] = a
        BY <1>6, <4>1 DEF Pending
      <4>2. CASE q[i] # a
        BY <1>3, <1>6, <3>1, <4>2 DEF MessageOK, PendingOK, Pending
      <4> QED
        BY <4>1, <4>2
    <3>3. frame'[q[i]].bSendCompleted => CompletedOK(q, i)'
      <4>1. frame[q[i]].bSendCompleted => CompletedOK(q, i)
        BY <3>1 DEF MessageOK
      <4>2. SameSend(frame'[q[i]], frame[q[i]]) /\ frame'[q[i]].lResult = frame[q[i]].lResult
            /\ frame'[q[i]].bSendCompleted = frame[q[i]].bSendCompleted
        BY <1>6, <3>1
      <4> QED
        BY <4>1, <4>2 DEF CompletedOK, SameSend, Running
    <3> QED
      BY <1>6, <3>1, <3>2, <3>3 DEF MessageOK, SameSend
  <2> QED
    BY <2>1 DEF MessagesOK
<1>11. ProcsOK(q)'
  <2> SUFFICES ASSUME habit # "replies" PROVE ProcsOK(q)'
    BY DEF ProcsOK
  <2>1. /\ \A t \in HTASK, i \in Nat : ProcAt(t, i) => ProcOK(q, t, i)
        /\ \A t \in HTASK, i, j \in Nat :
              ProcAt(t, i) /\ ProcAt(t, j) /\ i # j => stack[t][i].ptr # stack[t][j].ptr
    BY DEF Inv, SendsOK, ProcsOK
  <2>2. ASSUME NEW t \in HTASK, NEW i \in Nat, ProcAt(t, i)', t # c \/ i # n
        PROVE  /\ ProcAt(t, i) /\ SameAct(stack[t][i], stack'[t][i]) /\ ProcOK(q, t, i)'
               /\ stack'[t][i].ptr # a
    <3>1. ProcAt(t, i) /\ SameAct(stack[t][i], stack'[t][i]) /\ ProcOK(q, t, i)
      BY <1>4, <2>1, <2>2, ProcKept
    <3>2. PICK k \in 1..Len(q) :
             /\ Answers(stack[t][i], q[k]) /\ frame[q[k]].to = t /\ Handled(q[k])
             /\ \A l \in 1..Len(q) : q[l][1] = t /\ q[l][2] < i => k < l
      BY <3>1 DEF ProcOK
    <3>3. q[k] # a /\ q[k] \in Addr /\ frame'[q[k]] = frame[q[k]]
      BY <1>3, <1>6, <3>2 DEF Handled
    <3>4. Answers(stack[t][i], q[k])' /\ Handled(q[k])' /\ frame'[q[k]].to = t
      BY <3>1, <3>2, <3>3 DEF Answers, SameAct, Handled
    <3>5. ProcOK(q, t, i)'
      BY <3>2, <3>4 DEF ProcOK
    <3> QED
      BY <3>1, <3>2, <3>3, <3>5 DEF Answers, SameAct
  <2>3. ProcOK(q, c, n)'
    <3>1. Answers(stack[c][n], q[1])' /\ Handled(q[1])' /\ frame'[q[1]].to = c
      BY <1>3, <1>4, <1>5, <1>6 DEF Answers, Handled, SameSend
    <3>2. ASSUME NEW l \in 1..Len(q), q[l][1] = c PROVE 1 < l
      <4>1. frame[q[1]].to # q[1][1]
        BY <1>3 DEF Inv, SendsOK, MessagesOK, MessageOK
      <4>2. l # 1
        BY <1>3, <3>2, <4>1
      <4> QED
        BY <4>2
    <3> QED
      BY <1>3, <3>1, <3>2 DEF ProcOK
  <2>4. ASSUME NEW t \in HTASK, NEW i \in Nat, NEW j \in Nat, ProcAt(t, i)', ProcAt(t, j)', i # j
        PROVE  stack'[t][i].ptr # stack'[t][j].ptr
    <3>1. CASE t = c /\ i = n
      BY <1>4, <1>5, <2>2, <2>4, <3>1
    <3>2. CASE t = c /\ j = n
      BY <1>4, <1>5, <2>2, <2>4, <3>2
    <3>3. CASE ~(t = c /\ i = n) /\ ~(t = c /\ j = n)
      <4>1. ProcAt(t, i) /\ ProcAt(t, j) /\ stack[t][i].ptr = stack'[t][i].ptr
            /\ stack[t][j].ptr = stack'[t][j].ptr
        BY <2>2, <2>4, <3>3 DEF SameAct
      <4> QED
        BY <2>1, <2>4, <4>1
    <3> QED
      BY <3>1, <3>2, <3>3
  <2>5. \A t \in HTASK, i \in Nat : ProcAt(t, i)' => ProcOK(q, t, i)'
    BY <2>2, <2>3
  <2> QED
    BY <2>4, <2>5 DEF ProcsOK
<1>12. HandlersOK(q)'
  <2> SUFFICES ASSUME ~Loops(habit), NEW k \in 1..Len(q), Handled(q[k])'
               PROVE  \E t \in HTASK, i, j \in Nat : HandlerAt(q[k], t, i, j)'
    BY DEF HandlersOK
  <2>1. CASE q[k] = a
    <3>1. HandlerAt(a, c, n, n)'
      <4>1. frame'[a].to = c /\ n \in 1..Len(stack'[c])
        BY <1>3, <1>4, <1>6 DEF SameSend
      <4>2. Answers(stack[c][n], a)'
        BY <1>4, <1>5 DEF Answers
      <4>3. n \in n..Len(stack'[c]) /\ \A l \in (n + 1)..n : FALSE
        BY <1>4
      <4> QED
        BY <1>1, <1>2, <1>4, <4>1, <4>2, <4>3 DEF HandlerAt
    <3> QED
      BY <1>4, <2>1, <3>1
  <2>2. CASE q[k] # a
    <3>1. frame'[q[k]] = frame[q[k]] /\ Handled(q[k])
      BY <1>3, <1>6, <2>2 DEF Handled
    <3>2. PICK t \in HTASK, i \in Nat, j \in Nat : HandlerAt(q[k], t, i, j)
      BY <3>1 DEF Inv, SendsOK, HandlersOK
    <3>3. j # Len(stack[t]) /\ SendsFor(q[k], t, j + 1) /\ j \in 1..Len(stack[t])
      BY <1>2, <2>2, <3>2 DEF HandlerAt
    <3>4. <<t, j + 1>> \in Addr /\ j + 1 \in 1..Len(stack[t])
      BY <1>4, <3>3, SenderAddr
    <3>5. t = c => n \notin i..(j + 1)
      <4>1. t = c => j + 1 # n
        BY <1>4, <3>3 DEF SendsFor
      <4> QED
        BY <1>4, <3>4, <4>1
    <3>6. frame'[<<t, j + 1>>].prev = frame[<<t, j + 1>>].prev /\ SameMessage(q[k])
      BY <1>6, <3>1, <3>4 DEF SameSend, SameMessage
    <3>7. HandlerAt(q[k], t, i, j)'
      BY <1>4, <3>2, <3>3, <3>5, <3>6, HandlerKept
    <3> QED
      BY <3>7
  <2> QED
    BY <2>1, <2>2
<1> QED
  BY <1>6, <1>8, <1>9, <1>10, <1>11, <1>12 DEF SendsOK

(* The running task's activation and its neighbours.                         *)
LEMMA TopFacts ==
    ASSUME NEW q, Inv(q)
    PROVE  /\ Stacks /\ TasksOK /\ StacksOK /\ FramesOK /\ MaxDepth \in Nat
           /\ hCurrentTask \in HTASK /\ hCurrentTask \in ToSet(tasks)
           /\ Len(MyStack) \in 1..MaxDepth /\ Len(MyStack) \in Nat /\ stack[hCurrentTask] = MyStack
           /\ MyStack \in Seq(Activation) /\ MyStack[Len(MyStack)].kind = Doing
           /\ MyStack[Len(MyStack)] \in Activation /\ <<hCurrentTask, Len(MyStack)>> \in Addr
<1>1. TasksOK /\ StacksOK /\ FramesOK /\ Stacks
  BY DEF Inv, Stacks, StacksOK
<1>2. /\ hCurrentTask \in HTASK /\ hCurrentTask \in ToSet(tasks) /\ Len(MyStack) \in 1..MaxDepth
      /\ MyStack \in Seq(Activation) /\ MyStack[Len(MyStack)].kind = Doing /\ MyStack[Len(MyStack)] \in Activation
  BY <1>1, Current
<1> QED
  BY <1>1, <1>2, Constants DEF MyStack

(* A window procedure is over that has nothing to answer.                    *)
LEMMA SilentReturn ==
    ASSUME NEW q, Inv(q), Doing = "proc", Stacks', CallsKept(hCurrentTask, Len(MyStack)),
           Len(stack'[hCurrentTask]) = Len(MyStack) - 1,
           habit' = habit, hCurrentTask' = hCurrentTask, tasks' = tasks, doomed' = doomed,
           lpSendMessageStack' = lpSendMessageStack, frame' = frame,
           ~(/\ MyStack[Len(MyStack)].ptr = lpSendMessageStack /\ MyStack[Len(MyStack)].msg = Top.msg
             /\ ForMe)
    PROVE  SendsOK(q)'
<1>1. PICK c, n : c = hCurrentTask /\ n = Len(MyStack)
  OBVIOUS
<1>2. /\ q \in Seq(Addr) /\ Len(q) \in Nat /\ \A i \in 1..Len(q) : q[i] \in Addr
  BY ListFacts
<1>3. /\ Stacks /\ StacksOK /\ c \in HTASK /\ n \in 1..MaxDepth /\ n \in Nat /\ MaxDepth \in Nat
      /\ stack[c][n].kind = "proc" /\ Len(stack[c]) = n /\ Len(stack'[c]) = n - 1
      /\ CallsKept(c, n) /\ stack[c] = MyStack
  BY <1>1, TopFacts
<1>4. \A i \in 1..Len(q) : ~Pending(q[i])
  BY NothingPending
<1>5. \A b \in Addr : Live(b)' <=> Live(b)
  <2>1. ASSUME NEW b \in Addr, b[1] = c, b[2] = n PROVE ~Live(b) /\ ~Live(b)'
    BY <1>3, <2>1 DEF Live
  <2> QED
    BY <1>3, <2>1, LiveKept
<1>6. LinksOK(q)'
  BY DEF Inv, SendsOK, LinksOK
<1>7. CallsListed(q)'
  BY <1>2, <1>5 DEF Inv, SendsOK, CallsListed
<1>8. MessagesOK(q)'
  <2>1. ASSUME NEW i \in 1..Len(q) PROVE MessageOK(q, i)'
    <3>1. MessageOK(q, i) /\ ~Pending(q[i])
      BY <1>4 DEF Inv, SendsOK, MessagesOK
    <3>2. ~Pending(q[i])'
      BY <3>1 DEF Pending
    <3> QED
      BY <3>1, <3>2 DEF MessageOK, CompletedOK, Running
  <2> QED
    BY <2>1 DEF MessagesOK
<1>9. \A t \in HTASK, i \in Nat : ProcAt(t, i)' =>
         /\ t # c \/ i # n
         /\ ProcAt(t, i) /\ SameAct(stack[t][i], stack'[t][i])
  <2>1. ~ProcAt(c, n)'
    BY <1>3 DEF ProcAt
  <2> QED
    BY <1>3, <2>1, ProcKept
<1>10. ProcsOK(q)'
  <2> SUFFICES ASSUME habit # "replies" PROVE ProcsOK(q)'
    BY DEF ProcsOK
  <2>1. /\ \A t \in HTASK, i \in Nat : ProcAt(t, i) => ProcOK(q, t, i)
        /\ \A t \in HTASK, i, j \in Nat :
              ProcAt(t, i) /\ ProcAt(t, j) /\ i # j => stack[t][i].ptr # stack[t][j].ptr
    BY DEF Inv, SendsOK, ProcsOK
  <2>2. ASSUME NEW t \in HTASK, NEW i \in Nat, ProcAt(t, i)' PROVE ProcOK(q, t, i)'
    <3>1. ProcOK(q, t, i) /\ SameAct(stack[t][i], stack'[t][i])
      BY <1>9, <2>1, <2>2
    <3> QED
      BY <3>1 DEF ProcOK, Answers, SameAct, Handled
  <2>3. ASSUME NEW t \in HTASK, NEW i \in Nat, NEW j \in Nat, ProcAt(t, i)', ProcAt(t, j)', i # j
        PROVE  stack'[t][i].ptr # stack'[t][j].ptr
    <3>1. stack[t][i].ptr # stack[t][j].ptr
      BY <1>9, <2>1, <2>3
    <3> QED
      BY <1>9, <2>3, <3>1 DEF SameAct
  <2> QED
    BY <2>2, <2>3 DEF ProcsOK
<1>11. HandlersOK(q)'
  <2> SUFFICES ASSUME ~Loops(habit), NEW k \in 1..Len(q), Handled(q[k])
               PROVE  \E t \in HTASK, i, j \in Nat : HandlerAt(q[k], t, i, j)'
    BY DEF HandlersOK, Handled
  <2>1. PICK t \in HTASK, i \in Nat, j \in Nat : HandlerAt(q[k], t, i, j)
    BY DEF Inv, SendsOK, HandlersOK
  <2>2. j # Len(stack[t])
    <3> SUFFICES ASSUME j = Len(stack[t]) PROVE FALSE
      OBVIOUS
    <3>0. t = c /\ j = n /\ i \in 1..n /\ Answers(stack[c][i], q[k]) /\ q[k] = lpSendMessageStack
          /\ frame[q[k]].to = c /\ \A l \in (i + 1)..n : stack[c][l].kind = "own"
      BY <1>1, <1>3, <2>1 DEF HandlerAt
    <3>1. i = n /\ Answers(stack[c][n], q[k]) /\ q[k] = lpSendMessageStack /\ frame[q[k]].to = c
      <4>1. n \notin (i + 1)..n
        BY <1>3, <3>0
      <4>2. i = n
        BY <1>3, <3>0, <4>1
      <4> QED
        BY <3>0, <4>2
    <3>2. lpSendMessageStack # NoFrame /\ Top = frame[q[k]]
      BY <1>2, <3>1, Constants DEF Top
    <3>3. ForMe
      BY <1>1, <3>1, <3>2 DEF ForMe
    <3> QED
      BY <1>1, <1>3, <3>1, <3>2, <3>3 DEF Answers
  <2>3. j \in 1..Len(stack[t]) /\ SendsFor(q[k], t, j + 1)
    BY <2>1, <2>2 DEF HandlerAt
  <2>4. t = c => n \notin i..(j + 1)
    <3>1. t = c => j + 1 # n
      BY <1>3, <2>3 DEF SendsFor
    <3> QED
      BY <1>3, <2>2, <2>3, <3>1
  <2>5. SameMessage(q[k]) /\ frame'[<<t, j + 1>>].prev = frame[<<t, j + 1>>].prev
    BY DEF SameMessage
  <2>6. HandlerAt(q[k], t, i, j)'
    BY <1>3, <2>1, <2>2, <2>4, <2>5, HandlerKept
  <2> QED
    BY <2>6
<1> QED
  BY <1>6, <1>7, <1>8, <1>10, <1>11 DEF SendsOK

(* ReplyMessage answers the last message; the window procedure that does may *)
(* be over.                                                                  *)
LEMMA ReplySends ==
    ASSUME NEW q, Inv(q), Doing # "sw", ForMe, Stacks', CallsKept(hCurrentTask, Len(MyStack)),
           habit' = habit, hCurrentTask' = Top.from, tasks' = tasks, doomed' = doomed,
           lpSendMessageStack' = lpSendMessageStack,
           Doing # "send", Len(MyStack) <= Len(stack'[hCurrentTask]) =>
                              stack'[hCurrentTask][Len(MyStack)].kind # "send",
           NEW r, frame' = [frame EXCEPT ![lpSendMessageStack].lResult = r,
                                         ![lpSendMessageStack].bSendCompleted = TRUE],
           r \in Ids \cup {0},
           \/ r = Top.id
           \/ Loops(habit) /\ r = 0 /\ hCurrentTask \in doomed,
           habit # "replies" =>
              \A t \in HTASK, i \in Nat : ProcAt(t, i)' =>
                 /\ ProcAt(t, i) /\ SameAct(stack[t][i], stack'[t][i])
                 /\ stack[t][i].ptr # lpSendMessageStack
    PROVE  SendsOK(q)' /\ frame' \in [Addr -> Frame]
<1>1. PICK c, n : c = hCurrentTask /\ n = Len(MyStack)
  OBVIOUS
<1>2. PICK a : a = lpSendMessageStack
  OBVIOUS
<1>3. /\ q \in Seq(Addr) /\ Len(q) \in Nat /\ \A i \in 1..Len(q) : q[i] \in Addr
      /\ 1 \in 1..Len(q) /\ a = q[1] /\ a \in Addr /\ Top = frame[a]
      /\ Handled(a) /\ frame[a].to = c /\ hCurrentTask' = a[1]
  BY <1>1, <1>2, ListFacts, MineIsHandled
<1>4. /\ Stacks /\ StacksOK /\ FramesOK /\ c \in HTASK /\ n \in 1..MaxDepth /\ n \in Nat
      /\ MaxDepth \in Nat /\ stack[c][n].kind = Doing /\ Len(stack[c]) = n /\ CallsKept(c, n)
  BY <1>1, TopFacts
<1>5. \A i \in 1..Len(q) : ~Pending(q[i])
  BY NothingPending
<1>6. /\ frame' \in [Addr -> Frame] /\ \A b \in Addr : b # a => frame'[b] = frame[b]
      /\ \A b \in Addr : SameSend(frame'[b], frame[b])
      /\ frame'[a].lResult = r /\ frame'[a].bSendCompleted
  <2>1. /\ frame' \in [Addr -> Frame] /\ \A b \in Addr : b # a => frame'[b] = frame[b]
        /\ SameSend(frame'[a], frame[a]) /\ frame'[a].lResult = r /\ frame'[a].bSendCompleted
    BY <1>2, <1>3, <1>4, FrameCompleted
  <2> QED
    BY <2>1 DEF SameSend
<1>7. \A b \in Addr : Live(b)' <=> Live(b)
  <2>1. ASSUME NEW b \in Addr, b[1] = c, b[2] = n PROVE ~Live(b) /\ ~Live(b)'
    BY <1>1, <1>4, <2>1 DEF Live
  <2> QED
    BY <1>4, <2>1, LiveKept
<1>8. LinksOK(q)'
  <2>1. LinksOK(q)
    BY DEF Inv, SendsOK
  <2>2. \A i \in 1..Len(q) : frame'[q[i]].prev = frame[q[i]].prev
    BY <1>3, <1>6 DEF SameSend
  <2> QED
    BY <2>1, <2>2 DEF LinksOK
<1>9. CallsListed(q)'
  BY <1>3, <1>7 DEF Inv, SendsOK, CallsListed
<1>10. MessagesOK(q)'
  <2>1. ASSUME NEW i \in 1..Len(q) PROVE MessageOK(q, i)'
    <3>1. MessageOK(q, i) /\ q[i] \in Addr /\ ~Pending(q[i]) /\ SameSend(frame'[q[i]], frame[q[i]])
      BY <1>3, <1>5, <1>6 DEF Inv, SendsOK, MessagesOK
    <3>2. CASE i = 1
      <4>1. CompletedOK(q, i)'
        <5>1. hCurrentTask' = q[i][1]
          BY <1>3, <3>2
        <5>2. \/ frame'[q[i]].lResult = frame'[q[i]].id
              \/ Loops(habit) /\ frame'[q[i]].lResult = 0 /\ frame'[q[i]].to \notin Running
          <6>1. /\ q[i] = a /\ frame'[a].id = frame[a].id /\ frame'[a].to = c
                /\ frame'[a].lResult = r /\ Top.id = frame[a].id
            BY <1>3, <1>6, <3>2 DEF SameSend
          <6> QED
            BY <1>1, <6>1 DEF Running
        <5> QED
          BY <3>2, <5>1, <5>2 DEF CompletedOK, Running
      <4>2. ~Pending(q[i])'
        BY <1>3, <1>6, <3>2 DEF Pending
      <4> QED
        BY <3>1, <4>1, <4>2 DEF MessageOK, SameSend
    <3>3. CASE i # 1
      <4>1. q[i] # a
        BY <1>3, <3>3 DEF Inv, SendsOK, LinksOK
      <4>2. frame'[q[i]] = frame[q[i]]
        BY <1>6, <3>1, <4>1
      <4>3. ~Pending(q[i])'
        BY <3>1, <4>2 DEF Pending
      <4>4. frame'[q[i]].bSendCompleted => CompletedOK(q, i)'
        BY <3>1, <3>3, <4>2 DEF MessageOK, CompletedOK, Running
      <4> QED
        BY <3>1, <4>2, <4>3, <4>4 DEF MessageOK
    <3> QED
      BY <3>2, <3>3
  <2> QED
    BY <2>1 DEF MessagesOK
<1>11. ProcsOK(q)'
  <2> SUFFICES ASSUME habit # "replies" PROVE ProcsOK(q)'
    BY DEF ProcsOK
  <2>1. /\ \A t \in HTASK, i \in Nat : ProcAt(t, i) => ProcOK(q, t, i)
        /\ \A t \in HTASK, i, j \in Nat :
              ProcAt(t, i) /\ ProcAt(t, j) /\ i # j => stack[t][i].ptr # stack[t][j].ptr
    BY DEF Inv, SendsOK, ProcsOK
  <2>2. ASSUME NEW t \in HTASK, NEW i \in Nat, ProcAt(t, i)' PROVE ProcOK(q, t, i)'
    <3>1. ProcAt(t, i) /\ SameAct(stack[t][i], stack'[t][i]) /\ ProcOK(q, t, i)
          /\ stack[t][i].ptr # a
      BY <1>2, <2>1, <2>2
    <3>2. PICK k \in 1..Len(q) :
             /\ Answers(stack[t][i], q[k]) /\ frame[q[k]].to = t /\ Handled(q[k])
             /\ \A l \in 1..Len(q) : q[l][1] = t /\ q[l][2] < i => k < l
      BY <3>1 DEF ProcOK
    <3>3. q[k] # a /\ q[k] \in Addr /\ frame'[q[k]] = frame[q[k]]
      BY <1>3, <1>6, <3>1, <3>2 DEF Answers
    <3>4. Answers(stack[t][i], q[k])' /\ Handled(q[k])' /\ frame'[q[k]].to = t
      BY <3>1, <3>2, <3>3 DEF Answers, SameAct, Handled
    <3> QED
      BY <3>2, <3>4 DEF ProcOK
  <2>3. ASSUME NEW t \in HTASK, NEW i \in Nat, NEW j \in Nat, ProcAt(t, i)', ProcAt(t, j)', i # j
        PROVE  stack'[t][i].ptr # stack'[t][j].ptr
    <3>1. SameAct(stack[t][i], stack'[t][i]) /\ SameAct(stack[t][j], stack'[t][j])
          /\ stack[t][i].ptr # stack[t][j].ptr
      BY <2>1, <2>3
    <3> QED
      BY <3>1 DEF SameAct
  <2> QED
    BY <2>2, <2>3 DEF ProcsOK
<1>12. HandlersOK(q)'
  <2> SUFFICES ASSUME ~Loops(habit), NEW k \in 1..Len(q), Handled(q[k])'
               PROVE  \E t \in HTASK, i, j \in Nat : HandlerAt(q[k], t, i, j)'
    BY DEF HandlersOK
  <2>1. q[k] # a
    BY <1>6 DEF Handled
  <2>2. frame'[q[k]] = frame[q[k]] /\ Handled(q[k])
    BY <1>3, <1>6, <2>1 DEF Handled
  <2>3. PICK t \in HTASK, i \in Nat, j \in Nat : HandlerAt(q[k], t, i, j)
    BY <2>2 DEF Inv, SendsOK, HandlersOK
  <2>4. j # Len(stack[t]) /\ j \in 1..Len(stack[t]) /\ SendsFor(q[k], t, j + 1)
    BY <1>2, <2>1, <2>3 DEF HandlerAt
  <2>5. t = c => n \notin i..(j + 1)
    <3>1. t = c => j + 1 # n
      BY <1>1, <1>4, <2>4 DEF SendsFor
    <3> QED
      BY <1>4, <2>4, <3>1
  <2>6. <<t, j + 1>> \in Addr
    BY <1>4, <2>4, SenderAddr
  <2>7. SameMessage(q[k]) /\ frame'[<<t, j + 1>>].prev = frame[<<t, j + 1>>].prev
    BY <1>6, <2>2, <2>6 DEF SameMessage, SameSend
  <2>8. HandlerAt(q[k], t, i, j)'
    <3>1. PICK b : b = q[k]
      OBVIOUS
    <3>2. /\ HandlerAt(b, t, i, j) /\ SameMessage(b) /\ Stacks /\ CallsKept(c, n)
          /\ j # Len(stack[t]) /\ (t # c \/ n \notin i..(j + 1))
          /\ frame'[<<t, j + 1>>].prev = frame[<<t, j + 1>>].prev
      BY <1>4, <2>3, <2>4, <2>5, <2>7, <3>1
    <3>3. HandlerAt(b, t, i, j)'
      BY <3>2, HandlerKept
    <3> QED
      BY <3>1, <3>3
  <2> QED
    BY <2>8
<1> QED
  BY <1>6, <1>8, <1>9, <1>10, <1>11, <1>12 DEF SendsOK

(* SendMessage puts its frame first.                                         *)
LEMMA SentSends ==
    ASSUME NEW q, Inv(q), Doing \in {"app", "proc", "own"}, NEW t, t \notin doomed, t # hCurrentTask,
           Stacks', Doing' = "sw", Len(MyStack) + 1 \in 1..MaxDepth,
           CallsKept(hCurrentTask, Len(MyStack) + 1),
           Len(MyStack) + 1 <= Len(stack'[hCurrentTask]),
           stack'[hCurrentTask][Len(MyStack) + 1].kind = "send",
           habit' = habit, hCurrentTask' = t, tasks' = tasks, doomed' = doomed,
           lpSendMessageStack' = <<hCurrentTask, Len(MyStack) + 1>>, bInSendMessage' = TRUE,
           NEW f \in Frame, frame' = [frame EXCEPT ![<<hCurrentTask, Len(MyStack) + 1>>] = f],
           f.prev = lpSendMessageStack, f.from = hCurrentTask, f.to = t,
           ~f.bSendReceived, ~f.bSendCompleted, f.cInSendMessage = bInSendMessage
    PROVE  (\E v : SendsOK(v)') /\ frame' \in [Addr -> Frame]
<1>1. PICK c, n : c = hCurrentTask /\ n = Len(MyStack)
  OBVIOUS
<1>2. PICK a : a = <<c, n + 1>>
  OBVIOUS
<1>3. q \in Seq(Addr) /\ Len(q) \in Nat /\ \A i \in 1..Len(q) : q[i] \in Addr
  BY ListFacts
<1>4. /\ Stacks /\ StacksOK /\ FramesOK /\ c \in HTASK /\ n \in 1..MaxDepth /\ n \in Nat
      /\ MaxDepth \in Nat /\ stack[c][n].kind = Doing /\ Len(stack[c]) = n
      /\ n + 1 \in Nat /\ CallsKept(c, n + 1) /\ n + 1 <= Len(stack'[c])
      /\ stack'[c][n + 1].kind = "send"
  BY <1>1, TopFacts
<1>5. a \in Addr /\ a[1] = c /\ a[2] = n + 1
  BY <1>1, <1>2, <1>4, Constants
<1>6. PICK v : v = <<a>> \o q
  OBVIOUS
<1>7. v \in Seq(Addr) /\ HasFirst(v, a, q)
  BY <1>3, <1>5, <1>6, PushedSeq
<1>8. /\ Len(v) = Len(q) + 1 /\ Len(v) \in Nat /\ v[1] = a /\ 1 \in 1..Len(v)
      /\ \A i \in 1..Len(v) : i # 1 => i - 1 \in 1..Len(q) /\ v[i] = q[i - 1]
      /\ \A i \in 1..Len(q) : i + 1 \in 1..Len(v) /\ i + 1 # 1 /\ v[i + 1] = q[i]
  BY <1>3, <1>7 DEF HasFirst
<1>9. \A i \in 1..Len(q) : ~Pending(q[i])
  BY NothingPending
<1>10. /\ ~Live(a) /\ \A i \in 1..Len(q) : Live(q[i]) /\ q[i] # a
  <2>1. ~Live(a)
    BY <1>4, <1>5 DEF Live
  <2> QED
    BY <2>1 DEF Inv, SendsOK, CallsListed
<1>11. /\ frame' \in [Addr -> Frame] /\ frame'[a] = f
       /\ \A b \in Addr : b # a => frame'[b] = frame[b]
       /\ \A i \in 1..Len(q) : frame'[q[i]] = frame[q[i]]
  BY <1>1, <1>2, <1>3, <1>4, <1>5, <1>10 DEF FramesOK
<1>12. /\ Live(a)' /\ \A b \in Addr : b # a => (Live(b)' <=> Live(b))
  <2>1. Live(a)'
    BY <1>4, <1>5 DEF Live
  <2>2. \A b \in Addr : b # a => b[1] # c \/ b[2] # n + 1
    BY <1>2, Constants
  <2> QED
    BY <1>4, <2>1, <2>2, LiveKept
<1>0. /\ \A i, j \in 1..Len(q) : q[i] = q[j] => i = j
      /\ lpSendMessageStack = IF Len(q) = 0 THEN NoFrame ELSE q[1]
      /\ \A i \in 1..Len(q) : frame[q[i]].prev = IF i = Len(q) THEN NoFrame ELSE q[i + 1]
  BY DEF Inv, SendsOK, LinksOK
<1>13. LinksOK(v)'
  <2>1. \A i, j \in 1..Len(v) : v[i] = v[j] => i = j
    <3>1. ASSUME NEW i \in 1..Len(v), NEW j \in 1..Len(v), v[i] = v[j], i # 1, j # 1 PROVE i = j
      <4>1. i - 1 \in 1..Len(q) /\ j - 1 \in 1..Len(q) /\ q[i - 1] = q[j - 1]
        BY <1>8, <3>1
      <4>2. i - 1 = j - 1
        BY <1>0, <4>1
      <4> QED
        BY <4>2
    <3> QED
      BY <1>8, <1>10, <3>1
  <2>2. lpSendMessageStack' = IF Len(v) = 0 THEN NoFrame ELSE v[1]
    BY <1>1, <1>2, <1>3, <1>8
  <2>3. ASSUME NEW i \in 1..Len(v)
        PROVE  frame'[v[i]].prev = IF i = Len(v) THEN NoFrame ELSE v[i + 1]
    <3>1. CASE i = 1
      <4>1. frame'[v[i]].prev = IF Len(q) = 0 THEN NoFrame ELSE q[1]
        BY <1>0, <1>8, <1>11, <3>1
      <4>2. i = Len(v) <=> Len(q) = 0
        BY <1>3, <1>8, <3>1
      <4>3. Len(q) # 0 => v[i + 1] = q[1]
        BY <1>3, <1>8, <3>1
      <4> QED
        BY <4>1, <4>2, <4>3
    <3>2. CASE i # 1
      <4>1. PICK j \in 1..Len(q) : j = i - 1 /\ v[i] = q[j]
        BY <1>8, <3>2
      <4>2. frame'[v[i]].prev = IF j = Len(q) THEN NoFrame ELSE q[j + 1]
        <5>1. frame[q[j]].prev = IF j = Len(q) THEN NoFrame ELSE q[j + 1]
          BY <1>0
        <5>2. frame'[v[i]] = frame[q[j]]
          BY <1>11, <4>1
        <5> QED
          BY <5>1, <5>2
      <4>3. (i = Len(v) <=> j = Len(q)) /\ (j # Len(q) => v[i + 1] = q[j + 1])
        BY <1>3, <1>8, <4>1
      <4> QED
        BY <4>2, <4>3
    <3> QED
      BY <3>1, <3>2
  <2> QED
    BY <1>7, <2>1, <2>2, <2>3 DEF LinksOK
<1>14. CallsListed(v)'
  <2>1. \A i \in 1..Len(v) : Live(v[i])'
    BY <1>3, <1>8, <1>10, <1>12
  <2>2. ASSUME NEW b \in Addr, Live(b)' PROVE \E i \in 1..Len(v) : v[i] = b
    <3>1. CASE b = a
      BY <1>8, <3>1
    <3>2. CASE b # a
      <4>1. PICK i \in 1..Len(q) : q[i] = b
        BY <1>12, <2>2, <3>2 DEF Inv, SendsOK, CallsListed
      <4> QED
        BY <1>8, <4>1
    <3> QED
      BY <3>1, <3>2
  <2>3. ASSUME NEW i \in 1..Len(v), NEW j \in 1..Len(v), i < j, v[i][1] = v[j][1]
        PROVE  v[i][2] > v[j][2]
    <3>1. j # 1 /\ j - 1 \in 1..Len(q) /\ v[j] = q[j - 1]
      BY <1>8, <2>3
    <3>2. CASE i = 1
      <4>1. Live(v[j]) /\ v[j][1] = c /\ v[j] \in Addr
        BY <1>3, <1>5, <1>8, <1>10, <2>3, <3>1, <3>2
      <4>2. v[j][2] <= n /\ v[j][2] \in Nat
        BY <1>4, <4>1, Constants DEF Live
      <4> QED
        BY <1>4, <1>5, <1>8, <3>2, <4>2
    <3>3. CASE i # 1
      <4>1. i - 1 \in 1..Len(q) /\ v[i] = q[i - 1] /\ i - 1 < j - 1
        BY <1>8, <2>3, <3>3
      <4>2. \A k, l \in 1..Len(q) : k < l /\ q[k][1] = q[l][1] => q[k][2] > q[l][2]
        BY DEF Inv, SendsOK, CallsListed
      <4> QED
        BY <2>3, <3>1, <4>1, <4>2
    <3> QED
      BY <3>2, <3>3
  <2> QED
    BY <2>1, <2>2, <2>3 DEF CallsListed
<1>15. MessagesOK(v)'
  <2>1. ASSUME NEW i \in 1..Len(v) PROVE MessageOK(v, i)'
    <3>1. CASE i = 1
      <4>1. PendingOK(v, i)'
        BY <1>8, <1>11, <3>1 DEF PendingOK
      <4> QED
        BY <1>1, <1>5, <1>8, <1>11, <3>1, <4>1 DEF MessageOK
    <3>2. CASE i # 1
      <4>1. PICK j \in 1..Len(q) : j = i - 1 /\ v[i] = q[j]
        BY <1>8, <3>2
      <4>2. MessageOK(q, j) /\ ~Pending(q[j]) /\ frame'[q[j]] = frame[q[j]]
        BY <1>9, <1>11 DEF Inv, SendsOK, MessagesOK
      <4>3. ~Pending(v[i])'
        BY <4>1, <4>2 DEF Pending
      <4>4. ASSUME frame[q[j]].bSendCompleted PROVE CompletedOK(v, i)'
        <5>1. CompletedOK(q, j)
          BY <4>2, <4>4 DEF MessageOK
        <5>2. ~Loops(habit) /\ v[i - 1][1] = v[i][1]
          <6>1. CASE j = 1
            <7>1. /\ hCurrentTask = q[1][1] /\ Doing # "app"
                  /\ Doing \in {"proc", "own"} => ~Loops(habit)
              BY <1>3, <4>4, <6>1, CompletedTop
            <7>2. i - 1 = 1
              BY <4>1, <6>1
            <7> QED
              BY <1>1, <1>5, <1>8, <4>1, <6>1, <7>1, <7>2
          <6>2. CASE j # 1
            <7>1. ~Loops(habit) /\ q[j - 1][1] = q[j][1]
              BY <5>1, <6>2 DEF CompletedOK
            <7>2. i - 1 # 1 /\ i - 1 \in 1..Len(v) /\ i - 1 - 1 = j - 1
              BY <1>8, <4>1, <6>2
            <7>3. v[i - 1] = q[j - 1]
              BY <1>8, <7>2
            <7> QED
              BY <4>1, <7>1, <7>3
          <6> QED
            BY <6>1, <6>2
        <5>3. \/ frame[q[j]].lResult = frame[q[j]].id
              \/ Loops(habit) /\ frame[q[j]].lResult = 0 /\ frame[q[j]].to \notin Running
          BY <5>1 DEF CompletedOK
        <5> QED
          BY <3>2, <4>1, <4>2, <5>2, <5>3 DEF CompletedOK, Running
      <4> QED
        BY <4>1, <4>2, <4>3, <4>4 DEF MessageOK
    <3> QED
      BY <3>1, <3>2
  <2> QED
    BY <2>1 DEF MessagesOK
<1>16. \A u \in HTASK, i \in Nat : ProcAt(u, i)' =>
         ProcAt(u, i) /\ SameAct(stack[u][i], stack'[u][i]) /\ (u = c => i <= n)
  <2>1. ASSUME NEW u \in HTASK, NEW i \in Nat, ProcAt(u, i)' PROVE u # c \/ i # n + 1
    BY <1>4, <2>1 DEF ProcAt
  <2>2. ASSUME NEW u \in HTASK, NEW i \in Nat, ProcAt(u, i)'
        PROVE  ProcAt(u, i) /\ SameAct(stack[u][i], stack'[u][i])
    BY <1>4, <2>1, <2>2, ProcKept
  <2>3. ASSUME NEW u \in HTASK, NEW i \in Nat, ProcAt(u, i), u = c PROVE i <= n
    BY <1>4, <2>3 DEF ProcAt
  <2> QED
    BY <2>2, <2>3
<1>17. ProcsOK(v)'
  <2> SUFFICES ASSUME habit # "replies" PROVE ProcsOK(v)'
    BY DEF ProcsOK
  <2>1. /\ \A u \in HTASK, i \in Nat : ProcAt(u, i) => ProcOK(q, u, i)
        /\ \A u \in HTASK, i, j \in Nat :
              ProcAt(u, i) /\ ProcAt(u, j) /\ i # j => stack[u][i].ptr # stack[u][j].ptr
    BY DEF Inv, SendsOK, ProcsOK
  <2>2. ASSUME NEW u \in HTASK, NEW i \in Nat, ProcAt(u, i)' PROVE ProcOK(v, u, i)'
    <3>1. ProcOK(q, u, i) /\ SameAct(stack[u][i], stack'[u][i]) /\ (u = c => i <= n)
      BY <1>16, <2>1, <2>2
    <3>2. PICK k \in 1..Len(q) :
             /\ Answers(stack[u][i], q[k]) /\ frame[q[k]].to = u /\ Handled(q[k])
             /\ \A l \in 1..Len(q) : q[l][1] = u /\ q[l][2] < i => k < l
      BY <3>1 DEF ProcOK
    <3>3. PICK j \in 1..Len(v) : j = k + 1 /\ v[j] = q[k] /\ frame'[q[k]] = frame[q[k]]
      BY <1>8, <1>11
    <3>4. Answers(stack[u][i], v[j])' /\ Handled(v[j])' /\ frame'[v[j]].to = u
      BY <3>1, <3>2, <3>3 DEF Answers, SameAct, Handled
    <3>5. ASSUME NEW l \in 1..Len(v), v[l][1] = u, v[l][2] < i PROVE j < l
      <4>1. l # 1
        <5> SUFFICES ASSUME l = 1 PROVE FALSE
          OBVIOUS
        <5>1. u = c /\ n + 1 < i
          BY <1>5, <1>8, <3>5
        <5> QED
          BY <1>4, <3>1, <5>1
      <4>2. l - 1 \in 1..Len(q) /\ v[l] = q[l - 1]
        BY <1>8, <4>1
      <4>3. k < l - 1
        BY <3>2, <3>5, <4>2
      <4> QED
        BY <3>3, <4>3
    <3> QED
      BY <3>4, <3>5 DEF ProcOK
  <2>3. ASSUME NEW u \in HTASK, NEW i \in Nat, NEW j \in Nat, ProcAt(u, i)', ProcAt(u, j)', i # j
        PROVE  stack'[u][i].ptr # stack'[u][j].ptr
    <3>1. SameAct(stack[u][i], stack'[u][i]) /\ SameAct(stack[u][j], stack'[u][j])
          /\ stack[u][i].ptr # stack[u][j].ptr
      BY <1>16, <2>1, <2>3
    <3> QED
      BY <3>1 DEF SameAct
  <2> QED
    BY <2>2, <2>3 DEF ProcsOK
<1>18. HandlersOK(v)'
  <2> SUFFICES ASSUME ~Loops(habit), NEW k \in 1..Len(v), Handled(v[k])'
               PROVE  \E u \in HTASK, i, j \in Nat : HandlerAt(v[k], u, i, j)'
    BY DEF HandlersOK
  <2>1. k # 1
    BY <1>8, <1>11 DEF Handled
  <2>2. PICK b \in Addr : /\ b = v[k] /\ b # a /\ frame'[b] = frame[b]
                          /\ \E l \in 1..Len(q) : q[l] = b
    BY <1>3, <1>8, <1>10, <1>11, <2>1
  <2>3. Handled(b)
    BY <2>2 DEF Handled
  <2>4. PICK u \in HTASK, i \in Nat, j \in Nat : HandlerAt(b, u, i, j)
    BY <2>2, <2>3 DEF Inv, SendsOK, HandlersOK
  <2>5. /\ i \in 1..Len(stack[u]) /\ Answers(stack[u][i], b) /\ frame[b].to = u
        /\ j \in i..Len(stack[u]) /\ \A l \in (i + 1)..j : stack[u][l].kind = "own"
    BY <2>4 DEF HandlerAt
  <2>6. CASE j = Len(stack[u])
    <3>1. u = c /\ j = n /\ b = lpSendMessageStack
      BY <1>1, <1>4, <2>4, <2>6 DEF HandlerAt
    <3>2. ProcAt(u, i) /\ SameMessage(b) /\ i # n + 1
      BY <1>4, <2>2, <2>5, <3>1 DEF ProcAt, SameMessage, Answers
    <3>3. Answers(stack[u][i], b)'
      BY <1>4, <2>5, <3>2, AnswersKept
    <3>4. SendsFor(b, u, j + 1)'
      BY <1>2, <1>4, <1>11, <3>1 DEF SendsFor
    <3>5. i \in 1..Len(stack'[u]) /\ j \in i..Len(stack'[u]) /\ j # Len(stack'[u])
      BY <1>4, <2>5, <3>1 DEF Stacks
    <3>6. ASSUME NEW l \in (i + 1)..j PROVE stack'[u][l].kind = "own"
      <4>1. stack[u][l].kind = "own" /\ l \in 1..n /\ l \in Nat /\ l # n + 1
        BY <1>4, <2>5, <3>1, <3>6
      <4>2. CallAt(stack[u], l) /\ CallKept(stack[u], stack'[u], l)
        BY <1>4, <3>1, <4>1 DEF CallAt, CallsKept
      <4> QED
        BY <4>1, <4>2 DEF CallKept, SameAct
    <3>7. frame'[b].to = u
      BY <2>2, <2>5
    <3>8. HandlerAt(b, u, i, j)'
      BY <3>3, <3>4, <3>5, <3>6, <3>7 DEF HandlerAt
    <3> QED
      BY <2>2, <3>8
  <2>7. CASE j # Len(stack[u])
    <3>1. j + 1 \in 1..Len(stack[u]) /\ <<u, j + 1>> \in Addr
      <4>1. j \in 1..Len(stack[u])
        BY <2>5
      <4> QED
        BY <1>4, <2>7, <4>1, SenderAddr
    <3>2. u = c => n + 1 \notin i..(j + 1)
      BY <1>4, <3>1
    <3>3. <<u, j + 1>> # a
      <4>1. u = c => j + 1 # n + 1
        BY <1>4, <3>1
      <4> QED
        BY <1>2, <4>1
    <3>4. SameMessage(b) /\ frame'[<<u, j + 1>>].prev = frame[<<u, j + 1>>].prev
      BY <1>11, <2>2, <3>1, <3>3 DEF SameMessage
    <3>5. HandlerAt(b, u, i, j)'
      BY <1>4, <2>4, <2>7, <3>2, <3>4, HandlerKept
    <3> QED
      BY <2>2, <3>5
  <2> QED
    BY <2>6, <2>7
<1>19. SendsOK(v)'
  BY <1>13, <1>14, <1>15, <1>17, <1>18 DEF SendsOK
<1> QED
  BY <1>11, <1>19

(* SendMessage returns: its frame was the first.                             *)
LEMMA ReturnSends ==
    ASSUME NEW q, Inv(q), Doing = "send", frame[<<hCurrentTask, Len(MyStack)>>].bSendCompleted,
           Stacks', CallsKept(hCurrentTask, Len(MyStack)),
           Len(stack'[hCurrentTask]) = Len(MyStack) - 1,
           habit' = habit, hCurrentTask' = hCurrentTask, tasks' = tasks, doomed' = doomed,
           lpSendMessageStack' = frame[<<hCurrentTask, Len(MyStack)>>].prev,
           bInSendMessage' = frame[<<hCurrentTask, Len(MyStack)>>].cInSendMessage,
           frame' = [frame EXCEPT ![<<hCurrentTask, Len(MyStack)>>] = Nowhere]
    PROVE  (\E v : SendsOK(v)') /\ frame' \in [Addr -> Frame]
<1>1. PICK c, n : c = hCurrentTask /\ n = Len(MyStack)
  OBVIOUS
<1>2. PICK a : a = <<c, n>>
  OBVIOUS
<1>3. /\ q \in Seq(Addr) /\ Len(q) \in Nat \ {0} /\ \A i \in 1..Len(q) : q[i] \in Addr
      /\ 1 \in 1..Len(q) /\ q[1] = a /\ a \in Addr /\ frame[a].bSendCompleted
  <2>1. Len(q) # 0 /\ q[1] = a /\ frame[a].bSendCompleted
    BY <1>1, <1>2, ReturnsInTurn
  <2>2. q \in Seq(Addr) /\ Len(q) \in Nat /\ \A i \in 1..Len(q) : q[i] \in Addr
    BY ListFacts
  <2>3. 1 \in 1..Len(q)
    BY <2>1, <2>2
  <2> QED
    BY <2>1, <2>2, <2>3
<1>4. /\ Stacks /\ StacksOK /\ FramesOK /\ c \in HTASK /\ n \in 1..MaxDepth /\ n \in Nat
      /\ MaxDepth \in Nat /\ stack[c][n].kind = "send" /\ Len(stack[c]) = n
      /\ Len(stack'[c]) = n - 1 /\ CallsKept(c, n) /\ a[1] = c /\ a[2] = n
  BY <1>1, <1>2, TopFacts
<1>5. PICK v : v = [i \in 1..(Len(q) - 1) |-> q[i + 1]]
  OBVIOUS
<1>6. v \in Seq(Addr) /\ Len(v) = Len(q) - 1 /\ \A i \in 1..Len(v) : v[i] = q[i + 1]
  <2>1. Len(q) - 1 \in Nat /\ \A i \in 1..(Len(q) - 1) : i + 1 \in 1..Len(q)
    BY <1>3
  <2>2. v \in [1..(Len(q) - 1) -> Addr]
    BY <1>3, <1>5, <2>1
  <2>3. v \in Seq(Addr) /\ Len(v) = Len(q) - 1
    BY <2>1, <2>2, FcnIsSeq
  <2> QED
    BY <1>5, <2>3
<1>7. /\ Len(v) \in Nat
      /\ \A i \in 1..Len(v) : v[i] = q[i + 1] /\ i + 1 \in 1..Len(q) /\ i + 1 # 1
      /\ \A j \in 1..Len(q) : j # 1 => j - 1 \in 1..Len(v) /\ v[j - 1] = q[j]
      /\ Len(v) # 0 => v[Len(v)] = q[Len(q)]
  BY <1>3, <1>6
<1>8. /\ \A i, j \in 1..Len(q) : q[i] = q[j] => i = j
      /\ \A i \in 1..Len(q) : frame[q[i]].prev = IF i = Len(q) THEN NoFrame ELSE q[i + 1]
  BY DEF Inv, SendsOK, LinksOK
<1>9. \A i \in 1..Len(q) : ~Pending(q[i])
  BY NothingPending
<1>10. /\ frame' \in [Addr -> Frame] /\ \A b \in Addr : b # a => frame'[b] = frame[b]
  <2>1. Nowhere \in Frame
    BY Constants DEF Nowhere, Frame
  <2> QED
    BY <1>1, <1>2, <1>4, <2>1 DEF FramesOK
<1>11. \A i \in 1..Len(v) : v[i] # a /\ v[i] \in Addr /\ frame'[v[i]] = frame[v[i]]
  <2>1. \A i \in 1..Len(v) : v[i] # a /\ v[i] \in Addr
    BY <1>3, <1>7, <1>8
  <2> QED
    BY <1>10, <2>1
<1>12. /\ ~Live(a)' /\ \A b \in Addr : b # a => (Live(b)' <=> Live(b))
  <2>1. ~Live(a)'
    BY <1>4 DEF Live
  <2>2. \A b \in Addr : b # a => b[1] # c \/ b[2] # n
    BY <1>2, Constants
  <2> QED
    BY <1>4, <2>2, <2>1, LiveKept
<1>13. LinksOK(v)'
  <2>1. \A i, j \in 1..Len(v) : v[i] = v[j] => i = j
    <3>1. ASSUME NEW i \in 1..Len(v), NEW j \in 1..Len(v), v[i] = v[j] PROVE i = j
      <4>1. i + 1 = j + 1
        BY <1>7, <1>8, <3>1
      <4> QED
        BY <4>1
    <3> QED
      BY <3>1
  <2>2. lpSendMessageStack' = IF Len(v) = 0 THEN NoFrame ELSE v[1]
    <3>1. lpSendMessageStack' = IF 1 = Len(q) THEN NoFrame ELSE q[2]
      <4>1. frame[q[1]].prev = IF 1 = Len(q) THEN NoFrame ELSE q[1 + 1]
        BY <1>3, <1>8
      <4> QED
        BY <1>1, <1>2, <1>3, <4>1
    <3>2. (1 = Len(q) <=> Len(v) = 0) /\ (Len(v) # 0 => v[1] = q[2])
      BY <1>3, <1>6
    <3> QED
      BY <3>1, <3>2
  <2>3. ASSUME NEW i \in 1..Len(v)
        PROVE  frame'[v[i]].prev = IF i = Len(v) THEN NoFrame ELSE v[i + 1]
    <3>1. PICK j \in 1..Len(q) : j = i + 1 /\ v[i] = q[j]
      BY <1>7
    <3>2. frame[q[j]].prev = IF j = Len(q) THEN NoFrame ELSE q[j + 1]
      BY <1>8
    <3>3. (i = Len(v) <=> j = Len(q)) /\ (i # Len(v) => i + 1 \in 1..Len(v))
      BY <1>3, <1>6, <3>1
    <3>4. i # Len(v) => v[i + 1] = q[j + 1]
      BY <1>7, <3>1, <3>3
    <3> QED
      BY <1>11, <3>1, <3>2, <3>3, <3>4
  <2> QED
    BY <1>6, <2>1, <2>2, <2>3 DEF LinksOK
<1>14. CallsListed(v)'
  <2>0. /\ \A i \in 1..Len(q) : Live(q[i])
        /\ \A b \in Addr : Live(b) => \E i \in 1..Len(q) : q[i] = b
        /\ \A i, j \in 1..Len(q) : i < j /\ q[i][1] = q[j][1] => q[i][2] > q[j][2]
    BY DEF Inv, SendsOK, CallsListed
  <2>1. \A i \in 1..Len(v) : Live(v[i])'
    BY <1>7, <1>11, <1>12, <2>0
  <2>2. ASSUME NEW b \in Addr, Live(b)' PROVE \E i \in 1..Len(v) : v[i] = b
    <3>1. b # a
      BY <1>12, <2>2
    <3>2. PICK i \in 1..Len(q) : q[i] = b
      BY <1>12, <2>0, <2>2, <3>1
    <3> QED
      BY <1>3, <1>7, <3>1, <3>2
  <2>3. ASSUME NEW i \in 1..Len(v), NEW j \in 1..Len(v), i < j, v[i][1] = v[j][1]
        PROVE  v[i][2] > v[j][2]
    <3>1. i + 1 < j + 1 /\ v[i] = q[i + 1] /\ v[j] = q[j + 1] /\ i + 1 \in 1..Len(q)
          /\ j + 1 \in 1..Len(q)
      BY <1>7, <2>3
    <3> QED
      BY <2>0, <2>3, <3>1
  <2> QED
    BY <2>1, <2>2, <2>3 DEF CallsListed
<1>15. MessagesOK(v)'
  <2>1. ASSUME NEW i \in 1..Len(v) PROVE MessageOK(v, i)'
    <3>1. PICK j \in 1..Len(q) : j = i + 1 /\ v[i] = q[j] /\ j # 1 /\ i \in 1..Len(q)
      BY <1>3, <1>6, <1>7
    <3>2. MessageOK(q, j) /\ ~Pending(q[j]) /\ frame'[q[j]] = frame[q[j]]
      BY <1>9, <1>11, <3>1 DEF Inv, SendsOK, MessagesOK
    <3>3. ~Pending(v[i])'
      BY <3>1, <3>2 DEF Pending
    <3>4. ASSUME frame[q[j]].bSendCompleted PROVE CompletedOK(v, i)'
      <4>1. CompletedOK(q, j)
        BY <3>2, <3>4 DEF MessageOK
      <4>2. j - 1 = i
        BY <3>1
      <4>3. ~Loops(habit) /\ q[i][1] = q[j][1]
        BY <3>1, <4>1, <4>2 DEF CompletedOK
      <4>4. IF i = 1 THEN hCurrentTask = v[i][1] ELSE v[i - 1][1] = v[i][1]
        <5>1. CASE i = 1
          BY <1>1, <1>3, <1>4, <3>1, <4>3, <5>1
        <5>2. CASE i # 1
          <6>1. v[i - 1] = q[i]
            BY <1>7, <3>1, <5>2
          <6> QED
            BY <3>1, <4>3, <5>2, <6>1
        <5> QED
          BY <5>1, <5>2
      <4> QED
        BY <3>1, <3>2, <4>1, <4>3, <4>4 DEF CompletedOK, Running
    <3> QED
      BY <3>1, <3>2, <3>3, <3>4 DEF MessageOK
  <2> QED
    BY <2>1 DEF MessagesOK
<1>16. \A u \in HTASK, i \in Nat : ProcAt(u, i)' =>
         ProcAt(u, i) /\ SameAct(stack[u][i], stack'[u][i])
  <2>1. ~ProcAt(c, n)'
    BY <1>4 DEF ProcAt
  <2> QED
    BY <1>4, <2>1, ProcKept
<1>17. ProcsOK(v)'
  <2> SUFFICES ASSUME habit # "replies" PROVE ProcsOK(v)'
    BY DEF ProcsOK
  <2>1. /\ \A u \in HTASK, i \in Nat : ProcAt(u, i) => ProcOK(q, u, i)
        /\ \A u \in HTASK, i, j \in Nat :
              ProcAt(u, i) /\ ProcAt(u, j) /\ i # j => stack[u][i].ptr # stack[u][j].ptr
    BY DEF Inv, SendsOK, ProcsOK
  <2>2. ASSUME NEW u \in HTASK, NEW i \in Nat, ProcAt(u, i)' PROVE ProcOK(v, u, i)'
    <3>1. ProcOK(q, u, i) /\ SameAct(stack[u][i], stack'[u][i])
      BY <1>16, <2>1, <2>2
    <3>2. PICK k \in 1..Len(q) :
             /\ Answers(stack[u][i], q[k]) /\ frame[q[k]].to = u /\ Handled(q[k])
             /\ \A l \in 1..Len(q) : q[l][1] = u /\ q[l][2] < i => k < l
      BY <3>1 DEF ProcOK
    <3>3. k # 1
      BY <1>3, <3>2 DEF Handled
    <3>4. PICK j \in 1..Len(v) : j = k - 1 /\ v[j] = q[k] /\ frame'[q[k]] = frame[q[k]]
      <4>1. k - 1 \in 1..Len(v) /\ v[k - 1] = q[k]
        BY <1>7, <3>3
      <4>2. frame'[v[k - 1]] = frame[v[k - 1]]
        BY <1>11, <4>1
      <4> QED
        BY <4>1, <4>2
    <3>5. Answers(stack[u][i], v[j])' /\ Handled(v[j])' /\ frame'[v[j]].to = u
      BY <3>1, <3>2, <3>4 DEF Answers, SameAct, Handled
    <3>6. ASSUME NEW l \in 1..Len(v), v[l][1] = u, v[l][2] < i PROVE j < l
      <4>1. k < l + 1
        BY <1>7, <3>2, <3>6
      <4> QED
        BY <3>4, <4>1
    <3> QED
      BY <3>5, <3>6 DEF ProcOK
  <2>3. ASSUME NEW u \in HTASK, NEW i \in Nat, NEW j \in Nat, ProcAt(u, i)', ProcAt(u, j)', i # j
        PROVE  stack'[u][i].ptr # stack'[u][j].ptr
    <3>1. SameAct(stack[u][i], stack'[u][i]) /\ SameAct(stack[u][j], stack'[u][j])
          /\ stack[u][i].ptr # stack[u][j].ptr
      BY <1>16, <2>1, <2>3
    <3> QED
      BY <3>1 DEF SameAct
  <2> QED
    BY <2>2, <2>3 DEF ProcsOK
<1>18. HandlersOK(v)'
  <2> SUFFICES ASSUME ~Loops(habit), NEW k \in 1..Len(v), Handled(v[k])'
               PROVE  \E u \in HTASK, i, j \in Nat : HandlerAt(v[k], u, i, j)'
    BY DEF HandlersOK
  <2>1. PICK b \in Addr : /\ b = v[k] /\ frame'[b] = frame[b]
                          /\ \E l \in 1..Len(q) : q[l] = b
    <3>1. k + 1 \in 1..Len(q) /\ v[k] = q[k + 1] /\ frame'[v[k]] = frame[v[k]]
      BY <1>7, <1>11
    <3> QED
      BY <1>11, <3>1
  <2>2. Handled(b)
    BY <2>1 DEF Handled
  <2>3. PICK u \in HTASK, i \in Nat, j \in Nat : HandlerAt(b, u, i, j)
    BY <2>1, <2>2 DEF Inv, SendsOK, HandlersOK
  <2>4. /\ i \in 1..Len(stack[u]) /\ Answers(stack[u][i], b) /\ frame[b].to = u
        /\ j \in i..Len(stack[u]) /\ \A l \in (i + 1)..j : stack[u][l].kind = "own"
    BY <2>3 DEF HandlerAt
  <2>5. j # Len(stack[u])
    <3> SUFFICES ASSUME j = Len(stack[u]) PROVE FALSE
      OBVIOUS
    <3>1. u = c /\ j = n
      BY <1>1, <1>4, <2>3 DEF HandlerAt
    <3>2. j = i \/ j \in (i + 1)..j
      BY <2>4
    <3> QED
      BY <1>4, <2>4, <3>1, <3>2 DEF Answers
  <2>6. SendsFor(b, u, j + 1) /\ <<u, j + 1>> \in Addr /\ ProcAt(u, i) /\ SameMessage(b)
        /\ j + 1 \in 1..Len(stack[u])
    <3>1. j \in 1..Len(stack[u]) /\ SendsFor(b, u, j + 1)
      BY <2>3, <2>4, <2>5 DEF HandlerAt
    <3> QED
      BY <1>4, <2>1, <2>4, <2>5, <3>1, SenderAddr DEF ProcAt, SameMessage, Answers
  <2>7. CASE u = c /\ j + 1 = n
    <3>1. b = lpSendMessageStack'
      BY <1>1, <2>6, <2>7 DEF SendsFor
    <3>2. /\ i # n /\ j = Len(stack'[c]) /\ i \in 1..Len(stack'[c]) /\ j \in i..Len(stack'[c])
          /\ \A l \in (i + 1)..j : l \in 1..Len(stack[c]) /\ l # n /\ l \in Nat
      BY <1>4, <2>4, <2>7
    <3>3. Answers(stack[u][i], b)'
      BY <1>4, <2>4, <2>6, <3>2, AnswersKept
    <3>4. ASSUME NEW l \in (i + 1)..j PROVE stack'[u][l].kind = "own"
      <4>1. CallAt(stack[u], l) /\ CallKept(stack[u], stack'[u], l) /\ stack[u][l].kind = "own"
        BY <1>4, <2>4, <2>7, <3>2 DEF CallAt, CallsKept
      <4> QED
        BY <4>1 DEF CallKept, SameAct
    <3>5. HandlerAt(b, u, i, j)'
      BY <1>1, <2>1, <2>4, <2>7, <3>1, <3>2, <3>3, <3>4 DEF HandlerAt
    <3> QED
      BY <2>1, <3>5
  <2>8. CASE ~(u = c /\ j + 1 = n)
    <3>1. u = c => n \notin i..(j + 1)
      BY <1>4, <2>4, <2>6, <2>8
    <3>2. <<u, j + 1>> # a
      BY <1>2, <2>8
    <3>3. frame'[<<u, j + 1>>].prev = frame[<<u, j + 1>>].prev
      BY <1>10, <2>6, <3>2
    <3>4. HandlerAt(b, u, i, j)'
      BY <1>4, <2>3, <2>5, <2>6, <3>1, <3>3, HandlerKept
    <3> QED
      BY <2>1, <3>4
  <2> QED
    BY <2>7, <2>8
<1>19. SendsOK(v)'
  BY <1>13, <1>14, <1>15, <1>17, <1>18 DEF SendsOK
<1> QED
  BY <1>10, <1>19

-----------------------------------------------------------------------------
(* The stacks after a step *)

LEMMA CallsPopped ==
    ASSUME NEW s \in Seq(Activation), NEW v \in Seq(Activation), Popped(v, s), NEW i \in Nat,
           i # Len(s) \/ s[i].kind \notin {"send", "proc", "own"}
    PROVE  CallKept(s, v, i)
<1>1. Len(s) \in Nat /\ Len(v) \in Nat /\ Len(s) = Len(v) + 1 /\ \A k \in 1..Len(v) : v[k] = s[k]
  BY DEF Popped
<1>2. CASE i \in 1..Len(v)
  BY <1>1, <1>2 DEF CallKept, CallAt, SameAct
<1>3. CASE i \notin 1..Len(v)
  <2>1. i \in 1..Len(s) => i = Len(s)
    BY <1>1, <1>3
  <2> QED
    BY <1>3, <2>1 DEF CallKept, CallAt
<1> QED
  BY <1>2, <1>3

LEMMA CallsPushed ==
    ASSUME NEW s \in Seq(Activation), NEW v \in Seq(Activation), NEW x, HasLast(v, x, s),
           NEW i \in Nat, i # Len(s) + 1 \/ x.kind \notin {"send", "proc", "own"}
    PROVE  CallKept(s, v, i)
<1>1. /\ Len(s) \in Nat /\ Len(v) \in Nat /\ Len(v) = Len(s) + 1 /\ v[Len(v)] = x
      /\ \A k \in 1..Len(s) : v[k] = s[k] /\ k \in 1..Len(v)
  BY DEF HasLast
<1>2. CASE i \in 1..Len(s)
  BY <1>1, <1>2 DEF CallKept, CallAt, SameAct
<1>3. CASE i \notin 1..Len(s)
  <2>1. i \in 1..Len(v) => i = Len(v)
    BY <1>1, <1>3
  <2> QED
    BY <1>1, <1>3, <2>1 DEF CallKept, CallAt
<1> QED
  BY <1>2, <1>3

LEMMA CallsRecounted ==
    ASSUME NEW s \in Seq(Activation), NEW v, Recounted(v, s), NEW i \in Nat
    PROVE  CallKept(s, v, i)
<1>1. Len(v) = Len(s)
  BY DEF Recounted
<1>2. CASE i \in 1..Len(s)
  <2>1. /\ v[i].kind = s[i].kind /\ v[i].ptr = s[i].ptr /\ v[i].msg = s[i].msg
        /\ v[i].id = s[i].id /\ v[i].in = s[i].in
    BY <1>2, RecountedFields
  <2> QED
    BY <1>1, <2>1 DEF CallKept, CallAt, SameAct
<1>3. CASE i \notin 1..Len(s)
  BY <1>1, <1>3 DEF CallKept, CallAt
<1> QED
  BY <1>2, <1>3

LEMMA CallsTwice ==
    ASSUME NEW s, NEW v, NEW w, NEW i, CallKept(s, v, i), CallKept(v, w, i)
    PROVE  CallKept(s, w, i)
BY DEF CallKept, SameAct

LEMMA SwitchPushed ==
    ASSUME NEW s, NEW d, NEW h, Shape(s, d, h), Len(s) > 0, Len(s) < MaxDepth,
           s[Len(s)].kind # "sw", s[Len(s)].kind = "own" => h = "dialogs"
    PROVE  \E v : /\ v = Append(s, Act("sw")) /\ v \in Seq(Activation)
                  /\ Shape(v, d, h) /\ Switched(v) /\ Len(v) = Len(s) + 1
                  /\ v[Len(v)] = Act("sw") /\ \A k \in 1..Len(s) : v[k] = s[k]
                  /\ \A i \in Nat : CallKept(s, v, i)
<1>1. PICK x : x = Act("sw") /\ x \in Activation /\ x.kind = "sw"
  BY ActFields DEF Kinds
<1>2. s \in Seq(Activation) /\ Len(s) \in Nat
  BY DEF Shape
<1>3. PICK v : v = Append(s, x)
  OBVIOUS
<1>4. v \in Seq(Activation) /\ HasLast(v, x, s)
  BY <1>1, <1>2, <1>3, AppendedSeq
<1>5. MayPush(x, s, d, d, h)
  BY <1>1 DEF MayPush
<1>6. Shape(v, d, h) /\ Len(v) = Len(s) + 1 /\ v[Len(v)] = x /\ Switched(v)
  BY <1>1, <1>4, <1>5, ShapePushed
<1>7. \A k \in 1..Len(s) : v[k] = s[k]
  BY <1>2, <1>4 DEF HasLast
<1>8. \A i \in Nat : CallKept(s, v, i)
  BY <1>1, <1>2, <1>4, CallsPushed
<1> QED
  BY <1>1, <1>3, <1>4, <1>6, <1>7, <1>8

LEMMA MyCallsKept ==
    ASSUME TasksOK, StacksOK, NEW v \in Seq(Activation), NEW n,
           stack' = [stack EXCEPT ![hCurrentTask] = v],
           \A i \in Nat : i # n => CallKept(MyStack, v, i)
    PROVE  Stacks' /\ CallsKept(hCurrentTask, n) /\ stack'[hCurrentTask] = v
<1>1. PICK c : c = hCurrentTask /\ c \in HTASK
  BY Current
<1>2. stack \in [HTASK -> Seq(Activation)] /\ MyStack = stack[c]
  BY <1>1 DEF StacksOK, MyStack
<1>3. stack' \in [HTASK -> Seq(Activation)] /\ stack'[c] = v /\ \A t \in HTASK : t # c => stack'[t] = stack[t]
  BY <1>1, <1>2
<1>4. \A t \in HTASK, i \in Nat : t # c => CallKept(stack[t], stack'[t], i)
  BY <1>3 DEF CallKept, SameAct
<1>5. CallsKept(c, n)
  BY <1>2, <1>3, <1>4 DEF CallsKept
<1> QED
  BY <1>1, <1>3, <1>5 DEF Stacks

(* An activation is over.                                                    *)
LEMMA PopControl ==
    ASSUME TasksOK, StacksOK, Doing \notin {"app", "exit"}, Moves(Below, hCurrentTask),
           TASK_READY' = TASK_READY, doomed' = doomed, halted' = halted,
           queued' \in [HTASK -> 0..MaxQueued]
    PROVE  /\ TasksOK' /\ StacksOK' /\ Stacks' /\ CallsKept(hCurrentTask, Len(MyStack))
           /\ Doing \in {"sw", "wait"} => CallsKept(hCurrentTask, 0)
           /\ Len(stack'[hCurrentTask]) = Len(MyStack) - 1
<1>1. PICK s, v : s = MyStack /\ v = Below
  OBVIOUS
<1>2. /\ s \in Seq(Activation) /\ Shape(s, hCurrentTask \in doomed, habit) /\ Len(s) \in Nat
      /\ s[Len(s)].kind = Doing /\ hCurrentTask \in ToSet(tasks)
  BY <1>1, Current
<1>3. v \in Seq(Activation) /\ Popped(v, s) /\ Len(s) # 1 /\ Len(s) \in 1..MaxDepth
  BY <1>1, Current, TopOfStack
<1>4. Len(s) > 1
  <2>1. PICK n \in Nat : n = Len(s) /\ n \in 1..MaxDepth /\ n # 1 /\ MaxDepth \in Nat
    BY <1>2, <1>3, Constants
  <2>2. n > 1
    BY <2>1
  <2> QED
    BY <2>1, <2>2
<1>5. Shape(v, hCurrentTask \in doomed, habit) /\ Len(v) > 0 /\ Len(v) = Len(s) - 1
  <2>1. Shape(v, hCurrentTask \in doomed, habit) /\ Len(v) \in 1..(MaxDepth - 1) /\ Len(v) = Len(s) - 1
    BY <1>2, <1>3, <1>4, ShapePopped
  <2> QED
    BY <2>1, Constants
<1>6. stack' = [stack EXCEPT ![hCurrentTask] = v]
  BY <1>1 DEF Moves
<1>7. TasksOK' /\ StacksOK'
  <2>1. Moves(v, hCurrentTask)
    BY <1>1
  <2>2. /\ TASK_READY' \subseteq ToSet(tasks) /\ doomed' \subseteq ToSet(tasks) /\ halted' \in BOOLEAN
        /\ doomed' \ {hCurrentTask} = doomed \ {hCurrentTask}
    BY DEF TasksOK
  <2>3. Shape(v, hCurrentTask \in doomed', habit)
    BY <1>5
  <2> QED
    BY <1>2, <1>5, <2>1, <2>2, <2>3, MovesKeep
<1>8. \A i \in Nat : i # Len(s) => CallKept(s, v, i)
  BY <1>2, <1>3, CallsPopped
<1>9. Stacks' /\ CallsKept(hCurrentTask, Len(s)) /\ stack'[hCurrentTask] = v
  BY <1>1, <1>3, <1>6, <1>8, MyCallsKept
<1>10. Doing \in {"sw", "wait"} => CallsKept(hCurrentTask, 0)
  <2> SUFFICES ASSUME Doing \in {"sw", "wait"} PROVE CallsKept(hCurrentTask, 0)
    OBVIOUS
  <2>1. \A i \in Nat : CallKept(s, v, i)
    BY <1>2, <1>3, CallsPopped
  <2> QED
    BY <1>1, <1>3, <1>6, <2>1, MyCallsKept
<1> QED
  BY <1>1, <1>5, <1>7, <1>9, <1>10

(* The running task gives the processor up.                                  *)
LEMMA YieldControl ==
    ASSUME TasksOK, StacksOK, NEW r \in SUBSET ToSet(tasks), InternalYield(MyStack, r),
           Len(MyStack) < MaxDepth, Doing # "sw", Doing = "own" => habit = "dialogs", habit' = habit
    PROVE  TasksOK' /\ StacksOK' /\ Stacks' /\ CallsKept(hCurrentTask, 0) /\ Running' \subseteq Running
<1>1. PICK c, s : c = hCurrentTask /\ s = MyStack
  OBVIOUS
<1>2. PICK gone :
         /\ YieldsTo(s, gone)
         /\ tasks' \in Seq(HTASK) /\ IsInjective(tasks')
         /\ ToSet(tasks') = ToSet(tasks) \ gone /\ TASK_READY' \subseteq ToSet(tasks')
         /\ queued' \in [HTASK -> 0..MaxQueued] /\ halted' \in BOOLEAN
  BY <1>1, YieldTasks
<1>3. /\ gone \subseteq doomed \ {c} /\ hCurrentTask' \in ToSet(tasks) \ gone
      /\ doomed' = doomed \ gone /\ doomed \subseteq ToSet(tasks)
  BY <1>1, <1>2 DEF YieldsTo, TasksOK
<1>4. /\ s \in Seq(Activation) /\ Shape(s, c \in doomed, habit) /\ Len(s) > 0 /\ s[Len(s)].kind # "sw"
      /\ s[Len(s)].kind = "own" => habit = "dialogs"
      /\ c \in HTASK /\ stack[c] = s /\ c \in ToSet(tasks) /\ stack \in [HTASK -> Seq(Activation)]
  <2>1. Len(s) \in 1..MaxDepth
    BY <1>1, Current
  <2> QED
    BY <1>1, <2>1, Current, Constants DEF MyStack, StacksOK
<1>5. PICK w : /\ w = Append(s, Act("sw")) /\ w \in Seq(Activation)
               /\ Shape(w, c \in doomed, habit) /\ Switched(w) /\ Len(w) = Len(s) + 1
               /\ \A i \in Nat : CallKept(s, w, i)
  BY <1>1, <1>4, SwitchPushed
<1>6. PICK v : v = IF hCurrentTask' = c THEN s ELSE w
  OBVIOUS
<1>7. /\ v \in Seq(Activation) /\ Shape(v, c \in doomed, habit) /\ Len(v) # 0
      /\ hCurrentTask' # c => Switched(v)
      /\ \A i \in Nat : CallKept(s, v, i)
  <2>1. CASE hCurrentTask' = c
    <3>1. \A i \in Nat : CallKept(s, s, i)
      BY DEF CallKept, SameAct
    <3> QED
      BY <1>4, <1>6, <2>1, <3>1
  <2>2. CASE hCurrentTask' # c
    BY <1>4, <1>5, <1>6, <2>2 DEF Switched
  <2> QED
    BY <2>1, <2>2
<1>8. /\ \A t \in HTASK : stack'[t] = IF t \in gone THEN <<>> ELSE IF t # c THEN stack[t] ELSE v
      /\ DOMAIN stack' = HTASK /\ stack' = [t \in HTASK |-> stack'[t]]
  BY <1>1, <1>2, <1>5, <1>6 DEF YieldsTo
<1>9. Stacks'
  <2>1. <<>> \in Seq(Activation)
    OBVIOUS
  <2>2. \A t \in HTASK : stack'[t] \in Seq(Activation)
    BY <1>4, <1>7, <1>8, <2>1
  <2> QED
    BY <1>8, <2>2 DEF Stacks
<1>10. TasksOK'
  BY <1>2, <1>3 DEF TasksOK
<1>11. ASSUME NEW t \in HTASK PROVE StackOK(t)'
  <2>1. CASE t \in gone
    <3>1. stack'[t] = <<>> /\ t \notin doomed' /\ t \notin ToSet(tasks')
      BY <1>2, <1>3, <1>8, <2>1
    <3>2. Shape(stack'[t], t \in doomed', habit') /\ Len(stack'[t]) = 0
      BY <3>1, Constants DEF Shape
    <3> QED
      BY <3>1, <3>2 DEF StackOK
  <2>2. CASE t \notin gone /\ t # c
    <3>1. StackOK(t) /\ stack'[t] = stack[t] /\ (t \in doomed' <=> t \in doomed)
          /\ (t \in ToSet(tasks') <=> t \in ToSet(tasks))
      BY <1>2, <1>3, <1>8, <2>2 DEF StacksOK
    <3>2. Shape(stack'[t], t \in doomed', habit')
      <4>1. Shape(stack[t], t \in doomed, habit)
        BY <3>1 DEF StackOK
      <4>2. CASE t \in doomed
        BY <3>1, <4>1, <4>2
      <4>3. CASE t \notin doomed
        BY <3>1, <4>1, <4>3
      <4> QED
        BY <4>2, <4>3
    <3> QED
      BY <1>1, <2>2, <3>1, <3>2 DEF StackOK
  <2>3. CASE t = c
    <3>1. stack'[t] = v /\ (t \in doomed' <=> t \in doomed) /\ t \in ToSet(tasks')
      BY <1>2, <1>3, <1>4, <1>8, <2>3
    <3>2. Shape(stack'[t], t \in doomed', habit')
      <4>2. CASE t \in doomed
        BY <1>7, <2>3, <3>1, <4>2
      <4>3. CASE t \notin doomed
        BY <1>7, <2>3, <3>1, <4>3
      <4> QED
        BY <4>2, <4>3
    <3> QED
      BY <1>7, <2>3, <3>1, <3>2 DEF StackOK
  <2> QED
    BY <2>1, <2>2, <2>3
<1>12. CallsKept(c, 0)
  <2>1. ASSUME NEW t \in HTASK, NEW i \in Nat PROVE CallKept(stack[t], stack'[t], i)
    <3>1. CASE t \in gone
      <4>1. stack'[t] = <<>> /\ Shape(stack[t], TRUE, habit)
        BY <1>3, <1>8, <3>1 DEF StacksOK, StackOK
      <4>2. ASSUME NEW k \in 1..Len(stack[t]) PROVE stack[t][k].kind \notin {"send", "proc", "own"}
        <5>1. ActOK(stack[t], k, TRUE, habit) /\ stack[t][2].kind = "exit"
          BY <4>1 DEF Shape
        <5>2. k = 1 \/ k = 2 \/ k > 2
          BY <1>4
        <5> QED
          BY <5>1, <5>2 DEF ActOK
      <4>3. ~CallAt(stack[t], i) /\ ~CallAt(<<>>, i)
        BY <4>2 DEF CallAt
      <4> QED
        BY <4>1, <4>3 DEF CallKept
    <3>2. CASE t \notin gone /\ t # c
      <4>1. stack'[t] = stack[t]
        BY <1>8, <3>2
      <4> QED
        BY <4>1 DEF CallKept, SameAct
    <3>3. CASE t = c
      <4>1. stack'[t] = v /\ stack[t] = s
        BY <1>3, <1>4, <1>8, <3>3
      <4> QED
        BY <1>7, <4>1
    <3> QED
      BY <3>1, <3>2, <3>3
  <2> QED
    BY <2>1 DEF CallsKept
<1>13. Running' \subseteq Running
  BY <1>2, <1>3 DEF Running
<1>14. StacksOK'
  BY <1>9, <1>11 DEF StacksOK, Stacks
<1> QED
  BY <1>1, <1>9, <1>10, <1>12, <1>13, <1>14

(* A call of the running task begins, other than SendMessage.                *)
LEMMA PushControl ==
    ASSUME TasksOK, StacksOK, Doing # "sw", NEW x, x.kind \notin {"send", "proc", "own"},
           MayPush(x, MyStack, hCurrentTask \in doomed, hCurrentTask \in doomed', habit),
           Moves(Append(MyStack, x), hCurrentTask),
           TASK_READY' \subseteq ToSet(tasks), doomed' \subseteq ToSet(tasks),
           doomed' \ {hCurrentTask} = doomed \ {hCurrentTask},
           queued' = queued, halted' = halted
    PROVE  TasksOK' /\ StacksOK' /\ Stacks' /\ CallsKept(hCurrentTask, 0)
<1>1. PICK s : s = MyStack
  OBVIOUS
<1>2. /\ s \in Seq(Activation) /\ Shape(s, hCurrentTask \in doomed, habit) /\ Len(s) > 0
      /\ s[Len(s)].kind # "sw" /\ hCurrentTask \in ToSet(tasks)
  <2>1. Len(s) \in 1..MaxDepth
    BY <1>1, Current
  <2> QED
    BY <1>1, <2>1, Current, Constants
<1>3. PICK v : v = Append(s, x)
  OBVIOUS
<1>4. v \in Seq(Activation) /\ HasLast(v, x, s)
  <2>1. x \in Activation
    BY DEF MayPush
  <2> QED
    BY <1>2, <1>3, <2>1, AppendedSeq
<1>5. Shape(v, hCurrentTask \in doomed', habit) /\ Len(v) = Len(s) + 1
  BY <1>1, <1>2, <1>4, ShapePushed
<1>6. Len(v) > 0
  BY <1>2, <1>5
<1>7. Moves(v, hCurrentTask) /\ stack' = [stack EXCEPT ![hCurrentTask] = v]
  BY <1>1, <1>3 DEF Moves
<1>8. queued' \in [HTASK -> 0..MaxQueued] /\ halted' \in BOOLEAN
  BY DEF TasksOK
<1>9. TasksOK' /\ StacksOK'
  BY <1>2, <1>5, <1>6, <1>7, <1>8, MovesKeep
<1>10. \A i \in Nat : CallKept(s, v, i)
  BY <1>2, <1>4, CallsPushed
<1>11. Stacks' /\ CallsKept(hCurrentTask, 0)
  BY <1>1, <1>4, <1>7, <1>10, MyCallsKept
<1> QED
  BY <1>9, <1>11

-----------------------------------------------------------------------------
(* What becomes of bInSendMessage *)

LEMMA FlagKept ==
    ASSUME NEW s, NEW w, NEW p \in Nat, NEW v, FlagIn(s, p, v),
           \A i \in Nat : i # 0 /\ i < p => CallKept(s, w, i)
    PROVE  FlagIn(w, p, v)
<1>1. ASSUME NEW i \in Nat, i < p
      PROVE  (OwnIn(s, i) <=> OwnIn(w, i)) /\ (OwnIn(s, i) => w[i].in = s[i].in)
  <2>1. i = 0 => ~OwnIn(s, i) /\ ~OwnIn(w, i)
    BY DEF OwnIn
  <2>2. i # 0 => CallKept(s, w, i)
    BY <1>1
  <2> QED
    BY <2>1, <2>2 DEF OwnIn, CallKept, CallAt, SameAct
<1>2. ASSUME NEW i \in Nat, i < p, OwnIn(w, i), w[i].in # FALSE
      PROVE  \E k \in Nat : k < i /\ OwnIn(w, k)
  <2>1. OwnIn(s, i) /\ s[i].in # FALSE
    BY <1>1, <1>2
  <2>2. PICK k \in Nat : k < i /\ OwnIn(s, k)
    BY <1>2, <2>1 DEF FlagIn
  <2>3. k < p
    BY <1>2, <2>2
  <2> QED
    BY <1>1, <2>2, <2>3
<1>3. v # FALSE => \E i \in Nat : i < p /\ OwnIn(w, i)
  BY <1>1 DEF FlagIn
<1> QED
  BY <1>2, <1>3 DEF FlagIn

(* Where the places end does not matter above all activations.              *)
LEMMA FlagAbove ==
    ASSUME NEW s, Len(s) \in Nat, NEW p \in Nat, NEW r \in Nat, NEW v,
           Len(s) < p, Len(s) < r, FlagIn(s, p, v)
    PROVE  FlagIn(s, r, v)
<1>1. \A i \in Nat : OwnIn(s, i) => i < p /\ i < r
  BY DEF OwnIn
<1> QED
  BY <1>1 DEF FlagIn

LEMMA FlagOwn ==
    ASSUME NEW s \in Seq(Activation), NEW w \in Seq(Activation), NEW b, NEW p \in Nat,
           Len(w) = Len(s) + 1, Len(w) < p, w[Len(w)].kind = "own", w[Len(w)].in = b,
           FlagIn(s, p, b), \A i \in Nat : i # Len(w) => CallKept(s, w, i)
    PROVE  FlagIn(w, p, TRUE)
<1>1. /\ Len(s) \in Nat /\ Len(w) \in Nat /\ OwnIn(w, Len(w)) /\ ~OwnIn(s, Len(w))
      /\ \A i \in Nat : OwnIn(w, i) => i <= Len(w)
      /\ \A i \in Nat : OwnIn(s, i) => i < Len(w)
  BY DEF OwnIn
<1>2. \A i \in Nat : i # Len(w) => /\ OwnIn(s, i) <=> OwnIn(w, i)
                                   /\ OwnIn(s, i) => w[i].in = s[i].in
  BY DEF OwnIn, CallKept, CallAt, SameAct
<1>3. ASSUME NEW i \in Nat, i < p, OwnIn(w, i), w[i].in # FALSE
      PROVE  \E k \in Nat : k < i /\ OwnIn(w, k)
  <2>1. CASE i = Len(w)
    <3>1. PICK k \in Nat : k < p /\ OwnIn(s, k)
      BY <1>3, <2>1 DEF FlagIn
    <3> QED
      BY <1>1, <1>2, <2>1, <3>1
  <2>2. CASE i # Len(w)
    <3>1. PICK k \in Nat : k < i /\ OwnIn(s, k)
      BY <1>2, <1>3, <2>2 DEF FlagIn
    <3>2. k # Len(w)
      BY <1>1, <3>1
    <3> QED
      BY <1>2, <3>1, <3>2
  <2> QED
    BY <2>1, <2>2
<1> QED
  BY <1>1, <1>3 DEF FlagIn

LEMMA FlagBack ==
    ASSUME NEW s \in Seq(Activation), NEW w \in Seq(Activation), NEW b, NEW p \in Nat,
           Popped(w, s), Len(s) < p, s[Len(s)].kind = "own", FlagIn(s, p, b)
    PROVE  FlagIn(w, p, s[Len(s)].in)
<1>1. /\ Len(s) \in Nat /\ Len(w) \in Nat /\ Len(s) = Len(w) + 1 /\ OwnIn(s, Len(s))
      /\ \A i \in Nat : OwnIn(w, i) <=> OwnIn(s, i) /\ i < Len(s)
      /\ \A i \in Nat : OwnIn(w, i) => w[i].in = s[i].in /\ i < Len(s)
  BY DEF Popped, OwnIn
<1>2. ASSUME NEW i \in Nat, i < p, OwnIn(s, i), s[i].in # FALSE
      PROVE  \E k \in Nat : k < i /\ OwnIn(s, k)
  BY <1>2 DEF FlagIn
<1>3. ASSUME NEW i \in Nat, i < p, OwnIn(w, i), w[i].in # FALSE
      PROVE  \E k \in Nat : k < i /\ OwnIn(w, k)
  <2>1. i < Len(s) /\ OwnIn(s, i) /\ s[i].in # FALSE
    BY <1>1, <1>3
  <2>2. PICK k \in Nat : k < i /\ OwnIn(s, k)
    BY <1>2, <1>3, <2>1
  <2>3. k < Len(s)
    BY <1>1, <2>1, <2>2
  <2> QED
    BY <1>1, <2>2, <2>3
<1>4. s[Len(s)].in # FALSE => \E k \in Nat : k < p /\ OwnIn(w, k)
  <2> SUFFICES ASSUME s[Len(s)].in # FALSE PROVE \E k \in Nat : k < p /\ OwnIn(w, k)
    OBVIOUS
  <2>1. PICK k \in Nat : k < Len(s) /\ OwnIn(s, k)
    BY <1>1, <1>2
  <2>2. k < p
    BY <1>1, <2>1
  <2> QED
    BY <1>1, <2>1, <2>2
<1> QED
  BY <1>3, <1>4 DEF FlagIn

(* A task that is switched out and has sent nothing has no procedure of its  *)
(* own messages.                                                             *)
LEMMA NoOwns ==
    ASSUME NEW q, Inv(q), lpSendMessageStack = NoFrame, habit # "dialogs", NEW t \in HTASK,
           Len(stack[t]) # 0 => stack[t][Len(stack[t])].kind # "own"
    PROVE  \A i \in Nat : ~OwnIn(stack[t], i)
<1> SUFFICES ASSUME NEW n \in Nat, OwnIn(stack[t], n) PROVE FALSE
  OBVIOUS
<1>1. PICK s : s = stack[t]
  OBVIOUS
<1>2. /\ s \in Seq(Activation) /\ Len(s) \in Nat /\ Len(s) <= MaxDepth /\ MaxDepth \in Nat
      /\ \A i \in 1..Len(s) : ActOK(s, i, t \in doomed, habit)
      /\ Len(s) # 0 => s[Len(s)].kind # "own"
  BY <1>1, Constants DEF Inv, StacksOK, StackOK, Shape
<1> DEFINE S == {i \in 1..Len(s) : s[i].kind = "own"}
<1>3. PICK m \in S : \A i \in S : i <= m
  <2>1. Len(s) \in Nat /\ S \in SUBSET Nat /\ S # {} /\ \A i \in S : i <= Len(s)
    BY <1>1, <1>2 DEF OwnIn
  <2> HIDE DEF S
  <2>2. Max(S) \in S /\ \A i \in S : i <= Max(S)
    BY <2>1, MaxOfNats
  <2> QED
    BY <2>2
<1>4. m \in 1..Len(s) /\ s[m].kind = "own" /\ m # Len(s)
  BY <1>2, <1>3
<1>5. m + 1 \in 1..Len(s) /\ m + 1 > 1 /\ m + 1 - 1 = m /\ m + 1 \in 1..MaxDepth /\ ~(m + 1 <= m)
  BY <1>2, <1>4
<1>6. s[m + 1].kind = "send"
  <2>1. ActOK(s, m + 1, t \in doomed, habit)
    BY <1>2, <1>5
  <2>2. s[m + 1].kind # "own"
    BY <1>3, <1>5
  <2> QED
    BY <1>4, <1>5, <2>1, <2>2 DEF ActOK
<1>7. <<t, m + 1>> \in Addr /\ Live(<<t, m + 1>>)
  <2>1. <<t, m + 1>> \in Addr /\ <<t, m + 1>>[1] = t /\ <<t, m + 1>>[2] = m + 1
    BY <1>5, Constants
  <2> QED
    BY <1>1, <1>2, <1>5, <1>6, <2>1 DEF Live
<1>8. Len(q) # 0
  <2>1. PICK k \in 1..Len(q) : q[k] = <<t, m + 1>>
    BY <1>7 DEF Inv, SendsOK, CallsListed
  <2> QED
    BY ListFacts
<1> QED
  BY <1>8, ListFacts

(* Steps without SendMessage, reception, answer or return.                   *)
LEMMA FlagQuiet ==
    ASSUME NEW q, Inv(q), TasksOK', Stacks', sending' = sending, habit' = habit,
           CallsKept(hCurrentTask, 0), Doing = "own" => habit = "dialogs"
    PROVE  FlagOK'
<1> SUFFICES ASSUME habit \notin {"replies", "dialogs"}
             PROVE  /\ lpSendMessageStack = NoFrame =>
                          FlagIn(stack'[hCurrentTask'], MaxDepth + 1, bInSendMessage)
                    /\ \A a \in Addr : Live(a)' /\ frame[a].prev = NoFrame =>
                          FlagIn(stack'[a[1]], a[2], frame[a].cInSendMessage)
  BY DEF FlagOK, sending, MyStack
<1>1. PICK c, u : c = hCurrentTask /\ u = hCurrentTask'
  OBVIOUS
<1>2. /\ Stacks /\ c \in HTASK /\ u \in HTASK /\ stack[c] = MyStack /\ CallsKept(c, 0) /\ Doing # "own"
      /\ MaxDepth + 1 \in Nat /\ StacksOK /\ MyStack[Len(MyStack)].kind = Doing
  <2>1. hCurrentTask' \in HTASK
    BY DEF TasksOK, ToSet
  <2> QED
    BY <1>1, <2>1, TopFacts, Constants DEF MyStack
<1>3. \A t \in HTASK, i \in Nat : CallKept(stack[t], stack'[t], i) \/ (t = c /\ i = 0)
  BY <1>2 DEF CallsKept
<1>4. ASSUME NEW t \in HTASK, NEW p \in Nat, NEW v, FlagIn(stack[t], p, v)
      PROVE  FlagIn(stack'[t], p, v)
  BY <1>3, <1>4, FlagKept
<1>5. ASSUME lpSendMessageStack = NoFrame
      PROVE  FlagIn(stack'[u], MaxDepth + 1, bInSendMessage)
  <2>1. FlagIn(stack[c], MaxDepth + 1, bInSendMessage)
    BY <1>1, <1>5 DEF Inv, FlagOK, MyStack
  <2>2. CASE u = c
    BY <1>2, <1>4, <2>1, <2>2
  <2>3. CASE u # c
    <3>1. \A i \in Nat : ~OwnIn(stack[c], i)
      BY <1>2, <1>5, NoOwns
    <3>2. bInSendMessage = FALSE
      BY <2>1, <3>1 DEF FlagIn
    <3>3. Len(stack[u]) # 0 => stack[u][Len(stack[u])].kind # "own"
      BY <1>1, <1>2, <2>3 DEF StacksOK, StackOK, Switched
    <3>4. \A i \in Nat : ~OwnIn(stack[u], i)
      BY <1>2, <1>5, <3>3, NoOwns
    <3>5. FlagIn(stack[u], MaxDepth + 1, bInSendMessage)
      BY <3>2, <3>4 DEF FlagIn
    <3> QED
      BY <1>2, <1>4, <3>5
  <2> QED
    BY <2>2, <2>3
<1>6. ASSUME NEW a \in Addr, Live(a)', frame[a].prev = NoFrame
      PROVE  FlagIn(stack'[a[1]], a[2], frame[a].cInSendMessage)
  <2>1. a[1] \in HTASK /\ a[2] \in Nat /\ a[2] # 0
    BY Constants
  <2>2. Live(a)
    BY <1>2, <1>6, <2>1, LiveKept
  <2>3. FlagIn(stack[a[1]], a[2], frame[a].cInSendMessage)
    BY <1>6, <2>2 DEF Inv, FlagOK
  <2> QED
    BY <1>4, <2>1, <2>3
<1> QED
  BY <1>1, <1>5, <1>6

(* Steps of a procedure for a message that was sent, while others wait.      *)
LEMMA FlagSends ==
    ASSUME NEW q, Inv(q), Stacks', habit' = habit,
           habit # "replies" => lpSendMessageStack # NoFrame,
           lpSendMessageStack' = lpSendMessageStack,
           \A a \in Addr : /\ frame'[a].prev = frame[a].prev
                           /\ frame'[a].cInSendMessage = frame[a].cInSendMessage,
           NEW n \in Nat, CallsKept(hCurrentTask, n), Len(MyStack) <= n,
           n \in 1..Len(MyStack) => MyStack[n].kind # "send",
           n \in 1..Len(stack'[hCurrentTask]) => stack'[hCurrentTask][n].kind # "send"
    PROVE  FlagOK'
<1> SUFFICES ASSUME habit \notin {"replies", "dialogs"}, NEW a \in Addr, Live(a)', frame[a].prev = NoFrame
             PROVE  FlagIn(stack'[a[1]], a[2], frame[a].cInSendMessage)
  BY DEF FlagOK
<1>1. PICK c : c = hCurrentTask
  OBVIOUS
<1>2. /\ Stacks /\ c \in HTASK /\ stack[c] = MyStack /\ CallsKept(c, n) /\ Len(MyStack) \in Nat
      /\ a[1] \in HTASK /\ a[2] \in Nat /\ a[2] # 0 /\ Len(stack'[c]) \in Nat
  <2>1. c \in HTASK /\ Stacks
    BY <1>1, TopFacts
  <2> QED
    BY <1>1, <2>1, TopFacts, Constants DEF MyStack, Stacks
<1>3. a[1] # c \/ a[2] # n
  <2> SUFFICES ASSUME a[1] = c, a[2] = n PROVE FALSE
    OBVIOUS
  <2>1. n \in 1..Len(stack'[c]) /\ stack'[c][n].kind = "send"
    BY <1>2 DEF Live
  <2> QED
    BY <1>1, <2>1
<1>4. Live(a)
  BY <1>2, <1>3, LiveKept
<1>5. FlagIn(stack[a[1]], a[2], frame[a].cInSendMessage)
  BY <1>4 DEF Inv, FlagOK
<1>6. a[1] = c => a[2] <= n
  BY <1>2, <1>4 DEF Live
<1>7. \A i \in Nat : i # 0 /\ i < a[2] => CallKept(stack[a[1]], stack'[a[1]], i)
  BY <1>2, <1>6 DEF CallsKept
<1> QED
  BY <1>2, <1>5, <1>7, FlagKept

-----------------------------------------------------------------------------
(* The steps *)

LEMMA Together ==
    ASSUME TasksOK', StacksOK', FramesOK', NEW v, SendsOK(v)', FlagOK'
    PROVE  IInv'
BY DEF IInv, Inv

LEMMA SameSending ==
    ASSUME FramesOK, sending' = sending
    PROVE  FramesOK'
BY DEF FramesOK, sending

LEMMA SameSends ==
    ASSUME NEW q, Inv(q), sending' = sending, stack' = stack, hCurrentTask' = hCurrentTask,
           tasks' = tasks, doomed' = doomed, habit' = habit
    PROVE  StacksOK' /\ SendsOK(q)' /\ FlagOK'
<1>1. lpSendMessageStack' = lpSendMessageStack /\ frame' = frame /\ bInSendMessage' = bInSendMessage
  BY DEF sending
<1>2. Inv(q)
  OBVIOUS
<1>3. StacksOK'
  BY <1>2 DEF Inv, StacksOK, StackOK
<1>4. LinksOK(q)'
  BY <1>1, <1>2 DEF Inv, SendsOK, LinksOK
<1>5. CallsListed(q)'
  BY <1>1, <1>2 DEF Inv, SendsOK, CallsListed, Live
<1>6. MessagesOK(q)'
  <2>1. ASSUME NEW i \in 1..Len(q) PROVE MessageOK(q, i)'
    <3>1. MessageOK(q, i)
      BY <1>2 DEF Inv, SendsOK, MessagesOK
    <3> QED
      BY <1>1, <3>1 DEF MessageOK, CompletedOK, Running, Pending, PendingOK, Doing, MyStack
  <2> QED
    BY <2>1 DEF MessagesOK
<1>7. ProcsOK(q)'
  BY <1>1, <1>2 DEF Inv, SendsOK, ProcsOK, ProcAt, ProcOK, Answers, Handled
<1>8. HandlersOK(q)'
  <2> SUFFICES ASSUME ~Loops(habit), NEW k \in 1..Len(q), Handled(q[k])
               PROVE  \E t \in HTASK, i, j \in Nat : HandlerAt(q[k], t, i, j)'
    BY <1>1 DEF HandlersOK, Handled
  <2>1. PICK t \in HTASK, i \in Nat, j \in Nat : HandlerAt(q[k], t, i, j)
    BY <1>2 DEF Inv, SendsOK, HandlersOK
  <2>2. HandlerAt(q[k], t, i, j)'
    BY <1>1, <2>1 DEF HandlerAt, Answers, SendsFor
  <2> QED
    BY <2>2
<1>9. FlagOK'
  BY <1>1, <1>2 DEF Inv, FlagOK, Live, MyStack
<1> QED
  BY <1>3, <1>4, <1>5, <1>6, <1>7, <1>8, <1>9 DEF SendsOK

LEMMA StutterKeeps ==
    ASSUME NEW q, Inv(q), UNCHANGED taskvars
    PROVE  IInv'
<1>1. StacksOK' /\ SendsOK(q)' /\ FlagOK'
  BY SameSends DEF taskvars, sending
<1>2. TasksOK'
  BY DEF taskvars, Inv, TasksOK
<1>3. FramesOK'
  BY SameSending DEF taskvars, sending, Inv
<1> QED
  BY <1>1, <1>2, <1>3, Together

(* A message for t that is not sent: PostMessage and DriverEvent.            *)
LEMMA PostKeeps ==
    ASSUME NEW q, Inv(q), NEW t \in HTASK, queued[t] < MaxQueued,
           queued' = [queued EXCEPT ![t] = @ + 1], habit' = habit,
           UNCHANGED <<sending, tasks, hCurrentTask, TASK_READY, doomed, stack, halted>>
    PROVE  IInv'
<1>1. StacksOK' /\ SendsOK(q)' /\ FlagOK'
  BY SameSends
<1>2. TasksOK'
  <2>1. queued' \in [HTASK -> 0..MaxQueued]
    <3>1. queued \in [HTASK -> 0..MaxQueued] /\ MaxQueued \in Nat
      BY Constants DEF Inv, TasksOK
    <3>2. queued[t] + 1 \in 0..MaxQueued
      BY <3>1
    <3> QED
      BY <3>1, <3>2
  <2> QED
    BY <2>1 DEF Inv, TasksOK
<1>3. FramesOK'
  BY SameSending DEF Inv
<1> QED
  BY <1>1, <1>2, <1>3, Together

LEMMA GetMessageKeeps ==
    ASSUME NEW q, Inv(q), GetMessage, habit' = habit
    PROVE  IInv'
<1>1. /\ Doing \in {"app", "proc", "own"} /\ (Doing \in {"proc", "own"} => Loops(habit))
      /\ Doing = "own" => habit = "dialogs"
      /\ Len(MyStack) + 2 <= MaxDepth
      /\ stack' = [stack EXCEPT ![hCurrentTask] = Append(MyStack, Act("wait"))]
      /\ UNCHANGED <<sending, hCurrentTask, TASK_READY, tasking>>
  BY DEF GetMessage, CanRun, Yielders
<1>2. TasksOK /\ StacksOK /\ FramesOK
  BY DEF Inv
<1>3. MayPush(Act("wait"), MyStack, hCurrentTask \in doomed, hCurrentTask \in doomed', habit)
  <2>1. Act("wait") \in Activation /\ Act("wait").kind = "wait"
    BY ActFields DEF Kinds
  <2>2. /\ Doing = "app" => Len(MyStack) = 1
        /\ hCurrentTask \notin doomed /\ hCurrentTask \notin doomed'
    BY <1>1, <1>2, TopOfStack DEF tasking
  <2>3. Len(MyStack) \in Nat /\ MaxDepth \in Nat /\ MyStack[Len(MyStack)].kind = Doing
    BY TopFacts
  <2>4. Len(MyStack) < MaxDepth /\ Len(MyStack) + 1 < MaxDepth
    BY <1>1, <2>3
  <2> QED
    BY <1>1, <2>1, <2>2, <2>3, <2>4 DEF MayPush
<1>4. TasksOK' /\ StacksOK' /\ Stacks' /\ CallsKept(hCurrentTask, 0)
  <2>1. Moves(Append(MyStack, Act("wait")), hCurrentTask)
    BY <1>1 DEF Moves, tasking
  <2>2. Act("wait").kind \notin {"send", "proc", "own"} /\ Doing # "sw"
    BY <1>1, ActFields DEF Kinds
  <2>3. /\ TASK_READY' \subseteq ToSet(tasks) /\ doomed' \subseteq ToSet(tasks) /\ doomed' = doomed
        /\ queued' = queued /\ halted' = halted
    BY <1>1, <1>2 DEF TasksOK, tasking
  <2> QED
    BY <1>2, <1>3, <2>1, <2>2, <2>3, PushControl
<1>5. SendsOK(q)'
  <2>1. \A i \in 1..Len(q) : ~Pending(q[i])
    BY <1>1, NothingPending
  <2>2. hCurrentTask' = hCurrentTask /\ Running' \subseteq Running /\ sending' = sending
    BY <1>1 DEF Running, tasking
  <2> QED
    BY <1>1, <1>4, <2>1, <2>2, OtherSteps
<1>6. FramesOK'
  BY <1>1, <1>2, SameSending
<1>7. FlagOK'
  BY <1>1, <1>4, FlagQuiet
<1> QED
  BY <1>4, <1>5, <1>6, <1>7, Together

LEMMA GotMessageKeeps ==
    ASSUME NEW q, Inv(q), GotMessage, habit' = habit
    PROVE  IInv'
<1>1. /\ Doing = "wait" /\ queued[hCurrentTask] > 0
      /\ queued' = [queued EXCEPT ![hCurrentTask] = @ - 1]
      /\ stack' = [stack EXCEPT ![hCurrentTask] = Below]
      /\ UNCHANGED <<sending, hCurrentTask, TASK_READY, tasks, doomed, halted>>
  BY DEF GotMessage, CanRun
<1>2. TasksOK /\ StacksOK /\ FramesOK /\ hCurrentTask \in HTASK
  BY TopFacts DEF Inv
<1>3. queued' \in [HTASK -> 0..MaxQueued]
  <2>1. queued \in [HTASK -> 0..MaxQueued] /\ MaxQueued \in Nat
    BY <1>2, Constants DEF TasksOK
  <2>2. queued[hCurrentTask] - 1 \in 0..MaxQueued
    BY <1>1, <1>2, <2>1
  <2> QED
    BY <1>1, <2>1, <2>2
<1>4. TasksOK' /\ StacksOK' /\ Stacks' /\ CallsKept(hCurrentTask, 0)
  <2>1. Moves(Below, hCurrentTask)
    BY <1>1 DEF Moves
  <2> QED
    BY <1>1, <1>2, <1>3, <2>1, PopControl
<1>5. SendsOK(q)'
  <2>1. \A i \in 1..Len(q) : ~Pending(q[i])
    BY <1>1, NothingPending
  <2>2. hCurrentTask' = hCurrentTask /\ Running' \subseteq Running /\ sending' = sending
    BY <1>1 DEF Running
  <2> QED
    BY <1>1, <1>4, <2>1, <2>2, OtherSteps
<1>6. FramesOK'
  BY <1>1, <1>2, SameSending
<1>7. FlagOK'
  BY <1>1, <1>4, FlagQuiet
<1> QED
  BY <1>4, <1>5, <1>6, <1>7, Together

LEMMA DeleteTaskKeeps ==
    ASSUME NEW q, Inv(q), DeleteTask, habit' = habit
    PROVE  IInv'
<1>1. /\ Doing = "app" /\ Len(MyStack) + 2 <= MaxDepth
      /\ doomed' = doomed \cup {hCurrentTask} /\ TASK_READY' = TASK_READY \ {hCurrentTask}
      /\ stack' = [stack EXCEPT ![hCurrentTask] = Append(MyStack, Act("exit"))]
      /\ UNCHANGED <<sending, tasks, hCurrentTask, queued, halted>>
  BY DEF DeleteTask, CanRun
<1>2. TasksOK /\ StacksOK /\ FramesOK /\ hCurrentTask \in ToSet(tasks)
  BY TopFacts DEF Inv
<1>3. MayPush(Act("exit"), MyStack, hCurrentTask \in doomed, hCurrentTask \in doomed', habit)
  <2>1. Act("exit") \in Activation /\ Act("exit").kind = "exit"
    BY ActFields DEF Kinds
  <2>2. /\ Len(MyStack) = 1 /\ hCurrentTask \notin doomed /\ hCurrentTask \in doomed'
        /\ MyStack[Len(MyStack)].kind = "app"
    BY <1>1, <1>2, TopOfStack DEF Doing
  <2>3. Len(MyStack) \in Nat /\ MaxDepth \in Nat
    BY TopFacts
  <2>4. Len(MyStack) < MaxDepth /\ Len(MyStack) + 1 < MaxDepth
    BY <1>1, <2>3
  <2> QED
    BY <2>1, <2>2, <2>4 DEF MayPush
<1>4. TasksOK' /\ StacksOK' /\ Stacks' /\ CallsKept(hCurrentTask, 0)
  <2>1. Moves(Append(MyStack, Act("exit")), hCurrentTask)
    BY <1>1 DEF Moves
  <2>2. Act("exit").kind \notin {"send", "proc", "own"} /\ Doing # "sw"
    BY <1>1, ActFields DEF Kinds
  <2>3. /\ TASK_READY' \subseteq ToSet(tasks) /\ doomed' \subseteq ToSet(tasks)
        /\ doomed' \ {hCurrentTask} = doomed \ {hCurrentTask}
        /\ queued' = queued /\ halted' = halted
    BY <1>1, <1>2 DEF TasksOK
  <2> QED
    BY <1>2, <1>3, <2>1, <2>2, <2>3, PushControl
<1>5. SendsOK(q)'
  <2>1. \A i \in 1..Len(q) : ~Pending(q[i])
    BY <1>1, NothingPending
  <2>2. hCurrentTask' = hCurrentTask /\ Running' \subseteq Running /\ sending' = sending
    BY <1>1 DEF Running
  <2> QED
    BY <1>1, <1>4, <2>1, <2>2, OtherSteps
<1>6. FramesOK'
  BY <1>1, <1>2, SameSending
<1>7. FlagOK'
  BY <1>1, <1>4, FlagQuiet
<1> QED
  BY <1>4, <1>5, <1>6, <1>7, Together

LEMMA YieldKeeps ==
    ASSUME NEW q, Inv(q), NEW r \in SUBSET ToSet(tasks), InternalYield(MyStack, r),
           Doing # "sw", Doing \in {"proc", "own"} => Loops(habit),
           Doing = "own" => habit = "dialogs", Len(MyStack) < MaxDepth,
           Len(q) # 0 => ~frame[q[1]].bSendCompleted, sending' = sending, habit' = habit
    PROVE  IInv'
<1>1. TasksOK /\ StacksOK /\ FramesOK
  BY DEF Inv
<1>2. TasksOK' /\ StacksOK' /\ Stacks' /\ CallsKept(hCurrentTask, 0)
  BY <1>1, YieldControl
<1>3. \A i \in 1..Len(q) : ~Pending(q[i])
  BY NothingPending
<1>4. SendsOK(q)'
  BY <1>2, <1>3, OtherSteps
<1>5. FramesOK'
  BY <1>1, SameSending
<1>6. FlagOK'
  BY <1>2, FlagQuiet
<1> QED
  BY <1>2, <1>4, <1>5, <1>6, Together

LEMMA AppYieldKeeps ==
    ASSUME NEW q, Inv(q), AppYield, habit' = habit
    PROVE  IInv'
<1>1. /\ Doing \in {"app", "proc", "own"} /\ (Doing \in {"proc", "own"} => Loops(habit))
      /\ Doing = "own" => habit = "dialogs"
      /\ Len(MyStack) < MaxDepth /\ InternalYield(MyStack, TASK_READY \cup {hCurrentTask})
      /\ sending' = sending
  BY DEF AppYield, CanRun, Yielders, Yield
<1>2. TASK_READY \cup {hCurrentTask} \in SUBSET ToSet(tasks)
  BY DEF Inv, TasksOK
<1>3. Len(q) # 0 => ~frame[q[1]].bSendCompleted
  BY <1>1, CompletedTop
<1> QED
  BY <1>1, <1>2, <1>3, YieldKeeps

LEMMA WaitMessageKeeps ==
    ASSUME NEW q, Inv(q), WaitMessage, habit' = habit
    PROVE  IInv'
<1>1. Doing = "wait"
  BY DEF WaitMessage, CanRun
<1>2. ~Receivable
  BY <1>1, NothingPending
<1>3. PICK r \in {TASK_READY, TASK_READY \cup {hCurrentTask}} : InternalYield(MyStack, r) /\ sending' = sending
  BY <1>2 DEF WaitMessage
<1>4. r \in SUBSET ToSet(tasks)
  BY <1>3 DEF Inv, TasksOK
<1>5. Len(q) # 0 => ~frame[q[1]].bSendCompleted
  BY <1>1, CompletedTop
<1>6. Len(MyStack) < MaxDepth
  BY <1>1, TopOfStack DEF Inv
<1> QED
  BY <1>1, <1>3, <1>4, <1>5, <1>6, YieldKeeps

(* The call that is not answered is the last one of its task, so no other is *)
(* answered that returns before it.                                          *)
LEMMA SendWaitKeeps ==
    ASSUME NEW q, Inv(q), SendWait, habit' = habit
    PROVE  IInv'
<1>1. Doing = "send" /\ ~frame[<<hCurrentTask, Len(MyStack)>>].bSendCompleted
  BY DEF SendWait, CanRun
<1>2. ~Receivable
  BY <1>1, NothingPending
<1>3. InternalYield(MyStack, TASK_READY \cup {hCurrentTask}) /\ sending' = sending
  BY <1>2 DEF SendWait, Yield
<1>4. TASK_READY \cup {hCurrentTask} \in SUBSET ToSet(tasks)
  BY DEF Inv, TasksOK
<1>5. Len(MyStack) < MaxDepth
  BY <1>1, TopOfStack DEF Inv
<1>6. Len(q) # 0 => ~frame[q[1]].bSendCompleted
  <2> SUFFICES ASSUME Len(q) # 0, frame[q[1]].bSendCompleted PROVE FALSE
    OBVIOUS
  <2>1. PICK c, n : c = hCurrentTask /\ n = Len(MyStack)
    OBVIOUS
  <2>2. /\ c \in HTASK /\ n \in Nat /\ stack[c][n].kind = "send" /\ Len(stack[c]) = n
        /\ <<c, n>> \in Addr /\ <<c, n>>[1] = c /\ <<c, n>>[2] = n
    BY <1>1, <2>1, TopFacts
  <2>3. Live(<<c, n>>)
    BY <2>2 DEF Live
  <2>4. PICK j \in 1..Len(q) : q[j] = <<c, n>>
    BY <2>2, <2>3 DEF Inv, SendsOK, CallsListed
  <2>5. 1 \in 1..Len(q) /\ q[1][1] = c /\ j # 1
    BY <1>1, <2>1, <2>4, ListFacts, CompletedTop
  <2>6. q[1][2] \in 1..n
    BY <2>1, <2>5, LiveBelow
  <2>7. q[1][2] > q[j][2]
    <3>1. 1 < j /\ q[j][1] = c
      BY <2>2, <2>4, <2>5
    <3> QED
      BY <2>5, <3>1 DEF Inv, SendsOK, CallsListed
  <2> QED
    BY <2>2, <2>4, <2>6, <2>7
<1> QED
  BY <1>1, <1>3, <1>4, <1>5, <1>6, YieldKeeps

LEMMA SendReturnKeeps ==
    ASSUME NEW q, Inv(q), SendReturn, habit' = habit
    PROVE  IInv'
<1>1. PICK a : a = <<hCurrentTask, Len(MyStack)>>
  OBVIOUS
<1>2. /\ Doing = "send" /\ frame[a].bSendCompleted
      /\ lpSendMessageStack' = frame[a].prev /\ bInSendMessage' = frame[a].cInSendMessage
      /\ frame' = [frame EXCEPT ![a] = Nowhere]
      /\ stack' = [stack EXCEPT ![hCurrentTask] = Below]
      /\ UNCHANGED <<hCurrentTask, TASK_READY, tasking>>
  BY <1>1 DEF SendReturn, CanRun
<1>3. TasksOK /\ StacksOK /\ FramesOK /\ a \in Addr
  BY <1>1, TopFacts
<1>4. /\ TasksOK' /\ StacksOK' /\ Stacks' /\ CallsKept(hCurrentTask, Len(MyStack))
      /\ Len(stack'[hCurrentTask]) = Len(MyStack) - 1
  <2>1. Moves(Below, hCurrentTask) /\ doomed' = doomed /\ halted' = halted
    BY <1>2 DEF Moves, tasking
  <2>2. queued' \in [HTASK -> 0..MaxQueued]
    BY <1>2, <1>3 DEF TasksOK, tasking
  <2> QED
    BY <1>2, <1>3, <2>1, <2>2, PopControl
<1>5. (\E v : SendsOK(v)') /\ frame' \in [Addr -> Frame]
  BY <1>1, <1>2, <1>4, ReturnSends DEF tasking
<1>6. FramesOK'
  <2>1. frame[a] \in Frame
    BY <1>3 DEF FramesOK
  <2>2. frame[a].prev \in Addr \cup {NoFrame} /\ frame[a].cInSendMessage \in BOOLEAN
    BY <2>1, FrameFields
  <2> QED
    BY <1>2, <1>5, <2>2 DEF FramesOK
<1>7. FlagOK'
  <2> SUFFICES ASSUME habit \notin {"replies", "dialogs"} PROVE FlagOK'
    BY DEF FlagOK
  <2>1. PICK c, n, s : c = hCurrentTask /\ n = Len(MyStack) /\ s = stack'[hCurrentTask]
    OBVIOUS
  <2>2. /\ Stacks /\ c \in HTASK /\ stack[c] = MyStack /\ CallsKept(c, n) /\ n \in Nat
        /\ Len(s) = n - 1 /\ Len(s) \in Nat /\ a = <<c, n>> /\ a[1] = c /\ a[2] = n
        /\ MaxDepth \in Nat /\ n <= MaxDepth /\ MyStack[n].kind = "send"
    <3>1. c \in HTASK /\ Stacks /\ n \in 1..MaxDepth /\ MaxDepth \in Nat
          /\ MyStack[n].kind = Doing
      BY <2>1, TopFacts, Current, Constants
    <3> QED
      BY <1>1, <1>2, <1>3, <1>4, <2>1, <3>1, Constants DEF MyStack, Stacks
  <2>3. Live(a)
    BY <2>1, <2>2 DEF Live
  <2>4. \A i \in Nat : i # 0 /\ i < n => CallKept(MyStack, s, i)
    BY <2>1, <2>2 DEF CallsKept
  <2>5. ASSUME frame[a].prev = NoFrame PROVE FlagIn(s, MaxDepth + 1, frame[a].cInSendMessage)
    <3>1. FlagIn(MyStack, n, frame[a].cInSendMessage)
      BY <1>3, <2>2, <2>3, <2>5 DEF Inv, FlagOK
    <3>2. FlagIn(s, n, frame[a].cInSendMessage)
      BY <2>2, <2>4, <3>1, FlagKept
    <3>3. Len(s) < n /\ Len(s) < MaxDepth + 1 /\ MaxDepth + 1 \in Nat
      BY <2>2
    <3> QED
      BY <2>2, <3>2, <3>3, FlagAbove
  <2>6. ASSUME NEW b \in Addr, Live(b)', frame'[b].prev = NoFrame
        PROVE  FlagIn(stack'[b[1]], b[2], frame'[b].cInSendMessage)
    <3>1. b[1] \in HTASK /\ b[2] \in Nat /\ b[2] # 0
      BY Constants
    <3>2. b # a
      BY <2>1, <2>2, <2>6 DEF Live
    <3>3. b[1] # c \/ b[2] # n
      BY <2>2, <3>2, Constants
    <3>4. Live(b) /\ frame'[b] = frame[b]
      BY <1>2, <1>3, <1>4, <2>2, <2>6, <3>1, <3>2, <3>3, LiveKept DEF FramesOK
    <3>5. FlagIn(stack[b[1]], b[2], frame[b].cInSendMessage)
      BY <2>6, <3>4 DEF Inv, FlagOK
    <3>6. b[1] = c => b[2] <= n
      BY <2>1, <2>2, <3>4 DEF Live
    <3>7. \A i \in Nat : i # 0 /\ i < b[2] => CallKept(stack[b[1]], stack'[b[1]], i)
      BY <2>2, <3>1, <3>6 DEF CallsKept
    <3> QED
      BY <3>1, <3>4, <3>5, <3>7, FlagKept
  <2>7. MyStack' = s /\ lpSendMessageStack' = frame[a].prev /\ bInSendMessage' = frame[a].cInSendMessage
    BY <1>2, <2>1 DEF MyStack
  <2> QED
    BY <2>5, <2>6, <2>7 DEF FlagOK
<1> QED
  BY <1>4, <1>5, <1>6, <1>7, Together

(* What TWIN_ReceiveMessage calls the window procedure with.                 *)
LEMMA Received ==
    ASSUME NEW a \in Addr, NEW f \in Frame, NEW in \in BOOLEAN,
           NEW x, x = [kind |-> "proc", ptr |-> a, msg |-> f.msg, id |-> f.id,
                       yield |-> FALSE, in |-> in, calls |-> 0]
    PROVE  /\ x \in Activation /\ x.kind = "proc" /\ x.ptr = a /\ x.yield = FALSE
           /\ x.msg = f.msg /\ x.id = f.id
<1>1. f.msg \in MsgNo \cup {0} /\ f.id \in Ids \cup {0}
  BY FrameFields
<1>2. 0 \in 0..MaxCalls
  BY Constants
<1> QED
  BY <1>1, <1>2 DEF Activation

LEMMA ReceiveKeeps ==
    ASSUME NEW q, Inv(q), Doing = "sw", Receivable, Receive(Below, FALSE), habit' = habit
    PROVE  IInv'
<1>1. PICK a : a = lpSendMessageStack
  OBVIOUS
<1>2. PICK s, b : s = MyStack /\ b = Below
  OBVIOUS
<1>3. /\ 1 \in 1..Len(q) /\ a = q[1] /\ a \in Addr /\ Top = frame[a] /\ frame[a] \in Frame
      /\ Pending(q[1])
  BY <1>1, ListFacts DEF Receivable, Pending
<1>4. hCurrentTask \notin doomed
  BY <1>3 DEF Inv, SendsOK, MessagesOK, MessageOK, PendingOK
<1>5. PICK x : x = [kind |-> "proc", ptr |-> a, msg |-> Top.msg, id |-> Top.id,
                    yield |-> FALSE, in |-> bInSendMessage, calls |-> 0]
  OBVIOUS
<1>6. PICK v : v = Append(b, x)
  OBVIOUS
<1>7. /\ frame' = [frame EXCEPT ![a].bSendReceived = TRUE]
      /\ stack' = [stack EXCEPT ![hCurrentTask] = v]
      /\ bInSendMessage' = TRUE
      /\ UNCHANGED <<lpSendMessageStack, hCurrentTask, TASK_READY, tasking>>
  BY <1>1, <1>2, <1>5, <1>6 DEF Receive
<1>8. /\ x \in Activation /\ x.kind = "proc" /\ x.ptr = a /\ x.yield = FALSE
      /\ x.msg = Top.msg /\ x.id = Top.id
  <2>1. bInSendMessage \in BOOLEAN
    BY DEF Inv, FramesOK
  <2> QED
    BY <1>3, <1>5, <2>1, Received
<1>9. /\ TasksOK /\ StacksOK /\ FramesOK /\ hCurrentTask \in ToSet(tasks)
      /\ s \in Seq(Activation) /\ Len(s) \in Nat /\ s[Len(s)].kind = "sw"
      /\ Shape(s, hCurrentTask \in doomed, habit)
  BY <1>2, TopFacts, Current
<1>10. b \in Seq(Activation) /\ Popped(b, s) /\ Len(s) > 1
  <2>1. b \in Seq(Activation) /\ Popped(b, s) /\ Len(s) # 1
    BY <1>2, <1>9, TopOfStack
  <2>2. PICK n \in Nat : n = Len(s) /\ n # 1 /\ n \in 1..MaxDepth /\ MaxDepth \in Nat
    BY <1>2, <2>1, TopFacts
  <2>3. n > 1
    BY <2>2
  <2> QED
    BY <2>1, <2>2, <2>3
<1>11. /\ Shape(b, hCurrentTask \in doomed, habit) /\ Len(b) \in 1..(MaxDepth - 1)
       /\ Len(b) = Len(s) - 1 /\ b[Len(b)].kind # "sw" /\ MaxDepth \in Nat
       /\ b[Len(b)].kind = "own" => habit = "dialogs"
  BY <1>9, <1>10, ShapePopped, Constants
<1>12. v \in Seq(Activation) /\ HasLast(v, x, b)
  BY <1>6, <1>8, <1>10, AppendedSeq
<1>13. /\ Shape(v, hCurrentTask \in doomed, habit) /\ Len(v) = Len(s) /\ v[Len(v)] = x
       /\ Len(v) > 0
  <2>1. Len(b) > 0 /\ Len(b) < MaxDepth
    BY <1>11
  <2>2. MayPush(x, b, hCurrentTask \in doomed, hCurrentTask \in doomed, habit)
    BY <1>3, <1>4, <1>8, <1>11, <2>1 DEF MayPush
  <2>3. Shape(v, hCurrentTask \in doomed, habit) /\ Len(v) = Len(b) + 1 /\ v[Len(v)] = x
    BY <1>11, <1>12, <2>1, <2>2, ShapePushed
  <2>4. Len(b) + 1 = Len(s) /\ Len(s) > 0
    BY <1>9, <1>11
  <2> QED
    BY <2>3, <2>4
<1>14. TasksOK' /\ StacksOK'
  <2>1. Moves(v, hCurrentTask)
    BY <1>7 DEF Moves, tasking
  <2>2. /\ TASK_READY' \subseteq ToSet(tasks) /\ doomed' \subseteq ToSet(tasks) /\ halted' \in BOOLEAN
        /\ doomed' = doomed /\ queued' \in [HTASK -> 0..MaxQueued]
    BY <1>7, <1>9 DEF TasksOK, tasking
  <2> QED
    BY <1>9, <1>13, <2>1, <2>2, MovesKeep
<1>15. Stacks' /\ CallsKept(hCurrentTask, Len(s)) /\ stack'[hCurrentTask] = v
  <2>1. ASSUME NEW i \in Nat, i # Len(s) PROVE CallKept(s, v, i)
    <3>1. CallKept(s, b, i)
      BY <1>9, <1>10, <2>1, CallsPopped
    <3>2. i # Len(b) + 1
      BY <1>9, <1>11, <2>1
    <3>3. CallKept(b, v, i)
      BY <1>10, <1>12, <3>2, CallsPushed
    <3> QED
      BY <3>1, <3>3, CallsTwice
  <2> QED
    BY <1>2, <1>7, <1>9, <1>12, <2>1, MyCallsKept
<1>16. SendsOK(q)' /\ frame' \in [Addr -> Frame]
  <2>1. Answers(x, a)
    BY <1>3, <1>8 DEF Answers
  <2>2. Len(stack'[hCurrentTask]) = Len(MyStack) /\ stack'[hCurrentTask][Len(MyStack)] = x
    BY <1>2, <1>13, <1>15
  <2> QED
    BY <1>1, <1>2, <1>7, <1>15, <2>1, <2>2, ReceptionSends DEF tasking
<1>17. FramesOK'
  BY <1>7, <1>9, <1>16 DEF FramesOK
<1>18. FlagOK'
  <2>1. \A e \in Addr : /\ frame'[e].prev = frame[e].prev
                        /\ frame'[e].cInSendMessage = frame[e].cInSendMessage
    BY <1>3, <1>7, <1>9, FrameReceived DEF SameSend
  <2>2. /\ Len(s) \in Nat /\ lpSendMessageStack # NoFrame
        /\ stack'[hCurrentTask][Len(s)].kind # "send" /\ MyStack[Len(s)].kind # "send"
    BY <1>1, <1>2, <1>3, <1>8, <1>9, <1>13, <1>15, Constants
  <2> QED
    BY <1>2, <1>7, <1>15, <2>1, <2>2, FlagSends
<1> QED
  BY <1>14, <1>16, <1>17, <1>18, Together

LEMMA ResumeKeeps ==
    ASSUME NEW q, Inv(q), Resume, habit' = habit
    PROVE  IInv'
<1>1. Doing = "sw"
  BY DEF Resume, CanRun
<1>2. CASE Receivable
  <2>1. Receive(Below, FALSE)
    BY <1>2 DEF Resume
  <2> QED
    BY <1>1, <1>2, <2>1, ReceiveKeeps
<1>3. CASE ~Receivable
  <2>1. /\ stack' = [stack EXCEPT ![hCurrentTask] = Below]
        /\ UNCHANGED <<sending, hCurrentTask, TASK_READY, tasking>>
    BY <1>3 DEF Resume
  <2>2. TasksOK /\ StacksOK /\ FramesOK
    BY DEF Inv
  <2>3. TasksOK' /\ StacksOK' /\ Stacks' /\ CallsKept(hCurrentTask, 0)
    <3>1. Moves(Below, hCurrentTask) /\ doomed' = doomed /\ halted' = halted
      BY <2>1 DEF Moves, tasking
    <3>2. queued' \in [HTASK -> 0..MaxQueued]
      BY <2>1, <2>2 DEF TasksOK, tasking
    <3> QED
      BY <1>1, <2>1, <2>2, <3>1, <3>2, PopControl
  <2>4. SendsOK(q)'
    <3>1. \A i \in 1..Len(q) : ~Pending(q[i])
      BY <1>3, NothingPending
    <3>2. hCurrentTask' = hCurrentTask /\ Running' \subseteq Running /\ sending' = sending
      BY <2>1 DEF Running, tasking
    <3> QED
      BY <1>1, <2>3, <3>1, <3>2, OtherSteps
  <2>5. FramesOK'
    BY <2>1, <2>2, SameSending
  <2>6. FlagOK'
    BY <1>1, <2>1, <2>3, FlagQuiet
  <2> QED
    BY <2>3, <2>4, <2>5, <2>6, Together
<1> QED
  BY <1>2, <1>3

LEMMA CountedFacts ==
    ASSUME TasksOK, StacksOK, InProcedure => MyStack[Len(MyStack)].calls < MaxCalls
    PROVE  Counted \in Seq(Activation) /\ Recounted(Counted, MyStack)
<1>1. PICK s, n : s = MyStack /\ n = Len(MyStack)
  OBVIOUS
<1>2. s \in Seq(Activation) /\ n \in 1..Len(s) /\ s[n] \in Activation /\ MaxCalls \in Nat
  BY <1>1, Current, Constants
<1>3. CASE InProcedure
  <2>1. PICK x \in Activation : x = s[n]
    BY <1>2
  <2>2. PICK m : m = x.calls + 1
    OBVIOUS
  <2>3. m \in 0..MaxCalls
    <3>1. x.calls \in 0..MaxCalls /\ x.calls < MaxCalls
      BY <1>1, <1>3, <2>1, ActivationFields
    <3> QED
      BY <1>2, <2>2, <3>1
  <2>4. PICK y : y = [x EXCEPT !.calls = m]
    OBVIOUS
  <2>5. y \in Activation
    BY <2>3, <2>4 DEF Activation
  <2>6. Counted = [s EXCEPT ![n] = y]
    BY <1>1, <1>3, <2>1, <2>2, <2>4 DEF Counted
  <2>7. Counted \in Seq(Activation) /\ Len(Counted) = Len(s)
    BY <1>2, <2>5, <2>6
  <2>8. \A i \in 1..Len(s) : Counted[i] = IF i = n THEN y ELSE s[i]
    BY <1>2, <2>6
  <2> QED
    BY <1>1, <2>1, <2>3, <2>4, <2>7, <2>8 DEF Recounted
<1>4. CASE ~InProcedure
  BY <1>1, <1>2, <1>4 DEF Counted, Recounted
<1> QED
  BY <1>3, <1>4

(* Window procedures that do not yield: the running one has the last message *)
(* in its hands, if that is for its task.                                    *)
LEMMA MyHandler ==
    ASSUME NEW q, Inv(q), ForMe, Doing \notin {"sw", "own"}, ~Loops(habit)
    PROVE  Answers(MyStack[Len(MyStack)], q[1])
<1>1. /\ 1 \in 1..Len(q) /\ lpSendMessageStack = q[1] /\ q[1] \in Addr /\ Handled(q[1])
      /\ frame[q[1]].to = hCurrentTask /\ Len(q) \in Nat
  BY MineIsHandled, ListFacts
<1>2. PICK t \in HTASK, i \in Nat, j \in Nat : HandlerAt(q[1], t, i, j)
  BY <1>1 DEF Inv, SendsOK, HandlersOK
<1>3. /\ t = hCurrentTask /\ i \in 1..Len(MyStack) /\ Answers(MyStack[i], q[1])
      /\ j \in i..Len(MyStack) /\ \A k \in (i + 1)..j : MyStack[k].kind = "own"
  BY <1>1, <1>2 DEF HandlerAt, MyStack
<1>4. j = Len(MyStack)
  <2> SUFFICES ASSUME j # Len(MyStack) PROVE FALSE
    OBVIOUS
  <2>0. j \in 1..Len(MyStack)
    BY <1>3
  <2>1. SendsFor(q[1], t, j + 1)
    BY <1>2, <1>3 DEF HandlerAt, MyStack
  <2>2. j + 1 \in 1..MaxDepth /\ <<t, j + 1>> \in Addr /\ j + 1 \in 1..Len(stack[t])
    <3>1. StacksOK
      BY DEF Inv
    <3> QED
      BY <1>3, <2>0, <3>1, SenderAddr DEF MyStack
  <2>3. <<t, j + 1>>[1] = t /\ <<t, j + 1>>[2] = j + 1
    OBVIOUS
  <2>4. Live(<<t, j + 1>>)
    <3>1. j + 1 <= Len(stack[t])
      BY <2>2, TopFacts DEF Stacks
    <3> QED
      BY <2>1, <2>3, <3>1 DEF Live, SendsFor
  <2>5. PICK l \in 1..Len(q) : q[l] = <<t, j + 1>>
    BY <2>2, <2>4 DEF Inv, SendsOK, CallsListed
  <2>6. frame[q[l]].prev = q[1]
    BY <2>1, <2>5 DEF SendsFor
  <2>7. frame[q[l]].prev = IF l = Len(q) THEN NoFrame ELSE q[l + 1]
    BY DEF Inv, SendsOK, LinksOK
  <2>8. l # Len(q) /\ q[l + 1] = q[1]
    BY <1>1, <2>6, <2>7, Constants
  <2>9. l + 1 \in 1..Len(q) /\ l + 1 # 1
    BY <1>1, <2>8
  <2> QED
    BY <1>1, <2>8, <2>9 DEF Inv, SendsOK, LinksOK
<1>5. i = j
  <2> SUFFICES ASSUME i # j PROVE FALSE
    OBVIOUS
  <2>1. j \in (i + 1)..j
    BY <1>3
  <2> QED
    BY <1>3, <1>4, <2>1 DEF Doing
<1> QED
  BY <1>3, <1>4, <1>5

(* ReplyMessage by the running task, which then does s, runs the sender.     *)
LEMMA ReplyControl ==
    ASSUME NEW q, Inv(q), ForMe, Doing # "sw", NEW r, NEW s, ReplyMessage(r, s),
           Shape(s, hCurrentTask \in doomed, habit), Len(s) > 0, Len(s) < MaxDepth,
           s[Len(s)].kind # "sw", s[Len(s)].kind = "own" => habit = "dialogs",
           \A i \in Nat : i # Len(MyStack) => CallKept(MyStack, s, i),
           habit' = habit
    PROVE  /\ TasksOK' /\ StacksOK' /\ Stacks' /\ CallsKept(hCurrentTask, Len(MyStack))
           /\ hCurrentTask' = Top.from /\ UNCHANGED <<lpSendMessageStack, tasking>>
           /\ frame' = [frame EXCEPT ![lpSendMessageStack].lResult = r,
                                     ![lpSendMessageStack].bSendCompleted = TRUE]
           /\ Len(stack'[hCurrentTask]) = Len(s) + 1
           /\ \A k \in 1..Len(s) : stack'[hCurrentTask][k] = s[k]
           /\ stack'[hCurrentTask][Len(s) + 1].kind = "sw"
<1>1. PICK c, u : c = hCurrentTask /\ u = Top.from
  OBVIOUS
<1>2. /\ 1 \in 1..Len(q) /\ q[1] \in Addr /\ q[1][1] = u /\ u \in HTASK /\ u # c
      /\ TasksOK /\ StacksOK /\ Stacks /\ c \in ToSet(tasks) /\ c \in HTASK
  BY <1>1, MineIsHandled, TopFacts
<1>3. u \in ToSet(tasks)
  <2>1. Live(q[1]) /\ q[1][2] \in 1..MaxDepth
    BY <1>2, ListFacts DEF Inv, SendsOK, CallsListed
  <2>2. Len(stack[u]) # 0
    BY <1>2, <2>1, Constants DEF Live, Stacks
  <2> QED
    BY <1>2, <2>2 DEF StacksOK, StackOK
<1>4. /\ stack' = [stack EXCEPT ![c] = Append(s, Act("sw"))]
      /\ TASK_READY' = (TASK_READY \cup {c}) \ {u} /\ hCurrentTask' = u
      /\ UNCHANGED <<lpSendMessageStack, tasking>>
      /\ frame' = [frame EXCEPT ![lpSendMessageStack].lResult = r,
                                ![lpSendMessageStack].bSendCompleted = TRUE]
  <2>1. InList(u) /\ u # hCurrentTask
    BY <1>1, <1>2, <1>3, Listed
  <2> QED
    BY <1>1, <2>1 DEF ReplyMessage, DirectedYield, InternalDirectedYield
<1>5. PICK w : /\ w = Append(s, Act("sw")) /\ w \in Seq(Activation)
               /\ Shape(w, c \in doomed, habit) /\ Switched(w) /\ Len(w) = Len(s) + 1
               /\ w[Len(w)] = Act("sw") /\ \A k \in 1..Len(s) : w[k] = s[k]
               /\ \A i \in Nat : CallKept(s, w, i)
  BY <1>1, SwitchPushed
<1>6. TasksOK' /\ StacksOK'
  <2>1. Moves(w, u)
    BY <1>1, <1>4, <1>5 DEF Moves, tasking
  <2>2. /\ TASK_READY' \subseteq ToSet(tasks) /\ doomed' \subseteq ToSet(tasks) /\ halted' \in BOOLEAN
        /\ doomed' = doomed /\ queued' \in [HTASK -> 0..MaxQueued]
    BY <1>2, <1>4 DEF TasksOK, tasking
  <2>3. Len(w) > 0
    BY <1>5 DEF Switched
  <2> QED
    BY <1>1, <1>2, <1>3, <1>5, <2>1, <2>2, <2>3, MovesKeep
<1>7. Stacks' /\ CallsKept(hCurrentTask, Len(MyStack)) /\ stack'[hCurrentTask] = w
  <2>1. \A i \in Nat : i # Len(MyStack) => CallKept(MyStack, w, i)
    BY <1>5, CallsTwice
  <2>2. stack' = [stack EXCEPT ![hCurrentTask] = w]
    BY <1>1, <1>4, <1>5
  <2> QED
    BY <1>2, <1>5, <2>1, <2>2, MyCallsKept
<1>8. Act("sw").kind = "sw"
  BY ActFields DEF Kinds
<1> QED
  BY <1>1, <1>4, <1>5, <1>6, <1>7, <1>8

LEMMA ReplyFrames ==
    ASSUME FramesOK, lpSendMessageStack' = lpSendMessageStack,
           bInSendMessage' \in BOOLEAN, frame' \in [Addr -> Frame]
    PROVE  FramesOK'
BY DEF FramesOK

LEMMA ProcReplyKeeps ==
    ASSUME NEW q, Inv(q), ProcReply, habit' = habit
    PROVE  IInv'
<1>1. PICK s, n : s = Counted /\ n = Len(MyStack)
  OBVIOUS
<1>2. /\ habit = "replies" /\ Doing = "proc" /\ ForMe /\ Len(MyStack) < MaxDepth
      /\ MyStack[Len(MyStack)].calls < MaxCalls
      /\ ReplyMessage(MyStack[Len(MyStack)].id, s) /\ bInSendMessage' = bInSendMessage
  BY <1>1 DEF ProcReply, CanRun, MayCall, InProcedure
<1>3. TasksOK /\ StacksOK /\ FramesOK /\ MyStack \in Seq(Activation) /\ n \in 1..Len(MyStack)
      /\ Shape(MyStack, hCurrentTask \in doomed, habit) /\ n \in 1..MaxDepth /\ MyStack[n].kind = Doing
  BY <1>1, TopFacts, Current
<1>4. s \in Seq(Activation) /\ Recounted(s, MyStack)
  BY <1>1, <1>2, <1>3, CountedFacts
<1>5. /\ Shape(s, hCurrentTask \in doomed, habit) /\ Len(s) = n /\ s[n].kind = "proc"
      /\ \A i \in Nat : CallKept(MyStack, s, i)
  <2>1. Shape(s, hCurrentTask \in doomed, habit) /\ Len(s) = n
    BY <1>1, <1>3, <1>4, ShapeRecounted
  <2>2. s[n].kind = "proc"
    BY <1>2, <1>3, <1>4, RecountedFields
  <2> QED
    BY <1>3, <1>4, <2>1, <2>2, CallsRecounted
<1>6. /\ TasksOK' /\ StacksOK' /\ Stacks' /\ CallsKept(hCurrentTask, Len(MyStack))
      /\ hCurrentTask' = Top.from /\ UNCHANGED <<lpSendMessageStack, tasking>>
      /\ frame' = [frame EXCEPT ![lpSendMessageStack].lResult = MyStack[n].id,
                                ![lpSendMessageStack].bSendCompleted = TRUE]
      /\ stack'[hCurrentTask][n] = s[n]
  <2>1. Len(s) > 0 /\ Len(s) < MaxDepth /\ n \in 1..Len(s)
    BY <1>1, <1>2, <1>3, <1>5, Constants
  <2> QED
    BY <1>1, <1>2, <1>5, <2>1, ReplyControl
<1>7. Answers(MyStack[n], q[1])
  BY <1>1, <1>2, MyHandler
<1>8. MyStack[n].id = Top.id /\ MyStack[n].id \in Ids \cup {0}
  <2>1. Top = frame[q[1]] /\ MyStack[n] \in Activation
    BY <1>1, <1>2, <1>3, MineIsHandled
  <2> QED
    BY <1>7, <2>1, ActivationFields DEF Answers
<1>9. SendsOK(q)' /\ frame' \in [Addr -> Frame]
  BY <1>1, <1>2, <1>5, <1>6, <1>8, ReplySends DEF tasking
<1>10. FramesOK'
  BY <1>2, <1>3, <1>6, <1>9, ReplyFrames DEF FramesOK
<1>11. FlagOK'
  BY <1>2 DEF FlagOK
<1> QED
  BY <1>6, <1>9, <1>10, <1>11, Together

LEMMA ProcReturnKeeps ==
    ASSUME NEW q, Inv(q), ProcReturn, habit' = habit
    PROVE  IInv'
<1>1. PICK x, n, s, c : x = MyStack[Len(MyStack)] /\ n = Len(MyStack) /\ s = Below /\ c = hCurrentTask
  OBVIOUS
<1>2. Doing = "proc" /\ bInSendMessage' = x.in
  BY <1>1 DEF ProcReturn, CanRun
<1>3. /\ TasksOK /\ StacksOK /\ FramesOK /\ MyStack \in Seq(Activation) /\ n \in 1..Len(MyStack)
      /\ Shape(MyStack, c \in doomed, habit) /\ n \in 1..MaxDepth /\ MaxDepth \in Nat
      /\ x.kind = "proc" /\ x \in Activation /\ stack[c] = MyStack /\ c \in HTASK
  BY <1>1, <1>2, TopFacts, Current
<1>4. x.ptr \in Addr /\ x.yield = FALSE /\ bInSendMessage' \in BOOLEAN
  <2>1. ActOK(MyStack, n, c \in doomed, habit)
    BY <1>3 DEF Shape
  <2> QED
    BY <1>1, <1>2, <1>3, <2>1, ActivationFields DEF ActOK
<1>5. CASE x.ptr = lpSendMessageStack /\ x.msg = Top.msg /\ ForMe
  <2>1. ReplyMessage(x.id, s)
    BY <1>1, <1>5 DEF ProcReturn
  <2>2. /\ Shape(s, c \in doomed, habit) /\ Len(s) \in 1..(MaxDepth - 1) /\ Len(s) = n - 1
        /\ s[Len(s)].kind # "sw" /\ (s[Len(s)].kind = "own" => habit = "dialogs")
        /\ s \in Seq(Activation) /\ Popped(s, MyStack)
    <3>1. s \in Seq(Activation) /\ Popped(s, MyStack) /\ n # 1
      BY <1>1, <1>2, <1>3, TopOfStack
    <3>2. n > 1
      BY <1>3, <3>1
    <3> QED
      BY <1>1, <1>3, <3>1, <3>2, ShapePopped
  <2>3. \A i \in Nat : i # Len(MyStack) => CallKept(MyStack, s, i)
    BY <1>3, <2>2, CallsPopped
  <2>4. /\ TasksOK' /\ StacksOK' /\ Stacks' /\ CallsKept(hCurrentTask, Len(MyStack))
        /\ hCurrentTask' = Top.from /\ UNCHANGED <<lpSendMessageStack, tasking>>
        /\ frame' = [frame EXCEPT ![lpSendMessageStack].lResult = x.id,
                                  ![lpSendMessageStack].bSendCompleted = TRUE]
        /\ stack'[c][n].kind = "sw"
    <3>1. Len(s) > 0 /\ Len(s) < MaxDepth /\ Len(s) + 1 = n
      BY <1>3, <2>2
    <3> QED
      BY <1>1, <1>2, <1>5, <2>1, <2>2, <2>3, <3>1, ReplyControl
  <2>5. /\ 1 \in 1..Len(q) /\ lpSendMessageStack = q[1] /\ Top = frame[q[1]]
        /\ frame[q[1]].to = c
    BY <1>1, <1>2, <1>5, MineIsHandled
  <2>6. habit # "replies" => ProcOK(q, c, n) /\ ProcAt(c, n)
    <3>1. ProcAt(c, n)
      BY <1>1, <1>3 DEF ProcAt
    <3>2. n \in Nat
      BY <1>3
    <3> QED
      BY <1>3, <3>1, <3>2 DEF Inv, SendsOK, ProcsOK
  <2>7. x.id = Top.id /\ x.id \in Ids \cup {0}
    <3>1. CASE ~Loops(habit)
      BY <1>1, <1>2, <1>3, <1>5, <2>5, <3>1, MyHandler, ActivationFields DEF Answers
    <3>2. CASE Loops(habit)
      <4>1. PICK k \in 1..Len(q) : Answers(x, q[k])
        BY <1>1, <1>3, <2>6, <3>2 DEF ProcOK
      <4>2. q[k] = q[1]
        BY <1>5, <2>5, <4>1 DEF Answers
      <4> QED
        BY <1>3, <2>5, <4>1, <4>2, ActivationFields DEF Answers
    <3> QED
      BY <3>1, <3>2
  <2>8. ASSUME habit # "replies", NEW t \in HTASK, NEW i \in Nat, ProcAt(t, i)'
        PROVE  /\ ProcAt(t, i) /\ SameAct(stack[t][i], stack'[t][i])
               /\ stack[t][i].ptr # lpSendMessageStack
    <3>1. t # c \/ i # n
      BY <2>4, <2>8 DEF ProcAt
    <3>2. ProcAt(t, i) /\ SameAct(stack[t][i], stack'[t][i])
      BY <1>1, <2>4, <2>8, <3>1, ProcKept
    <3>3. CASE t = c
      <4>1. stack[c][i].ptr # stack[c][n].ptr
        BY <1>3, <2>6, <2>8, <3>1, <3>2, <3>3 DEF Inv, SendsOK, ProcsOK
      <4> QED
        BY <1>1, <1>3, <1>5, <3>2, <3>3, <4>1
    <3>4. CASE t # c
      <4>1. ProcOK(q, t, i)
        BY <2>8, <3>2 DEF Inv, SendsOK, ProcsOK
      <4>2. PICK k \in 1..Len(q) : Answers(stack[t][i], q[k]) /\ frame[q[k]].to = t
        BY <4>1 DEF ProcOK
      <4> QED
        BY <2>5, <3>2, <3>4, <4>2 DEF Answers
    <3> QED
      BY <3>3, <3>4
  <2>9. SendsOK(q)' /\ frame' \in [Addr -> Frame]
    BY <1>1, <1>2, <1>5, <2>4, <2>7, <2>8, ReplySends DEF tasking
  <2>10. FramesOK'
    BY <1>3, <1>4, <2>4, <2>9, ReplyFrames
  <2>11. FlagOK'
    <3>1. \A b \in Addr : /\ frame'[b].prev = frame[b].prev
                          /\ frame'[b].cInSendMessage = frame[b].cInSendMessage
      BY <1>3, <1>4, <1>5, <2>4, <2>7, FrameCompleted DEF SameSend
    <3>2. lpSendMessageStack # NoFrame
      BY <1>4, <1>5, Constants
    <3>3. Len(MyStack) \in Nat /\ MyStack[Len(MyStack)].kind # "send"
          /\ stack'[hCurrentTask][Len(MyStack)].kind # "send"
      BY <1>1, <1>3, <2>4
    <3>4. /\ Len(MyStack) <= Len(MyStack) /\ lpSendMessageStack' = lpSendMessageStack
          /\ CallsKept(hCurrentTask, Len(MyStack)) /\ Stacks'
      BY <2>4, <3>3
    <3> QED
      BY <3>1, <3>2, <3>3, <3>4, FlagSends
  <2> QED
    BY <2>4, <2>9, <2>10, <2>11, Together
<1>6. CASE ~(x.ptr = lpSendMessageStack /\ x.msg = Top.msg /\ ForMe)
  <2>1. /\ stack' = [stack EXCEPT ![hCurrentTask] = Below]
        /\ UNCHANGED <<lpSendMessageStack, frame, hCurrentTask, TASK_READY, tasking>>
    BY <1>1, <1>4, <1>6 DEF ProcReturn
  <2>2. /\ TasksOK' /\ StacksOK' /\ Stacks' /\ CallsKept(hCurrentTask, Len(MyStack))
        /\ Len(stack'[hCurrentTask]) = Len(MyStack) - 1
    <3>1. Moves(Below, hCurrentTask) /\ doomed' = doomed /\ halted' = halted
      BY <2>1 DEF Moves, tasking
    <3>2. queued' \in [HTASK -> 0..MaxQueued]
      BY <1>3, <2>1 DEF TasksOK, tasking
    <3> QED
      BY <1>2, <1>3, <2>1, <3>1, <3>2, PopControl
  <2>3. SendsOK(q)'
    BY <1>1, <1>2, <1>6, <2>1, <2>2, SilentReturn DEF tasking
  <2>4. FramesOK'
    BY <1>3, <1>4, <2>1 DEF FramesOK
  <2>5. habit # "replies" => lpSendMessageStack # NoFrame
    <3> SUFFICES ASSUME habit # "replies" PROVE lpSendMessageStack # NoFrame
      OBVIOUS
    <3>1. n \in Nat /\ ProcAt(c, n)
      BY <1>1, <1>3 DEF ProcAt
    <3>2. PICK k \in 1..Len(q) : Answers(x, q[k])
      BY <1>1, <1>3, <3>1 DEF Inv, SendsOK, ProcsOK, ProcOK
    <3> QED
      BY <3>2, ListFacts
  <2>6. FlagOK'
    <3>1. /\ Len(MyStack) \in Nat /\ MyStack[Len(MyStack)].kind # "send"
          /\ Len(MyStack) \notin 1..Len(stack'[hCurrentTask])
      BY <1>1, <1>3, <2>2
    <3> QED
      BY <2>1, <2>2, <2>5, <3>1, FlagSends
  <2> QED
    BY <2>2, <2>3, <2>4, <2>6, Together
<1> QED
  BY <1>5, <1>6

(* Whoever has a message to answer while it ends has lost the procedure that *)
(* was to: only those of tasks that yield in procedures do.                  *)
LEMMA ExitingKeeps ==
    ASSUME NEW q, Inv(q), Exiting, habit' = habit
    PROVE  IInv'
<1>1. PICK c, n : c = hCurrentTask /\ n = Len(MyStack)
  OBVIOUS
<1>2. Doing = "exit"
  BY DEF Exiting, CanRun
<1>3. /\ TasksOK /\ StacksOK /\ FramesOK /\ MyStack \in Seq(Activation) /\ n \in 1..Len(MyStack)
      /\ Shape(MyStack, c \in doomed, habit) /\ n \in 1..MaxDepth /\ MaxDepth \in Nat
      /\ MyStack[n].kind = "exit" /\ stack[c] = MyStack /\ c \in HTASK
      /\ n = 2 /\ n < MaxDepth /\ c \in doomed
  BY <1>1, <1>2, TopFacts, TopOfStack, Current
<1>4. CASE ForMe
  <2>1. ReplyMessage(0, MyStack) /\ bInSendMessage' = bInSendMessage
    BY <1>4 DEF Exiting
  <2>2. /\ TasksOK' /\ StacksOK' /\ Stacks' /\ CallsKept(hCurrentTask, Len(MyStack))
        /\ hCurrentTask' = Top.from /\ UNCHANGED <<lpSendMessageStack, tasking>>
        /\ frame' = [frame EXCEPT ![lpSendMessageStack].lResult = 0,
                                  ![lpSendMessageStack].bSendCompleted = TRUE]
        /\ stack'[c][n].kind = "exit"
    <3>1. /\ Len(MyStack) > 0 /\ Len(MyStack) < MaxDepth /\ MyStack[Len(MyStack)].kind \notin {"sw", "own"}
          /\ Shape(MyStack, hCurrentTask \in doomed, habit)
      BY <1>1, <1>3
    <3>2. \A i \in Nat : CallKept(MyStack, MyStack, i)
      BY DEF CallKept, SameAct
    <3>3. PICK s : s = MyStack
      OBVIOUS
    <3>4. /\ TasksOK' /\ StacksOK' /\ Stacks' /\ CallsKept(hCurrentTask, Len(MyStack))
          /\ hCurrentTask' = Top.from /\ UNCHANGED <<lpSendMessageStack, tasking>>
          /\ frame' = [frame EXCEPT ![lpSendMessageStack].lResult = 0,
                                    ![lpSendMessageStack].bSendCompleted = TRUE]
          /\ \A k \in 1..Len(s) : stack'[hCurrentTask][k] = s[k]
      BY <1>2, <1>4, <2>1, <3>1, <3>2, <3>3, ReplyControl
    <3> QED
      BY <1>1, <1>3, <3>3, <3>4
  <2>3. Loops(habit)
    <3> SUFFICES ASSUME ~Loops(habit) PROVE FALSE
      OBVIOUS
    <3>1. Answers(MyStack[Len(MyStack)], q[1])
      BY <1>2, <1>4, MyHandler
    <3> QED
      BY <1>1, <1>3, <3>1 DEF Answers
  <2>4. /\ lpSendMessageStack = q[1] /\ frame[q[1]].to = c
    BY <1>1, <1>2, <1>4, MineIsHandled
  <2>5. \A i \in Nat : ~ProcAt(c, i)
    <3>1. ASSUME NEW i \in 1..n PROVE MyStack[i].kind # "proc"
      <4>1. ActOK(MyStack, i, c \in doomed, habit)
        BY <1>1, <1>3 DEF Shape
      <4>2. i = 1 \/ i = n
        BY <1>3
      <4> QED
        BY <1>3, <4>1, <4>2 DEF ActOK
    <3> QED
      BY <1>1, <1>3, <3>1 DEF ProcAt
  <2>6. ASSUME NEW t \in HTASK, NEW i \in Nat, ProcAt(t, i)'
        PROVE  /\ ProcAt(t, i) /\ SameAct(stack[t][i], stack'[t][i])
               /\ stack[t][i].ptr # lpSendMessageStack
    <3>1. t # c \/ i # n
      BY <2>2, <2>6 DEF ProcAt
    <3>2. ProcAt(t, i) /\ SameAct(stack[t][i], stack'[t][i])
      BY <1>1, <2>2, <2>6, <3>1, ProcKept
    <3>3. t # c
      BY <2>5, <3>2
    <3>4. PICK k \in 1..Len(q) : Answers(stack[t][i], q[k]) /\ frame[q[k]].to = t
      BY <2>3, <3>2 DEF Inv, SendsOK, ProcsOK, ProcOK
    <3> QED
      BY <2>4, <3>2, <3>3, <3>4 DEF Answers
  <2>7. SendsOK(q)' /\ frame' \in [Addr -> Frame]
    BY <1>1, <1>2, <1>3, <1>4, <2>2, <2>3, <2>6, ReplySends DEF tasking
  <2>8. FramesOK'
    BY <1>3, <2>1, <2>2, <2>7, ReplyFrames DEF FramesOK
  <2>9. FlagOK'
    <3>1. \A b \in Addr : /\ frame'[b].prev = frame[b].prev
                          /\ frame'[b].cInSendMessage = frame[b].cInSendMessage
      <4>1. 0 \in Ids \cup {0} /\ lpSendMessageStack \in Addr
        BY <1>2, <1>4, MineIsHandled
      <4> QED
        BY <1>3, <2>2, <4>1, FrameCompleted DEF SameSend
    <3>2. lpSendMessageStack # NoFrame
      BY <1>4 DEF ForMe
    <3>3. Len(MyStack) \in Nat /\ MyStack[Len(MyStack)].kind # "send"
          /\ stack'[hCurrentTask][Len(MyStack)].kind # "send"
      BY <1>1, <1>3, <2>2
    <3>4. /\ Len(MyStack) <= Len(MyStack) /\ lpSendMessageStack' = lpSendMessageStack
          /\ CallsKept(hCurrentTask, Len(MyStack)) /\ Stacks'
      BY <2>2, <3>3
    <3> QED
      BY <3>1, <3>2, <3>3, <3>4, FlagSends
  <2> QED
    BY <2>2, <2>7, <2>8, <2>9, Together
<1>5. CASE ~ForMe
  <2>1. InternalYield(MyStack, TASK_READY) /\ sending' = sending
    BY <1>5 DEF Exiting
  <2>2. TASK_READY \in SUBSET ToSet(tasks)
    BY <1>3 DEF TasksOK
  <2>3. Len(q) # 0 => ~frame[q[1]].bSendCompleted
    BY <1>2, CompletedTop
  <2> QED
    BY <1>1, <1>2, <1>3, <2>1, <2>2, <2>3, YieldKeeps
<1> QED
  BY <1>4, <1>5

LEMMA AddrFinite ==
    IsFiniteSet(Addr) /\ IsFiniteSet(LiveFrames) /\ Cardinality(LiveFrames) <= Cardinality(Addr)
    /\ Cardinality(Addr) \in Nat /\ Cardinality(LiveFrames) \in Nat
<1>1. IsFiniteSet(1..MaxDepth)
  BY Constants, FS_Interval
<1>2. IsFiniteSet(Addr)
  BY <1>1, TaskAssumption, FS_Product DEF Addr
<1>3. LiveFrames \in SUBSET Addr
  BY DEF LiveFrames
<1>4. IsFiniteSet(LiveFrames) /\ Cardinality(LiveFrames) <= Cardinality(Addr)
  BY <1>2, <1>3, FS_Subset
<1> QED
  BY <1>2, <1>4, FS_CardinalityType

(* There are more names than frames.                                         *)
LEMMA NextIdOK == NextId \in Ids
<1> DEFINE free == Ids \ {frame[a].id : a \in LiveFrames}
<1>1. free # {}
  <2> SUFFICES ASSUME free = {} PROVE FALSE
    OBVIOUS
  <2>1. \A i \in Ids : \E a \in LiveFrames : frame[a].id = i
    OBVIOUS
  <2> DEFINE g == [i \in Ids |-> CHOOSE a \in LiveFrames : frame[a].id = i]
  <2>2. g \in [Ids -> LiveFrames] /\ \A i \in Ids : frame[g[i]].id = i
    BY <2>1
  <2> HIDE DEF g, free
  <2>3. PICK n \in Nat : n = Cardinality(Addr) /\ Cardinality(LiveFrames) <= n
                         /\ Cardinality(LiveFrames) \in Nat
    BY AddrFinite
  <2>4. IsFiniteSet(1..(n + 1)) /\ Cardinality(1..(n + 1)) = n + 1
    <3>1. n + 1 \in Int /\ ~(1 > n + 1) /\ n + 1 - 1 + 1 = n + 1
      OBVIOUS
    <3> QED
      BY <3>1, FS_Interval
  <2>5. Ids = 1..(n + 1)
    BY <2>3 DEF Ids
  <2>6. IsFiniteSet(Ids) /\ Cardinality(LiveFrames) < Cardinality(Ids)
    BY <2>3, <2>4, <2>5
  <2>7. \E i, j \in Ids : i # j /\ g[i] = g[j]
    BY <2>2, <2>6, AddrFinite, FS_PigeonHole
  <2> QED
    BY <2>2, <2>7
<1>2. free \in SUBSET Nat
  BY Constants
<1>3. Min(free) \in free
  BY <1>1, <1>2, MinOfNats
<1> QED
  BY <1>3 DEF NextId

LEMMA SentFrame ==
    ASSUME NEW prev \in Addr \cup {NoFrame}, NEW from \in HTASK, NEW to \in HTASK, NEW m \in MsgNo,
           NEW id \in Ids, NEW in \in BOOLEAN,
           NEW f, f = [prev |-> prev, from |-> from, to |-> to, msg |-> m, id |-> id, lResult |-> 0,
                       bSendReceived |-> FALSE, bSendCompleted |-> FALSE, cInSendMessage |-> in]
    PROVE  /\ f \in Frame /\ f.prev = prev /\ f.from = from /\ f.to = to
           /\ ~f.bSendReceived /\ ~f.bSendCompleted /\ f.cInSendMessage = in
BY DEF Frame

LEMMA SendMessageKeeps ==
    ASSUME NEW q, Inv(q), NEW t \in HTASK, NEW m \in MsgNo, SendMessage(t, m), habit' = habit
    PROVE  IInv'
<1>1. PICK c, n : c = hCurrentTask /\ n = Len(MyStack)
  OBVIOUS
<1>2. PICK a : a = <<c, n + 1>>
  OBVIOUS
<1>3. PICK f : f = [prev |-> lpSendMessageStack, from |-> c, to |-> t,
                    msg |-> m, id |-> NextId, lResult |-> 0,
                    bSendReceived |-> FALSE, bSendCompleted |-> FALSE,
                    cInSendMessage |-> bInSendMessage]
  OBVIOUS
<1>4. PICK s : s = Counted
  OBVIOUS
<1>5. PICK v : v = Append(s, Act("send"))
  OBVIOUS
<1>6. /\ Doing \in {"app", "proc", "own"} /\ InList(t) /\ t # c /\ t \notin doomed
      /\ n + 2 <= MaxDepth
      /\ InProcedure => MyStack[Len(MyStack)].calls < MaxCalls
      /\ frame' = [frame EXCEPT ![a] = f] /\ lpSendMessageStack' = a /\ bInSendMessage' = TRUE
      /\ DirectedYield(t, v)
      /\ UNCHANGED tasking
  BY <1>1, <1>2, <1>3, <1>4, <1>5 DEF SendMessage, CanRun, MayCall
<1>7. /\ TasksOK /\ StacksOK /\ FramesOK /\ MyStack \in Seq(Activation) /\ n \in Nat
      /\ Shape(MyStack, c \in doomed, habit) /\ n \in 1..MaxDepth /\ MaxDepth \in Nat
      /\ MyStack[n].kind = Doing /\ stack[c] = MyStack /\ c \in HTASK /\ c \in ToSet(tasks)
      /\ t \in ToSet(tasks) /\ c \notin doomed /\ n \in 1..Len(MyStack)
  BY <1>1, <1>6, TopFacts, Current, TopOfStack, Listed
<1>8. a \in Addr /\ n + 1 \in 1..MaxDepth /\ n < MaxDepth /\ n + 1 < MaxDepth
  <2>1. n + 1 \in 1..MaxDepth /\ n < MaxDepth /\ n + 1 < MaxDepth
    BY <1>6, <1>7
  <2> QED
    BY <1>2, <1>7, <2>1, Constants
<1>9. /\ f \in Frame /\ f.prev = lpSendMessageStack /\ f.from = c /\ f.to = t
      /\ ~f.bSendReceived /\ ~f.bSendCompleted /\ f.cInSendMessage = bInSendMessage
  <2>1. lpSendMessageStack \in Addr \cup {NoFrame} /\ bInSendMessage \in BOOLEAN
    BY <1>7 DEF FramesOK
  <2> QED
    BY <1>3, <1>7, <2>1, NextIdOK, SentFrame
<1>10. /\ stack' = [stack EXCEPT ![c] = Append(v, Act("sw"))]
       /\ TASK_READY' = (TASK_READY \cup {c}) \ {t} /\ hCurrentTask' = t
  BY <1>1, <1>6 DEF DirectedYield, InternalDirectedYield
<1>11. /\ s \in Seq(Activation) /\ Shape(s, c \in doomed, habit) /\ Len(s) = n
       /\ s[n].kind = Doing /\ \A i \in Nat : CallKept(MyStack, s, i)
  <2>1. s \in Seq(Activation) /\ Recounted(s, MyStack)
    BY <1>4, <1>6, <1>7, CountedFacts
  <2>2. Shape(s, c \in doomed, habit) /\ Len(s) = n
    BY <1>1, <1>7, <2>1, ShapeRecounted
  <2>3. s[n].kind = Doing
    BY <1>7, <2>1, RecountedFields
  <2> QED
    BY <1>7, <2>1, <2>2, <2>3, CallsRecounted
<1>12. /\ v \in Seq(Activation) /\ Shape(v, c \in doomed, habit) /\ Len(v) = n + 1
       /\ v[Len(v)].kind = "send"
       /\ \A i \in Nat : i # n + 1 => CallKept(s, v, i)
  <2>1. PICK x : x = Act("send") /\ x \in Activation /\ x.kind = "send"
    BY ActFields DEF Kinds
  <2>2. v \in Seq(Activation) /\ HasLast(v, x, s)
    BY <1>5, <1>11, <2>1, AppendedSeq
  <2>3. MayPush(x, s, c \in doomed, c \in doomed, habit)
    BY <1>7, <1>8, <1>11, <2>1 DEF MayPush
  <2>4. Len(s) > 0 /\ s[Len(s)].kind # "sw"
    BY <1>6, <1>7, <1>11
  <2>5. Shape(v, c \in doomed, habit) /\ Len(v) = Len(s) + 1 /\ v[Len(v)] = x
    BY <1>11, <2>2, <2>3, <2>4, ShapePushed
  <2>6. \A i \in Nat : i # Len(s) + 1 => CallKept(s, v, i)
    BY <1>11, <2>2, CallsPushed
  <2> QED
    BY <1>11, <2>1, <2>2, <2>5, <2>6
<1>13. PICK w : /\ w = Append(v, Act("sw")) /\ w \in Seq(Activation)
                /\ Shape(w, c \in doomed, habit) /\ Switched(w) /\ Len(w) = Len(v) + 1
                /\ \A k \in 1..Len(v) : w[k] = v[k]
                /\ \A i \in Nat : CallKept(v, w, i)
  <2>1. Len(v) > 0 /\ Len(v) < MaxDepth /\ v[Len(v)].kind # "sw"
    BY <1>7, <1>8, <1>12
  <2> QED
    BY <1>12, <2>1, SwitchPushed
<1>14. TasksOK' /\ StacksOK'
  <2>1. Moves(w, t)
    BY <1>1, <1>6, <1>10, <1>13 DEF Moves, tasking
  <2>2. /\ TASK_READY' \subseteq ToSet(tasks) /\ doomed' \subseteq ToSet(tasks) /\ halted' \in BOOLEAN
        /\ doomed' = doomed /\ queued' \in [HTASK -> 0..MaxQueued]
    BY <1>6, <1>7, <1>10 DEF TasksOK, tasking
  <2>3. Len(w) > 0
    BY <1>13 DEF Switched
  <2> QED
    BY <1>1, <1>7, <1>13, <2>1, <2>2, <2>3, MovesKeep
<1>15. Stacks' /\ CallsKept(hCurrentTask, n + 1) /\ stack'[hCurrentTask] = w
  <2>1. \A i \in Nat : i # n + 1 => CallKept(MyStack, w, i)
    <3>1. ASSUME NEW i \in Nat, i # n + 1 PROVE CallKept(MyStack, w, i)
      <4>1. CallKept(MyStack, s, i) /\ CallKept(s, v, i) /\ CallKept(v, w, i)
        BY <1>11, <1>12, <1>13, <3>1
      <4>2. CallKept(MyStack, v, i)
        BY <4>1, CallsTwice
      <4> QED
        BY <4>1, <4>2, CallsTwice
    <3> QED
      BY <3>1
  <2>2. stack' = [stack EXCEPT ![hCurrentTask] = w]
    BY <1>1, <1>10, <1>13
  <2> QED
    BY <1>7, <1>13, <2>1, <2>2, MyCallsKept
<1>16. n + 1 <= Len(w) /\ w[n + 1].kind = "send"
  BY <1>7, <1>12, <1>13
<1>17. Doing' = "sw"
  <2>1. Switched(stack[t])
    BY <1>1, <1>6, <1>7 DEF StacksOK, StackOK
  <2>2. stack'[t] = stack[t]
    BY <1>6, <1>7, <1>10 DEF StacksOK
  <2> QED
    BY <1>10, <2>1, <2>2 DEF Doing, MyStack, Switched
<1>18. (\E u : SendsOK(u)') /\ frame' \in [Addr -> Frame]
  BY <1>1, <1>2, <1>6, <1>8, <1>9, <1>10, <1>15, <1>16, <1>17, SentSends DEF tasking
<1>19. FramesOK'
  BY <1>6, <1>8, <1>18 DEF FramesOK
<1>20. FlagOK'
  <2> SUFFICES ASSUME habit \notin {"replies", "dialogs"}, NEW b \in Addr, Live(b)',
                      frame'[b].prev = NoFrame
               PROVE  FlagIn(stack'[b[1]], b[2], frame'[b].cInSendMessage)
    BY <1>6, <1>8, Constants DEF FlagOK
  <2>1. /\ Stacks /\ CallsKept(c, n + 1) /\ b[1] \in HTASK /\ b[2] \in Nat /\ b[2] # 0
        /\ n + 1 \in Nat /\ Len(MyStack) = n
    BY <1>1, <1>7, <1>15, Constants DEF StacksOK, Stacks
  <2>2. CASE b = a
    <3>1. b[1] = c /\ b[2] = n + 1 /\ frame'[b] = f
      BY <1>2, <1>6, <1>7, <1>8, <2>2, Constants DEF FramesOK
    <3>2. FlagIn(MyStack, MaxDepth + 1, bInSendMessage)
      BY <1>9, <2>2, <3>1 DEF Inv, FlagOK
    <3>3. FlagIn(MyStack, n + 1, bInSendMessage)
      BY <1>7, <2>1, <3>2, FlagAbove
    <3>4. \A i \in Nat : i # 0 /\ i < n + 1 => CallKept(MyStack, stack'[c], i)
      BY <1>7, <2>1 DEF CallsKept
    <3> QED
      BY <1>9, <2>1, <3>1, <3>3, <3>4, FlagKept
  <2>3. CASE b # a
    <3>1. b[1] # c \/ b[2] # n + 1
      BY <1>2, <2>3, Constants
    <3>2. Live(b) /\ frame'[b] = frame[b]
      BY <1>6, <1>7, <1>15, <2>1, <2>3, <3>1, LiveKept DEF FramesOK
    <3>3. FlagIn(stack[b[1]], b[2], frame[b].cInSendMessage)
      BY <3>2 DEF Inv, FlagOK
    <3>4. b[1] = c => b[2] <= n
      BY <1>7, <2>1, <3>2 DEF Live
    <3>5. \A i \in Nat : i # 0 /\ i < b[2] => CallKept(stack[b[1]], stack'[b[1]], i)
      BY <2>1, <3>4 DEF CallsKept
    <3> QED
      BY <2>1, <3>2, <3>3, <3>5, FlagKept
  <2> QED
    BY <2>2, <2>3
<1> QED
  BY <1>14, <1>18, <1>19, <1>20, Together

(* A message's handler at a place below the one where the step begins or ends *)
(* a procedure for the task's own message is where it was.                   *)
LEMMA OwnHandlers ==
    ASSUME NEW q, Inv(q), Stacks', NEW c, c = hCurrentTask, hCurrentTask' = hCurrentTask,
           lpSendMessageStack' = lpSendMessageStack, frame' = frame, habit' = habit,
           NEW n, CallsKept(c, n),
           n \in 1..Len(MyStack) => MyStack[n].kind # "send", n \notin 1..Len(MyStack) - 1,
           \A a \in Addr, i \in Nat : HandlerAt(a, c, i, Len(MyStack)) =>
              \E j \in Nat : HandlerAt(a, c, i, j)'
    PROVE  HandlersOK(q)'
<1>1. /\ Stacks /\ c \in HTASK /\ stack[c] = MyStack /\ Len(MyStack) \in Nat
      /\ \A k \in 1..Len(q) : q[k] \in Addr
  BY ListFacts, TopFacts DEF MyStack
<1> SUFFICES ASSUME ~Loops(habit), NEW k \in 1..Len(q), Handled(q[k])
             PROVE  \E t \in HTASK, i, j \in Nat : HandlerAt(q[k], t, i, j)'
  BY DEF HandlersOK, Handled
<1>2. PICK a \in Addr : a = q[k]
  BY <1>1
<1>3. PICK t \in HTASK, i \in Nat, j \in Nat : HandlerAt(a, t, i, j)
  BY <1>2 DEF Inv, SendsOK, HandlersOK
<1>4. CASE j # Len(stack[t])
  <2>1. /\ j \in i..Len(stack[t]) /\ i \in 1..Len(stack[t]) /\ SendsFor(a, t, j + 1)
        /\ Len(stack[t]) \in Nat
    BY <1>1, <1>3, <1>4 DEF HandlerAt, Stacks
  <2>2. t = c => n \notin i..(j + 1)
    <3> SUFFICES ASSUME t = c, n \in i..(j + 1) PROVE FALSE
      OBVIOUS
    <3>1. j + 1 <= Len(MyStack) /\ n \in 1..Len(MyStack) /\ j \in Nat
      BY <1>1, <1>4, <2>1
    <3>2. n = Len(MyStack)
      BY <1>1, <3>1
    <3>3. n = j + 1
      BY <1>1, <3>1, <3>2
    <3> QED
      BY <1>1, <2>1, <3>1, <3>3 DEF SendsFor
  <2>3. SameMessage(a) /\ frame'[<<t, j + 1>>].prev = frame[<<t, j + 1>>].prev
    BY DEF SameMessage
  <2>4. HandlerAt(a, t, i, j)'
    BY <1>1, <1>3, <1>4, <2>2, <2>3, HandlerKept
  <2> QED
    BY <1>2, <2>4
<1>5. CASE j = Len(stack[t])
  <2>1. t = c
    BY <1>3, <1>5 DEF HandlerAt
  <2>2. PICK m \in Nat : HandlerAt(a, c, i, m)'
    BY <1>1, <1>3, <1>5, <2>1
  <2> QED
    BY <1>1, <1>2, <2>2
<1> QED
  BY <1>4, <1>5

LEMMA CallOwnKeeps ==
    ASSUME NEW q, Inv(q), CallOwn, habit' = habit
    PROVE  IInv'
<1>1. PICK c, n : c = hCurrentTask /\ n = Len(MyStack)
  OBVIOUS
<1>2. PICK s, x : s = Counted /\ x = [Act("own") EXCEPT !.in = bInSendMessage]
  OBVIOUS
<1>3. PICK v : v = Append(s, x)
  OBVIOUS
<1>4. /\ Doing \in {"app", "proc", "own"} /\ n + 2 <= MaxDepth
      /\ InProcedure => MyStack[Len(MyStack)].calls < MaxCalls
      /\ stack' = [stack EXCEPT ![c] = v] /\ bInSendMessage' = TRUE
      /\ UNCHANGED <<lpSendMessageStack, frame, hCurrentTask, TASK_READY, tasking>>
  BY <1>1, <1>2, <1>3 DEF CallOwn, CanRun, MayCall
<1>5. /\ TasksOK /\ StacksOK /\ FramesOK /\ MyStack \in Seq(Activation) /\ n \in Nat
      /\ Shape(MyStack, c \in doomed, habit) /\ n \in 1..MaxDepth /\ MaxDepth \in Nat
      /\ MyStack[n].kind = Doing /\ stack[c] = MyStack /\ c \in HTASK /\ c \in ToSet(tasks)
      /\ c \notin doomed /\ n \in 1..Len(MyStack)
  BY <1>1, <1>4, TopFacts, Current, TopOfStack
<1>6. x \in Activation /\ x.kind = "own"
  <2>1. PICK y : y = Act("own") /\ y \in Activation /\ y.kind = "own"
    BY ActFields DEF Kinds
  <2>2. bInSendMessage \in BOOLEAN
    BY <1>5 DEF FramesOK
  <2>3. x = [y EXCEPT !.in = bInSendMessage]
    BY <1>2, <2>1
  <2> QED
    BY <2>1, <2>2, <2>3 DEF Activation
<1>7. /\ s \in Seq(Activation) /\ Recounted(s, MyStack) /\ Shape(s, c \in doomed, habit) /\ Len(s) = n
      /\ s[n].kind = Doing /\ \A i \in Nat : CallKept(MyStack, s, i)
  <2>1. s \in Seq(Activation) /\ Recounted(s, MyStack)
    BY <1>2, <1>4, <1>5, CountedFacts
  <2>2. Shape(s, c \in doomed, habit) /\ Len(s) = n
    BY <1>1, <1>5, <2>1, ShapeRecounted
  <2>3. s[n].kind = Doing
    BY <1>5, <2>1, RecountedFields
  <2> QED
    BY <1>5, <2>1, <2>2, <2>3, CallsRecounted
<1>8. /\ v \in Seq(Activation) /\ Shape(v, c \in doomed, habit) /\ Len(v) = n + 1
      /\ v[n + 1].kind = "own" /\ \A i \in 1..n : v[i] = s[i]
      /\ \A i \in Nat : i # n + 1 => CallKept(MyStack, v, i)
  <2>1. v \in Seq(Activation) /\ HasLast(v, x, s)
    BY <1>3, <1>6, <1>7, AppendedSeq
  <2>2. MayPush(x, s, c \in doomed, c \in doomed, habit)
    BY <1>4, <1>5, <1>6, <1>7 DEF MayPush
  <2>3. Len(s) > 0 /\ s[Len(s)].kind # "sw"
    BY <1>4, <1>5, <1>7
  <2>4. Shape(v, c \in doomed, habit) /\ Len(v) = Len(s) + 1 /\ v[Len(v)] = x
    BY <1>7, <2>1, <2>2, <2>3, ShapePushed
  <2>5. ASSUME NEW i \in Nat, i # n + 1 PROVE CallKept(MyStack, v, i)
    <3>1. CallKept(MyStack, s, i) /\ CallKept(s, v, i)
      BY <1>7, <2>1, <2>5, CallsPushed
    <3> QED
      BY <3>1, CallsTwice
  <2>6. \A i \in 1..n : v[i] = s[i]
    BY <1>7, <2>1 DEF HasLast
  <2> QED
    BY <1>6, <1>7, <2>1, <2>4, <2>5, <2>6
<1>9. TasksOK' /\ StacksOK'
  <2>1. Moves(v, c)
    BY <1>1, <1>4 DEF Moves, tasking
  <2>2. /\ TASK_READY' \subseteq ToSet(tasks) /\ doomed' \subseteq ToSet(tasks) /\ halted' \in BOOLEAN
        /\ doomed' = doomed /\ queued' \in [HTASK -> 0..MaxQueued]
    BY <1>4, <1>5 DEF TasksOK, tasking
  <2>3. Len(v) > 0
    BY <1>5, <1>8
  <2> QED
    BY <1>1, <1>5, <1>8, <2>1, <2>2, <2>3, MovesKeep
<1>10. Stacks' /\ CallsKept(hCurrentTask, n + 1) /\ stack'[hCurrentTask] = v
  <2>1. stack' = [stack EXCEPT ![hCurrentTask] = v]
    BY <1>1, <1>4
  <2> QED
    BY <1>5, <1>8, <2>1, MyCallsKept
<1>11. HandlersOK(q)'
  <2>1. ASSUME NEW a \in Addr, NEW i \in Nat, HandlerAt(a, c, i, n)
        PROVE  HandlerAt(a, c, i, n + 1)'
    <3>1. /\ frame[a].to = c /\ i \in 1..n /\ Answers(MyStack[i], a)
          /\ a = lpSendMessageStack /\ \A k \in (i + 1)..n : MyStack[k].kind = "own"
      BY <1>1, <1>5, <2>1 DEF HandlerAt
    <3>2. stack'[c] = v /\ Len(v) = n + 1 /\ i \in 1..Len(v) /\ n + 1 \in i..Len(v)
      BY <1>1, <1>5, <1>8, <1>10, <3>1
    <3>3. ASSUME NEW k \in (i + 1)..(n + 1) PROVE v[k].kind = "own"
      <4>1. k = n + 1 \/ (k \in 1..n /\ k \in (i + 1)..n)
        BY <1>5, <3>1
      <4>2. k \in 1..n => v[k] = s[k] /\ s[k].kind = MyStack[k].kind
        BY <1>1, <1>5, <1>7, <1>8, RecountedFields
      <4> QED
        BY <1>8, <3>1, <4>1, <4>2
    <3>4. Answers(v[i], a)'
      <4>1. v[i] = s[i] /\ s[i].kind = MyStack[i].kind /\ s[i].ptr = MyStack[i].ptr
            /\ s[i].msg = MyStack[i].msg /\ s[i].id = MyStack[i].id
        BY <1>1, <1>5, <1>7, <1>8, <3>1, RecountedFields
      <4> QED
        BY <1>4, <3>1, <4>1 DEF Answers
    <3> QED
      BY <1>1, <1>4, <3>1, <3>2, <3>3, <3>4 DEF HandlerAt
  <2>2. n + 1 \notin 1..Len(MyStack) /\ n + 1 \notin 1..Len(MyStack) - 1 /\ n + 1 \in Nat
    BY <1>1, <1>5
  <2> QED
    BY <1>1, <1>4, <1>10, <2>1, <2>2, OwnHandlers
<1>12. SendsOK(q)'
  <2>1. \A i \in 1..Len(q) : ~Pending(q[i])
    BY <1>4, NothingPending
  <2>2. hCurrentTask' = hCurrentTask /\ Running' \subseteq Running
    BY <1>4 DEF Running, tasking
  <2>3. /\ n + 1 \in 1..Len(MyStack) => MyStack[n + 1].kind \notin {"send", "proc"}
        /\ n + 1 \in 1..Len(stack'[hCurrentTask]) =>
              stack'[hCurrentTask][n + 1].kind \notin {"send", "proc"}
    BY <1>1, <1>5, <1>8, <1>10
  <2> QED
    BY <1>4, <1>10, <1>11, <2>1, <2>2, <2>3, QuietSteps
<1>13. FramesOK'
  BY <1>4, <1>5 DEF FramesOK
<1>14. FlagOK'
  <2> SUFFICES ASSUME habit \notin {"replies", "dialogs"} PROVE FlagOK'
    BY DEF FlagOK
  <2>1. CASE lpSendMessageStack # NoFrame
    <3>1. n + 1 \in Nat /\ Len(MyStack) <= n + 1 /\ n + 1 \notin 1..Len(MyStack)
      BY <1>1, <1>5
    <3> QED
      BY <1>4, <1>8, <1>10, <2>1, <3>1, FlagSends
  <2>2. CASE lpSendMessageStack = NoFrame
    <3>1. FlagIn(MyStack, MaxDepth + 1, bInSendMessage)
      BY <2>2 DEF Inv, FlagOK
    <3>2. v[n + 1].in = bInSendMessage
      BY <1>2, <1>3, <1>7, ActFields DEF Kinds, Act
    <3>3. FlagIn(v, MaxDepth + 1, TRUE)
      <4>1. /\ Len(v) = Len(MyStack) + 1 /\ Len(v) < MaxDepth + 1 /\ v[Len(v)].kind = "own"
            /\ v[Len(v)].in = bInSendMessage /\ MaxDepth + 1 \in Nat
            /\ \A i \in Nat : i # Len(v) => CallKept(MyStack, v, i)
        BY <1>1, <1>4, <1>5, <1>8, <3>2
      <4> QED
        BY <1>5, <1>8, <3>1, <4>1, FlagOwn
    <3>4. \A a \in Addr : ~Live(a)'
      <4>1. Len(q) = 0
        BY <2>2, ListFacts
      <4>2. CallsListed(q)'
        BY <1>12 DEF SendsOK
      <4> QED
        BY <4>1, <4>2 DEF CallsListed
    <3>5. MyStack' = v
      BY <1>4, <1>10 DEF MyStack
    <3> QED
      BY <1>4, <3>3, <3>4, <3>5 DEF FlagOK
  <2> QED
    BY <2>1, <2>2
<1> QED
  BY <1>9, <1>12, <1>13, <1>14, Together

LEMMA OwnReturnKeeps ==
    ASSUME NEW q, Inv(q), OwnReturn, habit' = habit
    PROVE  IInv'
<1>1. PICK c, n, v : c = hCurrentTask /\ n = Len(MyStack) /\ v = Below
  OBVIOUS
<1>2. /\ Doing = "own" /\ bInSendMessage' = MyStack[n].in
      /\ stack' = [stack EXCEPT ![c] = v]
      /\ UNCHANGED <<lpSendMessageStack, frame, hCurrentTask, TASK_READY, tasking>>
  BY <1>1 DEF OwnReturn, CanRun
<1>3. /\ TasksOK /\ StacksOK /\ FramesOK /\ MyStack \in Seq(Activation) /\ n \in Nat
      /\ n \in 1..Len(MyStack) /\ MyStack[n].kind = Doing /\ stack[c] = MyStack /\ c \in HTASK
      /\ MyStack[n] \in Activation /\ v \in Seq(Activation) /\ Popped(v, MyStack)
  BY <1>1, <1>2, TopFacts, Current, TopOfStack
<1>4. /\ TasksOK' /\ StacksOK' /\ Stacks' /\ CallsKept(hCurrentTask, Len(MyStack))
      /\ Len(stack'[hCurrentTask]) = Len(MyStack) - 1
  <2>1. Moves(Below, hCurrentTask)
    BY <1>1, <1>2 DEF Moves, tasking
  <2>2. queued' \in [HTASK -> 0..MaxQueued] /\ UNCHANGED <<TASK_READY, doomed, halted>>
    BY <1>2, <1>3 DEF TasksOK, tasking
  <2> QED
    BY <1>2, <1>3, <2>1, <2>2, PopControl
<1>5. /\ stack'[c] = v /\ Len(v) \in Nat /\ n = Len(v) + 1
      /\ \A i \in 1..Len(v) : v[i] = MyStack[i] /\ CallsKept(c, n)
  BY <1>1, <1>2, <1>3, <1>4 DEF StacksOK, Popped
<1>6. HandlersOK(q)'
  <2>1. ASSUME NEW a \in Addr, NEW i \in Nat, HandlerAt(a, c, i, n)
        PROVE  HandlerAt(a, c, i, Len(v))'
    <3>1. /\ frame[a].to = c /\ i \in 1..n /\ Answers(MyStack[i], a)
          /\ a = lpSendMessageStack /\ \A k \in (i + 1)..n : MyStack[k].kind = "own"
      BY <1>1, <1>3, <2>1 DEF HandlerAt
    <3>2. i # n
      BY <1>2, <1>3, <3>1 DEF Answers
    <3>3. i \in 1..Len(v) /\ Len(v) \in i..Len(v)
      BY <1>3, <1>5, <3>1, <3>2
    <3>4. \A k \in (i + 1)..Len(v) : v[k].kind = "own"
      BY <1>5, <3>1
    <3>5. Answers(v[i], a)'
      BY <1>2, <1>5, <3>1, <3>3 DEF Answers
    <3> QED
      BY <1>1, <1>2, <1>5, <3>1, <3>3, <3>4, <3>5 DEF HandlerAt
  <2>2. n \notin 1..Len(MyStack) - 1 /\ MyStack[n].kind # "send"
    BY <1>1, <1>2, <1>3
  <2> QED
    BY <1>1, <1>2, <1>4, <1>5, <2>1, <2>2, OwnHandlers
<1>7. SendsOK(q)'
  <2>1. \A i \in 1..Len(q) : ~Pending(q[i])
    BY <1>2, NothingPending
  <2>2. hCurrentTask' = hCurrentTask /\ Running' \subseteq Running
    BY <1>2 DEF Running, tasking
  <2>3. /\ n \in 1..Len(MyStack) => MyStack[n].kind \notin {"send", "proc"}
        /\ n \in 1..Len(stack'[hCurrentTask]) =>
              stack'[hCurrentTask][n].kind \notin {"send", "proc"}
    BY <1>1, <1>2, <1>3, <1>4
  <2> QED
    BY <1>1, <1>2, <1>4, <1>6, <2>1, <2>2, <2>3, QuietSteps
<1>8. FramesOK'
  BY <1>2, <1>3, ActivationFields DEF FramesOK
<1>9. FlagOK'
  <2> SUFFICES ASSUME habit \notin {"replies", "dialogs"} PROVE FlagOK'
    BY DEF FlagOK
  <2>1. CASE lpSendMessageStack # NoFrame
    <3>1. Len(MyStack) \in Nat /\ MyStack[Len(MyStack)].kind # "send"
          /\ Len(MyStack) \notin 1..Len(stack'[hCurrentTask])
      BY <1>1, <1>2, <1>3, <1>4
    <3> QED
      BY <1>2, <1>4, <2>1, <3>1, FlagSends
  <2>2. CASE lpSendMessageStack = NoFrame
    <3>1. FlagIn(MyStack, MaxDepth + 1, bInSendMessage)
      BY <2>2 DEF Inv, FlagOK
    <3>2. FlagIn(v, MaxDepth + 1, MyStack[n].in)
      <4>1. Len(MyStack) < MaxDepth + 1 /\ MaxDepth + 1 \in Nat
        BY <1>3, Constants, Current
      <4> QED
        BY <1>1, <1>2, <1>3, <3>1, <4>1, FlagBack
    <3>3. \A a \in Addr : ~Live(a)'
      <4>1. Len(q) = 0
        BY <2>2, ListFacts
      <4>2. CallsListed(q)'
        BY <1>7 DEF SendsOK
      <4> QED
        BY <4>1, <4>2 DEF CallsListed
    <3>4. MyStack' = v
      BY <1>1, <1>2, <1>5 DEF MyStack
    <3> QED
      BY <1>2, <3>2, <3>3, <3>4 DEF FlagOK
  <2> QED
    BY <2>1, <2>2
<1> QED
  BY <1>4, <1>7, <1>8, <1>9, Together

(* The new task has made no calls.                                           *)
LEMMA CreateTaskKeeps ==
    ASSUME NEW q, Inv(q), NEW t \in HTASK, CreateTask(t), habit' = habit
    PROVE  IInv'
<1>1. PICK c, s : c = hCurrentTask /\ s = MyStack
  OBVIOUS
<1>2. /\ Doing \in {"app", "proc", "own"} /\ (Doing \in {"proc", "own"} => Loops(habit))
      /\ Doing = "own" => habit = "dialogs"
      /\ ~InList(t) /\ Len(MyStack) < MaxDepth
      /\ tasks' = <<t>> \o tasks
      /\ stack' = [stack EXCEPT ![c] = Append(s, Act("sw")), ![t] = <<Act("app")>>]
      /\ TASK_READY' = TASK_READY \cup {c} /\ hCurrentTask' = t
      /\ UNCHANGED <<sending, doomed, queued, halted>>
  BY <1>1 DEF CreateTask, CanRun, Yielders
<1>3. /\ TasksOK /\ StacksOK /\ FramesOK /\ c \in HTASK /\ c \in ToSet(tasks) /\ stack[c] = s
      /\ Shape(s, c \in doomed, habit) /\ Len(s) > 0 /\ s[Len(s)].kind # "sw"
      /\ s[Len(s)].kind = "own" => habit = "dialogs"
      /\ t \notin ToSet(tasks) /\ t # c /\ stack \in [HTASK -> Seq(Activation)]
      /\ doomed \subseteq ToSet(tasks) /\ t \notin doomed
  <2>1. Len(s) \in 1..MaxDepth
    BY <1>1, TopFacts
  <2>2. TasksOK /\ StacksOK /\ FramesOK /\ c \in HTASK /\ c \in ToSet(tasks) /\ stack[c] = s
        /\ Shape(s, c \in doomed, habit) /\ s[Len(s)].kind # "sw" /\ t \notin ToSet(tasks)
        /\ (s[Len(s)].kind = "own" => habit = "dialogs")
    BY <1>1, <1>2, TopFacts, Current, Listed
  <2> QED
    BY <2>1, <2>2, Constants DEF StacksOK, TasksOK
<1>4. /\ tasks' \in Seq(HTASK) /\ IsInjective(tasks') /\ ToSet(tasks') = ToSet(tasks) \cup {t}
  <2>1. PICK v : v = <<t>> \o tasks
    OBVIOUS
  <2>2. tasks \in Seq(HTASK) /\ IsInjective(tasks)
    BY <1>3 DEF TasksOK
  <2>3. v \in Seq(HTASK) /\ HasFirst(v, t, tasks)
    BY <2>1, <2>2, PushedSeq
  <2>4. /\ DOMAIN v = 1..Len(v) /\ DOMAIN tasks = 1..Len(tasks) /\ Len(tasks) \in Nat
        /\ v[1] = t /\ 1 \in 1..Len(v)
        /\ \A i \in 1..Len(v) : i # 1 => i - 1 \in 1..Len(tasks) /\ v[i] = tasks[i - 1]
        /\ \A i \in 1..Len(tasks) : i + 1 \in 1..Len(v) /\ v[i + 1] = tasks[i]
    BY <2>2, <2>3 DEF HasFirst
  <2>5. ToSet(v) = ToSet(tasks) \cup {t}
    <3>1. \A y \in ToSet(v) : y = t \/ y \in ToSet(tasks)
      BY <2>4 DEF ToSet
    <3>2. \A y \in ToSet(tasks) : y \in ToSet(v)
      BY <2>4 DEF ToSet
    <3>3. t \in ToSet(v)
      BY <2>4 DEF ToSet
    <3> QED
      BY <3>1, <3>2, <3>3
  <2>6. \A i \in 1..Len(v) : i # 1 => v[i] # t
    <3>1. \A j \in 1..Len(tasks) : tasks[j] # t
      BY <1>3, <2>4 DEF ToSet
    <3> QED
      BY <2>4, <3>1
  <2>7. IsInjective(v)
    <3>1. ASSUME NEW i \in 1..Len(v), NEW j \in 1..Len(v), v[i] = v[j] PROVE i = j
      <4>1. CASE i = 1 \/ j = 1
        BY <2>4, <2>6, <3>1, <4>1
      <4>2. CASE i # 1 /\ j # 1
        <5>1. /\ i - 1 \in 1..Len(tasks) /\ j - 1 \in 1..Len(tasks)
              /\ tasks[i - 1] = tasks[j - 1]
          BY <2>4, <3>1, <4>2
        <5>2. i - 1 = j - 1
          BY <2>2, <2>4, <5>1 DEF IsInjective
        <5> QED
          BY <5>2
      <4> QED
        BY <4>1, <4>2
    <3> QED
      BY <2>4, <3>1 DEF IsInjective
  <2> QED
    BY <1>2, <2>1, <2>3, <2>5, <2>7
<1>5. TasksOK'
  BY <1>2, <1>3, <1>4 DEF TasksOK
<1>6. PICK w : /\ w = Append(s, Act("sw")) /\ w \in Seq(Activation)
               /\ Shape(w, c \in doomed, habit) /\ Switched(w)
               /\ \A i \in Nat : CallKept(s, w, i)
  BY <1>1, <1>2, <1>3, SwitchPushed
<1>7. PICK z : /\ z = <<Act("app")>> /\ z \in Seq(Activation) /\ Len(z) = 1 /\ z[1].kind = "app"
               /\ Shape(z, FALSE, habit)
  <2>1. PICK x \in Activation : x = Act("app") /\ x.kind = "app"
    BY ActFields DEF Kinds
  <2>2. PICK y : y = <<x>>
    OBVIOUS
  <2>3. Shape(y, FALSE, habit) /\ Len(y) = 1 /\ y[1] = x
    BY <2>1, <2>2, ShapeNew
  <2>4. y \in Seq(Activation)
    BY <2>3 DEF Shape
  <2> QED
    BY <2>1, <2>2, <2>3, <2>4
<1>8. /\ stack'[c] = w /\ stack'[t] = z /\ \A u \in HTASK : u # c /\ u # t => stack'[u] = stack[u]
      /\ stack' \in [HTASK -> Seq(Activation)]
  BY <1>2, <1>3, <1>6, <1>7
<1>9. ASSUME NEW u \in HTASK PROVE StackOK(u)'
  <2>1. CASE u = t
    <3>1. u \notin doomed' /\ u \in ToSet(tasks') /\ hCurrentTask' = u /\ stack'[u] = z
      BY <1>2, <1>3, <1>4, <1>8, <2>1
    <3>2. Shape(stack'[u], u \in doomed', habit')
      BY <1>7, <3>1 DEF Shape, ActOK
    <3> QED
      BY <1>7, <3>1, <3>2 DEF StackOK
  <2>2. CASE u = c
    <3>1. Shape(stack'[u], u \in doomed', habit')
      BY <1>2, <1>6, <1>8, <2>2
    <3>2. u \in ToSet(tasks') /\ Switched(stack'[u]) /\ Len(stack'[u]) # 0
      BY <1>3, <1>4, <1>6, <1>8, <2>2 DEF Switched
    <3> QED
      BY <3>1, <3>2 DEF StackOK
  <2>3. CASE u # t /\ u # c
    <3>1. StackOK(u) /\ stack'[u] = stack[u] /\ doomed' = doomed
          /\ (u \in ToSet(tasks') <=> u \in ToSet(tasks))
      BY <1>2, <1>3, <1>4, <1>8, <2>3 DEF StacksOK
    <3> QED
      BY <1>1, <2>3, <3>1 DEF StackOK
  <2> QED
    BY <2>1, <2>2, <2>3
<1>10. StacksOK' /\ Stacks'
  BY <1>8, <1>9 DEF StacksOK, Stacks
<1>11. CallsKept(c, 0)
  <2>1. ASSUME NEW u \in HTASK, NEW i \in Nat PROVE CallKept(stack[u], stack'[u], i)
    <3>1. CASE u = t
      <4>1. Len(stack[u]) = 0
        BY <1>3, <3>1 DEF StacksOK, StackOK
      <4>2. ~CallAt(stack[u], i)
        BY <4>1 DEF CallAt
      <4>3. ~CallAt(z, i)
        BY <1>7 DEF CallAt
      <4> QED
        BY <1>8, <3>1, <4>2, <4>3 DEF CallKept
    <3>2. CASE u = c
      BY <1>3, <1>6, <1>8, <3>2
    <3>3. CASE u # t /\ u # c
      BY <1>8, <3>3 DEF CallKept, SameAct
    <3> QED
      BY <3>1, <3>2, <3>3
  <2> QED
    BY <2>1 DEF CallsKept
<1>12. SendsOK(q)'
  <2>1. \A i \in 1..Len(q) : ~Pending(q[i])
    BY <1>2, NothingPending
  <2>2. Len(q) # 0 => ~frame[q[1]].bSendCompleted
    BY <1>2, CompletedTop
  <2> QED
    BY <1>1, <1>2, <1>10, <1>11, <2>1, <2>2, OtherSteps
<1>13. FramesOK'
  BY <1>2, <1>3, SameSending
<1>14. FlagOK'
  BY <1>1, <1>2, <1>5, <1>10, <1>11, FlagQuiet
<1> QED
  BY <1>5, <1>10, <1>12, <1>13, <1>14, Together

-----------------------------------------------------------------------------
LEMMA InitKeeps == TaskInit => IInv
<1> SUFFICES ASSUME TaskInit PROVE Inv(<<>>)
  BY DEF IInv
<1>1. /\ tasks = <<Native>> /\ hCurrentTask = Native /\ TASK_READY = {Native} /\ doomed = {}
      /\ queued = [t \in HTASK |-> 0] /\ halted = FALSE
      /\ stack = [t \in HTASK |-> IF t = Native THEN <<Act("app")>> ELSE <<>>]
      /\ lpSendMessageStack = NoFrame /\ frame = [a \in Addr |-> Nowhere] /\ bInSendMessage = FALSE
      /\ habit \in {"plain", "yields", "dialogs", "replies"} /\ Native \in HTASK
  BY TaskAssumption DEF TaskInit
<1>2. ToSet(tasks) = {Native}
  <2>1. DOMAIN tasks = {1} /\ tasks[1] = Native
    BY <1>1
  <2> QED
    BY <2>1 DEF ToSet
<1>3. TasksOK
  <2>1. tasks \in Seq(HTASK)
    BY <1>1
  <2>2. IsInjective(tasks)
    <3>1. DOMAIN tasks = {1}
      BY <1>1
    <3> QED
      BY <3>1 DEF IsInjective
  <2>3. queued \in [HTASK -> 0..MaxQueued]
    <3>1. 0 \in 0..MaxQueued
      BY Constants
    <3> QED
      BY <1>1, <3>1
  <2> QED
    BY <1>1, <1>2, <2>1, <2>2, <2>3 DEF TasksOK
<1>4. PICK z : /\ z = <<Act("app")>> /\ z \in Seq(Activation) /\ Len(z) = 1 /\ z[1].kind = "app"
               /\ Shape(z, FALSE, habit)
  <2>1. PICK x \in Activation : x = Act("app") /\ x.kind = "app"
    BY ActFields DEF Kinds
  <2>2. PICK y : y = <<x>>
    OBVIOUS
  <2>3. Shape(y, FALSE, habit) /\ Len(y) = 1 /\ y[1] = x
    BY <2>1, <2>2, ShapeNew
  <2>4. y \in Seq(Activation)
    BY <2>3 DEF Shape
  <2> QED
    BY <2>1, <2>2, <2>3, <2>4
<1>5. PICK none : /\ none = <<>> /\ none \in Seq(Activation) /\ Len(none) = 0
                  /\ Shape(none, FALSE, habit)
  <2>1. PICK y : y = <<>>
    OBVIOUS
  <2>2. y \in Seq(Activation) /\ Len(y) = 0
    BY <2>1
  <2>3. Shape(y, FALSE, habit)
    BY <2>2, Constants DEF Shape
  <2> QED
    BY <2>1, <2>2, <2>3
<1>6. /\ stack \in [HTASK -> Seq(Activation)] /\ stack[Native] = z
      /\ \A t \in HTASK : t # Native => stack[t] = none
  BY <1>1, <1>4, <1>5
<1>7. StacksOK
  <2>1. ASSUME NEW t \in HTASK PROVE StackOK(t)
    <3>1. CASE t = Native
      <4>1. Shape(stack[t], t \in doomed, habit)
        BY <1>1, <1>4, <1>6, <3>1 DEF Shape, ActOK
      <4> QED
        BY <1>1, <1>2, <1>4, <1>6, <3>1, <4>1 DEF StackOK
    <3>2. CASE t # Native
      <4>1. Shape(stack[t], t \in doomed, habit)
        BY <1>1, <1>5, <1>6, <3>2 DEF Shape
      <4> QED
        BY <1>1, <1>2, <1>5, <1>6, <3>2, <4>1 DEF StackOK
    <3> QED
      BY <3>1, <3>2
  <2> QED
    BY <1>6, <2>1 DEF StacksOK
<1>8. FramesOK
  <2>1. Nowhere \in Frame
    BY Constants DEF Nowhere, Frame
  <2> QED
    BY <1>1, <2>1 DEF FramesOK
<1>9. \A t \in HTASK, i \in Nat : i \in 1..Len(stack[t]) => stack[t][i].kind = "app"
  <2>1. ASSUME NEW t \in HTASK, NEW i \in Nat, i \in 1..Len(stack[t]) PROVE stack[t][i].kind = "app"
    <3>1. CASE t = Native
      <4>1. Len(stack[t]) = 1 /\ stack[t] = z
        BY <1>4, <1>6, <3>1
      <4>2. i = 1
        BY <2>1, <4>1
      <4> QED
        BY <1>4, <4>1, <4>2
    <3>2. CASE t # Native
      BY <1>5, <1>6, <2>1, <3>2
    <3> QED
      BY <3>1, <3>2
  <2> QED
    BY <2>1
<1>10. PICK q : q = <<>> /\ q \in Seq(Addr) /\ Len(q) = 0
  <2>1. PICK q : q = <<>>
    OBVIOUS
  <2>2. q \in Seq(Addr) /\ Len(q) = 0
    BY <2>1
  <2> QED
    BY <2>1, <2>2
<1>11. SendsOK(q)
  <2>1. LinksOK(q)
    BY <1>1, <1>10 DEF LinksOK
  <2>2. CallsListed(q)
    <3>1. ASSUME NEW a \in Addr PROVE ~Live(a)
      <4>1. a[1] \in HTASK /\ a[2] \in Nat \ {0} /\ Len(stack[a[1]]) \in Nat
        BY <1>6, Constants
      <4>2. a[2] <= Len(stack[a[1]]) => a[2] \in 1..Len(stack[a[1]])
        BY <4>1
      <4> QED
        BY <1>9, <4>1, <4>2 DEF Live
    <3> QED
      BY <1>10, <3>1 DEF CallsListed
  <2>3. MessagesOK(q) /\ HandlersOK(q)
    BY <1>10 DEF MessagesOK, HandlersOK
  <2>4. ProcsOK(q)
    <3>1. \A t \in HTASK, i \in Nat : ~ProcAt(t, i)
      BY <1>9 DEF ProcAt
    <3> QED
      BY <3>1 DEF ProcsOK
  <2> QED
    BY <2>1, <2>2, <2>3, <2>4 DEF SendsOK
<1>12. FlagOK
  <2>1. \A a \in Addr : ~Live(a)
    BY <1>10, <1>11 DEF SendsOK, CallsListed
  <2>2. FlagIn(MyStack, MaxDepth + 1, FALSE)
    <3>1. \A i \in Nat : ~OwnIn(MyStack, i)
      BY <1>1, <1>9 DEF OwnIn, MyStack
    <3> QED
      BY <3>1 DEF FlagIn
  <2> QED
    BY <1>1, <2>1, <2>2 DEF FlagOK
<1> QED
  BY <1>3, <1>7, <1>8, <1>10, <1>11, <1>12 DEF Inv

LEMMA StepKeeps ==
    ASSUME IInv, [TaskNext]_taskvars
    PROVE  IInv'
<1>1. PICK q : Inv(q)
  BY DEF IInv
<1>2. CASE UNCHANGED taskvars
  BY <1>1, <1>2, StutterKeeps
<1>3. CASE TaskNext
  <2>1. habit' = habit
    BY <1>3 DEF TaskNext
  <2>2. CASE Resume
    BY <1>1, <2>1, <2>2, ResumeKeeps
  <2>3. CASE SendReturn
    BY <1>1, <2>1, <2>3, SendReturnKeeps
  <2>4. CASE SendWait
    BY <1>1, <2>1, <2>4, SendWaitKeeps
  <2>5. CASE ProcReturn
    BY <1>1, <2>1, <2>5, ProcReturnKeeps
  <2>6. CASE ProcReply
    BY <1>1, <2>1, <2>6, ProcReplyKeeps
  <2>7. ASSUME NEW t \in HTASK, NEW m \in MsgNo, SendMessage(t, m) PROVE IInv'
    BY <1>1, <2>1, <2>7, SendMessageKeeps
  <2>8. CASE AppYield
    BY <1>1, <2>1, <2>8, AppYieldKeeps
  <2>9. CASE GetMessage
    BY <1>1, <2>1, <2>9, GetMessageKeeps
  <2>10. CASE GotMessage
    BY <1>1, <2>1, <2>10, GotMessageKeeps
  <2>11. CASE WaitMessage
    BY <1>1, <2>1, <2>11, WaitMessageKeeps
  <2>12. ASSUME NEW t \in HTASK, PostMessage(t) \/ DriverEvent(t) PROVE IInv'
    <3>1. /\ queued[t] < MaxQueued /\ queued' = [queued EXCEPT ![t] = @ + 1]
          /\ UNCHANGED <<sending, tasks, hCurrentTask, TASK_READY, doomed, stack, halted>>
      BY <2>12 DEF PostMessage, DriverEvent
    <3> QED
      BY <1>1, <2>1, <3>1, PostKeeps
  <2>13. ASSUME NEW t \in HTASK, CreateTask(t) PROVE IInv'
    BY <1>1, <2>1, <2>13, CreateTaskKeeps
  <2>14. CASE DeleteTask
    BY <1>1, <2>1, <2>14, DeleteTaskKeeps
  <2>15. CASE Exiting
    BY <1>1, <2>1, <2>15, ExitingKeeps
  <2>17. CASE CallOwn
    BY <1>1, <2>1, <2>17, CallOwnKeeps
  <2>18. CASE OwnReturn
    BY <1>1, <2>1, <2>18, OwnReturnKeeps
  <2>16. CASE Halted
    <3>1. UNCHANGED taskvars
      BY <2>1, <2>16 DEF Halted, taskvars
    <3> QED
      BY <1>1, <3>1, StutterKeeps
  <2> QED
    BY <1>3, <2>2, <2>3, <2>4, <2>5, <2>6, <2>7, <2>8, <2>9, <2>10, <2>11, <2>12, <2>13, <2>14,
       <2>15, <2>16, <2>17, <2>18 DEF TaskNext
<1> QED
  BY <1>2, <1>3

(* The inductive invariant holds: the calls that are under way, the frames   *)
(* on the list, the messages and their handlers agree.                       *)
THEOREM IInvHolds == TaskSpec => []IInv
<1>1. TaskInit => IInv
  BY InitKeeps
<1>2. IInv /\ [TaskNext]_taskvars => IInv'
  BY StepKeeps
<1> QED
  BY <1>1, <1>2, PTL DEF TaskSpec

LEMMA TypesHold ==
    ASSUME NEW q, Inv(q)
    PROVE  TaskTypeOK
<1>1. TasksOK /\ StacksOK /\ FramesOK
  BY DEF Inv
<1>2. /\ hCurrentTask \in HTASK /\ hCurrentTask \in ToSet(tasks) /\ ToSet(tasks) \subseteq HTASK
      /\ Len(MyStack) # 0
  <2>1. Len(MyStack) \in 1..MaxDepth
    BY <1>1, Current
  <2> QED
    BY <1>1, <2>1, Current, Constants
<1>3. InList(hCurrentTask) /\ MyStack # <<>>
  BY <1>2, Listed
<1>4. ASSUME NEW t \in HTASK
      PROVE  /\ stack[t] \in Seq(Activation) /\ Len(stack[t]) <= MaxDepth
             /\ stack[t] = <<>> <=> ~InList(t)
  <2>1. stack[t] \in Seq(Activation) /\ Len(stack[t]) <= MaxDepth
        /\ (Len(stack[t]) = 0 <=> t \notin ToSet(tasks))
    BY <1>1 DEF StacksOK, StackOK, Shape
  <2>2. stack[t] = <<>> <=> Len(stack[t]) = 0
    BY <2>1
  <2> QED
    BY <2>1, <2>2, Listed
<1> QED
  BY <1>1, <1>2, <1>3, <1>4 DEF TaskTypeOK, TasksOK, FramesOK

LEMMA ListedFrames ==
    ASSUME NEW q, Inv(q)
    PROVE  ToSet(q) = LiveFrames /\ Len(q) = Cardinality(LiveFrames)
<1>1. q \in Seq(Addr) /\ Len(q) \in Nat /\ DOMAIN q = 1..Len(q) /\ \A i \in 1..Len(q) : q[i] \in Addr
  BY ListFacts
<1>2. /\ \A i \in 1..Len(q) : Live(q[i])
      /\ \A a \in Addr : Live(a) => \E i \in 1..Len(q) : q[i] = a
      /\ \A i, j \in 1..Len(q) : q[i] = q[j] => i = j
  BY DEF Inv, SendsOK, CallsListed, LinksOK
<1>3. LiveFrames = {a \in Addr : Live(a)}
  BY DEF LiveFrames, Live
<1>4. ToSet(q) = LiveFrames
  BY <1>1, <1>2, <1>3 DEF ToSet
<1>5. ExistsBijection(1..Len(q), LiveFrames)
  <2>1. q \in [1..Len(q) -> LiveFrames]
    BY <1>1, <1>2, <1>3
  <2>2. q \in Bijection(1..Len(q), LiveFrames)
    BY <1>1, <1>2, <1>3, <2>1 DEF Bijection, Injection, Surjection, IsInjective
  <2> QED
    BY <2>2 DEF ExistsBijection
<1>6. IsFiniteSet(1..Len(q)) /\ Cardinality(1..Len(q)) = Len(q)
  <2>1. Cardinality(1..Len(q)) = (IF 1 > Len(q) THEN 0 ELSE Len(q) - 1 + 1) /\ IsFiniteSet(1..Len(q))
    BY <1>1, FS_Interval
  <2> QED
    BY <1>1, <2>1
<1>7. Cardinality(LiveFrames) = Cardinality(1..Len(q))
  BY <1>5, <1>6, FS_Bijection
<1> QED
  BY <1>4, <1>6, <1>7

(* lpSendMessageStack links the frames of the SendMessage calls that have    *)
(* not returned, each once, whoever sends to whom, yields or ends            *)
(* (SendMessage, ReplyMessage, DeleteTask).                                  *)
THEOREM FramesStayLinked == TaskSpec => []SendStackIntact
<1>1. IInv => SendStackIntact
  <2> SUFFICES ASSUME NEW q, Inv(q) PROVE SendStackIntact
    BY DEF IInv
  <2>1. TaskTypeOK
    BY TypesHold
  <2>2. ToSet(q) = LiveFrames /\ Len(q) = Cardinality(LiveFrames)
    BY ListedFrames
  <2>3. PICK next : next = [a \in Addr |-> frame[a].prev]
    OBVIOUS
  <2>4. PICK bound \in Nat : bound = Cardinality(LiveFrames) + 1 /\ Len(q) <= bound
    <3>1. Cardinality(LiveFrames) \in Nat
      BY AddrFinite
    <3> QED
      BY <2>2, <3>1
  <2>5. /\ q \in Seq(Addr) /\ NoFrame \notin Addr
        /\ lpSendMessageStack = IF Len(q) = 0 THEN NoFrame ELSE q[1]
        /\ \A i \in 1..Len(q) : next[q[i]] = IF i = Len(q) THEN NoFrame ELSE q[i + 1]
    <3>1. /\ lpSendMessageStack = IF Len(q) = 0 THEN NoFrame ELSE q[1]
          /\ \A i \in 1..Len(q) : frame[q[i]].prev = IF i = Len(q) THEN NoFrame ELSE q[i + 1]
      BY DEF Inv, SendsOK, LinksOK
    <3>2. q \in Seq(Addr) /\ \A i \in 1..Len(q) : q[i] \in Addr
      BY ListFacts
    <3> QED
      BY <2>3, <3>1, <3>2, Constants
  <2>6. Chain(next, NoFrame, bound, lpSendMessageStack) = q
    BY <2>4, <2>5, ChainOfLinks
  <2>7. SendChain = q
    BY <2>3, <2>4, <2>6 DEF SendChain
  <2> QED
    BY <2>1, <2>2, <2>7 DEF SendStackIntact
<1> QED
  BY <1>1, IInvHolds, PTL

LEMMA LiveIsListed ==
    ASSUME NEW q, Inv(q), NEW a \in LiveFrames
    PROVE  \E i \in 1..Len(q) : q[i] = a /\ MessageOK(q, i)
<1>1. PICK i \in 1..Len(q) : q[i] = a
  BY DEF Inv, SendsOK, CallsListed, LiveFrames, Live
<1> QED
  BY <1>1 DEF Inv, SendsOK, MessagesOK

(* The result of SendMessage comes from the window procedure that got its    *)
(* message, or is the 0 of a task that ended (ReplyMessage,                  *)
(* TWIN_ReceiveMessage, DeleteTask).                                         *)
THEOREM RepliesComeFromHandlers == TaskSpec => []RepliedByOwnHandler
<1>1. IInv => RepliedByOwnHandler
  <2> SUFFICES ASSUME NEW q, Inv(q), NEW a \in LiveFrames, frame[a].bSendCompleted
               PROVE  \/ frame[a].lResult = frame[a].id
                      \/ frame[a].lResult = 0 /\ frame[a].to \notin ToSet(tasks) \ doomed
    BY DEF IInv, RepliedByOwnHandler
  <2>1. PICK i \in 1..Len(q) : q[i] = a /\ MessageOK(q, i)
    BY LiveIsListed
  <2> QED
    BY <2>1 DEF MessageOK, CompletedOK, Running
<1> QED
  BY <1>1, IInvHolds, PTL

(* A message that was sent is received before anything else happens          *)
(* (SendMessage's DirectedYield and the end of InternalDirectedYield).       *)
THEOREM MessagesArePickedUp == TaskSpec => []PickedUpAtOnce
<1>1. IInv => PickedUpAtOnce
  <2> SUFFICES ASSUME NEW q, Inv(q), NEW a \in LiveFrames,
                      ~frame[a].bSendReceived, ~frame[a].bSendCompleted
               PROVE  a = lpSendMessageStack /\ frame[a].to = hCurrentTask /\ Doing = "sw"
    BY DEF IInv, PickedUpAtOnce
  <2>1. PICK i \in 1..Len(q) : q[i] = a /\ MessageOK(q, i)
    BY LiveIsListed
  <2>2. PendingOK(q, i)
    BY <2>1 DEF MessageOK, Pending
  <2>3. Len(q) # 0 /\ lpSendMessageStack = q[1]
    BY ListFacts
  <2> QED
    BY <2>1, <2>2, <2>3 DEF PendingOK
<1> QED
  BY <1>1, IInvHolds, PTL

(* bInSendMessage is back to FALSE when all calls are over, in systems whose *)
(* window procedures do not answer early and give up the processor, if at    *)
(* all, only while they handle another task's message (cInSendMessage of     *)
(* both branches of SendMessage).                                            *)
THEOREM InSendIsRestored == TaskSpec => []InSendNested
<1>1. IInv => InSendNested
  <2> SUFFICES ASSUME NEW q, Inv(q), habit \notin {"replies", "dialogs"},
                      \A t \in HTASK : ~Calling(t)
               PROVE  ~bInSendMessage
    BY DEF IInv, InSendNested, InSendRestored
  <2>1. ASSUME NEW i \in 1..Len(q) PROVE FALSE
    <3>1. Live(q[i]) /\ q[i][1] \in HTASK /\ q[i][2] \in 1..MaxDepth
      BY ListFacts DEF Inv, SendsOK, CallsListed
    <3>2. q[i][2] \in DOMAIN stack[q[i][1]]
      BY <3>1, TopFacts DEF Live, Stacks
    <3> QED
      BY <3>1, <3>2 DEF Live, Calling
  <2>2. lpSendMessageStack = NoFrame
    BY <2>1, ListFacts
  <2>3. FlagIn(MyStack, MaxDepth + 1, bInSendMessage)
    BY <2>2 DEF Inv, FlagOK
  <2>4. \A i \in Nat : ~OwnIn(MyStack, i)
    <3>1. hCurrentTask \in HTASK /\ DOMAIN MyStack = 1..Len(MyStack)
      BY TopFacts, Current DEF Inv
    <3> QED
      BY <3>1 DEF OwnIn, Calling, MyStack
  <2> QED
    BY <2>3, <2>4 DEF FlagIn
<1> QED
  BY <1>1, IInvHolds, PTL
=============================================================================
