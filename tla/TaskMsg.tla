------------------------------ MODULE TaskMsg ------------------------------
(***************************************************************************)
(* Cooperative tasks (winkrnl/KrnTask.c) and messages sent between them    *)
(* (SendMessage, ReplyMessage, TWIN_ReceiveMessage of winkrnl/Messages.c). *)
(*                                                                         *)
(* One task runs at a time and gives the processor up only inside          *)
(* InternalDirectedYield.  What a task is doing is a stack of activations: *)
(*    app    application code below any window procedure                   *)
(*    wait   the loop of TWIN_DriverMessage (GetMessage)                   *)
(*    send   SendMessage to another task's window, in its waiting loop     *)
(*    proc   the window procedure run by TWIN_ReceiveMessage               *)
(*    own    SendMessage to a window of the task itself, DispatchMessage's *)
(*           among them: it calls the procedure at once                    *)
(*    exit   DeleteTask of the task itself                                 *)
(*    sw     InternalDirectedYield: the task is switched out, or is about  *)
(*           to run that function's last statement, TWIN_ReceiveMessage    *)
(*                                                                         *)
(* SendMessage keeps its ITSMINFO in its own stack frame, and the frames   *)
(* of all tasks are linked into one list headed by lpSendMessageStack.  A  *)
(* frame's address is <<t, i>>: the i-th activation of task t.             *)
(***************************************************************************)
EXTENDS Naturals, SequencesExt, Links

CONSTANTS
    HTASK,          \* HTASKs
    Native,         \* the native task, running at the start
    MaxDepth,       \* bound: activations of one task
    MaxCalls,       \* bound: calls of SendMessage and ReplyMessage by one
                    \*   window procedure
    MaxQueued,      \* bound: messages waiting in one task's queue
    MsgNo,          \* message numbers that are sent
    Exits,          \* applications may end
    Habits          \* what else window procedures do: see habit

ASSUME TaskAssumption ==
    /\ IsFiniteSet(HTASK) /\ Native \in HTASK
    /\ MaxDepth \in Nat \ {0}
    /\ {MaxCalls, MaxQueued} \subseteq Nat
    /\ MsgNo \subseteq Nat
    /\ Exits \in BOOLEAN
    /\ Habits \subseteq {"plain", "yields", "dialogs", "replies"}

VARIABLES
    tasks,              \* the task list from lpTaskHead on
    hCurrentTask,
    TASK_READY,         \* tasks with that flag
    doomed,             \* tasks with TASK_DELETE_PENDING
    queued,             \* queued[t]: messages and flags in t's queue
    stack,              \* stack[t]: activations of t, <<>> when t does not exist
    lpSendMessageStack, \* address of the last frame, or NoFrame
    frame,              \* frame[a]: the ITSMINFO at address a
    bInSendMessage,
    halted,             \* FatalExit: no task is left
    habit               \* window procedures of this system send messages, and
                        \*   "yields": run message loops of their own when
                        \*      they are called for another task's message,
                        \*   "dialogs": run them whoever sent the message, or
                        \*   "replies": call ReplyMessage before they return

taskvars == <<tasks, hCurrentTask, TASK_READY, doomed, queued, stack,
              lpSendMessageStack, frame, bInSendMessage, halted, habit>>
sending == <<lpSendMessageStack, frame, bInSendMessage>>
tasking == <<tasks, doomed, queued, halted>>

Addr == HTASK \X (1..MaxDepth)
NoFrame == <<>>
Ids  == 1..(Cardinality(Addr) + 1)

Nowhere == [prev |-> NoFrame, from |-> Native, to |-> Native, msg |-> 0, id |-> 0,
            lResult |-> 0, bSendReceived |-> FALSE, bSendCompleted |-> FALSE,
            cInSendMessage |-> FALSE]

(* ptr, msg and yield are TWIN_ReceiveMessage's saved_ptr, saved_msg and    *)
(* argument; in is the cInSendMessage of the SendMessage that calls the      *)
(* procedure; id names the message and calls counts the messages that the    *)
(* window procedure has sent or answered.                                    *)
Act(kind) == [kind |-> kind, ptr |-> NoFrame, msg |-> 0, id |-> 0,
              yield |-> FALSE, in |-> FALSE, calls |-> 0]

InList(t) == \E i \in DOMAIN tasks : tasks[i] = t
Index(t) == CHOOSE i \in DOMAIN tasks : tasks[i] = t
MyStack == stack[hCurrentTask]
Doing == MyStack[Len(MyStack)].kind
Below == SubSeq(MyStack, 1, Len(MyStack) - 1)
Top == frame[lpSendMessageStack]

(* Frames of SendMessage calls that have not returned. *)
LiveFrames == {a \in Addr : a[2] <= Len(stack[a[1]]) /\ stack[a[1]][a[2]].kind = "send"}

(* A name for the next message, different from those still in use. *)
NextId == Min(Ids \ {frame[a].id : a \in LiveFrames})

TaskInit ==
    /\ tasks = <<Native>>
    /\ hCurrentTask = Native
    /\ TASK_READY = {Native}
    /\ doomed = {}
    /\ queued = [t \in HTASK |-> 0]
    /\ stack = [t \in HTASK |-> IF t = Native THEN <<Act("app")>> ELSE <<>>]
    /\ lpSendMessageStack = NoFrame
    /\ frame = [a \in Addr |-> Nowhere]
    /\ bInSendMessage = FALSE
    /\ halted = FALSE
    /\ habit \in Habits

-----------------------------------------------------------------------------
(* InternalDirectedYield(t) by the current task, whose activations are s    *)
(* and whose ReadyTask calls leave r: nothing when t is the current task or *)
(* was freed.                                                               *)
InternalDirectedYield(t, s, r) ==
    IF t = hCurrentTask \/ ~InList(t)
    THEN /\ stack' = [stack EXCEPT ![hCurrentTask] = s]
         /\ TASK_READY' = r
         /\ UNCHANGED hCurrentTask
    ELSE /\ stack' = [stack EXCEPT ![hCurrentTask] = Append(s, Act("sw"))]
         /\ TASK_READY' = r \ {t}
         /\ hCurrentTask' = t

DirectedYield(t, s) == InternalDirectedYield(t, s, TASK_READY \cup {hCurrentTask})

(* ScheduleTask's loop over the task list, with READY flags r: which task   *)
(* it returns and which of the tasks pending deletion it frees on the way.  *)
(* When the current task is one of them, FreeTask readies everybody instead *)
(* and the tests that follow see that; the loop then never passes the       *)
(* "current" task and takes the first ready one of the whole list.          *)
Dying == hCurrentTask \in doomed

(* Mutant: the task's queue is not looked at. *)
HasFlag(t, r) == t \in r

HasWork(t, r) == t \in r \/ queued[t] > 0
Ready(r) == {i \in DOMAIN tasks :
                /\ tasks[i] \notin doomed
                /\ HasWork(tasks[i], r) \/ (Dying /\ i > Index(hCurrentTask))}
ReadyAfter(r) == {i \in Ready(r) : ~Dying /\ i > Index(hCurrentTask)}
ScheduleTask(r) ==
    IF ReadyAfter(r) # {} THEN tasks[Min(ReadyAfter(r))]
    ELSE IF Ready(r) # {} THEN tasks[Min(Ready(r))] ELSE hCurrentTask
(* Mutant: the current task is freed like the others. *)
FreedAll(r) ==
    {t \in doomed : ReadyAfter(r) # {} => Index(t) < Min(ReadyAfter(r))}

Freed(r) ==
    {t \in doomed \ {hCurrentTask} :
        ReadyAfter(r) # {} => Index(t) < Min(ReadyAfter(r))}

(* The task list without those that FreeTask takes off it.                  *)
Kept(gone) ==
    LET kept[n \in 0..Len(tasks)] ==
            IF n = 0 THEN <<>>
            ELSE IF tasks[n] \in gone THEN kept[n - 1] ELSE Append(kept[n - 1], tasks[n])
    IN kept
Without(gone) == Kept(gone)[Len(tasks)]

(* InternalYield: schedule, free what was found on the way, switch. *)
InternalYield(s, r) ==
    LET next == ScheduleTask(r)
        gone == Freed(r)
        mine == IF next = hCurrentTask THEN s ELSE Append(s, Act("sw"))
    IN /\ tasks' = Without(gone)
       /\ doomed' = doomed \ gone
       /\ queued' = [t \in HTASK |-> IF t \in gone THEN 0 ELSE queued[t]]
       /\ stack' = [t \in HTASK |-> IF t \in gone THEN <<>>
                                    ELSE IF t = hCurrentTask THEN mine ELSE stack[t]]
       /\ TASK_READY' = LET all == IF Dying THEN {tasks[i] : i \in DOMAIN tasks} ELSE r
                        IN (all \ gone) \ (IF next = hCurrentTask /\ ~Dying THEN {} ELSE {next})
       /\ hCurrentTask' = next
       /\ halted' = \A i \in DOMAIN tasks : tasks[i] \in doomed

Yield(s) == InternalYield(s, TASK_READY \cup {hCurrentTask})

(* TWIN_ReceiveMessage has something to receive. *)
Receivable ==
    /\ lpSendMessageStack # NoFrame
    /\ Top.to = hCurrentTask
    /\ ~Top.bSendCompleted
    /\ ~Top.bSendReceived

(* ... and calls the window procedure through SendMessage, which is now sent *)
(* to a window of the current task.                                          *)
Receive(s, yield) ==
    /\ frame' = [frame EXCEPT ![lpSendMessageStack].bSendReceived = TRUE]
    /\ stack' = [stack EXCEPT ![hCurrentTask] = Append(s,
          [kind |-> "proc", ptr |-> lpSendMessageStack, msg |-> Top.msg,
           id |-> Top.id, yield |-> yield, in |-> bInSendMessage, calls |-> 0])]
    /\ bInSendMessage' = TRUE
    /\ UNCHANGED <<lpSendMessageStack, hCurrentTask, TASK_READY, tasking>>

(* ReplyMessage(r): completes the last frame if it is for the current task  *)
(* and runs its sender.                                                     *)

(* Mutant: the task it is for is not compared. *)
ForAnyone == lpSendMessageStack # NoFrame

ForMe == lpSendMessageStack # NoFrame /\ Top.to = hCurrentTask
ReplyMessage(r, s) ==
    /\ frame' = [frame EXCEPT ![lpSendMessageStack].lResult = r,
                              ![lpSendMessageStack].bSendCompleted = TRUE]
    /\ DirectedYield(Top.from, s)
    /\ UNCHANGED <<lpSendMessageStack, tasking>>

CanRun(kinds) == ~halted /\ Doing \in kinds

(* A window procedure makes at most MaxCalls calls that are counted here. *)
InProcedure == Doing \in {"proc", "own"}
MayCall == InProcedure => MyStack[Len(MyStack)].calls < MaxCalls
Counted == IF InProcedure THEN [MyStack EXCEPT ![Len(MyStack)].calls = @ + 1] ELSE MyStack

(* Code that gives the processor up when it likes. *)
Yielders == {"app"} \cup (IF habit \in {"yields", "dialogs"} THEN {"proc"} ELSE {})
                    \cup (IF habit = "dialogs" THEN {"own"} ELSE {})

-----------------------------------------------------------------------------
(* Mutant: it does not look for sent messages. *)
ResumeOnly ==
    /\ CanRun({"sw"})
    /\ stack' = [stack EXCEPT ![hCurrentTask] = Below]
    /\ UNCHANGED <<sending, hCurrentTask, TASK_READY, tasking>>

(* A switched-out task runs again: the end of InternalDirectedYield. *)
Resume ==
    /\ CanRun({"sw"})
    /\ IF Receivable
       THEN Receive(Below, FALSE)
       ELSE /\ stack' = [stack EXCEPT ![hCurrentTask] = Below]
            /\ UNCHANGED <<sending, hCurrentTask, TASK_READY, tasking>>

(* SendMessage to a window of another, live task t. *)
SendMessage(t, msg) ==
    /\ CanRun({"app", "proc", "own"})
    /\ InList(t) /\ t # hCurrentTask /\ t \notin doomed
    /\ Len(MyStack) + 2 <= MaxDepth
    /\ MayCall
    /\ LET a == <<hCurrentTask, Len(MyStack) + 1>>
       IN /\ frame' = [frame EXCEPT ![a] =
                [prev |-> lpSendMessageStack, from |-> hCurrentTask, to |-> t,
                 msg |-> msg, id |-> NextId, lResult |-> 0,
                 bSendReceived |-> FALSE, bSendCompleted |-> FALSE,
                 cInSendMessage |-> bInSendMessage]]
          /\ lpSendMessageStack' = a
          /\ bInSendMessage' = TRUE
          /\ DirectedYield(t, Append(Counted, Act("send")))
          /\ UNCHANGED tasking

(* Mutants: the whole list is dropped; the flag is not restored. *)
SendReturnClears ==
    /\ CanRun({"send"})
    /\ LET a == <<hCurrentTask, Len(MyStack)>>
       IN /\ frame[a].bSendCompleted
          /\ bInSendMessage' = frame[a].cInSendMessage
          /\ frame' = [frame EXCEPT ![a] = Nowhere]
    /\ lpSendMessageStack' = NoFrame
    /\ stack' = [stack EXCEPT ![hCurrentTask] = Below]
    /\ UNCHANGED <<hCurrentTask, TASK_READY, tasking>>
SendReturnFlagged ==
    /\ CanRun({"send"})
    /\ LET a == <<hCurrentTask, Len(MyStack)>>
       IN /\ frame[a].bSendCompleted
          /\ lpSendMessageStack' = frame[a].prev
          /\ frame' = [frame EXCEPT ![a] = Nowhere]
    /\ stack' = [stack EXCEPT ![hCurrentTask] = Below]
    /\ UNCHANGED <<bInSendMessage, hCurrentTask, TASK_READY, tasking>>

(* SendMessage's loop: return once completed; else TWIN_ReceiveMessage(TRUE).*)
(* A frame's storage dies with the call: its contents are forgotten.         *)
SendReturn ==
    /\ CanRun({"send"})
    /\ LET a == <<hCurrentTask, Len(MyStack)>>
       IN /\ frame[a].bSendCompleted
          /\ lpSendMessageStack' = frame[a].prev
          /\ bInSendMessage' = frame[a].cInSendMessage
          /\ frame' = [frame EXCEPT ![a] = Nowhere]
    /\ stack' = [stack EXCEPT ![hCurrentTask] = Below]
    /\ UNCHANGED <<hCurrentTask, TASK_READY, tasking>>

SendWait ==
    /\ CanRun({"send"})
    /\ ~frame[<<hCurrentTask, Len(MyStack)>>].bSendCompleted
    /\ IF Receivable THEN Receive(MyStack, TRUE)
       ELSE Yield(MyStack) /\ UNCHANGED sending

(* SendMessage to a window of the current task: its procedure is called ... *)
CallOwn ==
    /\ CanRun({"app", "proc", "own"})
    /\ Len(MyStack) + 2 <= MaxDepth
    /\ MayCall
    /\ stack' = [stack EXCEPT ![hCurrentTask] =
                    Append(Counted, [Act("own") EXCEPT !.in = bInSendMessage])]
    /\ bInSendMessage' = TRUE
    /\ UNCHANGED <<lpSendMessageStack, frame, hCurrentTask, TASK_READY, tasking>>

(* ... and returns.                                                         *)
OwnReturn ==
    /\ CanRun({"own"})
    /\ bInSendMessage' = MyStack[Len(MyStack)].in
    /\ stack' = [stack EXCEPT ![hCurrentTask] = Below]
    /\ UNCHANGED <<lpSendMessageStack, frame, hCurrentTask, TASK_READY, tasking>>

(* Mutant: it does not reply. *)
ProcReturnSilent ==
    /\ CanRun({"proc"})
    /\ bInSendMessage' = MyStack[Len(MyStack)].in
    /\ stack' = [stack EXCEPT ![hCurrentTask] = Below]
    /\ UNCHANGED <<lpSendMessageStack, frame, hCurrentTask, TASK_READY, tasking>>

(* The window procedure returns to TWIN_ReceiveMessage, which replies if    *)
(* the frame it saved is still the last one.                                *)
ProcReturn ==
    /\ CanRun({"proc"})
    /\ LET act == MyStack[Len(MyStack)]
       IN /\ bInSendMessage' = act.in
          /\ IF act.ptr = lpSendMessageStack /\ act.msg = Top.msg
             THEN IF ForMe THEN ReplyMessage(act.id, Below)
                  ELSE /\ stack' = [stack EXCEPT ![hCurrentTask] = Below]
                       /\ UNCHANGED <<lpSendMessageStack, frame, hCurrentTask,
                                      TASK_READY, tasking>>
             ELSE /\ UNCHANGED <<lpSendMessageStack, frame>>
                  /\ IF act.yield THEN Yield(Below)
                     ELSE /\ stack' = [stack EXCEPT ![hCurrentTask] = Below]
                          /\ UNCHANGED <<hCurrentTask, TASK_READY, tasking>>

(* A window procedure answers before it is done; one that was called for a   *)
(* message of its own task does not.                                         *)
ProcReply ==
    /\ habit = "replies"
    /\ CanRun({"proc"}) /\ ForMe
    /\ Len(MyStack) < MaxDepth
    /\ MayCall
    /\ ReplyMessage(MyStack[Len(MyStack)].id, Counted)
    /\ UNCHANGED bInSendMessage

(* Yield, or PeekMessage on an empty queue, from application code. *)
AppYield ==
    /\ CanRun(Yielders)
    /\ Len(MyStack) < MaxDepth
    /\ Yield(MyStack)
    /\ UNCHANGED sending

(* GetMessage: TWIN_DriverMessage returns a queued message.  While there is *)
(* none it yields: after ReadyTask if its poll of the driver found an       *)
(* event, else without, and then blocks in the driver when no other task is *)
(* ready (it stays where it is until a DriverEvent).                        *)
GetMessage ==
    /\ CanRun(Yielders)
    /\ Len(MyStack) + 2 <= MaxDepth
    /\ stack' = [stack EXCEPT ![hCurrentTask] = Append(MyStack, Act("wait"))]
    /\ UNCHANGED <<sending, hCurrentTask, TASK_READY, tasking>>

GotMessage ==
    /\ CanRun({"wait"})
    /\ ~Receivable
    /\ queued[hCurrentTask] > 0
    /\ queued' = [queued EXCEPT ![hCurrentTask] = @ - 1]
    /\ stack' = [stack EXCEPT ![hCurrentTask] = Below]
    /\ UNCHANGED <<sending, hCurrentTask, TASK_READY, tasks, doomed, halted>>

WaitMessage ==
    /\ CanRun({"wait"})
    /\ IF Receivable THEN Receive(MyStack, FALSE)
       ELSE /\ queued[hCurrentTask] = 0
            /\ \E r \in {TASK_READY, TASK_READY \cup {hCurrentTask}} : InternalYield(MyStack, r)
            /\ UNCHANGED sending

(* PostMessage to a window of task t. *)
PostMessage(t) ==
    /\ CanRun({"app", "proc", "own"})
    /\ InList(t) /\ queued[t] < MaxQueued
    /\ queued' = [queued EXCEPT ![t] = @ + 1]
    /\ UNCHANGED <<sending, tasks, hCurrentTask, TASK_READY, doomed, stack, halted>>

(* The driver hands over input for task t when it is polled: in             *)
(* ScheduleTask and in TWIN_DriverMessage.                                  *)
DriverEvent(t) ==
    /\ CanRun({"app", "wait", "send", "exit"})
    /\ InList(t) /\ queued[t] < MaxQueued
    /\ queued' = [queued EXCEPT ![t] = @ + 1]
    /\ UNCHANGED <<sending, tasks, hCurrentTask, TASK_READY, doomed, stack, halted>>

(* WinExec: CreateTask puts the task at the head of the list,               *)
(* InitializeTask readies it and the loader yields to it at once.           *)
CreateTask(t) ==
    /\ CanRun(Yielders)
    /\ ~InList(t)
    /\ Len(MyStack) < MaxDepth
    /\ tasks' = <<t>> \o tasks
    /\ stack' = [stack EXCEPT ![hCurrentTask] = Append(MyStack, Act("sw")),
                              ![t] = <<Act("app")>>]
    /\ TASK_READY' = TASK_READY \cup {hCurrentTask}
    /\ hCurrentTask' = t
    /\ UNCHANGED <<sending, doomed, queued, halted>>

(* DeleteTask of the current task, from TaskMain when the program ends. *)
DeleteTask ==
    /\ Exits
    /\ CanRun({"app"})
    /\ Len(MyStack) + 2 <= MaxDepth
    /\ doomed' = doomed \cup {hCurrentTask}
    /\ TASK_READY' = TASK_READY \ {hCurrentTask}
    /\ stack' = [stack EXCEPT ![hCurrentTask] = Append(MyStack, Act("exit"))]
    /\ UNCHANGED <<sending, tasks, hCurrentTask, queued, halted>>

(* Its two loops: answer what is pending for the task, then yield for ever. *)
Exiting ==
    /\ CanRun({"exit"})
    /\ IF ForMe
       THEN ReplyMessage(0, MyStack) /\ UNCHANGED bInSendMessage
       ELSE InternalYield(MyStack, TASK_READY) /\ UNCHANGED sending

(* FatalExit ended the process. *)
Halted == halted /\ UNCHANGED <<tasks, hCurrentTask, TASK_READY, doomed, queued, stack,
                               lpSendMessageStack, frame, bInSendMessage, halted>>

TaskNext ==
    /\ \/ Resume \/ SendReturn \/ SendWait \/ ProcReturn \/ ProcReply
       \/ CallOwn \/ OwnReturn
       \/ \E t \in HTASK, m \in MsgNo : SendMessage(t, m)
       \/ AppYield \/ GetMessage \/ GotMessage \/ WaitMessage
       \/ \E t \in HTASK : PostMessage(t) \/ DriverEvent(t)
       \/ \E t \in HTASK : CreateTask(t)
       \/ DeleteTask \/ Exiting \/ Halted
    /\ habit' = habit

TaskSpec == TaskInit /\ [][TaskNext]_taskvars

(* The running task executes its kernel steps; a window procedure ends (it  *)
(* makes at most MaxCalls calls); and application code keeps coming back to *)
(* a call that gives up the processor, in a loop that may call other things *)
(* as well.                                                                 *)
Kernel ==
    /\ \/ Resume \/ SendReturn \/ SendWait \/ ProcReturn \/ OwnReturn
       \/ GotMessage \/ WaitMessage \/ Exiting
    /\ habit' = habit
GivesUp(t) ==
    /\ hCurrentTask = t /\ Doing = "app" /\ habit' = habit
    /\ AppYield \/ DeleteTask \/ \E u \in HTASK : CreateTask(u)

TaskFair == WF_taskvars(Kernel) /\ \A t \in HTASK : SF_taskvars(GivesUp(t))
TaskFairSpec == TaskSpec /\ TaskFair

-----------------------------------------------------------------------------
Activation ==
    [kind : {"app", "wait", "send", "proc", "own", "exit", "sw"}, ptr : Addr \cup {NoFrame},
     msg : MsgNo \cup {0}, id : Ids \cup {0}, yield : BOOLEAN, in : BOOLEAN,
     calls : 0..MaxCalls]
Frame ==
    [prev : Addr \cup {NoFrame}, from : HTASK, to : HTASK, msg : MsgNo \cup {0},
     id : Ids \cup {0}, lResult : Ids \cup {0}, bSendReceived : BOOLEAN,
     bSendCompleted : BOOLEAN, cInSendMessage : BOOLEAN]

(* The variables are in range; the running task exists. *)
TaskTypeOK ==
    /\ IsInjective(tasks) /\ ToSet(tasks) \subseteq HTASK
    /\ ~halted => InList(hCurrentTask) /\ MyStack # <<>>
    /\ TASK_READY \subseteq ToSet(tasks) /\ doomed \subseteq ToSet(tasks)
    /\ queued \in [HTASK -> 0..MaxQueued]
    /\ \A t \in HTASK :
          /\ stack[t] \in Seq(Activation) /\ Len(stack[t]) <= MaxDepth
          /\ stack[t] = <<>> <=> ~InList(t)
    /\ lpSendMessageStack \in Addr \cup {NoFrame}
    /\ frame \in [Addr -> Frame]
    /\ bInSendMessage \in BOOLEAN /\ halted \in BOOLEAN

(* The frames on the list, the last one first; if it does not end where it  *)
(* should, one more than there are.                                         *)
SendChain ==
    Chain([a \in Addr |-> frame[a].prev], NoFrame, Cardinality(LiveFrames) + 1,
          lpSendMessageStack)

(* Types; and lpSendMessageStack links the frames of the SendMessage calls  *)
(* that have not returned, each once: no frame is popped out of turn, and   *)
(* the list never leads into the stack of a call that is over or of a task  *)
(* that was freed.                                                          *)
SendStackIntact ==
    /\ TaskTypeOK
    /\ ToSet(SendChain) = LiveFrames
    /\ Len(SendChain) = Cardinality(LiveFrames)

(* The result SendMessage returns is the one its own message's handler      *)
(* gave, or 0 for a receiver that ended: replies never reach another call,  *)
(* however calls nest and whoever sends the same message meanwhile.         *)
RepliedByOwnHandler ==
    \A a \in LiveFrames : frame[a].bSendCompleted =>
        \/ frame[a].lResult = frame[a].id
        \/ frame[a].lResult = 0 /\ frame[a].to \notin ToSet(tasks) \ doomed

(* Nothing happens between SendMessage and its reception: a message that    *)
(* its receiver has not seen is the last on the list, and its receiver is   *)
(* the running task, about to look there.                                   *)
PickedUpAtOnce ==
    \A a \in LiveFrames : ~frame[a].bSendReceived /\ ~frame[a].bSendCompleted =>
        a = lpSendMessageStack /\ frame[a].to = hCurrentTask /\ Doing = "sw"

(* Once every SendMessage and window procedure is over, InSendMessage is    *)
(* "back to what it was before": FALSE.                                     *)
Calling(t) == \E i \in DOMAIN stack[t] : stack[t][i].kind \in {"send", "proc", "own"}
InSendRestored == (\A t \in HTASK : ~Calling(t)) => ~bInSendMessage

(* It is, when window procedures leave the answer to their return and those *)
(* of a task's own messages do not give up the processor except in the      *)
(* messages they send: calls of several tasks then return in the reverse of *)
(* the order they were made in, however the sent ones nest, yield and lose  *)
(* their answers.                                                           *)
InSendNested == habit \notin {"replies", "dialogs"} => InSendRestored

(* The SendMessage calls that a task is in return, if window procedures do  *)
(* and do not yield: all of them, for the outermost is the last to.         *)
Sending(t) == \E a \in LiveFrames : a[1] = t
SendReturns == \A t \in HTASK : Sending(t) ~> ~Sending(t)

(* "We will be run again when we first get a message in our queue": a task  *)
(* switched out while its queue is not empty runs again.                    *)
RunAgain ==
    \A t \in HTASK : (InList(t) /\ queued[t] > 0 /\ t \notin doomed)
                      ~> (hCurrentTask = t \/ ~InList(t))
=============================================================================
