----------------------------- MODULE MCMessages -----------------------------
(* Small instances of the two halves of messaging that share no state: a    *)
(* queue (QueueList) and the tasks that send to each other (TaskMsg).  A    *)
(* behaviour uses one of them and leaves the other as it was at the start.  *)
EXTENDS MCQueueList, MCTaskMsg

VARIABLE part

mcvars == <<vars, taskvars, part>>

MCInit ==
    /\ Init /\ TaskInit
    /\ \/ part = "queue" /\ habit = CHOOSE h \in Habits : TRUE
       \/ part = "tasks"

MCNext ==
    /\ UNCHANGED part
    /\ \/ part = "queue" /\ Next /\ UNCHANGED taskvars
       \/ part = "tasks" /\ TaskNext /\ UNCHANGED vars

MCSpec == MCInit /\ [][MCNext]_mcvars

(* Each half with the fairness of its own module, QueueFair and TaskFair.   *)
(* No behaviour takes steps of both, so fairness to a step of one or of the *)
(* other is fairness to each.                                               *)
Queue(A) == part = "queue" /\ A /\ UNCHANGED <<taskvars, part>>
Tasks(A) == part = "tasks" /\ A /\ UNCHANGED <<vars, part>>

MCFairSpec ==
    /\ MCSpec
    /\ WF_mcvars(Queue(Walk) \/ Tasks(Kernel))
    /\ SF_mcvars(Queue(CallGetMessage(t1)) \/ Tasks(GivesUp(ta)))
    /\ SF_mcvars(Queue(CallGetMessage(t2)) \/ Tasks(GivesUp(tb)))
    /\ SF_mcvars(Tasks(GivesUp(tc)))
=============================================================================
