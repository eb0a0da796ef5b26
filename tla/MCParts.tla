------------------------------ MODULE MCParts -------------------------------
(* Small instances of the parts that stand alone: what hands out room and   *)
(* takes it back (the slots of a queue: MsgQueue, the tags of objects:      *)
(* HandleTable, atoms: AtomTable, the local heap: LocalHeap, the clipboard: *)
(* Clipboard) and the flags of the interpreter (Interp).  They share no     *)
(* state: a behaviour uses one of them.                                     *)
EXTENDS MsgQueue, HandleTable, AtomTable, LocalHeap, Clipboard, Interp, TLC

CONSTANTS t1, t2, w1, w2, w3, pen, win, s1, s2, s3

(* w3 is a scroll bar of w1, a window of task t1. *)
MCWndTask == [w \in Window |-> IF w = w2 THEN t2 ELSE t1]
MCChildOf == {p \in Window \X Window : p[1] = w1 /\ p[2] = w3}
MCPart == {w \in Window : w = w3}
MCCalls == {c \in Call : c.hwnd = NoWnd /\ c.min = 0 /\ c.max = 0}

(* Strings of three lengths, the two longer ones with the same hash; that of *)
(* the shortest is a number.                                                *)
MCSize == [s \in Str |-> CASE s = s1 -> 2 [] s = s2 -> 3 [] s = s3 -> 4]
MCHash == [s \in Str |-> IF s = s1 THEN 2 ELSE 1]

(* Types of objects and objects of the heap start alike. *)
Alike == Permutations(Objs) \cup Permutations(Signature)

(* A driver built without SEVERE promises nothing of the data: its programs *)
(* open, empty, read and close the clipboard, and write nothing.            *)
OnlyOpens == SEVERE \/ \A p \in Prog : prog[p].at \notin {"change", "list"}

VARIABLE part

MCInit ==
    /\ Init /\ TableInit /\ AtomInit /\ HeapInit /\ ClipInit /\ InterpInit
    /\ part \in {"queue", "objects", "atoms", "heap", "clipboard", "flags"}
    /\ SEVERE \/ part = "clipboard" \* how the driver was built is nothing to the others

MCNext ==
    /\ UNCHANGED part
    /\ \/ part = "queue" /\ Next /\ UNCHANGED <<tablevars, atomvars, lhvars, clipvars, interpvars>>
       \/ part = "objects" /\ TableNext /\ UNCHANGED <<vars, atomvars, lhvars, clipvars, interpvars>>
       \/ part = "atoms" /\ AtomNext /\ UNCHANGED <<vars, tablevars, lhvars, clipvars, interpvars>>
       \/ part = "heap" /\ HeapNext /\ UNCHANGED <<vars, tablevars, atomvars, clipvars, interpvars>>
       \/ part = "clipboard" /\ ClipNext /\ OnlyOpens'
          /\ UNCHANGED <<vars, tablevars, atomvars, lhvars, interpvars>>
       \/ part = "flags" /\ InterpNext /\ UNCHANGED <<vars, tablevars, atomvars, lhvars, clipvars>>

(* The type invariants of the parts that have none among the properties. *)
PartsTypeOK == AtomTypeOK /\ HeapTypeOK /\ ClipTypeOK /\ InterpTypeOK

MCSpec == MCInit /\ [][MCNext]_<<vars, tablevars, atomvars, lhvars, clipvars, interpvars, part>>
=============================================================================
