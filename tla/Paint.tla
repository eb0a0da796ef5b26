------------------------------- MODULE Paint --------------------------------
(***************************************************************************)
(* Showing and painting: winkrnl/WindowRedraw.c, the show and hide phases  *)
(* of SetWindowPos (WindowPos.c), GetMessage's search for a window to      *)
(* paint (Messages.c) and the X events they depend on (pal/x11).           *)
(*                                                                         *)
(* A window that needs painting has WFDIRTY, and the windows above it have *)
(* WFCHILDDIRTY so that the search finds the way down.  A top-level window *)
(* is painted once it is WFMAPPED, which it becomes with its first Expose: *)
(* the X server and the window manager answer later, and what they send    *)
(* waits in a queue that is not always read to its end.                    *)
(*                                                                         *)
(* One task, windows that keep their parents, without SWP_NOREDRAW,        *)
(* minimized windows and the flag WFNCDIRTY of frames.                     *)
(***************************************************************************)
EXTENDS Integers, Sequences, FiniteSets, SequencesExt

CONSTANTS
    Pane,       \* windows
    Screen,     \* the desktop
    NoPane,     \* 0
    hWndParent, \* the parent of each window, Screen for a top-level window
    MaxEvents   \* bound: X events that wait

ASSUME PaintAssumption ==
    /\ IsFiniteSet(Pane) /\ {Screen, NoPane} \cap Pane = {} /\ Screen # NoPane
    /\ hWndParent \in [Pane -> Pane \cup {Screen}]
    /\ \A call \in {"show", "update"}, w \in Pane : <<call, w>> # NoPane
    /\ MaxEvents \in Nat \ {0, 1}

VARIABLES
    zorder,     \* zorder[p]: the children of p, the top one first
    WS_VISIBLE, WFMAPPED, WFMAPPINGPENDING, WFVISIBILITY, \* windows with the flag
    WFDIRTY, WFCHILDDIRTY,
    QFPAINT,    \* the flag of the task's queue
    waiting,    \* the call that waits for a window to be mapped
    xwin,       \* xwin[w]: the X window of the top-level window w
    xqueue,     \* events that the program has not read
    cut         \* history: a search has stood at a marked window without children

flagvars == <<WS_VISIBLE, WFMAPPED, WFMAPPINGPENDING, WFVISIBILITY>>
showvars == <<flagvars, waiting, xwin, xqueue>>
paintvars == <<zorder, showvars, WFDIRTY, WFCHILDDIRTY, QFPAINT, cut>>

Exists(w) == w \in ToSet(zorder[hWndParent[w]])
Shell == {w \in Pane : hWndParent[w] = Screen}

(* The windows above w, the fewest that have w's parent and, of each of     *)
(* them, the parent; and those at and below w.  A window is created after   *)
(* its parent, so none is above itself.                                     *)
HasParents(S, w) == \A x \in S \cup {w} : hWndParent[x] \in S \cup {Screen}
UpwardOf == [w \in Pane |-> {x \in Pane : \A S \in SUBSET Pane : HasParents(S, w) => x \in S}]
Upward(w) == UpwardOf[w]
ASSUME TreeAssumption == \A w \in Pane : w \notin Upward(w)

Branch(w) == {x \in Pane : Exists(x) /\ (x = w \/ w \in Upward(x))}
ShellOf(w) == CHOOSE x \in Upward(w) \cup {w} : x \in Shell

IsWindowVisible(w) == Upward(w) \cup {w} \subseteq WS_VISIBLE

(* Mutant: only the parent of a dirty window is marked. *)
MarkedParents(S) == {hWndParent[w] : w \in S} \ {Screen}

Marked(S) == UNION {Upward(w) : w \in S}

(* InternalSetPaintFlags of the windows in S, with RDW_INVALIDATE; those in  *)
(* gone are freed.                                                          *)
SetPaintFlags(S, gone) ==
    /\ WFDIRTY' = (WFDIRTY \cup S) \ gone
    /\ WFCHILDDIRTY' = (WFCHILDDIRTY \cup Marked(S)) \ gone
    /\ QFPAINT' = (QFPAINT \/ S # {})
NoPainting == UNCHANGED <<WFDIRTY, WFCHILDDIRTY, QFPAINT>>

(* A call of the program starts: none of its calls waits. *)
Ready(w) == waiting = NoPane /\ Exists(w)

(* A list of siblings without w. *)
PlaceOf(list, w) == CHOOSE i \in DOMAIN list : list[i] = w
Unlinked(list, w) ==
    [i \in 1..(Len(list) - 1) |-> IF i < PlaceOf(list, w) THEN list[i] ELSE list[i + 1]]

(* The events that wait: which, and those but the ones in D.                *)
Event == {"clear", "obscured", "Expose"} \X Shell
Exposed == {xqueue[i][2] : i \in {k \in DOMAIN xqueue : xqueue[k][1] = "Expose"}}
EventsKept(D) ==
    LET kept[n \in 0..Len(xqueue)] ==
            IF n = 0 THEN <<>>
            ELSE IF xqueue[n] \in D THEN kept[n - 1] ELSE Append(kept[n - 1], xqueue[n])
    IN kept
EventsBut(D) == EventsKept(D)[Len(xqueue)]
RoomFor(n) == Len(xqueue) + n <= MaxEvents

-----------------------------------------------------------------------------
PaintInit ==
    /\ zorder = [p \in Pane \cup {Screen} |-> <<>>]
    /\ WS_VISIBLE = {} /\ WFMAPPED = {} /\ WFMAPPINGPENDING = {} /\ WFVISIBILITY = {}
    /\ WFDIRTY = {} /\ WFCHILDDIRTY = {} /\ QFPAINT = FALSE
    /\ waiting = NoPane
    /\ xwin = [w \in Shell |-> "unmapped"]
    /\ xqueue = <<>>
    /\ cut = FALSE

(* CreateWindowEx links a window that is not yet visible. *)
CreatePane(w) ==
    LET p == hWndParent[w]
    IN /\ waiting = NoPane /\ ~Exists(w) /\ (p # Screen => Exists(p))
       /\ zorder' = [zorder EXCEPT ![p] = Append(@, w)]
       /\ UNCHANGED <<showvars, cut>>
    /\ NoPainting

(* SetWindowPos with SWP_SHOWWINDOW.  A child is on the screen at once and  *)
(* invalid with what is below it; for a top-level window the X server is    *)
(* asked to map and raise it, and the call waits until it is there.         *)
ShowChild(w) ==
    /\ Ready(w) /\ w \notin Shell
    /\ WS_VISIBLE' = WS_VISIBLE \cup {w}
    /\ WFMAPPED' = WFMAPPED \cup {w}
    /\ WFMAPPINGPENDING' = WFMAPPINGPENDING \ {w}
    /\ WFVISIBILITY' = WFVISIBILITY \cup {w}
    /\ \E S \in {{w}, Branch(w)} : SetPaintFlags(S, {})
    /\ UNCHANGED <<zorder, waiting, xwin, xqueue, cut>>

ShowShell(w) ==
    /\ Ready(w) /\ w \in Shell
    /\ WS_VISIBLE' = WS_VISIBLE \cup {w}
    /\ WFMAPPINGPENDING' = WFMAPPINGPENDING \cup {w}
    /\ WFVISIBILITY' = WFVISIBILITY \cup {w}
    /\ waiting' = <<"show", w>>
    /\ IF xwin[w] = "covered"
       THEN /\ RoomFor(2)
            /\ xwin' = [xwin EXCEPT ![w] = "shown"]
            /\ xqueue' = xqueue \o <<<<"clear", w>>, <<"Expose", w>>>>
       ELSE /\ xwin' = [xwin EXCEPT ![w] = IF @ = "shown" THEN @ ELSE "asked"]
            /\ UNCHANGED xqueue
    /\ UNCHANGED <<zorder, WFMAPPED, cut>>
    /\ NoPainting

(* The wait ends when the window is mapped or nothing of it can be seen.    *)
MayGoOn(w) == w \in WFMAPPED \/ w \notin WFVISIBILITY

(* The end of SetWindowPos: the window is activated, and comes to the top.  *)
Shown(w) ==
    /\ waiting = <<"show", w>> /\ MayGoOn(w)
    /\ zorder' = [zorder EXCEPT ![Screen] = <<w>> \o Unlinked(@, w)]
    /\ waiting' = NoPane
    /\ UNCHANGED <<flagvars, xwin, xqueue, cut>>
    /\ NoPainting

Unflagged(S) ==
    /\ WS_VISIBLE' = WS_VISIBLE \ S
    /\ WFMAPPED' = WFMAPPED \ S
    /\ WFMAPPINGPENDING' = WFMAPPINGPENDING \ S
    /\ WFVISIBILITY' = WFVISIBILITY \ S

(* What may be invalid where a child was: what is above and below it        *)
(* (TWIN_GenerateExpose), or the whole tree.                                *)
HiddenArea(w) == {Upward(w) \cup Branch(w), Branch(ShellOf(w))}

(* SetWindowPos with SWP_HIDEWINDOW; a top-level window is unmapped, with an *)
(* XSync.                                                                   *)
HideChild(w) ==
    /\ Ready(w) /\ w \notin Shell
    /\ Unflagged({w})
    /\ \E S \in HiddenArea(w) : SetPaintFlags(S, {})
    /\ UNCHANGED <<zorder, waiting, xwin, xqueue, cut>>

(* Mutant: the X window stays. *)
HideLogically(w) ==
    /\ Ready(w) /\ w \in Shell
    /\ Unflagged({w})
    /\ UNCHANGED <<zorder, waiting, xwin, xqueue, cut>>
    /\ NoPainting

HideShell(w) ==
    /\ Ready(w) /\ w \in Shell
    /\ Unflagged({w})
    /\ xwin' = [xwin EXCEPT ![w] = "unmapped"]
    /\ UNCHANGED <<zorder, waiting, xqueue, cut>>
    /\ NoPainting

(* Mutant: only the window itself is freed. *)
GoneAlone(w) == {w}
Gone(w) == Branch(w)

(* DestroyWindow hides the window and frees it with those below; events for *)
(* it will find no context.                                                 *)
DestroyPane(w) ==
    /\ Ready(w)
    /\ zorder' = [p \in DOMAIN zorder |->
                     IF p \in Gone(w) THEN <<>>
                     ELSE IF p = hWndParent[w] THEN Unlinked(zorder[p], w) ELSE zorder[p]]
    /\ Unflagged(Gone(w))
    /\ \E S \in IF w \in WS_VISIBLE \ Shell THEN HiddenArea(w) ELSE {{}} :
          SetPaintFlags(S, Gone(w))
    /\ xwin' = [x \in Shell |-> IF x = w THEN "unmapped" ELSE xwin[x]]
    /\ xqueue' = EventsBut({e \in Event : e[2] = w})
    /\ UNCHANGED <<waiting, cut>>

(* RedrawWindow; and BeginPaint, which validates a window and nothing below.*)
Invalidate(w) ==
    /\ Ready(w)
    /\ \E S \in {{w}, Branch(w)} : SetPaintFlags(S, {})
    /\ UNCHANGED <<zorder, showvars, cut>>

BeginPaint(w) ==
    /\ Ready(w)
    /\ WFDIRTY' = WFDIRTY \ {w}
    /\ UNCHANGED <<zorder, showvars, WFCHILDDIRTY, QFPAINT, cut>>

(* UpdateWindow waits for the window too, and then paints what can be seen  *)
(* from it on down.                                                         *)
UpdateWindow(w) ==
    /\ Ready(w) /\ IsWindowVisible(w)
    /\ waiting' = <<"update", w>>
    /\ UNCHANGED <<zorder, flagvars, xwin, xqueue, cut>>
    /\ NoPainting

Updated(w) ==
    /\ waiting = <<"update", w>> /\ MayGoOn(w)
    /\ WFDIRTY' = WFDIRTY \ {x \in Branch(w) : IsWindowVisible(x)}
    /\ waiting' = NoPane
    /\ UNCHANGED <<zorder, flagvars, xwin, xqueue, WFCHILDDIRTY, QFPAINT, cut>>

-----------------------------------------------------------------------------
(* InternalUpdateWindows.  What its loops know: at is the window looked at   *)
(* (hWnd), cur the one whose children are (hCurParent), marks WFCHILDDIRTY. *)
(* stuck records that a marked window had no children.                      *)
Sibling(w) ==
    LET list == zorder[hWndParent[w]]
    IN IF PlaceOf(list, w) < Len(list) THEN list[PlaceOf(list, w) + 1] ELSE NoPane
FirstChild(p) == IF zorder[p] = <<>> THEN NoPane ELSE zorder[p][1]

Paintable(w) == w \in WFDIRTY \cap WS_VISIBLE \cap WFMAPPED

Looking(at, cur, marks, stuck, ended) ==
    [at |-> at, cur |-> cur, marks |-> marks, stuck |-> stuck, ended |-> ended]

(* The children of cur are done: its next sibling, or back to its parent.   *)
AfterChildren(cur) ==
    IF cur = Screen THEN NoPane
    ELSE IF Sibling(cur) # NoPane THEN Sibling(cur)
    ELSE IF cur \in Shell THEN NoPane ELSE hWndParent[cur]
Ascend(s) ==
    LET up == AfterChildren(s.cur)
    IN Looking(up, IF up = NoPane THEN s.cur ELSE hWndParent[up], s.marks \ {s.cur},
               s.stuck, up = NoPane)

(* One level down; a window without children leaves at NULL, and cur alone. *)
Descend(s) ==
    IF zorder[s.at] = <<>> THEN Looking(NoPane, s.cur, s.marks, TRUE, FALSE)
    ELSE Looking(FirstChild(s.at), s.at, s.marks, s.stuck, FALSE)

Turn(s) ==
    IF s.ended THEN s
    ELSE IF s.at = NoPane THEN Ascend(s)
    ELSE IF Paintable(s.at) THEN [s EXCEPT !.ended = TRUE]
    ELSE IF s.at \notin s.marks THEN [s EXCEPT !.at = Sibling(s.at)]
    ELSE Descend(s)

(* The search after so many turns of its loops.  Each time the children of   *)
(* a window are done one mark less is left, and in between no window is     *)
(* looked at twice: MaxTurns are enough for it to end.                      *)
MaxTurns == (Cardinality(Pane) + 1) * (Cardinality(Pane) + 1)
Search ==
    LET after[n \in 0..MaxTurns] ==
            IF n = 0 THEN Looking(FirstChild(Screen), Screen, WFCHILDDIRTY, FALSE, FALSE)
            ELSE Turn(after[n - 1])
    IN after
Found == Search[MaxTurns]

(* GetMessage, with nothing else in the queue: a window to paint, or the    *)
(* flag of the queue is reset.                                              *)
GetPaintMessage ==
    /\ waiting = NoPane /\ QFPAINT
    /\ LET found == Found
       IN /\ WFCHILDDIRTY' = found.marks
          /\ QFPAINT' = (found.at # NoPane)
          /\ cut' = (cut \/ found.stuck)
    /\ UNCHANGED <<zorder, showvars, WFDIRTY>>

-----------------------------------------------------------------------------
(* DriverPrivateEvents: VisibilityNotify; and Expose, with which all other   *)
(* Expose events of the queue are handled (TWIN_ForwardExpose).             *)
VisibilityNotify ==
    /\ xqueue # <<>> /\ Head(xqueue)[1] # "Expose"
    /\ LET w == Head(xqueue)[2]
       IN WFVISIBILITY' = IF Head(xqueue)[1] = "clear" THEN WFVISIBILITY \cup {w}
                          ELSE WFVISIBILITY \ {w}
    /\ xqueue' = Tail(xqueue)
    /\ UNCHANGED <<zorder, WS_VISIBLE, WFMAPPED, WFMAPPINGPENDING, waiting, xwin, cut>>
    /\ NoPainting

Expose ==
    /\ xqueue # <<>> /\ Head(xqueue)[1] = "Expose"
    /\ WFMAPPED' = WFMAPPED \cup Exposed
    /\ WFMAPPINGPENDING' = WFMAPPINGPENDING \ Exposed
    /\ \E S \in {Exposed, UNION {Branch(w) : w \in Exposed}} : SetPaintFlags(S, {})
    /\ xqueue' = EventsBut({e \in Event : e[1] = "Expose"})
    /\ UNCHANGED <<zorder, WS_VISIBLE, WFVISIBILITY, waiting, xwin, cut>>

(* The X server and the window manager map a window, cover and uncover it,  *)
(* or lose a part of what it shows.                                         *)
Serve(w, state, events) ==
    /\ RoomFor(Len(events))
    /\ xwin' = [xwin EXCEPT ![w] = state]
    /\ xqueue' = xqueue \o [i \in DOMAIN events |-> <<events[i], w>>]
    /\ UNCHANGED <<zorder, flagvars, waiting, cut>>
    /\ NoPainting

ServerMaps(w) == xwin[w] = "asked" /\ Serve(w, "shown", <<"clear", "Expose">>)
ServerMapsCovered(w) == xwin[w] = "asked" /\ Serve(w, "covered", <<"obscured">>)
Cover(w) == xwin[w] = "shown" /\ Serve(w, "covered", <<"obscured">>)
Uncover(w) == xwin[w] = "covered" /\ Serve(w, "shown", <<"clear", "Expose">>)
Damage(w) == xwin[w] = "shown" /\ Serve(w, "shown", <<"Expose">>)

PaintNext ==
    \/ \E w \in Pane :
          \/ CreatePane(w) \/ DestroyPane(w)
          \/ ShowChild(w) \/ ShowShell(w) \/ Shown(w) \/ HideChild(w) \/ HideShell(w)
          \/ Invalidate(w) \/ BeginPaint(w) \/ UpdateWindow(w) \/ Updated(w)
    \/ GetPaintMessage \/ VisibilityNotify \/ Expose
    \/ \E w \in Shell :
          ServerMaps(w) \/ ServerMapsCovered(w) \/ Cover(w) \/ Uncover(w) \/ Damage(w)

PaintSpec == PaintInit /\ [][PaintNext]_paintvars

-----------------------------------------------------------------------------
(* Properties *)

(* Types; and only windows that exist have children, flags or events.       *)
PaintTypeOK ==
    LET live == {w \in Pane : Exists(w)}
    IN /\ zorder \in [Pane \cup {Screen} -> Seq(Pane)]
       /\ \A p \in Pane \cup {Screen} :
             /\ IsInjective(zorder[p]) /\ ToSet(zorder[p]) \subseteq {w \in Pane : hWndParent[w] = p}
             /\ p \notin live \cup {Screen} => zorder[p] = <<>>
       /\ UNION {WS_VISIBLE, WFMAPPED, WFMAPPINGPENDING, WFVISIBILITY, WFDIRTY, WFCHILDDIRTY}
             \subseteq live
       /\ {QFPAINT, cut} \subseteq BOOLEAN
       /\ waiting # NoPane => waiting \in ({"show"} \X (live \cap Shell)) \cup ({"update"} \X live)
       /\ xwin \in [Shell -> {"unmapped", "asked", "shown", "covered"}]
       /\ \A w \in Shell \ live : xwin[w] = "unmapped"
       /\ xqueue \in Seq(Event) /\ \A i \in DOMAIN xqueue : xqueue[i][2] \in live

(* An Expose of w waits, or will be sent when w is mapped or uncovered.     *)
ExposeComes(w) == w \in Exposed \/ (w \in Shell /\ xwin[w] \in {"asked", "covered"})

(* A window that can be painted and needs it will be: GetMessage will       *)
(* search (QFPAINT) and find the way down to it, or its Expose is still to  *)
(* come, with which both are set.  Once a search has stood at a marked      *)
(* window without children this is lost.                                    *)
PaintIsDue ==
    \A w \in Pane :
       Paintable(w) => \/ QFPAINT /\ Upward(w) \subseteq WFCHILDDIRTY
                       \/ ExposeComes(w)
                       \/ cut

(* A call that waits for a window to be mapped is answered: what it waits    *)
(* for has happened, or the server will send it.                            *)
WaitIsAnswered ==
    waiting # NoPane =>
       \/ MayGoOn(waiting[2])
       \/ ExposeComes(waiting[2])
       \/ <<"obscured", waiting[2]>> \in ToSet(xqueue)

(* WindowPos.c:612: after a window was hidden, WFMAPPED is reset again,     *)
(* because an Expose that was handled may have set it.                      *)
HiddenIsUnmapped == \A w \in Pane : w \notin WS_VISIBLE => w \notin WFMAPPED
=============================================================================
