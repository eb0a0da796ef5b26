----------------------------- MODULE WindowTree -----------------------------
(***************************************************************************)
(* The window manager's lists: winkrnl/WindowCreate.c and WindowPos.c.     *)
(*                                                                         *)
(* Children of a window are a list through hWndChild and hWndSibling, the  *)
(* top one first; top-level windows (popup or overlapped) are the list of  *)
(* the desktop Root.  hWndGroup links siblings into rings, one per dialog  *)
(* group; hWndLastChild is where the next child joins a ring.              *)
(*                                                                         *)
(* DestroyWindow sends messages between its steps, and window procedures   *)
(* answer them with further calls of DestroyWindow: the calls under way    *)
(* are the stack calls.  A procedure does not destroy a window that is     *)
(* already being destroyed (a child told of its parent's or of its own     *)
(* destruction destroys neither again); while WM_PARENTNOTIFY is sent it   *)
(* may.  Procedures leave the other messages to DefWindowProc.             *)
(*                                                                         *)
(* Windows are created visible and hidden only to be destroyed; owners are *)
(* top-level windows, and a window with an owner is not given a new parent.*)
(* Programs also keep to two things that the code does not check: they put *)
(* a window behind one of the same list (Restack), and give it no parent   *)
(* from its own tree (SetParent).                                          *)
(*                                                                         *)
(* The walk of DestroyWindow over what a window owns can miss a window     *)
(* that is raised meanwhile, which then outlives its owner.  The model     *)
(* shows that state and goes no further (WindowNext).                      *)
(***************************************************************************)
EXTENDS Integers, Sequences, FiniteSets, SequencesExt, Links

CONSTANTS
    Win,      \* client windows
    Root,     \* hWndRoot, the desktop
    None,     \* 0
    TaskOf,   \* the task a window belongs to
    Catchers  \* bound: the windows that take the capture

ASSUME WindowAssumption ==
    /\ IsFiniteSet(Win)
    /\ Catchers \subseteq Win
    /\ {Root, None} \cap Win = {} /\ Root # None

VARIABLES
    wnd,       \* wnd[w]: the HWND32 of w
    active,    \* hCurrentActiveWindow
    focus,     \* hCurrentFocusWindow
    capture,   \* hCurrentCapture
    calls,     \* the calls of DestroyWindow under way, the innermost last
    told,      \* history: live windows that were sent WM_DESTROY
    overtaken  \* history: windows raised above where their owner's walk goes on

wtvars == <<wnd, active, focus, capture, calls, told, overtaken>>

Kind == {"free", "child", "popup", "overlapped"}
Handle == Win \cup {None}
Hwnd == [kind : Kind, hWndChild : Handle, hWndSibling : Handle, hWndGroup : Handle,
         hWndLastChild : Handle, hWndParent : Handle, hWndOwner : Handle, group : BOOLEAN]
Freed == [kind |-> "free", hWndChild |-> None, hWndSibling |-> None,
          hWndGroup |-> None, hWndLastChild |-> None, hWndParent |-> None,
          hWndOwner |-> None, group |-> FALSE]
Desktop == [Freed EXCEPT !.kind = "popup"]

(* IsWindow, and the lists: t is the value of wnd. *)
IsWindow(t, w) == w \in Win /\ t[w].kind # "free"
Live(t) == {w \in Win : IsWindow(t, w)}
IsChildStyle(t, w) == t[w].kind = "child"
TopLevel(t) == {w \in Live(t) : ~IsChildStyle(t, w)}
ListOwner(t, w) == IF IsChildStyle(t, w) THEN t[w].hWndParent ELSE Root

(* The list that starts with w, as a sequence; TWIN_EnumerateSiblingWindows *)
(* walks it.                                                                *)
Siblings(t, w) == Chain([x \in Win |-> t[x].hWndSibling], None, Cardinality(Win) + 1, w)
Children(t, p) == Siblings(t, t[p].hWndChild)
FirstAt(list, places) == list[Min(places)]

(* The windows that up leads to from w, and w. *)
Reach(up, w) ==
    LET at == After(up, None, Cardinality(Win), w)
    IN {at[n] : n \in 0..Cardinality(Win)} \ {None}

(* GetTopLevelAncestor, IsChild, GetParent. *)
Parents(t) == [x \in DOMAIN t |-> IF IsChildStyle(t, x) THEN t[x].hWndParent ELSE None]
Ancestors(t, w) == Reach(Parents(t), w)
TopLevelAncestor(t, w) == CHOOSE a \in Ancestors(t, w) : ~IsChildStyle(t, a)
Subtree(t, w) == {x \in Live(t) : w \in Ancestors(t, x)}
(* Mutant: a top-level window's parent is the desktop. *)
GetParentDesktop(t, w) == ListOwner(t, w)

GetParent(t, w) ==
    CASE t[w].kind = "child" -> t[w].hWndParent
      [] t[w].kind = "popup" -> t[w].hWndOwner
      [] OTHER -> None

(* GW_HWNDPREVTREE: the window before w in its list, or its list's owner.   *)
PrevTree(t, w) ==
    LET p == ListOwner(t, w)
        before == {x \in ToSet(Children(t, p)) : t[x].hWndSibling = w}
    IN IF t[p].hWndChild = w \/ before = {} THEN p ELSE CHOOSE x \in before : TRUE

(* GW_HWNDPREVGROUP: the window before w in its ring. *)
PrevGroup(t, w) == CHOOSE x \in Live(t) : t[x].hWndGroup = w

(* The link that points to w points to x instead. *)
Relinked(t, w, x) ==
    LET p == PrevTree(t, w)
    IN IF p = ListOwner(t, w) THEN [t EXCEPT ![p].hWndChild = x]
       ELSE [t EXCEPT ![p].hWndSibling = x]

(* Mutant: the parent's hWndLastChild is left as it is. *)
RemoveFromListLast(t, w) ==
    LET u == Relinked(t, w, t[w].hWndSibling)
    IN [u EXCEPT ![PrevGroup(t, w)].hWndGroup = t[w].hWndGroup]

(* RemoveFromList *)
RemoveFromList(t, w) ==
    LET u == Relinked(t, w, t[w].hWndSibling)
        prev == PrevGroup(t, w)
        v == IF prev = w THEN u ELSE [u EXCEPT ![prev].hWndGroup = t[w].hWndGroup]
        p == ListOwner(t, w)
    IN IF t[p].hWndLastChild = w
       THEN [v EXCEPT ![p].hWndLastChild = IF prev = w THEN None ELSE prev]
       ELSE v

(* TWIN_InsertAsFirstSibling *)
InsertAsFirstSibling(t, w) ==
    LET p == ListOwner(t, w)
        first == t[p].hWndChild
        u == [t EXCEPT ![p].hWndChild = w, ![w].hWndSibling = first]
    IN IF t[w].group \/ first = None
       THEN [u EXCEPT ![w].hWndGroup = w]
       ELSE [u EXCEPT ![PrevGroup(t, first)].hWndGroup = w, ![w].hWndGroup = first]

(* InsertAsLastSibling, and hWndLastChild as CreateWindowEx sets it after.  *)
InsertAsLastSibling(t, w) ==
    LET p == ListOwner(t, w)
        list == Children(t, p)
        u == IF list = <<>> THEN [t EXCEPT ![p].hWndChild = w]
             ELSE [t EXCEPT ![Last(list)].hWndSibling = w]
        last == t[p].hWndLastChild
        v == IF list # <<>> /\ IsChildStyle(t, w) /\ ~t[w].group /\ last # None
             THEN [u EXCEPT ![w].hWndGroup = t[last].hWndGroup, ![last].hWndGroup = w]
             ELSE [u EXCEPT ![w].hWndGroup = w]
    IN IF IsChildStyle(t, w) THEN [v EXCEPT ![p].hWndLastChild = w] ELSE v

-----------------------------------------------------------------------------
(* A window is hidden once its call of DestroyWindow has sent the notices.  *)
Hidden(cs, w) == \E i \in DOMAIN cs : cs[i].w = w /\ cs[i].pc # "notify"

(* ChangeZOrder: HWND_TOP, HWND_BOTTOM and after a sibling.  The walk for   *)
(* HWND_TOP ends at the first window that is not a popup of w, and w goes   *)
(* after that one unless it is the first or hidden.                         *)
Top(t, w, cs) ==
    LET list == Children(t, ListOwner(t, w))
        own(x) == x # w /\ t[x].kind = "popup" /\ t[x].hWndOwner # None
                  /\ TopLevelAncestor(t, t[x].hWndOwner) = w
        q == FirstAt(list, {i \in DOMAIN list : ~own(list[i])})
        u == Relinked(t, w, t[w].hWndSibling)
    IN IF Head(list) = w \/ (~IsChildStyle(t, w) /\ q = w) THEN t
       ELSE IF ~IsChildStyle(t, w) /\ q # Head(list) /\ ~Hidden(cs, q)
       THEN [u EXCEPT ![q].hWndSibling = w, ![w].hWndSibling = u[q].hWndSibling]
       ELSE [u EXCEPT ![ListOwner(t, w)].hWndChild = w, ![w].hWndSibling = Head(list)]

(* Mutant: the last window keeps its link to the one that followed it. *)
BottomLinked(t, w) ==
    LET list == Children(t, ListOwner(t, w))
        u == Relinked(t, w, t[w].hWndSibling)
    IN IF Last(list) = w THEN t ELSE [u EXCEPT ![Last(list)].hWndSibling = w]

Bottom(t, w) ==
    LET list == Children(t, ListOwner(t, w))
        u == [Relinked(t, w, t[w].hWndSibling) EXCEPT ![w].hWndSibling = None]
    IN IF Last(list) = w THEN t ELSE [u EXCEPT ![Last(list)].hWndSibling = w]

Behind(t, w, x) ==
    LET u == Relinked(t, w, t[w].hWndSibling)
    IN [u EXCEPT ![w].hWndSibling = u[x].hWndSibling, ![x].hWndSibling = w]

-----------------------------------------------------------------------------
(* The windows that have the input, beside the lists. *)
Now == [wnd |-> wnd, active |-> active, focus |-> focus, capture |-> capture]
Becomes(s) ==
    /\ wnd' = s.wnd
    /\ active' = s.active
    /\ focus' = s.focus
    /\ capture' = s.capture

(* InternalSetActiveWindow of a top-level window: it is raised and sent     *)
(* WM_ACTIVATE, for which DefWindowProc gives the focus to it or to the     *)
(* window below it that is remembered as the dialog's focus.                *)
Activations(s, w) ==
    LET t == Top(s.wnd, w, calls)
    IN {[s EXCEPT !.wnd = t, !.active = w, !.focus = f] : f \in Subtree(t, w)}

SetActiveWindow(s, w) ==
    IF w = None THEN {[s EXCEPT !.active = None]}
    ELSE IF ~IsWindow(s.wnd, w) \/ IsChildStyle(s.wnd, w) \/ w = s.active THEN {s}
    ELSE Activations(s, w)

SetFocus(s, w) ==
    IF w = None THEN {[s EXCEPT !.focus = None]}
    ELSE {[u EXCEPT !.focus = w] : u \in SetActiveWindow(s, TopLevelAncestor(s.wnd, w))}

(* TWIN_FindAnotherOverlapped: the first of w's task, or the first of all. *)
FindAnotherOverlapped(t, w) ==
    LET list == Children(t, Root)
        all == {i \in DOMAIN list : t[list[i]].kind = "overlapped"}
        same == {i \in all : TaskOf[list[i]] = TaskOf[w] /\ list[i] # w}
    IN IF same # {} THEN FirstAt(list, same) ELSE IF all # {} THEN FirstAt(list, all) ELSE None

(* Mutant: the children give nothing up. *)
FreeWindowSelf(s, w) ==
    LET next == IF s.wnd[w].hWndOwner # None THEN s.wnd[w].hWndOwner
                ELSE FindAnotherOverlapped(s.wnd, w)
    IN {[u EXCEPT !.wnd = [x \in DOMAIN @ |-> IF x \in Subtree(s.wnd, w) THEN Freed ELSE @[x]],
                  !.focus = IF @ = w THEN None ELSE @,
                  !.capture = IF @ = w THEN None ELSE @] :
          u \in IF s.active = w THEN SetActiveWindow(s, next) ELSE {s}}

(* FreeWindow of w and of the windows below it: whoever of them is active   *)
(* passes that on to its owner or another, then gives up focus and capture. *)
FreeWindow(s, w) ==
    LET tree == Subtree(s.wnd, w)
        next == IF s.wnd[s.active].hWndOwner # None THEN s.wnd[s.active].hWndOwner
                ELSE FindAnotherOverlapped(s.wnd, s.active)
    IN {[u EXCEPT !.wnd = [x \in DOMAIN @ |-> IF x \in tree THEN Freed ELSE @[x]],
                  !.focus = IF @ \in tree THEN None ELSE @,
                  !.capture = IF @ \in tree THEN None ELSE @] :
          u \in IF s.active \in tree THEN SetActiveWindow(s, next) ELSE {s}}

-----------------------------------------------------------------------------
WindowInit ==
    /\ wnd = [w \in Win \cup {Root} |-> IF w = Root THEN Desktop ELSE Freed]
    /\ active = None /\ focus = None /\ capture = None
    /\ calls = <<>>
    /\ told = {} /\ overtaken = {}

Idle == calls = <<>>
Owns(t, w) == \E x \in Live(t) : t[x].hWndOwner = w

(* CreateWindowEx: linked as the last sibling, then shown with SW_SHOW,     *)
(* which activates a top-level window.                                      *)
Create(w) ==
    /\ Idle /\ ~IsWindow(wnd, w)
    /\ \E kind \in Kind \ {"free"}, p \in Live(wnd) \cup {None}, group \in BOOLEAN :
          LET child == kind = "child"
              t == [wnd EXCEPT ![w] = [Freed EXCEPT
                      !.kind = kind, !.group = group,
                      !.hWndParent = IF child THEN p ELSE None,
                      !.hWndOwner = IF child THEN None ELSE p]]
              s == [Now EXCEPT !.wnd = InsertAsLastSibling(t, w)]
          IN /\ CASE child -> p # None
                  [] kind = "popup" -> p \in TopLevel(wnd) \cup {None}
                  [] OTHER -> p = None
             /\ group => child
             /\ \E u \in IF child THEN {s} ELSE Activations(s, w) : Becomes(u)
    /\ UNCHANGED <<calls, told, overtaken>>

(* SetParent: the window leaves its list and becomes the first of the other.*)
(* A parent that is the window or below it is the caller's mistake: the code *)
(* does not look, and would link a circle.                                   *)
SetParent(w, p) ==
    LET t == [RemoveFromList(wnd, w) EXCEPT
                ![w].hWndParent = p, ![w].kind = IF p = None THEN "popup" ELSE "child"]
    IN /\ Idle /\ IsWindow(wnd, w) /\ wnd[w].hWndOwner = None /\ ~Owns(wnd, w)
       /\ p \in (Live(wnd) \cup {None}) \ Subtree(wnd, w)
       /\ p # wnd[w].hWndParent
       /\ wnd' = InsertAsFirstSibling(t, w)
       /\ UNCHANGED <<active, focus, capture, calls, told, overtaken>>

(* SetWindowPos without SWP_NOZORDER.  hWndInsertAfter is one of the same     *)
(* list, as callers promise: ChangeZOrder takes any window and would move w   *)
(* into that one's list.                                                      *)
Restack(w) ==
    /\ Idle /\ IsWindow(wnd, w)
    /\ wnd' \in {Top(wnd, w, calls), Bottom(wnd, w)} \cup
                {Behind(wnd, w, x) : x \in ToSet(Children(wnd, ListOwner(wnd, w))) \ {w}}
    /\ UNCHANGED <<active, focus, capture, calls, told, overtaken>>

Activate(w) ==
    /\ Idle /\ IsWindow(wnd, w)
    /\ \E u \in SetActiveWindow(Now, w) : Becomes(u)
    /\ UNCHANGED <<calls, told, overtaken>>

Focus(w) ==
    /\ Idle /\ IsWindow(wnd, w)
    /\ \E u \in SetFocus(Now, w) : Becomes(u)
    /\ UNCHANGED <<calls, told, overtaken>>

(* SetCapture; of no window: ReleaseCapture. *)
SetCapture(w) ==
    /\ Idle /\ (w = None \/ IsWindow(wnd, w))
    /\ capture' = w
    /\ UNCHANGED <<wnd, active, focus, calls, told, overtaken>>

-----------------------------------------------------------------------------
(* DestroyWindow.  A call is at "notify" while WM_PARENTNOTIFY is sent, at   *)
(* "owned" in the walk over the windows it owns (cur is the next one to look *)
(* at), at "tell" while SendDestroyMessages walks down its tree (path is the *)
(* window told last, below the ones above it).                               *)
Inner == Last(calls)
Outer == Front(calls)
Called(w) ==
    [w |-> w, path |-> <<>>,
     pc |-> IF IsChildStyle(wnd, w) THEN "notify" ELSE "owned",
     cur |-> IF IsChildStyle(wnd, w) THEN None ELSE wnd[Root].hWndChild]

(* What destroying w destroys: its tree, and the trees of what it owns.     *)
Keepers(t) == [x \in Win |-> IF IsChildStyle(t, x) THEN t[x].hWndParent ELSE t[x].hWndOwner]
Doomed(t, w) == {x \in Live(t) : w \in Reach(Keepers(t), x)}
UnderWay(cs) == UNION {{cs[i].w} \cup ToSet(cs[i].path) : i \in DOMAIN cs}

(* A program, or a window procedure while it is told, destroys w. *)
DestroyWindow(w) ==
    /\ IsWindow(wnd, w)
    /\ \/ Idle
       \/ /\ ~Idle
          /\ \/ Inner.pc = "tell" /\ Doomed(wnd, w) \cap UnderWay(calls) = {}
             \/ /\ Inner.pc = "notify"
                /\ IsWindow(wnd, Inner.w)
                /\ Doomed(wnd, w) \cap UnderWay(Outer) = {}
    /\ calls' = Append(calls, Called(w))
    /\ UNCHANGED <<wnd, active, focus, capture, told, overtaken>>

(* After the notices: nothing if the window was destroyed meanwhile.        *)
Notified ==
    /\ ~Idle /\ Inner.pc = "notify"
    /\ calls' = IF IsWindow(wnd, Inner.w) THEN Append(Outer, [Inner EXCEPT !.pc = "owned"])
                ELSE Outer
    /\ UNCHANGED <<wnd, active, focus, capture, told, overtaken>>

(* Where the walk goes on: the next sibling saved before a window was       *)
(* destroyed, or the first one if the saved one is gone too.                *)
NextSibling(t, cur) ==
    IF cur # None /\ ~IsWindow(t, cur) THEN t[Root].hWndChild ELSE cur

(* The first of a list that w owns. *)
FirstOwned(t, list, w) ==
    LET owned == {i \in DOMAIN list : t[list[i]].hWndOwner = w}
    IN IF owned = {} THEN None ELSE FirstAt(list, owned)

(* Mutant: only the siblings below w are looked at. *)
OwnedBelow(t, cur, w) == FirstOwned(t, Siblings(t, t[w].hWndSibling), w)

OwnedFrom(t, cur, w) == FirstOwned(t, Siblings(t, NextSibling(t, cur)), w)

DestroyOwned ==
    LET x == OwnedFrom(wnd, Inner.cur, Inner.w)
    IN /\ ~Idle /\ Inner.pc = "owned" /\ x # None
       /\ calls' = Outer \o <<[Inner EXCEPT !.cur = wnd[x].hWndSibling], Called(x)>>
       /\ UNCHANGED <<wnd, active, focus, capture, told, overtaken>>

(* The window that becomes active is raised.  If it is owned by a window that *)
(* is looking for what it owns, the walk may have passed its new place.       *)
Overtaking(x) ==
    {o \in (Live(wnd) \ {active}) \cap {x} :
        /\ \A i \in DOMAIN calls : calls[i].w # o
        /\ \E i \in DOMAIN calls : calls[i].pc = "owned" /\ wnd[o].hWndOwner = calls[i].w}

(* Nothing owned is left: the focus goes to the parent, and the window is   *)
(* the first to be sent WM_DESTROY.                                         *)
StartTelling ==
    /\ ~Idle /\ Inner.pc = "owned" /\ OwnedFrom(wnd, Inner.cur, Inner.w) = None
    /\ IF focus \in Subtree(wnd, Inner.w)
       THEN \E u \in SetFocus(Now, GetParent(wnd, Inner.w)) : Becomes(u)
       ELSE UNCHANGED <<wnd, active, focus, capture>>
    /\ calls' = Append(Outer, [Inner EXCEPT !.pc = "tell", !.cur = None, !.path = <<Inner.w>>])
    /\ told' = told \cup {Inner.w}
    /\ overtaken' = overtaken \cup Overtaking(active')

(* Mutant: only the first child of a window is told. *)
NextToTellFirst(t, path) ==
    IF t[Last(path)].hWndChild # None THEN Append(path, t[Last(path)].hWndChild) ELSE <<>>

(* SendDestroyMessages: down to the first child, else to the next sibling   *)
(* of the window or of the nearest one above it, never beside path[1].      *)
NextToTell(t, path) ==
    LET up == {i \in 2..Len(path) : t[path[i]].hWndSibling # None}
        i == CHOOSE k \in up : \A j \in up : j <= k
    IN IF t[Last(path)].hWndChild # None THEN Append(path, t[Last(path)].hWndChild)
       ELSE IF up = {} THEN <<>>
       ELSE Append(SubSeq(path, 1, i - 1), t[path[i]].hWndSibling)

Tell ==
    LET path == NextToTell(wnd, Inner.path)
    IN /\ ~Idle /\ Inner.pc = "tell" /\ path # <<>>
       /\ calls' = Append(Outer, [Inner EXCEPT !.path = path])
       /\ told' = told \cup {Last(path)}
       /\ UNCHANGED <<wnd, active, focus, capture, overtaken>>

(* Everyone was told: the window leaves its list and its tree is freed. *)
Free ==
    /\ ~Idle /\ Inner.pc = "tell" /\ NextToTell(wnd, Inner.path) = <<>>
    /\ \E u \in FreeWindow([Now EXCEPT !.wnd = RemoveFromList(wnd, Inner.w)], Inner.w) : Becomes(u)
    /\ told' = told \ Subtree(wnd, Inner.w)
    /\ calls' = Outer
    /\ overtaken' = (overtaken \cup Overtaking(active')) \ Subtree(wnd, Inner.w)

Destroying == Notified \/ DestroyOwned \/ StartTelling \/ Tell \/ Free

(* A window that outlives its owner keeps a handle that may become another   *)
(* window's: what is done after that is not followed.                        *)
OwnersOutlive == \A w \in Live(wnd) : wnd[w].hWndOwner \in Live(wnd) \cup {None}

WindowNext ==
    /\ OwnersOutlive
    /\ \/ \E w \in Win :
             \/ Create(w) \/ Restack(w) \/ Activate(w) \/ Focus(w) \/ DestroyWindow(w)
             \/ \E p \in Win \cup {None} : SetParent(w, p)
       \/ \E w \in Catchers \cup {None} : SetCapture(w)
       \/ Destroying

WindowSpec == WindowInit /\ [][WindowNext]_wtvars

-----------------------------------------------------------------------------
(* Properties *)

(* Types; and no pointer of a window leads to one that is freed or to the   *)
(* desktop where a window is meant.                                         *)
WindowTypeOK ==
    /\ wnd \in [Win \cup {Root} -> Hwnd]
    /\ {active, focus, capture} \subseteq Handle
    /\ calls \in Seq([w : Win, path : Seq(Win), pc : {"notify", "owned", "tell"}, cur : Handle])
    /\ told \subseteq Win /\ overtaken \subseteq Win

(* Every window is in the list of its parent (of the desktop if it has none) *)
(* exactly once, the lists hold nothing else, and parents outlive their     *)
(* children, whatever is destroyed, reparented or restacked in between.     *)
ListsExact ==
    /\ \A w \in Live(wnd) : ListOwner(wnd, w) \in Live(wnd) \cup {Root}
    /\ \A p \in Live(wnd) \cup {Root} :
          LET list == Children(wnd, p)
          IN /\ IsInjective(list)
             /\ ToSet(list) = {w \in Live(wnd) : ListOwner(wnd, w) = p}

(* hWndGroup links windows into rings of siblings (GW_HWNDPREVGROUP walks    *)
(* until it is back), and hWndLastChild is a child: a new child that joins  *)
(* its ring joins a group of its own dialog.                                *)
GroupsAreRings ==
    /\ \A w \in Live(wnd) :
          /\ wnd[w].hWndGroup \in Live(wnd)
          /\ ListOwner(wnd, wnd[w].hWndGroup) = ListOwner(wnd, w)
          /\ \E x \in Live(wnd) : wnd[x].hWndGroup = w
    /\ \A p \in Live(wnd) \cup {Root} :
          wnd[p].hWndLastChild # None =>
             /\ wnd[p].hWndLastChild \in Live(wnd)
             /\ ListOwner(wnd, wnd[p].hWndLastChild) = p

(* The windows that have the activation, the focus and the capture exist,   *)
(* also between the steps of a window's destruction.                        *)
InputIsLive == {active, focus, capture} \subseteq Live(wnd) \cup {None}

(* A window does not outlive its owner (OwnersOutlive) unless it was raised   *)
(* above where its owner's walk goes on: otherwise the walk over the siblings, *)
(* which changes under the walker as owned windows take others with them and  *)
(* as activation restacks the rest, finds all of them.                        *)
OrphansOvertaken ==
    \A w \in Live(wnd) : wnd[w].hWndOwner \in Live(wnd) \cup {None} \/ w \in overtaken

(* The links as said above: the lists and the rings are changed together, by *)
(* the step too that leaves a window without its owner.                      *)
LinksExact == ListsExact /\ GroupsAreRings

(* No handle that the window manager keeps is one of a freed window, but the *)
(* owner of a window that was overtaken.                                     *)
NothingDangles == InputIsLive /\ OrphansOvertaken

(* No window is freed that was not sent WM_DESTROY, although procedures      *)
(* destroy windows of the tree while it is being walked.                    *)
ToldBeforeFreed ==
    [][\A w \in Win : IsWindow(wnd, w) /\ ~IsWindow(wnd', w) => w \in told]_wtvars
=============================================================================
