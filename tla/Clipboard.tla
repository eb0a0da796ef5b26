----------------------------- MODULE Clipboard ------------------------------
(***************************************************************************)
(* The clipboard that the programs of one display share: winkrnl/          *)
(* Clipboard.c over pal/x11/DrvIPC.c.  Each program is a process of its    *)
(* own; what they share is kept by the X server: the owner of a selection, *)
(* the table of formats (property ClipboardFormat of the root window) and  *)
(* one property per format with its data.  A call of the driver is several *)
(* requests to the server, and requests of other programs come in between, *)
(* unless the driver was built with SEVERE and grabs the server to open.   *)
(*                                                                         *)
(* Programs close only a clipboard they opened, read it while it is open,  *)
(* and each time they open it empty it before they write and write one     *)
(* format.  A program may end, or die, between any two requests; the       *)
(* server then takes the selection and the grab from it.                   *)
(***************************************************************************)
EXTENDS FiniteSets

CONSTANTS
    Prog,        \* programs
    Nobody,      \* no program, window 0
    Text,        \* CF_TEXT, kept in CUT_BUFFER0
    Predefined,  \* the other formats of DrvInitIPC's table
    Registered   \* formats of RegisterClipboardFormat

ASSUME ClipAssumption ==
    /\ {Nobody, "mixed"} \cap Prog = {}
    /\ Text \notin Predefined \cup Registered /\ Predefined \cap Registered = {}

Format == {Text} \cup Predefined \cup Registered

VARIABLES
    SEVERE,      \* built with SEVERE
    grabber,     \* the program that has grabbed the server
    selection,   \* owner of the selection
    formats,     \* formats[f]: "absent", or its length is "zero" or "some"
    data,        \* data[f]: who wrote the property of f, "mixed" if appended to
    prog         \* prog[p]: the state of program p

clipvars == <<SEVERE, grabber, selection, formats, data, prog>>

(* The length of CF_TEXT is written and never read.                         *)
Listed == Predefined \cup Registered
NoFormats == [f \in Listed |-> IF f \in Registered THEN "absent" ELSE "zero"]

(* hwndOpen, lpct->winOwner, lpAllFormats; at, f and copy: the request a    *)
(* call is at, its format, and the table it has read.  emptied and wrote    *)
(* are what the program did since it opened.                                *)
Stopped == [up |-> FALSE, hwndOpen |-> FALSE, winOwner |-> Nobody,
            lpAllFormats |-> NoFormats, at |-> "idle", f |-> Text, copy |-> NoFormats,
            emptied |-> FALSE, wrote |-> {}]

ClipInit ==
    /\ SEVERE \in BOOLEAN
    /\ grabber = Nobody
    /\ selection = Nobody
    /\ formats = NoFormats
    /\ data = [f \in Format |-> Nobody]
    /\ prog = [p \in Prog |-> Stopped]

(* The server serves p, whose call is at request r. *)
At(p, r) == prog[p].up /\ prog[p].at = r /\ grabber \in {Nobody, p}
Server == <<selection, formats, data>>

(* DrvInitIPC: the table of formats starts afresh, for everybody. *)
Start(p) ==
    /\ ~prog[p].up /\ grabber = Nobody
    /\ prog' = [prog EXCEPT ![p] = [Stopped EXCEPT !.up = TRUE]]
    /\ formats' = NoFormats
    /\ UNCHANGED <<SEVERE, grabber, selection, data>>

End(p) ==
    /\ prog[p].up
    /\ prog' = [prog EXCEPT ![p] = Stopped]
    /\ selection' = IF selection = p THEN Nobody ELSE selection
    /\ grabber' = IF grabber = p THEN Nobody ELSE grabber
    /\ UNCHANGED <<SEVERE, formats, data>>

-----------------------------------------------------------------------------
(* OpenClipboard and DrvClipbrdOpen *)

OpenClipboard(p) ==
    /\ At(p, "idle") /\ ~prog[p].hwndOpen
    /\ prog' = [prog EXCEPT ![p].winOwner = p, ![p].at = "getowner"]
    /\ grabber' = IF SEVERE THEN p ELSE grabber
    /\ UNCHANGED <<SEVERE, selection, formats, data>>

(* Mutant: the server is released before the selection is taken. *)
GetOwnerUngrab(p) ==
    /\ At(p, "getowner")
    /\ prog' = [prog EXCEPT ![p].at = IF selection = Nobody THEN "setowner" ELSE "idle"]
    /\ grabber' = Nobody
    /\ UNCHANGED <<SEVERE, selection, formats, data>>

(* Mutant: a failed open keeps the server grabbed. *)
GetOwnerKeepsGrab(p) ==
    /\ At(p, "getowner")
    /\ prog' = [prog EXCEPT ![p].at = IF selection = Nobody THEN "setowner" ELSE "idle"]
    /\ UNCHANGED <<SEVERE, grabber, selection, formats, data>>

(* XGetSelectionOwner: somebody else has it, and the call fails, or nobody. *)
GetOwner(p) ==
    /\ At(p, "getowner")
    /\ prog' = [prog EXCEPT ![p].at = IF selection = Nobody THEN "setowner" ELSE "idle"]
    /\ grabber' = IF SEVERE /\ selection # Nobody THEN Nobody ELSE grabber
    /\ UNCHANGED <<SEVERE, selection, formats, data>>

SetOwner(p) ==
    /\ At(p, "setowner")
    /\ selection' = p
    /\ prog' = [prog EXCEPT ![p].at = "checkowner"]
    /\ UNCHANGED <<SEVERE, grabber, formats, data>>

(* The owner is read back; the call succeeds whoever it is. *)
CheckOwner(p) ==
    /\ At(p, "checkowner")
    /\ prog' = [prog EXCEPT ![p].winOwner = selection, ![p].at = "cutbuffer"]
    /\ UNCHANGED <<SEVERE, grabber, Server>>

Opened(r) == [r EXCEPT !.hwndOpen = TRUE, !.at = "idle", !.emptied = FALSE,
                       !.wrote = {}]

(* The length of CUT_BUFFER0, if there is one; then the table is read into  *)
(* lpAllFormats, with that length, and with SEVERE written back.            *)
CutBuffer(p) ==
    /\ At(p, "cutbuffer")
    /\ IF data[Text] = Nobody
       THEN /\ prog' = [prog EXCEPT ![p] = Opened(prog[p])]
            /\ grabber' = IF SEVERE THEN Nobody ELSE grabber
       ELSE /\ prog' = [prog EXCEPT ![p].at = "load"]
            /\ UNCHANGED grabber
    /\ UNCHANGED <<SEVERE, Server>>

Load(p) ==
    /\ At(p, "load")
    /\ prog' = [prog EXCEPT ![p] = [Opened(prog[p]) EXCEPT !.lpAllFormats = formats]]
    /\ grabber' = IF SEVERE THEN Nobody ELSE grabber
    /\ UNCHANGED <<SEVERE, Server>>

(* Mutant: the selection is not given back when another program has it. *)
CloseClipboardOwn(p) ==
    /\ At(p, "idle") /\ prog[p].hwndOpen
    /\ selection' = IF prog[p].winOwner = Nobody THEN Nobody ELSE selection
    /\ prog' = [prog EXCEPT ![p].winOwner = Nobody, ![p].hwndOpen = FALSE, ![p].wrote = {}]
    /\ UNCHANGED <<SEVERE, grabber, formats, data>>

(* CloseClipboard and DrvClipbrdClose *)
CloseClipboard(p) ==
    /\ At(p, "idle") /\ prog[p].hwndOpen
    /\ selection' = IF prog[p].winOwner # Nobody THEN Nobody ELSE selection
    /\ prog' = [prog EXCEPT ![p].winOwner = Nobody, ![p].hwndOpen = FALSE,
                            ![p].emptied = FALSE, ![p].wrote = {}]
    /\ UNCHANGED <<SEVERE, grabber, formats, data>>

-----------------------------------------------------------------------------
(* A call that is over forgets its format and its copy of the table.        *)
Done(r) == [r EXCEPT !.at = "idle", !.f = Text, !.copy = NoFormats]

(* The calls of a program that has the clipboard open start by reading the  *)
(* table of formats.                                                        *)
ReadTable(p, f, next) ==
    /\ At(p, "idle")
    /\ f \in Listed => formats[f] # "absent"
    /\ prog' = [prog EXCEPT ![p].copy = formats, ![p].f = f, ![p].at = next]
    /\ UNCHANGED <<SEVERE, grabber, Server>>

EmptyClipboard(p) == prog[p].hwndOpen /\ ReadTable(p, Text, "delete")

(* Mutant: the data of a format that is listed without any is kept. *)
DeleteListed(p) ==
    /\ At(p, "delete")
    /\ data' = [f \in Format |-> IF f \in Listed /\ prog[p].copy[f] = "some" THEN Nobody ELSE data[f]]
    /\ prog' = [prog EXCEPT ![p].at = "emptied"]
    /\ UNCHANGED <<SEVERE, grabber, selection, formats>>

(* DrvClipbrdEmpty: the properties of all listed formats but CF_TEXT are    *)
(* deleted, and the table is written back without their lengths.            *)
Delete(p) ==
    /\ At(p, "delete")
    /\ data' = [f \in Format |-> IF f \in Listed /\ prog[p].copy[f] # "absent" THEN Nobody ELSE data[f]]
    /\ prog' = [prog EXCEPT ![p].at = "emptied"]
    /\ UNCHANGED <<SEVERE, grabber, selection, formats>>

Emptied(p) ==
    LET zeroed(t) == [f \in Listed |-> IF prog[p].copy[f] # "absent" THEN "zero" ELSE t[f]]
    IN /\ At(p, "emptied")
       /\ formats' = zeroed(prog[p].copy)
       /\ prog' = [prog EXCEPT ![p] = [Done(prog[p]) EXCEPT !.lpAllFormats = zeroed(prog[p].lpAllFormats),
                                                      !.emptied = TRUE, !.wrote = {}]]
       /\ UNCHANGED <<SEVERE, grabber, selection, data>>

(* SetClipboardData and DrvClipbrdSetData: nothing for a format that is not *)
(* listed; text replaces what was there, other data is appended.            *)
SetClipboardData(p, f) ==
    /\ prog[p].hwndOpen /\ prog[p].emptied /\ prog[p].wrote = {}
    /\ ReadTable(p, f, "change")

Change(p) ==
    LET f == prog[p].f
    IN /\ At(p, "change")
       /\ data' = [data EXCEPT ![f] = IF f = Text \/ @ = Nobody THEN p ELSE "mixed"]
       /\ prog' = [prog EXCEPT ![p].at = "list"]
       /\ UNCHANGED <<SEVERE, grabber, selection, formats>>

List(p) ==
    LET table == [f \in Listed |-> IF f = prog[p].f THEN "some" ELSE prog[p].copy[f]]
    IN /\ At(p, "list")
       /\ formats' = table
       /\ prog' = [prog EXCEPT ![p] = [Done(prog[p]) EXCEPT !.lpAllFormats = table,
                                                      !.wrote = prog[p].wrote \cup {prog[p].f}]]
       /\ UNCHANGED <<SEVERE, grabber, selection, data>>

(* GetClipboardData and DrvClipbrdGetData *)
GetClipboardData(p, f) == prog[p].hwndOpen /\ ReadTable(p, f, "read")

(* The data of a listed format: all of the text, else what has a length.    *)
Result(p) ==
    LET f == prog[p].f
    IN IF f = Text \/ prog[p].copy[f] = "some" THEN data[f] ELSE Nobody

Read(p) ==
    /\ At(p, "read")
    /\ prog' = [prog EXCEPT ![p] = Done(prog[p])]
    /\ UNCHANGED <<SEVERE, grabber, Server>>

(* RegisterClipboardFormat and DrvRegisterFormat: the table is this         *)
(* program's own copy with the format added.                                *)
RegisterClipboardFormat(p, f) ==
    LET table == [prog[p].lpAllFormats EXCEPT ![f] = "zero"]
    IN /\ At(p, "idle") /\ f \in Registered /\ prog[p].lpAllFormats[f] = "absent"
       /\ formats' = table
       /\ prog' = [prog EXCEPT ![p].lpAllFormats = table]
       /\ UNCHANGED <<SEVERE, grabber, selection, data>>

ClipNext ==
    \E p \in Prog :
       \/ Start(p) \/ End(p)
       \/ OpenClipboard(p) \/ GetOwner(p) \/ SetOwner(p) \/ CheckOwner(p)
       \/ CutBuffer(p) \/ Load(p) \/ CloseClipboard(p)
       \/ EmptyClipboard(p) \/ Delete(p) \/ Emptied(p)
       \/ Change(p) \/ List(p) \/ Read(p)
       \/ \E f \in Format : SetClipboardData(p, f) \/ GetClipboardData(p, f)
                            \/ RegisterClipboardFormat(p, f)

ClipSpec == ClipInit /\ [][ClipNext]_clipvars

-----------------------------------------------------------------------------
(* Properties *)

Opening == {"setowner", "checkowner", "cutbuffer", "load"}
Request == Opening \cup {"idle", "getowner", "delete", "emptied", "change", "list", "read"}
Lengths == {"absent", "zero", "some"}
ProgState == [up : BOOLEAN, hwndOpen : BOOLEAN, winOwner : Prog \cup {Nobody},
              lpAllFormats : [Listed -> Lengths], at : Request, f : Format,
              copy : [Listed -> Lengths], emptied : BOOLEAN, wrote : SUBSET Format]

(* Types; and the server is grabbed only by a program that is opening the   *)
(* clipboard, so every way out of DrvClipbrdOpen releases it.               *)
ClipTypeOK ==
    /\ SEVERE \in BOOLEAN
    /\ {grabber, selection} \subseteq Prog \cup {Nobody}
    /\ formats \in [Listed -> Lengths]
    /\ data \in [Format -> Prog \cup {Nobody, "mixed"}]
    /\ prog \in [Prog -> ProgState]
    /\ grabber # Nobody => SEVERE /\ prog[grabber].at \in Opening \cup {"getowner"}

(* Whatever opens and closes overlap and whoever dies in between: when no   *)
(* program has the clipboard open or is opening it, the selection is free,  *)
(* and the next program can open it.                                        *)
NeverStuck ==
    (\A p \in Prog : ~prog[p].hwndOpen /\ prog[p].at \notin Opening) => selection = Nobody

(* A driver that grabs the server to open the clipboard keeps it for one    *)
(* program: who has it open owns the selection until it closes it.          *)
OpenIsExclusive == SEVERE => \A p \in Prog : prog[p].hwndOpen => selection = p

(* A program that has the clipboard open to itself and put data there reads *)
(* that data, or nothing if the table was reset by a program starting; the  *)
(* data of others is never mixed in.                                        *)
ReadsItsOwn ==
    \A p \in Prog :
       SEVERE /\ At(p, "read") /\ prog[p].hwndOpen /\ prog[p].f \in prog[p].wrote \ Registered
          => Result(p) = p \/ (prog[p].f # Text /\ Result(p) = Nobody)
=============================================================================
