# TLA+ models of the Willows TWIN libraries

The repository implements the Windows 3.1 API as a library: programs for
16-bit Windows run as *cooperative tasks* of one process, on top of a driver for
X11 (`pal/x11`) and, for binaries, an x86 interpreter (`intp32`).  Everything a
program does goes through the user and kernel services in `winkrnl/`: it gets
messages, sends messages to windows of other tasks, yields, owns timers and
windows, allocates memory, and names everything by 16-bit handles and atoms.  These
services are small, old, pointer-based C whose correctness depends on orders of
events nobody writes a unit test for; the repository has no tests for them
(`tests/` is empty).  They are what this project models.

## 1. Inventory

### Modelled components

| Component | Source | State | Operations | Module |
|---|---|---|---|---|
| Message queues | `winkrnl/Kernel.c`, `Messages.c` | per queue: a pool of slots, list of waiting messages, free list | `AllocQueue`, `QueueAddMsg`, `QueueGetMsg`, `SetMessageQueue`, `TWIN_FlushWindowMessages` | `MsgDefs`, `MsgQueue` (abstract), `QueueList` |
| Input forwarding | `winkrnl/Events.c` | none of its own | `TWIN_ForwardButtonEvent`, called in the middle of a walk over the system queue | `QueueList` |
| Tasks, scheduler | `winkrnl/KrnTask.c` | task list, current task, ready and delete-pending flags | `CreateTask`, `DeleteTask`, `Yield`, `DirectedYield`, `ScheduleTask`, `FreeTask` | `TaskMsg` |
| Messages between tasks | `winkrnl/Messages.c` | `lpSendMessageStack`: a list of frames on the stacks of the senders; `bInSendMessage` | `SendMessage`, `ReplyMessage`, `TWIN_ReceiveMessage`, `GetMessage`, `PostMessage` | `TaskMsg` |
| Windows | `winkrnl/WindowCreate.c`, `WindowPos.c` | child lists, dialog groups, owners; active window, focus, capture | `CreateWindowEx`, `SetParent`, `ChangeZOrder`, `SetActiveWindow`, `SetFocus`, `SetCapture`, `DestroyWindow`, `FreeWindow` | `WindowTree` |
| Painting | `winkrnl/WindowRedraw.c`, `WindowPos.c`, `pal/x11/XEvents.c` | dirty and mapped flags, `QFPAINT`; the X windows and their events | `RedrawWindow`, `BeginPaint`, `UpdateWindow`, `InternalUpdateWindows`, `ShowWindow`, Expose and VisibilityNotify | `Paint` |
| Object table | `winkrnl/ObjEngine.c` | blocks of tags, free list, reference counts | the functions of `HandleObj` | `HandleTable` |
| Local heap | `winkrnl/LocalMem.c` | arenas in a data segment, free list, handle tables | `TWIN_LocalInit`, `TWIN_LocalAlloc` with `LocalExpand`, `TWIN_LocalFree`, `LocalLock`, `TWIN_LocalReAlloc` | `LocalHeap` |
| Timers | `winkrnl/SysMisc.c`, `pal/x11/XEvents.c` | 48 slots with remaining times; the driver's idea of the time | `SetTimer`, `KillTimer`, `TWIN_GetTimeout`, `TWIN_GetTimerMsg`, `DriverWaitEvent` | `Timers` |
| Atoms | `winkrnl/KrnAtoms.c` | slots with counts, and a heap of names | `AddAtomEx`, `FindAtomEx`, `DeleteAtomEx`, `GetAtomNameEx`, `LockAtomEx` | `AtomTable` |
| Clipboard | `winkrnl/Clipboard.c`, `pal/x11/DrvIPC.c` | shared by processes: an X selection, a table of formats, a property per format | opening, closing, emptying, reading, writing, registering formats | `Clipboard` |
| x86 interpreter | `intp32/interp_main.c`, `hsw_interp.h` | what the last instructions left for the flags | 16-bit arithmetic, logic, shifts, rotations, flag instructions, conditional jumps | `Interp` |

How they interact:

* `GetMessage` (in `TWIN_DriverMessage`) looks, in this order, for sent messages
  (`TWIN_ReceiveMessage`), in the task's queue, in the system queue, for paint and
  other flags, for a timer; then it polls the driver, yields, and if no other
  task can run blocks in the driver.  `TaskMsg` has this loop from the tasks' side
  with the queue as a counter, `QueueList` has one walk over a queue, `Paint` the search
  for a window to paint, `Timers` the loop with the driver inside.
* `QueueGetMsg` on the system queue calls `TWIN_ForwardButtonEvent`, which
  sends messages to windows: arbitrary window procedures, also of other tasks, run
  while a walk is in progress.
* `ScheduleTask` polls the driver, whose events post messages and set flags, and
  reads the queues of all tasks to decide who runs.
* `DestroyWindow` flushes the task's queue but not the system queue;
  `QueueGetMsg` drops what it finds for windows that are gone.  It sends messages between
  its own steps, to procedures that create and destroy windows.
* `ShowWindow` asks the X server to map a window and runs the driver's event loop
  until its first Expose has arrived.
* Every object, windows and tasks included, is created and looked up in the
  object table; classes, properties and the registry use atoms.
* The clipboard is the one service that processes share; each call of its driver is
  several requests to the X server.

What is hard: not preemption inside a process (there is none) but re-entrance.  Any
call that sends a message may run any other code of any task before it returns, and
state kept in C locals across it may be stale.  Beyond that: the order in which frames
of different tasks are popped, wake-ups that must not be lost, time and visibility that
are reconstructed from what a server reports later, requests of two processes that
interleave, tables at their limits, and state that several operations leave in parts.

What makes each component correct:

* *queues*: no slot is lost or shared; messages are read in the order they were
  posted, each once, only by their owner and never for a dead window; a message
  that waits is eventually read;
* *tasks and sends*: the list of frames contains exactly the calls in progress;
  an answer reaches the call it belongs to; a message is received before anything
  else happens; sends return; tasks with messages run;
* *windows*: every window is in one list, once; groups are rings; nothing with the
  input is dead; owners outlive what they own; every window is told before it is freed;
* *painting*: what must be painted will be found; a call that waits for a window is
  answered;
* *object table*: handles and objects correspond one to one; locked objects
  stay; stale handles are recognised;
* *local heap*: arenas tile the segment; the free list is what is free; blocks keep
  their data and, while a pointer to them is in use, their place; nothing is lost;
* *timers*: none is forgotten, overslept, starved, or early;
* *atoms*: an atom means the name it was made for as long as somebody holds it;
* *clipboard*: one program has it at a time, and it never stays taken;
* *interpreter*: the flags and results are the processor's.

### Components that are not modelled

Hooks, DDEML, window properties and classes, hot keys, GDI, controls and dialogs, the
loader, global memory and files, the rest of the X11 driver, common dialogs and
controls, shell and registry, multimedia, the second (assembler) kernel in `kernel/` and
`dosx/`, the debugger and tools.  `PROJECT.json` gives the reason for each.  Most of the
repository's lines are in the last groups: drawing, file formats, user interface,
generated instruction decoders and example programs, where there is no behaviour over time
to check.  Window procedures (controls, dialogs, menus) are present in the models as what
they are for the kernel: code that may do anything between two kernel calls.

## 2. Modules and the code they model

A definition keeps the name of the function, variable or field it stands for.  A
definition whose comment begins with "Mutant" is a wrong version of the
definition that follows it: substituting it must make a property fail, which shows that
the property depends on this piece of code.  The modules that are checked together in
one run give their specifications names of their own (`TableSpec`, `TaskSpec`, ...).

**MsgDefs** holds the vocabulary: windows with their tasks and children, message
numbers (four, in the order of their real values, because filters compare them),
the filter of `QueueGetMsg`, which messages a caller owns.  *Parts* are the frame and
the scroll bars `AddScrollbar` makes: windows that are freed without a flush of their
messages.

**MsgQueue** is the abstract specification: a bounded sequence, where a read returns
the first message its caller may have, and FALSE from a task's own queue only when
there is none.  `got` makes the answer of a call visible: which call, which message.
Three liberties are in it on purpose: a message nobody can have may be discarded by
any read; a mouse message of the system queue may be addressed anew, or discarded,
when it is read; and a *peek* at the system queue may pass over input for a window
that a window procedure enables while mouse input is being forwarded.

**QueueList** is the implementation: `Message`, `lpNextMsg`, `lpQueueNext`,
`lpQueueFree` are the fields of the C structures, with slots as addresses and 0 as
NULL.  `QueueGetMsg` takes one step per slot.  `scans` is the stack of walks in progress,
each with the slot it is at (`lpQueueMsg`) and the one it saved (`lpQueueNext`, a
local).  `Examine`/`Settle` is the body of the loop; `Forward`, then `ForwardEaten`
or `Forwarded`, is the call of `TWIN_ForwardButtonEvent`, between which windows
are destroyed, created and enabled and, when `Reentrant`, the queue is used by
window procedures.  `fault` records that the search for a predecessor ran into
NULL.  `Abs` is the refinement mapping: the abstract queue is the list read off
from `lpQueueNext`.

**Links** has the one operator that the queues' slots and the frames of `SendMessage`
share: `Chain`, the list of cells read off from a first pointer and a function of next
pointers.

**TaskMsg** models a task by the stack of its activations (`app`, `wait`, `send`,
`proc`, `own`, `exit`, `sw`), because that is where the code keeps its state: an
`ITSMINFO` is a local variable of `SendMessage`, and its address is the pair of task
and depth.  A task gives up the processor only in `InternalDirectedYield`, so one
action is everything between two such points.  `ScheduleTask` is a function of the
list and flags; its odd case (the running task is itself pending deletion) is
kept.  The two branches of `SendMessage` are `SendMessage` with `SendReturn` (a window of another
task) and `CallOwn` with `OwnReturn` (a window of the task itself, as `DispatchMessage` does
it); both save, set and restore `bInSendMessage`.  `habit`, chosen at the start, says what
window procedures do besides sending messages: nothing (`plain`), run message loops when they
are called for another task's message (`yields`) or for any message (`dialogs`), or call
`ReplyMessage` before they return (`replies`).

**HandleTable**: tag numbers instead of pointers, handles with the real bit
operations (`OrMask`, `ClearMask`, truncation to a WORD), the free list as a
sequence, `NextToAllocate` with the comparison the code makes.  `held`, `locks`
and `gap` are what the clients know, and appear only in guards of client actions
and in properties.

**LocalHeap**: the segment as the C code lays it out.  Addresses are offsets in
bytes with the code's sizes: headers of 4 bytes, end markers of 12, the information block
of 48.  `heap.a` maps the address of an arena to its header, with the links in both
directions, the size and the links of the free list where the code writes them; the handle
tables are blocks of the heap.  The merges of `TWIN_LocalFree` and the two ways of carving
(`CarveFront` for fixed blocks, `CarveBack` for movable ones) are functions from heaps to
heaps.  An allocation is a `call` that goes on: growing the segment, placing a new handle
table, placing the block.  `LocalExpand` moves every movable block that is not locked.
`kept` is what the program knows: its handles, its locks, the pointer it got.  A discarded
block keeps its handle and the handle its old address, and `Free` frees that address again, as the
code does; `heap.left` has the headers that merges leave in free memory, which such a free may
read.  `spoiled` is a history variable: such a free changed an arena or read what is no header, or
the heap would grow, and move blocks, with one discarded.  There the model ends.

**WindowTree**: `wnd[w]` has the link fields of `HWND32` under their names; the lists
of `hWndChild` and `hWndSibling`, the rings of `hWndGroup` and `hWndLastChild`.  One
action per call, but for `DestroyWindow`, which is a stack of calls: while
`WM_PARENTNOTIFY` is sent (`notify`), while owned windows are destroyed (`owned`, with the
sibling the loop saved in `cur`), while the tree is told (`tell`, with the way down in
`path`).  Between any two of these a window procedure may destroy other windows.  Activation
raises windows during a walk; `overtaken` is a history variable with the windows that were raised
while their owner is looking for them (see below).  When one of them loses its owner the model
shows that state and ends (`OwnersOutlive` in `WindowNext`), because the owner's handle may become
another window's.

**Paint**: the flags are sets of windows (`WFDIRTY`, `WFCHILDDIRTY`, `WFMAPPED`, ...).
`Search` is the walk of `InternalUpdateWindows`, one `Turn` of its loops after the other, with its
way up and down and with what it unmarks on the way; that `MaxTurns` turns are enough is proved.  `ShowShell` asks the server and waits (`waiting`); `Shown`
is the end of that wait.  `xwin` and `xqueue` are the X server and window manager: windows
become mapped, covered, uncovered and damaged when they want, and events are handled later,
an Expose together with all other waiting ones.  `cut` records that the search stood at
a marked window without children, where it loses the remaining siblings (see below).

**Timers**: time passes only in `Sleep`, one unit at a time, inside `select`.  `drv` is
the activation of `DriverWaitEvent` with its locals (`timer`; `armed` and `delta` for
`timestart`; `slept`).  `behind` is the time since the stamp in `ServerTime`.  The
driver is entered from three places, so `pc` has `poll`, `sched` and `block`, and the
scheduler chooses any other task with something to do (`TaskMsg` has the exact
choice).  `unreported` is a history variable used in one run only.

**AtomTable**: the slots with `q`, `idx`, `idsize`, `refcnt`, and `AtomData` as a
sequence of characters, a character being a string and a position in it: what
matters is whether the string at an index is still the one that was put there.
`atomRefs` counts the references clients have, by slot *and name*.  Numbers and hashes are in one
field and are compared alike, so a number may go by a string's atom, or find it later, when the room of
another is reused (`Goes`); `Alone` are the names to which that cannot happen.

**Clipboard**: programs are processes.  `prog[p].at` is the request to the X server that
a call is waiting for, so that requests of several programs interleave in every order; a
program may end or die at any of them.  `SEVERE` is the build option that grabs the server
while the clipboard is opened; both builds are in the model.

**Interp**: an instruction computes no flags.  `lazy` is what it leaves (`RES`, `CARRY`,
the signs of `SRC1` and `SRC2`), `IS_CF_SET` and the others are the macros that read it, and
`trans_interp_flags`, `trans_flags_to_interp` and `log_rot` go through a flags word.  `cpu`
are the flags by the definition of the instructions over signed and unsigned numbers.
`known` is the set of flags in which the interpreter is meant to agree; what it is left
out for is said at each instruction (undefined by the processor, or wrong, see
below).  Because they live in parts that different instructions write, it is the
*sequences* of instructions that matter, and TLC runs them all.

**MCMessages**, **MCParts** and **MCWindows** check parts that share no state side by side: an
initial state chooses one of them (`part`), and the behaviour stays in it.  The state spaces add up;
they do not multiply.  `MCMessages` takes a queue (`QueueList`) and the tasks (`TaskMsg`), whose
`queued` is all that scheduling asks of a queue: whether it is empty.

## 3. Runs

The MC modules give sets and functions their values; cfg files do the rest.

| Run | Instance | What it shows |
|---|---|---|
| `parts` | *queue*: one of 2 slots, 3 posts, a window with a scroll bar.  *objects*: 2 blocks of 2 tags, counts that stick at 2, up to 3 locks, two types.  *atoms*: three strings of lengths 2, 3, 4, the two longer with the same hash; two numbers, one of them the hash of the shortest string; 3 slots, 2 references per atom.  *heap*: two objects of 12 or 22 bytes in a heap of 136 bytes that grows once by 32, tables of 2 entries.  *clipboard*: two programs, text, one predefined and one registered format.  *flags*: five values per width around 0 and the sign, counts 1, 3, 7 | The abstract queue keeps its promises; the table is filled to its end; names, counts and reuse of room; the heap fills, merges, grows, moves and discards; opening and closing interleave; flags after any sequence of instructions. |
| `messages` | *queue* of a task: 3 slots, 4 posts (front and back), four kinds of calls (plain, peek, window filter, message range).  *tasks*: three that start and end, 5 activations each and 10 together, one counted call per window procedure, three habits | The lists partition the pool, and every step is a step of the abstract queue.  The frames, the answers, the pick-up and the InSend flag. |
| `messages_live` | *system queue*: 3 slots, 3 posts for two tasks that call `GetMessage`, keys put at the front for one, keys and mouse input for the other.  *tasks*: three that start and stay, 4 activations and one posted message each.  Fair | The cursor of a walk stays valid while windows come and go, owners of skipped input are woken, the abstract queue is implemented, input does not wait for ever, also behind input that overtakes it.  Sends return, tasks with messages run. |
| `system_queue_reentrant` | the system queue with two nested walks | *Violation*: see findings. |
| `flag_left_set` | three tasks with window procedures that run message loops in messages of their own task, or that reply early | *Violation*. |
| `discarded_freed` | the instance of `parts` | *Violation*. |
| `owner_outlived` | the instance of `windows` | *Violation*. |
| `handles_overrun` | 2 blocks of 2 tags, 5 objects wanted | *Violation*. |
| `timers` | two tasks, one window, 2 slots, timeouts 1 and 3 with a "second" of 2, one X event; fair | Timers of both tasks fire for ever whatever the tasks do between their calls of GetMessage. |
| `timers_early` | one task, with the history variable | *Violation*. |
| `windows` | *lists*: three windows of two tasks, of all kinds, nested destruction.  *owners*: four top-level windows.  *painting*: a window with two children and a grandchild, 2 waiting X events | The lists and rings, the input, owners, the order of destruction; painting and waiting. |
| `hidden_mapped` | the painting instance | *Violation*. |

Several properties are conjunctions of named parts, each with its own comment and (where
code can break it alone) its own mutant: `HeapExact` (the chain of arenas, the free list),
`BlocksKept` (data stay, pinned pointers stay), `NothingLost` (room, handles), `LinksExact`
(lists, dialog groups), `NothingDangles` (input, owners), `InstructionsExact` (flags,
results), and the type invariants `PartsTypeOK` and `WindowsTypeOK`.  The type invariants of
`QueueList`, `TaskMsg` and `Timers` are the first conjuncts of `PoolIsPartitioned`,
`SendStackIntact` and `MaxTimerCovers`.  That a queue never exceeds its slots is a
theorem (`QueueBounded`), and follows for the lists from `PoolIsPartitioned`.

Why the bounds are enough to be interesting: three slots are the least for a
removal with a message on both sides; three tasks let a third one send, or end,
between a send and its answer, and five activations hold a send, a procedure, a nested
send and its procedure with a switch on top; 10 together are two tasks in messages of their own, with
a loop in the procedure and a switch on top, and a third task.  A table of two blocks is filled,
refilled and exhausted.  With timeouts 1 and 3 and a second of 2, timeouts below a
second, above one and not a multiple of one all occur.  Three sizes of names
give a choice between rooms to reuse.  A heap of 136 bytes holds two blocks only with a
growth, tables of 2 entries (one handle each) need a second table, and sizes 12 and 22
leave remainders below and above `MIN_DIFF`.  Three windows are a parent or owner, a
child, and another that is destroyed in between; two are of one task so that activation has
a choice.  A fourth is needed for a walk to be overtaken: an owner, two windows it owns, and one owned by
the first of these, or another to activate.  In `messages` and `windows` the bounds on all activations
(`FewActive`) and the end of the model (`OwnersOutlive`) are also CONSTRAINTs of the cfg; the
properties hold in the states where `OwnersOutlive` fails, too.  A chain of three windows and a sibling lets the search go down twice, up, and
across.  With 0, 1, the two numbers on either side of the sign and all ones, every carry and
overflow of both widths occurs.

The bounds on counters (`MaxPosted`, `MaxQueued`, `MaxDepth`, `MaxActive`, `MaxCalls`, `MaxObjects`, `MaxLocks`,
`HeapLocks`, `SegMax`, `MaxEvents`, `MaxTable`, `MaxRefs`, `Catchers`) are guards of the
actions they bound.  `OnlyOpens` in `MCParts` is the bound of the clipboard of the default
build: its programs open, empty, read and close but do not write, because two of them can
have it open at once and no property says anything of what they then write.

Symmetry is used in `messages` (all tasks but the native one are interchangeable),
`parts` (types of objects; objects of the heap) and `windows` (windows of one task); no
liveness is checked there.  Deadlock is checked except in `parts`, where a full bounded
table leaves nothing to do, and in `timers`, where no timer and no more events means that
everybody waits for input.

### Fairness

* `QueueList!QueueFair`: a walk in progress goes on (it is straight-line
  code), and each task calls `GetMessage` again and again (strongly fair,
  because another task's walk disables the call for a while).  That every task gets
  its turn is what `RunAgain` checks.  It does not replace the wake-up of a task that sleeps: that
  owners are woken is `OwnersWoken`.
* `TaskMsg!TaskFair`: the kernel steps of the running task happen, and application
  code that is run again and again eventually makes a call that gives up the
  processor.  This is what cooperative multitasking asks of programs: one that never
  yields stops the system, and no kernel could help.
* `Timers!FairSpec`: the driver's and the kernel's steps go on (`Sleep` is time
  passing), and each task that runs again and again comes back to `GetMessage`.  No
  fairness is assumed of X events, timers or peeks.

The other modules state no fairness.  That the wait of `ShowWindow` ends is checked as
the invariant `WaitIsAnswered`: what it waits for has happened or the server owes it.

`MCFairSpec` is the specification of `messages_live`: a behaviour is fair as the module it uses
asks.

### Findings

1. **A re-entrant walk removes a slot twice** (`system_queue_reentrant`).
   `QueueGetMsg` keeps its cursor across `TWIN_ForwardButtonEvent`.  A window procedure
   that reads messages there removes the slot the outer walk is at, and the outer
   walk's search for the message before it follows the NULL at the end of the list.
2. **`bInSendMessage` stays TRUE** (`flag_left_set`).  Two tasks are in messages of their own, each
   in a message loop; the one that came first returns first and restores FALSE, the other restores
   the TRUE it found.  `ReplyMessage`, too, lets calls return out of order (the same run with
   `Habits = {"replies"}`).  `InSendNested` shows that in systems where procedures neither reply
   early nor run message loops in messages of their own task the flag is restored, however calls
   of several tasks nest.
3. **A full object table is overrun** (`handles_overrun`).  `++NextToAllocate == 256`
   fails once; as unused tags are left then, the call is served, and the next one stores
   a block behind the array.
4. **Timers of a second and more can be early** (`timers_early`).  `select` gets whole
   seconds, and all milliseconds are reported as waited.
5. **A hidden window is taken for mapped** (`hidden_mapped`).  `ShowWindow(SW_HIDE)`
   flushes exposes and then resets `WFMAPPED`, with a comment that says why; but the flush is
   given window 0 and handles none.  An Expose that waits is handled afterwards and sets the
   flag again; the next `ShowWindow` finds a window that is visible already.
6. **A discarded block is freed twice** (`discarded_freed`).  `LocalReAlloc(h, 0)` leaves the old
   address in the handle's entry and `LocalFree(h)` frees it again.  If the arena there is still free
   it is linked to itself, and the next search of the free list does not end; if another block has
   been put there, that block is freed.
7. **A window outlives its owner** (`owner_outlived`).  `DestroyWindow` saves the next sibling and
   destroys an owned window; if that was active, activation passes to another, which is raised to
   the top.  If this one too is owned by the window being destroyed and was still ahead, the walk does
   not meet it any more, and `hWndOwner` names a freed window (`WindowCreate.c:847-856`; the walk
   starts all over only when the saved sibling is gone).

Seen while modelling, without a run of their own:

* *Scheduler*: when the running task is pending deletion `ScheduleTask` restarts at
  the head of the list, so two tasks that keep launching programs that end can starve a third
  (`KrnTask.c:538`; this is why `messages_live` has `Exits = FALSE`).
* *Sends*: procedures that both yield and reply early can answer the wrong call.
* *Object table*: from tag 8192 on OM_MASK is part of the tag number and two
  objects share a handle (`ObjEngine.c:307`; `Fits` excludes it).  Freeing a handle twice puts
  its tag on the free list twice (`ObjEngine.c:446`).
* *Timers*: those of ended tasks stay, and once run out make the driver poll for
  ever (`SysMisc.c:134`); time of `select` timeouts since the last event stamp is counted
  twice (`XEvents.c:166`).
* *Atoms*: the number of an integer atom and the hash of a string are the same field, and
  `FindAtomEx` gives a number the atom of any string whose hash it is (`KrnAtoms.c:177`; a character
  code: the hash of a string is that of its last character), and with it the string as its name; a
  string whose hash is a number can have two atoms when the room of a deleted one is reused.
  `HeldAtomsKept` says what is left: `Goes`.  Adding and deleting the same name takes a new atom each time
  (`KrnAtoms.c:212`); deleting once too often takes a count to -1; a
  string whose hash is an integer atom that was added before any string is compared with an
  `AtomData` that is NULL (`KrnAtoms.c:180`).  The table of global atoms
  is read, changed and written back without a lock (`DrvIPC.c:671-815`).
* *Queues*: `SetMessageQueue(0)` uses a slot behind its allocation; converted messages
  are in a ring of 16 static buffers (`Kernel.c:459`).
* *Local heap*: growing the heap frees and moves a discarded block too
  (`LocalMem.c:652`); `LocalReAlloc` of a locked block loses the
  old block and the lock, and a failed one loses the block (`LocalMem.c:415ff`).
* *Windows*: a window that is raised goes behind the first window that is not one of its
  popups (`WindowPos.c:1074`), so a foreign window stays above it; a window destroyed again
  from its own WM_DESTROY is unlinked after it was freed; a child that destroys itself in
  WM_DESTROY keeps its remaining siblings from being told; WM_NCCREATE answered by 0 frees the
  window without unlinking it; `SetParent` leaves `hWndOwner`, and does not look whether the new parent
  is below the window (`WindowCreate.c:936`); `ChangeZOrder` puts a window behind one of another
  list without a look at its parent (`WindowPos.c:1204`).
* *Painting*: the search that meets a marked window without children skips the
  rest of its siblings and unmarks their parent (`WindowRedraw.c:180`; `PaintIsDue` excepts
  this with `cut`); a window that was hidden without redrawing and is shown again waits for an
  Expose that does not come (`WindowPos.c:936`).
* *Clipboard*: the default build grabs nothing, and two programs have it open; a failed
  `OpenClipboard` leaves `winOwner` set, and a later `CloseClipboard` releases another
  program's selection; every program that starts resets the shared table of formats.
* *Interpreter*: ADC and SBB compute OF wrongly when operand and carry make 0x80 or
  0x8000, NEG of these does not set it; the CF of ROR is the bit beside the one rotated out;
  RCR of a byte by one loses CF (`interp_main.c:4377`); SAR of a word in memory extends the
  sign of its low byte (`interp_main.c:4207`); the OF that PUSHF writes is not the one jumps
  read; SAHF clears OF and DF.
* *Hooks*: `UnhookWindowsHookEx` of the first hook drops the chain (`Hook.c:104-106`).
* *GDI*: `SaveDC` and `RestoreDC` do not adjust the locks of selected objects
  (`GdiDC.c:548`).

## 4. Proofs

The modules of theorems are for all values of the constants that satisfy the named assumptions
of the modules (`DefsAssumption`, `TableAssumption`, `TimerAssumption`, ...).  Each component's proof shows that
an inductive invariant holds initially and is kept by every action, one lemma per action (or
kind of step), and derives the properties from it.  The invariants were model-checked on the
instances of the runs before they were proved.

**QueueList_proofs** has two invariants.
`PoolInv == SlotsOK /\ WalksOK /\ OthersOK` says that there are two disjoint injective
sequences that follow the links from `lpNextMsg` and `lpQueueFree` to NULL and cover the pool.
`PoolIsPartitioned` alone speaks of `Waiting`, which is read off by the recursive function
`Chain`; lemma `ChainOfLinks` (by induction over positions) shows that any such
linked sequence *is* what `Chain` reads off, and one lemma for each way the code changes links
(append, push, remove with the search of the predecessor, flush, allocation) says what the new
sequences are.  `PoolStaysPartitioned` holds for re-entrant walks too.

The other results are for `~Reentrant`, because the run `system_queue_reentrant` refutes them
otherwise.  `WalkInv` adds that there is only one walk and that it is at a position `k` of the list (`AtWalk`):
the slot it is at is the k-th, the one it saved is the (k+1)-th or NULL, and the messages before `k`
have been passed over for a reason (`Passed`): they are not for the caller, and if they are for
another task that task is ready.  `OwnersWoken` alone is about the end of a walk and not
inductive.  It gives `RemovalsFindTheirSlot`, `NextSlotIsFresh` and `LeftInputWakesItsOwner`.
`ListImplementsQueue` is the refinement: under the mapping `Abs`, `Init` maps to the initial states
of `MsgQueue`, and each action, given `PoolInv` and `WalkInv` before and after, to one action of it
or a stutter: a step of a walk over a message that nobody can have is a discard, the last step of a
walk is a `Read`, with the position of `WalkInv` as the witness and the skipped messages as its
guard.  The operators `Without` and `Flushed` of the abstract module are related to the changed links by
lemmas about positions (`Removed`, `PoolFlush`).

**Parts_proofs** has four parts that stand alone.

*Abstract message queue.*  `InvHolds` shows `Spec => []Inv`, with
`Inv == TypeOK /\ Bounded /\ Ordered /\ IdsUsed /\ NoOrphan`.  `Ordered` compares the
ids of waiting messages and is not inductive: a new message could have an id that is
already waiting.  `IdsUsed` (no id above `posted` has been given out) excludes
that.  One lemma covers removal at a position, one insertion at
either end, one the flush, where the increasing map of positions carries the order
over, one the reads and one the rest.  `QueueTypeCorrect`, `QueueBounded`, `QueueOrdered` and
`QueueNoOrphan` follow.

*Object table.*  Under the capacity condition `Fits` (with the constants of
the code: up to 7836 objects at a time),
`TableIInv == TableTypeOK /\ TagsPartitioned /\ Counted /\ LocksCounted /\ Delayed` is inductive.
`Counted` bounds the number of allocated tags by the number of objects, because a block
is only added when fewer than `LowWater` tags are unused: this is why neither the bit
`OM_MASK` nor the end of the table is ever reached.  `LocksCounted` ties the count, or
its stuck value, to the locks of clients.  `Delayed` says that a tag at position i of
the free list was freed at least `LowWater - i` creations ago: refilling puts new tags
before it, never behind.  From it follow `ObjectsTyped`, `TagsStayPartitioned`,
`HandlesCorrect` (with the arithmetic of handles in lemma `TagOfHandle`),
`LockedObjectsSurvive`, `StaleHandlesRejected` and `NoOverrun`, which complements
the finding: overrun takes more objects than `Fits` allows.

The objects of the run `parts` are deliberately outside `Fits`: their table is filled to
the end.  `StaleRejected` is conditional on a table that can still grow for this reason.

*Atoms.*  `AtomIInv == AtomTypeOK /\ SlotsOK /\ RoomsApart /\ OneSlotEach /\ NoneBeyond`.
A slot is unused or in use under one name (`InUseAs`): it has the name's hash, its characters are in
place, all references held to it are under that name or a number with the same hash, and the count of a
string's slot is their number.  Nothing is assumed of hashes and numbers: they may collide.
An unused slot keeps its room, and rooms are in the order of the slots and do not overlap (`RoomsApart`), which is
why writing a name into a reused room or at the end destroys no other.  `OneSlotEach` is what
makes the search by hash and text find the slot the client holds, for names that do not collide.
`AtomsKeepTheirNames` and `CountsAreReferences`, both about all names, follow.

*Clipboard.*  `ClipIInv == ClipTypeOK /\ PhasesOK /\ OwnerKnown /\ Exclusive /\
PredefinedListed /\ DataOwned`.  What a program may rely on depends on the request it is
waiting for, so `PhasesOK` says for each request whether the program runs and has the clipboard
open, `OwnerKnown` that the owner of the selection knows it and will give it back, `Exclusive` that
with the grab a program that is opening holds the server and one that has opened owns the selection,
and `DataOwned` whose data are in the properties after emptying, and while and after writing.  `NeverStuck` is proved for both
builds, `OpenIsExclusive` and `ReadsItsOwn` for the SEVERE one, for any number of programs that may
die between any two requests.

**Timers_proofs**: `IInv == TableOK /\ TasksOK /\ DriverOK /\ ClockOK`.  `MaxTimerCovers` is
inductive with its types.  `NoOversleep` is about the moment the driver sleeps; `TimerInForce`
ties the locals of `DriverWaitEvent` to the table from the time they are computed (which timer is
the next, and what is left of its timeout or of the second after which `select` is
called again) while the clock moves.  `EveryTimerIsSearched` and `DriverWakesInTime` follow.

**TaskMsg_proofs** proves the four invariants of `TaskMsg` that `messages` checks, for any number of tasks, any depth of
nesting, any bound on the sends of a procedure and all four habits (a procedure that both yields and
replies early is not among them, see the findings).  `IInv` says that there is a sequence
`q` of frames, the last one first, of which `Inv(q)` holds:

* `TasksOK` and `StacksOK`: the shape of every task's activations.  A task that is not running ends in
  a switch (`sw`); a doomed one is in its `exit` and nothing above it but a switch; a task runs a
  message loop (`wait`) only at its top level or in a procedure of the habits `yields` and `dialogs`; with
  other habits than `dialogs` a procedure of the task's own message has nothing above it but sends
  and messages of its own.
* `LinksOK(q)`: `q` follows `lpPrev` from `lpSendMessageStack` to NULL without repeating.
  `CallsListed(q)`: `q` has exactly the calls in progress, and of one task the innermost first.
* `MessagesOK(q)`: a message nobody has seen is the first of `q`, and its receiver is the running task,
  about to look.  One that is answered belongs to the running task and is the first of `q` (or, where
  procedures do not yield, comes right after a call of the same task), with the answer of its own
  handler, or 0 for a receiver that ended.
* `InSendOK(q)`: the first call saved FALSE, so the last to return restores it.
* `ProcsOK(q)`: if procedures do not reply early, the message each procedure answers still waits for
  it, and is nearer the front of `q` than the calls its task makes further down; no two procedures
  answer the same frame.  `HandlersOK(q)`: if procedures do not yield, a received message is in the
  hands of a procedure that is running or has sent the next message of `q`.

`SendStackIntact` alone is not inductive.  That the frame `SendMessage` pops when it returns is the
first of the list follows from `CompletedOK` and the order of `q`; that a procedure's return
answers its own message from `ProcsOK` or, for those that reply early, `HandlersOK`; that the frames
of a task are gone when it is freed from the shape of a doomed task's activations.  There is one lemma per action;
what they share is about pushing on and popping from a stack of activations (`ShapePushed`,
`ShapePopped`) and about sending, answering and returning as changes of `q`.  From it follow
`FramesStayLinked` (where `Chain` reads off `q`, and `q` has as many elements as there are calls),
`RepliesComeFromHandlers`, `MessagesArePickedUp` and `InSendIsRestored`.  `InSendIsRestored` is not
stated for procedures that reply early or run message loops in messages of their own task, where the
run `flag_left_set` refutes it; the others are proved for them as well.

**Interp_proofs** proves the whole of `Interp`: `IInv` is `InterpTypeOK`, `InstructionsExact`,
`JumpsDecide` and that the stored flags and the lazy parts agree with what the processor would have
(`Agree`), for every set of operands and counts.  There is one lemma per group of instructions.  A
width stands for two powers of two, unfolded once (`Powers`, `Sizes`); a count splits a width in two
factors (`Exponents`), and a shift or rotation is then a statement about quotients and remainders by
these factors, which follow from their uniqueness (`Divided`, `Unique`).  Without the restriction of the
model to the flags that are known after an instruction the theorem would be false: the deviations of
section 3 are exactly the flags that are not counted as known.

**Paint_proofs** is for any tree of windows.  `Upward`, the windows above one, is the least set with
the parents of its members, so what holds of it is shown by giving such a set; that every window is
at or below a top-level one needs that no window is above itself (`TreeAssumption`).  The proof has
two invariants.  `SearchInv` is kept by every turn of the search: a window that needs painting and
whose way down is marked is still ahead (`NoneLost`), that is, it is among the siblings from the one
looked at on, or below one of them, or what is left of a list further up leads to it.  A measure of
what is left (`Left`: the marks, and the siblings ahead) falls with every turn, hence
`SearchEnds`, and a search that finds nothing and never stood at a marked window without children has
left no such window (`FoundFacts`).  Over the steps of the
system `IInv == PaintTypeOK /\ MappedChildren /\ ShellsKnown /\ WaitVisible /\ PaintIsDue`:
`PaintIsDue` needs that the server knows the visible top-level windows, and that one which it shows
is mapped or has its Expose in the queue (`ShellsKnown`); otherwise a window could become visible
without an Expose to come.  `WaitIsAnswered` follows from it, `MappedChildren` and `WaitVisible`: a
call only waits for a window that is visible.  `PaintTyped`, `PaintsAreDue`, `WaitsAreAnswered` and
`SearchesEnd` state the results.

**WindowTree_proofs** is for any finite set of windows, any tasks, and any nesting of destructions that
window procedures start.  The invariant is `IInv`: `Whole`, that is
`WindowTypeOK /\ Everyone(wnd) /\ Kin(wnd) /\ InputIsLive /\ CallsIn(wnd, Live(wnd), calls, told)`,
or `Bereft`: what is left of it in the state in which an overtaken window has lost its owner, where the
model ends.  The theorems hold in both.

* `Everyone` (`HasLists`, `HasRings`): every list is a sequence (`Listed`, tied to `Children` by
  `ChainOfLinks`) of exactly the windows that belong there, and `hWndGroup` is a permutation of the
  windows within these lists.  The functions that change links are composed of one-link changes
  (`Headed`, `Followed`, `Grouped`, `Lasted`); taking a window out is `Cut`, putting it in is `Put`, and
  the order of the other windows (`Above`) is carried along.  `HasRings` says that the successors are
  different; `GroupsAreRings` alone would not be kept when a window leaves.
* `Kin`: there is a rank that rises from parents and owners to what depends on them.  It is why the
  upward loops end, why `Subtree` and `Doomed` behave (`SubtreeSteps`, `DoomedTrans`,
  `DoomedAcyclic`), and why freeing a tree leaves no child behind.  A window that is reparented gets a
  new rank, with all that depends on it.
* `CallsIn`: for every call of `DestroyWindow` under way, what it holds is not among what the calls
  above it destroy (`Apart`); while it walks over owned windows, each of these is ahead of the walk or
  is destroyed by a call it made (`WalkAt`); while it tells its tree, whoever was not told is still to
  come on the way down or beside it (`RestOf`).

`NothingDangles` and `ToldBeforeFreed` need `CallsIn`: when a walk finds no more, nothing is owned any
more but what is `overtaken`, and when the telling ends, everybody was told.  Freeing below the other calls, and raising a window by
activation, are one lemma (`CallsStay`): what is freed is held by no call, and the one window that is raised is not
looked for, is destroyed already, or is overtaken.  `WindowTyped`, `LinksAreExact`, `HandlesAreLive` and
`FreedWereTold` state the results.

Lemmas shared by these modules are in **Lemmas**: least and greatest elements, induction over the
naturals with a predicate given as a set, sequences with an element added at either end, and
`ChainOfLinks`: a sequence that follows the links *is* what `Chain` reads off, which every proof about
a list in memory needs once.

Some definitions were restated for the provers, without a change of meaning: the lists are read off
by a recursive function (`Chain`) instead of a RECURSIVE operator, folds became quantified
definitions, record sets have names.

Only model-checked: the properties of `LocalHeap`, where the chain of arenas and the free list are read
off from byte addresses and `LocalExpand` is a fold over moves that each free and carve (a proof needs an
induction over the handles with all of `HeapExact`, `BlocksKept` and `NothingLost` as its hypothesis), and
all liveness (`SendReturns`, `RunAgain`, `EventuallyRead`, `TimersKeepFiring`), which needs fairness
and ENABLED.

## 5. Assumptions and limits

* Passing runs of the system queue have `Reentrant = FALSE`: window procedures called
  during a walk destroy, create and enable windows but do not read messages.
* Window procedures make a bounded number of sends.  They either yield or reply early,
  not both, and reply early only to other tasks; `SendReturns` is for those that do neither.
* A task ends from its own top level.  `FatalAppExit` inside a window procedure, and
  `TerminateTask`, are not modelled.  A created task is yielded to at once, as the
  loader does.
* `SetMessageQueue` is called with sizes from 1 and not below a `GetMessage` of the same
  task.
* Clients of the object table, of atoms and of the local heap free, lock and delete only
  what they hold.  A program reallocates no block it has locked; it has one local heap.
  `HeapExact`, `BlocksKept` and `NothingLost` end where the address of a discarded block is used
  (`spoiled`): what the heap does after finding 7, and a growth with a discarded block, are not followed.
* Windows are shown when created and hidden only to be destroyed; owners are top-level
  windows; a window with an owner, or that owns others, is not given a new parent; a
  procedure does not destroy a window that is being destroyed already (but while
  `WM_PARENTNOTIFY` is sent it may), and leaves other messages to `DefWindowProc`.  Programs put a
  window behind one of the same list (`Restack`; `WindowPos.c:1204-1245` takes any) and give it no
  parent from its own tree (`SetParent`; `WindowCreate.c:936-952` does not look).  What
  happens after finding 9 is not followed.
* Painting: one task; no `SWP_NOREDRAW`, minimized windows or `WFNCDIRTY`; a region is
  the window as a whole, with both outcomes where the code computes one.
* Timers: the run has two slots, where the `nOffset` all tasks share cannot starve a timer
  (`SysMisc.c:225`); time passes only in `select`; `ServerTime` is known from the start and event
  stamps are times of the server; tasks and windows do not end; `PM_NOYIELD` and filters
  for other tasks' windows are left out.
* Atoms: no string is compared while `AtomData` is NULL (`Comparable`), where the program
  stops; the table stays within the range of an ATOM.  Global atoms, shared by processes through the
  driver, are not modelled.
* Clipboard: a program closes what it opened, reads while it is open, and writes one
  format after it emptied.  `OpenIsExclusive` and `ReadsItsOwn` are for drivers
  built with SEVERE.
* Interpreter: rotations by less than 8; no PF and AF; a flags word popped from memory has
  not both ZF and SF.
* Storage of the host is never exhausted (`WinMalloc` succeeds), as the code assumes too.

## 6. Plan

Done: the message queues with their abstract specification, tasks and sends, windows and
painting, the object table, the local heap, timers, atoms, the clipboard, the
interpreter's flags; proofs for the message queues and their refinement, tasks and sends, the object
table, atoms, timers, the clipboard, the interpreter, painting and windows.

Next theorems, of *LocalHeap*: first `HeapExact` for `FreeAt`, `Place` and `NewEnd`, which is a fact about
one change of the chain each; then `BlocksKept` and `NothingLost` with the move of one block as a lemma.

Next modules:

1. *Hooks* (`Hook.c`): chains per type with hooks removed while one runs.
2. *Global atoms and DDEML* (`KrnAtoms.c`, `ddeml/DdeML.c`): the table that processes
   copy from each other; composed with `AtomTable`.
3. *Selection of GDI objects* and *module reference counts*, over `HandleTable`.
4. *GetMessage as a whole*: `QueueList`, `TaskMsg`, `Paint` and `Timers` composed with the
   exact scheduler.
