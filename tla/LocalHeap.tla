----------------------------- MODULE LocalHeap -----------------------------
(***************************************************************************)
(* The local heap of a 16-bit program (winkrnl/LocalMem.c): arenas inside  *)
(* a data segment, each headed by the addresses of its neighbours, with    *)
(* the unused ones linked a second time in order of their addresses.       *)
(* Fixed blocks are taken from the front and named by their address,       *)
(* movable ones from the back and named by an entry of a handle table,     *)
(* which is itself a fixed block.  When nothing fits the segment grows,    *)
(* and every movable block that is not locked is moved towards the end.    *)
(*                                                                         *)
(* Addresses are offsets in the segment, in bytes, with the sizes of the   *)
(* code: a header of 4 bytes, end markers of 12, a heap information block  *)
(* of 48.  A bit of the word that holds the previous arena says that the   *)
(* arena is in use; here it is the field used.                             *)
(*                                                                         *)
(* A discarded block keeps its handle, and the handle the address where    *)
(* the block was: TWIN_LocalFree of it frees what is at that address now,  *)
(* and growing moves it.  Both are followed to the point where they do     *)
(* harm (spoiled), and no further.                                         *)
(***************************************************************************)
EXTENDS Integers, Sequences, FiniteSets, SequencesExt, FiniteSetsExt, Functions

CONSTANTS
    Objs,        \* the things a program keeps in its heap
    Sizes,       \* how many bytes it asks for
    Discardable, \* whether it asks for discardable blocks, or for both kinds
    uStartAddr,  \* where the heap begins
    InitEnd,     \* where it ends after TWIN_LocalInit (uEndAddr)
    Grow,        \* min amount to grow DS (0x200)
    SegMax,      \* the largest segment (0x10000)
    Delta,       \* entries of a handle table (INIT_DELTA, 0x40)
    HeapLocks     \* bound: locks of one block

ASSUME HeapAssumption ==
    /\ {uStartAddr, InitEnd, Grow, SegMax, Delta, HeapLocks} \subseteq Nat
    /\ uStartAddr % 4 = 0 /\ InitEnd % 4 = 0 /\ Grow % 4 = 0 /\ Grow > 0
    /\ InitEnd >= uStartAddr + 60 + 16 + 12 /\ SegMax >= InitEnd
    /\ Delta >= 2 /\ uStartAddr >= 16
    /\ Sizes \subseteq Nat /\ Discardable \subseteq BOOLEAN

VARIABLES
    heap,   \* the segment: arenas, handle tables, heap information
    kept,   \* what the program keeps: for each object its handle, or None
    call,   \* the allocation in progress, or NoCall
    spoiled \* history: the address of a discarded block has been used

lhvars == <<heap, kept, call, spoiled>>

\* What a program knows of an object: see kept below.
Obj(h, n, movable, at) ==
    [h |-> h, n |-> n, movable |-> movable, locks |-> 0, gone |-> FALSE, at |-> at]
None == Obj(0, 0, FALSE, 0)
NoCall == [n |-> 0]

MIN_DIFF == 16
uFirst == uStartAddr
InfoBlock == uStartAddr + 12

Round4(n) == ((n + 3) \div 4) * 4
MaxOf(a, b) == IF a >= b THEN a ELSE b

(***************************************************************************)
(* heap.a maps the address of every arena to its header.  heap.last is the *)
(* end marker, heap.tables the handle tables in the order of their links,  *)
(* heap.entry their entries, heap.nextH the word 0x16 of the heap          *)
(* information (0: none), heap.data what a program stored in a block.  The *)
(* fields size, pf and nf of an arena in use are the program's data.       *)
(* heap.left are the headers that merges left behind in the free room: they *)
(* can be read there until a block is put somewhere.                       *)
(***************************************************************************)
Arena(p, u, n, s, pf, nf) ==
    [prev |-> p, used |-> u, next |-> n, size |-> s, pf |-> pf, nf |-> nf]

TWIN_LocalInit ==
    LET last == InitEnd - 12
        free == uFirst + 60
    IN [a |-> [x \in {uFirst, InfoBlock, free, last} |->
                 CASE x = uFirst -> Arena(uFirst, TRUE, InfoBlock, 0, uFirst, free)
                   [] x = InfoBlock -> Arena(uFirst, TRUE, free, 0, 0, 0)
                   [] x = free -> Arena(InfoBlock, FALSE, last, last - free - 4,
                                        uFirst, last)
                   [] x = last -> Arena(free, TRUE, last, 0, free, last)],
        last |-> last, limit |-> InitEnd, tables |-> <<>>, entry |-> <<>>,
        nextH |-> 0, data |-> <<>>, left |-> <<>>]

(***************************************************************************)
(* Entries of handle tables.  The last entry of a table links to the next  *)
(* one, so a table has Delta - 1 handles.                                  *)
(***************************************************************************)
HandlesOf(t) == [i \in 1..(Delta - 1) |-> t + 2 + 4 * (i - 1)]
AllHandles(h) == FlattenSeq([i \in 1..Len(h.tables) |-> HandlesOf(h.tables[i])])
IsMovableHandle(h, hloc) ==
    \E i \in 1..Len(h.tables) :
        hloc >= h.tables[i] /\ hloc < h.tables[i] + Delta * 4
\* A free entry: the pointer and flags left in it are not looked at again.
FreeEntry == [ptr |-> 0, disc |-> FALSE, gone |-> FALSE, lock |-> 255]

(* Mutant: an entry without locks is taken for a free one. *)
FindUnlockedHandle(h) ==
    LET hs == SelectSeq(AllHandles(h), LAMBDA x : h.entry[x].lock \in {0, 255})
    IN IF hs = <<>> THEN 0 ELSE Head(hs)

\* FindNextMovableHandle: the first entry that is marked free, or 0.
FindNextMovableHandle(h) ==
    LET hs == SelectSeq(AllHandles(h), LAMBDA x : h.entry[x].lock = 255)
    IN IF hs = <<>> THEN 0 ELSE Head(hs)

(***************************************************************************)
(* TWIN_LocalFree of the arena at uCurr: merged with free neighbours, or   *)
(* linked behind the nearest free arena before it.                         *)
(***************************************************************************)
(* Mutant: the arena behind the merged one keeps its old predecessor. *)
MergeIntoPrevOneWay(a, p, n) == [a EXCEPT ![p].next = n, ![p].size = n - p - 4]

\* Absorb the arena c into the free arena p before it.
MergeIntoPrev(a, p, n) ==
    [a EXCEPT ![p].next = n, ![p].size = n - p - 4, ![n].prev = p]

(* Mutant: the place in the free list is always that of the arena behind. *)
MergeNextAlone(a, p, c, prevUsed) ==
    LET n  == a[c].next
        b  == [a EXCEPT ![p].next = n, ![n].prev = p, ![p].size = n - p - 4]
        pf == b[c].pf
        nf == b[c].nf
    IN [b EXCEPT ![p].pf = pf, ![pf].nf = p, ![p].nf = nf, ![nf].pf = p]

\* Let the arena p take over the place of the free arena c behind it in both
\* lists.  prevUsed: p was not free itself until now.
MergeNext(a, p, c, prevUsed) ==
    LET n  == a[c].next
        b  == [a EXCEPT ![p].next = n, ![n].prev = p, ![p].size = n - p - 4]
        pf == IF prevUsed THEN b[c].pf ELSE b[p].pf
        nf == b[c].nf
    IN [b EXCEPT ![p].pf = pf, ![pf].nf = p, ![p].nf = nf, ![nf].pf = p]

\* The headers on the chain, and not those that it passes over.
OnChain(a) == {x \in DOMAIN a : x = uFirst \/ a[a[x].prev].next = x}

\* The nearest free arena before c, or the first arena.
PrevFreeOf(a, c) ==
    LET before == {x \in OnChain(a) : x < c /\ (x = uFirst \/ ~a[x].used)}
    IN CHOOSE x \in before : \A y \in before : y <= x

LinkFree(a, c) ==
    LET pf == PrevFreeOf(a, c)
        nf == a[pf].nf
    IN [a EXCEPT ![c].pf = pf, ![pf].nf = c, ![nf].pf = c, ![c].nf = nf,
                 ![c].size = a[c].next - c - 4]

FreeArena(a, uCurr) ==
    LET p  == a[uCurr].prev
        n  == a[uCurr].next
        a1 == [a EXCEPT ![uCurr].used = FALSE]
        fIsNextUsed == a1[n].used
        fIsPrevUsed == a1[p].used
        a2 == IF fIsPrevUsed THEN a1 ELSE MergeIntoPrev(a1, p, n)
        c  == IF fIsPrevUsed THEN uCurr ELSE p
        a3 == IF fIsNextUsed THEN a2 ELSE MergeNext(a2, c, n, fIsPrevUsed)
    IN IF fIsPrevUsed /\ fIsNextUsed THEN LinkFree(a1, uCurr) ELSE a3

\* Nothing tells what memory without a header is taken for: that free is not
\* followed (see spoiled).
FreeAt(h, uCurr) ==
    LET headers == h.left @@ h.a
        freed   == FreeArena(headers, uCurr)
        on      == OnChain(freed)
    IN IF uCurr \notin DOMAIN headers THEN h
       ELSE [h EXCEPT !.a = Restrict(freed, on),
                      !.left = Restrict(freed, DOMAIN freed \ on),
                      !.data = Restrict(h.data, DOMAIN h.data \ {uCurr})]

(* Mutant: the handle is freed and its arena forgotten. *)
LocalFreeEntryOnly(h, hloc) ==
    IF ~IsMovableHandle(h, hloc) THEN FreeAt(h, hloc - 4)
    ELSE IF h.entry[hloc].lock # 0 THEN h
    ELSE [h EXCEPT !.entry[hloc] = FreeEntry, !.nextH = IF hloc < @ THEN hloc ELSE @]

\* TWIN_LocalFree: a handle of a locked block is returned, and nothing freed.
TWIN_LocalFree(h, hloc) ==
    IF ~IsMovableHandle(h, hloc) THEN FreeAt(h, hloc - 4)
    ELSE IF h.entry[hloc].lock # 0 THEN h
    ELSE FreeAt([h EXCEPT !.entry[hloc] = FreeEntry,
                          !.nextH = IF hloc < @ THEN hloc ELSE @],
                h.entry[hloc].ptr - 4)

(***************************************************************************)
(* The search for a free arena, and its division.                          *)
(***************************************************************************)
\* The free list: forwards along nf from the first arena, and backwards along
\* pf from the last, without the two end markers.
Walk(succ, from, to) ==
    LET at[k \in 0..Cardinality(DOMAIN succ)] ==
            IF k = 0 THEN from ELSE succ[at[k - 1]]
    IN SelectSeq([k \in 1..Cardinality(DOMAIN succ) |-> at[k]], LAMBDA x : x # to)
FreeSeq(h) == Walk([x \in DOMAIN h.a |-> h.a[x].nf], uFirst, h.last)
FreeSeqBack(h) == Walk([x \in DOMAIN h.a |-> h.a[x].pf], h.last, uFirst)
Fitting(h, s, n) == SelectSeq(s, LAMBDA x : h.a[x].size >= n)

InUse(x) == Arena(x.prev, TRUE, x.next, 0, 0, 0)

\* The whole free arena c is used.
TakeWhole(a, c) ==
    LET pf == a[c].pf
        nf == a[c].nf
    IN [a EXCEPT ![c] = InUse(@), ![pf].nf = nf, ![nf].pf = pf]

\* s bytes (and a header) from the front of the free arena c.
CarveFront(a, c, s) ==
    LET new == c + s + 4
        n   == a[c].next
        pf  == a[c].pf
        nf  == a[c].nf
        b   == a @@ (new :> Arena(c, FALSE, n, n - new - 4, pf, nf))
    IN [b EXCEPT ![c] = [InUse(@) EXCEPT !.next = new], ![n].prev = new,
                 ![pf].nf = new, ![nf].pf = new]

(* Mutant: the header of the new arena is forgotten. *)
CarvedAtNoHeader(a, f, s) == a[f].next - s

\* s bytes (and a header) from the back of the free arena f; the new arena
\* is at CarvedAt(a, f, s).
CarvedAt(a, f, s) == a[f].next - s - 4
CarveBack(a, f, s) ==
    LET c == CarvedAt(a, f, s)
        n == a[f].next
        b == a @@ (c :> Arena(f, TRUE, n, 0, 0, 0))
    IN [b EXCEPT ![n].prev = c, ![f].next = c, ![f].size = c - f - 4]

(***************************************************************************)
(* LocalExpand: the segment grows; the old end marker becomes free space;  *)
(* then every unlocked movable block is moved to the last place it fits.   *)
(***************************************************************************)
\* The new end marker.  When the last arena was in use, the old marker
\* becomes a free arena and the new one is written without the used bit.
NewEnd(h, end) ==
    LET last  == h.last
        new   == end - 12
        p     == h.a[last].prev
        pf    == h.a[last].pf
        grown == (new :> [h.a[last] EXCEPT !.next = new, !.nf = new])
        merged == [Restrict(h.a, DOMAIN h.a \ {last}) EXCEPT
                     ![p].nf = new, ![p].size = new - p - 4, ![p].next = new]
        linked == [h.a EXCEPT
                     ![last] = Arena(p, FALSE, new, new - last - 4, pf, new),
                     ![pf].nf = last]
    IN [h EXCEPT !.last = new, !.limit = end,
                 !.a = IF p = pf THEN merged @@ grown
                       ELSE linked @@ (new :> [grown[new] EXCEPT !.pf = last,
                                               !.prev = last, !.used = FALSE])]

\* One movable block is moved (the body of the loop over the table).
MoveBlock(h, hd) ==
    LET from == h.entry[hd].ptr - 4
        sz   == h.a[from].next - from - 4
        h1   == FreeAt(h, from)
        f    == Head(Fitting(h1, FreeSeqBack(h1), sz))
        carve == h1.a[f].size - sz > MIN_DIFF
        at   == IF carve THEN CarvedAt(h1.a, f, sz) ELSE f
    IN [h1 EXCEPT !.a = IF carve THEN CarveBack(@, f, sz) ELSE TakeWhole(@, f),
                  !.left = <<>>,
                  !.entry[hd].ptr = at + 4,
                  !.data = IF from \in DOMAIN h.data
                           THEN (at :> h.data[from]) @@ @ ELSE @]

(* Mutant: locked blocks are moved too. *)
LocalExpandLocked(h, end) ==
    FoldLeft(LAMBDA g, hd : IF g.entry[hd].lock # 255 THEN MoveBlock(g, hd) ELSE g,
             NewEnd([h EXCEPT !.left = <<>>], end), AllHandles(h))

LocalExpand(h, end) ==
    FoldLeft(LAMBDA g, hd : IF g.entry[hd].lock = 0 THEN MoveBlock(g, hd) ELSE g,
             NewEnd([h EXCEPT !.left = <<>>], end), AllHandles(h))

(***************************************************************************)
(* TWIN_LocalAlloc: the first arena of the list that is large enough, from *)
(* the front for a fixed block and from the back for a movable one.        *)
(***************************************************************************)
AtLeast8(n) == MaxOf(n, 8)
Candidates(h, fMovable, n) ==
    Fitting(h, IF fMovable THEN FreeSeqBack(h) ELSE FreeSeq(h), n)

\* The block is taken from the free arena f; its arena is at PlacedAt.
PlacedAt(h, fMovable, f, n) ==
    IF fMovable /\ h.a[f].size - n >= MIN_DIFF THEN CarvedAt(h.a, f, Round4(n)) ELSE f
Place(h, fMovable, f, n) ==
    LET s == Round4(n)
    IN CASE h.a[f].size - n < MIN_DIFF -> TakeWhole(h.a, f)
         [] h.a[f].size - n >= MIN_DIFF /\ fMovable -> CarveBack(h.a, f, s)
         [] OTHER -> CarveFront(h.a, f, s)

\* uMaxSize, the largest arena seen: only the search from the front sees any.
uMaxSize(h, fMovable) ==
    IF fMovable THEN 0
    ELSE Max({0} \cup {h.a[x].size : x \in Range(FreeSeq(h))})
(* Mutant: the room for the block alone is added, not a multiple of Grow. *)
ExpandedToFit(h, fMovable, n) == h.limit + n - uMaxSize(h, fMovable)

ExpandedEnd(h, fMovable, n) ==
    h.limit + ((n - uMaxSize(h, fMovable)) \div Grow + 1) * Grow

\* AllocMovableHandleTable, once it has its fixed block: a table of free
\* entries is linked to the last one.
WithTable(h, t) ==
    [h EXCEPT !.tables = Append(@, t), !.nextH = t + 2,
              !.entry = @ @@ [x \in Range(HandlesOf(t)) |-> FreeEntry]]

\* The pointer a program gets for a handle (TWIN_LocalLock).
LockedPtr(h, hloc) == IF IsMovableHandle(h, hloc) THEN h.entry[hloc].ptr ELSE hloc

-----------------------------------------------------------------------------
(***************************************************************************)
(* The program.  kept[o] is what it knows of an object: the handle, how    *)
(* many bytes it asked for, its locks, and the pointer it may use (a fixed *)
(* block has one all the time, a movable one while it is locked).          *)
(*                                                                         *)
(* call is the call of TWIN_LocalAlloc in progress: for a handle table     *)
(* first, if table, then for the block itself.                             *)
(*                                                                         *)
(* spoiled: a discarded block was freed, and that changed the arenas or    *)
(* read memory that holds no header; or the heap grew, which moves         *)
(* unlocked blocks, the discarded ones too.  What the program and the heap *)
(* do then is not followed.                                                *)
(***************************************************************************)
CallOf(o, n, movable, disc, table) ==
    [o |-> o, n |-> n, movable |-> movable, disc |-> disc, table |-> table]

HeapInit ==
    /\ heap = TWIN_LocalInit
    /\ kept = [o \in Objs |-> None]
    /\ call = NoCall
    /\ spoiled = FALSE

AllocFixed(o, n) ==
    /\ call = NoCall /\ kept[o] = None
    /\ call' = CallOf(o, n, FALSE, FALSE, FALSE)
    /\ UNCHANGED <<heap, kept, spoiled>>

AllocMovable(o, n, disc) ==
    /\ call = NoCall /\ kept[o] = None
    /\ call' = CallOf(o, n, TRUE, disc, heap.nextH = 0)
    /\ UNCHANGED <<heap, kept, spoiled>>

Wanted == AtLeast8(IF call.table THEN Delta * 4 + 2 ELSE call.n)
Movable == call.movable /\ ~call.table
Room == Candidates(heap, Movable, Wanted)

\* There is room for the handle table.
TablePlaced ==
    /\ call # NoCall /\ call.table /\ Room # <<>>
    /\ heap' = WithTable([heap EXCEPT !.a = Place(heap, FALSE, Room[1], Wanted),
                                      !.left = <<>>], Room[1] + 4)
    /\ call' = [call EXCEPT !.table = FALSE]
    /\ UNCHANGED <<kept, spoiled>>

\* There is room for the block: it gets its handle, and a movable one's entry.
BlockPlaced ==
    /\ call # NoCall /\ ~call.table /\ Room # <<>>
    /\ LET at == PlacedAt(heap, Movable, Room[1], Wanted)
           hd == heap.nextH
           g  == [heap EXCEPT !.a = Place(heap, Movable, Room[1], Wanted),
                              !.data = (at :> call.o) @@ @, !.left = <<>>]
           m  == [g EXCEPT !.entry[hd] = [ptr |-> at + 4, disc |-> call.disc,
                                          gone |-> FALSE, lock |-> 0]]
       IN IF call.movable
          THEN /\ heap' = [m EXCEPT !.nextH = FindNextMovableHandle(m)]
               /\ kept' = [kept EXCEPT ![call.o] = Obj(hd, call.n, TRUE, 0)]
          ELSE /\ heap' = g
               /\ kept' = [kept EXCEPT ![call.o] = Obj(at + 4, call.n, FALSE, at + 4)]
    /\ call' = NoCall
    /\ UNCHANGED spoiled

\* Nothing fits: the segment grows and the search is repeated.
Expand ==
    /\ call # NoCall /\ Room = <<>>
    /\ ExpandedEnd(heap, Movable, Wanted) <= SegMax
    /\ spoiled' = \E o \in Objs : kept[o].gone
    /\ heap' = IF spoiled' THEN heap
               ELSE LocalExpand(heap, ExpandedEnd(heap, Movable, Wanted))
    /\ UNCHANGED <<kept, call>>

\* Nothing fits and the segment has its largest size.
AllocFails ==
    /\ call # NoCall /\ Room = <<>>
    /\ ExpandedEnd(heap, Movable, Wanted) > SegMax
    /\ call' = NoCall
    /\ UNCHANGED <<heap, kept, spoiled>>

\* The arena a handle leads to: of a discarded block, where it was.
BlockOf(o) == LockedPtr(heap, kept[o].h) - 4

\* A locked block is not freed, and stays the program's.  A discarded one is
\* freed again.
Free(o) ==
    /\ call = NoCall /\ kept[o] # None
    /\ heap' = TWIN_LocalFree(heap, kept[o].h)
    /\ kept' = [kept EXCEPT ![o] = IF @.locks > 0 THEN @ ELSE None]
    /\ spoiled' = /\ kept[o].gone
                   /\ \/ heap'.a # heap.a
                      \/ BlockOf(o) \notin DOMAIN (heap.left @@ heap.a)
    /\ UNCHANGED call

Lock(o) ==
    /\ call = NoCall /\ kept[o] # None /\ kept[o].movable /\ ~kept[o].gone
    /\ kept[o].locks < HeapLocks
    /\ heap' = [heap EXCEPT !.entry[kept[o].h].lock = @ + 1]
    /\ kept' = [kept EXCEPT ![o].locks = @ + 1,
                            ![o].at = LockedPtr(heap, kept[o].h)]
    /\ UNCHANGED <<call, spoiled>>

Unlock(o) ==
    /\ call = NoCall /\ kept[o] # None /\ kept[o].locks > 0
    /\ heap' = [heap EXCEPT !.entry[kept[o].h].lock = @ - 1]
    /\ kept' = [kept EXCEPT ![o].locks = @ - 1,
                            ![o].at = IF kept[o].locks = 1 THEN 0 ELSE @]
    /\ UNCHANGED <<call, spoiled>>

\* TWIN_LocalReAlloc: the contents are saved, the block freed and another one
\* allocated, a movable one under the same handle; of a discarded block only
\* the handle is freed.  When there is no room for the new size the old block
\* is gone all the same.  The program reallocates no block it has locked.
ReAlloc(o, n) ==
    /\ call = NoCall /\ kept[o] # None /\ kept[o].locks = 0
    /\ LET r == kept[o]
           freed == IF r.gone THEN [heap EXCEPT !.entry[r.h] = FreeEntry]
                    ELSE TWIN_LocalFree(heap, r.h)
       IN /\ heap' = IF r.movable THEN [freed EXCEPT !.nextH = r.h] ELSE freed
          /\ call' = CallOf(o, n, r.movable, r.movable, FALSE)
    /\ kept' = [kept EXCEPT ![o] = None]
    /\ UNCHANGED spoiled

\* TWIN_LocalReAlloc with size 0: a discardable block gives its room back and
\* keeps its handle.
DiscardBlock(o) ==
    /\ call = NoCall /\ kept[o] # None /\ kept[o].movable /\ ~kept[o].gone
    /\ LET hd == kept[o].h
           e  == heap.entry[hd]
       IN /\ e.lock = 0 /\ e.disc
          /\ heap' = FreeAt([heap EXCEPT !.entry[hd].gone = TRUE,
                                         !.entry[hd].disc = FALSE], e.ptr - 4)
    /\ kept' = [kept EXCEPT ![o].gone = TRUE]
    /\ UNCHANGED <<call, spoiled>>

HeapNext ==
    /\ ~spoiled
    /\ \/ TablePlaced \/ BlockPlaced \/ Expand \/ AllocFails
       \/ \E o \in Objs :
           \/ \E n \in Sizes : AllocFixed(o, n) \/ ReAlloc(o, n)
           \/ \E n \in Sizes, disc \in Discardable : AllocMovable(o, n, disc)
           \/ Free(o) \/ Lock(o) \/ Unlock(o) \/ DiscardBlock(o)

HeapSpec == HeapInit /\ [][HeapNext]_lhvars

-----------------------------------------------------------------------------
Live == {o \in Objs : kept[o] # None /\ ~kept[o].gone}

(* The end marker is where the segment ends, within its limit, and arenas   *)
(* start at multiples of 4 up to it: growing is by multiples of Grow.       *)
HeapTypeOK ==
    /\ heap.last = heap.limit - 12 /\ heap.limit <= SegMax
    /\ \A x \in DOMAIN heap.a : x % 4 = 0 /\ x \in uFirst..heap.last

\* The arenas are one chain without holes from the first to the last, each
\* knowing both neighbours, and no two free arenas are neighbours: every
\* merge and division of TWIN_LocalAlloc, TWIN_LocalFree and LocalExpand
\* leaves both directions of the chain in step.
ArenasChained ==
    /\ {uFirst, heap.last} \subseteq DOMAIN heap.a
    /\ \A x \in DOMAIN heap.a \ {heap.last} :
         LET n == heap.a[x].next
         IN /\ n \in DOMAIN heap.a /\ heap.a[n].prev = x
            /\ n - x >= 12
            /\ ~\E y \in DOMAIN heap.a : x < y /\ y < n
            /\ n # heap.last => heap.a[x].used \/ heap.a[n].used

\* The free list holds exactly the free arenas, in the order of their
\* addresses, the same in both directions, with their true sizes; so what
\* TWIN_LocalAlloc looks through is what can be used.
FreeListExact ==
    LET fs == FreeSeq(heap)
    IN /\ Range(fs) = {x \in DOMAIN heap.a : ~heap.a[x].used} \ {heap.last}
       /\ \A i \in 1..(Len(fs) - 1) : fs[i] < fs[i + 1]
       /\ Reverse(fs) = FreeSeqBack(heap)
       /\ \A x \in Range(fs) : heap.a[x].size = heap.a[x].next - x - 4

\* A program finds what it stored: each object's handle leads to an arena in
\* use, with room for what was asked for, holding this object's data, however
\* often the heap grew and blocks were moved.
ObjectsKept ==
    \A o \in Live :
        /\ BlockOf(o) \in DOMAIN heap.a /\ heap.a[BlockOf(o)].used
        /\ heap.a[BlockOf(o)].next - BlockOf(o) - 4 >= kept[o].n
        /\ heap.data[BlockOf(o)] = o

\* A pointer a program may use stays good: a fixed block, and a movable one
\* while it is locked, is where it was when the program got the pointer.
PinnedStay ==
    \A o \in Live : kept[o].at # 0 => kept[o].at = BlockOf(o) + 4

\* No arena is lost: every arena in use is the heap's own, a handle table or
\* the block of an object the program still has.
NoLeak ==
    {x \in DOMAIN heap.a : heap.a[x].used} \ {uFirst, InfoBlock, heap.last}
        = {BlockOf(o) : o \in Live} \cup {t - 4 : t \in Range(heap.tables)}

\* The handle the next movable block will get is not in use, and the handles
\* of the program are different entries.
NextHandleFree ==
    /\ heap.nextH # 0 => heap.entry[heap.nextH].lock = 255
    /\ \A o, p \in Objs : o # p /\ kept[o] # None /\ kept[p] # None
                          => kept[o].h # kept[p].h

\* Until a discarded block is freed, or the heap grows without it, the arenas
\* are what their links say, in the chain and in the free list: what one call
\* leaves wrong in one of them the next ones spread.
HeapExact == spoiled \/ (ArenasChained /\ FreeListExact)

\* Until then a program's blocks keep their data, and their place while it is
\* in use.
BlocksKept == spoiled \/ (ObjectsKept /\ PinnedStay)

\* Until then neither room nor a handle is lost or given out twice.
NothingLost == spoiled \/ (NoLeak /\ NextHandleFree)

\* Following the links of free arenas from the first arena one comes to the
\* last, as the search of TWIN_LocalAlloc and WalkFreeList do.  After a free
\* of a discarded block one need not.
FreeListEnds == Len(FreeSeq(heap)) < Cardinality(DOMAIN heap.a)
=============================================================================
