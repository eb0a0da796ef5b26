---------------------------- MODULE HandleTable ----------------------------
(***************************************************************************)
(* The object table of winkrnl/ObjEngine.c: every window, task, GDI object *)
(* ... is created, found, locked and freed through HandleObj.              *)
(*                                                                         *)
(* lplpArray holds up to TableBlocks blocks of BlockSize OBJTAGs.  Tag     *)
(* number n is lplpArray[n / BlockSize][n % BlockSize]; its handle is      *)
(* 2n with the bit OmMask set.  Unused tags are a list from FreeHead to    *)
(* FreeTail, linked through lpObjInfo; freed ones go to its tail, the tags *)
(* of a new block to its head.                                             *)
(*                                                                         *)
(* Clients free and lock only objects they have: the table itself does not *)
(* notice a handle that is freed twice.                                    *)
(***************************************************************************)
EXTENDS Integers, Sequences, FiniteSets

CONSTANTS
    BlockSize,    \* 256
    TableBlocks,  \* 256
    OmMask,       \* OM_MASK, 0x4000
    WordSize,     \* 65536: the WORD a handle is cut to when it is looked up
    LowWater,     \* 100: a block is added when fewer tags are unused
    RefLimit,     \* 0x8000: wRefCount is read as a signed short
    Signature,    \* object types
    NoType,       \* a signature HandleObj does not know
    MaxObjects,   \* bound: objects at one time
    MaxLocks      \* bound: locks on one object at one time

ASSUME TableAssumption ==
    /\ {BlockSize, TableBlocks, OmMask, LowWater, RefLimit} \subseteq Nat \ {0}
    /\ {WordSize, MaxObjects, MaxLocks} \subseteq Nat
    /\ LowWater <= BlockSize
    /\ NoType \notin Signature

(* The objects and the spare tags stay below the tag whose number has the   *)
(* bit OmMask: up to 7836 objects with the constants of the code.           *)
MaxTags == MaxObjects + LowWater + BlockSize
Fits ==
    /\ 2 * MaxTags <= OmMask
    /\ OmMask <= WordSize
    /\ MaxTags <= TableBlocks * BlockSize

VARIABLES
    NextToAllocate,  \* last block allocated, -1 at first
    freeList,        \* the unused tags, FreeHead first
    FreePoolSize,
    busy,            \* tags with OE_BUSY
    wObjSignature,   \* wObjSignature[n], wRefCount[n]: of the object in tag n
    wRefCount,
    overrun,         \* a block pointer was stored past the end of lplpArray
    held,            \* tags whose object was created and not freed by its owner
    locks,           \* locks[n]: LOCKHNDs of that object without UNLOCKHND
    gap              \* gap[n]: objects created since tag n was freed

tablevars == <<NextToAllocate, freeList, FreePoolSize, busy, wObjSignature,
          wRefCount, overrun, held, locks, gap>>

Tag == 0 .. (TableBlocks * BlockSize - 1)
Blocks == IF NextToAllocate < TableBlocks THEN NextToAllocate + 1 ELSE TableBlocks
Allocated == Blocks * BlockSize

(* The bit OmMask of x; x | OM_MASK; x & ~OM_MASK. *)
HasMask(x) == (x \div OmMask) % 2 = 1
OrMask(x) == IF HasMask(x) THEN x ELSE x + OmMask
ClearMask(x) == IF HasMask(x) THEN x - OmMask ELSE x

(* Mutant: the tag number is not shifted to make room for the low bit. *)
HandleUnshifted(n) == OrMask(n)

(* The handle of tag n, and the tag HandleObj finds for a handle.           *)
HandleOf(n) == OrMask(2 * n)
TagOf(h) == (ClearMask(h) % WordSize) \div 2

(* HM_CHECKHND and HM_GETOBJ. *)
CheckHnd(h, sig) ==
    /\ HasMask(h)
    /\ TagOf(h) < Allocated
    /\ TagOf(h) \in busy
    /\ wObjSignature[TagOf(h)] = sig

TableInit ==
    /\ NextToAllocate = -1
    /\ freeList = <<>>
    /\ FreePoolSize = 0
    /\ busy = {}
    /\ wObjSignature = [n \in Tag |-> NoType]
    /\ wRefCount = [n \in Tag |-> 0]
    /\ overrun = FALSE
    /\ held = {}
    /\ locks = [n \in Tag |-> 0]
    /\ gap = [n \in Tag |-> LowWater]

(* AllocateMoreObjects returns FALSE exactly when the counter reaches the   *)
(* size of the table; past that it stores outside the table.                *)
NeedMore == FreePoolSize < LowWater
CanAllocate == NextToAllocate + 1 # TableBlocks
Overruns == NeedMore /\ NextToAllocate + 1 > TableBlocks
NewBlock == [k \in 1..BlockSize |-> Allocated + k - 1]
Refilled == IF NeedMore /\ CanAllocate THEN NewBlock \o freeList ELSE freeList
PoolRefilled == IF NeedMore /\ CanAllocate THEN FreePoolSize + BlockSize ELSE FreePoolSize

(* HM_GETHND: a new object in the first unused tag, after more tags were    *)
(* allocated if few are left; nothing for a type it does not know.          *)
GetHnd(sig) ==
    /\ ~overrun /\ ~Overruns
    /\ Cardinality(held) < MaxObjects
    /\ Refilled # <<>>
    /\ NextToAllocate' = IF NeedMore THEN NextToAllocate + 1 ELSE NextToAllocate
    /\ IF sig = NoType
       THEN /\ freeList' = Refilled
            /\ FreePoolSize' = PoolRefilled
            /\ UNCHANGED <<busy, wObjSignature, wRefCount, held, gap>>
       ELSE LET n == Head(Refilled)
            IN /\ freeList' = Tail(Refilled)
               /\ FreePoolSize' = IF Tail(Refilled) = <<>> THEN 0 ELSE PoolRefilled - 1
               /\ busy' = busy \cup {n}
               /\ wObjSignature' = [wObjSignature EXCEPT ![n] = sig]
               /\ wRefCount' = [wRefCount EXCEPT ![n] = 0]
               /\ held' = held \cup {n}
               /\ gap' = [x \in Tag |-> IF x = n \/ gap[x] = LowWater
                                        THEN gap[x] ELSE gap[x] + 1]
    /\ UNCHANGED <<overrun, locks>>

(* HM_GETHND when the counter has passed the size of the table. *)
GetHndOverrun ==
    /\ ~overrun /\ Overruns
    /\ Cardinality(held) < MaxObjects
    /\ overrun' = TRUE
    /\ NextToAllocate' = NextToAllocate + 1
    /\ UNCHANGED <<freeList, FreePoolSize, busy, wObjSignature, wRefCount,
                   held, locks, gap>>

(* Mutants: the count wraps like any other number instead of sticking.      *)
LockUnlimited(n) ==
    /\ ~overrun /\ n \in held /\ n \in busy /\ locks[n] < MaxLocks
    /\ wRefCount' = [wRefCount EXCEPT ![n] = @ + 1]
    /\ locks' = [locks EXCEPT ![n] = @ + 1]
    /\ UNCHANGED <<NextToAllocate, freeList, FreePoolSize, busy,
                   wObjSignature, overrun, held, gap>>
UnlockSaturated(n) ==
    /\ ~overrun /\ n \in held /\ n \in busy /\ locks[n] > 0
    /\ wRefCount' = [wRefCount EXCEPT ![n] = IF @ > 0 THEN @ - 1 ELSE @]
    /\ locks' = [locks EXCEPT ![n] = @ - 1]
    /\ UNCHANGED <<NextToAllocate, freeList, FreePoolSize, busy,
                   wObjSignature, overrun, held, gap>>

(* HM_LOCKHND and HM_UNLOCKHND by a client that has object n (SelectObject, *)
(* SelectPalette, menus, bitmaps).  A count of RefLimit looks negative, and *)
(* neither changes it any more.                                             *)
LockHnd(n) ==
    LET t == TagOf(HandleOf(n))
    IN /\ ~overrun /\ n \in held /\ locks[n] < MaxLocks
       /\ t \in busy
       /\ wRefCount' = [wRefCount EXCEPT ![t] = IF @ < RefLimit THEN @ + 1 ELSE @]
       /\ locks' = [locks EXCEPT ![n] = @ + 1]
       /\ UNCHANGED <<NextToAllocate, freeList, FreePoolSize, busy,
                      wObjSignature, overrun, held, gap>>

UnlockHnd(n) ==
    LET t == TagOf(HandleOf(n))
    IN /\ ~overrun /\ n \in held /\ locks[n] > 0
       /\ t \in busy
       /\ wRefCount' = [wRefCount EXCEPT ![t] =
                          IF 0 < @ /\ @ < RefLimit THEN @ - 1 ELSE @]
       /\ locks' = [locks EXCEPT ![n] = @ - 1]
       /\ UNCHANGED <<NextToAllocate, freeList, FreePoolSize, busy,
                      wObjSignature, overrun, held, gap>>

(* Mutants: the tag of a freed object is lost, or pushed like on a stack.   *)
FreeHndLost(n, sig) ==
    /\ ~overrun /\ n \in held /\ n \in busy
    /\ wObjSignature[n] = sig /\ wRefCount[n] = 0
    /\ busy' = busy \ {n}
    /\ held' = held \ {n}
    /\ gap' = [gap EXCEPT ![n] = 0]
    /\ UNCHANGED <<NextToAllocate, freeList, FreePoolSize, wObjSignature,
                   wRefCount, overrun, locks>>
FreeHndFirst(n, sig) ==
    /\ ~overrun /\ n \in held /\ n \in busy
    /\ wObjSignature[n] = sig /\ wRefCount[n] = 0
    /\ busy' = busy \ {n}
    /\ freeList' = <<n>> \o freeList
    /\ FreePoolSize' = FreePoolSize + 1
    /\ held' = held \ {n}
    /\ gap' = [gap EXCEPT ![n] = 0]
    /\ UNCHANGED <<NextToAllocate, wObjSignature, wRefCount, overrun, locks>>

(* HM_FREEHND of object n under signature sig: nothing if the types differ  *)
(* or the object is locked; else its tag goes to the end of the list.       *)
FreeHnd(n, sig) ==
    LET t == TagOf(HandleOf(n))
        refused == wObjSignature[t] # sig \/ wRefCount[t] # 0
    IN /\ ~overrun /\ n \in held
       /\ t \in busy /\ ~refused
       /\ busy' = busy \ {t}
       /\ freeList' = Append(freeList, t)
       /\ FreePoolSize' = IF freeList = <<>> THEN 1 ELSE FreePoolSize + 1
       /\ held' = held \ {n}
       /\ gap' = [gap EXCEPT ![t] = 0]
       /\ UNCHANGED <<NextToAllocate, wObjSignature, wRefCount, overrun, locks>>

TableNext ==
    \/ \E sig \in Signature \cup {NoType} : GetHnd(sig)
    \/ GetHndOverrun
    \/ \E n \in Tag : LockHnd(n) \/ UnlockHnd(n)
    \/ \E n \in Tag, sig \in Signature : FreeHnd(n, sig)

TableSpec == TableInit /\ [][TableNext]_tablevars

-----------------------------------------------------------------------------
(* The variables are in range. *)
TableTypeOK ==
    /\ NextToAllocate \in Int /\ NextToAllocate >= -1
    /\ freeList \in Seq(Tag)
    /\ FreePoolSize \in Nat
    /\ busy \subseteq Tag /\ held \subseteq Tag
    /\ wObjSignature \in [Tag -> Signature \cup {NoType}]
    /\ wRefCount \in [Tag -> 0..RefLimit]
    /\ locks \in [Tag -> 0..MaxLocks]
    /\ gap \in [Tag -> 0..LowWater]
    /\ overrun \in BOOLEAN

(* Every tag of the allocated blocks is either in use or in the list, once: *)
(* HM_GETHND and HM_FREEHND lose no tag and hand none out twice, and        *)
(* FreePoolSize is the length of the list, on which refilling depends.      *)
TagsPartitioned ==
    /\ \A i, j \in DOMAIN freeList : freeList[i] = freeList[j] => i = j
    /\ \A n \in Tag : n < Allocated <=>
          n \in busy \/ \E i \in DOMAIN freeList : freeList[i] = n
    /\ \A i \in DOMAIN freeList : freeList[i] \notin busy
    /\ FreePoolSize = Len(freeList)

(* "hObj the HANDLE for this object": two objects that exist have different *)
(* handles, and looking a handle up gives the object it was made for.       *)
HandleFindsObject ==
    \A n \in held :
       /\ n \in busy /\ CheckHnd(HandleOf(n), wObjSignature[n])
       /\ \A m \in held : TagOf(HandleOf(m)) = n <=> m = n

(* An object that is locked is not freed, even when its count has got stuck *)
(* at RefLimit after too many locks.                                        *)
LockedSurvives ==
    \A n \in Tag : locks[n] > 0 => n \in held \cap busy /\ wRefCount[n] > 0

(* A handle that was freed is recognised as stale by HM_CHECKHND until at   *)
(* least LowWater - 1 other objects have been created, while the table can  *)
(* still grow.                                                              *)
StaleRejected ==
    NextToAllocate < TableBlocks =>
       \A n \in Tag : gap[n] < LowWater - 1 =>
          \A sig \in Signature : ~CheckHnd(HandleOf(n), sig)

(* A table that is full is reported ("Table overflow"), never overrun. *)
OverflowReported == ~overrun
=============================================================================
